SPECIFICATION Spec
CONSTANTS
    Conn = {c1, c2}
    PeerId = {alice, bob}
    Address = {a1, a2}
    Model = {m1}
    NoConn = NoConn
    NoId = NoId
    NoAddress = NoAddress
    NoEntry = NoEntry
    NoMsg = NoMsg
    SendBuffer = 2
    MaxAge = 1
SYMMETRY Interchangeable
INVARIANTS
    TypeOK
    RoutesToRegistered
    EnvelopeAtAddressee
PROPERTY VanishesByOwnIdOrAge
CHECK_DEADLOCK FALSE
