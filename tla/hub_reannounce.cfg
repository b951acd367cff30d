SPECIFICATION Spec
CONSTANTS
    Conn = {c1, c2}
    PeerId = {alice}
    Address = {a1}
    Model = {m1}
    NoConn = NoConn
    NoId = NoId
    NoAddress = NoAddress
    NoEntry = NoEntry
    NoMsg = NoMsg
    SendBuffer = 1
    MaxAge = 0
PROPERTY ReannouncedStays
CHECK_DEADLOCK FALSE
