SPECIFICATION Spec
CONSTANTS
    Conn = {c1, c2, c3}
    PeerId = {alice}
    Address = {a1, a2}
    Model = {m1}
    NoConn = NoConn
    NoId = NoId
    NoAddress = NoAddress
    NoEntry = NoEntry
    NoMsg = NoMsg
    SendBuffer = 1
    MaxAge = 1
SYMMETRY Interchangeable
INVARIANTS
    LiveIsRouted
    EntryHasOwner
    EntryShowsCurrentWallet
CHECK_DEADLOCK FALSE
