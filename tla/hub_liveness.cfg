SPECIFICATION FairSpec
CONSTANTS
    Conn = {c1, c2}
    PeerId = {alice, bob}
    Address = {a1}
    Model = {m1}
    NoConn = NoConn
    NoId = NoId
    NoAddress = NoAddress
    NoEntry = NoEntry
    NoMsg = NoMsg
    SendBuffer = 1
    MaxAge = 0
PROPERTIES
    ClosedIsCleanedUp
    NoEternalStale
CHECK_DEADLOCK FALSE
