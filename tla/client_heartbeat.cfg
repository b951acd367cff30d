SPECIFICATION Spec
CONSTANTS
    Socket = {k1, k2}
    Wallet = {w1, w2}
    Call = {a1}
    NoSocket = NoSocket
    NoWallet = NoWallet
    NoCall = NoCall
    AuthRequired = TRUE
    MaxQueue = 1
INVARIANT HeartbeatWhileOnline
CHECK_DEADLOCK FALSE
