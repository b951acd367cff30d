SPECIFICATION FairSpec
CONSTANTS
    Socket = {k1, k2}
    Wallet = {w1, w2}
    Call = {a1, a2}
    NoSocket = NoSocket
    NoWallet = NoWallet
    NoCall = NoCall
    AuthRequired = FALSE
    MaxQueue = 1
INVARIANTS
    TypeOK
    OneLiveSocket
    NothingHeldBack
    OfflineIsRetried
    ExplicitIsQuiet
    TokenOfAddress
PROPERTY ComesBack
CHECK_DEADLOCK FALSE
