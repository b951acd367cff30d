SPECIFICATION Spec
INVARIANTS
    
    
    LimitsHold
    RelayedToAddressee
    BrokerCorrect
    
    
SYMMETRY Symmetry
CHECK_DEADLOCK FALSE
CONSTANTS
    Replica = {r1, r2}
    Slot = {q1, q2}
    Model = {m}
    \* The parts never meet: the wallets share the symmetry of the daemon's models.
    Wallet = {m1, m2}
    NoWallet = NoWallet
    MaxTime = 2
    Conn = {q1, q2}
    Asker = Asker
    PresenceTTL = 1
    MaxOps = 3
    Tab = {q1, q2}
    NoChallenge = NoChallenge
    ChallengeTTL = 1
    SessionTTL = 1
    MaxNonce = 2
    IP = {i1, lo}
    Loopback = {lo}
    Limit = 2
    Window = 2
    UnitsPerToken = 2
    Rate = 2
    MaxCalls = 6
    Peer = {q1, q2}
    NoSocket = NoSocket
    MaxSockets = 2
    MaxMessages = 2
    Upload <- MCUpload
    ClientTTL = 0
    NonceTTL = 2
    Process = {q1, q2}
    Writer = {r1, r2}
    ModelID = {m1, m2}
    Index = {1}
    MaxStorage = 1
    NotListed = NotListed
    MaxCommands = 3
    NoTx = NoTx
    Tx <- MCTx
    Wanted = 1
    Seeder = 1
    Price = 2
    ClaimTTL = 2
