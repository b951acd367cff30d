SPECIFICATION Spec
INVARIANTS
    QueryCorrect
    
    
    
    
SYMMETRY Symmetry
CHECK_DEADLOCK FALSE
CONSTANTS
    Replica = {r1}
    Slot = {q1}
    Model = {m}
    Wallet = {w1, w2}
    NoWallet = NoWallet
    MaxTime = 2
    MaxQueries = 3
    \* The parts never meet: seeded models and listed ones share their symmetry.
    SeedModel = {t1, t2}
    NoModel = NoModel
    MaxSeeders = 3
    MaxPages = 2
    File <- MCFile
    NoFile = NoFile
    SizeOf <- MCSizeOf
    MaxHashings = 2
    NumPieces = 2
    OtherChain = OtherChain
    MaxRuns = 2
    MaxVisits = 2
    Title = {t1, t2}
    CacheTTL = 1
    QueryTimeout = 0
    MaxEvents = 3
