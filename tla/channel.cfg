SPECIFICATION Spec
CONSTANTS
    Account = {x, y}
    ModelId = {m1}
    NoModel = NoModel
    SessionId = {s1, s2}
    NoSession = NoSession
    ZeroAddress = ZeroAddress
    Hash = {h}
    ZeroHash = ZeroHash
    Price = {0, 3}
    ShareBps = {99, 5000}
    ChunkCount = {0, 2}
    Deposit = {0, 3, 7}
    MaxBatch = 2
    Grace = 1
    MaxUint48 = 3
    MaxTime = 4
SYMMETRY Interchangeable
INVARIANTS
    TypeOK
    Solvent
    ChargedOncePerChunk
    LedgerMatches
    CreatorShareFair
    RefundAfterGrace
PROPERTIES
    ImplementsEscrow
CHECK_DEADLOCK FALSE
