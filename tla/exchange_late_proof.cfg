SPECIFICATION Spec
CONSTANTS
    full = full
    part = part
    Seeder = {full, part}
    Creator = {}
    NumChunks = 2
    Holds <- StoredBySeeder
    NumSlices = 2
    None = None
    MaxDrops = 0
INVARIANTS
    ProofIsHonoured
CHECK_DEADLOCK FALSE
