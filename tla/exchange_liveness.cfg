SPECIFICATION FairSpec
CONSTANTS
    full = full
    part = part
    Seeder = {full, part}
    Creator = {full}
    NumChunks = 1
    Holds <- StoredBySeeder
    NumSlices = 1
    None = None
    MaxDrops = 1
PROPERTIES
    DownloadEnds
CHECK_DEADLOCK FALSE
