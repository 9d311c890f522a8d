SPECIFICATION SnapshotsSpec
CONSTANTS
    Miners = {c1}
    Tx = {t1}
    Keeper = 1
    StartTime = 1
    Seconds = {1}
    Stamps = {3}
    Resets = {2}
    NoTime = NoTime
    MaxWall = 2
    MaxBlocks = 3
    MaxNumber = 2
    MaxSnapshots = 2
    None = None
INVARIANTS
    InStep
    Increasing
PROPERTY RevertRestores
CHECK_DEADLOCK FALSE
