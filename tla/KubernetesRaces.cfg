SPECIFICATION FairSpec
CONSTANTS
    InstanceIds = {i1}
    Launches = {l1, l2, l3}
    Kills = {k1, k2}
    InstanceOf <- OneInstance
    None = None
    TicksPerSecond = 1
    MaxFaults = 2
INVARIANTS
    LaunchedIsIntact
    PodsAccounted
    KilledIsGone
PROPERTIES
    KillAnswered
    LaunchAnswered
CHECK_DEADLOCK FALSE
