SPECIFICATION Spec
CONSTANTS
    InstanceIds = {i1}
    Launches = {l1, l2, l3}
    Kills = {k1}
    Pruners = {p1}
    InstanceOf <- OneInstance
    None = None
    TicksPerSecond = 2
    NumAnvils = 1
    NumDaemons = 1
    Timeout = 1
    MaxTime = 2
    MaxFaults = 1
ACTION_CONSTRAINT AllOrFaults
SYMMETRY RequestSymmetry
INVARIANTS
    IndexConsistent
    ContainersOwned
    VolumesOwned
    AnsweredMeansGone
    SoleLaunchIntact
