SPECIFICATION Spec
CONSTANTS
    InstanceIds = {i1}
    Launches = {l1, l2}
    Kills = {k1}
    Pruners = {p1}
    InstanceOf <- OneInstance
    None = None
    TicksPerSecond = 2
    NumAnvils = 1
    NumDaemons = 0
    Timeout = 1
    MaxTime = 4
    MaxFaults = 0
PROPERTIES
    PrunedOnlyWhenExpired
