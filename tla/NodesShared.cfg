SPECIFICATION NodeFairSpec
CONSTANTS
    Token = {u}
    Request = {11, 12}
    Pid = {1, 2, 3}
    Port = {1, 2, 3}
    Other = Other
    Taken = {{}, {1}}
    MaxCrashes = 1
    MaxResets = 1
    MaxRounds = 1
    Null = Null
ACTION_CONSTRAINT SmallestFirst
INVARIANTS
    OneProcess
    RelayerWired
    ResetRestores
PROPERTY RequestAnswered
CHECK_DEADLOCK FALSE
