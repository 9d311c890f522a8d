SPECIFICATION Spec
CONSTANTS
    Slots = {a}
    Values = {0, 1, 2}
    Initial = 2
    Limit = 26
    SSTORE_SET = 9
    SSTORE_RESET = 6
    COLD_SLOAD_COST = 2
    WARM_STORAGE_READ_COST = 2
    ACCESS_LIST_STORAGE_KEY = 1
    CALL_STIPEND = 3
    CALLVALUE = 4
    Part = 4
    MEMORY = 1
    Quad = 2
    Quotient = 5
    U64 = 65536
    Words = {2}
    Asks = {60}
    MaxDepth = 3
    MaxStores = 4
INVARIANTS
    NoUnderflow
    NetMetered
    RefundSound
PROPERTY CallsMakeNoGas
CHECK_DEADLOCK FALSE
