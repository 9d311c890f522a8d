SPECIFICATION PoolSpec
CONSTANTS
    a0 = a0
    a1 = a1
    x0 = x0
    alice = alice
    m1 = m1
    None = None
    Hash = {a0, a1, x0}
    TxOf <- Txs
    Orders <- SomeOrders
    Sender = {alice}
    Miners = {m1}
    MayFail = {a0}
    Routes = {"raw", "rpc"}
    Modes = {"auto", "interval", "none"}
    max_transactions = 2
    BlockGasLimit = 3
    Drops = {a0}
    MaxSends = 1
    MaxBlocks = 2
    MaxQueue = 1
INVARIANTS
    PoolSound
    FollowsPredecessor
    NothingLost

CHECK_DEADLOCK FALSE
