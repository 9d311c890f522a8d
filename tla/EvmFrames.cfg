SPECIFICATION Spec
CONSTANTS
    eoa = eoa
    con = con
    new = new
    p3 = p3
    C = C
    NoCode = NoCode
    Vacant = Vacant
    Cold = Cold
    Nothing = Nothing
    Addr <- Accounts
    Key = {1}
    Val = {0, 1}
    Codes = {NoCode, C}
    Precompiles = {p3}
    PRECOMPILE3 = p3
    MaxNonce = 2
    Coinbase = new
    GasLimit = 1
    BaseFee = 1
    Tip = 1
    Values = {1}
    AccessLists <- SomeLists
    Genesis <- RichGenesis
    CALL_STACK_LIMIT = 2
    MaxTxs = 3
    MaxSteps = 3
ACTION_CONSTRAINT LongOrShort
PROPERTIES
    Settled
    ImplementsCallStack
INVARIANTS
    Rollback
    UndoSafe
    StaticChangesNothing
    Conserved
