SPECIFICATION AssetsSpec
CONSTANTS
    L1 = L1
    L2 = L2
    t1 = t1
    t2 = t2
    Eth = Eth
    Chains <- BothChains
    Zero = Zero
    Users = {u1, Zero}
    Tokens <- TwoTokens
    Home <- HomeOfTwo
    Amounts = {1, 2}
    Funds <- UserFunds
    Reserve <- BridgeReserve
    MaxMessages = 3
    First = L1
    MaxFaults = 2
INVARIANTS
    Backed
    InOrder
    RefusalsExplained
PROPERTY
    ImplementsLedger
