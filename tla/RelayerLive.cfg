SPECIFICATION FairSpec
CONSTANTS
    L1 = L1
    L2 = L2
    t1 = t1
    t2 = t2
    Eth = Eth
    Chains <- BothChains
    Zero = Zero
    Users = {u1, Zero}
    Tokens <- OneToken
    Home <- HomeOfOne
    Amounts = {1}
    Funds <- TokenFunds
    Reserve <- BridgeReserve
    MaxMessages = 3
    First = L1
    MaxFaults = 1
PROPERTY
    Settled
