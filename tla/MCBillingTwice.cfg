SPECIFICATION Spec
CONSTANTS
    Keys = {k1, k2}
    Purchases <- MCPurchases
    Wallet = wallet
    Usages = {u1}
    Starter = 1
    MaxConcurrent = 1
    Costs = {0, 1, 2}
    Gift = 1
    Pack = 2
    Plan = 1
    Refunds = {1, 2}
    MaxEvents = 3
    MaxCrashes = 1
INVARIANT OneSubscription
CHECK_DEADLOCK FALSE
