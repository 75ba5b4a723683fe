\* One purchase of any kind, a top-up of two tokens or a plan of one, and up to
\* three events about it; requests that need nothing (operator funded), one or
\* two tokens; one restart.
SPECIFICATION FairSpec
CONSTANTS
    Keys = {k1}
    Purchases <- MCPurchases
    Wallet = wallet
    Usages = {u1}
    Starter = 1
    MaxConcurrent = 1
    Costs = {0, 1, 2}
    Gift = 1
    Pack = 2
    Plan = 1
    Refunds = {1, 2}
    MaxEvents = 3
    MaxCrashes = 1
INVARIANTS TokensAreConserved QuotesAreGrantedOnce StatusIsNewest
PROPERTIES EventsTakeEffect
CHECK_DEADLOCK FALSE
