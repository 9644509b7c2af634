SPECIFICATION FairSpec
CONSTANTS
    Coroutines = {c1, c2, c3}
    ThreadCounts = {1, 2}
    TokenQ = 2
    CapQ = 3
    Rates = {1, 2}
    MaxRate = 2
    Horizon = 4
INVARIANTS TypeOK SerializedBudget NeverOverfull
PROPERTIES IsTokenBucket EveryAcquireReturns
