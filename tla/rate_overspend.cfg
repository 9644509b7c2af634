SPECIFICATION Spec
CONSTANTS
    Coroutines = {c1, c2, c3}
    ThreadCounts = {2}
    TokenQ = 1
    CapQ = 1
    Rates = {1}
    MaxRate = 1
    Horizon = 3
INVARIANTS WithinBudget
