CONSTANTS
    j1 = j1
    j2 = j2
    Bill = {1, 2}
    Job = {j1}
    PageSize = 1
    MaxRuns = 1
    MaxDate = 3
    MaxFaults = 1
SPECIFICATION Spec
INVARIANTS SavedOnSuccess
