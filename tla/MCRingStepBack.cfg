SPECIFICATION Spec
CONSTANTS
    Cap = 2
    MaxTime = 4
    MaxBack = 1
    MaxLoss = 0
INVARIANT OldRecordsEndTheRun
