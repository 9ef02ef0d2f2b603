\* A process killed at any point, a failing write and a query in flight.
SPECIFICATION QuerySpec
CONSTANTS
    Cap = 3
    MaxTime = 6
    MaxBack = 0
    MaxLoss = 0
    kDisorderLookback = 1
INVARIANTS TypeOK OnlyOldestAtRisk NothingLeftOut LapSafe QueryComplete
PROPERTY ImplementsLog
