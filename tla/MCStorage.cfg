CONSTANTS
    kMaxLevelId = 19
    Torn = Torn
    Gone = Gone
    None = None
    d1 = d1
    d2 = d2
    r1 = r1
    c1 = c1
    Daemons = {d1, d2}
    Repairs = {r1}
    Checks = {c1}
    RingNames <- MCRings
    Kinds <- AllKinds
    MaxTop = 1
    MaxRuns = 1
SPECIFICATION Spec
INVARIANTS HistoryRight  ConversionSafe DirectoryShared
PROPERTIES RestartSettles TiersRight
CHECK_DEADLOCK FALSE
