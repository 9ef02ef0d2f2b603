SPECIFICATION Spec
CONSTANTS
    Mode = "Adaptive"
    Custom = {"fast"}
    Prio <- FastPrio
    Interval <- FastInterval
    l2_always_on = FALSE
    EscalateAfter = 2
    Grace = 2
    Hysteresis = 3
    Hold = 1
    Clients = {0}
    Readings = {"normal"}
    Askable = {"L3", "fast"}
    Seconds = {1, 3}
    Epoch = 10
    MaxTime = 6
    MaxStep = 3
    MaxBack = 1
    MaxForward = 0
INVARIANT RequestsEnd
CHECK_DEADLOCK FALSE
