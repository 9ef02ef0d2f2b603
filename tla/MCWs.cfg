CONSTANTS
    t1 = t1
    t2 = t2
    Tokens = {t1, t2}
    Creds = {"p"}
    AuthOff = "off"
    ttl = 8
    MaxTime = 9
    BackSteps = {2}
    FwdSteps = {2, 8}
    MaxStarts = 2
SPECIFICATION WsSpec
INVARIANTS FramesRight EndIsFinal SessionTimes
PROPERTIES StreamRight DropsOnlyEnded
CHECK_DEADLOCK FALSE
