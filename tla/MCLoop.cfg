SPECIFICATION Spec
INVARIANTS RequestsKept
PROPERTIES WindowsRight LoopRight 
CHECK_DEADLOCK FALSE
