CONSTANTS
    MAXCCALLS = 200
    LUA_MAXCAPTURES = 32
    BUDYK_STEP_CHUNK = 8
    StepBytes = 2
    MaxSubject = 3
    MaxItems = 2
    MaxFew = 4
    kCommMax = 2
    kMaxExecArgvBytes = 6
    Missing = Missing
    lvl1 = lvl1
    c1 = c1
    c2 = c2
    instruction_limit = 6
    memory_limit = 6
    kHookInterval = 3
    kAllocBytesPerInstruction = 2
    Lengths = {1, 3}
    Sizes = {1, 3}
    MaxDepth = 2
SPECIFICATION RulesSpec
  
PROPERTIES  EndsAtLimit
CHECK_DEADLOCK FALSE
