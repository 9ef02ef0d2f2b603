CONSTANTS
    kWordBytes = 6
    MaxChars = 5
    MaxBytes = 4
    MaxEdges = 3
    MaxItems = 3
    capacity = 2
    MaxJobs = 5
    Stuck = {3}
    Timeout = 2
    MaxTime = 4
    MaxKids = 2
    Statuses = {0, 1}
    Channels <- MCChannels
    kMaxQueue = 2
    MaxAlerts = 3
    Codes = {200, 429}
SPECIFICATION ActionsSpec
INVARIANTS WorkerSafe  DeliveryRight TextsReadBack
PROPERTIES ImplementsQueue Progress
CHECK_DEADLOCK FALSE
