\* Nobody helps: the devices may stay silent and the runtime queue of one place
\* may drop wakes, flag events and results.
SPECIFICATION FairSpec
CONSTANTS
    Script <- TimedScript
    Active <- Two
    Required <- Two
    Flags = {"f"}
    DeviceEvents = {"e1"}
    Statuses = {"done"}
    Ops = {"start", "reset"}
    CMD_TIMEOUT = 1
    BUDGET = 3
    RUNTIME_QUEUE_LEN = 1
    MAX_PENDING = 1
    MAX_REQUESTS = 1
    MAX_STARTS = 1
    MAX_IN_FLIGHT = 1
PROPERTY BranchesEnd
CHECK_DEADLOCK FALSE
