SPECIFICATION ScenarioSpec
CONSTANTS
    Script <- MessageThenEvent
    Active <- One
    Required <- One
    Flags = {"f"}
    DeviceEvents = {"e1"}
    Statuses = {"done"}
    Ops = {"start"}
    CMD_TIMEOUT = 1
    BUDGET = 3
    RUNTIME_QUEUE_LEN = 2
    MAX_PENDING = 2
    MAX_REQUESTS = 1
    MAX_STARTS = 1
    MAX_IN_FLIGHT = 1
INVARIANT OnlyCommandsFail
