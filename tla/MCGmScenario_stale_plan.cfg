SPECIFICATION ScenarioSpec
CONSTANTS
    Script <- TimeThenCommand
    Active <- One
    Required <- One
    Flags = {"f"}
    DeviceEvents = {}
    Statuses = {"done"}
    Ops = {"start", "next", "approve", "stop"}
    CMD_TIMEOUT = 1
    BUDGET = 3
    RUNTIME_QUEUE_LEN = 2
    MAX_PENDING = 2
    MAX_REQUESTS = 1
    MAX_STARTS = 2
    MAX_IN_FLIGHT = 1
PROPERTY StalePlanIsNoop
