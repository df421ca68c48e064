SPECIFICATION ScenarioSpec
CONSTANTS
    Script <- OneCommand
    Active <- One
    Required <- One
    Flags = {"f"}
    DeviceEvents = {}
    Statuses = {"done"}
    Ops = {"start"}
    CMD_TIMEOUT = 1
    BUDGET = 3
    RUNTIME_QUEUE_LEN = 2
    MAX_PENDING = 2
    MAX_REQUESTS = 1
    MAX_STARTS = 1
    MAX_IN_FLIGHT = 1
INVARIANT WaitIsTracked
