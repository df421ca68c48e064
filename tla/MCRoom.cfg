\* Uptime within the 32-bit scenario clock; of the bus, two posters and
\* three events for a pool of two slots; of the scenario, one start, one
\* request and one place in the runtime queue.
SPECIFICATION RoomSpec
CONSTANTS
    UINT32_MAX = 6
    Rooms = {r1, r2, r3}
    NoRoom = NoRoom
    MAX_ROOMS = 2
    Durations <- MCDurations
    Deltas <- MCDeltas
    SKEW = 1
    UPTIME_MAX = 6
    GENERATION_MOD = 2
    Posters = {p1, p2}
    e1 = e1
    e2 = e2
    e3 = e3
    Events = {e1, e2, e3}
    High <- MCHigh
    Invalid <- NoEvent
    Handlers = {h1}
    Jobs = {j1, j2}
    NULL = NULL
    QUEUE_LEN = 2
    JOB_QUEUE_LEN = 1
    MAX_HANDLERS = 1
    Script <- MixedScript
    Active <- BothBranches
    Required <- BothBranches
    Flags = {"f"}
    DeviceEvents <- MCDeviceEvents
    Statuses = {"accepted", "done"}
    Ops = {"start", "stop", "next", "approve"}
    CMD_TIMEOUT = 1
    BUDGET = 3
    RUNTIME_QUEUE_LEN = 1
    MAX_PENDING = 1
    MAX_REQUESTS = 1
    MAX_STARTS = 1
    MAX_IN_FLIGHT = 1
SYMMETRY Alike
INVARIANTS TypeOK SessionAgreesWithTimer OneSlotPerRoom
    DispatchWaitHasPlan TrackedIsDispatched
    PoolIsSound QueuedContentIntact NormalEventsInOrder
PROPERTIES GenerationTracksChange ImplementsGameClock ResultWaitIsPatient
