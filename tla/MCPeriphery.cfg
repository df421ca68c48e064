SPECIFICATION AllSpec
CONSTANTS
    PIXELS = 2
    SIZE = 1
    Levels = {0, 1}
    Counts = {0, 1}
    Effects = {"blink", "scanner"}
    MAX_COMMANDS = 3
    MAX_FAULTS = 1
    DutyLevels = {0, 1}
    RepeatCounts = {0, 1}
    CONFIG_SCENEHUB_GPIO_DEBOUNCE_MS = 2
    ActiveLow = TRUE
    MAX_OPERATIONS = 3
    MAX_EDGES = 1
    NoTimer = NoTimer
    None = None
    Nothing = Nothing
    Torn = Torn
    RoomIds = {r1}
    DeviceIds = {d1, d2}
    Clients = {k1, k2}
    ScenarioIds = {s1}
    ProfileIds = {p1}
    PresetIds = {q1}
    SystemDevice = sys
    DefaultRoom = r0
    MAX <- MCMax
    FirstCards <- MCCards
    MAX_LIST = 2
    MAX_REQUESTS = 3
    MAX_DISK_FAULTS = 1
    Files = {"loop", "short", "missing", "bad"}
    Requests = {"play_background", "play", "play_effect", "seek", "stop",
                "stop_background", "stop_effect", "pause", "resume"}
    QUEUE_LEN = 1
    PREROLL = 2
    MAX_PLAYER_COMMANDS = 2
    Paths = {f1, f2, f3}
    Contents <- MCContents
    CACHE_MAX = 2
    MAX_STEPS = 3
CHECK_DEADLOCK FALSE
INVARIANTS  LedStopsInOneFrame
    OutputsSettle  BackgroundKept AssetsAgree
     AcknowledgedIsStored
