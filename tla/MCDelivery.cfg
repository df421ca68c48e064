\* One poster, one event of high priority and one invalid, two handlers that
\* register at any time; a fallback policy whose engine answers late once; one
\* web client, one writer besides the watcher, two rooms and two changes.
SPECIFICATION DeliverySpec
CONSTANTS
    Posters = {p1}
    e1 = e1
    e3 = e3
    e4 = e4
    Events = {e1, e3, e4}
    High <- MCHigh
    Invalid <- MCInvalid
    Handlers = {h1, h2}
    Jobs = {j1}
    NULL = NULL
    QUEUE_LEN = 2
    JOB_QUEUE_LEN = 1
    MAX_HANDLERS = 2
    None = None
    Nothing = Nothing
    NODE_FALLBACK_QUEUE_LEN = 2
    TIMEOUT = 1
    RETURN_DELAY = 1
    CLOCK = 4
    MAX_TIMEOUTS = 1
    Rooms = {r1, r2}
    Devices = {d1}
    Writers = {w1}
    Fds = {f1}
    MAX_CLIENTS = 1
    MAX_PENDING = 1
    INTERVAL = 2
    MAX_LAG = 1
    MAX_CHANGES = 2
    MAX_CONNECTS = 1
INVARIANT RulesFollowState
PROPERTIES EveryHandlerServed  GenerationsIncrease ClientsLearn
CHECK_DEADLOCK FALSE
