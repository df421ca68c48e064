\* Uptime past the wrap of the 32-bit scenario clock.
SPECIFICATION Spec
CONSTANTS
    UINT32_MAX = 3
    Rooms = {r1}
    NoRoom = NoRoom
    MAX_ROOMS = 1
    Durations <- MCDurations
    Deltas <- MCDeltas
    SKEW = 0
    UPTIME_MAX = 6
    GENERATION_MOD = 2
PROPERTY EndGameFreezesRemaining
CHECK_DEADLOCK FALSE
