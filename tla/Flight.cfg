SPECIFICATION Spec
CONSTANTS
    Capacity = 2
    Latencies <- MCLatencies
    Durations <- MCDurations
    Worlds <- MCWorlds
INVARIANTS
    WindowAccounts
    StreamKept
    NothingStuck
PROPERTIES
    LandsInTime
    Drains
CHECK_DEADLOCK FALSE
