CONSTANTS
    Damaged = Damaged
    Slots = 2
    Room = 4
    MaxCount = 2
    Worlds <- WritebackWorlds
SPECIFICATION Spec
INVARIANT ReportedDurable
