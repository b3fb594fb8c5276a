CONSTANTS
    Damaged = Damaged
    Slots = 2
    Room = 4
    MaxCount = 2
    Worlds <- AllWorlds
SPECIFICATION Spec
INVARIANTS
    StaysReadable
    CrashIsNotCorruption
    NoSilentLoss
    GoneStaysGone
