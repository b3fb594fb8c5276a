CONSTANTS
    Senders = {s1, s2}
    Sizes = {1, 2}
    MaxCounter = 4
    Worlds <- AllWorlds
SPECIFICATION Spec
CHECK_DEADLOCK FALSE
INVARIANTS
    NeverRefused
    WindowHeld
    InOrder
    NobodyOversleeps
PROPERTIES
    EverybodyServed
