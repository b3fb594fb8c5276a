CONSTANTS
    Damaged = Damaged
    Positions = {1, 2}
    MaxFloor = 2
    MaxBatches = 3
    MaxOpens = 3
    Worlds <- AllWorlds
SPECIFICATION Spec
INVARIANTS
    ChainSound
    MemoryTrue
PROPERTY KeepsPromise
