SPECIFICATION Spec
CONSTANTS
    Callers = {c1, c2}
    Attempts = {a1, a2}
    Worlds <- MCWorlds
    Drops = "polled"
    Nobody = Nobody
    Dead = Dead
INVARIANTS
    TypeOK
    NobodyForgotten
    OneConnection
PROPERTIES
    GivesUpForGood
    EverybodyAnswered
