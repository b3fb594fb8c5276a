SPECIFICATION Spec
CONSTANTS
    Procs = {ctl0, w1, w2}
    Controller = ctl0
    Workers = 2
    Programs <- MCPrograms
    MaxJournal = 2
    NoId = NoId
    Branching = 2
    MaxFrontier = 2
    MaxRecipe = 2
    MaxStates = 2
    MaxExemplars = 1
INVARIANTS
    CountedOnce
    RunsAccounted
    NoveltyReachesController
PROPERTY ExplorationEnds
CHECK_DEADLOCK FALSE
