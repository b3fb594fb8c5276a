SPECIFICATION TableSpec
CONSTANTS
    Procs = {p1, p2}
    Programs <- MCPrograms
    MaxJournal = 2
    NoId = NoId
INVARIANT DiscoveredOnce
CHECK_DEADLOCK FALSE
