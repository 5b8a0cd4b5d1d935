SPECIFICATION FairSpec
CONSTANTS
    Clients = {c1, c2, c3}
    HasTasks = TRUE
    Workload = {"tables", "databases", "tasks"}
INVARIANTS
    WipeExclusive
    ResetComplete
PROPERTIES
    EveryoneAnswered
