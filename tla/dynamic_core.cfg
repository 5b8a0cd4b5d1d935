SPECIFICATION FairSpec
CONSTANTS
    Loops = {g1, g2}
    Callers = {c}
    None = None
    MaxQuery = 2
INVARIANTS
    LoopTracked
    ConsistentUnlessOverlap
PROPERTIES
    StoppedLoopEnds
