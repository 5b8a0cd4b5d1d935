SPECIFICATION Spec
CONSTANTS
    a = a
    b = b
    Names = {a, b}
    NoName = NoName
    Objs = {o1, o2, o3}
    NoObj = NoObj
    Definitions <- GraphDefinitions
    CronNext <- MCCronNext
    Never = Never
    Minute = 1
    MaxTime = 3
SYMMETRY Symmetry
INVARIANTS
    OncePerTick
    RanWasEligible
    PredecessorFirst
PROPERTIES
    IntervalRespected
