SPECIFICATION Spec
CONSTANTS
    a = a
    b = b
    Names = {a, b}
    NoName = NoName
    Objs = {o1, o2}
    NoObj = NoObj
    Definitions <- CycleDefinitions
    CronNext <- MCCronNext
    Never = Never
    Minute = 1
    MaxTime = 2
PROPERTIES
    DueRootServed
    StopReturns
