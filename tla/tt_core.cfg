SPECIFICATION Spec
CONSTANTS
    Sessions = {s1, s2}
    Absent = Absent
    MaxAge = 3
    MaxTime = 6
    MaxWrites = 3
SYMMETRY Symmetry
INVARIANTS
    SnapshotFilesExist
    ClosestUnlessOverlap
PROPERTIES
    UndropRestoresDropped
