SPECIFICATION Spec
CONSTANTS
    DdlSessions = {d1, d2}
    Schemas = {"PUBLIC"}
    Public = "PUBLIC"
    Tables = {"t", "u"}
    Callers = {c1, c2}
    MaxPipes = 2
    MaxCalls = 2
    MaxFiles = 2
    Writers = {w1, w2}
    Readers = {}
    MaxConns = 2
    MaxIdle = 2
    MaxRows = 2
    MaxBulk = 2
INVARIANTS
    TypeOK
    CatalogMatches
    NothingUnrecorded
    OwnHistory
    TransactionsIntact
    StreamsAccount
PROPERTIES
    CallRecorded
