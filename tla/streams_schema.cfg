SPECIFICATION Spec
CONSTANTS
    s1 = s1
    s2 = s2
    Names = {n}
    Objs = {o1, o2}
    NoObj = NoObj
    Sessions = {s1, s2}
    SchemaOf <- TwoSchemas
    Quals = {NoQual}
    NoQual = NoQual
    Kinds = {"INSERT"}
    Forms = {"plain"}
    MaxChanges = 2
INVARIANTS
    StreamSeesItsTable
