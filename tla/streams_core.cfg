SPECIFICATION Spec
CONSTANTS
    s1 = s1
    s2 = s2
    Names = {n1, n2}
    Objs = {o1, o2}
    NoObj = NoObj
    Sessions = {s1, s2}
    SchemaOf <- OneSchema
    Quals = {NoQual}
    NoQual = NoQual
    Kinds = {"INSERT", "DELETE", "MERGE"}
    Forms = {"plain", "glued", "unseen"}
    MaxChanges = 2
SYMMETRY Symmetry
INVARIANTS
    NoChangeMissed
    SessionOrder
PROPERTIES
    FeedSpec
