SPECIFICATION Spec
CONSTANTS
    MinutesPerHour = 3
    HoursPerDay = 2
    DaysPerWeek = 3
    Days <- const_Days
    LimitDays = 6
    Fractions = 2
    Numbers = {0, 1, 2, 3, 4}
    FieldBounds <- const_FieldBounds
    FieldChoices <- const_FieldChoices
    MaxItems = 2
    TaskNames = {"a", "b", "c", "d"}
    NoTask = "none"
    RoleNames = {"ACCOUNTADMIN", "SYSADMIN", "R"}
    DefaultRoles = {"ACCOUNTADMIN", "SYSADMIN"}
    Hierarchy <- const_Hierarchy
    Users = {"u"}
    Privileges = {"SELECT", "ALL"}
    PrivAll = "ALL"
    MaxParents = 3
    MaxGrants = 1
    Alphabet <- const_Alphabet
    MaxText = 5
    InsertSymbols = {"VALUES", "(", ")", "?", "'", "--", "newline"}
    MaxInsert = 6
    ScalarChoices <- const_ScalarChoices
    BulkChoices <- const_BulkChoices
INVARIANTS
    FieldDenotation
    NextIsLeast
    OrderIsTopological
    NoDangling
    AccessIsReachability
    SubstitutionFaithful
    BulkMatchesRows
PROPERTY
    CallsReturn
