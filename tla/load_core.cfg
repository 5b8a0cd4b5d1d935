SPECIFICATION Spec
CONSTANTS
    Clients = {c1, c2}
    Named = {s}
    Implicit = {}
    NFiles = 2
    MaxWrites = 2
    MaxDrops = 1
    MaxLoads = 2
    None = None
SYMMETRY Sym
INVARIANTS
    NoUploadLost
    FilesExplained

    
