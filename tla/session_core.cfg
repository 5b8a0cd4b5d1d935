SPECIFICATION FairSpec
CONSTANTS
    Clients = {c1, c2}
    Tokens = {t1, t2}
    Timeout = 2
    MaxLag = 2
INVARIANTS
    ActiveKept
PROPERTIES
    GoneStaysGone
    IdleExpires
