SPECIFICATION FairSpec
CONSTANTS
    c1 = c1
    c2 = c2
    r1 = r1
    r2 = r2
    Calls = {c1, c2}
    Repos = {r1, r2}
    PageSize = 2
    MaxVersion = 2
    Settings <- MCSettings
CHECK_DEADLOCK FALSE
INVARIANTS
    TypeOK
    RootLists
PROPERTIES
    ScanCovers
    Delivers
    IndexConverges
