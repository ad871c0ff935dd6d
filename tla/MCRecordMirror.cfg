SPECIFICATION Spec
CONSTANTS
    c1 = c1
    c2 = c2
    Calls = {c1, c2}
    Titles = {"A", "B", "-"}
    NoSlug = "-"
    TitleOf <- MCTitleOf
    Settings <- MCSettings
SYMMETRY CallSymmetry
CHECK_DEADLOCK FALSE
INVARIANTS
    TypeOK
    NothingDangles
    Repaired
    OneTitleAlias
    FreshAliasSurvives
    FailsClosed
