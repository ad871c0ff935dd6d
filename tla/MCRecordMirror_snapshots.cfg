SPECIFICATION Spec
CONSTANTS
    c1 = c1
    c2 = c2
    Calls = {c1, c2}
    Titles = {"A", "B", "-"}
    NoSlug = "-"
    TitleOf <- MCTitleOf
    Settings <- MCRefresh
CHECK_DEADLOCK FALSE
INVARIANTS
    EverySnapshotInvalidated
