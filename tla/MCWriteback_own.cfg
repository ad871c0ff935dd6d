SPECIFICATION FairSpec
CONSTANTS
    h1 = h1

    p1 = p1
    m1 = m1
    m2 = m2
    draft = draft
    other = other
    upsert = upsert
    Calls = {h1, p1, m1}
    Mode <- MCMode
    Paths = {draft, other, upsert}
    Path <- MCPath
    Bodies = {h1, m1, m2}
    Body <- MCBody
    Drafts = {draft, other}
    Plain = {upsert}
    ReceiptLike = {m1, m2}
    Waits = {h1, m1}
    MaxOps = 3
    MaxPuts = 3
CHECK_DEADLOCK FALSE
INVARIANTS
    TypeOK
    ConfirmedMeansApplied
    DroppedMeansNeverApplied
    AppliedOnce
PROPERTIES
    CallSettles
