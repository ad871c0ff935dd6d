SPECIFICATION Spec
CONSTANTS
    h1 = h1

    p1 = p1
    m1 = m1
    m2 = m2
    draft = draft
    other = other
    upsert = upsert
    Calls = {m1, m2}
    Mode <- MCMode
    Paths = {draft, other, upsert}
    Path <- MCShared
    Bodies = {h1, m1, m2}
    Body <- MCBody
    Drafts = {draft, other}
    Plain = {}
    ReceiptLike = {m1, m2}
    Waits = {m1, m2}
    MaxOps = 1
    MaxPuts = 1
CHECK_DEADLOCK FALSE
INVARIANTS
    ConfirmedMeansApplied
