SPECIFICATION Spec
CONSTANTS
    e1 = e1
    e2 = e2
    a = a
    b = b
    c = c
    n1 = n1
    n2 = n2
    k1 = k1
    Emitters = {e1, e2}
    Ids = {a, b, c}
    Names = {n1, n2}
    Keys = {k1}
    Batches <- MCBatches
    None = None
    Blank = Blank
    Gone = Gone
    MaxEmits <- MCMaxEmits
    MaxFaults = 1
CHECK_DEADLOCK FALSE
INVARIANTS
    TypeOK
    GapIsReported
    IndexFollowsRecords
