SPECIFICATION Spec
CONSTANTS
    e1 = e1
    e2 = e2
    a = a
    b = b
    c = c
    n1 = n1
    n2 = n2
    k1 = k1
    Emitters = {e1}
    Ids = {a}
    Names = {n1, n2}
    Keys = {k1}
    Batches <- MCNameless
    None = None
    Blank = Blank
    Gone = Gone
    MaxEmits <- MCMaxEmits
    MaxFaults = 0
CHECK_DEADLOCK FALSE
INVARIANTS
    GapIsReported
