SPECIFICATION FairSpec
CONSTANTS
    n1 = n1
    n2 = n2
    created = created
    removed = removed
    Notifications = {n1, n2}
    Events = {created, removed}
    Batch <- MCBatch
    Deleted = {removed}
    Workers = {"w1"}
    MaxAttempts = 2
    Deployments <- MCInMemory
CHECK_DEADLOCK FALSE
INVARIANTS
    ClaimGuardsWork
PROPERTIES
    HandoverSettles
