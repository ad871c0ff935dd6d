SPECIFICATION Spec
CONSTANTS
    n1 = n1
    n2 = n2
    created = created
    removed = removed
    Notifications = {n1, n2}
    Events = {created, removed}
    Batch <- MCBatch
    Deleted = {removed}
    Workers = {"w1", "w2"}
    MaxAttempts = 2
    Deployments <- MCRaces
CHECK_DEADLOCK FALSE
INVARIANTS
    TypeOK
    ResolvedMeansSettled
    SingleFlight
    BoundedDelivery
PROPERTIES
    SettlesOnce
