SPECIFICATION Spec
CONSTANTS
    w1 = w1
    w2 = w2
    w3 = w3
    kShared = kShared
    kOther = kOther
    Writers = {w1, w2, w3}
    Keys = {kShared, kOther}
    Key <- MCKey
    NoRow = NoRow
    OldRow = OldRow
    NoContent = NoContent
    Settings <- MCSettings
CHECK_DEADLOCK FALSE
INVARIANTS
    TypeOK
    WinningReadIsCurrent
    NoLostUpdate
    NoExhaustion
PROPERTIES
    RefinesStore
