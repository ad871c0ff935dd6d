SPECIFICATION Spec
CONSTANTS
    main = main
    d1 = d1
    d2 = d2
    preview = preview
    other = other
    Contexts = {main, d1, d2}
    Main = main
    Transports = {preview, other}
    Explicit = {other}
    Settings <- MCSettings
CHECK_DEADLOCK FALSE
INVARIANTS
    TypeOK
    TransportOfNewest
PROPERTIES
    RefinesPolicy
