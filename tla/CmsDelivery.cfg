SPECIFICATION Spec
CONSTANTS
    t1 = t1
    c1 = c1
    c2 = c2
    i1 = i1
    Targets = {t1}
    Cleaners = {c1, c2}
    Images = {i1}
    MaxRevision = 3
    MaxFaults = 1
INVARIANTS
    TypeOK
    DeliveredIsFresh
    SiteConverges
    CompleteIsGone
PROPERTIES
    RevokedStaysAway
SYMMETRY CleanerSymmetry
CHECK_DEADLOCK FALSE
