SPECIFICATION FairSpec
CONSTANTS
    s1 = s1
    s2 = s2
    h1 = h1
    h2 = h2
    Subs = {s1, s2}
    Handlers = {h1, h2}
    MaxChanges = 2
    MaxFaults = 1
INVARIANTS
    TypeOK
    StatusAgrees
    PaidIsServed
PROPERTIES
    BoundMovesOn
    EventsEnd
CHECK_DEADLOCK FALSE
