SPECIFICATION FairOutbox
CONSTANTS
    NoEvent = NoEvent
    e1 = e1
    t1 = t1
    t2 = t2
    w1 = w1
    w2 = w2
    Events = {e1}
    Targets = {t1, t2}
    Switched = {t2}
    Workers = {w1, w2}
    BatchSize = 1
    MaxAttempts = 2
    MaxFaults = 2
INVARIANTS
    OutboxTypeOK
    OutcomeAgrees
PROPERTIES
    KeepsPromise
    EventsSettle
