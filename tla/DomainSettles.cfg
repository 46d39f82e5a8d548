SPECIFICATION FairSpec
CONSTANTS
    c1 = c1
    c2 = c2
    d1 = d1
    d2 = d2
    h1 = h1
    h2 = h2
    a1 = a1
    a2 = a2
    pass0 = pass0
    Charges = {c1}
    Domains = {d1}
    DomainOf <- SameDomain
    Operation <- Registers
    AlreadyOurs = {}
    FailedBefore = {}
    Webhooks = {h1}
    Admins = {a1}
    Reconciler = pass0
    FaultKinds = {"crash", "lostAnswer", "lostRefund", "infoFails", "dbError"}
    MaxFaults = 2
    MaxOrders = 3
    Batch = 1
INVARIANTS
    ActiveIsOurs
PROPERTIES
    NeverLeftUndone
