SPECIFICATION Spec
CONSTANTS
    c1 = c1
    c2 = c2
    d1 = d1
    d2 = d2
    h1 = h1
    h2 = h2
    a1 = a1
    a2 = a2
    pass0 = pass0
    Charges = {c1, c2}
    Domains = {d1, d2}
    DomainOf <- OwnDomains
    Operation <- RegisterTransfer
    AlreadyOurs = {}
    FailedBefore = {d2}
    Webhooks = {h1, h2}
    Admins = {}
    Reconciler = pass0
    FaultKinds = {"crash", "lostAnswer", "lostRefund", "infoFails", "dbError"}
    MaxFaults = 1
    MaxOrders = 3
    Batch = 1
INVARIANTS
    TypeOK
    OneOrdering
    FulfilledIsReal
    RefundsAgree
PROPERTIES
    FinalStays
