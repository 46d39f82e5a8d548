SPECIFICATION Spec
CONSTANTS
    acme = acme
    blog = blog
    Apps = {acme, blog}
    Names <- MCNames
    Requests = {1, 2}
    Kinds = {"off", "replace", "burn"}
    MaxCopies = 3
    Take = 2
    Limit = 1
    MaxFaults = 1
INVARIANTS
    TypeOK
    OwnCopies
    OneCopy
PROPERTIES
    RemovedByItsOwn
    CleanupEnds
