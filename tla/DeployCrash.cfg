SPECIFICATION Spec
CONSTANTS
    r1 = r1
    r2 = r2
    w1 = w1
    w2 = w2
    app = app
    svc = svc
    Requests = {r1}
    Runners = {w1}
    Apps = {app}
    AppOf <- OneApp
    KindOf <- Buttons
    Services = {}
    RetryLimit = 3
    MaxStartAttempts = 3
    FaultKinds = {"runCrash"}
    MaxFaults = 1
INVARIANTS
    DeployedOnce
