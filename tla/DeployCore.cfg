SPECIFICATION Spec
CONSTANTS
    r1 = r1
    r2 = r2
    w1 = w1
    w2 = w2
    app = app
    svc = svc
    Requests = {r1, r2}
    Runners = {w1}
    Apps = {app}
    AppOf <- OneApp
    KindOf <- ButtonPush
    Services = {}
    RetryLimit = 3
    MaxStartAttempts = 3
    FaultKinds = {}
    MaxFaults = 0
INVARIANTS
    OneActivePerApp
    DeployedOnce
    TruthfulRefusal
    PushesCovered
