SPECIFICATION Spec
CONSTANTS
    r1 = r1
    r2 = r2
    w1 = w1
    w2 = w2
    app = app
    svc = svc
    Requests = {r1}
    Runners = {w1, w2}
    Apps = {svc}
    AppOf <- OneService
    KindOf <- Buttons
    Services = {svc}
    RetryLimit = 2
    MaxStartAttempts = 2
    FaultKinds = {"requestCrash", "enqueueError", "runCrash", "runThrows", "lateOriginal", "lostAnswer"}
    MaxFaults = 1
INVARIANTS
    IInv
    ExtraDeploysNeedFaults
    TruthfulOutcome
PROPERTIES
    KeepsLifecycle
SYMMETRY RunnerSymmetry
