CONSTANTS
    Backups = {1, 2}
    Requests = {q1}
    Restores = {r1}
    Addresses = 2
    MaxFaults = 1
    q1 = q1
    r1 = r1
    r2 = r2
SPECIFICATION Spec
INVARIANTS TypeOK OfferedIsRestorable
PROPERTIES StaysProtected RunsEnd SilenceEnds
