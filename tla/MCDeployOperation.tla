-------------------------- MODULE MCDeployOperation --------------------------
(* Small instances of DeployOperation for TLC. *)
EXTENDS DeployOperation, TLC

CONSTANTS r1, r2, w1, w2, app, svc

AllApp(a)    == [r \in Requests |-> a]
OneApp       == AllApp(app)
OneService   == AllApp(svc)
ButtonPush   == [r \in Requests |-> IF r = r1 THEN "button" ELSE "push"]
Buttons      == [r \in Requests |-> "button"]
RunnerSymmetry == Permutations(Runners)
=============================================================================
