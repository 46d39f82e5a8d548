-------------------------- MODULE OperationLifecycle --------------------------
(* What the operations log promises to whoever watches an operation            *)
(* (apps/web/src/lib/operations.ts, header): its status only moves forward,     *)
(* it is finished by one party once, what it records and says is frozen when    *)
(* it is finished, and a finished operation is never reopened.                  *)
(*                                                                            *)
(*   queued --> running --> succeeded | failed                                 *)
(*   queued --> failed, and queued --> cancelled                               *)
EXTENDS Naturals

CONSTANTS
    Operations,     \* the operations
    Records,        \* what a run may record in the result
    NoRecord,       \* the result before anything is recorded
    Texts,          \* what an operation may say to its client
    NoText          \* nothing said yet

VARIABLES
    status,         \* "none", "queued", "running", "succeeded", "failed" or "cancelled"
    recorded,       \* the part of the result a later step resumes from
    told            \* the error or the final message

vars == <<status, recorded, told>>

Init ==
    /\ status = [o \in Operations |-> "none"]
    /\ recorded = [o \in Operations |-> NoRecord]
    /\ told = [o \in Operations |-> NoText]

Move(o, from, to) == status[o] = from /\ status' = [status EXCEPT ![o] = to]

Create(o) == Move(o, "none", "queued") /\ UNCHANGED <<recorded, told>>
Begin(o)  == Move(o, "queued", "running") /\ UNCHANGED <<recorded, told>>
Cancel(o) == Move(o, "queued", "cancelled") /\ UNCHANGED <<recorded, told>>

\* Progress is recorded only while the operation runs.
Record(o) ==
    /\ status[o] = "running"
    /\ recorded'[o] \in Records /\ recorded' = [recorded EXCEPT ![o] = recorded'[o]]
    /\ UNCHANGED <<status, told>>

Succeed(o) == Move(o, "running", "succeeded") /\ UNCHANGED <<recorded, told>>

Say(o) == told'[o] \in Texts /\ told' = [told EXCEPT ![o] = told'[o]]

\* The message of a success is merged once, by whoever finished the operation.
Explain(o) ==
    /\ status[o] = "succeeded" /\ told[o] = NoText
    /\ Say(o)
    /\ UNCHANGED <<status, recorded>>

Fail(o) ==
    /\ Move(o, "queued", "failed") \/ Move(o, "running", "failed")
    /\ Say(o)
    /\ UNCHANGED recorded

Next ==
    \E o \in Operations :
        Create(o) \/ Begin(o) \/ Cancel(o) \/ Record(o) \/ Succeed(o) \/ Explain(o) \/ Fail(o)

Spec == Init /\ [][Next]_vars
=============================================================================
