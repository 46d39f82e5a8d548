------------------------------- MODULE CmsOutbox -------------------------------
(* The CMS outbox dispatcher (apps/web/src/lib/cms/outbox-dispatcher.ts, run in *)
(* a loop by scripts/cms-outbox-dispatcher.mjs on any number of replicas). A    *)
(* pass claims due events under a lease, posts each to every enabled target,    *)
(* and writes receipts and the outcome, fenced by its lease token. One action   *)
(* is one statement on the database or one post.                                *)
(*                                                                            *)
(* A definition marked "Fault:" is not the code: it is a plausible mistake in  *)
(* the next definition, which the properties must notice.                      *)
EXTENDS Naturals, FiniteSets

CONSTANTS
    Events,         \* outbox rows
    NoEvent,        \* what a replica between two events works on
    Targets,        \* delivery targets of the dataset
    Switched,       \* the targets an operator may switch on and off
    Workers,        \* dispatcher replicas; each runs one pass at a time
    BatchSize,      \* events claimed by a pass
    MaxAttempts,    \* attempts after which an event is given up
    MaxFaults       \* bound on crashes and on leases that end under a live worker

ASSUME OutboxAssumption ==
    /\ NoEvent \notin Events
    /\ Switched \subseteq Targets
    /\ BatchSize \in Nat \ {0} /\ MaxAttempts \in Nat \ {0} /\ MaxFaults \in Nat

VARIABLES
    row,        \* CmsContentOutbox: status, attempts, lease token (a worker has one pass, so one token)
    due,        \* per event: nextAttemptAt has come
    late,       \* per event: leaseUntil has passed
    receipt,    \* CmsContentDelivery status per event and target
    enabled,    \* CmsDeliveryTarget.enabled
    worker,     \* per replica: where its pass is
    heard,      \* the <<event, target>> pairs the target has accepted
    faults      \* how many faults have happened

outboxVars == <<row, due, late, receipt, enabled, worker, heard, faults>>

Nobody == "nobody"
Idle   == [pc |-> "rest", batch |-> {}, on |-> NoEvent, todo |-> {}, ok |-> {}, bad |-> {}, allOk |-> TRUE, lost |-> FALSE]

OutboxInit ==
    /\ row = [e \in Events |-> [status |-> "none", attempts |-> 0, token |-> Nobody]]
    /\ due = [e \in Events |-> FALSE]
    /\ late = [e \in Events |-> FALSE]
    /\ receipt = [e \in Events |-> [t \in Targets |-> "none"]]
    /\ enabled \in [Targets -> BOOLEAN] /\ \A t \in Targets \ Switched : enabled[t]
    /\ worker = [w \in Workers |-> Idle]
    /\ heard = {}
    /\ faults = 0

-----------------------------------------------------------------------------

\* A publication writes its event in its own transaction.
Emit(e) ==
    /\ row[e].status = "none"
    /\ row' = [row EXCEPT ![e].status = "pending"]
    /\ due' = [due EXCEPT ![e] = TRUE]
    /\ UNCHANGED <<late, receipt, enabled, worker, heard, faults>>

\* Fault: a lease that ended is not taken over.
PendingOnly(e) == row[e].status = "pending" /\ due[e]

Claimable(e) ==
    \/ row[e].status = "pending" /\ due[e]
    \/ row[e].status = "processing" /\ late[e]

\* claim: due events and expired leases, some of which may be skipped because
\* another claim holds their locks (that the rest are taken oldest first is left
\* out). Attempts count claims.
Claim(w) ==
    /\ worker[w].pc = "rest"
    /\ \E t \in Targets : enabled[t]
    /\ \E batch \in SUBSET {e \in Events : Claimable(e)} :
          /\ Cardinality(batch) \in 1..BatchSize
          /\ row' = [e \in Events |->
                IF e \in batch THEN [status |-> "processing", attempts |-> row[e].attempts + 1, token |-> w] ELSE row[e]]
          /\ late' = [e \in Events |-> late[e] /\ e \notin batch]
          /\ worker' = [worker EXCEPT ![w] = [Idle EXCEPT !.pc = "next", !.batch = batch]]
    /\ UNCHANGED <<due, receipt, enabled, heard, faults>>

\* pendingTargets of the next event: the enabled ones without a delivered receipt.
ReadTargets(w, e) ==
    /\ worker[w].pc = "next" /\ e \in worker[w].batch
    /\ worker' = [worker EXCEPT ![w] =
          [Idle EXCEPT !.pc = "post", !.batch = worker[w].batch \ {e}, !.on = e,
                       !.todo = {t \in Targets : enabled[t] /\ receipt[e][t] # "delivered"}]]
    /\ UNCHANGED <<row, due, late, receipt, enabled, heard, faults>>

-----------------------------------------------------------------------------
(* The posts to the targets run side by side, each followed by its receipt *)

\* Fault: the last answer decides for all of them.
LastAnswer(w, t, good) ==
    worker' = [worker EXCEPT ![w].todo = @ \ {t}, ![w].ok = IF good THEN @ \cup {t} ELSE @,
                             ![w].bad = IF good THEN @ ELSE @ \cup {t}, ![w].allOk = good]

Answered(w, t, good) ==
    worker' = [worker EXCEPT ![w].todo = @ \ {t}, ![w].ok = IF good THEN @ \cup {t} ELSE @,
                             ![w].bad = IF good THEN @ ELSE @ \cup {t}, ![w].allOk = @ /\ good]

\* The target accepts the event; its answer may still be lost or come too late.
PostAccepted(w, t) ==
    /\ worker[w].pc = "post" /\ t \in worker[w].todo
    /\ heard' = heard \cup {<<worker[w].on, t>>}
    /\ \E good \in BOOLEAN : Answered(w, t, good)
    /\ UNCHANGED <<row, due, late, receipt, enabled, faults>>

\* Refused, unreachable, redirected, or no usable address or secret.
PostFailed(w, t) ==
    /\ worker[w].pc = "post" /\ t \in worker[w].todo
    /\ Answered(w, t, FALSE)
    /\ UNCHANGED <<row, due, late, receipt, enabled, heard, faults>>

Holds(w, e) == row[e].status = "processing" /\ row[e].token = w

\* The receipt of an answer, if it may be written; a refused write loses the lease.
Write(w, t, status, mine) ==
    LET e == worker[w].on IN
    /\ worker[w].pc = "post" /\ t \in worker[w].ok \cup worker[w].bad
    /\ receipt' = IF mine THEN [receipt EXCEPT ![e][t] = status] ELSE receipt
    /\ worker' = [worker EXCEPT ![w].ok = @ \ {t}, ![w].bad = @ \ {t}, ![w].lost = @ \/ ~mine]
    /\ UNCHANGED <<row, due, late, enabled, heard, faults>>

Heard(w, t) == IF t \in worker[w].ok THEN "delivered" ELSE "pending"
Open(e, t)  == receipt[e][t] \in {"none", "pending"}

\* Fault: receipts are written without the lease.
RecordUnfenced(w, t) == Write(w, t, Heard(w, t), Open(worker[w].on, t))

\* record: only under the lease, and only over a receipt that is still open.
Record(w, t) == Write(w, t, Heard(w, t), Holds(w, worker[w].on) /\ Open(worker[w].on, t))

-----------------------------------------------------------------------------

AllAnswered(w) == worker[w].pc = "post" /\ worker[w].todo \cup worker[w].ok \cup worker[w].bad = {}

\* What an event becomes. The attempts a pass was given are those of the row as
\* long as it holds the lease.
Outcome(w) ==
    CASE worker[w].allOk                             -> "delivered"
      [] row[worker[w].on].attempts >= MaxAttempts   -> "failed"
      [] OTHER                                       -> "pending"

\* The row leaves its lease; a given up event closes its open receipts.
Settle(e, outcome, token) ==
    /\ row' = [row EXCEPT ![e] = [status |-> outcome, attempts |-> @.attempts, token |-> token]]
    /\ due' = [due EXCEPT ![e] = FALSE] /\ late' = [late EXCEPT ![e] = FALSE]
    /\ receipt' = IF outcome # "failed" THEN receipt
                  ELSE [receipt EXCEPT ![e] = [t \in Targets |-> IF @[t] = "pending" THEN "dead" ELSE @[t]]]

NextEvent(w) ==
    /\ worker' = [worker EXCEPT ![w] =
          [Idle EXCEPT !.pc = IF worker[w].batch = {} THEN "rest" ELSE "next", !.batch = worker[w].batch]]
    /\ UNCHANGED <<enabled, heard, faults>>

\* Fault: an outcome is written and the lease kept.
FinishAndHold(w) ==
    /\ AllAnswered(w) /\ ~worker[w].lost /\ Holds(w, worker[w].on)
    /\ Settle(worker[w].on, Outcome(w), w) /\ NextEvent(w)

\* finish, under the lease.
Finish(w) ==
    /\ AllAnswered(w) /\ ~worker[w].lost /\ Holds(w, worker[w].on)
    /\ Settle(worker[w].on, Outcome(w), Nobody) /\ NextEvent(w)

\* "lease lost; left for reclaim".
LeaseLost(w) ==
    /\ AllAnswered(w) /\ (worker[w].lost \/ ~Holds(w, worker[w].on))
    /\ NextEvent(w)
    /\ UNCHANGED <<row, due, late, receipt>>

-----------------------------------------------------------------------------
(* Crashes, the clock, the operator *)

\* A replica dies, or a statement fails and ends its pass. (Posts under way when a
\* statement fails go on for a moment; at most they write receipts of a lease that
\* is still theirs, as if the pass had ended a little later.)
Crash(w) ==
    /\ worker[w].pc # "rest" /\ faults < MaxFaults
    /\ worker' = [worker EXCEPT ![w] = Idle]
    /\ faults' = faults + 1
    /\ UNCHANGED <<row, due, late, receipt, enabled, heard>>

Working(e) == \E w \in Workers : Holds(w, e) /\ (e \in worker[w].batch \/ worker[w].on = e)

\* A lease ends: a minute after the claim, for the whole batch, whoever holds it.
LeaseEnds(e) ==
    /\ row[e].status = "processing" /\ ~late[e]
    /\ IF Working(e) THEN faults < MaxFaults /\ faults' = faults + 1 ELSE UNCHANGED faults
    /\ late' = [late EXCEPT ![e] = TRUE]
    /\ UNCHANGED <<row, due, receipt, enabled, worker, heard>>

BackoffEnds(e) ==
    /\ row[e].status = "pending" /\ ~due[e]
    /\ due' = [due EXCEPT ![e] = TRUE]
    /\ UNCHANGED <<row, late, receipt, enabled, worker, heard, faults>>

Switch(t) ==
    /\ t \in Switched
    /\ enabled' = [enabled EXCEPT ![t] = ~@]
    /\ UNCHANGED <<row, due, late, receipt, worker, heard, faults>>

-----------------------------------------------------------------------------

PassStep(w) ==
    \/ Claim(w) \/ Finish(w) \/ LeaseLost(w)
    \/ \E e \in Events : ReadTargets(w, e)
    \/ \E t \in Targets : Record(w, t)

Clock(e) == LeaseEnds(e) \/ BackoffEnds(e)

Quiet ==
    \/ \E w \in Workers : PassStep(w) \/ Crash(w) \/ \E t \in Targets : PostFailed(w, t)
    \/ \E e \in Events : Clock(e)
    \/ \E t \in Targets : Switch(t)

OutboxNext ==
    \/ \E e \in Events : Emit(e)
    \/ Quiet
    \/ \E w \in Workers, t \in Targets : PostAccepted(w, t)

OutboxSpec == OutboxInit /\ [][OutboxNext]_outboxVars

\* Passes go on (the dispatcher loops), posts end (they have a timeout), time passes.
OutboxFairness ==
    /\ \A w \in Workers : WF_outboxVars(PassStep(w) \/ \E t \in Targets : PostAccepted(w, t) \/ PostFailed(w, t))
    /\ \A e \in Events : WF_outboxVars(Clock(e))

-----------------------------------------------------------------------------
FairOutbox == OutboxSpec /\ OutboxFairness

-----------------------------------------------------------------------------
(* Properties *)

Settled(e) == row[e].status \in {"delivered", "failed"}

\* Types of every variable; as in the table, only a row in progress has a lease.
OutboxTypeOK ==
    /\ row \in [Events -> [status : {"none", "pending", "processing", "delivered", "failed"}, attempts : Nat,
                           token : Workers \cup {Nobody}]]
    /\ \A e \in Events : row[e].token # Nobody => row[e].status = "processing"
    /\ due \in [Events -> BOOLEAN] /\ late \in [Events -> BOOLEAN]
    /\ receipt \in [Events -> [Targets -> {"none", "pending", "delivered", "dead"}]]
    /\ enabled \in [Targets -> BOOLEAN]
    /\ worker \in [Workers -> [pc : {"rest", "next", "post"}, batch : SUBSET Events, on : Events \cup {NoEvent},
                               todo : SUBSET Targets, ok : SUBSET Targets, bad : SUBSET Targets,
                               allOk : BOOLEAN, lost : BOOLEAN]]
    /\ heard \subseteq Events \X Targets
    /\ faults \in 0..MaxFaults

\* The outcome agrees with the receipts, whatever late passes still write: a delivered event reached every
\* target that was enabled all along, and a given up event leaves no receipt open.
OutcomeAgrees ==
    \A e \in Events :
        /\ row[e].status = "delivered" => \A t \in Targets \ Switched : receipt[e][t] = "delivered"
        /\ row[e].status = "failed" => \A t \in Targets : receipt[e][t] # "pending"

\* The dispatcher keeps the promise of the outbox.
Promise == INSTANCE OutboxPromise WITH
    Steady <- Targets \ Switched,
    state <- [e \in Events |-> IF row[e].status \in {"pending", "processing"} THEN "open" ELSE row[e].status],
    accepted <- heard,
    receipts <- {p \in Events \X Targets : receipt[p[1]][p[2]] = "delivered"}
KeepsPromise == Promise!Spec

\* An event is delivered or given up in the end, when some target stays enabled.
EventsSettle == \A e \in Events : row[e].status = "pending" ~> Settled(e)
=============================================================================
