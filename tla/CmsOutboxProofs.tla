--------------------------- MODULE CmsOutboxProofs ---------------------------
(* Theorems about CmsOutbox, for every set of events, targets and replicas and  *)
(* every bound on batches, attempts and faults: types, the agreement of         *)
(* outcomes with receipts, and the promise of the outbox.                       *)
EXTENDS CmsOutbox, TLAPS

-----------------------------------------------------------------------------
(* Types *)

RowType    == [status : {"none", "pending", "processing", "delivered", "failed"}, attempts : Nat,
               token : Workers \cup {Nobody}]
WorkerType == [pc : {"rest", "next", "post"}, batch : SUBSET Events, on : Events \cup {NoEvent},
               todo : SUBSET Targets, ok : SUBSET Targets, bad : SUBSET Targets, allOk : BOOLEAN, lost : BOOLEAN]

LEMMA IdleTyped == Idle \in WorkerType
  BY DEF Idle, WorkerType

\* What a pass looks like when it goes on to an event, or to the next one.
LEMMA NextTyped ==
    ASSUME NEW pc \in {"rest", "next", "post"}, NEW batch \in SUBSET Events
    PROVE  /\ [Idle EXCEPT !.pc = pc, !.batch = batch] \in WorkerType
           /\ [Idle EXCEPT !.pc = pc, !.batch = batch].pc = pc
           /\ [Idle EXCEPT !.pc = pc, !.batch = batch].batch = batch
  BY DEF Idle, WorkerType

\* An answer moves its target from todo to ok or bad.
LEMMA AnsweredFields ==
    ASSUME OutboxTypeOK, NEW w \in Workers, NEW t \in Targets, NEW good \in BOOLEAN, Answered(w, t, good)
    PROVE  /\ worker' \in [Workers -> WorkerType]
           /\ \A v \in Workers \ {w} : worker'[v] = worker[v]
           /\ worker'[w].pc = worker[w].pc /\ worker'[w].batch = worker[w].batch /\ worker'[w].on = worker[w].on
           /\ worker'[w].todo = worker[w].todo \ {t}
           /\ worker'[w].ok = IF good THEN worker[w].ok \cup {t} ELSE worker[w].ok
           /\ worker'[w].bad = IF good THEN worker[w].bad ELSE worker[w].bad \cup {t}
           /\ worker'[w].allOk = (worker[w].allOk /\ good)
           /\ worker'[w].lost = worker[w].lost
<1>1. worker \in [Workers -> WorkerType]
  BY DEF OutboxTypeOK, WorkerType
<1> DEFINE x == [worker[w] EXCEPT !.todo = @ \ {t}, !.ok = IF good THEN @ \cup {t} ELSE @,
                                  !.bad = IF good THEN @ ELSE @ \cup {t}, !.allOk = @ /\ good]
<1>2. worker' = [worker EXCEPT ![w] = x]
  BY <1>1 DEF Answered
<1>3. x \in WorkerType
  BY <1>1, ZenonT(30) DEF WorkerType
<1>4. /\ x.pc = worker[w].pc /\ x.batch = worker[w].batch /\ x.on = worker[w].on /\ x.todo = worker[w].todo \ {t}
      /\ x.ok = IF good THEN worker[w].ok \cup {t} ELSE worker[w].ok
      /\ x.bad = IF good THEN worker[w].bad ELSE worker[w].bad \cup {t}
      /\ x.allOk = (worker[w].allOk /\ good) /\ x.lost = worker[w].lost
  BY <1>1 DEF WorkerType
<1> HIDE DEF x
<1> QED
  BY <1>1, <1>2, <1>3, <1>4

\* A receipt, written or not, takes its target from ok or bad.
LEMMA RecordFields ==
    ASSUME OutboxTypeOK, NEW w \in Workers, NEW t \in Targets, Record(w, t)
    PROVE  LET e == worker[w].on
               mine == Holds(w, e) /\ Open(e, t) IN
           /\ worker' \in [Workers -> WorkerType]
           /\ \A v \in Workers \ {w} : worker'[v] = worker[v]
           /\ worker'[w].pc = worker[w].pc /\ worker'[w].batch = worker[w].batch /\ worker'[w].on = worker[w].on
           /\ worker'[w].todo = worker[w].todo
           /\ worker'[w].ok = worker[w].ok \ {t} /\ worker'[w].bad = worker[w].bad \ {t}
           /\ worker'[w].allOk = worker[w].allOk
           /\ worker'[w].lost = (worker[w].lost \/ ~mine)
<1>1. worker \in [Workers -> WorkerType]
  BY DEF OutboxTypeOK, WorkerType
<1> DEFINE mine == Holds(w, worker[w].on) /\ Open(worker[w].on, t)
           x == [worker[w] EXCEPT !.ok = @ \ {t}, !.bad = @ \ {t}, !.lost = @ \/ ~mine]
<1>2. worker' = [worker EXCEPT ![w] = x]
  BY <1>1 DEF Record, Write
<1>0. mine \in BOOLEAN
  BY DEF Holds, Open
<1> HIDE DEF mine
<1>3. x \in WorkerType
  BY <1>0, <1>1 DEF WorkerType
<1>4. /\ x.pc = worker[w].pc /\ x.batch = worker[w].batch /\ x.on = worker[w].on /\ x.todo = worker[w].todo
      /\ x.ok = worker[w].ok \ {t} /\ x.bad = worker[w].bad \ {t}
      /\ x.allOk = worker[w].allOk /\ x.lost = (worker[w].lost \/ ~mine)
  BY <1>1 DEF WorkerType
<1> HIDE DEF x
<1>5. /\ worker' \in [Workers -> WorkerType] /\ worker'[w] = x
      /\ \A v \in Workers \ {w} : worker'[v] = worker[v]
  BY <1>1, <1>2, <1>3
<1> QED
  BY <1>4, <1>5 DEF mine

\* A pass that goes on to its next event, or ends.
LEMMA NextEventFields ==
    ASSUME OutboxTypeOK, NEW w \in Workers, NextEvent(w)
    PROVE  /\ worker' \in [Workers -> WorkerType]
           /\ \A v \in Workers \ {w} : worker'[v] = worker[v]
           /\ worker'[w].pc # "post" /\ worker'[w].batch = worker[w].batch
           /\ enabled' = enabled /\ heard' = heard /\ faults' = faults
<1>1. worker \in [Workers -> WorkerType] /\ worker[w].batch \in SUBSET Events
  BY DEF OutboxTypeOK, WorkerType
<1> DEFINE at == IF worker[w].batch = {} THEN "rest" ELSE "next"
           x == [Idle EXCEPT !.pc = at, !.batch = worker[w].batch]
<1>2. worker' = [worker EXCEPT ![w] = x] /\ UNCHANGED <<enabled, heard, faults>>
  BY DEF NextEvent
<1>3. at \in {"rest", "next", "post"} /\ at # "post"
  OBVIOUS
<1> HIDE DEF at
<1>4. x \in WorkerType /\ x.pc # "post" /\ x.batch = worker[w].batch
  BY <1>1, <1>3 DEF Idle, WorkerType
<1> HIDE DEF x
<1>5. worker' \in [Workers -> WorkerType] /\ worker'[w] = x /\ \A v \in Workers \ {w} : worker'[v] = worker[v]
  BY <1>1, <1>2, <1>4
<1> QED
  BY <1>2, <1>4, <1>5

\* A pass that posts works on an event.
PostsEvents == \A w \in Workers : worker[w].pc = "post" => worker[w].on \in Events

LEMMA TypeInit == OutboxInit => OutboxTypeOK /\ PostsEvents
<1> USE OutboxAssumption
<1>1. Idle \in WorkerType /\ Idle.pc = "rest"
  BY IdleTyped DEF Idle
<1> QED
  BY <1>1 DEF OutboxInit, OutboxTypeOK, WorkerType, PostsEvents

\* Claims and readings of the targets.
LEMMA TypeClaim ==
    ASSUME OutboxTypeOK, PostsEvents, NEW w \in Workers, Claim(w)
    PROVE  OutboxTypeOK' /\ PostsEvents' /\ PostsEvents'
<1>1. PICK batch \in SUBSET {e \in Events : Claimable(e)} :
         /\ row' = [e \in Events |->
               IF e \in batch THEN [status |-> "processing", attempts |-> row[e].attempts + 1, token |-> w] ELSE row[e]]
         /\ late' = [e \in Events |-> late[e] /\ e \notin batch]
         /\ worker' = [worker EXCEPT ![w] = [Idle EXCEPT !.pc = "next", !.batch = batch]]
  BY DEF Claim
<1>2. UNCHANGED <<due, receipt, enabled, heard, faults>>
  BY DEF Claim
<1> DEFINE x == [Idle EXCEPT !.pc = "next", !.batch = batch]
<1>3. x \in WorkerType /\ x.pc = "next" /\ worker' = [worker EXCEPT ![w] = x] /\ worker \in [Workers -> WorkerType]
  BY <1>1, NextTyped DEF OutboxTypeOK, WorkerType
<1> HIDE DEF x
<1>4. worker' \in [Workers -> WorkerType] /\ worker'[w] = x /\ \A v \in Workers \ {w} : worker'[v] = worker[v]
  BY <1>3
<1>7. PostsEvents'
  BY <1>3, <1>4 DEF PostsEvents
<1>5. row' \in [Events -> RowType] /\ \A e \in Events : row'[e].token # Nobody => row'[e].status = "processing"
  BY <1>1 DEF OutboxTypeOK, RowType
<1>6. late' \in [Events -> BOOLEAN]
  BY <1>1
<1> QED
  BY <1>2, <1>4, <1>5, <1>6, <1>7 DEF OutboxTypeOK, RowType, WorkerType

LEMMA ReadFields ==
    ASSUME OutboxTypeOK, NEW w \in Workers, NEW e \in Events, ReadTargets(w, e)
    PROVE  /\ worker' \in [Workers -> WorkerType]
           /\ \A v \in Workers \ {w} : worker'[v] = worker[v]
           /\ worker'[w].pc = "post" /\ worker'[w].batch = worker[w].batch \ {e} /\ worker'[w].on = e
           /\ worker'[w].todo = {t \in Targets : enabled[t] /\ receipt[e][t] # "delivered"}
           /\ worker'[w].ok = {} /\ worker'[w].bad = {}
<1>1. worker \in [Workers -> WorkerType] /\ worker[w].batch \in SUBSET Events
  BY DEF OutboxTypeOK, WorkerType
<1> DEFINE todo == {t \in Targets : enabled[t] /\ receipt[e][t] # "delivered"}
           batch == worker[w].batch \ {e}
           x == [Idle EXCEPT !.pc = "post", !.batch = batch, !.on = e, !.todo = todo]
<1>2. worker' = [worker EXCEPT ![w] = x]
  BY DEF ReadTargets
<1>3. todo \in SUBSET Targets /\ batch \in SUBSET Events
  BY <1>1
<1> HIDE DEF todo, batch
<1>4. /\ x \in WorkerType /\ x.pc = "post" /\ x.batch = batch /\ x.on = e /\ x.todo = todo /\ x.ok = {} /\ x.bad = {}
  BY <1>3 DEF Idle, WorkerType
<1> HIDE DEF x
<1>5. worker' \in [Workers -> WorkerType] /\ worker'[w] = x /\ \A v \in Workers \ {w} : worker'[v] = worker[v]
  BY <1>1, <1>2, <1>4
<1> QED
  BY <1>4, <1>5 DEF todo, batch

LEMMA TypePass ==
    ASSUME OutboxTypeOK, PostsEvents, NEW w \in Workers,
           \/ \E e \in Events : ReadTargets(w, e)
           \/ \E t \in Targets : PostAccepted(w, t) \/ PostFailed(w, t) \/ Record(w, t)
           \/ NextEvent(w) /\ \/ AllAnswered(w) /\ \E outcome \in {"delivered", "failed", "pending"} :
                                    Settle(worker[w].on, outcome, Nobody)
                              \/ UNCHANGED <<row, due, late, receipt>>
    PROVE  OutboxTypeOK' /\ PostsEvents'
<1> DEFINE Goal == OutboxTypeOK' /\ PostsEvents'
<1>1. ASSUME NEW e \in Events, ReadTargets(w, e) PROVE Goal
  <2>1. worker' \in [Workers -> WorkerType] /\ worker'[w].on \in Events /\ \A v \in Workers \ {w} : worker'[v] = worker[v]
    BY <1>1, ReadFields
  <2>2. UNCHANGED <<row, due, late, receipt, enabled, heard, faults>>
    BY <1>1 DEF ReadTargets
  <2>3. PostsEvents'
    BY <2>1 DEF PostsEvents
  <2> QED
    BY <2>1, <2>2, <2>3 DEF OutboxTypeOK, WorkerType
<1>2. ASSUME NEW t \in Targets, PostAccepted(w, t) \/ PostFailed(w, t) PROVE Goal
  <2>1. Answered(w, t, TRUE) \/ Answered(w, t, FALSE)
    BY <1>2 DEF PostAccepted, PostFailed
  <2>2. /\ worker' \in [Workers -> WorkerType] /\ worker'[w].on = worker[w].on
        /\ \A v \in Workers \ {w} : worker'[v] = worker[v]
    BY <2>1, AnsweredFields
  <2>3. worker[w].pc = "post" /\ worker[w].on \in Events
    BY <1>2 DEF PostAccepted, PostFailed, PostsEvents
  <2>4. PostsEvents'
    BY <2>2, <2>3 DEF PostsEvents
  <2>5. heard' = heard \/ heard' = heard \cup {<<worker[w].on, t>>}
    BY <1>2 DEF PostAccepted, PostFailed
  <2>6. heard' \subseteq Events \X Targets
    BY <2>3, <2>5 DEF OutboxTypeOK
  <2>7. UNCHANGED <<row, due, late, receipt, enabled, faults>>
    BY <1>2 DEF PostAccepted, PostFailed
  <2> QED
    BY <2>2, <2>4, <2>6, <2>7 DEF OutboxTypeOK, WorkerType
<1>3. ASSUME NEW t \in Targets, Record(w, t) PROVE Goal
  <2>1. /\ worker' \in [Workers -> WorkerType] /\ worker'[w].on = worker[w].on
        /\ \A v \in Workers \ {w} : worker'[v] = worker[v]
    BY <1>3, RecordFields
  <2>2. worker[w].pc = "post" /\ worker[w].on \in Events
    BY <1>3 DEF Record, Write, PostsEvents
  <2>3. PostsEvents'
    BY <2>1, <2>2 DEF PostsEvents
  <2>4. UNCHANGED <<row, due, late, enabled, heard, faults>>
    BY <1>3 DEF Record, Write
  <2>5. receipt' = receipt \/ receipt' = [receipt EXCEPT ![worker[w].on][t] = Heard(w, t)]
    BY <1>3 DEF Record, Write
  <2>6. Heard(w, t) \in {"none", "pending", "delivered", "dead"}
    BY DEF Heard
  <2>7. receipt' \in [Events -> [Targets -> {"none", "pending", "delivered", "dead"}]]
    <3> DEFINE h == Heard(w, t)
    <3>1. receipt[worker[w].on] \in [Targets -> {"none", "pending", "delivered", "dead"}]
      BY <2>2 DEF OutboxTypeOK
    <3>2. [receipt[worker[w].on] EXCEPT ![t] = h] \in [Targets -> {"none", "pending", "delivered", "dead"}]
      BY <2>6, <3>1
    <3> QED
      BY <2>2, <2>5, <3>2 DEF OutboxTypeOK
  <2> QED
    BY <2>1, <2>3, <2>4, <2>7 DEF OutboxTypeOK, WorkerType
<1>4. ASSUME NextEvent(w), UNCHANGED <<row, due, late, receipt>> PROVE Goal
  <2>1. /\ worker' \in [Workers -> WorkerType] /\ worker'[w].pc # "post" /\ UNCHANGED <<enabled, heard, faults>>
        /\ \A v \in Workers \ {w} : worker'[v] = worker[v]
    BY <1>4, NextEventFields
  <2>2. PostsEvents'
    BY <2>1 DEF PostsEvents
  <2> QED
    BY <1>4, <2>1, <2>2 DEF OutboxTypeOK, WorkerType
<1>5. ASSUME NextEvent(w), AllAnswered(w), NEW outcome \in {"delivered", "failed", "pending"},
             Settle(worker[w].on, outcome, Nobody)
      PROVE  Goal
  <2>1. /\ worker' \in [Workers -> WorkerType] /\ worker'[w].pc # "post" /\ UNCHANGED <<enabled, heard, faults>>
        /\ \A v \in Workers \ {w} : worker'[v] = worker[v]
    BY <1>5, NextEventFields
  <2>2. PostsEvents'
    BY <2>1 DEF PostsEvents
  <2> DEFINE e == worker[w].on
  <2>3. e \in Events
    BY <1>5 DEF AllAnswered, PostsEvents
  <2> HIDE DEF e
  <2>4. row' = [row EXCEPT ![e] = [status |-> outcome, attempts |-> row[e].attempts, token |-> Nobody]]
    BY <1>5, <2>3 DEF Settle, e, OutboxTypeOK
  <2>5. row' \in [Events -> RowType] /\ \A d \in Events : row'[d].token # Nobody => row'[d].status = "processing"
    BY <2>3, <2>4 DEF OutboxTypeOK, RowType
  <2>6. due' \in [Events -> BOOLEAN] /\ late' \in [Events -> BOOLEAN]
    BY <1>5, <2>3 DEF Settle, e, OutboxTypeOK
  <2>7. receipt' = receipt \/ receipt' = [receipt EXCEPT ![e] = [t \in Targets |-> IF @[t] = "pending" THEN "dead" ELSE @[t]]]
    BY <1>5 DEF Settle, e
  <2>8. receipt' \in [Events -> [Targets -> {"none", "pending", "delivered", "dead"}]]
    <3> DEFINE dead == [t \in Targets |-> IF receipt[e][t] = "pending" THEN "dead" ELSE receipt[e][t]]
    <3>1. receipt[e] \in [Targets -> {"none", "pending", "delivered", "dead"}]
      BY <2>3 DEF OutboxTypeOK
    <3>2. dead \in [Targets -> {"none", "pending", "delivered", "dead"}]
      BY <3>1
    <3>3. receipt' = receipt \/ receipt' = [receipt EXCEPT ![e] = dead]
      BY <2>7
    <3> HIDE DEF dead
    <3> QED
      BY <2>3, <3>2, <3>3 DEF OutboxTypeOK
  <2> QED
    BY <2>1, <2>2, <2>5, <2>6, <2>8 DEF OutboxTypeOK, RowType, WorkerType
<1> QED
  BY <1>1, <1>2, <1>3, <1>4, <1>5

\* Announcements, crashes, the clock and the operator.
LEMMA TypeRest ==
    ASSUME OutboxTypeOK, PostsEvents,
           \/ \E e \in Events : Emit(e) \/ Clock(e)
           \/ \E w \in Workers : Crash(w)
           \/ \E t \in Targets : Switch(t)
    PROVE  OutboxTypeOK' /\ PostsEvents'
<1> USE OutboxAssumption
<1> DEFINE Goal == OutboxTypeOK' /\ PostsEvents'
<1>1. ASSUME NEW e \in Events, Emit(e) PROVE Goal
  <2>1. row' \in [Events -> RowType] /\ \A d \in Events : row'[d].token # Nobody => row'[d].status = "processing"
    BY <1>1, SMTT(30) DEF Emit, OutboxTypeOK, RowType
  <2> QED
    BY <1>1, <2>1, SMTT(30) DEF Emit, OutboxTypeOK, RowType, PostsEvents
<1>2. ASSUME NEW e \in Events, Clock(e) PROVE Goal
  <2>1. faults' \in 0..MaxFaults
    BY <1>2 DEF Clock, LeaseEnds, BackoffEnds, OutboxTypeOK
  <2>2. due' \in [Events -> BOOLEAN] /\ late' \in [Events -> BOOLEAN]
    BY <1>2 DEF Clock, LeaseEnds, BackoffEnds, OutboxTypeOK
  <2>3. UNCHANGED <<row, receipt, enabled, worker, heard>>
    BY <1>2 DEF Clock, LeaseEnds, BackoffEnds
  <2> QED
    BY <2>1, <2>2, <2>3 DEF OutboxTypeOK, PostsEvents
<1>3. ASSUME NEW w \in Workers, Crash(w) PROVE Goal
  <2>1. Idle \in WorkerType /\ Idle.pc = "rest"
    BY IdleTyped DEF Idle
  <2> HIDE DEF Idle
  <2>2. /\ worker' \in [Workers -> WorkerType] /\ worker'[w].pc # "post"
        /\ \A v \in Workers \ {w} : worker'[v] = worker[v]
    BY <1>3, <2>1 DEF Crash, OutboxTypeOK, WorkerType
  <2>3. faults' \in 0..MaxFaults /\ UNCHANGED <<row, due, late, receipt, enabled, heard>>
    BY <1>3 DEF Crash, OutboxTypeOK
  <2>4. PostsEvents'
    BY <2>2 DEF PostsEvents
  <2> QED
    BY <2>2, <2>3, <2>4 DEF OutboxTypeOK, WorkerType
<1>4. ASSUME NEW t \in Targets, Switch(t) PROVE Goal
  BY <1>4 DEF Switch, OutboxTypeOK, PostsEvents
<1> QED
  BY <1>1, <1>2, <1>3, <1>4

LEMMA FinishOutcome ==
    ASSUME NEW w \in Workers, Finish(w)
    PROVE  \E outcome \in {"delivered", "failed", "pending"} : Settle(worker[w].on, outcome, Nobody)
  BY DEF Finish, Outcome

LEMMA TypeStep == OutboxTypeOK /\ PostsEvents /\ [OutboxNext]_outboxVars => OutboxTypeOK' /\ PostsEvents'
<1> SUFFICES ASSUME OutboxTypeOK, PostsEvents, [OutboxNext]_outboxVars
             PROVE  OutboxTypeOK' /\ PostsEvents'
  OBVIOUS
<1>1. CASE UNCHANGED outboxVars
  BY <1>1 DEF outboxVars, OutboxTypeOK, PostsEvents
<1>2. ASSUME NEW w \in Workers, Finish(w) \/ LeaseLost(w)
      PROVE  OutboxTypeOK' /\ PostsEvents'
  BY <1>2, TypePass, FinishOutcome DEF Finish, LeaseLost
<1>3. CASE OutboxNext
  BY <1>2, <1>3, TypeClaim, TypePass, TypeRest DEF OutboxNext, Quiet, PassStep
<1> QED
  BY <1>1, <1>3

\* The database, the passes and the targets stay what they are, and only a row in
\* progress has a lease.
THEOREM TypeCorrect == OutboxSpec => []OutboxTypeOK
<1>1. OutboxInit => OutboxTypeOK /\ PostsEvents
  BY TypeInit
<1>2. OutboxTypeOK /\ PostsEvents /\ [OutboxNext]_outboxVars => (OutboxTypeOK /\ PostsEvents)'
  BY TypeStep
<1> QED
  BY <1>1, <1>2, PTL DEF OutboxSpec

-----------------------------------------------------------------------------
(* The outcome agrees with the receipts. An outcome is written from what a pass *)
(* remembers, so the invariant says what of a pass's memory may be relied on:   *)
(* that the targets it heard accepted the event, that "no bad answer" leaves no *)
(* refusal to record, and that a pass with only good answers and no refused     *)
(* write has a receipt, an answer or a post to make for every steady target.    *)

Steady == Targets \ Switched

Honest(w) ==
    LET e == worker[w].on IN
    /\ \A d \in worker[w].batch : row[d].status # "none"
    /\ worker[w].pc = "post" =>
          /\ row[e].status # "none"
          /\ \A t \in worker[w].ok : <<e, t>> \in heard
          /\ worker[w].allOk => worker[w].bad = {}
          /\ worker[w].allOk /\ ~worker[w].lost =>
                \A t \in Steady : receipt[e][t] = "delivered" \/ t \in worker[w].todo \/ t \in worker[w].ok

OutboxInv ==
    /\ OutboxTypeOK /\ PostsEvents
    /\ \A t \in Steady : enabled[t]
    /\ \A w \in Workers : Honest(w)
    /\ OutcomeAgrees

\* What never goes back: announcements, acceptances and delivered receipts.
Onward ==
    /\ \A e \in Events : row[e].status # "none" => row'[e].status # "none"
    /\ heard \subseteq heard'
    /\ \A e \in Events, t \in Targets : receipt[e][t] = "delivered" => receipt'[e][t] = "delivered"

\* Passes that a step does not touch keep a true memory.
LEMMA OthersHonest ==
    ASSUME OutboxInv, Onward, NEW w \in Workers, worker'[w] = worker[w]
    PROVE  Honest(w)'
<1>1. Honest(w) /\ worker[w].batch \subseteq Events /\ worker[w].ok \subseteq Targets
  BY DEF OutboxInv, OutboxTypeOK
<1>2. worker[w].pc = "post" => worker[w].on \in Events
  BY DEF OutboxInv, PostsEvents
<1>3. \A d \in worker[w].batch : row'[d].status # "none"
  BY <1>1 DEF Honest, Onward
<1>4. CASE worker[w].pc = "post"
  <2> DEFINE e == worker[w].on
  <2>1. e \in Events /\ row'[e].status # "none"
    BY <1>1, <1>2, <1>4 DEF Honest, Onward
  <2>2. \A t \in worker[w].ok : <<e, t>> \in heard'
    BY <1>1, <1>4 DEF Honest, Onward
  <2>3. worker[w].allOk => worker[w].bad = {}
    BY <1>1, <1>4 DEF Honest
  <2>4. worker[w].allOk /\ ~worker[w].lost =>
           \A t \in Steady : receipt'[e][t] = "delivered" \/ t \in worker[w].todo \/ t \in worker[w].ok
    BY <1>1, <1>4, <2>1 DEF Honest, Onward, Steady
  <2> QED
    BY <1>3, <2>1, <2>2, <2>3, <2>4 DEF Honest, Steady
<1>5. CASE worker[w].pc # "post"
  BY <1>3, <1>5 DEF Honest
<1> QED
  BY <1>4, <1>5

LEMMA InvInit == OutboxInit => OutboxInv
<1> SUFFICES ASSUME OutboxInit PROVE OutboxInv
  OBVIOUS
<1>1. \A w \in Workers : worker[w].pc = "rest" /\ worker[w].batch = {}
  BY DEF OutboxInit, Idle
<1>2. \A w \in Workers : Honest(w)
  BY <1>1 DEF Honest
<1>3. OutcomeAgrees
  BY DEF OutcomeAgrees, OutboxInit
<1> QED
  BY <1>2, <1>3, TypeInit DEF OutboxInv, OutboxInit, Steady

\* A claim takes announced events only, and settled rows are not claimed.
LEMMA InvClaim ==
    ASSUME OutboxInv, OutboxTypeOK', PostsEvents', NEW w \in Workers, Claim(w)
    PROVE  OutboxInv'
<1>1. PICK batch \in SUBSET {e \in Events : Claimable(e)} :
         /\ row' = [e \in Events |->
               IF e \in batch THEN [status |-> "processing", attempts |-> row[e].attempts + 1, token |-> w] ELSE row[e]]
         /\ worker' = [worker EXCEPT ![w] = [Idle EXCEPT !.pc = "next", !.batch = batch]]
  BY DEF Claim
<1>2. UNCHANGED receipt /\ UNCHANGED enabled /\ UNCHANGED heard
  BY DEF Claim
<1> DEFINE x == [Idle EXCEPT !.pc = "next", !.batch = batch]
<1>3. x.pc = "next" /\ x.batch = batch /\ worker' = [worker EXCEPT ![w] = x] /\ worker \in [Workers -> WorkerType]
  BY <1>1, NextTyped DEF OutboxInv, OutboxTypeOK, WorkerType
<1> HIDE DEF x
<1>4. worker'[w] = x /\ \A v \in Workers \ {w} : worker'[v] = worker[v]
  BY <1>3
<1>5. \A e \in batch : e \in Events /\ row[e].status \in {"pending", "processing"} /\ row'[e].status = "processing"
  BY <1>1 DEF Claimable
<1>6. \A e \in Events \ batch : row'[e] = row[e]
  BY <1>1
<1>7. Onward
  BY <1>2, <1>5, <1>6 DEF Onward
<1>8. Honest(w)'
  BY <1>3, <1>4, <1>5 DEF Honest
<1>9. \A v \in Workers : Honest(v)'
  BY <1>4, <1>7, <1>8, OthersHonest
<1>10. OutcomeAgrees'
  BY <1>2, <1>5, <1>6 DEF OutboxInv, OutcomeAgrees
<1> QED
  BY <1>2, <1>9, <1>10 DEF OutboxInv, Steady

\* A pass that takes up an event posts to every steady target without a receipt.
LEMMA InvRead ==
    ASSUME OutboxInv, OutboxTypeOK', PostsEvents', NEW w \in Workers, NEW e \in Events, ReadTargets(w, e)
    PROVE  OutboxInv'
<1>1. /\ \A v \in Workers \ {w} : worker'[v] = worker[v]
      /\ worker'[w].batch = worker[w].batch \ {e} /\ worker'[w].on = e
      /\ worker'[w].todo = {t \in Targets : enabled[t] /\ receipt[e][t] # "delivered"}
      /\ worker'[w].ok = {} /\ worker'[w].bad = {}
  BY ReadFields DEF OutboxInv
<1>2. UNCHANGED row /\ UNCHANGED receipt /\ UNCHANGED enabled /\ UNCHANGED heard /\ e \in worker[w].batch
  BY DEF ReadTargets
<1>3. Onward
  BY <1>2 DEF Onward
<1>4. \A d \in worker[w].batch : row'[d].status # "none"
  BY <1>2 DEF OutboxInv, Honest
<1>5. \A t \in Steady : receipt'[e][t] = "delivered" \/ t \in worker'[w].todo
  BY <1>1, <1>2 DEF OutboxInv, Steady
<1>6. Honest(w)'
  BY <1>1, <1>2, <1>4, <1>5 DEF Honest, Steady
<1>7. \A v \in Workers : Honest(v)'
  BY <1>1, <1>3, <1>6, OthersHonest
<1>8. OutcomeAgrees'
  BY <1>2 DEF OutboxInv, OutcomeAgrees
<1> QED
  BY <1>2, <1>7, <1>8 DEF OutboxInv, Steady

\* An answer is good only when the target accepted the event.
LEMMA InvAnswer ==
    ASSUME OutboxInv, OutboxTypeOK', PostsEvents', NEW w \in Workers, NEW t \in Targets,
           PostAccepted(w, t) \/ PostFailed(w, t)
    PROVE  OutboxInv'
<1> DEFINE e == worker[w].on
<1>1. UNCHANGED row /\ UNCHANGED receipt /\ UNCHANGED enabled /\ worker[w].pc = "post"
  BY DEF PostAccepted, PostFailed
<1>2. \/ Answered(w, t, TRUE) /\ heard' = heard \cup {<<e, t>>}
      \/ Answered(w, t, FALSE) /\ (heard' = heard \cup {<<e, t>>} \/ heard' = heard)
  BY DEF PostAccepted, PostFailed
<1>3. Onward
  BY <1>1, <1>2 DEF Onward
<1>4. Honest(w)
  BY DEF OutboxInv
<1>5. ASSUME Answered(w, t, TRUE), heard' = heard \cup {<<e, t>>}
      PROVE  Honest(w)' /\ \A v \in Workers \ {w} : worker'[v] = worker[v]
  <2>1. /\ \A v \in Workers \ {w} : worker'[v] = worker[v]
        /\ worker'[w].pc = "post" /\ worker'[w].batch = worker[w].batch /\ worker'[w].on = e
        /\ worker'[w].todo = worker[w].todo \ {t} /\ worker'[w].ok = worker[w].ok \cup {t}
        /\ worker'[w].bad = worker[w].bad /\ worker'[w].lost = worker[w].lost
        /\ worker'[w].allOk => worker[w].allOk
    BY <1>1, <1>5, AnsweredFields DEF OutboxInv
  <2>2. (\A d \in worker'[w].batch : row'[d].status # "none") /\ row'[e].status # "none"
    BY <1>1, <1>4, <2>1 DEF Honest
  <2>3. \A u \in worker'[w].ok : <<e, u>> \in heard'
    BY <1>1, <1>4, <1>5, <2>1 DEF Honest
  <2>4. worker'[w].allOk => worker'[w].bad = {}
    BY <1>1, <1>4, <2>1 DEF Honest
  <2>5. worker'[w].allOk /\ ~worker'[w].lost =>
           \A u \in Steady : receipt'[e][u] = "delivered" \/ u \in worker'[w].todo \/ u \in worker'[w].ok
    BY <1>1, <1>4, <2>1 DEF Honest
  <2>6. Honest(w)'
    BY <2>1, <2>2, <2>3, <2>4, <2>5 DEF Honest, Steady
  <2> QED
    BY <2>1, <2>6
<1>6. ASSUME Answered(w, t, FALSE)
      PROVE  Honest(w)' /\ \A v \in Workers \ {w} : worker'[v] = worker[v]
  <2>1. /\ \A v \in Workers \ {w} : worker'[v] = worker[v]
        /\ worker'[w].pc = "post" /\ worker'[w].batch = worker[w].batch /\ worker'[w].on = e
        /\ worker'[w].ok = worker[w].ok /\ ~worker'[w].allOk
    BY <1>1, <1>6, AnsweredFields DEF OutboxInv
  <2>2. (\A d \in worker'[w].batch : row'[d].status # "none") /\ row'[e].status # "none"
    BY <1>1, <1>4, <2>1 DEF Honest
  <2>3. \A u \in worker'[w].ok : <<e, u>> \in heard'
    BY <1>1, <1>2, <1>4, <2>1 DEF Honest
  <2>4. Honest(w)'
    BY <2>1, <2>2, <2>3 DEF Honest
  <2> QED
    BY <2>1, <2>4
<1>7. \A v \in Workers : Honest(v)'
  BY <1>2, <1>3, <1>5, <1>6, OthersHonest
<1>8. OutcomeAgrees'
  BY <1>1 DEF OutboxInv, OutcomeAgrees
<1> QED
  BY <1>1, <1>7, <1>8 DEF OutboxInv, Steady

\* A receipt is written under the lease and over an open one; a write that may not
\* happen is remembered.
LEMMA InvRecord ==
    ASSUME OutboxInv, OutboxTypeOK', PostsEvents', NEW w \in Workers, NEW t \in Targets, Record(w, t)
    PROVE  OutboxInv'
<1> DEFINE e == worker[w].on
           mine == Holds(w, e) /\ Open(e, t)
<1>1. /\ worker[w].pc = "post" /\ e \in Events /\ t \in worker[w].ok \cup worker[w].bad
      /\ receipt' = IF mine THEN [receipt EXCEPT ![e][t] = Heard(w, t)] ELSE receipt
  BY DEF Record, Write, OutboxInv, PostsEvents
<1>2. UNCHANGED row /\ UNCHANGED enabled /\ UNCHANGED heard
  BY DEF Record, Write
<1>3. /\ \A v \in Workers \ {w} : worker'[v] = worker[v]
      /\ worker'[w].pc = "post" /\ worker'[w].batch = worker[w].batch /\ worker'[w].on = e
      /\ worker'[w].todo = worker[w].todo
      /\ worker'[w].ok = worker[w].ok \ {t} /\ worker'[w].bad = worker[w].bad \ {t}
      /\ worker'[w].allOk = worker[w].allOk
      /\ ~worker'[w].lost => ~worker[w].lost /\ mine
  BY <1>1, RecordFields DEF OutboxInv
<1>4. receipt \in [Events -> [Targets -> {"none", "pending", "delivered", "dead"}]]
  BY DEF OutboxInv, OutboxTypeOK
<1>5. /\ \A d \in Events, u \in Targets : d # e \/ u # t => receipt'[d][u] = receipt[d][u]
      /\ receipt'[e][t] = IF mine THEN Heard(w, t) ELSE receipt[e][t]
  BY <1>1, <1>4 DEF Heard
<1>6. mine => row[e].status = "processing" /\ receipt[e][t] \in {"none", "pending"}
  BY DEF Holds, Open
<1> HIDE DEF mine
<1>7. Onward
  BY <1>2, <1>5, <1>6 DEF Onward
<1>8. Honest(w)
  BY DEF OutboxInv
<1>9. Honest(w)'
  <2>1. /\ \A d \in worker'[w].batch : row'[d].status # "none"
        /\ row'[e].status # "none"
        /\ \A u \in worker'[w].ok : <<e, u>> \in heard'
        /\ worker'[w].allOk => worker'[w].bad = {}
    BY <1>1, <1>2, <1>3, <1>8 DEF Honest
  <2>2. ASSUME worker'[w].allOk, ~worker'[w].lost, NEW u \in Steady
        PROVE  receipt'[e][u] = "delivered" \/ u \in worker'[w].todo \/ u \in worker'[w].ok
    <3>1. mine /\ worker[w].bad = {} /\ t \in worker[w].ok /\ receipt'[e][t] = "delivered"
      BY <1>1, <1>3, <1>5, <1>8, <2>2 DEF Honest, Heard
    <3>2. receipt[e][u] = "delivered" \/ u \in worker[w].todo \/ u \in worker[w].ok
      BY <1>1, <1>3, <1>8, <2>2 DEF Honest
    <3> QED
      BY <1>1, <1>3, <1>7, <3>1, <3>2 DEF Onward, Steady
  <2> QED
    BY <1>3, <2>1, <2>2 DEF Honest, Steady
<1>10. \A v \in Workers : Honest(v)'
  BY <1>3, <1>7, <1>9, OthersHonest
<1>11. OutcomeAgrees'
  <2>1. ASSUME NEW d \in Events, row[d].status \in {"delivered", "failed"}
        PROVE  \A u \in Targets : receipt'[d][u] = receipt[d][u]
    BY <1>5, <1>6, <2>1
  <2> QED
    BY <1>2, <2>1 DEF OutboxInv, OutcomeAgrees
<1> QED
  BY <1>2, <1>10, <1>11 DEF OutboxInv, Steady

\* An event is only called delivered by a pass whose memory says so, and giving it
\* up closes its receipts.
LEMMA InvFinish ==
    ASSUME OutboxInv, OutboxTypeOK', PostsEvents', NEW w \in Workers, Finish(w)
    PROVE  OutboxInv'
<1> DEFINE e == worker[w].on
           outcome == Outcome(w)
<1>1. /\ worker[w].pc = "post" /\ e \in Events /\ Honest(w)
      /\ worker[w].todo = {} /\ worker[w].ok = {} /\ worker[w].bad = {} /\ ~worker[w].lost
      /\ row[e].status = "processing"
  BY DEF Finish, AllAnswered, Holds, OutboxInv, PostsEvents
<1>2. /\ worker'[w].pc # "post" /\ worker'[w].batch = worker[w].batch /\ enabled' = enabled /\ heard' = heard
      /\ \A v \in Workers \ {w} : worker'[v] = worker[v]
  BY NextEventFields DEF Finish, OutboxInv
<1>3. Settle(e, outcome, Nobody)
  BY DEF Finish
<1>4. outcome \in {"delivered", "failed", "pending"} /\ (outcome = "delivered" => worker[w].allOk)
  BY DEF Outcome
<1> HIDE DEF outcome
<1>5. row'[e].status = outcome /\ \A d \in Events \ {e} : row'[d] = row[d]
  BY <1>1, <1>3 DEF Settle, OutboxInv, OutboxTypeOK
<1>6. receipt \in [Events -> [Targets -> {"none", "pending", "delivered", "dead"}]]
  BY DEF OutboxInv, OutboxTypeOK
<1>7. /\ outcome # "failed" => receipt' = receipt
      /\ outcome = "failed" => receipt' = [receipt EXCEPT ![e] = [t \in Targets |-> IF @[t] = "pending" THEN "dead" ELSE @[t]]]
  BY <1>3 DEF Settle
<1>8. /\ \A d \in Events \ {e} : receipt'[d] = receipt[d]
      /\ outcome = "failed" => \A t \in Targets : receipt'[e][t] # "pending"
      /\ \A t \in Targets : receipt[e][t] = "delivered" => receipt'[e][t] = "delivered"
  BY <1>1, <1>6, <1>7
<1>9. Onward
  BY <1>1, <1>2, <1>4, <1>5, <1>8 DEF Onward
<1>10. \A d \in worker'[w].batch : row'[d].status # "none"
  BY <1>1, <1>2, <1>9 DEF Honest, Onward, OutboxInv, OutboxTypeOK
<1>11. Honest(w)'
  BY <1>2, <1>10 DEF Honest
<1>12. \A v \in Workers : Honest(v)'
  BY <1>2, <1>9, <1>11, OthersHonest
<1>13. outcome = "delivered" => \A t \in Steady : receipt'[e][t] = "delivered"
  BY <1>1, <1>4, <1>7 DEF Honest
<1>14. OutcomeAgrees'
  BY <1>4, <1>5, <1>8, <1>13 DEF OutboxInv, OutcomeAgrees, Steady
<1> QED
  BY <1>2, <1>12, <1>14 DEF OutboxInv, Steady

LEMMA InvLost ==
    ASSUME OutboxInv, OutboxTypeOK', PostsEvents', NEW w \in Workers, LeaseLost(w)
    PROVE  OutboxInv'
<1>1. /\ worker'[w].pc # "post" /\ worker'[w].batch = worker[w].batch /\ enabled' = enabled /\ heard' = heard
      /\ \A v \in Workers \ {w} : worker'[v] = worker[v]
  BY NextEventFields DEF LeaseLost, OutboxInv
<1>2. UNCHANGED row /\ UNCHANGED receipt
  BY DEF LeaseLost
<1>3. Onward
  BY <1>1, <1>2 DEF Onward
<1>4. Honest(w)'
  BY <1>1, <1>2 DEF Honest, OutboxInv
<1>5. \A v \in Workers : Honest(v)'
  BY <1>1, <1>3, <1>4, OthersHonest
<1>6. OutcomeAgrees'
  BY <1>2 DEF OutboxInv, OutcomeAgrees
<1> QED
  BY <1>1, <1>5, <1>6 DEF OutboxInv, Steady

\* Nothing else touches passes and receipts; a crash leaves an empty memory.
LEMMA InvRest ==
    ASSUME OutboxInv, OutboxTypeOK', PostsEvents',
           \/ \E e \in Events : Emit(e) \/ Clock(e)
           \/ \E w \in Workers : Crash(w)
           \/ \E t \in Targets : Switch(t)
    PROVE  OutboxInv'
<1>1. /\ receipt' = receipt /\ heard' = heard
      /\ \A e \in Events : row'[e] = row[e] \/ row'[e].status = "pending"
  BY DEF Emit, Clock, LeaseEnds, BackoffEnds, Crash, Switch, OutboxInv, OutboxTypeOK
<1>2. \A t \in Steady : enabled'[t]
  BY DEF Emit, Clock, LeaseEnds, BackoffEnds, Crash, Switch, OutboxInv, OutboxTypeOK, Steady
<1>3. Onward
  BY <1>1 DEF Onward
<1>4. ASSUME NEW v \in Workers PROVE worker'[v] = worker[v] \/ worker'[v] = Idle
  BY DEF Emit, Clock, LeaseEnds, BackoffEnds, Crash, Switch, OutboxInv, OutboxTypeOK
<1>5. ASSUME NEW v \in Workers, worker'[v] = Idle PROVE Honest(v)'
  <2>1. worker'[v].pc = "rest" /\ worker'[v].batch = {}
    BY <1>5 DEF Idle
  <2> QED
    BY <2>1 DEF Honest
<1>6. \A v \in Workers : Honest(v)'
  BY <1>3, <1>4, <1>5, OthersHonest
<1>7. OutcomeAgrees'
  BY <1>1 DEF OutboxInv, OutcomeAgrees
<1> QED
  BY <1>2, <1>6, <1>7 DEF OutboxInv

LEMMA InvStep == OutboxInv /\ [OutboxNext]_outboxVars => OutboxInv'
<1> SUFFICES ASSUME OutboxInv, [OutboxNext]_outboxVars PROVE OutboxInv'
  OBVIOUS
<1>1. OutboxTypeOK' /\ PostsEvents'
  BY TypeStep DEF OutboxInv
<1>2. CASE UNCHANGED outboxVars
  BY <1>2 DEF outboxVars, OutboxInv, OutboxTypeOK, PostsEvents, Honest, OutcomeAgrees
<1>3. CASE OutboxNext
  BY <1>1, <1>3, InvClaim, InvRead, InvAnswer, InvRecord, InvFinish, InvLost, InvRest
     DEF OutboxNext, Quiet, PassStep
<1> QED
  BY <1>2, <1>3

LEMMA InvHolds == OutboxSpec => []OutboxInv
<1>1. OutboxInv /\ [OutboxNext]_outboxVars => OutboxInv'
  BY InvStep
<1> QED
  BY InvInit, <1>1, PTL DEF OutboxSpec

\* Whatever passes that lost their lease still write, a delivered event reached
\* every target that was enabled all along, and a given up event has no open receipt.
THEOREM OutcomeHolds == OutboxSpec => []OutcomeAgrees
<1>1. OutboxInv => OutcomeAgrees
  BY DEF OutboxInv
<1> QED
  BY InvHolds, <1>1, PTL

-----------------------------------------------------------------------------
(* The dispatcher implements the promise: what a pass does is one step of it or *)
(* no step at all. Passes whose lease ended still post, and that is a step the  *)
(* promise allows.                                                              *)

Public == [e \in Events |-> IF row[e].status \in {"pending", "processing"} THEN "open" ELSE row[e].status]
Confirmed == {p \in Events \X Targets : receipt[p[1]][p[2]] = "delivered"}

LEMMA ConfirmedIs ==
    \A e \in Events, t \in Targets : <<e, t>> \in Confirmed <=> receipt[e][t] = "delivered"
  BY DEF Confirmed

\* Rows that stay where they are for the outside, and receipts that stay, are no step.
SameOutside ==
    /\ \A e \in Events : row'[e] = row[e] \/ {row[e].status, row'[e].status} \subseteq {"pending", "processing"}
    /\ \A e \in Events, t \in Targets : receipt'[e][t] = "delivered" <=> receipt[e][t] = "delivered"
    /\ heard' = heard

LEMMA Stutters ==
    ASSUME SameOutside
    PROVE  UNCHANGED Promise!vars
<1> USE DEF SameOutside
<1>1. \A e \in Events : Public[e]' = Public[e]
  BY DEF Public
<1>2. Public' = Public
  BY <1>1 DEF Public
<1>3. Confirmed' = Confirmed
  <2>1. \A p \in Events \X Targets : receipt'[p[1]][p[2]] = "delivered" <=> receipt[p[1]][p[2]] = "delivered"
    OBVIOUS
  <2> QED
    BY <2>1 DEF Confirmed
<1> QED
  BY <1>2, <1>3 DEF Promise!vars, Public, Confirmed

LEMMA RefineInit == OutboxInit => Promise!Init
<1> SUFFICES ASSUME OutboxInit PROVE Promise!Init
  OBVIOUS
<1>1. Public = [e \in Events |-> "none"]
  BY DEF Public, OutboxInit
<1>2. Confirmed = {}
  BY DEF Confirmed, OutboxInit
<1> QED
  BY <1>1, <1>2 DEF Promise!Init, Public, Confirmed, OutboxInit

LEMMA RefineEmit ==
    ASSUME OutboxTypeOK, NEW e \in Events, Emit(e)
    PROVE  Promise!Announce(e)
<1>1. row' = [row EXCEPT ![e].status = "pending"] /\ row[e].status = "none" /\ UNCHANGED heard /\ UNCHANGED receipt
  BY DEF Emit
<1>2. Public[e] = "none" /\ row'[e].status = "pending" /\ \A d \in Events \ {e} : row'[d] = row[d]
  BY <1>1 DEF OutboxTypeOK, Public
<1>3. Public' = [Public EXCEPT ![e] = "open"]
  BY <1>2 DEF Public
<1>4. Confirmed' = Confirmed
  BY <1>1 DEF Confirmed
<1> QED
  BY <1>1, <1>2, <1>3, <1>4 DEF Promise!Announce, Public, Confirmed

LEMMA RefineAccept ==
    ASSUME OutboxInv, NEW w \in Workers, NEW t \in Targets, PostAccepted(w, t)
    PROVE  worker[w].on \in Events /\ Promise!Accept(worker[w].on, t)
<1> DEFINE e == worker[w].on
<1>1. /\ worker[w].pc = "post" /\ heard' = heard \cup {<<e, t>>}
      /\ UNCHANGED row /\ UNCHANGED receipt
  BY DEF PostAccepted
<1>2. e \in Events /\ row[e].status # "none"
  BY <1>1 DEF OutboxInv, PostsEvents, Honest
<1>3. Public[e] # "none"
  BY <1>2 DEF Public
<1>4. Public' = Public /\ Confirmed' = Confirmed
  BY <1>1 DEF Public, Confirmed
<1> QED
  BY <1>1, <1>2, <1>3, <1>4 DEF Promise!Accept, Public, Confirmed

\* A receipt is a step only when it says "delivered", and then the target was heard.
LEMMA RefineRecord ==
    ASSUME OutboxInv, NEW w \in Workers, NEW t \in Targets, Record(w, t)
    PROVE  worker[w].on \in Events /\ (Promise!Confirm(worker[w].on, t) \/ UNCHANGED Promise!vars)
<1> DEFINE e == worker[w].on
           mine == Holds(w, e) /\ Open(e, t)
<1>1. /\ worker[w].pc = "post" /\ t \in worker[w].ok \cup worker[w].bad /\ e \in Events /\ Honest(w)
      /\ receipt' = IF mine THEN [receipt EXCEPT ![e][t] = Heard(w, t)] ELSE receipt
      /\ UNCHANGED row /\ UNCHANGED heard
  BY DEF Record, Write, OutboxInv, PostsEvents
<1>2. receipt \in [Events -> [Targets -> {"none", "pending", "delivered", "dead"}]]
  BY DEF OutboxInv, OutboxTypeOK
<1>3. /\ \A d \in Events, u \in Targets : d # e \/ u # t => receipt'[d][u] = receipt[d][u]
      /\ receipt'[e][t] = IF mine THEN Heard(w, t) ELSE receipt[e][t]
  BY <1>1, <1>2 DEF Heard
<1>4. mine => row[e].status = "processing" /\ receipt[e][t] # "delivered"
  BY DEF Holds, Open
<1> HIDE DEF mine
<1>5. CASE mine /\ t \in worker[w].ok
  <2>1. receipt'[e][t] = "delivered" /\ <<e, t>> \in heard
    BY <1>1, <1>3, <1>5 DEF Heard, Honest
  <2>2. Public[e] = "open" /\ Public' = Public
    BY <1>1, <1>4, <1>5 DEF Public
  <2>3. \A p \in Events \X Targets : receipt'[p[1]][p[2]] = "delivered" <=> receipt[p[1]][p[2]] = "delivered" \/ p = <<e, t>>
    BY <1>3, <2>1
  <2>4. Confirmed' = Confirmed \cup {<<e, t>>}
    BY <1>1, <2>3 DEF Confirmed
  <2> QED
    BY <1>1, <2>1, <2>2, <2>4 DEF Promise!Confirm, Public, Confirmed
<1>6. CASE ~(mine /\ t \in worker[w].ok)
  <2>1. \A d \in Events, u \in Targets : receipt'[d][u] = "delivered" <=> receipt[d][u] = "delivered"
    BY <1>3, <1>4, <1>6 DEF Heard
  <2> QED
    BY <1>1, <2>1, Stutters DEF SameOutside
<1> QED
  BY <1>1, <1>5, <1>6

\* An outcome that settles is the promise's; one that tries again is no step.
LEMMA RefineFinish ==
    ASSUME OutboxInv, NEW w \in Workers, Finish(w)
    PROVE  worker[w].on \in Events /\ (Promise!Settle(worker[w].on) \/ UNCHANGED Promise!vars)
<1> DEFINE e == worker[w].on
           outcome == Outcome(w)
<1>1. /\ worker[w].pc = "post" /\ e \in Events /\ Honest(w)
      /\ worker[w].todo = {} /\ worker[w].ok = {} /\ ~worker[w].lost
      /\ row[e].status = "processing" /\ heard' = heard
  BY DEF Finish, AllAnswered, Holds, OutboxInv, PostsEvents, NextEvent
<1>2. outcome \in {"delivered", "failed", "pending"} /\ (outcome = "delivered" => worker[w].allOk)
  BY DEF Outcome
<1>3. Settle(e, outcome, Nobody)
  BY DEF Finish
<1> HIDE DEF outcome
<1>4. row'[e].status = outcome /\ \A d \in Events \ {e} : row'[d] = row[d]
  BY <1>1, <1>3 DEF Settle, OutboxInv, OutboxTypeOK
<1>5. receipt \in [Events -> [Targets -> {"none", "pending", "delivered", "dead"}]]
  BY DEF OutboxInv, OutboxTypeOK
<1>6. \A d \in Events, t \in Targets : receipt'[d][t] = "delivered" <=> receipt[d][t] = "delivered"
  <2>1. receipt' = receipt \/ receipt' = [receipt EXCEPT ![e] = [t \in Targets |-> IF @[t] = "pending" THEN "dead" ELSE @[t]]]
    BY <1>3 DEF Settle
  <2> QED
    BY <1>1, <1>5, <2>1
<1>7. CASE outcome = "pending"
  BY <1>1, <1>4, <1>6, <1>7, Stutters DEF SameOutside
<1>8. CASE outcome \in {"delivered", "failed"}
  <2>1. outcome = "delivered" => \A t \in Steady : receipt[e][t] = "delivered"
    BY <1>1, <1>2 DEF Honest
  <2>2. Steady \subseteq Targets
    BY DEF Steady
  <2>3. outcome = "delivered" => {e} \X Steady \subseteq Confirmed
    BY <1>1, <2>1, <2>2 DEF Confirmed
  <2>4. Public[e] = "open" /\ Public' = [Public EXCEPT ![e] = outcome]
    BY <1>1, <1>4, <1>8 DEF Public
  <2>5. \A p \in Events \X Targets : receipt'[p[1]][p[2]] = "delivered" <=> receipt[p[1]][p[2]] = "delivered"
    BY <1>6
  <2>6. Confirmed' = Confirmed
    BY <2>5 DEF Confirmed
  <2> QED
    BY <1>1, <1>8, <2>3, <2>4, <2>6 DEF Promise!Settle, Public, Confirmed, Steady
<1> QED
  BY <1>1, <1>2, <1>7, <1>8

LEMMA RefineClaim ==
    ASSUME NEW w \in Workers, Claim(w)
    PROVE  UNCHANGED Promise!vars
<1>1. \A e \in Events : row'[e] = row[e] \/ {row[e].status, row'[e].status} \subseteq {"pending", "processing"}
  <2>1. PICK batch \in SUBSET {e \in Events : Claimable(e)} :
           row' = [e \in Events |->
               IF e \in batch THEN [status |-> "processing", attempts |-> row[e].attempts + 1, token |-> w] ELSE row[e]]
    BY DEF Claim
  <2>2. \A e \in batch : row[e].status \in {"pending", "processing"} /\ row'[e].status = "processing"
    BY <2>1 DEF Claimable
  <2> QED
    BY <2>1, <2>2
<1>2. receipt' = receipt /\ heard' = heard
  BY DEF Claim
<1>3. SameOutside
  BY <1>1, <1>2 DEF SameOutside
<1> QED
  BY <1>3, Stutters

LEMMA RefineStep == OutboxInv /\ [OutboxNext]_outboxVars => [Promise!Next]_(Promise!vars)
<1> SUFFICES ASSUME OutboxInv, [OutboxNext]_outboxVars PROVE Promise!Next \/ UNCHANGED Promise!vars
  BY DEF Promise!vars
<1>1. CASE \E e \in Events : Emit(e)
  BY <1>1, RefineEmit DEF Promise!Next, OutboxInv
<1>2. ASSUME NEW w \in Workers, NEW t \in Targets, PostAccepted(w, t) PROVE Promise!Next
  BY <1>2, RefineAccept DEF Promise!Next
<1>3. ASSUME NEW w \in Workers, NEW t \in Targets, Record(w, t) PROVE Promise!Next \/ UNCHANGED Promise!vars
  BY <1>3, RefineRecord DEF Promise!Next
<1>4. ASSUME NEW w \in Workers, Finish(w) PROVE Promise!Next \/ UNCHANGED Promise!vars
  <2>1. worker[w].on \in Events /\ (Promise!Settle(worker[w].on) \/ UNCHANGED Promise!vars)
    BY <1>4, RefineFinish
  <2>2. Promise!Settle(worker[w].on) => Promise!Next
    BY <2>1 DEF Promise!Next, Promise!Settle
  <2> QED
    BY <2>1, <2>2
<1>5. ASSUME \/ \E w \in Workers, e \in Events : ReadTargets(w, e)
             \/ \E w \in Workers, t \in Targets : PostFailed(w, t)
             \/ \E w \in Workers : LeaseLost(w) \/ Crash(w)
             \/ \E e \in Events : Clock(e)
             \/ \E t \in Targets : Switch(t)
             \/ UNCHANGED outboxVars
      PROVE  UNCHANGED Promise!vars
  <2>1. row' = row /\ receipt' = receipt /\ heard' = heard
    BY <1>5 DEF ReadTargets, PostFailed, LeaseLost, NextEvent, Crash, Clock, LeaseEnds, BackoffEnds, Switch, outboxVars
  <2> QED
    BY <2>1, Stutters DEF SameOutside
<1>6. ASSUME NEW w \in Workers, Claim(w) PROVE UNCHANGED Promise!vars
  BY <1>6, RefineClaim
<1>7. ASSUME NEW w \in Workers, PassStep(w) PROVE Promise!Next \/ UNCHANGED Promise!vars
  <2> HIDE DEF Promise!Next, Promise!vars
  <2> QED
    BY <1>3, <1>4, <1>5, <1>6, <1>7 DEF PassStep
<1>8. CASE OutboxNext
  BY <1>1, <1>2, <1>5, <1>7, <1>8 DEF OutboxNext, Quiet
<1> QED
  BY <1>5, <1>8

\* Every behaviour of the dispatcher keeps the promise of the outbox: events settle
\* once, delivered receipts are never invented, and delivered means every steady target.
THEOREM PromiseKept == OutboxSpec => KeepsPromise
<1>1. OutboxInit => Promise!Init
  BY RefineInit
<1>2. OutboxInv /\ [OutboxNext]_outboxVars => [Promise!Next]_(Promise!vars)
  BY RefineStep
<1> QED
  BY <1>1, <1>2, InvHolds, PTL DEF OutboxSpec, KeepsPromise, Promise!Spec
=============================================================================
