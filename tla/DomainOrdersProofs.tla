------------------------- MODULE DomainOrdersProofs -------------------------
(* Theorems about DomainOrders, for every set of charges, domains, operations   *)
(* and handlers and every bound on faults and orders.                           *)
EXTENDS DomainOrders, TLAPS

-----------------------------------------------------------------------------
(* Handlers *)

ProcType == [pc : Pcs, on : Charges \cup Domains \cup {"none"}, data : BOOLEAN, caught : BOOLEAN,
             after : DomainStatuses \cup {"keep"}, ok : BOOLEAN]

ChargePcs == Pcs \ {"rest", "over", "arrived", "died", "find"}

\* What a handler in a state is sure of, given what the registrar holds for us: what it
\* works on, and that it delivers or puts back to active only what is ours.
Sound(x, ours) ==
    /\ x.pc \in ChargePcs => x.on \in Charges
    /\ x.pc \in {"arrived", "died", "find"} => x.on \in Domains
    /\ x.pc = "arrived" => ours[x.on]
    /\ x.pc = "deliver" /\ Operation[x.on] # "transfer" => ours[DomainOf[x.on]]
    /\ x.pc \in ChargePcs /\ x.after = "active" => ours[DomainOf[x.on]]

ActiveInv == TypeOK /\ ActiveIsOurs /\ \A p \in Procs : Sound(proc[p], owned)

LEMMA AtTyped ==
    ASSUME NEW pc \in Pcs, NEW x \in Charges \cup Domains \cup {"none"}
    PROVE  /\ At(pc, x) \in ProcType
           /\ At(pc, x).pc = pc /\ At(pc, x).on = x /\ At(pc, x).after = "keep"
  BY DEF At, Rest, ProcType, DomainStatuses

LEMMA RestTyped == Rest \in ProcType /\ Rest.pc = "rest"
  BY DEF Rest, ProcType, Pcs

\* A handler that goes on to another state, and the ways it takes something along.
LEMMA OnTyped ==
    ASSUME NEW x \in ProcType, NEW pc \in Pcs
    PROVE  /\ [x EXCEPT !.pc = pc] \in ProcType
           /\ [x EXCEPT !.pc = pc].pc = pc /\ [x EXCEPT !.pc = pc].on = x.on /\ [x EXCEPT !.pc = pc].after = x.after
  BY DEF ProcType

LEMMA CaughtTyped ==
    ASSUME NEW x \in ProcType, NEW pc \in Pcs
    PROVE  /\ [x EXCEPT !.caught = TRUE, !.pc = pc] \in ProcType
           /\ [x EXCEPT !.caught = TRUE, !.pc = pc].pc = pc /\ [x EXCEPT !.caught = TRUE, !.pc = pc].on = x.on
           /\ [x EXCEPT !.caught = TRUE, !.pc = pc].after = x.after
  BY DEF ProcType

LEMMA AnsweredTyped ==
    ASSUME NEW x \in ProcType, NEW pc \in Pcs, NEW good \in BOOLEAN
    PROVE  /\ [x EXCEPT !.pc = pc, !.ok = good] \in ProcType
           /\ [x EXCEPT !.pc = pc, !.ok = good].pc = pc /\ [x EXCEPT !.pc = pc, !.ok = good].on = x.on
           /\ [x EXCEPT !.pc = pc, !.ok = good].after = x.after
  BY DEF ProcType

LEMMA AfterTyped ==
    ASSUME NEW x \in ProcType, NEW pc \in Pcs, NEW s \in DomainStatuses \cup {"keep"}
    PROVE  /\ [x EXCEPT !.pc = pc, !.after = s] \in ProcType
           /\ [x EXCEPT !.pc = pc, !.after = s].pc = pc /\ [x EXCEPT !.pc = pc, !.after = s].on = x.on
           /\ [x EXCEPT !.pc = pc, !.after = s].after = s
  BY DEF ProcType

LEMMA PreparedTyped ==
    ASSUME NEW x \in ProcType, NEW pc \in Pcs, NEW b \in BOOLEAN, NEW s \in DomainStatuses \cup {"keep"}
    PROVE  /\ [x EXCEPT !.pc = pc, !.data = b, !.after = s] \in ProcType
           /\ [x EXCEPT !.pc = pc, !.data = b, !.after = s].pc = pc
           /\ [x EXCEPT !.pc = pc, !.data = b, !.after = s].on = x.on
           /\ [x EXCEPT !.pc = pc, !.data = b, !.after = s].after = s
  BY DEF ProcType

\* Every state a handler goes to is one of Pcs.
LEMMA PcsAre ==
    /\ {"rest", "over", "claim", "prepare", "order", "ask", "deliver", "mark", "dns", "requeue", "refund", "record",
        "release", "giveUp", "stuck", "note", "arrived", "died", "find", "reset"} = Pcs
    /\ ChargePcs = {"claim", "prepare", "order", "ask", "deliver", "mark", "dns", "requeue", "refund", "record",
                    "release", "giveUp", "stuck", "note", "reset"}
  BY DEF Pcs, ChargePcs

\* A handler that moves leaves the others where they are.
LEMMA GoFields ==
    ASSUME TypeOK, NEW p \in Procs, NEW x \in ProcType, Go(p, x)
    PROVE  /\ proc' \in [Procs -> ProcType] /\ proc'[p] = x
           /\ \A q \in Procs \ {p} : proc'[q] = proc[q]
  BY DEF Go, TypeOK, ProcType

\* The end of a request.
LEMMA DoneFields ==
    ASSUME NEW p, Done(p)
    PROVE  \E x \in ProcType : Go(p, x) /\ x.pc \in {"rest", "over"}
<1> DEFINE x == IF p \in Admins THEN At("over", "none") ELSE Rest
<1>1. Go(p, x)
  BY DEF Done
<1>2. x \in ProcType /\ x.pc \in {"rest", "over"}
  <2>1. At("over", "none") \in ProcType /\ At("over", "none").pc = "over"
    <3>1. "over" \in Pcs /\ "none" \in Charges \cup Domains \cup {"none"}
      BY DEF Pcs
    <3> QED
      BY <3>1, AtTyped
  <2> QED
    BY <2>1, RestTyped
<1> HIDE DEF x
<1> QED
  BY <1>1, <1>2

\* What we own stays ours.
LEMMA SoundStays ==
    ASSUME NEW x, NEW ours, NEW more, \A d \in Domains : ours[d] => more[d], Sound(x, ours)
    PROVE  Sound(x, more)
<1>1. DomainOf \in [Charges -> Domains]
  BY DomainAssumption
<1>2. x.pc \in ChargePcs => x.on \in Charges /\ DomainOf[x.on] \in Domains
  BY <1>1 DEF Sound
<1>3. x.pc = "deliver" => x.pc \in ChargePcs
  BY PcsAre
<1>4. x.pc = "arrived" => x.on \in Domains
  BY DEF Sound
<1> QED
  BY <1>2, <1>3, <1>4 DEF Sound

\* A handler on a charge knows its domain.
LEMMA OnCharge ==
    ASSUME ActiveInv, NEW p \in Procs, proc[p].pc \in ChargePcs
    PROVE  /\ proc[p] \in ProcType /\ proc[p].on \in Charges
           /\ Dom(p) = DomainOf[proc[p].on] /\ Dom(p) \in Domains
           /\ Op(p) = Operation[proc[p].on] /\ Op(p) \in {"register", "renew", "transfer"}
           /\ charge[proc[p].on] \in [status : ChargeStatuses, refund : BOOLEAN, data : BOOLEAN]
  BY DomainAssumption DEF ActiveInv, Sound, Dom, Op, TypeOK, ProcType

\* Wherever a handler goes, it goes with what it is sure of.
Goes(p) == \E x \in ProcType : Go(p, x) /\ Sound(x, owned')

LEMMA DoneGoes ==
    ASSUME NEW p, Done(p)
    PROVE  Goes(p)
<1>1. PICK x \in ProcType : Go(p, x) /\ x.pc \in {"rest", "over"}
  BY DoneFields
<1>2. Sound(x, owned')
  BY <1>1, PcsAre DEF Sound
<1> QED
  BY <1>1, <1>2 DEF Goes

\* Going on from a state that says something about the charge to one that says no more.
LEMMA GotoGoes ==
    ASSUME ActiveInv, NEW p \in Procs, proc[p].pc \in ChargePcs, NEW pc \in ChargePcs,
           \A d \in Domains : owned[d] => owned'[d],
           pc = "deliver" /\ Op(p) # "transfer" => owned'[Dom(p)]
    PROVE  /\ Goto(p, pc) => Goes(p)
           /\ Go(p, [proc[p] EXCEPT !.caught = TRUE, !.pc = pc]) => Goes(p)
           /\ \A good \in BOOLEAN : Go(p, [proc[p] EXCEPT !.pc = pc, !.ok = good]) => Goes(p)
<1>1. /\ proc[p] \in ProcType /\ proc[p].on \in Charges /\ Dom(p) = DomainOf[proc[p].on] /\ Dom(p) \in Domains
      /\ Op(p) = Operation[proc[p].on] /\ pc \in Pcs
  BY OnCharge DEF ChargePcs
<1>2. proc[p].after = "active" => owned'[Dom(p)]
  BY <1>1 DEF ActiveInv, Sound
<1>3. ASSUME NEW x \in ProcType, x.pc = pc, x.on = proc[p].on, x.after = proc[p].after, Go(p, x) PROVE Goes(p)
  <2>1. Sound(x, owned')
    BY <1>1, <1>2, <1>3, PcsAre DEF Sound
  <2> QED
    BY <1>3, <2>1 DEF Goes
<1>4. Goto(p, pc) => Goes(p)
  BY <1>1, <1>3, OnTyped DEF Goto
<1>5. Go(p, [proc[p] EXCEPT !.caught = TRUE, !.pc = pc]) => Goes(p)
  BY <1>1, <1>3, CaughtTyped
<1>6. ASSUME NEW good \in BOOLEAN, Go(p, [proc[p] EXCEPT !.pc = pc, !.ok = good]) PROVE Goes(p)
  BY <1>1, <1>3, <1>6, AnsweredTyped, ZenonT(30)
<1> QED
  BY <1>4, <1>5, <1>6

\* Taking up a charge.
LEMMA AtGoes ==
    ASSUME NEW p, NEW c \in Charges, NEW pc \in ChargePcs \ {"deliver"}, Go(p, At(pc, c))
    PROVE  Goes(p)
<1>1. pc \in Pcs
  BY DEF ChargePcs
<1>2. At(pc, c) \in ProcType /\ At(pc, c).pc = pc /\ At(pc, c).on = c /\ At(pc, c).after = "keep"
  BY <1>1, AtTyped
<1> HIDE DEF At
<1>3. Sound(At(pc, c), owned')
  BY <1>2, PcsAre DEF Sound
<1> QED
  BY <1>2, <1>3 DEF Goes

LEMMA OwnedGrows ==
    ASSUME TypeOK, [Next]_vars
    PROVE  \A d \in Domains : owned[d] => owned'[d]
<1>1. ASSUME NEW p \in Procs, Place(p) PROVE \A d \in Domains : owned[d] => owned'[d]
  BY <1>1 DEF Place, TypeOK
<1>2. ASSUME NEW d \in Domains, TransferEnds(d) PROVE \A e \in Domains : owned[e] => owned'[e]
  BY <1>2 DEF TransferEnds, TypeOK
<1>3. ASSUME NEW p \in Procs, Step(p), ~Place(p) PROVE UNCHANGED owned
  BY <1>3 DEF Step, Claim, Prepare, OrderAccepted, OrderUnreachable, OrderRefused, Ask, Deliver, Mark, Dns, Requeue,
              Refund, RecordRefund, Release, GiveUp, AskStuck, NoteStuck, TransferArrived, TransferDied, FindTransfer,
              Reset, outside
<1>4. ASSUME NEW p \in Procs, OrderAnswerLost(p) PROVE Place(p)
  BY <1>4 DEF OrderAnswerLost
<1>5. ASSUME NEW p \in Procs, RefundAnswerLost(p) \/ DatabaseFails(p) \/ Crash(p) PROVE UNCHANGED owned
  BY <1>5 DEF RefundAnswerLost, DatabaseFails, Crash, outside
<1>6. ASSUME NEW c \in Charges, \/ CheckoutStep(c) \/ CheckoutExpired(c) \/ SessionEnds(c)
                                \/ HalfHourPasses(c) \/ DayPasses(c)
      PROVE  UNCHANGED owned
  BY <1>6 DEF CheckoutStep, CheckoutLooks, CheckoutCreates, CheckoutHolds, CheckoutCharges, CheckoutOpens,
              CheckoutExpired, SessionEnds, HalfHourPasses, DayPasses, outside
<1>7. ASSUME NEW c \in Charges, NEW p, RecordPayment(p, c) \/ AdminRefunds(p, c) \/ AdminRetries(p, c)
      PROVE  UNCHANGED owned
  BY <1>7 DEF RecordPayment, AdminRefunds, AdminRetries, outside
<1>8. ASSUME PassStep PROVE UNCHANGED owned
  BY <1>8 DEF PassStep, BeginPass, ListStuck, ListTransfers, EndPass, ReconcilePaid, ReconcileStuck, ReconcileTransfer,
              outside
<1>9. CASE UNCHANGED vars
  BY <1>9 DEF vars, outside
<1>10. CASE Next
  BY <1>1, <1>2, <1>3, <1>4, <1>5, <1>6, <1>7, <1>8, <1>10 DEF Next
<1> QED
  BY <1>9, <1>10

\* Steps of a handler on a charge.
LEMMA ChargeGoes ==
    ASSUME ActiveInv, NEW p \in Procs, proc[p].pc \in ChargePcs, \A d \in Domains : owned[d] => owned'[d],
           Step(p) \/ OrderAnswerLost(p) \/ RefundAnswerLost(p) \/ DatabaseFails(p)
    PROVE  Goes(p)
<1>0. /\ proc[p] \in ProcType /\ proc[p].on \in Charges /\ Dom(p) = DomainOf[proc[p].on] /\ Dom(p) \in Domains
      /\ Op(p) = Operation[proc[p].on] /\ Op(p) \in {"register", "renew", "transfer"}
      /\ charge[proc[p].on] \in [status : ChargeStatuses, refund : BOOLEAN, data : BOOLEAN]
  BY OnCharge
<1>1. \A pc \in ChargePcs \ {"deliver"} : Goto(p, pc) => Goes(p)
  BY GotoGoes
<1>2. \A pc \in ChargePcs \ {"deliver"} : Go(p, [proc[p] EXCEPT !.caught = TRUE, !.pc = pc]) => Goes(p)
  BY GotoGoes
<1>3. Done(p) => Goes(p)
  BY DoneGoes
<1>4. (Op(p) # "transfer" => owned'[Dom(p)]) /\ Goto(p, "deliver") => Goes(p)
  BY GotoGoes, PcsAre
<1>5. {"claim", "prepare", "order", "ask", "mark", "dns", "requeue", "refund", "record", "release", "giveUp", "stuck",
       "note", "reset"} \subseteq ChargePcs \ {"deliver"}
  BY PcsAre
<1>6. Claim(p) \/ Requeue(p) \/ NoteStuck(p) \/ Mark(p) \/ Dns(p) \/ Release(p) \/ Reset(p) => Goes(p)
  BY <1>1, <1>3, <1>5 DEF Claim, Requeue, NoteStuck, Mark, Dns, Release, Reset
<1>7. OrderUnreachable(p) \/ OrderRefused(p) \/ DatabaseFails(p) => Goes(p)
  BY <1>2, <1>5 DEF OrderUnreachable, OrderRefused, DatabaseFails, AfterTransient
<1>8. OrderAnswerLost(p) => Goes(p)
  BY <1>2, <1>5 DEF OrderAnswerLost, AfterTransient
<1>9. OrderAccepted(p) => Goes(p)
  <2> SUFFICES ASSUME OrderAccepted(p) PROVE Goes(p)
    OBVIOUS
  <2>1. Placeable(p) /\ owned' = [owned EXCEPT ![Dom(p)] = @ \/ Op(p) = "register"] /\ Goto(p, "deliver")
    BY DEF OrderAccepted, Place
  <2>2. owned \in [Domains -> BOOLEAN]
    BY DEF ActiveInv, TypeOK
  <2>3. Op(p) # "transfer" => owned'[Dom(p)]
    BY <1>0, <2>1, <2>2 DEF Placeable
  <2> QED
    BY <1>4, <2>1, <2>3
<1>10. Ask(p) \/ AskStuck(p) => Goes(p)
  <2> SUFFICES ASSUME Ask(p) \/ AskStuck(p) PROVE Goes(p)
    OBVIOUS
  <2>1. \/ Goto(p, "requeue") \/ Goto(p, "note")
        \/ Goto(p, "deliver") /\ owned[Dom(p)] /\ UNCHANGED owned
    BY DEF Ask, AskStuck, outside
  <2> QED
    BY <1>1, <1>4, <1>5, <2>1
<1>11. Deliver(p) => Goes(p)
  BY <1>1, <1>5 DEF Deliver
<1>12. Refund(p) \/ RefundAnswerLost(p) => Goes(p)
  BY GotoGoes, <1>5 DEF Refund, RefundAnswerLost
<1>13. RecordRefund(p) => Goes(p)
  BY <1>1, <1>5 DEF RecordRefund
<1>14. Prepare(p) => Goes(p)
  <2> SUFFICES ASSUME Prepare(p) PROVE Goes(p)
    OBVIOUS
  <2> DEFINE s == IF Op(p) = "renew" THEN domain[Dom(p)] ELSE "failed"
             b == charge[proc[p].on].data
             x == [proc[p] EXCEPT !.pc = "order", !.data = b, !.after = s]
  <2>1. Go(p, x) /\ UNCHANGED owned
    BY DEF Prepare, outside
  <2>2. s \in DomainStatuses \cup {"keep"} /\ b \in BOOLEAN
    BY <1>0 DEF ActiveInv, TypeOK, DomainStatuses
  <2>3. s = "active" => owned[Dom(p)]
    BY <1>0 DEF ActiveInv, ActiveIsOurs
  <2> HIDE DEF s, b
  <2>4. "order" \in Pcs /\ "order" \in ChargePcs
    BY PcsAre
  <2>5. x \in ProcType /\ x.pc = "order" /\ x.on = proc[p].on /\ x.after = s
    BY <1>0, <2>2, <2>4 DEF ProcType
  <2> HIDE DEF x
  <2>6. Sound(x, owned')
    BY <1>0, <2>1, <2>3, <2>5 DEF Sound
  <2> QED
    BY <2>1, <2>5, <2>6 DEF Goes
<1>15. GiveUp(p) => Goes(p)
  <2> SUFFICES ASSUME GiveUp(p) PROVE Goes(p)
    OBVIOUS
  <2> DEFINE s == IF Op(p) = "renew" THEN "keep" ELSE "failed"
             x == [proc[p] EXCEPT !.pc = "refund", !.after = s]
  <2>1. Go(p, x)
    BY DEF GiveUp
  <2>2. s \in DomainStatuses \cup {"keep"} /\ s # "active"
    BY DEF DomainStatuses
  <2> HIDE DEF s
  <2>4. "refund" \in Pcs /\ "refund" \in ChargePcs
    BY PcsAre
  <2>5. x \in ProcType /\ x.pc = "refund" /\ x.on = proc[p].on /\ x.after = s
    BY <1>0, <2>2, <2>4 DEF ProcType
  <2> HIDE DEF x
  <2>6. Sound(x, owned')
    BY <1>0, <2>2, <2>5 DEF Sound
  <2> QED
    BY <2>1, <2>5, <2>6 DEF Goes
<1>16. ~(TransferArrived(p) \/ TransferDied(p) \/ FindTransfer(p))
  BY PcsAre DEF TransferArrived, TransferDied, FindTransfer
<1> QED
  BY <1>6, <1>7, <1>8, <1>9, <1>10, <1>11, <1>12, <1>13, <1>14, <1>15, <1>16 DEF Step

\* Handlers that are set off: by Stripe, by an admin, by the pass.
LEMMA SetOffGoes ==
    ASSUME NEW p \in Procs, NEW c \in Charges,
           \/ RecordPayment(p, c) \/ AdminRefunds(p, c) \/ AdminRetries(p, c)
           \/ p = Reconciler /\ (ReconcilePaid(c) \/ ReconcileStuck(c))
    PROVE  Goes(p)
<1>1. {"claim", "refund", "reset", "giveUp", "stuck"} \subseteq ChargePcs \ {"deliver"}
  BY PcsAre
<1>2. \A pc \in ChargePcs \ {"deliver"} : Go(p, At(pc, c)) => Goes(p)
  BY AtGoes
<1>3. RecordPayment(p, c) \/ AdminRefunds(p, c) \/ AdminRetries(p, c) => Goes(p)
  BY <1>1, <1>2 DEF RecordPayment, AdminRefunds, AdminRetries
<1>4. p = Reconciler /\ ReconcilePaid(c) => Goes(p)
  BY <1>1, <1>2 DEF ReconcilePaid
<1>5. ASSUME p = Reconciler, ReconcileStuck(c) PROVE Goes(p)
  <2> DEFINE x == [At("stuck", c) EXCEPT !.caught = TRUE]
  <2>1. Go(p, x)
    BY <1>5 DEF ReconcileStuck
  <2>2. At("stuck", c) \in ProcType /\ At("stuck", c).pc = "stuck" /\ At("stuck", c).on = c /\ At("stuck", c).after = "keep"
    <3>1. "stuck" \in Pcs
      BY PcsAre
    <3> QED
      BY <3>1, AtTyped
  <2> HIDE DEF At
  <2>3. x \in ProcType /\ x.pc = "stuck" /\ x.on = c /\ x.after = "keep"
    BY <2>2 DEF ProcType
  <2> HIDE DEF x
  <2>4. Sound(x, owned')
    BY <2>3, PcsAre DEF Sound
  <2> QED
    BY <2>1, <2>3, <2>4 DEF Goes
<1> QED
  BY <1>3, <1>4, <1>5

\* The last phase of the pass works on domains.
LEMMA TransferGoes ==
    ASSUME ActiveInv, NEW p \in Procs, UNCHANGED owned,
           \/ TransferArrived(p) \/ TransferDied(p) \/ FindTransfer(p)
           \/ p = Reconciler /\ \E d \in Domains : ReconcileTransfer(d) /\ ~UNCHANGED proc
    PROVE  Goes(p)
<1>1. "arrived" \in Pcs /\ "died" \in Pcs /\ "find" \in Pcs
  BY PcsAre
<1>2. ASSUME NEW d \in Domains, NEW pc \in {"arrived", "died"}, pc = "arrived" => owned[d], Go(p, At(pc, d)) PROVE Goes(p)
  <2>1. At(pc, d) \in ProcType /\ At(pc, d).pc = pc /\ At(pc, d).on = d
    BY <1>1, AtTyped
  <2>2. pc \notin ChargePcs /\ pc # "deliver" /\ pc # "find"
    BY PcsAre
  <2> HIDE DEF At
  <2>3. Sound(At(pc, d), owned')
    BY <1>2, <2>1, <2>2 DEF Sound
  <2> QED
    BY <1>2, <2>1, <2>3 DEF Goes
<1>3. ASSUME NEW d \in Domains, p = Reconciler, ReconcileTransfer(d), ~UNCHANGED proc PROVE Goes(p)
  <2>1. \/ owned[d] /\ Go(p, At("arrived", d))
        \/ Go(p, At("died", d))
    BY <1>3 DEF ReconcileTransfer
  <2> QED
    BY <1>2, <2>1
<1>4. TransferArrived(p) => Goes(p)
  BY DoneGoes DEF TransferArrived
<1>5. ASSUME TransferDied(p) PROVE Goes(p)
  <2> DEFINE x == [proc[p] EXCEPT !.pc = "find"]
  <2>1. Go(p, x) /\ proc[p].pc = "died"
    BY <1>5 DEF TransferDied, Goto
  <2>2. proc[p] \in ProcType /\ proc[p].on \in Domains
    BY <2>1 DEF ActiveInv, TypeOK, ProcType, Sound
  <2>3. x \in ProcType /\ x.pc = "find" /\ x.on = proc[p].on
    BY <1>1, <2>2 DEF ProcType
  <2> HIDE DEF x
  <2>4. Sound(x, owned')
    BY <2>2, <2>3, PcsAre DEF Sound
  <2> QED
    BY <2>1, <2>3, <2>4 DEF Goes
<1>6. ASSUME FindTransfer(p) PROVE Goes(p)
  <2>1. Done(p) \/ \E c \in Charges : Go(p, At("refund", c))
    BY <1>6 DEF FindTransfer, With
  <2>2. "refund" \in ChargePcs \ {"deliver"}
    BY PcsAre
  <2> QED
    BY <2>1, <2>2, AtGoes, DoneGoes
<1> QED
  BY <1>3, <1>4, <1>5, <1>6

LEMMA ReconcilerIs == Reconciler \in Procs /\ Webhooks \subseteq Procs /\ Admins \subseteq Procs
  BY DEF Procs

\* A step moves one handler, or none.
LEMMA OneGoes ==
    ASSUME ActiveInv, [Next]_vars
    PROVE  UNCHANGED proc \/ \E p \in Procs : Goes(p)
<1>0. \A d \in Domains : owned[d] => owned'[d]
  BY OwnedGrows DEF ActiveInv
<1>1. ASSUME NEW p \in Procs, Step(p) \/ OrderAnswerLost(p) \/ RefundAnswerLost(p) \/ DatabaseFails(p) PROVE Goes(p)
  <2>1. CASE proc[p].pc \in ChargePcs
    BY <1>0, <1>1, <2>1, ChargeGoes
  <2>2. CASE proc[p].pc \notin ChargePcs
    <3>1. TransferArrived(p) \/ TransferDied(p) \/ FindTransfer(p)
      BY <1>1, <2>2, PcsAre DEF Step, Claim, Prepare, OrderAccepted, OrderUnreachable, OrderRefused, Ask, Deliver, Mark,
            Dns, Requeue, Refund, RecordRefund, Release, GiveUp, AskStuck, NoteStuck, Reset, OrderAnswerLost,
            RefundAnswerLost, DatabaseFails
    <3>2. UNCHANGED owned
      BY <3>1 DEF TransferArrived, TransferDied, FindTransfer, outside
    <3> QED
      BY <3>1, <3>2, TransferGoes
  <2> QED
    BY <2>1, <2>2
<1>2. ASSUME NEW p \in Procs, Crash(p) PROVE Goes(p)
  BY <1>2, DoneGoes DEF Crash
<1>3. ASSUME NEW c \in Charges, NEW p \in Procs, RecordPayment(p, c) \/ AdminRefunds(p, c) \/ AdminRetries(p, c)
      PROVE  Goes(p)
  BY <1>3, SetOffGoes
<1>4. ASSUME NEW c \in Charges, ReconcilePaid(c) \/ ReconcileStuck(c) PROVE Goes(Reconciler)
  BY <1>4, SetOffGoes, ReconcilerIs
<1>5. ASSUME NEW d \in Domains, ReconcileTransfer(d), ~UNCHANGED proc PROVE Goes(Reconciler)
  <2>1. UNCHANGED owned
    BY <1>5 DEF ReconcileTransfer, outside
  <2> QED
    BY <1>5, <2>1, TransferGoes, ReconcilerIs
<1>6. BeginPass \/ ListStuck \/ ListTransfers \/ EndPass => UNCHANGED proc
  BY DEF BeginPass, ListStuck, ListTransfers, EndPass
<1>7. ASSUME NEW c \in Charges, \/ CheckoutStep(c) \/ CheckoutExpired(c) \/ SessionEnds(c)
                                \/ HalfHourPasses(c) \/ DayPasses(c)
      PROVE  UNCHANGED proc
  BY <1>7 DEF CheckoutStep, CheckoutLooks, CheckoutCreates, CheckoutHolds, CheckoutCharges, CheckoutOpens,
              CheckoutExpired, SessionEnds, HalfHourPasses, DayPasses
<1>8. ASSUME NEW d \in Domains, TransferEnds(d) PROVE UNCHANGED proc
  BY <1>8 DEF TransferEnds
<1>9. CASE UNCHANGED vars
  BY <1>9 DEF vars
<1>10. CASE Next
  BY <1>1, <1>2, <1>3, <1>4, <1>5, <1>6, <1>7, <1>8, <1>10, ReconcilerIs DEF Next, PassStep
<1> QED
  BY <1>9, <1>10

\* So every handler stays typed and sure of what it carries.
LEMMA SoundAfter ==
    ASSUME ActiveInv, [Next]_vars
    PROVE  proc' \in [Procs -> ProcType] /\ \A p \in Procs : Sound(proc'[p], owned')
<1>0. \A d \in Domains : owned[d] => owned'[d]
  BY OwnedGrows DEF ActiveInv
<1>1. \A p \in Procs : Sound(proc[p], owned')
  BY <1>0, SoundStays DEF ActiveInv
<1>2. CASE UNCHANGED proc
  BY <1>1, <1>2 DEF ActiveInv, TypeOK, ProcType
<1>3. ASSUME NEW p \in Procs, Goes(p)
      PROVE  proc' \in [Procs -> ProcType] /\ \A q \in Procs : Sound(proc'[q], owned')
  <2>1. PICK x \in ProcType : Go(p, x) /\ Sound(x, owned')
    BY <1>3 DEF Goes
  <2>2. /\ proc' \in [Procs -> ProcType] /\ proc'[p] = x
        /\ \A q \in Procs \ {p} : proc'[q] = proc[q]
    BY <2>1, GoFields DEF ActiveInv
  <2> QED
    BY <1>1, <2>1, <2>2
<1> QED
  BY <1>2, <1>3, OneGoes

-----------------------------------------------------------------------------
(* What the client sees *)

\* A domain is shown as active only once it is ours.
Shows(d, s) == Show(d, s) /\ d \in Domains /\ s \in DomainStatuses /\ (s = "active" => owned'[d])

LEMMA CheckoutShows ==
    ASSUME NEW c \in Charges, CheckoutStep(c)
    PROVE  UNCHANGED domain \/ \E d, s : Shows(d, s)
<1>1. DomainOf[c] \in Domains
  BY DomainAssumption
<1>2. "pending_payment" \in DomainStatuses /\ "pending_payment" # "active"
  BY DEF DomainStatuses
<1>3. UNCHANGED domain \/ Show(DomainOf[c], "pending_payment")
  BY DEF CheckoutStep, CheckoutLooks, CheckoutCreates, CheckoutHolds, CheckoutCharges, CheckoutOpens
<1> QED
  BY <1>1, <1>2, <1>3 DEF Shows

LEMMA HandlerShows ==
    ASSUME ActiveInv, NEW p \in Procs, Step(p), \A d \in Domains : owned[d] => owned'[d]
    PROVE  UNCHANGED domain \/ \E d, s : Shows(d, s)
<1>1. {"registering", "transfer_pending", "active", "failed"} \subseteq DomainStatuses
  BY DEF DomainStatuses
<1>2. proc[p].pc \in ChargePcs =>
         /\ proc[p] \in ProcType /\ Dom(p) = DomainOf[proc[p].on] /\ Dom(p) \in Domains
         /\ Op(p) = Operation[proc[p].on]
  BY OnCharge
<1>3. ASSUME Deliver(p) PROVE \E d, s : Shows(d, s)
  <2>1. proc[p].pc = "deliver" /\ Sound(proc[p], owned) /\ UNCHANGED owned
    BY <1>3 DEF Deliver, ActiveInv, outside
  <2>2. "deliver" \in ChargePcs
    BY PcsAre
  <2>3. CASE Op(p) = "transfer"
    <3>1. Show(Dom(p), "transfer_pending")
      BY <1>3, <2>3 DEF Deliver
    <3> QED
      BY <1>1, <1>2, <2>1, <2>2, <3>1 DEF Shows
  <2>4. CASE Op(p) # "transfer"
    <3>1. Show(Dom(p), "active")
      BY <1>3, <2>4 DEF Deliver
    <3>2. owned'[Dom(p)]
      BY <1>2, <2>1, <2>2, <2>4 DEF Sound
    <3> QED
      BY <1>1, <1>2, <2>1, <2>2, <3>1, <3>2 DEF Shows
  <2> QED
    BY <2>3, <2>4
<1>4. ASSUME Release(p) PROVE UNCHANGED domain \/ \E d, s : Shows(d, s)
  <2>1. proc[p].pc = "release" /\ Sound(proc[p], owned) /\ UNCHANGED owned
    BY <1>4 DEF Release, ActiveInv, outside
  <2>2. "release" \in ChargePcs
    BY PcsAre
  <2>3. CASE proc[p].after # "keep"
    <3>1. Show(Dom(p), proc[p].after)
      BY <1>4, <2>3 DEF Release
    <3>2. proc[p].after \in DomainStatuses
      BY <1>2, <2>1, <2>2, <2>3 DEF ProcType
    <3>3. proc[p].after = "active" => owned'[Dom(p)]
      BY <1>2, <2>1, <2>2 DEF Sound
    <3> QED
      BY <1>2, <2>1, <2>2, <3>1, <3>2, <3>3 DEF Shows
  <2> QED
    BY <1>4, <2>3 DEF Release
<1>5. ASSUME Prepare(p) PROVE UNCHANGED domain \/ \E d, s : Shows(d, s)
  <2>1. proc[p].pc \in ChargePcs /\ (UNCHANGED domain \/ Show(Dom(p), "registering"))
    BY <1>5, PcsAre DEF Prepare
  <2> QED
    BY <1>1, <1>2, <2>1 DEF Shows
<1>6. ASSUME TransferArrived(p) \/ TransferDied(p) PROVE \E d, s : Shows(d, s)
  <2>1. Sound(proc[p], owned) /\ UNCHANGED owned
    BY <1>6 DEF TransferArrived, TransferDied, ActiveInv, outside
  <2> QED
    BY <1>1, <1>6, <2>1 DEF TransferArrived, TransferDied, Sound, Shows
<1>7. ASSUME ~(Deliver(p) \/ Release(p) \/ Prepare(p) \/ TransferArrived(p) \/ TransferDied(p))
      PROVE  UNCHANGED domain
  BY <1>7 DEF Step, Claim, OrderAccepted, OrderUnreachable, OrderRefused, Ask, Mark, Dns, Requeue, Refund,
              RecordRefund, GiveUp, AskStuck, NoteStuck, FindTransfer, Reset
<1> QED
  BY <1>3, <1>4, <1>5, <1>6, <1>7

LEMMA ShownAfter ==
    ASSUME ActiveInv, [Next]_vars
    PROVE  domain' \in [Domains -> DomainStatuses] /\ ActiveIsOurs'
<1>0. \A d \in Domains : owned[d] => owned'[d]
  BY OwnedGrows DEF ActiveInv
<1>1. ASSUME NEW p, OrderAnswerLost(p) \/ RefundAnswerLost(p) \/ DatabaseFails(p) \/ Crash(p) PROVE UNCHANGED domain
  BY <1>1 DEF OrderAnswerLost, RefundAnswerLost, DatabaseFails, Crash
<1>2. ASSUME NEW c \in Charges, CheckoutExpired(c) \/ SessionEnds(c) \/ HalfHourPasses(c) \/ DayPasses(c)
      PROVE  UNCHANGED domain
  BY <1>2 DEF CheckoutExpired, SessionEnds, HalfHourPasses, DayPasses
<1>3. ASSUME NEW c, NEW p, RecordPayment(p, c) \/ AdminRefunds(p, c) \/ AdminRetries(p, c) PROVE UNCHANGED domain
  BY <1>3 DEF RecordPayment, AdminRefunds, AdminRetries
<1>4. ASSUME PassStep PROVE UNCHANGED domain
  BY <1>4 DEF PassStep, BeginPass, ListStuck, ListTransfers, EndPass, ReconcilePaid, ReconcileStuck, ReconcileTransfer
<1>5. ASSUME NEW d, TransferEnds(d) PROVE UNCHANGED domain
  BY <1>5 DEF TransferEnds
<1>6. UNCHANGED domain \/ \E d, s : Shows(d, s)
  <2>1. CASE Next
    BY <1>0, <1>1, <1>2, <1>3, <1>4, <1>5, <2>1, CheckoutShows, HandlerShows DEF Next
  <2> QED
    BY <2>1 DEF vars
<1>7. CASE UNCHANGED domain
  BY <1>0, <1>7 DEF ActiveInv, TypeOK, ActiveIsOurs
<1>8. ASSUME NEW d, NEW s, Shows(d, s) PROVE domain' \in [Domains -> DomainStatuses] /\ ActiveIsOurs'
  BY <1>0, <1>8 DEF Shows, Show, ActiveInv, TypeOK, ActiveIsOurs
<1> QED
  BY <1>6, <1>7, <1>8

-----------------------------------------------------------------------------
(* The tables *)

RowType == [status : ChargeStatuses, refund : BOOLEAN, data : BOOLEAN]
Writes  == \E c \in Charges, row \in RowType : Write(c, row)

LEMMA WritesTyped ==
    ASSUME TypeOK, Writes
    PROVE  charge' \in [Charges -> RowType] /\ idle' \in [Charges -> BOOLEAN]
  BY DEF TypeOK, RowType, Writes, Write

LEMMA SetStatusWrites ==
    ASSUME TypeOK, NEW c \in Charges, NEW s \in ChargeStatuses
    PROVE  (SetStatus(c, s) => Writes) /\ (Close(c, s) => Writes)
<1>1. charge[c] \in RowType
  BY DEF TypeOK, RowType
<1> DEFINE set    == [charge[c] EXCEPT !.status = s]
           closed == [charge[c] EXCEPT !.status = s, !.data = FALSE]
<1>2. set \in RowType /\ closed \in RowType
  BY <1>1 DEF RowType
<1>3. (SetStatus(c, s) => Write(c, set)) /\ (Close(c, s) => Write(c, closed))
  BY DEF SetStatus, Close
<1> HIDE DEF set, closed
<1> QED
  BY <1>2, <1>3 DEF Writes, Write

LEMMA StatusesAre ==
    {"none", "pending_payment", "paid", "fulfilling", "fulfilled", "failed", "refunded", "expired"} = ChargeStatuses
  BY DEF ChargeStatuses

LEMMA HandlerWrites ==
    ASSUME ActiveInv, NEW p \in Procs, Step(p)
    PROVE  Writes \/ (UNCHANGED charge /\ UNCHANGED idle)
<1>1. proc[p].pc \in ChargePcs => proc[p] \in ProcType /\ proc[p].on \in Charges /\ charge[proc[p].on] \in RowType
  BY OnCharge DEF RowType
<1>2. Requeue(p) \/ GiveUp(p) \/ Mark(p) => Writes
  BY <1>1, PcsAre, StatusesAre, SetStatusWrites DEF Requeue, GiveUp, Mark, ActiveInv
<1>3. Claim(p) \/ Reset(p) => Writes \/ (UNCHANGED charge /\ UNCHANGED idle)
  BY <1>1, PcsAre, StatusesAre, SetStatusWrites DEF Claim, Reset, ActiveInv
<1>4. ASSUME NoteStuck(p) PROVE Writes
  <2> DEFINE c == proc[p].on
             row == charge[c]
  <2>1. Write(c, row) /\ c \in Charges /\ row \in RowType
    BY <1>1, <1>4, PcsAre DEF NoteStuck
  <2> HIDE DEF c, row
  <2> QED
    BY <2>1 DEF Writes, Write
<1>5. ASSUME RecordRefund(p) PROVE Writes
  <2>1. proc[p].pc \in ChargePcs
    BY <1>5, PcsAre DEF RecordRefund
  <2>2. proc[p].ok \in BOOLEAN
    BY <1>1, <2>1 DEF ProcType
  <2> DEFINE c == proc[p].on
             s == IF proc[p].ok THEN "refunded" ELSE "failed"
             row == [charge[c] EXCEPT !.status = s, !.refund = proc[p].ok, !.data = FALSE]
  <2>3. Write(c, row)
    BY <1>5 DEF RecordRefund
  <2>4. s \in ChargeStatuses /\ c \in Charges /\ charge[c] \in RowType
    BY <1>1, <2>1, StatusesAre
  <2> HIDE DEF s, c
  <2>5. row \in RowType
    BY <2>2, <2>4 DEF RowType
  <2> HIDE DEF row
  <2> QED
    BY <2>3, <2>4, <2>5 DEF Writes, Write
<1>6. ASSUME ~(Requeue(p) \/ GiveUp(p) \/ Mark(p) \/ Claim(p) \/ Reset(p) \/ NoteStuck(p) \/ RecordRefund(p))
      PROVE  UNCHANGED charge /\ UNCHANGED idle
  BY <1>6 DEF Step, Prepare, OrderAccepted, OrderUnreachable, OrderRefused, Ask, Deliver, Dns, Refund, Release,
              AskStuck, TransferArrived, TransferDied, FindTransfer
<1> QED
  BY <1>2, <1>3, <1>4, <1>5, <1>6

LEMMA ChargesAfter ==
    ASSUME ActiveInv, [Next]_vars
    PROVE  charge' \in [Charges -> RowType] /\ idle' \in [Charges -> BOOLEAN]
<1>0. TypeOK
  BY DEF ActiveInv
<1>1. ASSUME UNCHANGED charge /\ UNCHANGED idle
      PROVE  charge' \in [Charges -> RowType] /\ idle' \in [Charges -> BOOLEAN]
  BY <1>0, <1>1 DEF TypeOK, RowType
<1>2. ASSUME NEW c \in Charges, CheckoutStep(c) PROVE Writes \/ (UNCHANGED charge /\ UNCHANGED idle)
  <2>1. CheckoutOpens(c) => Writes \/ (UNCHANGED charge /\ UNCHANGED idle)
    BY <1>0, StatusesAre, SetStatusWrites DEF CheckoutOpens
  <2>2. CheckoutCharges(c) => Writes
    BY StatusesAre DEF CheckoutCharges, Writes, RowType
  <2> QED
    BY <1>2, <2>1, <2>2 DEF CheckoutStep, CheckoutLooks, CheckoutCreates, CheckoutHolds
<1>3. ASSUME NEW c \in Charges, NEW p, \/ CheckoutExpired(c) \/ SessionEnds(c) \/ DayPasses(c)
                                        \/ RecordPayment(p, c) \/ AdminRefunds(p, c) \/ AdminRetries(p, c)
      PROVE  Writes \/ (UNCHANGED charge /\ UNCHANGED idle)
  BY <1>0, <1>3, StatusesAre, SetStatusWrites DEF CheckoutExpired, SessionEnds, DayPasses, RecordPayment, AdminRefunds,
              AdminRetries
<1>4. ASSUME NEW c \in Charges, HalfHourPasses(c)
      PROVE  charge' \in [Charges -> RowType] /\ idle' \in [Charges -> BOOLEAN]
  BY <1>0, <1>4 DEF HalfHourPasses, TypeOK, RowType
<1>5. ASSUME BeginPass PROVE charge' \in [Charges -> RowType] /\ idle' \in [Charges -> BOOLEAN]
  <2>1. PICK old : /\ charge' = [c \in Charges |-> IF c \in old
                                      THEN [charge[c] EXCEPT !.status = "expired", !.data = FALSE] ELSE charge[c]]
                  /\ idle' = [c \in Charges |-> idle[c] /\ c \notin old]
    BY <1>5 DEF BeginPass
  <2>2. idle' \in [Charges -> BOOLEAN]
    BY <2>1
  <2>3. ASSUME NEW c \in Charges
        PROVE  charge[c] \in RowType /\ [charge[c] EXCEPT !.status = "expired", !.data = FALSE] \in RowType
    <3>1. charge[c] \in RowType
      BY <1>0 DEF TypeOK, RowType
    <3> QED
      BY <3>1, StatusesAre DEF RowType
  <2> HIDE DEF RowType
  <2>4. charge' \in [Charges -> RowType]
    BY <2>1, <2>3
  <2> QED
    BY <2>2, <2>4
<1>6. ASSUME PassStep, ~BeginPass PROVE UNCHANGED charge /\ UNCHANGED idle
  BY <1>6 DEF PassStep, ListStuck, ListTransfers, EndPass, ReconcilePaid, ReconcileStuck, ReconcileTransfer
<1>7. ASSUME NEW p, OrderAnswerLost(p) \/ RefundAnswerLost(p) \/ DatabaseFails(p) \/ Crash(p)
      PROVE  UNCHANGED charge /\ UNCHANGED idle
  BY <1>7 DEF OrderAnswerLost, RefundAnswerLost, DatabaseFails, Crash
<1>8. ASSUME NEW d, TransferEnds(d) PROVE UNCHANGED charge /\ UNCHANGED idle
  BY <1>8 DEF TransferEnds
<1>9. CASE UNCHANGED vars
  BY <1>1, <1>9 DEF vars
<1>10. CASE Next
  BY <1>0, <1>1, <1>2, <1>3, <1>4, <1>5, <1>6, <1>7, <1>8, <1>10, HandlerWrites, WritesTyped DEF Next
<1> QED
  BY <1>9, <1>10

\* The checkout and what Stripe says about it.
CheckoutTyped ==
    /\ buy \in [Charges -> {"new", "create", "hold", "charge", "session", "done"}]
    /\ checkout \in [Charges -> {"none", "open", "paid", "expired"}]
    /\ day \in [Charges -> BOOLEAN] /\ refunded \in [Charges -> BOOLEAN]

LEMMA CheckoutAfter ==
    ASSUME TypeOK, [Next]_vars
    PROVE  CheckoutTyped'
<1>0. CheckoutTyped
  BY DEF TypeOK, CheckoutTyped
<1>1. ASSUME UNCHANGED <<buy, checkout, day, refunded>> PROVE CheckoutTyped'
  BY <1>0, <1>1 DEF CheckoutTyped
<1>2. ASSUME NEW c \in Charges, CheckoutStep(c) PROVE CheckoutTyped'
  BY <1>0, <1>2 DEF CheckoutTyped, CheckoutStep, CheckoutLooks, CheckoutCreates, CheckoutHolds, CheckoutCharges,
                    CheckoutOpens
<1>3. ASSUME NEW c \in Charges, NEW p, RecordPayment(p, c) \/ SessionEnds(c) \/ DayPasses(c) PROVE CheckoutTyped'
  BY <1>0, <1>3 DEF CheckoutTyped, RecordPayment, SessionEnds, DayPasses
<1>4. ASSUME NEW p \in Procs, Step(p) \/ RefundAnswerLost(p) PROVE CheckoutTyped'
  <2>1. CASE Refund(p) \/ RefundAnswerLost(p)
    BY <1>0, <2>1 DEF CheckoutTyped, Refund, RefundAnswerLost
  <2>2. CASE ~(Refund(p) \/ RefundAnswerLost(p))
    <3>1. UNCHANGED <<buy, checkout, day, refunded>>
      BY <1>4, <2>2 DEF Step, Claim, Prepare, OrderAccepted, OrderUnreachable, OrderRefused, Ask, Deliver, Mark, Dns,
            Requeue, RecordRefund, Release, GiveUp, AskStuck, NoteStuck, TransferArrived, TransferDied, FindTransfer,
            Reset
    <3> QED
      BY <1>1, <3>1
  <2> QED
    BY <2>1, <2>2
<1>5. ASSUME NEW p, NEW c, \/ OrderAnswerLost(p) \/ DatabaseFails(p) \/ Crash(p) \/ AdminRefunds(p, c)
                           \/ AdminRetries(p, c) \/ CheckoutExpired(c) \/ HalfHourPasses(c) \/ TransferEnds(c)
      PROVE  UNCHANGED <<buy, checkout, day, refunded>>
  BY <1>5 DEF OrderAnswerLost, DatabaseFails, Crash, AdminRefunds, AdminRetries, CheckoutExpired, HalfHourPasses,
              TransferEnds
<1>6. ASSUME PassStep PROVE UNCHANGED <<buy, checkout, day, refunded>>
  BY <1>6 DEF PassStep, BeginPass, ListStuck, ListTransfers, EndPass, ReconcilePaid, ReconcileStuck, ReconcileTransfer
<1>7. CASE UNCHANGED vars
  BY <1>1, <1>7 DEF vars
<1>8. CASE Next
  BY <1>1, <1>2, <1>3, <1>4, <1>5, <1>6, <1>8 DEF Next
<1> QED
  BY <1>7, <1>8

\* The pass, the registrar and the faults.
OutsideTyped ==
    /\ pass \in [phase : {"rest", "paid", "stuck", "transfers"}, todo : SUBSET (Charges \cup Domains),
                 late : SUBSET Charges]
    /\ placed \in [Charges -> Nat] /\ owned \in [Domains -> BOOLEAN]
    /\ transfer \in [Domains -> {"none", "moving", "dead"}]
    /\ faults \subseteq FaultKinds

LEMMA PlaceTyped ==
    ASSUME ActiveInv, NEW p \in Procs, proc[p].pc = "order", Place(p), UNCHANGED pass, faults' \subseteq FaultKinds
    PROVE  OutsideTyped'
<1>1. "order" \in ChargePcs
  BY PcsAre
<1>2. proc[p].on \in Charges /\ Dom(p) \in Domains
  BY <1>1, OnCharge
<1> QED
  BY <1>2 DEF ActiveInv, TypeOK, Place, OutsideTyped

LEMMA BatchOf == ASSUME NEW all, NEW some \in Batches(all) PROVE some \subseteq all
  BY DEF Batches

LEMMA OutsideAfter ==
    ASSUME ActiveInv, [Next]_vars
    PROVE  OutsideTyped'
<1>0. OutsideTyped /\ TypeOK
  BY DEF ActiveInv, TypeOK, OutsideTyped
<1>1. ASSUME UNCHANGED <<pass, placed, owned, transfer, faults>> PROVE OutsideTyped'
  BY <1>0, <1>1 DEF OutsideTyped
<1>2. ASSUME NEW p \in Procs, Step(p) PROVE OutsideTyped'
  <2>1. CASE OrderAccepted(p)
    BY <1>0, <2>1, PlaceTyped DEF OrderAccepted, OutsideTyped
  <2>2. CASE Ask(p) \/ AskStuck(p)
    BY <1>0, <2>2 DEF Ask, AskStuck, Fault, OutsideTyped, outside
  <2>3. CASE ~(OrderAccepted(p) \/ Ask(p) \/ AskStuck(p))
    <3>1. UNCHANGED <<pass, placed, owned, transfer, faults>>
      BY <1>2, <2>3 DEF Step, Claim, Prepare, OrderUnreachable, OrderRefused, Deliver, Mark, Dns, Requeue, Refund,
            RecordRefund, Release, GiveUp, NoteStuck, TransferArrived, TransferDied, FindTransfer, Reset, outside
    <3> QED
      BY <1>1, <3>1
  <2> QED
    BY <2>1, <2>2, <2>3
<1>3. ASSUME NEW p \in Procs, OrderAnswerLost(p) \/ RefundAnswerLost(p) \/ DatabaseFails(p) \/ Crash(p)
      PROVE  OutsideTyped'
  <2>1. faults' \subseteq FaultKinds
    BY <1>0, <1>3 DEF OrderAnswerLost, RefundAnswerLost, DatabaseFails, Crash, Fault, OutsideTyped
  <2>2. CASE OrderAnswerLost(p)
    BY <2>1, <2>2, PlaceTyped DEF OrderAnswerLost
  <2>3. CASE RefundAnswerLost(p) \/ DatabaseFails(p) \/ Crash(p)
    <3>1. pass' = pass \/ pass' = NoPass
      BY <2>3 DEF RefundAnswerLost, DatabaseFails, Crash
    <3>2. UNCHANGED <<placed, owned, transfer>>
      BY <2>3 DEF RefundAnswerLost, DatabaseFails, Crash, outside
    <3> QED
      BY <1>0, <2>1, <3>1, <3>2 DEF OutsideTyped, NoPass
  <2> QED
    BY <1>3, <2>2, <2>3
<1>4. ASSUME PassStep PROVE OutsideTyped'
  <2>1. UNCHANGED <<placed, owned, transfer, faults>>
    BY <1>4 DEF PassStep, BeginPass, ListStuck, ListTransfers, EndPass, ReconcilePaid, ReconcileStuck,
                ReconcileTransfer, outside
  <2>2. pass' \in [phase : {"rest", "paid", "stuck", "transfers"}, todo : SUBSET (Charges \cup Domains),
                   late : SUBSET Charges]
    <3>1. ASSUME NEW phase \in {"rest", "paid", "stuck", "transfers"}, NEW todo \in SUBSET (Charges \cup Domains),
                 NEW late \in SUBSET Charges, List(phase, todo, late)
          PROVE  pass' \in [phase : {"rest", "paid", "stuck", "transfers"}, todo : SUBSET (Charges \cup Domains),
                            late : SUBSET Charges]
      BY <3>1 DEF List
    <3>2. CASE BeginPass
      <4>1. PICK some \in Batches(With("paid")) : List("paid", some, {c \in some : day[c]})
        BY <3>2 DEF BeginPass
      <4> DEFINE late == {c \in some : day[c]}
      <4>2. some \in SUBSET (Charges \cup Domains) /\ late \in SUBSET Charges
        BY BatchOf DEF With
      <4>3. List("paid", some, late)
        BY <4>1
      <4> HIDE DEF late
      <4> QED
        BY <3>1, <4>2, <4>3
    <3>3. CASE ListStuck
      <4>1. PICK some \in Batches({c \in With("fulfilling") : idle[c]}) : List("stuck", some, {})
        BY <3>3 DEF ListStuck
      <4>2. some \in SUBSET (Charges \cup Domains)
        BY BatchOf DEF With
      <4> QED
        BY <3>1, <4>1, <4>2
    <3>4. CASE ListTransfers
      <4>1. PICK some \in Batches({d \in Domains : domain[d] = "transfer_pending"}) : List("transfers", some, {})
        BY <3>4 DEF ListTransfers
      <4>2. some \in SUBSET (Charges \cup Domains)
        BY BatchOf
      <4> QED
        BY <3>1, <4>1, <4>2
    <3>5. CASE EndPass
      BY <3>5 DEF EndPass, NoPass
    <3>6. ASSUME NEW x, Take(x)
          PROVE  pass' \in [phase : {"rest", "paid", "stuck", "transfers"}, todo : SUBSET (Charges \cup Domains),
                            late : SUBSET Charges]
      <4> DEFINE left == pass.todo \ {x}
      <4>1. pass' = [pass EXCEPT !.todo = left]
        BY <3>6 DEF Take
      <4>2. left \in SUBSET (Charges \cup Domains)
        BY <1>0 DEF OutsideTyped
      <4> HIDE DEF left
      <4> QED
        BY <1>0, <4>1, <4>2 DEF OutsideTyped
    <3> QED
      BY <1>4, <3>2, <3>3, <3>4, <3>5, <3>6 DEF PassStep, ReconcilePaid, ReconcileStuck, ReconcileTransfer
  <2> QED
    BY <1>0, <2>1, <2>2 DEF OutsideTyped
<1>5. ASSUME NEW c \in Charges, NEW p, \/ CheckoutStep(c) \/ CheckoutExpired(c) \/ SessionEnds(c)
                                        \/ HalfHourPasses(c) \/ DayPasses(c)
                                        \/ RecordPayment(p, c) \/ AdminRefunds(p, c) \/ AdminRetries(p, c)
      PROVE  UNCHANGED <<pass, placed, owned, transfer, faults>>
  BY <1>5 DEF CheckoutStep, CheckoutLooks, CheckoutCreates, CheckoutHolds, CheckoutCharges, CheckoutOpens,
              CheckoutExpired, SessionEnds, HalfHourPasses, DayPasses, RecordPayment, AdminRefunds, AdminRetries, outside
<1>6. ASSUME NEW d \in Domains, TransferEnds(d) PROVE OutsideTyped'
  BY <1>0, <1>6 DEF TransferEnds, OutsideTyped
<1>7. CASE UNCHANGED vars
  BY <1>1, <1>7 DEF vars, outside
<1>8. CASE Next
  BY <1>1, <1>2, <1>3, <1>4, <1>5, <1>6, <1>8 DEF Next
<1> QED
  BY <1>7, <1>8

-----------------------------------------------------------------------------
(* Theorems *)

LEMMA ActiveInit == Init => ActiveInv
<1> SUFFICES ASSUME Init PROVE ActiveInv
  OBVIOUS
<1>1. Rest \in ProcType /\ Rest.pc = "rest"
  BY RestTyped
<1>2. \A p \in Procs : Sound(proc[p], owned)
  BY <1>1, PcsAre DEF Init, Sound
<1>3. proc \in [Procs -> ProcType]
  BY <1>1 DEF Init
<1>4. domain \in [Domains -> DomainStatuses] /\ ActiveIsOurs
  BY DEF Init, DomainStatuses, ActiveIsOurs
<1>5. TypeOK
  BY <1>3, <1>4 DEF Init, TypeOK, ProcType, ChargeStatuses, NoPass
<1> QED
  BY <1>2, <1>4, <1>5 DEF ActiveInv

LEMMA ActiveStep == ActiveInv /\ [Next]_vars => ActiveInv'
<1> SUFFICES ASSUME ActiveInv, [Next]_vars PROVE ActiveInv'
  OBVIOUS
<1>1. proc' \in [Procs -> ProcType] /\ \A p \in Procs : Sound(proc'[p], owned')
  BY SoundAfter
<1>2. domain' \in [Domains -> DomainStatuses] /\ ActiveIsOurs'
  BY ShownAfter
<1>3. charge' \in [Charges -> RowType] /\ idle' \in [Charges -> BOOLEAN]
  BY ChargesAfter
<1>4. CheckoutTyped'
  BY CheckoutAfter DEF ActiveInv
<1>5. OutsideTyped'
  BY OutsideAfter
<1>6. TypeOK'
  BY <1>1, <1>2, <1>3, <1>4, <1>5 DEF TypeOK, ProcType, RowType, CheckoutTyped, OutsideTyped
<1> QED
  BY <1>1, <1>2, <1>6 DEF ActiveInv

LEMMA ActiveAlways == Spec => []ActiveInv
  BY ActiveInit, ActiveStep, PTL DEF Spec

\* Types of every variable, for any charges, handlers, faults and orders.
THEOREM TypeCorrect == Spec => []TypeOK
<1>1. ActiveInv => TypeOK
  BY DEF ActiveInv
<1> QED
  BY <1>1, ActiveAlways, PTL

\* A domain Jongo shows as active is in our account at the registrar, whatever
\* webhooks, admins and the reconcile pass do beside each other.
THEOREM ActiveHolds == Spec => []ActiveIsOurs
<1>1. ActiveInv => ActiveIsOurs
  BY DEF ActiveInv
<1> QED
  BY <1>1, ActiveAlways, PTL

-----------------------------------------------------------------------------
(* One handler at a time. Admins are left out: an admin's retry may run beside *)
(* an order of the same charge, and then two handlers do order together.       *)

NoAdmins == Admins = {}

On(p, c) == proc[p].pc \in ChargePcs /\ proc[p].on = c

Unpaid == PayableFrom \cup {"none"}

\* The statuses a charge may have while a handler on it is in some state.
StatusIn(pc) ==
    IF pc \in Ordering \cup {"stuck", "note"} THEN {"fulfilling"}
    ELSE IF pc = "giveUp" THEN {"paid"}
    ELSE IF pc = "dns" THEN {"fulfilled"}
    ELSE IF pc \in {"refund", "record"} THEN {"fulfilling", "fulfilled"}
    ELSE IF pc = "release" THEN {"refunded", "failed"}
    ELSE ChargeStatuses

\* A checkout under way has written no more than pending_payment, and cannot be paid yet.
Buying(c) ==
    /\ buy[c] \in {"new", "create", "hold", "charge"} => charge[c].status = "none"
    /\ buy[c] = "session" => charge[c].status \in PayableFrom
    /\ buy[c] # "done" => checkout[c] = "none"

\* On a list of the pass that it works off, and: left alone for so long, or listed as such.
Listed(c)    == pass.phase \in {"paid", "stuck"} /\ c \in pass.todo
LeftAlone(c) == day[c] \/ idle[c] \/ c \in pass.late \/ (pass.phase = "stuck" /\ c \in pass.todo)

\* Nothing happens to a charge before it is paid.
Untouched(c) ==
    charge[c].status \in Unpaid =>
        /\ ~Listed(c) /\ ~LeftAlone(c) /\ \A p \in Procs : ~On(p, c)
        /\ ~refunded[c] /\ placed[c] = 0

\* One webhook records the payment, and none comes back to a charge that was left alone.
Alone(c) == \A w \in Webhooks : On(w, c) => ~LeftAlone(c) /\ \A v \in Webhooks : On(v, c) => v = w

\* What the pass lists to give up or to look up is as it was listed until its turn comes.
Lists(c) ==
    /\ Listed(c) => ~On(Reconciler, c)
    /\ pass.phase = "stuck" /\ c \in pass.todo => charge[c].status = "fulfilling"
    /\ pass.phase = "paid" /\ c \in pass.todo /\ c \in pass.late => charge[c].status = "paid"

\* Of two handlers on a charge, one has still to claim it.
OneHolds(c) ==
    \A p, q \in Procs : p # q /\ On(p, c) /\ On(q, c) => (proc[p].pc = "claim" \/ proc[q].pc = "claim")

\* Handler and charge agree.
Fits(p, c) ==
    /\ charge[c].status \in StatusIn(proc[p].pc) /\ proc[p].pc # "reset"
    /\ proc[p].pc = "dns" => Operation[c] = "register"
    /\ proc[p].pc = "note" => Operation[c] # "register"
    /\ proc[p].pc \in {"giveUp", "stuck", "note"} => p = Reconciler /\ \A w \in Webhooks : ~On(w, c)
    /\ p \in Webhooks /\ proc[p].pc \in {"refund", "record"} /\ Operation[c] = "transfer"
          => charge[c].status = "fulfilling"

AllFit(c) == \A p \in Procs : On(p, c) => Fits(p, c)

\* The money is back when a handler knows or the charge says so, and without a crash only then, or when the
\* answer of the refund was lost.
Agrees(back, status, recording, known, some) ==
    /\ status = "refunded" \/ known => back
    /\ "crash" \notin some /\ back =>
         \/ status = "refunded" \/ known
         \/ "lostRefund" \in some /\ (status = "failed" \/ recording)

Money(c) ==
    /\ charge[c].refund <=> charge[c].status = "refunded"
    /\ Agrees(refunded[c], charge[c].status, \E p \in Procs : On(p, c) /\ proc[p].pc = "record",
              \E p \in Procs : On(p, c) /\ proc[p].pc = "record" /\ proc[p].ok, faults)

OnlyAnswers == {"lostAnswer", "lostRefund"}

\* As long as nothing but answers are lost, a registration that was placed is completed.
Kept(c) ==
    faults \subseteq OnlyAnswers /\ Operation[c] = "register" /\ placed[c] > 0 =>
        /\ owned[DomainOf[c]] /\ ~refunded[c] /\ charge[c].status \in {"fulfilling", "fulfilled"}
        /\ \A p \in Procs : On(p, c) => proc[p].pc \in {"claim", "ask", "deliver", "mark", "dns", "stuck"}

Serial(c) ==
    Buying(c) /\ Untouched(c) /\ Alone(c) /\ Lists(c) /\ OneHolds(c) /\ AllFit(c) /\ Money(c) /\ Kept(c)

\* The pass alone works on domains, in its last phase.
Roles == \A p \in Procs : proc[p].pc \in {"arrived", "died", "find"} => p = Reconciler /\ pass.phase = "transfers"

SerialInv == ActiveInv /\ Roles /\ \A c \in Charges : Serial(c)

\* What a handler past its claim may rely on.
LEMMA Holds ==
    ASSUME NoAdmins, NEW c \in Charges, Serial(c), NEW p \in Procs, On(p, c),
           proc[p].pc # "claim" \/ charge[c].status = "paid"
    PROVE  /\ \A q \in Procs \ {p} : On(q, c) => proc[q].pc = "claim"
           /\ ~(pass.phase = "stuck" /\ c \in pass.todo)
           /\ ~(pass.phase = "paid" /\ c \in pass.todo /\ c \in pass.late)
           /\ charge[c].status \notin Unpaid /\ Fits(p, c)
           /\ Agrees(refunded[c], charge[c].status, proc[p].pc = "record", proc[p].pc = "record" /\ proc[p].ok, faults)
<1>1. p \in Webhooks \/ p = Reconciler
  BY DEF NoAdmins, Procs
<1>2. ASSUME NEW q \in Procs \ {p}, On(q, c) PROVE proc[q].pc = "claim"
  <2>1. CASE proc[p].pc # "claim"
    BY <1>2, <2>1 DEF Serial, OneHolds
  <2>2. CASE charge[c].status = "paid" /\ proc[q].pc # "claim"
    <3>1. Fits(q, c) /\ q \in Procs /\ proc[q].pc \in ChargePcs
      BY <1>2 DEF Serial, AllFit, On
    <3>2. proc[q].pc = "giveUp"
      BY <2>2, <3>1, PcsAre DEF Fits, StatusIn, Ordering
    <3> QED
      BY <1>1, <1>2, <3>1, <3>2 DEF Fits
  <2> QED
    BY <2>1, <2>2
<1>3. Fits(p, c)
  BY DEF Serial, AllFit
<1>4. ~(pass.phase = "stuck" /\ c \in pass.todo) /\ ~(pass.phase = "paid" /\ c \in pass.todo /\ c \in pass.late)
  BY <1>1 DEF Serial, Alone, Lists, Listed, LeftAlone
<1>5. charge[c].status \notin Unpaid
  BY DEF Serial, Untouched
<1>6. Agrees(refunded[c], charge[c].status, proc[p].pc = "record", proc[p].pc = "record" /\ proc[p].ok, faults)
  BY <1>2 DEF Serial, Money, Agrees
<1> QED
  BY <1>2, <1>3, <1>4, <1>5, <1>6

-----------------------------------------------------------------------------
(* Charges a step is not about *)

\* A charge's row is as before, perhaps freshly saved.
SameRow(c) ==
    /\ buy'[c] = "done" \/ (buy'[c] = buy[c] /\ checkout'[c] = checkout[c])
    /\ charge'[c] = charge[c]
    /\ (idle'[c] => idle[c]) /\ day'[c] = day[c] /\ refunded'[c] = refunded[c] /\ placed'[c] = placed[c]
    /\ (owned[DomainOf[c]] => owned'[DomainOf[c]]) /\ faults \subseteq faults'

\* No handler comes to it, and none leaves with a refund it has not recorded, unless it crashed.
SameHandlers(c) ==
    /\ \A p \in Procs : proc'[p].pc \in ChargePcs /\ proc'[p].on = c => proc'[p] = proc[p]
    /\ \A p \in Procs : On(p, c) /\ proc[p].pc = "record" => ("crash" \in faults' \/ proc'[p] = proc[p])

\* The pass has it on its lists as before, or is over.
SamePass(c) ==
    \/ pass'.phase = pass.phase /\ (c \in pass'.todo => c \in pass.todo) /\ pass'.late = pass.late
    \/ pass' = NoPass

LEMMA Elsewhere ==
    ASSUME NEW c \in Charges, Serial(c), SameRow(c), SameHandlers(c), SamePass(c)
    PROVE  Serial(c)'
<1>1. \A p \in Procs : On(p, c)' => On(p, c) /\ proc'[p] = proc[p]
  BY DEF SameHandlers, On
<1>2. (Listed(c)' => Listed(c)) /\ (LeftAlone(c)' => LeftAlone(c))
  BY DEF Listed, LeftAlone, SamePass, SameRow, NoPass
<1>3. \A w \in Webhooks : w \in Procs
  BY ReconcilerIs
<1>4. Buying(c)'
  BY DEF Serial, Buying, SameRow
<1>5. Untouched(c)'
  BY <1>1, <1>2 DEF Serial, Untouched, SameRow
<1>6. Alone(c)'
  BY <1>1, <1>2, <1>3 DEF Serial, Alone
<1>7. Lists(c)'
  <2>1. Reconciler \in Procs
    BY ReconcilerIs
  <2> QED
    BY <1>1, <1>2, <2>1 DEF Serial, Lists, SamePass, SameRow, NoPass
<1>8. OneHolds(c)'
  BY <1>1 DEF Serial, OneHolds
<1>9. AllFit(c)'
  BY <1>1, <1>3 DEF Serial, AllFit, Fits, SameRow
<1>10. Money(c)'
  BY <1>1 DEF Serial, Money, Agrees, SameRow, SameHandlers, On
<1>11. Kept(c)'
  BY <1>1 DEF Serial, Kept, SameRow
<1> QED
  BY <1>4, <1>5, <1>6, <1>7, <1>8, <1>9, <1>10, <1>11 DEF Serial

-----------------------------------------------------------------------------
(* The charge a handler works on *)

\* A handler past its claim goes on to x, or is done with its request; the charge fits, the money is
\* accounted for and a placed registration is kept.
Turns(p, c, x) ==
    /\ Go(p, x) /\ UNCHANGED buy /\ UNCHANGED checkout /\ UNCHANGED day /\ UNCHANGED pass
    /\ charge'[c].status \in ChargeStatuses \ Unpaid /\ (idle'[c] => idle[c]) /\ faults \subseteq faults'
    /\ \/ x.pc \in {"rest", "over"}
       \/ /\ x.on = c /\ x.pc \in ChargePcs \ {"claim", "giveUp", "stuck", "reset"}
          /\ charge'[c].status \in StatusIn(x.pc)
          /\ x.pc = "dns" => Operation[c] = "register"
          /\ x.pc = "note" => proc[p].pc = "stuck" /\ Operation[c] # "register"
          /\ p \in Webhooks /\ x.pc \in {"refund", "record"} /\ Operation[c] = "transfer"
                => charge'[c].status = "fulfilling"
    /\ charge'[c].refund <=> charge'[c].status = "refunded"
    /\ Agrees(refunded'[c], charge'[c].status, x.pc = "record", x.pc = "record" /\ x.ok, faults')
    /\ faults' \subseteq OnlyAnswers /\ Operation[c] = "register" /\ placed'[c] > 0 =>
          /\ owned'[DomainOf[c]] /\ ~refunded'[c] /\ charge'[c].status \in {"fulfilling", "fulfilled"}
          /\ x.pc \in ChargePcs => x.pc \in {"ask", "deliver", "mark", "dns"}

LEMMA TurnSerial ==
    ASSUME NoAdmins, TypeOK, NEW c \in Charges, Serial(c), NEW p \in Procs, On(p, c),
           proc[p].pc # "claim" \/ charge[c].status = "paid",
           NEW x \in ProcType, Turns(p, c, x)
    PROVE  Serial(c)'
<1>1. proc'[p] = x /\ \A q \in Procs \ {p} : proc'[q] = proc[q]
  BY GoFields DEF Turns
<1>2. /\ \A q \in Procs \ {p} : On(q, c) => proc[q].pc = "claim"
      /\ ~(pass.phase = "stuck" /\ c \in pass.todo)
      /\ ~(pass.phase = "paid" /\ c \in pass.todo /\ c \in pass.late)
      /\ charge[c].status \notin Unpaid /\ Fits(p, c)
  BY Holds
<1>3. \A q \in Procs \ {p} : On(q, c)' <=> On(q, c)
  BY <1>1 DEF On
<1>4. On(p, c)' <=> x.pc \in ChargePcs /\ x.on = c
  BY <1>1 DEF On
<1>5. \A q \in Procs : On(q, c)' => On(q, c)
  BY <1>3
<1>6. (Listed(c)' <=> Listed(c)) /\ (LeftAlone(c)' => LeftAlone(c))
  BY DEF Listed, LeftAlone, Turns
<1>7. Webhooks \subseteq Procs /\ Reconciler \in Procs
  BY ReconcilerIs
<1>8. Buying(c)'
  <2>1. buy'[c] = buy[c] /\ checkout'[c] = checkout[c]
    BY DEF Turns
  <2>2. buy[c] = "done"
    BY <1>2 DEF Serial, Buying, Unpaid, TypeOK
  <2> QED
    BY <2>1, <2>2 DEF Buying
<1>9. Untouched(c)'
  BY DEF Turns, Untouched
<1>10. Alone(c)'
  BY <1>5, <1>6, <1>7 DEF Serial, Alone
<1>11. Lists(c)'
  BY <1>2, <1>5, <1>6, <1>7 DEF Serial, Lists, Turns
<1>12. OneHolds(c)'
  BY <1>1, <1>2, <1>3, <1>5 DEF OneHolds
<1>13. AllFit(c)'
  <2>1. ASSUME NEW q \in Procs \ {p}, On(q, c)' PROVE Fits(q, c)'
    <3>1. proc'[q] = proc[q] /\ proc[q].pc = "claim"
      BY <1>1, <1>2, <1>3, <2>1
    <3>2. charge'[c].status \in ChargeStatuses
      BY DEF Turns
    <3> QED
      BY <3>1, <3>2 DEF Fits, StatusIn, Ordering
  <2>2. ASSUME On(p, c)' PROVE Fits(p, c)'
    <3>1. /\ x.pc \in ChargePcs \ {"claim", "giveUp", "stuck", "reset"}
          /\ charge'[c].status \in StatusIn(x.pc)
          /\ x.pc = "dns" => Operation[c] = "register"
          /\ x.pc = "note" => proc[p].pc = "stuck" /\ Operation[c] # "register"
          /\ p \in Webhooks /\ x.pc \in {"refund", "record"} /\ Operation[c] = "transfer"
                => charge'[c].status = "fulfilling"
      BY <1>4, <2>2, PcsAre DEF Turns
    <3>2. x.pc = "note" => p = Reconciler /\ \A w \in Webhooks : ~On(w, c)'
      BY <1>2, <1>5, <1>7, <3>1 DEF Fits
    <3> QED
      BY <1>1, <3>1, <3>2 DEF Fits
  <2> QED
    BY <2>1, <2>2 DEF AllFit
<1>14. Money(c)'
  <2>1. ASSUME NEW q \in Procs \ {p}, On(q, c)' PROVE proc'[q].pc = "claim"
    BY <1>1, <1>2, <1>3, <2>1
  <2>2. x.pc = "record" => On(p, c)'
    BY <1>4, PcsAre DEF Turns
  <2>3. /\ (\E q \in Procs : On(q, c)' /\ proc'[q].pc = "record") <=> x.pc = "record"
        /\ (\E q \in Procs : On(q, c)' /\ proc'[q].pc = "record" /\ proc'[q].ok) <=> x.pc = "record" /\ x.ok
    BY <1>1, <2>1, <2>2
  <2> QED
    BY <2>3 DEF Money, Turns, Agrees
<1>15. Kept(c)'
  <2>1. ASSUME NEW q \in Procs \ {p}, On(q, c)' PROVE proc'[q].pc = "claim"
    BY <1>1, <1>2, <1>3, <2>1
  <2>2. On(p, c)' => x.pc \in ChargePcs /\ proc'[p].pc = x.pc
    BY <1>1, <1>4
  <2> QED
    BY <2>1, <2>2 DEF Kept, Turns
<1> QED
  BY <1>8, <1>9, <1>10, <1>11, <1>12, <1>13, <1>14, <1>15 DEF Serial

\* What is written on a charge, and what stays.
LEMMA Written ==
    ASSUME TypeOK, NEW c \in Charges, NEW row, Write(c, row)
    PROVE  /\ charge'[c] = row /\ ~idle'[c]
           /\ \A e \in Charges \ {c} : charge'[e] = charge[e] /\ idle'[e] = idle[e]
  BY DEF Write, TypeOK

LEMMA StatusWritten ==
    ASSUME TypeOK, NEW c \in Charges, NEW s, SetStatus(c, s) \/ Close(c, s)
    PROVE  /\ charge'[c].status = s /\ charge'[c].refund = charge[c].refund /\ ~idle'[c]
           /\ \A e \in Charges \ {c} : charge'[e] = charge[e] /\ idle'[e] = idle[e]
<1> DEFINE set    == [charge[c] EXCEPT !.status = s]
           closed == [charge[c] EXCEPT !.status = s, !.data = FALSE]
<1>1. charge[c] \in RowType
  BY DEF TypeOK, RowType
<1>2. set.status = s /\ set.refund = charge[c].refund /\ closed.status = s /\ closed.refund = charge[c].refund
  BY <1>1 DEF RowType
<1>3. Write(c, set) \/ Write(c, closed)
  BY DEF SetStatus, Close
<1> HIDE DEF set, closed
<1>4. CASE Write(c, set)
  BY <1>2, <1>4, Written
<1>5. CASE Write(c, closed)
  BY <1>2, <1>5, Written
<1> QED
  BY <1>3, <1>4, <1>5

OthersStay(c) ==
    \A e \in Charges \ {c} : charge'[e] = charge[e] /\ idle'[e] = idle[e] /\ refunded'[e] = refunded[e]
                             /\ placed'[e] = placed[e]

\* A turn of the handler of a charge leaves the others alone.
Turn(p, c) == OthersStay(c) /\ \E x \in ProcType : Turns(p, c, x)

LEMMA TurnKeeps ==
    ASSUME NoAdmins, SerialInv, NEW p \in Procs, NEW c \in Charges, On(p, c),
           proc[p].pc # "claim" \/ charge[c].status = "paid",
           \A d \in Domains : owned[d] => owned'[d], Turn(p, c)
    PROVE  Roles' /\ \A e \in Charges : Serial(e)'
<1>0. TypeOK /\ DomainOf \in [Charges -> Domains]
  BY DomainAssumption DEF SerialInv, ActiveInv
<1>1. PICK x \in ProcType : Turns(p, c, x)
  BY DEF Turn
<1>2. proc'[p] = x /\ \A q \in Procs \ {p} : proc'[q] = proc[q]
  BY <1>0, <1>1, GoFields DEF Turns
<1>3. Serial(c)'
  BY <1>0, <1>1, TurnSerial DEF SerialInv
<1>4. ASSUME NEW e \in Charges \ {c} PROVE Serial(e)'
  <2>1. SameRow(e)
    BY <1>0, <1>1 DEF Turn, OthersStay, Turns, SameRow
  <2>2. SameHandlers(e)
    BY <1>1, <1>2, PcsAre DEF SameHandlers, On, Turns
  <2>3. SamePass(e)
    BY <1>1 DEF SamePass, Turns
  <2> QED
    BY <2>1, <2>2, <2>3, Elsewhere DEF SerialInv
<1>5. Roles'
  <2>1. x.pc \in ChargePcs \/ x.pc \in {"rest", "over"}
    BY <1>1 DEF Turns
  <2> QED
    BY <1>1, <1>2, <2>1, PcsAre DEF Roles, SerialInv, Turns
<1> QED
  BY <1>3, <1>4, <1>5

\* All that a handler past its claim, or about to win it, has to go by.
Ready(p, c) ==
    /\ TypeOK /\ c \in Charges /\ proc[p].on = c /\ proc[p].pc \in ChargePcs /\ proc[p] \in ProcType
    /\ Dom(p) = DomainOf[c] /\ Dom(p) \in Domains /\ Op(p) = Operation[c]
    /\ charge[c] \in RowType /\ charge[c].status \in ChargeStatuses \ Unpaid /\ Fits(p, c)
    /\ charge[c].refund <=> charge[c].status = "refunded"
    /\ Agrees(refunded[c], charge[c].status, proc[p].pc = "record", proc[p].pc = "record" /\ proc[p].ok, faults)
    /\ faults \subseteq OnlyAnswers /\ Operation[c] = "register" /\ placed[c] > 0 =>
          /\ owned[DomainOf[c]] /\ ~refunded[c] /\ charge[c].status \in {"fulfilling", "fulfilled"}
          /\ proc[p].pc \in {"claim", "ask", "deliver", "mark", "dns", "stuck"}

LEMMA IsReady ==
    ASSUME NoAdmins, SerialInv, NEW p \in Procs, proc[p].pc \in ChargePcs,
           proc[p].pc # "claim" \/ charge[proc[p].on].status = "paid"
    PROVE  Ready(p, proc[p].on)
<1> DEFINE c == proc[p].on
<1>1. /\ c \in Charges /\ proc[p] \in ProcType /\ Dom(p) = DomainOf[c] /\ Dom(p) \in Domains
      /\ Op(p) = Operation[c] /\ charge[c] \in RowType /\ TypeOK
  BY OnCharge DEF SerialInv, ActiveInv, RowType
<1>2. On(p, c) /\ Serial(c)
  BY <1>1 DEF On, SerialInv
<1>3. proc[p].pc # "claim" \/ charge[c].status = "paid"
  OBVIOUS
<1>4. proc[p].on = c
  OBVIOUS
<1> HIDE DEF c
<1>5. /\ charge[c].status \notin Unpaid /\ Fits(p, c)
      /\ Agrees(refunded[c], charge[c].status, proc[p].pc = "record", proc[p].pc = "record" /\ proc[p].ok, faults)
  BY <1>1, <1>2, <1>3, Holds
<1>6. charge[c].status \in ChargeStatuses
  BY <1>1 DEF RowType
<1>7. charge[c].refund <=> charge[c].status = "refunded"
  BY <1>2 DEF Serial, Money
<1>8. faults \subseteq OnlyAnswers /\ Operation[c] = "register" /\ placed[c] > 0 =>
          /\ owned[DomainOf[c]] /\ ~refunded[c] /\ charge[c].status \in {"fulfilling", "fulfilled"}
          /\ proc[p].pc \in {"claim", "ask", "deliver", "mark", "dns", "stuck"}
  BY <1>2 DEF Serial, Kept
<1>9. Ready(p, c)
  BY <1>1, <1>4, <1>5, <1>6, <1>7, <1>8 DEF Ready
<1> QED
  BY <1>4, <1>9

LEMMA ClaimTurns ==
    ASSUME NEW p \in Procs, NEW c, Ready(p, c), Claim(p), charge[c].status = "paid"
    PROVE  Turn(p, c)
<1> DEFINE x == [proc[p] EXCEPT !.pc = "prepare"]
<1>1. /\ SetStatus(c, "fulfilling") /\ Go(p, x) /\ proc[p].pc = "claim"
      /\ UNCHANGED buy /\ UNCHANGED checkout /\ UNCHANGED day /\ UNCHANGED pass /\ UNCHANGED refunded
      /\ UNCHANGED placed /\ UNCHANGED owned /\ UNCHANGED faults
  BY DEF Claim, Goto, Ready, outside
<1>2. "prepare" \in Pcs /\ "prepare" \in ChargePcs \ {"claim", "giveUp", "stuck", "reset"}
  BY PcsAre
<1>3. x \in ProcType /\ x.pc = "prepare" /\ x.on = c
  BY <1>2, OnTyped DEF Ready
<1> HIDE DEF x
<1>4. /\ charge'[c].status = "fulfilling" /\ charge'[c].refund = charge[c].refund /\ ~idle'[c]
      /\ \A e \in Charges \ {c} : charge'[e] = charge[e] /\ idle'[e] = idle[e]
  BY <1>1, StatusWritten DEF Ready
<1>5. "fulfilling" \in ChargeStatuses \ Unpaid /\ "fulfilling" \in StatusIn("prepare")
  BY DEF ChargeStatuses, Unpaid, PayableFrom, StatusIn, Ordering
<1>6. faults \subseteq OnlyAnswers /\ Operation[c] = "register" => ~(placed[c] > 0)
  BY DEF Ready
<1>7. Turns(p, c, x)
  BY <1>1, <1>2, <1>3, <1>4, <1>5, <1>6 DEF Turns, Ready, Agrees
<1> QED
  BY <1>1, <1>3, <1>4, <1>7 DEF Turn, OthersStay

\* A turn that writes nothing, and neither asks Stripe nor has an answer of it to record.
LEMMA GoesOn ==
    ASSUME NEW p \in Procs, NEW c, Ready(p, c), NEW x \in ProcType, Go(p, x), x.on = c, proc[p].pc # "record",
           x.pc \in ChargePcs \ {"claim", "giveUp", "stuck", "reset", "record"},
           UNCHANGED buy, UNCHANGED checkout, UNCHANGED day, UNCHANGED pass, UNCHANGED charge, UNCHANGED idle,
           UNCHANGED refunded, UNCHANGED placed, UNCHANGED owned, faults \subseteq faults',
           charge[c].status \in StatusIn(x.pc),
           x.pc # "dns",
           x.pc = "note" => proc[p].pc = "stuck" /\ Operation[c] # "register",
           p \in Webhooks /\ x.pc = "refund" /\ Operation[c] = "transfer" => charge[c].status = "fulfilling",
           faults' \subseteq OnlyAnswers /\ Operation[c] = "register" /\ placed[c] > 0 =>
               x.pc \in {"ask", "deliver", "mark"}
    PROVE  Turn(p, c)
<1>1. "crash" \notin faults' => "crash" \notin faults
  OBVIOUS
<1>2. faults' \subseteq OnlyAnswers => faults \subseteq OnlyAnswers
  OBVIOUS
<1>3. Turns(p, c, x)
  BY <1>1, <1>2 DEF Turns, Ready, Agrees
<1> QED
  BY <1>3 DEF Turn, OthersStay

LEMMA OrderTurns ==
    ASSUME NEW p \in Procs, NEW c, Ready(p, c), Prepare(p) \/ OrderUnreachable(p) \/ OrderRefused(p)
    PROVE  Turn(p, c)
<1>1. /\ UNCHANGED buy /\ UNCHANGED checkout /\ UNCHANGED day /\ UNCHANGED pass /\ UNCHANGED charge
      /\ UNCHANGED idle /\ UNCHANGED refunded /\ UNCHANGED placed /\ UNCHANGED owned /\ UNCHANGED faults
      /\ proc[p].pc \in {"prepare", "order"}
  BY DEF Prepare, OrderUnreachable, OrderRefused, outside
<1>2. charge[c].status = "fulfilling"
  BY <1>1 DEF Ready, Fits, StatusIn, Ordering
<1>3. {"order", "ask", "requeue", "refund"} \subseteq ChargePcs \ {"claim", "giveUp", "stuck", "reset", "record"}
  BY PcsAre
<1>4. \A pc \in {"order", "ask", "requeue", "refund"} : "fulfilling" \in StatusIn(pc)
  BY DEF StatusIn, Ordering
<1>5. faults \subseteq OnlyAnswers /\ Operation[c] = "register" => ~(placed[c] > 0)
  BY <1>1 DEF Ready
<1>6. \E x \in ProcType : Go(p, x) /\ x.on = c /\ x.pc \in {"order", "ask", "requeue", "refund"}
  <2>1. CASE Prepare(p)
    <3> DEFINE s == IF Op(p) = "renew" THEN domain[Dom(p)] ELSE "failed"
               b == charge[c].data
               x == [proc[p] EXCEPT !.pc = "order", !.data = b, !.after = s]
    <3>1. Go(p, x)
      BY <2>1 DEF Prepare, Ready
    <3>2. s \in DomainStatuses \cup {"keep"} /\ b \in BOOLEAN
      BY DEF Ready, TypeOK, DomainStatuses, RowType
    <3> HIDE DEF s, b
    <3>3. x \in ProcType /\ x.pc = "order" /\ x.on = c
      BY <1>3, <3>2 DEF Ready, ProcType, ChargePcs
    <3> HIDE DEF x
    <3> QED
      BY <3>1, <3>3
  <2>2. ASSUME NEW pc \in {"ask", "requeue", "refund"}, Go(p, [proc[p] EXCEPT !.caught = TRUE, !.pc = pc])
        PROVE  \E x \in ProcType : Go(p, x) /\ x.on = c /\ x.pc \in {"order", "ask", "requeue", "refund"}
    <3> DEFINE x == [proc[p] EXCEPT !.caught = TRUE, !.pc = pc]
    <3>1. pc \in Pcs
      BY PcsAre
    <3>2. x \in ProcType /\ x.pc = pc /\ x.on = c
      BY <3>1, CaughtTyped DEF Ready
    <3>3. Go(p, x)
      BY <2>2
    <3> HIDE DEF x
    <3> QED
      BY <3>2, <3>3
  <2>3. OrderUnreachable(p) \/ OrderRefused(p) =>
           \E pc \in {"ask", "requeue", "refund"} : Go(p, [proc[p] EXCEPT !.caught = TRUE, !.pc = pc])
    BY DEF OrderUnreachable, OrderRefused, AfterTransient
  <2> QED
    BY <2>1, <2>2, <2>3
<1>7. PICK x \in ProcType : Go(p, x) /\ x.on = c /\ x.pc \in {"order", "ask", "requeue", "refund"}
  BY <1>6
<1> QED
  BY <1>1, <1>2, <1>3, <1>4, <1>5, <1>7, GoesOn

LEMMA AskTurns ==
    ASSUME NEW p \in Procs, NEW c, Ready(p, c), Ask(p) \/ AskStuck(p)
    PROVE  Turn(p, c)
<1>1. /\ UNCHANGED buy /\ UNCHANGED checkout /\ UNCHANGED day /\ UNCHANGED pass /\ UNCHANGED charge
      /\ UNCHANGED idle /\ UNCHANGED refunded /\ UNCHANGED placed /\ UNCHANGED owned /\ faults \subseteq faults'
      /\ proc[p].pc \in {"ask", "stuck"}
  BY DEF Ask, AskStuck, Fault, outside
<1>2. charge[c].status = "fulfilling"
  BY <1>1 DEF Ready, Fits, StatusIn, Ordering
<1>3. {"deliver", "requeue", "note"} \subseteq ChargePcs \ {"claim", "giveUp", "stuck", "reset", "record"}
  BY PcsAre
<1>4. \A pc \in {"deliver", "requeue", "note"} : "fulfilling" \in StatusIn(pc)
  BY DEF StatusIn, Ordering
<1>5. PICK pc \in {"deliver", "requeue", "note"} :
          /\ Goto(p, pc) /\ (pc = "note" => proc[p].pc = "stuck" /\ Operation[c] # "register")
          /\ pc = "requeue" => (~owned[DomainOf[c]] \/ "infoFails" \in faults')
  BY DEF Ask, AskStuck, Fault, Ready
<1> DEFINE x == [proc[p] EXCEPT !.pc = pc]
<1>6. pc \in Pcs
  BY PcsAre
<1>7. x \in ProcType /\ x.pc = pc /\ x.on = c
  BY <1>6, OnTyped DEF Ready
<1>8. Go(p, x)
  BY <1>5 DEF Goto
<1> HIDE DEF x
<1>9. faults' \subseteq OnlyAnswers /\ Operation[c] = "register" /\ placed[c] > 0 => pc = "deliver"
  <2>1. faults' \subseteq OnlyAnswers => faults \subseteq OnlyAnswers /\ "infoFails" \notin faults'
    BY <1>1 DEF OnlyAnswers
  <2> QED
    BY <1>5, <2>1 DEF Ready
<1> QED
  BY <1>1, <1>2, <1>3, <1>4, <1>5, <1>7, <1>8, <1>9, GoesOn

LEMMA DeliverTurns ==
    ASSUME NEW p \in Procs, NEW c, Ready(p, c), Deliver(p)
    PROVE  Turn(p, c)
<1>1. /\ UNCHANGED buy /\ UNCHANGED checkout /\ UNCHANGED day /\ UNCHANGED pass /\ UNCHANGED charge
      /\ UNCHANGED idle /\ UNCHANGED refunded /\ UNCHANGED placed /\ UNCHANGED owned /\ UNCHANGED faults
      /\ proc[p].pc = "deliver"
  BY DEF Deliver, outside
<1>2. charge[c].status = "fulfilling" /\ "fulfilling" \in StatusIn("mark")
  BY <1>1 DEF Ready, Fits, StatusIn, Ordering
<1> DEFINE x == [proc[p] EXCEPT !.pc = "mark"]
<1>3. "mark" \in Pcs /\ "mark" \in ChargePcs \ {"claim", "giveUp", "stuck", "reset", "record"}
  BY PcsAre
<1>4. x \in ProcType /\ x.pc = "mark" /\ x.on = c
  BY <1>3, OnTyped DEF Ready
<1>5. Go(p, x)
  BY DEF Deliver, Goto
<1> HIDE DEF x
<1> QED
  BY <1>1, <1>2, <1>3, <1>4, <1>5, GoesOn

LEMMA DatabaseTurns ==
    ASSUME NEW p \in Procs, NEW c, Ready(p, c), DatabaseFails(p)
    PROVE  Turn(p, c)
<1>1. /\ UNCHANGED buy /\ UNCHANGED checkout /\ UNCHANGED day /\ UNCHANGED pass /\ UNCHANGED charge
      /\ UNCHANGED idle /\ UNCHANGED refunded /\ UNCHANGED placed /\ UNCHANGED owned /\ faults \subseteq faults'
      /\ proc[p].pc \in {"deliver", "mark", "dns"} /\ "dbError" \in faults'
  BY DEF DatabaseFails, Fault, outside
<1>2. /\ charge[c].status \in {"fulfilling", "fulfilled"} /\ charge[c].status \in StatusIn("refund")
      /\ Operation[c] = "transfer" => charge[c].status = "fulfilling"
  BY <1>1 DEF Ready, Fits, StatusIn, Ordering
<1> DEFINE x == [proc[p] EXCEPT !.caught = TRUE, !.pc = "refund"]
<1>3. "refund" \in Pcs /\ "refund" \in ChargePcs \ {"claim", "giveUp", "stuck", "reset", "record"}
  BY PcsAre
<1>4. x \in ProcType /\ x.pc = "refund" /\ x.on = c
  BY <1>3, CaughtTyped DEF Ready
<1>5. Go(p, x)
  BY DEF DatabaseFails
<1> HIDE DEF x
<1>6. ~(faults' \subseteq OnlyAnswers)
  BY <1>1 DEF OnlyAnswers
<1> QED
  BY <1>1, <1>2, <1>3, <1>4, <1>5, <1>6, GoesOn

\* The registrar takes the order; whether or not its answer arrives, a registration is kept.
LEMMA PlaceTurns ==
    ASSUME NEW p \in Procs, NEW c, Ready(p, c), OrderAccepted(p) \/ OrderAnswerLost(p)
    PROVE  Turn(p, c)
<1>1. /\ UNCHANGED buy /\ UNCHANGED checkout /\ UNCHANGED day /\ UNCHANGED pass /\ UNCHANGED charge
      /\ UNCHANGED idle /\ UNCHANGED refunded /\ faults \subseteq faults'
      /\ proc[p].pc = "order" /\ Place(p)
  BY DEF OrderAccepted, OrderAnswerLost, Fault, outside
<1>2. /\ placed' = [placed EXCEPT ![c] = @ + 1]
      /\ Operation[c] = "register" => owned'[DomainOf[c]]
  <2>1. /\ placed' = [placed EXCEPT ![c] = @ + 1]
        /\ owned' = [owned EXCEPT ![DomainOf[c]] = @ \/ Operation[c] = "register"]
    BY <1>1 DEF Place, Ready
  <2>2. owned \in [Domains -> BOOLEAN] /\ DomainOf[c] \in Domains
    BY DEF Ready, TypeOK
  <2> QED
    BY <2>1, <2>2
<1>3. charge[c].status = "fulfilling" /\ ~charge[c].refund
  BY <1>1 DEF Ready, Fits, StatusIn, Ordering, RowType
<1>4. \E x \in ProcType : Go(p, x) /\ x.on = c /\ x.pc \in {"deliver", "ask", "requeue"}
                         /\ (Operation[c] = "register" => x.pc # "requeue")
  <2>1. CASE OrderAccepted(p)
    <3> DEFINE x == [proc[p] EXCEPT !.pc = "deliver"]
    <3>1. "deliver" \in Pcs
      BY PcsAre
    <3>2. x \in ProcType /\ x.pc = "deliver" /\ x.on = c
      BY <3>1, OnTyped DEF Ready
    <3>3. Go(p, x)
      BY <2>1 DEF OrderAccepted, Goto
    <3> HIDE DEF x
    <3> QED
      BY <3>2, <3>3
  <2>2. CASE OrderAnswerLost(p)
    <3> DEFINE pc == IF Op(p) = "register" THEN "ask" ELSE "requeue"
               x  == [proc[p] EXCEPT !.caught = TRUE, !.pc = pc]
    <3>1. pc \in Pcs /\ pc \in {"ask", "requeue"} /\ (Operation[c] = "register" => pc # "requeue")
      BY PcsAre DEF Ready
    <3>2. Go(p, x)
      BY <2>2 DEF OrderAnswerLost, AfterTransient
    <3> HIDE DEF pc
    <3>3. x \in ProcType /\ x.pc = pc /\ x.on = c
      BY <3>1, CaughtTyped DEF Ready
    <3> HIDE DEF x
    <3> QED
      BY <3>1, <3>2, <3>3
  <2> QED
    BY <2>1, <2>2
<1>5. PICK x \in ProcType : /\ Go(p, x) /\ x.on = c /\ x.pc \in {"deliver", "ask", "requeue"}
                            /\ Operation[c] = "register" => x.pc # "requeue"
  BY <1>4
<1>6. {"deliver", "ask", "requeue"} \subseteq ChargePcs \ {"claim", "giveUp", "stuck", "reset"}
  BY PcsAre
<1>7. \A pc \in {"deliver", "ask", "requeue"} : "fulfilling" \in StatusIn(pc)
  BY DEF StatusIn, Ordering
<1>8. "crash" \notin faults' => ~refunded'[c]
  BY <1>1, <1>3 DEF Ready, Agrees
<1>9. faults' \subseteq OnlyAnswers => ~refunded'[c]
  BY <1>8 DEF OnlyAnswers
<1>10. Turns(p, c, x)
  BY <1>1, <1>2, <1>3, <1>5, <1>6, <1>7, <1>8, <1>9 DEF Turns, Ready, Agrees
<1>11. OthersStay(c)
  BY <1>1, <1>2 DEF OthersStay, Ready, TypeOK
<1> QED
  BY <1>10, <1>11 DEF Turn

LEMMA MarkTurns ==
    ASSUME NEW p \in Procs, NEW c, Ready(p, c), Mark(p)
    PROVE  Turn(p, c)
<1>1. /\ UNCHANGED buy /\ UNCHANGED checkout /\ UNCHANGED day /\ UNCHANGED pass /\ UNCHANGED refunded
      /\ UNCHANGED placed /\ UNCHANGED owned /\ UNCHANGED faults
      /\ proc[p].pc = "mark" /\ Close(c, "fulfilled")
      /\ (Operation[c] = "register" /\ Goto(p, "dns")) \/ Done(p)
  BY DEF Mark, outside, Ready
<1>2. charge[c].status = "fulfilling" /\ ~charge[c].refund
  BY <1>1 DEF Ready, Fits, StatusIn, Ordering, RowType
<1>3. /\ charge'[c].status = "fulfilled" /\ charge'[c].refund = charge[c].refund /\ ~idle'[c]
      /\ \A e \in Charges \ {c} : charge'[e] = charge[e] /\ idle'[e] = idle[e]
  BY <1>1, StatusWritten DEF Ready
<1>4. \E x \in ProcType : Go(p, x) /\ (x.pc \in {"rest", "over"} \/ (x.pc = "dns" /\ x.on = c /\ Operation[c] = "register"))
  <2>1. CASE Operation[c] = "register" /\ Goto(p, "dns")
    <3> DEFINE x == [proc[p] EXCEPT !.pc = "dns"]
    <3>1. "dns" \in Pcs
      BY PcsAre
    <3>2. x \in ProcType /\ x.pc = "dns" /\ x.on = c
      BY <3>1, OnTyped DEF Ready
    <3>3. Go(p, x)
      BY <2>1 DEF Goto
    <3> HIDE DEF x
    <3> QED
      BY <2>1, <3>2, <3>3
  <2>2. CASE Done(p)
    BY <2>2, DoneFields
  <2> QED
    BY <1>1, <2>1, <2>2
<1>5. PICK x \in ProcType :
          Go(p, x) /\ (x.pc \in {"rest", "over"} \/ (x.pc = "dns" /\ x.on = c /\ Operation[c] = "register"))
  BY <1>4
<1>6. "dns" \in ChargePcs \ {"claim", "giveUp", "stuck", "reset"} /\ "rest" \notin ChargePcs /\ "over" \notin ChargePcs
  BY PcsAre
<1>7. "fulfilled" \in StatusIn("dns") /\ "fulfilled" \in ChargeStatuses \ Unpaid
  BY DEF StatusIn, Ordering, ChargeStatuses, Unpaid, PayableFrom
<1>8. Turns(p, c, x)
  BY <1>1, <1>2, <1>3, <1>5, <1>6, <1>7 DEF Turns, Ready, Agrees
<1> QED
  BY <1>1, <1>3, <1>8 DEF Turn, OthersStay

LEMMA RequeueTurns ==
    ASSUME NEW p \in Procs, NEW c, Ready(p, c), Requeue(p)
    PROVE  Turn(p, c)
<1>1. /\ UNCHANGED buy /\ UNCHANGED checkout /\ UNCHANGED day /\ UNCHANGED pass /\ UNCHANGED refunded
      /\ UNCHANGED placed /\ UNCHANGED owned /\ UNCHANGED faults
      /\ proc[p].pc = "requeue" /\ SetStatus(c, "paid") /\ Done(p)
  BY DEF Requeue, outside, Ready
<1>2. charge[c].status = "fulfilling" /\ ~charge[c].refund
  BY <1>1 DEF Ready, Fits, StatusIn, Ordering, RowType
<1>3. /\ charge'[c].status = "paid" /\ charge'[c].refund = charge[c].refund /\ ~idle'[c]
      /\ \A e \in Charges \ {c} : charge'[e] = charge[e] /\ idle'[e] = idle[e]
  BY <1>1, StatusWritten DEF Ready
<1>4. PICK x \in ProcType : Go(p, x) /\ x.pc \in {"rest", "over"}
  BY <1>1, DoneFields
<1>5. "paid" \in ChargeStatuses \ Unpaid
  BY DEF ChargeStatuses, Unpaid, PayableFrom
<1>6. faults \subseteq OnlyAnswers /\ Operation[c] = "register" => ~(placed[c] > 0)
  BY <1>1 DEF Ready
<1>7. Turns(p, c, x)
  BY <1>1, <1>2, <1>3, <1>4, <1>5, <1>6 DEF Turns, Ready, Agrees
<1> QED
  BY <1>1, <1>3, <1>7 DEF Turn, OthersStay

\* Stripe returns the money, refuses, or returns it and its answer is lost.
LEMMA RefundTurns ==
    ASSUME NEW p \in Procs, NEW c, Ready(p, c), Refund(p) \/ RefundAnswerLost(p)
    PROVE  Turn(p, c)
<1>1. /\ UNCHANGED buy /\ UNCHANGED checkout /\ UNCHANGED day /\ UNCHANGED pass /\ UNCHANGED charge
      /\ UNCHANGED idle /\ UNCHANGED placed /\ UNCHANGED owned /\ proc[p].pc = "refund"
      /\ UNCHANGED faults \/ faults' = faults \cup {"lostRefund"}
  BY DEF Refund, RefundAnswerLost, Fault, outside, Ready
<1>2. PICK good \in BOOLEAN :
          /\ Go(p, [proc[p] EXCEPT !.pc = "record", !.ok = good])
          /\ \/ refunded' = [refunded EXCEPT ![c] = TRUE] /\ (good \/ "lostRefund" \in faults')
             \/ UNCHANGED refunded /\ ~good
  <2>1. Refund(p) => \/ /\ Go(p, [proc[p] EXCEPT !.pc = "record", !.ok = TRUE])
                        /\ refunded' = [refunded EXCEPT ![c] = TRUE]
                     \/ Go(p, [proc[p] EXCEPT !.pc = "record", !.ok = FALSE]) /\ UNCHANGED refunded
    BY DEF Refund, Ready
  <2>2. RefundAnswerLost(p) => /\ Go(p, [proc[p] EXCEPT !.pc = "record", !.ok = FALSE])
                               /\ refunded' = [refunded EXCEPT ![c] = TRUE] /\ "lostRefund" \in faults'
    BY DEF RefundAnswerLost, Fault, Ready
  <2> QED
    BY <2>1, <2>2
<1> DEFINE x == [proc[p] EXCEPT !.pc = "record", !.ok = good]
<1>3. "record" \in ChargePcs \ {"claim", "giveUp", "stuck", "reset"} /\ "record" \in Pcs
  BY PcsAre
<1>4. x \in ProcType /\ x.pc = "record" /\ x.on = c /\ x.ok = good
  BY <1>3 DEF Ready, ProcType
<1>5. Go(p, x)
  BY <1>2
<1> HIDE DEF x
<1>6. /\ charge[c].status \in {"fulfilling", "fulfilled"} /\ charge[c].status \in StatusIn("record")
      /\ p \in Webhooks /\ Operation[c] = "transfer" => charge[c].status = "fulfilling"
  BY <1>1 DEF Ready, Fits, StatusIn, Ordering
<1>7. faults' \subseteq OnlyAnswers /\ Operation[c] = "register" => ~(placed[c] > 0)
  <2>1. faults' \subseteq OnlyAnswers => faults \subseteq OnlyAnswers
    BY <1>1
  <2> QED
    BY <1>1, <2>1 DEF Ready
<1>8. "crash" \notin faults => ~refunded[c]
  BY <1>1, <1>6 DEF Ready, Agrees
<1>9. Agrees(refunded'[c], charge'[c].status, x.pc = "record", x.pc = "record" /\ x.ok, faults')
  <2>1. x.pc = "record" /\ x.ok = good /\ charge'[c].status # "refunded"
    BY <1>1, <1>4, <1>6
  <2>2. (good => refunded'[c]) /\ ("crash" \notin faults' /\ refunded'[c] => good \/ "lostRefund" \in faults')
    BY <1>1, <1>2, <1>8 DEF Ready, TypeOK
  <2> QED
    BY <2>1, <2>2 DEF Agrees
<1>10. Turns(p, c, x)
  BY <1>1, <1>3, <1>4, <1>5, <1>6, <1>7, <1>9 DEF Turns, Ready
<1>11. OthersStay(c)
  BY <1>1, <1>2 DEF OthersStay, Ready, TypeOK
<1> QED
  BY <1>4, <1>10, <1>11 DEF Turn

LEMMA RecordTurns ==
    ASSUME NEW p \in Procs, NEW c, Ready(p, c), RecordRefund(p)
    PROVE  Turn(p, c)
<1> DEFINE s   == IF proc[p].ok THEN "refunded" ELSE "failed"
           row == [charge[c] EXCEPT !.status = s, !.refund = proc[p].ok, !.data = FALSE]
           x   == [proc[p] EXCEPT !.pc = "release"]
<1>1. /\ UNCHANGED buy /\ UNCHANGED checkout /\ UNCHANGED day /\ UNCHANGED pass /\ UNCHANGED refunded
      /\ UNCHANGED placed /\ UNCHANGED owned /\ UNCHANGED faults
      /\ proc[p].pc = "record" /\ Write(c, row) /\ Go(p, x)
  BY DEF RecordRefund, Goto, outside, Ready
<1>2. "release" \in ChargePcs \ {"claim", "giveUp", "stuck", "reset"} /\ "release" \in Pcs
  BY PcsAre
<1>3. x \in ProcType /\ x.pc = "release" /\ x.on = c
  BY <1>2, OnTyped DEF Ready
<1>4. s \in ChargeStatuses \ Unpaid /\ s \in StatusIn("release") /\ (s = "refunded" <=> proc[p].ok)
  BY DEF ChargeStatuses, Unpaid, PayableFrom, StatusIn, Ordering
<1>5. proc[p].ok \in BOOLEAN
  BY DEF Ready, ProcType
<1> HIDE DEF s, x
<1>6. row.status = s /\ row.refund = proc[p].ok
  BY <1>5 DEF Ready, RowType
<1> HIDE DEF row
<1>7. /\ charge'[c] = row /\ ~idle'[c]
      /\ \A e \in Charges \ {c} : charge'[e] = charge[e] /\ idle'[e] = idle[e]
  BY <1>1, Written DEF Ready
<1>8. faults \subseteq OnlyAnswers /\ Operation[c] = "register" => ~(placed[c] > 0)
  BY <1>1 DEF Ready
<1>9. charge[c].status # "refunded"
  BY <1>1 DEF Ready, Fits, StatusIn, Ordering
<1>10. charge'[c].status = s /\ charge'[c].refund = proc[p].ok
  BY <1>6, <1>7
<1>11. s = "refunded" \/ s = "failed"
  BY DEF s
<1>12. Agrees(refunded'[c], s, FALSE, FALSE, faults)
  <2>1. Agrees(refunded'[c], charge[c].status, TRUE, proc[p].ok, faults)
    BY <1>1 DEF Ready, Agrees
  <2> QED
    BY <1>4, <1>9, <1>11, <2>1 DEF Agrees
<1>13. Agrees(refunded'[c], charge'[c].status, x.pc = "record", x.pc = "record" /\ x.ok, faults')
  BY <1>1, <1>3, <1>10, <1>12 DEF Agrees
<1>14. Turns(p, c, x)
  BY <1>1, <1>2, <1>3, <1>4, <1>5, <1>7, <1>8, <1>10, <1>13 DEF Turns, Ready
<1> QED
  BY <1>1, <1>3, <1>7, <1>14 DEF Turn, OthersStay

LEMMA GiveUpTurns ==
    ASSUME NEW p \in Procs, NEW c, Ready(p, c), GiveUp(p)
    PROVE  Turn(p, c)
<1> DEFINE s == IF Op(p) = "renew" THEN "keep" ELSE "failed"
           x == [proc[p] EXCEPT !.pc = "refund", !.after = s]
<1>1. /\ UNCHANGED buy /\ UNCHANGED checkout /\ UNCHANGED day /\ UNCHANGED pass /\ UNCHANGED refunded
      /\ UNCHANGED placed /\ UNCHANGED owned /\ UNCHANGED faults
      /\ proc[p].pc = "giveUp" /\ SetStatus(c, "fulfilling") /\ Go(p, x)
  BY DEF GiveUp, outside, Ready
<1>2. charge[c].status = "paid" /\ ~charge[c].refund
  BY <1>1 DEF Ready, Fits, StatusIn, Ordering, RowType
<1>3. /\ charge'[c].status = "fulfilling" /\ charge'[c].refund = charge[c].refund /\ ~idle'[c]
      /\ \A e \in Charges \ {c} : charge'[e] = charge[e] /\ idle'[e] = idle[e]
  BY <1>1, StatusWritten DEF Ready
<1>4. "refund" \in ChargePcs \ {"claim", "giveUp", "stuck", "reset"} /\ "refund" \in Pcs
  BY PcsAre
<1>5. s \in DomainStatuses \cup {"keep"}
  BY DEF DomainStatuses
<1> HIDE DEF s
<1>6. x \in ProcType /\ x.pc = "refund" /\ x.on = c
  BY <1>4, <1>5 DEF Ready, ProcType
<1> HIDE DEF x
<1>7. "fulfilling" \in StatusIn("refund") /\ "fulfilling" \in ChargeStatuses \ Unpaid
  BY DEF StatusIn, Ordering, ChargeStatuses, Unpaid, PayableFrom
<1>8. faults \subseteq OnlyAnswers /\ Operation[c] = "register" => ~(placed[c] > 0)
  BY <1>1 DEF Ready
<1>9. Turns(p, c, x)
  BY <1>1, <1>2, <1>3, <1>4, <1>6, <1>7, <1>8 DEF Turns, Ready, Agrees
<1> QED
  BY <1>1, <1>3, <1>6, <1>9 DEF Turn, OthersStay

\* Every step of a handler on its charge that is not the last one of its request.
HolderStep(p) ==
    \/ Prepare(p) \/ OrderAccepted(p) \/ OrderAnswerLost(p) \/ OrderUnreachable(p) \/ OrderRefused(p) \/ Ask(p)
    \/ AskStuck(p) \/ Deliver(p) \/ Mark(p) \/ DatabaseFails(p) \/ Requeue(p) \/ Refund(p) \/ RefundAnswerLost(p)
    \/ RecordRefund(p) \/ GiveUp(p) \/ (Claim(p) /\ charge[proc[p].on].status = "paid")

LEMMA HolderTurns ==
    ASSUME NoAdmins, SerialInv, NEW p \in Procs, HolderStep(p), \A d \in Domains : owned[d] => owned'[d]
    PROVE  Roles' /\ \A e \in Charges : Serial(e)'
<1>1. proc[p].pc \in ChargePcs /\ (proc[p].pc # "claim" \/ charge[proc[p].on].status = "paid")
  BY PcsAre DEF HolderStep, Prepare, OrderAccepted, OrderAnswerLost, OrderUnreachable, OrderRefused, Ask, AskStuck,
                Deliver, Mark, DatabaseFails, Requeue, Refund, RefundAnswerLost, RecordRefund, GiveUp, Claim
<1>2. PICK c : c = proc[p].on
  OBVIOUS
<1>3. Ready(p, c)
  BY <1>1, <1>2, IsReady
<1>4. Turn(p, c)
  BY <1>2, <1>3, ClaimTurns, OrderTurns, AskTurns, DeliverTurns, DatabaseTurns, PlaceTurns, MarkTurns, RequeueTurns,
     RefundTurns, RecordTurns, GiveUpTurns DEF HolderStep
<1>5. c \in Charges /\ On(p, c)
  BY <1>3 DEF Ready, On
<1> QED
  BY <1>1, <1>2, <1>4, <1>5, TurnKeeps

-----------------------------------------------------------------------------
(* Steps beside the charges *)

SameRows == \A c \in Charges : SameRow(c)
SamePasses == \A c \in Charges : SamePass(c)

\* The end of a request, and the pass at work on a domain.
LEMMA AsideSerial ==
    ASSUME SerialInv, NEW p \in Procs, NEW x \in ProcType, Go(p, x), x.pc \notin ChargePcs, SameRows, SamePasses,
           proc[p].pc # "record" \/ "crash" \in faults'
    PROVE  \A c \in Charges : Serial(c)'
<1>1. proc'[p] = x /\ \A q \in Procs \ {p} : proc'[q] = proc[q]
  BY GoFields DEF SerialInv, ActiveInv
<1>2. ASSUME NEW c \in Charges PROVE SameHandlers(c)
  BY <1>1 DEF SameHandlers
<1> QED
  BY <1>2, Elsewhere DEF SerialInv, SameRows, SamePasses

\* A charge nobody has paid for yet, while it is bought or expires.
LEMMA BuyerSerial ==
    ASSUME SerialInv, NEW c \in Charges, charge[c].status \in Unpaid,
           UNCHANGED proc, UNCHANGED pass, UNCHANGED refunded, UNCHANGED placed, UNCHANGED day, ~idle'[c],
           charge'[c].status # "refunded", ~charge'[c].refund, Buying(c)'
    PROVE  Serial(c)'
<1>1. /\ ~Listed(c) /\ ~LeftAlone(c) /\ \A p \in Procs : ~On(p, c)
      /\ ~refunded[c] /\ placed[c] = 0
  BY DEF SerialInv, Serial, Untouched
<1>2. /\ ~Listed(c)' /\ ~LeftAlone(c)' /\ \A p \in Procs : ~On(p, c)'
  BY <1>1 DEF Listed, LeftAlone, On
<1>3. Webhooks \subseteq Procs /\ Reconciler \in Procs
  BY ReconcilerIs
<1>4. Untouched(c)' /\ Alone(c)' /\ Lists(c)'
  BY <1>1, <1>2, <1>3 DEF Untouched, Alone, Lists, Listed, LeftAlone
<1>5. OneHolds(c)' /\ AllFit(c)'
  BY <1>2 DEF OneHolds, AllFit
<1>6. Money(c)' /\ Kept(c)'
  BY <1>1, <1>2 DEF Money, Agrees, Kept
<1> QED
  BY <1>4, <1>5, <1>6 DEF Serial

\* Time passes over a charge nobody works on.
LEMMA UnattendedSerial ==
    ASSUME SerialInv, NEW c \in Charges, HalfHourPasses(c) \/ DayPasses(c)
    PROVE  Serial(c)'
<1>1. /\ charge[c].status \in {"paid", "fulfilling"} /\ ~Attended(c)
      /\ UNCHANGED buy /\ UNCHANGED checkout /\ UNCHANGED charge /\ UNCHANGED proc /\ UNCHANGED pass
      /\ UNCHANGED placed /\ UNCHANGED owned /\ UNCHANGED refunded /\ UNCHANGED faults
  BY DEF HalfHourPasses, DayPasses, outside
<1>2. Serial(c) /\ \A p \in Procs : ~On(p, c) /\ ~On(p, c)'
  BY <1>1 DEF Attended, On, SerialInv
<1>3. Webhooks \subseteq Procs
  BY ReconcilerIs
<1>4. Buying(c)' /\ Untouched(c)' /\ Alone(c)' /\ OneHolds(c)' /\ AllFit(c)'
  BY <1>1, <1>2, <1>3 DEF Serial, Buying, Untouched, Unpaid, PayableFrom, Alone, OneHolds, AllFit
<1>5. Lists(c)'
  BY <1>1, <1>2 DEF Serial, Lists, Listed, On
<1>6. Money(c)' /\ Kept(c)'
  BY <1>1, <1>2 DEF Serial, Money, Agrees, Kept, On
<1> QED
  BY <1>4, <1>5, <1>6 DEF Serial

\* The webhook records the payment of a charge nothing has happened to.
LEMMA PaymentSerial ==
    ASSUME SerialInv, NEW w \in Webhooks, NEW c \in Charges, RecordPayment(w, c)
    PROVE  Serial(c)'
<1>0. TypeOK /\ w \in Procs /\ Webhooks \subseteq Procs /\ Reconciler \in Procs /\ Reconciler \notin Webhooks
  BY ReconcilerIs, DomainAssumption DEF SerialInv, ActiveInv
<1>1. /\ checkout[c] = "paid" /\ charge[c].status \in PayableFrom /\ SetStatus(c, "paid") /\ Go(w, At("claim", c))
      /\ UNCHANGED buy /\ UNCHANGED checkout /\ UNCHANGED pass /\ UNCHANGED refunded /\ UNCHANGED placed
      /\ UNCHANGED owned /\ UNCHANGED faults /\ ~day'[c]
  BY <1>0 DEF RecordPayment, outside, TypeOK
<1>2. /\ ~Listed(c) /\ ~LeftAlone(c) /\ \A p \in Procs : ~On(p, c)
      /\ ~refunded[c] /\ placed[c] = 0 /\ ~charge[c].refund /\ buy[c] = "done"
  BY <1>0, <1>1 DEF SerialInv, Serial, Untouched, Unpaid, PayableFrom, Money, Buying, TypeOK
<1>3. "claim" \in Pcs /\ "claim" \in ChargePcs
  BY PcsAre
<1>4. At("claim", c) \in ProcType /\ At("claim", c).pc = "claim" /\ At("claim", c).on = c
  BY <1>3, AtTyped
<1> HIDE DEF At
<1>5. proc'[w].pc = "claim" /\ proc'[w].on = c /\ \A q \in Procs \ {w} : proc'[q] = proc[q]
  BY <1>0, <1>1, <1>4, GoFields
<1>6. \A q \in Procs : On(q, c)' => q = w
  BY <1>2, <1>5 DEF On
<1>7. charge'[c].status = "paid" /\ ~charge'[c].refund /\ ~idle'[c]
  BY <1>0, <1>1, <1>2, StatusWritten
<1>8. ~Listed(c)' /\ ~LeftAlone(c)'
  BY <1>1, <1>2, <1>7 DEF Listed, LeftAlone
<1>9. Buying(c)' /\ Untouched(c)'
  BY <1>1, <1>2, <1>7 DEF Buying, Untouched, Unpaid, PayableFrom
<1>10. Alone(c)' /\ Lists(c)' /\ OneHolds(c)'
  BY <1>0, <1>6, <1>8 DEF Alone, Lists, Listed, LeftAlone, OneHolds
<1>11. AllFit(c)'
  BY <1>5, <1>6, <1>7 DEF AllFit, Fits, StatusIn, Ordering, ChargeStatuses
<1>12. Money(c)' /\ Kept(c)'
  BY <1>1, <1>2, <1>5, <1>6, <1>7 DEF Money, Agrees, Kept
<1> QED
  BY <1>9, <1>10, <1>11, <1>12 DEF Serial

\* The pass makes a list: of charges that are paid, or that hang for half an hour.
LEMMA ListSerial ==
    ASSUME SerialInv, NEW c \in Charges, proc[Reconciler].pc = "rest",
           UNCHANGED buy, UNCHANGED checkout, UNCHANGED day, UNCHANGED proc, UNCHANGED refunded, UNCHANGED placed,
           UNCHANGED owned, UNCHANGED faults, idle'[c] => idle[c],
           \/ charge'[c] = charge[c]
           \/ charge[c].status \in Unpaid /\ charge'[c].status \in PayableFrom /\ ~charge'[c].refund
              /\ buy[c] \notin {"new", "create", "hold", "charge"},
           pass'.phase = "paid" /\ c \in pass'.todo => charge[c].status = "paid",
           pass'.phase = "stuck" /\ c \in pass'.todo => charge[c].status = "fulfilling" /\ idle[c],
           c \in pass'.late => charge[c].status = "paid" /\ day[c]
    PROVE  Serial(c)'
<1>1. Serial(c) /\ ~On(Reconciler, c) /\ ~On(Reconciler, c)'
  BY PcsAre DEF On, SerialInv
<1>2. \A p \in Procs : On(p, c)' <=> On(p, c)
  BY DEF On
<1>3. LeftAlone(c)' => day[c] \/ idle[c]
  BY DEF LeftAlone
<1>4. Webhooks \subseteq Procs
  BY ReconcilerIs
<1>5. Listed(c)' => charge[c].status \in {"paid", "fulfilling"}
  BY DEF Listed
<1>6. ASSUME charge'[c] = charge[c] PROVE Buying(c)' /\ Untouched(c)' /\ AllFit(c)' /\ Money(c)' /\ Kept(c)' /\ Lists(c)'
  <2>1. Buying(c)' /\ Untouched(c)'
    BY <1>1, <1>2, <1>3, <1>5, <1>6 DEF Serial, Buying, Untouched, LeftAlone, Unpaid, PayableFrom
  <2>2. AllFit(c)' /\ Money(c)' /\ Kept(c)'
    BY <1>1, <1>2, <1>4, <1>6 DEF Serial, AllFit, Fits, Money, Kept
  <2>3. Lists(c)'
    BY <1>1, <1>6 DEF Lists
  <2> QED
    BY <2>1, <2>2, <2>3
<1>7. ASSUME charge[c].status \in Unpaid, charge'[c].status \in PayableFrom, ~charge'[c].refund,
             buy[c] \notin {"new", "create", "hold", "charge"}
      PROVE  Buying(c)' /\ Untouched(c)' /\ AllFit(c)' /\ Money(c)' /\ Kept(c)' /\ Lists(c)'
  <2>1. /\ ~LeftAlone(c) /\ \A p \in Procs : ~On(p, c) /\ ~On(p, c)'
        /\ ~refunded[c] /\ placed[c] = 0
    BY <1>1, <1>2, <1>7 DEF Serial, Untouched
  <2>2. ~Listed(c)' /\ ~LeftAlone(c)'
    BY <1>3, <1>5, <1>7, <2>1 DEF LeftAlone, Unpaid, PayableFrom
  <2>3. Buying(c)'
    BY <1>1, <1>7 DEF Serial, Buying
  <2>4. Untouched(c)' /\ AllFit(c)' /\ Money(c)' /\ Kept(c)'
    BY <1>7, <2>1, <2>2 DEF Untouched, AllFit, Money, Agrees, Kept, PayableFrom
  <2>5. Lists(c)'
    BY <2>2 DEF Lists, Listed
  <2> QED
    BY <2>3, <2>4, <2>5
<1>8. Alone(c)' /\ OneHolds(c)'
  BY <1>1, <1>2, <1>3, <1>4 DEF Serial, Alone, LeftAlone, OneHolds
<1>9. Buying(c)' /\ Untouched(c)' /\ AllFit(c)' /\ Money(c)' /\ Kept(c)' /\ Lists(c)'
  BY <1>6, <1>7
<1> QED
  BY <1>8, <1>9 DEF Serial

\* The pass takes up a charge.
LEMMA SetOffSerial ==
    ASSUME NoAdmins, SerialInv, NEW c \in Charges, NEW x \in ProcType, Go(Reconciler, x), x.on = c,
           x.pc \in {"claim", "giveUp", "stuck", "refund"}, proc[Reconciler].pc \in {"rest", "find"},
           UNCHANGED buy, UNCHANGED checkout, UNCHANGED day, UNCHANGED charge, UNCHANGED idle, UNCHANGED refunded,
           UNCHANGED placed, UNCHANGED owned, UNCHANGED faults, pass'.phase = pass.phase, pass'.late = pass.late,
           \A e \in Charges \ {c} : e \in pass'.todo => e \in pass.todo,
           pass.phase = "transfers" \/ c \notin pass'.todo,
           charge[c].status \notin Unpaid, charge[c].status \in StatusIn(x.pc),
           x.pc = "refund" => Operation[c] = "transfer",
           x.pc # "claim" => \A w \in Webhooks : On(w, c) => proc[w].pc = "claim",
           x.pc \in {"giveUp", "stuck"} => \A w \in Webhooks : ~On(w, c)
    PROVE  \A e \in Charges : Serial(e)'
<1>0. /\ TypeOK /\ Reconciler \in Procs /\ Webhooks \subseteq Procs /\ Reconciler \notin Webhooks
      /\ Procs = Webhooks \cup {Reconciler}
  BY ReconcilerIs, DomainAssumption DEF SerialInv, ActiveInv, NoAdmins, Procs
<1>1. proc'[Reconciler] = x /\ \A q \in Procs \ {Reconciler} : proc'[q] = proc[q]
  BY <1>0, GoFields
<1>2. \A w \in Webhooks : On(w, c)' <=> On(w, c)
  BY <1>0, <1>1 DEF On
<1>3. Serial(c)
  BY DEF SerialInv
<1>4. ~Listed(c)' /\ (LeftAlone(c)' => LeftAlone(c)) /\ ~(pass'.phase = "stuck" /\ c \in pass'.todo)
      /\ ~(pass'.phase = "paid" /\ c \in pass'.todo)
  BY DEF Listed, LeftAlone
<1>5. Buying(c)' /\ Untouched(c)'
  BY <1>3 DEF Serial, Buying, Untouched
<1>6. Alone(c)' /\ Lists(c)'
  BY <1>2, <1>3, <1>4 DEF Serial, Alone, Lists
<1>7. OneHolds(c)'
  <2>1. ASSUME NEW w \in Webhooks, On(w, c)' PROVE proc'[w].pc = "claim" \/ x.pc = "claim"
    BY <1>0, <1>1, <1>2, <2>1
  <2>2. \A v, w \in Webhooks : On(v, c)' /\ On(w, c)' => v = w
    BY <1>2, <1>3 DEF Serial, Alone
  <2> QED
    BY <1>0, <1>1, <2>1, <2>2 DEF OneHolds
<1>8. AllFit(c)'
  <2>1. ASSUME NEW w \in Webhooks, On(w, c)' PROVE Fits(w, c)'
    <3>1. Fits(w, c) /\ proc'[w] = proc[w] /\ On(w, c)
      BY <1>0, <1>1, <1>2, <1>3, <2>1 DEF Serial, AllFit
    <3>2. proc[w].pc \notin {"giveUp", "stuck", "note"}
      BY <1>0, <3>1 DEF Fits
    <3> QED
      BY <3>1, <3>2 DEF Fits
  <2>2. Fits(Reconciler, c)'
    BY <1>0, <1>1, <1>2 DEF Fits
  <2> QED
    BY <1>0, <2>1, <2>2 DEF AllFit
<1>9. Money(c)'
  <2>1. \A q \in Procs : /\ On(q, c)' /\ proc'[q].pc = "record" <=> On(q, c) /\ proc[q].pc = "record"
                         /\ q # Reconciler => proc'[q] = proc[q]
                         /\ ~(On(Reconciler, c) /\ proc[Reconciler].pc = "record")
    BY <1>0, <1>1, <1>2
  <2> QED
    BY <1>3, <2>1 DEF Serial, Money, Agrees
<1>10. Kept(c)'
  <2>1. StatusIn("giveUp") = {"paid"}
    BY DEF StatusIn, Ordering
  <2>2. faults \subseteq OnlyAnswers /\ Operation[c] = "register" /\ placed[c] > 0 => x.pc \in {"claim", "stuck"}
    BY <1>3, <2>1 DEF Serial, Kept
  <2> QED
    BY <1>0, <1>1, <1>2, <1>3, <2>2 DEF Serial, Kept
<1>11. ASSUME NEW e \in Charges \ {c} PROVE Serial(e)'
  <2>1. SameRow(e) /\ SamePass(e)
    BY DEF SameRow, SamePass
  <2>2. SameHandlers(e)
    <3>1. ~(proc[Reconciler].pc = "record")
      OBVIOUS
    <3> QED
      BY <1>0, <1>1, <3>1 DEF SameHandlers
  <2> QED
    BY <2>1, <2>2, Elsewhere DEF SerialInv
<1>12. Serial(c)'
  BY <1>5, <1>6, <1>7, <1>8, <1>9, <1>10 DEF Serial
<1> QED
  BY <1>11, <1>12

-----------------------------------------------------------------------------
(* Every step *)

\* The clock, Stripe and the client: no handler moves.
LEMMA StillSerial ==
    ASSUME SerialInv, UNCHANGED proc, UNCHANGED pass, NEW c \in Charges,
           \A e \in Charges \ {c} : SameRow(e), SameRow(c) \/ Serial(c)'
    PROVE  Roles' /\ \A e \in Charges : Serial(e)'
<1>1. \A e \in Charges : SameHandlers(e) /\ SamePass(e)
  BY DEF SameHandlers, SamePass
<1>2. \A e \in Charges : SameRow(e) => Serial(e)'
  BY <1>1, Elsewhere DEF SerialInv
<1>3. Roles'
  BY DEF SerialInv, Roles
<1> QED
  BY <1>2, <1>3

LEMMA CheckoutSerial ==
    ASSUME SerialInv, NEW c \in Charges, CheckoutStep(c) \/ CheckoutExpired(c)
    PROVE  Roles' /\ \A e \in Charges : Serial(e)'
<1>0. TypeOK /\ charge[c] \in RowType /\ Serial(c)
  BY DEF SerialInv, ActiveInv, TypeOK, RowType
<1>1. /\ UNCHANGED proc /\ UNCHANGED pass /\ UNCHANGED refunded /\ UNCHANGED placed /\ UNCHANGED day
      /\ UNCHANGED owned /\ UNCHANGED faults
  BY DEF CheckoutStep, CheckoutLooks, CheckoutCreates, CheckoutHolds, CheckoutCharges, CheckoutOpens, CheckoutExpired,
         outside
<1>2. charge[c].status \in Unpaid /\ ~charge[c].refund /\ ~idle[c]
  <2>1. charge[c].status \in Unpaid
    BY <1>0 DEF CheckoutStep, CheckoutLooks, CheckoutCreates, CheckoutHolds, CheckoutCharges, CheckoutOpens,
                CheckoutExpired, Serial, Buying, Unpaid, PayableFrom
  <2> QED
    BY <1>0, <2>1 DEF Serial, Untouched, LeftAlone, Money, Unpaid, PayableFrom, RowType
<1>3. ASSUME CheckoutLooks(c) \/ CheckoutCreates(c) \/ CheckoutHolds(c)
      PROVE  /\ charge' = charge /\ idle' = idle /\ checkout' = checkout /\ charge[c].status = "none"
             /\ \E s \in {"create", "hold", "charge", "done"} : buy' = [buy EXCEPT ![c] = s]
             /\ checkout[c] = "none"
  BY <1>0, <1>3 DEF CheckoutLooks, CheckoutCreates, CheckoutHolds, Serial, Buying
<1>4. ASSUME CheckoutLooks(c) \/ CheckoutCreates(c) \/ CheckoutHolds(c)
      PROVE  Roles' /\ \A e \in Charges : Serial(e)'
  <2>1. Buying(c)'
    BY <1>0, <1>3, <1>4 DEF Buying, TypeOK
  <2>2. Serial(c)'
    BY <1>1, <1>2, <1>3, <1>4, <2>1, BuyerSerial
  <2>3. ASSUME NEW e \in Charges \ {c} PROVE SameRow(e)
    BY <1>0, <1>1, <1>3, <1>4 DEF SameRow, TypeOK
  <2> QED
    BY <1>1, <2>2, <2>3, StillSerial
<1>5. ASSUME CheckoutCharges(c) PROVE Roles' /\ \A e \in Charges : Serial(e)'
  <2> DEFINE row == [status |-> "pending_payment", refund |-> FALSE, data |-> Operation[c] # "renew"]
  <2>1. Write(c, row) /\ buy' = [buy EXCEPT ![c] = "session"] /\ UNCHANGED checkout /\ buy[c] = "charge"
    BY <1>5 DEF CheckoutCharges
  <2>2. row.status = "pending_payment" /\ ~row.refund
    OBVIOUS
  <2> HIDE DEF row
  <2>3. charge'[c] = row /\ ~idle'[c] /\ \A e \in Charges \ {c} : charge'[e] = charge[e] /\ idle'[e] = idle[e]
    BY <1>0, <2>1, Written
  <2>4. Buying(c)'
    BY <1>0, <2>1, <2>2, <2>3 DEF Serial, Buying, TypeOK, PayableFrom
  <2>5. Serial(c)'
    BY <1>1, <1>2, <2>2, <2>3, <2>4, BuyerSerial
  <2>6. ASSUME NEW e \in Charges \ {c} PROVE SameRow(e)
    BY <1>0, <1>1, <2>1, <2>3 DEF SameRow, TypeOK
  <2> QED
    BY <1>1, <2>5, <2>6, StillSerial
<1>6. ASSUME CheckoutOpens(c) PROVE Roles' /\ \A e \in Charges : Serial(e)'
  <2>1. buy' = [buy EXCEPT ![c] = "done"] /\ buy'[c] = "done"
    BY <1>0, <1>6 DEF CheckoutOpens, TypeOK
  <2>2. /\ charge'[c].status # "refunded" /\ ~charge'[c].refund /\ ~idle'[c]
        /\ \A e \in Charges \ {c} : charge'[e] = charge[e] /\ idle'[e] = idle[e] /\ checkout'[e] = checkout[e]
    <3>1. CASE checkout' = [checkout EXCEPT ![c] = "open"] /\ UNCHANGED <<charge, idle>>
      BY <1>0, <1>2, <3>1 DEF TypeOK, Unpaid, PayableFrom
    <3>2. CASE Close(c, "failed") /\ UNCHANGED checkout
      BY <1>0, <1>2, <3>2, StatusWritten
    <3> QED
      BY <1>6, <3>1, <3>2 DEF CheckoutOpens
  <2>3. Buying(c)'
    BY <2>1 DEF Buying
  <2>4. Serial(c)'
    BY <1>1, <1>2, <2>2, <2>3, BuyerSerial
  <2>5. ASSUME NEW e \in Charges \ {c} PROVE SameRow(e)
    BY <1>0, <1>1, <2>1, <2>2 DEF SameRow, TypeOK
  <2> QED
    BY <1>1, <2>4, <2>5, StillSerial
<1>7. ASSUME CheckoutExpired(c) PROVE Roles' /\ \A e \in Charges : Serial(e)'
  <2>1. Close(c, "expired") /\ UNCHANGED buy /\ UNCHANGED checkout /\ checkout[c] = "expired"
    BY <1>7 DEF CheckoutExpired
  <2>2. /\ charge'[c].status = "expired" /\ ~charge'[c].refund /\ ~idle'[c]
        /\ \A e \in Charges \ {c} : charge'[e] = charge[e] /\ idle'[e] = idle[e]
    BY <1>0, <1>2, <2>1, StatusWritten
  <2>3. Buying(c)'
    BY <1>0, <2>1 DEF Serial, Buying, TypeOK
  <2>4. Serial(c)'
    BY <1>1, <1>2, <2>2, <2>3, BuyerSerial
  <2>5. ASSUME NEW e \in Charges \ {c} PROVE SameRow(e)
    BY <1>1, <2>1, <2>2 DEF SameRow
  <2> QED
    BY <1>1, <2>4, <2>5, StillSerial
<1> QED
  BY <1>4, <1>5, <1>6, <1>7 DEF CheckoutStep

LEMMA ClockSerial ==
    ASSUME SerialInv, NEW c \in Charges, SessionEnds(c) \/ HalfHourPasses(c) \/ DayPasses(c)
    PROVE  Roles' /\ \A e \in Charges : Serial(e)'
<1>0. TypeOK /\ Serial(c)
  BY DEF SerialInv, ActiveInv
<1>1. UNCHANGED proc /\ UNCHANGED pass
  BY DEF SessionEnds, HalfHourPasses, DayPasses
<1>2. CASE SessionEnds(c)
  <2>1. buy[c] = "done"
    BY <1>0, <1>2 DEF SessionEnds, Serial, Buying, TypeOK
  <2>2. \A e \in Charges : SameRow(e)
    BY <1>0, <1>2, <2>1 DEF SessionEnds, SameRow, TypeOK, outside
  <2> QED
    BY <1>1, <2>2, StillSerial
<1>3. CASE HalfHourPasses(c) \/ DayPasses(c)
  <2>1. \A e \in Charges \ {c} : SameRow(e)
    BY <1>0, <1>3 DEF HalfHourPasses, DayPasses, SameRow, TypeOK, outside
  <2> QED
    BY <1>1, <1>3, <2>1, StillSerial, UnattendedSerial
<1> QED
  BY <1>2, <1>3

LEMMA WebhookSerial ==
    ASSUME SerialInv, NEW w \in Webhooks, NEW c \in Charges, RecordPayment(w, c)
    PROVE  Roles' /\ \A e \in Charges : Serial(e)'
<1>0. TypeOK /\ w \in Procs
  BY ReconcilerIs DEF SerialInv, ActiveInv
<1>1. /\ proc[w] = Rest /\ SetStatus(c, "paid") /\ Go(w, At("claim", c)) /\ day' = [day EXCEPT ![c] = FALSE]
      /\ UNCHANGED buy /\ UNCHANGED checkout /\ UNCHANGED pass /\ UNCHANGED refunded /\ UNCHANGED placed
      /\ UNCHANGED owned /\ UNCHANGED faults
  BY DEF RecordPayment, outside
<1>2. "claim" \in Pcs /\ "rest" \notin ChargePcs
  BY PcsAre
<1>3. At("claim", c) \in ProcType /\ At("claim", c).pc = "claim" /\ At("claim", c).on = c
  BY <1>2, AtTyped
<1>4. proc[w].pc = "rest"
  BY <1>1, RestTyped
<1> HIDE DEF At
<1>5. proc'[w].pc = "claim" /\ proc'[w].on = c /\ \A q \in Procs \ {w} : proc'[q] = proc[q]
  BY <1>0, <1>1, <1>3, GoFields
<1>6. \A e \in Charges \ {c} : charge'[e] = charge[e] /\ idle'[e] = idle[e]
  BY <1>0, <1>1, StatusWritten
<1>7. ASSUME NEW e \in Charges \ {c} PROVE Serial(e)'
  <2>1. SameRow(e)
    BY <1>0, <1>1, <1>6 DEF SameRow, TypeOK
  <2>2. SameHandlers(e) /\ SamePass(e)
    BY <1>1, <1>2, <1>4, <1>5 DEF SameHandlers, SamePass, On
  <2> QED
    BY <2>1, <2>2, Elsewhere DEF SerialInv
<1>8. Roles'
  BY <1>1, <1>5 DEF SerialInv, Roles
<1> QED
  BY <1>7, <1>8, PaymentSerial

\* A handler that leaves its charge, by the end of its request or of the process.
LEMMA LeaveSerial ==
    ASSUME NoAdmins, SerialInv, NEW p \in Procs,
           \/ Claim(p) /\ charge[proc[p].on].status # "paid"
           \/ Dns(p) \/ Release(p) \/ NoteStuck(p) \/ TransferArrived(p) \/ Crash(p)
    PROVE  Roles' /\ \A e \in Charges : Serial(e)'
<1>0. TypeOK
  BY DEF SerialInv, ActiveInv
<1>1. /\ Done(p) /\ UNCHANGED buy /\ UNCHANGED checkout /\ UNCHANGED day /\ UNCHANGED refunded /\ UNCHANGED placed
      /\ UNCHANGED owned /\ faults \subseteq faults' /\ (proc[p].pc # "record" \/ "crash" \in faults')
      /\ (pass' = pass) \/ (pass' = NoPass /\ p = Reconciler)
  BY DEF Claim, Dns, Release, NoteStuck, TransferArrived, Crash, Fault, outside
<1>2. PICK x \in ProcType : Go(p, x) /\ x.pc \in {"rest", "over"}
  BY <1>1, DoneFields
<1>3. x.pc \notin ChargePcs /\ x.pc \notin {"arrived", "died", "find"}
  BY <1>2, PcsAre
<1>4. \A e \in Charges : charge'[e] = charge[e] /\ (idle'[e] => idle[e])
  <2>1. CASE NoteStuck(p)
    <3>1. proc[p].pc \in ChargePcs /\ Write(proc[p].on, charge[proc[p].on])
      BY <2>1, PcsAre DEF NoteStuck
    <3>2. proc[p].on \in Charges
      BY <3>1, OnCharge DEF SerialInv
    <3> QED
      BY <1>0, <3>1, <3>2, Written
  <2>2. CASE ~NoteStuck(p)
    BY <2>2 DEF Claim, Dns, Release, TransferArrived, Crash
  <2> QED
    BY <2>1, <2>2
<1>5. SameRows
  BY <1>1, <1>4 DEF SameRows, SameRow
<1>6. SamePasses
  BY <1>1 DEF SamePasses, SamePass
<1>7. \A e \in Charges : Serial(e)'
  BY <1>1, <1>2, <1>3, <1>5, <1>6, AsideSerial
<1>8. proc'[p] = x /\ \A q \in Procs \ {p} : proc'[q] = proc[q]
  BY <1>0, <1>2, GoFields
<1>9. Roles'
  BY <1>1, <1>3, <1>8 DEF SerialInv, Roles
<1> QED
  BY <1>7, <1>9

\* The last phase of the pass, up to the charge it may refund.
LEMMA TransferSerial ==
    ASSUME NoAdmins, SerialInv, NEW p \in Procs,
           \/ TransferDied(p) \/ FindTransfer(p)
           \/ p = Reconciler /\ \E d \in Domains : ReconcileTransfer(d)
    PROVE  Roles' /\ \A e \in Charges : Serial(e)'
<1>0. TypeOK /\ Reconciler \in Procs
  BY ReconcilerIs DEF SerialInv, ActiveInv
<1>1. /\ UNCHANGED buy /\ UNCHANGED checkout /\ UNCHANGED charge /\ UNCHANGED idle /\ UNCHANGED day
      /\ UNCHANGED refunded /\ UNCHANGED placed /\ UNCHANGED owned /\ UNCHANGED faults
  BY DEF TransferDied, FindTransfer, ReconcileTransfer, outside
<1>2. SameRows
  BY <1>1 DEF SameRows, SameRow
<1>3. {"arrived", "died", "find"} \subseteq Pcs \ ChargePcs /\ "rest" \notin ChargePcs /\ "over" \notin ChargePcs
  BY PcsAre
<1>4. ASSUME NEW x \in ProcType, Go(p, x), x.pc \notin ChargePcs, SamePasses, proc[p].pc # "record",
             pass'.phase = pass.phase,
             x.pc \in {"arrived", "died", "find"} => p = Reconciler /\ pass.phase = "transfers"
      PROVE  Roles' /\ \A e \in Charges : Serial(e)'
  <2>1. \A e \in Charges : Serial(e)'
    BY <1>2, <1>4, AsideSerial
  <2>2. proc'[p] = x /\ \A q \in Procs \ {p} : proc'[q] = proc[q]
    BY <1>0, <1>4, GoFields
  <2>3. Roles'
    BY <1>4, <2>2 DEF SerialInv, Roles
  <2> QED
    BY <2>1, <2>3
<1>5. ASSUME p = Reconciler, NEW d \in Domains, ReconcileTransfer(d)
      PROVE  Roles' /\ \A e \in Charges : Serial(e)'
  <2>1. /\ pass.phase = "transfers" /\ pass' = [pass EXCEPT !.todo = @ \ {d}] /\ proc[p] = Rest
        /\ Go(p, At("arrived", d)) \/ Go(p, At("died", d)) \/ UNCHANGED proc
    BY <1>5 DEF ReconcileTransfer, Take
  <2>2. pass'.phase = pass.phase /\ pass'.late = pass.late /\ \A e \in Charges : e \in pass'.todo => e \in pass.todo
    BY <1>0, <2>1 DEF TypeOK
  <2>3. SamePasses
    BY <2>2 DEF SamePasses, SamePass
  <2>4. proc[p].pc = "rest"
    BY <2>1, RestTyped
  <2>5. ASSUME NEW pc \in {"arrived", "died"}, Go(p, At(pc, d)) PROVE Roles' /\ \A e \in Charges : Serial(e)'
    <3>1. At(pc, d) \in ProcType /\ At(pc, d).pc = pc
      BY <1>3, AtTyped
    <3> HIDE DEF At
    <3> QED
      BY <1>3, <1>4, <1>5, <2>1, <2>2, <2>3, <2>4, <2>5, <3>1
  <2>6. ASSUME UNCHANGED proc PROVE Roles' /\ \A e \in Charges : Serial(e)'
    <3>1. \A e \in Charges : SameHandlers(e)
      BY <2>6 DEF SameHandlers
    <3>2. Roles'
      BY <2>2, <2>6 DEF SerialInv, Roles
    <3> QED
      BY <1>2, <2>3, <3>1, <3>2, Elsewhere DEF SerialInv, SameRows, SamePasses
  <2> QED
    BY <2>1, <2>5, <2>6
<1>6. ASSUME TransferDied(p) PROVE Roles' /\ \A e \in Charges : Serial(e)'
  <2> DEFINE x == [proc[p] EXCEPT !.pc = "find"]
  <2>1. Go(p, x) /\ proc[p].pc = "died" /\ UNCHANGED pass
    BY <1>6 DEF TransferDied, Goto
  <2>2. proc[p] \in ProcType
    BY <1>0 DEF TypeOK, ProcType
  <2>3. x \in ProcType /\ x.pc = "find"
    BY <1>3, <2>2 DEF ProcType
  <2> HIDE DEF x
  <2>4. SamePasses /\ p = Reconciler /\ pass.phase = "transfers"
    BY <2>1 DEF SamePasses, SamePass, SerialInv, Roles
  <2> QED
    BY <1>3, <1>4, <2>1, <2>3, <2>4
<1>7. ASSUME FindTransfer(p) PROVE Roles' /\ \A e \in Charges : Serial(e)'
  <2>1. proc[p].pc = "find" /\ UNCHANGED pass
    BY <1>7 DEF FindTransfer
  <2>2. SamePasses /\ p = Reconciler /\ pass.phase = "transfers"
    BY <2>1 DEF SamePasses, SamePass, SerialInv, Roles
  <2>3. ASSUME Done(p) PROVE Roles' /\ \A e \in Charges : Serial(e)'
    <3>1. PICK x \in ProcType : Go(p, x) /\ x.pc \in {"rest", "over"}
      BY <2>3, DoneFields
    <3> QED
      BY <1>3, <1>4, <2>1, <2>2, <3>1
  <2>4. ASSUME NEW c \in Charges, charge[c].status = "fulfilled", Operation[c] = "transfer", Go(p, At("refund", c))
        PROVE  Roles' /\ \A e \in Charges : Serial(e)'
    <3>1. "refund" \in Pcs /\ "refund" \in ChargePcs
      BY PcsAre
    <3>2. At("refund", c) \in ProcType /\ At("refund", c).pc = "refund" /\ At("refund", c).on = c
      BY <3>1, AtTyped
    <3> DEFINE x == At("refund", c)
    <3>3. x \in ProcType /\ x.pc = "refund" /\ x.on = c /\ Go(Reconciler, x)
      BY <2>2, <2>4, <3>2
    <3> HIDE DEF x
    <3>4. ASSUME NEW w \in Webhooks, On(w, c) PROVE proc[w].pc = "claim"
      <4>1. Fits(w, c) /\ w \in Procs /\ proc[w].pc \in ChargePcs
        BY <3>4, ReconcilerIs DEF SerialInv, Serial, AllFit, On
      <4> QED
        BY <2>4, <3>4, <4>1, PcsAre, DomainAssumption DEF Fits, StatusIn, Ordering
    <3>5. "fulfilled" \notin Unpaid /\ "fulfilled" \in StatusIn("refund")
      BY DEF Unpaid, PayableFrom, StatusIn, Ordering
    <3>6. \A e \in Charges : Serial(e)'
      BY <1>1, <2>1, <2>2, <2>4, <3>3, <3>4, <3>5, SetOffSerial
    <3>7. proc'[p] = x /\ \A q \in Procs \ {p} : proc'[q] = proc[q]
      BY <1>0, <2>2, <3>3, GoFields
    <3>8. Roles'
      BY <2>1, <3>3, <3>7 DEF SerialInv, Roles
    <3> QED
      BY <3>6, <3>8
  <2>5. Done(p) \/ \E c \in Charges : /\ charge[c].status = "fulfilled" /\ Operation[c] = "transfer"
                                      /\ Go(p, At("refund", c))
    BY <1>7 DEF FindTransfer, With
  <2> QED
    BY <2>3, <2>4, <2>5
<1> QED
  BY <1>5, <1>6, <1>7

LEMMA TakeUpSerial ==
    ASSUME NoAdmins, SerialInv, NEW c \in Charges, ReconcilePaid(c) \/ ReconcileStuck(c)
    PROVE  Roles' /\ \A e \in Charges : Serial(e)'
<1>0. TypeOK /\ Reconciler \in Procs /\ Serial(c)
  BY ReconcilerIs DEF SerialInv, ActiveInv
<1>1. /\ UNCHANGED buy /\ UNCHANGED checkout /\ UNCHANGED charge /\ UNCHANGED idle /\ UNCHANGED day
      /\ UNCHANGED refunded /\ UNCHANGED placed /\ UNCHANGED owned /\ UNCHANGED faults
      /\ c \in pass.todo /\ proc[Reconciler] = Rest /\ pass' = [pass EXCEPT !.todo = @ \ {c}]
      /\ pass.phase \in {"paid", "stuck"}
  BY DEF ReconcilePaid, ReconcileStuck, Take, outside
<1>2. /\ pass'.phase = pass.phase /\ pass'.late = pass.late /\ c \notin pass'.todo
      /\ \A e \in Charges \ {c} : e \in pass'.todo => e \in pass.todo
  BY <1>0, <1>1 DEF TypeOK
<1>3. proc[Reconciler].pc = "rest" /\ Listed(c)
  BY <1>1, RestTyped DEF Listed
<1>4. {"claim", "giveUp", "stuck"} \subseteq ChargePcs
  BY PcsAre
<1>5. charge[c].status \notin Unpaid /\ charge[c].status \in ChargeStatuses
  BY <1>0, <1>3 DEF Serial, Untouched, TypeOK
<1>6. LeftAlone(c) => \A w \in Webhooks : ~On(w, c)
  BY <1>0 DEF Serial, Alone
<1>7. \E x \in ProcType : /\ Go(Reconciler, x) /\ x.on = c /\ x.pc \in {"claim", "giveUp", "stuck"}
                          /\ charge[c].status \in StatusIn(x.pc)
                          /\ x.pc # "claim" => LeftAlone(c)
  <2>1. CASE ReconcilePaid(c)
    <3> DEFINE pc == IF c \in pass.late THEN "giveUp" ELSE "claim"
               x  == At(pc, c)
    <3>1. Go(Reconciler, x) /\ pass.phase = "paid"
      BY <2>1 DEF ReconcilePaid
    <3>2. pc = "giveUp" => charge[c].status = "paid" /\ LeftAlone(c)
      BY <1>0, <1>1, <3>1 DEF Serial, Lists, LeftAlone
    <3>3. pc \in {"claim", "giveUp"} /\ pc \in Pcs
      BY PcsAre
    <3> HIDE DEF pc
    <3>4. x \in ProcType /\ x.on = c /\ x.pc = pc
      BY <3>3, AtTyped
    <3>5. charge[c].status \in StatusIn(pc)
      BY <1>5, <3>2, <3>3 DEF StatusIn, Ordering
    <3> HIDE DEF x
    <3> QED
      BY <3>1, <3>2, <3>3, <3>4, <3>5
  <2>2. CASE ReconcileStuck(c)
    <3> DEFINE x == [At("stuck", c) EXCEPT !.caught = TRUE]
    <3>1. Go(Reconciler, x) /\ pass.phase = "stuck"
      BY <2>2 DEF ReconcileStuck
    <3>2. At("stuck", c) \in ProcType /\ At("stuck", c).on = c /\ At("stuck", c).pc = "stuck"
      <4>1. "stuck" \in Pcs
        BY PcsAre
      <4> QED
        BY <4>1, AtTyped
    <3> HIDE DEF At
    <3>3. x \in ProcType /\ x.on = c /\ x.pc = "stuck"
      BY <3>2 DEF ProcType
    <3>4. charge[c].status = "fulfilling" /\ LeftAlone(c)
      BY <1>0, <1>1, <3>1 DEF Serial, Lists, LeftAlone
    <3>5. "fulfilling" \in StatusIn("stuck")
      BY DEF StatusIn, Ordering
    <3> HIDE DEF x
    <3> QED
      BY <3>1, <3>3, <3>4, <3>5
  <2> QED
    BY <2>1, <2>2
<1>8. PICK x \in ProcType : /\ Go(Reconciler, x) /\ x.on = c /\ x.pc \in {"claim", "giveUp", "stuck"}
                            /\ charge[c].status \in StatusIn(x.pc)
                            /\ x.pc # "claim" => LeftAlone(c)
  BY <1>7
<1>9. \A e \in Charges : Serial(e)'
  BY <1>1, <1>2, <1>3, <1>5, <1>6, <1>8, SetOffSerial
<1>10. proc'[Reconciler] = x /\ \A q \in Procs \ {Reconciler} : proc'[q] = proc[q]
  BY <1>0, <1>8, GoFields
<1>11. Roles'
  BY <1>2, <1>8, <1>10 DEF SerialInv, Roles
<1> QED
  BY <1>9, <1>11

LEMMA PassSerial ==
    ASSUME SerialInv, BeginPass \/ ListStuck \/ ListTransfers \/ EndPass
    PROVE  Roles' /\ \A e \in Charges : Serial(e)'
<1>0. TypeOK
  BY DEF SerialInv, ActiveInv
<1>1. /\ UNCHANGED buy /\ UNCHANGED checkout /\ UNCHANGED proc /\ UNCHANGED day
      /\ UNCHANGED refunded /\ UNCHANGED placed /\ UNCHANGED owned /\ UNCHANGED faults
      /\ proc[Reconciler] = Rest
  BY DEF BeginPass, ListStuck, ListTransfers, EndPass, Between, outside
<1>2. proc[Reconciler].pc = "rest"
  BY <1>1, RestTyped
<1>3. Roles'
  BY <1>1, <1>2 DEF SerialInv, Roles
<1>4. ASSUME BeginPass, NEW c \in Charges PROVE Serial(c)'
  <2>1. PICK old \in SUBSET {e \in With("pending_payment") : checkout[e] # "open"} :
          /\ charge' = [e \in Charges |-> IF e \in old THEN [charge[e] EXCEPT !.status = "expired", !.data = FALSE]
                                          ELSE charge[e]]
          /\ idle' = [e \in Charges |-> idle[e] /\ e \notin old]
    BY <1>4 DEF BeginPass
  <2>2. /\ pass'.phase = "paid" /\ (c \in pass'.todo => charge[c].status = "paid")
        /\ c \in pass'.late => charge[c].status = "paid" /\ day[c]
    <3>1. PICK some \in Batches(With("paid")) : List("paid", some, {e \in some : day[e]})
      BY <1>4 DEF BeginPass
    <3>2. some \subseteq With("paid")
      BY BatchOf
    <3> QED
      BY <3>1, <3>2 DEF List, With
  <2>3. CASE c \in old
    <3>1. charge[c].status = "pending_payment" /\ charge[c] \in RowType
      BY <1>0, <2>1, <2>3 DEF With, TypeOK, RowType
    <3>2. ~charge[c].refund /\ buy[c] \notin {"new", "create", "hold", "charge"}
      BY <3>1 DEF SerialInv, Serial, Money, Buying
    <3>3. charge'[c].status = "expired" /\ charge'[c].refund = charge[c].refund
      BY <2>1, <2>3, <3>1 DEF RowType
    <3>4. idle'[c] => idle[c]
      BY <2>1
    <3> QED
      BY <1>1, <1>2, <2>2, <3>1, <3>2, <3>3, <3>4, ListSerial DEF Unpaid, PayableFrom
  <2>4. CASE c \notin old
    <3>1. charge'[c] = charge[c] /\ (idle'[c] => idle[c])
      BY <2>1, <2>4
    <3> QED
      BY <1>1, <1>2, <2>2, <3>1, ListSerial
  <2> QED
    BY <2>3, <2>4
<1>5. ASSUME ListStuck \/ ListTransfers \/ EndPass, NEW c \in Charges PROVE Serial(c)'
  <2>1. UNCHANGED charge /\ UNCHANGED idle
    BY <1>5 DEF ListStuck, ListTransfers, EndPass
  <2>2. /\ pass'.phase # "paid" /\ c \notin pass'.late
        /\ pass'.phase = "stuck" /\ c \in pass'.todo => charge[c].status = "fulfilling" /\ idle[c]
    <3>1. CASE ListStuck
      <4>1. PICK some \in Batches({e \in With("fulfilling") : idle[e]}) : List("stuck", some, {})
        BY <3>1 DEF ListStuck
      <4>2. \A e \in some : charge[e].status = "fulfilling" /\ idle[e]
        BY BatchOf DEF With
      <4>3. pass'.phase = "stuck" /\ pass'.todo = some /\ pass'.late = {}
        BY <4>1 DEF List
      <4> QED
        BY <4>2, <4>3
    <3>2. CASE ListTransfers \/ EndPass
      <4>1. (\E some : List("transfers", some, {})) \/ pass' = NoPass
        BY <3>2 DEF ListTransfers, EndPass
      <4> QED
        BY <4>1 DEF List, NoPass
    <3> QED
      BY <1>5, <3>1, <3>2
  <2> QED
    BY <1>1, <1>2, <2>1, <2>2, ListSerial
<1> QED
  BY <1>3, <1>4, <1>5

LEMMA SerialStep ==
    ASSUME NoAdmins, SerialInv, [Next]_vars
    PROVE  SerialInv'
<1>0. TypeOK /\ ActiveInv' /\ \A d \in Domains : owned[d] => owned'[d]
  BY ActiveStep, OwnedGrows DEF SerialInv, ActiveInv
<1>1. ASSUME NEW p \in Procs, Step(p) \/ OrderAnswerLost(p) \/ RefundAnswerLost(p) \/ DatabaseFails(p) \/ Crash(p)
      PROVE  Roles' /\ \A c \in Charges : Serial(c)'
  <2>1. ~Reset(p)
    <3>1. SUFFICES ASSUME Reset(p) PROVE FALSE
      OBVIOUS
    <3>2. proc[p].pc = "reset" /\ proc[p].pc \in ChargePcs
      BY <3>1, PcsAre DEF Reset
    <3>3. On(p, proc[p].on) /\ proc[p].on \in Charges
      BY <3>2, OnCharge DEF SerialInv, On
    <3> QED
      BY <3>2, <3>3 DEF SerialInv, Serial, AllFit, Fits
  <2>2. HolderStep(p) => Roles' /\ \A c \in Charges : Serial(c)'
    BY <1>0, HolderTurns
  <2>3. \/ Claim(p) /\ charge[proc[p].on].status # "paid"
        \/ Dns(p) \/ Release(p) \/ NoteStuck(p) \/ TransferArrived(p) \/ Crash(p)
        => Roles' /\ \A c \in Charges : Serial(c)'
    BY LeaveSerial
  <2>4. TransferDied(p) \/ FindTransfer(p) => Roles' /\ \A c \in Charges : Serial(c)'
    BY TransferSerial
  <2> QED
    BY <1>1, <2>1, <2>2, <2>3, <2>4 DEF Step, HolderStep
<1>2. ASSUME NEW c \in Charges, \/ CheckoutStep(c) \/ CheckoutExpired(c) \/ SessionEnds(c)
                                \/ HalfHourPasses(c) \/ DayPasses(c)
      PROVE  Roles' /\ \A e \in Charges : Serial(e)'
  BY <1>2, CheckoutSerial, ClockSerial DEF SerialInv
<1>3. ASSUME NEW c \in Charges, NEW w \in Webhooks, RecordPayment(w, c)
      PROVE  Roles' /\ \A e \in Charges : Serial(e)'
  BY <1>3, WebhookSerial
<1>4. ASSUME PassStep PROVE Roles' /\ \A e \in Charges : Serial(e)'
  <2>1. ASSUME NEW d \in Domains, ReconcileTransfer(d) PROVE Roles' /\ \A e \in Charges : Serial(e)'
    BY <2>1, TransferSerial, ReconcilerIs
  <2>2. ASSUME NEW c \in Charges, ReconcilePaid(c) \/ ReconcileStuck(c)
        PROVE  Roles' /\ \A e \in Charges : Serial(e)'
    BY <2>2, TakeUpSerial
  <2> QED
    BY <1>4, <2>1, <2>2, PassSerial DEF PassStep
<1>5. ASSUME UNCHANGED vars \/ \E d \in Domains : TransferEnds(d) PROVE Roles' /\ \A e \in Charges : Serial(e)'
  <2>1. DomainOf \in [Charges -> Domains]
    BY DomainAssumption
  <2>2. /\ UNCHANGED proc /\ UNCHANGED pass /\ UNCHANGED buy /\ UNCHANGED checkout /\ UNCHANGED charge
        /\ UNCHANGED idle /\ UNCHANGED day /\ UNCHANGED refunded /\ UNCHANGED placed /\ UNCHANGED faults
    BY <1>5 DEF vars, outside, TransferEnds
  <2>3. \A c \in Charges : SameRow(c) /\ SameHandlers(c) /\ SamePass(c)
    BY <1>0, <2>1, <2>2 DEF SameRow, SameHandlers, SamePass
  <2>4. Roles'
    BY <2>2 DEF SerialInv, Roles
  <2> QED
    BY <2>3, <2>4, Elsewhere DEF SerialInv
<1>6. Roles' /\ \A c \in Charges : Serial(c)'
  BY <1>1, <1>2, <1>3, <1>4, <1>5 DEF Next, NoAdmins
<1> QED
  BY <1>0, <1>6 DEF SerialInv

LEMMA SerialInit ==
    ASSUME Init
    PROVE  SerialInv
<1>1. Rest \in ProcType /\ Rest.pc = "rest" /\ "rest" \notin ChargePcs
  BY RestTyped, PcsAre
<1>2. \A p \in Procs : proc[p].pc = "rest"
  BY <1>1 DEF Init
<1>3. \A p \in Procs, c \in Charges : ~On(p, c)
  BY <1>1, <1>2 DEF On
<1>4. ASSUME NEW c \in Charges PROVE Serial(c)
  <2>1. Webhooks \subseteq Procs /\ Reconciler \in Procs
    BY ReconcilerIs
  <2>2. charge[c].status = "none" /\ ~charge[c].refund /\ ~Listed(c) /\ ~LeftAlone(c)
    BY DEF Init, Listed, LeftAlone, NoPass
  <2>3. Buying(c) /\ Untouched(c) /\ Kept(c)
    BY <1>3, <2>2 DEF Init, Buying, Untouched, Kept
  <2>4. Alone(c) /\ Lists(c) /\ OneHolds(c) /\ AllFit(c)
    BY <1>3, <2>1, <2>2 DEF Alone, Lists, Listed, LeftAlone, OneHolds, AllFit
  <2>5. Money(c)
    BY <1>3, <2>2 DEF Init, Money, Agrees
  <2> QED
    BY <2>3, <2>4, <2>5 DEF Serial
<1>5. Roles
  BY <1>2 DEF Roles
<1> QED
  BY <1>4, <1>5, ActiveInit DEF SerialInv

LEMMA SerialAlways == NoAdmins => (Spec => []SerialInv)
<1> SUFFICES ASSUME NoAdmins PROVE Spec => []SerialInv
  OBVIOUS
<1>1. Init => SerialInv
  BY SerialInit
<1>2. SerialInv /\ [Next]_vars => SerialInv'
  BY SerialStep
<1> QED
  BY <1>1, <1>2, PTL DEF Spec

\* Without admins, one handler at a time is between the claim of a charge and its end: whatever
\* is delivered again, listed, lost or crashes, two handlers never order for the same charge.
THEOREM OrdersAlone == NoAdmins => (Spec => []OneOrdering)
<1>1. SerialInv => OneOrdering
  <2> SUFFICES ASSUME SerialInv, NEW p \in Procs, NEW q \in Procs, p # q, proc[p].pc \in Ordering,
                      proc[q].pc \in Ordering, proc[p].on = proc[q].on
               PROVE  FALSE
    BY DEF OneOrdering
  <2>1. Ordering \subseteq ChargePcs \ {"claim"}
    BY PcsAre DEF Ordering
  <2>2. proc[p].on \in Charges
    BY <2>1, OnCharge DEF SerialInv
  <2> QED
    BY <2>1, <2>2 DEF SerialInv, Serial, OneHolds, On
<1> QED
  BY <1>1, SerialAlways, PTL

\* Without admins, a charge that says "refunded" was paid back, whatever goes wrong.  Without a crash, one that
\* was paid back says so as soon as the answer is written down, or says "failed" because the answer was lost;
\* and no registration is both ordered and paid back as long as nothing but answers are lost.
THEOREM RefundsHold == NoAdmins => (Spec => []RefundsAgree)
<1>1. SerialInv => RefundsAgree
  <2> SUFFICES ASSUME SerialInv, NEW c \in Charges
               PROVE  /\ charge[c].refund <=> charge[c].status = "refunded"
                      /\ charge[c].refund => refunded[c]
                      /\ "crash" \notin faults /\ ~Writing(c) /\ refunded[c] =>
                            \/ charge[c].status = "refunded"
                            \/ charge[c].status = "failed" /\ "lostRefund" \in faults
                      /\ faults \subseteq OnlyAnswers /\ Operation[c] = "register" => ~(placed[c] > 0 /\ refunded[c])
    BY DEF RefundsAgree, OnlyAnswers
  <2>1. Money(c) /\ Kept(c)
    BY DEF SerialInv, Serial
  <2>2. ~Writing(c) => ~\E p \in Procs : On(p, c) /\ proc[p].pc = "record"
    BY DEF Writing, On
  <2> QED
    BY <2>1, <2>2 DEF Money, Agrees, Kept
<1> QED
  BY <1>1, SerialAlways, PTL

-----------------------------------------------------------------------------
(* What was completed. Here a domain has one charge: of two paid charges for the *)
(* same name the second finds the domain registered and is completed as well,    *)
(* and of two transfers the second may set a dead one moving again.              *)

OneChargeEach == \A c, e \in Charges : DomainOf[c] = DomainOf[e] => c = e

\* A transfer that was delivered is not ordered again.
PastPcs == {"claim", "mark", "refund", "record", "stuck", "note"}
Past(c) ==
    \/ charge[c].status \in {"fulfilled", "refunded", "failed"}
    \/ charge[c].status = "fulfilling" /\ \A p \in Procs : On(p, c) => proc[p].pc \in PastPcs

Delivered(c) == Operation[c] = "transfer" /\ Past(c)

\* Only a transfer that was delivered shows as pending, is listed as such or found dead.
ShownTransfer(c) ==
    /\ domain[DomainOf[c]] = "transfer_pending" => Delivered(c)
    /\ pass.phase = "transfers" /\ DomainOf[c] \in pass.todo => Delivered(c)
    /\ \A p \in Procs : proc[p].pc \in {"died", "find"} /\ proc[p].on = DomainOf[c]
                          => Delivered(c) /\ transfer[DomainOf[c]] = "dead"
    /\ transfer[DomainOf[c]] # "none" => Operation[c] = "transfer"

\* Why a completed charge may be refunded.
MayUndo(c) == "dbError" \in faults \/ (Operation[c] = "transfer" /\ transfer[DomainOf[c]] = "dead")

\* What a handler that delivers, completes or refunds knows.
Knows(p, c) ==
    /\ proc[p].after # "transfer_pending"
    /\ proc[p].pc = "ask" => Operation[c] = "register"
    /\ proc[p].pc \in {"deliver", "mark"} => placed[c] > 0
    /\ proc[p].pc = "mark" /\ Operation[c] = "register" => domain[DomainOf[c]] = "active"
    /\ proc[p].pc \in {"refund", "record"} /\ charge[c].status = "fulfilled" => MayUndo(c)

Real(c) ==
    /\ ShownTransfer(c)
    /\ \A p \in Procs : On(p, c) => Knows(p, c)
    /\ charge[c].status = "fulfilled" =>
          placed[c] > 0 /\ (Operation[c] = "register" => domain[DomainOf[c]] = "active")
    /\ Operation[c] = "register" /\ buy[c] # "new" /\ owned[DomainOf[c]] => placed[c] > 0

RealInv == SerialInv /\ \A c \in Charges : Real(c)

\* A completed or refunded charge is undone for these reasons only.
Stays(c) ==
    \/ charge[c].status \notin {"fulfilled", "refunded"} \/ charge'[c].status = charge[c].status
    \/ charge[c].status = "fulfilled" /\ MayUndo(c)

\* A charge no handler takes a step on: it is bought, expires, is paid, is taken up or left alone.
BesideCharge(c) ==
    /\ charge'[c].status = charge[c].status \/ (charge[c].status \in Unpaid /\ charge'[c].status # "fulfilled")
    /\ placed'[c] = placed[c] /\ faults \subseteq faults'
    /\ buy'[c] # "new" => (buy[c] # "new" \/ Operation[c] # "register" \/ ~owned'[DomainOf[c]])
    /\ \A p \in Procs : On(p, c)' =>
          \/ proc'[p] = proc[p]
          \/ /\ proc'[p].after # "transfer_pending"
             /\ \/ proc'[p].pc \in {"claim", "stuck"} \/ (proc'[p].pc = "giveUp" /\ charge[c].status # "fulfilling")
                \/ proc'[p].pc = "refund" /\ MayUndo(c)

\* Its domain, which may be listed, looked up, released, or transferred.
BesideDomain(c) ==
    LET d == DomainOf[c] IN
    /\ \/ domain'[d] = domain[d]
       \/ /\ domain'[d] # "transfer_pending"
          /\ \/ domain'[d] = "active" \/ Operation[c] # "register"
             \/ charge[c].status # "fulfilled" /\ \A p \in Procs : On(p, c) => proc[p].pc # "mark"
    /\ transfer[d] = "moving" \/ (owned'[d] = owned[d] /\ transfer'[d] = transfer[d])
    /\ pass'.phase = "transfers" /\ d \in pass'.todo =>
          (domain[d] = "transfer_pending" \/ (pass.phase = "transfers" /\ d \in pass.todo))
    /\ \A p \in Procs : proc'[p].pc \in {"died", "find"} /\ proc'[p].on = d =>
          \/ proc[p].pc \in {"died", "find"} /\ proc[p].on = d
          \/ pass.phase = "transfers" /\ d \in pass.todo /\ transfer[d] = "dead"

LEMMA RealElsewhere ==
    ASSUME NEW c \in Charges, Real(c), BesideCharge(c), BesideDomain(c)
    PROVE  Real(c)' /\ Stays(c)
<1> DEFINE d == DomainOf[c]
<1>1. \A p \in Procs : On(p, c)' =>
        (\/ On(p, c) /\ proc'[p] = proc[p]
         \/ /\ proc'[p].after # "transfer_pending"
            /\ \/ proc'[p].pc \in {"claim", "stuck"} \/ (proc'[p].pc = "giveUp" /\ charge[c].status # "fulfilling")
               \/ proc'[p].pc = "refund" /\ MayUndo(c))
  BY DEF On, BesideCharge
<1>2. Delivered(c) => Delivered(c)'
  <2>1. charge[c].status \in Unpaid => ~Past(c)
    BY DEF Past, Unpaid, PayableFrom
  <2>2. Past(c) => Past(c)'
    BY <1>1, <2>1 DEF Past, BesideCharge, PastPcs
  <2> QED
    BY <2>2 DEF Delivered
<1>3. /\ transfer[d] = "moving" => Operation[c] = "transfer"
      /\ \A p \in Procs : proc[p].pc \in {"died", "find"} /\ proc[p].on = d => Delivered(c) /\ transfer[d] = "dead"
  BY DEF Real, ShownTransfer
<1>4. ShownTransfer(c)'
  <2>1. domain'[d] = "transfer_pending" => Delivered(c)'
    BY <1>2 DEF Real, ShownTransfer, BesideDomain
  <2>2. pass'.phase = "transfers" /\ d \in pass'.todo => Delivered(c)'
    BY <1>2 DEF Real, ShownTransfer, BesideDomain
  <2>3. ASSUME NEW p \in Procs, proc'[p].pc \in {"died", "find"}, proc'[p].on = d
        PROVE  Delivered(c)' /\ transfer'[d] = "dead"
    <3>1. Delivered(c) /\ transfer[d] = "dead"
      BY <1>3, <2>3 DEF BesideDomain, Real, ShownTransfer
    <3> QED
      BY <1>2, <3>1 DEF BesideDomain
  <2>4. transfer'[d] # "none" => Operation[c] = "transfer"
    BY <1>3 DEF BesideDomain, Real, ShownTransfer
  <2> QED
    BY <2>1, <2>2, <2>3, <2>4 DEF ShownTransfer
<1>5. MayUndo(c) => MayUndo(c)'
  BY DEF MayUndo, BesideDomain, BesideCharge
<1>6. ASSUME NEW p \in Procs, On(p, c)' PROVE Knows(p, c)'
  <2>1. CASE On(p, c) /\ proc'[p] = proc[p]
    <3>1. Knows(p, c)
      BY <2>1 DEF Real
    <3>2. proc[p].pc = "mark" /\ Operation[c] = "register" => domain'[d] = "active"
      BY <2>1, <3>1 DEF Knows, BesideDomain
    <3> QED
      BY <1>5, <2>1, <3>1, <3>2 DEF Knows, BesideCharge
  <2>2. CASE proc'[p].after # "transfer_pending" /\ proc'[p].pc \in {"claim", "stuck", "giveUp"}
    BY <2>2 DEF Knows
  <2>3. CASE proc'[p].after # "transfer_pending" /\ proc'[p].pc = "refund" /\ MayUndo(c)
    BY <1>5, <2>3 DEF Knows
  <2> QED
    BY <1>1, <1>6, <2>1, <2>2, <2>3
<1>7. charge'[c].status = "fulfilled" => placed'[c] > 0 /\ (Operation[c] = "register" => domain'[d] = "active")
  BY DEF Real, BesideCharge, BesideDomain
<1>8. Operation[c] = "register" /\ buy'[c] # "new" /\ owned'[d] => placed'[c] > 0
  BY <1>3 DEF Real, BesideCharge, BesideDomain
<1>9. Stays(c)
  BY DEF Stays, BesideCharge, Unpaid, PayableFrom
<1> QED
  BY <1>4, <1>6, <1>7, <1>8, <1>9 DEF Real

\* A handler goes on to x, or is done, and what it did to its charge and domain is real.
RealTurns(p, c, x) ==
    /\ Go(p, x) /\ UNCHANGED pass /\ UNCHANGED buy /\ faults \subseteq faults'
    /\ x.pc \in {"rest", "over"} \/ (x.on = c /\ x.pc \in ChargePcs)
    /\ Delivered(c) =>
          \/ charge'[c].status \in {"fulfilled", "refunded", "failed"}
          \/ charge'[c].status = "fulfilling" /\ x.pc \in PastPcs \cup {"rest", "over"}
    /\ domain'[DomainOf[c]] = "transfer_pending" =>
          \/ domain[DomainOf[c]] = "transfer_pending"
          \/ Operation[c] = "transfer" /\ charge'[c].status = "fulfilling" /\ x.pc = "mark"
    /\ transfer'[DomainOf[c]] # transfer[DomainOf[c]] => Operation[c] = "transfer" /\ ~Delivered(c)
    /\ x.pc \in ChargePcs =>
          /\ x.after # "transfer_pending"
          /\ x.pc = "ask" => Operation[c] = "register"
          /\ x.pc \in {"deliver", "mark"} => placed'[c] > 0
          /\ x.pc = "mark" /\ Operation[c] = "register" => domain'[DomainOf[c]] = "active"
          /\ x.pc \in {"refund", "record"} /\ charge'[c].status = "fulfilled" => MayUndo(c)'
    /\ charge'[c].status = "fulfilled" =>
          placed'[c] > 0 /\ (Operation[c] = "register" => domain'[DomainOf[c]] = "active")
    /\ Operation[c] = "register" /\ owned'[DomainOf[c]] => placed'[c] > 0
    /\ Stays(c)

LEMMA RealTurnKeeps ==
    ASSUME TypeOK, NEW c \in Charges, Real(c), NEW p \in Procs, On(p, c),
           \A q \in Procs \ {p} : On(q, c) => proc[q].pc = "claim",
           NEW x \in ProcType, RealTurns(p, c, x)
    PROVE  Real(c)' /\ Stays(c)
<1> DEFINE d == DomainOf[c]
<1>1. proc'[p] = x /\ \A q \in Procs \ {p} : proc'[q] = proc[q]
  BY GoFields DEF RealTurns
<1>2. \A q \in Procs \ {p} : On(q, c)' => On(q, c) /\ proc'[q].pc = "claim"
  BY <1>1 DEF On
<1>3. On(p, c)' => x.pc \in ChargePcs /\ proc'[p] = x
  BY <1>1 DEF On
<1>4. Delivered(c) => Delivered(c)'
  <2>1. "rest" \notin ChargePcs /\ "over" \notin ChargePcs /\ "claim" \in PastPcs
    BY PcsAre DEF PastPcs
  <2> QED
    BY <1>2, <1>3, <2>1 DEF Past, Delivered, RealTurns
<1>5. Operation[c] = "transfer" /\ charge'[c].status = "fulfilling" /\ x.pc = "mark" => Delivered(c)'
  BY <1>2, <1>3 DEF Past, PastPcs, Delivered
<1>6. ShownTransfer(c)'
  <2>1. domain'[d] = "transfer_pending" => Delivered(c)'
    BY <1>4, <1>5 DEF RealTurns, Real, ShownTransfer
  <2>2. pass'.phase = "transfers" /\ d \in pass'.todo => Delivered(c)'
    BY <1>4 DEF RealTurns, Real, ShownTransfer
  <2>3. ASSUME NEW q \in Procs, proc'[q].pc \in {"died", "find"}, proc'[q].on = d
        PROVE  Delivered(c)' /\ transfer'[d] = "dead"
    <3>1. x.pc \notin {"died", "find"}
      BY PcsAre DEF RealTurns
    <3>2. proc'[q] = proc[q]
      BY <1>1, <2>3, <3>1
    <3>3. Delivered(c) /\ transfer[d] = "dead"
      BY <2>3, <3>2 DEF Real, ShownTransfer
    <3> QED
      BY <1>4, <3>3 DEF RealTurns
  <2>4. transfer'[d] # "none" => Operation[c] = "transfer"
    BY DEF RealTurns, Real, ShownTransfer
  <2> QED
    BY <2>1, <2>2, <2>3, <2>4 DEF ShownTransfer
<1>7. ASSUME NEW q \in Procs, On(q, c)' PROVE Knows(q, c)'
  <2>1. CASE q = p
    BY <1>3, <1>7, <2>1 DEF Knows, RealTurns
  <2>2. CASE q # p
    <3>1. On(q, c) /\ proc'[q] = proc[q] /\ proc[q].pc = "claim"
      BY <1>1, <1>2, <1>7, <2>2
    <3>2. proc[q].after # "transfer_pending"
      BY <3>1 DEF Real, Knows
    <3> QED
      BY <3>1, <3>2 DEF Knows
  <2> QED
    BY <2>1, <2>2
<1> QED
  BY <1>6, <1>7 DEF Real, RealTurns

\* What a handler on a charge has to go by for this.
RealReady(p, c) == Ready(p, c) /\ Real(c) /\ On(p, c) /\ buy[c] # "new"
RealTurn(p, c)  == \E x \in ProcType : RealTurns(p, c, x)

\* What that says, in one place.
LEMMA Known ==
    ASSUME NEW p \in Procs, NEW c, RealReady(p, c)
    PROVE  /\ Knows(p, c) /\ proc[p] \in ProcType /\ proc[p].on = c /\ Fits(p, c) /\ c \in Charges
           /\ domain[DomainOf[c]] = "transfer_pending" => Delivered(c)
           /\ charge[c].status = "fulfilled" =>
                 placed[c] > 0 /\ (Operation[c] = "register" => domain[DomainOf[c]] = "active")
           /\ Operation[c] = "register" /\ owned[DomainOf[c]] => placed[c] > 0
  BY DEF RealReady, Ready, Real, ShownTransfer

\* Before an order has been delivered, its transfer is not either.
LEMMA NotYet ==
    ASSUME NEW p \in Procs, NEW c, RealReady(p, c),
           proc[p].pc \in {"prepare", "order", "ask", "deliver", "requeue", "giveUp"}
           \/ (proc[p].pc = "claim" /\ charge[c].status = "paid")
    PROVE  ~Delivered(c)
<1>1. charge[c].status \in {"paid", "fulfilling"} /\ (charge[c].status = "fulfilling" => proc[p].pc \notin PastPcs)
  BY Known DEF Fits, StatusIn, Ordering, PastPcs
<1> QED
  BY <1>1 DEF Delivered, Past, RealReady

LEMMA RealClaim ==
    ASSUME NEW p \in Procs, NEW c, RealReady(p, c), Claim(p), charge[c].status = "paid"
    PROVE  RealTurn(p, c)
<1> DEFINE x == [proc[p] EXCEPT !.pc = "prepare"]
<1>1. /\ Go(p, x) /\ SetStatus(c, "fulfilling") /\ proc[p].pc = "claim" /\ UNCHANGED buy /\ UNCHANGED pass
      /\ UNCHANGED domain /\ UNCHANGED placed /\ UNCHANGED owned /\ UNCHANGED transfer /\ UNCHANGED faults
  BY Known DEF Claim, Goto, outside
<1>2. "prepare" \in Pcs /\ "prepare" \in ChargePcs
  BY PcsAre
<1>3. x \in ProcType /\ x.pc = "prepare" /\ x.on = c /\ x.after = proc[p].after
  BY <1>2, Known DEF ProcType
<1>4. charge'[c].status = "fulfilling"
  BY <1>1, StatusWritten DEF RealReady, Ready
<1> HIDE DEF x
<1>5. ~Delivered(c)
  BY <1>1, NotYet
<1>6. RealTurns(p, c, x)
  BY <1>1, <1>2, <1>3, <1>4, <1>5, Known DEF RealTurns, Knows, Stays
<1> QED
  BY <1>3, <1>6 DEF RealTurn

\* Steps that write no charge and do not deliver.
LEMMA RealGoes ==
    ASSUME NEW p \in Procs, NEW c, RealReady(p, c), NEW x \in ProcType, Go(p, x), x.on = c, x.pc \in ChargePcs,
           UNCHANGED buy, UNCHANGED pass, UNCHANGED charge, faults \subseteq faults',
           Delivered(c) => x.pc \in PastPcs \/ charge[c].status = "fulfilled",
           domain'[DomainOf[c]] = domain[DomainOf[c]]
              \/ (domain'[DomainOf[c]] # "transfer_pending" /\ charge[c].status # "fulfilled"),
           transfer'[DomainOf[c]] # transfer[DomainOf[c]] => Operation[c] = "transfer" /\ ~Delivered(c),
           x.after # "transfer_pending", x.pc = "ask" => Operation[c] = "register",
           x.pc = "deliver" => placed'[c] > 0, x.pc # "mark",
           x.pc \in {"refund", "record"} /\ charge[c].status = "fulfilled" => MayUndo(c)',
           placed'[c] = placed[c] \/ placed'[c] > 0,
           owned'[DomainOf[c]] = owned[DomainOf[c]] \/ placed'[c] > 0
    PROVE  RealTurn(p, c)
<1>1. Delivered(c) => charge[c].status \in {"fulfilled", "refunded", "failed", "fulfilling"}
  BY DEF Delivered, Past
<1>2. RealTurns(p, c, x)
  BY <1>1, Known DEF RealTurns, Stays
<1> QED
  BY <1>2 DEF RealTurn

LEMMA RealPrepare ==
    ASSUME NEW p \in Procs, NEW c, RealReady(p, c), Prepare(p)
    PROVE  RealTurn(p, c)
<1> DEFINE s == IF Op(p) = "renew" THEN domain[Dom(p)] ELSE "failed"
           b == charge[c].data
           x == [proc[p] EXCEPT !.pc = "order", !.data = b, !.after = s]
<1>1. /\ Go(p, x) /\ proc[p].pc = "prepare" /\ UNCHANGED buy /\ UNCHANGED pass /\ UNCHANGED charge
      /\ UNCHANGED placed /\ UNCHANGED owned /\ UNCHANGED transfer /\ UNCHANGED faults
  BY Known DEF Prepare, outside
<1>2. ~Delivered(c)
  BY <1>1, NotYet
<1>3. s # "transfer_pending" /\ s \in DomainStatuses \cup {"keep"} /\ b \in BOOLEAN
  <2>1. Dom(p) = DomainOf[c] /\ TypeOK /\ Dom(p) \in Domains /\ charge[c] \in RowType
    BY DEF RealReady, Ready
  <2> QED
    BY <1>2, <2>1, Known DEF TypeOK, DomainStatuses, RowType
<1>4. domain'[DomainOf[c]] = domain[DomainOf[c]] \/ domain'[DomainOf[c]] = "registering"
  BY DEF Prepare, Show, RealReady, Ready, TypeOK
<1> HIDE DEF s, b
<1>5. "order" \in ChargePcs /\ "order" \in Pcs
  BY PcsAre
<1>6. x \in ProcType /\ x.pc = "order" /\ x.on = c /\ x.after = s
  BY <1>3, <1>5, Known DEF ProcType
<1>7. charge[c].status # "fulfilled"
  BY <1>1, Known DEF Fits, StatusIn, Ordering
<1> HIDE DEF x
<1> QED
  BY <1>1, <1>2, <1>3, <1>4, <1>5, <1>6, <1>7, RealGoes

LEMMA RealRefused ==
    ASSUME NEW p \in Procs, NEW c, RealReady(p, c), OrderUnreachable(p) \/ OrderRefused(p)
    PROVE  RealTurn(p, c)
<1>1. /\ proc[p].pc = "order" /\ UNCHANGED buy /\ UNCHANGED pass /\ UNCHANGED charge /\ UNCHANGED domain
      /\ UNCHANGED placed /\ UNCHANGED owned /\ UNCHANGED transfer /\ UNCHANGED faults
  BY DEF OrderUnreachable, OrderRefused, outside
<1>2. ~Delivered(c)
  BY <1>1, NotYet
<1>3. charge[c].status # "fulfilled"
  BY <1>1, Known DEF Fits, StatusIn, Ordering
<1>4. PICK pc \in {"ask", "requeue", "refund"} :
          Go(p, [proc[p] EXCEPT !.caught = TRUE, !.pc = pc]) /\ (pc = "ask" => Operation[c] = "register")
  BY DEF OrderUnreachable, OrderRefused, AfterTransient, RealReady, Ready
<1> DEFINE x == [proc[p] EXCEPT !.caught = TRUE, !.pc = pc]
<1>5. pc \in Pcs /\ pc \in ChargePcs
  BY PcsAre
<1>6. x \in ProcType /\ x.pc = pc /\ x.on = c /\ x.after = proc[p].after
  BY <1>5, Known DEF ProcType
<1>7. Go(p, x)
  BY <1>4
<1> HIDE DEF x
<1> QED
  BY <1>1, <1>2, <1>3, <1>4, <1>5, <1>6, <1>7, Known, RealGoes DEF Knows

LEMMA RealPlaced ==
    ASSUME NEW p \in Procs, NEW c, RealReady(p, c), OrderAccepted(p) \/ OrderAnswerLost(p)
    PROVE  RealTurn(p, c)
<1>1. /\ proc[p].pc = "order" /\ UNCHANGED buy /\ UNCHANGED pass /\ UNCHANGED charge /\ UNCHANGED domain
      /\ Place(p) /\ faults \subseteq faults'
  BY DEF OrderAccepted, OrderAnswerLost, Fault
<1>2. ~Delivered(c)
  BY <1>1, NotYet
<1>3. charge[c].status # "fulfilled"
  BY <1>1, Known DEF Fits, StatusIn, Ordering
<1>4. placed'[c] > 0 /\ (transfer' # transfer => Operation[c] = "transfer")
  <2>1. proc[p].on = c /\ Op(p) = Operation[c] /\ placed \in [Charges -> Nat] /\ c \in Charges
    BY DEF RealReady, Ready, TypeOK
  <2>2. placed' = [placed EXCEPT ![c] = @ + 1] /\ (transfer' # transfer => Operation[c] = "transfer")
    BY <1>1, <2>1 DEF Place
  <2> QED
    BY <2>1, <2>2
<1>5. PICK pc \in {"deliver", "ask", "requeue"}, b \in BOOLEAN :
          Go(p, [proc[p] EXCEPT !.caught = b, !.pc = pc]) /\ (pc = "ask" => Operation[c] = "register")
  <2>1. CASE OrderAccepted(p)
    <3>1. [proc[p] EXCEPT !.pc = "deliver"] = [proc[p] EXCEPT !.caught = proc[p].caught, !.pc = "deliver"]
      BY Known DEF ProcType
    <3>2. proc[p].caught \in BOOLEAN
      BY Known DEF ProcType
    <3> QED
      BY <2>1, <3>1, <3>2 DEF OrderAccepted, Goto
  <2>2. CASE OrderAnswerLost(p)
    BY <2>2 DEF OrderAnswerLost, AfterTransient, RealReady, Ready
  <2> QED
    BY <2>1, <2>2
<1> DEFINE x == [proc[p] EXCEPT !.caught = b, !.pc = pc]
<1>6. pc \in Pcs /\ pc \in ChargePcs
  BY PcsAre
<1>7. x \in ProcType /\ x.pc = pc /\ x.on = c /\ x.after = proc[p].after
  BY <1>6, Known DEF ProcType
<1>8. Go(p, x)
  BY <1>5
<1> HIDE DEF x
<1> QED
  BY <1>1, <1>2, <1>3, <1>4, <1>5, <1>6, <1>7, <1>8, Known, RealGoes DEF Knows

LEMMA RealAsk ==
    ASSUME NEW p \in Procs, NEW c, RealReady(p, c), Ask(p) \/ AskStuck(p)
    PROVE  RealTurn(p, c)
<1>1. /\ proc[p].pc \in {"ask", "stuck"} /\ UNCHANGED buy /\ UNCHANGED pass /\ UNCHANGED charge /\ UNCHANGED domain
      /\ UNCHANGED placed /\ UNCHANGED owned /\ UNCHANGED transfer /\ faults \subseteq faults'
  BY DEF Ask, AskStuck, Fault, outside
<1>2. PICK pc \in {"deliver", "requeue", "note"} :
          /\ Goto(p, pc)
          /\ pc = "deliver" => owned[DomainOf[c]]
          /\ Operation[c] # "register" => pc = "note"
  BY Known DEF Ask, AskStuck, Fault, RealReady, Ready, Knows
<1>3. Delivered(c) => pc \in PastPcs
  BY <1>2 DEF Delivered, PastPcs
<1>4. charge[c].status # "fulfilled"
  BY <1>1, Known DEF Fits, StatusIn, Ordering
<1>5. pc = "deliver" => placed[c] > 0
  BY <1>2, Known
<1> DEFINE x == [proc[p] EXCEPT !.pc = pc]
<1>6. pc \in Pcs /\ pc \in ChargePcs
  BY PcsAre
<1>7. x \in ProcType /\ x.pc = pc /\ x.on = c /\ x.after = proc[p].after
  BY <1>6, Known DEF ProcType
<1>8. Go(p, x)
  BY <1>2 DEF Goto
<1> HIDE DEF x
<1> QED
  BY <1>1, <1>2, <1>3, <1>4, <1>5, <1>6, <1>7, <1>8, Known, RealGoes DEF Knows

LEMMA RealDeliver ==
    ASSUME NEW p \in Procs, NEW c, RealReady(p, c), Deliver(p)
    PROVE  RealTurn(p, c)
<1> DEFINE x == [proc[p] EXCEPT !.pc = "mark"]
<1>1. /\ Go(p, x) /\ proc[p].pc = "deliver" /\ UNCHANGED buy /\ UNCHANGED pass /\ UNCHANGED charge
      /\ UNCHANGED placed /\ UNCHANGED owned /\ UNCHANGED transfer /\ UNCHANGED faults
  BY DEF Deliver, Goto, outside
<1>2. ~Delivered(c)
  BY <1>1, NotYet
<1>3. domain'[DomainOf[c]] = IF Operation[c] = "transfer" THEN "transfer_pending" ELSE "active"
  BY DEF Deliver, Show, RealReady, Ready, TypeOK
<1>4. "mark" \in ChargePcs /\ "mark" \in Pcs
  BY PcsAre
<1>5. x \in ProcType /\ x.pc = "mark" /\ x.on = c /\ x.after = proc[p].after
  BY <1>4, Known DEF ProcType
<1>6. charge[c].status = "fulfilling"
  BY <1>1, Known DEF Fits, StatusIn, Ordering
<1> HIDE DEF x
<1>7. RealTurns(p, c, x)
  BY <1>1, <1>2, <1>3, <1>4, <1>5, <1>6, Known DEF RealTurns, Knows, Stays
<1> QED
  BY <1>5, <1>7 DEF RealTurn

LEMMA RealDatabase ==
    ASSUME NEW p \in Procs, NEW c, RealReady(p, c), DatabaseFails(p)
    PROVE  RealTurn(p, c)
<1> DEFINE x == [proc[p] EXCEPT !.caught = TRUE, !.pc = "refund"]
<1>1. /\ Go(p, x) /\ UNCHANGED buy /\ UNCHANGED pass /\ UNCHANGED charge /\ UNCHANGED domain
      /\ UNCHANGED placed /\ UNCHANGED owned /\ UNCHANGED transfer /\ faults \subseteq faults' /\ "dbError" \in faults'
  BY DEF DatabaseFails, Fault, outside
<1>2. "refund" \in ChargePcs /\ "refund" \in Pcs /\ "refund" \in PastPcs
  BY PcsAre DEF PastPcs
<1>3. x \in ProcType /\ x.pc = "refund" /\ x.on = c /\ x.after = proc[p].after
  BY <1>2, Known DEF ProcType
<1>4. MayUndo(c)'
  BY <1>1 DEF MayUndo
<1> HIDE DEF x
<1> QED
  BY <1>1, <1>2, <1>3, <1>4, Known, RealGoes DEF Knows

LEMMA RealRefund ==
    ASSUME NEW p \in Procs, NEW c, RealReady(p, c), Refund(p) \/ RefundAnswerLost(p)
    PROVE  RealTurn(p, c)
<1>1. /\ UNCHANGED buy /\ UNCHANGED pass /\ UNCHANGED charge /\ UNCHANGED domain /\ proc[p].pc = "refund"
      /\ UNCHANGED placed /\ UNCHANGED owned /\ UNCHANGED transfer /\ faults \subseteq faults'
  BY DEF Refund, RefundAnswerLost, Fault, outside
<1>2. PICK good \in BOOLEAN : Go(p, [proc[p] EXCEPT !.pc = "record", !.ok = good])
  BY DEF Refund, RefundAnswerLost
<1> DEFINE x == [proc[p] EXCEPT !.pc = "record", !.ok = good]
<1>3. "record" \in ChargePcs /\ "record" \in Pcs /\ "record" \in PastPcs
  BY PcsAre DEF PastPcs
<1>4. x \in ProcType /\ x.pc = "record" /\ x.on = c /\ x.after = proc[p].after
  BY <1>3, Known DEF ProcType
<1>5. Go(p, x)
  BY <1>2
<1>6. charge[c].status = "fulfilled" => MayUndo(c)'
  BY <1>1, Known DEF Knows, MayUndo
<1> HIDE DEF x
<1> QED
  BY <1>1, <1>3, <1>4, <1>5, <1>6, Known, RealGoes DEF Knows

LEMMA RealMark ==
    ASSUME NEW p \in Procs, NEW c, RealReady(p, c), Mark(p)
    PROVE  RealTurn(p, c)
<1>1. /\ proc[p].pc = "mark" /\ Close(c, "fulfilled") /\ UNCHANGED buy /\ UNCHANGED pass /\ UNCHANGED domain
      /\ UNCHANGED placed /\ UNCHANGED owned /\ UNCHANGED transfer /\ UNCHANGED faults
      /\ Goto(p, "dns") \/ Done(p)
  BY Known DEF Mark, outside
<1>2. charge'[c].status = "fulfilled"
  BY <1>1, StatusWritten DEF RealReady, Ready
<1>3. Stays(c)
  BY <1>1, <1>2 DEF Stays, RealReady, Ready, Fits, StatusIn, Ordering
<1>4. "dns" \in ChargePcs /\ "dns" \in Pcs /\ "rest" \notin ChargePcs /\ "over" \notin ChargePcs
  BY PcsAre
<1>5. \E x \in ProcType : Go(p, x) /\ (x.pc \in {"rest", "over"}
                                       \/ (x.pc = "dns" /\ x.on = c /\ x.after = proc[p].after))
  <2>1. CASE Goto(p, "dns")
    <3> DEFINE x == [proc[p] EXCEPT !.pc = "dns"]
    <3>1. x \in ProcType /\ x.pc = "dns" /\ x.on = c /\ x.after = proc[p].after
      BY <1>4, Known DEF ProcType
    <3>2. Go(p, x)
      BY <2>1 DEF Goto
    <3> HIDE DEF x
    <3> QED
      BY <3>1, <3>2
  <2> QED
    BY <1>1, <2>1, DoneFields
<1>6. PICK x \in ProcType : Go(p, x) /\ (x.pc \in {"rest", "over"}
                                         \/ (x.pc = "dns" /\ x.on = c /\ x.after = proc[p].after))
  BY <1>5
<1>7. charge[c].status = "fulfilling"
  BY <1>1, Known DEF Fits, StatusIn, Ordering
<1>8. RealTurns(p, c, x)
  BY <1>1, <1>2, <1>3, <1>4, <1>6, Known DEF RealTurns, Knows
<1> QED
  BY <1>6, <1>8 DEF RealTurn

LEMMA RealRequeue ==
    ASSUME NEW p \in Procs, NEW c, RealReady(p, c), Requeue(p)
    PROVE  RealTurn(p, c)
<1>1. /\ proc[p].pc = "requeue" /\ SetStatus(c, "paid") /\ UNCHANGED buy /\ UNCHANGED pass /\ UNCHANGED domain
      /\ UNCHANGED placed /\ UNCHANGED owned /\ UNCHANGED transfer /\ UNCHANGED faults /\ Done(p)
  BY Known DEF Requeue, outside
<1>2. charge'[c].status = "paid" /\ charge[c].status = "fulfilling"
  BY <1>1, StatusWritten DEF RealReady, Ready, Fits, StatusIn, Ordering
<1>3. PICK x \in ProcType : Go(p, x) /\ x.pc \in {"rest", "over"}
  BY <1>1, DoneFields
<1>4. "rest" \notin ChargePcs /\ "over" \notin ChargePcs
  BY PcsAre
<1>5. ~Delivered(c)
  BY <1>1, NotYet
<1>6. RealTurns(p, c, x)
  BY <1>1, <1>2, <1>3, <1>4, <1>5, Known DEF RealTurns, Stays
<1> QED
  BY <1>6 DEF RealTurn

LEMMA RealRecord ==
    ASSUME NEW p \in Procs, NEW c, RealReady(p, c), RecordRefund(p)
    PROVE  RealTurn(p, c)
<1> DEFINE s   == IF proc[p].ok THEN "refunded" ELSE "failed"
           row == [charge[c] EXCEPT !.status = s, !.refund = proc[p].ok, !.data = FALSE]
           x   == [proc[p] EXCEPT !.pc = "release"]
<1>1. /\ proc[p].pc = "record" /\ Write(c, row) /\ Go(p, x) /\ UNCHANGED buy /\ UNCHANGED pass /\ UNCHANGED domain
      /\ UNCHANGED placed /\ UNCHANGED owned /\ UNCHANGED transfer /\ UNCHANGED faults
  BY Known DEF RecordRefund, Goto, outside
<1>2. "release" \in ChargePcs /\ "release" \in Pcs
  BY PcsAre
<1>3. x \in ProcType /\ x.pc = "release" /\ x.on = c /\ x.after = proc[p].after
  BY <1>2, Known DEF ProcType
<1>4. s \in {"refunded", "failed"}
  OBVIOUS
<1> HIDE DEF s, x
<1>5. row.status = s
  BY DEF RealReady, Ready, RowType
<1> HIDE DEF row
<1>6. charge'[c].status = s
  BY <1>1, <1>5, Written DEF RealReady, Ready
<1>7. Stays(c)
  BY <1>1, Known DEF Stays, Fits, StatusIn, Ordering, Knows
<1>8. RealTurns(p, c, x)
  BY <1>1, <1>2, <1>3, <1>4, <1>6, <1>7, Known DEF RealTurns, Knows
<1> QED
  BY <1>3, <1>8 DEF RealTurn

LEMMA RealGiveUp ==
    ASSUME NEW p \in Procs, NEW c, RealReady(p, c), GiveUp(p)
    PROVE  RealTurn(p, c)
<1> DEFINE s == IF Op(p) = "renew" THEN "keep" ELSE "failed"
           x == [proc[p] EXCEPT !.pc = "refund", !.after = s]
<1>1. /\ proc[p].pc = "giveUp" /\ SetStatus(c, "fulfilling") /\ Go(p, x) /\ UNCHANGED buy /\ UNCHANGED pass
      /\ UNCHANGED domain /\ UNCHANGED placed /\ UNCHANGED owned /\ UNCHANGED transfer /\ UNCHANGED faults
  BY Known DEF GiveUp, outside
<1>2. "refund" \in ChargePcs /\ "refund" \in Pcs /\ s \in DomainStatuses \cup {"keep"} /\ s # "transfer_pending"
  BY PcsAre DEF DomainStatuses
<1> HIDE DEF s
<1>3. x \in ProcType /\ x.pc = "refund" /\ x.on = c /\ x.after = s
  BY <1>2, Known DEF ProcType
<1> HIDE DEF x
<1>4. charge'[c].status = "fulfilling" /\ charge[c].status = "paid"
  BY <1>1, StatusWritten DEF RealReady, Ready, Fits, StatusIn, Ordering
<1>5. ~Delivered(c)
  BY <1>1, NotYet
<1>6. RealTurns(p, c, x)
  BY <1>1, <1>2, <1>3, <1>4, <1>5, Known DEF RealTurns, Stays
<1> QED
  BY <1>3, <1>6 DEF RealTurn

LEMMA HolderReal ==
    ASSUME NoAdmins, OneChargeEach, RealInv, NEW p \in Procs, HolderStep(p)
    PROVE  \A e \in Charges : Real(e)' /\ Stays(e)
<1>1. proc[p].pc \in ChargePcs /\ (proc[p].pc # "claim" \/ charge[proc[p].on].status = "paid")
  BY PcsAre DEF HolderStep, Prepare, OrderAccepted, OrderAnswerLost, OrderUnreachable, OrderRefused, Ask, AskStuck,
                Deliver, Mark, DatabaseFails, Requeue, Refund, RefundAnswerLost, RecordRefund, GiveUp, Claim
<1>2. PICK c : c = proc[p].on
  OBVIOUS
<1>3. Ready(p, c)
  BY <1>1, <1>2, IsReady DEF RealInv
<1>4. c \in Charges /\ On(p, c) /\ TypeOK /\ Serial(c)
  BY <1>3 DEF Ready, On, RealInv, SerialInv
<1>5. RealReady(p, c)
  <2>1. buy[c] # "new"
    BY <1>3, <1>4 DEF Ready, Serial, Buying, Unpaid
  <2> QED
    BY <1>3, <1>4, <2>1 DEF RealReady, RealInv
<1>6. RealTurn(p, c)
  BY <1>2, <1>5, RealClaim, RealPrepare, RealRefused, RealPlaced, RealAsk, RealDeliver, RealMark, RealDatabase,
     RealRequeue, RealRefund, RealRecord, RealGiveUp DEF HolderStep
<1>7. Turn(p, c)
  BY <1>2, <1>3, ClaimTurns, OrderTurns, AskTurns, DeliverTurns, DatabaseTurns, PlaceTurns, MarkTurns, RequeueTurns,
     RefundTurns, RecordTurns, GiveUpTurns DEF HolderStep
<1>8. PICK x \in ProcType : RealTurns(p, c, x)
  BY <1>6 DEF RealTurn
<1>9. Real(c)' /\ Stays(c)
  <2>1. \A q \in Procs \ {p} : On(q, c) => proc[q].pc = "claim"
    BY <1>1, <1>2, <1>4, Holds
  <2> QED
    BY <1>4, <1>8, <2>1, RealTurnKeeps DEF RealInv
<1>10. \A d \in Domains \ {DomainOf[c]} : domain'[d] = domain[d] /\ owned'[d] = owned[d] /\ transfer'[d] = transfer[d]
  <2>1. Dom(p) = DomainOf[c] /\ proc[p].on = c
    BY <1>3 DEF Ready
  <2>2. /\ UNCHANGED domain \/ \E s : Show(DomainOf[c], s)
        /\ (UNCHANGED owned /\ UNCHANGED transfer) \/ Place(p)
    BY <2>1 DEF HolderStep, Prepare, OrderAccepted, OrderAnswerLost, OrderUnreachable, OrderRefused, Ask, AskStuck,
                Deliver, Mark, DatabaseFails, Requeue, Refund, RefundAnswerLost, RecordRefund, GiveUp, Claim, outside
  <2>3. domain \in [Domains -> DomainStatuses] /\ owned \in [Domains -> BOOLEAN]
        /\ transfer \in [Domains -> {"none", "moving", "dead"}]
    BY <1>4 DEF TypeOK
  <2>4. \A d \in Domains \ {DomainOf[c]} : domain'[d] = domain[d]
    BY <2>2, <2>3 DEF Show
  <2>5. \A d \in Domains \ {DomainOf[c]} : owned'[d] = owned[d] /\ transfer'[d] = transfer[d]
    BY <2>1, <2>2, <2>3 DEF Place
  <2> QED
    BY <2>4, <2>5
<1>11. ASSUME NEW e \in Charges \ {c} PROVE Real(e)' /\ Stays(e)
  <2>1. DomainOf[e] \in Domains \ {DomainOf[c]}
    BY <1>4, DomainAssumption DEF OneChargeEach
  <2>2. proc'[p] = x /\ \A q \in Procs \ {p} : proc'[q] = proc[q]
    BY <1>4, <1>8, GoFields DEF RealTurns
  <2>3. BesideCharge(e)
    <3>1. ~On(p, e)'
      BY <1>4, <1>8, <2>2, PcsAre DEF RealTurns, On
    <3> QED
      BY <1>7, <1>8, <2>2, <3>1 DEF BesideCharge, Turn, OthersStay, RealTurns
  <2>4. x.pc \notin {"died", "find"}
    BY <1>8, PcsAre DEF RealTurns
  <2>5. BesideDomain(e)
    BY <1>8, <1>10, <2>1, <2>2, <2>4 DEF BesideDomain, RealTurns
  <2> QED
    BY <2>3, <2>5, RealElsewhere DEF RealInv
<1> QED
  BY <1>9, <1>11

\* Steps that are beside every charge.
RealSteps == \A c \in Charges : Real(c)' /\ Stays(c)
Aside     == \A c \in Charges : BesideCharge(c) /\ BesideDomain(c)

LEMMA AsideReal ==
    ASSUME RealInv, Aside
    PROVE  RealSteps
  BY RealElsewhere DEF RealInv, Aside, RealSteps

LEMMA LeaveReal ==
    ASSUME NoAdmins, OneChargeEach, RealInv, NEW p \in Procs,
           \/ Claim(p) /\ charge[proc[p].on].status # "paid"
           \/ Dns(p) \/ NoteStuck(p) \/ TransferArrived(p) \/ Crash(p) \/ Release(p)
    PROVE  RealSteps
<1>0. TypeOK /\ ActiveInv
  BY DEF RealInv, SerialInv, ActiveInv
<1>1. /\ Done(p) /\ UNCHANGED buy /\ UNCHANGED placed /\ UNCHANGED owned /\ UNCHANGED transfer
      /\ faults \subseteq faults' /\ (pass' = pass \/ pass' = NoPass)
  BY DEF Claim, Dns, NoteStuck, TransferArrived, Crash, Release, Fault, outside
<1>2. PICK x \in ProcType : Go(p, x) /\ x.pc \in {"rest", "over"}
  BY <1>1, DoneFields
<1>3. x.pc \notin ChargePcs /\ x.pc \notin {"died", "find"}
  BY <1>2, PcsAre
<1>4. proc'[p] = x /\ \A q \in Procs \ {p} : proc'[q] = proc[q]
  BY <1>0, <1>2, GoFields
<1>5. \A c \in Charges : charge'[c] = charge[c]
  <2>1. CASE NoteStuck(p)
    <3>1. proc[p].pc \in ChargePcs /\ Write(proc[p].on, charge[proc[p].on])
      BY <2>1, PcsAre DEF NoteStuck
    <3> QED
      BY <1>0, <3>1, OnCharge, Written
  <2> QED
    BY <2>1 DEF Claim, Dns, TransferArrived, Crash, Release
<1>6. ASSUME NEW c \in Charges PROVE BesideCharge(c)
  <2>1. \A q \in Procs : On(q, c)' => proc'[q] = proc[q]
    BY <1>3, <1>4 DEF On
  <2> QED
    BY <1>1, <1>5, <2>1 DEF BesideCharge
<1>7. ASSUME NEW c \in Charges PROVE BesideDomain(c)
  <2> DEFINE d == DomainOf[c]
  <2>1. d \in Domains /\ domain \in [Domains -> DomainStatuses]
    BY <1>0, DomainAssumption DEF TypeOK
  <2>2. \/ domain'[d] = domain[d]
        \/ /\ domain'[d] # "transfer_pending"
           /\ \/ domain'[d] = "active" \/ Operation[c] # "register"
              \/ charge[c].status # "fulfilled" /\ \A q \in Procs : On(q, c) => proc[q].pc # "mark"
    <3>1. CASE Release(p)
      <4>1. proc[p].pc = "release" /\ proc[p].pc \in ChargePcs
        BY <3>1, PcsAre DEF Release
      <4>2. proc[p].on \in Charges /\ Dom(p) = DomainOf[proc[p].on] /\ Dom(p) \in Domains
        BY <1>0, <4>1, OnCharge
      <4>3. CASE d # Dom(p)
        BY <2>1, <3>1, <4>2, <4>3 DEF Release, Show
      <4>4. CASE proc[p].on = c
        <5>1. On(p, c) /\ Serial(c)
          BY <4>1, <4>4 DEF On, RealInv, SerialInv
        <5>2. Fits(p, c) /\ \A q \in Procs \ {p} : On(q, c) => proc[q].pc = "claim"
          BY <4>1, <5>1, Holds
        <5>3. charge[c].status # "fulfilled"
          BY <4>1, <5>2 DEF Fits, StatusIn, Ordering
        <5>4. proc[p].after # "transfer_pending"
          BY <5>1 DEF RealInv, Real, Knows
        <5>5. domain'[d] = domain[d] \/ domain'[d] = proc[p].after
          BY <2>1, <3>1, <4>4 DEF Release, Show, Dom
        <5> QED
          BY <4>1, <5>2, <5>3, <5>4, <5>5
      <4>5. CASE d = Dom(p) /\ proc[p].on # c
        BY <4>2, <4>5 DEF OneChargeEach
      <4> QED
        BY <4>3, <4>4, <4>5
    <3>2. CASE TransferArrived(p)
      BY <2>1, <3>2 DEF TransferArrived, Show
    <3> QED
      BY <3>1, <3>2 DEF Claim, Dns, NoteStuck, Crash
  <2>3. \A q \in Procs : proc'[q].pc \in {"died", "find"} => proc'[q] = proc[q]
    BY <1>3, <1>4
  <2> QED
    BY <1>1, <2>2, <2>3 DEF BesideDomain, NoPass
<1> QED
  BY <1>6, <1>7, AsideReal DEF Aside

\* A handler goes on to x beside every charge.
LEMMA GoesBeside ==
    ASSUME RealInv, NEW p \in Procs, NEW x \in ProcType, Go(p, x),
           UNCHANGED buy, UNCHANGED charge, UNCHANGED placed, UNCHANGED owned, UNCHANGED transfer, UNCHANGED faults,
           pass'.phase = "transfers" => pass.phase = "transfers" /\ pass'.todo \subseteq pass.todo,
           \A c \in Charges : x.on = c /\ x.pc \in ChargePcs =>
              /\ x.after # "transfer_pending"
              /\ \/ x.pc \in {"claim", "stuck"} \/ (x.pc = "giveUp" /\ charge[c].status # "fulfilling")
                 \/ x.pc = "refund" /\ MayUndo(c),
           \A c \in Charges : \/ domain'[DomainOf[c]] = domain[DomainOf[c]]
                              \/ domain'[DomainOf[c]] # "transfer_pending" /\ Operation[c] # "register",
           x.pc \in {"died", "find"} =>
              \/ proc[p].pc \in {"died", "find"} /\ proc[p].on = x.on
              \/ pass.phase = "transfers" /\ x.on \in pass.todo /\ transfer[x.on] = "dead"
    PROVE  RealSteps
<1>1. proc'[p] = x /\ \A q \in Procs \ {p} : proc'[q] = proc[q]
  BY GoFields DEF RealInv, SerialInv, ActiveInv
<1>2. ASSUME NEW c \in Charges PROVE BesideCharge(c)
  BY <1>1 DEF BesideCharge, On
<1>3. ASSUME NEW c \in Charges PROVE BesideDomain(c)
  <2>1. \A q \in Procs : proc'[q].pc \in {"died", "find"} /\ proc'[q].on = DomainOf[c] =>
          \/ proc[q].pc \in {"died", "find"} /\ proc[q].on = DomainOf[c]
          \/ pass.phase = "transfers" /\ DomainOf[c] \in pass.todo /\ transfer[DomainOf[c]] = "dead"
    BY <1>1
  <2> QED
    BY <2>1 DEF BesideDomain
<1> QED
  BY <1>2, <1>3, AsideReal DEF Aside

LEMMA DiedReal ==
    ASSUME RealInv, NEW p \in Procs, TransferDied(p)
    PROVE  RealSteps
<1> DEFINE x == [proc[p] EXCEPT !.pc = "find"]
<1>1. /\ Go(p, x) /\ proc[p].pc = "died" /\ Show(proc[p].on, "failed") /\ UNCHANGED pass
      /\ UNCHANGED buy /\ UNCHANGED charge /\ UNCHANGED placed /\ UNCHANGED owned /\ UNCHANGED transfer /\ UNCHANGED faults
  BY DEF TransferDied, Goto, outside
<1>2. proc[p] \in ProcType /\ domain \in [Domains -> DomainStatuses]
  BY DEF RealInv, SerialInv, ActiveInv, TypeOK, ProcType
<1>3. "find" \in Pcs /\ "find" \notin ChargePcs
  BY PcsAre
<1>4. x \in ProcType /\ x.pc = "find" /\ x.on = proc[p].on
  BY <1>2, <1>3 DEF ProcType
<1> HIDE DEF x
<1>5. ASSUME NEW c \in Charges
      PROVE  \/ domain'[DomainOf[c]] = domain[DomainOf[c]]
             \/ domain'[DomainOf[c]] # "transfer_pending" /\ Operation[c] # "register"
  <2>1. proc[p].on = DomainOf[c] => Operation[c] = "transfer"
    BY <1>1 DEF RealInv, Real, ShownTransfer, Delivered
  <2>2. DomainOf[c] \in Domains
    BY DomainAssumption
  <2> QED
    BY <1>1, <1>2, <2>1, <2>2 DEF Show
<1> QED
  BY <1>1, <1>3, <1>4, <1>5, GoesBeside

LEMMA FoundReal ==
    ASSUME RealInv, NEW p \in Procs, FindTransfer(p)
    PROVE  RealSteps
<1>1. /\ proc[p].pc = "find" /\ UNCHANGED pass /\ UNCHANGED domain
      /\ UNCHANGED buy /\ UNCHANGED charge /\ UNCHANGED placed /\ UNCHANGED owned /\ UNCHANGED transfer /\ UNCHANGED faults
  BY DEF FindTransfer, outside
<1>2. CASE Done(p)
  <2>1. PICK x \in ProcType : Go(p, x) /\ x.pc \in {"rest", "over"}
    BY <1>2, DoneFields
  <2>2. x.pc \notin ChargePcs /\ x.pc \notin {"died", "find"}
    BY <2>1, PcsAre
  <2> QED
    BY <1>1, <2>1, <2>2, GoesBeside
<1>3. ASSUME NEW c \in Charges, DomainOf[c] = proc[p].on, Operation[c] = "transfer", Go(p, At("refund", c))
      PROVE  RealSteps
  <2> DEFINE x == At("refund", c)
  <2>1. Rest.after = "keep" /\ "refund" \in Pcs /\ "refund" \in ChargePcs
    BY PcsAre DEF Rest
  <2>2. x \in ProcType /\ x.pc = "refund" /\ x.on = c
    BY <2>1, AtTyped
  <2>3. x.after = "keep"
    BY DEF At, Rest
  <2> HIDE DEF x
  <2>4. MayUndo(c)
    BY <1>1, <1>3 DEF RealInv, Real, ShownTransfer, MayUndo
  <2>5. Go(p, x)
    BY <1>3 DEF x
  <2> QED
    BY <1>1, <2>2, <2>3, <2>4, <2>5, GoesBeside
<1> QED
  BY <1>2, <1>3 DEF FindTransfer, With

LEMMA LookedUpReal ==
    ASSUME RealInv, NEW d \in Domains, ReconcileTransfer(d)
    PROVE  RealSteps
<1>0. TypeOK /\ Reconciler \in Procs
  BY ReconcilerIs DEF RealInv, SerialInv, ActiveInv
<1>1. /\ pass.phase = "transfers" /\ d \in pass.todo /\ pass' = [pass EXCEPT !.todo = @ \ {d}] /\ UNCHANGED domain
      /\ UNCHANGED buy /\ UNCHANGED charge /\ UNCHANGED placed /\ UNCHANGED owned /\ UNCHANGED transfer /\ UNCHANGED faults
  BY DEF ReconcileTransfer, Take, outside
<1>2. pass'.phase = "transfers" /\ pass'.todo \subseteq pass.todo
  BY <1>0, <1>1 DEF TypeOK
<1>3. ASSUME NEW pc \in {"arrived", "died"}, Go(Reconciler, At(pc, d)), pc = "died" => transfer[d] = "dead"
      PROVE  RealSteps
  <2> DEFINE x == At(pc, d)
  <2>1. pc \in Pcs /\ pc \notin ChargePcs
    BY PcsAre
  <2>2. x \in ProcType /\ x.pc = pc /\ x.on = d
    BY <2>1, AtTyped
  <2>3. Go(Reconciler, x)
    BY <1>3
  <2> HIDE DEF x
  <2> QED
    BY <1>0, <1>1, <1>2, <1>3, <2>1, <2>2, <2>3, GoesBeside
<1>4. ASSUME UNCHANGED proc PROVE RealSteps
  <2>1. \A c \in Charges : BesideCharge(c)
    BY <1>1, <1>4 DEF BesideCharge
  <2>2. \A c \in Charges : BesideDomain(c)
    BY <1>1, <1>2, <1>4 DEF BesideDomain
  <2> QED
    BY <2>1, <2>2, AsideReal DEF Aside
<1> QED
  BY <1>3, <1>4 DEF ReconcileTransfer

LEMMA TakeUpReal ==
    ASSUME RealInv, NEW c \in Charges, ReconcilePaid(c) \/ ReconcileStuck(c)
    PROVE  RealSteps
<1>0. TypeOK /\ Reconciler \in Procs /\ Serial(c)
  BY ReconcilerIs DEF RealInv, SerialInv, ActiveInv
<1>1. /\ pass.phase \in {"paid", "stuck"} /\ c \in pass.todo /\ pass' = [pass EXCEPT !.todo = @ \ {c}] /\ UNCHANGED domain
      /\ UNCHANGED buy /\ UNCHANGED charge /\ UNCHANGED placed /\ UNCHANGED owned /\ UNCHANGED transfer /\ UNCHANGED faults
  BY DEF ReconcilePaid, ReconcileStuck, Take, outside
<1>2. pass'.phase # "transfers"
  BY <1>0, <1>1 DEF TypeOK
<1>3. PICK pc \in {"claim", "giveUp", "stuck"}, b \in BOOLEAN :
          /\ Go(Reconciler, [At(pc, c) EXCEPT !.caught = b])
          /\ pc = "giveUp" => charge[c].status = "paid"
  <2>1. CASE ReconcilePaid(c)
    <3>1. PICK pc \in {"claim", "giveUp"} : Go(Reconciler, At(pc, c)) /\ (pc = "giveUp" => c \in pass.late)
      BY <2>1 DEF ReconcilePaid
    <3>2. c \in pass.late => charge[c].status = "paid"
      BY <1>0, <1>1, <2>1 DEF Serial, Lists, ReconcilePaid
    <3>3. At(pc, c) \in ProcType
      BY AtTyped, PcsAre, SMTT(30)
    <3> HIDE DEF At
    <3>4. At(pc, c) = [At(pc, c) EXCEPT !.caught = At(pc, c).caught] /\ At(pc, c).caught \in BOOLEAN
      BY <3>3 DEF ProcType
    <3> QED
      BY <3>1, <3>2, <3>4
  <2>2. CASE ReconcileStuck(c)
    BY <2>2 DEF ReconcileStuck
  <2> QED
    BY <2>1, <2>2
<1> DEFINE x == [At(pc, c) EXCEPT !.caught = b]
<1>4. pc \in Pcs /\ pc \in ChargePcs
  BY PcsAre
<1>5. At(pc, c) \in ProcType /\ At(pc, c).pc = pc /\ At(pc, c).on = c /\ At(pc, c).after = "keep"
  BY <1>4, AtTyped DEF At, Rest
<1> HIDE DEF At
<1>6. x \in ProcType /\ x.pc = pc /\ x.on = c /\ x.after = "keep"
  BY <1>5 DEF ProcType
<1>7. Go(Reconciler, x)
  BY <1>3
<1> HIDE DEF x
<1> QED
  BY <1>0, <1>1, <1>2, <1>3, <1>6, <1>7, GoesBeside

\* The pass lists what is to be repaired; abandoned checkouts expire.
LEMMA PassReal ==
    ASSUME RealInv, BeginPass \/ ListStuck \/ ListTransfers \/ EndPass
    PROVE  RealSteps
<1>0. TypeOK
  BY DEF RealInv, SerialInv, ActiveInv
<1>1. /\ UNCHANGED buy /\ UNCHANGED domain /\ UNCHANGED proc /\ UNCHANGED placed /\ UNCHANGED owned
      /\ UNCHANGED transfer /\ UNCHANGED faults
  BY DEF BeginPass, ListStuck, ListTransfers, EndPass, outside
<1>2. ASSUME NEW d \in Domains, pass'.phase = "transfers", d \in pass'.todo PROVE domain[d] = "transfer_pending"
  <2>1. CASE ListTransfers
    <3>1. PICK some \in Batches({e \in Domains : domain[e] = "transfer_pending"}) : List("transfers", some, {})
      BY <2>1 DEF ListTransfers
    <3>2. some \subseteq {e \in Domains : domain[e] = "transfer_pending"}
      BY BatchOf
    <3> QED
      BY <1>2, <3>1, <3>2 DEF List
  <2>2. BeginPass => pass'.phase = "paid"
    <3>1. BeginPass => \E todo, late : List("paid", todo, late)
      BY DEF BeginPass
    <3>2. \A todo, late : List("paid", todo, late) => pass'.phase = "paid"
      BY DEF List
    <3> QED
      BY <3>1, <3>2
  <2>3. ListStuck \/ EndPass => pass'.phase # "transfers"
    <3>1. ListStuck => \E todo : List("stuck", todo, {})
      BY DEF ListStuck
    <3> QED
      BY <3>1 DEF EndPass, List, NoPass
  <2> QED
    BY <1>2, <2>1, <2>2, <2>3
<1>3. ASSUME NEW c \in Charges
      PROVE  charge'[c].status = charge[c].status \/ (charge[c].status \in Unpaid /\ charge'[c].status # "fulfilled")
  <2>1. CASE BeginPass
    <3>1. PICK old \in SUBSET {e \in With("pending_payment") : checkout[e] # "open"} :
            charge' = [e \in Charges |-> IF e \in old THEN [charge[e] EXCEPT !.status = "expired", !.data = FALSE]
                                         ELSE charge[e]]
      BY <2>1 DEF BeginPass
    <3>2. c \in old => charge[c].status = "pending_payment"
      BY <3>1 DEF With
    <3>3. charge[c] \in RowType
      BY <1>0 DEF TypeOK, RowType
    <3> QED
      BY <3>1, <3>2, <3>3 DEF Unpaid, PayableFrom, RowType
  <2> QED
    BY <2>1 DEF ListStuck, ListTransfers, EndPass
<1>4. \A c \in Charges : BesideCharge(c)
  BY <1>1, <1>3 DEF BesideCharge
<1>5. \A c \in Charges : BesideDomain(c)
  BY <1>1, <1>2, DomainAssumption DEF BesideDomain
<1> QED
  BY <1>4, <1>5, AsideReal DEF Aside

\* A checkout shows the domain as pending: nothing is completed for its charge yet.
LEMMA BuyReal ==
    ASSUME OneChargeEach, RealInv, NEW c \in Charges, CheckoutStep(c) \/ CheckoutExpired(c)
    PROVE  RealSteps
<1> DEFINE d == DomainOf[c]
<1>0. TypeOK /\ Serial(c) /\ d \in Domains
  BY DomainAssumption DEF RealInv, SerialInv, ActiveInv
<1>1. /\ UNCHANGED proc /\ UNCHANGED pass /\ UNCHANGED placed /\ UNCHANGED owned /\ UNCHANGED transfer
      /\ UNCHANGED faults
  BY DEF CheckoutStep, CheckoutLooks, CheckoutCreates, CheckoutHolds, CheckoutCharges, CheckoutOpens, CheckoutExpired,
         outside
<1>2. charge[c].status \in Unpaid
  BY <1>0 DEF CheckoutStep, CheckoutLooks, CheckoutCreates, CheckoutHolds, CheckoutCharges, CheckoutOpens,
              CheckoutExpired, Serial, Buying, Unpaid, PayableFrom
<1>3. charge'[c].status # "fulfilled" /\ \A e \in Charges \ {c} : charge'[e] = charge[e]
  <2>1. charge[c].status # "fulfilled"
    BY <1>2 DEF Unpaid, PayableFrom
  <2>2. CASE UNCHANGED charge
    BY <2>1, <2>2
  <2>3. CASE CheckoutCharges(c)
    <3> DEFINE row == [status |-> "pending_payment", refund |-> FALSE, data |-> Operation[c] # "renew"]
    <3>1. Write(c, row) /\ row.status = "pending_payment"
      BY <2>3 DEF CheckoutCharges
    <3> HIDE DEF row
    <3> QED
      BY <1>0, <3>1, Written
  <2>4. ASSUME NEW s \in {"failed", "expired"}, Close(c, s)
        PROVE  charge'[c].status # "fulfilled" /\ \A e \in Charges \ {c} : charge'[e] = charge[e]
    <3>1. charge'[c].status = s /\ \A e \in Charges \ {c} : charge'[e] = charge[e]
      BY <1>0, <2>4, StatusWritten
    <3> QED
      BY <3>1
  <2> QED
    BY <2>2, <2>3, <2>4 DEF CheckoutStep, CheckoutLooks, CheckoutCreates, CheckoutHolds, CheckoutOpens, CheckoutExpired
<1>4. UNCHANGED buy \/ \E s : buy' = [buy EXCEPT ![c] = s]
  BY DEF CheckoutStep, CheckoutLooks, CheckoutCreates, CheckoutHolds, CheckoutCharges, CheckoutOpens, CheckoutExpired
<1>5. buy[c] # "new" \/ UNCHANGED buy \/ Operation[c] # "register" \/ ~owned[d]
  BY DEF CheckoutStep, CheckoutLooks, CheckoutCreates, CheckoutHolds, CheckoutCharges, CheckoutOpens, CheckoutExpired,
         Orderable
<1>6. UNCHANGED domain \/ Show(d, "pending_payment")
  BY DEF CheckoutStep, CheckoutLooks, CheckoutCreates, CheckoutHolds, CheckoutCharges, CheckoutOpens, CheckoutExpired
<1>7. \A p \in Procs : ~On(p, c)
  BY <1>0, <1>2 DEF Serial, Untouched
<1>8. ASSUME NEW e \in Charges PROVE BesideCharge(e)
  <2>1. buy'[e] # "new" => (buy[e] # "new" \/ Operation[e] # "register" \/ ~owned'[DomainOf[e]])
    BY <1>0, <1>1, <1>4, <1>5 DEF TypeOK
  <2> QED
    BY <1>1, <1>2, <1>3, <2>1 DEF BesideCharge
<1>9. ASSUME NEW e \in Charges PROVE BesideDomain(e)
  <2>1. domain'[DomainOf[e]] = domain[DomainOf[e]] \/ (e = c /\ domain'[DomainOf[e]] = "pending_payment")
    <3>1. domain \in [Domains -> DomainStatuses] /\ DomainOf[e] \in Domains
      BY <1>0, DomainAssumption DEF TypeOK
    <3>2. DomainOf[e] = d => e = c
      BY DEF OneChargeEach
    <3> QED
      BY <1>0, <1>6, <3>1, <3>2 DEF Show
  <2>2. charge[c].status # "fulfilled"
    BY <1>2 DEF Unpaid, PayableFrom
  <2> QED
    BY <1>1, <1>7, <2>1, <2>2 DEF BesideDomain
<1> QED
  BY <1>8, <1>9, AsideReal DEF Aside

LEMMA PaymentReal ==
    ASSUME RealInv, NEW w \in Webhooks, NEW c \in Charges, RecordPayment(w, c)
    PROVE  RealSteps
<1>0. TypeOK /\ w \in Procs
  BY ReconcilerIs DEF RealInv, SerialInv, ActiveInv
<1>1. /\ charge[c].status \in PayableFrom /\ SetStatus(c, "paid") /\ Go(w, At("claim", c))
      /\ UNCHANGED buy /\ UNCHANGED pass /\ UNCHANGED domain /\ UNCHANGED placed
      /\ UNCHANGED owned /\ UNCHANGED transfer /\ UNCHANGED faults
  BY DEF RecordPayment, outside
<1>2. "claim" \in Pcs
  BY PcsAre
<1>3. At("claim", c) \in ProcType /\ At("claim", c).pc = "claim" /\ At("claim", c).after = "keep"
  BY <1>2, AtTyped
<1> HIDE DEF At
<1>4. proc'[w].pc = "claim" /\ proc'[w].after = "keep" /\ \A q \in Procs \ {w} : proc'[q] = proc[q]
  BY <1>0, <1>1, <1>3, GoFields
<1>5. charge'[c].status = "paid" /\ \A e \in Charges \ {c} : charge'[e] = charge[e]
  BY <1>0, <1>1, StatusWritten
<1>6. \A e \in Charges : BesideCharge(e)
  BY <1>1, <1>4, <1>5 DEF BesideCharge, Unpaid
<1>7. \A e \in Charges : BesideDomain(e)
  BY <1>1, <1>4 DEF BesideDomain
<1> QED
  BY <1>6, <1>7, AsideReal DEF Aside

LEMMA ClockReal ==
    ASSUME RealInv,
           \/ \E c \in Charges : SessionEnds(c) \/ HalfHourPasses(c) \/ DayPasses(c)
           \/ \E d \in Domains : TransferEnds(d)
           \/ UNCHANGED vars
    PROVE  RealSteps
<1>0. TypeOK
  BY DEF RealInv, SerialInv, ActiveInv
<1>1. /\ UNCHANGED buy /\ UNCHANGED pass /\ UNCHANGED domain /\ UNCHANGED charge /\ UNCHANGED placed
      /\ UNCHANGED proc /\ UNCHANGED faults
  BY DEF SessionEnds, HalfHourPasses, DayPasses, TransferEnds, outside, vars
<1>2. \A d \in Domains : transfer[d] = "moving" \/ (owned'[d] = owned[d] /\ transfer'[d] = transfer[d])
  <2>1. owned \in [Domains -> BOOLEAN] /\ transfer \in [Domains -> {"none", "moving", "dead"}]
    BY <1>0 DEF TypeOK
  <2>2. CASE \E d \in Domains : TransferEnds(d)
    BY <2>1, <2>2 DEF TransferEnds
  <2>3. CASE UNCHANGED owned /\ UNCHANGED transfer
    BY <2>3
  <2> QED
    BY <2>2, <2>3 DEF SessionEnds, HalfHourPasses, DayPasses, outside, vars
<1>3. ASSUME NEW c \in Charges PROVE BesideCharge(c)
  BY <1>1 DEF BesideCharge
<1>4. ASSUME NEW c \in Charges PROVE BesideDomain(c)
  <2>1. DomainOf[c] \in Domains
    BY DomainAssumption
  <2> QED
    BY <1>1, <1>2, <2>1 DEF BesideDomain
<1> QED
  BY <1>3, <1>4, AsideReal DEF Aside

LEMMA RealStep ==
    ASSUME NoAdmins, OneChargeEach, RealInv, [Next]_vars
    PROVE  RealInv' /\ \A c \in Charges : Stays(c)
<1>1. SerialInv'
  BY SerialStep DEF RealInv
<1>2. ASSUME NEW p \in Procs, Step(p) \/ OrderAnswerLost(p) \/ RefundAnswerLost(p) \/ DatabaseFails(p) \/ Crash(p)
      PROVE  RealSteps
  <2>1. ~Reset(p)
    <3>1. SUFFICES ASSUME Reset(p) PROVE FALSE
      OBVIOUS
    <3>2. proc[p].pc = "reset" /\ proc[p].pc \in ChargePcs
      BY <3>1, PcsAre DEF Reset
    <3>3. On(p, proc[p].on) /\ proc[p].on \in Charges
      BY <3>2, OnCharge DEF RealInv, SerialInv, On
    <3> QED
      BY <3>2, <3>3 DEF RealInv, SerialInv, Serial, AllFit, Fits
  <2>2. HolderStep(p) => RealSteps
    BY HolderReal DEF RealSteps
  <2>3. \/ Claim(p) /\ charge[proc[p].on].status # "paid"
        \/ Dns(p) \/ Release(p) \/ NoteStuck(p) \/ TransferArrived(p) \/ Crash(p)
        => RealSteps
    BY LeaveReal
  <2>4. TransferDied(p) \/ FindTransfer(p) => RealSteps
    BY DiedReal, FoundReal
  <2> QED
    BY <1>2, <2>1, <2>2, <2>3, <2>4 DEF Step, HolderStep
<1>3. ASSUME NEW c \in Charges, CheckoutStep(c) \/ CheckoutExpired(c) PROVE RealSteps
  BY <1>3, BuyReal
<1>4. ASSUME NEW c \in Charges, NEW w \in Webhooks, RecordPayment(w, c) PROVE RealSteps
  BY <1>4, PaymentReal
<1>5. ASSUME PassStep PROVE RealSteps
  BY <1>5, PassReal, TakeUpReal, LookedUpReal DEF PassStep
<1>6. ASSUME \/ \E c \in Charges : SessionEnds(c) \/ HalfHourPasses(c) \/ DayPasses(c)
             \/ \E d \in Domains : TransferEnds(d)
             \/ UNCHANGED vars
      PROVE  RealSteps
  BY <1>6, ClockReal
<1>7. RealSteps
  BY <1>2, <1>3, <1>4, <1>5, <1>6 DEF Next, NoAdmins
<1> QED
  BY <1>1, <1>7 DEF RealInv, RealSteps

LEMMA RealInit ==
    ASSUME Init
    PROVE  RealInv
<1>1. SerialInv
  BY SerialInit
<1>2. \A p \in Procs : proc[p].pc = "rest"
  BY RestTyped DEF Init
<1>3. ASSUME NEW c \in Charges PROVE Real(c)
  <2>1. DomainOf[c] \in Domains
    BY DomainAssumption
  <2>2. \A p \in Procs : ~On(p, c) /\ proc[p].pc \notin {"died", "find"}
    BY <1>2, PcsAre DEF On
  <2>3. domain[DomainOf[c]] # "transfer_pending" /\ transfer[DomainOf[c]] = "none" /\ pass.phase # "transfers"
    BY <2>1 DEF Init, NoPass
  <2>4. charge[c].status # "fulfilled" /\ buy[c] = "new"
    BY DEF Init
  <2> QED
    BY <2>2, <2>3, <2>4 DEF Real, ShownTransfer
<1> QED
  BY <1>1, <1>3 DEF RealInv

LEMMA RealAlways == NoAdmins /\ OneChargeEach => (Spec => []RealInv)
<1> SUFFICES ASSUME NoAdmins, OneChargeEach PROVE Spec => []RealInv
  OBVIOUS
<1>1. Init => RealInv
  BY RealInit
<1>2. RealInv /\ [Next]_vars => RealInv'
  BY RealStep
<1> QED
  BY <1>1, <1>2, PTL DEF Spec

\* Without admins, and with one charge for a domain, what is completed was ordered for this charge, and a
\* completed registration shows as active, whatever crashes or is lost between the registrar's answer and
\* the two tables.
THEOREM CompletedIsReal == NoAdmins /\ OneChargeEach => (Spec => []FulfilledIsReal)
<1>1. RealInv => FulfilledIsReal
  BY DEF RealInv, Real, FulfilledIsReal
<1> QED
  BY <1>1, RealAlways, PTL

\* Without admins, and with one charge for a domain, a completed or refunded charge stays so, but for a
\* transfer that died and the order whose database write failed.
THEOREM Final == NoAdmins /\ OneChargeEach => (Spec => FinalStays)
<1> SUFFICES ASSUME NoAdmins, OneChargeEach PROVE Spec => FinalStays
  OBVIOUS
<1>1. RealInv /\ [Next]_vars => [\A c \in Charges :
          \/ charge[c].status \notin {"fulfilled", "refunded"}
          \/ charge'[c].status = charge[c].status
          \/ charge[c].status = "fulfilled" /\ (transfer[DomainOf[c]] = "dead" \/ "dbError" \in faults)]_vars
  BY RealStep DEF Stays, MayUndo
<1> QED
  BY <1>1, RealAlways, PTL DEF Spec, FinalStays
=============================================================================
