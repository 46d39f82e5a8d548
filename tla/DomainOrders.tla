------------------------------ MODULE DomainOrders ------------------------------
(* Domain orders (apps/web/src/lib/domain-orders.ts): a client pays a charge   *)
(* through Stripe, the webhook records the payment and orders the domain at    *)
(* the registrar, an hourly reconcile repairs what got stuck, and admins may   *)
(* retry or refund. One action is one await of the code.                       *)
(*                                                                            *)
(* A definition marked "Fault:" is not the code: it is a plausible mistake in  *)
(* the next definition, which the properties must notice.                      *)
EXTENDS Naturals, FiniteSets

CONSTANTS
    Charges,        \* DomainCharge rows, each created by a checkout of its own
    Domains,
    DomainOf,       \* the domain a charge is for
    Operation,      \* "register", "renew" or "transfer"
    AlreadyOurs,    \* the domains that are active from the start
    FailedBefore,   \* the domains an earlier order failed for
    Webhooks,       \* executions of the Stripe webhook (un-awaited fulfilment included)
    Admins,         \* executions of the admin remedies route: each takes one request
    Reconciler,     \* the hourly pass
    FaultKinds,     \* the faults that may happen in this instance
    MaxFaults,      \* bound on how many of them, each at most once
    MaxOrders,      \* bound on the orders the registrar accepts for one charge
    Batch           \* how many items of a kind the pass takes (10 paid, 5 stuck, 10 transfers in the code)

Procs == Webhooks \cup Admins \cup {Reconciler}

ASSUME DomainAssumption ==
    /\ DomainOf \in [Charges -> Domains]
    /\ Operation \in [Charges -> {"register", "renew", "transfer"}]
    /\ AlreadyOurs \subseteq Domains /\ FailedBefore \subseteq Domains \ AlreadyOurs
    /\ Webhooks \cap Admins = {} /\ Reconciler \notin Webhooks \cup Admins
    /\ FaultKinds \subseteq {"crash", "lostAnswer", "lostRefund", "infoFails", "dbError"}
    /\ MaxFaults \in Nat /\ MaxOrders \in Nat /\ Batch \in Nat \ {0}

VARIABLES
    buy,        \* per charge, where its startDomainCheckout is
    checkout,   \* per charge, Stripe's checkout session
    charge,     \* DomainCharge: status, stripeRefundId set, order data (contact, EPP code) kept
    idle,       \* per charge: updatedAt is 30 minutes ago
    day,        \* per charge: paidAt is 24 hours ago
    domain,     \* Domain.status
    proc,       \* per handler: where it is, and what it has read
    pass,       \* the reconcile pass: its phase, what it listed, which of that is a day late
    placed,     \* per charge, the orders the registrar accepted
    owned,      \* per domain: the registrar holds it in our account
    transfer,   \* per domain: a transfer at the registry
    refunded,   \* per charge: Stripe returned the money
    faults      \* the faults that have happened

outside == <<placed, owned, transfer>>
vars    == <<buy, checkout, charge, idle, day, domain, proc, pass, outside, refunded, faults>>

\* A handler works on a charge (or, in the last phase of the pass, on a domain);
\* "after" is the status the domain gets once the refund is recorded.
Rest    == [pc |-> "rest", on |-> "none", data |-> FALSE, caught |-> FALSE, after |-> "keep", ok |-> FALSE]
At(pc, x) == [Rest EXCEPT !.pc = pc, !.on = x]
NoPass  == [phase |-> "rest", todo |-> {}, late |-> {}]

Fault(k) == k \in FaultKinds \ faults /\ Cardinality(faults) < MaxFaults /\ faults' = faults \cup {k}

Init ==
    /\ buy = [c \in Charges |-> "new"]
    /\ checkout = [c \in Charges |-> "none"]
    /\ charge = [c \in Charges |-> [status |-> "none", refund |-> FALSE, data |-> FALSE]]
    /\ idle = [c \in Charges |-> FALSE]
    /\ day = [c \in Charges |-> FALSE]
    /\ domain = [d \in Domains |-> CASE d \in AlreadyOurs  -> "active"
                                    [] d \in FailedBefore -> "failed"
                                    [] OTHER              -> "none"]
    /\ proc = [p \in Procs |-> Rest]
    /\ pass = NoPass
    /\ placed = [c \in Charges |-> 0]
    /\ owned = [d \in Domains |-> d \in AlreadyOurs]
    /\ transfer = [d \in Domains |-> "none"]
    /\ refunded = [c \in Charges |-> FALSE]
    /\ faults = {}

-----------------------------------------------------------------------------
(* Writes. Every write of a charge moves its updatedAt. *)

Write(c, row)  == charge' = [charge EXCEPT ![c] = row] /\ idle' = [idle EXCEPT ![c] = FALSE]
SetStatus(c, s) == Write(c, [charge[c] EXCEPT !.status = s])
Close(c, s)    == Write(c, [charge[c] EXCEPT !.status = s, !.data = FALSE])
Show(d, s)     == domain' = [domain EXCEPT ![d] = s]

Go(p, to)      == proc' = [proc EXCEPT ![p] = to]
Goto(p, pc)    == Go(p, [proc[p] EXCEPT !.pc = pc])
\* The route of an admin ends with its request; webhooks and the pass come back.
Done(p)        == Go(p, IF p \in Admins THEN At("over", "none") ELSE Rest)

Dom(p)         == DomainOf[proc[p].on]
Op(p)          == Operation[proc[p].on]

-----------------------------------------------------------------------------
(* startDomainCheckout *)

\* What the domain must look like to start this checkout.
Orderable(c) ==
    LET d == DomainOf[c] IN
    IF Operation[c] = "renew" THEN domain[d] \in {"active", "expired"}
    ELSE domain[d] \in {"none", "failed", "pending_payment"} /\ ~owned[d]

\* A new name gets a row of its own, and names are unique.
CheckoutLooks(c) ==
    /\ buy[c] = "new"
    /\ Orderable(c)
    /\ buy' = [buy EXCEPT ![c] = IF domain[DomainOf[c]] = "none" THEN "create" ELSE "hold"]
    /\ UNCHANGED <<checkout, charge, idle, day, domain, proc, pass, outside, refunded, faults>>

CheckoutCreates(c) ==
    /\ buy[c] = "create"
    /\ IF domain[DomainOf[c]] = "none"
       THEN buy' = [buy EXCEPT ![c] = "charge"] /\ Show(DomainOf[c], "pending_payment")
       ELSE buy' = [buy EXCEPT ![c] = "done"] /\ UNCHANGED domain
    /\ UNCHANGED <<checkout, charge, idle, day, proc, pass, outside, refunded, faults>>

\* Whatever the row has become since it was looked at.
CheckoutHolds(c) ==
    /\ buy[c] = "hold"
    /\ buy' = [buy EXCEPT ![c] = "charge"]
    /\ IF Operation[c] = "renew" THEN UNCHANGED domain ELSE Show(DomainOf[c], "pending_payment")
    /\ UNCHANGED <<checkout, charge, idle, day, proc, pass, outside, refunded, faults>>

CheckoutCharges(c) ==
    /\ buy[c] = "charge"
    /\ buy' = [buy EXCEPT ![c] = "session"]
    /\ Write(c, [status |-> "pending_payment", refund |-> FALSE, data |-> Operation[c] # "renew"])
    /\ UNCHANGED <<checkout, day, domain, proc, pass, outside, refunded, faults>>

\* Stripe opens a session, or the charge fails before anyone can pay it.
CheckoutOpens(c) ==
    /\ buy[c] = "session"
    /\ buy' = [buy EXCEPT ![c] = "done"]
    /\ \/ checkout' = [checkout EXCEPT ![c] = "open"] /\ UNCHANGED <<charge, idle>>
       \/ Close(c, "failed") /\ UNCHANGED checkout
    /\ UNCHANGED <<day, domain, proc, pass, outside, refunded, faults>>

-----------------------------------------------------------------------------
(* The webhook: Stripe delivers at least once, in any order *)

\* Fault: a payment is recorded whatever has become of the charge.
PaymentFrom == {"pending_payment", "expired", "paid", "fulfilling", "fulfilled", "refunded", "failed"}

\* The statuses a payment is recorded from.
PayableFrom == {"pending_payment", "expired"}

\* recordDomainPayment wins its update, and the fulfilment is set off.
RecordPayment(w, c) ==
    /\ proc[w] = Rest
    /\ checkout[c] = "paid" /\ charge[c].status \in PayableFrom
    /\ SetStatus(c, "paid")
    /\ day' = [day EXCEPT ![c] = FALSE]
    /\ Go(w, At("claim", c))
    /\ UNCHANGED <<buy, checkout, domain, pass, outside, refunded, faults>>

\* Fault: a status of another vocabulary.
CheckoutCancelled(c) ==
    /\ checkout[c] = "expired" /\ charge[c].status = "pending_payment"
    /\ Close(c, "cancelled")
    /\ UNCHANGED <<buy, checkout, day, domain, proc, pass, outside, refunded, faults>>

CheckoutExpired(c) ==
    /\ checkout[c] = "expired" /\ charge[c].status = "pending_payment"
    /\ Close(c, "expired")
    /\ UNCHANGED <<buy, checkout, day, domain, proc, pass, outside, refunded, faults>>

-----------------------------------------------------------------------------
(* fulfilDomainCharge *)

\* Fault: the claim is not conditional.
ClaimAnyway(p) ==
    /\ proc[p].pc = "claim"
    /\ SetStatus(proc[p].on, "fulfilling") /\ Goto(p, "prepare")
    /\ UNCHANGED <<buy, checkout, day, domain, pass, outside, refunded, faults>>

\* paid -> fulfilling; whoever loses the claim does nothing.
Claim(p) ==
    LET c == proc[p].on IN
    /\ proc[p].pc = "claim"
    /\ IF charge[c].status = "paid"
       THEN SetStatus(c, "fulfilling") /\ Goto(p, "prepare")
       ELSE Done(p) /\ UNCHANGED <<charge, idle>>
    /\ UNCHANGED <<buy, checkout, day, domain, pass, outside, refunded, faults>>

\* Read the charge with its domain; a registration shows as "registering".
Prepare(p) ==
    LET c == proc[p].on IN
    /\ proc[p].pc = "prepare"
    /\ Go(p, [proc[p] EXCEPT !.pc = "order", !.data = charge[c].data,
                             !.after = IF Op(p) = "renew" THEN domain[Dom(p)] ELSE "failed"])
    /\ IF Op(p) = "register" THEN Show(Dom(p), "registering") ELSE UNCHANGED domain
    /\ UNCHANGED <<buy, checkout, charge, idle, day, pass, outside, refunded, faults>>

\* What the registrar (external) can accept: a name once, with the order data.
Placeable(p) ==
    LET d == Dom(p) IN
    CASE Op(p) = "register" -> ~owned[d] /\ proc[p].data
      [] Op(p) = "renew"    -> owned[d]
      [] Op(p) = "transfer" -> ~owned[d] /\ proc[p].data /\ transfer[d] # "moving"

Place(p) ==
    /\ Placeable(p) /\ placed[proc[p].on] < MaxOrders
    /\ placed' = [placed EXCEPT ![proc[p].on] = @ + 1]
    /\ owned' = [owned EXCEPT ![Dom(p)] = @ \/ Op(p) = "register"]
    /\ transfer' = IF Op(p) = "transfer" THEN [transfer EXCEPT ![Dom(p)] = "moving"] ELSE transfer

\* After a transient failure a registration asks first, the others wait to retry.
AfterTransient(p) == [proc[p] EXCEPT !.caught = TRUE, !.pc = IF Op(p) = "register" THEN "ask" ELSE "requeue"]

OrderAccepted(p) ==
    /\ proc[p].pc = "order"
    /\ Place(p) /\ Goto(p, "deliver")
    /\ UNCHANGED <<buy, checkout, charge, idle, day, domain, pass, refunded, faults>>

\* A timeout after the registrar took the order.
OrderAnswerLost(p) ==
    /\ proc[p].pc = "order"
    /\ Fault("lostAnswer")
    /\ Place(p) /\ Go(p, AfterTransient(p))
    /\ UNCHANGED <<buy, checkout, charge, idle, day, domain, pass, refunded>>

\* Unreachable, or too busy: nothing was ordered, but that cannot be seen.
OrderUnreachable(p) ==
    /\ proc[p].pc = "order"
    /\ Go(p, AfterTransient(p))
    /\ UNCHANGED <<buy, checkout, charge, idle, day, domain, pass, outside, refunded, faults>>

\* Refused for good (balance, name taken, bad EPP code), or an error of our own
\* such as order data that is gone: refund.
OrderRefused(p) ==
    /\ proc[p].pc = "order"
    /\ Go(p, [proc[p] EXCEPT !.caught = TRUE, !.pc = "refund"])
    /\ UNCHANGED <<buy, checkout, charge, idle, day, domain, pass, outside, refunded, faults>>

\* Fault: a registration that timed out is retried without asking.
AskNothing(p) ==
    /\ proc[p].pc = "ask"
    /\ Goto(p, "requeue")
    /\ UNCHANGED <<buy, checkout, charge, idle, day, domain, pass, outside, refunded, faults>>

\* Fault: a timeout is taken for a success.
AskAndAssume(p) ==
    /\ proc[p].pc = "ask"
    /\ Goto(p, "deliver")
    /\ UNCHANGED <<buy, checkout, charge, idle, day, domain, pass, outside, refunded, faults>>

\* getDomainInfo: did the registration happen anyway?
Ask(p) ==
    /\ proc[p].pc = "ask"
    /\ \/ Goto(p, IF owned[Dom(p)] THEN "deliver" ELSE "requeue") /\ UNCHANGED faults
       \/ Fault("infoFails") /\ Goto(p, "requeue")
    /\ UNCHANGED <<buy, checkout, charge, idle, day, domain, pass, outside, refunded>>

\* Fault: an order found out later is completed without its domain.
DeliverForgets(p) ==
    /\ proc[p].pc = "deliver"
    /\ IF proc[p].caught THEN UNCHANGED domain
       ELSE Show(Dom(p), IF Op(p) = "transfer" THEN "transfer_pending" ELSE "active")
    /\ Goto(p, "mark")
    /\ UNCHANGED <<buy, checkout, charge, idle, day, pass, outside, refunded, faults>>

Deliver(p) ==
    /\ proc[p].pc = "deliver"
    /\ Show(Dom(p), IF Op(p) = "transfer" THEN "transfer_pending" ELSE "active")
    /\ Goto(p, "mark")
    /\ UNCHANGED <<buy, checkout, charge, idle, day, pass, outside, refunded, faults>>

\* markFulfilled; a registration goes on to its DNS.
Mark(p) ==
    /\ proc[p].pc = "mark"
    /\ Close(proc[p].on, "fulfilled")
    /\ IF Op(p) = "register" /\ ~proc[p].caught THEN Goto(p, "dns") ELSE Done(p)
    /\ UNCHANGED <<buy, checkout, day, domain, pass, outside, refunded, faults>>

\* provisionDomainDns keeps its own errors to itself.
Dns(p) ==
    /\ proc[p].pc = "dns"
    /\ Done(p)
    /\ UNCHANGED <<buy, checkout, charge, idle, day, domain, pass, outside, refunded, faults>>

\* A database call inside the try fails: the catch takes it for a refusal.
DatabaseFails(p) ==
    /\ proc[p].pc \in {"deliver", "mark", "dns"} /\ ~proc[p].caught
    /\ Fault("dbError")
    /\ Go(p, [proc[p] EXCEPT !.caught = TRUE, !.pc = "refund"])
    /\ UNCHANGED <<buy, checkout, charge, idle, day, domain, pass, outside, refunded>>

\* Waiting to retry: back to paid, whatever the charge has become.
Requeue(p) ==
    /\ proc[p].pc = "requeue"
    /\ SetStatus(proc[p].on, "paid")
    /\ Done(p)
    /\ UNCHANGED <<buy, checkout, day, domain, pass, outside, refunded, faults>>

-----------------------------------------------------------------------------
(* refund *)

\* Stripe (external) returns the money of a payment once, or refuses.
Refund(p) ==
    LET c == proc[p].on IN
    /\ proc[p].pc = "refund"
    /\ \/ ~refunded[c] /\ refunded' = [refunded EXCEPT ![c] = TRUE]
          /\ Go(p, [proc[p] EXCEPT !.pc = "record", !.ok = TRUE])
       \/ Go(p, [proc[p] EXCEPT !.pc = "record", !.ok = FALSE]) /\ UNCHANGED refunded
    /\ UNCHANGED <<buy, checkout, charge, idle, day, domain, pass, outside, faults>>

\* A timeout after Stripe returned the money: for the code the refund failed.
RefundAnswerLost(p) ==
    LET c == proc[p].on IN
    /\ proc[p].pc = "refund" /\ ~refunded[c]
    /\ Fault("lostRefund")
    /\ refunded' = [refunded EXCEPT ![c] = TRUE]
    /\ Go(p, [proc[p] EXCEPT !.pc = "record", !.ok = FALSE])
    /\ UNCHANGED <<buy, checkout, charge, idle, day, domain, pass, outside>>

RecordRefund(p) ==
    LET c == proc[p].on IN
    /\ proc[p].pc = "record"
    /\ Write(c, [charge[c] EXCEPT !.status = IF proc[p].ok THEN "refunded" ELSE "failed",
                                  !.refund = proc[p].ok, !.data = FALSE])
    /\ Goto(p, "release")
    /\ UNCHANGED <<buy, checkout, day, domain, pass, outside, refunded, faults>>

\* The caller shows the domain as failed, or as it was before a renewal.
Release(p) ==
    /\ proc[p].pc = "release"
    /\ IF proc[p].after = "keep" THEN UNCHANGED domain ELSE Show(Dom(p), proc[p].after)
    /\ Done(p)
    /\ UNCHANGED <<buy, checkout, charge, idle, day, pass, outside, refunded, faults>>

-----------------------------------------------------------------------------
(* reconcileDomains: abandoned checkouts, then three lists, one item at a time *)

Between(phase) == pass.phase = phase /\ pass.todo = {} /\ proc[Reconciler] = Rest
List(phase, todo, late) == pass' = [phase |-> phase, todo |-> todo, late |-> late]
Take(x) == x \in pass.todo /\ proc[Reconciler] = Rest /\ pass' = [pass EXCEPT !.todo = @ \ {x}]
With(s) == {c \in Charges : charge[c].status = s}
\* Some of them, in no order, when there are too many.
Batches(all) == {some \in SUBSET all : some = all \/ Cardinality(some) = Batch}

\* Charges that still wait for payment after two hours expire (a session lives
\* for one); then the paid ones are listed.
BeginPass ==
    /\ Between("rest")
    /\ \E old \in SUBSET {c \in With("pending_payment") : checkout[c] # "open"} :
          /\ charge' = [c \in Charges |-> IF c \in old THEN [charge[c] EXCEPT !.status = "expired", !.data = FALSE]
                                          ELSE charge[c]]
          /\ idle' = [c \in Charges |-> idle[c] /\ c \notin old]
    /\ \E some \in Batches(With("paid")) : List("paid", some, {c \in some : day[c]})
    /\ UNCHANGED <<buy, checkout, day, domain, proc, outside, refunded, faults>>

\* Paid but not placed: order again, or give up after a day.
ReconcilePaid(c) ==
    /\ pass.phase = "paid" /\ Take(c)
    /\ Go(Reconciler, At(IF c \in pass.late THEN "giveUp" ELSE "claim", c))
    /\ UNCHANGED <<buy, checkout, charge, idle, day, domain, outside, refunded, faults>>

\* Fault: a charge is given up without being refunded.
GiveUpQuietly(p) ==
    /\ proc[p].pc = "giveUp"
    /\ SetStatus(proc[p].on, "fulfilling")
    /\ Go(p, [proc[p] EXCEPT !.pc = "release", !.after = IF Op(p) = "renew" THEN "keep" ELSE "failed"])
    /\ UNCHANGED <<buy, checkout, day, domain, pass, outside, refunded, faults>>

\* The claim of this path is not conditional.
GiveUp(p) ==
    /\ proc[p].pc = "giveUp"
    /\ SetStatus(proc[p].on, "fulfilling")
    /\ Go(p, [proc[p] EXCEPT !.pc = "refund", !.after = IF Op(p) = "renew" THEN "keep" ELSE "failed"])
    /\ UNCHANGED <<buy, checkout, day, domain, pass, outside, refunded, faults>>

\* Stuck in the middle of an order for 30 minutes.
ListStuck ==
    /\ Between("paid")
    /\ \E some \in Batches({c \in With("fulfilling") : idle[c]}) : List("stuck", some, {})
    /\ UNCHANGED <<buy, checkout, charge, idle, day, domain, proc, outside, refunded, faults>>

ReconcileStuck(c) ==
    /\ pass.phase = "stuck" /\ Take(c)
    /\ Go(Reconciler, [At("stuck", c) EXCEPT !.caught = TRUE])
    /\ UNCHANGED <<buy, checkout, charge, idle, day, domain, outside, refunded, faults>>

\* A registration is looked up; renewals and transfers cannot be told apart
\* from the registrar's state and are left to an admin.
AskStuck(p) ==
    /\ proc[p].pc = "stuck"
    /\ \/ Op(p) = "register" /\ Goto(p, IF owned[Dom(p)] THEN "deliver" ELSE "requeue") /\ UNCHANGED faults
       \/ Op(p) = "register" /\ Fault("infoFails") /\ Goto(p, "requeue")
       \/ Op(p) # "register" /\ Goto(p, "note") /\ UNCHANGED faults
    /\ UNCHANGED <<buy, checkout, charge, idle, day, domain, pass, outside, refunded>>

\* "The registrar hasn't confirmed this order."
NoteStuck(p) ==
    /\ proc[p].pc = "note"
    /\ Write(proc[p].on, charge[proc[p].on])
    /\ Done(p)
    /\ UNCHANGED <<buy, checkout, day, domain, pass, outside, refunded, faults>>

ListTransfers ==
    /\ Between("stuck")
    /\ \E some \in Batches({d \in Domains : domain[d] = "transfer_pending"}) : List("transfers", some, {})
    /\ UNCHANGED <<buy, checkout, charge, idle, day, domain, proc, outside, refunded, faults>>

\* Done when the domain appears in the account, over when the registry says so.
ReconcileTransfer(d) ==
    /\ pass.phase = "transfers" /\ Take(d)
    /\ CASE owned[d]             -> Go(Reconciler, At("arrived", d))
         [] transfer[d] = "dead" -> Go(Reconciler, At("died", d))
         [] OTHER                -> UNCHANGED proc
    /\ UNCHANGED <<buy, checkout, charge, idle, day, domain, outside, refunded, faults>>

TransferArrived(p) ==
    /\ proc[p].pc = "arrived"
    /\ Show(proc[p].on, "active") /\ Done(p)
    /\ UNCHANGED <<buy, checkout, charge, idle, day, pass, outside, refunded, faults>>

TransferDied(p) ==
    /\ proc[p].pc = "died"
    /\ Show(proc[p].on, "failed") /\ Goto(p, "find")
    /\ UNCHANGED <<buy, checkout, charge, idle, day, pass, outside, refunded, faults>>

\* The transfer that was paid for is refunded.
FindTransfer(p) ==
    LET paidFor == {c \in With("fulfilled") : DomainOf[c] = proc[p].on /\ Operation[c] = "transfer"} IN
    /\ proc[p].pc = "find"
    /\ IF paidFor = {} THEN Done(p) ELSE \E c \in paidFor : Go(p, At("refund", c))
    /\ UNCHANGED <<buy, checkout, charge, idle, day, domain, pass, outside, refunded, faults>>

EndPass ==
    /\ Between("transfers")
    /\ pass' = NoPass
    /\ UNCHANGED <<buy, checkout, charge, idle, day, domain, proc, outside, refunded, faults>>

-----------------------------------------------------------------------------
(* The admin remedies *)

\* chargeRemedies: a refund only while none is recorded, a retry when stuck.
RefundOffered(c) ==
    /\ ~charge[c].refund
    /\ \/ charge[c].status = "failed" /\ checkout[c] = "paid"
       \/ charge[c].status \in {"fulfilling", "paid"} /\ idle[c]

RetryOffered(c) == charge[c].status \in {"fulfilling", "paid"} /\ idle[c]

\* retryDomainRefund goes straight from the check to Stripe.
AdminRefunds(a, c) ==
    /\ proc[a] = Rest /\ RefundOffered(c)
    /\ Go(a, At("refund", c))
    /\ UNCHANGED <<buy, checkout, charge, idle, day, domain, pass, outside, refunded, faults>>

AdminRetries(a, c) ==
    /\ proc[a] = Rest /\ RetryOffered(c)
    /\ Go(a, At("reset", c))
    /\ UNCHANGED <<buy, checkout, charge, idle, day, domain, pass, outside, refunded, faults>>

\* retryDomainCharge: fulfilling or paid -> paid, then the normal fulfilment.
Reset(p) ==
    LET c == proc[p].on IN
    /\ proc[p].pc = "reset"
    /\ IF charge[c].status \in {"fulfilling", "paid"}
       THEN SetStatus(c, "paid") /\ Goto(p, "claim")
       ELSE Done(p) /\ UNCHANGED <<charge, idle>>
    /\ UNCHANGED <<buy, checkout, day, domain, pass, outside, refunded, faults>>

-----------------------------------------------------------------------------
(* Crashes, the clock and the outside *)

\* The web process dies with the handler in it.
Crash(p) ==
    /\ proc[p].pc \notin {"rest", "over"}
    /\ Fault("crash")
    /\ Done(p)
    /\ pass' = IF p = Reconciler THEN NoPass ELSE pass
    /\ UNCHANGED <<buy, checkout, charge, idle, day, domain, outside, refunded>>

\* Registrar calls end within about a minute and a half, so a handler that is
\* alive never leaves its charge untouched for 30 minutes.
Attended(c) == \E p \in Procs : proc[p].on = c

HalfHourPasses(c) ==
    /\ charge[c].status \in {"paid", "fulfilling"} /\ ~idle[c] /\ ~Attended(c)
    /\ idle' = [idle EXCEPT ![c] = TRUE]
    /\ UNCHANGED <<buy, checkout, charge, day, domain, proc, pass, outside, refunded, faults>>

DayPasses(c) ==
    /\ charge[c].status \in {"paid", "fulfilling"} /\ ~day[c] /\ ~Attended(c)
    /\ day' = [day EXCEPT ![c] = TRUE]
    /\ UNCHANGED <<buy, checkout, charge, idle, domain, proc, pass, outside, refunded, faults>>

SessionEnds(c) ==
    /\ checkout[c] = "open"
    /\ \E end \in {"paid", "expired"} : checkout' = [checkout EXCEPT ![c] = end]
    /\ UNCHANGED <<buy, charge, idle, day, domain, proc, pass, outside, refunded, faults>>

TransferEnds(d) ==
    /\ transfer[d] = "moving"
    /\ \/ transfer' = [transfer EXCEPT ![d] = "none"] /\ owned' = [owned EXCEPT ![d] = TRUE]
       \/ transfer' = [transfer EXCEPT ![d] = "dead"] /\ UNCHANGED owned
    /\ UNCHANGED <<buy, checkout, charge, idle, day, domain, proc, pass, placed, refunded, faults>>

-----------------------------------------------------------------------------

CheckoutStep(c) == CheckoutLooks(c) \/ CheckoutCreates(c) \/ CheckoutHolds(c) \/ CheckoutCharges(c) \/ CheckoutOpens(c)

Step(p) ==
    \/ Claim(p) \/ Prepare(p) \/ OrderAccepted(p) \/ OrderUnreachable(p) \/ OrderRefused(p)
    \/ Ask(p) \/ Deliver(p) \/ Mark(p) \/ Dns(p) \/ Requeue(p)
    \/ Refund(p) \/ RecordRefund(p) \/ Release(p) \/ GiveUp(p) \/ AskStuck(p) \/ NoteStuck(p)
    \/ TransferArrived(p) \/ TransferDied(p) \/ FindTransfer(p) \/ Reset(p)

PassStep ==
    \/ BeginPass \/ ListStuck \/ ListTransfers \/ EndPass
    \/ \E c \in Charges : ReconcilePaid(c) \/ ReconcileStuck(c)
    \/ \E d \in Domains : ReconcileTransfer(d)

Next ==
    \/ \E c \in Charges : CheckoutStep(c) \/ CheckoutExpired(c) \/ SessionEnds(c)
                          \/ HalfHourPasses(c) \/ DayPasses(c)
    \/ \E c \in Charges : \/ \E w \in Webhooks : RecordPayment(w, c)
                          \/ \E a \in Admins : AdminRefunds(a, c) \/ AdminRetries(a, c)
    \/ \E p \in Procs : Step(p) \/ OrderAnswerLost(p) \/ RefundAnswerLost(p) \/ DatabaseFails(p) \/ Crash(p)
    \/ PassStep
    \/ \E d \in Domains : TransferEnds(d)

Spec == Init /\ [][Next]_vars

\* Handlers run on, the pass is started every hour, and time passes: no handler
\* holds a charge for long, so the clock gets its turn again and again.
Fairness ==
    /\ \A p \in Procs : WF_vars(Step(p))
    /\ WF_vars(PassStep)
    /\ \A c \in Charges : SF_vars(HalfHourPasses(c)) /\ SF_vars(DayPasses(c))

FairSpec == Spec /\ Fairness

-----------------------------------------------------------------------------
(* Properties *)

DomainStatuses == {"none", "pending_payment", "registering", "transfer_pending", "active", "failed", "expired"}
ChargeStatuses == {"none", "pending_payment", "paid", "fulfilling", "fulfilled", "failed", "refunded", "expired"}
Pcs == {"rest", "over", "claim", "prepare", "order", "ask", "deliver", "mark", "dns", "requeue", "refund", "record",
        "release", "giveUp", "stuck", "note", "arrived", "died", "find", "reset"}

\* Types of every variable.
TypeOK ==
    /\ buy \in [Charges -> {"new", "create", "hold", "charge", "session", "done"}]
    /\ checkout \in [Charges -> {"none", "open", "paid", "expired"}]
    /\ charge \in [Charges -> [status : ChargeStatuses, refund : BOOLEAN, data : BOOLEAN]]
    /\ idle \in [Charges -> BOOLEAN] /\ day \in [Charges -> BOOLEAN]
    /\ domain \in [Domains -> DomainStatuses]
    /\ proc \in [Procs -> [pc : Pcs, on : Charges \cup Domains \cup {"none"}, data : BOOLEAN, caught : BOOLEAN,
                           after : DomainStatuses \cup {"keep"}, ok : BOOLEAN]]
    /\ pass \in [phase : {"rest", "paid", "stuck", "transfers"}, todo : SUBSET (Charges \cup Domains),
                 late : SUBSET Charges]
    /\ placed \in [Charges -> Nat] /\ owned \in [Domains -> BOOLEAN]
    /\ transfer \in [Domains -> {"none", "moving", "dead"}]
    /\ refunded \in [Charges -> BOOLEAN]
    /\ faults \subseteq FaultKinds

Ordering == {"prepare", "order", "ask", "deliver", "mark", "requeue"}

\* "whoever loses the claim does nothing": one handler at a time is between the
\* claim of a charge and its end, whatever Stripe delivers again and the pass lists.
OneOrdering ==
    \A p, q \in Procs :
        p # q /\ proc[p].pc \in Ordering /\ proc[q].pc \in Ordering => proc[p].on # proc[q].on

\* What is completed was ordered for this charge, and a completed registration shows as an active domain,
\* whatever was lost or broke off between the registrar's answer and the two tables.
FulfilledIsReal ==
    \A c \in Charges : charge[c].status = "fulfilled" =>
        placed[c] > 0 /\ (Operation[c] = "register" => domain[DomainOf[c]] = "active")

\* What Jongo shows as active is held in our account at the registrar, whoever
\* retries, refunds or gives up.
ActiveIsOurs == \A d \in Domains : domain[d] = "active" => owned[d]

\* Nothing is ordered twice for one payment: "ordering twice is the one thing
\* this must never do".
OrderedOnce == \A c \in Charges : placed[c] <= 1

\* The record of a refund against Stripe.  Whatever goes wrong, no charge says refunded whose money was kept.
\* Without a crash, money that went back is never left with an order that may still be placed: once the handler
\* that asked has written down the answer the charge says refunded, or failed when that answer was lost.  And no
\* registration is both ordered and paid back while only answers are lost (a crash in a refund or a database error
\* after the order can do both: see the README).
Writing(c) == \E p \in Procs : proc[p].on = c /\ proc[p].pc = "record"
RefundsAgree ==
    \A c \in Charges :
        /\ charge[c].refund <=> charge[c].status = "refunded"
        /\ charge[c].refund => refunded[c]
        /\ "crash" \notin faults /\ ~Writing(c) /\ refunded[c] =>
              \/ charge[c].status = "refunded"
              \/ charge[c].status = "failed" /\ "lostRefund" \in faults
        /\ faults \subseteq {"lostAnswer", "lostRefund"} /\ Operation[c] = "register" =>
              ~(placed[c] > 0 /\ refunded[c])

\* A completed or refunded charge stays so, whatever is delivered or listed
\* again; only a transfer that dies at the registry is refunded afterwards, and
\* what the catch of a database error takes for a refusal.
FinalStays ==
    [][\A c \in Charges :
          \/ charge[c].status \notin {"fulfilled", "refunded"}
          \/ charge'[c].status = charge[c].status
          \/ charge[c].status = "fulfilled" /\ (transfer[DomainOf[c]] = "dead" \/ "dbError" \in faults)]_vars

Settled(c) == charge[c].status \in {"fulfilled", "refunded", "failed"}

\* "A paid order is never left silently undone": a paid registration is settled,
\* and a paid renewal or transfer is settled or offered to an admin.
NeverLeftUndone ==
    \A c \in Charges :
        charge[c].status = "paid" ~> Settled(c) \/ (Operation[c] # "register" /\ RetryOffered(c))
=============================================================================
