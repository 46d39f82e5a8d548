-------------------------- MODULE SubscriptionEvents --------------------------
(* Subscription events (apps/web/src/lib/billing/subscription-events.ts) of one *)
(* account: Stripe delivers every event at least once, in any order. An event   *)
(* is handled in one transaction under the lock of the account's row, inside    *)
(* which the subscription is retrieved from Stripe; Stripe's own state goes on  *)
(* changing meanwhile. A retrieval is one action, and so is the rest of the     *)
(* transaction before the first and after the last of them.                     *)
(*                                                                            *)
(* A definition marked "Fault:" is not the code: it is a plausible mistake in  *)
(* the next definition, which the properties must notice.                      *)
EXTENDS Naturals, FiniteSets

CONSTANTS
    Subs,           \* subscriptions the customer may take out at Stripe
    Handlers,       \* webhook executions
    MaxChanges,     \* bound on the status changes of a subscription before it is canceled
    MaxFaults       \* bound on failed transactions

ASSUME SubscriptionAssumption == 0 \notin Subs /\ MaxChanges \in Nat /\ MaxFaults \in Nat

VARIABLES
    stripe,     \* per subscription: its status at Stripe, "none" before a checkout
    created,    \* per subscription: its place in the order of creation at Stripe
    changes,    \* per subscription: status changes so far
    doubled,    \* two subscriptions were alive at once
    sent,       \* the events Stripe delivers until they are acknowledged
    receipts,   \* StripeSubscriptionEvent: the events with an outcome
    account,    \* User: stripeSubscriptionId (0: null) and subscriptionStatus
    ended,      \* StripeSubscriptionState: the subscriptions marked terminal
    handler,    \* per execution: where it is, and what it has read
    faults      \* how many transactions have failed

provider == <<stripe, created, changes, doubled, sent>>
vars     == <<provider, receipts, account, ended, handler, faults>>

Event(s, type, n) == [sub |-> s, type |-> type, n |-> n]
NoAccount == [sub |-> 0, status |-> "none"]
AtRest    == [pc |-> "rest", event |-> {}, account |-> NoAccount, seen |-> "none"]
EventOf(h) == CHOOSE e \in handler[h].event : TRUE

Live(s) == stripe[s] \in {"active", "past_due"}

Init ==
    /\ stripe = [s \in Subs |-> "none"]
    /\ created = [s \in Subs |-> 0] /\ changes = [s \in Subs |-> 0]
    /\ doubled = FALSE
    /\ sent = {} /\ receipts = {}
    /\ account = NoAccount
    /\ ended = {}
    /\ handler = [h \in Handlers |-> AtRest]
    /\ faults = 0

-----------------------------------------------------------------------------
(* The customer and Stripe *)

\* api/billing/checkout: refused while the account has a plan. (One that is
\* "active" is not refused once its stored period is over, which may be any time.)
StartCheckout(s) ==
    /\ stripe[s] = "none"
    /\ account.status # "past_due"
    /\ stripe' = [stripe EXCEPT ![s] = "open"]
    /\ UNCHANGED <<created, changes, doubled, sent, receipts, account, ended, handler, faults>>

Pay(s) ==
    /\ stripe[s] = "open"
    /\ stripe' = [stripe EXCEPT ![s] = "active"]
    /\ created' = [created EXCEPT ![s] = Cardinality({x \in Subs : created[x] > 0}) + 1]
    /\ doubled' = (doubled \/ \E x \in Subs : Live(x))
    /\ sent' = sent \cup {Event(s, "checkout", 0)}
    /\ UNCHANGED <<changes, receipts, account, ended, handler, faults>>

\* A payment fails or is made good.
StatusChanges(s) ==
    /\ Live(s) /\ changes[s] < MaxChanges
    /\ stripe' = [stripe EXCEPT ![s] = IF @ = "active" THEN "past_due" ELSE "active"]
    /\ changes' = [changes EXCEPT ![s] = @ + 1]
    /\ sent' = sent \cup {Event(s, "updated", changes'[s])}
    /\ UNCHANGED <<created, doubled, receipts, account, ended, handler, faults>>

Cancel(s) ==
    /\ Live(s)
    /\ stripe' = [stripe EXCEPT ![s] = "canceled"]
    /\ sent' = sent \cup {Event(s, "deleted", 0)}
    /\ UNCHANGED <<created, changes, doubled, receipts, account, ended, handler, faults>>

-----------------------------------------------------------------------------
(* applySubscriptionEvent *)

\* Or "incomplete_expired", which a paid checkout never comes to.
Terminal(status) == status = "canceled"

\* Fault: the account's row is not locked.
Unlocked == TRUE

\* FOR UPDATE on the account's row.
LockFree == \A h \in Handlers : handler[h].pc = "rest"

\* Fault: a checkout of another subscription is obsolete too.
OthersObsolete(e) == account.sub \notin {0, e.sub} \/ e.sub \in ended

\* Events of a subscription that is over, or (but for checkouts) not the account's.
Obsolete(e) == (e.type # "checkout" /\ account.sub # e.sub) \/ e.sub \in ended

\* An event with a receipt is answered at once and changes nothing.
Begin(h, e) ==
    /\ handler[h].pc = "rest" /\ LockFree
    /\ e \notin receipts
    /\ IF Obsolete(e)
       THEN receipts' = receipts \cup {e} /\ UNCHANGED handler
       ELSE /\ handler' = [handler EXCEPT ![h] = [AtRest EXCEPT !.pc = "retrieve", !.event = {e}, !.account = account]]
            /\ UNCHANGED receipts
    /\ UNCHANGED <<provider, account, ended, faults>>

\* A checkout replaces a subscription that is not known to be over.
MustProve(h) ==
    LET mine == handler[h].account.sub IN
    EventOf(h).type = "checkout" /\ mine \notin {0, EventOf(h).sub} /\ mine \notin ended

Goes(h, pc, seen) == handler' = [handler EXCEPT ![h].pc = pc, ![h].seen = seen]

Retrieve(h) ==
    /\ handler[h].pc = "retrieve"
    /\ Goes(h, IF MustProve(h) THEN "old" ELSE "commit", stripe[EventOf(h).sub])
    /\ UNCHANGED <<provider, receipts, account, ended, faults>>

\* "resource_missing": only the deletion of the account's own subscription may go
\* on, from what the event says.
RetrieveMissing(h) ==
    /\ handler[h].pc = "retrieve"
    /\ EventOf(h).type = "deleted" /\ handler[h].account.sub = EventOf(h).sub
    /\ Goes(h, "commit", "canceled")
    /\ UNCHANGED <<provider, receipts, account, ended, faults>>

\* Fault: a checkout replaces a subscription whatever its status.
ReplaceAnyway(h) ==
    /\ handler[h].pc = "old"
    /\ Goes(h, "commit", handler[h].seen)
    /\ UNCHANGED <<provider, receipts, account, ended, faults>>

\* The account's subscription must be over at Stripe; else the checkout is "unrelated".
RetrieveOld(h) ==
    /\ handler[h].pc = "old"
    /\ IF Terminal(stripe[handler[h].account.sub])
       THEN Goes(h, "commit", handler[h].seen) /\ UNCHANGED receipts
       ELSE /\ handler' = [handler EXCEPT ![h] = AtRest]
            /\ receipts' = receipts \cup {EventOf(h)}
    /\ UNCHANGED <<provider, account, ended, faults>>

\* A checkout only replaces a subscription that was created before its own.
Newer(h) ==
    LET mine == handler[h].account.sub IN
    mine \notin {0, EventOf(h).sub} => created[EventOf(h).sub] > created[mine]

\* What is over stays over, a deletion ends, anything else is what was retrieved.
StatusOf(h) ==
    LET mine == handler[h].account IN
    CASE mine.sub = EventOf(h).sub /\ Terminal(mine.status)   -> mine.status
      [] EventOf(h).type = "deleted"                          -> "canceled"
      [] OTHER                                                -> handler[h].seen

\* Fault: the account's new status is not entered in the ledger.
EndsReplaced(h) == {handler[h].account.sub} \ {0, EventOf(h).sub}

\* The subscriptions the ledger marks terminal: the replaced one, and one that is over.
Ends(h) ==
    ({handler[h].account.sub} \ {0, EventOf(h).sub})
        \cup (IF Terminal(StatusOf(h)) THEN {EventOf(h).sub} ELSE {})

\* Fault: an older checkout gets no receipt.
CommitSilently(h) ==
    /\ handler[h].pc = "commit"
    /\ IF Newer(h)
       THEN /\ account' = [sub |-> EventOf(h).sub, status |-> StatusOf(h)] /\ ended' = ended \cup Ends(h)
            /\ receipts' = receipts \cup {EventOf(h)}
       ELSE UNCHANGED <<account, ended, receipts>>
    /\ handler' = [handler EXCEPT ![h] = AtRest]
    /\ UNCHANGED <<provider, faults>>

\* Account, ledger and receipt in one commit; an older checkout only gets a receipt.
Commit(h) ==
    LET e == EventOf(h) IN
    /\ handler[h].pc = "commit"
    /\ receipts' = receipts \cup {e}
    /\ IF Newer(h)
       THEN account' = [sub |-> e.sub, status |-> StatusOf(h)] /\ ended' = ended \cup Ends(h)
       ELSE UNCHANGED <<account, ended>>
    /\ handler' = [handler EXCEPT ![h] = AtRest]
    /\ UNCHANGED <<provider, faults>>

\* A retrieval, a statement or the process fails: nothing is written, the delivery
\* is not acknowledged.
Fail(h) ==
    /\ handler[h].pc # "rest" /\ faults < MaxFaults
    /\ handler' = [handler EXCEPT ![h] = AtRest]
    /\ faults' = faults + 1
    /\ UNCHANGED <<provider, receipts, account, ended>>

-----------------------------------------------------------------------------

Step(h) == Retrieve(h) \/ RetrieveMissing(h) \/ RetrieveOld(h) \/ Commit(h)

Deliver(e) == e \in sent /\ \E h \in Handlers : Begin(h, e)

Events == {Event(s, type, n) : s \in Subs, type \in {"checkout", "updated", "deleted"}, n \in 0..MaxChanges}

Next ==
    \/ \E s \in Subs : StartCheckout(s) \/ Pay(s) \/ StatusChanges(s) \/ Cancel(s)
    \/ \E e \in Events : Deliver(e)
    \/ \E h \in Handlers : Step(h) \/ Fail(h)

Spec == Init /\ [][Next]_vars

\* Handlers go on, and Stripe delivers an event until it is acknowledged.
Fairness ==
    /\ \A h \in Handlers : WF_vars(Step(h))
    /\ \A e \in Events : WF_vars(Deliver(e))

FairSpec == Spec /\ Fairness

-----------------------------------------------------------------------------
(* Properties *)

\* Types; the ledger agrees with the account on whether its subscription is over.
TypeOK ==
    /\ stripe \in [Subs -> {"none", "open", "active", "past_due", "canceled"}]
    /\ created \in [Subs -> Nat] /\ changes \in [Subs -> 0..MaxChanges] /\ doubled \in BOOLEAN
    /\ sent \subseteq Events /\ receipts \subseteq sent
    /\ account \in [sub : Subs \cup {0}, status : {"none", "active", "past_due", "canceled"}]
    /\ ended \subseteq Subs /\ (account.sub # 0 => (account.sub \in ended <=> Terminal(account.status)))
    /\ handler \in [Handlers -> [pc : {"rest", "retrieve", "old", "commit"}, event : SUBSET Events,
                                 account : [sub : Subs \cup {0}, status : {"none", "active", "past_due", "canceled"}],
                                 seen : {"none", "active", "past_due", "canceled"}]]
    /\ faults \in 0..MaxFaults

Quiet == receipts = sent /\ \A h \in Handlers : handler[h].pc = "rest"

\* When every event has its receipt, the account says what Stripe says, in
\* whichever order the events came: a late upgrade never undoes a cancellation.
StatusAgrees == Quiet /\ account.sub # 0 => account.status = stripe[account.sub]

\* A subscription that is paid for is the account's as soon as its events are
\* handled, unless the customer had two alive at once.
PaidIsServed == Quiet /\ ~doubled => \A s \in Subs : Live(s) => account.sub = s

\* "Old A cannot resurrect after replacement": the account only moves on from a
\* subscription that is over to one created later.
BoundMovesOn ==
    [][account'.sub # account.sub /\ account.sub # 0 =>
          Terminal(stripe[account.sub]) /\ created[account'.sub] > created[account.sub]]_vars

\* Every event is acknowledged in the end: no event waits for another for ever.
EventsEnd == <>[](sent = receipts)
=============================================================================
