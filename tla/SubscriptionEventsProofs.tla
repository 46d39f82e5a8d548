----------------------- MODULE SubscriptionEventsProofs -----------------------
(* Theorems about SubscriptionEvents, for every set of subscriptions and        *)
(* webhook executions and every bound on changes and faults: types, the         *)
(* agreement of the account with Stripe once its events are handled, and how    *)
(* the account moves from one subscription to the next.                         *)
EXTENDS SubscriptionEvents, FiniteSetTheorems, TLAPS

-----------------------------------------------------------------------------
(* What the proofs rest on *)

Begun(s) == stripe[s] \notin {"none", "open"}
Paid     == {x \in Subs : created[x] > 0}

\* What an event says has happened at Stripe, and a payment is announced.
SentIsTrue ==
    /\ \A e \in sent : /\ Begun(e.sub)
                       /\ e.type = "deleted" => stripe[e.sub] = "canceled"
                       /\ e.type = "updated" => e.n <= changes[e.sub]
    /\ \A s \in Subs : Begun(s) => Event(s, "checkout", 0) \in sent

\* Stripe creates one subscription after the other; one that is alive is the
\* newest, unless two have been alive at once.
InOrder ==
    /\ IsFiniteSet(Paid)
    /\ \A s \in Subs : created[s] <= Cardinality(Paid) /\ (created[s] = 0 <=> ~Begun(s))
    /\ ~doubled => \A s \in Subs : Live(s) => \A x \in Subs \ {s} : created[x] < created[s]

\* What the ledger calls terminal is over, and the account's subscription was paid.
LedgerIsTrue ==
    /\ \A s \in ended : stripe[s] = "canceled"
    /\ account.sub # 0 => Begun(account.sub)

\* The account says what Stripe says, or hears of it from an event to come.
NewsToCome == account.sub # 0 => account.status = stripe[account.sub] \/ \E e \in sent \ receipts : e.sub = account.sub

\* A checkout that was answered made the account's a subscription that is alive.
CheckoutsServed ==
    ~doubled => \A s \in Subs : Live(s) /\ Event(s, "checkout", 0) \in receipts => account.sub = s

\* The lock of the account's row.
OneHandler == \A g, h \in Handlers : handler[g].pc # "rest" /\ handler[h].pc # "rest" => g = h

\* A handler works on an event without a receipt, from what the account still says;
\* what it has retrieved is still so, or an event that says otherwise is to come.
Working(h, e) ==
    /\ handler[h].event = {e} /\ handler[h].account = account
    /\ e.sub \notin ended /\ (e.type # "checkout" => account.sub = e.sub)
    /\ handler[h].pc = "old" => account.sub \notin {0, e.sub}
    /\ handler[h].pc = "commit" /\ account.sub \notin {0, e.sub} => stripe[account.sub] = "canceled"
    /\ handler[h].pc \in {"old", "commit"} =>
          /\ handler[h].seen \in {"active", "past_due", "canceled"}
          /\ handler[h].seen = "canceled" => stripe[e.sub] = "canceled"
          /\ handler[h].seen = stripe[e.sub] \/ \E f \in sent \ receipts : f # e /\ f.sub = e.sub

InFlight == \A h \in Handlers : handler[h].pc # "rest" => \E e \in sent \ receipts : Working(h, e)

IInv == TypeOK /\ SentIsTrue /\ InOrder /\ LedgerIsTrue /\ NewsToCome /\ CheckoutsServed /\ OneHandler /\ InFlight

-----------------------------------------------------------------------------
(* Events and handlers *)

HandlerType == [pc : {"rest", "retrieve", "old", "commit"}, event : SUBSET Events,
                account : [sub : Subs \cup {0}, status : {"none", "active", "past_due", "canceled"}],
                seen : {"none", "active", "past_due", "canceled"}]

LEMMA EventParts ==
    /\ \A e \in Events : e.sub \in Subs /\ e.type \in {"checkout", "updated", "deleted"} /\ e.n \in 0..MaxChanges
    /\ \A s \in Subs, type \in {"checkout", "updated", "deleted"}, n \in 0..MaxChanges :
          /\ Event(s, type, n) \in Events
          /\ Event(s, type, n).sub = s /\ Event(s, type, n).type = type /\ Event(s, type, n).n = n
  BY DEF Events, Event

LEMMA EventIs ==
    ASSUME NEW h, NEW e, handler[h].event = {e}
    PROVE  EventOf(h) = e
  BY DEF EventOf

LEMMA AtRestTyped == AtRest \in HandlerType /\ AtRest.pc = "rest"
  BY DEF AtRest, HandlerType, NoAccount

\* A handler that goes on keeps its event and what it read of the account.
LEMMA GoesFields ==
    ASSUME TypeOK, NEW h \in Handlers, NEW pc \in {"old", "commit"},
           NEW seen \in {"none", "active", "past_due", "canceled"}, Goes(h, pc, seen)
    PROVE  /\ handler' \in [Handlers -> HandlerType]
           /\ handler'[h].pc = pc /\ handler'[h].seen = seen
           /\ handler'[h].event = handler[h].event /\ handler'[h].account = handler[h].account
           /\ \A g \in Handlers \ {h} : handler'[g] = handler[g]
<1>1. handler \in [Handlers -> HandlerType]
  BY DEF TypeOK, HandlerType
<1> DEFINE x == [handler[h] EXCEPT !.pc = pc, !.seen = seen]
<1>2. handler' = [handler EXCEPT ![h] = x]
  BY <1>1 DEF Goes
<1>3. /\ x \in HandlerType /\ x.pc = pc /\ x.seen = seen
      /\ x.event = handler[h].event /\ x.account = handler[h].account
  BY <1>1, ZenonT(30) DEF HandlerType
<1> HIDE DEF x
<1> QED
  BY <1>1, <1>2, <1>3

LEMMA RestFields ==
    ASSUME TypeOK, NEW h \in Handlers, handler' = [handler EXCEPT ![h] = AtRest]
    PROVE  /\ handler' \in [Handlers -> HandlerType] /\ handler'[h].pc = "rest"
           /\ \A g \in Handlers \ {h} : handler'[g] = handler[g]
<1>1. handler \in [Handlers -> HandlerType] /\ AtRest \in HandlerType /\ AtRest.pc = "rest"
  BY AtRestTyped DEF TypeOK, HandlerType
<1> HIDE DEF AtRest
<1> QED
  BY <1>1

\* Every handler that works has an event of its own that it works on.
LEMMA WorkingOn ==
    ASSUME IInv, NEW h \in Handlers, handler[h].pc # "rest"
    PROVE  \E e \in sent \ receipts :
              /\ Working(h, e) /\ EventOf(h) = e /\ e.sub \in Subs
              /\ e.type \in {"checkout", "updated", "deleted"} /\ Begun(e.sub)
              /\ \A g \in Handlers \ {h} : handler[g].pc = "rest"
<1>1. PICK e \in sent \ receipts : Working(h, e)
  BY DEF IInv, InFlight
<1>2. EventOf(h) = e
  BY <1>1, EventIs DEF Working
<1>3. e.sub \in Subs /\ e.type \in {"checkout", "updated", "deleted"} /\ Begun(e.sub)
  BY EventParts DEF IInv, TypeOK, SentIsTrue
<1>4. \A g \in Handlers \ {h} : handler[g].pc = "rest"
  BY DEF IInv, OneHandler
<1> QED
  BY <1>1, <1>2, <1>3, <1>4

LEMMA InvInit == Init => IInv
<1> SUFFICES ASSUME Init PROVE IInv
  OBVIOUS
<1> USE SubscriptionAssumption
<1>1. Paid = {} /\ IsFiniteSet(Paid) /\ Cardinality(Paid) = 0
  BY FS_EmptySet DEF Init, Paid
<1>2. TypeOK
  <2>1. handler \in [Handlers -> HandlerType]
    BY AtRestTyped DEF Init
  <2>2. account \in [sub : Subs \cup {0}, status : {"none", "active", "past_due", "canceled"}] /\ account.sub = 0
    BY DEF Init, NoAccount
  <2>3. /\ stripe \in [Subs -> {"none", "open", "active", "past_due", "canceled"}]
        /\ created \in [Subs -> Nat] /\ changes \in [Subs -> 0..MaxChanges] /\ faults \in 0..MaxFaults
    BY DEF Init
  <2>4. doubled \in BOOLEAN /\ sent \subseteq Events /\ receipts \subseteq sent /\ ended \subseteq Subs
    BY DEF Init
  <2> QED
    BY <2>1, <2>2, <2>3, <2>4, Zenon DEF TypeOK, HandlerType
<1>3. InOrder
  BY <1>1 DEF Init, InOrder, Begun, Live
<1>4. \A h \in Handlers : handler[h].pc = "rest"
  BY AtRestTyped DEF Init
<1>5. SentIsTrue /\ LedgerIsTrue /\ NewsToCome
  BY DEF Init, SentIsTrue, LedgerIsTrue, NewsToCome, Begun, NoAccount
<1>6. CheckoutsServed
  BY DEF Init, CheckoutsServed
<1> QED
  BY <1>2, <1>3, <1>4, <1>5, <1>6 DEF IInv, OneHandler, InFlight

-----------------------------------------------------------------------------
(* Steps of the customer and of Stripe *)

\* Stripe only goes on: what is over stays over, and a change of status is told.
Onward ==
    /\ sent \subseteq sent' /\ UNCHANGED receipts /\ UNCHANGED account /\ UNCHANGED ended
    /\ UNCHANGED handler /\ UNCHANGED faults
    /\ \A s \in Subs : stripe[s] = "canceled" => stripe'[s] = "canceled"
    /\ \A s \in Subs : Begun(s) => stripe'[s] \notin {"none", "open"}
    /\ \A s \in Subs : Begun(s) => stripe'[s] = stripe[s] \/ \E e \in sent' \ sent : e.sub = s

LEMMA OnwardInv ==
    ASSUME IInv, Onward
    PROVE  LedgerIsTrue' /\ NewsToCome' /\ OneHandler' /\ InFlight'
<1>1. LedgerIsTrue'
  BY DEF IInv, LedgerIsTrue, Onward, TypeOK, Begun
<1>2. NewsToCome'
  <2> SUFFICES ASSUME account.sub # 0
               PROVE  account.status = stripe'[account.sub] \/ \E e \in sent' \ receipts : e.sub = account.sub
    BY DEF NewsToCome, Onward
  <2>1. account.sub \in Subs /\ Begun(account.sub)
    BY DEF IInv, TypeOK, LedgerIsTrue
  <2>2. account.status = stripe[account.sub] \/ \E e \in sent \ receipts : e.sub = account.sub
    BY DEF IInv, NewsToCome
  <2>3. stripe'[account.sub] = stripe[account.sub] \/ \E e \in sent' \ sent : e.sub = account.sub
    BY <2>1 DEF Onward
  <2> QED
    BY <2>2, <2>3 DEF Onward, IInv, TypeOK
<1>3. OneHandler'
  BY DEF IInv, OneHandler, Onward
<1>4. ASSUME NEW h \in Handlers, handler[h].pc # "rest" PROVE \E e \in sent' \ receipts : Working(h, e)'
  <2>1. PICK e \in sent \ receipts : Working(h, e) /\ e.sub \in Subs /\ Begun(e.sub)
    BY <1>4, WorkingOn
  <2>2. stripe'[e.sub] = stripe[e.sub] \/ \E f \in sent' \ sent : f.sub = e.sub
    BY <2>1 DEF Onward
  <2>3. handler[h].pc \in {"old", "commit"} =>
          /\ handler[h].seen \in {"active", "past_due", "canceled"}
          /\ handler[h].seen = "canceled" => stripe'[e.sub] = "canceled"
    BY <2>1 DEF Working, Onward
  <2>4. handler[h].pc \in {"old", "commit"} =>
           handler[h].seen = stripe'[e.sub] \/ \E f \in sent' \ receipts : f # e /\ f.sub = e.sub
    BY <2>1, <2>2 DEF Working, Onward, IInv, TypeOK
  <2>5. handler[h].pc = "commit" /\ account.sub \notin {0, e.sub} => stripe'[account.sub] = "canceled"
    BY <2>1 DEF Working, Onward, IInv, TypeOK
  <2>6. Working(h, e)'
    BY <2>1, <2>3, <2>4, <2>5 DEF Working, Onward
  <2> QED
    BY <2>1, <2>6 DEF Onward
<1>5. InFlight'
  BY <1>4 DEF InFlight, Onward
<1> QED
  BY <1>1, <1>2, <1>3, <1>5

LEMMA InvCheckout ==
    ASSUME IInv, NEW s \in Subs, StartCheckout(s)
    PROVE  IInv'
<1>1. /\ stripe[s] = "none" /\ stripe' = [stripe EXCEPT ![s] = "open"]
      /\ UNCHANGED created /\ UNCHANGED changes /\ UNCHANGED doubled /\ UNCHANGED sent /\ UNCHANGED receipts
      /\ UNCHANGED account /\ UNCHANGED ended /\ UNCHANGED handler /\ UNCHANGED faults
  BY DEF StartCheckout
<1>2. stripe \in [Subs -> {"none", "open", "active", "past_due", "canceled"}]
  BY DEF IInv, TypeOK
<1>3. \A x \in Subs : stripe'[x] = stripe[x] \/ (stripe[x] = "none" /\ stripe'[x] = "open")
  BY <1>1, <1>2
<1>4. \A x \in Subs : (Begun(x)' <=> Begun(x)) /\ (Live(x)' <=> Live(x))
  BY <1>3 DEF Begun, Live
<1>5. Onward
  BY <1>1, <1>3 DEF Onward, Begun
<1>6. TypeOK'
  BY <1>1 DEF IInv, TypeOK
<1>7. SentIsTrue'
  BY <1>1, <1>3, <1>4, EventParts DEF IInv, TypeOK, SentIsTrue
<1>8. InOrder'
  BY <1>1, <1>4 DEF IInv, InOrder, Paid
<1>9. CheckoutsServed'
  BY <1>1, <1>4 DEF IInv, CheckoutsServed
<1> QED
  BY <1>5, <1>6, <1>7, <1>8, <1>9, OnwardInv DEF IInv

\* A payment makes the newest subscription; one that is alive then makes two of them.
LEMMA InvPay ==
    ASSUME IInv, NEW s \in Subs, Pay(s)
    PROVE  IInv'
<1> USE SubscriptionAssumption
<1> DEFINE n == Cardinality(Paid) + 1
           e == Event(s, "checkout", 0)
<1>1. /\ stripe[s] = "open" /\ stripe' = [stripe EXCEPT ![s] = "active"]
      /\ created' = [created EXCEPT ![s] = n]
      /\ doubled' = (doubled \/ \E x \in Subs : Live(x)) /\ sent' = sent \cup {e}
      /\ UNCHANGED changes /\ UNCHANGED receipts
      /\ UNCHANGED account /\ UNCHANGED ended /\ UNCHANGED handler /\ UNCHANGED faults
  BY DEF Pay, Paid
<1>2. /\ stripe \in [Subs -> {"none", "open", "active", "past_due", "canceled"}]
      /\ created \in [Subs -> Nat] /\ sent \subseteq Events /\ receipts \subseteq sent /\ doubled \in BOOLEAN
      /\ MaxChanges \in Nat
  BY DEF IInv, TypeOK
<1>3. e \in Events /\ e.sub = s /\ e.type = "checkout"
  BY <1>2, EventParts
<1>4. IsFiniteSet(Paid) /\ Cardinality(Paid) \in Nat /\ n \in Nat /\ n > 0
  BY FS_CardinalityType DEF IInv, InOrder
<1> HIDE DEF n, e
<1>5. stripe'[s] = "active" /\ \A x \in Subs \ {s} : stripe'[x] = stripe[x]
  BY <1>1, <1>2
<1>6. created'[s] = n /\ created[s] = 0 /\ \A x \in Subs \ {s} : created'[x] = created[x]
  BY <1>1, <1>2 DEF IInv, InOrder, Begun
<1>7. e \notin sent
  BY <1>1, <1>3 DEF IInv, SentIsTrue, Begun
<1>8. Onward
  BY <1>1, <1>5 DEF Onward, Begun
<1>9. TypeOK'
  <2>1. created' \in [Subs -> Nat]
    BY <1>1, <1>2, <1>4
  <2>2. stripe' \in [Subs -> {"none", "open", "active", "past_due", "canceled"}]
    BY <1>1, <1>2
  <2>3. sent' \subseteq Events /\ receipts' \subseteq sent' /\ doubled' \in BOOLEAN
    BY <1>1, <1>2, <1>3
  <2> QED
    BY <1>1, <2>1, <2>2, <2>3 DEF IInv, TypeOK
<1>10. SentIsTrue'
  <2>1. \A f \in sent : Begun(f.sub)' /\ (f.type = "deleted" => stripe'[f.sub] = "canceled")
    BY <1>1, <1>2, <1>5, EventParts DEF IInv, SentIsTrue, Begun
  <2>2. \A f \in sent : f.type = "updated" => f.n <= changes'[f.sub]
    BY <1>1 DEF IInv, SentIsTrue
  <2>3. Begun(s)' /\ \A x \in Subs \ {s} : Begun(x)' <=> Begun(x)
    BY <1>5 DEF Begun
  <2>4. \A x \in Subs : Begun(x)' => Event(x, "checkout", 0) \in sent'
    BY <1>1, <2>3 DEF IInv, SentIsTrue, e
  <2> QED
    BY <1>1, <1>3, <2>1, <2>2, <2>3, <2>4 DEF SentIsTrue
<1>11. InOrder'
  <2>1. Paid' = Paid \cup {s} /\ s \notin Paid
    BY <1>2, <1>4, <1>6 DEF Paid
  <2>2. IsFiniteSet(Paid') /\ Cardinality(Paid') = n
    BY <1>4, <2>1, FS_AddElement DEF n
  <2>3. \A x \in Subs : created[x] < n
    BY <1>2, <1>4 DEF IInv, InOrder, n
  <2>4. \A x \in Subs : created'[x] <= n /\ (created'[x] = 0 <=> ~Begun(x)')
    BY <1>2, <1>4, <1>5, <1>6, <2>3 DEF IInv, InOrder, Begun
  <2>5. ASSUME ~doubled', NEW x \in Subs, Live(x)', NEW y \in Subs \ {x} PROVE created'[y] < created'[x]
    <3>1. x = s
      BY <1>1, <1>5, <2>5 DEF Live
    <3> QED
      BY <1>6, <2>3, <3>1
  <2> QED
    BY <2>2, <2>4, <2>5 DEF InOrder
<1>12. CheckoutsServed'
  <2>1. e \notin receipts
    BY <1>2, <1>7
  <2>2. ASSUME ~doubled', NEW x \in Subs, Live(x)', Event(x, "checkout", 0) \in receipts PROVE account.sub = x
    <3>1. x = s
      BY <1>1, <1>5, <2>2 DEF Live
    <3> QED
      BY <2>1, <2>2, <3>1 DEF e
  <2> QED
    BY <1>1, <2>2 DEF CheckoutsServed
<1> QED
  BY <1>8, <1>9, <1>10, <1>11, <1>12, OnwardInv DEF IInv

\* A change of status or a cancellation sends an event that was not sent before.
LEMMA InvChange ==
    ASSUME IInv, NEW s \in Subs, StatusChanges(s) \/ Cancel(s)
    PROVE  IInv'
<1> USE SubscriptionAssumption
<1>1. PICK status \in {"active", "past_due", "canceled"}, n \in 0..MaxChanges, type \in {"updated", "deleted"} :
         /\ Live(s) /\ stripe' = [stripe EXCEPT ![s] = status]
         /\ changes[s] <= changes'[s] /\ changes' \in [Subs -> 0..MaxChanges]
         /\ \A x \in Subs \ {s} : changes'[x] = changes[x]
         /\ type = "updated" => n = changes'[s] /\ n > changes[s]
         /\ type = "deleted" <=> status = "canceled"
         /\ sent' = sent \cup {Event(s, type, n)}
  <2>1. changes \in [Subs -> 0..MaxChanges] /\ stripe \in [Subs -> {"none", "open", "active", "past_due", "canceled"}]
    BY DEF IInv, TypeOK
  <2>2. CASE StatusChanges(s)
    <3>1. /\ Live(s) /\ changes[s] < MaxChanges /\ changes' = [changes EXCEPT ![s] = changes[s] + 1]
          /\ sent' = sent \cup {Event(s, "updated", changes'[s])}
      BY <2>1, <2>2 DEF StatusChanges
    <3>2. PICK status \in {"active", "past_due"} : stripe' = [stripe EXCEPT ![s] = status]
      BY <2>1, <2>2 DEF StatusChanges
    <3>3. changes'[s] = changes[s] + 1 /\ changes'[s] \in 0..MaxChanges /\ changes' \in [Subs -> 0..MaxChanges]
          /\ changes'[s] > changes[s] /\ changes[s] <= changes'[s]
          /\ \A x \in Subs \ {s} : changes'[x] = changes[x]
      BY <2>1, <3>1
    <3> DEFINE m == changes'[s]
    <3>4. m \in 0..MaxChanges /\ m > changes[s] /\ sent' = sent \cup {Event(s, "updated", m)}
      BY <3>1, <3>3
    <3>5. "updated" # "deleted" /\ status # "canceled" /\ status \in {"active", "past_due", "canceled"}
      BY <3>2
    <3> QED
      BY <3>1, <3>2, <3>3, <3>4, <3>5
  <2>3. CASE Cancel(s)
    BY <2>1, <2>3 DEF Cancel
  <2> QED
    BY <2>2, <2>3
<1>2. /\ UNCHANGED created /\ UNCHANGED doubled /\ UNCHANGED receipts
      /\ UNCHANGED account /\ UNCHANGED ended /\ UNCHANGED handler /\ UNCHANGED faults
  BY DEF StatusChanges, Cancel
<1> DEFINE e == Event(s, type, n)
<1>3. e \in Events /\ e.sub = s /\ e.type = type /\ e.n = n
  BY EventParts
<1>4. sent' = sent \cup {e}
  BY <1>1
<1> HIDE DEF e
<1>5. /\ stripe \in [Subs -> {"none", "open", "active", "past_due", "canceled"}] /\ sent \subseteq Events
      /\ receipts \subseteq sent /\ changes \in [Subs -> 0..MaxChanges]
  BY DEF IInv, TypeOK
<1>6. stripe'[s] = status /\ stripe[s] \in {"active", "past_due"} /\ \A x \in Subs \ {s} : stripe'[x] = stripe[x]
  BY <1>1, <1>5 DEF Live
<1>7. e \notin sent
  BY <1>1, <1>3, <1>5, <1>6 DEF IInv, SentIsTrue
<1>8. Onward
  BY <1>2, <1>3, <1>4, <1>6, <1>7 DEF Onward, Begun
<1>9. TypeOK'
  <2>1. stripe' \in [Subs -> {"none", "open", "active", "past_due", "canceled"}]
    BY <1>1, <1>5
  <2>2. sent' \subseteq Events /\ receipts' \subseteq sent'
    BY <1>2, <1>3, <1>4, <1>5
  <2> QED
    BY <1>1, <1>2, <2>1, <2>2 DEF IInv, TypeOK
<1>10. \A x \in Subs : (Begun(x)' <=> Begun(x)) /\ (Live(x)' => Live(x))
  BY <1>1, <1>6 DEF Begun, Live
<1>11. SentIsTrue'
  <2>1. \A f \in sent : Begun(f.sub)' /\ (f.type = "deleted" => stripe'[f.sub] = "canceled")
    BY <1>5, <1>6, <1>10, EventParts DEF IInv, SentIsTrue
  <2>2. \A f \in sent : f.type = "updated" => f.n <= changes'[f.sub]
    <3> SUFFICES ASSUME NEW f \in sent, f.type = "updated" PROVE f.n <= changes'[f.sub]
      OBVIOUS
    <3>1. f.sub \in Subs /\ f.n \in 0..MaxChanges /\ f.n <= changes[f.sub]
      BY <1>5, EventParts DEF IInv, SentIsTrue
    <3> QED
      BY <1>1, <1>5, <3>1
  <2>3. Begun(e.sub)' /\ (e.type = "deleted" => stripe'[e.sub] = "canceled") /\ (e.type = "updated" => e.n <= changes'[e.sub])
    BY <1>1, <1>3, <1>6 DEF Begun
  <2>4. \A x \in Subs : Begun(x)' => Event(x, "checkout", 0) \in sent'
    BY <1>4, <1>10 DEF IInv, SentIsTrue
  <2> QED
    BY <1>4, <2>1, <2>2, <2>3, <2>4 DEF SentIsTrue
<1>12. InOrder'
  BY <1>2, <1>10 DEF IInv, InOrder, Paid
<1>13. CheckoutsServed'
  BY <1>2, <1>10 DEF IInv, CheckoutsServed
<1> QED
  BY <1>8, <1>9, <1>11, <1>12, <1>13, OnwardInv DEF IInv

-----------------------------------------------------------------------------
(* Steps of a handler *)

\* Stripe does not move while a handler steps.
LEMMA ProviderKept ==
    ASSUME IInv, UNCHANGED provider
    PROVE  SentIsTrue' /\ InOrder'
  BY DEF IInv, SentIsTrue, InOrder, Begun, Live, Paid, provider

\* One handler is at rest after the step and the others were: what they hold of the lock
\* and of their events is not in question.
LEMMA AllAtRest ==
    ASSUME \A h \in Handlers : handler'[h].pc = "rest"
    PROVE  OneHandler' /\ InFlight'
  BY DEF OneHandler, InFlight

\* An event of a subscription that is over, or not the account's, tells it nothing.
LEMMA InvBegin ==
    ASSUME IInv, NEW h \in Handlers, NEW e \in Events, e \in sent, Begin(h, e)
    PROVE  IInv'
<1>1. /\ \A g \in Handlers : handler[g].pc = "rest"
      /\ e \notin receipts /\ UNCHANGED provider /\ UNCHANGED account /\ UNCHANGED ended /\ UNCHANGED faults
  BY DEF Begin, LockFree
<1>2. /\ UNCHANGED stripe /\ UNCHANGED created /\ UNCHANGED changes /\ UNCHANGED doubled /\ UNCHANGED sent
      /\ receipts \subseteq sent /\ handler \in [Handlers -> HandlerType]
      /\ account \in [sub : Subs \cup {0}, status : {"none", "active", "past_due", "canceled"}]
  BY <1>1 DEF provider, IInv, TypeOK, HandlerType
<1>3. CASE Obsolete(e)
  <2>1. receipts' = receipts \cup {e} /\ UNCHANGED handler
    BY <1>3 DEF Begin
  <2>2. (e.type # "checkout" /\ account.sub # e.sub) \/ (stripe[e.sub] = "canceled" /\ e.sub \in ended)
    <3>1. (e.type # "checkout" /\ account.sub # e.sub) \/ e.sub \in ended
      BY <1>3 DEF Obsolete
    <3>2. e.sub \in ended => stripe[e.sub] = "canceled"
      BY DEF IInv, LedgerIsTrue
    <3> QED
      BY <3>1, <3>2
  <2>3. TypeOK'
    BY <1>1, <1>2, <2>1 DEF IInv, TypeOK
  <2>4. NewsToCome'
    <3>1. account.sub # 0 /\ account.sub = e.sub => account.status = stripe[account.sub]
      BY <2>2 DEF IInv, TypeOK, Terminal
    <3> QED
      BY <1>1, <1>2, <2>1, <3>1 DEF IInv, NewsToCome
  <2>5. CheckoutsServed'
    <3> SUFFICES ASSUME ~doubled, NEW s \in Subs, Live(s), Event(s, "checkout", 0) \in receipts \cup {e}
                 PROVE  account.sub = s
      BY <1>1, <1>2, <2>1 DEF CheckoutsServed, Live
    <3>1. Event(s, "checkout", 0) # e
      BY <2>2 DEF Event, Live
    <3> QED
      BY <3>1 DEF IInv, CheckoutsServed
  <2>6. LedgerIsTrue'
    BY <1>1, <1>2 DEF IInv, LedgerIsTrue, Begun
  <2>7. \A g \in Handlers : handler'[g].pc = "rest"
    BY <1>1, <2>1
  <2> QED
    BY <1>1, <2>3, <2>4, <2>5, <2>6, <2>7, ProviderKept, AllAtRest DEF IInv
<1>4. CASE ~Obsolete(e)
  <2> DEFINE x == [AtRest EXCEPT !.pc = "retrieve", !.event = {e}, !.account = account]
  <2>1. handler' = [handler EXCEPT ![h] = x] /\ UNCHANGED receipts
    BY <1>4 DEF Begin
  <2>2. x \in HandlerType /\ x.pc = "retrieve" /\ x.event = {e} /\ x.account = account
    BY <1>2 DEF AtRest, HandlerType, NoAccount
  <2> HIDE DEF x
  <2>3. handler' \in [Handlers -> HandlerType] /\ handler'[h] = x /\ \A g \in Handlers \ {h} : handler'[g] = handler[g]
    BY <1>2, <2>1, <2>2
  <2>4. TypeOK'
    BY <1>1, <1>2, <2>1, <2>3 DEF IInv, TypeOK, HandlerType
  <2>5. OneHandler'
    BY <1>1, <2>3 DEF OneHandler
  <2>6. Working(h, e)'
    BY <1>1, <1>4, <2>2, <2>3 DEF Working, Obsolete
  <2>7. InFlight'
    BY <1>1, <1>2, <2>1, <2>3, <2>6 DEF InFlight
  <2>8. LedgerIsTrue' /\ NewsToCome' /\ CheckoutsServed'
    BY <1>1, <1>2, <2>1 DEF IInv, LedgerIsTrue, NewsToCome, CheckoutsServed, Begun, Live
  <2> QED
    BY <1>1, <2>4, <2>5, <2>7, <2>8, ProviderKept DEF IInv
<1> QED
  BY <1>3, <1>4

\* What is retrieved is what Stripe says then; a checkout that replaces nothing needs no proof.
LEMMA InvRetrieve ==
    ASSUME IInv, NEW h \in Handlers, Retrieve(h) \/ RetrieveMissing(h)
    PROVE  IInv'
<1>1. handler[h].pc = "retrieve" /\ UNCHANGED provider /\ UNCHANGED receipts /\ UNCHANGED account
      /\ UNCHANGED ended /\ UNCHANGED faults
  BY DEF Retrieve, RetrieveMissing
<1>2. UNCHANGED stripe /\ UNCHANGED created /\ UNCHANGED changes /\ UNCHANGED doubled /\ UNCHANGED sent
  BY <1>1 DEF provider
<1>3. PICK e \in sent \ receipts :
         /\ Working(h, e) /\ EventOf(h) = e /\ e.sub \in Subs
         /\ e.type \in {"checkout", "updated", "deleted"} /\ Begun(e.sub)
         /\ \A g \in Handlers \ {h} : handler[g].pc = "rest"
  BY <1>1, WorkingOn
<1>4. stripe[e.sub] \in {"active", "past_due", "canceled"}
  BY <1>3 DEF Begun, IInv, TypeOK
<1>5. handler[h].account = account
  BY <1>3 DEF Working
<1>6. PICK pc \in {"old", "commit"} :
         /\ Goes(h, pc, stripe[e.sub])
         /\ pc = "old" => account.sub \notin {0, e.sub}
         /\ pc = "commit" /\ account.sub \notin {0, e.sub} => account.sub \in ended
  <2>1. CASE Retrieve(h)
    BY <1>3, <1>5, <2>1 DEF Retrieve, MustProve, Working
  <2>2. CASE RetrieveMissing(h)
    <3>1. e.type = "deleted" /\ account.sub = e.sub /\ Goes(h, "commit", "canceled")
      BY <1>3, <1>5, <2>2 DEF RetrieveMissing
    <3>2. stripe[e.sub] = "canceled"
      BY <3>1 DEF IInv, SentIsTrue
    <3> QED
      BY <3>1, <3>2
  <2> QED
    BY <2>1, <2>2
<1>7. /\ handler' \in [Handlers -> HandlerType]
      /\ handler'[h].pc = pc /\ handler'[h].seen = stripe[e.sub]
      /\ handler'[h].event = handler[h].event /\ handler'[h].account = handler[h].account
      /\ \A g \in Handlers \ {h} : handler'[g] = handler[g]
  BY <1>4, <1>6, GoesFields DEF IInv
<1>8. TypeOK'
  BY <1>1, <1>2, <1>7 DEF IInv, TypeOK, HandlerType
<1>9. account.sub \in ended => stripe[account.sub] = "canceled"
  BY DEF IInv, LedgerIsTrue
<1>10. Working(h, e)'
  BY <1>1, <1>2, <1>3, <1>4, <1>6, <1>7, <1>9 DEF Working
<1>11. OneHandler' /\ InFlight'
  BY <1>1, <1>2, <1>3, <1>7, <1>10 DEF OneHandler, InFlight
<1>12. LedgerIsTrue' /\ NewsToCome' /\ CheckoutsServed'
  BY <1>1, <1>2 DEF IInv, LedgerIsTrue, NewsToCome, CheckoutsServed, Begun, Live
<1> QED
  BY <1>1, <1>8, <1>11, <1>12, ProviderKept DEF IInv

\* A failed transaction leaves nothing behind.
LEMMA InvFail ==
    ASSUME IInv, NEW h \in Handlers, Fail(h)
    PROVE  IInv'
<1>1. /\ handler[h].pc # "rest" /\ handler' = [handler EXCEPT ![h] = AtRest]
      /\ UNCHANGED provider /\ UNCHANGED receipts /\ UNCHANGED account /\ UNCHANGED ended
  BY DEF Fail
<1>2. faults' \in 0..MaxFaults
  BY SubscriptionAssumption DEF Fail, IInv, TypeOK
<1>3. UNCHANGED stripe /\ UNCHANGED created /\ UNCHANGED changes /\ UNCHANGED doubled /\ UNCHANGED sent
  BY <1>1 DEF provider
<1>4. /\ handler' \in [Handlers -> HandlerType] /\ handler'[h].pc = "rest"
      /\ \A g \in Handlers \ {h} : handler'[g] = handler[g]
  BY <1>1, RestFields DEF IInv
<1>5. \A g \in Handlers : handler'[g].pc = "rest"
  BY <1>1, <1>4, WorkingOn
<1>6. TypeOK'
  BY <1>1, <1>2, <1>3, <1>4 DEF IInv, TypeOK, HandlerType
<1>7. LedgerIsTrue' /\ NewsToCome' /\ CheckoutsServed'
  BY <1>1, <1>3 DEF IInv, LedgerIsTrue, NewsToCome, CheckoutsServed, Begun, Live
<1> QED
  BY <1>1, <1>5, <1>6, <1>7, ProviderKept, AllAtRest DEF IInv

\* A checkout of another subscription than the account's is answered without effect
\* only when the account's is not over; the two are then alive at once.
LEMMA InvRetrieveOld ==
    ASSUME IInv, NEW h \in Handlers, RetrieveOld(h)
    PROVE  IInv'
<1>1. handler[h].pc = "old" /\ UNCHANGED provider /\ UNCHANGED account /\ UNCHANGED ended /\ UNCHANGED faults
  BY DEF RetrieveOld
<1>2. UNCHANGED stripe /\ UNCHANGED created /\ UNCHANGED changes /\ UNCHANGED doubled /\ UNCHANGED sent
  BY <1>1 DEF provider
<1>3. PICK e \in sent \ receipts :
         /\ Working(h, e) /\ EventOf(h) = e /\ e.sub \in Subs
         /\ e.type \in {"checkout", "updated", "deleted"} /\ Begun(e.sub)
         /\ \A g \in Handlers \ {h} : handler[g].pc = "rest"
  BY <1>1, WorkingOn
<1>4. /\ handler[h].account = account /\ account.sub \notin {0, e.sub}
      /\ handler[h].seen \in {"active", "past_due", "canceled"}
  BY <1>1, <1>3 DEF Working
<1>5. account.sub \in Subs /\ Begun(account.sub)
  BY <1>4 DEF IInv, TypeOK, LedgerIsTrue
<1>6. LedgerIsTrue'
  BY <1>1, <1>2 DEF IInv, LedgerIsTrue, Begun
<1>7. CASE Terminal(stripe[account.sub])
  <2>1. Goes(h, "commit", handler[h].seen) /\ UNCHANGED receipts
    BY <1>4, <1>7 DEF RetrieveOld
  <2>2. /\ handler' \in [Handlers -> HandlerType]
        /\ handler'[h].pc = "commit" /\ handler'[h].seen = handler[h].seen
        /\ handler'[h].event = handler[h].event /\ handler'[h].account = handler[h].account
        /\ \A g \in Handlers \ {h} : handler'[g] = handler[g]
    BY <1>4, <2>1, GoesFields DEF IInv
  <2>3. TypeOK'
    BY <1>1, <1>2, <2>1, <2>2 DEF IInv, TypeOK, HandlerType
  <2>4. Working(h, e)'
    BY <1>1, <1>2, <1>3, <1>7, <2>1, <2>2 DEF Working, Terminal
  <2>5. OneHandler' /\ InFlight'
    BY <1>1, <1>2, <1>3, <2>1, <2>2, <2>4 DEF OneHandler, InFlight
  <2>6. NewsToCome' /\ CheckoutsServed'
    BY <1>1, <1>2, <2>1 DEF IInv, NewsToCome, CheckoutsServed, Live
  <2> QED
    BY <1>1, <1>6, <2>3, <2>5, <2>6, ProviderKept DEF IInv
<1>8. CASE ~Terminal(stripe[account.sub])
  <2>1. handler' = [handler EXCEPT ![h] = AtRest] /\ receipts' = receipts \cup {e}
    BY <1>3, <1>4, <1>8 DEF RetrieveOld
  <2>2. handler' \in [Handlers -> HandlerType] /\ \A g \in Handlers : handler'[g].pc = "rest"
    BY <1>3, <2>1, RestFields DEF IInv
  <2>3. TypeOK'
    BY <1>1, <1>2, <2>1, <2>2 DEF IInv, TypeOK, HandlerType
  <2>4. NewsToCome'
    BY <1>1, <1>2, <1>4, <2>1 DEF IInv, NewsToCome
  <2>5. Live(account.sub)
    BY <1>5, <1>8 DEF Live, Begun, Terminal, IInv, TypeOK
  <2>6. ASSUME ~doubled, Live(e.sub) PROVE FALSE
    <3>1. created[account.sub] < created[e.sub] /\ created[e.sub] < created[account.sub]
      BY <1>3, <1>4, <1>5, <2>5, <2>6 DEF IInv, InOrder
    <3>2. created[account.sub] \in Nat /\ created[e.sub] \in Nat
      BY <1>3, <1>5 DEF IInv, TypeOK
    <3> QED
      BY <3>1, <3>2
  <2>7. CheckoutsServed'
    <3> SUFFICES ASSUME ~doubled, NEW s \in Subs, Live(s), Event(s, "checkout", 0) \in receipts \cup {e}
                 PROVE  account.sub = s
      BY <1>1, <1>2, <2>1 DEF CheckoutsServed, Live
    <3>1. Event(s, "checkout", 0) # e
      BY <2>6 DEF Event
    <3> QED
      BY <3>1 DEF IInv, CheckoutsServed
  <2> QED
    BY <1>1, <1>6, <2>2, <2>3, <2>4, <2>7, ProviderKept, AllAtRest DEF IInv
<1> QED
  BY <1>7, <1>8

\* What a commit writes: the status agrees with what was retrieved, and the ledger with the account.
LEMMA CommitFields ==
    ASSUME IInv, NEW h \in Handlers, NEW e \in sent \ receipts, Working(h, e), EventOf(h) = e,
           e.sub \in Subs, handler[h].pc = "commit"
    PROVE  /\ StatusOf(h) \in {"active", "past_due", "canceled"}
           /\ StatusOf(h) = "canceled" => stripe[e.sub] = "canceled"
           /\ StatusOf(h) = stripe[e.sub] \/ \E f \in sent \ receipts : f # e /\ f.sub = e.sub
           /\ \A s \in Ends(h) : s \in Subs /\ stripe[s] = "canceled"
           /\ e.sub \in Ends(h) <=> Terminal(StatusOf(h))
<1>1. handler[h].account = account /\ (account.sub \in {0} \cup Subs)
  BY DEF Working, IInv, TypeOK
<1>2. account.sub = e.sub /\ account.status = "canceled" => stripe[e.sub] = "canceled"
  BY SubscriptionAssumption DEF IInv, TypeOK, LedgerIsTrue, Terminal
<1>3. e.type = "deleted" => stripe[e.sub] = "canceled"
  BY DEF IInv, SentIsTrue
<1>4. /\ handler[h].seen \in {"active", "past_due", "canceled"}
      /\ handler[h].seen = "canceled" => stripe[e.sub] = "canceled"
      /\ handler[h].seen = stripe[e.sub] \/ \E f \in sent \ receipts : f # e /\ f.sub = e.sub
  BY DEF Working
<1>5. StatusOf(h) = handler[h].seen \/ (StatusOf(h) = "canceled" /\ stripe[e.sub] = "canceled")
  BY <1>1, <1>2, <1>3 DEF StatusOf, Terminal
<1>6. /\ StatusOf(h) \in {"active", "past_due", "canceled"}
      /\ StatusOf(h) = "canceled" => stripe[e.sub] = "canceled"
      /\ StatusOf(h) = stripe[e.sub] \/ \E f \in sent \ receipts : f # e /\ f.sub = e.sub
  BY <1>4, <1>5
<1>7. account.sub \notin {0, e.sub} => stripe[account.sub] = "canceled"
  BY DEF Working
<1> HIDE DEF StatusOf
<1>8. Ends(h) = ({account.sub} \ {0, e.sub}) \cup (IF Terminal(StatusOf(h)) THEN {e.sub} ELSE {})
  BY <1>1 DEF Ends
<1>9. \A s \in Ends(h) : s \in Subs /\ stripe[s] = "canceled"
  BY <1>1, <1>6, <1>7, <1>8 DEF Terminal
<1>10. e.sub \in Ends(h) <=> Terminal(StatusOf(h))
  BY <1>8
<1> QED
  BY <1>6, <1>9, <1>10

LEMMA InvCommit ==
    ASSUME IInv, NEW h \in Handlers, Commit(h)
    PROVE  IInv'
<1>1. handler[h].pc = "commit" /\ UNCHANGED provider /\ UNCHANGED faults /\ handler' = [handler EXCEPT ![h] = AtRest]
  BY DEF Commit
<1>2. UNCHANGED stripe /\ UNCHANGED created /\ UNCHANGED changes /\ UNCHANGED doubled /\ UNCHANGED sent
  BY <1>1 DEF provider
<1>3. PICK e \in sent \ receipts :
         /\ Working(h, e) /\ EventOf(h) = e /\ e.sub \in Subs
         /\ e.type \in {"checkout", "updated", "deleted"} /\ Begun(e.sub)
         /\ \A g \in Handlers \ {h} : handler[g].pc = "rest"
  BY <1>1, WorkingOn
<1>4. /\ handler[h].account = account /\ e.sub \notin ended
      /\ account.sub \notin {0, e.sub} => stripe[account.sub] = "canceled"
  BY <1>1, <1>3 DEF Working
<1>5. receipts' = receipts \cup {e} /\ handler' \in [Handlers -> HandlerType] /\ \A g \in Handlers : handler'[g].pc = "rest"
  <2>1. receipts' = receipts \cup {e}
    BY <1>3 DEF Commit
  <2> QED
    BY <1>1, <1>3, <2>1, RestFields DEF IInv
<1>6. \A s \in Subs : Event(s, "checkout", 0) \in receipts' => Event(s, "checkout", 0) \in receipts \/ s = e.sub
  BY <1>5 DEF Event
<1>7. CASE Newer(h)
  <2>1. account' = [sub |-> e.sub, status |-> StatusOf(h)] /\ ended' = ended \cup Ends(h)
    BY <1>3, <1>7 DEF Commit
  <2>2. /\ StatusOf(h) \in {"active", "past_due", "canceled"}
        /\ StatusOf(h) = stripe[e.sub] \/ \E f \in sent \ receipts : f # e /\ f.sub = e.sub
        /\ \A s \in Ends(h) : s \in Subs /\ stripe[s] = "canceled"
        /\ e.sub \in Ends(h) <=> Terminal(StatusOf(h))
    BY <1>1, <1>3, CommitFields
  <2>3. account'.sub = e.sub /\ account'.status = StatusOf(h)
    BY <2>1
  <2>4. TypeOK'
    <3>1. account' \in [sub : Subs \cup {0}, status : {"none", "active", "past_due", "canceled"}]
      BY <1>3, <2>1, <2>2
    <3>2. ended' \subseteq Subs /\ (account'.sub \in ended' <=> Terminal(account'.status))
      BY <1>4, <2>1, <2>2, <2>3 DEF IInv, TypeOK
    <3>3. receipts' \subseteq sent'
      BY <1>2, <1>5 DEF IInv, TypeOK
    <3> QED
      BY <1>1, <1>2, <1>5, <3>1, <3>2, <3>3 DEF IInv, TypeOK, HandlerType
  <2>5. LedgerIsTrue'
    BY <1>2, <1>3, <2>1, <2>2, <2>3 DEF IInv, LedgerIsTrue, Begun
  <2>6. NewsToCome'
    BY <1>2, <1>5, <2>2, <2>3 DEF NewsToCome
  <2>7. CheckoutsServed'
    <3> SUFFICES ASSUME ~doubled, NEW s \in Subs, Live(s), Event(s, "checkout", 0) \in receipts' PROVE e.sub = s
      BY <1>2, <2>3 DEF CheckoutsServed, Live
    <3>1. CASE s = e.sub
      BY <3>1
    <3>2. CASE s # e.sub
      <4>1. account.sub = s
        BY <1>6, <3>2 DEF IInv, CheckoutsServed
      <4>2. stripe[s] = "canceled"
        BY <1>4, <3>2, <4>1, SubscriptionAssumption
      <4> QED
        BY <4>2 DEF Live
    <3> QED
      BY <3>1, <3>2
  <2> QED
    BY <1>1, <1>5, <2>4, <2>5, <2>6, <2>7, ProviderKept, AllAtRest DEF IInv
<1>8. CASE ~Newer(h)
  <2>1. UNCHANGED account /\ UNCHANGED ended
    BY <1>8 DEF Commit
  <2>2. account.sub \notin {0, e.sub} /\ ~(created[e.sub] > created[account.sub])
    BY <1>3, <1>4, <1>8 DEF Newer
  <2>3. account.sub \in Subs
    BY <2>2 DEF IInv, TypeOK
  <2>4. TypeOK'
    BY <1>1, <1>2, <1>5, <2>1 DEF IInv, TypeOK, HandlerType
  <2>5. LedgerIsTrue'
    BY <1>2, <2>1 DEF IInv, LedgerIsTrue, Begun
  <2>6. NewsToCome'
    BY <1>2, <1>5, <2>1, <2>2 DEF IInv, NewsToCome
  <2>7. doubled \/ ~Live(e.sub)
    BY <1>3, <2>2, <2>3 DEF IInv, InOrder, TypeOK
  <2>8. CheckoutsServed'
    BY <1>2, <1>6, <2>1, <2>7 DEF IInv, CheckoutsServed, Live
  <2> QED
    BY <1>1, <1>5, <2>4, <2>5, <2>6, <2>8, ProviderKept, AllAtRest DEF IInv
<1> QED
  BY <1>7, <1>8

-----------------------------------------------------------------------------
(* Theorems *)

LEMMA InvStep == IInv /\ [Next]_vars => IInv'
<1> SUFFICES ASSUME IInv, [Next]_vars PROVE IInv'
  OBVIOUS
<1>1. CASE UNCHANGED vars
  <2>1. /\ UNCHANGED provider /\ UNCHANGED receipts /\ UNCHANGED account /\ UNCHANGED ended
        /\ UNCHANGED handler /\ UNCHANGED faults
    BY <1>1 DEF vars
  <2>2. UNCHANGED stripe /\ UNCHANGED created /\ UNCHANGED changes /\ UNCHANGED doubled /\ UNCHANGED sent
    BY <2>1 DEF provider
  <2>3. Onward
    BY <2>1, <2>2 DEF Onward, Begun
  <2>4. TypeOK'
    BY <2>1, <2>2 DEF IInv, TypeOK
  <2>5. CheckoutsServed'
    BY <2>1, <2>2 DEF IInv, CheckoutsServed, Live
  <2> QED
    BY <2>1, <2>3, <2>4, <2>5, OnwardInv, ProviderKept DEF IInv
<1>2. CASE Next
  BY <1>2, InvCheckout, InvPay, InvChange, InvBegin, InvRetrieve, InvRetrieveOld, InvCommit, InvFail
     DEF Next, Deliver, Step
<1> QED
  BY <1>1, <1>2

LEMMA InvHolds == Spec => []IInv
  BY InvInit, InvStep, PTL DEF Spec

\* Account, ledger, events and handlers stay what they are, and the ledger agrees
\* with the account on whether its subscription is over.
THEOREM TypeCorrect == Spec => []TypeOK
<1>1. IInv => TypeOK
  BY DEF IInv
<1> QED
  BY <1>1, InvHolds, PTL

\* When every event has its receipt, the account says what Stripe says, in whichever
\* order the events came and whatever failed.
THEOREM StatusHolds == Spec => []StatusAgrees
<1>1. IInv => StatusAgrees
  BY DEF IInv, NewsToCome, StatusAgrees, Quiet
<1> QED
  BY <1>1, InvHolds, PTL

\* A subscription that is paid for is the account's once its events are handled,
\* unless the customer had two alive at once.
THEOREM PaidServed == Spec => []PaidIsServed
<1>1. IInv => PaidIsServed
  <2> SUFFICES ASSUME IInv, Quiet, ~doubled, NEW s \in Subs, Live(s) PROVE account.sub = s
    BY DEF PaidIsServed
  <2>1. Event(s, "checkout", 0) \in receipts
    BY DEF IInv, SentIsTrue, Begun, Live, Quiet
  <2> QED
    BY <2>1 DEF IInv, CheckoutsServed
<1> QED
  BY <1>1, InvHolds, PTL

\* The account only moves on from a subscription that is over at Stripe to one that
\* was created later.
THEOREM MovesOn == Spec => BoundMovesOn
<1> DEFINE Forward == account'.sub # account.sub /\ account.sub # 0 =>
                         Terminal(stripe[account.sub]) /\ created[account'.sub] > created[account.sub]
<1>1. IInv /\ [Next]_vars => [Forward]_vars
  <2> SUFFICES ASSUME IInv, Next, account'.sub # account.sub, account.sub # 0
               PROVE  Terminal(stripe[account.sub]) /\ created[account'.sub] > created[account.sub]
    OBVIOUS
  <2>1. PICK h \in Handlers : Commit(h) /\ Newer(h)
    BY DEF Next, StartCheckout, Pay, StatusChanges, Cancel, Deliver, Begin, Step, Retrieve, RetrieveMissing, RetrieveOld,
           Commit, Fail
  <2>2. PICK e \in sent \ receipts : Working(h, e) /\ EventOf(h) = e
    BY <2>1, WorkingOn DEF Commit
  <2>3. account'.sub = e.sub /\ handler[h].account = account /\ handler[h].pc = "commit"
    BY <2>1, <2>2 DEF Commit, Working
  <2>4. stripe[account.sub] = "canceled"
    BY <2>2, <2>3 DEF Working
  <2>5. created[e.sub] > created[account.sub]
    BY <2>1, <2>2, <2>3 DEF Newer
  <2> QED
    BY <2>3, <2>4, <2>5 DEF Terminal
<1> QED
  BY <1>1, InvHolds, PTL DEF Spec, BoundMovesOn
=============================================================================
