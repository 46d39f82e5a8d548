---------------------------- MODULE OutboxPromise ----------------------------
(* What the CMS outbox promises, whatever its workers do: an event stays open   *)
(* until it is settled once and for all, a receipt says "delivered" only when   *)
(* the target accepted the event, an event counts as delivered only when every *)
(* target that was enabled all along has one, and what is settled is never     *)
(* touched again.                                                              *)
CONSTANTS
    Events, Targets,
    Steady      \* the targets that are enabled all along

VARIABLES
    state,      \* per event: "none", "open", "delivered" or "failed"
    accepted,   \* the <<event, target>> pairs the target has accepted
    receipts    \* the pairs with a delivered receipt

vars == <<state, accepted, receipts>>

Init ==
    /\ state = [e \in Events |-> "none"]
    /\ accepted = {} /\ receipts = {}

Announce(e) ==
    /\ state[e] = "none"
    /\ state' = [state EXCEPT ![e] = "open"]
    /\ UNCHANGED <<accepted, receipts>>

\* At least once: a target may accept an event again, and even after it is settled.
Accept(e, t) ==
    /\ state[e] # "none"
    /\ accepted' = accepted \cup {<<e, t>>}
    /\ UNCHANGED <<state, receipts>>

Confirm(e, t) ==
    /\ state[e] = "open" /\ <<e, t>> \in accepted
    /\ receipts' = receipts \cup {<<e, t>>}
    /\ UNCHANGED <<state, accepted>>

\* Delivered to all of them, or given up.
Settle(e) ==
    /\ state[e] = "open"
    /\ \E s \in {"delivered", "failed"} :
          /\ s = "delivered" => {e} \X Steady \subseteq receipts
          /\ state' = [state EXCEPT ![e] = s]
    /\ UNCHANGED <<accepted, receipts>>

Next == \E e \in Events : Announce(e) \/ Settle(e) \/ \E t \in Targets : Accept(e, t) \/ Confirm(e, t)

Spec == Init /\ [][Next]_vars
=============================================================================
