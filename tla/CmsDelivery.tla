----------------------------- MODULE CmsDelivery -----------------------------
(* Publication, images and delivery together: every pointer move writes an      *)
(* outbox row in its own transaction, the dispatcher announces it, and a target *)
(* that is told of an event fetches the publication again                      *)
(* (api/content/v1/datasets/[datasetId]/marketing). The events are the         *)
(* revisions of the pointer. Of the dispatcher only its promise is used here,  *)
(* which CmsOutbox is shown to keep.                                           *)
EXTENDS CmsMedia

CONSTANT
    Targets         \* delivery targets, all of them enabled

ASSUME DeliveryAssumption ==
    MaxRevision \in Nat /\ MaxFaults \in Nat /\ NoImage \notin Images /\ Nobody \notin Cleaners

Events == 1..MaxRevision

VARIABLES
    state, accepted, receipts,  \* what the outbox promises: see OutboxPromise
    site                        \* per target: the revision and release its pages were built from

outboxVars == <<state, accepted, receipts>>
vars == <<publicationVars, mediaVars, outboxVars, site>>

Outbox == INSTANCE OutboxPromise WITH Steady <- Targets

Init ==
    /\ MediaInit /\ Outbox!Init
    /\ site = [t \in Targets |-> pointer]

-----------------------------------------------------------------------------

\* Fault: the outbox row repeats the revision that was live before.
AnnounceOld(seen) ==
    /\ Unlocked /\ Move(seen)
    /\ IF pointer.revision = 0 THEN UNCHANGED outboxVars ELSE Outbox!Announce(pointer.revision)
    /\ UNCHANGED <<mediaVars, site>>

\* createMarketingRelease, unpublishMarketing, rollbackMarketingRelease.
MoveAndAnnounce(seen) ==
    /\ Unlocked /\ Move(seen)
    /\ Outbox!Announce(pointer'.revision)
    /\ UNCHANGED <<mediaVars, site>>

\* Fault: a target is answered from what it was told before, if anything.
DeliverCached(e, t) ==
    /\ Outbox!Accept(e, t)
    /\ site' = [site EXCEPT ![t] = IF @.revision = 0 THEN pointer ELSE @]
    /\ UNCHANGED <<publicationVars, mediaVars>>

\* A target that accepts an event reads the live publication, not the event's.
Deliver(e, t) ==
    /\ Outbox!Accept(e, t)
    /\ site' = [site EXCEPT ![t] = pointer]
    /\ UNCHANGED <<publicationVars, mediaVars>>

Confirm(e, t) == Outbox!Confirm(e, t) /\ UNCHANGED <<publicationVars, mediaVars, site>>
Settle(e) == Outbox!Settle(e) /\ UNCHANGED <<publicationVars, mediaVars, site>>

Next ==
    \/ \E seen \in 0..pointer.revision : MoveAndAnnounce(seen)
    \/ \E e \in Events : Settle(e) \/ \E t \in Targets : Deliver(e, t) \/ Confirm(e, t)
    \/ MediaNext /\ UNCHANGED <<outboxVars, site>>

Spec == Init /\ [][Next]_vars
-----------------------------------------------------------------------------
(* Properties *)

\* Types of publication, images, outbox and targets.
TypeOK ==
    /\ PublicationTypeOK /\ MediaTypeOK
    /\ state \in [Events -> {"none", "open", "delivered", "failed"}]
    /\ accepted \subseteq Events \X Targets /\ receipts \subseteq accepted
    /\ site \in [Targets -> [revision : 0..pointer.revision, status : {"absent", "active", "revoked"},
                           release : 0..Len(releases)]]

\* A delivered receipt means that the target's pages are as new as the event: a
\* takedown that was delivered is not undone by what the target still shows.
DeliveredIsFresh ==
    \A e \in Events, t \in Targets : <<e, t>> \in receipts => site[t].revision >= e

Shown(i) ==
    \/ pointer.release # 0 /\ i \in releases[pointer.release]
    \/ \E t \in Targets : site[t].release # 0 /\ i \in releases[site[t].release]

\* "Revoked media never returns": a revoked image that neither the live release
\* nor any target shows is never shown again.
RevokedStaysAway == [][\A i \in Images : media[i] = "revoked" /\ ~Shown(i) => ~Shown(i)']_vars

\* Once nothing is open, every target shows the live publication, unless the event of the last move was
\* given up. (That every event is settled in the end is EventsSettle of CmsOutbox.)
SiteConverges ==
    (\A e \in Events : state[e] # "open") =>
        \A t \in Targets : site[t] = pointer \/ (pointer.revision # 0 /\ state[pointer.revision] = "failed")
=============================================================================
