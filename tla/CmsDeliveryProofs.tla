-------------------------- MODULE CmsDeliveryProofs --------------------------
(* Theorems about CmsDelivery, for every set of images, targets and cleaners    *)
(* and every bound on pointer moves and faults. Type correctness comes first;   *)
(* then what a cleanup leaves behind; then what the targets show.               *)
EXTENDS CmsDelivery, TLAPS, SequenceTheorems

-----------------------------------------------------------------------------
(* The pointer *)

\* A move takes the pointer one revision on, keeps every retained release as it is,
\* and makes live only images that are approved (movePointer and its three callers).
LEMMA MoveStep ==
    ASSUME TypeOK, NEW seen, Move(seen)
    PROVE  /\ PublicationTypeOK'
           /\ pointer'.revision = pointer.revision + 1 /\ pointer'.revision \in Events
           /\ Len(releases) <= Len(releases') /\ Len(releases) \in Nat /\ Len(releases') \in Nat
           /\ \A n \in 1..Len(releases) : releases'[n] = releases[n]
           /\ pointer'.release # 0 => releases'[pointer'.release] \subseteq Approved
           /\ media' = media
<1> USE DeliveryAssumption
<1>0. Len(releases) \in Nat /\ PublicationTypeOK /\ pointer.revision \in Nat /\ releases \in Seq(SUBSET Images)
  BY DEF TypeOK, PublicationTypeOK
<1>1. CASE CreateRelease(seen)
  <2>1. PICK images \in SUBSET Approved : releases' = Append(releases, images)
    BY <1>1 DEF CreateRelease
  <2>2. images \in SUBSET Images
    BY <2>1 DEF Approved
  <2>3. /\ releases' \in Seq(SUBSET Images) /\ Len(releases') = Len(releases) + 1
        /\ \A n \in 1..Len(releases) : releases'[n] = releases[n]
        /\ releases'[Len(releases) + 1] = images
    BY <1>0, <2>1, <2>2
  <2>4. pointer' = [revision |-> pointer.revision + 1, status |-> "active", release |-> Len(releases) + 1]
        /\ pointer.revision < MaxRevision /\ media' = media
    BY <1>1 DEF CreateRelease, MovePointer
  <2> QED
    BY <1>0, <2>1, <2>3, <2>4 DEF PublicationTypeOK, Events
<1>2. CASE UnpublishMarketing(seen)
  BY <1>0, <1>2 DEF UnpublishMarketing, MovePointer, PublicationTypeOK, Events
<1>3. ASSUME NEW r \in 1..Len(releases), RollbackRelease(seen, r)
      PROVE  /\ pointer' = [revision |-> pointer.revision + 1, status |-> "active", release |-> r]
             /\ pointer.revision < MaxRevision /\ media' = media /\ releases' = releases
             /\ releases[r] \subseteq Approved
  BY <1>3 DEF RollbackRelease, MovePointer
<1>4. CASE \E r \in 1..Len(releases) : RollbackRelease(seen, r)
  BY <1>0, <1>3, <1>4 DEF PublicationTypeOK, Events
<1> QED
  BY <1>1, <1>2, <1>4 DEF Move

-----------------------------------------------------------------------------
(* Types *)

CleanerType == [at : {"rest", "public", "private", "purge", "check", "pending", "complete"}, on : Images \cup {NoImage}]

\* A cleaner that goes on keeps its image.
LEMMA GotoTyped ==
    ASSUME MediaTypeOK, NEW c \in Cleaners,
           NEW at \in {"public", "private", "purge", "check", "pending", "complete"}, Goto(c, at)
    PROVE  /\ cleaner' \in [Cleaners -> CleanerType]
           /\ cleaner'[c].at = at /\ cleaner'[c].on = cleaner[c].on
           /\ \A d \in Cleaners : d # c => cleaner'[d] = cleaner[d]
<1>1. cleaner \in [Cleaners -> CleanerType] /\ cleaner' = [cleaner EXCEPT ![c].at = at]
  BY DEF MediaTypeOK, CleanerType, Goto
<1>2. [cleaner[c] EXCEPT !.at = at] \in CleanerType
  BY <1>1 DEF CleanerType
<1> QED
  BY <1>1, <1>2 DEF CleanerType

JobType == [status : {"none", "pending", "processing", "complete"}, token : Cleaners \cup {Nobody}, late : BOOLEAN]

LEMMA LateTyped ==
    ASSUME NEW x \in JobType
    PROVE  [x EXCEPT !.late = TRUE] \in JobType
  BY DEF JobType

LEMMA TypeInit == Init => TypeOK
<1> USE DeliveryAssumption
<1>1. <<>> \in Seq(SUBSET Images) /\ Len(<<>>) = 0
  OBVIOUS
<1> QED
  BY <1>1 DEF Init, MediaInit, PublicationInit, Outbox!Init, TypeOK, PublicationTypeOK, MediaTypeOK, Events

\* What the images, buckets and jobs have for a type is not touched by moves and deliveries.
LEMMA TypeMove ==
    ASSUME TypeOK, NEW seen, MoveAndAnnounce(seen)
    PROVE  TypeOK'
<1>1. Move(seen) /\ Outbox!Announce(pointer'.revision) /\ UNCHANGED <<mediaVars, site>>
  BY DEF MoveAndAnnounce
<1>2. /\ PublicationTypeOK' /\ pointer'.revision = pointer.revision + 1 /\ pointer.revision \in Nat
      /\ Len(releases) <= Len(releases') /\ Len(releases) \in Nat /\ Len(releases') \in Nat /\ media' = media
  BY <1>1, MoveStep DEF TypeOK, PublicationTypeOK
<1>3. MediaTypeOK'
  BY <1>1, <1>2 DEF TypeOK, MediaTypeOK, mediaVars, storage, cleanup
<1>4. state' \in [Events -> {"none", "open", "delivered", "failed"}] /\ accepted' = accepted /\ receipts' = receipts
  BY <1>1 DEF Outbox!Announce, TypeOK
<1>5. 0..pointer.revision \subseteq 0..pointer'.revision /\ 0..Len(releases) \subseteq 0..Len(releases')
  BY <1>2
<1>6. site' \in [Targets -> [revision : 0..pointer'.revision, status : {"absent", "active", "revoked"},
                            release : 0..Len(releases')]]
  BY <1>1, <1>5 DEF TypeOK
<1> QED
  BY <1>2, <1>3, <1>4, <1>6 DEF TypeOK

LEMMA TypeOutbox ==
    ASSUME TypeOK, NEW e \in Events, Settle(e) \/ \E t \in Targets : Deliver(e, t) \/ Confirm(e, t)
    PROVE  TypeOK'
<1> DEFINE Typed == /\ UNCHANGED <<publicationVars, mediaVars>>
                    /\ state' \in [Events -> {"none", "open", "delivered", "failed"}]
                    /\ accepted' \subseteq Events \X Targets /\ receipts' \subseteq accepted'
<1>1. Typed
  <2>1. CASE Settle(e)
    <3>1. \E s \in {"delivered", "failed"} : state' = [state EXCEPT ![e] = s]
      BY <2>1 DEF Settle, Outbox!Settle
    <3>2. UNCHANGED <<publicationVars, mediaVars, accepted, receipts>>
      BY <2>1 DEF Settle, Outbox!Settle
    <3> QED
      BY <3>1, <3>2 DEF TypeOK
  <2>2. ASSUME NEW t \in Targets, Deliver(e, t) PROVE Typed
    <3>1. accepted' = accepted \cup {<<e, t>>} /\ <<e, t>> \in Events \X Targets
      BY <2>2 DEF Deliver, Outbox!Accept
    <3>2. UNCHANGED <<publicationVars, mediaVars, state, receipts>>
      BY <2>2 DEF Deliver, Outbox!Accept
    <3> QED
      BY <3>1, <3>2 DEF TypeOK
  <2>3. ASSUME NEW t \in Targets, Confirm(e, t) PROVE Typed
    <3>1. <<e, t>> \in accepted /\ receipts' = receipts \cup {<<e, t>>}
      BY <2>3 DEF Confirm, Outbox!Confirm
    <3>2. UNCHANGED <<publicationVars, mediaVars, state, accepted>>
      BY <2>3 DEF Confirm, Outbox!Confirm
    <3> QED
      BY <3>1, <3>2 DEF TypeOK
  <2> QED
    BY <2>1, <2>2, <2>3
<1>2. site' \in [Targets -> [revision : 0..pointer.revision, status : {"absent", "active", "revoked"},
                            release : 0..Len(releases)]]
  <2>1. pointer \in [revision : 0..pointer.revision, status : {"absent", "active", "revoked"}, release : 0..Len(releases)]
    BY DEF TypeOK, PublicationTypeOK
  <2> QED
    BY <2>1 DEF TypeOK, Settle, Deliver, Confirm
<1> QED
  BY <1>1, <1>2 DEF TypeOK, PublicationTypeOK, MediaTypeOK, publicationVars, mediaVars, storage, cleanup

LEMMA TypeMedia ==
    ASSUME TypeOK, MediaNext, UNCHANGED <<outboxVars, site>>
    PROVE  TypeOK'
<1> USE DeliveryAssumption
<1> SUFFICES PublicationTypeOK' /\ MediaTypeOK' /\ pointer' = pointer /\ releases' = releases
  BY DEF TypeOK, outboxVars
<1>0. PublicationTypeOK /\ MediaTypeOK
  BY DEF TypeOK
<1> DEFINE Goal == PublicationTypeOK' /\ MediaTypeOK' /\ pointer' = pointer /\ releases' = releases
<1> USE <1>0 DEF PublicationTypeOK, MediaTypeOK, publicationVars, storage, cleanup
<1>1. ASSUME NEW i \in Images, ApproveImage(i) PROVE Goal
  <2>1. CASE BeginApproval(i)
    BY <2>1 DEF BeginApproval
  <2>2. CASE Promote(i)
    BY <2>2 DEF Promote
  <2>3. CASE CommitApproval(i)
    BY <2>3 DEF CommitApproval, Approve
  <2> QED
    BY <1>1, <2>1, <2>2, <2>3 DEF ApproveImage
<1>2. ASSUME NEW i \in Images, ApprovalEnds(i) PROVE Goal
  BY <1>2 DEF ApprovalEnds, Fault
<1>3. ASSUME NEW i \in Images, LateCopy(i) PROVE Goal
  BY <1>3 DEF LateCopy
<1>4. ASSUME NEW i \in Images, RevokeMedia(i) PROVE Goal
  BY <1>4 DEF RevokeMedia, Revoke
<1>5. ASSUME NEW i \in Images, LeaseEnds(i) PROVE Goal
  <2>1. job[i] \in JobType /\ [job[i] EXCEPT !.late = TRUE] \in JobType
    BY LateTyped DEF JobType
  <2>2. job' = [job EXCEPT ![i].late = TRUE] /\ faults' \in 0..MaxFaults
    BY <1>5 DEF LeaseEnds, Fault, NoFault
  <2>3. UNCHANGED <<publicationVars, storage, approval, overdue, cleaner>>
    BY <1>5 DEF LeaseEnds
  <2> QED
    BY <2>1, <2>2, <2>3 DEF JobType
<1>6. ASSUME NEW i \in Images, Visit(i) PROVE Goal
  BY <1>6 DEF Visit
<1>7. ASSUME NEW c \in Cleaners, Clean(c) PROVE Goal
  <2>1. ASSUME NEW i \in Images, ClaimJob(c, i) PROVE Goal
    BY <2>1 DEF ClaimJob
  <2>2. ASSUME NEW i \in Images, DeletePublic(c, i) \/ DeletePrivate(c, i) \/ Purge(c, i) \/ CheckPurge(c, i) PROVE Goal
    <3>1. \E at \in {"public", "private", "purge", "check", "pending", "complete"} : Goto(c, at)
      BY <2>2 DEF DeletePublic, DeletePrivate, Purge, CheckPurge
    <3>2. cleaner' \in [Cleaners -> CleanerType]
      BY <3>1, GotoTyped
    <3> QED
      BY <2>2, <3>2 DEF DeletePublic, DeletePrivate, Purge, CheckPurge, CleanerType
  <2>3. ASSUME NEW i \in Images, RecordOutcome(c, i) PROVE Goal
    BY <2>3 DEF RecordOutcome
  <2> QED
    BY <1>7, <2>1, <2>2, <2>3 DEF Clean
<1>8. ASSUME NEW c \in Cleaners, CallFails(c) \/ CleanerCrash(c) PROVE Goal
  <2>1. CASE CallFails(c)
    <3>1. cleaner' \in [Cleaners -> CleanerType]
      BY <2>1, GotoTyped DEF CallFails
    <3> QED
      BY <2>1, <3>1 DEF CallFails, Fault, CleanerType
  <2>2. CASE CleanerCrash(c)
    BY <2>2 DEF CleanerCrash, Fault
  <2> QED
    BY <1>8, <2>1, <2>2
<1> QED
  BY <1>1, <1>2, <1>3, <1>4, <1>5, <1>6, <1>7, <1>8 DEF MediaNext

LEMMA TypeStep == TypeOK /\ [Next]_vars => TypeOK'
<1>1. ASSUME TypeOK, UNCHANGED vars PROVE TypeOK'
  BY <1>1 DEF vars, publicationVars, mediaVars, storage, cleanup, outboxVars, TypeOK, PublicationTypeOK, MediaTypeOK
<1> QED
  BY <1>1, TypeMove, TypeOutbox, TypeMedia DEF Next

\* Publication, images, jobs, outbox and targets keep their types, and a cleanup job is there for
\* exactly the revoked images.
THEOREM TypeCorrect == Spec => []TypeOK
  BY TypeInit, TypeStep, PTL DEF Spec
-----------------------------------------------------------------------------
(* What a cleanup leaves behind *)

\* No copy of the image is left, and none can come back: a copy is made for a pending image, or from
\* the private object.
Gone(i) == media[i] = "revoked" /\ i \notin private \cup public \cup edge

\* What a cleaner at a step has behind it. Before the purge the private object is gone, so that the
\* copies that are still made end at the check; after the check nothing is left.
Behind(c) ==
    /\ cleaner[c].at # "rest" => cleaner[c].on \in Images /\ media[cleaner[c].on] = "revoked"
    /\ cleaner[c].at \in {"purge", "check", "complete"} => cleaner[c].on \notin private
    /\ cleaner[c].at = "complete" => cleaner[c].on \notin public \cup edge

MediaInv ==
    /\ \A i \in Images : approval[i] # "rest" => media[i] = "pending"
    /\ \A c \in Cleaners : Behind(c)
    /\ CompleteIsGone

\* Revoked stays revoked, the private bucket only shrinks, and what is gone stays gone.
LEMMA StaysGone ==
    ASSUME TypeOK, MediaInv, MediaNext
    PROVE  /\ private' \subseteq private
           /\ \A i \in Images : media[i] = "revoked" => media'[i] = "revoked"
           /\ \A i \in Images : Gone(i) => Gone(i)'
<1> DEFINE Goal == /\ private' \subseteq private
                   /\ \A i \in Images : media[i] = "revoked" => media'[i] = "revoked"
                   /\ \A i \in Images : Gone(i) => Gone(i)'
<1> USE DEF Gone, publicationVars, storage
<1>0. media \in [Images -> {"pending", "approved", "revoked"}]
  BY DEF TypeOK, PublicationTypeOK
<1>1. ASSUME NEW i \in Images, BeginApproval(i) PROVE Goal
  BY <1>1 DEF BeginApproval
<1>2. ASSUME NEW i \in Images, Promote(i) PROVE Goal
  BY <1>2 DEF Promote, MediaInv
<1>3. ASSUME NEW i \in Images, CommitApproval(i) PROVE Goal
  BY <1>0, <1>3 DEF CommitApproval, Approve
<1>4. ASSUME NEW i \in Images, ApprovalEnds(i) PROVE Goal
  BY <1>4 DEF ApprovalEnds
<1>5. ASSUME NEW i \in Images, LateCopy(i) PROVE Goal
  BY <1>5 DEF LateCopy
<1>6. ASSUME NEW i \in Images, RevokeMedia(i) PROVE Goal
  BY <1>0, <1>6 DEF RevokeMedia, Revoke
<1>7. ASSUME NEW i \in Images, LeaseEnds(i) PROVE Goal
  BY <1>7 DEF LeaseEnds
<1>8. ASSUME NEW i \in Images, Visit(i) PROVE Goal
  BY <1>8 DEF Visit
<1>9. ASSUME NEW c \in Cleaners, Clean(c) PROVE Goal
  BY <1>9 DEF Clean, ClaimJob, DeletePublic, DeletePrivate, Purge, CheckPurge, RecordOutcome
<1>10. ASSUME NEW c \in Cleaners, CallFails(c) \/ CleanerCrash(c) PROVE Goal
  BY <1>10 DEF CallFails, CleanerCrash
<1> QED
  BY <1>1, <1>2, <1>3, <1>4, <1>5, <1>6, <1>7, <1>8, <1>9, <1>10 DEF MediaNext, ApproveImage

LEMMA ApprovalStep ==
    ASSUME TypeOK, MediaInv, MediaNext
    PROVE  \A i \in Images : approval'[i] # "rest" => media'[i] = "pending"
<1> DEFINE Goal == \A i \in Images : approval'[i] # "rest" => media'[i] = "pending"
<1> USE DEF MediaInv, publicationVars
<1>0. media \in [Images -> {"pending", "approved", "revoked"}] /\ approval \in [Images -> {"rest", "promote", "verify"}]
  BY DEF TypeOK, PublicationTypeOK, MediaTypeOK
<1>1. ASSUME NEW i \in Images, BeginApproval(i) PROVE Goal
  BY <1>0, <1>1 DEF BeginApproval
<1>2. ASSUME NEW i \in Images, Promote(i) PROVE Goal
  BY <1>0, <1>2 DEF Promote
<1>3. ASSUME NEW i \in Images, CommitApproval(i) PROVE Goal
  BY <1>0, <1>3 DEF CommitApproval, Approve
<1>4. ASSUME NEW i \in Images, ApprovalEnds(i) PROVE Goal
  BY <1>0, <1>4 DEF ApprovalEnds
<1>5. ASSUME NEW i \in Images, RevokeMedia(i) PROVE Goal
  BY <1>0, <1>5 DEF RevokeMedia, Revoke, Unlocked
<1>6. ASSUME NEW i \in Images, LateCopy(i) \/ LeaseEnds(i) \/ Visit(i) PROVE Goal
  BY <1>6 DEF LateCopy, LeaseEnds, Visit
<1>7. ASSUME NEW c \in Cleaners, Clean(c) \/ CallFails(c) \/ CleanerCrash(c) PROVE Goal
  BY <1>7 DEF Clean, ClaimJob, DeletePublic, DeletePrivate, Purge, CheckPurge, RecordOutcome, CallFails, CleanerCrash
<1> QED
  BY <1>1, <1>2, <1>3, <1>4, <1>5, <1>6, <1>7 DEF MediaNext, ApproveImage

\* Whatever happens, what a resting cleaner or one that does not move has behind it stays behind it.
LEMMA StaysBehind ==
    ASSUME TypeOK, MediaInv, MediaNext, NEW d \in Cleaners, cleaner'[d] = cleaner[d] \/ cleaner'[d].at = "rest"
    PROVE  Behind(d)'
<1>1. Behind(d)
  BY DEF MediaInv
<1>2. CASE cleaner'[d] = cleaner[d]
  BY <1>1, <1>2, StaysGone DEF Behind, Gone
<1> QED
  BY <1>2 DEF Behind

LEMMA CleanerStep ==
    ASSUME TypeOK, MediaInv, MediaNext
    PROVE  \A d \in Cleaners : Behind(d)'
<1> SUFFICES ASSUME NEW d \in Cleaners PROVE Behind(d)'
  OBVIOUS
<1>0. MediaTypeOK /\ media \in [Images -> {"pending", "approved", "revoked"}] /\ Behind(d)
  BY DEF TypeOK, PublicationTypeOK, MediaInv
<1>a. cleaner \in [Cleaners -> CleanerType]
  BY <1>0 DEF MediaTypeOK, CleanerType
<1>1. ASSUME UNCHANGED cleaner PROVE Behind(d)'
  BY <1>1, StaysBehind
<1>2. ASSUME NEW i \in Images, ApproveImage(i) \/ ApprovalEnds(i) \/ LateCopy(i) \/ RevokeMedia(i) \/ LeaseEnds(i) \/ Visit(i)
      PROVE  UNCHANGED cleaner
  BY <1>2 DEF ApproveImage, BeginApproval, Promote, CommitApproval, ApprovalEnds, LateCopy, RevokeMedia, LeaseEnds, Visit,
              cleanup
<1>3. ASSUME NEW c \in Cleaners, NEW i \in Images, ClaimJob(c, i) PROVE Behind(d)'
  <2>1. media[i] = "revoked" /\ media' = media /\ private' = private
        /\ cleaner' = [cleaner EXCEPT ![c] = [at |-> "public", on |-> i]]
    BY <1>0, <1>3 DEF ClaimJob, MediaTypeOK, publicationVars, storage
  <2>2. CASE d = c
    BY <1>a, <2>1, <2>2 DEF Behind
  <2>3. CASE d # c
    BY <1>a, <2>1, <2>3, StaysBehind
  <2> QED
    BY <2>2, <2>3
<1>4. ASSUME NEW c \in Cleaners, NEW at \in {"public", "private", "purge", "check", "pending", "complete"}, Goto(c, at),
             cleaner[c].at # "rest",
             at \in {"purge", "check", "complete"} => cleaner[c].on \notin private',
             at = "complete" => cleaner[c].on \notin public' \cup edge'
      PROVE  Behind(d)'
  <2>1. cleaner'[c].at = at /\ cleaner'[c].on = cleaner[c].on /\ (d # c => cleaner'[d] = cleaner[d])
    BY <1>0, <1>4, GotoTyped
  <2>2. CASE d = c
    <3>1. cleaner[c].on \in Images /\ media[cleaner[c].on] = "revoked"
      BY <1>4 DEF MediaInv, Behind
    <3> QED
      BY <1>4, <2>1, <2>2, <3>1, StaysGone DEF Behind
  <2>3. CASE d # c
    BY <2>1, <2>3, StaysBehind
  <2> QED
    BY <2>2, <2>3
<1>5. ASSUME NEW c \in Cleaners, NEW i \in Images, DeletePublic(c, i) PROVE Behind(d)'
  BY <1>4, <1>5 DEF DeletePublic, On
<1>6. ASSUME NEW c \in Cleaners, NEW i \in Images, DeletePrivate(c, i) PROVE Behind(d)'
  BY <1>4, <1>6 DEF DeletePrivate, On
<1>7. ASSUME NEW c \in Cleaners, NEW i \in Images, Purge(c, i) PROVE Behind(d)'
  <2>1. cleaner[c].at # "rest" /\ cleaner[c].on \notin private /\ private' = private /\ Goto(c, "check")
    BY <1>7 DEF Purge, On, MediaInv, Behind
  <2> QED
    BY <1>4, <2>1
<1>8. ASSUME NEW c \in Cleaners, NEW i \in Images, CheckPurge(c, i) PROVE Behind(d)'
  <2>1. cleaner[c].at # "rest" /\ cleaner[c].on = i /\ cleaner[c].on \notin private /\ UNCHANGED <<private, public, edge>>
    BY <1>8 DEF CheckPurge, On, MediaInv, Behind, storage
  <2>2. CASE i \in edge \cup public
    <3>1. Goto(c, "pending")
      BY <1>8, <2>2 DEF CheckPurge
    <3> QED
      BY <1>4, <2>1, <3>1
  <2>3. CASE i \notin edge \cup public
    <3>1. Goto(c, "complete")
      BY <1>8, <2>3 DEF CheckPurge
    <3> QED
      BY <1>4, <2>1, <2>3, <3>1
  <2> QED
    BY <2>2, <2>3
<1>9. ASSUME NEW c \in Cleaners, CallFails(c) PROVE Behind(d)'
  <2>1. cleaner[c].at # "rest" /\ Goto(c, "pending")
    BY <1>9 DEF CallFails
  <2> QED
    BY <1>4, <2>1
<1>10. ASSUME NEW c \in Cleaners, CleanerCrash(c) \/ \E i \in Images : RecordOutcome(c, i) PROVE Behind(d)'
  <2>1. cleaner' = [cleaner EXCEPT ![c] = [at |-> "rest", on |-> NoImage]]
    BY <1>10 DEF CleanerCrash, RecordOutcome
  <2>2. cleaner'[d] = cleaner[d] \/ cleaner'[d].at = "rest"
    BY <1>a, <2>1
  <2> QED
    BY <2>2, StaysBehind
<1> QED
  BY <1>1, <1>2, <1>3, <1>5, <1>6, <1>7, <1>8, <1>9, <1>10 DEF MediaNext, Clean

LEMMA CompleteStep ==
    ASSUME TypeOK, MediaInv, MediaNext
    PROVE  CompleteIsGone'
<1> SUFFICES ASSUME NEW i \in Images, job'[i].status = "complete" PROVE Gone(i)'
  BY DEF CompleteIsGone, Gone
<1>0. /\ job \in [Images -> JobType] /\ media \in [Images -> {"pending", "approved", "revoked"}]
      /\ job[i].status = "complete" => Gone(i)
  BY DEF TypeOK, MediaTypeOK, PublicationTypeOK, JobType, MediaInv, CompleteIsGone, Gone
<1>1. ASSUME job[i].status = "complete" PROVE Gone(i)'
  BY <1>0, <1>1, StaysGone
<1>2. ASSUME NEW c \in Cleaners, NEW k \in Images, RecordOutcome(c, k) PROVE Gone(i)'
  <2>1. UNCHANGED <<media, private, public, edge>>
    BY <1>2 DEF RecordOutcome, publicationVars, storage
  <2>2. CASE i = k /\ cleaner[c].at = "complete"
    BY <1>2, <2>1, <2>2 DEF RecordOutcome, MediaInv, Behind, Gone
  <2>3. CASE ~(i = k /\ cleaner[c].at = "complete")
    <3>1. job[i].status = "complete"
      BY <1>0, <1>2, <2>3 DEF RecordOutcome, JobType
    <3> QED
      BY <1>1, <3>1
  <2> QED
    BY <2>2, <2>3
<1>3. ASSUME NEW k \in Images, RevokeMedia(k) \/ LeaseEnds(k) PROVE job[i].status = "complete"
  <2>1. job' = [job EXCEPT ![k].status = "pending"] \/ job' = [job EXCEPT ![k].late = TRUE]
    BY <1>3 DEF RevokeMedia, LeaseEnds
  <2> QED
    BY <1>0, <2>1 DEF JobType
<1>4. ASSUME NEW c \in Cleaners, NEW k \in Images, ClaimJob(c, k) PROVE job[i].status = "complete"
  BY <1>0, <1>4 DEF ClaimJob, JobType
<1>5. ASSUME UNCHANGED job PROVE Gone(i)'
  BY <1>1, <1>5
<1>6. ASSUME NEW k \in Images, ApproveImage(k) \/ ApprovalEnds(k) \/ LateCopy(k) \/ Visit(k) PROVE UNCHANGED job
  BY <1>6 DEF ApproveImage, BeginApproval, Promote, CommitApproval, ApprovalEnds, LateCopy, Visit, cleanup
<1>7. ASSUME NEW c \in Cleaners, NEW k \in Images,
             CallFails(c) \/ CleanerCrash(c) \/ DeletePublic(c, k) \/ DeletePrivate(c, k) \/ Purge(c, k) \/ CheckPurge(c, k)
      PROVE  UNCHANGED job
  BY <1>7 DEF CallFails, CleanerCrash, DeletePublic, DeletePrivate, Purge, CheckPurge
<1> QED
  BY <1>1, <1>2, <1>3, <1>4, <1>5, <1>6, <1>7 DEF MediaNext, Clean

LEMMA MediaStep == TypeOK /\ MediaInv /\ [Next]_vars => MediaInv'
<1> SUFFICES ASSUME TypeOK, MediaInv, [Next]_vars PROVE MediaInv'
  OBVIOUS
<1>1. ASSUME UNCHANGED <<media, mediaVars>> PROVE MediaInv'
  BY <1>1 DEF MediaInv, Behind, CompleteIsGone, mediaVars, storage, cleanup
<1>2. CASE MediaNext
  BY <1>2, ApprovalStep, CleanerStep, CompleteStep DEF MediaInv
<1>3. ASSUME NEW seen, MoveAndAnnounce(seen) PROVE MediaInv'
  BY <1>1, <1>3, MoveStep DEF MoveAndAnnounce
<1>4. ASSUME NEW e \in Events, Settle(e) \/ \E t \in Targets : Deliver(e, t) \/ Confirm(e, t) PROVE MediaInv'
  BY <1>1, <1>4 DEF Settle, Deliver, Confirm, publicationVars
<1>5. CASE UNCHANGED vars
  BY <1>1, <1>5 DEF vars, publicationVars
<1> QED
  BY <1>2, <1>3, <1>4, <1>5 DEF Next

\* A cleanup that is reported complete is one, for every number of images and cleaners and whatever
\* fails (revokeMedia, media-cleanup.ts).
THEOREM CleanupComplete == Spec => []CompleteIsGone
<1>1. Init => MediaInv
  BY DEF Init, MediaInit, MediaInv, Behind, CompleteIsGone
<1>2. MediaInv => CompleteIsGone
  BY DEF MediaInv
<1> QED
  BY <1>1, <1>2, TypeCorrect, MediaStep, PTL DEF Spec

-----------------------------------------------------------------------------
(* What the targets show *)

\* An event is announced with its revision; a target that accepted it has read the publication since;
\* a target that is at the live revision shows the live publication; what is delivered was confirmed
\* by every target.
DeliveryInv ==
    /\ \A e \in Events : state[e] # "none" <=> e <= pointer.revision
    /\ \A e \in Events, t \in Targets : <<e, t>> \in accepted => site[t].revision >= e
    /\ \A t \in Targets : site[t].revision = pointer.revision => site[t] = pointer
    /\ \A e \in Events, t \in Targets : state[e] = "delivered" => <<e, t>> \in receipts

LEMMA DeliveryInit == Init => DeliveryInv
<1> USE DeliveryAssumption
<1> SUFFICES ASSUME Init PROVE DeliveryInv
  OBVIOUS
<1>1. pointer.revision = 0 /\ state = [e \in Events |-> "none"] /\ accepted = {} /\ site = [t \in Targets |-> pointer]
  BY DEF Init, MediaInit, PublicationInit, Outbox!Init
<1> QED
  BY <1>1 DEF DeliveryInv, Events

LEMMA DeliveryMove ==
    ASSUME TypeOK, DeliveryInv, NEW seen, MoveAndAnnounce(seen)
    PROVE  DeliveryInv'
<1> DEFINE new == pointer.revision + 1
<1>1. /\ Move(seen) /\ UNCHANGED <<accepted, receipts, site>>
      /\ state' = [state EXCEPT ![pointer'.revision] = "open"]
  BY DEF MoveAndAnnounce, Outbox!Announce
<1>2. pointer'.revision = new /\ new \in Events /\ pointer.revision \in Nat
  BY <1>1, MoveStep DEF TypeOK, PublicationTypeOK
<1>3. state' = [state EXCEPT ![new] = "open"] /\ state \in [Events -> {"none", "open", "delivered", "failed"}]
      /\ \A e \in Events : e \in Nat
  BY <1>1, <1>2, DeliveryAssumption DEF TypeOK, Events
<1>4. \A e \in Events : state'[e] # "none" <=> e <= pointer'.revision
  BY <1>2, <1>3 DEF DeliveryInv
<1>5. \A t \in Targets : site'[t].revision # pointer'.revision
  BY <1>1, <1>2 DEF TypeOK
<1>6. \A e \in Events, t \in Targets : state'[e] = "delivered" => <<e, t>> \in receipts'
  BY <1>1, <1>3 DEF DeliveryInv
<1> QED
  BY <1>1, <1>4, <1>5, <1>6 DEF DeliveryInv

LEMMA DeliverStep ==
    ASSUME TypeOK, DeliveryInv, NEW e \in Events, NEW t \in Targets, Deliver(e, t)
    PROVE  DeliveryInv'
<1>1. /\ state[e] # "none" /\ accepted' = accepted \cup {<<e, t>>}
      /\ site' = [site EXCEPT ![t] = pointer] /\ UNCHANGED <<pointer, state, receipts>>
  BY DEF Deliver, Outbox!Accept, publicationVars
<1>2. \A x \in Targets : site[x].revision \in 0..pointer.revision
  BY DEF TypeOK
<1>3. e <= pointer.revision /\ pointer.revision \in Nat /\ \A f \in Events : f \in Nat
  BY <1>1, DeliveryAssumption DEF DeliveryInv, TypeOK, PublicationTypeOK, Events
<1>4. \A x \in Targets : site'[x] = IF x = t THEN pointer ELSE site[x]
  BY <1>1 DEF TypeOK
<1>5. ASSUME NEW f \in Events, NEW x \in Targets, <<f, x>> \in accepted'
      PROVE  site'[x].revision >= f
  <2>1. CASE f = e /\ x = t
    BY <1>3, <1>4, <2>1
  <2>2. CASE ~(f = e /\ x = t)
    <3>1. <<f, x>> \in accepted
      BY <1>1, <1>5, <2>2
    <3>2. site[x].revision >= f
      BY <3>1 DEF DeliveryInv
    <3> QED
      BY <1>2, <1>3, <1>4, <3>2
  <2> QED
    BY <2>1, <2>2
<1>6. \A x \in Targets : site'[x].revision = pointer'.revision => site'[x] = pointer'
  BY <1>1, <1>4 DEF DeliveryInv
<1> QED
  BY <1>1, <1>5, <1>6 DEF DeliveryInv

LEMMA SettleStep ==
    ASSUME TypeOK, DeliveryInv, NEW e \in Events, Settle(e) \/ \E t \in Targets : Confirm(e, t)
    PROVE  DeliveryInv'
<1>1. CASE Settle(e)
  <2>1. PICK s \in {"delivered", "failed"} :
            /\ s = "delivered" => {e} \X Targets \subseteq receipts
            /\ state' = [state EXCEPT ![e] = s]
    BY <1>1 DEF Settle, Outbox!Settle
  <2>2. state[e] = "open" /\ UNCHANGED <<pointer, site, accepted, receipts>>
    BY <1>1 DEF Settle, Outbox!Settle, publicationVars
  <2>3. \A f \in Events : /\ state'[f] # "none" <=> state[f] # "none"
                          /\ state'[f] = "delivered" => state[f] = "delivered" \/ (f = e /\ s = "delivered")
    BY <2>1, <2>2 DEF TypeOK
  <2>4. \A t \in Targets : s = "delivered" => <<e, t>> \in receipts
    BY <2>1
  <2> QED
    BY <2>2, <2>3, <2>4 DEF DeliveryInv
<1>2. ASSUME NEW t \in Targets, Confirm(e, t) PROVE DeliveryInv'
  <2>1. receipts \subseteq receipts' /\ UNCHANGED <<pointer, site, accepted, state>>
    BY <1>2 DEF Confirm, Outbox!Confirm, publicationVars
  <2> QED
    BY <2>1 DEF DeliveryInv
<1> QED
  BY <1>1, <1>2

LEMMA DeliveryStep == TypeOK /\ DeliveryInv /\ [Next]_vars => DeliveryInv'
<1>1. ASSUME DeliveryInv, UNCHANGED <<pointer, outboxVars, site>> PROVE DeliveryInv'
  BY <1>1 DEF DeliveryInv, outboxVars
<1>2. ASSUME MediaNext PROVE pointer' = pointer
  BY <1>2 DEF MediaNext, ApproveImage, BeginApproval, Promote, CommitApproval, ApprovalEnds, LateCopy, RevokeMedia,
              LeaseEnds, Visit, Clean, ClaimJob, DeletePublic, DeletePrivate, Purge, CheckPurge, RecordOutcome, CallFails,
              CleanerCrash, Approve, Revoke, publicationVars
<1> QED
  BY <1>1, <1>2, DeliveryMove, DeliverStep, SettleStep DEF Next, vars, publicationVars

LEMMA DeliveryAlways == Spec => []DeliveryInv
  BY DeliveryInit, DeliveryStep, TypeCorrect, PTL DEF Spec

\* A delivered receipt means that the target's pages are as new as the event (readMarketingPublication
\* is never cached).
THEOREM Fresh == Spec => []DeliveredIsFresh
<1>1. TypeOK /\ DeliveryInv => DeliveredIsFresh
  BY DEF TypeOK, DeliveryInv, DeliveredIsFresh
<1> QED
  BY <1>1, DeliveryAlways, TypeCorrect, PTL

\* Once nothing is open, every target shows the live publication, unless the event of the last move
\* was given up.
THEOREM Converges == Spec => []SiteConverges
<1>1. ASSUME TypeOK, DeliveryInv, \A e \in Events : state[e] # "open", NEW t \in Targets
      PROVE  site[t] = pointer \/ (pointer.revision # 0 /\ state[pointer.revision] = "failed")
  <2>1. pointer.revision \in 0..MaxRevision /\ site[t].revision \in 0..pointer.revision
    BY <1>1 DEF TypeOK, PublicationTypeOK
  <2>2. CASE pointer.revision = 0
    BY <1>1, <2>1, <2>2 DEF DeliveryInv
  <2>3. CASE pointer.revision # 0
    <3>1. pointer.revision \in Events
      BY <2>1, <2>3, DeliveryAssumption DEF Events
    <3>2. state[pointer.revision] \in {"delivered", "failed"}
      BY <1>1, <2>1, <3>1, DeliveryAssumption DEF DeliveryInv, TypeOK
    <3>3. ASSUME state[pointer.revision] = "delivered" PROVE site[t] = pointer
      <4>1. <<pointer.revision, t>> \in accepted
        BY <1>1, <3>1, <3>3 DEF DeliveryInv, TypeOK
      <4>2. site[t].revision >= pointer.revision
        BY <1>1, <3>1, <4>1 DEF DeliveryInv
      <4> QED
        BY <1>1, <2>1, <4>2, DeliveryAssumption DEF DeliveryInv
    <3> QED
      BY <2>3, <3>2, <3>3
  <2> QED
    BY <2>2, <2>3
<1>2. TypeOK /\ DeliveryInv => SiteConverges
  BY <1>1 DEF SiteConverges
<1> QED
  BY <1>2, DeliveryAlways, TypeCorrect, PTL

\* A revoked image that nothing shows is never shown again (createMarketingRelease and
\* rollbackMarketingRelease look at every image again).
THEOREM RevokedAway == Spec => RevokedStaysAway
<1>1. ASSUME TypeOK, TypeOK', [Next]_vars, NEW i \in Images, media[i] = "revoked", ~Shown(i)
      PROVE  ~Shown(i)'
  <2>1. ASSUME UNCHANGED <<pointer, releases, site>> PROVE ~Shown(i)'
    BY <1>1, <2>1 DEF Shown
  <2>2. ASSUME NEW seen, MoveAndAnnounce(seen) PROVE ~Shown(i)'
    <3>1. /\ \A n \in 1..Len(releases) : releases'[n] = releases[n]
          /\ pointer'.release # 0 => releases'[pointer'.release] \subseteq Approved
          /\ Len(releases) \in Nat /\ site' = site
      BY <1>1, <2>2, MoveStep DEF MoveAndAnnounce
    <3>2. i \notin Approved
      BY <1>1 DEF Approved
    <3>3. \A t \in Targets : site[t].release \in 0..Len(releases)
      BY <1>1 DEF TypeOK
    <3> QED
      BY <1>1, <3>1, <3>2, <3>3 DEF Shown
  <2>3. ASSUME NEW e \in Events, NEW t \in Targets, Deliver(e, t) PROVE ~Shown(i)'
    <3>1. site' = [site EXCEPT ![t] = pointer] /\ UNCHANGED <<pointer, releases>>
      BY <2>3 DEF Deliver, publicationVars
    <3>2. \A x \in Targets : site'[x] = IF x = t THEN pointer ELSE site[x]
      BY <1>1, <3>1 DEF TypeOK
    <3> QED
      BY <1>1, <3>1, <3>2 DEF Shown
  <2>4. ASSUME NEW e \in Events, Settle(e) \/ \E t \in Targets : Confirm(e, t) PROVE ~Shown(i)'
    BY <2>1, <2>4 DEF Settle, Confirm, publicationVars
  <2>5. ASSUME MediaNext, UNCHANGED site PROVE ~Shown(i)'
    <3>1. UNCHANGED <<pointer, releases>>
      BY <2>5 DEF MediaNext, ApproveImage, BeginApproval, Promote, CommitApproval, ApprovalEnds, LateCopy, RevokeMedia,
                  LeaseEnds, Visit, Clean, ClaimJob, DeletePublic, DeletePrivate, Purge, CheckPurge, RecordOutcome, CallFails,
                  CleanerCrash, Approve, Revoke, publicationVars
    <3> QED
      BY <2>1, <2>5, <3>1
  <2> QED
    BY <1>1, <2>1, <2>2, <2>3, <2>4, <2>5 DEF Next, vars, publicationVars
<1>2. TypeOK /\ TypeOK' /\ [Next]_vars => [\A i \in Images : media[i] = "revoked" /\ ~Shown(i) => ~Shown(i)']_vars
  BY <1>1
<1> QED
  BY <1>2, TypeCorrect, PTL DEF Spec, RevokedStaysAway
=============================================================================
