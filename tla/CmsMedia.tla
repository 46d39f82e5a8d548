------------------------------- MODULE CmsMedia -------------------------------
(* The stored copies of CMS images (apps/web/src/lib/cms/media.ts,              *)
(* media-s3-store.ts, media-cleanup.ts): the public copy an approval makes      *)
(* inside its transaction, what the edge of the CDN keeps of it, and the leased *)
(* jobs that take the copies of a revoked image away. One action is one call to *)
(* storage or to the CDN, or one transaction.                                   *)
(*                                                                            *)
(* A definition marked "Fault:" is not the code: it is a plausible mistake in  *)
(* the next definition, which the properties must notice.                      *)
EXTENDS CmsPublication

CONSTANTS
    Cleaners,       \* passes of the cleanup loop, and the one a revocation runs itself
    MaxFaults       \* bound on failed calls, timeouts, crashes and leases that end under a live cleaner

VARIABLES
    private, public,    \* the images in either bucket
    edge,               \* the images some edge of the CDN has kept
    approval,           \* per image: where an approving transaction is; it holds the dataset's lock
    overdue,            \* images a transaction that is over may still copy
    job,                \* CmsMediaCleanupJob of each image: status, who holds the lease, whether that ended
    cleaner,            \* per cleaner: its step and image
    faults              \* how many faults have happened

storage == <<private, public, edge>>
cleanup == <<job, cleaner>>
mediaVars == <<storage, approval, overdue, cleanup, faults>>

Nobody == "nobody"
NoImage == "none"

\* An image that is staged is stored and pending.
MediaInit ==
    /\ PublicationInit
    /\ private = Images /\ public = {} /\ edge = {}
    /\ approval = [i \in Images |-> "rest"] /\ overdue = {}
    /\ job = [i \in Images |-> [status |-> "none", token |-> Nobody, late |-> FALSE]]
    /\ cleaner = [c \in Cleaners |-> [at |-> "rest", on |-> NoImage]]
    /\ faults = 0

Fault == faults < MaxFaults /\ faults' = faults + 1
NoFault == UNCHANGED faults

-----------------------------------------------------------------------------
(* approveMedia *)

\* FOR UPDATE on the dataset: no other write of it while an image is being approved.
Unlocked == \A i \in Images : approval[i] = "rest"

\* The image is pending, and its stored bytes are the ones that were uploaded.
BeginApproval(i) ==
    /\ Unlocked /\ media[i] = "pending" /\ i \in private
    /\ approval' = [approval EXCEPT ![i] = "promote"]
    /\ UNCHANGED <<publicationVars, storage, overdue, cleanup, faults>>

\* promotePublic: a copy of the private object, unless it is there.
Promote(i) ==
    /\ approval[i] = "promote"
    /\ public' = public \cup {i}
    /\ approval' = [approval EXCEPT ![i] = "verify"]
    /\ UNCHANGED <<publicationVars, private, edge, overdue, cleanup, faults>>

CommitApproval(i) ==
    /\ approval[i] = "verify" /\ i \in public
    /\ Approve(i)
    /\ approval' = [approval EXCEPT ![i] = "rest"]
    /\ UNCHANGED <<storage, overdue, cleanup, faults>>

\* A call fails, the process dies, or ten seconds pass: the transaction is rolled back, while
\* the copy it asked for may still be made.
ApprovalEnds(i) ==
    /\ approval[i] # "rest" /\ Fault
    /\ approval' = [approval EXCEPT ![i] = "rest"]
    /\ overdue' \in {overdue, IF approval[i] = "promote" THEN overdue \cup {i} ELSE overdue}
    /\ UNCHANGED <<publicationVars, storage, cleanup>>

\* There is nothing to copy from once the private object is deleted.
LateCopy(i) ==
    /\ i \in overdue
    /\ overdue' = overdue \ {i}
    /\ public' \in {public, IF i \in private THEN public \cup {i} ELSE public}
    /\ UNCHANGED <<publicationVars, private, edge, approval, cleanup, faults>>

-----------------------------------------------------------------------------
(* revokeMedia and the cleanup jobs *)

\* The revocation and its cleanup job are one transaction.
RevokeMedia(i) ==
    /\ Unlocked /\ Revoke(i)
    /\ job' = [job EXCEPT ![i].status = "pending"]
    /\ UNCHANGED <<storage, approval, overdue, cleaner, faults>>

Goto(c, at) == cleaner' = [cleaner EXCEPT ![c].at = at]
On(c, at, i) == cleaner[c] = [at |-> at, on |-> i]

\* claimMediaCleanupJobs. A revocation claims its own job at once, the loop when its backoff is over;
\* either takes over an ended lease.
ClaimJob(c, i) ==
    /\ cleaner[c].at = "rest"
    /\ job[i].status = "pending" \/ (job[i].status = "processing" /\ job[i].late)
    /\ job' = [job EXCEPT ![i] = [status |-> "processing", token |-> c, late |-> FALSE]]
    /\ cleaner' = [cleaner EXCEPT ![c] = [at |-> "public", on |-> i]]
    /\ UNCHANGED <<publicationVars, storage, approval, overdue, faults>>

\* deleteAllVersions: the public copy first.
DeletePublic(c, i) ==
    /\ On(c, "public", i)
    /\ public' = public \ {i} /\ Goto(c, "private")
    /\ UNCHANGED <<publicationVars, private, edge, approval, overdue, job, faults>>

DeletePrivate(c, i) ==
    /\ On(c, "private", i)
    /\ private' = private \ {i} /\ Goto(c, "purge")
    /\ UNCHANGED <<publicationVars, public, edge, approval, overdue, job, faults>>

Purge(c, i) ==
    /\ On(c, "purge", i)
    /\ edge' = edge \ {i} /\ Goto(c, "check")
    /\ UNCHANGED <<publicationVars, private, public, approval, overdue, job, faults>>

\* Fault: a purge that was accepted is taken at its word.
CheckPurgeTrusting(c, i) ==
    /\ On(c, "check", i)
    /\ Goto(c, "complete")
    /\ UNCHANGED <<publicationVars, storage, approval, overdue, job, faults>>
\* The CDN is asked for the image; it must not have it, nor find it in storage.
CheckPurge(c, i) ==
    /\ On(c, "check", i)
    /\ Goto(c, IF i \in edge \cup public THEN "pending" ELSE "complete")
    /\ UNCHANGED <<publicationVars, storage, approval, overdue, job, faults>>

CallFails(c) ==
    /\ cleaner[c].at \in {"public", "private", "purge", "check"} /\ Fault
    /\ Goto(c, "pending")
    /\ UNCHANGED <<publicationVars, storage, approval, overdue, job>>

\* recordOutcome, under the lease's token.
RecordOutcome(c, i) ==
    /\ cleaner[c].on = i /\ cleaner[c].at \in {"pending", "complete"}
    /\ job' = IF job[i].status = "processing" /\ job[i].token = c
              THEN [job EXCEPT ![i] = [status |-> cleaner[c].at, token |-> Nobody, late |-> FALSE]] ELSE job
    /\ cleaner' = [cleaner EXCEPT ![c] = [at |-> "rest", on |-> NoImage]]
    /\ UNCHANGED <<publicationVars, storage, approval, overdue, faults>>

CleanerCrash(c) ==
    /\ cleaner[c].at # "rest" /\ Fault
    /\ cleaner' = [cleaner EXCEPT ![c] = [at |-> "rest", on |-> NoImage]]
    /\ UNCHANGED <<publicationVars, storage, approval, overdue, job>>

\* A minute passes.
LeaseEnds(i) ==
    /\ job[i].status = "processing" /\ ~job[i].late
    /\ IF \E c \in Cleaners : cleaner[c].on = i /\ job[i].token = c THEN Fault ELSE NoFault
    /\ job' = [job EXCEPT ![i].late = TRUE]
    /\ UNCHANGED <<publicationVars, storage, approval, overdue, cleaner>>

-----------------------------------------------------------------------------
(* Visitors and the CDN *)

\* An edge keeps what it fetches for a year.
Visit(i) ==
    /\ i \in public /\ edge' = edge \cup {i}
    /\ UNCHANGED <<publicationVars, private, public, approval, overdue, cleanup, faults>>

Clean(c) ==
    \E i \in Images : \/ ClaimJob(c, i) \/ DeletePublic(c, i) \/ DeletePrivate(c, i) \/ Purge(c, i)
                      \/ CheckPurge(c, i) \/ RecordOutcome(c, i)
ApproveImage(i) == BeginApproval(i) \/ Promote(i) \/ CommitApproval(i)

MediaNext ==
    \/ \E i \in Images : ApproveImage(i) \/ ApprovalEnds(i) \/ LateCopy(i) \/ RevokeMedia(i) \/ LeaseEnds(i) \/ Visit(i)
    \/ \E c \in Cleaners : Clean(c) \/ CallFails(c) \/ CleanerCrash(c)

-----------------------------------------------------------------------------
(* Properties *)

\* Types; a job is there for exactly the revoked images, and leased while it is processed.
MediaTypeOK ==
    /\ private \subseteq Images /\ public \subseteq Images /\ edge \subseteq Images /\ overdue \subseteq Images
    /\ approval \in [Images -> {"rest", "promote", "verify"}]
    /\ job \in [Images -> [status : {"none", "pending", "processing", "complete"}, token : Cleaners \cup {Nobody},
                          late : BOOLEAN]]
    /\ \A i \in Images : /\ job[i].status # "none" <=> media[i] = "revoked"
                         /\ job[i].token # Nobody <=> job[i].status = "processing"
    /\ cleaner \in [Cleaners -> [at : {"rest", "public", "private", "purge", "check", "pending", "complete"},
                                on : Images \cup {NoImage}]]
    /\ faults \in 0..MaxFaults

\* A cleanup that is reported complete is one: the revoked image is in neither bucket nor at the edge,
\* and never comes back, whatever copy a late approval still makes, whoever visits in between, and
\* whichever cleaner died, failed half-way or was overtaken (revokeMedia: "cleanupComplete: true").
CompleteIsGone ==
    \A i \in Images : job[i].status = "complete" =>
        media[i] = "revoked" /\ i \notin private \cup public \cup edge
=============================================================================
