---------------------------- MODULE CmsPublication ----------------------------
(* Marketing publication (apps/web/src/lib/cms/marketing-publication.ts) and    *)
(* the status of the images it uses (media.ts). Every write runs in a         *)
(* serializable transaction under the locks of its dataset                      *)
(* (executeCmsWriteTransaction in documents.ts), so it is one action.           *)
(*                                                                            *)
(* A definition marked "Fault:" is not the code: it is a plausible mistake in  *)
(* the next definition, which the properties must notice.                      *)
EXTENDS Naturals, Sequences

CONSTANTS
    Images,         \* images of the dataset
    MaxRevision     \* bound on pointer moves

VARIABLES
    pointer,        \* CmsMarketingPublication: revision, status, release
    releases,       \* CmsMarketingRelease by sequence: the images of each snapshot
    media           \* CmsApprovedMedia status

publicationVars == <<pointer, releases, media>>

PublicationInit ==
    /\ pointer = [revision |-> 0, status |-> "absent", release |-> 0]
    /\ releases = <<>>
    /\ media = [i \in Images |-> "pending"]

Approved == {i \in Images : media[i] = "approved"}

-----------------------------------------------------------------------------

\* movePointer: an editor submits a revision seen earlier, whichever it is; every
\* move takes that revision to the next, so it must still be the current one.
MovePointer(seen, status, release) ==
    /\ pointer.revision < MaxRevision
    /\ seen = pointer.revision
    /\ pointer' = [revision |-> seen + 1, status |-> status, release |-> release]
    /\ UNCHANGED media

\* createMarketingRelease: a snapshot whose images are all approved.
CreateRelease(seen) ==
    /\ \E images \in SUBSET Approved : releases' = Append(releases, images)
    /\ MovePointer(seen, "active", Len(releases) + 1)

\* Fault: the pointer keeps the release it no longer serves.
UnpublishKeeps(seen) ==
    /\ pointer.status = "active"
    /\ MovePointer(seen, "revoked", pointer.release)
    /\ UNCHANGED releases

\* unpublishMarketing: the pointer is cleared, the release is retained.
UnpublishMarketing(seen) ==
    /\ pointer.status = "active"
    /\ MovePointer(seen, "revoked", 0)
    /\ UNCHANGED releases

\* Fault: a retained release comes back as it was.
RollbackUnchecked(seen, r) ==
    /\ pointer.release # r
    /\ MovePointer(seen, "active", r)
    /\ UNCHANGED releases

\* rollbackMarketingRelease: to a release that is retained, not the live one, and
\* whose images are all still approved.
RollbackRelease(seen, r) ==
    /\ pointer.release # r
    /\ releases[r] \subseteq Approved
    /\ MovePointer(seen, "active", r)
    /\ UNCHANGED releases

Approve(i) ==
    /\ media[i] = "pending"
    /\ media' = [media EXCEPT ![i] = "approved"]
    /\ UNCHANGED <<pointer, releases>>

\* revokeMedia: the live release is left as it is.
Revoke(i) ==
    /\ media[i] = "approved"
    /\ media' = [media EXCEPT ![i] = "revoked"]
    /\ UNCHANGED <<pointer, releases>>

Move(seen) ==
    \/ CreateRelease(seen) \/ UnpublishMarketing(seen)
    \/ \E r \in 1..Len(releases) : RollbackRelease(seen, r)

-----------------------------------------------------------------------------
(* Properties *)

\* Types; the pointer names a retained release exactly while it is active.
PublicationTypeOK ==
    /\ pointer \in [revision : 0..MaxRevision, status : {"absent", "active", "revoked"}, release : 0..Len(releases)]
    /\ pointer.status = "active" <=> pointer.release # 0
    /\ pointer.status = "absent" <=> pointer.revision = 0
    /\ releases \in Seq(SUBSET Images) /\ Len(releases) <= pointer.revision
    /\ media \in [Images -> {"pending", "approved", "revoked"}]
=============================================================================
