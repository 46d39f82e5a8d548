------------------------------ MODULE MCCmsOutbox ------------------------------
(* Small instances of the CMS outbox dispatcher. *)
EXTENDS CmsOutbox
CONSTANTS e1, t1, t2, w1, w2
=============================================================================
