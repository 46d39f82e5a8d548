----------------------------- MODULE MCCmsDelivery -----------------------------
(* A small instance of CMS publication with its images and their delivery. *)
EXTENDS CmsDelivery, TLC
CONSTANTS t1, c1, c2, i1
CleanerSymmetry == Permutations(Cleaners)
=============================================================================
