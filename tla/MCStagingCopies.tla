-------------------------- MODULE MCStagingCopies --------------------------
(* A small instance of the staging copies of a project: copies of "acme" are called after it; copies of       *)
(* "blog" may be called after it, be called "acme" too, or have a name that only resembles acme's.            *)
EXTENDS StagingCopies, TLC
CONSTANTS acme, blog
Called(same, near) == [same |-> same, near |-> same \union near]
MCNames == (acme :> {Called({acme}, {})}) @@ (blog :> {Called({acme, blog}, {}), Called({}, {acme})})
=============================================================================
