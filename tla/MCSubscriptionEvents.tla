------------------------- MODULE MCSubscriptionEvents -------------------------
(* A small instance of the subscription events of one account. *)
EXTENDS SubscriptionEvents
CONSTANTS s1, s2, h1, h2
=============================================================================
