----------------------------- MODULE MCDomainOrders -----------------------------
(* Small instances of DomainOrders for TLC. *)
EXTENDS DomainOrders, TLC

CONSTANTS c1, c2, d1, d2, h1, h2, a1, a2, pass0

OwnDomains == [c \in Charges |-> IF c = c1 THEN d1 ELSE d2]
SameDomain == [c \in Charges |-> d1]
All(op)    == [c \in Charges |-> op]
Registers  == All("register")
Renewals   == All("renew")
RegisterTransfer == [c \in Charges |-> IF c = c1 THEN "register" ELSE "transfer"]
Transfers  == All("transfer")
=============================================================================
