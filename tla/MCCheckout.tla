----------------------------- MODULE MCCheckout -----------------------------
(* Instances of Checkout for TLC.  All requests are of one user: those of  *)
(* different users share nothing but the catalog's prices.                 *)
EXTENDS Checkout, TLC

CONSTANTS u1, o1, o2, a1, a2, a3, p1, p2

MCCustomerOf == [r \in Adds \cup Orders |-> u1]

MCProductOf == [a \in Adds |-> IF a = a1 THEN p1 ELSE p2]
=============================================================================
