-------------------------- MODULE MCRetailCheckout --------------------------
(* Instances of RetailOrders for TLC.  Calls are numbers, so that of all   *)
(* the ways to hand the same requests to them one is enough (Sorted).      *)
EXTENDS RetailOrders

CONSTANT Address

Line(i) == [id |-> "p1", name |-> "n1", quantity |-> i, unitCost |-> 10,
            totalCost |-> 10 * i, imageUrl |-> "i1"]

(* The first has eleven lines, one more than is listed in order.           *)
MCBodies ==
  {[customerEmail |-> "e1", items |-> [i \in 1 .. 11 |-> Line(i)],
    subtotal |-> 25, shippingAddress |-> Address,
    deliveryOptionToken |-> "priority-mail"],
   [customerEmail |-> Undefined, items |-> <<Line(1), Line(2)>>,
    subtotal |-> 0, shippingAddress |-> Undefined,
    deliveryOptionToken |-> Undefined],
   [customerEmail |-> "e1", items |-> <<Line(1)>>, subtotal |-> -1,
    shippingAddress |-> Undefined, deliveryOptionToken |-> Undefined]}

(* As text, 10 is between 1 and 2.                                         *)
MCTextOrder ==
  LET Key(k) == IF k = 10 THEN 15 ELSE 10 * k
  IN  {pair \in (0 .. 10) \X (0 .. 10) : Key(pair[1]) < Key(pair[2])}

Rank(r) == CASE r.op = "get" -> 0
             [] r.op = "submit" -> 1
             [] r.op = "update" -> 2 + r.body.subtotal + 1

Sorted == \A c, d \in Calls : c < d => Rank(req[c]) <= Rank(req[d])

(* The mock orders service is checked over the stores without a replica.   *)
Environments == env.orders = "mock" => env.reader = "primary"

MCInit == Init /\ Sorted /\ Environments

MCSpec == MCInit /\ [][Next]_vars /\ Fairness
=============================================================================
