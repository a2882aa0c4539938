----------------------------- MODULE MCBilling ------------------------------
(* Instances of Billing for TLC: ten nanos to the unit, an int32 of 2.1    *)
(* units, and a currency whose unit is small, one whose unit is large and  *)
(* one that the currency service does not know.                            *)
EXTENDS Billing, SequencesExt

CONSTANTS MaxUnits, MaxLines, MaxQty

MCData == [EUR |-> [num |-> 1, den |-> 1], USD |-> [num |-> 11, den |-> 10],
           JPY |-> [num |-> 5, den |-> 1], GBP |-> [num |-> 4, den |-> 5]]

Dollar == {Amount("USD", u, k) : u \in 0 .. MaxUnits, k \in {0, 4, 9}}

MCOrders == [shipping : Dollar \ {Amount("USD", 0, 0)},
             lines : SeqOf([cost : Dollar, qty : 1 .. MaxQty], MaxLines),
             currency : {"USD", "JPY", "GBP", "UAH"}]

BillsIn(code) ==
  LET Prices == {Convert(m, code) : m \in Dollar}
  IN  [shipping : Prices,
       lines : SeqOf([cost : Prices, qty : 1 .. MaxQty], MaxLines)]

MCBills == BillsIn("USD") \cup BillsIn("JPY") \cup BillsIn("GBP")
             \cup BillsIn("UAH")

MCCards == [type : {"visa", "amex"}, valid : BOOLEAN, year : {0, 1},
            month : {1, 11, 12}]

MCMoments == [year : {0}, month : {10, 11, 12}]

(* The cards and the moments are tried out on the shortest orders.         *)
Tried == order.lines = <<>>
           \/ /\ card = [type |-> "visa", valid |-> TRUE, year |-> 0, month |-> 12]
              /\ clock.month = 12

MCInit == BillingInit /\ Tried

MCSpec == MCInit /\ [][BillingNext]_billingVars
=============================================================================
