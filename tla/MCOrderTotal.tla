---------------------------- MODULE MCOrderTotal ----------------------------
(* Instances of OrderTotal for TLC: ten nanos to the unit, an int32 of     *)
(* 2.1 units, one currency, and orders of at most MaxLines lines.          *)
EXTENDS OrderTotal, SequencesExt

CONSTANTS MinUnits, MaxUnits, MaxLines, MaxQty

Prices == {Amount("USD", u, k) : u \in MinUnits .. MaxUnits, k \in {0, 1, 5, 9}}

MCBills == [shipping : Prices \ {Amount("USD", 0, 0)},
            lines : SeqOf([cost : Prices, qty : 1 .. MaxQty], MaxLines)]
=============================================================================
