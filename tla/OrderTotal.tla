----------------------------- MODULE OrderTotal -----------------------------
(***************************************************************************)
(* How PlaceOrder (checkoutservice/main.go) computes the amount it charges *)
(* from the shipping quote and the order's lines, with the loop of         *)
(* MultiplySlow unrolled: one step per call of money.Sum.  money.Must      *)
(* turns an error of Sum into a panic, and nothing in the service recovers.*)
(***************************************************************************)
EXTENDS Money, Sequences

CONSTANTS Bills    \* the orders: a currency, a shipping cost and lines

(* What the catalog and the currency service return: valid amounts that    *)
(* are not negative.                                                       *)
Price(m) == m \in Amounts /\ m.units >= 0 /\ m.nanos \in 0 .. NanosMod - 1

Line == [cost : Amounts, qty : Nat \ {0}]

ASSUME BillsAssumption ==
  \A b \in Bills :
    /\ Price(b.shipping)
    /\ b.lines \in Seq(Line)
    /\ \A i \in 1 .. Len(b.lines) :
         /\ Price(b.lines[i].cost)
         /\ b.lines[i].cost.currency = b.shipping.currency

VARIABLES bill,
          pc,      \* "start", "lines", "multiply", "charge" or "panic"
          total,   \* the variable total of PlaceOrder
          next,    \* the index of the next line
          out, n,  \* the variables of MultiplySlow
          due      \* history: the exact value of what was added so far

vars == <<bill, pc, total, next, out, n, due>>

Cost == bill.lines[next].cost

Init == /\ bill \in Bills
        /\ pc = "start"
        /\ total = Amount(bill.shipping.currency, 0, 0)
        /\ next = 1
        /\ out = total
        /\ n = 0
        /\ due = 0

(* Must(Sum(l, r)) where a run of the program would panic.  The first Must *)
(* adds a valid amount to zero and cannot.                                 *)
Panic == /\ pc = "multiply"
         /\ \/ n > 1 /\ SumFails(out, Cost)
            \/ n <= 1 /\ SumFails(total, out)
         /\ pc' = "panic"
         /\ UNCHANGED <<bill, total, next, out, n, due>>

AddShipping == /\ pc = "start"
               /\ total' = Sum(total, bill.shipping)
               /\ due' = due + Value(bill.shipping)
               /\ pc' = "lines"
               /\ UNCHANGED <<bill, next, out, n>>

(* Slip: MultiplySlow adds the value n times and not n - 1.                *)
StartLineOnceMore == /\ pc = "lines" /\ next <= Len(bill.lines)
                     /\ out' = Cost
                     /\ n' = bill.lines[next].qty + 1
                     /\ pc' = "multiply"
                     /\ UNCHANGED <<bill, total, next, due>>

StartLine == /\ pc = "lines" /\ next <= Len(bill.lines)
             /\ out' = Cost
             /\ n' = bill.lines[next].qty
             /\ pc' = "multiply"
             /\ UNCHANGED <<bill, total, next, due>>

AddOnce == /\ pc = "multiply" /\ n > 1 /\ ~SumFails(out, Cost)
           /\ out' = Sum(out, Cost)
           /\ n' = n - 1
           /\ UNCHANGED <<bill, pc, total, next, due>>

(* Slip: the index moves on twice.                                         *)
AddLineSkipNext == /\ pc = "multiply" /\ n <= 1 /\ ~SumFails(total, out)
                   /\ total' = Sum(total, out)
                   /\ due' = due + Value(Cost) * bill.lines[next].qty
                   /\ next' = next + 2
                   /\ pc' = "lines"
                   /\ UNCHANGED <<bill, out, n>>

AddLine == /\ pc = "multiply" /\ n <= 1 /\ ~SumFails(total, out)
           /\ total' = Sum(total, out)
           /\ due' = due + Value(Cost) * bill.lines[next].qty
           /\ next' = next + 1
           /\ pc' = "lines"
           /\ UNCHANGED <<bill, out, n>>

Charge == /\ pc = "lines" /\ next > Len(bill.lines)
          /\ pc' = "charge"
          /\ UNCHANGED <<bill, total, next, out, n, due>>

Next == AddShipping \/ StartLine \/ AddOnce \/ AddLine \/ Charge \/ Panic

Spec == Init /\ [][Next]_vars

-----------------------------------------------------------------------------
(* Every variable holds a value of its type.                               *)
TypeOK == /\ bill \in Bills
          /\ pc \in {"start", "lines", "multiply", "charge", "panic"}
          /\ total \in Amounts
          /\ next \in 1 .. Len(bill.lines) + 1
          /\ out \in Amounts
          /\ n \in Nat
          /\ due \in Int

(* Each amount is at least one unit of its currency, as every price of     *)
(* products.json and the shipping quote are in every currency on offer.    *)
WholeUnits == /\ bill.shipping.units >= 1
              /\ \A i \in 1 .. Len(bill.lines) : bill.lines[i].cost.units >= 1

(* Between two lines the running total is to the nano the shipping plus    *)
(* each line's cost times its quantity: no carry is lost, doubled or       *)
(* wrapped, whatever the prices, so what is charged is exact.              *)
TotalExact == pc \in {"lines", "charge"} => Value(total) = due

(* For an order of such amounts the carry never leaves an amount that      *)
(* IsValid rejects, and chargeCard is passed a valid one.                  *)
ChargeValid == (WholeUnits /\ pc = "charge") => IsValid(total)

(* Nor does any Must panic: computing the total of such an order never     *)
(* takes the service down.                                                 *)
NoPanic == WholeUnits => pc # "panic"

(* "MultiplySlow is a slow multiplication operation done through adding    *)
(* the value to itself n-1 times": with k additions left, out is the cost  *)
(* times the others, and no addition fails.                                *)
MultiplySlowMultiplies ==
  pc = "multiply" => /\ Value(out) = Value(Cost) * (bill.lines[next].qty - n + 1)
                     /\ n > 1 => ~SumFails(out, Cost)
=============================================================================
