------------------------------- MODULE Money -------------------------------
(***************************************************************************)
(* checkoutservice/money/money.go (the frontend holds the same file): an   *)
(* amount is units and nanos of a currency, and the two carry one sign.    *)
(* NanosMod is 10^9 and Int32Half is 2^31 in the program; a model scales   *)
(* both down and keeps their ratio, which decides what overflows.  Units   *)
(* are an int64, whose limit no price times an int32 quantity comes near,  *)
(* so they are unbounded here.                                             *)
(***************************************************************************)
EXTENDS Integers

CONSTANTS NanosMod, Int32Half

ASSUME MoneyAssumption == /\ NanosMod \in Nat /\ NanosMod > 1
                          /\ Int32Half \in Nat /\ 2 * NanosMod <= Int32Half

Amounts == [currency : STRING, units : Int, nanos : Int]
Amount(c, u, n) == [currency |-> c, units |-> u, nanos |-> n]

(* The amount an exact ledger would keep, in nanos.                        *)
Value(m) == m.units * NanosMod + m.nanos

(* Go's int32 arithmetic wraps, and / and % truncate towards zero.         *)
Int32(x) == ((x + Int32Half) % (2 * Int32Half)) - Int32Half
Quot(a, b) == IF a >= 0 THEN a \div b ELSE -((-a) \div b)
Rem(a, b) == a - b * Quot(a, b)

ValidNanos(nanos) == -NanosMod < nanos /\ nanos < NanosMod
SignMatches(m) == m.nanos = 0 \/ m.units = 0 \/ ((m.nanos < 0) <=> (m.units < 0))
IsValid(m) == SignMatches(m) /\ ValidNanos(m.nanos)

(* Slip: no carry out of the nanos.                                        *)
SettleNoCarry(c, units, nanos) == Amount(c, units, nanos)

(* Sum adds units and nanos and then settles the carry, or the borrow when *)
(* it takes the two to have different signs.                               *)
Settle(c, units, nanos) ==
  IF \/ units = 0 /\ nanos = 0
     \/ units > 0 /\ nanos >= 0
     \/ units < 0 /\ nanos <= 0
  THEN Amount(c, units + Quot(nanos, NanosMod), Rem(nanos, NanosMod))
  ELSE IF units > 0
       THEN Amount(c, units - 1, Int32(nanos + NanosMod))
       ELSE Amount(c, units + 1, Int32(nanos - NanosMod))

(* ErrInvalidValue, ErrMismatchingCurrency: Sum has no result.             *)
SumFails(l, r) == ~IsValid(l) \/ ~IsValid(r) \/ l.currency # r.currency

Sum(l, r) == Settle(l.currency, l.units + r.units, Int32(l.nanos + r.nanos))
=============================================================================
