------------------------------ MODULE Currency ------------------------------
(***************************************************************************)
(* convert of the currency service (currencyservice/server.js): to euros,  *)
(* rounded to a nano, and from euros to the other currency, rounded down.  *)
(* The program computes in doubles, which may turn a floor one nano; here  *)
(* the numbers between the roundings are exact fractions over one          *)
(* denominator.  Prices are not negative.                                  *)
(***************************************************************************)
EXTENDS Money

CONSTANTS Data    \* currency_conversion.json: units to the euro, as num/den

ASSUME DataAssumption ==
  \A code \in DOMAIN Data : Data[code].num \in Nat \ {0}
                            /\ Data[code].den \in Nat \ {0}

(* Slip: the fraction of a unit is dropped instead of turned into nanos.   *)
CarryWhole(units, nanos, den) ==
  [units |-> units \div den + nanos \div (den * NanosMod),
   nanos |-> nanos % (den * NanosMod)]

(* units/den units and nanos/den nanos: whole units, and nanos/den nanos   *)
(* that are less than one.                                                 *)
Carry(units, nanos, den) ==
  LET all == nanos + (units % den) * NanosMod
  IN  [units |-> units \div den + all \div (den * NanosMod),
       nanos |-> all % (den * NanosMod)]

(* Math.round of a/b.                                                      *)
Round(a, b) == (2 * a + b) \div (2 * b)

Euros(from) ==
  LET rate == Data[from.currency]
      sum == Carry(from.units * rate.den, from.nanos * rate.den, rate.num)
  IN  Amount("EUR", sum.units, Round(sum.nanos, rate.num))

(* A code that the data lacks gives NaN, which the response encodes as 0.  *)
Convert(from, toCode) ==
  IF ~({from.currency, toCode} \subseteq DOMAIN Data) THEN Amount(toCode, 0, 0)
  ELSE LET rate == Data[toCode]
           euros == Euros(from)
           sum == Carry(euros.units * rate.num, euros.nanos * rate.num, rate.den)
       IN  Amount(toCode, sum.units, sum.nanos \div rate.den)
=============================================================================
