--------------------------- MODULE Billing_proofs ---------------------------
(* The total of an order is exact for every bill, and for bills of whole   *)
(* units valid and computed without a panic.  Composed with the currency   *)
(* service, it is the dollar total at the exact rate but for the rounding  *)
(* of each amount; and the payment service judges a card by its expiry     *)
(* however the months pass.                                                *)
EXTENDS Billing, FiniteSetTheorems, WellFoundedInduction, TLAPS

(* An int32 holds the sum of two nanos.                                    *)
LEMMA Int32Holds ==
  ASSUME NEW x \in Int, -Int32Half <= x, x < Int32Half
  PROVE  Int32(x) = x
<1>1. Int32Half \in Nat /\ x + Int32Half \in 0 .. 2 * Int32Half - 1
  BY MoneyAssumption
<1>2. (x + Int32Half) % (2 * Int32Half) = x + Int32Half
  BY <1>1
<1> QED BY <1>1, <1>2 DEF Int32

(* The carry out of the sum of two nanos is 0 or 1.                        *)
LEMMA CarryOfNanos ==
  ASSUME NEW x \in 0 .. 2 * NanosMod - 1
  PROVE  /\ x < NanosMod => Quot(x, NanosMod) = 0 /\ Rem(x, NanosMod) = x
         /\ x >= NanosMod => Quot(x, NanosMod) = 1 /\ Rem(x, NanosMod) = x - NanosMod
<1>1. NanosMod \in Nat /\ NanosMod > 1
  BY MoneyAssumption
<1>2. CASE x < NanosMod
  <2>1. x \div NanosMod = 0
    BY <1>1, <1>2
  <2> QED BY <1>1, <1>2, <2>1 DEF Quot, Rem
<1>3. CASE x >= NanosMod
  <2>1. x \div NanosMod = 1
    BY <1>1, <1>3
  <2> QED BY <1>1, <1>3, <2>1 DEF Quot, Rem
<1> QED BY <1>2, <1>3, <1>1

(* One more unit is NanosMod more nanos.                                   *)
LEMMA ValueOf ==
  ASSUME NEW c, NEW u \in Int, NEW k \in Int
  PROVE  /\ Value(Amount(c, u, k)) = u * NanosMod + k
         /\ Value(Amount(c, u, k)) \in Int
         /\ Value(Amount(c, u + 1, k - NanosMod)) = Value(Amount(c, u, k))
<1>1. NanosMod \in Int
  BY MoneyAssumption
<1>2. (u + 1) * NanosMod = u * NanosMod + NanosMod /\ u * NanosMod \in Int
  BY <1>1
<1> QED BY <1>1, <1>2 DEF Value, Amount

(* Sum adds two prices exactly.  Its result is a price too, except that    *)
(* below one unit it may be an amount IsValid rejects.                     *)
SumOf(s, l, r) ==
  /\ s \in Amounts /\ s.currency = l.currency
  /\ Value(s) = Value(l) + Value(r)
  /\ Price(s) \/ ~IsValid(s)
  /\ l.units + r.units >= 1 => Price(s) /\ s.units >= 1

(* Sum of two valid amounts of a currency is exact, sign by sign.          *)
LEMMA SumExact ==
  ASSUME NEW l, NEW r, Price(l), Price(r)
  PROVE  SumOf(Sum(l, r), l, r)
<1> DEFINE c == l.currency
           u == l.units + r.units
           k == l.nanos + r.nanos
           s == Sum(l, r)
<1>1. /\ c \in STRING /\ u \in Nat /\ k \in 0 .. 2 * NanosMod - 2
      /\ NanosMod \in Nat /\ NanosMod > 1
      /\ l.units \in Nat /\ r.units \in Nat /\ l.nanos \in Nat /\ r.nanos \in Nat
  BY MoneyAssumption DEF Price, Amounts
<1>2. Int32(k) = k
  BY <1>1, Int32Holds, MoneyAssumption
<1>3. s = Settle(c, u, k)
  BY <1>2 DEF Sum
<1>4. Value(l) + Value(r) = u * NanosMod + k
  BY <1>1 DEF Value
<1>5. ASSUME NEW v \in Nat, NEW j \in 0 .. NanosMod - 1, s = Amount(c, v, j)
      PROVE  s \in Amounts /\ s.currency = c /\ Price(s) /\ s.units = v
  BY <1>1, <1>5 DEF Amount, Amounts, Price
<1>6. CASE u = 0 /\ k = 0
  <2>1. s = Amount(c, 0, 0)
    BY <1>1, <1>3, <1>6, CarryOfNanos DEF Settle
  <2> QED BY <1>1, <1>4, <1>5, <1>6, <2>1, ValueOf DEF SumOf
<1>7. CASE u > 0 /\ k < NanosMod
  <2>1. s = Amount(c, u, k)
    BY <1>1, <1>3, <1>7, CarryOfNanos DEF Settle
  <2> QED BY <1>1, <1>4, <1>5, <1>7, <2>1, ValueOf DEF SumOf
<1>8. CASE u > 0 /\ k >= NanosMod
  <2>1. s = Amount(c, u + 1, k - NanosMod)
    BY <1>1, <1>3, <1>8, CarryOfNanos DEF Settle
  <2> QED BY <1>1, <1>4, <1>5, <1>8, <2>1, ValueOf DEF SumOf
<1>9. CASE u = 0 /\ k > 0
  <2>1. Int32(k - NanosMod) = k - NanosMod
    BY <1>1, Int32Holds, MoneyAssumption
  <2>2. s = Amount(c, u + 1, k - NanosMod)
    BY <1>1, <1>3, <1>9, <2>1 DEF Settle
  <2>3. CASE k >= NanosMod
    BY <1>1, <1>4, <1>5, <1>9, <2>2, <2>3, ValueOf DEF SumOf
  <2>4. CASE k < NanosMod
    <3>1. s.units > 0 /\ s.nanos < 0 /\ s \in Amounts /\ s.currency = c
      BY <1>1, <1>9, <2>2, <2>4 DEF Amount, Amounts
    <3>2. ~IsValid(s)
      BY <3>1 DEF IsValid, SignMatches, Amounts
    <3> QED BY <1>1, <1>4, <1>9, <2>2, <3>1, <3>2, ValueOf DEF SumOf
  <2> QED BY <1>1, <2>3, <2>4
<1> QED BY <1>1, <1>6, <1>7, <1>8, <1>9

-----------------------------------------------------------------------------
(* A running sum is a price of the bill's currency, or below one unit an   *)
(* amount IsValid rejects; for a bill of whole units it is a price.        *)
Running(m) == /\ m.currency = bill.shipping.currency
              /\ Price(m) \/ ~IsValid(m)
              /\ WholeUnits => Price(m) /\ m.units >= 1

(* Before anything is added, the total is zero.                            *)
AtStart == pc = "start" => /\ total = Amount(bill.shipping.currency, 0, 0)
                           /\ due = 0

TotalRuns == pc \in {"lines", "multiply", "charge"} =>
               Running(total) /\ Value(total) = due

(* With n - 1 additions left, out is the cost times the others.            *)
OutRuns == pc = "multiply" =>
             /\ next \in 1 .. Len(bill.lines)
             /\ n \in 1 .. bill.lines[next].qty
             /\ Running(out)
             /\ Value(out) = Value(Cost) * (bill.lines[next].qty - n + 1)

IInv == TypeOK /\ AtStart /\ TotalRuns /\ OutRuns /\ NoPanic

(* What BillsAssumption says of the bill at hand.                          *)
LEMMA BillTyped ==
  ASSUME bill \in Bills
  PROVE  /\ bill.shipping \in Amounts /\ Price(bill.shipping)
         /\ Len(bill.lines) \in Nat
         /\ \A i \in 1 .. Len(bill.lines) :
              /\ bill.lines[i].cost \in Amounts /\ Price(bill.lines[i].cost)
              /\ bill.lines[i].cost.currency = bill.shipping.currency
              /\ bill.lines[i].qty \in Nat \ {0}
              /\ WholeUnits => bill.lines[i].cost.units >= 1
         /\ WholeUnits => bill.shipping.units >= 1
<1>1. bill.lines \in Seq(Line) /\ Price(bill.shipping)
  BY BillsAssumption
<1>2. \A i \in 1 .. Len(bill.lines) : bill.lines[i] \in Line
  BY <1>1
<1> QED BY <1>1, <1>2, BillsAssumption DEF Line, Price, WholeUnits

(* The value of an amount is a whole number of nanos.                      *)
LEMMA ValueTyped == ASSUME NEW m \in Amounts PROVE Value(m) \in Int
<1>1. NanosMod \in Int /\ m.units \in Int /\ m.nanos \in Int
  BY MoneyAssumption DEF Amounts
<1> QED BY <1>1 DEF Value

(* A zero of the bill's currency is a price.                               *)
LEMMA ZeroIsPrice ==
  ASSUME bill \in Bills
  PROVE  LET zero == Amount(bill.shipping.currency, 0, 0)
         IN  /\ Price(zero) /\ zero \in Amounts /\ Value(zero) = 0
             /\ zero.units = 0 /\ zero.currency = bill.shipping.currency
<1>1. bill.shipping.currency \in STRING
  BY BillTyped DEF Amounts
<1> QED BY <1>1, MoneyAssumption DEF Amount, Amounts, Price, Value

(* The first total is zero.                                                *)
LEMMA InitIInv == Init => IInv
<1> SUFFICES ASSUME Init PROVE IInv
  OBVIOUS
<1>1. total \in Amounts /\ Len(bill.lines) \in Nat
  BY ZeroIsPrice, BillTyped DEF Init
<1>2. TypeOK
  BY <1>1 DEF Init, TypeOK
<1> QED BY <1>2 DEF Init, IInv, AtStart, TotalRuns, OutRuns, NoPanic

(* Adding a price to a running sum that Sum accepts gives a running sum.   *)
LEMMA RunningSum ==
  ASSUME bill \in Bills, NEW l \in Amounts, NEW r \in Amounts,
         Price(l), l.currency = bill.shipping.currency, Price(r),
         WholeUnits => r.units >= 1
  PROVE  /\ Sum(l, r) \in Amounts /\ Running(Sum(l, r))
         /\ Value(Sum(l, r)) = Value(l) + Value(r)
<1>1. SumOf(Sum(l, r), l, r)
  BY SumExact
<1>2. WholeUnits => l.units + r.units >= 1
  BY DEF Price, Amounts
<1> QED BY <1>1, <1>2 DEF SumOf, Running

(* Two running sums of a bill of whole units can be added.                 *)
LEMMA RunningSumsAdd ==
  ASSUME NEW l \in Amounts, NEW r \in Amounts, Running(l), Running(r)
  PROVE  /\ WholeUnits => ~SumFails(l, r)
         /\ ~SumFails(l, r) => Price(l) /\ Price(r)
<1>1. \A m \in Amounts : Price(m) => IsValid(m)
  BY MoneyAssumption DEF Price, IsValid, SignMatches, ValidNanos, Amounts
<1> QED BY <1>1 DEF Running, SumFails

(* A cost is a running sum of its own.                                     *)
LEMMA CostRuns ==
  ASSUME bill \in Bills, next \in 1 .. Len(bill.lines)
  PROVE  Cost \in Amounts /\ Price(Cost) /\ Running(Cost)
         /\ (WholeUnits => Cost.units >= 1)
BY BillTyped DEF Cost, Running

(* A Sum adds exactly, and is defined where the invariant holds.           *)
LEMMA StepIInv == IInv /\ [Next]_vars => IInv'
<1> SUFFICES ASSUME IInv, [Next]_vars PROVE IInv'
  OBVIOUS
<1>0. bill \in Bills /\ Len(bill.lines) \in Nat
  BY BillTyped DEF IInv, TypeOK
<1> USE DEF IInv
<1>1. CASE UNCHANGED vars
  BY <1>1 DEF vars, TypeOK, AtStart, TotalRuns, OutRuns, NoPanic, Running,
              WholeUnits, Cost
<1>2. CASE AddShipping
  <2>1. /\ total = Amount(bill.shipping.currency, 0, 0) /\ due = 0
        /\ pc' = "lines" /\ bill' = bill
        /\ total' = Sum(total, bill.shipping)
        /\ due' = due + Value(bill.shipping)
        /\ next' = next /\ out' = out /\ n' = n
    BY <1>2 DEF AddShipping, AtStart
  <2>2. /\ total' \in Amounts /\ Running(total') /\ Value(total') = due'
        /\ due' \in Int
    BY <1>0, <2>1, ZeroIsPrice, BillTyped, RunningSum, ValueTyped
  <2>3. TypeOK'
    BY <2>1, <2>2 DEF TypeOK
  <2>4. TotalRuns'
    BY <2>1, <2>2 DEF TotalRuns, Running, WholeUnits
  <2> QED BY <2>1, <2>3, <2>4 DEF AtStart, OutRuns, NoPanic
<1>3. CASE StartLine
  <2>1. /\ pc = "lines" /\ next \in 1 .. Len(bill.lines)
        /\ out' = Cost /\ n' = bill.lines[next].qty /\ pc' = "multiply"
        /\ bill' = bill /\ total' = total /\ next' = next /\ due' = due
    BY <1>0, <1>3 DEF StartLine, TypeOK
  <2>2. Cost \in Amounts /\ Running(Cost) /\ n' \in Nat \ {0}
    BY <1>0, <2>1, CostRuns, BillTyped
  <2>3. TypeOK'
    BY <2>1, <2>2 DEF TypeOK
  <2>4. TotalRuns'
    BY <2>1 DEF TotalRuns, Running, WholeUnits
  <2>5. OutRuns'
    <3>1. Value(Cost) = Value(Cost) * (n' - n' + 1)
      BY <2>2, ValueTyped
    <3>2. Cost' = Cost
      BY <2>1 DEF Cost
    <3>3. (Value(out) = Value(Cost) * (bill.lines[next].qty - n + 1))'
      BY <2>1, <3>1, <3>2, Zenon
    <3>4. Running(out)'
      BY <2>1, <2>2 DEF Running, WholeUnits
    <3>5. (next \in 1 .. Len(bill.lines) /\ n \in 1 .. bill.lines[next].qty)'
      BY <2>1, <2>2
    <3> QED BY <3>3, <3>4, <3>5, Zenon DEF OutRuns
  <2> QED BY <2>1, <2>3, <2>4, <2>5 DEF AtStart, NoPanic
<1>4. CASE AddOnce
  <2>1. /\ pc = "multiply" /\ n > 1 /\ ~SumFails(out, Cost)
        /\ out' = Sum(out, Cost) /\ n' = n - 1
        /\ pc' = pc /\ bill' = bill /\ total' = total /\ next' = next /\ due' = due
    BY <1>4 DEF AddOnce
  <2>2. /\ next \in 1 .. Len(bill.lines) /\ n \in 1 .. bill.lines[next].qty
        /\ Running(out) /\ out \in Amounts
        /\ Value(out) = Value(Cost) * (bill.lines[next].qty - n + 1)
    BY <2>1 DEF OutRuns, TypeOK
  <2>3. Price(out) /\ Price(Cost) /\ Cost \in Amounts
    BY <1>0, <2>1, <2>2, CostRuns, RunningSumsAdd
  <2>4. /\ out' \in Amounts /\ Running(out')
        /\ Value(out') = Value(out) + Value(Cost)
    BY <1>0, <2>1, <2>2, <2>3, CostRuns, RunningSum DEF Running
  <2>5. TypeOK'
    BY <2>1, <2>2, <2>4 DEF TypeOK
  <2>6. OutRuns'
    <3>1. bill.lines[next].qty \in Nat /\ n \in Nat /\ Value(Cost) \in Int
      BY <1>0, <2>2, <2>3, BillTyped, ValueTyped
    <3> DEFINE k == bill.lines[next].qty - n + 1
    <3>2. Value(out') = Value(Cost) * (bill.lines[next].qty - n' + 1)
      <4>1. k \in Int /\ bill.lines[next].qty - n' + 1 = k + 1
        BY <2>1, <3>1
      <4>2. Value(out') = Value(Cost) * k + Value(Cost)
        BY <2>2, <2>4
      <4> HIDE DEF k
      <4>3. Value(Cost) * (k + 1) = Value(Cost) * k + Value(Cost)
        BY <3>1, <4>1
      <4> QED BY <4>1, <4>2, <4>3, Zenon
    <3>3. Cost' = Cost
      BY <2>1 DEF Cost
    <3>4. (Value(out) = Value(Cost) * (bill.lines[next].qty - n + 1))'
      BY <2>1, <3>2, <3>3, Zenon
    <3>5. Running(out)'
      BY <2>1, <2>4 DEF Running, WholeUnits
    <3>6. (next \in 1 .. Len(bill.lines) /\ n \in 1 .. bill.lines[next].qty)'
      BY <2>1, <2>2, <3>1
    <3> QED BY <3>4, <3>5, <3>6, Zenon DEF OutRuns
  <2> QED BY <2>1, <2>5, <2>6 DEF AtStart, TotalRuns, NoPanic, Running, WholeUnits
<1>5. CASE AddLine
  <2>1. /\ pc = "multiply" /\ n <= 1 /\ ~SumFails(total, out)
        /\ total' = Sum(total, out) /\ next' = next + 1 /\ pc' = "lines"
        /\ due' = due + Value(Cost) * bill.lines[next].qty
        /\ bill' = bill /\ out' = out /\ n' = n
    BY <1>5 DEF AddLine
  <2>2. /\ next \in 1 .. Len(bill.lines) /\ n \in 1 .. bill.lines[next].qty
        /\ Running(out) /\ out \in Amounts /\ Running(total) /\ total \in Amounts
        /\ Value(out) = Value(Cost) * (bill.lines[next].qty - n + 1)
        /\ Value(total) = due /\ due \in Int
    BY <2>1 DEF OutRuns, TotalRuns, TypeOK
  <2>3. Value(out) = Value(Cost) * bill.lines[next].qty
    <3>1. bill.lines[next].qty \in Nat /\ n = 1
      BY <1>0, <2>1, <2>2, BillTyped
    <3> QED BY <2>2, <3>1
  <2>4. Price(total) /\ Price(out) /\ (WholeUnits => out.units >= 1)
    BY <2>1, <2>2, RunningSumsAdd DEF Running
  <2>5. /\ total' \in Amounts /\ Running(total')
        /\ Value(total') = Value(total) + Value(out)
    BY <1>0, <2>1, <2>2, <2>4, RunningSum DEF Running
  <2>6. Value(total') = due' /\ due' \in Int
    BY <2>1, <2>2, <2>3, <2>5, ValueTyped
  <2>7. TypeOK'
    BY <1>0, <2>1, <2>2, <2>5, <2>6 DEF TypeOK
  <2>8. TotalRuns'
    BY <2>1, <2>5, <2>6 DEF TotalRuns, Running, WholeUnits
  <2> QED BY <2>1, <2>7, <2>8 DEF AtStart, OutRuns, NoPanic
<1>6. CASE Charge
  BY <1>6 DEF Charge, TypeOK, AtStart, TotalRuns, OutRuns, NoPanic, Running,
              WholeUnits, Cost
<1>7. CASE Panic
  <2>1. ~WholeUnits
    <3>1. /\ pc = "multiply" /\ next \in 1 .. Len(bill.lines)
          /\ Running(out) /\ Running(total) /\ out \in Amounts /\ total \in Amounts
      BY <1>7 DEF Panic, OutRuns, TotalRuns, TypeOK
    <3>2. Cost \in Amounts /\ Running(Cost)
      BY <1>0, <3>1, CostRuns
    <3> QED BY <1>7, <3>1, <3>2, RunningSumsAdd DEF Panic
  <2> QED BY <1>7, <2>1 DEF Panic, TypeOK, AtStart, TotalRuns, OutRuns, NoPanic,
                            WholeUnits
<1> QED BY <1>1, <1>2, <1>3, <1>4, <1>5, <1>6, <1>7 DEF Next

(* IInv holds in every state.                                              *)
LEMMA Invariance == Spec => []IInv
BY InitIInv, StepIInv, PTL DEF Spec

(* Every variable of OrderTotal keeps its type.                            *)
THEOREM TypeCorrect == Spec => []TypeOK
<1>1. IInv => TypeOK
  BY DEF IInv
<1> QED BY Invariance, <1>1, PTL

(* The running total of PlaceOrder is exact for every order, whatever the  *)
(* prices and the quantities: no carry is lost and no int32 wraps.         *)
THEOREM TotalCorrect == Spec => []TotalExact
<1>1. IInv => TotalExact
  BY DEF IInv, TotalRuns, TotalExact
<1> QED BY Invariance, <1>1, PTL

(* An order whose prices are at least one unit is charged a valid amount.  *)
THEOREM ChargeCorrect == Spec => []ChargeValid
<1>1. IInv => ChargeValid
  BY MoneyAssumption DEF IInv, TotalRuns, ChargeValid, Running, Price, IsValid,
     SignMatches, ValidNanos, Amounts
<1> QED BY Invariance, <1>1, PTL

(* Computing its total never panics.                                       *)
THEOREM PanicCorrect == Spec => []NoPanic
<1>1. IInv => NoPanic
  BY DEF IInv
<1> QED BY Invariance, <1>1, PTL

-----------------------------------------------------------------------------
(* Induction over the naturals, from the well-foundedness of the finite    *)
(* sets: a set of naturals that is not empty has a least element.          *)
LEMMA LeastNatural ==
  ASSUME NEW T, T \subseteq Nat, T # {}
  PROVE  \E k \in T : \A m \in T : k <= m
<1> DEFINE Below == {1 .. k : k \in T}
<1>1. IsWellFoundedOn(StrictSubsetOrdering(Nat), FiniteSubsetsOf(Nat))
  BY FS_StrictSubsetOrderingWellFounded
<1>2. Below # {} /\ Below \subseteq FiniteSubsetsOf(Nat)
  <2>1. \A k \in T : 1 .. k \in FiniteSubsetsOf(Nat)
    BY FS_Interval DEF FiniteSubsetsOf
  <2> QED BY <2>1
<1>3. PICK B \in Below : \A C \in Below : ~(<<C, B>> \in StrictSubsetOrdering(Nat))
  BY <1>1, <1>2, WFMin
<1>4. PICK k \in T : B = 1 .. k
  OBVIOUS
<1>5. ASSUME NEW m \in T, ~(k <= m) PROVE FALSE
  <2>1. m \in Nat /\ k \in Nat /\ m < k
    BY <1>5
  <2>2. 1 .. m \subseteq 1 .. k /\ k \in 1 .. k /\ k \notin 1 .. m
    BY <2>1
  <2>3. <<1 .. m, 1 .. k>> \in StrictSubsetOrdering(Nat)
    BY <2>1, <2>2 DEF StrictSubsetOrdering
  <2> QED BY <2>3, <1>3, <1>4
<1> QED BY <1>5

(* Induction over the naturals as a fact about sets: the least number      *)
(* outside T would have its predecessor inside.                            *)
LEMMA NaturalsBySteps ==
  ASSUME NEW T, 0 \in T, \A k \in Nat : k \in T => k + 1 \in T
  PROVE  Nat \subseteq T
<1>1. SUFFICES ASSUME Nat \ T # {} PROVE FALSE
  OBVIOUS
<1>2. PICK k \in Nat \ T : \A m \in Nat \ T : k <= m
  BY <1>1, LeastNatural
<1>3. k # 0 /\ k - 1 \in Nat /\ ~(k <= k - 1) /\ (k - 1) + 1 = k
  BY <1>2
<1> QED BY <1>2, <1>3

(* Sums adds the numbers one by one.                                       *)
LEMMA SumsAdd ==
  ASSUME NEW base \in Int, NEW numbers \in Seq(Int)
  PROVE  LET s == Sums(base, numbers)
         IN  /\ s \in [0 .. Len(numbers) -> Int]
             /\ s[0] = base
             /\ \A k \in 1 .. Len(numbers) : s[k] = s[k - 1] + numbers[k]
<1> DEFINE IsSums(g, m) == g = [k \in 0 .. m |-> IF k = 0 THEN base
                                                 ELSE g[k - 1] + numbers[k]]
           Has(m) == \E g : IsSums(g, m) /\ g \in [0 .. m -> Int]
           T == {m \in Nat : m <= Len(numbers) => Has(m)}
<1>0. Len(numbers) \in Nat /\ \A k \in 1 .. Len(numbers) : numbers[k] \in Int
  OBVIOUS
<1>1. Has(0)
  <2>1. IsSums([k \in 0 .. 0 |-> base], 0)
    OBVIOUS
  <2> QED BY <2>1
<1>2. ASSUME NEW m \in Nat, m + 1 <= Len(numbers), Has(m) PROVE Has(m + 1)
  <2>1. m + 1 <= Len(numbers)
    BY <1>2
  <2>2. PICK g : IsSums(g, m) /\ g \in [0 .. m -> Int]
    BY <1>2
  <2> DEFINE h == [k \in 0 .. m + 1 |-> IF k = m + 1 THEN g[m] + numbers[m + 1]
                                        ELSE g[k]]
  <2>3. h \in [0 .. m + 1 -> Int]
    <3>1. m \in 0 .. m /\ m + 1 \in 1 .. Len(numbers)
      BY <1>0, <2>1
    <3>2. g[m] \in Int /\ numbers[m + 1] \in Int
      BY <1>0, <2>2, <3>1
    <3>3. \A k \in 0 .. m + 1 : k = m + 1 \/ k \in 0 .. m
      OBVIOUS
    <3> QED BY <2>2, <3>2, <3>3
  <2>4. ASSUME NEW k \in 0 .. m + 1
        PROVE  h[k] = IF k = 0 THEN base ELSE h[k - 1] + numbers[k]
    <3>1. CASE k = m + 1
      <4>1. h[k] = g[m] + numbers[m + 1]
        BY <3>1
      <4>2. m \in 0 .. m + 1 /\ m # m + 1 /\ k - 1 = m /\ k # 0
        BY <3>1
      <4> QED BY <3>1, <4>1, <4>2
    <3>2. CASE k \in 1 .. m
      <4>1. k \in 0 .. m /\ k - 1 \in 0 .. m /\ k # 0 /\ k # m + 1 /\ k - 1 # m + 1
        BY <3>2
      <4>2. g[k] = g[k - 1] + numbers[k]
        BY <2>2, <4>1
      <4> QED BY <4>1, <4>2
    <3>3. CASE k = 0
      <4>1. 0 \in 0 .. m /\ 0 # m + 1
        OBVIOUS
      <4> QED BY <2>2, <3>3, <4>1
    <3> QED BY <3>1, <3>2, <3>3
  <2>5. IsSums(h, m + 1)
    BY <2>4
  <2> QED BY <2>3, <2>5
<1>3. Has(Len(numbers))
  <2> HIDE DEF Has
  <2>1. 0 \in T
    BY <1>1
  <2>2. \A k \in Nat : k \in T => k + 1 \in T
    BY <1>0, <1>2
  <2>3. Nat \subseteq T
    BY <2>1, <2>2, NaturalsBySteps
  <2> QED BY <1>0, <2>3
<1> DEFINE s == Sums(base, numbers)
<1>4. IsSums(s, Len(numbers))
  BY <1>3 DEF Sums
<1>5. \A k \in 0 .. Len(numbers) : s[k] \in Int
  <2> DEFINE U == {k \in Nat : k <= Len(numbers) => s[k] \in Int}
  <2>0. 0 \in 0 .. Len(numbers)
    BY <1>0
  <2> HIDE DEF s
  <2>1. 0 \in U
    BY <1>4, <2>0
  <2>2. ASSUME NEW k \in Nat, k \in U PROVE k + 1 \in U
    <3>1. SUFFICES ASSUME k + 1 <= Len(numbers) PROVE s[k + 1] \in Int
      OBVIOUS
    <3>2. k + 1 \in 1 .. Len(numbers) /\ k + 1 # 0 /\ (k + 1) - 1 = k /\ s[k] \in Int
      BY <1>0, <2>2, <3>1
    <3>3. s[k + 1] = s[k] + numbers[k + 1]
      BY <1>4, <3>2
    <3> QED BY <1>0, <3>2, <3>3
  <2>3. Nat \subseteq U
    BY <2>1, <2>2, NaturalsBySteps
  <2> QED BY <1>0, <2>3
<1> HIDE DEF s
<1>6. ASSUME NEW k \in 1 .. Len(numbers) PROVE s[k] = s[k - 1] + numbers[k]
  <2>1. k \in 0 .. Len(numbers) /\ k # 0
    BY <1>0
  <2> QED BY <1>4, <2>1
<1>7. s[0] = base /\ s \in [0 .. Len(numbers) -> Int]
  BY <1>0, <1>4, <1>5
<1> QED BY <1>6, <1>7 DEF s

-----------------------------------------------------------------------------
(* Division by a number that is not zero.                                  *)
LEMMA Division ==
  ASSUME NEW x \in Nat, NEW d \in Nat \ {0}
  PROVE  /\ x \div d \in Nat /\ x % d \in 0 .. d - 1
         /\ x = d * (x \div d) + (x % d)
OBVIOUS

(* A product of naturals is one.                                           *)
LEMMA NatProduct == ASSUME NEW x \in Nat, NEW y \in Nat
                    PROVE  x * y \in Nat /\ (x # 0 /\ y # 0 => x * y # 0)
OBVIOUS

(* Carry keeps the amount to the last fraction of a nano.                  *)
LEMMA CarryExact ==
  ASSUME NEW units \in Nat, NEW nanos \in Nat, NEW den \in Nat \ {0}
  PROVE  LET sum == Carry(units, nanos, den)
         IN  /\ sum.units \in Nat /\ sum.nanos \in 0 .. den * NanosMod - 1
             /\ den * (sum.units * NanosMod) + sum.nanos = units * NanosMod + nanos
<1> DEFINE rest == units % den
           all == nanos + rest * NanosMod
           d == den * NanosMod
           sum == Carry(units, nanos, den)
<1>1. NanosMod \in Nat /\ NanosMod # 0 /\ den \in Nat /\ den # 0
  BY MoneyAssumption
<1>2. units \div den \in Nat /\ rest \in Nat /\ units = den * (units \div den) + rest
  BY Division
<1>3. all \in Nat /\ d \in Nat \ {0}
  BY <1>1, <1>2, NatProduct
<1>4. all \div d \in Nat /\ all % d \in 0 .. d - 1 /\ all = d * (all \div d) + (all % d)
  BY <1>3, Division
<1>5. sum.units = units \div den + all \div d /\ sum.nanos = all % d
  BY DEF Carry
<1>6. den * (sum.units * NanosMod) + sum.nanos = units * NanosMod + nanos
  <2> DEFINE a == units \div den
             b == all \div d
             c == all % d
  <2>1. a \in Nat /\ b \in Nat /\ c \in Nat /\ rest \in Nat
    BY <1>2, <1>4, <1>3
  <2>2. units = den * a + rest /\ nanos + rest * NanosMod = (den * NanosMod) * b + c
    BY <1>2, <1>4
  <2>3. sum.units = a + b /\ sum.nanos = c
    BY <1>5
  <2> HIDE DEF a, b, c, rest, sum, all, d
  <2>4. units * NanosMod = den * (a * NanosMod) + rest * NanosMod
    BY <1>1, <2>1, <2>2
  <2>5. den * ((a + b) * NanosMod) = den * (a * NanosMod) + (den * NanosMod) * b
    BY <1>1, <2>1
  <2>6. /\ den * (a * NanosMod) \in Nat /\ (den * NanosMod) * b \in Nat
        /\ rest * NanosMod \in Nat
    BY <1>1, <2>1, NatProduct
  <2> QED BY <2>1, <2>2, <2>3, <2>4, <2>5, <2>6
<1> QED BY <1>4, <1>5, <1>6, <1>2

(* Round is off by half at most.                                           *)
LEMMA RoundHalf ==
  ASSUME NEW a \in Nat, NEW b \in Nat \ {0}
  PROVE  /\ Round(a, b) \in Nat
         /\ 2 * (b * Round(a, b)) - 2 * a \in -b .. b
<1> DEFINE x == 2 * a + b
           q == x \div (2 * b)
           r == x % (2 * b)
<1>1. x \in Nat /\ 2 * b \in Nat \ {0}
  OBVIOUS
<1>2. q \in Nat /\ r \in 0 .. 2 * b - 1 /\ x = (2 * b) * q + r
  BY <1>1, Division
<1>3. Round(a, b) = q
  BY DEF Round
<1> HIDE DEF q, r
<1>4. (2 * b) * q = 2 * (b * q) /\ b * q \in Int
  BY <1>2
<1> QED BY <1>1, <1>2, <1>3, <1>4

(* What a conversion is off by, in fractions of a nano: half a euro nano at *)
(* the rate, and a nano.                                                   *)
Off(from, to) == Data[from].num * (2 * Data[to].den + Data[to].num)

(* Convert makes a price of a price, at the exact rate but for rounding.   *)
ConvertedFrom(c, m, code) ==
  LET from == Data[m.currency]
      rate == Data[code]
  IN  /\ Price(c) /\ c.currency = code
      /\ 2 * (Value(c) * (rate.den * from.num) - Value(m) * (rate.num * from.den))
           \in -Off(m.currency, code) .. Off(m.currency, code)

(* The euros E are the value V over p/q but for half a nano, and C is      *)
(* what they come to at a/b less what rounding down cuts off.              *)
LEMMA TwoRoundings ==
  ASSUME NEW p \in Nat, NEW q \in Nat, NEW a \in Nat, NEW b \in Nat,
         NEW C \in Nat, NEW V \in Nat, NEW E \in Nat,
         NEW half \in -p .. p, NEW down \in 0 .. b,
         b * C + down = E * a,
         2 * (p * E) = 2 * (q * V) + half
  PROVE  2 * (C * (b * p) - V * (a * q))
           \in -(p * (2 * b + a)) .. p * (2 * b + a)
<1>1. half \in Int /\ down \in Int /\ b * C \in Int /\ p * E \in Int /\ q * V \in Int
  OBVIOUS
<1>2. C * (b * p) = (p * E) * a - p * down
  <2>1. b * C = E * a - down
    BY <1>1
  <2>2. C * (b * p) = p * (b * C)
    OBVIOUS
  <2>3. p * (E * a - down) = (p * E) * a - p * down
    BY <1>1
  <2> QED BY <2>1, <2>2, <2>3
<1>3. 2 * ((p * E) * a) = 2 * (V * (a * q)) + half * a
  <2>1. (2 * (p * E)) * a = (2 * (q * V) + half) * a
    OBVIOUS
  <2>2. (2 * (q * V) + half) * a = 2 * (V * (a * q)) + half * a
    BY <1>1
  <2>3. (2 * (p * E)) * a = 2 * ((p * E) * a)
    OBVIOUS
  <2> QED BY <2>1, <2>2, <2>3
<1>4. half * a \in -(p * a) .. p * a /\ p * down \in 0 .. p * b
  <2>1. p - half \in Nat /\ p + half \in Nat /\ b - down \in Nat /\ down \in Nat
    OBVIOUS
  <2>2. (p - half) * a \in Nat /\ (p + half) * a \in Nat /\ p * (b - down) \in Nat
        /\ p * down \in Nat
    BY <2>1, NatProduct
  <2>3. /\ (p - half) * a = p * a - half * a /\ (p + half) * a = p * a + half * a
        /\ p * (b - down) = p * b - p * down
    BY <1>1
  <2>4. p * a \in Int /\ half * a \in Int /\ p * b \in Int /\ p * down \in Int
    BY <1>1
  <2> QED BY <2>2, <2>3, <2>4
<1>5. p * (2 * b + a) = 2 * (p * b) + p * a /\ p * b \in Nat /\ p * a \in Nat
  BY NatProduct
<1> DEFINE pEa == (p * E) * a
           cbp == C * (b * p)
           vaq == V * (a * q)
           ha == half * a
           pd == p * down
<1>6. pEa \in Int /\ cbp \in Int /\ vaq \in Int /\ ha \in Int /\ pd \in Int
  BY <1>1
<1>7. cbp = pEa - pd /\ 2 * pEa = 2 * vaq + ha
  BY <1>2, <1>3
<1> HIDE DEF pEa, cbp, vaq, ha, pd
<1>8. 2 * (cbp - vaq) = ha - 2 * pd
  BY <1>6, <1>7
<1>9. ha \in -(p * a) .. p * a /\ pd \in 0 .. p * b
  BY <1>4 DEF ha, pd
<1>10. 2 * (cbp - vaq) \in -(2 * (p * b) + p * a) .. 2 * (p * b) + p * a
  BY <1>5, <1>6, <1>8, <1>9
<1> QED BY <1>5, <1>10 DEF cbp, vaq

(* A conversion is off by at most half a nano of euros at the rate, and a  *)
(* nano.                                                                   *)
LEMMA ConvertAtRate ==
  ASSUME NEW m, Price(m), NEW code \in STRING, {m.currency, code} \subseteq DOMAIN Data
  PROVE  ConvertedFrom(Convert(m, code), m, code)
<1> DEFINE p == Data[m.currency].num
           q == Data[m.currency].den
           a == Data[code].num
           b == Data[code].den
           M == NanosMod
           first == Carry(m.units * q, m.nanos * q, p)
           rounded == Round(first.nanos, p)
           second == Carry(first.units * a, rounded * a, b)
           c == Convert(m, code)
<1>1. /\ p \in Nat \ {0} /\ q \in Nat \ {0} /\ a \in Nat \ {0} /\ b \in Nat \ {0}
      /\ M \in Nat /\ M > 1 /\ m.units \in Nat /\ m.nanos \in Nat
  BY DataAssumption, MoneyAssumption DEF Price, Amounts
<1>2. c = Amount(code, second.units, second.nanos \div b)
  BY DEF Convert, Euros, Amount
<1>3. /\ first.units \in Nat /\ first.nanos \in 0 .. p * M - 1
      /\ p * (first.units * M) + first.nanos = (m.units * q) * M + m.nanos * q
  <2>1. m.units * q \in Nat /\ m.nanos * q \in Nat
    BY <1>1, NatProduct
  <2> QED BY <1>1, <2>1, CarryExact
<1>4. /\ rounded \in Nat
      /\ 2 * (p * rounded) - 2 * first.nanos \in -p .. p
  <2>1. first.nanos \in Nat
    BY <1>3, <1>1, NatProduct
  <2> QED BY <1>1, <2>1, RoundHalf
<1>5. /\ second.units \in Nat /\ second.nanos \in 0 .. b * M - 1
      /\ b * (second.units * M) + second.nanos = (first.units * a) * M + rounded * a
  <2>1. first.units * a \in Nat /\ rounded * a \in Nat
    BY <1>1, <1>3, <1>4, NatProduct
  <2> QED BY <1>1, <2>1, CarryExact
<1> HIDE DEF first, rounded, second
<1>6. /\ second.nanos \div b \in 0 .. M - 1 /\ second.nanos % b \in 0 .. b - 1
      /\ second.nanos = b * (second.nanos \div b) + (second.nanos % b)
  <2>1. second.nanos \in Nat /\ b * M \in Nat
    BY <1>1, <1>5, NatProduct
  <2>2. /\ second.nanos \div b \in Nat /\ second.nanos % b \in 0 .. b - 1
        /\ second.nanos = b * (second.nanos \div b) + (second.nanos % b)
    BY <1>1, <2>1, Division
  <2>3. second.nanos \div b <= M - 1
    <3> DEFINE k == second.nanos \div b
    <3>1. b * k < b * M /\ k \in Nat
      <4>1. b * k \in Nat
        BY <1>1, <2>2, NatProduct
      <4> QED BY <1>1, <1>5, <2>1, <2>2, <4>1
    <3> HIDE DEF k
    <3>2. ASSUME k >= M PROVE FALSE
      <4>1. b * k = b * M + b * (k - M) /\ b * (k - M) \in Nat
        BY <1>1, <3>1, <3>2, NatProduct
      <4> QED BY <1>1, <2>1, <3>1, <4>1
    <3> QED BY <1>1, <3>1, <3>2 DEF k
  <2> QED BY <1>1, <2>2, <2>3
<1>7. Price(c) /\ c.currency = code
  BY <1>1, <1>2, <1>5, <1>6 DEF Amount, Amounts, Price
<1> DEFINE C == Value(c)
           V == Value(m)
           E == first.units * M + rounded
           down == second.nanos % b
           half == 2 * (p * rounded) - 2 * first.nanos
<1>8. C \in Nat /\ V \in Nat /\ E \in Nat
  BY <1>1, <1>3, <1>4, <1>7, NatProduct DEF Price, Amounts, Value
<1>9. C = second.units * M + second.nanos \div b /\ V = m.units * M + m.nanos
  BY <1>2 DEF Value, Amount
<1>10. b * C + down = E * a
  <2>1. b * C = b * (second.units * M) + b * (second.nanos \div b)
    <3>1. second.units * M \in Nat
      BY <1>1, <1>5, NatProduct
    <3>2. \A x, y \in Nat : b * (x + y) = b * x + b * y
      BY <1>1
    <3>3. second.nanos \div b \in Nat
      BY <1>1, <1>6
    <3> QED BY <1>9, <3>1, <3>2, <3>3
  <2>2. E * a = (first.units * a) * M + rounded * a
    BY <1>1, <1>3, <1>4
  <2>3. b * (second.units * M) \in Nat /\ b * (second.nanos \div b) \in Nat
    BY <1>1, <1>5, <1>6, NatProduct
  <2> QED BY <1>5, <1>6, <2>1, <2>2, <2>3
<1>11. 2 * (p * E) = 2 * (q * V) + half
  <2>1. p * E = p * (first.units * M) + p * rounded
    BY <1>1, <1>3, <1>4
  <2>2. q * V = (m.units * q) * M + m.nanos * q
    BY <1>1, <1>9
  <2>3. p * (first.units * M) \in Nat /\ p * rounded \in Nat /\ first.nanos \in Nat
    BY <1>1, <1>3, <1>4, NatProduct
  <2> QED BY <1>3, <1>4, <2>1, <2>2, <2>3
<1>12. half \in -p .. p /\ down \in 0 .. b - 1
  BY <1>4, <1>6
<1> HIDE DEF C, V, E, down, half
<1>13. 2 * (C * (b * p) - V * (a * q)) \in -Off(m.currency, code) .. Off(m.currency, code)
  <2>1. down \in 0 .. b
    BY <1>1, <1>12
  <2> HIDE DEF p, q, a, b
  <2> QED BY <1>1, <1>8, <1>10, <1>11, <1>12, <2>1, TwoRoundings DEF Off, p, q, a, b
<1> QED BY <1>7, <1>13 DEF ConvertedFrom, C, V

(* The bill of an order is one that BillsAssumption speaks of.             *)
LEMMA BillOfPrices ==
  ASSUME NEW o \in Orders, o.currency \in DOMAIN Data
  PROVE  LET b == BillOf(o)
         IN  /\ ConvertedFrom(b.shipping, o.shipping, o.currency)
             /\ b.lines \in Seq(Line) /\ Len(b.lines) = Len(o.lines)
             /\ \A i \in 1 .. Len(o.lines) :
                  /\ ConvertedFrom(b.lines[i].cost, o.lines[i].cost, o.currency)
                  /\ b.lines[i].qty = o.lines[i].qty
                  /\ o.lines[i].qty \in Nat \ {0}
<1> DEFINE lines == [i \in DOMAIN o.lines |->
                       [o.lines[i] EXCEPT !.cost = Convert(@, o.currency)]]
<1>1. /\ Price(o.shipping) /\ o.shipping.currency = "USD" /\ o.currency \in STRING
      /\ o.lines \in Seq(Line) /\ "USD" \in DOMAIN Data
      /\ \A i \in 1 .. Len(o.lines) :
           Price(o.lines[i].cost) /\ o.lines[i].cost.currency = "USD"
  BY OrdersAssumption
<1>2. ConvertedFrom(Convert(o.shipping, o.currency), o.shipping, o.currency)
  <2>1. {o.shipping.currency, o.currency} \subseteq DOMAIN Data
    BY <1>1
  <2> QED BY <1>1, <2>1, ConvertAtRate
<1>3. DOMAIN o.lines = 1 .. Len(o.lines) /\ Len(o.lines) \in Nat
  BY <1>1
<1>4. ASSUME NEW i \in 1 .. Len(o.lines)
      PROVE  /\ ConvertedFrom(lines[i].cost, o.lines[i].cost, o.currency)
             /\ lines[i].qty = o.lines[i].qty /\ lines[i].qty \in Nat \ {0}
             /\ lines[i] \in Line
  <2>1. o.lines[i] \in Line
    BY <1>1, <1>3
  <2>2. lines[i] = [cost |-> Convert(o.lines[i].cost, o.currency),
                    qty |-> o.lines[i].qty]
    BY <1>3, <2>1 DEF Line
  <2>3. ConvertedFrom(Convert(o.lines[i].cost, o.currency), o.lines[i].cost, o.currency)
    <3>1. {o.lines[i].cost.currency, o.currency} \subseteq DOMAIN Data
      BY <1>1
    <3> QED BY <1>1, <3>1, ConvertAtRate
  <2>4. lines[i].cost = Convert(o.lines[i].cost, o.currency)
        /\ lines[i].qty = o.lines[i].qty
    BY <2>2
  <2>5. Convert(o.lines[i].cost, o.currency) \in Amounts
    BY <2>3 DEF ConvertedFrom, Price
  <2>6. o.lines[i].qty \in Nat \ {0}
    BY <2>1 DEF Line
  <2>7. lines[i] \in Line
    BY <2>2, <2>5, <2>6 DEF Line
  <2> HIDE DEF lines
  <2> QED BY <2>3, <2>4, <2>6, <2>7
<1>5. lines \in Seq(Line) /\ Len(lines) = Len(o.lines)
  <2>1. lines = [i \in 1 .. Len(o.lines) |-> lines[i]]
    BY <1>3
  <2> HIDE DEF lines
  <2>2. lines \in [1 .. Len(o.lines) -> Line]
    BY <1>4, <2>1
  <2> QED BY <1>3, <2>2
<1>6. BillOf(o) = [shipping |-> Convert(o.shipping, o.currency), lines |-> lines]
  BY DEF BillOf
<1> HIDE DEF lines
<1> QED BY <1>2, <1>4, <1>5, <1>6

(* Adding k amounts that are each off by y at most to a sum that is off by *)
(* x at most, in a currency where r is worth s of another.                 *)
LEMMA ErrorsAdd ==
  ASSUME NEW x \in Nat, NEW y \in Nat, NEW k \in Nat, NEW r \in Int, NEW s \in Int,
         NEW v \in Int, NEW w \in Int, NEW c \in Int, NEW d \in Int,
         2 * (v * r - w * s) \in -x .. x,
         2 * (c * r - d * s) \in -y .. y
  PROVE  2 * ((v + c * k) * r - (w + k * d) * s) \in -(x + k * y) .. x + k * y
<1> DEFINE f == 2 * (v * r - w * s)
           g == 2 * (c * r - d * s)
<1>1. 2 * ((v + c * k) * r - (w + k * d) * s) = f + k * g
  OBVIOUS
<1>2. f \in Int /\ g \in Int /\ f \in -x .. x /\ g \in -y .. y
  OBVIOUS
<1> HIDE DEF f, g
<1>3. k * g \in -(k * y) .. k * y
  <2>1. k * (y - g) \in Nat /\ k * (y + g) \in Nat
    BY <1>2, NatProduct
  <2>2. k * (y - g) = k * y - k * g /\ k * (y + g) = k * y + k * g
    BY <1>2
  <2>3. k * y \in Int /\ k * g \in Int
    BY <1>2
  <2> QED BY <2>1, <2>2, <2>3
<1>4. k * y \in Int /\ k * g \in Int
  BY <1>2
<1> QED BY <1>1, <1>2, <1>3, <1>4

-----------------------------------------------------------------------------
(* An amount is the dollars of the first k lines and of the shipping, but  *)
(* for what so many conversions may be off by.                             *)
AtRate(amount, k) ==
  LET usd == Data["USD"]
      rate == Data[order.currency]
      all == Units(k) * Off("USD", order.currency)
  IN  2 * (amount * (rate.den * usd.num) - Dollars(k) * (rate.num * usd.den))
        \in -all .. all

(* What was added so far comes from the lines before the next one.         *)
DueAtRate == order.currency \in DOMAIN Data =>
               /\ pc = "start" => next = 1
               /\ pc \in {"lines", "multiply", "charge"} => AtRate(due, next - 1)

ChargedAll == pc = "charge" => next = Len(bill.lines) + 1

RateInv == /\ IInv
           /\ order \in Orders /\ bill = BillOf(order)
           /\ DueAtRate /\ ChargedAll

(* Units and Dollars from line to line.                                    *)
LEMMA LineByLine ==
  ASSUME order \in Orders
  PROVE  /\ Len(order.lines) \in Nat
         /\ \A k \in 0 .. Len(order.lines) : Units(k) \in Nat /\ Dollars(k) \in Int
         /\ Units(0) = 1 /\ Dollars(0) = Value(order.shipping)
         /\ \A k \in 1 .. Len(order.lines) :
              LET l == order.lines[k]
              IN  /\ l.qty \in Nat /\ Value(l.cost) \in Int
                  /\ Units(k) = Units(k - 1) + l.qty
                  /\ Dollars(k) = Dollars(k - 1) + l.qty * Value(l.cost)
<1> DEFINE count == Len(order.lines)
           qtys == [i \in 1 .. Len(order.lines) |-> order.lines[i].qty]
           costs == [i \in 1 .. Len(order.lines) |->
                       order.lines[i].qty * Value(order.lines[i].cost)]
<1>1. /\ count \in Nat /\ Value(order.shipping) \in Int
      /\ \A i \in 1 .. count :
           order.lines[i].qty \in Nat /\ Value(order.lines[i].cost) \in Int
  <2>1. /\ order.shipping \in Amounts /\ order.lines \in Seq(Line)
        /\ \A i \in 1 .. count : order.lines[i] \in Line
    BY OrdersAssumption DEF Price
  <2>2. \A i \in 1 .. count : order.lines[i].qty \in Nat /\ order.lines[i].cost \in Amounts
    BY <2>1 DEF Line
  <2> QED BY <2>1, <2>2, ValueTyped
<1>2. /\ qtys \in Seq(Int) /\ Len(qtys) = count
      /\ \A k \in 1 .. count : qtys[k] = order.lines[k].qty
  BY <1>1
<1>3. /\ costs \in Seq(Int) /\ Len(costs) = count
      /\ \A k \in 1 .. count : costs[k] = order.lines[k].qty * Value(order.lines[k].cost)
  <2>1. \A i \in 1 .. count : order.lines[i].qty * Value(order.lines[i].cost) \in Int
    BY <1>1
  <2> QED BY <1>1, <2>1
<1> DEFINE u == Sums(1, qtys)
           d == Sums(Value(order.shipping), costs)
<1>4. \A k \in 0 .. count : Units(k) = u[k] /\ Dollars(k) = d[k]
  BY DEF Units, Dollars
<1> HIDE DEF qtys, costs
<1>5. /\ u \in [0 .. count -> Int] /\ u[0] = 1
      /\ \A k \in 1 .. count : u[k] = u[k - 1] + qtys[k]
  BY <1>2, SumsAdd
<1>6. /\ d \in [0 .. count -> Int] /\ d[0] = Value(order.shipping)
      /\ \A k \in 1 .. count : d[k] = d[k - 1] + costs[k]
  BY <1>1, <1>3, SumsAdd
<1> HIDE DEF u, d
<1>7. \A k \in 0 .. count : u[k] \in Nat
  <2> DEFINE T == {k \in Nat : k <= count => u[k] \in Nat}
  <2>1. 0 \in T
    BY <1>1, <1>5
  <2>2. ASSUME NEW k \in Nat, k \in T PROVE k + 1 \in T
    <3>1. SUFFICES ASSUME k + 1 <= count PROVE u[k + 1] \in Nat
      OBVIOUS
    <3>2. k + 1 \in 1 .. count /\ (k + 1) - 1 = k /\ u[k] \in Nat
      BY <1>1, <2>2, <3>1
    <3>3. u[k + 1] = u[k] + order.lines[k + 1].qty
      BY <1>2, <1>5, <3>2
    <3> QED BY <1>1, <3>2, <3>3
  <2>3. Nat \subseteq T
    BY <2>1, <2>2, NaturalsBySteps
  <2> QED BY <1>1, <2>3
<1>8. \A k \in 1 .. count : k \in 0 .. count /\ k - 1 \in 0 .. count
  BY <1>1
<1>9. 0 \in 0 .. count
  BY <1>1
<1> QED BY <1>1, <1>2, <1>3, <1>4, <1>5, <1>6, <1>7, <1>8, <1>9

(* The bound on what a conversion is off by is a natural.                  *)
LEMMA OffTyped ==
  ASSUME NEW code \in DOMAIN Data
  PROVE  Off("USD", code) \in Nat /\ "USD" \in DOMAIN Data
<1>1. "USD" \in DOMAIN Data
  BY OrdersAssumption
<1>2. Data["USD"].num \in Nat /\ 2 * Data[code].den + Data[code].num \in Nat
  BY <1>1, DataAssumption
<1> QED BY <1>1, <1>2, NatProduct DEF Off

(* Nothing added is nothing due.                                           *)
LEMMA InitRateInv == BillingInit => RateInv
<1> SUFFICES ASSUME BillingInit PROVE RateInv
  OBVIOUS
<1>1. IInv
  BY InitIInv DEF BillingInit
<1>2. order \in Orders /\ bill = BillOf(order) /\ pc = "start" /\ next = 1
  BY DEF BillingInit, Init
<1> QED BY <1>1, <1>2 DEF RateInv, DueAtRate, ChargedAll

(* The shipping, the only amount so far, is at the rate.                   *)
LEMMA ShippingAtRate ==
  ASSUME order \in Orders, order.currency \in DOMAIN Data, bill = BillOf(order)
  PROVE  AtRate(Value(bill.shipping), 0)
<1> DEFINE o == Off("USD", order.currency)
<1>1. ConvertedFrom(bill.shipping, order.shipping, order.currency)
      /\ order.shipping.currency = "USD"
  BY BillOfPrices, OrdersAssumption
<1>2. Units(0) * o = o /\ Dollars(0) = Value(order.shipping)
  BY LineByLine, OffTyped
<1> HIDE DEF o
<1> QED BY <1>1, <1>2 DEF ConvertedFrom, AtRate, o

(* With a line's amounts, the due is still at the rate.                    *)
LEMMA LineAtRate ==
  ASSUME order \in Orders, order.currency \in DOMAIN Data, bill = BillOf(order),
         NEW k \in 1 .. Len(order.lines), NEW v \in Int, AtRate(v, k - 1)
  PROVE  AtRate(v + Value(bill.lines[k].cost) * bill.lines[k].qty, k)
<1> DEFINE code == order.currency
           l == order.lines[k]
           c == bill.lines[k].cost
           r == Data[code].den * Data["USD"].num
           s == Data[code].num * Data["USD"].den
           o == Off("USD", code)
           all == Units(k - 1)
           w == Dollars(k - 1)
<1>1. /\ ConvertedFrom(c, l.cost, code) /\ l.cost.currency = "USD"
      /\ bill.lines[k].qty = l.qty
  BY BillOfPrices, OrdersAssumption
<1>2. /\ l.qty \in Nat /\ Value(l.cost) \in Int /\ Value(c) \in Int
      /\ all \in Nat /\ w \in Int /\ o \in Nat
      /\ Units(k) = all + l.qty /\ Dollars(k) = w + l.qty * Value(l.cost)
  <2>1. k - 1 \in 0 .. Len(order.lines)
    BY LineByLine
  <2>2. c \in Amounts
    BY <1>1 DEF ConvertedFrom, Price
  <2> QED BY <2>1, <2>2, LineByLine, OffTyped, ValueTyped
<1>3. r \in Int /\ s \in Int
  <2>1. /\ Data["USD"].num \in Nat /\ Data["USD"].den \in Nat
        /\ Data[code].num \in Nat /\ Data[code].den \in Nat
    BY DataAssumption, OffTyped
  <2> QED BY <2>1, NatProduct
<1>4. 2 * (v * r - w * s) \in -(all * o) .. all * o
  BY DEF AtRate
<1>5. 2 * (Value(c) * r - Value(l.cost) * s) \in -o .. o
  BY <1>1 DEF ConvertedFrom
<1>6. all * o \in Nat
  BY <1>2, NatProduct
<1> DEFINE C == Value(c)
           D == Value(l.cost)
           q == l.qty
           x == all * o
<1> HIDE DEF r, s, o, all, w, c, l, C, D, q, x
<1>7. 2 * ((v + C * q) * r - (w + q * D) * s) \in -(x + q * o) .. x + q * o
  <2>1. /\ x \in Nat /\ o \in Nat /\ q \in Nat /\ r \in Int /\ s \in Int
        /\ v \in Int /\ w \in Int /\ C \in Int /\ D \in Int
    BY <1>2, <1>3, <1>6 DEF C, D, q, x
  <2>2. 2 * (v * r - w * s) \in -x .. x
    BY <1>4 DEF x
  <2>3. 2 * (C * r - D * s) \in -o .. o
    BY <1>5 DEF C, D
  <2> QED BY <2>1, <2>2, <2>3, ErrorsAdd
<1>8. Units(k) * o = x + q * o /\ Dollars(k) = w + q * D
  <2>1. all \in Nat /\ q \in Nat /\ o \in Nat
    BY <1>2 DEF q
  <2>2. (all + q) * o = all * o + q * o
    BY <2>1
  <2> QED BY <1>2, <2>2 DEF x, q, D
<1>9. v + Value(bill.lines[k].cost) * bill.lines[k].qty = v + C * q
  BY <1>1 DEF C, q, c, l
<1> HIDE DEF AtRate
<1>10. 2 * ((v + C * q) * r - Dollars(k) * s) \in -(Units(k) * o) .. Units(k) * o
  BY <1>7, <1>8
<1> QED BY <1>9, <1>10 DEF AtRate, r, s, o

(* Each line adds what it is off by, as often as it is bought.             *)
LEMMA StepRateInv == RateInv /\ [BillingNext]_billingVars => RateInv'
<1> SUFFICES ASSUME RateInv, [BillingNext]_billingVars PROVE RateInv'
  OBVIOUS
<1>1. [Next]_vars /\ order' = order
  BY DEF BillingNext, billingVars, AddUp, ChargeCard, TimePasses
<1>2. IInv' /\ IInv
  BY <1>1, StepIInv DEF RateInv
<1>3. bill' = bill
  BY <1>1 DEF vars, Next, AddShipping, StartLine, AddOnce, AddLine, Charge, Panic
<1>4. order' \in Orders /\ bill' = BillOf(order)' /\ order \in Orders
  BY <1>1, <1>3 DEF RateInv, BillOf
<1>5. ASSUME order.currency \in DOMAIN Data
      PROVE  /\ pc' = "start" => next' = 1
             /\ pc' \in {"lines", "multiply", "charge"} => AtRate(due', next' - 1)
  <2>1. CASE UNCHANGED <<pc, next, due>>
    BY <1>5, <2>1 DEF RateInv, DueAtRate
  <2>2. CASE AddShipping
    <3>1. next' = 1 /\ due' = 0 + Value(bill.shipping) /\ pc' = "lines"
      BY <1>2, <1>5, <2>2 DEF AddShipping, RateInv, DueAtRate, IInv, AtStart
    <3>2. bill.shipping \in Amounts
      BY <1>2, BillTyped DEF IInv, TypeOK
    <3>3. due' = Value(bill.shipping) /\ next' - 1 = 0
      BY <3>1, <3>2, ValueTyped
    <3> QED BY <1>4, <1>5, <3>1, <3>3, ShippingAtRate DEF RateInv
  <2>3. CASE AddLine
    <3>1. /\ pc = "multiply" /\ pc' = "lines" /\ next' = next + 1
          /\ due' = due + Value(bill.lines[next].cost) * bill.lines[next].qty
      BY <2>3 DEF AddLine, Cost
    <3>2. next \in 1 .. Len(bill.lines) /\ due \in Int
      BY <1>2, <3>1 DEF IInv, OutRuns, TypeOK
    <3>3. next \in 1 .. Len(order.lines) /\ next' - 1 = next
      <4>1. Len(bill.lines) = Len(order.lines)
        BY <1>4, <1>5, BillOfPrices DEF RateInv
      <4> QED BY <1>4, <3>1, <3>2, <4>1, LineByLine
    <3>4. AtRate(due, next - 1)
      BY <1>5, <3>1 DEF RateInv, DueAtRate
    <3>5. AtRate(due', next)
      BY <1>4, <1>5, <3>1, <3>2, <3>3, <3>4, LineAtRate DEF RateInv
    <3> QED BY <3>1, <3>3, <3>5
  <2>4. CASE StartLine \/ AddOnce \/ Charge
    <3>1. /\ next' = next /\ due' = due
          /\ pc \in {"lines", "multiply"} /\ pc' # "start"
      BY <2>4 DEF StartLine, AddOnce, Charge
    <3> QED BY <1>5, <3>1 DEF RateInv, DueAtRate
  <2>5. CASE Panic
    BY <2>5 DEF Panic
  <2> QED BY <1>1, <2>1, <2>2, <2>3, <2>4, <2>5 DEF Next, vars
<1>6. DueAtRate'
  BY <1>1, <1>5 DEF DueAtRate, AtRate, Units, Dollars
<1>7. ChargedAll'
  <2>1. CASE UNCHANGED vars
    BY <2>1 DEF vars, RateInv, ChargedAll
  <2>2. CASE Charge
    <3>1. Len(bill.lines) \in Nat /\ next \in 1 .. Len(bill.lines) + 1
      BY <1>2, BillTyped DEF IInv, TypeOK
    <3> QED BY <2>2, <3>1 DEF Charge, ChargedAll
  <2>3. CASE AddShipping \/ StartLine \/ AddOnce \/ AddLine \/ Panic
    BY <2>3 DEF AddShipping, StartLine, AddOnce, AddLine, Panic, ChargedAll
  <2> QED BY <1>1, <2>1, <2>2, <2>3 DEF Next
<1> QED BY <1>2, <1>4, <1>6, <1>7 DEF RateInv

(* What is charged is the dollar total of the order at the exact rate, but *)
(* for the rounding of each amount, for every table of rates and every     *)
(* order.                                                                  *)
THEOREM RateCorrect == BillingSpec => []ChargedAtRate
<1>1. BillingSpec => []RateInv
  BY InitRateInv, StepRateInv, PTL DEF BillingSpec
<1>2. RateInv => ChargedAtRate
  <2> SUFFICES ASSUME RateInv, pc = "charge", order.currency \in DOMAIN Data
               PROVE  ChargedAtRate
    BY DEF ChargedAtRate
  <2>1. Value(total) = due /\ next - 1 = Len(order.lines)
    <3>1. Len(bill.lines) = Len(order.lines) /\ Len(order.lines) \in Nat
      BY BillOfPrices, LineByLine DEF RateInv
    <3> QED BY <3>1 DEF RateInv, ChargedAll, IInv, TotalRuns
  <2>2. AtRate(Value(total), Len(order.lines))
    BY <2>1 DEF RateInv, DueAtRate
  <2>3. Units(Len(order.lines)) * Off("USD", order.currency) \in Nat
    <3>1. Units(Len(order.lines)) \in Nat
      BY LineByLine DEF RateInv
    <3>2. Off("USD", order.currency) \in Nat
      BY OffTyped
    <3> QED BY <3>1, <3>2, NatProduct
  <2> QED BY <2>2, <2>3 DEF ChargedAtRate, AtRate, Off
<1> QED BY <1>1, <1>2, PTL

-----------------------------------------------------------------------------
(* Months in calendar order.                                               *)
Month(t) == t.year * 12 + t.month

(* What charge has read of the clock is a month that was the current one   *)
(* in a year between the call and now, and once it has answered, the card  *)
(* is judged.                                                              *)
PaymentInv ==
  /\ clock \in [year : Int, month : 1 .. 12]
  /\ calledAt \in [year : Int, month : 1 .. 12]
  /\ card \in Cards
  /\ calledAt.year <= clock.year /\ Month(calledAt) <= Month(clock)
  /\ charging = "month_read" =>
       /\ currentMonth \in 1 .. 12
       /\ \E y \in calledAt.year .. clock.year :
            Month(calledAt) <= y * 12 + currentMonth /\ y * 12 + currentMonth <= Month(clock)
  /\ charging # "answered" => answer = "none"
  /\ ExpiryJudged

(* A card is over when its month is before the present one.                *)
LEMMA OverByMonth ==
  ASSUME card \in Cards, NEW t \in [year : Int, month : 1 .. 12]
  PROVE  /\ Over(t) <=> Month(card) < Month(t)
         /\ card.year \in Int /\ card.month \in 1 .. 12
<1>1. card.year \in Int /\ card.month \in 1 .. 12 /\ t.year \in Int /\ t.month \in 1 .. 12
  BY PaymentAssumption
<1> QED BY <1>1 DEF Over, Month

(* Months pass forward.                                                    *)
LEMMA TickForward ==
  ASSUME NEW t \in [year : Int, month : 1 .. 12]
  PROVE  /\ NextMonth(t) \in [year : Int, month : 1 .. 12]
         /\ Month(NextMonth(t)) = Month(t) + 1
         /\ NextMonth(t).year >= t.year
BY DEF NextMonth, Month

(* At first neither Date was read.                                         *)
LEMMA InitPaymentInv == PaymentInit => PaymentInv
BY PaymentAssumption DEF PaymentInit, PaymentInv, ExpiryJudged, Month

(* A Date is read at a moment not before those that were read.             *)
LEMMA StepPaymentInv ==
  PaymentInv /\ [ChargeNext \/ Tick]_paymentVars => PaymentInv'
<1> SUFFICES ASSUME PaymentInv, [ChargeNext \/ Tick]_paymentVars PROVE PaymentInv'
  OBVIOUS
<1> USE DEF PaymentInv
<1>0. /\ clock.year \in Int /\ clock.month \in 1 .. 12 /\ Month(clock) \in Int
      /\ calledAt.year \in Int /\ Month(calledAt) \in Int
      /\ Month(card) \in Int
  BY OverByMonth DEF Month
<1>1. CASE UNCHANGED paymentVars
  BY <1>1 DEF paymentVars, ExpiryJudged, Over, Month
<1>2. CASE Tick
  <2>1. /\ clock' = NextMonth(clock) /\ calledAt' = calledAt /\ card' = card
        /\ charging' = charging /\ answer' = answer /\ currentMonth' = currentMonth
    BY <1>2 DEF Tick
  <2>2. /\ clock' \in [year : Int, month : 1 .. 12]
        /\ Month(clock') = Month(clock) + 1 /\ clock'.year >= clock.year
    BY <2>1, TickForward
  <2>3. /\ clock'.year \in Int /\ Month(clock') \in Int
        /\ calledAt.year <= clock'.year /\ Month(calledAt) <= Month(clock')
    BY <1>0, <2>2
  <2>4. (charging = "month_read")' =>
          /\ currentMonth' \in 1 .. 12
          /\ \E y \in calledAt'.year .. clock'.year :
               /\ Month(calledAt') <= y * 12 + currentMonth'
               /\ y * 12 + currentMonth' <= Month(clock')
    <3>1. SUFFICES ASSUME charging = "month_read"
                   PROVE  /\ currentMonth \in 1 .. 12
                          /\ \E y \in calledAt.year .. clock'.year :
                               /\ Month(calledAt) <= y * 12 + currentMonth
                               /\ y * 12 + currentMonth <= Month(clock')
      BY <2>1
    <3>2. PICK y \in calledAt.year .. clock.year :
            Month(calledAt) <= y * 12 + currentMonth /\ y * 12 + currentMonth <= Month(clock)
      BY <3>1
    <3>3. currentMonth \in 1 .. 12
      BY <3>1
    <3>4. y \in calledAt.year .. clock'.year /\ y * 12 + currentMonth <= Month(clock')
      BY <1>0, <2>2, <2>3, <3>2, <3>3
    <3> QED BY <3>2, <3>3, <3>4
  <2>5. ExpiryJudged'
    <3>1. Over(clock) => Over(clock')
      BY <1>0, <2>2, <2>3, OverByMonth
    <3>2. calledAt.year < clock.year => calledAt.year < clock'.year
      BY <1>0, <2>2, <2>3
    <3>3. Over(calledAt)' <=> Over(calledAt)
      BY <2>1 DEF Over
    <3>4. Over(clock)' <=> Over(clock')
      BY <2>1 DEF Over
    <3> QED BY <2>1, <3>1, <3>2, <3>3, <3>4 DEF ExpiryJudged
  <2> QED BY <2>1, <2>2, <2>3, <2>4, <2>5 DEF Month
<1>3. CASE CheckCard
  <2>1. /\ calledAt' = clock /\ clock' = clock /\ card' = card
        /\ charging' \in {"checked", "answered"}
        /\ charging' # "answered" => answer' = "none"
        /\ answer' \notin {"transaction", "ExpiredCreditCard"}
    BY <1>3 DEF CheckCard, Answered
  <2> QED BY <1>0, <2>1 DEF ExpiryJudged, Month
<1>4. CASE ReadMonth
  <2>1. /\ calledAt' = calledAt /\ clock' = clock /\ card' = card
        /\ charging' = "month_read" /\ answer' = "none" /\ currentMonth' = clock.month
    BY <1>4 DEF ReadMonth
  <2>2. /\ clock.year \in calledAt.year .. clock.year
        /\ Month(calledAt) <= clock.year * 12 + clock.month
        /\ clock.year * 12 + clock.month <= Month(clock)
    BY <1>0 DEF Month
  <2> QED BY <1>0, <2>1, <2>2 DEF ExpiryJudged, Month
<1>5. CASE JudgeExpiry
  <2>1. /\ calledAt' = calledAt /\ clock' = clock /\ card' = card
        /\ charging = "month_read" /\ charging' = "answered"
        /\ answer' = IF Expired(clock.year) THEN "ExpiredCreditCard" ELSE "transaction"
    BY <1>5 DEF JudgeExpiry, Answered
  <2>2. PICK y \in calledAt.year .. clock.year :
          Month(calledAt) <= y * 12 + currentMonth /\ y * 12 + currentMonth <= Month(clock)
    BY <2>1
  <2>3. currentMonth \in 1 .. 12 /\ y \in Int /\ y <= clock.year /\ calledAt.year <= y
    BY <1>0, <2>1, <2>2
  <2>4. Expired(clock.year) <=> clock.year * 12 + currentMonth > Month(card)
    BY DEF Expired, Month
  <2>5. ~Expired(clock.year) => ~Over(calledAt)
    BY <1>0, <2>2, <2>3, <2>4, OverByMonth
  <2>6. Expired(clock.year) => Over(clock) \/ calledAt.year < clock.year
    BY <1>0, <2>2, <2>3, <2>4, OverByMonth
  <2>7. ExpiryJudged'
    BY <2>1, <2>5, <2>6 DEF ExpiryJudged, Over
  <2> QED BY <2>1, <2>7 DEF Month
<1> QED BY <1>1, <1>2, <1>3, <1>4, <1>5 DEF ChargeNext

(* However the months pass between the two readings of the clock, no       *)
(* expired card is charged, and one that has not is refused only if a new  *)
(* year began meanwhile.                                                   *)
THEOREM ExpiryCorrect == BillingSpec => []ExpiryJudged
<1>1. BillingInit => PaymentInv
  BY InitPaymentInv DEF BillingInit
<1>2. PaymentInv /\ [BillingNext]_billingVars => PaymentInv'
  <2>1. [BillingNext]_billingVars => [ChargeNext \/ Tick]_paymentVars
    BY DEF BillingNext, billingVars, AddUp, ChargeCard, TimePasses
  <2> QED BY <2>1, StepPaymentInv
<1>3. PaymentInv => ExpiryJudged
  BY DEF PaymentInv
<1> QED BY <1>1, <1>2, <1>3, PTL DEF BillingSpec
=============================================================================
