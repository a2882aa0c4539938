------------------------------ MODULE Billing -------------------------------
(***************************************************************************)
(* What an order costs and who pays: the dollar prices of the catalog and  *)
(* of the shipping quote go through the currency service one by one, the   *)
(* checkout service adds them up (OrderTotal), and the payment service     *)
(* charges the card (Payment).                                             *)
(***************************************************************************)
EXTENDS OrderTotal, Currency, Payment

CONSTANTS Orders    \* shipping and lines in US dollars, the user's currency

(* The catalog and the shipping service quote valid prices in US dollars,  *)
(* which the currency service knows.                                       *)
ASSUME OrdersAssumption ==
  /\ "USD" \in DOMAIN Data
  /\ \A o \in Orders :
       /\ Price(o.shipping) /\ o.shipping.currency = "USD"
       /\ o.currency \in STRING
       /\ o.lines \in Seq(Line)
       /\ \A i \in 1 .. Len(o.lines) :
            Price(o.lines[i].cost) /\ o.lines[i].cost.currency = "USD"

VARIABLES order

billingVars == <<vars, paymentVars, order>>

(* prepareOrderItemsAndShippingQuoteFromCart.                              *)
BillOf(o) ==
  [shipping |-> Convert(o.shipping, o.currency),
   lines |-> [i \in DOMAIN o.lines |->
                [o.lines[i] EXCEPT !.cost = Convert(@, o.currency)]]]

BillingInit == /\ order \in Orders
               /\ bill = BillOf(order) /\ Init
               /\ PaymentInit

AddUp == Next /\ UNCHANGED paymentVars
ChargeCard == pc = "charge" /\ ChargeNext /\ UNCHANGED vars
TimePasses == pc = "charge" /\ Tick /\ UNCHANGED vars

BillingNext == /\ AddUp \/ ChargeCard \/ TimePasses
               /\ order' = order

BillingSpec == BillingInit /\ [][BillingNext]_billingVars

-----------------------------------------------------------------------------
(* The sums of a sequence's first 0, 1, ... numbers, counted from base.    *)
Sums(base, numbers) ==
  LET s[k \in 0 .. Len(numbers)] == IF k = 0 THEN base ELSE s[k - 1] + numbers[k]
  IN  s

(* How many amounts were converted by the k-th line, counting each unit    *)
(* bought, and what they were in dollars.                                  *)
Units(k) == Sums(1, [i \in 1 .. Len(order.lines) |-> order.lines[i].qty])[k]

Dollars(k) ==
  Sums(Value(order.shipping),
       [i \in 1 .. Len(order.lines) |->
          order.lines[i].qty * Value(order.lines[i].cost)])[k]

(* What is charged in a currency on offer is the order's dollar total at   *)
(* the exact rate, but for the rounding of each unit: half a euro nano at  *)
(* the rate, and a nano.  No carry between units and nanos is lost in the  *)
(* two conversions of a price, nor in adding the prices up.                *)
ChargedAtRate ==
  (pc = "charge" /\ order.currency \in DOMAIN Data) =>
    LET usd == Data["USD"]
        rate == Data[order.currency]
        all == Len(order.lines)
        error == Value(total) * (rate.den * usd.num)
                   - Dollars(all) * (rate.num * usd.den)
        bound == Units(all) * (usd.num * (2 * rate.den + rate.num))
    IN  2 * error <= bound /\ -bound <= 2 * error
=============================================================================
