--------------------------- MODULE Checkout_proofs ---------------------------
(* What PlaceOrder's replies, charges and shipments say of each other, and *)
(* what becomes of the units in the carts, for every number of users,      *)
(* products, orders and adds.                                              *)
EXTENDS Checkout, TLAPS

Unpaid == {"new", "getCart", "prepare", "convert", "charge"}
Settled == {"empty", "email", "ok"}

(* Where an order stands tells what the payment and shipping services      *)
(* have done for it.                                                       *)
LedgerOf(o) ==
  /\ pc[o] \in Unpaid => charges[o] = <<>>
  /\ pc[o] \in Settled \cup {"ship", "unavailable"} =>
       charges[o] = <<Total(items[o], cost[o])>>
  /\ pc[o] \in Unpaid \cup {"ship", "internal"} => shipments[o] = <<>>
  /\ pc[o] \in Settled => shipments[o] = <<items[o]>>
  /\ pc[o] = "unavailable" => shipments[o] \in {<<>>, <<items[o]>>}
  /\ pc[o] \in Settled \cup {"convert", "charge", "ship", "unavailable"} =>
       \A p \in LinesOf(items[o]) : cost[o][p] # NoPrice
  /\ o \in mails => pc[o] = "ok"

Ledger == \A o \in Orders : LedgerOf(o)

(* An order empties the cart once, after it was shipped.                   *)
Emptying ==
  \A o \in Orders : /\ o \in emptied => pc[o] \in {"email", "ok"}
                    /\ o \notin emptied => swept[o] = {}

(* The units in a cart, in a cart that was read and in an order are those  *)
(* of acknowledged adds of the same user.                                  *)
Acknowledged(units, u) ==
  \A a \in units : addPc[a] = "done" /\ CustomerOf[a] = u

Units == /\ \A u \in Users : Acknowledged(cart[u], u)
         /\ \A b \in Adds : Acknowledged(addSeen[b], CustomerOf[b])
         /\ \A o \in Orders : Acknowledged(items[o], CustomerOf[o])

(* With a transactional store, an add that was acknowledged when an order  *)
(* read the cart and is not in the order is not in the cart either.        *)
Known ==
  \A o \in Orders :
    /\ known[o] \cap Orders \subseteq emptied
    /\ \A a \in known[o] \cap Adds :
         /\ addPc[a] = "done"
         /\ (AtomicAdd /\ a \notin items[o]) => a \notin CartOf(o)

(* What an order emptied while no add was half done is gone for good.      *)
Gone ==
  \A o \in emptied :
    during[o] = {} =>
      \A a \in items[o] :
        /\ a \notin CartOf(o)
        /\ \A b \in Adds :
             (addPc[b] = "writing" /\ CustomerOf[b] = CustomerOf[o])
               => a \notin addSeen[b]

IInv == /\ TypeOK
        /\ Ledger
        /\ Emptying
        /\ Units
        /\ Known
        /\ Gone
        /\ ReorderNeedsHalfDoneAdd
        /\ SilentLossNeedsLateAdd

(* At first nothing is in a cart and no order is placed.                   *)
LEMMA InitIInv == Init => IInv
<1> SUFFICES ASSUME Init PROVE IInv
  OBVIOUS
<1>1. TypeOK
  BY DEF Init, TypeOK, PC
<1>2. Ledger
  BY DEF Init, Ledger, LedgerOf, Unpaid, Settled
<1>3. Emptying /\ Units /\ Known /\ Gone
  BY DEF Init, Emptying, Units, Acknowledged, Known, Gone
<1>4. ReorderNeedsHalfDoneAdd /\ SilentLossNeedsLateAdd
  BY DEF Init, ReorderNeedsHalfDoneAdd, SilentLossNeedsLateAdd
<1> QED BY <1>1, <1>2, <1>3, <1>4 DEF IInv

(* Every action keeps the types.                                           *)
LEMMA TypeStep == TypeOK /\ [Next]_vars => TypeOK'
<1> SUFFICES ASSUME TypeOK, [Next]_vars PROVE TypeOK'
  OBVIOUS
<1> USE CheckoutAssumption DEF TypeOK, Move, PC, Replies, cartVars, services, history
<1>1. CASE UNCHANGED vars
  BY <1>1 DEF vars
<1>2. ASSUME NEW a \in Adds, AddReads(a) PROVE TypeOK'
  BY <1>2 DEF AddReads, CartOf
<1>3. ASSUME NEW a \in Adds, AddWrites(a) PROVE TypeOK'
  BY <1>3 DEF AddWrites
<1>4. ASSUME NEW p \in Products, Reprice(p) PROVE TypeOK'
  BY <1>4 DEF Reprice
<1>5. ASSUME NEW o \in Orders, PlaceOrder(o) PROVE TypeOK'
  BY <1>5 DEF PlaceOrder
<1>6. ASSUME NEW o \in Orders, Cancel(o) PROVE TypeOK'
  BY <1>6 DEF Cancel
<1>7. ASSUME NEW o \in Orders, GetUserCart(o) PROVE TypeOK'
  BY <1>7 DEF GetUserCart, CartOf
<1>8. ASSUME NEW o \in Orders, PrepOrderItem(o) PROVE TypeOK'
  BY <1>8 DEF PrepOrderItem, LinesOf
<1>9. ASSUME NEW o \in Orders, QuoteShipping(o) PROVE TypeOK'
  BY <1>9 DEF QuoteShipping
<1>10. ASSUME NEW o \in Orders, ConvertShipping(o) PROVE TypeOK'
  BY <1>10 DEF ConvertShipping
<1>11. ASSUME NEW o \in Orders, FailInternal(o) PROVE TypeOK'
  BY <1>11 DEF FailInternal
<1>12. ASSUME NEW o \in Orders, ChargeCard(o) PROVE TypeOK'
  BY <1>12 DEF ChargeCard
<1>13. ASSUME NEW o \in Orders, ShipOrder(o) PROVE TypeOK'
  BY <1>13 DEF ShipOrder
<1>14. ASSUME NEW o \in Orders, FailUnavailable(o) PROVE TypeOK'
  BY <1>14 DEF FailUnavailable
<1>15. ASSUME NEW o \in Orders, EmptyUserCart(o) PROVE TypeOK'
  BY <1>15 DEF EmptyUserCart, CartOf, HalfWay
<1>16. ASSUME NEW o \in Orders, EmptyUserCartFails(o) PROVE TypeOK'
  BY <1>16 DEF EmptyUserCartFails
<1>17. ASSUME NEW o \in Orders, SendOrderConfirmation(o) PROVE TypeOK'
  BY <1>17 DEF SendOrderConfirmation
<1> QED
  BY <1>1, <1>2, <1>3, <1>4, <1>5, <1>6, <1>7, <1>8, <1>9, <1>10, <1>11,
     <1>12, <1>13, <1>14, <1>15, <1>16, <1>17 DEF Next, Step

-----------------------------------------------------------------------------
(* A step that leaves o where it is.                                       *)
Keeps(o) == /\ pc'[o] = pc[o] /\ items'[o] = items[o] /\ cost'[o] = cost[o]
            /\ charges'[o] = charges[o] /\ shipments'[o] = shipments[o]
            /\ (o \in mails' <=> o \in mails)
            /\ known'[o] = known[o] /\ (o \in emptied' <=> o \in emptied)
            /\ swept'[o] = swept[o] /\ during'[o] = during[o]

(* A step of one order leaves the others.                                  *)
LEMMA OthersKeep ==
  ASSUME TypeOK, NEW o \in Orders, [Next]_vars,
         ~(PlaceOrder(o) \/ Step(o))
  PROVE  Keeps(o)
<1> USE DEF TypeOK, Keeps, Move, cartVars, services, history
<1>1. CASE UNCHANGED vars
  BY <1>1 DEF vars
<1>2. CASE \E a \in Adds : AddReads(a) \/ AddWrites(a)
  BY <1>2 DEF AddReads, AddWrites
<1>3. CASE \E p \in Products : Reprice(p)
  BY <1>3 DEF Reprice
<1>4. CASE \E q \in Orders : Cancel(q)
  BY <1>4 DEF Cancel
<1>5. ASSUME NEW q \in Orders \ {o}, PlaceOrder(q) \/ Step(q)
      PROVE  Keeps(o)
  <2>1. CASE PlaceOrder(q) \/ GetUserCart(q) \/ PrepOrderItem(q)
    BY <1>5, <2>1 DEF PlaceOrder, GetUserCart, PrepOrderItem
  <2>2. CASE QuoteShipping(q) \/ ConvertShipping(q) \/ FailInternal(q)
    BY <1>5, <2>2 DEF QuoteShipping, ConvertShipping, FailInternal
  <2>3. CASE ChargeCard(q)
    BY <1>5, <2>3 DEF ChargeCard
  <2>4. CASE ShipOrder(q) \/ FailUnavailable(q)
    BY <1>5, <2>4 DEF ShipOrder, FailUnavailable
  <2>5. CASE EmptyUserCart(q) \/ EmptyUserCartFails(q)
    BY <1>5, <2>5 DEF EmptyUserCart, EmptyUserCartFails
  <2>6. CASE SendOrderConfirmation(q)
    BY <1>5, <2>6 DEF SendOrderConfirmation
  <2> QED BY <1>5, <2>1, <2>2, <2>3, <2>4, <2>5, <2>6 DEF Step
<1> QED BY <1>1, <1>2, <1>3, <1>4, <1>5 DEF Next

(* What the services have done follows the point PlaceOrder has reached.   *)
LEMMA LedgerStep == TypeOK /\ Ledger /\ [Next]_vars => Ledger'
<1> SUFFICES ASSUME TypeOK, Ledger, [Next]_vars, NEW o \in Orders
             PROVE  LedgerOf(o)'
  BY DEF Ledger
<1>0. LedgerOf(o) /\ pc[o] \in PC
  BY DEF Ledger, TypeOK
<1>1. CASE ~(PlaceOrder(o) \/ Step(o))
  <2>1. Keeps(o)
    BY <1>1, OthersKeep
  <2> QED BY <1>0, <2>1 DEF Keeps, LedgerOf, LinesOf
<1> USE <1>0 DEF TypeOK, LedgerOf, Move, Unpaid, Settled, services
<1>2. CASE PlaceOrder(o)
  BY <1>2 DEF PlaceOrder
<1>3. CASE GetUserCart(o)
  BY <1>3 DEF GetUserCart
<1>4. CASE PrepOrderItem(o)
  BY <1>4 DEF PrepOrderItem
<1>5. CASE QuoteShipping(o)
  BY <1>5 DEF QuoteShipping, LinesOf
<1>6. CASE ConvertShipping(o)
  BY <1>6 DEF ConvertShipping, LinesOf
<1>7. CASE FailInternal(o)
  BY <1>7 DEF FailInternal
<1>8. CASE ChargeCard(o)
  BY <1>8 DEF ChargeCard, LinesOf
<1>9. CASE ShipOrder(o)
  BY <1>9 DEF ShipOrder, LinesOf
<1>10. CASE FailUnavailable(o)
  BY <1>10 DEF FailUnavailable, LinesOf
<1>11. CASE EmptyUserCart(o)
  BY <1>11 DEF EmptyUserCart, LinesOf
<1>12. CASE EmptyUserCartFails(o)
  BY <1>12 DEF EmptyUserCartFails, LinesOf
<1>13. CASE SendOrderConfirmation(o)
  BY <1>13 DEF SendOrderConfirmation, LinesOf
<1> QED BY <1>1, <1>2, <1>3, <1>4, <1>5, <1>6, <1>7, <1>8, <1>9, <1>10, <1>11,
           <1>12, <1>13 DEF Step

(* Only the order itself changes what is recorded of its EmptyCart.        *)
LEMMA OwnStep ==
  ASSUME TypeOK, NEW o \in Orders, PlaceOrder(o) \/ Step(o),
         ~GetUserCart(o), ~EmptyUserCart(o)
  PROVE  /\ items'[o] = items[o] /\ known'[o] = known[o]
         /\ emptied' = emptied /\ swept'[o] = swept[o] /\ during'[o] = during[o]
         /\ pc[o] = "email" => pc'[o] \in {"email", "ok"}
         /\ pc[o] # "ok"
BY DEF Step, PlaceOrder, PrepOrderItem, QuoteShipping, ConvertShipping,
       FailInternal, ChargeCard, ShipOrder, FailUnavailable,
       EmptyUserCartFails, SendOrderConfirmation, Move, history, TypeOK

(* An order empties the cart once, after it has shipped.                   *)
LEMMA EmptyingStep == TypeOK /\ Emptying /\ [Next]_vars => Emptying'
<1> SUFFICES ASSUME TypeOK, Emptying, [Next]_vars, NEW o \in Orders
             PROVE  /\ o \in emptied' => pc'[o] \in {"email", "ok"}
                    /\ o \notin emptied' => swept'[o] = {}
  BY DEF Emptying
<1>1. CASE ~(PlaceOrder(o) \/ Step(o))
  BY <1>1, OthersKeep DEF Emptying, Keeps
<1>2. CASE GetUserCart(o)
  BY <1>2 DEF GetUserCart, Move, Emptying, TypeOK
<1>3. CASE EmptyUserCart(o)
  BY <1>3 DEF EmptyUserCart, Move, TypeOK
<1>4. CASE (PlaceOrder(o) \/ Step(o)) /\ ~GetUserCart(o) /\ ~EmptyUserCart(o)
  BY <1>4, OwnStep DEF Emptying
<1> QED BY <1>1, <1>2, <1>3, <1>4

(* How the carts change: an add puts one unit in, after it read the cart   *)
(* or at once; an order reads it or takes everything out.                  *)
LEMMA CartsKept ==
  ASSUME [Next]_vars,
         ~ \E a \in Adds : AddReads(a) \/ AddWrites(a),
         ~ \E o \in Orders : EmptyUserCart(o)
  PROVE  UNCHANGED cartVars
BY DEF Next, Step, vars, cartVars, Reprice, Cancel, PlaceOrder, GetUserCart,
       PrepOrderItem, QuoteShipping, ConvertShipping, FailInternal, ChargeCard,
       ShipOrder, FailUnavailable, EmptyUserCartFails, SendOrderConfirmation

(* How the orders' histories change.                                       *)
LEMMA OrdersKept ==
  ASSUME TypeOK, [Next]_vars,
         ~ \E o \in Orders : GetUserCart(o) \/ EmptyUserCart(o)
  PROVE  /\ items' = items /\ known' = known /\ emptied' = emptied
         /\ swept' = swept /\ during' = during
BY DEF Next, Step, vars, history, AddReads, AddWrites, Reprice, Cancel, PlaceOrder,
       PrepOrderItem, QuoteShipping, ConvertShipping, FailInternal, ChargeCard,
       ShipOrder, FailUnavailable, EmptyUserCartFails, SendOrderConfirmation

(* A cart holds units of acknowledged adds of its user.                    *)
LEMMA UnitsStep == TypeOK /\ Units /\ [Next]_vars => Units'
<1> SUFFICES ASSUME TypeOK, Units, [Next]_vars PROVE Units'
  OBVIOUS
<1> USE CheckoutAssumption DEF TypeOK, Units, Acknowledged, CartOf
<1>1. ASSUME NEW a \in Adds, AddReads(a) PROVE Units'
  BY <1>1 DEF AddReads
<1>2. ASSUME NEW a \in Adds, AddWrites(a) PROVE Units'
  BY <1>2 DEF AddWrites
<1>3. ASSUME NEW o \in Orders, GetUserCart(o) PROVE Units'
  BY <1>3 DEF GetUserCart, cartVars
<1>4. ASSUME NEW o \in Orders, EmptyUserCart(o) PROVE Units'
  BY <1>4 DEF EmptyUserCart
<1>5. CASE UNCHANGED <<cartVars, items>>
  BY <1>5 DEF cartVars
<1>6. CASE ~ \E o \in Orders : GetUserCart(o) \/ EmptyUserCart(o)
  BY <1>1, <1>2, <1>5, <1>6, CartsKept, OrdersKept
<1> QED BY <1>3, <1>4, <1>6

(* What an order could have seen and left is not in the cart.              *)
LEMMA KnownStep == TypeOK /\ Units /\ Known /\ [Next]_vars => Known'
<1> SUFFICES ASSUME TypeOK, Units, Known, [Next]_vars PROVE Known'
  OBVIOUS
<1> USE CheckoutAssumption DEF TypeOK, Known, CartOf
<1>1. ASSUME NEW a \in Adds, AddReads(a) PROVE Known'
  BY <1>1 DEF AddReads, history
<1>2. ASSUME NEW a \in Adds, AddWrites(a) PROVE Known'
  BY <1>2 DEF AddWrites, history
<1>3. ASSUME NEW o \in Orders, GetUserCart(o) PROVE Known'
  BY <1>3 DEF GetUserCart, cartVars
<1>4. ASSUME NEW o \in Orders, EmptyUserCart(o) PROVE Known'
  BY <1>4 DEF EmptyUserCart
<1>5. CASE UNCHANGED <<cartVars, items, known, emptied>>
  BY <1>5 DEF cartVars
<1>6. CASE ~ \E o \in Orders : GetUserCart(o) \/ EmptyUserCart(o)
  BY <1>1, <1>2, <1>5, <1>6, CartsKept, OrdersKept
<1> QED BY <1>3, <1>4, <1>6

(* What was emptied while no add was half done does not come back.         *)
LEMMA GoneStep == TypeOK /\ Units /\ Emptying /\ Gone /\ [Next]_vars => Gone'
<1> SUFFICES ASSUME TypeOK, Units, Emptying, Gone, [Next]_vars PROVE Gone'
  OBVIOUS
<1> USE CheckoutAssumption DEF TypeOK, Gone, CartOf
<1>1. ASSUME NEW a \in Adds, AddReads(a) PROVE Gone'
  BY <1>1, SMTT(30) DEF AddReads, history
<1>2. ASSUME NEW a \in Adds, AddWrites(a) PROVE Gone'
  <2> SUFFICES ASSUME NEW o \in emptied, during[o] = {}, NEW x \in items[o]
               PROVE  /\ x \notin cart'[CustomerOf[o]]
                      /\ \A b \in Adds :
                           (addPc'[b] = "writing" /\ CustomerOf[b] = CustomerOf[o])
                             => x \notin addSeen'[b]
    BY <1>2 DEF AddWrites, history
  <2>1. x # a /\ x \notin cart[CustomerOf[o]]
    BY <1>2 DEF AddWrites, Units, Acknowledged
  <2>2. (~AtomicAdd /\ CustomerOf[a] = CustomerOf[o]) => x \notin addSeen[a]
    BY <1>2 DEF AddWrites
  <2>3. x \notin cart'[CustomerOf[o]]
    BY <1>2, <2>1, <2>2 DEF AddWrites
  <2>4. addSeen' = addSeen
        /\ \A b \in Adds : addPc'[b] = "writing" => addPc[b] = "writing"
    BY <1>2 DEF AddWrites
  <2> QED BY <2>3, <2>4
<1>3. ASSUME NEW o \in Orders, GetUserCart(o) PROVE Gone'
  <2>1. /\ o \notin emptied /\ emptied' = emptied /\ during' = during
        /\ UNCHANGED cartVars
        /\ \A q \in Orders \ {o} : items'[q] = items[q]
    BY <1>3 DEF GetUserCart, Emptying, Move
  <2> QED BY <2>1, SMTT(30) DEF cartVars
<1>4. ASSUME NEW o \in Orders, EmptyUserCart(o) PROVE Gone'
  BY <1>4 DEF EmptyUserCart, HalfWay, Emptying, Move
<1>5. CASE UNCHANGED <<cartVars, items, emptied, during>>
  BY <1>5 DEF cartVars
<1>6. CASE ~ \E o \in Orders : GetUserCart(o) \/ EmptyUserCart(o)
  BY <1>1, <1>2, <1>5, <1>6, CartsKept, OrdersKept
<1> QED BY <1>3, <1>4, <1>6

(* So a unit is ordered again only after such an add.                      *)
LEMMA ReorderStep ==
  TypeOK /\ Units /\ Known /\ Emptying /\ Gone /\ ReorderNeedsHalfDoneAdd
    /\ [Next]_vars => ReorderNeedsHalfDoneAdd'
<1> SUFFICES ASSUME TypeOK, Units, Known, Emptying, Gone,
                    ReorderNeedsHalfDoneAdd, [Next]_vars,
                    NEW o1 \in Orders, NEW o2 \in Orders,
                    o1 \in known'[o2], items'[o1] \cap items'[o2] # {}
             PROVE  during'[o1] # {}
  BY DEF ReorderNeedsHalfDoneAdd
<1> USE CheckoutAssumption DEF TypeOK
<1>1. ASSUME NEW o \in Orders, GetUserCart(o) PROVE during'[o1] # {}
  <2>1. during' = during /\ \A q \in Orders \ {o} : /\ items'[q] = items[q]
                                                    /\ known'[q] = known[q]
    BY <1>1 DEF GetUserCart
  <2>2. CASE o2 # o
    BY <1>1, <2>1, <2>2 DEF Known, Emptying, GetUserCart, Move,
                            ReorderNeedsHalfDoneAdd
  <2>3. CASE o2 = o
    <3>1. items'[o2] = CartOf(o2) /\ o1 \in emptied /\ o1 # o2
      BY <1>1, <2>3 DEF GetUserCart, Emptying, Move
    <3>2. PICK a \in Adds : a \in items[o1] /\ a \in CartOf(o2)
      BY <2>1, <2>3, <3>1
    <3>3. CustomerOf[o1] = CustomerOf[o2]
      BY <3>2 DEF Units, Acknowledged, CartOf
    <3> QED BY <2>1, <3>1, <3>2, <3>3 DEF Gone, CartOf
  <2> QED BY <2>2, <2>3
<1>2. ASSUME NEW o \in Orders, EmptyUserCart(o) PROVE during'[o1] # {}
  BY <1>2 DEF EmptyUserCart, Known, Emptying, Move, ReorderNeedsHalfDoneAdd
<1>3. CASE ~ \E o \in Orders : GetUserCart(o) \/ EmptyUserCart(o)
  BY <1>3, OrdersKept DEF ReorderNeedsHalfDoneAdd
<1> QED BY <1>1, <1>2, <1>3

(* A unit leaves the cart unordered only if it came after the cart was     *)
(* read.                                                                   *)
LEMMA SilentLossStep ==
  TypeOK /\ Known /\ Emptying /\ SilentLossNeedsLateAdd /\ [Next]_vars
    => SilentLossNeedsLateAdd'
<1> SUFFICES ASSUME TypeOK, Known, Emptying, SilentLossNeedsLateAdd,
                    [Next]_vars, AtomicAdd, NEW o \in Orders
             PROVE  swept'[o] \cap known'[o] \subseteq items'[o]
  BY DEF SilentLossNeedsLateAdd
<1> USE CheckoutAssumption DEF TypeOK, SilentLossNeedsLateAdd
<1>1. ASSUME NEW q \in Orders, GetUserCart(q)
      PROVE  swept'[o] \cap known'[o] \subseteq items'[o]
  BY <1>1 DEF GetUserCart, Emptying, Move
<1>2. ASSUME NEW q \in Orders, EmptyUserCart(q)
      PROVE  swept'[o] \cap known'[o] \subseteq items'[o]
  BY <1>2 DEF EmptyUserCart, Known, CartOf
<1>3. CASE ~ \E q \in Orders : GetUserCart(q) \/ EmptyUserCart(q)
  BY <1>3, OrdersKept
<1> QED BY <1>1, <1>2, <1>3

(* All conjuncts together.                                                 *)
LEMMA StepIInv == IInv /\ [Next]_vars => IInv'
BY TypeStep, LedgerStep, EmptyingStep, UnitsStep, KnownStep, GoneStep,
   ReorderStep, SilentLossStep DEF IInv

(* IInv holds in every state.                                              *)
LEMMA Invariance == Spec => []IInv
BY InitIInv, StepIInv, PTL DEF Spec

(* Every variable of Checkout keeps its type.                              *)
THEOREM TypeCorrect == Spec => []TypeOK
<1>1. IInv => TypeOK
  BY DEF IInv
<1> QED BY Invariance, <1>1, PTL

(* The reply of PlaceOrder tells what was charged and what was shipped.    *)
THEOREM ReplyCorrect == Spec => []ReplyTellsTruth
<1>1. IInv => ReplyTellsTruth
  BY DEF IInv, Ledger, LedgerOf, Unpaid, Settled, ReplyTellsTruth
<1> QED BY Invariance, <1>1, PTL

(* What was shipped or confirmed was paid, once, at the prices that were   *)
(* read.                                                                   *)
THEOREM ShippingCorrect == Spec => []ShippedIsPaid
<1>1. IInv => ShippedIsPaid
  <2> SUFFICES ASSUME IInv, NEW o \in Orders
               PROVE  /\ o \in mails => shipments[o] # <<>>
                      /\ shipments[o] # <<>> =>
                           /\ shipments[o] = <<items[o]>>
                           /\ \A p \in LinesOf(items[o]) : cost[o][p] # NoPrice
                           /\ charges[o] = <<Total(items[o], cost[o])>>
    BY DEF ShippedIsPaid
  <2>1. LedgerOf(o) /\ pc[o] \in PC
    BY DEF IInv, Ledger, TypeOK
  <2> QED BY <2>1 DEF LedgerOf, Unpaid, Settled, PC, Replies
<1> QED BY Invariance, <1>1, PTL

(* No unit is ordered again after an order emptied the cart, unless an add *)
(* was half done when it did.                                              *)
THEOREM ReorderCorrect == Spec => []ReorderNeedsHalfDoneAdd
<1>1. IInv => ReorderNeedsHalfDoneAdd
  BY DEF IInv
<1> QED BY Invariance, <1>1, PTL

(* With a transactional store, an order removes unordered units only if    *)
(* their adds came after it read the cart.                                 *)
THEOREM SilentLossCorrect == Spec => []SilentLossNeedsLateAdd
<1>1. IInv => SilentLossNeedsLateAdd
  BY DEF IInv
<1> QED BY Invariance, <1>1, PTL

(* With a transactional store, units leave a cart only when an order that  *)
(* was charged and shipped empties it.                                     *)
THEOREM CartKeptCorrect == Spec => CartKeptUntilShipped
<1> DEFINE Kept == AtomicAdd => \A u \in Users :
                     ~(cart[u] \subseteq cart'[u])
                       => \E o \in Orders :
                            /\ CustomerOf[o] = u
                            /\ o \in emptied' \ emptied
                            /\ charges[o] # <<>> /\ shipments[o] # <<>>
<1>1. IInv /\ [Next]_vars => [Kept]_vars
  <2> SUFFICES ASSUME IInv, [Next]_vars, AtomicAdd, NEW u \in Users,
                      ~(cart[u] \subseteq cart'[u])
               PROVE  \E o \in Orders : /\ CustomerOf[o] = u
                                        /\ o \in emptied' \ emptied
                                        /\ charges[o] # <<>> /\ shipments[o] # <<>>
    OBVIOUS
  <2>1. PICK o \in Orders : EmptyUserCart(o)
    BY CartsKept DEF IInv, TypeOK, AddReads, AddWrites, cartVars
  <2>2. CustomerOf[o] = u
    BY <2>1, CheckoutAssumption DEF EmptyUserCart, IInv, TypeOK
  <2>3. pc[o] = "empty" /\ o \in emptied' \ emptied
    BY <2>1 DEF EmptyUserCart, Move, IInv, Emptying
  <2>4. charges[o] # <<>> /\ shipments[o] # <<>>
    BY <2>3 DEF IInv, Ledger, LedgerOf, Settled
  <2> QED BY <2>2, <2>3, <2>4
<1> QED BY Invariance, <1>1, PTL DEF Spec, CartKeptUntilShipped
=============================================================================
