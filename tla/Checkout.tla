------------------------------ MODULE Checkout ------------------------------
(***************************************************************************)
(* checkoutservice/main.go: PlaceOrder as the sequence of calls it makes   *)
(* to the cart, catalog, currency, shipping, payment and email services,   *)
(* for orders that run side by side while their users go on adding to      *)
(* their carts.  A unit of a cart is the AddItem request that put it there,*)
(* so that a unit ordered twice, or never, is seen as such.                *)
(***************************************************************************)
EXTENDS Naturals, Sequences, Functions

CONSTANTS Users, Products,
          Adds,           \* AddItem requests
          Orders,         \* PlaceOrder requests, each a call of its own
          CustomerOf,     \* the user of each request
          ProductOf,      \* the product of each AddItem request
          Prices,         \* prices the catalog may hold
          ShippingCost,   \* the quote, in the user's currency
          AtomicAdd,      \* TRUE: a store whose AddItem is one transaction
          NoPrice         \* a line that has no price yet

ASSUME CheckoutAssumption ==
  /\ Adds \cap Orders = {}
  /\ CustomerOf \in [Adds \cup Orders -> Users]
  /\ ProductOf \in [Adds -> Products]
  /\ Prices \subseteq Nat /\ ShippingCost \in Nat
  /\ NoPrice \notin Prices
  /\ AtomicAdd \in BOOLEAN

VARIABLES
  cart,        \* the units in each user's stored cart
  addPc,       \* where each AddItem stands
  addSeen,     \* the units in the cart each AddItem has read
  price,       \* the catalog's price of each product
  pc,          \* where each PlaceOrder stands, or what it replied
  items,       \* prep.cartItems: the units of the cart it read
  cost,        \* prep.orderItems: the price of each line, once known
  cancelled,   \* the orders whose caller has gone: ctx is cancelled
  charges,     \* the payment service: amounts charged for each order
  shipments,   \* the shipping service: units shipped for each order
  mails,       \* the email service: the orders confirmed
  known,       \* history: adds acknowledged when the order read the cart,
               \* and orders that had emptied it
  emptied,     \* history: orders whose EmptyCart took effect
  swept,       \* history: the units that EmptyCart removed
  during       \* history: the adds half way through when it did

cartVars == <<cart, addPc, addSeen>>
services == <<charges, shipments, mails>>
history == <<known, emptied, swept, during>>
vars == <<cart, addPc, addSeen, price, pc, items, cost, cancelled,
          charges, shipments, mails, known, emptied, swept, during>>

Replies == {"ok", "internal", "unavailable"}
PC == {"new", "getCart", "prepare", "convert", "charge", "ship", "empty",
       "email"} \cup Replies

CartOf(r) == cart[CustomerOf[r]]
LinesOf(units) == {ProductOf[a] : a \in units}

(* money.Sum over the shipping and the lines; OrderTotal says when that is *)
(* the exact sum, and when computing it panics instead.                    *)
Total(units, costs) ==
  ShippingCost
    + SumFunctionOnSet([a \in units |-> costs[ProductOf[a]]], units)

Init ==
  /\ cart = [u \in Users |-> {}]
  /\ addPc = [a \in Adds |-> "new"]
  /\ addSeen = [a \in Adds |-> {}]
  /\ price \in [Products -> Prices]
  /\ pc = [o \in Orders |-> "new"]
  /\ items = [o \in Orders |-> {}]
  /\ cost = [o \in Orders |-> [p \in Products |-> NoPrice]]
  /\ cancelled = {}
  /\ charges = [o \in Orders |-> <<>>]
  /\ shipments = [o \in Orders |-> <<>>]
  /\ mails = {}
  /\ known = [o \in Orders |-> {}]
  /\ emptied = {}
  /\ swept = [o \in Orders |-> {}]
  /\ during = [o \in Orders |-> {}]

Move(o, from, to) == pc[o] = from /\ pc' = [pc EXCEPT ![o] = to]

-----------------------------------------------------------------------------
(* The cart service's AddItem, as RedisCartStore does it: read, then write *)
(* what was read with the new unit; or, with a transactional store, both   *)
(* at once.                                                                *)
AddReads(a) ==
  /\ ~AtomicAdd
  /\ addPc[a] = "new"
  /\ addPc' = [addPc EXCEPT ![a] = "writing"]
  /\ addSeen' = [addSeen EXCEPT ![a] = CartOf(a)]
  /\ UNCHANGED <<cart, price, pc, items, cost, cancelled, services, history>>

AddWrites(a) ==
  /\ addPc[a] = IF AtomicAdd THEN "new" ELSE "writing"
  /\ addPc' = [addPc EXCEPT ![a] = "done"]
  /\ cart' = [cart EXCEPT ![CustomerOf[a]] =
                (IF AtomicAdd THEN @ ELSE addSeen[a]) \cup {a}]
  /\ UNCHANGED <<addSeen, price, pc, items, cost, cancelled, services, history>>

(* The catalog is loaded again with another price for a product.           *)
Reprice(p) ==
  /\ \E x \in Prices \ {price[p]} : price' = [price EXCEPT ![p] = x]
  /\ UNCHANGED <<cartVars, pc, items, cost, cancelled, services, history>>

(* The caller of PlaceOrder gives up.  From then on no call that is made   *)
(* with ctx is sent.                                                       *)
Cancel(o) ==
  /\ pc[o] \notin {"new"} \cup Replies
  /\ o \notin cancelled
  /\ cancelled' = cancelled \cup {o}
  /\ UNCHANGED <<cartVars, price, pc, items, cost, services, history>>

-----------------------------------------------------------------------------
PlaceOrder(o) ==
  /\ Move(o, "new", "getCart")
  /\ UNCHANGED <<cartVars, price, items, cost, cancelled, services, history>>

(* Slip: the order keeps the products of the cart and loses the units.     *)
GetUserCartProducts(o) ==
  /\ Move(o, "getCart", "prepare")
  /\ o \notin cancelled
  /\ items' = [items EXCEPT ![o] = LinesOf(CartOf(o))]
  /\ known' = [known EXCEPT ![o] =
                 emptied \cup {a \in Adds : addPc[a] = "done"}]
  /\ UNCHANGED <<cartVars, price, cost, cancelled, services, emptied, swept,
                 during>>

(* Slip: one unit of the cart is not returned.                             *)
GetUserCartPage(o) ==
  /\ Move(o, "getCart", "prepare")
  /\ o \notin cancelled
  /\ \E a \in CartOf(o) : items' = [items EXCEPT ![o] = CartOf(o) \ {a}]
  /\ known' = [known EXCEPT ![o] =
                 emptied \cup {a \in Adds : addPc[a] = "done"}]
  /\ UNCHANGED <<cartVars, price, cost, cancelled, services, emptied, swept,
                 during>>

GetUserCart(o) ==
  /\ Move(o, "getCart", "prepare")
  /\ o \notin cancelled
  /\ items' = [items EXCEPT ![o] = CartOf(o)]
  /\ known' = [known EXCEPT ![o] =
                 emptied \cup {a \in Adds : addPc[a] = "done"}]
  /\ UNCHANGED <<cartVars, price, cost, cancelled, services, emptied, swept,
                 during>>

(* One turn of prepOrderItems' loop: GetProduct, then convertCurrency.     *)
PrepOrderItem(o) ==
  /\ pc[o] = "prepare" /\ o \notin cancelled
  /\ \E p \in LinesOf(items[o]) :
       /\ cost[o][p] = NoPrice
       /\ cost' = [cost EXCEPT ![o][p] = price[p]]
  /\ UNCHANGED <<cartVars, price, pc, items, cancelled, services, history>>

QuoteShipping(o) ==
  /\ Move(o, "prepare", "convert")
  /\ o \notin cancelled
  /\ \A p \in LinesOf(items[o]) : cost[o][p] # NoPrice
  /\ UNCHANGED <<cartVars, price, items, cost, cancelled, services, history>>

(* convertCurrency calls with context.TODO(), so that a cancelled order    *)
(* gets its answer all the same.                                           *)
ConvertShipping(o) ==
  /\ Move(o, "convert", "charge")
  /\ UNCHANGED <<cartVars, price, items, cost, cancelled, services, history>>

(* Any failure up to here, and a charge that is declined or not sent.      *)
FailInternal(o) ==
  /\ \E at \in {"getCart", "prepare", "convert", "charge"} :
       Move(o, at, "internal")
  /\ UNCHANGED <<cartVars, price, items, cost, cancelled, services, history>>

(* The payment service charges; if its answer is lost PlaceOrder returns   *)
(* an error all the same.                                                  *)
ChargeCard(o) ==
  /\ \E to \in {"ship", "internal"} : Move(o, "charge", to)
  /\ o \notin cancelled
  /\ charges' = [charges EXCEPT ![o] = Append(@, Total(items[o], cost[o]))]
  /\ UNCHANGED <<cartVars, price, items, cost, cancelled, shipments, mails,
                 history>>

(* Slip: the cart is read again to be shipped.                             *)
ShipCurrentCart(o) ==
  /\ \E to \in {"empty", "unavailable"} : Move(o, "ship", to)
  /\ o \notin cancelled
  /\ shipments' = [shipments EXCEPT ![o] = Append(@, CartOf(o))]
  /\ UNCHANGED <<cartVars, price, items, cost, cancelled, charges, mails,
                 history>>

ShipOrder(o) ==
  /\ \E to \in {"empty", "unavailable"} : Move(o, "ship", to)
  /\ o \notin cancelled
  /\ shipments' = [shipments EXCEPT ![o] = Append(@, items[o])]
  /\ UNCHANGED <<cartVars, price, items, cost, cancelled, charges, mails,
                 history>>

(* Slip: an order whose caller has gone waits for the carrier.             *)
FailUnavailableToCaller(o) ==
  /\ Move(o, "ship", "unavailable")
  /\ o \notin cancelled
  /\ UNCHANGED <<cartVars, price, items, cost, cancelled, services, history>>

FailUnavailable(o) ==
  /\ Move(o, "ship", "unavailable")
  /\ UNCHANGED <<cartVars, price, items, cost, cancelled, services, history>>

HalfWay(u) == {a \in Adds : addPc[a] = "writing" /\ CustomerOf[a] = u}

(* Slips: the cart is emptied before the order is shipped; it is not       *)
(* emptied at all.                                                         *)
EmptyUserCartEarly(o) ==
  /\ Move(o, "ship", "email")
  /\ o \notin cancelled
  /\ cart' = [cart EXCEPT ![CustomerOf[o]] = {}]
  /\ emptied' = emptied \cup {o}
  /\ swept' = [swept EXCEPT ![o] = CartOf(o)]
  /\ during' = [during EXCEPT ![o] = HalfWay(CustomerOf[o])]
  /\ UNCHANGED <<addPc, addSeen, price, items, cost, cancelled, services, known>>

EmptyUserCartLater(o) ==
  /\ Move(o, "empty", "email")
  /\ o \notin cancelled
  /\ emptied' = emptied \cup {o}
  /\ during' = [during EXCEPT ![o] = HalfWay(CustomerOf[o])]
  /\ UNCHANGED <<cartVars, swept, price, items, cost, cancelled, services,
                 known>>

EmptyUserCart(o) ==
  /\ Move(o, "empty", "email")
  /\ o \notin cancelled
  /\ cart' = [cart EXCEPT ![CustomerOf[o]] = {}]
  /\ emptied' = emptied \cup {o}
  /\ swept' = [swept EXCEPT ![o] = CartOf(o)]
  /\ during' = [during EXCEPT ![o] = HalfWay(CustomerOf[o])]
  /\ UNCHANGED <<addPc, addSeen, price, items, cost, cancelled, services, known>>

(* Slip: its error is returned.                                            *)
EmptyUserCartFatal(o) ==
  /\ Move(o, "empty", "internal")
  /\ UNCHANGED <<cartVars, price, items, cost, cancelled, services, history>>

(* "_ = cs.emptyUserCart(...)": its error is dropped.                      *)
EmptyUserCartFails(o) ==
  /\ Move(o, "empty", "email")
  /\ UNCHANGED <<cartVars, price, items, cost, cancelled, services, history>>

(* An error of the email service is logged and no more.                    *)
SendOrderConfirmation(o) ==
  /\ Move(o, "email", "ok")
  /\ \/ o \notin cancelled /\ mails' = mails \cup {o}
     \/ mails' = mails
  /\ UNCHANGED <<cartVars, price, items, cost, cancelled, charges, shipments,
                 history>>

-----------------------------------------------------------------------------
Step(o) == \/ GetUserCart(o)
           \/ PrepOrderItem(o)
           \/ QuoteShipping(o)
           \/ ConvertShipping(o)
           \/ FailInternal(o)
           \/ ChargeCard(o)
           \/ ShipOrder(o)
           \/ FailUnavailable(o)
           \/ EmptyUserCart(o)
           \/ EmptyUserCartFails(o)
           \/ SendOrderConfirmation(o)

Next == \/ \E a \in Adds : AddReads(a) \/ AddWrites(a)
        \/ \E p \in Products : Reprice(p)
        \/ \E o \in Orders : PlaceOrder(o) \/ Cancel(o) \/ Step(o)

(* Each call PlaceOrder makes returns, with a reply or with an error.      *)
Fairness == \A o \in Orders : WF_vars(Step(o))

Spec == Init /\ [][Next]_vars

FairSpec == Spec /\ Fairness

-----------------------------------------------------------------------------
(* Every variable holds a value of its type.                               *)
TypeOK ==
  /\ cart \in [Users -> SUBSET Adds]
  /\ addPc \in [Adds -> {"new", "writing", "done"}]
  /\ addSeen \in [Adds -> SUBSET Adds]
  /\ price \in [Products -> Prices]
  /\ pc \in [Orders -> PC]
  /\ items \in [Orders -> SUBSET Adds]
  /\ cost \in [Orders -> [Products -> Prices \cup {NoPrice}]]
  /\ cancelled \in SUBSET Orders
  /\ DOMAIN charges = Orders
  /\ DOMAIN shipments = Orders
  /\ mails \in SUBSET Orders
  /\ known \in [Orders -> SUBSET (Adds \cup Orders)]
  /\ emptied \in SUBSET Orders
  /\ swept \in [Orders -> SUBSET Adds]
  /\ during \in [Orders -> SUBSET Adds]

(* What the reply tells the caller about the payment and shipping          *)
(* services: after "internal" nothing was shipped, after "unavailable" the *)
(* card was charged once, after "ok" it was charged once for the total of  *)
(* the order's lines and the units of those lines were shipped once.       *)
ReplyTellsTruth ==
  \A o \in Orders :
    /\ pc[o] = "internal" => shipments[o] = <<>>
    /\ pc[o] = "unavailable" => charges[o] = <<Total(items[o], cost[o])>>
    /\ pc[o] = "ok" => /\ charges[o] = <<Total(items[o], cost[o])>>
                       /\ shipments[o] = <<items[o]>>

(* Nothing is shipped, or confirmed by email, unless the card was charged  *)
(* before, once, for exactly what is shipped, at the prices PlaceOrder     *)
(* read; though the cart and the catalog change in between.                *)
ShippedIsPaid ==
  \A o \in Orders :
    /\ o \in mails => shipments[o] # <<>>
    /\ shipments[o] # <<>> =>
         /\ shipments[o] = <<items[o]>>
         /\ \A p \in LinesOf(items[o]) : cost[o][p] # NoPrice
         /\ charges[o] = <<Total(items[o], cost[o])>>

(* An order that reads the cart after another one has emptied it does not  *)
(* order the same unit again, unless an AddItem was half done when the     *)
(* cart was emptied and wrote the old cart back.                           *)
ReorderNeedsHalfDoneAdd ==
  \A o1, o2 \in Orders :
    (o1 \in known[o2] /\ items[o1] \cap items[o2] # {})
      => during[o1] # {}

(* An order's EmptyCart removes a unit it did not order only if the unit's *)
(* AddItem was acknowledged after the order read the cart.                 *)
SilentLossNeedsLateAdd ==
  AtomicAdd => \A o \in Orders : swept[o] \cap known[o] \subseteq items[o]

(* A failed order leaves the cart for another try: a unit leaves the cart  *)
(* only when an order that was charged and shipped empties it.             *)
CartKeptUntilShipped ==
  [][AtomicAdd => \A u \in Users :
       ~(cart[u] \subseteq cart'[u])
         => \E o \in Orders : /\ CustomerOf[o] = u
                              /\ o \in emptied' \ emptied
                              /\ charges[o] # <<>> /\ shipments[o] # <<>>]_vars

(* Every PlaceOrder returns a reply or an error.                           *)
EveryOrderReplies == \A o \in Orders : (pc[o] # "new") ~> (pc[o] \in Replies)
=============================================================================
