---------------------------- MODULE RetailOrders ----------------------------
(* The retail checkout with its client of the orders API and the orders    *)
(* service: the order of a submitted checkout, as listOrders returns it.   *)
EXTENDS RetailCheckout

CONSTANT TextOrder    \* how the orders database sorts numbers as text

Client == INSTANCE OrdersClient WITH Null <- Undefined

Item == [id : STRING, name : STRING, quantity : Int, unitCost : Int,
         totalCost : Int, imageUrl : STRING]

ASSUME ItemsAssumption == \A body \in Bodies : body.items \in Seq(Item)

(* Text is sorted in a strict total order, digits by their value.          *)
Before(j, k) == <<j, k>> \in TextOrder

Sorts(S) ==
  /\ \A i, j, k \in S : Before(i, j) /\ Before(j, k) => Before(i, k)
  /\ \A j, k \in S : /\ ~(Before(j, k) /\ Before(k, j))
                     /\ j # k => Before(j, k) \/ Before(k, j)
                     /\ j \in 0 .. 9 /\ k \in 0 .. 9 => (Before(j, k) <=> j < k)

ASSUME TextOrderAssumption ==
  \A body \in Bodies : Sorts(0 .. Len(body.items) - 1)

(* The Order that HttpOrdersService.create passes to createOrder.          *)
OrderOf(checkout) ==
  LET body == checkout.request
  IN  IF body.customerEmail = Undefined
      THEN [firstName |-> "John", lastName |-> "Doe", items |-> body.items]
      ELSE [firstName |-> "John", lastName |-> "Doe", items |-> body.items,
            email |-> body.customerEmail]

(* The entity that the orders service saves for submit c, and what         *)
(* listOrders makes of the one that it finds.                              *)
Entity(c) ==
  LET post == Client!CreateOrder(OrderOf(CheckoutOf(held[c])))
  IN  Client!OrderEntity(c, post.body)

Listed(c) ==
  Client!ListOrders(<<Client!ExistingOrder(Client!FindAll(Entity(c)))>>)[1]

LineListed(row) == [index |-> Client!Field(row, "id"),
                    name |-> Client!Field(row, "name"),
                    quantity |-> Client!Field(row, "quantity"),
                    totalCost |-> Client!Field(row, "totalCost")]

LineOrdered(item, i) == [index |-> i - 1, name |-> item.name,
                         quantity |-> item.quantity,
                         totalCost |-> item.totalCost]

(* Once a submit is acknowledged, the orders service lists its order with  *)
(* the customer's email and the lines of the checkout, each with its name, *)
(* quantity and line total, and in the order of the checkout as long as    *)
(* there are no more than ten.  What is lost is the product: in the place  *)
(* of its id the index of the line is listed.                              *)
OrderKeepsLines ==
  \A c \in {c \in ordered : pc[c] = "ok"} :
    LET body == req[held[c]].body
        listed == Listed(c)
        rows == listed.items
    IN  /\ Client!Field(listed, "email") = body.customerEmail
        /\ Client!Field(listed, "id") = c
        /\ Len(rows) = Len(body.items)
        /\ {LineListed(rows[r]) : r \in DOMAIN rows}
             = {LineOrdered(body.items[i], i) : i \in DOMAIN body.items}
        /\ Len(rows) <= 10 =>
             \A r \in DOMAIN rows : Client!Field(rows[r], "id") = r - 1
=============================================================================
