----------------------------- MODULE CartStore -----------------------------
(***************************************************************************)
(* The contract of ICartStore, as CartServiceTests and the callers of the  *)
(* cart service rely on it: a cart per user, a quantity per product, and   *)
(* two operations that take effect at one instant.  A quantity of 0 means  *)
(* that the cart has no line for the product.                              *)
(***************************************************************************)
EXTENDS Naturals

CONSTANTS Users,       \* session ids the frontend hands out
          Products,    \* product ids of the catalog
          Quantities   \* quantities a request may ask for

VARIABLE cart

EmptyItems == [p \in Products |-> 0]

(* The lines of a cart once q more of product p are in it: an existing     *)
(* line grows, a missing one is created.                                   *)
Plus(items, p, q) == [items EXCEPT ![p] = @ + q]

Init == cart = [u \in Users |-> EmptyItems]

AddItem(u, p, q) == cart' = [cart EXCEPT ![u] = Plus(@, p, q)]

EmptyCart(u) == cart' = [cart EXCEPT ![u] = EmptyItems]

Next == \E u \in Users :
          \/ EmptyCart(u)
          \/ \E p \in Products, q \in Quantities : AddItem(u, p, q)

Spec == Init /\ [][Next]_cart
=============================================================================
