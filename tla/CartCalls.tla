----------------------------- MODULE CartCalls -----------------------------
(***************************************************************************)
(* The calls of the cart service's gRPC interface in flight on one or more *)
(* replicas of the service.  CartService passes each call straight to the  *)
(* store, so a call is: the request, where the store's method stands, and  *)
(* the reply.  The stores (RedisCartStore, SpannerCartStore,               *)
(* AlloyDBCartStore) extend this module and give the steps between.        *)
(***************************************************************************)
EXTENDS Naturals

CONSTANTS Users, Products, Quantities,
          Calls,          \* the calls made, each at most once
          Patient,        \* the users who wait for each reply before calling
          StorageFaults   \* TRUE: an access to the storage may throw

ASSUME CallsAssumption == /\ Quantities \subseteq Nat \ {0}
                          /\ Patient \subseteq Users
                          /\ StorageFaults \in BOOLEAN

VARIABLES req,       \* the request of each call; chosen once, never changed
          pc,        \* where the store's method stands
          preceded   \* history: the calls that had returned when it began

callVars == <<req, pc, preceded>>

AddRequest == [op : {"AddItem"}, user : Users, product : Products,
               qty : Quantities]
UserRequest == [op : {"EmptyCart", "GetCart"}, user : Users]
Request == AddRequest \cup UserRequest

(* "read": before the storage is read; "write": before it is written; "ok" *)
(* and "failed": returned, the latter with FailedPrecondition.             *)
PC == {"new", "read", "write", "ok", "failed"}

InitCalls == /\ req \in [Calls -> Request]
             /\ pc = [c \in Calls |-> "new"]
             /\ preceded = [c \in Calls |-> {}]

IsAdd(c) == req[c].op = "AddItem"
IsEmpty(c) == req[c].op = "EmptyCart"
IsGet(c) == req[c].op = "GetCart"
UserOf(c) == req[c].user

Started(c) == pc[c] # "new"
Returned(c) == pc[c] \in {"ok", "failed"}
InFlight(c) == Started(c) /\ ~Returned(c)
SameUser(c, d) == UserOf(c) = UserOf(d)

(* Neither of two started calls returned before the other began.           *)
Overlap(c, d) == /\ Started(c) /\ Started(d)
                 /\ c \notin preceded[d] /\ d \notin preceded[c]

Begin(c) ==
  /\ pc[c] = "new"
  /\ UserOf(c) \in Patient => \A d \in Calls : SameUser(c, d) => ~InFlight(d)
  /\ pc' = [pc EXCEPT ![c] = IF IsEmpty(c) THEN "write" ELSE "read"]
  /\ preceded' = [preceded EXCEPT ![c] = {d \in Calls : Returned(d)}]
  /\ req' = req

Step(c, from, to) == /\ pc[c] = from
                     /\ pc' = [pc EXCEPT ![c] = to]
                     /\ UNCHANGED <<req, preceded>>

CallsTypeOK == /\ req \in [Calls -> Request]
               /\ pc \in [Calls -> PC]
               /\ preceded \in [Calls -> SUBSET Calls]
=============================================================================
