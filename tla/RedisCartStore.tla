--------------------------- MODULE RedisCartStore ---------------------------
(***************************************************************************)
(* RedisCartStore.cs: the whole cart of a user is one value of a           *)
(* distributed cache.  AddItemAsync awaits GetAsync, changes the parsed    *)
(* cart and awaits SetAsync; nothing ties the two together, so calls for   *)
(* the same user interleave between them.                                  *)
(***************************************************************************)
EXTENDS CartCalls, Functions

CONSTANTS NoValue,   \* the null GetAsync returns for an unknown key
          NoUser     \* the empty UserId of a new Hipstershop.Cart

VARIABLES cache,     \* the value stored under each user's key
          seen,      \* the value each call read
          merged,    \* history: the adds each stored value contains
          seenMerged \* history: the adds the value each call read contains

storeVars == <<cache, seen, merged, seenMerged>>
vars == <<req, pc, preceded, cache, seen, merged, seenMerged>>

(* The contract, for the users who wait for each reply.                    *)
Store == INSTANCE CartStore WITH
           Users <- Patient,
           cart <- [u \in Patient |-> IF cache[u] = NoValue
                                      THEN [p \in Products |-> 0]
                                      ELSE cache[u].items]

Cart == [owner : Users \cup {NoUser}, items : [Products -> Nat]]
NewCart(owner) == [owner |-> owner, items |-> [p \in Products |-> 0]]

ASSUME NoValueAssumption == NoValue \notin Cart

Init == /\ InitCalls
        /\ cache = [u \in Users |-> NoValue]
        /\ seen = [c \in Calls |-> NoValue]
        /\ merged = [u \in Users |-> {}]
        /\ seenMerged = [c \in Calls |-> {}]

BeginCall(c) == Begin(c) /\ UNCHANGED storeVars

(* Slip: every read misses the cache.                                      *)
GetAsyncMisses(c) ==
  /\ Step(c, "read", IF IsAdd(c) THEN "write" ELSE "ok")
  /\ UNCHANGED storeVars

(* await _cache.GetAsync(userId), in AddItemAsync and in GetCartAsync.     *)
GetAsync(c) ==
  /\ Step(c, "read", IF IsAdd(c) THEN "write" ELSE "ok")
  /\ seen' = [seen EXCEPT ![c] = cache[UserOf(c)]]
  /\ seenMerged' = [seenMerged EXCEPT ![c] = merged[UserOf(c)]]
  /\ UNCHANGED <<cache, merged>>

(* Slips: the line's quantity is replaced; it goes down.                   *)
CartWithItemReplaced(value, r) ==
  LET found == IF value = NoValue THEN NewCart(r.user) ELSE value
  IN  [found EXCEPT !.items = [@ EXCEPT ![r.product] = r.qty]]

CartWithItemTaken(value, r) ==
  LET found == IF value = NoValue THEN NewCart(r.user) ELSE value
  IN  [found EXCEPT !.items = [@ EXCEPT ![r.product] = @ - r.qty]]

(* A cart that was not in the cache gets its UserId and the item; in one   *)
(* that was, the product's line grows or a line is added.                  *)
CartWithItem(value, r) ==
  LET found == IF value = NoValue THEN NewCart(r.user) ELSE value
  IN  [found EXCEPT !.items = Store!Plus(@, r.product, r.qty)]

Written(c) == IF IsAdd(c) THEN CartWithItem(seen[c], req[c])
                          ELSE NewCart(NoUser)
WrittenMerged(c) == IF IsAdd(c) THEN seenMerged[c] \cup {c} ELSE {}

(* Slip: EmptyCartAsync replies without writing.                           *)
SetAsyncOfAddsOnly(c) ==
  /\ Step(c, "write", "ok")
  /\ cache' = IF IsAdd(c) THEN [cache EXCEPT ![UserOf(c)] = Written(c)]
                          ELSE cache
  /\ merged' = IF IsAdd(c) THEN [merged EXCEPT ![UserOf(c)] = WrittenMerged(c)]
                           ELSE merged
  /\ UNCHANGED <<seen, seenMerged>>

(* await _cache.SetAsync, in AddItemAsync and in EmptyCartAsync.  A call   *)
(* whose reply is lost has written and throws all the same.                *)
SetAsync(c) ==
  /\ \/ Step(c, "write", "ok")
     \/ StorageFaults /\ Step(c, "write", "failed")
  /\ cache' = [cache EXCEPT ![UserOf(c)] = Written(c)]
  /\ merged' = [merged EXCEPT ![UserOf(c)] = WrittenMerged(c)]
  /\ UNCHANGED <<seen, seenMerged>>

(* The access throws before it reaches the cache; the catch block turns    *)
(* the exception into FailedPrecondition.                                  *)
Throw(c) == /\ StorageFaults
            /\ Step(c, "read", "failed") \/ Step(c, "write", "failed")
            /\ UNCHANGED storeVars

Next == \E c \in Calls : \/ BeginCall(c)
                         \/ GetAsync(c)
                         \/ SetAsync(c)
                         \/ Throw(c)

Spec == Init /\ [][Next]_vars

-----------------------------------------------------------------------------
(* Every variable holds a value of its type.                               *)
TypeOK == /\ CallsTypeOK
          /\ cache \in [Users -> Cart \cup {NoValue}]
          /\ seen \in [Calls -> Cart \cup {NoValue}]
          /\ merged \in [Users -> SUBSET Calls]
          /\ seenMerged \in [Calls -> SUBSET Calls]

Quantity(value, p) == IF value = NoValue THEN 0 ELSE value.items[p]

(* What the adds ask for of a product.                                     *)
Asked(adds, p) ==
  SumFunctionOnSet([c \in {d \in Calls : IsAdd(d)} |-> req[c].qty],
                   {c \in adds : req[c].product = p})

(* A line's quantity is the sum of the quantities of the adds merged into  *)
(* the stored cart: however calls interleave, AddItemAsync's addition to   *)
(* an existing line never counts a request twice and never mixes products. *)
QuantityIsMergedSum ==
  \A u \in Users, p \in Products : Quantity(cache[u], p) = Asked(merged[u], p)

(* An AddItem that was acknowledged is missing from the stored cart only   *)
(* if another AddItem of the same user overlapped it, or an EmptyCart of   *)
(* that user did not return before it began: the read-modify-write of      *)
(* AddItemAsync loses updates to overlapping calls and to nothing else.    *)
LossNeedsOverlap ==
  \A c \in Calls :
    (IsAdd(c) /\ pc[c] = "ok" /\ c \notin merged[UserOf(c)])
      => \E d \in Calls \ {c} :
           /\ SameUser(c, d) /\ Started(d)
           /\ \/ IsAdd(d) /\ Overlap(c, d)
              \/ IsEmpty(d) /\ d \notin preceded[c]

(* Once EmptyCart is acknowledged, an item added before it began is in the *)
(* cart again only if some AddItem of that user overlapped the EmptyCart   *)
(* and wrote back the cart it had read.                                    *)
ResurrectionNeedsOverlap ==
  \A d, c \in Calls :
    (IsEmpty(d) /\ pc[d] = "ok" /\ c \in preceded[d]
       /\ c \in merged[UserOf(d)])
      => \E e \in Calls \ {c} : SameUser(d, e) /\ IsAdd(e) /\ Overlap(d, e)

(* To a user who waits for each reply the store keeps ICartStore's         *)
(* contract, whatever the calls of other users overlap with.               *)
Serialized == Store!Spec
=============================================================================
