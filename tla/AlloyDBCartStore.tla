-------------------------- MODULE AlloyDBCartStore --------------------------
(***************************************************************************)
(* AlloyDBCartStore.cs: one row per user and product, the pair being the   *)
(* table's primary key.  AddItemAsync reads the quantity with a SELECT and *)
(* then, outside any transaction, INSERTs a row with the total.            *)
(***************************************************************************)
EXTENDS CartCalls

CONSTANT NoRow

ASSUME NoRowAssumption == NoRow \notin Nat

VARIABLES rows,   \* the quantity in each row of the cart table, or NoRow
          seen,   \* currentQuantity, as each call has read it
          by      \* history: the calls whose INSERT made the row

storeVars == <<rows, seen, by>>
vars == <<req, pc, preceded, rows, seen, by>>

QuantityIn(row) == IF row = NoRow THEN 0 ELSE row

(* The contract, for the users who wait for each reply.                    *)
Store == INSTANCE CartStore WITH
           Users <- Patient,
           cart <- [u \in Patient |-> [p \in Products |-> QuantityIn(rows[u][p])]]

Init == /\ InitCalls
        /\ rows = [u \in Users |-> [p \in Products |-> NoRow]]
        /\ seen = [c \in Calls |-> 0]
        /\ by = [u \in Users |-> [p \in Products |-> {}]]

BeginCall(c) == Begin(c) /\ UNCHANGED storeVars

RowOf(c) == rows[UserOf(c)][req[c].product]

(* The SELECT of AddItemAsync.                                             *)
Select(c) == /\ IsAdd(c)
             /\ Step(c, "read", "write")
             /\ seen' = [seen EXCEPT ![c] = QuantityIn(RowOf(c))]
             /\ UNCHANGED <<rows, by>>

(* The SELECT of GetCartAsync.                                             *)
GetCart(c) == IsGet(c) /\ Step(c, "read", "ok") /\ UNCHANGED storeVars

WriteReply(c) == \/ Step(c, "write", "ok")
                 \/ StorageFaults /\ Step(c, "write", "failed")

(* Slip: an upsert, with the total that was read outside a transaction.    *)
InsertOrUpdate(c) ==
  /\ IsAdd(c)
  /\ WriteReply(c)
  /\ rows' = [rows EXCEPT ![UserOf(c)][req[c].product] = req[c].qty + seen[c]]
  /\ by' = [by EXCEPT ![UserOf(c)][req[c].product] = @ \cup {c}]
  /\ seen' = seen

(* Slip: the quantity asked for is added twice.                             *)
InsertTwice(c) ==
  /\ IsAdd(c) /\ RowOf(c) = NoRow
  /\ WriteReply(c)
  /\ rows' = [rows EXCEPT ![UserOf(c)][req[c].product] = 2 * req[c].qty]
  /\ by' = [by EXCEPT ![UserOf(c)][req[c].product] = @ \cup {c}]
  /\ seen' = seen

(* The INSERT, where the key is free.                                      *)
Insert(c) == /\ IsAdd(c) /\ RowOf(c) = NoRow
             /\ WriteReply(c)
             /\ rows' = [rows EXCEPT ![UserOf(c)][req[c].product] =
                                       req[c].qty + seen[c]]
             /\ by' = [by EXCEPT ![UserOf(c)][req[c].product] = @ \cup {c}]
             /\ seen' = seen

(* Slip: ON CONFLICT DO NOTHING.                                           *)
InsertIgnored(c) == /\ IsAdd(c) /\ RowOf(c) # NoRow
                    /\ Step(c, "write", "ok")
                    /\ UNCHANGED storeVars

(* The INSERT, where it violates the primary key and throws.               *)
InsertDuplicate(c) == /\ IsAdd(c) /\ RowOf(c) # NoRow
                      /\ Step(c, "write", "failed")
                      /\ UNCHANGED storeVars

(* Slip: the DELETE takes the quantities for the key.                      *)
DeleteUser(c) == /\ IsEmpty(c)
                 /\ WriteReply(c)
                 /\ rows' = [rows EXCEPT ![UserOf(c)] = NoRow]
                 /\ UNCHANGED <<seen, by>>

(* The DELETE of EmptyCartAsync.                                           *)
Delete(c) == /\ IsEmpty(c)
             /\ WriteReply(c)
             /\ rows' = [rows EXCEPT ![UserOf(c)] = [p \in Products |-> NoRow]]
             /\ by' = [by EXCEPT ![UserOf(c)] = [p \in Products |-> {}]]
             /\ seen' = seen

Throw(c) == /\ StorageFaults
            /\ Step(c, "read", "failed") \/ Step(c, "write", "failed")
            /\ UNCHANGED storeVars

Next == \E c \in Calls : \/ BeginCall(c)
                         \/ Select(c)
                         \/ GetCart(c)
                         \/ Insert(c)
                         \/ InsertDuplicate(c)
                         \/ Delete(c)
                         \/ Throw(c)

Spec == Init /\ [][Next]_vars

-----------------------------------------------------------------------------
(* Every variable holds a value of its type.                               *)
TypeOK == /\ CallsTypeOK
          /\ rows \in [Users -> [Products -> Nat \cup {NoRow}]]
          /\ seen \in [Calls -> Nat]
          /\ by \in [Users -> [Products -> SUBSET Calls]]

(* An acknowledged AddItem stays in the table until an EmptyCart that did  *)
(* not return before it began: unlike the Redis store, overlapping adds    *)
(* never overwrite each other, because the second INSERT throws.           *)
LossNeedsEmptyCart ==
  \A c \in Calls :
    (IsAdd(c) /\ pc[c] = "ok")
      => \/ c \in by[UserOf(c)][req[c].product]
         \/ \E d \in Calls : /\ SameUser(c, d) /\ Started(d)
                             /\ IsEmpty(d) /\ d \notin preceded[c]

(* A row holds more than its INSERT was asked for only if an EmptyCart     *)
(* overlapped that call: it deleted the row between SELECT and INSERT, and *)
(* the deleted quantity came back.                                         *)
InflationNeedsOverlap ==
  \A c \in Calls :
    (IsAdd(c) /\ c \in by[UserOf(c)][req[c].product] /\ RowOf(c) # req[c].qty)
      => \E d \in Calls : SameUser(c, d) /\ IsEmpty(d) /\ Overlap(c, d)

(* Every call of a user who waits for each reply that changes the table    *)
(* does what ICartStore's contract says (a call that throws may do nothing).*)
Serialized == Store!Spec

(* What CartServiceTests.AddItem_ItemExists_Updated expects: while the     *)
(* storage works and the user waits for each reply, no call fails.         *)
CallsSucceed == \A c \in Calls : pc[c] # "failed"
=============================================================================
