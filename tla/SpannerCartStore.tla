-------------------------- MODULE SpannerCartStore --------------------------
(***************************************************************************)
(* SpannerCartStore.cs: one row per user and product.  AddItemAsync looks  *)
(* the row up and inserts or updates it inside one transaction, which      *)
(* RunWithRetriableTransactionAsync runs again when Spanner aborts it.     *)
(***************************************************************************)
EXTENDS CartCalls

CONSTANT NoRow

ASSUME NoRowAssumption == NoRow \notin Nat

VARIABLES rows,   \* the quantity in each row of CartItems, or NoRow
          seen,   \* currentQuantity, as each transaction has read it
          stale   \* a row the transaction read was written since

storeVars == <<rows, seen, stale>>
vars == <<req, pc, preceded, rows, seen, stale>>

QuantityIn(row) == IF row = NoRow THEN 0 ELSE row

Store == INSTANCE CartStore WITH
           cart <- [u \in Users |-> [p \in Products |-> QuantityIn(rows[u][p])]]

Init == /\ InitCalls
        /\ rows = [u \in Users |-> [p \in Products |-> NoRow]]
        /\ seen = [c \in Calls |-> 0]
        /\ stale = [c \in Calls |-> FALSE]

BeginCall(c) == Begin(c) /\ UNCHANGED storeVars

(* Slip: a transaction that runs again keeps its old snapshot.             *)
LookupOnOldSnapshot(c) == /\ IsAdd(c)
                          /\ Step(c, "read", "write")
                          /\ UNCHANGED storeVars

(* The SELECT of AddItemAsync.                                             *)
Lookup(c) == /\ IsAdd(c)
             /\ Step(c, "read", "write")
             /\ seen' = [seen EXCEPT ![c] =
                           QuantityIn(rows[UserOf(c)][req[c].product])]
             /\ stale' = [stale EXCEPT ![c] = FALSE]
             /\ rows' = rows

(* The SELECT of GetCartAsync.                                             *)
GetCart(c) == IsGet(c) /\ Step(c, "read", "ok") /\ UNCHANGED storeVars

(* Spanner's part: the open transactions that read a row of W are stale.   *)
Invalidate(W) ==
  stale' = [c \in Calls |->
              \/ stale[c]
              \/ /\ IsAdd(c) /\ pc'[c] = "write"
                 /\ <<UserOf(c), req[c].product>> \in W]

WriteReply(c) == \/ Step(c, "write", "ok")
                 \/ StorageFaults /\ Step(c, "write", "failed")

(* Slip: the read and the write are not in one transaction.                *)
CommitUnchecked(c) ==
  /\ IsAdd(c)
  /\ WriteReply(c)
  /\ rows' = [rows EXCEPT ![UserOf(c)][req[c].product] = seen[c] + req[c].qty]
  /\ UNCHANGED <<seen, stale>>

(* The InsertOrUpdate and the commit.  A commit whose acknowledgement is   *)
(* lost is applied and throws.                                             *)
Commit(c) == /\ IsAdd(c) /\ ~stale[c]
             /\ WriteReply(c)
             /\ rows' = [rows EXCEPT ![UserOf(c)][req[c].product] =
                                       seen[c] + req[c].qty]
             /\ Invalidate({<<UserOf(c), req[c].product>>})
             /\ seen' = seen

(* A stale transaction is aborted and its delegate runs again.             *)
Retry(c) == /\ IsAdd(c) /\ stale[c]
            /\ Step(c, "write", "read")
            /\ UNCHANGED storeVars

(* Slip: the DELETE takes the quantities for the key.                      *)
DeleteUser(c) == /\ IsEmpty(c)
                 /\ WriteReply(c)
                 /\ rows' = [rows EXCEPT ![UserOf(c)] = NoRow]
                 /\ UNCHANGED <<seen, stale>>

(* The DELETE of EmptyCartAsync.                                           *)
Delete(c) == /\ IsEmpty(c)
             /\ WriteReply(c)
             /\ rows' = [rows EXCEPT ![UserOf(c)] = [p \in Products |-> NoRow]]
             /\ Invalidate({UserOf(c)} \X Products)
             /\ seen' = seen

Throw(c) == /\ StorageFaults
            /\ Step(c, "read", "failed") \/ Step(c, "write", "failed")
            /\ UNCHANGED storeVars

Progress(c) == \/ Lookup(c)
               \/ GetCart(c)
               \/ Commit(c)
               \/ Retry(c)
               \/ Delete(c)

Next == \E c \in Calls : BeginCall(c) \/ Progress(c) \/ Throw(c)

(* Each await of a call completes in the end.                              *)
Fairness == \A c \in Calls : WF_vars(Progress(c))

Spec == Init /\ [][Next]_vars

FairSpec == Spec /\ Fairness

-----------------------------------------------------------------------------
(* Every variable holds a value of its type.                               *)
TypeOK == /\ CallsTypeOK
          /\ rows \in [Users -> [Products -> Nat \cup {NoRow}]]
          /\ seen \in [Calls -> Nat]
          /\ stale \in [Calls -> BOOLEAN]

(* However calls overlap, abort and run again, AddItemAsync and            *)
(* EmptyCartAsync take effect at one instant: the store keeps ICartStore's *)
(* contract.                                                               *)
Atomic == Store!Spec

(* Retrying ends: a transaction is aborted only because another one        *)
(* committed, so every call returns.                                       *)
EveryCallReturns == \A c \in Calls : Started(c) ~> Returned(c)
=============================================================================
