----------------------- MODULE SpannerCartStore_proofs -----------------------
(* SpannerCartStore implements ICartStore's contract, for every number of  *)
(* users, products and calls.                                              *)
EXTENDS SpannerCartStore, CartCalls_proofs

(* A transaction that is still open and not stale has read the quantity    *)
(* the row holds: what it commits is the row's quantity plus its own.      *)
SeenIsCurrent ==
  \A c \in Calls :
    (IsAdd(c) /\ pc[c] = "write" /\ ~stale[c])
      => seen[c] = QuantityIn(rows[UserOf(c)][req[c].product])

IInv == TypeOK /\ SeenIsCurrent

(* At first there is no row and no transaction.                            *)
LEMMA InitIInv == Init => IInv
<1> SUFFICES ASSUME Init PROVE IInv
  OBVIOUS
<1> USE DEF Init, InitCalls
<1>1. CallsTypeOK
  BY DEF CallsTypeOK, PC
<1>2. TypeOK
  BY <1>1 DEF TypeOK
<1>3. SeenIsCurrent
  BY DEF SeenIsCurrent
<1> QED BY <1>2, <1>3 DEF IInv

(* The step of each action, with the type of what it writes.               *)
LEMMA TypeStep == TypeOK /\ [Next]_vars => TypeOK'
<1> SUFFICES ASSUME TypeOK, [Next]_vars PROVE TypeOK'
  OBVIOUS
<1> USE DEF TypeOK
<1>1. CASE UNCHANGED vars
  BY <1>1 DEF vars, CallsTypeOK
<1>2. ASSUME NEW c \in Calls, BeginCall(c) PROVE TypeOK'
  BY <1>2, BeginTyped DEF BeginCall, storeVars
<1>3. ASSUME NEW c \in Calls, Lookup(c) PROVE TypeOK'
  <2>1. QuantityIn(rows[UserOf(c)][req[c].product]) \in Nat
    BY <1>3, RequestTyped DEF Lookup, QuantityIn
  <2> QED BY <1>3, <2>1, StepTyped DEF Lookup, PC
<1>4. ASSUME NEW c \in Calls, GetCart(c) PROVE TypeOK'
  BY <1>4, StepTyped DEF GetCart, PC, storeVars
<1>5. ASSUME NEW c \in Calls, Commit(c) PROVE TypeOK'
  <2>1. CallsTypeOK'
    BY <1>5, StepTyped DEF Commit, WriteReply, PC
  <2>2. seen[c] + req[c].qty \in Nat
    BY <1>5, RequestTyped DEF Commit
  <2>3. stale' \in [Calls -> BOOLEAN]
    BY <1>5 DEF Commit, Invalidate
  <2> QED BY <1>5, <2>1, <2>2, <2>3, RequestTyped DEF Commit
<1>6. ASSUME NEW c \in Calls, Retry(c) PROVE TypeOK'
  BY <1>6, StepTyped DEF Retry, PC, storeVars
<1>7. ASSUME NEW c \in Calls, Delete(c) PROVE TypeOK'
  <2>1. CallsTypeOK'
    BY <1>7, StepTyped DEF Delete, WriteReply, PC
  <2>2. stale' \in [Calls -> BOOLEAN]
    BY <1>7 DEF Delete, Invalidate
  <2> QED BY <1>7, <2>1, <2>2, RequestTyped DEF Delete
<1>8. ASSUME NEW c \in Calls, Throw(c) PROVE TypeOK'
  BY <1>8, StepTyped DEF Throw, PC, storeVars
<1> QED BY <1>1, <1>2, <1>3, <1>4, <1>5, <1>6, <1>7, <1>8 DEF Next, Progress

(* A row that changes is no longer what an open transaction has seen: the  *)
(* writes of Commit and Delete make each open transaction on it stale.     *)
LEMMA SeenStep == TypeOK /\ SeenIsCurrent /\ [Next]_vars => SeenIsCurrent'
<1> SUFFICES ASSUME TypeOK, SeenIsCurrent, [Next]_vars,
                    NEW d \in Calls,
                    IsAdd(d)', pc'[d] = "write", ~stale'[d]
             PROVE  (seen[d] = QuantityIn(rows[UserOf(d)][req[d].product]))'
  BY DEF SeenIsCurrent
<1> DEFINE Row == rows[UserOf(d)][req[d].product]
<1>0. req' = req
  BY DEF Next, vars, BeginCall, Begin, Progress, Lookup, GetCart, Commit,
         WriteReply, Retry, Delete, Throw, Step
<1>1. IsAdd(d) /\ ~IsEmpty(d) /\ ~IsGet(d)
  BY <1>0, RequestTyped DEF IsAdd, TypeOK
<1>2. UserOf(d) \in Users /\ req[d].product \in Products
  BY <1>1, RequestTyped DEF TypeOK
<1>3. (pc[d] = "write" /\ ~stale[d]) => seen[d] = QuantityIn(Row)
  BY <1>1 DEF SeenIsCurrent
<1>4. SUFFICES seen'[d] = QuantityIn(rows'[UserOf(d)][req[d].product])
  BY <1>0 DEF QuantityIn, UserOf
<1> USE DEF TypeOK, CallsTypeOK
<1>5. CASE UNCHANGED vars
  BY <1>5, <1>3 DEF vars
<1>6. ASSUME NEW c \in Calls, BeginCall(c)
      PROVE  seen'[d] = QuantityIn(rows'[UserOf(d)][req[d].product])
  BY <1>6, <1>1, <1>3 DEF BeginCall, Begin, storeVars
<1>7. ASSUME NEW c \in Calls, Lookup(c)
      PROVE  seen'[d] = QuantityIn(rows'[UserOf(d)][req[d].product])
  BY <1>7, <1>3 DEF Lookup, Step
<1>8. ASSUME NEW c \in Calls, GetCart(c)
      PROVE  seen'[d] = QuantityIn(rows'[UserOf(d)][req[d].product])
  BY <1>8, <1>3 DEF GetCart, Step, storeVars
<1>9. ASSUME NEW c \in Calls, Commit(c)
      PROVE  seen'[d] = QuantityIn(rows'[UserOf(d)][req[d].product])
  <2>1. UserOf(c) \in Users /\ req[c].product \in Products
    BY <1>9, RequestTyped DEF Commit
  <2>2. c # d /\ pc'[d] = pc[d]
    BY <1>9 DEF Commit, WriteReply, Step
  <2>3. <<UserOf(d), req[d].product>> # <<UserOf(c), req[c].product>>
    BY <1>9, <1>1 DEF Commit, Invalidate
  <2>4. rows'[UserOf(d)][req[d].product] = Row
    BY <1>9, <2>1, <2>3, <1>2 DEF Commit
  <2>5. ~stale[d]
    BY <1>9 DEF Commit, Invalidate
  <2> QED BY <1>9, <2>2, <2>4, <2>5, <1>3 DEF Commit
<1>10. ASSUME NEW c \in Calls, Retry(c)
       PROVE  seen'[d] = QuantityIn(rows'[UserOf(d)][req[d].product])
  BY <1>10, <1>3 DEF Retry, Step, storeVars
<1>11. ASSUME NEW c \in Calls, Delete(c)
       PROVE  seen'[d] = QuantityIn(rows'[UserOf(d)][req[d].product])
  <2>1. UserOf(c) \in Users
    BY RequestTyped
  <2>2. UserOf(d) # UserOf(c) /\ ~stale[d]
    BY <1>11, <1>1, <1>2 DEF Delete, Invalidate
  <2>3. c # d /\ pc'[d] = pc[d]
    BY <1>11, <1>1 DEF Delete, WriteReply, Step
  <2>4. rows'[UserOf(d)][req[d].product] = Row
    BY <1>11, <2>1, <2>2, <1>2 DEF Delete
  <2> QED BY <1>11, <2>2, <2>3, <2>4, <1>3 DEF Delete
<1>12. ASSUME NEW c \in Calls, Throw(c)
       PROVE  seen'[d] = QuantityIn(rows'[UserOf(d)][req[d].product])
  BY <1>12, <1>3 DEF Throw, Step, storeVars
<1> QED
  BY <1>5, <1>6, <1>7, <1>8, <1>9, <1>10, <1>11, <1>12 DEF Next, Progress

(* Every action keeps the types and what open transactions have seen.      *)
LEMMA StepIInv == IInv /\ [Next]_vars => IInv'
BY TypeStep, SeenStep DEF IInv

(* IInv holds in every state.                                              *)
LEMMA Invariance == Spec => []IInv
BY InitIInv, StepIInv, PTL DEF Spec

(* Every variable of SpannerCartStore keeps its type: in particular no     *)
(* quantity is ever negative or missing.                                   *)
THEOREM TypeCorrect == Spec => []TypeOK
<1>1. IInv => TypeOK
  BY DEF IInv
<1> QED BY Invariance, <1>1, PTL

-----------------------------------------------------------------------------
(* The cart the contract sees: what GetCartAsync returns.                  *)
CartBar == [u \in Users |-> [p \in Products |-> QuantityIn(rows[u][p])]]

(* No rows are an empty cart.                                              *)
LEMMA InitRefines == Init => Store!Init
BY DEF Init, Store!Init, Store!EmptyItems, QuantityIn

(* A commit is the contract's AddItem, thanks to SeenIsCurrent.            *)
LEMMA CommitRefines ==
  ASSUME IInv, NEW c \in Calls, Commit(c)
  PROVE  Store!AddItem(UserOf(c), req[c].product, req[c].qty)
<1> DEFINE user == UserOf(c)
           product == req[c].product
           qty == req[c].qty
<1>1. user \in Users /\ product \in Products /\ qty \in Nat
  BY RequestTyped DEF Commit, IInv, TypeOK
<1>2. seen[c] = QuantityIn(rows[user][product]) /\ seen[c] \in Nat
  BY DEF Commit, WriteReply, Step, IInv, SeenIsCurrent, TypeOK
<1>3. rows' = [rows EXCEPT ![user][product] = seen[c] + qty]
  BY DEF Commit
<1>4. ASSUME NEW u \in Users, NEW p \in Products
      PROVE  QuantityIn(rows'[u][p])
               = IF u = user /\ p = product THEN QuantityIn(rows[u][p]) + qty
                                            ELSE QuantityIn(rows[u][p])
  BY <1>1, <1>2, <1>3, NoRowAssumption DEF QuantityIn, IInv, TypeOK
<1>5. CartBar' = [CartBar EXCEPT ![user] = Store!Plus(@, product, qty)]
  BY <1>1, <1>4 DEF CartBar, Store!Plus
<1> QED BY <1>5 DEF Store!AddItem, CartBar

(* A DELETE is the contract's EmptyCart.                                   *)
LEMMA DeleteRefines ==
  ASSUME IInv, NEW c \in Calls, Delete(c)
  PROVE  Store!EmptyCart(UserOf(c))
<1>1. UserOf(c) \in Users
  BY RequestTyped DEF IInv, TypeOK
<1>2. CartBar' = [CartBar EXCEPT ![UserOf(c)] = [p \in Products |-> 0]]
  BY <1>1 DEF Delete, CartBar, QuantityIn, IInv, TypeOK
<1> QED BY <1>2 DEF Store!EmptyCart, Store!EmptyItems, CartBar

(* Every step is one of the contract, or a stutter.                        *)
LEMMA NextRefines == IInv /\ [Next]_vars => [Store!Next]_CartBar
<1> SUFFICES ASSUME IInv, [Next]_vars PROVE [Store!Next]_CartBar
  OBVIOUS
<1>1. CASE \E c \in Calls : Commit(c)
  <2>1. PICK c \in Calls : Commit(c)
    BY <1>1
  <2>2. /\ UserOf(c) \in Users /\ req[c].product \in Products
        /\ req[c].qty \in Quantities
    BY <2>1, RequestTyped DEF Commit, IInv, TypeOK
  <2> QED BY <2>1, <2>2, CommitRefines DEF Store!Next
<1>2. CASE \E c \in Calls : Delete(c)
  <2>1. PICK c \in Calls : Delete(c)
    BY <1>2
  <2>2. UserOf(c) \in Users
    BY RequestTyped DEF IInv, TypeOK
  <2> QED BY <2>1, <2>2, DeleteRefines DEF Store!Next
<1>3. CASE rows' = rows
  BY <1>3 DEF CartBar
<1> QED
  BY <1>1, <1>2, <1>3
     DEF Next, vars, storeVars, BeginCall, Progress, Lookup, GetCart, Retry, Throw

(* SpannerCartStore implements the contract of ICartStore, though calls    *)
(* overlap, transactions abort and run again, and accesses fail.           *)
THEOREM AtomicCorrect == Spec => Atomic
<1>1. IInv /\ [Next]_vars => [Store!Next]_CartBar
  BY NextRefines
<1> QED BY Invariance, InitRefines, <1>1, PTL DEF Spec, Atomic, Store!Spec, CartBar
=============================================================================
