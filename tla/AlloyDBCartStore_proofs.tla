----------------------- MODULE AlloyDBCartStore_proofs -----------------------
(* What AlloyDBCartStore loses and what comes back, for every number of    *)
(* users, products and calls.                                              *)
EXTENDS AlloyDBCartStore, CartCalls_proofs

(* A row that does not exist was made by nobody.                           *)
NoRowNoInsert == \A u \in Users, p \in Products :
                   rows[u][p] = NoRow => by[u][p] = {}

(* A quantity that was read and is no longer in the table was deleted by   *)
(* an EmptyCart that overlaps the call that read it.                       *)
SeenOrDeleted ==
  \A c \in Calls :
    (IsAdd(c) /\ pc[c] = "write" /\ seen[c] # 0)
      => \/ RowOf(c) # NoRow
         \/ \E d \in Calls : SameUser(c, d) /\ IsEmpty(d) /\ Overlap(c, d)

IInv == /\ TypeOK
        /\ CallsInv
        /\ NoRowNoInsert
        /\ SeenOrDeleted
        /\ LossNeedsEmptyCart
        /\ InflationNeedsOverlap

(* At first there is no row and no call in flight.                         *)
LEMMA InitIInv == Init => IInv
<1> SUFFICES ASSUME Init PROVE IInv
  OBVIOUS
<1>1. CallsInv
  BY InitCallsInv DEF Init
<1>2. TypeOK
  BY <1>1 DEF Init, TypeOK, CallsInv
<1>3. \A c \in Calls : pc[c] = "new"
  BY DEF Init, InitCalls
<1>4. SeenOrDeleted /\ LossNeedsEmptyCart
  BY <1>3 DEF SeenOrDeleted, LossNeedsEmptyCart
<1>5. NoRowNoInsert
  BY DEF Init, NoRowNoInsert
<1>6. InflationNeedsOverlap
  BY <1>2, RequestTyped DEF InflationNeedsOverlap, Init, TypeOK
<1> QED BY <1>1, <1>2, <1>4, <1>5, <1>6 DEF IInv

(* A step of the store is a step of one call, or of none.                  *)
LEMMA NextMoves == [Next]_vars => Moves \/ UNCHANGED callVars
BY DEF Next, vars, callVars, Moves, PC, BeginCall, Select, GetCart, Insert,
       InsertDuplicate, WriteReply, Delete, Throw

(* Every action keeps the types.                                           *)
LEMMA TypeStep == TypeOK /\ CallsTypeOK' /\ [Next]_vars => TypeOK'
<1> SUFFICES ASSUME TypeOK, CallsTypeOK', [Next]_vars PROVE TypeOK'
  OBVIOUS
<1> USE DEF TypeOK
<1>1. CASE UNCHANGED storeVars
  BY <1>1 DEF storeVars
<1>2. ASSUME NEW c \in Calls, Select(c) PROVE TypeOK'
  <2>1. QuantityIn(RowOf(c)) \in Nat
    BY <1>2, RequestTyped DEF Select, QuantityIn, RowOf
  <2> QED BY <1>2, <2>1 DEF Select
<1>3. ASSUME NEW c \in Calls, Insert(c) PROVE TypeOK'
  <2>1. req[c].qty + seen[c] \in Nat
    BY <1>3, RequestTyped DEF Insert
  <2> QED BY <1>3, <2>1, RequestTyped DEF Insert
<1>4. ASSUME NEW c \in Calls, Delete(c) PROVE TypeOK'
  BY <1>4, RequestTyped DEF Delete
<1> QED BY <1>1, <1>2, <1>3, <1>4
        DEF Next, vars, storeVars, BeginCall, GetCart, InsertDuplicate, Throw

(* How an INSERT changes the table: one row, which did not exist.          *)
LEMMA InsertEffect ==
  ASSUME TypeOK, NEW c \in Calls, Insert(c)
  PROVE  /\ UserOf(c) \in Users /\ req[c].product \in Products
         /\ rows'[UserOf(c)][req[c].product] = req[c].qty + seen[c]
         /\ by'[UserOf(c)][req[c].product] = by[UserOf(c)][req[c].product] \cup {c}
         /\ \A u \in Users, p \in Products :
              <<u, p>> # <<UserOf(c), req[c].product>>
                => rows'[u][p] = rows[u][p] /\ by'[u][p] = by[u][p]
BY RequestTyped DEF TypeOK, Insert

(* How a DELETE changes it: every row of the user, and no other.           *)
LEMMA DeleteEffect ==
  ASSUME TypeOK, NEW c \in Calls, Delete(c)
  PROVE  /\ UserOf(c) \in Users
         /\ \A u \in Users, p \in Products :
              IF u = UserOf(c)
              THEN rows'[u][p] = NoRow /\ by'[u][p] = {}
              ELSE rows'[u][p] = rows[u][p] /\ by'[u][p] = by[u][p]
BY RequestTyped DEF TypeOK, Delete

(* A row that does not exist was inserted by nobody.                       *)
LEMMA NoRowStep == TypeOK /\ NoRowNoInsert /\ [Next]_vars => NoRowNoInsert'
<1> SUFFICES ASSUME TypeOK, NoRowNoInsert, [Next]_vars,
                    NEW u \in Users, NEW p \in Products, rows'[u][p] = NoRow
             PROVE  by'[u][p] = {}
  BY DEF NoRowNoInsert
<1>1. CASE UNCHANGED <<rows, by>>
  BY <1>1 DEF NoRowNoInsert
<1>2. ASSUME NEW c \in Calls, Insert(c) PROVE by'[u][p] = {}
  <2>1. req[c].qty + seen[c] # NoRow
    BY <1>2, RequestTyped, NoRowAssumption DEF Insert, TypeOK
  <2>2. <<u, p>> # <<UserOf(c), req[c].product>>
    BY <1>2, <2>1, InsertEffect
  <2> QED BY <1>2, <2>2, InsertEffect DEF NoRowNoInsert
<1>3. ASSUME NEW c \in Calls, Delete(c) PROVE by'[u][p] = {}
  BY <1>3, DeleteEffect DEF NoRowNoInsert
<1> QED BY <1>1, <1>2, <1>3
        DEF Next, vars, storeVars, BeginCall, Select, GetCart, InsertDuplicate, Throw

(* A DELETE overlaps every call of its user that is in flight.             *)
LEMMA DeleteOverlaps ==
  ASSUME TypeOK, CallsInv, NEW c \in Calls, NEW d \in Calls,
         Delete(d), InFlight(c)
  PROVE  IsEmpty(d) /\ Overlap(c, d)
<1>1. InFlight(d)
  BY DEF Delete, WriteReply, Step, InFlight, Started, Returned
<1> QED BY <1>1, InFlightOverlap DEF Delete

(* What was read is in the row until an EmptyCart deletes it.              *)
LEMMA SeenStep ==
  ASSUME TypeOK, CallsInv, SeenOrDeleted, [Next]_vars
  PROVE  SeenOrDeleted'
<1> SUFFICES ASSUME NEW c \in Calls,
                    IsAdd(c)', pc'[c] = "write", seen'[c] # 0,
                    rows'[UserOf(c)][req[c].product] = NoRow
             PROVE  \E d \in Calls : SameUser(c, d) /\ IsEmpty(d) /\ Overlap(c, d)'
  BY NextMoves, MovesKeep DEF SeenOrDeleted, RowOf, SameUser, UserOf, IsEmpty
<1>1. /\ IsAdd(c) /\ ~IsEmpty(c) /\ ~IsGet(c)
      /\ UserOf(c) \in Users /\ req[c].product \in Products
  BY NextMoves, MovesKeep, RequestTyped DEF IsAdd, TypeOK
<1>2. CASE ~(pc[c] = "write" /\ seen[c] # 0)
  <2>1. Select(c)
    BY <1>1, <1>2 DEF Next, vars, BeginCall, Begin, storeVars, Select, GetCart,
                      Insert, InsertDuplicate, WriteReply, Delete, Throw, Step,
                      TypeOK, CallsTypeOK
  <2>2. seen'[c] = QuantityIn(RowOf(c)) /\ rows' = rows
    BY <2>1 DEF Select, TypeOK
  <2> QED BY <2>2 DEF QuantityIn, RowOf
<1>3. CASE pc[c] = "write" /\ seen[c] # 0 /\ RowOf(c) = NoRow
  BY <1>1, <1>3, NextMoves, MovesKeep DEF SeenOrDeleted
<1>4. CASE pc[c] = "write" /\ RowOf(c) # NoRow
  <2>1. PICK d \in Calls : Delete(d) /\ UserOf(d) = UserOf(c)
    <3>1. rows' # rows
      BY <1>4 DEF RowOf
    <3>2. ASSUME NEW d \in Calls, Insert(d) PROVE FALSE
      <4>1. req[d].qty + seen[d] # NoRow
        BY <3>2, RequestTyped, NoRowAssumption DEF Insert, TypeOK
      <4> QED BY <1>1, <1>4, <3>2, <4>1, InsertEffect DEF RowOf
    <3>3. ASSUME NEW d \in Calls, Delete(d) PROVE UserOf(d) = UserOf(c)
      BY <1>1, <1>4, <3>3, DeleteEffect DEF RowOf
    <3> QED BY <3>1, <3>2, <3>3
            DEF Next, vars, storeVars, BeginCall, Select, GetCart,
                InsertDuplicate, Throw
  <2>2. InFlight(c)
    BY <1>4 DEF InFlight, Started, Returned
  <2> QED BY <2>1, <2>2, DeleteOverlaps, NextMoves, MovesKeep DEF SameUser
<1> QED BY <1>2, <1>3, <1>4

(* An INSERT adds to what is there, so nothing is overwritten.             *)
LEMMA LossStep ==
  ASSUME TypeOK, CallsInv, LossNeedsEmptyCart, [Next]_vars
  PROVE  LossNeedsEmptyCart'
<1> SUFFICES ASSUME NEW c \in Calls,
                    IsAdd(c)', pc'[c] = "ok",
                    c \notin by'[UserOf(c)][req[c].product]
             PROVE  \E d \in Calls : /\ SameUser(c, d) /\ Started(d)'
                                     /\ IsEmpty(d) /\ d \notin preceded'[c]
  BY NextMoves, MovesKeep DEF LossNeedsEmptyCart, SameUser, UserOf, IsEmpty
<1>1. /\ IsAdd(c) /\ ~IsEmpty(c) /\ ~IsGet(c)
      /\ UserOf(c) \in Users /\ req[c].product \in Products
  BY NextMoves, MovesKeep, RequestTyped DEF IsAdd, TypeOK
<1>2. CASE pc[c] # "ok"
  <2>1. Insert(c)
    BY <1>1, <1>2 DEF Next, vars, BeginCall, Begin, storeVars, Select, GetCart,
                      Insert, InsertDuplicate, WriteReply, Delete, Throw, Step,
                      TypeOK, CallsTypeOK
  <2> QED BY <2>1, InsertEffect
<1>3. CASE pc[c] = "ok" /\ c \notin by[UserOf(c)][req[c].product]
  BY <1>1, <1>3, NextMoves, MovesKeep DEF LossNeedsEmptyCart, Started
<1>4. CASE pc[c] = "ok" /\ c \in by[UserOf(c)][req[c].product]
  <2>1. PICK d \in Calls : Delete(d) /\ UserOf(d) = UserOf(c)
    <3>1. by' # by
      BY <1>4
    <3>2. ASSUME NEW d \in Calls, Insert(d) PROVE FALSE
      BY <1>1, <1>4, <3>2, InsertEffect
    <3>3. ASSUME NEW d \in Calls, Delete(d) PROVE UserOf(d) = UserOf(c)
      BY <1>1, <1>4, <3>3, DeleteEffect
    <3> QED BY <3>1, <3>2, <3>3
            DEF Next, vars, storeVars, BeginCall, Select, GetCart,
                InsertDuplicate, Throw
  <2>2. pc[d] = "write" /\ IsEmpty(d)
    BY <2>1 DEF Delete, WriteReply, Step
  <2>3. d \notin preceded[c] /\ Started(d)
    BY <2>2 DEF CallsInv, PrecededReturned, Returned, Started
  <2>4. preceded'[c] = preceded[c] /\ Started(d)'
    BY <1>4, <2>3, NextMoves, MovesKeep DEF Started
  <2> QED BY <2>1, <2>2, <2>3, <2>4 DEF SameUser
<1> QED BY <1>2, <1>3, <1>4

(* Only an EmptyCart between SELECT and INSERT inflates a row.             *)
LEMMA InflationStep ==
  ASSUME IInv, [Next]_vars
  PROVE  InflationNeedsOverlap'
<1> USE DEF IInv
<1> SUFFICES ASSUME NEW c \in Calls,
                    IsAdd(c)', c \in by'[UserOf(c)][req[c].product],
                    rows'[UserOf(c)][req[c].product] # req[c].qty
             PROVE  \E d \in Calls : SameUser(c, d) /\ IsEmpty(d) /\ Overlap(c, d)'
  BY NextMoves, MovesKeep
     DEF InflationNeedsOverlap, RowOf, SameUser, UserOf, IsEmpty
<1> DEFINE u == UserOf(c)
           p == req[c].product
<1>1. IsAdd(c) /\ u \in Users /\ p \in Products /\ req[c].qty \in Nat
  BY NextMoves, MovesKeep, RequestTyped DEF IsAdd, TypeOK
<1>2. SUFFICES \E d \in Calls : SameUser(c, d) /\ IsEmpty(d) /\ Overlap(c, d)
  BY NextMoves, MovesKeep
<1>3. CASE rows'[u][p] = rows[u][p] /\ c \in by[u][p]
  BY <1>1, <1>3 DEF InflationNeedsOverlap, RowOf
<1>4. CASE UNCHANGED <<rows, by>>
  BY <1>3, <1>4
<1>5. ASSUME NEW d \in Calls, Delete(d)
      PROVE  \E e \in Calls : SameUser(c, e) /\ IsEmpty(e) /\ Overlap(c, e)
  BY <1>1, <1>3, <1>5, DeleteEffect
<1>6. ASSUME NEW d \in Calls, Insert(d), d # c
      PROVE  \E e \in Calls : SameUser(c, e) /\ IsEmpty(e) /\ Overlap(c, e)
  <2>1. RowOf(d) = NoRow /\ by[UserOf(d)][req[d].product] = {}
    BY <1>6, InsertEffect DEF Insert, RowOf, NoRowNoInsert
  <2>2. <<u, p>> # <<UserOf(d), req[d].product>>
    BY <1>6, <2>1, InsertEffect
  <2> QED BY <1>1, <1>3, <1>6, <2>2, InsertEffect
<1>7. CASE Insert(c)
  <2>1. RowOf(c) = NoRow /\ pc[c] = "write"
    BY <1>7 DEF Insert, WriteReply, Step
  <2>2. req[c].qty + seen[c] # req[c].qty
    BY <1>7, InsertEffect
  <2>3. seen[c] # 0
    BY <1>1, <2>2
  <2> QED BY <1>1, <2>1, <2>3 DEF SeenOrDeleted
<1> QED BY <1>4, <1>5, <1>6, <1>7
        DEF Next, vars, storeVars, BeginCall, Select, GetCart, InsertDuplicate, Throw

(* All conjuncts together.                                                 *)
LEMMA StepIInv == IInv /\ [Next]_vars => IInv'
<1> SUFFICES ASSUME IInv, [Next]_vars PROVE IInv'
  OBVIOUS
<1>1. CallsInv' /\ CallsTypeOK'
  BY NextMoves, MovesKeep DEF IInv, CallsInv
<1> QED BY <1>1, TypeStep, NoRowStep, SeenStep, LossStep, InflationStep DEF IInv

(* IInv holds in every state.                                              *)
LEMMA Invariance == Spec => []IInv
BY InitIInv, StepIInv, PTL DEF Spec

(* Every variable of AlloyDBCartStore keeps its type.                      *)
THEOREM TypeCorrect == Spec => []TypeOK
<1>1. IInv => TypeOK
  BY DEF IInv
<1> QED BY Invariance, <1>1, PTL

(* An acknowledged AddItem disappears from the table only through an       *)
(* EmptyCart of its user that had not returned before it began.            *)
THEOREM LossCorrect == Spec => []LossNeedsEmptyCart
<1>1. IInv => LossNeedsEmptyCart
  BY DEF IInv
<1> QED BY Invariance, <1>1, PTL

(* A row that holds more than was asked for comes from an EmptyCart between *)
(* the SELECT and the INSERT of the call that made it.                     *)
THEOREM InflationCorrect == Spec => []InflationNeedsOverlap
<1>1. IInv => InflationNeedsOverlap
  BY DEF IInv
<1> QED BY Invariance, <1>1, PTL

-----------------------------------------------------------------------------
(* While a user waits for each reply, nothing changes between the SELECT   *)
(* and the INSERT.                                                         *)
SeenIsCurrent ==
  \A c \in Calls :
    (UserOf(c) \in Patient /\ IsAdd(c) /\ pc[c] = "write")
      => seen[c] = QuantityIn(RowOf(c))

SInv == TypeOK /\ CallsInv /\ SeenIsCurrent

(* With nobody else in flight, what was seen is what is stored.            *)
LEMMA CurrentStep == SInv /\ [Next]_vars => SeenIsCurrent'
<1> SUFFICES ASSUME SInv, [Next]_vars, NEW c \in Calls,
                    UserOf(c)' \in Patient, IsAdd(c)', pc'[c] = "write"
             PROVE  seen'[c] = QuantityIn(rows'[UserOf(c)][req[c].product])
  BY NextMoves, MovesKeep DEF SInv, SeenIsCurrent, RowOf, QuantityIn, UserOf
<1> USE DEF SInv
<1>1. /\ IsAdd(c) /\ ~IsEmpty(c) /\ ~IsGet(c)
      /\ UserOf(c) \in Users /\ req[c].product \in Products
      /\ UserOf(c) \in Patient
  BY NextMoves, MovesKeep, RequestTyped DEF IsAdd, UserOf, TypeOK
<1>2. CASE pc[c] # "write"
  <2>1. Select(c)
    BY <1>1, <1>2 DEF Next, vars, BeginCall, Begin, storeVars, Select, GetCart,
                      Insert, InsertDuplicate, WriteReply, Delete, Throw, Step,
                      TypeOK, CallsTypeOK
  <2> QED BY <2>1 DEF Select, RowOf, TypeOK
<1>3. CASE pc[c] = "write"
  <2>1. seen[c] = QuantityIn(RowOf(c))
    BY <1>1, <1>3 DEF SeenIsCurrent
  <2>2. CASE UNCHANGED <<rows, seen>>
    BY <2>1, <2>2 DEF RowOf, UserOf, QuantityIn
  <2>3. ASSUME NEW d \in Calls, Insert(d) \/ Delete(d)
        PROVE  seen'[c] = QuantityIn(rows'[UserOf(c)][req[c].product])
    <3>1. pc[d] = "write" /\ pc'[d] # "write" /\ seen' = seen
      BY <2>3 DEF Insert, Delete, WriteReply, Step, TypeOK, CallsTypeOK
    <3>2. UserOf(d) # UserOf(c)
      BY <1>1, <1>3, <3>1 DEF CallsInv, Alone, InFlight, Started, Returned, SameUser
    <3>3. rows'[UserOf(c)][req[c].product] = RowOf(c)
      BY <1>1, <2>3, <3>2, InsertEffect, DeleteEffect DEF RowOf
    <3> QED BY <2>1, <3>1, <3>3
  <2>4. ASSUME NEW d \in Calls, Select(d)
        PROVE  seen'[c] = QuantityIn(rows'[UserOf(c)][req[c].product])
    BY <1>3, <2>1, <2>4 DEF Select, Step, RowOf, TypeOK, CallsTypeOK
  <2> QED BY <2>2, <2>3, <2>4
          DEF Next, vars, storeVars, BeginCall, GetCart, InsertDuplicate, Throw
<1> QED BY <1>2, <1>3

(* SInv holds in every state.                                              *)
LEMMA SerialInvariance == Spec => []SInv
<1>1. Init => SInv
  BY InitIInv DEF IInv, SInv, SeenIsCurrent, Init, InitCalls
<1>2. SInv /\ [Next]_vars => SInv'
  BY NextMoves, MovesKeep, TypeStep, CurrentStep DEF SInv, CallsInv
<1> QED BY <1>1, <1>2, PTL DEF Spec

(* The cart the contract sees: what GetCartAsync returns.                  *)
CartBar == [u \in Patient |-> [p \in Products |-> QuantityIn(rows[u][p])]]

(* An INSERT is the contract's AddItem.                                    *)
LEMMA InsertRefines ==
  ASSUME SInv, NEW c \in Calls, Insert(c), UserOf(c) \in Patient
  PROVE  Store!AddItem(UserOf(c), req[c].product, req[c].qty)
<1> DEFINE user == UserOf(c)
           product == req[c].product
           qty == req[c].qty
<1>1. user \in Users /\ product \in Products /\ qty \in Nat
  BY RequestTyped DEF Insert, SInv, TypeOK
<1>2. rows[user][product] = NoRow
  BY DEF Insert, RowOf
<1>3. rows'[user][product] = qty
  <2>1. seen[c] = 0
    BY <1>2 DEF Insert, WriteReply, Step, SInv, SeenIsCurrent, RowOf, QuantityIn
  <2>2. rows'[user][product] = qty + seen[c]
    BY InsertEffect DEF SInv
  <2> QED BY <1>1, <2>1, <2>2
<1>4. ASSUME NEW u \in Patient, NEW p \in Products
      PROVE  QuantityIn(rows'[u][p])
               = IF u = user /\ p = product THEN QuantityIn(rows[u][p]) + qty
                                            ELSE QuantityIn(rows[u][p])
  BY <1>1, <1>2, <1>3, InsertEffect, NoRowAssumption, CallsAssumption
     DEF QuantityIn, SInv
<1>5. CartBar' = [CartBar EXCEPT ![user] = Store!Plus(@, product, qty)]
  BY <1>1, <1>4 DEF CartBar, Store!Plus
<1> QED BY <1>5 DEF Store!AddItem, CartBar

(* A DELETE is the contract's EmptyCart.                                   *)
LEMMA DeleteRefines ==
  ASSUME TypeOK, NEW c \in Calls, Delete(c), UserOf(c) \in Patient
  PROVE  Store!EmptyCart(UserOf(c))
<1>1. UserOf(c) \in Users
  BY DeleteEffect
<1>2. CartBar' = [CartBar EXCEPT ![UserOf(c)] = [p \in Products |-> 0]]
  BY <1>1, CallsAssumption DEF Delete, CartBar, QuantityIn, TypeOK
<1> QED BY <1>2 DEF Store!EmptyCart, Store!EmptyItems, CartBar

(* Every step is one of the contract, or a stutter.                        *)
LEMMA NextRefines == SInv /\ [Next]_vars => [Store!Next]_CartBar
<1> SUFFICES ASSUME SInv, [Next]_vars PROVE [Store!Next]_CartBar
  OBVIOUS
<1>1. ASSUME NEW c \in Calls, Insert(c), UserOf(c) \in Patient PROVE Store!Next
  BY <1>1, RequestTyped, InsertRefines DEF Store!Next, Insert, SInv, TypeOK
<1>2. ASSUME NEW c \in Calls, Delete(c), UserOf(c) \in Patient PROVE Store!Next
  BY <1>2, RequestTyped, DeleteRefines DEF Store!Next, SInv, TypeOK
<1>3. ASSUME NEW c \in Calls, Insert(c) \/ Delete(c), UserOf(c) \notin Patient
      PROVE  CartBar' = CartBar
  <2>1. \A u \in Patient : rows'[u] = rows[u]
    BY <1>3, CallsAssumption DEF Insert, Delete, SInv, TypeOK
  <2> QED BY <2>1 DEF CartBar
<1>4. CASE rows' = rows
  BY <1>4 DEF CartBar
<1> QED
  BY <1>1, <1>2, <1>3, <1>4 DEF Next, vars, storeVars, BeginCall, Select, GetCart,
                          InsertDuplicate, Throw

(* For the users who wait for each reply AlloyDBCartStore changes its      *)
(* table only as ICartStore's contract allows.                             *)
THEOREM SerializedCorrect == Spec => Serialized
<1>1. Init => Store!Init
  BY CallsAssumption DEF Init, Store!Init, Store!EmptyItems, QuantityIn
<1>2. SInv /\ [Next]_vars => [Store!Next]_CartBar
  BY NextRefines
<1> QED BY SerialInvariance, <1>1, <1>2, PTL DEF Spec, Serialized, Store!Spec, CartBar
=============================================================================
