------------------------ MODULE RedisCartStore_proofs ------------------------
(* What RedisCartStore loses and what comes back, for every number of      *)
(* users, products and calls.                                              *)
EXTENDS RedisCartStore, CartCalls_proofs, FiniteSetTheorems, WellFoundedInduction

(* The excuse of an acknowledged add that is missing from the cart.        *)
LostTo(c) == \E d \in Calls \ {c} :
               /\ SameUser(c, d) /\ Started(d)
               /\ \/ IsAdd(d) /\ Overlap(c, d)
                  \/ IsEmpty(d) /\ d \notin preceded[c]

(* The excuse of an add that c preceded d's EmptyCart and is back.         *)
BroughtBack(c, d) ==
  \E e \in Calls \ {c} : SameUser(d, e) /\ IsAdd(e) /\ Overlap(d, e)

(* GetCart does not write and EmptyCart does not read.                     *)
OnPath == \A c \in Calls : /\ pc[c] = "write" => ~IsGet(c)
                           /\ pc[c] = "read" => ~IsEmpty(c)

(* The cart an AddItem is about to write lacks an acknowledged add, or     *)
(* holds one from before an EmptyCart, for the same reasons as the stored  *)
(* cart may.                                                               *)
WriterLoss ==
  \A c, d \in Calls :
    (/\ IsAdd(c) /\ pc[c] = "ok"
     /\ IsAdd(d) /\ pc[d] = "write" /\ SameUser(c, d)
     /\ c \notin seenMerged[d])
      => LostTo(c)

WriterResurrection ==
  \A c, d, e \in Calls :
    (/\ IsEmpty(d) /\ pc[d] = "ok" /\ c \in preceded[d]
     /\ IsAdd(e) /\ pc[e] = "write" /\ SameUser(d, e)
     /\ c \in seenMerged[e])
      => BroughtBack(c, d)

IInv == /\ TypeOK
        /\ CallsInv
        /\ OnPath
        /\ LossNeedsOverlap /\ WriterLoss
        /\ ResurrectionNeedsOverlap /\ WriterResurrection

(* At first no cart is stored and no call in flight.                       *)
LEMMA InitIInv == Init => IInv
<1> SUFFICES ASSUME Init PROVE IInv
  OBVIOUS
<1>1. CallsInv
  BY InitCallsInv DEF Init
<1>2. TypeOK
  BY <1>1 DEF Init, TypeOK, CallsInv
<1>3. \A c \in Calls : pc[c] = "new"
  BY DEF Init, InitCalls
<1>4. LossNeedsOverlap /\ ResurrectionNeedsOverlap
  BY <1>3 DEF LossNeedsOverlap, ResurrectionNeedsOverlap
<1>5. OnPath /\ WriterLoss /\ WriterResurrection
  BY <1>3 DEF OnPath, WriterLoss, WriterResurrection
<1> QED BY <1>1, <1>2, <1>4, <1>5 DEF IInv

(* A step of the store is a step of one call, or of none.                  *)
LEMMA NextMoves == [Next]_vars => Moves \/ UNCHANGED callVars
BY DEF Next, vars, callVars, Moves, PC, BeginCall, GetAsync, SetAsync, Throw

(* What a call writes is a cart.                                           *)
LEMMA WrittenTyped ==
  ASSUME TypeOK, NEW c \in Calls
  PROVE  Written(c) \in Cart /\ WrittenMerged(c) \in SUBSET Calls
<1>1. CASE IsAdd(c)
  <2>1. /\ UserOf(c) \in Users
        /\ req[c].product \in Products /\ req[c].qty \in Nat
    BY <1>1, RequestTyped DEF TypeOK
  <2> DEFINE found == IF seen[c] = NoValue THEN NewCart(req[c].user) ELSE seen[c]
  <2>2. found \in Cart
    BY <2>1 DEF TypeOK, NewCart, Cart, UserOf
  <2>3. Store!Plus(found.items, req[c].product, req[c].qty) \in [Products -> Nat]
    BY <2>1, <2>2 DEF Store!Plus, Cart
  <2>4. CartWithItem(seen[c], req[c])
          = [found EXCEPT !.items = Store!Plus(@, req[c].product, req[c].qty)]
    BY DEF CartWithItem
  <2>5. CartWithItem(seen[c], req[c]) \in Cart
    BY <2>2, <2>3, <2>4 DEF Cart
  <2> QED BY <1>1, <2>5 DEF Written, WrittenMerged, TypeOK
<1>2. CASE ~IsAdd(c)
  BY <1>2 DEF Written, WrittenMerged, NewCart, Cart
<1> QED BY <1>1, <1>2

(* Every action keeps the types.                                           *)
LEMMA TypeStep == TypeOK /\ CallsTypeOK' /\ [Next]_vars => TypeOK'
<1> SUFFICES ASSUME TypeOK, CallsTypeOK', [Next]_vars PROVE TypeOK'
  OBVIOUS
<1> USE DEF TypeOK
<1>1. CASE UNCHANGED storeVars
  BY <1>1 DEF storeVars
<1>2. ASSUME NEW c \in Calls, GetAsync(c) PROVE TypeOK'
  BY <1>2, RequestTyped DEF GetAsync
<1>3. ASSUME NEW c \in Calls, SetAsync(c) PROVE TypeOK'
  BY <1>3, WrittenTyped, RequestTyped DEF SetAsync
<1> QED BY <1>1, <1>2, <1>3 DEF Next, vars, storeVars, BeginCall, Throw

(* No call changes from one method to another.                             *)
LEMMA OnPathStep ==
  ASSUME TypeOK, CallsInv, OnPath, [Next]_vars
  PROVE  OnPath'
<1>1. req' = req
  BY NextMoves, MovesKeep
<1>2. \A c \in Calls : /\ pc'[c] = "write" => pc[c] = "write" \/ ~IsGet(c)
                       /\ pc'[c] = "read" => pc[c] = "read" \/ ~IsEmpty(c)
  BY RequestTyped DEF Next, vars, BeginCall, Begin, GetAsync, SetAsync, Throw,
     Step, TypeOK, CallsTypeOK
<1> QED BY <1>1, <1>2 DEF OnPath, IsGet, IsEmpty

(* What SetAsync stores of the history, and what the others leave alone.   *)
LEMMA SetEffect ==
  ASSUME TypeOK, NEW c \in Calls, SetAsync(c)
  PROVE  /\ UserOf(c) \in Users
         /\ pc[c] = "write" /\ pc'[c] \in {"ok", "failed"}
         /\ \A d \in Calls \ {c} : pc'[d] = pc[d]
         /\ \A u \in Users : merged'[u] = IF u = UserOf(c) THEN WrittenMerged(c)
                                                            ELSE merged[u]
         /\ \A u \in Users : cache'[u] = IF u = UserOf(c) THEN Written(c)
                                                            ELSE cache[u]
         /\ seenMerged' = seenMerged /\ seen' = seen
BY RequestTyped DEF SetAsync, Step, TypeOK, CallsTypeOK

(* What a read changes.                                                    *)
LEMMA GetEffect ==
  ASSUME TypeOK, NEW c \in Calls, GetAsync(c)
  PROVE  /\ pc[c] = "read" /\ pc'[c] = IF IsAdd(c) THEN "write" ELSE "ok"
         /\ \A d \in Calls \ {c} : pc'[d] = pc[d] /\ seenMerged'[d] = seenMerged[d]
                                                /\ seen'[d] = seen[d]
         /\ seenMerged'[c] = merged[UserOf(c)] /\ seen'[c] = cache[UserOf(c)]
         /\ merged' = merged /\ cache' = cache
BY DEF GetAsync, Step, TypeOK, CallsTypeOK

(* Beginning and throwing acknowledge nothing and write nothing.           *)
LEMMA QuietStep ==
  ASSUME TypeOK, [Next]_vars,
         ~ \E c \in Calls : GetAsync(c) \/ SetAsync(c)
  PROVE  /\ UNCHANGED storeVars
         /\ \A c \in Calls : /\ pc'[c] = "ok" => pc[c] = "ok"
                             /\ IsAdd(c) /\ pc'[c] = "write" => pc[c] = "write"
BY RequestTyped DEF Next, vars, storeVars, BeginCall, Begin, Throw, Step, TypeOK,
   CallsTypeOK

(* An excuse, once there, stays.                                           *)
LEMMA ExcusesStay ==
  ASSUME CallsInv, [Next]_vars, NEW c \in Calls, Started(c)
  PROVE  /\ LostTo(c) => LostTo(c)'
         /\ \A d \in Calls : BroughtBack(c, d) => BroughtBack(c, d)'
<1>1. /\ req' = req
      /\ \A e \in Calls : Started(e) => Started(e)' /\ preceded'[e] = preceded[e]
      /\ \A e, f \in Calls : Overlap(e, f) => Overlap(e, f)'
  BY NextMoves, MovesKeep
<1>2. LostTo(c) => LostTo(c)'
  BY <1>1 DEF LostTo, SameUser, UserOf, IsAdd, IsEmpty
<1>3. \A d \in Calls : BroughtBack(c, d) => BroughtBack(c, d)'
  BY <1>1 DEF BroughtBack, SameUser, UserOf, IsAdd
<1> QED BY <1>2, <1>3

(* A call that writes while another of its user is in flight overlaps it,  *)
(* and an EmptyCart that writes precedes no call that has begun.           *)
LEMMA WriterExcuse ==
  ASSUME CallsInv, NEW c \in Calls, NEW d \in Calls, c # d, SameUser(c, d),
         InFlight(d), Started(c),
         \/ IsAdd(d) /\ InFlight(c)
         \/ IsEmpty(d)
  PROVE  LostTo(c)
BY InFlightOverlap DEF CallsInv, PrecededReturned, InFlight, LostTo

(* A write passes the excuse from the writer to the stored cart.           *)
LEMMA LossStep ==
  ASSUME TypeOK, CallsInv, OnPath, LossNeedsOverlap, WriterLoss,
         [Next]_vars
  PROVE  LossNeedsOverlap'
<1> SUFFICES ASSUME NEW c \in Calls, IsAdd(c)', pc'[c] = "ok",
                    c \notin merged'[UserOf(c)]
             PROVE  LostTo(c)'
  BY NextMoves, MovesKeep DEF LossNeedsOverlap, LostTo, UserOf
<1>1. IsAdd(c) /\ ~IsEmpty(c) /\ UserOf(c) \in Users
  BY NextMoves, MovesKeep, RequestTyped DEF IsAdd, TypeOK
<1>2. SUFFICES Started(c) /\ LostTo(c)
  BY ExcusesStay
<1>3. ASSUME NEW d \in Calls, SetAsync(d)
      PROVE  Started(c) /\ LostTo(c)
  <2>1. d # c
    BY <1>1, <1>3, SetEffect DEF WrittenMerged
  <2>2. pc[c] = "ok" /\ Started(c)
    BY <1>3, <2>1, SetEffect DEF Started
  <2>3. InFlight(d) /\ ~IsGet(d)
    BY <1>3, SetEffect DEF InFlight, Started, Returned, OnPath
  <2>4. CASE UserOf(d) # UserOf(c)
    BY <1>1, <1>3, <2>2, <2>4, SetEffect DEF LossNeedsOverlap, LostTo
  <2>5. CASE UserOf(d) = UserOf(c) /\ IsEmpty(d)
    BY <2>1, <2>2, <2>3, <2>5, WriterExcuse DEF SameUser
  <2>6. CASE UserOf(d) = UserOf(c) /\ IsAdd(d)
    <3>1. c \notin seenMerged[d] /\ pc[d] = "write"
      BY <1>3, <2>6, SetEffect DEF WrittenMerged
    <3> QED BY <1>1, <2>2, <2>6, <3>1 DEF WriterLoss, SameUser
  <2> QED BY <2>3, <2>4, <2>5, <2>6, RequestTyped DEF TypeOK
<1>4. ASSUME NEW d \in Calls, GetAsync(d)
      PROVE  Started(c) /\ LostTo(c)
  BY <1>1, <1>4, GetEffect DEF LossNeedsOverlap, LostTo, Started
<1>5. CASE ~ \E d \in Calls : GetAsync(d) \/ SetAsync(d)
  BY <1>1, <1>5, QuietStep DEF LossNeedsOverlap, LostTo, Started, storeVars
<1> QED BY <1>3, <1>4, <1>5

(* An add that is acknowledged overlaps each writer in flight.             *)
LEMMA WriterLossStep ==
  ASSUME TypeOK, CallsInv, LossNeedsOverlap, WriterLoss, [Next]_vars
  PROVE  WriterLoss'
<1> SUFFICES ASSUME NEW c \in Calls, NEW d \in Calls,
                    IsAdd(c)', pc'[c] = "ok",
                    IsAdd(d)', pc'[d] = "write", SameUser(c, d)',
                    c \notin seenMerged'[d]
             PROVE  LostTo(c)'
  BY DEF WriterLoss
<1>1. IsAdd(c) /\ IsAdd(d) /\ SameUser(c, d) /\ c # d
  BY NextMoves, MovesKeep DEF IsAdd, SameUser, UserOf
<1>2. SUFFICES Started(c) /\ LostTo(c)
  BY ExcusesStay
<1>3. ASSUME NEW e \in Calls, SetAsync(e)
      PROVE  Started(c) /\ LostTo(c)
  <2>1. pc[d] = "write" /\ c \notin seenMerged[d]
    BY <1>3, SetEffect
  <2>2. CASE e = c
    <3>1. InFlight(c) /\ InFlight(d)
      BY <1>3, <2>1, <2>2, SetEffect DEF InFlight, Started, Returned
    <3> QED BY <1>1, <3>1, WriterExcuse DEF InFlight
  <2>3. CASE e # c
    BY <1>1, <1>3, <2>1, <2>3, SetEffect DEF WriterLoss, Started
  <2> QED BY <2>2, <2>3
<1>4. ASSUME NEW e \in Calls, GetAsync(e)
      PROVE  Started(c) /\ LostTo(c)
  <2>1. pc[c] = "ok"
    BY <1>1, <1>4, GetEffect
  <2>2. CASE e = d
    BY <1>1, <1>4, <2>1, <2>2, GetEffect
       DEF LossNeedsOverlap, LostTo, Started, SameUser
  <2>3. CASE e # d
    BY <1>1, <1>4, <2>1, <2>3, GetEffect DEF WriterLoss, Started
  <2> QED BY <2>2, <2>3
<1>5. CASE ~ \E e \in Calls : GetAsync(e) \/ SetAsync(e)
  BY <1>1, <1>5, QuietStep DEF WriterLoss, Started, storeVars
<1> QED BY <1>3, <1>4, <1>5

(* A call that came before d is over, and d, once it has replied, began    *)
(* long ago.                                                               *)
LEMMA PrecededStays ==
  ASSUME CallsInv, [Next]_vars, NEW d \in Calls, NEW c \in Calls,
         IsEmpty(d)', pc'[d] = "ok", c \in preceded'[d], TypeOK
  PROVE  IsEmpty(d) /\ Started(d) /\ c \in preceded[d] /\ Returned(c)
<1>1. IsEmpty(d) /\ ~IsAdd(d) /\ ~IsGet(d)
  BY NextMoves, MovesKeep, RequestTyped DEF IsEmpty, TypeOK
<1>2. Started(d)
  BY <1>1 DEF Started, Next, vars, BeginCall, Begin, GetAsync, SetAsync, Throw,
              Step, TypeOK, CallsTypeOK
<1> QED BY <1>1, <1>2, NextMoves, MovesKeep DEF CallsInv, PrecededReturned

(* A write brings back only what its reader had seen.                      *)
LEMMA ResurrectionStep ==
  ASSUME TypeOK, CallsInv, OnPath, ResurrectionNeedsOverlap,
         WriterResurrection, [Next]_vars
  PROVE  ResurrectionNeedsOverlap'
<1> SUFFICES ASSUME NEW d \in Calls, NEW c \in Calls,
                    IsEmpty(d)', pc'[d] = "ok", c \in preceded'[d],
                    c \in merged'[UserOf(d)]
             PROVE  BroughtBack(c, d)'
  BY NextMoves, MovesKeep DEF ResurrectionNeedsOverlap, BroughtBack, UserOf
<1>1. /\ IsEmpty(d) /\ Started(d) /\ c \in preceded[d] /\ Returned(c)
      /\ ~IsAdd(d) /\ UserOf(d) \in Users
  BY PrecededStays, RequestTyped DEF TypeOK
<1>2. SUFFICES BroughtBack(c, d)
  BY <1>1, ExcusesStay DEF Returned, Started
<1>3. ASSUME NEW e \in Calls, SetAsync(e)
      PROVE  BroughtBack(c, d)
  <2>1. e # d
    BY <1>1, <1>3, SetEffect DEF WrittenMerged
  <2>2. pc[d] = "ok"
    BY <1>3, <2>1, SetEffect
  <2>3. CASE UserOf(e) # UserOf(d)
    BY <1>1, <1>3, <2>2, <2>3, SetEffect DEF ResurrectionNeedsOverlap, BroughtBack
  <2>4. CASE UserOf(e) = UserOf(d)
    <3>1. IsAdd(e) /\ c \in seenMerged[e] \cup {e}
      BY <1>1, <1>3, <2>4, SetEffect DEF WrittenMerged
    <3>2. c # e /\ pc[e] = "write"
      BY <1>1, <1>3, SetEffect DEF Returned
    <3> QED BY <1>1, <2>2, <2>4, <3>1, <3>2 DEF WriterResurrection, SameUser
  <2> QED BY <2>3, <2>4
<1>4. ASSUME NEW e \in Calls, GetAsync(e)
      PROVE  BroughtBack(c, d)
  <2>1. pc[d] = "ok"
    BY <1>1, <1>4, GetEffect DEF OnPath
  <2> QED BY <1>1, <1>4, <2>1, GetEffect DEF ResurrectionNeedsOverlap, BroughtBack
<1>5. CASE ~ \E e \in Calls : GetAsync(e) \/ SetAsync(e)
  BY <1>1, <1>5, QuietStep DEF ResurrectionNeedsOverlap, BroughtBack, storeVars
<1> QED BY <1>3, <1>4, <1>5

(* An EmptyCart that is acknowledged overlaps each writer in flight.       *)
LEMMA WriterResurrectionStep ==
  ASSUME TypeOK, CallsInv, OnPath, ResurrectionNeedsOverlap,
         WriterResurrection, [Next]_vars
  PROVE  WriterResurrection'
<1> SUFFICES ASSUME NEW c \in Calls, NEW d \in Calls, NEW e \in Calls,
                    IsEmpty(d)', pc'[d] = "ok", c \in preceded'[d],
                    IsAdd(e)', pc'[e] = "write", SameUser(d, e)',
                    c \in seenMerged'[e]
             PROVE  BroughtBack(c, d)'
  BY DEF WriterResurrection
<1>1. /\ IsEmpty(d) /\ Started(d) /\ c \in preceded[d] /\ Returned(c)
      /\ ~IsAdd(d) /\ IsAdd(e) /\ SameUser(d, e) /\ e # d
  BY PrecededStays, RequestTyped, NextMoves, MovesKeep
     DEF TypeOK, IsAdd, SameUser, UserOf
<1>2. SUFFICES BroughtBack(c, d)
  BY <1>1, ExcusesStay DEF Returned, Started
<1>3. ASSUME NEW f \in Calls, SetAsync(f)
      PROVE  BroughtBack(c, d)
  <2>1. pc[e] = "write" /\ c \in seenMerged[e]
    BY <1>3, SetEffect
  <2>2. CASE f = d
    <3>1. InFlight(d) /\ InFlight(e) /\ c # e
      BY <1>1, <1>3, <2>1, <2>2, SetEffect DEF InFlight, Started, Returned
    <3> QED BY <1>1, <3>1, InFlightOverlap DEF BroughtBack
  <2>3. CASE f # d
    BY <1>1, <1>3, <2>1, <2>3, SetEffect DEF WriterResurrection
  <2> QED BY <2>2, <2>3
<1>4. ASSUME NEW f \in Calls, GetAsync(f)
      PROVE  BroughtBack(c, d)
  <2>1. f # d /\ pc[d] = "ok"
    BY <1>1, <1>4, GetEffect DEF OnPath
  <2>2. CASE f = e
    BY <1>1, <1>4, <2>1, <2>2, GetEffect
       DEF ResurrectionNeedsOverlap, BroughtBack, SameUser
  <2>3. CASE f # e
    BY <1>1, <1>4, <2>1, <2>3, GetEffect DEF WriterResurrection
  <2> QED BY <2>2, <2>3
<1>5. CASE ~ \E f \in Calls : GetAsync(f) \/ SetAsync(f)
  BY <1>1, <1>5, QuietStep DEF WriterResurrection, storeVars
<1> QED BY <1>3, <1>4, <1>5

(* All conjuncts together.                                                 *)
LEMMA StepIInv == IInv /\ [Next]_vars => IInv'
<1> SUFFICES ASSUME IInv, [Next]_vars PROVE IInv'
  OBVIOUS
<1>1. CallsInv' /\ CallsTypeOK'
  BY NextMoves, MovesKeep DEF IInv, CallsInv
<1> QED BY <1>1, TypeStep, OnPathStep, LossStep, WriterLossStep,
           ResurrectionStep, WriterResurrectionStep DEF IInv

(* IInv holds in every state.                                              *)
LEMMA Invariance == Spec => []IInv
BY InitIInv, StepIInv, PTL DEF Spec

(* Every variable of RedisCartStore keeps its type.                        *)
THEOREM TypeCorrect == Spec => []TypeOK
<1>1. IInv => TypeOK
  BY DEF IInv
<1> QED BY Invariance, <1>1, PTL

(* The read-modify-write of AddItemAsync loses an acknowledged add to a    *)
(* call of the same user that overlapped it, or to an EmptyCart that had   *)
(* not returned before it began, and to nothing else.                      *)
THEOREM LossCorrect == Spec => []LossNeedsOverlap
<1>1. IInv => LossNeedsOverlap
  BY DEF IInv
<1> QED BY Invariance, <1>1, PTL

(* What an acknowledged EmptyCart removed comes back only with an AddItem  *)
(* that overlapped the EmptyCart.                                          *)
THEOREM ResurrectionCorrect == Spec => []ResurrectionNeedsOverlap
<1>1. IInv => ResurrectionNeedsOverlap
  BY DEF IInv
<1> QED BY Invariance, <1>1, PTL

-----------------------------------------------------------------------------
(* While a user waits for each reply, nothing changes between GetAsync and *)
(* SetAsync.                                                               *)
SeenIsCurrent ==
  \A c \in Calls :
    (UserOf(c) \in Patient /\ IsAdd(c) /\ pc[c] = "write")
      => seen[c] = cache[UserOf(c)]

SInv == TypeOK /\ CallsInv /\ SeenIsCurrent

(* With nobody else in flight, what was seen is what is stored.            *)
LEMMA CurrentStep == SInv /\ [Next]_vars => SeenIsCurrent'
<1> SUFFICES ASSUME SInv, [Next]_vars, NEW c \in Calls,
                    UserOf(c)' \in Patient, IsAdd(c)', pc'[c] = "write"
             PROVE  seen'[c] = cache'[UserOf(c)]
  BY NextMoves, MovesKeep DEF SInv, SeenIsCurrent, UserOf
<1> USE DEF SInv
<1>1. IsAdd(c) /\ UserOf(c) \in Users /\ UserOf(c) \in Patient
  BY NextMoves, MovesKeep, RequestTyped DEF IsAdd, UserOf, TypeOK
<1>2. ASSUME NEW d \in Calls, SetAsync(d)
      PROVE  seen'[c] = cache'[UserOf(c)]
  <2>1. pc[c] = "write" /\ pc[d] = "write" /\ c # d
    BY <1>2, SetEffect
  <2>2. UserOf(d) # UserOf(c)
    BY <1>1, <2>1 DEF CallsInv, Alone, InFlight, Started, Returned, SameUser
  <2> QED BY <1>1, <1>2, <2>1, <2>2, SetEffect DEF SeenIsCurrent
<1>3. ASSUME NEW d \in Calls, GetAsync(d)
      PROVE  seen'[c] = cache'[UserOf(c)]
  BY <1>1, <1>3, GetEffect DEF SeenIsCurrent
<1>4. CASE ~ \E d \in Calls : GetAsync(d) \/ SetAsync(d)
  BY <1>1, <1>4, QuietStep DEF SeenIsCurrent, storeVars
<1> QED BY <1>2, <1>3, <1>4

(* SInv holds in every state.                                              *)
LEMMA SerialInvariance == Spec => []SInv
<1>1. Init => SInv
  BY InitIInv DEF IInv, SInv, SeenIsCurrent, Init, InitCalls
<1>2. SInv /\ [Next]_vars => SInv'
  BY NextMoves, MovesKeep, TypeStep, CurrentStep DEF SInv, CallsInv
<1> QED BY <1>1, <1>2, PTL DEF Spec

(* The cart the contract sees: what GetCartAsync returns.                  *)
CartBar == [u \in Patient |-> IF cache[u] = NoValue
                              THEN [p \in Products |-> 0]
                              ELSE cache[u].items]

(* A write is the contract's AddItem or EmptyCart.                         *)
LEMMA SetRefines ==
  ASSUME SInv, NEW c \in Calls, SetAsync(c), UserOf(c) \in Patient
  PROVE  IF IsAdd(c) THEN Store!AddItem(UserOf(c), req[c].product, req[c].qty)
                     ELSE Store!EmptyCart(UserOf(c))
<1> DEFINE user == UserOf(c)
<1>1. user \in Users /\ Written(c) \in Cart /\ Written(c) # NoValue
  BY SetEffect, WrittenTyped, NoValueAssumption DEF SInv
<1>2. CartBar' = [CartBar EXCEPT ![user] = Written(c).items]
  <2>1. \A u \in Patient : cache'[u] = IF u = user THEN Written(c) ELSE cache[u]
    BY <1>1, CallsAssumption DEF SetAsync, SInv, TypeOK
  <2> QED BY <1>1, <2>1 DEF CartBar
<1>3. CASE IsAdd(c)
  <2>1. /\ req[c].product \in Products /\ req[c].qty \in Quantities
    BY <1>3, RequestTyped DEF SInv, TypeOK
  <2>2. seen[c] = cache[user]
    BY <1>3, SetEffect DEF SInv, SeenIsCurrent
  <2>3. cache[user] \in Cart \cup {NoValue}
    BY <1>1 DEF SInv, TypeOK
  <2>4. Written(c).items = Store!Plus(CartBar[user], req[c].product, req[c].qty)
    BY <1>1, <1>3, <2>2, <2>3
       DEF Written, CartWithItem, NewCart, Cart, CartBar
  <2>5. CartBar' = [CartBar EXCEPT ![user] =
                      Store!Plus(@, req[c].product, req[c].qty)]
    BY <1>1, <1>2, <2>4 DEF CartBar
  <2>6. Store!AddItem(user, req[c].product, req[c].qty)
    BY <2>5 DEF Store!AddItem, CartBar
  <2> QED BY <1>3, <2>6
<1>4. CASE ~IsAdd(c)
  <2>1. Written(c).items = Store!EmptyItems
    BY <1>4 DEF Written, NewCart, Store!EmptyItems
  <2>2. CartBar' = [CartBar EXCEPT ![user] = Store!EmptyItems]
    BY <1>2, <2>1
  <2>3. Store!EmptyCart(user)
    BY <2>2 DEF Store!EmptyCart, CartBar
  <2> QED BY <1>4, <2>3
<1> QED BY <1>3, <1>4

(* Every step is one of the contract, or a stutter.                        *)
LEMMA NextRefines == SInv /\ [Next]_vars => [Store!Next]_CartBar
<1> SUFFICES ASSUME SInv, [Next]_vars PROVE [Store!Next]_CartBar
  OBVIOUS
<1>1. ASSUME NEW c \in Calls, SetAsync(c), UserOf(c) \in Patient PROVE Store!Next
  <2>2. CASE IsAdd(c)
    <3>1. req[c].product \in Products /\ req[c].qty \in Quantities
      BY <2>2, RequestTyped DEF SInv, TypeOK
    <3>2. Store!AddItem(UserOf(c), req[c].product, req[c].qty)
      BY <1>1, <2>2, SetRefines
    <3>3. PICK u \in Patient, p \in Products, q \in Quantities :
               u = UserOf(c) /\ p = req[c].product /\ q = req[c].qty
      BY <1>1, <3>1
    <3>4. Store!AddItem(u, p, q)
      BY <3>2, <3>3 DEF Store!AddItem
    <3> QED BY <3>4 DEF Store!Next
  <2>3. CASE ~IsAdd(c)
    <3>1. Store!EmptyCart(UserOf(c))
      BY <1>1, <2>3, SetRefines
    <3> QED BY <1>1, <3>1 DEF Store!Next, Store!EmptyCart
  <2> QED BY <2>2, <2>3
<1>2. ASSUME NEW c \in Calls, SetAsync(c), UserOf(c) \notin Patient
      PROVE  CartBar' = CartBar
  <2>1. \A u \in Patient : cache'[u] = cache[u]
    BY <1>2, CallsAssumption DEF SetAsync, SInv, TypeOK
  <2> QED BY <2>1 DEF CartBar
<1>3. CASE cache' = cache
  BY <1>3 DEF CartBar
<1> QED
  BY <1>1, <1>2, <1>3 DEF Next, vars, storeVars, BeginCall, GetAsync, Throw

(* To the users who wait for each reply RedisCartStore keeps the contract  *)
(* of ICartStore.                                                          *)
THEOREM SerializedCorrect == Spec => Serialized
<1>1. Init => Store!Init
  BY CallsAssumption DEF Init, Store!Init, Store!EmptyItems
<1>2. SInv /\ [Next]_vars => [Store!Next]_CartBar
  BY NextRefines
<1> QED BY SerialInvariance, <1>1, <1>2, PTL DEF Spec, Serialized, Store!Spec, CartBar

-----------------------------------------------------------------------------
(* Of sets that are finite some one includes no other of them.             *)
LEMMA SmallestSet ==
  ASSUME NEW T, T # {}, \A A \in T : IsFiniteSet(A)
  PROVE  \E A \in T : \A B \in T : B \subseteq A => B = A
<1> DEFINE S == UNION T
<1>1. T \subseteq FiniteSubsetsOf(S)
  BY DEF FiniteSubsetsOf
<1>2. IsWellFoundedOn(StrictSubsetOrdering(S), FiniteSubsetsOf(S))
  BY FS_StrictSubsetOrderingWellFounded
<1>3. PICK A \in T : \A B \in T : ~(<<B, A>> \in StrictSubsetOrdering(S))
  BY <1>1, <1>2, WFMin
<1> QED BY <1>3 DEF StrictSubsetOrdering

(* The sums of f over the subsets of S, as SumFunctionOnSet computes them: *)
(* one element chosen, and the sum over the others.                        *)
IsSum(g, f, S) == g = [s \in SUBSET S |->
                         IF s = {} THEN 0
                         ELSE LET x == CHOOSE x \in s : TRUE
                              IN  f[x] + g[s \ {x}]]

(* Two ways to sum the same requests give the same.                        *)
LEMMA SumsAgree ==
  ASSUME NEW f, NEW g, NEW h, NEW R, NEW S, IsSum(g, f, R), IsSum(h, f, S),
         NEW A, IsFiniteSet(A), A \subseteq R, A \subseteq S
  PROVE  g[A] = h[A]
<1> DEFINE T == {B \in SUBSET A : g[B] # h[B]}
<1>1. SUFFICES ASSUME T # {} PROVE FALSE
  OBVIOUS
<1>2. PICK B \in T : \A C \in T : C \subseteq B => C = B
  <2>1. \A B \in T : IsFiniteSet(B)
    BY FS_Subset
  <2> HIDE DEF T
  <2> QED BY <1>1, <2>1, SmallestSet
<1>3. B \in SUBSET R /\ B \in SUBSET S
  OBVIOUS
<1>4. CASE B = {}
  BY <1>2, <1>3, <1>4 DEF IsSum
<1>5. CASE B # {}
  <2> DEFINE x == CHOOSE x \in B : TRUE
  <2>1. x \in B
    BY <1>5
  <2>2. g[B] = f[x] + g[B \ {x}] /\ h[B] = f[x] + h[B \ {x}]
    BY <1>3, <1>5 DEF IsSum
  <2>3. g[B \ {x}] = h[B \ {x}]
    BY <1>2, <2>1
  <2> QED BY <1>2, <2>2, <2>3
<1> QED BY <1>4, <1>5

(* There is a way to sum any requests.                                     *)
LEMMA SumExists ==
  ASSUME NEW f, NEW S, IsFiniteSet(S)
  PROVE  \E g : IsSum(g, f, S)
<1> DEFINE Has(s) == \E g : IsSum(g, f, s)
           T == {A \in SUBSET S : ~Has(A)}
<1>1. SUFFICES ASSUME T # {} PROVE FALSE
  OBVIOUS
<1>2. PICK A \in T : \A B \in T : B \subseteq A => B = A
  <2> HIDE DEF Has
  <2>1. \A B \in T : IsFiniteSet(B)
    BY FS_Subset
  <2> HIDE DEF T
  <2> QED BY <1>1, <2>1, SmallestSet
<1> DEFINE V(s) == (CHOOSE g : IsSum(g, f, s))[s]
           h == [s \in SUBSET A |->
                   IF s = {} THEN 0
                   ELSE LET x == CHOOSE x \in s : TRUE
                        IN  f[x] + V(s \ {x})]
<1>3. ASSUME NEW s \in SUBSET A, s # A PROVE h[s] = V(s)
  <2>1. Has(s)
    <3> HIDE DEF Has
    <3> QED BY <1>2, <1>3
  <2> DEFINE g == CHOOSE g : IsSum(g, f, s)
             x == CHOOSE x \in s : TRUE
  <2>2. IsSum(g, f, s)
    BY <2>1
  <2>3. CASE s = {}
    BY <2>2, <2>3 DEF IsSum
  <2>4. CASE s # {}
    <3>1. x \in s
      BY <2>4
    <3>2. g[s] = f[x] + g[s \ {x}]
      BY <2>2, <2>4 DEF IsSum
    <3>3. Has(s \ {x})
      <4> HIDE DEF Has
      <4> QED BY <1>2, <1>3, <3>1
    <3> DEFINE k == CHOOSE k : IsSum(k, f, s \ {x})
    <3>4. IsSum(k, f, s \ {x})
      BY <3>3
    <3>5. IsFiniteSet(s \ {x})
      BY FS_Subset
    <3>6. g[s \ {x}] = k[s \ {x}]
      <4> HIDE DEF g, k, x
      <4> QED BY <2>2, <3>4, <3>5, SumsAgree
    <3>7. h[s] = f[x] + V(s \ {x})
      BY <2>4
    <3> QED BY <3>2, <3>6, <3>7
  <2> QED BY <2>3, <2>4
<1>4. ASSUME NEW s \in SUBSET A
      PROVE  h[s] = IF s = {} THEN 0
                    ELSE LET x == CHOOSE x \in s : TRUE
                         IN  f[x] + h[s \ {x}]
  <2>1. CASE s = {}
    BY <2>1
  <2>2. CASE s # {}
    <3> DEFINE x == CHOOSE x \in s : TRUE
    <3>1. x \in s
      BY <2>2
    <3>2. h[s] = f[x] + V(s \ {x})
      BY <2>2
    <3>3. s \ {x} \in SUBSET A /\ s \ {x} # A
      BY <3>1
    <3>4. h[s \ {x}] = V(s \ {x})
      BY <1>3, <3>3
    <3> HIDE DEF h, V
    <3> QED BY <2>2, <3>2, <3>4
  <2> QED BY <2>1, <2>2
<1>5. IsSum(h, f, A)
  <2>1. h = [s \in SUBSET A |-> h[s]]
    OBVIOUS
  <2> HIDE DEF h
  <2> QED BY <1>4, <2>1 DEF IsSum
<1> QED BY <1>2, <1>5

(* Whatever the order, a sum over a set is one element and the sum over    *)
(* the others.                                                             *)
LEMMA SumTakesOut ==
  ASSUME NEW f, NEW g, NEW S, IsFiniteSet(S), IsSum(g, f, S),
         \A x \in S : f[x] \in Nat
  PROVE  /\ g[{}] = 0
         /\ g[S] \in Nat
         /\ \A x \in S : g[S] = f[x] + g[S \ {x}]
<1> DEFINE Fits(s) == g[s] \in Nat /\ \A x \in s : g[s] = f[x] + g[s \ {x}]
           T == {A \in SUBSET S : ~Fits(A)}
<1>1. g[{}] = 0
  BY DEF IsSum
<1>2. SUFFICES ASSUME T # {} PROVE FALSE
  BY <1>1
<1>3. PICK A \in T : \A B \in T : B \subseteq A => B = A
  <2> HIDE DEF Fits
  <2>1. \A B \in T : IsFiniteSet(B)
    BY FS_Subset
  <2> HIDE DEF T
  <2> QED BY <1>2, <2>1, SmallestSet
<1>4. \A s \in SUBSET A : s # A => Fits(s)
  <2> HIDE DEF Fits
  <2> QED BY <1>3
<1>5. A # {}
  <2>1. Fits({})
    BY <1>1
  <2> HIDE DEF Fits
  <2> QED BY <1>3, <2>1
<1> DEFINE y == CHOOSE y \in A : TRUE
<1>6. y \in A /\ g[A] = f[y] + g[A \ {y}]
  BY <1>5 DEF IsSum
<1> HIDE DEF y
<1>7. Fits(A \ {y}) /\ f[y] \in Nat
  BY <1>4, <1>6
<1>8. g[A] \in Nat
  BY <1>6, <1>7
<1>9. ASSUME NEW x \in A, x # y PROVE g[A] = f[x] + g[A \ {x}]
  <2> DEFINE rest == (A \ {x}) \ {y}
  <2>1. (A \ {y}) \ {x} = rest
    OBVIOUS
  <2>2. g[A \ {y}] = f[x] + g[rest]
    BY <1>7, <1>9, <2>1
  <2>3. Fits(A \ {x}) /\ y \in A \ {x}
    BY <1>4, <1>6, <1>9
  <2>4. g[A \ {x}] = f[y] + g[rest]
    BY <2>3
  <2>5. Fits(rest) /\ f[x] \in Nat
    BY <1>4, <1>6
  <2> HIDE DEF rest
  <2> QED BY <1>6, <1>7, <2>2, <2>4, <2>5
<1> QED BY <1>3, <1>6, <1>8, <1>9

(* SumFunctionOnSet is such a sum.                                         *)
LEMMA SumIs ==
  ASSUME NEW f, NEW S, IsFiniteSet(S)
  PROVE  \E g : IsSum(g, f, S) /\ SumFunctionOnSet(f, S) = g[S]
<1>1. SumFunctionOnSet(f, S) = (CHOOSE g : IsSum(g, f, S))[S]
  BY DEF SumFunctionOnSet, FoldFunctionOnSet, MapThenFoldSet, IsSum
<1> DEFINE g == CHOOSE g : IsSum(g, f, S)
<1>2. IsSum(g, f, S)
  BY SumExists
<1> QED BY <1>1, <1>2

(* A sum over a finite set, and with one more element.                     *)
LEMMA SumAdds ==
  ASSUME NEW f, NEW S, IsFiniteSet(S), \A x \in S : f[x] \in Nat
  PROVE  /\ SumFunctionOnSet(f, {}) = 0
         /\ SumFunctionOnSet(f, S) \in Nat
         /\ \A x : x \notin S /\ f[x] \in Nat =>
              SumFunctionOnSet(f, S \cup {x}) = f[x] + SumFunctionOnSet(f, S)
<1>1. SumFunctionOnSet(f, {}) = 0
  <2>1. IsFiniteSet({})
    BY FS_EmptySet
  <2>2. PICK g : IsSum(g, f, {}) /\ SumFunctionOnSet(f, {}) = g[{}]
    BY <2>1, SumIs
  <2> QED BY <2>1, <2>2, SumTakesOut
<1>2. PICK g : IsSum(g, f, S) /\ SumFunctionOnSet(f, S) = g[S]
  BY SumIs
<1>3. SumFunctionOnSet(f, S) \in Nat
  BY <1>2, SumTakesOut
<1>4. ASSUME NEW x, x \notin S, f[x] \in Nat
      PROVE  SumFunctionOnSet(f, S \cup {x}) = f[x] + SumFunctionOnSet(f, S)
  <2> DEFINE R == S \cup {x}
  <2>1. IsFiniteSet(R) /\ x \in R /\ R \ {x} = S
    BY <1>4, FS_AddElement
  <2>2. PICK h : IsSum(h, f, R) /\ SumFunctionOnSet(f, R) = h[R]
    BY <2>1, SumIs
  <2>3. h[R] = f[x] + h[S]
    BY <1>4, <2>1, <2>2, SumTakesOut
  <2>4. h[S] = g[S]
    BY <1>2, <2>2, SumsAgree
  <2> QED BY <1>2, <2>2, <2>3, <2>4
<1> QED BY <1>1, <1>3, <1>4

-----------------------------------------------------------------------------
(* The quantity a request asks for.                                        *)
Qty == [c \in {d \in Calls : IsAdd(d)} |-> req[c].qty]

(* Adds that have been written, finitely many.                             *)
WrittenAdds(adds) ==
  IsFiniteSet(adds) /\ \A c \in adds : c \in Calls /\ IsAdd(c) /\ Returned(c)

(* A stored cart or one that was read, and the adds in it.                 *)
Sums(value, adds) == /\ WrittenAdds(adds)
                     /\ \A p \in Products : Quantity(value, p) = Asked(adds, p)

(* It holds of what the calls have read as well as of what is stored.      *)
QuantityInv == /\ TypeOK /\ CallsInv
               /\ \A u \in Users : Sums(cache[u], merged[u])
               /\ \A c \in Calls : Sums(seen[c], seenMerged[c])

(* A cart without items is the sum of no requests.                         *)
LEMMA EmptySums ==
  ASSUME NEW value \in {NoValue} \cup {NewCart(u) : u \in Users \cup {NoUser}}
  PROVE  Sums(value, {})
<1>1. WrittenAdds({})
  BY FS_EmptySet DEF WrittenAdds
<1>2. ASSUME NEW p \in Products PROVE Quantity(value, p) = 0
  BY NoValueAssumption DEF Quantity, NewCart
<1>3. SumFunctionOnSet(Qty, {}) = 0
  BY FS_EmptySet, SumAdds
<1>4. ASSUME NEW p \in Products PROVE Asked({}, p) = 0
  <2>1. {c \in {} : req[c].product = p} = {}
    OBVIOUS
  <2> QED BY <1>3, <2>1 DEF Asked, Qty
<1> QED BY <1>1, <1>2, <1>4 DEF Sums

(* An add that writes is not among those in the cart it has read, so the   *)
(* cart it writes counts it once.                                          *)
LEMMA AddSums ==
  ASSUME QuantityInv, NEW c \in Calls, IsAdd(c), pc[c] = "write",
         NEW p \in Products
  PROVE  Quantity(Written(c), p) = Asked(WrittenMerged(c), p)
<1> USE DEF QuantityInv
<1> DEFINE r == req[c]
           old == {d \in seenMerged[c] : req[d].product = p}
           new == {d \in seenMerged[c] \cup {c} : req[d].product = p}
<1>1. /\ r.product \in Products /\ r.qty \in Nat /\ r.user \in Users
      /\ Qty[c] = r.qty
  BY RequestTyped DEF TypeOK, UserOf, Qty
<1>2. WrittenAdds(seenMerged[c])
      /\ Quantity(seen[c], p) = SumFunctionOnSet(Qty, old)
  BY DEF Sums, Asked, Qty
<1>3. c \notin old /\ IsFiniteSet(old)
  BY <1>2, FS_Subset DEF WrittenAdds, Returned
<1>4. \A d \in old : Qty[d] \in Nat
  BY <1>2, RequestTyped DEF WrittenAdds, Qty, TypeOK
<1>5. Asked(WrittenMerged(c), p) = SumFunctionOnSet(Qty, new)
  BY DEF Asked, Qty, WrittenMerged
<1> DEFINE found == IF seen[c] = NoValue THEN NewCart(r.user) ELSE seen[c]
<1>6. /\ Written(c) = [found EXCEPT !.items = Store!Plus(@, r.product, r.qty)]
      /\ found \in Cart /\ found.items[p] = Quantity(seen[c], p)
      /\ found.items[p] \in Nat
  <2>1. found \in Cart
    BY <1>1 DEF TypeOK, NewCart, Cart
  <2>2. found.items[p] = Quantity(seen[c], p)
    BY DEF NewCart, Quantity
  <2>3. found.items[p] \in Nat
    BY <2>1 DEF Cart
  <2> QED BY <2>1, <2>2, <2>3 DEF Written, CartWithItem
<1>7. Quantity(Written(c), p) = IF p = r.product THEN found.items[p] + r.qty
                                                 ELSE found.items[p]
  <2>1. Written(c) \in Cart
    BY WrittenTyped
  <2>2. Written(c).items = Store!Plus(found.items, r.product, r.qty)
    BY <1>6 DEF Cart
  <2>3. Written(c).items[p] = IF p = r.product THEN found.items[p] + r.qty
                                               ELSE found.items[p]
    BY <1>1, <1>6, <2>2 DEF Store!Plus, Cart
  <2> QED BY <2>1, <2>3, NoValueAssumption DEF Quantity
<1> HIDE DEF found
<1>8. CASE p = r.product
  <2>1. new = old \cup {c}
    BY <1>8
  <2> HIDE DEF old, new
  <2>2. SumFunctionOnSet(Qty, new) = r.qty + SumFunctionOnSet(Qty, old)
    BY <1>1, <1>3, <1>4, <2>1, SumAdds
  <2>3. SumFunctionOnSet(Qty, old) \in Nat
    BY <1>3, <1>4, SumAdds
  <2> QED BY <1>1, <1>2, <1>5, <1>6, <1>7, <1>8, <2>2, <2>3
<1>9. CASE p # r.product
  <2>1. new = old
    BY <1>9
  <2> QED BY <1>2, <1>5, <1>6, <1>7, <1>9, <2>1
<1> QED BY <1>8, <1>9

(* A write adds one request to both sides.                                 *)
LEMMA QuantityStep == QuantityInv /\ [Next]_vars => QuantityInv'
<1> SUFFICES ASSUME QuantityInv, [Next]_vars PROVE QuantityInv'
  OBVIOUS
<1> USE DEF QuantityInv
<1>1. TypeOK' /\ CallsInv' /\ req' = req
  BY NextMoves, MovesKeep, TypeStep DEF CallsInv
<1>2. \A c \in Calls : Returned(c) => Returned(c)'
  BY DEF Returned, Next, vars, BeginCall, Begin, GetAsync, SetAsync, Throw, Step,
         TypeOK, CallsTypeOK
<1> DEFINE Then(value, adds) ==
             /\ IsFiniteSet(adds)
             /\ \A c \in adds : c \in Calls /\ IsAdd(c) /\ Returned(c)'
             /\ \A p \in Products : Quantity(value, p) = Asked(adds, p)
<1>3. \A value, adds : Sums(value, adds) => Then(value, adds)
  BY <1>2 DEF Sums, WrittenAdds
<1>4. SUFFICES /\ \A u \in Users : Then(cache'[u], merged'[u])
               /\ \A c \in Calls : Then(seen'[c], seenMerged'[c])
  BY <1>1 DEF Sums, WrittenAdds, Asked, Quantity, IsAdd
<1> HIDE DEF Then
<1>5. CASE UNCHANGED storeVars
  BY <1>3, <1>5 DEF storeVars
<1>6. ASSUME NEW c \in Calls, GetAsync(c)
      PROVE  /\ \A u \in Users : Then(cache'[u], merged'[u])
             /\ \A d \in Calls : Then(seen'[d], seenMerged'[d])
  <2>1. UserOf(c) \in Users
    BY RequestTyped DEF TypeOK
  <2> QED BY <1>3, <1>6, <2>1, GetEffect
<1>7. ASSUME NEW c \in Calls, SetAsync(c)
      PROVE  /\ \A u \in Users : Then(cache'[u], merged'[u])
             /\ \A d \in Calls : Then(seen'[d], seenMerged'[d])
  <2>1. Then(Written(c), WrittenMerged(c))
    <3>1. CASE IsAdd(c)
      <4>1. pc[c] = "write" /\ Returned(c)'
        BY <1>7, SetEffect DEF Returned
      <4>2. \A p \in Products : Quantity(Written(c), p) = Asked(WrittenMerged(c), p)
        BY <3>1, <4>1, AddSums
      <4>3. /\ WrittenMerged(c) = seenMerged[c] \cup {c}
            /\ WrittenAdds(seenMerged[c])
        BY <3>1 DEF WrittenMerged, Sums
      <4>4. IsFiniteSet(WrittenMerged(c))
        BY <4>3, FS_AddElement DEF WrittenAdds
      <4> QED BY <1>2, <3>1, <4>1, <4>2, <4>3, <4>4 DEF Then, WrittenAdds
    <3>2. CASE ~IsAdd(c)
      <4>1. Written(c) = NewCart(NoUser) /\ WrittenMerged(c) = {}
        BY <3>2 DEF Written, WrittenMerged
      <4>2. Sums(NewCart(NoUser), {})
        BY EmptySums
      <4> QED BY <1>3, <4>1, <4>2
    <3> QED BY <3>1, <3>2
  <2>2. UserOf(c) \in Users
    BY RequestTyped DEF TypeOK
  <2> QED BY <1>3, <1>7, <2>1, <2>2, SetEffect
<1> QED BY <1>5, <1>6, <1>7 DEF Next, vars, storeVars, BeginCall, Throw

(* However calls interleave, lose and bring back updates, a stored line's  *)
(* quantity is the sum of the quantities of the adds merged into it.       *)
THEOREM QuantityCorrect == Spec => []QuantityIsMergedSum
<1>1. Init => QuantityInv
  <2> SUFFICES ASSUME Init PROVE QuantityInv
    OBVIOUS
  <2>1. TypeOK /\ CallsInv
    BY InitIInv DEF IInv
  <2> QED BY <2>1, EmptySums DEF Init, QuantityInv
<1>2. QuantityInv => QuantityIsMergedSum
  BY DEF QuantityInv, Sums, QuantityIsMergedSum
<1> QED BY <1>1, <1>2, QuantityStep, PTL DEF Spec
=============================================================================
