-------------------------- MODULE CartCalls_proofs --------------------------
(* Facts about the calls of the cart service that hold for every store.    *)
EXTENDS CartCalls, TLAPS

(* Beginning a call keeps the calls' variables well typed.                 *)
LEMMA BeginTyped ==
  ASSUME CallsTypeOK, NEW c \in Calls, Begin(c)
  PROVE  CallsTypeOK'
BY DEF CallsTypeOK, Begin, PC, IsEmpty

(* So does every other step of a call.                                     *)
LEMMA StepTyped ==
  ASSUME CallsTypeOK, NEW c \in Calls,
         NEW from, NEW to \in PC, Step(c, from, to)
  PROVE  CallsTypeOK'
BY DEF CallsTypeOK, Step

(* What a request holds, by its kind.                                      *)
LEMMA RequestTyped ==
  ASSUME CallsTypeOK, NEW c \in Calls
  PROVE  /\ UserOf(c) \in Users
         /\ IsAdd(c) => /\ req[c].product \in Products
                        /\ req[c].qty \in Quantities
                        /\ req[c].qty \in Nat \ {0}
         /\ ~IsAdd(c) => IsEmpty(c) \/ IsGet(c)
         /\ ~(IsAdd(c) /\ IsEmpty(c)) /\ ~(IsAdd(c) /\ IsGet(c))
         /\ ~(IsEmpty(c) /\ IsGet(c))
<1>1. req[c] \in AddRequest \/ req[c] \in UserRequest
  BY DEF CallsTypeOK, Request
<1>2. CASE req[c] \in AddRequest
  BY <1>2, CallsAssumption DEF AddRequest, UserOf, IsAdd, IsEmpty, IsGet
<1>3. CASE req[c] \in UserRequest
  BY <1>3 DEF UserRequest, UserOf, IsAdd, IsEmpty, IsGet
<1> QED BY <1>1, <1>2, <1>3

-----------------------------------------------------------------------------
(* A step of any store begins a call or moves one that is in flight on.    *)
Moves == \E c \in Calls :
           \/ Begin(c)
           \/ \E from \in {"read", "write"}, to \in PC \ {"new"} :
                Step(c, from, to)

(* A call that came before another one has returned.                       *)
PrecededReturned == \A c, d \in Calls : d \in preceded[c] => Returned(d)

(* A user who waits for each reply has one call in flight.                 *)
Alone ==
  \A c, d \in Calls :
    (/\ UserOf(c) \in Patient /\ SameUser(c, d)
     /\ InFlight(c) /\ InFlight(d)) => c = d

CallsInv == CallsTypeOK /\ PrecededReturned /\ Alone

(* At first no call has begun.                                             *)
LEMMA InitCallsInv == InitCalls => CallsInv
BY DEF InitCalls, CallsInv, CallsTypeOK, PC, PrecededReturned, Alone,
       InFlight, Started, Returned

(* What is over stays over: requests never change, and neither do the      *)
(* history of a call that has started and the overlaps between such calls. *)
LEMMA MovesKeep ==
  ASSUME CallsInv, Moves \/ UNCHANGED callVars
  PROVE  /\ CallsInv'
         /\ req' = req
         /\ \A c \in Calls : Started(c) => Started(c)' /\ preceded'[c] = preceded[c]
         /\ \A c, d \in Calls : Overlap(c, d) => Overlap(c, d)'
<1> USE DEF CallsInv, Started, Returned
<1>1. CASE UNCHANGED callVars
  BY <1>1 DEF callVars, CallsTypeOK, PrecededReturned, Alone, InFlight,
              SameUser, UserOf, Overlap
<1>2. ASSUME NEW c \in Calls, Begin(c)
      PROVE  /\ CallsInv'
             /\ req' = req
             /\ \A d \in Calls : Started(d) => Started(d)' /\ preceded'[d] = preceded[d]
  <2>1. CallsTypeOK'
    BY <1>2, BeginTyped
  <2>2. \A d \in Calls \ {c} : pc'[d] = pc[d] /\ preceded'[d] = preceded[d]
    BY <1>2 DEF Begin, CallsTypeOK
  <2>3. /\ pc[c] = "new" /\ pc'[c] \in {"read", "write"}
        /\ preceded'[c] = {d \in Calls : Returned(d)} /\ req' = req
    BY <1>2 DEF Begin, CallsTypeOK
  <2>4. PrecededReturned'
    BY <2>2, <2>3 DEF PrecededReturned
  <2>5. Alone'
    BY <1>2, <2>2, <2>3 DEF Alone, Begin, InFlight, SameUser, UserOf
  <2> QED BY <2>1, <2>2, <2>3, <2>4, <2>5
<1>3. ASSUME NEW c \in Calls, NEW from \in {"read", "write"},
             NEW to \in PC \ {"new"}, Step(c, from, to)
      PROVE  /\ CallsInv'
             /\ req' = req
             /\ \A d \in Calls : Started(d) => Started(d)' /\ preceded'[d] = preceded[d]
  <2>1. CallsTypeOK'
    BY <1>3, StepTyped
  <2>2. \A d \in Calls \ {c} : pc'[d] = pc[d]
    BY <1>3 DEF Step, CallsTypeOK
  <2>3. /\ pc[c] \in {"read", "write"} /\ pc'[c] \in PC \ {"new"}
        /\ preceded' = preceded /\ req' = req
    BY <1>3 DEF Step, CallsTypeOK
  <2>4. PrecededReturned'
    BY <2>2, <2>3 DEF PrecededReturned
  <2>5. Alone'
    BY <2>2, <2>3 DEF Alone, InFlight, SameUser, UserOf
  <2> QED BY <2>1, <2>2, <2>3, <2>4, <2>5
<1> QED BY <1>1, <1>2, <1>3 DEF Moves, Overlap

(* Two calls in flight at once overlap.                                    *)
LEMMA InFlightOverlap ==
  ASSUME CallsInv, NEW c \in Calls, NEW d \in Calls, InFlight(c), InFlight(d)
  PROVE  Overlap(c, d)
BY DEF CallsInv, PrecededReturned, InFlight, Overlap
=============================================================================
