------------------------ MODULE RetailCheckout_proofs -----------------------
(***************************************************************************)
(* Proofs about RetailCheckout.  Evolves says of a step, whatever action   *)
(* it is, how one call moves on and what that does to the stored           *)
(* checkouts; every conjunct of the inductive invariant IInv is then shown *)
(* to survive such a step.  At the end, the way of an order's attributes.  *)
(***************************************************************************)
EXTENDS RetailOrders, SequenceTheorems, FiniteSetTheorems, TLAPS

(* TypeOK without its conjunct about the checkouts.                        *)
Typed == /\ env \in Environment
         /\ req \in [Calls -> Request]
         /\ pc \in [Calls -> PC]
         /\ stored \in [Customers -> Calls \cup {None}]
         /\ replica \in [Customers -> Calls \cup {None}]
         /\ lag \in Seq([customer : Customers, value : Calls \cup {None}])
         /\ clients \in [Clients -> ClientState]
         /\ opener \in [Clients -> Calls \cup {None}]
         /\ held \in [Calls -> Calls \cup {None}]
         /\ posted \subseteq Calls
         /\ ordered \subseteq Calls
         /\ restarts \in Nat
         /\ preceded \in [Calls -> SUBSET Calls]
         /\ stale \in [Calls -> BOOLEAN]
         /\ wiped \subseteq Calls

(* The call that awaits connect() waits, so that a failure is its result.  *)
Opening == \A k \in Clients : clients[k] = "connecting" =>
             /\ env.store = "redis"
             /\ opener[k] \in Calls /\ AtRepository(opener[k])
             /\ ClientOf(opener[k]) = k

(* An update holds what it has built, a reader nothing before it reads.    *)
Shape == \A c \in Calls :
  /\ pc[c] = "new" => held[c] = None
  /\ IsUpdate(c) => /\ pc[c] \in {"new", "badRequest", "write", "reply", "ok",
                                  "error", "dead"}
                    /\ pc[c] \in {"write", "reply", "ok", "error", "dead"}
                         => held[c] = c /\ IsValid(req[c].body)
                    /\ pc[c] = "badRequest" => held[c] = None
  /\ ~IsUpdate(c) => /\ pc[c] \notin {"write", "badRequest"}
                     /\ pc[c] \in {"new", "read"} => held[c] = None
                     /\ pc[c] \in {"order", "remove", "reply"} => IsSubmit(c)
                     /\ pc[c] \in {"order", "remove", "reply", "ok"}
                          => held[c] # None
  /\ pc[c] \in {"new", "read"} => ~stale[c]
  /\ preceded[c] \subseteq {d \in Calls : Returned(d)}

(* A checkout that is anywhere was written by an update for the customer.  *)
Written(v, u) == v \in Calls /\ IsUpdate(v) /\ CustomerOf(v) = u
                   /\ pc[v] \in {"reply", "ok", "dead"}

Owned == /\ \A u \in Customers : stored[u] = None \/ Written(stored[u], u)
         /\ \A u \in Customers : replica[u] = None \/ Written(replica[u], u)
         /\ \A i \in 1 .. Len(lag) : \/ lag[i].value = None
                                     \/ Written(lag[i].value, lag[i].customer)
         /\ \A c \in Calls : ~IsUpdate(c) =>
              held[c] = None \/ Written(held[c], CustomerOf(c))

(* Orders are those of submits that hold a checkout; one that has gone on  *)
(* to remove it has its order.                                             *)
Orders == /\ \A c \in posted \cup ordered :
               /\ IsSubmit(c) /\ held[c] # None
               /\ pc[c] \in {"order", "remove", "reply", "ok", "error", "dead"}
          /\ \A c \in Calls :
               (IsSubmit(c) /\ pc[c] \in {"remove", "reply", "ok"}) => Ordered(c)

(* What a submit has removed is not stored again, nor does an update leave *)
(* anything that was returned before it began.                             *)
Removed == \A c \in Calls :
  (IsSubmit(c) /\ pc[c] \in {"reply", "ok"}) => stored[CustomerOf(c)] # held[c]

Replaced == \A c \in Calls :
  (IsUpdate(c) /\ pc[c] \in {"reply", "ok"})
    => stored[CustomerOf(c)] \notin preceded[c]

(* Why the update u may be gone, as UpdateLossNeedsCause lists it.         *)
Cause(u) ==
  \/ u \in wiped
  \/ \E d \in Calls \ {u} :
       /\ SameCustomer(u, d) /\ Started(d) /\ d \notin preceded[u]
       /\ \/ IsUpdate(d)
          \/ /\ IsSubmit(d)
             /\ \/ held[d] = held[u] /\ Ordered(d)
                \/ Overlap(u, d)
                \/ stale[d]

(* An update that was stored is stored still or has a cause not to be; and *)
(* so has one that a later reader did not find.                            *)
Losses ==
  /\ \A u \in Calls : (IsUpdate(u) /\ pc[u] \in {"reply", "ok"})
       => stored[CustomerOf(u)] = u \/ Cause(u)
  /\ \A u, d \in Calls :
       (/\ IsUpdate(u) /\ pc[u] = "ok" /\ IsSubmit(d) /\ SameCustomer(u, d)
        /\ u \in preceded[d] /\ held[d] # None /\ ~stale[d])
         => held[d] = u \/ Cause(u)

IInv == /\ Typed /\ Opening /\ Shape /\ Owned /\ Orders
        /\ Removed /\ Replaced /\ ReadIsCurrent /\ Losses

-----------------------------------------------------------------------------
(* What a step does to a call.                                             *)
Kept(c) == /\ pc'[c] = pc[c] /\ held'[c] = held[c]
           /\ stale'[c] = stale[c] /\ preceded'[c] = preceded[c]

Begins(c) ==
  /\ pc[c] = "new" /\ stale'[c] = stale[c]
  /\ preceded'[c] = {d \in Calls : Returned(d)}
  /\ \/ IsUpdate(c) /\ pc'[c] = "write" /\ held'[c] = c /\ IsValid(req[c].body)
     \/ IsUpdate(c) /\ pc'[c] = "badRequest" /\ held'[c] = held[c]
     \/ ~IsUpdate(c) /\ pc'[c] = "read" /\ held'[c] = held[c]

Reads(c) ==
  /\ pc[c] = "read" /\ ~IsUpdate(c) /\ preceded'[c] = preceded[c]
  /\ held'[c] = ValueRead(CustomerOf(c))
  /\ stale'[c] = (held'[c] # stored[CustomerOf(c)])
  /\ stored' = stored
  /\ \/ ~IsSubmit(c) /\ pc'[c] = "ok" /\ held'[c] # None
     \/ ~IsSubmit(c) /\ pc'[c] = "notFound"
     \/ IsSubmit(c) /\ pc'[c] = "error"
     \/ IsSubmit(c) /\ pc'[c] = "order" /\ held'[c] # None
     \/ IsSubmit(c) /\ pc'[c] = "remove" /\ held'[c] # None /\ MockOrders

Advances(c) ==
  /\ held'[c] = held[c] /\ stale'[c] = stale[c] /\ preceded'[c] = preceded[c]
  /\ \/ /\ pc[c] = "write" /\ pc'[c] = "reply"
        /\ stored' = [stored EXCEPT ![CustomerOf(c)] = held[c]]
     \/ /\ pc[c] = "remove" /\ pc'[c] = "reply"
        /\ stored' = [stored EXCEPT ![CustomerOf(c)] = None]
     \/ pc[c] = "reply" /\ pc'[c] = "ok" /\ stored' = stored
     \/ pc[c] = "order" /\ pc'[c] = "remove" /\ c \in ordered /\ stored' = stored

Fails(c) ==
  /\ held'[c] = held[c] /\ stale'[c] = stale[c] /\ preceded'[c] = preceded[c]
  /\ \/ pc[c] \in {"read", "write", "order", "remove"} /\ pc'[c] = "error"
     \/ pc[c] \in {"read", "write", "order", "remove", "reply"} /\ pc'[c] = "dead"

(* One call goes on and all others are kept, or at most calls fail and     *)
(* checkouts are wiped.                                                    *)
OneMoves == \E c \in Calls :
  /\ \A d \in Calls \ {c} : Kept(d)
  /\ wiped' = wiped
  /\ \/ Begins(c) /\ stored' = stored
     \/ Reads(c)
     \/ Advances(c)

NoneMoves ==
  /\ \A c \in Calls : Kept(c) \/ Fails(c)
  /\ wiped \subseteq wiped'
  /\ \A u \in Customers :
       \/ stored'[u] = stored[u]
       \/ stored'[u] = None /\ stored[u] \in wiped' \cup {None}

Evolves == /\ env' = env /\ req' = req
           /\ ordered \subseteq ordered'
           /\ \A c \in (posted' \cup ordered') \ (posted \cup ordered) :
                Reads(c) /\ pc'[c] = "order"
           /\ OneMoves \/ NoneMoves

-----------------------------------------------------------------------------
(* What the type of req says of a request.                                 *)
LEMMA RequestTyped ==
  ASSUME Typed, NEW c \in Calls
  PROVE  /\ CustomerOf(c) \in Customers
         /\ IsUpdate(c) => req[c].body \in Bodies
         /\ IsUpdate(c) \/ IsGet(c) \/ IsSubmit(c)
         /\ ~(IsUpdate(c) /\ IsGet(c)) /\ ~(IsUpdate(c) /\ IsSubmit(c))
         /\ ~(IsGet(c) /\ IsSubmit(c))
<1>1. req[c] \in Request
  BY DEF Typed
<1> QED BY <1>1 DEF Request, Update, CustomerOf, IsUpdate, IsGet, IsSubmit

(* A shipping price is one of the table's, or unknown.                     *)
LEMMA ShippingTyped ==
  ASSUME NEW body PROVE Shipping(body) \in {-1, 5, 15}
<1> DEFINE hits == {i \in DOMAIN Rates : Rates[i].token = body.deliveryOptionToken}
           last == CHOOSE i \in hits : \A j \in hits : j <= i
<1>1. DOMAIN Rates = {1, 2} /\ Rates[1].amount = 5 /\ Rates[2].amount = 15
  BY DEF Rates
<1>2. hits # {} => \E i \in hits : \A j \in hits : j <= i
  <2>1. CASE 2 \in hits
    BY <1>1, <2>1
  <2>2. CASE 2 \notin hits
    BY <1>1, <2>2
  <2> QED BY <2>1, <2>2
<1>3. hits # {} => last \in {1, 2}
  <2> HIDE DEF hits
  <2>1. hits # {} => last \in hits
    BY <1>2
  <2> QED BY <1>1, <2>1 DEF hits
<1>4. Shipping(body) = IF hits = {} THEN -1 ELSE Rates[last].amount
  BY DEF Shipping
<1> HIDE DEF hits, last
<1> QED BY <1>1, <1>3, <1>4

(* The checkout of a valid body is what the class Checkout declares.       *)
LEMMA CheckoutTyped ==
  ASSUME Typed, NEW c \in Calls, IsUpdate(c), IsValid(req[c].body)
  PROVE  CheckoutOf(c) \in Checkout
<1> DEFINE body == req[c].body
<1>1. body \in Bodies /\ body.subtotal \in Int /\ body.subtotal >= 0
  BY RequestTyped, BodiesAssumption DEF IsValid
<1>2. Tax(body) \in Int /\ (Tax(body) = -1 \/ Tax(body) >= 0)
  BY <1>1 DEF Tax
<1>3. Total(body) \in Nat
  BY <1>1, <1>2 DEF Total
<1>4. Shipping(body) \in {-1, 5, 15}
  BY ShippingTyped
<1> QED BY <1>1, <1>2, <1>3, <1>4 DEF CheckoutOf, Checkout

(* The invariant implies the types that the runs check.                    *)
LEMMA TypeFollows == IInv => TypeOK
<1> SUFFICES ASSUME IInv, NEW c \in Calls, held[c] = c
             PROVE  CheckoutOf(c) \in Checkout
  BY DEF IInv, Typed, TypeOK
<1>1. IsUpdate(c)
  BY NoneAssumption DEF IInv, Owned, Written
<1>2. pc[c] \in PC /\ held[c] # None
  BY NoneAssumption DEF IInv, Typed
<1>3. IsValid(req[c].body)
  BY <1>1, <1>2 DEF IInv, Shape, PC
<1> QED BY <1>1, <1>3, CheckoutTyped DEF IInv

(* At first nothing is stored, held or posted.                             *)
LEMMA InitIInv == Init => IInv
<1> SUFFICES ASSUME Init PROVE IInv
  OBVIOUS
<1> USE DEF Init
<1>1. Typed
  BY DEF Typed, PC, ClientState
<1>2. Opening /\ Shape
  BY DEF Opening, Shape
<1>3. Owned /\ Orders
  BY DEF Owned, Orders
<1>4. Removed /\ Replaced /\ ReadIsCurrent /\ Losses
  BY DEF Removed, Replaced, ReadIsCurrent, Losses
<1> QED BY <1>1, <1>2, <1>3, <1>4 DEF IInv

-----------------------------------------------------------------------------
(* What a read finds is a call or None.                                    *)
LEMMA ValueTyped ==
  ASSUME Typed, NEW u \in Customers
  PROVE  ValueRead(u) \in Calls \cup {None}
BY DEF Typed, ValueRead

(* Every action keeps the types.                                           *)
LEMMA TypedStep == Typed /\ Shape /\ Opening /\ [Next]_vars => Typed'
<1> SUFFICES ASSUME Typed, Shape, Opening, [Next]_vars PROVE Typed'
  OBVIOUS
<1> USE RequestTyped DEF Typed, PC, ClientState, Clients
<1>1. CASE UNCHANGED vars
  BY <1>1 DEF vars
<1>2. ASSUME NEW c \in Calls, Begin(c) PROVE Typed'
  <2>1. pc' \in [Calls -> PC] /\ held' \in [Calls -> Calls \cup {None}]
    <3>1. \E l \in PC : pc' = [pc EXCEPT ![c] = l]
      BY <1>2 DEF Begin, Step
    <3>2. held' = held \/ held' = [held EXCEPT ![c] = c]
      BY <1>2 DEF Begin
    <3> QED BY <3>1, <3>2
  <2>2. preceded' \in [Calls -> SUBSET Calls]
    BY <1>2 DEF Begin
  <2>3. UNCHANGED <<env, req, stored, replica, lag, clients, opener, posted,
                    ordered, restarts, stale, wiped>>
    BY <1>2 DEF Begin
  <2> QED BY <2>1, <2>2, <2>3
<1>3. ASSUME NEW c \in Calls, OpenClient(c) PROVE Typed'
  <2>1. ClientOf(c) \in Clients
    BY DEF ClientOf
  <2> QED BY <1>3, <2>1 DEF OpenClient
<1>4. ASSUME NEW c \in Calls, ReadForGet(c) PROVE Typed'
  BY <1>4, ValueTyped DEF ReadForGet, Found, Step
<1>5. ASSUME NEW c \in Calls, ReadForSubmit(c) PROVE Typed'
  BY <1>5, ValueTyped DEF ReadForSubmit, Found, Step
<1>6. ASSUME NEW c \in Calls, NEW value \in Calls \cup {None},
             Put(CustomerOf(c), value), pc' \in [Calls -> PC]
      PROVE  Typed'
  <2>1. lag' \in Seq([customer : Customers, value : Calls \cup {None}])
    <3>1. CustomerOf(c) \in Customers
      BY RequestTyped
    <3>2. [customer |-> CustomerOf(c), value |-> value]
            \in [customer : Customers, value : Calls \cup {None}]
      BY <3>1
    <3> DEFINE Entry == [customer : Customers, value : Calls \cup {None}]
               entry == [customer |-> CustomerOf(c), value |-> value]
    <3>3. lag \in Seq(Entry) /\ entry \in Entry
      BY <3>2
    <3>4. lag' \in {lag, Append(lag, entry)}
      BY <1>6 DEF Put
    <3> HIDE DEF Entry, entry
    <3>5. lag' \in Seq(Entry)
      <4>1. Append(lag, entry) \in Seq(Entry)
        BY <3>3, AppendProperties
      <4> QED BY <3>3, <3>4, <4>1, Zenon
    <3> QED BY <3>5 DEF Entry
  <2>2. stored' \in [Customers -> Calls \cup {None}]
    BY <1>6 DEF Put
  <2> QED BY <1>6, <2>1, <2>2 DEF Put
<1>7. ASSUME NEW c \in Calls, Write(c) PROVE Typed'
  BY <1>6, <1>7 DEF Write, Step
<1>8. ASSUME NEW c \in Calls, Remove(c) PROVE Typed'
  BY <1>6, <1>8 DEF Remove, Step
<1>9. ASSUME NEW c \in Calls, Reply(c) \/ CommandFails(c) PROVE Typed'
  BY <1>9 DEF Reply, CommandFails, Step
<1>10. ASSUME NEW c \in Calls,
              CommitOrder(c) \/ RejectOrder(c) \/ OrderCreated(c) \/ ConnectionLost(c)
       PROVE  Typed'
  BY <1>10 DEF CommitOrder, RejectOrder, OrderCreated, ConnectionLost, Step,
     serviceVars
<1>11. ASSUME NEW k \in Clients, Connected(k) \/ ConnectFails(k) PROVE Typed'
  <2>1. clients' \in [Clients -> ClientState]
    BY <1>11 DEF Connected, ConnectFails
  <2>2. pc' \in [Calls -> PC]
    BY <1>11 DEF Connected, ConnectFails
  <2> QED BY <1>11, <2>1, <2>2 DEF Connected, ConnectFails
<1>12. CASE Replicate
  <2>1. /\ Head(lag) \in [customer : Customers, value : Calls \cup {None}]
        /\ lag' \in Seq([customer : Customers, value : Calls \cup {None}])
    <3> DEFINE Entry == [customer : Customers, value : Calls \cup {None}]
    <3>1. lag \in Seq(Entry) /\ lag # <<>> /\ lag' = Tail(lag)
      BY <1>12 DEF Replicate
    <3> HIDE DEF Entry
    <3>2. Head(lag) \in Entry /\ lag' \in Seq(Entry)
      BY <3>1, HeadTailProperties
    <3> QED BY <3>2 DEF Entry
  <2>2. Head(lag).value \in Calls \cup {None}
    BY <2>1
  <2>3. replica' = [replica EXCEPT ![Head(lag).customer] = Head(lag).value]
    BY <1>12 DEF Replicate
  <2>4. replica' \in [Customers -> Calls \cup {None}]
    <3> DEFINE Value == Calls \cup {None}
               u == Head(lag).customer
               v == Head(lag).value
    <3>1. replica \in [Customers -> Value] /\ v \in Value
      BY <2>2
    <3>2. replica' = [replica EXCEPT ![u] = v]
      BY <2>3
    <3> HIDE DEF Value, u, v
    <3>3. replica' \in [Customers -> Value]
      BY <3>1, <3>2
    <3> QED BY <3>3 DEF Value
  <2> QED BY <1>12, <2>1, <2>4 DEF Replicate
<1>13. CASE Restart
  <2>1. stored' \in [Customers -> Calls \cup {None}] /\ wiped' \subseteq Calls
    BY <1>13 DEF Restart
  <2>2. restarts' \in Nat /\ pc' \in [Calls -> PC]
    BY <1>13 DEF Restart
  <2> QED BY <1>13, <2>1, <2>2 DEF Restart
<1> QED BY <1>1, <1>2, <1>3, <1>4, <1>5, <1>7, <1>8, <1>9, <1>10, <1>11,
           <1>12, <1>13 DEF Next, Serve

(* No call moves that awaits a connect().                                  *)
LEMMA OpeningStep == Typed /\ Shape /\ Opening /\ [Next]_vars => Opening'
<1> SUFFICES ASSUME Typed, Shape, Opening, [Next]_vars,
                    NEW k \in Clients, clients'[k] = "connecting"
             PROVE  /\ env'.store = "redis"
                    /\ opener'[k] \in Calls /\ AtRepository(opener[k])'
                    /\ ClientOf(opener[k])' = k
  BY DEF Opening
<1> DEFINE o == opener[k]
<1> USE DEF AtRepository, ClientOf
<1>0. clients \in [Clients -> ClientState] /\ opener \in [Clients -> Calls \cup {None}]
      /\ pc \in [Calls -> PC]
  BY DEF Typed
<1>1. clients[k] = "connecting" =>
        /\ env.store = "redis" /\ o \in Calls /\ AtRepository(o)
        /\ ClientOf(o) = k
  BY DEF Opening
<1>2. ASSUME clients[k] = "connecting", env' = env, opener'[k] = o, pc'[o] = pc[o]
      PROVE  /\ env'.store = "redis"
             /\ opener'[k] \in Calls /\ AtRepository(opener[k])'
             /\ ClientOf(opener[k])' = k
  BY <1>1, <1>2
<1>3. ASSUME clients' = clients, opener' = opener, env' = env,
             NEW c \in Calls, pc[c] \in {"new", "order", "reply"} \/ CanUse(c)
                                \/ clients[ClientOf(c)] \in {"ready", "broken"},
             \A d \in Calls \ {c} : pc'[d] = pc[d]
      PROVE  /\ env'.store = "redis"
             /\ opener'[k] \in Calls /\ AtRepository(opener[k])'
             /\ ClientOf(opener[k])' = k
  <2>1. c # o
    BY <1>1, <1>3 DEF CanUse
  <2> QED BY <1>1, <1>2, <1>3, <2>1
<1>4. CASE UNCHANGED vars
  BY <1>1, <1>4 DEF vars
<1>5. ASSUME NEW c \in Calls, OpenClient(c)
      PROVE  /\ env'.store = "redis"
             /\ opener'[k] \in Calls /\ AtRepository(opener[k])'
             /\ ClientOf(opener[k])' = k
  <2>1. CASE k = ClientOf(c)
    BY <1>0, <1>5, <2>1 DEF OpenClient
  <2>2. CASE k # ClientOf(c)
    BY <1>0, <1>1, <1>5, <2>2 DEF OpenClient
  <2> QED BY <2>1, <2>2
<1>6. CASE \E c \in Calls : \/ Begin(c) \/ ReadForGet(c) \/ ReadForSubmit(c)
                            \/ Write(c) \/ Remove(c) \/ Reply(c)
                            \/ CommandFails(c) \/ OrderCreated(c)
                            \/ ConnectionLost(c)
  <2> PICK c \in Calls : \/ Begin(c) \/ ReadForGet(c) \/ ReadForSubmit(c)
                        \/ Write(c) \/ Remove(c) \/ Reply(c)
                        \/ CommandFails(c) \/ OrderCreated(c)
                        \/ ConnectionLost(c)
    BY <1>6
  <2>1. clients' = clients /\ opener' = opener /\ env' = env
    BY DEF Begin, ReadForGet, ReadForSubmit, Found, Write, Remove, Put, Reply,
       CommandFails, OrderCreated, ConnectionLost, serviceVars
  <2>2. \A d \in Calls \ {c} : pc'[d] = pc[d]
    BY <1>0 DEF Begin, ReadForGet, ReadForSubmit, Write, Remove, Reply,
       CommandFails, OrderCreated, ConnectionLost, Step
  <2>3. \/ pc[c] \in {"new", "order", "reply"} \/ CanUse(c)
        \/ clients[ClientOf(c)] \in {"ready", "broken"}
    BY DEF Begin, ReadForGet, ReadForSubmit, Write, Remove, Reply,
       CommandFails, OrderCreated, ConnectionLost, Step
  <2> QED BY <1>3, <2>1, <2>2, <2>3
<1>7. ASSUME NEW c \in Calls, CommitOrder(c) \/ RejectOrder(c)
      PROVE  /\ env'.store = "redis"
             /\ opener'[k] \in Calls /\ AtRepository(opener[k])'
             /\ ClientOf(opener[k])' = k
  <2>1. clients' = clients /\ opener' = opener /\ env' = env
    BY <1>7 DEF CommitOrder, RejectOrder, serviceVars
  <2>2. \A d \in Calls : pc[d] # "order" => pc'[d] = pc[d]
    BY <1>0, <1>7 DEF CommitOrder, RejectOrder
  <2> QED BY <1>1, <1>2, <2>1, <2>2
<1>8. ASSUME NEW j \in Clients, Connected(j) \/ ConnectFails(j)
      PROVE  /\ env'.store = "redis"
             /\ opener'[k] \in Calls /\ AtRepository(opener[k])'
             /\ ClientOf(opener[k])' = k
  <2>1. k # j /\ clients[k] = "connecting" /\ clients[j] = "connecting"
    BY <1>0, <1>8 DEF Connected, ConnectFails
  <2>2. opener[j] # o
    BY <1>1, <2>1 DEF Opening
  <2>3. pc'[o] = pc[o] /\ env' = env /\ opener' = opener
    BY <1>0, <1>1, <1>8, <2>1, <2>2 DEF Connected, ConnectFails
  <2> QED BY <1>2, <2>1, <2>3
<1>9. CASE Replicate
  BY <1>1, <1>9 DEF Replicate
<1>10. CASE Restart
  BY <1>10 DEF Restart
<1> QED BY <1>4, <1>5, <1>6, <1>7, <1>8, <1>9, <1>10 DEF Next, Serve

(* Every step of the service evolves.                                      *)
LEMMA EvolvesStep ==
  ASSUME Typed, Opening, [Next]_vars
  PROVE  Evolves
<1>0. /\ pc \in [Calls -> PC] /\ held \in [Calls -> Calls \cup {None}]
      /\ stale \in [Calls -> BOOLEAN] /\ preceded \in [Calls -> SUBSET Calls]
      /\ stored \in [Customers -> Calls \cup {None}]
  BY DEF Typed
<1>1. ASSUME /\ UNCHANGED <<env, req, stored, held, preceded, stale, wiped>>
             /\ ordered \subseteq ordered'
             /\ posted' \cup ordered' \subseteq posted \cup ordered
             /\ \A c \in Calls : \/ pc'[c] = pc[c]
                                \/ /\ pc[c] \in {"read", "write", "order", "remove"}
                                   /\ pc'[c] = "error"
      PROVE  Evolves
  BY <1>1 DEF Evolves, NoneMoves, Kept, Fails
<1>2. CASE UNCHANGED vars
  BY <1>1, <1>2 DEF vars
<1>3. ASSUME NEW c \in Calls, Begin(c) PROVE Evolves
  <2>1. \A d \in Calls \ {c} : Kept(d)
    BY <1>0, <1>3 DEF Begin, Step, Kept
  <2>2. Begins(c)
    BY <1>0, <1>3 DEF Begin, Step, Begins
  <2> QED BY <1>3, <2>1, <2>2 DEF Begin, Evolves, OneMoves
<1>4. ASSUME NEW c \in Calls, OpenClient(c) PROVE Evolves
  BY <1>1, <1>4 DEF OpenClient
<1>5. ASSUME NEW c \in Calls, ReadForGet(c) PROVE Evolves
  <2>1. \A d \in Calls \ {c} : Kept(d)
    BY <1>0, <1>5 DEF ReadForGet, Found, Step, Kept
  <2>2. Reads(c)
    BY <1>0, <1>5, RequestTyped DEF ReadForGet, Found, Step, Reads
  <2> QED BY <1>5, <2>1, <2>2 DEF ReadForGet, Found, Evolves, OneMoves
<1>6. ASSUME NEW c \in Calls, ReadForSubmit(c) PROVE Evolves
  <2>1. \A d \in Calls \ {c} : Kept(d)
    BY <1>0, <1>6 DEF ReadForSubmit, Found, Step, Kept
  <2>2. Reads(c)
    BY <1>0, <1>6, RequestTyped DEF ReadForSubmit, Found, Step, Reads
  <2>3. \A d \in (posted' \cup ordered') \ (posted \cup ordered) :
          Reads(d) /\ pc'[d] = "order"
    BY <1>0, <1>6, <2>2 DEF ReadForSubmit, Found, Step
  <2> QED BY <1>6, <2>1, <2>2, <2>3 DEF ReadForSubmit, Found, Evolves, OneMoves
<1>7. ASSUME NEW c \in Calls, Write(c) PROVE Evolves
  <2>1. \A d \in Calls \ {c} : Kept(d)
    BY <1>0, <1>7 DEF Write, Put, Step, Kept
  <2>2. Advances(c)
    BY <1>0, <1>7 DEF Write, Put, Step, Advances
  <2> QED BY <1>7, <2>1, <2>2 DEF Write, Put, Evolves, OneMoves
<1>8. ASSUME NEW c \in Calls, Remove(c) PROVE Evolves
  <2>1. \A d \in Calls \ {c} : Kept(d)
    BY <1>0, <1>8 DEF Remove, Put, Step, Kept
  <2>2. Advances(c)
    BY <1>0, <1>8 DEF Remove, Put, Step, Advances
  <2> QED BY <1>8, <2>1, <2>2 DEF Remove, Put, Evolves, OneMoves
<1>9. ASSUME NEW c \in Calls, Reply(c) PROVE Evolves
  <2>1. \A d \in Calls \ {c} : Kept(d)
    BY <1>0, <1>9 DEF Reply, Step, Kept
  <2>2. Advances(c)
    BY <1>0, <1>9 DEF Reply, Step, Advances
  <2> QED BY <1>9, <2>1, <2>2 DEF Reply, Evolves, OneMoves
<1>10. ASSUME NEW c \in Calls, CommandFails(c) PROVE Evolves
  <2>1. pc[c] \in {"read", "write", "order", "remove"}
    BY <1>10 DEF CommandFails, AtRepository
  <2>2. \A d \in Calls : pc'[d] = IF d = c THEN "error" ELSE pc[d]
    BY <1>0, <1>10 DEF CommandFails
  <2> QED BY <1>1, <1>10, <2>1, <2>2 DEF CommandFails
<1>11. ASSUME NEW c \in Calls, CommitOrder(c) PROVE Evolves
  BY <1>1, <1>11 DEF CommitOrder, serviceVars
<1>12. ASSUME NEW c \in Calls, RejectOrder(c) PROVE Evolves
  <2>1. \A d \in Calls : pc'[d] = pc[d] \/ (pc[d] = "order" /\ pc'[d] = "error")
    BY <1>0, <1>12 DEF RejectOrder
  <2> QED BY <1>1, <1>12, <2>1 DEF RejectOrder, serviceVars
<1>13. ASSUME NEW c \in Calls, OrderCreated(c) PROVE Evolves
  <2>1. \A d \in Calls \ {c} : Kept(d)
    BY <1>0, <1>13 DEF OrderCreated, serviceVars, Step, Kept
  <2>2. Advances(c)
    BY <1>0, <1>13 DEF OrderCreated, serviceVars, Step, Advances
  <2> QED BY <1>13, <2>1, <2>2 DEF OrderCreated, serviceVars, Evolves, OneMoves
<1>14. ASSUME NEW c \in Calls, ConnectionLost(c) PROVE Evolves
  <2>1. \A d \in Calls : pc'[d] = pc[d] \/ (pc[d] = "order" /\ pc'[d] = "error")
    BY <1>0, <1>14 DEF ConnectionLost, Step
  <2> QED BY <1>1, <1>14, <2>1 DEF ConnectionLost, serviceVars
<1>15. ASSUME NEW k \in Clients, Connected(k) PROVE Evolves
  BY <1>1, <1>15 DEF Connected
<1>16. ASSUME NEW k \in Clients, ConnectFails(k) PROVE Evolves
  <2>1. pc[opener[k]] \in {"read", "write", "order", "remove"}
    BY <1>16 DEF ConnectFails, Opening, AtRepository
  <2>2. \A d \in Calls : pc'[d] = IF d = opener[k] THEN "error" ELSE pc[d]
    BY <1>0, <1>16 DEF ConnectFails
  <2> QED BY <1>1, <1>16, <2>1, <2>2 DEF ConnectFails
<1>17. CASE Replicate
  BY <1>1, <1>17 DEF Replicate
<1>18. CASE Restart
  <2>1. \A c \in Calls : Kept(c) \/ Fails(c)
    <3> SUFFICES ASSUME NEW c \in Calls PROVE Kept(c) \/ Fails(c)
      OBVIOUS
    <3>1. pc'[c] = IF InFlight(c) THEN "dead" ELSE pc[c]
      BY <1>18 DEF Restart
    <3>2. InFlight(c) => pc[c] \in {"read", "write", "order", "remove", "reply"}
      BY <1>0 DEF InFlight, Started, Returned, Results, PC
    <3> QED BY <1>18, <3>1, <3>2 DEF Restart, Kept, Fails
  <2>2. \A u \in Customers :
          \/ stored'[u] = stored[u]
          \/ stored'[u] = None /\ stored[u] \in wiped' \cup {None}
    BY <1>0, <1>18 DEF Restart
  <2>3. NoneMoves
    BY <1>18, <2>1, <2>2 DEF Restart, NoneMoves
  <2> QED BY <1>18, <2>3 DEF Restart, Evolves
<1> QED BY <1>2, <1>3, <1>4, <1>5, <1>6, <1>7, <1>8, <1>9, <1>10, <1>11,
           <1>12, <1>13, <1>14, <1>15, <1>16, <1>17, <1>18 DEF Next, Serve

-----------------------------------------------------------------------------
(* A step that evolves either moves one call or lets calls fail.           *)
LEMMA Moves ==
  ASSUME Evolves, NEW c \in Calls
  PROVE  Kept(c) \/ Begins(c) \/ Reads(c) \/ Advances(c) \/ Fails(c)
BY DEF Evolves, OneMoves, NoneMoves

(* What a call asks for does not change.                                   *)
LEMMA OperationsKept ==
  ASSUME Evolves
  PROVE  /\ MockOrders' = MockOrders
         /\ \A c \in Calls :
              /\ IsUpdate(c)' = IsUpdate(c) /\ IsSubmit(c)' = IsSubmit(c)
              /\ CustomerOf(c)' = CustomerOf(c) /\ req'[c] = req[c]
BY DEF Evolves, IsUpdate, IsSubmit, CustomerOf, MockOrders

(* What has returned stays as it is.                                       *)
LEMMA ReturnedKept ==
  ASSUME Evolves, NEW c \in Calls, Returned(c)
  PROVE  Kept(c) /\ Returned(c)'
BY Moves DEF Returned, Results, Kept, Begins, Reads, Advances, Fails

(* A call that moves keeps its shape.                                      *)
LEMMA ShapeStep ==
  ASSUME Typed, Typed', Shape, Evolves
  PROVE  Shape'
<1> SUFFICES ASSUME NEW c \in Calls
    PROVE /\ pc'[c] = "new" => held'[c] = None
          /\ IsUpdate(c) => /\ pc'[c] \in {"new", "badRequest", "write", "reply",
                                            "ok", "error", "dead"}
                            /\ pc'[c] \in {"write", "reply", "ok", "error", "dead"}
                                 => held'[c] = c /\ IsValid(req[c].body)
                            /\ pc'[c] = "badRequest" => held'[c] = None
          /\ ~IsUpdate(c) => /\ pc'[c] \notin {"write", "badRequest"}
                             /\ pc'[c] \in {"new", "read"} => held'[c] = None
                             /\ pc'[c] \in {"order", "remove", "reply"} => IsSubmit(c)
                             /\ pc'[c] \in {"order", "remove", "reply", "ok"}
                                  => held'[c] # None
          /\ pc'[c] \in {"new", "read"} => ~stale'[c]
          /\ preceded'[c] \subseteq {d \in Calls : Returned(d)'}
  BY OperationsKept DEF Shape
<1>1. preceded'[c] \subseteq {d \in Calls : Returned(d)'}
  <2>1. preceded'[c] \subseteq {d \in Calls : Returned(d)}
    BY Moves DEF Shape, Kept, Begins, Reads, Advances, Fails
  <2> QED BY <2>1, ReturnedKept
<1>2. /\ stale[c] \in BOOLEAN /\ stale'[c] \in BOOLEAN
      /\ pc[c] \in {"new", "read"} => ~stale[c]
  BY DEF Typed, Shape
<1>3. CASE Kept(c)
  BY <1>1, <1>3 DEF Kept, Shape
<1>4. CASE Begins(c)
  BY <1>1, <1>2, <1>4 DEF Begins, Shape
<1>5. CASE Reads(c)
  BY <1>1, <1>5 DEF Reads
<1>6. CASE Advances(c)
  BY <1>1, <1>6 DEF Advances, Shape
<1>7. CASE Fails(c)
  BY <1>1, <1>7 DEF Fails, Shape
<1> QED BY <1>3, <1>4, <1>5, <1>6, <1>7, Moves

(* An update that has been stored has been.                                *)
StaysWritten(v, u) == v \in Calls /\ IsUpdate(v) /\ CustomerOf(v) = u
                        /\ pc'[v] \in {"reply", "ok", "dead"}

(* A checkout that was written stays so.                                   *)
LEMMA WrittenKept ==
  ASSUME Typed, Evolves, NEW v, NEW u, Written(v, u)
  PROVE  StaysWritten(v, u)
BY Moves DEF Written, StaysWritten, Kept, Begins, Reads, Advances, Fails

(* The writes on their way to the replica are those of the primary.        *)
LEMMA StreamStep ==
  ASSUME Typed, [Next]_vars
  PROVE  /\ \/ lag' = lag
            \/ lag # <<>> /\ lag' = Tail(lag)
            \/ \E u \in Customers, v \in Calls \cup {None} :
                 /\ lag' = Append(lag, [customer |-> u, value |-> v])
                 /\ stored'[u] = v
         /\ \/ replica' = replica
            \/ /\ lag # <<>>
               /\ replica' = [replica EXCEPT ![Head(lag).customer] = Head(lag).value]
<1> DEFINE Streams == lag' = lag \/ \E u \in Customers, v \in Calls \cup {None} :
                 /\ lag' = Append(lag, [customer |-> u, value |-> v])
                 /\ stored'[u] = v
<1>1. ASSUME NEW c \in Calls, NEW v \in Calls \cup {None}, Put(CustomerOf(c), v)
      PROVE  Streams /\ replica' = replica
  <2>1. CustomerOf(c) \in Customers
    BY RequestTyped
  <2>2. stored'[CustomerOf(c)] = v
    BY <1>1, <2>1 DEF Put, Typed
  <2> QED BY <1>1, <2>1, <2>2 DEF Put
<1>2. CASE UNCHANGED vars
  BY <1>2 DEF vars
<1>3. ASSUME NEW c \in Calls, Write(c) \/ Remove(c) PROVE Streams /\ replica' = replica
  <2>1. held[c] \in Calls \cup {None}
    BY DEF Typed
  <2> QED BY <1>1, <1>3, <2>1 DEF Write, Remove
<1>4. ASSUME NEW c \in Calls,
             \/ Begin(c) \/ OpenClient(c) \/ ReadForGet(c) \/ ReadForSubmit(c)
             \/ Reply(c) \/ CommandFails(c) \/ CommitOrder(c) \/ RejectOrder(c)
             \/ OrderCreated(c) \/ ConnectionLost(c)
      PROVE  lag' = lag /\ replica' = replica
  BY <1>4 DEF Begin, OpenClient, ReadForGet, ReadForSubmit, Found, Reply,
     CommandFails, CommitOrder, RejectOrder, OrderCreated, ConnectionLost,
     serviceVars
<1>5. ASSUME NEW k \in Clients, Connected(k) \/ ConnectFails(k)
      PROVE  lag' = lag /\ replica' = replica
  BY <1>5 DEF Connected, ConnectFails
<1>6. CASE Replicate
  BY <1>6 DEF Replicate
<1>7. CASE Restart
  BY <1>7 DEF Restart
<1> QED BY <1>2, <1>3, <1>4, <1>5, <1>6, <1>7 DEF Next, Serve

(* A write stores the writer's checkout, a read holds the customer's.      *)
LEMMA OwnedStep ==
  ASSUME Typed, Shape, Owned, Evolves, [Next]_vars
  PROVE  Owned'
<1> USE WrittenKept
<1>1. ASSUME NEW u \in Customers PROVE stored'[u] = None \/ StaysWritten(stored'[u], u)
  <2>1. stored[u] = None \/ Written(stored[u], u)
    BY DEF Owned
  <2>2. CASE stored'[u] = stored[u]
    BY <2>1, <2>2
  <2>3. CASE stored'[u] # stored[u] /\ OneMoves
    <3>1. PICK c \in Calls : Advances(c) /\ stored' # stored
      BY <2>3 DEF OneMoves, Reads
    <3>2. stored'[u] = None \/ (/\ stored'[u] = held[c] /\ CustomerOf(c) = u
                                /\ pc[c] = "write" /\ pc'[c] = "reply")
      BY <2>3, <3>1, RequestTyped DEF Advances, Typed
    <3>3. pc[c] = "write" => IsUpdate(c) /\ held[c] = c
      BY DEF Shape
    <3> QED BY <3>2, <3>3 DEF StaysWritten
  <2>4. CASE stored'[u] # stored[u] /\ NoneMoves
    BY <2>4 DEF NoneMoves
  <2> QED BY <2>2, <2>3, <2>4 DEF Evolves
<1> DEFINE Entry == [customer : Customers, value : Calls \cup {None}]
           Good(e) == e.value = None \/ StaysWritten(e.value, e.customer)
<1>2. lag \in Seq(Entry) /\ \A i \in 1 .. Len(lag) : Good(lag[i])
  <2>1. lag \in Seq(Entry)
    BY DEF Typed
  <2>2. ASSUME NEW i \in 1 .. Len(lag) PROVE Good(lag[i])
    <3>1. lag[i].value = None \/ Written(lag[i].value, lag[i].customer)
      BY DEF Owned
    <3> QED BY <3>1
  <2> QED BY <2>1, <2>2
<1>3. ASSUME NEW u \in Customers PROVE replica'[u] = None \/ StaysWritten(replica'[u], u)
  <2>1. replica[u] = None \/ StaysWritten(replica[u], u)
    BY DEF Owned
  <2>2. CASE replica' = replica
    BY <2>1, <2>2
  <2>3. CASE /\ lag # <<>>
             /\ replica' = [replica EXCEPT ![Head(lag).customer] = Head(lag).value]
    <3>1. Good(Head(lag))
      <4> HIDE DEF Entry, Good
      <4>1. Head(lag) = lag[1] /\ Len(lag) \in Nat /\ Len(lag) # 0
        BY <1>2, <2>3, HeadTailProperties, EmptySeq
      <4> QED BY <1>2, <4>1
    <3>2. \/ replica'[u] = replica[u]
          \/ Head(lag).customer = u /\ replica'[u] = Head(lag).value
      BY <2>3 DEF Typed
    <3> QED BY <2>1, <3>1, <3>2
  <2> QED BY <2>2, <2>3, StreamStep
<1>4. ASSUME NEW i \in 1 .. Len(lag') PROVE Good(lag'[i])
  <2>1. ASSUME NEW u \in Customers, NEW v \in Calls \cup {None}, stored'[u] = v
        PROVE  [customer |-> u, value |-> v] \in Entry /\ Good([customer |-> u, value |-> v])
    BY <1>1, <2>1
  <2> HIDE DEF Entry, Good
  <2>2. CASE lag' = lag
    BY <1>2, <2>2
  <2>3. CASE lag # <<>> /\ lag' = Tail(lag)
    <3>1. Len(lag') = Len(lag) - 1 /\ lag'[i] = lag[i + 1] /\ Len(lag) \in Nat
      BY <1>2, <2>3, HeadTailProperties
    <3> QED BY <1>2, <3>1
  <2>4. ASSUME NEW u \in Customers, NEW v \in Calls \cup {None}, stored'[u] = v,
               lag' = Append(lag, [customer |-> u, value |-> v])
        PROVE  Good(lag'[i])
    <3> DEFINE e == [customer |-> u, value |-> v]
    <3>1. e \in Entry /\ Good(e)
      BY <2>1, <2>4
    <3>2. lag' = Append(lag, e)
      BY <2>4
    <3> HIDE DEF e
    <3>3. /\ Len(lag') = Len(lag) + 1 /\ Len(lag) \in Nat
          /\ lag'[Len(lag) + 1] = e
          /\ \A j \in 1 .. Len(lag) : lag'[j] = lag[j]
      BY <1>2, <3>1, <3>2, AppendProperties
    <3> QED BY <1>2, <3>1, <3>3
  <2> QED BY <2>2, <2>3, <2>4, StreamStep
<1>5. ASSUME NEW c \in Calls, ~IsUpdate(c)
      PROVE  held'[c] = None \/ StaysWritten(held'[c], CustomerOf(c))
  <2>1. CustomerOf(c) \in Customers
    BY RequestTyped
  <2>2. CASE held'[c] = held[c]
    BY <1>5, <2>2 DEF Owned
  <2>3. CASE Reads(c)
    <3>1. held'[c] = ValueRead(CustomerOf(c))
      BY <2>3 DEF Reads
    <3> QED BY <2>1, <3>1 DEF Owned, ValueRead
  <2> QED BY <1>5, <2>2, <2>3, Moves DEF Kept, Begins, Advances, Fails
<1>6. /\ \A v, u : StaysWritten(v, u) => Written(v, u)'
  BY OperationsKept DEF StaysWritten, Written
<1>7. \A c \in Calls : IsUpdate(c)' = IsUpdate(c) /\ CustomerOf(c)' = CustomerOf(c)
  BY OperationsKept
<1> QED BY <1>1, <1>3, <1>4, <1>5, <1>6, <1>7 DEF Owned, StaysWritten, Written

(* Only a submit that holds a checkout posts an order.                     *)
LEMMA OrdersStep ==
  ASSUME Typed, Typed', Shape, Orders, Evolves
  PROVE  Orders'
<1>1. ASSUME NEW c \in posted' \cup ordered', c \in Calls
      PROVE  /\ IsSubmit(c) /\ held'[c] # None
             /\ pc'[c] \in {"order", "remove", "reply", "ok", "error", "dead"}
  <2>1. CASE c \in posted \cup ordered
    <3>1. /\ IsSubmit(c) /\ ~IsUpdate(c) /\ held[c] # None
          /\ pc[c] \in {"order", "remove", "reply", "ok", "error", "dead"}
      BY <1>1, <2>1, RequestTyped DEF Orders
    <3> QED BY <1>1, <3>1, Moves DEF Kept, Begins, Reads, Advances, Fails
  <2>2. CASE c \notin posted \cup ordered
    BY <1>1, <2>2 DEF Evolves, Reads
  <2> QED BY <2>1, <2>2
<1>2. posted' \subseteq Calls /\ ordered' \subseteq Calls
  BY DEF Typed
<1>3. ASSUME NEW c \in Calls, IsSubmit(c), pc'[c] \in {"remove", "reply", "ok"}
      PROVE  MockOrders \/ c \in ordered'
  <2>1. pc[c] \in {"remove", "reply", "ok"} => MockOrders \/ c \in ordered
    BY <1>3 DEF Orders, Ordered
  <2>2. ordered \subseteq ordered' /\ ~IsUpdate(c) /\ pc[c] # "write"
    BY <1>3, RequestTyped DEF Evolves, Shape
  <2> QED BY <1>3, <2>1, <2>2, Moves DEF Kept, Begins, Reads, Advances, Fails
<1> QED BY <1>1, <1>2, <1>3, OperationsKept DEF Orders, Ordered

(* Only its update could put back what a submit removed, and that has      *)
(* written.                                                                *)
LEMMA RemovedStep ==
  ASSUME Typed, Shape, Owned, Removed, Evolves
  PROVE  Removed'
<1> SUFFICES ASSUME NEW c \in Calls, IsSubmit(c), pc'[c] \in {"reply", "ok"}
             PROVE  stored'[CustomerOf(c)] # held'[c]
  BY OperationsKept DEF Removed
<1> DEFINE u == CustomerOf(c)
<1>1. u \in Customers /\ ~IsUpdate(c)
  BY RequestTyped
<1>2. held'[c] = held[c] /\ pc[c] \in {"remove", "reply", "ok"}
  BY <1>1, Moves DEF Shape, Kept, Begins, Reads, Advances, Fails
<1>3. held[c] # None /\ Written(held[c], u)
  BY <1>1, <1>2 DEF Shape, Owned
<1>4. CASE stored'[u] = stored[u] /\ pc[c] \in {"reply", "ok"}
  BY <1>2, <1>4 DEF Removed
<1>5. CASE stored'[u] = None
  BY <1>2, <1>3, <1>5
<1>6. CASE OneMoves
  <2> PICK d \in Calls : /\ \A e \in Calls \ {d} : Kept(e)
                         /\ \/ stored' = stored /\ (Begins(d) \/ Reads(d))
                            \/ Advances(d)
    BY <1>6 DEF OneMoves, Reads
  <2>1. CASE stored' = stored /\ (Begins(d) \/ Reads(d))
    <3>1. c # d
      BY <1>2, <2>1 DEF Begins, Reads
    <3> QED BY <1>4, <2>1, <3>1 DEF Kept
  <2>2. CASE Advances(d) /\ c = d
    BY <1>1, <1>2, <1>4, <1>5, <2>2 DEF Advances, Typed
  <2>3. CASE Advances(d) /\ c # d
    <3>1. pc[c] \in {"reply", "ok"}
      BY <2>3 DEF Kept
    <3>2. \/ stored'[u] \in {stored[u], None}
          \/ pc[d] = "write" /\ stored'[u] = d
      BY <1>1, <2>3 DEF Advances, Typed, Shape
    <3>3. pc[d] = "write" => held[c] # d
      BY <1>3 DEF Written
    <3> QED BY <1>2, <1>4, <1>5, <3>1, <3>2, <3>3
  <2> QED BY <2>1, <2>2, <2>3
<1>7. CASE NoneMoves
  <2>1. stored'[u] = stored[u] \/ stored'[u] = None
    BY <1>1, <1>7 DEF NoneMoves
  <2>2. pc[c] \in {"reply", "ok"}
    BY <1>7 DEF NoneMoves, Kept, Fails
  <2> QED BY <1>4, <1>5, <2>1, <2>2
<1> QED BY <1>6, <1>7 DEF Evolves

(* Likewise for what an update wrote over.                                 *)
LEMMA ReplacedStep ==
  ASSUME Typed, Shape, Replaced, Evolves
  PROVE  Replaced'
<1> SUFFICES ASSUME NEW c \in Calls, IsUpdate(c), pc'[c] \in {"reply", "ok"}
             PROVE  stored'[CustomerOf(c)] \notin preceded'[c]
  BY OperationsKept DEF Replaced
<1> DEFINE u == CustomerOf(c)
<1>1. u \in Customers
  BY RequestTyped
<1>2. preceded'[c] = preceded[c] /\ pc[c] \in {"write", "reply", "ok"}
  BY Moves DEF Shape, Kept, Begins, Reads, Advances, Fails
<1>3. preceded[c] \subseteq {d \in Calls : Returned(d)} /\ None \notin preceded[c]
  BY NoneAssumption DEF Shape
<1>4. CASE stored'[u] = stored[u] /\ pc[c] \in {"reply", "ok"}
  BY <1>2, <1>4 DEF Replaced
<1>5. CASE stored'[u] = None
  BY <1>2, <1>3, <1>5
<1>6. CASE OneMoves
  <2> PICK d \in Calls : /\ \A e \in Calls \ {d} : Kept(e)
                         /\ \/ stored' = stored /\ (Begins(d) \/ Reads(d))
                            \/ Advances(d)
    BY <1>6 DEF OneMoves, Reads
  <2>1. CASE stored' = stored /\ (Begins(d) \/ Reads(d))
    <3>1. c # d
      BY <1>2, <2>1 DEF Begins, Reads
    <3> QED BY <1>4, <2>1, <3>1 DEF Kept
  <2>2. CASE Advances(d)
    <3>1. \/ pc[d] = "write" /\ stored'[u] = d
          \/ stored'[u] = None
          \/ stored'[u] = stored[u] /\ (c = d => pc[c] \in {"reply", "ok"})
      BY <1>1, <1>2, <2>2 DEF Advances, Typed, Shape
    <3>2. c # d => pc[c] \in {"reply", "ok"}
      BY DEF Kept
    <3>3. pc[d] = "write" => d \notin preceded[c]
      BY <1>3 DEF Returned, Results
    <3> QED BY <1>2, <1>4, <1>5, <3>1, <3>2, <3>3
  <2> QED BY <2>1, <2>2
<1>7. CASE NoneMoves
  <2>1. stored'[u] = stored[u] \/ stored'[u] = None
    BY <1>1, <1>7 DEF NoneMoves
  <2>2. pc[c] \in {"reply", "ok"}
    BY <1>7 DEF NoneMoves, Kept, Fails
  <2> QED BY <1>4, <1>5, <2>1, <2>2
<1> QED BY <1>6, <1>7 DEF Evolves

(* A call that reads the primary finds nothing that Removed or Replaced    *)
(* excludes; what returned before it began is as it was.                   *)
LEMMA ReadIsCurrentStep ==
  ASSUME Typed, Shape, Removed, Replaced, ReadIsCurrent, Evolves
  PROVE  ReadIsCurrent'
<1> SUFFICES ASSUME NEW c \in Calls, NEW d \in Calls,
                    ~IsUpdate(c), held'[c] # None, ~stale'[c],
                    d \in preceded'[c], SameCustomer(c, d), pc'[d] = "ok"
             PROVE  /\ IsSubmit(d) => held'[d] # held'[c]
                    /\ IsUpdate(d) => held'[c] \notin preceded'[d]
  BY OperationsKept DEF ReadIsCurrent, SameCustomer
<1>1. ~Begins(c)
  BY DEF Begins, Shape
<1>2. d \in preceded[c]
  BY <1>1, Moves DEF Kept, Reads, Advances, Fails
<1>3. Kept(d) /\ pc[d] = "ok"
  BY <1>2, ReturnedKept DEF Shape, Kept
<1>4. CASE held'[c] = held[c] /\ stale'[c] = stale[c]
  BY <1>2, <1>3, <1>4 DEF ReadIsCurrent, Kept
<1>5. CASE Reads(c)
  <2>1. held'[c] = stored[CustomerOf(d)]
    BY <1>5 DEF Reads, SameCustomer
  <2> QED BY <1>3, <2>1 DEF Removed, Replaced, Kept
<1> QED BY <1>1, <1>4, <1>5, Moves DEF Kept, Advances, Fails

(* A cause once given stays one.                                           *)
LEMMA CauseKept ==
  ASSUME Typed, Shape, Evolves, NEW u \in Calls, IsUpdate(u),
         pc[u] \in {"reply", "ok"}, Cause(u)
  PROVE  Cause(u)'
<1>1. /\ held[u] = u /\ held'[u] = u /\ preceded'[u] = preceded[u]
      /\ Started(u) /\ Started(u)' /\ u # None
  BY NoneAssumption, Moves
     DEF Shape, Started, Kept, Begins, Reads, Advances, Fails
<1>2. CASE u \in wiped
  BY <1>2 DEF Evolves, OneMoves, NoneMoves, Cause
<1>3. CASE u \notin wiped
  <2> PICK d \in Calls \ {u} :
        /\ SameCustomer(u, d) /\ Started(d) /\ d \notin preceded[u]
        /\ \/ IsUpdate(d)
           \/ /\ IsSubmit(d)
              /\ \/ held[d] = held[u] /\ Ordered(d)
                 \/ Overlap(u, d)
                 \/ stale[d]
    BY <1>3 DEF Cause
  <2>1. Started(d)' /\ preceded'[d] = preceded[d]
    BY Moves DEF Started, Kept, Begins, Reads, Advances, Fails
  <2>2. held[d] # None \/ stale[d] => held'[d] = held[d] /\ stale'[d] = stale[d]
    BY Moves DEF Started, Shape, Kept, Begins, Reads, Advances, Fails
  <2>3. SameCustomer(u, d)' /\ IsUpdate(d)' = IsUpdate(d) /\ IsSubmit(d)' = IsSubmit(d)
    BY OperationsKept DEF SameCustomer
  <2>4. d \notin preceded'[u]
    BY <1>1
  <2>5. held[d] = held[u] /\ Ordered(d) => held'[d] = held'[u] /\ Ordered(d)'
    BY <1>1, <2>2, OperationsKept DEF Ordered, Evolves
  <2>6. Overlap(u, d) => Overlap(u, d)'
    BY <1>1, <2>1 DEF Overlap
  <2>7. stale[d] => stale'[d]
    BY <2>2
  <2>8. IsUpdate(d)' \/ (/\ IsSubmit(d)'
                         /\ \/ held'[d] = held'[u] /\ Ordered(d)'
                            \/ Overlap(u, d)'
                            \/ stale'[d])
    <3>1. CASE IsUpdate(d)
      BY <2>3, <3>1
    <3>2. CASE IsSubmit(d) /\ held[d] = held[u] /\ Ordered(d)
      BY <2>3, <2>5, <3>2
    <3>3. CASE IsSubmit(d) /\ Overlap(u, d)
      BY <2>3, <2>6, <3>3
    <3>4. CASE IsSubmit(d) /\ stale[d]
      BY <2>3, <2>7, <3>4
    <3> QED BY <3>1, <3>2, <3>3, <3>4
  <2> QED BY <2>1, <2>3, <2>4, <2>8 DEF Cause
<1> QED BY <1>2, <1>3

(* The call that overwrites an update is a cause: a later or overlapping   *)
(* update, or a submit that holds it, overlaps it or read a stale replica. *)
LEMMA OverwriteHasCause ==
  ASSUME Typed, Shape, Orders, Losses, Evolves,
         NEW u \in Calls, IsUpdate(u), pc[u] \in {"reply", "ok"}, Kept(u),
         NEW d \in Calls, d # u, SameCustomer(u, d), Advances(d),
         pc[d] \in {"write", "remove"}
  PROVE  Cause(u)'
<1>1. d \notin preceded[u] /\ Started(u) /\ Started(d) /\ held[u] = u
  BY DEF Shape, Returned, Results, Started
<1>2. CASE pc[d] = "write"
  <2>1. IsUpdate(d)' /\ SameCustomer(u, d)'
    BY <1>2, OperationsKept DEF Shape, SameCustomer
  <2>2. Started(d)' /\ d \notin preceded'[u]
    BY <1>1, <1>2 DEF Advances, Started, Kept
  <2> QED BY <2>1, <2>2 DEF Cause
<1>3. CASE pc[d] = "remove"
  <2>1. IsSubmit(d) /\ ~IsUpdate(d) /\ held[d] # None
    BY <1>3 DEF Shape
  <2>2. SUFFICES Cause(u)
    BY CauseKept
  <2>3. CASE stale[d] \/ u \notin preceded[d]
    BY <1>1, <2>1, <2>3 DEF Cause, Overlap
  <2>4. CASE ~stale[d] /\ u \in preceded[d]
    <3>1. pc[u] = "ok"
      BY <2>4 DEF Shape, Returned, Results
    <3>2. held[d] = u \/ Cause(u)
      BY <2>1, <2>4, <3>1 DEF Losses
    <3>3. Ordered(d)
      BY <1>3, <2>1 DEF Orders
    <3> QED BY <1>1, <2>1, <3>2, <3>3 DEF Cause
  <2> QED BY <2>3, <2>4
<1> QED BY <1>2, <1>3

(* A write or a removal brings the cause with it.                          *)
LEMMA LossesStep ==
  ASSUME Typed, Shape, Orders, Losses, Evolves
  PROVE  Losses'
<1>1. ASSUME NEW u \in Calls, IsUpdate(u), pc'[u] \in {"reply", "ok"}
      PROVE  stored'[CustomerOf(u)] = u \/ Cause(u)'
  <2> DEFINE w == CustomerOf(u)
  <2>0. w \in Customers
    BY RequestTyped
  <2>1. pc[u] \in {"write", "reply", "ok"}
    BY <1>1, Moves DEF Shape, Kept, Begins, Reads, Advances, Fails
  <2>2. CASE pc[u] = "write"
    <3>1. Advances(u) /\ held[u] = u
      BY <1>1, <2>2, Moves DEF Shape, Kept, Begins, Reads, Fails
    <3> QED BY <2>0, <2>2, <3>1 DEF Advances, Typed
  <2>3. CASE pc[u] \in {"reply", "ok"} /\ Cause(u)
    BY <1>1, <2>3, CauseKept
  <2>4. CASE pc[u] \in {"reply", "ok"} /\ stored[w] = u
    <3>1. CASE OneMoves
      <4> PICK d \in Calls : /\ \A e \in Calls \ {d} : Kept(e)
                             /\ \/ stored' = stored
                                \/ Advances(d) /\ pc[d] \in {"write", "remove"}
        BY <3>1 DEF OneMoves, Reads, Advances
      <4>1. CASE stored'[w] # stored[w]
        <5>1. Advances(d) /\ pc[d] \in {"write", "remove"} /\ d # u
          BY <2>4, <4>1
        <5>2. SameCustomer(u, d)
          BY <2>0, <4>1, <5>1, RequestTyped DEF Advances, Typed, SameCustomer
        <5> QED BY <1>1, <2>4, <5>1, <5>2, OverwriteHasCause
      <4> QED BY <2>4, <4>1
    <3>2. CASE NoneMoves
      <4>1. stored'[w] = u \/ u \in wiped' \cup {None}
        BY <2>0, <2>4, <3>2 DEF NoneMoves
      <4> QED BY <4>1, NoneAssumption DEF Cause
    <3> QED BY <3>1, <3>2 DEF Evolves
  <2> QED BY <1>1, <2>1, <2>2, <2>3, <2>4 DEF Losses
<1>2. ASSUME NEW u \in Calls, NEW d \in Calls, IsUpdate(u), pc'[u] = "ok",
             IsSubmit(d), SameCustomer(u, d), u \in preceded'[d],
             held'[d] # None, ~stale'[d]
      PROVE  held'[d] = u \/ Cause(u)'
  <2>1. ~IsUpdate(d) /\ ~Begins(d)
    BY <1>2, RequestTyped DEF Begins, Shape
  <2>2. u \in preceded[d]
    BY <1>2, <2>1, Moves DEF Kept, Reads, Advances, Fails
  <2>3. pc[u] = "ok"
    BY <1>2, <2>2, ReturnedKept DEF Shape, Kept
  <2>4. Cause(u) => Cause(u)'
    BY <1>2, <2>3, CauseKept
  <2>5. CASE held'[d] = held[d] /\ stale'[d] = stale[d]
    BY <1>2, <2>2, <2>3, <2>4, <2>5 DEF Losses
  <2>6. CASE Reads(d)
    <3>1. held'[d] = stored[CustomerOf(u)]
      BY <1>2, <2>6 DEF Reads, SameCustomer
    <3> QED BY <1>2, <2>3, <2>4, <3>1 DEF Losses
  <2> QED BY <2>1, <2>5, <2>6, Moves DEF Kept, Advances, Fails
<1>3. \A u, d \in Calls : SameCustomer(u, d)' = SameCustomer(u, d)
  BY OperationsKept DEF SameCustomer
<1> QED BY <1>1, <1>2, <1>3, OperationsKept DEF Losses

-----------------------------------------------------------------------------
(* All conjuncts together.                                                 *)
LEMMA IInvStep == IInv /\ [Next]_vars => IInv'
<1> SUFFICES ASSUME IInv, [Next]_vars PROVE IInv'
  OBVIOUS
<1> USE DEF IInv
<1>1. Typed' /\ Opening' /\ Evolves
  BY TypedStep, OpeningStep, EvolvesStep
<1>2. Shape' /\ Owned' /\ Orders'
  BY <1>1, ShapeStep, OwnedStep, OrdersStep
<1>3. Removed' /\ Replaced' /\ ReadIsCurrent' /\ Losses'
  BY <1>1, RemovedStep, ReplacedStep, ReadIsCurrentStep, LossesStep
<1> QED BY <1>1, <1>2, <1>3

(* In every state, the conjuncts of IInv hold together.                    *)
THEOREM Invariant == Spec => []IInv
BY InitIInv, IInvStep, PTL DEF Spec

(* Every variable holds a value of its type, the checkout that update      *)
(* builds included: its total is no negative number.                       *)
THEOREM TypeCorrect == Spec => []TypeOK
BY Invariant, TypeFollows, PTL

(* No get answers with, and no submit orders, what another call had        *)
(* replaced or removed before it began, unless the replica was behind.     *)
THEOREM ReadCorrect == Spec => []ReadIsCurrent
<1>1. IInv => ReadIsCurrent
  BY DEF IInv
<1> QED BY <1>1, Invariant, PTL

(* A checkout that was acknowledged goes only for the reasons given.       *)
THEOREM LossCorrect == Spec => []UpdateLossNeedsCause
<1>1. IInv => UpdateLossNeedsCause
  <2> SUFFICES ASSUME IInv, NEW u \in Calls, IsUpdate(u), pc[u] = "ok",
                      stored[CustomerOf(u)] # held[u]
               PROVE  Cause(u)
    BY DEF UpdateLossNeedsCause, Cause
  <2>1. held[u] = u
    BY DEF IInv, Shape
  <2> QED BY <2>1 DEF IInv, Losses
<1> QED BY <1>1, Invariant, PTL

(* Two orders of one checkout: had neither submit failed, the first to     *)
(* return had removed it, and the other could only have read it before, or *)
(* from a replica behind.                                                  *)
THEOREM SecondOrderCorrect == Spec => []SecondOrderNeedsCause
<1>1. IInv => SecondOrderNeedsCause
  <2> SUFFICES ASSUME IInv, NEW c \in Calls, NEW d \in Calls, c # d,
                      {c, d} \subseteq ordered, held[c] = held[d],
                      \A e \in {c, d} : ~stale[e] /\ pc[e] \notin {"error", "dead"}
               PROVE  Overlap(c, d)
    BY DEF SecondOrderNeedsCause
  <2>1. \A e \in {c, d} : /\ IsSubmit(e) /\ ~IsUpdate(e) /\ held[e] # None
                          /\ Written(held[e], CustomerOf(e)) /\ Started(e)
                          /\ pc[e] \in {"order", "remove", "reply", "ok"}
    BY RequestTyped DEF IInv, Orders, Owned, Started
  <2>2. SameCustomer(c, d)
    BY <2>1 DEF Written, SameCustomer
  <2>3. ASSUME NEW a \in {c, d}, NEW b \in {c, d}, b \in preceded[a]
        PROVE  FALSE
    <3>1. pc[b] = "ok"
      BY <2>1, <2>3 DEF IInv, Shape, Returned, Results
    <3>2. held[b] # held[a]
      BY <2>1, <2>2, <2>3, <3>1 DEF IInv, ReadIsCurrent, SameCustomer
    <3> QED BY <3>2
  <2> QED BY <2>1, <2>3 DEF Overlap
<1> QED BY <1>1, Invariant, PTL

-----------------------------------------------------------------------------
(* An item on the wire: its id is called productId, its unitCost price.    *)
WireItem(item) == [price |-> item.unitCost, productId |-> item.id,
                   name |-> item.name, totalCost |-> item.totalCost,
                   quantity |-> item.quantity]

(* The attributes of OrderItem; no two share either of their names.        *)
LEMMA ItemNames ==
  /\ {a.name : a \in Client!OrderItemAttributes}
       = {"unitCost", "id", "name", "totalCost", "quantity"}
  /\ {a.baseName : a \in Client!OrderItemAttributes}
       = {"price", "productId", "name", "totalCost", "quantity"}
  /\ \A a \in Client!OrderItemAttributes :
       \/ a.name = "unitCost" /\ a.baseName = "price" /\ a.type = "number"
       \/ a.name = "id" /\ a.baseName = "productId" /\ a.type = "string"
       \/ a.name = "name" /\ a.baseName = "name" /\ a.type = "string"
       \/ a.name = "totalCost" /\ a.baseName = "totalCost" /\ a.type = "number"
       \/ a.name = "quantity" /\ a.baseName = "quantity" /\ a.type = "number"
<1> DEFINE A == Client!OrderItemAttributes
<1>1. /\ Client!Attribute("unitCost", "price", "number") \in A
      /\ Client!Attribute("id", "productId", "string") \in A
      /\ Client!Attribute("name", "name", "string") \in A
      /\ Client!Attribute("totalCost", "totalCost", "number") \in A
      /\ Client!Attribute("quantity", "quantity", "number") \in A
  BY DEF Client!OrderItemAttributes
<1>2. \A n, b, t : /\ Client!Attribute(n, b, t).name = n
                   /\ Client!Attribute(n, b, t).baseName = b
                   /\ Client!Attribute(n, b, t).type = t
  BY DEF Client!Attribute
<1>3. \A a \in A : \/ a = Client!Attribute("unitCost", "price", "number")
                   \/ a = Client!Attribute("id", "productId", "string")
                   \/ a = Client!Attribute("name", "name", "string")
                   \/ a = Client!Attribute("totalCost", "totalCost", "number")
                   \/ a = Client!Attribute("quantity", "quantity", "number")
  BY DEF Client!OrderItemAttributes
<1> HIDE DEF A
<1>4. {a.name : a \in A} = {"unitCost", "id", "name", "totalCost", "quantity"}
  BY <1>1, <1>2, <1>3
<1>5. {a.baseName : a \in A} = {"price", "productId", "name", "totalCost", "quantity"}
  BY <1>1, <1>2, <1>3
<1>6. \A a \in A :
        \/ a.name = "unitCost" /\ a.baseName = "price" /\ a.type = "number"
        \/ a.name = "id" /\ a.baseName = "productId" /\ a.type = "string"
        \/ a.name = "name" /\ a.baseName = "name" /\ a.type = "string"
        \/ a.name = "totalCost" /\ a.baseName = "totalCost" /\ a.type = "number"
        \/ a.name = "quantity" /\ a.baseName = "quantity" /\ a.type = "number"
  BY <1>2, <1>3
<1> QED BY <1>4, <1>5, <1>6 DEF A

(* On the wire an item has the names of the map, and nothing is lost.      *)
LEMMA ItemSerialized ==
  ASSUME NEW item \in Item
  PROVE  Client!SerializeItem(item, "OrderItem") = WireItem(item)
<1> DEFINE A(type) == {a \in Client!TypeMap[type] : a.name \in DOMAIN item}
           Of(type, n) == CHOOSE a \in A(type) : a.baseName = n
           Renamed(type) == [n \in {a.baseName : a \in A(type)} |->
                               item[Of(type, n).name]]
<1>1. Client!FindCorrectType(item, "OrderItem") = "OrderItem"
  BY DEF Client!FindCorrectType, Client!Discriminator, Client!TypeMap, Item
<1>2. Client!SerializeItem(item, "OrderItem")
        = Renamed(Client!FindCorrectType(item, "OrderItem"))
  <2>1. "OrderItem" \notin Client!Primitives /\ "OrderItem" \notin DOMAIN Client!SubType
    BY DEF Client!Primitives, Client!SubType
  <2> QED BY <2>1, Zenon DEF Client!SerializeItem, Client!SerializeOnce,
                             Client!SerializeAttribute
<1>3. Client!SerializeItem(item, "OrderItem") = Renamed("OrderItem")
  <2> HIDE DEF Renamed
  <2> QED BY <1>1, <1>2
<1>4. A("OrderItem") = Client!OrderItemAttributes
  BY DEF Client!TypeMap, Client!OrderItemAttributes, Client!Attribute, Item
<1> DEFINE names == {a.baseName : a \in Client!OrderItemAttributes}
           of(n) == CHOOSE a \in Client!OrderItemAttributes : a.baseName = n
<1>5. Client!SerializeItem(item, "OrderItem") = [n \in names |-> item[of(n).name]]
  <2> DEFINE Over(S) == [n \in {a.baseName : a \in S} |->
                           item[(CHOOSE a \in S : a.baseName = n).name]]
  <2>1. Renamed("OrderItem") = Over(A("OrderItem"))
    OBVIOUS
  <2>2. Over(Client!OrderItemAttributes) = [n \in names |-> item[of(n).name]]
    OBVIOUS
  <2> HIDE DEF Over, Renamed, A, names, of
  <2> QED BY <1>3, <1>4, <2>1, <2>2
<1>6. \A n \in names : of(n) \in Client!OrderItemAttributes /\ of(n).baseName = n
  OBVIOUS
<1> HIDE DEF A, Renamed, names, of
<1>7. names = {"price", "productId", "name", "totalCost", "quantity"}
  BY ItemNames DEF names
<1>8. /\ of("price").name = "unitCost" /\ of("productId").name = "id"
      /\ of("name").name = "name" /\ of("totalCost").name = "totalCost"
      /\ of("quantity").name = "quantity"
  BY <1>6, <1>7, ItemNames
<1> QED BY <1>5, <1>7, <1>8 DEF WireItem

(* Sorting places each index once, those of one digit where they were: the *)
(* number of indexes before one is different for each, so that it is every *)
(* number below n for one of them.                                         *)
LEMMA IndexesPlaced ==
  ASSUME NEW n \in Nat, Sorts(0 .. n - 1)
  PROVE  /\ \A r \in 1 .. n : Client!IndexAt(r, n) \in 0 .. n - 1
         /\ \A k \in 0 .. n - 1 : \E r \in 1 .. n : Client!IndexAt(r, n) = k
         /\ n <= 10 => \A r \in 1 .. n : Client!IndexAt(r, n) = r - 1
<1> DEFINE S == 0 .. n - 1
           Below(k) == {j \in S : <<j, k>> \in TextOrder}
           place == [k \in S |-> Cardinality(Below(k))]
<1>1. IsFiniteSet(S) /\ Cardinality(S) = n
  BY FS_Interval
<1>2. \A k : Below(k) \in SUBSET S
  OBVIOUS
<1>3. ASSUME NEW k \in S
      PROVE  IsFiniteSet(Below(k)) /\ Cardinality(Below(k)) \in S
  <2> HIDE DEF Below, S
  <2>1. /\ IsFiniteSet(Below(k)) /\ Cardinality(Below(k)) <= n
        /\ Cardinality(Below(k)) = n => Below(k) = S
    BY <1>1, <1>2, FS_Subset
  <2>2. k \notin Below(k)
    BY DEF Below, S, Sorts, Before
  <2>3. Cardinality(Below(k)) \in Nat
    BY <2>1, FS_CardinalityType
  <2> QED BY <2>1, <2>2, <2>3 DEF S
<1>4. ASSUME NEW j \in S, NEW k \in S, <<j, k>> \in TextOrder
      PROVE  Cardinality(Below(j)) < Cardinality(Below(k))
  <2>1. Below(j) \in SUBSET Below(k)
    BY <1>4 DEF Sorts, Before
  <2>2. j \in Below(k) /\ j \notin Below(j)
    BY <1>4 DEF Sorts, Before
  <2> HIDE DEF Below
  <2>3. /\ Cardinality(Below(j)) <= Cardinality(Below(k))
        /\ Cardinality(Below(k)) # Cardinality(Below(j))
    BY <1>3, <2>1, <2>2, FS_Subset
  <2> QED BY <1>3, <2>3
<1>5. \A j, k \in S : place[j] = place[k] => j = k
  <2> SUFFICES ASSUME NEW j \in S, NEW k \in S, j # k PROVE place[j] # place[k]
    OBVIOUS
  <2>1. <<j, k>> \in TextOrder \/ <<k, j>> \in TextOrder
    BY DEF Sorts, Before
  <2> HIDE DEF Below
  <2>2. /\ place[j] \in Nat /\ place[k] \in Nat
        /\ place[j] < place[k] \/ place[k] < place[j]
    BY <1>3, <1>4, <2>1
  <2> QED BY <1>3, <2>2
<1>6. place \in Surjection(S, S)
  <2> HIDE DEF Below
  <2>1. place \in [S -> S]
    BY <1>3
  <2> HIDE DEF place, S
  <2>2. place \in Injection(S, S)
    BY <1>5, <2>1 DEF Injection, IsInjective
  <2> QED BY <1>1, <2>2, FS_Injection
<1>7. \A r \in 1 .. n : \E k \in S : place[k] = r - 1
  <2> HIDE DEF place
  <2> QED BY <1>6 DEF Surjection
<1>8. ASSUME NEW r \in 1 .. n
      PROVE  /\ Client!IndexAt(r, n) \in S
             /\ place[Client!IndexAt(r, n)] = r - 1
  <2> DEFINE Here(k) == Cardinality({j \in 0 .. n - 1 : <<j, k>> \in TextOrder}) = r - 1
  <2>1. Client!IndexAt(r, n) = CHOOSE k \in S : Here(k)
    <3>1. \A T : Client!Cardinality(T) = Cardinality(T)
      BY Zenon DEF Client!Cardinality, Cardinality, Client!IsFiniteSet, IsFiniteSet
    <3> QED BY <3>1, Zenon DEF Client!IndexAt
  <2>2. \A k \in S : Here(k) <=> place[k] = r - 1
    OBVIOUS
  <2> HIDE DEF Here, place, S
  <2> QED BY <1>7, <2>1, <2>2
<1>9. ASSUME NEW k \in S PROVE \E r \in 1 .. n : Client!IndexAt(r, n) = k
  <2>1. place[k] \in S
    <3> HIDE DEF Below
    <3> QED BY <1>3
  <2> HIDE DEF place
  <2>2. place[k] + 1 \in 1 .. n /\ (place[k] + 1) - 1 = place[k]
    BY <2>1
  <2>3. place[Client!IndexAt(place[k] + 1, n)] = place[k]
    BY <1>8, <2>2
  <2> QED BY <1>5, <1>8, <2>2, <2>3
<1>10. ASSUME n <= 10, NEW r \in 1 .. n PROVE Client!IndexAt(r, n) = r - 1
  <2>1. r - 1 \in S
    OBVIOUS
  <2>2. Below(r - 1) = 0 .. (r - 1) - 1
    <3> DEFINE k == r - 1
    <3>1. S \subseteq 0 .. 9
      BY <1>10
    <3>2. ASSUME NEW j \in S PROVE Before(j, k) <=> j < k
      <4> HIDE DEF k, S
      <4> QED BY <2>1, <3>1, <3>2 DEF Sorts, S, k
    <3>3. \A j \in S : <<j, k>> \in TextOrder <=> j < k
      BY <3>2, Zenon DEF Before
    <3> QED BY <2>1, <3>3
  <2>3. place[r - 1] = r - 1
    <3> HIDE DEF Below
    <3>1. Cardinality(0 .. (r - 1) - 1) = r - 1
      BY FS_Interval
    <3> QED BY <2>1, <2>2, <3>1
  <2> HIDE DEF place
  <2> QED BY <1>5, <1>8, <2>1, <2>3
<1> QED BY <1>8, <1>9, <1>10

(* The item of index k in an order as the service's GET returns it.        *)
StoredItem(item, k) == [productId |-> k, name |-> item.name,
                        quantity |-> item.quantity, unitCost |-> 0, price |-> 0,
                        totalCost |-> item.totalCost]

(* It at the end of the way: its unitCost is the price that no entity has. *)
ListedItem(item, k) == [unitCost |-> 0, id |-> k, name |-> item.name,
                        totalCost |-> item.totalCost,
                        quantity |-> item.quantity]

(* Read back, an item has its own names again.                             *)
LEMMA ItemDeserialized ==
  ASSUME NEW item \in Item, NEW k
  PROVE  Client!DeserializeItem(StoredItem(item, k), "OrderItem")
           = ListedItem(item, k)
<1> DEFINE row == StoredItem(item, k)
           A(type) == {a \in Client!TypeMap[type] : a.baseName \in DOMAIN row}
           Of(type, n) == CHOOSE a \in A(type) : a.name = n
           Renamed(type) == [n \in {a.name : a \in A(type)} |->
                               row[Of(type, n).baseName]]
<1>1. Client!FindCorrectType(row, "OrderItem") = "OrderItem"
  BY DEF Client!FindCorrectType, Client!Discriminator, Client!TypeMap, StoredItem
<1>2. Client!DeserializeItem(row, "OrderItem")
        = Renamed(Client!FindCorrectType(row, "OrderItem"))
  <2>1. "OrderItem" \notin Client!Primitives /\ "OrderItem" \notin DOMAIN Client!SubType
    BY DEF Client!Primitives, Client!SubType
  <2> QED BY <2>1, Zenon DEF Client!DeserializeItem, Client!DeserializeOnce,
                             Client!DeserializeAttribute
<1>3. Client!DeserializeItem(row, "OrderItem") = Renamed("OrderItem")
  <2> HIDE DEF Renamed
  <2> QED BY <1>1, <1>2
<1>4. A("OrderItem") = Client!OrderItemAttributes
  BY DEF Client!TypeMap, Client!OrderItemAttributes, Client!Attribute, StoredItem
<1> DEFINE names == {a.name : a \in Client!OrderItemAttributes}
           of(n) == CHOOSE a \in Client!OrderItemAttributes : a.name = n
<1>5. Client!DeserializeItem(row, "OrderItem") = [n \in names |-> row[of(n).baseName]]
  <2> DEFINE Over(S) == [n \in {a.name : a \in S} |->
                           row[(CHOOSE a \in S : a.name = n).baseName]]
  <2>1. Renamed("OrderItem") = Over(A("OrderItem"))
    OBVIOUS
  <2>2. Over(Client!OrderItemAttributes) = [n \in names |-> row[of(n).baseName]]
    OBVIOUS
  <2> HIDE DEF Over, Renamed, A, names, of
  <2> QED BY <1>3, <1>4, <2>1, <2>2
<1>6. \A n \in names : of(n) \in Client!OrderItemAttributes /\ of(n).name = n
  OBVIOUS
<1> HIDE DEF A, Renamed, names, of
<1>7. names = {"unitCost", "id", "name", "totalCost", "quantity"}
  BY ItemNames DEF names
<1>8. /\ of("unitCost").baseName = "price" /\ of("id").baseName = "productId"
      /\ of("name").baseName = "name" /\ of("totalCost").baseName = "totalCost"
      /\ of("quantity").baseName = "quantity"
  BY <1>6, <1>7, ItemNames
<1> QED BY <1>5, <1>7, <1>8 DEF ListedItem, StoredItem

(* The attributes of the orders have the same name on both sides.          *)
LEMMA OrderNames ==
  /\ {a.name : a \in Client!ExistingOrderAttributes}
       = {"id", "email", "firstName", "items", "lastName"}
  /\ \A a \in Client!ExistingOrderAttributes :
       /\ a.baseName = a.name
       /\ a.name # "items" => a.type = "string"
       /\ a.name = "items" => a.type = "Array<OrderItem>"
  /\ Client!OrderAttributes
       = {a \in Client!ExistingOrderAttributes : a.name # "id"}
<1> DEFINE A == Client!ExistingOrderAttributes
<1>1. /\ Client!Attribute("id", "id", "string") \in A
      /\ Client!Attribute("email", "email", "string") \in A
      /\ Client!Attribute("firstName", "firstName", "string") \in A
      /\ Client!Attribute("items", "items", "Array<OrderItem>") \in A
      /\ Client!Attribute("lastName", "lastName", "string") \in A
  BY DEF Client!ExistingOrderAttributes, Client!OrderAttributes
<1>2. \A n, b, t : /\ Client!Attribute(n, b, t).name = n
                   /\ Client!Attribute(n, b, t).baseName = b
                   /\ Client!Attribute(n, b, t).type = t
  BY DEF Client!Attribute
<1>3. \A a \in A : \/ a = Client!Attribute("id", "id", "string")
                   \/ a = Client!Attribute("email", "email", "string")
                   \/ a = Client!Attribute("firstName", "firstName", "string")
                   \/ a = Client!Attribute("items", "items", "Array<OrderItem>")
                   \/ a = Client!Attribute("lastName", "lastName", "string")
  BY DEF Client!ExistingOrderAttributes, Client!OrderAttributes
<1>4. \A a : a \in Client!OrderAttributes
             <=> \/ a = Client!Attribute("email", "email", "string")
                 \/ a = Client!Attribute("firstName", "firstName", "string")
                 \/ a = Client!Attribute("items", "items", "Array<OrderItem>")
                 \/ a = Client!Attribute("lastName", "lastName", "string")
  BY DEF Client!OrderAttributes
<1> HIDE DEF A
<1>5. {a.name : a \in A} = {"id", "email", "firstName", "items", "lastName"}
  BY <1>1, <1>2, <1>3
<1>6. \A a \in A : /\ a.baseName = a.name
                   /\ a.name # "items" => a.type = "string"
                   /\ a.name = "items" => a.type = "Array<OrderItem>"
  BY <1>2, <1>3
<1>7. Client!OrderAttributes = {a \in A : a.name # "id"}
  BY <1>1, <1>2, <1>3, <1>4
<1> QED BY <1>5, <1>6, <1>7 DEF A

(* createOrder posts an order's email and its items.                       *)
LEMMA OrderSerialized ==
  ASSUME NEW order, {"firstName", "lastName", "items"} \subseteq DOMAIN order,
         DOMAIN order \subseteq {"email", "firstName", "lastName", "items"},
         order.items \in Seq(Item)
  PROVE  LET body == Client!Serialize(order, "Order")
         IN  /\ body.items = [i \in DOMAIN order.items |-> WireItem(order.items[i])]
             /\ Client!Field(body, "email") = Client!Field(order, "email")
<1> DEFINE body == Client!Serialize(order, "Order")
           A(type) == {a \in Client!TypeMap[type] : a.name \in DOMAIN order}
           Of(type, n) == CHOOSE a \in A(type) : a.baseName = n
           Names(type) == {a.baseName : a \in A(type)}
           Renamed(type) ==
             [n \in Names(type) |->
                Client!SerializeItems(order[Of(type, n).name], Of(type, n).type)]
<1>1. Client!FindCorrectType(order, "Order") = "Order"
  BY DEF Client!FindCorrectType, Client!Discriminator, Client!TypeMap
<1>2. body = Renamed(Client!FindCorrectType(order, "Order"))
  <2>1. "Order" \notin Client!Primitives /\ "Order" \notin DOMAIN Client!SubType
    BY DEF Client!Primitives, Client!SubType
  <2> QED BY <2>1, Zenon DEF Client!Serialize, Client!SerializeOnce
<1>3. body = Renamed("Order")
  <2> HIDE DEF Renamed
  <2> QED BY <1>1, <1>2
<1>4. A("Order") = {a \in Client!OrderAttributes : a.name \in DOMAIN order}
  BY DEF Client!TypeMap
<1>5. Names("Order") = DOMAIN order
  <2>1. \A n \in DOMAIN order :
          n \in {a.name : a \in Client!ExistingOrderAttributes} /\ n # "id"
    BY OrderNames
  <2>2. ASSUME NEW n \in DOMAIN order PROVE n \in Names("Order")
    <3>1. PICK a \in Client!ExistingOrderAttributes : a.name = n
      BY <2>1
    <3>2. a \in A("Order") /\ a.baseName = n
      BY <1>4, <2>1, <3>1, OrderNames
    <3> HIDE DEF A
    <3> QED BY <3>2
  <2>3. ASSUME NEW n \in Names("Order") PROVE n \in DOMAIN order
    <3>1. PICK a \in A("Order") : a.baseName = n
      OBVIOUS
    <3> QED BY <1>4, <3>1, OrderNames
  <2> HIDE DEF Names
  <2> QED BY <2>2, <2>3
<1>6. \A n \in DOMAIN order : /\ Of("Order", n).name = n
                              /\ Of("Order", n) \in Client!ExistingOrderAttributes
  <2>1. \A n \in Names("Order") : Of("Order", n) \in A("Order")
                                   /\ Of("Order", n).baseName = n
    OBVIOUS
  <2> HIDE DEF A, Of, Names
  <2> QED BY <2>1, <1>4, <1>5, OrderNames
<1>7. \A n \in DOMAIN order :
        body[n] = Client!SerializeItems(order[n], Of("Order", n).type)
  <2> HIDE DEF A, Of, Names, body
  <2> QED BY <1>3, <1>5, <1>6
<1>8. DOMAIN body = DOMAIN order
  <2> HIDE DEF A, Of, Names, body
  <2> QED BY <1>3, <1>5
<1>9. \A data : Client!SerializeItems(data, "string") = data
  BY DEF Client!SerializeItems, Client!SerializeOnce, Client!Primitives
<1>10. Client!SerializeItems(order.items, "Array<OrderItem>")
         = [i \in DOMAIN order.items |-> Client!SerializeItem(order.items[i], "OrderItem")]
  BY DEF Client!SerializeItems, Client!SerializeOnce, Client!Primitives, Client!SubType
<1>11. \A i \in DOMAIN order.items :
         Client!SerializeItem(order.items[i], "OrderItem") = WireItem(order.items[i])
  BY ItemSerialized
<1> HIDE DEF A, Of, Names, Renamed, body
<1>12. body.items = [i \in DOMAIN order.items |-> WireItem(order.items[i])]
  BY <1>6, <1>7, <1>10, <1>11, OrderNames
<1>13. Client!Field(body, "email") = Client!Field(order, "email")
  BY <1>6, <1>7, <1>8, <1>9, OrderNames DEF Client!Field
<1> QED BY <1>12, <1>13 DEF body

(* What GET returns of an order: the lines, sorted by the index.           *)
IndexAt(r, items) == Client!IndexAt(r, Len(items))

ListedOrder(id, email, firstName, lastName, items) ==
  [id |-> id, email |-> email, firstName |-> firstName, lastName |-> lastName,
   items |-> [r \in DOMAIN items |->
                StoredItem(items[IndexAt(r, items) + 1], IndexAt(r, items))]]

(* Each place has a line.                                                  *)
LEMMA LinesPlaced ==
  ASSUME NEW body \in Bodies
  PROVE  LET items == body.items
         IN  /\ items \in Seq(Item)
             /\ \A r \in DOMAIN items : /\ IndexAt(r, items) \in Nat
                                       /\ IndexAt(r, items) + 1 \in DOMAIN items
             /\ \A i \in DOMAIN items : \E r \in DOMAIN items :
                  IndexAt(r, items) = i - 1
             /\ Len(items) <= 10 =>
                  \A r \in DOMAIN items : IndexAt(r, items) = r - 1
<1> DEFINE items == body.items
           n == Len(items)
<1>1. items \in Seq(Item) /\ Sorts(0 .. n - 1)
  BY ItemsAssumption, TextOrderAssumption
<1>2. n \in Nat /\ DOMAIN items = 1 .. n
  BY <1>1
<1>3. /\ \A r \in 1 .. n : Client!IndexAt(r, n) \in 0 .. n - 1
      /\ \A k \in 0 .. n - 1 : \E r \in 1 .. n : Client!IndexAt(r, n) = k
      /\ n <= 10 => \A r \in 1 .. n : Client!IndexAt(r, n) = r - 1
  BY <1>1, <1>2, IndexesPlaced
<1>4. \A r : IndexAt(r, items) = Client!IndexAt(r, n)
  BY DEF IndexAt
<1> HIDE DEF n, items
<1>5. \A r \in DOMAIN items : /\ IndexAt(r, items) \in Nat
                             /\ IndexAt(r, items) + 1 \in DOMAIN items
  <2> SUFFICES ASSUME NEW r \in 1 .. n
               PROVE  IndexAt(r, items) \in Nat /\ IndexAt(r, items) + 1 \in 1 .. n
    BY <1>2
  <2>1. IndexAt(r, items) \in 0 .. n - 1
    BY <1>3, <1>4
  <2> QED BY <1>2, <2>1
<1>6. \A i \in DOMAIN items : \E r \in DOMAIN items : IndexAt(r, items) = i - 1
  <2>1. \A i \in 1 .. n : i - 1 \in 0 .. n - 1
    BY <1>2
  <2> QED BY <1>2, <1>3, <1>4, <2>1
<1>7. n <= 10 => \A r \in DOMAIN items : IndexAt(r, items) = r - 1
  BY <1>2, <1>3, <1>4
<1> QED BY <1>1, <1>5, <1>6, <1>7 DEF items, n

(* listOrders reads back its id, its email and its items.                  *)
LEMMA OrderDeserialized ==
  ASSUME NEW id, NEW email, NEW firstName, NEW lastName, NEW items \in Seq(Item),
         \A r \in DOMAIN items : IndexAt(r, items) + 1 \in DOMAIN items
  PROVE  LET listed == Client!DeserializeOrder(
                         ListedOrder(id, email, firstName, lastName, items), "ExistingOrder")
         IN  /\ Client!Field(listed, "id") = id
             /\ Client!Field(listed, "email") = email
             /\ listed.items = [r \in DOMAIN items |->
                  ListedItem(items[IndexAt(r, items) + 1], IndexAt(r, items))]
<1> DEFINE found == ListedOrder(id, email, firstName, lastName, items)
           listed == Client!DeserializeOrder(found, "ExistingOrder")
           A(type) == {a \in Client!TypeMap[type] : a.baseName \in DOMAIN found}
           Of(type, n) == CHOOSE a \in A(type) : a.name = n
           Names(type) == {a.name : a \in A(type)}
           row(r) == StoredItem(items[IndexAt(r, items) + 1], IndexAt(r, items))
           line(r) == ListedItem(items[IndexAt(r, items) + 1], IndexAt(r, items))
           Renamed(type) ==
             [n \in Names(type) |->
                Client!DeserializeItems(found[Of(type, n).baseName], Of(type, n).type)]
<1>1. Client!FindCorrectType(found, "ExistingOrder") = "ExistingOrder"
  BY DEF Client!FindCorrectType, Client!Discriminator, Client!TypeMap, ListedOrder
<1>2. listed = Renamed(Client!FindCorrectType(found, "ExistingOrder"))
  <2>1. /\ "ExistingOrder" \notin Client!Primitives
        /\ "ExistingOrder" \notin DOMAIN Client!SubType
    BY DEF Client!Primitives, Client!SubType
  <2> QED BY <2>1, Zenon DEF Client!DeserializeOrder, Client!DeserializeOnce
<1>3. listed = Renamed("ExistingOrder")
  <2> HIDE DEF Renamed
  <2> QED BY <1>1, <1>2
<1>4. DOMAIN found = {"id", "email", "firstName", "items", "lastName"}
  BY DEF ListedOrder
<1>5. A("ExistingOrder")
        = {a \in Client!ExistingOrderAttributes : a.baseName \in DOMAIN found}
  BY DEF Client!TypeMap
<1>6. Names("ExistingOrder") = DOMAIN found
  <2> HIDE DEF found
  <2> QED BY <1>4, <1>5, OrderNames
<1>7. \A n \in DOMAIN found :
        /\ Of("ExistingOrder", n).baseName = n
        /\ Of("ExistingOrder", n) \in Client!ExistingOrderAttributes
  <2>1. \A n \in Names("ExistingOrder") :
          /\ Of("ExistingOrder", n) \in A("ExistingOrder")
          /\ Of("ExistingOrder", n).name = n
    OBVIOUS
  <2> HIDE DEF A, Of, Names, found
  <2> QED BY <2>1, <1>5, <1>6, OrderNames
<1>8. \A n \in DOMAIN found :
        listed[n] = Client!DeserializeItems(found[n], Of("ExistingOrder", n).type)
  <2> HIDE DEF A, Of, Names, listed, found
  <2> QED BY <1>3, <1>6, <1>7
<1>9. DOMAIN listed = DOMAIN found
  <2> HIDE DEF A, Of, Names, listed, found
  <2> QED BY <1>3, <1>6
<1>10. \A data : Client!DeserializeItems(data, "string") = data
  BY DEF Client!DeserializeItems, Client!DeserializeOnce, Client!Primitives
<1>11. found.items = [r \in DOMAIN items |-> row(r)]
  BY DEF ListedOrder
<1>12. Client!DeserializeItems(found.items, "Array<OrderItem>")
         = [r \in DOMAIN items |-> Client!DeserializeItem(row(r), "OrderItem")]
  <2>1. Client!DeserializeItems(found.items, "Array<OrderItem>")
          = [i \in DOMAIN found.items |->
               Client!DeserializeItem(found.items[i], "OrderItem")]
    <3> HIDE DEF found
    <3> QED BY DEF Client!DeserializeItems, Client!DeserializeOnce,
                   Client!Primitives, Client!SubType
  <2> HIDE DEF found, row
  <2> QED BY <2>1, <1>11
<1>13. \A r \in DOMAIN items :
         Client!DeserializeItem(row(r), "OrderItem") = line(r)
  <2> SUFFICES ASSUME NEW r \in DOMAIN items
               PROVE  Client!DeserializeItem(row(r), "OrderItem") = line(r)
    OBVIOUS
  <2>1. items[IndexAt(r, items) + 1] \in Item
    OBVIOUS
  <2> QED BY <2>1, ItemDeserialized
<1>14. found.id = id /\ found.email = email
  BY DEF ListedOrder
<1> HIDE DEF A, Of, Names, Renamed, listed, found, row, line
<1>15. listed.items = [r \in DOMAIN items |-> line(r)]
  BY <1>4, <1>7, <1>8, <1>12, <1>13, OrderNames
<1>16. Client!Field(listed, "id") = id /\ Client!Field(listed, "email") = email
  BY <1>4, <1>7, <1>8, <1>9, <1>10, <1>14, OrderNames DEF Client!Field
<1> QED BY <1>15, <1>16 DEF listed, found, line

(* What the orders service keeps of it and returns.                        *)
LEMMA OrderFound ==
  ASSUME NEW id, NEW order, NEW items \in Seq(Item),
         \A r \in DOMAIN items : /\ IndexAt(r, items) \in Nat
                                /\ IndexAt(r, items) + 1 \in DOMAIN items,
         order.items = [i \in DOMAIN items |-> WireItem(items[i])]
  PROVE  Client!ExistingOrder(Client!FindAll(Client!OrderEntity(id, order)))
           = ListedOrder(id, Client!Field(order, "email"), Client!Field(order, "firstName"),
                   Client!Field(order, "lastName"), items)
<1> DEFINE kept(i) == Client!OrderItemEntity(WireItem(items[i]))
           saved(i) == [kept(i) EXCEPT !.productId = i - 1]
           entity == Client!OrderEntity(id, order)
           at(r) == IndexAt(r, items)
           WithRows(rows) == [id |-> id, email |-> Client!Field(order, "email"),
                           firstName |-> Client!Field(order, "firstName"),
                           lastName |-> Client!Field(order, "lastName"),
                           items |-> rows]
           found == [r \in DOMAIN items |-> saved(at(r) + 1)]
<1>1. entity = WithRows([i \in DOMAIN items |-> kept(i)])
  <2>1. DOMAIN order.items = DOMAIN items
    OBVIOUS
  <2>2. \A i \in DOMAIN items : order.items[i] = WireItem(items[i])
    OBVIOUS
  <2>3. [i \in DOMAIN order.items |-> Client!OrderItemEntity(order.items[i])]
          = [i \in DOMAIN items |-> kept(i)]
    BY <2>1, <2>2
  <2> HIDE DEF kept
  <2> QED BY <2>3 DEF Client!OrderEntity
<1>2. \A i : saved(i) = [productId |-> i - 1, name |-> items[i].name,
                         quantity |-> items[i].quantity, unitCost |-> 0,
                         totalCost |-> items[i].totalCost]
  BY DEF Client!OrderItemEntity, Client!Field, Client!IntField, WireItem
<1>3. Client!Rows(entity) = [i \in DOMAIN items |-> saved(i)]
  <2>1. entity.items = [i \in DOMAIN items |-> kept(i)]
    <3> HIDE DEF entity, kept
    <3> QED BY <1>1
  <2> HIDE DEF entity, kept
  <2> QED BY <2>1 DEF Client!Rows
<1> HIDE DEF saved
<1>4. /\ DOMAIN Client!Rows(entity) = DOMAIN items
      /\ Len(Client!Rows(entity)) = Len(items)
      /\ \A r \in DOMAIN items : Client!Rows(entity)[at(r) + 1] = saved(at(r) + 1)
  <2>1. DOMAIN items = 1 .. Len(items) /\ Len(items) \in Nat
    OBVIOUS
  <2> HIDE DEF entity
  <2> QED BY <1>3, <2>1
<1>5. Client!FindAll(entity) = WithRows(found)
  <2>1. Client!FindAll(entity)
          = [entity EXCEPT !.items =
               [r \in DOMAIN Client!Rows(entity) |->
                  Client!Rows(entity)[
                    Client!IndexAt(r, Len(Client!Rows(entity))) + 1]]]
    <3> HIDE DEF entity
    <3> QED BY Zenon DEF Client!FindAll
  <2>2. [r \in DOMAIN Client!Rows(entity) |->
           Client!Rows(entity)[Client!IndexAt(r, Len(Client!Rows(entity))) + 1]]
          = found
    <3> HIDE DEF entity
    <3> QED BY <1>4 DEF IndexAt
  <2> HIDE DEF found, entity, kept
  <2> QED BY <1>1, <2>1, <2>2
<1>6. Client!ExistingOrder(WithRows(found))
        = WithRows([r \in DOMAIN items |-> Client!OrderItem(saved(at(r) + 1))])
  <2>1. [r \in DOMAIN found |-> Client!OrderItem(found[r])]
          = [r \in DOMAIN items |-> Client!OrderItem(saved(at(r) + 1))]
    OBVIOUS
  <2> HIDE DEF found
  <2>2. Client!ExistingOrder(WithRows(found))
          = WithRows([r \in DOMAIN found |-> Client!OrderItem(found[r])])
    BY DEF Client!ExistingOrder
  <2> HIDE DEF WithRows
  <2> QED BY <2>1, <2>2
<1>7. \A r \in DOMAIN items :
        Client!OrderItem(saved(at(r) + 1)) = StoredItem(items[at(r) + 1], at(r))
  <2> SUFFICES ASSUME NEW r \in DOMAIN items
               PROVE  Client!OrderItem(saved(at(r) + 1))
                        = StoredItem(items[at(r) + 1], at(r))
    OBVIOUS
  <2>1. (at(r) + 1) - 1 = at(r)
    OBVIOUS
  <2> HIDE DEF at
  <2> QED BY <1>2, <2>1 DEF Client!OrderItem, StoredItem
<1>8. [r \in DOMAIN items |-> Client!OrderItem(saved(at(r) + 1))]
        = [r \in DOMAIN items |-> StoredItem(items[at(r) + 1], at(r))]
  <2> HIDE DEF at
  <2> QED BY <1>7
<1> QED
  <2>1. WithRows([r \in DOMAIN items |-> StoredItem(items[at(r) + 1], at(r))])
          = ListedOrder(id, Client!Field(order, "email"),
              Client!Field(order, "firstName"), Client!Field(order, "lastName"), items)
    BY DEF ListedOrder
  <2> HIDE DEF WithRows, found, at
  <2> QED BY <1>5, <1>6, <1>8, <2>1 DEF entity

(* The whole way of a checkout's order, there and back.                    *)
LEMMA OrderListed ==
  ASSUME NEW c, NEW body \in Bodies, CheckoutOf(held[c]).request = body
  PROVE  /\ Client!Field(Listed(c), "email") = body.customerEmail
         /\ Client!Field(Listed(c), "id") = c
         /\ Listed(c).items
              = [r \in DOMAIN body.items |->
                   ListedItem(body.items[IndexAt(r, body.items) + 1],
                              IndexAt(r, body.items))]
<1> DEFINE order == OrderOf(CheckoutOf(held[c]))
           sent == Client!Serialize(order, "Order")
           found == Client!ExistingOrder(Client!FindAll(Client!OrderEntity(c, sent)))
<1>1. /\ body.items \in Seq(Item)
      /\ \A r \in DOMAIN body.items :
           /\ IndexAt(r, body.items) \in Nat
           /\ IndexAt(r, body.items) + 1 \in DOMAIN body.items
  BY LinesPlaced
<1>2. /\ {"firstName", "lastName", "items"} \subseteq DOMAIN order
      /\ DOMAIN order \subseteq {"email", "firstName", "lastName", "items"}
      /\ order.items = body.items
      /\ Client!Field(order, "email") = body.customerEmail
  BY DEF OrderOf, Client!Field
<1> HIDE DEF order
<1>3. /\ sent.items = [i \in DOMAIN body.items |-> WireItem(body.items[i])]
      /\ Client!Field(sent, "email") = body.customerEmail
  BY <1>1, <1>2, OrderSerialized
<1> HIDE DEF sent
<1>4. found = ListedOrder(c, body.customerEmail, Client!Field(sent, "firstName"),
                    Client!Field(sent, "lastName"), body.items)
  <2> DEFINE items == body.items
  <2> HIDE DEF items
  <2>1. /\ items \in Seq(Item)
        /\ \A r \in DOMAIN items : /\ IndexAt(r, items) \in Nat
                                  /\ IndexAt(r, items) + 1 \in DOMAIN items
        /\ sent.items = [i \in DOMAIN items |-> WireItem(items[i])]
    BY <1>1, <1>3 DEF items
  <2>2. Client!ExistingOrder(Client!FindAll(Client!OrderEntity(c, sent)))
          = ListedOrder(c, Client!Field(sent, "email"), Client!Field(sent, "firstName"),
                  Client!Field(sent, "lastName"), items)
    BY <2>1, OrderFound
  <2> QED BY <1>3, <2>2 DEF items
<1>5. Listed(c) = Client!DeserializeOrder(found, "ExistingOrder")
  <2>1. Entity(c) = Client!OrderEntity(c, sent)
    BY DEF Entity, Client!CreateOrder, order, sent
  <2> HIDE DEF found
  <2>2. Listed(c) = Client!ListOrders(<<found>>)[1]
    BY <2>1 DEF Listed, found
  <2>3. /\ "Array<ExistingOrder>" \notin Client!Primitives
        /\ "Array<ExistingOrder>" \in DOMAIN Client!SubType
        /\ Client!SubType["Array<ExistingOrder>"] = "ExistingOrder"
    BY DEF Client!Primitives, Client!SubType
  <2>4. Client!ListOrders(<<found>>)
          = [i \in DOMAIN <<found>> |->
               Client!DeserializeOrder(<<found>>[i], "ExistingOrder")]
    BY <2>3 DEF Client!ListOrders, Client!Deserialize, Client!DeserializeOnce
  <2> QED BY <2>2, <2>4
<1> HIDE DEF found
<1> QED BY <1>1, <1>4, <1>5, OrderDeserialized

(* Whatever was ordered, renaming the attributes on the way out, the sort  *)
(* of the table by its text and renaming them back leave each line with    *)
(* its name, quantity and line total; of its product only its index is     *)
(* left, and ten lines or fewer are listed in their order.                 *)
THEOREM LinesCorrect == Spec => []OrderKeepsLines
<1>1. IInv => OrderKeepsLines
  <2> DEFINE body(c) == req[held[c]].body
             rows(c) == Listed(c).items
             items(c) == body(c).items
             Arrived(c) ==
               /\ Client!Field(Listed(c), "email") = body(c).customerEmail
               /\ Client!Field(Listed(c), "id") = c
               /\ Len(rows(c)) = Len(items(c))
             All(c) == {LineListed(rows(c)[r]) : r \in DOMAIN rows(c)}
                         = {LineOrdered(items(c)[i], i) : i \in DOMAIN items(c)}
             InOrder(c) == Len(rows(c)) <= 10 =>
               \A r \in DOMAIN rows(c) : Client!Field(rows(c)[r], "id") = r - 1
  <2> SUFFICES ASSUME IInv, NEW c \in ordered, pc[c] = "ok"
               PROVE  Arrived(c) /\ All(c) /\ InOrder(c)
    BY Zenon DEF OrderKeepsLines
  <2>1. /\ c \in Calls /\ IsSubmit(c) /\ held[c] # None
        /\ Written(held[c], CustomerOf(c))
    BY RequestTyped DEF IInv, Typed, Orders, Owned
  <2>2. body(c) \in Bodies
    BY <2>1, RequestTyped DEF IInv, Typed, Written
  <2>3. CheckoutOf(held[c]).request = body(c)
    BY DEF CheckoutOf
  <2> HIDE DEF body
  <2> DEFINE at(r) == IndexAt(r, items(c))
  <2>4. /\ Client!Field(Listed(c), "email") = body(c).customerEmail
        /\ Client!Field(Listed(c), "id") = c
        /\ rows(c) = [r \in DOMAIN items(c) |-> ListedItem(items(c)[at(r) + 1], at(r))]
    BY <2>2, <2>3, OrderListed
  <2>5. /\ items(c) \in Seq(Item)
        /\ \A r \in DOMAIN items(c) : at(r) \in Nat /\ at(r) + 1 \in DOMAIN items(c)
        /\ \A i \in DOMAIN items(c) : \E r \in DOMAIN items(c) : at(r) = i - 1
        /\ Len(items(c)) <= 10 => \A r \in DOMAIN items(c) : at(r) = r - 1
    BY <2>2, LinesPlaced
  <2> HIDE DEF rows, items, at
  <2>6. Len(rows(c)) = Len(items(c)) /\ DOMAIN rows(c) = DOMAIN items(c)
    BY <2>4, <2>5
  <2>7. \A r \in DOMAIN items(c) :
          /\ Client!Field(rows(c)[r], "id") = at(r)
          /\ LineListed(rows(c)[r]) = LineOrdered(items(c)[at(r) + 1], at(r) + 1)
    <3> SUFFICES ASSUME NEW r \in DOMAIN items(c)
                 PROVE  /\ Client!Field(rows(c)[r], "id") = at(r)
                        /\ LineListed(rows(c)[r])
                             = LineOrdered(items(c)[at(r) + 1], at(r) + 1)
      OBVIOUS
    <3>1. rows(c)[r] = ListedItem(items(c)[at(r) + 1], at(r))
      BY <2>4
    <3>2. (at(r) + 1) - 1 = at(r)
      BY <2>5
    <3> QED BY <3>1, <3>2 DEF LineListed, LineOrdered, ListedItem, Client!Field
  <2>8. All(c)
    <3>1. ASSUME NEW r \in DOMAIN items(c)
          PROVE  \E i \in DOMAIN items(c) :
                   LineListed(rows(c)[r]) = LineOrdered(items(c)[i], i)
      BY <2>5, <2>7
    <3>2. ASSUME NEW i \in DOMAIN items(c)
          PROVE  \E r \in DOMAIN items(c) :
                   LineListed(rows(c)[r]) = LineOrdered(items(c)[i], i)
      <4>1. PICK r \in DOMAIN items(c) : at(r) = i - 1
        BY <2>5
      <4>2. at(r) + 1 = i
        BY <2>5, <4>1
      <4> QED BY <2>7, <4>2
    <3> QED BY <2>6, <3>1, <3>2
  <2>9. InOrder(c)
    BY <2>5, <2>6, <2>7
  <2> QED BY <2>4, <2>6, <2>8, <2>9 DEF rows
<1> QED BY <1>1, Invariant, PTL
=============================================================================
