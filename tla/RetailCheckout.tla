--------------------------- MODULE RetailCheckout ---------------------------
(***************************************************************************)
(* The checkout service of the retail store: get, update and submit of a   *)
(* customer's checkout, over the in-memory or the Redis repository and the *)
(* HTTP or the mock orders service.  Every await is a point where other    *)
(* requests, the orders service, the Redis replica and a restart of the    *)
(* process come in between.                                                *)
(***************************************************************************)
EXTENDS Integers, Sequences

CONSTANTS Customers,    \* the customerId of the path
          Calls,        \* the requests made, each at most once
          Bodies,       \* the bodies posted to .../update
          Undefined,    \* an optional attribute that is left out
          None,         \* no checkout, no call
          MaxRestarts   \* bound on the restarts of the process

Rates == <<[token |-> "priority-mail", amount |-> 5],
           [token |-> "priority-mail-express", amount |-> 15]>>

(* The class-validator rules of CheckoutRequest and Item.  Emails that are *)
(* no email and tokens that are no string are left out.                    *)
ItemIsValid(item) == \A f \in {"quantity", "unitCost", "totalCost"} : item[f] >= 0

IsValid(body) == /\ body.subtotal >= 0
                 /\ \A i \in DOMAIN body.items : ItemIsValid(body.items[i])

(* 5%, rounded down, once there is an address to ship to.                  *)
Tax(body) == IF body.shippingAddress = Undefined THEN -1
                                                 ELSE body.subtotal \div 20

(* The amount of the last rate whose token is the one asked for.           *)
Shipping(body) ==
  LET hits == {i \in DOMAIN Rates : Rates[i].token = body.deliveryOptionToken}
  IN  IF hits = {} THEN -1
      ELSE Rates[CHOOSE i \in hits : \A j \in hits : j <= i].amount

(* Slip: the -1 of an unknown tax is added.                                *)
TotalWithTax(body) == body.subtotal + Tax(body)

Total(body) == body.subtotal + (IF Tax(body) = -1 THEN 0 ELSE Tax(body))

ASSUME BodiesAssumption ==
  \A body \in Bodies : body.subtotal \in Int /\ IsValid(body) \in BOOLEAN

Update == [op : {"update"}, customer : Customers, body : Bodies]
Request == Update \cup [op : {"get", "submit"}, customer : Customers]

Checkout == [request : Bodies, shipping : {-1, 5, 15}, tax : Int, total : Nat]

ASSUME NoneAssumption == None \notin Calls

(* What configuration() finds in the environment, and what CheckoutModule  *)
(* makes of it: without a Redis the URL of its reader counts for nothing.  *)
Configuration == [store : {"memory", "redis"}, reader : {"primary", "replica"},
                  orders : {"mock", "http"}]

Environment == {e \in Configuration : e.store = "memory" => e.reader = "primary"}

(* "order": waiting for the orders service; "reply": the repository has    *)
(* done the last thing asked of it.  A call whose process is gone is       *)
(* "dead"; the other results are the status codes 200, 400, 404 and 500.   *)
PC == {"new", "read", "write", "order", "remove", "reply",
       "ok", "badRequest", "notFound", "error", "dead"}
Results == {"ok", "badRequest", "notFound", "error", "dead"}

Clients == {"reader", "writer"}
ClientState == {"none", "connecting", "ready", "broken"}

VARIABLES env, req, pc,
          stored,      \* under each key, the update whose checkout is there
          replica,     \* ... and what the reader has, if it is a replica
          lag,         \* the writes the replica has still to apply
          clients,     \* _client and _readClient of RedisCheckoutRepository
          opener,      \* the call that awaits the connect() of each client
          held,        \* the checkout each call has in its hands, likewise
          posted,      \* orders on their way to the orders service
          ordered,     \* calls the orders service has committed an order for
          restarts,
          preceded,    \* history: the calls that had returned when it began
          stale,       \* history: the call read what the primary had not
          wiped        \* history: updates that a restart wiped from memory

vars == <<env, req, pc, stored, replica, lag, clients, opener, held, posted,
          ordered, restarts, preceded, stale, wiped>>

IsUpdate(c) == req[c].op = "update"
IsGet(c) == req[c].op = "get"
IsSubmit(c) == req[c].op = "submit"
CustomerOf(c) == req[c].customer
SameCustomer(c, d) == CustomerOf(c) = CustomerOf(d)

Started(c) == pc[c] # "new"
Returned(c) == pc[c] \in Results
InFlight(c) == Started(c) /\ ~Returned(c)

(* Neither of two started calls returned before the other began.           *)
Overlap(c, d) == /\ Started(c) /\ Started(d)
                 /\ c \notin preceded[d] /\ d \notin preceded[c]

Init == /\ env \in Environment
        /\ req \in [Calls -> Request]
        /\ pc = [c \in Calls |-> "new"]
        /\ stored = [u \in Customers |-> None]
        /\ replica = [u \in Customers |-> None]
        /\ lag = <<>>
        /\ clients = [k \in Clients |-> "none"]
        /\ opener = [k \in Clients |-> None]
        /\ held = [c \in Calls |-> None]
        /\ posted = {}
        /\ ordered = {}
        /\ restarts = 0
        /\ preceded = [c \in Calls |-> {}]
        /\ stale = [c \in Calls |-> FALSE]
        /\ wiped = {}

(* The mock answers create() at once, and without an order.                *)
MockOrders == env.orders = "mock"

Step(c, from, to) == pc[c] = from /\ pc' = [pc EXCEPT ![c] = to]

-----------------------------------------------------------------------------
(* The checkout that update builds.  Its paymentId, drawn at random, names *)
(* the call, and the call is what the variables hold in its place.         *)
CheckoutOf(c) ==
  LET body == req[c].body
  IN  [request |-> body, shipping |-> Shipping(body), tax |-> Tax(body),
       total |-> Total(body)]

(* A request arrives.  The ValidationPipe answers a bad body; update has   *)
(* its checkout before its first access to the repository.                 *)
Begin(c) ==
  /\ IF IsUpdate(c)
     THEN IF IsValid(req[c].body)
          THEN /\ Step(c, "new", "write")
               /\ held' = [held EXCEPT ![c] = c]
          ELSE Step(c, "new", "badRequest") /\ held' = held
     ELSE Step(c, "new", "read") /\ held' = held
  /\ preceded' = [preceded EXCEPT ![c] = {d \in Calls : Returned(d)}]
  /\ UNCHANGED <<env, req, stored, replica, lag, clients, opener, posted,
                 ordered, restarts, stale, wiped>>

ClientOf(c) == IF pc[c] = "read" THEN "reader" ELSE "writer"
AtRepository(c) == pc[c] \in {"read", "write", "remove"}

(* client() and readClient(): the first to need a client creates it and    *)
(* awaits connect(); whoever comes later takes it as it is.                *)
OpenClient(c) ==
  /\ env.store = "redis" /\ AtRepository(c) /\ clients[ClientOf(c)] = "none"
  /\ clients' = [clients EXCEPT ![ClientOf(c)] = "connecting"]
  /\ opener' = [opener EXCEPT ![ClientOf(c)] = c]
  /\ UNCHANGED <<env, req, pc, stored, replica, lag, held, posted, ordered,
                 restarts, preceded, stale, wiped>>

Connected(k) ==
  /\ clients[k] = "connecting"
  /\ clients' = [clients EXCEPT ![k] = "ready"]
  /\ UNCHANGED <<env, req, pc, stored, replica, lag, opener, held, posted,
                 ordered, restarts, preceded, stale, wiped>>

(* connect() rejects: the call that awaits it fails, and the client stays  *)
(* in _client or _readClient for every later call.                         *)
ConnectFails(k) ==
  /\ clients[k] = "connecting"
  /\ clients' = [clients EXCEPT ![k] = "broken"]
  /\ pc' = [pc EXCEPT ![opener[k]] = "error"]
  /\ UNCHANGED <<env, req, stored, replica, lag, opener, held, posted,
                 ordered, restarts, preceded, stale, wiped>>

(* Commands wait for the connection.                                       *)
CanUse(c) == env.store = "memory" \/ clients[ClientOf(c)] = "ready"

(* Redis answers a command with an error, or a broken client rejects it    *)
(* (it may as well never answer).                                          *)
CommandFails(c) ==
  /\ env.store = "redis" /\ AtRepository(c)
  /\ clients[ClientOf(c)] \in {"ready", "broken"}
  /\ pc' = [pc EXCEPT ![c] = "error"]
  /\ UNCHANGED <<env, req, stored, replica, lag, clients, opener, held, posted,
                 ordered, restarts, preceded, stale, wiped>>

ValueRead(u) == IF env.reader = "replica" THEN replica[u] ELSE stored[u]

Found(c, value) ==
  /\ held' = [held EXCEPT ![c] = value]
  /\ stale' = [stale EXCEPT ![c] = value # stored[CustomerOf(c)]]
  /\ UNCHANGED <<env, req, stored, replica, lag, clients, opener, ordered,
                 restarts, preceded, wiped>>

(* CheckoutService.get for GET: 200 with the checkout, or 404.             *)
ReadForGet(c) ==
  LET value == ValueRead(CustomerOf(c))
  IN  /\ IsGet(c) /\ CanUse(c)
      /\ Step(c, "read", IF value = None THEN "notFound" ELSE "ok")
      /\ Found(c, value) /\ posted' = posted

(* Slip: a submit without a checkout never throws.                         *)
ReadForSubmitWaits(c) ==
  LET value == ValueRead(CustomerOf(c))
  IN  /\ IsSubmit(c) /\ CanUse(c) /\ value # None
      /\ IF MockOrders THEN Step(c, "read", "remove") /\ posted' = posted
         ELSE Step(c, "read", "order") /\ posted' = posted \cup {c}
      /\ Found(c, value)

(* CheckoutService.submit up to the call of the orders service.            *)
ReadForSubmit(c) ==
  LET value == ValueRead(CustomerOf(c))
  IN  /\ IsSubmit(c) /\ CanUse(c)
      /\ \/ value = None /\ Step(c, "read", "error") /\ posted' = posted
         \/ /\ value # None /\ MockOrders
            /\ Step(c, "read", "remove") /\ posted' = posted
         \/ /\ value # None /\ ~MockOrders
            /\ Step(c, "read", "order") /\ posted' = posted \cup {c}
      /\ Found(c, value)

(* The primary takes a write and, if there is a replica, streams it.       *)
Put(u, value) ==
  /\ stored' = [stored EXCEPT ![u] = value]
  /\ lag' = IF env.reader = "replica"
            THEN Append(lag, [customer |-> u, value |-> value]) ELSE lag
  /\ UNCHANGED <<env, req, replica, clients, opener, held, posted, ordered,
                 restarts, preceded, stale, wiped>>

(* Slip: a checkout that exists is not overwritten.                        *)
WriteNew(c) ==
  /\ CanUse(c) /\ Step(c, "write", "reply")
  /\ Put(CustomerOf(c), IF stored[CustomerOf(c)] = None THEN held[c]
                        ELSE stored[CustomerOf(c)])

Write(c) == CanUse(c) /\ Step(c, "write", "reply") /\ Put(CustomerOf(c), held[c])

(* Slip: remove resolves without a DEL.                                    *)
RemoveNothing(c) ==
  /\ CanUse(c) /\ Step(c, "remove", "reply")
  /\ Put(CustomerOf(c), stored[CustomerOf(c)])

(* remove deletes whatever is under the key by now.                        *)
Remove(c) == /\ CanUse(c) /\ Step(c, "remove", "reply")
             /\ Put(CustomerOf(c), None)

Reply(c) == /\ Step(c, "reply", "ok")
            /\ UNCHANGED <<env, req, stored, replica, lag, clients, opener,
                           held, posted, ordered, restarts, preceded, stale,
                           wiped>>

(* The replica applies the oldest write it has not seen.                   *)
Replicate ==
  /\ lag # <<>>
  /\ replica' = [replica EXCEPT ![Head(lag).customer] = Head(lag).value]
  /\ lag' = Tail(lag)
  /\ UNCHANGED <<env, req, pc, stored, clients, opener, held, posted, ordered,
                 restarts, preceded, stale, wiped>>

-----------------------------------------------------------------------------
serviceVars == <<env, req, stored, replica, lag, clients, opener, held,
                 restarts, preceded, stale, wiped>>

(* The orders service commits an order that was posted, whether or not     *)
(* anybody still waits for the answer.                                     *)
CommitOrder(c) == /\ c \in posted
                  /\ posted' = posted \ {c}
                  /\ ordered' = ordered \cup {c}
                  /\ pc' = pc /\ UNCHANGED serviceVars

(* Slip: a status other than 2xx resolves the promise of createOrder.      *)
RejectOrderSilently(c) ==
  /\ c \in posted
  /\ posted' = posted \ {c}
  /\ pc' = [pc EXCEPT ![c] = IF @ = "order" THEN "remove" ELSE @]
  /\ ordered' = ordered /\ UNCHANGED serviceVars

(* It refuses the order: createOrder rejects with an HttpError.            *)
RejectOrder(c) ==
  /\ c \in posted
  /\ posted' = posted \ {c}
  /\ pc' = [pc EXCEPT ![c] = IF @ = "order" THEN "error" ELSE @]
  /\ ordered' = ordered /\ UNCHANGED serviceVars

(* 2xx with the ExistingOrder: createOrder resolves.                       *)
OrderCreated(c) == /\ c \in ordered
                   /\ Step(c, "order", "remove")
                   /\ UNCHANGED <<posted, ordered>> /\ UNCHANGED serviceVars

(* The connection breaks before an answer: createOrder rejects with the    *)
(* error, and the order may exist, now or later.                           *)
ConnectionLost(c) == /\ Step(c, "order", "error")
                     /\ UNCHANGED <<posted, ordered>> /\ UNCHANGED serviceVars

(* The process dies (a Redis client that loses its connection is enough:   *)
(* nobody listens to its errors), or a SIGTERM makes tracing.ts call       *)
(* process.exit: the calls in flight lose their connection and the memory  *)
(* is gone.                                                                *)
Restart ==
  /\ restarts < MaxRestarts
  /\ restarts' = restarts + 1
  /\ pc' = [c \in Calls |-> IF InFlight(c) THEN "dead" ELSE pc[c]]
  /\ clients' = [k \in Clients |-> "none"]
  /\ opener' = [k \in Clients |-> None]
  /\ IF env.store = "memory"
     THEN /\ stored' = [u \in Customers |-> None]
          /\ wiped' = wiped \cup {c \in Calls : \E u \in Customers : stored[u] = c}
     ELSE UNCHANGED <<stored, wiped>>
  /\ UNCHANGED <<env, req, replica, lag, held, posted, ordered, preceded, stale>>

Serve(c) == \/ OpenClient(c)
            \/ ReadForGet(c)
            \/ ReadForSubmit(c)
            \/ Write(c)
            \/ Remove(c)
            \/ Reply(c)

Next == \/ \E c \in Calls : \/ Begin(c)
                            \/ Serve(c)
                            \/ CommandFails(c)
                            \/ CommitOrder(c)
                            \/ RejectOrder(c)
                            \/ OrderCreated(c)
                            \/ ConnectionLost(c)
        \/ \E k \in Clients : Connected(k) \/ ConnectFails(k)
        \/ Replicate
        \/ Restart

Spec == Init /\ [][Next]_vars

(* The event loop gets to every call, connect() settles, and so does an    *)
(* exchange with the orders service.                                       *)
Fairness ==
  /\ \A c \in Calls : WF_vars(Serve(c))
  /\ \A c \in Calls : WF_vars(OrderCreated(c) \/ RejectOrder(c) \/ ConnectionLost(c))
  /\ \A k \in Clients : WF_vars(Connected(k) \/ ConnectFails(k))

FairSpec == Spec /\ Fairness

-----------------------------------------------------------------------------
(* Every variable holds a value of its type.                               *)
TypeOK == /\ env \in Environment
          /\ req \in [Calls -> Request]
          /\ \A c \in Calls : held[c] = c => CheckoutOf(c) \in Checkout
          /\ pc \in [Calls -> PC]
          /\ stored \in [Customers -> Calls \cup {None}]
          /\ replica \in [Customers -> Calls \cup {None}]
          /\ lag \in Seq([customer : Customers,
                          value : Calls \cup {None}])
          /\ clients \in [Clients -> ClientState]
          /\ opener \in [Clients -> Calls \cup {None}]
          /\ held \in [Calls -> Calls \cup {None}]
          /\ posted \subseteq Calls
          /\ ordered \subseteq Calls
          /\ restarts \in Nat
          /\ preceded \in [Calls -> SUBSET Calls]
          /\ stale \in [Calls -> BOOLEAN]
          /\ wiped \subseteq Calls

(* One checkout is ordered twice only by submits that overlapped, after a  *)
(* submit that failed or died once its order was posted, or from a replica *)
(* that had not seen the checkout removed.                                 *)
SecondOrderNeedsCause ==
  \A c, d \in Calls :
    (c # d /\ {c, d} \subseteq ordered /\ held[c] = held[d])
      => \/ Overlap(c, d)
         \/ \E e \in {c, d} : stale[e] \/ pc[e] \in {"error", "dead"}

(* The orders service was asked for an order of what the submit holds, and *)
(* has it (the mock has none to show).                                     *)
Ordered(c) == MockOrders \/ c \in ordered

(* An update that was acknowledged goes unless: a later or an overlapping  *)
(* update replaced it; a submit ordered it; a submit that overlapped it,   *)
(* or read a stale replica, removed it; or a restart wiped the memory.     *)
UpdateLossNeedsCause ==
  \A u \in Calls :
    (IsUpdate(u) /\ pc[u] = "ok" /\ stored[CustomerOf(u)] # held[u])
      => \/ u \in wiped
         \/ \E d \in Calls \ {u} :
              /\ SameCustomer(u, d) /\ Started(d) /\ d \notin preceded[u]
              /\ \/ IsUpdate(d)
                 \/ /\ IsSubmit(d)
                    /\ \/ held[d] = held[u] /\ Ordered(d)
                       \/ Overlap(u, d)
                       \/ stale[d]

(* What get answers and what submit orders is no checkout that another     *)
(* update had replaced, or another submit had removed, before the call     *)
(* began, unless the replica was behind.                                   *)
ReadIsCurrent ==
  \A c, d \in Calls :
    (/\ ~IsUpdate(c) /\ held[c] # None /\ ~stale[c]
     /\ d \in preceded[c] /\ SameCustomer(c, d) /\ pc[d] = "ok")
      => /\ IsSubmit(d) => held[d] # held[c]
         /\ IsUpdate(d) => held[c] \notin preceded[d]

(* While requests are in flight a moment lies ahead when each has been     *)
(* answered or has lost its process, unless the first connect() of a Redis *)
(* client failed: then requests may hang for good.                         *)
EveryCallAnswered ==
  (\E c \in Calls : InFlight(c))
    ~> \/ \A c \in Calls : ~InFlight(c)
       \/ \E k \in Clients : clients[k] = "broken"
=============================================================================
