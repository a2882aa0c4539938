------------------------------ MODULE Ratings -------------------------------
(***************************************************************************)
(* The ratings service of bookinfo (ratings.js): ratings kept in memory,   *)
(* or rows read from MySQL or MongoDB, in the versions that fail, delay or *)
(* switch themselves off, with health probes, SIGTERM, kills and restarts. *)
(* A handler runs to its end or to its next callback in one step.          *)
(***************************************************************************)
EXTENDS Naturals

CONSTANTS Calls,        \* the requests made, each at most once
          Products,     \* numeric product ids
          NaN,          \* a product id that parseInt does not understand
          None,         \* nobody has posted
          MaxRestarts,  \* bound on the restarts of the process
          MaxToggles    \* bound on the ticks of setInterval

ASSUME NoneAssumption == None \notin Calls
ASSUME NaNAssumption == NaN \notin Products

InMemory == {"v1", "v-faulty", "v-delayed", "v-unavailable", "v-unhealthy"}

(* SERVICE_VERSION and DB_TYPE.                                            *)
Environment ==
  [version : InMemory, db : {"none"}]
    \cup [version : {"v2"}, db : {"mysql", "mongodb"}]

Request ==
  [op : {"post"}, product : Products \cup {NaN}, json : BOOLEAN]
    \cup [op : {"get"}, product : Products \cup {NaN}]
    \cup [op : {"health"}]

PC == {"new", "accepted", "delayed", "connecting", "query", "answered", "lost"}

VARIABLES env, req, pc,
          process,           \* "up", "closing" after a SIGTERM, or "down"
          userAddedRatings,  \* for each product, the POST that is kept
          unavailable, healthy,
          toggles,
          connections,       \* calls whose database connection is open
          status,            \* of the answer, 0 before
          shown,             \* the POST whose ratings the answer holds
          epoch,             \* how often the process was started again
          endedIn,           \* history: the epoch a call was answered or
                             \* lost in
          preceded,          \* history: calls answered before it was made
          killed             \* history: epochs that ended with a kill

vars == <<env, req, pc, process, userAddedRatings, unavailable, healthy,
          toggles, connections, status, shown, epoch, endedIn, preceded,
          killed>>

Accepted(c) == pc[c] \notin {"new", "answered", "lost"}

Empty == [p \in Products |-> None]

Init == /\ env \in Environment
        /\ req \in [Calls -> Request]
        /\ pc = [c \in Calls |-> "new"]
        /\ process = "up"
        /\ userAddedRatings = Empty
        /\ unavailable = FALSE /\ healthy = TRUE
        /\ toggles = 0
        /\ connections = {}
        /\ status = [c \in Calls |-> 0]
        /\ shown = [c \in Calls |-> None]
        /\ epoch = 0
        /\ endedIn = [c \in Calls |-> 0]
        /\ preceded = [c \in Calls |-> {}]
        /\ killed = {}

-----------------------------------------------------------------------------
(* A request arrives: while the server listens, and after server.close on  *)
(* a connection that was open before it.                                   *)
Accept(c) ==
  /\ process # "down" /\ pc[c] = "new"
  /\ pc' = [pc EXCEPT ![c] = "accepted"]
  /\ preceded' = [preceded EXCEPT ![c] = {d \in Calls : pc[d] = "answered"}]
  /\ UNCHANGED <<env, req, process, userAddedRatings, unavailable, healthy,
                 toggles, connections, status, shown, epoch, endedIn,
                 killed>>

unanswered == <<env, req, process, unavailable, healthy, toggles, epoch,
                preceded, killed>>

(* res.writeHead, if there is one, and res.end.                            *)
Answer(c, code, post) ==
  /\ pc' = [pc EXCEPT ![c] = "answered"]
  /\ status' = [status EXCEPT ![c] = code]
  /\ shown' = [shown EXCEPT ![c] = post]
  /\ endedIn' = [endedIn EXCEPT ![c] = epoch]
  /\ UNCHANGED unanswered

AnswerOnly(c, code) ==
  Answer(c, code, None) /\ UNCHANGED <<userAddedRatings, connections>>

(* The handler of `op` runs, which is given a numeric product id.          *)
Handle(c, op) == pc[c] = "accepted" /\ req[c].op = op
Numeric(c) == req[c].product # NaN

Invalid(c) ==
  /\ \/ Handle(c, "get") /\ ~Numeric(c)
     \/ Handle(c, "post") /\ (~Numeric(c) \/ ~req[c].json)
  /\ AnswerOnly(c, 400)

PostNotImplemented(c) ==
  /\ Handle(c, "post") /\ Numeric(c) /\ req[c].json /\ env.version = "v2"
  /\ AnswerOnly(c, 501)

(* Slip: the ratings that are there are not replaced.                      *)
PutLocalReviewsOnce(c) ==
  /\ Handle(c, "post") /\ Numeric(c) /\ req[c].json /\ env.version \in InMemory
  /\ userAddedRatings' =
       [userAddedRatings EXCEPT ![req[c].product] = IF @ = None THEN c ELSE @]
  /\ Answer(c, 200, c) /\ UNCHANGED connections

(* putLocalReviews answers with what it has put there.                     *)
PutLocalReviews(c) ==
  /\ Handle(c, "post") /\ Numeric(c) /\ req[c].json /\ env.version \in InMemory
  /\ userAddedRatings' = [userAddedRatings EXCEPT ![req[c].product] = c]
  /\ Answer(c, 200, c) /\ UNCHANGED connections

(* Without a POST the answer holds the default ratings.                    *)
AnswerLocalReviews(c) ==
  /\ Answer(c, 200, userAddedRatings[req[c].product])
  /\ UNCHANGED <<userAddedRatings, connections>>

MayFail == \/ env.version = "v-faulty"
           \/ env.version \in {"v-unavailable", "v-unhealthy"} /\ unavailable

MaySucceed == ~(env.version \in {"v-unavailable", "v-unhealthy"} /\ unavailable)

GetLocalReviewsSuccessful(c) ==
  /\ Handle(c, "get") /\ Numeric(c) /\ env.version \in InMemory /\ MaySucceed
  /\ AnswerLocalReviews(c)

GetLocalReviewsServiceUnavailable(c) ==
  /\ Handle(c, "get") /\ Numeric(c) /\ MayFail
  /\ AnswerOnly(c, 503)

(* Half of the answers of v-delayed wait for 7 seconds.                    *)
Delay(c) ==
  /\ Handle(c, "get") /\ Numeric(c) /\ env.version = "v-delayed"
  /\ pc' = [pc EXCEPT ![c] = "delayed"]
  /\ UNCHANGED unanswered
  /\ UNCHANGED <<userAddedRatings, connections, status, shown, endedIn>>

(* The timer reads the ratings when it fires.                              *)
DelayedGet(c) == pc[c] = "delayed" /\ AnswerLocalReviews(c)

Health(c) == /\ Handle(c, "health")
             /\ AnswerOnly(c, IF healthy THEN 200 ELSE 500)

-----------------------------------------------------------------------------
(* v2: a connection for each GET.                                          *)
Connect(c) ==
  /\ Handle(c, "get") /\ Numeric(c) /\ env.version = "v2"
  /\ pc' = [pc EXCEPT ![c] = "connecting"]
  /\ UNCHANGED unanswered
  /\ UNCHANGED <<userAddedRatings, connections, status, shown, endedIn>>

Connected(c) ==
  /\ pc[c] = "connecting"
  /\ pc' = [pc EXCEPT ![c] = "query"]
  /\ connections' = connections \cup {c}
  /\ UNCHANGED unanswered
  /\ UNCHANGED <<userAddedRatings, status, shown, endedIn>>

(* MySQL: res.end without res.writeHead, so the error goes out as a 200.   *)
ConnectFails(c) ==
  /\ pc[c] = "connecting"
  /\ AnswerOnly(c, IF env.db = "mysql" THEN 200 ELSE 500)

(* Slip: only the callback of a select that succeeded closes the client.   *)
SelectFailsAndStaysOpen(c) == pc[c] = "query" /\ AnswerOnly(c, 500)

(* The select fails.  client.close() ends the connection to MongoDB, the   *)
(* connection.end() queued behind the select that to MySQL.                *)
SelectFails(c) ==
  /\ pc[c] = "query"
  /\ connections' = connections \ {c}
  /\ Answer(c, 500, None) /\ UNCHANGED userAddedRatings

(* The first two rows, 0 for each that is missing.                         *)
Selected(c) ==
  /\ pc[c] = "query"
  /\ connections' = connections \ {c}
  /\ Answer(c, 200, None) /\ UNCHANGED userAddedRatings

-----------------------------------------------------------------------------
(* setInterval: every minute in v-unavailable; in v-unhealthy every 15     *)
(* minutes, together with the health.                                      *)
Toggle ==
  /\ process # "down" /\ toggles < MaxToggles
  /\ env.version \in {"v-unavailable", "v-unhealthy"}
  /\ toggles' = toggles + 1
  /\ unavailable' = ~unavailable
  /\ healthy' = IF env.version = "v-unhealthy" THEN ~healthy ELSE healthy
  /\ UNCHANGED <<env, req, pc, process, userAddedRatings, connections, status,
                 shown, epoch, endedIn, preceded, killed>>

rest == <<env, req, userAddedRatings, unavailable, healthy, toggles, status,
          shown, epoch, preceded>>

(* server.close: no new connections.                                       *)
Sigterm == /\ process = "up" /\ process' = "closing"
           /\ UNCHANGED <<pc, connections, endedIn, killed>> /\ UNCHANGED rest

(* The process ends, and with it every request it had accepted.            *)
Stop == /\ process' = "down" /\ connections' = {}
        /\ pc' = [c \in Calls |-> IF Accepted(c) THEN "lost" ELSE pc[c]]
        /\ endedIn' = [c \in Calls |->
                       IF Accepted(c) THEN epoch ELSE endedIn[c]]
        /\ UNCHANGED rest

(* Slip: process.exit without waiting for server.close.                    *)
ExitAtOnce == process = "closing" /\ Stop /\ killed' = killed

(* The callback of server.close runs when every connection has ended.      *)
Exit == /\ process = "closing" /\ \A c \in Calls : ~Accepted(c)
        /\ Stop /\ killed' = killed

(* The kubelet kills a process that fails its probes, or that has not      *)
(* exited when the grace period ends.                                      *)
Kill == process # "down" /\ Stop /\ killed' = killed \cup {epoch}

Start ==
  /\ process = "down" /\ epoch < MaxRestarts
  /\ process' = "up" /\ epoch' = epoch + 1
  /\ userAddedRatings' = Empty /\ unavailable' = FALSE /\ healthy' = TRUE
  /\ UNCHANGED <<env, req, pc, toggles, connections, status, shown,
                 endedIn, preceded, killed>>

Callback(c) ==
  \/ Invalid(c)
  \/ PostNotImplemented(c)
  \/ PutLocalReviews(c)
  \/ GetLocalReviewsSuccessful(c)
  \/ GetLocalReviewsServiceUnavailable(c)
  \/ Delay(c)
  \/ DelayedGet(c)
  \/ Health(c)
  \/ Connect(c)
  \/ Connected(c)
  \/ ConnectFails(c)
  \/ SelectFails(c)
  \/ Selected(c)

Next == \/ \E c \in Calls : Accept(c) \/ Callback(c)
        \/ Toggle
        \/ Sigterm
        \/ Exit
        \/ Kill
        \/ Start

Spec == Init /\ [][Next]_vars

(* The event loop runs every callback, timers fire, and the database       *)
(* accepts or refuses every connection and every select.                   *)
Fairness == WF_vars(Exit) /\ \A c \in Calls : WF_vars(Callback(c))

FairSpec == Spec /\ Fairness

-----------------------------------------------------------------------------
(* Every variable holds a value of its type.                               *)
TypeOK == /\ env \in Environment
          /\ req \in [Calls -> Request]
          /\ pc \in [Calls -> PC]
          /\ process \in {"up", "closing", "down"}
          /\ userAddedRatings \in [Products -> Calls \cup {None}]
          /\ unavailable \in BOOLEAN /\ healthy \in BOOLEAN
          /\ toggles \in Nat
          /\ connections \subseteq {c \in Calls : pc[c] = "query"}
          /\ status \in [Calls -> {0, 200, 400, 500, 501, 503}]
          /\ shown \in [Calls -> Calls \cup {None}]
          /\ epoch \in Nat /\ endedIn \in [Calls -> Nat]
          /\ preceded \in [Calls -> SUBSET Calls]
          /\ killed \subseteq Nat

Kept(c) == req[c].op = "post" /\ status[c] = 200
Got(c) == req[c].op = "get" /\ status[c] = 200
SameProduct(c, d) == req[c].product = req[d].product

(* Ratings are read as they were last written: a GET that follows an       *)
(* acknowledged POST for its product shows that POST or one answered       *)
(* after the POST began, whatever delay it has had; a POST goes only with  *)
(* its process.                                                            *)
ReadSeesPosts ==
  \A c, d \in Calls :
    (/\ Got(c) /\ Kept(d) /\ SameProduct(c, d) /\ d \in preceded[c]
     /\ endedIn[c] = endedIn[d])
      => /\ shown[c] # None
         /\ shown[c] \notin preceded[d]

(* Every accepted request is answered, the delayed ones after a SIGTERM    *)
(* too, or lost with a process that is killed; and its database connection *)
(* is closed.                                                              *)
EveryCallEnds == \A c \in Calls :
  (Accepted(c) \/ c \in connections) ~>
    /\ c \notin connections
    /\ pc[c] = "answered" \/ (pc[c] = "lost" /\ endedIn[c] \in killed)
=============================================================================
