----------------------------- MODULE Bookinfo_proofs ------------------------
(***************************************************************************)
(* What is proved of bookinfo.  The ratings service keeps its types and    *)
(* reads what was posted, for every set of calls and products and every    *)
(* number of restarts.  The product page comes to rest as its clicks and   *)
(* keys asked, for every number of panels, slides, tabs, menus and openers *)
(* and however often they are used: each plugin has an inductive invariant *)
(* of its own, and a step of the page is a step of one plugin.             *)
(***************************************************************************)
EXTENDS Ratings, ProductPage, FiniteSetTheorems, SequenceTheorems,
        WellFoundedInduction, TLAPS

(* The ratings service.                                                    *)

(* Only a GET for a numeric product waits, and for the database in v2.     *)
Waiting == \A c \in Calls :
  pc[c] \in {"delayed", "connecting", "query"} =>
    /\ req[c].op = "get" /\ req[c].product \in Products
    /\ pc[c] = "delayed" => env.version \in InMemory
    /\ pc[c] # "delayed" => env.version = "v2"

(* Calls that came before another one have been answered.                  *)
PrecededAnswered ==
  \A c, d \in Calls : d \in preceded[c] => pc[d] = "answered"

(* Only what is answered has a status, no answer is from a later process,  *)
(* and what is kept is a POST for a product, in memory.                    *)
Answers == \A c \in Calls :
  /\ status[c] # 0 => pc[c] = "answered"
  /\ endedIn[c] <= epoch
  /\ Kept(c) => req[c].product \in Products /\ env.version \in InMemory
  /\ (Got(c) /\ env.version \in InMemory) => req[c].product \in Products

(* Where a POST was kept by this process there is it or a later one.       *)
Latest == \A d \in Calls :
  (Kept(d) /\ endedIn[d] = epoch) =>
    /\ userAddedRatings[req[d].product] # None
    /\ userAddedRatings[req[d].product] \notin preceded[d]

IInv == TypeOK /\ Waiting /\ PrecededAnswered /\ Answers /\ Latest
          /\ ReadSeesPosts

(* What the type of req says of a request.                                 *)
LEMMA RequestTyped ==
  ASSUME TypeOK, NEW c \in Calls
  PROVE  /\ req[c].op \in {"get", "post", "health"}
         /\ req[c].op # "health" => req[c].product \in Products \cup {NaN}
         /\ env.version \in InMemory \cup {"v2"}
<1>1. req[c] \in Request /\ env \in Environment
  BY DEF TypeOK
<1> QED BY <1>1 DEF Request, Environment

(* The service begins with nothing asked and nothing posted.               *)
LEMMA InitIInv == Init => IInv
<1> SUFFICES ASSUME Init PROVE IInv
  OBVIOUS
<1> USE DEF Init
<1>1. TypeOK
  BY DEF TypeOK, PC, Empty
<1>2. Waiting /\ PrecededAnswered /\ Answers /\ Latest /\ ReadSeesPosts
  BY DEF Waiting, PrecededAnswered, Answers, Latest, ReadSeesPosts, Kept, Got
<1> QED BY <1>1, <1>2 DEF IInv

-----------------------------------------------------------------------------
(* The kinds of steps.  A reply with ratings shows those in memory, a POST *)
(* that is kept puts its own there.                                        *)
Replies(c, code, post) ==
  /\ Accepted(c) /\ Answer(c, code, post)
  /\ connections' \in {connections, connections \ {c}}
  /\ pc[c] # "query" => connections' = connections
  /\ pc[c] = "query" => connections' = connections \ {c}
  /\ IF req[c].op = "post" /\ code = 200
     THEN /\ req[c].product \in Products /\ env.version \in InMemory
          /\ pc[c] = "accepted" /\ post = c
          /\ userAddedRatings' =
               [userAddedRatings EXCEPT ![req[c].product] = c]
     ELSE UNCHANGED userAddedRatings
  /\ (req[c].op = "get" /\ code = 200 /\ env.version \in InMemory) =>
       req[c].product \in Products /\ post = userAddedRatings[req[c].product]

Waits(c) == Delay(c) \/ Connect(c) \/ Connected(c)

Stops == Stop /\ killed' \in {killed, killed \cup {epoch}}

(* A callback of a handler waits on, or replies, and in no other way.      *)
LEMMA CallbackKinds ==
  ASSUME TypeOK, Waiting, NEW c \in Calls, Callback(c)
  PROVE  \/ Waits(c)
         \/ \E code \in {200, 400, 500, 501, 503}, post \in Calls \cup {None} :
              Replies(c, code, post)
<1> USE RequestTyped, NaNAssumption DEF Accepted, Handle, Numeric, AnswerOnly,
        AnswerLocalReviews, InMemory
<1>0. connections \subseteq {d \in Calls : pc[d] = "query"}
      /\ userAddedRatings \in [Products -> Calls \cup {None}]
  BY DEF TypeOK
<1>1. CASE Invalid(c)
  <2>1. Replies(c, 400, None)
    BY <1>0, <1>1 DEF Invalid, Replies
  <2> QED BY <2>1
<1>2. CASE PostNotImplemented(c)
  <2>1. Replies(c, 501, None)
    BY <1>0, <1>2 DEF PostNotImplemented, Replies
  <2> QED BY <2>1
<1>3. CASE PutLocalReviews(c)
  <2>1. Replies(c, 200, c)
    BY <1>0, <1>3 DEF PutLocalReviews, Replies
  <2> QED BY <2>1
<1>4. CASE GetLocalReviewsSuccessful(c)
  <2>1. Replies(c, 200, userAddedRatings[req[c].product])
    BY <1>0, <1>4 DEF GetLocalReviewsSuccessful, Replies
  <2>2. userAddedRatings[req[c].product] \in Calls \cup {None}
    BY <1>0, <1>4 DEF GetLocalReviewsSuccessful
  <2> QED BY <2>1, <2>2
<1>5. CASE GetLocalReviewsServiceUnavailable(c)
  <2>1. Replies(c, 503, None)
    BY <1>0, <1>5 DEF GetLocalReviewsServiceUnavailable, Replies
  <2> QED BY <2>1
<1>6. CASE DelayedGet(c)
  <2>1. req[c].op = "get" /\ req[c].product \in Products
    BY <1>6 DEF DelayedGet, Waiting
  <2>2. Replies(c, 200, userAddedRatings[req[c].product])
    BY <1>0, <1>6, <2>1 DEF DelayedGet, Replies
  <2>3. userAddedRatings[req[c].product] \in Calls \cup {None}
    BY <1>0, <2>1
  <2> QED BY <2>2, <2>3
<1>7. CASE Health(c)
  <2>1. Replies(c, IF healthy THEN 200 ELSE 500, None)
    BY <1>0, <1>7 DEF Health, Replies
  <2> QED BY <2>1
<1>8. CASE ConnectFails(c)
  <2>1. req[c].op = "get" /\ env.version = "v2"
    BY <1>8 DEF ConnectFails, Waiting
  <2>2. Replies(c, IF env.db = "mysql" THEN 200 ELSE 500, None)
    BY <1>0, <1>8, <2>1 DEF ConnectFails, Replies
  <2> QED BY <2>2
<1>9. CASE SelectFails(c)
  <2>1. Replies(c, 500, None)
    BY <1>0, <1>9 DEF SelectFails, Replies
  <2> QED BY <2>1
<1>10. CASE Selected(c)
  <2>1. req[c].op = "get" /\ env.version = "v2"
    BY <1>10 DEF Selected, Waiting
  <2>2. Replies(c, 200, None)
    BY <1>0, <1>10, <2>1 DEF Selected, Replies
  <2> QED BY <2>2
<1> QED BY <1>1, <1>2, <1>3, <1>4, <1>5, <1>6, <1>7, <1>8, <1>9, <1>10
        DEF Callback, Waits

(* Every step is of one of nine kinds; the proofs below go by kind.        *)
LEMMA NextKinds ==
  ASSUME TypeOK, Waiting, [Next]_vars
  PROVE  \/ UNCHANGED vars
         \/ \E c \in Calls : Accept(c)
         \/ \E c \in Calls : Waits(c)
         \/ \E c \in Calls, code \in {200, 400, 500, 501, 503},
               post \in Calls \cup {None} : Replies(c, code, post)
         \/ Toggle
         \/ Sigterm
         \/ Stops
         \/ Start
BY CallbackKinds DEF Next, Exit, Kill, Stops

-----------------------------------------------------------------------------
(* Each kind of step keeps the types.                                      *)
LEMMA TypeStep == TypeOK /\ Waiting /\ [Next]_vars => TypeOK'
<1> SUFFICES ASSUME TypeOK, Waiting, [Next]_vars PROVE TypeOK'
  OBVIOUS
<1> USE DEF TypeOK, PC
<1>1. CASE UNCHANGED vars
  BY <1>1 DEF vars
<1>2. ASSUME NEW c \in Calls, Accept(c) PROVE TypeOK'
  BY <1>2 DEF Accept
<1>3. ASSUME NEW c \in Calls, Waits(c) PROVE TypeOK'
  <2>1. CASE Delay(c) \/ Connect(c)
    <3>1. pc[c] = "accepted" /\ connections' = connections
      BY <2>1 DEF Delay, Connect, Handle
    <3>2. \E to \in PC : pc' = [pc EXCEPT ![c] = to]
      BY <2>1 DEF Delay, Connect
    <3>3. connections' \subseteq {d \in Calls : pc'[d] = "query"}
      BY <3>1, <3>2
    <3>4. pc' \in [Calls -> PC]
      BY <3>2
    <3>5. /\ connections' = connections /\ status' = status /\ shown' = shown
          /\ endedIn' = endedIn /\ userAddedRatings' = userAddedRatings
          /\ UNCHANGED unanswered
      BY <2>1 DEF Delay, Connect
    <3> QED BY <3>3, <3>4, <3>5 DEF unanswered
  <2>2. CASE Connected(c)
    <3>1. connections' \subseteq {d \in Calls : pc'[d] = "query"}
      BY <2>2 DEF Connected
    <3> QED BY <2>2, <3>1 DEF Connected, unanswered
  <2> QED BY <1>3, <2>1, <2>2 DEF Waits
<1>4. ASSUME NEW c \in Calls, NEW code \in {200, 400, 500, 501, 503},
             NEW post \in Calls \cup {None}, Replies(c, code, post)
      PROVE  TypeOK'
  <2>1. userAddedRatings' \in [Products -> Calls \cup {None}]
    BY <1>4 DEF Replies
  <2>2. connections' \subseteq {d \in Calls : pc'[d] = "query"}
    BY <1>4 DEF Replies, Answer
  <2> QED BY <1>4, <2>1, <2>2 DEF Replies, Answer, unanswered
<1>5. CASE Toggle
  <2>1. unavailable' \in BOOLEAN /\ healthy' \in BOOLEAN
    BY <1>5, Zenon DEF Toggle
  <2>2. toggles' \in Nat
    BY <1>5 DEF Toggle
  <2> QED BY <1>5, <2>1, <2>2 DEF Toggle
<1>6. CASE Sigterm
  BY <1>6 DEF Sigterm, rest
<1>7. CASE Stops
  BY <1>7 DEF Stops, Stop, rest
<1>8. CASE Start
  <2>1. unavailable' \in BOOLEAN /\ healthy' \in BOOLEAN
    BY <1>8, Zenon DEF Start
  <2>2. epoch' \in Nat
    BY <1>8 DEF Start
  <2>3. userAddedRatings' \in [Products -> Calls \cup {None}]
    BY <1>8 DEF Start, Empty
  <2> QED BY <1>8, <2>1, <2>2, <2>3 DEF Start
<1> QED BY <1>1, <1>2, <1>3, <1>4, <1>5, <1>6, <1>7, <1>8, NextKinds

(* What is answered stays as it is; requests and environment never change. *)
AsAnswered(c) == /\ pc'[c] = "answered" /\ status'[c] = status[c]
            /\ shown'[c] = shown[c] /\ endedIn'[c] = endedIn[c]
            /\ preceded'[c] = preceded[c]

(* What was answered stays as it was answered.                             *)
LEMMA AnsweredStays ==
  ASSUME TypeOK, Waiting, [Next]_vars
  PROVE  /\ env' = env /\ req' = req
         /\ \A c \in Calls : pc[c] = "answered" => AsAnswered(c)
<1> USE DEF TypeOK, AsAnswered, Accepted
<1>1. CASE UNCHANGED vars
  BY <1>1 DEF vars
<1>2. CASE \E c \in Calls : Accept(c)
  BY <1>2 DEF Accept
<1>3. CASE \E c \in Calls : Waits(c)
  BY <1>3 DEF Waits, Delay, Connect, Connected, Handle, unanswered
<1>4. CASE \E c \in Calls, code \in {200, 400, 500, 501, 503},
              post \in Calls \cup {None} : Replies(c, code, post)
  BY <1>4 DEF Replies, Answer, unanswered
<1>5. CASE Toggle
  BY <1>5 DEF Toggle
<1>6. CASE Sigterm
  BY <1>6 DEF Sigterm, rest
<1>7. CASE Stops
  BY <1>7 DEF Stops, Stop, rest
<1>8. CASE Start
  BY <1>8 DEF Start
<1> QED BY <1>1, <1>2, <1>3, <1>4, <1>5, <1>6, <1>7, <1>8, NextKinds

(* Nobody comes to wait but a GET for a numeric product.                   *)
LEMMA WaitingStep == TypeOK /\ Waiting /\ [Next]_vars => Waiting'
<1> SUFFICES ASSUME TypeOK, Waiting, [Next]_vars PROVE Waiting'
  OBVIOUS
<1>0. env' = env /\ req' = req
  BY AnsweredStays
<1> USE <1>0 DEF TypeOK, Waiting
<1>1. CASE UNCHANGED vars
  BY <1>1 DEF vars
<1>2. CASE \E c \in Calls : Accept(c)
  BY <1>2 DEF Accept
<1>3. ASSUME NEW c \in Calls, Waits(c) PROVE Waiting'
  <2>1. \A d \in Calls \ {c} : pc'[d] = pc[d]
    BY <1>3 DEF Waits, Delay, Connect, Connected
  <2>2. CASE Delay(c) \/ Connect(c)
    <3>1. req[c].op = "get" /\ req[c].product \in Products
      BY <2>2, RequestTyped DEF Delay, Connect, Handle, Numeric
    <3> QED BY <2>1, <2>2, <3>1 DEF Delay, Connect, InMemory
  <2>3. CASE Connected(c)
    BY <2>1, <2>3 DEF Connected
  <2> QED BY <1>3, <2>2, <2>3 DEF Waits
<1>4. CASE \E c \in Calls, code \in {200, 400, 500, 501, 503},
              post \in Calls \cup {None} : Replies(c, code, post)
  BY <1>4 DEF Replies, Answer
<1>5. CASE Toggle
  BY <1>5 DEF Toggle
<1>6. CASE Sigterm
  BY <1>6 DEF Sigterm
<1>7. CASE Stops
  BY <1>7 DEF Stops, Stop
<1>8. CASE Start
  BY <1>8 DEF Start
<1> QED BY <1>1, <1>2, <1>3, <1>4, <1>5, <1>6, <1>7, <1>8, NextKinds

(* The calls that preceded one were answered, and stay so.                 *)
LEMMA PrecededStep ==
  TypeOK /\ Waiting /\ PrecededAnswered /\ [Next]_vars => PrecededAnswered'
<1> SUFFICES ASSUME TypeOK, Waiting, PrecededAnswered, [Next]_vars,
                    NEW c \in Calls, NEW d \in Calls, d \in preceded'[c]
             PROVE  pc'[d] = "answered"
  BY DEF PrecededAnswered
<1>1. preceded'[c] = preceded[c]
        \/ preceded'[c] = {e \in Calls : pc[e] = "answered"}
  <2>1. CASE \E e \in Calls : Accept(e)
    BY <2>1 DEF Accept, TypeOK
  <2>2. CASE ~\E e \in Calls : Accept(e)
    <3>1. CASE UNCHANGED vars
      BY <3>1 DEF vars
    <3>2. CASE \E e \in Calls : Waits(e)
      BY <3>2 DEF Waits, Delay, Connect, Connected, unanswered
    <3>3. CASE \E e \in Calls, code \in {200, 400, 500, 501, 503},
                  post \in Calls \cup {None} : Replies(e, code, post)
      BY <3>3 DEF Replies, Answer, unanswered
    <3>4. CASE Toggle \/ Sigterm \/ Start
      BY <3>4 DEF Toggle, Sigterm, rest, Start
    <3>5. CASE Stops
      BY <3>5 DEF Stops, Stop, rest
    <3> QED BY <2>2, <3>1, <3>2, <3>3, <3>4, <3>5, NextKinds
  <2> QED BY <2>1, <2>2
<1> QED BY <1>1, AnsweredStays DEF PrecededAnswered, AsAnswered, TypeOK

(* Only a reply sets a status, and only a POST for a product is kept.      *)
LEMMA AnswersStep ==
  TypeOK /\ Waiting /\ Answers /\ [Next]_vars => Answers'
<1> SUFFICES ASSUME TypeOK, Waiting, Answers, [Next]_vars, NEW d \in Calls
             PROVE  /\ status'[d] # 0 => pc'[d] = "answered"
                    /\ endedIn'[d] <= epoch'
                    /\ Kept(d)' => /\ req'[d].product \in Products
                                   /\ env'.version \in InMemory
                    /\ (Got(d)' /\ env'.version \in InMemory) =>
                         req'[d].product \in Products
  BY DEF Answers
<1>0. env' = env /\ req' = req /\ (pc[d] = "answered" => AsAnswered(d))
  BY AnsweredStays
<1>1. /\ status[d] # 0 => pc[d] = "answered"
      /\ endedIn[d] <= epoch /\ endedIn[d] \in Nat /\ epoch \in Nat
      /\ Kept(d) => req[d].product \in Products /\ env.version \in InMemory
      /\ (Got(d) /\ env.version \in InMemory) => req[d].product \in Products
  BY DEF Answers, TypeOK
<1>2. ASSUME status'[d] = status[d], endedIn'[d] <= epoch'
      PROVE  /\ status'[d] # 0 => pc'[d] = "answered"
             /\ endedIn'[d] <= epoch'
             /\ Kept(d)' => /\ req'[d].product \in Products
                            /\ env'.version \in InMemory
             /\ (Got(d)' /\ env'.version \in InMemory) =>
                  req'[d].product \in Products
  BY <1>0, <1>1, <1>2 DEF AsAnswered, Kept, Got
<1>3. CASE \E c \in Calls, code \in {200, 400, 500, 501, 503},
              post \in Calls \cup {None} : Replies(c, code, post)
  <2> PICK c \in Calls, code \in {200, 400, 500, 501, 503},
           post \in Calls \cup {None} : Replies(c, code, post)
    BY <1>3
  <2>1. CASE d # c
    <3>1. status'[d] = status[d] /\ endedIn'[d] = endedIn[d] /\ epoch' = epoch
      BY <2>1 DEF Replies, Answer, unanswered, TypeOK
    <3> QED BY <1>1, <1>2, <3>1
  <2>2. CASE d = c
    <3>1. /\ status'[d] = code /\ pc'[d] = "answered"
          /\ endedIn'[d] = epoch /\ epoch' = epoch
      BY <2>2 DEF Replies, Answer, unanswered, TypeOK
    <3>2. (req[d].op = "post" /\ code = 200) =>
            req[d].product \in Products /\ env.version \in InMemory
      BY <2>2 DEF Replies
    <3>3. (req[d].op = "get" /\ code = 200 /\ env.version \in InMemory) =>
            req[d].product \in Products
      BY <2>2 DEF Replies
    <3> QED BY <1>0, <1>1, <3>1, <3>2, <3>3 DEF Kept, Got
  <2> QED BY <2>1, <2>2
<1>4. CASE Stops
  <2>1. status' = status /\ epoch' = epoch /\ endedIn'[d] \in {epoch, endedIn[d]}
    BY <1>4 DEF Stops, Stop, rest
  <2> QED BY <1>1, <1>2, <2>1
<1>5. CASE Start
  <2>1. status' = status /\ epoch' = epoch + 1 /\ endedIn' = endedIn
    BY <1>5 DEF Start
  <2> QED BY <1>1, <1>2, <2>1
<1>6. CASE UNCHANGED vars \/ (\E c \in Calls : Accept(c) \/ Waits(c)) \/ Toggle
             \/ Sigterm
  <2>1. status' = status /\ epoch' = epoch /\ endedIn' = endedIn
    BY <1>6 DEF vars, Accept, Waits, Delay, Connect, Connected, unanswered,
       Toggle, Sigterm, rest
  <2> QED BY <1>1, <1>2, <2>1
<1> QED BY <1>3, <1>4, <1>5, <1>6, NextKinds

(* A POST keeps Latest by being kept itself; other replies leave what is   *)
(* kept alone; a start leaves nothing of the epoch before.                 *)
LEMMA LatestStep == IInv /\ [Next]_vars => Latest'
<1> SUFFICES ASSUME IInv, [Next]_vars, NEW d \in Calls,
                    Kept(d)', endedIn'[d] = epoch'
             PROVE  /\ userAddedRatings'[req'[d].product] # None
                    /\ userAddedRatings'[req'[d].product] \notin preceded'[d]
  BY DEF Latest
<1> USE DEF IInv
<1>0. /\ env' = env /\ req' = req
      /\ \A e \in Calls : pc[e] = "answered" => AsAnswered(e)
  BY AnsweredStays
<1>1. \A e \in preceded[d] : pc[e] = "answered"
  BY DEF PrecededAnswered, TypeOK
<1>2. userAddedRatings \in [Products -> Calls \cup {None}] /\ epoch \in Nat
  BY DEF TypeOK
<1>3. CASE \E c \in Calls, code \in {200, 400, 500, 501, 503},
              post \in Calls \cup {None} : Replies(c, code, post)
  <2> PICK c \in Calls, code \in {200, 400, 500, 501, 503},
           post \in Calls \cup {None} : Replies(c, code, post)
    BY <1>3
  <2>1. pc[c] # "answered" /\ epoch' = epoch /\ preceded' = preceded
    BY DEF Replies, Accepted, Answer, unanswered
  <2>2. CASE d = c
    <3>1. req[d].op = "post" /\ code = 200
      BY <1>0, <2>2 DEF Kept, Replies, Answer, TypeOK
    <3>2. /\ req[d].product \in Products
          /\ userAddedRatings'[req[d].product] = d
      BY <1>2, <2>2, <3>1 DEF Replies
    <3> QED BY <1>0, <1>1, <2>1, <2>2, <3>2, NoneAssumption
  <2>3. CASE d # c
    <3>1. status'[d] = status[d] /\ endedIn'[d] = endedIn[d]
      BY <2>3 DEF Replies, Answer, TypeOK
    <3>2. Kept(d) /\ endedIn[d] = epoch
      BY <1>0, <2>1, <3>1 DEF Kept
    <3>3. /\ userAddedRatings[req[d].product] # None
          /\ userAddedRatings[req[d].product] \notin preceded[d]
          /\ req[d].product \in Products
      BY <3>2 DEF Latest, Answers
    <3>4. userAddedRatings'[req[d].product] \in {userAddedRatings[req[d].product], c}
      BY <1>2, <3>3 DEF Replies
    <3> QED BY <1>0, <1>1, <2>1, <3>3, <3>4, NoneAssumption
  <2> QED BY <2>2, <2>3
<1>4. ASSUME userAddedRatings' = userAddedRatings, epoch' = epoch,
             status'[d] = status[d],
             endedIn'[d] = endedIn[d], preceded'[d] = preceded[d]
      PROVE  /\ userAddedRatings'[req'[d].product] # None
             /\ userAddedRatings'[req'[d].product] \notin preceded'[d]
  BY <1>0, <1>4 DEF Latest, Kept
<1>6. CASE Stops
  <2>1. status' = status
    BY <1>6 DEF Stops, Stop, rest
  <2>2. pc[d] = "answered"
    BY <1>0, <2>1 DEF Kept, Answers
  <2>3. userAddedRatings' = userAddedRatings /\ epoch' = epoch
    BY <1>6 DEF Stops, Stop, rest
  <2> QED BY <1>0, <1>4, <2>2, <2>3 DEF AsAnswered
<1>7. CASE Start
  <2>1. status' = status /\ epoch' = epoch + 1 /\ endedIn' = endedIn
    BY <1>7 DEF Start
  <2>2. endedIn[d] \in Nat /\ endedIn[d] <= epoch
    BY DEF Answers, TypeOK
  <2> QED BY <1>2, <2>1, <2>2
<1>8. CASE UNCHANGED vars \/ (\E c \in Calls : Accept(c) \/ Waits(c)) \/ Toggle
             \/ Sigterm
  <2>1. /\ status' = status /\ epoch' = epoch
        /\ userAddedRatings' = userAddedRatings
    BY <1>8 DEF vars, Accept, Waits, Delay, Connect, Connected, unanswered,
       Toggle, Sigterm, rest
  <2>2. pc[d] = "answered"
    BY <1>0, <2>1 DEF Kept, Answers
  <2> QED BY <1>0, <1>4, <2>1, <2>2 DEF AsAnswered
<1> QED BY <1>3, <1>6, <1>7, <1>8, NextKinds

(* A GET that is answered now shows what Latest says is kept.              *)
LEMMA ReadStep == IInv /\ [Next]_vars => ReadSeesPosts'
<1> SUFFICES ASSUME IInv, [Next]_vars, NEW c \in Calls, NEW d \in Calls,
                    Got(c)', Kept(d)', SameProduct(c, d)', d \in preceded'[c],
                    endedIn'[c] = endedIn'[d]
             PROVE  shown'[c] # None /\ shown'[c] \notin preceded'[d]
  BY DEF ReadSeesPosts
<1> USE DEF IInv
<1>0. /\ env' = env /\ req' = req
      /\ \A e \in Calls : pc[e] = "answered" => AsAnswered(e)
  BY AnsweredStays
<1>1. CASE pc[c] = "answered"
  <2>1. AsAnswered(c) /\ d \in preceded[c]
    BY <1>0, <1>1 DEF AsAnswered
  <2>2. AsAnswered(d)
    BY <1>0, <2>1 DEF PrecededAnswered
  <2>3. Got(c) /\ Kept(d) /\ SameProduct(c, d) /\ endedIn[c] = endedIn[d]
    <3>1. status'[c] = status[c] /\ endedIn'[c] = endedIn[c]
      BY <2>1 DEF AsAnswered
    <3>2. status'[d] = status[d] /\ endedIn'[d] = endedIn[d]
      BY <2>2 DEF AsAnswered
    <3>3. Got(c) /\ Kept(d) /\ SameProduct(c, d)
      BY <1>0, <3>1, <3>2 DEF Got, Kept, SameProduct
    <3> QED BY <3>1, <3>2, <3>3
  <2> QED BY <2>1, <2>2, <2>3 DEF ReadSeesPosts, AsAnswered
<1>2. CASE pc[c] # "answered"
  <2>1. status[c] = 0 /\ status'[c] = 200
    BY <1>2 DEF Answers, Got, TypeOK
  <2>2. \E code \in {200, 400, 500, 501, 503}, post \in Calls \cup {None} :
          Replies(c, code, post)
    <3>1. CASE \E e \in Calls, code \in {200, 400, 500, 501, 503},
                  post \in Calls \cup {None} : Replies(e, code, post)
      <4> PICK e \in Calls, code \in {200, 400, 500, 501, 503},
               post \in Calls \cup {None} : Replies(e, code, post)
        BY <3>1
      <4>1. status' = [status EXCEPT ![e] = code]
        BY DEF Replies, Answer
      <4>2. e = c
        BY <2>1, <4>1 DEF TypeOK
      <4> QED BY <4>2
    <3>2. CASE ~\E e \in Calls, code \in {200, 400, 500, 501, 503},
                   post \in Calls \cup {None} : Replies(e, code, post)
      <4>1. status' = status
        BY <3>2, NextKinds DEF vars, Accept, Waits, Delay, Connect, Connected,
           unanswered, Toggle, Sigterm, Stops, Stop, rest, Start
      <4> QED BY <2>1, <4>1
    <3> QED BY <3>1, <3>2
  <2> PICK code \in {200, 400, 500, 501, 503}, post \in Calls \cup {None} :
             Replies(c, code, post)
    BY <2>2
  <2>3. /\ code = 200 /\ shown'[c] = post /\ endedIn'[c] = epoch
        /\ preceded' = preceded /\ epoch' = epoch
    BY <2>1 DEF Replies, Answer, unanswered, TypeOK
  <2>4. pc[d] = "answered" /\ AsAnswered(d)
    BY <1>0, <2>3 DEF PrecededAnswered
  <2>5. Kept(d) /\ endedIn[d] = epoch
    <3>1. status'[d] = status[d] /\ endedIn'[d] = endedIn[d]
      BY <2>4 DEF AsAnswered
    <3>2. req[d].op = "post" /\ status[d] = 200
      BY <1>0, <3>1 DEF Kept
    <3>3. endedIn[d] = epoch
      BY <2>3, <3>1
    <3> QED BY <3>2, <3>3 DEF Kept
  <2>6. req[c].op = "get" /\ env.version \in InMemory
    BY <1>0, <2>5 DEF Got, Answers
  <2>7. post = userAddedRatings[req[c].product]
    BY <2>3, <2>6 DEF Replies
  <2>8. req[c].product = req[d].product
    BY <1>0 DEF SameProduct
  <2> QED BY <2>3, <2>5, <2>7, <2>8 DEF Latest
<1> QED BY <1>1, <1>2

(* All conjuncts together.                                                 *)
LEMMA IInvStep == IInv /\ [Next]_vars => IInv'
BY TypeStep, WaitingStep, PrecededStep, AnswersStep, LatestStep, ReadStep
   DEF IInv

(* ratings.js keeps its types.                                             *)
THEOREM TypeCorrect == Spec => []TypeOK
<1>1. IInv => TypeOK
  BY DEF IInv
<1> QED BY InitIInv, IInvStep, <1>1, PTL DEF Spec

(* A GET that follows an acknowledged POST for its product shows that POST *)
(* or one answered after it began, in every version, with every delay and  *)
(* however often the process was stopped and started.                      *)
THEOREM ReadsCorrect == Spec => []ReadSeesPosts
<1>1. IInv => ReadSeesPosts
  BY DEF IInv
<1> QED BY InitIInv, IInvStep, <1>1, PTL DEF Spec

-----------------------------------------------------------------------------
(* What FoldLeft leads to, by induction over the naturals.                 *)

(* Induction over the naturals, from the well-foundedness of the finite    *)
(* sets: a set of naturals that is not empty has a least element.          *)
LEMMA LeastNatural ==
  ASSUME NEW T, T \subseteq Nat, T # {}
  PROVE  \E k \in T : \A m \in T : k <= m
<1> DEFINE Below == {1 .. k : k \in T}
<1>1. IsWellFoundedOn(StrictSubsetOrdering(Nat), FiniteSubsetsOf(Nat))
  BY FS_StrictSubsetOrderingWellFounded
<1>2. Below # {} /\ Below \subseteq FiniteSubsetsOf(Nat)
  <2>1. \A k \in T : 1 .. k \in FiniteSubsetsOf(Nat)
    BY FS_Interval DEF FiniteSubsetsOf
  <2> QED BY <2>1
<1>3. PICK B \in Below : \A C \in Below : ~(<<C, B>> \in StrictSubsetOrdering(Nat))
  BY <1>1, <1>2, WFMin
<1>4. PICK k \in T : B = 1 .. k
  OBVIOUS
<1>5. ASSUME NEW m \in T, ~(k <= m) PROVE FALSE
  <2>1. m \in Nat /\ k \in Nat /\ m < k
    BY <1>5
  <2>2. 1 .. m \subseteq 1 .. k /\ k \in 1 .. k /\ k \notin 1 .. m
    BY <2>1
  <2>3. <<1 .. m, 1 .. k>> \in StrictSubsetOrdering(Nat)
    BY <2>1, <2>2 DEF StrictSubsetOrdering
  <2> QED BY <2>3, <1>3, <1>4
<1> QED BY <1>5

(* Induction over the naturals as a fact about sets: the least number      *)
(* outside T would have its predecessor inside.                            *)
LEMMA NaturalsBySteps ==
  ASSUME NEW T, 0 \in T, \A k \in Nat : k \in T => k + 1 \in T
  PROVE  Nat \subseteq T
<1>1. SUFFICES ASSUME Nat \ T # {} PROVE FALSE
  OBVIOUS
<1>2. PICK k \in Nat \ T : \A m \in Nat \ T : k <= m
  BY <1>1, LeastNatural
<1>3. k # 0 /\ k - 1 \in Nat /\ ~(k <= k - 1) /\ (k - 1) + 1 = k
  BY <1>2
<1> QED BY <1>2, <1>3

-----------------------------------------------------------------------------
(* FoldLeft over a sequence q of X, for a step f on states in S: its value *)
(* for every set of indices.                                               *)
IsFold(g, f, base, q, k) ==
  g = [s \in SUBSET (1 .. k) |->
         IF s = {} THEN base ELSE f[<<g[s \ {Max(s)}], q[Max(s)]>>]]

(* The recursion of the folds takes the greatest index first.              *)
LEMMA MaxOfSegment ==
  ASSUME NEW k \in Nat, NEW s \in SUBSET (1 .. k + 1), k + 1 \in s
  PROVE  Max(s) = k + 1
<1>1. \A y \in s : k + 1 >= y
  OBVIOUS
<1>2. \A x \in s : (\A y \in s : x >= y) => x = k + 1
  OBVIOUS
<1> QED BY <1>1, <1>2 DEF Max

(* The greatest index of a set of indices is one of them.                  *)
LEMMA MaxOfIndices ==
  ASSUME NEW n \in Nat, NEW s \in SUBSET (1 .. n), s # {}
  PROVE  Max(s) \in 1 .. n
<1> DEFINE T == {m \in Nat : n - m \in s}
<1>1. T # {}
  <2>1. PICK x \in s : TRUE
    OBVIOUS
  <2>2. n - x \in Nat /\ n - (n - x) = x
    BY <2>1
  <2> QED BY <2>2
<1>2. PICK k \in T : \A m \in T : k <= m
  <2> HIDE DEF T
  <2>1. T \subseteq Nat
    BY DEF T
  <2> QED BY <1>1, <2>1, LeastNatural
<1>3. ASSUME NEW y \in s PROVE n - k >= y
  <2>1. y \in 1 .. n /\ k \in Nat
    OBVIOUS
  <2>2. n - y \in Nat /\ n - (n - y) = y
    BY <2>1
  <2>3. k <= n - y
    BY <1>2, <2>2
  <2> QED BY <2>1, <2>3
<1> QED BY <1>2, <1>3 DEF Max

(* A fold of f over the indices of q exists as a function, and its values  *)
(* stay where f stays.                                                     *)
LEMMA FoldExists ==
  ASSUME NEW S, NEW X, NEW f \in [S \X X -> S], NEW base \in S, NEW q \in Seq(X)
  PROVE  \E g : /\ IsFold(g, f, base, q, Len(q))
                /\ \A s \in SUBSET (1 .. Len(q)) : g[s] \in S
<1> DEFINE Folds(g, k) == /\ IsFold(g, f, base, q, k)
                          /\ \A s \in SUBSET (1 .. k) : g[s] \in S
           T == {k \in Nat : k <= Len(q) => \E g : Folds(g, k)}
<1>1. 0 \in T
  <2> DEFINE g == [s \in SUBSET (1 .. 0) |-> base]
  <2>1. \A s \in SUBSET (1 .. 0) : s = {}
    OBVIOUS
  <2>2. Folds(g, 0)
    BY <2>1 DEF IsFold
  <2> HIDE DEF Folds, g
  <2> QED BY <2>2
<1>2. ASSUME NEW k \in Nat, k \in T PROVE k + 1 \in T
  <2> SUFFICES ASSUME k + 1 <= Len(q) PROVE \E g : Folds(g, k + 1)
    OBVIOUS
  <2>1. PICK h : Folds(h, k)
    <3>1. k <= Len(q)
      BY LenProperties
    <3> HIDE DEF Folds
    <3> QED BY <1>2, <3>1
  <2>2. q[k + 1] \in X
    BY LenProperties
  <2> DEFINE g == [s \in SUBSET (1 .. k + 1) |->
                     IF k + 1 \in s THEN f[<<h[s \ {k + 1}], q[k + 1]>>] ELSE h[s]]
  <2>3. \A s \in SUBSET (1 .. k + 1) : s \ {k + 1} \in SUBSET (1 .. k)
    OBVIOUS
  <2>4. \A s \in SUBSET (1 .. k + 1) : k + 1 \notin s => s \in SUBSET (1 .. k)
    OBVIOUS
  <2>5. \A s \in SUBSET (1 .. k) : s \in SUBSET (1 .. k + 1) /\ k + 1 \notin s
    OBVIOUS
  <2>6. \A s \in SUBSET (1 .. k) : g[s] = h[s]
    BY <2>5
  <2>7. \A s \in SUBSET (1 .. k + 1) : g[s] \in S
    BY <2>1, <2>2, <2>3, <2>4
  <2>8. ASSUME NEW s \in SUBSET (1 .. k + 1)
        PROVE  g[s] = IF s = {} THEN base ELSE f[<<g[s \ {Max(s)}], q[Max(s)]>>]
    <3>1. CASE k + 1 \in s
      <4>1. Max(s) = k + 1
        BY <3>1, MaxOfSegment
      <4>2. g[s] = f[<<h[s \ {k + 1}], q[k + 1]>>]
        BY <3>1
      <4>3. g[s \ {k + 1}] = h[s \ {k + 1}]
        BY <2>3, <2>6
      <4> QED BY <3>1, <4>1, <4>2, <4>3
    <3>2. CASE k + 1 \notin s
      <4>1. s \in SUBSET (1 .. k) /\ s \ {Max(s)} \in SUBSET (1 .. k)
        BY <2>4, <3>2
      <4>2. g[s] = h[s] /\ g[s \ {Max(s)}] = h[s \ {Max(s)}]
        BY <2>6, <4>1
      <4> HIDE DEF g
      <4> QED BY <2>1, <4>1, <4>2 DEF IsFold
    <3> QED BY <3>1, <3>2
  <2>9. g = [s \in SUBSET (1 .. k + 1) |-> g[s]]
    OBVIOUS
  <2>10. Folds(g, k + 1)
    <3> HIDE DEF g
    <3> QED BY <2>7, <2>8, <2>9 DEF IsFold
  <2> HIDE DEF Folds, g
  <2> QED BY <2>10
<1>3. Len(q) \in T
  <2> HIDE DEF T
  <2> QED BY <1>1, <1>2, NaturalsBySteps, LenProperties
<1> QED
  <2>1. Len(q) <= Len(q)
    BY LenProperties
  <2> HIDE DEF Folds
  <2>2. \E g : Folds(g, Len(q))
    BY <1>3, <2>1
  <2> QED BY <2>2 DEF Folds

(* A function on the sets of indices that computes its values like a fold  *)
(* wherever it comes from a state in V.                                    *)
FoldsIn(h, f, V, base, q) ==
  /\ h[{}] = base
  /\ \A s \in SUBSET (1 .. Len(q)) :
       s # {} /\ h[s \ {Max(s)}] \in V => h[s] = f[<<h[s \ {Max(s)}], q[Max(s)]>>]

(* Where S[i] holds of the state after i steps, so it does at the end.     *)
Leads(f, S, q) == \A i \in 1 .. Len(q) : \A t \in S[i - 1] : f[<<t, q[i]>>] \in S[i]

(* What a fold reaches: if each element leads from the i-th set of states  *)
(* to the next, the fold ends in the last.                                 *)
LEMMA FoldRuns ==
  ASSUME NEW V, NEW X, NEW f \in [V \X X -> V], NEW q \in Seq(X),
         NEW S \in [0 .. Len(q) -> SUBSET V], Leads(f, S, q), NEW base \in S[0],
         NEW h, FoldsIn(h, f, V, base, q)
  PROVE  h[1 .. Len(q)] \in S[Len(q)]
<1>1. Len(q) \in Nat
  BY LenProperties
<1> DEFINE T == {k \in Nat : k <= Len(q) => h[1 .. k] \in S[k]}
<1>2. 0 \in T
  <2>1. 1 .. 0 = {}
    OBVIOUS
  <2> QED BY <2>1 DEF FoldsIn
<1>3. ASSUME NEW k \in Nat, k \in T PROVE k + 1 \in T
  <2> SUFFICES ASSUME k + 1 <= Len(q) PROVE h[1 .. k + 1] \in S[k + 1]
    OBVIOUS
  <2>1. /\ k + 1 \in 1 .. Len(q) /\ (k + 1) - 1 = k /\ k \in 0 .. Len(q)
        /\ k + 1 \in 1 .. k + 1 /\ 1 .. k + 1 \in SUBSET (1 .. Len(q))
        /\ (1 .. k + 1) \ {k + 1} = 1 .. k
    BY <1>1
  <2>2. Max(1 .. k + 1) = k + 1
    BY <2>1, MaxOfSegment
  <2>3. h[1 .. k] \in S[k] /\ h[1 .. k] \in V
    BY <1>1, <1>3, <2>1
  <2>4. h[1 .. k + 1] = f[<<h[1 .. k], q[k + 1]>>]
    BY <2>1, <2>2, <2>3 DEF FoldsIn
  <2> QED BY <2>1, <2>3, <2>4 DEF Leads
<1>4. Len(q) \in T
  <2> HIDE DEF T
  <2> QED BY <1>1, <1>2, <1>3, NaturalsBySteps
<1> QED BY <1>1, <1>4

-----------------------------------------------------------------------------
(* The tabs.                                                               *)

(* FoldRuns for the handlers of the tabs.                                  *)
LEMMA NextPaneFolds ==
  ASSUME NEW V, NEW X, NEW q \in Seq(X), \A t \in V, x \in X : NextPane(t, x) \in V,
         NEW S \in [0 .. Len(q) -> SUBSET V], NEW s \in S[0],
         \A i \in 1 .. Len(q) : \A t \in S[i - 1] : NextPane(t, q[i]) \in S[i]
  PROVE  FoldLeft(NextPane, s, q) \in S[Len(q)]
<1> DEFINE f == [p \in V \X X |-> NextPane(p[1], p[2])]
           Folds(g) == g = [t \in SUBSET DOMAIN q |->
                              IF t = {} THEN s
                              ELSE NextPane(g[t \ {Max(t)}], q[Max(t)])]
           h == CHOOSE g : Folds(g)
<1>1. f \in [V \X X -> V] /\ \A t \in V, x \in X : f[<<t, x>>] = NextPane(t, x)
  OBVIOUS
<1>2. Len(q) \in Nat /\ DOMAIN q = 1 .. Len(q) /\ \A i \in 1 .. Len(q) : q[i] \in X
  BY LenProperties
<1>3. s \in V /\ \A i \in 1 .. Len(q) : i - 1 \in 0 .. Len(q) /\ S[i - 1] \subseteq V
  BY <1>2
<1> HIDE DEF f
<1>4. PICK g : IsFold(g, f, s, q, Len(q)) /\ \A t \in SUBSET (1 .. Len(q)) : g[t] \in V
  BY <1>1, <1>3, FoldExists
<1>5. \A t \in SUBSET (1 .. Len(q)) : t # {} => q[Max(t)] \in X
  BY <1>2, MaxOfIndices
<1>6. Folds(g)
  BY <1>1, <1>2, <1>4, <1>5 DEF IsFold
<1>7. Folds(h)
  <2> HIDE DEF Folds
  <2> QED BY <1>6
<1>8. \A t \in SUBSET (1 .. Len(q)) :
        h[t] = IF t = {} THEN s ELSE NextPane(h[t \ {Max(t)}], q[Max(t)])
  BY <1>2, <1>7
<1>9. FoldLeft(NextPane, s, q) = h[1 .. Len(q)]
  BY <1>2 DEF FoldLeft, MapThenFoldSet
<1> HIDE DEF h, Folds
<1>10. FoldsIn(h, f, V, s, q)
  BY <1>1, <1>5, <1>8 DEF FoldsIn
<1>11. Leads(f, S, q)
  BY <1>1, <1>2, <1>3 DEF Leads
<1> QED BY <1>1, <1>9, <1>10, <1>11, FoldRuns

(* While panes fade, all that waits is to take the same panes away, and    *)
(* what comes last is to show the pane of the tab that was clicked last.   *)
TabsWait ==
  tabs.waiting # <<>> =>
    /\ fading /\ tabs.fade # {} /\ tabs.panes # {}
    /\ \A i \in DOMAIN tabs.waiting : tabs.waiting[i].transition
    /\ tabs.active = {tabs.waiting[Len(tabs.waiting)].to}
    /\ ~tabs.raced => Len(tabs.waiting) = 1

TabsInv == TabsTypeOK /\ SettledTabs /\ TabsWait

TabStates == [active : SUBSET TabIds, panes : SUBSET TabIds,
              in : SUBSET TabIds, fade : SUBSET TabIds,
              waiting : Seq(Activation), raced : BOOLEAN]

(* Before a click no tab and no pane is active, or one of each.            *)
LEMMA InitTabsInv == TabsInit => TabsInv
<1> SUFFICES ASSUME TabsInit PROVE TabsInv
  OBVIOUS
<1>1. <<>> \in Seq(Activation) /\ DOMAIN <<>> = {}
  OBVIOUS
<1> QED BY <1>1 DEF TabsInit, TabsInv, TabsTypeOK, SettledTabs, TabsWait

(* A click makes the tab active and its pane too, at once or when the fade *)
(* ends.                                                                   *)
LEMMA ClickTabStep ==
  ASSUME TabsInv, NEW t \in TabIds, ClickTab(t)
  PROVE  TabsInv'
<1> DEFINE s == [tabs EXCEPT !.active = {t}, !.raced = tabs.waiting # <<>>]
           n == [from |-> s.panes, to |-> t, transition |-> fading /\ s.fade # {}]
<1>1. /\ s \in TabStates /\ s.panes = tabs.panes /\ s.in = tabs.in
      /\ s.fade = tabs.fade /\ s.waiting = tabs.waiting
      /\ s.active = {t} /\ s.raced = (tabs.waiting # <<>>)
  BY DEF TabsInv, TabsTypeOK, TabStates
<1>2. /\ n \in Activation /\ n.from = tabs.panes /\ n.to = t
      /\ n.transition = (fading /\ tabs.fade # {})
  BY <1>1 DEF TabsInv, TabsTypeOK, Activation, TabStates
<1>3. tabs' = ActivatePane(s, t) /\ fading' = fading
  BY DEF ClickTab
<1> HIDE DEF s
<1>4. CASE n.from # {} /\ n.transition
  <2> DEFINE begun == [s EXCEPT !.waiting = Append(@, n)]
  <2>1. tabs' = [begun EXCEPT !.in = @ \ n.from]
    BY <1>3, <1>4 DEF ActivatePane
  <2> HIDE DEF n
  <2>0. Append(tabs.waiting, n) \in Seq(Activation)
    BY <1>2 DEF TabsInv, TabsTypeOK
  <2>2. /\ tabs'.active = {t} /\ tabs'.panes = tabs.panes /\ tabs'.fade = tabs.fade
        /\ tabs'.waiting = Append(tabs.waiting, n) /\ tabs'.raced = (tabs.waiting # <<>>)
        /\ tabs' \in TabStates
    BY <1>1, <1>2, <2>0, <2>1 DEF TabStates
  <2>3. /\ Append(tabs.waiting, n) # <<>>
        /\ DOMAIN Append(tabs.waiting, n) = 1 .. Len(tabs.waiting) + 1
        /\ Len(Append(tabs.waiting, n)) = Len(tabs.waiting) + 1
        /\ Append(tabs.waiting, n)[Len(tabs.waiting) + 1] = n
        /\ \A i \in 1 .. Len(tabs.waiting) : Append(tabs.waiting, n)[i] = tabs.waiting[i]
        /\ DOMAIN tabs.waiting = 1 .. Len(tabs.waiting) /\ Len(tabs.waiting) \in Nat
    BY <1>2, AppendProperties, LenProperties DEF TabsInv, TabsTypeOK
  <2>4. \A i \in DOMAIN tabs'.waiting :
          tabs'.waiting[i].from = tabs.panes /\ tabs'.waiting[i].transition
    BY <1>2, <1>4, <2>2, <2>3 DEF TabsInv, TabsTypeOK, TabsWait
  <2>5. TabsTypeOK'
    BY <1>3, <2>2, <2>4 DEF TabsInv, TabsTypeOK, TabStates
  <2>6. fading /\ tabs.fade # {} /\ tabs.panes # {}
    BY <1>2, <1>4
  <2>7. /\ tabs'.waiting[Len(tabs'.waiting)] = n
        /\ ~tabs'.raced => Len(tabs'.waiting) = 1
    <3>1. ~tabs'.raced => tabs.waiting = <<>>
      BY <2>2
    <3>2. tabs.waiting = <<>> => Len(tabs.waiting) + 1 = 1
      OBVIOUS
    <3>3. Len(tabs'.waiting) = Len(tabs.waiting) + 1
      BY <2>2, <2>3
    <3>4. tabs'.waiting[Len(tabs'.waiting)] = n
      BY <2>2, <2>3
    <3> QED BY <3>1, <3>2, <3>3, <3>4
  <2>8. TabsWait'
    BY <1>2, <1>3, <2>2, <2>4, <2>6, <2>7 DEF TabsWait
  <2> QED BY <2>2, <2>3, <2>5, <2>8 DEF TabsInv, SettledTabs
<1>5. CASE ~(n.from # {} /\ n.transition)
  <2>1. tabs' = [NextPane(s, n) EXCEPT !.in = @ \ n.from]
    BY <1>3, <1>5 DEF ActivatePane
  <2>2. tabs.waiting = <<>>
    BY <1>2, <1>5 DEF TabsInv, TabsWait
  <2> HIDE DEF n
  <2>3. /\ tabs'.active = {t} /\ tabs'.panes = {t} /\ tabs'.waiting = <<>>
        /\ tabs'.in = (IF n.transition THEN tabs.in \cup {t} ELSE tabs.in) \ tabs.panes
        /\ tabs'.fade = IF n.transition THEN tabs.fade ELSE tabs.fade \ {t}
        /\ tabs' \in TabStates
    BY <1>1, <1>2, <2>1, <2>2 DEF NextPane, TabStates
  <2>4. TabsTypeOK'
    BY <1>3, <2>3 DEF TabsInv, TabsTypeOK, TabStates
  <2> QED BY <1>2, <1>5, <2>3, <2>4 DEF TabsInv, SettledTabs, TabsWait
<1> QED BY <1>4, <1>5

(* One handler changes the panes and nothing else.                         *)
LEMMA NextPaneIs ==
  ASSUME NEW s \in TabStates, NEW n \in Activation
  PROVE  LET r == NextPane(s, n)
         IN  /\ r \in TabStates /\ r.active = s.active /\ r.waiting = s.waiting
             /\ r.raced = s.raced /\ r.panes = (s.panes \ n.from) \cup {n.to}
             /\ n.transition => r.in = s.in \cup {n.to} /\ r.fade = s.fade
             /\ ~n.transition => r.in = s.in /\ r.fade = s.fade \ {n.to}
BY DEF NextPane, TabStates, Activation

(* The end of a fade runs the handlers in order, so the last one's pane    *)
(* stays.                                                                  *)
LEMMA FadeEndsStep ==
  ASSUME TabsInv, FadeEnds
  PROVE  TabsInv'
<1> DEFINE q == tabs.waiting
           base == [tabs EXCEPT !.waiting = <<>>]
           X == {n \in Activation : n.transition /\ n.from = tabs.panes}
           Settled(s) == /\ s.active = tabs.active /\ s.fade = tabs.fade
                         /\ s.waiting = <<>> /\ s.raced = tabs.raced
           After(i, s) == /\ Settled(s)
                          /\ i = 0 => s.panes = tabs.panes
                          /\ i = 1 => s.panes = {q[1].to}
                          /\ i > 0 => q[i].to \in s.panes \cap s.in
           S == [i \in 0 .. Len(q) |-> {s \in TabStates : After(i, s)}]
<1>1. /\ q # <<>> /\ Len(q) \in Nat \ {0} /\ DOMAIN q = 1 .. Len(q)
      /\ q \in Seq(X) /\ \A i \in 1 .. Len(q) : q[i] \in X
  BY LenProperties DEF FadeEnds, TabsInv, TabsTypeOK, TabsWait
<1>2. base \in S[0]
  <2>1. <<>> \in Seq(Activation)
    OBVIOUS
  <2>2. /\ base \in TabStates /\ base.active = tabs.active /\ base.fade = tabs.fade
        /\ base.waiting = <<>> /\ base.raced = tabs.raced /\ base.panes = tabs.panes
    BY <2>1 DEF TabsInv, TabsTypeOK, TabStates
  <2> HIDE DEF base
  <2> QED BY <1>1, <2>2
<1>3. \A s \in TabStates, n \in X : NextPane(s, n) \in TabStates
  BY NextPaneIs
<1>4. ASSUME NEW i \in 1 .. Len(q), NEW s \in S[i - 1]
      PROVE  NextPane(s, q[i]) \in S[i]
  <2>1. /\ i - 1 \in 0 .. Len(q) /\ i \in 0 .. Len(q) /\ i \in Nat /\ i # 0
        /\ i = 1 => i - 1 = 0
    BY <1>1
  <2>2. s \in TabStates /\ After(i - 1, s)
    BY <2>1
  <2>3. q[i] \in Activation /\ q[i].transition /\ q[i].from = tabs.panes
    BY <1>1
  <2>4. NextPane(s, q[i]) \in TabStates /\ After(i, NextPane(s, q[i]))
    BY <2>1, <2>2, <2>3, NextPaneIs
  <2> HIDE DEF After
  <2> QED BY <2>1, <2>4
<1> HIDE DEF base, X
<1>5. FoldLeft(NextPane, base, q) \in S[Len(q)]
  <2>1. S \in [0 .. Len(q) -> SUBSET TabStates]
    OBVIOUS
  <2> HIDE DEF S, q
  <2> QED BY <1>1, <1>2, <1>3, <1>4, <2>1, NextPaneFolds
<1>6. tabs' \in S[Len(q)] /\ fading' = fading
  BY <1>5 DEF FadeEnds, base
<1>7. /\ tabs' \in TabStates /\ Settled(tabs')
      /\ Len(q) = 1 => tabs'.panes = {q[1].to}
      /\ q[Len(q)].to \in tabs'.panes \cap tabs'.in
  BY <1>1, <1>6
<1>8. tabs.active = {q[Len(q)].to} /\ (~tabs.raced => Len(q) = 1)
  BY <1>1 DEF TabsInv, TabsWait
<1>9. TabsTypeOK'
  BY <1>6, <1>7 DEF TabsInv, TabsTypeOK, TabStates
<1> QED BY <1>7, <1>8, <1>9 DEF TabsInv, SettledTabs, TabsWait

(* The invariant implies what the runs check.                              *)
LEMMA TabsSettled == TabsInv => TabsTypeOK /\ SettledTabs
BY DEF TabsInv

(* Each step of the tabs keeps their invariant.                            *)
LEMMA TabsInvKept == TabsInv /\ [TabsNext]_tabsVars => TabsInv'
<1> SUFFICES ASSUME TabsInv, [TabsNext]_tabsVars PROVE TabsInv'
  OBVIOUS
<1>1. CASE UNCHANGED tabsVars
  BY <1>1 DEF tabsVars, TabsInv, TabsTypeOK, SettledTabs, TabsWait
<1> QED BY <1>1, ClickTabStep, FadeEndsStep DEF TabsNext

-----------------------------------------------------------------------------
(* The dropdown menus.                                                     *)

MenuStates == [open : SUBSET MenuIds, expanded : SUBSET MenuIds,
               backdrops : SUBSET MenuIds, focus : Position \cup {Nowhere},
               bare : BOOLEAN]

(* What holds of a state of the menus that every handler leaves.           *)
MenusHold(s) ==
  /\ s \in MenuStates
  /\ s.focus # Nowhere => s.focus[2] < items[s.focus[1]]
  /\ \A m, n \in s.open : m = n
  /\ s.expanded = s.open
  /\ s.backdrops \subseteq s.open
  /\ touch /\ ~s.bare => s.backdrops = s.open

MenusInv == /\ touch \in BOOLEAN /\ disabled \subseteq MenuIds
            /\ items \in [MenuIds -> 0 .. MaxItems]
            /\ MenusHold(menus)

(* The invariant implies what the runs check.                              *)
LEMMA MenusSettled == MenusInv => DropdownTypeOK /\ SettledMenus
<1> SUFFICES ASSUME MenusInv PROVE DropdownTypeOK /\ SettledMenus
  OBVIOUS
<1>1. DropdownTypeOK
  BY DEF MenusInv, MenusHold, MenuStates, DropdownTypeOK
<1>2. Cardinality(menus.open) <= 1
  <2>1. menus.open = {} \/ \E m \in menus.open : menus.open = {m}
    BY DEF MenusInv, MenusHold
  <2>2. \A m : Cardinality({m}) = 1
    BY FS_Singleton
  <2>3. Cardinality({}) = 0
    BY FS_EmptySet
  <2>4. CASE menus.open = {}
    BY <2>3, <2>4
  <2>5. CASE \E m \in menus.open : menus.open = {m}
    <3>1. Cardinality(menus.open) = 1
      BY <2>2, <2>5
    <3> QED BY <3>1
  <2> QED BY <2>1, <2>4, <2>5
<1> QED BY <1>1, <1>2 DEF MenusInv, MenusHold, SettledMenus

(* All menus are closed at first.                                          *)
LEMMA InitMenusInv == DropdownInit => MenusInv
BY DEF DropdownInit, MenusInv, MenusHold, MenuStates

(* Clearing closes every menu and leaves the focus.                        *)
LEMMA ClearMenusHold ==
  ASSUME MenusInv, NEW s, MenusHold(s)
  PROVE  /\ MenusHold(ClearMenus(s, {})) /\ ClearMenus(s, {}).open = {}
         /\ ClearMenus(s, {}).focus = s.focus
BY DEF MenusHold, MenuStates, ClearMenus

(* Opening one when all are closed leaves one open.                        *)
LEMMA OpenMenuHolds ==
  ASSUME MenusInv, NEW s, MenusHold(s), s.open = {}, NEW m \in MenuIds
  PROVE  MenusHold(OpenMenu(s, m))
<1>1. <<m, -1>> \in Position /\ <<m, -1>>[1] = m /\ <<m, -1>>[2] = -1 /\ -1 < items[m]
  BY MaxItemsAssumption DEF Position, MenusInv
<1> DEFINE at == <<m, -1>>
<1> HIDE DEF at
<1>3. at \in Position \cup {Nowhere} /\ at[2] < items[at[1]]
  BY <1>1 DEF at
<1> DEFINE r == OpenMenu(s, m)
           over == IF touch THEN {m} ELSE {}
<1>5. /\ s \in MenuStates /\ s.expanded = {} /\ s.backdrops = {} /\ over \in SUBSET MenuIds
      /\ (IF touch THEN s.backdrops \cup {m} ELSE s.backdrops) = over
  BY DEF MenusHold
<1>2. /\ s.open \cup {m} = {m} /\ s.expanded \cup {m} = {m} /\ {m} \in SUBSET MenuIds
  BY <1>5
<1>7. r = [s EXCEPT !.backdrops = over, !.focus = at, !.bare = FALSE,
                    !.expanded = {m}, !.open = {m}]
  BY <1>2, <1>5 DEF OpenMenu, at
<1> HIDE DEF over, r
<1>4. /\ r \in MenuStates /\ r.open = {m} /\ r.expanded = {m} /\ r.focus = at
      /\ r.bare = FALSE /\ r.backdrops = over
  BY <1>2, <1>3, <1>5, <1>7 DEF MenuStates
<1>6. MenusHold(r)
  BY <1>3, <1>4 DEF MenusHold, over
<1> QED BY <1>6 DEF r

(* Toggling clears first, so at most one menu is open.                     *)
LEMMA ToggleMenuHolds ==
  ASSUME MenusInv, NEW s, MenusHold(s), NEW m \in MenuIds
  PROVE  MenusHold(ToggleMenu(s, m))
BY ClearMenusHold, OpenMenuHolds DEF ToggleMenu

(* Moving the focus opens and closes nothing.                              *)
LEMMA FocusHolds ==
  ASSUME MenusInv, NEW s, MenusHold(s), NEW m \in MenuIds,
         NEW i \in -1 .. MaxItems - 1, i < items[m]
  PROVE  MenusHold([s EXCEPT !.focus = <<m, i>>])
<1> DEFINE at == <<m, i>>
<1>1. at \in Position /\ at[2] < items[at[1]]
  BY DEF Position
<1> HIDE DEF at
<1> QED BY <1>1 DEF MenusHold, MenuStates, at

(* The arrow keys stay among the items of a menu that has some.            *)
LEMMA MovedWithin ==
  ASSUME NEW n \in Nat, n # 0, NEW i \in Int, -1 <= i, i < n, NEW key
  PROVE  Moved(i, key, n) \in 0 .. n - 1
BY DEF Moved

(* Each step of the menus keeps their invariant.                           *)
LEMMA MenusInvKept == MenusInv /\ [DropdownNext]_menuVars => MenusInv'
<1> SUFFICES ASSUME MenusInv, [DropdownNext]_menuVars PROVE MenusInv'
  OBVIOUS
<1>1. SUFFICES MenusHold(menus') /\ UNCHANGED <<touch, disabled, items>>
  BY DEF MenusInv, MenusHold
<1>2. MenusHold(menus)
  BY DEF MenusInv
<1>3. \A m \in MenuIds : /\ items[m] \in Nat /\ -1 < items[m]
                         /\ \A i \in Int : i < items[m] => i <= MaxItems - 1
  BY MaxItemsAssumption DEF MenusInv
<1>4. -1 \in -1 .. MaxItems - 1
  BY MaxItemsAssumption
<1>5. CASE UNCHANGED menuVars
  BY <1>2, <1>5 DEF menuVars
<1>6. ASSUME NEW m \in MenuIds, ClickToggle(m)
      PROVE  MenusHold(menus') /\ UNCHANGED <<touch, disabled, items>>
  BY <1>2, <1>6, ClearMenusHold, ToggleMenuHolds DEF ClickToggle, MenuBecomes
<1>7. ASSUME NEW m \in MenuIds, CallToggle(m)
      PROVE  MenusHold(menus') /\ UNCHANGED <<touch, disabled, items>>
  BY <1>2, <1>7, ToggleMenuHolds DEF CallToggle, MenuBecomes
<1>8. ASSUME NEW m \in MenuIds, ClickItem(m)
      PROVE  MenusHold(menus') /\ UNCHANGED <<touch, disabled, items>>
  <2>1. PICK i \in 0 .. items[m] - 1 :
          MenuBecomes(ClearMenus([menus EXCEPT !.focus = <<m, i>>], {}))
    BY <1>8 DEF ClickItem
  <2>2. i \in -1 .. MaxItems - 1 /\ i < items[m]
    BY <1>3, MaxItemsAssumption
  <2> QED BY <1>2, <2>1, <2>2, FocusHolds, ClearMenusHold DEF MenuBecomes
<1>9. ASSUME NEW m \in MenuIds, ClickInput(m)
      PROVE  MenusHold(menus') /\ UNCHANGED <<touch, disabled, items>>
  BY <1>2, <1>9 DEF ClickInput, MenuBecomes, ClearMenus, MenusHold, MenuStates, MenusInv
<1>10. ASSUME NEW m \in MenuIds, TabTo(m)
       PROVE  MenusHold(menus') /\ UNCHANGED <<touch, disabled, items>>
  BY <1>2, <1>3, <1>4, <1>10, FocusHolds DEF TabTo, MenuBecomes
<1>11. ASSUME ClickPage
       PROVE  MenusHold(menus') /\ UNCHANGED <<touch, disabled, items>>
  <2>1. MenusHold([menus EXCEPT !.focus = Nowhere])
    BY <1>2 DEF MenusHold, MenuStates
  <2> QED BY <1>11, <2>1, ClearMenusHold DEF ClickPage, MenuBecomes
<1>12. ASSUME NEW key \in Keys, MenuKeydown(key)
       PROVE  MenusHold(menus') /\ UNCHANGED <<touch, disabled, items>>
  <2>1. PICK m \in MenuIds, i \in -1 .. MaxItems - 1 :
          /\ menus.focus = <<m, i>>
          /\ \/ MenuBecomes(ToggleMenu(menus, m))
             \/ LET at == [menus EXCEPT !.focus = <<m, -1>>]
                IN  MenuBecomes(IF i = -1 THEN ToggleMenu(at, m) ELSE ClearMenus(at, {}))
             \/ MenuBecomes(KeepsOpen(m, i, key))
    BY <1>12 DEF MenuKeydown
  <2>2. i < items[m]
    BY <1>2, <2>1 DEF MenusHold, Nowhere
  <2>3. MenusHold([menus EXCEPT !.focus = <<m, -1>>])
    BY <1>2, <1>3, <1>4, FocusHolds
  <2>4. MenusHold(KeepsOpen(m, i, key))
    <3>1. CASE items[m] = 0
      BY <1>2, <3>1 DEF KeepsOpen
    <3>2. CASE items[m] # 0
      <4>1. Moved(i, key, items[m]) \in 0 .. items[m] - 1
        BY <1>3, <2>2, <3>2, MaxItemsAssumption, MovedWithin
      <4>2. Moved(i, key, items[m]) \in -1 .. MaxItems - 1 /\ Moved(i, key, items[m]) < items[m]
        BY <1>3, <4>1, MaxItemsAssumption
      <4> QED BY <1>2, <3>2, <4>2, FocusHolds DEF KeepsOpen
    <3> QED BY <3>1, <3>2
  <2> QED BY <1>2, <2>1, <2>3, <2>4, ToggleMenuHolds, ClearMenusHold DEF MenuBecomes
<1> QED BY <1>5, <1>6, <1>7, <1>8, <1>9, <1>10, <1>11, <1>12 DEF DropdownNext

-----------------------------------------------------------------------------
(* The tooltip.                                                            *)

TipHandlers == {"shown", "hidden", "destroyed"}

TipStates == [inState : SUBSET tipOptions.trigger,
              hoverState : {"null", "in", "out"},
              timeout : {"none", "show", "hide"},
              in : BOOLEAN, fade : BOOLEAN, attached : BOOLEAN,
              described : BOOLEAN, destroyed : BOOLEAN, raced : BOOLEAN,
              waiting : Seq(TipHandlers)]

(* What holds of a tip however the events came.                            *)
TipHolds(s) ==
  /\ s \in TipStates
  /\ s.in /\ s.inState = {} => s.hoverState = "out"
  /\ s.hoverState = "out" =>
       tipOptions.hideDelay /\ s.inState = {} /\ s.timeout = "hide"
  /\ s.hoverState = "in" => s.inState # {}
  /\ s.timeout = "show" => ~s.in
  /\ s.described => s.attached
  /\ s.waiting # <<>> => s.fade
  /\ s.fade => tipOptions.animation
  /\ "shown" \in Range(s.waiting) => s.in \/ GoesAway(s)

(* What holds unless the last reason came while a tip was going away.      *)
TipInStep(s) ==
  /\ s.destroyed =>
       ~s.in /\ ~s.attached /\ ~(s.timeout = "show" /\ s.hoverState = "in")
  /\ s.attached /\ ~s.in =>
       \/ GoesAway(s)
       \/ s.timeout = "hide" /\ s.hoverState = "out"
       \/ s.timeout = "show" /\ s.hoverState = "in"
  /\ ~s.destroyed /\ s.inState # {} =>
       \/ s.in
       \/ s.timeout = "show" /\ s.hoverState = "in"
       \/ "destroyed" \in Range(s.waiting)
  /\ s.in => s.attached /\ s.described
  /\ s.in \/ s.hoverState = "in" => ~GoesAway(s)

TipStateInv(s) == TipHolds(s) /\ (~s.raced => TipInStep(s))

TipInv == tipOptions \in TipOptions /\ TipStateInv(tip)

(* A tip goes away while a handler of hide or destroy waits.               *)
LEMMA GoesAwayIs ==
  ASSUME NEW s
  PROVE  GoesAway(s) <=> "hidden" \in Range(s.waiting) \/ "destroyed" \in Range(s.waiting)
BY DEF GoesAway, Range

(* The handlers after one was appended.                                    *)
LEMMA RangeOfAppend ==
  ASSUME NEW T, NEW q \in Seq(T), NEW x \in T
  PROVE  /\ Append(q, x) \in Seq(T) /\ Append(q, x) # <<>>
         /\ Range(Append(q, x)) = Range(q) \cup {x}
<1>1. /\ Append(q, x) \in Seq(T) /\ Append(q, x) # <<>>
      /\ Len(Append(q, x)) = Len(q) + 1
      /\ \A i \in 1 .. Len(q) : Append(q, x)[i] = q[i]
      /\ Append(q, x)[Len(q) + 1] = x
  BY AppendProperties
<1>2. /\ Len(q) \in Nat /\ DOMAIN q = 1 .. Len(q)
      /\ DOMAIN Append(q, x) = 1 .. Len(q) + 1
  BY <1>1, LenProperties
<1>3. 1 .. Len(q) + 1 = (1 .. Len(q)) \cup {Len(q) + 1}
  BY <1>2
<1>4. Range(Append(q, x)) = Range(q) \cup {x}
  BY <1>1, <1>2, <1>3 DEF Range
<1> QED BY <1>1, <1>4

(* No handlers.                                                            *)
LEMMA EmptyRange == Range(<<>>) = {}
BY DEF Range

(* The invariant implies what the runs check.                              *)
LEMMA TipSettled == TipInv => TipTypeOK /\ SettledTip
<1> SUFFICES ASSUME TipInv PROVE TipTypeOK /\ SettledTip
  OBVIOUS
<1>1. TipTypeOK
  BY DEF TipInv, TipStateInv, TipHolds, TipStates, TipTypeOK, TipHandlers
<1>2. tip.waiting = <<>> => ~GoesAway(tip) /\ "destroyed" \notin Range(tip.waiting)
  BY GoesAwayIs, EmptyRange
<1>3. tip \in TipStates
  BY DEF TipInv, TipStateInv, TipHolds
<1>4. SettledTip
  BY <1>2, <1>3 DEF TipInv, TipStateInv, TipHolds, TipInStep, SettledTip, TipStates
<1> QED BY <1>1, <1>4

(* There is no tip at first.                                               *)
LEMMA InitTipInv == TipInit => TipInv
<1> SUFFICES ASSUME TipInit PROVE TipInv
  OBVIOUS
<1>1. <<>> \in Seq(TipHandlers)
  OBVIOUS
<1>2. ~GoesAway(tip) /\ Range(tip.waiting) = {}
  BY GoesAwayIs, EmptyRange DEF TipInit
<1> QED BY <1>1, <1>2 DEF TipInit, TipInv, TipStateInv, TipHolds, TipStates, TipInStep

(* What the functions make of a tip, field by field.                       *)
LEMMA HideCompletedIs ==
  ASSUME NEW s \in TipStates
  PROVE  LET r == HideCompleted(s)
         IN  /\ r \in TipStates /\ r.inState = s.inState /\ r.hoverState = s.hoverState
             /\ r.timeout = s.timeout /\ r.in = s.in /\ r.fade = s.fade
             /\ r.attached = (s.attached /\ s.hoverState = "in") /\ r.described = FALSE
             /\ r.destroyed = s.destroyed /\ r.raced = s.raced /\ r.waiting = s.waiting
BY DEF HideCompleted, TipStates

(* What destroy's callback makes of a tip, field by field.                 *)
LEMMA DestroyedIs ==
  ASSUME NEW s \in TipStates
  PROVE  LET r == Destroyed(s)
         IN  /\ r \in TipStates /\ r.inState = s.inState /\ r.hoverState = s.hoverState
             /\ r.timeout = s.timeout /\ r.in = FALSE /\ r.fade = FALSE
             /\ r.attached = FALSE /\ r.described = FALSE
             /\ r.destroyed = TRUE /\ r.raced = s.raced /\ r.waiting = s.waiting
<1> DEFINE h == HideCompleted(s)
<1>1. /\ h \in TipStates /\ h.inState = s.inState /\ h.hoverState = s.hoverState
      /\ h.timeout = s.timeout /\ h.described = FALSE
      /\ h.raced = s.raced /\ h.waiting = s.waiting
  BY HideCompletedIs
<1> HIDE DEF h
<1> DEFINE r == [h EXCEPT !.attached = FALSE, !.in = FALSE,
                          !.fade = FALSE, !.destroyed = TRUE]
<1>2. Destroyed(s) = r
  BY DEF Destroyed, h
<1>3. /\ r \in TipStates /\ r.inState = h.inState /\ r.hoverState = h.hoverState
      /\ r.timeout = h.timeout /\ r.described = h.described
      /\ r.raced = h.raced /\ r.waiting = h.waiting
  BY <1>1 DEF TipStates
<1>4. /\ r.in = FALSE /\ r.fade = FALSE /\ r.attached = FALSE /\ r.destroyed = TRUE
  BY <1>1 DEF TipStates
<1> HIDE DEF r
<1> QED BY <1>1, <1>2, <1>3, <1>4

(* r is s with its tip going away in a transition, d with its tip hidden.  *)
FadesAway(s, name, r) ==
  /\ r \in TipStates /\ r.inState = s.inState /\ r.hoverState = "null"
  /\ r.timeout = s.timeout /\ r.in = FALSE /\ r.fade = s.fade
  /\ r.attached = s.attached /\ r.described = s.described
  /\ r.destroyed = s.destroyed /\ r.raced = s.raced
  /\ Range(r.waiting) = Range(s.waiting) \cup {name}

HiddenOf(d, r) ==
  /\ r \in TipStates /\ r.inState = d.inState /\ r.hoverState = "null"
  /\ r.timeout = d.timeout /\ r.in = FALSE /\ r.fade = d.fade
  /\ r.attached = d.attached /\ r.described = d.described
  /\ r.destroyed = d.destroyed /\ r.raced = d.raced /\ r.waiting = d.waiting

(* With a fade, hide only starts the transition.                           *)
LEMMA HideTipFades ==
  ASSUME NEW s \in TipStates, s.fade, NEW d, NEW name \in TipHandlers
  PROVE  FadesAway(s, name, HideTip(s, name, d))
<1>1. /\ Append(s.waiting, name) \in Seq(TipHandlers)
      /\ Range(Append(s.waiting, name)) = Range(s.waiting) \cup {name}
  BY RangeOfAppend DEF TipStates
<1> QED BY <1>1 DEF HideTip, TipStates, FadesAway

(* Without one, its callback runs at once.                                 *)
LEMMA HideTipAtOnce ==
  ASSUME NEW s \in TipStates, ~s.fade, NEW d \in TipStates,
         NEW name \in TipHandlers
  PROVE  HiddenOf(d, HideTip(s, name, d))
BY DEF HideTip, TipStates, HiddenOf

(* Of a tip that was left: it goes, at once or with its transition.        *)
LEMMA HideHolds ==
  ASSUME NEW s \in TipStates, s.inState = {}, s.hoverState = "out",
         s.described => s.attached, s.waiting # <<>> => s.fade,
         s.fade => tipOptions.animation,
         ~s.raced /\ s.destroyed => ~s.attached
  PROVE  TipStateInv(HideTip(s, "hidden", HideCompleted(s)))
<1> DEFINE d == HideCompleted(s)
           r == HideTip(s, "hidden", d)
<1>1. /\ d \in TipStates /\ d.inState = s.inState /\ d.timeout = s.timeout
      /\ d.fade = s.fade /\ d.attached = FALSE /\ d.described = FALSE
      /\ d.destroyed = s.destroyed /\ d.raced = s.raced /\ d.waiting = s.waiting
  BY HideCompletedIs
<1> HIDE DEF d
<1>2. "hidden" \in TipHandlers
  BY DEF TipHandlers
<1>3. CASE s.fade
  <2>1. FadesAway(s, "hidden", r)
    BY <1>2, <1>3, HideTipFades
  <2> HIDE DEF r
  <2>2. GoesAway(r)
    BY <2>1, GoesAwayIs DEF FadesAway
  <2>3. TipHolds(r) /\ (~r.raced => TipInStep(r))
    BY <1>3, <2>1, <2>2 DEF FadesAway, TipHolds, TipInStep
  <2> QED BY <2>3 DEF TipStateInv, r, d
<1>4. CASE ~s.fade
  <2>1. HiddenOf(d, r)
    BY <1>1, <1>2, <1>4, HideTipAtOnce
  <2> HIDE DEF r
  <2>2. r.waiting = <<>> /\ ~GoesAway(r) /\ Range(r.waiting) = {}
    BY <1>1, <1>4, <2>1, GoesAwayIs, EmptyRange DEF HiddenOf
  <2>3. TipHolds(r) /\ TipInStep(r)
    BY <1>1, <1>4, <2>1, <2>2 DEF HiddenOf, TipHolds, TipInStep
  <2> QED BY <2>3 DEF TipStateInv, r, d
<1> QED BY <1>3, <1>4

(* Leaving hides the tip, or sets the timer to, once no trigger is left.   *)
LEMMA LeaveHolds ==
  ASSUME tipOptions \in TipOptions, TipStateInv(tip), ~tip.destroyed,
         NEW J \in SUBSET tipOptions.trigger, J # {} => tip.inState # {}
  PROVE  TipStateInv(Leave([tip EXCEPT !.inState = J]))
<1> DEFINE s == [tip EXCEPT !.inState = J]
<1>1. /\ s \in TipStates /\ s.inState = J /\ s.hoverState = tip.hoverState
      /\ s.timeout = tip.timeout /\ s.in = tip.in /\ s.fade = tip.fade
      /\ s.attached = tip.attached /\ s.described = tip.described
      /\ s.destroyed = tip.destroyed /\ s.raced = tip.raced /\ s.waiting = tip.waiting
  BY DEF TipStateInv, TipHolds, TipStates
<1> HIDE DEF s
<1>2. GoesAway(s) <=> GoesAway(tip)
  BY <1>1, GoesAwayIs
<1>3. CASE J # {}
  <2>1. Leave(s) = s
    BY <1>1, <1>3 DEF Leave
  <2>2. TipStateInv(s)
    BY <1>1, <1>2, <1>3 DEF TipStateInv, TipHolds, TipInStep
  <2> QED BY <2>1, <2>2 DEF s
<1>4. CASE J = {} /\ tipOptions.hideDelay
  <2> DEFINE r == [s EXCEPT !.hoverState = "out", !.timeout = "hide"]
  <2>1. Leave(s) = r
    BY <1>1, <1>4 DEF Leave
  <2>2. /\ r \in TipStates /\ r.inState = {} /\ r.hoverState = "out"
        /\ r.timeout = "hide" /\ r.in = tip.in /\ r.fade = tip.fade
        /\ r.attached = tip.attached /\ r.described = tip.described
        /\ r.destroyed = tip.destroyed /\ r.raced = tip.raced /\ r.waiting = tip.waiting
    BY <1>1, <1>4 DEF TipStates
  <2> HIDE DEF r
  <2>3. GoesAway(r) <=> GoesAway(tip)
    BY <2>2, GoesAwayIs
  <2> QED BY <1>4, <2>1, <2>2, <2>3 DEF TipStateInv, TipHolds, TipInStep, s
<1>5. CASE J = {} /\ ~tipOptions.hideDelay
  <2> DEFINE r == [s EXCEPT !.hoverState = "out", !.timeout = "none"]
  <2>1. Leave(s) = HideTip(r, "hidden", HideCompleted(r))
    BY <1>1, <1>5 DEF Leave
  <2>2. /\ r \in TipStates /\ r.inState = {} /\ r.hoverState = "out"
        /\ r.in = tip.in /\ r.fade = tip.fade
        /\ r.attached = tip.attached /\ r.described = tip.described
        /\ r.destroyed = tip.destroyed /\ r.raced = tip.raced /\ r.waiting = tip.waiting
    BY <1>1, <1>5 DEF TipStates
  <2> HIDE DEF r
  <2>3. TipStateInv(HideTip(r, "hidden", HideCompleted(r)))
    BY <2>2, HideHolds DEF TipStateInv, TipHolds
  <2> QED BY <2>1, <2>3 DEF s
<1> QED BY <1>3, <1>4, <1>5

(* A tip that is shown with its reason there.                              *)
LEMMA ShowHolds ==
  ASSUME tipOptions \in TipOptions,
         NEW s \in TipStates, s.hoverState = "in", s.inState # {}, s.timeout # "show",
         s.waiting # <<>> => s.fade, s.fade => tipOptions.animation,
         ~s.raced => ~s.destroyed /\ ~GoesAway(s)
  PROVE  TipStateInv(ShowTip(s))
<1> DEFINE t == [s EXCEPT !.in = TRUE, !.fade = tipOptions.animation,
                          !.attached = TRUE, !.described = TRUE]
           r == ShowTip(s)
<1>1. tipOptions.animation \in BOOLEAN
  BY DEF TipOptions
<1>2. /\ t \in TipStates /\ t.inState = s.inState /\ t.hoverState = "in"
      /\ t.timeout = s.timeout /\ t.in = TRUE /\ t.fade = tipOptions.animation
      /\ t.attached = TRUE /\ t.described = TRUE
      /\ t.destroyed = s.destroyed /\ t.raced = s.raced /\ t.waiting = s.waiting
  BY <1>1 DEF TipStates
<1>3. r = IF t.fade THEN [t EXCEPT !.waiting = Append(@, "shown")] ELSE ShowCompleted(t)
  BY DEF ShowTip
<1> HIDE DEF t, r
<1>4. CASE t.fade
  <2>1. "shown" \in TipHandlers /\ s.waiting \in Seq(TipHandlers)
    BY DEF TipHandlers, TipStates
  <2> DEFINE w == Append(s.waiting, "shown")
  <2>2. w \in Seq(TipHandlers) /\ Range(w) = Range(s.waiting) \cup {"shown"}
    BY <2>1, RangeOfAppend
  <2> HIDE DEF w
  <2>3. /\ r \in TipStates /\ r.inState = s.inState /\ r.hoverState = "in"
        /\ r.timeout = s.timeout /\ r.in = TRUE /\ r.fade = tipOptions.animation
        /\ r.attached = TRUE /\ r.described = TRUE
        /\ r.destroyed = s.destroyed /\ r.raced = s.raced /\ r.waiting = w
    BY <1>2, <1>3, <1>4, <2>2 DEF TipStates, w
  <2>4. GoesAway(r) <=> GoesAway(s)
    BY <2>2, <2>3, GoesAwayIs
  <2> QED BY <1>2, <1>4, <2>3, <2>4 DEF TipStateInv, TipHolds, TipInStep, r
<1>5. CASE ~t.fade
  <2>1. r = [t EXCEPT !.hoverState = "null"]
    BY <1>2, <1>3, <1>5 DEF ShowCompleted
  <2>2. /\ r \in TipStates /\ r.inState = s.inState /\ r.hoverState = "null"
        /\ r.timeout = s.timeout /\ r.in = TRUE /\ r.fade = FALSE
        /\ r.attached = TRUE /\ r.described = TRUE
        /\ r.destroyed = s.destroyed /\ r.raced = s.raced /\ r.waiting = s.waiting
    BY <1>2, <1>5, <2>1 DEF TipStates
  <2>3. GoesAway(r) <=> GoesAway(s)
    BY <2>2, GoesAwayIs
  <2>4. s.waiting = <<>>
    BY <1>2, <1>5
  <2> QED BY <2>2, <2>3, <2>4, EmptyRange DEF TipStateInv, TipHolds, TipInStep, r
<1> QED BY <1>4, <1>5

(* Entering shows the tip, or sets the timer to, unless it is shown.       *)
LEMMA EnterHolds ==
  ASSUME tipOptions \in TipOptions, TipStateInv(tip), ~tip.destroyed,
         NEW J \in SUBSET tipOptions.trigger, J # {}
  PROVE  TipStateInv(Enter([tip EXCEPT !.inState = J]))
<1> DEFINE s == [tip EXCEPT !.inState = J]
<1>1. /\ s \in TipStates /\ s.inState = J /\ s.hoverState = tip.hoverState
      /\ s.timeout = tip.timeout /\ s.in = tip.in /\ s.fade = tip.fade
      /\ s.attached = tip.attached /\ s.described = tip.described
      /\ s.destroyed = tip.destroyed /\ s.raced = tip.raced /\ s.waiting = tip.waiting
  BY DEF TipStateInv, TipHolds, TipStates
<1> HIDE DEF s
<1>2. GoesAway(s) <=> GoesAway(tip)
  BY <1>1, GoesAwayIs
<1>3. CASE s.in \/ s.hoverState = "in"
  <2> DEFINE r == [s EXCEPT !.hoverState = "in"]
  <2>1. Enter(s) = r
    BY <1>3 DEF Enter
  <2>2. /\ r \in TipStates /\ r.inState = J /\ r.hoverState = "in"
        /\ r.timeout = tip.timeout /\ r.in = tip.in /\ r.fade = tip.fade
        /\ r.attached = tip.attached /\ r.described = tip.described
        /\ r.destroyed = tip.destroyed /\ r.raced = tip.raced /\ r.waiting = tip.waiting
    BY <1>1 DEF TipStates
  <2> HIDE DEF r
  <2>3. GoesAway(r) <=> GoesAway(tip)
    BY <2>2, GoesAwayIs
  <2>4. TipHolds(r)
    BY <2>2, <2>3 DEF TipStateInv, TipHolds
  <2>5. ~r.raced => TipInStep(r)
    BY <1>1, <1>3, <2>2, <2>3 DEF TipStateInv, TipHolds, TipInStep
  <2> QED BY <2>1, <2>4, <2>5 DEF TipStateInv, s
<1>4. CASE ~(s.in \/ s.hoverState = "in")
  <2> DEFINE t == [s EXCEPT !.hoverState = "in", !.raced = GoesAway(s)]
  <2>1. GoesAway(s) \in BOOLEAN
    BY DEF GoesAway
  <2>2. /\ t \in TipStates /\ t.inState = J /\ t.hoverState = "in"
        /\ t.timeout = tip.timeout /\ t.in = tip.in /\ t.fade = tip.fade
        /\ t.attached = tip.attached /\ t.described = tip.described
        /\ t.destroyed = tip.destroyed /\ t.waiting = tip.waiting
        /\ t.raced = GoesAway(s)
    BY <1>1, <2>1 DEF TipStates
  <2>3. Enter(s) = IF tipOptions.showDelay THEN [t EXCEPT !.timeout = "show"]
                   ELSE ShowTip([t EXCEPT !.timeout = "none"])
    BY <1>4 DEF Enter
  <2> HIDE DEF t
  <2>4. GoesAway(t) <=> GoesAway(s)
    BY <1>1, <2>2, GoesAwayIs
  <2>5. CASE tipOptions.showDelay
    <3> DEFINE r == [t EXCEPT !.timeout = "show"]
    <3>1. /\ r \in TipStates /\ r.inState = J /\ r.hoverState = "in"
          /\ r.timeout = "show" /\ r.in = tip.in /\ r.fade = tip.fade
          /\ r.attached = tip.attached /\ r.described = tip.described
          /\ r.destroyed = tip.destroyed /\ r.waiting = tip.waiting
          /\ r.raced = GoesAway(s)
      BY <2>2 DEF TipStates
    <3> HIDE DEF r
    <3>2. GoesAway(r) <=> GoesAway(s)
      BY <1>1, <3>1, GoesAwayIs
    <3>3. TipHolds(r)
      BY <1>1, <1>2, <1>4, <3>1, <3>2 DEF TipStateInv, TipHolds
    <3>4. ~r.raced => TipInStep(r)
      BY <1>1, <1>4, <3>1, <3>2 DEF TipInStep
    <3>5. Enter(s) = r
      BY <2>3, <2>5 DEF r
    <3> QED BY <3>3, <3>4, <3>5 DEF TipStateInv, s
  <2>6. CASE ~tipOptions.showDelay
    <3> DEFINE r == [t EXCEPT !.timeout = "none"]
    <3>1. /\ r \in TipStates /\ r.inState = J /\ r.hoverState = "in"
          /\ r.timeout = "none" /\ r.fade = tip.fade
          /\ r.destroyed = tip.destroyed /\ r.waiting = tip.waiting
          /\ r.raced = GoesAway(s)
      BY <2>2 DEF TipStates
    <3> HIDE DEF r
    <3>2. GoesAway(r) <=> GoesAway(s)
      BY <1>1, <3>1, GoesAwayIs
    <3>3. TipStateInv(ShowTip(r))
      BY <3>1, <3>2, ShowHolds DEF TipStateInv, TipHolds
    <3>4. Enter(s) = ShowTip(r)
      BY <2>3, <2>6 DEF r
    <3> QED BY <3>3, <3>4 DEF s
  <2> QED BY <2>5, <2>6
<1> QED BY <1>3, <1>4

(* The timer shows a tip that is still wanted and hides one that is not.   *)
LEMMA TimeoutHolds ==
  ASSUME TipInv, TimeoutFires
  PROVE  TipStateInv(tip')
<1> DEFINE s == [tip EXCEPT !.timeout = "none"]
<1>1. /\ s \in TipStates /\ s.inState = tip.inState /\ s.hoverState = tip.hoverState
      /\ s.timeout = "none" /\ s.in = tip.in /\ s.fade = tip.fade
      /\ s.attached = tip.attached /\ s.described = tip.described
      /\ s.destroyed = tip.destroyed /\ s.raced = tip.raced /\ s.waiting = tip.waiting
  BY DEF TipInv, TipStateInv, TipHolds, TipStates
<1>2. tip' = CASE tip.timeout = "show" /\ s.hoverState = "in" -> ShowTip(s)
               [] tip.timeout = "hide" /\ s.hoverState = "out" ->
                    HideTip(s, "hidden", HideCompleted(s))
               [] OTHER -> s
  BY DEF TimeoutFires, BecomesTip
<1> HIDE DEF s
<1>3. GoesAway(s) <=> GoesAway(tip)
  BY <1>1, GoesAwayIs
<1>4. CASE tip.timeout = "show" /\ tip.hoverState = "in"
  <2>1. tip' = ShowTip(s)
    BY <1>1, <1>2, <1>4
  <2>2. ~s.raced => ~s.destroyed /\ ~GoesAway(s)
    BY <1>1, <1>3, <1>4 DEF TipInv, TipStateInv, TipInStep
  <2>3. TipStateInv(ShowTip(s))
    BY <1>1, <1>4, <2>2, ShowHolds DEF TipInv, TipStateInv, TipHolds
  <2> QED BY <2>1, <2>3
<1>5. CASE tip.timeout = "hide" /\ tip.hoverState = "out"
  <2>1. tip' = HideTip(s, "hidden", HideCompleted(s))
    BY <1>1, <1>2, <1>5
  <2>2. TipStateInv(HideTip(s, "hidden", HideCompleted(s)))
    BY <1>1, <1>5, HideHolds DEF TipInv, TipStateInv, TipHolds, TipInStep
  <2> QED BY <2>1, <2>2
<1>6. CASE /\ ~(tip.timeout = "show" /\ tip.hoverState = "in")
           /\ ~(tip.timeout = "hide" /\ tip.hoverState = "out")
  <2>1. tip' = s
    BY <1>1, <1>2, <1>6
  <2>2. TipHolds(s)
    BY <1>1, <1>3, <1>6 DEF TipInv, TipStateInv, TipHolds
  <2>3. ~s.raced => TipInStep(s)
    BY <1>1, <1>3, <1>6 DEF TipInv, TipStateInv, TipInStep
  <2> QED BY <2>1, <2>2, <2>3 DEF TipStateInv
<1> QED BY <1>4, <1>5, <1>6

(* destroy hides the tip for good and clears the timer.                    *)
LEMMA DestroyHolds ==
  ASSUME TipInv, Destroy
  PROVE  TipStateInv(tip')
<1> DEFINE s == [tip EXCEPT !.timeout = "none"]
           d == Destroyed(s)
           r == HideTip(s, "destroyed", d)
<1>1. /\ s \in TipStates /\ s.inState = tip.inState /\ s.hoverState = tip.hoverState
      /\ s.timeout = "none" /\ s.in = tip.in /\ s.fade = tip.fade
      /\ s.attached = tip.attached /\ s.described = tip.described
      /\ s.destroyed = tip.destroyed /\ s.raced = tip.raced /\ s.waiting = tip.waiting
  BY DEF TipInv, TipStateInv, TipHolds, TipStates
<1>2. tip' = r
  BY DEF Destroy, BecomesTip
<1> HIDE DEF s
<1>3. /\ d \in TipStates /\ d.inState = s.inState /\ d.timeout = "none"
      /\ d.in = FALSE /\ d.fade = FALSE /\ d.attached = FALSE /\ d.described = FALSE
      /\ d.destroyed = TRUE /\ d.raced = s.raced /\ d.waiting = s.waiting
  BY <1>1, DestroyedIs
<1> HIDE DEF d
<1>4. "destroyed" \in TipHandlers
  BY DEF TipHandlers
<1>5. CASE s.fade
  <2>1. FadesAway(s, "destroyed", r)
    BY <1>1, <1>4, <1>5, HideTipFades
  <2> HIDE DEF r
  <2>2. GoesAway(r)
    BY <2>1, GoesAwayIs DEF FadesAway
  <2>3. TipHolds(r) /\ TipInStep(r)
    BY <1>1, <1>5, <2>1, <2>2
       DEF FadesAway, TipInv, TipStateInv, TipHolds, TipInStep, Destroy
  <2> QED BY <1>2, <2>3 DEF TipStateInv
<1>6. CASE ~s.fade
  <2>1. HiddenOf(d, r)
    BY <1>1, <1>3, <1>4, <1>6, HideTipAtOnce
  <2> HIDE DEF r
  <2>2. s.waiting = <<>>
    BY <1>1, <1>6 DEF TipInv, TipStateInv, TipHolds
  <2>3. r.waiting = <<>> /\ ~GoesAway(r) /\ Range(r.waiting) = {}
    BY <1>3, <2>1, <2>2, GoesAwayIs, EmptyRange DEF HiddenOf
  <2>4. TipHolds(r) /\ TipInStep(r)
    BY <1>3, <2>1, <2>3 DEF HiddenOf, TipHolds, TipInStep
  <2> QED BY <1>2, <2>4 DEF TipStateInv
<1> QED BY <1>5, <1>6

(* The end of a transition runs its handlers one after the other.          *)
LEMMA RunTipFolds ==
  ASSUME NEW V, NEW X, NEW q \in Seq(X), \A t \in V, x \in X : RunTip(t, x) \in V,
         NEW S \in [0 .. Len(q) -> SUBSET V], NEW s \in S[0],
         \A i \in 1 .. Len(q) : \A t \in S[i - 1] : RunTip(t, q[i]) \in S[i]
  PROVE  FoldLeft(RunTip, s, q) \in S[Len(q)]
<1> DEFINE f == [p \in V \X X |-> RunTip(p[1], p[2])]
           Folds(g) == g = [t \in SUBSET DOMAIN q |->
                              IF t = {} THEN s
                              ELSE RunTip(g[t \ {Max(t)}], q[Max(t)])]
           h == CHOOSE g : Folds(g)
<1>1. f \in [V \X X -> V] /\ \A t \in V, x \in X : f[<<t, x>>] = RunTip(t, x)
  OBVIOUS
<1>2. Len(q) \in Nat /\ DOMAIN q = 1 .. Len(q) /\ \A i \in 1 .. Len(q) : q[i] \in X
  BY LenProperties
<1>3. s \in V /\ \A i \in 1 .. Len(q) : i - 1 \in 0 .. Len(q) /\ S[i - 1] \subseteq V
  BY <1>2
<1> HIDE DEF f
<1>4. PICK g : IsFold(g, f, s, q, Len(q)) /\ \A t \in SUBSET (1 .. Len(q)) : g[t] \in V
  BY <1>1, <1>3, FoldExists
<1>5. \A t \in SUBSET (1 .. Len(q)) : t # {} => q[Max(t)] \in X
  BY <1>2, MaxOfIndices
<1>6. Folds(g)
  BY <1>1, <1>2, <1>4, <1>5 DEF IsFold
<1>7. Folds(h)
  <2> HIDE DEF Folds
  <2> QED BY <1>6
<1>8. \A t \in SUBSET (1 .. Len(q)) :
        h[t] = IF t = {} THEN s ELSE RunTip(h[t \ {Max(t)}], q[Max(t)])
  BY <1>2, <1>7
<1>9. FoldLeft(RunTip, s, q) = h[1 .. Len(q)]
  BY <1>2 DEF FoldLeft, MapThenFoldSet
<1> HIDE DEF h, Folds
<1>10. FoldsIn(h, f, V, s, q)
  BY <1>1, <1>5, <1>8 DEF FoldsIn
<1>11. Leads(f, S, q)
  BY <1>1, <1>2, <1>3 DEF Leads
<1> QED BY <1>1, <1>9, <1>10, <1>11, FoldRuns

(* What runs a tip does not leave it again.                                *)
Runnable == {s \in TipStates :
               s.hoverState = "out" =>
                 tipOptions.hideDelay /\ s.inState = {} /\ s.timeout = "hide"}

(* What show's callback makes of a tip: only hoverState changes, and a tip *)
(* left meanwhile leaves again.                                            *)
LEMMA ShowCompletedIs ==
  ASSUME NEW s \in Runnable
  PROVE  LET r == ShowCompleted(s)
         IN  /\ r \in TipStates /\ r.inState = s.inState
             /\ r.hoverState = IF s.hoverState = "out" THEN "out" ELSE "null"
             /\ r.timeout = s.timeout /\ r.in = s.in /\ r.fade = s.fade
             /\ r.attached = s.attached /\ r.described = s.described
             /\ r.destroyed = s.destroyed /\ r.raced = s.raced /\ r.waiting = s.waiting
<1> DEFINE t == [s EXCEPT !.hoverState = "null"]
           r == ShowCompleted(s)
<1>1. /\ t \in TipStates /\ t.inState = s.inState /\ t.hoverState = "null"
      /\ t.timeout = s.timeout /\ t.in = s.in /\ t.fade = s.fade
      /\ t.attached = s.attached /\ t.described = s.described
      /\ t.destroyed = s.destroyed /\ t.raced = s.raced /\ t.waiting = s.waiting
  BY DEF TipStates, Runnable
<1>2. r = IF s.hoverState = "out" THEN Leave(t) ELSE t
  BY DEF ShowCompleted
<1> HIDE DEF t, r
<1>3. CASE s.hoverState = "out"
  <2>1. r = [t EXCEPT !.hoverState = "out", !.timeout = "hide"]
    BY <1>1, <1>2, <1>3 DEF Leave, Runnable
  <2>2. s.timeout = "hide"
    BY <1>3 DEF Runnable
  <2>3. /\ r \in TipStates /\ r.inState = s.inState /\ r.hoverState = "out"
        /\ r.timeout = "hide" /\ r.in = s.in /\ r.fade = s.fade
        /\ r.attached = s.attached /\ r.described = s.described
        /\ r.destroyed = s.destroyed /\ r.raced = s.raced /\ r.waiting = s.waiting
    BY <1>1, <2>1 DEF TipStates
  <2> QED BY <1>3, <2>2, <2>3 DEF r
<1>4. CASE s.hoverState # "out"
  BY <1>1, <1>2, <1>4 DEF r
<1> QED BY <1>3, <1>4

(* What s is when the first i of the tip's handlers have run.              *)
HasRun(i, name) == \E j \in 1 .. i : tip.waiting[j] = name

AfterRun(i, s) ==
  /\ s \in Runnable /\ s.waiting = <<>> /\ s.inState = tip.inState
  /\ s.timeout = tip.timeout /\ s.raced = tip.raced
  /\ s.hoverState \in {tip.hoverState, "null"}
  /\ tip.hoverState = "out" \/ ~HasRun(i, "shown") => s.hoverState = tip.hoverState
  /\ s.destroyed <=> tip.destroyed \/ HasRun(i, "destroyed")
  /\ s.in <=> tip.in /\ ~HasRun(i, "destroyed")
  /\ s.fade => tip.fade
  /\ s.attached => tip.attached
  /\ s.described => s.attached
  /\ ~HasRun(i, "hidden") /\ ~HasRun(i, "destroyed") =>
       (s.attached <=> tip.attached) /\ (s.described <=> tip.described)
  /\ HasRun(i, "hidden") /\ tip.hoverState # "in" => ~s.attached
  /\ HasRun(i, "destroyed") => ~s.attached

(* The handlers of a transition that ends, one by one: what holds after    *)
(* the first i - 1 holds after the i-th.                                   *)
LEMMA RunStep ==
  ASSUME TipHolds(tip), NEW i \in 1 .. Len(tip.waiting),
         NEW s, AfterRun(i - 1, s)
  PROVE  AfterRun(i, RunTip(s, tip.waiting[i]))
<1> DEFINE w == tip.waiting
           r == RunTip(s, w[i])
<1>1. Len(w) \in Nat /\ w[i] \in TipHandlers
  BY DEF TipHolds, TipStates
<1>2. 1 .. i = (1 .. i - 1) \cup {i}
  BY <1>1
<1>3. \A name : HasRun(i, name) <=> HasRun(i - 1, name) \/ w[i] = name
  BY <1>2 DEF HasRun
<1>4. s \in Runnable /\ s \in TipStates /\ tip \in TipStates
  BY DEF AfterRun, Runnable, TipHolds
<1> HIDE DEF w, r
<1>5. CASE w[i] = "shown"
  <2>1. r = ShowCompleted(s)
    BY <1>5 DEF RunTip, r
  <2>2. /\ r \in TipStates /\ r.inState = s.inState
        /\ r.hoverState = IF s.hoverState = "out" THEN "out" ELSE "null"
        /\ r.timeout = s.timeout /\ r.in = s.in /\ r.fade = s.fade
        /\ r.attached = s.attached /\ r.described = s.described
        /\ r.destroyed = s.destroyed /\ r.raced = s.raced /\ r.waiting = s.waiting
    BY <1>4, <2>1, ShowCompletedIs
  <2> QED BY <1>3, <1>4, <1>5, <2>2 DEF AfterRun, Runnable, r, w
<1>6. CASE w[i] = "hidden"
  <2>1. r = HideCompleted(s)
    BY <1>6 DEF RunTip, r
  <2>2. /\ r \in TipStates /\ r.inState = s.inState /\ r.hoverState = s.hoverState
        /\ r.timeout = s.timeout /\ r.in = s.in /\ r.fade = s.fade
        /\ r.attached = (s.attached /\ s.hoverState = "in") /\ r.described = FALSE
        /\ r.destroyed = s.destroyed /\ r.raced = s.raced /\ r.waiting = s.waiting
    BY <1>4, <2>1, HideCompletedIs
  <2> QED BY <1>3, <1>4, <1>6, <2>2 DEF AfterRun, Runnable, r, w
<1>7. CASE w[i] = "destroyed"
  <2>1. r = Destroyed(s)
    BY <1>7 DEF RunTip, r
  <2>2. /\ r \in TipStates /\ r.inState = s.inState /\ r.hoverState = s.hoverState
        /\ r.timeout = s.timeout /\ r.in = FALSE /\ r.fade = FALSE
        /\ r.attached = FALSE /\ r.described = FALSE
        /\ r.destroyed = TRUE /\ r.raced = s.raced /\ r.waiting = s.waiting
    BY <1>4, <2>1, DestroyedIs
  <2> QED BY <1>3, <1>4, <1>7, <2>2 DEF AfterRun, Runnable, r, w
<1> QED BY <1>1, <1>5, <1>6, <1>7 DEF TipHandlers, w

(* A transition's end runs all of them.                                    *)
LEMMA RunEnds ==
  ASSUME TipInv, TipTransitionEnds
  PROVE  TipStateInv(tip')
<1> DEFINE w == tip.waiting
           s == [tip EXCEPT !.waiting = <<>>]
           S == [i \in 0 .. Len(w) |-> {t \in Runnable : AfterRun(i, t)}]
<1>1. TipHolds(tip) /\ tip \in TipStates
  BY DEF TipInv, TipStateInv, TipHolds
<1>2. w \in Seq(TipHandlers) /\ Len(w) \in Nat /\ <<>> \in Seq(TipHandlers)
  BY <1>1 DEF TipStates
<1>3. tip' = FoldLeft(RunTip, s, w)
  BY DEF TipTransitionEnds, BecomesTip
<1>4. /\ s \in TipStates /\ s.inState = tip.inState /\ s.hoverState = tip.hoverState
      /\ s.timeout = tip.timeout /\ s.in = tip.in /\ s.fade = tip.fade
      /\ s.attached = tip.attached /\ s.described = tip.described
      /\ s.destroyed = tip.destroyed /\ s.raced = tip.raced /\ s.waiting = <<>>
  BY <1>1, <1>2 DEF TipStates
<1> HIDE DEF s
<1>5. s \in S[0]
  <2>1. \A name : ~HasRun(0, name)
    BY DEF HasRun
  <2>2. AfterRun(0, s)
    BY <1>1, <1>4, <2>1 DEF AfterRun, Runnable, TipHolds, TipStates
  <2> QED BY <1>2, <2>2 DEF AfterRun
<1>6. \A t \in Runnable, x \in TipHandlers : RunTip(t, x) \in Runnable
  <2> SUFFICES ASSUME NEW t \in Runnable, NEW x \in TipHandlers
               PROVE  RunTip(t, x) \in Runnable
    OBVIOUS
  <2>1. t \in TipStates
    BY DEF Runnable
  <2>2. CASE x = "shown"
    <3>1. RunTip(t, x) = ShowCompleted(t)
      BY <2>2 DEF RunTip
    <3> QED BY <3>1, ShowCompletedIs DEF Runnable
  <2>3. CASE x = "hidden"
    <3>1. RunTip(t, x) = HideCompleted(t)
      BY <2>3 DEF RunTip
    <3> QED BY <2>1, <3>1, HideCompletedIs DEF Runnable
  <2>4. CASE x = "destroyed"
    <3>1. RunTip(t, x) = Destroyed(t)
      BY <2>4 DEF RunTip
    <3> QED BY <2>1, <3>1, DestroyedIs DEF Runnable
  <2> QED BY <2>2, <2>3, <2>4 DEF TipHandlers
<1>7. \A i \in 1 .. Len(w) : \A t \in S[i - 1] : RunTip(t, w[i]) \in S[i]
  <2> SUFFICES ASSUME NEW i \in 1 .. Len(w), NEW t \in S[i - 1]
               PROVE  RunTip(t, w[i]) \in S[i]
    OBVIOUS
  <2>1. i \in 0 .. Len(w) /\ i - 1 \in 0 .. Len(w)
    BY <1>2
  <2>2. AfterRun(i - 1, t)
    BY <2>1
  <2>3. AfterRun(i, RunTip(t, w[i]))
    BY <1>1, <2>2, RunStep
  <2> QED BY <2>1, <2>3 DEF AfterRun
<1>8. S \in [0 .. Len(w) -> SUBSET Runnable]
  OBVIOUS
<1>9. FoldLeft(RunTip, s, w) \in S[Len(w)]
  <2> HIDE DEF S, w
  <2> QED BY <1>2, <1>5, <1>6, <1>7, <1>8, RunTipFolds
<1>10. AfterRun(Len(w), tip')
  BY <1>2, <1>3, <1>9
<1>11. \A name : HasRun(Len(w), name) <=> name \in Range(w)
  BY <1>2, LenProperties DEF HasRun, Range
<1>12. tip'.waiting = <<>> /\ ~GoesAway(tip') /\ Range(tip'.waiting) = {}
  <2>1. tip'.waiting = <<>>
    BY <1>10 DEF AfterRun
  <2> QED BY <2>1, GoesAwayIs, EmptyRange
<1>13. GoesAway(tip) <=> HasRun(Len(w), "hidden") \/ HasRun(Len(w), "destroyed")
  BY <1>11, GoesAwayIs
<1> HIDE DEF w, S
<1>14. TipHolds(tip')
  BY <1>1, <1>10, <1>12 DEF AfterRun, Runnable, TipHolds
<1>15. ~tip'.raced => TipInStep(tip')
  <2> SUFFICES ASSUME ~tip'.raced PROVE TipInStep(tip')
    OBVIOUS
  <2>1. TipInStep(tip)
    BY <1>10 DEF AfterRun, TipInv, TipStateInv
  <2>2. "shown" \in Range(tip.waiting) <=> HasRun(Len(w), "shown")
    BY <1>11 DEF w
  <2>3. "destroyed" \in Range(tip.waiting) <=> HasRun(Len(w), "destroyed")
    BY <1>11 DEF w
  <2> QED BY <1>1, <1>10, <1>12, <1>13, <2>1, <2>2, <2>3
             DEF AfterRun, Runnable, TipHolds, TipInStep
<1> QED BY <1>14, <1>15 DEF TipStateInv

(* Each step of the tip keeps its invariant.                               *)
LEMMA TipInvKept == TipInv /\ [TipNext]_tipVars => TipInv'
<1> SUFFICES ASSUME TipInv, [TipNext]_tipVars PROVE TipInv'
  OBVIOUS
<1>1. tipOptions \in TipOptions /\ TipStateInv(tip) /\ tip \in TipStates
  BY DEF TipInv, TipStateInv, TipHolds
<1>2. tipOptions' = tipOptions
  BY DEF TipNext, EventIn, EventOut, ClickElement, TimeoutFires,
         TipTransitionEnds, Destroy, BecomesTip, tipVars
<1>3. SUFFICES TipStateInv(tip)'
  BY <1>1, <1>2 DEF TipInv
<1>4. SUFFICES TipStateInv(tip')
  BY <1>2 DEF TipStateInv, TipHolds, TipInStep, TipStates, GoesAway
<1>5. ASSUME NEW trigger \in {"hover", "focus"}, EventIn(trigger)
      PROVE  TipStateInv(tip')
  <2> DEFINE J == tip.inState \cup {trigger}
  <2>1. /\ tip' = Enter([tip EXCEPT !.inState = J]) /\ ~tip.destroyed
        /\ J \in SUBSET tipOptions.trigger /\ J # {}
    BY <1>1, <1>5 DEF EventIn, BecomesTip, Listens, TipStates
  <2> QED BY <1>1, <2>1, EnterHolds
<1>6. ASSUME NEW trigger \in {"hover", "focus"}, EventOut(trigger)
      PROVE  TipStateInv(tip')
  <2> DEFINE J == tip.inState \ {trigger}
  <2>1. /\ tip' = Leave([tip EXCEPT !.inState = J]) /\ ~tip.destroyed
        /\ J \in SUBSET tipOptions.trigger /\ tip.inState # {}
    BY <1>1, <1>6 DEF EventOut, BecomesTip, Listens, TipStates
  <2> QED BY <1>1, <2>1, LeaveHolds
<1>7. CASE ClickElement
  <2> DEFINE J == IF "click" \in tip.inState THEN tip.inState \ {"click"}
                  ELSE tip.inState \cup {"click"}
             s == [tip EXCEPT !.inState = J]
  <2>1. /\ tip' = IF s.inState # {} THEN Enter(s) ELSE Leave(s)
        /\ "click" \in tipOptions.trigger /\ ~tip.destroyed
    BY <1>7 DEF ClickElement, BecomesTip, Listens
  <2>2. J \in SUBSET tipOptions.trigger /\ s.inState = J
    BY <1>1, <2>1 DEF TipStates
  <2> HIDE DEF J
  <2>3. CASE J # {}
    BY <1>1, <2>1, <2>2, <2>3, EnterHolds
  <2>4. CASE J = {}
    BY <1>1, <2>1, <2>2, <2>4, LeaveHolds
  <2> QED BY <2>3, <2>4
<1>8. CASE TimeoutFires
  BY <1>8, TimeoutHolds
<1>9. CASE TipTransitionEnds
  BY <1>9, RunEnds
<1>10. CASE Destroy
  BY <1>10, DestroyHolds
<1>11. CASE UNCHANGED tipVars
  BY <1>1, <1>11 DEF tipVars
<1> QED BY <1>5, <1>6, <1>7, <1>8, <1>9, <1>10, <1>11 DEF TipNext

-----------------------------------------------------------------------------
(* The carousel.                                                           *)

Moves == [from : SUBSET Slide, to : Slide]

SlideStates == [made : BOOLEAN, cycles : BOOLEAN, paused : BOOLEAN,
                sliding : BOOLEAN, interval : BOOLEAN,
                active : SUBSET Slide, coming : SUBSET Slide, indicator : Slide,
                moving : Seq(Moves), slid : Nat, jumps : Seq(Slide),
                mouse : BOOLEAN, asked : BOOLEAN]

(* At most one slide is on its way, from the one that is active to the one *)
(* whose indicator is marked.                                              *)
OneMove(s) ==
  \/ /\ ~s.sliding /\ s.moving = <<>>
     /\ s.active = {s.indicator} /\ s.coming = {}
  \/ /\ s.sliding /\ s.coming = {s.indicator} /\ s.indicator \notin s.active
     /\ s.moving = <<[from |-> s.active, to |-> s.indicator]>>

(* The timer is one of an instance that cycles.                            *)
TimerRuns(s) ==
  /\ s.interval => s.cycles
  /\ s.cycles => s.made
  /\ s.mouse /\ s.interval /\ settings.pauseOnHover => s.asked

JumpsWait(s) == s.jumps # <<>> => s.sliding \/ s.slid > 0

SlidesHold(s) == s \in SlideStates /\ OneMove(s) /\ TimerRuns(s) /\ JumpsWait(s)

SlidesInv == settings \in Settings /\ SlidesHold(slides)

(* The invariant implies what the runs check.                              *)
LEMMA SlidesSettled == SlidesInv => CarouselTypeOK /\ SettledSlides
<1> SUFFICES ASSUME SlidesInv PROVE CarouselTypeOK /\ SettledSlides
  OBVIOUS
<1>1. CarouselTypeOK
  BY DEF SlidesInv, SlidesHold, SlideStates, Moves, CarouselTypeOK
<1>2. SettledSlides
  <2>1. \A m : <<m>> # <<>>
    OBVIOUS
  <2>2. slides.sliding => slides.moving # <<>>
    BY <2>1 DEF SlidesInv, SlidesHold, OneMove
  <2> QED BY <2>2
          DEF SlidesInv, SlidesHold, SlideStates, OneMove, TimerRuns, JumpsWait, SettledSlides
<1> QED BY <1>1, <1>2

(* There is a first slide.                                                 *)
LEMMA FirstSlide == 0 \in Slide /\ Items \in Int /\ Items > 0
BY SlidesAssumption DEF Slide

(* What the functions make of the slides, field by field.                  *)
SameTimer(s, r) == /\ r.made = s.made /\ r.cycles = s.cycles /\ r.paused = s.paused
                   /\ r.interval = s.interval /\ r.asked = s.asked /\ r.mouse = s.mouse

SameSlides(s, r) == /\ r.sliding = s.sliding /\ r.active = s.active
                    /\ r.coming = s.coming /\ r.indicator = s.indicator
                    /\ r.moving = s.moving /\ r.slid = s.slid /\ r.jumps = s.jumps

(* Who changes only the timer has to show only that the timer runs.        *)
LEMMA SlidesStay ==
  ASSUME NEW s, SlidesHold(s), NEW r \in SlideStates, SameSlides(s, r), TimerRuns(r)
  PROVE  SlidesHold(r)
BY DEF SlidesHold, SameSlides, OneMove, JumpsWait

Paused(s, r) ==
  /\ r \in SlideStates /\ SameSlides(s, r) /\ ~r.interval
  /\ r.made = s.made /\ r.cycles = s.cycles /\ r.mouse = s.mouse /\ r.asked = s.asked

Cycles(s, r) ==
  /\ r \in SlideStates /\ SameSlides(s, r) /\ (r.interval => s.cycles)
  /\ r.made = s.made /\ r.cycles = s.cycles /\ r.mouse = s.mouse /\ r.asked = s.asked

(* What pause sets, called by itself or by an event.                       *)
LEMMA PauseIs ==
  ASSUME NEW s \in SlideStates
  PROVE  Paused(s, Pause(s)) /\ Paused(s, PauseOn(s))
BY DEF Paused, SameSlides, Pause, PauseOn, SlideStates

(* What cycle sets, likewise.                                              *)
LEMMA CycleIs ==
  ASSUME NEW s \in SlideStates
  PROVE  Cycles(s, Cycle(s)) /\ Cycles(s, CycleOn(s))
BY DEF Cycles, SameSlides, Cycle, CycleOn, SlideStates

(* Making the instance starts its timer and moves no slide.                *)
LEMMA MakeHolds ==
  ASSUME NEW s, SlidesHold(s), NEW c \in BOOLEAN
  PROVE  /\ SlidesHold(Make(s, c)) /\ SameSlides(s, Make(s, c))
         /\ (Make(s, c).interval <=> s.interval)
<1> DEFINE r == [s EXCEPT !.made = TRUE, !.cycles = c]
<1>1. CASE s.made
  BY <1>1 DEF Make, SameSlides
<1>2. CASE ~s.made
  <2>1. ~s.cycles /\ ~s.interval /\ s \in SlideStates
    BY <1>2 DEF SlidesHold, TimerRuns
  <2>2. /\ r \in SlideStates /\ SameSlides(s, r) /\ r.made /\ r.interval = s.interval
    BY <2>1 DEF SlideStates, SameSlides
  <2>3. Make(s, c) = r
    BY <1>2 DEF Make
  <2> HIDE DEF r
  <2>4. TimerRuns(r)
    BY <2>1, <2>2 DEF TimerRuns
  <2> QED BY <2>1, <2>2, <2>3, <2>4, SlidesStay
<1> QED BY <1>1, <1>2

(* At rest the active slide is the one the indicator marks.                *)
LEMMA CurrentIs ==
  ASSUME NEW s, SlidesHold(s), ~s.sliding
  PROVE  /\ Current(s) = s.indicator /\ s.active = {s.indicator}
         /\ s.indicator \in Slide /\ s.moving = <<>> /\ s.coming = {}
BY DEF SlidesHold, OneMove, Current, SlideStates, Slide

(* A slide begins where none is on its way, and ends at once without a     *)
(* transition.                                                             *)
LEMMA SlideToHolds ==
  ASSUME NEW s, SlidesHold(s), ~s.sliding, NEW n \in Slide
  PROVE  SlidesHold(SlideTo(s, n))
<1> DEFINE p == IF s.interval THEN Pause(s) ELSE s
           b == [p EXCEPT !.sliding = TRUE, !.indicator = n]
           mv == [b EXCEPT !.coming = @ \cup {n},
                           !.moving = Append(@, [from |-> s.active, to |-> n])]
           st == [b EXCEPT !.active = {n}, !.sliding = FALSE]
           m == IF settings.slide THEN mv ELSE st
           r == SlideTo(s, n)
<1>1. /\ s \in SlideStates /\ s.active = {s.indicator} /\ s.indicator \in Slide
      /\ s.moving = <<>> /\ s.coming = {}
  BY CurrentIs DEF SlidesHold
<1>2. r = IF n \in s.active THEN [s EXCEPT !.sliding = FALSE]
          ELSE IF s.interval THEN Cycle(m) ELSE m
  BY DEF SlideTo
<1>3. /\ p \in SlideStates /\ SameSlides(s, p)
      /\ p.made = s.made /\ p.cycles = s.cycles /\ p.mouse = s.mouse /\ p.asked = s.asked
      /\ ~p.interval
  <2>1. Paused(s, Pause(s))
    BY <1>1, PauseIs
  <2> QED BY <1>1, <2>1 DEF Paused, SameSlides
<1> HIDE DEF r, p
<1>4. /\ b \in SlideStates /\ b.made = s.made /\ b.cycles = s.cycles
      /\ b.mouse = s.mouse /\ b.asked = s.asked /\ ~b.interval
      /\ b.sliding = TRUE /\ b.indicator = n /\ b.active = s.active /\ b.coming = {}
      /\ b.moving = <<>> /\ b.slid = s.slid /\ b.jumps = s.jumps
  BY <1>1, <1>3 DEF SlideStates, SameSlides
<1> HIDE DEF b
<1>5. /\ m \in SlideStates /\ m.made = s.made /\ m.cycles = s.cycles
      /\ m.mouse = s.mouse /\ m.asked = s.asked /\ ~m.interval
      /\ m.slid = s.slid /\ m.jumps = s.jumps
      /\ n \notin s.active => OneMove(m)
      /\ s.slid = 0 => s.jumps = <<>>
  <2>1. s.slid = 0 => s.jumps = <<>>
    BY DEF SlidesHold, JumpsWait, SlideStates
  <2>2. CASE settings.slide
    <3> DEFINE e == [from |-> s.active, to |-> n]
               w == Append(b.moving, e)
    <3>1. e \in Moves /\ w = <<e>> /\ w \in Seq(Moves)
      BY <1>1, <1>4 DEF Moves, SlideStates
    <3>2. b.coming \cup {n} = {n}
      BY <1>4
    <3> HIDE DEF e, w
    <3>3. mv = [b EXCEPT !.coming = {n}, !.moving = w]
      BY <1>4, <3>2 DEF e, w
    <3>4. /\ mv \in SlideStates /\ mv.made = s.made /\ mv.cycles = s.cycles
          /\ mv.mouse = s.mouse /\ mv.asked = s.asked /\ ~mv.interval
          /\ mv.slid = s.slid /\ mv.jumps = s.jumps /\ mv.sliding = TRUE
          /\ mv.indicator = n /\ mv.active = s.active /\ mv.coming = {n}
          /\ mv.moving = <<e>>
      BY <1>4, <3>1, <3>3 DEF SlideStates
    <3>5. m = mv
      BY <2>2
    <3> HIDE DEF m, mv
    <3>6. m.moving = <<[from |-> m.active, to |-> m.indicator]>>
      BY <3>4, <3>5 DEF e
    <3> QED BY <2>1, <3>4, <3>5, <3>6 DEF OneMove
  <2>3. CASE ~settings.slide
    <3>1. /\ st \in SlideStates /\ st.made = s.made /\ st.cycles = s.cycles
          /\ st.mouse = s.mouse /\ st.asked = s.asked /\ ~st.interval
          /\ st.slid = s.slid /\ st.jumps = s.jumps /\ st.sliding = FALSE
          /\ st.indicator = n /\ st.active = {n} /\ st.coming = {}
          /\ st.moving = <<>>
      BY <1>4 DEF SlideStates
    <3>2. m = st
      BY <2>3
    <3> HIDE DEF m, st
    <3> QED BY <2>1, <3>1, <3>2 DEF OneMove
  <2> QED BY <2>2, <2>3
<1> HIDE DEF m
<1>6. TimerRuns(s) /\ JumpsWait(s)
  BY DEF SlidesHold
<1>7. s.slid \in Nat /\ s.jumps \in Seq(Slide)
  BY <1>1 DEF SlideStates
<1>8. CASE n \in s.active
  <2> DEFINE q == [s EXCEPT !.sliding = FALSE]
  <2>1. q \in SlideStates /\ SameSlides(s, q) /\ SameTimer(s, q)
    BY <1>1 DEF SlideStates, SameSlides, SameTimer
  <2>2. r = q
    BY <1>2, <1>8
  <2> HIDE DEF q
  <2>3. TimerRuns(q)
    BY <1>6, <2>1 DEF TimerRuns, SameTimer
  <2> QED BY <2>1, <2>2, <2>3, SlidesStay DEF r
<1>9. CASE n \notin s.active
  <2>1. SlidesHold(m)
    BY <1>5, <1>6, <1>7, <1>9 DEF SlidesHold, TimerRuns, JumpsWait
  <2>2. CASE ~s.interval
    <3>1. r = m
      BY <1>2, <1>9, <2>2
    <3> QED BY <2>1, <3>1 DEF r
  <2>3. CASE s.interval
    <3>1. r = Cycle(m) /\ Cycles(m, Cycle(m))
      BY <1>2, <1>5, <1>9, <2>3, CycleIs
    <3>2. TimerRuns(r)
      BY <1>5, <1>6, <2>3, <3>1 DEF TimerRuns, Cycles
    <3> QED BY <2>1, <3>1, <3>2, SlidesStay DEF r, Cycles
  <2> QED BY <2>2, <2>3
<1> QED BY <1>8, <1>9

(* A turn to the next or the previous slide.                               *)
LEMMA TurnHolds ==
  ASSUME settings \in Settings, NEW s, SlidesHold(s), NEW type \in {"next", "prev"}
  PROVE  SlidesHold(Turn(s, type))
<1>1. CASE s.sliding
  BY <1>1 DEF Turn
<1>2. CASE ~s.sliding
  <2> DEFINE k == Current(s)
             n == ItemForDirection(s, type)
  <2>1. k \in Slide /\ k \in Int
    BY <1>2, CurrentIs DEF Slide
  <2> HIDE DEF k
  <2>2. n = k \/ n = (k + 1) % Items \/ n = (k + -1) % Items
    BY DEF ItemForDirection, k
  <2>3. n \in Slide
    BY <2>1, <2>2, FirstSlide DEF Slide
  <2>4. Turn(s, type) = SlideTo(s, n)
    BY <1>2 DEF Turn
  <2> QED BY <1>2, <2>3, <2>4, SlideToHolds
<1> QED BY <1>1, <1>2

(* to(n) turns, or waits for the slide under way.                          *)
LEMMA ToHolds ==
  ASSUME NEW s, SlidesHold(s), NEW n \in Slide
  PROVE  SlidesHold(To(s, n))
<1>0. s \in SlideStates
  BY DEF SlidesHold
<1>1. CASE s.sliding
  <2> DEFINE j == Append(s.jumps, n)
             r == [s EXCEPT !.jumps = j]
  <2>1. j \in Seq(Slide)
    BY <1>0 DEF SlideStates
  <2>2. To(s, n) = r
    BY <1>1 DEF To
  <2> HIDE DEF j
  <2>3. /\ r \in SlideStates /\ SameTimer(s, r)
        /\ r.sliding = s.sliding /\ r.active = s.active /\ r.coming = s.coming
        /\ r.indicator = s.indicator /\ r.moving = s.moving
    BY <1>0, <2>1 DEF SlideStates, SameTimer
  <2> HIDE DEF r
  <2>4. OneMove(r) /\ TimerRuns(r) /\ JumpsWait(r)
    BY <1>1, <2>3 DEF SlidesHold, OneMove, TimerRuns, JumpsWait, SameTimer
  <2> QED BY <2>2, <2>3, <2>4 DEF SlidesHold
<1>2. CASE ~s.sliding /\ n = Current(s)
  <2> DEFINE p == Pause(s)
             c == Cycle(p)
             r == [c EXCEPT !.asked = s.mouse]
  <2>1. To(s, n) = r
    BY <1>2 DEF To
  <2>2. Paused(s, p) /\ p \in SlideStates
    BY <1>0, PauseIs DEF Paused
  <2>3. Cycles(p, c) /\ c \in SlideStates
    BY <2>2, CycleIs DEF Cycles
  <2> HIDE DEF p, c
  <2>4. s.mouse \in BOOLEAN
    BY <1>0 DEF SlideStates
  <2>5. /\ r \in SlideStates /\ SameSlides(c, r) /\ r.asked = s.mouse
        /\ r.made = c.made /\ r.cycles = c.cycles /\ r.mouse = c.mouse
        /\ r.interval = c.interval
    BY <2>3, <2>4 DEF SlideStates, SameSlides
  <2> HIDE DEF r
  <2>6. SameSlides(s, r)
    BY <2>2, <2>3, <2>5 DEF Paused, Cycles, SameSlides
  <2>7. TimerRuns(r)
    BY <2>2, <2>3, <2>5 DEF Paused, Cycles, TimerRuns, SlidesHold
  <2> QED BY <2>1, <2>5, <2>6, <2>7, SlidesStay
<1>3. CASE ~s.sliding /\ n # Current(s)
  <2>1. To(s, n) = SlideTo(s, n)
    BY <1>3 DEF To
  <2> QED BY <1>3, <2>1, SlideToHolds
<1> QED BY <1>1, <1>2, <1>3

(* FoldRuns for the jumps that waited.                                     *)
LEMMA ToFolds ==
  ASSUME NEW V, NEW X, NEW q \in Seq(X), \A t \in V, x \in X : To(t, x) \in V,
         NEW S \in [0 .. Len(q) -> SUBSET V], NEW s \in S[0],
         \A i \in 1 .. Len(q) : \A t \in S[i - 1] : To(t, q[i]) \in S[i]
  PROVE  FoldLeft(To, s, q) \in S[Len(q)]
<1> DEFINE f == [p \in V \X X |-> To(p[1], p[2])]
           Folds(g) == g = [t \in SUBSET DOMAIN q |->
                              IF t = {} THEN s
                              ELSE To(g[t \ {Max(t)}], q[Max(t)])]
           h == CHOOSE g : Folds(g)
<1>1. f \in [V \X X -> V] /\ \A t \in V, x \in X : f[<<t, x>>] = To(t, x)
  OBVIOUS
<1>2. Len(q) \in Nat /\ DOMAIN q = 1 .. Len(q) /\ \A i \in 1 .. Len(q) : q[i] \in X
  BY LenProperties
<1>3. s \in V /\ \A i \in 1 .. Len(q) : i - 1 \in 0 .. Len(q) /\ S[i - 1] \subseteq V
  BY <1>2
<1> HIDE DEF f
<1>4. PICK g : IsFold(g, f, s, q, Len(q)) /\ \A t \in SUBSET (1 .. Len(q)) : g[t] \in V
  BY <1>1, <1>3, FoldExists
<1>5. \A t \in SUBSET (1 .. Len(q)) : t # {} => q[Max(t)] \in X
  BY <1>2, MaxOfIndices
<1>6. Folds(g)
  BY <1>1, <1>2, <1>4, <1>5 DEF IsFold
<1>7. Folds(h)
  <2> HIDE DEF Folds
  <2> QED BY <1>6
<1>8. \A t \in SUBSET (1 .. Len(q)) :
        h[t] = IF t = {} THEN s ELSE To(h[t \ {Max(t)}], q[Max(t)])
  BY <1>2, <1>7
<1>9. FoldLeft(To, s, q) = h[1 .. Len(q)]
  BY <1>2 DEF FoldLeft, MapThenFoldSet
<1> HIDE DEF h, Folds
<1>10. FoldsIn(h, f, V, s, q)
  BY <1>1, <1>5, <1>8 DEF FoldsIn
<1>11. Leads(f, S, q)
  BY <1>1, <1>2, <1>3 DEF Leads
<1> QED BY <1>1, <1>9, <1>10, <1>11, FoldRuns

(* FoldRuns for the ends of slides.                                        *)
LEMMA EndedFolds ==
  ASSUME NEW V, NEW X, NEW q \in Seq(X), \A t \in V, x \in X : Ended(t, x) \in V,
         NEW S \in [0 .. Len(q) -> SUBSET V], NEW s \in S[0],
         \A i \in 1 .. Len(q) : \A t \in S[i - 1] : Ended(t, q[i]) \in S[i]
  PROVE  FoldLeft(Ended, s, q) \in S[Len(q)]
<1> DEFINE f == [p \in V \X X |-> Ended(p[1], p[2])]
           Folds(g) == g = [t \in SUBSET DOMAIN q |->
                              IF t = {} THEN s
                              ELSE Ended(g[t \ {Max(t)}], q[Max(t)])]
           h == CHOOSE g : Folds(g)
<1>1. f \in [V \X X -> V] /\ \A t \in V, x \in X : f[<<t, x>>] = Ended(t, x)
  OBVIOUS
<1>2. Len(q) \in Nat /\ DOMAIN q = 1 .. Len(q) /\ \A i \in 1 .. Len(q) : q[i] \in X
  BY LenProperties
<1>3. s \in V /\ \A i \in 1 .. Len(q) : i - 1 \in 0 .. Len(q) /\ S[i - 1] \subseteq V
  BY <1>2
<1> HIDE DEF f
<1>4. PICK g : IsFold(g, f, s, q, Len(q)) /\ \A t \in SUBSET (1 .. Len(q)) : g[t] \in V
  BY <1>1, <1>3, FoldExists
<1>5. \A t \in SUBSET (1 .. Len(q)) : t # {} => q[Max(t)] \in X
  BY <1>2, MaxOfIndices
<1>6. Folds(g)
  BY <1>1, <1>2, <1>4, <1>5 DEF IsFold
<1>7. Folds(h)
  <2> HIDE DEF Folds
  <2> QED BY <1>6
<1>8. \A t \in SUBSET (1 .. Len(q)) :
        h[t] = IF t = {} THEN s ELSE Ended(h[t \ {Max(t)}], q[Max(t)])
  BY <1>2, <1>7
<1>9. FoldLeft(Ended, s, q) = h[1 .. Len(q)]
  BY <1>2 DEF FoldLeft, MapThenFoldSet
<1> HIDE DEF h, Folds
<1>10. FoldsIn(h, f, V, s, q)
  BY <1>1, <1>5, <1>8 DEF FoldsIn
<1>11. Leads(f, S, q)
  BY <1>1, <1>2, <1>3 DEF Leads
<1> QED BY <1>1, <1>9, <1>10, <1>11, FoldRuns

(* The slid event runs the jumps that waited for it.                       *)
LEMMA SlidHolds ==
  ASSUME SlidesInv, SlidEvent
  PROVE  SlidesHold(slides')
<1> DEFINE q == slides.jumps
           s == [slides EXCEPT !.slid = slides.slid - 1, !.jumps = <<>>]
           V == {t \in SlideStates : SlidesHold(t)}
           S == [i \in 0 .. Len(q) |-> V]
<1>1. SlidesHold(slides) /\ slides \in SlideStates
  BY DEF SlidesInv, SlidesHold
<1>2. q \in Seq(Slide) /\ Len(q) \in Nat /\ <<>> \in Seq(Slide)
  BY <1>1 DEF SlideStates
<1>3. slides' = FoldLeft(To, s, q)
  BY DEF SlidEvent, Becomes
<1>4. slides.slid - 1 \in Nat
  BY <1>1 DEF SlidEvent, SlideStates
<1>5. /\ s \in SlideStates /\ SameTimer(slides, s) /\ s.jumps = <<>>
      /\ s.sliding = slides.sliding /\ s.active = slides.active
      /\ s.coming = slides.coming /\ s.indicator = slides.indicator
      /\ s.moving = slides.moving
  BY <1>1, <1>2, <1>4 DEF SlideStates, SameTimer
<1> HIDE DEF s
<1>6. SlidesHold(s)
  BY <1>1, <1>5 DEF SlidesHold, OneMove, TimerRuns, JumpsWait, SameTimer
<1>7. \A t \in V, n \in Slide : To(t, n) \in V
  BY ToHolds DEF SlidesHold
<1>8. s \in S[0]
  BY <1>2, <1>5, <1>6
<1>9. \A i \in 1 .. Len(q) : \A t \in S[i - 1] : To(t, q[i]) \in S[i]
  <2> SUFFICES ASSUME NEW i \in 1 .. Len(q), NEW t \in S[i - 1]
               PROVE  To(t, q[i]) \in S[i]
    OBVIOUS
  <2>1. i - 1 \in 0 .. Len(q) /\ i \in 0 .. Len(q) /\ q[i] \in Slide
    BY <1>2
  <2> HIDE DEF V
  <2>2. t \in V
    BY <2>1
  <2> QED BY <1>7, <2>1, <2>2
<1>10. S \in [0 .. Len(q) -> SUBSET V]
  OBVIOUS
<1>11. FoldLeft(To, s, q) \in S[Len(q)]
  <2> HIDE DEF S, V, q
  <2> QED BY <1>2, <1>7, <1>8, <1>9, <1>10, ToFolds
<1> QED BY <1>2, <1>3, <1>11

(* The one slide that is on its way arrives.                               *)
LEMMA SlideEndHolds ==
  ASSUME SlidesInv, SlideEnds
  PROVE  SlidesHold(slides')
<1> DEFINE q == slides.moving
           m == [from |-> slides.active, to |-> slides.indicator]
           s == [slides EXCEPT !.moving = <<>>]
           r == Ended(s, m)
           S == [i \in 0 .. Len(q) |-> IF i = 0 THEN {s} ELSE {r}]
<1>1. /\ SlidesHold(slides) /\ slides \in SlideStates
      /\ slides.coming = {slides.indicator} /\ q = <<m>>
  BY DEF SlidesInv, SlidesHold, SlideEnds, OneMove
<1>2. m \in Moves /\ <<>> \in Seq(Moves)
  BY <1>1 DEF SlideStates, Moves
<1>3. m.from = slides.active /\ m.to = slides.indicator /\ Head(q) = m
  BY <1>1
<1>4. slides' = FoldLeft(Ended, s, q)
  BY DEF SlideEnds, Becomes
<1> HIDE DEF m
<1>5. /\ s \in SlideStates /\ SameTimer(slides, s) /\ s.jumps = slides.jumps
      /\ s.active = slides.active /\ s.coming = slides.coming
      /\ s.indicator = slides.indicator /\ s.moving = <<>> /\ s.slid = slides.slid
  BY <1>1, <1>2 DEF SlideStates, SameTimer
<1> HIDE DEF s
<1>6. /\ (s.active \ m.from) \cup {m.to} = {slides.indicator}
      /\ s.coming \ {m.to} = {} /\ slides.indicator \in Slide /\ s.slid + 1 \in Nat
  BY <1>1, <1>3, <1>5 DEF SlideStates
<1>7. r = [s EXCEPT !.active = {slides.indicator}, !.coming = {},
                    !.sliding = FALSE, !.slid = @ + 1]
  BY <1>3, <1>6 DEF Ended
<1> HIDE DEF r
<1>8. /\ r \in SlideStates /\ SameTimer(slides, r) /\ ~r.sliding /\ r.moving = <<>>
      /\ r.active = {r.indicator} /\ r.coming = {} /\ r.slid = s.slid + 1
  BY <1>5, <1>6, <1>7 DEF SlideStates, SameTimer
<1>9. SlidesHold(r)
  <2>1. r.slid > 0
    BY <1>5, <1>8 DEF SlideStates
  <2> QED BY <1>1, <1>8, <2>1 DEF SlidesHold, OneMove, TimerRuns, JumpsWait, SameTimer
<1>10. q \in Seq(Moves) /\ Len(q) = 1 /\ q[1] = m
  BY <1>1, <1>2
<1>11. \A t \in SlideStates, x \in Moves : Ended(t, x) \in SlideStates
  <2> SUFFICES ASSUME NEW t \in SlideStates, NEW x \in Moves
               PROVE  Ended(t, x) \in SlideStates
    OBVIOUS
  <2>1. /\ Append(t.moving, x) \in Seq(Moves) /\ t.slid + 1 \in Nat
        /\ (t.active \ x.from) \cup {x.to} \in SUBSET Slide
        /\ t.coming \ {x.to} \in SUBSET Slide
    BY DEF SlideStates, Moves
  <2> QED BY <2>1 DEF Ended, SlideStates
<1>12. s \in S[0] /\ S \in [0 .. Len(q) -> SUBSET SlideStates]
  BY <1>5, <1>8, <1>10
<1>13. \A i \in 1 .. Len(q) : \A t \in S[i - 1] : Ended(t, q[i]) \in S[i]
  BY <1>10 DEF r
<1>14. S[Len(q)] = {r}
  BY <1>10
<1>15. FoldLeft(Ended, s, q) \in S[Len(q)]
  <2> HIDE DEF S, q
  <2> QED BY <1>10, <1>11, <1>12, <1>13, EndedFolds
<1> QED BY <1>4, <1>9, <1>14, <1>15

(* The first slide is active, and the timer runs if data-ride says so.     *)
LEMMA InitSlidesInv == CarouselInit => SlidesInv
<1> SUFFICES ASSUME CarouselInit PROVE SlidesInv
  OBVIOUS
<1>1. <<>> \in Seq(Moves) /\ <<>> \in Seq(Slide)
  OBVIOUS
<1>2. settings \in Settings
  BY DEF CarouselInit
<1>3. slides \in SlideStates
  <2>1. Page \in SlideStates /\ ~Page.made
    BY <1>1, FirstSlide DEF SlideStates, Page
  <2>2. settings.ride \in BOOLEAN /\ settings.interval \in BOOLEAN
    BY <1>2 DEF Settings
  <2>3. Make(Page, TRUE) \in SlideStates /\ Make(Page, FALSE) \in SlideStates
    BY <2>1 DEF Make, SlideStates
  <2>4. \A t \in SlideStates : Pause(t) \in SlideStates /\ Cycle(t) \in SlideStates
    BY DEF Pause, Cycle, SlideStates
  <2> QED BY <2>1, <2>2, <2>3, <2>4 DEF CarouselInit
<1>4. OneMove(slides) /\ JumpsWait(slides)
  BY DEF CarouselInit, OneMove, JumpsWait, Page, Cycle, Pause, Make
<1>5. TimerRuns(slides)
  BY DEF CarouselInit, TimerRuns, Page, Cycle, Pause, Make
<1> QED BY <1>2, <1>3, <1>4, <1>5 DEF SlidesInv, SlidesHold

(* Each step of the carousel keeps its invariant.                          *)
LEMMA SlidesInvKept == SlidesInv /\ [CarouselNext]_carouselVars => SlidesInv'
<1> SUFFICES ASSUME SlidesInv, [CarouselNext]_carouselVars PROVE SlidesInv'
  OBVIOUS
<1>1. settings \in Settings /\ SlidesHold(slides) /\ slides \in SlideStates
      /\ TimerRuns(slides)
  BY DEF SlidesInv, SlidesHold
<1>2. settings' = settings
  BY DEF CarouselNext, ClickArrow, ClickIndicator, Keydown, TimerFires, SlideEnds,
         SlidEvent, MouseEnters, MouseLeaves, CallPause, CallCycle, Becomes, carouselVars
<1>3. SUFFICES SlidesHold(slides')
  BY <1>1, <1>2 DEF SlidesInv, SlidesHold, SlideStates, OneMove, TimerRuns, JumpsWait
<1>4. settings.interval \in BOOLEAN
  BY <1>1 DEF Settings
<1>5. ASSUME NEW type \in {"next", "prev"}, ClickArrow(type) \/ Keydown(type)
      PROVE  SlidesHold(slides')
  <2>1. SlidesHold(Make(slides, settings.interval))
    BY <1>1, <1>4, MakeHolds
  <2> QED BY <1>1, <1>5, <2>1, TurnHolds DEF ClickArrow, Keydown, Becomes
<1>6. ASSUME NEW n \in Slide, ClickIndicator(n)
      PROVE  SlidesHold(slides')
  <2>1. SlidesHold(Make(slides, FALSE))
    BY <1>1, MakeHolds
  <2> QED BY <1>6, <2>1, ToHolds DEF ClickIndicator, Becomes
<1>7. CASE TimerFires
  BY <1>1, <1>7, TurnHolds DEF TimerFires, Becomes
<1>8. CASE SlideEnds
  BY <1>8, SlideEndHolds
<1>9. CASE SlidEvent
  BY <1>9, SlidHolds
<1>10. CASE MouseEnters
  <2> DEFINE s == [slides EXCEPT !.mouse = TRUE, !.asked = FALSE]
  <2>1. slides' = IF s.made /\ settings.pauseOnHover THEN PauseOn(s) ELSE s
    BY <1>10 DEF MouseEnters, Becomes
  <2>2. /\ s \in SlideStates /\ SameSlides(slides, s) /\ s.made = slides.made
        /\ s.cycles = slides.cycles /\ s.interval = slides.interval
    BY <1>1 DEF SlideStates, SameSlides
  <2> HIDE DEF s
  <2>3. Paused(s, PauseOn(s))
    BY <2>2, PauseIs
  <2>4. CASE s.made /\ settings.pauseOnHover
    <3>1. slides' = PauseOn(s)
      BY <2>1, <2>4
    <3>2. SameSlides(slides, slides') /\ slides' \in SlideStates
      BY <2>2, <2>3, <3>1 DEF SameSlides, Paused
    <3>3. TimerRuns(slides')
      BY <1>1, <2>2, <2>3, <3>1 DEF Paused, TimerRuns
    <3> QED BY <1>1, <3>2, <3>3, SlidesStay
  <2>5. CASE ~(s.made /\ settings.pauseOnHover)
    <3>1. slides' = s
      BY <2>1, <2>5
    <3>2. TimerRuns(s)
      BY <1>1, <2>2, <2>5 DEF TimerRuns
    <3> QED BY <1>1, <2>2, <3>1, <3>2, SlidesStay
  <2> QED BY <2>4, <2>5
<1>11. CASE MouseLeaves
  <2> DEFINE s == [slides EXCEPT !.mouse = FALSE]
  <2>1. slides' = IF s.made /\ settings.pauseOnHover THEN CycleOn(s) ELSE s
    BY <1>11 DEF MouseLeaves, Becomes
  <2>2. /\ s \in SlideStates /\ SameSlides(slides, s) /\ s.made = slides.made
        /\ s.cycles = slides.cycles /\ s.interval = slides.interval /\ ~s.mouse
    BY <1>1 DEF SlideStates, SameSlides
  <2> HIDE DEF s
  <2>3. Cycles(s, CycleOn(s))
    BY <2>2, CycleIs
  <2>4. slides' = s \/ slides' = CycleOn(s)
    BY <2>1
  <2>5. SameSlides(slides, slides') /\ slides' \in SlideStates
    BY <2>2, <2>3, <2>4 DEF SameSlides, Cycles
  <2>6. TimerRuns(slides')
    BY <1>1, <2>2, <2>3, <2>4 DEF Cycles, TimerRuns
  <2> QED BY <1>1, <2>5, <2>6, SlidesStay
<1>12. CASE CallPause
  <2>1. slides' = Pause(slides) /\ Paused(slides, slides')
    BY <1>1, <1>12, PauseIs DEF CallPause, Becomes
  <2>2. TimerRuns(slides')
    BY <1>1, <2>1 DEF Paused, TimerRuns
  <2> QED BY <1>1, <2>1, <2>2, SlidesStay DEF Paused
<1>13. CASE CallCycle
  <2> DEFINE c == Cycle(slides)
             r == [c EXCEPT !.asked = slides.mouse]
  <2>1. slides' = r
    BY <1>13 DEF CallCycle, Becomes
  <2>2. Cycles(slides, c) /\ c \in SlideStates
    BY <1>1, CycleIs DEF Cycles
  <2> HIDE DEF c
  <2>3. slides.mouse \in BOOLEAN
    BY <1>1 DEF SlideStates
  <2>4. /\ r \in SlideStates /\ SameSlides(c, r) /\ r.asked = slides.mouse
        /\ r.made = c.made /\ r.cycles = c.cycles /\ r.mouse = c.mouse
        /\ r.interval = c.interval
    BY <2>2, <2>3 DEF SlideStates, SameSlides
  <2> HIDE DEF r
  <2>5. SameSlides(slides, r)
    BY <2>2, <2>4 DEF Cycles, SameSlides
  <2>6. TimerRuns(r)
    BY <1>1, <2>2, <2>4 DEF Cycles, TimerRuns
  <2> QED BY <1>1, <2>1, <2>4, <2>5, <2>6, SlidesStay
<1>14. CASE UNCHANGED carouselVars
  BY <1>1, <1>14 DEF carouselVars
<1> QED BY <1>5, <1>6, <1>7, <1>8, <1>9, <1>10, <1>11, <1>12, <1>13, <1>14
        DEF CarouselNext

-----------------------------------------------------------------------------
(* The collapsible panels.                                                 *)

GroupStates == [panels : [Panels -> Panel], waiting : Seq(Completion),
                mistold : SUBSET Panels, raced : BOOLEAN]

(* A panel waits among the first n of q, and what the last of its handlers *)
(* there is.                                                               *)
WaitsIn(q, n, p) == \E i \in 1 .. n : q[i].panel = p

LastIn(q, n, p, callback) ==
  \E i \in 1 .. n : /\ q[i].panel = p /\ q[i].callback = callback
                    /\ \A j \in i + 1 .. n : q[j].panel # p

(* A panel is on its way while it waits, and who was not told too early    *)
(* was told what it will be.                                               *)
OnTheirWay(s) ==
  \A p \in Panels :
    s.panels[p].class = "collapsing" <=> WaitsIn(s.waiting, Len(s.waiting), p)

ToldRight(s) ==
  \A p \in Panels \ s.mistold :
    s.panels[p].expanded <=>
      IF s.panels[p].class = "collapsing"
      THEN LastIn(s.waiting, Len(s.waiting), p, "shown")
      ELSE s.panels[p].class = "in"

PanelsHold(s) ==
  /\ s \in GroupStates /\ OnTheirWay(s) /\ ToldRight(s)
  /\ ~transition => s.waiting = <<>>

-----------------------------------------------------------------------------
(* Who waits, and for what last, among one handler more.                   *)
LEMMA OneMore ==
  ASSUME NEW q, NEW n \in Nat, NEW p, NEW callback
  PROVE  /\ WaitsIn(q, n + 1, p) <=> WaitsIn(q, n, p) \/ q[n + 1].panel = p
         /\ LastIn(q, n + 1, p, callback) <=>
              IF q[n + 1].panel = p THEN q[n + 1].callback = callback
              ELSE LastIn(q, n, p, callback)
<1>1. 1 .. n + 1 = (1 .. n) \cup {n + 1}
  OBVIOUS
<1>2. WaitsIn(q, n + 1, p) <=> WaitsIn(q, n, p) \/ q[n + 1].panel = p
  BY <1>1 DEF WaitsIn
<1>3. \A i \in 1 .. n : i + 1 .. n + 1 = (i + 1 .. n) \cup {n + 1}
  OBVIOUS
<1>4. (n + 1) + 1 .. n + 1 = {}
  OBVIOUS
<1>5. CASE q[n + 1].panel = p
  <2>1. \A i \in 1 .. n : n + 1 \in i + 1 .. n + 1
    OBVIOUS
  <2>2. LastIn(q, n + 1, p, callback) <=> q[n + 1].callback = callback
    BY <1>1, <1>4, <1>5, <2>1 DEF LastIn
  <2> QED BY <1>2, <1>5, <2>2
<1>6. CASE q[n + 1].panel # p
  <2>1. LastIn(q, n + 1, p, callback) <=> LastIn(q, n, p, callback)
    BY <1>1, <1>3, <1>6 DEF LastIn
  <2> QED BY <1>2, <1>6, <2>1
<1> QED BY <1>2, <1>5, <1>6

(* Nobody waits among no handlers.                                         *)
LEMMA NoMore ==
  ASSUME NEW q, NEW p, NEW callback
  PROVE  ~WaitsIn(q, 0, p) /\ ~LastIn(q, 0, p, callback)
BY DEF WaitsIn, LastIn

SameHandlers(q, r, n) ==
  \A i \in 1 .. n : r[i].panel = q[i].panel /\ r[i].callback = q[i].callback

(* Both depend on the first n handlers only.                               *)
LEMMA SameFirst ==
  ASSUME NEW q, NEW r, NEW n \in Nat, SameHandlers(q, r, n)
  PROVE  /\ \A p : WaitsIn(r, n, p) <=> WaitsIn(q, n, p)
         /\ \A p, callback : LastIn(r, n, p, callback) <=> LastIn(q, n, p, callback)
<1>1. \A i \in 1 .. n : i + 1 .. n \subseteq 1 .. n
  OBVIOUS
<1> QED BY <1>1 DEF WaitsIn, LastIn, SameHandlers

IsAppended(q, e, r) ==
  /\ r \in Seq(Completion) /\ Len(r) = Len(q) + 1
  /\ \A p : WaitsIn(r, Len(r), p) <=> WaitsIn(q, Len(q), p) \/ e.panel = p
  /\ \A p, callback : LastIn(r, Len(r), p, callback) <=>
                         IF e.panel = p THEN e.callback = callback
                         ELSE LastIn(q, Len(q), p, callback)

(* The handlers after one was appended.                                    *)
LEMMA OneAppended ==
  ASSUME NEW q \in Seq(Completion), NEW e \in Completion
  PROVE  IsAppended(q, e, Append(q, e))
<1> DEFINE r == Append(q, e)
<1>1. /\ r \in Seq(Completion) /\ Len(r) = Len(q) + 1 /\ r[Len(q) + 1] = e
      /\ Len(q) \in Nat /\ \A i \in 1 .. Len(q) : r[i] = q[i]
  BY AppendProperties
<1> HIDE DEF r
<1>2. \A p, callback :
        /\ WaitsIn(r, Len(q), p) <=> WaitsIn(q, Len(q), p)
        /\ LastIn(r, Len(q), p, callback) <=> LastIn(q, Len(q), p, callback)
  BY <1>1, SameFirst DEF SameHandlers
<1>3. \A p, callback :
        /\ WaitsIn(r, Len(q) + 1, p) <=> WaitsIn(r, Len(q), p) \/ r[Len(q) + 1].panel = p
        /\ LastIn(r, Len(q) + 1, p, callback) <=>
             IF r[Len(q) + 1].panel = p THEN r[Len(q) + 1].callback = callback
             ELSE LastIn(r, Len(q), p, callback)
  BY <1>1, OneMore
<1> QED BY <1>1, <1>2, <1>3 DEF r, IsAppended

-----------------------------------------------------------------------------
(* What the functions make of a group, field by field.                     *)
Others(s, r, p) == \A x \in Panels \ {p} : r.panels[x] = s.panels[x]

Completed(s, w, r) ==
  /\ r \in GroupStates /\ r.waiting = s.waiting /\ r.mistold = s.mistold
  /\ r.raced = s.raced /\ Others(s, r, w.panel)
  /\ r.panels[w.panel].class = IF w.callback = "shown" THEN "in" ELSE "collapse"
  /\ r.panels[w.panel].expanded = s.panels[w.panel].expanded
  /\ r.panels[w.panel].data = s.panels[w.panel].data
  /\ r.panels[w.panel].transitioning <=> s.panels[w.panel].transitioning /\ ~w.own

(* A group with one panel replaced.                                        *)
LEMMA PanelReplaced ==
  ASSUME NEW s \in GroupStates, NEW p \in Panels, NEW d \in Panel
  PROVE  LET r == [s EXCEPT !.panels[p] = d]
         IN  /\ r \in GroupStates /\ r.waiting = s.waiting /\ r.mistold = s.mistold
             /\ r.raced = s.raced /\ Others(s, r, p) /\ r.panels[p] = d
BY DEF GroupStates, Others

(* What complete makes of a panel, and that it leaves the others.          *)
LEMMA CompleteIs ==
  ASSUME NEW s \in GroupStates, NEW w \in Completion
  PROVE  Completed(s, w, Complete(s, w))
<1> DEFINE p == w.panel
           d == [s.panels[p] EXCEPT
                   !.class = IF w.callback = "shown" THEN "in" ELSE "collapse",
                   !.transitioning = s.panels[p].transitioning /\ ~w.own]
           r == [s EXCEPT !.panels[p] = d]
<1>1. p \in Panels /\ s.panels[p] \in Panel /\ w.own \in BOOLEAN
  BY DEF Completion, GroupStates
<1>2. /\ d \in Panel /\ d.class = IF w.callback = "shown" THEN "in" ELSE "collapse"
      /\ d.expanded = s.panels[p].expanded /\ d.data = s.panels[p].data
      /\ d.transitioning <=> s.panels[p].transitioning /\ ~w.own
  BY <1>1 DEF Panel
<1>3. Complete(s, w) = r
  BY DEF Complete
<1> HIDE DEF d, p
<1>4. /\ r \in GroupStates /\ r.waiting = s.waiting /\ r.mistold = s.mistold
      /\ r.raced = s.raced /\ Others(s, r, p) /\ r.panels[p] = d
  BY <1>1, <1>2, PanelReplaced
<1> HIDE DEF r
<1> QED BY <1>2, <1>3, <1>4 DEF Completed, p

Handler(p, name) == [panel |-> p, callback |-> name, own |-> TRUE]

Started(s, p, name, r) ==
  /\ r \in GroupStates /\ r.mistold = s.mistold \ {p} /\ r.raced = s.raced
  /\ Others(s, r, p)
  /\ r.panels[p].expanded <=> name = "shown"
  /\ r.panels[p].data = s.panels[p].data
  /\ r.panels[p].transitioning <=> transition
  /\ transition => /\ r.panels[p].class = "collapsing"
                   /\ r.waiting = Append(s.waiting, Handler(p, name))
  /\ ~transition => /\ r.panels[p].class = IF name = "shown" THEN "in" ELSE "collapse"
                    /\ r.waiting = s.waiting

(* A transition that starts makes its panel collapsing and waits, or       *)
(* completes at once.                                                      *)
LEMMA StartIs ==
  ASSUME NEW s \in GroupStates, NEW p \in Panels, NEW name \in {"shown", "hidden"}
  PROVE  Started(s, p, name, StartTransition(s, p, name))
<1> DEFINE d == [s.panels[p] EXCEPT !.class = "collapsing",
                                    !.expanded = (name = "shown"),
                                    !.transitioning = TRUE]
           t == [s EXCEPT !.panels[p] = d, !.mistold = @ \ {p}]
           w == Handler(p, name)
           r == StartTransition(s, p, name)
<1>1. w \in Completion /\ w.panel = p /\ w.callback = name /\ w.own
  BY DEF Completion, Handler
<1>2. /\ t \in GroupStates /\ t.mistold = s.mistold \ {p} /\ t.raced = s.raced
      /\ Others(s, t, p) /\ t.waiting = s.waiting
      /\ t.panels[p].expanded = (name = "shown")
      /\ t.panels[p].data = s.panels[p].data
      /\ t.panels[p].transitioning = TRUE
      /\ t.panels[p].class = "collapsing"
  <2>1. s.panels[p] \in Panel
    BY DEF GroupStates
  <2>2. /\ d \in Panel /\ d.class = "collapsing" /\ d.expanded = (name = "shown")
        /\ d.data = s.panels[p].data /\ d.transitioning = TRUE
    BY <2>1 DEF Panel
  <2> HIDE DEF d
  <2> QED BY <2>2 DEF GroupStates, Others
<1>3. r = IF transition THEN [t EXCEPT !.waiting = Append(@, w)] ELSE Complete(t, w)
  BY DEF StartTransition, Handler
<1> SUFFICES Started(s, p, name, r)
  OBVIOUS
<1> HIDE DEF t, w, r
<1>4. CASE transition
  <2> DEFINE q == Append(t.waiting, w)
  <2>1. q \in Seq(Completion)
    BY <1>1, <1>2 DEF GroupStates
  <2>2. r = [t EXCEPT !.waiting = q]
    BY <1>3, <1>4
  <2> HIDE DEF q
  <2>3. /\ r \in GroupStates /\ r.panels = t.panels /\ r.mistold = t.mistold
        /\ r.raced = t.raced /\ r.waiting = q
    BY <1>2, <2>1, <2>2 DEF GroupStates
  <2>4. /\ \A x \in Panels \ {p} : r.panels[x] = s.panels[x]
        /\ r.panels[p].class = "collapsing" /\ r.panels[p].transitioning = TRUE
        /\ r.panels[p].expanded = (name = "shown")
        /\ r.panels[p].data = s.panels[p].data
    BY <1>2, <2>3 DEF Others
  <2>5. r.waiting = Append(s.waiting, Handler(p, name))
    BY <1>2, <2>3 DEF q, w
  <2> QED BY <1>2, <1>4, <2>3, <2>4, <2>5 DEF Started, Others
<1>5. CASE ~transition
  <2>1. Completed(t, w, r)
    BY <1>1, <1>2, <1>3, <1>5, CompleteIs
  <2> QED BY <1>1, <1>2, <1>5, <2>1 DEF Started, Completed, Others
<1> QED BY <1>4, <1>5

(* r is s but for the data of panels and what was told of them.            *)
Known(s, r) ==
  /\ r \in GroupStates /\ r.waiting = s.waiting /\ r.raced = s.raced
  /\ \A x \in Panels : /\ r.panels[x].class = s.panels[x].class
                       /\ r.panels[x].transitioning = s.panels[x].transitioning

(* What addAriaAndCollapsedClass tells of the panels it reaches.           *)
LEMMA TellIs ==
  ASSUME NEW s \in GroupStates, NEW told \in SUBSET Panels
  PROVE  LET r == Tell(s, told)
         IN  /\ Known(s, r)
             /\ r.mistold = s.mistold \cup {p \in told : s.panels[p].class = "collapsing"}
             /\ \A x \in Panels :
                  /\ r.panels[x].data = s.panels[x].data
                  /\ r.panels[x].expanded <=> IF x \in told THEN s.panels[x].class = "in"
                                              ELSE s.panels[x].expanded
<1> DEFINE tell(p) == [s.panels[p] EXCEPT !.expanded = (s.panels[p].class = "in")]
           n == [p \in Panels |-> IF p \in told THEN tell(p) ELSE s.panels[p]]
           m == s.mistold \cup {p \in told : s.panels[p].class = "collapsing"}
           r == [s EXCEPT !.panels = n, !.mistold = m]
<1>1. \A p \in Panels : s.panels[p] \in Panel
  BY DEF GroupStates
<1>2. /\ n \in [Panels -> Panel]
      /\ \A x \in Panels :
           /\ n[x].class = s.panels[x].class
           /\ n[x].transitioning = s.panels[x].transitioning
           /\ n[x].data = s.panels[x].data
           /\ n[x].expanded <=> IF x \in told THEN s.panels[x].class = "in"
                                ELSE s.panels[x].expanded
  BY <1>1 DEF Panel
<1>3. m \in SUBSET Panels
  BY DEF GroupStates
<1>4. Tell(s, told) = r
  BY DEF Tell
<1> HIDE DEF n, m
<1>5. /\ r \in GroupStates /\ r.panels = n /\ r.mistold = m /\ r.waiting = s.waiting
      /\ r.raced = s.raced
  BY <1>2, <1>3 DEF GroupStates
<1> HIDE DEF r
<1>6. Known(s, r)
  BY <1>2, <1>5 DEF Known
<1>7. /\ r.mistold = s.mistold \cup {x \in told : s.panels[x].class = "collapsing"}
      /\ \A x \in Panels :
           /\ r.panels[x].data = s.panels[x].data
           /\ r.panels[x].expanded <=> IF x \in told THEN s.panels[x].class = "in"
                                       ELSE s.panels[x].expanded
  BY <1>2, <1>5 DEF m
<1> QED BY <1>4, <1>6, <1>7

DataIs(s, p, kind, t) ==
  /\ t \in GroupStates /\ t.waiting = s.waiting /\ t.raced = s.raced
  /\ t.mistold = s.mistold /\ t.panels[p].data = kind
  /\ \A x \in Panels : /\ t.panels[x].class = s.panels[x].class
                       /\ t.panels[x].expanded = s.panels[x].expanded
                       /\ t.panels[x].transitioning = s.panels[x].transitioning
  /\ \A x \in Panels \ {p} : t.panels[x].data = s.panels[x].data

(* Only the instance of a panel changes.                                   *)
LEMMA DataSet ==
  ASSUME NEW s \in GroupStates, NEW p \in Panels, NEW kind \in {"alone", "grouped"}
  PROVE  DataIs(s, p, kind, [s EXCEPT !.panels[p].data = kind])
<1> DEFINE d == [s.panels[p] EXCEPT !.data = kind]
           t == [s EXCEPT !.panels[p] = d]
<1>1. s.panels[p] \in Panel
  BY DEF GroupStates
<1>2. /\ d \in Panel /\ d.class = s.panels[p].class /\ d.data = kind
      /\ d.expanded = s.panels[p].expanded
      /\ d.transitioning = s.panels[p].transitioning
  BY <1>1 DEF Panel
<1>3. t = [s EXCEPT !.panels[p].data = kind]
  OBVIOUS
<1> HIDE DEF d
<1>4. /\ t \in GroupStates /\ t.waiting = s.waiting /\ t.mistold = s.mistold
      /\ t.raced = s.raced /\ Others(s, t, p) /\ t.panels[p] = d
  BY <1>2, PanelReplaced
<1> HIDE DEF t
<1>5. DataIs(s, p, kind, t)
  BY <1>2, <1>4 DEF DataIs, Others
<1> QED BY <1>3, <1>5

(* Making an instance tells of the panel, and of its group with a parent.  *)
LEMMA CreateIs ==
  ASSUME NEW s, PanelsHold(s), NEW p \in Panels, NEW kind \in {"alone", "grouped"}
  PROVE  LET r == Create(s, p, kind)
         IN  /\ Known(s, r) /\ PanelsHold(r) /\ r.panels[p].data = kind
             /\ \A x \in Panels \ {p} : r.panels[x].data = s.panels[x].data
<1> DEFINE t == [s EXCEPT !.panels[p].data = kind]
           told == IF kind = "grouped" THEN Panels ELSE {p}
           r == Tell(t, told)
<1>1. s \in GroupStates
  BY DEF PanelsHold
<1>2. DataIs(s, p, kind, t)
  BY <1>1, DataSet
<1>3. told \in SUBSET Panels
  OBVIOUS
<1>4. Create(s, p, kind) = r
  BY DEF Create
<1> HIDE DEF t, told
<1>5. /\ t \in GroupStates /\ Known(t, r)
      /\ r.mistold = t.mistold \cup {x \in told : t.panels[x].class = "collapsing"}
      /\ \A x \in Panels :
           /\ r.panels[x].data = t.panels[x].data
           /\ r.panels[x].expanded <=> IF x \in told THEN t.panels[x].class = "in"
                                       ELSE t.panels[x].expanded
  BY <1>2, <1>3, TellIs DEF DataIs
<1> HIDE DEF r
<1>6. Known(s, r)
  BY <1>2, <1>5 DEF Known, DataIs
<1>7. OnTheirWay(r) /\ ToldRight(r) /\ (~transition => r.waiting = <<>>)
  BY <1>2, <1>5, <1>6 DEF PanelsHold, OnTheirWay, ToldRight, Known, DataIs
<1> QED BY <1>2, <1>4, <1>5, <1>6, <1>7 DEF PanelsHold, Known, DataIs

(* A transition that starts keeps PanelsHold.                              *)
LEMMA StartHolds ==
  ASSUME transition \in BOOLEAN,
         NEW s, PanelsHold(s), NEW p \in Panels, NEW name \in {"shown", "hidden"}
  PROVE  PanelsHold(StartTransition(s, p, name))
<1> DEFINE r == StartTransition(s, p, name)
           w == Handler(p, name)
<1>1. s \in GroupStates /\ s.waiting \in Seq(Completion)
  BY DEF PanelsHold, GroupStates
<1>2. Started(s, p, name, r)
  BY <1>1, StartIs
<1>3. w \in Completion /\ w.panel = p /\ w.callback = name
  BY DEF Completion, Handler
<1> HIDE DEF r
<1>4. CASE transition
  <2>1. r.waiting = Append(s.waiting, w)
    BY <1>2, <1>4 DEF Started
  <2> HIDE DEF w
  <2>2. IsAppended(s.waiting, w, r.waiting)
    BY <1>1, <1>3, <2>1, OneAppended
  <2>3. OnTheirWay(r)
    BY <1>2, <1>3, <1>4, <2>2
       DEF PanelsHold, OnTheirWay, Started, Others, IsAppended
  <2>4. ToldRight(r)
    BY <1>2, <1>3, <1>4, <2>2
       DEF PanelsHold, ToldRight, Started, Others, IsAppended
  <2> QED BY <1>2, <1>4, <2>3, <2>4 DEF PanelsHold, Started, r
<1>5. CASE ~transition
  <2>1. r.waiting = <<>> /\ s.waiting = <<>>
    BY <1>2, <1>5 DEF Started, PanelsHold
  <2>2. \A x : ~WaitsIn(<<>>, Len(<<>>), x)
    BY NoMore
  <2> QED BY <1>2, <1>5, <2>1, <2>2
          DEF PanelsHold, OnTheirWay, ToldRight, Started, Others, r
<1> QED BY <1>4, <1>5

(* So does hide.                                                           *)
LEMMA HidePanelHolds ==
  ASSUME transition \in BOOLEAN, NEW s, PanelsHold(s), NEW p \in Panels
  PROVE  PanelsHold(HidePanel(s, p))
BY StartHolds DEF HidePanel

(* So does the hide that show calls for a panel that is open.              *)
LEMMA HideActiveHolds ==
  ASSUME transition \in BOOLEAN, NEW s, PanelsHold(s), NEW p \in Panels
  PROVE  PanelsHold(HideActive(s, p))
<1> DEFINE t == IF s.panels[p].data = "none" THEN Create(s, p, "alone") ELSE s
<1>1. PanelsHold(t)
  BY CreateIs
<1>2. HideActive(s, p) = s \/ HideActive(s, p) = HidePanel(t, p)
  BY DEF HideActive
<1> HIDE DEF t
<1> QED BY <1>1, <1>2, HidePanelHolds

(* A panel is forgotten: what waits for it goes on.                        *)
Forgotten(s, A, r) ==
  /\ r \in GroupStates /\ r.mistold = s.mistold /\ Len(r.waiting) = Len(s.waiting)
  /\ r.raced <=> s.raced \/ \E i \in 1 .. Len(s.waiting) :
                              s.waiting[i].panel \in A /\ s.waiting[i].callback = "shown"
  /\ \A i \in 1 .. Len(s.waiting) :
       /\ r.waiting[i].panel = s.waiting[i].panel
       /\ r.waiting[i].callback = s.waiting[i].callback
       /\ r.waiting[i].own <=> s.waiting[i].own /\ s.waiting[i].panel \notin A
  /\ \A x \in Panels :
       /\ r.panels[x].class = s.panels[x].class
       /\ r.panels[x].expanded = s.panels[x].expanded
       /\ r.panels[x].data = IF x \in A THEN "none" ELSE s.panels[x].data
       /\ r.panels[x].transitioning <=> s.panels[x].transitioning /\ x \notin A

(* removeData takes the instances of these panels away.                    *)
LEMMA ForgetIs ==
  ASSUME NEW s \in GroupStates, NEW A \in SUBSET Panels
  PROVE  Forgotten(s, A, Forget(s, A))
<1> DEFINE disown(w) == [w EXCEPT !.own = w.own /\ w.panel \notin A]
           forget(p) == [s.panels[p] EXCEPT !.data = "none", !.transitioning = FALSE]
           q == [i \in DOMAIN s.waiting |-> disown(s.waiting[i])]
           n == [p \in Panels |-> IF p \in A THEN forget(p) ELSE s.panels[p]]
           b == \E i \in DOMAIN s.waiting : s.waiting[i].panel \in A
                                            /\ s.waiting[i].callback = "shown"
           r == Forget(s, A)
<1>1. /\ s.waiting \in Seq(Completion) /\ Len(s.waiting) \in Nat
      /\ DOMAIN s.waiting = 1 .. Len(s.waiting)
      /\ \A i \in 1 .. Len(s.waiting) : s.waiting[i] \in Completion
  BY LenProperties DEF GroupStates
<1>2. /\ DOMAIN q = 1 .. Len(s.waiting)
      /\ \A i \in 1 .. Len(s.waiting) :
           /\ q[i] \in Completion /\ q[i].panel = s.waiting[i].panel
           /\ q[i].callback = s.waiting[i].callback
           /\ q[i].own <=> s.waiting[i].own /\ s.waiting[i].panel \notin A
  BY <1>1 DEF Completion
<1>3. q \in Seq(Completion) /\ Len(q) = Len(s.waiting)
  <2>1. q \in [1 .. Len(s.waiting) -> Completion]
    BY <1>1, <1>2
  <2> QED BY <1>1, <2>1, LenProperties
<1>4. /\ n \in [Panels -> Panel]
      /\ \A x \in Panels :
           /\ n[x].class = s.panels[x].class
           /\ n[x].expanded = s.panels[x].expanded
           /\ n[x].data = IF x \in A THEN "none" ELSE s.panels[x].data
           /\ n[x].transitioning <=> s.panels[x].transitioning /\ x \notin A
  <2>1. \A p \in Panels : s.panels[p] \in Panel
    BY DEF GroupStates
  <2> QED BY <2>1 DEF Panel
<1>5. r = [s EXCEPT !.panels = n, !.waiting = q, !.raced = @ \/ b]
  BY DEF Forget
<1>6. s.raced \/ b \in BOOLEAN
  BY DEF GroupStates
<1>7. b <=> \E i \in 1 .. Len(s.waiting) :
              s.waiting[i].panel \in A /\ s.waiting[i].callback = "shown"
  BY <1>1
<1> HIDE DEF q, n, b, r
<1>8. /\ r \in GroupStates /\ r.panels = n /\ r.waiting = q /\ r.mistold = s.mistold
      /\ r.raced <=> s.raced \/ b
  BY <1>3, <1>4, <1>5, <1>6 DEF GroupStates
<1> QED BY <1>2, <1>3, <1>4, <1>7, <1>8 DEF Forgotten, r

(* That keeps PanelsHold.                                                  *)
LEMMA ForgetHolds ==
  ASSUME NEW s, PanelsHold(s), NEW A \in SUBSET Panels
  PROVE  PanelsHold(Forget(s, A))
<1> DEFINE r == Forget(s, A)
<1>1. s \in GroupStates /\ s.waiting \in Seq(Completion) /\ Len(s.waiting) \in Nat
  BY DEF PanelsHold, GroupStates
<1>2. Forgotten(s, A, r)
  BY <1>1, ForgetIs
<1> HIDE DEF r
<1>3. \A x \in Panels :
        /\ WaitsIn(r.waiting, Len(r.waiting), x) <=> WaitsIn(s.waiting, Len(s.waiting), x)
        /\ LastIn(r.waiting, Len(r.waiting), x, "shown") <=>
             LastIn(s.waiting, Len(s.waiting), x, "shown")
  <2>1. SameHandlers(s.waiting, r.waiting, Len(s.waiting)) /\ Len(r.waiting) = Len(s.waiting)
    BY <1>2 DEF Forgotten, SameHandlers
  <2> QED BY <1>1, <2>1, SameFirst
<1>4. s.waiting = <<>> => r.waiting = <<>>
  <2>1. r.waiting \in Seq(Completion)
    BY <1>2 DEF Forgotten, GroupStates
  <2> QED BY <1>2, <2>1, EmptySeq DEF Forgotten
<1> QED BY <1>2, <1>3, <1>4 DEF PanelsHold, OnTheirWay, ToldRight, Forgotten, r

Given(s, p, kind) == [s EXCEPT !.panels[p].data = kind]

IsGiven(s, p, kind, r) ==
  /\ Known(s, r) /\ PanelsHold(r) /\ r.panels[p].data = kind
  /\ \A x \in Panels \ {p} : r.panels[x].data = s.panels[x].data

(* An instance that was made and not yet told of.                          *)
LEMMA GivenIs ==
  ASSUME NEW s, PanelsHold(s), NEW p \in Panels, NEW kind \in {"alone", "grouped"}
  PROVE  IsGiven(s, p, kind, Given(s, p, kind))
<1> DEFINE r == Given(s, p, kind)
<1>1. s \in GroupStates
  BY DEF PanelsHold
<1>2. DataIs(s, p, kind, r)
  BY <1>1, DataSet DEF Given
<1> HIDE DEF r
<1>3. OnTheirWay(r) /\ ToldRight(r) /\ (~transition => r.waiting = <<>>)
  BY <1>2 DEF PanelsHold, OnTheirWay, ToldRight, DataIs
<1> QED BY <1>2, <1>3 DEF PanelsHold, Known, IsGiven, DataIs, r

(* FoldRuns for the panels that show closes.                               *)
LEMMA HideActiveFolds ==
  ASSUME NEW V, NEW X, NEW q \in Seq(X), \A t \in V, x \in X : HideActive(t, x) \in V,
         NEW S \in [0 .. Len(q) -> SUBSET V], NEW s \in S[0],
         \A i \in 1 .. Len(q) : \A t \in S[i - 1] : HideActive(t, q[i]) \in S[i]
  PROVE  FoldLeft(HideActive, s, q) \in S[Len(q)]
<1> DEFINE f == [p \in V \X X |-> HideActive(p[1], p[2])]
           Folds(g) == g = [t \in SUBSET DOMAIN q |->
                              IF t = {} THEN s
                              ELSE HideActive(g[t \ {Max(t)}], q[Max(t)])]
           h == CHOOSE g : Folds(g)
<1>1. f \in [V \X X -> V] /\ \A t \in V, x \in X : f[<<t, x>>] = HideActive(t, x)
  OBVIOUS
<1>2. Len(q) \in Nat /\ DOMAIN q = 1 .. Len(q) /\ \A i \in 1 .. Len(q) : q[i] \in X
  BY LenProperties
<1>3. s \in V /\ \A i \in 1 .. Len(q) : i - 1 \in 0 .. Len(q) /\ S[i - 1] \subseteq V
  BY <1>2
<1> HIDE DEF f
<1>4. PICK g : IsFold(g, f, s, q, Len(q)) /\ \A t \in SUBSET (1 .. Len(q)) : g[t] \in V
  BY <1>1, <1>3, FoldExists
<1>5. \A t \in SUBSET (1 .. Len(q)) : t # {} => q[Max(t)] \in X
  BY <1>2, MaxOfIndices
<1>6. Folds(g)
  BY <1>1, <1>2, <1>4, <1>5 DEF IsFold
<1>7. Folds(h)
  <2> HIDE DEF Folds
  <2> QED BY <1>6
<1>8. \A t \in SUBSET (1 .. Len(q)) :
        h[t] = IF t = {} THEN s ELSE HideActive(h[t \ {Max(t)}], q[Max(t)])
  BY <1>2, <1>7
<1>9. FoldLeft(HideActive, s, q) = h[1 .. Len(q)]
  BY <1>2 DEF FoldLeft, MapThenFoldSet
<1> HIDE DEF h, Folds
<1>10. FoldsIn(h, f, V, s, q)
  BY <1>1, <1>5, <1>8 DEF FoldsIn
<1>11. Leads(f, S, q)
  BY <1>1, <1>2, <1>3 DEF Leads
<1> QED BY <1>1, <1>9, <1>10, <1>11, FoldRuns

(* The panels in the order of the document are a sequence.                 *)
LEMMA InOrderIs ==
  InOrder \in Seq(Panels) /\ Len(InOrder) = PanelCount /\ PanelCount \in Nat
BY PanelsAssumption DEF InOrder, Panels

(* Closing all that are open keeps PanelsHold.                             *)
LEMMA HideActivesHolds ==
  ASSUME transition \in BOOLEAN, NEW s, PanelsHold(s), NEW kind
  PROVE  PanelsHold(HideActives(s, kind))
<1>1. CASE kind # "grouped"
  BY <1>1 DEF HideActives
<1>2. CASE kind = "grouped"
  <2> DEFINE q == InOrder
             V == {t \in GroupStates : PanelsHold(t)}
             S == [i \in 0 .. Len(q) |-> V]
  <2>1. q \in Seq(Panels) /\ Len(q) \in Nat
    BY InOrderIs
  <2>2. \A t \in V, p \in Panels : HideActive(t, p) \in V
    BY HideActiveHolds DEF PanelsHold
  <2>3. s \in S[0]
    BY <2>1 DEF PanelsHold
  <2> HIDE DEF q, V
  <2>4. S \in [0 .. Len(q) -> SUBSET V]
    OBVIOUS
  <2>5. \A i \in 1 .. Len(q) : \A t \in S[i - 1] : HideActive(t, q[i]) \in S[i]
    <3> SUFFICES ASSUME NEW i \in 1 .. Len(q), NEW t \in S[i - 1]
                 PROVE  HideActive(t, q[i]) \in S[i]
      OBVIOUS
    <3>1. i - 1 \in 0 .. Len(q) /\ i \in 0 .. Len(q) /\ q[i] \in Panels
      BY <2>1
    <3>2. t \in V
      BY <3>1
    <3> QED BY <2>2, <3>1, <3>2
  <2>6. FoldLeft(HideActive, s, q) \in S[Len(q)]
    <3> HIDE DEF S
    <3> QED BY <2>1, <2>2, <2>3, <2>4, <2>5, HideActiveFolds
  <2>7. FoldLeft(HideActive, s, q) \in V
    BY <2>1, <2>6
  <2> QED BY <1>2, <2>7 DEF HideActives, V, q
<1> QED BY <1>1, <1>2

(* So does show.                                                           *)
LEMMA ShowPanelHolds ==
  ASSUME transition \in BOOLEAN, NEW s, PanelsHold(s), NEW p \in Panels,
         NEW kind \in {"alone", "grouped"}, NEW fresh \in BOOLEAN
  PROVE  PanelsHold(ShowPanel(s, p, kind, fresh))
<1> DEFINE A == Actives(s, kind)
           h == HideActives(s, kind)
           r == ShowPanel(s, p, kind, fresh)
<1>1. A \in SUBSET Panels
  BY DEF Actives
<1>2. PanelsHold(h) /\ PanelsHold(Forget(h, A))
  BY <1>1, HideActivesHolds, ForgetHolds
<1>3. \/ r = s \/ r = StartTransition(s, p, "shown")
      \/ r = StartTransition(Given(h, p, kind), p, "shown")
      \/ r = StartTransition(Given(Forget(h, A), p, kind), p, "shown")
  BY DEF ShowPanel, Given
<1> HIDE DEF A, h, r
<1>4. PanelsHold(Given(h, p, kind)) /\ PanelsHold(Given(Forget(h, A), p, kind))
  BY <1>2, GivenIs DEF IsGiven
<1>5. PanelsHold(r)
  BY <1>2, <1>3, <1>4, StartHolds
<1> QED BY <1>5 DEF r

(* So does a click, whatever it finds.                                     *)
LEMMA ClickHolds ==
  ASSUME parent \in BOOLEAN, transition \in BOOLEAN, PanelsHold(group),
         NEW p \in Panels, Click(p)
  PROVE  PanelsHold(group')
<1> DEFINE known == group.panels[p].data # "none"
           s == IF known THEN group ELSE Create(group, p, Kind)
<1>1. Kind \in {"alone", "grouped"}
  BY DEF Kind
<1>2. PanelsHold(s) /\ s.panels[p].data # "none"
  BY <1>1, CreateIs
<1>3. group' = IF s.panels[p].class = "in" THEN HidePanel(s, p)
               ELSE ShowPanel(s, p, s.panels[p].data, ~known)
  BY DEF Click
<1> HIDE DEF s
<1>4. s.panels[p].data \in {"alone", "grouped"}
  BY <1>2 DEF PanelsHold, GroupStates, Panel
<1>5. PanelsHold(HidePanel(s, p)) /\ PanelsHold(ShowPanel(s, p, s.panels[p].data, ~known))
  BY <1>2, <1>4, HidePanelHolds, ShowPanelHolds
<1> QED BY <1>3, <1>5

(* FoldRuns for the end of a transition.                                   *)
LEMMA EndsAtFolds ==
  ASSUME NEW V, NEW X, NEW q \in Seq(X), \A t \in V, x \in X : EndsAt(t, x) \in V,
         NEW S \in [0 .. Len(q) -> SUBSET V], NEW s \in S[0],
         \A i \in 1 .. Len(q) : \A t \in S[i - 1] : EndsAt(t, q[i]) \in S[i]
  PROVE  FoldLeft(EndsAt, s, q) \in S[Len(q)]
<1> DEFINE f == [p \in V \X X |-> EndsAt(p[1], p[2])]
           Folds(g) == g = [t \in SUBSET DOMAIN q |->
                              IF t = {} THEN s
                              ELSE EndsAt(g[t \ {Max(t)}], q[Max(t)])]
           h == CHOOSE g : Folds(g)
<1>1. f \in [V \X X -> V] /\ \A t \in V, x \in X : f[<<t, x>>] = EndsAt(t, x)
  OBVIOUS
<1>2. Len(q) \in Nat /\ DOMAIN q = 1 .. Len(q) /\ \A i \in 1 .. Len(q) : q[i] \in X
  BY LenProperties
<1>3. s \in V /\ \A i \in 1 .. Len(q) : i - 1 \in 0 .. Len(q) /\ S[i - 1] \subseteq V
  BY <1>2
<1> HIDE DEF f
<1>4. PICK g : IsFold(g, f, s, q, Len(q)) /\ \A t \in SUBSET (1 .. Len(q)) : g[t] \in V
  BY <1>1, <1>3, FoldExists
<1>5. \A t \in SUBSET (1 .. Len(q)) : t # {} => q[Max(t)] \in X
  BY <1>2, MaxOfIndices
<1>6. Folds(g)
  BY <1>1, <1>2, <1>4, <1>5 DEF IsFold
<1>7. Folds(h)
  <2> HIDE DEF Folds
  <2> QED BY <1>6
<1>8. \A t \in SUBSET (1 .. Len(q)) :
        h[t] = IF t = {} THEN s ELSE EndsAt(h[t \ {Max(t)}], q[Max(t)])
  BY <1>2, <1>7
<1>9. FoldLeft(EndsAt, s, q) = h[1 .. Len(q)]
  BY <1>2 DEF FoldLeft, MapThenFoldSet
<1> HIDE DEF h, Folds
<1>10. FoldsIn(h, f, V, s, q)
  BY <1>1, <1>5, <1>8 DEF FoldsIn
<1>11. Leads(f, S, q)
  BY <1>1, <1>2, <1>3 DEF Leads
<1> QED BY <1>1, <1>9, <1>10, <1>11, FoldRuns

(* The group when the first k of its handlers have run or were put back.   *)
AfterEnds(k, s) ==
  LET h == Head(group.waiting).panel
  IN  /\ s \in GroupStates /\ s.mistold = group.mistold /\ s.raced = group.raced
      /\ Others(group, s, h)
      /\ \A x \in Panels \ {h} :
           /\ WaitsIn(s.waiting, Len(s.waiting), x) <=> WaitsIn(group.waiting, k, x)
           /\ LastIn(s.waiting, Len(s.waiting), x, "shown") <=>
                LastIn(group.waiting, k, x, "shown")
      /\ ~WaitsIn(s.waiting, Len(s.waiting), h)
      /\ s.panels[h].expanded = group.panels[h].expanded
      /\ WaitsIn(group.waiting, k, h) =>
           s.panels[h].class = IF LastIn(group.waiting, k, h, "shown") THEN "in"
                               ELSE "collapse"

PutBack(s, w, r) == /\ r \in GroupStates /\ r.panels = s.panels /\ r.mistold = s.mistold
                    /\ r.raced = s.raced /\ r.waiting = Append(s.waiting, w)

(* At the end of a transition a handler is put back if it is another       *)
(* panel's, and run if it is this one's.                                   *)
LEMMA EndsAtIs ==
  ASSUME NEW s \in GroupStates, NEW w \in Completion
  PROVE  /\ w.panel # Head(group.waiting).panel => PutBack(s, w, EndsAt(s, w))
         /\ w.panel = Head(group.waiting).panel => Completed(s, w, EndsAt(s, w))
<1> DEFINE q == Append(s.waiting, w)
<1>1. CASE w.panel # Head(group.waiting).panel
  <2>1. q \in Seq(Completion)
    BY DEF GroupStates
  <2>2. EndsAt(s, w) = [s EXCEPT !.waiting = q]
    BY <1>1 DEF EndsAt
  <2> HIDE DEF q
  <2>3. PutBack(s, w, EndsAt(s, w))
    <3> DEFINE r == [s EXCEPT !.waiting = q]
    <3>1. /\ r \in GroupStates /\ r.panels = s.panels /\ r.mistold = s.mistold
          /\ r.raced = s.raced /\ r.waiting = q
      BY <2>1 DEF GroupStates
    <3> QED BY <2>2, <3>1 DEF PutBack, q
  <2> QED BY <1>1, <2>3
<1>2. CASE w.panel = Head(group.waiting).panel
  BY <1>2, CompleteIs DEF EndsAt
<1> QED BY <1>1, <1>2

(* What holds after the first k - 1 handlers holds after the k-th.         *)
LEMMA AfterOneMore ==
  ASSUME PanelsHold(group), NEW k \in 1 .. Len(group.waiting),
         NEW s, AfterEnds(k - 1, s)
  PROVE  AfterEnds(k, EndsAt(s, group.waiting[k]))
<1> DEFINE w == group.waiting
           h == Head(w).panel
           e == w[k]
           r == EndsAt(s, e)
<1>1. w \in Seq(Completion) /\ Len(w) \in Nat /\ k - 1 \in Nat /\ (k - 1) + 1 = k
  BY DEF PanelsHold, GroupStates
<1>2. e \in Completion /\ s \in GroupStates /\ s.waiting \in Seq(Completion)
  BY <1>1 DEF AfterEnds, GroupStates
<1>3. h \in Panels
  <2>1. Len(w) > 0
    BY <1>1
  <2>2. Head(w) \in Completion
    BY <1>1, <2>1
  <2> QED BY <2>2 DEF Completion
<1>4. e.callback \in {"shown", "hidden"}
  BY <1>2 DEF Completion
<1>5. \A x, callback :
        /\ WaitsIn(w, k, x) <=> WaitsIn(w, k - 1, x) \/ e.panel = x
        /\ LastIn(w, k, x, callback) <=>
             IF e.panel = x THEN e.callback = callback ELSE LastIn(w, k - 1, x, callback)
  <2> DEFINE n == k - 1
  <2>1. n \in Nat /\ n + 1 = k
    BY <1>1
  <2> HIDE DEF n, w
  <2>2. \A x, callback :
          /\ WaitsIn(w, n + 1, x) <=> WaitsIn(w, n, x) \/ w[n + 1].panel = x
          /\ LastIn(w, n + 1, x, callback) <=>
               IF w[n + 1].panel = x THEN w[n + 1].callback = callback
               ELSE LastIn(w, n, x, callback)
    BY <2>1, OneMore
  <2> QED BY <2>1, <2>2 DEF n
<1> HIDE DEF w, e, h, r
<1>6. /\ s.mistold = group.mistold /\ s.raced = group.raced /\ Others(group, s, h)
      /\ \A x \in Panels \ {h} :
           /\ WaitsIn(s.waiting, Len(s.waiting), x) <=> WaitsIn(w, k - 1, x)
           /\ LastIn(s.waiting, Len(s.waiting), x, "shown") <=> LastIn(w, k - 1, x, "shown")
      /\ ~WaitsIn(s.waiting, Len(s.waiting), h)
      /\ s.panels[h].expanded = group.panels[h].expanded
      /\ WaitsIn(w, k - 1, h) =>
           s.panels[h].class = IF LastIn(w, k - 1, h, "shown") THEN "in" ELSE "collapse"
  BY DEF AfterEnds, w, h
<1>7. CASE e.panel # h
  <2>1. PutBack(s, e, r)
    BY <1>2, <1>7, EndsAtIs DEF r, w, h, e
  <2>2. IsAppended(s.waiting, e, r.waiting)
    BY <1>2, <2>1, OneAppended DEF PutBack
  <2>3. \A x \in Panels \ {h} :
           /\ WaitsIn(r.waiting, Len(r.waiting), x) <=> WaitsIn(w, k, x)
           /\ LastIn(r.waiting, Len(r.waiting), x, "shown") <=> LastIn(w, k, x, "shown")
    BY <1>5, <1>6, <2>2 DEF IsAppended
  <2>4. ~WaitsIn(r.waiting, Len(r.waiting), h)
    BY <1>6, <1>7, <2>2 DEF IsAppended
  <2>5. WaitsIn(w, k, h) =>
           r.panels[h].class = IF LastIn(w, k, h, "shown") THEN "in" ELSE "collapse"
    BY <1>5, <1>6, <1>7, <2>1 DEF PutBack
  <2> QED BY <1>6, <2>1, <2>3, <2>4, <2>5 DEF PutBack, AfterEnds, Others, r, w, h, e
<1>8. CASE e.panel = h
  <2>1. Completed(s, e, r)
    BY <1>2, <1>8, EndsAtIs DEF r, w, h, e
  <2>2. \A x \in Panels \ {h} :
           /\ WaitsIn(r.waiting, Len(r.waiting), x) <=> WaitsIn(w, k, x)
           /\ LastIn(r.waiting, Len(r.waiting), x, "shown") <=> LastIn(w, k, x, "shown")
    BY <1>5, <1>6, <1>8, <2>1 DEF Completed
  <2>3. ~WaitsIn(r.waiting, Len(r.waiting), h)
    BY <1>6, <2>1 DEF Completed
  <2>4. r.panels[h].class = IF LastIn(w, k, h, "shown") THEN "in" ELSE "collapse"
    BY <1>5, <1>8, <2>1 DEF Completed
  <2>5. Others(group, r, h) /\ r.panels[h].expanded = group.panels[h].expanded
    BY <1>6, <1>8, <2>1 DEF Completed, Others
  <2>6. r \in GroupStates /\ r.mistold = group.mistold /\ r.raced = group.raced
    BY <1>6, <2>1 DEF Completed
  <2> QED BY <2>2, <2>3, <2>4, <2>5, <2>6 DEF AfterEnds, r, w, h, e
<1> QED BY <1>7, <1>8

(* The end of a transition keeps PanelsHold.                               *)
LEMMA PanelEndHolds ==
  ASSUME transition \in BOOLEAN, PanelsHold(group), CollapseEnd
  PROVE  PanelsHold(group')
<1> DEFINE w == group.waiting
           h == Head(w).panel
           s == [group EXCEPT !.waiting = <<>>]
           V == GroupStates
           S == [k \in 0 .. Len(w) |-> {t \in V : AfterEnds(k, t)}]
<1>1. group \in GroupStates /\ w \in Seq(Completion) /\ Len(w) \in Nat /\ w # <<>>
      /\ <<>> \in Seq(Completion)
  BY DEF PanelsHold, GroupStates, CollapseEnd
<1>2. Len(w) \in 1 .. Len(w) /\ w[1] \in Completion /\ Head(w) = w[1]
  BY <1>1, EmptySeq
<1>3. h \in Panels /\ h = w[1].panel
  BY <1>2 DEF Completion
<1>4. group' = FoldLeft(EndsAt, s, w) /\ transition
  BY <1>1 DEF CollapseEnd, PanelsHold
<1>5. /\ s \in GroupStates /\ s.panels = group.panels /\ s.waiting = <<>>
      /\ s.mistold = group.mistold /\ s.raced = group.raced
  BY <1>1 DEF GroupStates
<1> HIDE DEF s
<1>6. AfterEnds(0, s)
  <2>1. Len(<<>>) = 0
    OBVIOUS
  <2>2. \A x, callback : /\ ~WaitsIn(<<>>, Len(<<>>), x) /\ ~WaitsIn(w, 0, x)
                         /\ ~LastIn(<<>>, Len(<<>>), x, callback)
                         /\ ~LastIn(w, 0, x, callback)
    BY <2>1, NoMore
  <2> QED BY <1>5, <2>2 DEF AfterEnds, Others
<1>7. s \in S[0] /\ S \in [0 .. Len(w) -> SUBSET V]
  BY <1>1, <1>5, <1>6
<1>8. \A t \in V, x \in Completion : EndsAt(t, x) \in V
  BY EndsAtIs DEF PutBack, Completed
<1>9. \A k \in 1 .. Len(w) : \A t \in S[k - 1] : EndsAt(t, w[k]) \in S[k]
  <2> SUFFICES ASSUME NEW k \in 1 .. Len(w), NEW t \in S[k - 1]
               PROVE  EndsAt(t, w[k]) \in S[k]
    OBVIOUS
  <2>1. k \in 0 .. Len(w) /\ k - 1 \in 0 .. Len(w) /\ w[k] \in Completion
    BY <1>1
  <2>2. t \in V /\ AfterEnds(k - 1, t)
    BY <2>1
  <2>3. AfterEnds(k, EndsAt(t, w[k]))
    BY <2>2, AfterOneMore
  <2> QED BY <1>8, <2>1, <2>2, <2>3
<1>10. FoldLeft(EndsAt, s, w) \in S[Len(w)]
  <2> HIDE DEF S, V, w
  <2> QED BY <1>1, <1>7, <1>8, <1>9, EndsAtFolds
<1>11. AfterEnds(Len(w), group')
  BY <1>1, <1>4, <1>10
<1>12. WaitsIn(w, Len(w), h)
  BY <1>2, <1>3, <1>1 DEF WaitsIn
<1>13. group.panels[h].class = "collapsing"
  BY <1>3, <1>12 DEF PanelsHold, OnTheirWay
<1> HIDE DEF w, h
<1>14. /\ group'.mistold = group.mistold /\ Others(group, group', h)
       /\ \A x \in Panels \ {h} :
            /\ WaitsIn(group'.waiting, Len(group'.waiting), x) <=> WaitsIn(w, Len(w), x)
            /\ LastIn(group'.waiting, Len(group'.waiting), x, "shown") <=>
                 LastIn(w, Len(w), x, "shown")
       /\ ~WaitsIn(group'.waiting, Len(group'.waiting), h)
       /\ group'.panels[h].expanded = group.panels[h].expanded
       /\ group'.panels[h].class = IF LastIn(w, Len(w), h, "shown") THEN "in" ELSE "collapse"
  BY <1>11, <1>12 DEF AfterEnds, w, h
<1>15. OnTheirWay(group')
  BY <1>3, <1>14 DEF PanelsHold, OnTheirWay, Others, w
<1>16. ToldRight(group')
  BY <1>3, <1>13, <1>14 DEF PanelsHold, ToldRight, Others, w
<1> QED BY <1>4, <1>11, <1>15, <1>16 DEF PanelsHold, AfterEnds

-----------------------------------------------------------------------------
(* A group of which no panel lost its instance while it was opening.       *)
Orphan(s, p) == s.panels[p].class = "collapsing" /\ ~s.panels[p].transitioning

(* The handlers that wait are one for each panel, and its instance's own   *)
(* unless that was forgotten.                                              *)
Linked(s) ==
  /\ \A p \in Panels : s.panels[p].transitioning =>
       s.panels[p].class = "collapsing" /\ s.panels[p].data # "none"
  /\ \A i \in 1 .. Len(s.waiting) :
       s.waiting[i].own <=> s.panels[s.waiting[i].panel].transitioning
  /\ \A i, j \in 1 .. Len(s.waiting) :
       s.waiting[i].panel = s.waiting[j].panel => i = j

NoneOpens(s) == \A i \in 1 .. Len(s.waiting) : s.waiting[i].callback # "shown"
NoneIn(s) == \A p \in Panels : s.panels[p].class # "in"
NoneLost(s) == \A p \in Panels : ~Orphan(s, p)

(* No panel is opening, and at most one is open ...                        *)
Ready(s) ==
  /\ Linked(s) /\ NoneOpens(s) /\ NoneLost(s)
  /\ \A p, q \in Panels :
       s.panels[p].class = "in" /\ s.panels[q].class = "in" => p = q

(* ... or none is open and one is opening, which began last.  If others    *)
(* were forgotten when it began, they all were, and one of them that got   *)
(* an instance again is not the first that is on its way.                  *)
Opens(s, q) ==
  /\ Linked(s) /\ NoneIn(s)
  /\ s.waiting # <<>> /\ q = s.waiting[Len(s.waiting)].panel
  /\ s.waiting[Len(s.waiting)].callback = "shown"
  /\ \A i \in 1 .. Len(s.waiting) : s.waiting[i].callback = "shown" => i = Len(s.waiting)
  /\ s.panels[q].transitioning
  /\ \/ NoneLost(s)
     \/ \A p \in Panels \ {q} : s.panels[p].class = "collapsing" => Orphan(s, p)
  /\ \A p, a \in Panels :
       (Orphan(s, p) /\ s.panels[p].data # "none" /\ s.panels[a].class # "collapse")
         => q <= a

Opening(s) == Opens(s, s.waiting[Len(s.waiting)].panel)

NoneAlone(s) == \A p \in Panels : s.panels[p].data # "alone"

GroupHolds(s) == NoneAlone(s) /\ (Ready(s) \/ Opening(s))

PanelsInv ==
  /\ parent \in BOOLEAN /\ transition \in BOOLEAN /\ PanelsHold(group)
  /\ parent /\ ~group.raced => GroupHolds(group)

-----------------------------------------------------------------------------
(* Every handler is of a panel on its way, and every panel on its way has  *)
(* one.                                                                    *)
LEMMA WhoWaits ==
  ASSUME NEW s, PanelsHold(s)
  PROVE  /\ s.waiting \in Seq(Completion) /\ Len(s.waiting) \in Nat
         /\ \A i \in 1 .. Len(s.waiting) :
              /\ s.waiting[i] \in Completion /\ s.waiting[i].panel \in Panels
              /\ s.panels[s.waiting[i].panel].class = "collapsing"
         /\ \A p \in Panels : s.panels[p].class = "collapsing" =>
              \E i \in 1 .. Len(s.waiting) : s.waiting[i].panel = p
<1>1. s.waiting \in Seq(Completion) /\ Len(s.waiting) \in Nat
  BY DEF PanelsHold, GroupStates
<1>2. \A i \in 1 .. Len(s.waiting) :
        s.waiting[i] \in Completion /\ s.waiting[i].panel \in Panels
  <2>1. \A i \in 1 .. Len(s.waiting) : s.waiting[i] \in Completion
    BY <1>1
  <2> QED BY <2>1 DEF Completion
<1> QED BY <1>1, <1>2 DEF PanelsHold, OnTheirWay, WaitsIn

(* The handlers after a transition started.                                *)
LEMMA AppendIs ==
  ASSUME NEW s, PanelsHold(s), transition, NEW p \in Panels, NEW name, NEW r,
         Started(s, p, name, r)
  PROVE  /\ Len(s.waiting) \in Nat /\ Len(r.waiting) = Len(s.waiting) + 1
         /\ \A i \in 1 .. Len(s.waiting) : r.waiting[i] = s.waiting[i]
         /\ r.waiting[Len(s.waiting) + 1].panel = p
         /\ r.waiting[Len(s.waiting) + 1].callback = name
         /\ r.waiting[Len(s.waiting) + 1].own
<1> DEFINE e == Handler(p, name)
           T == Completion \cup {e}
<1>1. s.waiting \in Seq(T) /\ Len(s.waiting) \in Nat
  BY WhoWaits
<1>2. e.panel = p /\ e.callback = name /\ e.own /\ e \in T
  BY DEF Handler
<1>3. r.waiting = Append(s.waiting, e)
  BY DEF Started
<1> HIDE DEF e, T
<1> QED BY <1>1, <1>2, <1>3, AppendProperties

(* The indices of one handler more.                                        *)
LEMMA OneMoreIndex ==
  ASSUME NEW n \in Nat, NEW i \in 1 .. n + 1
  PROVE  i \in 1 .. n \/ i = n + 1
OBVIOUS

(* Who starts a transition of a panel with an instance keeps Linked.       *)
LEMMA StartLinked ==
  ASSUME transition, NEW s, PanelsHold(s), Linked(s), NEW p \in Panels, NEW name, NEW r,
         s.panels[p].class # "collapsing", s.panels[p].data # "none",
         Started(s, p, name, r)
  PROVE  Linked(r)
<1> DEFINE n == Len(s.waiting)
<1>1. \A i \in 1 .. n : s.waiting[i].panel \in Panels /\ s.waiting[i].panel # p
  BY WhoWaits
<1>2. \A x \in Panels : r.panels[x].transitioning =>
        r.panels[x].class = "collapsing" /\ r.panels[x].data # "none"
  BY DEF Started, Others, Linked
<1>3. /\ n \in Nat /\ Len(r.waiting) = n + 1
      /\ \A i \in 1 .. n : r.waiting[i] = s.waiting[i]
      /\ r.waiting[n + 1].panel = p /\ r.waiting[n + 1].own
  BY AppendIs
<1>4. /\ \A i \in 1 .. n : s.waiting[i].own <=> s.panels[s.waiting[i].panel].transitioning
      /\ \A i, j \in 1 .. n : s.waiting[i].panel = s.waiting[j].panel => i = j
  BY DEF Linked
<1>5. r.panels[p].transitioning /\ \A x \in Panels \ {p} : r.panels[x] = s.panels[x]
  BY DEF Started, Others
<1> HIDE DEF n
<1>6. ASSUME NEW i \in 1 .. n + 1
      PROVE  r.waiting[i].own <=> r.panels[r.waiting[i].panel].transitioning
  <2>1. CASE i \in 1 .. n
    BY <1>1, <1>3, <1>4, <1>5, <2>1, SMTT(30)
  <2>2. CASE i = n + 1
    BY <1>3, <1>5, <2>2
  <2> QED BY <1>3, <2>1, <2>2, OneMoreIndex
<1>7. ASSUME NEW i \in 1 .. n + 1, NEW j \in 1 .. n + 1,
             r.waiting[i].panel = r.waiting[j].panel
      PROVE  i = j
  <2>1. CASE i \in 1 .. n /\ j \in 1 .. n
    BY <1>3, <1>4, <1>7, <2>1
  <2>2. CASE i = n + 1 /\ j \in 1 .. n
    BY <1>1, <1>3, <1>7, <2>2
  <2>3. CASE j = n + 1 /\ i \in 1 .. n
    BY <1>1, <1>3, <1>7, <2>3
  <2> QED BY <1>3, <2>1, <2>2, <2>3, OneMoreIndex
<1> QED BY <1>2, <1>3, <1>6, <1>7 DEF Linked

(* Hiding the open panel leaves a group where none is open and none opens. *)
LEMMA StartHidden ==
  ASSUME transition \in BOOLEAN, NEW s, PanelsHold(s), Ready(s), NEW p \in Panels,
         s.panels[p].class = "in", s.panels[p].data # "none"
  PROVE  LET r == StartTransition(s, p, "hidden")
         IN  /\ Ready(r) /\ NoneIn(r) /\ r.raced = s.raced
             /\ \A x \in Panels : r.panels[x].data = s.panels[x].data
             /\ \A x \in Panels \ {p} : r.panels[x] = s.panels[x]
             /\ r.panels[p].class \in {"collapsing", "collapse"}
             /\ r.panels[p].class = "collapsing" => r.panels[p].transitioning
<1> DEFINE r == StartTransition(s, p, "hidden")
           n == Len(s.waiting)
<1>1. Started(s, p, "hidden", r)
  BY StartIs DEF PanelsHold
<1> HIDE DEF r
<1>2. \A i \in 1 .. n : s.waiting[i].panel \in Panels /\ s.waiting[i].panel # p
  BY WhoWaits
<1>3. NoneIn(r) /\ \A x \in Panels : r.panels[x].data = s.panels[x].data
  BY <1>1 DEF Started, Others, Ready, NoneIn
<1>4. NoneLost(r)
  BY <1>1 DEF Started, Others, Ready, NoneLost, Orphan
<1>5. \A x \in Panels : r.panels[x].transitioning =>
        r.panels[x].class = "collapsing" /\ r.panels[x].data # "none"
  BY <1>1 DEF Started, Others, Ready, Linked
<1>6. CASE transition
  <2>1. /\ n \in Nat /\ Len(r.waiting) = n + 1
        /\ \A i \in 1 .. n : r.waiting[i] = s.waiting[i]
        /\ r.waiting[n + 1].panel = p /\ r.waiting[n + 1].callback = "hidden"
        /\ r.waiting[n + 1].own
    BY <1>1, <1>6, AppendIs
  <2> HIDE DEF n
  <2>2. \A i \in 1 .. n + 1 : i \in 1 .. n \/ i = n + 1
    BY <2>1, OneMoreIndex
  <2>3. NoneOpens(r)
    BY <2>1, <2>2 DEF Ready, NoneOpens, n
  <2>4. Linked(r)
    BY <1>1, <1>6, StartLinked DEF Ready
  <2> QED BY <1>1, <1>3, <1>4, <1>6, <2>3, <2>4 DEF Ready, NoneIn, Started, Others, r
<1>7. CASE ~transition
  <2>1. r.waiting = <<>> /\ Len(<<>>) = 0
    BY <1>1, <1>7 DEF Started, PanelsHold
  <2>2. Linked(r) /\ NoneOpens(r)
    BY <1>5, <2>1 DEF Linked, NoneOpens
  <2> QED BY <1>1, <1>3, <1>4, <1>7, <2>2 DEF Ready, NoneIn, Started, Others, r
<1> QED BY <1>6, <1>7

(* Showing one then leaves a group where it is the only one that opens.    *)
LEMMA StartShown ==
  ASSUME transition \in BOOLEAN, NEW s, PanelsHold(s), Linked(s), NoneOpens(s),
         NoneIn(s), NEW p \in Panels, s.panels[p].class = "collapse",
         s.panels[p].data # "none",
         \/ NoneLost(s)
         \/ \A x \in Panels : s.panels[x].class = "collapsing" =>
              Orphan(s, x) /\ s.panels[x].data = "none"
  PROVE  LET r == StartTransition(s, p, "shown")
         IN  /\ Ready(r) \/ Opening(r)
             /\ r.raced = s.raced
             /\ \A x \in Panels : r.panels[x].data = s.panels[x].data
<1> DEFINE r == StartTransition(s, p, "shown")
           n == Len(s.waiting)
<1>1. Started(s, p, "shown", r)
  BY StartIs DEF PanelsHold
<1> HIDE DEF r
<1>2. \A i \in 1 .. n : s.waiting[i].panel \in Panels /\ s.waiting[i].panel # p
  BY WhoWaits
<1>3. \A x \in Panels : r.panels[x].data = s.panels[x].data
  BY <1>1 DEF Started, Others
<1>4. ~s.panels[p].transitioning
  BY DEF Linked
<1>5. \A x \in Panels : r.panels[x].transitioning =>
        r.panels[x].class = "collapsing" /\ r.panels[x].data # "none"
  BY <1>1 DEF Started, Others, Linked
<1>6. CASE transition
  <2>1. /\ n \in Nat /\ Len(r.waiting) = n + 1
        /\ \A i \in 1 .. n : r.waiting[i] = s.waiting[i]
        /\ r.waiting[n + 1].panel = p /\ r.waiting[n + 1].callback = "shown"
        /\ r.waiting[n + 1].own
    BY <1>1, <1>6, AppendIs
  <2> HIDE DEF n
  <2>2. \A i \in 1 .. n + 1 : i \in 1 .. n \/ i = n + 1
    BY <2>1, OneMoreIndex
  <2>3. \A i \in 1 .. n + 1 : r.waiting[i].callback = "shown" => i = n + 1
    BY <2>1, <2>2 DEF NoneOpens, n
  <2>6. Linked(r)
    BY <1>1, <1>6, StartLinked
  <2>7. /\ NoneIn(r) /\ r.panels[p].transitioning
        /\ \A x \in Panels \ {p} : r.panels[x] = s.panels[x]
    BY <1>1, <1>6 DEF NoneIn, Started, Others
  <2>8. \/ NoneLost(r)
        \/ \A x \in Panels \ {p} : r.panels[x].class = "collapsing" => Orphan(r, x)
    BY <2>7 DEF NoneLost, Orphan
  <2>9. \A x \in Panels : ~(Orphan(r, x) /\ r.panels[x].data # "none")
    BY <2>7 DEF NoneLost, Orphan
  <2>10. r.waiting # <<>>
    <3>1. Len(<<>>) = 0
      OBVIOUS
    <3> QED BY <2>1, <3>1
  <2>11. Opens(r, p)
    BY <2>1, <2>3, <2>6, <2>7, <2>8, <2>9, <2>10 DEF Opens
  <2> QED BY <1>1, <1>3, <2>1, <2>11 DEF Opening, Started, r
<1>7. CASE ~transition
  <2>1. /\ r.waiting = <<>> /\ s.waiting = <<>> /\ Len(<<>>) = 0
    BY <1>1, <1>7 DEF Started, PanelsHold
  <2>2. Linked(r) /\ NoneOpens(r)
    BY <1>5, <2>1 DEF Linked, NoneOpens
  <2>3. \A x \in Panels : s.panels[x].class # "collapsing"
    BY <2>1, WhoWaits
  <2>4. NoneLost(r)
    BY <1>1, <1>7, <2>3 DEF NoneLost, Orphan, Started, Others
  <2>5. \A x \in Panels : r.panels[x].class = "in" => x = p
    BY <1>1, <1>7 DEF NoneIn, Started, Others
  <2> QED BY <1>1, <1>3, <2>2, <2>4, <2>5 DEF Ready, Started, r
<1> QED BY <1>6, <1>7

(* Telling assistive technology does not open anything.                    *)
LEMMA KnownReady ==
  ASSUME NEW s, Ready(s), PanelsHold(s), NEW r, Known(s, r),
         \A x \in Panels : s.panels[x].data # "none" => r.panels[x].data # "none"
  PROVE  Ready(r)
<1>1. \A i \in 1 .. Len(s.waiting) : s.waiting[i].panel \in Panels
  BY WhoWaits
<1> QED BY <1>1 DEF Ready, Known, Linked, NoneOpens, NoneLost, Orphan

(* show hides the panel that is open.                                      *)
LEMMA HideOpen ==
  ASSUME transition \in BOOLEAN, NEW s, PanelsHold(s), Ready(s), NEW f \in Panels,
         s.panels[f].class = "in"
  PROVE  LET h == HideActive(s, f)
         IN  /\ PanelsHold(h) /\ Ready(h) /\ NoneIn(h) /\ h.raced = s.raced
             /\ h.panels[f].data =
                  IF s.panels[f].data = "none" THEN "alone" ELSE s.panels[f].data
             /\ h.panels[f].class \in {"collapsing", "collapse"}
             /\ h.panels[f].class = "collapsing" => h.panels[f].transitioning
             /\ \A x \in Panels \ {f} :
                  /\ h.panels[x].data = s.panels[x].data
                  /\ h.panels[x].class = s.panels[x].class
                  /\ h.panels[x].transitioning = s.panels[x].transitioning
<1> DEFINE t == IF s.panels[f].data = "none" THEN Create(s, f, "alone") ELSE s
           h == HideActive(s, f)
<1>1. /\ Known(s, t) /\ PanelsHold(t)
      /\ t.panels[f].data = IF s.panels[f].data = "none" THEN "alone" ELSE s.panels[f].data
      /\ \A x \in Panels \ {f} : t.panels[x].data = s.panels[x].data
  <2>1. CASE s.panels[f].data = "none"
    BY <2>1, CreateIs
  <2>2. CASE s.panels[f].data # "none"
    BY <2>2 DEF Known, PanelsHold
  <2> QED BY <2>1, <2>2
<1>2. h = HidePanel(t, f)
  BY DEF HideActive
<1> HIDE DEF t, h
<1>3. Ready(t) /\ t.panels[f].class = "in" /\ ~t.panels[f].transitioning
      /\ t.panels[f].data # "none"
  <2>1. Ready(t)
    BY <1>1, KnownReady
  <2> QED BY <1>1, <2>1 DEF Known, Ready, Linked
<1>4. h = StartTransition(t, f, "hidden")
  BY <1>2, <1>3 DEF HidePanel
<1>5. PanelsHold(h)
  BY <1>1, <1>4, StartHolds
<1>6. /\ Ready(h) /\ NoneIn(h) /\ h.raced = t.raced
      /\ \A x \in Panels : h.panels[x].data = t.panels[x].data
      /\ \A x \in Panels \ {f} : h.panels[x] = t.panels[x]
      /\ h.panels[f].class \in {"collapsing", "collapse"}
      /\ h.panels[f].class = "collapsing" => h.panels[f].transitioning
  BY <1>1, <1>3, <1>4, StartHidden
<1> QED BY <1>1, <1>5, <1>6 DEF Known, h

(* show leaves every other panel as it is.                                 *)
LEMMA HideStill ==
  ASSUME NEW s, NEW x \in Panels,
         \/ s.panels[x].class = "collapse"
         \/ s.panels[x].transitioning /\ s.panels[x].data # "none"
  PROVE  HideActive(s, x) = s
BY DEF HideActive, HidePanel

(* Hiding the panels of a group hides the one that is open ...             *)
LEMMA HideTheOpen ==
  ASSUME transition \in BOOLEAN, NEW s, PanelsHold(s), Ready(s), NEW f \in Panels,
         s.panels[f].class = "in"
  PROVE  HideActives(s, "grouped") = HideActive(s, f)
<1> DEFINE q == InOrder
           h == HideActive(s, f)
           V == {t \in GroupStates : PanelsHold(t)}
           S == [i \in 0 .. Len(q) |-> IF f <= i THEN {h} ELSE {s}]
<1>1. q \in Seq(Panels) /\ Len(q) = PanelCount /\ PanelCount \in Nat
      /\ \A i \in 1 .. PanelCount : q[i] = i
  BY InOrderIs DEF InOrder, Panels
<1>2. f \in 1 .. PanelCount
  BY DEF Panels
<1>3. \A t \in V, x \in Panels : HideActive(t, x) \in V
  BY HideActiveHolds DEF PanelsHold
<1>4. s \in V /\ h \in V
  BY HideOpen DEF PanelsHold
<1>5. s \in S[0] /\ S \in [0 .. Len(q) -> SUBSET V] /\ S[Len(q)] = {h}
  BY <1>1, <1>2, <1>4
<1>6. \A x \in Panels \ {f} : HideActive(s, x) = s
  <2> SUFFICES ASSUME NEW x \in Panels \ {f} PROVE HideActive(s, x) = s
    OBVIOUS
  <2>1. s.panels[x].class \in {"collapse", "collapsing", "in"}
    BY DEF PanelsHold, GroupStates, Panel
  <2>2. s.panels[x].class # "in"
    BY DEF Ready
  <2>3. s.panels[x].class = "collapsing" =>
          s.panels[x].transitioning /\ s.panels[x].data # "none"
    BY DEF Ready, NoneLost, Orphan, Linked
  <2> QED BY <2>1, <2>2, <2>3, HideStill
<1>7. \A x \in Panels : HideActive(h, x) = h
  <2> SUFFICES ASSUME NEW x \in Panels PROVE HideActive(h, x) = h
    OBVIOUS
  <2>1. PanelsHold(h) /\ Ready(h) /\ NoneIn(h)
    BY HideOpen
  <2> HIDE DEF h
  <2>2. h.panels[x].class \in {"collapse", "collapsing"}
    BY <2>1 DEF PanelsHold, GroupStates, Panel, NoneIn
  <2>3. h.panels[x].class = "collapsing" =>
          h.panels[x].transitioning /\ h.panels[x].data # "none"
    BY <2>1 DEF Ready, NoneLost, Orphan, Linked
  <2> QED BY <2>2, <2>3, HideStill
<1> HIDE DEF h
<1>8. \A i \in 1 .. Len(q) : \A t \in S[i - 1] : HideActive(t, q[i]) \in S[i]
  <2> SUFFICES ASSUME NEW i \in 1 .. Len(q), NEW t \in S[i - 1]
               PROVE  HideActive(t, q[i]) \in S[i]
    OBVIOUS
  <2>1. i \in 0 .. Len(q) /\ i - 1 \in 0 .. Len(q) /\ q[i] = i /\ i \in Panels
    BY <1>1 DEF Panels
  <2>2. CASE f <= i - 1
    <3>1. t = h /\ S[i] = {h}
      BY <1>1, <1>2, <2>1, <2>2
    <3> QED BY <1>7, <2>1, <3>1
  <2>3. CASE i = f
    <3>1. t = s /\ S[i] = {h}
      BY <1>1, <1>2, <2>1, <2>3
    <3> QED BY <2>1, <2>3, <3>1 DEF h
  <2>4. CASE i < f
    <3>1. t = s /\ S[i] = {s}
      BY <1>1, <1>2, <2>1, <2>4
    <3> QED BY <1>2, <1>6, <2>1, <2>4, <3>1
  <2> QED BY <1>1, <1>2, <2>1, <2>2, <2>3, <2>4
<1>9. FoldLeft(HideActive, s, q) \in S[Len(q)]
  <2> HIDE DEF S, V, q
  <2> QED BY <1>1, <1>3, <1>5, <1>8, HideActiveFolds
<1> QED BY <1>5, <1>9 DEF HideActives, h

(* ... and if none is, it only gives instances to the others.              *)
LEMMA HideNone ==
  ASSUME transition \in BOOLEAN, NEW s, PanelsHold(s), NoneIn(s)
  PROVE  LET h == HideActives(s, "grouped") IN PanelsHold(h) /\ Known(s, h)
<1> DEFINE q == InOrder
           V == {t \in GroupStates : PanelsHold(t) /\ Known(s, t)}
           S == [i \in 0 .. Len(q) |-> V]
<1>1. q \in Seq(Panels) /\ Len(q) \in Nat
  BY InOrderIs
<1>2. \A t \in V, x \in Panels : HideActive(t, x) \in V
  <2> SUFFICES ASSUME NEW t \in V, NEW x \in Panels PROVE HideActive(t, x) \in V
    OBVIOUS
  <2> DEFINE c == IF t.panels[x].data = "none" THEN Create(t, x, "alone") ELSE t
  <2>1. PanelsHold(c) /\ Known(t, c)
    <3>1. CASE t.panels[x].data = "none"
      BY <3>1, CreateIs
    <3>2. CASE t.panels[x].data # "none"
      BY <3>2 DEF Known, PanelsHold
    <3> QED BY <3>1, <3>2
  <2>2. HideActive(t, x) = t \/ HideActive(t, x) = HidePanel(c, x)
    BY DEF HideActive
  <2> HIDE DEF c
  <2>3. c.panels[x].class # "in"
    BY <2>1 DEF Known, NoneIn
  <2>4. HidePanel(c, x) = c
    BY <2>3 DEF HidePanel
  <2>5. Known(s, c)
    BY <2>1 DEF Known
  <2> QED BY <2>1, <2>2, <2>4, <2>5 DEF PanelsHold
<1>3. s \in S[0]
  BY <1>1 DEF PanelsHold, Known
<1> HIDE DEF q, V
<1>4. S \in [0 .. Len(q) -> SUBSET V]
  OBVIOUS
<1>5. \A i \in 1 .. Len(q) : \A t \in S[i - 1] : HideActive(t, q[i]) \in S[i]
  <2> SUFFICES ASSUME NEW i \in 1 .. Len(q), NEW t \in S[i - 1]
               PROVE  HideActive(t, q[i]) \in S[i]
    OBVIOUS
  <2>1. i - 1 \in 0 .. Len(q) /\ i \in 0 .. Len(q) /\ q[i] \in Panels
    BY <1>1
  <2>2. t \in V
    BY <2>1
  <2> QED BY <1>2, <2>1, <2>2
<1>6. FoldLeft(HideActive, s, q) \in S[Len(q)]
  <2> HIDE DEF S
  <2> QED BY <1>1, <1>2, <1>3, <1>4, <1>5, HideActiveFolds
<1>7. FoldLeft(HideActive, s, q) \in V
  BY <1>1, <1>6
<1> QED BY <1>7 DEF HideActives, V, q

(* Of some panels one is the first.                                        *)
LEMMA FirstPanel ==
  ASSUME NEW A \in SUBSET Panels, A # {}
  PROVE  LET f == CHOOSE a \in A : \A b \in A : a <= b
         IN  f \in A /\ \A b \in A : f <= b
<1>1. A \in SUBSET Nat
  BY DEF Panels
<1>2. \E a \in A : \A b \in A : a <= b
  BY <1>1, LeastNatural
<1> QED BY <1>2

(* show in a group at rest opens its panel and no other.                   *)
LEMMA ShowReady ==
  ASSUME transition \in BOOLEAN, NEW s, PanelsHold(s), Ready(s), NoneAlone(s),
         NEW p \in Panels, s.panels[p].class # "in", s.panels[p].data = "grouped",
         NEW fresh \in BOOLEAN, fresh => s.panels[p].class # "collapsing"
  PROVE  LET r == ShowPanel(s, p, "grouped", fresh)
         IN  GroupHolds(r) /\ r.raced = s.raced
<1> DEFINE r == ShowPanel(s, p, "grouped", fresh)
           A == Actives(s, "grouped")
           f == CHOOSE a \in A : \A b \in A : a <= b
           h == HideActives(s, "grouped")
           u == Forget(h, A)
           unknown == s.panels[f].data = "none" \/ (fresh /\ f = p)
<1>1. r = IF s.panels[p].class = "in" \/ (~fresh /\ s.panels[p].transitioning) THEN s
          ELSE IF A = {} THEN StartTransition(s, p, "shown")
          ELSE IF ~unknown /\ s.panels[f].transitioning THEN s
          ELSE StartTransition(Given(IF unknown THEN u ELSE h, p, "grouped"), p, "shown")
  BY DEF ShowPanel, Given
<1>2. A = {x \in Panels : s.panels[x].class # "collapse"}
  BY DEF Actives
<1>3. \A x \in Panels : s.panels[x].class \in {"collapse", "collapsing", "in"}
  BY DEF PanelsHold, GroupStates, Panel
<1>4. A # {} => f \in A
  BY <1>2, FirstPanel
<1>5. \A x \in Panels : s.panels[x].class = "collapsing" =>
        s.panels[x].transitioning /\ s.panels[x].data # "none"
  BY DEF Ready, NoneLost, Orphan, Linked
<1> HIDE DEF r, A, f, h, u
<1>6. CASE s.panels[p].class = "collapsing"
  <2>1. r = s
    BY <1>1, <1>5, <1>6
  <2> QED BY <2>1 DEF GroupHolds, r
<1>7. CASE s.panels[p].class = "collapse" /\ A = {}
  <2>1. r = StartTransition(s, p, "shown")
    BY <1>1, <1>7, <1>5 DEF Ready, Linked
  <2>2. NoneIn(s) /\ NoneLost(s) /\ Linked(s) /\ NoneOpens(s)
    BY <1>2, <1>7 DEF Ready, NoneIn
  <2>3. /\ Ready(r) \/ Opening(r)
        /\ r.raced = s.raced /\ \A x \in Panels : r.panels[x].data = s.panels[x].data
    BY <1>7, <2>1, <2>2, StartShown
  <2> QED BY <2>3 DEF GroupHolds, NoneAlone, r
<1>8. CASE s.panels[p].class = "collapse" /\ A # {} /\ s.panels[f].class = "collapsing"
  <2>1. f \in Panels /\ f # p
    BY <1>2, <1>4, <1>8
  <2>2. ~unknown /\ s.panels[f].transitioning
    BY <1>5, <1>8, <2>1
  <2>3. r = s
    BY <1>1, <1>8, <2>2
  <2> QED BY <2>3 DEF GroupHolds, r
<1>9. CASE s.panels[p].class = "collapse" /\ A # {} /\ s.panels[f].class = "in"
  <2>1. f \in Panels /\ f # p /\ f \in A
    BY <1>2, <1>4, <1>9
  <2>2. h = HideActive(s, f)
    BY <1>9, <2>1, HideTheOpen DEF h
  <2>3. /\ PanelsHold(h) /\ Ready(h) /\ NoneIn(h) /\ h.raced = s.raced
        /\ h.panels[f].data =
             IF s.panels[f].data = "none" THEN "alone" ELSE s.panels[f].data
        /\ \A x \in Panels \ {f} :
             /\ h.panels[x].data = s.panels[x].data
             /\ h.panels[x].class = s.panels[x].class
             /\ h.panels[x].transitioning = s.panels[x].transitioning
    BY <1>9, <2>1, <2>2, HideOpen
  <2>4. ~s.panels[f].transitioning /\ ~s.panels[p].transitioning
    BY <1>9, <2>1 DEF Ready, Linked
  <2>5. CASE s.panels[f].data # "none"
    <3> DEFINE k == Given(h, p, "grouped")
    <3>1. r = StartTransition(k, p, "shown")
      BY <1>1, <1>9, <2>1, <2>4, <2>5
    <3>2. /\ Known(h, k) /\ PanelsHold(k) /\ k.panels[p].data = "grouped"
          /\ \A x \in Panels \ {p} : k.panels[x].data = h.panels[x].data
      BY <2>3, GivenIs DEF IsGiven
    <3> HIDE DEF k
    <3>3. Ready(k) /\ NoneIn(k)
      <4>1. \A x \in Panels : h.panels[x].data # "none" => k.panels[x].data # "none"
        BY <3>2
      <4>2. Ready(k)
        BY <2>3, <3>2, <4>1, KnownReady
      <4> QED BY <2>3, <3>2, <4>2 DEF NoneIn, Known
    <3>4. k.panels[p].class = "collapse"
      BY <1>9, <2>1, <2>3, <3>2 DEF Known
    <3>5. Linked(k) /\ NoneOpens(k) /\ NoneLost(k) /\ k.panels[p].data # "none"
      BY <3>2, <3>3 DEF Ready
    <3>6. /\ Ready(r) \/ Opening(r)
          /\ r.raced = k.raced /\ \A x \in Panels : r.panels[x].data = k.panels[x].data
      BY <3>1, <3>2, <3>3, <3>4, <3>5, StartShown
    <3>7. NoneAlone(k)
      BY <2>1, <2>3, <2>5, <3>2 DEF NoneAlone
    <3> QED BY <2>3, <3>2, <3>6, <3>7 DEF GroupHolds, NoneAlone, Known, r
  <2>6. CASE s.panels[f].data = "none"
    <3> DEFINE k == Given(u, p, "grouped")
    <3>1. r = StartTransition(k, p, "shown")
      BY <1>1, <1>9, <2>4, <2>6
    <3>2. A \in SUBSET Panels
      BY <1>2
    <3>3. PanelsHold(u) /\ Forgotten(h, A, u)
      BY <2>3, <3>2, ForgetHolds, ForgetIs DEF u, PanelsHold
    <3>4. /\ Known(u, k) /\ PanelsHold(k) /\ k.panels[p].data = "grouped"
          /\ \A x \in Panels \ {p} : k.panels[x].data = u.panels[x].data
      BY <3>3, GivenIs DEF IsGiven
    <3> HIDE DEF k
    <3>5. \A i \in 1 .. Len(h.waiting) : h.waiting[i].panel \in Panels
      BY <2>3, WhoWaits
    <3>6. NoneOpens(k) /\ NoneIn(k)
      <4>1. NoneOpens(h)
        BY <2>3 DEF Ready
      <4>2. NoneOpens(u)
        BY <3>3, <4>1 DEF NoneOpens, Forgotten
      <4>3. NoneOpens(k)
        BY <3>4, <4>2 DEF NoneOpens, Known
      <4>4. NoneIn(k)
        BY <2>3, <3>3, <3>4 DEF NoneIn, Known, Forgotten
      <4> QED BY <4>3, <4>4
    <3>7. Linked(k)
      <4>1. Linked(h)
        BY <2>3 DEF Ready
      <4>2. \A x \in Panels : k.panels[x].transitioning =>
              k.panels[x].class = "collapsing" /\ k.panels[x].data # "none"
        BY <3>3, <3>4, <4>1 DEF Linked, Known, Forgotten
      <4>3. ASSUME NEW i \in 1 .. Len(k.waiting)
            PROVE  k.waiting[i].own <=> k.panels[k.waiting[i].panel].transitioning
        <5> DEFINE x == h.waiting[i].panel
        <5>1. i \in 1 .. Len(h.waiting) /\ k.waiting[i] = u.waiting[i]
          BY <3>3, <3>4 DEF Known, Forgotten
        <5>2. x \in Panels /\ (h.waiting[i].own <=> h.panels[x].transitioning)
          BY <3>5, <4>1, <5>1 DEF Linked
        <5>3. /\ u.waiting[i].panel = x
              /\ u.waiting[i].own <=> h.waiting[i].own /\ x \notin A
          BY <3>3, <5>1 DEF Forgotten
        <5>4. k.panels[x].transitioning <=> h.panels[x].transitioning /\ x \notin A
          BY <3>3, <3>4, <5>2 DEF Known, Forgotten
        <5> QED BY <5>1, <5>2, <5>3, <5>4
      <4>4. \A i, j \in 1 .. Len(k.waiting) :
              k.waiting[i].panel = k.waiting[j].panel => i = j
        BY <3>3, <3>4, <4>1 DEF Linked, Known, Forgotten
      <4> QED BY <4>2, <4>3, <4>4 DEF Linked
    <3>8. k.panels[p].class = "collapse" /\ k.raced = s.raced
      <4>1. k.raced = h.raced
        BY <2>3, <3>3, <3>4 DEF Ready, NoneOpens, Forgotten, Known, PanelsHold, GroupStates
      <4> QED BY <1>9, <2>1, <2>3, <3>3, <3>4, <4>1 DEF Known, Forgotten
    <3>9. ASSUME NEW x \in Panels, k.panels[x].class = "collapsing"
          PROVE  Orphan(k, x) /\ k.panels[x].data = "none"
      <4>1. h.panels[x].class = "collapsing" /\ x # p
        BY <3>3, <3>4, <3>8, <3>9 DEF Known, Forgotten
      <4>2. x \in A
        BY <1>2, <2>1, <2>3, <4>1
      <4> QED BY <3>3, <3>4, <3>9, <4>1, <4>2 DEF Known, Forgotten, Orphan
    <3>10. k.panels[p].data # "none"
      BY <3>4
    <3>11. /\ Ready(r) \/ Opening(r)
          /\ r.raced = k.raced /\ \A x \in Panels : r.panels[x].data = k.panels[x].data
      BY <3>1, <3>4, <3>6, <3>7, <3>8, <3>9, <3>10, StartShown
    <3>12. NoneAlone(k)
      BY <2>1, <2>3, <3>3, <3>4 DEF NoneAlone, Forgotten
    <3> QED BY <3>8, <3>11, <3>12 DEF GroupHolds, NoneAlone, r
  <2> QED BY <2>5, <2>6
<1>10. A # {} => f \in Panels /\ s.panels[f].class \in {"collapsing", "in"}
  BY <1>2, <1>3, <1>4
<1> QED BY <1>3, <1>6, <1>7, <1>8, <1>9, <1>10

(* show while another panel opens gives up, or races with it.              *)
LEMMA ShowOpening ==
  ASSUME transition \in BOOLEAN, NEW g, PanelsHold(g), NEW q \in Panels, Opens(g, q),
         NoneAlone(g), NEW p \in Panels, NEW s,
         \/ s = g /\ g.panels[p].data # "none"
         \/ s = Create(g, p, "grouped") /\ g.panels[p].data = "none"
  PROVE  LET r == ShowPanel(s, p, "grouped", g.panels[p].data = "none")
         IN  r.raced \/ GroupHolds(r)
<1> DEFINE fresh == g.panels[p].data = "none"
           r == ShowPanel(s, p, "grouped", fresh)
           A == Actives(s, "grouped")
           f == CHOOSE a \in A : \A b \in A : a <= b
           h == HideActives(s, "grouped")
           u == Forget(h, A)
           unknown == s.panels[f].data = "none" \/ (fresh /\ f = p)
<1>1. r = IF s.panels[p].class = "in" \/ (~fresh /\ s.panels[p].transitioning) THEN s
          ELSE IF A = {} THEN StartTransition(s, p, "shown")
          ELSE IF ~unknown /\ s.panels[f].transitioning THEN s
          ELSE StartTransition(Given(IF unknown THEN u ELSE h, p, "grouped"), p, "shown")
  BY DEF ShowPanel, Given
<1>2. A = {x \in Panels : s.panels[x].class # "collapse"}
  BY DEF Actives
<1>3. /\ Known(g, s) /\ PanelsHold(s) /\ s.panels[p].data # "none"
      /\ \A x \in Panels \ {p} : s.panels[x].data = g.panels[x].data
      /\ s.panels[p].data = g.panels[p].data \/ s.panels[p].data = "grouped"
  <2>1. CASE s = g /\ g.panels[p].data # "none"
    BY <2>1 DEF Known, PanelsHold
  <2>2. CASE s = Create(g, p, "grouped") /\ g.panels[p].data = "none"
    <3> DEFINE c == Create(g, p, "grouped")
    <3>1. /\ Known(g, c) /\ PanelsHold(c) /\ c.panels[p].data = "grouped"
          /\ \A x \in Panels \ {p} : c.panels[x].data = g.panels[x].data
      BY CreateIs
    <3> HIDE DEF c
    <3>2. s = c
      BY <2>2 DEF c
    <3> QED BY <3>1, <3>2
  <2> QED BY <2>1, <2>2
<1>4. /\ Linked(g) /\ NoneIn(g) /\ g.panels[q].transitioning
      /\ g.waiting # <<>> /\ q = g.waiting[Len(g.waiting)].panel
      /\ g.waiting[Len(g.waiting)].callback = "shown"
      /\ \A i \in 1 .. Len(g.waiting) :
           g.waiting[i].callback = "shown" => i = Len(g.waiting)
      /\ \/ NoneLost(g)
         \/ \A x \in Panels \ {q} : g.panels[x].class = "collapsing" => Orphan(g, x)
      /\ \A x, a \in Panels :
           (Orphan(g, x) /\ g.panels[x].data # "none" /\ g.panels[a].class # "collapse")
             => q <= a
  BY DEF Opens
<1>5. g.panels[q].class = "collapsing" /\ q \in A
  BY <1>2, <1>3, <1>4 DEF Linked, Known
<1>6. f \in A /\ \A b \in A : f <= b
  BY <1>2, <1>5, FirstPanel
<1>7. NoneIn(s) /\ s.panels[f].class = "collapsing" /\ f \in Panels
  BY <1>2, <1>3, <1>4, <1>6 DEF NoneIn, Known, PanelsHold, GroupStates, Panel
<1>8. Linked(s)
  <2>1. \A x \in Panels : g.panels[x].data # "none" => s.panels[x].data # "none"
    BY <1>3
  <2>2. \A i \in 1 .. Len(g.waiting) : g.waiting[i].panel \in Panels
    BY WhoWaits
  <2>3. s.waiting = g.waiting /\ \A x \in Panels :
          s.panels[x].class = g.panels[x].class
            /\ s.panels[x].transitioning = g.panels[x].transitioning
    BY <1>3 DEF Known
  <2>4. \A x \in Panels : s.panels[x].transitioning =>
          s.panels[x].class = "collapsing" /\ s.panels[x].data # "none"
    BY <1>4, <2>1, <2>3 DEF Linked
  <2>5. \A i \in 1 .. Len(s.waiting) :
          s.waiting[i].own <=> s.panels[s.waiting[i].panel].transitioning
    BY <1>4, <2>2, <2>3 DEF Linked
  <2>6. \A i, j \in 1 .. Len(s.waiting) :
          s.waiting[i].panel = s.waiting[j].panel => i = j
    BY <1>4, <2>3 DEF Linked
  <2> QED BY <2>4, <2>5, <2>6 DEF Linked
<1>9. NoneAlone(s)
  BY <1>3 DEF NoneAlone
<1> HIDE DEF r, A, f, h, u
<1>10. CASE ~fresh /\ s.panels[p].transitioning
  <2>1. r = s /\ s = g
    BY <1>1, <1>10
  <2>2. Opening(g)
    BY <1>4 DEF Opening
  <2> QED BY <2>1, <2>2 DEF GroupHolds, r
<1>11. CASE ~(~fresh /\ s.panels[p].transitioning) /\ unknown
  <2> DEFINE k == Given(u, p, "grouped")
  <2>1. r = StartTransition(k, p, "shown")
    BY <1>1, <1>5, <1>7, <1>11 DEF NoneIn
  <2>2. PanelsHold(h) /\ Known(s, h)
    BY <1>3, <1>7, HideNone DEF h
  <2>3. A \in SUBSET Panels
    BY <1>2
  <2>4. PanelsHold(u) /\ Forgotten(h, A, u)
    BY <2>2, <2>3, ForgetHolds, ForgetIs DEF u, PanelsHold
  <2>5. h.waiting = g.waiting /\ Len(g.waiting) \in 1 .. Len(g.waiting)
    <3>1. g.waiting \in Seq(Completion)
      BY DEF PanelsHold, GroupStates
    <3>2. Len(g.waiting) \in Nat /\ Len(g.waiting) # 0
      BY <1>4, <3>1, EmptySeq
    <3> QED BY <1>3, <2>2, <3>2 DEF Known
  <2>6. u.raced
    BY <1>4, <1>5, <2>4, <2>5 DEF Forgotten
  <2>7. k.raced /\ k \in GroupStates
    <3>1. PanelsHold(u)
      BY <2>4
    <3> HIDE DEF u, h
    <3>2. IsGiven(u, p, "grouped", k)
      BY <3>1, GivenIs
    <3> HIDE DEF k
    <3> QED BY <2>6, <3>2 DEF IsGiven, Known
  <2> HIDE DEF k
  <2>8. r.raced
    BY <2>1, <2>7, StartIs DEF Started
  <2> QED BY <2>8 DEF r
<1>12. CASE ~(~fresh /\ s.panels[p].transitioning) /\ ~unknown /\ s.panels[f].transitioning
  <2>1. r = s
    BY <1>1, <1>5, <1>12
  <2>2. ASSUME NEW x \in Panels, NEW a \in Panels,
               Orphan(s, x), s.panels[x].data # "none", s.panels[a].class # "collapse"
        PROVE  q <= a
    <3>1. Orphan(g, x) /\ g.panels[a].class # "collapse" /\ a \in A
      BY <1>2, <1>3, <2>2 DEF Orphan, Known
    <3>2. CASE g.panels[x].data # "none"
      BY <1>4, <3>1, <3>2
    <3>3. CASE g.panels[x].data = "none"
      <4>1. ~Orphan(g, f) /\ g.panels[f].class = "collapsing"
        BY <1>3, <1>7, <1>12 DEF Orphan, Known
      <4>2. f = q
        BY <1>4, <1>7, <3>1, <4>1 DEF NoneLost
      <4> QED BY <1>6, <3>1, <4>2
    <3> QED BY <3>2, <3>3
  <2>3. \/ NoneLost(s)
        \/ \A x \in Panels \ {q} : s.panels[x].class = "collapsing" => Orphan(s, x)
    BY <1>3, <1>4 DEF NoneLost, Orphan, Known
  <2>4. Opens(s, q)
    BY <1>3, <1>4, <1>7, <1>8, <2>2, <2>3 DEF Opens, Known
  <2> QED BY <1>3, <1>4, <1>9, <2>1, <2>4 DEF GroupHolds, Opening, Known, r
<1>13. CASE ~(~fresh /\ s.panels[p].transitioning) /\ ~unknown /\ ~s.panels[f].transitioning
  <2>1. Orphan(g, f) /\ g.panels[f].class # "collapse" /\ g.panels[q].class # "collapse"
    BY <1>3, <1>5, <1>7, <1>13 DEF Orphan, Known
  <2>2. g.panels[f].data # "none"
    BY <1>3, <1>7, <1>13
  <2>3. q <= f /\ f <= q
    BY <1>4, <1>5, <1>6, <1>7, <2>1, <2>2
  <2>4. q = f
    BY <1>7, <2>3 DEF Panels
  <2> QED BY <1>4, <2>1, <2>4 DEF Orphan
<1> QED BY <1>10, <1>11, <1>12, <1>13

(* So after a click at most one panel is open or opens, unless two raced.  *)
LEMMA ClickGroup ==
  ASSUME parent, transition \in BOOLEAN, PanelsHold(group), GroupHolds(group),
         NEW p \in Panels, Click(p)
  PROVE  group'.raced \/ GroupHolds(group')
<1> DEFINE known == group.panels[p].data # "none"
           s == IF known THEN group ELSE Create(group, p, "grouped")
           r == ShowPanel(s, p, "grouped", ~known)
<1>1. group' = IF s.panels[p].class = "in" THEN HidePanel(s, p)
               ELSE ShowPanel(s, p, s.panels[p].data, ~known)
  BY DEF Click, Kind
<1>2. /\ Known(group, s) /\ PanelsHold(s)
      /\ \A x \in Panels \ {p} : s.panels[x].data = group.panels[x].data
      /\ s.panels[p].data = "grouped"
  <2>1. CASE known
    BY <2>1 DEF Known, PanelsHold, GroupStates, Panel, GroupHolds, NoneAlone
  <2>2. CASE ~known
    BY <2>2, CreateIs
  <2> QED BY <2>1, <2>2
<1>3. NoneAlone(s)
  BY <1>2 DEF GroupHolds, NoneAlone
<1> HIDE DEF r
<1>4. CASE Ready(group)
  <2>1. Ready(s)
    <3>1. \A x \in Panels : group.panels[x].data # "none" => s.panels[x].data # "none"
      BY <1>2
    <3> HIDE DEF s
    <3> QED BY <1>2, <1>4, <3>1, KnownReady
  <2>2. CASE s.panels[p].class = "in"
    <3> HIDE DEF s
    <3>1. group' = StartTransition(s, p, "hidden")
      BY <1>1, <2>1, <2>2 DEF HidePanel, Ready, Linked
    <3>2. /\ Ready(group') /\ \A x \in Panels : group'.panels[x].data = s.panels[x].data
      BY <1>2, <2>1, <2>2, <3>1, StartHidden
    <3> QED BY <1>3, <3>2 DEF GroupHolds, NoneAlone
  <2>3. CASE s.panels[p].class # "in"
    <3>1. group' = r
      BY <1>1, <1>2, <2>3 DEF r
    <3>2. ~known => s.panels[p].class # "collapsing"
      BY <1>2, <1>4 DEF Ready, NoneLost, Orphan, Linked, Known
    <3> HIDE DEF s
    <3>3. GroupHolds(r)
      BY <1>2, <1>3, <2>1, <2>3, <3>2, ShowReady DEF r
    <3> QED BY <3>1, <3>3
  <2> QED BY <2>2, <2>3
<1>5. CASE Opening(group)
  <2> DEFINE q == group.waiting[Len(group.waiting)].panel
  <2>1. q \in Panels
    <3>1. group.waiting # <<>>
      BY <1>5 DEF Opening, Opens
    <3>2. group.waiting \in Seq(Completion)
      BY DEF PanelsHold, GroupStates
    <3>3. Len(group.waiting) \in 1 .. Len(group.waiting)
      BY <3>1, <3>2, EmptySeq
    <3> QED BY <3>3, WhoWaits
  <2>2. Opens(group, q) /\ NoneAlone(group)
    BY <1>5 DEF Opening, GroupHolds
  <2>3. s.panels[p].class # "in"
    BY <1>2, <2>2 DEF Opens, NoneIn, Known
  <2>4. group' = r
    BY <1>1, <1>2, <2>3 DEF r
  <2> HIDE DEF q
  <2>5. r = ShowPanel(s, p, "grouped", group.panels[p].data = "none")
    BY DEF r
  <2>6. r.raced \/ GroupHolds(r)
    BY <2>1, <2>2, <2>5, ShowOpening
  <2> QED BY <2>4, <2>6
<1> QED BY <1>4, <1>5 DEF GroupHolds

(* The group when its first k handlers have run or were put back: only the *)
(* first is for the panel at the head.                                     *)
RestOf(w, k, r) ==
  /\ r \in GroupStates /\ Len(r.waiting) = k - 1
  /\ \A i \in 1 .. k - 1 : r.waiting[i] = w[i + 1]
  /\ r.raced = group.raced /\ Others(group, r, w[1].panel)
  /\ r.panels[w[1].panel].class = IF w[1].callback = "shown" THEN "in" ELSE "collapse"
  /\ r.panels[w[1].panel].data = group.panels[w[1].panel].data
  /\ r.panels[w[1].panel].transitioning <=>
       group.panels[w[1].panel].transitioning /\ ~w[1].own

(* After another panel's handler the rest is as before, with that one      *)
(* behind.                                                                 *)
LEMMA RestOfMore ==
  ASSUME NEW w \in Seq(Completion), NEW k \in 2 .. Len(w), NEW t, RestOf(w, k - 1, t),
         Head(group.waiting).panel = w[1].panel, w[k].panel # w[1].panel
  PROVE  RestOf(w, k, EndsAt(t, w[k]))
<1> DEFINE r == EndsAt(t, w[k])
           e == w[k]
<1>1. e \in Completion /\ t \in GroupStates /\ k - 1 \in Nat /\ (k - 1) - 1 = k - 2
      /\ k - 2 \in Nat
  BY DEF RestOf
<1>2. PutBack(t, e, r)
  BY <1>1, EndsAtIs
<1> HIDE DEF r, e
<1>3. t.waiting \in Seq(Completion) /\ Len(t.waiting) = k - 2
  BY <1>1 DEF RestOf, GroupStates
<1>4. /\ Len(r.waiting) = k - 1 /\ r.waiting[k - 1] = e
      /\ \A i \in 1 .. k - 2 : r.waiting[i] = t.waiting[i]
  BY <1>1, <1>2, <1>3, AppendProperties DEF PutBack
<1>5. \A i \in 1 .. k - 2 : t.waiting[i] = w[i + 1]
  BY <1>1 DEF RestOf
<1>6. \A i \in 1 .. k - 1 : r.waiting[i] = w[i + 1]
  <2> SUFFICES ASSUME NEW i \in 1 .. k - 1 PROVE r.waiting[i] = w[i + 1]
    OBVIOUS
  <2>1. CASE i = k - 1
    BY <1>4, <2>1 DEF e
  <2>2. CASE i # k - 1
    <3>1. i \in 1 .. k - 2
      BY <2>2
    <3> QED BY <1>4, <1>5, <3>1
  <2> QED BY <2>1, <2>2
<1>7. r \in GroupStates /\ r.raced = t.raced /\ r.panels = t.panels
  BY <1>2 DEF PutBack
<1> QED BY <1>4, <1>6, <1>7 DEF RestOf, Others, r, e

(* What is left of the handlers when the first one's transition has ended. *)
LEMMA EndIs ==
  ASSUME PanelsHold(group), Linked(group), CollapseEnd
  PROVE  RestOf(group.waiting, Len(group.waiting), group')
<1> DEFINE w == group.waiting
           s == [group EXCEPT !.waiting = <<>>]
           V == GroupStates
           S == [k \in 0 .. Len(w) |->
                   IF k = 0 THEN {s} ELSE {t \in V : RestOf(w, k, t)}]
<1>1. group \in GroupStates /\ w \in Seq(Completion) /\ Len(w) \in Nat /\ w # <<>>
      /\ <<>> \in Seq(Completion)
  BY DEF PanelsHold, GroupStates, CollapseEnd
<1>2. Len(w) \in 1 .. Len(w) /\ w[1] \in Completion /\ Head(w) = w[1]
  BY <1>1, EmptySeq
<1>3. group' = FoldLeft(EndsAt, s, w)
  BY <1>1 DEF CollapseEnd
<1>4. s \in GroupStates /\ s.panels = group.panels /\ s.waiting = <<>>
      /\ s.raced = group.raced
  BY <1>1 DEF GroupStates
<1>5. \A k \in 2 .. Len(w) : w[k].panel # w[1].panel
  BY <1>1 DEF Linked
<1> HIDE DEF s
<1>6. RestOf(w, 1, EndsAt(s, w[1]))
  <2>1. Completed(s, w[1], EndsAt(s, w[1]))
    BY <1>2, <1>4, EndsAtIs
  <2>2. Len(<<>>) = 0 /\ 1 - 1 = 0 /\ 1 .. 0 = {}
    OBVIOUS
  <2> QED BY <1>4, <2>1, <2>2 DEF RestOf, Completed, Others
<1>7. s \in S[0] /\ S \in [0 .. Len(w) -> SUBSET V]
  BY <1>1, <1>4
<1>8. \A t \in V, x \in Completion : EndsAt(t, x) \in V
  BY EndsAtIs DEF PutBack, Completed
<1>9. \A k \in 1 .. Len(w) : \A t \in S[k - 1] : EndsAt(t, w[k]) \in S[k]
  <2> SUFFICES ASSUME NEW k \in 1 .. Len(w), NEW t \in S[k - 1]
               PROVE  EndsAt(t, w[k]) \in S[k]
    OBVIOUS
  <2>1. k \in 0 .. Len(w) /\ k - 1 \in 0 .. Len(w) /\ w[k] \in Completion /\ k # 0
    BY <1>1
  <2>2. EndsAt(t, w[k]) \in V
    BY <1>4, <1>8, <2>1
  <2>3. CASE k = 1
    BY <1>6, <2>1, <2>2, <2>3
  <2>4. CASE k # 1
    <3>1. k \in 2 .. Len(w) /\ k - 1 # 0
      BY <2>4
    <3>2. RestOf(w, k - 1, t)
      BY <2>1, <3>1
    <3>3. RestOf(w, k, EndsAt(t, w[k]))
      BY <1>1, <1>2, <1>5, <3>1, <3>2, RestOfMore
    <3> QED BY <2>1, <2>2, <3>3
  <2> QED BY <2>3, <2>4
<1>10. FoldLeft(EndsAt, s, w) \in S[Len(w)]
  <2> HIDE DEF S, V, w
  <2> QED BY <1>1, <1>7, <1>8, <1>9, EndsAtFolds
<1>11. Len(w) # 0 /\ Len(w) \in 0 .. Len(w)
  BY <1>1, <1>2
<1> QED BY <1>3, <1>10, <1>11

(* The end of a transition keeps a group with at most one open panel.      *)
LEMMA EndGroup ==
  ASSUME transition \in BOOLEAN, PanelsHold(group), GroupHolds(group), CollapseEnd
  PROVE  GroupHolds(group')
<1> DEFINE w == group.waiting
           n == Len(group.waiting)
           h == group.waiting[1].panel
           r == group'
<1>1. Linked(group)
  BY DEF GroupHolds, Ready, Opening, Opens
<1>2. /\ w \in Seq(Completion) /\ n \in Nat /\ n # 0
      /\ \A i \in 1 .. n : w[i] \in Completion /\ w[i].panel \in Panels
  <2>1. w \in Seq(Completion) /\ n \in Nat
        /\ \A i \in 1 .. n : w[i] \in Completion /\ w[i].panel \in Panels
    BY WhoWaits
  <2> QED BY <2>1, EmptySeq DEF CollapseEnd
<1>3. RestOf(w, n, r) /\ PanelsHold(r)
  BY <1>1, EndIs, PanelEndHolds
<1>4. /\ \A x \in Panels : group.panels[x].transitioning =>
            group.panels[x].class = "collapsing" /\ group.panels[x].data # "none"
      /\ \A i \in 1 .. n : w[i].own <=> group.panels[w[i].panel].transitioning
      /\ \A i, j \in 1 .. n : w[i].panel = w[j].panel => i = j
  BY <1>1 DEF Linked
<1> HIDE DEF w, n, h, r
<1>5. h \in Panels /\ h = w[1].panel /\ 1 \in 1 .. n
  BY <1>2 DEF h, w
<1>6. /\ Len(r.waiting) = n - 1 /\ \A i \in 1 .. n - 1 : r.waiting[i] = w[i + 1]
      /\ \A x \in Panels \ {h} : r.panels[x] = group.panels[x]
      /\ r.panels[h].class = IF w[1].callback = "shown" THEN "in" ELSE "collapse"
      /\ r.panels[h].data = group.panels[h].data
      /\ ~r.panels[h].transitioning
  BY <1>3, <1>4, <1>5 DEF RestOf, Others
<1>7. \A i \in 1 .. n - 1 : /\ i + 1 \in 1 .. n /\ i + 1 # 1
                           /\ r.waiting[i].panel \in Panels \ {h}
  <2> SUFFICES ASSUME NEW i \in 1 .. n - 1
               PROVE  /\ i + 1 \in 1 .. n /\ i + 1 # 1
                      /\ r.waiting[i].panel \in Panels \ {h}
    OBVIOUS
  <2>1. i + 1 \in 1 .. n /\ i + 1 # 1
    BY <1>2
  <2>2. w[i + 1].panel # w[1].panel /\ w[i + 1].panel \in Panels
    BY <1>2, <1>4, <1>5, <2>1
  <2> QED BY <1>5, <1>6, <2>1, <2>2
<1>8. NoneAlone(r)
  BY <1>6 DEF GroupHolds, NoneAlone
<1>9. Linked(r)
  <2>1. \A x \in Panels : r.panels[x].transitioning =>
          r.panels[x].class = "collapsing" /\ r.panels[x].data # "none"
    BY <1>4, <1>6
  <2>2. \A i \in 1 .. n - 1 :
          r.waiting[i].own <=> r.panels[r.waiting[i].panel].transitioning
    BY <1>4, <1>6, <1>7
  <2>3. ASSUME NEW i \in 1 .. n - 1, NEW j \in 1 .. n - 1,
               r.waiting[i].panel = r.waiting[j].panel
        PROVE  i = j
    <3>1. i + 1 = j + 1
      BY <1>4, <1>6, <1>7, <2>3
    <3> QED BY <3>1
  <2> QED BY <1>6, <2>1, <2>2, <2>3 DEF Linked
<1>10. CASE Ready(group)
  <2>1. /\ \A i \in 1 .. n : w[i].callback # "shown"
        /\ \A x \in Panels : ~Orphan(group, x)
        /\ \A x, y \in Panels :
             group.panels[x].class = "in" /\ group.panels[y].class = "in" => x = y
    BY <1>10 DEF Ready, NoneOpens, NoneLost, w, n
  <2>2. r.panels[h].class = "collapse"
    BY <1>5, <1>6, <2>1
  <2>3. NoneOpens(r)
    BY <1>6, <1>7, <2>1 DEF NoneOpens
  <2>4. NoneLost(r)
    BY <1>6, <2>1, <2>2 DEF NoneLost, Orphan
  <2>5. \A x, y \in Panels :
          r.panels[x].class = "in" /\ r.panels[y].class = "in" => x = y
    BY <1>6, <2>1, <2>2
  <2> QED BY <1>8, <1>9, <2>3, <2>4, <2>5 DEF GroupHolds, Ready, r
<1>11. CASE Opening(group)
  <2> DEFINE q == w[n].panel
  <2>1. Opens(group, q)
    BY <1>11 DEF Opening, w, n
  <2> HIDE DEF q
  <2>2. /\ NoneIn(group) /\ q = w[n].panel /\ w[n].callback = "shown"
        /\ \A i \in 1 .. n : w[i].callback = "shown" => i = n
        /\ group.panels[q].transitioning
        /\ \/ NoneLost(group)
           \/ \A x \in Panels \ {q} : group.panels[x].class = "collapsing" =>
                                        Orphan(group, x)
        /\ \A x, a \in Panels :
             (Orphan(group, x) /\ group.panels[x].data # "none"
              /\ group.panels[a].class # "collapse") => q <= a
    BY <2>1 DEF Opens, w, n
  <2>3. n \in 1 .. n /\ q \in Panels
    BY <1>2, <2>2
  <2>4. CASE n = 1
    <3>1. r.waiting = <<>> /\ Len(r.waiting) = 0
      <4>1. r.waiting \in Seq(Completion) /\ Len(r.waiting) = 0
        BY <1>3, <1>6, <2>4, WhoWaits
      <4> QED BY <4>1, EmptySeq
    <3>2. \A x \in Panels : r.panels[x].class # "collapsing"
      BY <1>3, <3>1, WhoWaits
    <3>3. NoneLost(r) /\ NoneOpens(r)
      BY <3>1, <3>2 DEF NoneLost, Orphan, NoneOpens
    <3>4. \A x, y \in Panels :
            r.panels[x].class = "in" /\ r.panels[y].class = "in" => x = y
      BY <1>6, <2>2 DEF NoneIn
    <3> QED BY <1>8, <1>9, <3>3, <3>4 DEF GroupHolds, Ready, r
  <2>5. CASE n # 1
    <3>1. n - 1 \in 1 .. n - 1 /\ (n - 1) + 1 = n /\ w[1].callback # "shown"
      BY <1>2, <1>5, <2>2, <2>5
    <3>2. r.panels[h].class = "collapse"
      BY <1>6, <3>1
    <3>3. /\ r.waiting[n - 1] = w[n] /\ q # h /\ r.panels[q] = group.panels[q]
      BY <1>4, <1>5, <1>6, <2>2, <2>3, <2>5, <3>1
    <3>4. NoneIn(r)
      BY <1>6, <2>2, <3>2 DEF NoneIn
    <3>5. r.waiting # <<>>
      <4>1. Len(<<>>) = 0 /\ Len(r.waiting) # 0
        BY <1>2, <1>6, <2>5
      <4> QED BY <4>1
    <3>6. ASSUME NEW i \in 1 .. n - 1, r.waiting[i].callback = "shown" PROVE i = n - 1
      <4>1. i + 1 = n
        BY <1>6, <1>7, <2>2, <3>6
      <4> QED BY <1>2, <4>1
    <3>7. \/ NoneLost(r)
          \/ \A x \in Panels \ {q} : r.panels[x].class = "collapsing" => Orphan(r, x)
      BY <1>6, <2>2, <3>2 DEF NoneLost, Orphan
    <3>8. \A x, a \in Panels :
            (Orphan(r, x) /\ r.panels[x].data # "none" /\ r.panels[a].class # "collapse")
              => q <= a
      BY <1>6, <2>2, <3>2 DEF Orphan
    <3>9. Opens(r, q)
      BY <1>6, <1>9, <2>2, <3>3, <3>4, <3>5, <3>6, <3>7, <3>8 DEF Opens
    <3>10. Opening(r)
      BY <1>6, <2>2, <3>3, <3>9 DEF Opening
    <3> QED BY <1>8, <3>10 DEF GroupHolds, r
  <2> QED BY <2>4, <2>5
<1> QED BY <1>10, <1>11 DEF GroupHolds

-----------------------------------------------------------------------------
(* Once a panel has lost its instance while it was opening, that is known. *)
LEMMA RacedStays ==
  ASSUME transition \in BOOLEAN, PanelsHold(group), group.raced, CollapseNext
  PROVE  group'.raced
<1> DEFINE V == {t \in GroupStates : PanelsHold(t) /\ t.raced}
<1>1. ASSUME NEW s \in V, NEW p \in Panels, NEW name \in {"shown", "hidden"}
      PROVE  StartTransition(s, p, name) \in V
  BY StartIs, StartHolds DEF Started
<1>2. ASSUME NEW s \in V, NEW p \in Panels, NEW kind \in {"alone", "grouped"}
      PROVE  Create(s, p, kind) \in V /\ Given(s, p, kind) \in V
  <2> DEFINE c == Create(s, p, kind)
             g == Given(s, p, kind)
  <2>1. Known(s, c) /\ PanelsHold(c)
    BY CreateIs
  <2>2. Known(s, g) /\ PanelsHold(g)
    BY GivenIs DEF IsGiven
  <2> QED BY <2>1, <2>2 DEF Known
<1>3. ASSUME NEW s \in V, NEW p \in Panels PROVE HidePanel(s, p) \in V
  BY <1>1 DEF HidePanel
<1>4. ASSUME NEW s \in V, NEW p \in Panels PROVE HideActive(s, p) \in V
  <2> DEFINE t == IF s.panels[p].data = "none" THEN Create(s, p, "alone") ELSE s
  <2>1. t \in V
    BY <1>2
  <2>2. HideActive(s, p) = s \/ HideActive(s, p) = HidePanel(t, p)
    BY DEF HideActive
  <2> HIDE DEF t, V
  <2> QED BY <1>3, <2>1, <2>2
<1>5. ASSUME NEW s \in V, NEW kind PROVE HideActives(s, kind) \in V
  <2> DEFINE q == InOrder
             S == [i \in 0 .. Len(q) |-> V]
  <2>1. q \in Seq(Panels) /\ Len(q) \in Nat
    BY InOrderIs
  <2> HIDE DEF q, V
  <2>2. s \in S[0] /\ S \in [0 .. Len(q) -> SUBSET V]
    BY <2>1
  <2>3. \A i \in 1 .. Len(q) : \A t \in S[i - 1] : HideActive(t, q[i]) \in S[i]
    <3> SUFFICES ASSUME NEW i \in 1 .. Len(q), NEW t \in S[i - 1]
                 PROVE  HideActive(t, q[i]) \in S[i]
      OBVIOUS
    <3>1. i - 1 \in 0 .. Len(q) /\ i \in 0 .. Len(q) /\ q[i] \in Panels
      BY <2>1
    <3> QED BY <1>4, <3>1
  <2>4. FoldLeft(HideActive, s, q) \in S[Len(q)]
    <3> HIDE DEF S
    <3> QED BY <1>4, <2>1, <2>2, <2>3, HideActiveFolds
  <2>5. FoldLeft(HideActive, s, q) \in V
    BY <2>1, <2>4
  <2> QED BY <2>5 DEF HideActives, q
<1>6. ASSUME NEW s \in V, NEW A \in SUBSET Panels PROVE Forget(s, A) \in V
  BY ForgetIs, ForgetHolds DEF Forgotten
<1>7. ASSUME NEW s \in V, NEW p \in Panels, NEW kind \in {"alone", "grouped"},
             NEW fresh \in BOOLEAN
      PROVE  ShowPanel(s, p, kind, fresh) \in V
  <2> DEFINE A == Actives(s, kind)
             h == HideActives(s, kind)
             r == ShowPanel(s, p, kind, fresh)
  <2>1. A \in SUBSET Panels
    BY DEF Actives
  <2>2. \/ r = s \/ r = StartTransition(s, p, "shown")
        \/ r = StartTransition(Given(h, p, kind), p, "shown")
        \/ r = StartTransition(Given(Forget(h, A), p, kind), p, "shown")
    BY DEF ShowPanel, Given
  <2> HIDE DEF A, r, V
  <2>3. h \in V /\ Forget(h, A) \in V
    BY <1>5, <1>6, <2>1
  <2>4. Given(h, p, kind) \in V /\ Given(Forget(h, A), p, kind) \in V
    BY <1>2, <2>3
  <2>5. r \in V
    BY <1>1, <2>2, <2>4
  <2> QED BY <2>5 DEF r
<1>8. ASSUME NEW p \in Panels, Click(p) PROVE group'.raced
  <2> DEFINE known == group.panels[p].data # "none"
             s == IF known THEN group ELSE Create(group, p, Kind)
  <2>1. Kind \in {"alone", "grouped"} /\ group \in V
    BY DEF Kind, PanelsHold
  <2>2. s \in V /\ s.panels[p].data # "none"
    <3>1. CASE known
      BY <2>1, <3>1
    <3>2. CASE ~known
      BY <1>2, <2>1, <3>2, CreateIs
    <3> QED BY <3>1, <3>2
  <2>3. group' = IF s.panels[p].class = "in" THEN HidePanel(s, p)
                 ELSE ShowPanel(s, p, s.panels[p].data, ~known)
    BY <1>8 DEF Click
  <2> HIDE DEF s
  <2>4. s.panels[p].data \in {"alone", "grouped"}
    BY <2>2 DEF GroupStates, Panel
  <2>5. group' \in V
    <3> HIDE DEF V
    <3> QED BY <1>3, <1>7, <2>2, <2>3, <2>4
  <2> QED BY <2>5
<1>9. ASSUME CollapseEnd PROVE group'.raced
  <2> DEFINE q == group.waiting
             s == [group EXCEPT !.waiting = <<>>]
             W == {t \in GroupStates : t.raced}
             S == [i \in 0 .. Len(q) |-> W]
  <2>1. group \in GroupStates /\ q \in Seq(Completion) /\ Len(q) \in Nat
        /\ <<>> \in Seq(Completion)
    BY DEF PanelsHold, GroupStates
  <2>2. s \in W
    BY <2>1 DEF GroupStates
  <2>3. group' = FoldLeft(EndsAt, s, q)
    BY <1>9 DEF CollapseEnd
  <2>4. \A t \in W, x \in Completion : EndsAt(t, x) \in W
    BY EndsAtIs DEF PutBack, Completed
  <2> HIDE DEF q, s, W
  <2>5. s \in S[0] /\ S \in [0 .. Len(q) -> SUBSET W]
    BY <2>1, <2>2
  <2>6. \A i \in 1 .. Len(q) : \A t \in S[i - 1] : EndsAt(t, q[i]) \in S[i]
    <3> SUFFICES ASSUME NEW i \in 1 .. Len(q), NEW t \in S[i - 1]
                 PROVE  EndsAt(t, q[i]) \in S[i]
      OBVIOUS
    <3>1. i - 1 \in 0 .. Len(q) /\ i \in 0 .. Len(q) /\ q[i] \in Completion
      BY <2>1
    <3> QED BY <2>4, <3>1
  <2>7. FoldLeft(EndsAt, s, q) \in S[Len(q)]
    <3> HIDE DEF S
    <3> QED BY <2>1, <2>4, <2>5, <2>6, EndsAtFolds
  <2>8. group' \in W
    BY <2>1, <2>3, <2>7
  <2> QED BY <2>8 DEF W
<1> QED BY <1>8, <1>9 DEF CollapseNext

(* At first at most one panel is open.                                     *)
LEMMA InitPanelsInv == ASSUME CollapseInit PROVE PanelsInv
<1>1. PICK open \in SUBSET Panels :
        /\ parent => \A p, q \in open : p = q
        /\ group = [panels |-> [p \in Panels |->
                      [class |-> IF p \in open THEN "in" ELSE "collapse",
                       expanded |-> p \in open, data |-> "none",
                       transitioning |-> FALSE]],
                    waiting |-> <<>>, mistold |-> {}, raced |-> FALSE]
  BY DEF CollapseInit
<1>2. /\ group.waiting = <<>> /\ ~group.raced /\ group.mistold = {}
      /\ \A p \in Panels :
           /\ group.panels[p].class = IF p \in open THEN "in" ELSE "collapse"
           /\ group.panels[p].expanded <=> p \in open
           /\ group.panels[p].data = "none" /\ ~group.panels[p].transitioning
  BY <1>1
<1>3. group \in GroupStates
  <2>1. <<>> \in Seq(Completion)
    OBVIOUS
  <2> QED BY <1>1, <2>1 DEF GroupStates, Panel
<1>4. Len(<<>>) = 0 /\ \A x, callback : ~WaitsIn(<<>>, 0, x)
  BY NoMore
<1>5. PanelsHold(group)
  BY <1>2, <1>3, <1>4 DEF PanelsHold, OnTheirWay, ToldRight
<1>6. parent => GroupHolds(group)
  BY <1>1, <1>2, <1>4
     DEF GroupHolds, NoneAlone, Ready, Linked, NoneOpens, NoneLost, Orphan
<1> QED BY <1>5, <1>6 DEF PanelsInv, CollapseInit

(* Each step of the panels keeps their invariant.                          *)
LEMMA PanelsInvKept == ASSUME PanelsInv, [CollapseNext]_collapseVars PROVE PanelsInv'
<1>1. CASE UNCHANGED collapseVars
  BY <1>1 DEF collapseVars, PanelsInv, PanelsHold, OnTheirWay, ToldRight, GroupHolds,
     NoneAlone, Ready, Opening, Opens, Linked, NoneOpens, NoneIn, NoneLost, Orphan
<1>2. CASE CollapseNext
  <2>1. /\ parent \in BOOLEAN /\ transition \in BOOLEAN /\ PanelsHold(group)
        /\ group.raced \in BOOLEAN
    BY DEF PanelsInv, PanelsHold, GroupStates
  <2>2. parent' = parent /\ transition' = transition
    BY <1>2 DEF CollapseNext, Click, CollapseEnd
  <2>3. PanelsHold(group')
    BY <1>2, <2>1, ClickHolds, PanelEndHolds DEF CollapseNext
  <2>4. parent /\ ~group'.raced => GroupHolds(group')
    <3>1. CASE group.raced
      BY <1>2, <2>1, <3>1, RacedStays
    <3>2. CASE parent /\ ~group.raced
      <4>1. GroupHolds(group)
        BY <3>2 DEF PanelsInv
      <4> QED BY <1>2, <2>1, <3>2, <4>1, ClickGroup, EndGroup DEF CollapseNext
    <3> QED BY <3>1, <3>2
  <2>5. PanelsHold(group)'
    BY <2>2, <2>3 DEF PanelsHold, OnTheirWay, ToldRight
  <2>6. (parent /\ ~group.raced => GroupHolds(group))'
    BY <2>2, <2>4 DEF GroupHolds, NoneAlone, Ready, Opening, Opens, Linked, NoneOpens,
       NoneIn, NoneLost, Orphan
  <2> QED BY <2>1, <2>2, <2>5, <2>6 DEF PanelsInv
<1> QED BY <1>1, <1>2

(* The invariant implies what the runs check.                              *)
LEMMA PanelsSettled == ASSUME PanelsInv PROVE CollapseTypeOK /\ SettledPanels
<1>1. group.waiting = <<>> => \A p \in Panels : group.panels[p].class # "collapsing"
  <2>1. Len(<<>>) = 0
    OBVIOUS
  <2> QED BY <2>1, NoMore DEF PanelsInv, PanelsHold, OnTheirWay
<1>2. group.waiting = <<>> =>
        \A p \in Panels : p \notin group.mistold =>
          group.panels[p].expanded = (group.panels[p].class = "in")
  BY <1>1 DEF PanelsInv, PanelsHold, ToldRight, GroupStates, Panel
<1>3. group.waiting = <<>> /\ parent /\ ~group.raced => \A p, q \in Panels :
         (group.panels[p].class = "in" /\ group.panels[q].class = "in") => p = q
  BY DEF PanelsInv, GroupHolds, Opening, Opens, Ready
<1> QED BY <1>1, <1>2, <1>3
        DEF SettledPanels, CollapseTypeOK, PanelsInv, PanelsHold, GroupStates

-----------------------------------------------------------------------------
(* The login dialog.                                                       *)

DialogStates ==
  [isShown : BOOLEAN, displayed : BOOLEAN, modalOpen : BOOLEAN,
   backdrop : Nat, overlays : SUBSET Nat, created : Nat,
   padding : Nat, originalBodyPad : Nat, guard : BOOLEAN,
   clickHandlers : Nat, ignoreBackdropClick : BOOLEAN, focus : Focus,
   armed : Openers \cup {"none"}, restorer : Openers \cup {"none"},
   pending : Seq(Pending), shows : Nat, rushed : BOOLEAN]

DialogHolds(s) == /\ s \in DialogStates /\ s.overlays \subseteq 1 .. s.created
                  /\ s.backdrop \in s.overlays \cup {0}

Handlers(s) == {s.pending[i] : i \in 1 .. Len(s.pending)}

(* Which handlers wait.                                                     *)
LEMMA HandlersPending ==
  ASSUME NEW s, DialogHolds(s)
  PROVE  \A v \in Handlers(s) : v \in Pending /\ v.ticks \in Nat
<1> SUFFICES ASSUME NEW v \in Handlers(s) PROVE v \in Pending /\ v.ticks \in Nat
  OBVIOUS
<1>1. s.pending \in Seq(Pending)
  BY DEF DialogHolds, DialogStates
<1>2. PICK i \in 1 .. Len(s.pending) : v = s.pending[i]
  BY DEF Handlers
<1>3. v \in Pending
  BY <1>1, <1>2
<1> QED BY <1>3 DEF Pending

(* r is s but for its focus, for the handlers that wait, for both.         *)
Refocused(s, r) ==
  /\ r.isShown = s.isShown /\ r.displayed = s.displayed
  /\ r.modalOpen = s.modalOpen /\ r.backdrop = s.backdrop
  /\ r.overlays = s.overlays /\ r.created = s.created /\ r.padding = s.padding
  /\ r.originalBodyPad = s.originalBodyPad /\ r.guard = s.guard
  /\ r.clickHandlers = s.clickHandlers
  /\ r.ignoreBackdropClick = s.ignoreBackdropClick /\ r.armed = s.armed
  /\ r.restorer = s.restorer /\ r.pending = s.pending /\ r.shows = s.shows
  /\ r.rushed = s.rushed

Requeued(s, r) ==
  /\ r.isShown = s.isShown /\ r.displayed = s.displayed
  /\ r.modalOpen = s.modalOpen /\ r.backdrop = s.backdrop
  /\ r.overlays = s.overlays /\ r.created = s.created /\ r.padding = s.padding
  /\ r.originalBodyPad = s.originalBodyPad /\ r.guard = s.guard
  /\ r.clickHandlers = s.clickHandlers
  /\ r.ignoreBackdropClick = s.ignoreBackdropClick /\ r.focus = s.focus
  /\ r.armed = s.armed /\ r.restorer = s.restorer /\ r.shows = s.shows
  /\ r.rushed = s.rushed

Alike(s, r) ==
  /\ r.isShown = s.isShown /\ r.displayed = s.displayed
  /\ r.modalOpen = s.modalOpen /\ r.backdrop = s.backdrop
  /\ r.overlays = s.overlays /\ r.created = s.created /\ r.padding = s.padding
  /\ r.originalBodyPad = s.originalBodyPad /\ r.guard = s.guard
  /\ r.clickHandlers = s.clickHandlers
  /\ r.ignoreBackdropClick = s.ignoreBackdropClick /\ r.armed = s.armed
  /\ r.restorer = s.restorer /\ r.shows = s.shows /\ r.rushed = s.rushed

-----------------------------------------------------------------------------
(* A dialog with the focus elsewhere.                                      *)
LEMMA FocusSet ==
  ASSUME NEW s, DialogHolds(s), NEW f \in Focus
  PROVE  LET r == [s EXCEPT !.focus = f]
         IN  DialogHolds(r) /\ Refocused(s, r) /\ r.focus = f
BY DEF DialogHolds, DialogStates, Refocused

(* A dialog with other handlers.                                           *)
LEMMA QueueSet ==
  ASSUME NEW s, DialogHolds(s), NEW q \in Seq(Pending)
  PROVE  LET r == [s EXCEPT !.pending = q]
         IN  DialogHolds(r) /\ Requeued(s, r) /\ r.pending = q
BY DEF DialogHolds, DialogStates, Requeued

FocusSetTo(s, f, r) ==
  DialogHolds(r) /\ Refocused(s, r) /\ IF s.displayed THEN r.focus \in {f, "dialog"}
                                       ELSE r.focus = f

(* The focus of the dialog and of its element change only the focus.       *)
LEMMA FocusIs ==
  ASSUME NEW s, DialogHolds(s)
  PROVE  /\ FocusSetTo(s, s.focus, FocusDialog(s))
         /\ FocusSetTo(s, s.focus, FocusElement(s))
<1>1. "dialog" \in Focus /\ s.focus \in Focus
  BY DEF Focus, DialogHolds, DialogStates
<1>2. FocusSetTo(s, s.focus, s)
  BY DEF FocusSetTo, Refocused
<1>3. FocusSetTo(s, s.focus, FocusDialog(s))
  <2> DEFINE r == [s EXCEPT !.focus = "dialog"]
  <2>1. DialogHolds(r) /\ Refocused(s, r) /\ r.focus = "dialog"
    BY <1>1, FocusSet
  <2>2. FocusDialog(s) = IF s.displayed THEN r ELSE s
    BY DEF FocusDialog
  <2> HIDE DEF r
  <2> QED BY <1>2, <2>1, <2>2 DEF FocusSetTo
<1> QED BY <1>2, <1>3 DEF FocusElement

(* So does any focus: the guard of an open dialog may take it back.        *)
LEMMA FocusOnIs ==
  ASSUME NEW s, DialogHolds(s), NEW f \in Focus
  PROVE  FocusSetTo(s, f, FocusOn(s, f))
<1> DEFINE t == [s EXCEPT !.focus = f]
<1>1. DialogHolds(t) /\ Refocused(s, t) /\ t.focus = f
  BY FocusSet
<1>2. FocusOn(s, f) = IF s.guard THEN FocusElement(t) ELSE t
  BY DEF FocusOn
<1> HIDE DEF t
<1>3. FocusSetTo(t, t.focus, FocusElement(t))
  BY <1>1, FocusIs
<1> QED BY <1>1, <1>2, <1>3 DEF FocusSetTo, Refocused

-----------------------------------------------------------------------------
(* FoldRuns for the handlers that are kept.                                *)
LEMMA KeepFolds ==
  ASSUME NEW V, NEW X, NEW q \in Seq(X), \A t \in V, x \in X : Keep(t, x) \in V,
         NEW S \in [0 .. Len(q) -> SUBSET V], NEW s \in S[0],
         \A i \in 1 .. Len(q) : \A t \in S[i - 1] : Keep(t, q[i]) \in S[i]
  PROVE  FoldLeft(Keep, s, q) \in S[Len(q)]
<1> DEFINE f == [p \in V \X X |-> Keep(p[1], p[2])]
           Folds(g) == g = [t \in SUBSET DOMAIN q |->
                              IF t = {} THEN s
                              ELSE Keep(g[t \ {Max(t)}], q[Max(t)])]
           h == CHOOSE g : Folds(g)
<1>1. f \in [V \X X -> V] /\ \A t \in V, x \in X : f[<<t, x>>] = Keep(t, x)
  OBVIOUS
<1>2. Len(q) \in Nat /\ DOMAIN q = 1 .. Len(q) /\ \A i \in 1 .. Len(q) : q[i] \in X
  BY LenProperties
<1>3. s \in V /\ \A i \in 1 .. Len(q) : i - 1 \in 0 .. Len(q) /\ S[i - 1] \subseteq V
  BY <1>2
<1> HIDE DEF f
<1>4. PICK g : IsFold(g, f, s, q, Len(q)) /\ \A t \in SUBSET (1 .. Len(q)) : g[t] \in V
  BY <1>1, <1>3, FoldExists
<1>5. \A t \in SUBSET (1 .. Len(q)) : t # {} => q[Max(t)] \in X
  BY <1>2, MaxOfIndices
<1>6. Folds(g)
  BY <1>1, <1>2, <1>4, <1>5 DEF IsFold
<1>7. Folds(h)
  <2> HIDE DEF Folds
  <2> QED BY <1>6
<1>8. \A t \in SUBSET (1 .. Len(q)) :
        h[t] = IF t = {} THEN s ELSE Keep(h[t \ {Max(t)}], q[Max(t)])
  BY <1>2, <1>7
<1>9. FoldLeft(Keep, s, q) = h[1 .. Len(q)]
  BY <1>2 DEF FoldLeft, MapThenFoldSet
<1> HIDE DEF h, Folds
<1>10. FoldsIn(h, f, V, s, q)
  BY <1>1, <1>5, <1>8 DEF FoldsIn
<1>11. Leads(f, S, q)
  BY <1>1, <1>2, <1>3 DEF Leads
<1>12. f \in [V \X X -> V]
  BY <1>1
<1>13. h[1 .. Len(q)] \in S[Len(q)]
  BY <1>10, <1>11, <1>12, FoldRuns
<1> QED BY <1>9, <1>13

Entries == [handler : Pending, due : BOOLEAN]

(* The queue of a transition's end has every handler, and says which are   *)
(* due.                                                                    *)
LEMMA QueueIs ==
  ASSUME NEW s, DialogHolds(s), NEW e
  PROVE  /\ Queue(s, e) \in Seq(Entries) /\ Len(Queue(s, e)) = Len(s.pending)
         /\ Len(s.pending) \in Nat /\ s.pending \in Seq(Pending)
         /\ \A i \in 1 .. Len(s.pending) :
              /\ s.pending[i] \in Pending /\ Queue(s, e)[i].handler = s.pending[i]
              /\ Queue(s, e)[i].due <=> s.pending[i].on = e
<1> DEFINE n == Len(s.pending)
           q == Queue(s, e)
<1>1. /\ s.pending \in Seq(Pending) /\ n \in Nat /\ DOMAIN s.pending = 1 .. n
      /\ \A i \in 1 .. n : s.pending[i] \in Pending
  BY LenProperties DEF DialogHolds, DialogStates
<1>2. /\ DOMAIN q = 1 .. n
      /\ \A i \in 1 .. n : /\ q[i] \in Entries /\ q[i].handler = s.pending[i]
                           /\ q[i].due <=> s.pending[i].on = e
  BY <1>1 DEF Queue, Entries
<1>3. q \in [1 .. n -> Entries]
  BY <1>1, <1>2 DEF Queue
<1> HIDE DEF q, n
<1>4. q \in Seq(Entries) /\ Len(q) = n
  BY <1>1, <1>2, <1>3, LenProperties
<1> QED BY <1>1, <1>2, <1>4 DEF q, n

(* The set of handlers after one was appended.                             *)
LEMMA HandlersAppended ==
  ASSUME NEW q \in Seq(Pending), NEW w \in Pending
  PROVE  LET r == Append(q, w)
         IN  /\ r \in Seq(Pending) /\ Len(q) \in Nat /\ Len(r) = Len(q) + 1
             /\ {r[i] : i \in 1 .. Len(r)} = {q[i] : i \in 1 .. Len(q)} \cup {w}
<1> DEFINE r == Append(q, w)
<1>1. /\ r \in Seq(Pending) /\ Len(q) \in Nat /\ Len(r) = Len(q) + 1
      /\ r[Len(q) + 1] = w /\ \A i \in 1 .. Len(q) : r[i] = q[i]
  BY AppendProperties
<1> HIDE DEF r
<1>2. 1 .. Len(r) = (1 .. Len(q)) \cup {Len(q) + 1}
  BY <1>1
<1> QED BY <1>1, <1>2 DEF r

KeptSoFar(s, e, k, t) ==
  /\ DialogHolds(t) /\ Requeued(s, t)
  /\ Handlers(t) = {w \in {s.pending[i] : i \in 1 .. k} : w.on # e}

WithoutIs(s, e, r) ==
  /\ DialogHolds(r) /\ Requeued(s, r)
  /\ Handlers(r) = {w \in Handlers(s) : w.on # e}

(* A handler that is due is dropped, another one is kept.                  *)
LEMMA KeepIs ==
  ASSUME NEW t, DialogHolds(t), NEW x \in Entries
  PROVE  LET r == Keep(t, x)
         IN  /\ x.due => r = t
             /\ ~x.due => /\ DialogHolds(r) /\ Requeued(t, r)
                          /\ Handlers(r) = Handlers(t) \cup {x.handler}
<1> DEFINE q == Append(t.pending, x.handler)
           r == [t EXCEPT !.pending = q]
<1>1. x.handler \in Pending /\ t.pending \in Seq(Pending)
  BY DEF Entries, DialogHolds, DialogStates
<1>2. /\ q \in Seq(Pending)
      /\ {q[i] : i \in 1 .. Len(q)} = {t.pending[i] : i \in 1 .. Len(t.pending)} \cup {x.handler}
  BY <1>1, HandlersAppended
<1>3. Keep(t, x) = IF x.due THEN t ELSE r
  BY DEF Keep
<1> HIDE DEF q
<1>4. DialogHolds(r) /\ Requeued(t, r) /\ r.pending = q
  BY <1>2, QueueSet
<1> HIDE DEF r
<1> QED BY <1>2, <1>3, <1>4 DEF Handlers

(* What holds of the handlers kept among k - 1 holds among k.              *)
LEMMA KeepMore ==
  ASSUME NEW s, DialogHolds(s), NEW e, NEW k \in 1 .. Len(s.pending), NEW t,
         KeptSoFar(s, e, k - 1, t)
  PROVE  KeptSoFar(s, e, k, Keep(t, Queue(s, e)[k]))
<1> DEFINE x == Queue(s, e)[k]
           r == Keep(t, x)
           w == s.pending[k]
<1>1. x \in Entries /\ x.handler = w /\ (x.due <=> w.on = e)
  BY QueueIs
<1> HIDE DEF x
<1>2. x.due => r = t
  BY <1>1, KeepIs DEF KeptSoFar
<1>3. ~x.due => DialogHolds(r) /\ Requeued(t, r) /\ Handlers(r) = Handlers(t) \cup {w}
  BY <1>1, KeepIs DEF KeptSoFar
<1>4. {s.pending[i] : i \in 1 .. k} = {s.pending[i] : i \in 1 .. k - 1} \cup {w}
  <2>1. 1 .. k = (1 .. k - 1) \cup {k}
    OBVIOUS
  <2> QED BY <2>1
<1> HIDE DEF r, w
<1>5. DialogHolds(r) /\ Requeued(s, r)
  BY <1>2, <1>3 DEF KeptSoFar, Requeued
<1>6. Handlers(r) = {v \in {s.pending[i] : i \in 1 .. k} : v.on # e}
  BY <1>1, <1>2, <1>3, <1>4 DEF KeptSoFar
<1> QED BY <1>5, <1>6 DEF KeptSoFar, r, x

(* Without keeps those of the other elements, and nothing else changes.    *)
LEMMA Withouts ==
  ASSUME NEW s, DialogHolds(s), NEW e
  PROVE  WithoutIs(s, e, Without(s, e))
<1> DEFINE q == Queue(s, e)
           b == [s EXCEPT !.pending = <<>>]
           V == {t \in DialogStates : DialogHolds(t)}
           S == [k \in 0 .. Len(q) |-> {t \in V : KeptSoFar(s, e, k, t)}]
<1>1. /\ q \in Seq(Entries) /\ Len(q) = Len(s.pending) /\ Len(q) \in Nat
  BY QueueIs
<1>2. DialogHolds(b) /\ Requeued(s, b) /\ b.pending = <<>>
  <2>1. <<>> \in Seq(Pending)
    OBVIOUS
  <2> QED BY <2>1, QueueSet
<1>3. Without(s, e) = FoldLeft(Keep, b, q)
  BY DEF Without
<1> HIDE DEF b, q
<1>4. KeptSoFar(s, e, 0, b)
  <2>1. Len(<<>>) = 0 /\ 1 .. 0 = {}
    OBVIOUS
  <2> QED BY <1>2, <2>1 DEF KeptSoFar, Handlers
<1>5. \A t \in V, x \in Entries : Keep(t, x) \in V
  BY KeepIs DEF DialogHolds
<1>6. b \in S[0] /\ S \in [0 .. Len(q) -> SUBSET V]
  BY <1>1, <1>4 DEF KeptSoFar, DialogHolds
<1>7. \A i \in 1 .. Len(q) : \A t \in S[i - 1] : Keep(t, q[i]) \in S[i]
  <2> SUFFICES ASSUME NEW i \in 1 .. Len(q), NEW t \in S[i - 1]
               PROVE  Keep(t, q[i]) \in S[i]
    OBVIOUS
  <2>1. i - 1 \in 0 .. Len(q) /\ i \in 0 .. Len(q) /\ q[i] \in Entries
    BY <1>1
  <2>2. t \in V /\ KeptSoFar(s, e, i - 1, t)
    BY <2>1
  <2>3. KeptSoFar(s, e, i, Keep(t, q[i]))
    BY <1>1, <2>2, KeepMore DEF q
  <2> QED BY <1>5, <2>1, <2>2, <2>3
<1>8. FoldLeft(Keep, b, q) \in S[Len(q)]
  <2> HIDE DEF S, V
  <2> QED BY <1>1, <1>5, <1>6, <1>7, KeepFolds
<1> QED BY <1>1, <1>3, <1>8 DEF KeptSoFar, WithoutIs, Handlers

-----------------------------------------------------------------------------
HandlerOf(element, name, ticks) ==
  [on |-> element, callback |-> name, ticks |-> ticks]

Places == {"element", "dialog", "backdrop"} \X Nat
Names == {"reveal", "shown", "hideModal", "remove", "hidden"}

Awaited(s, w, r) ==
  DialogHolds(r) /\ Requeued(s, r) /\ Handlers(r) = Handlers(s) \cup {w}

(* With a fade a callback waits, without one it has run.                   *)
LEMMA AwaitIs ==
  ASSUME NEW s, DialogHolds(s), NEW element \in Places, NEW name \in Names,
         NEW ticks \in 0 .. 2, NEW done
  PROVE  IF options.fade
         THEN Awaited(s, HandlerOf(element, name, ticks),
                      Await(s, element, name, ticks, done))
         ELSE Await(s, element, name, ticks, done) = done
<1> DEFINE w == HandlerOf(element, name, ticks)
           q == Append(s.pending, w)
           r == [s EXCEPT !.pending = q]
<1>1. w \in Pending /\ s.pending \in Seq(Pending)
  BY DEF HandlerOf, Pending, Places, Names, DialogHolds, DialogStates
<1>2. Await(s, element, name, ticks, done) = IF options.fade THEN r ELSE done
  BY DEF Await, HandlerOf
<1> HIDE DEF w
<1>3. /\ q \in Seq(Pending)
      /\ {q[i] : i \in 1 .. Len(q)} = {s.pending[i] : i \in 1 .. Len(s.pending)} \cup {w}
  BY <1>1, HandlersAppended
<1> HIDE DEF q
<1>4. DialogHolds(r) /\ Requeued(s, r) /\ r.pending = q
  BY <1>3, QueueSet
<1> HIDE DEF r
<1>5. Awaited(s, w, r)
  BY <1>3, <1>4 DEF Awaited, Handlers
<1> QED BY <1>2, <1>5 DEF w

(* The element, the dialog and the backdrops are different places.         *)
LEMMA TheAreas ==
  /\ TheElement \in Places /\ TheDialog \in Places /\ TheElement # TheDialog
  /\ \A n \in Nat : /\ TheBackdrop(n) \in Places /\ TheBackdrop(n) # TheDialog
                    /\ TheBackdrop(n) # TheElement
BY DEF TheElement, TheDialog, TheBackdrop, Places

RevealedIs(s, r) ==
  /\ DialogHolds(r) /\ r.displayed /\ r.guard
  /\ Handlers(r) = Handlers(s)
     \/ Handlers(r) = Handlers(s) \cup {HandlerOf(TheDialog, "shown", 2)}
  /\ r.isShown = s.isShown /\ r.modalOpen = s.modalOpen
  /\ r.backdrop = s.backdrop /\ r.overlays = s.overlays
  /\ r.created = s.created /\ r.padding = s.padding
  /\ r.originalBodyPad = s.originalBodyPad
  /\ r.clickHandlers = s.clickHandlers
  /\ r.ignoreBackdropClick = s.ignoreBackdropClick /\ r.armed = s.armed
  /\ r.restorer = s.restorer /\ r.shows = s.shows /\ r.rushed = s.rushed

(* What the second half of show makes of a dialog.                         *)
LEMMA Reveals ==
  ASSUME NEW s, DialogHolds(s) PROVE RevealedIs(s, Reveal(s))
<1> DEFINE t == [s EXCEPT !.displayed = TRUE, !.guard = TRUE]
           r == Reveal(s)
<1>1. /\ DialogHolds(t) /\ t.displayed /\ t.guard
      /\ t.isShown = s.isShown /\ t.modalOpen = s.modalOpen
      /\ t.backdrop = s.backdrop /\ t.overlays = s.overlays
      /\ t.created = s.created /\ t.padding = s.padding
      /\ t.originalBodyPad = s.originalBodyPad
      /\ t.clickHandlers = s.clickHandlers
      /\ t.ignoreBackdropClick = s.ignoreBackdropClick /\ t.focus = s.focus
      /\ t.armed = s.armed /\ t.restorer = s.restorer /\ t.pending = s.pending
      /\ t.shows = s.shows /\ t.rushed = s.rushed
  BY DEF DialogHolds, DialogStates
<1>2. r = Await(t, TheDialog, "shown", 2, Shown(t))
  BY DEF Reveal
<1> HIDE DEF t, r
<1>3. IF options.fade THEN Awaited(t, HandlerOf(TheDialog, "shown", 2), r)
                      ELSE r = Shown(t)
  BY <1>1, <1>2, AwaitIs, TheAreas DEF Names
<1>4. FocusSetTo(t, t.focus, Shown(t))
  BY <1>1, FocusIs DEF Shown
<1>5. Handlers(t) = Handlers(s)
  BY <1>1 DEF Handlers
<1>6. options.fade => RevealedIs(s, r)
  BY <1>1, <1>3, <1>5 DEF Awaited, Requeued, RevealedIs
<1>7. ASSUME ~options.fade PROVE RevealedIs(s, r)
  <2>1. FocusSetTo(t, t.focus, r)
    BY <1>3, <1>4, <1>7
  <2>2. Handlers(r) = Handlers(s)
    BY <1>5, <2>1 DEF FocusSetTo, Refocused, Handlers
  <2> QED BY <1>1, <2>1, <2>2 DEF FocusSetTo, Refocused, RevealedIs
<1> QED BY <1>6, <1>7 DEF r

RemovedIs(s, r) ==
  /\ DialogHolds(r) /\ r.overlays = s.overlays \ {s.backdrop} /\ r.backdrop = 0
  /\ Handlers(r) = {w \in Handlers(s) : w.on # TheBackdrop(s.backdrop)}
  /\ r.isShown = s.isShown /\ r.displayed = s.displayed
  /\ r.modalOpen = s.modalOpen /\ r.created = s.created
  /\ r.padding = s.padding /\ r.originalBodyPad = s.originalBodyPad
  /\ r.guard = s.guard /\ r.clickHandlers = s.clickHandlers
  /\ r.ignoreBackdropClick = s.ignoreBackdropClick /\ r.focus = s.focus
  /\ r.armed = s.armed /\ r.restorer = s.restorer /\ r.shows = s.shows
  /\ r.rushed = s.rushed

(* What removeBackdrop makes of it.                                        *)
LEMMA Removes ==
  ASSUME NEW s, DialogHolds(s) PROVE RemovedIs(s, RemoveBackdrop(s))
<1> DEFINE t == [s EXCEPT !.overlays = s.overlays \ {s.backdrop}, !.backdrop = 0]
           r == RemoveBackdrop(s)
<1>1. /\ DialogHolds(t) /\ t.overlays = s.overlays \ {s.backdrop} /\ t.backdrop = 0
      /\ t.isShown = s.isShown /\ t.displayed = s.displayed
      /\ t.modalOpen = s.modalOpen /\ t.created = s.created
      /\ t.padding = s.padding /\ t.originalBodyPad = s.originalBodyPad
      /\ t.guard = s.guard /\ t.clickHandlers = s.clickHandlers
      /\ t.ignoreBackdropClick = s.ignoreBackdropClick /\ t.focus = s.focus
      /\ t.armed = s.armed /\ t.restorer = s.restorer /\ t.pending = s.pending
      /\ t.shows = s.shows /\ t.rushed = s.rushed
  BY DEF DialogHolds, DialogStates
<1>2. r = Without(t, TheBackdrop(s.backdrop))
  BY DEF RemoveBackdrop
<1> HIDE DEF t, r
<1>3. WithoutIs(t, TheBackdrop(s.backdrop), r)
  BY <1>1, <1>2, Withouts
<1>4. Handlers(t) = Handlers(s)
  BY <1>1 DEF Handlers
<1> QED BY <1>1, <1>3, <1>4 DEF WithoutIs, Requeued, RemovedIs, r

AddedIs(s, r) ==
  /\ DialogHolds(r) /\ r.backdrop = s.created + 1
  /\ r.overlays = s.overlays \cup {r.backdrop}
  /\ r.isShown = s.isShown /\ r.displayed = s.displayed
  /\ r.modalOpen = s.modalOpen /\ r.padding = s.padding
  /\ r.originalBodyPad = s.originalBodyPad /\ r.guard = s.guard
  /\ r.ignoreBackdropClick = s.ignoreBackdropClick /\ r.focus = s.focus
  /\ r.armed = s.armed /\ r.restorer = s.restorer /\ r.pending = s.pending
  /\ r.shows = s.shows /\ r.rushed = s.rushed

(* What adding a backdrop makes of it.                                     *)
LEMMA Adds ==
  ASSUME NEW s, DialogHolds(s) PROVE AddedIs(s, AddBackdrop(s))
<1> DEFINE n == s.created + 1
           o == s.overlays \cup {n}
           c == s.clickHandlers + 1
           r == [s EXCEPT !.created = n, !.overlays = o, !.backdrop = n,
                          !.clickHandlers = c]
<1>1. AddBackdrop(s) = r
  BY DEF AddBackdrop
<1>2. n \in Nat /\ s.created \in Nat /\ s.overlays \subseteq 1 .. s.created
  BY DEF DialogHolds, DialogStates
<1>3. o \subseteq 1 .. n /\ o \in SUBSET Nat /\ c \in Nat
  BY <1>2 DEF DialogHolds, DialogStates
<1> HIDE DEF n, o, c
<1>4. /\ r \in DialogStates /\ r.created = n /\ r.backdrop = n /\ r.overlays = o
      /\ r.isShown = s.isShown /\ r.displayed = s.displayed
      /\ r.modalOpen = s.modalOpen /\ r.padding = s.padding
      /\ r.originalBodyPad = s.originalBodyPad /\ r.guard = s.guard
      /\ r.ignoreBackdropClick = s.ignoreBackdropClick /\ r.focus = s.focus
      /\ r.armed = s.armed /\ r.restorer = s.restorer /\ r.pending = s.pending
      /\ r.shows = s.shows /\ r.rushed = s.rushed
  BY <1>2, <1>3 DEF DialogHolds, DialogStates
<1> HIDE DEF r
<1>5. n \in o
  BY DEF o
<1> QED BY <1>1, <1>3, <1>4, <1>5 DEF AddedIs, DialogHolds, n, o

HiddenIs(s, r) ==
  /\ DialogHolds(r) /\ ~r.modalOpen /\ r.padding = s.originalBodyPad
  /\ r.restorer = "none"
  /\ ~s.displayed => r.focus = IF s.restorer = "none" THEN s.focus ELSE s.restorer
  /\ r.isShown = s.isShown /\ r.displayed = s.displayed
  /\ r.backdrop = s.backdrop /\ r.overlays = s.overlays
  /\ r.created = s.created /\ r.originalBodyPad = s.originalBodyPad
  /\ r.guard = s.guard /\ r.clickHandlers = s.clickHandlers
  /\ r.ignoreBackdropClick = s.ignoreBackdropClick /\ r.armed = s.armed
  /\ r.pending = s.pending /\ r.shows = s.shows /\ r.rushed = s.rushed

(* What the hidden event makes of it.                                      *)
LEMMA Hides ==
  ASSUME NEW s, DialogHolds(s) PROVE HiddenIs(s, Hidden(s))
<1> DEFINE t == [s EXCEPT !.modalOpen = FALSE, !.padding = s.originalBodyPad,
                          !.restorer = "none"]
           r == Hidden(s)
<1>1. /\ DialogHolds(t) /\ ~t.modalOpen /\ t.padding = s.originalBodyPad
      /\ t.restorer = "none"
      /\ t.isShown = s.isShown /\ t.displayed = s.displayed
      /\ t.backdrop = s.backdrop /\ t.overlays = s.overlays
      /\ t.created = s.created /\ t.originalBodyPad = s.originalBodyPad
      /\ t.guard = s.guard /\ t.clickHandlers = s.clickHandlers
      /\ t.ignoreBackdropClick = s.ignoreBackdropClick /\ t.focus = s.focus
      /\ t.armed = s.armed /\ t.pending = s.pending /\ t.shows = s.shows
      /\ t.rushed = s.rushed
  BY DEF DialogHolds, DialogStates
<1>2. r = IF s.restorer = "none" THEN t ELSE FocusOn(t, s.restorer)
  BY DEF Hidden
<1>3. s.restorer # "none" => s.restorer \in Focus
  BY DEF DialogHolds, DialogStates, Focus
<1> HIDE DEF t, r
<1>4. s.restorer # "none" => FocusSetTo(t, s.restorer, FocusOn(t, s.restorer))
  BY <1>1, <1>3, FocusOnIs
<1>5. CASE s.restorer = "none"
  BY <1>1, <1>2, <1>5 DEF HiddenIs, r
<1>6. CASE s.restorer # "none"
  BY <1>1, <1>2, <1>4, <1>6 DEF HiddenIs, FocusSetTo, Refocused, r
<1> QED BY <1>5, <1>6

-----------------------------------------------------------------------------
(* The handlers that wait besides those of shown.bs.modal, and where.      *)
Place(s, callback) ==
  IF callback = "shown" THEN TheDialog
  ELSE IF callback = "hideModal" THEN TheElement ELSE TheBackdrop(s.backdrop)

OnlyWaits(s, these) ==
  /\ \A c \in these : \E w \in Handlers(s) : w.callback = c
  /\ \A w \in Handlers(s) : /\ w.callback \in these \cup {"shown"}
                           /\ w.on = Place(s, w.callback)

Covered(s) ==
  /\ s.modalOpen /\ s.originalBodyPad = 0 /\ s.restorer \in Openers
  /\ s.overlays = IF options.backdrop = "false" THEN {} ELSE {s.backdrop}
  /\ options.backdrop = "false" <=> s.backdrop = 0

(* Where a dialog that is not opened too soon can be.                      *)
IsClosed(s) ==
  /\ ~s.isShown /\ ~s.displayed /\ s.overlays = {} /\ s.backdrop = 0 /\ ~s.modalOpen
  /\ s.padding = 0 /\ s.originalBodyPad = 0 /\ s.restorer = "none"
  /\ s.shows > 0 => s.focus \in Openers
  /\ OnlyWaits(s, {})

IsRevealing(s) ==
  /\ s.isShown /\ ~s.displayed /\ Covered(s) /\ options.fade
  /\ OnlyWaits(s, {"reveal"})
  /\ \A w \in Handlers(s) : w.callback = "reveal" => w.ticks <= 1

IsOpen(s) == s.isShown /\ s.displayed /\ s.guard /\ Covered(s) /\ OnlyWaits(s, {})

IsInterrupted(s) ==
  /\ ~s.isShown /\ ~s.displayed /\ Covered(s) /\ OnlyWaits(s, {"reveal", "hideModal"})
  /\ \A v, w \in Handlers(s) :
       v.callback = "reveal" /\ w.callback = "hideModal" => v.ticks < w.ticks

IsHiding(s) ==
  ~s.isShown /\ s.displayed /\ Covered(s) /\ OnlyWaits(s, {"hideModal"})

IsRemoving(s) ==
  /\ ~s.isShown /\ ~s.displayed /\ Covered(s) /\ s.backdrop # 0
  /\ OnlyWaits(s, {"remove"})

InPhase(s) == \/ IsClosed(s) \/ IsRevealing(s) \/ IsOpen(s)
              \/ IsInterrupted(s) \/ IsHiding(s) \/ IsRemoving(s)

DialogKept(s) == DialogHolds(s) /\ (~s.rushed => InPhase(s))

(* The phases tell only this much of a state apart.                        *)
SamePhase(s, r) ==
  /\ r.isShown = s.isShown /\ r.displayed = s.displayed /\ r.guard = s.guard
  /\ r.overlays = s.overlays /\ r.backdrop = s.backdrop /\ r.modalOpen = s.modalOpen
  /\ r.padding = s.padding /\ r.originalBodyPad = s.originalBodyPad
  /\ r.restorer = s.restorer /\ r.shows = s.shows /\ r.rushed = s.rushed
  /\ ~s.displayed => (s.focus \in Openers => r.focus \in Openers)

(* The same handlers wait, d ticks later, but perhaps for shown.bs.modal.  *)
SameSteps(s, r, d) ==
  /\ \A w \in Handlers(r) : \E v \in Handlers(s) :
       w.callback = v.callback /\ w.on = v.on /\ w.ticks = v.ticks - d
  /\ \A v \in Handlers(s) : v.callback # "shown" =>
       \E w \in Handlers(r) : w.callback = v.callback

(* Who keeps what the phases speak of keeps the phase.                     *)
LEMMA PhaseKept ==
  ASSUME NEW s, DialogKept(s), NEW r, DialogHolds(r), SamePhase(s, r),
         NEW d \in 0 .. 1, SameSteps(s, r, d)
  PROVE  DialogKept(r)
<1>1. ASSUME NEW these, "shown" \notin these, OnlyWaits(s, these)
      PROVE  OnlyWaits(r, these)
  BY <1>1 DEF OnlyWaits, Place, SamePhase, SameSteps
<1>2. /\ \A c : c # "shown" => (OnlyWaits(s, {c}) => OnlyWaits(r, {c}))
      /\ OnlyWaits(s, {}) => OnlyWaits(r, {})
      /\ OnlyWaits(s, {"reveal", "hideModal"}) => OnlyWaits(r, {"reveal", "hideModal"})
  BY <1>1
<1>3. Covered(s) => Covered(r)
  BY DEF Covered, SamePhase
<1>4. \A v \in Handlers(s) : v.ticks \in Nat
  BY HandlersPending DEF DialogKept
<1>5. IsClosed(s) => IsClosed(r)
  BY <1>2 DEF IsClosed, SamePhase
<1>6. IsRevealing(s) => IsRevealing(r)
  <2>1. ASSUME IsRevealing(s), NEW w \in Handlers(r), w.callback = "reveal"
        PROVE  w.ticks <= 1
    <3>1. PICK x \in Handlers(s) : w.callback = x.callback /\ w.ticks = x.ticks - d
      BY DEF SameSteps
    <3>2. x.ticks <= 1
      BY <2>1, <3>1 DEF IsRevealing
    <3> QED BY <1>4, <3>1, <3>2
  <2>2. OnlyWaits(s, {"reveal"}) => OnlyWaits(r, {"reveal"})
    BY <1>2
  <2> QED BY <1>3, <2>1, <2>2 DEF IsRevealing, SamePhase
<1>7. IsOpen(s) => IsOpen(r)
  BY <1>2, <1>3 DEF IsOpen, SamePhase
<1>8. IsInterrupted(s) => IsInterrupted(r)
  <2>1. ASSUME IsInterrupted(s), NEW v \in Handlers(r), NEW w \in Handlers(r),
               v.callback = "reveal", w.callback = "hideModal"
        PROVE  v.ticks < w.ticks
    <3>1. PICK x \in Handlers(s) : v.callback = x.callback /\ v.ticks = x.ticks - d
      BY DEF SameSteps
    <3>2. PICK y \in Handlers(s) : w.callback = y.callback /\ w.ticks = y.ticks - d
      BY DEF SameSteps
    <3>3. x.ticks < y.ticks
      BY <2>1, <3>1, <3>2 DEF IsInterrupted
    <3> QED BY <1>4, <3>1, <3>2, <3>3
  <2> QED BY <1>2, <1>3, <2>1 DEF IsInterrupted, SamePhase
<1>9. IsHiding(s) => IsHiding(r)
  BY <1>2, <1>3 DEF IsHiding, SamePhase
<1>10. IsRemoving(s) => IsRemoving(r)
  BY <1>2, <1>3 DEF IsRemoving, SamePhase
<1> QED BY <1>5, <1>6, <1>7, <1>8, <1>9, <1>10 DEF DialogKept, InPhase, SamePhase

(* The same when no handler comes or goes.                                 *)
LEMMA StepsKept ==
  ASSUME NEW s, DialogKept(s), NEW r, DialogHolds(r), SamePhase(s, r),
         Handlers(r) = Handlers(s)
  PROVE  DialogKept(r)
<1>1. \A v \in Handlers(s) : v.ticks - 0 = v.ticks
  <2>1. \A v \in Handlers(s) : v.ticks \in Nat
    BY HandlersPending DEF DialogKept
  <2> QED BY <2>1
<1>2. SameSteps(s, r, 0)
  BY <1>1 DEF SameSteps
<1> QED BY <1>2, PhaseKept

(* One handler more waits, at its place.                                   *)
LEMMA OneWaits ==
  ASSUME NEW s, NEW these, OnlyWaits(s, these), NEW r, r.backdrop = s.backdrop,
         NEW name, NEW ticks,
         Handlers(r) = Handlers(s) \cup {HandlerOf(Place(s, name), name, ticks)}
  PROVE  OnlyWaits(r, these \cup {name})
<1> DEFINE w == HandlerOf(Place(s, name), name, ticks)
<1>1. w.callback = name /\ w.on = Place(s, name)
  BY DEF HandlerOf
<1>2. \A c : Place(r, c) = Place(s, c)
  BY DEF Place
<1> HIDE DEF w
<1>3. Handlers(r) = Handlers(s) \cup {w}
  BY DEF w
<1> QED BY <1>1, <1>2, <1>3 DEF OnlyWaits

(* The shown event may wait besides.                                       *)
LEMMA StillWaits ==
  ASSUME NEW s, NEW these, OnlyWaits(s, these), NEW r, r.backdrop = s.backdrop,
         NEW ticks,
         \/ Handlers(r) = Handlers(s)
         \/ Handlers(r) = Handlers(s) \cup {HandlerOf(TheDialog, "shown", ticks)}
  PROVE  OnlyWaits(r, these)
<1> DEFINE w == HandlerOf(TheDialog, "shown", ticks)
<1>1. w.callback = "shown" /\ w.on = TheDialog
  BY DEF HandlerOf
<1>2. \A c : Place(r, c) = Place(s, c)
  BY DEF Place
<1> HIDE DEF w
<1>3. Handlers(r) = Handlers(s) \/ Handlers(r) = Handlers(s) \cup {w}
  BY DEF w
<1>4. w.on = Place(s, "shown")
  BY <1>1 DEF Place
<1> QED BY <1>1, <1>2, <1>3, <1>4 DEF OnlyWaits

-----------------------------------------------------------------------------
(* hideModal: what it begins with, and its outcomes.                       *)
Undisplayed(s) ==
  [s EXCEPT !.displayed = FALSE, !.focus = IF s.focus = "dialog" THEN "body" ELSE s.focus]

UndisplayedIs(s, t) ==
  /\ DialogHolds(t) /\ ~t.displayed /\ Handlers(t) = Handlers(s)
  /\ t.focus = IF s.focus = "dialog" THEN "body" ELSE s.focus
  /\ t.isShown = s.isShown /\ t.modalOpen = s.modalOpen
  /\ t.backdrop = s.backdrop /\ t.overlays = s.overlays
  /\ t.created = s.created /\ t.padding = s.padding
  /\ t.originalBodyPad = s.originalBodyPad /\ t.guard = s.guard
  /\ t.clickHandlers = s.clickHandlers
  /\ t.ignoreBackdropClick = s.ignoreBackdropClick /\ t.armed = s.armed
  /\ t.restorer = s.restorer /\ t.pending = s.pending /\ t.shows = s.shows
  /\ t.rushed = s.rushed

(* What the first half of hideModal makes of a dialog.                     *)
LEMMA Undisplays ==
  ASSUME NEW s, DialogHolds(s) PROVE UndisplayedIs(s, Undisplayed(s))
<1> DEFINE f == IF s.focus = "dialog" THEN "body" ELSE s.focus
           t == [s EXCEPT !.displayed = FALSE, !.focus = f]
<1>1. f \in Focus
  BY DEF Focus, DialogHolds, DialogStates
<1>2. Undisplayed(s) = t
  BY DEF Undisplayed
<1> HIDE DEF f
<1>3. /\ DialogHolds(t) /\ ~t.displayed /\ t.focus = f
      /\ t.isShown = s.isShown /\ t.modalOpen = s.modalOpen
      /\ t.backdrop = s.backdrop /\ t.overlays = s.overlays
      /\ t.created = s.created /\ t.padding = s.padding
      /\ t.originalBodyPad = s.originalBodyPad /\ t.guard = s.guard
      /\ t.clickHandlers = s.clickHandlers
      /\ t.ignoreBackdropClick = s.ignoreBackdropClick /\ t.armed = s.armed
      /\ t.restorer = s.restorer /\ t.pending = s.pending /\ t.shows = s.shows
      /\ t.rushed = s.rushed
  BY <1>1 DEF DialogHolds, DialogStates
<1> HIDE DEF t
<1>4. Handlers(t) = Handlers(s)
  BY <1>3 DEF Handlers
<1> QED BY <1>2, <1>3, <1>4 DEF UndisplayedIs, f

(* hideModal goes on to the backdrop if there is one.                      *)
LEMMA HideModalIs ==
  ASSUME options \in Options, NEW s, DialogHolds(s)
  PROVE  LET t == Undisplayed(s)
             r == HideModal(s)
             remover == HandlerOf(TheBackdrop(s.backdrop), "remove", 1)
         IN  /\ DialogHolds(r) /\ r.rushed = s.rushed
             /\ ~s.isShown =>
                  IF s.backdrop = 0 THEN HiddenIs(t, r)
                  ELSE IF options.fade THEN Awaited(t, remover, r)
                  ELSE HiddenIs(RemoveBackdrop(t), r)
<1> DEFINE t == Undisplayed(s)
           r == HideModal(s)
           a == AddBackdrop(t)
           m == RemoveBackdrop(t)
           new == TheBackdrop(t.created + 1)
           old == TheBackdrop(t.backdrop)
           w == HandlerOf(TheBackdrop(s.backdrop), "remove", 1)
<1>1. UndisplayedIs(s, t)
  BY Undisplays
<1>2. r = IF t.isShown /\ options.backdrop # "false"
          THEN Await(a, new, "hidden", 1, Hidden(a))
          ELSE IF ~t.isShown /\ t.backdrop # 0
          THEN Await(t, old, "remove", 1, Hidden(m))
          ELSE Hidden(t)
  BY DEF HideModal, Backdrop, BackdropAtOnce, Undisplayed
<1> HIDE DEF t, r
<1>3. DialogHolds(t) /\ t.backdrop = s.backdrop /\ t.isShown = s.isShown
      /\ t.rushed = s.rushed
  BY <1>1 DEF UndisplayedIs
<1>4. AddedIs(t, a) /\ RemovedIs(t, m)
  BY <1>3, Adds, Removes
<1>5. t.created + 1 \in Nat /\ t.backdrop \in Nat
  BY <1>3 DEF DialogHolds, DialogStates
<1> HIDE DEF a, m
<1>6. DialogHolds(a) /\ DialogHolds(m) /\ a.rushed = s.rushed /\ m.rushed = s.rushed
  BY <1>3, <1>4 DEF AddedIs, RemovedIs
<1>7. HiddenIs(a, Hidden(a)) /\ HiddenIs(m, Hidden(m)) /\ HiddenIs(t, Hidden(t))
  BY <1>3, <1>6, Hides
<1>8. new \in Places /\ old \in Places
  BY <1>5, TheAreas
<1> HIDE DEF new, old
<1>9. /\ IF options.fade
         THEN Awaited(a, HandlerOf(new, "hidden", 1), Await(a, new, "hidden", 1, Hidden(a)))
         ELSE Await(a, new, "hidden", 1, Hidden(a)) = Hidden(a)
      /\ IF options.fade
         THEN Awaited(t, HandlerOf(old, "remove", 1), Await(t, old, "remove", 1, Hidden(m)))
         ELSE Await(t, old, "remove", 1, Hidden(m)) = Hidden(m)
  BY <1>3, <1>6, <1>8, AwaitIs DEF Names
<1>10. HandlerOf(old, "remove", 1) = w
  BY <1>3 DEF old
<1> HIDE DEF w
<1>11. DialogHolds(r) /\ r.rushed = s.rushed
  BY <1>2, <1>3, <1>6, <1>7, <1>9 DEF Awaited, Requeued, HiddenIs
<1>12. ~s.isShown => IF s.backdrop = 0 THEN HiddenIs(t, r)
                     ELSE IF options.fade THEN Awaited(t, w, r) ELSE HiddenIs(m, r)
  BY <1>2, <1>3, <1>7, <1>9, <1>10
<1> QED BY <1>11, <1>12 DEF t, r, m, w

(* A dialog that is not shown, once it is no longer displayed.             *)
Folding(s) ==
  \/ IsClosed(s)
  \/ /\ ~s.isShown /\ Covered(s)
     /\ OnlyWaits(s, {}) \/ (OnlyWaits(s, {"remove"}) /\ s.backdrop # 0)

(* After the hidden event a dialog with nothing left is closed.            *)
LEMMA HiddenCloses ==
  ASSUME NEW s, DialogHolds(s), ~s.isShown, ~s.displayed, s.overlays = {},
         s.backdrop = 0, s.originalBodyPad = 0, OnlyWaits(s, {}),
         \/ s.restorer \in Openers
         \/ s.restorer = "none" /\ (s.shows > 0 => s.focus \in Openers),
         NEW r, HiddenIs(s, r)
  PROVE  IsClosed(r)
<1>1. Handlers(r) = Handlers(s)
  BY DEF Handlers, HiddenIs
<1>2. r.backdrop = s.backdrop
  BY DEF HiddenIs
<1>3. OnlyWaits(r, {})
  BY <1>1, <1>2 DEF OnlyWaits, Place
<1>4. s.restorer \in Openers => s.restorer # "none"
  BY OpenersAssumption
<1> QED BY <1>3, <1>4 DEF HiddenIs, IsClosed

(* hideModal leads from hiding to removing, or to closed.                  *)
LEMMA HideModalLeads ==
  ASSUME options \in Options, NEW s, DialogHolds(s), Folding(s)
  PROVE  IsRemoving(HideModal(s)) \/ IsClosed(HideModal(s))
<1> DEFINE t == Undisplayed(s)
           r == HideModal(s)
           m == RemoveBackdrop(t)
           b == TheBackdrop(s.backdrop)
           w == HandlerOf(b, "remove", 1)
<1>1. UndisplayedIs(s, t)
  BY Undisplays
<1>2. ~s.isShown
  BY DEF Folding, IsClosed
<1>3. IF s.backdrop = 0 THEN HiddenIs(t, r)
      ELSE IF options.fade THEN Awaited(t, w, r) ELSE HiddenIs(m, r)
  BY <1>2, HideModalIs
<1> HIDE DEF t, r
<1>4. DialogHolds(t) /\ t.backdrop = s.backdrop /\ ~t.isShown /\ ~t.displayed
      /\ t.overlays = s.overlays /\ t.originalBodyPad = s.originalBodyPad
      /\ t.restorer = s.restorer /\ t.shows = s.shows /\ t.modalOpen = s.modalOpen
      /\ Handlers(t) = Handlers(s)
  BY <1>1, <1>2 DEF UndisplayedIs
<1>5. \A these : OnlyWaits(s, these) => OnlyWaits(t, these)
  BY <1>4 DEF OnlyWaits, Place
<1>6. s.focus \in Openers => t.focus \in Openers
  BY <1>1, OpenersAssumption DEF UndisplayedIs
<1>7. RemovedIs(t, m)
  BY <1>4, Removes
<1> HIDE DEF m
<1>8. CASE IsClosed(s)
  <2>1. HiddenIs(t, r)
    BY <1>3, <1>8 DEF IsClosed
  <2>2. IsClosed(r)
    BY <1>4, <1>5, <1>6, <1>8, <2>1, HiddenCloses DEF IsClosed
  <2> QED BY <2>2 DEF r
<1>9. CASE /\ Covered(s)
           /\ OnlyWaits(s, {}) \/ (OnlyWaits(s, {"remove"}) /\ s.backdrop # 0)
  <2>1. Covered(t)
    BY <1>4, <1>9 DEF Covered
  <2>2. CASE s.backdrop = 0
    <3>1. HiddenIs(t, r) /\ t.overlays = {} /\ OnlyWaits(t, {})
      BY <1>3, <1>4, <1>5, <1>9, <2>1, <2>2 DEF Covered
    <3>2. IsClosed(r)
      BY <1>4, <2>1, <2>2, <3>1, HiddenCloses DEF Covered
    <3> QED BY <3>2 DEF r
  <2>3. CASE s.backdrop # 0 /\ options.fade
    <3>1. Awaited(t, w, r)
      BY <1>3, <2>3
    <3>2. b = Place(t, "remove")
      BY <1>4 DEF Place
    <3>3. r.backdrop = t.backdrop
      BY <3>1 DEF Awaited, Requeued
    <3>4. OnlyWaits(r, {"remove"})
      <4>1. Handlers(r) = Handlers(t) \cup {HandlerOf(Place(t, "remove"), "remove", 1)}
        BY <3>1, <3>2 DEF Awaited
      <4>2. OnlyWaits(t, {}) => OnlyWaits(r, {} \cup {"remove"})
        BY <3>3, <4>1, OneWaits
      <4>3. OnlyWaits(t, {"remove"}) => OnlyWaits(r, {"remove"} \cup {"remove"})
        BY <3>3, <4>1, OneWaits
      <4>4. {} \cup {"remove"} = {"remove"} /\ {"remove"} \cup {"remove"} = {"remove"}
        OBVIOUS
      <4> QED BY <1>5, <1>9, <4>2, <4>3, <4>4
    <3>5. IsRemoving(r)
      BY <1>4, <2>1, <2>3, <3>1, <3>4 DEF IsRemoving, Covered, Awaited, Requeued
    <3> QED BY <3>5 DEF r
  <2>4. CASE s.backdrop # 0 /\ ~options.fade
    <3>1. HiddenIs(m, r)
      BY <1>3, <2>4
    <3>2. m.overlays = {} /\ m.backdrop = 0
      BY <1>4, <1>7, <2>1 DEF RemovedIs, Covered
    <3>3. OnlyWaits(m, {})
      BY <1>4, <1>5, <1>7, <1>9 DEF RemovedIs, OnlyWaits, Place
    <3>4. IsClosed(r)
      BY <1>4, <1>7, <2>1, <3>1, <3>2, <3>3, HiddenCloses DEF Covered, RemovedIs
    <3> QED BY <3>4 DEF r
  <2> QED BY <2>2, <2>3, <2>4
<1> QED BY <1>8, <1>9 DEF Folding

(* The callback of the backdrop leads to open, or back to hiding if the    *)
(* dialog was dismissed meanwhile.                                         *)
LEMMA RevealLeads ==
  ASSUME NEW s, DialogHolds(s), Covered(s)
  PROVE  LET r == Reveal(s)
         IN  /\ s.isShown /\ OnlyWaits(s, {}) => IsOpen(r)
             /\ ~s.isShown /\ OnlyWaits(s, {"hideModal"}) => IsHiding(r)
<1> DEFINE r == Reveal(s)
<1>1. RevealedIs(s, r)
  BY Reveals
<1> HIDE DEF r
<1>2. \A these : OnlyWaits(s, these) => OnlyWaits(r, these)
  BY <1>1, StillWaits DEF RevealedIs
<1>3. Covered(r)
  BY <1>1 DEF RevealedIs, Covered
<1> QED BY <1>1, <1>2, <1>3 DEF RevealedIs, IsOpen, IsHiding, r

-----------------------------------------------------------------------------
(* show, of a dialog that is closed.                                       *)
Begun(s) == [SetScrollbar(ShowEvent(s)) EXCEPT
               !.isShown = TRUE, !.modalOpen = TRUE, !.shows = @ + 1,
               !.rushed = @ \/ Hiding(s)]

BegunIs(s, t) ==
  /\ DialogHolds(t) /\ t.isShown /\ t.modalOpen /\ t.originalBodyPad = s.padding
  /\ t.restorer = IF s.armed = "none" THEN s.restorer ELSE s.armed
  /\ t.rushed <=> s.rushed \/ Hiding(s)
  /\ Handlers(t) = Handlers(s)
  /\ t.displayed = s.displayed /\ t.backdrop = s.backdrop
  /\ t.overlays = s.overlays /\ t.created = s.created /\ t.guard = s.guard
  /\ t.clickHandlers = s.clickHandlers
  /\ t.ignoreBackdropClick = s.ignoreBackdropClick /\ t.focus = s.focus
  /\ t.pending = s.pending

(* What the first half of show makes of a dialog.                          *)
LEMMA Begins ==
  ASSUME NEW s, DialogHolds(s) PROVE BegunIs(s, Begun(s))
<1> DEFINE u == ShowEvent(s)
           v == SetScrollbar(u)
           p == IF options.scrollbar /\ ~u.modalOpen THEN u.padding + 1 ELSE u.padding
           n == v.shows + 1
           h == Hiding(s)
           t == [v EXCEPT !.isShown = TRUE, !.modalOpen = TRUE, !.shows = n,
                          !.rushed = v.rushed \/ h]
<1>1. /\ DialogHolds(u)
      /\ u.restorer = IF s.armed = "none" THEN s.restorer ELSE s.armed
      /\ u.isShown = s.isShown /\ u.displayed = s.displayed
      /\ u.modalOpen = s.modalOpen /\ u.backdrop = s.backdrop
      /\ u.overlays = s.overlays /\ u.created = s.created
      /\ u.padding = s.padding /\ u.originalBodyPad = s.originalBodyPad
      /\ u.guard = s.guard /\ u.clickHandlers = s.clickHandlers
      /\ u.ignoreBackdropClick = s.ignoreBackdropClick /\ u.focus = s.focus
      /\ u.pending = s.pending /\ u.shows = s.shows /\ u.rushed = s.rushed
  <2>1. CASE s.armed = "none"
    BY <2>1 DEF ShowEvent
  <2>2. CASE s.armed # "none"
    <3> DEFINE k == s.armed
               w == [s EXCEPT !.restorer = k, !.armed = "none"]
    <3>1. s \in DialogStates /\ k \in Openers \cup {"none"}
      BY DEF DialogHolds, DialogStates
    <3>2. u = w
      BY <2>2 DEF ShowEvent
    <3> HIDE DEF k, u
    <3>3. w \in DialogStates /\ w.restorer = k
      BY <3>1 DEF DialogStates
    <3>4. /\ w.isShown = s.isShown /\ w.displayed = s.displayed
          /\ w.modalOpen = s.modalOpen /\ w.backdrop = s.backdrop
          /\ w.overlays = s.overlays /\ w.created = s.created
          /\ w.padding = s.padding /\ w.originalBodyPad = s.originalBodyPad
          /\ w.guard = s.guard
      BY <3>1 DEF DialogStates
    <3>5. /\ w.clickHandlers = s.clickHandlers
          /\ w.ignoreBackdropClick = s.ignoreBackdropClick /\ w.focus = s.focus
          /\ w.pending = s.pending /\ w.shows = s.shows /\ w.rushed = s.rushed
      BY <3>1 DEF DialogStates
    <3> HIDE DEF w
    <3>6. DialogHolds(w)
      BY <3>3, <3>4 DEF DialogHolds
    <3>7. k = IF s.armed = "none" THEN s.restorer ELSE s.armed
      BY <2>2 DEF k
    <3> QED BY <3>2, <3>3, <3>4, <3>5, <3>6, <3>7
  <2> QED BY <2>1, <2>2
<1> HIDE DEF u
<1>2. p \in Nat /\ u.padding \in Nat
  BY <1>1 DEF DialogHolds, DialogStates
<1>3. v = [u EXCEPT !.originalBodyPad = u.padding, !.padding = p]
  BY DEF SetScrollbar
<1> HIDE DEF v, p
<1>4. /\ DialogHolds(v) /\ v.originalBodyPad = u.padding
      /\ v.isShown = u.isShown /\ v.displayed = u.displayed
      /\ v.modalOpen = u.modalOpen /\ v.backdrop = u.backdrop
      /\ v.overlays = u.overlays /\ v.created = u.created /\ v.guard = u.guard
      /\ v.clickHandlers = u.clickHandlers
      /\ v.ignoreBackdropClick = u.ignoreBackdropClick /\ v.focus = u.focus
      /\ v.armed = u.armed /\ v.restorer = u.restorer /\ v.pending = u.pending
      /\ v.shows = u.shows /\ v.rushed = u.rushed
  <2>1. u \in DialogStates
    BY <1>1 DEF DialogHolds
  <2>2. v \in DialogStates /\ v.originalBodyPad = u.padding
    BY <1>2, <1>3, <2>1 DEF DialogStates
  <2>3. /\ v.isShown = u.isShown /\ v.displayed = u.displayed
        /\ v.modalOpen = u.modalOpen /\ v.backdrop = u.backdrop
        /\ v.overlays = u.overlays /\ v.created = u.created /\ v.guard = u.guard
        /\ v.clickHandlers = u.clickHandlers
    BY <1>3, <2>1 DEF DialogStates
  <2>4. /\ v.ignoreBackdropClick = u.ignoreBackdropClick /\ v.focus = u.focus
        /\ v.armed = u.armed /\ v.restorer = u.restorer /\ v.pending = u.pending
        /\ v.shows = u.shows /\ v.rushed = u.rushed
    BY <1>3, <2>1 DEF DialogStates
  <2>5. DialogHolds(v)
    BY <1>1, <2>2, <2>3 DEF DialogHolds
  <2> QED BY <2>2, <2>3, <2>4, <2>5
<1>5. n \in Nat /\ v.rushed \in BOOLEAN
  BY <1>4, SMTT(30) DEF DialogHolds, DialogStates
<1>6. Begun(s) = t
  BY DEF Begun, u, v
<1>7. h \in BOOLEAN
  BY DEF Hiding
<1> HIDE DEF n, h
<1>8. /\ DialogHolds(t) /\ t.isShown /\ t.modalOpen /\ (t.rushed <=> v.rushed \/ h)
      /\ t.displayed = v.displayed /\ t.backdrop = v.backdrop
      /\ t.overlays = v.overlays /\ t.created = v.created
      /\ t.padding = v.padding /\ t.originalBodyPad = v.originalBodyPad
      /\ t.guard = v.guard /\ t.clickHandlers = v.clickHandlers
      /\ t.ignoreBackdropClick = v.ignoreBackdropClick /\ t.focus = v.focus
      /\ t.armed = v.armed /\ t.restorer = v.restorer /\ t.pending = v.pending
  <2> DEFINE m == v.rushed \/ h
             t2 == [v EXCEPT !.isShown = TRUE, !.modalOpen = TRUE, !.shows = n,
                             !.rushed = m]
  <2>1. v \in DialogStates /\ m \in BOOLEAN /\ t = t2
    BY <1>4, <1>5, <1>7 DEF DialogHolds
  <2> HIDE DEF m, t
  <2>2. t \in DialogStates /\ t.isShown = TRUE /\ t.modalOpen = TRUE /\ t.rushed = m
    BY <1>5, <2>1 DEF DialogStates
  <2>3. /\ t.displayed = v.displayed /\ t.backdrop = v.backdrop
        /\ t.overlays = v.overlays /\ t.created = v.created
        /\ t.padding = v.padding /\ t.originalBodyPad = v.originalBodyPad
        /\ t.guard = v.guard /\ t.clickHandlers = v.clickHandlers
    BY <2>1 DEF DialogStates
  <2>4. /\ t.ignoreBackdropClick = v.ignoreBackdropClick /\ t.focus = v.focus
        /\ t.armed = v.armed /\ t.restorer = v.restorer /\ t.pending = v.pending
    BY <2>1 DEF DialogStates
  <2>5. DialogHolds(t)
    BY <1>4, <2>2, <2>3 DEF DialogHolds
  <2> QED BY <2>2, <2>3, <2>4, <2>5 DEF m
<1> HIDE DEF t
<1>9. Handlers(t) = Handlers(s)
  BY <1>1, <1>4, <1>8 DEF Handlers
<1> QED BY <1>1, <1>4, <1>6, <1>8, <1>9 DEF BegunIs, h

(* show goes on to the backdrop, if the options have one.                  *)
LEMMA ShowIs ==
  ASSUME options \in Options, NEW s, DialogHolds(s)
  PROVE  LET t == Begun(s)
             r == Show(s)
             a == AddBackdrop(t)
         IN  /\ DialogHolds(r) /\ (r.rushed <=> s.rushed \/ Hiding(s))
             /\ IF options.backdrop = "false" THEN r = Reveal(t)
                ELSE IF options.fade
                THEN Awaited(a, HandlerOf(TheBackdrop(a.backdrop), "reveal", 1), r)
                ELSE r = Reveal(a)
<1> DEFINE t == Begun(s)
           r == Show(s)
           a == AddBackdrop(t)
           new == TheBackdrop(t.created + 1)
<1>1. BegunIs(s, t)
  BY Begins
<1>2. r = IF t.isShown /\ options.backdrop # "false"
          THEN Await(a, new, "reveal", 1, Reveal(a))
          ELSE IF ~t.isShown /\ t.backdrop # 0
          THEN Await(t, TheBackdrop(t.backdrop), "remove", 1, Reveal(RemoveBackdrop(t)))
          ELSE Reveal(t)
  BY DEF Show, Backdrop, BackdropAtOnce, Begun
<1> HIDE DEF t, r
<1>3. DialogHolds(t) /\ t.isShown /\ (t.rushed <=> s.rushed \/ Hiding(s))
  BY <1>1 DEF BegunIs
<1>4. AddedIs(t, a)
  BY <1>3, Adds
<1>5. t.created + 1 \in Nat
  BY <1>3 DEF DialogHolds, DialogStates
<1> HIDE DEF a
<1>6. DialogHolds(a) /\ a.rushed = t.rushed /\ a.backdrop = t.created + 1
  BY <1>4 DEF AddedIs
<1>7. RevealedIs(a, Reveal(a)) /\ RevealedIs(t, Reveal(t))
  BY <1>3, <1>6, Reveals
<1>8. new \in Places /\ new = TheBackdrop(a.backdrop)
  BY <1>5, <1>6, TheAreas
<1> HIDE DEF new
<1>9. IF options.fade
      THEN Awaited(a, HandlerOf(new, "reveal", 1), Await(a, new, "reveal", 1, Reveal(a)))
      ELSE Await(a, new, "reveal", 1, Reveal(a)) = Reveal(a)
  BY <1>6, <1>8, AwaitIs DEF Names
<1>10. IF options.backdrop = "false" THEN r = Reveal(t)
       ELSE IF options.fade THEN Awaited(a, HandlerOf(new, "reveal", 1), r)
       ELSE r = Reveal(a)
  BY <1>2, <1>3, <1>9
<1>11. DialogHolds(r) /\ r.rushed = t.rushed
  BY <1>6, <1>7, <1>10 DEF Awaited, Requeued, RevealedIs
<1> QED BY <1>3, <1>8, <1>10, <1>11 DEF t, r, a

(* When a dialog is on its way out.                                        *)
LEMMA NotHiding ==
  ASSUME NEW s, DialogHolds(s)
  PROVE  Hiding(s) <=> \E w \in Handlers(s) : w.callback \in {"hideModal", "remove"}
<1>1. DOMAIN s.pending = 1 .. Len(s.pending)
  BY LenProperties DEF DialogHolds, DialogStates
<1> QED BY <1>1 DEF Hiding, Handlers

(* show leads from closed to revealing, or to open.                        *)
LEMMA ShowLeads ==
  ASSUME options \in Options, NEW s, DialogHolds(s), IsClosed(s), s.armed \in Openers
  PROVE  IsRevealing(Show(s)) \/ IsOpen(Show(s))
<1> DEFINE t == Begun(s)
           r == Show(s)
           a == AddBackdrop(t)
           w == HandlerOf(TheBackdrop(a.backdrop), "reveal", 1)
<1>1. BegunIs(s, t) /\ AddedIs(t, a)
  BY Begins, Adds DEF BegunIs
<1>2. IF options.backdrop = "false" THEN r = Reveal(t)
      ELSE IF options.fade THEN Awaited(a, w, r) ELSE r = Reveal(a)
  BY ShowIs
<1> HIDE DEF t, r, a
<1>3. OnlyWaits(t, {}) /\ OnlyWaits(a, {})
  <2>1. Handlers(t) = Handlers(s) /\ Handlers(a) = Handlers(t)
    BY <1>1 DEF BegunIs, AddedIs, Handlers
  <2> QED BY <2>1 DEF IsClosed, OnlyWaits, Place
<1>4. t.modalOpen /\ t.originalBodyPad = 0 /\ t.restorer \in Openers /\ t.isShown
      /\ t.backdrop = 0 /\ t.overlays = {} /\ ~t.displayed /\ DialogHolds(t)
  BY <1>1, OpenersAssumption DEF BegunIs, IsClosed
<1>5. a.modalOpen /\ a.originalBodyPad = 0 /\ a.restorer \in Openers /\ a.isShown
      /\ a.backdrop # 0 /\ a.overlays = {a.backdrop} /\ ~a.displayed /\ DialogHolds(a)
  <2>1. t.created \in Nat
    BY <1>4 DEF DialogHolds, DialogStates
  <2> QED BY <1>1, <1>4, <2>1 DEF AddedIs
<1>6. CASE options.backdrop = "false"
  <2>1. Covered(t)
    BY <1>4, <1>6 DEF Covered
  <2>2. IsOpen(r)
    BY <1>2, <1>3, <1>4, <1>6, <2>1, RevealLeads
  <2> QED BY <2>2 DEF r
<1>7. CASE options.backdrop # "false" /\ options.fade
  <2>1. Covered(a)
    BY <1>5, <1>7 DEF Covered
  <2>2. Awaited(a, w, r)
    BY <1>2, <1>7
  <2>3. OnlyWaits(r, {"reveal"})
    <3>1. w = HandlerOf(Place(a, "reveal"), "reveal", 1)
      BY DEF Place
    <3>2. OnlyWaits(r, {} \cup {"reveal"})
      BY <1>3, <2>2, <3>1, OneWaits DEF Awaited, Requeued
    <3>3. {} \cup {"reveal"} = {"reveal"}
      OBVIOUS
    <3> QED BY <3>2, <3>3
  <2>4. \A v \in Handlers(r) : v.callback = "reveal" => v.ticks <= 1
    <3>1. w.ticks = 1
      BY DEF HandlerOf
    <3> HIDE DEF w
    <3>2. \A v \in Handlers(a) : v.callback = "shown"
      BY <1>3 DEF OnlyWaits
    <3>3. \A v \in Handlers(r) : v = w \/ v \in Handlers(a)
      BY <2>2 DEF Awaited
    <3> QED BY <3>1, <3>2, <3>3
  <2>5. IsRevealing(r)
    BY <1>5, <1>7, <2>1, <2>2, <2>3, <2>4 DEF IsRevealing, Covered, Awaited, Requeued
  <2> QED BY <2>5 DEF r
<1>8. CASE options.backdrop # "false" /\ ~options.fade
  <2>1. Covered(a)
    BY <1>5, <1>8 DEF Covered
  <2>2. IsOpen(r)
    BY <1>2, <1>3, <1>5, <1>8, <2>1, RevealLeads
  <2> QED BY <2>2 DEF r
<1> QED BY <1>6, <1>7, <1>8

-----------------------------------------------------------------------------
(* hide.                                                                   *)
Dismissed(s) == [s EXCEPT !.isShown = FALSE, !.guard = FALSE, !.clickHandlers = 0]

DismissedIs(s, t) ==
  /\ DialogHolds(t) /\ ~t.isShown /\ Handlers(t) = Handlers(s)
  /\ t.displayed = s.displayed /\ t.modalOpen = s.modalOpen
  /\ t.backdrop = s.backdrop /\ t.overlays = s.overlays
  /\ t.created = s.created /\ t.padding = s.padding
  /\ t.originalBodyPad = s.originalBodyPad
  /\ t.ignoreBackdropClick = s.ignoreBackdropClick /\ t.focus = s.focus
  /\ t.armed = s.armed /\ t.restorer = s.restorer /\ t.pending = s.pending
  /\ t.shows = s.shows /\ t.rushed = s.rushed

(* What the first half of hide makes of a dialog.                          *)
LEMMA Dismisses ==
  ASSUME NEW s, DialogHolds(s) PROVE DismissedIs(s, Dismissed(s))
<1> DEFINE t == [s EXCEPT !.isShown = FALSE, !.guard = FALSE, !.clickHandlers = 0]
<1>1. /\ DialogHolds(t) /\ ~t.isShown
      /\ t.displayed = s.displayed /\ t.modalOpen = s.modalOpen
      /\ t.backdrop = s.backdrop /\ t.overlays = s.overlays
      /\ t.created = s.created /\ t.padding = s.padding
      /\ t.originalBodyPad = s.originalBodyPad
      /\ t.ignoreBackdropClick = s.ignoreBackdropClick /\ t.focus = s.focus
      /\ t.armed = s.armed /\ t.restorer = s.restorer /\ t.pending = s.pending
      /\ t.shows = s.shows /\ t.rushed = s.rushed
  BY DEF DialogHolds, DialogStates
<1>2. Dismissed(s) = t
  BY DEF Dismissed
<1> HIDE DEF t
<1>3. Handlers(t) = Handlers(s)
  BY <1>1 DEF Handlers
<1> QED BY <1>1, <1>2, <1>3 DEF DismissedIs

(* hide goes on to hideModal when the fade ends.                           *)
LEMMA HideIs ==
  ASSUME options \in Options, NEW s, DialogHolds(s), s.isShown
  PROVE  LET t == Dismissed(s)
             r == Hide(s)
         IN  /\ DialogHolds(r) /\ r.rushed = s.rushed
             /\ IF options.fade THEN Awaited(t, HandlerOf(TheElement, "hideModal", 2), r)
                ELSE r = HideModal(t)
<1> DEFINE t == Dismissed(s)
           r == Hide(s)
<1>1. DismissedIs(s, t)
  BY Dismisses
<1>2. r = Await(t, TheElement, "hideModal", 2, HideModal(t))
  BY DEF Hide, Dismissed
<1> HIDE DEF t, r
<1>3. DialogHolds(t) /\ t.rushed = s.rushed
  BY <1>1 DEF DismissedIs
<1>4. IF options.fade THEN Awaited(t, HandlerOf(TheElement, "hideModal", 2), r)
                      ELSE r = HideModal(t)
  BY <1>2, <1>3, TheAreas, AwaitIs DEF Names
<1>5. DialogHolds(HideModal(t)) /\ HideModal(t).rushed = t.rushed
  BY <1>3, HideModalIs
<1>6. DialogHolds(r) /\ r.rushed = s.rushed
  BY <1>3, <1>4, <1>5 DEF Awaited, Requeued
<1> QED BY <1>4, <1>6 DEF t, r

(* hide keeps the phases: from revealing to interrupted, from open to      *)
(* hiding.                                                                 *)
LEMMA HideKeeps ==
  ASSUME options \in Options, NEW s, DialogKept(s)
  PROVE  DialogKept(Hide(s)) /\ Hide(s).rushed = s.rushed
<1>1. CASE ~s.isShown
  BY <1>1 DEF Hide
<1>2. CASE s.isShown /\ s.rushed
  BY <1>2, HideIs DEF DialogKept
<1>3. CASE s.isShown /\ ~s.rushed
  <2> DEFINE t == Dismissed(s)
             r == Hide(s)
             w == HandlerOf(TheElement, "hideModal", 2)
  <2>1. /\ DialogHolds(r) /\ r.rushed = s.rushed
        /\ IF options.fade THEN Awaited(t, w, r) ELSE r = HideModal(t)
    BY <1>3, HideIs DEF DialogKept
  <2>2. DismissedIs(s, t)
    BY Dismisses DEF DialogKept
  <2> HIDE DEF t, r
  <2>3. /\ ~t.isShown /\ t.displayed = s.displayed /\ DialogHolds(t)
        /\ t.backdrop = s.backdrop /\ Handlers(t) = Handlers(s)
    BY <2>2 DEF DismissedIs
  <2>4. /\ \A these : OnlyWaits(s, these) => OnlyWaits(t, these)
        /\ Covered(s) => Covered(t)
    BY <2>2, <2>3 DEF OnlyWaits, Place, Covered, DismissedIs
  <2>5. w = HandlerOf(Place(t, "hideModal"), "hideModal", 2)
    BY DEF Place
  <2>6. IsOpen(s) \/ IsRevealing(s)
    BY <1>3 DEF DialogKept, InPhase, IsClosed, IsInterrupted, IsHiding, IsRemoving
  <2>7. CASE IsOpen(s) /\ options.fade
    <3>1. Awaited(t, w, r) /\ r.backdrop = t.backdrop
      BY <2>1, <2>7 DEF Awaited, Requeued
    <3>2. OnlyWaits(r, {} \cup {"hideModal"})
      BY <2>4, <2>5, <2>7, <3>1, OneWaits DEF Awaited, IsOpen
    <3>3. {} \cup {"hideModal"} = {"hideModal"}
      OBVIOUS
    <3>4. Covered(r) /\ ~r.isShown /\ r.displayed
      BY <2>3, <2>4, <2>7, <3>1 DEF Covered, Awaited, Requeued, IsOpen
    <3>5. IsHiding(r)
      BY <3>2, <3>3, <3>4 DEF IsHiding
    <3> QED BY <2>1, <3>5 DEF DialogKept, InPhase, r
  <2>8. CASE IsOpen(s) /\ ~options.fade
    <3>1. Folding(t)
      BY <2>3, <2>4, <2>8 DEF Folding, IsOpen
    <3>2. IsRemoving(r) \/ IsClosed(r)
      BY <2>1, <2>3, <2>8, <3>1, HideModalLeads
    <3> QED BY <2>1, <3>2 DEF DialogKept, InPhase, r
  <2>9. CASE IsRevealing(s)
    <3>1. Awaited(t, w, r) /\ r.backdrop = t.backdrop
      BY <2>1, <2>9 DEF Awaited, Requeued, IsRevealing
    <3>2. OnlyWaits(r, {"reveal"} \cup {"hideModal"})
      BY <2>4, <2>5, <2>9, <3>1, OneWaits DEF Awaited, IsRevealing
    <3>3. {"reveal"} \cup {"hideModal"} = {"reveal", "hideModal"}
      OBVIOUS
    <3>4. Covered(r) /\ ~r.isShown /\ ~r.displayed
      BY <2>3, <2>4, <2>9, <3>1 DEF Covered, Awaited, Requeued, IsRevealing
    <3>5. \A u, v \in Handlers(r) :
            u.callback = "reveal" /\ v.callback = "hideModal" => u.ticks < v.ticks
      <4>1. w.ticks = 2 /\ w.callback = "hideModal"
        BY DEF HandlerOf
      <4> HIDE DEF w
      <4>2. \A v \in Handlers(s) : v.callback # "hideModal"
        BY <2>9 DEF IsRevealing, OnlyWaits
      <4>3. \A v \in Handlers(r) : v = w \/ v \in Handlers(s)
        BY <2>3, <3>1 DEF Awaited
      <4>4. \A v \in Handlers(r) : v.ticks \in Nat
        BY <3>1, HandlersPending DEF Awaited
      <4>5. \A u \in Handlers(r) : u.callback = "reveal" => u.ticks <= 1
        BY <2>9, <4>1, <4>3 DEF IsRevealing
      <4> QED BY <4>1, <4>2, <4>3, <4>4, <4>5
    <3>6. IsInterrupted(r)
      BY <3>2, <3>3, <3>4, <3>5 DEF IsInterrupted
    <3> QED BY <2>1, <3>6 DEF DialogKept, InPhase, r
  <2> QED BY <2>6, <2>7, <2>8, <2>9
<1> QED BY <1>1, <1>2, <1>3

-----------------------------------------------------------------------------
(* What the user does.                                                     *)
LEMMA FocusKeeps ==
  ASSUME NEW s, DialogKept(s), NEW f, s.displayed \/ f = s.focus \/ f \in Openers,
         NEW r, FocusSetTo(s, f, r)
  PROVE  DialogKept(r) /\ r.rushed = s.rushed /\ Handlers(r) = Handlers(s)
<1>1. Handlers(r) = Handlers(s)
  BY DEF FocusSetTo, Refocused, Handlers
<1>2. SamePhase(s, r) /\ DialogHolds(r)
  BY DEF FocusSetTo, Refocused, SamePhase
<1> QED BY <1>1, <1>2, StepsKept DEF SamePhase

(* A press inside the dialog changes no phase.                             *)
LEMMA PressKeeps ==
  ASSUME NEW s, DialogKept(s), s.displayed
  PROVE  DialogKept(Press(s)) /\ Press(s).rushed = s.rushed
<1> DEFINE t == [s EXCEPT !.focus = "body"]
<1>1. "body" \in Focus
  BY DEF Focus
<1>2. DialogHolds(t) /\ Refocused(s, t) /\ t.focus = "body"
  BY <1>1, FocusSet DEF DialogKept
<1>3. Press(s) = FocusElement(t)
  BY DEF Press
<1> HIDE DEF t
<1>4. FocusSetTo(s, "body", t)
  BY <1>2 DEF FocusSetTo
<1>5. DialogKept(t) /\ t.rushed = s.rushed
  BY <1>4, FocusKeeps
<1>6. FocusSetTo(t, t.focus, FocusElement(t))
  BY <1>2, FocusIs
<1> QED BY <1>3, <1>5, <1>6, FocusKeeps

(* A dialog that is not shown and not on its way out is closed.            *)
LEMMA ShowOfClosed ==
  ASSUME NEW s, DialogKept(s), ~s.isShown, ~s.rushed, ~Hiding(s)
  PROVE  IsClosed(s)
<1>1. \A w \in Handlers(s) : w.callback \notin {"hideModal", "remove"}
  BY NotHiding DEF DialogKept
<1>2. ~IsInterrupted(s) /\ ~IsHiding(s) /\ ~IsRemoving(s)
  BY <1>1 DEF IsInterrupted, IsHiding, IsRemoving, OnlyWaits
<1> QED BY <1>2 DEF DialogKept, InPhase, IsRevealing, IsOpen

(* A click on an opener shows a dialog or hides it.                        *)
LEMMA ClickOpenerKeeps ==
  ASSUME options \in Options, DialogKept(page), NEW o \in Openers, ClickOpener(o)
  PROVE  DialogKept(page')
<1> DEFINE s == [page EXCEPT !.focus = o, !.armed = o]
<1>1. page' = ToggleDialog(s)
  BY DEF ClickOpener
<1>2. /\ DialogHolds(s) /\ s.focus = o /\ s.armed = o
      /\ s.isShown = page.isShown /\ s.displayed = page.displayed
      /\ s.modalOpen = page.modalOpen /\ s.backdrop = page.backdrop
      /\ s.overlays = page.overlays /\ s.created = page.created
      /\ s.padding = page.padding /\ s.originalBodyPad = page.originalBodyPad
      /\ s.guard = page.guard /\ s.clickHandlers = page.clickHandlers
      /\ s.ignoreBackdropClick = page.ignoreBackdropClick
      /\ s.restorer = page.restorer /\ s.pending = page.pending
      /\ s.shows = page.shows /\ s.rushed = page.rushed
  BY DEF DialogKept, DialogHolds, DialogStates, Focus
<1> HIDE DEF s
<1>3. Handlers(s) = Handlers(page) /\ SamePhase(page, s)
  BY <1>2 DEF Handlers, SamePhase
<1>4. DialogKept(s)
  BY <1>2, <1>3, StepsKept
<1>5. CASE s.isShown
  BY <1>1, <1>4, <1>5, HideKeeps DEF ToggleDialog
<1>6. CASE ~s.isShown
  <2>1. page' = Show(s)
    BY <1>1, <1>6 DEF ToggleDialog
  <2>2. DialogHolds(Show(s)) /\ (Show(s).rushed <=> s.rushed \/ Hiding(s))
    BY <1>2, ShowIs
  <2>3. ~s.rushed /\ ~Hiding(s) => IsRevealing(Show(s)) \/ IsOpen(Show(s))
    BY <1>2, <1>4, <1>6, ShowOfClosed, ShowLeads
  <2> QED BY <2>1, <2>2, <2>3 DEF DialogKept, InPhase
<1> QED BY <1>5, <1>6

(* A press that ends outside changes no phase.                             *)
LEMMA DragOutKeeps ==
  ASSUME DialogKept(page), DragOut PROVE DialogKept(page')
<1> DEFINE s == Press(page)
           r == [s EXCEPT !.ignoreBackdropClick = TRUE]
<1>1. DialogKept(s) /\ page' = r
  BY PressKeeps DEF DragOut
<1> HIDE DEF s
<1>2. /\ DialogHolds(r)
      /\ r.isShown = s.isShown /\ r.displayed = s.displayed
      /\ r.modalOpen = s.modalOpen /\ r.backdrop = s.backdrop
      /\ r.overlays = s.overlays /\ r.created = s.created
      /\ r.padding = s.padding /\ r.originalBodyPad = s.originalBodyPad
      /\ r.guard = s.guard /\ r.clickHandlers = s.clickHandlers
      /\ r.focus = s.focus /\ r.armed = s.armed /\ r.restorer = s.restorer
      /\ r.pending = s.pending /\ r.shows = s.shows /\ r.rushed = s.rushed
  BY <1>1 DEF DialogKept, DialogHolds, DialogStates
<1> HIDE DEF r
<1>3. Handlers(r) = Handlers(s) /\ SamePhase(s, r)
  BY <1>2 DEF Handlers, SamePhase
<1> QED BY <1>1, <1>2, <1>3, StepsKept

(* One click handler of the backdrop, the guard against the press          *)
(* included.                                                               *)
LEMMA BackdropHandlerKeeps ==
  ASSUME options \in Options, NEW s, DialogKept(s), NEW i
  PROVE  DialogKept(BackdropHandler(s, i))
<1>1. CASE s.ignoreBackdropClick
  <2> DEFINE r == [s EXCEPT !.ignoreBackdropClick = FALSE]
  <2>1. BackdropHandler(s, i) = r
    BY <1>1 DEF BackdropHandler
  <2>2. /\ DialogHolds(r)
        /\ r.isShown = s.isShown /\ r.displayed = s.displayed
        /\ r.modalOpen = s.modalOpen /\ r.backdrop = s.backdrop
        /\ r.overlays = s.overlays /\ r.created = s.created
        /\ r.padding = s.padding /\ r.originalBodyPad = s.originalBodyPad
        /\ r.guard = s.guard /\ r.clickHandlers = s.clickHandlers
        /\ r.focus = s.focus /\ r.armed = s.armed /\ r.restorer = s.restorer
        /\ r.pending = s.pending /\ r.shows = s.shows /\ r.rushed = s.rushed
    BY DEF DialogKept, DialogHolds, DialogStates
  <2> HIDE DEF r
  <2>3. Handlers(r) = Handlers(s) /\ SamePhase(s, r)
    BY <2>2 DEF Handlers, SamePhase
  <2> QED BY <2>1, <2>2, <2>3, StepsKept
<1>2. CASE ~s.ignoreBackdropClick
  <2>1. FocusSetTo(s, s.focus, FocusElement(s))
    BY FocusIs DEF DialogKept
  <2> QED BY <1>2, <2>1, FocusKeeps, HideKeeps DEF BackdropHandler
<1> QED BY <1>1, <1>2

(* FoldRuns for the click handlers of the backdrop.                        *)
LEMMA BackdropHandlerFolds ==
  ASSUME NEW V, NEW X, NEW q \in Seq(X), \A t \in V, x \in X : BackdropHandler(t, x) \in V,
         NEW S \in [0 .. Len(q) -> SUBSET V], NEW s \in S[0],
         \A i \in 1 .. Len(q) : \A t \in S[i - 1] : BackdropHandler(t, q[i]) \in S[i]
  PROVE  FoldLeft(BackdropHandler, s, q) \in S[Len(q)]
<1> DEFINE f == [p \in V \X X |-> BackdropHandler(p[1], p[2])]
           Folds(g) == g = [t \in SUBSET DOMAIN q |->
                              IF t = {} THEN s
                              ELSE BackdropHandler(g[t \ {Max(t)}], q[Max(t)])]
           h == CHOOSE g : Folds(g)
<1>1. f \in [V \X X -> V] /\ \A t \in V, x \in X : f[<<t, x>>] = BackdropHandler(t, x)
  OBVIOUS
<1>2. Len(q) \in Nat /\ DOMAIN q = 1 .. Len(q) /\ \A i \in 1 .. Len(q) : q[i] \in X
  BY LenProperties
<1>3. s \in V /\ \A i \in 1 .. Len(q) : i - 1 \in 0 .. Len(q) /\ S[i - 1] \subseteq V
  BY <1>2
<1> HIDE DEF f
<1>4. PICK g : IsFold(g, f, s, q, Len(q)) /\ \A t \in SUBSET (1 .. Len(q)) : g[t] \in V
  BY <1>1, <1>3, FoldExists
<1>5. \A t \in SUBSET (1 .. Len(q)) : t # {} => q[Max(t)] \in X
  BY <1>2, MaxOfIndices
<1>6. Folds(g)
  BY <1>1, <1>2, <1>4, <1>5 DEF IsFold
<1>7. Folds(h)
  <2> HIDE DEF Folds
  <2> QED BY <1>6
<1>8. \A t \in SUBSET (1 .. Len(q)) :
        h[t] = IF t = {} THEN s ELSE BackdropHandler(h[t \ {Max(t)}], q[Max(t)])
  BY <1>2, <1>7
<1>9. FoldLeft(BackdropHandler, s, q) = h[1 .. Len(q)]
  BY <1>2 DEF FoldLeft, MapThenFoldSet
<1> HIDE DEF h, Folds
<1>10. FoldsIn(h, f, V, s, q)
  BY <1>1, <1>5, <1>8 DEF FoldsIn
<1>11. Leads(f, S, q)
  BY <1>1, <1>2, <1>3 DEF Leads
<1>12. f \in [V \X X -> V]
  BY <1>1
<1>13. h[1 .. Len(q)] \in S[Len(q)]
  BY <1>10, <1>11, <1>12, FoldRuns
<1> QED BY <1>9, <1>13

(* All of them, however often they were bound.                             *)
LEMMA ClickBackdropKeeps ==
  ASSUME options \in Options, DialogKept(page), ClickBackdrop
  PROVE  DialogKept(page')
<1> DEFINE n == page.clickHandlers
           q == [i \in 1 .. n |-> i]
           b == Press(page)
           V == {t \in DialogStates : DialogKept(t)}
           S == [i \in 0 .. Len(q) |-> V]
<1>1. n \in Nat
  BY DEF DialogKept, DialogHolds, DialogStates
<1>2. q \in Seq(Nat) /\ Len(q) \in Nat
  BY <1>1
<1>3. b \in V /\ page' = FoldLeft(BackdropHandler, b, q)
  BY PressKeeps DEF ClickBackdrop, DialogKept, DialogHolds
<1>4. \A t \in V, i \in Nat : BackdropHandler(t, i) \in V
  BY BackdropHandlerKeeps DEF DialogKept, DialogHolds
<1> HIDE DEF q, b, V
<1>5. b \in S[0] /\ S \in [0 .. Len(q) -> SUBSET V]
  BY <1>2, <1>3
<1>6. \A i \in 1 .. Len(q) : \A t \in S[i - 1] : BackdropHandler(t, q[i]) \in S[i]
  <2> SUFFICES ASSUME NEW i \in 1 .. Len(q), NEW t \in S[i - 1]
               PROVE  BackdropHandler(t, q[i]) \in S[i]
    OBVIOUS
  <2>1. i - 1 \in 0 .. Len(q) /\ i \in 0 .. Len(q) /\ q[i] \in Nat
    BY <1>2
  <2> QED BY <1>4, <2>1
<1>7. FoldLeft(BackdropHandler, b, q) \in S[Len(q)]
  <2> HIDE DEF S
  <2> QED BY <1>2, <1>4, <1>5, <1>6, BackdropHandlerFolds
<1>8. page' \in V
  BY <1>2, <1>3, <1>7
<1> QED BY <1>8 DEF V

(* The tabulator key changes only the focus.                               *)
LEMMA TabKeeps ==
  ASSUME DialogKept(page), NEW target \in Openers \cup {"dialog"}, Tab(target)
  PROVE  DialogKept(page')
<1>1. FocusSetTo(page, page.focus, FocusDialog(page))
  BY FocusIs DEF DialogKept
<1>2. target \in Openers => FocusSetTo(page, target, FocusOn(page, target))
  BY FocusOnIs DEF DialogKept, Focus
<1>3. page' = IF target = "dialog" THEN FocusDialog(page) ELSE FocusOn(page, target)
  BY DEF Tab
<1>4. CASE target = "dialog"
  BY <1>1, <1>3, <1>4, FocusKeeps
<1>5. CASE target # "dialog"
  BY <1>2, <1>3, <1>5, FocusKeeps
<1> QED BY <1>4, <1>5

(* Time changes only how long handlers still wait.                         *)
LEMMA TickKeeps ==
  ASSUME DialogKept(page), Tick PROVE DialogKept(page')
<1> DEFINE n == Len(page.pending)
           q == [i \in DOMAIN page.pending |-> Sooner(page.pending[i])]
           r == [page EXCEPT !.pending = q]
<1>1. /\ page.pending \in Seq(Pending) /\ n \in Nat /\ DOMAIN page.pending = 1 .. n
      /\ \A i \in 1 .. n : page.pending[i] \in Pending
  BY LenProperties DEF DialogKept, DialogHolds, DialogStates
<1>2. \A i \in 1 .. n : page.pending[i].ticks > 0
  BY <1>1 DEF Tick
<1>3. /\ q \in [1 .. n -> Pending]
      /\ \A i \in 1 .. n : /\ q[i].callback = page.pending[i].callback
                           /\ q[i].on = page.pending[i].on
                           /\ q[i].ticks = page.pending[i].ticks - 1
  <2>1. ASSUME NEW i \in 1 .. n
        PROVE  LET v == page.pending[i]
                   w == Sooner(v)
               IN  w \in Pending /\ w.callback = v.callback /\ w.on = v.on
                   /\ w.ticks = v.ticks - 1
    <3> DEFINE v == page.pending[i]
               k == v.ticks - 1
               w == [v EXCEPT !.ticks = k]
    <3>1. v \in Pending /\ v.ticks > 0
      BY <1>1, <1>2
    <3> HIDE DEF v
    <3>2. k \in 0 .. 2
      BY <3>1 DEF Pending
    <3> HIDE DEF k
    <3>3. w \in Pending /\ w.callback = v.callback /\ w.on = v.on /\ w.ticks = k
      BY <3>1, <3>2 DEF Pending
    <3> QED BY <3>3 DEF Sooner, k, v
  <2>2. DOMAIN q = 1 .. n /\ \A i \in 1 .. n : q[i] = Sooner(page.pending[i])
    BY <1>1
  <2>3. q \in [1 .. n -> Pending]
    BY <1>1, <2>1
  <2> HIDE DEF q
  <2> QED BY <2>1, <2>2, <2>3
<1>4. page' = r
  BY DEF Tick
<1> HIDE DEF q
<1>5. q \in Seq(Pending) /\ Len(q) = n
  BY <1>1, <1>3, LenProperties
<1>6. DialogHolds(r) /\ Requeued(page, r) /\ r.pending = q
  BY <1>5, QueueSet DEF DialogKept
<1> HIDE DEF r
<1>7. SameSteps(page, r, 1)
  BY <1>3, <1>5, <1>6 DEF SameSteps, Handlers
<1>8. SamePhase(page, r)
  BY <1>6 DEF SamePhase, Requeued
<1> QED BY <1>4, <1>6, <1>7, <1>8, PhaseKept

-----------------------------------------------------------------------------
(* The end of a transition.                                                *)
LEMMA RunHolds ==
  ASSUME options \in Options, NEW s, DialogHolds(s), NEW w \in Pending
  PROVE  DialogHolds(Run(s, w)) /\ Run(s, w).rushed = s.rushed
<1>1. w.callback \in {"reveal", "shown", "hideModal", "remove", "hidden"}
  BY DEF Pending
<1>2. CASE w.callback = "reveal"
  <2>1. Run(s, w) = Reveal(s)
    BY <1>2 DEF Run
  <2> QED BY <2>1, Reveals DEF RevealedIs
<1>3. CASE w.callback = "shown"
  <2>1. Run(s, w) = FocusDialog(s)
    BY <1>3 DEF Run, Shown
  <2> QED BY <2>1, FocusIs DEF FocusSetTo, Refocused
<1>4. CASE w.callback = "hideModal"
  <2>1. Run(s, w) = HideModal(s)
    BY <1>4 DEF Run
  <2> QED BY <2>1, HideModalIs
<1>5. CASE w.callback = "remove"
  <2>1. Run(s, w) = Hidden(RemoveBackdrop(s))
    BY <1>5 DEF Run
  <2>2. RemovedIs(s, RemoveBackdrop(s))
    BY Removes
  <2>3. HiddenIs(RemoveBackdrop(s), Hidden(RemoveBackdrop(s)))
    BY <2>2, Hides DEF RemovedIs
  <2> QED BY <2>1, <2>2, <2>3 DEF RemovedIs, HiddenIs
<1>6. CASE w.callback = "hidden"
  <2>1. Run(s, w) = Hidden(s)
    BY <1>6 DEF Run
  <2> QED BY <2>1, Hides DEF HiddenIs
<1> QED BY <1>1, <1>2, <1>3, <1>4, <1>5, <1>6

(* A handler of the queue runs if it is due.                               *)
LEMMA RunDueIs ==
  ASSUME NEW s, NEW e
  PROVE  RunDue(s, e) = IF e.due THEN Run(s, e.handler) ELSE s
BY DEF RunDue

(* FoldRuns for the queue.                                                 *)
LEMMA RunDueFolds ==
  ASSUME NEW V, NEW X, NEW q \in Seq(X), \A t \in V, x \in X : RunDue(t, x) \in V,
         NEW S \in [0 .. Len(q) -> SUBSET V], NEW s \in S[0],
         \A i \in 1 .. Len(q) : \A t \in S[i - 1] : RunDue(t, q[i]) \in S[i]
  PROVE  FoldLeft(RunDue, s, q) \in S[Len(q)]
<1> DEFINE f == [p \in V \X X |-> RunDue(p[1], p[2])]
           Folds(g) == g = [t \in SUBSET DOMAIN q |->
                              IF t = {} THEN s
                              ELSE RunDue(g[t \ {Max(t)}], q[Max(t)])]
           h == CHOOSE g : Folds(g)
<1>1. f \in [V \X X -> V] /\ \A t \in V, x \in X : f[<<t, x>>] = RunDue(t, x)
  OBVIOUS
<1>2. Len(q) \in Nat /\ DOMAIN q = 1 .. Len(q) /\ \A i \in 1 .. Len(q) : q[i] \in X
  BY LenProperties
<1>3. s \in V /\ \A i \in 1 .. Len(q) : i - 1 \in 0 .. Len(q) /\ S[i - 1] \subseteq V
  BY <1>2
<1> HIDE DEF f
<1>4. PICK g : IsFold(g, f, s, q, Len(q)) /\ \A t \in SUBSET (1 .. Len(q)) : g[t] \in V
  BY <1>1, <1>3, FoldExists
<1>5. \A t \in SUBSET (1 .. Len(q)) : t # {} => q[Max(t)] \in X
  BY <1>2, MaxOfIndices
<1>6. Folds(g)
  BY <1>1, <1>2, <1>4, <1>5 DEF IsFold
<1>7. Folds(h)
  <2> HIDE DEF Folds
  <2> QED BY <1>6
<1>8. \A t \in SUBSET (1 .. Len(q)) :
        h[t] = IF t = {} THEN s ELSE RunDue(h[t \ {Max(t)}], q[Max(t)])
  BY <1>2, <1>7
<1>9. FoldLeft(RunDue, s, q) = h[1 .. Len(q)]
  BY <1>2 DEF FoldLeft, MapThenFoldSet
<1> HIDE DEF h, Folds
<1>10. FoldsIn(h, f, V, s, q)
  BY <1>1, <1>5, <1>8 DEF FoldsIn
<1>11. Leads(f, S, q)
  BY <1>1, <1>2, <1>3 DEF Leads
<1>12. f \in [V \X X -> V]
  BY <1>1
<1>13. h[1 .. Len(q)] \in S[Len(q)]
  BY <1>10, <1>11, <1>12, FoldRuns
<1> QED BY <1>9, <1>13

(* If each of the element's handlers leads from b and from T to T, the end *)
(* of its transition leads to T.                                           *)
LEMMA DueRuns ==
  ASSUME options \in Options, NEW s, DialogHolds(s), NEW e, NEW b, DialogHolds(b),
         NEW T, \A t \in T : DialogHolds(t),
         \A w \in Handlers(s) : w.on = e => Run(b, w) \in T,
         \A w \in Handlers(s), t \in T : w.on = e => Run(t, w) \in T,
         \E w \in Handlers(s) : w.on = e
  PROVE  FoldLeft(RunDue, b, Queue(s, e)) \in T
<1> DEFINE q == Queue(s, e)
           V == {t \in DialogStates : DialogHolds(t)}
           S == [k \in 0 .. Len(q) |-> IF \E i \in 1 .. k : q[i].due THEN T ELSE {b}]
<1>1. /\ q \in Seq(Entries) /\ Len(q) = Len(s.pending) /\ Len(q) \in Nat
      /\ \A i \in 1 .. Len(q) : /\ q[i] \in Entries /\ q[i].handler \in Handlers(s)
                                /\ q[i].due <=> q[i].handler.on = e
  BY QueueIs DEF Handlers
<1>2. PICK k \in 1 .. Len(q) : q[k].due
  BY <1>1, QueueIs DEF Handlers
<1> HIDE DEF q
<1>3. \A t \in V, x \in Entries : RunDue(t, x) \in V
  BY RunHolds, RunDueIs DEF Entries, DialogHolds
<1>4. T \subseteq V /\ b \in V
  BY DEF DialogHolds
<1> HIDE DEF V
<1>5. b \in S[0] /\ S \in [0 .. Len(q) -> SUBSET V] /\ S[Len(q)] = T
  <2>1. 1 .. 0 = {} /\ 0 \in 0 .. Len(q) /\ Len(q) \in 0 .. Len(q)
    BY <1>1
  <2> QED BY <1>2, <1>4, <2>1
<1>6. \A i \in 1 .. Len(q) : \A t \in S[i - 1] : RunDue(t, q[i]) \in S[i]
  <2> SUFFICES ASSUME NEW i \in 1 .. Len(q), NEW t \in S[i - 1]
               PROVE  RunDue(t, q[i]) \in S[i]
    OBVIOUS
  <2>1. i - 1 \in 0 .. Len(q) /\ i \in 0 .. Len(q) /\ 1 .. i = (1 .. i - 1) \cup {i}
    BY <1>1
  <2>2. CASE q[i].due
    <3>1. RunDue(t, q[i]) = Run(t, q[i].handler)
      BY <2>2, RunDueIs
    <3>2. t = b \/ t \in T
      BY <2>1
    <3>3. S[i] = T
      BY <2>1, <2>2
    <3> QED BY <1>1, <2>2, <3>1, <3>2, <3>3
  <2>3. CASE ~q[i].due
    <3>1. RunDue(t, q[i]) = t
      BY <2>3, RunDueIs
    <3>2. (\E j \in 1 .. i : q[j].due) <=> (\E j \in 1 .. i - 1 : q[j].due)
      BY <2>1, <2>3
    <3>3. S[i] = S[i - 1]
      BY <2>1, <3>2
    <3> QED BY <3>1, <3>3
  <2> QED BY <2>2, <2>3
<1>7. FoldLeft(RunDue, b, q) \in S[Len(q)]
  <2> HIDE DEF S
  <2> QED BY <1>1, <1>3, <1>5, <1>6, RunDueFolds
<1> QED BY <1>5, <1>7 DEF q

(* All that waits on the element of a handler of kind c is of that kind.   *)
LEMMA WithoutWaits ==
  ASSUME NEW s, NEW these, OnlyWaits(s, these), NEW c,
         \A d \in these \cup {"shown"} : d # c => Place(s, d) # Place(s, c),
         NEW r, WithoutIs(s, Place(s, c), r)
  PROVE  /\ OnlyWaits(r, these \ {c})
         /\ \A w \in Handlers(s) : w.on = Place(s, c) => w.callback = c
<1>1. r.backdrop = s.backdrop
  BY DEF WithoutIs, Requeued
<1>2. \A d : Place(r, d) = Place(s, d)
  BY <1>1 DEF Place
<1>3. Handlers(r) = {w \in Handlers(s) : w.on # Place(s, c)}
  BY DEF WithoutIs
<1>4. \A w \in Handlers(s) : w.on = Place(s, c) => w.callback = c
  BY DEF OnlyWaits
<1>5. \A d \in these \ {c} : \E w \in Handlers(r) : w.callback = d
  <2> SUFFICES ASSUME NEW d \in these \ {c} PROVE \E w \in Handlers(r) : w.callback = d
    OBVIOUS
  <2>1. PICK w \in Handlers(s) : w.callback = d
    BY DEF OnlyWaits
  <2>2. w \in Handlers(r)
    BY <1>3, <1>4, <2>1
  <2> QED BY <2>1, <2>2
<1>6. \A w \in Handlers(r) :
        w.callback \in (these \ {c}) \cup {"shown"} /\ w.on = Place(r, w.callback)
  BY <1>2, <1>3 DEF OnlyWaits
<1> QED BY <1>4, <1>5, <1>6 DEF OnlyWaits

(* Handlers of different steps wait at different places.                   *)
LEMMA PlacesDiffer ==
  ASSUME NEW s, DialogHolds(s)
  PROVE  /\ Place(s, "shown") # Place(s, "hideModal")
         /\ \A c \in {"reveal", "remove"} : Place(s, c) # Place(s, "shown")
                                         /\ Place(s, c) # Place(s, "hideModal")
<1>1. s.backdrop \in Nat
  BY DEF DialogHolds, DialogStates
<1> QED BY <1>1, TheAreas DEF Place

(* When the backdrop is gone, the dialog is closed.                        *)
LEMMA RemoveLeads ==
  ASSUME NEW s, DialogHolds(s), ~s.isShown, ~s.displayed, OnlyWaits(s, {}),
         IsClosed(s) \/ Covered(s)
  PROVE  IsClosed(Hidden(RemoveBackdrop(s)))
<1> DEFINE m == RemoveBackdrop(s)
           r == Hidden(m)
<1>1. RemovedIs(s, m)
  BY Removes
<1> HIDE DEF m
<1>2. DialogHolds(m) /\ HiddenIs(m, r)
  BY <1>1, Hides DEF RemovedIs
<1>3. OnlyWaits(m, {})
  BY <1>1 DEF RemovedIs, OnlyWaits, Place
<1>4. m.overlays = {} /\ m.backdrop = 0 /\ m.originalBodyPad = 0
  BY <1>1 DEF RemovedIs, Covered, IsClosed
<1>5. \/ m.restorer \in Openers
      \/ m.restorer = "none" /\ (m.shows > 0 => m.focus \in Openers)
  BY <1>1 DEF RemovedIs, Covered, IsClosed
<1>6. IsClosed(r)
  BY <1>1, <1>2, <1>3, <1>4, <1>5, HiddenCloses DEF RemovedIs
<1> QED BY <1>6 DEF r, m

(* Which handler waits tells the phase.                                    *)
LEMMA WaitingInPhase ==
  ASSUME NEW s, InPhase(s)
  PROVE  \A w \in Handlers(s) :
           /\ w.callback \in {"shown", "reveal", "hideModal", "remove"}
           /\ w.on = Place(s, w.callback)
           /\ w.callback = "reveal" => IsRevealing(s) \/ IsInterrupted(s)
           /\ w.callback = "hideModal" => IsInterrupted(s) \/ IsHiding(s)
           /\ w.callback = "remove" => IsRemoving(s)
BY DEF InPhase, OnlyWaits, IsClosed, IsRevealing, IsOpen, IsInterrupted, IsHiding,
   IsRemoving

(* The end of the backdrop's coming runs the one handler that waits there. *)
LEMMA RevealEnds ==
  ASSUME options \in Options, NEW s, DialogHolds(s), IsRevealing(s) \/ IsInterrupted(s)
  PROVE  LET e == Place(s, "reveal")
         IN  DialogKept(FoldLeft(RunDue, Without(s, e), Queue(s, e)))
<1> DEFINE e == Place(s, "reveal")
           b == Without(s, e)
           r == FoldLeft(RunDue, b, Queue(s, e))
<1>1. WithoutIs(s, e, b) /\ DialogHolds(b)
  BY Withouts DEF WithoutIs
<1> HIDE DEF b, r
<1>2. Place(s, "shown") # Place(s, "reveal") /\ Place(s, "hideModal") # Place(s, "reveal")
  BY PlacesDiffer
<1>3. Covered(s)
  BY DEF IsRevealing, IsInterrupted
<1>4. Covered(b)
  BY <1>1, <1>3 DEF WithoutIs, Requeued, Covered
<1>5. \E w \in Handlers(s) : w.on = e
  BY DEF IsRevealing, IsInterrupted, OnlyWaits
<1>6. CASE IsRevealing(s)
  <2> DEFINE T == {t \in DialogStates : DialogHolds(t) /\ IsOpen(t)}
  <2>1. OnlyWaits(s, {"reveal"}) /\ s.isShown
    BY <1>6 DEF IsRevealing
  <2>2. \A d \in {"reveal"} \cup {"shown"} : d # "reveal" => Place(s, d) # Place(s, "reveal")
    BY <1>2
  <2>3. /\ OnlyWaits(b, {"reveal"} \ {"reveal"})
        /\ \A w \in Handlers(s) : w.on = e => w.callback = "reveal"
    BY <1>1, <2>1, <2>2, WithoutWaits
  <2>4. {"reveal"} \ {"reveal"} = {} /\ b.isShown
    BY <1>1, <2>1 DEF WithoutIs, Requeued
  <2>5. \A w \in Handlers(s) : w.on = e => Run(b, w) \in T
    <3>1. IsOpen(Reveal(b)) /\ DialogHolds(Reveal(b))
      BY <1>1, <1>4, <2>3, <2>4, RevealLeads, Reveals DEF RevealedIs
    <3> QED BY <2>3, <3>1 DEF Run, DialogHolds
  <2>6. \A w \in Handlers(s), t \in T : w.on = e => Run(t, w) \in T
    <3>1. \A t \in T : IsOpen(Reveal(t)) /\ DialogHolds(Reveal(t))
      BY RevealLeads, Reveals DEF RevealedIs, IsOpen
    <3> QED BY <2>3, <3>1 DEF Run, DialogHolds
  <2>7. \A t \in T : DialogHolds(t)
    OBVIOUS
  <2>8. r \in T
    <3> HIDE DEF T
    <3> QED BY <1>1, <1>5, <2>5, <2>6, <2>7, DueRuns DEF r
  <2> QED BY <2>8 DEF DialogKept, InPhase, r, b
<1>7. CASE IsInterrupted(s)
  <2> DEFINE T == {t \in DialogStates : DialogHolds(t) /\ IsHiding(t)}
             H == {"reveal", "hideModal"}
  <2>1. OnlyWaits(s, H) /\ ~s.isShown
    BY <1>7 DEF IsInterrupted
  <2>2. \A d \in H \cup {"shown"} : d # "reveal" => Place(s, d) # Place(s, "reveal")
    BY <1>2
  <2>3. H \ {"reveal"} = {"hideModal"}
    OBVIOUS
  <2> HIDE DEF H
  <2>4. /\ OnlyWaits(b, H \ {"reveal"})
        /\ \A w \in Handlers(s) : w.on = e => w.callback = "reveal"
    BY <1>1, <2>1, <2>2, WithoutWaits
  <2>5. OnlyWaits(b, {"hideModal"}) /\ ~b.isShown
    BY <1>1, <2>1, <2>3, <2>4 DEF WithoutIs, Requeued
  <2>6. \A w \in Handlers(s) : w.on = e => Run(b, w) \in T
    <3>1. IsHiding(Reveal(b)) /\ DialogHolds(Reveal(b))
      BY <1>1, <1>4, <2>5, RevealLeads, Reveals DEF RevealedIs
    <3> QED BY <2>4, <3>1 DEF Run, DialogHolds
  <2>7. \A w \in Handlers(s), t \in T : w.on = e => Run(t, w) \in T
    <3>1. \A t \in T : IsHiding(Reveal(t)) /\ DialogHolds(Reveal(t))
      BY RevealLeads, Reveals DEF RevealedIs, IsHiding
    <3> QED BY <2>4, <3>1 DEF Run, DialogHolds
  <2>8. \A t \in T : DialogHolds(t)
    OBVIOUS
  <2>9. r \in T
    <3> HIDE DEF T
    <3> QED BY <1>1, <1>5, <2>6, <2>7, <2>8, DueRuns DEF r
  <2> QED BY <2>9 DEF DialogKept, InPhase, r, b
<1> QED BY <1>6, <1>7

(* So does the end of the dialog's fade.                                   *)
LEMMA HideModalEnds ==
  ASSUME options \in Options, NEW s, DialogHolds(s), IsHiding(s)
  PROVE  LET e == Place(s, "hideModal")
         IN  DialogKept(FoldLeft(RunDue, Without(s, e), Queue(s, e)))
<1> DEFINE e == Place(s, "hideModal")
           b == Without(s, e)
           r == FoldLeft(RunDue, b, Queue(s, e))
           T == {t \in DialogStates : DialogHolds(t) /\ (IsRemoving(t) \/ IsClosed(t))}
<1>1. WithoutIs(s, e, b) /\ DialogHolds(b)
  BY Withouts DEF WithoutIs
<1> HIDE DEF b, r
<1>2. OnlyWaits(s, {"hideModal"}) /\ ~s.isShown /\ Covered(s)
  BY DEF IsHiding
<1>3. \A d \in {"hideModal"} \cup {"shown"} :
        d # "hideModal" => Place(s, d) # Place(s, "hideModal")
  BY PlacesDiffer
<1>4. \E w \in Handlers(s) : w.on = e
  BY <1>2 DEF OnlyWaits
<1>5. /\ OnlyWaits(b, {"hideModal"} \ {"hideModal"})
      /\ \A w \in Handlers(s) : w.on = e => w.callback = "hideModal"
  BY <1>1, <1>2, <1>3, WithoutWaits
<1>6. {"hideModal"} \ {"hideModal"} = {} /\ ~b.isShown /\ Covered(b)
  BY <1>1, <1>2 DEF WithoutIs, Requeued, Covered
<1>7. \A w \in Handlers(s) : w.on = e => Run(b, w) \in T
  <2>1. Folding(b)
    BY <1>5, <1>6 DEF Folding
  <2>2. DialogHolds(HideModal(b)) /\ (IsRemoving(HideModal(b)) \/ IsClosed(HideModal(b)))
    BY <1>1, <2>1, HideModalIs, HideModalLeads
  <2> QED BY <1>5, <2>2 DEF Run, DialogHolds
<1>8. \A w \in Handlers(s), t \in T : w.on = e => Run(t, w) \in T
  <2> SUFFICES ASSUME NEW t \in T PROVE HideModal(t) \in T
    BY <1>5 DEF Run
  <2>1. Folding(t) /\ DialogHolds(t)
    BY DEF Folding, IsRemoving
  <2>2. DialogHolds(HideModal(t)) /\ (IsRemoving(HideModal(t)) \/ IsClosed(HideModal(t)))
    BY <2>1, HideModalIs, HideModalLeads
  <2> QED BY <2>2 DEF DialogHolds
<1>9. \A t \in T : DialogHolds(t)
  OBVIOUS
<1>10. r \in T
  <2> HIDE DEF T
  <2> QED BY <1>1, <1>4, <1>7, <1>8, <1>9, DueRuns DEF r
<1> QED BY <1>10 DEF DialogKept, InPhase, r, b

(* So does the end of the backdrop's going.                                *)
LEMMA RemoveEnds ==
  ASSUME options \in Options, NEW s, DialogHolds(s), IsRemoving(s)
  PROVE  LET e == Place(s, "remove")
         IN  DialogKept(FoldLeft(RunDue, Without(s, e), Queue(s, e)))
<1> DEFINE e == Place(s, "remove")
           b == Without(s, e)
           r == FoldLeft(RunDue, b, Queue(s, e))
           T == {t \in DialogStates : DialogHolds(t) /\ IsClosed(t)}
<1>1. WithoutIs(s, e, b) /\ DialogHolds(b)
  BY Withouts DEF WithoutIs
<1> HIDE DEF b, r
<1>2. OnlyWaits(s, {"remove"}) /\ ~s.isShown /\ ~s.displayed /\ Covered(s)
  BY DEF IsRemoving
<1>3. \A d \in {"remove"} \cup {"shown"} : d # "remove" => Place(s, d) # Place(s, "remove")
  BY PlacesDiffer
<1>4. \E w \in Handlers(s) : w.on = e
  BY <1>2 DEF OnlyWaits
<1>5. /\ OnlyWaits(b, {"remove"} \ {"remove"})
      /\ \A w \in Handlers(s) : w.on = e => w.callback = "remove"
  BY <1>1, <1>2, <1>3, WithoutWaits
<1>6. {"remove"} \ {"remove"} = {} /\ ~b.isShown /\ ~b.displayed /\ Covered(b)
  BY <1>1, <1>2 DEF WithoutIs, Requeued, Covered
<1>7. ASSUME NEW t, DialogHolds(t), NEW w \in Handlers(s), w.on = e,
             ~t.isShown, ~t.displayed, OnlyWaits(t, {}), IsClosed(t) \/ Covered(t)
      PROVE  Run(t, w) \in T
  <2>1. IsClosed(Hidden(RemoveBackdrop(t)))
    BY <1>7, RemoveLeads
  <2>2. DialogHolds(Hidden(RemoveBackdrop(t)))
    <3>1. DialogHolds(RemoveBackdrop(t))
      BY <1>7, Removes DEF RemovedIs
    <3> QED BY <3>1, Hides DEF HiddenIs
  <2>3. Run(t, w) = Hidden(RemoveBackdrop(t))
    BY <1>5, <1>7 DEF Run
  <2> QED BY <2>1, <2>2, <2>3 DEF DialogHolds
<1>8. \A w \in Handlers(s) : w.on = e => Run(b, w) \in T
  <2> HIDE DEF T
  <2> QED BY <1>1, <1>5, <1>6, <1>7
<1>9. \A w \in Handlers(s), t \in T : w.on = e => Run(t, w) \in T
  <2> SUFFICES ASSUME NEW w \in Handlers(s), NEW t \in T, w.on = e PROVE Run(t, w) \in T
    OBVIOUS
  <2>1. DialogHolds(t) /\ IsClosed(t) /\ ~t.isShown /\ ~t.displayed /\ OnlyWaits(t, {})
    BY DEF IsClosed
  <2> HIDE DEF T
  <2> QED BY <1>7, <2>1
<1>10. \A t \in T : DialogHolds(t)
  OBVIOUS
<1>11. r \in T
  <2> HIDE DEF T
  <2> QED BY <1>1, <1>4, <1>8, <1>9, <1>10, DueRuns DEF r
<1> QED BY <1>11 DEF DialogKept, InPhase, r, b

(* The shown event changes no phase.                                       *)
LEMMA ShownEnds ==
  ASSUME options \in Options, NEW s, DialogKept(s), ~s.rushed,
         \E w \in Handlers(s) : w.on = TheDialog
  PROVE  DialogKept(FoldLeft(RunDue, Without(s, TheDialog), Queue(s, TheDialog)))
<1> DEFINE b == Without(s, TheDialog)
           r == FoldLeft(RunDue, b, Queue(s, TheDialog))
           T == {t \in DialogStates : DialogKept(t)}
<1>1. WithoutIs(s, TheDialog, b) /\ DialogHolds(b) /\ DialogHolds(s)
  BY Withouts DEF WithoutIs, DialogKept
<1> HIDE DEF b, r
<1>2. \A w \in Handlers(s) : /\ w.callback \in {"shown", "reveal", "hideModal", "remove"}
                            /\ w.on = Place(s, w.callback)
  BY WaitingInPhase DEF DialogKept
<1>3. Place(s, "shown") = TheDialog
  BY DEF Place
<1>4. \A w \in Handlers(s) : w.on = TheDialog <=> w.callback = "shown"
  BY <1>1, <1>2, <1>3, PlacesDiffer
<1>5. \A w \in Handlers(s) : w.ticks - 0 = w.ticks
  <2>1. \A v \in Handlers(s) : v.ticks \in Nat
    BY <1>1, HandlersPending
  <2> QED BY <2>1
<1>6. SameSteps(s, b, 0) /\ SamePhase(s, b)
  BY <1>1, <1>4, <1>5 DEF SameSteps, WithoutIs, SamePhase, Requeued
<1>7. DialogKept(b)
  BY <1>1, <1>6, PhaseKept
<1>8. ASSUME NEW t, DialogKept(t), NEW w \in Handlers(s), w.on = TheDialog
      PROVE  Run(t, w) \in T
  <2>1. Run(t, w) = FocusDialog(t)
    BY <1>4, <1>8 DEF Run, Shown
  <2>2. FocusSetTo(t, t.focus, FocusDialog(t))
    BY <1>8, FocusIs DEF DialogKept
  <2>3. DialogKept(FocusDialog(t))
    BY <1>8, <2>2, FocusKeeps
  <2> QED BY <2>1, <2>3 DEF DialogKept, DialogHolds
<1>9. \A t \in T : DialogHolds(t)
  BY DEF DialogKept
<1>10. \A w \in Handlers(s) : w.on = TheDialog => Run(b, w) \in T
  <2> HIDE DEF T
  <2> QED BY <1>7, <1>8
<1>11. \A w \in Handlers(s), t \in T : w.on = TheDialog => Run(t, w) \in T
  BY <1>8
<1>12. r \in T
  <2> HIDE DEF T
  <2> QED BY <1>1, <1>9, <1>10, <1>11, DueRuns DEF r
<1> QED BY <1>12 DEF r, b

(* So every end of a transition keeps the phases.                          *)
LEMMA TransitionKeeps ==
  ASSUME options \in Options, DialogKept(page), TransitionEnd
  PROVE  DialogKept(page')
<1>1. PICK i \in DOMAIN page.pending :
        /\ MayEnd(page.pending[i])
        /\ page' = FoldLeft(RunDue, Without(page, page.pending[i].on),
                            Queue(page, page.pending[i].on))
  BY DEF TransitionEnd
<1> DEFINE w == page.pending[i]
           e == w.on
           b == Without(page, e)
<1>2. w \in Handlers(page) /\ w \in Pending /\ DialogHolds(page)
  BY LenProperties DEF DialogKept, DialogHolds, DialogStates, Handlers
<1>3. page' = FoldLeft(RunDue, b, Queue(page, e)) /\ MayEnd(w)
  BY <1>1
<1> HIDE DEF w
<1>4. CASE page.rushed
  <2> DEFINE T == {t \in DialogStates : DialogHolds(t) /\ t.rushed}
  <2>1. WithoutIs(page, e, b)
    BY <1>2, Withouts
  <2> HIDE DEF b
  <2>2. b \in T /\ DialogHolds(b)
    BY <1>4, <2>1 DEF WithoutIs, Requeued, DialogHolds
  <2>3. \A v \in Handlers(page), t \in T : Run(t, v) \in T
    <3>1. \A v \in Handlers(page) : v \in Pending
      BY <1>2, HandlersPending
    <3> QED BY <3>1, RunHolds DEF DialogHolds
  <2>4. \A t \in T : DialogHolds(t)
    OBVIOUS
  <2>5. page' \in T
    <3> HIDE DEF T
    <3> QED BY <1>2, <1>3, <2>2, <2>3, <2>4, DueRuns
  <2> QED BY <2>5 DEF DialogKept
<1>5. CASE ~page.rushed
  <2>1. /\ w.callback \in {"shown", "reveal", "hideModal", "remove"}
        /\ e = Place(page, w.callback)
        /\ w.callback = "reveal" => IsRevealing(page) \/ IsInterrupted(page)
        /\ w.callback = "hideModal" => IsInterrupted(page) \/ IsHiding(page)
        /\ w.callback = "remove" => IsRemoving(page)
    BY <1>2, <1>5, WaitingInPhase DEF DialogKept
  <2> HIDE DEF e
  <2>2. CASE w.callback = "shown"
    <3>1. e = TheDialog
      BY <2>1, <2>2 DEF Place
    <3>2. \E v \in Handlers(page) : v.on = TheDialog
      BY <1>2, <3>1 DEF e
    <3> QED BY <1>3, <1>5, <3>1, <3>2, ShownEnds
  <2>3. CASE w.callback = "reveal"
    BY <1>2, <1>3, <2>1, <2>3, RevealEnds
  <2>4. CASE w.callback = "hideModal"
    <3>1. ~IsInterrupted(page)
      <4>1. SUFFICES ASSUME IsInterrupted(page) PROVE FALSE
        OBVIOUS
      <4>2. PICK v \in Handlers(page) : v.callback = "reveal"
        BY <4>1 DEF IsInterrupted, OnlyWaits
      <4>3. v.ticks < w.ticks
        BY <1>2, <2>4, <4>1, <4>2 DEF IsInterrupted
      <4>4. v.ticks \in Nat /\ w.ticks \in Nat
        BY <1>2, <4>2, HandlersPending DEF Pending
      <4>5. w.on = TheElement
        BY <2>1, <2>4 DEF e, Place
      <4>6. w.on[1] = "element"
        BY <4>5 DEF TheElement
      <4>7. w.ticks = 0
        BY <1>3, <4>1, <4>6 DEF MayEnd, IsInterrupted
      <4> QED BY <4>3, <4>4, <4>7
    <3> QED BY <1>2, <1>3, <2>1, <2>4, <3>1, HideModalEnds
  <2>5. CASE w.callback = "remove"
    BY <1>2, <1>3, <2>1, <2>5, RemoveEnds
  <2> QED BY <2>1, <2>2, <2>3, <2>4, <2>5
<1> QED BY <1>4, <1>5

-----------------------------------------------------------------------------
DialogInv == options \in Options /\ DialogKept(page)

(* At first the dialog is closed.                                          *)
LEMMA InitDialogInv == ASSUME ModalInit PROVE DialogInv
<1>1. page.pending = <<>> /\ ~page.rushed /\ options \in Options
  BY DEF ModalInit
<1>2. DialogHolds(page)
  <2>1. <<>> \in Seq(Pending) /\ "body" \in Focus
    BY DEF Focus
  <2> QED BY <2>1 DEF ModalInit, DialogHolds, DialogStates
<1>3. Handlers(page) = {}
  BY <1>1 DEF Handlers
<1>4. IsClosed(page)
  BY <1>3 DEF ModalInit, IsClosed, OnlyWaits
<1> QED BY <1>1, <1>2, <1>4 DEF DialogInv, DialogKept, InPhase

(* Each step of the dialog keeps its invariant.                            *)
LEMMA DialogInvKept == ASSUME DialogInv, [ModalNext]_modalVars PROVE DialogInv'
<1>1. CASE UNCHANGED modalVars
  BY <1>1, SMTT(30) DEF modalVars, DialogInv, DialogKept, DialogHolds, InPhase, IsClosed,
     IsRevealing, IsOpen, IsInterrupted, IsHiding, IsRemoving, Covered, OnlyWaits,
     Handlers, Place
<1>2. CASE ModalNext
  <2>1. options \in Options /\ DialogKept(page)
    BY DEF DialogInv
  <2>2. options' = options
    BY <1>2 DEF ModalNext, ClickOpener, Dismiss, Escape, DragOut, ClickBackdrop, Tab,
       TransitionEnd, Tick
  <2>3. ASSUME Dismiss PROVE DialogKept(page')
    <3>1. FocusSetTo(page, page.focus, FocusDialog(page))
      BY <2>1, FocusIs DEF DialogKept
    <3>2. DialogKept(FocusDialog(page))
      BY <2>1, <3>1, FocusKeeps
    <3> QED BY <2>1, <2>3, <3>2, HideKeeps DEF Dismiss
  <2>4. ASSUME Escape PROVE DialogKept(page')
    BY <2>1, <2>4, HideKeeps DEF Escape
  <2>5. DialogKept(page')
    BY <1>2, <2>1, <2>3, <2>4, ClickOpenerKeeps, DragOutKeeps, ClickBackdropKeeps,
       TabKeeps, TransitionKeeps, TickKeeps DEF ModalNext
  <2>6. DialogKept(page)'
    BY <2>2, <2>5 DEF DialogKept, DialogHolds, InPhase, IsClosed, IsRevealing, IsOpen,
       IsInterrupted, IsHiding, IsRemoving, Covered, OnlyWaits, Handlers, Place
  <2> QED BY <2>1, <2>2, <2>6 DEF DialogInv
<1> QED BY <1>1, <1>2

(* The invariant implies what the runs check.                              *)
LEMMA DialogSettled == ASSUME DialogInv PROVE ModalTypeOK /\ SettledPage
<1>1. ModalTypeOK
  BY DEF DialogInv, DialogKept, DialogHolds, DialogStates, ModalTypeOK
<1>2. ASSUME page.pending = <<>>, ~page.rushed PROVE IsClosed(page) \/ IsOpen(page)
  <2>1. Len(<<>>) = 0
    OBVIOUS
  <2>2. Handlers(page) = {}
    BY <1>2, <2>1 DEF Handlers
  <2> QED BY <1>2, <2>2 DEF DialogInv, DialogKept, InPhase, IsRevealing, IsInterrupted,
     IsHiding, IsRemoving, OnlyWaits
<1>3. SettledPage
  BY <1>2 DEF SettledPage, IsClosed, IsOpen, Covered
<1> QED BY <1>1, <1>3
-----------------------------------------------------------------------------
(* The page.  A step of one plugin leaves what the invariants of the other *)
(* plugins speak of as it is.                                              *)
PageInv == /\ DialogInv /\ PanelsInv /\ SlidesInv
           /\ TipInv /\ TabsInv /\ MenusInv

(* Before anything is clicked the page's invariant holds.                  *)
LEMMA InitPageInv == PageInit => PageInv
BY InitDialogInv, InitPanelsInv, InitSlidesInv, InitTipInv, InitTabsInv, InitMenusInv
   DEF PageInit, PageInv

(* Every step of the page is one of each plugin, or nothing to it.         *)
LEMMA PageInvKept == PageInv /\ [PageNext]_pageVars => PageInv'
<1> SUFFICES ASSUME PageInv, [PageNext]_pageVars PROVE PageInv'
  OBVIOUS
<1>1. /\ [ModalNext]_modalVars /\ [CollapseNext]_collapseVars
      /\ [CarouselNext]_carouselVars /\ [TipNext]_tipVars
      /\ [TabsNext]_tabsVars /\ [DropdownNext]_menuVars
  BY DEF PageNext, pageVars, ModalStep, CollapseStep, CarouselStep, TipStep,
         TabsStep, DropdownStep
<1>2. DialogInv'
  BY <1>1, DialogInvKept DEF PageInv
<1>3. PanelsInv'
  BY <1>1, PanelsInvKept DEF PageInv
<1>4. SlidesInv'
  BY <1>1, SlidesInvKept DEF PageInv
<1>5. TipInv'
  BY <1>1, TipInvKept DEF PageInv
<1>6. TabsInv'
  BY <1>1, TabsInvKept DEF PageInv
<1>7. MenusInv'
  BY <1>1, MenusInvKept DEF PageInv
<1> QED BY <1>2, <1>3, <1>4, <1>5, <1>6, <1>7 DEF PageInv

(* Whatever is clicked, typed and pointed at, and whenever transitions end *)
(* and timers fire, the page's invariant holds.                            *)
THEOREM PageInvariant == PageSpec => []PageInv
BY InitPageInv, PageInvKept, PTL DEF PageSpec

(* Every plugin's state keeps its type, and the dialog's backdrop is never *)
(* an element that was taken out of the document.                          *)
THEOREM PageTypes == PageSpec => []PageTypeOK
<1>1. PageInv => PageTypeOK
  BY DialogSettled, PanelsSettled, SlidesSettled, TipSettled, TabsSettled, MenusSettled
     DEF PageInv, PageTypeOK
<1> QED BY <1>1, PageInvariant, PTL

(* When no transition of the dialog is left, it is open with one backdrop  *)
(* of its own, or closed with nothing over the page, unless it was opened  *)
(* again before it was hidden.                                             *)
THEOREM DialogSettles == PageSpec => []SettledPage
<1>1. PageInv => SettledPage
  BY DialogSettled DEF PageInv
<1> QED BY <1>1, PageInvariant, PTL

(* When no transition is left, panels, panes and menus are as the clicks   *)
(* and keys asked, and as assistive technology is told.                    *)
THEOREM PanesSettle == PageSpec => []SettledPanes
<1>1. PageInv => SettledPanes
  BY PanelsSettled, TabsSettled, MenusSettled DEF PageInv, SettledPanes
<1> QED BY <1>1, PageInvariant, PTL

(* When no slide moves, one slide is shown and its indicator is marked; an *)
(* indicator that was clicked is never forgotten; and under the mouse the  *)
(* slides stand, unless they were told to cycle there.                     *)
THEOREM SlidesSettle == PageSpec => []SettledSlides
<1>1. PageInv => SettledSlides
  BY SlidesSettled DEF PageInv
<1> QED BY <1>1, PageInvariant, PTL

(* When no timer and no transition is left, a tip is shown for a reason    *)
(* only, and exactly then unless the reason came while one was going away. *)
THEOREM TipSettles == PageSpec => []SettledTip
<1>1. PageInv => SettledTip
  BY TipSettled DEF PageInv
<1> QED BY <1>1, PageInvariant, PTL
=============================================================================
