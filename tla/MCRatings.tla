----------------------------- MODULE MCRatings ------------------------------
(* Instances of Ratings for TLC.  Calls are numbers, so that of all the    *)
(* ways to hand the same requests to them one is enough.                   *)
EXTENDS Ratings

Plain(r) == r.op # "health" /\ r.product # NaN /\ (r.op = "post" => r.json)

Rank(r) == IF r.op = "get" THEN 0 ELSE 1

(* One request at most is for the health or invalid.                       *)
Sorted == \A c, d \in Calls :
  c < d => /\ Plain(req[d])
           /\ Plain(req[c]) => Rank(req[c]) <= Rank(req[d])

MCInit == Init /\ Sorted

MCSpec == MCInit /\ [][Next]_vars /\ Fairness
=============================================================================
