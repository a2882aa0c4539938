-------------------------- MODULE MCRedisCartStore --------------------------
(* Instances of RedisCartStore for TLC.                                    *)
EXTENDS RedisCartStore, TLC

Symmetry == Permutations(Calls)

(* What CartServiceTests.AddItem_ItemExists_Updated asserts of the cart it *)
(* reads after its adds: a cart that has items carries its user's id.      *)
CartWithItemsHasUser ==
  \A c \in Calls :
    (IsGet(c) /\ seen[c] # NoValue /\ \E p \in Products : seen[c].items[p] > 0)
      => seen[c].owner = UserOf(c)
=============================================================================
