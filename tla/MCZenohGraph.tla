---------------------------- MODULE MCZenohGraph ----------------------------
(* One node with its node token and one publisher.                          *)
EXTENDS ZenohGraph, TLC

CONSTANTS d1, d2, nn, pub, talker

\* Eviction with room for one flow and two ids; one token on two flows.
MCLimits == {[capacity |-> 1, ids |-> {1, 2}], [capacity |-> 2, ids |-> {1}]}

MCNodeOf == nn :> talker @@ pub :> talker

\* The capture worker treats all flows alike.
MCSymmetry == Permutations(Directions)
=============================================================================
