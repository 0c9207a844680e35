-------------------------- MODULE MCZenohTransport --------------------------
(* Four wires: a TCP stream cut into segments at every byte; a session that *)
(* tells its resolution and wraps its sequence numbers; more flows than     *)
(* there are places; two workers that compete for the budget.               *)
EXTENDS ZenohTransport, TLC

CONSTANTS w1, w2, f1, f2, a, b

MCReverse == f1 :> f2 @@ f2 :> f1

Fragment(id, piece, sn, first, more) ==
  [kind |-> "fragment", channel |-> id, id |-> id, piece |-> piece, sn |-> sn,
   first |-> first, more |-> more, drop |-> FALSE]
Other(kind) == [kind |-> kind]
Tells(kind) == [kind |-> kind, modulus |-> 4]

OneWorker == f1 :> w1 @@ f2 :> w1

Cut ==
  [tcp |-> f1 :> TRUE @@ f2 :> FALSE, worker |-> OneWorker, capacity |-> 2,
   stream |-> f1 :> <<Other("frame"), Other("empty"), Other("frame"), Other("bad")>> @@ f2 :> <<>>,
   cuts |-> 0 .. 8, pieces |-> <<>>, modulus |-> 8, packets |-> 5]

Session ==
  [tcp |-> f1 :> FALSE @@ f2 :> FALSE, worker |-> OneWorker, capacity |-> 2,
   stream |-> f1 :> <<Fragment(a, 1, 3, TRUE, TRUE), Fragment(a, 2, 0, FALSE, FALSE),
                      Fragment(b, 1, 1, FALSE, TRUE), Fragment(b, 2, 2, FALSE, FALSE)>>
              @@ f2 :> <<Tells("initack"), Tells("join")>>,
   cuts |-> {}, pieces |-> a :> 2 @@ b :> 2, modulus |-> 4, packets |-> 6]

Crowd ==
  [tcp |-> f1 :> TRUE @@ f2 :> TRUE, worker |-> OneWorker, capacity |-> 1,
   stream |-> f1 :> <<Fragment(a, 1, 0, TRUE, TRUE), Fragment(a, 2, 1, FALSE, FALSE),
                      Fragment(b, 1, 2, TRUE, TRUE)>>
              @@ f2 :> <<Tells("initack"), Fragment(b, 1, 0, TRUE, TRUE), Fragment(b, 2, 1, FALSE, FALSE)>>,
   cuts |-> {0, 2, 3, 4, 6}, pieces |-> a :> 2 @@ b :> 2, modulus |-> 4, packets |-> 5]

Compete ==
  [tcp |-> f1 :> FALSE @@ f2 :> FALSE, worker |-> f1 :> w1 @@ f2 :> w2, capacity |-> 2,
   stream |-> f1 :> <<Fragment(a, 1, 0, TRUE, TRUE), Fragment(a, 2, 1, FALSE, TRUE),
                      Fragment(a, 3, 2, FALSE, FALSE),
                      [Fragment(a, 3, 2, FALSE, TRUE) EXCEPT !.drop = TRUE]>>
              @@ f2 :> <<Fragment(b, 1, 6, TRUE, TRUE), Fragment(b, 2, 7, FALSE, FALSE), Other("bad")>>,
   cuts |-> {}, pieces |-> a :> 3 @@ b :> 2, modulus |-> 8, packets |-> 8]

MCWires == [cut |-> Cut, session |-> Session, crowd |-> Crowd, compete |-> Compete]
=============================================================================
