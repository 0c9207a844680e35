-------------------------- MODULE MCCaptureWorkers --------------------------
(* Three wires: samples that arrive in pieces, out of order, repeated and   *)
(* beyond the limits; a participant that comes and goes between samples of  *)
(* a busy writer; packets that fail.                                        *)
EXTENDS CaptureWorkers

CONSTANTS w1, w2, s1, s2, p

Frag(s, start, count, size) ==
  [kind |-> "frag", id |-> s, start |-> start, count |-> count, size |-> size]
Msg(kind, id) == [kind |-> kind, id |-> id]

Pieces ==
  << <<Frag(s1, 1, 1, 3)>>, <<Frag(s1, 3, 2, 3), Frag(s1, 2, 1, 3)>>,
     <<Frag(s2, 2, 1, 2)>>, <<Frag(s2, 1, 1, 2)>> >>

Islands ==
  << <<Frag(s1, 1, 1, 5)>>, <<Frag(s1, 3, 1, 5), Frag(s1, 6, 1, 5)>>,
     <<Frag(s1, 5, 1, 5)>> >>

Presence ==
  << <<Msg("announce", p)>>, <<Msg("data", s1), Msg("dispose", p)>>,
     <<Msg("data", s2), Msg("other", p), Msg("data", s1)>> >>

Failing ==
  << <<Frag(s1, 1, 1, 2), Frag(s1, 2, 1, 3)>>, <<Frag(s2, 1, 1, 0)>>,
     <<Msg("data", s2), Msg("bad", p)>>, <<Msg("garbled", p)>> >>

MCWires == [pieces |-> Pieces, islands |-> Islands, presence |-> Presence,
            failing |-> Failing]
MCSymmetry == Permutations(Workers)
=============================================================================
