---------------------------- MODULE MCIpCapture ----------------------------
(* Datagrams a and b share an identification and differ in their cut.  The  *)
(* wanted DATA of a comes after the scan bound and in a later fragment; the  *)
(* filter refuses b, because the ids of its DATA lie in the second fragment; *)
(* and c is Zenoh traffic.                                                   *)
EXTENDS IpCapture, TLC

CONSTANTS a, b, c, lo, eth, k1, k2, wanted, other

Dat(g, at) == [kind |-> "data", gids |-> {g}, discovery |-> FALSE, at |-> at]
Sub(at) == [kind |-> "other", gids |-> {}, discovery |-> FALSE, at |-> at]

Packet(key, lens, subs) ==
  [key |-> key, lens |-> lens, subs |-> subs, ext |-> <<"opt">>, tags |-> 1,
   tcp |-> FALSE, zenohPort |-> subs = <<>>, rtps |-> subs # <<>>]

\* The first submessage is at byte 28; the others of a are INFO_TS, of 12 bytes.
MCOf ==
  a :> Packet(k1, <<9, 2, 2>>, <<Sub(3), Sub(5), Sub(6), Sub(8), Dat(wanted, 11)>>) @@
  b :> Packet(k1, <<5, 2>>, <<Dat(wanted, 5)>>) @@
  c :> Packet(k2, <<1, 1>>, <<>>)

\* What classify makes of other datagrams.
ASSUME ClassifyExamples ==
  /\ Classify(<<Dat(wanted, 5)>>, 6) = "pass"
  /\ Classify(<<Dat(other, 5)>>, 6) = "drop"
  /\ Classify(<<Sub(3), Dat(wanted, 6)>>, 6) = "error"
  /\ Classify(<<Sub(3), Sub(5), Sub(6), Sub(8)>>, 9) = "no_data"
  /\ Classify(<<Sub(3), Sub(5), Sub(6), Sub(8), Sub(9)>>, 8) = "error"
  /\ Classify(<<Sub(3), [Sub(4) EXCEPT !.kind = "tail"], Dat(wanted, 6)>>, 9) = "no_data"

MCSymmetry == Permutations(Interfaces)
=============================================================================
