--------------------------- MODULE MCTopicFilter ---------------------------
(* A writer of a user topic, one of an internal topic, and a reader of      *)
(* /ros_discovery_info.                                                     *)
EXTENDS TopicFilter, TLC

CONSTANTS wScan, wRosout, rInfo, hz, bw, scan, rosout, info

MCTopicOf == wScan :> scan @@ wRosout :> rosout

\* Every packet there is, and for the run about the map two that are known by
\* their writer or by their reader.
AllPackets == Packet
MCPackets == {[writer |-> wScan, reader |-> NoReader], [writer |-> wRosout, reader |-> rInfo]}
=============================================================================
