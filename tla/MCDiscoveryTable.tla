-------------------------- MODULE MCDiscoveryTable --------------------------
(* An RTPS participant with a writer, a Zenoh participant with an endpoint  *)
(* that can announce two GIDs.                                              *)
EXTENDS DiscoveryTable, TLC

CONSTANTS dds, zen, writer, token, gDds, gWriter, gToken1, gToken2

MCParticipantGid == dds :> gDds @@ zen :> None
MCOwner == writer :> dds @@ token :> zen
MCEndpointGids == writer :> {gWriter} @@ token :> {gToken1, gToken2}
MCLeases == {NoLease, 1, 3}
=============================================================================
