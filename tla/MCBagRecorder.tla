--------------------------- MODULE MCBagRecorder ---------------------------
(* Two topics with a writer each.                                           *)
EXTENDS BagRecorder, TLC

CONSTANTS k1, k2, scan, pose

MCTopicOf == k1 :> scan @@ k2 :> pose
=============================================================================
