---------------------------- MODULE MCShadowSubs ----------------------------
(* A local participant with a publisher that announces SHM locators and one *)
(* that relies on its participant's, a remote subscriber of the first, and  *)
(* a service endpoint.                                                      *)
EXTENDS ShadowSubs, TLC

CONSTANTS local, other, pScan, pPose, sScan, pSrv, scan, pose, hz, echo

MCTopicOf == pScan :> scan @@ pPose :> pose @@ sScan :> scan @@ pSrv :> NoTopic
MCOwner == pScan :> local @@ pPose :> local @@ sScan :> other @@ pSrv :> local
MCShm == pScan :> "yes" @@ pPose :> "default" @@ sScan :> "no" @@ pSrv :> "yes"
=============================================================================
