SPECIFICATION SubsSpec
CONSTANTS
  local = local
  other = other
  pScan = pScan
  pPose = pPose
  sScan = sScan
  pSrv = pSrv
  scan = scan
  pose = pose
  hz = hz
  echo = echo
  Participants = {local, other}
  RemoteHost = {other}
  Endpoints = {pScan, pPose, sScan, pSrv}
  Publishers = {pScan, pPose, pSrv}
  UserTopics = {scan, pose}
  NoTopic = NoTopic
  TopicOf <- MCTopicOf
  Owner <- MCOwner
  Shm <- MCShm
  DefaultShm = {local}
  Observers = {hz, echo}
  MaxFaults = 1
INVARIANTS ShadowsAreObserved ShadowsExact
