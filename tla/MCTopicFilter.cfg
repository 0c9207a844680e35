SPECIFICATION FilterFairSpec
CONSTANTS
  wScan = wScan
  wRosout = wRosout
  rInfo = rInfo
  hz = hz
  bw = bw
  scan = scan
  rosout = rosout
  info = info
  Writers = {wScan, wRosout}
  InfoReaders = {rInfo}
  Topics = {scan, rosout, info}
  Info = info
  TopicOf <- MCTopicOf
  Observers = {hz}
  NoTopic = NoTopic
  NoReader = NoReader
  Packets <- MCPackets
  MaxGids = 2
  MaxFaults = 1
INVARIANTS FilterSound CopiesAgree
PROPERTY FilterCatchesUp
