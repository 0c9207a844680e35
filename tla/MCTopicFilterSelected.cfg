SPECIFICATION FilterSpec
CONSTANTS
  wScan = wScan
  wRosout = wRosout
  rInfo = rInfo
  hz = hz
  bw = bw
  scan = scan
  rosout = rosout
  info = info
  Writers = {wScan, wRosout}
  InfoReaders = {rInfo}
  Topics = {scan, rosout, info}
  Info = info
  TopicOf <- MCTopicOf
  Observers = {hz}
  NoTopic = NoTopic
  NoReader = NoReader
  Packets <- AllPackets
  MaxGids = 4
  MaxFaults = 0
INVARIANT RecordsOnlySelected
