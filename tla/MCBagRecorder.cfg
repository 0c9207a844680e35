SPECIFICATION FairSpec
CONSTANTS
  k1 = k1
  k2 = k2
  scan = scan
  pose = pose
  Keys = {k1, k2}
  Topics = {scan, pose}
  TopicOf <- MCTopicOf
  Capacity = 2
  MaxSequence = 3
  MaxSessions = 2
  MaxMessages = 4
INVARIANTS EveryMessageAccounted SequencesContiguous ActorInStep
PROPERTIES ImplementsBag RuntimeProgress ExitClosesFile
