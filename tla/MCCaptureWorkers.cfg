SPECIFICATION FairSpec
CONSTANTS
  w1 = w1
  w2 = w2
  s1 = s1
  s2 = s2
  p = p
  Workers = {w1, w2}
  Samples = {s1, s2}
  Participants = {p}
  Wires <- MCWires
  FlowCapacity = 1
  SampleLimit = 5
  MaxRanges = 2
  Budget = 5
  ChannelCapacity = 1
  CacheCapacity = 1
  MaxMissed = 1
INVARIANTS FlowsExact SamplesRight Converges
PROPERTIES EventsApplied StopCompletes
CHECK_DEADLOCK FALSE
