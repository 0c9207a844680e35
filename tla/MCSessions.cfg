SPECIFICATION FairSpec
CONSTANTS
  a = a
  b = b
  hz = hz
  delay = delay
  echo = echo
  bag = bag
  None = None
  Monitor = Monitor
  Recorder = Recorder
  Topics = {a, b}
  Relative = {b}
  Clients = {hz, delay, echo, bag}
  Kind <- MCKind
  Topic <- MCTopic
  Scenarios <- MCScenarios
  Slots = {1, 2, 3}
  MaxInFlight = 2
  MaxEvents = 1
INVARIANTS ServerExact NoOrphans
PROPERTIES StopsHappen PagesConverge
CHECK_DEADLOCK FALSE
