SPECIFICATION FairSpec
CONSTANTS
  a = a
  b = b
  v = v
  w = w
  r1 = r1
  r2 = r2
  None = None
  Topics = {a}
  Writers = {v, w}
  Inputs <- MCInputs
  Window = 2
  MaxDelta = 2
  Readers = {r1, r2}
  Raw = {r1}
  PipeCapacity = 3
INVARIANTS ReportsTrue FramesWhole
PROPERTY RuntimeReturns
CHECK_DEADLOCK FALSE
