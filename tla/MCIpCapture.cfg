SPECIFICATION Spec
CONSTANTS
  a = a
  b = b
  c = c
  lo = lo
  eth = eth
  k1 = k1
  k2 = k2
  wanted = wanted
  other = other
  Hole = Hole
  Interfaces = {lo, eth}
  Datagrams = {a, b, c}
  Of <- MCOf
  Available = {wanted}
  ApprovalCapacity = 1
  FlowCapacity = 1
  BufferDepth = 1
  Unlucky = {a}
  MaxFaults = 1
INVARIANTS FlowsExact OnlyWhole AtLeastOneCopy
SYMMETRY MCSymmetry
CHECK_DEADLOCK FALSE
