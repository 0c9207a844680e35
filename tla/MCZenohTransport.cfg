SPECIFICATION FairTransportSpec
CONSTANTS
  w1 = w1
  w2 = w2
  f1 = f1
  f2 = f2
  a = a
  b = b
  Workers = {w1, w2}
  Flows = {f1, f2}
  ReverseFlow <- MCReverse
  Wires <- MCWires
  BatchLen = 2
  SeqModulus = 32
  InitialSeq = 29
  QueueBytes = 3
  QueueSegments = 2
  ChainBytes = 2
  Budget = 3
  Timeout = 2
  SnModulus = 16
INVARIANTS TransportExact StreamIntact MessagesIntact
PROPERTY BudgetReturned
CHECK_DEADLOCK FALSE
