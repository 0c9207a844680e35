SPECIFICATION Spec
CONSTANTS
  d1 = d1
  d2 = d2
  nn = nn
  pub = pub
  talker = talker
  NoToken = NoToken
  NoTime = NoTime
  Active = Active
  Directions = {d1, d2}
  Ids = {1, 2}
  Tokens = {nn, pub}
  NodeTokens = {nn}
  Nodes = {talker}
  NodeOf <- MCNodeOf
  Limits <- MCLimits
  ChannelCapacity = 1
  MaxTime = 2
  Timeout = 1
  Ttl = 1
  QueryTime = 1
INVARIANTS WorkerExact GraphExact TokensFollowed
SYMMETRY MCSymmetry
