SPECIFICATION TableSpec
CONSTANTS
  dds = dds
  zen = zen
  writer = writer
  token = token
  gDds = gDds
  gWriter = gWriter
  gToken1 = gToken1
  gToken2 = gToken2
  None = None
  Participants = {dds, zen}
  Endpoints = {writer, token}
  Gids = {gDds, gWriter, gToken1, gToken2}
  ParticipantGid <- MCParticipantGid
  EndpointGids <- MCEndpointGids
  Owner <- MCOwner
  Leases <- MCLeases
  Ttl = 2
  MaxDelay = 1
  MaxTime = 4
INVARIANTS IndexExact DeadlinesRight
PROPERTY EndpointsAreKept
