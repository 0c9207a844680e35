SPECIFICATION Spec
CONSTANTS
  p1 = p1
  p2 = p2
  info = info
  talk = talk
  serve = serve
  goal = goal
  hear = hear
  a = a
  b = b
  None = None
  Participants = {p1, p2}
  Endpoints = {info, talk, serve, goal, hear}
  Names = {a, b}
  Readers = {serve, hear}
  Owner <- MCOwner
  Wire <- MCWire
  InfoReaders = {hear}
  InfoWriter <- MCInfoWriter
  Infos <- MCInfos
  Sources <- MCSources
  MaxBurst = 2
INVARIANTS NodeTableExact SnapshotFresh ViewsAgree LocalOnlySound
