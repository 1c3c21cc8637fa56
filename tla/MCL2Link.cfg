SPECIFICATION Spec
CONSTANTS
  FragBufSize = 6
  FragIds = {"i", "j"}
  NoId = "none"
  Senders = {a, b}
  Faces = {f, g}
  p = p
  q = q
  w = w
  Packets = {p, q, w}
  Size <- MCSize
  Mtu = 5
  Failures = TRUE
  Garbled = garbled
INVARIANTS
  TypeOK
  GarbledOnlyOnCollision
PROPERTIES
  ImplementsService
CHECK_DEADLOCK FALSE
