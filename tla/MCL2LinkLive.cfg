SPECIFICATION FairSpec
CONSTANTS
  FragBufSize = 10
  FragIds = {"i"}
  NoId = "none"
  Senders = {a}
  Faces = {f}
  p = p
  q = q
  w = w
  Packets = {p, q, w}
  Size <- MCSize
  Mtu = 5
  Failures = FALSE
  Garbled = garbled
PROPERTIES
  ReliablyDelivered
CHECK_DEADLOCK FALSE
