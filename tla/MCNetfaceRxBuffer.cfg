SPECIFICATION Spec
CONSTANTS
  FragBufSize = 2
  FragIds = {"a"}
  NoId = "none"
  UdpFace = udp
  Whole = Whole
  Netifs = {n1}
  UdpEnabled = FALSE
  Slots = {s1, s2}
  MboxSize = 2
  EventSlots = 3
  Frames <- OneFragment
INVARIANTS
  BufferRecovers
CHECK_DEADLOCK FALSE
