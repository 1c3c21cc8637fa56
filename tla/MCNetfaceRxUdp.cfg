SPECIFICATION FairSpec
CONSTANTS
  FragBufSize = 2
  FragIds = {"a"}
  NoId = "none"
  UdpFace = udp
  Whole = Whole
  Netifs = {n1}
  UdpEnabled = TRUE
  Slots = {s1, s2}
  MboxSize = 2
  EventSlots = 3
  Frames <- OneFragment
INVARIANTS
  TypeOK
  OnePoller
  UdpPolled
PROPERTIES
  FullMailboxDrains
CHECK_DEADLOCK FALSE
