SPECIFICATION FairSpec
CONSTANTS
  FragBufSize = 2
  FragIds = {"a"}
  NoId = "none"
  UdpFace = udp
  Whole = Whole
  Netifs = {n1, n2}
  UdpEnabled = FALSE
  Slots = {s1, s2}
  MboxSize = 2
  EventSlots = 4
  Frames <- MCFrames
INVARIANTS
  OnePoller
  PacketsOwned
  FreshCalls
  FragmentsReleased
  RequestPending
PROPERTIES
  FullMailboxDrains
  OptionAnswered
CHECK_DEADLOCK FALSE
