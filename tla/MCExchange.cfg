SPECIFICATION FairSpec
CONSTANTS
  c1 = c1
  c2 = c2
  p1 = p1
  p2 = p2
  Consumers <- MCConsumers
  Producers <- MCProducers
  Lifetime = 2
  Mailbox = 2
INVARIANTS
  TypeOK
  StuckOnlyIfRefused
PROPERTIES
  LoopEnds
CHECK_DEADLOCK FALSE
