SPECIFICATION FairSpec
CONSTANTS
  Word = 65536
  Rounds <- MCRounds
  Values <- MCValues
  AesSlots = 4
INVARIANTS
  TypeOK
  IlluminanceTracked
  KeysAtHand
PROPERTIES
  BatteryFalls
  CommandSentOnce
CHECK_DEADLOCK FALSE
