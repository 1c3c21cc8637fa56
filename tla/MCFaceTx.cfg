SPECIFICATION FairSpec
CONSTANTS
  FragBufSize = 65
  FragIds = {"a"}
  NoId = "none"
  BufSnips = 5
  Sizes <- MCSizes
  Mtus <- MCMtus
INVARIANTS
  TypeOK
  NothingKept
  FramesFit
  ResultIsHonest
PROPERTIES
  RefusesOnlyFull
  CallReturns
