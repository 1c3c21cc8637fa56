SPECIFICATION HomeFairSpec
CONSTANTS
  Word = 65536
  Delays = {0, 2}
  MotionValues <- MCMotion
  IlluminanceValues <- MCIlluminance
INVARIANTS
  TypeOK
  StopFollowsMotion
PROPERTIES
  OnWhileMotion
  DarkAfterMotionStaysOff
  LightsGoOff
  LightTurnsOff
