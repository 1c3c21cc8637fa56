SPECIFICATION HomeMotionFairSpec
CONSTANTS
  Word = 65536
  Delays = {0, 2}
  MotionValues <- MCQuietMotion
  IlluminanceValues <- MCIlluminance
PROPERTIES
  OffAfterMotionCeased
