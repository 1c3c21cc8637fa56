SPECIFICATION FairSpec
CONSTANTS
  d1 = d1
  Devices = {d1}
  MaxRuns = 3
  MaxBoots = 3
INVARIANTS
  TypeOK
  CertFollowsSignOn
  EndedOnOwnCertificate
PROPERTIES
  ImplementsEnrollment
  Completes
CHECK_DEADLOCK FALSE
