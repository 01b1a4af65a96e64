SPECIFICATION FairSpec
CONSTANTS
  Targets <- AllTargets
  Served = {"npm211", "npm212", "plusMeta", "plusColumns"}
  Schemas = {"npm212", "plusColumns"}
  CertOf <- Offered
  AtStart = {1}
  OtherKey = "copy"
  Partial = "primary"
  AutoCreate = FALSE
  MaxTime = 1
  MaxEvents = 3
INVARIANT WritesConverge
INVARIANT WritesAreTaken
INVARIANT OwnershipSurvives
INVARIANT CopiesAreNotOurs
PROPERTY PickedGroupStays
PROPERTY CertificatesDoNotShuffle
PROPERTY KeepsCertificate
PROPERTY NeverOpened
PROPERTY CertificateArrives
CHECK_DEADLOCK FALSE
