SPECIFICATION FairSpec
CONSTANTS
  Targets <- PlainOnly
  Served = {"npm211", "npm212", "plusMeta", "plusColumns"}
  Schemas = {"npm212", "plusColumns"}
  CertOf <- Offered
  AtStart = {1}
  OtherKey = "copy"
  Partial = "primary"
  AutoCreate = TRUE
  MaxTime = 1
  MaxEvents = 1
PROPERTY RequestedWhereNoneFits
CHECK_DEADLOCK FALSE
