SPECIFICATION Spec
CONSTANTS
  Targets <- LocationOnly
  Served = {"npm211", "npm212", "plusMeta", "plusColumns"}
  Schemas = {"npm212", "plusColumns"}
  CertOf <- Offered
  AtStart = {1}
  OtherKey = "copy"
  Partial = "primary"
  AutoCreate = FALSE
  MaxTime = 1
  MaxEvents = 0
INVARIANT WritesConverge
CHECK_DEADLOCK FALSE
