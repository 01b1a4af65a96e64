\* docs/LABELS.md:185, a group picked in the UI is kept: not one picked between the listing
\* and the write of a run, where the group is in the meta object.  TLC finds it violated.
SPECIFICATION Spec
CONSTANTS
  Targets <- PlainOnly
  Served = {"plusMeta"}
  Schemas = {"npm212", "plusColumns"}
  CertOf <- Offered
  AtStart = {1}
  OtherKey = "copy"
  Partial = "primary"
  AutoCreate = FALSE
  MaxTime = 1
  MaxEvents = 3
PROPERTY PicksAreKept
CHECK_DEADLOCK FALSE
