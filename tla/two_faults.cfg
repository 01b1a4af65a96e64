\* As failures, safety only, with two faults.
SPECIFICATION Spec
CONSTANTS
  a = a  b = b  x = x
  LastKind = 3  HostKinds = {1}  MissingKinds = {3}  MarkerKinds = {1}
  Domains = {1, 2, 3}
  Configs = {a, b}  Incomplete = x  Stored <- Plain  BadConfigs = {b}
  Containers = {1, 2, 3}  NameOf <- Names3  LabelsOf <- TwoServices
  StartStates = {"running","gone"}
  Seeds <- NoSeed  LastSeed = 0
  OutsideKinds = {1}  OutsideDomains = {2}
  DeleteOrphans = TRUE  AdoptExisting = TRUE  MigrateFromRedth = FALSE
  DryRun = FALSE  HasInstance = FALSE  LabelPrefix = 1  OnStop = "disable"
  StopGrace = 1  BackoffMin = 1  BackoffMax = 2
  DeleteGuardMin = 3  GuardNum = 0  GuardDen = 2  MayListNone = FALSE
  MaxDocker = 1  MaxUI = 0  MaxFaults = 2  MaxCrashes = 1
INVARIANT TypeOK
INVARIANT CacheTellsTheTruth
PROPERTY BackoffHonoured
PROPERTY DeletesOnlyOrphans
PROPERTY OnlyStoppedHostsAreDisabled
