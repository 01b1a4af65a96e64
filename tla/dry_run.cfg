\* DRY_RUN=true.
SPECIFICATION Spec
CONSTANTS
  a = a  b = b  x = x
  LastKind = 1  HostKinds = {1}  MissingKinds = {}  MarkerKinds = {1}
  Domains = {1, 2, 3}
  Configs = {a, b}  Incomplete = x  Stored <- Normalising  BadConfigs = {}
  Containers = {1, 2, 3}  NameOf <- Names3  LabelsOf <- CoreLabels
  StartStates = {"new", "running"}
  Seeds <- CoreSeeds  LastSeed = 2
  OutsideKinds = {1}  OutsideDomains = {2}
  DeleteOrphans = TRUE  AdoptExisting = TRUE  MigrateFromRedth = FALSE
  DryRun = TRUE  HasInstance = FALSE  LabelPrefix = 1  OnStop = "disable"
  StopGrace = 1  BackoffMin = 1  BackoffMax = 2
  DeleteGuardMin = 3  GuardNum = 1  GuardDen = 2  MayListNone = FALSE
  MaxDocker = 2  MaxUI = 1  MaxFaults = 1  MaxCrashes = 0
PROPERTY DryRunWritesNothing
