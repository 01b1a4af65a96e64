\* The socket proxy hides every container.
SPECIFICATION Spec
CONSTANTS
  a = a  b = b  x = x
  LastKind = 1  HostKinds = {1}  MissingKinds = {}  MarkerKinds = {1}
  Domains = {1, 2, 3}
  Configs = {a, b}  Incomplete = x  Stored <- Normalising  BadConfigs = {}
  Containers = {1, 2}  NameOf <- Names2  LabelsOf <- OneService
  StartStates = {"new", "running"}
  Seeds <- NoSeed  LastSeed = 0
  OutsideKinds = {1}  OutsideDomains = {2}
  DeleteOrphans = TRUE  AdoptExisting = TRUE  MigrateFromRedth = FALSE
  DryRun = FALSE  HasInstance = FALSE  LabelPrefix = 1  OnStop = "disable"
  StopGrace = 1  BackoffMin = 1  BackoffMax = 2
  DeleteGuardMin = 3  GuardNum = 1  GuardDen = 2  MayListNone = TRUE
  MaxDocker = 0  MaxUI = 0  MaxFaults = 1  MaxCrashes = 0
PROPERTY EmptyListDeletesNothing
