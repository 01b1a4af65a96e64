\* The primary domain changes.
SPECIFICATION Spec
CONSTANTS
  a = a  b = b  x = x
  LastKind = 1  HostKinds = {1}  MissingKinds = {}  MarkerKinds = {1}
  Domains = {1, 2, 3}
  Configs = {a, b}  Incomplete = x  Stored <- Normalising  BadConfigs = {}
  Containers = {1, 2}  NameOf <- Names2  LabelsOf <- KeyChange
  StartStates = {"new", "running"}
  Seeds <- NoSeed  LastSeed = 0
  OutsideKinds = {1}  OutsideDomains = {2}
  DeleteOrphans = TRUE  AdoptExisting = TRUE  MigrateFromRedth = FALSE
  DryRun = FALSE  HasInstance = FALSE  LabelPrefix = 1  OnStop = "disable"
  StopGrace = 1  BackoffMin = 1  BackoffMax = 2
  DeleteGuardMin = 3  GuardNum = 1  GuardDen = 2  MayListNone = FALSE
  MaxDocker = 2  MaxUI = 0  MaxFaults = 0  MaxCrashes = 0
PROPERTY ClaimedDomainsAreKept
