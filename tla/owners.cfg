\* Leftovers in two collections, or hosts of everybody else; stopped means deleted,
\* and the proxy may hide every container.
SPECIFICATION Spec
CONSTANTS
  a = a  b = b  x = x
  LastKind = 2  HostKinds = {1, 2}  MissingKinds = {}  MarkerKinds = {1}
  Domains = {1, 2, 3, 4}
  Configs = {a, b}  Incomplete = x  Stored <- Normalising  BadConfigs = {}
  Containers = {1, 2}  NameOf <- Names2  LabelsOf <- Grown
  StartStates = {"new", "running"}
  Seeds <- OwnerSeeds  LastSeed = 4
  OutsideKinds = {1}  OutsideDomains = {1}
  DeleteOrphans = TRUE  AdoptExisting = FALSE  MigrateFromRedth = FALSE
  DryRun = FALSE  HasInstance = TRUE  LabelPrefix = 1  OnStop = "delete"
  StopGrace = 1  BackoffMin = 1  BackoffMax = 2
  DeleteGuardMin = 3  GuardNum = 1  GuardDen = 2  MayListNone = TRUE
  MaxDocker = 2  MaxUI = 1  MaxFaults = 1  MaxCrashes = 0
PROPERTY NeverWipes
PROPERTY ActsOnlyOnItsOwn
PROPERTY DeletesOnlyOrphans
