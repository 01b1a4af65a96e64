\* Two services swapped a domain during downtime.
SPECIFICATION FairSpec
CONSTANTS
  a = a  b = b  x = x
  LastKind = 1  HostKinds = {1}  MissingKinds = {}  MarkerKinds = {1}
  Domains = {1, 2, 3, 4}
  Configs = {a, b}  Incomplete = x  Stored <- Plain  BadConfigs = {}
  Containers = {1, 2, 3}  NameOf <- Names3  LabelsOf <- Swapped
  StartStates = {"running","gone"}
  Seeds <- SwapSeeds  LastSeed = 2
  OutsideKinds = {1}  OutsideDomains = {2}
  DeleteOrphans = TRUE  AdoptExisting = TRUE  MigrateFromRedth = FALSE
  DryRun = FALSE  HasInstance = FALSE  LabelPrefix = 1  OnStop = "disable"
  StopGrace = 1  BackoffMin = 1  BackoffMax = 2
  DeleteGuardMin = 3  GuardNum = 1  GuardDen = 2  MayListNone = FALSE
  MaxDocker = 0  MaxUI = 0  MaxFaults = 0  MaxCrashes = 0
PROPERTY EventuallyServed
