CONSTANTS
  Callers = {w}
  Written = {"proxy"}
  Served = {"npm211", "npm212"}
  Schemas = {"npm211", "npm212"}
  Pins = {"auto"}
  Lifetime = 2
  Window = 1
  RequestTime = 1
  Cooldown = 1
  MaxAttempts = 2
  MaxUpgrades = 1
  MaxRevokes = 0
  MaxFaults = 1
SPECIFICATION FairSpec
PROPERTY DialectFollowsUpgrades
