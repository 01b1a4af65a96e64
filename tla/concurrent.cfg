CONSTANTS
  Callers = {w1, w2}
  Written = {"proxy"}
  Served = {"npm211"}
  Schemas = {"npm212", "plusColumns"}
  Pins = {"npm"}
  Lifetime = 2
  Window = 1
  RequestTime = 1
  Cooldown = 1
  MaxAttempts = 2
  MaxUpgrades = 0
  MaxRevokes = 1
  MaxFaults = 0
SPECIFICATION Spec
INVARIANT RefusedOnlyWhenRevoked
