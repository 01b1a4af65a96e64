CONSTANTS
  Callers = {w}
  Written = {"proxy"}
  Served = {"npm212", "plusColumns"}
  Schemas = {"npm212", "plusColumns"}
  Pins = {"auto", "npmplus"}
  Lifetime = 3
  Window = 1
  RequestTime = 2
  Cooldown = 1
  MaxAttempts = 2
  MaxUpgrades = 1
  MaxRevokes = 1
  MaxFaults = 1
SPECIFICATION FairSpec
INVARIANT CreatedOnce
INVARIANT RefusedOnlyWhenRevoked
INVARIANT RenewedInTime
PROPERTY EveryCallReturns
PROPERTY EventuallyAccepted
