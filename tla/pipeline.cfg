\* Two changes, an outage, failing calls, a shutdown.
SPECIFICATION Spec
CONSTANTS
  ReconnectMin = 1  ReconnectMax = 1  EventCap = 1  StreamGrace = 0
  Outages = {"refuses"}  Interval = 1  MaxWait = 1  BatchCap = 1
  Resync = TRUE  CertPoll = FALSE  MaxEvents = 2  MaxOutages = 1
  MaxCerts = 0  MaxFaults = 1
INVARIANT NothingLost
INVARIANT ShutdownSeesEverything
PROPERTY ImplementsNotifier
CHECK_DEADLOCK FALSE
