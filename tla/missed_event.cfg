\* No periodic resync.
SPECIFICATION FairSpec
CONSTANTS
  ReconnectMin = 1  ReconnectMax = 1  EventCap = 1  StreamGrace = 0
  Outages = {"refuses"}  Interval = 1  MaxWait = 1  BatchCap = 1
  Resync = FALSE  CertPoll = FALSE  MaxEvents = 1  MaxOutages = 1
  MaxCerts = 0  MaxFaults = 0
PROPERTY DockerIsApplied
CHECK_DEADLOCK FALSE
