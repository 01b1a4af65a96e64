\* A run that takes long while events arrive.
SPECIFICATION Spec
CONSTANTS
  ReconnectMin = 1  ReconnectMax = 1  EventCap = 1  StreamGrace = 0
  Outages = {"refuses"}  Interval = 1  MaxWait = 1  BatchCap = 1
  Resync = FALSE  CertPoll = FALSE  MaxEvents = 4  MaxOutages = 0
  MaxCerts = 0  MaxFaults = 0
INVARIANT StreamNeverBacksUp
CHECK_DEADLOCK FALSE
