\* No periodic resync, certificates polled, one failing call.
SPECIFICATION FairSpec
CONSTANTS
  ReconnectMin = 1  ReconnectMax = 1  EventCap = 1  StreamGrace = 0
  Outages = {"refuses"}  Interval = 1  MaxWait = 1  BatchCap = 1
  Resync = FALSE  CertPoll = TRUE  MaxEvents = 0  MaxOutages = 0
  MaxCerts = 1  MaxFaults = 1
PROPERTY CertificatesReachHosts
CHECK_DEADLOCK FALSE
