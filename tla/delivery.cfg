\* A change, a new certificate, a failing call, a shutdown.
SPECIFICATION FairSpec
CONSTANTS
  ReconnectMin = 1  ReconnectMax = 1  EventCap = 1  StreamGrace = 0
  Outages = {"refuses"}  Interval = 1  MaxWait = 1  BatchCap = 1
  Resync = TRUE  CertPoll = TRUE  MaxEvents = 1  MaxOutages = 0
  MaxCerts = 1  MaxFaults = 1
PROPERTY DockerIsApplied
PROPERTY CertificatesReachHosts
PROPERTY ShutsDown
CHECK_DEADLOCK FALSE
