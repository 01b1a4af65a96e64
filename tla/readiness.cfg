\* An endpoint that refuses the event stream.
SPECIFICATION Spec
CONSTANTS
  ReconnectMin = 1  ReconnectMax = 4  EventCap = 2  StreamGrace = 5
  Outages = {"refuses"}  MaxEvents = 1  MaxOutages = 1
INVARIANT OutageIsReported
CHECK_DEADLOCK FALSE
