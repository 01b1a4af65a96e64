\* An endpoint that refuses connections or hangs, and a slow consumer.
SPECIFICATION FairSpec
CONSTANTS
  ReconnectMin = 1  ReconnectMax = 4  EventCap = 2  StreamGrace = 5
  Outages = {"refuses", "silent"}  MaxEvents = 2  MaxOutages = 3
INVARIANT LostStreamIsReported
PROPERTY StaysSubscribed
CHECK_DEADLOCK FALSE
