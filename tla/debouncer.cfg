\* A burst of six events, a slow consumer, and a shutdown at any time.
SPECIFICATION Spec
CONSTANTS
  Interval = 3  MaxWait = 7  OutCap = 1  MaxEvents = 6
INVARIANT MaxWaitHolds
PROPERTY CutsQuietBursts
CHECK_DEADLOCK FALSE
