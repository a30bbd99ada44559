SPECIFICATION Spec
CONSTANTS
  Timers = {0}
  PeriodicTimers = {0}
  FirstComparators = {11}
  NanosecondsPerMs = 4
  NANOSECONDS_PER_TICK = 2
  TickNs = 2
  Requests = {1}
  MaxLag = 1
  Horizon = 10
INVARIANTS
  FiresOnlyOnce
