SPECIFICATION FairSpec
CONSTANTS
  Timers = {1, 2}
  PeriodicTimers = {}
  FirstComparators = {11}
  NanosecondsPerMs = 4
  NANOSECONDS_PER_TICK = 2
  TickNs = 2
  Requests = {1, 2}
  MaxLag = 1
  Horizon = 10
INVARIANTS
  TypeOK
  FiresOnlyOnce
  FiresOnTime
PROPERTIES
  RequestsAnswered
