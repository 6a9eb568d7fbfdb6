SPECIFICATION SleepSpec

CONSTANTS
  t1 = t1
  t2 = t2
  t3 = t3
  Task = {t1, t2, t3}
  Idle = Idle
  NULL = NULL
  Creators = {t1}
  Prios = {1, 2}
  SleepTicks = {0, 1, 2}
  MaxTasks = 4
  TickMod = 6
  TickHorizon = 2
  ElapsedBound = 3

SYMMETRY Symmetry

INVARIANTS
  QueuesConsistent
  SchedInv
  HighestPriorityRuns
  NoOverdueSleeper
  IdsUnique

PROPERTIES
  SleepIsExact
  ImplementsDispatcher
