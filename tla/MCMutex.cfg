SPECIFICATION MutexSpec

CONSTANTS
  m1 = m1
  m2 = m2
  t1 = t1
  t2 = t2
  t3 = t3
  Task = {t1, t2, t3}
  Idle = Idle
  NULL = NULL
  Creators = {}
  Prios = {1, 2}
  SleepTicks = {1}
  MaxTasks = 4
  TickMod = 1
  TickHorizon = 1
  Mutex = {m1, m2}

SYMMETRY Symmetry

INVARIANTS
  MutualExclusion
  BlockedOnOneQueue
  NoLostWakeup

PROPERTIES
  ImplementsDispatcher
