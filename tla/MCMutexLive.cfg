SPECIFICATION MutexFairSpec

CONSTANTS
  m1 = m1
  t1 = t1
  t2 = t2
  Task = {t1, t2}
  Idle = Idle
  NULL = NULL
  Creators = {}
  Prios = {1}
  SleepTicks = {1}
  MaxTasks = 4
  TickMod = 1
  TickHorizon = 1
  Mutex = {m1}

PROPERTIES
  LockersServed
