SPECIFICATION SleepSpec

CONSTANTS
  t1 = t1
  Task = {t1}
  Idle = Idle
  NULL = NULL
  Creators = {}
  Prios = {1, 2}
  SleepTicks = {2}
  MaxTasks = 4
  TickMod = 4
  TickHorizon = 4
  ElapsedBound = 3

PROPERTIES
  NeverWokenEarly
