SPECIFICATION FairSpec

CONSTANTS
  t1 = t1
  t2 = t2
  Task = {t1, t2}
  Idle = Idle
  NULL = NULL
  Creators = {t1}
  Prios = {1, 2}
  SleepTicks = {2}
  MaxTasks = 3
  TickMod = 3
  TickHorizon = 3

PROPERTIES
  SleepersWake
  HighestGetsProcessor
  PeersShareProcessor
