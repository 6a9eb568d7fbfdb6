SPECIFICATION Spec

CONSTANTS
  t1 = t1
  t2 = t2
  Task = {t1, t2}
  Main = Main
  Nobody = Nobody
  Depth = 4

INVARIANTS
  ResumesAsLeft

CHECK_DEADLOCK FALSE
