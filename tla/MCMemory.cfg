SPECIFICATION MemorySpec

CONSTANTS
  c1 = c1
  c2 = c2
  c3 = c3
  Client = {c1, c2, c3}
  Total = 4
  BlockBytes = 8
  NULL = NULL
  Data = Data
  AddrMod = 64
  Base = 24
  Capacity = 16
  Sizes = {0, 3, 8}
  Aligns = {4, 8}
  p1 = p1
  p2 = p2
  p3 = p3
  PinTask = {p1, p2, p3}
  PinHandler = {}
  Toggler = {p1, p2}
  Configurer = {p1}
  Level = {1, 2}
  Speed = {{0, 1}}
  Pull = {{0}}

INVARIANTS
  FreeListIntact
  LentOnce
  TensorsApart
  RefusedOnlyWhenFull
  PeakIsHighWater
  PinsKept

PROPERTIES
  NoDataLeak
  DataKept
  ImplementsBlockPool
