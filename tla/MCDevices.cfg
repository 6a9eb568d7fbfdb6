SPECIFICATION DevicesSpec

CONSTANTS
  c1 = c1
  c2 = c2
  other = c2
  Channel = {c1, c2}
  Config = {{}, {"complete", "error"}, {"complete", "half", "error", "circular"}, {"circular", "half", "complete"}}
  Count = {2}
  Bytes = {17}
  CountMod = 5
  NULL = NULL
  rx = c1
  tx = c2
  Frames = {1}
  Depth = 2
  adc_dma = c1
  BufLen = 4
  wait_ch = c1
  Timeout = {0, 2}
  TickMod = 5
  Patience = 2
  Delay = {0, 3}
  PerMicro = 2
  CycleMod = 8

INVARIANTS
  EnabledIsBusy

PROPERTIES
  BusyEnds
  WaitMeansDone
  WaitReturns
  BatchFresh
  BatchOnce
  AdcCallsReturn
  BatchesComputed
  NeverEarly
  WaitEnds

CHECK_DEADLOCK FALSE
