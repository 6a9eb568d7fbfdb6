SPECIFICATION SpiSpec

CONSTANTS
  rx = rx
  tx = tx
  Channel = {rx, tx}
  Config = {{}, {"complete", "error"}}
  Count = {}
  Bytes = {}
  CountMod = 8
  NULL = NULL
  Frames = {1, 2, 3}
  Depth = 2

PROPERTIES
  AnswersInStep

CHECK_DEADLOCK FALSE
