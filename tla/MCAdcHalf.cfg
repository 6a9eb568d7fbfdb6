SPECIFICATION FairDemoSpec

CONSTANTS
  rx = rx
  tx = tx
  Channel = {rx}
  Config = {{"circular", "half", "complete"}}
  Count = {2}
  Bytes = {29}
  CountMod = 8
  NULL = NULL
  adc_dma = rx
  BufLen = 4

PROPERTIES
  FirstHalfComputed
