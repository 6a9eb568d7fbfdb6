SPECIFICATION Spec

CONSTANTS
  b1 = b1
  b2 = b2
  p1 = p1
  p2 = p2
  r1 = r1
  Producer = {p1, p2}
  TxByte = {b1, b2}
  RxByte = {r1}
  TxBuf = 3
  RxBuf = 2
  Fifo = 1
  Lens = {1}
  NL = NL
  CR = CR

PROPERTIES
  TxRingIsQueue
