SPECIFICATION UartSpec

CONSTANTS
  b1 = b1
  b2 = b2
  p1 = p1
  r1 = r1
  r2 = r2
  Producer = {p1}
  TxByte = {b1, b2}
  RxByte = {r1, r2, NL}
  TxBuf = 3
  RxBuf = 3
  Fifo = 2
  Lens = {1, 3}
  NL = NL
  CR = CR
  Noise = {r1}
  Word = 128
  Text = {"o", "k", "d", "x"}
  MaxString = 2
  NoString = NoString

INVARIANTS
  UartTypeOK
  NoMissedKick
  PrintsArguments

PROPERTIES
  TransmitsInOrder
  ReceivesInOrder
  RingDrains
