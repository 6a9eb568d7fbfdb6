--------------------------- MODULE VulcanUartProofs ---------------------------
(***************************************************************************)
(* The UART driver's types and its kick, for any producers, bytes, rings   *)
(* and FIFOs; and that the driver is a channel of bytes in each direction, *)
(* for one producer and one reader.                                        *)
(***************************************************************************)
EXTENDS VulcanUart, VulcanPrintf, VulcanLemmas

(* While vk_uart_readline reads on there is room for a byte and the '\0'. *)
LineInv == rpc # "idle" => Len(line) < len - 1

UartInv == UartTypeOK /\ LineInv /\ NoMissedKick

-------------------------------------------------------------------------------
(* The index after an index. *)
LEMMA NextIndex ==
  ASSUME NEW size \in Nat, size > 1, NEW slot \in 0 .. size - 1
  PROVE  /\ (slot + 1) % size \in 0 .. size - 1
         /\ slot + 1 < size => (slot + 1) % size = slot + 1
         /\ slot + 1 = size => (slot + 1) % size = 0
<1>1. size \in Nat \ {0} /\ slot + 1 \in Int /\ 0 <= slot + 1
  OBVIOUS
<1>2. slot + 1 < size => (slot + 1) % size = slot + 1
  BY <1>1, WrapsOnce, Zenon
<1> QED
  BY <1>1, <1>2

LEMMA InitInv == Init => UartInv
<1> SUFFICES ASSUME Init PROVE UartInv
  OBVIOUS
<1>1. UartTypeOK
  <2>1. PICK b \in TxByte : tx_buf = [slot \in 0 .. TxBuf - 1 |-> b]
    BY DEF Init
  <2>2. PICK c \in RxByte : rx_buf = [slot \in 0 .. RxBuf - 1 |-> c]
    BY DEF Init
  <2>3. putting \in [Producer -> [byte : TxByte, next : 0 .. TxBuf - 1]]
    BY UartAssumption DEF Init
  <2>4. /\ tx_fifo \in Seq(TxByte) /\ Len(tx_fifo) = 0
        /\ rx_fifo \in Seq(RxByte) /\ Len(rx_fifo) = 0
        /\ line \in Seq(RxByte) /\ Len(line) = 0
    BY DEF Init
  <2>5. 0 \in 0 .. TxBuf - 1 /\ 0 \in 0 .. RxBuf - 1
    BY UartAssumption
  <2>6. /\ tx_buf \in [0 .. TxBuf - 1 -> TxByte]
        /\ rx_buf \in [0 .. RxBuf - 1 -> RxByte]
        /\ pc \in [Producer -> {"idle", "next", "test", "store", "advance", "kick"}]
    BY <2>1, <2>2 DEF Init
  <2>7. /\ tx_head = 0 /\ tx_tail = 0 /\ rx_head = 0 /\ rx_tail = 0
        /\ tx_busy = 0 /\ txeie = FALSE /\ ore = FALSE
        /\ tx_line \in TxByte /\ byte \in RxByte /\ got \in RxByte
        /\ rpc = "idle" /\ len = 1
    BY DEF Init
  <2>8. /\ Len(tx_fifo) <= Fifo /\ Len(rx_fifo) <= Fifo /\ Len(line) < len
    BY <2>4, <2>7, UartAssumption
  <2> QED
    BY <2>3, <2>4, <2>5, <2>6, <2>7, <2>8 DEF UartTypeOK
<1>2. LineInv /\ NoMissedKick
  BY DEF Init, LineInv, NoMissedKick
<1> QED
  BY <1>1, <1>2 DEF UartInv

-------------------------------------------------------------------------------
\* A step of a producer.

LEMMA PutInv ==
  ASSUME UartInv, NEW p \in Producer, NEW b \in TxByte, Put(p, b)
  PROVE  UartInv'
<1>1. UartTypeOK'
  BY DEF UartInv, UartTypeOK, Put, txVars, rxVars, lineVars
<1>2. LineInv' /\ NoMissedKick'
  BY DEF UartInv, UartTypeOK, LineInv, NoMissedKick, Put, txVars, rxVars, lineVars
<1> QED
  BY <1>1, <1>2 DEF UartInv

LEMMA ReadHeadInv ==
  ASSUME UartInv, NEW p \in Producer, ReadHead(p)
  PROVE  UartInv'
<1>1. (tx_head + 1) % TxBuf \in 0 .. TxBuf - 1
  BY NextIndex, UartAssumption DEF UartInv, UartTypeOK
<1>2. UartTypeOK'
  BY <1>1 DEF UartInv, UartTypeOK, ReadHead, txVars, rxVars, lineVars
<1>3. LineInv' /\ NoMissedKick'
  BY DEF UartInv, UartTypeOK, LineInv, NoMissedKick, ReadHead, txVars, rxVars, lineVars
<1> QED
  BY <1>2, <1>3 DEF UartInv

LEMMA TestFullInv ==
  ASSUME UartInv, NEW p \in Producer, TestFull(p)
  PROVE  UartInv'
<1>1. UartTypeOK'
  BY DEF UartInv, UartTypeOK, TestFull, txVars, rxVars, lineVars
<1>2. LineInv' /\ NoMissedKick'
  BY DEF UartInv, UartTypeOK, LineInv, NoMissedKick, TestFull, txVars, rxVars, lineVars
<1> QED
  BY <1>1, <1>2 DEF UartInv

LEMMA StoreByteInv ==
  ASSUME UartInv, NEW p \in Producer, StoreByte(p)
  PROVE  UartInv'
<1>1. UartTypeOK'
  BY DEF UartInv, UartTypeOK, StoreByte, rxVars, lineVars
<1>2. LineInv' /\ NoMissedKick'
  BY DEF UartInv, UartTypeOK, LineInv, NoMissedKick, StoreByte, rxVars, lineVars
<1> QED
  BY <1>1, <1>2 DEF UartInv

(* The byte is in the ring, and the producer is about to kick. *)
LEMMA StoreHeadInv ==
  ASSUME UartInv, NEW p \in Producer, StoreHead(p)
  PROVE  UartInv'
<1>1. UartTypeOK'
  BY DEF UartInv, UartTypeOK, StoreHead, rxVars, lineVars
<1>2. LineInv'
  BY DEF UartInv, LineInv, StoreHead, lineVars
<1>3. NoMissedKick'
  BY DEF UartInv, UartTypeOK, NoMissedKick, StoreHead
<1> QED
  BY <1>1, <1>2, <1>3 DEF UartInv

(* Whatever the kick finds, the interrupt is enabled after it. *)
LEMMA KickInv ==
  ASSUME UartInv, NEW p \in Producer, Kick(p)
  PROVE  UartInv'
<1>1. UartTypeOK'
  BY DEF UartInv, UartTypeOK, Kick, rxVars, lineVars
<1>2. LineInv'
  BY DEF UartInv, LineInv, Kick, lineVars
<1>3. tx_busy' = 1 /\ txeie'
  BY DEF UartInv, UartTypeOK, NoMissedKick, Kick
<1> QED
  BY <1>1, <1>2, <1>3 DEF UartInv, NoMissedKick

-------------------------------------------------------------------------------
\* A step of the reader.

LEMMA ReadlineInv ==
  ASSUME UartInv, NEW n \in Lens, vk_uart_readline(n)
  PROVE  UartInv'
<1>1. n \in Nat /\ n > 0
  BY UartAssumption
<1>2. UartTypeOK'
  BY <1>1 DEF UartInv, UartTypeOK, vk_uart_readline, txVars, putVars, rxVars
<1>3. LineInv'
  BY <1>1 DEF LineInv, vk_uart_readline
<1>4. NoMissedKick'
  BY DEF UartInv, NoMissedKick, vk_uart_readline, txVars, putVars
<1> QED
  BY <1>2, <1>3, <1>4 DEF UartInv

LEMMA GetByteInv ==
  ASSUME UartInv, GetByte
  PROVE  UartInv'
<1>1. UartTypeOK'
  BY DEF UartInv, UartTypeOK, GetByte, txVars, putVars, rxVars
<1>2. LineInv' /\ NoMissedKick'
  BY DEF UartInv, LineInv, NoMissedKick, GetByte, txVars, putVars
<1> QED
  BY <1>1, <1>2 DEF UartInv

LEMMA AdvanceInv ==
  ASSUME UartInv, Advance
  PROVE  UartInv'
<1>1. (rx_tail + 1) % RxBuf \in 0 .. RxBuf - 1
  BY NextIndex, UartAssumption DEF UartInv, UartTypeOK
<1>2. len \in Nat /\ len > 0
  BY UartAssumption DEF UartInv, UartTypeOK
<1>3. line \in Seq(RxByte) /\ byte \in RxByte /\ Len(line) < len - 1
  BY DEF UartInv, UartTypeOK, LineInv, Advance
<1>4. /\ line' \in Seq(RxByte)
      /\ Len(line') = Len(line) \/ Len(line') = Len(line) + 1
  BY <1>3 DEF Advance
<1>5. Len(line') <= len - 1
  BY <1>2, <1>3, <1>4
<1>6. LineInv'
  <2>1. len' = len
    BY DEF Advance
  <2>2. rpc' = "idle" \/ (byte \notin {NL, CR} /\ Len(line') # len - 1)
    BY DEF Advance
  <2> QED
    BY <1>2, <1>3, <1>4, <1>5, <2>1, <2>2 DEF LineInv
<1>7. UartTypeOK'
  BY <1>1, <1>2, <1>3, <1>4, <1>5 DEF UartInv, UartTypeOK, Advance, txVars, putVars
<1>8. NoMissedKick'
  BY DEF UartInv, NoMissedKick, Advance, txVars, putVars
<1> QED
  BY <1>6, <1>7, <1>8 DEF UartInv

-------------------------------------------------------------------------------
\* The handler and the UART.

LEMMA ReceiveInv ==
  ASSUME UartInv, Receive
  PROVE  /\ rx_buf' \in [0 .. RxBuf - 1 -> RxByte]
         /\ rx_head' \in 0 .. RxBuf - 1
         /\ rx_fifo' \in Seq(RxByte) /\ Len(rx_fifo') <= Fifo
<1>1. (rx_head + 1) % RxBuf \in 0 .. RxBuf - 1
  BY NextIndex, UartAssumption DEF UartInv, UartTypeOK
<1>2. rx_fifo \in Seq(RxByte) /\ Len(rx_fifo) <= Fifo
  BY DEF UartInv, UartTypeOK
<1>3. CASE rx_fifo = <<>>
  BY <1>3 DEF UartInv, UartTypeOK, Receive
<1>4. CASE rx_fifo # <<>>
  <2> DEFINE next == (rx_head + 1) % RxBuf
  <2>1. /\ Tail(rx_fifo) \in Seq(RxByte) /\ Head(rx_fifo) \in RxByte
        /\ Len(Tail(rx_fifo)) <= Fifo
    BY <1>2, <1>4, UartAssumption
  <2>2. rx_fifo' = Tail(rx_fifo)
    BY <1>4 DEF Receive
  <2>3. CASE next = rx_tail
    BY <1>2, <1>4, <2>1, <2>2, <2>3 DEF UartInv, UartTypeOK, Receive
  <2>4. CASE next # rx_tail
    <3>1. rx_buf' = [rx_buf EXCEPT ![rx_head] = Head(rx_fifo)] /\ rx_head' = next
      BY <1>4, <2>4 DEF Receive
    <3> QED
      BY <1>1, <2>1, <2>2, <3>1 DEF UartInv, UartTypeOK
  <2> QED
    BY <2>3, <2>4
<1> QED
  BY <1>3, <1>4

(* The interrupt is disabled only when the ring is found empty, and tx_busy  *)
(* with it.                                                                  *)
LEMMA TransmitInv ==
  ASSUME UartInv, Transmit, UNCHANGED <<tx_head, pc>>
  PROVE  /\ tx_fifo' \in Seq(TxByte) /\ Len(tx_fifo') <= Fifo
         /\ tx_tail' \in 0 .. TxBuf - 1
         /\ tx_busy' \in {0, 1} /\ txeie' \in BOOLEAN
         /\ NoMissedKick'
<1>1. (tx_tail + 1) % TxBuf \in 0 .. TxBuf - 1
  BY NextIndex, UartAssumption DEF UartInv, UartTypeOK
<1>2. CASE ~TXE
  BY <1>2 DEF UartInv, UartTypeOK, NoMissedKick, Transmit
<1>3. CASE TXE /\ tx_tail # tx_head
  <2>1. tx_fifo \in Seq(TxByte) /\ tx_buf[tx_tail] \in TxByte /\ Len(tx_fifo) < Fifo
    BY <1>3 DEF UartInv, UartTypeOK, TXE
  <2>2. /\ Append(tx_fifo, tx_buf[tx_tail]) \in Seq(TxByte)
        /\ Len(Append(tx_fifo, tx_buf[tx_tail])) <= Fifo
    BY <2>1, UartAssumption
  <2>3. UNCHANGED <<txeie, tx_busy>>
    BY <1>3 DEF Transmit
  <2>4. NoMissedKick'
    BY <1>3, <2>3 DEF UartInv, NoMissedKick
  <2>5. tx_fifo' = Append(tx_fifo, tx_buf[tx_tail]) /\ tx_tail' = (tx_tail + 1) % TxBuf
    BY <1>3 DEF Transmit
  <2> QED
    BY <1>1, <2>2, <2>3, <2>4, <2>5 DEF UartInv, UartTypeOK
<1>4. CASE TXE /\ tx_tail = tx_head
  <2>1. txeie' = FALSE /\ tx_busy' = 0 /\ UNCHANGED <<tx_fifo, tx_tail>>
    BY <1>4 DEF Transmit
  <2>2. /\ tx_fifo \in Seq(TxByte) /\ Len(tx_fifo) <= Fifo
        /\ tx_tail \in 0 .. TxBuf - 1
    BY DEF UartInv, UartTypeOK
  <2>3. tx_head' = tx_tail'
    BY <1>4, <2>1
  <2>4. NoMissedKick'
    BY <2>1, <2>3 DEF NoMissedKick
  <2> QED
    BY <2>1, <2>2, <2>4
<1> QED
  BY <1>2, <1>3, <1>4

LEMMA HandlerInv ==
  ASSUME UartInv, vk_uart_isr
  PROVE  UartInv'
<1>1. UNCHANGED <<tx_buf, tx_head, tx_line, putVars, rx_tail, lineVars>> /\ ore' = FALSE
  BY DEF vk_uart_isr
<1>2. /\ tx_fifo' \in Seq(TxByte) /\ Len(tx_fifo') <= Fifo
      /\ tx_tail' \in 0 .. TxBuf - 1
      /\ tx_busy' \in {0, 1} /\ txeie' \in BOOLEAN
      /\ NoMissedKick'
  BY <1>1, TransmitInv DEF vk_uart_isr, putVars
<1>3. /\ rx_buf' \in [0 .. RxBuf - 1 -> RxByte]
      /\ rx_head' \in 0 .. RxBuf - 1
      /\ rx_fifo' \in Seq(RxByte) /\ Len(rx_fifo') <= Fifo
  BY ReceiveInv DEF vk_uart_isr
<1>4. UartTypeOK'
  BY <1>1, <1>2, <1>3 DEF UartInv, UartTypeOK, putVars, lineVars
<1>5. LineInv'
  BY <1>1 DEF UartInv, LineInv, lineVars
<1> QED
  BY <1>2, <1>4, <1>5 DEF UartInv

LEMMA ShiftInv ==
  ASSUME UartInv, Shift
  PROVE  UartInv'
<1>1. tx_fifo \in Seq(TxByte) /\ tx_fifo # <<>> /\ Len(tx_fifo) <= Fifo
  BY DEF UartInv, UartTypeOK, Shift
<1>2. /\ Head(tx_fifo) \in TxByte
      /\ Tail(tx_fifo) \in Seq(TxByte) /\ Len(Tail(tx_fifo)) <= Fifo
  BY <1>1, UartAssumption
<1>3. UartTypeOK'
  BY <1>2 DEF UartInv, UartTypeOK, Shift, putVars, rxVars, lineVars
<1>4. LineInv' /\ NoMissedKick'
  BY DEF UartInv, LineInv, NoMissedKick, Shift, putVars, lineVars
<1> QED
  BY <1>3, <1>4 DEF UartInv

LEMMA ArriveInv ==
  ASSUME UartInv, NEW b \in RxByte, Arrive(b)
  PROVE  UartInv'
<1>1. rx_fifo \in Seq(RxByte) /\ Len(rx_fifo) <= Fifo
  BY DEF UartInv, UartTypeOK
<1>2. /\ rx_fifo' \in Seq(RxByte) /\ Len(rx_fifo') <= Fifo
      /\ ore' \in BOOLEAN
  <2>1. CASE Len(rx_fifo) < Fifo
    <3>1. /\ Append(rx_fifo, b) \in Seq(RxByte)
          /\ Len(Append(rx_fifo, b)) <= Fifo
      BY <1>1, <2>1, UartAssumption
    <3>2. rx_fifo' = Append(rx_fifo, b) /\ ore' = ore
      BY <2>1 DEF Arrive
    <3>3. ore \in BOOLEAN
      BY DEF UartInv, UartTypeOK
    <3> QED
      BY <3>1, <3>2, <3>3
  <2>2. CASE ~(Len(rx_fifo) < Fifo)
    BY <1>1, <2>2 DEF Arrive
  <2> QED
    BY <2>1, <2>2
<1>3. UartTypeOK'
  BY <1>2 DEF UartInv, UartTypeOK, Arrive, txVars, putVars, lineVars
<1>4. LineInv' /\ NoMissedKick'
  BY DEF UartInv, LineInv, NoMissedKick, Arrive, txVars, putVars, lineVars
<1> QED
  BY <1>3, <1>4 DEF UartInv

-------------------------------------------------------------------------------
LEMMA NextInv == UartInv /\ [Next]_vars => UartInv'
<1> SUFFICES ASSUME UartInv, [Next]_vars PROVE UartInv'
  OBVIOUS
<1>1. CASE UNCHANGED vars
  <2>1. UartTypeOK'
    BY <1>1 DEF UartInv, UartTypeOK, vars, txVars, putVars, rxVars, lineVars
  <2>2. LineInv' /\ NoMissedKick'
    BY <1>1 DEF UartInv, LineInv, NoMissedKick, vars, txVars, putVars, lineVars
  <2> QED
    BY <2>1, <2>2 DEF UartInv
<1>2. CASE \E p \in Producer : vk_uart_putc(p)
  BY <1>2, ReadHeadInv, TestFullInv, StoreByteInv, StoreHeadInv, KickInv
     DEF vk_uart_putc
<1>3. CASE \E p \in Producer, b \in TxByte : Put(p, b)
  BY <1>3, PutInv
<1>4. CASE \E n \in Lens : vk_uart_readline(n)
  BY <1>4, ReadlineInv
<1>5. CASE vk_uart_getc
  <2>1. CASE GetNone
    BY <1>1, <2>1 DEF GetNone
  <2> QED
    BY <1>5, <2>1, GetByteInv, AdvanceInv DEF vk_uart_getc
<1>6. CASE vk_uart_isr
  BY <1>6, HandlerInv
<1>7. CASE Shift
  BY <1>7, ShiftInv
<1>8. CASE \E b \in RxByte : Arrive(b)
  BY <1>8, ArriveInv
<1> QED
  BY <1>1, <1>2, <1>3, <1>4, <1>5, <1>6, <1>7, <1>8 DEF Next

(* UartInv is an invariant of the driver. *)
THEOREM Invariant == Spec => []UartInv
  BY InitInv, NextInv, PTL DEF Spec

(* The types; among them that vk_uart_readline's text and its '\0' stay in   *)
(* the buffer it is given, and that the ring indices stay in the rings.      *)
THEOREM TypeCorrect == Spec => []UartTypeOK
<1>1. UartInv => UartTypeOK
  BY DEF UartInv
<1> QED
  BY <1>1, Invariant, PTL

(* With any number of producers no byte waits in the TX ring while nobody    *)
(* is going to enable the interrupt that takes it out.                       *)
THEOREM KickNotMissed == Spec => []NoMissedKick
<1>1. UartInv => NoMissedKick
  BY DEF UartInv
<1> QED
  BY <1>1, Invariant, PTL

-------------------------------------------------------------------------------
\* The rings.

Filled(head, tail, size) == (head - tail) % size
Slot(tail, i, size) == (tail + i - 1) % size

(* The indices of a ring, without the remainders. *)
LEMMA RingIndices ==
  ASSUME NEW size \in Nat, size > 1, NEW head \in 0 .. size - 1, NEW tail \in 0 .. size - 1
  PROVE  /\ Filled(head, tail, size) \in 0 .. size - 1
         /\ tail <= head => Filled(head, tail, size) = head - tail
         /\ head < tail => Filled(head, tail, size) = head - tail + size
         /\ \A i \in 1 .. size :
              /\ Slot(tail, i, size) \in 0 .. size - 1
              /\ tail + i <= size => Slot(tail, i, size) = tail + i - 1
              /\ tail + i > size => Slot(tail, i, size) = tail + i - 1 - size
<1>1. size \in Nat \ {0} /\ head - tail \in Int
  OBVIOUS
<1>2. /\ Filled(head, tail, size) \in 0 .. size - 1
      /\ tail <= head => Filled(head, tail, size) = head - tail
      /\ head < tail => Filled(head, tail, size) = head - tail + size
  <2>1. Filled(head, tail, size) \in 0 .. size - 1
    BY <1>1 DEF Filled
  <2>2. ASSUME tail <= head PROVE Filled(head, tail, size) = head - tail
    <3>1. 0 <= head - tail /\ head - tail < size
      BY <2>2
    <3> QED
      BY <1>1, <3>1, WrapsOnce, Zenon DEF Filled
  <2>3. ASSUME head < tail PROVE Filled(head, tail, size) = head - tail + size
    <3>1. 0 - size <= head - tail /\ head - tail < 0
      BY <2>3
    <3> QED
      BY <1>1, <3>1, WrapsOnce, Zenon DEF Filled
  <2> QED
    BY <2>1, <2>2, <2>3
<1>3. ASSUME NEW i \in 1 .. size
      PROVE  /\ Slot(tail, i, size) \in 0 .. size - 1
             /\ tail + i <= size => Slot(tail, i, size) = tail + i - 1
             /\ tail + i > size => Slot(tail, i, size) = tail + i - 1 - size
  <2>0. tail + i - 1 \in Int
    OBVIOUS
  <2>1. Slot(tail, i, size) \in 0 .. size - 1
    BY <1>1, <2>0 DEF Slot
  <2>2. ASSUME tail + i <= size PROVE Slot(tail, i, size) = tail + i - 1
    <3>1. 0 <= tail + i - 1 /\ tail + i - 1 < size
      BY <2>2
    <3> QED
      BY <1>1, <2>0, <3>1, WrapsOnce, Zenon DEF Slot
  <2>3. ASSUME tail + i > size PROVE Slot(tail, i, size) = tail + i - 1 - size
    <3> DEFINE x == tail + i - 1
    <3>1. x \in Int /\ size <= x /\ x < size + size
      BY <2>3
    <3> HIDE DEF x
    <3>2. x % size = x - size
      BY <1>1, <3>1, WrapsOnce, Zenon
    <3> QED
      BY <3>2 DEF Slot, x
  <2> QED
    BY <2>1, <2>2, <2>3
<1> QED
  BY <1>2, <1>3

(* The sequence q holds what is in the ring. *)
Holds(q, S, buf, head, tail, size) ==
  /\ q \in Seq(S)
  /\ Len(q) = Filled(head, tail, size)
  /\ \A i \in 1 .. Filled(head, tail, size) : q[i] = buf[Slot(tail, i, size)]

LEMMA RingType ==
  ASSUME NEW S, NEW size \in Nat, size > 1, NEW head \in 0 .. size - 1,
         NEW tail \in 0 .. size - 1, NEW buf \in [0 .. size - 1 -> S]
  PROVE  Holds(Ring(buf, head, tail, size), S, buf, head, tail, size)
<1> DEFINE n == Filled(head, tail, size)
           r == Ring(buf, head, tail, size)
<1>1. r = [i \in 1 .. n |-> buf[Slot(tail, i, size)]]
  BY DEF Ring, Filled, Slot
<1>2. n \in 0 .. size - 1 /\ \A i \in 1 .. size : Slot(tail, i, size) \in 0 .. size - 1
  BY RingIndices, Zenon
<1> HIDE DEF n, r
<1>3. r \in [1 .. n -> S]
  BY <1>1, <1>2
<1>4. n \in Nat
  BY <1>2
<1>5. r \in Seq(S)
  BY <1>3, <1>4, SeqDef
<1>6. Len(r) = n
  BY <1>1, <1>4, <1>5, LenProperties
<1> QED
  BY <1>1, <1>5, <1>6 DEF n, r, Holds

(* What the ring is once its head or its tail has moved on.                  *)
Pushed(buf, head, tail, size) ==
  Ring(buf, (head + 1) % size, tail, size) = Append(Ring(buf, head, tail, size), buf[head])

Popped(buf, head, tail, size) ==
  /\ Ring(buf, head, tail, size) # <<>>
  /\ Head(Ring(buf, head, tail, size)) = buf[tail]
  /\ Tail(Ring(buf, head, tail, size)) = Ring(buf, head, (tail + 1) % size, size)

(* The byte stored in the slot of the head is no byte of the ring yet.       *)
Untouched(new, buf, head, tail, size) ==
  Ring(new, head, tail, size) = Ring(buf, head, tail, size)

(* One more byte at the head, if the ring is not full.                       *)
LEMMA RingPush ==
  ASSUME NEW S, NEW size \in Nat, size > 1, NEW head \in 0 .. size - 1,
         NEW tail \in 0 .. size - 1, NEW buf \in [0 .. size - 1 -> S],
         (head + 1) % size # tail
  PROVE  Pushed(buf, head, tail, size)
<1> DEFINE next == (head + 1) % size
           b == buf[head]
           r == Ring(buf, head, tail, size)
           q == Ring(buf, next, tail, size)
           n == Filled(head, tail, size)
           m == Filled(next, tail, size)
<1>1. /\ next \in 0 .. size - 1
      /\ head + 1 < size => next = head + 1
      /\ head + 1 = size => next = 0
  BY NextIndex
<1>2. b \in S
  OBVIOUS
<1>3. next # tail
  OBVIOUS
<1> HIDE DEF next
<1>4. /\ r \in Seq(S)
      /\ Len(r) = n
      /\ \A i \in 1 .. n : r[i] = buf[Slot(tail, i, size)]
  <2>1. Holds(r, S, buf, head, tail, size)
    BY RingType
  <2> QED
    BY <2>1 DEF Holds
<1>5. /\ q \in Seq(S)
      /\ Len(q) = m
      /\ \A i \in 1 .. m : q[i] = buf[Slot(tail, i, size)]
  <2>1. Holds(q, S, buf, next, tail, size)
    BY <1>1, <1>2, RingType
  <2> QED
    BY <2>1 DEF Holds
<1>6. /\ n \in 0 .. size - 1
      /\ tail <= head => n = head - tail
      /\ head < tail => n = head - tail + size
      /\ \A i \in 1 .. size :
           /\ Slot(tail, i, size) \in 0 .. size - 1
           /\ tail + i <= size => Slot(tail, i, size) = tail + i - 1
           /\ tail + i > size => Slot(tail, i, size) = tail + i - 1 - size
  BY RingIndices, ZenonT(30)
<1>7. /\ m \in 0 .. size - 1
      /\ tail <= next => m = next - tail
      /\ next < tail => m = next - tail + size
  BY <1>1, RingIndices, Zenon
<1> HIDE DEF r, q, n, m
<1>8. m = n + 1
  BY <1>1, <1>3, <1>6, <1>7
<1>9. Slot(tail, m, size) = head
  BY <1>1, <1>3, <1>6, <1>7, <1>8
<1>10. /\ Append(r, b) \in Seq(S) /\ Len(Append(r, b)) = n + 1
       /\ \A i \in 1 .. n : Append(r, b)[i] = r[i]
       /\ Append(r, b)[n + 1] = b
  BY <1>2, <1>4, AppendProperties
<1>11. \A i \in 1 .. m : q[i] = Append(r, b)[i]
  <2> TAKE i \in 1 .. m
  <2>1. CASE i = m
    BY <1>2, <1>5, <1>7, <1>8, <1>9, <1>10, <2>1
  <2>2. CASE i # m
    <3>1. i \in 1 .. n
      BY <1>6, <1>8, <2>2
    <3> QED
      BY <1>4, <1>5, <1>10, <3>1
  <2> QED
    BY <2>1, <2>2
<1>12. q = Append(r, b)
  BY <1>5, <1>8, <1>10, <1>11, SeqEqual
<1> QED
  BY <1>12 DEF q, r, b, next, Pushed

(* The slot at the head belongs to no byte of the ring.                      *)
LEMMA RingHead ==
  ASSUME NEW S, NEW size \in Nat, size > 1, NEW head \in 0 .. size - 1,
         NEW tail \in 0 .. size - 1, NEW buf \in [0 .. size - 1 -> S],
         NEW new \in [0 .. size - 1 -> S],
         \A i \in 0 .. size - 1 : i # head => new[i] = buf[i]
  PROVE  Untouched(new, buf, head, tail, size)
<1> DEFINE r == Ring(buf, head, tail, size)
           q == Ring(new, head, tail, size)
           n == Filled(head, tail, size)
<1>1. \A i \in 0 .. size - 1 : i # head => new[i] = buf[i]
  OBVIOUS
<1>2. /\ r \in Seq(S)
      /\ Len(r) = n
      /\ \A i \in 1 .. n : r[i] = buf[Slot(tail, i, size)]
  <2>1. Holds(r, S, buf, head, tail, size)
    BY RingType
  <2> QED
    BY <2>1 DEF Holds
<1>3. /\ q \in Seq(S)
      /\ Len(q) = n
      /\ \A i \in 1 .. n : q[i] = new[Slot(tail, i, size)]
  <2>1. Holds(q, S, new, head, tail, size)
    BY <1>1, RingType
  <2> QED
    BY <2>1 DEF Holds
<1>4. /\ n \in 0 .. size - 1
      /\ tail <= head => n = head - tail
      /\ head < tail => n = head - tail + size
      /\ \A i \in 1 .. size :
           /\ Slot(tail, i, size) \in 0 .. size - 1
           /\ tail + i <= size => Slot(tail, i, size) = tail + i - 1
           /\ tail + i > size => Slot(tail, i, size) = tail + i - 1 - size
  BY RingIndices, ZenonT(30)
<1> HIDE DEF r, q, n
<1>5. \A i \in 1 .. n : q[i] = r[i]
  <2> TAKE i \in 1 .. n
  <2>1. i \in 1 .. size
    BY <1>4
  <2>2. Slot(tail, i, size) \in 0 .. size - 1 /\ Slot(tail, i, size) # head
    BY <1>4, <2>1
  <2> QED
    BY <1>1, <1>2, <1>3, <2>2
<1>6. q = r
  BY <1>2, <1>3, <1>5, SeqEqual
<1> QED
  BY <1>6 DEF q, r, Untouched

(* One byte less at the tail.                                                *)
LEMMA RingPop ==
  ASSUME NEW S, NEW size \in Nat, size > 1, NEW head \in 0 .. size - 1,
         NEW tail \in 0 .. size - 1, NEW buf \in [0 .. size - 1 -> S], head # tail
  PROVE  Popped(buf, head, tail, size)
<1> DEFINE next == (tail + 1) % size
           r == Ring(buf, head, tail, size)
           q == Ring(buf, head, next, size)
           n == Filled(head, tail, size)
           m == Filled(head, next, size)
<1>1. /\ next \in 0 .. size - 1
      /\ tail + 1 < size => next = tail + 1
      /\ tail + 1 = size => next = 0
  BY NextIndex
<1> HIDE DEF next
<1>2. /\ r \in Seq(S)
      /\ Len(r) = n
      /\ \A i \in 1 .. n : r[i] = buf[Slot(tail, i, size)]
  <2>1. Holds(r, S, buf, head, tail, size)
    BY RingType
  <2> QED
    BY <2>1 DEF Holds
<1>3. /\ q \in Seq(S)
      /\ Len(q) = m
      /\ \A i \in 1 .. m : q[i] = buf[Slot(next, i, size)]
  <2>1. Holds(q, S, buf, head, next, size)
    BY <1>1, RingType
  <2> QED
    BY <2>1 DEF Holds
<1>4. /\ n \in 0 .. size - 1
      /\ tail <= head => n = head - tail
      /\ head < tail => n = head - tail + size
      /\ \A i \in 1 .. size :
           /\ Slot(tail, i, size) \in 0 .. size - 1
           /\ tail + i <= size => Slot(tail, i, size) = tail + i - 1
           /\ tail + i > size => Slot(tail, i, size) = tail + i - 1 - size
  BY RingIndices, ZenonT(30)
<1>5. /\ m \in 0 .. size - 1
      /\ next <= head => m = head - next
      /\ head < next => m = head - next + size
      /\ \A i \in 1 .. size :
           /\ Slot(next, i, size) \in 0 .. size - 1
           /\ next + i <= size => Slot(next, i, size) = next + i - 1
           /\ next + i > size => Slot(next, i, size) = next + i - 1 - size
  BY <1>1, RingIndices, ZenonT(30)
<1> HIDE DEF r, q, n, m
<1>6. n = m + 1
  BY <1>1, <1>4, <1>5
<1>7. Slot(tail, 1, size) = tail
  BY <1>4
<1>8. \A i \in 1 .. m : Slot(next, i, size) = Slot(tail, i + 1, size)
  <2> TAKE i \in 1 .. m
  <2>1. i \in 1 .. size /\ i + 1 \in 1 .. size
    BY <1>4, <1>5, <1>6
  <2>2. /\ tail + (i + 1) <= size => Slot(tail, i + 1, size) = tail + (i + 1) - 1
        /\ tail + (i + 1) > size => Slot(tail, i + 1, size) = tail + (i + 1) - 1 - size
    BY <1>4, <2>1
  <2>3. /\ next + i <= size => Slot(next, i, size) = next + i - 1
        /\ next + i > size => Slot(next, i, size) = next + i - 1 - size
    BY <1>5, <2>1
  <2>4. CASE tail + 1 < size
    BY <1>1, <2>2, <2>3, <2>4
  <2>5. CASE tail + 1 = size
    BY <1>1, <2>1, <2>2, <2>3, <2>5
  <2> QED
    BY <2>4, <2>5
<1>9. r # <<>> /\ r[1] = buf[tail]
  BY <1>2, <1>5, <1>6, <1>7, EmptySeq
<1>10. Head(r) = r[1]
  BY <1>2, <1>9
<1>11. /\ Tail(r) \in Seq(S) /\ Len(Tail(r)) = n - 1
       /\ \A i \in 1 .. n - 1 : Tail(r)[i] = r[i + 1]
  BY <1>2, <1>9, HeadTailProperties
<1>12. \A i \in 1 .. m : Tail(r)[i] = q[i]
  <2> TAKE i \in 1 .. m
  <2>1. i \in 1 .. n - 1 /\ i + 1 \in 1 .. n
    BY <1>4, <1>5, <1>6
  <2> QED
    BY <1>2, <1>3, <1>8, <1>11, <2>1
<1>13. Tail(r) = q
  <2>1. Len(Tail(r)) = Len(q)
    BY <1>3, <1>4, <1>5, <1>6, <1>11
  <2> QED
    BY <1>3, <1>11, <1>12, <2>1, SeqEqual
<1> QED
  BY <1>9, <1>10, <1>13 DEF q, r, next, Popped

-------------------------------------------------------------------------------
\* The two channels.

(* One task at a time is in vk_uart_putc. *)
OneProducer == \A p, q \in Producer : p = q

(* From its look at the head on, the producer's `next' is the index after it, *)
(* and once it has seen room there the slot at the head stays its own.        *)
SlotInv ==
  \A p \in Producer :
    /\ pc[p] \in {"test", "store", "advance"} =>
         putting[p].next = (tx_head + 1) % TxBuf
    /\ pc[p] \in {"store", "advance"} => putting[p].next # tx_tail
    /\ pc[p] = "advance" => tx_buf[tx_head] = putting[p].byte

(* The byte that vk_uart_getc has read is still the one at the tail.          *)
ByteInv == rpc = "advance" => rx_head # rx_tail /\ byte = rx_buf[rx_tail]

LEMMA SlotInvStep ==
  ASSUME OneProducer, UartInv, SlotInv, [Next]_vars
  PROVE  SlotInv'
<1> USE DEF SlotInv
<1>1. ASSUME NEW p \in Producer, NEW b \in TxByte, Put(p, b) PROVE  SlotInv'
  BY <1>1 DEF OneProducer, UartInv, UartTypeOK, Put
<1>2. ASSUME NEW p \in Producer, ReadHead(p) PROVE  SlotInv'
  BY <1>2 DEF OneProducer, UartInv, UartTypeOK, ReadHead, txVars
<1>3. ASSUME NEW p \in Producer, TestFull(p) PROVE  SlotInv'
  BY <1>3 DEF OneProducer, UartInv, UartTypeOK, TestFull, txVars
<1>4. ASSUME NEW p \in Producer, StoreByte(p) PROVE  SlotInv'
  BY <1>4 DEF OneProducer, UartInv, UartTypeOK, StoreByte
<1>5. ASSUME NEW p \in Producer, StoreHead(p) PROVE  SlotInv'
  BY <1>5 DEF OneProducer, UartInv, UartTypeOK, StoreHead
<1>6. ASSUME NEW p \in Producer, Kick(p) PROVE  SlotInv'
  BY <1>6 DEF OneProducer, UartInv, UartTypeOK, Kick
<1>7. CASE vk_uart_isr
  <2>1. UNCHANGED <<tx_buf, tx_head, pc, putting>>
    BY <1>7 DEF vk_uart_isr, putVars
  <2>2. tx_tail' = tx_tail \/ (tx_tail # tx_head /\ tx_tail' = (tx_tail + 1) % TxBuf)
    BY <1>7 DEF vk_uart_isr, Transmit
  <2>3. tx_tail # tx_head => (tx_tail + 1) % TxBuf # (tx_head + 1) % TxBuf
    <3>1. tx_head \in 0 .. TxBuf - 1 /\ tx_tail \in 0 .. TxBuf - 1
      BY DEF UartInv, UartTypeOK
    <3>2. \A x, y \in 0 .. TxBuf - 1 : x # y => (x + 1) % TxBuf # (y + 1) % TxBuf
      BY NextIndex, UartAssumption
    <3> QED
      BY <3>1, <3>2
  <2> QED
    BY <2>1, <2>2, <2>3
<1>8. CASE UNCHANGED <<tx_buf, tx_head, tx_tail, pc, putting>>
  BY <1>8
<1> QED
  BY <1>1, <1>2, <1>3, <1>4, <1>5, <1>6, <1>7, <1>8
     DEF Next, vk_uart_putc, vk_uart_readline, vk_uart_getc, GetNone, GetByte, Advance,
         Shift, Arrive, vars, txVars, putVars, rxVars, lineVars

LEMMA ByteInvStep ==
  ASSUME UartInv, ByteInv, [Next]_vars
  PROVE  ByteInv'
<1> USE DEF ByteInv
<1>1. CASE UNCHANGED <<rx_buf, rx_head, rx_tail, rpc, byte>>
  BY <1>1
<1>2. CASE vk_uart_isr
  <2>1. UNCHANGED <<rx_tail, rpc, byte>>
    BY <1>2 DEF vk_uart_isr, lineVars
  <2>2. \/ UNCHANGED <<rx_buf, rx_head>>
        \/ /\ (rx_head + 1) % RxBuf # rx_tail
           /\ rx_buf' = [rx_buf EXCEPT ![rx_head] = Head(rx_fifo)]
           /\ rx_head' = (rx_head + 1) % RxBuf
    BY <1>2 DEF vk_uart_isr, Receive
  <2> QED
    BY <2>1, <2>2 DEF UartInv, UartTypeOK
<1>3. ASSUME NEW n \in Lens, vk_uart_readline(n) PROVE ByteInv'
  BY <1>3 DEF vk_uart_readline
<1>4. CASE GetByte
  BY <1>4 DEF GetByte, rxVars
<1>5. CASE Advance
  BY <1>5 DEF Advance
<1> QED
  BY <1>1, <1>2, <1>3, <1>4, <1>5
     DEF Next, vk_uart_putc, ReadHead, TestFull, StoreByte, StoreHead, Kick, Put,
         vk_uart_getc, GetNone, Shift, Arrive, vars, txVars, putVars, rxVars, lineVars

-------------------------------------------------------------------------------
(* What the transmitter has not yet sent, and what the reader has not got.   *)
TxQueue == tx_fifo \o TxRing
RxQueue == RxRing \o rx_fifo

LEMMA QueueTypes ==
  ASSUME UartInv
  PROVE  /\ TxRing \in Seq(TxByte) /\ TxQueue \in Seq(TxByte)
         /\ RxRing \in Seq(RxByte) /\ RxQueue \in Seq(RxByte)
         /\ Len(RxRing) = Filled(rx_head, rx_tail, RxBuf)
<1>1. /\ tx_buf \in [0 .. TxBuf - 1 -> TxByte]
      /\ tx_head \in 0 .. TxBuf - 1 /\ tx_tail \in 0 .. TxBuf - 1
      /\ rx_buf \in [0 .. RxBuf - 1 -> RxByte]
      /\ rx_head \in 0 .. RxBuf - 1 /\ rx_tail \in 0 .. RxBuf - 1
      /\ tx_fifo \in Seq(TxByte) /\ rx_fifo \in Seq(RxByte)
  BY DEF UartInv, UartTypeOK
<1>2. Holds(TxRing, TxByte, tx_buf, tx_head, tx_tail, TxBuf)
  BY <1>1, RingType, UartAssumption DEF TxRing
<1>3. Holds(RxRing, RxByte, rx_buf, rx_head, rx_tail, RxBuf)
  BY <1>1, RingType, UartAssumption DEF RxRing
<1>4. /\ TxRing \in Seq(TxByte)
      /\ RxRing \in Seq(RxByte)
      /\ Len(RxRing) = Filled(rx_head, rx_tail, RxBuf)
  BY <1>2, <1>3 DEF Holds
<1> QED
  BY <1>1, <1>4, ConcatProperties DEF TxQueue, RxQueue

LEMMA EmptyRing ==
  ASSUME NEW buf, NEW size \in Nat, size > 1
  PROVE  Ring(buf, 0, 0, size) = <<>>
<1>1. Filled(0, 0, size) = 0
  BY RingIndices
<1>2. Ring(buf, 0, 0, size) = [i \in 1 .. 0 |-> buf[(0 + i - 1) % size]]
  BY <1>1 DEF Ring, Filled
<1> QED
  BY <1>2

(* The store of the byte does not disturb the ring, that of tx_head puts the *)
(* byte into it.                                                             *)
LEMMA StoreByteQueue ==
  ASSUME UartInv, NEW p \in Producer, StoreByte(p)
  PROVE  TxQueue' = TxQueue /\ tx_line' = tx_line
<1>1. /\ tx_buf \in [0 .. TxBuf - 1 -> TxByte] /\ putting[p].byte \in TxByte
      /\ tx_head \in 0 .. TxBuf - 1 /\ tx_tail \in 0 .. TxBuf - 1
  BY DEF UartInv, UartTypeOK
<1>2. /\ tx_buf' = [tx_buf EXCEPT ![tx_head] = putting[p].byte]
      /\ UNCHANGED <<tx_head, tx_tail, tx_fifo, tx_line>>
  BY DEF StoreByte
<1>3. PICK new : new = [tx_buf EXCEPT ![tx_head] = putting[p].byte]
  OBVIOUS
<1>4. /\ new \in [0 .. TxBuf - 1 -> TxByte]
      /\ \A i \in 0 .. TxBuf - 1 : i # tx_head => new[i] = tx_buf[i]
  BY <1>1, <1>3
<1>5. Untouched(new, tx_buf, tx_head, tx_tail, TxBuf)
  BY <1>1, <1>4, RingHead, UartAssumption
<1>6. TxRing' = TxRing
  BY <1>2, <1>3, <1>5 DEF TxRing, Untouched
<1> QED
  BY <1>2, <1>6 DEF TxQueue

LEMMA StoreHeadQueue ==
  ASSUME UartInv, SlotInv, NEW p \in Producer, StoreHead(p)
  PROVE  /\ TxQueue' = Append(TxQueue, putting[p].byte)
         /\ putting[p].byte \in TxByte
         /\ tx_line' = tx_line
<1> DEFINE b == putting[p].byte
<1>1. /\ tx_buf \in [0 .. TxBuf - 1 -> TxByte] /\ b \in TxByte
      /\ tx_head \in 0 .. TxBuf - 1 /\ tx_tail \in 0 .. TxBuf - 1
      /\ tx_fifo \in Seq(TxByte)
  BY DEF UartInv, UartTypeOK
<1>2. /\ tx_buf[tx_head] = b /\ (tx_head + 1) % TxBuf # tx_tail
      /\ tx_head' = (tx_head + 1) % TxBuf
      /\ UNCHANGED <<tx_buf, tx_tail, tx_fifo, tx_line>>
  BY DEF SlotInv, StoreHead
<1> HIDE DEF b
<1>3. Pushed(tx_buf, tx_head, tx_tail, TxBuf)
  BY <1>1, <1>2, RingPush, UartAssumption
<1>4. TxRing' = Append(TxRing, b)
  BY <1>2, <1>3 DEF TxRing, Pushed
<1>5. TxQueue' = Append(TxQueue, b)
  BY <1>1, <1>2, <1>4, QueueTypes, AppendToSecond, SMTT(30) DEF TxQueue
<1> QED
  BY <1>1, <1>2, <1>5 DEF b

(* The handler takes the byte at the tail to the FIFO.                       *)
LEMMA TransmitQueue ==
  ASSUME UartInv, vk_uart_isr
  PROVE  TxQueue' = TxQueue /\ tx_line' = tx_line
<1>1. /\ tx_buf \in [0 .. TxBuf - 1 -> TxByte]
      /\ tx_head \in 0 .. TxBuf - 1 /\ tx_tail \in 0 .. TxBuf - 1
      /\ tx_fifo \in Seq(TxByte)
  BY DEF UartInv, UartTypeOK
<1>2. UNCHANGED <<tx_buf, tx_head, tx_line>>
  BY DEF vk_uart_isr
<1>3. CASE UNCHANGED <<tx_fifo, tx_tail>>
  BY <1>2, <1>3 DEF TxQueue, TxRing
<1>4. CASE /\ tx_tail # tx_head
           /\ tx_fifo' = Append(tx_fifo, tx_buf[tx_tail])
           /\ tx_tail' = (tx_tail + 1) % TxBuf
  <2>1. Popped(tx_buf, tx_head, tx_tail, TxBuf)
    BY <1>1, <1>4, RingPop, UartAssumption
  <2>2. TxRing # <<>> /\ Head(TxRing) = tx_buf[tx_tail] /\ Tail(TxRing) = TxRing'
    BY <1>2, <1>4, <2>1 DEF TxRing, Popped
  <2>3. Append(tx_fifo, Head(TxRing)) \o Tail(TxRing) = tx_fifo \o TxRing
    BY <1>1, <2>2, QueueTypes, MoveOver
  <2> QED
    BY <1>2, <1>4, <2>2, <2>3 DEF TxQueue
<1> QED
  BY <1>3, <1>4 DEF vk_uart_isr, Transmit

(* The byte that goes out on the line is the first of the FIFO.              *)
LEMMA ShiftQueue ==
  ASSUME UartInv, Shift
  PROVE  TxQueue # <<>> /\ tx_line' = Head(TxQueue) /\ TxQueue' = Tail(TxQueue)
<1>1. tx_fifo \in Seq(TxByte) /\ tx_fifo # <<>>
  BY DEF UartInv, UartTypeOK, Shift
<1>2. /\ tx_line' = Head(tx_fifo) /\ tx_fifo' = Tail(tx_fifo)
      /\ UNCHANGED <<tx_buf, tx_head, tx_tail>>
  BY DEF Shift
<1>3. TxRing' = TxRing
  BY <1>2 DEF TxRing
<1>4. /\ TxQueue # <<>> /\ Head(TxQueue) = Head(tx_fifo)
      /\ Tail(TxQueue) = Tail(tx_fifo) \o TxRing
  BY <1>1, QueueTypes, HeadOfFirst DEF TxQueue
<1> QED
  BY <1>2, <1>3, <1>4 DEF TxQueue

LEMMA TransmitStep ==
  ASSUME UartInv, SlotInv, [Next]_vars
  PROVE  [TxChannel!Next]_<<TxQueue, tx_line>>
<1>1. CASE UNCHANGED <<tx_buf, tx_head, tx_tail, tx_fifo, tx_line>>
  BY <1>1 DEF TxQueue, TxRing
<1>2. ASSUME NEW p \in Producer, StoreByte(p) PROVE UNCHANGED <<TxQueue, tx_line>>
  BY <1>2, StoreByteQueue
<1>3. ASSUME NEW p \in Producer, StoreHead(p) PROVE TxChannel!Next
  BY <1>3, StoreHeadQueue DEF TxChannel!Next, TxChannel!Put, TxQueue
<1>4. CASE vk_uart_isr
  BY <1>4, TransmitQueue
<1>5. CASE Shift
  BY <1>5, ShiftQueue DEF TxChannel!Next, TxChannel!Take, TxQueue
<1> QED
  BY <1>1, <1>2, <1>3, <1>4, <1>5
     DEF Next, vk_uart_putc, ReadHead, TestFull, Kick, Put, vk_uart_readline, vk_uart_getc,
         GetNone, GetByte, Advance, Arrive, vars, txVars

(* One producer's bytes go out on the line in order, none twice, left out or *)
(* overtaken: the driver implements the channel, with any ring and FIFO.     *)
THEOREM TransmissionKeepsOrder ==
  ASSUME OneProducer
  PROVE  Spec => TransmitsInOrder
<1>1. Init => SlotInv
  BY DEF Init, SlotInv
<1>2. UartInv /\ SlotInv /\ [Next]_vars => SlotInv'
  BY SlotInvStep
<1>3. Init => TxChannel!Init
  <2> SUFFICES ASSUME Init PROVE TxQueue = <<>> /\ tx_line \in TxByte
    BY DEF TxChannel!Init, TxQueue
  <2>1. TxRing = <<>> /\ tx_fifo = <<>> /\ tx_line \in TxByte
    BY EmptyRing, UartAssumption DEF Init, TxRing
  <2> QED
    BY <2>1 DEF TxQueue
<1>4. UartInv /\ SlotInv /\ [Next]_vars => [TxChannel!Next]_<<TxQueue, tx_line>>
  BY TransmitStep
<1> QED
  BY <1>1, <1>2, <1>3, <1>4, Invariant, PTL
     DEF Spec, TransmitsInOrder, TxChannel!Spec, TxQueue

-------------------------------------------------------------------------------
(* The byte that vk_uart_getc has read is taken out of the ring.             *)
LEMMA AdvanceQueue ==
  ASSUME UartInv, ByteInv, Advance
  PROVE  RxQueue # <<>> /\ got' = Head(RxQueue) /\ RxQueue' = Tail(RxQueue)
<1>1. /\ rx_buf \in [0 .. RxBuf - 1 -> RxByte]
      /\ rx_head \in 0 .. RxBuf - 1 /\ rx_tail \in 0 .. RxBuf - 1
      /\ rx_fifo \in Seq(RxByte)
  BY DEF UartInv, UartTypeOK
<1>2. rx_head # rx_tail /\ byte = rx_buf[rx_tail]
  BY DEF ByteInv, Advance
<1>3. /\ rx_tail' = (rx_tail + 1) % RxBuf /\ got' = byte
      /\ UNCHANGED <<rx_buf, rx_head, rx_fifo>>
  BY DEF Advance
<1>4. Popped(rx_buf, rx_head, rx_tail, RxBuf)
  BY <1>1, <1>2, RingPop, UartAssumption
<1>5. RxRing # <<>> /\ Head(RxRing) = rx_buf[rx_tail] /\ Tail(RxRing) = RxRing'
  BY <1>3, <1>4 DEF RxRing, Popped
<1>6. /\ RxQueue # <<>> /\ Head(RxQueue) = Head(RxRing)
      /\ Tail(RxQueue) = Tail(RxRing) \o rx_fifo
  BY <1>1, <1>5, QueueTypes, HeadOfFirst DEF RxQueue
<1> QED
  BY <1>2, <1>3, <1>5, <1>6 DEF RxQueue

(* A full ring holds RxBuf - 1 bytes: one slot stays free.                   *)
LEMMA FullRing ==
  ASSUME UartInv, (rx_head + 1) % RxBuf = rx_tail
  PROVE  Len(RxRing) = RxBuf - 1
<1>1. /\ rx_head \in 0 .. RxBuf - 1 /\ rx_tail \in 0 .. RxBuf - 1
      /\ RxBuf \in Nat /\ RxBuf > 1
  BY UartAssumption DEF UartInv, UartTypeOK
<1>2. /\ rx_head + 1 < RxBuf => rx_tail = rx_head + 1
      /\ rx_head + 1 = RxBuf => rx_tail = 0
  BY <1>1, NextIndex
<1>3. /\ rx_tail <= rx_head => Filled(rx_head, rx_tail, RxBuf) = rx_head - rx_tail
      /\ rx_head < rx_tail =>
           Filled(rx_head, rx_tail, RxBuf) = rx_head - rx_tail + RxBuf
  BY <1>1, RingIndices
<1>4. Filled(rx_head, rx_tail, RxBuf) = RxBuf - 1
  BY <1>1, <1>2, <1>3
<1> QED
  BY <1>4, QueueTypes

(* The handler moves the FIFO's first byte to the ring, or drops it.         *)
LEMMA ReceiveQueue ==
  ASSUME UartInv, vk_uart_isr
  PROVE  /\ \/ RxQueue' = RxQueue
            \/ \E i \in (RxBuf - 1) + 1 .. Len(RxQueue) : RxQueue' = RemoveAt(RxQueue, i)
         /\ got' = got
<1>1. /\ rx_buf \in [0 .. RxBuf - 1 -> RxByte]
      /\ rx_head \in 0 .. RxBuf - 1 /\ rx_tail \in 0 .. RxBuf - 1
      /\ rx_fifo \in Seq(RxByte)
  BY DEF UartInv, UartTypeOK
<1>2. UNCHANGED <<rx_tail, got>>
  BY DEF vk_uart_isr, lineVars
<1>3. CASE rx_fifo = <<>>
  <2>1. UNCHANGED <<rx_buf, rx_head, rx_fifo>>
    BY <1>3 DEF vk_uart_isr, Receive
  <2> QED
    BY <1>2, <2>1 DEF RxQueue, RxRing
<1>4. CASE rx_fifo # <<>> /\ (rx_head + 1) % RxBuf = rx_tail
  <2>1. UNCHANGED <<rx_buf, rx_head>> /\ rx_fifo' = Tail(rx_fifo)
    BY <1>4 DEF vk_uart_isr, Receive
  <2>2. RxQueue' = RxRing \o Tail(rx_fifo)
    BY <1>2, <2>1 DEF RxQueue, RxRing
  <2>3. RemoveAt(RxRing \o rx_fifo, Len(RxRing) + 1) = RxRing \o Tail(rx_fifo)
    BY <1>1, <1>4, QueueTypes, RemoveSecond
  <2>4. Len(RxRing) = RxBuf - 1 /\ RxBuf \in Nat
    BY <1>4, FullRing, UartAssumption
  <2>5. Len(RxQueue) = Len(RxRing) + Len(rx_fifo)
    BY <1>1, QueueTypes, ConcatProperties DEF RxQueue
  <2>6. Len(rx_fifo) \in Nat \ {0}
    BY <1>1, <1>4, LenProperties, EmptySeq
  <2>7. (RxBuf - 1) + 1 \in (RxBuf - 1) + 1 .. Len(RxQueue)
    BY <2>4, <2>5, <2>6
  <2> QED
    BY <1>2, <2>2, <2>3, <2>4, <2>7 DEF RxQueue
<1>5. CASE rx_fifo # <<>> /\ (rx_head + 1) % RxBuf # rx_tail
  <2>1. /\ rx_buf' = [rx_buf EXCEPT ![rx_head] = Head(rx_fifo)]
        /\ rx_head' = (rx_head + 1) % RxBuf
        /\ rx_fifo' = Tail(rx_fifo)
    BY <1>5 DEF vk_uart_isr, Receive
  <2>2. Head(rx_fifo) \in RxByte
    BY <1>1, <1>5, HeadTailProperties
  <2>3. PICK new : new = [rx_buf EXCEPT ![rx_head] = Head(rx_fifo)]
    OBVIOUS
  <2>4. /\ new \in [0 .. RxBuf - 1 -> RxByte]
        /\ new[rx_head] = Head(rx_fifo)
        /\ \A i \in 0 .. RxBuf - 1 : i # rx_head => new[i] = rx_buf[i]
    BY <1>1, <2>2, <2>3
  <2>5. Untouched(new, rx_buf, rx_head, rx_tail, RxBuf)
    BY <1>1, <2>4, RingHead, UartAssumption
  <2>6. Pushed(new, rx_head, rx_tail, RxBuf)
    BY <1>1, <1>5, <2>4, RingPush, UartAssumption
  <2>7. RxRing' = Append(RxRing, Head(rx_fifo))
    BY <1>2, <2>1, <2>3, <2>4, <2>5, <2>6 DEF RxRing, Pushed, Untouched
  <2>8. Append(RxRing, Head(rx_fifo)) \o Tail(rx_fifo) = RxRing \o rx_fifo
    BY <1>1, <1>5, QueueTypes, MoveOver
  <2> QED
    BY <1>2, <2>1, <2>7, <2>8 DEF RxQueue
<1> QED
  BY <1>3, <1>4, <1>5

(* A byte that arrives goes to the end of the FIFO; the UART drops it itself *)
(* when that is full.                                                        *)
LEMMA ArriveQueue ==
  ASSUME UartInv, NEW b \in RxByte, Arrive(b)
  PROVE  (RxQueue' = Append(RxQueue, b) \/ RxQueue' = RxQueue) /\ got' = got
<1>1. rx_fifo \in Seq(RxByte)
  BY DEF UartInv, UartTypeOK
<1>2. UNCHANGED <<rx_buf, rx_head, rx_tail, got>>
  BY DEF Arrive, lineVars
<1>3. RxRing' = RxRing
  BY <1>2 DEF RxRing
<1>4. rx_fifo' = Append(rx_fifo, b) \/ rx_fifo' = rx_fifo
  BY DEF Arrive
<1>5. RxRing \o Append(rx_fifo, b) = Append(RxRing \o rx_fifo, b)
  BY <1>1, QueueTypes, AppendToSecond
<1> QED
  BY <1>2, <1>3, <1>4, <1>5 DEF RxQueue

LEMMA ReceiveStep ==
  ASSUME UartInv, ByteInv, [Next]_vars
  PROVE  [RxChannel!Next]_<<RxQueue, got>>
<1>1. CASE UNCHANGED <<rx_buf, rx_head, rx_tail, rx_fifo, got>>
  BY <1>1 DEF RxQueue, RxRing
<1>2. CASE Advance
  BY <1>2, AdvanceQueue DEF RxChannel!Next, RxChannel!Take, RxQueue
<1>3. CASE vk_uart_isr
  BY <1>3, ReceiveQueue
     DEF RxChannel!Next, RxChannel!Lose, RxChannel!RemoveAt, RemoveAt, RxQueue
<1>4. ASSUME NEW b \in RxByte, Arrive(b) PROVE [RxChannel!Next]_<<RxQueue, got>>
  BY <1>4, ArriveQueue DEF RxChannel!Next, RxChannel!Put, RxQueue
<1> QED
  BY <1>1, <1>2, <1>3, <1>4
     DEF Next, vk_uart_putc, ReadHead, TestFull, StoreByte, StoreHead, Kick, Put, Shift,
         vk_uart_readline, vk_uart_getc, GetNone, GetByte, vars, rxVars, lineVars

(* The reader gets the bytes that arrived in order, however the handler and  *)
(* it interleave; none is lost but behind the RxBuf - 1 bytes of a full ring.*)
THEOREM ReceptionKeepsOrder == Spec => ReceivesInOrder
<1>1. Init => ByteInv
  BY DEF Init, ByteInv
<1>2. UartInv /\ ByteInv /\ [Next]_vars => ByteInv'
  BY ByteInvStep
<1>3. Init => RxChannel!Init
  <2> SUFFICES ASSUME Init PROVE RxQueue = <<>> /\ got \in RxByte
    BY DEF RxChannel!Init, RxQueue
  <2>1. RxRing = <<>> /\ rx_fifo = <<>> /\ got \in RxByte
    BY EmptyRing, UartAssumption DEF Init, RxRing
  <2> QED
    BY <2>1 DEF RxQueue
<1>4. UartInv /\ ByteInv /\ [Next]_vars => [RxChannel!Next]_<<RxQueue, got>>
  BY ReceiveStep
<1> QED
  BY <1>1, <1>2, <1>3, <1>4, Invariant, PTL
     DEF Spec, ReceivesInOrder, RxChannel!Spec, RxQueue

-------------------------------------------------------------------------------
(* vk_uart_printf.  Value is a recursive function on the places of its text: *)
(* that there is one, only one, is shown by induction.                       *)

(* What the recursion of Value asks of its function, up to the n-th place.   *)
Values(v, text, digits, b, n) ==
  v = [i \in 0 .. n |-> IF i = 0 THEN 0 ELSE b * v[i - 1] + Digit(text[i], digits)]

LEMMA ValuesExist ==
  ASSUME NEW text, NEW digits, NEW b
  PROVE  \A n \in Nat : \E v : Values(v, text, digits, b, n)
<1> DEFINE T == {n \in Nat : \E v : Values(v, text, digits, b, n)}
<1>1. 0 \in T
  <2>1. Values([i \in 0 .. 0 |-> 0], text, digits, b, 0)
    BY DEF Values
  <2> QED
    BY <2>1
<1>2. ASSUME NEW n \in T PROVE n + 1 \in T
  <2>1. PICK v : Values(v, text, digits, b, n)
    BY <1>2
  <2> DEFINE w == [i \in 0 .. n + 1 |->
                     IF i = n + 1 THEN b * v[n] + Digit(text[n + 1], digits) ELSE v[i]]
  <2>2. ASSUME NEW i \in 0 .. n + 1
        PROVE  w[i] = IF i = 0 THEN 0 ELSE b * w[i - 1] + Digit(text[i], digits)
    <3>1. CASE i = n + 1
      <4>1. w[n + 1 - 1] = v[n]
        OBVIOUS
      <4> QED
        BY <3>1, <4>1
    <3>2. CASE i \in 0 .. n
      <4>1. v[i] = IF i = 0 THEN 0 ELSE b * v[i - 1] + Digit(text[i], digits)
        BY <2>1, <3>2 DEF Values
      <4>2. w[i] = v[i] /\ (i # 0 => w[i - 1] = v[i - 1])
        BY <3>2
      <4> QED
        BY <4>1, <4>2
    <3> QED
      BY <3>1, <3>2
  <2>3. Values(w, text, digits, b, n + 1)
    <3>1. w = [i \in 0 .. n + 1 |-> w[i]]
      OBVIOUS
    <3> HIDE DEF w
    <3> QED
      BY <2>2, <3>1 DEF Values
  <2> QED
    BY <2>3
<1>3. T = Nat
  <2> HIDE DEF T
  <2>1. T \in SUBSET Nat
    BY DEF T
  <2> QED
    BY <1>1, <1>2, <2>1, Induction
<1> QED
  BY <1>3

Alike(f, g, I) == \A i \in I : f[i] = g[i]

(* There is only one such function, and a longer one has its values.         *)
LEMMA ValuesAgree ==
  ASSUME NEW text, NEW other, NEW digits, NEW b, NEW n \in Nat, NEW m \in Nat, n <= m,
         Alike(text, other, 1 .. n),
         NEW v, Values(v, text, digits, b, n),
         NEW w, Values(w, other, digits, b, m)
  PROVE  Alike(v, w, 0 .. n)
<1> DEFINE T == {i \in Nat : i <= n => v[i] = w[i]}
<1>1. 0 \in T
  BY DEF Values
<1>2. ASSUME NEW i \in T PROVE i + 1 \in T
  <2> SUFFICES ASSUME i + 1 <= n PROVE v[i + 1] = w[i + 1]
    OBVIOUS
  <2>1. /\ v[i + 1] = b * v[i] + Digit(text[i + 1], digits)
        /\ w[i + 1] = b * w[i] + Digit(other[i + 1], digits)
    <3>1. i + 1 \in 0 .. n /\ i + 1 \in 0 .. m /\ i + 1 # 0 /\ (i + 1) - 1 = i
      OBVIOUS
    <3> QED
      BY <3>1 DEF Values
  <2>2. v[i] = w[i] /\ text[i + 1] = other[i + 1]
    BY <1>2 DEF Alike
  <2> QED
    BY <2>1, <2>2
<1>3. T = Nat
  <2> HIDE DEF T
  <2>1. T \in SUBSET Nat
    BY DEF T
  <2> QED
    BY <1>1, <1>2, <2>1, Induction
<1> QED
  BY <1>3 DEF Alike

LEMMA ValueOfText ==
  ASSUME NEW text, NEW digits, NEW b, Len(text) \in Nat
  PROVE  \E v : Values(v, text, digits, b, Len(text)) /\ Value(text, digits, b) = v[Len(text)]
<1> DEFINE v[i \in 0 .. Len(text)] ==
             IF i = 0 THEN 0 ELSE b * v[i - 1] + Digit(text[i], digits)
<1>1. \E w : w = [i \in 0 .. Len(text) |->
                    IF i = 0 THEN 0 ELSE b * w[i - 1] + Digit(text[i], digits)]
  <2>1. PICK w : Values(w, text, digits, b, Len(text))
    BY ValuesExist
  <2> QED
    BY <2>1 DEF Values
<1>2. v = [i \in 0 .. Len(text) |->
             IF i = 0 THEN 0 ELSE b * v[i - 1] + Digit(text[i], digits)]
  BY <1>1
<1>3. Value(text, digits, b) = v[Len(text)]
  BY DEF Value
<1> HIDE DEF v
<1> QED
  BY <1>2, <1>3 DEF Values

LEMMA ValueEmpty ==
  ASSUME NEW digits, NEW b
  PROVE  Value(<<>>, digits, b) = 0
<1>1. PICK v : Values(v, <<>>, digits, b, 0) /\ Value(<<>>, digits, b) = v[0]
  BY ValueOfText
<1> QED
  BY <1>1 DEF Values

LEMMA ValueAppend ==
  ASSUME NEW S, NEW text \in Seq(S), NEW c \in S, NEW digits, NEW b
  PROVE  Value(Append(text, c), digits, b) = b * Value(text, digits, b) + Digit(c, digits)
<1> DEFINE longer == Append(text, c)
           n == Len(text)
<1>1. /\ longer \in Seq(S) /\ Len(longer) = n + 1 /\ longer[n + 1] = c
      /\ n \in Nat /\ Alike(text, longer, 1 .. n)
  BY AppendProperties DEF Alike
<1> HIDE DEF longer, n
<1>2. PICK v : Values(v, text, digits, b, n) /\ Value(text, digits, b) = v[n]
  BY <1>1, ValueOfText DEF n
<1>3. PICK w : Values(w, longer, digits, b, n + 1) /\ Value(longer, digits, b) = w[n + 1]
  BY <1>1, ValueOfText
<1>4. v[n] = w[n]
  <2>1. n + 1 \in Nat /\ n <= n + 1 /\ n \in 0 .. n
    BY <1>1
  <2>2. Alike(v, w, 0 .. n)
    BY <1>1, <1>2, <1>3, <2>1, ValuesAgree
  <2> QED
    BY <2>1, <2>2 DEF Alike
<1>5. w[n + 1] = b * w[n] + Digit(c, digits)
  <2>1. n + 1 \in 0 .. n + 1 /\ n + 1 # 0 /\ (n + 1) - 1 = n
    BY <1>1
  <2> QED
    BY <1>1, <1>3, <2>1 DEF Values
<1> QED
  BY <1>2, <1>3, <1>4, <1>5 DEF longer

-------------------------------------------------------------------------------
\* The numerals of vk_uart_printf.

Table == {lower, upper}
Bases == {10, 16}

(* The digits of a base. *)
DigitsOf(digits, b) == {digits[k] : k \in 1 .. b}

LEMMA TableDistinct ==
  ASSUME NEW digits \in Table, NEW j \in 1 .. 16, NEW k \in 1 .. 16, digits[j] = digits[k]
  PROVE  j = k
<1>1. CASE digits = lower
  BY <1>1 DEF lower
<1>2. CASE digits = upper
  BY <1>2 DEF upper
<1> QED
  BY <1>1, <1>2 DEF Table

LEMMA DigitOfTable ==
  ASSUME NEW digits \in Table, NEW k \in 0 .. 15
  PROVE  /\ Digit(digits[k + 1], digits) = k
         /\ digits[k + 1] = "0" <=> k = 0
<1>1. \A j \in 0 .. 15 : digits[j + 1] = digits[k + 1] => j = k
  <2> SUFFICES ASSUME NEW j \in 0 .. 15, digits[j + 1] = digits[k + 1] PROVE j = k
    OBVIOUS
  <2>1. j + 1 \in 1 .. 16 /\ k + 1 \in 1 .. 16
    OBVIOUS
  <2>2. j + 1 = k + 1
    BY <2>1, TableDistinct
  <2> QED
    BY <2>2
<1>2. digits[0 + 1] = "0"
  BY DEF Table, lower, upper
<1>3. Digit(digits[k + 1], digits) = k
  BY <1>1 DEF Digit
<1>4. digits[k + 1] = "0" => k = 0
  <2>1. 0 \in 0 .. 15
    OBVIOUS
  <2> QED
    BY <1>1, <1>2, <2>1
<1> QED
  BY <1>2, <1>3, <1>4

(* One more digit at the end. *)
LEMMA ShowsLess ==
  ASSUME NEW digits \in Table, NEW b \in Bases, NEW x \in Nat,
         NEW text \in Seq(DigitsOf(digits, b)), Value(text, digits, b) = x \div b
  PROVE  /\ digits[(x % b) + 1] \in DigitsOf(digits, b)
         /\ Value(Append(text, digits[(x % b) + 1]), digits, b) = x
<1>1. /\ b \in Nat \ {0} /\ b <= 16
      /\ x % b \in 0 .. b - 1 /\ x \div b \in Int /\ x = b * (x \div b) + (x % b)
  <2>1. b \in Nat \ {0} /\ b <= 16 /\ x \in Int
    BY DEF Bases
  <2> QED
    BY <2>1, Division, Zenon
<1> DEFINE k == x % b
           q == x \div b
<1> HIDE DEF k, q
<1>2. k \in 0 .. 15 /\ k + 1 \in 1 .. b /\ x = b * q + k
  BY <1>1 DEF k, q
<1>3. digits[k + 1] \in DigitsOf(digits, b)
  BY <1>2 DEF DigitsOf
<1>4. Digit(digits[k + 1], digits) = k
  BY <1>2, DigitOfTable
<1>5. Value(Append(text, digits[k + 1]), digits, b)
        = b * Value(text, digits, b) + Digit(digits[k + 1], digits)
  BY <1>3, ValueAppend
<1>6. Value(text, digits, b) = q
  BY DEF q
<1> QED
  BY <1>2, <1>3, <1>4, <1>5, <1>6 DEF k

Magnitude == IF arg < 0 THEN -arg ELSE arg
Sign == IF arg < 0 THEN <<"-">> ELSE <<>>

(* In the division: whatever shows what is left of the number, with the      *)
(* digits that are in tmp it shows the number.                               *)
DivideInv ==
  /\ u \in Nat \ {0}
  /\ tmp \in Seq(DigitsOf(Digits, Radix))
  /\ out = Sign
  /\ \A w \in Seq(DigitsOf(Digits, Radix)) :
       Value(w, Digits, Radix) = u => Value(w \o Reverse(tmp), Digits, Radix) = Magnitude

(* Afterwards: what has been put and what is in tmp show it.                 *)
ReverseInv ==
  /\ tmp \in Seq(DigitsOf(Digits, Radix)) /\ tmp # <<>>
  /\ \E w \in Seq(DigitsOf(Digits, Radix)) :
       /\ out = Sign \o w
       /\ Shows(w \o Reverse(tmp), Digits, Radix, Magnitude)

Numeric ==
  /\ conv \in {"d", "i", "u", "x", "X"}
  /\ arg \in Int
  /\ arg < 0 => conv \in {"d", "i"}

PrintfInv ==
  /\ place \in {"text", "percent", "divide", "reverse"}
  /\ place \in {"divide", "reverse"} => Numeric
  /\ place = "divide" => DivideInv
  /\ place = "reverse" => ReverseInv
  /\ PrintsArguments

(* What follows a minus sign.                                                *)
LEMMA AfterMinus ==
  ASSUME NEW S, NEW w \in Seq(S)
  PROVE  Head(<<"-">> \o w) = "-" /\ Tail(<<"-">> \o w) = w
<1> DEFINE T == S \cup {"-"}
<1>1. <<"-">> \in Seq(T) /\ w \in Seq(T)
  <2>1. "-" \in T /\ S \subseteq T
    OBVIOUS
  <2> HIDE DEF T
  <2>2. w \in Seq(T)
    BY <2>1, SeqMonotonic
  <2> QED
    BY <2>1, <2>2
<1> HIDE DEF T
<1>2. <<"-">> # <<>> /\ Head(<<"-">>) = "-" /\ Tail(<<"-">>) = <<>>
  OBVIOUS
<1>3. Head(<<"-">> \o w) = Head(<<"-">>) /\ Tail(<<"-">> \o w) = Tail(<<"-">>) \o w
  BY <1>1, <1>2, HeadOfFirst
<1> QED
  BY <1>1, <1>2, <1>3, ConcatEmptySeq

LEMMA ShowsZero ==
  ASSUME NEW digits \in Table, NEW b \in Bases
  PROVE  Shows(<<"0">>, digits, b, 0)
<1>1. digits[0 + 1] = "0" /\ Digit("0", digits) = 0
  <2>1. 0 \in 0 .. 15
    OBVIOUS
  <2>2. digits[0 + 1] = "0"
    BY <2>1, DigitOfTable
  <2> QED
    BY <2>1, <2>2, DigitOfTable
<1>2. Value(<<"0">>, digits, b) = 0
  <2>1. Append(<<>>, "0") = <<"0">> /\ <<>> \in Seq({"0"}) /\ "0" \in {"0"}
    OBVIOUS
  <2>2. Value(Append(<<>>, "0"), digits, b) = b * Value(<<>>, digits, b) + Digit("0", digits)
    BY <2>1, ValueAppend, ZenonT(30)
  <2>3. b \in Nat
    BY DEF Bases
  <2> QED
    BY <1>1, <2>1, <2>2, <2>3, ValueEmpty
<1>3. Numeral(<<"0">>, digits, b)
  <2>1. 1 \in 1 .. b /\ digits[1] = "0"
    BY <1>1 DEF Bases
  <2> QED
    BY <2>1 DEF Numeral
<1> QED
  BY <1>2, <1>3 DEF Shows

LEMMA TableAndBase == Digits \in Table /\ Radix \in Bases
BY DEF Digits, Radix, Table, Bases

LEMMA NumberStep ==
  ASSUME NEW directive \in {"d", "i", "u", "x", "X"}, NEW value \in Int,
         value < 0 => directive \in {"d", "i"},
         Number(directive, value, IF value < 0 THEN <<"-">> ELSE <<>>,
                IF value < 0 THEN -value ELSE value)
  PROVE  PrintfInv'
<1> DEFINE m == IF value < 0 THEN -value ELSE value
<1>1. /\ place' = IF m = 0 THEN "text" ELSE "divide"
      /\ conv' = directive /\ arg' = value
      /\ out' = IF m = 0 THEN Append(IF value < 0 THEN <<"-">> ELSE <<>>, "0")
                         ELSE IF value < 0 THEN <<"-">> ELSE <<>>
      /\ u' = m /\ tmp' = <<>>
  BY DEF Number
<1>2. m \in Nat /\ Magnitude' = m
  BY <1>1 DEF Magnitude
<1>3. Numeric'
  BY <1>1 DEF Numeric
<1>4. Digits' \in Table /\ Radix' \in Bases
  BY DEF Digits, Radix, Table, Bases
<1>5. CASE m = 0
  <2>1. value = 0
    BY <1>5
  <2>2. out' = <<"0">> /\ place' = "text" /\ arg' = 0
    BY <1>1, <2>1
  <2>5. Shows(<<"0">>, Digits', Radix', 0)
    BY <1>4, ShowsZero
  <2>6. PrintsArguments'
    BY <1>1, <2>1, <2>2, <2>5 DEF PrintsArguments, Digits, Radix
  <2> QED
    BY <1>3, <2>2, <2>6 DEF PrintfInv
<1>6. CASE m # 0
  <2>1. place' = "divide" /\ out' = Sign' /\ u' \in Nat \ {0}
    BY <1>1, <1>2, <1>6 DEF Sign
  <2>2. ASSUME NEW w \in Seq(DigitsOf(Digits', Radix'))
        PROVE  w \o Reverse(tmp') = w
    <3>1. Reverse(tmp') = <<>>
      BY <1>1, ReverseEmpty
    <3> QED
      BY <3>1, ConcatEmptySeq
  <2>3. tmp' \in Seq(DigitsOf(Digits', Radix')) /\ u' = Magnitude'
    BY <1>1, <1>2
  <2>4. DivideInv'
    <3>1. DigitsOf(Digits, Radix)' = DigitsOf(Digits', Radix')
      BY DEF DigitsOf
    <3> QED
      BY <2>1, <2>2, <2>3, <3>1 DEF DivideInv
  <2>5. PrintsArguments'
    BY <2>1 DEF PrintsArguments
  <2> QED
    BY <1>3, <2>1, <2>4, <2>5 DEF PrintfInv
<1> QED
  BY <1>5, <1>6

(* -v in 32 bits is the magnitude of v, that of the least int included.      *)
LEMMA SignedStep ==
  ASSUME Signed
  PROVE  PrintfInv'
<1>1. PICK v \in Int32, directive \in {"d", "i"} :
        IF v < 0 THEN Number(directive, v, <<"-">>, (-v) % Word)
                 ELSE Number(directive, v, <<>>, v)
  BY DEF Signed
<1>2. v \in Int /\ (v < 0 => 0 <= -v /\ -v < Word)
  <2>1. Word \in Nat \ {0} /\ Word \div 2 \in Int /\ Word = 2 * (Word \div 2) + (Word % 2)
    BY PrintfAssumption
  <2> QED
    BY <2>1, PrintfAssumption DEF Int32
<1>3. v < 0 => (-v) % Word = -v
  <2>1. Word \in Nat \ {0} /\ -v \in Int
    BY <1>2, PrintfAssumption
  <2> QED
    BY <1>2, <2>1, WrapsOnce
<1>4. Number(directive, v, IF v < 0 THEN <<"-">> ELSE <<>>, IF v < 0 THEN -v ELSE v)
  BY <1>1, <1>3
<1> QED
  BY <1>2, <1>4, NumberStep

LEMMA UnsignedStep ==
  ASSUME Unsigned
  PROVE  PrintfInv'
<1>1. PICK v \in UInt32, directive \in {"u", "x", "X"} : Number(directive, v, <<>>, v)
  BY DEF Unsigned
<1>2. v \in Int /\ ~(v < 0)
  BY <1>1, PrintfAssumption DEF UInt32
<1>3. Number(directive, v, IF v < 0 THEN <<"-">> ELSE <<>>, IF v < 0 THEN -v ELSE v)
  BY <1>1, <1>2
<1> QED
  BY <1>2, <1>3, NumberStep

LEMMA DivideStep ==
  ASSUME PrintfInv, Divide
  PROVE  PrintfInv'
<1> DEFINE D == DigitsOf(Digits, Radix)
           k == u % Radix
           c == Digits[k + 1]
<1>1. Digits \in Table /\ Radix \in Bases
  BY TableAndBase
<1>2. Numeric /\ DivideInv
  BY DEF PrintfInv, Divide
<1>3. /\ tmp' = Append(tmp, c) /\ u' = u \div Radix
      /\ place' = IF u' = 0 THEN "reverse" ELSE "divide"
      /\ conv' = conv /\ arg' = arg /\ out' = out
      /\ Digits' = Digits /\ Radix' = Radix /\ Numeric'
      /\ Magnitude' = Magnitude /\ Sign' = Sign
  BY <1>2 DEF Divide, Digits, Radix, Numeric, Magnitude, Sign
<1>4. /\ u \in Nat /\ u # 0 /\ tmp \in Seq(D) /\ out = Sign
      /\ \A w \in Seq(D) :
           Value(w, Digits, Radix) = u => Value(w \o Reverse(tmp), Digits, Radix) = Magnitude
  BY <1>2 DEF DivideInv
<1>5. /\ u' \in Nat /\ k \in 0 .. Radix - 1 /\ (u' = 0 => k = u)
  <2>1. u' \in Nat /\ k \in 0 .. Radix - 1 /\ u = Radix * u' + k
    <3>1. CASE Radix = 10
      BY <1>3, <1>4, <3>1
    <3>2. CASE Radix = 16
      BY <1>3, <1>4, <3>2
    <3> QED
      BY <1>1, <3>1, <3>2 DEF Bases
  <2> HIDE DEF k
  <2>2. u' = 0 => u = k
    <3>1. CASE Radix = 10
      BY <1>4, <2>1, <3>1
    <3>2. CASE Radix = 16
      BY <1>4, <2>1, <3>2
    <3> QED
      BY <1>1, <3>1, <3>2 DEF Bases
  <2> QED
    BY <2>1, <2>2
<1>6. c \in D
  <2>1. k + 1 \in 1 .. Radix
    BY <1>1, <1>5 DEF Bases
  <2> QED
    BY <2>1 DEF DigitsOf
<1>7. ASSUME NEW w \in Seq(D), Value(w, Digits, Radix) = u'
      PROVE  Value(w \o Reverse(tmp'), Digits, Radix) = Magnitude
  <2>1. Append(w, c) \in Seq(D) /\ Value(Append(w, c), Digits, Radix) = u
    <3>1. Value(w, Digits, Radix) = u \div Radix
      BY <1>3, <1>7
    <3>2. Value(Append(w, c), Digits, Radix) = u
      BY <1>1, <1>4, <3>1, ShowsLess
    <3> QED
      BY <1>6, <3>2, AppendProperties
  <2>2. Value(Append(w, c) \o Reverse(tmp), Digits, Radix) = Magnitude
    BY <1>4, <2>1
  <2>3. w \o Reverse(tmp') = Append(w, c) \o Reverse(tmp)
    <3> HIDE DEF c, D
    <3>1. w \o Reverse(Append(tmp, c)) = Append(w, c) \o Reverse(tmp)
      BY <1>4, <1>6, MoveLast
    <3> QED
      BY <1>3, <3>1
  <2> QED
    BY <2>2, <2>3
<1> HIDE DEF D, k, c
<1>8. tmp' \in Seq(D) /\ tmp' # <<>>
  BY <1>3, <1>4, <1>6, AppendProperties
<1>9. DigitsOf(Digits, Radix)' = D
  BY <1>3 DEF D, DigitsOf
<1>10. PrintsArguments'
  BY <1>3 DEF PrintsArguments
<1>11. CASE u' # 0
  <2>1. DivideInv'
    BY <1>3, <1>4, <1>5, <1>7, <1>8, <1>9, <1>11 DEF DivideInv
  <2> QED
    BY <1>3, <1>10, <1>11, <2>1 DEF PrintfInv
<1>12. CASE u' = 0
  <2> DEFINE r == Reverse(tmp')
  <2>1. r \in Seq(D) /\ r # <<>> /\ Head(r) = c
    BY <1>3, <1>4, <1>6, <1>8, ReverseType, ReverseAppend
  <2>2. <<>> \in Seq(D) /\ <<>> \o r = r /\ Sign \o <<>> = Sign
    <3>1. Sign \in Seq({"-"})
      <4>1. <<"-">> \in Seq({"-"}) /\ <<>> \in Seq({"-"})
        OBVIOUS
      <4> QED
        BY <4>1 DEF Sign
    <3> QED
      BY <2>1, <3>1, ConcatEmptySeq
  <2>3. Value(r, Digits, Radix) = Magnitude
    BY <1>7, <1>12, <2>2, ValueEmpty
  <2>4. c # "0"
    <3>1. k \in 0 .. 15 /\ k # 0
      BY <1>1, <1>4, <1>5, <1>12 DEF Bases
    <3> QED
      BY <1>1, <3>1, DigitOfTable DEF c
  <2> HIDE DEF r
  <2>5. Numeral(r, Digits, Radix)
    <3>1. \A i \in DOMAIN r : r[i] \in D
      BY <2>1
    <3> QED
      BY <2>1, <2>4, <3>1 DEF Numeral, D, DigitsOf
  <2>6. Shows(r, Digits, Radix, Magnitude)
    BY <2>3, <2>5 DEF Shows
  <2>7. ReverseInv'
    BY <1>3, <1>4, <1>8, <1>9, <2>2, <2>6 DEF ReverseInv, r
  <2> QED
    BY <1>3, <1>10, <1>12, <2>7 DEF PrintfInv
<1> QED
  BY <1>11, <1>12

LEMMA PutDigitStep ==
  ASSUME PrintfInv, PutDigit
  PROVE  PrintfInv'
<1> DEFINE D == DigitsOf(Digits, Radix)
           c == Last(tmp)
           f == Front(tmp)
<1>1. Numeric /\ ReverseInv
  BY DEF PrintfInv, PutDigit
<1>2. /\ tmp' = f /\ out' = Append(out, c)
      /\ place' = IF tmp' = <<>> THEN "text" ELSE "reverse"
      /\ conv' = conv /\ arg' = arg
      /\ Digits' = Digits /\ Radix' = Radix /\ Numeric'
      /\ Magnitude' = Magnitude /\ Sign' = Sign
  BY <1>1 DEF PutDigit, Digits, Radix, Numeric, Magnitude, Sign
<1>3. tmp \in Seq(D) /\ tmp # <<>>
  BY <1>1 DEF ReverseInv
<1>4. PICK w \in Seq(D) : out = Sign \o w /\ Shows(w \o Reverse(tmp), Digits, Radix, Magnitude)
  BY <1>1 DEF ReverseInv
<1> HIDE DEF D, c, f
<1>5. f \in Seq(D) /\ c \in D /\ tmp = Append(f, c)
  BY <1>3, FrontAndLast DEF f, c
<1>6. Append(w, c) \in Seq(D)
  BY <1>5, AppendProperties
<1>7. out' = Sign \o Append(w, c)
  <2> DEFINE S == D \cup {"-"}
  <2>1. w \in Seq(S) /\ c \in S /\ Sign \in Seq(S)
    <3>1. D \subseteq S /\ "-" \in S
      OBVIOUS
    <3> HIDE DEF S
    <3>2. w \in Seq(S)
      BY <3>1, SeqMonotonic
    <3>3. <<"-">> \in Seq(S) /\ <<>> \in Seq(S)
      BY <3>1
    <3> QED
      BY <1>5, <3>1, <3>2, <3>3 DEF Sign
  <2> HIDE DEF S
  <2>2. Sign \o Append(w, c) = Append(Sign \o w, c)
    BY <2>1, AppendToSecond
  <2> QED
    BY <1>2, <1>4, <2>2
<1>8. Shows(Append(w, c) \o Reverse(f), Digits, Radix, Magnitude)
  <2>1. w \o Reverse(tmp) = Append(w, c) \o Reverse(f)
    BY <1>5, MoveLast
  <2> QED
    BY <1>4, <2>1
<1>9. DigitsOf(Digits, Radix)' = D
  BY <1>2 DEF D, DigitsOf
<1>10. CASE tmp' # <<>>
  <2>1. ReverseInv'
    BY <1>2, <1>5, <1>6, <1>7, <1>8, <1>9, <1>10 DEF ReverseInv
  <2> QED
    BY <1>2, <1>10, <2>1 DEF PrintfInv, PrintsArguments
<1>11. CASE tmp' = <<>>
  <2>1. Append(w, c) \o Reverse(f) = Append(w, c)
    BY <1>2, <1>6, <1>11, ReverseEmpty, ConcatEmptySeq
  <2>2. Shows(Append(w, c), Digits, Radix, Magnitude)
    BY <1>8, <2>1
  <2>3. PrintsArguments'
    <3>1. CASE arg < 0
      <4>1. out' = <<"-">> \o Append(w, c)
        BY <1>7, <3>1 DEF Sign
      <4>2. Head(out') = "-" /\ Tail(out') = Append(w, c)
        BY <1>6, <4>1, AfterMinus
      <4>3. conv' \in {"d", "i"} /\ arg' < 0
        BY <1>1, <1>2, <3>1 DEF Numeric
      <4>4. Magnitude = -arg' /\ Digits = upper /\ Radix = 10
        BY <1>2, <3>1, <4>3 DEF Magnitude, Digits, Radix
      <4>5. Head(out') = "-" /\ Shows(Tail(out'), upper, 10, -arg')
        BY <2>2, <4>2, <4>4
      <4> QED
        BY <4>3, <4>5 DEF PrintsArguments
    <3>2. CASE ~(arg < 0)
      <4>1. out' = Append(w, c)
        BY <1>6, <1>7, <3>2, ConcatEmptySeq DEF Sign
      <4>2. Magnitude = arg' /\ ~(arg' < 0)
        BY <1>2, <3>2 DEF Magnitude
      <4>3. Shows(out', Digits', Radix', arg')
        BY <1>2, <2>2, <4>1, <4>2
      <4>4. Numeric'
        BY <1>2
      <4> QED
        BY <4>2, <4>3, <4>4 DEF PrintsArguments, Numeric, Digits, Radix
    <3> QED
      BY <3>1, <3>2
  <2> QED
    BY <1>2, <1>11, <2>3 DEF PrintfInv
<1> QED
  BY <1>10, <1>11

(* A directive that is not a number, or no directive.                        *)
LEMMA PutsStep ==
  ASSUME NEW directive \in {"none", "s", "c", "%", "unknown"}, NEW text, NEW characters,
         Puts(directive, text, characters),
         (directive = "s" /\ text # NoString) => characters = text,
         directive = "c" => characters = text
  PROVE  PrintfInv'
<1>1. /\ place' = "text" /\ conv' = directive
      /\ str' = text /\ out' = characters
  BY DEF Puts
<1>2. PrintsArguments'
  BY <1>1 DEF PrintsArguments
<1> QED
  BY <1>1, <1>2 DEF PrintfInv

(* Every step of vk_uart_printf keeps PrintfInv.                             *)
LEMMA PrintfStep ==
  ASSUME PrintfInv, [vk_uart_printf]_printfVars
  PROVE  PrintfInv'
<1>1. CASE Ordinary
  BY <1>1, PutsStep DEF Ordinary
<1>2. CASE Percent
  BY <1>2 DEF Percent, PrintfInv, PrintsArguments
<1>3. CASE Str
  <2>1. PICK s \in String \cup {NoString} :
          Puts("s", s, IF s = NoString THEN <<"(", "n", "u", "l", "l", ")">> ELSE s)
    BY <1>3 DEF Str
  <2> QED
    BY <2>1, PutsStep
<1>4. CASE Char
  <2>1. PICK c \in Text : Puts("c", <<c>>, <<c>>)
    BY <1>4 DEF Char
  <2> QED
    BY <2>1, PutsStep
<1>5. CASE PercentSign
  BY <1>5, PutsStep DEF PercentSign
<1>6. CASE Unknown
  <2>1. PICK c : Puts("unknown", NoString, <<"%", c>>)
    BY <1>6 DEF Unknown
  <2> QED
    BY <2>1, PutsStep
<1>7. CASE UNCHANGED printfVars
  BY <1>7 DEF printfVars, PrintfInv, Numeric, DivideInv, ReverseInv, PrintsArguments,
       DigitsOf, Digits, Radix, Sign, Magnitude
<1> QED
  BY <1>1, <1>2, <1>3, <1>4, <1>5, <1>6, <1>7, SignedStep, UnsignedStep, DivideStep, PutDigitStep
  DEF vk_uart_printf

(* vk_uart_printf shows every argument of the directives it supports,        *)
(* whatever the word, the texts and the length of the strings: the numeral   *)
(* of a number in the base and the case asked for, its sign before it.       *)
THEOREM ArgumentsPrinted == PrintfSpec => []PrintsArguments
<1>1. PrintfInit => PrintfInv
  BY DEF PrintfInit, PrintfInv, PrintsArguments
<1>2. PrintfInv /\ [vk_uart_printf]_printfVars => PrintfInv'
  BY PrintfStep
<1>3. PrintfInv => PrintsArguments
  BY DEF PrintfInv
<1> QED
  BY <1>1, <1>2, <1>3, PTL DEF PrintfSpec

===============================================================================
