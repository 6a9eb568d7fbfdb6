------------------------------ MODULE VulcanUart ------------------------------
(***************************************************************************)
(* The UART driver, hal/vulcan_uart.c: tasks put bytes in the TX ring, one *)
(* task reads lines from the RX ring, and vk_uart_isr is at the other end  *)
(* of both.  The interrupt preempts task code between any two accesses to  *)
(* the rings; task code never preempts the handler, which is one step.     *)
(***************************************************************************)
EXTENDS SequencesExt, Integers

CONSTANTS
  Producer,   \* the tasks that call vk_uart_putc
  TxByte,     \* the bytes they put
  RxByte,     \* the bytes that come in on the line
  TxBuf,      \* VK_UART_TX_BUF, the slots of the TX ring
  RxBuf,      \* VK_UART_RX_BUF
  Fifo,       \* the depth of the UART's own FIFOs
  Lens,       \* the buffer sizes given to vk_uart_readline
  NL, CR      \* '\n' and '\r'

ASSUME UartAssumption ==
  /\ TxBuf \in Nat /\ TxBuf > 1
  /\ RxBuf \in Nat /\ RxBuf > 1
  /\ Fifo \in Nat \ {0}
  /\ Lens \subseteq Nat \ {0}

VARIABLES
  tx_buf, tx_head, tx_tail, tx_busy,
  txeie,        \* the TXEIE bit of UART_CR1
  tx_fifo,      \* the UART's transmit FIFO, filled through UART_TDR
  tx_line,      \* the byte sent last on the line
  pc,           \* where each producer is in vk_uart_putc
  putting,      \* its argument, and its local variable `next'
  rx_buf, rx_head, rx_tail,
  rx_fifo,      \* the UART's receive FIFO, emptied through UART_RDR
  ore,          \* the overrun flag of UART_ISR
  rpc,          \* where the reader is: "idle", "get", "advance"
  len, line,    \* vk_uart_readline's argument and what it has written
  byte,         \* the byte vk_uart_getc has read
  got           \* history: the byte it took out of the ring last

txVars == <<tx_buf, tx_head, tx_tail, tx_busy, txeie, tx_fifo, tx_line>>
putVars == <<pc, putting>>
rxVars == <<rx_buf, rx_head, rx_tail, rx_fifo, ore>>
lineVars == <<rpc, len, line, byte, got>>
vars == <<txVars, putVars, rxVars, lineVars>>

(* vk_uart_init, on static buffers that hold one byte, 0, all over. *)
Init ==
  /\ \E b \in TxByte : tx_buf = [slot \in 0 .. TxBuf - 1 |-> b]
  /\ tx_head = 0 /\ tx_tail = 0 /\ tx_busy = 0
  /\ txeie = FALSE
  /\ tx_fifo = <<>>
  /\ tx_line \in TxByte
  /\ pc = [p \in Producer |-> "idle"]
  /\ putting \in [Producer -> [byte : TxByte, next : {0}]]
  /\ \E b \in RxByte : rx_buf = [slot \in 0 .. RxBuf - 1 |-> b]
  /\ rx_head = 0 /\ rx_tail = 0
  /\ rx_fifo = <<>>
  /\ ore = FALSE
  /\ rpc = "idle"
  /\ len = 1
  /\ line = <<>>
  /\ byte \in RxByte
  /\ got = byte

-------------------------------------------------------------------------------
\* vk_uart_putc.

Put(p, b) ==
  /\ pc[p] = "idle"
  /\ pc' = [pc EXCEPT ![p] = "next"]
  /\ putting' = [putting EXCEPT ![p].byte = b]
  /\ UNCHANGED <<txVars, rxVars, lineVars>>

ReadHead(p) ==
  /\ pc[p] = "next"
  /\ putting' = [putting EXCEPT ![p].next = (tx_head + 1) % TxBuf]
  /\ pc' = [pc EXCEPT ![p] = "test"]
  /\ UNCHANGED <<txVars, rxVars, lineVars>>

(* A mutation: no look at the tail. *)
TestFull_never(p) ==
  /\ pc[p] = "test"
  /\ pc' = [pc EXCEPT ![p] = "store"]
  /\ UNCHANGED <<txVars, putting, rxVars, lineVars>>

(* Spin while the ring is full. *)
TestFull(p) ==
  /\ pc[p] = "test"
  /\ pc' = [pc EXCEPT ![p] = IF putting[p].next = tx_tail THEN "next" ELSE "store"]
  /\ UNCHANGED <<txVars, putting, rxVars, lineVars>>

StoreByte(p) ==
  /\ pc[p] = "store"
  /\ tx_buf' = [tx_buf EXCEPT ![tx_head] = putting[p].byte]
  /\ pc' = [pc EXCEPT ![p] = "advance"]
  /\ UNCHANGED <<tx_head, tx_tail, tx_busy, txeie, tx_fifo, tx_line, putting,
                 rxVars, lineVars>>

StoreHead(p) ==
  /\ pc[p] = "advance"
  /\ tx_head' = putting[p].next
  /\ pc' = [pc EXCEPT ![p] = "kick"]
  /\ UNCHANGED <<tx_buf, tx_tail, tx_busy, txeie, tx_fifo, tx_line, putting,
                 rxVars, lineVars>>

(* With interrupts masked. *)
Kick(p) ==
  /\ pc[p] = "kick"
  /\ IF tx_busy = 0
     THEN tx_busy' = 1 /\ txeie' = TRUE
     ELSE UNCHANGED <<tx_busy, txeie>>
  /\ pc' = [pc EXCEPT ![p] = "idle"]
  /\ UNCHANGED <<tx_buf, tx_head, tx_tail, tx_fifo, tx_line, putting, rxVars,
                 lineVars>>

-------------------------------------------------------------------------------
\* vk_uart_readline, with vk_uart_getc.

vk_uart_readline(n) ==
  /\ rpc = "idle"
  /\ len' = n
  /\ line' = <<>>
  /\ rpc' = IF n = 1 THEN "idle" ELSE "get"
  /\ UNCHANGED <<txVars, putVars, rxVars, byte, got>>

(* vk_uart_getc returns -1: the reader yields and tries again. *)
GetNone ==
  /\ rpc = "get"
  /\ rx_head = rx_tail
  /\ UNCHANGED vars

GetByte ==
  /\ rpc = "get"
  /\ rx_head # rx_tail
  /\ byte' = rx_buf[rx_tail]
  /\ rpc' = "advance"
  /\ UNCHANGED <<txVars, putVars, rxVars, len, line, got>>

(* A mutation: vk_uart_readline leaves no room for the '\0'. *)
Advance_long ==
  /\ rpc = "advance"
  /\ rx_tail' = (rx_tail + 1) % RxBuf
  /\ got' = byte
  /\ line' = IF byte \in {NL, CR} THEN line ELSE Append(line, byte)
  /\ rpc' = IF byte \in {NL, CR} \/ Len(line') = len THEN "idle" ELSE "get"
  /\ UNCHANGED <<txVars, putVars, rx_buf, rx_head, rx_fifo, ore, len, byte>>

(* The rest of vk_uart_getc, and the turn of vk_uart_readline's loop. *)
Advance ==
  /\ rpc = "advance"
  /\ rx_tail' = (rx_tail + 1) % RxBuf
  /\ got' = byte
  /\ line' = IF byte \in {NL, CR} THEN line ELSE Append(line, byte)
  /\ rpc' = IF byte \in {NL, CR} \/ Len(line') = len - 1 THEN "idle" ELSE "get"
  /\ UNCHANGED <<txVars, putVars, rx_buf, rx_head, rx_fifo, ore, len, byte>>

-------------------------------------------------------------------------------
\* vk_uart_isr.

(* A mutation: the newest byte overwrites the oldest in a full ring. *)
Receive_overwriting ==
  IF rx_fifo = <<>>
  THEN UNCHANGED <<rx_buf, rx_head, rx_fifo>>
  ELSE /\ rx_fifo' = Tail(rx_fifo)
       /\ rx_buf' = [rx_buf EXCEPT ![rx_head] = Head(rx_fifo)]
       /\ rx_head' = (rx_head + 1) % RxBuf

(* RXNE: one byte, dropped when the ring is full. *)
Receive ==
  IF rx_fifo = <<>>
  THEN UNCHANGED <<rx_buf, rx_head, rx_fifo>>
  ELSE LET next == (rx_head + 1) % RxBuf
       IN  /\ rx_fifo' = Tail(rx_fifo)
           /\ IF next = rx_tail
              THEN UNCHANGED <<rx_buf, rx_head>>
              ELSE /\ rx_buf' = [rx_buf EXCEPT ![rx_head] = Head(rx_fifo)]
                   /\ rx_head' = next

TXE == Len(tx_fifo) < Fifo

(* Two mutations: tx_busy is left set, and the tail is left in place. *)
Transmit_busy ==
  IF TXE /\ tx_tail # tx_head
  THEN /\ tx_fifo' = Append(tx_fifo, tx_buf[tx_tail])
       /\ tx_tail' = (tx_tail + 1) % TxBuf
       /\ UNCHANGED <<txeie, tx_busy>>
  ELSE /\ txeie' = (txeie /\ ~TXE)
       /\ UNCHANGED <<tx_fifo, tx_tail, tx_busy>>

Transmit_repeat ==
  /\ tx_fifo' = IF TXE /\ tx_tail # tx_head
                THEN Append(tx_fifo, tx_buf[tx_tail]) ELSE tx_fifo
  /\ UNCHANGED <<tx_tail, txeie, tx_busy>>

(* TXE: one byte, or no more interrupts until the next kick. *)
Transmit ==
  IF ~TXE
  THEN UNCHANGED <<tx_fifo, tx_tail, txeie, tx_busy>>
  ELSE IF tx_tail # tx_head
       THEN /\ tx_fifo' = Append(tx_fifo, tx_buf[tx_tail])
            /\ tx_tail' = (tx_tail + 1) % TxBuf
            /\ UNCHANGED <<txeie, tx_busy>>
       ELSE /\ txeie' = FALSE
            /\ tx_busy' = 0
            /\ UNCHANGED <<tx_fifo, tx_tail>>

(* Requested by RXNE or ORE, always enabled, or by TXE. *)
Requested == rx_fifo # <<>> \/ ore \/ (txeie /\ TXE)

vk_uart_isr ==
  /\ Requested
  /\ Receive
  /\ Transmit
  /\ ore' = FALSE
  /\ UNCHANGED <<tx_buf, tx_head, tx_line, putVars, rx_tail, lineVars>>

-------------------------------------------------------------------------------
\* The UART itself.

Shift ==
  /\ tx_fifo # <<>>
  /\ tx_line' = Head(tx_fifo)
  /\ tx_fifo' = Tail(tx_fifo)
  /\ UNCHANGED <<tx_buf, tx_head, tx_tail, tx_busy, txeie, putVars, rxVars,
                 lineVars>>

Arrive(b) ==
  /\ IF Len(rx_fifo) < Fifo
     THEN rx_fifo' = Append(rx_fifo, b) /\ UNCHANGED ore
     ELSE ore' = TRUE /\ UNCHANGED rx_fifo
  /\ UNCHANGED <<txVars, putVars, rx_buf, rx_head, rx_tail, lineVars>>

-------------------------------------------------------------------------------
vk_uart_putc(p) ==
  \/ ReadHead(p) \/ TestFull(p) \/ StoreByte(p) \/ StoreHead(p) \/ Kick(p)

vk_uart_getc == GetNone \/ GetByte \/ Advance

Next ==
  \/ \E p \in Producer : vk_uart_putc(p) \/ \E b \in TxByte : Put(p, b)
  \/ \E n \in Lens : vk_uart_readline(n)
  \/ vk_uart_getc
  \/ vk_uart_isr
  \/ Shift
  \/ \E b \in RxByte : Arrive(b)

Spec == Init /\ [][Next]_vars

(* The UART sends what is in its FIFO, the interrupt is taken, and a task   *)
(* that has called the driver gets to execute.                              *)
Fairness ==
  /\ WF_vars(vk_uart_isr)
  /\ WF_vars(Shift)
  /\ \A p \in Producer : WF_vars(vk_uart_putc(p))
  /\ WF_vars(vk_uart_getc)

FairSpec == Spec /\ Fairness

-------------------------------------------------------------------------------
UartTypeOK ==
  /\ tx_buf \in [0 .. TxBuf - 1 -> TxByte]
  /\ tx_head \in 0 .. TxBuf - 1 /\ tx_tail \in 0 .. TxBuf - 1
  /\ tx_busy \in {0, 1}
  /\ txeie \in BOOLEAN
  /\ tx_fifo \in Seq(TxByte) /\ Len(tx_fifo) <= Fifo
  /\ tx_line \in TxByte
  /\ pc \in [Producer -> {"idle", "next", "test", "store", "advance", "kick"}]
  /\ putting \in [Producer -> [byte : TxByte, next : 0 .. TxBuf - 1]]
  /\ rx_buf \in [0 .. RxBuf - 1 -> RxByte]
  /\ rx_head \in 0 .. RxBuf - 1 /\ rx_tail \in 0 .. RxBuf - 1
  /\ rx_fifo \in Seq(RxByte) /\ Len(rx_fifo) <= Fifo
  /\ ore \in BOOLEAN
  /\ rpc \in {"idle", "get", "advance"}
  /\ len \in Lens \cup {1}
  /\ line \in Seq(RxByte) /\ Len(line) < len
  /\ byte \in RxByte /\ got \in RxByte

(* What is in a ring of size slots, from its tail on. *)
Ring(buf, head, tail, size) ==
  [i \in 1 .. (head - tail) % size |-> buf[(tail + i - 1) % size]]

TxRing == Ring(tx_buf, tx_head, tx_tail, TxBuf)
RxRing == Ring(rx_buf, rx_head, rx_tail, RxBuf)

(* Bytes go out on the line as one producer put them: no byte is sent       *)
(* twice, left out, or overtaken, wherever the interrupt gets in.           *)
TxChannel == INSTANCE ByteChannel WITH
  Byte <- TxByte, Reliable <- TxBuf + Fifo,
  queue <- tx_fifo \o TxRing, last <- tx_line

TransmitsInOrder == TxChannel!Spec

(* The reader gets the bytes that arrived, in order: bytes are lost only    *)
(* when the ring is full, and then new ones.                                *)
RxChannel == INSTANCE ByteChannel WITH
  Byte <- RxByte, Reliable <- RxBuf - 1,
  queue <- RxRing \o rx_fifo, last <- got

ReceivesInOrder == RxChannel!Spec

(* The kick is not missed: while bytes wait in the TX ring, the interrupt   *)
(* that takes them is enabled or a producer is about to enable it.  And     *)
(* tx_busy, which the kick looks at, says what UART_CR1 says.               *)
NoMissedKick ==
  /\ tx_busy = 1 <=> txeie
  /\ tx_head # tx_tail => txeie \/ \E p \in Producer : pc[p] = "kick"

(* What one producer does to the ring, two of them do not: a byte that was  *)
(* put in stays there until the interrupt takes it.                         *)
TxRingIsQueue ==
  [][\/ TxRing' = TxRing
     \/ \E b \in TxByte : TxRing' = Append(TxRing, b)
     \/ TxRing # <<>> /\ TxRing' = Tail(TxRing)]_vars

(* A byte put in the ring leaves it, so that vk_uart_putc, which waits while *)
(* the ring is full, gets to its end.                                       *)
RingDrains ==
  \A slot \in 0 .. TxBuf - 1 :
    tx_tail = slot /\ tx_head # slot ~> tx_tail # slot

===============================================================================
