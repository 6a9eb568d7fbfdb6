------------------------------ MODULE VulcanSpi -------------------------------
(***************************************************************************)
(* The SPI driver, hal/vulcan_spi.c, used by one task at a time: its byte  *)
(* and burst transfers that poll the FIFOs, and the transfer over two DMA  *)
(* channels with its wait, which may time out and leave the transfer under *)
(* way.  Frames are counted and have no contents.                          *)
(***************************************************************************)
EXTENDS VulcanDma

CONSTANTS
  rx, tx,     \* dma_rx and dma_tx
  Frames,     \* the lengths given to the transfers
  Depth       \* the depth of the FIFOs, 16

ASSUME SpiAssumption ==
  /\ Channel = {rx, tx} /\ rx # tx
  /\ Frames \subseteq 1 .. CountMod - 1
  /\ Depth \in Nat \ {0}

VARIABLES
  op,         \* the function the task is in
  at,         \* its place in it; "late": vk_spi_wait has returned VK_ERR_TIMEOUT
  todo,       \* the items of its loop that are left
  dma_done,
  dmaen,      \* TXDMAEN and RXDMAEN of CFG1
  tsize,      \* CR2, the number of frames of a transfer; 0: without end
  sent,       \* how many went over since CSTART, 16 bits
  cstart,     \* CSTART of CR1, which falls at the end of the transfer
  eot,        \* EOT of SR
  txf, rxf,   \* the frames in the FIFOs
  found       \* history: what vk_spi_xfer_dma found at its call, see Left

taskVars == <<op, at, todo, dma_done, found>>
spiVars == <<dmaen, tsize, sent, cstart, eot, txf, rxf>>
vars == <<dmaVars, taskVars, spiVars>>

SpiReset ==
  /\ op = "none" /\ at = "none" /\ todo = 0
  /\ dma_done = 0
  /\ dmaen = FALSE
  /\ tsize = 0 /\ sent = 0
  /\ cstart = FALSE /\ eot = FALSE
  /\ txf = 0 /\ rxf = 0
  /\ found = "nothing"

(* After vk_spi_init.  The two channels are one-shot, without half callback, *)
(* and dma_tx is without callbacks: vk_spi_xfer_dma gives dma_rx its own.    *)
SpiInit ==
  /\ Init
  /\ \A c \in Channel : "circular" \notin cfg[c] /\ "half" \notin cfg[c]
  /\ "complete" \in cfg[rx]
  /\ SpiReset

(* The task may call any function, after a timeout too. *)
Idle == handler = NULL /\ (op = "none" \/ at = "late")
At(place) == handler = NULL /\ at = place

-------------------------------------------------------------------------------
\* The transfers that poll.

(* CR2, where the function sets it, and CSTART. *)
Begin(function, n) ==
  /\ Idle
  /\ op' = function
  /\ at' = "push"
  /\ todo' = n
  /\ cstart' = TRUE
  /\ sent' = IF cstart THEN sent ELSE 0
  /\ found' = "nothing"
  /\ UNCHANGED <<dmaVars, dma_done, dmaen, eot, txf, rxf>>

vk_spi_xfer == Begin("xfer", 1) /\ UNCHANGED tsize
vk_spi_write(n) == Begin("write", n) /\ tsize' = n
vk_spi_read(n) == Begin("read", n) /\ tsize' = n

(* TXP, and a frame into TXDR. *)
Push ==
  /\ At("push") /\ txf < Depth
  /\ txf' = txf + 1
  /\ todo' = todo - 1
  /\ at' = IF op = "write" THEN "drain" ELSE "pop"
  /\ UNCHANGED <<dmaVars, op, dma_done, found, dmaen, tsize, sent, cstart, eot, rxf>>

(* The rest of a turn of the loop. *)
Again == at' = IF todo = 0 THEN "eot" ELSE "push"

(* vk_spi_write throws away one received frame, if there is one. *)
Drain ==
  /\ At("drain")
  /\ rxf' = IF rxf > 0 THEN rxf - 1 ELSE 0
  /\ Again
  /\ UNCHANGED <<dmaVars, op, todo, dma_done, found, dmaen, tsize, sent, cstart, eot, txf>>

(* RXP, and a frame out of RXDR. *)
Pop ==
  /\ At("pop") /\ rxf > 0
  /\ rxf' = rxf - 1
  /\ Again
  /\ UNCHANGED <<dmaVars, op, todo, dma_done, found, dmaen, tsize, sent, cstart, eot, txf>>

(* EOT is waited for and cleared. *)
Finish ==
  /\ At("eot") /\ eot
  /\ eot' = FALSE
  /\ dmaen' = (dmaen /\ op # "dma")
  /\ op' = "none" /\ at' = "none"
  /\ found' = "nothing"
  /\ UNCHANGED <<dmaVars, todo, dma_done, tsize, sent, cstart, txf, rxf>>

-------------------------------------------------------------------------------
\* vk_spi_xfer_dma, without a callback of the client's, and vk_spi_wait.

(* What is there of earlier calls: a transfer that is still under way or     *)
(* whose end is yet to be seen, or only frames that nobody has read.         *)
Left ==
  IF \/ cstart \/ eot \/ txf > 0
     \/ \E c \in Channel : en[c]
     \/ TCIF \in flags[rx]
  THEN "transfer"
  ELSE IF rxf > 0 THEN "frames" ELSE "nothing"

(* A mutation: dma_done is not reset. *)
vk_spi_xfer_dma_done(n) ==
  /\ Idle
  /\ op' = "dma" /\ at' = "rx" /\ todo' = n
  /\ dmaen' = TRUE
  /\ found' = Left
  /\ UNCHANGED <<dmaVars, dma_done, tsize, sent, cstart, eot, txf, rxf>>

vk_spi_xfer_dma(n) ==
  /\ Idle
  /\ op' = "dma" /\ at' = "rx" /\ todo' = n
  /\ dma_done' = 0
  /\ dmaen' = TRUE
  /\ found' = Left
  /\ UNCHANGED <<dmaVars, tsize, sent, cstart, eot, txf, rxf>>

(* vk_dma_start of the one channel, then of the other. *)
StartChannel(c, place, enable) ==
  /\ At(place)
  /\ vk_dma_start(c, todo)
  /\ at' = enable
  /\ UNCHANGED <<op, todo, dma_done, found, spiVars>>

EnableChannel(c, place, next) ==
  /\ At(place)
  /\ StartEnable(c)
  /\ at' = next
  /\ UNCHANGED <<op, todo, dma_done, found, spiVars>>

Transfer ==
  \/ StartChannel(rx, "rx", "rx_enable")
  \/ EnableChannel(rx, "rx_enable", "tx")
  \/ StartChannel(tx, "tx", "tx_enable")
  \/ EnableChannel(tx, "tx_enable", "cstart")

(* A mutation: dma_done is reset last. *)
Launch_reset ==
  /\ At("cstart")
  /\ tsize' = todo
  /\ cstart' = TRUE
  /\ sent' = IF cstart THEN sent ELSE 0
  /\ dma_done' = 0
  /\ at' = "wait"
  /\ UNCHANGED <<dmaVars, op, todo, found, dmaen, eot, txf, rxf>>

(* CR2 and CSTART. *)
Launch ==
  /\ At("cstart")
  /\ tsize' = todo
  /\ cstart' = TRUE
  /\ sent' = IF cstart THEN sent ELSE 0
  /\ at' = "wait"
  /\ UNCHANGED <<dmaVars, op, todo, dma_done, found, dmaen, eot, txf, rxf>>

(* vk_spi_wait: dma_done is up; Finish does the rest. *)
Done ==
  /\ At("wait") /\ dma_done = 1
  /\ at' = "eot"
  /\ UNCHANGED <<dmaVars, op, todo, dma_done, found, spiVars>>

(* Its deadline is past first.  The transfer goes on, with its DMA requests. *)
GiveUp ==
  /\ At("wait") /\ dma_done = 0
  /\ at' = "late"
  /\ UNCHANGED <<dmaVars, op, todo, dma_done, found, spiVars>>

(* The client waits for the same transfer again. *)
vk_spi_wait ==
  /\ At("late")
  /\ at' = "wait"
  /\ UNCHANGED <<dmaVars, op, todo, dma_done, found, spiVars>>

-------------------------------------------------------------------------------
\* The SPI, the streams at its FIFOs, and the handlers.

(* A frame goes out and another comes in, which is lost if the receive FIFO *)
(* is full.  A stream that is at work keeps up with the line.               *)
Exchange ==
  /\ cstart /\ txf > 0
  /\ ~(rxf = Depth /\ en[rx] /\ left[rx] > 0)
  /\ txf' = txf - 1
  /\ rxf' = IF rxf < Depth THEN rxf + 1 ELSE rxf
  /\ sent' = IF tsize = 0 THEN 0 ELSE (sent + 1) % CountMod
  /\ LET over == tsize > 0 /\ sent' = tsize
     IN  eot' = (eot \/ over) /\ cstart' = ~over
  /\ UNCHANGED <<dmaVars, taskVars, dmaen, tsize>>

MoveTx ==
  /\ dmaen /\ txf < Depth
  /\ Move(tx)
  /\ txf' = txf + 1
  /\ UNCHANGED <<taskVars, dmaen, tsize, sent, cstart, eot, rxf>>

MoveRx ==
  /\ dmaen /\ rxf > 0
  /\ Move(rx)
  /\ rxf' = rxf - 1
  /\ UNCHANGED <<taskVars, dmaen, tsize, sent, cstart, eot, txf>>

(* _spi_dma_done is the completion callback of dma_rx. *)
_spi_dma_done == dma_done' = IF handler = rx /\ CallsComplete(rx) THEN 1 ELSE dma_done

Handle(c) ==
  /\ \/ ReadFlags(c) /\ UNCHANGED dma_done
     \/ ClearFlags(c) /\ _spi_dma_done
  /\ UNCHANGED <<op, at, todo, found, spiVars>>

StreamFails ==
  /\ \E c \in Channel : Fail(c)
  /\ UNCHANGED <<taskVars, spiVars>>

(* The rest of a call. *)
SpiProceed == Push \/ Drain \/ Pop \/ Finish \/ Transfer \/ Launch \/ Done

Task ==
  \/ vk_spi_xfer
  \/ \E n \in Frames : vk_spi_write(n) \/ vk_spi_read(n) \/ vk_spi_xfer_dma(n)
  \/ SpiProceed
  \/ GiveUp \/ vk_spi_wait

SpiNext ==
  \/ Task
  \/ Exchange \/ MoveTx \/ MoveRx
  \/ \E c \in Channel : Handle(c)
  \/ StreamFails

SpiSpec == SpiInit /\ [][SpiNext]_vars

-------------------------------------------------------------------------------

(* vk_spi_wait returns VK_OK only when the transfer is over (vulcan_spi.h:  *)
(* "Blocking wait for DMA transfer to finish"): every frame went over the   *)
(* line and every item is in the receive buffer, which the stream no longer *)
(* writes.  So it is of a transfer that found no other one under way,       *)
(* whatever timeouts, failures and handlers there were before and           *)
(* meanwhile.  If it found no unread frames either, those in the buffer are *)
(* its own: no frame is left over.                                          *)
WaitMeansDone ==
  [][op = "dma" /\ Finish /\ found # "transfer" =>
       /\ sent = todo /\ left[rx] = 0 /\ ~en[rx]
       /\ found = "nothing" => rxf = 0]_vars

(* The wait for such a transfer -- for dma_done, and then for EOT -- ends,  *)
(* if no stream fails.                                                      *)
WaitReturns ==
  op = "dma" /\ at \in {"wait", "eot"} /\ found # "transfer"
    ~> at \in {"none", "late"} \/ \E c \in Channel : ~en[c] /\ left[c] > 0

(* What vk_spi_xfer and vk_spi_read read is the frame that came in for the  *)
(* one they have just sent ("Blocking full-duplex byte transfer", "Blocking *)
(* read burst" in vulcan_spi.h).                                            *)
AnswersInStep == [][Pop => rxf = 1 /\ txf = 0]_vars

===============================================================================
