-------------------------- MODULE VulcanDriverProofs ---------------------------
(***************************************************************************)
(* Proofs about the DMA driver, the drivers over it and what uses them --  *)
(* the SPI transfer and its wait, the batches of the ADC in the demo, and  *)
(* the timed waits -- and about a GPIO port, for any number of channels    *)
(* and pins, and any sizes, lengths and clock ranges.                      *)
(***************************************************************************)
EXTENDS VulcanSpi, VulcanDemo, VulcanWait, VulcanGpio, VulcanLemmas

-------------------------------------------------------------------------------
\* vk_dma_start, vk_dma_stop and the handler.

(* What ends a transfer for the handler -- a flag that is up or that it has *)
(* read -- is there only while the stream stands still: vk_dma_start clears *)
(* the old flags before it enables the stream, and no task runs between the *)
(* handler's two steps.                                                     *)
EndedStands ==
  \A c \in Channel : en[c] =>
    /\ TEIF \notin flags[c]
    /\ TCIF \in flags[c] => "circular" \in cfg[c]
    /\ handler = c => TEIF \notin seen /\ (TCIF \in seen => "circular" \in cfg[c])

(* The stream is off from the moment a call clears EN until it returns. *)
CallDisables == \A c \in Channel : call[c] # "none" => ~en[c]

DmaInv == DmaTypeOK /\ EnabledIsBusy /\ EndedStands /\ CallDisables

(* A step of the driver or of a stream, whoever takes it and with whatever  *)
(* count: what the drivers over DMA do to dmaVars, too.                     *)
DriverStep ==
  \E c \in Channel :
    \/ \E items \in 0 .. CountMod - 1 : vk_dma_start(c, items)
    \/ vk_dma_stop(c) \/ StartEnable(c) \/ StopClear(c)
    \/ Move(c) \/ Fail(c) \/ ReadFlags(c) \/ ClearFlags(c)

(* The calculation of vk_dma_memcpy gives a count of 16 bits for every      *)
(* length.                                                                  *)
LEMMA WordCountType ==
  ASSUME NEW b \in Nat
  PROVE  WordCount(b) \in 0 .. CountMod - 1
  BY DmaAssumption, Z3 DEF WordCount

LEMMA NextIsDriverStep == Next => DriverStep
  BY DmaAssumption, WordCountType DEF Next, Client, Handler, vk_dma_memcpy, DriverStep

(* The driver's variables keep their types from one step to the next.       *)
LEMMA TypeStep == DmaTypeOK /\ [DriverStep]_dmaVars => DmaTypeOK'
<1> SUFFICES ASSUME DmaTypeOK, [DriverStep]_dmaVars PROVE DmaTypeOK'
  OBVIOUS
<1> USE DmaAssumption DEF DmaTypeOK, TEIF, HTIF, TCIF
<1>1. ASSUME NEW c \in Channel, NEW items \in 0 .. CountMod - 1, vk_dma_start(c, items)
      PROVE  DmaTypeOK'
  BY <1>1 DEF vk_dma_start, Disable
<1>2. ASSUME NEW c \in Channel, vk_dma_stop(c) PROVE DmaTypeOK'
  BY <1>2 DEF vk_dma_stop, Disable
<1>3. ASSUME NEW c \in Channel, StartEnable(c) PROVE DmaTypeOK'
  BY <1>3 DEF StartEnable
<1>4. ASSUME NEW c \in Channel, StopClear(c) PROVE DmaTypeOK'
  BY <1>4 DEF StopClear
<1>5. ASSUME NEW c \in Channel, Move(c) PROVE DmaTypeOK'
  <2> DEFINE rest == left[c] - 1
  <2>1. rest \in 0 .. CountMod - 1
    BY <1>5 DEF Move
  <2>2. left' \in [Channel -> 0 .. CountMod - 1]
    BY <1>5, <2>1 DEF Move
  <2>3. en' \in [Channel -> BOOLEAN]
    BY <1>5, <2>1 DEF Move
  <2>4. flags' \in [Channel -> SUBSET {TEIF, HTIF, TCIF}]
    BY <1>5 DEF Move
  <2> QED
    BY <1>5, <2>2, <2>3, <2>4 DEF Move
<1>6. ASSUME NEW c \in Channel, Fail(c) PROVE DmaTypeOK'
  BY <1>6 DEF Fail
<1>7. ASSUME NEW c \in Channel, ReadFlags(c) PROVE DmaTypeOK'
  BY <1>7 DEF ReadFlags, streamVars
<1>8. ASSUME NEW c \in Channel, ClearFlags(c) PROVE DmaTypeOK'
  BY <1>8 DEF ClearFlags
<1>9. CASE UNCHANGED dmaVars
  BY <1>9 DEF dmaVars, streamVars
<1> QED
  BY <1>1, <1>2, <1>3, <1>4, <1>5, <1>6, <1>7, <1>8, <1>9
     DEF DriverStep

(* A stream at work stays busy, and what ends a transfer stays with streams *)
(* that stand still, one action at a time.                                  *)
LEMMA BusyStep ==
  DmaInv /\ [DriverStep]_dmaVars => EnabledIsBusy' /\ EndedStands' /\ CallDisables'
<1> SUFFICES ASSUME DmaInv, [DriverStep]_dmaVars
             PROVE  EnabledIsBusy' /\ EndedStands' /\ CallDisables'
  OBVIOUS
<1> USE DmaAssumption DEF DmaInv, DmaTypeOK, EnabledIsBusy, EndedStands, CallDisables
<1>1. ASSUME NEW c \in Channel, NEW items, vk_dma_start(c, items)
      PROVE  EnabledIsBusy' /\ EndedStands' /\ CallDisables'
  BY <1>1 DEF vk_dma_start, Ready, Disable
<1>2. ASSUME NEW c \in Channel, vk_dma_stop(c)
      PROVE  EnabledIsBusy' /\ EndedStands' /\ CallDisables'
  BY <1>2 DEF vk_dma_stop, Ready, Disable
<1>3. ASSUME NEW c \in Channel, StartEnable(c)
      PROVE  EnabledIsBusy' /\ EndedStands' /\ CallDisables'
  BY <1>3 DEF StartEnable
<1>4. ASSUME NEW c \in Channel, StopClear(c)
      PROVE  EnabledIsBusy' /\ EndedStands' /\ CallDisables'
  BY <1>4 DEF StopClear
<1>5. ASSUME NEW c \in Channel, Move(c)
      PROVE  EnabledIsBusy' /\ EndedStands' /\ CallDisables'
  <2>1. /\ \A d \in Channel \ {c} : en'[d] = en[d] /\ flags'[d] = flags[d]
        /\ UNCHANGED <<cfg, busy, call, handler, seen>>
        /\ en[c]
    BY <1>5 DEF Move
  <2>2. TEIF \notin flags'[c]
    BY <1>5 DEF Move, TEIF, HTIF, TCIF
  <2>3. en'[c] /\ "circular" \notin cfg[c] => TCIF \notin flags'[c]
    <3>1. en'[c] /\ "circular" \notin cfg[c] => left[c] - 1 > 0
      BY <1>5, ZenonT(30) DEF Move
    <3>2. left[c] - 1 # 0 /\ TCIF \notin flags[c] => TCIF \notin flags'[c]
      BY <1>5 DEF Move, HTIF, TCIF
    <3>3. left[c] - 1 > 0 => left[c] - 1 # 0
      OBVIOUS
    <3>4. "circular" \notin cfg[c] => TCIF \notin flags[c]
      BY <2>1
    <3> QED
      BY <3>1, <3>2, <3>3, <3>4
  <2> QED
    BY <2>1, <2>2, <2>3
<1>6. ASSUME NEW c \in Channel, Fail(c)
      PROVE  EnabledIsBusy' /\ EndedStands' /\ CallDisables'
  BY <1>6 DEF Fail
<1>7. ASSUME NEW c \in Channel, ReadFlags(c)
      PROVE  EnabledIsBusy' /\ EndedStands' /\ CallDisables'
  BY <1>7 DEF ReadFlags, streamVars
<1>8. ASSUME NEW c \in Channel, ClearFlags(c)
      PROVE  EnabledIsBusy' /\ EndedStands' /\ CallDisables'
  BY <1>8 DEF ClearFlags, ClearsBusy
<1>9. CASE UNCHANGED dmaVars
  BY <1>9 DEF dmaVars, streamVars
<1> QED
  BY <1>1, <1>2, <1>3, <1>4, <1>5, <1>6, <1>7, <1>8, <1>9
     DEF DriverStep

(* DmaInv is inductive over the driver's steps.                             *)
LEMMA DriverStepInv == DmaInv /\ [DriverStep]_dmaVars => DmaInv'
  BY TypeStep, BusyStep DEF DmaInv

LEMMA DmaStep == DmaInv /\ [Next]_dmaVars => DmaInv'
  BY NextIsDriverStep, DriverStepInv

LEMMA DmaInitial == Init => DmaInv
  BY DmaAssumption
     DEF Init, DmaInv, DmaTypeOK, EnabledIsBusy, EndedStands, CallDisables

(* The types of the driver's variables, NDTR's 16 bits among them.          *)
THEOREM DmaTypeCorrect == Spec => []DmaTypeOK
<1>1. DmaInv => DmaTypeOK
  BY DEF DmaInv
<1> QED
  BY DmaInitial, DmaStep, <1>1, PTL DEF Spec

(* A stream at work is busy, whatever calls, completions, errors and        *)
(* handlers came before.                                                    *)
THEOREM StreamAtWorkIsBusy == Spec => []EnabledIsBusy
<1>1. DmaInv => EnabledIsBusy
  BY DEF DmaInv
<1> QED
  BY DmaInitial, DmaStep, <1>1, PTL DEF Spec

-------------------------------------------------------------------------------
\* vk_spi_xfer_dma and vk_spi_wait.

(* vk_spi_xfer_dma, up to its store of CSTART, and what comes after. *)
SettingUp == {"rx", "rx_enable", "tx", "tx_enable", "cstart"}
Waiting == {"wait", "late", "eot"}

(* The task's place, and its count. *)
PlaceInv ==
  /\ op = "none" <=> at = "none"
  /\ at \in SettingUp \cup {"wait", "late"} => op = "dma"
  /\ op = "dma" => at \in SettingUp \cup Waiting /\ todo \in 1 .. CountMod - 1
  /\ sent \in 0 .. CountMod - 1
  /\ txf \in Nat /\ rxf \in Nat
  /\ "circular" \notin cfg[rx]

BitInv == cstart \in BOOLEAN /\ eot \in BOOLEAN

(* The end of dma_rx is known to its flags or to the handler.                *)
Ended == TCIF \in flags[rx] \/ (handler = rx /\ TCIF \in seen)

(* A transfer that found no other one under way. *)
Alone == op = "dma" /\ found # "transfer"

(* The line is at rest until its CSTART, and EOT is up only when its frames  *)
(* went over.                                                                *)
LineInv ==
  Alone =>
    /\ at \in SettingUp => ~cstart /\ ~eot
    /\ at \in Waiting => tsize = todo
    /\ cstart => sent < tsize
    /\ eot => ~cstart /\ sent = tsize

(* An end that is known, or that dma_done tells, is that of this transfer:   *)
(* before it the stream is off and no end is waiting to be handled, so that  *)
(* dma_done can only rise once this transfer's items are all there.          *)
StreamInv ==
  Alone =>
    /\ Ended => left[rx] = 0 /\ ~en[rx]
    /\ at \in {"rx", "rx_enable"} => ~en[rx] /\ ~Ended /\ dma_done = 0
    /\ dma_done = 1 => ~Ended /\ ~en[rx] /\ left[rx] = 0
    /\ at = "eot" => dma_done = 1

(* The receive FIFO holds frames of this transfer only, if it was empty: no  *)
(* more are there or moved than went over.                                   *)
FramesInv ==
  Alone /\ found = "nothing" =>
    /\ at \in SettingUp => rxf = 0
    /\ at = "rx_enable" => count[rx] = todo
    /\ at \in SettingUp \ {"rx", "rx_enable"} => left[rx] = todo
    /\ at \in Waiting => rxf + todo - left[rx] <= sent

SpiInv == DmaInv /\ PlaceInv /\ BitInv /\ LineInv /\ StreamInv /\ FramesInv

LEMMA SpiInitial == SpiInit => SpiInv
<1> SUFFICES ASSUME SpiInit PROVE SpiInv
  OBVIOUS
<1>1. DmaInv
  BY DmaInitial DEF SpiInit
<1>2. PlaceInv
  BY SpiAssumption, DmaAssumption DEF SpiInit, SpiReset, PlaceInv, SettingUp, Waiting
<1>3. ~Alone
  BY DEF SpiInit, SpiReset, Alone
<1>4. BitInv
  BY Zenon DEF SpiInit, SpiReset, BitInv
<1> QED
  BY <1>1, <1>2, <1>3, <1>4 DEF SpiInv, LineInv, StreamInv, FramesInv

(* The SPI driver uses the DMA driver as its interface allows.               *)
LEMMA SpiUsesDma == SpiInv /\ [SpiNext]_vars => [DriverStep]_dmaVars
<1> SUFFICES ASSUME SpiInv, [SpiNext]_vars PROVE [DriverStep]_dmaVars
  OBVIOUS
<1>1. rx \in Channel /\ tx \in Channel
  BY SpiAssumption
<1>2. CASE Transfer
  <2>1. op = "dma" => todo \in 0 .. CountMod - 1
    BY DEF SpiInv, PlaceInv
  <2>2. op = "dma"
    BY <1>2 DEF SpiInv, PlaceInv, SettingUp, Transfer, StartChannel, EnableChannel, At
  <2> QED
    BY <1>1, <1>2, <2>1, <2>2
       DEF Transfer, StartChannel, EnableChannel, DriverStep
<1>3. CASE MoveTx \/ MoveRx
  BY <1>1, <1>3 DEF MoveTx, MoveRx, DriverStep
<1>4. CASE \E c \in Channel : Handle(c)
  BY <1>4 DEF Handle, DriverStep
<1>5. CASE StreamFails
  BY <1>5 DEF StreamFails, DriverStep
<1>6. CASE Exchange
  BY <1>6 DEF Exchange
<1>7. CASE \/ vk_spi_xfer
           \/ \E k \in Frames : vk_spi_write(k) \/ vk_spi_read(k) \/ vk_spi_xfer_dma(k)
  BY <1>7 DEF vk_spi_xfer, vk_spi_write, vk_spi_read, Begin, vk_spi_xfer_dma
<1>8. CASE Push \/ Drain \/ Pop \/ Finish \/ Launch \/ Done \/ GiveUp \/ vk_spi_wait
  BY <1>8 DEF Push, Drain, Pop, Finish, Launch, Done, GiveUp, vk_spi_wait
<1>9. CASE UNCHANGED vars
  BY <1>9 DEF vars
<1> QED
  BY <1>2, <1>3, <1>4, <1>5, <1>6, <1>7, <1>8, <1>9 DEF SpiNext, Task, SpiProceed

(* The task's place and its count, and the types of the SPI's registers.     *)
LEMMA SpiPlaceStep == SpiInv /\ [SpiNext]_vars => PlaceInv'
<1> SUFFICES ASSUME SpiInv, [SpiNext]_vars PROVE PlaceInv'
  OBVIOUS
<1> USE SpiAssumption, DmaAssumption DEF SpiInv, PlaceInv, SettingUp, Waiting, At
<1>1. CASE Exchange
  <2>1. UNCHANGED <<op, at, todo, cfg>>
    BY <1>1 DEF Exchange, taskVars, dmaVars
  <2>2. sent' \in 0 .. CountMod - 1 /\ txf' \in Nat /\ rxf' \in Nat
    BY <1>1 DEF Exchange
  <2> QED
    BY <2>1, <2>2
<1>2. CASE MoveTx \/ MoveRx
  BY <1>2 DEF MoveTx, MoveRx, Move, taskVars
<1>3. CASE StreamFails \/ (\E c \in Channel : Handle(c)) \/ UNCHANGED vars
  BY <1>3
     DEF StreamFails, Fail, Handle, ReadFlags, ClearFlags, taskVars, spiVars, vars, dmaVars
<1>4. CASE vk_spi_xfer \/ \E k \in Frames : vk_spi_write(k) \/ vk_spi_read(k)
  BY <1>4 DEF vk_spi_xfer, vk_spi_write, vk_spi_read, Begin, Idle, dmaVars
<1>5. CASE \E k \in Frames : vk_spi_xfer_dma(k)
  BY <1>5 DEF vk_spi_xfer_dma, Idle, dmaVars
<1>6. CASE Push \/ Drain \/ Pop \/ Finish
  BY <1>6 DEF Push, Drain, Pop, Again, Finish, dmaVars
<1>7. CASE Transfer
  BY <1>7
     DEF Transfer, StartChannel, EnableChannel, vk_dma_start, StartEnable, spiVars
<1>8. CASE Launch \/ Done \/ GiveUp \/ vk_spi_wait
  BY <1>8 DEF Launch, Done, GiveUp, vk_spi_wait, spiVars, dmaVars
<1> QED
  BY <1>1, <1>2, <1>3, <1>4, <1>5, <1>6, <1>7, <1>8 DEF SpiNext, Task, SpiProceed

LEMMA SpiBitStep == BitInv /\ [SpiNext]_vars => BitInv'
<1> SUFFICES ASSUME BitInv, [SpiNext]_vars PROVE BitInv'
  OBVIOUS
<1> USE DEF BitInv
<1>1. CASE Exchange
  BY <1>1, Zenon DEF Exchange
<1>2. CASE MoveTx \/ MoveRx \/ StreamFails \/ (\E c \in Channel : Handle(c)) \/ UNCHANGED vars
  BY <1>2, Zenon DEF MoveTx, MoveRx, StreamFails, Handle, spiVars, vars
<1>3. CASE vk_spi_xfer \/ \E k \in Frames : vk_spi_write(k) \/ vk_spi_read(k)
  BY <1>3, Zenon DEF vk_spi_xfer, vk_spi_write, vk_spi_read, Begin
<1>4. CASE \E k \in Frames : vk_spi_xfer_dma(k)
  BY <1>4, Zenon DEF vk_spi_xfer_dma
<1>5. CASE Push \/ Drain \/ Pop \/ Finish
  BY <1>5, Zenon DEF Push, Drain, Pop, Finish
<1>6. CASE Transfer
  BY <1>6, Zenon DEF Transfer, StartChannel, EnableChannel, spiVars
<1>7. CASE Launch \/ Done \/ GiveUp \/ vk_spi_wait
  BY <1>7, Zenon DEF Launch, Done, GiveUp, vk_spi_wait, spiVars
<1> QED
  BY <1>1, <1>2, <1>3, <1>4, <1>5, <1>6, <1>7 DEF SpiNext, Task, SpiProceed

(* The registers of the SPI and the place of the task keep in step.          *)
LEMMA SpiLineStep == SpiInv /\ [SpiNext]_vars => LineInv'
<1> SUFFICES ASSUME SpiInv, [SpiNext]_vars, Alone' PROVE LineInv'
  BY DEF LineInv
<1> USE DmaAssumption DEF SpiInv, PlaceInv, BitInv, LineInv, Alone, SettingUp, Waiting, At
<1>1. CASE Exchange
  <2>1. Alone /\ UNCHANGED <<at, op, todo, found, tsize>>
    BY <1>1 DEF Exchange, taskVars
  <2>2. /\ at \in Waiting /\ tsize = todo /\ sent < tsize
        /\ tsize \in 1 .. CountMod - 1 /\ sent \in 0 .. CountMod - 1
        /\ eot = FALSE
    BY <1>1, <2>1 DEF Exchange
  <2>3. sent' = sent + 1
    BY <1>1, <2>2 DEF Exchange
  <2>4. /\ sent + 1 = tsize => cstart' = FALSE
        /\ eot' = (sent + 1 = tsize)
    BY <1>1, <2>2, <2>3 DEF Exchange
  <2> QED
    BY <2>1, <2>2, <2>3, <2>4
<1>2. CASE MoveTx \/ MoveRx \/ StreamFails \/ (\E c \in Channel : Handle(c)) \/ UNCHANGED vars
  BY <1>2 DEF MoveTx, MoveRx, StreamFails, Handle, taskVars, spiVars, vars
<1>3. CASE vk_spi_xfer \/ \E k \in Frames : vk_spi_write(k) \/ vk_spi_read(k)
  BY <1>3 DEF vk_spi_xfer, vk_spi_write, vk_spi_read, Begin
<1>4. CASE \E k \in Frames : vk_spi_xfer_dma(k)
  BY <1>4 DEF vk_spi_xfer_dma, Left
<1>5. CASE Push \/ Drain \/ Pop \/ Finish
  BY <1>5 DEF Push, Drain, Pop, Again, Finish
<1>6. CASE Transfer
  BY <1>6 DEF Transfer, StartChannel, EnableChannel, spiVars
<1>7. CASE Launch
  BY <1>7 DEF Launch
<1>8. CASE Done \/ GiveUp \/ vk_spi_wait
  BY <1>8 DEF Done, GiveUp, vk_spi_wait, spiVars
<1> QED
  BY <1>1, <1>2, <1>3, <1>4, <1>5, <1>6, <1>7, <1>8 DEF SpiNext, Task, SpiProceed

(* What the streams and the handler do to dma_rx.                            *)
LEMMA MoveRxEnds ==
  ASSUME SpiInv, Alone, MoveRx
  PROVE  /\ Ended' => left'[rx] = 0 /\ ~en'[rx]
         /\ UNCHANGED <<cfg, handler, seen, taskVars>> /\ en[rx]
         /\ left'[rx] = left[rx] - 1
<1>1. rx \in Channel
  BY SpiAssumption
<1>2. /\ UNCHANGED <<cfg, handler, seen, taskVars>>
      /\ en[rx] /\ ~Ended /\ "circular" \notin cfg[rx]
  BY DEF MoveRx, Move, SpiInv, StreamInv, PlaceInv
<1>3. left'[rx] = left[rx] - 1
  BY <1>1, <1>2 DEF MoveRx, Move, SpiInv, DmaInv, DmaTypeOK
<1>4. CASE left[rx] - 1 = 0
  <2>1. en'[rx] = (left[rx] - 1 > 0)
    BY <1>1, <1>2 DEF MoveRx, Move, SpiInv, DmaInv, DmaTypeOK
  <2>2. ~(left[rx] - 1 > 0)
    BY <1>4
  <2>3. ~en'[rx]
    BY <2>1, <2>2, Zenon
  <2> QED
    BY <1>2, <1>3, <1>4, <2>3, Zenon
<1>5. CASE left[rx] - 1 # 0
  <2>1. TCIF \notin flags'[rx]
    BY <1>1, <1>2, <1>5 DEF MoveRx, Move, SpiInv, DmaInv, DmaTypeOK, Ended, HTIF, TCIF
  <2> QED
    BY <1>2, <1>3, <2>1 DEF Ended
<1> QED
  BY <1>2, <1>4, <1>5

LEMMA SpiStreamStep == SpiInv /\ [SpiNext]_vars => StreamInv'
<1> SUFFICES ASSUME SpiInv, [SpiNext]_vars, Alone' PROVE StreamInv'
  BY DEF StreamInv
<1> USE SpiAssumption DEF SpiInv, PlaceInv, SettingUp, Waiting, StreamInv, Alone, Ended, At
<1>1. CASE Exchange
  BY <1>1 DEF Exchange, taskVars, dmaVars, streamVars
<1>2. CASE MoveRx
  <2>1. Alone
    BY <1>2 DEF MoveRx, taskVars
  <2>2. /\ Ended' => left'[rx] = 0 /\ ~en'[rx]
        /\ UNCHANGED <<cfg, handler, seen, taskVars>> /\ en[rx]
    BY <1>2, <2>1, MoveRxEnds
  <2> QED
    BY <2>1, <2>2 DEF taskVars
<1>3. CASE MoveTx
  BY <1>3 DEF MoveTx, Move, taskVars, DmaInv, DmaTypeOK
<1>4. CASE StreamFails
  <2>1. PICK c \in Channel : Fail(c)
    BY <1>4 DEF StreamFails
  <2>2. UNCHANGED <<cfg, left, handler, seen, op, at, dma_done, found>>
    BY <1>4, <2>1 DEF StreamFails, Fail, taskVars
  <2>3. /\ en'[rx] => en[rx]
        /\ TCIF \in flags'[rx] => TCIF \in flags[rx]
    BY <2>1 DEF Fail, DmaInv, DmaTypeOK, TEIF, TCIF
  <2> QED
    BY <2>2, <2>3
<1>5. CASE \E c \in Channel : Handle(c)
  <2>1. PICK c \in Channel : Handle(c)
    BY <1>5
  <2>2. UNCHANGED <<cfg, en, left, op, at, found>>
    BY <2>1 DEF Handle, ReadFlags, ClearFlags, streamVars
  <2>3. CASE ReadFlags(c) /\ UNCHANGED dma_done
    BY <2>2, <2>3 DEF ReadFlags, streamVars
  <2>4. CASE ClearFlags(c) /\ _spi_dma_done
    <3>1. CASE c = rx
      <4>1. ~Ended'
        BY <2>4, <3>1, DmaAssumption DEF ClearFlags, DmaInv, DmaTypeOK
      <4>2. Ended \/ dma_done' = dma_done
        BY <2>4 DEF _spi_dma_done, CallsComplete
      <4> QED
        BY <2>2, <4>1, <4>2
    <3>2. CASE c = tx
      <4>1. Ended' => Ended
        BY <2>4, <3>2, DmaAssumption DEF ClearFlags, DmaInv, DmaTypeOK
      <4>2. dma_done' = dma_done
        BY <2>4, <3>2 DEF _spi_dma_done, ClearFlags
      <4> QED
        BY <2>2, <4>1, <4>2
    <3> QED
      BY <2>1, <3>1, <3>2
  <2> QED
    BY <2>1, <2>3, <2>4 DEF Handle
<1>6. CASE Transfer
  <2>1. CASE StartChannel(rx, "rx", "rx_enable")
    BY <2>1 DEF StartChannel, vk_dma_start, Disable, DmaInv, DmaTypeOK
  <2>2. CASE EnableChannel(rx, "rx_enable", "tx")
    BY <2>2, DmaAssumption DEF EnableChannel, StartEnable, DmaInv, DmaTypeOK
  <2>3. CASE StartChannel(tx, "tx", "tx_enable")
    BY <2>3 DEF StartChannel, vk_dma_start, Disable, DmaInv, DmaTypeOK
  <2>4. CASE EnableChannel(tx, "tx_enable", "cstart")
    BY <2>4 DEF EnableChannel, StartEnable, DmaInv, DmaTypeOK
  <2> QED
    BY <1>6, <2>1, <2>2, <2>3, <2>4 DEF Transfer
<1>7. CASE vk_spi_xfer \/ \E k \in Frames : vk_spi_write(k) \/ vk_spi_read(k)
  BY <1>7 DEF vk_spi_xfer, vk_spi_write, vk_spi_read, Begin, Idle, dmaVars, streamVars
<1>8. CASE \E k \in Frames : vk_spi_xfer_dma(k)
  <2>1. Left # "transfer" => ~en[rx] /\ TCIF \notin flags[rx]
    BY DEF Left
  <2>2. handler = NULL /\ rx # NULL /\ found' = Left /\ dma_done' = 0 /\ at' = "rx"
    BY <1>8, DmaAssumption DEF vk_spi_xfer_dma, Idle
  <2>3. UNCHANGED <<en, flags, left, handler, seen>>
    BY <1>8 DEF vk_spi_xfer_dma, dmaVars, streamVars
  <2> QED
    BY <2>1, <2>2, <2>3
<1>9. CASE Push \/ Drain \/ Pop \/ Finish
  BY <1>9 DEF Push, Drain, Pop, Finish, Again, dmaVars, streamVars
<1>10. CASE Launch \/ Done \/ GiveUp \/ vk_spi_wait
  BY <1>10 DEF Launch, Done, GiveUp, vk_spi_wait, dmaVars, streamVars
<1>11. CASE UNCHANGED vars
  BY <1>11 DEF vars, taskVars, dmaVars, streamVars
<1> QED
  BY <1>1, <1>2, <1>3, <1>4, <1>5, <1>6, <1>7, <1>8, <1>9, <1>10, <1>11
     DEF SpiNext, Task, SpiProceed

(* No frame of the line is counted twice, or comes from before it.           *)
LEMMA SpiFramesStep == SpiInv /\ [SpiNext]_vars => FramesInv'
<1> SUFFICES ASSUME SpiInv, [SpiNext]_vars, Alone', found' = "nothing" PROVE FramesInv'
  BY DEF FramesInv
<1> USE SpiAssumption, DmaAssumption
    DEF SpiInv, DmaInv, DmaTypeOK, PlaceInv, FramesInv, SettingUp, Waiting, Alone, At
<1>1. CASE Exchange
  <2>1. Alone /\ found = "nothing" /\ UNCHANGED <<left, todo, at>>
    BY <1>1 DEF Exchange, taskVars, dmaVars, streamVars
  <2>2. at \in Waiting /\ cstart /\ sent < tsize /\ tsize = todo
    BY <1>1, <2>1 DEF Exchange, LineInv
  <2>3. sent' = sent + 1 /\ rxf' <= rxf + 1 /\ rxf' \in Nat
    BY <1>1, <2>2, <2>1 DEF Exchange
  <2>4. rxf + todo - left[rx] <= sent /\ left[rx] \in Nat /\ todo \in Nat /\ sent \in Nat
    BY <2>1, <2>2
  <2>5. rxf' + todo - left[rx] <= sent'
    BY <2>3, <2>4
  <2> QED
    BY <2>1, <2>2, <2>5
<1>2. CASE MoveRx
  <2>1. Alone /\ found = "nothing" /\ UNCHANGED <<todo, at, sent>>
    BY <1>2 DEF MoveRx, taskVars
  <2>2. left'[rx] = left[rx] - 1 /\ rxf' = rxf - 1 /\ rxf > 0
    BY <1>2, <2>1, MoveRxEnds DEF MoveRx
  <2> QED
    BY <2>1, <2>2
<1>3. CASE MoveTx
  BY <1>3 DEF MoveTx, Move, taskVars
<1>4. CASE StreamFails \/ (\E c \in Channel : Handle(c)) \/ UNCHANGED vars
  BY <1>4
     DEF StreamFails, Fail, Handle, ReadFlags, ClearFlags, taskVars, spiVars, vars,
         dmaVars, streamVars
<1>5. CASE Transfer
  <2>1. CASE StartChannel(rx, "rx", "rx_enable") \/ StartChannel(tx, "tx", "tx_enable")
    BY <2>1 DEF StartChannel, vk_dma_start, Disable, spiVars
  <2>2. CASE EnableChannel(rx, "rx_enable", "tx")
    BY <2>2 DEF EnableChannel, StartEnable, spiVars
  <2>3. CASE EnableChannel(tx, "tx_enable", "cstart")
    BY <2>3 DEF EnableChannel, StartEnable, spiVars
  <2> QED
    BY <1>5, <2>1, <2>2, <2>3 DEF Transfer
<1>6. CASE \/ vk_spi_xfer \/ Push \/ Drain \/ Pop \/ Finish
           \/ \E k \in Frames : vk_spi_write(k) \/ vk_spi_read(k)
  BY <1>6 DEF vk_spi_xfer, vk_spi_write, vk_spi_read, Begin, Push, Drain, Pop, Finish, Again
<1>7. CASE \E k \in Frames : vk_spi_xfer_dma(k)
  BY <1>7 DEF vk_spi_xfer_dma, Left
<1>8. CASE Launch
  BY <1>8 DEF Launch, LineInv, dmaVars, streamVars
<1>9. CASE Done \/ GiveUp \/ vk_spi_wait
  BY <1>9 DEF Done, GiveUp, vk_spi_wait, spiVars, dmaVars, streamVars
<1> QED
  BY <1>1, <1>2, <1>3, <1>4, <1>5, <1>6, <1>7, <1>8, <1>9 DEF SpiNext, Task, SpiProceed

(* SpiInv is an invariant of the driver and the two streams.                 *)
THEOREM SpiInvariant == SpiSpec => []SpiInv
<1>1. SpiInv /\ [SpiNext]_vars => SpiInv'
  BY SpiUsesDma, DriverStepInv, SpiPlaceStep, SpiBitStep, SpiLineStep, SpiStreamStep,
     SpiFramesStep
     DEF SpiInv
<1> QED
  BY SpiInitial, <1>1, PTL DEF SpiSpec

(* vk_spi_wait returns VK_OK to a transfer that found no other under way     *)
(* only when every frame went over the line, every item is in the receive    *)
(* buffer and the stream has stopped; and if it found no unread frame, the   *)
(* buffer's are its own.  That is so whatever timeouts, restarts and late    *)
(* handlers came before and meanwhile.                                       *)
THEOREM SpiWaitMeansDone == SpiSpec => WaitMeansDone
<1>1. SpiInv /\ op = "dma" /\ Finish /\ found # "transfer" =>
        /\ sent = todo /\ left[rx] = 0 /\ ~en[rx]
        /\ found = "nothing" => rxf = 0
  <2> SUFFICES ASSUME SpiInv, op = "dma", Finish, found # "transfer"
               PROVE  /\ sent = todo /\ left[rx] = 0 /\ ~en[rx]
                      /\ found = "nothing" => rxf = 0
    OBVIOUS
  <2>1. Alone /\ at = "eot" /\ eot
    BY DEF Alone, Finish, At
  <2>2. sent = todo
    BY <2>1 DEF SpiInv, LineInv, Waiting
  <2>3. left[rx] = 0 /\ ~en[rx]
    BY <2>1 DEF SpiInv, StreamInv
  <2>4. found = "nothing" => rxf + todo - left[rx] <= sent
    BY <2>1 DEF SpiInv, FramesInv, Waiting
  <2>5. rxf \in Nat /\ todo \in Nat
    BY <2>1, DmaAssumption DEF SpiInv, PlaceInv, Alone
  <2> QED
    BY <2>2, <2>3, <2>4, <2>5
<1> QED
  BY SpiInvariant, <1>1, PTL DEF WaitMeansDone

-------------------------------------------------------------------------------
\* The batches of the ADC, through the demo.

(* When the end of the buffer is known, to the flags or to the handler, its  *)
(* second half has been filled since it was handed over last, or a call has  *)
(* disabled the stream, which raises TCIF too.                               *)
BatchInv ==
  TCIF \in flags[adc_dma] \/ (handler = adc_dma /\ TCIF \in seen)
    => call[adc_dma] # "none" \/ "second" \in full

(* A length that is not 0 is that of a batch, one that task_infer has not    *)
(* taken as long as it looks for one; from there to its clearing the length  *)
(* stays.                                                                    *)
TakenInv ==
  /\ adc_batch_len \in {0, Half}
  /\ infer \in {"wait", "compute"} /\ adc_batch_len # 0 => news
  /\ infer = "pointer" => news
  /\ infer \in {"pointer", "length", "clear"} => adc_batch_len = Half
  /\ infer \in {"wait", "pointer", "length", "clear", "compute"}

DemoInv == DmaInv /\ BatchInv /\ TakenInv

LEMMA DemoInitial == DemoInit => DemoInv
<1> SUFFICES ASSUME DemoInit PROVE DemoInv
  OBVIOUS
<1>1. DmaInv
  BY DmaInitial DEF DemoInit, AdcInit
<1>2. BatchInv /\ TakenInv
  BY AdcAssumption, DmaAssumption
     DEF DemoInit, AdcInit, Init, DemoReset, BatchInv, TakenInv
<1> QED
  BY <1>1, <1>2 DEF DemoInv

(* The ADC driver uses the DMA driver as its interface allows.               *)
LEMMA DemoUsesDma == [DemoNext]_demoVars => [DriverStep]_dmaVars
<1> SUFFICES ASSUME [DemoNext]_demoVars PROVE [DriverStep]_dmaVars
  OBVIOUS
<1>1. adc_dma \in Channel /\ BufLen \in 0 .. CountMod - 1
  BY AdcAssumption, DmaAssumption
<1>2. CASE AdcCall
  BY <1>1, <1>2
     DEF AdcCall, vk_adc_init, vk_adc_read_blocking, vk_adc_start, vk_adc_stop, DriverStep
<1>3. CASE Proceed
  BY <1>1, <1>3
     DEF Proceed, InitReady, ReadStart, ReadResult, StartDma, KickAdc, StopDma, StopEnd,
         DriverStep
<1>4. CASE AdcHardware
  BY <1>1, <1>4 DEF AdcHardware, GetsReady, Convert, Sample, StreamError, DriverStep
<1>5. CASE HandlerEnters \/ HandlerEnds
  BY <1>1, <1>5 DEF HandlerEnters, HandlerEnds, DriverStep
<1>6. CASE task_infer
  BY <1>6 DEF task_infer, SeeBatch, TakePointer, TakeLength, ClearLength, Compute
<1>7. CASE UNCHANGED demoVars
  BY <1>7 DEF demoVars
<1> QED
  BY <1>2, <1>3, <1>4, <1>5, <1>6, <1>7 DEF DemoNext

LEMMA BatchStep == DemoInv /\ [DemoNext]_demoVars => BatchInv'
<1> SUFFICES ASSUME DemoInv, [DemoNext]_demoVars PROVE BatchInv'
  OBVIOUS
<1> USE AdcAssumption, DmaAssumption DEF DemoInv, BatchInv, DmaInv, DmaTypeOK
<1>1. CASE vk_adc_init \/ vk_adc_read_blocking \/ vk_adc_stop
  BY <1>1 DEF vk_adc_init, vk_adc_read_blocking, vk_adc_stop, dmaVars, streamVars
<1>2. CASE vk_adc_start
  BY <1>2 DEF vk_adc_start, vk_dma_start
<1>3. CASE InitReady \/ ReadStart \/ ReadResult \/ KickAdc
  BY <1>3 DEF InitReady, ReadStart, ReadResult, KickAdc, dmaVars, streamVars
<1>4. CASE StartDma
  BY <1>4 DEF StartDma, StartEnable
<1>5. CASE StopDma
  BY <1>5 DEF StopDma, vk_dma_stop
<1>6. CASE StopEnd
  BY <1>6 DEF StopEnd, StopClear
<1>7. CASE GetsReady \/ Convert
  BY <1>7 DEF GetsReady, Convert, dmaVars, streamVars
<1>8. CASE Sample
  <2>1. /\ UNCHANGED <<call, handler, seen>>
        /\ "second" \in full => "second" \in full'
        /\ left[adc_dma] = 1 => "second" \in full'
        /\ handler = adc_dma => left[adc_dma] # 1
    BY <1>8 DEF Sample, Move
  <2>2. left[adc_dma] # 1 /\ TCIF \notin flags[adc_dma] => TCIF \notin flags'[adc_dma]
    <3>1. left[adc_dma] \in Int
      OBVIOUS
    <3>2. left[adc_dma] # 1 => left[adc_dma] - 1 # 0
      BY <3>1
    <3> QED
      BY <1>8, <3>2 DEF Sample, Move, TCIF, HTIF
  <2> QED
    BY <2>1, <2>2
<1>9. CASE StreamError
  BY <1>9 DEF StreamError, Fail, adcVars, TEIF, TCIF
<1>10. CASE HandlerEnters
  BY <1>10 DEF HandlerEnters, ReadFlags, adcVars, streamVars
<1>11. CASE HandlerEnds
  BY <1>11 DEF HandlerEnds, ClearFlags
<1>12. CASE task_infer
  BY <1>12 DEF task_infer, SeeBatch, TakePointer, TakeLength, ClearLength, Compute,
               dmaVars, streamVars, adcVars
<1>13. CASE UNCHANGED demoVars
  BY <1>13 DEF demoVars, dmaVars, streamVars, adcVars
<1> QED
  BY <1>1, <1>2, <1>3, <1>4, <1>5, <1>6, <1>7, <1>8, <1>9, <1>10, <1>11, <1>12, <1>13
     DEF DemoNext, AdcCall, Proceed, AdcHardware

LEMMA TakenStep == DemoInv /\ [DemoNext]_demoVars => TakenInv'
<1> SUFFICES ASSUME DemoInv, [DemoNext]_demoVars PROVE TakenInv'
  OBVIOUS
<1>1. Half # 0
  BY AdcAssumption DEF Half
<1> USE DEF DemoInv, TakenInv
<1>2. CASE UNCHANGED <<batchVars, inferVars, news>>
  BY <1>2 DEF batchVars, inferVars
<1>3. CASE on_adc_batch /\ UNCHANGED inferVars
  BY <1>1, <1>3 DEF on_adc_batch, batchVars, inferVars
<1>4. CASE task_infer
  BY <1>1, <1>4
     DEF task_infer, SeeBatch, TakePointer, TakeLength, ClearLength, Compute, batchVars
<1> QED
  BY <1>2, <1>3, <1>4 DEF DemoNext, demoVars

(* DemoInv is an invariant of the driver, the stream and the two tasks.      *)
THEOREM DemoInvariant == DemoSpec => []DemoInv
<1>1. DemoInv /\ [DemoNext]_demoVars => DemoInv'
  BY DemoUsesDma, DriverStepInv, BatchStep, TakenStep DEF DemoInv
<1> QED
  BY DemoInitial, <1>1, PTL DEF DemoSpec

(* What batch_cb is given has been filled since it was handed over last and  *)
(* since the start, but while vk_adc_start or vk_adc_stop is under way.      *)
THEOREM DemoBatchFresh == DemoSpec => BatchFresh
<1>1. DemoInv /\ HandlerEnds /\ call[adc_dma] = "none" => Handed \subseteq full
  BY DEF DemoInv, DmaInv, DmaTypeOK, BatchInv, HandlerEnds, ClearFlags, Handed,
         CallsHalf, CallsComplete, TEIF, HTIF, TCIF
<1> QED
  BY DemoInvariant, <1>1, PTL DEF BatchFresh

(* No batch is computed twice, and the length that is taken with a pointer   *)
(* is a batch's, wherever the handler comes between the three accesses.      *)
THEOREM DemoBatchOnce == DemoSpec => BatchOnce
<1>1. DemoInv => (TakePointer => news) /\ (TakeLength => adc_batch_len = Half)
  BY DEF DemoInv, TakenInv, TakePointer, TakeLength
<1> QED
  BY DemoInvariant, <1>1, PTL DEF BatchOnce

-------------------------------------------------------------------------------
\* The timed waits.

(* The counter a cycle later: if it was k counts after start it is k + 1.    *)
LEMMA NextCycle ==
  ASSUME NEW m \in Nat \ {0}, NEW s \in 0 .. m - 1, NEW c \in 0 .. m - 1,
         NEW k \in 0 .. m - 1, c - s = k \/ c - s = k - m
  PROVE  /\ (c + 1) % m \in 0 .. m - 1
         /\ k + 1 < m => ((c + 1) % m) - s = k + 1 \/ ((c + 1) % m) - s = (k + 1) - m
<1>0. c + 1 \in Int /\ 0 <= c + 1
  OBVIOUS
<1>1. CASE c + 1 < m
  <2>1. (c + 1) % m = c + 1
    BY <1>0, <1>1, WrapsOnce, Zenon
  <2> QED
    BY <1>1, <2>1
<1>2. CASE c + 1 = m
  <2>1. (c + 1) % m = 0
    BY <1>2
  <2> QED
    BY <1>2, <2>1
<1> QED
  BY <1>1, <1>2

(* Until timeout_ms ticks have passed, the tick count is as far below a      *)
(* deadline that did not wrap as there are ticks left of them.               *)
DeadlineInv ==
  /\ vk_ticks \in 0 .. TickMod - 1 /\ deadline \in 0 .. TickMod - 1
  /\ asked \in Nat /\ elapsed \in Nat
  /\ waits \in {"no", "busy", "tick", "delay"}
  /\ Polls /\ Unwrapped /\ elapsed < asked => vk_ticks = deadline - asked + elapsed

(* CYCCNT is as many counts after start as cycles were spent, until these    *)
(* are as many as it has counts.                                             *)
DelayInv ==
  waits = "delay" =>
    /\ start \in 0 .. CycleMod - 1 /\ cyccnt \in 0 .. CycleMod - 1
    /\ spent \in 0 .. CycleMod
    /\ ticks = (asked * PerMicro) % CycleMod
    /\ spent < CycleMod => cyccnt - start = spent \/ cyccnt - start = spent - CycleMod

WaitInv == DmaInv /\ DeadlineInv /\ DelayInv

LEMMA WaitInitial == WaitInit => WaitInv
  BY DmaInitial, WaitAssumption
     DEF WaitInit, WaitReset, WaitInv, DeadlineInv, DelayInv, Polls

LEMMA WaitUsesDma ==
  [WaitNext]_<<dmaVars, clockVars, waitVars>> => [DriverStep]_dmaVars
<1> SUFFICES ASSUME WaitNext PROVE [DriverStep]_dmaVars
  OBVIOUS
<1>1. wait_ch \in Channel
  BY WaitAssumption
<1>2. CASE Client(wait_ch)
  BY <1>1, <1>2, NextIsDriverStep DEF Next
<1>3. CASE (\E t \in Timeout : vk_dma_wait(t)) \/ \E us \in Delay : vk_delay_us(us)
  BY <1>3 DEF vk_dma_wait, vk_delay_us
<1>4. CASE WaitLoop
  BY <1>4 DEF WaitLoop, SeeFree, SeeBusy, TimeOut, WaitOn, DelayOver, Return
<1>5. CASE Move(wait_ch) \/ Fail(wait_ch) \/ Handler(wait_ch)
  BY <1>1, <1>5 DEF Handler, DriverStep
<1>6. CASE Tick \/ Cycle
  BY <1>6 DEF Tick, Cycle
<1> QED
  BY <1>2, <1>3, <1>4, <1>5, <1>6 DEF WaitNext, WaitTask

LEMMA DeadlineStep ==
  WaitInv /\ [WaitNext]_<<dmaVars, clockVars, waitVars>> => DeadlineInv'
<1> SUFFICES ASSUME WaitInv, [WaitNext]_<<dmaVars, clockVars, waitVars>>
             PROVE  DeadlineInv'
  OBVIOUS
<1> USE WaitAssumption DEF WaitInv, DeadlineInv, Polls, Unwrapped
<1>1. CASE UNCHANGED <<clockVars, waitVars>>
  BY <1>1 DEF clockVars, waitVars
<1>2. ASSUME NEW t \in Timeout, vk_dma_wait(t) PROVE DeadlineInv'
  <2>1. t \in 0 .. TickMod - 1 /\ TickMod \in Nat \ {0} /\ vk_ticks \in 0 .. TickMod - 1
    OBVIOUS
  <2>2. deadline' = (vk_ticks + t) % TickMod /\ deadline' \in 0 .. TickMod - 1
    BY <1>2, <2>1 DEF vk_dma_wait
  <2>3. deadline' >= t => deadline' = vk_ticks + t
    <3>1. CASE vk_ticks + t < TickMod
      <4>1. vk_ticks + t \in Int /\ 0 <= vk_ticks + t
        BY <2>1
      <4> QED
        BY <2>1, <2>2, <3>1, <4>1, WrapsOnce, Zenon
    <3>2. CASE ~(vk_ticks + t < TickMod)
      <4>1. (vk_ticks + t) % TickMod = vk_ticks + t - TickMod
        BY <2>1, <3>2
      <4> QED
        BY <2>1, <2>2, <4>1
    <3> QED
      BY <3>1, <3>2
  <2> QED
    BY <1>2, <2>1, <2>2, <2>3 DEF vk_dma_wait, clockVars
<1>3. ASSUME NEW us \in Delay, vk_delay_us(us) PROVE DeadlineInv'
  BY <1>3, WaitAssumption DEF vk_delay_us
<1>4. CASE SeeFree \/ TimeOut \/ DelayOver
  BY <1>4 DEF SeeFree, TimeOut, DelayOver, Return
<1>5. CASE SeeBusy \/ WaitOn
  BY <1>5 DEF SeeBusy, WaitOn, TaskAt, clockVars
<1>6. CASE Tick
  <2>1. vk_ticks' \in 0 .. TickMod - 1
    BY <1>6 DEF Tick
  <2>2. vk_ticks + 1 < TickMod => vk_ticks' = vk_ticks + 1
    <3>1. vk_ticks + 1 \in Int /\ 0 <= vk_ticks + 1
      OBVIOUS
    <3> QED
      BY <1>6, <3>1, WrapsOnce, Zenon DEF Tick
  <2> QED
    BY <1>6, <2>1, <2>2 DEF Tick
<1>7. CASE Cycle
  BY <1>7 DEF Cycle
<1> QED
  BY <1>1, <1>2, <1>3, <1>4, <1>5, <1>6, <1>7 DEF WaitNext, WaitTask, WaitLoop

LEMMA DelayStep ==
  WaitInv /\ [WaitNext]_<<dmaVars, clockVars, waitVars>> => DelayInv'
<1> SUFFICES ASSUME WaitInv, [WaitNext]_<<dmaVars, clockVars, waitVars>>
             PROVE  DelayInv'
  OBVIOUS
<1> USE DEF WaitInv, DelayInv
<1>1. CASE UNCHANGED <<clockVars, waitVars>>
  BY <1>1 DEF clockVars, waitVars
<1>2. ASSUME NEW us \in Delay, vk_delay_us(us) PROVE DelayInv'
  <2>1. \A z \in 0 .. CycleMod - 1 : z \in Int /\ z - z = 0
    BY WaitAssumption
  <2>2. PICK z \in 0 .. CycleMod - 1 : cyccnt' = z /\ start' = z
    BY <1>2 DEF vk_delay_us
  <2>3. cyccnt' - start' = 0
    BY <2>1, <2>2
  <2>4. spent' = 0 /\ asked' = us /\ ticks' = (us * PerMicro) % CycleMod
    BY <1>2 DEF vk_delay_us
  <2>5. 0 \in 0 .. CycleMod
    BY WaitAssumption
  <2> QED
    BY <2>2, <2>3, <2>4, <2>5
<1>3. CASE SeeFree \/ SeeBusy \/ TimeOut \/ WaitOn \/ DelayOver
           \/ \E t \in Timeout : vk_dma_wait(t)
  BY <1>3 DEF SeeFree, SeeBusy, TimeOut, WaitOn, DelayOver, Return, vk_dma_wait
<1>4. CASE Tick
  BY <1>4 DEF Tick
<1>5. CASE Cycle
  <2>1. /\ start \in 0 .. CycleMod - 1 /\ cyccnt \in 0 .. CycleMod - 1
        /\ spent \in 0 .. CycleMod /\ CycleMod \in Nat \ {0}
    BY <1>5, WaitAssumption DEF Cycle
  <2>2. (cyccnt + 1) % CycleMod \in 0 .. CycleMod - 1
    BY <2>1
  <2>3. CASE spent < CycleMod
    <3>1. spent \in 0 .. CycleMod - 1
      BY <2>1, <2>3
    <3>2. spent + 1 < CycleMod =>
            \/ ((cyccnt + 1) % CycleMod) - start = spent + 1
            \/ ((cyccnt + 1) % CycleMod) - start = (spent + 1) - CycleMod
      BY <1>5, <2>1, <2>3, <3>1, NextCycle DEF Cycle
    <3> QED
      BY <1>5, <2>1, <2>2, <2>3, <3>2 DEF Cycle
  <2>4. CASE ~(spent < CycleMod)
    BY <1>5, <2>1, <2>2, <2>4 DEF Cycle
  <2> QED
    BY <2>3, <2>4
<1> QED
  BY <1>1, <1>2, <1>3, <1>4, <1>5 DEF WaitNext, WaitTask, WaitLoop

(* WaitInv is an invariant of the task, its channel and the clocks.          *)
THEOREM WaitInvariant == WaitSpec => []WaitInv
<1>1. WaitInv /\ [WaitNext]_<<dmaVars, clockVars, waitVars>> => WaitInv'
  BY WaitUsesDma, DriverStepInv, DeadlineStep, DelayStep DEF WaitInv
<1> QED
  BY WaitInitial, <1>1, PTL DEF WaitSpec

(* A wait that times out has lasted its ticks, if the deadline did not wrap. *)
LEMMA TimeOutInTime ==
  ASSUME WaitInv, TimeOut, Unwrapped
  PROVE  elapsed >= asked
<1>1. Polls /\ vk_ticks >= deadline
  BY DEF TimeOut, TaskAt, Polls
<1> QED
  BY <1>1 DEF WaitInv, DeadlineInv, Unwrapped

(* A delay that ends has lasted its cycles, wherever the counter wrapped.    *)
LEMMA DelayInTime ==
  ASSUME WaitInv, WaitNext, waits = "delay", waits' = "no", asked * PerMicro < CycleMod
  PROVE  spent >= asked * PerMicro
<1> DEFINE cycles == asked * PerMicro
<1>1. DelayOver
  BY DEF WaitNext, WaitTask, WaitLoop, SeeFree, SeeBusy, TimeOut, WaitOn, TaskAt,
         vk_dma_wait, vk_delay_us, waitVars, Tick, Cycle
<1>2. /\ start \in 0 .. CycleMod - 1 /\ cyccnt \in 0 .. CycleMod - 1
      /\ spent \in 0 .. CycleMod /\ CycleMod \in Nat \ {0}
      /\ ticks = cycles % CycleMod
      /\ spent < CycleMod => cyccnt - start = spent \/ cyccnt - start = spent - CycleMod
  BY WaitAssumption DEF WaitInv, DelayInv
<1>3. (cyccnt - start) % CycleMod >= ticks
  BY <1>1 DEF DelayOver
<1>4. cycles \in Nat /\ cycles < CycleMod
  BY WaitAssumption DEF WaitInv, DeadlineInv
<1> HIDE DEF cycles
<1>5. ticks = cycles
  BY <1>2, <1>4, WrapsOnce
<1>6. CASE spent < CycleMod
  <2>1. (cyccnt - start) % CycleMod = spent
    BY <1>2, <1>6, WrapsOnce
  <2> QED
    BY <1>3, <1>5, <2>1 DEF cycles
<1>7. CASE ~(spent < CycleMod)
  <2>1. spent >= cycles
    BY <1>2, <1>4, <1>7
  <2> QED
    BY <2>1 DEF cycles
<1> QED
  BY <1>6, <1>7

(* Neither vk_dma_wait nor vk_delay_us gives up early.                       *)
THEOREM WaitNeverEarly == WaitSpec => NeverEarly
<1>1. WaitInv /\ [WaitNext]_<<dmaVars, clockVars, waitVars>> =>
        [/\ TimeOut /\ Unwrapped => elapsed >= asked
         /\ waits = "delay" /\ waits' = "no" /\ asked * PerMicro < CycleMod
              => spent >= asked * PerMicro]_<<dmaVars, clockVars, waitVars>>
  BY TimeOutInTime, DelayInTime
<1> QED
  BY WaitInvariant, <1>1, PTL DEF WaitSpec, NeverEarly

-------------------------------------------------------------------------------
(* Under the SPI driver, the ADC driver and a task that waits, too, a stream *)
(* at work is busy: they use vk_dma_start and vk_dma_stop so that a handler  *)
(* of an earlier transfer never clears the busy of the next one.             *)
THEOREM DriversKeepBusy == SpiSpec \/ DemoSpec \/ WaitSpec => []EnabledIsBusy
<1>1. (SpiInv => EnabledIsBusy) /\ (DemoInv => EnabledIsBusy) /\ (WaitInv => EnabledIsBusy)
  BY DEF SpiInv, DemoInv, WaitInv, DmaInv
<1> QED
  BY SpiInvariant, DemoInvariant, WaitInvariant, <1>1, PTL

-------------------------------------------------------------------------------
\* The pins of a GPIO port.

(* p interrupts no other caller that rewrites registers of the port.         *)
Sheltered(p) == \A q \in Rewriter \ {p} : ~Preempts(p, q)

Field == SUBSET Nat

Change == [reg : Register, op : {"clear", "or", "flip"}, bits : Field]

(* The rewrites that are left of calls that fill fields: each field is       *)
(* cleared at most once, and right before it is filled with what is wanted.  *)
Filling(list, want) ==
  /\ \A i \in 1 .. Len(list) :
       /\ list[i].op \in {"clear", "or"}
       /\ list[i].op = "clear" => /\ i < Len(list)
                                  /\ list[i + 1].op = "or"
                                  /\ list[i + 1].reg = list[i].reg
       /\ list[i].op = "or" => list[i].bits = want[list[i].reg]
       /\ list[i].op = "or" /\ i > 1 => list[i - 1].op = "clear"
  /\ \A i, j \in 1 .. Len(list) :
       i < j /\ list[i].reg = list[j].reg => list[i].op = "clear" /\ j = i + 1

Pending(list, r) == \E i \in 1 .. Len(list) : list[i].reg = r

(* What is left of h's call makes its fields what it last asked for.         *)
Remaining(h) ==
  LET list == rewrites[h] IN
  \/ /\ Filling(list, made[h])
     /\ list # <<>> /\ Head(list).op = "or" => port[Head(list).reg][h] = {}
     /\ \A r \in Register : ~Pending(list, r) => port[r][h] = made[h][r]
  \/ /\ list = <<[reg |-> "ODR", op |-> "flip", bits |-> {}]>>
     /\ made[h]["ODR"] = Flipped(port["ODR"][h])
     /\ \A r \in Register \ {"ODR"} : port[r][h] = made[h][r]

GpioTypeOK ==
  /\ port \in [Register -> [Pin -> Field]]
  /\ made \in [Pin -> [Register -> Field]]
  /\ rewrites \in [Pin -> Seq(Change)]
  /\ loaded \in [Pin -> [Pin -> Field] \cup {<<>>}]

(* What anybody has loaded still holds what p's pin is.                      *)
PortInv(p) ==
  /\ GpioTypeOK
  /\ \A q \in Pin \ {p} : rewrites[q] # <<>> => q \in Rewriter
  /\ \A q \in Pin : loaded[q] # <<>> => /\ rewrites[q] # <<>>
                                       /\ loaded[q][p] = port[Head(rewrites[q]).reg][p]
  /\ Remaining(p)

LEMMA FillProperties ==
  ASSUME NEW r \in Register, NEW bits \in Field
  PROVE  /\ Fill(r, bits) \in Seq(Change) /\ Len(Fill(r, bits)) = 2
         /\ Fill(r, bits)[1] = [reg |-> r, op |-> "clear", bits |-> {}]
         /\ Fill(r, bits)[2] = [reg |-> r, op |-> "or", bits |-> bits]
BY DEF Fill, Change, Field

(* Nothing left, or a clear first.                                           *)
Whole(list) == list # <<>> => list[1].op = "clear"

(* One more field after the others.                                          *)
LEMMA AddFill ==
  ASSUME NEW list \in Seq(Change), NEW want, NEW r \in Register, NEW bits \in Field,
         Filling(list, want), Whole(list), ~Pending(list, r), want[r] = bits
  PROVE  LET all == list \o Fill(r, bits)
         IN  /\ all \in Seq(Change) /\ Filling(all, want) /\ Whole(all)
             /\ \A q : Pending(all, q) <=> Pending(list, q) \/ q = r
<1> DEFINE f == Fill(r, bits)
           all == list \o f
           size == Len(list)
<1>1. /\ f \in Seq(Change) /\ Len(f) = 2
      /\ f[1] = [reg |-> r, op |-> "clear", bits |-> {}]
      /\ f[2] = [reg |-> r, op |-> "or", bits |-> bits]
  BY FillProperties
<1>2. size \in Nat
  BY LenProperties
<1> HIDE DEF f
<1>3. /\ all \in Seq(Change) /\ Len(all) = size + 2
      /\ \A i \in 1 .. size + 2 : all[i] = IF i <= size THEN list[i] ELSE f[i - size]
  <2>1. /\ all \in Seq(Change) /\ Len(all) = size + Len(f)
        /\ \A i \in 1 .. size + Len(f) : all[i] = IF i <= size THEN list[i] ELSE f[i - size]
    BY <1>1, ConcatProperties
  <2> QED
    BY <1>1, <2>1
<1> HIDE DEF all, size
<1>4. \A i \in 1 .. size : all[i] = list[i]
  BY <1>2, <1>3
<1>5. all[size + 1] = f[1] /\ all[size + 2] = f[2]
  <2>1. /\ size + 1 \in 1 .. size + 2 /\ ~(size + 1 <= size) /\ (size + 1) - size = 1
        /\ size + 2 \in 1 .. size + 2 /\ ~(size + 2 <= size) /\ (size + 2) - size = 2
    BY <1>2
  <2> QED
    BY <1>3, <2>1
<1>6. /\ all[size + 1].reg = r /\ all[size + 1].op = "clear"
      /\ all[size + 2].reg = r /\ all[size + 2].op = "or" /\ all[size + 2].bits = bits
  BY <1>1, <1>5
<1>7. \A i \in 1 .. size : all[i].reg # r
  BY <1>4 DEF Pending, size
<1>8. \A i \in 1 .. size + 2 : i \in 1 .. size \/ i = size + 1 \/ i = size + 2
  BY <1>2
<1>9. /\ \A i \in 1 .. size :
           /\ list[i].op \in {"clear", "or"}
           /\ list[i].op = "clear" => /\ i < size
                                      /\ list[i + 1].op = "or"
                                      /\ list[i + 1].reg = list[i].reg
           /\ list[i].op = "or" => list[i].bits = want[list[i].reg]
           /\ list[i].op = "or" /\ i > 1 => list[i - 1].op = "clear"
      /\ \A i, j \in 1 .. size :
           i < j /\ list[i].reg = list[j].reg => list[i].op = "clear" /\ j = i + 1
  BY DEF Filling, size
<1>10. ASSUME NEW i \in 1 .. size + 2
       PROVE  /\ all[i].op \in {"clear", "or"}
              /\ all[i].op = "clear" => /\ i < size + 2
                                        /\ all[i + 1].op = "or"
                                        /\ all[i + 1].reg = all[i].reg
              /\ all[i].op = "or" => all[i].bits = want[all[i].reg]
              /\ all[i].op = "or" /\ i > 1 => all[i - 1].op = "clear"
  <2>1. CASE i \in 1 .. size
    <3>1. all[i] = list[i]
      BY <1>4, <2>1
    <3>2. all[i].op = "clear" => i + 1 \in 1 .. size
      BY <1>2, <1>9, <2>1, <3>1
    <3>3. i > 1 => i - 1 \in 1 .. size
      BY <1>2, <2>1
    <3> QED
      BY <1>2, <1>4, <1>9, <2>1, <3>1, <3>2, <3>3
  <2>2. CASE i = size + 1
    <3>1. i + 1 = size + 2 /\ i < size + 2
      BY <1>2, <2>2
    <3> QED
      BY <1>6, <2>2, <3>1
  <2>3. CASE i = size + 2
    <3>1. i - 1 = size + 1
      BY <1>2, <2>3
    <3> QED
      BY <1>6, <2>3, <3>1
  <2> QED
    BY <1>8, <2>1, <2>2, <2>3
<1>11. ASSUME NEW i \in 1 .. size + 2, NEW j \in 1 .. size + 2, i < j, all[i].reg = all[j].reg
       PROVE  all[i].op = "clear" /\ j = i + 1
  <2>1. CASE j \in 1 .. size
    <3>1. i \in 1 .. size
      BY <1>2, <1>11, <2>1
    <3> QED
      BY <1>4, <1>9, <1>11, <2>1, <3>1
  <2>2. CASE j = size + 1 \/ j = size + 2
    <3>1. all[i].reg = r
      BY <1>6, <1>11, <2>2
    <3>2. i = size + 1 /\ j = size + 2
      BY <1>2, <1>7, <1>8, <1>11, <2>2, <3>1
    <3> QED
      BY <1>2, <1>6, <3>2
  <2> QED
    BY <1>8, <2>1, <2>2
<1>12. Filling(all, want)
  BY <1>3, <1>10, <1>11 DEF Filling
<1>13. Whole(all)
  <2>1. CASE list = <<>>
    <3>1. size = 0
      BY <2>1 DEF size
    <3> QED
      BY <1>6, <3>1 DEF Whole
  <2>2. CASE list # <<>>
    <3>1. 1 \in 1 .. size
      BY <1>2, <2>2, EmptySeq DEF size
    <3> QED
      BY <1>4, <2>2, <3>1 DEF Whole
  <2> QED
    BY <2>1, <2>2
<1>14. ASSUME NEW q PROVE Pending(all, q) <=> Pending(list, q) \/ q = r
  <2>1. size + 1 \in 1 .. size + 2 /\ \A i \in 1 .. size : i \in 1 .. size + 2
    BY <1>2
  <2> QED
    BY <1>3, <1>4, <1>6, <1>8, <2>1 DEF Pending, size
<1> QED
  BY <1>3, <1>12, <1>13, <1>14 DEF all, f

LEMMA FirstFill ==
  ASSUME NEW want, NEW r \in Register, NEW bits \in Field, want[r] = bits
  PROVE  /\ Fill(r, bits) \in Seq(Change)
         /\ Filling(Fill(r, bits), want) /\ Whole(Fill(r, bits))
         /\ \A q : Pending(Fill(r, bits), q) <=> q = r
<1> DEFINE none == <<>>
<1>1. /\ none \in Seq(Change) /\ Filling(none, want) /\ Whole(none)
      /\ \A q : ~Pending(none, q)
  BY DEF Filling, Whole, Pending
<1>2. Fill(r, bits) \in Seq(Change)
  BY FillProperties
<1>3. none \o Fill(r, bits) = Fill(r, bits)
  BY <1>2, ConcatEmptySeq
<1> HIDE DEF none
<1>4. LET all == none \o Fill(r, bits)
      IN  /\ all \in Seq(Change) /\ Filling(all, want) /\ Whole(all)
          /\ \A q : Pending(all, q) <=> Pending(none, q) \/ q = r
  BY <1>1, AddFill
<1> QED
  BY <1>1, <1>3, <1>4

(* The four fields of vk_gpio_config.                                        *)
LEMMA FourFills ==
  ASSUME NEW want, NEW s \in [1 .. 4 -> Field],
         \A i \in 1 .. 4 : want[ConfigRegister[i]] = s[i]
  PROVE  LET fill(i) == Fill(ConfigRegister[i], s[i])
             all == fill(1) \o fill(2) \o fill(3) \o fill(4)
         IN  /\ all \in Seq(Change) /\ Filling(all, want) /\ Whole(all)
             /\ \A q : Pending(all, q) <=> \E i \in 1 .. 4 : q = ConfigRegister[i]
<1> DEFINE fill(i) == Fill(ConfigRegister[i], s[i])
           one == fill(1)
           two == one \o fill(2)
           three == two \o fill(3)
           four == three \o fill(4)
<1>1. /\ \A i \in 1 .. 4 : ConfigRegister[i] \in Register
      /\ \A i, j \in 1 .. 4 : i # j => ConfigRegister[i] # ConfigRegister[j]
  BY DEF ConfigRegister, Register
<1> DEFINE C(i) == ConfigRegister[i]
<1>2. /\ C(1) \in Register /\ C(2) \in Register /\ C(3) \in Register /\ C(4) \in Register
      /\ s[1] \in Field /\ s[2] \in Field /\ s[3] \in Field /\ s[4] \in Field
      /\ want[C(1)] = s[1] /\ want[C(2)] = s[2] /\ want[C(3)] = s[3] /\ want[C(4)] = s[4]
      /\ C(2) # C(1) /\ C(3) # C(1) /\ C(3) # C(2)
      /\ C(4) # C(1) /\ C(4) # C(2) /\ C(4) # C(3)
  BY <1>1
<1>3. /\ one \in Seq(Change) /\ Filling(one, want) /\ Whole(one)
      /\ \A q : Pending(one, q) <=> q = C(1)
  BY <1>2, FirstFill
<1> HIDE DEF one
<1>4. /\ two \in Seq(Change) /\ Filling(two, want) /\ Whole(two)
      /\ \A q : Pending(two, q) <=> Pending(one, q) \/ q = C(2)
  <2>1. ~Pending(one, C(2))
    BY <1>2, <1>3
  <2> QED
    BY <1>2, <1>3, <2>1, AddFill
<1> HIDE DEF two
<1>5. /\ three \in Seq(Change) /\ Filling(three, want) /\ Whole(three)
      /\ \A q : Pending(three, q) <=> Pending(two, q) \/ q = C(3)
  <2>1. ~Pending(two, C(3))
    BY <1>2, <1>3, <1>4
  <2> QED
    BY <1>2, <1>4, <2>1, AddFill
<1> HIDE DEF three
<1>6. /\ four \in Seq(Change) /\ Filling(four, want) /\ Whole(four)
      /\ \A q : Pending(four, q) <=> Pending(three, q) \/ q = C(4)
  <2>1. ~Pending(three, C(4))
    BY <1>2, <1>3, <1>4, <1>5
  <2> QED
    BY <1>2, <1>5, <2>1, AddFill
<1>7. \A q : Pending(four, q) <=> \E i \in 1 .. 4 : q = C(i)
  <2>1. \A q : (\E i \in 1 .. 4 : q = C(i)) <=> q = C(1) \/ q = C(2) \/ q = C(3) \/ q = C(4)
    OBVIOUS
  <2> QED
    BY <1>3, <1>4, <1>5, <1>6, <2>1
<1> QED
  BY <1>6, <1>7 DEF one, two, three

LEMMA InitPorts ==
  ASSUME GpioInit, NEW p \in Pin
  PROVE  PortInv(p)
<1>1. {} \in Field
  BY DEF Field
<1>2. GpioTypeOK
  BY <1>1 DEF GpioInit, GpioTypeOK
<1>3. \A q \in Pin : /\ rewrites[q] = <<>> /\ loaded[q] = <<>>
                     /\ \A r \in Register : port[r][q] = made[q][r]
  BY DEF GpioInit
<1>4. Filling(rewrites[p], made[p])
  BY <1>3 DEF Filling
<1> QED
  BY <1>2, <1>3, <1>4 DEF PortInv, Remaining

(* When p runs, no other caller has a register loaded.                       *)
LEMMA OthersQuiet ==
  ASSUME NEW p \in Pin, Sheltered(p), PortInv(p), Runs(p)
  PROVE  \A q \in Pin \ {p} : rewrites[q] = <<>> /\ loaded[q] = <<>>
BY DEF Sheltered, PortInv, Runs

(* Between its calls p's pin is as it last asked for.                        *)
LEMMA BetweenCalls ==
  ASSUME NEW p \in Pin, PortInv(p), rewrites[p] = <<>>
  PROVE  /\ loaded[p] = <<>>
         /\ \A r \in Register : port[r][p] = made[p][r]
<1>1. \A r \in Register : ~Pending(rewrites[p], r)
  BY DEF Pending
<1> QED
  BY <1>1 DEF PortInv, Remaining

(* What is done to other pins leaves p's call as it is.                      *)
LEMMA RemainingKept ==
  ASSUME NEW p \in Pin, PortInv(p), rewrites'[p] = rewrites[p], made'[p] = made[p],
         \A r \in Register : port'[r][p] = port[r][p]
  PROVE  Remaining(p)'
<1>1. "ODR" \in Register /\ rewrites[p] \in Seq(Change)
  BY DEF Register, PortInv, GpioTypeOK
<1>2. rewrites[p] # <<>> => Head(rewrites[p]).reg \in Register
  <2>1. rewrites[p] # <<>> => Head(rewrites[p]) \in Change
    BY <1>1, HeadTailProperties
  <2> QED
    BY <2>1 DEF Change
<1>3. CASE /\ Filling(rewrites[p], made[p])
           /\ rewrites[p] # <<>> /\ Head(rewrites[p]).op = "or"
                => port[Head(rewrites[p]).reg][p] = {}
           /\ \A r \in Register : ~Pending(rewrites[p], r) => port[r][p] = made[p][r]
  <2>1. Filling(rewrites'[p], made'[p])
    BY <1>3, Zenon
  <2>2. \A r \in Register : ~Pending(rewrites'[p], r) => port'[r][p] = made'[p][r]
    BY <1>3, Zenon
  <2>3. rewrites'[p] # <<>> /\ Head(rewrites'[p]).op = "or"
          => port'[Head(rewrites'[p]).reg][p] = {}
    BY <1>2, <1>3
  <2> QED
    BY <2>1, <2>2, <2>3, Zenon DEF Remaining
<1>4. CASE /\ rewrites[p] = <<[reg |-> "ODR", op |-> "flip", bits |-> {}]>>
           /\ made[p]["ODR"] = Flipped(port["ODR"][p])
           /\ \A r \in Register \ {"ODR"} : port[r][p] = made[p][r]
  <2>1. made'[p]["ODR"] = Flipped(port'["ODR"][p])
    BY <1>1, <1>4
  <2> QED
    BY <1>4, <2>1 DEF Remaining
<1> QED
  BY <1>3, <1>4 DEF PortInv, Remaining

(* A store to BSRR, for any pin.                                             *)
LEMMA BsrrInv ==
  ASSUME NEW p \in Pin, Sheltered(p), PortInv(p), NEW q \in Pin,
         vk_gpio_set(q) \/ vk_gpio_clear(q)
  PROVE  PortInv(p)'
<1>1. PICK field \in Field : /\ port' = [port EXCEPT !["ODR"][q] = field]
                             /\ made' = [made EXCEPT ![q]["ODR"] = field]
  <2>1. {0} \in Field /\ {} \in Field
    BY DEF Field
  <2>2. CASE vk_gpio_set(q)
    BY <2>1, <2>2 DEF vk_gpio_set
  <2>3. CASE vk_gpio_clear(q)
    BY <2>1, <2>3 DEF vk_gpio_clear
  <2> QED
    BY <2>2, <2>3
<1>2. UNCHANGED <<rewrites, loaded>> /\ Runs(q) /\ rewrites[q] = <<>>
  BY DEF vk_gpio_set, vk_gpio_clear, Free
<1>3. GpioTypeOK'
  BY <1>1, <1>2 DEF PortInv, GpioTypeOK
<1>4. CASE q = p
  <2>1. \A r \in Register : port[r][p] = made[p][r]
    BY <1>2, <1>4, BetweenCalls
  <2>2. \A s \in Pin : loaded[s] = <<>>
    BY <1>2, <1>4, BetweenCalls, OthersQuiet
  <2>3. \A r \in Register : port'[r][p] = made'[p][r]
    BY <1>1, <1>4, <2>1 DEF PortInv, GpioTypeOK
  <2>4. Filling(rewrites'[p], made'[p])
    BY <1>2, <1>4 DEF Filling
  <2>5. Remaining(p)'
    BY <1>2, <1>4, <2>3, <2>4 DEF Remaining
  <2> QED
    BY <1>2, <1>3, <2>2, <2>5 DEF PortInv
<1>5. CASE q # p
  <2>1. /\ \A r \in Register : port'[r][p] = port[r][p]
        /\ made'[p] = made[p]
    BY <1>1, <1>5 DEF PortInv, GpioTypeOK
  <2>2. ASSUME NEW s \in Pin, loaded[s] # <<>>
        PROVE  loaded[s][p] = port'[Head(rewrites[s]).reg][p]
    <3>1. Head(rewrites[s]) \in Change
      BY <2>2, HeadTailProperties DEF PortInv, GpioTypeOK
    <3> QED
      BY <2>1, <2>2, <3>1 DEF PortInv, Change
  <2>3. Remaining(p)'
    BY <1>2, <2>1, RemainingKept
  <2> QED
    BY <1>2, <1>3, <2>2, <2>3 DEF PortInv
<1> QED
  BY <1>4, <1>5

(* A call begins: it has to fill what it asks for, or to flip the output.    *)
Asks(q, list, want) ==
  /\ q \in Rewriter /\ Enter(q, list)
  /\ made' = [made EXCEPT ![q] = want]
  /\ \/ /\ Filling(list, want) /\ Whole(list)
        /\ \A r \in Register : Pending(list, r) \/ want[r] = made[q][r]
     \/ /\ list = <<[reg |-> "ODR", op |-> "flip", bits |-> {}]>>
        /\ want = [made[q] EXCEPT !["ODR"] = Flipped(@)]

LEMMA AsksInv ==
  ASSUME NEW p \in Pin, Sheltered(p), PortInv(p), NEW q \in Pin,
         NEW list \in Seq(Change), NEW want \in [Register -> Field],
         Asks(q, list, want)
  PROVE  PortInv(p)'
<1>1. /\ UNCHANGED <<port, loaded>> /\ Runs(q) /\ rewrites[q] = <<>>
      /\ rewrites' = [rewrites EXCEPT ![q] = list]
      /\ made' = [made EXCEPT ![q] = want]
  BY DEF Asks, Enter, Free
<1>2. GpioTypeOK'
  BY <1>1 DEF PortInv, GpioTypeOK
<1>3. /\ rewrites'[q] = list /\ made'[q] = want
      /\ \A s \in Pin \ {q} : rewrites'[s] = rewrites[s] /\ made'[s] = made[s]
  BY <1>1 DEF PortInv, GpioTypeOK
<1>4. loaded[q] = <<>>
  BY <1>1 DEF PortInv
<1>5. \A s \in Pin \ {p} : rewrites'[s] # <<>> => s \in Rewriter
  BY <1>3 DEF PortInv, Asks
<1>6. \A s \in Pin : loaded'[s] # <<>> =>
        /\ rewrites'[s] # <<>> /\ loaded'[s][p] = port'[Head(rewrites'[s]).reg][p]
  BY <1>1, <1>3, <1>4 DEF PortInv
<1>7. Remaining(p)'
  <2>1. CASE q # p
    BY <1>1, <1>3, <2>1 DEF PortInv, Remaining
  <2>2. CASE q = p
    <3>1. \A r \in Register : port'[r][p] = made[p][r]
      BY <1>1, <2>2, BetweenCalls
    <3>2. CASE /\ Filling(list, want) /\ Whole(list)
               /\ \A r \in Register : Pending(list, r) \/ want[r] = made[q][r]
      <4>1. list # <<>> => Head(list).op # "or"
        BY <3>2 DEF Whole
      <4> QED
        BY <1>3, <2>2, <3>1, <3>2, <4>1 DEF Remaining
    <3>3. CASE /\ list = <<[reg |-> "ODR", op |-> "flip", bits |-> {}]>>
               /\ want = [made[q] EXCEPT !["ODR"] = Flipped(@)]
      <4>1. "ODR" \in Register /\ made[p] \in [Register -> Field]
        BY DEF Register, PortInv, GpioTypeOK
      <4>2. /\ want["ODR"] = Flipped(port'["ODR"][p])
            /\ \A r \in Register \ {"ODR"} : port'[r][p] = want[r]
        BY <2>2, <3>1, <3>3, <4>1
      <4> QED
        BY <1>3, <2>2, <3>3, <4>2 DEF Remaining
    <3> QED
      BY <3>2, <3>3 DEF Asks
  <2> QED
    BY <2>1, <2>2
<1> QED
  BY <1>2, <1>5, <1>6, <1>7 DEF PortInv

LEMMA ConfigInv ==
  ASSUME NEW h \in Pin, Sheltered(h), PortInv(h), NEW p \in Pin,
         NEW mode \in Field, NEW otype \in Field, NEW speed \in Field, NEW pull \in Field,
         vk_gpio_config(p, mode, otype, speed, pull)
  PROVE  PortInv(h)'
<1> DEFINE settings == <<mode, otype, speed, pull>>
           fill(i) == Fill(ConfigRegister[i], settings[i])
           all == fill(1) \o fill(2) \o fill(3) \o fill(4)
           want == [r \in Register |->
                      IF \E i \in 1 .. 4 : ConfigRegister[i] = r
                      THEN settings[CHOOSE i \in 1 .. 4 : ConfigRegister[i] = r]
                      ELSE made[p][r]]
<1>1. settings \in [1 .. 4 -> Field]
  OBVIOUS
<1>2. made \in [Pin -> [Register -> Field]]
  BY DEF PortInv, GpioTypeOK
<1>3. p \in Rewriter /\ Enter(p, all) /\ made' = [made EXCEPT ![p] = want]
  BY <1>2 DEF vk_gpio_config, Rewriter
<1> HIDE DEF settings
<1>4. \A i \in 1 .. 4 : /\ ConfigRegister[i] \in Register
                        /\ (CHOOSE j \in 1 .. 4 : ConfigRegister[j] = ConfigRegister[i]) = i
  <2>1. /\ \A i \in 1 .. 4 : ConfigRegister[i] \in Register
        /\ \A i, j \in 1 .. 4 : i # j => ConfigRegister[i] # ConfigRegister[j]
    BY DEF ConfigRegister, Register
  <2> QED
    BY <2>1
<1>5. \A i \in 1 .. 4 : want[ConfigRegister[i]] = settings[i]
  BY <1>4
<1>6. want \in [Register -> Field]
  <2>1. ASSUME NEW r \in Register PROVE want[r] \in Field
    <3>1. CASE \E i \in 1 .. 4 : ConfigRegister[i] = r
      <4>1. PICK i \in 1 .. 4 : r = ConfigRegister[i]
        BY <3>1
      <4> QED
        BY <1>1, <1>5, <4>1
    <3>2. CASE ~\E i \in 1 .. 4 : ConfigRegister[i] = r
      BY <1>2, <3>2
    <3> QED
      BY <3>1, <3>2
  <2> QED
    BY <2>1
<1>7. \A r \in Register : (\E i \in 1 .. 4 : r = ConfigRegister[i]) \/ want[r] = made[p][r]
  OBVIOUS
<1> HIDE DEF want
<1>8. /\ all \in Seq(Change) /\ Filling(all, want) /\ Whole(all)
      /\ \A q : Pending(all, q) <=> \E i \in 1 .. 4 : q = ConfigRegister[i]
  BY <1>1, <1>5, FourFills
<1>9. \A r \in Register : Pending(all, r) \/ want[r] = made[p][r]
  BY <1>7, <1>8
<1> HIDE DEF all
<1>10. Asks(p, all, want)
  BY <1>3, <1>8, <1>9 DEF Asks
<1> QED
  BY <1>6, <1>8, <1>10, AsksInv

LEMMA SetAfInv ==
  ASSUME NEW h \in Pin, Sheltered(h), PortInv(h), NEW p \in Pin,
         NEW af \in Field, vk_gpio_set_af(p, af)
  PROVE  PortInv(h)'
<1> DEFINE list == Fill("AFR", af)
           want == [made[p] EXCEPT !["AFR"] = af]
<1>1. "AFR" \in Register
  BY DEF Register
<1>2. made \in [Pin -> [Register -> Field]]
  BY DEF PortInv, GpioTypeOK
<1>3. p \in Rewriter /\ Enter(p, list) /\ made' = [made EXCEPT ![p] = want]
  BY <1>2 DEF vk_gpio_set_af, Rewriter
<1>4. /\ want \in [Register -> Field] /\ want["AFR"] = af
      /\ \A r \in Register : r # "AFR" => want[r] = made[p][r]
  BY <1>1, <1>2
<1> HIDE DEF want
<1>5. /\ list \in Seq(Change) /\ Filling(list, want) /\ Whole(list)
      /\ \A q : Pending(list, q) <=> q = "AFR"
  BY <1>1, <1>4, FirstFill
<1>6. \A r \in Register : Pending(list, r) \/ want[r] = made[p][r]
  BY <1>4, <1>5
<1> HIDE DEF list
<1>7. Asks(p, list, want)
  BY <1>3, <1>5, <1>6 DEF Asks
<1> QED
  BY <1>4, <1>5, <1>7, AsksInv

LEMMA ToggleInv ==
  ASSUME NEW h \in Pin, Sheltered(h), PortInv(h), NEW p \in Pin, vk_gpio_toggle(p)
  PROVE  PortInv(h)'
<1> DEFINE list == <<[reg |-> "ODR", op |-> "flip", bits |-> {}]>>
           want == [made[p] EXCEPT !["ODR"] = Flipped(@)]
<1>1. made \in [Pin -> [Register -> Field]] /\ "ODR" \in Register
  BY DEF PortInv, GpioTypeOK, Register
<1>2. p \in Rewriter /\ Enter(p, list) /\ made' = [made EXCEPT ![p] = want]
  BY <1>1 DEF vk_gpio_toggle, Rewriter
<1>3. \A field : Flipped(field) \in Field
  BY DEF Flipped, Field
<1>4. want \in [Register -> Field]
  BY <1>1, <1>3
<1>5. list \in Seq(Change)
  BY <1>1 DEF Change, Field
<1>6. Asks(p, list, want)
  BY <1>2 DEF Asks
<1> HIDE DEF list, want
<1> QED
  BY <1>4, <1>5, <1>6, AsksInv

(* A load takes p's pin as it is, whoever loads.                             *)
LEMMA LoadInv ==
  ASSUME NEW p \in Pin, PortInv(p), NEW q \in Pin, Load(q)
  PROVE  PortInv(p)'
<1>1. /\ rewrites[q] # <<>>
      /\ loaded' = [loaded EXCEPT ![q] = port[Head(rewrites[q]).reg]]
      /\ UNCHANGED <<port, rewrites, made>>
  BY DEF Load
<1>2. Head(rewrites[q]) \in Change
  BY <1>1, HeadTailProperties DEF PortInv, GpioTypeOK
<1>3. port[Head(rewrites[q]).reg] \in [Pin -> Field]
  BY <1>2 DEF PortInv, GpioTypeOK, Change
<1>4. GpioTypeOK'
  BY <1>1, <1>3 DEF PortInv, GpioTypeOK
<1>5. /\ loaded'[q] = port[Head(rewrites[q]).reg]
      /\ \A s \in Pin \ {q} : loaded'[s] = loaded[s]
  BY <1>1 DEF PortInv, GpioTypeOK
<1>6. Remaining(p)'
  BY <1>1 DEF PortInv, Remaining
<1> QED
  BY <1>1, <1>4, <1>5, <1>6 DEF PortInv

(* One rewrite less, and its field is as the first of the rest needs it, or  *)
(* as it was asked for.                                                      *)
LEMMA RestFilling ==
  ASSUME NEW list \in Seq(Change), list # <<>>, NEW want, Filling(list, want)
  PROVE  LET first == Head(list)
             rest == Tail(list)
         IN  /\ rest \in Seq(Change) /\ Filling(rest, want)
             /\ \A r : Pending(list, r) <=> Pending(rest, r) \/ r = first.reg
             /\ first.op = "clear" => /\ rest # <<>> /\ Head(rest).op = "or"
                                      /\ Head(rest).reg = first.reg
             /\ first.op = "or" => /\ first.bits = want[first.reg]
                                   /\ ~Pending(rest, first.reg)
                                   /\ rest # <<>> => Head(rest).op = "clear"
             /\ first.op \in {"clear", "or"}
<1> DEFINE rest == Tail(list)
           size == Len(rest)
<1>1. /\ rest \in Seq(Change) /\ Len(list) = size + 1 /\ size \in Nat
      /\ \A i \in 1 .. size : rest[i] = list[i + 1]
  BY HeadTailProperties, LenProperties
<1>2. Head(list) = list[1]
  OBVIOUS
<1>3. rest # <<>> => Head(rest) = rest[1] /\ size > 0
  BY <1>1, EmptySeq
<1> HIDE DEF rest, size
<1>4. size > 0 => rest # <<>>
  BY DEF size
<1>5. /\ \A i \in 1 .. size + 1 :
           /\ list[i].op \in {"clear", "or"}
           /\ list[i].op = "clear" => /\ i < size + 1
                                      /\ list[i + 1].op = "or"
                                      /\ list[i + 1].reg = list[i].reg
           /\ list[i].op = "or" => list[i].bits = want[list[i].reg]
           /\ list[i].op = "or" /\ i > 1 => list[i - 1].op = "clear"
      /\ \A i, j \in 1 .. size + 1 :
           i < j /\ list[i].reg = list[j].reg => list[i].op = "clear" /\ j = i + 1
  BY <1>1 DEF Filling
<1>6. \A i \in 1 .. size : i + 1 \in 1 .. size + 1 /\ i + 1 > 1
  BY <1>1
<1>7. ASSUME NEW i \in 1 .. size
      PROVE  /\ rest[i].op \in {"clear", "or"}
             /\ rest[i].op = "clear" => /\ i < size
                                        /\ rest[i + 1].op = "or"
                                        /\ rest[i + 1].reg = rest[i].reg
             /\ rest[i].op = "or" => rest[i].bits = want[rest[i].reg]
             /\ rest[i].op = "or" /\ i > 1 => rest[i - 1].op = "clear"
  <2>1. rest[i] = list[i + 1]
    BY <1>1
  <2>2. i < size => rest[i + 1] = list[i + 1 + 1]
    <3>1. i < size => i + 1 \in 1 .. size
      BY <1>1
    <3> QED
      BY <1>1, <3>1
  <2>3. i > 1 => rest[i - 1] = list[(i + 1) - 1]
    <3>1. i > 1 => i - 1 \in 1 .. size /\ (i - 1) + 1 = (i + 1) - 1
      BY <1>1
    <3> QED
      BY <1>1, <3>1
  <2>4. i + 1 < size + 1 => i < size
    BY <1>1
  <2> QED
    BY <1>5, <1>6, <2>1, <2>2, <2>3, <2>4
<1>8. ASSUME NEW i \in 1 .. size, NEW j \in 1 .. size, i < j, rest[i].reg = rest[j].reg
      PROVE  rest[i].op = "clear" /\ j = i + 1
  <2>1. i + 1 < j + 1 /\ list[i + 1].reg = list[j + 1].reg
    BY <1>1, <1>8
  <2>2. list[i + 1].op = "clear" /\ j + 1 = i + 1 + 1
    BY <1>5, <1>6, <2>1
  <2> QED
    BY <1>1, <2>2
<1>9. Filling(rest, want)
  BY <1>7, <1>8 DEF Filling, size
<1>10. \A r : Pending(list, r) <=> Pending(rest, r) \/ r = list[1].reg
  <2>1. \A i \in 1 .. size + 1 : i = 1 \/ \E j \in 1 .. size : i = j + 1
    <3> TAKE i \in 1 .. size + 1
    <3>1. i = 1 \/ (i - 1 \in 1 .. size /\ i = (i - 1) + 1)
      BY <1>1
    <3> QED
      BY <3>1
  <2>2. 1 \in 1 .. size + 1
    BY <1>1
  <2> TAKE r
  <2>3. Pending(list, r) <=> \E i \in 1 .. size + 1 : list[i].reg = r
    BY <1>1 DEF Pending
  <2>4. Pending(rest, r) <=> \E i \in 1 .. size : list[i + 1].reg = r
    BY <1>1 DEF Pending, size
  <2>5. ASSUME NEW i \in 1 .. size + 1, list[i].reg = r
        PROVE  r = list[1].reg \/ \E j \in 1 .. size : list[j + 1].reg = r
    BY <2>1, <2>5
  <2>6. (\E j \in 1 .. size : list[j + 1].reg = r) => \E i \in 1 .. size + 1 : list[i].reg = r
    BY <1>6
  <2> QED
    BY <2>2, <2>3, <2>4, <2>5, <2>6
<1>11. 1 \in 1 .. size + 1 /\ (size > 0 => 1 \in 1 .. size /\ rest[1] = list[1 + 1])
  BY <1>1
<1>12. list[1].op = "clear" => /\ rest # <<>> /\ Head(rest).op = "or"
                              /\ Head(rest).reg = list[1].reg
  <2>1. 1 < size + 1 => size > 0
    BY <1>1
  <2> QED
    BY <1>3, <1>4, <1>5, <1>11, <2>1
<1>13. ASSUME list[1].op = "or"
       PROVE  /\ list[1].bits = want[list[1].reg]
              /\ ~Pending(rest, list[1].reg)
              /\ rest # <<>> => Head(rest).op = "clear"
  <2>1. \A i \in 1 .. size : rest[i].reg # list[1].reg
    <3> TAKE i \in 1 .. size
    <3>1. 1 < i + 1
      BY <1>1
    <3> QED
      BY <1>1, <1>5, <1>6, <1>11, <1>13, <3>1
  <2>2. rest # <<>> => Head(rest).op = "clear"
    <3>1. (1 + 1) - 1 = 1 /\ 1 + 1 > 1
      OBVIOUS
    <3>2. size > 0 => 1 + 1 \in 1 .. size + 1
      BY <1>1
    <3> QED
      BY <1>3, <1>5, <1>11, <1>13, <3>1, <3>2
  <2> QED
    BY <1>5, <1>11, <1>13, <2>1, <2>2 DEF Pending, size
<1> QED
  BY <1>1, <1>2, <1>5, <1>9, <1>10, <1>11, <1>12, <1>13 DEF rest

(* Another's store puts p's pin back as it is.                               *)
LEMMA OtherStoreInv ==
  ASSUME NEW p \in Pin, PortInv(p), NEW q \in Pin \ {p}, Store(q)
  PROVE  PortInv(p)'
<1> DEFINE first == Head(rewrites[q])
           field == Modified(loaded[q][q], first)
<1>1. /\ loaded[q] # <<>> /\ rewrites[q] # <<>>
      /\ loaded[q][p] = port[first.reg][p]
      /\ loaded[q] \in [Pin -> Field] /\ q \in Pin
  BY DEF Store, PortInv, GpioTypeOK
<1>2. first \in Change /\ Tail(rewrites[q]) \in Seq(Change)
  BY <1>1, HeadTailProperties DEF PortInv, GpioTypeOK
<1>3. /\ port' = [port EXCEPT ![first.reg] = [loaded[q] EXCEPT ![q] = field]]
      /\ rewrites' = [rewrites EXCEPT ![q] = Tail(rewrites[q])]
      /\ loaded' = [loaded EXCEPT ![q] = <<>>]
      /\ made' = made
  BY DEF Store
<1>4. field \in Field /\ first.reg \in Register
  <2>1. first.op \in {"clear", "or", "flip"} /\ first.bits \in Field
    BY <1>2 DEF Change
  <2>2. loaded[q][q] \in Field
    BY <1>1
  <2> HIDE DEF first
  <2>3. field \in Field
    BY <2>1, <2>2 DEF Modified, Field, Flipped
  <2> QED
    BY <1>2, <2>3 DEF Change
<1> HIDE DEF field, first
<1>5. GpioTypeOK'
  BY <1>1, <1>2, <1>3, <1>4 DEF PortInv, GpioTypeOK
<1>6. /\ \A r \in Register : port'[r][p] = port[r][p]
      /\ loaded'[q] = <<>>
      /\ \A s \in Pin \ {q} : rewrites'[s] = rewrites[s] /\ loaded'[s] = loaded[s]
  BY <1>1, <1>3, <1>4 DEF PortInv, GpioTypeOK
<1>7. \A s \in Pin \ {p} : rewrites'[s] # <<>> => s \in Rewriter
  BY <1>1, <1>6 DEF PortInv
<1>8. ASSUME NEW s \in Pin, loaded'[s] # <<>>
      PROVE  /\ rewrites'[s] # <<>>
             /\ loaded'[s][p] = port'[Head(rewrites'[s]).reg][p]
  <2>1. s # q /\ loaded[s] # <<>> /\ loaded'[s] = loaded[s] /\ rewrites'[s] = rewrites[s]
    BY <1>6, <1>8
  <2>2. Head(rewrites[s]) \in Change
    BY <2>1, HeadTailProperties DEF PortInv, GpioTypeOK
  <2> QED
    BY <1>6, <2>1, <2>2 DEF PortInv, Change
<1>9. Remaining(p)'
  BY <1>3, <1>6, RemainingKept
<1> QED
  BY <1>5, <1>7, <1>8, <1>9 DEF PortInv

(* Its own brings it one rewrite nearer to what it asked for.                *)
LEMMA OwnStoreInv ==
  ASSUME NEW h \in Pin, Sheltered(h), PortInv(h), Store(h)
  PROVE  PortInv(h)'
<1> DEFINE list == rewrites[h]
           first == Head(list)
           rest == Tail(list)
           was == port[first.reg][h]
           field == Modified(was, first)
<1>1. /\ list # <<>> /\ loaded[h] \in [Pin -> Field] /\ loaded[h][h] = was
      /\ \A q \in Pin \ {h} : rewrites[q] = <<>> /\ loaded[q] = <<>>
  BY OthersQuiet DEF Store, PortInv, GpioTypeOK
<1>2. list \in Seq(Change) /\ first \in Change /\ rest \in Seq(Change)
  BY <1>1, HeadTailProperties DEF PortInv, GpioTypeOK
<1>3. /\ port' = [port EXCEPT ![first.reg] = [loaded[h] EXCEPT ![h] = field]]
      /\ rewrites' = [rewrites EXCEPT ![h] = rest]
      /\ loaded' = [loaded EXCEPT ![h] = <<>>]
      /\ made' = made
  BY <1>1 DEF Store
<1>4. was \in Field /\ first.reg \in Register /\ first.bits \in Field
  BY <1>1, <1>2 DEF PortInv, GpioTypeOK, Change
<1>5. /\ first.op = "clear" => field = {}
      /\ first.op = "or" => field = was \cup first.bits
      /\ first.op = "flip" => field = Flipped(was)
      /\ field \in Field
  <2>1. /\ first.op = "clear" => field = {}
        /\ first.op = "or" => field = was \cup first.bits
        /\ first.op = "flip" => field = Flipped(was)
    BY DEF Modified
  <2>2. first.op \in {"clear", "or", "flip"}
    BY <1>2 DEF Change
  <2> QED
    BY <1>4, <2>1, <2>2 DEF Field, Flipped
<1> HIDE DEF field, first, rest, list
<1>6. GpioTypeOK'
  BY <1>1, <1>2, <1>3, <1>4, <1>5 DEF PortInv, GpioTypeOK
<1>7. /\ rewrites'[h] = rest /\ loaded'[h] = <<>>
      /\ \A q \in Pin \ {h} : rewrites'[q] = rewrites[q] /\ loaded'[q] = loaded[q]
      /\ port'[first.reg][h] = field
      /\ \A r \in Register \ {first.reg} : port'[r][h] = port[r][h]
  BY <1>1, <1>3, <1>4 DEF PortInv, GpioTypeOK
<1>8. Remaining(h)'
  <2>1. CASE /\ Filling(list, made[h])
             /\ first.op = "or" => was = {}
             /\ \A r \in Register : ~Pending(list, r) => port[r][h] = made[h][r]
    <3>1. /\ Filling(rest, made[h])
          /\ \A r : Pending(list, r) <=> Pending(rest, r) \/ r = first.reg
          /\ first.op = "clear" => /\ rest # <<>> /\ Head(rest).op = "or"
                                   /\ Head(rest).reg = first.reg
          /\ first.op = "or" => /\ first.bits = made[h][first.reg]
                                /\ ~Pending(rest, first.reg)
                                /\ rest # <<>> => Head(rest).op = "clear"
          /\ first.op \in {"clear", "or"}
      BY <1>1, <1>2, <2>1, RestFilling DEF first, rest
    <3>2. CASE first.op = "clear"
      <4>1. port'[Head(rest).reg][h] = {}
        BY <1>5, <1>7, <3>1, <3>2
      <4>2. ASSUME NEW r \in Register, ~Pending(rest, r) PROVE port'[r][h] = made'[h][r]
        <5>1. r # first.reg
          <6>1. rest # <<>> /\ Head(rest).reg = first.reg
            BY <3>1, <3>2
          <6>2. 1 \in 1 .. Len(rest) /\ rest[1].reg = first.reg
            BY <1>2, <6>1, LenProperties, EmptySeq
          <6> QED
            BY <4>2, <6>2 DEF Pending
        <5> QED
          BY <1>3, <1>7, <2>1, <3>1, <4>2, <5>1
      <4> QED
        BY <1>3, <1>7, <3>1, <4>1, <4>2 DEF Remaining
    <3>3. CASE first.op = "or"
      <4>1. field = made[h][first.reg]
        BY <1>5, <2>1, <3>1, <3>3
      <4>2. ASSUME NEW r \in Register, ~Pending(rest, r) PROVE port'[r][h] = made'[h][r]
        BY <1>3, <1>7, <2>1, <3>1, <4>1, <4>2
      <4>3. rest # <<>> => Head(rest).op # "or"
        BY <3>1, <3>3
      <4> QED
        BY <1>3, <1>7, <3>1, <4>2, <4>3 DEF Remaining
    <3> QED
      BY <3>1, <3>2, <3>3
  <2>2. CASE /\ list = <<[reg |-> "ODR", op |-> "flip", bits |-> {}]>>
             /\ made[h]["ODR"] = Flipped(port["ODR"][h])
             /\ \A r \in Register \ {"ODR"} : port[r][h] = made[h][r]
    <3>1. first.reg = "ODR" /\ first.op = "flip" /\ rest = <<>>
      BY <2>2 DEF first, rest
    <3>2. \A r \in Register : port'[r][h] = made'[h][r]
      BY <1>3, <1>5, <1>7, <2>2, <3>1
    <3>3. Filling(rest, made'[h])
      BY <3>1 DEF Filling
    <3> QED
      BY <1>7, <3>1, <3>2, <3>3 DEF Remaining
  <2> QED
    BY <1>1, <2>1, <2>2 DEF PortInv, Remaining, list, first
<1> QED
  BY <1>1, <1>6, <1>7, <1>8 DEF PortInv

LEMMA PortStep ==
  ASSUME NEW h \in Pin, Sheltered(h), PortInv(h), [GpioNext]_gpioVars
  PROVE  PortInv(h)'
<1>1. ASSUME NEW p \in Pin, vk_gpio_set(p) \/ vk_gpio_clear(p) PROVE PortInv(h)'
  BY <1>1, BsrrInv
<1>2. ASSUME NEW p \in Pin, vk_gpio_toggle(p) PROVE PortInv(h)'
  BY <1>2, ToggleInv
<1>3. /\ {} \in Field /\ {0} \in Field /\ {1} \in Field /\ {0, 1} \in Field
      /\ {0, 2} \in Field /\ Pull \subseteq Field
  BY GpioAssumption DEF Field
<1>4. ASSUME NEW p \in Pin, NEW speed \in Speed, vk_gpio_output(p, speed)
      PROVE  PortInv(h)'
  <2>1. speed \in Field
    BY GpioAssumption DEF Field
  <2> QED
    BY <1>3, <1>4, <2>1, ConfigInv DEF vk_gpio_output
<1>5. ASSUME NEW p \in Pin, NEW pull \in Pull, vk_gpio_input(p, pull)
      PROVE  PortInv(h)'
  BY <1>3, <1>5, ConfigInv DEF vk_gpio_input
<1>6. ASSUME NEW p \in Pin, NEW pull \in Pull, SpiPin(p, pull) PROVE PortInv(h)'
  BY <1>3, <1>6, ConfigInv, SetAfInv DEF SpiPin
<1>7. ASSUME NEW p \in Pin, Load(p) \/ Store(p) PROVE PortInv(h)'
  <2>1. CASE Load(p)
    BY <2>1, LoadInv
  <2>2. CASE Store(p) /\ p = h
    BY <2>2, OwnStoreInv
  <2>3. CASE Store(p) /\ p # h
    BY <2>3, OtherStoreInv
  <2> QED
    BY <1>7, <2>1, <2>2, <2>3
<1>8. CASE UNCHANGED gpioVars
  BY <1>8 DEF gpioVars, PortInv, GpioTypeOK, Remaining
<1> QED
  BY <1>1, <1>2, <1>4, <1>5, <1>6, <1>7, <1>8
     DEF GpioNext, vk_spi_cs_assert, vk_spi_cs_release

(* Priorities do not change.                                                 *)
LEMMA LevelKept == [GpioNext]_gpioVars => level' = level
BY DEF GpioNext, gpioVars, vk_gpio_set, vk_gpio_clear, vk_spi_cs_assert,
       vk_spi_cs_release, vk_gpio_toggle, vk_gpio_output, vk_gpio_input, SpiPin,
       vk_gpio_config, vk_gpio_set_af, Enter, Load, Store

(* For any tasks and handlers, any priorities and any users of each call: the *)
(* pin of a caller that interrupts no other rewriter of the port is as it     *)
(* last asked for whenever it is in no call.  Stores to BSRR, by whomever,    *)
(* lose nothing, and the calls leave the fields of such a pin right.          *)
THEOREM PinsStay == GpioSpec => []PinsKept
<1> DEFINE PortsInv == \A p \in Pin : Sheltered(p) => PortInv(p)
<1>1. GpioInit => PortsInv
  BY InitPorts
<1>2. PortsInv /\ [GpioNext]_gpioVars => PortsInv'
  <2> SUFFICES ASSUME PortsInv, [GpioNext]_gpioVars, NEW p \in Pin, Sheltered(p)'
               PROVE  PortInv(p)'
    OBVIOUS
  <2>1. Sheltered(p)
    BY LevelKept DEF Sheltered, Preempts
  <2> QED
    BY <2>1, PortStep
<1>3. PortsInv => PinsKept
  <2> SUFFICES ASSUME PortsInv, NEW p \in Pin, Sheltered(p), rewrites[p] = <<>>
               PROVE  \A r \in Register : port[r][p] = made[p][r]
    BY DEF PinsKept, AsLeft, Sheltered
  <2> QED
    BY BetweenCalls
<1> QED
  BY <1>1, <1>2, <1>3, PTL DEF GpioSpec

===============================================================================
