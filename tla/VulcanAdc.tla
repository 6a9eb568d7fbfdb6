------------------------------- MODULE VulcanAdc --------------------------------
(***************************************************************************)
(* The ADC driver, hal/vulcan_adc.c, over a circular channel of the DMA    *)
(* driver: one task initialises the ADC, starts and stops the sampling;    *)
(* the DMA handler hands the halves of the buffer to batch_cb as batches.  *)
(* Samples are counted and have no values.                                 *)
(***************************************************************************)
EXTENDS VulcanDma

CONSTANTS
  adc_dma,    \* the instance's dma_ch
  BufLen      \* VK_ADC_BUF_LEN

ASSUME AdcAssumption ==
  /\ adc_dma \in Channel
  /\ BufLen \in 1 .. CountMod - 1
  /\ BufLen % 2 = 0

Half == BufLen \div 2

VARIABLES
  aden,       \* the ADC is "off", "rising" after ADEN was set, or "on"
  adrdy,      \* ADRDY of its ISR: raised when it gets on, cleared by software
  eoc,        \* EOC
  adstart,    \* ADSTART of CR
  cfgr,       \* CFGR: "reset", "single" or "circular"
  inside,     \* the place of the task in a call of the driver
  full        \* history: the halves filled since they were handed over last

regVars == <<aden, adrdy, eoc, adstart, cfgr>>
adcVars == <<regVars, inside, full>>

AdcReset ==
  /\ aden = "off" /\ adrdy = FALSE /\ eoc = FALSE /\ adstart = FALSE
  /\ cfgr = "reset"
  /\ inside = "none"
  /\ full = {}

(* vk_adc_init gives its channel the half and complete callbacks, and no     *)
(* error callback.                                                           *)
AdcInit ==
  /\ Init
  /\ cfg[adc_dma] = {"circular", "half", "complete"}
  /\ AdcReset

Within(place) == handler = NULL /\ inside = place

(* ADRDY is cleared, with whatever else is up in ISR, and ADEN set; only an  *)
(* ADC that was off becomes ready.                                           *)
Enable ==
  /\ adrdy' = FALSE
  /\ eoc' = FALSE
  /\ aden' = IF aden = "off" THEN "rising" ELSE aden

-------------------------------------------------------------------------------
\* vk_adc_init, once, and vk_adc_read_blocking, "for calibration/startup": before.

vk_adc_init ==
  /\ Within("none") /\ cfgr # "circular"
  /\ cfgr' = "circular"
  /\ Enable
  /\ inside' = "init"
  /\ UNCHANGED <<dmaVars, adstart, full>>

InitReady ==
  /\ Within("init") /\ adrdy
  /\ inside' = "none"
  /\ UNCHANGED <<dmaVars, regVars, full>>

vk_adc_read_blocking ==
  /\ Within("none") /\ cfgr # "circular"
  /\ cfgr' = "single"
  /\ Enable
  /\ inside' = "read"
  /\ UNCHANGED <<dmaVars, adstart, full>>

ReadStart ==
  /\ Within("read") /\ adrdy
  /\ adstart' = TRUE
  /\ inside' = "convert"
  /\ UNCHANGED <<dmaVars, aden, adrdy, eoc, cfgr, full>>

(* A mutation: the ADC is left on. *)
ReadResult_on ==
  /\ Within("convert") /\ eoc
  /\ eoc' = FALSE
  /\ inside' = "none"
  /\ UNCHANGED <<dmaVars, aden, adrdy, adstart, cfgr, full>>

(* EOC, the reading of DR, which clears it, and ADDIS with its wait. *)
ReadResult ==
  /\ Within("convert") /\ eoc
  /\ eoc' = FALSE
  /\ aden' = "off"
  /\ inside' = "none"
  /\ UNCHANGED <<dmaVars, adrdy, adstart, cfgr, full>>

-------------------------------------------------------------------------------
\* vk_adc_start, when no sampling goes on, and vk_adc_stop.

vk_adc_start ==
  /\ Within("none") /\ cfgr = "circular" /\ ~adstart
  /\ vk_dma_start(adc_dma, BufLen)
  /\ inside' = "start"
  /\ UNCHANGED <<regVars, full>>

StartDma ==
  /\ Within("start")
  /\ StartEnable(adc_dma)
  /\ full' = {}
  /\ inside' = "kick"
  /\ UNCHANGED regVars

(* ADSTART takes effect only in an ADC that is on. *)
KickAdc ==
  /\ Within("kick")
  /\ adstart' = (aden = "on")
  /\ inside' = "none"
  /\ UNCHANGED <<dmaVars, aden, adrdy, eoc, cfgr, full>>

(* ADSTP, and the wait until it is through. *)
vk_adc_stop ==
  /\ Within("none") /\ cfgr = "circular" /\ adstart
  /\ adstart' = FALSE
  /\ inside' = "stop"
  /\ UNCHANGED <<dmaVars, aden, adrdy, eoc, cfgr, full>>

StopDma ==
  /\ Within("stop")
  /\ vk_dma_stop(adc_dma)
  /\ inside' = "stopped"
  /\ UNCHANGED <<regVars, full>>

StopEnd ==
  /\ Within("stopped")
  /\ StopClear(adc_dma)
  /\ inside' = "none"
  /\ UNCHANGED <<regVars, full>>

-------------------------------------------------------------------------------
\* The ADC, the stream and the handler.

GetsReady ==
  /\ aden = "rising"
  /\ aden' = "on" /\ adrdy' = TRUE
  /\ UNCHANGED <<dmaVars, eoc, adstart, cfgr, inside, full>>

(* The one conversion of vk_adc_read_blocking. *)
Convert ==
  /\ cfgr = "single" /\ adstart
  /\ adstart' = FALSE /\ eoc' = TRUE
  /\ UNCHANGED <<dmaVars, aden, adrdy, cfgr, inside, full>>

(* A conversion, whose result the stream takes to the buffer.  A handler of  *)
(* the channel is far quicker than half a buffer: none ends under it.        *)
Sample ==
  /\ cfgr = "circular" /\ adstart
  /\ handler = adc_dma => left[adc_dma] \notin {1, Half + 1}
  /\ Move(adc_dma)
  /\ full' = full \cup {half \in {"first", "second"} :
                        left[adc_dma] = IF half = "first" THEN Half + 1 ELSE 1}
  /\ UNCHANGED <<regVars, inside>>

StreamError == Fail(adc_dma) /\ UNCHANGED adcVars

HandlerEnters == ReadFlags(adc_dma) /\ UNCHANGED adcVars

(* _adc_dma_half and _adc_dma_full, called by the handler. *)
Handed ==
  {half \in {"first", "second"} :
     IF half = "first" THEN CallsHalf(adc_dma) ELSE CallsComplete(adc_dma)}

HandlerEnds ==
  /\ ClearFlags(adc_dma)
  /\ full' = full \ Handed
  /\ UNCHANGED <<regVars, inside>>

-------------------------------------------------------------------------------

(* The rest of a call that was begun. *)
Proceed ==
  \/ InitReady \/ ReadStart \/ ReadResult
  \/ StartDma \/ KickAdc
  \/ StopDma \/ StopEnd

AdcCall ==
  \/ vk_adc_init \/ vk_adc_read_blocking
  \/ vk_adc_start \/ vk_adc_stop

AdcHardware == GetsReady \/ Convert \/ Sample \/ StreamError

===============================================================================
