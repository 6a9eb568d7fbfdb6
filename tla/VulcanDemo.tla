------------------------------ MODULE VulcanDemo -------------------------------
(***************************************************************************)
(* The path of a batch through the demo, main.c: on_adc_batch, called in   *)
(* the DMA handler, leaves the batch in two variables, and task_infer      *)
(* takes it out with three accesses that the handler can come between.     *)
(* The task that samples may also stop and start again.                    *)
(***************************************************************************)
EXTENDS VulcanAdc

VARIABLES
  adc_batch_ptr,   \* the half of the buffer it points to, or NULL
  adc_batch_len,
  infer,           \* the place of task_infer in its loop
  batch, n,        \* its variables
  news             \* history: a batch has come since task_infer took the last

batchVars == <<adc_batch_ptr, adc_batch_len>>
inferVars == <<infer, batch, n>>
demoVars == <<dmaVars, adcVars, batchVars, inferVars, news>>

DemoReset ==
  /\ adc_batch_ptr = NULL
  /\ adc_batch_len = 0
  /\ infer = "wait"
  /\ batch = NULL
  /\ n = 0
  /\ news = FALSE

DemoInit == AdcInit /\ DemoReset

(* Called by the handler for each half it hands over, the second last. *)
on_adc_batch ==
  IF Handed = {}
  THEN UNCHANGED <<batchVars, news>>
  ELSE /\ adc_batch_ptr' = IF "second" \in Handed THEN "second" ELSE "first"
       /\ adc_batch_len' = Half
       /\ news' = TRUE

-------------------------------------------------------------------------------
\* task_infer.

(* while (!adc_batch_len) vk_task_yield(); *)
SeeBatch ==
  /\ infer = "wait" /\ handler = NULL
  /\ adc_batch_len # 0
  /\ infer' = "pointer"
  /\ UNCHANGED <<dmaVars, adcVars, batchVars, batch, n, news>>

TakePointer ==
  /\ infer = "pointer" /\ handler = NULL
  /\ batch' = adc_batch_ptr
  /\ news' = FALSE
  /\ infer' = "length"
  /\ UNCHANGED <<dmaVars, adcVars, batchVars, n>>

TakeLength ==
  /\ infer = "length" /\ handler = NULL
  /\ n' = adc_batch_len
  /\ infer' = "clear"
  /\ UNCHANGED <<dmaVars, adcVars, batchVars, batch, news>>

(* A mutation: the batch is not marked as taken. *)
ClearLength_not ==
  /\ infer = "clear" /\ handler = NULL
  /\ infer' = "compute"
  /\ UNCHANGED <<dmaVars, adcVars, batchVars, batch, n, news>>

ClearLength ==
  /\ infer = "clear" /\ handler = NULL
  /\ adc_batch_len' = 0
  /\ infer' = "compute"
  /\ UNCHANGED <<dmaVars, adcVars, adc_batch_ptr, batch, n, news>>

(* The tensor is allocated, computed and dropped. *)
Compute ==
  /\ infer = "compute" /\ handler = NULL
  /\ infer' = "wait"
  /\ UNCHANGED <<dmaVars, adcVars, batchVars, batch, n, news>>

task_infer == SeeBatch \/ TakePointer \/ TakeLength \/ ClearLength \/ Compute

-------------------------------------------------------------------------------

DemoNext ==
  \/ (AdcCall \/ Proceed \/ AdcHardware \/ HandlerEnters)
       /\ UNCHANGED <<batchVars, inferVars, news>>
  \/ HandlerEnds /\ on_adc_batch /\ UNCHANGED inferVars
  \/ task_infer

DemoSpec == DemoInit /\ [][DemoNext]_demoVars

(* The hardware and the handlers get on, and the handlers leave the tasks   *)
(* time; nobody has to start the sampling, or to stop it.                   *)
FairDemoSpec ==
  /\ DemoSpec
  /\ WF_demoVars(GetsReady /\ DemoNext)
  /\ WF_demoVars(Convert /\ DemoNext)
  /\ WF_demoVars(Sample /\ DemoNext)
  /\ SF_demoVars(HandlerEnters /\ DemoNext)
  /\ WF_demoVars(HandlerEnds /\ DemoNext)
  /\ SF_demoVars(Proceed /\ DemoNext)
  /\ SF_demoVars(task_infer)

-------------------------------------------------------------------------------

(* What batch_cb is given is fresh (vulcan_adc.h: "with a pointer to        *)
(* VK_ADC_BUF_LEN/2 fresh samples"): that half has been filled since it was *)
(* handed over last, and since the start.  Only while vk_adc_stop or        *)
(* vk_adc_start is under way may one be handed over that is not: disabling  *)
(* the stream raises TCIF.                                                  *)
BatchFresh ==
  [][cfgr = "circular" /\ HandlerEnds /\ call[adc_dma] = "none"
       => Handed \subseteq full]_demoVars

(* No batch is computed twice: whatever comes between the three accesses,   *)
(* task_infer takes a pointer only when there is a batch it has not taken,  *)
(* and a length with it.                                                    *)
BatchOnce ==
  [][/\ TakePointer => news
     /\ TakeLength => adc_batch_len = Half]_demoVars

(* Every call of the driver returns: vk_adc_init comes on even after        *)
(* vk_adc_read_blocking, for that leaves the ADC off.                       *)
AdcCallsReturn == inside # "none" ~> inside = "none"

(* While the ADC samples and the stream has no error, batches are computed. *)
Sampling == adstart /\ cfgr = "circular" /\ en[adc_dma]

BatchesComputed == Sampling ~> infer = "compute" \/ ~Sampling

(* "The half/full-complete DMA callbacks give the ML pipeline a fresh batch *)
(* of samples every half-buffer period" (vulcan_adc.h): the first half too. *)
FirstHalfComputed ==
  Sampling ~> (infer = "compute" /\ batch = "first") \/ ~Sampling

===============================================================================
