------------------------------ MODULE MCDevices -------------------------------
(***************************************************************************)
(* The DMA driver and its users, for TLC.  They meet only in that driver,  *)
(* whose channels they do not share, so that a behaviour uses one: two     *)
(* channels with clients of their own, the SPI, the ADC with the demo, or  *)
(* the timed waits.                                                        *)
(***************************************************************************)
EXTENDS VulcanSpi, VulcanDemo, VulcanWait

VARIABLE user

spiOwn == <<taskVars, spiVars>>
demoOwn == <<adcVars, batchVars, inferVars, news>>
waitOwn == <<clockVars, waitVars>>

devices == <<user, dmaVars, spiOwn, demoOwn, waitOwn>>

CONSTANT other    \* the second channel

(* A client's own channel has callbacks or none, or is circular with all.   *)
FreeConfig == {{}, {"complete", "error"}, {"complete", "half", "error", "circular"}}

DevicesInit ==
  /\ SpiReset /\ AdcReset /\ DemoReset /\ WaitReset
  /\ \/ user = "clients" /\ Init /\ cfg[adc_dma] \in FreeConfig /\ cfg[other] = {"complete", "error"}
     \/ user = "spi" /\ SpiInit /\ cfg[rx] = {"complete", "error"} /\ cfg[tx] = {}
     \/ user = "demo" /\ DemoInit /\ cfg[other] = {}
     \/ user = "wait" /\ WaitInit /\ cfg[other] = {}

(* What a user of the DMA driver leaves alone. *)
OthersOf(who) ==
  /\ UNCHANGED user
  /\ who # "spi"  => UNCHANGED spiOwn
  /\ who # "demo" => UNCHANGED demoOwn
  /\ who # "wait" => UNCHANGED waitOwn

Uses(who, step) == user = who /\ step /\ OthersOf(who)

DevicesNext ==
  \/ Uses("clients", Next)
  \/ Uses("spi", SpiNext)
  \/ Uses("demo", DemoNext)
  \/ Uses("wait", WaitNext)

-------------------------------------------------------------------------------
\* Fairness: interrupts are taken and their handlers end, and they leave the
\* tasks time to go on with their calls.

Enters(c) ==
  \/ Uses("clients", ReadFlags(c))
  \/ Uses("spi", ReadFlags(c) /\ Handle(c))
  \/ c = adc_dma /\ Uses("demo", HandlerEnters /\ UNCHANGED <<batchVars, inferVars, news>>)
  \/ c = wait_ch /\ Uses("wait", ReadFlags(c) /\ UNCHANGED <<clockVars, waitVars>>)

Leaves(c) ==
  \/ Uses("clients", ClearFlags(c))
  \/ Uses("spi", ClearFlags(c) /\ Handle(c))
  \/ c = adc_dma /\ Uses("demo", HandlerEnds /\ on_adc_batch /\ UNCHANGED inferVars)
  \/ c = wait_ch /\ Uses("wait", ClearFlags(c) /\ UNCHANGED <<clockVars, waitVars>>)

(* The steps of a call, or of a task's loop, after the first. *)
Continues(c) ==
  \/ Uses("clients", StartEnable(c) \/ StopClear(c))
  \/ c = tx /\ Uses("spi", SpiProceed)
  \/ c = adc_dma /\ Uses("demo", Proceed /\ UNCHANGED <<batchVars, inferVars, news>>)
  \/ c = other /\ Uses("demo", task_infer)
  \/ c = wait_ch /\ Uses("wait", WaitLoop)
  \/ c = other /\ Uses("wait", /\ StartEnable(wait_ch) \/ StopClear(wait_ch)
                            /\ UNCHANGED <<clockVars, waitVars>>)

(* What the hardware does by itself. *)
Hardware ==
  \/ Uses("demo", /\ GetsReady \/ Convert \/ Sample
                  /\ UNCHANGED <<batchVars, inferVars, news>>)
  \/ Uses("spi", Exchange \/ MoveTx \/ MoveRx)
  \/ Uses("wait", Tick)

CycleCounter == Uses("wait", Cycle)

DevicesSpec ==
  /\ DevicesInit
  /\ [][DevicesNext]_devices
  /\ WF_devices(Hardware) /\ WF_devices(CycleCounter)
  /\ \A c \in Channel : SF_devices(Enters(c)) /\ WF_devices(Leaves(c)) /\ SF_devices(Continues(c))

===============================================================================
