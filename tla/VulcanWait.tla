------------------------------ MODULE VulcanWait ------------------------------
(***************************************************************************)
(* The two kinds of timed wait: vk_dma_wait, hal/vulcan_dma.c, which polls *)
(* a channel's busy until a deadline in ticks, and vk_delay_us,            *)
(* hal/vulcan_clock.c, which spins on the cycle counter.  One task starts  *)
(* the channel, waits for it, stops it or starts it anew after a timeout,  *)
(* and delays; it is preempted between any two of its reads.               *)
(***************************************************************************)
EXTENDS VulcanDma

CONSTANTS
  wait_ch,      \* the channel
  Timeout,      \* the timeouts given to vk_dma_wait
  TickMod,      \* 2^32, the range of the tick count
  Patience,     \* bound: the ticks from one look of vk_dma_wait to the next
  Delay,        \* the arguments of vk_delay_us
  PerMicro,     \* SystemCoreClock / 1000000
  CycleMod      \* 2^32, the range of CYCCNT

ASSUME WaitAssumption ==
  /\ wait_ch \in Channel
  /\ TickMod \in Nat \ {0} /\ Patience \in Nat \ {0}
  /\ Timeout \subseteq 0 .. TickMod - 1
  /\ PerMicro \in Nat \ {0}
  /\ CycleMod \in Nat \ {0}
  /\ Delay \subseteq Nat

VARIABLES
  vk_ticks,   \* what vk_tick_get returns
  deadline,
  cyccnt,     \* DWT_CYCCNT, during a delay
  start, ticks,   \* the variables of vk_delay_us
  waits,      \* "no", or where the task is: "busy" or "tick", or "delay"
  asked,      \* history: the argument of the last call,
  elapsed,    \* the ticks since that of vk_dma_wait, asked at most,
  away,       \* those since it looked at the clock,
  spent       \* and the cycles since the call of vk_delay_us, CycleMod at most

clockVars == <<vk_ticks, cyccnt>>
waitVars == <<deadline, start, ticks, waits, asked, elapsed, away, spent>>

WaitReset ==
  /\ vk_ticks = 0
  /\ deadline = 0
  /\ cyccnt = 0
  /\ start = 0
  /\ ticks = 0
  /\ waits = "no"
  /\ asked = 0
  /\ elapsed = 0
  /\ away = 0
  /\ spent = 0

WaitInit ==
  /\ Init
  /\ cfg[wait_ch] = {"complete", "error"}
  /\ WaitReset

TaskAt(place) == handler = NULL /\ call[wait_ch] = "none" /\ waits = place

(* The variables of the call are gone. *)
Return ==
  /\ waits' = "no"
  /\ deadline' = 0 /\ start' = 0 /\ ticks' = 0
  /\ asked' = 0 /\ elapsed' = 0 /\ away' = 0 /\ spent' = 0
  /\ cyccnt' = 0
  /\ UNCHANGED <<dmaVars, vk_ticks>>

-------------------------------------------------------------------------------
\* vk_dma_wait.

vk_dma_wait(timeout_ms) ==
  /\ TaskAt("no")
  /\ deadline' = (vk_ticks + timeout_ms) % TickMod
  /\ waits' = "busy"
  /\ asked' = timeout_ms
  /\ elapsed' = 0
  /\ away' = 0
  /\ UNCHANGED <<dmaVars, clockVars, start, ticks, spent>>

(* It returns VK_OK. *)
SeeFree ==
  /\ TaskAt("busy") /\ busy[wait_ch] = 0
  /\ Return

(* A mutation: the loop does not come to look at the deadline. *)
SeeBusy_forever ==
  /\ TaskAt("busy") /\ busy[wait_ch] = 1
  /\ UNCHANGED <<dmaVars, clockVars, waitVars>>

SeeBusy ==
  /\ TaskAt("busy") /\ busy[wait_ch] = 1
  /\ waits' = "tick"
  /\ UNCHANGED <<dmaVars, clockVars, deadline, start, ticks, asked, elapsed, away, spent>>

(* VK_ERR_TIMEOUT, whatever has become of the channel since. *)
TimeOut ==
  /\ TaskAt("tick") /\ vk_ticks >= deadline
  /\ Return

(* The task yields, and comes back to the head of the loop. *)
WaitOn ==
  /\ TaskAt("tick") /\ vk_ticks < deadline
  /\ waits' = "busy"
  /\ away' = 0
  /\ UNCHANGED <<dmaVars, clockVars, deadline, start, ticks, asked, elapsed, spent>>

-------------------------------------------------------------------------------
\* vk_delay_us.

(* The counter stands anywhere. *)
vk_delay_us(us) ==
  /\ TaskAt("no")
  /\ cyccnt' \in 0 .. CycleMod - 1
  /\ start' = cyccnt'
  /\ ticks' = (us * PerMicro) % CycleMod
  /\ waits' = "delay"
  /\ asked' = us
  /\ spent' = 0
  /\ UNCHANGED <<dmaVars, vk_ticks, deadline, elapsed, away>>

(* A mutation: the counts are compared as vk_dma_wait compares ticks. *)
DelayOver_compared ==
  /\ TaskAt("delay")
  /\ cyccnt >= (start + ticks) % CycleMod
  /\ Return

DelayOver ==
  /\ TaskAt("delay")
  /\ (cyccnt - start) % CycleMod >= ticks
  /\ Return

-------------------------------------------------------------------------------

Polls == waits \in {"busy", "tick"}

(* SysTick.  A waiting task is preempted for Patience ticks at most. *)
Tick ==
  /\ Polls => away < Patience
  /\ vk_ticks' = (vk_ticks + 1) % TickMod
  /\ elapsed' = IF Polls /\ elapsed < asked THEN elapsed + 1 ELSE elapsed
  /\ away' = IF Polls THEN away + 1 ELSE away
  /\ UNCHANGED <<dmaVars, cyccnt, deadline, start, ticks, waits, asked, spent>>

(* Cycles matter while a delay counts them. *)
Cycle ==
  /\ waits = "delay"
  /\ cyccnt' = (cyccnt + 1) % CycleMod
  /\ spent' = IF spent < CycleMod THEN spent + 1 ELSE spent
  /\ UNCHANGED <<dmaVars, vk_ticks, deadline, start, ticks, waits, asked, elapsed, away>>

(* Before it waits, after VK_OK or after a timeout, the task uses the       *)
(* channel as it likes.                                                     *)
WaitTask ==
  \/ waits = "no" /\ Client(wait_ch) /\ UNCHANGED <<clockVars, waitVars>>
  \/ \E timeout_ms \in Timeout : vk_dma_wait(timeout_ms)
  \/ \E us \in Delay : vk_delay_us(us)

WaitLoop == SeeFree \/ SeeBusy \/ TimeOut \/ WaitOn \/ DelayOver

(* The stream may also stall for ever: nothing is asked of Move and Fail.   *)
WaitNext ==
  \/ WaitTask
  \/ WaitLoop
  \/ (Move(wait_ch) \/ Fail(wait_ch) \/ Handler(wait_ch))
       /\ UNCHANGED <<clockVars, waitVars>>
  \/ Tick \/ Cycle

WaitSpec == WaitInit /\ [][WaitNext]_<<dmaVars, clockVars, waitVars>>

-------------------------------------------------------------------------------

(* The count of ticks does not wrap from the call to the deadline. *)
Unwrapped == deadline >= asked

(* Neither wait gives up early: VK_ERR_TIMEOUT comes when timeout_ms ticks  *)
(* have passed, if the deadline did not wrap, and vk_delay_us takes the     *)
(* cycles of its microseconds, wherever CYCCNT wraps, if their number fits. *)
NeverEarly ==
  [][/\ TimeOut /\ Unwrapped => elapsed >= asked
     /\ waits = "delay" /\ waits' = "no" /\ asked * PerMicro < CycleMod
          => spent >= asked * PerMicro]_<<dmaVars, clockVars, waitVars>>

(* Every delay ends.  A wait for the channel ends if the stream does, by    *)
(* completion or error; and if it stalls, with busy up for ever, when the   *)
(* task is sure to look at the clock between the deadline and the wrap,     *)
(* wherever the count has wrapped before.                                   *)
WaitEnds ==
  /\ waits = "delay" ~> waits = "no"
  /\ Polls ~> waits = "no" \/ en[wait_ch]
  /\ Polls /\ deadline + Patience <= TickMod ~> waits = "no"

===============================================================================
