----------------------------- MODULE VulcanSleep -----------------------------
(***************************************************************************)
(* How long vk_task_sleep sleeps: VulcanSched with two history variables,  *)
(* the argument of each sleeper's call and the number of SysTick interrupts *)
(* since.                                                                  *)
(***************************************************************************)
EXTENDS VulcanSched

CONSTANT ElapsedBound   \* bound: elapsed stops counting here

ASSUME SleepAssumption == ElapsedBound \in Nat

VARIABLES asked, elapsed

sleepVars == <<vars, asked, elapsed>>

SleepInit ==
  /\ Init
  /\ asked = [t \in Task |-> 0]
  /\ elapsed = [t \in Task |-> 0]

FallAsleep(t, n) ==
  /\ vk_task_sleep(t, n)
  /\ asked' = [asked EXCEPT ![t] = n]
  /\ elapsed' = [elapsed EXCEPT ![t] = 0]

CountTick ==
  /\ SysTickEnter
  /\ elapsed' = [t \in Task |->
                   IF state[t] = "BLOCKED" /\ elapsed[t] < ElapsedBound
                   THEN elapsed[t] + 1 ELSE elapsed[t]]
  /\ UNCHANGED asked

(* What is over is forgotten, to keep the state space small. *)
Wake ==
  /\ SysTickWake
  /\ asked' = [asked EXCEPT ![Head(sleep_queue)] = 0]
  /\ elapsed' = [elapsed EXCEPT ![Head(sleep_queue)] = 0]

OtherStep ==
  \/ \E t \in Task, p \in Prios : BootCreate(t, p)
  \/ vk_start
  \/ \E t \in Task : vk_task_yield(t) \/ vk_task_exit(t) \/ Trigger(t)
  \/ \E c \in Creators : vk_task_create(c)
  \/ idle_task
  \/ SysTickReturn
  \/ PendSV

SleepNext ==
  \/ \E t \in Task, n \in SleepTicks : FallAsleep(t, n)
  \/ CountTick
  \/ Wake
  \/ OtherStep /\ UNCHANGED <<asked, elapsed>>

SleepSpec == SleepInit /\ [][SleepNext]_sleepVars

-------------------------------------------------------------------------------
WokenUp(t) == state[t] = "BLOCKED" /\ state'[t] # "BLOCKED"

(* vk_task_sleep(n) ends in the n-th tick after it, the next one for 0: the *)
(* order of the queue and the loop of the handler make it neither early nor *)
(* late.  This is for ticks that do not wrap.                               *)
SleepIsExact ==
  [][\A t \in Task :
       WokenUp(t) => elapsed[t] = IF asked[t] = 0 THEN 1 ELSE asked[t]]_sleepVars

(* vulcan_task.h: "block for `ticks' SysTick periods", whatever vk_ticks is. *)
NeverWokenEarly ==
  [][\A t \in Task : WokenUp(t) => elapsed[t] >= asked[t]]_sleepVars

===============================================================================
