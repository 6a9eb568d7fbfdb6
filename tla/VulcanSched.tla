----------------------------- MODULE VulcanSched -----------------------------
(***************************************************************************)
(* The kernel's scheduler, kernel/vulcan_sched.c: the ready queue and the  *)
(* sleep queue, the SysTick and PendSV exceptions, the start of the        *)
(* scheduler and the task API (create, yield, sleep, exit).                *)
(*                                                                         *)
(* One core runs everything.  Thread code runs when no exception is active *)
(* or pending; SysTick (highest priority) interrupts thread code and       *)
(* PendSV's first instructions, PendSV (lowest) runs once nothing else is  *)
(* pending.  What a task does with interrupts masked is one step; the rest *)
(* of the code is cut at each access to shared state.                      *)
(*                                                                         *)
(* The stack switch of PendSV (lines 148-183) is taken to do what its      *)
(* comments say: after vk_schedule the thread that runs is vk_current.     *)
(***************************************************************************)
EXTENDS VulcanList

CONSTANTS
  Task,         \* the application's TCBs, static and zeroed at reset
  Idle,         \* idle_tcb
  NULL,         \* the null pointer
  Creators,     \* the tasks whose code calls vk_task_create
  Prios,        \* the priorities the application gives its tasks
  SleepTicks,   \* the arguments of vk_task_sleep
  MaxTasks,     \* VULCAN_MAX_TASKS
  TickMod,      \* vk_tick_t holds 0 .. TickMod - 1 (2^32 in the code)
  TickHorizon   \* bound: no tick after this one; TickMod when there is none

IdlePrio == 255
Priority == 0 .. IdlePrio

ASSUME SchedAssumption ==
  /\ Idle \notin Task
  /\ NULL \notin Task \cup {Idle}
  /\ Creators \subseteq Task
  /\ Prios \subseteq Priority
  /\ SleepTicks \subseteq Nat
  /\ MaxTasks \in Nat \ {0}
  /\ TickMod \in Nat \ {0}
  /\ TickHorizon \in 0 .. TickMod

TCB == Task \cup {Idle}

VARIABLES
  vk_current, vk_ticks, ready_queue, sleep_queue, task_count,
  state, priority, wake_tick, id,   \* the fields of the TCBs
  phase,     \* how far main is: "boot", then the steps of vk_start, then "run"
  pc,        \* where the code of each task is
  args,      \* a creator's call of vk_task_create: arguments and register
  systick,   \* the SysTick exception: "inactive" or "active"
  pendsv     \* the PendSV exception: pending, active, both or neither

tcbs  == <<state, priority, wake_tick, id>>
cpu   == <<systick, pendsv>>
vars  == <<vk_current, vk_ticks, ready_queue, sleep_queue, task_count,
           state, priority, wake_tick, id, phase, pc, args, systick, pendsv>>

NoCall == [tcb |-> NULL, priority |-> IdlePrio, count |-> 0]

(***************************************************************************)
(* vk_sched_init has run: idle is created and waits alone.                 *)
(***************************************************************************)
Init ==
  /\ vk_current = NULL
  /\ vk_ticks = 0
  /\ ready_queue = <<Idle>>
  /\ sleep_queue = <<>>
  /\ task_count = 1
  /\ state = [t \in TCB |-> IF t = Idle THEN "READY" ELSE "DEAD"]
  /\ priority = [t \in TCB |-> IF t = Idle THEN IdlePrio ELSE 0]
  /\ wake_tick = [t \in TCB |-> 0]
  /\ id = [t \in TCB |-> 0]
  /\ phase = "boot"
  /\ pc = [t \in TCB |-> IF t = Idle THEN "run" ELSE "off"]
  /\ args = [c \in Creators |-> NoCall]
  /\ systick = "inactive"
  /\ pendsv = {}

-------------------------------------------------------------------------------
\* The helpers the handlers and the API share.

ready_insert(t) ==
  /\ ready_queue' = list_insert(ready_queue, priority, t)
  /\ state' = [state EXCEPT ![t] = "READY"]

sleep_insert(t, wake) ==
  /\ sleep_queue' = list_insert(sleep_queue, wake, t)
  /\ state' = [state EXCEPT ![t] = "BLOCKED"]

trigger_pendsv == pendsv' = pendsv \cup {"pending"}

(* The TCB fields that vk_task_create fills in, with the id it was given. *)
populate(t, p, n) ==
  /\ priority' = [priority EXCEPT ![t] = p]
  /\ wake_tick' = [wake_tick EXCEPT ![t] = 0]
  /\ id' = [id EXCEPT ![t] = n]

(* vk_task_create's queueing of a TCB, its priority already written. *)
enlist(t, prio) ==
  /\ ready_queue' = list_insert(ready_queue, prio, t)
  /\ state' = [state EXCEPT ![t] = "READY"]
  /\ pc' = [pc EXCEPT ![t] = "run"]

Executing(t) ==
  /\ phase = "run"
  /\ systick = "inactive"
  /\ pendsv = {}
  /\ vk_current = t

-------------------------------------------------------------------------------
\* main, before the scheduler runs: no interrupt is enabled until StartTimer.

BootCreate(t, p) ==
  /\ phase = "boot"
  /\ state[t] = "DEAD"
  /\ task_count < MaxTasks
  /\ populate(t, p, task_count)
  /\ task_count' = task_count + 1
  /\ enlist(t, priority')
  /\ UNCHANGED <<vk_current, vk_ticks, sleep_queue, phase, args, cpu>>

(* SYSTICK_CTRL enables the tick before any task is picked. *)
StartTimer ==
  /\ phase = "boot"
  /\ phase' = "timer"
  /\ UNCHANGED <<vk_current, vk_ticks, ready_queue, sleep_queue, task_count,
                 tcbs, pc, args, cpu>>

StartPick ==
  /\ phase = "timer"
  /\ systick = "inactive"
  /\ vk_current' = Head(ready_queue)
  /\ phase' = "pick"
  /\ UNCHANGED <<vk_ticks, ready_queue, sleep_queue, task_count, tcbs, pc,
                 args, cpu>>

StartPop ==
  /\ phase = "pick"
  /\ systick = "inactive"
  /\ ready_queue' = Tail(ready_queue)
  /\ state' = [state EXCEPT ![vk_current] = "RUNNING"]
  /\ phase' = "run"
  /\ UNCHANGED <<vk_current, vk_ticks, sleep_queue, task_count, priority,
                 wake_tick, id, pc, args, cpu>>

-------------------------------------------------------------------------------
\* Thread code: the task API.

vk_task_yield(t) ==
  /\ Executing(t) /\ pc[t] = "run"
  /\ trigger_pendsv
  /\ UNCHANGED <<vk_current, vk_ticks, ready_queue, sleep_queue, task_count,
                 tcbs, phase, pc, args, systick>>

(* A mutation: the wake-up time is computed in a wider integer. *)
vk_task_sleep_wide(t, n) ==
  /\ Executing(t) /\ pc[t] = "run"
  /\ ready_queue' = list_remove(ready_queue, t)
  /\ wake_tick' = [wake_tick EXCEPT ![t] = vk_ticks + n]
  /\ sleep_insert(t, wake_tick')
  /\ pc' = [pc EXCEPT ![t] = "sleep"]
  /\ UNCHANGED <<vk_current, vk_ticks, task_count, priority, id, phase, args,
                 cpu>>

(* The critical section of vk_task_sleep; Trigger is the rest of it. *)
vk_task_sleep(t, n) ==
  /\ Executing(t) /\ pc[t] = "run"
  /\ ready_queue' = list_remove(ready_queue, t)
  /\ wake_tick' = [wake_tick EXCEPT ![t] = (vk_ticks + n) % TickMod]
  /\ sleep_insert(t, wake_tick')
  /\ pc' = [pc EXCEPT ![t] = "sleep"]
  /\ UNCHANGED <<vk_current, vk_ticks, task_count, priority, id, phase, args,
                 cpu>>

(* The critical section of vk_task_exit, called or returned into. *)
vk_task_exit(t) ==
  /\ Executing(t) /\ pc[t] = "run"
  /\ state' = [state EXCEPT ![t] = "DEAD"]
  /\ pc' = [pc EXCEPT ![t] = "exit"]
  /\ UNCHANGED <<vk_current, vk_ticks, ready_queue, sleep_queue, task_count,
                 priority, wake_tick, id, phase, args, cpu>>

(* Interrupts are open again, and the task asks for the switch. *)
Trigger(t) ==
  /\ Executing(t) /\ pc[t] \in {"sleep", "exit"}
  /\ trigger_pendsv
  /\ pc' = [pc EXCEPT ![t] = IF pc[t] = "sleep" THEN "run" ELSE "off"]
  /\ UNCHANGED <<vk_current, vk_ticks, ready_queue, sleep_queue, task_count,
                 tcbs, phase, args, systick>>

(* WFI, for ever. *)
idle_task ==
  /\ Executing(Idle)
  /\ UNCHANGED vars

-------------------------------------------------------------------------------
\* vk_task_create in a task: only the queueing is done with interrupts masked.
\* A caller passes a TCB that no task uses and no other call is filling in.

CreateCheck(c, t, p) ==
  /\ Executing(c) /\ pc[c] = "run"
  /\ state[t] = "DEAD"
  /\ \A d \in Creators : args[d].tcb # t
  /\ task_count < MaxTasks
  /\ args' = [args EXCEPT ![c] = [tcb |-> t, priority |-> p, count |-> 0]]
  /\ pc' = [pc EXCEPT ![c] = "fill"]
  /\ UNCHANGED <<vk_current, vk_ticks, ready_queue, sleep_queue, task_count,
                 tcbs, phase, cpu>>

(* task_count++ loads the counter here and stores it in CreateStore. *)
CreateLoad(c) ==
  /\ Executing(c) /\ pc[c] = "fill"
  /\ args' = [args EXCEPT ![c].count = task_count]
  /\ pc' = [pc EXCEPT ![c] = "count"]
  /\ UNCHANGED <<vk_current, vk_ticks, ready_queue, sleep_queue, task_count,
                 tcbs, phase, cpu>>

(* A mutation: the id is handed out and the counter not advanced. *)
CreateStore_same(c) ==
  /\ Executing(c) /\ pc[c] = "count"
  /\ populate(args[c].tcb, args[c].priority, args[c].count)
  /\ pc' = [pc EXCEPT ![c] = "insert"]
  /\ UNCHANGED <<vk_current, vk_ticks, ready_queue, sleep_queue, state, phase,
                 args, cpu, task_count>>

CreateStore(c) ==
  /\ Executing(c) /\ pc[c] = "count"
  /\ populate(args[c].tcb, args[c].priority, args[c].count)
  /\ task_count' = args[c].count + 1
  /\ pc' = [pc EXCEPT ![c] = "insert"]
  /\ UNCHANGED <<vk_current, vk_ticks, ready_queue, sleep_queue, state, phase,
                 args, cpu>>

(* A mutation: the TCB is linked in and stays DEAD. *)
CreateInsert_dead(c) ==
  /\ Executing(c) /\ pc[c] = "insert"
  /\ ready_queue' = list_insert(ready_queue, priority, args[c].tcb)
  /\ pc' = [pc EXCEPT ![c] = "run", ![args[c].tcb] = "run"]
  /\ args' = [args EXCEPT ![c] = NoCall]
  /\ UNCHANGED <<vk_current, vk_ticks, sleep_queue, task_count, tcbs, phase,
                 cpu>>

(* No PendSV is requested, whatever the priority of the new task. *)
CreateInsert(c) ==
  /\ Executing(c) /\ pc[c] = "insert"
  /\ ready_insert(args[c].tcb)
  /\ pc' = [pc EXCEPT ![c] = "run", ![args[c].tcb] = "run"]
  /\ args' = [args EXCEPT ![c] = NoCall]
  /\ UNCHANGED <<vk_current, vk_ticks, sleep_queue, task_count, priority,
                 wake_tick, id, phase, cpu>>

-------------------------------------------------------------------------------
\* SysTick_Handler, one step for each turn of its loop.

(* Two mutations of the loop's test: the tick after, and this tick only. *)
Expired_strict ==
  /\ sleep_queue # <<>>
  /\ wake_tick[Head(sleep_queue)] < vk_ticks

Expired_equal ==
  /\ sleep_queue # <<>>
  /\ wake_tick[Head(sleep_queue)] = vk_ticks

Expired ==
  /\ sleep_queue # <<>>
  /\ wake_tick[Head(sleep_queue)] <= vk_ticks

SysTickEnter ==
  /\ phase # "boot"
  /\ systick = "inactive"
  /\ vk_ticks # TickHorizon
  /\ systick' = "active"
  /\ vk_ticks' = (vk_ticks + 1) % TickMod
  /\ UNCHANGED <<vk_current, ready_queue, sleep_queue, task_count, tcbs, phase,
                 pc, args, pendsv>>

SysTickWake ==
  /\ systick = "active"
  /\ Expired
  /\ sleep_queue' = Tail(sleep_queue)
  /\ ready_insert(Head(sleep_queue))
  /\ UNCHANGED <<vk_current, vk_ticks, task_count, priority, wake_tick, id,
                 phase, pc, args, cpu>>

(* A mutation: only the idle task is preempted. *)
Preempts_idle ==
  /\ ready_queue # <<>>
  /\ vk_current = Idle
  /\ priority[Head(ready_queue)] < IdlePrio

Preempts ==
  /\ ready_queue # <<>>
  /\ vk_current # NULL
  /\ priority[Head(ready_queue)] < priority[vk_current]

SysTickReturn ==
  /\ systick = "active"
  /\ ~Expired
  /\ systick' = "inactive"
  /\ IF Preempts THEN trigger_pendsv ELSE UNCHANGED pendsv
  /\ UNCHANGED <<vk_current, vk_ticks, ready_queue, sleep_queue, task_count,
                 tcbs, phase, pc, args>>

-------------------------------------------------------------------------------
\* PendSV_Handler.

(* Until its CPSID executes, SysTick can preempt it and pend it again. *)
PendSVEnter ==
  /\ systick = "inactive"
  /\ pendsv = {"pending"}
  /\ pendsv' = {"active"}
  /\ UNCHANGED <<vk_current, vk_ticks, ready_queue, sleep_queue, task_count,
                 tcbs, phase, pc, args, systick>>

(* A mutation: the current task is put back whatever its state. *)
vk_schedule_always ==
  LET queue == list_insert(ready_queue, priority, vk_current)
  IN  /\ vk_current' = Head(queue)
      /\ ready_queue' = Tail(queue)
      /\ state' = [state EXCEPT ![vk_current] = "READY",
                                ![Head(queue)] = "RUNNING"]

vk_schedule ==
  LET alive   == vk_current # NULL /\ state[vk_current] = "RUNNING"
      queue   == IF alive THEN list_insert(ready_queue, priority, vk_current)
                          ELSE ready_queue
      settled == IF alive THEN [state EXCEPT ![vk_current] = "READY"]
                          ELSE state
  IN  IF queue = <<>>
      THEN /\ vk_current' = NULL
           /\ ready_queue' = queue
           /\ state' = settled
      ELSE /\ vk_current' = Head(queue)
           /\ ready_queue' = Tail(queue)
           /\ state' = [settled EXCEPT ![Head(queue)] = "RUNNING"]

(* A mutation: a task goes on unless one above it is ready. *)
PendSV_Handler_keep ==
  /\ systick = "inactive"
  /\ "active" \in pendsv
  /\ IF state[vk_current] = "RUNNING" /\ ~Preempts
     THEN UNCHANGED <<vk_current, ready_queue, state>>
     ELSE vk_schedule
  /\ pendsv' = pendsv \ {"active"}
  /\ UNCHANGED <<vk_ticks, sleep_queue, task_count, priority, wake_tick, id,
                 phase, pc, args, systick>>

(* From CPSID on: the switch, and the return from the exception. *)
PendSV_Handler ==
  /\ systick = "inactive"
  /\ "active" \in pendsv
  /\ vk_schedule
  /\ pendsv' = pendsv \ {"active"}
  /\ UNCHANGED <<vk_ticks, sleep_queue, task_count, priority, wake_tick, id,
                 phase, pc, args, systick>>

-------------------------------------------------------------------------------
vk_start == StartTimer \/ StartPick \/ StartPop

CreateFinish(c) == CreateLoad(c) \/ CreateStore(c) \/ CreateInsert(c)

vk_task_create(c) ==
  \/ \E t \in Task, p \in Prios : CreateCheck(c, t, p)
  \/ CreateFinish(c)

(* What a task does to give the processor up. *)
Relinquish(t) ==
  \/ vk_task_yield(t)
  \/ \E n \in SleepTicks : vk_task_sleep(t, n)
  \/ vk_task_exit(t)
  \/ Trigger(t)

SysTick_Handler == SysTickEnter \/ SysTickWake \/ SysTickReturn

PendSV == PendSVEnter \/ PendSV_Handler

Next ==
  \/ \E t \in Task, p \in Prios : BootCreate(t, p)
  \/ vk_start
  \/ \E t \in Task : Relinquish(t)
  \/ \E c \in Creators : vk_task_create(c)
  \/ idle_task
  \/ SysTick_Handler
  \/ PendSV

Spec == Init /\ [][Next]_vars

(***************************************************************************)
(* The hardware keeps ticking and takes a pending exception, and kernel    *)
(* code gets to its end; nothing is asked of the application's.  Fairness  *)
(* is strong where a tick can get in the way: the handler is far shorter   *)
(* than the tick period, so the code it interrupts gets on.                *)
(***************************************************************************)
KernelFairness ==
  /\ SF_vars(vk_start)
  /\ WF_vars(SysTick_Handler)
  /\ SF_vars(PendSV)
  /\ \A t \in Task : SF_vars(Trigger(t))
  /\ \A c \in Creators : SF_vars(CreateFinish(c))

FairSpec == Spec /\ KernelFairness

-------------------------------------------------------------------------------
\* Safety.

TypeOK ==
  /\ vk_current \in TCB \cup {NULL}
  /\ vk_ticks \in 0 .. TickMod - 1
  /\ ready_queue \in Seq(TCB)
  /\ sleep_queue \in Seq(TCB)
  /\ task_count \in Nat
  /\ state \in [TCB -> {"DEAD", "READY", "RUNNING", "BLOCKED"}]
  /\ priority \in [TCB -> Priority]
  /\ wake_tick \in [TCB -> 0 .. TickMod - 1]
  /\ id \in [TCB -> Nat]
  /\ phase \in {"boot", "timer", "pick", "run"}
  /\ pc \in [TCB -> {"off", "run", "sleep", "exit", "fill", "count", "insert"}]
  /\ args \in [Creators ->
                 [tcb : Task \cup {NULL}, priority : Priority, count : Nat]]
  /\ systick \in {"inactive", "active"}
  /\ pendsv \in SUBSET {"pending", "active"}

(* A queue is sorted and holds exactly the tasks in state s, each once. *)
Holds(q, key, st, s) ==
  /\ NoDuplicates(q)
  /\ SortedBy(q, key)
  /\ Queued(q) = {t \in TCB : st[t] = s}

(* Whatever was interrupted where, no task is lost or queued twice: a ready *)
(* task is on the ready queue once and in order, a blocked one on the sleep *)
(* queue, and the one RUNNING task is vk_current.                           *)
QueuesConsistent ==
  /\ Holds(ready_queue, priority, state, "READY")
  /\ Holds(sleep_queue, wake_tick, state, "BLOCKED")
  /\ \A t \in TCB : state[t] = "RUNNING" => t = vk_current

(* The comment at the end of vk_schedule: a switch always finds a task, for *)
(* the idle task never leaves the scheduler.                                *)
SomethingRuns == phase = "run" => vk_current # NULL

(* Once the exceptions are done no ready task has a higher priority than    *)
(* the one that runs, unless that one is a creator: vk_task_create asks for *)
(* no switch, and the new task has to wait for the next tick.               *)
HighestPriorityRuns ==
  \A t \in TCB \ Creators :
    Executing(t) => \A u \in Queued(ready_queue) : priority[t] <= priority[u]

(* Outside the tick handler no sleeper's time is past: the loop of          *)
(* SysTick_Handler stops too early only if the sleep queue is out of order. *)
(* This is for ticks that do not wrap.                                      *)
NoOverdueSleeper ==
  systick = "inactive" =>
    \A t \in Queued(sleep_queue) : vk_ticks <= wake_tick[t]

(* The ids handed out are unique and within VULCAN_MAX_TASKS.  This is for  *)
(* one creator: the test and the increment of task_count are not atomic.    *)
IdsUnique ==
  /\ task_count <= MaxTasks
  /\ \A t, u \in TCB :
       state[t] # "DEAD" /\ state[u] # "DEAD" /\ t # u => id[t] # id[u]

OrderKept ==
  \A a, b \in TCB :
    /\ a \in Queued(ready_queue) \cap Queued(ready_queue')
    /\ \/ Before(ready_queue, a, b)
       \/ /\ b \in Queued(ready_queue') \ Queued(ready_queue)
          /\ priority[a] <= priority'[b]
    => Before(ready_queue', a, b)

(* First come, first served within a priority: a task that stays on the     *)
(* ready queue is overtaken neither by one that was behind it nor by one    *)
(* that comes onto the queue with the same or a lower priority.             *)
ServedInOrder == [][OrderKept]_vars

(* The task that has the processor, until it sleeps or exits; and a switch, *)
(* of which vk_start is the first.                                          *)
Running == {t \in TCB : t = vk_current /\ state[t] = "RUNNING"}

Switching == phase # "run" \/ "active" \in pendsv

Policy == INSTANCE Dispatcher WITH
  Thread <- TCB, ready <- Queued(ready_queue), ahead <- Ahead(ready_queue, priority),
  prio <- priority, running <- Running, switching <- Switching

(* The scheduler is a Dispatcher: every switch gives the processor to the   *)
(* task that has waited longest among those of the highest priority, and    *)
(* puts the one that yields or is preempted behind its equals; nothing else *)
(* gives or takes it, but for the sleep and the exit of the task itself.    *)
ImplementsDispatcher == Policy!Spec

-------------------------------------------------------------------------------
\* What makes the safety properties inductive.

(* Until vk_start is through there is no task to switch away from, and no   *)
(* switch is asked for.                                                     *)
StartInv ==
  /\ phase = "boot" => systick = "inactive"
  /\ phase # "run" => /\ pendsv = {}
                      /\ \A t \in TCB : state[t] \in {"DEAD", "READY"}
  /\ phase \in {"boot", "timer"} => vk_current = NULL
  /\ phase = "pick" => ready_queue # <<>> /\ vk_current = Head(ready_queue)
  /\ phase = "run" => vk_current \in TCB

(* The idle task only ever waits or runs.                                   *)
IdleInv == state[Idle] \in {"READY", "RUNNING"} /\ pc[Idle] = "run"

(* A task that executes is RUNNING, but between the critical section of     *)
(* sleep or exit and the switch it asks for: there a tick can have made the *)
(* sleeper READY again.                                                     *)
CurrentInv ==
  phase = "run" /\ pendsv = {} /\ pc[vk_current] \notin {"sleep", "exit"}
    => state[vk_current] = "RUNNING"

Calling(c) == pc[c] \in {"fill", "count", "insert"}

(* The TCB of an unfinished call is no other call's and is no task yet.     *)
CallInv ==
  /\ \A c \in Creators :
       Calling(c) => /\ phase = "run"
                     /\ args[c].tcb \in Task
                     /\ state[args[c].tcb] = "DEAD"
  /\ \A c, d \in Creators :
       c # d /\ args[c].tcb = args[d].tcb => args[c].tcb = NULL

SchedInv ==
  /\ TypeOK
  /\ QueuesConsistent
  /\ StartInv
  /\ IdleInv
  /\ CurrentInv
  /\ CallInv

-------------------------------------------------------------------------------
\* Liveness.

(* Every sleeper is woken, with the tick count wrapping round. *)
SleepersWake == \A t \in Task : state[t] = "BLOCKED" ~> state[t] # "BLOCKED"

Above(t, u) == priority[t] < priority[u]

Foremost(t) == \A u \in TCB : state[u] # "DEAD" => ~Above(u, t)

Highest(t) == \A u \in TCB \ {t} : state[u] # "DEAD" => Above(t, u)

(* A ready task above all others runs, whatever the others do: at the next  *)
(* tick at the latest.                                                      *)
HighestGetsProcessor ==
  \A t \in Task : (state[t] = "READY" /\ Highest(t))
                    ~> (vk_current = t \/ ~Highest(t))

(* There is no time slice: what every task does again and again, if it can. *)
GivesWay == \A t \in Task : SF_vars(Relinquish(t))

(* Tasks that give way share the processor: then each ready task that none  *)
(* is above gets to run.                                                    *)
PeersShareProcessor ==
  GivesWay =>
    \A t \in Task : (state[t] = "READY" /\ Foremost(t))
                      ~> (vk_current = t \/ ~Foremost(t))

===============================================================================
