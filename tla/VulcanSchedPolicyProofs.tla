----------------------- MODULE VulcanSchedPolicyProofs -----------------------
(***************************************************************************)
(* Proofs that the scheduler serves its tasks by priority and in order,    *)
(* that no sleeper is overdue and that ids are unique, from the inductive  *)
(* invariant of VulcanSchedProofs.                                         *)
(***************************************************************************)
EXTENDS VulcanSchedProofs, VulcanSleep

-------------------------------------------------------------------------------
\* Priority.

LEMMA QueueUnchanged ==
  ASSUME SchedInv, NEW t \in Task, NEW n \in SleepTicks, vk_task_sleep(t, n)
  PROVE  UNCHANGED <<ready_queue, priority, vk_current, pendsv, systick, phase,
                     vk_ticks>>
<1>1. t \in TCB /\ state[t] = "RUNNING" /\ ready_queue' = list_remove(ready_queue, t)
  BY TCBFacts DEF vk_task_sleep, Executing, SchedInv, CurrentInv
<1>2. t \notin Queued(ready_queue)
  BY <1>1 DEF SchedInv, QueuesConsistent, Holds
<1>3. ready_queue' = ready_queue
  BY <1>1, <1>2, ListRemoveAbsent, TypeFacts DEF SchedInv
<1> QED
  BY <1>3 DEF vk_task_sleep, cpu

LEMMA HighestStep ==
  ASSUME SchedInv, HighestPriorityRuns, [Next]_vars
  PROVE  HighestPriorityRuns'
<1> SUFFICES ASSUME NEW t \in TCB \ Creators, Executing(t)'
             PROVE  \A u \in Queued(ready_queue') : priority'[t] <= priority'[u]
  BY DEF HighestPriorityRuns
<1> USE DEF Executing
<1>1. ASSUME NEW s \in Task, NEW p \in Prios, BootCreate(s, p) PROVE FALSE
  BY <1>1 DEF BootCreate
<1>2. CASE vk_start
  <2>1. StartPop
    BY <1>2 DEF vk_start, StartTimer, StartPick
  <2>2. ready_queue # <<>> /\ vk_current = Head(ready_queue)
    BY <2>1 DEF SchedInv, StartInv, StartPop
  <2>3. /\ \A u \in Queued(ready_queue) : priority[vk_current] <= priority[u]
        /\ Queued(Tail(ready_queue)) \subseteq Queued(ready_queue)
    BY <2>2, TypeFacts, HeadTailOfList, ZenonT(30) DEF SchedInv, QueuesConsistent, Holds, Key
  <2> QED
    BY <2>1, <2>3 DEF StartPop
<1>3. ASSUME NEW s \in Task, Relinquish(s)
      PROVE  \A u \in Queued(ready_queue') : priority'[t] <= priority'[u]
  <2>1. CASE vk_task_yield(s) \/ Trigger(s)
    BY <2>1 DEF vk_task_yield, Trigger, trigger_pendsv
  <2>2. ASSUME NEW n \in SleepTicks, vk_task_sleep(s, n)
        PROVE  \A u \in Queued(ready_queue') : priority'[t] <= priority'[u]
    BY <2>2, QueueUnchanged DEF HighestPriorityRuns
  <2>3. CASE vk_task_exit(s)
    BY <2>3 DEF vk_task_exit, HighestPriorityRuns, cpu
  <2> QED
    BY <1>3, <2>1, <2>2, <2>3 DEF Relinquish
<1>4. ASSUME NEW c \in Creators, vk_task_create(c) PROVE FALSE
  BY <1>4 DEF vk_task_create, CreateFinish, CreateCheck, CreateLoad,
              CreateStore, CreateInsert
<1>5. CASE idle_task
  BY <1>5 DEF idle_task, vars, HighestPriorityRuns
<1>6. CASE SysTick_Handler
  <2>1. SysTickReturn
    BY <1>6 DEF SysTick_Handler, SysTickEnter, SysTickWake, cpu
  <2>2. /\ UNCHANGED <<ready_queue, priority, vk_current>>
        /\ ~Preempts
        /\ vk_current = t /\ t # NULL
    BY <2>1, TCBFacts DEF SysTickReturn, trigger_pendsv, tcbs
  <2>3. CASE ready_queue = <<>>
    BY <2>2, <2>3 DEF Queued
  <2>4. CASE ready_queue # <<>>
    <3>1. /\ Head(ready_queue) \in TCB
          /\ \A u \in Queued(ready_queue) :
               priority[Head(ready_queue)] <= priority[u]
          /\ \A u \in Queued(ready_queue) : u \in TCB
      BY <2>4, TypeFacts, HeadTailOfList
         DEF SchedInv, QueuesConsistent, Holds, Key
    <3>2. \A u \in TCB : priority[u] \in Int
      BY TypeFacts DEF SchedInv, Key
    <3>3. priority[t] <= priority[Head(ready_queue)]
      BY <2>2, <2>4, <3>1, <3>2 DEF Preempts
    <3> QED
      BY <2>2, <3>1, <3>2, <3>3
  <2> QED
    BY <2>3, <2>4
<1>7. CASE PendSV
  <2>1. PendSV_Handler
    BY <1>7 DEF PendSV, PendSVEnter
  <2>2. vk_current' = t /\ priority' = priority
    BY <2>1 DEF PendSV_Handler
  <2> QED
    <3>1. \A u \in Queued(ready_queue') : priority[vk_current'] <= priority[u]
      BY <2>1, NoneAway, ScheduleInv
    <3> QED
      BY <2>2, <3>1
<1>8. CASE UNCHANGED vars
  BY <1>8 DEF vars, HighestPriorityRuns
<1> QED
  BY <1>1, <1>2, <1>3, <1>4, <1>5, <1>6, <1>7, <1>8 DEF Next

(* Outside the exceptions, and unless it has itself just created a task, the *)
(* task that runs has the highest priority of all that are ready.            *)
THEOREM PriorityRespected == Spec => []HighestPriorityRuns
<1>1. Init => HighestPriorityRuns
  BY DEF Init, HighestPriorityRuns, Executing
<1> QED
  BY <1>1, HighestStep, Invariant, PTL DEF Spec

-------------------------------------------------------------------------------
\* Order.

LEMMA JoinQueue ==
  ASSUME NEW q \in Seq(TCB), NEW key \in Key, NEW t \in TCB
  PROVE  LET r == list_insert(q, key, t)
         IN  /\ r \in Seq(TCB)
             /\ Queued(r) = Queued(q) \cup {t}
             /\ NoDuplicates(q) /\ t \notin Queued(q) => NoDuplicates(r)
             /\ \A a, b : Before(q, a, b) => Before(r, a, b)
             /\ SortedBy(q, key) =>
                  \A a \in Queued(q) : key[a] <= key[t] => Before(r, a, t)
<1>1. key \in [TCB -> Int]
  BY DEF Key
<1> DEFINE r == list_insert(q, key, t)
<1>2. /\ r \in Seq(TCB)
      /\ Queued(r) = Queued(q) \cup {t}
      /\ NoDuplicates(q) /\ t \notin Queued(q) => NoDuplicates(r)
  BY <1>1, ListInsertProperties
<1>3. /\ \A a, b : Before(q, a, b) => Before(r, a, b)
      /\ SortedBy(q, key) =>
           \A a \in Queued(q) : key[a] <= key[t] => Before(r, a, t)
  BY <1>1, ListInsertOrder
<1> QED
  BY <1>2, <1>3

LEMMA LeaveQueue ==
  ASSUME NEW q \in Seq(TCB), q # <<>>, NoDuplicates(q)
  PROVE  /\ Queued(Tail(q)) = Queued(q) \ {Head(q)}
         /\ \A a, b : Before(q, a, b) /\ a # Head(q) => Before(Tail(q), a, b)
BY HeadTailOfList

LEMMA OrderSame ==
  ASSUME ready_queue' = ready_queue
  PROVE  OrderKept
BY DEF OrderKept

(* One task joins the ready queue.                                          *)
LEMMA OrderInsert ==
  ASSUME SchedInv, NEW t \in TCB, NEW prio \in Key,
         \A u \in Queued(ready_queue) \cup {t} : priority'[u] = prio[u],
         \A u \in Queued(ready_queue) : priority[u] = prio[u],
         ready_queue' = list_insert(ready_queue, prio, t)
  PROVE  OrderKept
<1>1. SortedBy(ready_queue, prio)
  BY SortedByAgreement DEF SchedInv, QueuesConsistent, Holds
<1>2. /\ Queued(ready_queue') = Queued(ready_queue) \cup {t}
      /\ \A a, b : Before(ready_queue, a, b) => Before(ready_queue', a, b)
      /\ \A a \in Queued(ready_queue) :
           prio[a] <= prio[t] => Before(ready_queue', a, t)
  BY <1>1, TypeFacts, JoinQueue DEF SchedInv
<1> QED
  BY <1>2 DEF OrderKept

LEMMA OrderSchedule ==
  ASSUME SchedInv, PendSV_Handler
  PROVE  OrderKept
<1> DEFINE alive == vk_current # NULL /\ state[vk_current] = "RUNNING"
           queue == IF alive THEN list_insert(ready_queue, priority, vk_current)
                             ELSE ready_queue
<1>1. vk_current \in TCB /\ priority' = priority
  BY DEF PendSV_Handler, SchedInv, StartInv, TypeOK
<1>2. /\ queue \in Seq(TCB)
      /\ NoDuplicates(queue)
      /\ \A a, b : Before(ready_queue, a, b) => Before(queue, a, b)
      /\ \A a \in Queued(ready_queue), b \in Queued(queue) \ Queued(ready_queue) :
           priority[a] <= priority[b] => Before(queue, a, b)
  <2>1. CASE alive
    <3>1. vk_current \notin Queued(ready_queue)
      BY <2>1 DEF SchedInv, QueuesConsistent, Holds
    <3>2. queue = list_insert(ready_queue, priority, vk_current)
      BY <2>1
    <3> HIDE DEF queue, alive
    <3>3. /\ NoDuplicates(ready_queue) /\ SortedBy(ready_queue, priority)
      BY DEF SchedInv, QueuesConsistent, Holds
    <3>4. queue \in Seq(TCB) /\ NoDuplicates(queue)
          /\ Queued(queue) = Queued(ready_queue) \cup {vk_current}
      BY <1>1, <3>1, <3>2, <3>3, TypeFacts, JoinQueue DEF SchedInv
    <3>5. /\ \A a, b : Before(ready_queue, a, b) => Before(queue, a, b)
          /\ \A a \in Queued(ready_queue) :
               priority[a] <= priority[vk_current] => Before(queue, a, vk_current)
      BY <1>1, <3>2, <3>3, TypeFacts, JoinQueue DEF SchedInv
    <3> QED
      BY <3>4, <3>5
  <2>2. CASE ~alive
    BY <2>2, TypeFacts DEF SchedInv, QueuesConsistent, Holds
  <2> QED
    BY <2>1, <2>2
<1>3. \/ ready_queue' = queue /\ queue = <<>>
      \/ ready_queue' = Tail(queue) /\ queue # <<>>
  BY DEF PendSV_Handler, vk_schedule
<1> HIDE DEF queue, alive
<1>4. CASE queue = <<>>
  <2>1. Queued(ready_queue') = {}
    BY <1>3, <1>4 DEF Queued
  <2> QED
    BY <2>1 DEF OrderKept
<1>5. CASE queue # <<>>
  <2>1. /\ Queued(ready_queue') = Queued(queue) \ {Head(queue)}
        /\ \A a, b : Before(queue, a, b) /\ a # Head(queue)
                       => Before(ready_queue', a, b)
    <3>1. /\ Queued(Tail(queue)) = Queued(queue) \ {Head(queue)}
          /\ \A a, b : Before(queue, a, b) /\ a # Head(queue)
                         => Before(Tail(queue), a, b)
      BY <1>2, <1>5, LeaveQueue
    <3>2. ready_queue' = Tail(queue)
      BY <1>3, <1>5
    <3> QED
      BY <3>1, <3>2, Zenon
  <2> QED
    BY <1>1, <1>2, <2>1 DEF OrderKept
<1> QED
  BY <1>4, <1>5

LEMMA OrderStep == SchedInv /\ [Next]_vars => [OrderKept]_vars
<1> SUFFICES ASSUME SchedInv, [Next]_vars PROVE OrderKept
  OBVIOUS
<1>1. ASSUME NEW t \in Task, NEW p \in Prios, BootCreate(t, p) PROVE OrderKept
  <2>1. t \in TCB /\ state[t] = "DEAD" /\ priority' = [priority EXCEPT ![t] = p]
        /\ ready_queue' = list_insert(ready_queue, priority', t)
    BY <1>1, TCBFacts DEF BootCreate, populate, enlist
  <2>2. priority' \in Key
    <3>1. priority' \in [TCB -> Priority]
      BY <2>1, TCBFacts DEF SchedInv, TypeOK
    <3> QED
      BY <3>1, KeyTypes
  <2>3. t \notin Queued(ready_queue)
    BY <2>1 DEF SchedInv, QueuesConsistent, Holds
  <2>4. \A u \in Queued(ready_queue) : priority[u] = priority'[u]
    BY <2>1, <2>3, TypeFacts DEF SchedInv, QueuesConsistent, Holds, Key
  <2> QED
    BY <2>1, <2>2, <2>4, OrderInsert
<1>2. CASE vk_start
  <2>1. CASE StartTimer \/ StartPick
    BY <2>1, OrderSame DEF StartTimer, StartPick
  <2>2. CASE StartPop
    <3>1. ready_queue # <<>> /\ ready_queue' = Tail(ready_queue)
      BY <2>2 DEF SchedInv, StartInv, StartPop
    <3>2. /\ Queued(ready_queue') = Queued(ready_queue) \ {Head(ready_queue)}
          /\ \A a, b : Before(ready_queue, a, b) /\ a # Head(ready_queue)
                         => Before(ready_queue', a, b)
      BY <3>1, TypeFacts, HeadTailOfList DEF SchedInv, QueuesConsistent, Holds
    <3> QED
      BY <3>2 DEF OrderKept
  <2> QED
    BY <1>2, <2>1, <2>2 DEF vk_start
<1>3. ASSUME NEW t \in Task, Relinquish(t) PROVE OrderKept
  BY <1>3, QueueUnchanged, OrderSame
     DEF Relinquish, vk_task_yield, vk_task_exit, Trigger
<1>4. ASSUME NEW c \in Creators, vk_task_create(c) PROVE OrderKept
  <2>1. CASE \E t \in Task, p \in Prios : CreateCheck(c, t, p)
    BY <2>1, OrderSame DEF CreateCheck
  <2>2. CASE CreateLoad(c) \/ CreateStore(c)
    BY <2>2, OrderSame DEF CreateLoad, CreateStore
  <2>3. CASE CreateInsert(c)
    <3>1. args[c].tcb \in TCB
      BY <2>3, TCBFacts DEF CreateInsert, SchedInv, CallInv, Calling
    <3>2. priority' = priority
          /\ ready_queue' = list_insert(ready_queue, priority, args[c].tcb)
      BY <2>3 DEF CreateInsert, ready_insert
    <3> QED
      BY <3>1, <3>2, TypeFacts, OrderInsert DEF SchedInv
  <2> QED
    BY <1>4, <2>1, <2>2, <2>3 DEF vk_task_create, CreateFinish
<1>5. CASE idle_task
  BY <1>5, OrderSame DEF idle_task, vars
<1>6. CASE SysTick_Handler
  <2>1. CASE SysTickEnter \/ SysTickReturn
    BY <2>1, OrderSame DEF SysTickEnter, SysTickReturn
  <2>2. CASE SysTickWake
    <3>1. /\ Head(sleep_queue) \in TCB
          /\ priority' = priority
          /\ ready_queue' = list_insert(ready_queue, priority, Head(sleep_queue))
      BY <2>2, TypeFacts, HeadTailOfList
         DEF SysTickWake, Expired, ready_insert, SchedInv
    <3> QED
      BY <3>1, TypeFacts, OrderInsert DEF SchedInv
  <2> QED
    BY <1>6, <2>1, <2>2 DEF SysTick_Handler
<1>7. CASE PendSV
  BY <1>7, OrderSame, OrderSchedule DEF PendSV, PendSVEnter
<1>8. CASE UNCHANGED vars
  BY <1>8, OrderSame DEF vars
<1> QED
  BY <1>1, <1>2, <1>3, <1>4, <1>5, <1>6, <1>7, <1>8 DEF Next

(* Within a priority, first come, first served.                              *)
THEOREM OrderRespected == Spec => ServedInOrder
BY OrderStep, Invariant, PTL DEF Spec, ServedInOrder

-------------------------------------------------------------------------------
\* Time.

(* No sleep reaches past the last tick: the tick counter does not wrap.     *)
NoWrap ==
  /\ TickHorizon < TickMod
  /\ \A n \in SleepTicks : TickHorizon + n < TickMod

DueInv ==
  /\ vk_ticks <= TickHorizon
  /\ NoOverdueSleeper

LEMMA DueStep ==
  ASSUME NoWrap, SchedInv, DueInv, [Next]_vars
  PROVE  DueInv'
<1>0. /\ vk_ticks \in Nat /\ TickMod \in Nat /\ TickHorizon \in Nat
      /\ TickHorizon < TickMod
      /\ \A u \in TCB : wake_tick[u] \in Nat
      /\ \A u \in Queued(sleep_queue) : u \in TCB /\ state[u] = "BLOCKED"
  BY SchedAssumption, TCBFacts
     DEF SchedInv, TypeOK, NoWrap, QueuesConsistent, Holds
<1>s. ASSUME UNCHANGED <<vk_ticks, sleep_queue, wake_tick, systick>>
      PROVE  DueInv'
  BY <1>s DEF DueInv, NoOverdueSleeper
<1>1. ASSUME NEW t \in Task, NEW p \in Prios, BootCreate(t, p) PROVE DueInv'
  <2>1. /\ state[t] = "DEAD" /\ t \in TCB
        /\ wake_tick' = [wake_tick EXCEPT ![t] = 0]
        /\ UNCHANGED <<vk_ticks, sleep_queue, systick>>
    BY <1>1, TCBFacts DEF BootCreate, populate, cpu
  <2>2. \A u \in Queued(sleep_queue) : wake_tick'[u] = wake_tick[u]
    BY <1>0, <2>1 DEF SchedInv, TypeOK
  <2> QED
    BY <2>1, <2>2 DEF DueInv, NoOverdueSleeper
<1>2. CASE vk_start
  BY <1>2, <1>s DEF vk_start, StartTimer, StartPick, StartPop, tcbs, cpu
<1>3. ASSUME NEW t \in Task, Relinquish(t) PROVE DueInv'
  <2>1. CASE vk_task_yield(t) \/ vk_task_exit(t) \/ Trigger(t)
    BY <2>1, <1>s DEF vk_task_yield, vk_task_exit, Trigger, tcbs, cpu
  <2>2. ASSUME NEW n \in SleepTicks, vk_task_sleep(t, n) PROVE DueInv'
    <3>1. /\ t \in TCB /\ state[t] = "RUNNING"
          /\ wake_tick' = [wake_tick EXCEPT ![t] = (vk_ticks + n) % TickMod]
          /\ sleep_queue' = list_insert(sleep_queue, wake_tick', t)
          /\ vk_ticks' = vk_ticks
      BY <2>2, TCBFacts
         DEF vk_task_sleep, sleep_insert, Executing, SchedInv, CurrentInv
    <3>2. wake_tick'[t] = vk_ticks + n /\ n \in Nat
      <4>1. n \in Nat /\ vk_ticks + n \in Nat /\ vk_ticks + n < TickMod
        BY <1>0, TCBFacts DEF DueInv, NoWrap
      <4>2. (vk_ticks + n) % TickMod = vk_ticks + n
        BY <4>1, <1>0
      <4> QED
        BY <3>1, <4>1, <4>2 DEF SchedInv, TypeOK
    <3>3. wake_tick' \in Key
      <4>1. wake_tick'[t] \in Int
        BY <3>2, <1>0
      <4> QED
        BY <3>1, <4>1, <1>0, TypeFacts DEF SchedInv, Key
    <3>4. Queued(sleep_queue') = Queued(sleep_queue) \cup {t}
      BY <3>1, <3>3, TypeFacts, JoinQueue DEF SchedInv
    <3>5. systick = "inactive" /\ systick' = systick
      BY <2>2 DEF vk_task_sleep, Executing, cpu
    <3>6. \A u \in Queued(sleep_queue) : vk_ticks <= wake_tick'[u]
      BY <1>0, <3>1, <3>5 DEF DueInv, NoOverdueSleeper, SchedInv, TypeOK
    <3>7. vk_ticks <= wake_tick'[t]
      BY <3>2, <1>0
    <3> QED
      BY <3>1, <3>4, <3>6, <3>7 DEF DueInv, NoOverdueSleeper
  <2> QED
    BY <1>3, <2>1, <2>2 DEF Relinquish
<1>4. ASSUME NEW c \in Creators, vk_task_create(c) PROVE DueInv'
  <2>1. CASE CreateStore(c)
    <3>1. /\ args[c].tcb \in TCB /\ state[args[c].tcb] = "DEAD"
          /\ wake_tick' = [wake_tick EXCEPT ![args[c].tcb] = 0]
          /\ UNCHANGED <<vk_ticks, sleep_queue, systick>>
      BY <2>1, TCBFacts
         DEF CreateStore, populate, cpu, SchedInv, CallInv, Calling
    <3>2. \A u \in Queued(sleep_queue) : wake_tick'[u] = wake_tick[u]
      BY <1>0, <3>1 DEF SchedInv, TypeOK
    <3> QED
      BY <3>1, <3>2 DEF DueInv, NoOverdueSleeper
  <2>2. CASE ~CreateStore(c)
    BY <1>4, <2>2, <1>s DEF vk_task_create, CreateFinish, CreateCheck,
                            CreateLoad, CreateInsert, tcbs, cpu
  <2> QED
    BY <2>1, <2>2
<1>5. CASE idle_task
  BY <1>5, <1>s DEF idle_task, vars
<1>6. CASE SysTick_Handler
  <2>1. CASE SysTickEnter
    <3>1. vk_ticks < TickHorizon
      BY <2>1, <1>0 DEF SysTickEnter, DueInv
    <3>2. vk_ticks + 1 \in Nat /\ vk_ticks + 1 < TickMod
      BY <3>1, <1>0
    <3>3. (vk_ticks + 1) % TickMod = vk_ticks + 1
      BY <3>2, <1>0
    <3> QED
      BY <2>1, <3>1, <3>3, <1>0 DEF SysTickEnter, DueInv, NoOverdueSleeper
  <2>2. CASE SysTickWake
    BY <2>2 DEF SysTickWake, cpu, DueInv, NoOverdueSleeper
  <2>3. CASE SysTickReturn
    <3>1. \A u \in Queued(sleep_queue) : vk_ticks <= wake_tick[u]
      <4>1. CASE sleep_queue = <<>>
        BY <4>1 DEF Queued
      <4>2. CASE sleep_queue # <<>>
        <5>1. /\ Head(sleep_queue) \in TCB
              /\ \A u \in Queued(sleep_queue) :
                   wake_tick[Head(sleep_queue)] <= wake_tick[u]
          BY <4>2, TypeFacts, HeadTailOfList
             DEF SchedInv, QueuesConsistent, Holds, Key
        <5>2. vk_ticks < wake_tick[Head(sleep_queue)]
          BY <2>3, <4>2, <5>1, <1>0 DEF SysTickReturn, Expired
        <5> QED
          BY <5>1, <5>2, <1>0
      <4> QED
        BY <4>1, <4>2
    <3> QED
      BY <2>3, <3>1 DEF SysTickReturn, tcbs, DueInv, NoOverdueSleeper
  <2> QED
    BY <1>6, <2>1, <2>2, <2>3 DEF SysTick_Handler
<1>7. CASE PendSV
  BY <1>7, <1>s DEF PendSV, PendSVEnter, PendSV_Handler, tcbs
<1>8. CASE UNCHANGED vars
  BY <1>8, <1>s DEF vars
<1> QED
  BY <1>1, <1>2, <1>3, <1>4, <1>5, <1>6, <1>7, <1>8 DEF Next

(* While the tick counter does not wrap, a tick handler that returns leaves  *)
(* no sleeper behind whose time has passed.                                  *)
THEOREM SleepersOnTime == NoWrap => (Spec => []NoOverdueSleeper)
<1> SUFFICES ASSUME NoWrap PROVE Spec => []NoOverdueSleeper
  OBVIOUS
<1>1. Init => DueInv
  BY SchedAssumption DEF Init, DueInv, NoOverdueSleeper, Queued
<1>2. DueInv /\ SchedInv /\ [Next]_vars => DueInv'
  BY DueStep
<1>3. DueInv => NoOverdueSleeper
  BY DEF DueInv
<1> QED
  BY <1>1, <1>2, <1>3, Invariant, PTL DEF Spec

-------------------------------------------------------------------------------
\* How long a sleep lasts.

LEMMA SleepStepIsStep == [SleepNext]_sleepVars => [Next]_vars
BY DEF SleepNext, sleepVars, FallAsleep, CountTick, Wake, OtherStep, Next, Relinquish,
       SysTick_Handler

(* The ticks a sleep takes.                                                  *)
Duration(n) == IF n = 0 THEN 1 ELSE n

(* A sleeper's wake-up time is as many ticks off as its call has still to    *)
(* last: some, or all of 0, while no tick is handled; perhaps none while one *)
(* is.                                                                       *)
ElapsedInv ==
  /\ vk_ticks <= TickHorizon
  /\ asked \in [Task -> Nat] /\ elapsed \in [Task -> Nat]
  /\ \A t \in Task :
       state[t] = "BLOCKED" =>
         /\ asked[t] \in SleepTicks
         /\ wake_tick[t] + elapsed[t] = vk_ticks + asked[t]
         /\ systick = "inactive" => elapsed[t] = 0 \/ elapsed[t] < asked[t]
         /\ systick = "active" => elapsed[t] \in 1 .. Duration(asked[t])

(* The histories count far enough.                                           *)
CountsEnough == ElapsedBound > 0 /\ \A n \in SleepTicks : n <= ElapsedBound

(* Who sleeps, and until when, only sleeping and waking change.              *)
SleepersKept ==
  /\ vk_ticks' = vk_ticks
  /\ \A t \in TCB : /\ state[t] = "BLOCKED" <=> state'[t] = "BLOCKED"
                    /\ state[t] = "BLOCKED" => wake_tick'[t] = wake_tick[t]

LEMMA OthersSleepOn ==
  ASSUME SchedInv, SchedInv', OtherStep \/ UNCHANGED vars
  PROVE  SleepersKept /\ (systick' = systick \/ SysTickReturn)
<1>1. /\ sleep_queue' = sleep_queue /\ vk_ticks' = vk_ticks
      /\ systick' = systick \/ SysTickReturn
  BY DEF OtherStep, BootCreate, vk_start, StartTimer, StartPick, StartPop, vk_task_yield,
         vk_task_exit, Trigger, vk_task_create, CreateFinish, CreateCheck, CreateLoad,
         CreateStore, CreateInsert, idle_task, SysTickReturn, PendSV, PendSVEnter,
         PendSV_Handler, vars, cpu
<1>2. \A t \in TCB : state[t] = "BLOCKED" <=> state'[t] = "BLOCKED"
  <2>1. Queued(sleep_queue) = {t \in TCB : state[t] = "BLOCKED"}
    BY DEF SchedInv, QueuesConsistent, Holds
  <2>2. Queued(sleep_queue') = {t \in TCB : state'[t] = "BLOCKED"}
    BY DEF SchedInv, QueuesConsistent, Holds
  <2> QED
    BY <1>1, <2>1, <2>2
<1>3. wake_tick' = wake_tick \/ \E t \in TCB :
        state[t] = "DEAD" /\ wake_tick' = [wake_tick EXCEPT ![t] = 0]
  <2>1. ASSUME NEW t \in Task, NEW p \in Prios, BootCreate(t, p)
        PROVE  t \in TCB /\ state[t] = "DEAD" /\ wake_tick' = [wake_tick EXCEPT ![t] = 0]
    BY <2>1, TCBFacts DEF BootCreate, populate
  <2>2. ASSUME NEW c \in Creators, CreateStore(c)
        PROVE  /\ args[c].tcb \in TCB /\ state[args[c].tcb] = "DEAD"
               /\ wake_tick' = [wake_tick EXCEPT ![args[c].tcb] = 0]
    BY <2>2, TCBFacts DEF CreateStore, populate, SchedInv, CallInv, Calling
  <2>3. CASE wake_tick' = wake_tick
    BY <2>3
  <2> QED
    BY <2>1, <2>2, <2>3
       DEF OtherStep, vk_start, StartTimer, StartPick, StartPop, vk_task_yield,
           vk_task_exit, Trigger, vk_task_create, CreateFinish, CreateCheck, CreateLoad,
           CreateInsert, idle_task, SysTickReturn, PendSV, PendSVEnter, PendSV_Handler,
           vars, tcbs
<1>4. \A t \in TCB : state[t] = "BLOCKED" => wake_tick'[t] = wake_tick[t]
  BY <1>3, TypeFacts DEF SchedInv, Key
<1> QED
  BY <1>1, <1>2, <1>4 DEF SleepersKept

(* The handler goes to its end only when every sleeper has time left.        *)
LEMMA NoneExpired ==
  ASSUME SchedInv, SysTickReturn, NEW t \in TCB, state[t] = "BLOCKED"
  PROVE  vk_ticks < wake_tick[t]
<1>1. t \in Queued(sleep_queue)
  BY DEF SchedInv, QueuesConsistent, Holds
<1>2. sleep_queue # <<>>
  BY <1>1 DEF Queued
<1>3. /\ Head(sleep_queue) \in TCB
      /\ wake_tick[Head(sleep_queue)] <= wake_tick[t]
  BY <1>1, <1>2, TypeFacts, HeadTailOfList DEF SchedInv, QueuesConsistent, Holds, Key
<1>4. ~(wake_tick[Head(sleep_queue)] <= vk_ticks)
  BY <1>2 DEF SysTickReturn, Expired
<1>5. vk_ticks \in Int /\ wake_tick[t] \in Int /\ wake_tick[Head(sleep_queue)] \in Int
  BY <1>3, TCBFacts DEF SchedInv, TypeOK
<1> QED
  BY <1>3, <1>4, <1>5

(* The task that the handler wakes is due, and one that slept till then.     *)
LEMMA WokenIsDue ==
  ASSUME SchedInv, SysTickWake
  PROVE  LET h == Head(sleep_queue) IN
         /\ h \in Task /\ state[h] = "BLOCKED" /\ wake_tick[h] <= vk_ticks
         /\ state' = [state EXCEPT ![h] = "READY"]
         /\ UNCHANGED <<vk_ticks, wake_tick, systick>>
<1> DEFINE h == Head(sleep_queue)
<1>1. sleep_queue # <<>> /\ wake_tick[h] <= vk_ticks
  BY DEF SysTickWake, Expired
<1>2. h \in TCB /\ state[h] = "BLOCKED"
  BY <1>1, TypeFacts, HeadTailOfList DEF SchedInv, QueuesConsistent, Holds
<1>3. h \in Task
  BY <1>2 DEF SchedInv, IdleInv, TCB
<1>4. /\ state' = [state EXCEPT ![h] = "READY"]
      /\ UNCHANGED <<vk_ticks, wake_tick, systick>>
  BY DEF SysTickWake, ready_insert, cpu
<1> QED
  BY <1>1, <1>2, <1>3, <1>4

LEMMA SleepTypes ==
  ASSUME SchedInv
  PROVE  /\ vk_ticks \in Nat
         /\ wake_tick \in [TCB -> Nat] /\ state \in [TCB -> State]
         /\ systick \in {"inactive", "active"}
<1>1. /\ vk_ticks \in 0 .. TickMod - 1
      /\ wake_tick \in [TCB -> 0 .. TickMod - 1]
      /\ systick \in {"inactive", "active"}
      /\ TypeOK
  BY DEF SchedInv, TypeOK
<1>2. 0 .. TickMod - 1 \subseteq Nat
  BY TCBFacts
<1>3. wake_tick \in [TCB -> Nat]
  BY <1>1, <1>2
<1> QED
  BY <1>1, <1>2, <1>3, TypeFacts

LEMMA ElapsedStep ==
  ASSUME NoWrap, CountsEnough, SchedInv, SchedInv', ElapsedInv, [SleepNext]_sleepVars
  PROVE  ElapsedInv'
<1>0. /\ vk_ticks \in Nat /\ vk_ticks <= TickHorizon
      /\ TickHorizon \in Nat /\ TickMod \in Nat /\ TickHorizon < TickMod
      /\ asked \in [Task -> Nat] /\ elapsed \in [Task -> Nat]
      /\ wake_tick \in [TCB -> Nat] /\ state \in [TCB -> State]
      /\ systick \in {"inactive", "active"}
      /\ Task \subseteq TCB /\ SleepTicks \subseteq Nat /\ ElapsedBound \in Nat
  <2>1. TickHorizon \in Nat /\ TickMod \in Nat /\ TickHorizon < TickMod
    BY SchedAssumption, TCBFacts DEF NoWrap
  <2> QED
    BY <2>1, SleepAssumption, TCBFacts, SleepTypes DEF ElapsedInv
<1>1. ASSUME NEW t \in Task, NEW n \in SleepTicks, FallAsleep(t, n) PROVE ElapsedInv'
  <2>1. /\ systick = "inactive" /\ UNCHANGED <<vk_ticks, systick>>
        /\ wake_tick' = [wake_tick EXCEPT ![t] = (vk_ticks + n) % TickMod]
        /\ state' = [state EXCEPT ![t] = "BLOCKED"]
        /\ asked' = [asked EXCEPT ![t] = n]
        /\ elapsed' = [elapsed EXCEPT ![t] = 0]
    BY <1>1 DEF FallAsleep, vk_task_sleep, sleep_insert, Executing, cpu
  <2>2. (vk_ticks + n) % TickMod = vk_ticks + n
    <3>1. n \in Nat /\ vk_ticks + n \in Nat /\ vk_ticks + n < TickMod
      BY <1>0 DEF NoWrap
    <3> QED
      BY <1>0, <3>1
  <2>3. ASSUME NEW u \in Task, state'[u] = "BLOCKED"
        PROVE  /\ asked'[u] \in SleepTicks
               /\ wake_tick'[u] + elapsed'[u] = vk_ticks' + asked'[u]
               /\ elapsed'[u] = 0 \/ elapsed'[u] < asked'[u]
    <3>1. CASE u = t
      <4>1. wake_tick'[u] = vk_ticks + n /\ asked'[u] = n /\ elapsed'[u] = 0
        BY <1>0, <2>1, <2>2, <3>1
      <4> QED
        BY <1>0, <2>1, <4>1
    <3>2. CASE u # t
      <4>1. /\ wake_tick'[u] = wake_tick[u] /\ asked'[u] = asked[u]
            /\ elapsed'[u] = elapsed[u] /\ state[u] = "BLOCKED"
        BY <1>0, <2>1, <2>3, <3>2
      <4> QED
        BY <2>1, <4>1 DEF ElapsedInv
    <3> QED
      BY <3>1, <3>2
  <2>4. asked' \in [Task -> Nat] /\ elapsed' \in [Task -> Nat]
    BY <1>0, <2>1
  <2> QED
    BY <1>0, <2>1, <2>3, <2>4 DEF ElapsedInv
<1>2. CASE CountTick
  <2>1. /\ systick = "inactive" /\ systick' = "active"
        /\ vk_ticks # TickHorizon /\ vk_ticks' = (vk_ticks + 1) % TickMod
        /\ UNCHANGED <<state, wake_tick, asked>>
        /\ elapsed' = [t \in Task |->
                         IF state[t] = "BLOCKED" /\ elapsed[t] < ElapsedBound
                         THEN elapsed[t] + 1 ELSE elapsed[t]]
    BY <1>2 DEF CountTick, SysTickEnter, tcbs
  <2>2. vk_ticks' = vk_ticks + 1 /\ vk_ticks' <= TickHorizon
    <3>1. vk_ticks + 1 \in Nat /\ vk_ticks + 1 <= TickHorizon /\ vk_ticks + 1 < TickMod
      BY <1>0, <2>1
    <3>2. (vk_ticks + 1) % TickMod = vk_ticks + 1
      BY <1>0, <3>1
    <3> QED
      BY <2>1, <3>1, <3>2
  <2>3. ASSUME NEW u \in Task, state'[u] = "BLOCKED"
        PROVE  /\ asked'[u] \in SleepTicks
               /\ wake_tick'[u] + elapsed'[u] = vk_ticks' + asked'[u]
               /\ elapsed'[u] \in 1 .. Duration(asked'[u])
    <3>1. /\ asked[u] \in SleepTicks /\ asked[u] \in Nat /\ asked[u] <= ElapsedBound
          /\ elapsed[u] \in Nat /\ wake_tick[u] \in Nat
          /\ wake_tick[u] + elapsed[u] = vk_ticks + asked[u]
          /\ elapsed[u] = 0 \/ elapsed[u] < asked[u]
      BY <1>0, <2>1, <2>3 DEF ElapsedInv, CountsEnough
    <3>2. elapsed[u] < ElapsedBound
      BY <1>0, <3>1 DEF CountsEnough
    <3>3. elapsed'[u] = elapsed[u] + 1 /\ asked'[u] = asked[u] /\ wake_tick'[u] = wake_tick[u]
      BY <2>1, <2>3, <3>2
    <3>4. wake_tick[u] + (elapsed[u] + 1) = (vk_ticks + 1) + asked[u]
      BY <1>0, <3>1
    <3>5. elapsed[u] + 1 \in 1 .. Duration(asked[u])
      BY <3>1 DEF Duration
    <3> QED
      BY <2>2, <3>1, <3>3, <3>4, <3>5
  <2>4. asked' \in [Task -> Nat] /\ elapsed' \in [Task -> Nat]
    BY <1>0, <2>1
  <2> QED
    BY <2>1, <2>2, <2>3, <2>4 DEF ElapsedInv
<1>3. CASE Wake
  <2> DEFINE h == Head(sleep_queue)
  <2>1. /\ state' = [state EXCEPT ![h] = "READY"]
        /\ UNCHANGED <<vk_ticks, wake_tick, systick>>
    BY <1>3, WokenIsDue DEF Wake
  <2>2. asked' = [asked EXCEPT ![h] = 0] /\ elapsed' = [elapsed EXCEPT ![h] = 0]
    BY <1>3 DEF Wake
  <2> HIDE DEF h
  <2>3. \A u \in Task : state'[u] = "BLOCKED" =>
          /\ u # h /\ state[u] = "BLOCKED"
          /\ asked'[u] = asked[u] /\ elapsed'[u] = elapsed[u]
    BY <1>0, <2>1, <2>2
  <2>4. asked' \in [Task -> Nat] /\ elapsed' \in [Task -> Nat]
    BY <1>0, <2>2
  <2> QED
    BY <2>1, <2>3, <2>4 DEF ElapsedInv
<1>4. CASE (OtherStep /\ UNCHANGED <<asked, elapsed>>) \/ UNCHANGED sleepVars
  <2>1. SleepersKept /\ (systick' = systick \/ SysTickReturn) /\ UNCHANGED <<asked, elapsed>>
    BY <1>4, OthersSleepOn DEF sleepVars
  <2>2. CASE systick' = systick
    BY <1>0, <2>1, <2>2 DEF ElapsedInv, SleepersKept
  <2>3. CASE SysTickReturn
    <3>1. systick' = "inactive"
      BY <2>3 DEF SysTickReturn
    <3>2. ASSUME NEW u \in Task, state[u] = "BLOCKED" PROVE elapsed[u] < asked[u]
      <4>1. vk_ticks < wake_tick[u]
        BY <1>0, <2>3, <3>2, NoneExpired
      <4>2. /\ asked[u] \in Nat /\ elapsed[u] \in Nat /\ wake_tick[u] \in Nat
            /\ wake_tick[u] + elapsed[u] = vk_ticks + asked[u]
        BY <1>0, <3>2 DEF ElapsedInv
      <4> QED
        BY <1>0, <4>1, <4>2
    <3> QED
      BY <1>0, <2>1, <3>1, <3>2 DEF ElapsedInv, SleepersKept
  <2> QED
    BY <2>1, <2>2, <2>3
<1> QED
  BY <1>1, <1>2, <1>3, <1>4 DEF SleepNext

(* Only the handler of the tick ends a sleep, and then its time is up.       *)
LEMMA WakesOnTime ==
  ASSUME SchedInv, SchedInv', ElapsedInv, [SleepNext]_sleepVars,
         NEW t \in Task, WokenUp(t)
  PROVE  elapsed[t] = IF asked[t] = 0 THEN 1 ELSE asked[t]
<1>0. t \in TCB /\ state[t] = "BLOCKED" /\ state'[t] # "BLOCKED" /\ state \in [TCB -> State]
  BY TCBFacts, TypeFacts DEF WokenUp, SchedInv
<1>1. ASSUME NEW u \in Task, NEW n \in SleepTicks, FallAsleep(u, n) PROVE FALSE
  BY <1>0, <1>1 DEF FallAsleep, vk_task_sleep, sleep_insert
<1>2. ASSUME CountTick PROVE FALSE
  BY <1>0, <1>2 DEF CountTick, SysTickEnter, tcbs
<1>3. ASSUME OtherStep \/ UNCHANGED sleepVars PROVE FALSE
  BY <1>0, <1>3, OthersSleepOn DEF SleepersKept, sleepVars
<1>4. Wake
  BY <1>1, <1>2, <1>3 DEF SleepNext
<1>5. t = Head(sleep_queue) /\ wake_tick[t] <= vk_ticks /\ systick = "active"
  BY <1>0, <1>4, WokenIsDue DEF Wake, SysTickWake
<1>6. /\ asked[t] \in Nat /\ elapsed[t] \in Nat /\ wake_tick[t] \in Nat /\ vk_ticks \in Nat
      /\ wake_tick[t] + elapsed[t] = vk_ticks + asked[t]
      /\ elapsed[t] \in 1 .. Duration(asked[t])
  <2>1. vk_ticks \in Nat /\ wake_tick \in [TCB -> Nat]
    BY SleepTypes
  <2> QED
    BY <1>0, <1>5, <2>1, TCBFacts DEF ElapsedInv
<1> QED
  BY <1>5, <1>6 DEF Duration

(* While the tick counter does not wrap, vk_task_sleep(n) ends in the n-th   *)
(* tick after the call, the next one for 0, whoever else sleeps or runs.     *)
THEOREM SleepExact ==
  ASSUME NoWrap, CountsEnough
  PROVE  SleepSpec => SleepIsExact
<1>1. SleepSpec => Spec
  BY SleepStepIsStep, PTL DEF SleepSpec, SleepInit, Spec
<1>2. SleepInit => ElapsedInv
  BY SchedAssumption, TCBFacts DEF SleepInit, Init, ElapsedInv
<1>3. SchedInv /\ SchedInv' /\ ElapsedInv /\ [SleepNext]_sleepVars => ElapsedInv'
  BY ElapsedStep
<1>4. SchedInv /\ SchedInv' /\ ElapsedInv /\ [SleepNext]_sleepVars
        => [\A t \in Task : WokenUp(t) =>
              elapsed[t] = IF asked[t] = 0 THEN 1 ELSE asked[t]]_sleepVars
  BY WakesOnTime
<1> QED
  BY <1>1, <1>2, <1>3, <1>4, Invariant, PTL DEF SleepSpec, SleepIsExact

-------------------------------------------------------------------------------
\* Ids.

(* Calls of vk_task_create from tasks cannot overlap.                       *)
OneCreator == \A c, d \in Creators : c = d

Live(t) == state[t] # "DEAD"

IdsBelow == \A t \in TCB : Live(t) => id[t] < task_count

(* What a creator read of task_count still holds, and the id it wrote is    *)
(* nobody else's.                                                           *)
CallIds ==
  \A c \in Creators :
    /\ pc[c] \in {"fill", "count"} => task_count < MaxTasks
    /\ pc[c] = "count" => args[c].count = task_count
    /\ pc[c] = "insert" => /\ id[args[c].tcb] < task_count
                           /\ \A t \in TCB : Live(t) => id[t] # id[args[c].tcb]

IdInv == IdsUnique /\ IdsBelow /\ CallIds

(* No task begins, and no creator gets further.                             *)
LEMMA IdsKept ==
  ASSUME IdInv, UNCHANGED <<task_count, id, args>>,
         \A t \in TCB : Live(t)' => Live(t),
         \A c \in Creators : Calling(c)' => pc'[c] = pc[c]
  PROVE  IdInv'
<1>1. IdsUnique' /\ IdsBelow'
  BY DEF IdInv, IdsUnique, IdsBelow, Live
<1>2. ASSUME NEW c \in Creators, pc'[c] = pc[c]
      PROVE  /\ pc'[c] \in {"fill", "count"} => task_count' < MaxTasks
             /\ pc'[c] = "count" => args'[c].count = task_count'
             /\ pc'[c] = "insert" =>
                  /\ id'[args'[c].tcb] < task_count'
                  /\ \A t \in TCB : Live(t)' => id'[t] # id'[args'[c].tcb]
  BY <1>2 DEF IdInv, CallIds
<1>3. CallIds'
  BY <1>2 DEF CallIds, Calling
<1> QED
  BY <1>1, <1>3 DEF IdInv

LEMMA IdStep ==
  ASSUME OneCreator, SchedInv, IdInv, [Next]_vars
  PROVE  IdInv'
<1>0. /\ task_count \in Nat /\ MaxTasks \in Nat
      /\ id \in [TCB -> Nat] /\ state \in [TCB -> State]
      /\ DOMAIN pc = TCB /\ DOMAIN args = Creators
  BY SchedAssumption, TypeFacts DEF SchedInv, TypeOK
<1>1. ASSUME NEW t \in Task, NEW p \in Prios, BootCreate(t, p) PROVE IdInv'
  <2>1. /\ t \in TCB /\ phase = "boot" /\ task_count < MaxTasks
        /\ id' = [id EXCEPT ![t] = task_count]
        /\ task_count' = task_count + 1
        /\ state' = [state EXCEPT ![t] = "READY"]
        /\ pc' = [pc EXCEPT ![t] = "run"]
    BY <1>1, TCBFacts DEF BootCreate, populate, enlist
  <2>2. \A c \in Creators : pc'[c] \notin {"fill", "count", "insert"}
    BY <2>1, <1>0, TCBFacts DEF SchedInv, CallInv, Calling
  <2>3. IdsUnique' /\ IdsBelow'
    BY <2>1, <1>0 DEF IdInv, IdsUnique, IdsBelow, Live
  <2> QED
    BY <2>2, <2>3 DEF IdInv, CallIds
<1>2. CASE vk_start
  <2>1. CASE StartTimer \/ StartPick
    BY <2>1, IdsKept DEF StartTimer, StartPick, tcbs, Live
  <2>2. CASE StartPop
    <3>1. ready_queue # <<>> /\ vk_current = Head(ready_queue)
      BY <2>2 DEF StartPop, SchedInv, StartInv
    <3>2. vk_current \in TCB /\ state[vk_current] = "READY"
      BY <3>1, TypeFacts, HeadTailOfList DEF SchedInv, QueuesConsistent, Holds
    <3> QED
      BY <2>2, <3>2, <1>0, IdsKept DEF StartPop, Live
  <2> QED
    BY <1>2, <2>1, <2>2 DEF vk_start
<1>3. ASSUME NEW t \in Task, Relinquish(t) PROVE IdInv'
  <2>0. t \in TCB
    BY TCBFacts
  <2>1. CASE vk_task_yield(t)
    BY <2>1, IdsKept DEF vk_task_yield, tcbs, Live
  <2>2. ASSUME NEW n \in SleepTicks, vk_task_sleep(t, n) PROVE IdInv'
    <3>1. /\ state[t] = "RUNNING"
          /\ state' = [state EXCEPT ![t] = "BLOCKED"]
          /\ pc' = [pc EXCEPT ![t] = "sleep"]
          /\ UNCHANGED <<task_count, id, args>>
      BY <2>2, <2>0, TCBFacts
         DEF vk_task_sleep, sleep_insert, Executing, SchedInv, CurrentInv
    <3> QED
      BY <3>1, <2>0, <1>0, TCBFacts, IdsKept DEF Live, Calling
  <2>3. CASE vk_task_exit(t)
    BY <2>3, <2>0, <1>0, TCBFacts, IdsKept DEF vk_task_exit, Live, Calling
  <2>4. CASE Trigger(t)
    BY <2>4, <2>0, <1>0, TCBFacts, IdsKept DEF Trigger, tcbs, Live, Calling
  <2> QED
    BY <1>3, <2>1, <2>2, <2>3, <2>4 DEF Relinquish
<1>4. ASSUME NEW c \in Creators, vk_task_create(c) PROVE IdInv'
  <2>0. c \in TCB /\ \A d \in Creators : d = c
    BY TCBFacts DEF OneCreator
  <2>1. ASSUME NEW t \in Task, NEW p \in Prios, CreateCheck(c, t, p)
        PROVE  IdInv'
    <3>1. /\ task_count < MaxTasks /\ pc'[c] = "fill"
          /\ UNCHANGED <<task_count, id, state>>
      BY <2>1, <2>0, <1>0 DEF CreateCheck, tcbs
    <3> QED
      BY <3>1, <2>0 DEF IdInv, IdsUnique, IdsBelow, CallIds, Live
  <2>2. CASE CreateLoad(c)
    <3>1. /\ task_count < MaxTasks /\ pc'[c] = "count"
          /\ args'[c].count = task_count
          /\ UNCHANGED <<task_count, id, state>>
      BY <2>2, <2>0, <1>0 DEF CreateLoad, tcbs, IdInv, CallIds, SchedInv, TypeOK
    <3> QED
      BY <3>1, <2>0 DEF IdInv, IdsUnique, IdsBelow, CallIds, Live
  <2>3. CASE CreateStore(c)
    <3>1. /\ task_count < MaxTasks /\ task_count' = task_count + 1
          /\ id' = [id EXCEPT ![args[c].tcb] = task_count]
          /\ args[c].tcb \in TCB /\ ~Live(args[c].tcb)
          /\ pc'[c] = "insert" /\ UNCHANGED <<state, args>>
      BY <2>3, <2>0, <1>0, TCBFacts
         DEF CreateStore, populate, IdInv, CallIds, SchedInv, CallInv, Calling,
             Live
    <3>2. IdsUnique' /\ IdsBelow'
      BY <3>1, <1>0 DEF IdInv, IdsUnique, IdsBelow, Live
    <3>3. \A t \in TCB : Live(t) => id'[t] < task_count
      BY <3>1, <1>0 DEF IdInv, IdsBelow, Live
    <3>4. id'[args[c].tcb] = task_count
      BY <3>1, <1>0
    <3>5. CallIds'
      BY <3>1, <3>3, <3>4, <2>0, <1>0 DEF CallIds, Live
    <3> QED
      BY <3>2, <3>5 DEF IdInv
  <2>4. CASE CreateInsert(c)
    <3>1. /\ args[c].tcb \in TCB /\ id[args[c].tcb] < task_count
          /\ \A t \in TCB : Live(t) => id[t] # id[args[c].tcb]
          /\ state' = [state EXCEPT ![args[c].tcb] = "READY"]
          /\ UNCHANGED <<task_count, id>>
      BY <2>4, <2>0, TCBFacts
         DEF CreateInsert, ready_insert, IdInv, CallIds, SchedInv, CallInv,
             Calling
    <3>2. IdsUnique' /\ IdsBelow'
      BY <3>1, <1>0 DEF IdInv, IdsUnique, IdsBelow, Live
    <3>3. pc'[c] = "run"
      BY <2>4, <2>0, <1>0, TCBFacts
         DEF CreateInsert, SchedInv, CallInv, Calling
    <3> QED
      BY <3>2, <3>3, <2>0 DEF IdInv, CallIds
  <2> QED
    BY <1>4, <2>1, <2>2, <2>3, <2>4 DEF vk_task_create, CreateFinish
<1>5. CASE idle_task \/ UNCHANGED vars
  BY <1>5, IdsKept DEF idle_task, vars, Live
<1>6. CASE SysTick_Handler
  <2>1. CASE SysTickEnter \/ SysTickReturn
    BY <2>1, IdsKept DEF SysTickEnter, SysTickReturn, tcbs, Live
  <2>2. CASE SysTickWake
    <3>1. Head(sleep_queue) \in TCB /\ state[Head(sleep_queue)] = "BLOCKED"
      BY <2>2, TypeFacts, HeadTailOfList
         DEF SysTickWake, Expired, SchedInv, QueuesConsistent, Holds
    <3> QED
      BY <2>2, <3>1, <1>0, IdsKept DEF SysTickWake, ready_insert, Live
  <2> QED
    BY <1>6, <2>1, <2>2 DEF SysTick_Handler
<1>7. CASE PendSV
  <2>1. CASE PendSVEnter
    BY <2>1, IdsKept DEF PendSVEnter, tcbs, Live
  <2>2. CASE PendSV_Handler
    <3>1. \A u \in TCB : state[u] = "DEAD" <=> state'[u] = "DEAD"
      BY <2>2, NoneAway, ScheduleInv
    <3> QED
      BY <2>2, <3>1, IdsKept DEF PendSV_Handler, Live
  <2> QED
    BY <1>7, <2>1, <2>2 DEF PendSV
<1> QED
  BY <1>1, <1>2, <1>3, <1>4, <1>5, <1>6, <1>7 DEF Next

(* With one creator every live task has an id of its own, and no more than   *)
(* VULCAN_MAX_TASKS are handed out, whatever interrupts vk_task_create.      *)
THEOREM UniqueIds == OneCreator => (Spec => []IdsUnique)
<1> SUFFICES ASSUME OneCreator PROVE Spec => []IdsUnique
  OBVIOUS
<1>1. Init => IdInv
  <2> SUFFICES ASSUME Init PROVE IdInv
    OBVIOUS
  <2>1. task_count = 1 /\ id = [t \in TCB |-> 0] /\ MaxTasks \in Nat \ {0}
    BY SchedAssumption DEF Init
  <2>2. \A t \in TCB : Live(t) => t = Idle
    BY DEF Init, Live
  <2>3. \A c \in Creators : pc[c] = "off"
    BY TCBFacts DEF Init
  <2> QED
    BY <2>1, <2>2, <2>3 DEF IdInv, IdsUnique, IdsBelow, CallIds, Live
<1>2. IdInv /\ SchedInv /\ [Next]_vars => IdInv'
  BY IdStep
<1>3. IdInv => IdsUnique
  BY DEF IdInv
<1> QED
  BY <1>1, <1>2, <1>3, Invariant, PTL DEF Spec

===============================================================================
