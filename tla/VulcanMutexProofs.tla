-------------------------- MODULE VulcanMutexProofs --------------------------
(***************************************************************************)
(* Mutual exclusion, and the wait queues, for any tasks, mutexes and       *)
(* priorities.  The argument for the first is about the exclusive monitor: *)
(* while it is exclusive the task that made it so still executes, between  *)
(* its LDREX and its STREX, and the lock word is what it loaded.  Nothing  *)
(* is needed from the scheduler but that a task executes only as           *)
(* vk_current and outside exceptions.  That no wake-up is lost and no      *)
(* blocked task is on two queues needs the scheduler's own invariant, with *)
(* the tasks that wait for a mutex away.                                   *)
(***************************************************************************)
EXTENDS VulcanMutex, VulcanSchedProofs, FiniteSetTheorems

-------------------------------------------------------------------------------
\* Mutual exclusion.

Within == {"ldrex", "strex", "owner", "recheck", "blocked"}

MutexTypes ==
  /\ locked \in [Mutex -> {0, 1}]
  /\ owner \in [Mutex -> Task \cup {NULL}]
  /\ monitor \in {"open", "exclusive"}
  /\ mpc \in [Task -> Within \cup {"out", "unlocked"}]
  /\ call \in [Task -> [mutex : Mutex \cup {NULL}, blocking : BOOLEAN]]
  /\ holds \in [Task -> SUBSET Mutex]
  /\ \A t \in Task : mpc[t] \in Within => call[t].mutex \in Mutex

(* The monitor belongs to the task that executes. *)
MonitorInv ==
  monitor = "exclusive" =>
    /\ phase = "run" /\ systick = "inactive" /\ pendsv = {}
    /\ vk_current \in Task
    /\ mpc[vk_current] = "strex"
    /\ locked[call[vk_current].mutex] = 0

MutexInv == MutexTypes /\ MonitorInv /\ MutualExclusion

-------------------------------------------------------------------------------
(* Steps that leave the variables of the mutex code alone, or clear the      *)
(* monitor as well, keep the invariant if they end in thread code with the   *)
(* monitor's task or with the monitor open.                                  *)
LEMMA Elsewhere ==
  ASSUME MutexInv, UNCHANGED <<mutexes, mpc, call, holds>>,
         \/ monitor' = "open"
         \/ monitor' = monitor /\ UNCHANGED <<phase, systick, pendsv, vk_current>>
         \/ monitor' = monitor /\ monitor = "open"
  PROVE  MutexInv'
<1>1. MutexTypes'
  BY DEF MutexInv, MutexTypes, mutexes
<1>2. MutualExclusion'
  BY DEF MutexInv, MutualExclusion, Has, mutexes
<1>3. MonitorInv'
  BY DEF MutexInv, MonitorInv, mutexes
<1> QED
  BY <1>1, <1>2, <1>3 DEF MutexInv

LEMMA ExclusionInit == MutexInit => MutexInv
  BY DEF MutexInit, MutexInv, MutexTypes, MonitorInv, MutualExclusion, Has,
         NoMutexCall, Within

-------------------------------------------------------------------------------
\* The code of the mutex, an action at a time.

(* While a task executes, the monitor is open or its own. *)
LEMMA Own ==
  ASSUME MutexInv, NEW t \in Task, Executing(t), mpc[t] # "strex"
  PROVE  monitor = "open"
  BY DEF MutexInv, MutexTypes, MonitorInv, Executing

(* A task that moves on inside the code, and does not get the mutex there.   *)
LEMMA Moves ==
  ASSUME MutexInv, NEW t \in Task, NEW place \in Within \ {"owner"},
         mpc[t] \in Within \ {"owner"}, GoTo(t, place),
         monitor' = "open", UNCHANGED <<locked, owner, holds>>
  PROVE  MutexInv'
<1>1. MutexTypes'
  BY DEF MutexInv, MutexTypes, GoTo, Within
<1>2. \A u \in Task, m \in Mutex : Has(u, m)' <=> Has(u, m)
  BY DEF MutexInv, MutexTypes, Has, GoTo, Within
<1>3. MutualExclusion'
  BY <1>2 DEF MutexInv, MutualExclusion
<1>4. MonitorInv'
  BY DEF MonitorInv
<1> QED
  BY <1>1, <1>3, <1>4 DEF MutexInv

(* A call that is over, or begins. *)
LEMMA Outwards ==
  ASSUME MutexInv, NEW t \in Task, mpc[t] # "owner", monitor' = "open",
         NEW c \in [mutex : Mutex \cup {NULL}, blocking : BOOLEAN],
         NEW place \in {"out", "ldrex"}, place = "ldrex" => c.mutex \in Mutex,
         mpc' = [mpc EXCEPT ![t] = place], call' = [call EXCEPT ![t] = c],
         UNCHANGED <<locked, owner, holds>>
  PROVE  MutexInv'
<1>1. MutexTypes'
  BY DEF MutexInv, MutexTypes, Within
<1>2. \A u \in Task, m \in Mutex : Has(u, m)' <=> Has(u, m)
  BY DEF MutexInv, MutexTypes, Has, Within
<1>3. MutualExclusion'
  BY <1>2 DEF MutexInv, MutualExclusion
<1>4. MonitorInv'
  BY DEF MonitorInv
<1> QED
  BY <1>1, <1>3, <1>4 DEF MutexInv

(* The load: the monitor becomes exclusive, with the lock word at 0. *)
LEMMA LoadFreeInv ==
  ASSUME MutexInv, NEW t \in Task, LoadFree(t)
  PROVE  MutexInv'
<1>1. mpc' = [mpc EXCEPT ![t] = "strex"] /\ call' = call /\ locked' = locked
  BY DEF LoadFree, GoTo, mutexes
<1>2. MutexTypes'
  BY DEF MutexInv, MutexTypes, LoadFree, GoTo, At, mutexes, Within
<1>3. \A u \in Task, m \in Mutex : Has(u, m)' <=> Has(u, m)
  BY DEF MutexInv, MutexTypes, Has, LoadFree, GoTo, At, mutexes, Within
<1>4. MutualExclusion'
  BY <1>3 DEF MutexInv, MutualExclusion, LoadFree, mutexes
<1>5. MonitorInv'
  BY <1>1 DEF MutexInv, MutexTypes, MonitorInv, LoadFree, At, Executing, vars
<1> QED
  BY <1>2, <1>4, <1>5 DEF MutexInv

(* The store: nobody has a mutex whose lock word is 0. *)
LEMMA StoreDoneInv ==
  ASSUME MutexInv, NEW t \in Task, StoreDone(t)
  PROVE  MutexInv'
<1> DEFINE m == call[t].mutex
<1>1. m \in Mutex /\ locked[m] = 0 /\ mpc[t] = "strex"
  BY DEF MutexInv, MutexTypes, MonitorInv, StoreDone, At, Executing, Within
<1>2. MutexTypes'
  BY <1>1 DEF MutexInv, MutexTypes, StoreDone, GoTo, Within
<1>3. \A u \in Task, n \in Mutex :
        Has(u, n)' <=> Has(u, n) \/ (u = t /\ n = m)
  BY <1>1 DEF MutexInv, MutexTypes, Has, StoreDone, GoTo, Within
<1>4. \A u \in Task : ~Has(u, m)
  BY <1>1 DEF MutexInv, MutualExclusion
<1>5. locked' = [locked EXCEPT ![m] = 1] /\ UNCHANGED <<owner, holds>>
  BY DEF StoreDone
<1>6. MutualExclusion'
  BY <1>1, <1>3, <1>4, <1>5 DEF MutexInv, MutexTypes, MutualExclusion
<1>7. MonitorInv'
  BY DEF MonitorInv, StoreDone
<1> QED
  BY <1>2, <1>6, <1>7 DEF MutexInv

(* The owner is written by the one that has the mutex. *)
LEMMA SetOwnerInv ==
  ASSUME MutexInv, NEW t \in Task, SetOwner(t)
  PROVE  MutexInv'
<1> DEFINE m == call[t].mutex
<1>1. m \in Mutex /\ mpc[t] = "owner" /\ vk_current = t
  BY DEF MutexInv, MutexTypes, SetOwner, At, Executing, Within
<1>2. /\ owner' = [owner EXCEPT ![m] = t]
      /\ holds' = [holds EXCEPT ![t] = @ \cup {m}]
      /\ mpc' = [mpc EXCEPT ![t] = "out"]
      /\ call' = [call EXCEPT ![t] = NoMutexCall]
      /\ locked' = locked
  BY <1>1 DEF SetOwner, Return
<1>3. monitor' = "open"
  BY Own DEF SetOwner, At
<1>4. MutexTypes'
  BY <1>1, <1>2, <1>3 DEF MutexInv, MutexTypes, NoMutexCall, Within
<1>5. \A u \in Task, n \in Mutex : Has(u, n)' <=> Has(u, n)
  BY <1>1, <1>2 DEF MutexInv, MutexTypes, Has
<1>6. \A u \in Task : Has(u, m) => u = t
  BY <1>1 DEF MutexInv, MutualExclusion, Has
<1>7. ASSUME NEW u \in Task, NEW n \in Mutex, n \in holds'[u]
      PROVE  owner'[n] = u
  <2>1. Has(u, n)
    BY <1>1, <1>2, <1>7 DEF MutexInv, MutexTypes, Has
  <2>2. CASE n = m
    BY <1>1, <1>2, <1>6, <2>1, <2>2 DEF MutexInv, MutexTypes
  <2>3. CASE n # m
    BY <1>1, <1>2, <1>7, <2>3 DEF MutexInv, MutexTypes, MutualExclusion
  <2> QED
    BY <2>2, <2>3
<1>8. MutualExclusion'
  BY <1>2, <1>5, <1>7 DEF MutexInv, MutualExclusion
<1>9. MonitorInv'
  BY <1>3 DEF MonitorInv
<1> QED
  BY <1>4, <1>8, <1>9 DEF MutexInv

(* Nobody has a mutex that its holder has released. *)
LEMMA UnlockInv ==
  ASSUME MutexInv, NEW t \in Task, NEW m \in Mutex, vk_mutex_unlock(t, m)
  PROVE  MutexInv'
<1>1. /\ mpc[t] = "out" /\ m \in holds[t]
      /\ locked' = [locked EXCEPT ![m] = 0]
      /\ owner' = [owner EXCEPT ![m] = NULL]
      /\ holds' = [holds EXCEPT ![t] = @ \ {m}]
      /\ mpc' = [mpc EXCEPT ![t] = "unlocked"]
      /\ call' = call
  BY DEF vk_mutex_unlock, At
<1>2. monitor' = "open"
  BY Own DEF vk_mutex_unlock, At
<1>3. MutexTypes'
  BY <1>1, <1>2 DEF MutexInv, MutexTypes, Within
<1>4. \A u \in Task : Has(u, m) => u = t
  BY <1>1 DEF MutexInv, MutualExclusion, Has
<1>5. \A u \in Task, n \in Mutex : Has(u, n)' <=> Has(u, n) /\ n # m
  BY <1>1, <1>4 DEF MutexInv, MutexTypes, Has
<1>6. \A u \in Task, n \in Mutex : n \in holds'[u] => n \in holds[u] /\ n # m
  BY <1>1, <1>4 DEF MutexInv, MutexTypes, Has
<1>7. MutualExclusion'
  BY <1>1, <1>5, <1>6 DEF MutexInv, MutexTypes, MutualExclusion
<1>8. MonitorInv'
  BY <1>2 DEF MonitorInv
<1> QED
  BY <1>3, <1>7, <1>8 DEF MutexInv

LEMMA UnlockTriggerInv ==
  ASSUME MutexInv, NEW t \in Task, UnlockTrigger(t)
  PROVE  MutexInv'
<1>1. mpc[t] # "owner" /\ monitor' = "open"
  BY Own DEF UnlockTrigger, At
<1>2. NoMutexCall \in [mutex : Mutex \cup {NULL}, blocking : BOOLEAN]
  BY DEF NoMutexCall
<1> QED
  BY <1>1, <1>2, Outwards DEF UnlockTrigger, Return, mutexes

-------------------------------------------------------------------------------
LEMMA CallInvKept ==
  ASSUME MutexInv, NEW t \in Task, NEW m \in Mutex, NEW blocking \in BOOLEAN,
         Call(t, m, blocking)
  PROVE  MutexInv'
<1>1. mpc[t] # "owner" /\ monitor' = "open"
  BY Own DEF Call, At
<1>2. [mutex |-> m, blocking |-> blocking]
        \in [mutex : Mutex \cup {NULL}, blocking : BOOLEAN]
  OBVIOUS
<1> QED
  BY <1>1, <1>2, Outwards DEF Call, mutexes

(* Every step of a call that was begun. *)
LEMMA FinishInv ==
  ASSUME MutexInv, NEW t \in Task, Finish(t)
  PROVE  MutexInv'
<1>1. CASE LoadFree(t)
  BY <1>1, LoadFreeInv
<1>2. CASE LoadLocked(t)
  <2>1. mpc[t] = "ldrex" /\ monitor' = "open" /\ UNCHANGED <<locked, owner, holds>>
    BY <1>2 DEF LoadLocked, At, mutexes
  <2>2. CASE GoTo(t, "recheck")
    BY <2>1, <2>2, Moves DEF Within
  <2>3. CASE Return(t)
    <3>1. NoMutexCall \in [mutex : Mutex \cup {NULL}, blocking : BOOLEAN]
      BY DEF NoMutexCall
    <3> QED
      BY <2>1, <2>3, <3>1, Outwards DEF Return
  <2> QED
    BY <1>2, <2>2, <2>3 DEF LoadLocked
<1>3. CASE StoreDone(t)
  BY <1>3, StoreDoneInv
<1>4. CASE StoreFailed(t)
  BY <1>4, Moves DEF StoreFailed, At, mutexes, Within
<1>5. CASE SetOwner(t)
  BY <1>5, SetOwnerInv
<1>6. CASE RecheckFree(t)
  <2>1. mpc[t] = "recheck" /\ monitor' = "open"
    BY <1>6, Own DEF RecheckFree, At
  <2> QED
    BY <1>6, <2>1, Moves DEF RecheckFree, mutexes, Within
<1>7. CASE Block(t)
  <2>1. mpc[t] = "recheck" /\ monitor' = "open"
    BY <1>7, Own DEF Block, Enqueue, At
  <2> QED
    BY <1>7, <2>1, Moves DEF Block, Enqueue, Within
<1>8. CASE BlockTrigger(t)
  <2>1. mpc[t] = "blocked" /\ monitor' = "open"
    BY <1>8, Own DEF BlockTrigger, At
  <2> QED
    BY <1>8, <2>1, Moves DEF BlockTrigger, mutexes, Within
<1>9. CASE UnlockTrigger(t)
  BY <1>9, UnlockTriggerInv
<1> QED
  BY <1>1, <1>2, <1>3, <1>4, <1>5, <1>6, <1>7, <1>8, <1>9 DEF Finish

(* What tasks do outside the mutex they do with the monitor open. *)
LEMMA OutsideInv ==
  ASSUME MutexInv, NEW t \in Task, Outside(t)
  PROVE  MutexInv'
<1>1. Executing(t)
  BY DEF Outside, vk_task_yield, vk_task_sleep, vk_task_exit, Trigger,
         vk_task_create, CreateCheck, CreateFinish, CreateLoad, CreateStore,
         CreateInsert
<1>2. monitor = "open"
  BY <1>1, Own DEF Outside
<1> QED
  BY <1>2, Elsewhere DEF Outside, mutexVars

LEMMA StartUpInv ==
  ASSUME MutexInv, StartUp
  PROVE  MutexInv'
<1>1. phase # "run"
  BY DEF StartUp, BootCreate, vk_start, StartTimer, StartPick, StartPop
<1>2. monitor = "open"
  BY <1>1 DEF MutexInv, MutexTypes, MonitorInv
<1> QED
  BY <1>2, Elsewhere DEF StartUp, mutexVars

(* Exceptions find the monitor open, or open it. *)
LEMMA ExceptionInv ==
  ASSUME MutexInv, MutexSysTick \/ MutexPendSV
  PROVE  MutexInv'
<1>1. CASE ClearMonitor
  BY <1>1, Elsewhere DEF ClearMonitor
<1>2. CASE (SysTickWake \/ SysTickReturn \/ PendSV_Handler) /\ UNCHANGED mutexVars
  <2>1. systick # "inactive" \/ pendsv # {}
    BY <1>2 DEF SysTickWake, SysTickReturn, PendSV_Handler
  <2>2. monitor = "open"
    BY <2>1 DEF MutexInv, MutexTypes, MonitorInv
  <2> QED
    BY <1>2, <2>2, Elsewhere DEF mutexVars
<1> QED
  BY <1>1, <1>2 DEF MutexSysTick, MutexPendSV

LEMMA ExclusionStep == MutexInv /\ [MutexNext]_allVars => MutexInv'
<1> SUFFICES ASSUME MutexInv, [MutexNext]_allVars PROVE MutexInv'
  OBVIOUS
<1>1. CASE UNCHANGED allVars
  BY <1>1, Elsewhere DEF allVars, mutexVars, vars
<1>2. CASE StartUp
  BY <1>2, StartUpInv
<1>3. CASE \E t \in Task : Lock(t)
  BY <1>3, CallInvKept DEF Lock, vk_mutex_lock, vk_mutex_trylock
<1>4. CASE \E t \in Task : Unlock(t)
  BY <1>4, UnlockInv DEF Unlock
<1>5. CASE \E t \in Task : Finish(t)
  BY <1>5, FinishInv
<1>6. CASE \E t \in Task : Outside(t)
  BY <1>6, OutsideInv
<1>7. CASE idle_task /\ UNCHANGED mutexVars
  BY <1>7, Elsewhere DEF idle_task, mutexVars, vars
<1>8. CASE MutexSysTick \/ MutexPendSV
  BY <1>8, ExceptionInv
<1> QED
  BY <1>1, <1>2, <1>3, <1>4, <1>5, <1>6, <1>7, <1>8 DEF MutexNext

(* MutexInv is an invariant of the mutexes. *)
THEOREM ExclusionInvariant == MutexSpec => []MutexInv
  BY ExclusionInit, ExclusionStep, PTL DEF MutexSpec

(* One task at most has a mutex, and the mutex says so, wherever the LDREX   *)
(* and STREX of vk_mutex_trylock are interrupted.                            *)
THEOREM Exclusion == MutexSpec => []MutualExclusion
<1>1. MutexInv => MutualExclusion
  BY DEF MutexInv
<1> QED
  BY <1>1, ExclusionInvariant, PTL

-------------------------------------------------------------------------------
\* The wait queues.

Waiters == {t \in Task : \E m \in Mutex : t \in Queued(wait_queue[m])}

(* It executes, or will when the tick handler is through. *)
Runs(t) == phase = "run" /\ pendsv = {} /\ vk_current = t

(* A waiter is in the loop of vk_mutex_lock and has not gone on since it     *)
(* queued itself: it can still ask for the switch, and then it is off.       *)
WaitInv ==
  /\ wait_queue \in [Mutex -> Seq(Task)]
  /\ \A m \in Mutex : NoDuplicates(wait_queue[m])
  /\ \A m \in Mutex : \A t \in Queued(wait_queue[m]) :
       /\ call[t] = [mutex |-> m, blocking |-> TRUE]
       /\ mpc[t] \in {"blocked", "ldrex"}
       /\ Runs(t) => mpc[t] = "blocked"
  /\ \A t \in Task : mpc[t] \in {"recheck", "blocked"} => call[t].blocking

KernelInv == \E away \in SUBSET Task : away = Waiters /\ InvBut(away)

QueueInv == MutexInv /\ KernelInv /\ WaitInv /\ NoLostWakeup

-------------------------------------------------------------------------------
LEMMA QueuedType ==
  ASSUME NEW S, NEW q \in Seq(S)
  PROVE  Queued(q) \subseteq S
BY DEF Queued

LEMMA WaitersAreTasks == Waiters \in SUBSET Task
BY DEF Waiters

(* What executes and is not at "blocked" does not wait. *)
LEMMA ExecutingIsNoWaiter ==
  ASSUME WaitInv, NEW t \in Task, Executing(t), mpc[t] # "blocked"
  PROVE  t \notin Waiters
BY DEF WaitInv, Waiters, Runs, Executing

LEMMA QueueInit == MutexInit => QueueInv
<1> SUFFICES ASSUME MutexInit PROVE QueueInv
  OBVIOUS
<1>1. /\ Init /\ wait_queue = [m \in Mutex |-> <<>>]
      /\ mpc = [t \in Task |-> "out"]
  BY DEF MutexInit
<1>2. Waiters = {}
  BY <1>1 DEF Waiters, Queued
<1>3. KernelInv
  BY <1>1, <1>2, InitInv, NoneAway DEF KernelInv
<1>4. WaitInv
  BY <1>1 DEF WaitInv, Queued, NoDuplicates, IsInjective
<1>5. NoLostWakeup
  BY <1>1 DEF NoLostWakeup
<1> QED
  BY <1>3, <1>4, <1>5, ExclusionInit DEF QueueInv

-------------------------------------------------------------------------------
\* The scheduler's own steps.

(* Such a step leaves the wait queues alone, and does not take from a task   *)
(* inside the mutex code what makes it go on.                                *)
LEMMA SchedulerStep ==
  ASSUME QueueInv, MutexInv', UNCHANGED <<mutexes, mpc, call, holds>>,
         \A away \in SUBSET Task : away = Waiters /\ InvBut(away) => InvBut(away)',
         \/ \A t \in Task : Runs(t)' => Runs(t)
         \/ state'[vk_current'] = "RUNNING",
         \A t \in Task : mpc[t] # "out" /\ state[t] \in {"READY", "RUNNING"}
                           => state'[t] \in {"READY", "RUNNING"}
  PROVE  QueueInv'
<1>1. Waiters' = Waiters
  BY DEF Waiters, mutexes
<1>2. PICK away \in SUBSET Task : away = Waiters /\ InvBut(away)
  BY DEF QueueInv, KernelInv
<1>3. InvBut(away)'
  BY <1>2
<1>4. KernelInv'
  BY <1>1, <1>2, <1>3 DEF KernelInv
<1>5. \A t \in Waiters : Runs(t)' => Runs(t)
  <2>1. \A t \in Waiters : state'[t] = "BLOCKED"
    BY <1>2, <1>3 DEF InvBut, QueuesBut
  <2> QED
    BY <2>1, WaitersAreTasks DEF Runs
<1>6. WaitInv'
  <2>1. wait_queue' = wait_queue /\ call' = call /\ mpc' = mpc
    BY DEF mutexes
  <2>2. WaitInv
    BY DEF QueueInv
  <2>3. \A m \in Mutex : \A t \in Queued(wait_queue[m]) : t \in Waiters
    <3>1. \A m \in Mutex : \A t \in Queued(wait_queue[m]) : t \in Task
      BY <2>2, QueuedType DEF WaitInv
    <3> QED
      BY <3>1 DEF Waiters
  <2> QED
    BY <1>5, <2>1, <2>2, <2>3 DEF WaitInv
<1>7. NoLostWakeup'
  <2>1. \A t \in Task, m \in Mutex : Retrying(t, m) => Retrying(t, m)'
    BY DEF Retrying
  <2> QED
    BY <2>1 DEF QueueInv, NoLostWakeup, mutexes
<1> QED
  BY <1>4, <1>6, <1>7 DEF QueueInv

-------------------------------------------------------------------------------
\* The code of the mutex.

(* A step inside the code that changes nothing of the scheduler's, and not   *)
(* the wait queues: what t waits for or retries for it still does.           *)
LEMMA CodeStep ==
  ASSUME QueueInv, MutexInv', NEW t \in Task, Executing(t), mpc[t] # "blocked",
         UNCHANGED <<vars, wait_queue>>,
         \A u \in Task \ {t} : mpc'[u] = mpc[u] /\ call'[u] = call[u],
         \A m \in Mutex : Retrying(t, m) => Retrying(t, m)' \/ locked'[m] # 0,
         \A m \in Mutex : locked'[m] = 0 => locked[m] = 0,
         mpc'[t] \in {"recheck", "blocked"} => call'[t].blocking
  PROVE  QueueInv'
<1>1. Waiters' = Waiters /\ UNCHANGED vars
  BY DEF Waiters
<1>2. KernelInv'
  <2>1. PICK away \in SUBSET Task : away = Waiters /\ InvBut(away)
    BY DEF QueueInv, KernelInv
  <2>2. InvBut(away)'
    BY <1>1, <2>1, StutterInv
  <2> QED
    BY <1>1, <2>1, <2>2 DEF KernelInv
<1>3. t \notin Waiters
  BY ExecutingIsNoWaiter DEF QueueInv
<1>4. WaitInv'
  <2>1. WaitInv /\ wait_queue' = wait_queue /\ \A u \in Task : Runs(u)' <=> Runs(u)
    BY DEF QueueInv, Runs, vars
  <2>2. \A m \in Mutex : \A u \in Queued(wait_queue[m]) : u \in Task \ {t}
    BY <1>3, <2>1, QueuedType DEF WaitInv, Waiters
  <2>3. \A m \in Mutex : \A u \in Queued(wait_queue[m]) :
          mpc'[u] = mpc[u] /\ call'[u] = call[u] /\ (Runs(u)' <=> Runs(u))
    BY <2>1, <2>2
  <2> QED
    BY <2>1, <2>3 DEF WaitInv
<1>5. NoLostWakeup'
  <2> SUFFICES ASSUME NEW m \in Mutex, locked'[m] = 0, wait_queue[m] # <<>>
               PROVE  \E u \in Task : Retrying(u, m)'
    BY DEF NoLostWakeup
  <2>1. PICK u \in Task : Retrying(u, m)
    BY DEF QueueInv, NoLostWakeup
  <2>2. CASE u = t
    BY <2>1, <2>2
  <2>3. CASE u # t
    BY <2>1, <2>3 DEF Retrying, vars
  <2> QED
    BY <2>2, <2>3
<1> QED
  BY <1>2, <1>4, <1>5 DEF QueueInv

LEMMA CallQueue ==
  ASSUME QueueInv, MutexInv', NEW t \in Task, NEW m \in Mutex,
         NEW blocking \in BOOLEAN, Call(t, m, blocking)
  PROVE  QueueInv'
<1>1. /\ Executing(t) /\ mpc[t] = "out"
      /\ UNCHANGED <<vars, wait_queue, locked>>
      /\ \A u \in Task \ {t} : mpc'[u] = mpc[u] /\ call'[u] = call[u]
      /\ mpc'[t] = "ldrex"
  BY DEF Call, At, mutexes, QueueInv, MutexInv, MutexTypes
<1>2. \A n \in Mutex : ~Retrying(t, n)
  BY <1>1 DEF Retrying
<1> QED
  BY <1>1, <1>2, CodeStep

(* Each stays in the loop of vk_mutex_lock, or was not going to go on.       *)
LEMMA LoopQueue ==
  ASSUME QueueInv, MutexInv', NEW t \in Task,
         LoadFree(t) \/ LoadLocked(t) \/ StoreFailed(t) \/ RecheckFree(t)
  PROVE  QueueInv'
<1>1. /\ Executing(t) /\ mpc[t] \in {"ldrex", "strex", "recheck"}
      /\ UNCHANGED <<vars, wait_queue, locked>>
  BY DEF LoadFree, LoadLocked, StoreFailed, RecheckFree, At, mutexes
<1>2. \A u \in Task \ {t} : mpc'[u] = mpc[u] /\ call'[u] = call[u]
  BY DEF LoadFree, LoadLocked, StoreFailed, RecheckFree, GoTo, Return, QueueInv,
         MutexInv, MutexTypes
<1>3. ASSUME NEW m \in Mutex, Retrying(t, m) PROVE Retrying(t, m)'
  <2>1. call[t].blocking
    BY <1>3 DEF Retrying
  <2>2. mpc'[t] \in {"ldrex", "strex", "recheck"} /\ call'[t] = call[t]
    BY <2>1 DEF LoadFree, LoadLocked, StoreFailed, RecheckFree, GoTo, QueueInv,
                MutexInv, MutexTypes
  <2>3. state' = state
    BY <1>1 DEF vars
  <2> QED
    BY <1>3, <2>2, <2>3 DEF Retrying
<1>4. mpc'[t] \in {"recheck", "blocked"} => call'[t].blocking
  BY DEF LoadFree, LoadLocked, StoreFailed, RecheckFree, GoTo, Return, QueueInv,
         MutexInv, MutexTypes
<1> QED
  BY <1>1, <1>2, <1>3, <1>4, CodeStep

(* The one that goes on takes the mutex it retries for.                      *)
LEMMA StoreDoneQueue ==
  ASSUME QueueInv, MutexInv', NEW t \in Task, StoreDone(t)
  PROVE  QueueInv'
<1>1. /\ Executing(t) /\ mpc[t] = "strex"
      /\ UNCHANGED <<vars, wait_queue>>
      /\ locked' = [locked EXCEPT ![call[t].mutex] = 1]
      /\ \A u \in Task \ {t} : mpc'[u] = mpc[u] /\ call'[u] = call[u]
      /\ locked \in [Mutex -> {0, 1}]
      /\ mpc'[t] = "owner"
  BY DEF StoreDone, At, GoTo, QueueInv, MutexInv, MutexTypes
<1>2. \A m \in Mutex : Retrying(t, m) => locked'[m] # 0
  BY <1>1 DEF Retrying
<1>3. \A m \in Mutex : locked'[m] = 0 => locked[m] = 0
  BY <1>1
<1> QED
  BY <1>1, <1>2, <1>3, CodeStep

LEMMA SetOwnerQueue ==
  ASSUME QueueInv, MutexInv', NEW t \in Task, SetOwner(t)
  PROVE  QueueInv'
<1>1. /\ Executing(t) /\ mpc[t] = "owner"
      /\ UNCHANGED <<vars, wait_queue, locked>>
      /\ \A u \in Task \ {t} : mpc'[u] = mpc[u] /\ call'[u] = call[u]
      /\ mpc'[t] = "out"
  BY DEF SetOwner, At, Return, QueueInv, MutexInv, MutexTypes
<1>2. \A m \in Mutex : ~Retrying(t, m)
  BY <1>1 DEF Retrying
<1> QED
  BY <1>1, <1>2, CodeStep

-------------------------------------------------------------------------------
\* Asking for the switch.

LEMMA TriggerQueue ==
  ASSUME QueueInv, MutexInv', NEW t \in Task, BlockTrigger(t) \/ UnlockTrigger(t)
  PROVE  QueueInv'
<1>1. /\ vk_task_yield(t) /\ mpc[t] \in {"blocked", "unlocked"}
      /\ UNCHANGED <<mutexes, state, phase, vk_current>> /\ pendsv' # {}
      /\ \A u \in Task \ {t} : mpc'[u] = mpc[u] /\ call'[u] = call[u]
      /\ mpc[t] = "blocked" => mpc'[t] = "ldrex" /\ call'[t] = call[t]
  BY DEF BlockTrigger, UnlockTrigger, At, GoTo, Return, vk_task_yield, trigger_pendsv,
         tcbs, QueueInv, MutexInv, MutexTypes
<1>2. Waiters' = Waiters
  BY <1>1 DEF Waiters, mutexes
<1>3. KernelInv'
  <2>1. PICK away \in SUBSET Task : away = Waiters /\ InvBut(away)
    BY DEF QueueInv, KernelInv
  <2>2. InvBut(away)'
    BY <1>1, <2>1, YieldInv
  <2> QED
    BY <1>2, <2>1, <2>2 DEF KernelInv
<1>4. WaitInv'
  <2>1. WaitInv /\ wait_queue' = wait_queue /\ \A u \in Task : ~Runs(u)'
    BY <1>1 DEF QueueInv, Runs, mutexes
  <2>2. ASSUME NEW m \in Mutex, NEW u \in Queued(wait_queue[m])
        PROVE  call'[u] = call[u] /\ mpc'[u] \in {"blocked", "ldrex"} /\ ~Runs(u)'
    <3>1. u \in Task /\ mpc[u] \in {"blocked", "ldrex"}
      BY <2>1, QueuedType DEF WaitInv
    <3> QED
      BY <1>1, <2>1, <3>1
  <2>3. mpc'[t] \in {"ldrex", "out"}
    BY DEF BlockTrigger, UnlockTrigger, GoTo, Return, QueueInv, MutexInv, MutexTypes
  <2> QED
    BY <1>1, <2>1, <2>2, <2>3 DEF WaitInv
<1>5. NoLostWakeup'
  <2>1. \A u \in Task, m \in Mutex : Retrying(u, m) => Retrying(u, m)'
    BY <1>1 DEF Retrying
  <2> QED
    BY <1>1, <2>1 DEF QueueInv, NoLostWakeup, mutexes
<1> QED
  BY <1>3, <1>4, <1>5 DEF QueueInv

-------------------------------------------------------------------------------
\* Blocking, and waking.

LEMMA AppendToQueue ==
  ASSUME NEW S, NEW q \in Seq(S), NEW t \in S, t \notin Queued(q), NoDuplicates(q)
  PROVE  /\ Append(q, t) \in Seq(S)
         /\ Queued(Append(q, t)) = Queued(q) \cup {t}
         /\ NoDuplicates(Append(q, t))
<1>1. /\ Append(q, t) \in Seq(S)
      /\ DOMAIN q = 1 .. Len(q) /\ Len(q) \in Nat
      /\ DOMAIN Append(q, t) = 1 .. Len(q) + 1
      /\ \A i \in 1 .. Len(q) : Append(q, t)[i] = q[i]
      /\ Append(q, t)[Len(q) + 1] = t
  OBVIOUS
<1> DEFINE r == Append(q, t)
           n == Len(q)
<1> HIDE DEF r, n
<1>2. /\ DOMAIN q = 1 .. n /\ n \in Nat /\ DOMAIN r = 1 .. n + 1
      /\ \A i \in 1 .. n : r[i] = q[i] /\ q[i] # t
      /\ r[n + 1] = t
  BY <1>1 DEF r, n, Queued
<1>3. \A i \in 1 .. n + 1 : i \in 1 .. n \/ i = n + 1
  BY <1>2
<1>4. Queued(r) = Queued(q) \cup {t}
  <2>1. n + 1 \in 1 .. n + 1 /\ 1 .. n \subseteq 1 .. n + 1
    BY <1>2
  <2> QED
    BY <1>2, <1>3, <2>1 DEF Queued
<1>5. NoDuplicates(r)
  BY <1>2, <1>3 DEF NoDuplicates, IsInjective
<1> QED
  BY <1>1, <1>4, <1>5 DEF r

(* The task that goes away is the one that runs. *)
LEMMA AwayInv ==
  ASSUME NEW away \in SUBSET Task, InvBut(away), NEW t \in Task \ away,
         Executing(t), pc[t] = "run", state' = [state EXCEPT ![t] = "BLOCKED"],
         UNCHANGED <<vk_current, vk_ticks, ready_queue, sleep_queue, task_count,
                     priority, wake_tick, id, phase, pc, args, cpu>>
  PROVE  InvBut(away \cup {t})'
<1>0. /\ state[t] = "RUNNING" /\ phase = "run" /\ vk_current = t /\ t \in TCB /\ t # Idle
      /\ state \in [TCB -> State] /\ state' \in [TCB -> State]
  BY TCBFacts, TypeFacts DEF InvBut, CurrentBut, Executing, State
<1>1. TypeOK'
  BY <1>0 DEF InvBut, TypeOK, cpu, State
<1>2. QueuesBut(away \cup {t})'
  <2>1. Holds(ready_queue, priority, state', "READY")
    BY <1>0, TypeFacts, HoldsOther DEF InvBut, QueuesBut, State
  <2>2. Holds(sleep_queue, wake_tick, Seen(state', away \cup {t}), "BLOCKED")
    <3> DEFINE seen == Seen(state, away)
    <3>1. seen \in [TCB -> State] /\ seen[t] = "RUNNING"
      BY <1>0, SeenFacts
    <3>2. Seen(state', away \cup {t}) = [seen EXCEPT ![t] = "DEAD"]
      BY <1>0 DEF Seen
    <3>3. Holds(sleep_queue, wake_tick, seen, "BLOCKED")
      BY DEF InvBut, QueuesBut
    <3> HIDE DEF seen
    <3>4. Holds(sleep_queue, wake_tick, [seen EXCEPT ![t] = "DEAD"], "BLOCKED")
      BY <1>0, <3>1, <3>3, HoldsOther DEF State
    <3> QED
      BY <3>2, <3>4
  <2>3. /\ \A u \in TCB : state'[u] = "RUNNING" => u = vk_current
        /\ \A u \in away \cup {t} : state'[u] = "BLOCKED"
    BY <1>0, TCBFacts DEF InvBut, QueuesBut
  <2> QED
    BY <2>1, <2>2, <2>3 DEF QueuesBut
<1>3. IdleInv' /\ StartInv' /\ CurrentBut(away \cup {t})'
  BY <1>0, TCBFacts DEF InvBut, IdleInv, StartInv, CurrentBut, cpu
<1>4. CallInv'
  BY <1>0, TCBFacts DEF InvBut, CallInv, Calling
<1> QED
  BY <1>1, <1>2, <1>3, <1>4 DEF InvBut

(* It comes back on the ready queue. *)
LEMMA BackInv ==
  ASSUME NEW away \in SUBSET Task, InvBut(away), NEW t \in away, ready_insert(t),
         phase = "run", vk_current \notin away,
         UNCHANGED <<vk_current, vk_ticks, sleep_queue, task_count, priority,
                     wake_tick, id, phase, pc, args, cpu>>
  PROVE  InvBut(away \ {t})'
<1>0. /\ state[t] = "BLOCKED" /\ t # vk_current /\ t \in TCB /\ t # Idle
      /\ state \in [TCB -> State]
      /\ state' = [state EXCEPT ![t] = "READY"]
      /\ ready_queue' = list_insert(ready_queue, priority, t)
  BY TCBFacts, TypeFacts DEF InvBut, QueuesBut, ready_insert
<1>1. TypeOK'
  <2>1. ready_queue' \in Seq(TCB)
    BY <1>0, TypeFacts, ListInsertProperties DEF InvBut, Key
  <2> QED
    BY <1>0, <2>1 DEF InvBut, TypeOK, cpu, State
<1>2. QueuesBut(away \ {t})'
  <2>1. Holds(ready_queue', priority, state', "READY")
    BY <1>0, TypeFacts, HoldsInsert DEF InvBut, QueuesBut, State
  <2>2. Holds(sleep_queue, wake_tick, Seen(state', away \ {t}), "BLOCKED")
    <3> DEFINE seen == Seen(state, away)
    <3>1. seen \in [TCB -> State] /\ seen[t] = "DEAD"
      BY <1>0, SeenFacts DEF Seen
    <3>2. Seen(state', away \ {t}) = [seen EXCEPT ![t] = "READY"]
      BY <1>0 DEF Seen
    <3>3. Holds(sleep_queue, wake_tick, seen, "BLOCKED")
      BY DEF InvBut, QueuesBut
    <3> HIDE DEF seen
    <3>4. Holds(sleep_queue, wake_tick, [seen EXCEPT ![t] = "READY"], "BLOCKED")
      BY <1>0, <3>1, <3>3, HoldsOther DEF State
    <3> QED
      BY <3>2, <3>4
  <2>3. /\ \A u \in TCB : state'[u] = "RUNNING" => u = vk_current
        /\ \A u \in away \ {t} : state'[u] = "BLOCKED"
    BY <1>0, TCBFacts DEF InvBut, QueuesBut
  <2> QED
    BY <2>1, <2>2, <2>3 DEF QueuesBut
<1>3. IdleInv' /\ StartInv' /\ CurrentBut(away \ {t})'
  BY <1>0, TCBFacts DEF InvBut, IdleInv, StartInv, CurrentBut, cpu
<1>4. CallInv'
  BY <1>0, TCBFacts DEF InvBut, CallInv, Calling
<1> QED
  BY <1>1, <1>2, <1>3, <1>4 DEF InvBut

LEMMA BlockQueue ==
  ASSUME QueueInv, MutexInv', NEW t \in Task, Block(t)
  PROVE  QueueInv'
<1> DEFINE m == call[t].mutex
<1>0. /\ Executing(t) /\ pc[t] = "run" /\ mpc[t] = "recheck"
      /\ m \in Mutex /\ locked[m] # 0 /\ call[t] = [mutex |-> m, blocking |-> TRUE]
      /\ state' = [state EXCEPT ![t] = "BLOCKED"]
      /\ wait_queue' = [wait_queue EXCEPT ![m] = Append(wait_queue[m], t)]
      /\ mpc' = [mpc EXCEPT ![t] = "blocked"]
      /\ mpc \in [Task -> Within \cup {"out", "unlocked"}]
      /\ UNCHANGED <<vk_current, vk_ticks, ready_queue, sleep_queue, task_count,
                     priority, wake_tick, id, phase, pc, args, cpu, locked, call>>
  <2>1. /\ mpc[t] = "recheck" /\ call[t].mutex \in Mutex
        /\ call[t] \in [mutex : Mutex \cup {NULL}, blocking : BOOLEAN]
        /\ call[t].blocking
    BY DEF Block, At, QueueInv, MutexInv, MutexTypes, WaitInv, Within
  <2>2. call[t] = [mutex |-> m, blocking |-> TRUE]
    BY <2>1
  <2> QED
    BY <2>1, <2>2 DEF Block, Enqueue, GoTo, At, QueueInv, MutexInv, MutexTypes
<1> HIDE DEF m
<1>1. t \notin Waiters
  BY <1>0, ExecutingIsNoWaiter DEF QueueInv
<1>2. /\ WaitInv /\ wait_queue[m] \in Seq(Task) /\ t \notin Queued(wait_queue[m])
      /\ NoDuplicates(wait_queue[m])
  BY <1>0, <1>1 DEF QueueInv, WaitInv, Waiters
<1>3. /\ wait_queue' \in [Mutex -> Seq(Task)]
      /\ NoDuplicates(wait_queue'[m])
      /\ Queued(wait_queue'[m]) = Queued(wait_queue[m]) \cup {t}
      /\ \A n \in Mutex \ {m} : wait_queue'[n] = wait_queue[n]
  BY <1>0, <1>2, AppendToQueue DEF WaitInv
<1>4. KernelInv'
  <2>1. PICK away \in SUBSET Task : away = Waiters /\ InvBut(away)
    BY DEF QueueInv, KernelInv
  <2>2. InvBut(away \cup {t})'
    BY <1>0, <1>1, <2>1, AwayInv
  <2>3. Waiters' = Waiters \cup {t}
    BY <1>0, <1>3 DEF Waiters
  <2> QED
    BY <2>1, <2>2, <2>3 DEF KernelInv
<1>5. WaitInv'
  <2>1. ASSUME NEW n \in Mutex, NEW u \in Queued(wait_queue'[n])
        PROVE  /\ call'[u] = [mutex |-> n, blocking |-> TRUE]
               /\ mpc'[u] \in {"blocked", "ldrex"}
               /\ Runs(u)' => mpc'[u] = "blocked"
    <3>1. CASE u = t
      <4>1. n = m
        BY <1>1, <1>3, <2>1, <3>1 DEF Waiters
      <4> QED
        BY <1>0, <3>1, <4>1
    <3>2. CASE u # t
      <4>1. u \in Queued(wait_queue[n])
        BY <1>3, <2>1, <3>2
      <4>2. u \in Task
        BY <1>2, <4>1, QueuedType DEF WaitInv
      <4> QED
        BY <1>0, <1>2, <3>2, <4>1, <4>2 DEF WaitInv, Runs, cpu
    <3> QED
      BY <3>1, <3>2
  <2>2. \A n \in Mutex : NoDuplicates(wait_queue'[n])
    BY <1>2, <1>3 DEF WaitInv
  <2>3. \A u \in Task : mpc'[u] \in {"recheck", "blocked"} => call'[u].blocking
    BY <1>0, <1>2 DEF WaitInv
  <2> QED
    BY <1>3, <2>1, <2>2, <2>3 DEF WaitInv
<1>6. NoLostWakeup'
  <2> SUFFICES ASSUME NEW n \in Mutex, locked'[n] = 0, wait_queue'[n] # <<>>
               PROVE  \E u \in Task : Retrying(u, n)'
    BY DEF NoLostWakeup
  <2>1. n # m /\ wait_queue[n] # <<>> /\ locked[n] = 0
    BY <1>0, <1>3
  <2>2. PICK u \in Task : Retrying(u, n)
    BY <2>1 DEF QueueInv, NoLostWakeup
  <2>3. u # t
    BY <1>0, <2>1, <2>2 DEF Retrying
  <2>4. Retrying(u, n)'
    BY <1>0, <2>2, <2>3 DEF Retrying
  <2> QED
    BY <2>4
<1> QED
  BY <1>4, <1>5, <1>6 DEF QueueInv

(* The first waiter is on its way again when the mutex is free. *)
LEMMA UnlockQueue ==
  ASSUME QueueInv, MutexInv', NEW t \in Task, NEW m \in Mutex, vk_mutex_unlock(t, m)
  PROVE  QueueInv'
<1>0. /\ Executing(t) /\ mpc[t] = "out"
      /\ locked' = [locked EXCEPT ![m] = 0] /\ locked \in [Mutex -> {0, 1}]
      /\ mpc' = [mpc EXCEPT ![t] = "unlocked"]
      /\ mpc \in [Task -> Within \cup {"out", "unlocked"}]
      /\ UNCHANGED <<vk_current, vk_ticks, sleep_queue, task_count, priority,
                     wake_tick, id, phase, pc, args, cpu, call>>
  BY DEF vk_mutex_unlock, At, QueueInv, MutexInv, MutexTypes
<1>1. t \notin Waiters /\ WaitInv
  BY <1>0, ExecutingIsNoWaiter DEF QueueInv
<1>2. \A u \in Task : Runs(u)' <=> Runs(u)
  BY <1>0 DEF Runs, cpu
<1>3. \A u \in Task : mpc'[u] \in {"recheck", "blocked"} => call'[u].blocking
  BY <1>0, <1>1 DEF WaitInv
<1>4. PICK away \in SUBSET Task : away = Waiters /\ InvBut(away)
  BY DEF QueueInv, KernelInv
<1>5. CASE wait_queue[m] = <<>>
  <2>1. UNCHANGED <<wait_queue, ready_queue, state>>
    BY <1>5 DEF vk_mutex_unlock
  <2>2. Waiters' = Waiters
    BY <2>1 DEF Waiters
  <2>3. InvBut(away)'
    BY <1>0, <1>4, <2>1, StutterInv DEF vars, cpu
  <2>4. KernelInv'
    BY <1>4, <2>2, <2>3 DEF KernelInv
  <2>5. \A n \in Mutex : \A u \in Queued(wait_queue[n]) : u \in Task \ {t}
    BY <1>1, QueuedType DEF WaitInv, Waiters
  <2>6. WaitInv'
    BY <1>0, <1>1, <1>2, <1>3, <2>1, <2>5 DEF WaitInv
  <2>7. NoLostWakeup'
    <3> SUFFICES ASSUME NEW n \in Mutex, locked'[n] = 0, wait_queue[n] # <<>>
                 PROVE  \E u \in Task : Retrying(u, n)'
      BY <2>1 DEF NoLostWakeup
    <3>1. n # m /\ locked[n] = 0
      BY <1>0, <1>5
    <3>2. PICK u \in Task : Retrying(u, n)
      BY <3>1 DEF QueueInv, NoLostWakeup
    <3>3. Retrying(u, n)'
      BY <1>0, <2>1, <3>2 DEF Retrying
    <3> QED
      BY <3>3
  <2> QED
    BY <2>4, <2>6, <2>7 DEF QueueInv
<1>6. CASE wait_queue[m] # <<>>
  <2>1. /\ wait_queue \in [Mutex -> Seq(Task)] /\ wait_queue[m] \in Seq(Task)
        /\ NoDuplicates(wait_queue[m])
    BY <1>1 DEF WaitInv
  <2>2. PICK h \in Task : h = Head(wait_queue[m])
    BY <1>6, <2>1, HeadTailOfList
  <2>3. /\ h \in Queued(wait_queue[m])
        /\ Tail(wait_queue[m]) \in Seq(Task) /\ NoDuplicates(Tail(wait_queue[m]))
        /\ Queued(Tail(wait_queue[m])) = Queued(wait_queue[m]) \ {h}
    BY <1>6, <2>1, <2>2, HeadTailOfList
  <2>a. /\ wait_queue' = [wait_queue EXCEPT ![m] = Tail(wait_queue[m])]
        /\ ready_insert(h)
    BY <1>6, <2>2 DEF vk_mutex_unlock
  <2>4. /\ wait_queue' \in [Mutex -> Seq(Task)]
        /\ NoDuplicates(wait_queue'[m])
        /\ Queued(wait_queue'[m]) = Queued(wait_queue[m]) \ {h}
        /\ \A n \in Mutex \ {m} : wait_queue'[n] = wait_queue[n]
    BY <2>a, <2>1, <2>3
  <2>5. /\ h \in Waiters /\ h # t
        /\ call[h] = [mutex |-> m, blocking |-> TRUE] /\ mpc[h] \in {"blocked", "ldrex"}
    BY <1>1, <2>3 DEF Waiters, WaitInv
  <2>6. state' = [state EXCEPT ![h] = "READY"] /\ state \in [TCB -> State]
    BY <1>4, <2>a, TypeFacts DEF ready_insert, InvBut
  <2>7. \A n \in Mutex \ {m} : h \notin Queued(wait_queue[n])
    <3> SUFFICES ASSUME NEW n \in Mutex, h \in Queued(wait_queue[n]) PROVE n = m
      OBVIOUS
    <3>1. call[h] = [mutex |-> n, blocking |-> TRUE]
      BY <1>1 DEF WaitInv
    <3>2. call[h].mutex = n /\ call[h].mutex = m
      BY <2>5, <3>1
    <3> QED
      BY <3>2
  <2>8. Waiters' = Waiters \ {h}
    BY <2>4, <2>7 DEF Waiters
  <2>9. InvBut(away \ {h})'
    <3>1. h \in away /\ phase = "run" /\ vk_current \notin away
      BY <1>0, <1>1, <1>4, <2>5 DEF Executing
    <3>2. UNCHANGED <<vk_current, vk_ticks, sleep_queue, task_count, priority,
                      wake_tick, id, phase, pc, args, cpu>>
      BY <1>0
    <3> QED
      BY <1>4, <2>a, <3>1, <3>2, BackInv
  <2>10. KernelInv'
    BY <1>4, <2>8, <2>9 DEF KernelInv
  <2>11. WaitInv'
    <3>1. ASSUME NEW n \in Mutex, NEW u \in Queued(wait_queue'[n])
          PROVE  u \in Queued(wait_queue[n]) /\ u \in Task /\ u # t
      <4>1. u \in Queued(wait_queue[n])
        BY <2>4, <3>1
      <4> QED
        BY <1>1, <4>1, QueuedType DEF WaitInv, Waiters
    <3>2. ASSUME NEW n \in Mutex, NEW u \in Queued(wait_queue'[n])
          PROVE  /\ call'[u] = [mutex |-> n, blocking |-> TRUE]
                 /\ mpc'[u] \in {"blocked", "ldrex"}
                 /\ Runs(u)' => mpc'[u] = "blocked"
      BY <1>0, <1>1, <1>2, <3>1, <3>2 DEF WaitInv
    <3>3. \A n \in Mutex : NoDuplicates(wait_queue'[n])
      BY <1>1, <2>4 DEF WaitInv
    <3> QED
      BY <1>3, <2>4, <3>2, <3>3 DEF WaitInv
  <2>12. NoLostWakeup'
    <3> SUFFICES ASSUME NEW n \in Mutex, locked'[n] = 0, wait_queue'[n] # <<>>
                 PROVE  \E u \in Task : Retrying(u, n)'
      BY DEF NoLostWakeup
    <3>1. CASE n = m
      <4>1. h \in TCB
        BY <2>3, TCBFacts
      <4>2. /\ call'[h] = [mutex |-> m, blocking |-> TRUE]
            /\ mpc'[h] \in {"blocked", "ldrex"}
            /\ state'[h] = "READY"
        BY <1>0, <2>3, <2>5, <2>6, <4>1
      <4>3. Retrying(h, n)'
        BY <3>1, <4>2 DEF Retrying
      <4> QED
        BY <2>3, <4>3
    <3>2. CASE n # m
      <4>1. locked[n] = 0 /\ wait_queue[n] # <<>>
        BY <1>0, <2>4, <3>2
      <4>2. PICK u \in Task : Retrying(u, n)
        BY <4>1 DEF QueueInv, NoLostWakeup
      <4>3. u \in TCB
        BY TCBFacts
      <4>4. Retrying(u, n)'
        BY <1>0, <2>6, <4>2, <4>3 DEF Retrying
      <4> QED
        BY <4>4
    <3> QED
      BY <3>1, <3>2
  <2> QED
    BY <2>10, <2>11, <2>12 DEF QueueInv
<1> QED
  BY <1>5, <1>6

-------------------------------------------------------------------------------
\* Task code outside the mutex, and the kernel.

LEMMA OutsideQueue ==
  ASSUME QueueInv, MutexInv', NEW t \in Task, Outside(t)
  PROVE  QueueInv'
<1>0. /\ Executing(t) /\ mpc[t] = "out" /\ t \in TCB
      /\ UNCHANGED <<mutexes, mpc, call, holds>>
  BY TCBFacts DEF Outside, mutexVars, vk_task_yield, vk_task_sleep, vk_task_exit,
         Trigger, vk_task_create, CreateFinish, CreateCheck, CreateLoad,
         CreateStore, CreateInsert
<1>1. t \notin Waiters
  BY <1>0, ExecutingIsNoWaiter DEF QueueInv
<1>2. PICK kept \in SUBSET Task : kept = Waiters /\ InvBut(kept)
  BY DEF QueueInv, KernelInv
<1>3. /\ state \in [TCB -> State]
      /\ args \in [Creators -> [tcb : Task \cup {NULL}, priority : Priority, count : Nat]]
  BY <1>2, TypeFacts DEF InvBut, TypeOK
<1>4. CASE vk_task_yield(t) \/ Trigger(t)
  <2>1. ASSUME NEW away \in SUBSET Task, away = Waiters, InvBut(away)
        PROVE  InvBut(away)'
    BY <1>4, <2>1, YieldInv, TriggerInv
  <2>2. \A u \in Task : Runs(u)' => Runs(u)
    BY <1>4 DEF vk_task_yield, Trigger, trigger_pendsv, Runs
  <2>3. state' = state
    BY <1>4 DEF vk_task_yield, Trigger, tcbs
  <2> QED
    BY <1>0, <2>1, <2>2, <2>3, SchedulerStep
<1>5. CASE (\E n \in SleepTicks : vk_task_sleep(t, n)) \/ vk_task_exit(t)
  <2>1. ASSUME NEW away \in SUBSET Task, away = Waiters, InvBut(away)
        PROVE  InvBut(away)'
    <3>1. t \in Task \ away
      BY <1>1, <2>1
    <3> QED
      BY <1>5, <2>1, <3>1, SleepInv, ExitInv
  <2>2. \A u \in Task : Runs(u)' => Runs(u)
    BY <1>5 DEF vk_task_sleep, vk_task_exit, Runs, cpu
  <2>3. \A u \in Task : u # t => state'[u] = state[u]
    <3>1. \/ state' = [state EXCEPT ![t] = "BLOCKED"]
          \/ state' = [state EXCEPT ![t] = "DEAD"]
      BY <1>5 DEF vk_task_sleep, sleep_insert, vk_task_exit
    <3> QED
      BY <1>0, <1>3, <3>1, TCBFacts
  <2>4. \A u \in Task : mpc[u] # "out" /\ state[u] \in {"READY", "RUNNING"}
                          => state'[u] \in {"READY", "RUNNING"}
    BY <1>0, <2>3
  <2> QED
    BY <1>0, <2>1, <2>2, <2>4, SchedulerStep
<1>6. CASE t \in Creators /\ vk_task_create(t)
  <2>1. ASSUME NEW away \in SUBSET Task, away = Waiters, InvBut(away)
        PROVE  InvBut(away)'
    <3>1. t \in Creators \ away /\ t \in Creators
      BY <1>1, <1>6, <2>1
    <3> QED
      BY <1>6, <2>1, <3>1, CreateCheckInv, CreateLoadInv, CreateStoreInv,
         CreateInsertInv DEF vk_task_create, CreateFinish
  <2>2. \A u \in Task : Runs(u)' => Runs(u)
    BY <1>6 DEF vk_task_create, CreateFinish, CreateCheck, CreateLoad,
                CreateStore, CreateInsert, Runs, cpu
  <2>3. state' = state \/ state' = [state EXCEPT ![args[t].tcb] = "READY"]
    BY <1>6 DEF vk_task_create, CreateFinish, CreateCheck, CreateLoad,
                CreateStore, CreateInsert, ready_insert, tcbs
  <2>4. \A u \in Task : state[u] \in {"READY", "RUNNING"}
                          => state'[u] \in {"READY", "RUNNING"}
    BY <1>3, <2>3, TCBFacts
  <2> QED
    BY <1>0, <2>1, <2>2, <2>4, SchedulerStep
<1> QED
  BY <1>4, <1>5, <1>6 DEF Outside

LEMMA StartUpQueue ==
  ASSUME QueueInv, MutexInv', StartUp
  PROVE  QueueInv'
<1>0. UNCHANGED <<mutexes, mpc, call, holds>>
  BY DEF StartUp, mutexVars
<1>1. PICK kept \in SUBSET Task : kept = Waiters /\ InvBut(kept)
  BY DEF QueueInv, KernelInv
<1>2. state \in [TCB -> State] /\ vk_current \in TCB \cup {NULL}
  BY <1>1, TypeFacts DEF InvBut, TypeOK
<1>3. ASSUME NEW away \in SUBSET Task, away = Waiters, InvBut(away)
      PROVE  InvBut(away)'
  BY <1>3, BootCreateInv, StartInvStep DEF StartUp
<1>4. CASE \E t \in Task, p \in Prios : BootCreate(t, p)
  <2>1. PICK t \in Task : state' = [state EXCEPT ![t] = "READY"]
    BY <1>4 DEF BootCreate, enlist
  <2>2. \A u \in Task : Runs(u)' => Runs(u)
    BY <1>4 DEF BootCreate, Runs
  <2>3. \A u \in Task : state[u] \in {"READY", "RUNNING"}
                          => state'[u] \in {"READY", "RUNNING"}
    BY <1>2, <2>1, TCBFacts
  <2> QED
    BY <1>0, <1>3, <2>2, <2>3, SchedulerStep
<1>5. CASE StartTimer \/ StartPick
  <2>1. state' = state /\ phase' # "run"
    BY <1>5 DEF StartTimer, StartPick, tcbs
  <2>2. \A u \in Task : Runs(u)' => Runs(u)
    BY <2>1 DEF Runs
  <2> QED
    BY <1>0, <1>3, <2>1, <2>2, SchedulerStep
<1>6. CASE StartPop
  <2>1. vk_current' = vk_current /\ state' = [state EXCEPT ![vk_current] = "RUNNING"]
    BY <1>6 DEF StartPop
  <2>2. \A u \in Task : state[u] \in {"READY", "RUNNING"}
                          => state'[u] \in {"READY", "RUNNING"}
    BY <1>2, <2>1, TCBFacts
  <2>3. vk_current \in TCB
    <3>1. ready_queue # <<>> /\ vk_current = Head(ready_queue) /\ ready_queue \in Seq(TCB)
      BY <1>1, <1>6, TypeFacts DEF InvBut, StartInv, StartPop
    <3> QED
      BY <3>1, HeadTailOfList
  <2>4. state'[vk_current'] = "RUNNING"
    BY <1>2, <2>1, <2>3
  <2> QED
    BY <1>0, <1>3, <2>2, <2>4, SchedulerStep
<1> QED
  BY <1>4, <1>5, <1>6 DEF StartUp, vk_start

LEMMA ExceptionQueue ==
  ASSUME QueueInv, MutexInv', MutexSysTick \/ MutexPendSV
  PROVE  QueueInv'
<1>0. /\ UNCHANGED <<mutexes, mpc, call, holds>>
      /\ SysTick_Handler \/ PendSV
  BY DEF MutexSysTick, MutexPendSV, ClearMonitor, mutexVars, SysTick_Handler, PendSV
<1>1. PICK kept \in SUBSET Task : kept = Waiters /\ InvBut(kept)
  BY DEF QueueInv, KernelInv
<1>2. state \in [TCB -> State] /\ vk_current \in TCB \cup {NULL}
  BY <1>1, TypeFacts DEF InvBut, TypeOK
<1>3. ASSUME NEW away \in SUBSET Task, away = Waiters, InvBut(away)
      PROVE  InvBut(away)'
  BY <1>0, <1>3, SysTickInv, PendSVInv
<1>4. CASE SysTick_Handler \/ PendSVEnter
  <2>1. \A u \in Task : Runs(u)' => Runs(u)
    BY <1>4 DEF SysTick_Handler, SysTickEnter, SysTickWake, SysTickReturn,
                trigger_pendsv, PendSVEnter, Runs, cpu
  <2>2. state' = state \/ state' = [state EXCEPT ![Head(sleep_queue)] = "READY"]
    BY <1>4 DEF SysTick_Handler, SysTickEnter, SysTickWake, SysTickReturn,
                ready_insert, PendSVEnter, tcbs
  <2>3. \A u \in Task : state[u] \in {"READY", "RUNNING"}
                          => state'[u] \in {"READY", "RUNNING"}
    BY <1>2, <2>2, TCBFacts
  <2> QED
    BY <1>0, <1>3, <2>1, <2>3, SchedulerStep
<1>5. CASE PendSV_Handler
  <2>1. state'[vk_current'] = "RUNNING"
    BY <1>1, <1>5, ScheduleInv
  <2>2. \A u \in Task : state[u] \in {"READY", "RUNNING"}
                          => state'[u] \in {"READY", "RUNNING"}
    BY <1>2, <1>5, TCBFacts DEF PendSV_Handler, vk_schedule
  <2> QED
    BY <1>0, <1>3, <2>1, <2>2, SchedulerStep
<1> QED
  BY <1>0, <1>4, <1>5 DEF PendSV

LEMMA StutterQueue ==
  ASSUME QueueInv, MutexInv', UNCHANGED <<vars, mutexes, mpc, call, holds>>
  PROVE  QueueInv'
<1>1. ASSUME NEW away \in SUBSET Task, away = Waiters, InvBut(away)
      PROVE  InvBut(away)'
  BY <1>1, StutterInv
<1>2. \A u \in Task : Runs(u)' => Runs(u)
  BY DEF Runs, vars
<1>3. state' = state
  BY DEF vars
<1> QED
  BY <1>1, <1>2, <1>3, SchedulerStep

-------------------------------------------------------------------------------
LEMMA QueueStep == QueueInv /\ [MutexNext]_allVars => QueueInv'
<1> SUFFICES ASSUME QueueInv, [MutexNext]_allVars PROVE QueueInv'
  OBVIOUS
<1>0. MutexInv'
  BY ExclusionStep DEF QueueInv
<1>1. CASE UNCHANGED allVars
  BY <1>0, <1>1, StutterQueue DEF allVars, mutexVars
<1>2. CASE StartUp
  BY <1>0, <1>2, StartUpQueue
<1>3. CASE \E t \in Task : Lock(t)
  BY <1>0, <1>3, CallQueue DEF Lock, vk_mutex_lock, vk_mutex_trylock
<1>4. CASE \E t \in Task : Unlock(t)
  BY <1>0, <1>4, UnlockQueue DEF Unlock
<1>5. CASE \E t \in Task : Finish(t)
  BY <1>0, <1>5, LoopQueue, StoreDoneQueue, SetOwnerQueue, BlockQueue, TriggerQueue
     DEF Finish
<1>6. CASE \E t \in Task : Outside(t)
  BY <1>0, <1>6, OutsideQueue
<1>7. CASE idle_task /\ UNCHANGED mutexVars
  BY <1>0, <1>7, StutterQueue DEF idle_task, mutexVars
<1>8. CASE MutexSysTick \/ MutexPendSV
  BY <1>0, <1>8, ExceptionQueue
<1> QED
  BY <1>1, <1>2, <1>3, <1>4, <1>5, <1>6, <1>7, <1>8 DEF MutexNext

THEOREM QueueInvariant == MutexSpec => []QueueInv
  BY QueueInit, QueueStep, PTL DEF MutexSpec

(* While tasks wait for a mutex that is free, one that is not blocked is     *)
(* about to take it: vk_mutex_lock looks at `locked' again where it queues   *)
(* itself, and vk_mutex_unlock wakes the first of the queue.                 *)
THEOREM WakeUpNotLost == MutexSpec => []NoLostWakeup
<1>1. QueueInv => NoLostWakeup
  BY DEF QueueInv
<1> QED
  BY <1>1, QueueInvariant, PTL

LEMMA OneQueue == QueueInv => BlockedOnOneQueue
<1> SUFFICES ASSUME QueueInv PROVE BlockedOnOneQueue
  OBVIOUS
<1>1. PICK away \in SUBSET Task : away = Waiters /\ InvBut(away)
  BY DEF QueueInv, KernelInv
<1>2. /\ Holds(ready_queue, priority, state, "READY")
      /\ NoDuplicates(sleep_queue) /\ SortedBy(sleep_queue, wake_tick)
      /\ Queued(sleep_queue) = {t \in TCB : Seen(state, away)[t] = "BLOCKED"}
      /\ \A t \in away : state[t] = "BLOCKED"
  BY <1>1 DEF InvBut, QueuesBut, Holds
<1>3. /\ \A m \in Mutex : NoDuplicates(wait_queue[m])
      /\ \A m \in Mutex : \A t \in Queued(wait_queue[m]) :
           /\ t \in Task
           /\ call[t] = [mutex |-> m, blocking |-> TRUE]
  BY QueuedType DEF QueueInv, WaitInv
<1>4. \A t \in TCB : t \in Queued(sleep_queue) <=> t \notin away /\ state[t] = "BLOCKED"
  BY <1>2 DEF Seen
<1>5. ASSUME NEW t \in TCB
      PROVE  Cardinality({m \in Mutex : t \in Queued(wait_queue[m])}
                          \cup (IF t \in Queued(sleep_queue) THEN {NULL} ELSE {}))
               = IF state[t] = "BLOCKED" THEN 1 ELSE 0
  <2> DEFINE places == {m \in Mutex : t \in Queued(wait_queue[m])}
                         \cup (IF t \in Queued(sleep_queue) THEN {NULL} ELSE {})
  <2>1. CASE t \in away
    <3>1. t \notin Queued(sleep_queue) /\ state[t] = "BLOCKED"
      BY <1>2, <1>4, <2>1
    <3>2. PICK m \in Mutex : t \in Queued(wait_queue[m])
      BY <1>1, <2>1 DEF Waiters
    <3>3. \A n \in Mutex : t \in Queued(wait_queue[n]) => n = m
      <4> SUFFICES ASSUME NEW n \in Mutex, t \in Queued(wait_queue[n]) PROVE n = m
        OBVIOUS
      <4>1. /\ call[t] = [mutex |-> m, blocking |-> TRUE]
            /\ call[t] = [mutex |-> n, blocking |-> TRUE]
        BY <1>3, <3>2
      <4>2. call[t].mutex = m /\ call[t].mutex = n
        BY <4>1
      <4> QED
        BY <4>2
    <3>4. places = {m}
      BY <3>1, <3>2, <3>3
    <3> QED
      BY <3>1, <3>4, FS_Singleton
  <2>2. CASE t \notin away
    <3>1. {m \in Mutex : t \in Queued(wait_queue[m])} = {}
      BY <1>1, <1>3, <2>2 DEF Waiters
    <3>2. places = IF state[t] = "BLOCKED" THEN {NULL} ELSE {}
      BY <1>4, <2>2, <3>1
    <3> QED
      BY <3>2, FS_Singleton, FS_EmptySet
  <2> QED
    BY <2>1, <2>2
<1> QED
  BY <1>2, <1>3, <1>5 DEF BlockedOnOneQueue

(* A blocked task is on the sleep queue or on that of one mutex, once.       *)
THEOREM OnOneQueue == MutexSpec => []BlockedOnOneQueue
  BY OneQueue, QueueInvariant, PTL

-------------------------------------------------------------------------------
\* With the mutexes the scheduler is still a Dispatcher.

(* A task that blocks gives up as one that sleeps does.                     *)
LEMMA PolicyOfBlock ==
  ASSUME QueueInv, NEW t \in Task, Block(t)
  PROVE  PolicyStep
<1>1. PICK away \in SUBSET Task : away = Waiters /\ InvBut(away)
  BY DEF QueueInv, KernelInv
<1>2. /\ Executing(t) /\ pc[t] = "run" /\ mpc[t] = "recheck" /\ t \in TCB
      /\ state' = [state EXCEPT ![t] = "BLOCKED"]
      /\ UNCHANGED <<ready_queue, priority, vk_current, phase, pendsv>>
  BY TCBFacts DEF Block, Enqueue, At, cpu
<1>3. t \notin away
  BY <1>1, <1>2, ExecutingIsNoWaiter DEF QueueInv
<1>4. state[t] = "RUNNING"
  BY <1>1, <1>2, <1>3 DEF InvBut, CurrentBut, Executing
<1>5. "BLOCKED" \in State \ {"RUNNING"}
  BY DEF State
<1> QED
  BY <1>1, <1>2, <1>4, <1>5, PolicyLeave

(* The waiter that vk_mutex_unlock wakes goes behind its equals.            *)
LEMMA PolicyOfUnlock ==
  ASSUME QueueInv, NEW t \in Task, NEW m \in Mutex, vk_mutex_unlock(t, m)
  PROVE  PolicyStep
<1>0. UNCHANGED <<vk_current, priority, phase, pendsv>>
  BY DEF vk_mutex_unlock, cpu
<1>1. CASE wait_queue[m] = <<>>
  BY <1>0, <1>1, PolicyKept DEF vk_mutex_unlock, Running, Switching
<1>2. CASE wait_queue[m] # <<>>
  <2>1. PICK away \in SUBSET Task : away = Waiters /\ InvBut(away)
    BY DEF QueueInv, KernelInv
  <2> DEFINE h == Head(wait_queue[m])
  <2>2. /\ ready_queue' = list_insert(ready_queue, priority, h)
        /\ state' = [state EXCEPT ![h] = "READY"]
    BY <1>2 DEF vk_mutex_unlock, ready_insert
  <2>3. h \in Waiters /\ h \in Task
    <3>1. wait_queue[m] \in Seq(Task)
      BY DEF QueueInv, WaitInv
    <3>2. h \in Task /\ h \in Queued(wait_queue[m])
      BY <1>2, <3>1, HeadTailOfList
    <3> QED
      BY <3>2 DEF Waiters
  <2> HIDE DEF h
  <2>4. h \in TCB /\ state[h] = "BLOCKED"
    BY <2>1, <2>3, TCBFacts DEF InvBut, QueuesBut
  <2>5. UNCHANGED <<Running, Switching>>
    <3>1. state \in [TCB -> State] /\ "READY" \in State \ {"RUNNING"}
      BY <2>1, PolicyFacts DEF State
    <3> QED
      BY <1>0, <2>2, <2>4, <3>1, RunningSame DEF Switching
  <2>6. /\ priority' \in [TCB -> Priority]
        /\ \A s \in TCB \ {h} : priority'[s] = priority[s]
        /\ ready_queue' = list_insert(ready_queue, priority', h)
    BY <1>0, <2>1, <2>2, PolicyFacts
  <2> QED
    BY <2>1, <2>4, <2>5, <2>6, PolicyArrive
<1> QED
  BY <1>1, <1>2

(* The rest of the mutex code does not touch what is scheduled.             *)
LEMMA PolicyOfMutexCode ==
  ASSUME NEW t \in Task,
         \/ Lock(t) \/ LoadFree(t) \/ LoadLocked(t) \/ StoreDone(t) \/ StoreFailed(t)
         \/ SetOwner(t) \/ RecheckFree(t) \/ BlockTrigger(t) \/ UnlockTrigger(t)
  PROVE  PolicyStep
<1>1. /\ UNCHANGED <<ready_queue, priority, state, vk_current, phase>>
      /\ "active" \in pendsv <=> "active" \in pendsv'
  BY DEF Lock, vk_mutex_lock, vk_mutex_trylock, Call, LoadFree, LoadLocked, StoreDone,
         StoreFailed, SetOwner, RecheckFree, BlockTrigger, UnlockTrigger, trigger_pendsv,
         vars, tcbs
<1> QED
  BY <1>1, PolicyKept DEF Running, Switching

LEMMA PolicyOfMutexNext == QueueInv /\ [MutexNext]_allVars => PolicyStep
<1> SUFFICES ASSUME QueueInv, [MutexNext]_allVars PROVE PolicyStep
  OBVIOUS
<1>0. PICK away \in SUBSET Task : away = Waiters /\ InvBut(away)
  BY DEF QueueInv, KernelInv
<1>1. CASE idle_task \/ UNCHANGED allVars
  <2>1. UNCHANGED vars
    BY <1>1 DEF idle_task, allVars
  <2> QED
    BY <2>1, PolicyKept DEF vars, Running, Switching
<1>2. CASE StartUp
  BY <1>0, <1>2, PolicyOfCreation, PolicyOfStart DEF StartUp
<1>3. ASSUME NEW t \in Task, Lock(t) \/ Unlock(t) \/ Finish(t) PROVE PolicyStep
  BY <1>3, PolicyOfUnlock, PolicyOfBlock, PolicyOfMutexCode DEF Unlock, Finish
<1>4. ASSUME NEW t \in Task, Outside(t) PROVE PolicyStep
  <2>1. CASE t \in Creators /\ vk_task_create(t)
    BY <1>0, <2>1, PolicyOfCreation
  <2>2. CASE Relinquish(t)
    <3>1. Executing(t) /\ mpc[t] = "out"
      BY <1>4, <2>2 DEF Outside, Relinquish, vk_task_yield, vk_task_sleep, vk_task_exit,
                        Trigger
    <3>2. t \in Task \ away
      BY <1>0, <3>1, ExecutingIsNoWaiter DEF QueueInv
    <3> QED
      BY <1>0, <2>2, <3>2, PolicyOfTask
  <2> QED
    BY <1>4, <2>1, <2>2 DEF Outside, Relinquish
<1>5. CASE MutexSysTick \/ MutexPendSV
  <2>1. SysTick_Handler \/ PendSV
    BY <1>5 DEF MutexSysTick, MutexPendSV, SysTick_Handler, PendSV
  <2> QED
    BY <1>0, <2>1, PolicyOfSysTick, PolicyOfPendSV
<1> QED
  BY <1>1, <1>2, <1>3, <1>4, <1>5 DEF MutexNext

(* Tasks that block on mutexes and are woken are scheduled as Dispatcher     *)
(* says: a woken waiter has no precedence over its equals.                   *)
THEOREM MutexKeepsPolicy == MutexSpec => ImplementsDispatcher
<1>1. MutexInit => Policy!Init
  BY PolicyInit DEF MutexInit
<1>2. QueueInv /\ [MutexNext]_allVars => [Policy!Next]_PolicyVars
  BY PolicyOfMutexNext DEF PolicyStep
<1> QED
  BY <1>1, <1>2, QueueInvariant, PTL
     DEF MutexSpec, ImplementsDispatcher, Policy!Spec, PolicyVars

===============================================================================
