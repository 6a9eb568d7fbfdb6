----------------------------- MODULE VulcanMutex -----------------------------
(***************************************************************************)
(* kernel/vulcan_mutex.c on top of the scheduler: binary mutexes taken     *)
(* with LDREX/STREX, with a FIFO of blocked tasks each.                    *)
(*                                                                         *)
(* Clients are as vulcan_mutex.h asks: only tasks call (never a handler),  *)
(* no task locks a mutex it holds, only the holder unlocks, and a task     *)
(* that exits holds none.                                                  *)
(***************************************************************************)
EXTENDS VulcanSched

CONSTANT Mutex   \* the mutexes

ASSUME MutexAssumption == NULL \notin Mutex

VARIABLES
  locked, owner,
  wait_queue,   \* the list from wait_head to wait_tail
  monitor,      \* the core's exclusive monitor: "open" or "exclusive"
  mpc,          \* where each task is in the mutex code; "out" when outside
  call,         \* its call: which mutex, and if it is vk_mutex_lock
  holds         \* history: the mutexes each task was given and not released

mutexes == <<locked, owner, wait_queue>>
mutexVars == <<mutexes, monitor, mpc, call, holds>>
allVars == <<vars, mutexVars>>

NoMutexCall == [mutex |-> NULL, blocking |-> FALSE]

(* vk_mutex_init, or VK_MUTEX_INIT, for each mutex. *)
MutexInit ==
  /\ Init
  /\ locked = [m \in Mutex |-> 0]
  /\ owner = [m \in Mutex |-> NULL]
  /\ wait_queue = [m \in Mutex |-> <<>>]
  /\ monitor = "open"
  /\ mpc = [t \in Task |-> "out"]
  /\ call = [t \in Task |-> NoMutexCall]
  /\ holds = [t \in Task |-> {}]

At(t, point) ==
  /\ Executing(t)
  /\ pc[t] = "run"
  /\ mpc[t] = point

GoTo(t, point) ==
  /\ mpc' = [mpc EXCEPT ![t] = point]
  /\ UNCHANGED call

Return(t) ==
  /\ mpc' = [mpc EXCEPT ![t] = "out"]
  /\ call' = [call EXCEPT ![t] = NoMutexCall]

-------------------------------------------------------------------------------
\* vk_mutex_trylock, called by itself or from the loop of vk_mutex_lock.

Call(t, m, blocking) ==
  /\ At(t, "out")
  /\ m \notin holds[t]
  /\ mpc' = [mpc EXCEPT ![t] = "ldrex"]
  /\ call' = [call EXCEPT ![t] = [mutex |-> m, blocking |-> blocking]]
  /\ UNCHANGED <<vars, mutexes, monitor, holds>>

vk_mutex_lock(t, m) == Call(t, m, TRUE)

vk_mutex_trylock(t, m) == Call(t, m, FALSE)

LoadFree(t) ==
  /\ At(t, "ldrex")
  /\ locked[call[t].mutex] = 0
  /\ monitor' = "exclusive"
  /\ GoTo(t, "strex")
  /\ UNCHANGED <<vars, mutexes, holds>>

(* CLREX; trylock returns VK_ERR_FULL. *)
LoadLocked(t) ==
  /\ At(t, "ldrex")
  /\ locked[call[t].mutex] # 0
  /\ monitor' = "open"
  /\ IF call[t].blocking THEN GoTo(t, "recheck") ELSE Return(t)
  /\ UNCHANGED <<vars, mutexes, holds>>

(* A mutation: the lock word is counted up by a plain load and store. *)
StoreDone_plain(t) ==
  /\ At(t, "strex")
  /\ locked' = [locked EXCEPT ![call[t].mutex] = @ + 1]
  /\ monitor' = "open"
  /\ GoTo(t, "owner")
  /\ UNCHANGED <<vars, owner, wait_queue, holds>>

StoreDone(t) ==
  /\ At(t, "strex")
  /\ monitor = "exclusive"
  /\ locked' = [locked EXCEPT ![call[t].mutex] = 1]
  /\ monitor' = "open"
  /\ GoTo(t, "owner")
  /\ UNCHANGED <<vars, owner, wait_queue, holds>>

(* A mutation: a plain store, which an exception since the load cannot stop. *)
StoreFailed_ignored(t) ==
  /\ At(t, "strex")
  /\ monitor = "open"
  /\ locked' = [locked EXCEPT ![call[t].mutex] = 1]
  /\ GoTo(t, "owner")
  /\ UNCHANGED <<vars, owner, wait_queue, holds, monitor>>

StoreFailed(t) ==
  /\ At(t, "strex")
  /\ monitor = "open"
  /\ GoTo(t, "ldrex")
  /\ UNCHANGED <<vars, mutexes, monitor, holds>>

SetOwner(t) ==
  /\ At(t, "owner")
  /\ owner' = [owner EXCEPT ![call[t].mutex] = vk_current]
  /\ holds' = [holds EXCEPT ![t] = @ \cup {call[t].mutex}]
  /\ Return(t)
  /\ UNCHANGED <<vars, locked, wait_queue, monitor>>

-------------------------------------------------------------------------------
\* The rest of vk_mutex_lock.

(* Released since the LDREX, seen in the critical section: try again. *)
RecheckFree(t) ==
  /\ At(t, "recheck")
  /\ locked[call[t].mutex] = 0
  /\ GoTo(t, "ldrex")
  /\ UNCHANGED <<vars, mutexes, monitor, holds>>

Enqueue(t, m) ==
  /\ state' = [state EXCEPT ![t] = "BLOCKED"]
  /\ wait_queue' = [wait_queue EXCEPT ![m] = Append(@, t)]
  /\ GoTo(t, "blocked")
  /\ UNCHANGED <<vk_current, vk_ticks, ready_queue, sleep_queue, task_count,
                 priority, wake_tick, id, phase, pc, args, cpu, locked, owner,
                 monitor, holds>>

(* A mutation: no second look at `locked' in the critical section. *)
Block_unchecked(t) ==
  /\ At(t, "recheck")
  /\ Enqueue(t, call[t].mutex)

Block(t) ==
  /\ At(t, "recheck")
  /\ locked[call[t].mutex] # 0
  /\ Enqueue(t, call[t].mutex)

(* Interrupts are open again; when it next runs it tries again. *)
BlockTrigger(t) ==
  /\ At(t, "blocked")
  /\ trigger_pendsv
  /\ GoTo(t, "ldrex")
  /\ UNCHANGED <<vk_current, vk_ticks, ready_queue, sleep_queue, task_count,
                 tcbs, phase, pc, args, systick, mutexes, monitor, holds>>

-------------------------------------------------------------------------------
\* vk_mutex_unlock.

(* Two mutations: the waiter woken stays on the list, and nobody is woken. *)
vk_mutex_unlock_linked(t, m) ==
  /\ At(t, "out")
  /\ m \in holds[t]
  /\ locked' = [locked EXCEPT ![m] = 0]
  /\ owner' = [owner EXCEPT ![m] = NULL]
  /\ IF wait_queue[m] = <<>>
     THEN UNCHANGED <<ready_queue, state>>
     ELSE ready_insert(Head(wait_queue[m]))
  /\ holds' = [holds EXCEPT ![t] = @ \ {m}]
  /\ mpc' = [mpc EXCEPT ![t] = "unlocked"]
  /\ UNCHANGED <<vk_current, vk_ticks, sleep_queue, task_count, priority,
                 wake_tick, id, phase, pc, args, cpu, monitor, call,
                 wait_queue>>

vk_mutex_unlock_silent(t, m) ==
  /\ At(t, "out")
  /\ m \in holds[t]
  /\ locked' = [locked EXCEPT ![m] = 0]
  /\ owner' = [owner EXCEPT ![m] = NULL]
  /\ holds' = [holds EXCEPT ![t] = @ \ {m}]
  /\ mpc' = [mpc EXCEPT ![t] = "unlocked"]
  /\ UNCHANGED <<vars, wait_queue, monitor, call>>

(* A mutation: the waiter woken is put first, whatever its priority. *)
vk_mutex_unlock_first(t, m) ==
  /\ At(t, "out")
  /\ m \in holds[t]
  /\ locked' = [locked EXCEPT ![m] = 0]
  /\ owner' = [owner EXCEPT ![m] = NULL]
  /\ IF wait_queue[m] = <<>>
     THEN UNCHANGED <<wait_queue, ready_queue, state>>
     ELSE LET h == Head(wait_queue[m])
          IN  /\ wait_queue' = [wait_queue EXCEPT ![m] = Tail(@)]
              /\ ready_queue' = <<h>> \o ready_queue
              /\ state' = [state EXCEPT ![h] = "READY"]
  /\ holds' = [holds EXCEPT ![t] = @ \ {m}]
  /\ mpc' = [mpc EXCEPT ![t] = "unlocked"]
  /\ UNCHANGED <<vk_current, vk_ticks, sleep_queue, task_count, priority,
                 wake_tick, id, phase, pc, args, cpu, monitor, call>>

(* The critical section. *)
vk_mutex_unlock(t, m) ==
  /\ At(t, "out")
  /\ m \in holds[t]
  /\ locked' = [locked EXCEPT ![m] = 0]
  /\ owner' = [owner EXCEPT ![m] = NULL]
  /\ IF wait_queue[m] = <<>>
     THEN UNCHANGED <<wait_queue, ready_queue, state>>
     ELSE /\ wait_queue' = [wait_queue EXCEPT ![m] = Tail(@)]
          /\ ready_insert(Head(wait_queue[m]))
  /\ holds' = [holds EXCEPT ![t] = @ \ {m}]
  /\ mpc' = [mpc EXCEPT ![t] = "unlocked"]
  /\ UNCHANGED <<vk_current, vk_ticks, sleep_queue, task_count, priority,
                 wake_tick, id, phase, pc, args, cpu, monitor, call>>

UnlockTrigger(t) ==
  /\ At(t, "unlocked")
  /\ trigger_pendsv
  /\ Return(t)
  /\ UNCHANGED <<vk_current, vk_ticks, ready_queue, sleep_queue, task_count,
                 tcbs, phase, pc, args, systick, mutexes, monitor, holds>>

-------------------------------------------------------------------------------
Finish(t) ==
  \/ LoadFree(t) \/ LoadLocked(t)
  \/ StoreDone(t) \/ StoreFailed(t) \/ SetOwner(t)
  \/ RecheckFree(t) \/ Block(t) \/ BlockTrigger(t)
  \/ UnlockTrigger(t)

Unlock(t) == \E m \in Mutex : vk_mutex_unlock(t, m)

Lock(t) ==
  \E m \in Mutex : vk_mutex_lock(t, m) \/ vk_mutex_trylock(t, m)

(* Task code outside the mutex. *)
Outside(t) ==
  /\ mpc[t] = "out"
  /\ \/ vk_task_yield(t)
     \/ \E n \in SleepTicks : vk_task_sleep(t, n)
     \/ holds[t] = {} /\ vk_task_exit(t)
     \/ Trigger(t)
     \/ t \in Creators /\ vk_task_create(t)
  /\ UNCHANGED mutexVars

(* Entering an exception clears the exclusive monitor. *)
ClearMonitor ==
  /\ monitor' = "open"
  /\ UNCHANGED <<mutexes, mpc, call, holds>>

MutexSysTick ==
  \/ SysTickEnter /\ ClearMonitor
  \/ (SysTickWake \/ SysTickReturn) /\ UNCHANGED mutexVars

MutexPendSV ==
  \/ PendSVEnter /\ ClearMonitor
  \/ PendSV_Handler /\ UNCHANGED mutexVars

(* main and vk_start. *)
StartUp ==
  /\ \/ \E t \in Task, p \in Prios : BootCreate(t, p)
     \/ vk_start
  /\ UNCHANGED mutexVars

MutexNext ==
  \/ StartUp
  \/ \E t \in Task : Lock(t) \/ Unlock(t) \/ Finish(t) \/ Outside(t)
  \/ idle_task /\ UNCHANGED mutexVars
  \/ MutexSysTick
  \/ MutexPendSV

MutexSpec == MutexInit /\ [][MutexNext]_allVars

-------------------------------------------------------------------------------
\* Safety.

MutexTypeOK ==
  /\ TypeOK
  /\ locked \in [Mutex -> {0, 1}]
  /\ owner \in [Mutex -> Task \cup {NULL}]
  /\ wait_queue \in [Mutex -> Seq(Task)]
  /\ monitor \in {"open", "exclusive"}
  /\ mpc \in [Task -> {"out", "ldrex", "strex", "owner", "recheck", "blocked",
                       "unlocked"}]
  /\ call \in [Task -> [mutex : Mutex \cup {NULL}, blocking : BOOLEAN]]
  /\ holds \in [Task -> SUBSET Mutex]

(* From the store of `locked' on a task has the mutex. *)
Has(t, m) == m \in holds[t] \/ (mpc[t] = "owner" /\ call[t].mutex = m)

(* One task at most has a mutex, whatever preempts the LDREX/STREX loop, and *)
(* the mutex says so: `locked' while one has it, `owner' once it is back     *)
(* from the call.                                                            *)
MutualExclusion ==
  \A m \in Mutex :
    /\ \A t, u \in Task : Has(t, m) /\ Has(u, m) => t = u
    /\ locked[m] = 1 <=> \E t \in Task : Has(t, m)
    /\ \A t \in Task : m \in holds[t] => owner[m] = t

(* A blocked task is on one queue, the sleep queue or that of the mutex it  *)
(* wants, once: both lists are linked through the same field of the TCB.    *)
BlockedOnOneQueue ==
  /\ Holds(ready_queue, priority, state, "READY")
  /\ NoDuplicates(sleep_queue) /\ SortedBy(sleep_queue, wake_tick)
  /\ \A m \in Mutex : NoDuplicates(wait_queue[m])
  /\ \A t \in TCB :
       LET places == {m \in Mutex : t \in Queued(wait_queue[m])}
                       \cup (IF t \in Queued(sleep_queue) THEN {NULL} ELSE {})
       IN  Cardinality(places) = IF state[t] = "BLOCKED" THEN 1 ELSE 0
  /\ \A m \in Mutex : \A t \in Queued(wait_queue[m]) :
       call[t] = [mutex |-> m, blocking |-> TRUE]

(* On its way back into the loop of vk_mutex_lock. *)
Retrying(t, m) ==
  /\ call[t] = [mutex |-> m, blocking |-> TRUE]
  /\ mpc[t] \in {"ldrex", "strex", "recheck", "blocked"}
  /\ state[t] \in {"READY", "RUNNING"}

(* No wake-up is lost: tasks wait for a free mutex only while one that is   *)
(* not blocked is about to take it, whose unlock wakes the next.            *)
NoLostWakeup ==
  \A m \in Mutex :
    locked[m] = 0 /\ wait_queue[m] # <<>> => \E t \in Task : Retrying(t, m)

-------------------------------------------------------------------------------
\* Liveness.

(* Kernel code and calls of the mutex get to their end, holders unlock, and  *)
(* tasks give way.  The store follows the load by a few cycles, so that it is *)
(* not interrupted every time.                                              *)
MutexFairSpec ==
  /\ MutexSpec
  /\ SF_allVars(vk_start /\ UNCHANGED mutexVars)
  /\ WF_allVars(MutexSysTick)
  /\ SF_allVars(MutexPendSV)
  /\ \A t \in Task : /\ SF_allVars(Finish(t))
                     /\ SF_allVars(StoreDone(t))
                     /\ SF_allVars(Outside(t))
                     /\ SF_allVars(Unlock(t))

(* Of two tasks of one priority each gets the mutex it calls vk_mutex_lock   *)
(* for.  (Of three, one can starve: a woken waiter has to queue again when   *)
(* another task takes the mutex first.)                                     *)
LockersServed ==
  \A t \in Task, m \in Mutex :
    call[t] = [mutex |-> m, blocking |-> TRUE] ~> m \in holds[t]

===============================================================================
