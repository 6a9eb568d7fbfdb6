-------------------------- MODULE VulcanSchedProofs --------------------------
(***************************************************************************)
(* Proofs about VulcanSched, for any tasks, priorities and tick width.     *)
(***************************************************************************)
EXTENDS VulcanSched, VulcanListTheorems

State == {"DEAD", "READY", "RUNNING", "BLOCKED"}

Key == [TCB -> Int]

-------------------------------------------------------------------------------
\* How the changes of a queue and of a task's state keep Holds.

(* A task that joins state s is inserted.                                   *)
LEMMA HoldsInsert ==
  ASSUME NEW q \in Seq(TCB), NEW key \in Key, NEW st \in [TCB -> State],
         NEW s \in State, NEW t \in TCB, Holds(q, key, st, s), st[t] # s
  PROVE  Holds(list_insert(q, key, t), key, [st EXCEPT ![t] = s], s)
<1> DEFINE r == list_insert(q, key, t)
<1>1. t \notin Queued(q)
  BY DEF Holds
<1>2. /\ Queued(r) = Queued(q) \cup {t}
      /\ NoDuplicates(q) /\ t \notin Queued(q) => NoDuplicates(r)
      /\ SortedBy(q, key) => SortedBy(r, key)
  BY ListInsertProperties DEF Key
<1> HIDE DEF r
<1>3. Queued(r) = {u \in TCB : [st EXCEPT ![t] = s][u] = s}
  BY <1>2 DEF Holds
<1>4. NoDuplicates(r) /\ SortedBy(r, key)
  BY <1>1, <1>2 DEF Holds
<1> QED
  BY <1>3, <1>4 DEF Holds, r

(* The task at the head leaves state s.                                     *)
LEMMA HoldsPop ==
  ASSUME NEW q \in Seq(TCB), NEW key \in Key, NEW st \in [TCB -> State],
         NEW s \in State, NEW x \in State \ {s}, Holds(q, key, st, s), q # <<>>
  PROVE  /\ Holds(Tail(q), key, [st EXCEPT ![Head(q)] = x], s)
         /\ Tail(q) \in Seq(TCB)
         /\ Head(q) \in TCB /\ st[Head(q)] = s
         /\ \A u \in Queued(q) : key[Head(q)] <= key[u]
<1>1. /\ Head(q) \in Queued(q) /\ Head(q) \in TCB /\ Tail(q) \in Seq(TCB)
      /\ NoDuplicates(q) => /\ NoDuplicates(Tail(q))
                            /\ Queued(Tail(q)) = Queued(q) \ {Head(q)}
      /\ SortedBy(q, key) => SortedBy(Tail(q), key)
      /\ SortedBy(q, key) => \A u \in Queued(q) : key[Head(q)] <= key[u]
  BY HeadTailOfList DEF Key
<1> DEFINE h == Head(q)
           r == Tail(q)
<1> HIDE DEF h, r
<1>2. Queued(r) = {u \in TCB : [st EXCEPT ![h] = x][u] = s}
  BY <1>1 DEF Holds, h, r
<1>3. NoDuplicates(r) /\ SortedBy(r, key)
  BY <1>1 DEF Holds, r
<1> QED
  BY <1>1, <1>2, <1>3 DEF Holds, h, r

(* A task moves between two other states.                                   *)
LEMMA HoldsOther ==
  ASSUME NEW q, NEW key, NEW st \in [TCB -> State], NEW s \in State,
         NEW t \in TCB, NEW x \in State \ {s}, st[t] # s, Holds(q, key, st, s)
  PROVE  Holds(q, key, [st EXCEPT ![t] = x], s)
<1>1. {u \in TCB : [st EXCEPT ![t] = x][u] = s} = {u \in TCB : st[u] = s}
  OBVIOUS
<1> QED
  BY <1>1 DEF Holds

(* A task that is not in state s gets another key.                          *)
LEMMA HoldsKey ==
  ASSUME NEW q, NEW key \in Key, NEW st, NEW s, NEW t \in TCB, NEW n,
         st[t] # s, Holds(q, key, st, s)
  PROVE  Holds(q, [key EXCEPT ![t] = n], st, s)
<1>1. \A u \in Queued(q) : [key EXCEPT ![t] = n][u] = key[u]
  BY DEF Holds, Key
<1>2. SortedBy(q, [key EXCEPT ![t] = n])
  BY <1>1, SortedByAgreement DEF Holds
<1> QED
  BY <1>2 DEF Holds

-------------------------------------------------------------------------------
\* The inductive invariant.

LEMMA TCBFacts ==
  /\ Task \subseteq TCB
  /\ Creators \subseteq Task
  /\ Idle \in TCB
  /\ Idle \notin Task
  /\ NULL \notin TCB
  /\ Prios \subseteq Priority
  /\ SleepTicks \subseteq Nat
  /\ TickMod \in Nat \ {0}
BY SchedAssumption DEF TCB

LEMMA KeyTypes ==
  /\ [TCB -> Priority] \subseteq Key
  /\ [TCB -> 0 .. TickMod - 1] \subseteq Key
<1>1. Priority \subseteq Int
  BY DEF Priority, IdlePrio
<1>2. 0 .. TickMod - 1 \subseteq Int
  BY TCBFacts
<1> QED
  BY <1>1, <1>2 DEF Key

LEMMA TypeFacts ==
  ASSUME TypeOK
  PROVE  /\ priority \in Key
         /\ wake_tick \in Key
         /\ state \in [TCB -> State]
         /\ ready_queue \in Seq(TCB)
         /\ sleep_queue \in Seq(TCB)
         /\ {"DEAD", "READY", "RUNNING", "BLOCKED"} = State
BY KeyTypes DEF TypeOK, State

(***************************************************************************)
(* Other kernel objects block tasks too, on queues of their own.  The      *)
(* invariant is therefore stated for a set of tasks that are away: blocked, *)
(* but not on the sleep queue.  Of the scheduler alone it is SchedInv, with *)
(* no task away.                                                           *)
(***************************************************************************)
Seen(st, away) == [t \in TCB |-> IF t \in away THEN "DEAD" ELSE st[t]]

QueuesBut(away) ==
  /\ Holds(ready_queue, priority, state, "READY")
  /\ Holds(sleep_queue, wake_tick, Seen(state, away), "BLOCKED")
  /\ \A t \in TCB : state[t] = "RUNNING" => t = vk_current
  /\ \A t \in away : state[t] = "BLOCKED"

CurrentBut(away) ==
  phase = "run" /\ pendsv = {} /\ pc[vk_current] \notin {"sleep", "exit"}
    => vk_current \in away \/ state[vk_current] = "RUNNING"

InvBut(away) ==
  /\ TypeOK
  /\ QueuesBut(away)
  /\ StartInv
  /\ IdleInv
  /\ CurrentBut(away)
  /\ CallInv

LEMMA SeenFacts ==
  ASSUME NEW away, NEW st \in [TCB -> State]
  PROVE  /\ Seen(st, away) \in [TCB -> State]
         /\ \A t \in TCB \ away : Seen(st, away)[t] = st[t]
         /\ Seen(st, {}) = st
         /\ \A t \in TCB : Seen(st, away)[t] = "BLOCKED" => t \notin away
BY DEF Seen, State

(* A task that is not blocked, and stays so, changes its state.             *)
LEMMA SleepOther ==
  ASSUME NEW away, NEW q, NEW key, NEW st \in [TCB -> State],
         NEW t \in TCB \ away, NEW x \in State \ {"BLOCKED"}, st[t] # "BLOCKED",
         Holds(q, key, Seen(st, away), "BLOCKED")
  PROVE  Holds(q, key, Seen([st EXCEPT ![t] = x], away), "BLOCKED")
<1> DEFINE seen == Seen(st, away)
<1>1. seen \in [TCB -> State] /\ seen[t] # "BLOCKED"
  BY DEF Seen, State
<1>2. Seen([st EXCEPT ![t] = x], away) = [seen EXCEPT ![t] = x]
  BY DEF Seen
<1>3. "BLOCKED" \in State
  BY DEF State
<1> HIDE DEF seen
<1>4. Holds(q, key, [seen EXCEPT ![t] = x], "BLOCKED")
  BY <1>1, <1>3, HoldsOther DEF seen
<1> QED
  BY <1>2, <1>4

LEMMA NoneAway ==
  /\ SchedInv <=> InvBut({})
  /\ SchedInv' <=> InvBut({})'
<1>1. TypeOK => Seen(state, {}) = state
  BY TypeFacts, SeenFacts
<1>2. TypeOK' => Seen(state, {})' = state'
  BY DEF TypeOK, Seen
<1> QED
  BY <1>1, <1>2
     DEF SchedInv, InvBut, QueuesConsistent, QueuesBut, CurrentInv, CurrentBut

LEMMA InitInv == Init => SchedInv
<1> SUFFICES ASSUME Init PROVE SchedInv
  OBVIOUS
<1>1. TypeOK
  <2>1. 0 \in 0 .. TickMod - 1
    BY TCBFacts
  <2>2. 0 \in Priority /\ IdlePrio \in Priority
    BY DEF Priority, IdlePrio
  <2>3. <<Idle>> \in Seq(TCB) /\ <<>> \in Seq(TCB)
    BY TCBFacts
  <2> QED
    BY <2>1, <2>2, <2>3 DEF Init, TypeOK, NoCall
<1>2. QueuesConsistent
  <2>1. Queued(<<Idle>>) = {Idle} /\ Queued(<<>>) = {}
    BY DEF Queued
  <2>2. NoDuplicates(<<Idle>>) /\ NoDuplicates(<<>>)
    BY DEF NoDuplicates, IsInjective
  <2>3. SortedBy(<<Idle>>, priority) /\ SortedBy(<<>>, wake_tick)
    BY DEF SortedBy
  <2>4. /\ {t \in TCB : state[t] = "READY"} = {Idle}
        /\ {t \in TCB : state[t] = "BLOCKED"} = {}
        /\ \A t \in TCB : state[t] # "RUNNING"
    BY TCBFacts DEF Init
  <2>5. ready_queue = <<Idle>> /\ sleep_queue = <<>>
    BY DEF Init
  <2> QED
    BY <2>1, <2>2, <2>3, <2>4, <2>5 DEF QueuesConsistent, Holds
<1>3. StartInv
  BY DEF Init, StartInv
<1>4. IdleInv
  BY TCBFacts DEF Init, IdleInv
<1>5. CurrentInv
  BY DEF Init, CurrentInv
<1>6. CallInv
  BY TCBFacts DEF Init, CallInv, Calling, NoCall
<1> QED
  BY <1>1, <1>2, <1>3, <1>4, <1>5, <1>6 DEF SchedInv

LEMMA BootCreateInv ==
  ASSUME NEW away \in SUBSET Task, InvBut(away),
         NEW t \in Task, NEW p \in Prios, BootCreate(t, p)
  PROVE  InvBut(away)'
<1>0. /\ priority' = [priority EXCEPT ![t] = p]
      /\ wake_tick' = [wake_tick EXCEPT ![t] = 0]
      /\ id' = [id EXCEPT ![t] = task_count]
      /\ state' = [state EXCEPT ![t] = "READY"]
      /\ pc' = [pc EXCEPT ![t] = "run"]
      /\ ready_queue' = list_insert(ready_queue, priority', t)
      /\ task_count' = task_count + 1
      /\ state[t] = "DEAD" /\ phase = "boot" /\ t \in TCB /\ t # Idle
      /\ t \notin away
      /\ UNCHANGED <<vk_current, vk_ticks, sleep_queue, phase, args, systick,
                     pendsv>>
  BY TCBFacts DEF BootCreate, populate, enlist, cpu, InvBut, QueuesBut
<1>1. TypeOK'
  <2>1. 0 \in 0 .. TickMod - 1 /\ p \in Priority /\ task_count + 1 \in Nat
    BY TCBFacts DEF InvBut, TypeOK
  <2>2. priority' \in [TCB -> Priority] /\ priority' \in Key
    <3>1. priority' \in [TCB -> Priority]
      BY <1>0, <2>1 DEF InvBut, TypeOK
    <3> QED
      BY <3>1, KeyTypes
  <2>3. ready_queue' \in Seq(TCB)
    BY <1>0, <2>2, ListInsertProperties DEF InvBut, TypeOK, Key
  <2> QED
    BY <1>0, <2>1, <2>2, <2>3 DEF InvBut, TypeOK
<1>2. QueuesBut(away)'
  <2>1. priority' \in Key /\ state \in [TCB -> State]
    BY <1>1, TypeFacts, KeyTypes DEF InvBut, TypeOK
  <2>2. Holds(ready_queue, priority', state, "READY")
    BY <1>0, TypeFacts, HoldsKey DEF InvBut, QueuesBut
  <2>3. Holds(ready_queue', priority', state', "READY")
    BY <1>0, <2>1, <2>2, TypeFacts, HoldsInsert DEF InvBut, State
  <2>4. Holds(sleep_queue, wake_tick', Seen(state, away), "BLOCKED")
    <3>1. Seen(state, away) \in [TCB -> State] /\ Seen(state, away)[t] # "BLOCKED"
      BY <1>0, TypeFacts, SeenFacts DEF InvBut
    <3> QED
      BY <1>0, <3>1, TypeFacts, HoldsKey DEF InvBut, QueuesBut
  <2>5. Holds(sleep_queue, wake_tick', Seen(state', away), "BLOCKED")
    BY <1>0, <2>1, <2>4, SleepOther DEF State
  <2> QED
    BY <1>0, <2>1, <2>3, <2>5, TCBFacts DEF InvBut, QueuesBut
<1>3. StartInv'
  BY <1>0 DEF InvBut, StartInv, TypeOK
<1>4. IdleInv'
  BY <1>0, TCBFacts DEF InvBut, IdleInv, TypeOK
<1>5. CurrentBut(away)'
  BY <1>0 DEF CurrentBut
<1>6. CallInv'
  BY <1>0, TCBFacts DEF InvBut, CallInv, Calling, TypeOK
<1> QED
  BY <1>1, <1>2, <1>3, <1>4, <1>5, <1>6 DEF InvBut

LEMMA StartInvStep ==
  ASSUME NEW away \in SUBSET Task, InvBut(away),
         vk_start
  PROVE  InvBut(away)'
<1>1. CASE StartTimer
  <2> USE <1>1 DEF StartTimer, tcbs, cpu
  <2>1. TypeOK'
    BY DEF InvBut, TypeOK
  <2>2. QueuesBut(away)' /\ IdleInv' /\ StartInv' /\ CurrentBut(away)'
    BY DEF InvBut, QueuesBut, IdleInv, StartInv, CurrentBut
  <2>3. CallInv'
    BY DEF InvBut, CallInv, Calling
  <2> QED
    BY <2>1, <2>2, <2>3 DEF InvBut
<1>2. CASE StartPick
  <2> USE <1>2 DEF StartPick, tcbs, cpu
  <2>1. state[Idle] = "READY"
    BY TCBFacts DEF InvBut, StartInv, IdleInv
  <2>2. Idle \in Queued(ready_queue)
    BY <2>1, TCBFacts DEF InvBut, QueuesBut, Holds
  <2>3. ready_queue # <<>>
    BY <2>2 DEF Queued
  <2>4. Head(ready_queue) \in TCB
    BY <2>3, TypeFacts, HeadTailOfList DEF InvBut
  <2>5. TypeOK'
    BY <2>4 DEF InvBut, TypeOK
  <2>6. QueuesBut(away)' /\ IdleInv' /\ StartInv' /\ CurrentBut(away)'
    BY <2>3 DEF InvBut, QueuesBut, IdleInv, StartInv, CurrentBut
  <2>7. CallInv'
    BY DEF InvBut, CallInv, Calling
  <2> QED
    BY <2>5, <2>6, <2>7 DEF InvBut
<1>3. CASE StartPop
  <2> USE <1>3 DEF StartPop, cpu
  <2>1. ready_queue # <<>> /\ vk_current = Head(ready_queue)
    BY DEF InvBut, StartInv
  <2>2. /\ Holds(ready_queue', priority, state', "READY")
        /\ Tail(ready_queue) \in Seq(TCB)
        /\ vk_current \in TCB /\ state[vk_current] = "READY"
    BY <2>1, TypeFacts, HoldsPop DEF InvBut, QueuesBut, State
  <2>3. Holds(sleep_queue, wake_tick, Seen(state', away), "BLOCKED")
    <3>1. vk_current \notin away
      BY <2>2 DEF InvBut, QueuesBut
    <3> QED
      BY <2>2, <3>1, TypeFacts, SleepOther DEF InvBut, QueuesBut, State
  <2>4. TypeOK'
    BY <2>2 DEF InvBut, TypeOK
  <2>5. QueuesBut(away)'
    BY <2>2, <2>3, TypeFacts, TCBFacts DEF InvBut, QueuesBut
  <2>6. IdleInv' /\ StartInv' /\ CurrentBut(away)'
    BY <2>2, TypeFacts, TCBFacts
       DEF InvBut, IdleInv, StartInv, CurrentBut
  <2>7. CallInv'
    BY <2>2, TypeFacts DEF InvBut, StartInv, CallInv, Calling
  <2> QED
    BY <2>4, <2>5, <2>6, <2>7 DEF InvBut
<1> QED
  BY <1>1, <1>2, <1>3 DEF vk_start

LEMMA YieldInv ==
  ASSUME NEW away \in SUBSET Task, InvBut(away),
         NEW t \in Task, vk_task_yield(t)
  PROVE  InvBut(away)'
<1> USE DEF vk_task_yield, trigger_pendsv, tcbs, Executing
<1>1. TypeOK'
  BY DEF InvBut, TypeOK
<1>2. QueuesBut(away)' /\ IdleInv' /\ StartInv' /\ CurrentBut(away)'
  BY DEF InvBut, QueuesBut, IdleInv, StartInv, CurrentBut
<1>3. CallInv'
  BY DEF InvBut, CallInv, Calling
<1> QED
  BY <1>1, <1>2, <1>3 DEF InvBut

LEMMA SleepInv ==
  ASSUME NEW away \in SUBSET Task, InvBut(away),
         NEW t \in Task \ away, NEW n \in SleepTicks, vk_task_sleep(t, n)
  PROVE  InvBut(away)'
<1> DEFINE w == (vk_ticks + n) % TickMod
<1>0. /\ phase = "run" /\ pendsv = {} /\ vk_current = t /\ pc[t] = "run"
      /\ t \in TCB /\ t # Idle
      /\ state[t] = "RUNNING"
      /\ wake_tick' = [wake_tick EXCEPT ![t] = w]
      /\ sleep_queue' = list_insert(sleep_queue, wake_tick', t)
      /\ state' = [state EXCEPT ![t] = "BLOCKED"]
      /\ pc' = [pc EXCEPT ![t] = "sleep"]
      /\ ready_queue' = list_remove(ready_queue, t)
      /\ UNCHANGED <<vk_current, vk_ticks, task_count, priority, id, phase,
                     args, systick, pendsv>>
  BY TCBFacts
     DEF vk_task_sleep, sleep_insert, Executing, InvBut, CurrentBut, cpu
<1>1. ready_queue' = ready_queue
  <2>1. t \notin Queued(ready_queue)
    BY <1>0 DEF InvBut, QueuesBut, Holds
  <2> QED
    BY <1>0, <2>1, ListRemoveAbsent, TypeFacts DEF InvBut
<1>2. w \in 0 .. TickMod - 1
  <2>1. n \in Nat /\ vk_ticks \in Nat /\ TickMod \in Nat \ {0}
    BY TCBFacts DEF InvBut, TypeOK
  <2> QED
    BY <2>1
<1> HIDE DEF w
<1>3. wake_tick' \in [TCB -> 0 .. TickMod - 1] /\ wake_tick' \in Key
  <2>1. wake_tick' \in [TCB -> 0 .. TickMod - 1]
    BY <1>0, <1>2 DEF InvBut, TypeOK
  <2> QED
    BY <2>1, KeyTypes
<1>4. sleep_queue' \in Seq(TCB)
  BY <1>0, <1>3, ListInsertProperties DEF InvBut, TypeOK, Key
<1>5. TypeOK'
  BY <1>0, <1>1, <1>3, <1>4 DEF InvBut, TypeOK
<1>6. QueuesBut(away)'
  <2>1. Holds(ready_queue, priority, state', "READY")
    BY <1>0, TypeFacts, HoldsOther DEF InvBut, QueuesBut, State
  <2>2. /\ Seen(state, away) \in [TCB -> State]
        /\ Seen(state, away)[t] = "RUNNING"
        /\ Seen(state', away) = [Seen(state, away) EXCEPT ![t] = "BLOCKED"]
    BY <1>0, TypeFacts DEF InvBut, Seen, State
  <2>3. Holds(sleep_queue, wake_tick', Seen(state, away), "BLOCKED")
    BY <1>0, <2>2, TypeFacts, HoldsKey DEF InvBut, QueuesBut
  <2>4. Holds(sleep_queue', wake_tick', Seen(state', away), "BLOCKED")
    <3> DEFINE seen == Seen(state, away)
    <3>1. /\ seen \in [TCB -> State] /\ seen[t] # "BLOCKED"
          /\ Seen(state', away) = [seen EXCEPT ![t] = "BLOCKED"]
          /\ Holds(sleep_queue, wake_tick', seen, "BLOCKED")
          /\ sleep_queue \in Seq(TCB) /\ "BLOCKED" \in State
      BY <2>2, <2>3, TypeFacts DEF InvBut, State
    <3> HIDE DEF seen
    <3>2. Holds(list_insert(sleep_queue, wake_tick', t), wake_tick',
                [seen EXCEPT ![t] = "BLOCKED"], "BLOCKED")
      BY <1>0, <1>3, <3>1, HoldsInsert
    <3> QED
      BY <1>0, <3>1, <3>2
  <2> QED
    BY <1>0, <1>1, <2>1, <2>4, TypeFacts, TCBFacts DEF InvBut, QueuesBut
<1>7. IdleInv' /\ StartInv' /\ CurrentBut(away)'
  BY <1>0, <1>1, TypeFacts, TCBFacts
     DEF InvBut, IdleInv, StartInv, CurrentBut, TypeOK
<1>8. CallInv'
  BY <1>0, TypeFacts, TCBFacts DEF InvBut, CallInv, Calling, TypeOK
<1> QED
  BY <1>5, <1>6, <1>7, <1>8 DEF InvBut

LEMMA ExitInv ==
  ASSUME NEW away \in SUBSET Task, InvBut(away),
         NEW t \in Task \ away, vk_task_exit(t)
  PROVE  InvBut(away)'
<1>0. /\ phase = "run" /\ pendsv = {} /\ vk_current = t /\ pc[t] = "run"
      /\ t \in TCB /\ t # Idle
      /\ state[t] = "RUNNING"
      /\ state' = [state EXCEPT ![t] = "DEAD"]
      /\ pc' = [pc EXCEPT ![t] = "exit"]
      /\ UNCHANGED <<vk_current, vk_ticks, ready_queue, sleep_queue,
                     task_count, priority, wake_tick, id, phase, args, systick,
                     pendsv>>
  BY TCBFacts DEF vk_task_exit, Executing, InvBut, CurrentBut, cpu
<1>1. TypeOK'
  BY <1>0 DEF InvBut, TypeOK
<1>2. QueuesBut(away)'
  <2>1. Holds(ready_queue, priority, state', "READY")
    BY <1>0, TypeFacts, HoldsOther DEF InvBut, QueuesBut, State
  <2>2. Holds(sleep_queue, wake_tick, Seen(state', away), "BLOCKED")
    BY <1>0, TypeFacts, SleepOther DEF InvBut, QueuesBut, State
  <2> QED
    BY <1>0, <2>1, <2>2, TypeFacts, TCBFacts DEF InvBut, QueuesBut
<1>3. IdleInv' /\ StartInv' /\ CurrentBut(away)'
  BY <1>0, TypeFacts, TCBFacts
     DEF InvBut, IdleInv, StartInv, CurrentBut, TypeOK
<1>4. CallInv'
  BY <1>0, TypeFacts, TCBFacts DEF InvBut, CallInv, Calling, TypeOK
<1> QED
  BY <1>1, <1>2, <1>3, <1>4 DEF InvBut

LEMMA TriggerInv ==
  ASSUME NEW away \in SUBSET Task, InvBut(away),
         NEW t \in Task, Trigger(t)
  PROVE  InvBut(away)'
<1> USE DEF Trigger, trigger_pendsv, tcbs, Executing
<1>1. TypeOK'
  BY TCBFacts DEF InvBut, TypeOK
<1>2. QueuesBut(away)' /\ StartInv' /\ CurrentBut(away)'
  BY DEF InvBut, QueuesBut, StartInv, CurrentBut
<1>3. IdleInv'
  BY TCBFacts DEF InvBut, IdleInv, TypeOK
<1>4. CallInv'
  BY TCBFacts DEF InvBut, CallInv, Calling, TypeOK
<1> QED
  BY <1>1, <1>2, <1>3, <1>4 DEF InvBut

LEMMA CreateCheckInv ==
  ASSUME NEW away \in SUBSET Task, InvBut(away),
         NEW c \in Creators, NEW t \in Task, NEW p \in Prios,
         CreateCheck(c, t, p)
  PROVE  InvBut(away)'
<1> USE DEF CreateCheck, tcbs, cpu, Executing
<1>1. TypeOK'
  BY TCBFacts DEF InvBut, TypeOK
<1>2. QueuesBut(away)' /\ StartInv'
  BY DEF InvBut, QueuesBut, StartInv
<1>3. IdleInv' /\ CurrentBut(away)'
  BY TCBFacts DEF InvBut, IdleInv, CurrentBut, TypeOK
<1>4. CallInv'
  <2>1. /\ args' = [args EXCEPT ![c] = [tcb |-> t, priority |-> p, count |-> 0]]
        /\ pc' = [pc EXCEPT ![c] = "fill"]
        /\ \A d \in Creators : args[d].tcb # t
        /\ state[t] = "DEAD" /\ phase' = "run" /\ state' = state
    OBVIOUS
  <2>2. args'[c].tcb = t /\ \A d \in Creators : d # c => args'[d] = args[d]
    BY <2>1 DEF InvBut, TypeOK
  <2>3. \A d \in Creators : d # c => pc'[d] = pc[d]
    BY <2>1, TCBFacts DEF InvBut, TypeOK
  <2> QED
    BY <2>1, <2>2, <2>3 DEF InvBut, CallInv, Calling
<1> QED
  BY <1>1, <1>2, <1>3, <1>4 DEF InvBut

LEMMA CreateLoadInv ==
  ASSUME NEW away \in SUBSET Task, InvBut(away),
         NEW c \in Creators, CreateLoad(c)
  PROVE  InvBut(away)'
<1> USE DEF CreateLoad, tcbs, cpu, Executing
<1>1. TypeOK'
  BY TCBFacts, ZenonT(30) DEF InvBut, TypeOK
<1>2. QueuesBut(away)' /\ StartInv'
  BY DEF InvBut, QueuesBut, StartInv
<1>3. IdleInv' /\ CurrentBut(away)'
  BY TCBFacts DEF InvBut, IdleInv, CurrentBut, TypeOK
<1>4. CallInv'
  <2>1. /\ \A d \in Creators : args'[d].tcb = args[d].tcb
        /\ phase' = phase /\ state' = state
    BY DEF InvBut, TypeOK
  <2>2. \A d \in Creators : Calling(d)' => Calling(d)
    BY TCBFacts DEF InvBut, TypeOK, Calling
  <2> QED
    BY <2>1, <2>2 DEF InvBut, CallInv
<1> QED
  BY <1>1, <1>2, <1>3, <1>4 DEF InvBut

LEMMA CreateStoreInv ==
  ASSUME NEW away \in SUBSET Task, InvBut(away),
         NEW c \in Creators \ away, CreateStore(c)
  PROVE  InvBut(away)'
<1> DEFINE t == args[c].tcb
<1>0. /\ phase = "run" /\ pendsv = {} /\ vk_current = c /\ pc[c] = "count"
      /\ c \in TCB /\ c # Idle /\ t \in TCB /\ t \in Task /\ t # Idle
      /\ state[t] = "DEAD" /\ state[c] = "RUNNING"
      /\ args[c].priority \in Priority /\ args[c].count \in Nat
      /\ priority' = [priority EXCEPT ![t] = args[c].priority]
      /\ wake_tick' = [wake_tick EXCEPT ![t] = 0]
      /\ id' = [id EXCEPT ![t] = args[c].count]
      /\ task_count' = args[c].count + 1
      /\ pc' = [pc EXCEPT ![c] = "insert"]
      /\ UNCHANGED <<vk_current, vk_ticks, ready_queue, sleep_queue, state,
                     phase, args, systick, pendsv>>
  BY TCBFacts DEF CreateStore, populate, Executing, InvBut, CurrentBut,
                  CallInv, Calling, TypeOK, cpu
<1> HIDE DEF t
<1>1. TypeOK'
  <2>1. 0 \in 0 .. TickMod - 1 /\ args[c].count + 1 \in Nat
    BY <1>0, TCBFacts
  <2> QED
    BY <1>0, <2>1 DEF InvBut, TypeOK
<1>2. QueuesBut(away)'
  <2>1. Holds(ready_queue, priority', state, "READY")
    BY <1>0, TypeFacts, HoldsKey DEF InvBut, QueuesBut
  <2>2. Holds(sleep_queue, wake_tick', Seen(state, away), "BLOCKED")
    <3>1. Seen(state, away) \in [TCB -> State] /\ Seen(state, away)[t] # "BLOCKED"
      BY <1>0, TypeFacts, SeenFacts DEF InvBut
    <3> QED
      BY <1>0, <3>1, TypeFacts, HoldsKey DEF InvBut, QueuesBut
  <2> QED
    BY <1>0, <2>1, <2>2 DEF InvBut, QueuesBut
<1>3. IdleInv' /\ StartInv' /\ CurrentBut(away)'
  BY <1>0, TCBFacts DEF InvBut, IdleInv, StartInv, CurrentBut, TypeOK
<1>4. CallInv'
  BY <1>0, TCBFacts DEF InvBut, CallInv, Calling, TypeOK
<1> QED
  BY <1>1, <1>2, <1>3, <1>4 DEF InvBut

LEMMA CreateInsertInv ==
  ASSUME NEW away \in SUBSET Task, InvBut(away),
         NEW c \in Creators \ away, CreateInsert(c)
  PROVE  InvBut(away)'
<1> DEFINE t == args[c].tcb
<1>0. /\ phase = "run" /\ pendsv = {} /\ vk_current = c /\ pc[c] = "insert"
      /\ c \in TCB /\ c # Idle /\ t \in TCB /\ t \in Task /\ t # Idle /\ t # NULL
      /\ state[t] = "DEAD" /\ state[c] = "RUNNING" /\ t # c /\ t \notin away
      /\ ready_queue' = list_insert(ready_queue, priority, t)
      /\ state' = [state EXCEPT ![t] = "READY"]
      /\ pc' = [pc EXCEPT ![c] = "run", ![t] = "run"]
      /\ args' = [args EXCEPT ![c] = NoCall]
      /\ UNCHANGED <<vk_current, vk_ticks, sleep_queue, task_count, priority,
                     wake_tick, id, phase, systick, pendsv>>
  BY TCBFacts DEF CreateInsert, ready_insert, Executing, InvBut, CurrentBut,
                  QueuesBut, CallInv, Calling, TypeOK, cpu
<1>a. \A d \in Creators : d # c => args[d].tcb # t
  BY <1>0 DEF InvBut, CallInv
<1> HIDE DEF t
<1>1. TypeOK'
  <2>1. ready_queue' \in Seq(TCB)
    BY <1>0, TypeFacts, ListInsertProperties DEF InvBut, Key
  <2>2. NoCall \in [tcb : Task \cup {NULL}, priority : Priority, count : Nat]
    BY DEF NoCall, Priority, IdlePrio
  <2> QED
    BY <1>0, <2>1, <2>2 DEF InvBut, TypeOK
<1>2. QueuesBut(away)'
  <2>1. Holds(ready_queue', priority, state', "READY")
    BY <1>0, TypeFacts, HoldsInsert DEF InvBut, QueuesBut, State
  <2>2. Holds(sleep_queue, wake_tick, Seen(state', away), "BLOCKED")
    BY <1>0, TypeFacts, SleepOther DEF InvBut, QueuesBut, State
  <2> QED
    BY <1>0, <2>1, <2>2, TypeFacts, TCBFacts DEF InvBut, QueuesBut
<1>3. IdleInv' /\ StartInv' /\ CurrentBut(away)'
  BY <1>0, TypeFacts, TCBFacts
     DEF InvBut, IdleInv, StartInv, CurrentBut, TypeOK
<1>4. CallInv'
  <2>1. ASSUME NEW d \in Creators, Calling(d)'
        PROVE  phase' = "run" /\ args'[d].tcb \in Task
                 /\ state'[args'[d].tcb] = "DEAD"
    <3>1. d # c /\ pc'[d] = pc[d]
      BY <2>1, <1>0, TCBFacts DEF Calling, InvBut, TypeOK
    <3>2. Calling(d) /\ args'[d] = args[d] /\ args[d].tcb # t
      BY <2>1, <3>1, <1>0, <1>a DEF Calling, InvBut, TypeOK
    <3> QED
      BY <3>2, <1>0, TypeFacts, TCBFacts DEF InvBut, CallInv
  <2>2. ASSUME NEW d \in Creators, NEW e \in Creators, d # e,
               args'[d].tcb = args'[e].tcb
        PROVE  args'[d].tcb = NULL
    BY <2>2, <1>0 DEF InvBut, CallInv, TypeOK, NoCall
  <2> QED
    BY <2>1, <2>2 DEF CallInv
<1> QED
  BY <1>1, <1>2, <1>3, <1>4 DEF InvBut

LEMMA SysTickInv ==
  ASSUME NEW away \in SUBSET Task, InvBut(away),
         SysTick_Handler
  PROVE  InvBut(away)'
<1>1. CASE SysTickEnter
  <2> USE <1>1 DEF SysTickEnter, tcbs
  <2>1. vk_ticks' \in 0 .. TickMod - 1
    <3>1. vk_ticks + 1 \in Nat /\ TickMod \in Nat \ {0}
      BY TCBFacts DEF InvBut, TypeOK
    <3> QED
      BY <3>1
  <2>2. TypeOK'
    BY <2>1 DEF InvBut, TypeOK
  <2>3. QueuesBut(away)' /\ IdleInv' /\ StartInv' /\ CurrentBut(away)'
    BY DEF InvBut, QueuesBut, IdleInv, StartInv, CurrentBut
  <2>4. CallInv'
    BY DEF InvBut, CallInv, Calling
  <2> QED
    BY <2>2, <2>3, <2>4 DEF InvBut
<1>2. CASE SysTickWake
  <2> DEFINE t == Head(sleep_queue)
  <2>0. /\ sleep_queue # <<>>
        /\ sleep_queue' = Tail(sleep_queue)
        /\ ready_queue' = list_insert(ready_queue, priority, t)
        /\ state' = [state EXCEPT ![t] = "READY"]
        /\ UNCHANGED <<vk_current, vk_ticks, task_count, priority, wake_tick,
                       id, phase, pc, args, systick, pendsv>>
    BY <1>2 DEF SysTickWake, Expired, ready_insert, cpu
  <2>1. /\ Holds(sleep_queue', wake_tick, Seen(state', away), "BLOCKED")
        /\ sleep_queue' \in Seq(TCB)
        /\ t \in TCB /\ t \notin away /\ state[t] = "BLOCKED"
    <3> DEFINE seen == Seen(state, away)
    <3>1. seen \in [TCB -> State]
      BY TypeFacts, SeenFacts DEF InvBut
    <3>2. /\ Holds(Tail(sleep_queue), wake_tick, [seen EXCEPT ![t] = "READY"], "BLOCKED")
          /\ Tail(sleep_queue) \in Seq(TCB)
          /\ t \in TCB /\ seen[t] = "BLOCKED"
      BY <2>0, <3>1, TypeFacts, HoldsPop DEF InvBut, QueuesBut, State
    <3>3. t \notin away /\ state[t] = "BLOCKED"
      BY <3>2, TypeFacts, SeenFacts DEF InvBut
    <3>4. Seen(state', away) = [seen EXCEPT ![t] = "READY"]
      BY <2>0, <3>2, <3>3, TypeFacts DEF InvBut, Seen
    <3> QED
      BY <2>0, <3>2, <3>3, <3>4
  <2> HIDE DEF t
  <2>2. phase = "run"
    BY <2>1 DEF InvBut, StartInv, TypeOK
  <2>3. Holds(ready_queue', priority, state', "READY")
    BY <2>0, <2>1, TypeFacts, HoldsInsert DEF InvBut, QueuesBut, State
  <2>4. ready_queue' \in Seq(TCB)
    BY <2>0, <2>1, TypeFacts, ListInsertProperties DEF InvBut, Key
  <2>5. TypeOK'
    BY <2>0, <2>1, <2>4 DEF InvBut, TypeOK
  <2>6. QueuesBut(away)'
    BY <2>0, <2>1, <2>3, TypeFacts, TCBFacts DEF InvBut, QueuesBut
  <2>7. t # Idle
    BY <2>1 DEF InvBut, IdleInv
  <2>8. CurrentBut(away)'
    BY <2>0, <2>1, <2>2, TypeFacts DEF InvBut, StartInv, CurrentBut
  <2>9. IdleInv' /\ StartInv'
    BY <2>0, <2>1, <2>2, <2>7, TypeFacts, TCBFacts
       DEF InvBut, IdleInv, StartInv
  <2>10. CallInv'
    BY <2>0, <2>1, TypeFacts, TCBFacts DEF InvBut, CallInv, Calling
  <2> QED
    BY <2>5, <2>6, <2>8, <2>9, <2>10 DEF InvBut
<1>3. CASE SysTickReturn
  <2> USE <1>3 DEF SysTickReturn, trigger_pendsv, tcbs
  <2>1. TypeOK'
    BY DEF InvBut, TypeOK
  <2>2. QueuesBut(away)' /\ IdleInv'
    BY DEF InvBut, QueuesBut, IdleInv
  <2>3. phase # "run" => ~Preempts
    <3> SUFFICES ASSUME phase # "run", Preempts PROVE FALSE
      OBVIOUS
    <3>1. phase = "pick" /\ vk_current = Head(ready_queue) /\ ready_queue # <<>>
      BY DEF Preempts, InvBut, StartInv, TypeOK
    <3>2. Head(ready_queue) \in TCB
      BY <3>1, TypeFacts, HeadTailOfList DEF InvBut
    <3>3. priority[Head(ready_queue)] \in Int
      BY <3>2, TypeFacts DEF InvBut, Key
    <3> QED
      BY <3>1, <3>3 DEF Preempts
  <2>4. StartInv' /\ CurrentBut(away)'
    BY <2>3 DEF InvBut, StartInv, CurrentBut
  <2>5. CallInv'
    BY DEF InvBut, CallInv, Calling
  <2> QED
    BY <2>1, <2>2, <2>4, <2>5 DEF InvBut
<1> QED
  BY <1>1, <1>2, <1>3 DEF SysTick_Handler

(* The switch takes the first of the ready tasks, and there is one.         *)
LEMMA ScheduleInv ==
  ASSUME NEW away \in SUBSET Task, InvBut(away),
         PendSV_Handler
  PROVE  /\ InvBut(away)'
         /\ state'[vk_current'] = "RUNNING"
         /\ \A u \in Queued(ready_queue') : priority[vk_current'] <= priority[u]
         /\ \A u \in TCB : state[u] = "DEAD" <=> state'[u] = "DEAD"
<1> DEFINE alive == vk_current # NULL /\ state[vk_current] = "RUNNING"
           queue == IF alive THEN list_insert(ready_queue, priority, vk_current)
                             ELSE ready_queue
           settled == IF alive THEN [state EXCEPT ![vk_current] = "READY"]
                               ELSE state
<1>0. /\ phase = "run" /\ vk_current \in TCB /\ vk_current # NULL
      /\ pendsv' \in SUBSET {"pending", "active"}
      /\ UNCHANGED <<vk_ticks, sleep_queue, task_count, priority, wake_tick,
                     id, phase, pc, args, systick>>
  BY TCBFacts DEF PendSV_Handler, InvBut, StartInv, TypeOK
<1>1. /\ Holds(queue, priority, settled, "READY")
      /\ Holds(sleep_queue, wake_tick, Seen(settled, away), "BLOCKED")
      /\ \A u \in away : settled[u] = "BLOCKED"
      /\ queue \in Seq(TCB)
      /\ settled \in [TCB -> State]
      /\ \A u \in TCB : settled[u] # "RUNNING"
      /\ settled[Idle] = "READY"
      /\ \A u \in TCB : state[u] = "DEAD" <=> settled[u] = "DEAD"
  <2>1. CASE alive
    <3>1. queue = list_insert(ready_queue, priority, vk_current)
          /\ settled = [state EXCEPT ![vk_current] = "READY"]
      BY <2>1
    <3>2. state[vk_current] = "RUNNING"
      BY <2>1
    <3> HIDE DEF queue, settled, alive
    <3>3. Holds(queue, priority, settled, "READY")
      BY <1>0, <3>1, <3>2, TypeFacts, HoldsInsert
         DEF InvBut, QueuesBut, State
    <3>a. vk_current \notin away
      BY <3>2 DEF InvBut, QueuesBut
    <3>4. Holds(sleep_queue, wake_tick, Seen(settled, away), "BLOCKED")
      BY <1>0, <3>1, <3>2, <3>a, TypeFacts, SleepOther
         DEF InvBut, QueuesBut, State
    <3>b. \A u \in away : settled[u] = "BLOCKED"
      BY <3>1, <3>a, TypeFacts, TCBFacts DEF InvBut, QueuesBut
    <3>5. queue \in Seq(TCB)
      BY <1>0, <3>1, TypeFacts, ListInsertProperties DEF InvBut, Key
    <3>6. settled \in [TCB -> State]
      BY <1>0, <3>1, TypeFacts DEF InvBut
    <3>7. \A u \in TCB : settled[u] # "RUNNING"
      BY <1>0, <3>1, TypeFacts DEF InvBut, QueuesBut
    <3>8. settled[Idle] = "READY"
      BY <3>7, <3>1, TypeFacts, TCBFacts DEF InvBut, IdleInv
    <3>9. \A u \in TCB : state[u] = "DEAD" <=> settled[u] = "DEAD"
      BY <1>0, <3>1, <3>2, TypeFacts DEF InvBut
    <3> QED
      BY <3>3, <3>4, <3>b, <3>5, <3>6, <3>7, <3>8, <3>9
  <2>2. CASE ~alive
    <3>1. queue = ready_queue /\ settled = state /\ state[vk_current] # "RUNNING"
      BY <2>2, <1>0
    <3> HIDE DEF queue, settled, alive
    <3>2. \A u \in TCB : state[u] # "RUNNING"
      BY <3>1 DEF InvBut, QueuesBut
    <3>3. state[Idle] = "READY"
      BY <3>2, TCBFacts DEF InvBut, IdleInv
    <3> QED
      BY <3>1, <3>2, <3>3, TypeFacts DEF InvBut, QueuesBut
  <2> QED
    BY <2>1, <2>2
<1>2. queue # <<>>
  <2> HIDE DEF queue, settled, alive
  <2>1. Idle \in Queued(queue)
    BY <1>1, TCBFacts DEF Holds
  <2> QED
    BY <2>1 DEF Queued
<1>3. /\ vk_current' = Head(queue)
      /\ ready_queue' = Tail(queue)
      /\ state' = [settled EXCEPT ![Head(queue)] = "RUNNING"]
  BY <1>2 DEF PendSV_Handler, vk_schedule
<1> HIDE DEF queue, settled, alive
<1>4. /\ Holds(ready_queue', priority, state', "READY")
      /\ ready_queue' \in Seq(TCB)
      /\ vk_current' \in TCB /\ settled[vk_current'] = "READY"
      /\ \A u \in Queued(queue) : priority[vk_current'] <= priority[u]
  BY <1>1, <1>2, <1>3, TypeFacts, HoldsPop, ZenonT(30) DEF InvBut, State
<1>5. Holds(sleep_queue, wake_tick, Seen(state', away), "BLOCKED")
  BY <1>1, <1>3, <1>4, SleepOther DEF State
<1>6. state' \in [TCB -> State]
  BY <1>1, <1>3, <1>4 DEF State
<1>7. TypeOK'
  BY <1>0, <1>4, <1>6 DEF InvBut, TypeOK, State
<1>8. QueuesBut(away)'
  BY <1>0, <1>1, <1>3, <1>4, <1>5, TCBFacts DEF QueuesBut
<1>9. IdleInv' /\ StartInv' /\ CurrentBut(away)'
  BY <1>0, <1>1, <1>3, <1>4, TCBFacts
     DEF InvBut, IdleInv, StartInv, CurrentBut
<1>10. \A u \in TCB : state[u] = "DEAD" <=> state'[u] = "DEAD"
  BY <1>1, <1>3, <1>4
<1>11. CallInv'
  BY <1>10, <1>0, TCBFacts DEF InvBut, CallInv, Calling
<1>12. Queued(ready_queue') \subseteq Queued(queue)
  BY <1>1, <1>2, <1>3, HeadTailOfList DEF Holds
<1> QED
  BY <1>3, <1>4, <1>6, <1>7, <1>8, <1>9, <1>10, <1>11, <1>12 DEF InvBut

LEMMA PendSVInv ==
  ASSUME NEW away \in SUBSET Task, InvBut(away),
         PendSV
  PROVE  InvBut(away)'
<1>1. CASE PendSVEnter
  <2> USE <1>1 DEF PendSVEnter, tcbs
  <2>1. TypeOK'
    BY DEF InvBut, TypeOK
  <2>2. QueuesBut(away)' /\ IdleInv' /\ StartInv' /\ CurrentBut(away)'
    BY DEF InvBut, QueuesBut, IdleInv, StartInv, CurrentBut
  <2>3. CallInv'
    BY DEF InvBut, CallInv, Calling
  <2> QED
    BY <2>1, <2>2, <2>3 DEF InvBut
<1> QED
  BY <1>1, ScheduleInv DEF PendSV

LEMMA StutterInv ==
  ASSUME NEW away \in SUBSET Task, InvBut(away),
         UNCHANGED vars
  PROVE  InvBut(away)'
BY SMTT(30) DEF vars, InvBut, TypeOK, QueuesBut, IdleInv, StartInv, CurrentBut,
       CallInv, Calling

(* The invariant is kept by every step of the scheduler.                    *)
THEOREM Consecution == SchedInv /\ [Next]_vars => SchedInv'
<1> SUFFICES ASSUME InvBut({}), [Next]_vars PROVE InvBut({})'
  BY NoneAway
<1> DEFINE none == {}
<1>0. none \in SUBSET Task /\ InvBut(none)
  OBVIOUS
<1> SUFFICES InvBut(none)'
  OBVIOUS
<1> HIDE DEF none
<1>a. none = {}
  BY DEF none
<1>1. ASSUME NEW t \in Task, NEW p \in Prios, BootCreate(t, p) PROVE InvBut(none)'
  BY <1>0, <1>1, BootCreateInv
<1>2. CASE vk_start
  BY <1>0, <1>2, StartInvStep
<1>3. ASSUME NEW t \in Task, Relinquish(t) PROVE InvBut(none)'
  BY <1>0, <1>a, <1>3, YieldInv, SleepInv, ExitInv, TriggerInv DEF Relinquish
<1>4. ASSUME NEW c \in Creators, vk_task_create(c) PROVE InvBut(none)'
  BY <1>0, <1>a, <1>4, CreateCheckInv, CreateLoadInv, CreateStoreInv, CreateInsertInv
     DEF vk_task_create, CreateFinish
<1>5. CASE idle_task
  BY <1>0, <1>5, StutterInv DEF idle_task
<1>6. CASE SysTick_Handler
  BY <1>0, <1>6, SysTickInv
<1>7. CASE PendSV
  BY <1>0, <1>7, PendSVInv
<1>8. CASE UNCHANGED vars
  BY <1>0, <1>8, StutterInv
<1> QED
  BY <1>1, <1>2, <1>3, <1>4, <1>5, <1>6, <1>7, <1>8 DEF Next

(* Every reachable state satisfies the inductive invariant, so its types    *)
(* are right, and ready, sleeping and running tasks are where the scheduler *)
(* looks for them.                                                          *)
THEOREM Invariant == Spec => []SchedInv
<1> QED
  BY InitInv, Consecution, PTL DEF Spec

THEOREM Consistency == Spec => []QueuesConsistent
<1>1. SchedInv => QueuesConsistent
  BY DEF SchedInv
<1> QED
  BY <1>1, Invariant, PTL

(* vk_schedule never finds the ready queue empty.                           *)
THEOREM AlwaysATask == Spec => []SomethingRuns
<1>1. SchedInv => SomethingRuns
  BY TCBFacts DEF SchedInv, StartInv, SomethingRuns
<1> QED
  BY <1>1, Invariant, PTL

-------------------------------------------------------------------------------
\* The scheduler is a Dispatcher.

PolicyVars ==
  <<Queued(ready_queue), Ahead(ready_queue, priority), priority, Running, Switching>>

PolicyStep == [Policy!Next]_PolicyVars

LEMMA PolicyFacts ==
  ASSUME NEW away, InvBut(away)
  PROVE  /\ ready_queue \in Seq(TCB) /\ NoDuplicates(ready_queue)
         /\ SortedBy(ready_queue, priority)
         /\ Queued(ready_queue) = {t \in TCB : state[t] = "READY"}
         /\ Running = {t \in TCB : state[t] = "RUNNING"}
         /\ priority \in [TCB -> Priority] /\ priority \in [TCB -> Int]
         /\ state \in [TCB -> State]
BY TypeFacts DEF InvBut, QueuesBut, Holds, Running, TypeOK, Key

LEMMA PolicyKept ==
  ASSUME UNCHANGED <<ready_queue, priority, Running, Switching>>
  PROVE  PolicyStep
BY DEF PolicyStep, PolicyVars

(* A task that is neither ready nor running is queued.                      *)
LEMMA PolicyArrive ==
  ASSUME NEW away, InvBut(away), NEW t \in TCB, state[t] \in {"DEAD", "BLOCKED"},
         priority' \in [TCB -> Priority], \A s \in TCB \ {t} : priority'[s] = priority[s],
         ready_queue' = list_insert(ready_queue, priority', t),
         UNCHANGED <<Running, Switching>>
  PROVE  PolicyStep
<1> DEFINE q == ready_queue
           key == priority'
<1>1. /\ q \in Seq(TCB) /\ NoDuplicates(q) /\ SortedBy(q, priority)
      /\ t \notin Queued(q) /\ Queued(q) \subseteq TCB \ {t} /\ t \notin Running
  BY PolicyFacts
<1>2. \A u \in Queued(q) : key[u] = priority[u]
  BY <1>1
<1>3. key \in [TCB -> Int]
  BY KeyTypes DEF Key
<1> HIDE DEF q, key
<1>4. SortedBy(q, key) /\ Ahead(q, key) = Ahead(q, priority)
  BY <1>1, <1>2, SortedByAgreement, AheadAgreement
<1>5. /\ Queued(list_insert(q, key, t)) = Queued(q) \cup {t}
      /\ Ahead(list_insert(q, key, t), key)
           = Ahead(q, key) \cup ({s \in Queued(q) : key[s] = key[t]} \X {t})
  <2>1. Queued(list_insert(q, key, t)) = Queued(q) \cup {t}
    <3>1. q \in Seq(TCB)
      BY <1>1
    <3> QED
      BY <1>3, <3>1, ListInsertProperties
  <2>2. Ahead(list_insert(q, key, t), key)
          = Ahead(q, key) \cup ({s \in Queued(q) : key[s] = key[t]} \X {t})
    BY <1>1, <1>3, <1>4, AheadInsert
  <2> QED
    BY <2>1, <2>2
<1>6. /\ Queued(ready_queue') = Queued(q) \cup {t}
      /\ Ahead(ready_queue', key)
           = Ahead(q, priority) \cup ({s \in Queued(q) : key[s] = key[t]} \X {t})
  BY <1>4, <1>5 DEF q, key
<1>7. Policy!Arrive(t)
  BY <1>1, <1>6 DEF Policy!Arrive, Policy!Rank, Policy!Away, Policy!Behind, q, key
<1> QED
  BY <1>7 DEF PolicyStep, Policy!Next

(* One that is neither gets its priority.                                   *)
LEMMA PolicyPrepare ==
  ASSUME NEW away, InvBut(away), NEW t \in TCB, state[t] = "DEAD",
         priority' \in [TCB -> Priority], \A s \in TCB \ {t} : priority'[s] = priority[s],
         UNCHANGED <<ready_queue, Running, Switching>>
  PROVE  PolicyStep
<1>1. Queued(ready_queue) \subseteq TCB \ {t} /\ t \notin Running
  BY PolicyFacts
<1>2. Ahead(ready_queue, priority') = Ahead(ready_queue, priority)
  BY <1>1, AheadAgreement
<1>3. Policy!Prepare(t)
  BY <1>1, <1>2 DEF Policy!Prepare, Policy!Rank, Policy!Away
<1> QED
  BY <1>3 DEF PolicyStep, Policy!Next

(* The one that runs gives up.                                              *)
LEMMA PolicyLeave ==
  ASSUME NEW away, InvBut(away), NEW t \in TCB, Executing(t), state[t] = "RUNNING",
         NEW x \in State \ {"RUNNING"}, state' = [state EXCEPT ![t] = x],
         UNCHANGED <<ready_queue, priority, vk_current, phase, pendsv>>
  PROVE  PolicyStep
<1>1. vk_current = t /\ ~Switching /\ Switching' = Switching
  BY DEF Executing, Switching
<1>2. Running = {t} /\ Running' = {}
  BY <1>1, PolicyFacts DEF Running
<1>3. Policy!Leave
  BY <1>1, <1>2 DEF Policy!Leave
<1> QED
  BY <1>3 DEF PolicyStep, Policy!Next

(* The head of the queue runs, into which the one that ran has been put.    *)
LEMMA PolicyDispatch ==
  ASSUME NEW queue \in Seq(TCB), queue # <<>>, NoDuplicates(queue),
         SortedBy(queue, priority), priority \in [TCB -> Int],
         Queued(queue) = Queued(ready_queue) \cup Running,
         Ahead(queue, priority) = Ahead(ready_queue, priority)
           \cup UNION {Policy!Behind(t, Queued(ready_queue), priority) : t \in Running},
         priority' = priority, ready_queue' = Tail(queue), Running' = {Head(queue)},
         Switching, ~Switching'
  PROVE  PolicyStep
<1> DEFINE h == Head(queue)
<1>1. /\ h \in Queued(queue)
      /\ Queued(ready_queue') = Queued(queue) \ {h}
      /\ \A u \in Queued(queue) : priority[h] <= priority[u]
  BY HeadTailOfList
<1>2. /\ \A s : <<s, h>> \notin Ahead(queue, priority)
      /\ Ahead(ready_queue', priority) = Ahead(queue, priority) \ ({h} \X Queued(queue))
  BY AheadTail
<1> HIDE DEF h
<1>3. Running' = {h} /\ Switching' = FALSE
  BY DEF h, Switching
<1>4. Policy!Dispatch
  BY <1>1, <1>2, <1>3 DEF Policy!Dispatch
<1> QED
  BY <1>4 DEF PolicyStep, Policy!Next

-------------------------------------------------------------------------------
\* The steps of the scheduler, while some tasks are away.

LEMMA RunningSame ==
  ASSUME NEW t \in TCB, state \in [TCB -> State], NEW x \in State \ {"RUNNING"},
         state' = [state EXCEPT ![t] = x], state[t] # "RUNNING", vk_current' = vk_current
  PROVE  Running' = Running
BY DEF Running

LEMMA PolicyOfCreation ==
  ASSUME NEW away, InvBut(away),
         \/ \E t \in Task, p \in Prios : BootCreate(t, p)
         \/ \E c \in Creators : vk_task_create(c)
  PROVE  PolicyStep
<1>0. state \in [TCB -> State] /\ priority \in [TCB -> Priority] /\ Task \subseteq TCB
      /\ "READY" \in State \ {"RUNNING"}
  BY PolicyFacts, TCBFacts DEF State
<1>1. ASSUME NEW t \in Task, NEW p \in Prios, BootCreate(t, p) PROVE PolicyStep
  <2>1. /\ t \in TCB /\ state[t] = "DEAD" /\ p \in Priority
        /\ priority' = [priority EXCEPT ![t] = p]
        /\ ready_queue' = list_insert(ready_queue, priority', t)
        /\ state' = [state EXCEPT ![t] = "READY"]
        /\ UNCHANGED <<vk_current, phase, pendsv>>
    BY <1>1, TCBFacts DEF BootCreate, populate, enlist, cpu
  <2>2. UNCHANGED <<Running, Switching>>
    BY <1>0, <2>1, RunningSame DEF Switching
  <2>3. priority' \in [TCB -> Priority] /\ \A s \in TCB \ {t} : priority'[s] = priority[s]
    BY <1>0, <2>1
  <2> QED
    BY <2>1, <2>2, <2>3, PolicyArrive
<1>2. ASSUME NEW c \in Creators,
             (\E t \in Task, p \in Prios : CreateCheck(c, t, p)) \/ CreateLoad(c)
      PROVE  PolicyStep
  BY <1>2, PolicyKept DEF CreateCheck, CreateLoad, tcbs, cpu, Running, Switching
<1>3. ASSUME NEW c \in Creators, CreateStore(c) PROVE PolicyStep
  <2> DEFINE t == args[c].tcb
  <2>1. /\ t \in TCB /\ state[t] = "DEAD" /\ args[c].priority \in Priority
        /\ priority' = [priority EXCEPT ![t] = args[c].priority]
        /\ UNCHANGED <<ready_queue, state, vk_current, phase, pendsv>>
    <3>1. t \in Task /\ state[t] = "DEAD"
      BY <1>3 DEF CreateStore, InvBut, CallInv, Calling
    <3>2. args[c].priority \in Priority
      BY DEF InvBut, TypeOK
    <3> QED
      BY <1>0, <1>3, <3>1, <3>2 DEF CreateStore, populate, cpu
  <2> HIDE DEF t
  <2>2. UNCHANGED <<Running, Switching>>
    BY <2>1 DEF Running, Switching
  <2>3. priority' \in [TCB -> Priority] /\ \A s \in TCB \ {t} : priority'[s] = priority[s]
    BY <1>0, <2>1
  <2> QED
    BY <2>1, <2>2, <2>3, PolicyPrepare
<1>4. ASSUME NEW c \in Creators, CreateInsert(c) PROVE PolicyStep
  <2> DEFINE t == args[c].tcb
  <2>1. /\ t \in TCB /\ state[t] = "DEAD" /\ priority' = priority
        /\ ready_queue' = list_insert(ready_queue, priority, t)
        /\ state' = [state EXCEPT ![t] = "READY"]
        /\ UNCHANGED <<vk_current, phase, pendsv>>
    <3>1. t \in Task /\ state[t] = "DEAD"
      BY <1>4 DEF CreateInsert, InvBut, CallInv, Calling
    <3> QED
      BY <1>0, <1>4, <3>1 DEF CreateInsert, ready_insert, cpu
  <2> HIDE DEF t
  <2>2. UNCHANGED <<Running, Switching>>
    BY <1>0, <2>1, RunningSame DEF Switching
  <2>3. /\ priority' \in [TCB -> Priority]
        /\ \A s \in TCB \ {t} : priority'[s] = priority[s]
        /\ ready_queue' = list_insert(ready_queue, priority', t)
    BY <1>0, <2>1
  <2> QED
    BY <2>1, <2>2, <2>3, PolicyArrive
<1> QED
  BY <1>1, <1>2, <1>3, <1>4 DEF vk_task_create, CreateFinish

LEMMA PolicyOfStart ==
  ASSUME NEW away, InvBut(away), vk_start
  PROVE  PolicyStep
<1>1. CASE StartTimer \/ StartPick
  <2>1. UNCHANGED <<ready_queue, priority, state, pendsv>> /\ phase # "run" /\ phase' # "run"
    BY <1>1 DEF StartTimer, StartPick, tcbs, cpu
  <2>2. \A t \in TCB : state[t] # "RUNNING"
    BY <2>1 DEF InvBut, StartInv
  <2>3. UNCHANGED <<Running, Switching>>
    BY <2>1, <2>2 DEF Running, Switching
  <2> QED
    BY <2>1, <2>3, PolicyKept
<1>2. CASE StartPop
  <2>1. /\ ready_queue # <<>> /\ vk_current = Head(ready_queue) /\ pendsv = {}
        /\ ready_queue' = Tail(ready_queue) /\ priority' = priority
        /\ vk_current' = vk_current /\ state' = [state EXCEPT ![vk_current] = "RUNNING"]
        /\ phase = "pick" /\ phase' = "run" /\ pendsv' = pendsv
        /\ \A t \in TCB : state[t] # "RUNNING"
    BY <1>2 DEF StartPop, InvBut, StartInv, cpu
  <2>2. Running = {} /\ Running' = {Head(ready_queue)} /\ Switching /\ ~Switching'
    <3>1. vk_current \in TCB
      BY <2>1, PolicyFacts, HeadTailOfList
    <3> QED
      BY <2>1, <3>1, PolicyFacts DEF Running, Switching
  <2> QED
    BY <2>1, <2>2, PolicyFacts, PolicyDispatch
<1> QED
  BY <1>1, <1>2 DEF vk_start

(* A task that calls sleep or exit runs.                                    *)
LEMMA PolicyOfTask ==
  ASSUME NEW away, InvBut(away), NEW t \in Task \ away, Relinquish(t)
  PROVE  PolicyStep
<1>0. t \in TCB
  BY TCBFacts
<1>1. CASE vk_task_yield(t) \/ Trigger(t)
  <2>1. /\ UNCHANGED <<ready_queue, priority, state, vk_current, phase>>
        /\ "active" \in pendsv <=> "active" \in pendsv'
    BY <1>1 DEF vk_task_yield, Trigger, trigger_pendsv, tcbs
  <2> QED
    BY <2>1, PolicyKept DEF Running, Switching
<1>2. CASE (\E n \in SleepTicks : vk_task_sleep(t, n)) \/ vk_task_exit(t)
  <2>1. Executing(t) /\ pc[t] = "run"
    BY <1>2 DEF vk_task_sleep, vk_task_exit
  <2>2. state[t] = "RUNNING"
    BY <2>1 DEF InvBut, CurrentBut, Executing
  <2>3. t \notin Queued(ready_queue)
    BY <2>2, PolicyFacts
  <2>4. PICK x \in {"BLOCKED", "DEAD"} : state' = [state EXCEPT ![t] = x]
    BY <1>2 DEF vk_task_sleep, sleep_insert, vk_task_exit
  <2>5. ready_queue' = ready_queue
    <3>1. ready_queue' \in {ready_queue, list_remove(ready_queue, t)}
      BY <1>2 DEF vk_task_sleep, vk_task_exit
    <3> QED
      BY <2>3, <3>1, PolicyFacts, ListRemoveAbsent
  <2>6. UNCHANGED <<priority, vk_current, phase, pendsv>>
    BY <1>2 DEF vk_task_sleep, vk_task_exit, cpu
  <2>7. x \in State \ {"RUNNING"}
    BY DEF State
  <2> QED
    BY <1>0, <2>1, <2>2, <2>4, <2>5, <2>6, <2>7, PolicyLeave
<1> QED
  BY <1>1, <1>2 DEF Relinquish

LEMMA PolicyOfSysTick ==
  ASSUME NEW away, InvBut(away), SysTick_Handler
  PROVE  PolicyStep
<1>1. CASE SysTickEnter \/ SysTickReturn
  <2>1. /\ UNCHANGED <<ready_queue, priority, state, vk_current, phase>>
        /\ "active" \in pendsv <=> "active" \in pendsv'
    BY <1>1 DEF SysTickEnter, SysTickReturn, trigger_pendsv, tcbs
  <2> QED
    BY <2>1, PolicyKept DEF Running, Switching
<1>2. CASE SysTickWake
  <2> DEFINE t == Head(sleep_queue)
  <2>1. /\ priority' = priority
        /\ ready_queue' = list_insert(ready_queue, priority, t)
        /\ state' = [state EXCEPT ![t] = "READY"]
        /\ UNCHANGED <<vk_current, phase, pendsv>>
    BY <1>2 DEF SysTickWake, ready_insert, cpu
  <2>2. t \in TCB /\ state[t] = "BLOCKED"
    <3>1. sleep_queue # <<>> /\ sleep_queue \in Seq(TCB)
      BY <1>2, TypeFacts DEF SysTickWake, Expired, InvBut
    <3>2. t \in TCB /\ t \in Queued(sleep_queue)
      BY <3>1, HeadTailOfList
    <3> HIDE DEF t
    <3>3. Seen(state, away)[t] = "BLOCKED"
      BY <3>2 DEF InvBut, QueuesBut, Holds
    <3> QED
      BY <3>2, <3>3, SeenFacts, PolicyFacts
  <2> HIDE DEF t
  <2>3. UNCHANGED <<Running, Switching>>
    <3>1. state \in [TCB -> State] /\ "READY" \in State \ {"RUNNING"}
      BY PolicyFacts DEF State
    <3> QED
      BY <2>1, <2>2, <3>1, RunningSame DEF Switching
  <2>4. /\ priority' \in [TCB -> Priority]
        /\ \A s \in TCB \ {t} : priority'[s] = priority[s]
        /\ ready_queue' = list_insert(ready_queue, priority', t)
    BY <2>1, PolicyFacts
  <2> QED
    BY <2>2, <2>3, <2>4, PolicyArrive
<1> QED
  BY <1>1, <1>2 DEF SysTick_Handler

(* The queue from which vk_schedule takes the head: the ready ones, and the  *)
(* one that ran behind its equals.                                          *)
LEMMA PolicyOfPendSV ==
  ASSUME NEW away \in SUBSET Task, InvBut(away), PendSV
  PROVE  PolicyStep
<1>1. CASE PendSVEnter
  <2>1. /\ UNCHANGED <<ready_queue, priority, state, vk_current, phase>>
        /\ pendsv = {"pending"} /\ pendsv' = {"active"}
    BY <1>1 DEF PendSVEnter, tcbs
  <2>2. phase = "run"
    BY <2>1 DEF InvBut, StartInv
  <2>3. Running' = Running /\ Switching = FALSE /\ Switching' = TRUE
    BY <2>1, <2>2 DEF Running, Switching
  <2>4. Policy!Begin
    BY <2>1, <2>3 DEF Policy!Begin
  <2> QED
    BY <2>4 DEF PolicyStep, Policy!Next
<1>2. CASE PendSV_Handler
  <2> DEFINE c == vk_current
             alive == c # NULL /\ state[c] = "RUNNING"
             queue == IF alive THEN list_insert(ready_queue, priority, c) ELSE ready_queue
  <2>1. c \in TCB /\ c # NULL /\ priority' = priority /\ phase = "run" /\ phase' = "run"
        /\ "active" \in pendsv /\ pendsv' = pendsv \ {"active"}
    BY <1>2, TCBFacts DEF PendSV_Handler, InvBut, StartInv
  <2>2. /\ ready_queue \in Seq(TCB) /\ NoDuplicates(ready_queue)
        /\ SortedBy(ready_queue, priority) /\ priority \in [TCB -> Int]
        /\ Queued(ready_queue) = {t \in TCB : state[t] = "READY"}
        /\ Running = {t \in TCB : state[t] = "RUNNING"}
        /\ state \in [TCB -> State]
    BY PolicyFacts
  <2>3. Running = IF alive THEN {c} ELSE {}
    BY <2>1 DEF Running
  <2>4. /\ queue \in Seq(TCB) /\ NoDuplicates(queue) /\ SortedBy(queue, priority)
        /\ Queued(queue) = Queued(ready_queue) \cup Running
        /\ Ahead(queue, priority) = Ahead(ready_queue, priority)
             \cup UNION {Policy!Behind(t, Queued(ready_queue), priority) : t \in Running}
    <3>1. CASE alive
      <4>1. queue = list_insert(ready_queue, priority, c) /\ Running = {c}
        BY <2>3, <3>1
      <4>2. c \notin Queued(ready_queue)
        BY <2>2, <3>1
      <4> HIDE DEF queue, alive, c
      <4>3. /\ queue \in Seq(TCB) /\ NoDuplicates(queue) /\ SortedBy(queue, priority)
            /\ Queued(queue) = Queued(ready_queue) \cup {c}
        <5>1. ready_queue \in Seq(TCB) /\ priority \in [TCB -> Int] /\ c \in TCB
          BY <2>1, <2>2
        <5> DEFINE r == list_insert(ready_queue, priority, c)
        <5>2. /\ r \in Seq(TCB) /\ Queued(r) = Queued(ready_queue) \cup {c}
              /\ NoDuplicates(ready_queue) /\ c \notin Queued(ready_queue) => NoDuplicates(r)
              /\ SortedBy(ready_queue, priority) => SortedBy(r, priority)
          BY <5>1, ListInsertProperties
        <5> HIDE DEF r
        <5>3. queue = r
          BY <4>1 DEF r
        <5> QED
          BY <2>2, <4>2, <5>2, <5>3
      <4>4. Ahead(queue, priority) = Ahead(ready_queue, priority)
              \cup ({s \in Queued(ready_queue) : priority[s] = priority[c]} \X {c})
        BY <2>1, <2>2, <4>1, <4>2, AheadInsert
      <4>5. UNION {Policy!Behind(t, Queued(ready_queue), priority) : t \in Running}
              = {s \in Queued(ready_queue) : priority[s] = priority[c]} \X {c}
        BY <4>1 DEF Policy!Behind
      <4> QED
        BY <4>1, <4>3, <4>4, <4>5
    <3>2. CASE ~alive
      <4>1. queue = ready_queue /\ Running = {}
        BY <2>3, <3>2
      <4> QED
        BY <2>2, <4>1
    <3> QED
      BY <3>1, <3>2
  <2>5. queue # <<>>
    <3>1. state[Idle] \in {"READY", "RUNNING"}
      BY DEF InvBut, IdleInv
    <3>2. Idle \in Queued(ready_queue) \cup Running
      BY <2>2, <3>1, TCBFacts
    <3> HIDE DEF queue
    <3> QED
      BY <2>4, <3>2, SMTT(30) DEF Queued
  <2>6. ready_queue' = Tail(queue) /\ vk_current' = Head(queue)
    BY <1>2, <2>5 DEF PendSV_Handler, vk_schedule
  <2> HIDE DEF queue, alive, c
  <2>7. Running' = {Head(queue)}
    <3>1. state'[vk_current'] = "RUNNING"
      BY <1>2, ScheduleInv
    <3>2. Head(queue) \in TCB
      BY <2>4, <2>5, HeadTailOfList
    <3> QED
      BY <2>6, <3>1, <3>2 DEF Running
  <2>8. Switching /\ ~Switching'
    BY <2>1 DEF Switching
  <2> QED
    BY <2>1, <2>2, <2>4, <2>5, <2>6, <2>7, <2>8, PolicyDispatch
<1> QED
  BY <1>1, <1>2 DEF PendSV

LEMMA PolicyInit == Init => Policy!Init
<1> SUFFICES ASSUME Init PROVE Policy!Init
  OBVIOUS
<1>1. /\ ready_queue = <<Idle>> /\ vk_current = NULL /\ phase = "boot"
      /\ priority = [t \in TCB |-> IF t = Idle THEN IdlePrio ELSE 0]
  BY DEF Init
<1>2. Queued(ready_queue) = {Idle}
  BY <1>1 DEF Queued
<1>3. Ahead(ready_queue, priority) = {}
  <2>1. ~Before(ready_queue, Idle, Idle)
    BY <1>1 DEF Before
  <2> QED
    BY <1>2, <2>1 DEF Ahead
<1>4. Running = {} /\ Switching = TRUE
  BY <1>1, TCBFacts DEF Running, Switching
<1>5. priority \in [TCB -> Priority]
  BY <1>1 DEF Priority, IdlePrio
<1> QED
  BY <1>2, <1>3, <1>4, <1>5, TCBFacts DEF Policy!Init

LEMMA PolicyOfNext == SchedInv /\ [Next]_vars => PolicyStep
<1> SUFFICES ASSUME SchedInv, [Next]_vars PROVE PolicyStep
  OBVIOUS
<1> DEFINE none == {}
<1>0. none \in SUBSET Task /\ InvBut(none) /\ \A t \in Task : t \in Task \ none
  BY NoneAway
<1> HIDE DEF none
<1>1. CASE idle_task \/ UNCHANGED vars
  <2>1. UNCHANGED vars
    BY <1>1 DEF idle_task
  <2> QED
    BY <2>1, PolicyKept DEF vars, Running, Switching
<1> QED
  BY <1>0, <1>1, PolicyOfCreation, PolicyOfStart, PolicyOfTask, PolicyOfSysTick,
     PolicyOfPendSV DEF Next

(* The scheduler implements Dispatcher: whoever gets the processor is of the *)
(* highest priority and has waited longest among its equals, and one that    *)
(* yields or is preempted goes behind them.                                  *)
THEOREM Implements == Spec => ImplementsDispatcher
<1>1. Init => Policy!Init
  BY PolicyInit
<1>2. SchedInv /\ [Next]_vars => [Policy!Next]_PolicyVars
  BY PolicyOfNext DEF PolicyStep
<1> QED
  BY <1>1, <1>2, Invariant, PTL DEF Spec, ImplementsDispatcher, Policy!Spec, PolicyVars

===============================================================================
