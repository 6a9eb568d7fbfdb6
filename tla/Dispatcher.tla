------------------------------ MODULE Dispatcher ------------------------------
(***************************************************************************)
(* What a preemptive scheduler with fixed priorities promises: the thread  *)
(* that gets the processor is one of the highest priority, and of these    *)
(* the one that has waited longest; a thread that is preempted, or yields, *)
(* waits behind its equals.  A smaller number is a higher priority.        *)
(***************************************************************************)
EXTENDS Integers

CONSTANT Thread, Priority

VARIABLES
  ready,     \* the threads that wait for the processor
  ahead,     \* the pairs of them that have one priority, in order of arrival
  prio,      \* the priority of each thread
  running,   \* the thread that has the processor, if there is one
  switching  \* a switch has begun: it ends with a choice

Behind(t, waiting, key) == {s \in waiting : key[s] = key[t]} \X {t}

Init ==
  /\ \E t \in Thread : ready = {t}
  /\ ahead = {}
  /\ prio \in [Thread -> Priority]
  /\ running = {}
  /\ switching = TRUE

Away(t) == t \notin ready \cup running

(* A thread that takes no part is given a priority. *)
Rank(t) ==
  /\ Away(t)
  /\ prio' \in [Thread -> Priority]
  /\ \A s \in Thread \ {t} : prio'[s] = prio[s]

Prepare(t) ==
  /\ Rank(t)
  /\ UNCHANGED <<ready, ahead, running, switching>>

(* It comes, or comes back: the priority may be a new one. *)
Arrive(t) ==
  /\ Rank(t)
  /\ ready' = ready \cup {t}
  /\ ahead' = ahead \cup Behind(t, ready, prio')
  /\ UNCHANGED <<running, switching>>

Leave ==
  /\ ~switching
  /\ running # {}
  /\ running' = {}
  /\ UNCHANGED <<ready, ahead, prio, switching>>

Begin ==
  /\ ~switching
  /\ switching' = TRUE
  /\ UNCHANGED <<ready, ahead, prio, running>>

Dispatch ==
  LET waiting == ready \cup running
      order   == ahead \cup UNION {Behind(t, ready, prio) : t \in running}
  IN  /\ switching
      /\ switching' = FALSE
      /\ UNCHANGED prio
      /\ \E t \in waiting :
           /\ \A s \in waiting : prio[t] <= prio[s] /\ <<s, t>> \notin order
           /\ running' = {t}
           /\ ready' = waiting \ {t}
           /\ ahead' = order \ ({t} \X waiting)

Next == Leave \/ Begin \/ Dispatch \/ \E t \in Thread : Prepare(t) \/ Arrive(t)

Spec == Init /\ [][Next]_<<ready, ahead, prio, running, switching>>

===============================================================================
