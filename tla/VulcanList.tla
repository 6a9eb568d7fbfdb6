------------------------------ MODULE VulcanList ------------------------------
(***************************************************************************)
(* The two list operations of kernel/vulcan_sched.c that its run queue and *)
(* its sleep queue share.  A queue is a singly-linked list through the TCB *)
(* field `next'; here it is the sequence of the TCBs met from its head.    *)
(***************************************************************************)
EXTENDS SequencesExt, Integers

(* A mutation: `<' for `<=' in the walk puts t before its equals. *)
list_insert_lifo(q, key, t) ==
  LET i == SelectInSeq(q, LAMBDA u : key[t] <= key[u])
  IN  InsertAt(q, IF i = 0 THEN Len(q) + 1 ELSE i, t)

(***************************************************************************)
(* _ready_insert and _sleep_insert walk past every element whose key       *)
(* (priority or wake_tick) is at most that of t, and link t there: sorted  *)
(* ascending, first in first out among equal keys.                         *)
(***************************************************************************)
list_insert(q, key, t) ==
  LET i == SelectInSeq(q, LAMBDA u : key[t] < key[u])
  IN  InsertAt(q, IF i = 0 THEN Len(q) + 1 ELSE i, t)

(***************************************************************************)
(* _ready_remove unlinks the first occurrence of t, and leaves the list    *)
(* alone when t is not on it.                                              *)
(***************************************************************************)
list_remove(q, t) == RemoveFirst(q, t)

-------------------------------------------------------------------------------
\* What the properties and the theorems say of a queue.

Queued(q) == {q[i] : i \in DOMAIN q}

NoDuplicates(q) == IsInjective(q)

SortedBy(q, key) == \A i, j \in DOMAIN q : i < j => key[q[i]] <= key[q[j]]

Before(q, a, b) == \E i, j \in DOMAIN q : i < j /\ q[i] = a /\ q[j] = b

(* The order among equals. *)
Ahead(q, key) ==
  {pair \in Queued(q) \X Queued(q) :
     key[pair[1]] = key[pair[2]] /\ Before(q, pair[1], pair[2])}

===============================================================================
