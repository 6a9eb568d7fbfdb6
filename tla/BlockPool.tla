------------------------------ MODULE BlockPool ------------------------------
(***************************************************************************)
(* What a pool of fixed-size blocks promises its clients: a block is lent  *)
(* to one of them at a time, and the count of available blocks is right.   *)
(***************************************************************************)
EXTENDS Integers, FiniteSets

CONSTANT Block   \* the blocks of the pool

VARIABLES
  lent,   \* the blocks that clients have
  avail   \* the number of blocks that are available

Init ==
  /\ lent = {}
  /\ avail = Cardinality(Block)

Lend(b) ==
  /\ b \in Block \ lent
  /\ lent' = lent \cup {b}
  /\ avail' = avail - 1

TakeBack(b) ==
  /\ b \in lent
  /\ lent' = lent \ {b}
  /\ avail' = avail + 1

Next == \E b \in Block : Lend(b) \/ TakeBack(b)

Spec == Init /\ [][Next]_<<lent, avail>>

===============================================================================
