------------------------------- MODULE MCMutex -------------------------------
(* Small instances of VulcanMutex. *)
EXTENDS VulcanMutex

Symmetry == Permutations(Task) \cup Permutations(Mutex)

===============================================================================
