------------------------------- MODULE MCSched -------------------------------
(* Small instances of VulcanSched. *)
EXTENDS VulcanSched

Symmetry == Permutations(Task \ Creators) \cup Permutations(Creators)

===============================================================================
