------------------------------- MODULE MCSleep -------------------------------
(* Small instances of VulcanSleep and, without its histories, VulcanSched.  *)
EXTENDS VulcanSleep

Symmetry == Permutations(Task \ Creators)

===============================================================================
