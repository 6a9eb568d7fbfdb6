------------------------------ MODULE MCMemory -------------------------------
(***************************************************************************)
(* The two allocators of kernel/vulcan_mem.c and the registers of a port,  *)
(* for TLC.  They share neither state nor code, so that their product      *)
(* holds nothing that they do not hold apart: a behaviour uses one.        *)
(***************************************************************************)
EXTENDS VulcanPool, VulcanArena, VulcanGpio

VARIABLE part

memory == <<part, vars, arenaVars, gpioVars>>

MemoryInit ==
  /\ part \in {"pool", "arena", "port"}
  /\ Init
  /\ ArenaInit
  /\ GpioInit
  /\ part # "port" => \A p \in Pin, l \in Level : level[p] <= l

MemoryNext ==
  /\ UNCHANGED part
  /\ \/ part = "pool"  /\ Next      /\ UNCHANGED <<arenaVars, gpioVars>>
     \/ part = "arena" /\ ArenaNext /\ UNCHANGED <<vars, gpioVars>>
     \/ part = "port"  /\ GpioNext  /\ UNCHANGED <<vars, arenaVars>>

MemorySpec == MemoryInit /\ [][MemoryNext]_memory

===============================================================================
