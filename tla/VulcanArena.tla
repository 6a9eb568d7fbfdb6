----------------------------- MODULE VulcanArena -----------------------------
(***************************************************************************)
(* The tensor arena of kernel/vulcan_mem.c: a bump pointer in a buffer,    *)
(* used by one task.  Addresses and sizes are unsigned words; every        *)
(* operation on them is taken modulo AddrMod.                              *)
(***************************************************************************)
EXTENDS Integers, FiniteSets

CONSTANTS
  AddrMod,    \* 2^32: a power of two, whose divisors are powers of two
  Base,       \* the address of the buffer
  Capacity,   \* its size
  Sizes,      \* the sizes the application asks for
  Aligns      \* the alignments it asks for: powers of two, as the code says

ASSUME ArenaAssumption ==
  /\ AddrMod \in Nat \ {0}
  /\ Base \in Nat /\ Capacity \in Nat
  /\ Base + Capacity < AddrMod
  /\ Sizes \subseteq 0 .. AddrMod - 1
  /\ Aligns \subseteq {a \in 1 .. AddrMod - 1 : AddrMod % a = 0}

VARIABLES
  ptr, peak,
  tensors,  \* history: what was allocated since the last reset
  ends      \* history: how far into the buffer every tensor ever reached

arenaVars == <<ptr, peak, tensors, ends>>

Word(n) == n % AddrMod

(* vk_arena_init. *)
ArenaInit ==
  /\ ptr = Base
  /\ peak = 0
  /\ tensors = {}
  /\ ends = {}

(* ~(align - 1) masks the remainder off, align being a power of two. *)
Aligned(align) ==
  LET raised == Word(ptr + align - 1) IN raised - (raised % align)

Padding(align) == Word(Aligned(align) - ptr)

vk_arena_used == Word(ptr - Base)

(* Two mutations of the test: the padding forgotten, and one byte too few. *)
Fits_unpadded(bytes, align) == Word(bytes) <= Word(Capacity - vk_arena_used)

Fits_strict(bytes, align) ==
  Word(Padding(align) + bytes) < Word(Capacity - vk_arena_used)

Fits(bytes, align) ==
  Word(Padding(align) + bytes) <= Word(Capacity - vk_arena_used)

vk_arena_alloc(bytes, align) ==
  /\ Fits(bytes, align)
  /\ ptr' = Word(Aligned(align) + bytes)
  /\ peak' = IF vk_arena_used' > peak THEN vk_arena_used' ELSE peak
  /\ tensors' = tensors \cup
       {[start |-> Aligned(align), bytes |-> bytes, align |-> align]}
  /\ ends' = ends \cup {Aligned(align) + bytes - Base}

(* vk_arena_alloc returns NULL. *)
Refused(bytes, align) ==
  /\ ~Fits(bytes, align)
  /\ UNCHANGED arenaVars

(* A mutation: the peak starts again with the arena. *)
vk_arena_reset_peak ==
  /\ ptr' = Base
  /\ peak' = 0
  /\ tensors' = {}
  /\ UNCHANGED ends

vk_arena_reset ==
  /\ ptr' = Base
  /\ tensors' = {}
  /\ UNCHANGED <<peak, ends>>

ArenaNext ==
  \/ \E bytes \in Sizes, align \in Aligns :
       vk_arena_alloc(bytes, align) \/ Refused(bytes, align)
  \/ vk_arena_reset

ArenaSpec == ArenaInit /\ [][ArenaNext]_arenaVars

-------------------------------------------------------------------------------
Bytes(t) == t.start .. t.start + t.bytes - 1

(* Live tensors are aligned, inside the buffer and the used part of it, and *)
(* no two share a byte.                                                     *)
TensorsApart ==
  /\ \A t \in tensors : /\ t.start % t.align = 0
                        /\ Base <= t.start
                        /\ t.start + t.bytes <= ptr
  /\ ptr <= Base + Capacity
  /\ \A t, u \in tensors : t # u => Bytes(t) \cap Bytes(u) = {}

(* "out of arena space" is said exactly when no aligned place that is free  *)
(* has room for the request.                                                *)
RefusedOnlyWhenFull ==
  \A bytes \in Sizes, align \in Aligns :
    Fits(bytes, align) <=>
      \E start \in ptr .. Base + Capacity :
        start % align = 0 /\ start + bytes <= Base + Capacity

(* The peak is the high-water mark, kept across resets: the furthest that  *)
(* any tensor ever reached, live or gone, no less and no more.             *)
PeakIsHighWater ==
  /\ \A e \in ends : e <= peak
  /\ peak \in ends \cup {0}

===============================================================================
