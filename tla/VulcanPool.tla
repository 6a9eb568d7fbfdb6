------------------------------ MODULE VulcanPool ------------------------------
(***************************************************************************)
(* The pool allocator of kernel/vulcan_mem.c: a free list linked through   *)
(* the first word of each free block.  Tasks and handlers share a pool:    *)
(* what they do with interrupts masked is one step, and between steps any  *)
(* other may get in.  A block is cleared with interrupts open: its link    *)
(* word, the bytes after it and the return are steps apart.                *)
(*                                                                         *)
(* Clients free only what the pool lent, once, and use a block only while  *)
(* it is lent; whoever it was lent to, anyone may free it.                 *)
(***************************************************************************)
EXTENDS Integers, Sequences, FiniteSets, Functions

CONSTANTS
  Client,      \* the tasks and handlers that allocate
  Total,       \* n_blocks
  BlockBytes,  \* the block size the pool is declared with
  NULL,        \* the null pointer, whose bytes are zero
  Data         \* what a client writes in a block

Block == 0 .. Total - 1   \* block i is at storage + i * block_size

ASSUME PoolAssumption ==
  /\ Total \in Nat
  /\ BlockBytes \in Nat \ {0}
  /\ NULL \notin Block
  /\ Data \notin Block \cup {NULL}

VARIABLES
  free_list, used,
  word,     \* the first word of each block
  rest,     \* the bytes after it: "zero" or "data"
  i,        \* the counter of vk_pool_init's loop
  clears,   \* the block each client has popped and not yet returned, or NULL
  zeroed,   \* how far its clearing has come: "none", "word" or "all"
  held,     \* the blocks returned to clients and not freed
  stack     \* history: the blocks on the free list, last freed first

vars == <<free_list, used, word, rest, i, clears, zeroed, held, stack>>

block_size ==
  LET size == IF BlockBytes < 4 THEN 4 ELSE BlockBytes
  IN  size + ((4 - (size % 4)) % 4)

(* The storage is static: zeros. *)
Init ==
  /\ free_list = NULL
  /\ used = 0
  /\ word = [b \in Block |-> NULL]
  /\ rest = [b \in Block |-> "zero"]
  /\ i = 0
  /\ clears = [c \in Client |-> NULL]
  /\ zeroed = [c \in Client |-> "none"]
  /\ held = {}
  /\ stack = <<>>

Popped == {b \in Block : \E c \in Client : clears[c] = b}

(* One turn of the loop of vk_pool_init, which ends before the pool is used. *)
vk_pool_init ==
  /\ i < Total
  /\ word' = [word EXCEPT ![i] = free_list]
  /\ free_list' = i
  /\ i' = i + 1
  /\ stack' = <<i>> \o stack
  /\ UNCHANGED <<used, rest, clears, zeroed, held>>

Idle(c) == i = Total /\ clears[c] = NULL

(* A mutation: the head is handed out and the list not advanced. *)
vk_mem_alloc_stuck(c) ==
  /\ Idle(c)
  /\ free_list # NULL
  /\ used' = used + 1
  /\ clears' = [clears EXCEPT ![c] = free_list]
  /\ UNCHANGED <<free_list, word, rest, i, zeroed, held, stack>>

(* The critical section of vk_mem_alloc. *)
vk_mem_alloc(c) ==
  /\ Idle(c)
  /\ free_list # NULL
  /\ free_list' = word[free_list]
  /\ used' = used + 1
  /\ clears' = [clears EXCEPT ![c] = free_list]
  /\ stack' = Tail(stack)
  /\ UNCHANGED <<word, rest, i, zeroed, held>>

(* vk_mem_alloc returns NULL. *)
Exhausted(c) ==
  /\ Idle(c)
  /\ free_list = NULL
  /\ UNCHANGED vars

(* Interrupts are open.  The clearing loop first takes the link, *)
ClearWord(c) ==
  /\ clears[c] # NULL
  /\ zeroed[c] = "none"
  /\ word' = [word EXCEPT ![clears[c]] = NULL]
  /\ zeroed' = [zeroed EXCEPT ![c] = "word"]
  /\ UNCHANGED <<free_list, used, rest, i, clears, held, stack>>

(* A mutation: i <= block_size, which reaches into the next block. *)
ClearRest_over(c) ==
  /\ clears[c] # NULL
  /\ zeroed[c] = "word"
  /\ rest' = [rest EXCEPT ![clears[c]] = "zero"]
  /\ word' = [b \in Block |-> IF b = clears[c] + 1 THEN NULL ELSE word[b]]
  /\ zeroed' = [zeroed EXCEPT ![c] = "all"]
  /\ UNCHANGED <<free_list, used, i, clears, held, stack>>

(* then the other bytes, *)
ClearRest(c) ==
  /\ clears[c] # NULL
  /\ zeroed[c] = "word"
  /\ rest' = [rest EXCEPT ![clears[c]] = "zero"]
  /\ zeroed' = [zeroed EXCEPT ![c] = "all"]
  /\ UNCHANGED <<free_list, used, word, i, clears, held, stack>>

(* and the block is returned, whatever it holds by then. *)
Return(c) ==
  /\ clears[c] # NULL
  /\ zeroed[c] = "all"
  /\ held' = held \cup {clears[c]}
  /\ clears' = [clears EXCEPT ![c] = NULL]
  /\ zeroed' = [zeroed EXCEPT ![c] = "none"]
  /\ UNCHANGED <<free_list, used, word, rest, i, stack>>

Write(b) ==
  /\ b \in held
  /\ word' = [word EXCEPT ![b] = Data]
  /\ rest' = [rest EXCEPT ![b] = "data"]
  /\ UNCHANGED <<free_list, used, i, clears, zeroed, held, stack>>

(* A mutation: the block becomes the head without a link to the rest. *)
vk_mem_free_unlinked(b) ==
  /\ b \in held
  /\ free_list' = b
  /\ used' = used - 1
  /\ held' = held \ {b}
  /\ stack' = <<b>> \o stack
  /\ UNCHANGED <<word, rest, i, clears, zeroed>>

vk_mem_free(b) ==
  /\ b \in held
  /\ word' = [word EXCEPT ![b] = free_list]
  /\ free_list' = b
  /\ used' = used - 1
  /\ held' = held \ {b}
  /\ stack' = <<b>> \o stack
  /\ UNCHANGED <<rest, i, clears, zeroed>>

FreeNull ==
  /\ i = Total
  /\ UNCHANGED vars

Next ==
  \/ vk_pool_init
  \/ \E c \in Client : \/ vk_mem_alloc(c) \/ Exhausted(c)
                       \/ ClearWord(c) \/ ClearRest(c) \/ Return(c)
  \/ \E b \in Block : Write(b) \/ vk_mem_free(b)
  \/ FreeNull

Spec == Init /\ [][Next]_vars

vk_mem_avail == Total - used

-------------------------------------------------------------------------------
PoolTypeOK ==
  /\ free_list \in Block \cup {NULL}
  /\ used \in 0 .. Total
  /\ word \in [Block -> Block \cup {NULL, Data}]
  /\ rest \in [Block -> {"zero", "data"}]
  /\ i \in 0 .. Total
  /\ clears \in [Client -> Block \cup {NULL}]
  /\ zeroed \in [Client -> {"none", "word", "all"}]
  /\ held \in SUBSET Block
  /\ stack \in Seq(Block)

(* The words w link the blocks of s, from head on. *)
Linked(head, w, s) ==
  /\ head = IF s = <<>> THEN NULL ELSE s[1]
  /\ \A k \in DOMAIN s : w[s[k]] = IF k = Len(s) THEN NULL ELSE s[k + 1]

(* The free list, followed from its head through the words of the blocks,  *)
(* is exactly the blocks that nobody has, each once: no client's data is   *)
(* ever taken for a link, and no block is lost.                            *)
FreeListIntact ==
  /\ Linked(free_list, word, stack)
  /\ IsInjective(stack)
  /\ Range(stack) = (0 .. i - 1) \ (held \cup Popped)

(* A block is being returned to one client at most, and to nobody while it *)
(* is still in use.                                                        *)
LentOnce ==
  /\ held \cap Popped = {}
  /\ \A c, d \in Client : clears[c] = clears[d] /\ c # d => clears[c] = NULL

(* The comment in vk_mem_alloc, "prevents data leakage between tasks": a   *)
(* block is all zeros when the call returns it, although any other task or *)
(* handler could pop, write and free between the clearing and the return.  *)
NoDataLeak ==
  [][\A c \in Client :
       clears[c] # NULL /\ clears'[c] = NULL
         => word[clears[c]] = NULL /\ rest[clears[c]] = "zero"]_vars

(* What a client has written to its block stays as long as it has it: no   *)
(* allocation, clearing or free of another's touches it.                   *)
DataKept ==
  [][\A b \in held \cap held' :
       /\ word[b] = Data => word'[b] = Data
       /\ rest[b] = "data" => rest'[b] = "data"]_vars

(* The pool is a BlockPool: what is lent is nobody else's, and             *)
(* vk_mem_avail is the number of blocks left.                              *)
Abstract == INSTANCE BlockPool WITH lent <- held \cup Popped,
                                    avail <- vk_mem_avail

ImplementsBlockPool == Abstract!Spec

(* The blocks lie within VK_POOL_DECLARE's storage of block_bytes * n_blocks *)
(* bytes, as its comment says of every pool.                                *)
BlocksInStorage ==
  \A b \in 0 .. i - 1 : (b + 1) * block_size <= BlockBytes * Total

===============================================================================
