--------------------------- MODULE VulcanMemProofs ----------------------------
(***************************************************************************)
(* The properties of the two allocators of kernel/vulcan_mem.c: of the     *)
(* pool for any clients and any blocks, of the arena for any buffer, sizes *)
(* and alignments that do not wrap.                                        *)
(***************************************************************************)
EXTENDS VulcanPool, VulcanArena, VulcanLemmas, FiniteSetTheorems

-------------------------------------------------------------------------------
\* The pool.

Gone == held \cup Popped

(* The counter and, until the list is built, nothing is lent. *)
Counted ==
  /\ used = Cardinality(Gone)
  /\ Gone \subseteq 0 .. i - 1
  /\ i # Total => Gone = {}

(* What a clearing loop has behind it stays zero. *)
Cleared ==
  \A c \in Client :
    /\ clears[c] = NULL => zeroed[c] = "none"
    /\ clears[c] # NULL /\ zeroed[c] # "none" => word[clears[c]] = NULL
    /\ clears[c] # NULL /\ zeroed[c] = "all" => rest[clears[c]] = "zero"

PoolInv ==
  /\ PoolTypeOK
  /\ FreeListIntact
  /\ LentOnce
  /\ Counted
  /\ Cleared

-------------------------------------------------------------------------------
\* Sets of blocks and the sequence that stands for the free list.

(* There are Total blocks, and a set of them has no more. *)
LEMMA BlocksFinite ==
  /\ IsFiniteSet(Block) /\ Cardinality(Block) = Total
  /\ \A S \in SUBSET Block : /\ IsFiniteSet(S)
                             /\ Cardinality(S) \in 0 .. Total
<1>1. IsFiniteSet(Block) /\ Cardinality(Block) = Total
  BY PoolAssumption, FS_Interval DEF Block
<1>2. ASSUME NEW S \in SUBSET Block
      PROVE  IsFiniteSet(S) /\ Cardinality(S) \in 0 .. Total
  BY <1>1, FS_Subset, FS_CardinalityType, PoolAssumption
<1> QED
  BY <1>1, <1>2

(* The empty list is the one of length 0. *)
LEMMA EmptyList ==
  ASSUME NEW s \in Seq(Block)
  PROVE  s = <<>> <=> Len(s) = 0
OBVIOUS

(* Another word than those of the list may change. *)
LEMMA WordElsewhere ==
  ASSUME NEW s \in Seq(Block), NEW head, NEW x, NEW b \in Block \ Range(s),
         NEW w \in [Block -> Block \cup {NULL, Data}], Linked(head, w, s)
  PROVE  Linked(head, [w EXCEPT ![b] = x], s)
<1>1. \A k \in DOMAIN s : s[k] \in Block /\ s[k] # b
  BY DEF Range
<1> QED
  BY <1>1 DEF Linked

(* What a push does to the list. *)
LEMMA Push ==
  ASSUME NEW s \in Seq(Block), NEW head, NEW b \in Block \ Range(s),
         NEW w \in [Block -> Block \cup {NULL, Data}],
         Linked(head, w, s), IsInjective(s)
  PROVE  /\ <<b>> \o s \in Seq(Block)
         /\ Linked(b, [w EXCEPT ![b] = head], <<b>> \o s)
         /\ IsInjective(<<b>> \o s)
         /\ Range(<<b>> \o s) = Range(s) \cup {b}
<1> DEFINE r == <<b>> \o s
<1>1. r \in Seq(Block) /\ Len(r) = Len(s) + 1 /\ Len(s) \in Nat /\ r[1] = b
  OBVIOUS
<1>2. \A k \in 1 .. Len(s) : r[k + 1] = s[k]
  OBVIOUS
<1>3. s = <<>> <=> Len(s) = 0
  OBVIOUS
<1> HIDE DEF r
<1>4. DOMAIN r = 1 .. Len(s) + 1 /\ DOMAIN s = 1 .. Len(s)
  BY <1>1
<1>5. \A k \in DOMAIN r \ {1} : k - 1 \in DOMAIN s /\ r[k] = s[k - 1]
  <2> TAKE k \in DOMAIN r \ {1}
  <2>1. k - 1 \in 1 .. Len(s) /\ (k - 1) + 1 = k
    BY <1>1, <1>4
  <2>2. r[(k - 1) + 1] = s[k - 1]
    BY <1>2, <2>1
  <2> QED
    BY <1>4, <2>1, <2>2
<1>6. Range(r) = Range(s) \cup {b}
  <2>1. \A k \in DOMAIN s : k + 1 \in DOMAIN r /\ r[k + 1] = s[k]
    BY <1>1, <1>2, <1>4
  <2>2. 1 \in DOMAIN r
    BY <1>1, <1>4
  <2> QED
    BY <1>1, <1>5, <2>1, <2>2, SMTT(30) DEF Range
<1>7. IsInjective(r)
  <2> SUFFICES ASSUME NEW j \in DOMAIN r, NEW k \in DOMAIN r, r[j] = r[k]
               PROVE  j = k
    BY DEF IsInjective
  <2>1. \A n \in DOMAIN r \ {1} : r[n] # b
    BY <1>5 DEF Range
  <2>2. CASE j = 1 \/ k = 1
    BY <1>1, <2>1, <2>2
  <2>3. CASE j # 1 /\ k # 1
    <3>1. j - 1 \in DOMAIN s /\ k - 1 \in DOMAIN s /\ s[j - 1] = s[k - 1]
      BY <1>5, <2>3
    <3>2. j - 1 = k - 1
      BY <3>1 DEF IsInjective
    <3> QED
      BY <1>1, <1>4, <3>2
  <2> QED
    BY <2>2, <2>3
<1>8. Linked(b, [w EXCEPT ![b] = head], r)
  <2> DEFINE v == [w EXCEPT ![b] = head]
  <2>1. r # <<>> /\ r[1] = b
    BY <1>1
  <2>2. v[b] = IF 1 = Len(r) THEN NULL ELSE r[2]
    <3>1. CASE s = <<>>
      BY <1>1, <1>3, <3>1 DEF Linked
    <3>2. CASE s # <<>>
      <4>1. 1 \in 1 .. Len(s) /\ Len(r) # 1
        BY <1>1, <1>3, <3>2
      <4>2. r[2] = s[1]
        BY <1>2, <4>1
      <4> QED
        BY <3>2, <4>1, <4>2 DEF Linked
    <3> QED
      BY <3>1, <3>2
  <2>3. ASSUME NEW k \in DOMAIN r \ {1}
        PROVE  v[r[k]] = IF k = Len(r) THEN NULL ELSE r[k + 1]
    <3>1. k - 1 \in DOMAIN s /\ r[k] = s[k - 1]
      BY <1>5
    <3>2. r[k] # b /\ r[k] \in Block
      BY <3>1 DEF Range
    <3>3. v[r[k]] = IF k - 1 = Len(s) THEN NULL ELSE s[(k - 1) + 1]
      BY <3>1, <3>2 DEF Linked
    <3>4. CASE k = Len(r)
      BY <1>1, <3>3, <3>4
    <3>5. CASE k # Len(r)
      <4>1. k \in 1 .. Len(s) /\ (k - 1) + 1 = k /\ k - 1 # Len(s)
        BY <1>1, <1>4, <3>5
      <4> QED
        BY <1>2, <3>3, <3>5, <4>1
    <3> QED
      BY <3>4, <3>5
  <2> HIDE DEF v
  <2>4. ASSUME NEW k \in DOMAIN r
        PROVE  v[r[k]] = IF k = Len(r) THEN NULL ELSE r[k + 1]
    <3>1. CASE k = 1
      BY <2>1, <2>2, <3>1
    <3>2. CASE k # 1
      BY <2>3, <3>2
    <3> QED
      BY <3>1, <3>2
  <2>5. Linked(b, v, r)
    BY <2>1, <2>4 DEF Linked
  <2> QED
    BY <2>5 DEF v
<1> QED
  BY <1>1, <1>6, <1>7, <1>8 DEF r

(* What a pop does to the list. *)
LEMMA Pop ==
  ASSUME NEW s \in Seq(Block), NEW head, head # NULL,
         NEW w \in [Block -> Block \cup {NULL, Data}],
         Linked(head, w, s), IsInjective(s)
  PROVE  /\ Tail(s) \in Seq(Block)
         /\ head \in Range(s)
         /\ Linked(w[head], w, Tail(s))
         /\ IsInjective(Tail(s))
         /\ Range(Tail(s)) = Range(s) \ {head}
<1> DEFINE r == Tail(s)
<1>1. s # <<>> /\ head = s[1]
  BY DEF Linked
<1>2. r \in Seq(Block) /\ Len(r) = Len(s) - 1 /\ Len(s) \in Nat \ {0}
  BY <1>1
<1>3. \A k \in 1 .. Len(r) : r[k] = s[k + 1]
  BY <1>1
<1> HIDE DEF r
<1>4. DOMAIN r = 1 .. Len(r) /\ DOMAIN s = 1 .. Len(s) /\ 1 \in DOMAIN s
  BY <1>2
<1>5. r = <<>> <=> Len(s) = 1
  <2>1. r = <<>> <=> Len(r) = 0
    BY <1>2, EmptyList
  <2> QED
    BY <1>2, <2>1
<1>6. \A k \in DOMAIN r : k + 1 \in DOMAIN s \ {1} /\ r[k] = s[k + 1]
  BY <1>2, <1>3, <1>4
<1>7. \A k \in DOMAIN s \ {1} : k - 1 \in DOMAIN r /\ r[k - 1] = s[k]
  <2> TAKE k \in DOMAIN s \ {1}
  <2>1. k - 1 \in 1 .. Len(r) /\ (k - 1) + 1 = k
    BY <1>2, <1>4
  <2> QED
    BY <1>3, <1>4, <2>1
<1>8. Range(r) = Range(s) \ {head}
  <2>1. \A k \in DOMAIN s \ {1} : s[k] # head
    BY <1>1, <1>4 DEF IsInjective
  <2> QED
    BY <1>1, <1>6, <1>7, <2>1 DEF Range
<1>9. IsInjective(r)
  <2> SUFFICES ASSUME NEW j \in DOMAIN r, NEW k \in DOMAIN r, r[j] = r[k]
               PROVE  j = k
    BY DEF IsInjective
  <2>1. j + 1 = k + 1
    BY <1>6 DEF IsInjective
  <2> QED
    BY <1>2, <1>4, <2>1
<1>10. Linked(w[head], w, r)
  <2>1. w[head] = IF Len(s) = 1 THEN NULL ELSE s[2]
    BY <1>1, <1>4 DEF Linked
  <2>2. w[head] = IF r = <<>> THEN NULL ELSE r[1]
    <3>1. CASE Len(s) = 1
      BY <1>5, <2>1, <3>1
    <3>2. CASE Len(s) # 1
      <4>1. 1 \in 1 .. Len(r)
        BY <1>2, <3>2
      <4> QED
        BY <1>3, <1>5, <2>1, <3>2, <4>1
    <3> QED
      BY <3>1, <3>2
  <2>3. ASSUME NEW k \in DOMAIN r
        PROVE  w[r[k]] = IF k = Len(r) THEN NULL ELSE r[k + 1]
    <3>1. w[s[k + 1]] = IF k + 1 = Len(s) THEN NULL ELSE s[(k + 1) + 1]
      BY <1>6 DEF Linked
    <3>2. CASE k = Len(r)
      BY <1>2, <1>6, <3>1, <3>2
    <3>3. CASE k # Len(r)
      <4>1. k + 1 \in 1 .. Len(r) /\ k + 1 # Len(s)
        BY <1>2, <1>4, <3>3
      <4> QED
        BY <1>3, <1>6, <3>1, <3>3, <4>1
    <3> QED
      BY <3>2, <3>3
  <2> QED
    BY <2>2, <2>3 DEF Linked
<1>11. head \in Range(s)
  BY <1>1, <1>4 DEF Range
<1> QED
  BY <1>2, <1>8, <1>9, <1>10, <1>11 DEF r

(* Taking a block out of a set counts one down. *)
LEMMA CountOut ==
  ASSUME NEW S \in SUBSET Block, NEW b \in S
  PROVE  Cardinality(S \ {b}) = Cardinality(S) - 1
BY BlocksFinite, FS_RemoveElement

(* Putting one in counts one up. *)
LEMMA CountIn ==
  ASSUME NEW S \in SUBSET Block, NEW b \in Block \ S
  PROVE  Cardinality(S \cup {b}) = Cardinality(S) + 1
BY BlocksFinite, FS_AddElement

(* The head of a linked list is a block or NULL. *)
LEMMA HeadTyped ==
  ASSUME NEW s \in Seq(Block), NEW w, NEW head, Linked(head, w, s)
  PROVE  head \in Block \cup {NULL}
<1>1. CASE s = <<>>
  BY <1>1 DEF Linked
<1>2. CASE s # <<>>
  <2>1. 1 \in DOMAIN s
    BY <1>2, EmptyList
  <2> QED
    BY <1>2, <2>1 DEF Linked
<1> QED
  BY <1>1, <1>2

-------------------------------------------------------------------------------
\* The initial state and the actions, one by one.

(* The invariant holds before the pool is built. *)
LEMMA InitInv == Init => PoolInv
<1> SUFFICES ASSUME Init PROVE PoolInv
  OBVIOUS
<1> USE PoolAssumption DEF Init
<1>1. Gone = {}
  BY DEF Gone, Popped, Block
<1>2. PoolTypeOK
  BY DEF PoolTypeOK, Block
<1>3. FreeListIntact
  BY <1>1 DEF FreeListIntact, Gone, Block, Linked, IsInjective, Range
<1>4. LentOnce
  BY DEF LentOnce, Popped
<1>5. Counted
  BY <1>1, FS_EmptySet DEF Counted
<1>6. Cleared
  BY DEF Cleared
<1> QED
  BY <1>2, <1>3, <1>4, <1>5, <1>6 DEF PoolInv

(* Each turn of the loop of vk_pool_init keeps the invariant. *)
LEMMA PoolInitInv == PoolInv /\ vk_pool_init => PoolInv'
<1> SUFFICES ASSUME PoolInv, vk_pool_init PROVE PoolInv'
  OBVIOUS
<1> USE PoolAssumption DEF PoolInv, vk_pool_init
<1>1. i \in Block /\ i \in Nat /\ i # Total
  BY DEF PoolTypeOK, Block
<1>2. Gone = {} /\ Gone' = {} /\ held' = {} /\ Popped' = Popped /\ Popped = {}
  BY <1>1 DEF Counted, Gone, Popped
<1>3. i \notin Range(stack)
  BY <1>1 DEF FreeListIntact
<1>4. /\ stack' \in Seq(Block)
      /\ Linked(free_list', word', stack')
      /\ IsInjective(stack')
      /\ Range(stack') = Range(stack) \cup {i}
  BY <1>1, <1>3, Push DEF FreeListIntact, PoolTypeOK
<1>5. PoolTypeOK'
  BY <1>1, <1>4 DEF PoolTypeOK, Block
<1>6. FreeListIntact'
  <2>1. 0 .. i' - 1 = (0 .. i - 1) \cup {i}
    BY <1>1
  <2>2. Range(stack') = 0 .. i' - 1
    BY <1>2, <1>4, <2>1 DEF FreeListIntact
  <2> QED
    BY <1>2, <1>4, <2>2 DEF FreeListIntact, Gone
<1>7. LentOnce'
  BY <1>2 DEF LentOnce
<1>8. Counted'
  BY <1>2 DEF Counted
<1>9. Cleared'
  BY <1>2 DEF Cleared, Popped, PoolTypeOK
<1> QED
  BY <1>5, <1>6, <1>7, <1>8, <1>9

(* A pop keeps the invariant: the block it takes was nobody's. *)
LEMMA AllocInv ==
  ASSUME NEW c \in Client
  PROVE  PoolInv /\ vk_mem_alloc(c) => PoolInv'
<1> SUFFICES ASSUME PoolInv, vk_mem_alloc(c) PROVE PoolInv'
  OBVIOUS
<1> USE PoolAssumption DEF PoolInv, vk_mem_alloc
<1> DEFINE b == free_list
<1>1. b \in Block /\ clears[c] = NULL /\ i = Total /\ i' = i /\ held' = held
  BY DEF PoolTypeOK, Idle
<1>2. /\ stack' \in Seq(Block)
      /\ b \in Range(stack)
      /\ Linked(free_list', word', stack')
      /\ IsInjective(stack')
      /\ Range(stack') = Range(stack) \ {b}
  BY Pop DEF FreeListIntact, PoolTypeOK
<1>3. b \notin Gone
  BY <1>2 DEF FreeListIntact, Gone
<1>4. Popped' = Popped \cup {b}
  BY <1>1 DEF Popped, PoolTypeOK, Block
<1>5. Gone' = Gone \cup {b} /\ Gone \in SUBSET Block
  BY <1>1, <1>4 DEF Gone, Popped, PoolTypeOK
<1>6. Counted'
  <2>1. Cardinality(Gone') = Cardinality(Gone) + 1
    BY <1>1, <1>3, <1>5, CountIn
  <2> QED
    BY <1>1, <1>5, <2>1 DEF Counted, Block, PoolTypeOK
<1>7. PoolTypeOK'
  <2>1. used' \in 0 .. Total
    BY <1>1, <1>5, <1>6, BlocksFinite DEF Counted
  <2>2. free_list' \in Block \cup {NULL}
    BY <1>2, HeadTyped
  <2> QED
    BY <1>1, <1>2, <2>1, <2>2 DEF PoolTypeOK
<1>8. FreeListIntact'
  BY <1>1, <1>2, <1>4 DEF FreeListIntact
<1>9. LentOnce'
  <2>1. \A d \in Client : clears[d] # b
    BY <1>1, <1>3 DEF Gone, Popped
  <2> QED
    BY <1>1, <1>3, <1>4, <2>1 DEF LentOnce, Gone, PoolTypeOK
<1>10. Cleared'
  BY <1>1 DEF Cleared, PoolTypeOK
<1> QED
  BY <1>6, <1>7, <1>8, <1>9, <1>10

(* Clearing the link word of a popped block touches no link of the list,   *)
(* for the block is off it, and no other client's block.                   *)
LEMMA ClearWordInv ==
  ASSUME NEW c \in Client
  PROVE  PoolInv /\ ClearWord(c) => PoolInv'
<1> SUFFICES ASSUME PoolInv, ClearWord(c) PROVE PoolInv'
  OBVIOUS
<1> USE PoolAssumption DEF PoolInv, ClearWord
<1>1. clears[c] \in Popped /\ clears[c] \in Block
  BY DEF Popped, PoolTypeOK
<1>2. Popped' = Popped /\ Gone' = Gone
  BY DEF Popped, Gone
<1>3. PoolTypeOK'
  BY <1>1 DEF PoolTypeOK
<1>4. FreeListIntact'
  <2>1. Linked(free_list, word', stack)
    BY <1>1, WordElsewhere DEF FreeListIntact, PoolTypeOK
  <2> QED
    BY <1>2, <2>1 DEF FreeListIntact
<1>5. LentOnce' /\ Counted'
  BY <1>2 DEF LentOnce, Counted
<1>6. Cleared'
  BY <1>1 DEF Cleared, PoolTypeOK
<1> QED
  BY <1>3, <1>4, <1>5, <1>6

(* The rest of the block is in nobody else's hands. *)
LEMMA ClearRestInv ==
  ASSUME NEW c \in Client
  PROVE  PoolInv /\ ClearRest(c) => PoolInv'
<1> SUFFICES ASSUME PoolInv, ClearRest(c) PROVE PoolInv'
  OBVIOUS
<1> USE PoolAssumption DEF PoolInv, ClearRest
<1>1. clears[c] \in Block /\ Popped' = Popped /\ Gone' = Gone
  BY DEF Popped, Gone, PoolTypeOK
<1>2. PoolTypeOK'
  BY <1>1 DEF PoolTypeOK
<1>3. FreeListIntact' /\ LentOnce' /\ Counted'
  BY <1>1 DEF FreeListIntact, LentOnce, Counted
<1>4. Cleared'
  BY <1>1 DEF Cleared, PoolTypeOK
<1> QED
  BY <1>2, <1>3, <1>4

(* The return hands the block from its allocator to its holder. *)
LEMMA ReturnInv ==
  ASSUME NEW c \in Client
  PROVE  PoolInv /\ Return(c) => PoolInv'
<1> SUFFICES ASSUME PoolInv, Return(c) PROVE PoolInv'
  OBVIOUS
<1> USE PoolAssumption DEF PoolInv, Return
<1> DEFINE b == clears[c]
<1>1. b \in Popped /\ b \in Block
  BY DEF Popped, PoolTypeOK
<1>2. Popped' = Popped \ {b} /\ held' = held \cup {b} /\ Gone' = Gone
  <2>1. Popped' = Popped \ {b}
    BY <1>1 DEF Popped, PoolTypeOK, LentOnce
  <2> QED
    BY <1>1, <2>1 DEF Gone
<1>3. PoolTypeOK'
  BY <1>1 DEF PoolTypeOK
<1>4. FreeListIntact'
  BY <1>2 DEF FreeListIntact, Gone
<1>5. LentOnce'
  BY <1>1, <1>2 DEF LentOnce, PoolTypeOK
<1>6. Counted'
  BY <1>2 DEF Counted
<1>7. Cleared'
  BY DEF Cleared, PoolTypeOK
<1> QED
  BY <1>3, <1>4, <1>5, <1>6, <1>7

(* Nor do a client's writes to a block it was lent. *)
LEMMA WriteInv ==
  ASSUME NEW b \in Block
  PROVE  PoolInv /\ Write(b) => PoolInv'
<1> SUFFICES ASSUME PoolInv, Write(b) PROVE PoolInv'
  OBVIOUS
<1> USE DEF PoolInv, Write
<1>1. Popped' = Popped /\ Gone' = Gone
  BY DEF Popped, Gone
<1>2. b \notin Range(stack)
  BY DEF FreeListIntact
<1>3. PoolTypeOK'
  BY DEF PoolTypeOK
<1>4. FreeListIntact'
  <2>1. Linked(free_list, word', stack)
    BY <1>2, WordElsewhere DEF FreeListIntact, PoolTypeOK
  <2> QED
    BY <1>1, <2>1 DEF FreeListIntact
<1>5. LentOnce' /\ Counted'
  BY <1>1 DEF LentOnce, Counted
<1>6. Cleared'
  <2>1. \A c \in Client : clears[c] # b
    BY DEF LentOnce, Popped
  <2> QED
    BY <2>1 DEF Cleared, PoolTypeOK
<1> QED
  BY <1>3, <1>4, <1>5, <1>6

(* A push keeps the invariant: the block was lent, so not on the list. *)
LEMMA FreeInv ==
  ASSUME NEW b \in Block
  PROVE  PoolInv /\ vk_mem_free(b) => PoolInv'
<1> SUFFICES ASSUME PoolInv, vk_mem_free(b) PROVE PoolInv'
  OBVIOUS
<1> USE PoolAssumption DEF PoolInv, vk_mem_free
<1>1. Popped' = Popped /\ b \in Gone /\ b \notin Popped
  BY DEF Popped, Gone, LentOnce
<1>2. Gone' = Gone \ {b} /\ Gone \in SUBSET Block
  BY <1>1 DEF Gone, Popped, PoolTypeOK
<1>3. b \notin Range(stack)
  BY DEF FreeListIntact
<1>4. /\ stack' \in Seq(Block)
      /\ Linked(free_list', word', stack')
      /\ IsInjective(stack')
      /\ Range(stack') = Range(stack) \cup {b}
  BY <1>3, Push DEF FreeListIntact, PoolTypeOK
<1>5. Counted'
  <2>1. Cardinality(Gone') = Cardinality(Gone) - 1
    BY <1>1, <1>2, CountOut
  <2> QED
    BY <1>1, <1>2, <2>1 DEF Counted
<1>6. PoolTypeOK'
  <2>1. used' \in 0 .. Total
    BY <1>2, <1>5, BlocksFinite DEF Counted
  <2> QED
    BY <1>4, <2>1 DEF PoolTypeOK
<1>7. FreeListIntact'
  <2>1. b \in 0 .. i - 1
    BY <1>1 DEF Counted
  <2> QED
    BY <1>1, <1>4, <2>1 DEF FreeListIntact
<1>8. LentOnce'
  BY <1>1 DEF LentOnce
<1>9. Cleared'
  <2>1. \A c \in Client : clears[c] # b
    BY <1>1 DEF Popped
  <2> QED
    BY <2>1 DEF Cleared, PoolTypeOK
<1> QED
  BY <1>5, <1>6, <1>7, <1>8, <1>9

-------------------------------------------------------------------------------
\* The theorems.

(* Every step keeps the invariant. *)
LEMMA NextInv == PoolInv /\ [Next]_vars => PoolInv'
<1> SUFFICES ASSUME PoolInv, [Next]_vars PROVE PoolInv'
  OBVIOUS
<1>1. CASE vk_pool_init
  BY <1>1, PoolInitInv
<1>2. ASSUME NEW c \in Client, vk_mem_alloc(c) PROVE PoolInv'
  BY <1>2, AllocInv
<1>3. ASSUME NEW c \in Client, ClearWord(c) \/ ClearRest(c) \/ Return(c)
      PROVE  PoolInv'
  BY <1>3, ClearWordInv, ClearRestInv, ReturnInv
<1>4. ASSUME NEW b \in Block, Write(b) PROVE PoolInv'
  BY <1>4, WriteInv
<1>5. ASSUME NEW b \in Block, vk_mem_free(b) PROVE PoolInv'
  BY <1>5, FreeInv
<1>6. CASE UNCHANGED vars
  BY <1>6 DEF vars, PoolInv, PoolTypeOK, FreeListIntact, LentOnce, Counted,
              Cleared, Gone, Popped
<1> QED
  BY <1>1, <1>2, <1>3, <1>4, <1>5, <1>6 DEF Next, Exhausted, FreeNull

(* PoolInv is an invariant of the pool allocator. *)
THEOREM Invariant == Spec => []PoolInv
BY InitInv, NextInv, PTL DEF Spec

(* Following the free list visits the blocks nobody has, each once, whatever *)
(* clients write in theirs.                                                  *)
THEOREM Intact == Spec => []FreeListIntact
<1>1. PoolInv => FreeListIntact
  BY DEF PoolInv
<1> QED
  BY <1>1, Invariant, PTL

(* No block is lent to two clients.                                          *)
THEOREM Exclusive == Spec => []LentOnce
<1>1. PoolInv => LentOnce
  BY DEF PoolInv
<1> QED
  BY <1>1, Invariant, PTL

(* A pool that is built lies within the block_bytes * n_blocks bytes of     *)
(* VK_POOL_DECLARE exactly when the declared size is a multiple of four: any *)
(* other is rounded up, and the last block then ends behind the storage.     *)
THEOREM InStorage ==
  Spec => [](i = Total => (BlocksInStorage <=> Total = 0 \/ BlockBytes % 4 = 0))
<1>1. /\ block_size \in Nat /\ block_size >= BlockBytes
      /\ block_size = BlockBytes <=> BlockBytes % 4 = 0
  BY PoolAssumption DEF block_size
<1>2. ASSUME BlockBytes % 4 = 0, NEW b \in Block
      PROVE  (b + 1) * block_size <= BlockBytes * Total
  <2>1. b + 1 \in Nat /\ b + 1 <= Total /\ block_size = BlockBytes
    BY <1>1, <1>2, PoolAssumption DEF Block
  <2> DEFINE d == Total - (b + 1)
  <2>2. d \in Nat /\ Total = b + 1 + d
    BY <2>1, PoolAssumption
  <2> HIDE DEF d
  <2>3. BlockBytes * Total = (b + 1) * BlockBytes + d * BlockBytes
    BY <2>1, <2>2, PoolAssumption
  <2>4. d * BlockBytes >= 0
    BY <2>2, PoolAssumption
  <2> QED
    BY <2>1, <2>2, <2>3, <2>4, PoolAssumption
<1>3. ASSUME BlockBytes % 4 # 0, Total # 0
      PROVE  ~ ((Total - 1) + 1) * block_size <= BlockBytes * Total
  <2> DEFINE d == block_size - BlockBytes
  <2>1. d \in Nat \ {0} /\ block_size = BlockBytes + d
    BY <1>1, <1>3, PoolAssumption
  <2> HIDE DEF d
  <2>2. Total * block_size = BlockBytes * Total + Total * d
    BY <2>1, PoolAssumption
  <2>3. Total * d > 0
    BY <1>3, <2>1, PoolAssumption
  <2>4. (Total - 1) + 1 = Total
    BY PoolAssumption
  <2> QED
    BY <2>1, <2>2, <2>3, <2>4, PoolAssumption
<1>4. i = Total => (BlocksInStorage <=> Total = 0 \/ BlockBytes % 4 = 0)
  <2>1. CASE Total = 0
    BY <2>1 DEF BlocksInStorage
  <2>2. CASE Total # 0 /\ BlockBytes % 4 = 0
    BY <1>2, <2>2 DEF BlocksInStorage, Block
  <2>3. CASE Total # 0 /\ BlockBytes % 4 # 0
    <3>1. Total - 1 \in 0 .. Total - 1
      BY <2>3, PoolAssumption
    <3> QED
      BY <1>3, <2>3, <3>1 DEF BlocksInStorage
  <2> QED
    BY <2>1, <2>2, <2>3
<1> QED
  BY <1>4, PTL

(* A block is all zeros when vk_mem_alloc returns it, although whatever runs *)
(* between the clearing loop and the return may allocate, write and free.    *)
THEOREM Zeroed == Spec => NoDataLeak
<1>1. PoolInv /\ [Next]_vars =>
        [\A c \in Client :
           clears[c] # NULL /\ clears'[c] = NULL
             => word[clears[c]] = NULL /\ rest[clears[c]] = "zero"]_vars
  <2> SUFFICES ASSUME PoolInv, Next, NEW c \in Client,
                      clears[c] # NULL, clears'[c] = NULL
               PROVE  word[clears[c]] = NULL /\ rest[clears[c]] = "zero"
    OBVIOUS
  <2>1. PICK d \in Client : Return(d)
    <3>1. ASSUME NEW d \in Client, vk_mem_alloc(d) PROVE FALSE
      BY <3>1 DEF vk_mem_alloc, Idle, PoolInv, PoolTypeOK
    <3> QED
      BY <3>1 DEF Next, vk_pool_init, Exhausted, ClearWord, ClearRest, Write,
                  vk_mem_free, FreeNull, vars
  <2>2. c = d
    BY <2>1 DEF Return, PoolInv, PoolTypeOK
  <2> QED
    BY <2>1, <2>2 DEF Return, PoolInv, Cleared
<1> QED
  BY <1>1, Invariant, PTL DEF Spec, NoDataLeak

(* Nobody's allocation, clearing or free touches what a client has written   *)
(* to a block it still has.                                                  *)
THEOREM Kept == Spec => DataKept
<1>1. PoolInv /\ [Next]_vars =>
        [\A b \in held \cap held' :
           /\ word[b] = Data => word'[b] = Data
           /\ rest[b] = "data" => rest'[b] = "data"]_vars
  <2> SUFFICES ASSUME PoolInv, Next, NEW b \in held \cap held'
               PROVE  /\ word[b] = Data => word'[b] = Data
                      /\ rest[b] = "data" => rest'[b] = "data"
    OBVIOUS
  <2> USE DEF PoolInv, PoolTypeOK
  <2>1. CASE vk_pool_init
    <3>1. i # b
      BY <2>1, PoolAssumption DEF vk_pool_init, Counted, Gone
    <3> QED
      BY <2>1, <3>1 DEF vk_pool_init
  <2>2. ASSUME NEW c \in Client, ClearWord(c) \/ ClearRest(c)
        PROVE  /\ word[b] = Data => word'[b] = Data
               /\ rest[b] = "data" => rest'[b] = "data"
    <3>1. clears[c] # b
      BY <2>2 DEF ClearWord, ClearRest, LentOnce, Popped
    <3> QED
      BY <2>2, <3>1 DEF ClearWord, ClearRest
  <2>3. ASSUME NEW c \in Client,
               vk_mem_alloc(c) \/ Exhausted(c) \/ Return(c) \/ FreeNull
        PROVE  word' = word /\ rest' = rest
    BY <2>3 DEF vk_mem_alloc, Exhausted, Return, FreeNull, vars
  <2>4. ASSUME NEW d \in Block, Write(d)
        PROVE  /\ word[b] = Data => word'[b] = Data
               /\ rest[b] = "data" => rest'[b] = "data"
    BY <2>4 DEF Write
  <2>5. ASSUME NEW d \in Block, vk_mem_free(d)
        PROVE  /\ word[b] = Data => word'[b] = Data
               /\ rest[b] = "data" => rest'[b] = "data"
    BY <2>5 DEF vk_mem_free
  <2>6. CASE FreeNull
    BY <2>6 DEF FreeNull, vars
  <2> QED
    BY <2>1, <2>2, <2>3, <2>4, <2>5, <2>6 DEF Next
<1> QED
  BY <1>1, Invariant, PTL DEF Spec, DataKept

(* A step of the allocator is a step of BlockPool, or none.                  *)
LEMMA StepLends ==
  PoolInv /\ [Next]_vars => [Abstract!Next]_<<held \cup Popped, vk_mem_avail>>
<1> SUFFICES ASSUME PoolInv, [Next]_vars
             PROVE  [Abstract!Next]_<<Gone, vk_mem_avail>>
  BY DEF Gone
<1> USE PoolAssumption DEF PoolInv, vk_mem_avail
<1>0. Gone \in SUBSET Block /\ Popped \in SUBSET Block /\ used \in Int
  BY DEF Gone, Popped, PoolTypeOK
<1>1. CASE vk_pool_init
  BY <1>1 DEF vk_pool_init, Gone, Popped
<1>2. ASSUME NEW c \in Client, vk_mem_alloc(c)
      PROVE  Abstract!Next
  <2> DEFINE b == free_list
  <2>1. b \in Block /\ b \in Range(stack) /\ clears[c] = NULL
    BY <1>2, Pop DEF PoolTypeOK, FreeListIntact, vk_mem_alloc, Idle
  <2>2. b \notin Gone
    BY <2>1 DEF FreeListIntact, Gone
  <2>3. Gone' = Gone \cup {b} /\ used' = used + 1
    BY <1>2, <2>1 DEF vk_mem_alloc, Gone, Popped, PoolTypeOK, Block
  <2>4. Abstract!Lend(b)
    BY <1>0, <2>1, <2>2, <2>3 DEF Abstract!Lend, Gone
  <2> QED
    BY <2>1, <2>4 DEF Abstract!Next
<1>3. ASSUME NEW c \in Client, ClearWord(c) \/ ClearRest(c) \/ Return(c)
      PROVE  UNCHANGED <<Gone, vk_mem_avail>>
  <2>1. CASE ClearWord(c) \/ ClearRest(c)
    BY <2>1 DEF ClearWord, ClearRest, Gone, Popped
  <2>2. CASE Return(c)
    <3>1. Popped' = Popped \ {clears[c]} /\ clears[c] \in Popped
      BY <2>2 DEF Return, Popped, PoolTypeOK, LentOnce
    <3> QED
      BY <2>2, <3>1 DEF Return, Gone
  <2> QED
    BY <1>3, <2>1, <2>2
<1>4. ASSUME NEW b \in Block, Write(b)
      PROVE  UNCHANGED <<Gone, vk_mem_avail>>
  BY <1>4 DEF Write, Gone, Popped
<1>5. ASSUME NEW b \in Block, vk_mem_free(b)
      PROVE  Abstract!Next
  <2>1. b \in Gone /\ Gone' = Gone \ {b} /\ used' = used - 1
    BY <1>5 DEF vk_mem_free, Gone, Popped, LentOnce
  <2>2. Abstract!TakeBack(b)
    BY <1>0, <2>1 DEF Abstract!TakeBack, Gone
  <2> QED
    BY <2>2 DEF Abstract!Next
<1>6. CASE UNCHANGED vars
  BY <1>6 DEF vars, Gone, Popped
<1> QED
  BY <1>1, <1>2, <1>3, <1>4, <1>5, <1>6 DEF Next, Exhausted, FreeNull

(* The allocator implements BlockPool: blocks are lent to one client at a    *)
(* time, and vk_mem_avail counts the others.                                 *)
THEOREM Implements == Spec => ImplementsBlockPool
<1>1. Init => Abstract!Init
  <2> SUFFICES ASSUME Init PROVE Abstract!Init
    OBVIOUS
  <2>1. held \cup Popped = {}
    BY PoolAssumption DEF Init, Popped
  <2>2. vk_mem_avail = Cardinality(Block)
    BY BlocksFinite, PoolAssumption DEF Init, vk_mem_avail
  <2>3. Abstract!Cardinality(Block) = Cardinality(Block)
    BY Zenon DEF Abstract!Cardinality, Cardinality
  <2> QED
    BY <2>1, <2>2, <2>3 DEF Abstract!Init
<1> QED
  BY <1>1, StepLends, Invariant, PTL
     DEF Spec, ImplementsBlockPool, Abstract!Spec

-------------------------------------------------------------------------------
\* The arena.

(* No address in the buffer wraps when it is raised to an alignment, and no  *)
(* size when padding is added.                                               *)
Modest ==
  \A bytes \in Sizes, align \in Aligns :
    Base + Capacity + align <= AddrMod /\ align + bytes <= AddrMod

ArenaInv ==
  /\ ptr \in Base .. Base + Capacity
  /\ peak \in ptr - Base .. Capacity
  /\ \A t \in tensors : t.start \in Nat /\ t.bytes \in Nat
  /\ TensorsApart
  /\ ends \subseteq Nat
  /\ PeakIsHighWater

LEMMA NoWrapped ==
  ASSUME NEW n \in 0 .. AddrMod - 1
  PROVE  Word(n) = n
BY ArenaAssumption DEF Word

LEMMA OffsetNotWrapped ==
  ASSUME NEW p \in Nat, Base <= p, p <= Base + Capacity
  PROVE  Word(p - Base) = p - Base
<1>1. p - Base \in 0 .. AddrMod - 1
  BY ArenaAssumption
<1> QED
  BY <1>1, NoWrapped

LEMMA Highest ==
  ASSUME NEW p \in Nat, NEW old \in Nat, Base <= p, p <= Base + Capacity,
         old <= Capacity
  PROVE  (IF p - Base > old THEN p - Base ELSE old) \in p - Base .. Capacity
BY ArenaAssumption

(* What vk_arena_alloc computes, without the words' modulus.                 *)
LEMMA Arithmetic ==
  ASSUME Modest, ArenaInv, NEW bytes \in Sizes, NEW align \in Aligns
  PROVE  /\ bytes \in Nat /\ align \in Nat \ {0}
         /\ Aligned(align) \in ptr .. ptr + align - 1
         /\ Aligned(align) % align = 0
         /\ vk_arena_used = ptr - Base
         /\ Fits(bytes, align) <=> Aligned(align) + bytes <= Base + Capacity
<1>1. /\ bytes \in Nat /\ align \in Nat \ {0}
      /\ Base + Capacity + align <= AddrMod /\ align + bytes <= AddrMod
      /\ Base \in Nat /\ Capacity \in Nat /\ AddrMod \in Nat \ {0}
      /\ ptr \in Nat /\ Base <= ptr /\ ptr <= Base + Capacity
  BY ArenaAssumption DEF Modest, ArenaInv
<1> DEFINE raised == ptr + align - 1
           q == raised \div align
<1>2. raised \in Nat /\ Word(raised) = raised
  <2>1. raised \in 0 .. AddrMod - 1
    BY <1>1
  <2> QED
    BY <2>1, NoWrapped
<1>3. /\ q \in Int /\ raised % align \in 0 .. align - 1
      /\ raised = align * q + (raised % align)
  BY <1>1, <1>2, Division
<1>4. Aligned(align) = raised - (raised % align)
  BY <1>2 DEF Aligned
<1>5. Aligned(align) = align * q
  BY <1>1, <1>3, <1>4
<1>6. Aligned(align) % align = 0
  BY <1>1, <1>3, <1>5, Multiple
<1>7. Aligned(align) \in ptr .. ptr + align - 1
  BY <1>1, <1>3, <1>4
<1> HIDE DEF raised, q
<1>8. Padding(align) = Aligned(align) - ptr
  <2>1. Aligned(align) - ptr \in 0 .. AddrMod - 1
    BY <1>1, <1>7
  <2> QED
    BY <2>1, NoWrapped DEF Padding
<1>9. vk_arena_used = ptr - Base
  BY <1>1, OffsetNotWrapped DEF vk_arena_used
<1>10. Fits(bytes, align) <=> Aligned(align) + bytes <= Base + Capacity
  <2>1. Padding(align) + bytes \in 0 .. AddrMod - 1
    BY <1>1, <1>7, <1>8
  <2>2. Capacity - vk_arena_used \in 0 .. AddrMod - 1
    BY <1>1, <1>9
  <2>3. Fits(bytes, align) <=>
          Padding(align) + bytes <= Capacity - vk_arena_used
    BY <2>1, <2>2, NoWrapped DEF Fits
  <2> QED
    BY <2>3, <1>1, <1>7, <1>8, <1>9
<1> QED
  BY <1>1, <1>6, <1>7, <1>9, <1>10

LEMMA ArenaStep ==
  ASSUME Modest, ArenaInv, [ArenaNext]_arenaVars
  PROVE  ArenaInv'
<1>0. /\ Base \in Nat /\ Capacity \in Nat /\ AddrMod \in Nat
      /\ Base + Capacity < AddrMod
  BY ArenaAssumption
<1>1. ASSUME NEW bytes \in Sizes, NEW align \in Aligns,
             vk_arena_alloc(bytes, align)
      PROVE  ArenaInv'
  <2> DEFINE start == Aligned(align)
             new == [start |-> start, bytes |-> bytes, align |-> align]
  <2>1. /\ bytes \in Nat /\ start \in Nat /\ ptr <= start
        /\ start % align = 0 /\ start + bytes <= Base + Capacity
    BY <1>0, <1>1, Arithmetic DEF vk_arena_alloc, ArenaInv
  <2>w. Word(start + bytes) = start + bytes
    <3>1. start + bytes \in 0 .. AddrMod - 1
      BY <1>0, <2>1
    <3> QED
      BY <3>1, NoWrapped
  <2>2. /\ ptr' = start + bytes
        /\ tensors' = tensors \cup {new}
        /\ ends' = ends \cup {start + bytes - Base}
        /\ new.start = start /\ new.bytes = bytes /\ new.align = align
    BY <1>1, <2>w DEF vk_arena_alloc
  <2> HIDE DEF start, new
  <2>3. /\ ptr' \in Nat /\ Base <= ptr' /\ ptr' <= Base + Capacity
        /\ ptr \in Nat /\ ptr <= ptr'
    BY <1>0, <2>1, <2>2 DEF ArenaInv
  <2>4. vk_arena_used' = ptr' - Base
    <3>1. Word(ptr' - Base) = ptr' - Base
      BY <2>3, OffsetNotWrapped
    <3>2. vk_arena_used' = Word(ptr' - Base)
      BY DEF vk_arena_used, Word
    <3> QED
      BY <3>1, <3>2
  <2>5. peak' \in ptr' - Base .. Capacity
    <3>1. peak' = IF ptr' - Base > peak THEN ptr' - Base ELSE peak
      BY <1>1, <2>4 DEF vk_arena_alloc
    <3>2. peak \in Nat /\ peak <= Capacity
      BY <1>0 DEF ArenaInv
    <3> QED
      BY <2>3, <3>1, <3>2, Highest
  <2>h. ends' \subseteq Nat /\ PeakIsHighWater'
    <3>1. ends' = ends \cup {ptr' - Base} /\ ptr' - Base \in Nat
      <4>1. ASSUME NEW p \in Nat, NEW q \in Nat, q <= p PROVE p - q \in Nat
        BY <4>1
      <4>2. ptr' - Base \in Nat
        BY <1>0, <2>3, <4>1
      <4>3. ptr' - Base = start + bytes - Base
        BY <1>0, <2>1, <2>2
      <4> QED
        BY <2>2, <4>2, <4>3
    <3>2. peak' = IF ptr' - Base > peak THEN ptr' - Base ELSE peak
      BY <1>1, <2>4 DEF vk_arena_alloc
    <3>3. peak \in Nat
      BY <1>0 DEF ArenaInv
    <3>4. \A e \in ends : e \in Nat /\ e <= peak
      BY DEF ArenaInv, PeakIsHighWater
    <3>5. \A e \in ends' : e \in Nat /\ e <= peak'
      BY <3>1, <3>2, <3>3, <3>4
    <3>6. peak' \in ends' \cup {0}
      BY <3>1, <3>2 DEF ArenaInv, PeakIsHighWater
    <3> QED
      BY <3>5, <3>6 DEF PeakIsHighWater
  <2>6. \A t \in tensors' : t.start \in Nat /\ t.bytes \in Nat
    BY <2>1, <2>2 DEF ArenaInv
  <2>7. \A t \in tensors : t.start + t.bytes <= ptr
    BY DEF ArenaInv, TensorsApart
  <2>8. \A t \in tensors' : /\ t.start % t.align = 0
                            /\ Base <= t.start
                            /\ t.start + t.bytes <= ptr'
    <3>1. ASSUME NEW t \in tensors
          PROVE  /\ t.start % t.align = 0
                 /\ Base <= t.start /\ t.start + t.bytes <= ptr'
      BY <1>0, <2>3, <2>7 DEF ArenaInv, TensorsApart
    <3>2. /\ new.start % new.align = 0
          /\ Base <= new.start /\ new.start + new.bytes <= ptr'
      BY <1>0, <2>1, <2>2 DEF ArenaInv
    <3> QED
      BY <2>2, <3>1, <3>2
  <2>9. \A t \in tensors : Bytes(t) \cap Bytes(new) = {}
    BY <1>0, <2>1, <2>2, <2>7 DEF ArenaInv, Bytes
  <2>10. \A t, u \in tensors' : t # u => Bytes(t) \cap Bytes(u) = {}
    <3>1. \A t, u \in tensors : t # u => Bytes(t) \cap Bytes(u) = {}
      BY DEF ArenaInv, TensorsApart
    <3> QED
      BY <2>2, <2>9, <3>1
  <2>11. TensorsApart'
    BY <2>3, <2>8, <2>10 DEF TensorsApart, Bytes
  <2> QED
    BY <2>3, <2>5, <2>6, <2>h, <2>11 DEF ArenaInv
<1>2. CASE vk_arena_reset
  <2>1. ptr' = Base /\ tensors' = {} /\ peak' = peak /\ ends' = ends
    BY <1>2 DEF vk_arena_reset
  <2> QED
    BY <1>0, <2>1 DEF ArenaInv, TensorsApart, PeakIsHighWater
<1>3. CASE UNCHANGED arenaVars
  BY <1>3 DEF arenaVars, ArenaInv, TensorsApart, PeakIsHighWater
<1> QED
  BY <1>1, <1>2, <1>3 DEF ArenaNext, Refused

LEMMA ArenaInvariant == Modest => (ArenaSpec => []ArenaInv)
<1> SUFFICES ASSUME Modest PROVE ArenaSpec => []ArenaInv
  OBVIOUS
<1>1. ArenaInit => ArenaInv
  BY ArenaAssumption DEF ArenaInit, ArenaInv, TensorsApart, PeakIsHighWater
<1>2. ArenaInv /\ [ArenaNext]_arenaVars => ArenaInv'
  BY ArenaStep
<1> QED
  BY <1>1, <1>2, PTL DEF ArenaSpec

(* Live tensors are aligned, in the buffer, and share no byte.               *)
THEOREM Apart == Modest => (ArenaSpec => []TensorsApart)
<1>1. ArenaInv => TensorsApart
  BY DEF ArenaInv
<1> QED
  BY <1>1, ArenaInvariant, PTL

(* vk_arena_alloc returns NULL only when nothing of the size and alignment   *)
(* fits, and something whenever it does.                                     *)
THEOREM GrantsWhatFits == Modest => (ArenaSpec => []RefusedOnlyWhenFull)
<1> SUFFICES ASSUME Modest PROVE ArenaSpec => []RefusedOnlyWhenFull
  OBVIOUS
<1>1. ASSUME ArenaInv, NEW bytes \in Sizes, NEW align \in Aligns
      PROVE  Fits(bytes, align) <=>
               \E start \in ptr .. Base + Capacity :
                 start % align = 0 /\ start + bytes <= Base + Capacity
  <2>1. /\ bytes \in Nat /\ align \in Nat \ {0} /\ ptr \in Nat
        /\ Base \in Nat /\ Capacity \in Nat
        /\ Aligned(align) \in ptr .. ptr + align - 1
        /\ Aligned(align) % align = 0
        /\ Fits(bytes, align) <=> Aligned(align) + bytes <= Base + Capacity
    BY <1>1, Arithmetic, ArenaAssumption DEF ArenaInv
  <2>2. ASSUME Fits(bytes, align)
        PROVE  \E start \in ptr .. Base + Capacity :
                 start % align = 0 /\ start + bytes <= Base + Capacity
    <3>1. Aligned(align) \in ptr .. Base + Capacity
      BY <2>1, <2>2
    <3> QED
      BY <2>1, <2>2, <3>1
  <2>3. ASSUME NEW start \in ptr .. Base + Capacity,
               start % align = 0, start + bytes <= Base + Capacity
        PROVE  Fits(bytes, align)
    <3>1. start \in Int /\ Aligned(align) \in Int
      BY <2>1
    <3>2. ~ start < Aligned(align)
      <4>1. start < Aligned(align) => start + align <= Aligned(align)
        BY <2>1, <2>3, <3>1, NextMultiple
      <4> QED
        BY <4>1, <3>1, <2>1
    <3> QED
      BY <2>1, <2>3, <3>1, <3>2
  <2> QED
    BY <2>2, <2>3
<1>2. ArenaInv => RefusedOnlyWhenFull
  BY <1>1 DEF RefusedOnlyWhenFull
<1> QED
  BY <1>2, ArenaInvariant, PTL

(* The peak is exactly the furthest that any tensor ever reached, however    *)
(* often the arena has been reset.                                           *)
THEOREM HighWater == Modest => (ArenaSpec => []PeakIsHighWater)
<1>1. ArenaInv => PeakIsHighWater
  BY DEF ArenaInv
<1> QED
  BY <1>1, ArenaInvariant, PTL

===============================================================================
