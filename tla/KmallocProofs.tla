---------------------------- MODULE KmallocProofs ----------------------------
(***************************************************************************)
(* Proofs about Kmalloc, for every capacity, set of requests and number of *)
(* sub-heaps.                                                              *)
(*                                                                         *)
(* The inductive invariant describes a sub-heap by the set F of its free   *)
(* blocks: m_next of a free block is the next member of F.  It says        *)
(* nothing of m_previous, which the code lets go stale; the one place that *)
(* depends on it is remove_from_free_list, where the model's stale tells   *)
(* whether the link was right.                                             *)
(***************************************************************************)
EXTENDS Kmalloc, WellFoundedInduction, TLAPS

-----------------------------------------------------------------------------
(* Numbers.                                                                *)

\* A nonempty set of numbers has a smallest member.
LEMMA Smallest ==
    ASSUME NEW T \in SUBSET Nat, T # {}
    PROVE  \E n \in T : \A m \in T : n <= m
<1> DEFINE R == OpToRel(<, Nat)
<1>1. IsWellFoundedOn(R, Nat)
  BY NatLessThanWellFounded, Zenon
<1>2. \A i, j \in Nat : i < j => <<i, j>> \in R
  BY DEF OpToRel
<1> HIDE DEF R
<1>3. PICK n \in T : \A m \in T : ~ (<<m, n>> \in R)
  BY <1>1, WFMin
<1>4. ASSUME NEW m \in T PROVE n <= m
  <2>1. ~(m < n)
    BY <1>2, <1>3
  <2>2. QED BY <2>1
<1>5. QED BY <1>4

\* A set with 0 and with the successor of each of its numbers has them all.
LEMMA Induct ==
    ASSUME NEW S, 0 \in S, \A n \in Nat : n \in S => n + 1 \in S
    PROVE  \A n \in Nat : n \in S
<1> SUFFICES ASSUME NEW k \in Nat, k \notin S PROVE FALSE
  OBVIOUS
<1> DEFINE T == {n \in Nat : n \notin S}
<1>1. PICK n \in T : \A m \in T : n <= m
  BY Smallest
<1>2. n \in Nat /\ n # 0 /\ n - 1 \in Nat
  OBVIOUS
<1>3. n - 1 \in S
  BY <1>1, <1>2
<1>4. (n - 1) + 1 = n
  BY <1>2
<1>5. QED BY <1>2, <1>3, <1>4

\* The sizes, and how many blocks of four words the storage has room for.
LEMMA Numbers ==
    /\ Capacity \in Nat /\ Capacity > 4 /\ Requests \subseteq Nat \ {0}
    /\ MaxBlocks \in Nat /\ MaxBlocks >= 1
    /\ 4 * MaxBlocks <= Capacity /\ Capacity < 4 * MaxBlocks + 4
BY KmallocAssumption DEF MaxBlocks, FreeWords

-----------------------------------------------------------------------------
(* A sub-heap: m its storage, f the head of its list, F its free blocks, L *)
(* the blocks in use and S the words that are lost.                        *)

Addresses == 0 .. Capacity - 1
Storage == [Addresses -> Int]
Clients == [heap : Nat, addr : Addresses, size : Requests]

\* The first address after a block in use, and after a free one.
After(l) == l.addr + AllocatedWords + BlockRequest(l.size)
End(m, b) == b + m[b + 1]

\* Free blocks hold at least their header, lie in the storage and apart.
Blocks(m, F) ==
    /\ F \subseteq 0 .. Capacity - FreeWords
    /\ \A b \in F : m[b] = FreeCanary /\ m[b + 1] >= FreeWords /\ End(m, b) <= Capacity
    /\ \A b, c \in F : b < c => End(m, b) <= c

\* n is what follows b in F.
Follows(F, b, n) ==
    \/ n = Null /\ \A c \in F : c <= b
    \/ n \in F /\ b < n /\ \A c \in F : c <= b \/ n <= c

\* f is the first of F.
First(F, f) ==
    \/ f = Null /\ F = {}
    \/ f \in F /\ \A c \in F : f <= c

Chain(m, f, F) == First(F, f) /\ \A b \in F : Follows(F, b, m[b + 3])

\* Blocks in use lie in the storage and apart, and hold what was written.
InUse(m, L) ==
    /\ L \subseteq Clients
    /\ \A l \in L :
        /\ After(l) <= Capacity
        /\ m[l.addr] = AllocatedCanary /\ m[l.addr + 1] = BlockRequest(l.size)
        /\ \A a \in l.addr + AllocatedWords .. l.addr + AllocatedWords + l.size - 1 :
               m[a] = Data(l.addr)
    /\ \A l, k \in L : l # k => After(l) <= k.addr \/ After(k) <= l.addr

Separate(m, F, L) == \A l \in L, b \in F : After(l) <= b \/ End(m, b) <= l.addr

\* A word is lost or belongs to a block.
Accounted(m, F, L, S) ==
    \A a \in Addresses :
        a \notin S <=> \/ \E l \in L : l.addr <= a /\ a < After(l)
                       \/ \E b \in F : b <= a /\ a < End(m, b)

Sound(m, f, F, L, S) ==
    /\ m \in Storage /\ Blocks(m, F) /\ Chain(m, f, F)
    /\ InUse(m, L) /\ Separate(m, F, L) /\ Accounted(m, F, L, S)

\* The block does not touch the next one, so there is nothing to coalesce.
Alone(m, b) == m[b + 3] # End(m, b)

\* A request is never below the four words of a FreeBlock.
LEMMA RequestSize ==
    ASSUME NEW n \in Requests
    PROVE  BlockRequest(n) \in Nat /\ BlockRequest(n) >= 4 /\ BlockRequest(n) >= n
BY Numbers DEF BlockRequest, FreeWords

\* The four words of a free block lie in the storage.
LEMMA Header ==
    ASSUME NEW m, NEW F, m \in Storage, Blocks(m, F), NEW b \in F
    PROVE  /\ b \in Nat /\ b + 4 <= Capacity /\ {b, b + 1, b + 2, b + 3} \subseteq Addresses
           /\ m[b + 1] \in Int /\ m[b + 1] >= 4 /\ b + m[b + 1] <= Capacity
           /\ m[b + 2] \in Int /\ m[b + 3] \in Int
<1>1. b \in 0 .. Capacity - 4 /\ m[b + 1] >= 4 /\ b + m[b + 1] <= Capacity
  BY DEF Blocks, End, FreeWords
<1>2. b \in Nat /\ b + 4 <= Capacity /\ {b, b + 1, b + 2, b + 3} \subseteq Addresses
  BY <1>1, Numbers DEF Addresses
<1>3. QED BY <1>1, <1>2 DEF Storage

-----------------------------------------------------------------------------
(* The walk along the list.                                                *)

\* The walk as a function of the number of steps.
IsWalk(g, h, n) == g = [k \in 0 .. n |-> IF k = 0 THEN h.list ELSE Onwards(h, g[k - 1])]

\* The definition in ListAt has a solution.
LEMMA WalkExists ==
    ASSUME NEW h, NEW n \in Nat
    PROVE  \E g : IsWalk(g, h, n)
<1> DEFINE T == {k \in Nat : \E g : IsWalk(g, h, k)}
<1>1. 0 \in T
  <2> DEFINE g == [i \in 0 .. 0 |-> h.list]
  <2>1. g = [i \in 0 .. 0 |-> IF i = 0 THEN h.list ELSE Onwards(h, g[i - 1])]
    OBVIOUS
  <2>2. IsWalk(g, h, 0)
    BY <2>1 DEF IsWalk
  <2>3. QED BY <2>2
<1>2. ASSUME NEW k \in Nat, k \in T PROVE k + 1 \in T
  <2>1. PICK g : IsWalk(g, h, k)
    BY <1>2
  <2> DEFINE e == [i \in 0 .. k + 1 |-> IF i = k + 1 THEN Onwards(h, g[k]) ELSE g[i]]
  <2>2. \A i \in 0 .. k : e[i] = g[i]
    BY <1>2
  <2>3. \A i \in 0 .. k : g[i] = IF i = 0 THEN h.list ELSE Onwards(h, g[i - 1])
    BY <2>1 DEF IsWalk
  <2>4. ASSUME NEW i \in 0 .. k + 1
        PROVE  e[i] = IF i = 0 THEN h.list ELSE Onwards(h, e[i - 1])
    <3>1. CASE i = k + 1
      <4>1. e[i] = Onwards(h, g[k]) /\ i # 0 /\ i - 1 = k /\ k \in 0 .. k
        BY <3>1
      <4> HIDE DEF e
      <4>2. QED BY <2>2, <4>1
    <3>2. CASE i # k + 1
      <4>1. i \in 0 .. k /\ (i # 0 => i - 1 \in 0 .. k)
        BY <3>2
      <4> HIDE DEF e
      <4>2. QED BY <2>2, <2>3, <4>1
    <3>3. QED BY <3>1, <3>2
  <2>5. IsWalk(e, h, k + 1)
    <3>1. e = [i \in 0 .. k + 1 |-> e[i]]
      OBVIOUS
    <3> HIDE DEF e
    <3>2. QED BY <2>4, <3>1 DEF IsWalk
  <2>6. QED BY <2>5
<1> HIDE DEF T
<1>3. n \in T
  BY <1>1, <1>2, Induct
<1>4. QED BY <1>3 DEF T

\* What ListAt computes.
LEMMA Walk ==
    ASSUME NEW h
    PROVE  /\ ListAt(h)[0] = h.list
           /\ \A k \in 1 .. MaxBlocks : ListAt(h)[k] = Onwards(h, ListAt(h)[k - 1])
<1> DEFINE g == CHOOSE g : g = [k \in 0 .. MaxBlocks |-> IF k = 0 THEN h.list ELSE Onwards(h, g[k - 1])]
<1>1. ListAt(h) = g
  BY DEF ListAt
<1>2. g = [k \in 0 .. MaxBlocks |-> IF k = 0 THEN h.list ELSE Onwards(h, g[k - 1])]
  <2>1. \E e : e = [k \in 0 .. MaxBlocks |-> IF k = 0 THEN h.list ELSE Onwards(h, e[k - 1])]
    BY WalkExists, Numbers DEF IsWalk
  <2>2. QED BY <2>1
<1> HIDE DEF g
<1>3. g[0] = h.list
  BY <1>2, Numbers
<1>4. ASSUME NEW k \in 1 .. MaxBlocks PROVE g[k] = Onwards(h, g[k - 1])
  BY <1>2, Numbers
<1>5. QED BY <1>1, <1>3, <1>4

\* After k steps the walk is at a member of F at 4 k or above and has visited
\* the members below it, or it has visited them all.
Reached(at, F, k) ==
    \/ at[k] = Null /\ \A c \in F : \E j \in 0 .. MaxBlocks : at[j] = c
    \/ /\ at[k] \in F /\ at[k] >= 4 * k
       /\ \A c \in F : c < at[k] => \E j \in 0 .. MaxBlocks : at[j] = c

\* The walk from a member of F goes to the member that follows.
LEMMA Onward ==
    ASSUME NEW h, NEW F, h.storage \in Storage, Blocks(h.storage, F), Chain(h.storage, h.list, F),
           NEW x \in F
    PROVE  /\ Onwards(h, x) = h.storage[x + 3]
           /\ \/ Onwards(h, x) = Null /\ \A c \in F : c <= x
              \/ /\ Onwards(h, x) \in F /\ x + 4 <= Onwards(h, x) /\ End(h.storage, x) <= Onwards(h, x)
                 /\ \A c \in F : c < Onwards(h, x) => c <= x
<1> DEFINE n == h.storage[x + 3]
<1>1. x \in Nat /\ x # Null /\ h.storage[x] = FreeCanary
  BY Header DEF Blocks, Null
<1>2. Onwards(h, x) = n
  BY <1>1 DEF Onwards, NextBlock
<1>3. Follows(F, x, n)
  BY DEF Chain
<1> HIDE DEF n
<1>4. CASE n = Null /\ \A c \in F : c <= x
  BY <1>2, <1>4 DEF n
<1>5. CASE n \in F /\ x < n /\ \A c \in F : c <= x \/ n <= c
  <2>1. End(h.storage, x) <= n
    BY <1>5 DEF Blocks
  <2>2. h.storage[x + 1] \in Int /\ h.storage[x + 1] >= 4 /\ n \in Nat
    BY <1>5, Header
  <2>3. x + 4 <= n
    BY <1>1, <2>1, <2>2 DEF End
  <2>4. \A c \in F : c < n => c <= x
    <3>1. ASSUME NEW c \in F PROVE c \in Nat
      BY Header
    <3>2. QED BY <1>5, <2>2, <3>1
  <2>5. QED BY <1>2, <1>5, <2>1, <2>3, <2>4 DEF n
<1>6. QED BY <1>3, <1>4, <1>5 DEF Follows

\* The walk reaches every member of F, and the end of the list.
LEMMA ReachesAll ==
    ASSUME NEW h, NEW F, h.storage \in Storage, Blocks(h.storage, F), Chain(h.storage, h.list, F)
    PROVE  \A k \in 0 .. MaxBlocks : Reached(ListAt(h), F, k)
<1> DEFINE at == ListAt(h)
           T == {k \in Nat : k <= MaxBlocks => Reached(at, F, k)}
<1>1. at[0] = h.list /\ \A k \in 1 .. MaxBlocks : at[k] = Onwards(h, at[k - 1])
  BY Walk
<1> HIDE DEF at
<1>a. \A c \in F : c \in Nat
  BY Header
<1>2. 0 \in T
  <2>1. CASE h.list = Null /\ F = {}
    BY <1>1, <2>1 DEF Reached
  <2>2. CASE h.list \in F /\ \A c \in F : h.list <= c
    <3>1. \A c \in F : ~(c < h.list)
      BY <1>a, <2>2
    <3>2. QED BY <1>1, <1>a, <2>2, <3>1 DEF Reached
  <2>3. QED BY <2>1, <2>2 DEF Chain, First
<1>3. ASSUME NEW k \in Nat, k \in T PROVE k + 1 \in T
  <2> SUFFICES ASSUME k + 1 <= MaxBlocks PROVE Reached(at, F, k + 1)
    OBVIOUS
  <2>1. Reached(at, F, k) /\ k \in 0 .. MaxBlocks /\ at[k + 1] = Onwards(h, at[k])
    <3>1. k + 1 \in 1 .. MaxBlocks /\ (k + 1) - 1 = k /\ k <= MaxBlocks
      BY Numbers
    <3>2. at[k + 1] = Onwards(h, at[k])
      BY <1>1, <3>1
    <3>3. QED BY <1>3, <3>1, <3>2
  <2>2. CASE at[k] = Null
    <3>1. at[k + 1] = Null
      BY <2>1, <2>2 DEF Onwards
    <3>2. Null \notin F
      BY <1>a DEF Null
    <3>3. QED BY <2>1, <2>2, <3>1, <3>2 DEF Reached
  <2>3. CASE at[k] # Null
    <3>1. /\ at[k] \in F /\ at[k] >= 4 * k
          /\ \A c \in F : c < at[k] => \E j \in 0 .. MaxBlocks : at[j] = c
      BY <2>1, <2>3 DEF Reached
    <3> DEFINE x == at[k]
               y == at[k + 1]
    <3>2. \/ y = Null /\ \A c \in F : c <= x
          \/ y \in F /\ x + 4 <= y /\ \A c \in F : c < y => c <= x
      <4>1. y = Onwards(h, x) /\ x \in F
        BY <2>1, <3>1
      <4> HIDE DEF x, y
      <4>2. QED BY <4>1, Onward
    <3>3. \A c \in F : c <= x => \E j \in 0 .. MaxBlocks : at[j] = c
      <4> SUFFICES ASSUME NEW c \in F, c <= x PROVE \E j \in 0 .. MaxBlocks : at[j] = c
        OBVIOUS
      <4>1. CASE c = x
        BY <2>1, <4>1
      <4>2. CASE c # x
        <5>1. c < x
          BY <1>a, <3>1, <4>2
        <5>2. QED BY <3>1, <5>1
      <4>3. QED BY <4>1, <4>2
    <3>4. CASE y = Null
      <4>1. \A c \in F : c <= x
        BY <1>a, <3>2, <3>4 DEF Null
      <4>2. QED BY <3>3, <3>4, <4>1 DEF Reached
    <3>5. CASE y \in F /\ x + 4 <= y /\ \A c \in F : c < y => c <= x
      <4>1. x \in Nat /\ y \in Nat /\ x >= 4 * k
        BY <1>a, <3>1, <3>5
      <4> HIDE DEF x, y
      <4>2. y >= 4 * (k + 1)
        BY <3>5, <4>1
      <4>3. QED BY <3>3, <3>5, <4>2 DEF Reached, y
    <3>6. QED BY <3>2, <3>4, <3>5
  <2>4. QED BY <2>2, <2>3
<1>4. \A k \in Nat : k \in T
  <2> HIDE DEF T
  <2>1. QED BY <1>2, <1>3, Induct
<1>5. \A k \in 0 .. MaxBlocks : Reached(at, F, k)
  BY <1>4, Numbers
<1>6. QED BY <1>5 DEF at

\* FreeBlocks is F, and the walk has ended.
LEMMA ListIs ==
    ASSUME NEW h, NEW F, h.storage \in Storage, Blocks(h.storage, F), Chain(h.storage, h.list, F)
    PROVE  /\ FreeBlocks(h) = F /\ ListAt(h)[MaxBlocks] = Null
           /\ \A k \in 0 .. MaxBlocks : ListAt(h)[k] = Null \/ ListAt(h)[k] \in F
           /\ \A k \in 1 .. MaxBlocks : ListAt(h)[k] # Null =>
                /\ ListAt(h)[k - 1] \in F
                /\ ListAt(h)[k] = h.storage[ListAt(h)[k - 1] + 3]
<1> DEFINE at == ListAt(h)
<1>1. at[0] = h.list /\ \A k \in 1 .. MaxBlocks : at[k] = Onwards(h, at[k - 1])
  BY Walk
<1>2. \A k \in 0 .. MaxBlocks : Reached(at, F, k)
  BY ReachesAll
<1>3. FreeBlocks(h) = {at[k] : k \in 0 .. MaxBlocks} \ {Null}
  BY DEF FreeBlocks
<1> HIDE DEF at
<1>a. \A c \in F : c \in Nat /\ c + 4 <= Capacity
  BY Header
<1>4. at[MaxBlocks] = Null /\ \A c \in F : \E j \in 0 .. MaxBlocks : at[j] = c
  <2>1. Reached(at, F, MaxBlocks)
    BY <1>2, Numbers
  <2>2. ~(at[MaxBlocks] \in F /\ at[MaxBlocks] >= 4 * MaxBlocks)
    BY <1>a, Numbers
  <2>3. QED BY <2>1, <2>2 DEF Reached
<1>5. \A k \in 0 .. MaxBlocks : at[k] = Null \/ at[k] \in F
  BY <1>2 DEF Reached
<1>6. Null \notin F
  BY <1>a DEF Null
<1>7. FreeBlocks(h) = F
  BY <1>3, <1>4, <1>5, <1>6
<1>8. ASSUME NEW k \in 1 .. MaxBlocks, at[k] # Null
      PROVE  at[k - 1] \in F /\ at[k] = h.storage[at[k - 1] + 3]
  <2>1. at[k - 1] # Null
    BY <1>1, <1>8 DEF Onwards
  <2>2. k - 1 \in 0 .. MaxBlocks
    BY Numbers
  <2>3. at[k - 1] \in F
    BY <1>5, <2>1, <2>2
  <2>4. Onwards(h, at[k - 1]) = h.storage[at[k - 1] + 3]
    BY <2>3, Onward
  <2>5. QED BY <1>1, <2>3, <2>4
<1>9. QED BY <1>4, <1>5, <1>7, <1>8 DEF at

\* allocate finds a block that is large enough, or none.
LEMMA FitFound ==
    ASSUME NEW h, NEW F, h.storage \in Storage, Blocks(h.storage, F), Chain(h.storage, h.list, F),
           NEW n
    PROVE  \/ FirstFit(h, n) = Null
           \/ FirstFit(h, n) \in F /\ n <= h.storage[FirstFit(h, n) + 1] - 2
<1> DEFINE at == ListAt(h)
           fits == {k \in 0 .. MaxBlocks :
                    /\ at[k] # Null
                    /\ h.storage[at[k]] = FreeCanary
                    /\ n <= AllocatableSize(h.storage, at[k])}
           i == CHOOSE k \in fits : \A j \in fits : k <= j
<1>1. FirstFit(h, n) = IF fits = {} THEN Null ELSE at[i]
  BY DEF FirstFit
<1>2. \A k \in 0 .. MaxBlocks : at[k] = Null \/ at[k] \in F
  BY ListIs
<1> HIDE DEF at
<1>3. ASSUME fits # {} PROVE i \in fits
  <2>1. fits \in SUBSET Nat
    OBVIOUS
  <2> HIDE DEF fits
  <2>2. \E k \in fits : \A j \in fits : k <= j
    BY <1>3, <2>1, Smallest
  <2>3. QED BY <2>2
<1> HIDE DEF i
<1>4. ASSUME fits # {}
      PROVE  /\ at[i] # Null /\ i \in 0 .. MaxBlocks
             /\ n <= h.storage[at[i] + 1] - 2
  <2>1. i \in fits
    BY <1>3, <1>4
  <2>2. QED BY <2>1 DEF AllocatableSize, BlockSize, AllocatedWords
<1>5. QED BY <1>1, <1>2, <1>4

\* p is the block before b on the list, or Null if b is the head.
Prior(m, f, F, b, p) ==
    \/ p = Null /\ b = f
    \/ p \in F /\ m[p + 3] = b /\ b # f

\* The block that Predecessor names is the one before.
LEMMA PredecessorIs ==
    ASSUME NEW h, NEW F, h.storage \in Storage, Blocks(h.storage, F), Chain(h.storage, h.list, F),
           NEW b \in F
    PROVE  Prior(h.storage, h.list, F, b, Predecessor(h, b))
<1>1. CASE b = h.list
  BY <1>1 DEF Predecessor, Prior
<1>2. CASE b # h.list
  <2> DEFINE at == ListAt(h)
  <2>1. /\ FreeBlocks(h) = F /\ at[0] = h.list
        /\ \A k \in 1 .. MaxBlocks : at[k] # Null =>
                at[k - 1] \in F /\ at[k] = h.storage[at[k - 1] + 3]
    BY ListIs, Walk
  <2>2. FreeBlocks(h) = {at[k] : k \in 0 .. MaxBlocks} \ {Null}
    BY DEF FreeBlocks
  <2> HIDE DEF at
  <2>3. PICK k \in 0 .. MaxBlocks : at[k] = b /\ b # Null
    BY <2>1, <2>2
  <2>4. k \in 1 .. MaxBlocks
    BY <1>2, <2>1, <2>3, Numbers
  <2>5. at[k - 1] \in F /\ h.storage[at[k - 1] + 3] = b
    BY <2>1, <2>3, <2>4
  <2>6. Predecessor(h, b) = CHOOSE p \in F : h.storage[p + 3] = b
    BY <1>2, <2>1 DEF Predecessor, NextBlock
  <2>7. Predecessor(h, b) \in F /\ h.storage[Predecessor(h, b) + 3] = b
    BY <2>5, <2>6
  <2>8. QED BY <1>2, <2>7 DEF Prior
<1>3. QED BY <1>1, <1>2

-----------------------------------------------------------------------------
(* The elementary changes of a sub-heap.  Words on their way from one      *)
(* block to another are counted as lost in between.                        *)

\* The number of a client's words.
LEMMA ClientSize ==
    ASSUME NEW l \in Clients
    PROVE  /\ l.addr \in Nat /\ l.addr < Capacity /\ l.size \in Nat /\ l.size >= 1
           /\ BlockRequest(l.size) \in Nat /\ BlockRequest(l.size) >= l.size
           /\ After(l) = l.addr + 2 + BlockRequest(l.size)
           /\ After(l) \in Nat /\ After(l) >= l.addr + 6
<1>1. l.addr \in Addresses /\ l.size \in Requests
  BY DEF Clients
<1>2. BlockRequest(l.size) \in Nat /\ BlockRequest(l.size) >= 4 /\ BlockRequest(l.size) >= l.size
  <2> DEFINE z == l.size
  <2>1. z \in Requests
    BY <1>1
  <2> HIDE DEF z
  <2>2. BlockRequest(z) \in Nat /\ BlockRequest(z) >= 4 /\ BlockRequest(z) >= z
    BY <2>1, RequestSize
  <2>3. QED BY <2>2, Zenon DEF z
<1>3. After(l) = l.addr + 2 + BlockRequest(l.size)
  BY DEF After, AllocatedWords
<1> DEFINE a == l.addr
           z == l.size
           r == BlockRequest(l.size)
           e == After(l)
<1>4. a \in Addresses /\ z \in Requests /\ r \in Nat /\ r >= 4 /\ r >= z /\ e = a + 2 + r
  BY <1>1, <1>2, <1>3
<1> HIDE DEF a, z, r, e
<1>5. a \in Nat /\ a < Capacity /\ z \in Nat /\ z >= 1 /\ e \in Nat /\ e >= a + 6
  BY <1>4, Numbers DEF Addresses
<1>6. QED BY <1>4, <1>5 DEF a, z, r, e

\* m2 has the same free blocks F, links aside, and the same clients' words.
Agree(m, m2, F, L) ==
    /\ \A x \in F : m2[x] = m[x] /\ m2[x + 1] = m[x + 1]
    /\ \A l \in L : \A a \in l.addr .. After(l) - 1 : m2[a] = m[a]

\* Clients see what they saw.
LEMMA AgreeInUse ==
    ASSUME NEW m, NEW m2, NEW F, NEW L, InUse(m, L), Agree(m, m2, F, L)
    PROVE  InUse(m2, L)
<1>1. L \subseteq Clients
  BY DEF InUse
<1>2. ASSUME NEW l \in L
      PROVE  /\ m2[l.addr] = AllocatedCanary /\ m2[l.addr + 1] = BlockRequest(l.size)
             /\ \A a \in l.addr + AllocatedWords .. l.addr + AllocatedWords + l.size - 1 :
                    m2[a] = Data(l.addr)
  <2>1. /\ l.addr \in Nat /\ l.size \in Nat /\ After(l) \in Nat /\ After(l) >= l.addr + 6
        /\ After(l) >= l.addr + 2 + l.size
    BY <1>1, ClientSize
  <2>2. \A a \in l.addr .. After(l) - 1 : m2[a] = m[a]
    BY DEF Agree
  <2>3. m2[l.addr] = m[l.addr] /\ m2[l.addr + 1] = m[l.addr + 1]
    BY <2>1, <2>2
  <2>4. ASSUME NEW a \in l.addr + AllocatedWords .. l.addr + AllocatedWords + l.size - 1
        PROVE  m2[a] = m[a]
    BY <2>1, <2>2 DEF AllocatedWords
  <2>5. QED BY <2>3, <2>4 DEF InUse
<1>3. QED BY <1>1, <1>2 DEF InUse

\* Some of the free blocks, E, are left, where they were.
LEMMA AgreeBlocks ==
    ASSUME NEW m, NEW m2, NEW F, NEW L, NEW E, NEW K,
           Blocks(m, F), Separate(m, F, L), Agree(m, m2, E, K), E \subseteq F
    PROVE  Blocks(m2, E) /\ Separate(m2, E, L) /\ \A x \in E : End(m2, x) = End(m, x)
<1>1. \A x \in E : x \in F /\ m2[x] = m[x] /\ m2[x + 1] = m[x + 1]
  BY DEF Agree
<1>2. QED BY <1>1 DEF Blocks, Separate, End

\* The block before b is the only one that links to b.
LEMMA OnePrior ==
    ASSUME NEW m \in Storage, NEW f, NEW F, Blocks(m, F), Chain(m, f, F), NEW b \in F, NEW p,
           Prior(m, f, F, b, p)
    PROVE  /\ \A x \in F : m[x + 3] = b => x = p
           /\ p \in F => p < b /\ End(m, p) <= b /\ \A c \in F : c <= p \/ b <= c
           /\ p \notin F => p = Null /\ b = f /\ \A c \in F : b <= c
<1>1. \A x \in F : x \in Nat /\ Follows(F, x, m[x + 3]) /\ x # Null
  BY Header DEF Chain, Null
<1>2. \A x \in F : m[x + 3] = b => x < b /\ \A c \in F : c <= x \/ b <= c
  BY <1>1 DEF Follows
<1>3. CASE p = Null /\ b = f
  <2>1. \A c \in F : b <= c
    BY <1>1, <1>3 DEF Chain, First
  <2>2. \A x \in F : m[x + 3] # b
    BY <1>1, <1>2, <2>1
  <2>3. QED BY <1>1, <1>3, <2>1, <2>2
<1>4. CASE p \in F /\ m[p + 3] = b /\ b # f
  <2>1. \A x \in F : m[x + 3] = b => x = p
    <3> SUFFICES ASSUME NEW x \in F, m[x + 3] = b PROVE x = p
      OBVIOUS
    <3>1. x < b /\ p < b /\ (p <= x \/ b <= p) /\ (x <= p \/ b <= x)
      BY <1>2, <1>4
    <3>2. QED BY <1>1, <1>4, <3>1
  <2>2. p < b /\ \A c \in F : c <= p \/ b <= c
    BY <1>2, <1>4
  <2>3. End(m, p) <= b
    BY <1>4, <2>2 DEF Blocks
  <2>4. QED BY <1>4, <2>1, <2>2, <2>3
<1>5. QED BY <1>3, <1>4 DEF Prior

\* What the links look like without b.
LEMMA UnlinkChain ==
    ASSUME NEW m \in Storage, NEW f, NEW F, Blocks(m, F), Chain(m, f, F), NEW b \in F, NEW p,
           Prior(m, f, F, b, p), NEW m2,
           \A x \in F \ {b} : m2[x + 3] = IF x = p THEN m[b + 3] ELSE m[x + 3]
    PROVE  Chain(m2, IF b = f THEN m[b + 3] ELSE f, F \ {b})
<1> DEFINE n == m[b + 3]
           E == F \ {b}
<1>1. \A x \in F : x \in Nat /\ Follows(F, x, m[x + 3]) /\ x # Null
  BY Header DEF Chain, Null
<1>2. /\ \A x \in F : m[x + 3] = b => x = p
      /\ p \in F => p < b /\ End(m, p) <= b /\ \A c \in F : c <= p \/ b <= c
      /\ p \notin F => p = Null /\ b = f /\ \A c \in F : b <= c
  BY OnePrior
<1>3. \/ n = Null /\ \A c \in F : c <= b
      \/ n \in E /\ b < n /\ \A c \in F : c <= b \/ n <= c
  BY <1>1 DEF Follows
<1>4. \A x \in E : m2[x + 3] = IF x = p THEN n ELSE m[x + 3]
  OBVIOUS
<1> HIDE DEF n
<1>5. First(E, IF b = f THEN n ELSE f)
  <2>1. CASE b = f
    <3>1. \A c \in F : b <= c
      BY <1>1, <2>1 DEF Chain, First
    <3>2. CASE n = Null /\ \A c \in F : c <= b
      <4>1. E = {}
        BY <1>1, <3>1, <3>2
      <4>2. QED BY <2>1, <3>2, <4>1 DEF First
    <3>3. CASE n \in E /\ b < n /\ \A c \in F : c <= b \/ n <= c
      <4>1. \A c \in E : n <= c
        BY <1>1, <3>1, <3>3
      <4>2. QED BY <2>1, <3>3, <4>1 DEF First
    <3>4. QED BY <1>3, <3>2, <3>3
  <2>2. CASE b # f
    BY <2>2 DEF Chain, First
  <2>3. QED BY <2>1, <2>2
<1>6. ASSUME NEW x \in E PROVE Follows(E, x, m2[x + 3])
  <2>1. CASE x = p
    <3>1. m2[x + 3] = n /\ x < b /\ \A c \in F : c <= x \/ b <= c
      BY <1>2, <1>4, <2>1
    <3>2. CASE n = Null /\ \A c \in F : c <= b
      <4>1. \A c \in E : c <= x
        BY <1>1, <3>1, <3>2
      <4>2. QED BY <3>1, <3>2, <4>1 DEF Follows
    <3>3. CASE n \in E /\ b < n /\ \A c \in F : c <= b \/ n <= c
      <4>1. x < n /\ \A c \in E : c <= x \/ n <= c
        BY <1>1, <3>1, <3>3
      <4>2. QED BY <3>1, <3>3, <4>1 DEF Follows
    <3>4. QED BY <1>3, <3>2, <3>3
  <2>2. CASE x # p
    <3>1. m2[x + 3] = m[x + 3] /\ m[x + 3] # b
      BY <1>2, <1>4, <2>2
    <3>2. Follows(F, x, m[x + 3])
      BY <1>1
    <3> DEFINE y == m[x + 3]
    <3> HIDE DEF y
    <3>3. Follows(E, x, y)
      BY <3>1, <3>2 DEF Follows, y
    <3>4. QED BY <3>1, <3>3 DEF y
  <2>3. QED BY <2>1, <2>2
<1>7. QED BY <1>5, <1>6 DEF Chain, n

\* m2 is m with the links around b.
Unlinked(m, m2, F, L, b, p) ==
    /\ m2 \in Storage /\ Agree(m, m2, F \ {b}, L)
    /\ \A x \in F \ {b} : m2[x + 3] = IF x = p THEN m[b + 3] ELSE m[x + 3]

\* Block b leaves the list; its words are on their way.
LEMMA Unlink ==
    ASSUME NEW m, NEW f, NEW F, NEW L, NEW S, Sound(m, f, F, L, S), NEW b \in F, NEW p,
           Prior(m, f, F, b, p), NEW m2, Unlinked(m, m2, F, L, b, p)
    PROVE  Sound(m2, IF b = f THEN m[b + 3] ELSE f, F \ {b}, L, S \cup (b .. End(m, b) - 1))
<1>1. /\ m \in Storage /\ Blocks(m, F) /\ Chain(m, f, F)
      /\ InUse(m, L) /\ Separate(m, F, L) /\ Accounted(m, F, L, S)
  BY DEF Sound
<1> DEFINE E == F \ {b}
           T == S \cup (b .. End(m, b) - 1)
<1>a. /\ m2 \in Storage /\ Agree(m, m2, F \ {b}, L)
      /\ \A x \in F \ {b} : m2[x + 3] = IF x = p THEN m[b + 3] ELSE m[x + 3]
  BY DEF Unlinked
<1> USE <1>a
<1>2. Blocks(m2, E) /\ Separate(m2, E, L) /\ \A x \in E : End(m2, x) = End(m, x)
  <2>1. E \subseteq F
    OBVIOUS
  <2>2. QED BY <1>1, <2>1, AgreeBlocks
<1>3. Chain(m2, IF b = f THEN m[b + 3] ELSE f, E)
  BY <1>1, UnlinkChain
<1>4. InUse(m2, L)
  BY <1>1, AgreeInUse
<1>5. \A x \in F : x \in Nat /\ End(m, x) \in Nat
  <2>1. ASSUME NEW x \in F PROVE x \in Nat /\ m[x + 1] \in Int /\ m[x + 1] >= 4
    BY <1>1, Header
  <2>2. QED BY <2>1 DEF End
<1>6. ASSUME NEW a \in Addresses
      PROVE  a \notin T <=> \/ \E l \in L : l.addr <= a /\ a < After(l)
                            \/ \E x \in E : x <= a /\ a < End(m2, x)
  <2>1. a \in Nat
    BY DEF Addresses
  <2>2. a \notin S <=> \/ \E l \in L : l.addr <= a /\ a < After(l)
                       \/ \E x \in F : x <= a /\ a < End(m, x)
    BY <1>1 DEF Accounted
  <2>3. CASE b <= a /\ a < End(m, b)
    <3>1. a \in T
      BY <1>5, <2>1, <2>3
    <3>2. ASSUME NEW l \in L PROVE ~(l.addr <= a /\ a < After(l))
      <4>1. l \in Clients
        BY <1>1 DEF InUse
      <4>2. l.addr \in Nat /\ After(l) \in Nat
        BY <4>1, ClientSize
      <4>3. After(l) <= b \/ End(m, b) <= l.addr
        BY <1>1 DEF Separate
      <4>4. QED BY <1>5, <2>1, <2>3, <4>2, <4>3
    <3>3. ASSUME NEW x \in E PROVE ~(x <= a /\ a < End(m2, x))
      <4>1. x \in Nat /\ x # b /\ b \in Nat /\ End(m2, x) = End(m, x) /\ End(m, x) \in Nat /\ End(m, b) \in Nat
        BY <1>2, <1>5
      <4>2. (x < b => End(m, x) <= b) /\ (b < x => End(m, b) <= x)
        BY <1>1 DEF Blocks
      <4>3. QED BY <2>1, <2>3, <4>1, <4>2
    <3>4. QED BY <3>1, <3>2, <3>3
  <2>4. CASE ~(b <= a /\ a < End(m, b))
    <3>1. a \in T <=> a \in S
      BY <1>5, <2>1, <2>4
    <3>2. (\E x \in E : x <= a /\ a < End(m2, x)) <=> (\E x \in F : x <= a /\ a < End(m, x))
      BY <1>2, <2>4
    <3>3. QED BY <2>2, <3>1, <3>2
  <2>5. QED BY <2>3, <2>4
<1>7. Accounted(m2, E, L, T)
  <2> HIDE DEF E, T
  <2>1. QED BY <1>6 DEF Accounted
<1>8. QED BY <1>2, <1>3, <1>4, <1>7 DEF Sound

\* c lies between p and n, the free blocks next to it.
Between(F, p, c, n) ==
    /\ \/ p = Null /\ \A x \in F : c < x
       \/ p \in F /\ p < c /\ \A x \in F : x <= p \/ c < x
    /\ Follows(F, c, n)

\* What the links look like with c.
LEMMA LinkChain ==
    ASSUME NEW m \in Storage, NEW f, NEW F, Blocks(m, F), Chain(m, f, F), NEW c \in Nat, c \notin F,
           NEW p, NEW n, Between(F, p, c, n), NEW m2, m2[c + 3] = n,
           \A x \in F : m2[x + 3] = IF x = p THEN c ELSE m[x + 3]
    PROVE  Chain(m2, IF p = Null THEN c ELSE f, F \cup {c})
<1> DEFINE E == F \cup {c}
<1>1. \A x \in F : x \in Nat /\ Follows(F, x, m[x + 3]) /\ x # Null /\ x # c
  BY Header DEF Chain, Null
<1>2. \/ p = Null /\ \A x \in F : c < x
      \/ p \in F /\ p < c /\ \A x \in F : x <= p \/ c < x
  BY DEF Between
<1>3. First(E, IF p = Null THEN c ELSE f)
  <2>1. CASE p = Null /\ \A x \in F : c < x
    <3>1. \A x \in E : c <= x
      BY <1>1, <2>1
    <3>2. QED BY <2>1, <3>1 DEF First
  <2>2. CASE p \in F /\ p < c /\ \A x \in F : x <= p \/ c < x
    <3>1. p # Null /\ f \in F /\ \A x \in F : f <= x
      BY <1>1, <2>2 DEF Chain, First
    <3>2. \A x \in E : f <= x
      <4>1. f <= p /\ p < c /\ f \in Nat /\ p \in Nat
        BY <1>1, <2>2, <3>1
      <4>2. f <= c
        BY <4>1
      <4>3. QED BY <3>1, <4>2
    <3>3. QED BY <3>1, <3>2 DEF First
  <2>3. QED BY <1>2, <2>1, <2>2
<1>4. Follows(E, c, m2[c + 3])
  <2>1. Follows(F, c, n)
    BY DEF Between
  <2>2. QED BY <1>1, <2>1 DEF Follows
<1>5. ASSUME NEW x \in F PROVE Follows(E, x, m2[x + 3])
  <2>1. CASE x = p
    <3>1. m2[x + 3] = c /\ x < c /\ \A y \in F : y <= x \/ c < y
      BY <1>1, <1>2, <2>1
    <3>2. \A y \in E : y <= x \/ c <= y
      BY <1>1, <3>1
    <3>3. QED BY <3>1, <3>2 DEF Follows
  <2>2. CASE x # p
    <3> DEFINE y == m[x + 3]
    <3>1. m2[x + 3] = y /\ Follows(F, x, y)
      BY <1>1, <2>2
    <3> HIDE DEF y
    <3>2. CASE y = Null /\ \A z \in F : z <= x
      <4>1. c <= x
        <5>1. CASE p = Null /\ \A z \in F : c < z
          BY <1>1, <5>1
        <5>2. CASE p \in F /\ p < c /\ \A z \in F : z <= p \/ c < z
          <6>1. p <= x /\ (x <= p \/ c < x) /\ x \in Nat /\ p \in Nat
            BY <1>1, <3>2, <5>2
          <6>2. QED BY <2>2, <6>1
        <5>3. QED BY <1>2, <5>1, <5>2
      <4>2. QED BY <3>1, <3>2, <4>1 DEF Follows
    <3>3. CASE y \in F /\ x < y /\ \A z \in F : z <= x \/ y <= z
      <4>1. c <= x \/ y <= c
        <5>1. CASE p = Null /\ \A z \in F : c < z
          BY <1>1, <5>1
        <5>2. CASE p \in F /\ p < c /\ \A z \in F : z <= p \/ c < z
          <6>1. (p <= x \/ y <= p) /\ (x <= p \/ c < x) /\ x \in Nat /\ y \in Nat /\ p \in Nat
            BY <1>1, <3>3, <5>2
          <6>2. QED BY <2>2, <5>2, <6>1
        <5>3. QED BY <1>2, <5>1, <5>2
      <4>2. QED BY <3>1, <3>3, <4>1 DEF Follows
    <3>4. QED BY <3>1, <3>2, <3>3 DEF Follows
  <2>3. QED BY <2>1, <2>2
<1>6. QED BY <1>3, <1>4, <1>5 DEF Chain

\* The s words at c are lost, and have room for a block.
Room(S, c, s) ==
    c \in Nat /\ s \in Nat /\ s >= 4 /\ c + s <= Capacity /\ c .. c + s - 1 \subseteq S

\* Lost words are no part of any block.
LEMMA LostApart ==
    ASSUME NEW m, NEW f, NEW F, NEW L, NEW S, Sound(m, f, F, L, S),
           NEW c, NEW s, Room(S, c, s)
    PROVE  /\ \A x \in F : x \in Nat /\ End(m, x) \in Nat /\ x < End(m, x) /\ (End(m, x) <= c \/ c + s <= x)
           /\ \A l \in L : After(l) <= c \/ c + s <= l.addr
           /\ c \notin F
<1>1. /\ m \in Storage /\ Blocks(m, F) /\ InUse(m, L) /\ Accounted(m, F, L, S)
  BY DEF Sound
<1>2. c \in Nat /\ s \in Nat /\ s >= 4 /\ c + s <= Capacity /\ c .. c + s - 1 \subseteq S
  BY DEF Room
<1> USE <1>2
<1>3. \A x \in F : x \in Nat /\ End(m, x) \in Nat /\ x < End(m, x)
  <2>1. ASSUME NEW x \in F
        PROVE  x \in Nat /\ m[x + 1] \in Int /\ m[x + 1] >= 4 /\ x + m[x + 1] <= Capacity
    BY <1>1, Header
  <2>2. QED BY <2>1 DEF End
<1>5. \A a \in c .. c + s - 1 : a \in Addresses /\ a \in S
  BY <1>2, Numbers DEF Addresses
<1>6. ASSUME NEW x \in F PROVE End(m, x) <= c \/ c + s <= x
  <2>1. \A a \in c .. c + s - 1 : ~(x <= a /\ a < End(m, x))
    BY <1>1, <1>5 DEF Accounted
  <2>2. ~(x <= c /\ c < End(m, x))
    BY <2>1
  <2>3. CASE c < x /\ x < c + s
    <3>1. x \in c .. c + s - 1
      BY <1>3, <2>3
    <3>2. QED BY <1>3, <2>1, <3>1
  <2>4. QED BY <1>3, <2>2, <2>3
<1>7. ASSUME NEW l \in L PROVE After(l) <= c \/ c + s <= l.addr
  <2>1. l \in Clients
    BY <1>1 DEF InUse
  <2>2. l.addr \in Nat /\ After(l) \in Nat /\ After(l) >= l.addr + 6
    BY <2>1, ClientSize
  <2>3. \A a \in c .. c + s - 1 : ~(l.addr <= a /\ a < After(l))
    BY <1>1, <1>5 DEF Accounted
  <2>4. ~(l.addr <= c /\ c < After(l))
    BY <2>3
  <2>5. CASE c < l.addr /\ l.addr < c + s
    <3>1. l.addr \in c .. c + s - 1
      BY <2>2, <2>5
    <3>2. QED BY <2>2, <2>3, <3>1
  <2>6. QED BY <2>2, <2>4, <2>5
<1>8. c \notin F
  BY <1>3, <1>6
<1>9. QED BY <1>3, <1>6, <1>7, <1>8

\* m2 is m with a block b of s words between p and n.
Placed(m, m2, F, L, p, b, n, s) ==
    /\ m2 \in Storage /\ Agree(m, m2, F, L) /\ Between(F, p, b, n)
    /\ m2[b] = FreeCanary /\ m2[b + 1] = s /\ m2[b + 2] = p /\ m2[b + 3] = n
    /\ \A x \in F : m2[x + 3] = IF x = p THEN b ELSE m[x + 3]

\* s lost words at c become a free block.
LEMMA Link ==
    ASSUME NEW m, NEW f, NEW F, NEW L, NEW S, Sound(m, f, F, L, S),
           NEW c, NEW s, Room(S, c, s), NEW p, NEW n, NEW m2, Placed(m, m2, F, L, p, c, n, s)
    PROVE  /\ c \notin F
           /\ Sound(m2, IF p = Null THEN c ELSE f, F \cup {c}, L, S \ (c .. c + s - 1))
<1>1. /\ m \in Storage /\ Blocks(m, F) /\ Chain(m, f, F)
      /\ InUse(m, L) /\ Separate(m, F, L) /\ Accounted(m, F, L, S)
  BY DEF Sound
<1> DEFINE E == F \cup {c}
           T == S \ (c .. c + s - 1)
<1>a. c \in Nat /\ s \in Nat /\ s >= 4 /\ c + s <= Capacity /\ c .. c + s - 1 \subseteq S
  BY DEF Room
<1>b. /\ m2 \in Storage /\ Agree(m, m2, F, L) /\ Between(F, p, c, n)
      /\ m2[c] = FreeCanary /\ m2[c + 1] = s /\ m2[c + 3] = n
      /\ \A x \in F : m2[x + 3] = IF x = p THEN c ELSE m[x + 3]
  BY DEF Placed
<1> USE <1>a, <1>b
<1>2. Blocks(m2, F) /\ Separate(m2, F, L) /\ \A x \in F : End(m2, x) = End(m, x)
  BY <1>1, AgreeBlocks
<1>3. \A x \in F : x \in Nat /\ End(m, x) \in Nat /\ x < End(m, x) /\ End(m, x) <= Capacity
  <2>1. ASSUME NEW x \in F
        PROVE  x \in Nat /\ m[x + 1] \in Int /\ m[x + 1] >= 4 /\ x + m[x + 1] <= Capacity
    BY <1>1, Header
  <2>2. QED BY <2>1 DEF End
<1>4. End(m2, c) = c + s
  BY DEF End
<1>7. /\ \A x \in F : x \in Nat /\ End(m, x) \in Nat /\ x < End(m, x) /\ (End(m, x) <= c \/ c + s <= x)
      /\ \A l \in L : After(l) <= c \/ c + s <= l.addr
  BY LostApart
<1>6. \A x \in F : End(m, x) <= c \/ c + s <= x
  BY <1>7
<1>8. c \notin F
  BY <1>3, <1>6
<1>9. Blocks(m2, E)
  <2>1. E \subseteq 0 .. Capacity - FreeWords
    BY <1>2, Numbers DEF Blocks, FreeWords
  <2>2. \A b \in E : m2[b] = FreeCanary /\ m2[b + 1] >= FreeWords /\ End(m2, b) <= Capacity
    BY <1>2, <1>4 DEF Blocks, FreeWords
  <2>3. ASSUME NEW b \in E, NEW d \in E, b < d PROVE End(m2, b) <= d
    <3>1. CASE b \in F /\ d \in F
      BY <1>2, <2>3, <3>1 DEF Blocks
    <3>2. CASE b = c /\ d \in F
      <4>1. d < End(m, d) /\ (End(m, d) <= c \/ c + s <= d) /\ d \in Nat /\ End(m, d) \in Nat
        BY <1>3, <1>6, <3>2
      <4>2. QED BY <1>4, <2>3, <3>2, <4>1
    <3>3. CASE b \in F /\ d = c
      <4>1. (End(m, b) <= c \/ c + s <= b) /\ b \in Nat /\ End(m2, b) = End(m, b)
        BY <1>2, <1>3, <1>6, <3>3
      <4>2. QED BY <2>3, <3>3, <4>1
    <3>4. QED BY <2>3, <3>1, <3>2, <3>3
  <2> HIDE DEF E
  <2>4. QED BY <2>1, <2>2, <2>3 DEF Blocks
<1>10. Chain(m2, IF p = Null THEN c ELSE f, E)
  BY <1>1, <1>8, LinkChain
<1>11. InUse(m2, L)
  BY <1>1, AgreeInUse
<1>12. Separate(m2, E, L)
  BY <1>2, <1>4, <1>7 DEF Separate
<1>13. ASSUME NEW a \in Addresses
       PROVE  a \notin T <=> \/ \E l \in L : l.addr <= a /\ a < After(l)
                             \/ \E x \in E : x <= a /\ a < End(m2, x)
  <2>1. a \in Nat
    BY DEF Addresses
  <2>2. a \notin S <=> \/ \E l \in L : l.addr <= a /\ a < After(l)
                       \/ \E x \in F : x <= a /\ a < End(m, x)
    BY <1>1 DEF Accounted
  <2>3. (\E x \in E : x <= a /\ a < End(m2, x))
            <=> (c <= a /\ a < c + s) \/ \E x \in F : x <= a /\ a < End(m, x)
    BY <1>2, <1>4
  <2>4. a \notin T <=> a \notin S \/ (c <= a /\ a < c + s)
    BY <2>1
  <2>5. QED BY <2>2, <2>3, <2>4
<1>14. Accounted(m2, E, L, T)
  <2> HIDE DEF E, T
  <2>1. QED BY <1>13 DEF Accounted
<1>15. QED BY <1>8, <1>9, <1>10, <1>11, <1>12, <1>14 DEF Sound

\* Lost words at l.addr become the block of the client l.
LEMMA Grant ==
    ASSUME NEW m, NEW f, NEW F, NEW L, NEW S, Sound(m, f, F, L, S), NEW l \in Clients,
           After(l) <= Capacity, l.addr .. After(l) - 1 \subseteq S,
           m[l.addr] = AllocatedCanary, m[l.addr + 1] = BlockRequest(l.size),
           \A a \in l.addr + AllocatedWords .. l.addr + AllocatedWords + l.size - 1 : m[a] = Data(l.addr)
    PROVE  Sound(m, f, F, L \cup {l}, S \ (l.addr .. After(l) - 1))
<1>1. /\ m \in Storage /\ Blocks(m, F) /\ Chain(m, f, F)
      /\ InUse(m, L) /\ Separate(m, F, L) /\ Accounted(m, F, L, S)
  BY DEF Sound
<1> DEFINE c == l.addr
           d == After(l)
           K == L \cup {l}
           T == S \ (c .. d - 1)
<1>2. c \in Nat /\ d \in Nat /\ d >= c + 6 /\ d <= Capacity
  BY ClientSize
<1>3. c .. d - 1 \subseteq S
  OBVIOUS
<1>4. ASSUME NEW x \in F PROVE d <= x \/ End(m, x) <= c
  <2>1. x \in Nat /\ m[x + 1] \in Int /\ m[x + 1] >= 4
    BY <1>1, Header
  <2>2. End(m, x) \in Nat /\ x < End(m, x)
    BY <2>1 DEF End
  <2> HIDE DEF c, d
  <2>3. \A a \in c .. d - 1 : ~(x <= a /\ a < End(m, x))
    BY <1>1, <1>2, <1>3, Numbers DEF Accounted, Addresses
  <2>4. ~(x <= c /\ c < End(m, x))
    BY <1>2, <2>3
  <2>5. CASE c < x /\ x < d
    <3>1. x \in c .. d - 1
      BY <1>2, <2>1, <2>5
    <3>2. QED BY <2>2, <2>1, <2>3, <3>1
  <2>6. QED BY <1>2, <2>1, <2>2, <2>4, <2>5
<1>5. ASSUME NEW k \in L PROVE After(k) <= c \/ d <= k.addr
  <2>1. k \in Clients
    BY <1>1 DEF InUse
  <2>2. k.addr \in Nat /\ After(k) \in Nat /\ After(k) >= k.addr + 6
    BY <2>1, ClientSize
  <2> HIDE DEF c, d
  <2>3. \A a \in c .. d - 1 : ~(k.addr <= a /\ a < After(k))
    BY <1>1, <1>2, <1>3, Numbers DEF Accounted, Addresses
  <2>4. ~(k.addr <= c /\ c < After(k))
    BY <1>2, <2>3
  <2>5. CASE c < k.addr /\ k.addr < d
    <3>1. k.addr \in c .. d - 1
      BY <1>2, <2>2, <2>5
    <3>2. QED BY <2>2, <2>3, <3>1
  <2>6. QED BY <1>2, <2>2, <2>4, <2>5
<1>6. InUse(m, K)
  <2>1. K \subseteq Clients
    BY <1>1 DEF InUse
  <2>2. ASSUME NEW k \in K
        PROVE  /\ After(k) <= Capacity
               /\ m[k.addr] = AllocatedCanary /\ m[k.addr + 1] = BlockRequest(k.size)
               /\ \A a \in k.addr + AllocatedWords .. k.addr + AllocatedWords + k.size - 1 :
                      m[a] = Data(k.addr)
    <3>1. CASE k = l
      BY <3>1
    <3>2. CASE k \in L
      BY <1>1, <3>2 DEF InUse
    <3>3. QED BY <3>1, <3>2
  <2>3. ASSUME NEW j \in K, NEW k \in K, j # k PROVE After(j) <= k.addr \/ After(k) <= j.addr
    <3>1. CASE j \in L /\ k \in L
      BY <1>1, <2>3, <3>1 DEF InUse
    <3>2. CASE j = l /\ k \in L
      BY <1>5, <3>2
    <3>3. CASE j \in L /\ k = l
      BY <1>5, <3>3
    <3>4. QED BY <2>3, <3>1, <3>2, <3>3
  <2> HIDE DEF K
  <2>4. QED BY <2>1, <2>2, <2>3 DEF InUse
<1>7. Separate(m, F, K)
  BY <1>1, <1>4 DEF Separate
<1>8. ASSUME NEW a \in Addresses
      PROVE  a \notin T <=> \/ \E k \in K : k.addr <= a /\ a < After(k)
                            \/ \E x \in F : x <= a /\ a < End(m, x)
  <2>1. a \in Nat
    BY DEF Addresses
  <2>2. a \notin S <=> \/ \E k \in L : k.addr <= a /\ a < After(k)
                       \/ \E x \in F : x <= a /\ a < End(m, x)
    BY <1>1 DEF Accounted
  <2>3. (\E k \in K : k.addr <= a /\ a < After(k))
            <=> (c <= a /\ a < d) \/ \E k \in L : k.addr <= a /\ a < After(k)
    OBVIOUS
  <2> HIDE DEF c, d
  <2>4. a \notin T <=> a \notin S \/ (c <= a /\ a < d)
    BY <1>2, <2>1
  <2>5. QED BY <2>2, <2>3, <2>4
<1>9. Accounted(m, F, K, T)
  <2> HIDE DEF K, T
  <2>1. QED BY <1>8 DEF Accounted
<1>10. QED BY <1>1, <1>6, <1>7, <1>9 DEF Sound

\* The block of a client is given up; its words are on their way.
LEMMA Revoke ==
    ASSUME NEW m, NEW f, NEW F, NEW L, NEW S, Sound(m, f, F, L, S), NEW l \in L
    PROVE  Sound(m, f, F, L \ {l}, S \cup (l.addr .. After(l) - 1))
<1>1. /\ m \in Storage /\ Blocks(m, F) /\ Chain(m, f, F)
      /\ InUse(m, L) /\ Separate(m, F, L) /\ Accounted(m, F, L, S)
  BY DEF Sound
<1> DEFINE c == l.addr
           d == After(l)
           K == L \ {l}
           T == S \cup (c .. d - 1)
<1>2. L \subseteq Clients
  BY <1>1 DEF InUse
<1>3. c \in Nat /\ d \in Nat
  BY <1>2, ClientSize
<1>4. InUse(m, K) /\ Separate(m, F, K)
  BY <1>1 DEF InUse, Separate
<1>5. ASSUME NEW a \in Addresses
      PROVE  a \notin T <=> \/ \E k \in K : k.addr <= a /\ a < After(k)
                            \/ \E x \in F : x <= a /\ a < End(m, x)
  <2>1. a \in Nat
    BY DEF Addresses
  <2>2. a \notin S <=> \/ \E k \in L : k.addr <= a /\ a < After(k)
                       \/ \E x \in F : x <= a /\ a < End(m, x)
    BY <1>1 DEF Accounted
  <2>3. (\E k \in L : k.addr <= a /\ a < After(k))
            <=> (c <= a /\ a < d) \/ \E k \in K : k.addr <= a /\ a < After(k)
    OBVIOUS
  <2>4. ASSUME c <= a, a < d, NEW k \in K PROVE ~(k.addr <= a /\ a < After(k))
    <3>1. After(k) <= c \/ d <= k.addr
      BY <1>1 DEF InUse
    <3>2. k.addr \in Nat /\ After(k) \in Nat
      BY <1>2, ClientSize
    <3> HIDE DEF c, d
    <3>3. QED BY <1>3, <2>1, <2>4, <3>1, <3>2
  <2>5. ASSUME c <= a, a < d, NEW x \in F PROVE ~(x <= a /\ a < End(m, x))
    <3>1. d <= x \/ End(m, x) <= c
      BY <1>1 DEF Separate
    <3>2. x \in Nat /\ m[x + 1] \in Int
      BY <1>1, Header
    <3>3. End(m, x) \in Int
      BY <3>2 DEF End
    <3> HIDE DEF c, d
    <3>4. QED BY <1>3, <2>1, <2>5, <3>1, <3>2, <3>3
  <2> HIDE DEF c, d
  <2>6. a \notin T <=> a \notin S /\ ~(c <= a /\ a < d)
    BY <1>3, <2>1
  <2>7. QED BY <2>2, <2>3, <2>4, <2>5, <2>6
<1>6. Accounted(m, F, K, T)
  <2> HIDE DEF K, T
  <2>1. QED BY <1>5 DEF Accounted
<1>7. QED BY <1>1, <1>4, <1>6 DEF Sound

\* Block b grows by s lost words behind it.
LEMMA Extend ==
    ASSUME NEW m, NEW f, NEW F, NEW L, NEW S, Sound(m, f, F, L, S), NEW b \in F, NEW s \in Nat,
           End(m, b) + s <= Capacity, End(m, b) .. End(m, b) + s - 1 \subseteq S,
           NEW m2 \in Storage, Agree(m, m2, F \ {b}, L),
           m2[b] = m[b], m2[b + 1] = m[b + 1] + s, \A x \in F : m2[x + 3] = m[x + 3]
    PROVE  Sound(m2, f, F, L, S \ (End(m, b) .. End(m, b) + s - 1))
<1>1. /\ m \in Storage /\ Blocks(m, F) /\ Chain(m, f, F)
      /\ InUse(m, L) /\ Separate(m, F, L) /\ Accounted(m, F, L, S)
  BY DEF Sound
<1> DEFINE e == End(m, b)
           T == S \ (e .. e + s - 1)
<1>2. \A x \in F : x \in Nat /\ End(m, x) \in Nat /\ x + 4 <= End(m, x) /\ m[x + 1] \in Int
  <2>1. ASSUME NEW x \in F
        PROVE  x \in Nat /\ m[x + 1] \in Int /\ m[x + 1] >= 4 /\ x + m[x + 1] <= Capacity
    BY <1>1, Header
  <2>2. QED BY <2>1 DEF End
<1>3. e \in Nat /\ e + s <= Capacity /\ e .. e + s - 1 \subseteq S
  BY <1>2
<1>4. End(m2, b) = e + s /\ \A x \in F \ {b} : End(m2, x) = End(m, x)
  <2>1. End(m2, b) = e + s
    <3>1. b \in Nat /\ m[b + 1] \in Int
      BY <1>2
    <3>2. QED BY <3>1 DEF End
  <2>2. QED BY <2>1 DEF Agree, End
<1> HIDE DEF e
<1>5. \A a \in e .. e + s - 1 : a \in Addresses /\ a \in S
  BY <1>3, Numbers DEF Addresses
<1>6. ASSUME NEW x \in F PROVE End(m, x) <= e \/ e + s <= x
  <2>1. \A a \in e .. e + s - 1 : ~(x <= a /\ a < End(m, x))
    BY <1>1, <1>5 DEF Accounted
  <2>2. CASE s = 0
    <3>1. (x < b => End(m, x) <= b) /\ (b < x => e <= x)
      BY <1>1 DEF Blocks, e
    <3>2. CASE x = b
      BY <1>3, <3>2 DEF e
    <3>3. CASE x # b
      <4>1. x \in Nat /\ b \in Nat /\ End(m, x) \in Nat /\ b + 4 <= e
        BY <1>2 DEF e
      <4>2. QED BY <1>3, <2>2, <3>1, <3>3, <4>1
    <3>4. QED BY <3>2, <3>3
  <2>3. CASE s # 0
    <3>1. e \in e .. e + s - 1
      BY <1>3, <2>3
    <3>2. ~(x <= e /\ e < End(m, x))
      BY <2>1, <3>1
    <3>3. CASE e < x /\ x < e + s
      <4>1. x \in e .. e + s - 1
        BY <1>2, <1>3, <3>3
      <4>2. ~(x <= x /\ x < End(m, x))
        BY <2>1, <4>1
      <4>3. x \in Nat /\ End(m, x) \in Nat /\ x + 4 <= End(m, x)
        BY <1>2
      <4>4. QED BY <4>2, <4>3
    <3>4. x \in Nat /\ End(m, x) \in Nat
      BY <1>2
    <3>5. QED BY <1>3, <3>2, <3>3, <3>4
  <2>4. QED BY <2>2, <2>3
<1>7. ASSUME NEW l \in L PROVE After(l) <= b \/ e + s <= l.addr
  <2>1. l \in Clients
    BY <1>1 DEF InUse
  <2>2. l.addr \in Nat /\ After(l) \in Nat /\ After(l) >= l.addr + 6
    BY <2>1, ClientSize
  <2>3. \A a \in e .. e + s - 1 : ~(l.addr <= a /\ a < After(l))
    BY <1>1, <1>5 DEF Accounted
  <2>4. After(l) <= b \/ e <= l.addr
    BY <1>1 DEF Separate, e
  <2>5. CASE e <= l.addr /\ l.addr < e + s
    <3>1. l.addr \in e .. e + s - 1
      BY <1>3, <2>2, <2>5
    <3>2. QED BY <2>2, <2>3, <3>1
  <2>6. QED BY <1>3, <2>2, <2>4, <2>5
<1>8. Blocks(m2, F)
  <2>1. F \subseteq 0 .. Capacity - FreeWords
    BY <1>1 DEF Blocks
  <2>2. ASSUME NEW x \in F
        PROVE  m2[x] = FreeCanary /\ m2[x + 1] >= FreeWords /\ End(m2, x) <= Capacity
    <3>1. m[x] = FreeCanary /\ m[x + 1] >= 4 /\ End(m, x) <= Capacity /\ m[x + 1] \in Int
      BY <1>1, <1>2 DEF Blocks, FreeWords
    <3>2. CASE x = b
      <4>1. m2[x] = FreeCanary /\ End(m2, x) <= Capacity
        BY <1>3, <1>4, <3>1, <3>2
      <4>2. m2[x + 1] >= 4
        BY <3>1, <3>2
      <4>3. QED BY <4>1, <4>2 DEF FreeWords
    <3>3. CASE x # b
      BY <1>4, <3>1, <3>3 DEF Agree, FreeWords
    <3>4. QED BY <3>2, <3>3
  <2>3. ASSUME NEW x \in F, NEW y \in F, x < y PROVE End(m2, x) <= y
    <3>1. End(m, x) <= y
      BY <1>1, <2>3 DEF Blocks
    <3>2. CASE x = b
      <4>1. (End(m, y) <= e \/ e + s <= y) /\ y \in Nat /\ End(m, y) \in Nat /\ y + 4 <= End(m, y)
        BY <1>2, <1>6
      <4>2. e <= y
        BY <3>1, <3>2 DEF e
      <4>3. QED BY <1>3, <1>4, <3>2, <4>1, <4>2
    <3>3. CASE x # b
      BY <1>4, <3>1, <3>3
    <3>4. QED BY <3>2, <3>3
  <2>4. QED BY <2>1, <2>2, <2>3 DEF Blocks
<1>9. Chain(m2, f, F)
  BY <1>1 DEF Chain
<1>10. InUse(m2, L)
  BY <1>1, AgreeInUse
<1>11. Separate(m2, F, L)
  <2> SUFFICES ASSUME NEW l \in L, NEW x \in F PROVE After(l) <= x \/ End(m2, x) <= l.addr
    BY DEF Separate
  <2>1. CASE x = b
    BY <1>4, <1>7, <2>1
  <2>2. CASE x # b
    BY <1>1, <1>4, <2>2 DEF Separate
  <2>3. QED BY <2>1, <2>2
<1>12. ASSUME NEW a \in Addresses
       PROVE  a \notin T <=> \/ \E l \in L : l.addr <= a /\ a < After(l)
                             \/ \E x \in F : x <= a /\ a < End(m2, x)
  <2>1. a \in Nat
    BY DEF Addresses
  <2>2. a \notin S <=> \/ \E l \in L : l.addr <= a /\ a < After(l)
                       \/ \E x \in F : x <= a /\ a < End(m, x)
    BY <1>1 DEF Accounted
  <2>3. (\E x \in F : x <= a /\ a < End(m2, x))
            <=> (b <= a /\ a < e + s) \/ \E x \in F \ {b} : x <= a /\ a < End(m, x)
    BY <1>4
  <2>4. (\E x \in F : x <= a /\ a < End(m, x))
            <=> (b <= a /\ a < e) \/ \E x \in F \ {b} : x <= a /\ a < End(m, x)
    BY DEF e
  <2>5. a \notin T <=> a \notin S \/ (e <= a /\ a < e + s)
    BY <1>3, <2>1
  <2>6. b \in Nat /\ b + 4 <= e
    BY <1>2 DEF e
  <2>7. (b <= a /\ a < e + s) <=> (b <= a /\ a < e) \/ (e <= a /\ a < e + s)
    BY <1>3, <2>1, <2>6
  <2>8. QED BY <2>2, <2>3, <2>4, <2>5, <2>7
<1>13. Accounted(m2, F, L, T)
  <2> HIDE DEF T
  <2>1. QED BY <1>12 DEF Accounted
<1>14. QED BY <1>8, <1>9, <1>10, <1>11, <1>13 DEF Sound, e

\* Two free blocks are at least a header apart, and so are a free block and
\* the words of a client.
LEMMA HeadersApart ==
    ASSUME NEW m, NEW f, NEW F, NEW L, NEW S, Sound(m, f, F, L, S)
    PROVE  /\ \A x, y \in F : x # y => x + 4 <= y \/ y + 4 <= x
           /\ \A x \in F, l \in L : \A a \in l.addr .. After(l) - 1 :
                a \in Addresses /\ (a < x \/ x + 4 <= a)
<1>1. /\ m \in Storage /\ Blocks(m, F) /\ InUse(m, L) /\ Separate(m, F, L)
  BY DEF Sound
<1>2. \A x \in F : x \in Nat /\ End(m, x) \in Nat /\ x + 4 <= End(m, x)
  <2>1. ASSUME NEW x \in F
        PROVE  x \in Nat /\ m[x + 1] \in Int /\ m[x + 1] >= 4 /\ x + m[x + 1] <= Capacity
    BY <1>1, Header
  <2>2. QED BY <2>1 DEF End
<1>3. ASSUME NEW x \in F, NEW y \in F, x # y PROVE x + 4 <= y \/ y + 4 <= x
  <2>1. (x < y => End(m, x) <= y) /\ (y < x => End(m, y) <= x)
    BY <1>1 DEF Blocks
  <2>2. /\ x \in Nat /\ y \in Nat /\ End(m, x) \in Nat /\ End(m, y) \in Nat
        /\ x + 4 <= End(m, x) /\ y + 4 <= End(m, y)
    BY <1>2
  <2>3. QED BY <1>3, <2>1, <2>2
<1>4. ASSUME NEW x \in F, NEW l \in L, NEW a \in l.addr .. After(l) - 1
      PROVE  a \in Addresses /\ (a < x \/ x + 4 <= a)
  <2>1. l \in Clients /\ After(l) <= Capacity
    BY <1>1 DEF InUse
  <2>2. l.addr \in Nat /\ After(l) \in Nat
    BY <2>1, ClientSize
  <2>3. After(l) <= x \/ End(m, x) <= l.addr
    BY <1>1 DEF Separate
  <2>4. x \in Nat /\ End(m, x) \in Nat /\ x + 4 <= End(m, x)
    BY <1>2
  <2>5. QED BY <2>1, <2>2, <2>3, <2>4, Numbers DEF Addresses
<1>5. QED BY <1>3, <1>4

-----------------------------------------------------------------------------
(* coalesce_with_next_block.                                               *)

\* The words that coalesce_with_next_block writes when the blocks touch.
LEMMA JoinWrites ==
    ASSUME NEW m \in Storage, NEW b \in Nat, b + 4 <= Capacity, NEW n, n = m[b + 3], n # Null,
           n = b + m[b + 1], NEW s \in Int, s = m[n + 1], NEW q \in Int, q = m[n + 3],
           q # Null => q \in Nat /\ q >= b + 4 /\ q + 4 <= Capacity
    PROVE  /\ CoalesceWithNext(m, b) \in Storage
           /\ \A a \in Addresses : CoalesceWithNext(m, b)[a] =
                IF a = b + 1 THEN m[b + 1] + s
                ELSE IF a = b + 3 THEN q
                ELSE IF q # Null /\ a = q + 2 THEN b ELSE m[a]
<1>1. b + 1 \in Addresses /\ b + 3 \in Addresses /\ m[b + 1] \in Int /\ m[b + 1] + s \in Int
  <2>1. b + 1 \in Addresses /\ b + 3 \in Addresses
    BY Numbers DEF Addresses
  <2>2. QED BY <2>1 DEF Storage
<1> DEFINE j == [m EXCEPT ![b + 1] = m[b + 1] + s, ![b + 3] = q]
<1>2. /\ j \in Storage
      /\ \A a \in Addresses : j[a] = IF a = b + 1 THEN m[b + 1] + s ELSE IF a = b + 3 THEN q ELSE m[a]
  BY <1>1 DEF Storage
<1>3. CoalesceWithNext(m, b) = IF q = Null THEN j ELSE [j EXCEPT ![q + 2] = b]
  BY DEF CoalesceWithNext, CanCoalesceNext, NextBlock, BlockSize
<1> HIDE DEF j
<1>4. CASE q = Null
  BY <1>2, <1>3, <1>4
<1>5. CASE q # Null
  <2>1. q + 2 \in Addresses /\ q + 2 # b + 1 /\ q + 2 # b + 3
    BY <1>5, Numbers DEF Addresses
  <2>2. CoalesceWithNext(m, b) = [j EXCEPT ![q + 2] = b]
    BY <1>3, <1>5
  <2>3. QED BY <1>2, <1>5, <2>1, <2>2 DEF Storage
<1>6. QED BY <1>4, <1>5

\* Nothing happens to a block that does not touch the next one.
LEMMA JoinNot ==
    ASSUME NEW m, NEW b, Alone(m, b)
    PROVE  CoalesceWithNext(m, b) = m
BY DEF CoalesceWithNext, CanCoalesceNext, Alone, End, NextBlock, BlockSize

\* Two blocks that touch become one.
Joined(m, m2, F, b, n) ==
    /\ End(m2, b) = End(m, n) /\ m2[b + 3] = m[n + 3] /\ m2[b + 2] = m[b + 2]
    /\ \A x \in F : x # n /\ x # b => End(m2, x) = End(m, x) /\ m2[x + 3] = m[x + 3]

LEMMA Join ==
    ASSUME NEW m, NEW f, NEW F, NEW L, NEW S, Sound(m, f, F, L, S), NEW b \in F, ~Alone(m, b)
    PROVE  /\ m[b + 3] \in F /\ m[b + 3] # b
           /\ Sound(CoalesceWithNext(m, b), f, F \ {m[b + 3]}, L, S)
           /\ Joined(m, CoalesceWithNext(m, b), F, b, m[b + 3])
<1>1. /\ m \in Storage /\ Blocks(m, F) /\ Chain(m, f, F) /\ Accounted(m, F, L, S)
  BY DEF Sound
<1> DEFINE n == m[b + 3]
           s == m[n + 1]
           q == m[n + 3]
           m2 == CoalesceWithNext(m, b)
           mA == [m EXCEPT ![b + 3] = q]
           T == S \cup (n .. End(m, n) - 1)
<1>2. \A x \in F : /\ x \in Nat /\ x + 4 <= Capacity /\ x + 3 \in Addresses /\ x # Null
                   /\ m[x + 1] \in Int /\ m[x + 1] >= 4 /\ m[x + 3] \in Int /\ x + m[x + 1] <= Capacity
  <2>1. ASSUME NEW x \in F
        PROVE /\ x \in Nat /\ x + 4 <= Capacity /\ x + 3 \in Addresses
              /\ m[x + 1] \in Int /\ m[x + 1] >= 4 /\ m[x + 3] \in Int /\ x + m[x + 1] <= Capacity
    BY <1>1, Header
  <2>2. QED BY <2>1 DEF Null
<1>3. n = b + m[b + 1] /\ n # Null
  <2>1. n = b + m[b + 1]
    BY DEF Alone, End
  <2>2. QED BY <1>2, <2>1 DEF Null
<1>4. n \in F /\ b < n
  BY <1>1, <1>3 DEF Chain, Follows
<1>5. q = Null \/ (q \in F /\ n < q)
  BY <1>1, <1>4 DEF Chain, Follows
<1> HIDE DEF n
<1>6. s \in Int /\ s >= 4 /\ q \in Int /\ n + s <= Capacity /\ n = m[b + 3]
  BY <1>2, <1>4 DEF n
<1> HIDE DEF s, q
<1>7. \A x, y \in F : x # y => x + 4 <= y \/ y + 4 <= x
  BY HeadersApart
<1>8. \A x \in F, l \in L : \A a \in l.addr .. After(l) - 1 : a \in Addresses /\ (a < x \/ x + 4 <= a)
  BY HeadersApart
<1>9. /\ m2 \in Storage
      /\ \A a \in Addresses : m2[a] =
            IF a = b + 1 THEN m[b + 1] + s
            ELSE IF a = b + 3 THEN q
            ELSE IF q # Null /\ a = q + 2 THEN b ELSE m[a]
  <2>1. q # Null => q \in Nat /\ q >= b + 4 /\ q + 4 <= Capacity
    <3>1. CASE q \in F /\ n < q
      <4>1. b # q /\ q \in Nat /\ b \in Nat /\ n \in Nat /\ q + 4 <= Capacity
        BY <1>2, <1>4, <3>1
      <4>2. b + 4 <= q \/ q + 4 <= b
        BY <1>7, <3>1, <4>1
      <4>3. QED BY <1>4, <3>1, <4>1, <4>2
    <3>2. QED BY <1>5, <3>1
  <2>2. s = m[n + 1] /\ q = m[n + 3]
    BY DEF s, q
  <2>3. b \in Nat /\ b + 4 <= Capacity
    BY <1>2
  <2>4. QED BY <1>1, <1>3, <1>6, <2>1, <2>2, <2>3, JoinWrites
<1>10. /\ mA \in Storage
       /\ \A a \in Addresses : mA[a] = IF a = b + 3 THEN q ELSE m[a]
  BY <1>1, <1>2, <1>6 DEF Storage
<1> HIDE DEF m2, mA
<1>11. ASSUME NEW x \in F, x # b, NEW a \in Addresses, x <= a, a < x + 4
       PROVE  mA[a] = m[a] /\ (a # x + 2 => m2[a] = m[a])
  <2>1. x \in Nat /\ b \in Nat /\ a \in Nat /\ (q \in F => q \in Nat)
    BY <1>2 DEF Addresses
  <2>2. x + 4 <= b \/ b + 4 <= x
    BY <1>7, <1>11
  <2>3. (q \in F /\ x # q) => x + 4 <= q \/ q + 4 <= x
    BY <1>7
  <2>4. mA[a] = m[a]
    BY <1>10, <1>11, <2>1, <2>2
  <2>5. a # x + 2 => m2[a] = m[a]
    BY <1>5, <1>9, <1>11, <2>1, <2>2, <2>3
  <2>6. QED BY <2>4, <2>5
<1>12. \A x \in F : x # b => /\ mA[x] = m[x] /\ mA[x + 1] = m[x + 1] /\ mA[x + 3] = m[x + 3]
                             /\ m2[x] = m[x] /\ m2[x + 1] = m[x + 1] /\ m2[x + 3] = m[x + 3]
  <2> SUFFICES ASSUME NEW x \in F, x # b
               PROVE  /\ mA[x] = m[x] /\ mA[x + 1] = m[x + 1] /\ mA[x + 3] = m[x + 3]
                      /\ m2[x] = m[x] /\ m2[x + 1] = m[x + 1] /\ m2[x + 3] = m[x + 3]
    OBVIOUS
  <2>1. x \in Nat /\ {x, x + 1, x + 3} \subseteq Addresses
    BY <1>2, Numbers DEF Addresses
  <2>2. mA[x] = m[x] /\ m2[x] = m[x]
    BY <1>11, <2>1
  <2>3. mA[x + 1] = m[x + 1] /\ m2[x + 1] = m[x + 1]
    BY <1>11, <2>1
  <2>4. mA[x + 3] = m[x + 3] /\ m2[x + 3] = m[x + 3]
    BY <1>11, <2>1
  <2>5. QED BY <2>2, <2>3, <2>4
<1>13. /\ mA[b] = m[b] /\ mA[b + 1] = m[b + 1] /\ mA[b + 3] = q
       /\ m2[b] = m[b] /\ m2[b + 1] = m[b + 1] + s /\ m2[b + 3] = q /\ m2[b + 2] = m[b + 2]
  <2>1. {b, b + 1, b + 2, b + 3} \subseteq Addresses /\ b \in Nat
    BY <1>2, Numbers DEF Addresses
  <2>2. q # Null => q \in Nat /\ (b + 4 <= q \/ q + 4 <= b)
    BY <1>2, <1>4, <1>5, <1>7
  <2>3. QED BY <1>9, <1>10, <2>1, <2>2
<1>14. ASSUME NEW l \in L, NEW a \in l.addr .. After(l) - 1 PROVE mA[a] = m[a] /\ m2[a] = m[a]
  <2>1. a \in Addresses /\ (a < b \/ b + 4 <= a) /\ (q \in F => a < q \/ q + 4 <= a)
    BY <1>8
  <2>2. a \in Nat /\ b \in Nat /\ (q \in F => q \in Nat)
    BY <1>2, <2>1 DEF Addresses
  <2>3. QED BY <1>5, <1>9, <1>10, <2>1, <2>2
<1>15. Sound(mA, f, F \ {n}, L, T)
  <2>1. Agree(m, mA, F \ {n}, L)
    BY <1>12, <1>13, <1>14 DEF Agree
  <2>2. n # f
    <3>1. f <= b /\ f \in F
      BY <1>1 DEF Chain, First
    <3>2. f \in Nat /\ b \in Nat /\ n \in Nat
      BY <1>2, <1>4, <3>1
    <3>3. QED BY <1>4, <3>1, <3>2
  <2>3. Prior(m, f, F, n, b)
    BY <2>2 DEF Prior, n
  <2>4. \A x \in F \ {n} : mA[x + 3] = IF x = b THEN m[n + 3] ELSE m[x + 3]
    BY <1>12, <1>13 DEF q
  <2>5. (IF n = f THEN m[n + 3] ELSE f) = f
    BY <2>2
  <2>6. Sound(mA, IF n = f THEN m[n + 3] ELSE f, F \ {n}, L, S \cup (n .. End(m, n) - 1))
    <3>1. Unlinked(m, mA, F, L, n, b)
      BY <1>10, <2>1, <2>4 DEF Unlinked
    <3>2. QED BY <1>4, <2>3, <3>1, Unlink
  <2>7. QED BY <2>5, <2>6
<1>16. End(m, n) = n + s /\ n \in Nat /\ End(m, b) = n /\ End(mA, b) = n
  <2>1. End(m, b) = n /\ End(mA, b) = n
    BY <1>3, <1>13 DEF End
  <2>2. QED BY <1>2, <1>4, <2>1 DEF End, s
<1>a. T = S \cup (n .. n + s - 1)
  <2> DEFINE e == End(m, n)
  <2>1. e = n + s
    BY <1>16
  <2>2. T = S \cup (n .. e - 1)
    OBVIOUS
  <2> HIDE DEF e, T
  <2>3. e - 1 = n + s - 1
    BY <1>6, <1>16, <2>1
  <2>4. QED BY <2>2, <2>3
<1>17. T \ (n .. n + s - 1) = S
  <2>1. ASSUME NEW a \in n .. n + s - 1 PROVE a \notin S
    <3>1. a \in Addresses /\ n <= a /\ a < End(m, n)
      BY <1>6, <1>16, Numbers DEF Addresses
    <3>2. QED BY <1>1, <1>4, <3>1 DEF Accounted
  <2> DEFINE R == n .. n + s - 1
  <2>2. T = S \cup R
    BY <1>a
  <2> HIDE DEF T, R
  <2>3. \A a \in R : a \notin S
    BY <2>1 DEF R
  <2>4. T \ R = S
    BY <2>2, <2>3
  <2>5. QED BY <2>4 DEF R
<1>18. Sound(m2, f, F \ {n}, L, T \ (n .. n + s - 1))
  <2>1. Agree(mA, m2, (F \ {n}) \ {b}, L)
    BY <1>12, <1>14 DEF Agree
  <2>2. m2[b] = mA[b] /\ m2[b + 1] = mA[b + 1] + s /\ \A x \in F \ {n} : m2[x + 3] = mA[x + 3]
    BY <1>12, <1>13
  <2>3. n .. n + s - 1 \subseteq T
    BY <1>a
  <2>4. b \in F \ {n} /\ s \in Nat /\ n + s <= Capacity
    BY <1>2, <1>4, <1>6
  <2> HIDE DEF T
  <2>5. End(mA, b) + s <= Capacity /\ End(mA, b) .. End(mA, b) + s - 1 \subseteq T
    BY <1>16, <2>3, <2>4
  <2>6. Sound(m2, f, F \ {n}, L, T \ (End(mA, b) .. End(mA, b) + s - 1))
    BY <1>9, <1>15, <2>1, <2>2, <2>4, <2>5, Extend
  <2>7. QED BY <1>16, <2>6
<1>19. Joined(m, m2, F, b, n)
  <2>1. End(m2, b) = End(m, n)
    <3>1. End(m2, b) = b + (m[b + 1] + s)
      BY <1>13 DEF End
    <3>2. b \in Nat /\ m[b + 1] \in Int
      BY <1>2
    <3>3. QED BY <1>3, <1>6, <1>16, <3>1, <3>2
  <2>2. \A x \in F : x # n /\ x # b => End(m2, x) = End(m, x) /\ m2[x + 3] = m[x + 3]
    BY <1>12 DEF End
  <2>3. QED BY <1>13, <2>1, <2>2 DEF Joined, q
<1>20. n # b
  BY <1>2, <1>4
<1>21. QED BY <1>4, <1>17, <1>18, <1>19, <1>20 DEF m2, n

-----------------------------------------------------------------------------
(* insert_into_free_list.                                                  *)

\* Writing to lost words or to the m_previous of free blocks changes nothing.
LEMMA Steady ==
    ASSUME NEW m, NEW f, NEW F, NEW L, NEW S, Sound(m, f, F, L, S), NEW m2 \in Storage,
           Agree(m, m2, F, L), \A x \in F : m2[x + 3] = m[x + 3]
    PROVE  Sound(m2, f, F, L, S)
<1>1. /\ m \in Storage /\ Blocks(m, F) /\ Chain(m, f, F)
      /\ InUse(m, L) /\ Separate(m, F, L) /\ Accounted(m, F, L, S)
  BY DEF Sound
<1>2. Blocks(m2, F) /\ Separate(m2, F, L) /\ \A x \in F : End(m2, x) = End(m, x)
  BY <1>1, AgreeBlocks
<1>3. InUse(m2, L)
  BY <1>1, AgreeInUse
<1>4. Chain(m2, f, F)
  BY <1>1 DEF Chain
<1>5. Accounted(m2, F, L, S)
  BY <1>1, <1>2 DEF Accounted
<1>6. QED BY <1>2, <1>3, <1>4, <1>5 DEF Sound

\* The loop as a function of the number of steps.
IsInsertion(g, m, at, b, n) ==
    g = [k \in 0 .. n |-> IF k = 0 THEN [m |-> m, at |-> at] ELSE InsertStep(g[k - 1], b)]

\* The definition in InsertAfter has a solution.
LEMMA InsertionExists ==
    ASSUME NEW m, NEW at, NEW b, NEW n \in Nat
    PROVE  \E g : IsInsertion(g, m, at, b, n)
<1> DEFINE s == [m |-> m, at |-> at]
           T == {k \in Nat : \E g : IsInsertion(g, m, at, b, k)}
<1>1. 0 \in T
  <2> DEFINE g == [i \in 0 .. 0 |-> s]
  <2>1. g = [i \in 0 .. 0 |-> IF i = 0 THEN s ELSE InsertStep(g[i - 1], b)]
    OBVIOUS
  <2>2. IsInsertion(g, m, at, b, 0)
    BY <2>1 DEF IsInsertion
  <2>3. QED BY <2>2
<1>2. ASSUME NEW k \in Nat, k \in T PROVE k + 1 \in T
  <2>1. PICK g : IsInsertion(g, m, at, b, k)
    BY <1>2
  <2> DEFINE e == [i \in 0 .. k + 1 |-> IF i = k + 1 THEN InsertStep(g[k], b) ELSE g[i]]
  <2>2. \A i \in 0 .. k : e[i] = g[i]
    BY <1>2
  <2>3. \A i \in 0 .. k : g[i] = IF i = 0 THEN s ELSE InsertStep(g[i - 1], b)
    BY <2>1 DEF IsInsertion
  <2> HIDE DEF s
  <2>4. ASSUME NEW i \in 0 .. k + 1
        PROVE  e[i] = IF i = 0 THEN s ELSE InsertStep(e[i - 1], b)
    <3>1. CASE i = k + 1
      <4>1. e[i] = InsertStep(g[k], b) /\ i # 0 /\ i - 1 = k /\ k \in 0 .. k
        BY <3>1
      <4> HIDE DEF e
      <4>2. QED BY <2>2, <4>1
    <3>2. CASE i # k + 1
      <4>1. i \in 0 .. k /\ (i # 0 => i - 1 \in 0 .. k)
        BY <3>2
      <4> HIDE DEF e
      <4>2. QED BY <2>2, <2>3, <4>1
    <3>3. QED BY <3>1, <3>2
  <2>5. IsInsertion(e, m, at, b, k + 1)
    <3>1. e = [i \in 0 .. k + 1 |-> e[i]]
      OBVIOUS
    <3> HIDE DEF e
    <3>2. e = [i \in 0 .. k + 1 |-> IF i = 0 THEN s ELSE InsertStep(e[i - 1], b)]
      BY <2>4, <3>1
    <3>3. QED BY <3>2 DEF IsInsertion, s
  <2>6. QED BY <2>5
<1> HIDE DEF T
<1>3. n \in T
  BY <1>1, <1>2, Induct
<1>4. QED BY <1>3 DEF T

\* Where the loop is after k steps: still before c, or beyond it and done.
Searching(s, m, F, c, k) == s.m = m /\ s.at \in F /\ s.at < c /\ s.at >= 4 * k
Inserted(s, m, F, c) == s.m = m /\ (s.at = Null \/ (s.at \in F \cup {c} /\ c <= s.at))

\* The storage with c linked in between p and n.
WithLinks(m, p, c, n) == [m EXCEPT ![c + 3] = n, ![c + 2] = p, ![p + 3] = c]

\* One step of the loop.
LEMMA InsertionStep ==
    ASSUME NEW m \in Storage, NEW f, NEW F, Blocks(m, F), Chain(m, f, F),
           NEW c \in Nat, c + 4 <= Capacity, c \notin F, NEW p \in F, End(m, p) <= c,
           NEW n, Between(F, p, c, n), NEW k \in Nat, NEW s,
           Searching(s, m, F, c, k) \/ Inserted(s, WithLinks(m, p, c, n), F, c)
    PROVE  \/ Searching(InsertStep(s, c), m, F, c, k + 1)
           \/ Inserted(InsertStep(s, c), WithLinks(m, p, c, n), F, c)
<1> DEFINE w == WithLinks(m, p, c, n)
           r == InsertStep(s, c)
           y == s.m[s.at + 3]
           here == c > s.at /\ (y = Null \/ c < y)
           m1 == IF here THEN [s.m EXCEPT ![c + 3] = y, ![c + 2] = s.at, ![s.at + 3] = c] ELSE s.m
<1>1. r = IF s.at = Null THEN s ELSE [m |-> m1, at |-> m1[s.at + 3]]
  BY DEF InsertStep, NextBlock
<1>2. \A x \in F : /\ x \in Nat /\ x + 3 \in Addresses /\ x # Null /\ x # c
                   /\ Follows(F, x, m[x + 3]) /\ (x < c => x + 4 <= c)
                   /\ End(m, x) \in Nat /\ x + 4 <= End(m, x)
  <2>1. ASSUME NEW x \in F
        PROVE  x \in Nat /\ x + 3 \in Addresses /\ m[x + 1] \in Int /\ m[x + 1] >= 4
    BY Header
  <2>2. ASSUME NEW x \in F PROVE End(m, x) \in Nat /\ x + 4 <= End(m, x)
    BY <2>1 DEF End
  <2>3. ASSUME NEW x \in F, x < c PROVE x + 4 <= c
    <3>1. x <= p
      BY <2>1, <2>3 DEF Between
    <3>2. CASE x = p
      BY <2>1, <2>2, <3>2
    <3>3. CASE x < p
      <4>1. End(m, x) <= p
        BY <3>3 DEF Blocks
      <4>2. QED BY <2>1, <2>2, <2>3, <3>3, <4>1
    <3>4. QED BY <2>1, <3>1, <3>2, <3>3
  <2>4. QED BY <2>1, <2>2, <2>3 DEF Chain, Null
<1>3. p < c /\ (\A x \in F : x <= p \/ c < x) /\ Follows(F, c, n)
  BY <1>2 DEF Between
<1>4. /\ w[c + 3] = n /\ w[p + 3] = c
      /\ \A x \in F : x # p => w[x + 3] = m[x + 3]
  <2>1. c + 3 \in Addresses /\ c + 2 \in Addresses /\ p + 3 \in Addresses /\ p + 4 <= c /\ p \in Nat
    BY <1>2, <1>3, Numbers DEF Addresses
  <2>2. /\ w[c + 3] = n /\ w[p + 3] = c
        /\ \A a \in Addresses : a # c + 3 /\ a # c + 2 /\ a # p + 3 => w[a] = m[a]
    BY <2>1 DEF WithLinks, Storage
  <2>3. ASSUME NEW x \in F, x # p PROVE w[x + 3] = m[x + 3]
    <3>1. x \in Nat /\ x + 3 \in Addresses /\ x # c /\ (x < c => x + 4 <= c)
      BY <1>2
    <3>2. x + 3 # c + 3 /\ x + 3 # c + 2 /\ x + 3 # p + 3
      BY <2>1, <2>3, <3>1
    <3>3. QED BY <2>2, <3>1, <3>2
  <2>4. QED BY <2>2, <2>3
<1>5. CASE Searching(s, m, F, c, k)
  <2>1. s.m = m /\ s.at \in F /\ s.at < c /\ s.at >= 4 * k /\ s.at \in Nat /\ s.at # Null
    BY <1>2, <1>5 DEF Searching
  <2>2. Follows(F, s.at, y) /\ y = m[s.at + 3]
    BY <1>2, <2>1
  <2>3. r = [m |-> m1, at |-> m1[s.at + 3]]
    BY <1>1, <2>1
  <2>4. y = Null \/ y \in Nat
    BY <1>2, <2>2 DEF Follows
  <2> HIDE DEF y, r, w
  <2>5. CASE y = Null \/ c < y
    <3>1. s.at = p
      <4>1. p <= s.at
        BY <1>2, <1>3, <2>1, <2>2, <2>4, <2>5 DEF Follows
      <4>2. s.at <= p
        BY <1>2, <1>3, <2>1
      <4>3. QED BY <1>2, <2>1, <4>1, <4>2
    <3>2. y = n
      <4>1. CASE y = Null /\ \A x \in F : x <= s.at
        BY <1>2, <1>3, <2>1, <4>1 DEF Follows
      <4>2. CASE y \in F /\ s.at < y /\ \A x \in F : x <= s.at \/ y <= x
        <5>1. c < y /\ y \in Nat
          BY <1>2, <2>5, <4>2
        <5>2. CASE n = Null /\ \A x \in F : x <= c
          BY <4>2, <5>1, <5>2
        <5>3. CASE n \in F /\ c < n /\ \A x \in F : x <= c \/ n <= x
          <6>1. n \in Nat /\ n <= y /\ (n <= s.at \/ y <= n)
            BY <1>2, <4>2, <5>1, <5>3
          <6>2. QED BY <2>1, <5>1, <5>3, <6>1
        <5>4. QED BY <1>3, <5>2, <5>3 DEF Follows
      <4>3. QED BY <2>2, <4>1, <4>2 DEF Follows
    <3>3. m1 = w
      BY <2>1, <2>5, <3>1, <3>2 DEF w, WithLinks
    <3> HIDE DEF m1
    <3>4. r.m = w /\ r.at = c
      BY <1>4, <2>3, <3>1, <3>3
    <3>5. QED BY <3>4 DEF Inserted, r, w
  <2>6. CASE ~(y = Null \/ c < y)
    <3>1. m1 = m
      BY <2>1, <2>6
    <3> HIDE DEF m1
    <3>2. r.m = m /\ r.at = y
      BY <2>2, <2>3, <3>1
    <3>3. y \in F /\ s.at < y
      BY <2>2, <2>6 DEF Follows
    <3>4. End(m, s.at) <= y
      BY <2>1, <3>3 DEF Blocks
    <3>5. s.at + 4 <= y /\ y < c
      <4>1. End(m, s.at) \in Nat /\ s.at + 4 <= End(m, s.at) /\ y \in Nat /\ y # c
        BY <1>2, <2>1, <3>3
      <4>2. QED BY <2>1, <2>6, <3>4, <4>1
    <3>6. y >= 4 * (k + 1)
      <4> DEFINE z == s.at
      <4>1. z \in Nat /\ y \in Nat /\ z >= 4 * k /\ z + 4 <= y
        BY <1>2, <2>1, <3>3, <3>5
      <4> HIDE DEF z
      <4>2. QED BY <4>1
    <3>7. QED BY <3>2, <3>3, <3>5, <3>6 DEF Searching, r
  <2>7. QED BY <2>5, <2>6
<1>6. CASE Inserted(s, w, F, c)
  <2>1. CASE s.at = Null
    BY <1>1, <1>6, <2>1 DEF Inserted
  <2>2. CASE s.at # Null
    <3>1. s.m = w /\ s.at \in F \cup {c} /\ c <= s.at /\ s.at \in Nat
      BY <1>2, <1>6, <2>2 DEF Inserted
    <3>2. ~here
      BY <3>1
    <3>3. r.m = w /\ r.at = w[s.at + 3]
      BY <1>1, <2>2, <3>1, <3>2
    <3> HIDE DEF r, w
    <3>4. CASE s.at = c
      BY <1>2, <1>3, <1>4, <3>3, <3>4 DEF Inserted, Follows, r, w
    <3>5. CASE s.at # c
      <4>1. s.at \in F /\ s.at # p /\ c < s.at
        BY <1>2, <1>3, <3>1, <3>5
      <4> DEFINE z == m[s.at + 3]
      <4>2. r.at = z /\ Follows(F, s.at, z)
        BY <1>2, <1>4, <3>3, <4>1
      <4> HIDE DEF z
      <4>3. z = Null \/ (z \in F /\ s.at < z)
        BY <4>2 DEF Follows
      <4>4. z = Null \/ (z \in F /\ c <= z)
        BY <1>2, <3>1, <4>1, <4>3
      <4>5. QED BY <3>3, <4>2, <4>4 DEF Inserted, r, w
    <3>6. QED BY <3>4, <3>5
  <2>3. QED BY <2>1, <2>2
<1>7. QED BY <1>5, <1>6

\* The loop links c in behind p.
LEMMA InsertsAfter ==
    ASSUME NEW m \in Storage, NEW f, NEW F, Blocks(m, F), Chain(m, f, F),
           NEW c \in Nat, c + 4 <= Capacity, c \notin F, NEW p \in F, End(m, p) <= c,
           NEW n, Between(F, p, c, n)
    PROVE  InsertAfter(m, f, c) = WithLinks(m, p, c, n)
<1> DEFINE w == WithLinks(m, p, c, n)
           s0 == [m |-> m, at |-> f]
           g == CHOOSE g : g = [k \in 0 .. MaxBlocks |-> IF k = 0 THEN s0 ELSE InsertStep(g[k - 1], c)]
<1>1. InsertAfter(m, f, c) = g[MaxBlocks].m
  BY DEF InsertAfter
<1>2. g = [k \in 0 .. MaxBlocks |-> IF k = 0 THEN s0 ELSE InsertStep(g[k - 1], c)]
  <2>1. PICK e : IsInsertion(e, m, f, c, MaxBlocks)
    BY InsertionExists, Numbers
  <2>2. e = [k \in 0 .. MaxBlocks |-> IF k = 0 THEN s0 ELSE InsertStep(e[k - 1], c)]
    BY <2>1, Zenon DEF IsInsertion
  <2>3. QED BY <2>2
<1> HIDE DEF g
<1> DEFINE P(k) == Searching(g[k], m, F, c, k) \/ Inserted(g[k], w, F, c)
           T == {k \in Nat : k <= MaxBlocks => P(k)}
<1>3. \A x \in F : x \in Nat /\ x + 4 <= Capacity
  BY Header
<1>4. 0 \in T
  <2>1. g[0] = s0
    BY <1>2, Numbers
  <2>2. f \in F /\ f <= p /\ p < c
    BY <1>3 DEF Chain, First, Between, Null
  <2>3. f \in Nat /\ p \in Nat /\ f < c
    BY <1>3, <2>2
  <2>4. s0.m = m /\ s0.at = f
    OBVIOUS
  <2> HIDE DEF s0
  <2>5. Searching(s0, m, F, c, 0)
    BY <2>2, <2>3, <2>4 DEF Searching
  <2>6. QED BY <2>1, <2>5
<1>5. ASSUME NEW k \in Nat, k \in T PROVE k + 1 \in T
  <2> SUFFICES ASSUME k + 1 <= MaxBlocks PROVE P(k + 1)
    OBVIOUS
  <2>1. P(k)
    BY <1>5, Numbers
  <2>2. g[k + 1] = InsertStep(g[k], c)
    <3>1. k + 1 \in 0 .. MaxBlocks /\ k + 1 # 0 /\ (k + 1) - 1 = k
      BY Numbers
    <3>2. QED BY <1>2, <3>1
  <2>3. QED BY <2>1, <2>2, InsertionStep
<1>6. P(MaxBlocks)
  <2> HIDE DEF P
  <2>1. MaxBlocks \in T
    <3> HIDE DEF T
    <3>1. QED BY <1>4, <1>5, Induct, Numbers
  <2>2. QED BY <2>1, Numbers
<1>7. ~Searching(g[MaxBlocks], m, F, c, MaxBlocks)
  BY <1>3, Numbers DEF Searching
<1>8. QED BY <1>1, <1>6, <1>7 DEF Inserted

\* A number that is not in F has neighbours in it.
LEMMA Neighbours ==
    ASSUME NEW F, F \subseteq 0 .. Capacity, NEW c \in Nat, c \notin F
    PROVE  \E p, n : Between(F, p, c, n)
<1>1. \E p : \/ p = Null /\ \A x \in F : c < x
             \/ p \in F /\ p < c /\ \A x \in F : x <= p \/ c < x
  <2> DEFINE T == {k \in Nat : \E x \in F : x < c /\ k = Capacity - x}
  <2>1. CASE T = {}
    <3>1. ASSUME NEW x \in F PROVE c < x
      <4>1. x \in Nat /\ Capacity - x \in Nat /\ x # c
        BY Numbers
      <4>2. ~(x < c)
        BY <2>1, <4>1
      <4>3. QED BY <4>1, <4>2
    <3>2. QED BY <3>1
  <2>2. CASE T # {}
    <3>1. PICK k \in T : \A j \in T : k <= j
      BY <2>2, Smallest
    <3>2. PICK p \in F : p < c /\ k = Capacity - p
      BY <3>1
    <3>3. ASSUME NEW x \in F PROVE x <= p \/ c < x
      <4>1. x \in Nat /\ p \in Nat /\ Capacity - x \in Nat /\ x # c
        BY Numbers
      <4>2. x < c => Capacity - x \in T
        BY <4>1
      <4> HIDE DEF T
      <4>3. x < c => k <= Capacity - x
        BY <3>1, <4>2
      <4>4. QED BY <3>2, <4>1, <4>3, Numbers
    <3>4. QED BY <3>2, <3>3
  <2>3. QED BY <2>1, <2>2
<1>2. \E n : Follows(F, c, n)
  <2> DEFINE T == {x \in F : c < x}
  <2>1. CASE T = {}
    BY <2>1 DEF Follows
  <2>2. CASE T # {}
    <3>1. T \in SUBSET Nat
      <4>1. \A x \in F : x \in Nat
        BY Numbers
      <4>2. QED BY <4>1
    <3>2. PICK n \in T : \A j \in T : n <= j
      BY <2>2, <3>1, Smallest
    <3>3. \A x \in F : x <= c \/ n <= x
      BY <3>2
    <3>4. QED BY <3>2, <3>3 DEF Follows
  <2>3. QED BY <2>1, <2>2
<1>3. QED BY <1>1, <1>2 DEF Between

\* What insert_into_free_list writes for the block at b: its own header, the
\* m_next of the block before it and the m_previous of free blocks.
Relinks(m, m2, F, p, b) ==
    /\ p \in F => m2[p + 3] = b
    /\ \A a \in Addresses : \/ m2[a] = m[a] \/ a \in b .. b + 3
                            \/ \E x \in F : a = x + 2
                            \/ p \in F /\ a = p + 3

LEMMA LinkWrites ==
    ASSUME NEW m, NEW f, NEW F, NEW L, NEW S, Sound(m, f, F, L, S),
           NEW b, Room(S, b, 4), NEW p, NEW m2, Relinks(m, m2, F, p, b)
    PROVE  Agree(m, m2, F, L) /\ \A x \in F : m2[x + 3] = IF x = p THEN b ELSE m[x + 3]
<1>a. /\ p \in F => m2[p + 3] = b
      /\ \A a \in Addresses : \/ m2[a] = m[a] \/ a \in b .. b + 3
                              \/ \E x \in F : a = x + 2
                              \/ p \in F /\ a = p + 3
  BY DEF Relinks
<1>b. b \in Nat /\ b + 4 <= Capacity
  BY DEF Room
<1> USE <1>a, <1>b
<1>1. /\ \A x \in F : x \in Nat /\ End(m, x) \in Nat /\ x < End(m, x) /\ (End(m, x) <= b \/ b + 4 <= x)
      /\ \A l \in L : After(l) <= b \/ b + 4 <= l.addr
  BY LostApart
<1>2. \A x \in F : {x, x + 1, x + 3} \subseteq Addresses /\ End(m, x) >= x + 4
  <2>1. ASSUME NEW x \in F
        PROVE  x \in Nat /\ {x, x + 1, x + 3} \subseteq Addresses /\ m[x + 1] \in Int /\ m[x + 1] >= 4
    BY Header DEF Sound
  <2>2. QED BY <2>1 DEF End
<1>3. \A x, y \in F : x # y => x + 4 <= y \/ y + 4 <= x
  BY HeadersApart
<1>4. \A x \in F, l \in L : \A a \in l.addr .. After(l) - 1 : a \in Addresses /\ (a < x \/ x + 4 <= a)
  BY HeadersApart
<1>5. ASSUME NEW x \in F, NEW a, a = x \/ a = x + 1 \/ (a = x + 3 /\ x # p) PROVE m2[a] = m[a]
  <2>1. a \in Addresses /\ x \in Nat /\ (x + 4 <= b \/ b + 4 <= x)
    BY <1>1, <1>2, <1>5
  <2>2. a \notin b .. b + 3
    BY <1>5, <2>1
  <2>3. ASSUME NEW y \in F PROVE a # y + 2 /\ (y = p => a # p + 3)
    <3>1. y \in Nat /\ (x # y => x + 4 <= y \/ y + 4 <= x)
      BY <1>1, <1>3
    <3>2. QED BY <1>5, <2>1, <3>1
  <2>4. QED BY <2>1, <2>2, <2>3
<1>6. ASSUME NEW l \in L, NEW a \in l.addr .. After(l) - 1 PROVE m2[a] = m[a]
  <2>1. l.addr \in Nat /\ After(l) \in Nat /\ After(l) <= Capacity
    <3>1. l \in Clients /\ After(l) <= Capacity
      BY DEF Sound, InUse
    <3>2. QED BY <3>1, ClientSize
  <2>2. a \in Addresses /\ a \in Nat /\ a \notin b .. b + 3
    BY <1>1, <2>1, Numbers DEF Addresses
  <2>3. ASSUME NEW y \in F PROVE a # y + 2 /\ a # y + 3
    <3>1. y \in Nat /\ (a < y \/ y + 4 <= a)
      BY <1>1, <1>4
    <3>2. QED BY <2>2, <3>1
  <2>4. QED BY <2>2, <2>3
<1>7. \A x \in F : m2[x] = m[x] /\ m2[x + 1] = m[x + 1] /\ (x # p => m2[x + 3] = m[x + 3])
  <2> SUFFICES ASSUME NEW x \in F
               PROVE  m2[x] = m[x] /\ m2[x + 1] = m[x + 1] /\ (x # p => m2[x + 3] = m[x + 3])
    OBVIOUS
  <2>1. QED BY <1>5
<1>8. QED BY <1>6, <1>7 DEF Agree

SubHeaps == [storage : Storage, list : Addresses \cup {Null}, available : {0, Capacity}]

\* insert_into_free_list places the block between its neighbours.
LEMMA Places ==
    ASSUME NEW h \in SubHeaps, NEW F, NEW L, NEW S, Sound(h.storage, h.list, F, L, S),
           NEW b \in Nat, b + 4 <= Capacity, b .. b + 3 \subseteq S,
           h.storage[b] = FreeCanary, h.storage[b + 2] = Null, h.storage[b + 3] = Null
    PROVE  \E p, n : /\ Placed(h.storage, InsertIntoFreeList(h, b).storage, F, L, p, b, n,
                               h.storage[b + 1])
                     /\ InsertIntoFreeList(h, b).list = IF p = Null THEN b ELSE h.list
                     /\ InsertIntoFreeList(h, b).available = h.available
<1> DEFINE m == h.storage
           f == h.list
           g == InsertIntoFreeList(h, b)
<1>1. /\ m \in Storage /\ Blocks(m, F) /\ Chain(m, f, F)
  BY DEF Sound
<1>a. Room(S, b, 4)
  BY DEF Room
<1>2. /\ b \notin F
      /\ \A x \in F : x \in Nat /\ End(m, x) \in Nat /\ x < End(m, x) /\ (End(m, x) <= b \/ b + 4 <= x)
  BY <1>a, LostApart
<1>3. \A x \in F : x \in Nat /\ x + 4 <= Capacity /\ x # Null /\ x + 2 \in Addresses /\ x + 3 \in Addresses
  <2>1. ASSUME NEW x \in F
        PROVE  x \in Nat /\ x + 4 <= Capacity /\ x + 2 \in Addresses /\ x + 3 \in Addresses
    BY <1>1, Header
  <2>2. QED BY <2>1 DEF Null
<1>4. {b, b + 1, b + 2, b + 3} \subseteq Addresses
  BY Numbers DEF Addresses
<1>5. First(F, f)
  BY <1>1 DEF Chain
<1>6. CASE f = Null
  <2>1. g.storage = m /\ g.list = b /\ g.available = h.available
    BY <1>6 DEF InsertIntoFreeList, SubHeaps
  <2>2. F = {}
    BY <1>3, <1>5, <1>6 DEF First
  <2>3. Agree(m, m, F, L) /\ \A x \in F : m[x + 3] = IF x = Null THEN b ELSE m[x + 3]
    BY <2>2 DEF Agree
  <2>4. Between(F, Null, b, Null)
    BY <2>2 DEF Between, Follows
  <2>5. Placed(m, m, F, L, Null, b, Null, m[b + 1])
    BY <1>1, <2>3, <2>4 DEF Placed
  <2>6. QED BY <2>1, <2>5
<1>7. CASE f # Null /\ b < f
  <2> DEFINE m2 == [m EXCEPT ![b + 3] = f, ![f + 2] = b]
  <2>1. g.storage = m2 /\ g.list = b /\ g.available = h.available
    BY <1>7 DEF InsertIntoFreeList, SubHeaps
  <2>2. f \in F /\ \A x \in F : f <= x
    BY <1>5, <1>7 DEF First
  <2>3. f \in Nat /\ b + 4 <= f /\ f + 2 \in Addresses /\ f # Null
    BY <1>2, <1>3, <1>7, <2>2
  <2>4. /\ m2 \in Storage
        /\ m2[b] = m[b] /\ m2[b + 1] = m[b + 1] /\ m2[b + 2] = m[b + 2] /\ m2[b + 3] = f
        /\ \A a \in Addresses : a # b + 3 /\ a # f + 2 => m2[a] = m[a]
    BY <1>1, <1>4, <2>3 DEF Storage
  <2>5. \A x \in F : b < x /\ (x <= b \/ f <= x)
    BY <1>3, <1>7, <2>2
  <2>6. Between(F, Null, b, f)
    BY <1>7, <2>2, <2>5 DEF Between, Follows
  <2> HIDE DEF m2
  <2>7. Null \notin F
    BY <1>3
  <2>8. Agree(m, m2, F, L) /\ \A x \in F : m2[x + 3] = IF x = Null THEN b ELSE m[x + 3]
    <3>1. Relinks(m, m2, F, Null, b)
      BY <2>2, <2>4, <2>7 DEF Relinks
    <3>2. Sound(m, f, F, L, S)
      OBVIOUS
    <3> HIDE DEF m, f, g
    <3>3. QED BY <1>a, <3>1, <3>2, LinkWrites
  <2>9. Placed(m, m2, F, L, Null, b, f, m[b + 1])
    BY <2>4, <2>6, <2>8 DEF Placed
  <2>10. QED BY <2>1, <2>9
<1>8. CASE f # Null /\ ~(b < f)
  <2>1. f \in F /\ f \in Nat /\ f < b
    BY <1>2, <1>3, <1>5, <1>8 DEF First
  <2>2. PICK p, n : Between(F, p, b, n)
    <3>1. F \subseteq 0 .. Capacity
      BY <1>3, Numbers
    <3>2. QED BY <1>2, <3>1, Neighbours
  <2>3. p \in F /\ p < b
    BY <2>1, <2>2 DEF Between
  <2>4. End(m, p) <= b /\ p \in Nat /\ p + 4 <= b
    <3>1. End(m, p) <= b /\ p \in Nat
      BY <1>2, <2>3
    <3>2. m[p + 1] \in Int /\ m[p + 1] >= 4
      BY <1>1, <2>3, Header
    <3>3. QED BY <3>1, <3>2 DEF End
  <2> DEFINE m2 == WithLinks(m, p, b, n)
  <2>5. g.storage = InsertAfter(m, f, b) /\ g.list = f /\ g.available = h.available
    BY <1>8 DEF InsertIntoFreeList, SubHeaps
  <2>6. InsertAfter(m, f, b) = m2
    BY <1>1, <1>2, <2>2, <2>3, <2>4, InsertsAfter
  <2>7. n \in Int
    BY <1>3, <2>2 DEF Between, Follows, Null
  <2>8. /\ m2 \in Storage
        /\ m2[b] = m[b] /\ m2[b + 1] = m[b + 1] /\ m2[b + 2] = p /\ m2[b + 3] = n /\ m2[p + 3] = b
        /\ \A a \in Addresses : a # b + 3 /\ a # b + 2 /\ a # p + 3 => m2[a] = m[a]
    <3>1. p + 3 \in Addresses
      BY <1>3, <2>3
    <3>2. QED BY <1>1, <1>4, <2>4, <2>7, <3>1 DEF WithLinks, Storage
  <2> HIDE DEF m2
  <2>9. Agree(m, m2, F, L) /\ \A x \in F : m2[x + 3] = IF x = p THEN b ELSE m[x + 3]
    <3>1. Relinks(m, m2, F, p, b)
      BY <2>3, <2>8 DEF Relinks
    <3>2. Sound(m, f, F, L, S)
      OBVIOUS
    <3> HIDE DEF m, f, g
    <3>3. QED BY <1>a, <3>1, <3>2, LinkWrites
  <2>10. Placed(m, m2, F, L, p, b, n, m[b + 1])
    BY <2>2, <2>8, <2>9 DEF Placed
  <2>11. p # Null
    BY <1>3, <2>3
  <2>12. QED BY <2>5, <2>6, <2>10, <2>11
<1>9. QED BY <1>6, <1>7, <1>8

\* A block of s lost words that is inserted is a free block, and only the one
\* before it has a new m_next.
Inserts(h, g, F, p, b, s) ==
    /\ g \in SubHeaps /\ g.available = h.available
    /\ End(g.storage, b) = b + s /\ g.storage[b + 2] = p
    /\ Prior(g.storage, g.list, F \cup {b}, b, p)
    /\ \A x \in F : /\ End(g.storage, x) = End(h.storage, x)
                    /\ g.storage[x + 3] = IF x = p THEN b ELSE h.storage[x + 3]

LEMMA Insertion ==
    ASSUME NEW h \in SubHeaps, NEW F, NEW L, NEW S, Sound(h.storage, h.list, F, L, S),
           NEW b, NEW s, Room(S, b, s),
           h.storage[b] = FreeCanary, h.storage[b + 1] = s,
           h.storage[b + 2] = Null, h.storage[b + 3] = Null
    PROVE  /\ b \notin F
           /\ Sound(InsertIntoFreeList(h, b).storage, InsertIntoFreeList(h, b).list,
                    F \cup {b}, L, S \ (b .. b + s - 1))
           /\ \E p : Inserts(h, InsertIntoFreeList(h, b), F, p, b, s)
<1> DEFINE m == h.storage
           f == h.list
           g == InsertIntoFreeList(h, b)
           m2 == g.storage
<1>1. b \in Nat /\ b + 4 <= Capacity /\ b .. b + 3 \subseteq S
  BY Numbers DEF Room
<1>2. PICK p, n : /\ Placed(m, m2, F, L, p, b, n, s)
                  /\ g.list = IF p = Null THEN b ELSE f
                  /\ g.available = h.available
  <2>1. \E p, n : /\ Placed(h.storage, g.storage, F, L, p, b, n, h.storage[b + 1])
                  /\ g.list = IF p = Null THEN b ELSE h.list
                  /\ g.available = h.available
    BY <1>1, Places
  <2> HIDE DEF g
  <2>2. QED BY <2>1
<1>3. /\ m2 \in Storage /\ Agree(m, m2, F, L) /\ Between(F, p, b, n)
      /\ m2[b] = FreeCanary /\ m2[b + 1] = s /\ m2[b + 2] = p /\ m2[b + 3] = n
      /\ \A x \in F : m2[x + 3] = IF x = p THEN b ELSE m[x + 3]
  BY <1>2 DEF Placed
<1>4. b \notin F /\ Sound(m2, IF p = Null THEN b ELSE f, F \cup {b}, L, S \ (b .. b + s - 1))
  <2>1. Sound(m, f, F, L, S) /\ Placed(m, m2, F, L, p, b, n, s) /\ Room(S, b, s)
    BY <1>2
  <2> HIDE DEF m, f, g, m2
  <2>2. QED BY <2>1, Link
<1>5. m \in Storage /\ Blocks(m, F) /\ Chain(m, f, F)
  BY DEF Sound
<1>6. \A x \in F : x \in Nat /\ x # Null
  BY <1>5, Header DEF Null
<1>7. p = Null \/ p \in F
  BY <1>3 DEF Between
<1>8. Prior(m2, g.list, F \cup {b}, b, p)
  <2>1. CASE p = Null
    BY <1>2, <2>1 DEF Prior
  <2>2. CASE p \in F
    <3>1. m2[p + 3] = b /\ p # Null
      BY <1>3, <1>6, <2>2
    <3>2. f \in F /\ g.list = f
      BY <1>2, <1>5, <2>2, <3>1 DEF Chain, First
    <3>3. QED BY <1>4, <2>2, <3>1, <3>2 DEF Prior
  <2>3. QED BY <1>7, <2>1, <2>2
<1>9. \A x \in F : End(m2, x) = End(m, x)
  BY <1>3 DEF Agree, End
<1>10. g \in SubHeaps
  <2>1. g.list \in Addresses \cup {Null}
    BY <1>1, <1>2, Numbers DEF SubHeaps, Addresses
  <2>2. DOMAIN g = {"storage", "list", "available"} /\ g = [storage |-> m2, list |-> g.list, available |-> g.available]
    BY DEF InsertIntoFreeList, SubHeaps
  <2>3. h.available \in {0, Capacity}
    BY DEF SubHeaps
  <2> HIDE DEF g, m2
  <2>4. QED BY <1>2, <1>3, <2>1, <2>2, <2>3 DEF SubHeaps
<1>11. End(m2, b) = b + s
  BY <1>3 DEF End
<1>12. Inserts(h, g, F, p, b, s)
  BY <1>2, <1>3, <1>8, <1>9, <1>10, <1>11 DEF Inserts
<1>13. QED BY <1>2, <1>4, <1>12

-----------------------------------------------------------------------------
(* free.                                                                   *)

\* coalesce_with_next_block leaves b alone, and every other block of F as it
\* is, if the block after b is alone.  X are blocks that need not be alone.
LEMMA Coalesces ==
    ASSUME NEW m, NEW f, NEW F, NEW L, NEW S, Sound(m, f, F, L, S), NEW b \in F, NEW X,
           \A x \in F : x \in X \/ x = b \/ Alone(m, x), b \notin X, m[b + 3] \notin X
    PROVE  \E E \in SUBSET F :
              /\ b \in E /\ F \ {m[b + 3]} \subseteq E
              /\ Sound(CoalesceWithNext(m, b), f, E, L, S)
              /\ \A x \in E : x \in X \/ Alone(CoalesceWithNext(m, b), x)
              /\ \A x \in E : x # b => /\ End(CoalesceWithNext(m, b), x) = End(m, x)
                                       /\ CoalesceWithNext(m, b)[x + 3] = m[x + 3]
              /\ CoalesceWithNext(m, b)[b + 2] = m[b + 2]
<1> DEFINE m2 == CoalesceWithNext(m, b)
           n == m[b + 3]
<1>1. CASE Alone(m, b)
  <2>1. m2 = m
    BY <1>1, JoinNot
  <2>2. \A x \in F : x \in X \/ Alone(m, x)
    BY <1>1
  <2>3. F \in SUBSET F /\ F \ {n} \subseteq F
    OBVIOUS
  <2> HIDE DEF m2, n
  <2>4. QED BY <2>1, <2>2, <2>3 DEF m2, n
<1>2. CASE ~Alone(m, b)
  <2>1. n \in F /\ n # b /\ Sound(m2, f, F \ {n}, L, S) /\ Joined(m, m2, F, b, n)
    BY <1>2, Join
  <2> HIDE DEF m2
  <2>2. End(m2, b) = End(m, n) /\ m2[b + 3] = m[n + 3] /\ m2[b + 2] = m[b + 2]
    BY <2>1 DEF Joined
  <2>3. \A x \in F : x # n /\ x # b => End(m2, x) = End(m, x) /\ m2[x + 3] = m[x + 3]
    BY <2>1 DEF Joined
  <2>4. Alone(m, n)
    BY <2>1
  <2>5. \A x \in F \ {n} : x \in X \/ Alone(m2, x)
    BY <2>2, <2>3, <2>4 DEF Alone
  <2>6. F \ {n} \in SUBSET F /\ b \in F \ {n}
    BY <2>1
  <2>7. QED BY <2>1, <2>2, <2>3, <2>5, <2>6 DEF m2
<1>3. QED BY <1>1, <1>2

\* coalesce_with_previous_block: all blocks are alone if only the one before
\* b need not have been.
LEMMA CoalescesPrevious ==
    ASSUME NEW m, NEW f, NEW F, NEW L, NEW S, Sound(m, f, F, L, S), NEW b \in F, NEW p, p = m[b + 2],
           \A x \in F : x = p \/ Alone(m, x), p = Null \/ (p \in F /\ p # b /\ m[p + 3] = b)
    PROVE  \E E : /\ Sound(CoalesceWithPrevious(m, b), f, E, L, S)
                  /\ \A x \in E : Alone(CoalesceWithPrevious(m, b), x)
<1> DEFINE m2 == CoalesceWithPrevious(m, b)
<1>1. \A x \in F : x # Null
  <2>1. m \in Storage /\ Blocks(m, F)
    BY DEF Sound
  <2>2. QED BY <2>1, Header DEF Null
<1>2. CASE p = Null
  <2>1. m2 = m
    BY <1>2 DEF CoalesceWithPrevious, Previous
  <2> HIDE DEF m2
  <2>2. QED BY <1>1, <1>2, <2>1 DEF m2
<1>3. CASE p # Null /\ End(m, p) # b
  <2>1. m2 = m
    BY <1>3 DEF CoalesceWithPrevious, Previous, BlockSize, End
  <2>2. \A x \in F : Alone(m, x)
    BY <1>3 DEF Alone
  <2> HIDE DEF m2
  <2>3. QED BY <2>1, <2>2 DEF m2
<1>4. CASE p # Null /\ End(m, p) = b
  <2>1. m2 = CoalesceWithNext(m, p)
    BY <1>4 DEF CoalesceWithPrevious, Previous, BlockSize, End
  <2> HIDE DEF m2
  <2> DEFINE X == {}
  <2>2. p \in F /\ (\A x \in F : x \in X \/ x = p \/ Alone(m, x)) /\ p \notin X /\ m[p + 3] \notin X
    BY <1>4
  <2> HIDE DEF X
  <2>3. \E E \in SUBSET F : /\ Sound(CoalesceWithNext(m, p), f, E, L, S)
                            /\ \A x \in E : x \in X \/ Alone(CoalesceWithNext(m, p), x)
    BY <2>2, Coalesces
  <2>4. QED BY <2>1, <2>3 DEF m2, X
<1>5. QED BY <1>2, <1>3, <1>4

\* Every block is alone.
Coalesced(m, F) == \A x \in F : Alone(m, x)

\* The header that free writes changes nothing outside the block.
LEMMA Reopens ==
    ASSUME NEW m, NEW f, NEW F, NEW L, NEW S, Sound(m, f, F, L, S), NEW b, NEW s, Room(S, b, s)
    PROVE  /\ Sound(NewFreeBlock(m, b, s), f, F, L, S)
           /\ NewFreeBlock(m, b, s)[b] = FreeCanary /\ NewFreeBlock(m, b, s)[b + 1] = s
           /\ NewFreeBlock(m, b, s)[b + 2] = Null /\ NewFreeBlock(m, b, s)[b + 3] = Null
           /\ \A x \in F : /\ End(NewFreeBlock(m, b, s), x) = End(m, x)
                           /\ NewFreeBlock(m, b, s)[x + 3] = m[x + 3]
<1> DEFINE m2 == NewFreeBlock(m, b, s)
<1>1. m \in Storage /\ Blocks(m, F)
  BY DEF Sound
<1>2. b \in Nat /\ s \in Nat /\ s >= 4 /\ b + 4 <= Capacity /\ b .. b + 3 \subseteq S
  BY Numbers DEF Room
<1>3. {b, b + 1, b + 2, b + 3} \subseteq Addresses
  BY <1>2, Numbers DEF Addresses
<1>4. m2 = [m EXCEPT ![b] = FreeCanary, ![b + 1] = s, ![b + 2] = Null, ![b + 3] = Null]
  BY DEF NewFreeBlock
<1> HIDE DEF m2
<1>5. FreeCanary \in Int /\ Null \in Int
  BY DEF FreeCanary, Null
<1>6. /\ m2 \in Storage /\ m2[b] = FreeCanary /\ m2[b + 1] = s /\ m2[b + 2] = Null /\ m2[b + 3] = Null
      /\ \A a \in Addresses : a \notin b .. b + 3 => m2[a] = m[a]
  BY <1>1, <1>2, <1>3, <1>4, <1>5 DEF Storage
<1>7. Null \notin F
  BY <1>1, Header DEF Null
<1>8. Agree(m, m2, F, L) /\ \A x \in F : m2[x + 3] = m[x + 3]
  <2>1. Relinks(m, m2, F, Null, b)
    BY <1>6, <1>7 DEF Relinks
  <2>2. Room(S, b, 4)
    BY <1>2 DEF Room
  <2>3. Agree(m, m2, F, L) /\ \A x \in F : m2[x + 3] = IF x = Null THEN b ELSE m[x + 3]
    BY <2>1, <2>2, LinkWrites
  <2>4. QED BY <1>7, <2>3
<1>9. Sound(m2, f, F, L, S)
  BY <1>6, <1>8, Steady
<1>10. \A x \in F : End(m2, x) = End(m, x)
  BY <1>8 DEF Agree, End
<1>11. QED BY <1>6, <1>8, <1>9, <1>10 DEF m2

\* free gives the block back, and leaves nothing to coalesce.
LEMMA Releases ==
    ASSUME NEW h \in SubHeaps, NEW F, NEW L, NEW S, Sound(h.storage, h.list, F, L, S),
           Coalesced(h.storage, F), NEW l \in L
    PROVE  /\ Release(h, l.addr) \in SubHeaps /\ Release(h, l.addr).available = h.available
           /\ \E E : /\ Sound(Release(h, l.addr).storage, Release(h, l.addr).list, E, L \ {l}, S)
                     /\ Coalesced(Release(h, l.addr).storage, E)
<1> DEFINE m == h.storage
           b == l.addr
           s == m[b + 1] + AllocatedWords
           m1 == NewFreeBlock(m, b, s)
           h1 == [h EXCEPT !.storage = m1]
           g == InsertIntoFreeList(h1, b)
           m2 == g.storage
           m3 == CoalesceWithNext(m2, b)
           m4 == CoalesceWithPrevious(m3, b)
           T == S \cup (b .. After(l) - 1)
           K == L \ {l}
           G == F \cup {b}
<1>1. Release(h, b) = [g EXCEPT !.storage = m4]
  BY DEF Release
<1>2. l \in Clients /\ m[b + 1] = BlockRequest(l.size) /\ After(l) <= Capacity
  BY DEF Sound, InUse
<1>3. b \in Nat /\ s \in Nat /\ s >= 4 /\ After(l) = b + s
  <2>1. b \in Nat /\ BlockRequest(l.size) \in Nat /\ After(l) = b + 2 + BlockRequest(l.size) /\ After(l) >= b + 6
    BY <1>2, ClientSize
  <2> DEFINE r == BlockRequest(l.size)
             e == After(l)
  <2>2. s = r + 2 /\ b \in Nat /\ r \in Nat /\ e = b + 2 + r /\ e >= b + 6
    BY <1>2, <2>1 DEF AllocatedWords
  <2> HIDE DEF r, e, b, s
  <2>3. s \in Nat /\ s >= 4 /\ e = b + s
    BY <2>2
  <2>4. QED BY <2>2, <2>3 DEF e
<1>4. Sound(m, h.list, F, K, T)
  BY Revoke
<1>5. T = S \cup (b .. b + s - 1) /\ T \ (b .. b + s - 1) = S
  <2>1. T = S \cup (b .. b + s - 1)
    BY <1>3
  <2>2. ASSUME NEW a \in b .. b + s - 1 PROVE a \notin S
    <3>1. a \in Addresses /\ b <= a /\ a < After(l)
      <4> HIDE DEF b, s
      <4>1. QED BY <1>2, <1>3, Numbers DEF Addresses
    <3>2. Accounted(m, F, L, S)
      BY DEF Sound
    <3>3. QED BY <3>1, <3>2 DEF Accounted
  <2> DEFINE R == b .. b + s - 1
  <2>3. T = S \cup R /\ \A a \in R : a \notin S
    BY <2>1, <2>2
  <2> HIDE DEF T, R
  <2>4. T \ R = S
    BY <2>3
  <2>5. QED BY <2>1, <2>4 DEF R
<1>6. Room(T, b, s)
  <2>1. b + s <= Capacity
    BY <1>2, <1>3
  <2>2. b .. b + s - 1 \subseteq T
    BY <1>5
  <2> HIDE DEF b, s, T
  <2>3. QED BY <1>3, <2>1, <2>2 DEF Room
<1> HIDE DEF s, T
<1>7. /\ Sound(m1, h.list, F, K, T) /\ m1[b] = FreeCanary /\ m1[b + 1] = s
      /\ m1[b + 2] = Null /\ m1[b + 3] = Null
      /\ \A x \in F : End(m1, x) = End(m, x) /\ m1[x + 3] = m[x + 3]
  <2> HIDE DEF b, m, K
  <2>1. QED BY <1>4, <1>6, Reopens
<1>8. m1 \in Storage
  BY <1>7 DEF Sound
<1> HIDE DEF m1
<1>9. h1 \in SubHeaps /\ h1.storage = m1 /\ h1.list = h.list /\ h1.available = h.available
  BY <1>8 DEF SubHeaps
<1> HIDE DEF h1
<1>10. b \notin F /\ Sound(m2, g.list, G, K, T \ (b .. b + s - 1)) /\ \E p : Inserts(h1, g, F, p, b, s)
  <2> HIDE DEF b, K
  <2>1. Sound(h1.storage, h1.list, F, K, T)
    BY <1>7, <1>9
  <2>2. h1.storage[b] = FreeCanary /\ h1.storage[b + 1] = s /\ h1.storage[b + 2] = Null /\ h1.storage[b + 3] = Null
    BY <1>7, <1>9
  <2>3. QED BY <1>6, <1>9, <2>1, <2>2, Insertion
<1>11. Sound(m2, g.list, G, K, S)
  BY <1>5, <1>10
<1>12. PICK p : Inserts(h1, g, F, p, b, s)
  BY <1>10
<1> HIDE DEF b, m, g, K
<1>13. /\ g \in SubHeaps /\ g.available = h.available /\ m2[b + 2] = p /\ Prior(m2, g.list, G, b, p)
       /\ \A x \in F : End(m2, x) = End(m, x) /\ m2[x + 3] = IF x = p THEN b ELSE m[x + 3]
  BY <1>7, <1>9, <1>12 DEF Inserts
<1>14. /\ m2 \in Storage /\ Blocks(m2, G) /\ Chain(m2, g.list, G)
  BY <1>11 DEF Sound
<1>15. b \in G /\ (p \in G => p < b) /\ \A x \in G : x \in Nat /\ x # Null /\ Follows(G, x, m2[x + 3])
  <2>1. b \in G
    OBVIOUS
  <2>2. p \in G => p < b
    <3>1. Prior(m2, g.list, G, b, p)
      BY <1>13
    <3> HIDE DEF m2, G
    <3>2. QED BY <1>14, <2>1, <3>1, OnePrior
  <2>3. ASSUME NEW x \in G PROVE x \in Nat /\ x # Null /\ Follows(G, x, m2[x + 3])
    BY <1>14, Header DEF Null, Chain
  <2>4. QED BY <2>1, <2>2, <2>3
<1>16. p = Null \/ (p \in G /\ p # b /\ m2[p + 3] = b)
  BY <1>13, <1>15 DEF Prior
<1> DEFINE X == {x \in G : x = p}
<1>17. (\A x \in G : x \in X \/ x = b \/ Alone(m2, x)) /\ b \notin X /\ m2[b + 3] \notin X
  <2>1. \A x \in G : x \in X \/ x = b \/ Alone(m2, x)
    BY <1>13 DEF Coalesced, Alone, m
  <2>2. b \notin X
    BY <1>15, <1>16
  <2>3. ASSUME NEW n \in G, n = m2[b + 3] PROVE n # p
    <3>1. b < n
      BY <1>15, <2>3 DEF Follows
    <3>2. b \in Nat /\ n \in Nat
      BY <1>15
    <3>3. QED BY <1>15, <3>1, <3>2
  <2>4. QED BY <2>1, <2>2, <2>3
<1>18. \E E \in SUBSET G :
          /\ b \in E /\ G \ {m2[b + 3]} \subseteq E
          /\ Sound(m3, g.list, E, K, S)
          /\ \A x \in E : x \in X \/ Alone(m3, x)
          /\ \A x \in E : x # b => End(m3, x) = End(m2, x) /\ m3[x + 3] = m2[x + 3]
          /\ m3[b + 2] = m2[b + 2]
  <2> HIDE DEF X, G, m2
  <2>1. QED BY <1>11, <1>15, <1>17, Coalesces
<1>19. PICK E \in SUBSET G :
          /\ b \in E /\ G \ {m2[b + 3]} \subseteq E
          /\ Sound(m3, g.list, E, K, S)
          /\ \A x \in E : x \in X \/ Alone(m3, x)
          /\ \A x \in E : x # b => End(m3, x) = End(m2, x) /\ m3[x + 3] = m2[x + 3]
          /\ m3[b + 2] = m2[b + 2]
  BY <1>18
<1> HIDE DEF m3
<1>20. p = m3[b + 2] /\ \A x \in E : x = p \/ Alone(m3, x)
  BY <1>13, <1>19
<1>21. p = Null \/ (p \in E /\ p # b /\ m3[p + 3] = b)
  <2>1. CASE p # Null
    <3>1. p \in G /\ p # b /\ m2[p + 3] = b
      BY <1>16, <2>1
    <3>2. p \in X /\ p \in E
      BY <1>17, <1>19, <3>1
    <3>3. QED BY <1>19, <3>1, <3>2
  <2>2. QED BY <2>1
<1>22. PICK D : Sound(m4, g.list, D, K, S) /\ \A x \in D : Alone(m4, x)
  <2> HIDE DEF X
  <2>1. QED BY <1>19, <1>20, <1>21, CoalescesPrevious
<1>23. m4 \in Storage
  BY <1>22 DEF Sound
<1> HIDE DEF m4
<1>24. /\ [g EXCEPT !.storage = m4] \in SubHeaps
       /\ [g EXCEPT !.storage = m4].storage = m4
       /\ [g EXCEPT !.storage = m4].list = g.list
       /\ [g EXCEPT !.storage = m4].available = h.available
  BY <1>13, <1>23 DEF SubHeaps
<1>25. Coalesced(m4, D)
  BY <1>22 DEF Coalesced
<1>26. QED BY <1>1, <1>22, <1>24, <1>25 DEF b, K

-----------------------------------------------------------------------------
(* allocate, after the search.                                             *)

\* What split_if_required writes.
LEMMA SplitWrites ==
    ASSUME NEW m \in Storage, NEW b \in Nat, NEW r \in Nat, r >= 4, m[b + 1] \in Nat,
           r <= m[b + 1] - 2, b + m[b + 1] <= Capacity
    PROVE  /\ SplitIfRequired(m, b, r) \in Storage
           /\ ~Splits(m, b, r) => SplitIfRequired(m, b, r) = m
           /\ Splits(m, b, r) => /\ m[b + 1] - 2 - r >= 4
                                 /\ \A a \in Addresses : SplitIfRequired(m, b, r)[a] =
                                      IF a = b + 1 THEN r + 4
                                      ELSE IF a = b + 3 THEN b + 2 + r
                                      ELSE IF a = b + 2 + r THEN FreeCanary
                                      ELSE IF a = b + 2 + r + 1 THEN m[b + 1] - 2 - r
                                      ELSE IF a = b + 2 + r + 2 THEN b
                                      ELSE IF a = b + 2 + r + 3 THEN m[b + 3]
                                      ELSE m[a]
<1> DEFINE c == b + 2 + r
           s == m[b + 1] - 2 - r
           m1 == [m EXCEPT ![b + 1] = r + 4]
           m2 == [m1 EXCEPT ![c] = FreeCanary]
           m3 == [m2 EXCEPT ![c + 1] = s]
           m4 == [m3 EXCEPT ![c + 2] = Null]
           m5 == [m4 EXCEPT ![c + 3] = Null]
           m6 == [m5 EXCEPT ![c + 2] = b]
           m7 == [m6 EXCEPT ![c + 3] = m[b + 3]]
           m8 == [m7 EXCEPT ![b + 3] = c]
<1>1. b + 3 \in Addresses /\ m[b + 3] \in Int /\ s \in Int /\ c \in Nat /\ c >= b + 6
  <2>1. b + 3 \in Addresses
    BY Numbers DEF Addresses
  <2>2. QED BY <2>1 DEF Storage
<1>2. Splits(m, b, r) <=> s >= 4
  BY DEF Splits, AllocatableSize, BlockSize, AllocatedWords, FreeWords
<1>3. SplitIfRequired(m, b, r) = IF Splits(m, b, r) THEN m8 ELSE m
  BY DEF SplitIfRequired, NewFreeBlock, AllocatableSize, BlockSize, NextBlock, AllocatedWords, FreeWords
<1>4. FreeCanary \in Int /\ Null \in Int /\ r + 4 \in Int /\ c \in Int /\ b \in Int
  BY <1>1 DEF FreeCanary, Null
<1> HIDE DEF c, s
<1>5. m1 \in Storage /\ \A a \in Addresses : m1[a] = IF a = b + 1 THEN r + 4 ELSE m[a]
  BY <1>4 DEF Storage
<1> HIDE DEF m1
<1>6. m2 \in Storage /\ \A a \in Addresses : m2[a] = IF a = c THEN FreeCanary ELSE m1[a]
  BY <1>4, <1>5 DEF Storage
<1> HIDE DEF m2
<1>7. m3 \in Storage /\ \A a \in Addresses : m3[a] = IF a = c + 1 THEN s ELSE m2[a]
  BY <1>1, <1>6 DEF Storage
<1> HIDE DEF m3
<1>8. m4 \in Storage /\ \A a \in Addresses : m4[a] = IF a = c + 2 THEN Null ELSE m3[a]
  BY <1>4, <1>7 DEF Storage
<1> HIDE DEF m4
<1>9. m5 \in Storage /\ \A a \in Addresses : m5[a] = IF a = c + 3 THEN Null ELSE m4[a]
  BY <1>4, <1>8 DEF Storage
<1> HIDE DEF m5
<1>10. m6 \in Storage /\ \A a \in Addresses : m6[a] = IF a = c + 2 THEN b ELSE m5[a]
  BY <1>4, <1>9 DEF Storage
<1> HIDE DEF m6
<1>11. m7 \in Storage /\ \A a \in Addresses : m7[a] = IF a = c + 3 THEN m[b + 3] ELSE m6[a]
  BY <1>1, <1>10 DEF Storage
<1> HIDE DEF m7
<1>12. m8 \in Storage /\ \A a \in Addresses : m8[a] = IF a = b + 3 THEN c ELSE m7[a]
  BY <1>4, <1>11 DEF Storage
<1> HIDE DEF m8
<1>13. ASSUME NEW a \in Addresses
       PROVE  m8[a] = IF a = b + 1 THEN r + 4
                      ELSE IF a = b + 3 THEN c
                      ELSE IF a = c THEN FreeCanary
                      ELSE IF a = c + 1 THEN s
                      ELSE IF a = c + 2 THEN b
                      ELSE IF a = c + 3 THEN m[b + 3]
                      ELSE m[a]
  <2>1. a \in Nat
    BY DEF Addresses
  <2>2. m5[a] = IF a = c + 3 \/ a = c + 2 THEN Null ELSE IF a = c + 1 THEN s
                ELSE IF a = c THEN FreeCanary ELSE IF a = b + 1 THEN r + 4 ELSE m[a]
    BY <1>1, <1>5, <1>6, <1>7, <1>8, <1>9, <2>1
  <2>3. QED BY <1>1, <1>10, <1>11, <1>12, <2>1, <2>2
<1>14. CASE ~Splits(m, b, r)
  BY <1>3, <1>14
<1>15. CASE Splits(m, b, r)
  <2>1. SplitIfRequired(m, b, r) = m8 /\ s >= 4
    BY <1>2, <1>3, <1>15
  <2>2. QED BY <1>12, <1>13, <1>15, <2>1 DEF c, s
<1>16. QED BY <1>14, <1>15

\* What remove_from_free_list, the header and the client make of m1.
CarvedFrom(h, g, b, n, m1) ==
    /\ g \in SubHeaps /\ g.available = h.available
    /\ g.list = IF b = h.list THEN m1[b + 3] ELSE h.list
    /\ \A a \in Addresses : g.storage[a] =
        IF a \in b + 2 .. b + 2 + n - 1 THEN Data(b)
        ELSE IF a = b + 1 THEN BlockRequest(n)
        ELSE IF a = b THEN AllocatedCanary
        ELSE IF m1[b + 2] # Null /\ a = m1[b + 2] + 3 THEN m1[b + 3]
        ELSE IF m1[b + 3] # Null /\ a = m1[b + 3] + 2 THEN m1[b + 2]
        ELSE m1[a]

LEMMA CarveWrites ==
    ASSUME NEW h \in SubHeaps, NEW b \in Nat, b + 4 <= Capacity, NEW n \in Requests, NEW m1 \in Storage,
           m1 = SplitIfRequired(h.storage, b, BlockRequest(n)), m1[b + 3] \in Addresses \cup {Null}
    PROVE  CarvedFrom(h, Carve(h, b, n), b, n, m1)
<1> DEFINE r == BlockRequest(n)
           q == m1[b + 3]
           p == m1[b + 2]
           mA == IF q = Null THEN m1 ELSE [m1 EXCEPT ![q + 2] = p]
           mB == IF p = Null THEN mA ELSE [mA EXCEPT ![p + 3] = q]
           mC == [mB EXCEPT ![b] = AllocatedCanary]
           mD == [mC EXCEPT ![b + 1] = r]
           mE == [a \in Addresses |-> IF a \in b + 2 .. b + 2 + n - 1 THEN Data(b) ELSE mD[a]]
           h1 == [h EXCEPT !.storage = m1]
           g == RemoveFromFreeList(h1, b)
           f == IF b = h.list THEN q ELSE h.list
<1>1. h1 \in SubHeaps /\ h1.storage = m1 /\ h1.list = h.list /\ h1.available = h.available
  BY DEF SubHeaps
<1>2. g = [h1 EXCEPT !.storage = mB, !.list = f]
  BY <1>1 DEF RemoveFromFreeList, NextBlock, Previous
<1>3. r \in Int /\ n \in Nat /\ q \in Int /\ p \in Int
  <2>1. r \in Int /\ n \in Nat
    BY RequestSize, Numbers
  <2>2. b + 2 \in Addresses /\ b + 3 \in Addresses
    BY Numbers DEF Addresses
  <2>3. QED BY <2>1, <2>2 DEF Storage
<1>4. AllocatedCanary \in Int /\ Data(b) \in Int
  BY DEF AllocatedCanary, Data
<1> HIDE DEF r, q, p
<1>5. mA \in Storage /\ \A a \in Addresses : mA[a] = IF q # Null /\ a = q + 2 THEN p ELSE m1[a]
  <2>1. CASE q = Null
    BY <2>1
  <2>2. CASE q # Null
    <3>1. mA = [m1 EXCEPT ![q + 2] = p]
      BY <2>2
    <3> HIDE DEF mA
    <3>2. QED BY <1>3, <2>2, <3>1 DEF Storage
  <2>3. QED BY <2>1, <2>2
<1> HIDE DEF mA
<1>6. mB \in Storage /\ \A a \in Addresses : mB[a] = IF p # Null /\ a = p + 3 THEN q ELSE mA[a]
  <2>1. CASE p = Null
    BY <1>5, <2>1
  <2>2. CASE p # Null
    <3>1. mB = [mA EXCEPT ![p + 3] = q]
      BY <2>2
    <3> HIDE DEF mB
    <3>2. QED BY <1>3, <1>5, <2>2, <3>1 DEF Storage
  <2>3. QED BY <2>1, <2>2
<1> HIDE DEF mB
<1>7. mC \in Storage /\ \A a \in Addresses : mC[a] = IF a = b THEN AllocatedCanary ELSE mB[a]
  BY <1>4, <1>6 DEF Storage
<1> HIDE DEF mC
<1>8. mD \in Storage /\ \A a \in Addresses : mD[a] = IF a = b + 1 THEN r ELSE mC[a]
  BY <1>3, <1>7 DEF Storage
<1>9. NewAllocatedBlock(mB, b, r) = mD
  BY DEF NewAllocatedBlock, mC
<1> HIDE DEF mD
<1>10. DOMAIN mD = Addresses
  BY <1>8 DEF Storage
<1>11. mE \in Storage
  BY <1>4, <1>8 DEF Storage
<1>12. /\ g.storage = mB /\ g.list = f /\ g.available = h.available
       /\ g = [storage |-> mB, list |-> f, available |-> h.available]
  <2> HIDE DEF f, g
  <2>1. g = [storage |-> mB, list |-> f, available |-> h.available]
    BY <1>1, <1>2 DEF SubHeaps
  <2>2. QED BY <2>1
<1>13. Carve(h, b, n) = [g EXCEPT !.storage = mE]
  <2>1. Carve(h, b, n) = [g EXCEPT !.storage =
            [a \in DOMAIN NewAllocatedBlock(g.storage, b, r) |->
                IF a \in b + AllocatedWords .. b + AllocatedWords + n - 1 THEN Data(b)
                ELSE NewAllocatedBlock(g.storage, b, r)[a]]]
    BY DEF Carve, r
  <2> HIDE DEF g
  <2>2. NewAllocatedBlock(g.storage, b, r) = mD
    BY <1>9, <1>12
  <2>3. QED BY <1>10, <2>1, <2>2 DEF AllocatedWords
<1> HIDE DEF g
<1>14. f \in Addresses \cup {Null} /\ h.available \in {0, Capacity}
  BY DEF q, SubHeaps
<1>15. Carve(h, b, n) = [storage |-> mE, list |-> f, available |-> h.available]
  BY <1>12, <1>13
<1>16. \A a \in Addresses : mE[a] = IF a \in b + 2 .. b + 2 + n - 1 THEN Data(b) ELSE mD[a]
  OBVIOUS
<1> HIDE DEF f, mE
<1>17. Carve(h, b, n) \in SubHeaps
  BY <1>11, <1>14, <1>15 DEF SubHeaps
<1>18. \A a \in Addresses : mE[a] =
                IF a \in b + 2 .. b + 2 + n - 1 THEN Data(b)
                ELSE IF a = b + 1 THEN r
                ELSE IF a = b THEN AllocatedCanary
                ELSE IF p # Null /\ a = p + 3 THEN q
                ELSE IF q # Null /\ a = q + 2 THEN p
                ELSE m1[a]
  BY <1>5, <1>6, <1>7, <1>8, <1>16
<1>19. QED BY <1>15, <1>17, <1>18 DEF CarvedFrom, f, r, p, q

\* Writing inside the block b, to the m_next of p and to the m_previous of
\* free blocks leaves the other blocks as they are.
Overwrites(m, m2, F, b, p) ==
    \A a \in Addresses : \/ m2[a] = m[a] \/ (b <= a /\ a < End(m, b))
                         \/ \E x \in F : a = x + 2
                         \/ p \in F /\ a = p + 3

LEMMA BlockWrites ==
    ASSUME NEW m, NEW f, NEW F, NEW L, NEW S, Sound(m, f, F, L, S), NEW b \in F, NEW p, NEW m2,
           Overwrites(m, m2, F, b, p)
    PROVE  Agree(m, m2, F \ {b}, L) /\ \A x \in F \ {b} : x # p => m2[x + 3] = m[x + 3]
<1>1. m \in Storage /\ Blocks(m, F) /\ InUse(m, L) /\ Separate(m, F, L)
  BY DEF Sound
<1>2. \A x \in F : {x, x + 1, x + 3} \subseteq Addresses /\ x \in Nat /\ End(m, x) \in Nat /\ End(m, x) >= x + 4
  <2>1. ASSUME NEW x \in F
        PROVE  x \in Nat /\ {x, x + 1, x + 3} \subseteq Addresses /\ m[x + 1] \in Int /\ m[x + 1] >= 4
    BY <1>1, Header
  <2>2. QED BY <2>1 DEF End
<1>3. \A x, y \in F : x # y => x + 4 <= y \/ y + 4 <= x
  BY HeadersApart
<1>4. \A x \in F, l \in L : \A a \in l.addr .. After(l) - 1 : a \in Addresses /\ (a < x \/ x + 4 <= a)
  BY HeadersApart
<1>5. ASSUME NEW x \in F \ {b}, NEW a, a = x \/ a = x + 1 \/ (a = x + 3 /\ x # p) PROVE m2[a] = m[a]
  <2>1. a \in Addresses /\ x \in Nat /\ a \in Nat /\ x <= a /\ a <= x + 3
    BY <1>2, <1>5
  <2>2. ~(b <= a /\ a < End(m, b))
    <3>1. (x < b => End(m, x) <= b) /\ (b < x => End(m, b) <= x) /\ x # b
      BY <1>1 DEF Blocks
    <3>2. b \in Nat /\ End(m, b) \in Nat /\ End(m, x) \in Nat /\ End(m, x) >= x + 4
      BY <1>2
    <3>3. QED BY <2>1, <3>1, <3>2
  <2>3. ASSUME NEW y \in F PROVE a # y + 2 /\ (y = p => a # p + 3)
    <3>1. y \in Nat /\ (x # y => x + 4 <= y \/ y + 4 <= x)
      BY <1>2, <1>3
    <3>2. QED BY <1>5, <2>1, <3>1
  <2>4. QED BY <2>1, <2>2, <2>3 DEF Overwrites
<1>6. ASSUME NEW l \in L, NEW a \in l.addr .. After(l) - 1 PROVE m2[a] = m[a]
  <2>1. l.addr \in Nat /\ After(l) \in Nat
    BY <1>1, ClientSize DEF InUse
  <2>2. a \in Addresses /\ a \in Nat
    BY <1>4, <2>1
  <2>3. ~(b <= a /\ a < End(m, b))
    <3>1. After(l) <= b \/ End(m, b) <= l.addr
      BY <1>1 DEF Separate
    <3>2. b \in Nat /\ End(m, b) \in Nat
      BY <1>2
    <3>3. QED BY <2>1, <3>1, <3>2
  <2>4. ASSUME NEW y \in F PROVE a # y + 2 /\ a # y + 3
    <3>1. y \in Nat /\ (a < y \/ y + 4 <= a)
      BY <1>2, <1>4
    <3>2. QED BY <2>2, <3>1
  <2>5. QED BY <2>2, <2>3, <2>4 DEF Overwrites
<1>7. \A x \in F \ {b} : m2[x] = m[x] /\ m2[x + 1] = m[x + 1] /\ (x # p => m2[x + 3] = m[x + 3])
  <2> SUFFICES ASSUME NEW x \in F \ {b}
               PROVE  m2[x] = m[x] /\ m2[x + 1] = m[x + 1] /\ (x # p => m2[x + 3] = m[x + 3])
    OBVIOUS
  <2>1. QED BY <1>5
<1>8. QED BY <1>6, <1>7 DEF Agree

\* The block b of the list, what follows it, and the words split_if_required
\* and the others write.
LEMMA CarveType ==
    ASSUME NEW h \in SubHeaps, NEW F, NEW L, NEW S, Sound(h.storage, h.list, F, L, S), NEW b \in F,
           NEW n \in Requests, BlockRequest(n) <= h.storage[b + 1] - 2
    PROVE  CarvedFrom(h, Carve(h, b, n), b, n, SplitIfRequired(h.storage, b, BlockRequest(n)))
<1> DEFINE m == h.storage
           r == BlockRequest(n)
           m1 == SplitIfRequired(m, b, r)
<1>1. m \in Storage /\ Blocks(m, F) /\ Chain(m, h.list, F)
  BY DEF Sound
<1>2. /\ b \in Nat /\ b + 4 <= Capacity /\ b + 3 \in Addresses
      /\ m[b + 1] \in Int /\ m[b + 1] >= 4 /\ b + m[b + 1] <= Capacity
  BY <1>1, Header
<1>3. r \in Nat /\ r >= 4 /\ r <= m[b + 1] - 2
  BY RequestSize
<1> HIDE DEF m, r
<1>4. /\ m1 \in Storage
      /\ ~Splits(m, b, r) => m1 = m
      /\ Splits(m, b, r) => /\ m[b + 1] - 2 - r >= 4
                            /\ \A a \in Addresses : m1[a] =
                                      IF a = b + 1 THEN r + 4
                                      ELSE IF a = b + 3 THEN b + 2 + r
                                      ELSE IF a = b + 2 + r THEN FreeCanary
                                      ELSE IF a = b + 2 + r + 1 THEN m[b + 1] - 2 - r
                                      ELSE IF a = b + 2 + r + 2 THEN b
                                      ELSE IF a = b + 2 + r + 3 THEN m[b + 3]
                                      ELSE m[a]
  <2>1. m[b + 1] \in Nat
    BY <1>2
  <2>2. QED BY <1>1, <1>2, <1>3, <2>1, SplitWrites
<1> HIDE DEF m1
<1>5. m1[b + 3] \in Addresses \cup {Null}
  <2>1. CASE Splits(m, b, r)
    <3>1. m1[b + 3] = b + 2 + r /\ m[b + 1] - 2 - r >= 4
      BY <1>2, <1>4, <2>1
    <3>2. QED BY <1>2, <1>3, <3>1, Numbers DEF Addresses
  <2>2. CASE ~Splits(m, b, r)
    <3>1. m1[b + 3] = m[b + 3] /\ Follows(F, b, m[b + 3])
      BY <1>1, <1>4, <2>2 DEF Chain
    <3>2. \A x \in F : x \in Addresses
      BY <1>1, Header
    <3>3. QED BY <3>1, <3>2 DEF Follows
  <2>3. QED BY <2>1, <2>2
<1>6. QED BY <1>2, <1>4, <1>5, CarveWrites DEF m1, m, r

\* Where a free block lies.
LEMMA Surroundings ==
    ASSUME NEW m, NEW f, NEW F, NEW L, NEW S, Sound(m, f, F, L, S), NEW b \in F, NEW p,
           Prior(m, f, F, b, p)
    PROVE  /\ b \in Nat /\ End(m, b) \in Nat /\ End(m, b) <= Capacity /\ b + 4 <= End(m, b)
           /\ End(m, b) = b + m[b + 1] /\ m[b + 1] \in Nat /\ m[b + 3] \in Int
           /\ p = Null \/ (p \in F /\ p \in Nat /\ p + 4 <= b /\ End(m, p) <= b /\ End(m, p) \in Nat)
           /\ p = Null <=> b = f
           /\ m[b + 3] = Null \/ (m[b + 3] \in F /\ m[b + 3] \in Nat /\ End(m, b) <= m[b + 3])
           /\ \A a \in b .. End(m, b) - 1 : a \in Addresses /\ a \notin S
           /\ \A x \in F : x # b => x < b \/ End(m, b) <= x
           /\ \A x \in F : x \in Nat /\ x # Null
<1>1. m \in Storage /\ Blocks(m, F) /\ Chain(m, f, F) /\ Accounted(m, F, L, S)
  BY DEF Sound
<1>2. \A x \in F : /\ x \in Nat /\ x # Null /\ End(m, x) \in Nat /\ x + 4 <= End(m, x) /\ End(m, x) <= Capacity
                   /\ End(m, x) = x + m[x + 1] /\ m[x + 1] \in Nat /\ m[x + 3] \in Int
  <2>1. ASSUME NEW x \in F
        PROVE  /\ x \in Nat /\ m[x + 1] \in Int /\ m[x + 1] >= 4 /\ x + m[x + 1] <= Capacity
               /\ m[x + 3] \in Int
    BY <1>1, Header
  <2>2. QED BY <2>1 DEF End, Null
<1>3. p = Null \/ (p \in F /\ p \in Nat /\ p + 4 <= b /\ End(m, p) <= b /\ End(m, p) \in Nat)
  <2>1. CASE p \in F
    <3>1. End(m, p) <= b
      BY <1>1, <2>1, OnePrior
    <3>2. p \in Nat /\ b \in Nat /\ End(m, p) \in Nat /\ p + 4 <= End(m, p)
      BY <1>2, <2>1
    <3>3. QED BY <2>1, <3>1, <3>2
  <2>2. QED BY <2>1 DEF Prior
<1>4. p = Null <=> b = f
  BY <1>2 DEF Prior
<1>5. m[b + 3] = Null \/ (m[b + 3] \in F /\ m[b + 3] \in Nat /\ End(m, b) <= m[b + 3])
  <2> DEFINE q == m[b + 3]
  <2>1. Follows(F, b, q)
    BY <1>1 DEF Chain
  <2> HIDE DEF q
  <2>2. q = Null \/ (q \in F /\ b < q)
    BY <2>1 DEF Follows
  <2>3. q = Null \/ (q \in F /\ q \in Nat /\ End(m, b) <= q)
    BY <1>1, <1>2, <2>2 DEF Blocks
  <2>4. QED BY <2>3 DEF q
<1>6. ASSUME NEW a \in b .. End(m, b) - 1 PROVE a \in Addresses /\ a \notin S
  <2>1. b \in Nat /\ End(m, b) \in Nat /\ End(m, b) <= Capacity
    BY <1>2
  <2>2. a \in Addresses /\ b <= a /\ a < End(m, b)
    BY <2>1, Numbers DEF Addresses
  <2>3. QED BY <1>1, <2>2 DEF Accounted
<1>7. ASSUME NEW x \in F, x # b PROVE x < b \/ End(m, b) <= x
  <2>1. b < x => End(m, b) <= x
    BY <1>1 DEF Blocks
  <2>2. x \in Nat /\ b \in Nat
    BY <1>2
  <2>3. QED BY <1>7, <2>1, <2>2
<1>8. QED BY <1>2, <1>3, <1>4, <1>5, <1>6, <1>7

\* The whole block is given away; what the request does not need is lost.
LEMMA CarveWhole ==
    ASSUME NEW h \in SubHeaps, NEW F, NEW L, NEW S, Sound(h.storage, h.list, F, L, S),
           Coalesced(h.storage, F), NEW b \in F, NEW n \in Requests,
           BlockRequest(n) <= h.storage[b + 1] - 2,
           Prior(h.storage, h.list, F, b, h.storage[b + 2]),
           ~Splits(h.storage, b, BlockRequest(n)), NEW l \in Clients, l.addr = b, l.size = n
    PROVE  /\ Sound(Carve(h, b, n).storage, Carve(h, b, n).list, F \ {b}, L \cup {l},
                    S \cup (b + 2 + BlockRequest(n) .. b + h.storage[b + 1] - 1))
           /\ Coalesced(Carve(h, b, n).storage, F \ {b})
<1> DEFINE m == h.storage
           f == h.list
           r == BlockRequest(n)
           p == m[b + 2]
           q == m[b + 3]
           e == End(m, b)
           c == b + 2 + r
           m2 == Carve(h, b, n).storage
           f2 == IF b = f THEN q ELSE f
           T == S \cup (b .. e - 1)
<1>1. /\ Sound(m, f, F, L, S) /\ Coalesced(m, F) /\ Prior(m, f, F, b, p)
      /\ r \in Nat /\ r >= 4 /\ r >= n /\ n \in Nat /\ n >= 1 /\ r <= m[b + 1] - 2
  BY RequestSize, Numbers
<1>2. /\ b \in Nat /\ e \in Nat /\ e <= Capacity /\ b + 4 <= e
      /\ e = b + m[b + 1] /\ m[b + 1] \in Nat /\ q \in Int
      /\ p = Null \/ (p \in F /\ p \in Nat /\ p + 4 <= b /\ End(m, p) <= b /\ End(m, p) \in Nat)
      /\ p = Null <=> b = f
      /\ q = Null \/ (q \in F /\ q \in Nat /\ e <= q)
      /\ \A a \in b .. e - 1 : a \in Addresses /\ a \notin S
      /\ \A x \in F : x # b => x < b \/ e <= x
      /\ \A x \in F : x \in Nat /\ x # Null
  <2> HIDE DEF m, f, p
  <2>1. QED BY <1>1, Surroundings
<1>3. c \in Nat /\ c <= e
  <2> HIDE DEF r, m, e
  <2>1. QED BY <1>1, <1>2
<1>4. SplitIfRequired(m, b, r) = m
  BY DEF SplitIfRequired
<1>5. /\ Carve(h, b, n) \in SubHeaps /\ Carve(h, b, n).list = f2
      /\ \A a \in Addresses : m2[a] =
                IF a \in b + 2 .. b + 2 + n - 1 THEN Data(b)
                ELSE IF a = b + 1 THEN r
                ELSE IF a = b THEN AllocatedCanary
                ELSE IF p # Null /\ a = p + 3 THEN q
                ELSE IF q # Null /\ a = q + 2 THEN p
                ELSE m[a]
  <2> DEFINE m1 == SplitIfRequired(h.storage, b, BlockRequest(n))
             g == Carve(h, b, n)
  <2>1. CarvedFrom(h, g, b, n, m1)
    BY CarveType
  <2>2. m1 = m
    BY <1>4
  <2> HIDE DEF m, m1, r, g
  <2>3. QED BY <2>1, <2>2 DEF CarvedFrom, m, r, g
<1>6. m2 \in Storage
  BY <1>5 DEF SubHeaps
<1> HIDE DEF m, f, r, p, q, m2, e, c
<1>7. Overwrites(m, m2, F, b, p)
  <2> SUFFICES ASSUME NEW a \in Addresses
               PROVE  \/ m2[a] = m[a] \/ (b <= a /\ a < e)
                      \/ \E x \in F : a = x + 2
                      \/ p \in F /\ a = p + 3
    BY DEF Overwrites, e
  <2>1. a \in Nat
    BY DEF Addresses
  <2>2. CASE b <= a /\ a < e
    BY <2>2
  <2>3. CASE ~(b <= a /\ a < e)
    <3>1. a \notin b + 2 .. b + 2 + n - 1 /\ a # b + 1 /\ a # b
      BY <1>1, <1>2, <1>3, <2>1, <2>3 DEF c
    <3>2. QED BY <1>2, <1>5, <3>1
  <2>4. QED BY <2>2, <2>3
<1>8. Agree(m, m2, F \ {b}, L) /\ \A x \in F \ {b} : x # p => m2[x + 3] = m[x + 3]
  BY <1>1, <1>7, BlockWrites
<1>9. p \in F => m2[p + 3] = q
  <2> SUFFICES ASSUME p \in F PROVE m2[p + 3] = q
    OBVIOUS
  <2>1. p \in Nat /\ p + 4 <= b /\ p # Null
    BY <1>2
  <2>2. p + 3 \in Addresses /\ p + 3 \notin b + 2 .. b + 2 + n - 1 /\ p + 3 # b + 1 /\ p + 3 # b
    BY <1>2, <2>1, Numbers DEF Addresses
  <2>3. QED BY <1>5, <2>1, <2>2
<1>10. Sound(m2, f2, F \ {b}, L, T)
  <2>1. \A x \in F \ {b} : m2[x + 3] = IF x = p THEN m[b + 3] ELSE m[x + 3]
    BY <1>8, <1>9 DEF q
  <2>2. Sound(m2, IF b = f THEN m[b + 3] ELSE f, F \ {b}, L, S \cup (b .. End(m, b) - 1))
    <3>1. Unlinked(m, m2, F, L, b, p)
      BY <1>6, <1>8, <2>1 DEF Unlinked
    <3>2. QED BY <1>1, <3>1, Unlink
  <2>3. QED BY <2>2 DEF q, e
<1>11. After(l) = c /\ BlockRequest(l.size) = r
  BY DEF After, AllocatedWords, c, r
<1>12. /\ m2[b] = AllocatedCanary /\ m2[b + 1] = r
       /\ \A a \in b + 2 .. b + 2 + n - 1 : m2[a] = Data(b)
  <2>1. b \in Addresses /\ b + 1 \in Addresses /\ b # b + 1
    BY <1>2
  <2>2. b \notin b + 2 .. b + 2 + n - 1 /\ b + 1 \notin b + 2 .. b + 2 + n - 1
    BY <1>1, <1>2
  <2>3. \A a \in b + 2 .. b + 2 + n - 1 : a \in Addresses
    <3> SUFFICES ASSUME NEW a \in b + 2 .. b + 2 + n - 1 PROVE a \in b .. e - 1
      BY <1>2
    <3>1. QED BY <1>1, <1>2, <1>3 DEF c
  <2>4. QED BY <1>5, <2>1, <2>2, <2>3
<1>13. Sound(m2, f2, F \ {b}, L \cup {l}, T \ (b .. c - 1))
  <2>1. After(l) <= Capacity /\ l.addr .. After(l) - 1 \subseteq T
    <3>1. ASSUME NEW a \in b .. c - 1 PROVE a \in b .. e - 1
      BY <1>2, <1>3
    <3>2. l.addr .. After(l) - 1 = b .. c - 1 /\ After(l) <= Capacity
      BY <1>2, <1>3, <1>11, Numbers
    <3> HIDE DEF T
    <3>3. \A a \in b .. e - 1 : a \in T
      BY DEF T
    <3>4. QED BY <3>1, <3>2, <3>3
  <2>2. /\ m2[l.addr] = AllocatedCanary /\ m2[l.addr + 1] = BlockRequest(l.size)
        /\ \A a \in l.addr + AllocatedWords .. l.addr + AllocatedWords + l.size - 1 : m2[a] = Data(l.addr)
    BY <1>11, <1>12 DEF AllocatedWords
  <2>3. Sound(m2, f2, F \ {b}, L \cup {l}, T \ (l.addr .. After(l) - 1))
    <3> HIDE DEF T, f2
    <3>1. QED BY <1>10, <2>1, <2>2, Grant
  <2>4. QED BY <1>11, <2>3
<1>14. T \ (b .. c - 1) = S \cup (c .. e - 1)
  <2>1. \A a \in b .. e - 1 : a \notin S
    BY <1>2
  <2>2. b .. e - 1 = (b .. c - 1) \cup (c .. e - 1)
    <3>1. b <= c
      BY <1>1, <1>2 DEF c
    <3>2. \A a : a \in b .. e - 1 <=> a \in b .. c - 1 \/ a \in c .. e - 1
      BY <1>2, <1>3, <3>1
    <3>3. QED BY <3>2
  <2>3. \A a \in c .. e - 1 : a \notin b .. c - 1
    BY <1>2, <1>3
  <2> DEFINE A == b .. c - 1
             B == c .. e - 1
  <2>4. T = S \cup A \cup B /\ (\A a \in A : a \notin S) /\ \A a \in B : a \notin A
    BY <2>1, <2>2, <2>3
  <2> HIDE DEF A, B, T
  <2>5. T \ A = S \cup B
    BY <2>4
  <2>6. QED BY <2>5 DEF A, B
<1>15. Coalesced(m2, F \ {b})
  <2> SUFFICES ASSUME NEW x \in F \ {b} PROVE Alone(m2, x)
    BY DEF Coalesced
  <2>1. End(m2, x) = End(m, x)
    BY <1>8 DEF Agree, End
  <2>2. CASE x = p
    <3>1. m2[x + 3] = q /\ End(m, x) <= b /\ End(m, x) \in Nat
      BY <1>2, <1>9, <2>2
    <3>2. q # End(m, x)
      BY <1>2, <3>1 DEF Null
    <3>3. QED BY <2>1, <3>1, <3>2 DEF Alone
  <2>3. CASE x # p
    BY <1>1, <1>8, <2>1, <2>3 DEF Coalesced, Alone
  <2>4. QED BY <2>2, <2>3
<1>16. c .. e - 1 = b + 2 + r .. b + m[b + 1] - 1
  <2>1. e - 1 = b + m[b + 1] - 1
    BY <1>2
  <2>2. QED BY <2>1 DEF c
<1>17. Sound(m2, Carve(h, b, n).list, F \ {b}, L \cup {l}, S \cup (b + 2 + r .. b + m[b + 1] - 1))
  <2> HIDE DEF T, f2
  <2>1. QED BY <1>5, <1>13, <1>14, <1>16
<1>18. QED BY <1>15, <1>17 DEF m2, m, r

\* The block is split; its right-hand part takes its place on the list.
LEMMA CarveSplit ==
    ASSUME NEW h \in SubHeaps, NEW F, NEW L, NEW S, Sound(h.storage, h.list, F, L, S),
           Coalesced(h.storage, F), NEW b \in F, NEW n \in Requests,
           BlockRequest(n) <= h.storage[b + 1] - 2,
           Prior(h.storage, h.list, F, b, h.storage[b + 2]),
           Splits(h.storage, b, BlockRequest(n)), NEW l \in Clients, l.addr = b, l.size = n
    PROVE  \E E : /\ Sound(Carve(h, b, n).storage, Carve(h, b, n).list, E, L \cup {l}, S)
                  /\ Coalesced(Carve(h, b, n).storage, E)
<1> DEFINE m == h.storage
           f == h.list
           r == BlockRequest(n)
           p == m[b + 2]
           q == m[b + 3]
           e == End(m, b)
           c == b + 2 + r
           s == m[b + 1] - 2 - r
           m1 == SplitIfRequired(m, b, r)
           m2 == Carve(h, b, n).storage
           mA == [m EXCEPT ![p + 3] = IF p \in F THEN q ELSE m[p + 3]]
           fA == IF b = f THEN q ELSE f
           f2 == IF b = f THEN c ELSE f
           T == S \cup (b .. e - 1)
           G == F \ {b}
<1>1. /\ Sound(m, f, F, L, S) /\ Coalesced(m, F) /\ Prior(m, f, F, b, p)
      /\ r \in Nat /\ r >= 4 /\ r >= n /\ n \in Nat /\ n >= 1 /\ r <= m[b + 1] - 2
  BY RequestSize, Numbers
<1>2. /\ b \in Nat /\ e \in Nat /\ e <= Capacity /\ b + 4 <= e
      /\ e = b + m[b + 1] /\ m[b + 1] \in Nat /\ q \in Int
      /\ p = Null \/ (p \in F /\ p \in Nat /\ p + 4 <= b /\ End(m, p) <= b /\ End(m, p) \in Nat)
      /\ p = Null <=> b = f
      /\ q = Null \/ (q \in F /\ q \in Nat /\ e <= q)
      /\ \A a \in b .. e - 1 : a \in Addresses /\ a \notin S
      /\ \A x \in F : x # b => x < b \/ e <= x
      /\ \A x \in F : x \in Nat /\ x # Null
  <2> HIDE DEF m, f, p
  <2>1. QED BY <1>1, Surroundings
<1>3. /\ m1 \in Storage /\ s >= 4
      /\ \A a \in Addresses : m1[a] =
                IF a = b + 1 THEN r + 4
                ELSE IF a = b + 3 THEN c
                ELSE IF a = c THEN FreeCanary
                ELSE IF a = c + 1 THEN s
                ELSE IF a = c + 2 THEN b
                ELSE IF a = c + 3 THEN q
                ELSE m[a]
  <2>1. Splits(m, b, r) /\ m \in Storage
    BY DEF SubHeaps
  <2> HIDE DEF m, r
  <2>2. b + m[b + 1] <= Capacity
    BY <1>2
  <2>3. QED BY <1>1, <1>2, <2>1, <2>2, SplitWrites
<1>4. CarvedFrom(h, Carve(h, b, n), b, n, m1)
  BY CarveType
<1>5. m \in Storage
  BY DEF SubHeaps
<1> HIDE DEF m, f, r, p, q, m1, e, c, s
<1>6. c \in Nat /\ c >= b + 6 /\ s \in Nat /\ e = c + s
  BY <1>1, <1>2, <1>3 DEF c, s
<1>7. m1[b + 2] = p /\ m1[b + 3] = c
  <2>1. b + 2 \in Addresses /\ b + 3 \in Addresses
    BY <1>2
  <2>2. b + 2 # b + 1 /\ b + 2 # b + 3 /\ b + 2 # c /\ b + 2 # c + 1 /\ b + 2 # c + 2 /\ b + 2 # c + 3 /\ b + 3 # b + 1
    BY <1>2, <1>6
  <2>3. QED BY <1>3, <2>1, <2>2 DEF p
<1>8. /\ Carve(h, b, n) \in SubHeaps /\ Carve(h, b, n).list = f2
      /\ \A a \in Addresses : m2[a] =
            IF a \in b + 2 .. b + 2 + n - 1 THEN Data(b)
            ELSE IF a = b + 1 THEN r
            ELSE IF a = b THEN AllocatedCanary
            ELSE IF p # Null /\ a = p + 3 THEN c
            ELSE IF a = c + 2 THEN p
            ELSE m1[a]
  <2>1. c # Null
    BY <1>6 DEF Null
  <2>2. QED BY <1>4, <1>7, <2>1 DEF CarvedFrom, f, r
<1>9. m2 \in Storage
  BY <1>8 DEF SubHeaps
<1> HIDE DEF m2
<1>10. ASSUME NEW a \in Addresses, a \notin b .. e - 1
       PROVE  m2[a] = IF p # Null /\ a = p + 3 THEN c ELSE m[a]
  <2>1. a \in Nat
    BY DEF Addresses
  <2>2. /\ a \notin b + 2 .. b + 2 + n - 1 /\ a # b + 1 /\ a # b /\ a # b + 3
        /\ a # c /\ a # c + 1 /\ a # c + 2 /\ a # c + 3
    <3>1. b + 2 + n <= c
      BY <1>1, <1>2 DEF c
    <3>2. QED BY <1>1, <1>2, <1>3, <1>6, <1>10, <2>1, <3>1
  <2>3. m1[a] = m[a]
    BY <1>3, <2>2
  <2>4. QED BY <1>8, <2>2, <2>3
<1>11. ASSUME NEW i \in {0, 1, 2, 3}
       PROVE  /\ c + i \in Addresses /\ c + i \notin b + 2 .. b + 2 + n - 1
              /\ c + i # b + 1 /\ c + i # b /\ c + i # b + 3 /\ (p # Null => c + i # p + 3)
  <2>1. c + i \in b .. e - 1
    BY <1>2, <1>3, <1>6
  <2>2. b + 2 + n <= c
    BY <1>1, <1>2 DEF c
  <2>3. QED BY <1>1, <1>2, <1>6, <2>1, <2>2
<1>12. m2[c] = FreeCanary /\ m2[c + 1] = s /\ m2[c + 2] = p /\ m2[c + 3] = q
  <2>1. c + 0 = c
    BY <1>6
  <2>2. /\ c \in Addresses /\ c \notin b + 2 .. b + 2 + n - 1
        /\ c # b + 1 /\ c # b /\ c # b + 3 /\ (p # Null => c # p + 3)
    BY <1>11, <2>1
  <2>3. m2[c] = FreeCanary
    BY <1>3, <1>6, <1>8, <2>2
  <2>4. m2[c + 1] = s
    BY <1>3, <1>6, <1>8, <1>11
  <2>5. m2[c + 2] = p
    BY <1>6, <1>8, <1>11
  <2>6. m2[c + 3] = q
    BY <1>3, <1>6, <1>8, <1>11
  <2>7. QED BY <2>3, <2>4, <2>5, <2>6
<1>13. /\ m2[b] = AllocatedCanary /\ m2[b + 1] = r
       /\ \A a \in b + 2 .. b + 2 + n - 1 : m2[a] = Data(b)
  <2>1. b \in Addresses /\ b + 1 \in Addresses /\ b # b + 1
    BY <1>2
  <2>2. b \notin b + 2 .. b + 2 + n - 1 /\ b + 1 \notin b + 2 .. b + 2 + n - 1
    BY <1>1, <1>2
  <2>3. \A a \in b + 2 .. b + 2 + n - 1 : a \in Addresses
    <3> SUFFICES ASSUME NEW a \in b + 2 .. b + 2 + n - 1 PROVE a \in b .. e - 1
      BY <1>2
    <3>1. QED BY <1>1, <1>2, <1>6 DEF c
  <2>4. QED BY <1>8, <2>1, <2>2, <2>3
<1>14. p \in F => /\ p + 3 \in Addresses /\ p + 3 \notin b .. e - 1
  BY <1>2, Numbers DEF Addresses
<1>15. /\ mA \in Storage
       /\ \A a \in Addresses : mA[a] = IF p \in F /\ a = p + 3 THEN q ELSE m[a]
  <2>1. CASE p \in F
    BY <1>2, <1>5, <2>1 DEF Storage
  <2>2. CASE p \notin F
    BY <1>5, <2>2 DEF Storage
  <2>3. QED BY <2>1, <2>2
<1> HIDE DEF mA
<1>16. Overwrites(m, mA, F, b, p) /\ Overwrites(m, m2, F, b, p)
  <2>1. Overwrites(m, mA, F, b, p)
    BY <1>15 DEF Overwrites
  <2>2. ASSUME NEW a \in Addresses
        PROVE  m2[a] = m[a] \/ (b <= a /\ a < e) \/ (p \in F /\ a = p + 3)
    <3>1. b \in Nat /\ e \in Nat /\ a \in Nat
      BY <1>2 DEF Addresses
    <3>2. CASE a \notin b .. e - 1
      <4>1. m2[a] = IF p # Null /\ a = p + 3 THEN c ELSE m[a]
        BY <1>10, <3>2
      <4>2. p # Null => p \in F
        BY <1>2
      <4>3. QED BY <4>1, <4>2
    <3>3. QED BY <3>1, <3>2
  <2>3. QED BY <2>1, <2>2 DEF Overwrites, e
<1>17. /\ Agree(m, mA, G, L) /\ \A x \in G : x # p => mA[x + 3] = m[x + 3]
       /\ Agree(m, m2, G, L) /\ \A x \in G : x # p => m2[x + 3] = m[x + 3]
  <2>1. Agree(m, mA, G, L) /\ \A x \in G : x # p => mA[x + 3] = m[x + 3]
    BY <1>1, <1>16, BlockWrites
  <2>2. Agree(m, m2, G, L) /\ \A x \in G : x # p => m2[x + 3] = m[x + 3]
    BY <1>1, <1>16, BlockWrites
  <2>3. QED BY <2>1, <2>2
<1>18. p \in F => mA[p + 3] = q /\ m2[p + 3] = c
  BY <1>2, <1>10, <1>14, <1>15
<1>19. Sound(mA, fA, G, L, T)
  <2>1. \A x \in G : mA[x + 3] = IF x = p THEN m[b + 3] ELSE m[x + 3]
    BY <1>17, <1>18 DEF q
  <2>2. Unlinked(m, mA, F, L, b, p)
    BY <1>15, <1>17, <2>1 DEF Unlinked
  <2>3. Sound(mA, IF b = f THEN m[b + 3] ELSE f, F \ {b}, L, S \cup (b .. End(m, b) - 1))
    BY <1>1, <2>2, Unlink
  <2>4. QED BY <2>3 DEF q, e
<1>20. Between(G, p, c, q)
  <2>1. \A x \in G : x \in Nat /\ (x < b \/ e <= x) /\ (x <= b \/ c < x)
    BY <1>2, <1>3, <1>6
  <2>2. \/ p = Null /\ \A x \in G : c < x
        \/ p \in G /\ p < c /\ \A x \in G : x <= p \/ c < x
    <3>1. m \in Storage /\ Blocks(m, F) /\ Chain(m, f, F)
      BY <1>1 DEF Sound
    <3>2. /\ p \in F => \A x \in F : x <= p \/ b <= x
          /\ p \notin F => \A x \in F : b <= x
      BY <1>1, <3>1, OnePrior
    <3>3. CASE p = Null
      <4>1. \A x \in G : b <= x
        BY <1>2, <3>2, <3>3
      <4>2. QED BY <1>2, <2>1, <3>3, <4>1
    <3>4. CASE p \in F /\ p \in Nat /\ p + 4 <= b
      <4>1. p \in G /\ p < c
        BY <1>2, <1>6, <3>4
      <4>2. \A x \in G : x <= p \/ c < x
        BY <1>2, <2>1, <3>2, <3>4
      <4>3. QED BY <4>1, <4>2
    <3>5. QED BY <1>2, <3>3, <3>4
  <2>3. Follows(G, c, q)
    <3>1. Follows(F, b, q)
      BY <1>1 DEF Sound, Chain, q
    <3>2. CASE q = Null /\ \A x \in F : x <= b
      <4>1. \A x \in G : x <= c
        BY <1>2, <1>6, <3>2
      <4>2. QED BY <3>2, <4>1 DEF Follows
    <3>3. CASE q \in F /\ b < q /\ \A x \in F : x <= b \/ q <= x
      <4>1. q \in G /\ c < q
        BY <1>2, <1>3, <1>6, <3>3
      <4>2. \A x \in G : x <= c \/ q <= x
        BY <1>2, <1>6, <3>3
      <4>3. QED BY <4>1, <4>2 DEF Follows
    <3>4. QED BY <3>1, <3>2, <3>3 DEF Follows
  <2>4. QED BY <2>2, <2>3 DEF Between
<1>21. Placed(mA, m2, G, L, p, c, q, s)
  <2>1. Agree(mA, m2, G, L)
    BY <1>17 DEF Agree
  <2>2. \A x \in G : m2[x + 3] = IF x = p THEN c ELSE mA[x + 3]
    BY <1>17, <1>18
  <2>3. QED BY <1>9, <1>12, <1>20, <2>1, <2>2 DEF Placed
<1>22. Room(T, c, s)
  <2>1. ASSUME NEW a \in c .. c + s - 1 PROVE a \in T
    <3>1. a \in b .. e - 1
      BY <1>2, <1>6
    <3>2. QED BY <3>1
  <2>2. c + s <= Capacity
    BY <1>2, <1>6
  <2> HIDE DEF T
  <2>3. QED BY <1>3, <1>6, <2>1, <2>2 DEF Room
<1>23. Sound(m2, f2, G \cup {c}, L, T \ (c .. c + s - 1))
  <2> DEFINE D == T \ (c .. c + s - 1)
  <2> HIDE DEF T, G, fA
  <2>1. Sound(m2, IF p = Null THEN c ELSE fA, G \cup {c}, L, D)
    BY <1>19, <1>21, <1>22, Link
  <2>2. (IF p = Null THEN c ELSE fA) = f2
    BY <1>2 DEF fA
  <2>3. QED BY <2>1, <2>2
<1>24. After(l) = c /\ BlockRequest(l.size) = r
  BY DEF After, AllocatedWords, c, r
<1>25. Sound(m2, f2, G \cup {c}, L \cup {l}, (T \ (c .. c + s - 1)) \ (b .. c - 1))
  <2> DEFINE D == T \ (c .. c + s - 1)
  <2>1. After(l) <= Capacity /\ l.addr .. After(l) - 1 \subseteq D
    <3>1. ASSUME NEW a \in b .. c - 1 PROVE a \in b .. e - 1 /\ a \notin c .. c + s - 1
      BY <1>2, <1>6
    <3>2. l.addr .. After(l) - 1 = b .. c - 1 /\ After(l) <= Capacity
      BY <1>2, <1>6, <1>24, Numbers
    <3> HIDE DEF T
    <3>3. \A a \in b .. e - 1 : a \in T
      BY DEF T
    <3>4. QED BY <3>1, <3>2, <3>3
  <2>2. /\ m2[l.addr] = AllocatedCanary /\ m2[l.addr + 1] = BlockRequest(l.size)
        /\ \A a \in l.addr + AllocatedWords .. l.addr + AllocatedWords + l.size - 1 : m2[a] = Data(l.addr)
    BY <1>13, <1>24 DEF AllocatedWords
  <2> DEFINE H == G \cup {c}
  <2> HIDE DEF D, f2, H
  <2>3. Sound(m2, f2, H, L, D)
    BY <1>23 DEF D, H
  <2>4. Sound(m2, f2, H, L \cup {l}, D \ (l.addr .. After(l) - 1))
    BY <2>1, <2>2, <2>3, Grant
  <2>5. QED BY <1>24, <2>4 DEF D, H
<1>26. (T \ (c .. c + s - 1)) \ (b .. c - 1) = S
  <2>1. \A a \in b .. e - 1 : a \notin S
    BY <1>2
  <2>2. \A a : a \in b .. e - 1 <=> a \in b .. c - 1 \/ a \in c .. c + s - 1
    BY <1>2, <1>6
  <2> DEFINE A == b .. c - 1
             B == c .. c + s - 1
             C == b .. e - 1
  <2>3. T = S \cup C /\ (\A a \in C : a \notin S) /\ \A a : a \in C <=> a \in A \/ a \in B
    BY <2>1, <2>2
  <2> HIDE DEF A, B, C, T
  <2>4. (T \ B) \ A = S
    BY <2>3
  <2>5. QED BY <2>4 DEF A, B
<1>27. Coalesced(m2, G \cup {c})
  <2> SUFFICES ASSUME NEW x \in G \cup {c} PROVE Alone(m2, x)
    BY DEF Coalesced
  <2>1. CASE x = c
    <3>1. End(m2, x) = e /\ m2[x + 3] = q
      BY <1>6, <1>12, <2>1 DEF End
    <3>2. q # e
      BY <1>1 DEF Coalesced, Alone, q, e
    <3>3. QED BY <3>1, <3>2 DEF Alone
  <2>2. CASE x \in G /\ x = p
    <3>1. End(m2, x) = End(m, x)
      BY <1>17, <2>2 DEF Agree, End
    <3>2. m2[x + 3] = c /\ End(m, x) <= b /\ End(m, x) \in Nat
      BY <1>2, <1>18, <2>2
    <3>3. c # End(m, x)
      BY <1>2, <1>6, <3>2
    <3>4. QED BY <3>1, <3>2, <3>3 DEF Alone
  <2>3. CASE x \in G /\ x # p
    <3>1. End(m2, x) = End(m, x) /\ m2[x + 3] = m[x + 3]
      BY <1>17, <2>3 DEF Agree, End
    <3>2. QED BY <1>1, <2>3, <3>1 DEF Coalesced, Alone
  <2>4. QED BY <2>1, <2>2, <2>3
<1>28. Sound(m2, f2, G \cup {c}, L \cup {l}, S)
  BY <1>25, <1>26
<1>29. QED BY <1>8, <1>27, <1>28 DEF m2

\* allocate carves the client's block out of the block it found, if that
\* block's m_previous is right.
LEMMA Carves ==
    ASSUME NEW h \in SubHeaps, NEW F, NEW L, NEW S, Sound(h.storage, h.list, F, L, S),
           Coalesced(h.storage, F), NEW b \in F, NEW n \in Requests,
           BlockRequest(n) <= h.storage[b + 1] - 2,
           Previous(h.storage, b) = Predecessor(h, b), NEW l \in Clients, l.addr = b, l.size = n
    PROVE  \E E : /\ Sound(Carve(h, b, n).storage, Carve(h, b, n).list, E, L \cup {l},
                           S \cup Remainder(h, b, BlockRequest(n)))
                  /\ Coalesced(Carve(h, b, n).storage, E)
<1>1. Prior(h.storage, h.list, F, b, h.storage[b + 2])
  <2>1. h.storage \in Storage /\ Blocks(h.storage, F) /\ Chain(h.storage, h.list, F)
    BY DEF Sound
  <2>2. Prior(h.storage, h.list, F, b, Predecessor(h, b))
    BY <2>1, PredecessorIs
  <2>3. QED BY <2>2 DEF Previous
<1>2. CASE Splits(h.storage, b, BlockRequest(n))
  <2>1. S \cup Remainder(h, b, BlockRequest(n)) = S
    BY <1>2 DEF Remainder
  <2>2. \E E : /\ Sound(Carve(h, b, n).storage, Carve(h, b, n).list, E, L \cup {l}, S)
               /\ Coalesced(Carve(h, b, n).storage, E)
    BY <1>1, <1>2, CarveSplit
  <2>3. QED BY <2>1, <2>2
<1>3. CASE ~Splits(h.storage, b, BlockRequest(n))
  <2>1. Remainder(h, b, BlockRequest(n)) = b + 2 + BlockRequest(n) .. b + h.storage[b + 1] - 1
    BY <1>3 DEF Remainder, AllocatedWords, BlockSize
  <2>2. /\ Sound(Carve(h, b, n).storage, Carve(h, b, n).list, F \ {b}, L \cup {l},
                 S \cup (b + 2 + BlockRequest(n) .. b + h.storage[b + 1] - 1))
        /\ Coalesced(Carve(h, b, n).storage, F \ {b})
    BY <1>1, <1>3, CarveWhole
  <2>3. QED BY <2>1, <2>2
<1>4. QED BY <1>2, <1>3

\* The lost words lie in the storage.
LEMMA RemainderInside ==
    ASSUME NEW h \in SubHeaps, NEW F, NEW L, NEW S, Sound(h.storage, h.list, F, L, S), NEW b \in F,
           NEW r \in Nat
    PROVE  Remainder(h, b, r) \subseteq Addresses
<1>1. b \in Nat /\ h.storage[b + 1] \in Int /\ b + h.storage[b + 1] <= Capacity
  BY Header DEF Sound
<1>2. QED BY <1>1, Numbers DEF Remainder, AllocatedWords, BlockSize, Addresses

-----------------------------------------------------------------------------
(* The sub-heaps together.                                                 *)

DeadHeap == [storage |-> <<>>, list |-> Null, available |-> 0]

\* A sub-heap without pages has nothing in it; one with pages is sound until
\* a stale link is used.
Orderly(h, L, S, corrupt) ==
    \/ h = DeadHeap /\ L = {} /\ S = {}
    \/ /\ h \in SubHeaps /\ h.available = Capacity
       /\ ~corrupt => \E F : Sound(h.storage, h.list, F, L, S) /\ Coalesced(h.storage, F)

LostIn(i) == {a \in Addresses : <<i, a>> \in slack}

IInv == TypeOK /\ \A i \in DOMAIN heaps : Orderly(heaps[i], LiveIn(i), LostIn(i), stale)

\* initialise makes one free block of all the storage.
LEMMA Fresh ==
    /\ SubHeap(FALSE) = DeadHeap
    /\ Orderly(SubHeap(TRUE), {}, {}, FALSE)
<1> DEFINE h == SubHeap(TRUE)
           z == [a \in 0 .. Capacity - 1 |-> 0]
           m == [z EXCEPT ![0] = FreeCanary, ![1] = Capacity, ![2] = Null, ![3] = Null]
<1>1. SubHeap(FALSE) = DeadHeap
  BY DEF SubHeap, DeadHeap
<1>2. h = [storage |-> m, list |-> 0, available |-> Capacity]
  <2>1. NewFreeBlock(z, 0, Capacity) = m
    BY DEF NewFreeBlock
  <2> HIDE DEF m
  <2>2. QED BY <2>1 DEF SubHeap
<1>3. Capacity \in Nat /\ Capacity > 4 /\ FreeCanary \in Int /\ Null = -1
  BY Numbers DEF FreeCanary, Null
<1>4. m \in Storage /\ m[0] = FreeCanary /\ m[1] = Capacity /\ m[3] = Null
  BY <1>3 DEF Storage, Addresses
<1> HIDE DEF m
<1>5. 0 + 1 = 1 /\ 0 + 3 = 3 /\ End(m, 0) = Capacity
  BY <1>3, <1>4 DEF End
<1>6. Blocks(m, {0})
  BY <1>3, <1>4, <1>5 DEF Blocks, FreeWords
<1>7. Chain(m, 0, {0})
  <2>1. First({0}, 0)
    BY DEF First
  <2>2. Follows({0}, 0, m[0 + 3])
    BY <1>4, <1>5 DEF Follows
  <2>3. QED BY <2>1, <2>2 DEF Chain
<1>8. InUse(m, {}) /\ Separate(m, {0}, {})
  BY DEF InUse, Separate
<1>9. Accounted(m, {0}, {}, {})
  BY <1>3, <1>5 DEF Accounted, Addresses
<1>10. Coalesced(m, {0})
  BY <1>3, <1>4, <1>5 DEF Coalesced, Alone
<1>11. Sound(m, 0, {0}, {}, {})
  BY <1>4, <1>6, <1>7, <1>8, <1>9 DEF Sound
<1>12. h \in SubHeaps /\ h.available = Capacity /\ h.storage = m /\ h.list = 0
  <2>1. 0 \in Addresses
    BY <1>3 DEF Addresses
  <2> HIDE DEF h
  <2>2. QED BY <1>2, <1>4, <2>1 DEF SubHeaps
<1> HIDE DEF h
<1>13. Orderly(h, {}, {}, FALSE)
  BY <1>10, <1>11, <1>12 DEF Orderly
<1>14. QED BY <1>1, <1>13 DEF h

\* r has the sub-heaps hs, and after them new ones with nothing in use.
GrowsTo(hs, r) ==
    /\ r.heaps \in Seq(SubHeaps \cup {DeadHeap})
    /\ Len(r.heaps) >= Len(hs) /\ Len(r.heaps) <= SlabObjects
    /\ \A i \in 1 .. Len(hs) : r.heaps[i] = hs[i]
    /\ \A i \in 1 .. Len(r.heaps) : i > Len(hs) => Orderly(r.heaps[i], {}, {}, FALSE)
    /\ r.chunks \in 0 .. Chunks

\* grow adds a sub-heap, or does nothing.
LEMMA StepGrows ==
    ASSUME NEW hs, hs \in Seq(SubHeaps \cup {DeadHeap}), NEW r, GrowsTo(hs, r), NEW n
    PROVE  GrowsTo(hs, GrowStep(r, n))
<1> DEFINE new == SubHeap(r.chunks > 0)
           k == Append(r.heaps, new)
           c == IF r.chunks > 0 THEN r.chunks - 1 ELSE 0
<1>1. CASE Candidates(r.heaps, n) # {} \/ Len(r.heaps) = SlabObjects
  BY <1>1 DEF GrowStep
<1>2. CASE ~(Candidates(r.heaps, n) # {} \/ Len(r.heaps) = SlabObjects)
  <2>1. GrowStep(r, n).heaps = k /\ GrowStep(r, n).chunks = c
    BY <1>2 DEF GrowStep
  <2>2. Orderly(new, {}, {}, FALSE)
    <3>1. CASE r.chunks > 0
      <4>1. new = SubHeap(TRUE)
        BY <3>1 DEF SubHeap
      <4> HIDE DEF new
      <4>2. QED BY <4>1, Fresh
    <3>2. CASE ~(r.chunks > 0)
      <4>1. new = DeadHeap
        BY <3>2 DEF SubHeap, DeadHeap
      <4>2. QED BY <4>1 DEF Orderly
    <3>3. QED BY <3>1, <3>2
  <2> HIDE DEF new
  <2>3. new \in SubHeaps \cup {DeadHeap}
    BY <2>2 DEF Orderly
  <2>4. /\ r.heaps \in Seq(SubHeaps \cup {DeadHeap}) /\ r.chunks \in 0 .. Chunks
        /\ Len(r.heaps) >= Len(hs) /\ Len(r.heaps) <= SlabObjects
        /\ \A i \in 1 .. Len(hs) : r.heaps[i] = hs[i]
        /\ \A i \in 1 .. Len(r.heaps) : i > Len(hs) => Orderly(r.heaps[i], {}, {}, FALSE)
    BY DEF GrowsTo
  <2>5. /\ k \in Seq(SubHeaps \cup {DeadHeap}) /\ Len(k) = Len(r.heaps) + 1
        /\ \A i \in 1 .. Len(r.heaps) : k[i] = r.heaps[i]
        /\ k[Len(r.heaps) + 1] = new
    <3> DEFINE R == SubHeaps \cup {DeadHeap}
               x == r.heaps
    <3>1. x \in Seq(R) /\ new \in R
      BY <2>3, <2>4
    <3> HIDE DEF R, x
    <3>2. /\ Append(x, new) \in Seq(R) /\ Len(Append(x, new)) = Len(x) + 1
          /\ \A i \in 1 .. Len(x) : Append(x, new)[i] = x[i]
          /\ Append(x, new)[Len(x) + 1] = new
      BY <3>1
    <3>3. QED BY <3>2 DEF R, x
  <2>6. Len(r.heaps) \in Nat /\ Len(hs) \in Nat /\ SlabObjects \in Nat /\ Chunks \in Nat
    BY <2>4, KmallocAssumption
  <2>7. Len(k) >= Len(hs) /\ Len(k) <= SlabObjects
    BY <1>2, <2>4, <2>5, <2>6
  <2>8. c \in 0 .. Chunks
    BY <2>4, <2>6
  <2> HIDE DEF k, c
  <2>9. \A i \in 1 .. Len(hs) : k[i] = hs[i]
    BY <2>4, <2>5, <2>6
  <2>10. ASSUME NEW i \in 1 .. Len(k), i > Len(hs) PROVE Orderly(k[i], {}, {}, FALSE)
    <3>1. CASE i = Len(r.heaps) + 1
      BY <2>2, <2>5, <3>1
    <3>2. CASE i # Len(r.heaps) + 1
      <4>1. i \in 1 .. Len(r.heaps)
        BY <2>5, <2>6, <3>2
      <4>2. QED BY <2>4, <2>5, <2>10, <4>1
    <3>3. QED BY <3>1, <3>2
  <2>11. QED BY <2>1, <2>5, <2>7, <2>8, <2>9, <2>10 DEF GrowsTo
<1>3. QED BY <1>1, <1>2

\* What IInv says of the types, with the sub-heaps as SubHeaps or dead.
LEMMA Types ==
    ASSUME IInv
    PROVE  /\ heaps \in Seq(SubHeaps \cup {DeadHeap}) /\ Len(heaps) \in 1 .. SlabObjects
           /\ chunks \in 0 .. Chunks /\ SlabObjects \in Nat
           /\ \A l \in live : l \in Clients /\ l.heap \in 1 .. Len(heaps)
           /\ \A i : i \notin 1 .. Len(heaps) => LiveIn(i) = {} /\ LostIn(i) = {}
<1>1. /\ Len(heaps) \in 1 .. SlabObjects /\ chunks \in 0 .. Chunks
      /\ slack \subseteq (DOMAIN heaps) \X Addresses
      /\ live \subseteq [heap : DOMAIN heaps, addr : Addresses, size : Requests]
  BY DEF IInv, TypeOK, Addresses
<1>2. SlabObjects \in Nat
  BY KmallocAssumption
<1>3. \E R : heaps \in Seq(R)
  BY DEF IInv, TypeOK
<1>4. DOMAIN heaps = 1 .. Len(heaps) /\ heaps = [i \in 1 .. Len(heaps) |-> heaps[i]]
  BY <1>3
<1>5. \A i \in 1 .. Len(heaps) : heaps[i] \in SubHeaps \cup {DeadHeap}
  BY <1>4 DEF IInv, Orderly
<1>6. heaps \in Seq(SubHeaps \cup {DeadHeap})
  <2> DEFINE R == SubHeaps \cup {DeadHeap}
  <2> HIDE DEF R
  <2>1. Len(heaps) \in Nat /\ \A i \in 1 .. Len(heaps) : heaps[i] \in R
    BY <1>1, <1>2, <1>5 DEF R
  <2>2. heaps \in [1 .. Len(heaps) -> R]
    BY <1>4, <2>1
  <2>3. heaps \in Seq(R)
    BY <2>1, <2>2
  <2>4. QED BY <2>3 DEF R
<1>7. ASSUME NEW l \in live PROVE l \in Clients /\ l.heap \in 1 .. Len(heaps)
  <2>1. l \in [heap : 1 .. Len(heaps), addr : Addresses, size : Requests]
    BY <1>1, <1>4
  <2>2. l.heap \in Nat
    BY <1>1, <1>2, <2>1
  <2>3. QED BY <2>1, <2>2 DEF Clients
<1>8. ASSUME NEW i, i \notin 1 .. Len(heaps) PROVE LiveIn(i) = {} /\ LostIn(i) = {}
  <2>1. LiveIn(i) = {}
    BY <1>7, <1>8 DEF LiveIn
  <2>2. LostIn(i) = {}
    BY <1>1, <1>4, <1>8 DEF LostIn
  <2>3. QED BY <2>1, <2>2
<1>9. QED BY <1>1, <1>2, <1>6, <1>7, <1>8

\* And back: these types are the ones of TypeOK.
LEMMA FromTypes ==
    ASSUME NEW hs, hs \in Seq(SubHeaps \cup {DeadHeap}), NEW lv,
           \A l \in lv : l \in Clients /\ l.heap \in 1 .. Len(hs)
    PROVE  /\ DOMAIN hs = 1 .. Len(hs)
           /\ hs \in Seq([storage : [0 .. Capacity - 1 -> Int] \cup {<<>>},
                         list : 0 .. Capacity - 1 \cup {Null}, available : {0, Capacity}])
           /\ lv \subseteq [heap : DOMAIN hs, addr : 0 .. Capacity - 1, size : Requests]
<1> DEFINE R == SubHeaps \cup {DeadHeap}
           Q == [storage : [0 .. Capacity - 1 -> Int] \cup {<<>>},
                 list : 0 .. Capacity - 1 \cup {Null}, available : {0, Capacity}]
<1>1. R \subseteq Q
  <2>1. SubHeaps \subseteq Q
    BY DEF SubHeaps, Storage, Addresses
  <2>2. DeadHeap \in Q
    BY DEF DeadHeap
  <2>3. QED BY <2>1, <2>2
<1>2. hs \in Seq(R)
  OBVIOUS
<1> HIDE DEF R, Q
<1>3. hs \in Seq(Q) /\ DOMAIN hs = 1 .. Len(hs)
  BY <1>1, <1>2
<1>4. lv \subseteq [heap : DOMAIN hs, addr : 0 .. Capacity - 1, size : Requests]
  BY <1>3 DEF Clients, Addresses
<1>5. QED BY <1>3, <1>4 DEF Q

\* After grow, the sub-heaps hold what they held.
LEMMA GrownOrderly ==
    ASSUME IInv, ~stale, NEW n
    PROVE  /\ GrowsTo(heaps, Grown(n))
           /\ \A i \in 1 .. Len(Grown(n).heaps) :
                Orderly(Grown(n).heaps[i], LiveIn(i), LostIn(i), FALSE)
<1> DEFINE r0 == [heaps |-> heaps, chunks |-> chunks, grown |-> 0]
           r1 == GrowStep(r0, n)
           r2 == GrowStep(r1, n)
           r == GrowStep(r2, n)
<1>1. heaps \in Seq(SubHeaps \cup {DeadHeap}) /\ Len(heaps) \in 1 .. SlabObjects /\ SlabObjects \in Nat
  BY Types
<1>2. Grown(n) = r
  BY DEF Grown
<1>3. GrowsTo(heaps, r0)
  <2>1. r0.heaps = heaps /\ r0.chunks = chunks
    OBVIOUS
  <2> HIDE DEF r0
  <2>2. \A i \in 1 .. Len(heaps) : ~(i > Len(heaps))
    BY <1>1
  <2>3. chunks \in 0 .. Chunks
    BY Types
  <2>4. Len(heaps) >= Len(heaps) /\ Len(heaps) <= SlabObjects
    BY <1>1
  <2>5. QED BY <1>1, <2>1, <2>2, <2>3, <2>4 DEF GrowsTo
<1> HIDE DEF r0
<1>4. GrowsTo(heaps, r1)
  BY <1>1, <1>3, StepGrows
<1> HIDE DEF r1
<1>5. GrowsTo(heaps, r2)
  BY <1>1, <1>4, StepGrows
<1> HIDE DEF r2
<1>6. GrowsTo(heaps, r)
  BY <1>1, <1>5, StepGrows
<1> HIDE DEF r
<1>7. ASSUME NEW i \in 1 .. Len(r.heaps) PROVE Orderly(r.heaps[i], LiveIn(i), LostIn(i), FALSE)
  <2>1. Len(heaps) \in Nat /\ i \in Nat /\ i >= 1
    BY <1>1, <1>6 DEF GrowsTo
  <2>2. CASE i \in 1 .. Len(heaps)
    <3>1. r.heaps[i] = heaps[i] /\ i \in DOMAIN heaps
      BY <1>1, <1>6, <2>2 DEF GrowsTo
    <3>2. QED BY <3>1 DEF IInv, Orderly
  <2>3. CASE i \notin 1 .. Len(heaps)
    <3>1. LiveIn(i) = {} /\ LostIn(i) = {}
      BY <2>3, Types
    <3>2. i > Len(heaps)
      BY <2>1, <2>3
    <3>3. QED BY <1>6, <3>1, <3>2 DEF GrowsTo
  <2>4. QED BY <2>2, <2>3
<1>8. QED BY <1>2, <1>6, <1>7

\* The newest of the candidates is one of them.
LEMMA NewestIs ==
    ASSUME NEW k \in Nat, NEW T, T \subseteq 1 .. k, T # {}
    PROVE  Newest(T) \in T
<1> DEFINE D == {k - i : i \in T}
<1>1. D \in SUBSET Nat /\ D # {}
  <2>1. \A i \in T : k - i \in Nat
    OBVIOUS
  <2>2. QED BY <2>1
<1>2. PICK d \in D : \A e \in D : d <= e
  BY <1>1, Smallest
<1>3. PICK i \in T : d = k - i
  BY <1>2
<1>4. ASSUME NEW j \in T PROVE j <= i
  <2>1. k - j \in D /\ i \in Nat /\ j \in Nat
    OBVIOUS
  <2>2. d <= k - j
    BY <1>2, <2>1
  <2>3. QED BY <1>3, <2>1, <2>2
<1>5. QED BY <1>3, <1>4 DEF Newest

-----------------------------------------------------------------------------
(* The invariant.                                                          *)

\* allocate: the sub-heap asked has pages; the block found is on its list.
LEMMA Asked ==
    ASSUME IInv, ~stale, NEW n \in Requests, NEW i,
           Candidates(Grown(n).heaps, n) # {}, i = Newest(Candidates(Grown(n).heaps, n))
    PROVE  /\ i \in 1 .. Len(Grown(n).heaps) /\ Grown(n).heaps[i] \in SubHeaps
           /\ Grown(n).heaps[i].available = Capacity
           /\ \E F : /\ Sound(Grown(n).heaps[i].storage, Grown(n).heaps[i].list, F, LiveIn(i), LostIn(i))
                     /\ Coalesced(Grown(n).heaps[i].storage, F)
<1> DEFINE hs == Grown(n).heaps
           C == Candidates(hs, n)
<1>1. /\ hs \in Seq(SubHeaps \cup {DeadHeap})
      /\ \A j \in 1 .. Len(hs) : Orderly(hs[j], LiveIn(j), LostIn(j), FALSE)
  BY GrownOrderly DEF GrowsTo
<1> HIDE DEF hs
<1>2. C \subseteq 1 .. Len(hs) /\ \A j \in C : hs[j].available >= n
  BY <1>1 DEF Candidates
<1>3. Len(hs) \in Nat
  BY <1>1
<1>4. C # {} /\ i = Newest(C)
  BY DEF hs
<1> HIDE DEF C
<1>5. i \in C
  BY <1>2, <1>3, <1>4, NewestIs
<1>6. i \in 1 .. Len(hs) /\ hs[i].available >= n
  BY <1>2, <1>5
<1>7. hs[i] # DeadHeap
  <2>1. n \in Nat /\ n # 0
    BY Numbers
  <2>2. DeadHeap.available = 0
    BY DEF DeadHeap
  <2>3. QED BY <1>6, <2>1, <2>2
<1>8. Orderly(hs[i], LiveIn(i), LostIn(i), FALSE)
  BY <1>1, <1>6
<1>9. QED BY <1>6, <1>7, <1>8 DEF Orderly, hs

\* Initially the one sub-heap is fresh, or dead.
LEMMA InitOrderly == Init => IInv
<1> SUFFICES ASSUME Init PROVE IInv
  OBVIOUS
<1> DEFINE h == SubHeap(Chunks > 0)
<1>1. heaps = <<h>> /\ live = {} /\ slack = {} /\ stale = FALSE /\ chunks = IF Chunks > 0 THEN Chunks - 1 ELSE 0
  BY DEF Init
<1>2. Orderly(h, {}, {}, FALSE)
  <2>1. CASE Chunks > 0
    <3>1. h = SubHeap(TRUE)
      BY <2>1 DEF SubHeap
    <3> HIDE DEF h
    <3>2. QED BY <3>1, Fresh
  <2>2. CASE ~(Chunks > 0)
    <3>1. h = DeadHeap
      BY <2>2 DEF SubHeap, DeadHeap
    <3>2. QED BY <3>1 DEF Orderly
  <2>3. QED BY <2>1, <2>2
<1> HIDE DEF h
<1>3. h \in SubHeaps \cup {DeadHeap}
  BY <1>2 DEF Orderly
<1>4. heaps \in Seq(SubHeaps \cup {DeadHeap}) /\ Len(heaps) = 1 /\ heaps[1] = h
  <2> DEFINE R == SubHeaps \cup {DeadHeap}
  <2>1. h \in R
    BY <1>3
  <2> HIDE DEF R
  <2>2. heaps \in Seq(R) /\ Len(heaps) = 1 /\ heaps[1] = h
    BY <1>1, <2>1
  <2>3. QED BY <2>2 DEF R
<1>5. Len(heaps) \in 1 .. SlabObjects /\ chunks \in 0 .. Chunks /\ stale \in BOOLEAN
  <2>1. 1 \in 1 .. SlabObjects
    BY KmallocAssumption
  <2>2. chunks \in 0 .. Chunks
    BY <1>1, KmallocAssumption
  <2>3. QED BY <1>1, <1>4, <2>1, <2>2
<1>6. \A i : LiveIn(i) = {} /\ LostIn(i) = {}
  BY <1>1 DEF LiveIn, LostIn
<1>7. \A i \in 1 .. Len(heaps) : Orderly(heaps[i], LiveIn(i), LostIn(i), stale)
  <2> SUFFICES ASSUME NEW i \in 1 .. Len(heaps) PROVE Orderly(heaps[i], LiveIn(i), LostIn(i), stale)
    OBVIOUS
  <2>1. i = 1
    BY <1>4
  <2>2. QED BY <1>1, <1>2, <1>4, <1>6, <2>1
<1>8. slack \subseteq (1 .. Len(heaps)) \X Addresses /\ \A l \in live : l \in Clients /\ l.heap \in 1 .. Len(heaps)
  BY <1>1
<1>9. /\ DOMAIN heaps = 1 .. Len(heaps)
      /\ heaps \in Seq([storage : [0 .. Capacity - 1 -> Int] \cup {<<>>},
                       list : 0 .. Capacity - 1 \cup {Null}, available : {0, Capacity}])
      /\ live \subseteq [heap : DOMAIN heaps, addr : 0 .. Capacity - 1, size : Requests]
  BY <1>4, <1>8, FromTypes
<1>10. QED BY <1>5, <1>7, <1>8, <1>9 DEF IInv, TypeOK, Addresses

\* allocate keeps the invariant, whether or not the link it uses is stale.
LEMMA AllocateOrderly ==
    ASSUME IInv, NEW n \in Requests, Allocate(n)
    PROVE  IInv'
<1> DEFINE r == Grown(n)
           C == Candidates(r.heaps, n)
<1>a. PICK i : i = Newest(C)
  OBVIOUS
<1> DEFINE h == r.heaps[i]
           k == BlockRequest(n)
           b == FirstFit(h, k)
           l == [heap |-> i, addr |-> b, size |-> n]
           g == Carve(h, b, n)
           D == Remainder(h, b, k)
<1>1. /\ ~stale /\ C # {} /\ b # Null
      /\ heaps' = [r.heaps EXCEPT ![i] = g] /\ chunks' = r.chunks
      /\ live' = live \cup {l} /\ slack' = slack \cup ({i} \X D)
      /\ stale' = (Previous(h.storage, b) # Predecessor(h, b))
  BY <1>a DEF Allocate
<1>2. /\ i \in 1 .. Len(r.heaps) /\ h \in SubHeaps /\ h.available = Capacity
      /\ \E F : Sound(h.storage, h.list, F, LiveIn(i), LostIn(i)) /\ Coalesced(h.storage, F)
  BY <1>1, <1>a, Asked
<1>3. GrowsTo(heaps, r) /\ \A j \in 1 .. Len(r.heaps) : Orderly(r.heaps[j], LiveIn(j), LostIn(j), FALSE)
  BY <1>1, GrownOrderly
<1> HIDE DEF r, h
<1>4. PICK F : Sound(h.storage, h.list, F, LiveIn(i), LostIn(i)) /\ Coalesced(h.storage, F)
  BY <1>2
<1>5. b \in F /\ k <= h.storage[b + 1] - 2
  <2>1. h.storage \in Storage /\ Blocks(h.storage, F) /\ Chain(h.storage, h.list, F)
    BY <1>4 DEF Sound
  <2> HIDE DEF k
  <2>2. b = Null \/ (b \in F /\ k <= h.storage[b + 1] - 2)
    BY <2>1, FitFound
  <2>3. QED BY <1>1, <2>2
<1> HIDE DEF b
<1>6. g \in SubHeaps /\ g.available = Capacity
  <2>1. CarvedFrom(h, g, b, n, SplitIfRequired(h.storage, b, BlockRequest(n)))
    BY <1>2, <1>4, <1>5, CarveType
  <2> HIDE DEF g
  <2>2. QED BY <1>2, <2>1 DEF CarvedFrom
<1>7. l \in Clients /\ l.addr = b /\ l.size = n /\ l.heap = i
  <2>1. b \in Addresses
    BY <1>4, <1>5, Header DEF Sound
  <2>2. i \in Nat
    BY <1>2
  <2>3. QED BY <2>1, <2>2 DEF Clients
<1> HIDE DEF l
<1>8. D \subseteq Addresses
  <2>1. k \in Nat
    BY RequestSize
  <2> HIDE DEF k
  <2>2. QED BY <1>2, <1>4, <1>5, <2>1, RemainderInside
<1>9. ~stale' => \E E : Sound(g.storage, g.list, E, LiveIn(i) \cup {l}, LostIn(i) \cup D) /\ Coalesced(g.storage, E)
  BY <1>1, <1>2, <1>4, <1>5, <1>7, Carves
<1> HIDE DEF g, D
<1>10. /\ LiveIn(i)' = LiveIn(i) \cup {l} /\ LostIn(i)' = LostIn(i) \cup D
       /\ \A j : j # i => LiveIn(j)' = LiveIn(j) /\ LostIn(j)' = LostIn(j)
  <2>1. LiveIn(i)' = LiveIn(i) \cup {l}
    BY <1>1, <1>7 DEF LiveIn
  <2>2. LostIn(i)' = LostIn(i) \cup D
    <3>1. \A a : <<i, a>> \in slack' <=> <<i, a>> \in slack \/ a \in D
      BY <1>1
    <3>2. QED BY <1>8, <3>1 DEF LostIn
  <2>3. \A j : j # i => LiveIn(j)' = LiveIn(j)
    BY <1>1, <1>7 DEF LiveIn
  <2>4. \A j : j # i => LostIn(j)' = LostIn(j)
    <3>1. \A j, a : j # i => (<<j, a>> \in slack' <=> <<j, a>> \in slack)
      BY <1>1
    <3>2. QED BY <3>1 DEF LostIn
  <2>5. QED BY <2>1, <2>2, <2>3, <2>4
<1>11. Orderly(g, LiveIn(i)', LostIn(i)', stale')
  BY <1>6, <1>9, <1>10 DEF Orderly
<1>12. /\ r.heaps \in Seq(SubHeaps \cup {DeadHeap}) /\ Len(r.heaps) >= Len(heaps) /\ Len(r.heaps) <= SlabObjects
       /\ r.chunks \in 0 .. Chunks
  BY <1>3 DEF GrowsTo
<1>13. /\ heaps' \in Seq(SubHeaps \cup {DeadHeap}) /\ Len(heaps') = Len(r.heaps)
       /\ heaps'[i] = g /\ \A j \in 1 .. Len(r.heaps) : j # i => heaps'[j] = r.heaps[j]
  <2> DEFINE R == SubHeaps \cup {DeadHeap}
             x == r.heaps
  <2>1. x \in Seq(R) /\ g \in R /\ i \in 1 .. Len(x) /\ heaps' = [x EXCEPT ![i] = g]
    BY <1>1, <1>2, <1>6, <1>12
  <2> HIDE DEF R, x
  <2>2. heaps' \in Seq(R) /\ Len(heaps') = Len(x) /\ heaps'[i] = g /\ \A j \in 1 .. Len(x) : j # i => heaps'[j] = x[j]
    BY <2>1
  <2>3. QED BY <2>2 DEF R, x
<1>14. \A j \in 1 .. Len(heaps') : Orderly(heaps'[j], LiveIn(j)', LostIn(j)', stale')
  <2> SUFFICES ASSUME NEW j \in 1 .. Len(heaps') PROVE Orderly(heaps'[j], LiveIn(j)', LostIn(j)', stale')
    OBVIOUS
  <2>1. CASE j = i
    BY <1>11, <1>13, <2>1
  <2>2. CASE j # i
    <3>1. heaps'[j] = r.heaps[j] /\ LiveIn(j)' = LiveIn(j) /\ LostIn(j)' = LostIn(j)
      BY <1>10, <1>13, <2>2
    <3>2. Orderly(r.heaps[j], LiveIn(j), LostIn(j), FALSE)
      BY <1>3, <1>13
    <3>3. Orderly(r.heaps[j], LiveIn(j), LostIn(j), stale')
      BY <3>2 DEF Orderly
    <3>4. QED BY <3>1, <3>3
  <2>3. QED BY <2>1, <2>2
<1>15. Len(heaps) \in Nat /\ Len(heaps) >= 1 /\ Len(heaps') \in 1 .. SlabObjects
  <2>1. Len(heaps) \in 1 .. SlabObjects /\ SlabObjects \in Nat
    BY Types
  <2>2. QED BY <1>12, <1>13, <2>1
<1>16. \A j \in 1 .. Len(heaps) : j \in 1 .. Len(heaps')
  BY <1>12, <1>13, <1>15
<1>17. slack' \subseteq (1 .. Len(heaps')) \X Addresses
  <2>1. slack \subseteq (1 .. Len(heaps)) \X Addresses
    <3>1. heaps \in Seq(SubHeaps \cup {DeadHeap})
      BY Types
    <3>2. DOMAIN heaps = 1 .. Len(heaps)
      BY <3>1
    <3>3. QED BY <3>2 DEF IInv, TypeOK, Addresses
  <2>2. i \in 1 .. Len(heaps')
    BY <1>2, <1>13
  <2>3. QED BY <1>1, <1>8, <1>16, <2>1, <2>2
<1>18. \A x \in live' : x \in Clients /\ x.heap \in 1 .. Len(heaps')
  <2>1. \A x \in live : x \in Clients /\ x.heap \in 1 .. Len(heaps)
    BY Types
  <2>2. i \in 1 .. Len(heaps')
    BY <1>2, <1>13
  <2>3. QED BY <1>1, <1>7, <1>16, <2>1, <2>2
<1>19. stale' \in BOOLEAN /\ chunks' \in 0 .. Chunks
  BY <1>1, <1>12
<1>20. QED BY <1>13, <1>14, <1>15, <1>17, <1>18, <1>19, FromTypes DEF IInv, TypeOK, Addresses

\* A refused request may leave new sub-heaps behind.
LEMMA RefusalOrderly ==
    ASSUME IInv, NEW n \in Requests, AllocateRefused(n)
    PROVE  IInv'
<1> DEFINE r == Grown(n)
<1>1. ~stale /\ heaps' = r.heaps /\ chunks' = r.chunks /\ live' = live /\ slack' = slack /\ stale' = stale
  BY DEF AllocateRefused
<1>2. GrowsTo(heaps, r) /\ \A j \in 1 .. Len(r.heaps) : Orderly(r.heaps[j], LiveIn(j), LostIn(j), FALSE)
  BY <1>1, GrownOrderly
<1> HIDE DEF r
<1>3. /\ heaps' \in Seq(SubHeaps \cup {DeadHeap}) /\ Len(heaps') >= Len(heaps) /\ Len(heaps') <= SlabObjects
      /\ chunks' \in 0 .. Chunks
  BY <1>1, <1>2 DEF GrowsTo
<1>4. /\ heaps \in Seq(SubHeaps \cup {DeadHeap}) /\ Len(heaps) \in 1 .. SlabObjects /\ SlabObjects \in Nat
      /\ \A l \in live : l \in Clients /\ l.heap \in 1 .. Len(heaps)
  BY Types
<1>5. Len(heaps') \in 1 .. SlabObjects /\ \A j \in 1 .. Len(heaps) : j \in 1 .. Len(heaps')
  <2>1. Len(heaps') \in Nat
    BY <1>3
  <2>2. QED BY <1>3, <1>4, <2>1
<1>6. DOMAIN heaps = 1 .. Len(heaps)
  BY <1>4
<1>7. slack' \subseteq (1 .. Len(heaps')) \X Addresses
  BY <1>1, <1>5, <1>6 DEF IInv, TypeOK, Addresses
<1>8. \A l \in live' : l \in Clients /\ l.heap \in 1 .. Len(heaps')
  BY <1>1, <1>4, <1>5
<1>9. \A j : LiveIn(j)' = LiveIn(j) /\ LostIn(j)' = LostIn(j)
  BY <1>1 DEF LiveIn, LostIn
<1>10. \A j \in 1 .. Len(heaps') : Orderly(heaps'[j], LiveIn(j)', LostIn(j)', stale')
  <2> SUFFICES ASSUME NEW j \in 1 .. Len(heaps') PROVE Orderly(heaps'[j], LiveIn(j)', LostIn(j)', stale')
    OBVIOUS
  <2>1. Orderly(r.heaps[j], LiveIn(j), LostIn(j), FALSE)
    BY <1>1, <1>2
  <2>2. Orderly(r.heaps[j], LiveIn(j), LostIn(j), stale')
    BY <2>1 DEF Orderly
  <2>3. QED BY <1>1, <1>9, <2>2
<1>11. stale' \in BOOLEAN
  BY <1>1 DEF IInv, TypeOK
<1>12. QED BY <1>3, <1>5, <1>7, <1>8, <1>10, <1>11, FromTypes DEF IInv, TypeOK, Addresses

LEMMA FreeOrderly ==
    ASSUME IInv, NEW l \in live, Free(l)
    PROVE  IInv'
<1> DEFINE i == l.heap
           h == heaps[i]
           g == Release(h, l.addr)
<1>1. /\ ~stale /\ heaps' = [heaps EXCEPT ![i] = g] /\ live' = live \ {l}
      /\ chunks' = chunks /\ slack' = slack /\ stale' = stale
  BY DEF Free
<1>2. /\ heaps \in Seq(SubHeaps \cup {DeadHeap}) /\ Len(heaps) \in 1 .. SlabObjects /\ chunks \in 0 .. Chunks
      /\ \A x \in live : x \in Clients /\ x.heap \in 1 .. Len(heaps)
  BY Types
<1>3. i \in 1 .. Len(heaps) /\ DOMAIN heaps = 1 .. Len(heaps) /\ l \in LiveIn(i)
  BY <1>2 DEF LiveIn
<1>4. Orderly(h, LiveIn(i), LostIn(i), stale)
  BY <1>3 DEF IInv
<1>5. h \in SubHeaps /\ h.available = Capacity
  BY <1>3, <1>4 DEF Orderly
<1> HIDE DEF h
<1>6. PICK F : Sound(h.storage, h.list, F, LiveIn(i), LostIn(i)) /\ Coalesced(h.storage, F)
  BY <1>1, <1>3, <1>4 DEF Orderly
<1>7. /\ g \in SubHeaps /\ g.available = Capacity
      /\ \E E : Sound(g.storage, g.list, E, LiveIn(i) \ {l}, LostIn(i)) /\ Coalesced(g.storage, E)
  <2> DEFINE L == LiveIn(i)
             S == LostIn(i)
  <2>1. Sound(h.storage, h.list, F, L, S) /\ Coalesced(h.storage, F) /\ l \in L
    BY <1>3, <1>6
  <2> HIDE DEF L, S, i
  <2>2. /\ g \in SubHeaps /\ g.available = h.available
        /\ \E E : Sound(g.storage, g.list, E, L \ {l}, S) /\ Coalesced(g.storage, E)
    BY <1>5, <2>1, Releases
  <2>3. QED BY <1>5, <2>2 DEF L, S
<1> HIDE DEF g
<1>8. /\ LiveIn(i)' = LiveIn(i) \ {l} /\ (\A j : j # i => LiveIn(j)' = LiveIn(j))
      /\ \A j : LostIn(j)' = LostIn(j)
  BY <1>1 DEF LiveIn, LostIn
<1>9. /\ heaps' \in Seq(SubHeaps \cup {DeadHeap}) /\ Len(heaps') = Len(heaps)
      /\ heaps'[i] = g /\ \A j \in 1 .. Len(heaps) : j # i => heaps'[j] = heaps[j]
  <2> DEFINE R == SubHeaps \cup {DeadHeap}
  <2>1. heaps \in Seq(R) /\ g \in R /\ i \in 1 .. Len(heaps) /\ heaps' = [heaps EXCEPT ![i] = g]
    BY <1>1, <1>2, <1>3, <1>7
  <2> HIDE DEF R, i
  <2>2. heaps' \in Seq(R) /\ Len(heaps') = Len(heaps) /\ heaps'[i] = g /\ \A j \in 1 .. Len(heaps) : j # i => heaps'[j] = heaps[j]
    BY <2>1
  <2>3. QED BY <2>2 DEF R
<1>10. \A j \in 1 .. Len(heaps') : Orderly(heaps'[j], LiveIn(j)', LostIn(j)', stale')
  <2> SUFFICES ASSUME NEW j \in 1 .. Len(heaps') PROVE Orderly(heaps'[j], LiveIn(j)', LostIn(j)', stale')
    OBVIOUS
  <2>1. CASE j = i
    <3>1. Orderly(g, LiveIn(i) \ {l}, LostIn(i), stale')
      BY <1>7 DEF Orderly
    <3>2. QED BY <1>8, <1>9, <2>1, <3>1
  <2>2. CASE j # i
    <3>1. heaps'[j] = heaps[j] /\ LiveIn(j)' = LiveIn(j) /\ LostIn(j)' = LostIn(j) /\ j \in DOMAIN heaps
      BY <1>3, <1>8, <1>9, <2>2
    <3>2. Orderly(heaps[j], LiveIn(j), LostIn(j), stale)
      BY <3>1 DEF IInv
    <3>3. QED BY <1>1, <3>1, <3>2
  <2>3. QED BY <2>1, <2>2
<1>11. slack' \subseteq (1 .. Len(heaps')) \X Addresses
  BY <1>1, <1>3, <1>9 DEF IInv, TypeOK, Addresses
<1>12. \A x \in live' : x \in Clients /\ x.heap \in 1 .. Len(heaps')
  BY <1>1, <1>2, <1>9
<1>13. stale' \in BOOLEAN /\ chunks' \in 0 .. Chunks /\ Len(heaps') \in 1 .. SlabObjects
  BY <1>1, <1>2, <1>9 DEF IInv, TypeOK
<1>14. QED BY <1>9, <1>10, <1>11, <1>12, <1>13, FromTypes DEF IInv, TypeOK, Addresses

\* The sub-heaps are orderly through every order of allocate and free.
THEOREM Invariance == Spec => []IInv
<1>1. Init => IInv
  BY InitOrderly
<1>2. ASSUME IInv, [Next]_vars PROVE IInv'
  <2>1. ASSUME NEW n \in Requests, Allocate(n) PROVE IInv'
    BY <1>2, <2>1, AllocateOrderly
  <2>2. ASSUME NEW n \in Requests, AllocateRefused(n) PROVE IInv'
    BY <1>2, <2>2, RefusalOrderly
  <2>3. ASSUME NEW l \in live, Free(l) PROVE IInv'
    BY <1>2, <2>3, FreeOrderly
  <2>4. ASSUME UNCHANGED vars PROVE IInv'
    <3>1. heaps' = heaps /\ chunks' = chunks /\ live' = live /\ slack' = slack /\ stale' = stale
      BY <2>4 DEF vars
    <3>2. TypeOK'
      BY <1>2, <3>1 DEF IInv, TypeOK
    <3>3. \A j : LiveIn(j)' = LiveIn(j) /\ LostIn(j)' = LostIn(j)
      BY <3>1 DEF LiveIn, LostIn
    <3>4. QED BY <1>2, <3>1, <3>2, <3>3 DEF IInv
  <2>5. CASE Corrupted
    BY <2>4, <2>5 DEF Corrupted
  <2>6. QED BY <1>2, <2>1, <2>2, <2>3, <2>4, <2>5 DEF Next
<1>3. QED BY <1>1, <1>2, PTL DEF Spec

-----------------------------------------------------------------------------
(* What the invariant says.                                                *)

\* The list of a sub-heap is the set of its free blocks; a dead one has none.
LEMMA ListOf ==
    ASSUME IInv, ~stale, NEW i \in DOMAIN heaps
    PROVE  \/ /\ heaps[i] = DeadHeap /\ LiveIn(i) = {} /\ FreeBlocks(heaps[i]) = {}
              /\ \A k \in 0 .. MaxBlocks : ListAt(heaps[i])[k] = Null
           \/ /\ heaps[i] \in SubHeaps
              /\ Sound(heaps[i].storage, heaps[i].list, FreeBlocks(heaps[i]), LiveIn(i), LostIn(i))
              /\ Coalesced(heaps[i].storage, FreeBlocks(heaps[i]))
<1> DEFINE h == heaps[i]
<1>1. Orderly(h, LiveIn(i), LostIn(i), stale)
  BY DEF IInv
<1> HIDE DEF h
<1>2. CASE h = DeadHeap /\ LiveIn(i) = {}
  <2> DEFINE at == ListAt(h)
             T == {k \in Nat : k <= MaxBlocks => at[k] = Null}
  <2>1. at[0] = h.list /\ \A k \in 1 .. MaxBlocks : at[k] = Onwards(h, at[k - 1])
    BY Walk
  <2>2. h.list = Null
    BY <1>2 DEF DeadHeap
  <2> HIDE DEF at
  <2>3. 0 \in T
    BY <2>1, <2>2
  <2>4. ASSUME NEW k \in Nat, k \in T PROVE k + 1 \in T
    <3> SUFFICES ASSUME k + 1 <= MaxBlocks PROVE at[k + 1] = Null
      OBVIOUS
    <3>1. at[k] = Null /\ k + 1 \in 1 .. MaxBlocks /\ (k + 1) - 1 = k
      BY <2>4, Numbers
    <3>2. at[k + 1] = Onwards(h, at[k])
      BY <2>1, <3>1
    <3>3. QED BY <3>1, <3>2 DEF Onwards
  <2>5. \A k \in Nat : k \in T
    <3> HIDE DEF T
    <3>1. QED BY <2>3, <2>4, Induct
  <2>6. \A k \in 0 .. MaxBlocks : at[k] = Null
    BY <2>5, Numbers
  <2>7. FreeBlocks(h) = {}
    BY <2>6 DEF FreeBlocks, at
  <2>8. QED BY <1>2, <2>6, <2>7 DEF at, h
<1>3. CASE h \in SubHeaps /\ \E F : Sound(h.storage, h.list, F, LiveIn(i), LostIn(i)) /\ Coalesced(h.storage, F)
  <2>1. PICK F : Sound(h.storage, h.list, F, LiveIn(i), LostIn(i)) /\ Coalesced(h.storage, F)
    BY <1>3
  <2>2. h.storage \in Storage /\ Blocks(h.storage, F) /\ Chain(h.storage, h.list, F)
    BY <2>1 DEF Sound
  <2>3. FreeBlocks(h) = F
    BY <2>2, ListIs
  <2>4. QED BY <1>3, <2>1, <2>3 DEF h
<1>4. QED BY <1>1, <1>2, <1>3 DEF Orderly

\* Where two blocks in use, or one in use and a free one, lie apart, they share
\* no word.
LEMMA Apart ==
    ASSUME NEW m, NEW f, NEW F, NEW L, NEW S, Sound(m, f, F, L, S)
    PROVE  /\ \A l \in L : Words(l) \subseteq 0 .. Capacity - 1
           /\ \A l, k \in L : l # k => Words(l) \cap Words(k) = {}
           /\ \A l \in L, b \in F : Words(l) \cap BlockWords(m, b) = {}
<1>1. ASSUME NEW l \in L
      PROVE  l.addr \in Nat /\ After(l) \in Nat /\ After(l) <= Capacity /\ Words(l) = l.addr .. After(l) - 1
  <2>1. l.addr \in Nat /\ l.size \in Requests /\ After(l) <= Capacity
    BY <1>1 DEF Sound, InUse, Clients, Addresses
  <2>2. QED BY <2>1, RequestSize DEF After, Words, AllocatedWords
<1>2. ASSUME NEW b \in F
      PROVE  b \in Nat /\ End(m, b) \in Int /\ BlockWords(m, b) = b .. End(m, b) - 1
  BY <1>2, Header DEF Sound, BlockWords, BlockSize, End
<1>3. \A l \in L : Words(l) \subseteq 0 .. Capacity - 1
  BY <1>1, Numbers
<1>4. ASSUME NEW l \in L, NEW k \in L, l # k PROVE Words(l) \cap Words(k) = {}
  <2>1. After(l) <= k.addr \/ After(k) <= l.addr
    BY <1>4 DEF Sound, InUse
  <2>2. QED BY <1>1, <2>1
<1>5. ASSUME NEW l \in L, NEW b \in F PROVE Words(l) \cap BlockWords(m, b) = {}
  <2>1. After(l) <= b \/ End(m, b) <= l.addr
    BY DEF Sound, Separate
  <2>2. QED BY <1>1, <1>2, <2>1
<1>6. QED BY <1>3, <1>4, <1>5

\* BlocksIntact for every size of the storage, every set of request sizes and
\* every number of sub-heaps: a client has its block for itself, and finds in
\* it what it wrote.
THEOREM ClientsKeepTheirBlocks == Spec => []BlocksIntact
<1>1. ASSUME IInv PROVE BlocksIntact
  <2>1. BlocksDisjoint
    <3> SUFFICES ASSUME ~stale, NEW i \in DOMAIN heaps
                 PROVE  /\ \A l \in LiveIn(i) : Words(l) \subseteq 0 .. Capacity - 1
                        /\ \A l, k \in LiveIn(i) : l # k => Words(l) \cap Words(k) = {}
                        /\ \A l \in LiveIn(i), b \in FreeBlocks(heaps[i]) :
                               Words(l) \cap BlockWords(heaps[i].storage, b) = {}
      BY DEF BlocksDisjoint
    <3>1. CASE LiveIn(i) = {}
      BY <3>1
    <3>2. CASE Sound(heaps[i].storage, heaps[i].list, FreeBlocks(heaps[i]), LiveIn(i), LostIn(i))
      BY <3>2, Apart
    <3>3. QED BY <1>1, <3>1, <3>2, ListOf
  <2>2. DataIntact
    <3> SUFFICES ASSUME ~stale, NEW l \in live
                 PROVE  LET m == heaps[l.heap].storage
                        IN  /\ m[l.addr] = AllocatedCanary /\ m[l.addr + 1] = BlockRequest(l.size)
                            /\ \A a \in l.addr + AllocatedWords .. l.addr + AllocatedWords + l.size - 1 :
                                   m[a] = Data(l.addr)
      BY DEF DataIntact
    <3>1. l.heap \in DOMAIN heaps /\ l \in LiveIn(l.heap)
      BY <1>1 DEF IInv, TypeOK, LiveIn
    <3>2. \E f, F, S : Sound(heaps[l.heap].storage, f, F, LiveIn(l.heap), S)
      BY <1>1, <3>1, ListOf
    <3>3. InUse(heaps[l.heap].storage, LiveIn(l.heap))
      BY <3>2 DEF Sound
    <3>4. QED BY <3>1, <3>3 DEF InUse
  <2>3. QED BY <1>1, <2>1, <2>2 DEF BlocksIntact, IInv
<1>2. QED BY <1>1, Invariance, PTL

\* ListCoalesced for every value of the constants: the free list is in address
\* order and ends, and free leaves no two blocks that touch.
THEOREM NothingLeftToCoalesce == Spec => []ListCoalesced
<1>1. ASSUME IInv PROVE ListCoalesced
  <2> SUFFICES ASSUME ~stale, NEW i \in DOMAIN heaps
               PROVE  /\ ListAt(heaps[i])[MaxBlocks] = Null
                      /\ \A k \in 1 .. MaxBlocks : ListAt(heaps[i])[k] # Null =>
                            ListAt(heaps[i])[k - 1] + BlockSize(heaps[i].storage, ListAt(heaps[i])[k - 1])
                                < ListAt(heaps[i])[k]
    BY DEF ListCoalesced
  <2> DEFINE h == heaps[i]
             at == ListAt(h)
             F == FreeBlocks(h)
  <2>1. CASE \A k \in 0 .. MaxBlocks : at[k] = Null
    BY <2>1, Numbers
  <2>2. CASE /\ Sound(h.storage, h.list, F, LiveIn(i), LostIn(i))
             /\ Coalesced(h.storage, F)
    <3>1. h.storage \in Storage /\ Blocks(h.storage, F) /\ Chain(h.storage, h.list, F)
      BY <2>2 DEF Sound
    <3>2. /\ at[MaxBlocks] = Null
          /\ \A k \in 1 .. MaxBlocks : at[k] # Null =>
                at[k - 1] \in F /\ at[k] = h.storage[at[k - 1] + 3]
      BY <3>1, ListIs
    <3>3. ASSUME NEW x \in F, h.storage[x + 3] # Null PROVE x + BlockSize(h.storage, x) < h.storage[x + 3]
      <4>1. End(h.storage, x) <= h.storage[x + 3]
        BY <3>1, <3>3, Onward
      <4>2. End(h.storage, x) # h.storage[x + 3]
        BY <2>2 DEF Coalesced, Alone
      <4>3. End(h.storage, x) \in Int /\ h.storage[x + 3] \in Int
        BY <3>1, Header DEF End
      <4>4. QED BY <4>1, <4>2, <4>3 DEF End, BlockSize
    <3> HIDE DEF F, at, h
    <3>4. \A k \in 1 .. MaxBlocks : at[k] # Null => at[k - 1] + BlockSize(h.storage, at[k - 1]) < at[k]
      BY <3>2, <3>3
    <3>5. QED BY <3>2, <3>4 DEF at, h
  <2>3. QED BY <1>1, <2>1, <2>2, ListOf
<1>2. QED BY <1>1, Invariance, PTL

\* NothingElseLost for every value of the constants: no block leaves both the
\* list and its client, and no word is lost but the recorded ones.
THEOREM LossesExplained == Spec => []NothingElseLost
<1>1. ASSUME IInv PROVE NothingElseLost
  <2> SUFFICES ASSUME ~stale, NEW i \in DOMAIN heaps, NEW a \in Addresses, heaps[i].available > 0
               PROVE  <<i, a>> \notin slack <=>
                        \/ \E l \in LiveIn(i) : a \in Words(l)
                        \/ \E b \in FreeBlocks(heaps[i]) : a \in BlockWords(heaps[i].storage, b)
    BY DEF NothingElseLost, Addresses
  <2> DEFINE m == heaps[i].storage
             F == FreeBlocks(heaps[i])
             L == LiveIn(i)
  <2>1. heaps[i] # DeadHeap
    BY DEF DeadHeap
  <2>2. Sound(m, heaps[i].list, F, L, LostIn(i))
    BY <1>1, <2>1, ListOf
  <2>3. <<i, a>> \notin slack <=> a \notin LostIn(i)
    BY DEF LostIn
  <2> HIDE DEF m, F, L
  <2>4. a \notin LostIn(i) <=> \/ \E l \in L : l.addr <= a /\ a < After(l)
                               \/ \E b \in F : b <= a /\ a < End(m, b)
    BY <2>2 DEF Sound, Accounted
  <2>5. a \in Int
    BY DEF Addresses
  <2>6. ASSUME NEW l \in L PROVE a \in Words(l) <=> l.addr <= a /\ a < After(l)
    <3>1. l.addr \in Nat /\ l.size \in Requests
      BY <2>2 DEF Sound, InUse, Clients, Addresses
    <3>2. QED BY <2>5, <3>1, RequestSize DEF Words, After, AllocatedWords
  <2>7. ASSUME NEW b \in F PROVE a \in BlockWords(m, b) <=> b <= a /\ a < End(m, b)
    <3>1. b \in Nat /\ m[b + 1] \in Int
      BY <2>2, Header DEF Sound
    <3>2. QED BY <2>5, <3>1 DEF BlockWords, BlockSize, End
  <2>8. QED BY <2>3, <2>4, <2>6, <2>7 DEF m, F, L
<1>2. QED BY <1>1, Invariance, PTL
=============================================================================
