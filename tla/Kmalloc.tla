------------------------------- MODULE Kmalloc -------------------------------
(***************************************************************************)
(* Kernel/Heap/Kmalloc: the heap behind new and delete.  A sub-heap is a   *)
(* run of pages cut into blocks; its free blocks form a doubly linked list *)
(* in address order, kept inside the blocks themselves.                    *)
(*                                                                         *)
(* Storage is a function from word offsets to words, so that a link which  *)
(* is followed or written wrongly lands in somebody's data.  Sizes are in  *)
(* words of eight bytes.  A client fills what it asked for at once.        *)
(***************************************************************************)
EXTENDS Integers, Sequences

CONSTANTS
    Capacity,      \* words of a sub-heap's storage (2^21)
    Requests,      \* sizes clients ask for
    Chunks,        \* runs of pages that allocate_kernel_heap_pages can give
    SlabObjects    \* KmallocSubHeap objects that the slab can give

ASSUME KmallocAssumption ==
    /\ Capacity \in Nat /\ Capacity > 4
    /\ Requests \subseteq Nat \ {0}
    /\ Chunks \in Nat /\ SlabObjects \in Nat \ {0}

AllocatedWords == 2   \* sizeof(AllocatedBlock): canary, data size
FreeWords == 4        \* sizeof(FreeBlock): canary, block size, previous, next
MaxBlocks == Capacity \div FreeWords   \* no more free blocks fit into the storage

Null == -1
FreeCanary == -2
AllocatedCanary == -3
Data(a) == -10 - a    \* what the client of the block at a wrote

VARIABLES
    heaps,   \* the sub-heaps, oldest first: m_sub_heaps is the last
    chunks,  \* runs of pages left
    live,    \* allocations of clients: heap, addr (of the header), size asked
    slack,   \* words that stayed behind a block too small to be split, by heap
    stale    \* an m_previous was followed that is not the predecessor

vars == <<heaps, chunks, live, slack, stale>>

-----------------------------------------------------------------------------
(* FreeBlock: the fields of the block at b in storage m.                   *)

BlockSize(m, b) == m[b + 1]
Previous(m, b) == m[b + 2]
NextBlock(m, b) == m[b + 3]
AllocatableSize(m, b) == BlockSize(m, b) - AllocatedWords

NewFreeBlock(m, b, n) ==
    [m EXCEPT ![b] = FreeCanary, ![b + 1] = n, ![b + 2] = Null, ![b + 3] = Null]

NewAllocatedBlock(m, b, n) == [m EXCEPT ![b] = AllocatedCanary, ![b + 1] = n]

CanCoalesceNext(m, b) ==
    NextBlock(m, b) # Null /\ NextBlock(m, b) = b + BlockSize(m, b)

\* Mutant: the size of the next block is not added.
CoalesceWithoutSize(m, b) ==
    LET n == NextBlock(m, b)
    IN  IF ~CanCoalesceNext(m, b) THEN m ELSE [m EXCEPT ![b + 3] = NextBlock(m, n)]

CoalesceWithNext(m, b) ==
    LET n == NextBlock(m, b)
        joined == [m EXCEPT ![b + 1] = @ + BlockSize(m, n), ![b + 3] = NextBlock(m, n)]
    IN  IF ~CanCoalesceNext(m, b) THEN m
        ELSE IF NextBlock(m, n) = Null THEN joined
        ELSE [joined EXCEPT ![NextBlock(m, n) + 2] = b]

\* Mutant: nothing is done.
CoalesceNot(m, b) == m

CoalesceWithPrevious(m, b) ==
    LET p == Previous(m, b)
    IN  IF p = Null THEN m
        ELSE IF p + BlockSize(m, p) # b THEN m
        ELSE CoalesceWithNext(m, p)

Splits(m, b, n) ==
    n # AllocatableSize(m, b) /\ AllocatableSize(m, b) - n >= FreeWords

\* Mutant: the header is forgotten when the right-hand block is placed.
SplitTooEarly(m, b, n) ==
    LET rhs == b + n
        made == NewFreeBlock([m EXCEPT ![b + 1] = n + FreeWords], rhs, AllocatableSize(m, b) - n)
    IN  IF ~Splits(m, b, n) THEN m
        ELSE [made EXCEPT ![rhs + 2] = b, ![rhs + 3] = NextBlock(m, b), ![b + 3] = rhs]

\* The new right-hand block is linked in, but the block after it still has
\* the left-hand block as its m_previous.
SplitIfRequired(m, b, n) ==
    LET rhs == b + AllocatedWords + n
        made == NewFreeBlock([m EXCEPT ![b + 1] = n + FreeWords], rhs, AllocatableSize(m, b) - n)
    IN  IF ~Splits(m, b, n) THEN m
        ELSE [made EXCEPT ![rhs + 2] = b, ![rhs + 3] = NextBlock(m, b), ![b + 3] = rhs]

-----------------------------------------------------------------------------
(* KmallocSubHeap: h is the sub-heap, [storage, list, available].          *)

RemoveFromFreeList(h, b) ==
    LET m == h.storage
        n == NextBlock(m, b)
        p == Previous(m, b)
        m1 == IF n = Null THEN m ELSE [m EXCEPT ![n + 2] = p]
        m2 == IF p = Null THEN m1 ELSE [m1 EXCEPT ![p + 3] = n]
    IN  [h EXCEPT !.storage = m2, !.list = IF b = @ THEN n ELSE @]

\* The loop of insert_into_free_list, s its storage and the block it is at.
InsertStep(s, b) ==
    LET n == NextBlock(s.m, s.at)
        here == b > s.at /\ (n = Null \/ b < n)
        m1 == IF here THEN [s.m EXCEPT ![b + 3] = n, ![b + 2] = s.at, ![s.at + 3] = b] ELSE s.m
    IN  IF s.at = Null THEN s ELSE [m |-> m1, at |-> NextBlock(m1, s.at)]
InsertAfter(m, at, b) ==
    LET s[k \in 0 .. MaxBlocks] ==
            IF k = 0 THEN [m |-> m, at |-> at] ELSE InsertStep(s[k - 1], b)
    IN  s[MaxBlocks].m

InsertIntoFreeList(h, b) ==
    IF h.list = Null THEN [h EXCEPT !.list = b]
    ELSE IF b < h.list
    THEN [h EXCEPT !.storage[b + 3] = h.list, !.storage[h.list + 2] = b, !.list = b]
    ELSE [h EXCEPT !.storage = InsertAfter(@, h.list, b)]

\* The free list as the loop of KmallocSubHeap::allocate follows it: block k,
\* or Null after the end and after a block without the canary.
Onwards(h, b) ==
    IF b = Null THEN Null
    ELSE IF h.storage[b] # FreeCanary THEN Null ELSE NextBlock(h.storage, b)
ListAt(h) ==
    LET at[k \in 0 .. MaxBlocks] == IF k = 0 THEN h.list ELSE Onwards(h, at[k - 1])
    IN  at
FreeBlocks(h) == {ListAt(h)[k] : k \in 0 .. MaxBlocks} \ {Null}

\* The first block of the list that fits, or Null.
FirstFit(h, n) ==
    LET at == ListAt(h)
        fits == {k \in 0 .. MaxBlocks :
                    /\ at[k] # Null
                    /\ h.storage[at[k]] = FreeCanary
                    /\ n <= AllocatableSize(h.storage, at[k])}
    IN  IF fits = {} THEN Null ELSE at[CHOOSE k \in fits : \A j \in fits : k <= j]

BlockRequest(n) == IF n < FreeWords THEN FreeWords ELSE n

\* initialise: one free block, if the pages can be had; else an object with
\* nothing in it.
SubHeap(ok) ==
    [storage |-> IF ok THEN NewFreeBlock([a \in 0 .. Capacity - 1 |-> 0], 0, Capacity) ELSE <<>>,
     list |-> IF ok THEN 0 ELSE Null,
     available |-> IF ok THEN Capacity ELSE 0]

\* allocate's part after the search, with the client's own writes.
Carve(h, b, n) ==
    LET r == BlockRequest(n)
        g == RemoveFromFreeList([h EXCEPT !.storage = SplitIfRequired(@, b, r)], b)
        m == NewAllocatedBlock(g.storage, b, r)
    IN  [g EXCEPT !.storage =
            [a \in DOMAIN m |->
                IF a \in b + AllocatedWords .. b + AllocatedWords + n - 1 THEN Data(b) ELSE m[a]]]

\* free: the block's size is what was asked for, not what the block had.
Release(h, b) ==
    LET m == NewFreeBlock(h.storage, b, h.storage[b + 1] + AllocatedWords)
        g == InsertIntoFreeList([h EXCEPT !.storage = m], b)
    IN  [g EXCEPT !.storage = CoalesceWithPrevious(CoalesceWithNext(@, b), b)]

-----------------------------------------------------------------------------
(* KmallocHeap.                                                            *)

\* can_allocate: m_available is never lowered.
Candidates(hs, n) == {i \in DOMAIN hs : hs[i].available >= n}
Newest(S) == CHOOSE i \in S : \A j \in S : j <= i

\* grow, three times at most, until a sub-heap can take the request: what
\* allocate(size, attempt) leaves behind.
GrowStep(r, n) ==
    IF Candidates(r.heaps, n) # {} \/ Len(r.heaps) = SlabObjects THEN r
    ELSE [heaps |-> Append(r.heaps, SubHeap(r.chunks > 0)),
          chunks |-> IF r.chunks > 0 THEN r.chunks - 1 ELSE 0,
          grown |-> r.grown + 1]
Grown(n) ==
    GrowStep(GrowStep(GrowStep([heaps |-> heaps, chunks |-> chunks, grown |-> 0], n), n), n)

\* The block before b on the list.
Predecessor(h, b) ==
    IF b = h.list THEN Null
    ELSE CHOOSE p \in FreeBlocks(h) : NextBlock(h.storage, p) = b

\* What is left behind a block b in use for a request of n.
Remainder(h, b, n) ==
    IF Splits(h.storage, b, n) THEN {}
    ELSE b + AllocatedWords + n .. b + BlockSize(h.storage, b) - 1

-----------------------------------------------------------------------------
Init ==
    /\ heaps = <<SubHeap(Chunks > 0)>>
    /\ chunks = IF Chunks > 0 THEN Chunks - 1 ELSE 0
    /\ live = {}
    /\ slack = {}
    /\ stale = FALSE

\* KmallocHeap::allocate when a sub-heap has a block.  The newest sub-heap
\* that can_allocate is the only one asked.
Allocate(n) ==
    /\ ~stale
    /\ LET r == Grown(n)
           S == Candidates(r.heaps, n)
           i == Newest(S)
           h == r.heaps[i]
           k == BlockRequest(n)
           b == FirstFit(h, k)
       IN  /\ S # {} /\ r.grown < 3
           /\ b # Null
           /\ heaps' = [r.heaps EXCEPT ![i] = Carve(h, b, n)]
           /\ chunks' = r.chunks
           /\ live' = live \cup {[heap |-> i, addr |-> b, size |-> n]}
           /\ slack' = slack \cup ({i} \X Remainder(h, b, k))
           /\ stale' = (Previous(h.storage, b) # Predecessor(h, b))

\* KmallocHeap::allocate when it fails: no block, or no sub-heap after three
\* attempts to grow.
AllocateRefused(n) ==
    /\ ~stale
    /\ LET r == Grown(n)
           S == Candidates(r.heaps, n)
           h == r.heaps[Newest(S)]
       IN  /\ (S # {} /\ r.grown < 3)
                  => FirstFit(h, BlockRequest(n)) = Null
           /\ heaps' = r.heaps
           /\ chunks' = r.chunks
    /\ UNCHANGED <<live, slack, stale>>

Free(l) ==
    /\ ~stale /\ l \in live
    /\ heaps[l.heap].storage[l.addr] = AllocatedCanary
    /\ heaps' = [heaps EXCEPT ![l.heap] = Release(@, l.addr)]
    /\ live' = live \ {l}
    /\ UNCHANGED <<chunks, slack, stale>>

\* Once a stale link has been used, clients' data decide what happens next.
\* The model stops there.
Corrupted == stale /\ UNCHANGED vars

Next ==
    \/ \E n \in Requests : Allocate(n) \/ AllocateRefused(n)
    \/ \E l \in live : Free(l)
    \/ Corrupted

Spec == Init /\ [][Next]_vars

-----------------------------------------------------------------------------
(* Properties.                                                             *)

Words(l) == l.addr .. l.addr + AllocatedWords + BlockRequest(l.size) - 1
BlockWords(m, b) == b .. b + BlockSize(m, b) - 1
LiveIn(i) == {l \in live : l.heap = i}

TypeOK ==
    /\ heaps \in Seq([storage : [0 .. Capacity - 1 -> Int] \cup {<<>>},
                      list : 0 .. Capacity - 1 \cup {Null},
                      available : {0, Capacity}])
    /\ Len(heaps) \in 1 .. SlabObjects
    /\ chunks \in 0 .. Chunks /\ stale \in BOOLEAN
    /\ slack \subseteq (DOMAIN heaps) \X (0 .. Capacity - 1)
    /\ live \subseteq [heap : DOMAIN heaps, addr : 0 .. Capacity - 1, size : Requests]

\* Blocks in use lie in their storage and overlap neither each other nor a
\* block of the free list, through every order of allocate, split, free and
\* coalesce.
BlocksDisjoint ==
    ~stale => \A i \in DOMAIN heaps :
        LET fs == FreeBlocks(heaps[i])
            m == heaps[i].storage
        IN  /\ \A l \in LiveIn(i) : Words(l) \subseteq 0 .. Capacity - 1
            /\ \A l, k \in LiveIn(i) : l # k => Words(l) \cap Words(k) = {}
            /\ \A l \in LiveIn(i), b \in fs : Words(l) \cap BlockWords(m, b) = {}

\* What a client wrote stays, and its header stays as allocate left it.
DataIntact ==
    ~stale => \A l \in live :
        LET m == heaps[l.heap].storage
        IN  /\ m[l.addr] = AllocatedCanary /\ m[l.addr + 1] = BlockRequest(l.size)
            /\ \A a \in l.addr + AllocatedWords .. l.addr + AllocatedWords + l.size - 1 :
                   m[a] = Data(l.addr)

\* Together: a client has its block for itself.
BlocksIntact == TypeOK /\ BlocksDisjoint /\ DataIntact

\* The free list is in address order, ends, and no two of its blocks touch:
\* free leaves nothing to coalesce.
ListCoalesced ==
    ~stale => \A i \in DOMAIN heaps :
        LET at == ListAt(heaps[i])
        IN  /\ at[MaxBlocks] = Null
            /\ \A k \in 1 .. MaxBlocks :
                at[k] # Null => at[k - 1] + BlockSize(heaps[i].storage, at[k - 1]) < at[k]

\* Every word is in a free block or in a block in use, except exactly the ones
\* left behind by an allocation too close to its block's size to split it: no
\* block is lost.
NothingElseLost ==
    ~stale => \A i \in DOMAIN heaps, a \in 0 .. Capacity - 1 :
        heaps[i].available > 0 =>
            (<<i, a>> \notin slack <=>
                \/ \E l \in LiveIn(i) : a \in Words(l)
                \/ \E b \in FreeBlocks(heaps[i]) : a \in BlockWords(heaps[i].storage, b))

\* is_canary_valid, tested by allocate for every block it meets, holds for
\* every block on the free list.
FreeListCanaries ==
    \A i \in DOMAIN heaps : \A b \in FreeBlocks(heaps[i]) : heaps[i].storage[b] = FreeCanary
=============================================================================
