-------------------------------- MODULE Slab --------------------------------
(***************************************************************************)
(* Kernel/Heap/SlabAllocator: a table of slabs, one per object size, each  *)
(* with one page of objects.  Nothing ever sets m_next_page, so the page   *)
(* at m_head is the only one, and its fields are kept per slab here.       *)
(*                                                                         *)
(* The free objects of a page are linked through their own first word.     *)
(* A pointer into a page is the index of the object it points to; the      *)
(* index Total(size) is the address just past the last object.  The kernel *)
(* asks for no object that is smaller than a link (SlabAssumption).        *)
(***************************************************************************)
EXTENDS Integers, FiniteSets

CONSTANTS
    Slots,      \* the entries of m_slabs (32)
    Sizes,      \* object sizes asked for
    PageSize,   \* bytes of a page
    HeaderSize, \* bytes of a SlabPage (48)
    LinkSize,   \* bytes of a link (8)
    HeapPages   \* pages that allocate_kernel_heap_page has left to give

ASSUME SlabAssumption ==
    /\ Slots \in Nat \ {0}
    /\ PageSize \in Nat /\ HeaderSize \in Nat /\ HeapPages \in Nat
    /\ LinkSize \in Nat \ {0}
    /\ Sizes \subseteq {z \in Nat : z >= LinkSize}
    /\ \A z \in Sizes : z < PageSize - HeaderSize  \* VERIFY in get_or_create_slab

Null == -1
UserData == -2    \* what a client wrote where the link was

VARIABLES
    initialised, \* the slabs with m_initialised set
    size,        \* Slab::m_object_size
    mapped,      \* the slabs with a page, m_head # nullptr
    free,        \* SlabPage::m_free_objects
    list,        \* SlabPage::m_free_list
    link,        \* the first word of every object of the page
    pages,       \* heap pages left
    handles,     \* slabs that get_or_create_slab returned
    held,        \* objects that clients have and did not give back
    panicked     \* a VERIFY failed

vars == <<initialised, size, mapped, free, list, link, pages, handles, held, panicked>>

Slabs == 1 .. Slots
Total(z) == (PageSize - HeaderSize) \div z
MaxObjects == PageSize
Pointers == Int

Objects(s) == IF s \in mapped THEN 0 .. Total(size[s]) - 1 ELSE {}

-----------------------------------------------------------------------------
Init ==
    /\ initialised = {}
    /\ size = [s \in Slabs |-> 0]
    /\ mapped = {}
    /\ free = [s \in Slabs |-> 0]
    /\ list = [s \in Slabs |-> Null]
    /\ link = [s \in Slabs |-> [i \in 0 .. MaxObjects |-> Null]]
    /\ pages = HeapPages
    /\ handles = {}
    /\ held = [s \in Slabs |-> {}]
    /\ panicked = FALSE

\* Mutant: the size is not compared with anything before a slab is made.
NeverSlabFor(s, z) == FALSE

IsSlabFor(s, z) == s \in initialised /\ size[s] = z

FirstSuch(S) == CHOOSE s \in S : \A t \in S : s <= t

\* get_or_create_slab when find_slab succeeds.
FindSlab(z) ==
    LET S == {s \in Slabs : IsSlabFor(s, z)}
    IN  /\ ~panicked /\ S # {}
        /\ handles' = handles \cup {FirstSuch(S)}
        /\ UNCHANGED <<initialised, size, mapped, free, list, link, pages, held, panicked>>

\* SlabPage::initialise links every object to the next; the test for the last
\* one never fails, so its link points past the end.
InitialLinks(z) == [i \in 0 .. MaxObjects |-> IF i < Total(z) THEN i + 1 ELSE Null]

\* get_or_create_slab when find_slab fails: the slab is marked as initialised
\* before its page is asked for.
CreateSlab(z) ==
    LET U == Slabs \ initialised
        s == FirstSuch(U)
    IN  /\ ~panicked /\ \A t \in Slabs : ~IsSlabFor(t, z)
        /\ U # {}
        /\ initialised' = initialised \cup {s}
        /\ size' = [size EXCEPT ![s] = z]
        /\ \/ /\ pages > 0
              /\ pages' = pages - 1
              /\ mapped' = mapped \cup {s}
              /\ free' = [free EXCEPT ![s] = Total(z)]
              /\ list' = [list EXCEPT ![s] = 0]
              /\ link' = [link EXCEPT ![s] = InitialLinks(z)]
              /\ handles' = handles \cup {s}
           \/ /\ pages = 0
              /\ UNCHANGED <<mapped, free, list, link, pages, handles>>
        /\ UNCHANGED <<held, panicked>>

HasFreeObjects(s) == free[s] > 0

\* Slab::allocate and SlabPage::allocate.
Allocate(s) ==
    /\ ~panicked /\ s \in handles
    /\ s \in mapped /\ HasFreeObjects(s) /\ list[s] # Null
    /\ held' = [held EXCEPT ![s] = @ \cup {list[s]}]
    /\ list' = [list EXCEPT ![s] = link[s][list[s]]]
    /\ free' = [free EXCEPT ![s] = @ - 1]
    /\ UNCHANGED <<initialised, size, mapped, link, pages, handles, panicked>>

\* VERIFY(m_head != nullptr) in Slab::allocate.
AllocatePanic(s) ==
    /\ ~panicked /\ s \in handles \ mapped
    /\ panicked' = TRUE
    /\ UNCHANGED <<initialised, size, mapped, free, list, link, pages, handles, held>>

\* A client uses an object it holds and overwrites the old link.
Use(s, i) ==
    /\ ~panicked /\ i \in held[s]
    /\ link' = [link EXCEPT ![s][i] = UserData]
    /\ UNCHANGED <<initialised, size, mapped, free, list, pages, handles, held, panicked>>

\* Mutant: the freed object becomes the head without a link to the old head.
FreeUnlinked(s, i) ==
    /\ ~panicked /\ i \in held[s]
    /\ link' = [link EXCEPT ![s][i] = IF list[s] = Null THEN Null ELSE @]
    /\ list' = [list EXCEPT ![s] = i]
    /\ free' = [free EXCEPT ![s] = @ + 1]
    /\ held' = [held EXCEPT ![s] = @ \ {i}]
    /\ UNCHANGED <<initialised, size, mapped, pages, handles, panicked>>

\* Mutant: the object is not counted.
FreeUncounted(s, i) ==
    /\ ~panicked /\ i \in held[s]
    /\ link' = [link EXCEPT ![s][i] = list[s]]
    /\ list' = [list EXCEPT ![s] = i]
    /\ held' = [held EXCEPT ![s] = @ \ {i}]
    /\ UNCHANGED <<initialised, size, mapped, free, pages, handles, panicked>>

\* Slab::free and SlabPage::free of an object of the slab.  On an empty list
\* the link is nullptr, which is what the list then is.
Free(s, i) ==
    /\ ~panicked /\ i \in held[s]
    /\ link' = [link EXCEPT ![s][i] = list[s]]
    /\ list' = [list EXCEPT ![s] = i]
    /\ free' = [free EXCEPT ![s] = @ + 1]
    /\ held' = [held EXCEPT ![s] = @ \ {i}]
    /\ UNCHANGED <<initialised, size, mapped, pages, handles, panicked>>

\* panic() does not return.
Halted == panicked /\ UNCHANGED vars

Next ==
    \/ \E z \in Sizes : FindSlab(z) \/ CreateSlab(z)
    \/ \E s \in Slabs : Allocate(s) \/ AllocatePanic(s)
    \/ \E s \in Slabs : \E i \in held[s] : Use(s, i) \/ Free(s, i)
    \/ Halted

Spec == Init /\ [][Next]_vars

-----------------------------------------------------------------------------
(* Properties.                                                             *)

TypeOK ==
    /\ initialised \subseteq Slabs /\ mapped \subseteq initialised
    /\ size \in [Slabs -> Sizes \cup {0}]
    /\ free \in [Slabs -> Nat]
    /\ list \in [Slabs -> Pointers]
    /\ link \in [Slabs -> [0 .. MaxObjects -> Pointers]]
    /\ pages \in 0 .. HeapPages
    /\ handles \subseteq Slabs
    /\ held \in [Slabs -> SUBSET Nat]
    /\ panicked \in BOOLEAN
    /\ \A s \in mapped : size[s] \in Sizes /\ free[s] <= Total(size[s])

\* While has_free_objects says yes, the object at the head of the list, the
\* one Slab::allocate hands out next, lies in the page and no client has it:
\* the link past the last object is never followed, nor is a client's data.
NextGrantIsFree ==
    \A s \in mapped : HasFreeObjects(s) => list[s] \in Objects(s) \ held[s]

\* Clients hold objects of the page only, and Slab::allocate refuses exactly
\* when they hold them all.
RefusedOnlyWhenFull ==
    \A s \in Slabs :
        /\ held[s] \subseteq Objects(s)
        /\ s \in mapped => (free[s] = 0 <=> held[s] = Objects(s))

\* find_slab and create_slab together make one slab per object size.
OneSlabPerSize ==
    \A s, t \in initialised : size[s] = size[t] => s = t

-----------------------------------------------------------------------------
(* The inductive invariant: the first free[s] links from list[s] on visit  *)
(* every object that no client holds, each once.  c is that walk.          *)

Walk(s, c) ==
    /\ c \in [1 .. free[s] -> Objects(s) \ held[s]]
    /\ \A j, k \in 1 .. free[s] : c[j] = c[k] => j = k
    /\ \A i \in Objects(s) \ held[s] : \E k \in 1 .. free[s] : c[k] = i
    /\ free[s] > 0 => c[1] = list[s]
    /\ \A k \in 1 .. free[s] - 1 : link[s][c[k]] = c[k + 1]

\* The free list of every page is the walk over the objects nobody holds.
FreeListSound ==
    \A s \in mapped :
        \E c \in [1 .. free[s] -> Objects(s) \ held[s]] : Walk(s, c)

\* Together: the list is exact, and what Slab::allocate takes from it is free.
ObjectsSound == TypeOK /\ FreeListSound /\ NextGrantIsFree
=============================================================================
