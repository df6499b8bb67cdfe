----------------------------- MODULE FrameBitmap -----------------------------
(***************************************************************************)
(* The physical frame allocator: Kernel/Memory/Bitmap.cpp, together with   *)
(* the loops of MemoryManager::init that block out used memory.            *)
(*                                                                         *)
(* A physical address is its page number (the base address is 0, and every *)
(* caller passes page-aligned addresses); the words of m_storage are the   *)
(* set of page numbers whose bit is set, a page p having block             *)
(* p \div PagesPerBlock and offset p % PagesPerBlock.  u8 and size_t keep  *)
(* their wrap-around, at the moduli U8 and SizeMod.                        *)
(***************************************************************************)
EXTENDS Integers, Sequences, FiniteSets

CONSTANTS
    PagesPerBlock,  \* bits in a word of m_storage (64)
    TotalPages,     \* m_total_pages, ram_size / page_size
    LowPages,       \* pages below 1 MiB (256)
    U8,             \* values of a u8 (256)
    SizeMod,        \* values of a size_t (2^64)
    Requests,       \* page counts that callers of allocate_contiguous ask for
    MemoryMaps      \* memory maps the firmware may hand over

ASSUME SizesAssumption ==
    /\ PagesPerBlock \in Nat \ {0}
    /\ TotalPages \in Nat
    /\ LowPages \in Nat /\ LowPages <= TotalPages
    /\ U8 \in Nat /\ PagesPerBlock + 2 < U8
    /\ SizeMod \in Nat /\ TotalPages < SizeMod /\ U8 <= SizeMod
    /\ Requests \subseteq Nat

Pages == 0 .. TotalPages - 1
BlockCount == TotalPages \div PagesPerBlock
BlockPages == 0 .. BlockCount * PagesPerBlock - 1

\* A descriptor of the memory map; "used" stands for the nine types that
\* MemoryManager::init blocks out, "other" for the rest.
Descriptor == [type : {"used", "other"}, pages : SUBSET Pages]

ASSUME MapsAssumption == MemoryMaps \subseteq Seq(Descriptor)

VARIABLES
    storage,     \* m_storage: pages whose bit is set
    free_pages,  \* m_free_pages
    map,         \* descriptors MemoryManager::init has still to parse
    phase,       \* "map" -> "low" -> "running": progress of MemoryManager::init
    result,      \* what the last call returned
    \* The rest is history, not program state:
    grants,      \* how many callers each page is currently granted to
    blocked,     \* pages blocked out by MemoryManager::init
    overlap      \* set_allocated calls that found the bit already set

vars == <<storage, free_pages, map, phase, result, grants, blocked, overlap>>

Errors == {"NoFreeMemory", "AllocationFailure", "DoubleFree"}
Result == [op : {"init", "allocate", "allocate_contiguous", "free"},
           error : Errors \cup {"none"}]

-----------------------------------------------------------------------------
(* Pure parts of the bitmap.                                               *)

Sub(x, n) == (x - n) % SizeMod
Add(x, n) == (x + n) % SizeMod

\* Pages of m_storage words the allocators scan that have a clear bit.
FreeBlockPages(s) == BlockPages \ s

\* make_mask(n) << i within the word of block b, as page numbers.
MaskPages(b, n, i) ==
    {b * PagesPerBlock + k : k \in {k \in i .. i + n - 1 : k < PagesPerBlock}}

\* make_mask saturates at a full word.
MaskLength(n) == IF n >= PagesPerBlock THEN PagesPerBlock ELSE n

\* Mutant: one offset too many.
TriedOffsetsOneMore(n) ==
    IF n <= PagesPerBlock + 1 THEN 0 .. PagesPerBlock - n + 1 ELSE 0 .. PagesPerBlock

\* Offsets the loop of find_n_free tries: 64 - n + 1 of them, but for
\* n >= 66 that int is negative and is compared as a size_t, so the loop goes
\* on until the mask is shifted out.
TriedOffsets(n) ==
    IF n <= PagesPerBlock + 1 THEN 0 .. PagesPerBlock - n ELSE 0 .. PagesPerBlock

\* Offsets at which find_n_free(m_storage[b], n) would return.
FitOffsets(s, b, n) ==
    {i \in TriedOffsets(n) : MaskPages(b, MaskLength(n), i) \cap s = {}}

FitBlocks(s, n) == {b \in 0 .. BlockCount - 1 : FitOffsets(s, b, n) # {}}

Least(S) == CHOOSE x \in S : \A y \in S : x <= y

\* find_n_free returns the first offset that fits.
FindNFree(s, b, n) == Least(FitOffsets(s, b, n))

\* The bits set_n_allocated may set: a shift by the word size is undefined,
\* and the builds either keep the mask or clear it.
SetBits(b, n, i) ==
    IF i = PagesPerBlock THEN {MaskPages(b, MaskLength(n), 0), {}}
                         ELSE {MaskPages(b, MaskLength(n), i)}

-----------------------------------------------------------------------------
(* Operations.                                                             *)

Return(op, error) == result' = [op |-> op, error |-> error]

Grant(S) == grants' = [p \in Pages |-> grants[p] + IF p \in S THEN 1 ELSE 0]

\* set_allocated for every page of S.
SetAllocated(S) ==
    /\ storage' = storage \cup S
    /\ free_pages' = Sub(free_pages, Cardinality(S))
    /\ blocked' = blocked \cup S
    /\ overlap' = overlap + Cardinality(S \cap storage)

\* One descriptor of the memory map in MemoryManager::init.
ParseDescriptor ==
    /\ phase = "map" /\ map # <<>>
    /\ map' = Tail(map)
    /\ \/ Head(map).type = "used" /\ SetAllocated(Head(map).pages)
       \/ Head(map).type = "other" /\ UNCHANGED <<storage, free_pages, blocked, overlap>>
    /\ UNCHANGED <<phase, result, grants>>

MapParsed ==
    /\ phase = "map" /\ map = <<>>
    /\ phase' = "low"
    /\ UNCHANGED <<storage, free_pages, map, result, grants, blocked, overlap>>

\* Reserve all memory below 1 MiB for the application processors.
ReserveLow ==
    /\ phase = "low" /\ phase' = "running"
    /\ SetAllocated(0 .. LowPages - 1)
    /\ UNCHANGED <<map, result, grants>>

AllocatePage ==
    /\ phase = "running" /\ free_pages # 0 /\ FreeBlockPages(storage) # {}
    /\ LET p == Least(FreeBlockPages(storage))
       IN  /\ storage' = storage \cup {p}
           /\ Grant({p})
    /\ free_pages' = Sub(free_pages, 1)
    /\ Return("allocate", "none")
    /\ UNCHANGED <<map, phase, blocked, overlap>>

AllocateRefused ==
    /\ phase = "running"
    /\ \/ free_pages = 0 /\ Return("allocate", "NoFreeMemory")
       \/ /\ free_pages # 0 /\ FreeBlockPages(storage) = {}
          /\ Return("allocate", "AllocationFailure")
    /\ UNCHANGED <<storage, free_pages, map, phase, grants, blocked, overlap>>

\* pages is narrowed to a u8 on the way into find_n_free and set_n_allocated;
\* the caller takes the whole run of pages from the returned address on.
AllocateContiguous(pages) ==
    LET n == pages % U8
    IN  /\ phase = "running" /\ free_pages # 0 /\ FitBlocks(storage, n) # {}
        /\ LET b == Least(FitBlocks(storage, n))
               i == FindNFree(storage, b, n)
               first == b * PagesPerBlock + i
           IN  /\ \E bits \in SetBits(b, n, i) : storage' = storage \cup bits
               /\ Grant(first .. first + pages - 1)
        /\ free_pages' = Sub(free_pages, n)
        /\ Return("allocate_contiguous", "none")
        /\ UNCHANGED <<map, phase, blocked, overlap>>

ContiguousRefused(pages) ==
    /\ phase = "running"
    /\ free_pages = 0 \/ FitBlocks(storage, pages % U8) = {}
    /\ Return("allocate_contiguous", "NoFreeMemory")
    /\ UNCHANGED <<storage, free_pages, map, phase, grants, blocked, overlap>>

\* Mutant: the bit is cleared but the counter is not raised.
FreeUncounted(p) ==
    /\ phase = "running" /\ grants[p] > 0 /\ p \in storage
    /\ storage' = storage \ {p}
    /\ grants' = [grants EXCEPT ![p] = @ - 1]
    /\ Return("free", "none")
    /\ UNCHANGED <<free_pages, map, phase, blocked, overlap>>

\* Callers free what they were granted...
Free(p) ==
    /\ phase = "running" /\ grants[p] > 0 /\ p \in storage
    /\ storage' = storage \ {p}
    /\ free_pages' = Add(free_pages, 1)
    /\ grants' = [grants EXCEPT ![p] = @ - 1]
    /\ Return("free", "none")
    /\ UNCHANGED <<map, phase, blocked, overlap>>

\* ...or, by mistake, a page that is free already.
FreeRefused(p) ==
    /\ phase = "running" /\ p \notin storage
    /\ Return("free", "DoubleFree")
    /\ UNCHANGED <<storage, free_pages, map, phase, grants, blocked, overlap>>

\* Bitmap::init clears the words of whole blocks; the tail's word was cleared by
\* the boot loader with the rest of the storage.
Init ==
    /\ storage = {}
    /\ free_pages = TotalPages
    /\ map \in MemoryMaps
    /\ phase = "map"
    /\ result = [op |-> "init", error |-> "none"]
    /\ grants = [p \in Pages |-> 0]
    /\ blocked = {}
    /\ overlap = 0

Next ==
    \/ ParseDescriptor \/ MapParsed \/ ReserveLow
    \/ AllocatePage \/ AllocateRefused
    \/ \E n \in Requests : AllocateContiguous(n) \/ ContiguousRefused(n)
    \/ \E p \in Pages : Free(p) \/ FreeRefused(p)

Spec == Init /\ [][Next]_vars

-----------------------------------------------------------------------------
(* Properties.                                                             *)

TypeOK ==
    /\ storage \subseteq Pages
    /\ free_pages \in 0 .. SizeMod - 1
    /\ map \in Seq(Descriptor)
    /\ phase \in {"map", "low", "running"}
    /\ result \in Result
    /\ grants \in [Pages -> Nat]
    /\ blocked \subseteq Pages
    /\ overlap \in Nat

\* The requests that fit a word of the bitmap (65 is refused by the empty loop).
RequestsFit == \A n \in Requests : 1 <= n /\ n <= PagesPerBlock + 1

\* allocate and allocate_contiguous never hand a page to a second caller while
\* the first still holds it, nor a page MemoryManager::init blocked out.
NoDoubleGrant ==
    \A p \in Pages : grants[p] > 0 => grants[p] = 1 /\ p \notin blocked

\* A set bit is a page that was blocked out or is held by a caller: free
\* clears what it should, so no page is lost for good.
NoLostPage == storage = blocked \cup {p \in Pages : grants[p] > 0}

\* Together: every bit, every grant and every reservation agree.
PagesOwned == TypeOK /\ NoDoubleGrant /\ NoLostPage

\* m_free_pages is the number of clear bits less one for every set_allocated
\* that hit a bit already set (memory below 1 MiB that the memory map lists
\* as used too), modulo the width of size_t.
Accounting ==
    free_pages = (TotalPages - Cardinality(storage) - overlap) % SizeMod

\* Unless the low megabyte overlaps the memory map, allocate refuses only
\* when every page the bitmap can hand out is taken.
RefusedOnlyWhenFull ==
    (overlap = 0 /\ result.op = "allocate" /\ result.error # "none")
        => FreeBlockPages(storage) = {}

\* The bitmap implements the abstract frame allocator.
Abs == INSTANCE FrameAllocator WITH
           Frames <- Pages,
           avail <- FreeBlockPages(storage),
           owned <- {p \in Pages : grants[p] > 0}
ImplementsFrameAllocator == Abs!Spec
=============================================================================
