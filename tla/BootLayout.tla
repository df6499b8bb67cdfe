----------------------------- MODULE BootLayout -----------------------------
(***************************************************************************)
(* Bootloader/main.cpp, init(): from the firmware's memory map to the      *)
(* address space that the kernel starts in, and the first thing the kernel *)
(* does with it, MemoryManager::init's reading of the memory map.          *)
(*                                                                         *)
(* Memory is a function from frames to EFI memory types.  The firmware     *)
(* (external) reports it as a sequence of descriptors, allocates runs of   *)
(* conventional frames from either end, and may allocate for itself while  *)
(* boot services run.  Virtual pages count from kernel_virtual_base.       *)
(***************************************************************************)
EXTENDS Integers, Sequences, FiniteSets, FiniteSetsExt

CONSTANTS
    Machines,       \* [mem: frame -> type, sorted: the order of descriptors,
                    \*  segments: of kernel.elf, fb: pages of the framebuffer]
    Entries,        \* entries of a page table (512)
    PageBytes,      \* bytes of a page (4096)
    WordBits,       \* bits of a word of the kernel's bitmap (64)
    DescPerPage,    \* descriptors that fit a page (85)
    BootStatePages, \* pages of a BootState
    StackPages,     \* kernel_stack_page_count (10)
    LowPages        \* pages below 1 MiB (256)

ASSUME SizesAssumption ==
    /\ {Entries, PageBytes, WordBits, DescPerPage, BootStatePages, StackPages, LowPages} \subseteq Nat \ {0}
    /\ Entries > 1
    /\ WordBits % 8 = 0 /\ PageBytes % (WordBits \div 8) = 0

Preserved == {"runtime"}               \* runtime services, ACPI, PAL code
Blocked == {"runtime", "loader", "boot", "unusable"} \* used, to MemoryManager::init
Types == Blocked \cup {"conventional", "reserved", "hole"}

CeilDiv(a, b) == (a + b - 1) \div b       \* divide_rounded_up

\* The running totals of a sequence of numbers.
Totals(s) == LET f[i \in 0 .. Len(s)] == IF i = 0 THEN 0 ELSE f[i - 1] + s[i] IN f
Total(s) == Totals(s)[Len(s)]

\* bytes_to_pages of every segment.
SegmentPages(segments) == [i \in DOMAIN segments |-> CeilDiv(segments[i].memsz, PageBytes)]
KernelPages(segments) == Total(SegmentPages(segments))

Segment == [id : Nat, vaddr : Nat, memsz : Nat, filesz : Nat]

\* The segments of kernel.elf, as Kernel/linker.ld lays them out: one after the
\* other, with no more between two of them than fills the last page.
Linked(segments) ==
    /\ segments \in Seq(Segment)
    /\ \A i \in DOMAIN segments :
        /\ segments[i].filesz <= segments[i].memsz
        /\ segments[i].vaddr <= Totals(SegmentPages(segments))[i - 1] * PageBytes
        /\ \A j \in 1 .. i - 1 : segments[j].vaddr + segments[j].memsz <= segments[i].vaddr

\* Physical memory starts at frame 0 and goes on past the low pages.
ASSUME MachinesAssumption ==
    \A k \in Machines :
        /\ IsFiniteSet(DOMAIN k.mem) /\ DOMAIN k.mem = 0 .. Cardinality(DOMAIN k.mem) - 1
        /\ k.mem \in [DOMAIN k.mem -> Types]
        /\ \E f \in DOMAIN k.mem : f >= LowPages /\ k.mem[f] # "hole"
        /\ k.sorted \in BOOLEAN /\ k.fb \in Nat
        /\ Linked(k.segments)

VARIABLES
    machine, \* the one that boots; its mem is the memory as it was found
    mem,     \* the memory now
    pc,      \* the next step
    map,     \* memory_map: [descs, buf: the run of frames that holds it]
    request, \* get_memory_map's m_size and buffer so far
    lay,     \* the values that init() has computed, and its allocations
    image,   \* bytes loaded at the kernel's base, by offset
    ptes,    \* kernel_page_tables: virtual page -> frame
    marked   \* pages that MemoryManager::init has marked as used

vars == <<machine, mem, pc, map, request, lay, image, ptes, marked>>

NoRun == [start |-> 0, pages |-> 0]
RunOf(r) == r.start .. r.start + r.pages - 1

Frames == DOMAIN mem

\* The i-th number of a set.
Nth(S, i) == CHOOSE x \in S : Cardinality({y \in S : y < x}) = i - 1

\* The runs of frames of one type.
RunStarts(m) == {f \in DOMAIN m : m[f] # "hole" /\ (f = 0 \/ m[f - 1] # m[f])}
RunEnd(m, f) ==
    LET n == Cardinality(DOMAIN m)
    IN  Min({n} \cup {e \in f + 1 .. n - 1 : m[e - 1] # m[e]})

\* What the firmware reports: a descriptor for each run, with the last one first
\* where they are not sorted.
Descriptors(m, sorted) ==
    LET k == Cardinality(RunStarts(m))
        Describe(f) == [type |-> m[f], start |-> f, pages |-> RunEnd(m, f) - f]
    IN  [i \in 1 .. k |->
            Describe(Nth(RunStarts(m), IF sorted THEN i ELSE IF i = 1 THEN k ELSE i - 1))]

\* allocate_pages: the lowest or the highest run of n conventional frames.
Fits(m, n) ==
    LET starts == {f \in DOMAIN m : \A g \in f .. f + n - 1 : g \in DOMAIN m /\ m[g] = "conventional"}
    IN  IF starts = {} THEN {}
        ELSE {[start |-> f, pages |-> n] : f \in {Min(starts), Max(starts)}}

SetType(m, r, t) == [f \in DOMAIN m |-> IF f \in RunOf(r) THEN t ELSE m[f]]

Init ==
    /\ machine \in Machines
    /\ mem = machine.mem
    /\ pc = "map1"
    /\ map = [descs |-> <<>>, buf |-> NoRun]
    /\ request = [size |-> 0, buf |-> NoRun]
    /\ lay = [extent |-> 0, bitmap |-> NoRun, kernelPages |-> 0, tables |-> 0,
              kernel |-> NoRun, state |-> NoRun, stack |-> NoRun, firstMap |-> 0,
              preserved |-> 0]
    /\ image = <<>> /\ ptes = <<>> /\ marked = {}

-----------------------------------------------------------------------------
(* EFI::BootServices::get_memory_map.                                      *)

\* As many descriptors as there are runs.
Required == Cardinality(RunStarts(mem))

\* Mutant: the size that the firmware asks for is not kept.
ReplyForgotten(size, r) == [size |-> 0, buf |-> r]

\* m_size and m_descriptors after BufferTooSmall.
Reply(size, r) == [size |-> size, buf |-> r]

\* BufferTooSmall: the old buffer is freed, one of the size reported before
\* that is allocated.
GrowMapBuffer ==
    /\ pc \in {"map1", "map2"} /\ Required > request.size
    /\ \E size \in {Required}, m \in {SetType(mem, request.buf, "conventional")} :
        \/ \E r \in Fits(m, CeilDiv(size, DescPerPage)) :
            /\ mem' = SetType(m, r, "loader")
            /\ request' = Reply(size, r)
            /\ UNCHANGED pc
        \/ /\ Fits(m, CeilDiv(size, DescPerPage)) = {}
           /\ mem' = m /\ pc' = "failed" /\ UNCHANGED request
    /\ UNCHANGED <<machine, map, lay, image, ptes, marked>>

TakeMap ==
    /\ pc \in {"map1", "map2"} /\ Required <= request.size
    /\ map' = [descs |-> Descriptors(mem, machine.sorted), buf |-> request.buf]
    /\ request' = [size |-> 0, buf |-> NoRun]
    /\ pc' = IF pc = "map1" THEN "bitmap" ELSE "exit"
    /\ UNCHANGED <<machine, mem, lay, image, ptes, marked>>

-----------------------------------------------------------------------------
(* Sizes.                                                                  *)

\* Mutant: the size of the last descriptor, without its base.
ExtentSize(descs) ==
    LET I == {i \in DOMAIN descs : descs[i].type # "unusable"}
    IN  IF I = {} THEN 0 ELSE descs[Max(I)].pages

\* get_physical_memory_extent: the end of the last descriptor that counts.
Extent(descs) ==
    LET I == {i \in DOMAIN descs : descs[i].type # "unusable"}
    IN  IF I = {} THEN 0 ELSE descs[Max(I)].start + descs[Max(I)].pages

\* bitmap_required_size_in_bytes, in pages.
BitmapPages(extent) == CeilDiv((extent * 2) \div 8, PageBytes)

PreservedPages(descs) ==
    Total([i \in DOMAIN descs |-> IF descs[i].type \in Preserved THEN descs[i].pages ELSE 0])

\* get_pagetable_size: PML4, two PDPTs or more, directories, tables.
PageTableSize(pages) ==
    1 + (CeilDiv(pages, Entries * Entries * Entries) + 1)
      + CeilDiv(pages, Entries * Entries) + CeilDiv(pages, Entries)

Guard == 1

\* pages before the page tables and the bitmap are added.
MappedPages ==
    KernelPages(machine.segments) + Guard
    + CeilDiv(Len(map.descs), DescPerPage) + Guard
    + machine.fb + Guard + PreservedPages(map.descs) + Guard

Pages == MappedPages + PageTableSize(MappedPages) + Guard + BitmapPages(lay.extent) + Guard

-----------------------------------------------------------------------------
(* The allocations of init(), each in a TRY.                               *)

AllocateRun(n, then, Use(_)) ==
    /\ \/ \E r \in Fits(mem, n) :
            mem' = SetType(mem, r, "loader") /\ lay' = Use(r) /\ pc' = then
       \/ Fits(mem, n) = {} /\ pc' = "failed" /\ UNCHANGED <<mem, lay>>
    /\ UNCHANGED <<machine, map, request, image, ptes, marked>>

AllocateBitmap ==
    /\ pc = "bitmap"
    /\ LET e == Extent(map.descs)
       IN  AllocateRun(BitmapPages(e), "kernel",
                       LAMBDA r : [lay EXCEPT !.extent = e, !.bitmap = r])

AllocateKernel ==
    /\ pc = "kernel"
    /\ AllocateRun(Pages, "state",
                   LAMBDA r : [lay EXCEPT !.kernel = r,
                                          !.kernelPages = KernelPages(machine.segments),
                                          !.tables = PageTableSize(MappedPages),
                                          !.firstMap = Len(map.descs),
                                          !.preserved = PreservedPages(map.descs)])

AllocateBootState ==
    pc = "state" /\ AllocateRun(BootStatePages, "stack", LAMBDA r : [lay EXCEPT !.state = r])

AllocateStack ==
    pc = "stack" /\ AllocateRun(StackPages, "load", LAMBDA r : [lay EXCEPT !.stack = r])

\* Mutant: the memory of a segment is cleared after its bytes are copied.
LoadSegmentCleared(bytes, s) ==
    [a \in DOMAIN bytes |->
        IF a \in s.vaddr .. s.vaddr + CeilDiv(s.memsz, PageBytes) * PageBytes - 1 THEN 0
        ELSE bytes[a]]

\* memset of whole pages from p_vaddr on, then memcpy.
LoadSegment(bytes, s) ==
    [a \in DOMAIN bytes |->
        IF a \in s.vaddr .. s.vaddr + s.filesz - 1 THEN s.id
        ELSE IF a \in s.vaddr .. s.vaddr + CeilDiv(s.memsz, PageBytes) * PageBytes - 1 THEN 0
        ELSE bytes[a]]

\* The image after each segment.
Loaded(bytes, segments) ==
    LET f[i \in 0 .. Len(segments)] ==
            IF i = 0 THEN bytes ELSE LoadSegment(f[i - 1], segments[i])
    IN  f

LoadSegments ==
    /\ pc = "load"
    /\ image' = Loaded([a \in 0 .. lay.kernel.pages * PageBytes - 1 |-> 0],
                       machine.segments)[Len(machine.segments)]
    /\ pc' = "map2"
    /\ UNCHANGED <<machine, mem, map, request, lay, ptes, marked>>

\* The firmware takes the call only with the key of the current map.
ExitBootServices ==
    /\ pc = "exit"
    /\ pc' = IF map.descs = Descriptors(mem, machine.sorted) THEN "paging" ELSE "failed"
    /\ UNCHANGED <<machine, mem, map, request, lay, image, ptes, marked>>

\* At any time before the exit, also while get_memory_map looks for a buffer.
FirmwareAllocates ==
    /\ pc \in {"map1", "bitmap", "kernel", "state", "stack", "load", "map2", "exit"}
    /\ \A f \in Frames : mem[f] # "boot"
    /\ \E r \in Fits(mem, 1) : mem' = SetType(mem, r, "boot")
    /\ UNCHANGED <<machine, pc, map, request, lay, image, ptes, marked>>

-----------------------------------------------------------------------------
(* The address space.                                                      *)

FrameBuffer == 1000000    \* its frames are not memory

\* The regions of BootState, with the frame each starts in.
Regions ==
    << [frame |-> lay.kernel.start, pages |-> lay.kernelPages],
       [frame |-> lay.state.start, pages |-> BootStatePages],
       [frame |-> lay.kernel.start + lay.kernelPages, pages |-> lay.tables],
       [frame |-> map.buf.start, pages |-> CeilDiv(Len(map.descs), DescPerPage)],
       [frame |-> FrameBuffer, pages |-> machine.fb],
       [frame |-> lay.stack.start, pages |-> StackPages],
       [frame |-> lay.bitmap.start, pages |-> BitmapPages(lay.extent)] >>

\* next_virtual_mapping
NextMapping(base, pages) == base + pages + 1

\* The virtual page at which region i starts.
Base[i \in 1 .. 7] ==
    IF i = 1 THEN 0 ELSE NextMapping(Base[i - 1], Regions[i - 1].pages)

\* Mutant: the last entry of a partly used table is rounded off.
PageTablesCountDown == lay.kernel.pages \div Entries

\* page_tables_count: directory entries that are made present.
PageTablesCount == CeilDiv(lay.kernel.pages, Entries)

\* map_address_space for each region.
RegionPages(i) == Base[i] .. Base[i] + Regions[i].pages - 1
MapAddressSpace ==
    [v \in UNION {RegionPages(i) : i \in 1 .. 7} |->
        LET i == CHOOSE j \in 1 .. 7 : v \in RegionPages(j)
        IN  Regions[i].frame + v - Base[i]]

\* From exit_boot_services to the jump.  The ACPI root table may not be found.
\* The kernel's allocation was cleared as a whole, so an entry that is not
\* written is not present.
BuildAddressSpace ==
    /\ pc = "paging"
    /\ \/ /\ ptes' = MapAddressSpace
          /\ pc' = "kernel_main"
       \/ pc' = "failed" /\ UNCHANGED ptes
    /\ UNCHANGED <<machine, mem, map, request, lay, image, marked>>

\* Mutant: loader data is not considered used.
BlockedTypesFewer == Blocked \ {"loader"}

BlockedTypes == Blocked

MarkedRun(d) == RunOf(d)

\* MemoryManager::init: set_allocated for each page of a used descriptor, and
\* for the pages below 1 MiB.  The kernel steps from descriptor to descriptor by
\* the size of MemoryDescriptor (48 bytes), the loader counts them by the size
\* that the firmware reports: here, as on the machines the struct is padded for,
\* the two are equal.
ReadMemoryMap ==
    /\ pc = "kernel_main"
    /\ marked' = 0 .. LowPages - 1 \cup
                 UNION {MarkedRun(map.descs[i]) :
                            i \in {j \in DOMAIN map.descs : map.descs[j].type \in BlockedTypes}}
    /\ pc' = "running"
    /\ UNCHANGED <<machine, mem, map, request, lay, image, ptes>>

Finished == pc \in {"running", "failed"} /\ UNCHANGED vars

Next ==
    \/ GrowMapBuffer \/ TakeMap \/ AllocateBitmap \/ AllocateKernel \/ AllocateBootState
    \/ AllocateStack \/ LoadSegments \/ FirmwareAllocates \/ ExitBootServices
    \/ BuildAddressSpace \/ ReadMemoryMap \/ Finished

\* The processor goes on; the firmware need not allocate.
Spec == Init /\ [][Next]_vars /\ WF_vars(Next)

-----------------------------------------------------------------------------
(* Properties.                                                             *)

TypeOK ==
    /\ mem \in [Frames -> Types]
    /\ pc \in {"map1", "bitmap", "kernel", "state", "stack", "load", "map2", "exit", "paging",
               "kernel_main", "running", "failed"}
    /\ request.size \in Nat /\ RunOf(request.buf) \subseteq Frames
    /\ marked \subseteq Frames

\* What the processor finds for a virtual page.
Walk(v) ==
    IF v \div Entries < PageTablesCount /\ v \in DOMAIN ptes THEN ptes[v] ELSE -1

\* The loader links one page directory.
OneDirectory == lay.kernel.pages <= Entries * Entries

\* Boot state and stack are mapped but not counted, and the memory map may have
\* grown; preserved firmware memory is counted but not mapped.
Uncounted ==
    BootStatePages + StackPages
    + CeilDiv(Len(map.descs), DescPerPage) - CeilDiv(lay.firstMap, DescPerPage)
Counted == lay.preserved >= Uncounted

\* When the kernel starts, every page of every region is mapped to its frame
\* and the pages around each region are not mapped, provided that what the
\* loader forgets to count is made up for by what it counts in vain, and that
\* one page directory is enough.
MappedExactly ==
    (pc = "running" /\ Counted /\ OneDirectory) =>
        \A i \in 1 .. 7 :
            /\ \A k \in 0 .. Regions[i].pages - 1 : Walk(Base[i] + k) = Regions[i].frame + k
            /\ Walk(Base[i] + Regions[i].pages) = -1

\* The frames that the kernel starts with, page tables included, are frames of
\* the loader's that MemoryManager::init will not give away: the map it reads
\* was taken after the last allocation, its own buffer included.  The page
\* tables it has written stay inside its allocation as long as the pages it
\* forgets to count take no more than one table.
InUse ==
    UNION {Regions[i].frame .. Regions[i].frame + Regions[i].pages - 1 : i \in (1 .. 7) \ {5}}
TablesWritten == {lay.kernel.start + lay.kernelPages + 4 + v \div Entries : v \in DOMAIN ptes}

FramesReserved ==
    pc = "running" =>
        /\ InUse \subseteq marked
        /\ (OneDirectory /\ Uncounted <= Entries) => TablesWritten \subseteq marked

\* Every page that MemoryManager::init marks has its word inside the storage
\* that the loader set aside, if the extent it computed covers the page: which
\* it does unless descriptors are unordered or unusable memory comes last.  (An
\* extent of less than four pages would be rounded down to no storage at all.)
BitmapHolds ==
    (pc = "running" /\ lay.extent >= 4) =>
        \A p \in marked : p < lay.extent =>
            (p \div WordBits + 1) * (WordBits \div 8) <= BitmapPages(lay.extent) * PageBytes

\* With descriptors in order and no unusable memory the extent covers them all.
ExtentCovers ==
    (pc = "running" /\ machine.sorted /\ \A f \in Frames : mem[f] # "unusable")
        => \A p \in marked : p < lay.extent

\* Together: the storage of the bitmap is large enough for what is marked in it.
BitmapSound == TypeOK /\ BitmapHolds /\ ExtentCovers

\* Every byte of every segment is where the kernel's code expects it, zero
\* beyond its file data, and no segment reaches into the page tables.
ImageWhole ==
    pc = "running" =>
        \A i \in DOMAIN machine.segments :
            LET s == machine.segments[i]
            IN  /\ s.vaddr + s.memsz <= lay.kernelPages * PageBytes
                /\ \A a \in s.vaddr .. s.vaddr + s.memsz - 1 :
                        image[a] = IF a < s.vaddr + s.filesz THEN s.id ELSE 0

\* init() comes to an end: get_memory_map stops asking for larger buffers
\* although each buffer it allocates changes the map.
Boots == <>(pc \in {"running", "failed"})
=============================================================================
