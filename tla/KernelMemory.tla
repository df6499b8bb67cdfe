---------------------------- MODULE KernelMemory ----------------------------
(***************************************************************************)
(* Kernel/Memory/MemoryManager.cpp above the frame bitmap: the kernel heap *)
(* (virtual pages taken from a VirtualAddressSpace, mapped through the     *)
(* kernel page directory), user address spaces, and load_elf of            *)
(* Kernel/main.cpp, which fills them.                                      *)
(*                                                                         *)
(* A frame is a page number and holds Entries words: page table entries    *)
(* or, for data, tokens.  Frames are taken lowest first, as                *)
(* Bitmap::allocate does, and are zeroed.  Kernel virtual addresses are    *)
(* page numbers that count from the base of its address space; the         *)
(* addresses and sizes of a program header are in words, so a segment may  *)
(* start and end anywhere in a page.  The TLB is invalidated after every   *)
(* change and is left out.                                                 *)
(***************************************************************************)
EXTENDS Integers, FiniteSets

CONSTANTS
    NumFrames,    \* frames of physical memory
    BootFrames,   \* frames in use when MemoryManager::init is done
    Entries,      \* entries of a table (512)
    Dirs,         \* entries of the kernel page directory (512)
    HeapBase,     \* first page of the kernel heap; the pages below are mapped
    HeapPages,    \* pages of the kernel heap's VirtualAddressSpace
    IntFrames,    \* frames whose address fits a positive int (2^19, 2 GiB)
    HeapRequests, \* page counts asked of allocate_kernel_heap_pages
    Segments,     \* loadable program headers that load_elf may meet
    MaxProcesses  \* bound on user address spaces created

Frames == 0 .. NumFrames - 1
None == -1
BootTable == 0    \* the frame with the page table of the kernel image

ASSUME LayoutAssumption ==
    /\ BootFrames \subseteq Frames /\ BootTable \in BootFrames
    /\ Entries \in Nat \ {0} /\ Dirs \in Nat \ {0}
    /\ HeapBase \in 1 .. Entries
    /\ HeapPages \in Nat /\ IntFrames \in Nat \ {0}
    /\ HeapRequests \subseteq Nat \ {0}
    /\ NumFrames \in Nat
    /\ Segments \subseteq [id : Nat, vaddr : Nat, memsz : Nat, filesz : Nat]

Zero == [kind |-> "zero", to |-> 0]
Pte(f) == [kind |-> "pte", to |-> f]
Data(id) == [kind |-> "data", to |-> id]
ZeroPage == [i \in 0 .. Entries - 1 |-> Zero]

VARIABLES
    mm,        \* the MemoryManager object and the memory it manages
    status,    \* "running", or why the kernel has stopped
    live,      \* kernel heap pages handed out and not freed
    processes, \* the pdpt frames of the user address spaces
    loaded     \* segments that load_elf reported as loaded

vars == <<mm, status, live, processes, loaded>>

-----------------------------------------------------------------------------
(* MemoryManager's own steps: each takes the object to the object it       *)
(* leaves, with what it returns.  ok FALSE is an error result.             *)

Done(m, v) == [m |-> m, ok |-> TRUE, v |-> v]
Fail(m) == [m |-> [m EXCEPT !.failed = TRUE], ok |-> FALSE, v |-> None]

FirstFrame(S) == CHOOSE f \in S : \A g \in S : f <= g

AllocatePhysicalPage(m) ==
    IF m.free = {} THEN Fail(m)
    ELSE LET p == FirstFrame(m.free)
         IN  Done([m EXCEPT !.free = @ \ {p}, !.mem[p] = ZeroPage], p)

\* VirtualAddressSpace: pages are taken in order and never given back.
TakePages(m, n) ==
    IF m.left < n THEN Fail([m EXCEPT !.next = @ + m.left, !.left = 0])
    ELSE Done([m EXCEPT !.next = @ + n, !.left = @ - n], m.next)

\* Mutant: the directory index is lost.
DirIndexZero(v) == 0

DirIndex(v) == (v \div Entries) % Dirs
TableIndex(v) == v % Entries

\* The directory index of a user page: the same mask, on the one page directory
\* that a user address space has.
UserDirIndex(v) == (v \div Entries) % Entries

\* Mutant: the new page table is not entered in the directory.
KernelPageTableUnlinked(m, v) ==
    LET d == DirIndex(v)
        r == AllocatePhysicalPage(m)
    IN  IF m.kpd[d] # None THEN Done(m, m.kpd[d])
        ELSE IF ~r.ok THEN r ELSE Done(r.m, r.v)

\* get_kernel_page_table_entry: the frame of the page table, made if absent.
KernelPageTable(m, v) ==
    LET d == DirIndex(v)
        r == AllocatePhysicalPage(m)
    IN  IF m.kpd[d] # None THEN Done(m, m.kpd[d])
        ELSE IF ~r.ok THEN r
        ELSE Done([r.m EXCEPT !.kpd[d] = r.v], r.v)

MapKernelPage(m, f, v) ==
    LET r == KernelPageTable(m, v)
    IN  IF ~r.ok THEN r ELSE Done([r.m EXCEPT !.mem[r.v][TableIndex(v)] = Pte(f)], v)

UnmapKernelPage(m, v) ==
    LET r == KernelPageTable(m, v)
    IN  IF ~r.ok THEN r ELSE Done([r.m EXCEPT !.mem[r.v][TableIndex(v)] = Zero], v)

\* `pde->physical_address << 12` on a 28-bit field is computed as an int: of
\* the frame number the high bits are lost, and half of what is left is a
\* negative number, an address that is not mapped.
IntFrame(f) ==
    IF f % (2 * IntFrames) < IntFrames THEN f % (2 * IntFrames) ELSE None

\* Mutant: the address of the page table is returned for that of the page.
TranslateToTable(m, v) ==
    LET t == IntFrame(m.kpd[DirIndex(v)])
    IN  IF m.kpd[DirIndex(v)] = None \/ t \notin Frames THEN [status |-> "fault", v |-> None]
        ELSE IF m.mem[t][0].kind = "zero" THEN [status |-> "panic", v |-> None]
        ELSE [status |-> "running", v |-> t]

\* kernel_virtual_to_physical_address: the page table, the three VERIFYs (the
\* second looks at entry 0 of the table), then the frame.  Returns the status
\* the kernel is left in.
Translate(m, v) ==
    LET d == m.kpd[DirIndex(v)]
        t == IntFrame(d)
        e == m.mem[t][TableIndex(v)]
    IN  IF d = None THEN [status |-> "panic", v |-> None]
        ELSE IF t \notin Frames THEN [status |-> "fault", v |-> None]
        ELSE IF m.mem[t][0].kind = "zero" \/ e.kind = "zero"
        THEN [status |-> "panic", v |-> None]
        ELSE [status |-> "running", v |-> e.to]

\* map_user_page: v = None in a successful result is the endless loop on a
\* page that is already present.
MapUserPage(m, pdpt, f, v) ==
    LET pd == m.mem[pdpt][0].to
        d == UserDirIndex(v)
        r == IF m.mem[pd][d].kind # "zero" THEN Done(m, m.mem[pd][d].to)
             ELSE AllocatePhysicalPage(m)
    IN  IF ~r.ok THEN r
        ELSE IF r.m.mem[r.v][TableIndex(v)].kind # "zero" THEN Done(r.m, None)
        ELSE Done([r.m EXCEPT !.mem[pd][d] = Pte(r.v),
                              !.mem[r.v][TableIndex(v)] = Pte(f)], v)

\* One page of allocate_kernel_heap_pages.
HeapPageStep(r, v) ==
    LET p == AllocatePhysicalPage(r.m)
    IN  IF ~r.ok THEN r ELSE IF ~p.ok THEN p ELSE MapKernelPage(p.m, p.v, v)

AllocateHeapPages(m, n) ==
    LET t == TakePages(m, n)
        r[i \in 0 .. n] == IF i = 0 THEN t ELSE HeapPageStep(r[i - 1], t.v + i - 1)
    IN  IF ~t.ok THEN t ELSE [r[n] EXCEPT !.v = t.v]

\* allocate_kernel_heap_page takes the frame before the virtual page.
AllocateHeapPage(m) ==
    LET p == AllocatePhysicalPage(m)
        t == TakePages(p.m, 1)
    IN  IF ~p.ok THEN p ELSE IF ~t.ok THEN t ELSE MapKernelPage(t.m, p.v, t.v)

CreateDirectory(m) ==
    LET a == AllocatePhysicalPage(m)
        b == AllocatePhysicalPage(a.m)
    IN  IF ~a.ok THEN a ELSE IF ~b.ok THEN b
        ELSE Done([b.m EXCEPT !.mem[a.v][0] = Pte(b.v)], a.v)

\* One page of allocate_user_pages; the result of map_user_page is dropped,
\* but the endless loop in it is not (hung).
UserPageStep(r, pdpt, v) ==
    LET p == AllocatePhysicalPage(r.m)
        u == MapUserPage(p.m, pdpt, p.v, v)
    IN  IF ~r.ok \/ r.hung THEN r
        ELSE [m |-> IF p.ok THEN u.m ELSE p.m,
              ok |-> p.ok,
              v |-> IF r.v = None THEN p.v ELSE r.v,
              hung |-> p.ok /\ u.ok /\ u.v = None]

AllocateUserPages(m, pdpt, base, n) ==
    LET r[i \in 0 .. n] ==
            IF i = 0 THEN [m |-> m, ok |-> TRUE, v |-> None, hung |-> FALSE]
            ELSE UserPageStep(r[i - 1], pdpt, base + i - 1)
    IN  r[n]

\* The page that p_vaddr is in, and bytes_to_pages(p_memsz): where in its page
\* the segment starts counts for neither.
FirstPage(s) == s.vaddr \div Entries
LoadPages(s) == (s.memsz + Entries - 1) \div Entries

\* Mutant: memset after memcpy.
FillZero(m, first, s) ==
    [m EXCEPT !.mem = [f \in Frames |-> [i \in 0 .. Entries - 1 |->
        IF f < first \/ f >= first + LoadPages(s) THEN m.mem[f][i] ELSE Zero]]]

\* memset of p_memsz's pages and memcpy of p_filesz words, both from the start
\* of the first frame on, through the kernel's mapping of physical memory: what
\* is longer than that frame goes to the frames behind it, whosever they are,
\* and p_filesz is not bounded by p_memsz.
Fill(m, first, s) ==
    [m EXCEPT !.mem = [f \in Frames |-> [i \in 0 .. Entries - 1 |->
        LET off == (f - first) * Entries + i
        IN  IF f < first THEN m.mem[f][i]
            ELSE IF off < s.filesz THEN Data(s.id + off)
            ELSE IF f < first + LoadPages(s) THEN Zero
            ELSE m.mem[f][i]]]]

-----------------------------------------------------------------------------
(* Actions.                                                                *)

Init ==
    /\ mm = [free |-> Frames \ BootFrames,
             mem |-> [f \in Frames |->
                        [i \in 0 .. Entries - 1 |->
                           IF f = BootTable /\ i < HeapBase THEN Pte(BootTable) ELSE Zero]],
             kpd |-> [d \in 0 .. Dirs - 1 |-> IF d = 0 THEN BootTable ELSE None],
             next |-> HeapBase,
             left |-> HeapPages,
             failed |-> FALSE]
    /\ status = "running"
    /\ live = {} /\ processes = {} /\ loaded = {}

AllocateKernelHeapPage ==
    /\ status = "running"
    /\ LET r == AllocateHeapPage(mm)
       IN  mm' = r.m /\ live' = IF r.ok THEN live \cup {r.v} ELSE live
    /\ UNCHANGED <<status, processes, loaded>>

AllocateKernelHeapPages(n) ==
    /\ status = "running"
    /\ LET r == AllocateHeapPages(mm, n)
       IN  mm' = r.m /\ live' = IF r.ok THEN live \cup (r.v .. r.v + n - 1) ELSE live
    /\ UNCHANGED <<status, processes, loaded>>

\* Mutant: the page is unmapped and its frame is not given back.
FreeKernelHeapPageUnfreed(v) ==
    /\ status = "running" /\ v \in live
    /\ LET r == Translate(mm, v)
       IN  /\ status' = r.status
           /\ \/ /\ r.status = "running"
                 /\ mm' = UnmapKernelPage(mm, v).m
                 /\ live' = live \ {v}
              \/ r.status # "running" /\ UNCHANGED <<mm, live>>
    /\ UNCHANGED <<processes, loaded>>

\* The result of free_page is dropped: a frame already free stays free.
FreeKernelHeapPage(v) ==
    /\ status = "running" /\ v \in live
    /\ LET r == Translate(mm, v)
       IN  /\ status' = r.status
           /\ \/ /\ r.status = "running"
                 /\ mm' = UnmapKernelPage([mm EXCEPT !.free = @ \cup {r.v}], v).m
                 /\ live' = live \ {v}
              \/ r.status # "running" /\ UNCHANGED <<mm, live>>
    /\ UNCHANGED <<processes, loaded>>

CreateUserModeDirectory ==
    /\ status = "running" /\ Cardinality(processes) < MaxProcesses
    /\ LET r == CreateDirectory(mm)
       IN  mm' = r.m /\ processes' = IF r.ok THEN processes \cup {r.v} ELSE processes
    /\ UNCHANGED <<status, live, loaded>>

\* One loadable program header in load_elf.  Without pages the address that
\* allocate_user_pages returns is that of frame 0.
LoadSegment(pdpt, s) ==
    /\ status = "running" /\ pdpt \in processes
    /\ LET r == AllocateUserPages(mm, pdpt, FirstPage(s), LoadPages(s))
           first == IF r.v = None THEN 0 ELSE r.v
       IN  /\ mm' = IF r.ok /\ ~r.hung THEN Fill(r.m, first, s) ELSE r.m
           /\ status' = IF r.hung THEN "hung" ELSE status
           /\ loaded' = IF r.ok /\ ~r.hung THEN loaded \cup {[pdpt |-> pdpt, seg |-> s]} ELSE loaded
    /\ UNCHANGED <<live, processes>>

\* panic() and the loop of map_user_page never return.
Stopped == status # "running" /\ UNCHANGED vars

Next ==
    \/ AllocateKernelHeapPage
    \/ \E n \in HeapRequests : AllocateKernelHeapPages(n)
    \/ \E v \in live : FreeKernelHeapPage(v)
    \/ CreateUserModeDirectory
    \/ \E pdpt \in processes, s \in Segments : LoadSegment(pdpt, s)
    \/ Stopped

Spec == Init /\ [][Next]_vars

-----------------------------------------------------------------------------
(* Properties.                                                             *)

TypeOK ==
    /\ mm.free \subseteq Frames
    /\ mm.mem \in [Frames -> [0 .. Entries - 1 -> [kind : {"zero", "pte", "data"}, to : Nat]]]
    /\ mm.kpd \in [0 .. Dirs - 1 -> Frames \cup {None}]
    /\ mm.left \in 0 .. HeapPages /\ mm.failed \in BOOLEAN
    /\ status \in {"running", "panic", "fault", "hung"}
    /\ live \subseteq HeapBase .. HeapBase + HeapPages - 1
    /\ processes \subseteq Frames

\* What the processor finds for a kernel page and for a user page.  One page
\* directory is all the kernel has, and all that a process has: nothing is
\* mapped above its reach.
KernelEntry(v) ==
    IF v >= Dirs * Entries \/ mm.kpd[DirIndex(v)] = None THEN Zero
    ELSE mm.mem[mm.kpd[DirIndex(v)]][TableIndex(v)]
UserEntry(pdpt, v) ==
    LET d == mm.mem[mm.mem[pdpt][0].to][UserDirIndex(v)]
    IN  IF v < Entries * Entries /\ d.kind = "pte" THEN mm.mem[d.to][TableIndex(v)] ELSE Zero

PtesOf(f) == {mm.mem[f][i].to : i \in {i \in 0 .. Entries - 1 : mm.mem[f][i].kind = "pte"}}

KernelTables == {mm.kpd[d] : d \in 0 .. Dirs - 1} \ {None}
UserTables == UNION {LET pd == mm.mem[p][0].to IN {p, pd} \cup PtesOf(pd) : p \in processes}
Tables == KernelTables \cup UserTables
HeapFrames == {KernelEntry(v).to : v \in live}
UserFrames == UNION {PtesOf(t) : t \in UNION {PtesOf(mm.mem[p][0].to) : p \in processes}}

\* Every heap page a caller holds is mapped, two of them never share a frame,
\* and that frame is neither free, nor a table, nor mapped in user space: what
\* free_kernel_heap_page and the on-demand page tables could get wrong.
HeapExclusive ==
    /\ \A v \in live : KernelEntry(v).kind = "pte"
    /\ \A v, w \in live : v # w => KernelEntry(v).to # KernelEntry(w).to
    /\ HeapFrames \cap (mm.free \cup Tables \cup UserFrames \cup BootFrames) = {}

\* The kernel image stays mapped where the boot loader put it.
KernelImageMapped == \A v \in 0 .. HeapBase - 1 : KernelEntry(v) = Pte(BootTable)

\* No page table, page directory or user page lies in a free frame, and
\* tables are not user pages: a process cannot reach its own tables.
TablesExclusive ==
    /\ (Tables \cup UserFrames) \cap mm.free = {}
    /\ Tables \cap UserFrames = {}

\* Together: no frame serves two purposes.
FramesExclusive == TypeOK /\ HeapExclusive /\ TablesExclusive

\* As long as no request has failed, a frame that is not free is a table, a
\* boot frame, or mapped for its owner: the successful paths leak nothing.
NoLeakWithoutFailure ==
    (~mm.failed /\ status = "running")
        => Frames \ mm.free = BootFrames \cup Tables \cup HeapFrames \cup UserFrames

\* From the address a on, every word of a loaded segment is mapped for its
\* process, and is the file's word or, behind the file's words, zero.
FoundAt(l, a) ==
    \A i \in 0 .. l.seg.memsz - 1 :
        LET e == UserEntry(l.pdpt, (a + i) \div Entries)
        IN  /\ e.kind = "pte"
            /\ mm.mem[e.to][(a + i) % Entries] =
                 IF i < l.seg.filesz THEN Data(l.seg.id + i) ELSE Zero

\* A segment that load_elf reported as loaded is in its process from the start
\* of the page that p_vaddr is in, which is its address only if p_vaddr is a
\* multiple of the page size, and stays there whatever is allocated, freed and
\* loaded afterwards, unless memory ran out meanwhile.  (Beyond the reach of
\* one page directory the page it lands in is another one.)
SegmentsLoaded ==
    (~mm.failed /\ status = "running") =>
        \A l \in loaded : FirstPage(l.seg) < Entries * Entries
            => FoundAt(l, l.seg.vaddr - (l.seg.vaddr % Entries))

\* A VERIFY of kernel_virtual_to_physical_address stops a free of a heap page
\* that is properly mapped only because entry 0 of its page table, which the
\* second VERIFY tests in place of the table, is that of a page which the heap
\* has given out and nobody holds: it was freed, or a request that failed half
\* way took it and left it unmapped.
VerifyPanicExplained ==
    status = "panic" =>
        \E v \in live :
            /\ KernelEntry(v).kind = "pte"
            /\ KernelEntry(v - TableIndex(v)) = Zero
            /\ v - TableIndex(v) \in HeapBase .. mm.next - 1 \ live
=============================================================================
