# WorkbenchOS verification

TLA+ models of the WorkbenchOS kernel, the TLC runs that check them on small
instances, and TLAPS proofs of theorems about them for every value of their
constants. Paths are relative to the repository's root.

WorkbenchOS is an experimental operating system for x86_64 (C++). An EFI boot
loader hands a `BootState` to the kernel; the kernel takes over physical memory,
builds its heaps, enables interrupts, finds a virtio disk, mounts a FAT32 volume
and loads `/wbinit` from it into a new address space. Nearly everything that
makes it correct is memory and block bookkeeping under failure, and little of it
is covered by tests: `Libraries/LibStd/tests` holds the only ones.

## 1. Inventory

| Component | Source | State | Operations | What makes it correct |
|---|---|---|---|---|
| Frame bitmap | `Kernel/Memory/Bitmap` | one bit per page, `m_free_pages` | `init`, `allocate`, `allocate_contiguous`, `free`, `set_allocated` | no page granted twice, none lost, refusal only when full |
| Memory manager | `Kernel/Memory/MemoryManager` | kernel page directory and tables, the virtual heap range | heap pages, user directories and pages, translation | frames in use are disjoint; the kernel image stays mapped; an ELF segment is where it was mapped |
| Slab allocator | `Kernel/Heap/SlabAllocator` | 32 slabs, a page each, free list inside the objects | `get_or_create_slab`, `allocate`, `free` | the embedded list is exact although clients overwrite it |
| Heap | `Kernel/Heap/Kmalloc` | sub-heaps of blocks, doubly linked free list inside them | `allocate`, `free`, growth | blocks disjoint, data intact, space coalesced |
| Virtio disk | `Kernel/Devices/VirtioBlockDevice` | ring shared with the device, stack of free descriptors, indices | `init`, `rw` | is a block device; calls return; no DMA into a finished call |
| FAT32 | `Kernel/Filesystems/Fat32` | geometry of the mounted volume | `mount`, `get_file_size`, `read_file` | files are read as they are on disk |
| Start-up | `Kernel/main.cpp` | progress | `kernel_stage2`, `load_elf`, `run_executable` | parts are used after they are ready; failure stops the kernel |
| Interrupts, APIC, PS/2 | `Kernel/InterruptVectorTable`, `Exceptions`, `APIC`, `Devices/PS2*` | IDT, in-service state, key and mouse buffers | handlers, routing | every interrupt is ended; buffers survive interruption; a fault is final |
| Processes | `Kernel/Process`, `Memory/AddressSpace`, `Region` | process list, address spaces | `create_process`, `next_process` | a failed creation leaves nothing behind |
| ACPI, application processors, Mutex | `Kernel/ACPI`, `ApInit.S`, `Mutex` | trampoline variables, boot spinlock | `start_application_processors`, `enter`, `exit` | each processor gets its own stack; the trampoline stays mapped while it is used |
| PCI | `Kernel/Bus/PCI` | list of devices | `initialise`, `find_device` | every function is listed once; the driver gets its own device |
| Ramdisk, SquashFS, memory block device | `Kernel/Filesystems`, `Kernel/Devices` | superblock, reader position | `open`, `read`, `read_directory` | reads stay inside the image |
| Console, formatting | `Kernel/BootConsole`, `Library/UnbufferedConsole` | cursor, double buffer | `write_character`, `scroll`, `format` | drawing stays inside the buffer, lines reach the screen; numbers print right |
| Boot loader | `Bootloader`, `Library/EFI` | memory map, page tables | one pass | regions handed over are mapped, disjoint, large enough and marked as used |
| LibStd | `Libraries/LibStd` | containers, reference counts | usual | ownership |

ACPICA is vendored, `Experiments` is a separate Rust prototype, `Applications`
and `Tools` are not started by or part of the kernel.

**How they interact.** `Fat32` reads through `BlockDevice`, which
`VirtioBlockDevice` implements, and takes buffers from `Kmalloc`. `Kmalloc` takes
runs of heap pages from `MemoryManager` and its sub-heap objects from
`SlabAllocator`, which takes single heap pages. `MemoryManager` takes frames from
`Bitmap`. `load_elf` reads a file into a static buffer and asks `MemoryManager`
for user pages. `PCI` takes its `Device` objects from `SlabAllocator` and keeps
them in a `Vector` of `Kmalloc`'s. All of it is called synchronously from
`kernel_stage2`; the keyboard handler, and handlers of interrupts nobody asked
for, are the only asynchronous code in the kernel, and they print to the same
console as everything else. The virtio device and, were they started, the other
processors are the only other agents that work on the kernel's memory.

**What is hard here.** The device works on the ring at the same time as the
driver; allocators keep their lists inside memory that clients overwrite; a
request of several pages can fail half way; handlers interrupt each other and the
console between a check and its use; the boot loader sizes areas before it knows
what goes into them; processors are started one after another through the same
three words; counters and indices have a width;
errors are returned through `TRY`, which leaves what was taken before. The list
under `hazards` in `PROJECT.json` places each of these at its line.

## 2. Plan

Order: what everything rests on first.

1. `FrameAllocator` (abstract), `FrameBitmap`, proofs. **Done.**
2. `KernelMemory`: heap pages, page tables, user address spaces, ELF segments; proofs. **Done.**
3. `Slab`, proofs. **Done.**
4. `Kmalloc`; proofs. **Done.**
5. `BlockDevice` (abstract), `VirtioBlock` which implements it; proofs. **Done.**
6. `Fat32` over a block device whose reads fail; proofs. **Done.**
7. `Interrupts`: gates, nesting, end of interrupt, keyboard and console, with
   `kernel_stage2` as the interrupted thread; proofs. **Done.**
8. `BootLayout`: the areas that the boot loader hands over and what
   `MemoryManager::init` makes of its memory map; proofs. **Done.**
9. `ApBoot`: the start of the other processors; proofs. **Done.**
10. `Pci`: the bus scan composed with `Slab`, and the driver's look-up; proofs. **Done.**
11. `Ramdisk`, `Process`, `Mutex`: when something in the kernel uses them (section 7).
12. Pure operators: format specifications and number conversion
    (`UnbufferedConsole`, `Convert`), against reference definitions.

Composition: `KernelMemory` repeats the bitmap as a set of frames taken lowest
first, which is what `FrameBitmap` is proved to implement; `Fat32` repeats the
virtio disk as an abstract device, which is what `VirtioBlock` is shown to
implement. `Pci` extends `Slab` and takes its actions as steps of
`Device::operator new`, so what is proved of the slab holds there too.

Theorems: every safety property that a passing run checks is proved (section 6); what
is left to TLC is liveness.

## 3. Modules and the code

**FrameBitmap** models `Bitmap.cpp` and the part of `MemoryManager::init` that
fills it. `storage` is the set of pages whose bit is set, `free_pages` is
`m_free_pages` modulo its width, `map` the memory map still to be parsed, `result`
what the last call returned. `grants` (callers that hold a page), `blocked` and
`overlap` (bits set at boot, bits set twice) record what the code does not. Words
of `PagesPerBlock` bits stand for words of 64; the mask arithmetic of `find_n_free`,
its signed loop bound and the narrowing of the request to `u8` are kept, and so is
the tail of pages that no word covers. `FrameAllocator` is the promise: an
available set and an owned set, and steps that move pages between them.

**KernelMemory** models `MemoryManager` above the bitmap and `load_elf`. The object
`mm` holds the free frames, the contents of every frame as `Entries` entries, the
kernel page directory and what is left of the virtual heap. The code's functions
are operators from object to object, composed as the calls are, so that a failure
in the middle keeps what was done before it; its loops over pages are recursive
functions of the number of pages. Page tables are contents of frames:
writing over one changes what is mapped. `p_vaddr`, `p_memsz` and `p_filesz` of a
program header are in words of a frame, so a segment may start inside a page, span
several, and have more file data than memory; `Fill` copies as `load_elf` does, from
the start of the first frame on, word after word, into whatever frames follow.
`live`, `processes` and `loaded` record what was handed out.

**Slab** models `SlabAllocator`. `link` holds the first word of every object, where
the free list lives and which a client overwrites (`Use`); `list` and `free` are the
head and the count in the page header. The end of the list, which the code's loop
leaves pointing past the page, is kept.

**Kmalloc** models sub-heaps word by word: headers, canaries and links are words
of the storage, client data fill the rest, so a wrong link lands in data. `slack`
holds the words left behind blocks too small to split, `stale` notes that an
`m_previous` was followed which was not the predecessor. The loops over the list are
recursive functions of at most `MaxBlocks` steps, which is as many blocks as a
sub-heap has room for.

**VirtioBlock** models `VirtioBlockDevice`. `rw` is cut at every access that the
device can observe: descriptors, ring entry, index, notification, poll. The device
(external) fetches, transfers, writes status and moves the used index in steps of
their own, may start as soon as the index has moved, may fail a request, and may
find on a notification that there is nothing left to do. Indices are modulo
`IdxMod` (2^16). The compiler is asked for no optimisation (`Kernel/CMakeLists.txt`),
so accesses happen in the order of the source. A sector has two halves, and the
caller's buffer is in adjacent frames or not (`split`): `rw` translates the address of
its first byte only, so for a split buffer the device reads or writes its second half
elsewhere (`beyond`). A translation may also stop the kernel (`RwPanics`; when it does
is `KernelMemory`'s matter). **BlockDevice** is the promise: each
call takes effect at most once between start and return, and a read answers what
the sector holds; for a split buffer it promises the first half only.

**Fat32** models mount, path walk, directory scan, the FAT look-up and the copy
loop, one action per device read, allocation or return. A sector is seen both as
words and as directory entries, since the code follows words of sectors that are
no part of the FAT. The cluster buffer keeps what the heap held beyond the first
sector. Conversion to 8.3 names is a constant function that need not be injective
(`..` becomes `.`, as in the code). `dirs` of a volume names the clusters that
are directories, which no code reads: the assumption on volumes and the reference
definitions of a path's meaning (`Resolved`, `Named`) need it.

**Interrupts** models one processor from `APIC::initialise` on. `frames` is the stack
of interrupted contexts; only the top one runs, and an interrupt may come between
any two of its steps once the flag is set, because every gate is a trap gate. The
console is cut at every access of its cursor: `+=` is a load and a store in a build
without optimisation, and the loop that draws a glyph loads column and row for each of
its pixels (`DrawX`, `DrawY`, `PutPixel`), so a handler that prints in between tears it.
Three places are coarser than that, because an interrupt inside them makes no difference:
the checks of the row and column with the store that follows (a handler leaves the
cursor at the start of a row of the screen), and the copies of `scroll` and of the flip
(a scroll spoils the line in any case, and a handler's print ends in a flip of its own).
The local APIC (external) keeps requested and in-service
vectors and delivers by priority class, so a handler that does not signal its end
(`not_implemented_handler`) blocks its class and all below. Hardware that the kernel
did not set up may raise a stray vector, and a spurious interrupt finds no gate at
255. An exception's wrapper ends in `hlt`; an interrupt that wakes it returns to
whatever follows in memory (`past`), where the model stops. What `kernel_stage2`
prints is reduced to its glyphs and newlines. The double buffer (`cells`) and the
framebuffer (`screen`) are functions from cells of the screen, one glyph wide, to the
pixels drawn there, each with its glyph: whether a glyph is whole, and alone in its
cell, can be told. `env.spoilt` records that the current line did not start on blank
ground, that the screen was scrolled, or that an interrupt came where `write_character`
is `Exposed`, that is, has moved the cursor or drawn the glyph by half.

**BootLayout** models `init()` of the boot loader and the reading of the memory map in
`MemoryManager::init`. Memory is a function from frames to EFI types; the firmware
(external) describes it in order or not, allocates from either end and may
allocate for itself at any time before the exit. `get_memory_map`'s loop is kept:
each buffer it asks for changes the map it asks for. `lay` holds the loader's
computed sizes and its allocations; `image` the bytes at the kernel's base,
`ptes` the page tables, `marked` what the kernel blocks out. The segments of
`kernel.elf` are any that follow each other as `Kernel/linker.ld` puts them
(`Linked`): most start on a page, `.init_array` may start where `.data` ends.

**ApBoot** models `ACPI::start_application_processors`, the trampoline of `ApInit.S`,
`ap_main` and `ap_stage2`. `low` is the memory from 0x8000 on as words: the three
variables at the end of the trampoline's page, and one page of stack per
processor. Processors may be missing. The processors run in parallel with the boot
processor, which goes on as soon as the spinlock is down. The call is commented
out in `main.cpp:192`; the module is about the code as it is written, with the number of
processors fixed at four as there. That `cr3` is loaded as 32 bits is not modelled.

**Pci** models the scan of bus 0, `find_device` and the part of
`VirtioBlockDevice::detect_and_init` that uses it. `calls` is the stack of
`read_device_function`, which calls itself for each further function of a device;
`devices` is the `Vector` with its capacity. `Device::operator new` takes the slab's
actions: where the slab refuses or could not get a page, the entry of the list is null,
and `find_device` reads it at address zero, where anything may be.

## 4. Runs

| Run | Result | Shows |
|---|---|---|
| `frame_bitmap` | pass | with requests up to a word and a page, no page is granted twice or lost (`PagesOwned`), the counter is as explained by overlapping reservations (`Accounting`), refusal only when full, and the bitmap implements `FrameAllocator` |
| `kernel_memory` | pass | heap pages, tables and user pages never share a frame (`FramesExclusive`), the image stays mapped, nothing leaks unless a call failed, a segment of at most a page is found word for word from the start of the page that its address is in and stays there (`SegmentsLoaded`), and a `VERIFY` stops a legitimate free only where entry 0 of the table is that of a page nobody holds |
| `slab` | pass | the embedded list is exact in every order of allocation, use and free (`ObjectsSound`), refusal only when full, one slab per size |
| `kmalloc` | pass | until a stale `m_previous` is followed: disjoint and intact (`BlocksIntact`), coalesced, only slack lost, also for a request that no sub-heap can hold |
| `kmalloc_canary` | violation | seven calls of two sizes leave a block in use on the free list |
| `virtio_block` | pass | driver and device together are a block device; of a buffer that is not in adjacent frames, the part in its first frame is transferred as asked; descriptors are conserved and chains whole (`RingSound`); calls return; no late DMA |
| `fat32` | pass | one-sector files and sizes right, the caller's buffer not overrun (`AnswersRight`); calls return where directories end |
| `fat32_whole` | violation | longer files, and files far out on the disk, are not read whole |
| `interrupts` | pass | keys in order and stored once, a fault is final; keys are read and `kernel_stage2` gets through, with the exceptions stated in the properties; every pixel is drawn inside the buffer (`DrawsInside`), and a line is legible, its glyphs whole and in order, also when handlers printed between them (`LineShown`) |
| `boot_layout` | pass | regions mapped exactly where the loader's counts suffice, frames in use marked, storage of the bitmap large enough (`BitmapSound`), the image whole; the loader ends |
| `ap_boot` | pass | own stacks through one shared word, variables intact, the identity mapping outlives the trampoline; the start ends unless a processor is missing |
| `pci` | pass | each function listed once and in order (`ListSound`), the driver gets the first block device (`DriverRight`); where the scan overflows the stack or panics is characterised (`StopsExplained`); it ends |

`PagesOwned`, `FramesExclusive`, `ObjectsSound`, `BlocksIntact`, `RingSound`,
`AnswersRight`, `DrawsInside`, `BitmapSound`, `ListSound` and `StopsExplained` are
conjunctions of the named parts defined just before them, the module's type
invariant included in all but the last.

**Bounds.** Frame bitmap: three words of three bits and a tail of two pages, five
memory maps; requests up to one more than a word, because the code's loop bound
is exact up to there and negative beyond. Kernel memory:
nine frames and tables of three entries, so that the heap needs a second table,
a process needs three frames before its first page, and memory runs out in the
middle of every multi-page call; one process (two would share only the frames); segments
with zeroes behind their data, without data, inside a page with more data than memory, and
beyond the reach of a page directory, in two page tables.
Slab: three slots, three sizes, two pages: a slab without a page, a full slab and
a slab with every order of frees all occur. Kmalloc: 22 words give three blocks
of the small size, splits with and without remainder and lists of three; 26 words
are the least that show the stale link with two sizes. With one request size the
stale link is never followed. Virtio: a queue of four leaves one descriptor
over, so stack order changes from call to call; the indices wrap after four
calls; buffers split and not, with either content in each half; queues of two and of
none reach the error paths. FAT32: five volumes,
each for a case of the code; five cluster buffers, which are used up within two
calls. Interrupts: two keys for a buffer that holds one, and
one stray or spurious interrupt, with a vector of its own handler and one without:
handlers nest on main and on each other. A line of two glyphs of two pixels on a screen
of one column and four rows: the line wraps, a handler comes between its glyphs or
between two pixels, what one handler prints fits there, and with what a second one
prints the screen scrolls. That `LineShown` is not met only by undisturbed
lines was checked: states in which a handler has printed between main's glyphs and the
line is not spoilt are reached, and without any one of the cases of `Exposed` the
property fails. Boot layout: five machines of 30 or 56
frames, with and without memory to preserve, in order and not, with holes and
unusable memory, one too small, framebuffers around the size at which another page
table is needed. Application processors: the code's four, of which any may be
missing, and pages of eight words. PCI: two devices of three functions with
every combination of identities and bits; three objects to a page and a `Vector`
that starts with two entries, so both fill up; the stack holds four frames, one
more than a bus without the recursion needs. Unbounded counters do not occur:
every variable is bounded by these.

**Fairness.** `VirtioBlock`: the processor goes
on with a call it has begun (nothing else runs), the device finishes a request
it has fetched, and fetches one once notified; nothing is assumed of a device
that has not been notified. That is what `rw`, a loop without timeout, relies on.
`Fat32`: the processor goes on; the device may fail any number of reads. The
loop over a directory chain ends only because its directories end; on the volume
where one does not, the property claims nothing, and a look-up of a missing name
there goes round for ever. `Interrupts`: the processor executes the context on top,
takes an interrupt that it can take, and the controller passes a key on when its
output buffer is empty; keys, strays and spurious interrupts need not come.
`BootLayout` and `Pci`: one processor, which goes on; the firmware need not allocate.
`ApBoot`: each processor that runs goes on, whatever the others do.

**Deadlock** is checked in all runs; a stopped kernel is an explicit stuttering
step.

## 5. Findings

Two are expected violations with their trace in the run of the same name, and an
entry under `findings`: `split_if_required` and `insert_into_free_list` leave a wrong
`m_previous` (`kmalloc_canary`); `read_fat` takes a byte offset for an LBA and
`read_cluster` reads one sector (`fat32_whole`).

Others are written into the properties as the exact exceptions under which the
promise does not hold, and the runs show that there are no more of them:

- `VerifyPanicExplained`: `kernel_virtual_to_physical_address` asserts on entry 0 of a
  table, and stops the free of another page of that table once the page of entry 0 was
  freed, or if the request that took it failed before it was mapped.
- `SegmentsLoaded`: `load_elf` ignores where in its page `p_vaddr` is and copies to the
  start of the page, so a segment whose `p_vaddr` is not a multiple of the page size is
  at lower addresses than it was linked for.
- `ImplementsBlockDevice`: of a buffer that crosses into a frame which is not the next one
  in memory, only the part in the first frame is transferred as asked.
- `StopsExplained`: a slab is marked initialised before it has a page, so without
  pages the second `Device` fails `VERIFY`; and `read_device_function` does not end on a
  function other than 0 that has the multifunction bit.
- `DriverRight`: without a block device, or behind a null entry, the driver works with a
  null pointer: the error in `detect_and_init` is built and not returned.
- `KeysRead`: a key pressed before the keyboard is routed leaves the controller's
  line high, so that no further edge comes; `not_implemented_handler` does not signal the
  end of interrupt.
- `LineShown`: a newline in the last row scrolls before the flip, and the line is
  lost; a handler that prints while `write_character` is half way through a glyph or
  through moving the cursor tears the glyph, draws over it or is drawn over; and so
  does a cursor that an earlier such case has left on ground that is not blank.
- `MappedExactly`: boot state and stack are mapped but not counted when the page
  tables are sized; preserved firmware memory is counted and not mapped, which makes
  up for it on most machines. `init` also links a single page directory, so it needs
  all of its pages to fit one (`OneDirectory`, 1 GiB).
- `FramesReserved`: the page tables that are written lie in the loader's allocation only
  if the pages it did not count take no more than one table; otherwise the last ones
  may lie behind it.
- `BitmapSound`: the extent is taken from the last descriptor, so it covers memory only
  if descriptors are in order, and unusable memory, which is marked too, is left out;
  and the division by eight rounds down, so fewer than four pages would get no storage.
- `StartUpEnds`: a missing processor is waited for without end, and a processor may fault
  between its report and its halt.

More facts follow from other constants of the same modules and have no run of
their own. Requests longer than a word and a page make `NoDoubleGrant` fail
(`find_n_free` compares a negative `int` with a `size_t`). With page tables at 4 GiB and above (`IntFrames` = 2) the `int` shift
in `kernel_virtual_to_physical_address` makes `HeapExclusive` fail, and between 2 GiB
and 4 GiB it makes every translation fault; with a heap
larger than the page directory covers (`Dirs` = 1) `KernelImageMapped` fails; with a
segment of two pages, or of more file data than a page, `SegmentsLoaded` fails:
`allocate_user_pages` returns the address of the first frame as if the others followed
it, and the page table that is allocated behind it is written over (`main.cpp:126`,
`127`, against the comment at `main.cpp:96`); and a queue shorter than three entries loses its descriptors on the first `rw`.

## 6. Proofs

Every theorem is about the same `Spec` that the runs check, for every value of the
constants that the module's assumption allows. Two modules add a hypothesis, without
which the statement is false of the code: `FrameBitmapProofs` bounds the requests
(`RequestsFit`), `KernelMemoryProofs` has `Within`. All safety properties and action
properties of the passing runs are proved. Where a loop of the code is a recursive function, what it computes is
shown by induction over a number (`Least`, `Smallest` and `Induct` derive it from the
well-foundedness of `<`), after a lemma that the function's definition has a solution.

`FrameBitmapProofs`, for every number of pages, word size, counter width, memory
map and request (`SizesAssumption`, `MapsAssumption`):

- `TypeCorrect`: the type invariant is inductive once `find_n_free` is known to
  return offsets inside a block.
- `ExclusiveGrants`, `NothingLost` and, from them, `PagesAreOwned`: the strengthening
  (`Ownership`) says that a set
  bit is blocked or granted, a granted page is granted once and is not blocked.
  The lemma `ContiguousRun` carries the weight: if requests are at most one longer
  than a word, the run that `allocate_contiguous` marks is exactly the run it tested
  and the run it returns. Without the bound on requests the statement is false.
- `HonestRefusal`: `Counted` relates the counter to the number of clear bits minus
  bits set twice at boot; it needs cardinalities of finite sets.
- `CounterExplained` (`Accounting`): the same relation modulo the counter's width, by
  lemmas on sums modulo `CounterMod`; so it holds also after the counter has wrapped.
- `Refinement`: initial states map to initial states and every step to a step or
  a stutter of `FrameAllocator`, with available pages as the clear bits.

`KernelMemoryProofs`, for every amount of memory, size of tables and heap, set of
requests and of segments, and number of processes: `FramesServeOnePurpose`
(`FramesExclusive`), `ImageStaysMapped`, `SuccessLeaksNothing`, `SegmentsStayLoaded` and
`PanicsExplained`. The hypothesis `Within` has three parts, each one a condition
without which section 5 has a counterexample: the heap ends inside what the page
directory covers, frames are below 4 GiB, and no segment makes `load_elf` write beyond its
first frame (`p_memsz` and `p_filesz` are at most a page; where in the page it starts,
which of the two is larger, and whether a page directory reaches it is left open). The
run's constants satisfy it. Tables are contents of frames, so exclusiveness and the meaning of a table
depend on each other, and comparing tables pairwise leads nowhere. The invariant
instead has a ghost, a role for every frame that names the one place that may refer
to it (an entry of a directory or of a table, a process, the boot loader). Two places
that refer to one frame are then the same place. Inside a call some frames have been
taken and are referred to by nothing yet; `Holds` carries them as a set. The loops of
the multi-page calls preserve it step by step, and a failure in the middle only lifts
the obligation that every taken frame is referred to.

`PciProofs`, first part (`Slab`), for every page, header and object size and every number
of slots:
`TypeCorrect`, `FreeListCorrect`, `GrantsAreFree` (together `ObjectsCorrect`),
`HonestRefusal`, `SlabsUnique`. The invariant is `TypeOK /\ FreeListSound /\ HeldInPage /\ OneSlabPerSize`.
`FreeListSound` is what makes it inductive: a walk of as many objects as the page
counts free exists, it visits exactly the objects nobody holds, each once, and
each link but the last leads to the next. The last link is not constrained, which
is why a list whose end points past the page is harmless. The lemmas
`AllocateWalk`, `FreeWalk`, `InitialWalk` and `UseWalk` give the walk after each action.

`BootProofs`, first part (`ApBoot`), for every number of processors, page size of more than six words and
length of `ap_stage2` (`ApAssumption`): `TypeCorrect`, `StacksApart` (`OwnStack`),
`VariablesIntact` (`FindsItsWay`) and `MappingOutlives` (`UnmappedAfterReports`). None of
these is inductive: that a processor reads its own stack from the shared word depends
on the boot processor not having gone on, which depends on the spinlock, which
depends on where that processor is. `Order` says it: the processors before the one
being started have reported, those after it are off, and the spinlock is up from
before the INIT until its report. `Words` keeps the three variables, and the lemma
`PushApart` shows that no push of any processor reaches them, because the stack of
processor 1 ends where the trampoline's page does. `Mapping` ties the removal of the
identity mapping to the end of the loop. `OneStarts` draws the consequence that the
steps need: a processor that is on its way is the one being started. `Inductive` has a
step per action.

`KmallocProofs`, for every capacity, set of request sizes and number of sub-heaps:
`ClientsKeepTheirBlocks` (`BlocksIntact`), `NothingLeftToCoalesce` (`ListCoalesced`) and
`LossesExplained` (`NothingElseLost`). The invariant describes a sub-heap by the set of its
free blocks: `m_next` of each is the next member, members are apart from each other and
from the blocks in use, and every other word is recorded as lost. It says
nothing of `m_previous`, which the code lets go stale: what `remove_from_free_list` does is
right or not according to one link, and the model's `stale` tells which. The operations
are composed of five elementary changes (a block leaves the list, joins it, is
granted, is revoked, is extended), and words on their way from one block to another
count as lost meanwhile. That nothing is left to coalesce is carried as "no two
members touch"; after an insertion only the new block and its neighbours may, and
the two merges of `free` deal with exactly those.

`VirtioBlockProofs`, for every queue size, index width, set of sectors and contents:
`NoDmaAfterReturn` (`NoLateDma`), `RingIsSound` (`RingSound`) and `Refinement`
(`ImplementsBlockDevice`). There is no lock. `Turns` says what orders driver and device: the device
works only while `avail` is one ahead of `used`, which is between `rw`'s write of the
index and its return, modulo the width of the indices. `Shares` and `Covered` divide the
descriptors between the free stack and the chain, `Chained` and `Data` say what the
side whose turn it is finds in the ring and on the caller's stack. The refinement takes
the device's transfer, or its failure, as the point at which a call takes effect, and
carries for a split buffer that its first half is as the call promises.

`InterruptsProofs`, for every screen, number of keys and lines, and set of stray vectors, at
any nesting depth: `KeysStayInOrder`, `DrawingInside`, `LinesAreShown` and the action property
`FaultsAreFinal`. A context that is interrupted carries only bounds on its registers (the row it
stores later may be one too low for each context under it); everything else is said
of the running context. At most one handler has not signalled its end, because
vectors in service block their own priority class and those below; so keys are
stored one at a time, in the order of `Transit`. A handler that returns leaves the cursor
at the start of a row of the screen, which is what the context under it needs. `Line`
follows the rest of the line that `kernel_stage2` prints. `LinesAreShown` needs a second
invariant above that one, `Ground`, about the contents of the double buffer while a
line is not spoilt: before `Front`, the cell where the next glyph of any context will go,
the glyphs of the line that are done are legible; from `Front` on the buffer is blank, but
for the `Part` of its glyph that the running context has drawn. It is inductive because
no interrupted context was exposed (`Below`): none of them has a glyph begun or a stale
row or column in a register, so when a handler returns, the one below it goes on from
where the handler's newline has put the cursor.

`PciProofs`, second part (`Pci`), for every size of the bus, slab page, `Vector` and stack: `TheListIsTheBus`
(`ListSound`), `StopsAreExplained` (`StopsExplained`) and `DriverIsRight`. It rests on the
lemmas of the first part, since `Pci` takes the slab's actions. The slab is in one of three
states: not yet used, serving objects in the order of the list, or marked initialised
without a page. `Position` says where the scan is: at a place of the bus, with the list equal to what
it should be for the places before that one (`Matched`), or lost below a
frame that has yet to call its own function. Such a frame never returns, which is why a
bus with a nested multifunction bit is never listed and nothing has to be said of the
list on the way.

`BootProofs`, second part (`BootLayout`), for every memory, order of descriptors, kernel,
framebuffer and size of tables, words and buffers (`SizesAssumption`,
`MachinesAssumption`): `RegionsMapped` (`MappedExactly`), `HandedOverReserved`
(`FramesReserved`), `BitmapLarge` (`BitmapSound`) and `KernelLoaded` (`ImageWhole`). What is
assumed of a machine is that memory starts at frame 0 and goes on past 1 MiB, and that
the kernel is `Linked`. The run's machines satisfy it. The invariant (`LayoutInv`, established by
`LayoutHolds`) has seven parts, of which `Ownership` and `Sizes` carry the weight.
`Ownership`: the runs that `init` keeps are the loader's and share no frame with the
buffer that `get_memory_map` may release, so growing that buffer, or an allocation of the
firmware's, takes none of them away. The kernel reads the map that was current at the
exit; `DescriptorsCover` says that each frame which is not a hole is in a descriptor
of its type, from which the frames it starts in are marked. It needs that the runs of a
memory are numbered in order (`Ranks`, `NthIs`), by an induction over cardinalities.
`Sizes` relates each allocation to what was counted for it: `SpaceEnds` derives that the
last mapped page is at the allocation's size, plus what was not counted, less what was
counted in vain. That is the exact reason for the exceptions in section 5, and
`TablesInside` bounds from it the table that the last page falls into. `KernelLoaded` is an
induction over the segments: a segment that has been loaded lies below all that are
cleared after it.

`Fat32Proofs`, for every set of formatted volumes, paths, limits and contents of the heap
(`FatAssumption`, `InputAssumption`, `VolumesAssumption`): `AnswersCorrect` (`AnswersRight`)
and `NeverLedAstray`, which says that a search for a file that is there (in the first
sectors of its directories) is neither led on to another cluster by the FAT, which the
code misreads, nor turned away, whatever the buffer held beyond its first sector. `Formatted` says what is assumed of a disk with a signature: data after the
FATs, and entries, up to the end of a directory, whose clusters are on the disk; nothing
of the FAT, nor of a disk without a signature. The reference (`Resolved`, `Named`)
resolves a path on the disk by recursion, the code by reads that may fail, and over a
buffer of which only the first sector was read. `Searching` in the invariant ties the two: the cluster
being scanned is the one the reference has after as many components. `FirstStopInPrefix` is
the lemma that makes it hold: where the first sector has an entry at which the scan stops, the
junk behind it is not looked at. `Copying` says that a file of one sector is
copied in one piece, before the FAT, which the code misreads, is looked at.

**Only model-checked:** liveness (`RwReturns`, `Returns`, `KeysRead`, `MainFinishes`,
`Boots`, `StartUpEnds`, `ScanEnds`), which needs fairness and `ENABLED` and is out of the
prover's reach.

## 7. Not modelled

- **ACPICA** (`Libraries/LibACPICA`): vendored, some 300 000 of the repository's 307 000
  lines of implementation, and not compiled by the build. Measured against all
  lines the models cover little; against the kernel, loader and libraries of the project
  itself (some 10 500 lines) they cover the parts listed above.
- **Processes.** `run_executable` calls `create_process`, which cannot complete in this
  version: `ProcessManager::initialise` is never called, so the allocator is null, and
  the first push goes to a user page that is not mapped. The directory it makes is part
  of `KernelMemory`, the fault part of `Interrupts`. The schedule handler is not installed,
  and neither the timer nor the mouse is routed.
- **Ramdisk, SquashFS, memory block device and reader**: compiled, but nothing calls
  them, so there is no caller to tell which states they can be in. **Mutex** is
  used nowhere.
- **Formatted output, LibStd's containers and strings**: sequential value code, with
  host tests; `Vector`'s growth is part of `Pci`, the console that output goes to part of
  `Interrupts`.
- `set_user_directory`, page flags and privileges, segment and task descriptors, the TLB
  (invalidated after each change, except for the identity mapping, where `ApBoot`
  allows both outcomes), zeroing of pages as time passing.
- What the models take for granted of values that the code does not check: the firmware's
  memory descriptors have the size of `MemoryDescriptor` (the kernel steps by that size,
  the loader counts by the reported one, `MemoryMap.h:45`); `BytsPerSec` of a FAT32 volume
  is 512, the size of `read_fat`'s buffer (`Fat32.cpp:32` has the check commented out); the
  buffers that `Fat32` passes on are in adjacent frames (`Kmalloc`'s need not be); the far
  jump of the trampoline lands in the padding before `longmode`, which does nothing
  (`ApInit.S:65`); objects of a slab are no smaller than a link.
- The null that `new` returns without memory where it is not tested: the free list of
  `setup_queue0` (`VirtioBlockDevice.cpp:194`) and `Vector::grow`. Both are small requests
  that are made once at start-up.
- The size of `/wbinit` against the 64 KiB buffer that `load_elf` reads it into.
- Reading of files through the firmware, graphics modes, firmware and hardware
  beyond what the code assumes of it; ACPI table look-up, which keeps no state; the
  network driver, which prints a line; host tools, the Rust experiments and the
  application stubs.
