--------------------------- MODULE MCKernelMemory ---------------------------
(* Tables of three entries; the kernel image takes the first two entries   *)
(* of the first table, so that the heap soon needs a table of its own.     *)
EXTENDS KernelMemory

Seg(id, vaddr, memsz, filesz) == [id |-> id, vaddr |-> vaddr, memsz |-> memsz, filesz |-> filesz]

\* Segments of at most a page, in two page tables: data with zeroes behind
\* them; zeroes only; one that starts inside its page and has more file data
\* than memory; one beyond the reach of a directory, which lands in page 1.
MCOnePage == {Seg(10, 0, 3, 2), Seg(20, 15, 3, 0), Seg(30, 13, 1, 2), Seg(40, 30, 3, 3)}
=============================================================================
