---------------------------- MODULE MCBootLayout ----------------------------
(* Memories of some fifty frames: with and without memory to preserve, in  *)
(* order and not, with reserved and unusable memory and holes; a kernel of *)
(* two or three segments, one of which starts inside a page.               *)
EXTENDS BootLayout

Memory(low, preserved, n, top) ==
    [f \in 0 .. n - 1 |->
        IF f = 0 THEN low
        ELSE IF f \in 20 - preserved .. 19 THEN "runtime"
        ELSE IF f = n - 2 THEN "hole"
        ELSE IF f = n - 1 THEN top ELSE "conventional"]

Aligned == <<[id |-> 1, vaddr |-> 0, memsz |-> 6, filesz |-> 6],
             [id |-> 2, vaddr |-> 8, memsz |-> 4, filesz |-> 1]>>
Packed == <<[id |-> 1, vaddr |-> 0, memsz |-> 4, filesz |-> 4],
            [id |-> 2, vaddr |-> 4, memsz |-> 2, filesz |-> 2],
            [id |-> 3, vaddr |-> 6, memsz |-> 1, filesz |-> 1],
            [id |-> 4, vaddr |-> 8, memsz |-> 3, filesz |-> 0]>>

Machine(m, s, g, b) == [mem |-> m, sorted |-> s, segments |-> g, fb |-> b]

\* Framebuffer sizes around the one at which another page table is needed.
MCMachines ==
    {Machine(Memory("reserved", 3, 56, "conventional"), TRUE, Aligned, b) : b \in {1, 3}}
    \cup {Machine(Memory("reserved", 4, 56, "reserved"), FALSE, Packed, 2),
          Machine(Memory("conventional", 0, 56, "unusable"), TRUE, Packed, 3),
          Machine(Memory("conventional", 3, 30, "conventional"), TRUE, Packed, 1)}
=============================================================================
