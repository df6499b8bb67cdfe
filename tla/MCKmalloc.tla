------------------------------ MODULE MCKmalloc ------------------------------
(* Sub-heaps of a few blocks, so that lists of three free blocks, splits   *)
(* with and without remainder, and growth all happen.                      *)
EXTENDS Kmalloc
=============================================================================
