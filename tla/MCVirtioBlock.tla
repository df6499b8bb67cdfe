---------------------------- MODULE MCVirtioBlock ----------------------------
(* Indices wrap after four requests; a queue of four leaves a descriptor  *)
(* over, so chains are not always the same three in the same order; a      *)
(* queue of two has too few for a request; a queue of none fails init.     *)
EXTENDS VirtioBlock
=============================================================================
