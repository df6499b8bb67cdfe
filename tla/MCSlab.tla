------------------------------- MODULE MCSlab -------------------------------
(* Three slots and three sizes compete for two pages; the sizes divide a   *)
(* page into two or three objects, with and without slack at its end.      *)
EXTENDS Slab
=============================================================================
