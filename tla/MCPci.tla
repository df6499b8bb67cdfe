------------------------------- MODULE MCPci --------------------------------
(* Two devices of three functions with every combination of identities and *)
(* bits; three Device objects to a page, and a Vector that starts with two *)
(* entries, so that both fill up.                                          *)
EXTENDS Pci
=============================================================================
