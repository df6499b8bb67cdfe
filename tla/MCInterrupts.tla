---------------------------- MODULE MCInterrupts ----------------------------
(* Vector 32 has a handler of its own, 48 is LINT0's.  The screen has one *)
(* column, so that the line of kernel_stage2 wraps between its two glyphs, *)
(* and four rows: what one handler prints fits between them, and with what *)
(* a second one prints the screen scrolls.  A glyph has two pixels,        *)
(* between which a handler may come.                                       *)
EXTENDS Interrupts
=============================================================================
