------------------------------ MODULE MCApBoot ------------------------------
(* Four processors, of which any may be missing, and pages of eight words. *)
EXTENDS ApBoot
=============================================================================
