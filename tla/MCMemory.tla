----------------------------- MODULE MCMemory -----------------------------
(* Memory for TLC. *)
EXTENDS Memory
=============================================================================
