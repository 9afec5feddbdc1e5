---------------------------- MODULE MCToolBatch ----------------------------
(* ToolBatch for TLC. *)
EXTENDS ToolBatch, TLC

TaskSymmetry == Permutations(Task)
=============================================================================
