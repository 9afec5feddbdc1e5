---------------------------- MODULE MCWorktree ----------------------------
(* Worktree for TLC. *)
EXTENDS Worktree, TLC

IdSymmetry == Permutations(Ids)
=============================================================================
