------------------------- MODULE MCSubagentManager -------------------------
(***************************************************************************)
(* Instances of SubagentManager for TLC.                                    *)
(***************************************************************************)
EXTENDS SubagentManager, TLC

\* Task ids and session ids are only compared: permuting them changes nothing.
TaskSymmetry == Permutations(Task)
SessionSymmetry == Permutations(Session)
BothSymmetry == TaskSymmetry \union SessionSymmetry
=============================================================================
