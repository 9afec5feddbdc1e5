----------------------------- MODULE MCPlanMode -----------------------------
(* PlanMode for TLC. *)
EXTENDS PlanMode
=============================================================================
