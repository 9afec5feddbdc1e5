----------------------------- MODULE MCAgentTurn ----------------------------
(* A small instance of AgentTurn for TLC. *)
EXTENDS AgentTurn

CONSTANTS s1, s2

Sessions == {s1, s2}
OneSession == {s1}
=============================================================================
