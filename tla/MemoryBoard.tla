---------------------------- MODULE MemoryBoard ----------------------------
(***************************************************************************)
(* What the agent is promised of its long-term memory: each scope changes as *)
(* a whole, and the block in its context shows both scopes as they were at   *)
(* one moment (memory/long_term.py).                                         *)
(***************************************************************************)
CONSTANTS Scopes, Stores

VARIABLES
  memory,    \* per scope: what is remembered
  snapshot   \* what the context shows

boardVars == <<memory, snapshot>>

Init ==
  /\ memory \in [Scopes -> Stores]
  /\ snapshot = memory

Publish(s) ==
  /\ \E new \in Stores : memory' = [memory EXCEPT ![s] = new]
  /\ UNCHANGED snapshot

Refresh ==
  /\ snapshot' = memory
  /\ UNCHANGED memory

Next == Refresh \/ \E s \in Scopes : Publish(s)
Spec == Init /\ [][Next]_boardVars
=============================================================================
