-------------------------- MODULE WorktreeKeeper --------------------------
(***************************************************************************)
(* What persistent worktrees promise to the person who works in them: what  *)
(* is in one is lost only by a removal that was asked for, and none is       *)
(* removed while a task is in it; and a state file that cannot be read stays *)
(* as it is until somebody looks at it (core/worktree.py).                   *)
(***************************************************************************)
CONSTANTS Ids, None

\* A worktree holds changed files, commits of its own, and a file somebody
\* else put where a dependency belongs.
Things == {"files", "commits", "dependency"}

\* The state file counts as a place to keep something while it is unreadable.
StateFile == "state file"

VARIABLES
  kept,      \* what is in the worktrees, and in an unreadable state file
  busy,      \* the worktrees a task works in
  removing   \* the worktree whose removal runs

keeperVars == <<kept, busy, removing>>

Init == kept = {} /\ busy = {} /\ removing = None

\* A task or a user puts something into a worktree, but not into the one that
\* is being removed.
Put(w) ==
  /\ w # removing
  /\ \E things \in SUBSET Things : kept' = kept \cup ({w} \X things)
  /\ UNCHANGED <<busy, removing>>

\* The state file is damaged from outside.
Spoil ==
  /\ kept' = kept \cup {<<StateFile, "records">>}
  /\ UNCHANGED <<busy, removing>>

Enter(w) ==
  /\ removing = None /\ w \notin busy
  /\ busy' = busy \cup {w}
  /\ UNCHANGED <<kept, removing>>

\* The tasks of some worktrees end, or all do as the process stops.
Leave ==
  /\ busy' \in SUBSET busy
  /\ removing' \in {removing, None}
  /\ UNCHANGED kept

StartRemoval(w) ==
  /\ removing = None /\ w \notin busy
  /\ removing' = w
  /\ UNCHANGED <<kept, busy>>

\* A removal may stop after part of its work.
Discard ==
  /\ removing # None
  /\ \E lost \in SUBSET {k \in kept : k[1] = removing} : kept' = kept \ lost
  /\ removing' \in {removing, None}
  /\ UNCHANGED busy

Next == (\E w \in Ids : Put(w) \/ Enter(w) \/ StartRemoval(w)) \/ Spoil \/ Leave \/ Discard
Spec == Init /\ [][Next]_keeperVars
=============================================================================
