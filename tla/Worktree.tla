----------------------------- MODULE Worktree -----------------------------
(***************************************************************************)
(* The persistent worktrees of isolated forks, core/worktree.py.  The        *)
(* manager keeps three things in step that fail apart: its sessions in       *)
(* memory, its state file, and what Git has on disk.  Each operation is a    *)
(* chain of Git commands and writes under one lock; the process may die      *)
(* between any two of them, SIGINT may end the operation of the main thread, *)
(* and a command may fail or be killed by its timeout.                       *)
(*                                                                           *)
(* One process uses the workspace.  One dependency stands for all the files  *)
(* worktree.yaml names; its source does not change.  Nobody changes a        *)
(* checkout while the manager creates or removes that same checkout.         *)
(***************************************************************************)
EXTENDS Naturals, FiniteSets, Functions

CONSTANTS
  Ids,            \* the ids that enter() derives from chat and name
  None,           \* no worktree
  Corrupt,        \* a state file that cannot be read
  MaxWorktrees,   \* MAX_WORKTREES
  MaxFaults,      \* bound: failures, timeouts, interruptions and crashes
  MaxUser         \* bound: what tasks and users do to checkouts and files

ASSUME WorktreeAssumption ==
  /\ MaxWorktrees \in Nat \ {0} /\ MaxFaults \in Nat /\ MaxUser \in Nat
  /\ None \notin Ids
  /\ \A ids \in SUBSET Ids :
       Corrupt \notin [ids -> [status : {"creating", "idle", "active"}, injected : BOOLEAN]]

VARIABLES
  up,          \* the process runs
  configured,  \* worktree.yaml names the dependency; read at the start
  stateError,  \* _state_error is set
  sessions,    \* _sessions
  file,        \* .duckduckcode/worktrees.json
  git,         \* per id: what Git has of it
  inside,      \* per id: what is in the checkout
  op,          \* the operation that holds the lock
  found,       \* history: whose last enter() took the checkout as it found it
  faults, user

vars == <<up, configured, stateError, sessions, file, git, inside, op, found, faults, user>>

-----------------------------------------------------------------------------
Statuses == {"creating", "idle", "active"}
Sessions == [status : Statuses, recovered : BOOLEAN, error : BOOLEAN, injected : BOOLEAN]
Records == [status : Statuses, injected : BOOLEAN]

\* dir is "partial" when Git was stopped while it wrote or removed the files.
\* The tip of the branch is the base commit or "ahead" of it.
Checkouts == [dir : {"none", "partial", "full"}, registered : BOOLEAN,
              branch : {"none", "base", "ahead"}, hooks : BOOLEAN]
\* dependency is "ours" while its digest is the one in the manifest.
Contents == [files : BOOLEAN, dependency : {"absent", "ours", "foreign"}]
Empty == [files |-> FALSE, dependency |-> "absent"]
NoCheckout == [dir |-> "none", registered |-> FALSE, branch |-> "none", hooks |-> FALSE]

EnterSteps == {"persist", "branch", "register", "fill", "hooks", "deps", "activate"}
RollbackSteps == {"unregister", "unbranch", "forget"}
RemoveSteps == {"checkout", "unbranch"}
Op(kind, w, step, fresh) == [kind |-> kind, id |-> w, step |-> step, fresh |-> fresh]
NoOp == Op("none", None, "none", FALSE)
Ops == {NoOp} \cup [kind : {"enter"}, id : Ids, step : EnterSteps, fresh : BOOLEAN]
              \cup [kind : {"rollback"}, id : Ids, step : RollbackSteps, fresh : {TRUE}]
              \cup [kind : {"remove"}, id : Ids, step : RemoveSteps, fresh : {FALSE}]

NewSession == [status |-> "creating", recovered |-> FALSE, error |-> FALSE, injected |-> FALSE]
Recorded(ss) == [w \in DOMAIN ss |-> [status |-> ss[w].status, injected |-> ss[w].injected]]
With(ss, w, s) == [x \in DOMAIN ss \cup {w} |-> IF x = w THEN s ELSE ss[x]]
Without(ss, w) == Restrict(ss, DOMAIN ss \ {w})

Active(w) == w \in DOMAIN sessions /\ sessions[w].status = "active"
Free == up /\ op = NoOp
At(kind, step) == up /\ op.kind = kind /\ op.step = step
Goto(step) == op' = [op EXCEPT !.step = step]
CanFail == faults < MaxFaults
Fault == CanFail /\ faults' = faults + 1

\* _persist writes a new file and renames it: it happens or it does not.
Persist(ss) == file' = Recorded(ss)
PersistFails == Fault /\ UNCHANGED file
MayPersist(ss) == (Persist(ss) /\ UNCHANGED faults) \/ PersistFails

\* _validate_recovered: the branch is where it was made, and either nothing is
\* left of the checkout or path and registration agree.
Valid(w) ==
  LET g == git[w] IN
  /\ g.branch # "ahead"
  /\ \/ ~g.registered /\ g.dir = "none"
     \/ g.registered /\ g.branch = "base" /\ g.dir # "none"

Dirty(w) == git[w].dir # "none" /\ (inside[w].files \/ git[w].dir = "partial")
\* What _status has preflight_remove and ListWorktrees say.
ReportedDirty(w) == ~sessions[w].error /\ Dirty(w)

\* preflight_remove and remove() let it be removed.
Removable(w) == w \in DOMAIN sessions /\ ~Active(w) /\ Valid(w)

\* A file that is no regular file, is too large or is no valid state as a whole
\* cannot be read.
Readable(f) == f # Corrupt
\* worktree.yaml is skipped as a whole, with a warning, if any of it is wrong.
Configurations == BOOLEAN

Untouched == UNCHANGED <<up, configured, stateError, found>>

-----------------------------------------------------------------------------
(* enter() of a name that has no session. *)

EnterNew(w) ==
  /\ Free /\ ~stateError
  /\ w \notin DOMAIN sessions
  /\ Cardinality(DOMAIN sessions) < MaxWorktrees
  /\ git[w].dir = "none" /\ ~git[w].registered   \* else: unmanaged path
  /\ git[w].branch = "none"                      \* else: unmanaged branch
  /\ sessions' = With(sessions, w, NewSession)
  /\ op' = Op("enter", w, "persist", TRUE) /\ found' = found \ {w}
  /\ UNCHANGED <<up, configured, stateError, file, git, inside, faults, user>>

PersistCreating ==
  /\ At("enter", "persist")
  /\ \/ Persist(sessions) /\ Goto("branch") /\ UNCHANGED faults
     \/ PersistFails /\ op' = Op("rollback", op.id, "unregister", TRUE)
  /\ UNCHANGED <<sessions, git, inside, user>> /\ Untouched

(* enter() of a name that has one: _ensure_checkout. *)

\* A plausible bug: the registration alone is taken for a checkout.
EnterRegistered(w) ==
  /\ Free /\ ~stateError
  /\ w \in DOMAIN sessions /\ ~Active(w) /\ ~sessions[w].error
  /\ git[w].registered /\ git[w].branch = "base"
  /\ op' = Op("enter", w, "deps", FALSE) /\ found' = found \cup {w}
  /\ UNCHANGED <<up, configured, stateError, sessions, file, git, inside, faults, user>>

\* A plausible bug: "worktree add -B" without a look at the tip of the branch.
EnterResets(w) ==
  /\ Free /\ ~stateError
  /\ w \in DOMAIN sessions /\ ~Active(w) /\ ~sessions[w].error
  /\ git[w].dir = "none" /\ ~git[w].registered
  /\ op' = Op("enter", w, "branch", FALSE) /\ found' = found \ {w}
  /\ UNCHANGED <<up, configured, stateError, sessions, file, git, inside, faults, user>>

\* It looks whether there is a directory, not whether Git finished it.
EnterKnown(w) ==
  /\ Free /\ ~stateError
  /\ w \in DOMAIN sessions /\ ~Active(w) /\ ~sessions[w].error
  /\ LET g == git[w]
         matches == g.dir # "none" /\ g.registered /\ g.branch = "base"
         absent == g.dir = "none" /\ ~g.registered /\ g.branch # "ahead"
     IN \/ matches /\ op' = Op("enter", w, "deps", FALSE) /\ found' = found \cup {w}
        \/ absent /\ op' = Op("enter", w, "branch", FALSE) /\ found' = found \ {w}
  /\ UNCHANGED <<up, configured, stateError, sessions, file, git, inside, faults, user>>

(* _add_checkout: "git worktree add -B", then _configure_hooks. *)

CreateBranch ==
  /\ At("enter", "branch")
  /\ git' = [git EXCEPT ![op.id].branch = "base"]
  /\ Goto("register")
  /\ UNCHANGED <<sessions, file, inside, faults, user>> /\ Untouched

Register ==
  /\ At("enter", "register")
  /\ git' = [git EXCEPT ![op.id].registered = TRUE, ![op.id].dir = "partial"]
  /\ Goto("fill")
  /\ UNCHANGED <<sessions, file, inside, faults, user>> /\ Untouched

Fill ==
  /\ At("enter", "fill")
  /\ git' = [git EXCEPT ![op.id].dir = "full"]
  /\ Goto("hooks")
  /\ UNCHANGED <<sessions, file, inside, faults, user>> /\ Untouched

ConfigureHooks ==
  /\ At("enter", "hooks")
  /\ git' = [git EXCEPT ![op.id].hooks = TRUE]
  /\ sessions' = [sessions EXCEPT ![op.id].status = "idle"]
  /\ Goto("deps")
  /\ UNCHANGED <<file, inside, faults, user>> /\ Untouched

\* A failing "worktree add" takes the checkout away again, a killed one leaves
\* what it made.  Only a new session is rolled back.
AddFails ==
  /\ up /\ op.kind = "enter" /\ op.step \in {"branch", "register", "fill", "hooks"}
  /\ Fault
  /\ \/ UNCHANGED git
     \/ /\ op.step = "fill"
        /\ git' = [git EXCEPT ![op.id].registered = FALSE, ![op.id].dir = "none"]
  /\ op' = IF op.fresh THEN Op("rollback", op.id, "unregister", TRUE) ELSE NoOp
  /\ UNCHANGED <<sessions, file, inside, user>> /\ Untouched

(* _rollback_create.  The Git commands may fail unnoticed; one that times out *)
(* ends the rollback with the session still there.                            *)

Unregister ==
  /\ At("rollback", "unregister")
  /\ \/ /\ git[op.id].registered
        /\ git' = [git EXCEPT ![op.id].registered = FALSE, ![op.id].dir = "none",
                              ![op.id].hooks = FALSE]
        /\ UNCHANGED faults
     \/ /\ git[op.id].registered /\ Fault /\ UNCHANGED git
     \/ /\ ~git[op.id].registered /\ UNCHANGED <<git, faults>>
  /\ Goto("unbranch")
  /\ UNCHANGED <<sessions, file, inside, user>> /\ Untouched

\* Git keeps a branch that a worktree has checked out.
DeleteBranch ==
  /\ At("rollback", "unbranch")
  /\ git' = [git EXCEPT ![op.id].branch = IF git[op.id].registered THEN @ ELSE "none"]
  /\ Goto("forget")
  /\ UNCHANGED <<sessions, file, inside, faults, user>> /\ Untouched

RollbackStops ==
  /\ up /\ op.kind = "rollback" /\ op.step \in {"unregister", "unbranch"}
  /\ Fault
  /\ op' = NoOp
  /\ UNCHANGED <<sessions, file, git, inside, user>> /\ Untouched

Forget ==
  /\ At("rollback", "forget")
  /\ git' = [git EXCEPT ![op.id].dir = "none"]
  /\ sessions' = Without(sessions, op.id)
  /\ MayPersist(sessions')
  /\ op' = NoOp
  /\ UNCHANGED <<inside, user>> /\ Untouched

-----------------------------------------------------------------------------
(* _reconcile_dependencies, for the one dependency. *)

Matches(w) == sessions[w].injected /\ inside[w].dependency = "ours"

Reconcile ==
  LET w == op.id IN
  /\ At("enter", "deps")
  /\ \/ /\ ~configured /\ Matches(w)          \* no longer wanted: taken out
        /\ inside' = [inside EXCEPT ![w].dependency = "absent"]
        /\ sessions' = [sessions EXCEPT ![w].injected = FALSE]
     \/ /\ configured
        /\ IF sessions[w].injected THEN Matches(w) ELSE inside[w].dependency = "absent"
        /\ inside' = [inside EXCEPT ![w].dependency = "ours"]
        /\ sessions' = [sessions EXCEPT ![w].injected = TRUE]
     \/ UNCHANGED <<inside, sessions>>        \* nothing to do, or a warning
  /\ Goto("activate")
  /\ UNCHANGED <<file, git, faults, user>> /\ Untouched

\* The copy it replaces is removed first; a removal may fail as well.
ReconcileFails ==
  LET w == op.id IN
  /\ At("enter", "deps") /\ Fault
  /\ \/ configured /\ Matches(w) /\ inside' = [inside EXCEPT ![w].dependency = "absent"]
     \/ (Matches(w) \/ (configured /\ ~sessions[w].injected)) /\ UNCHANGED inside
  /\ sessions' = [sessions EXCEPT ![w].status = "idle"]
  /\ Persist(sessions') \/ UNCHANGED file
  /\ op' = NoOp
  /\ UNCHANGED <<git, user>> /\ Untouched

Activated == [sessions EXCEPT ![op.id].status = "active", ![op.id].recovered = FALSE]

Activate ==
  /\ At("enter", "activate")
  /\ \/ Persist(Activated) /\ sessions' = Activated /\ UNCHANGED faults
     \/ /\ Fault                              \* not saved: idle again
        /\ sessions' = [Activated EXCEPT ![op.id].status = "idle"]
        /\ Persist(sessions') \/ UNCHANGED file
  /\ op' = NoOp
  /\ UNCHANGED <<git, inside, user>> /\ Untouched

\* leave(), called by the thread that watches the task.
Leave(w) ==
  /\ Free /\ Active(w)
  /\ sessions' = [sessions EXCEPT ![w].status = "idle"]
  /\ MayPersist(sessions')
  /\ UNCHANGED <<git, inside, op, user>> /\ Untouched

-----------------------------------------------------------------------------
(* remove() *)

StartRemove(w) ==
  /\ Free /\ Removable(w)
  /\ op' = Op("remove", w, "checkout", FALSE)
  /\ UNCHANGED <<sessions, file, git, inside, faults, user>> /\ Untouched

RemoveCheckout ==
  /\ At("remove", "checkout")
  /\ git' = [git EXCEPT ![op.id] = [@ EXCEPT !.dir = "none", !.registered = FALSE,
                                             !.hooks = FALSE]]
  /\ inside' = [inside EXCEPT ![op.id] = Empty]
  /\ Goto("unbranch")
  /\ UNCHANGED <<sessions, file, faults, user>> /\ Untouched

\* Git refuses, or is killed with some of the files gone, or all of them.
RemoveCheckoutFails ==
  /\ At("remove", "checkout") /\ git[op.id].registered
  /\ Fault
  /\ \/ UNCHANGED <<git, inside>>
     \/ \E rest \in {"partial", "none"} :
          /\ git' = [git EXCEPT ![op.id].dir = rest]
          /\ inside' = [inside EXCEPT ![op.id] = Empty]
  /\ op' = NoOp
  /\ UNCHANGED <<sessions, file, user>> /\ Untouched

RemoveBranch ==
  /\ At("remove", "unbranch")
  /\ git' = [git EXCEPT ![op.id].branch = "none"]
  /\ LET rest == Without(sessions, op.id) IN
     \/ sessions' = rest /\ Persist(rest) /\ UNCHANGED faults
     \/ PersistFails /\ sessions' = [sessions EXCEPT ![op.id].error = TRUE]
     \/ PersistFails /\ sessions' = rest     \* an OSError is not caught
  /\ op' = NoOp
  /\ UNCHANGED <<inside, user>> /\ Untouched

RemoveBranchFails ==
  /\ At("remove", "unbranch") /\ git[op.id].branch # "none"
  /\ Fault
  /\ \/ /\ sessions' = [sessions EXCEPT ![op.id].error = TRUE]  \* Git refused
        /\ Persist(sessions') \/ UNCHANGED file
     \/ UNCHANGED <<sessions, file>>                            \* Git timed out
  /\ op' = NoOp
  /\ UNCHANGED <<git, inside, user>> /\ Untouched

-----------------------------------------------------------------------------
(* SIGINT, the end of the process and its next start *)

\* KeyboardInterrupt is no Exception: no handler of enter() or remove() runs.
Interrupt ==
  /\ up /\ op # NoOp
  /\ Fault
  /\ \/ UNCHANGED <<sessions, file>>
     \/ op.step = "activate" /\ sessions' = Activated /\ (Persist(Activated) \/ UNCHANGED file)
  /\ op' = NoOp
  /\ UNCHANGED <<git, inside, user>> /\ Untouched

Down ==
  /\ up' = FALSE /\ op' = NoOp /\ sessions' = <<>> /\ stateError' = FALSE /\ found' = {}
  /\ UNCHANGED <<configured, git, inside, user>>

Crash == up /\ Fault /\ Down /\ UNCHANGED file

Idled(ss) == [w \in DOMAIN ss |-> [ss[w] EXCEPT !.status = "idle"]]
\* close() saves only if a worktree is active.
Close ==
  /\ Free /\ Down
  /\ IF \E w \in Ids : Active(w) THEN MayPersist(Idled(sessions))
                                 ELSE UNCHANGED <<file, faults>>

\* A plausible bug: recover() drops what does not validate.
LoadValid(records, failed) ==
  [w \in {v \in DOMAIN records : Valid(v)} |->
     [status |-> "idle", recovered |-> records[w].status # "idle",
      error |-> w \in failed, injected |-> records[w].injected]]

\* _parse_state refuses the whole file if any record of it is wrong.
Load(records, failed) ==
  [w \in DOMAIN records |-> [status |-> "idle", recovered |-> records[w].status # "idle",
                             error |-> ~Valid(w) \/ w \in failed,
                             injected |-> records[w].injected]]

\* __init__ and recover().  A validation may fail because Git does.
Start ==
  /\ ~up /\ up' = TRUE
  /\ configured' \in Configurations
  /\ \/ /\ ~Readable(file)
        /\ stateError' = TRUE
        /\ UNCHANGED <<sessions, file, faults>>
     \/ /\ Readable(file)
        /\ \E failed \in {{}} \cup {{w} : w \in DOMAIN file} :
             /\ sessions' = Load(file, failed)
             /\ failed # {} => CanFail
             /\ faults' = IF failed = {} THEN faults ELSE faults + 1
        /\ IF \E w \in DOMAIN file : file[w].status # "idle"
           THEN Persist(sessions') \/ UNCHANGED file
           ELSE UNCHANGED file
        /\ UNCHANGED stateError
  /\ UNCHANGED <<git, inside, op, found, user>>

-----------------------------------------------------------------------------
(* Tasks in their worktrees, which enter() returned after it had saved them,  *)
(* and users, who find worktrees in the state file.                           *)

Outside(w) ==
  /\ user < MaxUser /\ user' = user + 1
  /\ op.id # w
  /\ Readable(file) /\ w \in DOMAIN file
Work(w) ==
  /\ Outside(w) /\ git[w].dir # "none"
  /\ \/ inside' = [inside EXCEPT ![w].files = TRUE]
     \/ inside' = [inside EXCEPT ![w].dependency = "foreign"]
  /\ UNCHANGED <<sessions, file, git, op, faults>> /\ Untouched

Commit(w) ==
  /\ Outside(w)
  /\ git[w].dir # "none" /\ git[w].registered /\ git[w].branch = "base"
  /\ git' = [git EXCEPT ![w].branch = "ahead"]
  /\ UNCHANGED <<sessions, file, inside, op, faults>> /\ Untouched

\* Somebody deletes an idle checkout without work in it, the registration too
\* or not.
Prune(w) ==
  /\ Outside(w) /\ ~Active(w)
  /\ git[w].dir # "none" /\ ~inside[w].files /\ inside[w].dependency # "foreign"
  /\ \E left \in BOOLEAN :
       git' = [git EXCEPT ![w] = [@ EXCEPT !.dir = "none", !.hooks = FALSE,
                                          !.registered = left /\ @]]
  /\ inside' = [inside EXCEPT ![w] = Empty]
  /\ UNCHANGED <<sessions, file, op, faults>> /\ Untouched

SpoilFile ==
  /\ user < MaxUser /\ user' = user + 1
  /\ ~up /\ file' = Corrupt
  /\ UNCHANGED <<sessions, git, inside, op, faults>> /\ Untouched

-----------------------------------------------------------------------------
Init ==
  /\ up = FALSE /\ configured = FALSE /\ stateError = FALSE
  /\ sessions = <<>> /\ file = <<>>
  /\ git = [w \in Ids |-> NoCheckout] /\ inside = [w \in Ids |-> Empty]
  /\ op = NoOp /\ found = {} /\ faults = 0 /\ user = 0

Enter == (\E w \in Ids : EnterNew(w) \/ EnterKnown(w)) \/ PersistCreating \/ CreateBranch
         \/ Register \/ Fill \/ ConfigureHooks \/ AddFails \/ Reconcile \/ ReconcileFails
         \/ Activate
Rollback == Unregister \/ DeleteBranch \/ RollbackStops \/ Forget
Remove == (\E w \in Ids : StartRemove(w)) \/ RemoveCheckout \/ RemoveCheckoutFails
          \/ RemoveBranch \/ RemoveBranchFails
Next ==
  \/ Enter \/ Rollback \/ Remove
  \/ Interrupt \/ Crash \/ Close \/ Start \/ SpoilFile
  \/ \E w \in Ids : Leave(w) \/ Work(w) \/ Commit(w) \/ Prune(w)

Spec == Init /\ [][Next]_vars
-----------------------------------------------------------------------------
SessionsOK == DOMAIN sessions \subseteq Ids /\ sessions \in [DOMAIN sessions -> Sessions]
FileOK == file = Corrupt \/ (DOMAIN file \subseteq Ids /\ file \in [DOMAIN file -> Records])
DiskOK == git \in [Ids -> Checkouts] /\ inside \in [Ids -> Contents]
FlagsOK == up \in BOOLEAN /\ configured \in BOOLEAN /\ stateError \in BOOLEAN
           /\ found \subseteq Ids

\* An operation holds the lock of a process that runs, and works on a worktree
\* that has a session and no task; nothing can be done over a spoilt state file.
OpOK ==
  /\ op \in Ops
  /\ op # NoOp => op.id \in DOMAIN sessions /\ ~Active(op.id)
  /\ ~up \/ stateError => sessions = <<>> /\ op = NoOp
  /\ ~up => ~stateError
  /\ up /\ ~Readable(file) => stateError

TypeOK ==
  /\ SessionsOK /\ FileOK /\ DiskOK /\ FlagsOK /\ OpOK
  /\ faults \in 0 .. MaxFaults /\ user \in 0 .. MaxUser

\* Whatever fails and wherever the process dies: work in a worktree is known to
\* the running manager or to the state file that the next start reads, so that
\* the worktree can still be listed and its name is not taken by surprise.
\* (A checkout that no task was given yet may be forgotten: SIGINT between
\* worktree.py:276 and 278 leaves a session that is saved only after its
\* checkout was made.)
WorkKnown ==
  Readable(file) => \A w \in Ids \ (DOMAIN sessions \cup DOMAIN file) :
                      inside[w] \in {Empty, [Empty EXCEPT !.dependency = "ours"]}
                      /\ git[w].branch # "ahead"

\* The directory that a task is given is registered as a checkout of the branch
\* of its worktree, and it is a whole checkout if the enter() of the task made
\* it, also after earlier operations on it failed half-way.  A directory that
\* enter() found there may be the half that a stopped Git command left: only its
\* registration is looked at (_ensure_checkout, worktree.py:513-540).
ActiveIsCheckedOut ==
  \A w \in Ids : Active(w) =>
    /\ git[w].registered /\ git[w].branch # "none"
    /\ git[w].dir = "full" \/ (git[w].dir = "partial" /\ w \in found)

\* Without the exception: no task is given half a checkout.  It fails, see
\* Worktree_half_checkout.cfg.
CheckoutsAreWhole == \A w \in Ids : Active(w) => git[w].dir = "full"

\* What is in a worktree survives everything but a removal that was asked for
\* of a worktree without a task; and a state file that cannot be read is left as
\* it is: no operation of any later process writes over it (recover).
Kept ==
  {k \in Ids \X {"files", "commits", "dependency"} :
     \/ k[2] = "files" /\ inside[k[1]].files
     \/ k[2] = "commits" /\ git[k[1]].branch = "ahead"
     \/ k[2] = "dependency" /\ inside[k[1]].dependency = "foreign"}
  \cup {k \in {<<"state file", "records">>} : file = Corrupt}
Busy == {w \in Ids : Active(w)}
Removing == IF op.kind = "remove" THEN op.id ELSE None

Keeper == INSTANCE WorktreeKeeper WITH kept <- Kept, busy <- Busy, removing <- Removing
ImplementsKeeper == Keeper!Spec

\* README.md:442-443: a dirty removal always asks, and ListWorktrees reports
\* dirtiness.  What preflight_remove says of a worktree it lets be removed is
\* what remove() will find.
DirtyReported ==
  \A w \in DOMAIN sessions : Free /\ Removable(w) => ReportedDirty(w) = Dirty(w)
=============================================================================
