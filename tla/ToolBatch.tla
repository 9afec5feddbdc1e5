----------------------------- MODULE ToolBatch -----------------------------
(***************************************************************************)
(* The calls of one reply, core/agent.py _execute_tools.  Every call is      *)
(* decided before any is run; then the Skills run, then the subagents, then  *)
(* the other tools in their order, neighbours that are concurrency-safe at   *)
(* once (tools/tool.py execute_many).  What a decision was based on may have *)
(* changed when the call runs: background tasks, which TaskLedger describes, *)
(* take and return the write lease and change a worktree meanwhile.          *)
(*                                                                           *)
(* A call is its kind: calls of one kind have the same arguments.  One       *)
(* worktree stands for the worktree of the one name that isolated forks use. *)
(***************************************************************************)
EXTENDS Naturals, Sequences, FiniteSets, Functions

CONSTANTS
  Task, MaxTasks,   \* background tasks and slots
  None,             \* no task
  Kinds,            \* the kinds of calls the model may ask for
  Denied,           \* the kinds that a permission rule denies
  MaxBatch,         \* bound: calls in a reply
  MaxBatches        \* bound: replies with calls

MaxFailures == 2    \* MAX_IDENTICAL_TOOL_FAILURES

\* WriteFile and EditFile are one kind: "PlanFile" on the plan file and
\* "WriteFile" on any other.  "ReadBash" is Bash with a command that checker.py
\* takes as one that only reads.  "SafeMcp" is an MCP tool configured as safe.
FileWriters == {"WriteFile", "PlanFile"}
\* The tools the busy check is about.
Writers == FileWriters \cup {"Bash", "ReadBash"}
Forks == {"SharedFork", "IsolatedFork"}
ReadOnly == {"ReadFile", "LoadSkill"} \cup Forks
ConcurrencySafe == {"ReadFile", "SafeMcp"}
PlanSafe == ReadOnly \cup {"PlanFile", "ReadBash"}
\* The policy knows rules for paths, commands and MCP arguments only.
HasContent == {"ReadFile", "SafeMcp"} \cup Writers

ASSUME BatchAssumption ==
  /\ MaxBatch \in Nat \ {0} /\ MaxBatches \in Nat
  /\ None \notin Task
  /\ Kinds \subseteq {"ReadFile", "WriteFile", "PlanFile", "Bash", "ReadBash",
                      "SafeMcp", "LoadSkill", "SharedFork", "IsolatedFork",
                      "RemoveWorktree", "ExitPlanMode", "UpdatePlan"}
  /\ Denied \subseteq Kinds \cap HasContent

Position == 1 .. MaxBatch
\* What held when a call was decided, whether the preflight of a removal could not
\* see it, and whether the user was asked first.
Grounds == [busy : BOOLEAN, dirty : BOOLEAN, blind : BOOLEAN, asked : BOOLEAN]

VARIABLES
  pc,           \* where the parent is
  batch,        \* the calls of the reply
  batches,      \* how many replies with calls there were
  next,         \* the call to decide
  allowed,      \* the positions to run
  answered,     \* the positions that have a result, in the order of results
  running,      \* the positions that run now
  grounds,      \* what the decisions of this batch saw
  failures,     \* _tool_failures
  mode,         \* context.mode
  permission,   \* permission_mode
  granted,      \* the kinds the user chose to allow always
  stage, writers,    \* of TaskLedger; a writer holds the write lease
  worktree,     \* the worktree of the isolated forks
  owner         \* active_task_id of that worktree

batchVars == <<batch, next, allowed, answered, running, grounds>>
policyVars == <<mode, permission, granted>>
taskVars == <<stage, writers, worktree, owner>>
vars == <<pc, batches, batchVars, failures, policyVars, taskVars>>

Ledger == INSTANCE TaskLedger

Modes == {"default", "plan"}
PermissionModes == {"ask_for_approval", "accept_edits", "full_access"}

\* Type correctness: among other things, only allowed calls run.
TypeOK ==
  /\ pc \in {"idle", "thinking", "deciding", "confirming", "asking",
             "reviewing", "executing"}
  /\ batch \in Seq(Kinds) /\ Len(batch) <= MaxBatch
  /\ batches \in 0 .. MaxBatches /\ next \in 1 .. MaxBatch + 1
  /\ allowed \subseteq Position /\ running \subseteq allowed
  /\ answered \in Seq(Position)
  /\ grounds \in [Position -> Grounds]
  /\ failures \in [Kinds -> Nat]
  /\ mode \in Modes /\ permission \in PermissionModes /\ granted \subseteq Kinds
  /\ stage \in [Task -> {"new", "running", "ready", "dropped", "delivered"}]
  /\ writers \subseteq Task
  /\ worktree \in {"absent", "clean", "dirty"} /\ owner \in Task \cup {None}

Answered == Range(answered)
workspace_busy == writers # {}
NoFailures == [k \in Kinds |-> 0]

NoGrounds ==
  [p \in Position |->
     [busy |-> FALSE, dirty |-> FALSE, blind |-> FALSE, asked |-> FALSE]]

\* Work on a reply begins, or there is none.
NewBatch ==
  /\ next' = 1 /\ allowed' = {} /\ answered' = <<>> /\ running' = {}
  /\ grounds' = NoGrounds
NoBatch == batch' = <<>> /\ NewBatch

Init ==
  /\ pc = "idle" /\ batches = 0
  /\ batch = <<>> /\ next = 1 /\ allowed = {} /\ answered = <<>>
  /\ running = {} /\ grounds = NoGrounds
  /\ failures = NoFailures
  /\ mode \in Modes /\ permission \in PermissionModes /\ granted = {}
  /\ Ledger!LedgerInit
  /\ worktree \in {"absent", "clean", "dirty"} /\ owner = None

-----------------------------------------------------------------------------
(* Turns.                                                                    *)

\* stream() forgets the failures.  The user may have changed the mode.
StartTurn ==
  /\ pc = "idle" /\ batches < MaxBatches
  /\ pc' = "thinking"
  /\ failures' = NoFailures
  /\ mode' \in Modes
  /\ UNCHANGED <<batches, batchVars, permission, granted, taskVars>>

\* The model replies with calls.
Reply ==
  /\ pc = "thinking" /\ batches < MaxBatches
  /\ pc' = "deciding" /\ batches' = batches + 1
  /\ \E n \in Position : batch' \in [1 .. n -> Kinds]
  /\ NewBatch
  /\ UNCHANGED <<failures, policyVars, taskVars>>

\* It replies without calls, or the turn fails.
EndTurn ==
  /\ pc = "thinking"
  /\ pc' = "idle" /\ NoBatch
  /\ UNCHANGED <<batches, failures, policyVars, taskVars>>

\* SIGINT, or an answer that run_backend rejects: the batch is given up.
GiveUp ==
  /\ pc \notin {"idle", "thinking"}
  /\ pc' = "idle" /\ NoBatch
  /\ UNCHANGED <<batches, failures, policyVars, taskVars>>

-----------------------------------------------------------------------------
(* Decisions, one call after the other.                                      *)

\* The call under decision gets its result at once.
Settle ==
  /\ answered' = Append(answered, next)
  /\ next' = next + 1 /\ pc' = "deciding"
  /\ UNCHANGED allowed

\* It will be run.
Allow ==
  /\ allowed' = allowed \cup {next}
  /\ next' = next + 1 /\ pc' = "deciding"
  /\ UNCHANGED answered

Prompt(question) ==
  /\ pc' = question
  /\ UNCHANGED <<next, allowed, answered>>

\* _tool_loop_guard_result: calls with side effects, not these that failed twice.
MutGuarded(k) == k \notin ReadOnly /\ failures[k] > MaxFailures
Guarded(k) == k \notin ReadOnly /\ failures[k] >= MaxFailures

MutBusyFor(k) == workspace_busy /\ k \in FileWriters
BusyFor(k) == workspace_busy /\ k \in Writers

\* PermissionChecker.check
MutPermissionFor(k) ==
  IF k \in Denied THEN "deny"
  ELSE IF \/ permission = "full_access" \/ k \in ReadOnly \cup granted
          \/ permission = "accept_edits" /\ k \in FileWriters
       THEN "allow"
  ELSE IF mode = "plan" THEN (IF k \in PlanSafe THEN "allow" ELSE "deny")
  ELSE "ask"
PermissionFor(k) ==
  IF k \in Denied THEN "deny"
  ELSE IF mode = "plan" THEN (IF k \in PlanSafe THEN "allow" ELSE "deny")
  ELSE IF \/ permission = "full_access" \/ k \in ReadOnly \cup granted
          \/ permission = "accept_edits" /\ k \in FileWriters
       THEN "allow" ELSE "ask"

\* The busy check and the permission rules.
Check(k) ==
  \/ BusyFor(k) /\ Settle
  \/ /\ ~BusyFor(k)
     /\ \/ PermissionFor(k) = "deny" /\ Settle
        \/ PermissionFor(k) = "allow" /\ Allow
        \/ PermissionFor(k) = "ask" /\ Prompt("asking")

\* A dirty worktree needs a question of its own.  The preflight is blind to the
\* changes of a session with an error, and where git status fails: _status calls
\* both clean.
MutNeedsQuestion(blind) == worktree = "dirty" /\ ~blind /\ permission # "full_access"
NeedsQuestion(blind) == worktree = "dirty" /\ ~blind

\* preflight_remove, which may fail.
Preflight(k, blind) ==
  \/ Settle
  \/ /\ worktree # "absent" /\ owner = None
     /\ \/ NeedsQuestion(blind) /\ Prompt("confirming")
        \/ ~NeedsQuestion(blind) /\ Check(k)

\* The plan is reviewed, and the checklist updated, while deciding.
DecideByKind(k, blind) ==
  \/ k = "ExitPlanMode" /\ (Settle \/ (mode = "plan" /\ Prompt("reviewing")))
  \/ k = "UpdatePlan" /\ Settle
  \/ k = "RemoveWorktree" /\ mode # "plan" /\ Preflight(k, blind)
  \/ /\ k \notin {"ExitPlanMode", "UpdatePlan"}
     /\ k = "RemoveWorktree" => mode = "plan"
     /\ Check(k)

Decide ==
  /\ pc = "deciding" /\ next <= Len(batch)
  /\ \E blind \in BOOLEAN :
       /\ blind => batch[next] = "RemoveWorktree" /\ worktree = "dirty"
       /\ \/ Guarded(batch[next]) /\ Settle
          \/ ~Guarded(batch[next]) /\ DecideByKind(batch[next], blind)
       /\ grounds' = [grounds EXCEPT ![next] =
            [busy |-> workspace_busy, dirty |-> worktree = "dirty",
             blind |-> blind, asked |-> FALSE]]
  /\ UNCHANGED <<batch, batches, running, failures, policyVars, taskVars>>

\* The user's answer about a dirty worktree.
Confirm ==
  /\ pc = "confirming"
  /\ \/ Settle /\ UNCHANGED grounds
     \/ Allow /\ grounds' = [grounds EXCEPT ![next].asked = TRUE]
  /\ UNCHANGED <<batch, batches, running, failures, policyVars, taskVars>>

\* Deny or allow once.
Answer ==
  /\ pc = "asking"
  /\ Settle \/ Allow
  /\ UNCHANGED <<batch, batches, running, grounds, failures, policyVars,
                 taskVars>>

\* Allow always: remember_allow stores a rule.
AllowAlways ==
  /\ pc = "asking" /\ batch[next] \in HasContent
  /\ Allow
  /\ granted' = granted \cup {batch[next]}
  /\ UNCHANGED <<batch, batches, running, grounds, failures, mode, permission,
                 taskVars>>

\* A call without a content to remember raises, and so does a failed write of
\* the rule: nothing catches it before run_backend, which ends the turn.
RememberFails ==
  /\ pc = "asking"
  /\ pc' = "idle" /\ NoBatch
  /\ UNCHANGED <<batches, failures, policyVars, taskVars>>

\* Approval ends Plan Mode for the calls that follow.
Review ==
  /\ pc = "reviewing"
  /\ Settle
  /\ mode' \in Modes
  /\ UNCHANGED <<batch, batches, running, grounds, failures, permission,
                 granted, taskVars>>

-----------------------------------------------------------------------------
(* Execution: Skills, subagents, the other tools.                            *)

Rank(p) == IF batch[p] = "LoadSkill" THEN 1 ELSE IF batch[p] \in Forks THEN 2 ELSE 3
Waiting == allowed \ Answered
\* The calls of the first group that is not done.
Group == {p \in Waiting : \A q \in Waiting : Rank(p) <= Rank(q)}
\* The next of a group that runs in the order of the reply.
IsNext(p, rank) == p \in Group /\ Rank(p) = rank /\ \A q \in Group : p <= q

BeginExecution ==
  /\ pc = "deciding" /\ next > Len(batch)
  /\ pc' = "executing"
  /\ UNCHANGED <<batches, batchVars, failures, policyVars, taskVars>>

\* _record_tool_result: a success of a call with side effects forgets all.
Recorded(k, error) ==
  IF k \in ReadOnly THEN failures
  ELSE IF error THEN [failures EXCEPT ![k] = @ + 1] ELSE NoFailures

Return(p, error) ==
  /\ answered' = Append(answered, p)
  /\ running' = running \ {p}
  /\ failures' = Recorded(batch[p], error)
  /\ UNCHANGED <<pc, batch, batches, next, allowed, grounds, policyVars>>

\* Skills run in the order of their names.
RunSkill(p) ==
  /\ pc = "executing" /\ p \in Group /\ Rank(p) = 1
  /\ \E error \in BOOLEAN : Return(p, error)
  /\ UNCHANGED taskVars

\* A subagent does not start for want of a slot, the lease or the worktree.
RunForkFails(p) ==
  /\ pc = "executing" /\ IsNext(p, 2)
  /\ Return(p, TRUE)
  /\ UNCHANGED <<stage, writers, owner>>
  /\ \/ UNCHANGED worktree
     \/ batch[p] = "IsolatedFork" /\ worktree = "absent" /\ worktree' = "clean"

\* It starts in the background: run() returns while the worker goes on.
RunFork(p, t) ==
  /\ pc = "executing" /\ IsNext(p, 2)
  /\ Ledger!Start(t)
  /\ Return(p, FALSE)
  /\ \/ /\ batch[p] = "SharedFork" /\ writers' = {t}
        /\ UNCHANGED <<worktree, owner>>
     \/ /\ batch[p] = "IsolatedFork" /\ writers' = writers
        /\ owner = None /\ owner' = t
        /\ worktree' = IF worktree = "absent" THEN "clean" ELSE worktree

\* A tool that is not concurrency-safe runs alone, a row of safe ones at once.
Safe(p) == batch[p] \in ConcurrencySafe
MutRow(p) == {q \in Group : Safe(q)} \cup {p}
Row(p) ==
  IF ~Safe(p) THEN {p}
  ELSE {q \in Group : \A r \in Group : p <= r /\ r <= q => Safe(r)}

StartTools(p) ==
  /\ pc = "executing" /\ running = {} /\ IsNext(p, 3)
  /\ running' = Row(p)
  /\ UNCHANGED <<pc, batch, batches, next, allowed, answered, grounds, failures,
                 policyVars, taskVars>>

FinishTool(p) ==
  /\ pc = "executing" /\ p \in running /\ batch[p] # "RemoveWorktree"
  /\ \E error \in BOOLEAN : Return(p, error)
  /\ UNCHANGED taskVars

\* WorktreeManager.remove looks again for an active task, not for changes.  What
\* git refuses to remove is a warning, not an error; what fails after the checkout
\* is gone is an error.
Removable == worktree # "absent" /\ owner = None
FinishRemoval(p) ==
  /\ pc = "executing" /\ p \in running /\ batch[p] = "RemoveWorktree"
  /\ \/ Return(p, TRUE) /\ UNCHANGED worktree
     \/ /\ Removable /\ worktree' \in {"absent", worktree}
        /\ \E error \in BOOLEAN : Return(p, error)
  /\ UNCHANGED <<stage, writers, owner>>

MutDone == \A p \in Waiting : Safe(p)
Done == Waiting = {}
EndBatch ==
  /\ pc = "executing" /\ running = {} /\ Done
  /\ pc' = "thinking"
  /\ UNCHANGED <<batches, batchVars, failures, policyVars, taskVars>>

-----------------------------------------------------------------------------
(* Background tasks, and the specification.                                  *)

\* A worker ends and leaves its worktree.
TaskEnds(t) ==
  /\ Ledger!Finish(t) /\ stage'[t] = "ready"
  /\ owner' = IF owner = t THEN None ELSE owner
  /\ UNCHANGED <<pc, batches, batchVars, failures, policyVars, worktree>>

\* An isolated fork edits its worktree.
TaskEdits ==
  /\ owner # None /\ worktree = "clean"
  /\ worktree' = "dirty"
  /\ UNCHANGED <<pc, batches, batchVars, failures, policyVars, stage, writers,
                 owner>>

\* The bound on the replies is reached.
Exhausted == pc = "idle" /\ batches = MaxBatches /\ UNCHANGED vars

BatchStep ==
  \/ Decide \/ BeginExecution \/ EndBatch
  \/ \E p \in Position :
       \/ RunSkill(p) \/ RunForkFails(p) \/ \E t \in Task : RunFork(p, t)
       \/ StartTools(p) \/ FinishTool(p) \/ FinishRemoval(p)

Next ==
  \/ StartTurn \/ Reply \/ EndTurn \/ GiveUp
  \/ BatchStep
  \/ Confirm \/ Answer \/ AllowAlways \/ RememberFails \/ Review
  \/ TaskEdits \/ \E t \in Task : TaskEnds(t)
  \/ Exhausted

Spec == Init /\ [][Next]_vars

-----------------------------------------------------------------------------
(* Properties.                                                               *)

\* When the batch is over each of its calls has one result: agent.py looks the
\* results up by call id, and a call without one is dropped from the context.
AnsweredInFull ==
  pc = "thinking" =>
    Len(answered) = Len(batch) /\ Answered = DOMAIN batch

\* A tool that is not concurrency-safe runs alone, after every earlier tool of
\* its batch and before every later one (tool.py execute_many).
UnsafeIsBarrier ==
  \A p \in running : ~Safe(p) =>
    /\ running = {p}
    /\ \A q \in allowed : Rank(q) = 3 => (q \in Answered <=> q < p)

\* No call that may change business files runs while Plan Mode is on, whatever
\* the permission mode is and whatever was allowed always (checker.py check).
PlanStopsTools ==
  mode = "plan" =>
    \A p \in running : batch[p] \in PlanSafe

\* The parent writes under a fork's lease only if that fork was started by the
\* same batch, after the write was decided: the busy check is no stronger.
LeaseRespected ==
  \A p \in running : batch[p] \in Writers /\ workspace_busy =>
    /\ ~grounds[p].busy
    /\ \E q \in allowed \cap Answered : batch[q] = "SharedFork"

\* The worktree of a running task stays, although the task may have started
\* after the removal was allowed (worktree.py remove).
ActiveWorktreeStays == owner # None => worktree # "absent"

\* A dirty worktree is removed without a question only if the preflight could
\* not see that it was dirty (worktree.py _status), or if it was clean when this was
\* decided and a fork of the same batch worked in it since.
DirtyRemovalAsked ==
  [][\A p \in running :
       (batch[p] = "RemoveWorktree" /\ worktree = "dirty" /\ worktree' = "absent")
       => \/ grounds[p].asked
          \/ grounds[p].dirty /\ grounds[p].blind
          \/ /\ ~grounds[p].dirty
             /\ \E q \in allowed \cap Answered : batch[q] = "IsolatedFork"]_vars

\* Both: what a removal may take.
RemovalSafe == []ActiveWorktreeStays /\ DirtyRemovalAsked

\* The guard stops a call that failed twice, but it looks before the batch runs:
\* one more batch may be full of it.
FailuresBounded ==
  \A k \in Kinds : failures[k] <= MaxFailures - 1 + MaxBatch

\* README.md: while a fork holds the lease, the parent's WriteFile, EditFile and
\* Bash return busy.
ParentStaysOut ==
  workspace_busy => \A p \in running : batch[p] \notin Writers

\* checker.py: business files cannot be modified before the plan is approved, so
\* no fork gets the lease to write in the shared workspace during Plan Mode.
PlanStopsForks == [][mode = "plan" => writers' \subseteq writers]_vars
=============================================================================
