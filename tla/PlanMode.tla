------------------------------ MODULE PlanMode ------------------------------
(***************************************************************************)
(* Plan Mode and the task checklist (core/agent.py): the two files in the      *)
(* workspace, the mode, the reminder the model is shown, and the flags of a    *)
(* turn that decide whether it may report success and what it removes.         *)
(* The files outlive the process, the rest does not.                           *)
(*                                                                           *)
(* A batch is the tool calls of one answer: ExitPlanMode, UpdatePlan, a write   *)
(* of the plan file, or any other tool, which outside Plan Mode may do anything *)
(* to both files.  ExitPlanMode and UpdatePlan are served while the batch is    *)
(* checked, the others after it.  Background tasks and users who edit the files *)
(* are left out.                                                                *)
(***************************************************************************)
EXTENDS Naturals, Sequences, SequencesExt

CONSTANTS
  MaxIterations, \* max_iterations
  MaxBatch,      \* bound: calls in an answer
  MaxTurns,      \* bound: turns
  MaxSwitches    \* bound: mode switches and restarts

ASSUME PlanModeAssumption ==
  /\ MaxIterations \in Nat \ {0} /\ MaxBatch \in Nat
  /\ MaxTurns \in Nat /\ MaxSwitches \in Nat

VARIABLES
  mode,        \* context.mode
  plan,        \* plan.md: "none", "blank", "text"
  checklist,   \* checklist.md: "none", "open", "done", or "bad": not readable as one
  reminder,    \* context.checklist_reminder: "none" for the empty one, "plan", "active"
  stage,       \* "idle", "model", "check", "review", "sync"
  batch,       \* calls to check
  allowed,     \* calls to run
  calls,       \* the names in the batch
  exited,      \* an ExitPlanMode of the batch succeeded
  errors,      \* another tool of the batch failed
  turn,        \* iteration, plan_execution_pending, approved_plan_active, plan_execution_failed
  outcome,     \* how the last turn ended
  slips,       \* history: what left the reminder behind since it was last right
  turns, switches

files == <<plan, checklist>>
results == <<exited, errors>>
answer == <<batch, allowed, calls, results>>
planVars == <<mode, files, reminder, stage, answer, turn, outcome, slips, turns, switches>>

Calls == {"Exit", "Update", "Write", "Work"}
Runs == {"Write", "Work", "Read"}
PlanSlips == {"unlink", "record", "write", "planning", "interrupt", "work"}
Turn == [iteration : 1 .. MaxIterations, pending : BOOLEAN, approved : BOOLEAN, failed : BOOLEAN]
NewTurn == [iteration |-> 1, pending |-> FALSE, approved |-> FALSE, failed |-> FALSE]

\* The reminder for a mode and a checklist.
Reminder(m, c) == IF m = "plan" THEN "plan" ELSE IF c = "none" THEN "none" ELSE "active"

\* A removed checklist takes the reminder with it, also the one of Plan Mode.
SlipsOfRemoval == IF mode = "plan" THEN slips \cup {"planning"} ELSE {}

-----------------------------------------------------------------------------
(* The user's mode, and the process *)

\* The plan or, after it, the checklist cannot be removed: the mode stays.
RemovalBreaks ==
  /\ \/ UNCHANGED <<plan, reminder>>
     \/ checklist # "none" /\ plan' = "none" /\ reminder' = "none"
  /\ UNCHANGED <<mode, checklist>>
  /\ slips' = slips \cup {"unlink"}

\* enter_plan_mode
EnterPlan ==
  /\ stage = "idle" /\ mode = "default" /\ switches < MaxSwitches
  /\ switches' = switches + 1
  /\ \/ /\ mode' = "plan" /\ plan' = "none" /\ checklist' = "none"
        /\ reminder' = "plan" /\ slips' = {}
     \/ RemovalBreaks
  /\ UNCHANGED <<stage, answer, turn, outcome, turns>>

\* cancel_plan_mode; recording the cancellation may fail after the removals.
CancelPlan ==
  /\ stage = "idle" /\ mode = "plan" /\ switches < MaxSwitches
  /\ switches' = switches + 1
  /\ \/ /\ plan' = "none" /\ checklist' = "none" /\ reminder' = "none"
        /\ \/ mode' = "default" /\ slips' = {}
           \/ UNCHANGED mode /\ slips' = slips \cup {"record"}
     \/ RemovalBreaks
  /\ UNCHANGED <<stage, answer, turn, outcome, turns>>

\* The process ends at any moment; the next one starts in the default mode.
Restart ==
  /\ switches < MaxSwitches /\ switches' = switches + 1
  /\ mode' = "default" /\ reminder' = Reminder("default", checklist)
  /\ stage' = "idle" /\ turn' = NewTurn /\ outcome' = "none" /\ slips' = {}
  /\ batch' = <<>> /\ allowed' = <<>> /\ calls' = {} /\ exited' = FALSE /\ errors' = FALSE
  /\ UNCHANGED <<files, turns>>

-----------------------------------------------------------------------------
(* A turn *)

StartTurn ==
  /\ stage = "idle" /\ turns < MaxTurns /\ turns' = turns + 1
  /\ stage' = "model" /\ turn' = NewTurn
  /\ UNCHANGED <<mode, files, reminder, answer, outcome, slips, switches>>

Ends(reason) ==
  /\ stage' = "idle" /\ outcome' = reason
  /\ batch' = <<>> /\ allowed' = <<>> /\ calls' = {} /\ exited' = FALSE /\ errors' = FALSE

\* The model answers with tool calls.
AnswerCalls(b) ==
  /\ stage = "model" /\ stage' = "check"
  /\ batch' = b /\ allowed' = <<>> /\ calls' = ToSet(b)
  /\ exited' = FALSE /\ errors' = FALSE
  /\ UNCHANGED <<mode, files, reminder, turn, outcome, slips, turns, switches>>

\* The limit ends the turn, otherwise the model is asked again.
NextIteration ==
  IF turn.iteration = MaxIterations
  THEN Ends("max_iterations") /\ UNCHANGED turn
  ELSE /\ stage' = "model" /\ turn' = [turn EXCEPT !.iteration = @ + 1]
       /\ UNCHANGED <<outcome, answer>>

\* A plausible bug: a checklist that cannot be read does not count.
BlocksOpen == checklist = "open"

\* _checklist_blocker
Blocks == checklist \in {"open", "bad"}

Succeeded == ~turn.failed

\* An answer without calls: execution has not begun, the checklist is not done,
\* or the turn is complete.
AnswerText ==
  /\ stage = "model" /\ ~turn.pending
  /\ ~(Blocks /\ mode # "plan" /\ ~turn.failed)
  /\ plan' = IF turn.approved /\ Succeeded THEN "none" ELSE plan
  /\ LET removes == Succeeded /\ checklist = "done" IN
       /\ checklist' = IF removes THEN "none" ELSE checklist
       /\ reminder' = IF removes THEN "none" ELSE reminder
       /\ slips' = IF removes THEN SlipsOfRemoval ELSE slips
  /\ Ends("completed")
  /\ UNCHANGED <<mode, turn, turns, switches>>

AnswerTooEarly ==
  /\ stage = "model"
  /\ turn.pending \/ (Blocks /\ mode # "plan" /\ ~turn.failed)
  /\ NextIteration
  /\ UNCHANGED <<mode, files, reminder, slips, turns, switches>>

\* A file that should be removed at the end cannot be.
RemovalFails ==
  /\ stage = "model" /\ ~turn.pending /\ Succeeded /\ ~(Blocks /\ mode # "plan")
  /\ turn.approved \/ checklist = "done"
  /\ plan' \in IF turn.approved THEN {plan, IF checklist = "done" THEN "none" ELSE plan} ELSE {plan}
  /\ reminder' = IF plan' = "none" \/ ~turn.approved THEN "none" ELSE reminder
  /\ slips' = slips \cup {"unlink"}
  /\ Ends("error")
  /\ UNCHANGED <<mode, checklist, turn, turns, switches>>

\* The calls are checked in order.
Checking == batch # <<>> /\ stage = "check"
Checked == batch' = Tail(batch)

\* Plan Mode is inactive, or a file is missing, blank or unreadable.
Reviewable == mode = "plan" /\ plan = "text" /\ checklist \in {"open", "done"}

ExitPlanMode ==
  /\ Checking /\ Head(batch) = "Exit" /\ Checked
  /\ stage' = IF Reviewable THEN "review" ELSE "check"
  /\ UNCHANGED <<mode, files, reminder, allowed, calls, results, turn, outcome, slips, turns, switches>>

\* A plausible bug: the reminder of Plan Mode stays.
ApproveQuietly ==
  /\ stage = "review" /\ stage' = "check"
  /\ mode' = "default" /\ exited' = TRUE
  /\ UNCHANGED <<files, reminder, batch, allowed, calls, errors, turn, outcome, slips, turns, switches>>

ApprovePlan ==
  /\ stage = "review" /\ stage' = "sync"
  /\ mode' = "default" /\ exited' = TRUE
  /\ UNCHANGED <<files, reminder, batch, allowed, calls, errors, turn, outcome, slips, turns, switches>>

\* Feedback is a success too, a cancelled review is an error; the mode stays.
Reject(feedback) ==
  /\ stage = "review" /\ stage' = "check"
  /\ exited' = (exited \/ feedback)
  /\ UNCHANGED <<mode, files, reminder, batch, allowed, calls, errors, turn, outcome, slips, turns, switches>>

\* _sync_checklist_reminder
Sync ==
  /\ stage = "sync" /\ stage' = "check"
  /\ reminder' = Reminder(mode, checklist) /\ slips' = {}
  /\ UNCHANGED <<mode, files, answer, turn, outcome, turns, switches>>

\* UpdatePlan writes the checklist ("bad": a step no line of it can hold),
\* clears it, is refused, fails after the file was opened, or cannot remove it
\* and drops the reminder all the same.
UpdatePlan ==
  /\ Checking /\ Head(batch) = "Update" /\ Checked
  /\ \/ checklist' \in {"open", "done", "bad"} /\ stage' = "sync" /\ UNCHANGED <<reminder, slips>>
     \/ /\ checklist' = "none" /\ stage' = "check"
        /\ reminder' = "none" /\ slips' = SlipsOfRemoval
     \/ UNCHANGED <<checklist, stage, reminder, slips>>
     \/ /\ checklist # "none" /\ UNCHANGED <<checklist, stage>>
        /\ reminder' = "none" /\ slips' = slips \cup {"unlink"}
     \/ checklist' = "bad" /\ slips' = slips \cup {"write"} /\ UNCHANGED <<stage, reminder>>
  /\ UNCHANGED <<mode, plan, allowed, calls, results, turn, outcome, turns, switches>>

\* Plan Mode allows the plan file, and of the rest what only reads; anything may
\* be denied.
CheckOther ==
  /\ Checking /\ Head(batch) \in {"Write", "Work"} /\ Checked
  /\ \/ /\ allowed' = Append(allowed,
              IF mode = "plan" /\ Head(batch) = "Work" THEN "Read" ELSE Head(batch))
        /\ UNCHANGED errors
     \/ errors' = TRUE /\ UNCHANGED allowed
  /\ UNCHANGED <<mode, files, reminder, stage, calls, exited, turn, outcome, slips, turns, switches>>

\* A tool that fails may have changed the files.  Nothing synchronises the
\* reminder after it.
RunAllowed ==
  /\ stage = "check" /\ batch = <<>> /\ allowed # <<>>
  /\ allowed' = Tail(allowed)
  /\ errors' \in {errors, TRUE}
  /\ \/ Head(allowed) = "Read" /\ UNCHANGED files
     \/ Head(allowed) = "Write" /\ plan' \in {plan, "blank", "text"} /\ UNCHANGED checklist
     \/ /\ Head(allowed) = "Work" /\ plan' \in {"none", "blank", "text"}
        /\ checklist' \in {"none", "open", "done", "bad"}
  /\ slips' = IF Reminder(mode, checklist') = Reminder(mode, checklist)
              THEN slips ELSE slips \cup {"work"}
  /\ UNCHANGED <<mode, reminder, stage, batch, calls, exited, turn, outcome, turns, switches>>

\* The flags, once every call has its result.
Judged ==
  LET approves == mode = "default" /\ exited
      active == turn.approved \/ approves
  IN [turn EXCEPT !.approved = active,
                  !.failed = @ \/ ((active \/ mode # "plan") /\ errors),
                  !.pending = (@ \/ approves) /\ calls \subseteq {"Exit"}]

AfterTools ==
  /\ stage = "check" /\ batch = <<>> /\ allowed = <<>>
  /\ IF turn.iteration = MaxIterations
     THEN Ends("max_iterations") /\ turn' = Judged
     ELSE /\ stage' = "model" /\ turn' = [Judged EXCEPT !.iteration = @ + 1]
          /\ UNCHANGED <<outcome, answer>>
  /\ UNCHANGED <<mode, files, reminder, slips, turns, switches>>

\* Esc, a provider that fails, or a log that cannot be written.
Breaks(reason) ==
  /\ stage # "idle"
  /\ slips' = IF stage = "sync" THEN slips \cup {"interrupt"} ELSE slips
  /\ Ends(reason)
  /\ UNCHANGED <<mode, files, reminder, turn, turns, switches>>

-----------------------------------------------------------------------------

PlanInit ==
  /\ mode = "default" /\ plan = "none" /\ checklist \in {"none", "open"}
  /\ reminder = Reminder(mode, checklist) /\ stage = "idle"
  /\ batch = <<>> /\ allowed = <<>> /\ calls = {} /\ exited = FALSE /\ errors = FALSE
  /\ turn = NewTurn /\ outcome = "none" /\ slips = {} /\ turns = 0 /\ switches = 0

\* The bounds are reached.
PlanExhausted == stage = "idle" /\ turns = MaxTurns /\ switches = MaxSwitches /\ UNCHANGED planVars

PlanNext ==
  \/ EnterPlan \/ CancelPlan \/ Restart \/ StartTurn
  \/ \E n \in 1..MaxBatch : \E b \in [1..n -> Calls] : AnswerCalls(b)
  \/ AnswerText \/ AnswerTooEarly \/ RemovalFails
  \/ ExitPlanMode \/ ApprovePlan \/ (\E f \in BOOLEAN : Reject(f)) \/ Sync \/ UpdatePlan
  \/ CheckOther \/ RunAllowed \/ AfterTools
  \/ \E r \in {"cancelled", "error"} : Breaks(r)
  \/ PlanExhausted

PlanSpec == PlanInit /\ [][PlanNext]_planVars

-----------------------------------------------------------------------------
(* Properties *)

FilesOK ==
  /\ mode \in {"default", "plan"} /\ plan \in {"none", "blank", "text"}
  /\ checklist \in {"none", "open", "done", "bad"} /\ reminder \in {"none", "plan", "active"}
  /\ slips \subseteq PlanSlips /\ turns \in 0 .. MaxTurns /\ switches \in 0 .. MaxSwitches

AnswerOK ==
  /\ batch \in Seq(Calls) /\ allowed \in Seq(Runs) /\ calls \subseteq Calls

ResultsOK == exited \in BOOLEAN /\ errors \in BOOLEAN

TurnOK ==
  /\ stage \in {"idle", "model", "check", "review", "sync"}
  /\ turn \in Turn
  /\ outcome \in {"none", "completed", "max_iterations", "cancelled", "error"}

\* The states the handlers of Agent pass between each other.
PlanTypeOK == FilesOK /\ AnswerOK /\ ResultsOK /\ TurnOK

Completes == stage # "idle" /\ stage' = "idle" /\ outcome' = "completed"

\* A turn outside Plan Mode in which no tool failed reports success only over a
\* checklist that was done or absent, and leaves none (_checklist_blocker).
SuccessIsDone ==
  [][Completes /\ mode = "default" /\ ~turn.failed =>
       checklist \in {"none", "done"} /\ checklist' = "none"]_planVars

\* README: an unfinished or invalid checklist prevents the agent from reporting
\* successful completion, whether or not a tool failed in between.
SuccessAlwaysDone ==
  [][Completes /\ mode = "default" => checklist \in {"none", "done"}]_planVars

\* A turn that fails, is interrupted or runs out of iterations leaves the plan
\* and the checklist for the next one, unless a removal itself failed (_stream).
FailureKeeps ==
  [][stage # "idle" /\ stage' = "idle" /\ (turn.failed \/ outcome' # "completed") =>
       UNCHANGED files \/ "unlink" \in slips']_planVars

\* Both: how a turn ends agrees with what is left of the plan and the checklist.
EndsHonestly == SuccessIsDone /\ FailureKeeps

\* The model is reminded of the mode and the checklist there is, also after a
\* restart, an approval or a rejected plan; unless, since the two last agreed, a
\* file operation failed, Esc came before the synchronisation, the checklist went
\* while planning, or another tool made or removed it (_sync_checklist_reminder).
ReminderTrue ==
  stage = "model" /\ slips = {} => reminder = Reminder(mode, checklist)

=============================================================================
