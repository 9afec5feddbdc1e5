-------------------------- MODULE ToolBatchProofs --------------------------
(***************************************************************************)
(* What decisions guarantee when a call runs, for any tasks, kinds, rules    *)
(* and bounds.  Places links the program counter to the positions of the     *)
(* batch; the other parts say of the calls that are allowed, and of the call *)
(* about which the user is asked, what their properties need.                *)
(***************************************************************************)
EXTENDS ToolBatch, FiniteSetTheorems, TLAPS

Places ==
  /\ next <= Len(batch) + 1
  /\ allowed \subseteq 1 .. next - 1
  /\ pc \in {"confirming", "asking", "reviewing"} => next <= Len(batch)
  /\ pc = "idle" => allowed = {}

Control == TypeOK /\ Places

\* Plan Mode is left by a review only, and never asks.
PlanPart ==
  /\ mode = "plan" =>
       /\ pc \notin {"asking", "confirming"}
       /\ \A p \in allowed : batch[p] \in PlanSafe
  /\ pc = "reviewing" => mode = "plan"

\* No writer was decided under a lease, and none is taken before execution.
LeasePart ==
  /\ \A p \in allowed : batch[p] \in Writers =>
       /\ ~grounds[p].busy
       /\ workspace_busy => \E q \in allowed \cap Answered : batch[q] = "SharedFork"
  /\ pc = "asking" /\ batch[next] \in Writers =>
       ~grounds[next].busy /\ ~workspace_busy
  /\ pc = "confirming" => batch[next] = "RemoveWorktree"

\* A removal allowed without the question saw a worktree neither dirty nor in
\* use, and so it stays until a fork of the batch enters it; or the preflight did
\* not see that it was dirty.
RemovalPart ==
  /\ \A p \in allowed : batch[p] = "RemoveWorktree" =>
       \/ grounds[p].asked
       \/ grounds[p].dirty /\ grounds[p].blind
       \/ /\ ~grounds[p].dirty
          /\ worktree = "dirty" \/ owner # None =>
               \E q \in allowed \cap Answered : batch[q] = "IsolatedFork"
  /\ pc = "asking" /\ batch[next] = "RemoveWorktree" =>
       \/ grounds[next].dirty /\ grounds[next].blind
       \/ ~grounds[next].dirty /\ worktree # "dirty" /\ owner = None

\* Every call that was decided is allowed or has its result, once; a call that is
\* allowed gets its result while the batch is executed.
TallyPart ==
  /\ IsFiniteSet(Answered) /\ Cardinality(Answered) = Len(answered)
  /\ running \cap Answered = {}
  /\ pc = "idle" => batch = <<>> /\ answered = <<>>
  /\ pc = "thinking" => Answered = DOMAIN batch
  /\ pc \notin {"idle", "thinking"} => Answered \cup allowed = 1 .. next - 1
  /\ pc \in {"deciding", "confirming", "asking", "reviewing"} =>
       Answered \cap allowed = {} /\ running = {}
  /\ pc = "executing" => next = Len(batch) + 1

\* The tools that were started are the first ones of those that are allowed, and
\* one that is not concurrency-safe is started when all before it have answered.
Tools == {p \in allowed : Rank(p) = 3}
Started == Answered \cup running
RowPart ==
  /\ running \subseteq Tools
  /\ \A q \in Tools \cap Started, r \in Tools \ Started : q < r
  /\ UnsafeIsBarrier

\* A kind of call that is allowed with side effects had failed once at most when
\* it was decided, and since then every failure of it is a result of the batch.
FailurePart ==
  /\ \A k \in Kinds : failures[k] <= 1 + MaxBatch
  /\ \A p \in allowed : batch[p] \notin ReadOnly =>
       failures[batch[p]] <= 1 + Cardinality(allowed \cap Answered)
  /\ pc \in {"asking", "confirming"} /\ batch[next] \notin ReadOnly =>
       failures[batch[next]] <= 1

-----------------------------------------------------------------------------
(* Results are only ever added.                                              *)

LEMMA RangeAppend ==
  ASSUME NEW S, NEW s \in Seq(S), NEW e
  PROVE  Range(Append(s, e)) = Range(s) \cup {e}
<1> DEFINE a == Append(s, e)
<1>1. Len(s) \in Nat /\ DOMAIN s = 1 .. Len(s) /\ DOMAIN a = 1 .. Len(s) + 1
  OBVIOUS
<1>2. \A i \in 1 .. Len(s) : a[i] = s[i] /\ s[i] \in S
  OBVIOUS
<1>3. a[Len(s) + 1] = e
  OBVIOUS
<1> HIDE DEF a
<1>4. ASSUME NEW x PROVE x \in Range(a) <=> x \in Range(s) \cup {e}
  <2>1. ASSUME NEW i \in 1 .. Len(s) + 1, x = a[i] PROVE x \in Range(s) \cup {e}
    <3>1. CASE i \in 1 .. Len(s)
      BY <3>1, <2>1, <1>1, <1>2 DEF Range
    <3>2. CASE i = Len(s) + 1
      BY <3>2, <2>1, <1>3
    <3> QED
      BY <3>1, <3>2, <1>1
  <2>2. ASSUME NEW i \in 1 .. Len(s), x = s[i] PROVE x \in Range(a)
    <3>1. i \in 1 .. Len(s) + 1 /\ a[i] = x
      BY <2>2, <1>1, <1>2
    <3> QED
      BY <3>1, <1>1 DEF Range
  <2>3. e \in Range(a)
    <3>1. Len(s) + 1 \in DOMAIN a
      BY <1>1
    <3> QED
      BY <3>1, <1>3 DEF Range
  <2> QED
    BY <2>1, <2>2, <2>3, <1>1 DEF Range
<1> QED
  BY <1>4 DEF a

LEMMA NewReply ==
  ASSUME NEW n \in Position, NEW b \in [1 .. n -> Kinds]
  PROVE  b \in Seq(Kinds) /\ Len(b) = n /\ n <= MaxBatch
BY BatchAssumption DEF Position

-----------------------------------------------------------------------------
(* Types and places.                                                         *)

LEMMA InitControl == Init => Control
BY BatchAssumption
  DEF Init, Control, TypeOK, Places, NoGrounds, NoFailures, Position, Grounds,
      Modes, PermissionModes, Ledger!LedgerInit

LEMMA Recording ==
  ASSUME failures \in [Kinds -> Nat], NEW k \in Kinds, NEW error \in BOOLEAN
  PROVE  Recorded(k, error) \in [Kinds -> Nat]
BY DEF Recorded, NoFailures

\* A call gets its result at once, is allowed, or is asked about.
LEMMA Deciding ==
  ASSUME Control, pc \in {"deciding", "confirming", "asking", "reviewing"},
         next <= Len(batch), UNCHANGED <<batch, running>>,
         Settle \/ Allow \/ \E q \in {"confirming", "asking", "reviewing"} : Prompt(q)
  PROVE  /\ pc' \in {"deciding", "confirming", "asking", "reviewing"}
         /\ next' \in 1 .. MaxBatch + 1 /\ allowed' \subseteq Position
         /\ running' \subseteq allowed' /\ answered' \in Seq(Position)
         /\ Places'
<1>1. next \in Position /\ next \in Nat /\ Len(batch) \in Nat
  BY BatchAssumption DEF Control, TypeOK, Position
<1>2. CASE Settle
  BY <1>1, <1>2, BatchAssumption DEF Settle, Control, TypeOK, Places, Position
<1>3. CASE Allow
  BY <1>1, <1>3, BatchAssumption DEF Allow, Control, TypeOK, Places, Position
<1>4. CASE \E q \in {"confirming", "asking", "reviewing"} : Prompt(q)
  BY <1>1, <1>4, BatchAssumption DEF Prompt, Control, TypeOK, Places, Position
<1> QED
  BY <1>2, <1>3, <1>4

\* A call that was allowed returns.
LEMMA Returning ==
  ASSUME Control, NEW p \in Position, p \in allowed, NEW error \in BOOLEAN,
         Return(p, error)
  PROVE  /\ answered' \in Seq(Position) /\ failures' \in [Kinds -> Nat]
         /\ running' \subseteq allowed' /\ batch[p] \in Kinds
<1>1. batch[p] \in Kinds
  <2>1. p \in 1 .. Len(batch) /\ Len(batch) \in Nat
    BY DEF Control, TypeOK, Places, Position
  <2> QED
    BY <2>1 DEF Control, TypeOK
<1> QED
  BY <1>1, Recording DEF Return, Control, TypeOK

LEMMA DecideOutcome ==
  ASSUME Decide
  PROVE  Settle \/ Allow \/ \E q \in {"confirming", "asking", "reviewing"} : Prompt(q)
BY DEF Decide, DecideByKind, Preflight, Check

LEMMA ControlStep == Control /\ [Next]_vars => Control'
<1> SUFFICES ASSUME Control, [Next]_vars PROVE Control'
  OBVIOUS
<1> USE BatchAssumption
<1>1. CASE StartTurn
  BY <1>1 DEF StartTurn, Control, TypeOK, Places, batchVars, taskVars, NoFailures
<1>2. CASE Reply
  <2>1. PICK n \in Position : batch' \in [1 .. n -> Kinds]
    BY <1>2 DEF Reply
  <2>2. batch' \in Seq(Kinds) /\ Len(batch') = n /\ n \in Nat
    BY <2>1, NewReply DEF Position
  <2> QED
    BY <1>2, <2>2
      DEF Reply, NewBatch, NoGrounds, Control, TypeOK, Places, policyVars,
          taskVars, Position, Grounds
<1>3. CASE EndTurn \/ GiveUp \/ RememberFails
  <2>1. /\ NoBatch /\ pc' = "idle"
        /\ UNCHANGED <<batches, failures, policyVars, taskVars>>
    BY <1>3 DEF EndTurn, GiveUp, RememberFails
  <2> QED
    BY <2>1
      DEF NoBatch, NewBatch, NoGrounds, Control, TypeOK, Places, policyVars,
          taskVars, Position, Grounds
<1>4. CASE Decide
  <2>1. grounds' \in [Position -> Grounds]
    <3>1. PICK blind \in BOOLEAN :
            grounds' = [grounds EXCEPT ![next] =
              [busy |-> workspace_busy, dirty |-> worktree = "dirty",
               blind |-> blind, asked |-> FALSE]]
      BY <1>4 DEF Decide
    <3> QED
      BY <3>1 DEF Control, TypeOK, Grounds, workspace_busy
  <2>2. UNCHANGED <<batch, running>> /\ pc = "deciding" /\ next <= Len(batch)
    BY <1>4 DEF Decide
  <2> QED
    BY <1>4, <2>1, <2>2, Deciding, DecideOutcome
      DEF Decide, Control, TypeOK, policyVars, taskVars
<1>5. CASE Confirm \/ Answer \/ AllowAlways \/ Review
  <2>1. /\ pc \in {"confirming", "asking", "reviewing"} /\ next <= Len(batch)
        /\ Settle \/ Allow
        /\ UNCHANGED <<batch, running>>
    BY <1>5 DEF Confirm, Answer, AllowAlways, Review, Control, Places
  <2>2. grounds' \in [Position -> Grounds]
    <3>1. grounds' = grounds \/ grounds' = [grounds EXCEPT ![next].asked = TRUE]
      BY <1>5 DEF Confirm, Answer, AllowAlways, Review
    <3>2. grounds \in [Position -> Grounds]
      BY DEF Control, TypeOK
    <3> QED
      BY <3>1, <3>2 DEF Grounds
  <2>3. granted' \subseteq Kinds /\ mode' \in Modes /\ permission' = permission
    <3>1. batch[next] \in Kinds
      BY <2>1 DEF Control, TypeOK
    <3> QED
      BY <1>5, <3>1
        DEF Confirm, Answer, AllowAlways, Review, Control, TypeOK, policyVars
  <2>4. UNCHANGED <<batch, batches, running, failures, taskVars>>
    BY <1>5 DEF Confirm, Answer, AllowAlways, Review
  <2> QED
    BY <2>1, <2>2, <2>3, <2>4, Deciding DEF Control, TypeOK, taskVars
<1>6. CASE BeginExecution \/ EndBatch
  BY <1>6 DEF BeginExecution, EndBatch, Control, TypeOK, Places, batchVars,
              policyVars, taskVars
<1>7. ASSUME NEW p \in Position, NEW error \in BOOLEAN, p \in allowed,
             Return(p, error), pc = "executing",
             UNCHANGED <<stage, writers, owner>>,
             worktree' \in {"absent", "clean", "dirty"}
      PROVE  Control'
  BY <1>7, Returning DEF Return, Control, TypeOK, Places, policyVars
<1>8. ASSUME NEW p \in Position, RunSkill(p) \/ RunForkFails(p) PROVE Control'
  <2>1. p \in allowed
    BY <1>8 DEF RunSkill, RunForkFails, IsNext, Group, Waiting
  <2>2. worktree' \in {"absent", "clean", "dirty"}
    BY <1>8 DEF RunSkill, RunForkFails, taskVars, Control, TypeOK
  <2> QED
    BY <1>7, <1>8, <2>1, <2>2 DEF RunSkill, RunForkFails, taskVars
<1>9. ASSUME NEW p \in Position, FinishTool(p) \/ FinishRemoval(p) PROVE Control'
  <2>1. p \in allowed
    BY <1>9 DEF FinishTool, FinishRemoval, Control, TypeOK
  <2>2. worktree' \in {"absent", "clean", "dirty"}
    BY <1>9 DEF FinishTool, FinishRemoval, taskVars, Control, TypeOK
  <2> QED
    BY <1>7, <1>9, <2>1, <2>2 DEF FinishTool, FinishRemoval, taskVars
<1>10. ASSUME NEW p \in Position, NEW t \in Task, RunFork(p, t) PROVE Control'
  <2>1. p \in allowed /\ pc = "executing" /\ Return(p, FALSE)
    BY <1>10 DEF RunFork, IsNext, Group, Waiting
  <2>2. /\ stage' \in [Task -> {"new", "running", "ready", "dropped", "delivered"}]
        /\ writers' \subseteq Task /\ owner' \in Task \cup {None}
        /\ worktree' \in {"absent", "clean", "dirty"}
    BY <1>10 DEF RunFork, Ledger!Start, Control, TypeOK
  <2> QED
    BY <2>1, <2>2, Returning DEF Return, Control, TypeOK, Places, policyVars
<1>11. ASSUME NEW p \in Position, StartTools(p) PROVE Control'
  <2>1. running' \subseteq allowed
    BY <1>11 DEF StartTools, IsNext, Row, Group, Waiting
  <2> QED
    BY <1>11, <2>1 DEF StartTools, Control, TypeOK, Places, policyVars, taskVars
<1>12. ASSUME NEW t \in Task, TaskEnds(t) PROVE Control'
  BY <1>12 DEF TaskEnds, Ledger!Finish, Control, TypeOK, Places, batchVars, policyVars
<1>13. CASE TaskEdits
  BY <1>13 DEF TaskEdits, Control, TypeOK, Places, batchVars, policyVars
<1>14. CASE Exhausted \/ UNCHANGED vars
  BY <1>14 DEF Exhausted, vars, Control, TypeOK, Places, batchVars, policyVars, taskVars
<1> QED
  BY <1>1, <1>2, <1>3, <1>4, <1>5, <1>6, <1>8, <1>9, <1>10, <1>11, <1>12,
     <1>13, <1>14
    DEF Next, BatchStep

-----------------------------------------------------------------------------
(* The parts that say what was decided.                                      *)

LEMMA SettleAnswers ==
  ASSUME Control, Settle PROVE Answered' = Answered \cup {next}
BY RangeAppend DEF Answered, Settle, Control, TypeOK

LEMMA ReturnAnswers ==
  ASSUME Control, NEW p, NEW error, Return(p, error)
  PROVE  Answered' = Answered \cup {p}
BY RangeAppend DEF Answered, Return, Control, TypeOK

\* The steps that end or begin the work on a reply leave no call allowed.
LEMMA NothingAllowed ==
  ASSUME Control, StartTurn \/ Reply \/ EndTurn \/ GiveUp \/ RememberFails
  PROVE  allowed' = {} /\ pc' \in {"idle", "thinking", "deciding"}
BY DEF StartTurn, Reply, EndTurn, GiveUp, RememberFails, NoBatch, NewBatch,
       batchVars, Control, Places

\* A running batch only adds results.
LEMMA ExecutionKeeps ==
  ASSUME Control, NEW p \in Position,
         \/ RunSkill(p) \/ RunForkFails(p) \/ \E t \in Task : RunFork(p, t)
         \/ FinishTool(p) \/ FinishRemoval(p)
  PROVE  /\ UNCHANGED <<pc, batch, allowed, grounds, mode>> /\ pc = "executing"
         /\ Answered' = Answered \cup {p} /\ p \in allowed
<1>1. PICK error \in BOOLEAN : Return(p, error)
  BY DEF RunSkill, RunForkFails, RunFork, FinishTool, FinishRemoval
<1>2. pc = "executing"
  BY DEF RunSkill, RunForkFails, RunFork, FinishTool, FinishRemoval
<1>3. p \in allowed
  <2>1. p \in Group \/ p \in running
    BY DEF RunSkill, RunForkFails, RunFork, FinishTool, FinishRemoval, IsNext
  <2> QED
    BY <2>1 DEF Group, Waiting, Control, TypeOK
<1> QED
  BY <1>1, <1>3, <1>2, ReturnAnswers DEF Return, policyVars

\* These steps do not touch the decisions.
Aside ==
  \/ BeginExecution \/ EndBatch \/ Exhausted \/ TaskEdits
  \/ \E p \in Position : StartTools(p)
  \/ \E t \in Task : TaskEnds(t)
  \/ UNCHANGED vars

LEMMA AsideKeeps ==
  ASSUME Aside
  PROVE  /\ UNCHANGED <<batch, next, allowed, answered, grounds, mode, Answered>>
         /\ pc' = pc \/ pc' \in {"executing", "thinking"}
         /\ writers' \subseteq writers /\ owner' \in {owner, None}
         /\ worktree' = worktree \/ (owner # None /\ UNCHANGED owner /\ worktree' = "dirty")
BY DEF Aside, BeginExecution, EndBatch, Exhausted, TaskEdits, StartTools,
       TaskEnds, Ledger!Finish, vars, batchVars, policyVars, taskVars, Answered

LEMMA NextCases ==
  ASSUME [Next]_vars
  PROVE  \/ StartTurn \/ Reply \/ EndTurn \/ GiveUp \/ RememberFails
         \/ Decide \/ Confirm \/ Answer \/ AllowAlways \/ Review
         \/ \E p \in Position :
              \/ RunSkill(p) \/ RunForkFails(p) \/ \E t \in Task : RunFork(p, t)
              \/ FinishTool(p) \/ FinishRemoval(p)
         \/ Aside
BY DEF Next, BatchStep, Aside

\* What holds of a call that passes the checks.
Passed(k) ==
  /\ k \in Writers => ~workspace_busy
  /\ k = "RemoveWorktree" =>
       owner = None /\ (worktree # "dirty" \/ grounds'[next].blind)

LEMMA CheckOutcome ==
  ASSUME NEW k, Check(k)
  PROVE  \/ Settle
         \/ /\ Allow /\ (k \in Writers => ~workspace_busy)
            /\ mode = "plan" => k \in PlanSafe
         \/ /\ Prompt("asking") /\ (k \in Writers => ~workspace_busy)
            /\ mode # "plan"
BY DEF Check, BusyFor, PermissionFor

LEMMA DecideCases ==
  ASSUME Control, Decide
  PROVE  LET k == batch[next] IN
         \/ Settle
         \/ Allow /\ Passed(k) /\ (mode = "plan" => k \in PlanSafe)
         \/ Prompt("asking") /\ Passed(k) /\ mode # "plan"
         \/ Prompt("confirming") /\ k = "RemoveWorktree" /\ mode # "plan"
         \/ Prompt("reviewing") /\ mode = "plan"
<1> DEFINE k == batch[next]
<1>1. PICK blind \in BOOLEAN :
        /\ Settle \/ DecideByKind(k, blind)
        /\ grounds' = [grounds EXCEPT ![next] =
             [busy |-> workspace_busy, dirty |-> worktree = "dirty",
              blind |-> blind, asked |-> FALSE]]
  BY DEF Decide
<1>0. grounds'[next].blind = blind
  <2>1. next \in Position
    BY BatchAssumption DEF Decide, Control, TypeOK, Position
  <2> QED
    BY <1>1, <2>1 DEF Control, TypeOK
<1>2. CASE k = "RemoveWorktree" /\ mode # "plan" /\ Preflight(k, blind)
  <2>1. CASE Check(k) /\ owner = None /\ ~NeedsQuestion(blind)
    BY <1>0, <1>2, <2>1, CheckOutcome DEF NeedsQuestion, Passed
  <2> QED
    BY <1>2, <2>1 DEF Preflight
<1>3. CASE Check(k) /\ (k = "RemoveWorktree" => mode = "plan")
  <2>1. "RemoveWorktree" \notin PlanSafe
    BY DEF PlanSafe, ReadOnly, Forks
  <2> QED
    BY <1>3, <2>1, CheckOutcome DEF Passed
<1> QED
  BY <1>1, <1>2, <1>3 DEF DecideByKind

\* What a decision writes down, and for which call.
LEMMA DecideWrites ==
  ASSUME Control, Decide
  PROVE  /\ UNCHANGED <<batch, mode, writers, worktree, owner>>
         /\ grounds'[next].busy = workspace_busy
         /\ grounds'[next].dirty = (worktree = "dirty")
         /\ grounds'[next].blind \in BOOLEAN
         /\ \A p \in allowed : grounds'[p] = grounds[p] /\ p # next
<1>1. next \in Position /\ next \notin allowed
  BY BatchAssumption DEF Decide, Control, TypeOK, Places, Position
<1> QED
  BY <1>1 DEF Decide, Control, TypeOK, policyVars, taskVars

\* The user's answers.
LEMMA AnswerCases ==
  ASSUME Control, Confirm \/ Answer \/ AllowAlways \/ Review
  PROVE  /\ UNCHANGED <<batch, writers, worktree, owner>> /\ pc' = "deciding"
         /\ Settle \/ Allow
         /\ \A p \in allowed : grounds'[p] = grounds[p] /\ p # next
         /\ \/ UNCHANGED <<mode, grounds>> /\ pc = "asking"
            \/ UNCHANGED mode /\ pc = "confirming" /\ (Settle \/ grounds'[next].asked)
            \/ UNCHANGED grounds /\ pc = "reviewing" /\ Settle
<1>1. next \in Position /\ next \notin allowed
  BY BatchAssumption DEF Confirm, Answer, AllowAlways, Review, Control, TypeOK, Places, Position
<1>2. CASE Confirm
  <2>1. /\ UNCHANGED <<batch, writers, worktree, owner, mode>>
        /\ pc = "confirming" /\ pc' = "deciding"
        /\ Settle \/ Allow
    BY <1>2 DEF Confirm, Settle, Allow, policyVars, taskVars
  <2>2. CASE UNCHANGED grounds /\ Settle
    BY <1>1, <2>1, <2>2
  <2>3. CASE grounds' = [grounds EXCEPT ![next].asked = TRUE]
    <3>1. grounds'[next].asked
      <4>1. grounds'[next] = [grounds[next] EXCEPT !.asked = TRUE]
        BY <1>1, <2>3 DEF Control, TypeOK
      <4>2. grounds[next] \in Grounds
        BY <1>1 DEF Control, TypeOK
      <4> QED
        BY <4>1, <4>2 DEF Grounds
    <3>2. \A p \in allowed : grounds'[p] = grounds[p] /\ p # next
      BY <1>1, <2>3 DEF Control, TypeOK
    <3> QED
      BY <2>1, <3>1, <3>2
  <2> QED
    BY <1>2, <2>2, <2>3 DEF Confirm
<1>3. CASE Answer \/ AllowAlways \/ Review
  BY <1>1, <1>3 DEF Answer, AllowAlways, Review, Settle, Allow, policyVars, taskVars
<1> QED
  BY <1>2, <1>3

-----------------------------------------------------------------------------
(* The steps of the parts.                                                   *)

LEMMA PlanStep == Control /\ PlanPart /\ [Next]_vars => PlanPart'
<1> SUFFICES ASSUME Control, PlanPart, [Next]_vars PROVE PlanPart'
  OBVIOUS
<1>1. CASE StartTurn \/ Reply \/ EndTurn \/ GiveUp \/ RememberFails
  BY <1>1, NothingAllowed DEF PlanPart
<1>2. CASE Decide
  BY <1>2, DecideCases, DecideWrites DEF PlanPart, Settle, Allow, Prompt
<1>3. CASE Confirm \/ Answer \/ AllowAlways \/ Review
  <2>1. mode = "plan" => allowed' = allowed \/ mode' # "plan"
    BY <1>3, AnswerCases DEF PlanPart, Settle
  <2>2. mode # "plan" => mode' # "plan"
    BY <1>3, AnswerCases DEF PlanPart
  <2> QED
    BY <1>3, <2>1, <2>2, AnswerCases DEF PlanPart
<1>4. ASSUME NEW p \in Position,
             \/ RunSkill(p) \/ RunForkFails(p) \/ \E t \in Task : RunFork(p, t)
             \/ FinishTool(p) \/ FinishRemoval(p)
      PROVE  PlanPart'
  BY <1>4, ExecutionKeeps DEF PlanPart
<1>5. CASE Aside
  BY <1>5, AsideKeeps DEF PlanPart
<1> QED
  BY <1>1, <1>2, <1>3, <1>4, <1>5, NextCases

LEMMA LeaseStep == Control /\ LeasePart /\ [Next]_vars => LeasePart'
<1> SUFFICES ASSUME Control, LeasePart, [Next]_vars PROVE LeasePart'
  OBVIOUS
<1>1. CASE StartTurn \/ Reply \/ EndTurn \/ GiveUp \/ RememberFails
  BY <1>1, NothingAllowed DEF LeasePart
\* A writer passes only while nobody holds the lease; other calls change
\* nothing for the writers that passed.
<1>2. CASE Decide
  <2>1. CASE Settle
    BY <1>2, <2>1, DecideWrites, SettleAnswers DEF LeasePart, Settle, workspace_busy
  <2>2. CASE Allow /\ Passed(batch[next])
    <3>1. Answered' = Answered
      BY <2>2 DEF Allow, Answered
    <3> QED
      BY <1>2, <2>2, <3>1, DecideWrites DEF LeasePart, Allow, Passed, workspace_busy
  <2>3. CASE /\ \E q \in {"asking", "confirming", "reviewing"} : Prompt(q)
             /\ pc' = "asking" => Passed(batch[next])
             /\ pc' = "confirming" => batch[next] = "RemoveWorktree"
    <3>1. Answered' = Answered
      BY <2>3 DEF Prompt, Answered
    <3> QED
      BY <1>2, <2>3, <3>1, DecideWrites DEF LeasePart, Prompt, Passed, workspace_busy
  <2> QED
    BY <1>2, <2>1, <2>2, <2>3, DecideCases DEF Prompt
<1>3. CASE Confirm \/ Answer \/ AllowAlways \/ Review
  <2>1. CASE Settle
    BY <1>3, <2>1, AnswerCases, SettleAnswers DEF LeasePart, Settle, workspace_busy
  <2>2. CASE Allow /\ ~Settle
    <3>1. Answered' = Answered
      BY <2>2 DEF Allow, Answered
    <3>2. batch[next] \in Writers => ~grounds'[next].busy /\ ~workspace_busy
      BY <1>3, <2>2, AnswerCases DEF LeasePart, Writers, FileWriters
    <3> QED
      BY <1>3, <2>2, <3>1, <3>2, AnswerCases DEF LeasePart, Allow, workspace_busy
  <2> QED
    BY <1>3, <2>1, <2>2, AnswerCases
\* Only a shared fork takes the lease, and it has answered then.
<1>4. ASSUME NEW p \in Position,
             \/ RunSkill(p) \/ RunForkFails(p) \/ \E t \in Task : RunFork(p, t)
             \/ FinishTool(p) \/ FinishRemoval(p)
      PROVE  LeasePart'
  <2>1. writers' = writers \/ batch[p] = "SharedFork"
    BY <1>4 DEF RunSkill, RunForkFails, RunFork, FinishTool, FinishRemoval, taskVars
  <2> QED
    BY <1>4, <2>1, ExecutionKeeps DEF LeasePart, workspace_busy
<1>5. CASE Aside
  BY <1>5, AsideKeeps DEF LeasePart, workspace_busy
<1> QED
  BY <1>1, <1>2, <1>3, <1>4, <1>5, NextCases

LEMMA RemovalStep == Control /\ RemovalPart /\ [Next]_vars => RemovalPart'
<1> SUFFICES ASSUME Control, RemovalPart, [Next]_vars PROVE RemovalPart'
  OBVIOUS
<1>1. CASE StartTurn \/ Reply \/ EndTurn \/ GiveUp \/ RememberFails
  BY <1>1, NothingAllowed DEF RemovalPart
<1>2. CASE Decide
  <2>1. CASE Settle
    BY <1>2, <2>1, DecideWrites, SettleAnswers DEF RemovalPart, Settle
  <2>2. CASE Allow /\ Passed(batch[next])
    <3>1. Answered' = Answered
      BY <2>2 DEF Allow, Answered
    <3> QED
      BY <1>2, <2>2, <3>1, DecideWrites DEF RemovalPart, Allow, Passed
  <2>3. CASE /\ \E q \in {"asking", "confirming", "reviewing"} : Prompt(q)
             /\ pc' = "asking" => Passed(batch[next])
    <3>1. Answered' = Answered
      BY <2>3 DEF Prompt, Answered
    <3> QED
      BY <1>2, <2>3, <3>1, DecideWrites DEF RemovalPart, Prompt, Passed
  <2> QED
    BY <1>2, <2>1, <2>2, <2>3, DecideCases DEF Prompt
<1>3. CASE Confirm \/ Answer \/ AllowAlways \/ Review
  <2>1. CASE Settle
    BY <1>3, <2>1, AnswerCases, SettleAnswers DEF RemovalPart, Settle
  <2>2. CASE Allow /\ ~Settle
    <3>1. Answered' = Answered
      BY <2>2 DEF Allow, Answered
    <3>2. batch[next] = "RemoveWorktree" =>
            \/ grounds'[next].asked
            \/ grounds'[next].dirty /\ grounds'[next].blind
            \/ ~grounds'[next].dirty /\ worktree # "dirty" /\ owner = None
      BY <1>3, <2>2, AnswerCases DEF RemovalPart
    <3> QED
      BY <1>3, <2>2, <3>1, <3>2, AnswerCases DEF RemovalPart, Allow
  <2> QED
    BY <1>3, <2>1, <2>2, AnswerCases
\* Only an isolated fork enters the worktree, and it has answered then.
<1>4. ASSUME NEW p \in Position,
             \/ RunSkill(p) \/ RunForkFails(p) \/ \E t \in Task : RunFork(p, t)
             \/ FinishTool(p) \/ FinishRemoval(p)
      PROVE  RemovalPart'
  <2>1. \/ batch[p] = "IsolatedFork"
        \/ owner' = owner /\ (worktree' = "dirty" => worktree = "dirty")
    BY <1>4 DEF RunSkill, RunForkFails, RunFork, FinishTool, FinishRemoval, taskVars
  <2> QED
    BY <1>4, <2>1, ExecutionKeeps DEF RemovalPart
<1>5. CASE Aside
  BY <1>5, AsideKeeps DEF RemovalPart
<1> QED
  BY <1>1, <1>2, <1>3, <1>4, <1>5, NextCases

LEMMA OwnerStep ==
  Control /\ ActiveWorktreeStays /\ [Next]_vars => ActiveWorktreeStays'
<1> SUFFICES ASSUME Control, ActiveWorktreeStays, [Next]_vars
             PROVE  ActiveWorktreeStays'
  OBVIOUS
<1>1. CASE UNCHANGED <<worktree, owner>>
  BY <1>1 DEF ActiveWorktreeStays
<1>2. ASSUME NEW p \in Position, NEW t \in Task, RunFork(p, t)
      PROVE  ActiveWorktreeStays'
  BY <1>2 DEF RunFork, ActiveWorktreeStays
<1>3. ASSUME NEW p \in Position, RunForkFails(p) \/ FinishRemoval(p)
      PROVE  ActiveWorktreeStays'
  BY <1>3 DEF RunForkFails, FinishRemoval, Removable, ActiveWorktreeStays
<1>4. CASE Aside
  BY <1>4, AsideKeeps DEF ActiveWorktreeStays
<1>5. CASE \/ StartTurn \/ Reply \/ EndTurn \/ GiveUp \/ RememberFails
           \/ \E p \in Position : RunSkill(p) \/ FinishTool(p)
  BY <1>1, <1>5 DEF StartTurn, Reply, EndTurn, GiveUp, RememberFails, RunSkill,
                    FinishTool, taskVars
<1>6. CASE Decide \/ Confirm \/ Answer \/ AllowAlways \/ Review
  BY <1>1, <1>6, DecideWrites, AnswerCases
<1> QED
  BY <1>2, <1>3, <1>4, <1>5, <1>6, NextCases

-----------------------------------------------------------------------------
(* Results and their order.                                                  *)

\* One more result.
LEMMA TallyAdds ==
  ASSUME Control, IsFiniteSet(Answered), Cardinality(Answered) = Len(answered),
         NEW p \in Position, p \notin Answered, answered' = Append(answered, p),
         Answered' = Answered \cup {p}
  PROVE  IsFiniteSet(Answered') /\ Cardinality(Answered') = Len(answered')
<1>1. IsFiniteSet(Answered \cup {p}) /\ Cardinality(Answered \cup {p}) = Cardinality(Answered) + 1
  BY FS_AddElement
<1>2. Len(answered') = Len(answered) + 1
  BY DEF Control, TypeOK
<1> QED
  BY <1>1, <1>2

LEMMA NoneAnswered ==
  ASSUME answered' = <<>>
  PROVE  Answered' = {} /\ IsFiniteSet(Answered') /\ Cardinality(Answered') = Len(answered')
<1>1. Answered' = {}
  BY DEF Answered, Range
<1> QED
  BY <1>1, FS_EmptySet

LEMMA TallyStep == Control /\ TallyPart /\ [Next]_vars => TallyPart'
<1> SUFFICES ASSUME Control, TallyPart, [Next]_vars PROVE TallyPart'
  OBVIOUS
<1>0. next \in Nat \ {0} /\ Len(batch) \in Nat /\ DOMAIN batch = 1 .. Len(batch)
  BY DEF Control, TypeOK
<1>1. CASE StartTurn
  <2>1. /\ UNCHANGED <<batch, answered, running, Answered>> /\ pc = "idle" /\ pc' = "thinking"
    BY <1>1 DEF StartTurn, batchVars, Answered
  <2>2. Answered = {} /\ DOMAIN batch = {}
    BY <2>1 DEF TallyPart, Answered, Range
  <2> QED
    BY <2>1, <2>2 DEF TallyPart
<1>2. CASE Reply
  BY <1>2, NoneAnswered DEF Reply, NewBatch, TallyPart
<1>3. CASE EndTurn \/ GiveUp \/ RememberFails
  BY <1>3, NoneAnswered DEF EndTurn, GiveUp, RememberFails, NoBatch, NewBatch, TallyPart
<1>4. ASSUME pc \in {"deciding", "confirming", "asking", "reviewing"}, next <= Len(batch),
             UNCHANGED <<batch, running>>,
             Settle \/ Allow \/ \E q \in {"confirming", "asking", "reviewing"} : Prompt(q)
      PROVE  TallyPart'
  <2>1. next \in Position /\ next \notin Answered /\ next \notin allowed
    BY <1>0, <1>4, BatchAssumption DEF Control, TypeOK, TallyPart, Position
  <2>2. 1 .. next = (1 .. next - 1) \cup {next}
    BY <1>0
  <2>3. CASE Settle
    <3>1. Answered' = Answered \cup {next}
      BY <2>3, SettleAnswers
    <3>2. IsFiniteSet(Answered') /\ Cardinality(Answered') = Len(answered')
      BY <2>1, <2>3, <3>1, TallyAdds DEF TallyPart, Settle
    <3>3. (Answered \cup allowed)' = 1 .. next' - 1
      <4>1. next' - 1 = next
        BY <1>0, <2>3 DEF Settle
      <4> QED
        BY <1>4, <2>2, <2>3, <3>1, <4>1 DEF TallyPart, Settle
    <3> QED
      BY <1>4, <2>1, <2>3, <3>1, <3>2, <3>3 DEF TallyPart, Settle
  <2>4. CASE Allow
    <3>1. Answered' = Answered /\ answered' = answered
      BY <2>4 DEF Allow, Answered
    <3>2. (Answered \cup allowed)' = 1 .. next' - 1
      <4>1. next' - 1 = next
        BY <1>0, <2>4 DEF Allow
      <4> QED
        BY <1>4, <2>2, <2>4, <3>1, <4>1 DEF TallyPart, Allow
    <3> QED
      BY <1>4, <2>1, <2>4, <3>1, <3>2 DEF TallyPart, Allow
  <2>5. CASE \E q \in {"confirming", "asking", "reviewing"} : Prompt(q)
    BY <1>4, <2>5 DEF TallyPart, Prompt, Answered
  <2> QED
    BY <1>4, <2>3, <2>4, <2>5
<1>5. CASE Decide
  <2>1. pc = "deciding" /\ next <= Len(batch) /\ UNCHANGED <<batch, running>>
    BY <1>5 DEF Decide
  <2> QED
    BY <1>4, <1>5, <2>1, DecideOutcome
<1>6. CASE Confirm \/ Answer \/ AllowAlways \/ Review
  <2>1. /\ pc \in {"confirming", "asking", "reviewing"} /\ next <= Len(batch)
        /\ UNCHANGED <<batch, running>> /\ (Settle \/ Allow)
    BY <1>6 DEF Confirm, Answer, AllowAlways, Review, Control, Places
  <2> QED
    BY <1>4, <2>1
<1>7. ASSUME NEW p \in Position,
             \/ RunSkill(p) \/ RunForkFails(p) \/ \E t \in Task : RunFork(p, t)
             \/ FinishTool(p) \/ FinishRemoval(p)
      PROVE  TallyPart'
  <2>1. /\ pc = "executing" /\ UNCHANGED <<pc, batch, allowed>>
        /\ Answered' = Answered \cup {p} /\ p \in allowed
    BY <1>7, ExecutionKeeps
  <2>2. p \notin Answered
    BY <1>7 DEF RunSkill, RunForkFails, RunFork, FinishTool, FinishRemoval, IsNext, Group,
                Waiting, TallyPart
  <2>3. answered' = Append(answered, p) /\ running' = running \ {p} /\ next' = next
    BY <1>7 DEF RunSkill, RunForkFails, RunFork, FinishTool, FinishRemoval, Return
  <2>4. IsFiniteSet(Answered') /\ Cardinality(Answered') = Len(answered')
    BY <2>1, <2>2, <2>3, TallyAdds DEF TallyPart
  <2> QED
    BY <2>1, <2>3, <2>4 DEF TallyPart
<1>8. CASE BeginExecution
  <2>1. /\ UNCHANGED <<batch, next, allowed, answered, running, Answered>>
        /\ pc = "deciding" /\ pc' = "executing" /\ next > Len(batch)
    BY <1>8 DEF BeginExecution, batchVars, Answered
  <2>2. next = Len(batch) + 1
    BY <1>0, <2>1 DEF Control, Places
  <2> QED
    BY <2>1, <2>2 DEF TallyPart
<1>9. CASE EndBatch
  <2>1. /\ UNCHANGED <<batch, answered, running, Answered>> /\ pc = "executing" /\ pc' = "thinking"
        /\ allowed \subseteq Answered
    BY <1>9 DEF EndBatch, Done, Waiting, batchVars, Answered
  <2>2. Answered = 1 .. Len(batch)
    <3>1. Answered \cup allowed = 1 .. next - 1 /\ next = Len(batch) + 1
      BY <2>1 DEF TallyPart
    <3>2. next - 1 = Len(batch)
      BY <1>0, <3>1
    <3> QED
      BY <2>1, <3>1, <3>2
  <2> QED
    BY <1>0, <2>1, <2>2 DEF TallyPart
<1>10. ASSUME NEW p \in Position, StartTools(p) PROVE TallyPart'
  <2>1. /\ UNCHANGED <<pc, batch, next, allowed, answered, Answered>> /\ pc = "executing"
        /\ running' \subseteq Waiting
    BY <1>10 DEF StartTools, IsNext, Row, Group, Answered
  <2> QED
    BY <2>1 DEF TallyPart, Waiting
<1>11. CASE TaskEdits \/ Exhausted \/ (\E t \in Task : TaskEnds(t)) \/ UNCHANGED vars
  <2>1. UNCHANGED <<pc, batch, next, allowed, answered, running, Answered>>
    BY <1>11 DEF TaskEdits, Exhausted, TaskEnds, vars, batchVars, Answered
  <2> QED
    BY <2>1 DEF TallyPart
<1> QED
  BY <1>1, <1>2, <1>3, <1>5, <1>6, <1>7, <1>8, <1>9, <1>10, <1>11 DEF Next, BatchStep

\* The row that starts is the first one of the tools that wait.
LEMMA RowStarts ==
  ASSUME Control, TallyPart, RowPart, NEW p \in Position, StartTools(p)
  PROVE  RowPart'
<1>0. /\ running = {} /\ running' = Row(p)
      /\ UNCHANGED <<batch, allowed, answered>> /\ Answered' = Answered
  BY DEF StartTools, Answered
<1>1. p \in Group /\ Rank(p) = 3 /\ (\A q \in Group : p <= q) /\ p \in Int
  BY DEF StartTools, IsNext, Position
<1>2. allowed \subseteq Position /\ \A q \in allowed : q \in Int
  BY DEF Control, TypeOK, Position
<1>3. \A q \in allowed : Rank(q) \in {1, 2, 3}
  BY DEF Rank
<1>4. Group = Waiting /\ \A q \in Waiting : Rank(q) = 3
  <2>1. \A q \in Waiting : Rank(p) <= Rank(q)
    BY <1>1 DEF Group
  <2>2. \A q \in Waiting : Rank(q) = 3
    <3> TAKE q \in Waiting
    <3>1. Rank(q) \in {1, 2, 3} /\ 3 <= Rank(q)
      BY <1>1, <1>3, <2>1 DEF Waiting
    <3> QED
      BY <3>1
  <2> QED
    BY <2>2 DEF Group
<1>5. Row(p) \subseteq Group /\ Row(p) \subseteq Tools
  BY <1>1, <1>4 DEF Row, Waiting, Tools
<1>6. ASSUME NEW r \in Row(p), ~Safe(r) PROVE r = p /\ Row(p) = {p}
  BY <1>1, <1>2, <1>5, <1>6 DEF Row, Tools
<1>7. ASSUME NEW q \in Row(p), NEW r \in Waiting, r \notin Row(p) PROVE q < r
  <2>1. q \in Int /\ r \in Int /\ p <= r
    BY <1>1, <1>2, <1>4, <1>5, <1>7 DEF Waiting, Tools
  <2>2. CASE ~Safe(p)
    BY <1>1, <1>7, <2>1, <2>2 DEF Row
  <2>3. CASE Safe(p)
    <3>1. PICK s \in Group : p <= s /\ s <= r /\ ~Safe(s)
      BY <1>4, <1>7, <2>3 DEF Row
    <3>2. ~(s <= q)
      BY <1>7, <2>3, <3>1 DEF Row
    <3>3. s \in Int
      BY <1>2, <1>4, <3>1 DEF Waiting
    <3> QED
      BY <2>1, <3>1, <3>2, <3>3
  <2> QED
    BY <2>2, <2>3
<1>8. \A q \in Tools \cap Answered, r \in Waiting : q < r
  BY <1>0, <1>4 DEF RowPart, Started, Tools, Waiting
<1>9. Tools' = Tools /\ (\A q \in allowed : Safe(q)' = Safe(q) /\ Rank(q)' = Rank(q))
  BY <1>0 DEF Tools, Safe, Rank
<1>10. \A q \in Tools' \cap Started', r \in Tools' \ Started' : q < r
  <2> TAKE q \in Tools' \cap Started', r \in Tools' \ Started'
  <2>1. r \in Waiting /\ r \notin Row(p) /\ q \in Tools /\ (q \in Answered \/ q \in Row(p))
    BY <1>0, <1>9 DEF Started, Waiting, Tools
  <2> QED
    BY <1>7, <1>8, <2>1
<1>11. UnsafeIsBarrier'
  <2>1. ASSUME NEW r \in Row(p), ~Safe(r)'
        PROVE  Row(p) = {r} /\ \A q \in allowed : Rank(q)' = 3 => (q \in Answered <=> q < r)
    <3>1. r = p /\ Row(p) = {p}
      BY <1>5, <1>6, <1>9, <2>1 DEF Tools
    <3>2. ASSUME NEW q \in allowed, Rank(q) = 3 PROVE q \in Answered <=> q < p
      <4>1. q \in Answered => q < p
        BY <1>1, <1>4, <1>8, <3>2 DEF Tools
      <4>2. q \notin Answered => p <= q
        BY <1>1, <1>4, <3>2 DEF Waiting
      <4> QED
        BY <1>1, <1>2, <4>1, <4>2
    <3> QED
      BY <1>9, <3>1, <3>2
  <2> QED
    BY <1>0, <2>1 DEF UnsafeIsBarrier
<1> QED
  BY <1>0, <1>5, <1>9, <1>10, <1>11 DEF RowPart

\* What returns was the next of its group, or was running.
LEMMA RowReturns ==
  ASSUME Control, TallyPart, RowPart, NEW p \in Position,
         \/ RunSkill(p) \/ RunForkFails(p) \/ \E t \in Task : RunFork(p, t)
         \/ FinishTool(p) \/ FinishRemoval(p)
  PROVE  RowPart'
<1>0. /\ UNCHANGED <<batch, allowed>> /\ running' = running \ {p}
      /\ Answered' = Answered \cup {p} /\ p \in allowed
  BY ExecutionKeeps
     DEF RunSkill, RunForkFails, RunFork, FinishTool, FinishRemoval, Return
<1>1. p \in running \/ Rank(p) # 3
  <2>1. CASE RunSkill(p)
    BY <2>1 DEF RunSkill
  <2>2. CASE RunForkFails(p) \/ \E t \in Task : RunFork(p, t)
    <3>1. IsNext(p, 2)
      BY <2>2 DEF RunForkFails, RunFork
    <3> QED
      BY <3>1 DEF IsNext
  <2>3. CASE FinishTool(p) \/ FinishRemoval(p)
    BY <2>3 DEF FinishTool, FinishRemoval
  <2> QED
    BY <2>1, <2>2, <2>3
<1>2. Tools' = Tools /\ (\A q \in allowed : Safe(q)' = Safe(q) /\ Rank(q)' = Rank(q))
  BY <1>0 DEF Tools, Safe, Rank
<1>3. Tools \cap Started' = Tools \cap Started
  BY <1>0, <1>1 DEF Tools, Started
<1>4. UnsafeIsBarrier'
  <2> SUFFICES ASSUME NEW r \in running', ~Safe(r)'
               PROVE  /\ running' = {r}
                      /\ \A q \in allowed' : Rank(q)' = 3 => (q \in Answered' <=> q < r)
    BY DEF UnsafeIsBarrier
  <2>1. r \in running /\ r # p /\ r \in allowed
    BY <1>0 DEF Control, TypeOK
  <2>2. ~Safe(r)
    BY <1>2, <2>1
  <2>3. running = {r} /\ \A q \in allowed : Rank(q) = 3 => (q \in Answered <=> q < r)
    BY <2>1, <2>2 DEF RowPart, UnsafeIsBarrier
  <2>4. Rank(p) # 3
    BY <1>1, <2>1, <2>3
  <2> QED
    BY <1>0, <1>2, <2>1, <2>3, <2>4
<1> QED
  BY <1>0, <1>2, <1>3, <1>4 DEF RowPart

LEMMA RowStep == Control /\ TallyPart /\ RowPart /\ [Next]_vars => RowPart'
<1> SUFFICES ASSUME Control, TallyPart, RowPart, [Next]_vars PROVE RowPart'
  OBVIOUS
\* Nothing runs while the batch is decided, nor before and after it.
<1>1. ASSUME running' = {}, \A q \in allowed' : q \notin Answered' PROVE RowPart'
  BY <1>1 DEF RowPart, Tools, Started, UnsafeIsBarrier
<1>2. ASSUME StartTurn \/ Reply \/ EndTurn \/ GiveUp \/ RememberFails PROVE RowPart'
  <2>1. running' = {}
    BY <1>2 DEF StartTurn, Reply, EndTurn, GiveUp, RememberFails, NoBatch, NewBatch, batchVars,
                Control, TypeOK, Places
  <2> QED
    BY <1>1, <1>2, <2>1, NothingAllowed
<1>3. ASSUME Decide \/ Confirm \/ Answer \/ AllowAlways \/ Review PROVE RowPart'
  <2>1. Control' /\ TallyPart'
    BY ControlStep, TallyStep
  <2>2. pc' \in {"deciding", "confirming", "asking", "reviewing"}
    BY <1>3, DecideOutcome, AnswerCases DEF Settle, Allow, Prompt
  <2> QED
    BY <1>1, <2>1, <2>2 DEF TallyPart
<1>4. ASSUME \/ BeginExecution \/ EndBatch \/ TaskEdits \/ Exhausted
             \/ (\E t \in Task : TaskEnds(t)) \/ UNCHANGED vars
      PROVE  RowPart'
  <2>1. UNCHANGED <<batch, allowed, answered, running, Answered>>
    BY <1>4 DEF BeginExecution, EndBatch, TaskEdits, Exhausted, TaskEnds, vars, batchVars, Answered
  <2> QED
    BY <2>1 DEF RowPart, Tools, Started, UnsafeIsBarrier, Rank, Safe
<1> QED
  BY <1>2, <1>3, <1>4, RowStarts, RowReturns DEF Next, BatchStep

-----------------------------------------------------------------------------
(* Failures that repeat.                                                     *)

LEMMA ResultsCounted ==
  ASSUME Control, NEW S \in SUBSET allowed
  PROVE  IsFiniteSet(S) /\ Cardinality(S) \in Nat /\ Cardinality(S) <= MaxBatch
<1>1. S \in SUBSET (1 .. MaxBatch)
  BY DEF Control, TypeOK, Position
<1>2. IsFiniteSet(1 .. MaxBatch) /\ Cardinality(1 .. MaxBatch) = MaxBatch
  BY FS_Interval, BatchAssumption
<1>3. IsFiniteSet(S) /\ Cardinality(S) <= MaxBatch
  BY <1>1, <1>2, FS_Subset
<1> QED
  BY <1>3, FS_CardinalityType

\* The guard lets a call with side effects through that has failed once at most.
LEMMA GuardHolds ==
  ASSUME Control, Decide, ~Settle, batch[next] \notin ReadOnly
  PROVE  failures[batch[next]] <= 1
<1>1. batch[next] \in Kinds
  BY DEF Decide, Control, TypeOK
<1>2. failures[batch[next]] \in Nat
  BY <1>1 DEF Control, TypeOK
<1>3. ~(failures[batch[next]] >= 2)
  BY DEF Decide, Guarded, MaxFailures
<1> QED
  BY <1>2, <1>3

LEMMA FailureDecided ==
  ASSUME Control, Control', TallyPart, TallyPart', FailurePart,
         pc \in {"deciding", "confirming", "asking", "reviewing"},
         pc' \in {"deciding", "confirming", "asking", "reviewing"},
         UNCHANGED <<batch, failures>>, allowed' \subseteq allowed \cup {next},
         (next \in allowed' \/ pc' \in {"asking", "confirming"})
           /\ batch[next] \notin ReadOnly => failures[batch[next]] <= 1,
         pc' \in {"asking", "confirming"} => next' = next
  PROVE  FailurePart'
<1>1. Cardinality(allowed \cap Answered) = 0 /\ Cardinality(allowed' \cap Answered') = 0
  <2>1. allowed \cap Answered = {} /\ allowed' \cap Answered' = {}
    BY DEF TallyPart
  <2> QED
    BY <2>1, FS_EmptySet
<1>2. ASSUME NEW p \in allowed', batch[p] \notin ReadOnly PROVE failures[batch[p]] <= 1
  <2>1. CASE p \in allowed
    BY <1>1, <1>2, <2>1 DEF FailurePart
  <2>2. CASE p = next
    BY <1>2, <2>2
  <2> QED
    BY <2>1, <2>2
<1>3. \A p \in allowed' : batch'[p] \notin ReadOnly =>
        failures'[batch'[p]] <= 1 + Cardinality(allowed' \cap Answered')
  BY <1>1, <1>2
<1>4. pc' \in {"asking", "confirming"} /\ batch'[next'] \notin ReadOnly =>
        failures'[batch'[next']] <= 1
  OBVIOUS
<1>5. \A k \in Kinds : failures'[k] <= 1 + MaxBatch
  BY DEF FailurePart
<1> QED
  BY <1>3, <1>4, <1>5 DEF FailurePart

\* A failure that is recorded is the result of one more call of the batch.
LEMMA FailureReturned ==
  ASSUME Control, TallyPart, FailurePart, NEW p \in Position,
         \/ RunSkill(p) \/ RunForkFails(p) \/ \E t \in Task : RunFork(p, t)
         \/ FinishTool(p) \/ FinishRemoval(p)
  PROVE  FailurePart'
<1>0. /\ UNCHANGED <<pc, batch, allowed>> /\ pc = "executing"
      /\ Answered' = Answered \cup {p} /\ p \in allowed
  BY ExecutionKeeps
<1>1. PICK error \in BOOLEAN : failures' = Recorded(batch[p], error)
  BY DEF RunSkill, RunForkFails, RunFork, FinishTool, FinishRemoval, Return
<1>2. p \notin Answered
  BY DEF RunSkill, RunForkFails, RunFork, FinishTool, FinishRemoval, IsNext, Group,
         Waiting, TallyPart
<1>3. /\ Cardinality(allowed \cap Answered) \in Nat
      /\ Cardinality(allowed' \cap Answered') = Cardinality(allowed \cap Answered) + 1
      /\ Cardinality(allowed' \cap Answered') <= MaxBatch
  <2>1. allowed' \cap Answered' = (allowed \cap Answered) \cup {p}
    BY <1>0
  <2>2. Cardinality(allowed' \cap Answered') <= MaxBatch
    BY <1>0, ResultsCounted
  <2>3. IsFiniteSet(allowed \cap Answered) /\ Cardinality(allowed \cap Answered) \in Nat
    BY ResultsCounted
  <2> QED
    BY <1>2, <2>1, <2>2, <2>3, FS_AddElement
<1>4. failures \in [Kinds -> Nat] /\ MaxBatch \in Nat /\ \A q \in allowed : batch[q] \in Kinds
  BY BatchAssumption DEF Control, TypeOK, Places
<1>5. ASSUME failures' = NoFailures PROVE FailurePart'
  BY <1>0, <1>3, <1>4, <1>5 DEF FailurePart, NoFailures
<1>6. ASSUME failures' = failures PROVE FailurePart'
  BY <1>0, <1>3, <1>4, <1>6 DEF FailurePart
<1>7. ASSUME failures' = [failures EXCEPT ![batch[p]] = @ + 1], batch[p] \notin ReadOnly
      PROVE  FailurePart'
  <2>1. failures[batch[p]] <= 1 + Cardinality(allowed \cap Answered)
    BY <1>0, <1>7 DEF FailurePart
  <2>2. failures'[batch[p]] <= 1 + Cardinality(allowed' \cap Answered')
    BY <1>0, <1>3, <1>4, <1>7, <2>1
  <2>3. failures'[batch[p]] \in Nat
    BY <1>0, <1>4, <1>7
  <2>4. \A k \in Kinds : k # batch[p] => failures'[k] = failures[k]
    BY <1>4, <1>7
  <2>5. \A k \in Kinds : failures'[k] <= 1 + MaxBatch
    <3> TAKE k \in Kinds
    <3>1. CASE k = batch[p]
      BY <1>0, <1>3, <1>4, <2>2, <2>3, <3>1
    <3>2. CASE k # batch[p]
      BY <2>4, <3>2 DEF FailurePart
    <3> QED
      BY <3>1, <3>2
  <2>6. \A q \in allowed : batch[q] \notin ReadOnly =>
          failures'[batch[q]] <= 1 + Cardinality(allowed' \cap Answered')
    <3> TAKE q \in allowed
    <3>1. CASE batch[q] = batch[p]
      BY <2>2, <3>1
    <3>2. CASE batch[q] # batch[p]
      BY <1>3, <1>4, <2>4, <3>2 DEF FailurePart
    <3> QED
      BY <3>1, <3>2
  <2> QED
    BY <1>0, <2>5, <2>6 DEF FailurePart
<1> QED
  BY <1>1, <1>5, <1>6, <1>7 DEF Recorded

LEMMA FailureStep == Control /\ TallyPart /\ FailurePart /\ [Next]_vars => FailurePart'
<1> SUFFICES ASSUME Control, TallyPart, FailurePart, [Next]_vars PROVE FailurePart'
  OBVIOUS
<1>0. Control' /\ TallyPart'
  BY ControlStep, TallyStep
<1>1. ASSUME StartTurn \/ Reply \/ EndTurn \/ GiveUp \/ RememberFails PROVE FailurePart'
  <2>1. \A k \in Kinds : failures'[k] <= 1 + MaxBatch
    <3>1. failures' = failures \/ failures' = NoFailures
      BY <1>1 DEF StartTurn, Reply, EndTurn, GiveUp, RememberFails
    <3> QED
      BY <3>1, BatchAssumption DEF FailurePart, NoFailures
  <2> QED
    BY <1>1, <2>1, NothingAllowed DEF FailurePart
<1>2. CASE Decide
  <2>1. /\ UNCHANGED <<batch, failures>> /\ pc = "deciding"
        /\ pc' \in {"deciding", "confirming", "asking", "reviewing"}
        /\ allowed' \subseteq allowed \cup {next}
        /\ pc' \in {"asking", "confirming"} => next' = next
    BY <1>2, DecideOutcome DEF Decide, Settle, Allow, Prompt
  <2>2. next \in allowed' \/ pc' \in {"asking", "confirming"} => ~Settle
    <3>1. next \notin allowed
      BY DEF Control, TypeOK, Places
    <3> QED
      BY <3>1 DEF Settle
  <2> QED
    BY <1>0, <1>2, <2>1, <2>2, GuardHolds, FailureDecided
<1>3. CASE Confirm \/ Answer \/ AllowAlways \/ Review
  <2>1. /\ UNCHANGED <<batch, failures>> /\ pc \in {"confirming", "asking", "reviewing"}
        /\ pc' = "deciding" /\ (Settle \/ Allow) /\ (pc = "reviewing" => Settle)
    BY <1>3 DEF Confirm, Answer, AllowAlways, Review, Settle, Allow
  <2>2. next \notin allowed
    BY DEF Control, TypeOK, Places
  <2>3. next \in allowed' /\ batch[next] \notin ReadOnly => failures[batch[next]] <= 1
    BY <2>1, <2>2 DEF Settle, FailurePart
  <2>4. allowed' \subseteq allowed \cup {next}
    BY <2>1 DEF Settle, Allow
  <2> QED
    BY <1>0, <2>1, <2>3, <2>4, FailureDecided
<1>4. ASSUME \/ BeginExecution \/ EndBatch \/ TaskEdits \/ Exhausted
             \/ (\E t \in Task : TaskEnds(t)) \/ (\E p \in Position : StartTools(p))
             \/ UNCHANGED vars
      PROVE  FailurePart'
  <2>1. /\ UNCHANGED <<batch, next, allowed, Answered, failures>>
        /\ pc' = pc \/ pc' \in {"executing", "thinking"}
    BY <1>4 DEF BeginExecution, EndBatch, TaskEdits, Exhausted, TaskEnds, StartTools, vars,
                batchVars, Answered
  <2> QED
    BY <2>1 DEF FailurePart
<1> QED
  BY <1>1, <1>2, <1>3, <1>4, FailureReturned DEF Next, BatchStep

-----------------------------------------------------------------------------
(* The theorems.                                                             *)

LEMMA InitParts ==
  Init => Control /\ PlanPart /\ LeasePart /\ RemovalPart /\ ActiveWorktreeStays
BY InitControl DEF Init, PlanPart, LeasePart, RemovalPart, ActiveWorktreeStays

LEMMA AlwaysParts ==
  Spec => [](Control /\ PlanPart /\ LeasePart /\ RemovalPart /\ ActiveWorktreeStays)
<1> DEFINE Parts ==
      Control /\ PlanPart /\ LeasePart /\ RemovalPart /\ ActiveWorktreeStays
<1>1. Init => Parts
  BY InitParts
<1>2. Parts /\ [Next]_vars => Parts'
  BY ControlStep, PlanStep, LeaseStep, RemovalStep, OwnerStep
<1> QED
  BY <1>1, <1>2, PTL DEF Spec

LEMMA InitResults == Init => TallyPart /\ RowPart /\ FailurePart
<1> SUFFICES ASSUME Init PROVE TallyPart /\ RowPart /\ FailurePart
  OBVIOUS
<1>1. Answered = {} /\ IsFiniteSet(Answered) /\ Cardinality(Answered) = 0
  BY FS_EmptySet DEF Init, Answered, Range
<1>2. TallyPart
  BY <1>1 DEF Init, TallyPart
<1>3. RowPart
  BY DEF Init, RowPart, Tools, UnsafeIsBarrier
<1>4. FailurePart
  BY BatchAssumption DEF Init, FailurePart, NoFailures
<1> QED
  BY <1>2, <1>3, <1>4

LEMMA AlwaysResults == Spec => [](Control /\ TallyPart /\ RowPart /\ FailurePart)
<1> DEFINE Parts == Control /\ TallyPart /\ RowPart /\ FailurePart
<1>1. Init => Parts
  BY InitControl, InitResults
<1>2. Parts /\ [Next]_vars => Parts'
  BY ControlStep, TallyStep, RowStep, FailureStep
<1> QED
  BY <1>1, <1>2, PTL DEF Spec

\* Type correctness of the batch: every step keeps each variable in its range,
\* and of the calls of core/agent.py _execute_tools only allowed ones run.
THEOREM BatchTypeCorrect == Spec => []TypeOK
<1>1. Control => TypeOK
  BY DEF Control
<1> QED
  BY <1>1, AlwaysParts, PTL

\* Whatever was allowed always and whatever the permission mode is, no tool of
\* the parent that may change business files runs in Plan Mode: the review ends
\* Plan Mode, and nothing turns it on while a batch runs (checker.py check).
THEOREM PlanIsEnforced == Spec => []PlanStopsTools
<1>1. Control /\ PlanPart => PlanStopsTools
  BY DEF Control, TypeOK, PlanPart, PlanStopsTools
<1> QED
  BY <1>1, AlwaysParts, PTL

\* A parent's write that runs under a lease was decided without it, and the
\* fork that took it since is of the same batch (core/agent.py _execute_tools).
THEOREM LeaseIsRespected == Spec => []LeaseRespected
<1>1. Control /\ LeasePart => LeaseRespected
  BY DEF Control, TypeOK, LeasePart, LeaseRespected
<1> QED
  BY <1>1, AlwaysParts, PTL

\* RemoveWorktree never removes the worktree of a running task, whenever the
\* task started (worktree.py remove).
THEOREM ActiveWorktreeIsKept == Spec => []ActiveWorktreeStays
<1> QED
  BY AlwaysParts, PTL

\* Removing a dirty worktree was confirmed, or the preflight called it clean (a
\* session with an error, or a git status that failed), or it was clean when this was
\* decided and a fork of the same batch worked in it (worktree.py remove, _status).
THEOREM DirtyRemovalIsAsked == Spec => DirtyRemovalAsked
<1>1. Control /\ RemovalPart /\ [Next]_vars =>
        [\A p \in running :
           (batch[p] = "RemoveWorktree" /\ worktree = "dirty" /\ worktree' = "absent")
           => \/ grounds[p].asked
              \/ grounds[p].dirty /\ grounds[p].blind
              \/ /\ ~grounds[p].dirty
                 /\ \E q \in allowed \cap Answered : batch[q] = "IsolatedFork"]_vars
  BY DEF Control, TypeOK, RemovalPart
<1> QED
  BY <1>1, AlwaysParts, PTL DEF Spec, DirtyRemovalAsked

\* Both together: which worktrees RemoveWorktree may take (worktree.py remove).
THEOREM RemovalIsSafe == Spec => RemovalSafe
<1> QED
  BY ActiveWorktreeIsKept, DirtyRemovalIsAsked, PTL DEF RemovalSafe

\* When the parent goes on with the results of a batch, each of its calls has
\* exactly one, however the calls were decided and grouped (core/agent.py
\* _execute_tools looks the results up by call id).
THEOREM BatchIsAnswered == Spec => []AnsweredInFull
<1>1. Control /\ TallyPart => AnsweredInFull
  <2> SUFFICES ASSUME Control, TallyPart, pc = "thinking"
               PROVE  Len(answered) = Len(batch) /\ Answered = DOMAIN batch
    BY DEF AnsweredInFull
  <2>1. Answered = 1 .. Len(batch) /\ Len(batch) \in Nat
    BY DEF Control, TypeOK, TallyPart
  <2>2. Cardinality(1 .. Len(batch)) = Len(batch)
    BY <2>1, FS_Interval
  <2> QED
    BY <2>1, <2>2 DEF TallyPart
<1> QED
  BY <1>1, AlwaysResults, PTL

\* A tool that is not concurrency-safe runs alone, after every earlier tool of
\* its batch and before every later one (tools/tool.py execute_many).
THEOREM UnsafeToolsAreBarriers == Spec => []UnsafeIsBarrier
<1>1. RowPart => UnsafeIsBarrier
  BY DEF RowPart
<1> QED
  BY <1>1, AlwaysResults, PTL

\* A call with side effects that keeps failing is stopped: its failures never
\* exceed the one it may have when a batch is decided and those of one batch
\* (core/agent.py _tool_loop_guard_result).
THEOREM RepeatedFailuresAreBounded == Spec => []FailuresBounded
<1>1. FailurePart => FailuresBounded
  BY BatchAssumption DEF FailurePart, FailuresBounded, MaxFailures
<1> QED
  BY <1>1, AlwaysResults, PTL
=============================================================================
