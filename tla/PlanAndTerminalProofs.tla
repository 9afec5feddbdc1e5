----------------------- MODULE PlanAndTerminalProofs -----------------------
(***************************************************************************)
(* Plan Mode at its two ends: what the agent guarantees about the mode, the *)
(* plan and the checklist however long a turn is (PlanMode), and what the   *)
(* screen, the pipes and the backend guarantee of every request, question   *)
(* and switch of the mode (Terminal).                                       *)
(***************************************************************************)
EXTENDS PlanMode, Terminal, SequenceTheorems, TLAPS

-----------------------------------------------------------------------------
(* The agent: types.                                                        *)

LEMMA InitTypes == PlanInit => PlanTypeOK
<1> SUFFICES ASSUME PlanInit PROVE PlanTypeOK
  OBVIOUS
<1>1. FilesOK
  BY PlanModeAssumption DEF PlanInit, FilesOK, Reminder
<1>2. AnswerOK
  BY DEF PlanInit, AnswerOK
<1>3. ResultsOK
  BY DEF PlanInit, ResultsOK
<1>4. TurnOK
  BY PlanModeAssumption DEF PlanInit, TurnOK, Turn, NewTurn
<1> QED
  BY <1>1, <1>2, <1>3, <1>4 DEF PlanTypeOK

LEMMA FilesStep == PlanTypeOK /\ [PlanNext]_planVars => FilesOK'
<1> SUFFICES ASSUME PlanTypeOK, [PlanNext]_planVars PROVE FilesOK'
  OBVIOUS
<1> USE PlanModeAssumption DEF PlanTypeOK, FilesOK
<1>1. ASSUME EnterPlan \/ CancelPlan PROVE FilesOK'
  <2>1. switches' \in 0 .. MaxSwitches /\ turns' = turns
    BY <1>1 DEF EnterPlan, CancelPlan
  <2>2. slips' \subseteq PlanSlips
    BY <1>1 DEF EnterPlan, CancelPlan, RemovalBreaks, PlanSlips
  <2> QED
    BY <1>1, <2>1, <2>2 DEF EnterPlan, CancelPlan, RemovalBreaks
<1>2. ASSUME Restart \/ StartTurn PROVE FilesOK'
  BY <1>2 DEF Restart, StartTurn, Reminder, files
<1>3. ASSUME AnswerText \/ RemovalFails \/ \E r \in {"cancelled", "error"} : Breaks(r)
      PROVE  FilesOK'
  BY <1>3 DEF AnswerText, RemovalFails, Breaks, SlipsOfRemoval, files, PlanSlips
<1>4. ASSUME Sync \/ UpdatePlan PROVE FilesOK'
  BY <1>4 DEF Sync, UpdatePlan, SlipsOfRemoval, Reminder, files, PlanSlips
<1>5. ASSUME RunAllowed \/ ApprovePlan PROVE FilesOK'
  BY <1>5 DEF RunAllowed, ApprovePlan, files, PlanSlips
<1>6. ASSUME \/ \E n \in 1 .. MaxBatch : \E b \in [1 .. n -> Calls] : AnswerCalls(b)
             \/ AnswerTooEarly \/ ExitPlanMode \/ (\E f \in BOOLEAN : Reject(f))
             \/ CheckOther \/ AfterTools \/ UNCHANGED planVars
      PROVE  FilesOK'
  BY <1>6 DEF AnswerCalls, AnswerTooEarly, ExitPlanMode, Reject, CheckOther, AfterTools,
              planVars, files
<1> QED
  BY <1>1, <1>2, <1>3, <1>4, <1>5, <1>6 DEF PlanNext, PlanExhausted

LEMMA AnswerStep == PlanTypeOK /\ [PlanNext]_planVars => AnswerOK'
<1> SUFFICES ASSUME PlanTypeOK, [PlanNext]_planVars PROVE AnswerOK'
  OBVIOUS
<1>0. AnswerOK
  BY DEF PlanTypeOK
<1>1. ASSUME NEW n \in 1 .. MaxBatch, NEW b \in [1 .. n -> Calls], AnswerCalls(b)
      PROVE  AnswerOK'
  <2>1. b \in Seq(Calls) /\ ToSet(b) \subseteq Calls
    BY PlanModeAssumption DEF ToSet
  <2> QED
    BY <1>1, <2>1 DEF AnswerCalls, AnswerOK
<1>2. ASSUME Restart \/ \E r \in {"completed", "max_iterations", "cancelled", "error"} : Ends(r)
      PROVE  AnswerOK'
  <2>1. batch' = <<>> /\ allowed' = <<>> /\ calls' = {}
    BY <1>2 DEF Restart, Ends
  <2> QED
    BY <2>1 DEF AnswerOK
<1>3. ASSUME Checking, Checked, calls' = calls,
             \/ allowed' = allowed
             \/ \E c \in Runs : allowed' = Append(allowed, c)
      PROVE  AnswerOK'
  BY <1>0, <1>3 DEF Checking, Checked, AnswerOK
<1>4. ASSUME ExitPlanMode \/ UpdatePlan \/ CheckOther PROVE AnswerOK'
  BY <1>3, <1>4 DEF ExitPlanMode, UpdatePlan, CheckOther, Runs
<1>5. CASE RunAllowed
  BY <1>0, <1>5 DEF RunAllowed, AnswerOK
<1>6. ASSUME UNCHANGED <<batch, allowed, calls>> PROVE AnswerOK'
  BY <1>0, <1>6 DEF AnswerOK
<1>7. ASSUME EnterPlan \/ CancelPlan \/ StartTurn \/ ApprovePlan \/ Sync
             \/ (\E f \in BOOLEAN : Reject(f)) \/ UNCHANGED planVars
      PROVE  AnswerOK'
  BY <1>6, <1>7 DEF EnterPlan, CancelPlan, StartTurn, ApprovePlan, Sync, Reject, planVars, answer
<1>8. ASSUME AnswerText \/ AnswerTooEarly \/ RemovalFails \/ AfterTools
             \/ \E r \in {"cancelled", "error"} : Breaks(r)
      PROVE  AnswerOK'
  BY <1>2, <1>6, <1>8
    DEF AnswerText, AnswerTooEarly, NextIteration, RemovalFails, AfterTools, Breaks, answer
<1> QED
  BY <1>1, <1>2, <1>4, <1>5, <1>7, <1>8 DEF PlanNext, PlanExhausted

LEMMA ResultsStep == PlanTypeOK /\ [PlanNext]_planVars => ResultsOK'
BY DEF PlanTypeOK, ResultsOK, PlanNext, PlanExhausted, planVars, answer, results, EnterPlan,
     CancelPlan,
   Restart, StartTurn, AnswerCalls, AnswerText, AnswerTooEarly, NextIteration,
   RemovalFails, ExitPlanMode, ApprovePlan, Reject, Sync, UpdatePlan, CheckOther, RunAllowed,
   AfterTools, Breaks, Ends

\* A turn is judged after every batch, and every iteration but the last is counted.
LEMMA Judging ==
  ASSUME TurnOK
  PROVE  Judged \in Turn /\ Judged.iteration = turn.iteration
BY DEF TurnOK, Turn, Judged

LEMMA Counting ==
  ASSUME NEW t \in Turn, t.iteration # MaxIterations
  PROVE  [t EXCEPT !.iteration = @ + 1] \in Turn
BY PlanModeAssumption DEF Turn

LEMMA TurnStep == PlanTypeOK /\ [PlanNext]_planVars => TurnOK'
<1> SUFFICES ASSUME PlanTypeOK, [PlanNext]_planVars PROVE TurnOK'
  OBVIOUS
<1>0. TurnOK /\ NewTurn \in Turn
  BY PlanModeAssumption DEF PlanTypeOK, NewTurn, Turn
<1>1. ASSUME EnterPlan \/ CancelPlan \/ Restart \/ StartTurn PROVE TurnOK'
  BY <1>0, <1>1 DEF EnterPlan, CancelPlan, Restart, StartTurn, TurnOK
<1>2. CASE AnswerTooEarly
  BY <1>0, <1>2, Counting DEF AnswerTooEarly, NextIteration, Ends, TurnOK
<1>3. CASE AfterTools
  BY <1>0, <1>3, Judging, Counting DEF AfterTools, Ends, TurnOK
<1>4. ASSUME AnswerText \/ RemovalFails \/ \E r \in {"cancelled", "error"} : Breaks(r)
      PROVE  TurnOK'
  BY <1>0, <1>4 DEF AnswerText, RemovalFails, Breaks, Ends, TurnOK
<1>5. ASSUME \/ \E n \in 1 .. MaxBatch : \E b \in [1 .. n -> Calls] : AnswerCalls(b)
             \/ ExitPlanMode \/ ApprovePlan \/ (\E f \in BOOLEAN : Reject(f)) \/ Sync
             \/ UpdatePlan \/ CheckOther \/ RunAllowed \/ UNCHANGED planVars
      PROVE  TurnOK'
  BY <1>0, <1>5
    DEF AnswerCalls, ExitPlanMode, ApprovePlan, Reject, Sync, UpdatePlan, CheckOther,
        RunAllowed, planVars, TurnOK
<1> QED
  BY <1>1, <1>2, <1>3, <1>4, <1>5 DEF PlanNext, PlanExhausted

LEMMA TypesStep == PlanTypeOK /\ [PlanNext]_planVars => PlanTypeOK'
BY FilesStep, AnswerStep, ResultsStep, TurnStep DEF PlanTypeOK

\* The types hold in every state of a turn and between turns.
THEOREM PlanModeTypeCorrect == PlanSpec => []PlanTypeOK
BY InitTypes, TypesStep, PTL DEF PlanSpec

-----------------------------------------------------------------------------
(* The reminder.                                                             *)

\* Between two steps of the loop the reminder is the one for the mode and the
\* checklist, also while calls are checked and a plan is reviewed; only the
\* step from an approval or an update to its synchronisation is excepted.
Reminded == slips = {} /\ stage # "sync" => reminder = Reminder(mode, checklist)

LEMMA InitReminded == PlanInit => Reminded
BY DEF PlanInit, Reminded

LEMMA RemindedStep == PlanTypeOK /\ Reminded /\ [PlanNext]_planVars => Reminded'
<1> SUFFICES ASSUME PlanTypeOK, Reminded, [PlanNext]_planVars PROVE Reminded'
  OBVIOUS
<1> USE DEF Reminded, Reminder, SlipsOfRemoval
<1>1. ASSUME EnterPlan \/ CancelPlan \/ Restart \/ StartTurn PROVE Reminded'
  BY <1>1 DEF EnterPlan, CancelPlan, Restart, StartTurn, RemovalBreaks, files
<1>2. ASSUME AnswerText \/ AnswerTooEarly \/ RemovalFails PROVE Reminded'
  BY <1>2 DEF AnswerText, AnswerTooEarly, NextIteration, RemovalFails, Ends, files
<1>3. ASSUME \/ \E n \in 1 .. MaxBatch : \E b \in [1 .. n -> Calls] : AnswerCalls(b)
             \/ ExitPlanMode \/ ApprovePlan \/ (\E f \in BOOLEAN : Reject(f)) \/ Sync
      PROVE  Reminded'
  BY <1>3 DEF AnswerCalls, ExitPlanMode, Checking, ApprovePlan, Reject, Sync, files
<1>4. CASE UpdatePlan
  BY <1>4 DEF UpdatePlan, Checking
<1>5. ASSUME CheckOther \/ RunAllowed \/ AfterTools PROVE Reminded'
  BY <1>5 DEF CheckOther, Checking, RunAllowed, AfterTools, Ends, files
<1>6. ASSUME NEW r \in {"cancelled", "error"}, Breaks(r) PROVE Reminded'
  BY <1>6 DEF Breaks, Ends, files
<1>7. CASE UNCHANGED planVars
  BY <1>7 DEF planVars, files
<1> QED
  BY <1>1, <1>2, <1>3, <1>4, <1>5, <1>6, <1>7 DEF PlanNext, PlanExhausted

\* Whenever the model is asked, it is reminded of the mode and the checklist
\* there is, if since the two last agreed no file operation failed, no interrupt
\* came between an approval or an update and the synchronisation, and neither a
\* removal while planning nor another tool took or made the checklist.
THEOREM ReminderIsTrue == PlanSpec => []ReminderTrue
<1>1. Reminded => ReminderTrue
  BY DEF Reminded, ReminderTrue
<1> QED
  BY <1>1, InitTypes, TypesStep, InitReminded, RemindedStep, PTL DEF PlanSpec

-----------------------------------------------------------------------------
(* How a turn ends.                                                          *)

\* What a step does that ends a turn: it leaves the files alone, a removal was
\* tried and failed, or it was the answer that completes the turn.
LEMMA TurnEnds ==
  ASSUME PlanTypeOK, [PlanNext]_planVars, stage # "idle", stage' = "idle"
  PROVE  \/ outcome' # "completed" /\ (UNCHANGED files \/ "unlink" \in slips')
         \/ AnswerText
<1>1. CASE RemovalFails
  BY <1>1 DEF RemovalFails, Ends
<1>2. ASSUME Restart \/ AnswerTooEarly \/ AfterTools
             \/ \E r \in {"cancelled", "error"} : Breaks(r)
      PROVE  outcome' # "completed" /\ UNCHANGED files
  BY <1>2 DEF Restart, AnswerTooEarly, NextIteration, AfterTools, Breaks, Ends
<1>3. ASSUME EnterPlan \/ CancelPlan \/ StartTurn \/ UNCHANGED planVars PROVE FALSE
  BY <1>3 DEF EnterPlan, CancelPlan, StartTurn, planVars
<1>4. ASSUME \/ \E n \in 1 .. MaxBatch : \E b \in [1 .. n -> Calls] : AnswerCalls(b)
             \/ ExitPlanMode \/ ApprovePlan \/ (\E f \in BOOLEAN : Reject(f)) \/ Sync
             \/ UpdatePlan \/ CheckOther \/ RunAllowed
      PROVE  FALSE
  BY <1>4 DEF AnswerCalls, ExitPlanMode, Checking, ApprovePlan, Reject, Sync, UpdatePlan,
              CheckOther, RunAllowed
<1> QED
  BY <1>1, <1>2, <1>3, <1>4 DEF PlanNext, PlanExhausted

\* A turn reports success outside Plan Mode and without a failed tool only over
\* a checklist that is done or absent, and removes it.
THEOREM SuccessIsHonest == PlanSpec => SuccessIsDone
<1>1. PlanTypeOK /\ [PlanNext]_planVars =>
        [Completes /\ mode = "default" /\ ~turn.failed =>
           checklist \in {"none", "done"} /\ checklist' = "none"]_planVars
  <2> SUFFICES ASSUME PlanTypeOK, [PlanNext]_planVars, Completes, mode = "default", ~turn.failed
               PROVE  checklist \in {"none", "done"} /\ checklist' = "none"
    OBVIOUS
  <2>1. AnswerText
    BY TurnEnds DEF Completes
  <2> QED
    BY <2>1 DEF AnswerText, Blocks, Succeeded, PlanTypeOK, FilesOK
<1> QED
  BY <1>1, InitTypes, TypesStep, PTL DEF PlanSpec, SuccessIsDone

\* A turn in which a tool failed, or that is interrupted, fails or runs out of
\* iterations, leaves plan and checklist unless their removal itself failed.
THEOREM FailureIsKept == PlanSpec => FailureKeeps
<1>1. PlanTypeOK /\ [PlanNext]_planVars =>
        [stage # "idle" /\ stage' = "idle" /\ (turn.failed \/ outcome' # "completed") =>
           UNCHANGED files \/ "unlink" \in slips']_planVars
  <2> SUFFICES ASSUME PlanTypeOK, [PlanNext]_planVars, stage # "idle", stage' = "idle",
                      turn.failed \/ outcome' # "completed"
               PROVE  UNCHANGED files \/ "unlink" \in slips'
    OBVIOUS
  <2>1. CASE AnswerText
    <3>1. turn.failed
      BY <2>1 DEF AnswerText, Ends
    <3> QED
      BY <2>1, <3>1 DEF AnswerText, Succeeded, files
  <2> QED
    BY <2>1, TurnEnds
<1> QED
  BY <1>1, InitTypes, TypesStep, PTL DEF PlanSpec, FailureKeeps

\* Both, in the form the run checks.
THEOREM TurnsEndHonestly == PlanSpec => EndsHonestly
BY SuccessIsHonest, FailureIsKept DEF EndsHonestly

-----------------------------------------------------------------------------
(* The screen: lines in a pipe.                                              *)

\* A line is written behind the others.
LEMMA Written ==
  ASSUME NEW S, NEW s \in Seq(S), NEW e \in S
  PROVE  /\ Append(s, e) \in Seq(S) /\ Append(s, e) # <<>>
         /\ Len(s) \in Nat /\ Len(Append(s, e)) = Len(s) + 1
         /\ Append(s, e)[Len(s) + 1] = e
         /\ \A i \in DOMAIN s : Append(s, e)[i] = s[i] /\ i <= Len(s)
         /\ \A i \in DOMAIN Append(s, e) : i \in DOMAIN s \/ i = Len(s) + 1
OBVIOUS

\* The first line is read.
LEMMA Taken ==
  ASSUME NEW S, NEW s \in Seq(S), s # <<>>
  PROVE  /\ Head(s) \in S /\ Head(s) = s[1] /\ 1 \in DOMAIN s
         /\ Tail(s) \in Seq(S) /\ Len(s) \in Nat /\ Len(Tail(s)) = Len(s) - 1
         /\ \A i \in DOMAIN Tail(s) : i + 1 \in DOMAIN s /\ Tail(s)[i] = s[i + 1] /\ i + 1 # 1
         /\ Len(s) = 1 => Tail(s) = <<>>
<1>1. /\ Head(s) \in S /\ Head(s) = s[1] /\ Tail(s) \in Seq(S)
      /\ Len(s) \in Nat \ {0} /\ Len(Tail(s)) = Len(s) - 1
      /\ DOMAIN s = 1 .. Len(s) /\ DOMAIN Tail(s) = 1 .. Len(Tail(s))
      /\ \A i \in 1 .. Len(Tail(s)) : Tail(s)[i] = s[i + 1]
  OBVIOUS
<1>2. Len(Tail(s)) = 0 => Tail(s) = <<>>
  BY <1>1, EmptySeq
<1>3. \A i \in DOMAIN Tail(s) : i + 1 \in DOMAIN s /\ Tail(s)[i] = s[i + 1] /\ i + 1 # 1
  BY <1>1
<1> QED
  BY <1>1, <1>2, <1>3

LEMMA WrittenTwice ==
  ASSUME NEW S, NEW s \in Seq(S), NEW a \in S, NEW b \in S
  PROVE  s \o <<a, b>> = Append(Append(s, a), b)
OBVIOUS

LEMMA Two ==
  ASSUME NEW a, NEW b
  PROVE  /\ Len(<<a, b>>) = 2 /\ DOMAIN <<a, b>> = {1, 2}
         /\ <<a, b>>[1] = a /\ <<a, b>>[2] = b
OBVIOUS

LEMMA IntoEmpty ==
  ASSUME NEW a, NEW b
  PROVE  /\ Append(<<>>, a) = <<a>> /\ <<>> \o <<a>> = <<a>>
         /\ <<>> \o <<a, b>> = <<a, b>>
OBVIOUS

LEMMA Single ==
  ASSUME NEW e, NEW s, s = <<e>>
  PROVE  s # <<>> /\ Head(s) = e /\ Tail(s) = <<>> /\ Len(s) = 1 /\ DOMAIN s = {1} /\ s[1] = e
OBVIOUS

-----------------------------------------------------------------------------
(* The screen: types.                                                        *)

QueueLines == Events \cup [kind : {"end"}, op : Nat, ask : Nat]

LEMMA TerminalInitTypes == Init => TypeOK
<1> SUFFICES ASSUME Init PROVE TypeOK
  OBVIOUS
<1>1. ScreenOK
  BY DEF Init, ScreenOK, NoPanel, Modes, Questions
<1>2. PipesOK
  BY DEF Init, PipesOK
<1>3. BackendOK
  BY DEF Init, BackendOK, Modes, Stands
<1>4. BoundsOK
  BY TerminalAssumption DEF Init, BoundsOK
<1> QED
  BY <1>1, <1>2, <1>3, <1>4 DEF TypeOK

LEMMA ScreenStep == TypeOK /\ [Next]_vars => ScreenOK'
<1> SUFFICES ASSUME TypeOK, [Next]_vars PROVE ScreenOK'
  OBVIOUS
<1>0. ScreenOK /\ PipesOK /\ ops \in Nat
  BY TerminalAssumption DEF TypeOK, BoundsOK
<1>1. ASSUME NEW k \in {"prompt", "switch"}, Send(k) PROVE ScreenOK'
  BY <1>0, <1>1 DEF Send, ScreenOK
<1>2. CASE TogglePlan
  BY <1>0, <1>2 DEF TogglePlan, thread, ScreenOK, Modes, Other
<1>3. CASE Interrupt
  BY <1>0, <1>3 DEF Interrupt, thread, bounds, ScreenOK
<1>4. CASE Answers
  <2>1. NoPanel \in [kind : Questions \cup {"none"}, op : Nat, ask : Nat]
    BY DEF NoPanel
  <2>2. /\ panel' = NoPanel /\ UNCHANGED <<op, interrupting, reader, ops>>
        /\ screenMode' \in {screenMode, "default"}
    BY <1>4 DEF Answers, AnswerPermission, AnswerReview, thread, bounds
  <2> QED
    BY <1>0, <2>1, <2>2 DEF ScreenOK, Modes
<1>5. CASE ConsumeEvents
  <2>1. Head(queue) \in QueueLines
    BY <1>0, <1>5, Taken DEF ConsumeEvents, PipesOK, QueueLines
  <2>2. Shown(Head(queue)) \in [kind : Questions \cup {"none"}, op : Nat, ask : Nat]
    BY <1>0, <2>1 DEF Shown, ScreenOK, QueueLines, Events, Questions, NoPanel
  <2> QED
    BY <1>0, <1>5, <2>2 DEF ConsumeEvents, bounds, ScreenOK, Modes
<1>6. CASE Reads
  BY <1>0, <1>6 DEF Reads, ReaderWrites, ReaderReads, ReaderEnds, tui, bounds, ScreenOK
<1>7. CASE Serves
  BY <1>0, <1>7 DEF Serves, ReadLine, AskPermission, WritePlan, ReviewPlan, ReadAnswer, Approve,
       Complete, EndSilently, Raise, Report, Return, tui, thread, bounds, ScreenOK
<1>8. CASE UNCHANGED vars
  BY <1>0, <1>8 DEF vars, tui, thread, bounds, ScreenOK
<1>9. CASE BreakPipe
  BY <1>0, <1>9 DEF BreakPipe, NoPanel, ScreenOK
<1> QED
  BY <1>1, <1>2, <1>3, <1>4, <1>5, <1>6, <1>7, <1>8, <1>9 DEF Next, Exhausted

LEMMA BoundsStep == TypeOK /\ [Next]_vars => BoundsOK'
<1> SUFFICES ASSUME TypeOK, [Next]_vars PROVE BoundsOK'
  OBVIOUS
<1>1. /\ ops' \in {ops, MaxOps} \/ (ops < MaxOps /\ ops' = ops + 1)
      /\ modes' \in {modes, MaxModes} \/ (modes < MaxModes /\ modes' = modes + 1)
      /\ asks' = asks \/ (asks < MaxAsks /\ asks' = asks + 1)
  <2>1. ASSUME NEW k \in {"prompt", "switch"}, Send(k)
        PROVE  ops < MaxOps /\ ops' = ops + 1 /\ UNCHANGED <<modes, asks>>
    BY <2>1 DEF Send
  <2>2. CASE TogglePlan
    BY <2>2 DEF TogglePlan
  <2>3. CASE AskPermission \/ ReviewPlan
    BY <2>3 DEF AskPermission, ReviewPlan
  <2>4. ASSUME Interrupt \/ Answers \/ ConsumeEvents \/ Reads PROVE UNCHANGED bounds
    BY <2>4 DEF Interrupt, Answers, AnswerPermission, AnswerReview, ConsumeEvents, Reads,
         ReaderWrites, ReaderReads, ReaderEnds
  <2>5. ASSUME ReadLine \/ WritePlan \/ ReadAnswer \/ Approve \/ Complete \/ EndSilently
               \/ Raise \/ Report \/ Return
        PROVE  UNCHANGED bounds
    BY <2>5 DEF ReadLine, WritePlan, ReadAnswer, Approve, Complete, EndSilently, Raise, Report, Return
  <2>6. CASE BreakPipe
    BY <2>6 DEF BreakPipe
  <2> QED
    BY <2>1, <2>2, <2>3, <2>4, <2>5, <2>6 DEF Next, Exhausted, Serves, vars, bounds
<1> QED
  BY <1>1, TerminalAssumption DEF TypeOK, BoundsOK

LEMMA LineIs ==
  ASSUME NEW m \in Lines
  PROVE  /\ m.kind \in {"mode", "prompt", "switch", "permission", "review"}
         /\ m.kind = "mode" => m.mode \in Modes
         /\ m.kind \in {"prompt", "switch"} => m \in [kind : {"prompt", "switch"}, op : Nat]
BY DEF Lines

\* Where a signal meets the backend, if it loses no race.
LEMMA SignalIs ==
  ASSUME Interrupted, backend \in Stands
  PROVE  \/ backend \in {"idle", "dead"} /\ UNCHANGED <<backend, events, races>>
         \/ /\ backend \in {"run", "answered"} /\ races \subseteq races'
            /\ races' \subseteq races \cup {"unapproved"}
            /\ backend = "answered" => "unapproved" \in races'
            /\ \/ backend' = "report" /\ UNCHANGED events
               \/ backend' = "complete" /\ events' = events \o Failed(serving.op)
         \/ backend \in {"ask", "review"} /\ backend' = "report" /\ UNCHANGED <<events, races>>
         \/ /\ backend = "complete" /\ races' = races \cup {"late"}
            /\ backend' \in {"report", "dead"} /\ UNCHANGED events
         \/ backend \in {"report", "handled"} /\ backend' = "dead" /\ UNCHANGED <<events, races>>
         \/ backend = "silent" /\ backend' \in {"report", "dead"} /\ UNCHANGED <<events, races>>
<1>1. CASE backend \in {"idle", "dead"}
  BY <1>1 DEF Interrupted
<1>2. CASE backend \in {"run", "answered"}
  BY <1>2 DEF Interrupted, Stand, Says
<1>3. CASE backend \in {"ask", "review"}
  BY <1>3 DEF Interrupted, Stand
<1>4. CASE backend = "complete"
  BY <1>4 DEF Interrupted, Stand
<1>5. CASE backend \in {"report", "handled"}
  BY <1>5 DEF Interrupted, Stand
<1>6. CASE backend = "silent"
  BY <1>6 DEF Interrupted, Stand
<1> QED
  BY <1>1, <1>2, <1>3, <1>4, <1>5, <1>6 DEF Stands

LEMMA BackendStep == TypeOK /\ [Next]_vars => BackendOK'
<1> SUFFICES ASSUME TypeOK, [Next]_vars PROVE BackendOK'
  OBVIOUS
<1>0. BackendOK /\ PipesOK
  BY DEF TypeOK
<1>1. ASSUME (\E k \in {"prompt", "switch"} : Send(k)) \/ TogglePlan \/ BreakPipe \/ Answers
             \/ ConsumeEvents \/ Reads \/ UNCHANGED vars
      PROVE  BackendOK'
  <2>1. UNCHANGED <<backend, serving, agent, races>>
    BY <1>1 DEF Send, TogglePlan, BreakPipe, Answers, AnswerPermission, AnswerReview, ConsumeEvents,
         Reads, ReaderWrites, ReaderReads, ReaderEnds, vars
  <2> QED
    BY <1>0, <2>1 DEF BackendOK, agent
<1>2. CASE Interrupt
  <2>1. backend' \in Stands /\ races' \subseteq {"mode", "stale", "late", "unapproved", "silent"}
    BY <1>0, <1>2, SignalIs DEF Interrupt, BackendOK, Stands
  <2> QED
    BY <1>0, <1>2, <2>1 DEF Interrupt, BackendOK, agent
<1>3. CASE ReadLine
  <2>1. Head(requests) \in Lines
    BY <1>0, <1>3, Taken DEF ReadLine, PipesOK
  <2>2. CASE Head(requests).kind = "mode"
    BY <1>0, <1>3, <2>1, <2>2, LineIs DEF ReadLine, SetMode, BackendOK
  <2>3. CASE Head(requests).kind \in {"prompt", "switch"}
    BY <1>0, <1>3, <2>1, <2>3, LineIs DEF ReadLine, Stand, BackendOK, Stands, agent
  <2>4. CASE Head(requests).kind \in {"permission", "review"}
    BY <1>0, <1>3, <2>1, <2>4, LineIs DEF ReadLine, BackendOK, agent
  <2> QED
    BY <1>3, <2>2, <2>3, <2>4 DEF ReadLine
<1>4. CASE ReadAnswer
  BY <1>0, <1>4 DEF ReadAnswer, Stand, BackendOK, Stands, agent
<1>5. ASSUME AskPermission \/ WritePlan \/ ReviewPlan \/ Approve \/ Complete
             \/ EndSilently \/ Raise \/ Report \/ Return
      PROVE  BackendOK'
  BY <1>0, <1>5 DEF AskPermission, WritePlan, ReviewPlan, Approve, Complete, EndSilently, Raise, Report, Return,
       Stand, BackendOK, Stands, Modes, agent
<1> QED
  BY <1>1, <1>2, <1>3, <1>4, <1>5 DEF Next, Exhausted, Serves

LEMMA EventTyped ==
  ASSUME TypeOK, NEW k \in Questions \cup {"session", "error", "complete"}, NEW n \in Nat
  PROVE  Event(k, n) \in Events
BY TerminalAssumption DEF TypeOK, BoundsOK, Event, Events

\* What the backend writes about a request stays typed.
LEMMA SaidTyped ==
  ASSUME TypeOK, NEW n \in Nat
  PROVE  /\ events \o Failed(n) \in Seq(Events)
         /\ events \o <<Event("complete", n)>> \in Seq(Events)
         /\ events \o <<Event("session", n), Event("complete", n)>> \in Seq(Events)
<1>1. /\ Event("error", n) \in Events /\ Event("complete", n) \in Events
      /\ Event("session", n) \in Events
  BY EventTyped
<1>2. events \in Seq(Events)
  BY DEF TypeOK, PipesOK
<1> QED
  BY <1>1, <1>2 DEF Failed

LEMMA PipesStep == TypeOK /\ [Next]_vars => PipesOK'
<1> SUFFICES ASSUME TypeOK, [Next]_vars PROVE PipesOK'
  OBVIOUS
<1>0. ScreenOK /\ PipesOK /\ BackendOK /\ asks \in Nat /\ op \in Nat /\ serving.op \in Nat
  BY TerminalAssumption DEF TypeOK, BoundsOK, ScreenOK, BackendOK
<1>1. ASSUME (\E k \in {"prompt", "switch"} : Send(k)) \/ WritePlan \/ Approve \/ EndSilently
             \/ Raise \/ Return \/ UNCHANGED vars
      PROVE  PipesOK'
  BY <1>0, <1>1 DEF Send, WritePlan, Approve, EndSilently, Raise, Return, vars, thread, pipes, PipesOK
<1>2. CASE TogglePlan
  <2>1. [kind |-> "mode", mode |-> Other(screenMode)] \in Lines
    BY DEF Lines, Modes, Other
  <2> QED
    BY <1>0, <1>2, <2>1, Written DEF TogglePlan, thread, PipesOK
<1>3. CASE Answers
  <2>1. /\ [kind |-> "permission", ask |-> panel.ask] \in Lines
        /\ \A b \in BOOLEAN : [kind |-> "review", approved |-> b] \in Lines
    BY <1>0 DEF Lines, ScreenOK
  <2>2. CASE AnswerPermission
    BY <1>0, <2>1, <2>2, Written DEF AnswerPermission, thread, PipesOK
  <2>3. ASSUME NEW b \in BOOLEAN, AnswerReview(b) PROVE PipesOK'
    BY <1>0, <2>1, <2>3, Written DEF AnswerReview, thread, PipesOK
  <2> QED
    BY <1>3, <2>2, <2>3 DEF Answers
<1>4. CASE ConsumeEvents
  BY <1>0, <1>4, Taken DEF ConsumeEvents, pipes, PipesOK
<1>5. CASE ReaderWrites
  <2>1. [kind |-> reader, op |-> op] \in Lines
    BY <1>0, <1>5 DEF ReaderWrites, Lines
  <2>2. Event("error", op) \in QueueLines /\ End \in QueueLines
    BY <1>0, EventTyped DEF QueueLines, End
  <2>3. queue \in Seq(QueueLines) /\ queue \o <<Event("error", op), End>> \in Seq(QueueLines)
    BY <1>0, <2>2 DEF PipesOK, QueueLines
  <2>4. CASE reader' = "off"
    BY <1>0, <1>5, <2>3, <2>4 DEF ReaderWrites, PipesOK, QueueLines
  <2>5. CASE reader' # "off"
    <3>1. /\ requests' = Append(requests, [kind |-> reader, op |-> op])
          /\ UNCHANGED <<queue, events>>
      BY <1>5, <2>5 DEF ReaderWrites
    <3> QED
      BY <1>0, <2>1, <3>1, Written DEF PipesOK
  <2> QED
    BY <2>4, <2>5
<1>6. CASE ReaderReads \/ ReaderEnds
  <2>1. End \in QueueLines /\ queue \in Seq(QueueLines)
    BY <1>0 DEF QueueLines, End, PipesOK
  <2>2. CASE ReaderReads
    <3>1. Head(events) \in Events /\ Tail(events) \in Seq(Events)
      BY <1>0, <2>2, Taken DEF ReaderReads, PipesOK
    <3>2. Head(events) \in QueueLines
      BY <3>1 DEF QueueLines
    <3>3. /\ Append(queue, Head(events)) \in Seq(QueueLines)
          /\ queue \o <<Head(events), End>> \in Seq(QueueLines)
      BY <2>1, <3>2
    <3> QED
      BY <1>0, <2>2, <3>1, <3>3 DEF ReaderReads, PipesOK, QueueLines
  <2>3. CASE ReaderEnds
    BY <1>0, <2>1, <2>3, Written DEF ReaderEnds, pipes, PipesOK, QueueLines
  <2> QED
    BY <1>6, <2>2, <2>3
<1>7. ASSUME ReadLine \/ ReadAnswer PROVE PipesOK'
  <2>1. requests # <<>> /\ requests' = Tail(requests) /\ queue' = queue
    BY <1>7 DEF ReadLine, ReadAnswer, thread
  <2>2. events' = events \/ events' = events \o Failed(0)
    BY <1>7 DEF ReadLine, ReadAnswer, SetMode, Says
  <2> QED
    BY <1>0, <2>1, <2>2, Taken, SaidTyped DEF PipesOK
<1>8. CASE AskPermission \/ ReviewPlan
  <2>1. PICK k \in Questions :
          events' = Append(events, [kind |-> k, op |-> serving.op, ask |-> asks + 1])
    BY <1>8 DEF AskPermission, ReviewPlan, Questions
  <2>2. [kind |-> k, op |-> serving.op, ask |-> asks + 1] \in Events
    BY <1>0 DEF Events
  <2> QED
    BY <1>0, <1>8, <2>1, <2>2, Written DEF AskPermission, ReviewPlan, thread, PipesOK
<1>9. CASE Complete \/ Report
  BY <1>0, <1>9, SaidTyped DEF Complete, Report, Says, thread, PipesOK
<1>10. CASE Interrupt
  <2>1. events' = events \/ events' = events \o Failed(serving.op)
    BY <1>0, <1>10, SignalIs DEF Interrupt, BackendOK
  <2> QED
    BY <1>0, <1>10, <2>1, SaidTyped DEF Interrupt, thread, PipesOK
<1>11. CASE BreakPipe
  BY <1>11 DEF BreakPipe, PipesOK
<1> QED
  BY <1>1, <1>2, <1>3, <1>4, <1>5, <1>6, <1>7, <1>8, <1>9, <1>10, <1>11
    DEF Next, Exhausted, Reads, Serves

LEMMA TerminalTypesStep == TypeOK /\ [Next]_vars => TypeOK'
BY ScreenStep, PipesStep, BackendStep, BoundsStep DEF TypeOK

\* The screen, the two pipes and the backend hold what they may hold.
THEOREM TerminalTypeCorrect == Spec => []TypeOK
BY TerminalInitTypes, TerminalTypesStep, PTL DEF Spec

-----------------------------------------------------------------------------
(* The screen: nothing is out of phase.                                      *)

\* None of the races has happened that put a line in the pipe nobody asked for.
Sound == races \cap Slips = {}

\* The backend serves a request whose last line is not written.
Active == backend \in {"run", "ask", "review", "answered", "report", "silent"}

IsRequest(m) == m.kind \in {"prompt", "switch"}
IsAnswer(m) == m.kind \in Questions

\* When the TUI waits for nothing, nothing is left of what it waited for; once
\* the reading thread is off the pipe is empty and no request is served.
ReaderInv ==
  /\ op = 0 => reader = "off" /\ queue = <<>> /\ panel = NoPanel
  /\ reader = "off" => events = <<>> /\ ~Active
  /\ reader \in {"prompt", "switch"} => op # 0 /\ events = <<>> /\ queue = <<>> /\ panel = NoPanel
  /\ reader = "read" => op # 0

\* Every event belongs to the request the TUI waits for, and the line that ends
\* the reading is the last of it, on either side of the thread.
EventsInv ==
  /\ \A i \in DOMAIN events :
       events[i].op = op /\ (events[i].kind = "complete" => i = Len(events))
  /\ \A i \in DOMAIN queue :
       /\ queue[i].op = op
       /\ queue[i].kind = "end" => i = Len(queue)
       /\ queue[i].kind \in {"end", "complete"} => reader = "off"
  /\ panel.kind # "none" => panel.op = op

\* A request the backend has not read is the last line, nothing is shown or
\* served meanwhile, and it is the one the TUI waits for.
Unserved ==
  ~Active /\ reader = "read" /\ events = <<>> /\ queue = <<>> /\ panel = NoPanel
RequestInv ==
  backend # "dead" =>
    \A i \in DOMAIN requests : IsRequest(requests[i]) =>
      i = Len(requests) /\ requests[i].op = op /\ Unserved

\* A question is in exactly one place: in the pipe, in the queue, on the screen,
\* or answered.
Quiet == events = <<>> /\ queue = <<>> /\ panel = NoPanel
Asked(q, answers) ==
  \/ events = <<q>> /\ queue = <<>> /\ panel = NoPanel /\ requests = <<>>
  \/ events = <<>> /\ queue = <<q>> /\ panel = NoPanel /\ requests = <<>>
  \/ events = <<>> /\ queue = <<>> /\ panel = q /\ requests = <<>>
  \/ Quiet /\ \E m \in answers : requests = <<m>>
Question(k) == [kind |-> k, op |-> op, ask |-> asks]

\* While a request is served, nothing but its question is under way.
ServingInv ==
  /\ Active => serving.op = op /\ reader = "read"
  /\ backend \in {"run", "answered", "silent"} => Quiet /\ requests = <<>>
  /\ backend = "ask" => Asked(Question("permission"), {[kind |-> "permission", ask |-> asks]})
  /\ backend = "review" => Asked(Question("review"), [kind : {"review"}, approved : BOOLEAN])
  /\ backend = "report" =>
       /\ \A i \in DOMAIN events : events[i].kind \in Questions
       /\ \A i \in DOMAIN queue : queue[i].kind \in Questions

InStepInv == ReaderInv /\ EventsInv /\ RequestInv /\ ServingInv
FlowInv == Sound => InStepInv

LEMMA InitFlow == Init => FlowInv
BY DEF Init, FlowInv, InStepInv, ReaderInv, EventsInv, RequestInv, ServingInv, Active, NoPanel

LEMMA RacesGrow == TypeOK /\ [Next]_vars => races \subseteq races'
<1> SUFFICES ASSUME TypeOK, [Next]_vars PROVE races \subseteq races'
  OBVIOUS
<1>1. ASSUME (\E k \in {"prompt", "switch"} : Send(k)) \/ TogglePlan \/ BreakPipe \/ Answers
             \/ ConsumeEvents \/ Reads \/ UNCHANGED vars
      PROVE  races' = races
  BY <1>1 DEF Send, TogglePlan, BreakPipe, Answers, AnswerPermission, AnswerReview, ConsumeEvents,
       Reads, ReaderWrites, ReaderReads, ReaderEnds, vars
<1>2. CASE Interrupt
  BY <1>2, SignalIs DEF Interrupt, TypeOK, BackendOK
<1>3. CASE Serves
  BY <1>3 DEF Serves, ReadLine, SetMode, AskPermission, WritePlan, ReviewPlan, ReadAnswer, Approve,
       Complete, EndSilently, Raise, Report, Return
<1> QED
  BY <1>1, <1>2, <1>3 DEF Next, Exhausted

LEMMA SoundBefore == TypeOK /\ [Next]_vars /\ Sound' => Sound
BY RacesGrow DEF Sound

\* Reading a line that is no request changes nothing but the mode, or is a race.
LEMMA LineRead ==
  ASSUME TypeOK, ReadLine, Sound', RequestInv
  PROVE  /\ backend = "idle" /\ requests # <<>> /\ requests' = Tail(requests)
         /\ UNCHANGED <<tui, thread, events, bounds, races>>
         /\ \/ /\ IsRequest(Head(requests)) /\ requests = <<Head(requests)>>
               /\ Head(requests).op = op /\ Unserved
               /\ serving' = Head(requests) /\ UNCHANGED agent
               /\ backend' \in {"run", "report"}
               /\ backend' = "run" => ~(serving'.kind = "switch" /\ agentMode = "plan")
            \/ /\ Head(requests).kind = "mode" /\ UNCHANGED <<backend, serving>>
               /\ agentMode' = Head(requests).mode
<1>1. /\ backend = "idle" /\ requests # <<>> /\ requests' = Tail(requests)
      /\ UNCHANGED <<tui, thread, bounds>>
  BY DEF ReadLine
<1>2. requests \in Seq(Lines)
  BY DEF TypeOK, PipesOK
<1>3. Head(requests) \in Lines /\ Head(requests) = requests[1] /\ 1 \in DOMAIN requests
  BY <1>1, <1>2, Taken
<1>4. CASE IsRequest(Head(requests))
  <2>1. 1 = Len(requests) /\ Head(requests).op = op /\ Unserved
    BY <1>1, <1>3, <1>4 DEF RequestInv
  <2>2. requests = <<Head(requests)>>
    BY <1>2, <1>3, <2>1
  <2>3. Head(requests).kind \notin {"mode", "permission", "review"}
    BY <1>4 DEF IsRequest
  <2> QED
    BY <1>1, <1>4, <2>1, <2>2, <2>3 DEF ReadLine, Stand
<1>5. CASE Head(requests).kind = "mode"
  BY <1>1, <1>5 DEF ReadLine, SetMode, Sound, Slips
<1>6. CASE Head(requests).kind \in {"permission", "review"}
  BY <1>1, <1>6 DEF ReadLine, Sound, Slips
<1> QED
  BY <1>3, <1>4, <1>5, <1>6, LineIs DEF IsRequest


\* What an interrupt does to a request, if it loses no race.
LEMMA SignalMeets ==
  ASSUME TypeOK, Interrupt, Sound', ServingInv
  PROVE  /\ UNCHANGED <<screenMode, op, panel, thread, requests, serving, agent, bounds>>
         /\ \/ UNCHANGED <<backend, events>>
            \/ /\ Active /\ backend' = "report" /\ UNCHANGED events
            \/ /\ Active /\ Quiet /\ backend' = "complete"
               /\ events' = <<Event("error", op), Event("complete", op)>>
            \/ backend' = "dead" /\ UNCHANGED events
<1>1. backend \in Stands
  BY DEF TypeOK, BackendOK
<1>2. ~("late" \in races')
  BY DEF Sound, Slips
<1>3. CASE backend \in {"run", "answered"}
  <2>1. Quiet /\ serving.op = op /\ Active
    BY <1>3 DEF ServingInv, Active
  <2>2. <<>> \o Failed(op) = <<Event("error", op), Event("complete", op)>>
    BY DEF Failed
  <2> QED
    BY <1>1, <1>3, <2>1, <2>2, SignalIs DEF Interrupt, Quiet
<1>4. CASE backend \notin {"run", "answered"}
  BY <1>1, <1>2, <1>4, SignalIs DEF Interrupt, Active
<1> QED
  BY <1>3, <1>4

\* The steps of the backend between a line it reads and a line it writes.
Works == AskPermission \/ WritePlan \/ ReviewPlan \/ ReadAnswer \/ Approve \/ Complete
         \/ EndSilently \/ Raise \/ Report \/ Return

LEMMA BackendWorks ==
  ASSUME Works
  PROVE  /\ UNCHANGED <<tui, thread, serving>>
         /\ backend # "dead" /\ backend' # "dead"
         /\ \/ Active
            \/ ~Active' /\ UNCHANGED <<events, requests>>
         /\ requests' = requests \/ (requests # <<>> /\ requests' = Tail(requests) /\ Active)
BY DEF Works, AskPermission, WritePlan, ReviewPlan, ReadAnswer, Approve, Complete, EndSilently,
   Raise, Report, Return, Stand, Says, Active, pipes

LEMMA PipeBreaks ==
  ASSUME BreakPipe
  PROVE  /\ backend = "dead" /\ backend' = "dead"
         /\ op' = 0 /\ panel' = NoPanel /\ reader' = "off"
         /\ queue' = <<>> /\ requests' = <<>> /\ events' = <<>>
BY DEF BreakPipe

LEMMA ReaderStep ==
  ASSUME TypeOK, [Next]_vars, Sound', InStepInv
  PROVE  ReaderInv'
<1> USE DEF InStepInv
<1>0. ReaderInv /\ ScreenOK /\ PipesOK /\ BackendOK /\ ops \in Nat
  BY TerminalAssumption DEF TypeOK, BoundsOK
<1>1. ASSUME NEW k \in {"prompt", "switch"}, Send(k) PROVE ReaderInv'
  BY <1>0, <1>1 DEF Send, ReaderInv, pipes
<1>2. CASE TogglePlan \/ Answers
  <2>1. UNCHANGED <<op, reader, queue, events, backend>> /\ panel' \in {panel, NoPanel}
    BY <1>2 DEF TogglePlan, Answers, AnswerPermission, AnswerReview, thread
  <2> QED
    BY <1>0, <2>1 DEF ReaderInv, Active, NoPanel
<1>3. CASE ConsumeEvents
  <2>1. UNCHANGED <<reader, events, backend>> /\ op # 0 /\ reader \notin {"prompt", "switch"}
    BY <1>0, <1>3 DEF ConsumeEvents, ReaderInv, pipes
  <2>2. CASE Head(queue).kind = "end"
    <3>1. queue' = <<>> /\ op' = 0 /\ reader = "off" /\ panel' = NoPanel
      BY <1>0, <1>3, <2>2, Taken DEF ConsumeEvents, EventsInv, PipesOK, Shown, Questions
    <3> QED
      BY <1>0, <2>1, <3>1 DEF ReaderInv, Active, NoPanel
  <2>3. CASE Head(queue).kind # "end"
    BY <1>0, <1>3, <2>1, <2>3 DEF ConsumeEvents, ReaderInv, Active
  <2> QED
    BY <2>2, <2>3
<1>4. CASE ReaderWrites
  BY <1>0, <1>4 DEF ReaderWrites, ReaderInv, Active, tui
<1>5. CASE ReaderReads
  <2>1. op # 0 /\ UNCHANGED <<op, backend>>
    BY <1>0, <1>5 DEF ReaderReads, ReaderInv, tui
  <2>2. CASE EndsReading(Head(events))
    <3>1. events' = <<>> /\ reader' = "off"
      BY <1>0, <1>5, <2>2, Taken DEF ReaderReads, EndsReading, EventsInv, PipesOK
    <3>2. ~Active
      <4>1. Head(events) = events[1] /\ 1 \in DOMAIN events /\ Head(events).kind = "complete"
        BY <1>0, <1>5, <2>2, Taken DEF ReaderReads, EndsReading, PipesOK
      <4>2. CASE backend \in {"ask", "review"}
        BY <1>5, <4>1, <4>2, Single DEF ReaderReads, ServingInv, Asked, Question, Quiet
      <4> QED
        BY <1>5, <4>1, <4>2 DEF ReaderReads, ServingInv, Active, Quiet, Questions
    <3> QED
      BY <2>1, <3>1, <3>2 DEF ReaderInv, Active
  <2>3. CASE ~EndsReading(Head(events))
    BY <1>0, <1>5, <2>1, <2>3 DEF ReaderReads, ReaderInv
  <2> QED
    BY <2>2, <2>3
<1>6. CASE ReaderEnds
  BY <1>0, <1>6 DEF ReaderEnds, ReaderInv, Active, tui, pipes
<1>7. CASE ReadLine
  <2>1. UNCHANGED <<op, reader, queue, panel, events>> /\ (Active' => reader = "read")
    BY <1>7, LineRead DEF tui, thread, Unserved, Active
  <2> QED
    BY <1>0, <2>1 DEF ReaderInv, NoPanel
<1>8. CASE Works
  <2>1. UNCHANGED <<op, reader, queue, panel>>
    BY <1>8, BackendWorks DEF tui, thread
  <2>2. \/ reader = "read"
        \/ ~Active' /\ UNCHANGED events
    BY <1>8, BackendWorks DEF ServingInv
  <2> QED
    BY <1>0, <2>1, <2>2 DEF ReaderInv, NoPanel
<1>9. CASE Interrupt
  <2>1. UNCHANGED <<op, reader, queue, panel>>
    BY <1>9, SignalMeets DEF thread
  <2>2. \/ reader = "read"
        \/ ~Active' /\ UNCHANGED events
        \/ UNCHANGED <<backend, events>>
    BY <1>9, SignalMeets DEF ServingInv, Active
  <2> QED
    BY <1>0, <2>1, <2>2 DEF ReaderInv, NoPanel, Active
<1>10. CASE UNCHANGED vars
  BY <1>0, <1>10 DEF vars, tui, thread, pipes, ReaderInv, Active, NoPanel
<1>11. CASE BreakPipe
  BY <1>11, PipeBreaks DEF ReaderInv, Active, NoPanel
<1> QED
  BY <1>1, <1>2, <1>3, <1>4, <1>5, <1>6, <1>7, <1>8, <1>9, <1>10, <1>11
    DEF Next, Exhausted, Reads, Serves, Works

\* However a request ends, its last line is the one that says so.
LEMMA LastLineEnds ==
  ASSUME NEW n, NEW k \in {"error", "session"}, NEW s,
         s = <<Event("complete", n)>> \/ s = <<Event(k, n), Event("complete", n)>>
  PROVE  \A i \in DOMAIN s : s[i].op = n /\ (s[i].kind = "complete" => i = Len(s))
<1>1. /\ Event("complete", n).op = n /\ Event(k, n).op = n /\ Event(k, n).kind # "complete"
  BY DEF Event
<1>2. CASE s = <<Event("complete", n)>>
  BY <1>1, <1>2, Single
<1>3. CASE s = <<Event(k, n), Event("complete", n)>>
  BY <1>1, <1>3, Two
<1> QED
  BY <1>2, <1>3

LEMMA EventsStep ==
  ASSUME TypeOK, [Next]_vars, Sound', InStepInv
  PROVE  EventsInv'
<1> USE DEF InStepInv
<1>0. /\ EventsInv /\ ReaderInv /\ events \in Seq(Events) /\ queue \in Seq(QueueLines)
      /\ \A i \in DOMAIN events : events[i].kind \notin {"end", "none"}
      /\ \A i \in DOMAIN queue : queue[i].kind # "none"
  <2>1. /\ \A e \in Events : e.kind \notin {"end", "none"}
        /\ \A e \in QueueLines : e.kind # "none"
    BY DEF QueueLines, Events, Questions
  <2>2. events \in Seq(Events) /\ queue \in Seq(QueueLines)
    BY DEF TypeOK, PipesOK, QueueLines
  <2> QED
    BY <2>1, <2>2
<1>1. ASSUME NEW k \in {"prompt", "switch"}, Send(k) PROVE EventsInv'
  BY <1>0, <1>1 DEF Send, ReaderInv, EventsInv, NoPanel, pipes
<1>2. CASE TogglePlan \/ Answers
  <2>1. UNCHANGED <<op, reader, queue, events>> /\ panel' \in {panel, NoPanel}
    BY <1>2 DEF TogglePlan, Answers, AnswerPermission, AnswerReview, thread
  <2> QED
    BY <1>0, <2>1 DEF EventsInv, NoPanel
<1>3. CASE ConsumeEvents
  <2>0. UNCHANGED <<reader, events>> /\ queue # <<>> /\ queue' = Tail(queue)
    BY <1>3 DEF ConsumeEvents, pipes
  <2>1. CASE Head(queue).kind = "end"
    <3>1. queue' = <<>> /\ events = <<>> /\ panel' = NoPanel
      BY <1>0, <1>3, <2>0, <2>1, Taken DEF ConsumeEvents, EventsInv, ReaderInv, Shown, Questions
    <3> QED
      BY <2>0, <3>1 DEF EventsInv, NoPanel
  <2>2. CASE Head(queue).kind # "end"
    <3>1. op' = op
      BY <1>3, <2>2 DEF ConsumeEvents
    <3>2. panel' \in {panel, NoPanel, Head(queue)} /\ Head(queue).op = op
      BY <1>0, <1>3, <2>0, Taken DEF ConsumeEvents, Shown, EventsInv
    <3> QED
      BY <1>0, <2>0, <3>1, <3>2, Taken DEF EventsInv, NoPanel
  <2> QED
    BY <2>1, <2>2
<1>4. CASE ReaderWrites
  <2>1. CASE reader' = "off"
    <3>1. queue' = <<Event("error", op), End>> /\ reader' = "off" /\ UNCHANGED <<op, panel, events>>
      BY <1>0, <1>4, <2>1 DEF ReaderWrites, ReaderInv, tui
    <3>2. /\ Len(queue') = 2 /\ DOMAIN queue' = 1 .. 2
          /\ queue'[1] = Event("error", op) /\ queue'[2] = End
      BY <3>1
    <3> QED
      BY <1>0, <3>1, <3>2 DEF EventsInv, Event, End
  <2>2. CASE reader' # "off"
    BY <1>0, <1>4, <2>2 DEF ReaderWrites, ReaderInv, EventsInv, tui
  <2> QED
    BY <2>1, <2>2
<1>5. CASE ReaderReads
  <2>0. /\ UNCHANGED <<op, panel>> /\ reader = "read" /\ events # <<>> /\ events' = Tail(events)
        /\ Head(events) \in QueueLines /\ Head(events).op = op
        /\ Head(events).kind \notin {"end", "none"} /\ End \in QueueLines
    BY <1>0, <1>5, Taken
      DEF ReaderReads, EventsInv, tui, QueueLines, End, TypeOK, ScreenOK, BoundsOK
  <2>1. \A i \in DOMAIN events' :
          events'[i].op = op /\ (events'[i].kind = "complete" => i = Len(events'))
    BY <1>0, <2>0, Taken DEF EventsInv
  <2>2. CASE EndsReading(Head(events))
    <3>1. queue' = Append(Append(queue, Head(events)), End) /\ reader' = "off"
      BY <1>0, <1>5, <2>0, <2>2, WrittenTwice DEF ReaderReads
    <3>2. Append(queue, Head(events)) \in Seq(QueueLines)
      BY <1>0, <2>0, Written
    <3>3. \A i \in DOMAIN queue' : /\ queue'[i].op = op
                                   /\ queue'[i].kind = "end" => i = Len(queue')
      <4>1. \A i \in DOMAIN Append(queue, Head(events)) :
              /\ Append(queue, Head(events))[i].op = op
              /\ Append(queue, Head(events))[i].kind # "end"
        BY <1>0, <2>0, Written DEF EventsInv
      <4> QED
        BY <2>0, <3>1, <3>2, <4>1, Written DEF End
    <3> QED
      BY <1>0, <2>0, <2>1, <3>1, <3>3 DEF EventsInv
  <2>3. CASE ~EndsReading(Head(events))
    <3>1. queue' = Append(queue, Head(events)) /\ reader' = reader
      BY <1>5, <2>3 DEF ReaderReads
    <3>2. \A i \in DOMAIN queue' : queue'[i].op = op /\ queue'[i].kind \notin {"end", "complete"}
      BY <1>0, <2>0, <2>3, <3>1, Written DEF EventsInv, EndsReading
    <3> QED
      BY <1>0, <2>0, <2>1, <3>2 DEF EventsInv
  <2> QED
    BY <2>2, <2>3
<1>6. CASE ReaderEnds
  <2>1. /\ queue' = Append(queue, End) /\ reader = "read" /\ reader' = "off" /\ End \in QueueLines
        /\ UNCHANGED <<op, panel, events>>
    BY <1>6 DEF ReaderEnds, tui, pipes, QueueLines, End, TypeOK, ScreenOK, BoundsOK
  <2>2. \A i \in DOMAIN queue' : /\ queue'[i].op = op
                                 /\ queue'[i].kind = "end" => i = Len(queue')
    BY <1>0, <2>1, Written DEF EventsInv, End
  <2> QED
    BY <1>0, <2>1, <2>2 DEF EventsInv
<1>7. CASE ReadLine
  <2>1. UNCHANGED <<op, reader, queue, panel, events>>
    BY <1>7, LineRead DEF tui, thread
  <2> QED
    BY <1>0, <2>1 DEF EventsInv
<1>8. CASE Works
  <2>0. UNCHANGED <<op, reader, queue, panel>>
    BY <1>8, BackendWorks DEF tui, thread
  <2>1. ASSUME \A i \in DOMAIN events' :
                 events'[i].op = op /\ (events'[i].kind = "complete" => i = Len(events'))
        PROVE  EventsInv'
    BY <1>0, <2>0, <2>1 DEF EventsInv
  <2>2. CASE AskPermission \/ ReviewPlan
    <3>1. events = <<>> /\ serving.op = op
      BY <2>2 DEF AskPermission, ReviewPlan, ServingInv, Active, Quiet
    <3>2. PICK k \in Questions : events' = <<[kind |-> k, op |-> op, ask |-> asks + 1]>>
      BY <2>2, <3>1, IntoEmpty DEF AskPermission, ReviewPlan, Questions
    <3> QED
      BY <2>1, <3>2, Single DEF Questions
  <2>3. CASE Complete
    <3>1. serving.op = op /\ events = <<>>
      BY <2>3 DEF Complete, ServingInv, Active, Quiet
    <3>2. \/ events' = <<Event("complete", op)>>
          \/ events' = <<Event("session", op), Event("complete", op)>>
          \/ events' = <<Event("error", op), Event("complete", op)>>
      BY <2>3, <3>1, IntoEmpty DEF Complete, Says, Failed
    <3> QED
      BY <2>1, <3>2, LastLineEnds
  <2>4. CASE Report
    <3>1. /\ serving.op = op /\ op \in Nat
          /\ \A i \in DOMAIN events : events[i].kind \in Questions
      BY <2>4 DEF Report, ServingInv, Active, TypeOK, ScreenOK, BoundsOK
    <3>2. Event("error", op) \in Events /\ Event("complete", op) \in Events
      BY <3>1, EventTyped
    <3>3. events' = Append(Append(events, Event("error", op)), Event("complete", op))
      BY <1>0, <2>4, <3>1, <3>2, WrittenTwice DEF Report, Says, Failed
    <3>4. /\ Append(events, Event("error", op)) \in Seq(Events)
          /\ \A i \in DOMAIN Append(events, Event("error", op)) :
               /\ Append(events, Event("error", op))[i].op = op
               /\ Append(events, Event("error", op))[i].kind # "complete"
      BY <1>0, <3>1, <3>2, Written DEF EventsInv, Event, Questions
    <3> QED
      BY <2>1, <3>2, <3>3, <3>4, Written DEF Event
  <2>5. ASSUME WritePlan \/ ReadAnswer \/ Approve \/ EndSilently \/ Raise \/ Return
        PROVE  events' = events
    BY <2>5 DEF WritePlan, ReadAnswer, Approve, EndSilently, Raise, Return, pipes
  <2> QED
    BY <1>0, <1>8, <2>1, <2>2, <2>3, <2>4, <2>5 DEF Works, EventsInv
<1>9. CASE Interrupt
  <2>1. UNCHANGED <<op, reader, queue, panel>>
    BY <1>9, SignalMeets DEF thread
  <2>2. events' = events \/ events' = <<Event("error", op), Event("complete", op)>>
    BY <1>9, SignalMeets
  <2>3. \A i \in DOMAIN events' :
          events'[i].op = op /\ (events'[i].kind = "complete" => i = Len(events'))
    BY <1>0, <2>2, LastLineEnds DEF EventsInv
  <2> QED
    BY <1>0, <2>1, <2>3 DEF EventsInv
<1>10. CASE UNCHANGED vars
  BY <1>0, <1>10 DEF vars, tui, thread, pipes, EventsInv
<1>11. CASE BreakPipe
  BY <1>11, PipeBreaks DEF EventsInv, NoPanel
<1> QED
  BY <1>1, <1>2, <1>3, <1>4, <1>5, <1>6, <1>7, <1>8, <1>9, <1>10, <1>11
    DEF Next, Exhausted, Reads, Serves, Works

LEMMA RequestStep ==
  ASSUME TypeOK, [Next]_vars, Sound', InStepInv, ReaderInv'
  PROVE  RequestInv'
<1> USE DEF InStepInv
<1>0. requests \in Seq(Lines) /\ RequestInv /\ ReaderInv
  BY DEF TypeOK, PipesOK
<1> DEFINE NoneWaits(s) == \A i \in DOMAIN s : ~IsRequest(s[i])
<1>1. ASSUME NEW k \in {"prompt", "switch"}, Send(k) PROVE RequestInv'
  <2>1. UNCHANGED <<requests, backend>> /\ reader # "read"
    BY <1>0, <1>1 DEF Send, pipes, ReaderInv
  <2> QED
    BY <1>0, <2>1 DEF RequestInv, Unserved
<1>2. CASE TogglePlan \/ Answers
  <2>1. PICK m \in Lines : /\ requests' = Append(requests, m)
                          /\ m.kind \in {"mode", "permission", "review"}
    <3>1. /\ [kind |-> "mode", mode |-> Other(screenMode)] \in Lines
          /\ [kind |-> "permission", ask |-> panel.ask] \in Lines
          /\ \A b \in BOOLEAN : [kind |-> "review", approved |-> b] \in Lines
      BY DEF Lines, Modes, Other, TypeOK, ScreenOK
    <3>2. CASE TogglePlan
      BY <3>1, <3>2 DEF TogglePlan
    <3>3. CASE AnswerPermission
      BY <3>1, <3>3 DEF AnswerPermission
    <3>4. ASSUME NEW b \in BOOLEAN, AnswerReview(b)
                 PROVE  \E m \in Lines : /\ requests' = Append(requests, m)
                                         /\ m.kind \in {"mode", "permission", "review"}
      BY <3>1, <3>4 DEF AnswerReview
    <3> QED
      BY <1>2, <3>2, <3>3, <3>4 DEF Answers
  <2>2. UNCHANGED backend /\ (reader # "read" \/ panel # NoPanel)
    <3>1. CASE TogglePlan
      BY <1>0, <3>1 DEF TogglePlan, ReaderInv
    <3>2. CASE Answers
      <4>1. UNCHANGED backend /\ panel.kind \in {"permission", "review"}
        BY <3>2 DEF Answers, AnswerPermission, AnswerReview
      <4> QED
        BY <4>1 DEF NoPanel
    <3> QED
      BY <1>2, <3>1, <3>2
  <2>3. backend # "dead" => NoneWaits(requests)
    BY <1>0, <2>2 DEF RequestInv, Unserved
  <2>4. backend # "dead" => NoneWaits(requests')
    BY <1>0, <2>1, <2>3, Written DEF IsRequest
  <2> QED
    BY <2>2, <2>4 DEF RequestInv
<1>3. CASE ConsumeEvents \/ ReaderReads \/ ReaderEnds
  <2>1. UNCHANGED <<requests, backend>> /\ (queue # <<>> \/ events # <<>> \/ backend = "dead")
    BY <1>3 DEF ConsumeEvents, ReaderReads, ReaderEnds, pipes
  <2> QED
    BY <1>0, <2>1 DEF RequestInv, Unserved
<1>4. CASE ReaderWrites
  <2>1. CASE backend = "dead"
    BY <1>4, <2>1 DEF ReaderWrites, RequestInv
  <2>2. CASE backend # "dead"
    <3>1. [kind |-> reader, op |-> op] \in Lines
      BY <1>4 DEF ReaderWrites, Lines, TypeOK, ScreenOK, BoundsOK
    <3>2. /\ requests' = Append(requests, [kind |-> reader, op |-> op])
          /\ reader' = "read" /\ reader # "read" /\ UNCHANGED <<op, panel, queue, events, backend>>
      BY <1>4, <2>2 DEF ReaderWrites, tui
    <3>3. NoneWaits(requests)
      BY <1>0, <2>2, <3>2 DEF RequestInv, Unserved
    <3>4. Unserved'
      BY <1>0, <1>4, <3>2 DEF ReaderWrites, ReaderInv, ServingInv, Unserved, Active, NoPanel
    <3> QED
      BY <1>0, <3>1, <3>2, <3>3, <3>4, Written DEF RequestInv
  <2> QED
    BY <2>1, <2>2
<1>5. CASE ReadLine
  <2>1. CASE IsRequest(Head(requests))
    <3>1. requests' = <<>>
      BY <1>5, <2>1, LineRead, LineIs, Taken, Single DEF IsRequest
    <3> QED
      BY <3>1 DEF RequestInv
  <2>2. CASE ~IsRequest(Head(requests))
    <3>1. /\ requests # <<>> /\ requests' = Tail(requests) /\ backend = "idle"
          /\ UNCHANGED <<op, panel, reader, queue, events, backend>>
      BY <1>5, <2>2, LineRead DEF tui, thread
    <3>2. Unserved => Unserved'
      BY <3>1 DEF Unserved, Active, NoPanel
    <3> QED
      BY <1>0, <3>1, <3>2, Taken DEF RequestInv
  <2> QED
    BY <2>1, <2>2
<1>6. CASE Works
  <2>1. CASE Active
    <3>1. NoneWaits(requests)
      BY <1>0, <2>1 DEF RequestInv, Unserved, Active
    <3>2. NoneWaits(requests')
      BY <1>0, <1>6, <3>1, BackendWorks, Taken
    <3> QED
      BY <3>2 DEF RequestInv
  <2>2. CASE ~Active
    <3>1. /\ UNCHANGED <<op, panel, reader, queue, events, requests>>
          /\ ~Active' /\ backend # "dead"
      BY <1>6, <2>2, BackendWorks DEF tui, thread
    <3>2. Unserved => Unserved'
      BY <3>1 DEF Unserved, NoPanel
    <3> QED
      BY <1>0, <3>1, <3>2 DEF RequestInv
  <2> QED
    BY <2>1, <2>2
<1>7. CASE Interrupt
  <2>1. UNCHANGED <<op, panel, reader, queue, requests>>
    BY <1>7, SignalMeets DEF thread
  <2>2. \/ backend' = "dead"
        \/ UNCHANGED <<backend, events>>
        \/ backend # "dead" /\ Active
    BY <1>7, SignalMeets DEF Active
  <2>3. CASE backend # "dead" /\ Active
    BY <1>0, <2>1, <2>3 DEF RequestInv, Unserved
  <2>4. CASE UNCHANGED <<backend, events>>
    <3>1. Unserved => Unserved'
      BY <2>1, <2>4 DEF Unserved, Active, NoPanel
    <3> QED
      BY <1>0, <2>1, <2>4, <3>1 DEF RequestInv
  <2> QED
    BY <2>2, <2>3, <2>4 DEF RequestInv
<1>8. CASE UNCHANGED vars
  <2>1. UNCHANGED <<op, panel, reader, queue, events, requests, backend>>
    BY <1>8 DEF vars, tui, thread, pipes
  <2>2. Unserved => Unserved'
    BY <2>1 DEF Unserved, Active, NoPanel
  <2> QED
    BY <1>0, <2>1, <2>2 DEF RequestInv
<1>9. CASE BreakPipe
  BY <1>9, PipeBreaks DEF RequestInv
<1> QED
  BY <1>1, <1>2, <1>3, <1>4, <1>5, <1>6, <1>7, <1>8, <1>9
    DEF Next, Exhausted, Reads, Serves, Works

\* The question of a request that waits for its answer, and its answers.
Asking == backend \in {"ask", "review"}
Kind == IF backend = "ask" THEN "permission" ELSE "review"
AnswersTo == IF backend = "ask" THEN {[kind |-> "permission", ask |-> asks]}
             ELSE [kind : {"review"}, approved : BOOLEAN]

LEMMA AskedIs ==
  ASSUME Asking
  PROVE  ServingInv <=> serving.op = op /\ reader = "read" /\ Asked(Question(Kind), AnswersTo)
BY DEF Asking, ServingInv, Active, Kind, AnswersTo

\* The backend does not move, nor does the request it serves.
LEMMA SameServing ==
  ASSUME ServingInv, UNCHANGED <<backend, serving, op, reader, asks>>,
         backend \in {"run", "answered", "silent"} => Quiet' /\ requests' = <<>>,
         Asking => Asked(Question(Kind), AnswersTo)',
         backend = "report" => /\ \A i \in DOMAIN events' : events'[i].kind \in Questions
                               /\ \A i \in DOMAIN queue' : queue'[i].kind \in Questions
  PROVE  ServingInv'
BY DEF ServingInv, Active, Asking, Kind, AnswersTo, Asked, Question, Quiet, NoPanel

LEMMA ServingStep ==
  ASSUME TypeOK, [Next]_vars, Sound', InStepInv
  PROVE  ServingInv'
<1> USE DEF InStepInv
<1>0. /\ ServingInv /\ ReaderInv /\ events \in Seq(Events) /\ queue \in Seq(QueueLines)
      /\ requests \in Seq(Lines)
  BY DEF TypeOK, PipesOK, QueueLines
<1>a. \A k : Question(k).kind = k /\ Question(k).op = op /\ (k \in Questions =>
        Question(k) # NoPanel)
  BY DEF Question, NoPanel, Questions
<1>b. Asking => Kind \in Questions /\ Question(Kind).kind = Kind
  BY DEF Asking, Kind, Questions, Question
\* Nothing is served, before or after.
<1>c. ASSUME ~Active' PROVE ServingInv'
  BY <1>c DEF ServingInv, Active
<1>1. ASSUME (\E k \in {"prompt", "switch"} : Send(k)) \/ TogglePlan \/ ReaderWrites
      PROVE  ServingInv'
  <2>1. reader # "read" /\ UNCHANGED backend
    BY <1>0, <1>1 DEF Send, TogglePlan, ReaderWrites, ReaderInv
  <2> QED
    BY <1>0, <1>c, <2>1 DEF ServingInv, Active
<1>2. CASE Answers
  <2>1. /\ UNCHANGED <<backend, serving, op, reader, asks, events, queue>>
        /\ panel # NoPanel /\ panel' = NoPanel
    <3>1. /\ UNCHANGED <<backend, serving, op, reader, asks, events, queue>>
          /\ panel' = NoPanel /\ panel.kind \in {"permission", "review"}
      BY <1>2 DEF Answers, AnswerPermission, AnswerReview, thread, bounds
    <3> QED
      BY <3>1 DEF NoPanel
  <2>2. backend \notin {"run", "answered", "silent"}
    BY <1>0, <2>1 DEF ServingInv, Quiet
  <2>3. ASSUME Asking PROVE Asked(Question(Kind), AnswersTo)'
    <3>1. events = <<>> /\ queue = <<>> /\ panel = Question(Kind) /\ requests = <<>>
      BY <1>0, <2>1, <2>3, AskedIs DEF Asked, Quiet
    <3>2. \E m \in AnswersTo : requests' = <<m>>
      <4>1. CASE AnswerPermission
        BY <1>b, <2>3, <3>1, <4>1, IntoEmpty
          DEF AnswerPermission, Question, Kind, AnswersTo, Asking
      <4>2. ASSUME NEW b \in BOOLEAN, AnswerReview(b)
            PROVE  \E m \in AnswersTo : requests' = <<m>>
        BY <1>b, <2>3, <3>1, <4>2, IntoEmpty
          DEF AnswerReview, Question, Kind, AnswersTo, Asking
      <4> QED
        BY <1>2, <4>1, <4>2 DEF Answers
    <3>3. AnswersTo' = AnswersTo
      BY <2>1 DEF AnswersTo
    <3> QED
      BY <2>1, <3>1, <3>2, <3>3 DEF Asked, Quiet, NoPanel
  <2> QED
    BY <1>0, <2>1, <2>2, <2>3, SameServing DEF ServingInv
<1>3. CASE ConsumeEvents
  <2>0. /\ UNCHANGED <<backend, serving, reader, asks, events, requests>>
        /\ queue # <<>> /\ queue' = Tail(queue)
    BY <1>3 DEF ConsumeEvents, pipes, bounds
  <2>1. CASE ~Active
    BY <1>c, <2>0, <2>1 DEF Active
  <2>2. CASE Active
    <3>1. reader = "read" /\ Head(queue) = queue[1] /\ 1 \in DOMAIN queue
      BY <1>0, <2>0, <2>2, Taken DEF ServingInv
    <3>2. op' = op
      BY <1>3, <3>1 DEF ConsumeEvents, EventsInv
    <3>3. backend \notin {"run", "answered", "silent"}
      BY <1>0, <2>0 DEF ServingInv, Quiet
    <3>4. ASSUME Asking PROVE Asked(Question(Kind), AnswersTo)'
      <4>1. events = <<>> /\ queue = <<Question(Kind)>> /\ requests = <<>>
        BY <1>0, <2>0, <3>4, AskedIs DEF Asked, Quiet
      <4>2. queue' = <<>> /\ panel' = Question(Kind)
        BY <1>3, <1>b, <2>0, <3>4, <4>1, Single DEF ConsumeEvents, Shown
      <4>3. Question(Kind)' = Question(Kind)
        BY <2>0, <3>2 DEF Question, Kind
      <4> QED
        BY <2>0, <4>1, <4>2, <4>3 DEF Asked
    <3>5. backend = "report" => \A i \in DOMAIN queue' : queue'[i].kind \in Questions
      BY <1>0, <2>0, Taken DEF ServingInv
    <3> QED
      BY <1>0, <2>0, <3>2, <3>3, <3>4, <3>5, SameServing DEF ServingInv
  <2> QED
    BY <2>1, <2>2
<1>4. CASE ReaderReads
  <2>0. /\ UNCHANGED <<backend, serving, op, asks, panel, requests>>
        /\ events # <<>> /\ events' = Tail(events)
    BY <1>4 DEF ReaderReads, tui, bounds
  <2>1. CASE ~Active
    BY <1>c, <2>0, <2>1 DEF Active
  <2>2. CASE Active
    <3>1. backend \notin {"run", "answered", "silent"}
      BY <1>0, <2>0 DEF ServingInv, Quiet
    <3>2. CASE Asking
      <4>1. events = <<Question(Kind)>> /\ queue = <<>> /\ panel = NoPanel /\ requests = <<>>
        BY <1>0, <2>0, <3>2, AskedIs DEF Asked, Quiet
      <4>2. Question(Kind).kind # "complete"
        BY <1>b, <3>2 DEF Questions
      <4>3. events' = <<>> /\ queue' = <<Question(Kind)>> /\ reader' = reader
        BY <1>4, <2>0, <4>1, <4>2, Single, IntoEmpty DEF ReaderReads, EndsReading
      <4>4. Question(Kind)' = Question(Kind)
        BY <2>0 DEF Question, Kind
      <4>5. Asked(Question(Kind), AnswersTo)'
        BY <2>0, <4>1, <4>3, <4>4 DEF Asked, NoPanel
      <4> QED
        BY <1>0, <2>0, <3>2, <4>3, <4>5, SameServing DEF Asking
    <3>3. CASE backend = "report"
      <4>1. Head(events) \in QueueLines /\ Head(events).kind \in Questions
        BY <1>0, <2>0, <3>3, Taken DEF ServingInv, QueueLines
      <4>2. queue' = Append(queue, Head(events)) /\ reader' = reader
        BY <1>4, <4>1 DEF ReaderReads, EndsReading, Questions
      <4>3. /\ \A i \in DOMAIN events' : events'[i].kind \in Questions
            /\ \A i \in DOMAIN queue' : queue'[i].kind \in Questions
        BY <1>0, <2>0, <3>3, <4>1, <4>2, Taken, Written DEF ServingInv
      <4> QED
        BY <1>0, <2>0, <3>3, <4>2, <4>3, SameServing DEF Asking
    <3> QED
      BY <2>2, <3>1, <3>2, <3>3 DEF Active, Asking
  <2> QED
    BY <2>1, <2>2
<1>5. CASE ReaderEnds
  BY <1>5, <1>c DEF ReaderEnds, Active
<1>6. CASE ReadLine
  <2>1. CASE IsRequest(Head(requests))
    <3>1. /\ UNCHANGED <<op, reader, events, queue, panel>> /\ Quiet /\ reader = "read"
          /\ serving'.op = op /\ backend' \in {"run", "report"} /\ requests' = <<>>
      <4>1. requests = <<Head(requests)>> => Tail(requests) = <<>>
        BY Single
      <4> QED
        BY <1>6, <2>1, <4>1, LineRead, LineIs DEF IsRequest, tui, thread, Unserved, Quiet
    <3> QED
      BY <3>1 DEF ServingInv, Quiet, NoPanel
  <2>2. CASE ~IsRequest(Head(requests))
    BY <1>6, <1>c, <2>2, LineRead DEF Active
  <2> QED
    BY <2>1, <2>2
<1>7. CASE AskPermission \/ ReviewPlan
  <2>1. /\ Quiet /\ requests = <<>> /\ serving.op = op /\ reader = "read"
        /\ UNCHANGED <<op, reader, queue, panel, requests, serving>> /\ Asking' /\ asks' = asks + 1
    BY <1>7 DEF AskPermission, ReviewPlan, ServingInv, Active, Asking, Stand, tui, thread
  <2>2. events' = <<Question(Kind)>>'
    BY <1>7, <2>1, IntoEmpty DEF AskPermission, ReviewPlan, Stand, Question, Kind, Quiet
  <2>3. Asked(Question(Kind), AnswersTo)'
    BY <2>1, <2>2 DEF Asked, Quiet, NoPanel
  <2> QED
    BY <2>1, <2>3 DEF ServingInv, Active, Asking, Kind, AnswersTo
<1>8. CASE ReadAnswer
  <2>1. Asking /\ UNCHANGED <<op, reader, events, queue, panel, serving>> /\ requests # <<>>
    BY <1>8 DEF ReadAnswer, Asking, tui, thread
  <2>2. Quiet /\ requests' = <<>> /\ serving.op = op /\ reader = "read"
    <3>1. Quiet /\ serving.op = op /\ reader = "read" /\ \E m \in AnswersTo : requests = <<m>>
      BY <1>0, <2>1, AskedIs DEF Asked
    <3> QED
      BY <1>8, <3>1, Single DEF ReadAnswer
  <2>3. backend' \in {"run", "answered", "report"}
    BY <1>8 DEF ReadAnswer, Stand
  <2> QED
    BY <2>1, <2>2, <2>3 DEF ServingInv, Quiet, NoPanel
<1>9. CASE WritePlan \/ Approve
  <2>1. /\ UNCHANGED <<op, reader, events, queue, panel, requests, serving>>
        /\ backend \in {"run", "answered"} /\ backend' = "run"
    BY <1>9 DEF WritePlan, Approve, Stand, tui, thread, pipes
  <2> QED
    BY <1>0, <2>1 DEF ServingInv, Active, Quiet, NoPanel
<1>10. CASE EndSilently \/ Raise
  <2>1. /\ UNCHANGED <<op, reader, events, queue, panel, requests, serving>>
        /\ backend = "run" /\ backend' \in {"silent", "report"}
    BY <1>10 DEF EndSilently, Raise, Stand, tui, thread, pipes
  <2> QED
    BY <1>0, <2>1 DEF ServingInv, Active, Quiet, NoPanel
<1>11. CASE Complete \/ Report \/ Return
  BY <1>11, <1>c DEF Complete, Report, Return, Stand, Active
<1>12. CASE Interrupt
  <2>1. UNCHANGED <<op, reader, queue, panel, requests, serving, asks>>
    BY <1>12, SignalMeets DEF thread, bounds
  <2>2. CASE UNCHANGED <<backend, events>>
    <3>1. Asked(Question(Kind), AnswersTo)' <=> Asked(Question(Kind), AnswersTo)
      BY <2>1, <2>2 DEF Asked, Question, Kind, AnswersTo, Quiet, NoPanel
    <3> QED
      BY <1>0, <2>1, <2>2, <3>1, SameServing, AskedIs DEF ServingInv, Quiet, NoPanel
  <2>3. CASE Active /\ backend' = "report" /\ UNCHANGED events
    <3>1. /\ \A i \in DOMAIN events : events[i].kind \in Questions
          /\ \A i \in DOMAIN queue : queue[i].kind \in Questions
      <4>1. CASE Asking
        <5>1. events \in {<<>>, <<Question(Kind)>>} /\ queue \in {<<>>, <<Question(Kind)>>}
          BY <1>0, <4>1, AskedIs DEF Asked, Quiet
        <5> QED
          BY <1>b, <4>1, <5>1, Single
      <4> QED
        BY <1>0, <2>3, <4>1 DEF ServingInv, Active, Asking, Quiet
    <3> QED
      BY <1>0, <2>1, <2>3, <3>1 DEF ServingInv, Active
  <2>4. CASE backend' \in {"complete", "dead"}
    BY <1>c, <2>4 DEF Active
  <2> QED
    BY <1>12, <2>2, <2>3, <2>4, SignalMeets
<1>13. CASE UNCHANGED vars
  <2>1. UNCHANGED <<backend, serving, op, reader, queue, panel, requests, asks, events>>
    BY <1>13 DEF vars, tui, thread, pipes, bounds
  <2>2. Asked(Question(Kind), AnswersTo)' <=> Asked(Question(Kind), AnswersTo)
    BY <2>1 DEF Asked, Question, Kind, AnswersTo, Quiet, NoPanel
  <2> QED
    BY <1>0, <2>1, <2>2, SameServing, AskedIs DEF ServingInv, Quiet, NoPanel
<1>14. CASE BreakPipe
  BY <1>14, <1>c, PipeBreaks DEF Active
<1> QED
  BY <1>1, <1>2, <1>3, <1>4, <1>5, <1>6, <1>7, <1>8, <1>9, <1>10, <1>11, <1>12, <1>13, <1>14
    DEF Next, Exhausted, Reads, Serves

LEMMA FlowStep == TypeOK /\ FlowInv /\ [Next]_vars => FlowInv'
<1> SUFFICES ASSUME TypeOK, FlowInv, [Next]_vars, Sound' PROVE InStepInv'
  BY DEF FlowInv
<1>1. InStepInv
  BY SoundBefore DEF FlowInv
<1>2. ReaderInv'
  BY <1>1, ReaderStep
<1>3. RequestInv'
  BY <1>1, <1>2, RequestStep
<1>4. EventsInv' /\ ServingInv'
  BY <1>1, EventsStep, ServingStep
<1> QED
  BY <1>2, <1>3, <1>4 DEF InStepInv

\* Unless one of the races happens that the code leaves open, neither end of the
\* pipe gets ahead of the other, whatever is interrupted, fails or dies: every
\* event belongs to the request the TUI waits for, and the backend never waits
\* for an answer nobody can give.
THEOREM PipeIsSound == Spec => []PipeSound
<1>1. TypeOK /\ FlowInv => PipeSound
  <2> SUFFICES ASSUME TypeOK, FlowInv PROVE PipeSound
    OBVIOUS
  <2>1. InPhase
    BY DEF InPhase, OfRequest, FlowInv, InStepInv, EventsInv, Sound
  <2>2. ASSUME Asking, Sound
        PROVE  \/ \E i \in DOMAIN events : Asks(events[i])
               \/ \E i \in DOMAIN queue : Asks(queue[i])
               \/ Asks(panel)
               \/ requests # <<>>
    <3>1. serving.op = op /\ Asked(Question(Kind), AnswersTo)
      BY <2>2, AskedIs DEF FlowInv, InStepInv
    <3>2. Asks(Question(Kind))
      BY <2>2, <3>1 DEF Asks, Question, Kind, Asking, Questions
    <3> QED
      BY <3>1, <3>2, Single DEF Asked
  <2> QED
    BY <2>1, <2>2 DEF PipeSound, AskedIsHeard, Asking, Sound
<1> QED
  BY <1>1, TerminalInitTypes, TerminalTypesStep, InitFlow, FlowStep, PTL DEF Spec

\* A question the backend waits on is in exactly one place, and so is its answer:
\* the pipe, the queue, the screen, or the pipe back, with nothing else in them.
QuestionPlaced == Asking /\ Sound => Asked(Question(Kind), AnswersTo)

\* Unless one of those races happens, whoever asks is heard once: the question is
\* not doubled or left behind by an earlier one, and the next line the backend
\* reads is its answer (_read_permission_response).
THEOREM QuestionsArePlaced == Spec => []QuestionPlaced
<1>1. FlowInv => QuestionPlaced
  BY AskedIs DEF QuestionPlaced, FlowInv, InStepInv
<1> QED
  BY <1>1, TerminalInitTypes, TerminalTypesStep, InitFlow, FlowStep, PTL DEF Spec

\* What a request leaves behind once the TUI stops waiting for it.
NothingLeft == op = 0 /\ Sound => Quiet /\ ~Active

\* Unless one of those races happens, a request that has ended on the screen has ended
\* everywhere: no line of it is in the pipe or the queue, no question of it is shown,
\* and the backend serves nothing that could still write one (_read_operation, which
\* stops at the first loop_complete).
THEOREM RequestsLeaveNothing == Spec => []NothingLeft
<1>1. FlowInv => NothingLeft
  BY DEF FlowInv, InStepInv, ReaderInv, NothingLeft, Quiet
<1> QED
  BY <1>1, TerminalInitTypes, TerminalTypesStep, InitFlow, FlowStep, PTL DEF Spec

-----------------------------------------------------------------------------
(* The screen: the mode on the screen and the mode of the agent.             *)

\* A session is being switched: served, and not refused, or on its way to the screen.
Switching ==
  \/ backend \in {"run", "ask", "review", "answered"} /\ serving.kind = "switch"
  \/ \E i \in DOMAIN events : events[i].kind = "session"
  \/ \E i \in DOMAIN queue : queue[i].kind = "session"

\* That does not happen in Plan Mode, and Plan Mode is not entered meanwhile.
SwitchInv == races = {} /\ backend # "dead" /\ Switching => screenMode = "default"

\* No answer is left over from a question that was given up.
Fresh == (\E i \in DOMAIN requests : IsAnswer(requests[i])) => Asking

\* The plan has been approved and the agent is still in Plan Mode.
Approving ==
  \/ backend = "answered"
  \/ backend = "review" /\ requests # <<>> /\ Head(requests).approved

IsMode(m) == m.kind = "mode"
LastMode(i) == \A j \in DOMAIN requests : IsMode(requests[j]) => j <= i

\* The screen shows the mode the agent will have: the one of the last line that
\* sets it, the default one after an approval, or the one the agent has.
PromisedMode ==
  /\ \A i \in DOMAIN requests : IsMode(requests[i]) =>
       ~Active /\ (LastMode(i) => requests[i].mode = screenMode)
  /\ Approving => screenMode = "default"
  /\ (\A i \in DOMAIN requests : ~IsMode(requests[i])) /\ ~Approving => screenMode = agentMode
ModeInv == races = {} /\ Fresh /\ backend # "dead" => PromisedMode

LEMMA InitModes == Init => SwitchInv /\ ModeInv
BY DEF Init, SwitchInv, Switching, ModeInv, PromisedMode, Approving, IsMode

LEMMA DeadStays ==
  ASSUME TypeOK, [Next]_vars, Sound', InStepInv, backend = "dead"
  PROVE  backend' = "dead"
<1>1. CASE Interrupt
  BY <1>1, SignalMeets DEF InStepInv, Active
<1>2. CASE ReadLine \/ Works
  BY <1>2, BackendWorks DEF ReadLine
<1>3. ASSUME (\E k \in {"prompt", "switch"} : Send(k)) \/ TogglePlan \/ BreakPipe \/ Answers
             \/ ConsumeEvents \/ Reads \/ UNCHANGED vars
      PROVE  backend' = backend
  BY <1>3 DEF Send, TogglePlan, BreakPipe, Answers, AnswerPermission, AnswerReview, ConsumeEvents,
       Reads, ReaderWrites, ReaderReads, ReaderEnds, vars
<1> QED
  BY <1>1, <1>2, <1>3 DEF Next, Exhausted, Serves, Works

\* A TUI that waits for nothing switches no session.
LEMMA IdleSwitchesNothing ==
  ASSUME InStepInv, backend # "dead", op = 0
  PROVE  /\ reader = "off" /\ events = <<>> /\ queue = <<>> /\ ~Active /\ ~Switching
         /\ \A i \in DOMAIN requests : ~IsRequest(requests[i])
<1>1. reader = "off" /\ events = <<>> /\ queue = <<>> /\ ~Active
  BY DEF InStepInv, ReaderInv
<1>2. \A i \in DOMAIN requests : ~IsRequest(requests[i])
  BY <1>1 DEF InStepInv, RequestInv, Unserved
<1> QED
  BY <1>1, <1>2 DEF Switching, Active

LEMMA SwitchStep ==
  ASSUME TypeOK, [Next]_vars, InStepInv, SwitchInv, ModeInv,
         races' = {}, backend' # "dead", Switching'
  PROVE  screenMode' = "default"
<1>0. /\ races = {} /\ Sound' /\ backend # "dead" /\ (Switching => screenMode = "default")
      /\ events \in Seq(Events) /\ queue \in Seq(QueueLines) /\ requests \in Seq(Lines)
  <2>1. races = {} /\ Sound'
    BY RacesGrow DEF Sound
  <2> QED
    BY <2>1, DeadStays DEF SwitchInv, TypeOK, PipesOK, QueueLines
<1>1. CASE (\E k \in {"prompt", "switch"} : Send(k)) \/ UNCHANGED vars
  <2>1. /\ UNCHANGED <<backend, serving, events, screenMode>>
        /\ queue' = queue \/ queue' = <<>>
    BY <1>1 DEF Send, pipes, vars, tui, thread
  <2> QED
    BY <1>0, <2>1 DEF Switching
<1>2. CASE TogglePlan
  <2>1. ~Switching /\ UNCHANGED <<backend, serving, events, queue>>
    BY <1>0, <1>2, IdleSwitchesNothing DEF TogglePlan, thread
  <2> QED
    BY <2>1 DEF Switching
<1>3. CASE Answers
  <2>1. /\ UNCHANGED <<backend, serving, events, queue>>
        /\ screenMode' \in {screenMode, "default"}
    BY <1>3 DEF Answers, AnswerPermission, AnswerReview, thread
  <2> QED
    BY <1>0, <2>1 DEF Switching
<1>4. CASE ConsumeEvents
  <2>1. /\ UNCHANGED <<backend, serving, events>>
        /\ screenMode' \in {screenMode, "default"} /\ queue # <<>> /\ queue' = Tail(queue)
    BY <1>4 DEF ConsumeEvents, pipes
  <2>2. Switching
    BY <1>0, <2>1, Taken DEF Switching
  <2> QED
    BY <1>0, <2>1, <2>2
<1>5. CASE ReaderWrites
  <2>1. UNCHANGED <<screenMode, backend, serving, events, queue>>
    BY <1>0, <1>5 DEF ReaderWrites, tui
  <2> QED
    BY <1>0, <2>1 DEF Switching
<1>6. CASE ReaderReads
  <2>1. /\ UNCHANGED <<screenMode, backend, serving>>
        /\ events # <<>> /\ events' = Tail(events)
    BY <1>6 DEF ReaderReads, tui
  <2>2. Head(events) \in QueueLines /\ End \in QueueLines /\ End.kind = "end"
    BY <1>0, <2>1, Taken DEF QueueLines, End, TypeOK, ScreenOK, BoundsOK
  <2>3. queue' = Append(queue, Head(events)) \/ queue' = Append(Append(queue, Head(events)), End)
    BY <1>0, <1>6, <2>2, WrittenTwice DEF ReaderReads
  <2>4. \A i \in DOMAIN queue' :
          queue'[i].kind = "session" =>
            Head(events).kind = "session" \/ \E j \in DOMAIN queue : queue[j].kind = "session"
    <3> DEFINE q == Append(queue, Head(events))
    <3>1. /\ q \in Seq(QueueLines)
          /\ \A i \in DOMAIN q :
               q[i].kind = "session" =>
                 Head(events).kind = "session" \/ \E j \in DOMAIN queue : queue[j].kind = "session"
      BY <1>0, <2>2, Written
    <3>2. \A i \in DOMAIN Append(q, End) :
            Append(q, End)[i].kind = "session" => i \in DOMAIN q /\ q[i].kind = "session"
      <4> HIDE DEF q
      <4> QED
        BY <2>2, <3>1, Written
    <3>3. queue' = q \/ queue' = Append(q, End)
      BY <2>3
    <3> HIDE DEF q
    <3> QED
      BY <3>1, <3>2, <3>3
  <2>5. /\ Head(events).kind = "session" => \E i \in DOMAIN events : events[i].kind = "session"
        /\ \A i \in DOMAIN events' :
             events'[i].kind = "session" => \E j \in DOMAIN events : events[j].kind = "session"
    BY <1>0, <2>1, Taken
  <2>6. Switching
    BY <2>1, <2>4, <2>5 DEF Switching
  <2> QED
    BY <1>0, <2>1, <2>6
<1>7. CASE ReaderEnds \/ BreakPipe
  BY <1>0, <1>7 DEF ReaderEnds, BreakPipe
\* A switch that is not refused: the agent is in the default mode, and the screen shows
\* it, for the request is the only line there is.
<1>8. CASE ReadLine
  <2>1. UNCHANGED <<screenMode, events, queue>> /\ backend = "idle"
    BY <1>0, <1>8, LineRead DEF InStepInv, tui, thread
  <2>2. CASE Switching
    BY <1>0, <2>1, <2>2
  <2>3. CASE ~Switching
    <3>1. backend' = "run" /\ serving'.kind = "switch"
      <4>1. backend' \in {"run", "ask", "review", "answered"} /\ serving'.kind = "switch"
        BY <2>1, <2>3 DEF Switching
      <4> QED
        BY <1>0, <1>8, <2>1, <4>1, LineRead DEF InStepInv
    <3>2. /\ IsRequest(Head(requests)) /\ requests = <<Head(requests)>> /\ agentMode # "plan"
      BY <1>0, <1>8, <2>1, <3>1, LineRead DEF InStepInv
    <3>3. \A i \in DOMAIN requests : ~IsMode(requests[i]) /\ ~IsAnswer(requests[i])
      BY <3>2, Single DEF IsRequest, IsMode, IsAnswer, Questions
    <3>4. Fresh /\ ~Approving
      BY <2>1, <3>3 DEF Fresh, Approving
    <3>5. screenMode = agentMode
      BY <1>0, <3>3, <3>4 DEF ModeInv, PromisedMode
    <3> QED
      BY <2>1, <3>2, <3>5 DEF TypeOK, BackendOK, Modes
  <2> QED
    BY <2>2, <2>3
<1>9. CASE Works
  <2>1. UNCHANGED <<screenMode, queue, serving>>
    BY <1>9, BackendWorks DEF tui, thread
  <2>2. CASE AskPermission \/ ReviewPlan
    <3>1. events = <<>> /\ serving.kind = "prompt"
      BY <2>2 DEF AskPermission, ReviewPlan, InStepInv, ServingInv, Quiet, Stand
    <3>2. PICK k \in Questions : events' = <<[kind |-> k, op |-> serving.op, ask |-> asks + 1]>>
      BY <2>2, <3>1, IntoEmpty DEF AskPermission, ReviewPlan, Questions
    <3> QED
      BY <1>0, <2>1, <3>1, <3>2, Single DEF Switching, Questions
  <2>3. CASE Complete
    <3>1. events = <<>> /\ backend = "run" /\ backend' = "complete"
      BY <2>3 DEF Complete, InStepInv, ServingInv, Quiet, Stand
    <3>2. \/ serving.kind = "switch"
          \/ events' = <<Event("complete", serving.op)>>
          \/ events' = <<Event("error", serving.op), Event("complete", serving.op)>>
      BY <2>3, <3>1, IntoEmpty DEF Complete, Says, Failed
    <3> QED
      BY <1>0, <2>1, <3>1, <3>2, Single, Two DEF Switching, Event
  <2>4. CASE Report
    <3>1. /\ events' =
               Append(Append(events, Event("error", serving.op)), Event("complete", serving.op))
          /\ Event("error", serving.op) \in Events /\ Event("complete", serving.op) \in Events
      <4>1. serving.op \in Nat
        BY DEF TypeOK, BackendOK
      <4>2. Event("error", serving.op) \in Events /\ Event("complete", serving.op) \in Events
        BY <4>1, EventTyped
      <4> QED
        BY <1>0, <2>4, <4>2, WrittenTwice DEF Report, Says, Failed
    <3>2. /\ Event("error", serving.op).kind # "session"
          /\ Event("complete", serving.op).kind # "session"
      BY DEF Event
    <3>3. backend' = "handled"
      BY <2>4 DEF Report, Stand
    <3>4. Switching
      BY <1>0, <2>1, <3>1, <3>2, <3>3, Written DEF Switching
    <3> QED
      BY <1>0, <2>1, <3>4
  <2>5. CASE WritePlan \/ ReadAnswer \/ Approve \/ EndSilently \/ Raise \/ Return
    <3>1. /\ events' = events
          /\ \/ backend \in {"run", "ask", "review", "answered"}
             \/ backend' = "idle"
      BY <2>5 DEF WritePlan, ReadAnswer, Approve, EndSilently, Raise, Return, Stand, pipes
    <3> QED
      BY <1>0, <2>1, <3>1 DEF Switching
  <2> QED
    BY <1>9, <2>2, <2>3, <2>4, <2>5 DEF Works
<1>10. CASE Interrupt
  <2>1. UNCHANGED <<screenMode, queue, serving>>
    BY <1>0, <1>10, SignalMeets DEF InStepInv, thread
  <2>2. \/ UNCHANGED <<backend, events>>
        \/ backend' = "report" /\ UNCHANGED events
        \/ backend' = "complete" /\ events' = <<Event("error", op), Event("complete", op)>>
    BY <1>0, <1>10, SignalMeets DEF InStepInv
  <2>3. events' = events \/ \A i \in DOMAIN events' : events'[i].kind # "session"
    BY <2>2, Two DEF Event
  <2>4. Switching
    BY <2>1, <2>2, <2>3 DEF Switching
  <2> QED
    BY <1>0, <2>1, <2>4
<1> QED
  BY <1>1, <1>2, <1>3, <1>4, <1>5, <1>6, <1>7, <1>8, <1>9, <1>10
    DEF Next, Exhausted, Reads, Serves, Works

\* An answer that is left over stays so until it is read, which is a race.
LEMMA FreshBefore ==
  ASSUME TypeOK, [Next]_vars, Sound', InStepInv, backend' # "dead", Fresh'
  PROVE  Fresh
<1> SUFFICES ASSUME ~Fresh PROVE ~Fresh'
  OBVIOUS
<1>0. ~Asking /\ requests \in Seq(Lines) /\ backend # "dead"
  BY DeadStays DEF Fresh, TypeOK, PipesOK
<1>1. PICK i \in DOMAIN requests : IsAnswer(requests[i])
  BY DEF Fresh
<1>2. CASE requests' = requests /\ ~Asking'
  BY <1>1, <1>2 DEF Fresh
<1>3. ASSUME NEW m \in Lines, requests' = Append(requests, m), backend' = backend PROVE ~Fresh'
  BY <1>0, <1>1, <1>3, Written DEF Fresh, Asking
<1>4. ASSUME (\E k \in {"prompt", "switch"} : Send(k)) \/ ConsumeEvents \/ ReaderReads \/ ReaderEnds
             \/ UNCHANGED vars
      PROVE  UNCHANGED <<requests, backend>>
  BY <1>4 DEF Send, ConsumeEvents, ReaderReads, ReaderEnds, vars, pipes
<1>5. CASE TogglePlan
  BY <1>3, <1>5 DEF TogglePlan, Lines, Modes, Other
<1>6. CASE Answers
  <2>1. /\ [kind |-> "permission", ask |-> panel.ask] \in Lines
        /\ \A b \in BOOLEAN : [kind |-> "review", approved |-> b] \in Lines
    BY DEF Lines, TypeOK, ScreenOK
  <2>2. CASE AnswerPermission
    BY <1>3, <2>1, <2>2 DEF AnswerPermission
  <2>3. ASSUME NEW b \in BOOLEAN, AnswerReview(b) PROVE ~Fresh'
    BY <1>3, <2>1, <2>3 DEF AnswerReview
  <2> QED
    BY <1>6, <2>2, <2>3 DEF Answers
<1>7. CASE ReaderWrites
  <2>1. [kind |-> reader, op |-> op] \in Lines
    BY <1>7 DEF ReaderWrites, Lines, TypeOK, ScreenOK, BoundsOK
  <2> QED
    BY <1>0, <1>3, <1>7, <2>1 DEF ReaderWrites
<1>8. CASE ReadLine
  <2>1. /\ requests # <<>> /\ requests' = Tail(requests) /\ ~IsAnswer(Head(requests))
        /\ IsRequest(Head(requests)) => requests = <<Head(requests)>>
        /\ ~IsRequest(Head(requests)) => backend' = backend
    BY <1>8, LineRead DEF InStepInv, IsAnswer, IsRequest, Questions
  <2>2. i # 1 /\ i - 1 \in DOMAIN requests' /\ requests'[i - 1] = requests[i]
    BY <1>0, <1>1, <2>1, Taken
  <2>3. ~IsRequest(Head(requests))
    BY <1>1, <2>1, <2>2, Single
  <2> QED
    BY <1>0, <1>1, <2>1, <2>2, <2>3 DEF Fresh, Asking
<1>9. CASE Works
  <2>1. ~(AskPermission \/ ReviewPlan)
    BY <1>1 DEF AskPermission, ReviewPlan, InStepInv, ServingInv
  <2>2. ~ReadAnswer
    BY <1>0 DEF ReadAnswer, Asking
  <2>3. ASSUME WritePlan \/ Approve \/ Complete \/ EndSilently \/ Raise \/ Report \/ Return
        PROVE  requests' = requests /\ ~Asking'
    BY <1>0, <2>3 DEF WritePlan, Approve, Complete, EndSilently, Raise, Report, Return, Stand, Asking, pipes
  <2> QED
    BY <1>2, <1>9, <2>1, <2>2, <2>3 DEF Works
<1>10. CASE Interrupt
  BY <1>0, <1>2, <1>10, SignalMeets DEF InStepInv, Asking
<1>11. CASE BreakPipe
  BY <1>0, <1>11, PipeBreaks
<1> QED
  BY <1>0, <1>2, <1>4, <1>5, <1>6, <1>7, <1>8, <1>9, <1>10, <1>11
    DEF Next, Exhausted, Reads, Serves, Works, Asking

\* Nothing that the promise speaks of changes.
LEMMA SamePromise ==
  ASSUME PromisedMode, UNCHANGED <<requests, agentMode, screenMode>>,
         Active' => Active, Approving' <=> Approving
  PROVE  PromisedMode'
BY DEF PromisedMode, LastMode

\* Lines without a mode, and nothing approved that the agent does not know of.
LEMMA NoPromise ==
  ASSUME \A i \in DOMAIN requests' : ~IsMode(requests'[i]), ~Approving', screenMode' = agentMode'
  PROVE  PromisedMode'
BY DEF PromisedMode

LEMMA ModeStep ==
  ASSUME TypeOK, [Next]_vars, InStepInv, SwitchInv, ModeInv,
         races' = {}, Fresh', backend' # "dead"
  PROVE  PromisedMode'
<1>0. /\ races = {} /\ Sound /\ Sound' /\ backend # "dead"
      /\ requests \in Seq(Lines) /\ queue \in Seq(QueueLines)
  BY RacesGrow, DeadStays DEF Sound, TypeOK, PipesOK, QueueLines
<1>1. Fresh /\ PromisedMode
  BY <1>0, FreshBefore DEF ModeInv
<1>2. ASSUME (\E k \in {"prompt", "switch"} : Send(k)) \/ ReaderReads \/ ReaderEnds
             \/ UNCHANGED vars
      PROVE  PromisedMode'
  <2>1. UNCHANGED <<requests, agentMode, screenMode, backend>>
    BY <1>2 DEF Send, ReaderReads, ReaderEnds, vars, tui, pipes, agent
  <2> QED
    BY <1>1, <2>1, SamePromise DEF Active, Approving
<1>3. CASE TogglePlan
  <2>1. ~Active /\ UNCHANGED backend
    BY <1>0, <1>3, IdleSwitchesNothing DEF TogglePlan
  <2>2. /\ requests' = Append(requests, [kind |-> "mode", mode |-> screenMode'])
        /\ [kind |-> "mode", mode |-> screenMode'] \in Lines
    BY <1>3 DEF TogglePlan, Lines, Modes, Other
  <2>3. /\ Len(requests) + 1 \in DOMAIN requests' /\ IsMode(requests'[Len(requests) + 1])
        /\ requests'[Len(requests) + 1].mode = screenMode'
        /\ \A i \in DOMAIN requests' : i = Len(requests) + 1 \/ i < Len(requests) + 1
    <3>1. DOMAIN requests' = 1 .. Len(requests) + 1 /\ Len(requests) \in Nat
      BY <1>0, <2>2
    <3> QED
      BY <1>0, <2>2, <3>1, Written DEF IsMode
  <2>4. ASSUME NEW i \in DOMAIN requests', LastMode(i)' PROVE i = Len(requests) + 1
    <3>1. Len(requests) + 1 <= i
      BY <2>3, <2>4 DEF LastMode
    <3>2. i \in Nat /\ Len(requests) + 1 \in Nat
      BY <1>0, <2>2
    <3>3. i = Len(requests) + 1 \/ i < Len(requests) + 1
      BY <2>3
    <3> QED
      BY <3>1, <3>2, <3>3
  <2> QED
    BY <2>1, <2>3, <2>4 DEF PromisedMode, Active, Approving
<1>4. CASE Answers
  <2>0. /\ panel.kind \in Questions /\ UNCHANGED <<backend, agentMode, asks>>
        /\ \E m \in Lines : requests' = Append(requests, m) /\ IsAnswer(m)
    <3>1. /\ [kind |-> "permission", ask |-> panel.ask] \in Lines
          /\ \A b \in BOOLEAN : [kind |-> "review", approved |-> b] \in Lines
      BY DEF Lines, TypeOK, ScreenOK
    <3>2. CASE AnswerPermission
      BY <3>1, <3>2 DEF AnswerPermission, IsAnswer, Questions, agent, bounds
    <3>3. ASSUME NEW b \in BOOLEAN, AnswerReview(b)
          PROVE  /\ panel.kind \in Questions /\ UNCHANGED <<backend, agentMode, asks>>
                 /\ \E m \in Lines : requests' = Append(requests, m) /\ IsAnswer(m)
      BY <3>1, <3>3 DEF AnswerReview, IsAnswer, Questions, agent, bounds
    <3> QED
      BY <1>4, <3>2, <3>3 DEF Answers
  <2>1. Asking
    BY <1>0, <2>0, Written DEF Fresh, Asking
  <2>2. requests = <<>> /\ panel.kind = Kind
    BY <2>0, <2>1, AskedIs DEF InStepInv, Asked, Quiet, NoPanel, Question, Questions
  <2>3. ~Approving /\ screenMode = agentMode
    BY <1>1, <2>1, <2>2 DEF Approving, Asking, PromisedMode
  <2>4. CASE AnswerPermission
    <3>1. backend = "ask" /\ screenMode' = screenMode
      BY <2>1, <2>2, <2>4 DEF AnswerPermission, Kind, Asking
    <3>2. \A i \in DOMAIN requests' : ~IsMode(requests'[i])
      BY <2>2, <2>4, IntoEmpty, Single DEF AnswerPermission, IsMode
    <3> QED
      BY <2>0, <2>3, <3>1, <3>2, NoPromise DEF Approving
  <2>5. ASSUME NEW b \in BOOLEAN, AnswerReview(b) PROVE PromisedMode'
    <3>1. requests' = <<[kind |-> "review", approved |-> b]>> /\ backend' = "review"
      BY <2>0, <2>1, <2>2, <2>5, IntoEmpty DEF AnswerReview, Kind, Asking
    <3>2. /\ \A i \in DOMAIN requests' : ~IsMode(requests'[i])
          /\ Approving' <=> b
      BY <3>1, Single DEF IsMode, Approving
    <3>3. CASE b
      BY <2>5, <3>2, <3>3 DEF AnswerReview, PromisedMode
    <3>4. CASE ~b
      BY <2>0, <2>3, <2>5, <3>2, <3>4, NoPromise DEF AnswerReview
    <3> QED
      BY <3>3, <3>4
  <2> QED
    BY <1>4, <2>4, <2>5 DEF Answers
<1>5. CASE ConsumeEvents
  <2>1. UNCHANGED <<requests, agentMode, backend>>
    BY <1>5 DEF ConsumeEvents, pipes, agent
  <2>2. Head(queue).kind = "session" => screenMode = "default"
    BY <1>0, <1>5, Taken DEF ConsumeEvents, SwitchInv, Switching
  <2>3. screenMode' = screenMode
    BY <1>5, <2>2 DEF ConsumeEvents
  <2> QED
    BY <1>1, <2>1, <2>3, SamePromise DEF Active, Approving
<1>6. CASE ReaderWrites
  <2>1. /\ requests' = Append(requests, [kind |-> reader, op |-> op])
        /\ [kind |-> reader, op |-> op] \in Lines /\ ~IsMode([kind |-> reader, op |-> op])
        /\ UNCHANGED <<agentMode, screenMode, backend>> /\ ~Active
    BY <1>0, <1>6 DEF ReaderWrites, tui, agent, Lines, IsMode, TypeOK, ScreenOK, BoundsOK,
         InStepInv, ServingInv
  <2>2. ~Approving /\ ~Approving' /\ ~Active'
    BY <2>1 DEF Approving, Active
  <2>3. /\ \A i \in DOMAIN requests' : IsMode(requests'[i]) => i \in DOMAIN requests
        /\ \A i \in DOMAIN requests : requests'[i] = requests[i] /\ i \in DOMAIN requests'
    BY <1>0, <2>1, Written
  <2>4. ASSUME NEW i \in DOMAIN requests', IsMode(requests'[i]), LastMode(i)'
        PROVE  requests'[i].mode = screenMode'
    <3>1. LastMode(i)
      BY <2>3, <2>4 DEF LastMode
    <3> QED
      BY <1>1, <2>1, <2>3, <2>4, <3>1 DEF PromisedMode
  <2>5. (\A i \in DOMAIN requests' : ~IsMode(requests'[i])) => screenMode' = agentMode'
    BY <1>1, <2>1, <2>2, <2>3 DEF PromisedMode
  <2> QED
    BY <2>2, <2>4, <2>5 DEF PromisedMode
<1>7. CASE ReadLine
  <2>0. /\ backend = "idle" /\ requests # <<>> /\ requests' = Tail(requests)
        /\ UNCHANGED screenMode /\ ~Approving /\ ~Approving'
    BY <1>0, <1>7, LineRead DEF InStepInv, tui, Approving
  <2>1. CASE IsRequest(Head(requests))
    <3>1. requests = <<Head(requests)>> /\ UNCHANGED agentMode /\ ~IsMode(Head(requests))
      BY <1>0, <1>7, <2>1, LineRead DEF InStepInv, agent, IsRequest, IsMode
    <3>2. /\ \A i \in DOMAIN requests : ~IsMode(requests[i])
          /\ \A i \in DOMAIN requests' : ~IsMode(requests'[i])
      BY <2>0, <3>1, Single
    <3> QED
      BY <1>1, <2>0, <3>1, <3>2, NoPromise DEF PromisedMode
  <2>2. CASE ~IsRequest(Head(requests))
    <3>1. /\ IsMode(Head(requests)) /\ agentMode' = Head(requests).mode /\ UNCHANGED backend
      BY <1>0, <1>7, <2>2, LineRead DEF InStepInv, IsMode
    <3>2. /\ Head(requests) = requests[1] /\ 1 \in DOMAIN requests
          /\ \A i \in DOMAIN requests' : /\ i + 1 \in DOMAIN requests
                                         /\ requests'[i] = requests[i + 1]
          /\ \A j \in DOMAIN requests : j \in Nat /\ (j = 1 \/ j - 1 \in DOMAIN requests')
          /\ \A i \in DOMAIN requests' : i \in Nat
      BY <1>0, <2>0, Taken
    <3>3. ASSUME NEW i \in DOMAIN requests', IsMode(requests'[i]), LastMode(i)'
          PROVE  requests'[i].mode = screenMode'
      <4>1. ASSUME NEW j \in DOMAIN requests, IsMode(requests[j]) PROVE j <= i + 1
        <5>1. CASE j = 1
          BY <3>2, <5>1
        <5>2. CASE j # 1
          <6>1. j - 1 \in DOMAIN requests' /\ requests'[j - 1] = requests[(j - 1) + 1]
            BY <3>2, <5>2
          <6>2. IsMode(requests'[j - 1])
            BY <3>2, <4>1, <6>1
          <6> QED
            BY <3>2, <3>3, <6>1, <6>2 DEF LastMode
        <5> QED
          BY <5>1, <5>2
      <4>2. LastMode(i + 1)
        BY <4>1 DEF LastMode
      <4> QED
        BY <1>1, <2>0, <3>2, <3>3, <4>2 DEF PromisedMode
    <3>4. ASSUME \A i \in DOMAIN requests' : ~IsMode(requests'[i])
          PROVE  screenMode' = agentMode'
      <4>1. ASSUME NEW j \in DOMAIN requests, IsMode(requests[j]) PROVE j <= 1
        <5>1. CASE j # 1
          <6>1. j - 1 \in DOMAIN requests' /\ requests'[j - 1] = requests[(j - 1) + 1]
            BY <3>2, <5>1
          <6> QED
            BY <3>2, <3>4, <4>1, <6>1
        <5> QED
          BY <5>1
      <4>2. LastMode(1)
        BY <4>1 DEF LastMode
      <4> QED
        BY <1>1, <2>0, <3>1, <3>2, <4>2 DEF PromisedMode
    <3>5. ~Active'
      BY <2>0, <3>1 DEF Active
    <3> QED
      BY <2>0, <3>3, <3>4, <3>5 DEF PromisedMode
  <2> QED
    BY <2>1, <2>2
<1>8. CASE AskPermission \/ ReviewPlan
  <2>1. /\ backend = "run" /\ requests = <<>> /\ UNCHANGED <<requests, agentMode, screenMode>>
        /\ backend' \in {"ask", "review"}
    BY <1>8 DEF AskPermission, ReviewPlan, InStepInv, ServingInv, Stand, tui, agent
  <2> QED
    BY <1>1, <2>1, SamePromise DEF Active, Approving
<1>9. CASE ReadAnswer
  <2>1. /\ Asking /\ UNCHANGED <<screenMode, agentMode>>
        /\ requests' = Tail(requests) /\ requests # <<>>
    BY <1>9 DEF ReadAnswer, Asking, tui, agent
  <2>2. PICK m \in AnswersTo : requests = <<m>>
    BY <2>1, AskedIs DEF InStepInv, Asked
  <2>3. /\ requests' = <<>> /\ Head(requests) = m /\ IsAnswer(m)
        /\ \A i \in DOMAIN requests : ~IsMode(requests[i])
    BY <2>1, <2>2, Single DEF AnswersTo, IsAnswer, IsMode, Questions
  <2>4. backend' = "answered" => Approving
    BY <1>9, <2>1, <2>3 DEF ReadAnswer, Stand, Approving, Asking
  <2>5. /\ backend' \in {"run", "report"} => ~Approving
        /\ backend' \in {"run", "report", "answered"}
    BY <1>9, <2>1, <2>2, <2>3 DEF ReadAnswer, Stand, Approving, Asking, AnswersTo
  <2>6. CASE backend' = "answered"
    BY <1>1, <2>1, <2>3, <2>4, <2>6 DEF PromisedMode, Approving
  <2>7. CASE backend' \in {"run", "report"}
    BY <1>1, <2>1, <2>3, <2>5, <2>7 DEF PromisedMode, Approving
  <2> QED
    BY <2>5, <2>6, <2>7
<1>10. CASE Approve
  <2>1. /\ Approving /\ requests = <<>> /\ requests' = <<>> /\ agentMode' = "default"
        /\ screenMode' = screenMode /\ backend' = "run"
    BY <1>10 DEF Approve, Approving, InStepInv, ServingInv, Stand, tui, pipes
  <2> QED
    BY <1>1, <2>1 DEF PromisedMode, Approving
<1>11. CASE WritePlan \/ Complete \/ EndSilently \/ Raise \/ Report \/ Return
  <2>1. /\ UNCHANGED <<requests, agentMode, screenMode>>
        /\ backend \in {"run", "report", "complete", "handled", "silent"}
        /\ backend' \in {"run", "report", "complete", "handled", "silent", "idle"}
        /\ backend \in {"complete", "handled"} => backend' = "idle"
    BY <1>11 DEF WritePlan, Complete, EndSilently, Raise, Report, Return, Stand, tui, pipes, agent
  <2> QED
    BY <1>1, <2>1, SamePromise DEF Active, Approving
<1>12. CASE Interrupt
  <2>1. UNCHANGED <<requests, agentMode, screenMode>>
    BY <1>12 DEF Interrupt, agent
  <2>2. backend # "answered" /\ backend \in Stands
    <3>1. backend \in Stands /\ Interrupted
      BY <1>12 DEF Interrupt, TypeOK, BackendOK
    <3>2. ASSUME backend = "answered" PROVE "unapproved" \in races'
      BY <3>1, <3>2, SignalIs
    <3> QED
      BY <1>0, <3>1, <3>2
  <2>3. CASE UNCHANGED backend
    BY <1>1, <2>1, <2>3, SamePromise DEF Active, Approving
  <2>4. CASE ~Asking /\ backend' \in {"report", "complete"}
    <3>1. Active' => Active
      BY <1>0, <1>12, <2>4, SignalMeets DEF InStepInv, Active
    <3> QED
      BY <1>1, <2>1, <2>2, <2>4, <3>1, SamePromise DEF Approving, Asking
  <2>5. CASE Asking /\ backend' \in {"report", "complete"}
    <3>1. requests = <<>>
      <4>1. \A m \in AnswersTo : IsAnswer(m)
        BY DEF AnswersTo, IsAnswer, Questions
      <4>2. requests = <<>> \/ \E m \in AnswersTo : requests = <<m>>
        BY <2>5, AskedIs DEF InStepInv, Asked
      <4> QED
        BY <2>1, <2>5, <4>1, <4>2, Single DEF Fresh, Asking
    <3> QED
      BY <1>1, <2>1, <2>2, <2>5, <3>1 DEF PromisedMode, Approving
  <2> QED
    BY <1>0, <1>12, <2>3, <2>4, <2>5, SignalMeets DEF InStepInv
<1>13. CASE BreakPipe
  BY <1>0, <1>13, PipeBreaks
<1> QED
  BY <1>2, <1>3, <1>4, <1>5, <1>6, <1>7, <1>8, <1>9, <1>10, <1>11, <1>12, <1>13
    DEF Next, Exhausted, Reads, Serves

LEMMA ModesStep ==
  TypeOK /\ FlowInv /\ SwitchInv /\ ModeInv /\ [Next]_vars => SwitchInv' /\ ModeInv'
<1> SUFFICES ASSUME TypeOK, FlowInv, SwitchInv, ModeInv, [Next]_vars PROVE SwitchInv' /\ ModeInv'
  OBVIOUS
<1>1. Sound' => InStepInv
  BY SoundBefore DEF FlowInv
<1>2. races' = {} => Sound'
  BY DEF Sound
<1>3. SwitchInv'
  BY <1>1, <1>2, SwitchStep DEF SwitchInv
<1>4. ModeInv'
  BY <1>1, <1>2, ModeStep DEF ModeInv
<1> QED
  BY <1>3, <1>4

\* When the TUI waits for nothing and the backend has nothing to read, both are in
\* the same mode, unless a race was lost: /plan and the approval of a plan, which
\* each change the mode on one side first, meet requests, answers, session
\* switches and interrupts in any order.
THEOREM ModesDoAgree == Spec => []ModesAgree
<1>1. ModeInv => ModesAgree
  BY DEF ModeInv, PromisedMode, ModesAgree, Fresh, Approving
<1> QED
  BY <1>1, TerminalInitTypes, TerminalTypesStep, InitFlow, FlowStep, InitModes, ModesStep, PTL
    DEF Spec
=============================================================================
