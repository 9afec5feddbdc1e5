----------------------------- MODULE AgentTurn ------------------------------
(***************************************************************************)
(* The agent's turn and the session log behind it: the loop of             *)
(* core/agent.py (Agent._stream), the commits of memory/session.py, the     *)
(* SIGINT and generator handling of interfaces/backend.py, and the end and  *)
(* restart of the process.                                                  *)
(*                                                                          *)
(* Every record is appended to the log before it is added to the context;   *)
(* an append may fail, leaving nothing, a part or all of the record in the  *)
(* file. SIGINT reaches the turn in one of two ways. Raised inside the      *)
(* generator it is caught there and every call of the batch gets an         *)
(* "interrupted" result; raised in run_backend, while the generator waits   *)
(* at a yield, it closes the generator.                                     *)
(*                                                                          *)
(* What the tools do, which calls are refused and what the model says is    *)
(* abstracted.                                                              *)
(***************************************************************************)
EXTENDS SessionLog, FiniteSetsExt

\* Operators named Mut... are not part of the model: each is the definition
\* that follows it with a bug, used to show that a property notices that bug.

CONSTANTS
  Session,        \* session ids
  None,           \* no session
  MaxIterations,  \* max_iterations of the agent
  MaxBatch,       \* bound of the model: calls of one response
  Faults          \* the failures a behaviour may contain

FaultKinds == {
  "append",          \* an append fails and leaves nothing in the file
  "torn",            \* an append fails after a part of the record
  "unsynced",        \* the record is written, then fsync fails
  "interrupt",       \* SIGINT while the generator runs
  "yieldInterrupt",  \* SIGINT, or a bad reply, while the generator is suspended
  "contextLength",   \* the provider rejects the request as too long
  "create",          \* no new session file can be created
  "crash",           \* the process ends without notice
  "tornCrash" }      \* the same in the middle of an append

ASSUME NoneAssumption == None \notin Session
ASSUME LimitsAssumption == MaxIterations \in Nat \ {0} /\ MaxBatch \in Nat
ASSUME FaultsAssumption == Faults \subseteq FaultKinds

VARIABLES
  \* ---- on disk
  saved,       \* the sessions that have a file
  log,         \* the lines of each session's file
  \* ---- SessionManager and ContextManager
  current,     \* _current_id
  context,     \* _messages, without the reply that is being streamed
  circuitOpen, \* _compaction_circuit_open
  \* ---- the turn
  pc,          \* where the process is
  iteration,   \* the loop's index; 0 while the selected Skills are loaded
  calls,       \* the tool calls of the response under way
  done,        \* how many of them the present step has dealt with
  executed,    \* those whose tool has been run
  recovered,   \* context_length_recoveries
  nextCall,    \* the next call id
  \* ---- history
  reported,    \* LoopCompleteEvents of the last turn
  late,        \* SIGINT arrived when the last of them had been written
  scarred      \* an append failed, or the generator was closed amid a batch,
               \* since the current session was opened

disk == <<saved, log>>
batchVars == <<calls, done, executed>>
turnVars == <<iteration, recovered, batchVars>>
vars == <<disk, current, context, circuitOpen, pc, turnVars, nextCall, reported,
          late, scarred>>

-----------------------------------------------------------------------------
Init ==
  /\ saved = {} /\ log = [s \in Session |-> <<>>]
  /\ current = None /\ context = <<>> /\ circuitOpen = FALSE
  /\ pc = "down" /\ iteration = 0 /\ calls = <<>> /\ done = 0
  /\ executed = {} /\ recovered = FALSE /\ nextCall = 1
  /\ reported = 1 /\ late = FALSE /\ scarred = FALSE

\* _append() and the addition to the context. The file is not created.
Committed(l) ==
  /\ current \in saved
  /\ log' = [log EXCEPT ![current] = Written(@, l, "whole")]
  /\ context' = Append(context, l)
  /\ UNCHANGED <<saved, scarred>>

\* What a failed append may leave in the file.
Extents ==
  {e \in {"none", "torn", "whole"} :
    \/ e = "none" /\ ("append" \in Faults \/ current \notin saved)
    \/ e = "torn" /\ "torn" \in Faults /\ current \in saved
    \/ e = "whole" /\ "unsynced" \in Faults /\ current \in saved}

MutCommitFails(l) ==
  /\ "append" \in Faults /\ context' = Append(context, l) /\ scarred' = TRUE
  /\ UNCHANGED disk

CommitFails(l) ==
  /\ \E e \in Extents : log' = [log EXCEPT ![current] = Written(@, l, e)]
  /\ scarred' = TRUE
  /\ UNCHANGED <<saved, context>>

\* The turn is over and its LoopCompleteEvent has been written: by the generator,
\* after which run_backend is still active, or by run_backend's handlers.
NoBatch == calls' = <<>> /\ done' = 0 /\ executed' = {}
Over(to) ==
  /\ pc' = to /\ reported' = reported + 1
  /\ iteration' = 0 /\ recovered' = FALSE /\ NoBatch /\ UNCHANGED late
Ends == Over("ended")
Reports == Over("idle")
Goes(to) == pc' = to /\ UNCHANGED <<reported, late>>

\* Bound of the model: messages of the user do not make the logs longer.
Room(n) == MapThenSumSet(LAMBDA s : Len(log[s]), Session) + n <= MaxLines

Batch(n) == [i \in 1..n |-> nextCall + i - 1]
NewBatch(n) ==
  /\ nextCall + n <= MaxCalls + 1
  /\ calls' = Batch(n) /\ nextCall' = nextCall + n
  /\ done' = 0 /\ executed' = {}

-----------------------------------------------------------------------------
(* The turn                                                                 *)

\* A request of the user. The results of background tasks come first.
StartTurn ==
  /\ pc = "idle" /\ Room(1)
  /\ pc' = "opening" /\ reported' = 0 /\ late' = FALSE
  /\ iteration' = 0 /\ recovered' = FALSE /\ NoBatch
  /\ UNCHANGED <<disk, current, context, circuitOpen, nextCall, scarred>>

\* stream(): the user's message is committed. With selected Skills, a batch of
\* LoadSkill calls comes before the first request.
UserTurn ==
  /\ pc = "opening" /\ recovered' = FALSE
  /\ \/ /\ Committed(User) /\ UNCHANGED <<reported, late>>
        /\ \/ /\ iteration' = 1 /\ pc' = "draining" /\ NoBatch
              /\ UNCHANGED nextCall
           \/ /\ iteration' = 0 /\ pc' = "calling"
              /\ \E n \in 1..MaxBatch : NewBatch(n)
     \/ CommitFails(User) /\ Ends /\ UNCHANGED nextCall
  /\ UNCHANGED <<current, circuitOpen>>

\* The result of a background task becomes a hidden user message. A failure to
\* commit it is caught by run_backend only, which reports the end as well.
DrainResult ==
  /\ pc \in {"opening", "draining"} /\ Room(IF pc = "opening" THEN 2 ELSE 1)
  /\ \/ Committed(User) /\ UNCHANGED <<pc, reported, late, turnVars>>
     \/ CommitFails(User) /\ Reports
  /\ UNCHANGED <<current, circuitOpen, nextCall>>

MutCompacted ==
  \E n \in Cutoffs(context) :
    /\ current \in saved /\ context' = SubSeq(context, n + 1, Len(context))
    /\ circuitOpen' = FALSE
    /\ UNCHANGED <<disk, scarred>>

\* _compact(): the checkpoint is committed, then applied.
Compacted ==
  \E n \in Cutoffs(context) :
    /\ current \in saved
    /\ log' = [log EXCEPT ![current] = Written(@, Checkpoint(n), "whole")]
    /\ context' = SubSeq(context, n + 1, Len(context))
    /\ circuitOpen' = FALSE
    /\ UNCHANGED <<saved, scarred>>

\* No attempt yields a summary, or the checkpoint is not committed.
CompactionFails ==
  \E n \in Cutoffs(context) :
    /\ \/ UNCHANGED <<disk, context, scarred>>
       \/ CommitFails(Checkpoint(n))
    /\ circuitOpen' = TRUE

\* Automatic compaction before a request; whatever comes of it, the request
\* follows unless the context is too large for it.
Request ==
  /\ pc = "draining"
  /\ \/ UNCHANGED <<disk, context, circuitOpen, scarred>>
     \/ ~circuitOpen /\ (Compacted \/ CompactionFails)
  /\ \/ Goes("streaming") /\ UNCHANGED turnVars
     \/ Ends
  /\ UNCHANGED <<current, nextCall>>

\* The reply is complete: it is committed, then its calls one by one.
Reply ==
  /\ pc = "streaming"
  /\ \/ /\ Committed(Assistant)
        /\ \E n \in 0..MaxBatch :
             NewBatch(n) /\ Goes(IF n = 0 THEN "replied" ELSE "calling")
        /\ UNCHANGED <<iteration, recovered>>
     \/ CommitFails(Assistant) /\ Ends /\ UNCHANGED nextCall
  /\ UNCHANGED <<current, circuitOpen>>

MutReplyCut ==
  /\ pc = "streaming"
  /\ Committed(Assistant) \/ CommitFails(Assistant)
  /\ pc' = "replied" /\ reported' = reported + 1
  /\ UNCHANGED <<current, circuitOpen, turnVars, nextCall, late>>

\* The provider fails, or SIGINT arrives inside the generator or at a yield: the
\* partial reply is committed as an error, or discarded if that fails.
ReplyCut ==
  /\ pc = "streaming"
  /\ Committed(Assistant) \/ CommitFails(Assistant)
  /\ Ends \/ Reports
  /\ UNCHANGED <<current, circuitOpen, nextCall>>

MutContextTooLong ==
  /\ pc = "streaming" /\ "contextLength" \in Faults
  /\ circuitOpen \/ Cutoffs(context) = {}
  /\ Goes("draining")
  /\ UNCHANGED <<disk, context, circuitOpen, scarred, current, turnVars, nextCall>>

\* The request is too long: compact and go on to the next iteration, once per
\* turn. After the last iteration the loop runs out and reports nothing.
ContextTooLong ==
  /\ pc = "streaming" /\ "contextLength" \in Faults /\ ~recovered
  /\ \/ /\ ~circuitOpen /\ Compacted /\ recovered' = TRUE
        /\ IF iteration = MaxIterations THEN Goes("ended") /\ UNCHANGED iteration
           ELSE Goes("draining") /\ iteration' = iteration + 1
        /\ NoBatch
     \/ ~circuitOpen /\ CompactionFails /\ Ends
     \/ /\ circuitOpen \/ Cutoffs(context) = {} \/ "interrupt" \in Faults
        /\ Ends /\ UNCHANGED <<disk, context, circuitOpen, scarred>>
  /\ UNCHANGED <<current, nextCall>>

\* One of the calls is dealt with; after the last one, on to the next step.
Advance(from, to) ==
  /\ IF done + 1 = Len(calls) THEN done' = 0 /\ Goes(to)
     ELSE done' = done + 1 /\ Goes(from)
  /\ UNCHANGED <<iteration, recovered, calls, executed>>

MutCommitCall ==
  /\ pc = "calling"
  /\ Committed(CallOf(calls[done + 1])) \/ CommitFails(CallOf(calls[done + 1]))
  /\ Advance("calling", "executing")
  /\ UNCHANGED <<current, circuitOpen, nextCall>>

\* The calls are committed before any tool runs.
CommitCall ==
  /\ pc = "calling"
  /\ LET l == CallOf(calls[done + 1]) IN
     \/ Committed(l) /\ Advance("calling", "executing")
     \/ CommitFails(l) /\ Ends
  /\ UNCHANGED <<current, circuitOpen, nextCall>>

\* _execute_tools() runs some of the calls and refuses the others.
Execute(c) ==
  /\ pc = "executing" /\ c \in ToSet(calls) \ executed
  /\ executed' = executed \union {c}
  /\ UNCHANGED <<disk, current, context, circuitOpen, pc, iteration, recovered,
                 calls, done, nextCall, reported, late, scarred>>

\* It yields: a permission request, a plan review, an event of a subagent. (In
\* the model at most once per call.)
Suspend ==
  /\ pc = "executing" /\ done < Len(calls)
  /\ Goes("suspended") /\ done' = done + 1
  /\ UNCHANGED <<disk, current, context, circuitOpen, iteration, recovered,
                 calls, executed, nextCall, scarred>>

Answer ==
  /\ pc = "suspended" /\ Goes("executing")
  /\ UNCHANGED <<disk, current, context, circuitOpen, turnVars, nextCall, scarred>>

ToolsDone ==
  /\ pc = "executing" /\ Goes("resulting") /\ done' = 0
  /\ UNCHANGED <<disk, current, context, circuitOpen, iteration, recovered,
                 calls, executed, nextCall, scarred>>

CommitResult ==
  /\ pc = "resulting"
  /\ LET l == ResultOf(calls[done + 1]) IN
     \/ Committed(l) /\ Advance("resulting", "replied")
     \/ CommitFails(l) /\ Ends
  /\ UNCHANGED <<current, circuitOpen, nextCall>>

NextIteration ==
  /\ iteration < MaxIterations /\ iteration' = iteration + 1
  /\ Goes("draining") /\ NoBatch /\ UNCHANGED recovered

\* After a batch, another iteration. After a reply without calls the turn ends,
\* or a hidden message tells the model to go on with the plan or the checklist.
EndIteration ==
  /\ pc = "replied"
  /\ \/ /\ calls # <<>> /\ NextIteration
        /\ UNCHANGED <<disk, context, scarred>>
     \/ /\ calls = <<>> \/ iteration = MaxIterations
        /\ Ends /\ UNCHANGED <<disk, context, scarred>>
     \/ /\ calls = <<>> /\ iteration < MaxIterations /\ Room(1)
        /\ \/ Committed(User) /\ NextIteration
           \/ CommitFails(User) /\ Reports
  /\ UNCHANGED <<current, circuitOpen, nextCall>>

\* The generator returns, and run_backend is no longer active.
Leave ==
  /\ pc = "ended" /\ Goes("idle")
  /\ UNCHANGED <<disk, current, context, circuitOpen, turnVars, nextCall, scarred>>

-----------------------------------------------------------------------------
(* Interrupts                                                               *)

MutInterrupted == pc = "executing"

\* Where SIGINT finds calls that get an "interrupted" result, all of the batch:
\* the handler for selected Skills leaves those alone that have a result.
Interrupted ==
  \/ pc \in {"calling", "executing"}
  \/ pc \in {"resulting", "replied"} /\ iteration > 0 /\ calls # <<>>

\* KeyboardInterrupt inside the generator: where nothing there catches it,
\* run_backend does.
Interrupt ==
  /\ "interrupt" \in Faults
  /\ pc \in {"opening", "draining", "calling", "executing", "resulting",
             "replied", "resuming"}
  /\ \/ /\ Interrupted /\ Goes("aborting") /\ done' = 0
        /\ UNCHANGED <<iteration, recovered, calls, executed>>
     \/ pc \in {"resulting", "replied"} /\ ~Interrupted /\ Ends
     \/ pc \in {"opening", "draining", "replied", "resuming"} /\ Reports
  /\ scarred' = (scarred \/ pc = "resuming" \/ (pc = "resulting" /\ iteration = 0))
  /\ UNCHANGED <<disk, current, context, circuitOpen, nextCall>>

\* SIGINT between the write of the last LoopCompleteEvent and the reset of active:
\* run_backend reports the end once more.
LateInterrupt ==
  /\ "interrupt" \in Faults
  /\ pc = "ended" /\ pc' = "idle" /\ reported' = reported + 1 /\ late' = TRUE
  /\ UNCHANGED <<disk, current, context, circuitOpen, turnVars, nextCall, scarred>>

\* The handler commits an "interrupted" result for each call of the batch.
Abort ==
  /\ pc = "aborting"
  /\ LET l == ResultOf(calls[done + 1]) IN
     \/ /\ Committed(l)
        /\ IF done + 1 = Len(calls) THEN Ends ELSE Advance("aborting", "aborting")
     \/ CommitFails(l) /\ Ends
  /\ UNCHANGED <<current, circuitOpen, nextCall>>

\* KeyboardInterrupt in run_backend, or a reply it does not accept, while the
\* generator is at a yield amid a batch: the generator is closed and no handler
\* in it commits anything. run_backend reports the end of the turn.
Close ==
  /\ "yieldInterrupt" \in Faults
  /\ \/ pc = "suspended"
     \/ pc = "resulting" /\ done > 0
     \/ pc = "calling" /\ iteration = 0 /\ done > 0
  /\ Reports /\ scarred' = TRUE
  /\ UNCHANGED <<disk, current, context, circuitOpen, nextCall>>

-----------------------------------------------------------------------------
(* Commands between turns                                                   *)

\* /compact, which closes the circuit even if there is nothing to summarise, and
\* the compaction at start-up.
Compact ==
  /\ pc = "idle"
  /\ \/ Compacted \/ CompactionFails
     \/ circuitOpen' = FALSE /\ UNCHANGED <<disk, context, scarred>>
  /\ UNCHANGED <<current, pc, turnVars, nextCall, reported, late>>

CreateIn(s) ==
  /\ s \notin saved /\ s # current
  /\ current' = s /\ context' = <<>> /\ scarred' = FALSE

NewSession(s) ==
  /\ pc = "idle" /\ CreateIn(s)
  /\ saved' = saved \union {s}
  /\ log' = [log EXCEPT ![s] = <<>>]
  /\ UNCHANGED <<circuitOpen, pc, turnVars, nextCall, reported, late>>

\* resume(): replay the log, then repair it.
Resume(s) ==
  /\ s \in saved /\ Valid(log[s])
  /\ current' = s /\ context' = Replay(log[s]) /\ scarred' = FALSE

ResumeSession(s) ==
  /\ pc = "idle" /\ Resume(s) /\ pc' = "resuming" /\ reported' = 0 /\ late' = FALSE
  /\ UNCHANGED <<disk, circuitOpen, turnVars, nextCall>>

\* delete(): a deleted current session is replaced by a new one, if that can be
\* created.
DeleteSession(s) ==
  /\ pc = "idle" /\ s \in saved
  /\ \/ /\ s # current /\ saved' = saved \ {s}
        /\ log' = [log EXCEPT ![s] = <<>>]
        /\ UNCHANGED <<current, context, scarred>>
     \/ /\ s = current
        /\ \E t \in Session :
             /\ CreateIn(t)
             /\ saved' = (saved \ {s}) \union {t}
             /\ log' = [log EXCEPT ![s] = <<>>, ![t] = <<>>]
     \/ /\ s = current /\ "create" \in Faults
        /\ saved' = saved \ {s} /\ log' = [log EXCEPT ![s] = <<>>]
        /\ UNCHANGED <<current, context, scarred>>
  /\ UNCHANGED <<circuitOpen, pc, turnVars, nextCall, reported, late>>

-----------------------------------------------------------------------------
(* Start, repair and end of the process                                     *)

Gone ==
  /\ pc' = "down" /\ current' = None /\ context' = <<>> /\ circuitOpen' = FALSE
  /\ iteration' = 0 /\ recovered' = FALSE /\ NoBatch
  /\ reported' = 1 /\ late' = FALSE /\ scarred' = FALSE
  /\ UNCHANGED nextCall

\* start(): old valid sessions are deleted; the latest of the other valid ones
\* is resumed, and a new one created if there is none.
Boot ==
  /\ pc = "down"
  /\ \E old \in SUBSET {s \in saved : Valid(log[s])} :
     LET kept == {s \in saved \ old : Valid(log[s])} IN
     \/ /\ kept # {} /\ saved' = saved \ old
        /\ log' = [s \in Session |-> IF s \in old THEN <<>> ELSE log[s]]
        /\ \E s \in kept : Resume(s)
        /\ pc' = "booting"
     \/ /\ kept = {}
        /\ \E s \in Session \ saved :
             current' = s /\ saved' = (saved \ old) \union {s}
        /\ log' = [s \in Session |-> IF s \in old THEN <<>> ELSE log[s]]
        /\ context' = <<>> /\ scarred' = FALSE /\ pc' = "idle"
  /\ UNCHANGED <<circuitOpen, turnVars, nextCall, reported, late>>

Repaired ==
  IF pc = "resuming" THEN Ends ELSE Goes("idle") /\ UNCHANGED turnVars

\* _repair_pending_tool_calls(): a synthetic result for each call without one.
\* If that fails, start() fails and the process with it; resume() leaves the
\* half-repaired session as the current one.
Repair ==
  /\ pc \in {"booting", "resuming"}
  /\ IF Pending(context) = {}
     THEN Repaired /\ UNCHANGED <<disk, current, context, circuitOpen, nextCall, scarred>>
     ELSE LET l == ResultOf(context[Min(Pending(context))].id) IN
          \/ /\ Committed(l)
             /\ UNCHANGED <<pc, current, circuitOpen, turnVars, nextCall, reported, late>>
          \/ /\ pc = "resuming" /\ CommitFails(l) /\ Reports
             /\ UNCHANGED <<current, circuitOpen, nextCall>>
          \/ /\ pc = "booting" /\ Gone /\ UNCHANGED saved
             /\ \E e \in Extents : log' = [log EXCEPT ![current] = Written(@, l, e)]

\* The process ends without notice, perhaps amid an append.
Crash ==
  /\ "crash" \in Faults /\ pc # "down"
  /\ \/ UNCHANGED log
     \/ /\ "tornCrash" \in Faults /\ current \in saved
        /\ log' = [log EXCEPT ![current] = Written(@, User, "torn")]
  /\ Gone /\ UNCHANGED saved

\* The model has no id left for a new session.
Exhausted ==
  /\ pc = "down" /\ \A s \in Session : s \in saved /\ ~Valid(log[s])
  /\ UNCHANGED vars

-----------------------------------------------------------------------------
TurnStep ==
  \/ UserTurn \/ Request \/ Reply \/ ReplyCut \/ ContextTooLong
  \/ CommitCall \/ (\E c \in Calls : Execute(c)) \/ ToolsDone
  \/ CommitResult \/ EndIteration \/ Abort \/ Repair \/ Leave

Next ==
  \/ StartTurn \/ DrainResult \/ TurnStep \/ Suspend \/ Answer
  \/ Interrupt \/ LateInterrupt \/ Close \/ Compact
  \/ \E s \in Session : NewSession(s) \/ ResumeSession(s) \/ DeleteSession(s)
  \/ Boot \/ Crash \/ Exhausted

Spec == Init /\ [][Next]_vars

\* The process goes on with what it has begun: the provider answers or fails,
\* tools return. Users and faults are under no obligation.
FairSpec == Spec /\ WF_vars(TurnStep)

-----------------------------------------------------------------------------
(* Properties                                                               *)

\* Every variable has its type, and a batch is under way where one is needed.
TypeOK ==
  /\ saved \subseteq Session /\ log \in [Session -> Seq(Line)]
  /\ current \in Session \union {None} /\ context \in Seq(Message)
  /\ circuitOpen \in BOOLEAN
  /\ pc \in {"down", "booting", "resuming", "idle", "opening", "draining", "streaming",
             "calling", "executing", "suspended", "resulting", "aborting", "replied",
             "ended"}
  /\ iteration \in 0..MaxIterations
  /\ calls \in Seq(Calls) /\ executed \subseteq Calls
  /\ pc \in {"calling", "resulting", "aborting"} => done \in 0..(Len(calls) - 1)
  /\ recovered \in BOOLEAN /\ nextCall \in 1..(MaxCalls + 1)
  /\ reported \in Nat /\ late \in BOOLEAN /\ scarred \in BOOLEAN

\* What a restart would restore from the file of the current session is what
\* the model sees: the commits, the checkpoints and the repair keep the two
\* equal through failed appends, interrupts, switches and crashes.
RestoreYieldsContext ==
  current \in saved =>
    Valid(log[current]) /\ Replay(log[current]) = context

\* A tool is run only after its call is on record, so that no restart can
\* forget a side effect of which the model would then know nothing.
ExecutedIsLogged ==
  pc \in {"executing", "suspended", "resulting", "aborting"} =>
    \A c \in executed : Has(log[current], CallOf(c))

\* No request shows the model a tool call without a result, whether the batch
\* was interrupted, the process restarted or the context compacted: unless an
\* append failed, or the generator was closed amid a batch, and the session was
\* not opened again since.
RequestAnswered == pc = "streaming" /\ ~scarred => Pending(context) = {}

\* A compaction never summarises a call away and keeps its result, nor the
\* reverse, whatever interrupts have left in the context.
CompactionKeepsPairs ==
  [][current' = current /\ Len(context') < Len(context) =>
       \A c \in Calls :
         Has(context, CallOf(c)) /\ ~Has(context', CallOf(c)) =>
           Has(context, ResultOf(c)) /\ ~Has(context', ResultOf(c))]_vars

\* The user interface reads one LoopCompleteEvent per request, so a turn reports
\* exactly one, however it is cut short: except that the loop may run out after a
\* context-length recovery, which reports none, and that SIGINT may arrive when the
\* last one is written, which reports one more.
SilentEnd == recovered /\ iteration = MaxIterations
ReportsOnce ==
  pc = "idle" =>
    reported = (IF SilentEnd THEN 0 ELSE 1) + (IF late THEN 1 ELSE 0)

\* A turn ends, or waits for the user, or the process is gone.
TurnEnds ==
  (pc \notin {"idle", "down", "suspended"}) ~> (pc \in {"idle", "down", "suspended"})

\* The model never sees a broken tool chain (README), and a KeyboardInterrupt
\* during a tool leaves no orphan call (tests/test_openai_client.py).
NoOrphanCall == pc = "streaming" => Pending(context) = {}

\* Every turn tells the user interface that it is over: PipeBackend.stream()
\* reads on until it does.
TurnReported == pc = "idle" => reported >= 1

-----------------------------------------------------------------------------
(* Refinement of DurableChat                                                *)

Readable == {s \in saved : Valid(log[s])}
Chats == [s \in Session |-> IF s \in Readable THEN Replay(log[s]) ELSE <<>>]

Chat == INSTANCE DurableChat WITH
  Settled <- Cutoffs, chats <- Chats, known <- Readable,
  open <- IF current \in saved THEN current ELSE None,
  view <- IF current \in saved THEN context ELSE <<>>

\* The logs, their replay and their repair implement chats that outlive the
\* process.
ImplementsDurableChat == Chat!ChatSpec
=============================================================================
