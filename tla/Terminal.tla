------------------------------ MODULE Terminal ------------------------------
(***************************************************************************)
(* The terminal interface (interfaces/tui.py) and the backend process        *)
(* (interfaces/backend.py): requests and answers go down one pipe as lines,  *)
(* events come back through another, and Esc or Ctrl-C is a signal beside    *)
(* both.  Nothing in an event names the request it belongs to: the TUI reads  *)
(* up to the next loop_complete.                                             *)
(*                                                                           *)
(* Requests are numbered here to say which one an event answers.  Text,      *)
(* tool and usage events change no control and are left out; the agent is    *)
(* its mode, its plan file and its questions.  A signal is handled before    *)
(* the backend's next instruction, so it meets the backend where it stands.  *)
(***************************************************************************)
EXTENDS Naturals, FiniteSets, Sequences

CONSTANTS
  MaxOps,      \* bound: requests
  MaxModes,    \* bound: uses of /plan
  MaxAsks      \* bound: permission requests and plan reviews

ASSUME TerminalAssumption == MaxOps \in Nat /\ MaxModes \in Nat /\ MaxAsks \in Nat

VARIABLES
  screenMode,    \* the TUI's mode
  op,            \* the request whose events the TUI awaits, 0 when idle
  interrupting,  \* _interrupting
  panel,         \* the question shown
  reader,        \* the reading thread: "off", the request it has to write, or "read"
  queue,         \* _events
  requests,      \* lines the backend has not read
  events,        \* lines the reading thread has not read
  backend,       \* where the backend stands
  serving,       \* the request it serves
  agentMode,     \* context.mode
  planFile,      \* the plan file is there
  races,         \* history: the races below that happened
  ops, modes, asks

tui == <<screenMode, op, interrupting, panel>>
thread == <<reader, queue>>
pipes == <<requests, events>>
agent == <<agentMode, planFile>>
bounds == <<ops, modes, asks>>
vars == <<tui, thread, pipes, backend, serving, agent, races, bounds>>

Modes == {"default", "plan"}
Other(m) == IF m = "plan" THEN "default" ELSE "plan"
\* Where the backend stands.  "ask" and "review": it reads an answer.
\* "report": in an except branch; "complete", "handled": the last line of a
\* request is written and active is still set; "silent": active is still set
\* and the request has ended without its last line.
Stands == {"idle", "run", "ask", "review", "answered", "report", "complete", "handled", "silent", "dead"}

\* What PipeBackend writes, and what comes back.
Lines ==
  [kind : {"mode"}, mode : Modes] \cup [kind : {"prompt", "switch"}, op : Nat]
  \cup [kind : {"permission"}, ask : Nat] \cup [kind : {"review"}, approved : BOOLEAN]
Questions == {"permission", "review"}
Events == [kind : Questions \cup {"session", "error", "complete"}, op : Nat, ask : Nat]
Event(k, n) == [kind |-> k, op |-> n, ask |-> asks]
NoPanel == [kind |-> "none", op |-> 0, ask |-> 0]
End == [kind |-> "end", op |-> op, ask |-> 0]
Failed(n) == <<Event("error", n), Event("complete", n)>>

-----------------------------------------------------------------------------
(* The TUI *)

\* A prompt or another request.  The sessions menu offers a switch in Plan Mode
\* too: the backend refuses it.
Send(k) ==
  /\ op = 0 /\ ops < MaxOps
  /\ op' = ops + 1 /\ ops' = ops + 1
  /\ reader' = k
  /\ UNCHANGED <<screenMode, interrupting, panel, queue, pipes, backend, serving, agent, races, modes, asks>>

\* /plan: the TUI does not wait for an answer.
TogglePlan ==
  /\ op = 0 /\ modes < MaxModes
  /\ modes' = modes + 1
  /\ screenMode' = Other(screenMode)
  /\ requests' = Append(requests, [kind |-> "mode", mode |-> Other(screenMode)])
  /\ UNCHANGED <<op, interrupting, panel, thread, events, backend, serving, agent, races, ops, asks>>

AnswerPermission ==
  /\ panel.kind = "permission"
  /\ requests' = Append(requests, [kind |-> "permission", ask |-> panel.ask])
  /\ panel' = NoPanel
  /\ UNCHANGED <<screenMode, op, interrupting, thread, events, backend, serving, agent, races, bounds>>

\* Approving the plan ends Plan Mode on the screen at once.
AnswerReview(approved) ==
  /\ panel.kind = "review"
  /\ requests' = Append(requests, [kind |-> "review", approved |-> approved])
  /\ panel' = NoPanel
  /\ screenMode' = IF approved THEN "default" ELSE screenMode
  /\ UNCHANGED <<op, interrupting, thread, events, backend, serving, agent, races, bounds>>

\* A mode or an answer for a backend that is gone: the pipe may take the line,
\* or writing it raises BrokenPipeError and the TUI ends, and asks no more.
BreakPipe ==
  /\ backend = "dead"
  /\ panel.kind \in Questions \/ (op = 0 /\ modes < MaxModes)
  /\ op' = 0 /\ interrupting' = FALSE /\ panel' = NoPanel /\ UNCHANGED screenMode
  /\ reader' = "off" /\ queue' = <<>> /\ requests' = <<>> /\ events' = <<>>
  /\ ops' = MaxOps /\ modes' = MaxModes
  /\ UNCHANGED <<backend, serving, agent, races, asks>>

\* The panel after an event.
Shown(e) ==
  IF e.kind \in Questions THEN e
  ELSE IF e.kind \in {"error", "complete", "end"} THEN NoPanel ELSE panel

ConsumeEvents ==
  /\ queue # <<>> /\ queue' = Tail(queue)
  /\ LET e == Head(queue) IN
       /\ panel' = Shown(e)
       /\ screenMode' = IF e.kind = "session" THEN "default" ELSE screenMode
       /\ IF e.kind = "end" THEN op' = 0 /\ interrupting' = FALSE
                            ELSE UNCHANGED <<op, interrupting>>
  /\ UNCHANGED <<reader, pipes, backend, serving, agent, races, bounds>>

(* The reading thread writes the request and reads up to loop_complete. *)

ReaderWrites ==
  /\ reader \in {"prompt", "switch"}
  /\ \/ /\ backend = "dead" /\ reader' = "off"
        /\ queue' = queue \o <<Event("error", op), End>> /\ UNCHANGED requests
     \/ /\ reader' = "read" /\ UNCHANGED queue
        /\ requests' = Append(requests, [kind |-> reader, op |-> op])
  /\ UNCHANGED <<tui, events, backend, serving, agent, races, bounds>>

\* A plausible bug: an error ends the reading.
EndsAtError(e) == e.kind \in {"error", "complete"}

EndsReading(e) == e.kind = "complete"

ReaderReads ==
  /\ reader = "read" /\ events # <<>>
  /\ events' = Tail(events)
  /\ IF EndsReading(Head(events))
     THEN queue' = queue \o <<Head(events), End>> /\ reader' = "off"
     ELSE queue' = Append(queue, Head(events)) /\ UNCHANGED reader
  /\ UNCHANGED <<tui, requests, backend, serving, agent, races, bounds>>

\* The output of a dead backend ends.
ReaderEnds ==
  /\ reader = "read" /\ events = <<>> /\ backend = "dead"
  /\ reader' = "off" /\ queue' = Append(queue, End)
  /\ UNCHANGED <<tui, pipes, backend, serving, agent, races, bounds>>

-----------------------------------------------------------------------------
(* The backend *)

Says(s) == events' = events \o s
Stand(where) == backend' = where

\* set_mode: the plan file and the checklist go first; that, or recording the
\* cancellation, may fail and leave the mode as it was.
SetMode(m) ==
  \/ /\ agentMode' = m /\ planFile' = FALSE
     /\ UNCHANGED <<events, races>>
  \/ /\ planFile' \in {planFile, FALSE} /\ UNCHANGED agentMode
     /\ Says(Failed(0)) /\ races' = races \cup {"mode"}

\* The loop of run_backend reads a line.  An answer nobody waits for any more
\* is no request: it gets an error of its own.
ReadLine ==
  /\ backend = "idle" /\ requests # <<>>
  /\ requests' = Tail(requests)
  /\ LET m == Head(requests) IN
       \/ /\ m.kind = "mode" /\ SetMode(m.mode)
          /\ UNCHANGED <<backend, serving>>
       \/ /\ m.kind \in {"prompt", "switch"}
          /\ Stand(IF m.kind = "switch" /\ agentMode = "plan" THEN "report" ELSE "run")
          /\ serving' = m
          /\ UNCHANGED <<events, races, agent>>
       \/ /\ m.kind \in {"permission", "review"}
          /\ Says(Failed(0)) /\ races' = races \cup {"stale"}
          /\ UNCHANGED <<backend, serving, agent>>
  /\ UNCHANGED <<tui, thread, bounds>>

AskPermission ==
  /\ backend = "run" /\ serving.kind = "prompt" /\ asks < MaxAsks
  /\ asks' = asks + 1
  /\ Stand("ask") /\ events' = Append(events, [kind |-> "permission", op |-> serving.op, ask |-> asks + 1])
  /\ UNCHANGED <<tui, thread, requests, serving, agent, races, ops, modes>>

WritePlan ==
  /\ backend = "run" /\ serving.kind = "prompt" /\ agentMode = "plan" /\ ~planFile
  /\ planFile' = TRUE
  /\ UNCHANGED <<tui, thread, pipes, backend, serving, agentMode, races, bounds>>

\* _review_plan, in Plan Mode and with a plan to show.
ReviewPlan ==
  /\ backend = "run" /\ serving.kind = "prompt" /\ asks < MaxAsks
  /\ agentMode = "plan" /\ planFile
  /\ asks' = asks + 1
  /\ Stand("review") /\ events' = Append(events, [kind |-> "review", op |-> serving.op, ask |-> asks + 1])
  /\ UNCHANGED <<tui, thread, requests, serving, agent, races, ops, modes>>

\* The next line is the answer, or the request fails.
ReadAnswer ==
  /\ backend \in {"ask", "review"} /\ requests # <<>>
  /\ requests' = Tail(requests)
  /\ LET m == Head(requests) IN
       Stand(IF backend = "ask" /\ m.kind = "permission" /\ m.ask = asks THEN "run"
             ELSE IF backend = "review" /\ m.kind = "review"
             THEN IF m.approved THEN "answered" ELSE "run"
             ELSE "report")
  /\ UNCHANGED <<tui, thread, events, serving, agent, races, bounds>>

\* A plausible bug: the approved plan is executed in Plan Mode.
ApproveForgets ==
  /\ backend = "answered" /\ Stand("run")
  /\ UNCHANGED <<tui, thread, pipes, serving, agent, races, bounds>>

Approve ==
  /\ backend = "answered" /\ Stand("run")
  /\ agentMode' = "default"
  /\ UNCHANGED <<tui, thread, pipes, serving, planFile, races, bounds>>

\* loop_complete: after the state of a session, after an error the agent
\* reports, or alone; a completed execution removes its plan.
Complete ==
  /\ backend = "run" /\ Stand("complete")
  /\ \/ /\ serving.kind = "prompt" /\ Says(<<Event("complete", serving.op)>>)
        /\ planFile' \in IF agentMode = "default" THEN {planFile, FALSE} ELSE {planFile}
     \/ serving.kind = "switch" /\ UNCHANGED planFile
        /\ Says(<<Event("session", serving.op), Event("complete", serving.op)>>)
     \/ Says(Failed(serving.op)) /\ UNCHANGED planFile
  /\ UNCHANGED <<tui, thread, requests, serving, agentMode, races, bounds>>

\* _stream runs out of iterations with the one that compacted a context that
\* was too long: it yields nothing more.
EndSilently ==
  /\ backend = "run" /\ serving.kind = "prompt" /\ Stand("silent")
  /\ UNCHANGED <<tui, thread, pipes, serving, agent, races, bounds>>

Raise ==
  /\ backend = "run" /\ Stand("report")
  /\ UNCHANGED <<tui, thread, pipes, serving, agent, races, bounds>>

\* A plausible bug: an except branch that reports the error alone.
ReportError ==
  /\ backend = "report" /\ Stand("handled")
  /\ Says(<<Event("error", serving.op)>>)
  /\ UNCHANGED <<tui, thread, requests, serving, agent, races, bounds>>

Report ==
  /\ backend = "report" /\ Stand("handled")
  /\ Says(Failed(serving.op))
  /\ UNCHANGED <<tui, thread, requests, serving, agent, races, bounds>>

\* finally: active = False
Return ==
  /\ backend \in {"complete", "handled", "silent"} /\ Stand("idle")
  /\ races' = races \cup (IF backend = "silent" THEN {"silent"} ELSE {})
  /\ UNCHANGED <<tui, thread, pipes, serving, agent, bounds>>

-----------------------------------------------------------------------------
(* Esc and Ctrl-C *)

\* interrupt_active_stream, where the signal meets the backend.  A generator of
\* the agent may catch KeyboardInterrupt and end the request itself.  After its
\* last line the request is reported a second time; in an except branch or in
\* the finally clause the exception leaves run_backend.
Interrupted ==
  CASE backend \in {"idle", "dead"} -> UNCHANGED <<backend, events, races>>
    [] backend \in {"run", "answered"} ->
         /\ \/ Stand("report") /\ UNCHANGED events
            \/ Stand("complete") /\ Says(Failed(serving.op))
         /\ races' = races \cup (IF backend = "answered" THEN {"unapproved"} ELSE {})
    [] backend \in {"ask", "review"} -> Stand("report") /\ UNCHANGED <<events, races>>
    [] backend = "silent" -> (Stand("report") \/ Stand("dead")) /\ UNCHANGED <<events, races>>
    [] backend = "complete" ->
         /\ races' = races \cup {"late"}
         /\ \/ Stand("report")
            \/ Stand("dead")
         /\ UNCHANGED events
    [] OTHER -> Stand("dead") /\ UNCHANGED <<events, races>>

\* Once per request: until it has ended a second key press does nothing.
Interrupt ==
  /\ op # 0 /\ ~interrupting
  /\ interrupting' = TRUE
  /\ Interrupted
  /\ UNCHANGED <<screenMode, op, panel, thread, requests, serving, agent, bounds>>

-----------------------------------------------------------------------------

Init ==
  /\ screenMode = "default" /\ op = 0 /\ interrupting = FALSE /\ panel = NoPanel
  /\ reader = "off" /\ queue = <<>>
  /\ requests = <<>> /\ events = <<>>
  /\ backend = "idle" /\ serving = [kind |-> "prompt", op |-> 0]
  /\ agentMode = "default" /\ planFile \in BOOLEAN
  /\ races = {} /\ ops = 0 /\ modes = 0 /\ asks = 0

Answers == AnswerPermission \/ \E approved \in BOOLEAN : AnswerReview(approved)
Reads == ReaderWrites \/ ReaderReads \/ ReaderEnds
Serves == ReadLine \/ AskPermission \/ WritePlan \/ ReviewPlan \/ ReadAnswer \/ Approve
          \/ Complete \/ EndSilently \/ Raise \/ Report \/ Return

\* A request has ended without its last line: the TUI reads on, and Esc meets an
\* idle backend.
Unheard ==
  /\ "silent" \in races /\ backend = "idle"
  /\ reader = "read" /\ requests = <<>> /\ events = <<>> /\ queue = <<>>

\* The bounds are reached, or only the user's exit is left.
Exhausted == ((op = 0 /\ ops = MaxOps) \/ Unheard) /\ UNCHANGED vars

Next ==
  \/ \E k \in {"prompt", "switch"} : Send(k)
  \/ TogglePlan \/ BreakPipe \/ Interrupt
  \/ Answers \/ ConsumeEvents \/ Reads \/ Serves
  \/ Exhausted

Spec == Init /\ [][Next]_vars

\* The threads and the backend go on, and somebody answers the questions.
FairSpec ==
  /\ Spec
  /\ WF_vars(Answers) /\ WF_vars(ConsumeEvents) /\ WF_vars(Reads) /\ WF_vars(Serves)

-----------------------------------------------------------------------------
(* Properties *)

ScreenOK ==
  /\ screenMode \in Modes /\ op \in {0, ops} /\ interrupting \in BOOLEAN
  /\ panel \in [kind : Questions \cup {"none"}, op : Nat, ask : Nat]
  /\ reader \in {"off", "prompt", "switch", "read"}

PipesOK ==
  /\ requests \in Seq(Lines) /\ events \in Seq(Events)
  /\ queue \in Seq(Events \cup [kind : {"end"}, op : Nat, ask : Nat])

BackendOK ==
  /\ backend \in Stands /\ serving \in [kind : {"prompt", "switch"}, op : Nat]
  /\ agentMode \in Modes /\ planFile \in BOOLEAN
  /\ races \subseteq {"mode", "stale", "late", "unapproved", "silent"}

BoundsOK == ops \in 0 .. MaxOps /\ modes \in 0 .. MaxModes /\ asks \in 0 .. MaxAsks

\* What the screen, the pipes and the backend may hold.
TypeOK == ScreenOK /\ PipesOK /\ BackendOK /\ BoundsOK

\* The races that put a line in the pipe nobody asked for.
Slips == {"mode", "stale", "late"}
OfRequest(s) == \A i \in DOMAIN s : s[i].op = op

\* Unless one of them happens, every event in flight belongs to the request the
\* TUI waits for, and none is left when it waits for none: a request that is
\* interrupted, fails or asks does not show its events as those of the next
\* (PipeBackend._request, run_backend).
InPhase == races \cap Slips = {} => OfRequest(events) /\ OfRequest(queue)

\* The same without exception.
AlwaysInPhase == OfRequest(events) /\ OfRequest(queue)

\* The backend never waits for an answer nobody will give: while it reads an
\* answer the question is on its way, on the screen, or answered
\* (_read_permission_response, _consume_events).
Asks(e) == e.kind \in Questions /\ e.op = serving.op
AskedIsHeard ==
  backend \in {"ask", "review"} /\ races \cap Slips = {} =>
    \/ \E i \in DOMAIN events : Asks(events[i])
    \/ \E i \in DOMAIN queue : Asks(queue[i])
    \/ Asks(panel)
    \/ requests # <<>>

\* Both: neither end of the pipe gets ahead of, or behind, the other.
PipeSound == InPhase /\ AskedIsHeard

\* When both are idle, the mode on the screen is the mode of the agent, unless
\* one of the races was lost (_send, _review_plan, enter_plan_mode).
ModesAgree ==
  op = 0 /\ backend = "idle" /\ requests = <<>> /\ races = {} => screenMode = agentMode

\* Every request ends on the screen, interrupted or not, with a backend that
\* lives or dies, in phase or not (run_backend, _read_operation); unless the
\* backend is idle again without having said so (agent.py:401-407).
RequestEnds == op # 0 ~> op = 0 \/ Unheard

\* The same without exception.
RequestAlwaysEnds == op # 0 ~> op = 0

=============================================================================
