-------------------------- MODULE SubagentManager --------------------------
(***************************************************************************)
(* The runtime of the Agent tool: core/subagent.py (SubagentManager) driven *)
(* by the single-threaded parent of core/agent.py.                          *)
(*                                                                          *)
(* Four kinds of actors interleave:                                         *)
(*   - the parent: runs Agent calls, drains the inbox of its session before *)
(*     a model request, switches and deletes sessions, closes the manager;  *)
(*   - one monitor thread per task, which reads the worker's stdout and     *)
(*     runs _finish in steps, of which only one holds the manager's lock;   *)
(*   - one timer thread per task, which flags the task under the lock and   *)
(*     kills the worker outside it;                                         *)
(*   - signals, which run on the parent's thread: SIGUSR1 (Ctrl+B) detaches *)
(*     the foreground task, SIGINT raises KeyboardInterrupt.                *)
(*                                                                          *)
(* Prompts, answers and files are abstracted: a result is the id of the     *)
(* task it belongs to, and time is abstracted to an armed timer that may    *)
(* fire.                                                                    *)
(***************************************************************************)
EXTENDS Naturals, Sequences, FiniteSets

CONSTANTS
  Task,       \* ids of the tasks that may ever be started (uuid4, never reused)
  Session,    \* ids of the chat sessions that may ever exist
  None,       \* Python's None where a task or a session is expected
  MaxTasks,   \* max_tasks: workers that may run at once
  Requests,   \* the kinds of task the model asks for
  MaxUsage,   \* bound of the model: usage lines one worker may print
  Faults      \* the failures a behaviour may contain

FaultKinds == {
  "timeout",         \* a worker runs past its deadline
  "crash",           \* a worker ends with a non-zero status by itself
  "startInterrupt",  \* SIGINT between taking the lease and registering the task
  "armInterrupt",    \* SIGINT between starting the monitor and arming the timer
  "waitInterrupt",   \* SIGINT while the parent waits for a foreground task
  "drainError",      \* SIGINT or a failed session append while draining
  "deleteError" }    \* SessionManager.delete raises after terminate_session

\* A Definition task; a fork in the workspace, which takes the lease; a fork in
\* a worktree of its own.
Kinds == {"definition", "sharedFork", "isolatedFork"}

ASSUME NoneAssumption == None \notin Task \union Session
ASSUME MaxTasksAssumption == MaxTasks \in Nat \ {0}
ASSUME MaxUsageAssumption == MaxUsage \in Nat
ASSUME RequestsAssumption == Requests \subseteq Kinds
ASSUME FaultsAssumption == Faults \subseteq FaultKinds

VARIABLES
  \* ---- SubagentManager
  tasks,        \* _tasks: the registered tasks
  leaseTask,    \* _lease_task
  foreground,   \* _foreground
  inbox,        \* _inbox: per session, its finished background tasks in order
  discarded,    \* _discarded_sessions
  closed,       \* _closed
  \* ---- tasks, their threads and worker processes
  task,         \* the fields of each _Task
  events,       \* _Task.events: the queue from the monitor to the parent
  worker,       \* each worker process and what the monitor has read from it
  monitor,      \* where each _monitor / _finish thread is
  timer,        \* where each timer thread is
  \* ---- the parent
  parent,       \* where the parent's thread is
  detaching,    \* the SIGUSR1 handler is between its test and its assignments
  awaited,      \* the task whose run() generator the parent is in
  session,      \* _session_key(): the current session
  sessionFile,  \* whether a session has a log: "fresh", "live" or "deleted"
  target,       \* argument of the delete_session under way
  victims,      \* tasks whose process the parent has still to terminate
  undelivered,  \* drain()'s messages not yet added to the context
  \* ---- history
  contexts,     \* results that reached the context of each session
  returned,     \* results returned by a foreground Agent call
  lost,         \* results dropped by a failed drain, a deletion or close
  abandoned,    \* tasks whose run() generator was interrupted
  reported      \* usage lines of each task counted by the user interface

managerVars == <<tasks, leaseTask, foreground, inbox, discarded, closed>>
sessionVars == <<session, sessionFile, target>>
historyVars == <<contexts, returned, lost, abandoned, reported>>
vars == <<managerVars, task, events, worker, monitor, timer, parent, detaching,
          awaited, sessionVars, victims, undelivered, historyVars>>

-----------------------------------------------------------------------------
Final == {"completed", "failed", "timed_out"}

TaskRecord ==
  [kind: Kinds \union {"none"},      \* what was asked for; none: not started
   owner: Session,                   \* session_key
   background: BOOLEAN,
   detached: BOOLEAN,
   timedOut: BOOLEAN,
   status: Final \union {"running"},
   usage: 0..MaxUsage]

WorkerRecord ==
  [proc: {"none", "running", "exited", "killed"},  \* exited: status 0
   answer: {"none", "completed", "failed"}]        \* what the monitor read

Elements(s) == {s[i] : i \in DOMAIN s}

\* Operators named Mut... are not part of the model: each is the definition
\* that follows it with a bug, used to show that a property notices that bug.

\* Sections that take _lock wait while run() or the handler holds it.
LockFree == parent \notin {"spawning", "arming"} /\ ~detaching

\* The parent's code does not advance while a signal handler runs on its thread.
ParentAt(pc) == parent = pc /\ ~detaching

Running(t) == worker[t].proc = "running"
Handed(t) == t \in returned \/ t \in contexts[task[t].owner]
Fresh == {s \in Session : sessionFile[s] = "fresh"}
TasksOf(s) == {t \in tasks : task[t].owner = s}

Init ==
  /\ tasks = {} /\ leaseTask = None /\ foreground = None
  /\ inbox = [s \in Session |-> <<>>] /\ discarded = {} /\ closed = FALSE
  /\ session \in Session /\ target = None
  /\ sessionFile = [s \in Session |-> IF s = session THEN "live" ELSE "fresh"]
  /\ task = [t \in Task |->
       [kind |-> "none", owner |-> session, background |-> FALSE,
        detached |-> FALSE, timedOut |-> FALSE, status |-> "running",
        usage |-> 0]]
  /\ events = [t \in Task |-> <<>>]
  /\ worker = [t \in Task |-> [proc |-> "none", answer |-> "none"]]
  /\ monitor = [t \in Task |-> "none"] /\ timer = [t \in Task |-> "none"]
  /\ parent = "idle" /\ detaching = FALSE /\ awaited = None
  /\ victims = {} /\ undelivered = <<>>
  /\ contexts = [s \in Session |-> {}]
  /\ returned = {} /\ lost = {} /\ abandoned = {}
  /\ reported = [t \in Task |-> 0]

-----------------------------------------------------------------------------
(* The parent: run()                                                        *)

\* max_tasks counts the registered tasks.
SlotFree == Cardinality(tasks) < MaxTasks

\* Only a non-isolated fork needs the workspace write lease.
MutLeaseGranted(k) == TRUE
LeaseGranted(k) == k = "sharedFork" => leaseTask = None

\* run() up to Popen, with the lock held: the checks, the lease, the process.
\* A fork always runs in the background (validate_agent_arguments).
Spawn(t, k, bg) ==
  /\ ParentAt("idle") /\ task[t].kind = "none"
  /\ SlotFree /\ LeaseGranted(k)
  /\ k # "definition" => bg
  /\ task' = [task EXCEPT ![t].kind = k, ![t].owner = session,
                          ![t].background = bg]
  /\ leaseTask' = IF k = "sharedFork" THEN t ELSE leaseTask
  /\ worker' = [worker EXCEPT ![t].proc = "running"]
  /\ parent' = "spawning" /\ awaited' = t
  /\ UNCHANGED <<tasks, foreground, inbox, discarded, closed, events, monitor,
                 timer, detaching, sessionVars, victims, undelivered,
                 historyVars>>

\* Popen or the write of the request raised: everything is undone.
SpawnFails ==
  /\ ParentAt("spawning")
  /\ worker' = [worker EXCEPT ![awaited].proc = "killed"]
  /\ leaseTask' = IF leaseTask = awaited THEN None ELSE leaseTask
  /\ parent' = "idle" /\ awaited' = None
  /\ UNCHANGED <<tasks, foreground, inbox, discarded, closed, task, events,
                 monitor, timer, detaching, sessionVars, victims, undelivered,
                 historyVars>>

\* The task enters _tasks and its monitor thread starts; the lock stays held.
Register ==
  /\ ParentAt("spawning")
  /\ tasks' = tasks \union {awaited}
  /\ foreground' = IF task[awaited].background THEN foreground ELSE awaited
  /\ monitor' = [monitor EXCEPT ![awaited] = "reading"]
  /\ parent' = "arming"
  /\ UNCHANGED <<leaseTask, inbox, discarded, closed, task, events, worker,
                 timer, detaching, awaited, sessionVars, victims, undelivered,
                 historyVars>>

\* Every task, in the background or not, gets a timer.
TimerOf(t) == "armed"

\* The timer starts, the lock is released; a background call returns at once.
ArmTimer ==
  /\ ParentAt("arming")
  /\ timer' = [timer EXCEPT ![awaited] = TimerOf(awaited)]
  /\ IF task[awaited].background
     THEN parent' = "idle" /\ awaited' = None
     ELSE parent' = "awaiting" /\ UNCHANGED awaited
  /\ UNCHANGED <<managerVars, task, events, worker, monitor, detaching,
                 sessionVars, victims, undelivered, historyVars>>

\* The foreground loop of run(): a detached call returns "running" ...
AwaitDetached ==
  /\ ParentAt("awaiting") /\ task[awaited].detached
  /\ parent' = "idle" /\ awaited' = None
  /\ UNCHANGED <<managerVars, task, events, worker, monitor, timer, detaching,
                 sessionVars, victims, undelivered, historyVars>>

\* ... otherwise it takes the next event; the final None ends the call.
AwaitEvent ==
  /\ ParentAt("awaiting") /\ events[awaited] # <<>>
  /\ LET event == Head(events[awaited]) IN
     /\ events' = [events EXCEPT ![awaited] = Tail(@)]
     /\ reported' = IF event = "usage"
                    THEN [reported EXCEPT ![awaited] = @ + 1] ELSE reported
     /\ IF event = "end"
        THEN /\ parent' = "idle" /\ awaited' = None
             /\ returned' = returned \union {awaited}
        ELSE UNCHANGED <<parent, awaited, returned>>
  /\ UNCHANGED <<managerVars, task, worker, monitor, timer, detaching,
                 sessionVars, victims, undelivered, contexts, lost, abandoned>>

\* KeyboardInterrupt leaves run() and releases the lock if it was held. It is
\* not an Exception, so nothing that run() has done is undone.
Interrupt(fault, pc) ==
  /\ fault \in Faults /\ ParentAt(pc)
  /\ parent' = "idle" /\ awaited' = None
  /\ abandoned' = abandoned \union {awaited}
  /\ UNCHANGED <<managerVars, task, events, worker, monitor, timer, detaching,
                 sessionVars, victims, undelivered, contexts, returned, lost,
                 reported>>

StartInterrupt == Interrupt("startInterrupt", "spawning")
ArmInterrupt == Interrupt("armInterrupt", "arming")
WaitInterrupt == Interrupt("waitInterrupt", "awaiting")

\* detach_foreground() in the SIGUSR1 handler: the test ...
DetachTest ==
  /\ ~detaching /\ parent \notin {"closing", "closed"}
  /\ foreground # None /\ task[foreground].status = "running"
  /\ detaching' = TRUE
  /\ UNCHANGED <<managerVars, task, events, worker, monitor, timer, parent,
                 awaited, sessionVars, victims, undelivered, historyVars>>

\* ... and the assignments, under the same hold of the lock.
DetachSet ==
  /\ detaching
  /\ task' = [task EXCEPT ![foreground].detached = TRUE,
                          ![foreground].background = TRUE]
  /\ foreground' = None /\ detaching' = FALSE
  /\ UNCHANGED <<tasks, leaseTask, inbox, discarded, closed, events, worker,
                 monitor, timer, parent, awaited, sessionVars, victims,
                 undelivered, historyVars>>

-----------------------------------------------------------------------------
(* The worker process and the monitor thread                                *)

\* A usage line is read: forwarded only while the task is in the foreground.
ReadUsage(t) ==
  /\ monitor[t] = "reading" /\ Running(t) /\ task[t].usage < MaxUsage
  /\ task' = [task EXCEPT ![t].usage = @ + 1]
  /\ events' = IF task[t].background THEN events
               ELSE [events EXCEPT ![t] = Append(@, "usage")]
  /\ UNCHANGED <<managerVars, worker, monitor, timer, parent, detaching,
                 awaited, sessionVars, victims, undelivered, historyVars>>

\* The worker_result line is read. A line that is not JSON fails the task
\* whatever the result line says, so it is a failed answer as well.
ReadAnswer(t, a) ==
  /\ monitor[t] = "reading" /\ Running(t)
  /\ worker[t].answer \in (IF a = "failed" THEN {"none", "completed"} ELSE {"none"})
  /\ worker' = [worker EXCEPT ![t].answer = a]
  /\ UNCHANGED <<managerVars, task, events, monitor, timer, parent, detaching,
                 awaited, sessionVars, victims, undelivered, historyVars>>

\* The worker ends by itself: with status 0, or with another one.
WorkerExits(t, how) ==
  /\ Running(t)
  /\ how = "killed" => "crash" \in Faults
  /\ worker' = [worker EXCEPT ![t].proc = how]
  /\ UNCHANGED <<managerVars, task, events, monitor, timer, parent, detaching,
                 awaited, sessionVars, victims, undelivered, historyVars>>

MutFinalStatus(t) == IF task[t].timedOut THEN "timed_out" ELSE worker[t].answer

\* The status _monitor derives from what it read and how the process ended.
FinalStatus(t) ==
  CASE task[t].timedOut -> "timed_out"
    [] ~task[t].timedOut /\ worker[t].answer = "completed"
         /\ worker[t].proc = "exited" -> "completed"
    [] OTHER -> "failed"

\* End of file on stdout; process.wait() returns; _finish before the lock: the
\* timer is cancelled, the status is set and the worktree left, where failing to
\* collect its diff fails the task.
SetStatus(t) ==
  /\ monitor[t] = "reading" /\ worker[t].proc \in {"exited", "killed"}
  /\ \E final \in {FinalStatus(t)} \union
                  (IF task[t].kind = "isolatedFork" THEN {"failed"} ELSE {}) :
       task' = [task EXCEPT ![t].status = final]
  /\ timer' = [timer EXCEPT ![t] = IF @ = "armed" THEN "off" ELSE @]
  /\ monitor' = [monitor EXCEPT ![t] = "stopped"]
  /\ UNCHANGED <<managerVars, events, worker, parent, detaching, awaited,
                 sessionVars, victims, undelivered, historyVars>>

MutDeliverableOnce(t) ==
  task[t].background /\ ~task[t].detached /\ task[t].owner \notin discarded
\* Whether the finished task is to be delivered through its session's inbox.
Deliverable(t) ==
  task[t].background /\ ~closed /\ task[t].owner \notin discarded

\* The inbox is keyed by the session the task was started in.
MutInboxOf(t) == session
InboxOf(t) == task[t].owner

ForegroundAfter(t) == IF foreground = t THEN None ELSE foreground

\* The locked section of _finish.
FinishLocked(t) ==
  /\ monitor[t] = "stopped" /\ LockFree
  /\ tasks' = tasks \ {t}
  /\ leaseTask' = IF leaseTask = t THEN None ELSE leaseTask
  /\ foreground' = ForegroundAfter(t)
  /\ inbox' = IF Deliverable(t)
              THEN [inbox EXCEPT ![InboxOf(t)] = Append(@, t)] ELSE inbox
  /\ monitor' = [monitor EXCEPT ![t] = "unlocked"]
  /\ UNCHANGED <<discarded, closed, task, events, worker, timer, parent,
                 detaching, awaited, sessionVars, victims, undelivered,
                 historyVars>>

\* Only a task still in the foreground answers its Agent call.
MutEndsCallTwice(t) == TRUE
MutEndsCallNever(t) == task[t].status # "timed_out" /\ ~task[t].background
EndsCall(t) == ~task[t].background

\* _finish after the lock: a foreground task gets its status event and None.
Publish(t) ==
  /\ monitor[t] = "unlocked"
  /\ events' = IF EndsCall(t) THEN [events EXCEPT ![t] = @ \o <<"status", "end">>]
               ELSE events
  /\ monitor' = [monitor EXCEPT ![t] = "done"]
  /\ UNCHANGED <<managerVars, task, worker, timer, parent, detaching, awaited,
                 sessionVars, victims, undelivered, historyVars>>

-----------------------------------------------------------------------------
(* The timer thread                                                         *)

\* _timeout() under the lock: only a registered, running task is flagged.
TimerFires(t) ==
  /\ timer[t] = "armed" /\ LockFree
  /\ IF t \in tasks /\ task[t].status = "running"
     THEN /\ "timeout" \in Faults
          /\ task' = [task EXCEPT ![t].timedOut = TRUE]
          /\ timer' = [timer EXCEPT ![t] = "killing"]
     ELSE /\ timer' = [timer EXCEPT ![t] = "off"]
          /\ UNCHANGED task
  /\ UNCHANGED <<managerVars, events, worker, monitor, parent, detaching,
                 awaited, sessionVars, victims, undelivered, historyVars>>

MutTerminated(t) == worker

\* _terminate(): no effect on a process that has ended.
Terminated(t) ==
  [worker EXCEPT ![t].proc = IF @ = "running" THEN "killed" ELSE @]

TimerKills(t) ==
  /\ timer[t] = "killing"
  /\ worker' = Terminated(t)
  /\ timer' = [timer EXCEPT ![t] = "off"]
  /\ UNCHANGED <<managerVars, task, events, monitor, parent, detaching,
                 awaited, sessionVars, victims, undelivered, historyVars>>

-----------------------------------------------------------------------------
(* The parent between Agent calls: drain, sessions, close                   *)

\* The usage total that goes with a result in the inbox.
DrainedUsage(t) == task[t].usage

\* drain() pops the inbox of the current session; _drain_subagents then yields
\* every usage total before it adds the first message.
Drain ==
  /\ ParentAt("idle") /\ inbox[session] # <<>>
  /\ undelivered' = inbox[session]
  /\ inbox' = [inbox EXCEPT ![session] = <<>>]
  /\ reported' = [t \in Task |-> reported[t] +
       IF t \in Elements(inbox[session]) THEN DrainedUsage(t) ELSE 0]
  /\ parent' = "delivering"
  /\ UNCHANGED <<tasks, leaseTask, foreground, discarded, closed, task, events,
                 worker, monitor, timer, detaching, awaited, sessionVars,
                 victims, contexts, returned, lost, abandoned>>

\* The next message is added to the session and its context.
DeliverNext ==
  /\ ParentAt("delivering")
  /\ contexts' = [contexts EXCEPT ![session] = @ \union {Head(undelivered)}]
  /\ undelivered' = Tail(undelivered)
  /\ parent' = IF Len(undelivered) = 1 THEN "idle" ELSE "delivering"
  /\ UNCHANGED <<managerVars, task, events, worker, monitor, timer, detaching,
                 awaited, sessionVars, victims, returned, lost, abandoned,
                 reported>>

\* Adding it raises, or SIGINT arrives: the local list of messages is gone.
DrainFails ==
  /\ "drainError" \in Faults /\ ParentAt("delivering")
  /\ lost' = lost \union Elements(undelivered)
  /\ undelivered' = <<>> /\ parent' = "idle"
  /\ UNCHANGED <<managerVars, task, events, worker, monitor, timer, detaching,
                 awaited, sessionVars, victims, contexts, returned, abandoned,
                 reported>>

NewSession(s) ==
  /\ ParentAt("idle") /\ s \in Fresh
  /\ session' = s
  /\ sessionFile' = [sessionFile EXCEPT ![s] = "live"]
  /\ UNCHANGED <<managerVars, task, events, worker, monitor, timer, parent,
                 detaching, awaited, target, victims, undelivered, historyVars>>

ResumeSession(s) ==
  /\ ParentAt("idle") /\ sessionFile[s] = "live" /\ s # session
  /\ session' = s
  /\ UNCHANGED <<managerVars, task, events, worker, monitor, timer, parent,
                 detaching, awaited, sessionFile, target, victims, undelivered,
                 historyVars>>

\* Agent.delete_session: terminate_session() comes first. (The model needs a
\* fresh id for the session that replaces a deleted current one.)
DeleteSession(s) ==
  /\ ParentAt("idle") /\ sessionFile[s] = "live"
  /\ s = session => Fresh # {}
  /\ discarded' = discarded \union {s}
  /\ victims' = TasksOf(s)
  /\ lost' = lost \union Elements(inbox[s])
  /\ inbox' = [inbox EXCEPT ![s] = <<>>]
  /\ target' = s /\ parent' = "deleting"
  /\ UNCHANGED <<tasks, leaseTask, foreground, closed, task, events, worker,
                 monitor, timer, detaching, awaited, session, sessionFile,
                 undelivered, contexts, returned, abandoned, reported>>

\* terminate_session() and close() terminate the listed workers one by one.
KillVictim(t) ==
  /\ t \in victims /\ ~detaching
  /\ worker' = Terminated(t)
  /\ victims' = victims \ {t}
  /\ UNCHANGED <<managerVars, task, events, monitor, timer, parent, detaching,
                 awaited, sessionVars, undelivered, historyVars>>

\* SessionManager.delete: deleting the current session creates a new one.
DeleteFile ==
  /\ ParentAt("deleting") /\ victims = {}
  /\ \/ /\ target # session
        /\ sessionFile' = [sessionFile EXCEPT ![target] = "deleted"]
        /\ UNCHANGED session
     \/ \E s \in Fresh :
          /\ target = session /\ session' = s
          /\ sessionFile' = [sessionFile EXCEPT ![target] = "deleted",
                                                ![s] = "live"]
  /\ parent' = "idle" /\ target' = None
  /\ UNCHANGED <<managerVars, task, events, worker, monitor, timer, detaching,
                 awaited, victims, undelivered, historyVars>>

\* It raises before the unlink, or after it (no new session can be created).
DeleteFails ==
  /\ "deleteError" \in Faults /\ ParentAt("deleting") /\ victims = {}
  /\ \E after \in {"live"} \union
                  (IF target = session THEN {"deleted"} ELSE {}) :
       sessionFile' = [sessionFile EXCEPT ![target] = after]
  /\ parent' = "idle" /\ target' = None
  /\ UNCHANGED <<managerVars, task, events, worker, monitor, timer, detaching,
                 awaited, session, victims, undelivered, historyVars>>

\* close(): refuse new tasks, terminate the workers ...
CloseBegin ==
  /\ ParentAt("idle")
  /\ closed' = TRUE /\ victims' = tasks /\ parent' = "closing"
  /\ UNCHANGED <<tasks, leaseTask, foreground, inbox, discarded, task, events,
                 worker, monitor, timer, detaching, awaited, sessionVars,
                 undelivered, historyVars>>

\* ... and clear the state; the joins time out, so monitors may still be at work.
CloseEnd ==
  /\ ParentAt("closing") /\ victims = {}
  /\ tasks' = {} /\ leaseTask' = None /\ foreground' = None
  /\ inbox' = [s \in Session |-> <<>>]
  /\ lost' = lost \union UNION {Elements(inbox[s]) : s \in Session}
  /\ parent' = "closed"
  /\ UNCHANGED <<discarded, closed, task, events, worker, monitor, timer,
                 detaching, awaited, sessionVars, victims, undelivered,
                 contexts, returned, abandoned, reported>>

-----------------------------------------------------------------------------
RunStep == SpawnFails \/ Register \/ ArmTimer \/ AwaitDetached \/ AwaitEvent
InterruptStep == StartInterrupt \/ ArmInterrupt \/ WaitInterrupt
DetachStep == DetachTest \/ DetachSet
DrainStep == Drain \/ DeliverNext \/ DrainFails
DeleteStep == DeleteFile \/ DeleteFails
CloseStep == CloseBegin \/ CloseEnd

WorkerStep(t) ==
  \/ ReadUsage(t)
  \/ \E a \in {"completed", "failed"} : ReadAnswer(t, a)
  \/ \E how \in {"exited", "killed"} : WorkerExits(t, how)

MonitorStep(t) == SetStatus(t) \/ FinishLocked(t) \/ Publish(t)
TimerStep(t) == TimerFires(t) \/ TimerKills(t)

\* The process has exited and every thread has come to its end.
Quiescent ==
  /\ parent = "closed"
  /\ \A t \in Task : /\ monitor[t] \in {"none", "done"} /\ ~Running(t)
                     /\ timer[t] \in {"none", "off"}
  /\ UNCHANGED vars

Next ==
  \/ \E t \in Task, k \in Requests, bg \in BOOLEAN : Spawn(t, k, bg)
  \/ RunStep \/ InterruptStep \/ DetachStep \/ DrainStep
  \/ \E s \in Session : NewSession(s) \/ ResumeSession(s) \/ DeleteSession(s)
  \/ \E t \in Task : KillVictim(t)
  \/ DeleteStep \/ CloseStep
  \/ \E t \in Task : WorkerStep(t) \/ MonitorStep(t) \/ TimerStep(t)
  \/ Quiescent

Spec == Init /\ [][Next]_vars

\* The threads are scheduled, an armed timer fires, and the parent goes on with
\* what it has begun. Workers, users and faults are under no obligation.
Fairness ==
  /\ WF_vars(RunStep) /\ WF_vars(DetachSet) /\ WF_vars(DeliverNext)
  /\ WF_vars(DeleteStep) /\ WF_vars(CloseEnd)
  /\ \A t \in Task : /\ WF_vars(KillVictim(t))
                     /\ WF_vars(MonitorStep(t))
                     /\ WF_vars(TimerStep(t))

FairSpec == Spec /\ Fairness

-----------------------------------------------------------------------------
(* Properties                                                               *)

\* Every variable has its type; threads and queues are where they may be.
TypeOK ==
  /\ tasks \subseteq Task
  /\ leaseTask \in Task \union {None} /\ foreground \in Task \union {None}
  /\ inbox \in [Session -> Seq(Task)]
  /\ discarded \subseteq Session /\ closed \in BOOLEAN
  /\ task \in [Task -> TaskRecord]
  /\ events \in [Task -> Seq({"usage", "status", "end"})]
  /\ worker \in [Task -> WorkerRecord]
  /\ monitor \in [Task -> {"none", "reading", "stopped", "unlocked", "done"}]
  /\ timer \in [Task -> {"none", "armed", "killing", "off"}]
  /\ parent \in {"idle", "spawning", "arming", "awaiting", "delivering",
                 "deleting", "closing", "closed"}
  /\ detaching \in BOOLEAN /\ awaited \in Task \union {None}
  /\ session \in Session /\ target \in Session \union {None}
  /\ sessionFile \in [Session -> {"fresh", "live", "deleted"}]
  /\ victims \subseteq Task /\ undelivered \in Seq(Task)
  /\ contexts \in [Session -> SUBSET Task]
  /\ returned \subseteq Task /\ lost \subseteq Task
  /\ abandoned \subseteq Task \union {None}
  /\ reported \in [Task -> Nat]

\* A non-isolated fork's worker never runs without the workspace write lease:
\* run() takes it before Popen and only _finish, after the worker has ended, or
\* a start that failed gives it back. Hence two such workers never overlap.
WriterHoldsLease ==
  \A t \in Task :
    task[t].kind = "sharedFork" /\ Running(t) /\ parent # "closed"
      => leaseTask = t

\* The places where the result of t waits or has arrived.
Places(t) ==
  (IF t \in returned THEN {<<"returned">>} ELSE {})
  \union {<<"context", s>> : s \in {s \in Session : t \in contexts[s]}}
  \union {<<"drained", i>> : i \in {i \in DOMAIN undelivered : undelivered[i] = t}}
  \union UNION {{<<"inbox", s, i>> :
                  i \in {i \in DOMAIN inbox[s] : inbox[s][i] = t}} : s \in Session}

\* A result reaches the parent at most once and over one channel: as the result
\* of the Agent call or through the inbox, even when Ctrl+B, the end of the
\* worker and the foreground loop of run() race.
HandedOnce == \A t \in Task : Cardinality(Places(t)) <= 1

\* Once _finish is over, the result is handed over or on its way, unless the
\* session was discarded, the manager closed, a drain failed, or the foreground
\* call that was to return it was interrupted.
NoResultMislaid ==
  \A t \in Task :
    monitor[t] = "done" =>
      \/ Places(t) # {}
      \/ t \in lost \/ closed \/ task[t].owner \in discarded
      \/ ~task[t].background /\ (awaited = t \/ t \in abandoned)

\* Switching sessions leaks nothing: a result sits only in the inbox, and only
\* reaches the context, of the session that started the task.
OwnSessionOnly ==
  \A s \in Session :
    /\ \A t \in contexts[s] \union Elements(inbox[s]) : task[t].owner = s
    /\ s = session => \A t \in Elements(undelivered) : task[t].owner = s

\* Deleting a session silences its workers: nothing is put into its inbox
\* after terminate_session(), however late they finish.
DiscardedQuiet == \A s \in discarded : inbox[s] = <<>>

\* Both: no interleaving of finishing workers with switches and deletions of
\* sessions puts a result where it does not belong.
InboxesSound == OwnSessionOnly /\ DiscardedQuiet

\* What detach_foreground() acts on is a registered task the parent has not let
\* go to the background: a finished one is never detached, since its result
\* would go to neither channel.
ForegroundRegistered ==
  foreground # None =>
    foreground \in tasks /\ ~task[foreground].background
      /\ monitor[foreground] \in {"reading", "stopped"}

\* A task reported as completed is one whose worker printed a completed answer
\* and then ended by itself with status 0.
CompletedHonestly ==
  \A t \in Task :
    task[t].status = "completed" =>
      worker[t].answer = "completed" /\ worker[t].proc = "exited"

\* Every task gives its slot back: the timer ends a worker that does not.
SlotFreed == \A t \in Task : t \in tasks ~> t \notin tasks

\* A parent that waits for a foreground task is released.
ForegroundReturns == (parent = "awaiting") ~> (parent # "awaiting")

\* README: the write lease is held for the whole task and makes WriteFile,
\* EditFile and Bash busy "temporarily": it is always given back.
LeaseReleased == \A t \in Task : leaseTask = t ~> leaseTask # t

\* The status bar's token usage counts what a worker used, not more.
UsageNotInflated == \A t \in Task : reported[t] <= task[t].usage

-----------------------------------------------------------------------------
(* Refinement of TaskLedger                                                 *)

InFlight(t) ==
  \/ t \in Elements(undelivered)
  \/ \E s \in Session : t \in Elements(inbox[s])
  \/ awaited = t /\ ~task[t].background /\ monitor[t] \in {"unlocked", "done"}

StageOf(t) ==
  CASE monitor[t] = "none" -> "new"
    [] monitor[t] # "none" /\ t \in tasks -> "running"
    [] monitor[t] # "none" /\ t \notin tasks /\ Handed(t) -> "delivered"
    [] monitor[t] # "none" /\ t \notin tasks /\ ~Handed(t) /\ InFlight(t)
         -> "ready"
    [] OTHER -> "dropped"

Stage == [t \in Task |-> StageOf(t)]
Writers == {t \in tasks : task[t].kind = "sharedFork"}

Ledger == INSTANCE TaskLedger WITH stage <- Stage, writers <- Writers

\* The threads, the queue, the inbox and the signals implement the ledger.
ImplementsLedger == Ledger!LedgerSpec
=============================================================================
