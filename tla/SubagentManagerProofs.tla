----------------------- MODULE SubagentManagerProofs -----------------------
(***************************************************************************)
(* What holds of SubagentManager for every set of tasks and sessions, every *)
(* capacity and every choice of faults.                                     *)
(***************************************************************************)
EXTENDS SubagentManager, SequenceTheorems, FiniteSetTheorems, TLAPS

-----------------------------------------------------------------------------
(* The control state that the safety invariants rest on                     *)

\* Inside run() the parent works on a task that has been asked for.
CallInv ==
  parent \in {"spawning", "arming", "awaiting"}
    => awaited \in Task /\ task[awaited].kind # "none"

\* The SIGUSR1 handler works on a task, and nobody takes it away meanwhile.
HandlerInv == detaching => foreground \in Task

\* drain()'s messages exist exactly while they are being added.
DrainInv == undelivered # <<>> <=> parent = "delivering"

Control == TypeOK /\ CallInv /\ HandlerInv /\ DrainInv

\* A worker being started is not monitored yet; a task that was never asked for
\* has no monitor; the monitor goes past the end of file only when the worker
\* has ended, and writes the status only then.
ThreadInv ==
  /\ parent = "spawning" => monitor[awaited] = "none"
  /\ \A t \in Task :
       /\ monitor[t] # "none" => task[t].kind # "none"
       /\ monitor[t] \in {"stopped", "unlocked", "done"} => ~Running(t)
       /\ monitor[t] \in {"none", "reading"} => task[t].status = "running"

\* Whatever waits in a queue or has arrived is the result of a started task.
ResultsStarted ==
  /\ \A t \in Elements(undelivered) : task[t].kind # "none"
  /\ \A s \in Session : \A t \in contexts[s] \union Elements(inbox[s]) :
       task[t].kind # "none"
-----------------------------------------------------------------------------
\* Taking the head of a queue empties it exactly when it held one element.
LEMMA LastTail ==
  ASSUME NEW S, NEW q \in Seq(S), q # <<>>
  PROVE  Tail(q) \in Seq(S) /\ (Tail(q) = <<>> <=> Len(q) = 1)
<1>1. /\ Tail(q) \in Seq(S) /\ Len(Tail(q)) = Len(q) - 1
      /\ Len(q) \in Nat \ {0} /\ Len(Tail(q)) \in Nat
  BY HeadTailProperties, EmptySeq, LenProperties
<1>2. Tail(q) = <<>> <=> Len(Tail(q)) = 0
  BY <1>1, EmptySeq
<1> QED
  BY <1>1, <1>2

LEMMA FinalStatusType == ASSUME NEW t \in Task PROVE FinalStatus(t) \in Final
  BY DEF FinalStatus, Final

\* The three updates of a task record that the provers need on their own.
LEMMA SpawnType ==
  ASSUME task \in [Task -> TaskRecord], session \in Session,
         NEW t \in Task, NEW k \in Requests, NEW bg \in BOOLEAN, Spawn(t, k, bg)
  PROVE  task' \in [Task -> TaskRecord]
<1> DEFINE r == [task[t] EXCEPT !.kind = k, !.owner = session, !.background = bg]
<1>1. r \in TaskRecord
  BY RequestsAssumption DEF TaskRecord
<1>2. task' = [task EXCEPT ![t] = r]
  BY DEF Spawn, TaskRecord
<1> QED
  BY <1>1, <1>2

LEMMA ReadUsageType ==
  ASSUME task \in [Task -> TaskRecord], NEW t \in Task, ReadUsage(t)
  PROVE  task' \in [Task -> TaskRecord]
<1>1. task[t].usage < MaxUsage /\ task' = [task EXCEPT ![t].usage = @ + 1]
  BY DEF ReadUsage
<1>2. task[t] \in TaskRecord /\ task[t].usage \in 0..MaxUsage
  BY DEF TaskRecord
<1> DEFINE n == task[t].usage + 1
           r == [task[t] EXCEPT !.usage = n]
<1>3. n \in 0..MaxUsage
  BY <1>1, <1>2, MaxUsageAssumption
<1>4. task' = [task EXCEPT ![t] = r]
  BY <1>1
<1> HIDE DEF n
<1>5. r \in TaskRecord
  BY <1>2, <1>3 DEF TaskRecord
<1> HIDE DEF r
<1> QED
  BY <1>4, <1>5

LEMMA TimerFiresType ==
  ASSUME task \in [Task -> TaskRecord], NEW t \in Task, TimerFires(t)
  PROVE  task' \in [Task -> TaskRecord]
<1> DEFINE r == [task[t] EXCEPT !.timedOut = TRUE]
<1>1. task' = task \/ task' = [task EXCEPT ![t].timedOut = TRUE]
  BY DEF TimerFires
<1>2. task' = task \/ task' = [task EXCEPT ![t] = r]
  BY <1>1
<1>3. task[t] \in TaskRecord
  OBVIOUS
<1>4. r \in TaskRecord
  BY <1>3 DEF TaskRecord
<1> HIDE DEF r
<1> QED
  BY <1>2, <1>4

LEMMA InitControl == Init => Control
<1> SUFFICES ASSUME Init PROVE Control
  OBVIOUS
<1>1. task \in [Task -> TaskRecord]
  BY MaxUsageAssumption DEF Init, TaskRecord, Kinds, Final
<1>2. worker \in [Task -> WorkerRecord]
  BY DEF Init, WorkerRecord
<1>3. sessionFile \in [Session -> {"fresh", "live", "deleted"}]
  BY DEF Init
<1>4. /\ events \in [Task -> Seq({"usage", "status", "end"})]
      /\ inbox \in [Session -> Seq(Task)] /\ undelivered \in Seq(Task)
  BY DEF Init
<1>5. TypeOK
  BY <1>1, <1>2, <1>3, <1>4 DEF Init, TypeOK
<1> QED
  BY <1>5 DEF Init, Control, CallInv, HandlerInv, DrainInv

\* Each action keeps the control state.
LEMMA StepControl == Control /\ [Next]_vars => Control'
<1> SUFFICES ASSUME Control, [Next]_vars PROVE Control'
  OBVIOUS
<1>t. task \in [Task -> TaskRecord]
  BY DEF Control, TypeOK
<1>s. session \in Session
  BY DEF Control, TypeOK
<1>a. /\ worker \in [Task -> WorkerRecord]
      /\ events \in [Task -> Seq({"usage", "status", "end"})]
      /\ inbox \in [Session -> Seq(Task)] /\ undelivered \in Seq(Task)
      /\ contexts \in [Session -> SUBSET Task]
      /\ reported \in [Task -> Nat]
  BY DEF Control, TypeOK
<1>1. ASSUME NEW t \in Task, NEW k \in Requests, NEW bg \in BOOLEAN,
             Spawn(t, k, bg)
      PROVE  Control'
  <2>1. task' \in [Task -> TaskRecord]
    BY <1>1, <1>t, <1>s, SpawnType
  <2>2. task'[t].kind # "none"
    BY <1>1, <1>t, RequestsAssumption DEF Spawn, Kinds
  <2>3. worker' \in [Task -> WorkerRecord]
    BY <1>1, <1>a DEF Spawn, WorkerRecord
  <2> QED
    BY <1>1, <2>1, <2>2, <2>3
    DEF Spawn, Control, TypeOK, CallInv, HandlerInv, DrainInv, ParentAt,
        managerVars, sessionVars, historyVars
<1>2. CASE SpawnFails
  BY <1>2 DEF SpawnFails, WorkerRecord, Control, TypeOK, CallInv, HandlerInv,
      DrainInv, ParentAt, managerVars, sessionVars, historyVars
<1>3. CASE Register
  BY <1>3 DEF Register, Control, TypeOK, CallInv, HandlerInv, DrainInv,
      ParentAt, managerVars, sessionVars, historyVars
<1>4. CASE ArmTimer
  BY <1>4 DEF ArmTimer, TimerOf, Control, TypeOK, CallInv, HandlerInv,
      DrainInv, ParentAt, managerVars, sessionVars, historyVars
<1>5. CASE AwaitDetached
  BY <1>5 DEF AwaitDetached, Control, TypeOK, CallInv, HandlerInv, DrainInv,
      ParentAt, managerVars, sessionVars, historyVars
<1>6. CASE AwaitEvent
  <2>1. awaited \in Task
    BY <1>6, <1>a DEF AwaitEvent, Control, CallInv, ParentAt
  <2>2. events' \in [Task -> Seq({"usage", "status", "end"})]
    BY <1>6, <1>a, <2>1 DEF AwaitEvent
  <2>3. reported' \in [Task -> Nat]
    BY <1>6, <1>a, <2>1 DEF AwaitEvent
  <2> QED
    BY <1>6, <2>1, <2>2, <2>3 DEF AwaitEvent, Control, TypeOK, CallInv,
        HandlerInv, DrainInv, ParentAt, managerVars, sessionVars, historyVars
<1>7. CASE InterruptStep
  BY <1>7 DEF InterruptStep, StartInterrupt, ArmInterrupt, WaitInterrupt,
      Interrupt, Control, TypeOK, CallInv, HandlerInv, DrainInv, ParentAt,
      managerVars, sessionVars, historyVars
<1>8. CASE DetachTest
  BY <1>8 DEF DetachTest, Control, TypeOK, CallInv, HandlerInv, DrainInv,
      ParentAt, managerVars, sessionVars, historyVars
<1>9. CASE DetachSet
  <2>1. foreground \in Task
    BY <1>9, <1>a DEF DetachSet, Control, HandlerInv
  <2>2. task' \in [Task -> TaskRecord]
    BY <1>9, <1>t, <2>1 DEF DetachSet, TaskRecord
  <2>3. \A u \in Task : task'[u].kind = task[u].kind
    BY <1>9, <1>t DEF DetachSet, TaskRecord
  <2> QED
    BY <1>9, <2>1, <2>2, <2>3 DEF DetachSet, Control, TypeOK, CallInv,
        HandlerInv, DrainInv, ParentAt, managerVars, sessionVars, historyVars
<1>10. ASSUME NEW t \in Task, ReadUsage(t) PROVE Control'
  <2>1. task' \in [Task -> TaskRecord]
    BY <1>10, <1>t, ReadUsageType
  <2>2. \A u \in Task : task'[u].kind = task[u].kind
    BY <1>10, <1>t DEF ReadUsage, TaskRecord
  <2>3. events' \in [Task -> Seq({"usage", "status", "end"})]
    BY <1>10, <1>a DEF ReadUsage
  <2> QED
    BY <1>10, <2>1, <2>2, <2>3 DEF ReadUsage, Control, TypeOK, CallInv,
        HandlerInv, DrainInv, ParentAt, managerVars, sessionVars, historyVars
<1>11. ASSUME NEW t \in Task, NEW a \in {"completed", "failed"}, ReadAnswer(t, a) PROVE Control'
  <2>1. worker' \in [Task -> WorkerRecord]
    BY <1>11, <1>a DEF ReadAnswer, WorkerRecord
  <2> QED
    BY <1>11, <2>1 DEF ReadAnswer, Control, TypeOK, CallInv, HandlerInv,
        DrainInv, ParentAt, managerVars, sessionVars, historyVars
<1>12. ASSUME NEW t \in Task, NEW how \in {"exited", "killed"}, WorkerExits(t, how) PROVE Control'
  <2>1. worker' \in [Task -> WorkerRecord]
    BY <1>12, <1>a DEF WorkerExits, WorkerRecord
  <2> QED
    BY <1>12, <2>1 DEF WorkerExits, Control, TypeOK, CallInv, HandlerInv,
        DrainInv, ParentAt, managerVars, sessionVars, historyVars
<1>13. ASSUME NEW t \in Task, SetStatus(t) PROVE Control'
  <2>1. task' \in [Task -> TaskRecord]
    BY <1>13, <1>t, FinalStatusType DEF SetStatus, TaskRecord, Final
  <2>2. \A u \in Task : task'[u].kind = task[u].kind
    BY <1>13, <1>t DEF SetStatus, TaskRecord
  <2> QED
    BY <1>13, <2>1, <2>2 DEF SetStatus, Control, TypeOK, CallInv, HandlerInv,
        DrainInv, ParentAt, managerVars, sessionVars, historyVars
<1>14. ASSUME NEW t \in Task, FinishLocked(t) PROVE Control'
  <2>1. inbox' \in [Session -> Seq(Task)]
    BY <1>14, <1>a, <1>t DEF FinishLocked, InboxOf, TaskRecord
  <2> QED
    BY <1>14, <2>1 DEF FinishLocked, LockFree, ForegroundAfter, Control, TypeOK,
        CallInv, HandlerInv, DrainInv, ParentAt, managerVars, sessionVars,
        historyVars
<1>15. ASSUME NEW t \in Task, Publish(t) PROVE Control'
  <2>1. events' \in [Task -> Seq({"usage", "status", "end"})]
    BY <1>15, <1>a DEF Publish
  <2> QED
    BY <1>15, <2>1 DEF Publish, Control, TypeOK, CallInv, HandlerInv, DrainInv,
        ParentAt, managerVars, sessionVars, historyVars
<1>16. ASSUME NEW t \in Task, TimerFires(t) PROVE Control'
  <2>1. task' \in [Task -> TaskRecord]
    BY <1>16, <1>t, TimerFiresType
  <2>2. \A u \in Task : task'[u].kind = task[u].kind
    BY <1>16, <1>t DEF TimerFires, TaskRecord
  <2> QED
    BY <1>16, <2>1, <2>2 DEF TimerFires, Control, TypeOK, CallInv, HandlerInv,
        DrainInv, ParentAt, managerVars, sessionVars, historyVars
<1>17. ASSUME NEW t \in Task, TimerKills(t) PROVE Control'
  <2>1. worker' \in [Task -> WorkerRecord]
    BY <1>17, <1>a DEF TimerKills, Terminated, WorkerRecord
  <2> QED
    BY <1>17, <2>1 DEF TimerKills, Control, TypeOK, CallInv, HandlerInv,
        DrainInv, ParentAt, managerVars, sessionVars, historyVars
<1>18. CASE Drain
  <2>1. inbox' \in [Session -> Seq(Task)]
    BY <1>18, <1>a, <1>s DEF Drain, ParentAt
  <2>2. \A t \in Task : DrainedUsage(t) \in Nat
    BY <1>18, <1>t, MaxUsageAssumption DEF DrainedUsage, TaskRecord
  <2>3. reported' \in [Task -> Nat]
    BY <1>18, <1>a, <2>2 DEF Drain
  <2>4. undelivered' \in Seq(Task) /\ undelivered' # <<>>
    BY <1>18, <1>a, <1>s DEF Drain, ParentAt
  <2> QED
    BY <1>18, <2>1, <2>2, <2>3, <2>4 DEF Drain, Control, TypeOK, CallInv,
        HandlerInv, DrainInv, ParentAt, managerVars, sessionVars, historyVars
<1>19. CASE DeliverNext
  <2>1. undelivered # <<>>
    BY <1>19, <1>a DEF DeliverNext, Control, DrainInv, ParentAt
  <2>2. Head(undelivered) \in Task
    BY <1>19, <1>a, <2>1, HeadTailProperties DEF DeliverNext
  <2>3. undelivered' \in Seq(Task) /\ (undelivered' = <<>> <=> parent' = "idle")
    BY <1>19, <1>a, <2>1, LastTail DEF DeliverNext
  <2>4. contexts' \in [Session -> SUBSET Task]
    BY <1>19, <1>a, <2>2 DEF DeliverNext
  <2> QED
    BY <1>19, <2>1, <2>2, <2>3, <2>4 DEF DeliverNext, Control, TypeOK, CallInv,
        HandlerInv, DrainInv, ParentAt, managerVars, sessionVars, historyVars
<1>20. CASE DrainFails
  BY <1>20 DEF DrainFails, Elements, Control, TypeOK, CallInv, HandlerInv,
      DrainInv, ParentAt, managerVars, sessionVars, historyVars
<1>21. ASSUME NEW s \in Session, NewSession(s) PROVE Control'
  BY <1>21 DEF NewSession, Control, TypeOK, CallInv, HandlerInv, DrainInv,
      ParentAt, managerVars, sessionVars, historyVars
<1>22. ASSUME NEW s \in Session, ResumeSession(s) PROVE Control'
  BY <1>22 DEF ResumeSession, Control, TypeOK, CallInv, HandlerInv, DrainInv,
      ParentAt, managerVars, sessionVars, historyVars
<1>23. ASSUME NEW s \in Session, DeleteSession(s) PROVE Control'
  BY <1>23 DEF DeleteSession, Elements, TasksOf, Control, TypeOK, CallInv,
      HandlerInv, DrainInv, ParentAt, managerVars, sessionVars, historyVars
<1>24. ASSUME NEW t \in Task, KillVictim(t) PROVE Control'
  <2>1. worker' \in [Task -> WorkerRecord]
    BY <1>24, <1>a DEF KillVictim, Terminated, WorkerRecord
  <2> QED
    BY <1>24, <2>1 DEF KillVictim, Control, TypeOK, CallInv, HandlerInv,
        DrainInv, ParentAt, managerVars, sessionVars, historyVars
<1>25. CASE DeleteFile
  BY <1>25 DEF DeleteFile, Fresh, Control, TypeOK, CallInv, HandlerInv,
      DrainInv, ParentAt, managerVars, sessionVars, historyVars
<1>26. CASE DeleteFails
  BY <1>26 DEF DeleteFails, Control, TypeOK, CallInv, HandlerInv, DrainInv,
      ParentAt, managerVars, sessionVars, historyVars
<1>27. CASE CloseBegin
  BY <1>27 DEF CloseBegin, Control, TypeOK, CallInv, HandlerInv, DrainInv,
      ParentAt, managerVars, sessionVars, historyVars
<1>28. CASE CloseEnd
  BY <1>28 DEF CloseEnd, Elements, Control, TypeOK, CallInv, HandlerInv,
      DrainInv, ParentAt, managerVars, sessionVars, historyVars
<1>29. CASE Quiescent
  BY <1>29 DEF Quiescent, vars, Control, TypeOK, CallInv, HandlerInv,
      DrainInv, ParentAt, managerVars, sessionVars, historyVars
<1>30. CASE UNCHANGED vars
  BY <1>30 DEF vars, Control, TypeOK, CallInv, HandlerInv, DrainInv, ParentAt,
      managerVars, sessionVars, historyVars
<1> QED
  BY <1>1, <1>2, <1>3, <1>4, <1>5, <1>6, <1>7, <1>8, <1>9, <1>10, <1>11,
      <1>12, <1>13, <1>14, <1>15, <1>16, <1>17, <1>18, <1>19, <1>20, <1>21,
      <1>22, <1>23, <1>24, <1>25, <1>26, <1>27, <1>28, <1>29, <1>30 DEF Next,
      RunStep, DetachStep, DrainStep, DeleteStep, CloseStep, WorkerStep,
      MonitorStep, TimerStep

LEMMA ControlHolds == Spec => []Control
<1> QED
  BY InitControl, StepControl, PTL DEF Spec

\* Every variable of the runtime keeps its type.
THEOREM TypeCorrect == Spec => []TypeOK
<1>1. Control => TypeOK
  BY DEF Control
<1> QED
  BY <1>1, ControlHolds, PTL

-----------------------------------------------------------------------------
(* Threads, worker processes and the lease                                  *)

\* Each action keeps the order of a task's life: asked for, monitored, ended,
\* classified.
LEMMA StepThreads == Control /\ ThreadInv /\ [Next]_vars => ThreadInv'
<1> SUFFICES ASSUME Control, ThreadInv, [Next]_vars PROVE ThreadInv'
  OBVIOUS
<1> USE DEF ThreadInv, Running, ParentAt
<1>t. /\ task \in [Task -> TaskRecord] /\ worker \in [Task -> WorkerRecord]
      /\ monitor \in [Task -> {"none", "reading", "stopped", "unlocked", "done"}]
      /\ parent \in {"spawning", "arming", "awaiting"}
           => awaited \in Task /\ task[awaited].kind # "none"
  BY DEF Control, TypeOK, CallInv
<1>1. ASSUME NEW t \in Task, NEW k \in Requests, NEW bg \in BOOLEAN, Spawn(t, k, bg) PROVE ThreadInv'
  BY <1>1, <1>t, RequestsAssumption DEF Spawn, TaskRecord, WorkerRecord, Kinds
<1>2. CASE SpawnFails
  BY <1>2, <1>t DEF SpawnFails, WorkerRecord
<1>3. CASE Register
  BY <1>3, <1>t DEF Register
<1>4. CASE DetachSet
  BY <1>4, <1>t DEF DetachSet, TaskRecord
<1>5. ASSUME NEW t \in Task, ReadUsage(t) PROVE ThreadInv'
  BY <1>5, <1>t DEF ReadUsage, TaskRecord
<1>6. ASSUME NEW t \in Task, TimerFires(t) PROVE ThreadInv'
  BY <1>6, <1>t DEF TimerFires, TaskRecord
<1>7. ASSUME NEW t \in Task, NEW a \in {"completed", "failed"}, ReadAnswer(t, a) PROVE ThreadInv'
  BY <1>7, <1>t DEF ReadAnswer, WorkerRecord
<1>8. ASSUME NEW t \in Task, NEW how \in {"exited", "killed"}, WorkerExits(t, how) PROVE ThreadInv'
  BY <1>8, <1>t DEF WorkerExits, WorkerRecord
<1>9. ASSUME NEW t \in Task, SetStatus(t) PROVE ThreadInv'
  BY <1>9, <1>t DEF SetStatus, TaskRecord, WorkerRecord
<1>10. ASSUME NEW t \in Task, FinishLocked(t) PROVE ThreadInv'
  BY <1>10, <1>t DEF FinishLocked
<1>11. ASSUME NEW t \in Task, Publish(t) PROVE ThreadInv'
  BY <1>11, <1>t DEF Publish
<1>12. ASSUME NEW t \in Task, TimerKills(t) PROVE ThreadInv'
  BY <1>12, <1>t DEF TimerKills, Terminated, WorkerRecord
<1>13. ASSUME NEW t \in Task, KillVictim(t) PROVE ThreadInv'
  BY <1>13, <1>t DEF KillVictim, Terminated, WorkerRecord
<1>14. CASE \/ ArmTimer \/ AwaitDetached \/ AwaitEvent \/ InterruptStep
         \/ DetachTest \/ DrainStep \/ DeleteStep \/ CloseStep \/ Quiescent
         \/ UNCHANGED vars
         \/ \E s \in Session : NewSession(s) \/ ResumeSession(s) \/ DeleteSession(s)
  <2>1. UNCHANGED <<task, worker, monitor>>
    BY <1>14
    DEF ArmTimer, AwaitDetached, AwaitEvent, InterruptStep, StartInterrupt,
        ArmInterrupt, WaitInterrupt, Interrupt, DetachTest, DrainStep, Drain,
        DeliverNext, DrainFails, DeleteStep, DeleteFile, DeleteFails, CloseStep,
        CloseBegin, CloseEnd, Quiescent, NewSession, ResumeSession,
        DeleteSession, vars
  <2>2. parent' = "spawning" => parent = "spawning" /\ awaited' = awaited
    BY <1>14
    DEF ArmTimer, AwaitDetached, AwaitEvent, InterruptStep, StartInterrupt,
        ArmInterrupt, WaitInterrupt, Interrupt, DetachTest, DrainStep, Drain,
        DeliverNext, DrainFails, DeleteStep, DeleteFile, DeleteFails, CloseStep,
        CloseBegin, CloseEnd, Quiescent, NewSession, ResumeSession,
        DeleteSession, vars
  <2> QED
    BY <2>1, <2>2
<1> QED
  BY <1>1, <1>2, <1>3, <1>4, <1>5, <1>6, <1>7, <1>8, <1>9, <1>10, <1>11, <1>12, <1>13, <1>14
  DEF Next, RunStep, DetachStep, WorkerStep, MonitorStep, TimerStep

LEMMA ThreadsHold == Spec => []ThreadInv
<1>1. Init => ThreadInv
  BY DEF Init, ThreadInv, Running
<1> QED
  BY <1>1, StepThreads, ControlHolds, PTL DEF Spec

\* A lease holder keeps the lease until its worker has ended.
LEMMA StepLease == Control /\ ThreadInv /\ WriterHoldsLease /\ [Next]_vars => WriterHoldsLease'
<1> SUFFICES ASSUME Control, ThreadInv, WriterHoldsLease, [Next]_vars PROVE WriterHoldsLease'
  OBVIOUS
<1> USE DEF WriterHoldsLease, Running
<1>t. task \in [Task -> TaskRecord] /\ worker \in [Task -> WorkerRecord]
  BY DEF Control, TypeOK
<1>c. parent \in {"spawning", "arming"} => awaited \in Task
  BY DEF Control, CallInv
<1>m. \A t \in Task : /\ monitor[t] # "none" => task[t].kind # "none"
                      /\ monitor[t] = "stopped" => ~Running(t)
  BY DEF ThreadInv
<1>1. ASSUME NEW t \in Task, NEW k \in Requests, NEW bg \in BOOLEAN, Spawn(t, k,
             bg)
      PROVE  WriterHoldsLease'
  BY <1>1, <1>t, <1>c, <1>m, RequestsAssumption, NoneAssumption DEF Spawn,
      LeaseGranted, TaskRecord, WorkerRecord, Kinds, ParentAt
<1>2. CASE SpawnFails
  BY <1>2, <1>t, <1>c, <1>m, NoneAssumption DEF SpawnFails, ParentAt,
      WorkerRecord
<1>3. CASE Register
  BY <1>3, <1>t, <1>c, <1>m DEF Register, ParentAt
<1>4. CASE ArmTimer
  BY <1>4, <1>t, <1>c, <1>m DEF ArmTimer, ParentAt, managerVars
<1>5. CASE AwaitDetached
  BY <1>5, <1>t, <1>c, <1>m DEF AwaitDetached, managerVars, ParentAt
<1>6. CASE AwaitEvent
  BY <1>6, <1>t, <1>c, <1>m DEF AwaitEvent, managerVars, ParentAt
<1>7. CASE InterruptStep
  BY <1>7, <1>t, <1>c, <1>m DEF InterruptStep, StartInterrupt, ArmInterrupt,
      WaitInterrupt, Interrupt, managerVars, ParentAt
<1>8. CASE DetachSet
  BY <1>8, <1>t, <1>c, <1>m DEF DetachSet, TaskRecord
<1>9. ASSUME NEW t \in Task, ReadUsage(t) PROVE WriterHoldsLease'
  BY <1>9, <1>t, <1>c, <1>m DEF ReadUsage, TaskRecord, managerVars
<1>10. ASSUME NEW t \in Task, NEW a \in {"completed", "failed"}, ReadAnswer(t,
             a)
      PROVE  WriterHoldsLease'
  BY <1>10, <1>t, <1>c, <1>m DEF ReadAnswer, WorkerRecord, managerVars
<1>11. ASSUME NEW t \in Task, NEW how \in {"exited", "killed"}, WorkerExits(t,
             how)
      PROVE  WriterHoldsLease'
  BY <1>11, <1>t, <1>c, <1>m DEF WorkerExits, WorkerRecord, managerVars
<1>12. ASSUME NEW t \in Task, SetStatus(t) PROVE WriterHoldsLease'
  BY <1>12, <1>t, <1>c, <1>m DEF SetStatus, TaskRecord, managerVars
<1>13. ASSUME NEW t \in Task, FinishLocked(t) PROVE WriterHoldsLease'
  BY <1>13, <1>t, <1>c, <1>m DEF FinishLocked
<1>14. ASSUME NEW t \in Task, TimerFires(t) PROVE WriterHoldsLease'
  BY <1>14, <1>t, <1>c, <1>m DEF TimerFires, TaskRecord, managerVars
<1>15. ASSUME NEW t \in Task, TimerKills(t) PROVE WriterHoldsLease'
  BY <1>15, <1>t, <1>c, <1>m DEF TimerKills, Terminated, WorkerRecord,
      managerVars
<1>16. CASE Drain
  BY <1>16, <1>t, <1>c, <1>m DEF Drain, ParentAt
<1>17. CASE DeliverNext
  BY <1>17, <1>t, <1>c, <1>m DEF DeliverNext, ParentAt, managerVars
<1>18. CASE DrainFails
  BY <1>18, <1>t, <1>c, <1>m DEF DrainFails, ParentAt, managerVars
<1>19. ASSUME NEW s \in Session, DeleteSession(s) PROVE WriterHoldsLease'
  BY <1>19, <1>t, <1>c, <1>m DEF DeleteSession, ParentAt
<1>20. ASSUME NEW t \in Task, KillVictim(t) PROVE WriterHoldsLease'
  BY <1>20, <1>t, <1>c, <1>m DEF KillVictim, Terminated, WorkerRecord,
      managerVars
<1>21. CASE DeleteFile
  BY <1>21, <1>t, <1>c, <1>m DEF DeleteFile, ParentAt, managerVars
<1>22. CASE DeleteFails
  BY <1>22, <1>t, <1>c, <1>m DEF DeleteFails, ParentAt, managerVars
<1>23. CASE CloseBegin
  BY <1>23, <1>t, <1>c, <1>m DEF CloseBegin, ParentAt
<1>24. CASE CloseEnd
  BY <1>24, <1>t, <1>c, <1>m DEF CloseEnd, ParentAt
<1>25. CASE \/ DetachTest \/ Quiescent \/ UNCHANGED vars
            \/ \E t \in Task : Publish(t)
            \/ \E s \in Session : NewSession(s) \/ ResumeSession(s)
  <2>1. UNCHANGED <<task, worker, leaseTask, parent>>
    BY <1>25 DEF DetachTest, Publish, NewSession, ResumeSession, Quiescent,
        vars, managerVars, sessionVars, historyVars
  <2> QED
    BY <2>1
<1> QED
  BY <1>1, <1>2, <1>3, <1>4, <1>5, <1>6, <1>7, <1>8, <1>9, <1>10, <1>11,
      <1>12, <1>13, <1>14, <1>15, <1>16, <1>17, <1>18, <1>19, <1>20, <1>21,
      <1>22, <1>23, <1>24, <1>25 DEF Next, RunStep, DetachStep, DrainStep,
      DeleteStep, CloseStep, WorkerStep, MonitorStep, TimerStep

\* Two writers of the shared workspace never overlap: as long as the manager is
\* open, the worker of a non-isolated fork runs only while its task holds the
\* lease, through timeouts, interrupts, deleted sessions and failed starts.
THEOREM WriterExcluded == Spec => []WriterHoldsLease
<1>1. Init => WriterHoldsLease
  BY DEF Init, WriterHoldsLease, Running
<1> QED
  BY <1>1, StepLease, ControlHolds, ThreadsHold, PTL DEF Spec

\* Once a task is completed, nothing touches its worker or its answer.
LEMMA StepCompleted == Control /\ ThreadInv /\ CompletedHonestly /\ [Next]_vars => CompletedHonestly'
<1> SUFFICES ASSUME Control, ThreadInv, CompletedHonestly, [Next]_vars PROVE CompletedHonestly'
  OBVIOUS
<1> USE DEF CompletedHonestly
<1>t. task \in [Task -> TaskRecord] /\ worker \in [Task -> WorkerRecord]
  BY DEF Control, TypeOK
<1>m. /\ \A t \in Task : /\ monitor[t] # "none" => task[t].kind # "none"
                         /\ monitor[t] \in {"none", "reading"} => task[t].status = "running"
      /\ parent = "spawning" => monitor[awaited] = "none" /\ awaited \in Task
      /\ monitor \in [Task -> {"none", "reading", "stopped", "unlocked", "done"}]
  BY DEF ThreadInv, Control, TypeOK, CallInv
<1>1. ASSUME NEW t \in Task, NEW k \in Requests, NEW bg \in BOOLEAN, Spawn(t, k,
             bg)
      PROVE  CompletedHonestly'
  <2>1. task[t].status = "running"
    BY <1>1, <1>m DEF Spawn
  <2>2. task'[t].status = task[t].status
    BY <1>1, <1>t DEF Spawn, TaskRecord
  <2>3. \A u \in Task \ {t} : task'[u] = task[u] /\ worker'[u] = worker[u]
    BY <1>1, <1>t DEF Spawn
  <2> QED
    BY <2>1, <2>2, <2>3
<1>2. CASE SpawnFails
  BY <1>2, <1>t, <1>m DEF SpawnFails, ParentAt, WorkerRecord
<1>3. CASE DetachSet
  BY <1>3, <1>t, <1>m DEF DetachSet, TaskRecord
<1>4. ASSUME NEW t \in Task, ReadUsage(t) PROVE CompletedHonestly'
  BY <1>4, <1>t, <1>m DEF ReadUsage, TaskRecord, WorkerRecord
<1>5. ASSUME NEW t \in Task, NEW a \in {"completed", "failed"}, ReadAnswer(t,
             a)
      PROVE  CompletedHonestly'
  BY <1>5, <1>t, <1>m DEF ReadAnswer, WorkerRecord, Running
<1>6. ASSUME NEW t \in Task, NEW how \in {"exited", "killed"}, WorkerExits(t,
             how)
      PROVE  CompletedHonestly'
  BY <1>6, <1>t, <1>m DEF WorkerExits, WorkerRecord, Running
<1>7. ASSUME NEW t \in Task, SetStatus(t) PROVE CompletedHonestly'
  BY <1>7, <1>t, <1>m DEF SetStatus, TaskRecord, FinalStatus
<1>8. ASSUME NEW t \in Task, TimerFires(t) PROVE CompletedHonestly'
  BY <1>8, <1>t, <1>m DEF TimerFires, TaskRecord
<1>9. ASSUME NEW t \in Task, TimerKills(t) PROVE CompletedHonestly'
  BY <1>9, <1>t, <1>m DEF TimerKills, Terminated, WorkerRecord
<1>10. ASSUME NEW t \in Task, KillVictim(t) PROVE CompletedHonestly'
  BY <1>10, <1>t, <1>m DEF KillVictim, Terminated, WorkerRecord
<1>11. CASE \/ Register \/ ArmTimer \/ AwaitDetached \/ AwaitEvent
            \/ InterruptStep \/ DetachTest \/ Drain \/ DeliverNext
            \/ DrainFails \/ DeleteFile \/ DeleteFails \/ CloseBegin
            \/ CloseEnd \/ Quiescent \/ UNCHANGED vars
            \/ \E t \in Task : FinishLocked(t) \/ Publish(t)
            \/ \E s \in Session : NewSession(s) \/ ResumeSession(s)
                   \/ DeleteSession(s)
  <2>1. UNCHANGED <<task, worker>>
    BY <1>11 DEF Register, ArmTimer, AwaitDetached, AwaitEvent,
        InterruptStep, StartInterrupt, ArmInterrupt, WaitInterrupt,
        Interrupt, DetachTest, FinishLocked, Publish, Drain, DeliverNext,
        DrainFails, NewSession, ResumeSession, DeleteSession, DeleteFile,
        DeleteFails, CloseBegin, CloseEnd, Quiescent, vars, managerVars,
        sessionVars, historyVars
  <2> QED
    BY <2>1
<1> QED
  BY <1>1, <1>2, <1>3, <1>4, <1>5, <1>6, <1>7, <1>8, <1>9, <1>10, <1>11 DEF
      Next, RunStep, DetachStep, DrainStep, DeleteStep, CloseStep, WorkerStep,
      MonitorStep, TimerStep

\* No kill, timeout, crash or late signal turns into a completed task: status
\* "completed" means that the worker said so and then ended with status 0.
THEOREM CompletedIsHonest == Spec => []CompletedHonestly
<1>1. Init => CompletedHonestly
  BY DEF Init, CompletedHonestly
<1> QED
  BY <1>1, StepCompleted, ControlHolds, ThreadsHold, PTL DEF Spec

-----------------------------------------------------------------------------
(* Where results go                                                         *)

\* _foreground is cleared by whoever takes the task away from the foreground.
LEMMA StepForeground == Control /\ ThreadInv /\ ForegroundRegistered /\ [Next]_vars => ForegroundRegistered'
<1> SUFFICES ASSUME Control, ThreadInv, ForegroundRegistered, [Next]_vars PROVE ForegroundRegistered'
  OBVIOUS
<1> USE DEF ForegroundRegistered
<1>t. task \in [Task -> TaskRecord]
  BY DEF Control, TypeOK
<1>m. /\ \A t \in Task : monitor[t] # "none" => task[t].kind # "none"
      /\ monitor \in [Task -> {"none", "reading", "stopped", "unlocked", "done"}]
      /\ parent = "spawning" => monitor[awaited] = "none" /\ awaited \in Task
      /\ tasks \subseteq Task /\ None \notin Task
  BY NoneAssumption DEF ThreadInv, Control, TypeOK, CallInv
<1>1. ASSUME NEW t \in Task, NEW k \in Requests, NEW bg \in BOOLEAN, Spawn(t, k,
             bg)
      PROVE  ForegroundRegistered'
  BY <1>1, <1>t, <1>m DEF Spawn, TaskRecord
<1>2. CASE Register
  BY <1>2, <1>t, <1>m DEF Register, ParentAt
<1>3. CASE DetachSet
  BY <1>3, <1>t, <1>m DEF DetachSet
<1>4. ASSUME NEW t \in Task, ReadUsage(t) PROVE ForegroundRegistered'
  BY <1>4, <1>t, <1>m DEF ReadUsage, TaskRecord, managerVars
<1>5. ASSUME NEW t \in Task, SetStatus(t) PROVE ForegroundRegistered'
  BY <1>5, <1>t, <1>m DEF SetStatus, TaskRecord, managerVars
<1>6. ASSUME NEW t \in Task, FinishLocked(t) PROVE ForegroundRegistered'
  BY <1>6, <1>t, <1>m DEF FinishLocked, ForegroundAfter
<1>7. ASSUME NEW t \in Task, Publish(t) PROVE ForegroundRegistered'
  BY <1>7, <1>t, <1>m DEF Publish, managerVars
<1>8. ASSUME NEW t \in Task, TimerFires(t) PROVE ForegroundRegistered'
  BY <1>8, <1>t, <1>m DEF TimerFires, TaskRecord, managerVars
<1>9. CASE CloseEnd
  BY <1>9, <1>t, <1>m DEF CloseEnd
<1>10. CASE \/ SpawnFails \/ ArmTimer \/ AwaitDetached \/ AwaitEvent
            \/ InterruptStep \/ DetachTest \/ Drain \/ DeliverNext
            \/ DrainFails \/ DeleteFile \/ DeleteFails \/ CloseBegin
            \/ Quiescent \/ UNCHANGED vars
            \/ \E t \in Task, a \in {"completed", "failed"} : ReadAnswer(t, a)
            \/ \E t \in Task, how \in {"exited", "killed"} : WorkerExits(t, how)
            \/ \E t \in Task : TimerKills(t) \/ KillVictim(t)
            \/ \E s \in Session : NewSession(s) \/ ResumeSession(s)
                   \/ DeleteSession(s)
  <2>1. UNCHANGED <<task, tasks, foreground, monitor>>
    BY <1>10 DEF SpawnFails, ArmTimer, AwaitDetached, AwaitEvent,
        InterruptStep, StartInterrupt, ArmInterrupt, WaitInterrupt,
        Interrupt, DetachTest, ReadAnswer, WorkerExits, TimerKills, Drain,
        DeliverNext, DrainFails, NewSession, ResumeSession, DeleteSession,
        KillVictim, DeleteFile, DeleteFails, CloseBegin, Quiescent, vars,
        managerVars, sessionVars, historyVars
  <2> QED
    BY <2>1
<1> QED
  BY <1>1, <1>2, <1>3, <1>4, <1>5, <1>6, <1>7, <1>8, <1>9, <1>10 DEF Next,
      RunStep, DetachStep, DrainStep, DeleteStep, CloseStep, WorkerStep,
      MonitorStep, TimerStep

\* Ctrl+B never acts on a task that has been answered or handed to the inbox.
THEOREM ForegroundIsRegistered == Spec => []ForegroundRegistered
<1>1. Init => ForegroundRegistered
  BY DEF Init, ForegroundRegistered
<1> QED
  BY <1>1, StepForeground, ControlHolds, ThreadsHold, PTL DEF Spec

\* Only _finish fills an inbox, and it looks at the discarded sessions first.
LEMMA StepDiscarded == Control /\ DiscardedQuiet /\ [Next]_vars => DiscardedQuiet'
<1> SUFFICES ASSUME Control, DiscardedQuiet, [Next]_vars PROVE DiscardedQuiet'
  OBVIOUS
<1> USE DEF DiscardedQuiet
<1>t. discarded \subseteq Session /\ inbox \in [Session -> Seq(Task)]
  BY DEF Control, TypeOK
<1>1. ASSUME NEW t \in Task, FinishLocked(t) PROVE DiscardedQuiet'
  BY <1>1, <1>t DEF FinishLocked, Deliverable, InboxOf
<1>2. CASE Drain
  BY <1>2, <1>t DEF Drain
<1>3. ASSUME NEW s \in Session, DeleteSession(s) PROVE DiscardedQuiet'
  BY <1>3, <1>t DEF DeleteSession
<1>4. CASE CloseEnd
  BY <1>4, <1>t DEF CloseEnd
<1>5. CASE \/ SpawnFails \/ Register \/ ArmTimer \/ AwaitDetached
           \/ AwaitEvent \/ InterruptStep \/ DetachTest \/ DetachSet
           \/ DeliverNext \/ DrainFails \/ DeleteFile \/ DeleteFails
           \/ CloseBegin \/ Quiescent \/ UNCHANGED vars
           \/ \E t \in Task, k \in Requests, bg \in BOOLEAN : Spawn(t, k, bg)
           \/ \E t \in Task : ReadUsage(t) \/ SetStatus(t) \/ Publish(t)
                  \/ TimerFires(t) \/ TimerKills(t) \/ KillVictim(t)
           \/ \E t \in Task, a \in {"completed", "failed"} : ReadAnswer(t, a)
           \/ \E t \in Task, how \in {"exited", "killed"} : WorkerExits(t, how)
           \/ \E s \in Session : NewSession(s) \/ ResumeSession(s)
  <2>1. UNCHANGED <<inbox, discarded>>
    BY <1>5 DEF Spawn, SpawnFails, Register, ArmTimer, AwaitDetached,
        AwaitEvent, InterruptStep, StartInterrupt, ArmInterrupt,
        WaitInterrupt, Interrupt, DetachTest, DetachSet, ReadUsage,
        ReadAnswer, WorkerExits, SetStatus, Publish, TimerFires, TimerKills,
        DeliverNext, DrainFails, NewSession, ResumeSession, KillVictim,
        DeleteFile, DeleteFails, CloseBegin, Quiescent, vars, managerVars,
        sessionVars, historyVars
  <2> QED
    BY <2>1
<1> QED
  BY <1>1, <1>2, <1>3, <1>4, <1>5 DEF Next, RunStep, DetachStep, DrainStep,
      DeleteStep, CloseStep, WorkerStep, MonitorStep, TimerStep

\* A deleted session stays silent, however late its workers finish.
THEOREM DiscardedIsQuiet == Spec => []DiscardedQuiet
<1>1. Init => DiscardedQuiet
  BY DEF Init, DiscardedQuiet
<1> QED
  BY <1>1, StepDiscarded, ControlHolds, PTL DEF Spec

\* An owner is set before the task is started and never again, so whatever has
\* an owner keeps it on its way from the inbox to the context.
Owned == ResultsStarted /\ OwnSessionOnly

LEMMA ElementsOfAppend ==
  ASSUME NEW S, NEW q \in Seq(S), NEW e \in S
  PROVE  Elements(Append(q, e)) = Elements(q) \union {e}
  BY AppendProperties DEF Elements

LEMMA OwnersKept ==
  ASSUME Control, Owned, UNCHANGED <<inbox, undelivered, contexts, session>>,
         \A u \in Task : task[u].kind # "none" =>
           task'[u].kind = task[u].kind /\ task'[u].owner = task[u].owner
  PROVE  Owned'
<1>1. /\ Elements(undelivered) \subseteq Task
      /\ \A s \in Session : contexts[s] \union Elements(inbox[s]) \subseteq Task
  BY DEF Control, TypeOK, Elements
<1>2. ResultsStarted'
  BY <1>1 DEF Owned, ResultsStarted, Elements
<1>3. OwnSessionOnly'
  BY <1>1 DEF Owned, OwnSessionOnly, ResultsStarted, Elements
<1> QED
  BY <1>2, <1>3 DEF Owned

\* Each action keeps results with the session of their task.
LEMMA StepOwned == Control /\ ThreadInv /\ Owned /\ [Next]_vars => Owned'
<1> SUFFICES ASSUME Control, ThreadInv, Owned, [Next]_vars PROVE Owned'
  OBVIOUS
<1> USE DEF Owned, ResultsStarted, OwnSessionOnly, Elements
<1>t. task \in [Task -> TaskRecord]
  BY DEF Control, TypeOK
<1>q. /\ inbox \in [Session -> Seq(Task)] /\ undelivered \in Seq(Task)
      /\ contexts \in [Session -> SUBSET Task] /\ session \in Session
      /\ undelivered # <<>> <=> parent = "delivering"
  BY DEF Control, TypeOK, DrainInv
<1>1. ASSUME NEW t \in Task, NEW k \in Requests, NEW bg \in BOOLEAN, Spawn(t, k,
             bg)
      PROVE  Owned'
  <2>1. \A u \in Task : task[u].kind # "none" =>
          task'[u].kind = task[u].kind /\ task'[u].owner = task[u].owner
    BY <1>1, <1>t DEF Spawn, TaskRecord
  <2>2. UNCHANGED <<inbox, undelivered, contexts, session>>
    BY <1>1 DEF Spawn, managerVars, sessionVars, historyVars
  <2> QED
    BY <2>1, <2>2, OwnersKept
<1>2. CASE DetachSet
  <2>1. \A u \in Task : task[u].kind # "none" =>
          task'[u].kind = task[u].kind /\ task'[u].owner = task[u].owner
    BY <1>2, <1>t DEF DetachSet, TaskRecord
  <2>2. UNCHANGED <<inbox, undelivered, contexts, session>>
    BY <1>2 DEF DetachSet, managerVars, sessionVars, historyVars
  <2> QED
    BY <2>1, <2>2, OwnersKept
<1>3. ASSUME NEW t \in Task, ReadUsage(t) PROVE Owned'
  <2>1. \A u \in Task : task[u].kind # "none" =>
          task'[u].kind = task[u].kind /\ task'[u].owner = task[u].owner
    BY <1>3, <1>t DEF ReadUsage, TaskRecord
  <2>2. UNCHANGED <<inbox, undelivered, contexts, session>>
    BY <1>3 DEF ReadUsage, managerVars, sessionVars, historyVars
  <2> QED
    BY <2>1, <2>2, OwnersKept
<1>4. ASSUME NEW t \in Task, SetStatus(t) PROVE Owned'
  <2>1. \A u \in Task : task[u].kind # "none" =>
          task'[u].kind = task[u].kind /\ task'[u].owner = task[u].owner
    BY <1>4, <1>t DEF SetStatus, TaskRecord
  <2>2. UNCHANGED <<inbox, undelivered, contexts, session>>
    BY <1>4 DEF SetStatus, managerVars, sessionVars, historyVars
  <2> QED
    BY <2>1, <2>2, OwnersKept
<1>5. ASSUME NEW t \in Task, FinishLocked(t) PROVE Owned'
  <2>1. task[t].kind # "none" /\ UNCHANGED <<task, undelivered, contexts, session>>
    BY <1>5 DEF FinishLocked, ThreadInv, historyVars, sessionVars
  <2>2. \A s \in Session :
          Elements(inbox'[s])
            \subseteq Elements(inbox[s]) \union (IF s = task[t].owner THEN {t} ELSE {})
    <3> HIDE DEF Elements
    <3>1. \/ inbox' = inbox
          \/ inbox' = [inbox EXCEPT ![task[t].owner] = Append(@, t)]
      BY <1>5 DEF FinishLocked, InboxOf
    <3>2. \A s \in Session : \/ inbox'[s] = inbox[s]
                             \/ /\ s = task[t].owner
                                /\ inbox'[s] = Append(inbox[s], t)
      BY <3>1, <1>q
    <3>3. \A s \in Session : Elements(Append(inbox[s], t)) = Elements(inbox[s]) \union {t}
      BY <1>q, ElementsOfAppend
    <3> QED
      BY <3>2, <3>3
  <2> QED
    BY <2>1, <2>2
<1>6. ASSUME NEW t \in Task, TimerFires(t) PROVE Owned'
  <2>1. \A u \in Task : task[u].kind # "none" =>
          task'[u].kind = task[u].kind /\ task'[u].owner = task[u].owner
    BY <1>6, <1>t DEF TimerFires, TaskRecord
  <2>2. UNCHANGED <<inbox, undelivered, contexts, session>>
    BY <1>6 DEF TimerFires, managerVars, sessionVars, historyVars
  <2> QED
    BY <2>1, <2>2, OwnersKept
<1>7. CASE Drain
  BY <1>7, <1>t, <1>q DEF Drain, sessionVars
<1>8. CASE DeliverNext
  BY <1>8, <1>t, <1>q, HeadTailProperties DEF DeliverNext, managerVars,
      sessionVars, ParentAt
<1>9. CASE DrainFails
  BY <1>9, <1>t, <1>q DEF DrainFails, managerVars, sessionVars
<1>10. ASSUME NEW s \in Session, NewSession(s) PROVE Owned'
  BY <1>10, <1>t, <1>q DEF NewSession, managerVars, historyVars, ParentAt
<1>11. ASSUME NEW s \in Session, ResumeSession(s) PROVE Owned'
  BY <1>11, <1>t, <1>q DEF ResumeSession, managerVars, historyVars, ParentAt
<1>12. ASSUME NEW s \in Session, DeleteSession(s) PROVE Owned'
  BY <1>12, <1>t, <1>q DEF DeleteSession, ParentAt
<1>13. CASE DeleteFile
  BY <1>13, <1>t, <1>q DEF DeleteFile, managerVars, historyVars, ParentAt
<1>14. CASE DeleteFails
  BY <1>14, <1>t, <1>q DEF DeleteFails, managerVars, historyVars, ParentAt
<1>15. CASE CloseEnd
  BY <1>15, <1>t, <1>q DEF CloseEnd, sessionVars
<1>16. CASE \/ SpawnFails \/ Register \/ ArmTimer \/ AwaitDetached
            \/ AwaitEvent \/ InterruptStep \/ DetachTest \/ CloseBegin
            \/ Quiescent \/ UNCHANGED vars
            \/ \E t \in Task, a \in {"completed", "failed"} : ReadAnswer(t, a)
            \/ \E t \in Task, how \in {"exited", "killed"} : WorkerExits(t, how)
            \/ \E t \in Task : Publish(t) \/ TimerKills(t) \/ KillVictim(t)
  <2>1. UNCHANGED <<task, inbox, undelivered, contexts, session>>
    BY <1>16 DEF SpawnFails, Register, ArmTimer, AwaitDetached, AwaitEvent,
        InterruptStep, StartInterrupt, ArmInterrupt, WaitInterrupt,
        Interrupt, DetachTest, ReadAnswer, WorkerExits, Publish, TimerKills,
        KillVictim, CloseBegin, Quiescent, vars, managerVars, sessionVars,
        historyVars
  <2> QED
    BY <2>1
<1> QED
  BY <1>1, <1>2, <1>3, <1>4, <1>5, <1>6, <1>7, <1>8, <1>9, <1>10, <1>11,
      <1>12, <1>13, <1>14, <1>15, <1>16 DEF Next, RunStep, DetachStep,
      DrainStep, DeleteStep, CloseStep, WorkerStep, MonitorStep, TimerStep

\* Switching and deleting sessions leaks nothing: results wait in the inbox of,
\* and reach the context of, the session that started their task.
THEOREM ResultsStayHome == Spec => []OwnSessionOnly
<1>1. Init => Owned
  BY DEF Init, Owned, ResultsStarted, OwnSessionOnly, Elements
<1>2. Owned => OwnSessionOnly
  BY DEF Owned
<1> QED
  BY <1>1, <1>2, StepOwned, ControlHolds, ThreadsHold, PTL DEF Spec

\* Both together: what the inboxes of sessions hold, across switches and
\* deletions of sessions (terminate_session, drain, _finish).
THEOREM InboxesAreSound == Spec => []InboxesSound
<1>1. OwnSessionOnly /\ DiscardedQuiet => InboxesSound
  BY DEF InboxesSound
<1> QED
  BY <1>1, ResultsStayHome, DiscardedIsQuiet, PTL
-----------------------------------------------------------------------------
(* Each result over one channel, and none mislaid                           *)

\* The results that wait in an inbox or between drain() and the context.
Waiting(t) ==
  \/ t \in Elements(undelivered)
  \/ \E s \in Session : t \in Elements(inbox[s])

Reached(t) == \E s \in Session : t \in contexts[s]

\* The parent is inside run() exactly for the task it awaits; only a detached
\* task changes sides, and a foreground task is awaited until its call has
\* returned or was interrupted.
CallerInv ==
  /\ awaited # None => parent \in {"spawning", "arming", "awaiting"}
  /\ parent \in {"closing", "closed"} => closed
  /\ \A t \in Task :
       /\ task[t].kind = "none" => ~task[t].detached
       /\ task[t].detached => task[t].background
       /\ monitor[t] # "none" /\ ~task[t].background
            => awaited = t \/ t \in abandoned \/ t \in returned

\* The event that ends the call and the inbox exclude each other: the first is
\* for a task that stayed in the foreground, the second for one that is in the
\* background, and neither is used before _finish.
ChannelInv ==
  \A t \in Task :
    /\ t \in returned => monitor[t] = "done" /\ ~task[t].background
    /\ "end" \in Elements(events[t]) => monitor[t] = "done" /\ ~task[t].background
    /\ Waiting(t) \/ Reached(t) =>
         monitor[t] \in {"unlocked", "done"} /\ task[t].background
    /\ awaited = t => t \notin returned

\* No queue holds a result twice, and no result is in two of them.
Distinct(q) == \A i, j \in DOMAIN q : q[i] = q[j] => i = j

OnceInv ==
  /\ Distinct(undelivered) /\ \A s \in Session : Distinct(inbox[s])
  /\ \A s \in Session : \A t \in Elements(inbox[s]) : t \notin Elements(undelivered)
  /\ \A t \in Task : Reached(t) => ~Waiting(t)

\* A finished background task is on its way, delivered, or given up by name.
KeptInv ==
  \A t \in Task :
    monitor[t] \in {"unlocked", "done"} /\ task[t].background =>
      \/ Waiting(t) \/ Reached(t)
      \/ t \in lost \/ closed \/ task[t].owner \in discarded

\* Taking the head, adding one, and adding the two events that end a call.
LEMMA ElementsOfTail ==
  ASSUME NEW S, NEW q \in Seq(S), q # <<>>
  PROVE  /\ Head(q) \in S /\ Tail(q) \in Seq(S)
         /\ Elements(q) = {Head(q)} \union Elements(Tail(q))
         /\ Distinct(q) => /\ Distinct(Tail(q))
                           /\ Head(q) \notin Elements(Tail(q))
<1>1. /\ Tail(q) \in Seq(S) /\ Len(Tail(q)) = Len(q) - 1 /\ Head(q) \in S
      /\ Len(q) \in Nat \ {0} /\ Len(Tail(q)) \in Nat
      /\ DOMAIN q = 1..Len(q) /\ DOMAIN Tail(q) = 1..Len(Tail(q))
      /\ Head(q) = q[1]
      /\ \A i \in 1..Len(Tail(q)) : Tail(q)[i] = q[i + 1]
  BY HeadTailProperties, EmptySeq, LenProperties
<1>2. \A i \in 1..Len(q) : i = 1 \/ i - 1 \in 1..Len(Tail(q))
  BY <1>1
<1>3. \A i \in 1..Len(Tail(q)) : i + 1 \in 1..Len(q) /\ i + 1 # 1
  BY <1>1
<1>4. Elements(q) = {Head(q)} \union Elements(Tail(q))
  <2>1. \A x \in Elements(q) : x \in {Head(q)} \union Elements(Tail(q))
    <3> SUFFICES ASSUME NEW i \in 1..Len(q)
                 PROVE  q[i] \in {Head(q)} \union Elements(Tail(q))
      BY <1>1 DEF Elements
    <3>1. CASE i = 1
      BY <3>1, <1>1
    <3>2. CASE i - 1 \in 1..Len(Tail(q))
      <4>1. Tail(q)[i - 1] = q[i]
        BY <3>2, <1>1
      <4> QED
        BY <3>2, <4>1, <1>1 DEF Elements
    <3> QED
      BY <3>1, <3>2, <1>2
  <2>2. Head(q) \in Elements(q)
    BY <1>1 DEF Elements
  <2>3. \A x \in Elements(Tail(q)) : x \in Elements(q)
    BY <1>1, <1>3 DEF Elements
  <2> QED
    BY <2>1, <2>2, <2>3
<1>5. Distinct(q) => Distinct(Tail(q))
  <2> SUFFICES ASSUME Distinct(q), NEW i \in DOMAIN Tail(q), NEW j \in DOMAIN Tail(q),
                      Tail(q)[i] = Tail(q)[j]
               PROVE  i = j
    BY DEF Distinct
  <2>1. i + 1 \in DOMAIN q /\ j + 1 \in DOMAIN q /\ q[i + 1] = q[j + 1]
    BY <1>1, <1>3
  <2>2. i + 1 = j + 1
    BY <2>1 DEF Distinct
  <2> QED
    BY <2>2, <1>1
<1>6. Distinct(q) => Head(q) \notin Elements(Tail(q))
  <2> SUFFICES ASSUME Distinct(q), NEW i \in DOMAIN Tail(q), Head(q) = Tail(q)[i]
               PROVE  FALSE
    BY DEF Elements
  <2>1. i + 1 \in DOMAIN q /\ 1 \in DOMAIN q /\ q[1] = q[i + 1] /\ i + 1 # 1
    BY <1>1, <1>3
  <2> QED
    BY <2>1 DEF Distinct
<1> QED
  BY <1>1, <1>4, <1>5, <1>6

LEMMA DistinctAppend ==
  ASSUME NEW S, NEW q \in Seq(S), NEW e \in S, Distinct(q), e \notin Elements(q)
  PROVE  Distinct(Append(q, e))
<1>1. /\ DOMAIN Append(q, e) = 1..(Len(q) + 1) /\ Len(q) \in Nat
      /\ DOMAIN q = 1..Len(q)
      /\ \A i \in 1..Len(q) : Append(q, e)[i] = q[i]
      /\ Append(q, e)[Len(q) + 1] = e
  BY AppendProperties, LenProperties
<1>2. \A i \in 1..(Len(q) + 1) : i \in 1..Len(q) \/ i = Len(q) + 1
  BY <1>1
<1>3. \A i \in 1..Len(q) : q[i] # e
  BY <1>1 DEF Elements
<1> QED
  BY <1>1, <1>2, <1>3 DEF Distinct

LEMMA ElementsOfEnd ==
  ASSUME NEW q \in Seq({"usage", "status", "end"})
  PROVE  Elements(q \o <<"status", "end">>) = Elements(q) \union {"status", "end"}
<1> DEFINE S == {"usage", "status", "end"}
<1>1. q \o <<"status", "end">> = Append(Append(q, "status"), "end")
  OBVIOUS
<1>2. Append(q, "status") \in Seq(S)
  OBVIOUS
<1>3. Elements(Append(q, "status")) = Elements(q) \union {"status"}
  BY ElementsOfAppend
<1>4. Elements(Append(Append(q, "status"), "end"))
        = Elements(Append(q, "status")) \union {"end"}
  <2> DEFINE r == Append(q, "status")
  <2>1. r \in Seq(S) /\ "end" \in S
    BY <1>2
  <2> HIDE DEF r, S
  <2>2. Elements(Append(r, "end")) = Elements(r) \union {"end"}
    BY <2>1, ElementsOfAppend
  <2> QED
    BY <2>2 DEF r
<1> QED
  BY <1>1, <1>3, <1>4

\* Each action keeps track of who waits for a foreground task.
LEMMA StepCaller ==
  Control /\ ThreadInv /\ ForegroundRegistered /\ CallerInv /\ [Next]_vars => CallerInv'
<1> SUFFICES ASSUME Control, ThreadInv, ForegroundRegistered, CallerInv, [Next]_vars
             PROVE  CallerInv'
  OBVIOUS
<1> USE NoneAssumption DEF CallerInv
<1>t. task \in [Task -> TaskRecord]
  BY DEF Control, TypeOK
<1>m. /\ \A t \in Task : monitor[t] # "none" => task[t].kind # "none"
      /\ monitor \in [Task -> {"none", "reading", "stopped", "unlocked", "done"}]
      /\ parent \in {"spawning", "arming", "awaiting"} => awaited \in Task
      /\ awaited \in Task \union {None}
  BY DEF ThreadInv, Control, TypeOK, CallInv
<1>1. ASSUME NEW t \in Task, NEW k \in Requests, NEW bg \in BOOLEAN, Spawn(t, k, bg)
      PROVE  CallerInv'
  <2>1. \A u \in Task \ {t} : task'[u] = task[u]
    BY <1>1, <1>t DEF Spawn
  <2>2. task'[t].detached = task[t].detached /\ task'[t].kind # "none"
    BY <1>1, <1>t, RequestsAssumption DEF Spawn, TaskRecord, Kinds
  <2>3. ~task[t].detached /\ monitor[t] = "none" /\ awaited = None
    BY <1>1, <1>m DEF Spawn, ParentAt
  <2>4. /\ monitor' = monitor /\ abandoned' = abandoned /\ returned' = returned
        /\ closed' = closed /\ parent' = "spawning" /\ awaited' = t
    BY <1>1 DEF Spawn, historyVars
  <2> QED
    BY <2>1, <2>2, <2>3, <2>4
<1>2. CASE DetachSet
  <2>1. /\ foreground \in Task /\ task[foreground].kind # "none"
    BY <1>2, <1>m DEF DetachSet, ForegroundRegistered, Control, HandlerInv
  <2>2. \A u \in Task : /\ task'[u].kind = task[u].kind
                        /\ u # foreground => task'[u] = task[u]
    BY <1>2, <1>t, <2>1 DEF DetachSet, TaskRecord
  <2>3. task'[foreground].detached /\ task'[foreground].background
    BY <1>2, <1>t, <2>1 DEF DetachSet, TaskRecord
  <2> QED
    BY <1>2, <2>1, <2>2, <2>3 DEF DetachSet, historyVars
<1>3. ASSUME NEW t \in Task, ReadUsage(t) \/ SetStatus(t) \/ TimerFires(t)
      PROVE  CallerInv'
  <2>1. \A u \in Task : /\ task'[u].kind = task[u].kind
                        /\ task'[u].detached = task[u].detached
                        /\ task'[u].background = task[u].background
    BY <1>3, <1>t DEF ReadUsage, SetStatus, TimerFires, TaskRecord
  <2>2. \A u \in Task : monitor'[u] # "none" => monitor[u] # "none"
    BY <1>3, <1>m DEF ReadUsage, SetStatus, TimerFires
  <2>3. UNCHANGED <<awaited, parent, closed, abandoned, returned>>
    BY <1>3 DEF ReadUsage, SetStatus, TimerFires, managerVars, historyVars
  <2> QED
    BY <2>1, <2>2, <2>3
<1>4. CASE Register
  <2>1. \A u \in Task \ {awaited} : monitor'[u] = monitor[u]
    BY <1>4, <1>m DEF Register, ParentAt
  <2> QED
    BY <1>4, <2>1 DEF Register, ParentAt, historyVars
<1>5. CASE SpawnFails
  <2>1. monitor[awaited] = "none"
    BY <1>5 DEF SpawnFails, ParentAt, ThreadInv
  <2> QED
    BY <1>5, <2>1, <1>m DEF SpawnFails, historyVars
<1>6. CASE ArmTimer
  BY <1>6, <1>m DEF ArmTimer, ParentAt, managerVars, historyVars
<1>7. CASE AwaitDetached
  BY <1>7, <1>m DEF AwaitDetached, ParentAt, managerVars, historyVars
<1>8. CASE AwaitEvent
  BY <1>8, <1>m DEF AwaitEvent, ParentAt, managerVars
<1>9. CASE InterruptStep
  BY <1>9, <1>m DEF InterruptStep, StartInterrupt, ArmInterrupt, WaitInterrupt,
      Interrupt, ParentAt, managerVars
<1>10. ASSUME NEW t \in Task, FinishLocked(t) \/ Publish(t) PROVE CallerInv'
  <2>1. \A u \in Task : monitor'[u] # "none" => monitor[u] # "none"
    BY <1>10, <1>m DEF FinishLocked, Publish
  <2> QED
    BY <1>10, <2>1 DEF FinishLocked, Publish, managerVars, historyVars
<1>11. CASE \/ Drain \/ DeliverNext \/ DrainFails \/ DeleteFile \/ DeleteFails
            \/ CloseBegin \/ CloseEnd
            \/ \E s \in Session : DeleteSession(s)
  <2>1. UNCHANGED <<task, monitor, awaited, abandoned, returned>>
    BY <1>11 DEF Drain, DeliverNext, DrainFails, DeleteFile, DeleteFails,
        CloseBegin, CloseEnd, DeleteSession, historyVars
  <2>2. /\ parent \notin {"spawning", "arming", "awaiting"}
        /\ parent' = "closed" => parent = "closing" /\ closed' = closed
        /\ parent' = "closing" => closed'
    BY <1>11 DEF Drain, DeliverNext, DrainFails, DeleteFile, DeleteFails,
        CloseBegin, CloseEnd, DeleteSession, ParentAt
  <2>3. awaited = None
    BY <2>2
  <2>4. parent' \in {"closing", "closed"} => closed'
    BY <2>2
  <2> QED
    BY <2>1, <2>3, <2>4
<1>12. CASE \/ DetachTest \/ Quiescent \/ UNCHANGED vars
            \/ \E t \in Task, a \in {"completed", "failed"} : ReadAnswer(t, a)
            \/ \E t \in Task, how \in {"exited", "killed"} : WorkerExits(t, how)
            \/ \E t \in Task : TimerKills(t) \/ KillVictim(t)
            \/ \E s \in Session : NewSession(s) \/ ResumeSession(s)
  <2>1. UNCHANGED <<task, monitor, awaited, abandoned, returned, parent, closed>>
    BY <1>12 DEF DetachTest, ReadAnswer, WorkerExits, TimerKills, KillVictim,
        NewSession, ResumeSession, Quiescent, vars, managerVars, historyVars
  <2> QED
    BY <2>1
<1> QED
  BY <1>1, <1>2, <1>3, <1>4, <1>5, <1>6, <1>7, <1>8, <1>9, <1>10, <1>11, <1>12
  DEF Next, RunStep, DetachStep, DrainStep, DeleteStep, CloseStep, WorkerStep,
      MonitorStep, TimerStep

\* What the steps that move results do to the queues. _finish adds one ...
LEMMA FinishQueues ==
  ASSUME Control, ThreadInv, ChannelInv, OnceInv, NEW t \in Task, FinishLocked(t)
  PROVE  /\ \A u \in Task : /\ Waiting(u)' <=> Waiting(u) \/ (u = t /\ Deliverable(t))
                            /\ Reached(u)' <=> Reached(u)
         /\ OnceInv'
<1>1. /\ inbox \in [Session -> Seq(Task)] /\ task[t].owner \in Session
      /\ UNCHANGED <<undelivered, contexts>>
      /\ \/ ~Deliverable(t) /\ inbox' = inbox
         \/ /\ Deliverable(t)
            /\ inbox' = [inbox EXCEPT ![task[t].owner] = Append(@, t)]
  BY DEF FinishLocked, InboxOf, Control, TypeOK, TaskRecord, historyVars
<1>2. ~Waiting(t) /\ ~Reached(t)
  BY DEF FinishLocked, ChannelInv
<1>3. CASE ~Deliverable(t) /\ inbox' = inbox
  BY <1>1, <1>3 DEF Waiting, Reached, OnceInv
<1>4. CASE Deliverable(t) /\ inbox' = [inbox EXCEPT ![task[t].owner] = Append(@, t)]
  <2> DEFINE o == task[t].owner
  <2>1. \A s \in Session :
          inbox'[s] = IF s = o THEN Append(inbox[s], t) ELSE inbox[s]
    BY <1>1, <1>4
  <2>2. \A s \in Session : Elements(Append(inbox[s], t)) = Elements(inbox[s]) \union {t}
    BY <1>1, ElementsOfAppend
  <2>3. \A s \in Session :
          Elements(inbox'[s]) = IF s = o THEN Elements(inbox[s]) \union {t}
                                ELSE Elements(inbox[s])
    BY <2>1, <2>2
  <2>4. o \in Session /\ t \notin Elements(inbox[o]) /\ t \notin Elements(undelivered)
    BY <1>1, <1>2 DEF Waiting
  <2>5. \A s \in Session : Distinct(inbox'[s])
    <3>1. Distinct(Append(inbox[o], t))
      BY <2>4, <1>1, DistinctAppend DEF OnceInv
    <3> QED
      BY <3>1, <2>1 DEF OnceInv
  <2> HIDE DEF o
  <2>6. \A u \in Task : /\ Waiting(u)' <=> Waiting(u) \/ u = t
                        /\ Reached(u)' <=> Reached(u)
    BY <1>1, <2>3, <2>4 DEF Waiting, Reached
  <2>7. \A s \in Session : \A u \in Elements(inbox'[s]) : u \notin Elements(undelivered')
    BY <1>1, <2>3, <2>4 DEF OnceInv
  <2> QED
    BY <1>1, <1>2, <1>4, <2>5, <2>6, <2>7 DEF OnceInv
<1> QED
  BY <1>1, <1>3, <1>4

\* ... drain() moves an inbox to the parent ...
LEMMA DrainQueues ==
  ASSUME Control, Owned, OnceInv, Drain
  PROVE  /\ \A u \in Task : /\ Waiting(u)' <=> Waiting(u)
                            /\ Reached(u)' <=> Reached(u)
         /\ OnceInv'
<1>1. /\ inbox \in [Session -> Seq(Task)] /\ session \in Session
      /\ undelivered' = inbox[session] /\ inbox' = [inbox EXCEPT ![session] = <<>>]
      /\ contexts' = contexts /\ undelivered = <<>>
  BY DEF Drain, Control, TypeOK, DrainInv, ParentAt
<1>2. \A s \in Session : inbox'[s] = IF s = session THEN <<>> ELSE inbox[s]
  BY <1>1
<1>3. Elements(<<>>) = {}
  BY DEF Elements
<1>4. \A u \in Task : /\ Waiting(u)' <=> Waiting(u)
                      /\ Reached(u)' <=> Reached(u)
  BY <1>1, <1>2, <1>3 DEF Waiting, Reached
<1>5. \A s \in Session : \A u \in Elements(inbox'[s]) : u \notin Elements(undelivered')
  BY <1>1, <1>2, <1>3 DEF Owned, OwnSessionOnly
<1>6. Distinct(undelivered') /\ \A s \in Session : Distinct(inbox'[s])
  <2>1. Distinct(<<>>)
    BY DEF Distinct
  <2> QED
    BY <2>1, <1>1, <1>2 DEF OnceInv
<1> QED
  BY <1>4, <1>5, <1>6 DEF OnceInv

\* ... the next message reaches the context ...
LEMMA DeliverQueues ==
  ASSUME Control, OnceInv, DeliverNext
  PROVE  /\ Head(undelivered) \in Task /\ Waiting(Head(undelivered))
         /\ \A u \in Task :
              /\ Waiting(u)' <=> Waiting(u) /\ u # Head(undelivered)
              /\ Reached(u)' <=> Reached(u) \/ u = Head(undelivered)
         /\ OnceInv'
<1> DEFINE h == Head(undelivered)
<1>1. /\ undelivered \in Seq(Task) /\ undelivered # <<>> /\ session \in Session
      /\ contexts \in [Session -> SUBSET Task]
      /\ inbox' = inbox /\ undelivered' = Tail(undelivered)
      /\ contexts' = [contexts EXCEPT ![session] = @ \union {h}]
      /\ Distinct(undelivered)
  BY DEF DeliverNext, Control, TypeOK, DrainInv, ParentAt, managerVars, OnceInv
<1>2. /\ h \in Task /\ Elements(undelivered) = {h} \union Elements(undelivered')
      /\ Distinct(undelivered') /\ h \notin Elements(undelivered')
  BY <1>1, ElementsOfTail
<1>3. \A s \in Session :
        contexts'[s] = IF s = session THEN contexts[s] \union {h} ELSE contexts[s]
  BY <1>1
<1> HIDE DEF h
<1>4. \A s \in Session : h \notin Elements(inbox[s])
  BY <1>2 DEF OnceInv
<1>5. \A u \in Task : /\ Waiting(u)' <=> Waiting(u) /\ u # h
                      /\ Reached(u)' <=> Reached(u) \/ u = h
  BY <1>1, <1>2, <1>3, <1>4 DEF Waiting, Reached
<1>6. Waiting(h)
  BY <1>2 DEF Waiting
<1>7. OnceInv'
  BY <1>1, <1>2, <1>5 DEF OnceInv
<1> QED
  BY <1>2, <1>5, <1>6, <1>7 DEF h

\* ... and the others give results up.
LEMMA LosingQueues ==
  ASSUME Control, OnceInv, DrainFails \/ CloseEnd \/ \E s \in Session : DeleteSession(s)
  PROVE  /\ \A u \in Task : /\ Waiting(u)' => Waiting(u)
                            /\ Waiting(u) => Waiting(u)' \/ u \in lost'
                            /\ Reached(u)' <=> Reached(u)
         /\ OnceInv'
<1>1. /\ inbox \in [Session -> Seq(Task)] /\ undelivered \in Seq(Task)
      /\ contexts' = contexts
      /\ undelivered # <<>> <=> parent = "delivering"
      /\ Elements(<<>>) = {} /\ Distinct(<<>>)
  BY DEF Control, TypeOK, DrainInv, Elements, Distinct, DrainFails, CloseEnd, DeleteSession
<1>2. CASE DrainFails
  <2>1. /\ inbox' = inbox /\ undelivered' = <<>>
        /\ lost' = lost \union Elements(undelivered)
    BY <1>2 DEF DrainFails, managerVars
  <2> QED
    BY <1>1, <2>1 DEF Waiting, Reached, OnceInv
<1>3. CASE CloseEnd
  <2>1. /\ \A s \in Session : inbox'[s] = <<>> /\ Elements(inbox[s]) \subseteq lost'
        /\ undelivered' = undelivered /\ undelivered = <<>>
    BY <1>1, <1>3 DEF CloseEnd, ParentAt
  <2> QED
    BY <1>1, <2>1 DEF Waiting, Reached, OnceInv
<1>4. ASSUME NEW s \in Session, DeleteSession(s)
      PROVE  /\ \A u \in Task : /\ Waiting(u)' => Waiting(u)
                                /\ Waiting(u) => Waiting(u)' \/ u \in lost'
                                /\ Reached(u)' <=> Reached(u)
             /\ OnceInv'
  <2>1. /\ \A z \in Session : inbox'[z] = IF z = s THEN <<>> ELSE inbox[z]
        /\ undelivered' = undelivered
        /\ lost' = lost \union Elements(inbox[s])
    BY <1>1, <1>4 DEF DeleteSession
  <2>2. \A u \in Task : /\ Waiting(u)' => Waiting(u)
                        /\ Waiting(u) => Waiting(u)' \/ u \in lost'
                        /\ Reached(u)' <=> Reached(u)
    BY <1>1, <2>1 DEF Waiting, Reached
  <2>3. OnceInv'
    BY <1>1, <2>1, <2>2 DEF OnceInv
  <2> QED
    BY <2>2, <2>3
<1> QED
  BY <1>2, <1>3, <1>4

\* Every other step leaves them alone.
LEMMA SameQueues ==
  ASSUME UNCHANGED <<inbox, undelivered, contexts>>
  PROVE  /\ \A u \in Task : /\ Waiting(u)' <=> Waiting(u)
                            /\ Reached(u)' <=> Reached(u)
         /\ OnceInv => OnceInv'
<1>1. \A u \in Task : /\ Waiting(u)' <=> Waiting(u)
                      /\ Reached(u)' <=> Reached(u)
  BY DEF Waiting, Reached
<1> QED
  BY <1>1 DEF OnceInv

\* Each action keeps results in one queue and once.
LEMMA StepOnce ==
  Control /\ ThreadInv /\ Owned /\ ChannelInv /\ OnceInv /\ [Next]_vars => OnceInv'
<1> SUFFICES ASSUME Control, ThreadInv, Owned, ChannelInv, OnceInv, [Next]_vars
             PROVE  OnceInv'
  OBVIOUS
<1>1. ASSUME NEW t \in Task, FinishLocked(t) PROVE OnceInv'
  BY <1>1, FinishQueues
<1>2. CASE Drain
  BY <1>2, DrainQueues
<1>3. CASE DeliverNext
  BY <1>3, DeliverQueues
<1>4. CASE DrainFails \/ CloseEnd \/ \E s \in Session : DeleteSession(s)
  BY <1>4, LosingQueues
<1>5. CASE \/ SpawnFails \/ Register \/ ArmTimer \/ AwaitDetached
           \/ AwaitEvent \/ InterruptStep \/ DetachTest \/ DetachSet
           \/ DeleteFile \/ DeleteFails
           \/ CloseBegin \/ Quiescent \/ UNCHANGED vars
  <2>1. UNCHANGED <<inbox, undelivered, contexts>>
    BY <1>5 DEF SpawnFails, Register, ArmTimer, AwaitDetached, AwaitEvent,
        InterruptStep, StartInterrupt, ArmInterrupt, WaitInterrupt, Interrupt,
        DetachTest, DetachSet, DeleteFile, DeleteFails, CloseBegin, Quiescent,
        vars, managerVars, historyVars
  <2> QED
    BY <2>1, SameQueues
<1>6. ASSUME NEW t \in Task, NEW k \in Requests, NEW bg \in BOOLEAN, Spawn(t, k, bg)
      PROVE  OnceInv'
  <2>1. UNCHANGED <<inbox, undelivered, contexts>>
    BY <1>6 DEF Spawn, historyVars
  <2> QED
    BY <2>1, SameQueues
<1>7. ASSUME NEW t \in Task, \/ WorkerStep(t) \/ SetStatus(t) \/ Publish(t)
                             \/ TimerStep(t) \/ KillVictim(t)
      PROVE  OnceInv'
  <2>1. UNCHANGED <<inbox, undelivered, contexts>>
    BY <1>7 DEF WorkerStep, ReadUsage, ReadAnswer, WorkerExits, SetStatus,
        Publish, TimerStep, TimerFires, TimerKills, KillVictim, managerVars,
        historyVars
  <2> QED
    BY <2>1, SameQueues
<1>8. ASSUME NEW s \in Session, NewSession(s) \/ ResumeSession(s) PROVE OnceInv'
  <2>1. UNCHANGED <<inbox, undelivered, contexts>>
    BY <1>8 DEF NewSession, ResumeSession, managerVars, historyVars
  <2> QED
    BY <2>1, SameQueues
<1> QED
  BY <1>1, <1>2, <1>3, <1>4, <1>5, <1>6, <1>7, <1>8 DEF Next, RunStep,
      DetachStep, DrainStep, DeleteStep, CloseStep, MonitorStep

\* Each action keeps the two channels apart.
LEMMA StepChannel ==
  Control /\ ThreadInv /\ ForegroundRegistered /\ Owned /\ CallerInv /\ ChannelInv
    /\ OnceInv /\ [Next]_vars => ChannelInv'
<1> SUFFICES ASSUME Control, ThreadInv, ForegroundRegistered, Owned, CallerInv,
                    ChannelInv, OnceInv, [Next]_vars
             PROVE  ChannelInv'
  OBVIOUS
<1> USE NoneAssumption DEF ChannelInv
<1>t. task \in [Task -> TaskRecord]
  BY DEF Control, TypeOK
<1>e. events \in [Task -> Seq({"usage", "status", "end"})]
  BY DEF Control, TypeOK
<1>m. /\ \A t \in Task : monitor[t] # "none" => task[t].kind # "none"
      /\ monitor \in [Task -> {"none", "reading", "stopped", "unlocked", "done"}]
      /\ parent \in {"spawning", "arming", "awaiting"} => awaited \in Task
      /\ awaited \in Task \union {None}
  BY DEF ThreadInv, Control, TypeOK, CallInv
<1>1. ASSUME NEW t \in Task, NEW k \in Requests, NEW bg \in BOOLEAN, Spawn(t, k, bg)
      PROVE  ChannelInv'
  <2>1. \A u \in Task \ {t} : task'[u] = task[u]
    BY <1>1, <1>t DEF Spawn
  <2>2. monitor[t] = "none"
    BY <1>1, <1>m DEF Spawn
  <2>3. /\ UNCHANGED <<inbox, undelivered, contexts, monitor, returned, events>>
        /\ awaited' = t
    BY <1>1 DEF Spawn, historyVars
  <2> QED
    BY <2>1, <2>2, <2>3, SameQueues
<1>2. CASE DetachSet
  <2>1. foreground \in Task /\ monitor[foreground] \in {"reading", "stopped"}
    BY <1>2, <1>m DEF DetachSet, ForegroundRegistered, Control, HandlerInv
  <2>2. \A u \in Task \ {foreground} : task'[u] = task[u]
    BY <1>2, <1>t, <2>1 DEF DetachSet
  <2>3. UNCHANGED <<inbox, undelivered, contexts, monitor, returned, events, awaited>>
    BY <1>2 DEF DetachSet, historyVars
  <2> QED
    BY <2>1, <2>2, <2>3, SameQueues
<1>3. ASSUME NEW t \in Task, ReadUsage(t) PROVE ChannelInv'
  <2>1. \A u \in Task : task'[u].background = task[u].background
    BY <1>3, <1>t DEF ReadUsage, TaskRecord
  <2>2. UNCHANGED <<inbox, undelivered, contexts, monitor, returned, awaited>>
    BY <1>3 DEF ReadUsage, managerVars, historyVars
  <2>3. \A u \in Task : "end" \in Elements(events'[u]) => "end" \in Elements(events[u])
    <3>1. Elements(Append(events[t], "usage")) = Elements(events[t]) \union {"usage"}
      <4>1. events[t] \in Seq({"usage", "status", "end"})
        BY <1>e
      <4> QED
        BY <4>1, ElementsOfAppend
    <3>2. \A u \in Task : \/ events'[u] = events[u]
                          \/ u = t /\ events'[u] = Append(events[t], "usage")
      <4>1. \/ events' = events
            \/ events' = [events EXCEPT ![t] = Append(@, "usage")]
        BY <1>3 DEF ReadUsage
      <4> QED
        BY <4>1, <1>e
    <3>3. \A u \in Task : Elements(events'[u]) = Elements(events[u])
                          \/ Elements(events'[u]) = Elements(events[u]) \union {"usage"}
      BY <3>1, <3>2
    <3> QED
      BY <3>3
  <2> QED
    BY <2>1, <2>2, <2>3, SameQueues
<1>4. ASSUME NEW t \in Task, SetStatus(t) \/ TimerFires(t) PROVE ChannelInv'
  <2>1. \A u \in Task : task'[u].background = task[u].background
    BY <1>4, <1>t DEF SetStatus, TimerFires, TaskRecord
  <2>2. \A u \in Task : monitor'[u] = monitor[u] \/ monitor[u] = "reading"
    BY <1>4, <1>m DEF SetStatus, TimerFires
  <2>3. UNCHANGED <<inbox, undelivered, contexts, returned, awaited, events>>
    BY <1>4 DEF SetStatus, TimerFires, managerVars, historyVars
  <2> QED
    BY <2>1, <2>2, <2>3, SameQueues
<1>5. ASSUME NEW t \in Task, Publish(t) PROVE ChannelInv'
  <2>1. UNCHANGED <<inbox, undelivered, contexts, returned, awaited, task>>
    BY <1>5 DEF Publish, managerVars, historyVars
  <2>2. \A u \in Task : IF u = t THEN monitor[u] = "unlocked" /\ monitor'[u] = "done"
                        ELSE monitor'[u] = monitor[u]
    BY <1>5, <1>m DEF Publish
  <2>3. \A u \in Task : "end" \in Elements(events'[u]) =>
          "end" \in Elements(events[u]) \/ (u = t /\ ~task[t].background)
    <3>1. CASE EndsCall(t)
      <4>1. \A u \in Task : u # t => events'[u] = events[u]
        BY <1>5, <1>e DEF Publish
      <4> QED
        BY <3>1, <4>1 DEF EndsCall
    <3>2. CASE ~EndsCall(t)
      BY <1>5, <3>2 DEF Publish
    <3> QED
      BY <3>1, <3>2
  <2> QED
    BY <2>1, <2>2, <2>3, SameQueues
<1>6. ASSUME NEW t \in Task, FinishLocked(t) PROVE ChannelInv'
  <2>1. \A u \in Task : /\ Waiting(u)' <=> Waiting(u) \/ (u = t /\ Deliverable(t))
                        /\ Reached(u)' <=> Reached(u)
    BY <1>6, FinishQueues
  <2>2. Deliverable(t) => task[t].background
    BY DEF Deliverable
  <2>3. \A u \in Task : IF u = t THEN monitor[u] = "stopped" /\ monitor'[u] = "unlocked"
                        ELSE monitor'[u] = monitor[u]
    BY <1>6, <1>m DEF FinishLocked
  <2>4. UNCHANGED <<returned, awaited, task, events>>
    BY <1>6 DEF FinishLocked, historyVars
  <2> QED
    BY <2>1, <2>2, <2>3, <2>4
<1>7. CASE Register
  <2>1. \A u \in Task : IF u = awaited THEN monitor[u] = "none" ELSE monitor'[u] = monitor[u]
    BY <1>7, <1>m DEF Register, ParentAt, ThreadInv
  <2>2. UNCHANGED <<inbox, undelivered, contexts, returned, awaited, task, events>>
    BY <1>7 DEF Register, historyVars
  <2> QED
    BY <2>1, <2>2, SameQueues
<1>8. CASE AwaitEvent
  <2>1. UNCHANGED <<inbox, undelivered, contexts, task, monitor>> /\ awaited \in Task
    BY <1>8, <1>m DEF AwaitEvent, ParentAt, managerVars
  <2>2. /\ Head(events[awaited]) \in Elements(events[awaited])
        /\ Elements(Tail(events[awaited])) \subseteq Elements(events[awaited])
    <3>1. /\ events[awaited] \in Seq({"usage", "status", "end"})
          /\ events[awaited] # <<>>
      BY <1>8, <1>e, <2>1 DEF AwaitEvent
    <3> QED
      BY <3>1, ElementsOfTail
  <2>3. \A u \in Task : Elements(events'[u]) \subseteq Elements(events[u])
    BY <1>8, <1>e, <2>1, <2>2 DEF AwaitEvent
  <2>4. CASE Head(events[awaited]) = "end"
    <3>1. awaited' = None /\ returned' = returned \union {awaited}
      BY <1>8, <2>4 DEF AwaitEvent
    <3>2. "end" \in Elements(events[awaited])
      BY <2>2, <2>4
    <3> QED
      BY <2>1, <2>3, <3>1, <3>2, SameQueues
  <2>5. CASE Head(events[awaited]) # "end"
    <3>1. UNCHANGED <<awaited, returned>>
      BY <1>8, <2>5 DEF AwaitEvent
    <3> QED
      BY <2>1, <2>3, <3>1, SameQueues
  <2> QED
    BY <2>4, <2>5
<1>9. CASE \/ SpawnFails \/ ArmTimer \/ AwaitDetached \/ InterruptStep \/ DetachTest
           \/ DeleteFile \/ DeleteFails \/ CloseBegin \/ Quiescent \/ UNCHANGED vars
           \/ \E t \in Task, a \in {"completed", "failed"} : ReadAnswer(t, a)
           \/ \E t \in Task, how \in {"exited", "killed"} : WorkerExits(t, how)
           \/ \E t \in Task : TimerKills(t) \/ KillVictim(t)
           \/ \E s \in Session : NewSession(s) \/ ResumeSession(s)
  <2>1. UNCHANGED <<inbox, undelivered, contexts, task, monitor, returned, events>>
    BY <1>9 DEF SpawnFails, ArmTimer, AwaitDetached, InterruptStep,
        StartInterrupt, ArmInterrupt, WaitInterrupt, Interrupt, DetachTest,
        ReadAnswer, WorkerExits, TimerKills, KillVictim, NewSession,
        ResumeSession, DeleteFile, DeleteFails, CloseBegin, Quiescent, vars,
        managerVars, historyVars
  <2>2. awaited' \in {awaited, None}
    BY <1>9 DEF SpawnFails, ArmTimer, AwaitDetached, InterruptStep,
        StartInterrupt, ArmInterrupt, WaitInterrupt, Interrupt, DetachTest,
        ReadAnswer, WorkerExits, TimerKills, KillVictim, NewSession,
        ResumeSession, DeleteFile, DeleteFails, CloseBegin, Quiescent, vars,
        managerVars, historyVars
  <2> QED
    BY <2>1, <2>2, SameQueues
<1>10. CASE \/ Drain \/ DeliverNext \/ DrainFails \/ CloseEnd
            \/ \E s \in Session : DeleteSession(s)
  <2>1. UNCHANGED <<task, monitor, awaited, returned, events>>
    BY <1>10 DEF Drain, DeliverNext, DrainFails, CloseEnd, DeleteSession
  <2>2. \A u \in Task : Waiting(u)' \/ Reached(u)' => Waiting(u) \/ Reached(u)
    BY <1>10, DrainQueues, DeliverQueues, LosingQueues
  <2> QED
    BY <2>1, <2>2
<1> QED
  BY <1>1, <1>2, <1>3, <1>4, <1>5, <1>6, <1>7, <1>8, <1>9, <1>10 DEF Next,
      RunStep, DetachStep, DrainStep, DeleteStep, CloseStep, WorkerStep,
      MonitorStep, TimerStep

\* Each action accounts for the results of finished background tasks.
LEMMA StepKept ==
  Control /\ ThreadInv /\ ForegroundRegistered /\ Owned /\ ChannelInv /\ OnceInv
    /\ KeptInv /\ [Next]_vars => KeptInv'
<1> SUFFICES ASSUME Control, ThreadInv, ForegroundRegistered, Owned, ChannelInv,
                    OnceInv, KeptInv, [Next]_vars
             PROVE  KeptInv'
  OBVIOUS
<1> USE NoneAssumption DEF KeptInv
<1>t. task \in [Task -> TaskRecord]
  BY DEF Control, TypeOK
<1>m. /\ \A t \in Task : monitor[t] # "none" => task[t].kind # "none"
      /\ monitor \in [Task -> {"none", "reading", "stopped", "unlocked", "done"}]
      /\ parent \in {"spawning", "arming", "awaiting"} => awaited \in Task
  BY DEF ThreadInv, Control, TypeOK, CallInv
<1>1. ASSUME NEW t \in Task, NEW k \in Requests, NEW bg \in BOOLEAN, Spawn(t, k, bg)
      PROVE  KeptInv'
  <2>1. monitor[t] = "none" /\ \A u \in Task \ {t} : task'[u] = task[u]
    BY <1>1, <1>t, <1>m DEF Spawn
  <2>2. UNCHANGED <<inbox, undelivered, contexts, monitor, lost, closed, discarded>>
    BY <1>1 DEF Spawn, historyVars
  <2> QED
    BY <2>1, <2>2, SameQueues
<1>2. CASE DetachSet
  <2>1. foreground \in Task /\ monitor[foreground] \in {"reading", "stopped"}
    BY <1>2, <1>m DEF DetachSet, ForegroundRegistered, Control, HandlerInv
  <2>2. \A u \in Task \ {foreground} : task'[u] = task[u]
    BY <1>2, <1>t, <2>1 DEF DetachSet
  <2>3. UNCHANGED <<inbox, undelivered, contexts, monitor, lost, closed, discarded>>
    BY <1>2 DEF DetachSet, historyVars
  <2> QED
    BY <2>1, <2>2, <2>3, SameQueues
<1>3. ASSUME NEW t \in Task, ReadUsage(t) \/ SetStatus(t) \/ TimerFires(t)
      PROVE  KeptInv'
  <2>1. \A u \in Task : /\ task'[u].background = task[u].background
                        /\ task'[u].owner = task[u].owner
    BY <1>3, <1>t DEF ReadUsage, SetStatus, TimerFires, TaskRecord
  <2>2. \A u \in Task : monitor'[u] \in {"unlocked", "done"} => monitor'[u] = monitor[u]
    BY <1>3, <1>m DEF ReadUsage, SetStatus, TimerFires
  <2>3. UNCHANGED <<inbox, undelivered, contexts, lost, closed, discarded>>
    BY <1>3 DEF ReadUsage, SetStatus, TimerFires, managerVars, historyVars
  <2> QED
    BY <2>1, <2>2, <2>3, SameQueues
<1>4. CASE Register
  <2>1. \A u \in Task : monitor'[u] \in {"unlocked", "done"} => monitor'[u] = monitor[u]
    BY <1>4, <1>m DEF Register, ParentAt
  <2>2. UNCHANGED <<inbox, undelivered, contexts, task, lost, closed, discarded>>
    BY <1>4 DEF Register, historyVars
  <2> QED
    BY <2>1, <2>2, SameQueues
<1>5. ASSUME NEW t \in Task, Publish(t) PROVE KeptInv'
  <2>1. \A u \in Task : monitor'[u] \in {"unlocked", "done"} =>
                          monitor[u] \in {"unlocked", "done"}
    BY <1>5, <1>m DEF Publish
  <2>2. UNCHANGED <<inbox, undelivered, contexts, task, lost, closed, discarded>>
    BY <1>5 DEF Publish, managerVars, historyVars
  <2> QED
    BY <2>1, <2>2, SameQueues
<1>6. ASSUME NEW t \in Task, FinishLocked(t) PROVE KeptInv'
  <2>1. \A u \in Task : /\ Waiting(u)' <=> Waiting(u) \/ (u = t /\ Deliverable(t))
                        /\ Reached(u)' <=> Reached(u)
    BY <1>6, FinishQueues
  <2>2. \A u \in Task : u # t => monitor'[u] = monitor[u]
    BY <1>6, <1>m DEF FinishLocked
  <2>3. UNCHANGED <<task, lost, closed, discarded>>
    BY <1>6 DEF FinishLocked, historyVars
  <2> QED
    BY <2>1, <2>2, <2>3 DEF Deliverable
<1>7. CASE \/ Drain \/ DeliverNext \/ DrainFails \/ CloseEnd
           \/ \E s \in Session : DeleteSession(s)
  <2>1. /\ UNCHANGED <<task, monitor>>
        /\ closed' = closed /\ discarded \subseteq discarded' /\ lost \subseteq lost'
    BY <1>7 DEF Drain, DeliverNext, DrainFails, CloseEnd, DeleteSession, managerVars
  <2>2. \A u \in Task : Waiting(u) \/ Reached(u) =>
                          (Waiting(u)' \/ Reached(u)') \/ u \in lost'
    BY <1>7, DrainQueues, DeliverQueues, LosingQueues
  <2> QED
    BY <2>1, <2>2
<1>8. CASE \/ SpawnFails \/ ArmTimer \/ AwaitDetached \/ AwaitEvent
           \/ InterruptStep \/ DetachTest \/ DeleteFile \/ DeleteFails
           \/ Quiescent \/ UNCHANGED vars
  <2>1. UNCHANGED <<inbox, undelivered, contexts, monitor, task, lost, closed, discarded>>
    BY <1>8 DEF SpawnFails, ArmTimer, AwaitDetached, AwaitEvent,
        InterruptStep, StartInterrupt, ArmInterrupt, WaitInterrupt, Interrupt,
        DetachTest, DeleteFile, DeleteFails, Quiescent, vars, managerVars,
        historyVars
  <2> QED
    BY <2>1, SameQueues
<1>9. CASE CloseBegin
  BY <1>9 DEF CloseBegin
<1>10. ASSUME NEW t \in Task, \/ KillVictim(t) \/ TimerKills(t)
                              \/ \E a \in {"completed", "failed"} : ReadAnswer(t, a)
                              \/ \E how \in {"exited", "killed"} : WorkerExits(t, how)
       PROVE  KeptInv'
  <2>1. UNCHANGED <<inbox, undelivered, contexts, monitor, task, lost, closed, discarded>>
    BY <1>10 DEF KillVictim, TimerKills, ReadAnswer, WorkerExits, managerVars, historyVars
  <2> QED
    BY <2>1, SameQueues
<1>11. ASSUME NEW s \in Session, NewSession(s) \/ ResumeSession(s) PROVE KeptInv'
  <2>1. UNCHANGED <<inbox, undelivered, contexts, monitor, task, lost, closed, discarded>>
    BY <1>11 DEF NewSession, ResumeSession, managerVars, historyVars
  <2> QED
    BY <2>1, SameQueues
<1> QED
  BY <1>1, <1>2, <1>3, <1>4, <1>5, <1>6, <1>7, <1>8, <1>9, <1>10, <1>11
  DEF Next, RunStep, DetachStep, DrainStep, DeleteStep, CloseStep, WorkerStep,
      MonitorStep, TimerStep

Delivery == CallerInv /\ ChannelInv /\ OnceInv /\ KeptInv

LEMMA DeliveryHolds == Spec => [](ForegroundRegistered /\ Owned /\ Delivery)
<1>1. Init => ForegroundRegistered /\ Owned /\ Delivery
  <2> SUFFICES ASSUME Init PROVE ForegroundRegistered /\ Owned /\ Delivery
    OBVIOUS
  <2>1. /\ \A t \in Task : /\ task[t].kind = "none" /\ ~task[t].detached
                           /\ monitor[t] = "none" /\ events[t] = <<>>
        /\ \A s \in Session : inbox[s] = <<>> /\ contexts[s] = {}
        /\ undelivered = <<>> /\ returned = {} /\ parent = "idle"
        /\ awaited = None /\ foreground = None
    BY DEF Init
  <2>2. Elements(<<>>) = {} /\ Distinct(<<>>)
    BY DEF Elements, Distinct
  <2>3. ForegroundRegistered /\ Owned
    BY <2>1, <2>2 DEF ForegroundRegistered, Owned, ResultsStarted, OwnSessionOnly
  <2>4. \A t \in Task : ~Waiting(t) /\ ~Reached(t)
    BY <2>1, <2>2 DEF Waiting, Reached
  <2>5. CallerInv /\ ChannelInv /\ KeptInv
    BY <2>1, <2>2, <2>4 DEF CallerInv, ChannelInv, KeptInv
  <2>6. OnceInv
    BY <2>1, <2>2, <2>4 DEF OnceInv
  <2> QED
    BY <2>3, <2>5, <2>6 DEF Delivery
<1>2. Control /\ ThreadInv /\ ForegroundRegistered /\ Owned /\ Delivery /\ [Next]_vars
        => (ForegroundRegistered /\ Owned /\ Delivery)'
  BY StepForeground, StepOwned, StepCaller, StepChannel, StepOnce, StepKept DEF Delivery
<1> QED
  BY <1>1, <1>2, ControlHolds, ThreadsHold, PTL DEF Spec

LEMMA AtMostOne ==
  ASSUME NEW S, NEW x, S \subseteq {x}
  PROVE  Cardinality(S) <= 1
<1>1. S = {} \/ S = {x}
  OBVIOUS
<1>2. Cardinality({}) = 0 /\ Cardinality({x}) = 1
  BY FS_EmptySet, FS_Singleton
<1> QED
  BY <1>1, <1>2

\* The four invariants leave a result at most one place.
LEMMA OncePlaced == Owned /\ Delivery => HandedOnce
<1> SUFFICES ASSUME Owned, Delivery PROVE HandedOnce
  OBVIOUS
<1> SUFFICES ASSUME NEW t \in Task PROVE Cardinality(Places(t)) <= 1
  BY DEF HandedOnce
<1>1. /\ \A s \in Session : t \in contexts[s] \/ t \in Elements(inbox[s]) => s = task[t].owner
      /\ t \in returned => ~Waiting(t) /\ ~Reached(t)
      /\ Reached(t) => ~Waiting(t)
      /\ \A s \in Session : t \in Elements(inbox[s]) => t \notin Elements(undelivered)
      /\ Distinct(undelivered) /\ \A s \in Session : Distinct(inbox[s])
  BY DEF Owned, OwnSessionOnly, Delivery, ChannelInv, OnceInv
<1>2. /\ \A s \in Session : \A i \in DOMAIN inbox[s] : inbox[s][i] = t => t \in Elements(inbox[s])
      /\ \A i \in DOMAIN undelivered : undelivered[i] = t => t \in Elements(undelivered)
  BY DEF Elements
<1>3. CASE t \in returned
  <2>1. Places(t) \subseteq {<<"returned">>}
    BY <1>1, <1>2, <1>3 DEF Places, Waiting, Reached
  <2> QED
    BY <2>1, AtMostOne
<1>4. CASE Reached(t)
  <2>1. Places(t) \subseteq {<<"context", task[t].owner>>}
    BY <1>1, <1>2, <1>4 DEF Places, Waiting, Reached
  <2> QED
    BY <2>1, AtMostOne
<1>5. CASE t \notin returned /\ ~Reached(t) /\ t \in Elements(undelivered)
  <2>1. PICK i \in DOMAIN undelivered : undelivered[i] = t
    BY <1>5 DEF Elements
  <2>2. \A j \in DOMAIN undelivered : undelivered[j] = t => j = i
    BY <1>1, <2>1 DEF Distinct
  <2>3. Places(t) \subseteq {<<"drained", i>>}
    BY <1>1, <1>2, <1>5, <2>2 DEF Places, Reached
  <2> QED
    BY <2>3, AtMostOne
<1>6. CASE /\ t \notin returned /\ ~Reached(t) /\ t \notin Elements(undelivered)
           /\ \E s \in Session : t \in Elements(inbox[s])
  <2>1. PICK s \in Session : t \in Elements(inbox[s])
    BY <1>6
  <2>2. PICK i \in DOMAIN inbox[s] : inbox[s][i] = t
    BY <2>1 DEF Elements
  <2>3. /\ \A j \in DOMAIN inbox[s] : inbox[s][j] = t => j = i
        /\ \A u \in Session : t \in Elements(inbox[u]) => u = s
    BY <1>1, <2>1, <2>2 DEF Distinct
  <2>4. Places(t) \subseteq {<<"inbox", s, i>>}
    BY <1>2, <1>6, <2>3 DEF Places, Reached
  <2> QED
    BY <2>4, AtMostOne
<1>7. CASE t \notin returned /\ ~Reached(t) /\ ~Waiting(t)
  <2>1. Places(t) \subseteq {<<"returned">>}
    BY <1>2, <1>7 DEF Places, Waiting, Reached
  <2> QED
    BY <2>1, AtMostOne
<1> QED
  BY <1>3, <1>4, <1>5, <1>6, <1>7 DEF Waiting
\* A result is handed over once and over one channel: whatever the order in
\* which Ctrl+B, the end of the worker, the foreground loop of run(), drain()
\* and interrupts come.
THEOREM ResultsHandedOnce == Spec => []HandedOnce
<1> QED
  BY DeliveryHolds, OncePlaced, PTL

\* They leave it at least one, with the named exceptions.
LEMMA SomewherePlaced == Delivery => NoResultMislaid
<1> SUFFICES ASSUME Delivery PROVE NoResultMislaid
  OBVIOUS
<1> SUFFICES ASSUME NEW t \in Task, monitor[t] = "done"
             PROVE  \/ Places(t) # {}
                    \/ t \in lost \/ closed \/ task[t].owner \in discarded
                    \/ ~task[t].background /\ (awaited = t \/ t \in abandoned)
  BY DEF NoResultMislaid
<1>1. CASE task[t].background
  <2>1. \/ Waiting(t) \/ Reached(t)
        \/ t \in lost \/ closed \/ task[t].owner \in discarded
    BY <1>1 DEF Delivery, KeptInv
  <2>2. ASSUME Reached(t) PROVE Places(t) # {}
    <3>1. PICK s \in Session : t \in contexts[s]
      BY <2>2 DEF Reached
    <3>2. <<"context", s>> \in Places(t)
      BY <3>1 DEF Places
    <3> QED
      BY <3>2
  <2>3. ASSUME t \in Elements(undelivered) PROVE Places(t) # {}
    <3>1. PICK i \in DOMAIN undelivered : undelivered[i] = t
      BY <2>3 DEF Elements
    <3>2. <<"drained", i>> \in Places(t)
      BY <3>1 DEF Places
    <3> QED
      BY <3>2
  <2>4. ASSUME NEW s \in Session, t \in Elements(inbox[s]) PROVE Places(t) # {}
    <3>1. PICK i \in DOMAIN inbox[s] : inbox[s][i] = t
      BY <2>4 DEF Elements
    <3>2. <<"inbox", s, i>> \in Places(t)
      BY <3>1 DEF Places
    <3> QED
      BY <3>2
  <2> QED
    BY <2>1, <2>2, <2>3, <2>4 DEF Waiting
<1>2. CASE ~task[t].background
  <2>1. awaited = t \/ t \in abandoned \/ t \in returned
    BY <1>2 DEF Delivery, CallerInv
  <2>2. t \in returned => Places(t) # {}
    BY DEF Places
  <2> QED
    BY <1>2, <2>1, <2>2
<1> QED
  BY <1>1, <1>2
\* Once _finish is over a result is somewhere: handed over, on its way, awaited
\* by its call, or given up because a session was deleted, the manager closed,
\* a drain failed or the call was interrupted.
THEOREM ResultsNotMislaid == Spec => []NoResultMislaid
<1> QED
  BY DeliveryHolds, SomewherePlaced, PTL

-----------------------------------------------------------------------------
(* Refinement of TaskLedger                                                 *)

\* A slot stays free from the check in run() to the registration, the lock
\* being held; a registered task is one whose monitor has not been in the locked
\* section of _finish, and a registered writer holds the lease.
SlotInv ==
  /\ parent = "spawning" =>
       /\ Cardinality(tasks) < MaxTasks
       /\ task[awaited].kind = "sharedFork" => leaseTask = awaited
  /\ \A t \in tasks : /\ monitor[t] \in {"reading", "stopped"}
                      /\ task[t].kind = "sharedFork" => leaseTask = t
  /\ \A t \in Task : monitor[t] \in {"reading", "stopped"} =>
                       t \in tasks \/ parent = "closed"

\* Each action keeps slots and lease with the registered tasks.
LEMMA StepSlots ==
  Control /\ ThreadInv /\ ForegroundRegistered /\ SlotInv /\ [Next]_vars => SlotInv'
<1> SUFFICES ASSUME Control, ThreadInv, ForegroundRegistered, SlotInv, [Next]_vars
             PROVE  SlotInv'
  OBVIOUS
<1> USE NoneAssumption DEF SlotInv
<1>t. task \in [Task -> TaskRecord]
  BY DEF Control, TypeOK
<1>m. /\ \A t \in Task : monitor[t] # "none" => task[t].kind # "none"
      /\ parent = "spawning" => monitor[awaited] = "none"
      /\ monitor \in [Task -> {"none", "reading", "stopped", "unlocked", "done"}]
      /\ parent \in {"spawning", "arming", "awaiting"} => awaited \in Task
      /\ tasks \subseteq Task
  BY DEF ThreadInv, Control, TypeOK, CallInv
<1>1. ASSUME NEW t \in Task, NEW k \in Requests, NEW bg \in BOOLEAN, Spawn(t, k, bg)
      PROVE  SlotInv'
  <2>1. monitor[t] = "none" /\ t \notin tasks /\ \A u \in Task \ {t} : task'[u] = task[u]
    BY <1>1, <1>t, <1>m DEF Spawn
  <2>2. task'[t].kind = k
    BY <1>1, <1>t DEF Spawn, TaskRecord
  <2>3. /\ UNCHANGED <<tasks, monitor>> /\ Cardinality(tasks) < MaxTasks
        /\ parent = "idle" /\ parent' = "spawning" /\ awaited' = t
        /\ IF k = "sharedFork" THEN leaseTask = None /\ leaseTask' = t
           ELSE leaseTask' = leaseTask
    BY <1>1 DEF Spawn, SlotFree, LeaseGranted, ParentAt
  <2> QED
    BY <2>1, <2>2, <2>3, <1>m
<1>2. CASE SpawnFails
  BY <1>2, <1>m DEF SpawnFails, ParentAt
<1>3. CASE Register
  <2>1. \A u \in Task : monitor'[u] = IF u = awaited THEN "reading" ELSE monitor[u]
    BY <1>3, <1>m DEF Register, ParentAt
  <2> QED
    BY <1>3, <1>m, <2>1 DEF Register, ParentAt
<1>4. CASE DetachSet
  <2>1. foreground \in Task
    BY <1>4 DEF DetachSet, Control, HandlerInv
  <2>2. \A u \in Task : task'[u].kind = task[u].kind
    BY <1>4, <1>t, <2>1 DEF DetachSet, TaskRecord
  <2>3. UNCHANGED <<tasks, leaseTask, monitor, parent, awaited>>
    BY <1>4 DEF DetachSet
  <2> QED
    BY <2>2, <2>3, <1>m
<1>5. ASSUME NEW t \in Task, ReadUsage(t) \/ SetStatus(t) \/ TimerFires(t)
      PROVE  SlotInv'
  <2>1. \A u \in Task : task'[u].kind = task[u].kind
    BY <1>5, <1>t DEF ReadUsage, SetStatus, TimerFires, TaskRecord
  <2>2. \A u \in Task : \/ monitor'[u] = monitor[u]
                        \/ monitor[u] = "reading" /\ monitor'[u] = "stopped"
    BY <1>5, <1>m DEF ReadUsage, SetStatus, TimerFires
  <2>3. UNCHANGED <<tasks, leaseTask, parent, awaited>>
    BY <1>5 DEF ReadUsage, SetStatus, TimerFires, managerVars
  <2> QED
    BY <2>1, <2>2, <2>3, <1>m
<1>6. ASSUME NEW t \in Task, FinishLocked(t) PROVE SlotInv'
  <2>1. \A u \in Task : monitor'[u] = IF u = t THEN "unlocked" ELSE monitor[u]
    BY <1>6, <1>m DEF FinishLocked
  <2>2. /\ tasks' = tasks \ {t} /\ parent' = parent /\ parent # "spawning" /\ task' = task
        /\ leaseTask' = IF leaseTask = t THEN None ELSE leaseTask
    BY <1>6 DEF FinishLocked, LockFree
  <2> QED
    BY <2>1, <2>2, <1>m
<1>7. ASSUME NEW t \in Task, Publish(t) PROVE SlotInv'
  <2>1. \A u \in Task : \/ monitor'[u] = monitor[u]
                        \/ monitor[u] = "unlocked" /\ monitor'[u] = "done"
    BY <1>7, <1>m DEF Publish
  <2>2. UNCHANGED <<tasks, leaseTask, parent, awaited, task>>
    BY <1>7 DEF Publish, managerVars
  <2> QED
    BY <2>1, <2>2, <1>m
<1>8. CASE CloseEnd
  BY <1>8 DEF CloseEnd
<1>9. CASE \/ ArmTimer \/ AwaitDetached \/ AwaitEvent \/ InterruptStep
           \/ DrainStep \/ DeleteStep \/ CloseBegin
           \/ \E s \in Session : DeleteSession(s)
  <2>1. UNCHANGED <<tasks, leaseTask, monitor, task>>
    BY <1>9 DEF ArmTimer, AwaitDetached, AwaitEvent, InterruptStep,
        StartInterrupt, ArmInterrupt, WaitInterrupt, Interrupt, DrainStep,
        Drain, DeliverNext, DrainFails, DeleteStep, DeleteFile, DeleteFails,
        CloseBegin, DeleteSession, managerVars
  <2>2. parent # "closed" /\ parent' # "spawning"
    BY <1>9 DEF ArmTimer, AwaitDetached, AwaitEvent, InterruptStep,
        StartInterrupt, ArmInterrupt, WaitInterrupt, Interrupt, DrainStep,
        Drain, DeliverNext, DrainFails, DeleteStep, DeleteFile, DeleteFails,
        CloseBegin, DeleteSession, ParentAt
  <2> QED
    BY <2>1, <2>2
<1>10. CASE \/ DetachTest \/ Quiescent \/ UNCHANGED vars
            \/ \E t \in Task : KillVictim(t) \/ TimerKills(t)
            \/ \E s \in Session : NewSession(s) \/ ResumeSession(s)
  <2>1. UNCHANGED <<tasks, leaseTask, monitor, task, parent, awaited>>
    BY <1>10 DEF DetachTest, Quiescent, KillVictim, TimerKills, NewSession,
        ResumeSession, vars, managerVars
  <2> QED
    BY <2>1
<1>11. ASSUME NEW t \in Task, \/ \E a \in {"completed", "failed"} : ReadAnswer(t, a)
                              \/ \E how \in {"exited", "killed"} : WorkerExits(t, how)
       PROVE  SlotInv'
  <2>1. UNCHANGED <<tasks, leaseTask, monitor, task, parent, awaited>>
    BY <1>11 DEF ReadAnswer, WorkerExits, managerVars
  <2> QED
    BY <2>1
<1> QED
  BY <1>1, <1>2, <1>3, <1>4, <1>5, <1>6, <1>7, <1>8, <1>9, <1>10, <1>11
  DEF Next, RunStep, DetachStep, CloseStep, WorkerStep, MonitorStep, TimerStep

LedgerInv ==
  Control /\ ThreadInv /\ ForegroundRegistered /\ Owned /\ Delivery /\ SlotInv

LEMMA LedgerInvStep == LedgerInv /\ [Next]_vars => LedgerInv'
BY StepControl, StepThreads, StepForeground, StepOwned, StepCaller, StepChannel,
   StepOnce, StepKept, StepSlots DEF LedgerInv, Delivery

LEMMA LedgerInvHolds == Spec => []LedgerInv
<1>1. Init => SlotInv
  BY DEF Init, SlotInv
<1>2. Spec => []SlotInv
  BY <1>1, StepSlots, ControlHolds, ThreadsHold, ForegroundIsRegistered, PTL DEF Spec
<1> QED
  BY <1>2, ControlHolds, ThreadsHold, DeliveryHolds, PTL DEF LedgerInv

\* The foreground call that is to return the result of t has still to do so.
Owed(t) == awaited = t /\ ~task[t].background /\ monitor[t] \in {"unlocked", "done"}

\* StageOf in terms of the queues, wherever the owner of a task is its session.
Life(t) ==
  IF monitor[t] = "none" THEN "new"
  ELSE IF t \in tasks THEN "running"
  ELSE IF t \in returned \/ Reached(t) THEN "delivered"
  ELSE IF Waiting(t) \/ Owed(t) THEN "ready" ELSE "dropped"

LEMMA StageIsLife ==
  ASSUME Control, Owned, NEW t \in Task
  PROVE  StageOf(t) = Life(t)
<1>1. task[t].owner \in Session
  BY DEF Control, TypeOK, TaskRecord
<1>2. Handed(t) <=> t \in returned \/ Reached(t)
  BY <1>1 DEF Handed, Reached, Owned, OwnSessionOnly
<1>3. InFlight(t) <=> Waiting(t) \/ Owed(t)
  BY DEF InFlight, Waiting, Owed
<1> QED
  BY <1>2, <1>3 DEF StageOf, Life

LEMMA StagesAreLives ==
  LedgerInv /\ LedgerInv' =>
    /\ Stage = [t \in Task |-> Life(t)]
    /\ Stage' = [t \in Task |-> Life(t)']
<1>1. LedgerInv => Stage = [t \in Task |-> Life(t)]
  BY StageIsLife DEF LedgerInv, Stage
<1>2. (LedgerInv => Stage = [t \in Task |-> Life(t)])'
  BY <1>1, PTL
<1> QED
  BY <1>1, <1>2

LEMMA LifeType == \A t \in Task : Life(t) \in {"new", "running", "delivered", "ready", "dropped"}
BY DEF Life

\* Three ways in which a step of the runtime is a step of the ledger: it leaves
\* every stage alone, it moves one task, or it drops results.
LEMMA SameLedger ==
  ASSUME LedgerInv, LedgerInv', \A u \in Task : Life(u)' = Life(u), Writers' = Writers
  PROVE  UNCHANGED Ledger!ledgerVars
<1>1. Stage' = Stage
  BY StagesAreLives
<1> QED
  BY <1>1 DEF Ledger!ledgerVars

LEMMA MovedStage ==
  ASSUME LedgerInv, LedgerInv', NEW t \in Task, NEW s,
         Life(t)' = s, \A u \in Task \ {t} : Life(u)' = Life(u)
  PROVE  Stage[t] = Life(t) /\ Stage' = [Stage EXCEPT ![t] = s]
<1>1. /\ Stage = [u \in Task |-> Life(u)]
      /\ Stage' = [u \in Task |-> Life(u)']
  BY StagesAreLives
<1> QED
  BY <1>1

LEMMA DropLedger ==
  ASSUME LedgerInv, LedgerInv',
         \A u \in Task : \/ Life(u)' = Life(u)
                         \/ Life(u) \in {"running", "ready"} /\ Life(u)' = "dropped",
         Writers' = Writers \ {u \in Task : Life(u)' # Life(u)}
  PROVE  [Ledger!LedgerNext]_Ledger!ledgerVars
<1> DEFINE S == {u \in Task : Life(u)' # Life(u)}
<1>1. /\ Stage = [u \in Task |-> Life(u)]
      /\ Stage' = [u \in Task |-> Life(u)']
  BY StagesAreLives
<1>2. CASE S = {}
  <2>1. (\A u \in Task : Life(u)' = Life(u)) /\ Writers' = Writers
    BY <1>2
  <2> QED
    BY <2>1, SameLedger
<1>3. CASE S # {}
  <2>1. \A t \in S : Stage[t] \in {"running", "ready"}
    BY <1>1
  <2>2. Stage' = [t \in Task |-> IF t \in S THEN "dropped" ELSE Stage[t]]
    BY <1>1
  <2>3. Writers' = Writers \ S /\ S \in SUBSET Task
    OBVIOUS
  <2> HIDE DEF S
  <2>4. Ledger!Drop(S)
    BY <1>3, <2>1, <2>2, <2>3 DEF Ledger!Drop
  <2> QED
    BY <2>3, <2>4 DEF Ledger!LedgerNext
<1> QED
  BY <1>2, <1>3

\* A step that moves no result, registers nothing and ends no call.
LEMMA QuietLife ==
  ASSUME UNCHANGED <<inbox, undelivered, contexts, returned, tasks>>,
         \A u \in Task : monitor'[u] = "none" <=> monitor[u] = "none",
         \A u \in Task : Owed(u)' <=> Owed(u)
  PROVE  \A u \in Task : Life(u)' = Life(u)
BY SameQueues DEF Life

\* Asking for a task moves no stage: it is new until it is registered.
LEMMA SpawnQuiet ==
  ASSUME LedgerInv, LedgerInv', NEW t \in Task, NEW k \in Requests,
         NEW bg \in BOOLEAN, Spawn(t, k, bg)
  PROVE  UNCHANGED Ledger!ledgerVars
<1> USE NoneAssumption
<1>t. task \in [Task -> TaskRecord] /\ tasks \subseteq Task
  BY DEF LedgerInv, Control, TypeOK
<1>m. /\ \A u \in Task : monitor[u] # "none" => task[u].kind # "none"
      /\ \A u \in tasks : monitor[u] # "none"
  BY DEF LedgerInv, ThreadInv, SlotInv
<1>c. awaited # None => parent \in {"spawning", "arming", "awaiting"}
  BY DEF LedgerInv, Delivery, CallerInv
<1>1. /\ parent = "idle" /\ task[t].kind = "none" /\ awaited' = t
      /\ UNCHANGED <<inbox, undelivered, contexts, returned, tasks, monitor>>
  BY DEF Spawn, ParentAt, historyVars
<1>2. monitor[t] = "none" /\ t \notin tasks /\ awaited = None
  BY <1>1, <1>m, <1>c
<1>3. \A u \in Task \ {t} : task'[u] = task[u]
  BY <1>t DEF Spawn
<1>4. \A u \in Task : Owed(u)' <=> Owed(u)
  BY <1>1, <1>2, <1>3 DEF Owed
<1>5. Writers' = Writers
  BY <1>1, <1>2, <1>3, <1>t DEF Writers
<1> QED
  BY <1>1, <1>4, <1>5, QuietLife, SameLedger

\* What the steps that move no result do to the ledger: nothing.
LEMMA QuietSteps ==
  ASSUME LedgerInv, LedgerInv',
         \/ \E t \in Task, k \in Requests, bg \in BOOLEAN : Spawn(t, k, bg)
         \/ SpawnFails \/ ArmTimer \/ AwaitDetached \/ DetachStep
         \/ \E t \in Task : ReadUsage(t) \/ SetStatus(t) \/ Publish(t) \/ TimerFires(t)
  PROVE  UNCHANGED Ledger!ledgerVars
<1> USE NoneAssumption
<1>t. task \in [Task -> TaskRecord] /\ tasks \subseteq Task
  BY DEF LedgerInv, Control, TypeOK
<1>m. /\ \A t \in Task : monitor[t] # "none" => task[t].kind # "none"
      /\ \A t \in tasks : monitor[t] # "none"
      /\ parent = "spawning" => monitor[awaited] = "none"
      /\ monitor \in [Task -> {"none", "reading", "stopped", "unlocked", "done"}]
      /\ parent \in {"spawning", "arming", "awaiting"} => awaited \in Task
  BY DEF LedgerInv, ThreadInv, SlotInv, Control, TypeOK, CallInv
<1>c. /\ awaited # None => parent \in {"spawning", "arming", "awaiting"}
      /\ \A t \in Task : task[t].detached => task[t].background
  BY DEF LedgerInv, Delivery, CallerInv
<1>1. ASSUME NEW t \in Task, NEW k \in Requests, NEW bg \in BOOLEAN, Spawn(t, k, bg)
      PROVE  UNCHANGED Ledger!ledgerVars
  BY <1>1, SpawnQuiet
<1>2. CASE SpawnFails \/ ArmTimer \/ AwaitDetached
  <2>1. UNCHANGED <<inbox, undelivered, contexts, returned, tasks, monitor, task>>
    BY <1>2 DEF SpawnFails, ArmTimer, AwaitDetached, managerVars, historyVars
  <2>2. \/ awaited' = awaited
        \/ awaited' = None /\ (monitor[awaited] = "none" \/ task[awaited].background)
    BY <1>2, <1>m, <1>c DEF SpawnFails, ArmTimer, AwaitDetached, ParentAt
  <2>3. \A u \in Task : Owed(u)' <=> Owed(u)
    BY <2>1, <2>2 DEF Owed
  <2>4. Writers' = Writers
    BY <2>1 DEF Writers
  <2> QED
    BY <2>1, <2>3, <2>4, QuietLife, SameLedger
<1>3. CASE DetachTest
  <2>1. UNCHANGED <<inbox, undelivered, contexts, returned, tasks, monitor, task, awaited>>
    BY <1>3 DEF DetachTest, managerVars, historyVars
  <2>2. (\A u \in Task : Owed(u)' <=> Owed(u)) /\ Writers' = Writers
    BY <2>1 DEF Owed, Writers
  <2> QED
    BY <2>1, <2>2, QuietLife, SameLedger
<1>4. CASE DetachSet
  <2>1. foreground \in Task /\ monitor[foreground] \in {"reading", "stopped"}
    BY <1>4 DEF DetachSet, LedgerInv, ForegroundRegistered, Control, HandlerInv
  <2>2. \A u \in Task : /\ task'[u].kind = task[u].kind
                        /\ u # foreground => task'[u] = task[u]
    BY <1>4, <1>t, <2>1 DEF DetachSet, TaskRecord
  <2>3. UNCHANGED <<inbox, undelivered, contexts, returned, tasks, monitor, awaited>>
    BY <1>4 DEF DetachSet, historyVars
  <2>4. \A u \in Task : Owed(u)' <=> Owed(u)
    BY <2>1, <2>2, <2>3 DEF Owed
  <2>5. Writers' = Writers
    BY <2>2, <2>3, <1>t DEF Writers
  <2> QED
    BY <2>3, <2>4, <2>5, QuietLife, SameLedger
<1>5. ASSUME NEW t \in Task, ReadUsage(t) \/ SetStatus(t) \/ TimerFires(t)
      PROVE  UNCHANGED Ledger!ledgerVars
  <2>1. \A u \in Task : /\ task'[u].kind = task[u].kind
                        /\ task'[u].background = task[u].background
    BY <1>5, <1>t DEF ReadUsage, SetStatus, TimerFires, TaskRecord
  <2>2. \A u \in Task : \/ monitor'[u] = monitor[u]
                        \/ monitor[u] = "reading" /\ monitor'[u] = "stopped"
    BY <1>5, <1>m DEF ReadUsage, SetStatus, TimerFires
  <2>3. UNCHANGED <<inbox, undelivered, contexts, returned, tasks, awaited>>
    BY <1>5 DEF ReadUsage, SetStatus, TimerFires, managerVars, historyVars
  <2>4. \A u \in Task : Owed(u)' <=> Owed(u)
    BY <2>1, <2>2, <2>3 DEF Owed
  <2>5. Writers' = Writers
    BY <2>1, <2>3, <1>t DEF Writers
  <2> QED
    BY <2>2, <2>3, <2>4, <2>5, QuietLife, SameLedger
<1>6. ASSUME NEW t \in Task, Publish(t) PROVE UNCHANGED Ledger!ledgerVars
  <2>1. \A u \in Task : \/ monitor'[u] = monitor[u]
                        \/ monitor[u] = "unlocked" /\ monitor'[u] = "done"
    BY <1>6, <1>m DEF Publish
  <2>2. UNCHANGED <<inbox, undelivered, contexts, returned, tasks, awaited, task>>
    BY <1>6 DEF Publish, managerVars, historyVars
  <2>3. (\A u \in Task : Owed(u)' <=> Owed(u)) /\ Writers' = Writers
    BY <2>1, <2>2 DEF Owed, Writers
  <2> QED
    BY <2>1, <2>2, <2>3, QuietLife, SameLedger
<1> QED
  BY <1>1, <1>2, <1>3, <1>4, <1>5, <1>6 DEF DetachStep

LEMMA UntouchedSteps ==
  ASSUME LedgerInv, LedgerInv',
         \/ \E t \in Task : KillVictim(t) \/ TimerKills(t)
         \/ \E t \in Task, a \in {"completed", "failed"} : ReadAnswer(t, a)
         \/ \E t \in Task, how \in {"exited", "killed"} : WorkerExits(t, how)
         \/ \E s \in Session : NewSession(s) \/ ResumeSession(s)
         \/ DeleteStep \/ CloseBegin \/ Quiescent \/ UNCHANGED vars
  PROVE  UNCHANGED Ledger!ledgerVars
<1>1. UNCHANGED <<inbox, undelivered, contexts, returned, tasks, monitor, task, awaited>>
  <2>1. CASE \/ \E t \in Task : KillVictim(t) \/ TimerKills(t)
             \/ \E t \in Task, a \in {"completed", "failed"} : ReadAnswer(t, a)
             \/ \E t \in Task, how \in {"exited", "killed"} : WorkerExits(t, how)
    BY <2>1 DEF KillVictim, TimerKills, ReadAnswer, WorkerExits, managerVars, historyVars
  <2>2. CASE \/ \E s \in Session : NewSession(s) \/ ResumeSession(s)
             \/ DeleteStep \/ CloseBegin \/ Quiescent \/ UNCHANGED vars
    BY <2>2 DEF NewSession, ResumeSession, DeleteStep, DeleteFile, DeleteFails,
        CloseBegin, Quiescent, vars, managerVars, historyVars
  <2> QED
    BY <2>1, <2>2
<1>2. (\A u \in Task : Owed(u)' <=> Owed(u)) /\ Writers' = Writers
  BY <1>1 DEF Owed, Writers
<1> QED
  BY <1>1, <1>2, QuietLife, SameLedger

\* run() gives a task a free slot, and the workspace to a writer alone.
LEMMA RegisterStarts ==
  ASSUME LedgerInv, LedgerInv', Register, NEW t \in Task, awaited = t
  PROVE  Ledger!Start(t)
<1>1. /\ monitor[t] = "none" /\ t \notin tasks /\ tasks \subseteq Task
      /\ monitor \in [Task -> {"none", "reading", "stopped", "unlocked", "done"}]
      /\ Cardinality(tasks) < MaxTasks
      /\ task[t].kind = "sharedFork" => leaseTask = t
      /\ \A u \in tasks : /\ monitor[u] # "none"
                          /\ task[u].kind = "sharedFork" => leaseTask = u
  BY DEF LedgerInv, Control, TypeOK, ThreadInv, SlotInv, Register, ParentAt
<1>2. /\ tasks' = tasks \union {t}
      /\ \A u \in Task : monitor'[u] = IF u = t THEN "reading" ELSE monitor[u]
      /\ UNCHANGED <<inbox, undelivered, contexts, returned, awaited, task>>
  BY <1>1 DEF Register, historyVars
<1>3. \A u \in Task : Owed(u)' <=> Owed(u)
  BY <1>1, <1>2 DEF Owed
<1>4. Life(t) = "new" /\ Life(t)' = "running"
  BY <1>1, <1>2 DEF Life
<1>5. \A u \in Task \ {t} : Life(u)' = Life(u)
  BY <1>2, <1>3, SameQueues DEF Life
<1>6. Stage[t] = "new" /\ Stage' = [Stage EXCEPT ![t] = "running"]
  BY <1>4, <1>5, MovedStage
<1>7. Ledger!At("running") = tasks
  <2>1. \A u \in Task : Life(u) = "running" <=> u \in tasks
    BY <1>1 DEF Life
  <2>2. \A u \in Task : Stage[u] = Life(u)
    BY StagesAreLives
  <2> QED
    BY <1>1, <2>1, <2>2 DEF Ledger!At
<1>8. \/ Writers' = Writers
      \/ Writers = {} /\ Writers' = {t}
  BY <1>1, <1>2 DEF Writers
<1>9. Ledger!Cardinality(tasks) = Cardinality(tasks)
  BY DEF Cardinality, Ledger!Cardinality
<1> QED
  BY <1>1, <1>6, <1>7, <1>8, <1>9 DEF Ledger!Start

\* The locked section of _finish takes a task out of its slot.
LEMMA FinishFinishes ==
  ASSUME LedgerInv, LedgerInv', NEW t \in Task, FinishLocked(t)
  PROVE  Ledger!Finish(t) \/ UNCHANGED Ledger!ledgerVars
<1>1. /\ monitor[t] = "stopped" /\ tasks' = tasks \ {t} /\ tasks \subseteq Task
      /\ monitor'[t] = "unlocked"
      /\ \A u \in Task \ {t} : monitor'[u] = monitor[u]
      /\ UNCHANGED <<returned, awaited, task>>
  BY DEF FinishLocked, historyVars, LedgerInv, Control, TypeOK
<1>2. \A u \in Task : /\ Waiting(u)' <=> Waiting(u) \/ (u = t /\ Deliverable(t))
                      /\ Reached(u)' <=> Reached(u)
  BY FinishQueues DEF LedgerInv, Delivery
<1>3. t \notin returned /\ ~Reached(t) /\ ~Waiting(t) /\ ~Owed(t)
  BY <1>1 DEF LedgerInv, Delivery, ChannelInv, Owed
<1>4. \A u \in Task \ {t} : Owed(u)' <=> Owed(u)
  BY <1>1 DEF Owed
<1>5. \A u \in Task \ {t} : Life(u)' = Life(u)
  BY <1>1, <1>2, <1>4 DEF Life
<1>6. Writers' = Writers \ {t}
  BY <1>1 DEF Writers
<1>7. CASE t \in tasks
  <2>1. Life(t) = "running" /\ Life(t)' \in {"ready", "dropped"}
    BY <1>1, <1>2, <1>3, <1>7 DEF Life
  <2>2. \E s \in {"ready", "dropped"} : Stage[t] = "running" /\ Stage' = [Stage EXCEPT ![t] = s]
    BY <2>1, <1>5, MovedStage
  <2> QED
    BY <2>2, <1>6 DEF Ledger!Finish
<1>8. CASE t \notin tasks
  <2>1. parent = "closed" /\ closed /\ awaited = None
    BY <1>1, <1>8 DEF LedgerInv, SlotInv, Delivery, CallerInv
  <2>2. ~Deliverable(t) /\ ~(Owed(t)')
    BY <2>1, <1>1, NoneAssumption DEF Deliverable, Owed
  <2>3. Life(t)' = Life(t)
    BY <1>1, <1>2, <1>3, <1>8, <2>2 DEF Life
  <2>4. Writers' = Writers
    BY <1>6, <1>8 DEF Writers
  <2> QED
    BY <1>5, <2>3, <2>4, SameLedger
<1> QED
  BY <1>7, <1>8

\* The final event of the foreground loop delivers; any other changes nothing.
LEMMA AwaitDelivers ==
  ASSUME LedgerInv, LedgerInv', AwaitEvent
  PROVE  (\E t \in Task : Ledger!Deliver(t)) \/ UNCHANGED Ledger!ledgerVars
<1>1. /\ awaited \in Task /\ events[awaited] # <<>>
      /\ events[awaited] \in Seq({"usage", "status", "end"})
      /\ UNCHANGED <<inbox, undelivered, contexts, tasks, monitor, task>>
      /\ \A u \in tasks : monitor[u] \in {"reading", "stopped"}
  BY DEF AwaitEvent, ParentAt, managerVars, LedgerInv, Control, CallInv, TypeOK, SlotInv
<1>2. Writers' = Writers
  BY <1>1 DEF Writers
<1>3. CASE Head(events[awaited]) # "end"
  <2>1. UNCHANGED <<returned, awaited>>
    BY <1>3 DEF AwaitEvent
  <2>2. \A u \in Task : Owed(u)' <=> Owed(u)
    BY <1>1, <2>1 DEF Owed
  <2> QED
    BY <1>1, <1>2, <2>1, <2>2, QuietLife, SameLedger
<1>4. CASE Head(events[awaited]) = "end"
  <2>1. awaited' = None /\ returned' = returned \union {awaited}
    BY <1>4 DEF AwaitEvent
  <2>2. "end" \in Elements(events[awaited])
    BY <1>1, <1>4, ElementsOfTail
  <2>3. PICK t \in Task : awaited = t
    BY <1>1
  <2>4. /\ monitor[t] = "done" /\ ~task[t].background
        /\ t \notin returned /\ ~Reached(t) /\ t \notin tasks
    BY <1>1, <2>2, <2>3 DEF LedgerInv, Delivery, ChannelInv
  <2>5. \A u \in Task : /\ Waiting(u)' <=> Waiting(u)
                        /\ Reached(u)' <=> Reached(u)
    BY <1>1, SameQueues
  <2>6. \A u \in Task \ {t} : Owed(u)' <=> Owed(u)
    BY <2>1, <2>3, NoneAssumption DEF Owed
  <2>7. \A u \in Task \ {t} : Life(u)' = Life(u)
    BY <1>1, <2>1, <2>3, <2>5, <2>6 DEF Life
  <2>8. Life(t) = "ready" /\ Life(t)' = "delivered"
    BY <1>1, <2>1, <2>3, <2>4 DEF Life, Owed
  <2>9. Stage[t] = "ready" /\ Stage' = [Stage EXCEPT ![t] = "delivered"]
    BY <2>7, <2>8, MovedStage
  <2> QED
    BY <1>2, <2>9 DEF Ledger!Deliver
<1> QED
  BY <1>3, <1>4

\* drain() changes no stage, and each message added to the context delivers.
LEMMA DrainDelivers ==
  ASSUME LedgerInv, LedgerInv', Drain \/ DeliverNext
  PROVE  (\E t \in Task : Ledger!Deliver(t)) \/ UNCHANGED Ledger!ledgerVars
<1>1. UNCHANGED <<tasks, monitor, task, awaited, returned>>
  BY DEF Drain, DeliverNext, managerVars
<1>2. /\ Writers' = Writers
      /\ \A u \in Task : Owed(u)' <=> Owed(u)
  BY <1>1 DEF Writers, Owed
<1>3. CASE Drain
  <2>1. \A u \in Task : /\ Waiting(u)' <=> Waiting(u)
                        /\ Reached(u)' <=> Reached(u)
    BY <1>3, DrainQueues DEF LedgerInv, Delivery
  <2>2. \A u \in Task : Life(u)' = Life(u)
    BY <1>1, <1>2, <2>1 DEF Life
  <2> QED
    BY <1>2, <2>2, SameLedger
<1>4. CASE DeliverNext
  <2>1. PICK h \in Task :
          /\ Waiting(h)
          /\ \A u \in Task : /\ Waiting(u)' <=> Waiting(u) /\ u # h
                             /\ Reached(u)' <=> Reached(u) \/ u = h
    BY <1>4, DeliverQueues DEF LedgerInv, Delivery
  <2>2. /\ monitor[h] \in {"unlocked", "done"} /\ task[h].background
        /\ h \notin tasks /\ h \notin returned /\ ~Reached(h)
    BY <2>1 DEF LedgerInv, Delivery, ChannelInv, OnceInv, SlotInv
  <2>3. Life(h) = "ready"
    BY <2>1, <2>2 DEF Life
  <2>4. Life(h)' = "delivered"
    BY <1>1, <2>1, <2>2 DEF Life
  <2>5. \A u \in Task \ {h} : Life(u)' = Life(u)
    BY <1>1, <1>2, <2>1 DEF Life
  <2>6. Stage[h] = "ready" /\ Stage' = [Stage EXCEPT ![h] = "delivered"]
    BY <2>3, <2>4, <2>5, MovedStage
  <2> QED
    BY <1>2, <2>6 DEF Ledger!Deliver
<1> QED
  BY <1>3, <1>4

\* Interrupts, failed drains, deletions and close() drop results.
LEMMA LosingDrops ==
  ASSUME LedgerInv, LedgerInv',
         InterruptStep \/ DrainFails \/ CloseEnd \/ \E s \in Session : DeleteSession(s)
  PROVE  [Ledger!LedgerNext]_Ledger!ledgerVars
<1>m. /\ \A u \in tasks : monitor[u] \in {"reading", "stopped"}
      /\ awaited # None => parent \in {"spawning", "arming", "awaiting"}
      /\ tasks \subseteq Task
      /\ undelivered # <<>> <=> parent = "delivering"
  BY DEF LedgerInv, SlotInv, Delivery, CallerInv, Control, TypeOK, DrainInv
<1>w. \A u \in Task : u \in Writers => Life(u) = "running"
  BY <1>m DEF Writers, Life
<1>1. CASE InterruptStep
  <2>1. /\ awaited' = None
        /\ UNCHANGED <<inbox, undelivered, contexts, returned, tasks, monitor, task>>
    BY <1>1 DEF InterruptStep, StartInterrupt, ArmInterrupt, WaitInterrupt,
        Interrupt, managerVars
  <2>2. \A u \in Task : ~(Owed(u)')
    BY <2>1, NoneAssumption DEF Owed
  <2>3. \A u \in Task : Life(u)' = Life(u) \/ (Life(u) = "ready" /\ Life(u)' = "dropped")
    BY <2>1, <2>2, SameQueues DEF Life
  <2>4. Writers' = Writers \ {u \in Task : Life(u)' # Life(u)}
    BY <1>w, <2>1, <2>3 DEF Writers
  <2> QED
    BY <2>3, <2>4, DropLedger
<1>2. CASE DrainFails \/ \E s \in Session : DeleteSession(s)
  <2>1. \A u \in Task : /\ Waiting(u)' => Waiting(u)
                        /\ Reached(u)' <=> Reached(u)
    BY <1>2, LosingQueues DEF LedgerInv, Delivery
  <2>2. UNCHANGED <<returned, tasks, monitor, task, awaited>>
    BY <1>2 DEF DrainFails, DeleteSession, managerVars
  <2>3. awaited = None
    BY <1>2, <1>m DEF DrainFails, DeleteSession, ParentAt
  <2>4. \A u \in Task : ~Owed(u) /\ ~(Owed(u)')
    BY <2>2, <2>3, NoneAssumption DEF Owed
  <2>5. \A u \in Task : Life(u)' = Life(u) \/ (Life(u) = "ready" /\ Life(u)' = "dropped")
    BY <2>1, <2>2, <2>4 DEF Life
  <2>6. Writers' = Writers \ {u \in Task : Life(u)' # Life(u)}
    BY <1>w, <2>2, <2>5 DEF Writers
  <2> QED
    BY <2>5, <2>6, DropLedger
<1>3. CASE CloseEnd
  <2>1. /\ UNCHANGED <<returned, monitor, task, awaited, undelivered, contexts>>
        /\ tasks' = {} /\ undelivered = <<>> /\ awaited = None
        /\ \A s \in Session : inbox'[s] = <<>>
    BY <1>3, <1>m DEF CloseEnd, ParentAt
  <2>2. \A u \in Task : ~(Waiting(u)') /\ (Reached(u)' <=> Reached(u)) /\ ~(Owed(u)')
    BY <2>1, NoneAssumption DEF Waiting, Reached, Owed, Elements
  <2>3. \A u \in tasks : u \notin returned /\ ~Reached(u)
    BY <1>m DEF LedgerInv, Delivery, ChannelInv
  <2>4. \A u \in Task : \/ Life(u)' = Life(u)
                        \/ Life(u) \in {"running", "ready"} /\ Life(u)' = "dropped"
    BY <2>1, <2>2, <2>3 DEF Life
  <2>5. \A u \in tasks : Life(u) = "running" /\ Life(u)' = "dropped"
    BY <1>m, <2>1, <2>2, <2>3 DEF Life
  <2>6. Writers' = Writers \ {u \in Task : Life(u)' # Life(u)}
    <3>1. Writers' = {} /\ Writers \subseteq tasks
      BY <2>1 DEF Writers
    <3> QED
      BY <1>m, <2>5, <3>1
  <2> QED
    BY <2>4, <2>6, DropLedger
<1> QED
  BY <1>1, <1>2, <1>3

LEMMA LedgerStep == LedgerInv /\ [Next]_vars => [Ledger!LedgerNext]_Ledger!ledgerVars
<1> SUFFICES ASSUME LedgerInv, LedgerInv', [Next]_vars
             PROVE  [Ledger!LedgerNext]_Ledger!ledgerVars
  BY LedgerInvStep
<1>1. CASE Register
  <2>1. PICK t \in Task : awaited = t
    BY <1>1 DEF Register, ParentAt, LedgerInv, Control, CallInv
  <2> QED
    BY <1>1, <2>1, RegisterStarts DEF Ledger!LedgerNext
<1>2. ASSUME NEW t \in Task, FinishLocked(t) PROVE [Ledger!LedgerNext]_Ledger!ledgerVars
  BY <1>2, FinishFinishes DEF Ledger!LedgerNext
<1>3. CASE AwaitEvent
  BY <1>3, AwaitDelivers DEF Ledger!LedgerNext
<1>4. CASE Drain \/ DeliverNext
  BY <1>4, DrainDelivers DEF Ledger!LedgerNext
<1>5. CASE InterruptStep \/ DrainFails \/ CloseEnd \/ \E s \in Session : DeleteSession(s)
  BY <1>5, LosingDrops
<1>6. CASE \/ \E t \in Task, k \in Requests, bg \in BOOLEAN : Spawn(t, k, bg)
           \/ SpawnFails \/ ArmTimer \/ AwaitDetached \/ DetachStep
           \/ \E t \in Task : ReadUsage(t) \/ SetStatus(t) \/ Publish(t) \/ TimerFires(t)
  BY <1>6, QuietSteps
<1>7. CASE \/ \E t \in Task : KillVictim(t) \/ TimerKills(t)
           \/ \E t \in Task, a \in {"completed", "failed"} : ReadAnswer(t, a)
           \/ \E t \in Task, how \in {"exited", "killed"} : WorkerExits(t, how)
           \/ \E s \in Session : NewSession(s) \/ ResumeSession(s)
           \/ DeleteStep \/ CloseBegin \/ Quiescent \/ UNCHANGED vars
  BY <1>7, UntouchedSteps
<1> QED
  BY <1>1, <1>2, <1>3, <1>4, <1>5, <1>6, <1>7 DEF Next, RunStep, DrainStep,
     CloseStep, WorkerStep, MonitorStep, TimerStep

\* The runtime of the Agent tool implements TaskLedger: whatever threads, signals,
\* timers, interrupts and deletions do, a task takes one of MaxTasks slots, writers
\* of the workspace exclude each other, and a result is delivered once or dropped.
THEOREM RuntimeImplementsLedger == Spec => ImplementsLedger
<1>1. Init => Ledger!LedgerInit
  <2> SUFFICES ASSUME Init PROVE Ledger!LedgerInit
    OBVIOUS
  <2>1. (\A t \in Task : StageOf(t) = "new") /\ Writers = {}
    BY DEF Init, StageOf, Writers
  <2> QED
    BY <2>1 DEF Ledger!LedgerInit, Stage
<1> QED
  BY <1>1, LedgerInvHolds, LedgerStep, PTL DEF Spec, ImplementsLedger, Ledger!LedgerSpec
=============================================================================
