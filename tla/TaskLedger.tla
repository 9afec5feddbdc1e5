---------------------------- MODULE TaskLedger ----------------------------
(***************************************************************************)
(* What the Agent tool promises, without threads, queues or locks: a task   *)
(* runs in one of MaxTasks slots, at most one running task writes to the    *)
(* shared workspace, and a finished task's result is delivered once or      *)
(* dropped, never both and never before the task has left its slot.         *)
(***************************************************************************)
EXTENDS Naturals, FiniteSets

CONSTANTS Task, MaxTasks

VARIABLES
  stage,    \* the life of each task
  writers   \* the running tasks that write to the shared workspace

ledgerVars == <<stage, writers>>

At(s) == {t \in Task : stage[t] = s}

LedgerInit ==
  /\ stage = [t \in Task |-> "new"]
  /\ writers = {}

\* A task enters a free slot; a writer needs the workspace for itself.
Start(t) ==
  /\ stage[t] = "new" /\ Cardinality(At("running")) < MaxTasks
  /\ stage' = [stage EXCEPT ![t] = "running"]
  /\ \/ UNCHANGED writers
     \/ writers = {} /\ writers' = {t}

\* It leaves its slot, with a result that is ready or that nobody wants.
Finish(t) ==
  /\ stage[t] = "running"
  /\ \E s \in {"ready", "dropped"} : stage' = [stage EXCEPT ![t] = s]
  /\ writers' = writers \ {t}

Deliver(t) ==
  /\ stage[t] = "ready"
  /\ stage' = [stage EXCEPT ![t] = "delivered"]
  /\ UNCHANGED writers

\* An interrupt, a deleted session or a closed manager drops results, and
\* closing also gives up the tasks that still run.
Drop(S) ==
  /\ S # {} /\ \A t \in S : stage[t] \in {"running", "ready"}
  /\ stage' = [t \in Task |-> IF t \in S THEN "dropped" ELSE stage[t]]
  /\ writers' = writers \ S

LedgerNext ==
  \/ \E t \in Task : Start(t) \/ Finish(t) \/ Deliver(t)
  \/ \E S \in SUBSET Task : Drop(S)

LedgerSpec == LedgerInit /\ [][LedgerNext]_ledgerVars
=============================================================================
