------------------------------ MODULE Memory ------------------------------
(***************************************************************************)
(* Long-term memory: the two stores of memory/long_term.py, the detached     *)
(* worker that each turn may start (memory/worker.py), the consolidation a   *)
(* worker may add (memory/consolidate.py), and the refresh of the agent.     *)
(* Workers of several turns and of several sessions run at once, hold POSIX  *)
(* locks, and may die at any step.                                           *)
(*                                                                           *)
(* A memory is a file category/id.md; its version stands for its summary,    *)
(* which the index repeats.  A turn changes at most one memory per scope.    *)
(***************************************************************************)
EXTENDS Naturals, FiniteSets, Sequences

CONSTANTS
  Worker,        \* worker processes
  None,          \* no worker
  Ids,           \* memory ids of a scope
  UserCategories, ProjectCategories,   \* the categories each scope allows
  UserOps, ProjectOps,   \* what the model may ask for, per scope
  MaxEntries,    \* the lines the memory block has room for
  MaxTurns,      \* bound: turns that start a worker
  MaxFaults,     \* bound: workers that fail or die
  MaxWeeks       \* bound: times a week passes

Scopes == {"user", "project"}
Categories == UserCategories \cup ProjectCategories
\* Publishing goes user first; locks are taken in the order of the paths.
PublishOrder == <<"user", "project">>
LockOrder == <<"project", "user">>

ASSUME MemoryAssumption ==
  /\ None \notin Worker /\ UserCategories # {} /\ ProjectCategories # {}
  /\ UserOps \cup ProjectOps \subseteq {"create", "update", "delete", "move"}
  /\ MaxTurns \in Nat /\ MaxFaults \in Nat /\ MaxWeeks \in Nat /\ MaxEntries \in Nat
  /\ MaxTurns <= Cardinality(Ids)

VARIABLES
  files,       \* per scope: the version in each memory file, 0 without a file
  index,       \* per scope: MEMORY.md
  pc, at,      \* per worker: its step, and the lock or scope it is at
  task,        \* per worker: "extract" or "consolidate"
  plan,        \* per worker: what the model asked for
  target,      \* per worker: the records to publish
  before,      \* per worker: the age to restore
  failed,      \* per worker: an exception ended its work
  writer,      \* per scope: who has the .write-lock
  reader,      \* the step of refresh(): it has the locks before that step
  loaded,      \* what refresh() has loaded
  snapshot,    \* _snapshot
  claim,       \* who has the .consolidate-lock
  age,         \* its modification time: "none", "fresh", "old"
  state,       \* .state.json: "none", "new", or "seen" by the agent
  turns, faults, weeks

store == <<files, index>>
work == <<pc, at, task, plan, target, before, failed>>
reading == <<reader, loaded, snapshot>>
bounds == <<turns, faults, weeks>>
vars == <<store, work, writer, reading, claim, age, state, bounds>>

-----------------------------------------------------------------------------
(* Stores *)

Path == Categories \X Ids
Versions == {1, 2}
Stores == [Path -> {0} \cup Versions]
EmptyStore == [p \in Path |-> 0]
Present(st) == {p \in Path : st[p] # 0}
IdsOf(st) == {p[2] : p \in Present(st)}

\* load(): every entry has its file with its summary, every file its entry, and
\* no id is there twice.
Loads(s) ==
  /\ files[s] = index[s]
  /\ \A p, q \in Present(index[s]) : p[2] = q[2] => p = q

\* build_memory_block drops lines beyond the limit, those of the user first.
BlockLines(ix) == Cardinality(Present(ix["user"])) + Cardinality(Present(ix["project"]))
Truncated(ix) == BlockLines(ix) > MaxEntries

\* The validated actions: their scope allows their category, created ids are
\* the host's.
Plan == [op : {"none", "create"}, id : {None}, category : Categories]
        \cup [op : {"update", "delete"}, id : Ids, category : Categories]
NoPlan == [op |-> "none", id |-> None, category |-> CHOOSE c \in Categories : TRUE]

\* The model names memories of the inventory it was shown; "move" is an update
\* with any category.
Plans(s) ==
  LET ops == IF s = "user" THEN UserOps ELSE ProjectOps
      allowed == IF s = "user" THEN UserCategories ELSE ProjectCategories
      st == index[s]
  IN {NoPlan}
     \cup {[op |-> "create", id |-> None, category |-> c] :
             c \in {d \in allowed : "create" \in ops}}
     \cup {[op |-> "update", id |-> p[2], category |-> p[1]] :
             p \in {q \in Path : q[2] \in IdsOf(st)
                                 /\ \/ "move" \in ops /\ q[1] \in allowed
                                    \/ "update" \in ops /\ st[q] # 0}}
     \cup {[op |-> "delete", id |-> p[2], category |-> p[1]] :
             p \in {q \in Present(st) : "delete" \in ops}}

\* apply_actions: what the records become, and when it refuses.
Current(st, id) == CHOOSE p \in Present(st) : p[2] = id
Refused(st, a) ==
  \/ a.op = "update" /\ a.id \notin IdsOf(st)
  \/ a.op = "delete" /\ st[<<a.category, a.id>>] = 0
After(st, a) ==
  IF a.op = "none" THEN {st}
  ELSE IF a.op = "create"
       THEN {[st EXCEPT ![<<a.category, id>>] = 1] : id \in Ids \ IdsOf(st)}
  ELSE IF a.op = "delete" THEN {[st EXCEPT ![<<a.category, a.id>>] = 0]}
  ELSE LET p == Current(st, a.id) IN
       {[[st EXCEPT ![p] = 0] EXCEPT ![<<a.category, a.id>>] = 3 - st[p]]}

-----------------------------------------------------------------------------
(* Locks, and how a worker goes on *)

Holds(w) == {s \in Scopes : writer[s] = w}
Unlocked(w) == [s \in Scopes |-> IF writer[s] = w THEN None ELSE writer[s]]
ReadLocked(s) == reader \in {"load", "rest"} \/ (reader = "lock" /\ s = LockOrder[1])

Step(w, from, to) == pc[w] = from /\ pc' = [pc EXCEPT ![w] = to]
Fault == faults < MaxFaults /\ faults' = faults + 1 /\ UNCHANGED <<turns, weeks>>

\* What the worker had in memory is gone.
Drop(w) ==
  /\ at' = [at EXCEPT ![w] = 1] /\ task' = [task EXCEPT ![w] = "extract"]
  /\ plan' = [plan EXCEPT ![w] = [s \in Scopes |-> NoPlan]]
  /\ target' = [target EXCEPT ![w] = [s \in Scopes |-> EmptyStore]]
  /\ before' = [before EXCEPT ![w] = "none"]

\* A plausible bug: a failed worker goes on to its report with its locks.
RaiseLocked(w) ==
  /\ pc' = [pc EXCEPT ![w] = "report"]
  /\ failed' = [failed EXCEPT ![w] = TRUE]
  /\ IF claim = w THEN claim' = None /\ age' = before[w] ELSE UNCHANGED <<claim, age>>
  /\ Drop(w) /\ UNCHANGED writer

\* An exception ends the work: the locks go, a consolidation restores the
\* modification time, and main() writes the state.
Raise(w) ==
  /\ pc' = [pc EXCEPT ![w] = "report"]
  /\ failed' = [failed EXCEPT ![w] = TRUE]
  /\ writer' = Unlocked(w)
  /\ IF claim = w THEN claim' = None /\ age' = before[w] ELSE UNCHANGED <<claim, age>>
  /\ Drop(w)

-----------------------------------------------------------------------------
(* A worker: extraction *)

Spawn(w) ==
  /\ turns < MaxTurns /\ turns' = turns + 1
  /\ Step(w, "off", "extract")
  /\ task' = [task EXCEPT ![w] = "extract"]
  /\ at' = [at EXCEPT ![w] = 1]
  /\ failed' = [failed EXCEPT ![w] = FALSE]
  /\ UNCHANGED <<plan, target, before, store, writer, reading, claim, age, state, faults, weeks>>

\* build_extraction_input and request_actions: the stores are loaded without a
\* lock; whatever the model answers that is not one valid call is an exception.
Extract(w) ==
  /\ pc[w] = "extract"
  /\ IF \A s \in Scopes : Loads(s)
     THEN /\ pc' = [pc EXCEPT ![w] = "lock"]
          /\ \E p \in Plans("user"), q \in Plans("project") :
               plan' = [plan EXCEPT ![w] = [user |-> p, project |-> q]]
          /\ UNCHANGED <<at, task, target, before, failed, writer, claim, age>>
     ELSE Raise(w)
  /\ UNCHANGED <<store, reading, state, bounds>>

\* memory_write_locks waits for one lock after the other.
Lock(w) ==
  LET s == LockOrder[at[w]] IN
  /\ pc[w] = "lock"
  /\ writer[s] = None /\ ~ReadLocked(s)
  /\ writer' = [writer EXCEPT ![s] = w]
  /\ IF at[w] = 1 THEN at' = [at EXCEPT ![w] = 2] /\ UNCHANGED pc
                  ELSE at' = [at EXCEPT ![w] = 1]
                       /\ pc' = [pc EXCEPT ![w] = IF task[w] = "extract" THEN "apply" ELSE "stage"]
  /\ UNCHANGED <<task, plan, target, before, failed, store, reading, claim, age, state, bounds>>

\* apply_actions loads and validates before anything is written.
Apply(w) ==
  /\ pc[w] = "apply"
  /\ IF \A s \in Scopes : Loads(s) /\ ~Refused(index[s], plan[w][s])
     THEN /\ pc' = [pc EXCEPT ![w] = "files"]
          /\ \E t \in After(index["user"], plan[w]["user"]),
                u \in After(index["project"], plan[w]["project"]) :
               target' = [target EXCEPT ![w] = [user |-> t, project |-> u]]
          /\ plan' = [plan EXCEPT ![w] = [s \in Scopes |-> NoPlan]]
          /\ UNCHANGED <<at, task, before, failed, writer, claim, age>>
     ELSE Raise(w)
  /\ UNCHANGED <<store, reading, state, bounds>>

(* publish(), scope by scope: files, index, deletions *)

WriteFile(w) ==
  LET s == PublishOrder[at[w]] IN
  /\ pc[w] = "files"
  /\ \E p \in Present(target[w][s]) :
       /\ files[s][p] # target[w][s][p]
       /\ files' = [files EXCEPT ![s][p] = target[w][s][p]]
  /\ UNCHANGED <<index, work, writer, reading, claim, age, state, bounds>>

WriteIndex(w) ==
  LET s == PublishOrder[at[w]] IN
  /\ Step(w, "files", "unlink")
  /\ \A p \in Present(target[w][s]) : files[s][p] = target[w][s][p]
  /\ index' = [index EXCEPT ![s] = target[w][s]]
  /\ UNCHANGED <<files, at, task, plan, target, before, failed, writer, reading, claim, age,
                 state, bounds>>

\* A plausible bug: memories that the index no longer names keep their files.
RemovedNever(w, s) == {}
Removed(w, s) == {p \in Present(files[s]) : p[2] \notin IdsOf(target[w][s])}
Unlink(w) ==
  LET s == PublishOrder[at[w]] IN
  /\ pc[w] = "unlink"
  /\ \E p \in Removed(w, s) : files' = [files EXCEPT ![s][p] = 0]
  /\ UNCHANGED <<index, work, writer, reading, claim, age, state, bounds>>

Published(w) ==
  /\ pc[w] = "unlink" /\ Removed(w, PublishOrder[at[w]]) = {}
  /\ IF at[w] = 1
     THEN /\ at' = [at EXCEPT ![w] = 2]
          /\ pc' = [pc EXCEPT ![w] = "files"]
          /\ UNCHANGED <<target, before, writer, claim, age>>
     ELSE /\ at' = [at EXCEPT ![w] = 1]
          /\ pc' = [pc EXCEPT ![w] = IF task[w] = "extract" THEN "check" ELSE "report"]
          /\ target' = [target EXCEPT ![w] = [s \in Scopes |-> EmptyStore]]
          /\ before' = [before EXCEPT ![w] = "none"]
          /\ writer' = Unlocked(w)
          /\ IF claim = w THEN claim' = None /\ age' = "fresh" ELSE UNCHANGED <<claim, age>>
  /\ UNCHANGED <<task, plan, failed, store, reading, state, bounds>>

-----------------------------------------------------------------------------
(* A worker: maybe_consolidate *)

\* A lock file of now is made if there is none.  Five sessions must have been
\* active since the last success.
Check(w) ==
  /\ pc[w] = "check"
  /\ age' = IF age = "none" THEN "fresh" ELSE age
  /\ \E active \in BOOLEAN :
       pc' = [pc EXCEPT ![w] = IF age = "old" /\ active THEN "claim" ELSE "report"]
  /\ task' = [task EXCEPT ![w] = "consolidate"]
  /\ UNCHANGED <<at, plan, target, before, failed, store, writer, reading, claim, state, bounds>>

\* Writing the pid into the lock file makes it fresh.
Claim(w) ==
  /\ pc[w] = "claim"
  /\ IF claim = None
     THEN /\ claim' = w
          /\ before' = [before EXCEPT ![w] = age]
          /\ age' = "fresh"
          /\ pc' = [pc EXCEPT ![w] = "lock"]
     ELSE pc' = [pc EXCEPT ![w] = "report"] /\ UNCHANGED <<claim, before, age>>
  /\ UNCHANGED <<at, task, plan, target, failed, store, writer, reading, state, bounds>>

\* The model edits a copy in a staging directory; its tools write nowhere else.
\* What it leaves there is published if it loads as a whole and is not too long.
Edited(s) ==
  {st \in UNION {After(index[s], a) : a \in Plans(s)} : IdsOf(st) \subseteq IdsOf(index[s])}
Staged ==
  {t \in {[user |-> st, project |-> su] : st \in Edited("user"), su \in Edited("project")} :
     ~Truncated(t)}
Stage(w) ==
  /\ pc[w] = "stage"
  /\ \/ /\ \A s \in Scopes : Loads(s)
        /\ \E t \in Staged : target' = [target EXCEPT ![w] = t]
        /\ pc' = [pc EXCEPT ![w] = "files"]
        /\ UNCHANGED <<at, task, plan, before, failed, writer, claim, age>>
     \/ Raise(w)
  /\ UNCHANGED <<store, reading, state, bounds>>

-----------------------------------------------------------------------------
(* How a worker ends *)

\* main(): write_state, without a lock.
Report(w) ==
  /\ Step(w, "report", "off")
  /\ state' = IF failed[w] THEN "new" ELSE "none"
  /\ failed' = [failed EXCEPT ![w] = FALSE]
  /\ Drop(w)
  /\ UNCHANGED <<store, writer, reading, claim, age, bounds>>

\* A full disk, a provider error, or the alarm of the consolidation.
Fail(w) ==
  /\ pc[w] \notin {"off", "report"} /\ Fault
  /\ Raise(w)
  /\ UNCHANGED <<store, reading, state>>

Die(w) ==
  /\ pc[w] # "off" /\ Fault
  /\ pc' = [pc EXCEPT ![w] = "off"]
  /\ writer' = Unlocked(w)
  /\ claim' = IF claim = w THEN None ELSE claim
  /\ failed' = [failed EXCEPT ![w] = FALSE]
  /\ Drop(w)
  /\ UNCHANGED <<store, reading, age, state>>

-----------------------------------------------------------------------------
(* The agent *)

Read(from, to) == reader = from /\ reader' = to

\* A plausible bug: the locks are only tried, and let go before the stores load.
RefreshUnlocked ==
  /\ \/ Read("idle", "load")
     \/ Read("lock", "load")
  /\ UNCHANGED <<store, work, writer, loaded, snapshot, claim, age, state, bounds>>

\* refresh() at the start of a turn; it never waits.
RefreshLock ==
  /\ \/ Read("idle", "lock") /\ writer[LockOrder[1]] = None
     \/ Read("lock", "load") /\ writer[LockOrder[2]] = None
     \/ Read("lock", "idle") /\ writer[LockOrder[2]] # None
  /\ UNCHANGED <<store, work, writer, loaded, snapshot, claim, age, state, bounds>>

RefreshLoad ==
  /\ \/ Read("load", "rest") /\ Loads("user") /\ loaded' = index["user"]
     \/ Read("load", "idle") /\ ~Loads("user") /\ UNCHANGED loaded
  /\ UNCHANGED <<store, work, writer, snapshot, claim, age, state, bounds>>

\* The state is looked at only after a good refresh, and reported once.
RefreshEnd ==
  /\ Read("rest", "idle")
  /\ loaded' = EmptyStore
  /\ IF Loads("project")
     THEN /\ snapshot' = [s \in Scopes |-> IF s = "user" THEN loaded ELSE index[s]]
          /\ state' = IF state = "new" THEN "seen" ELSE state
     ELSE UNCHANGED <<snapshot, state>>
  /\ UNCHANGED <<store, work, writer, claim, age, bounds>>

WeekPasses ==
  /\ weeks < MaxWeeks /\ weeks' = weeks + 1
  /\ age = "fresh" /\ claim = None /\ age' = "old"
  /\ UNCHANGED <<store, work, writer, reading, claim, state, turns, faults>>

-----------------------------------------------------------------------------
Init ==
  /\ files = [s \in Scopes |-> EmptyStore] /\ index = files
  /\ pc = [w \in Worker |-> "off"] /\ at = [w \in Worker |-> 1]
  /\ task = [w \in Worker |-> "extract"]
  /\ plan = [w \in Worker |-> [s \in Scopes |-> NoPlan]]
  /\ target = [w \in Worker |-> [s \in Scopes |-> EmptyStore]]
  /\ before = [w \in Worker |-> "none"]
  /\ failed = [w \in Worker |-> FALSE]
  /\ writer = [s \in Scopes |-> None]
  /\ reader = "idle" /\ loaded = EmptyStore /\ snapshot = index
  /\ claim = None /\ age = "none" /\ state = "none"
  /\ turns = 0 /\ faults = 0 /\ weeks = 0

WorkerStep(w) ==
  Extract(w) \/ Lock(w) \/ Apply(w) \/ WriteFile(w) \/ WriteIndex(w) \/ Unlink(w)
  \/ Published(w) \/ Check(w) \/ Claim(w) \/ Stage(w) \/ Report(w)
Refresh == RefreshLock \/ RefreshLoad \/ RefreshEnd
Next ==
  \/ \E w \in Worker : Spawn(w) \/ WorkerStep(w) \/ Fail(w) \/ Die(w)
  \/ Refresh \/ WeekPasses

\* The system runs every process, and wakes who waits for a lock whenever it is
\* released, so that refreshes, of which each turn makes one, cannot keep a
\* worker out for ever.  Nobody must start a turn.
Fairness ==
  /\ \A w \in Worker : WF_vars(WorkerStep(w)) /\ SF_vars(Lock(w))
  /\ WF_vars(reader # "idle" /\ Refresh)
Spec == Init /\ [][Next]_vars /\ Fairness
-----------------------------------------------------------------------------
Plans_ == [Scopes -> Plan]
TypeOK ==
  /\ files \in [Scopes -> Stores] /\ index \in [Scopes -> Stores]
  /\ pc \in [Worker -> {"off", "extract", "lock", "apply", "files", "unlink", "check",
                        "claim", "stage", "report"}]
  /\ at \in [Worker -> 1 .. 2] /\ task \in [Worker -> {"extract", "consolidate"}]
  /\ plan \in [Worker -> Plans_] /\ target \in [Worker -> [Scopes -> Stores]]
  /\ before \in [Worker -> {"none", "fresh", "old"}] /\ failed \in [Worker -> BOOLEAN]
  /\ writer \in [Scopes -> Worker \cup {None}]
  /\ reader \in {"idle", "lock", "load", "rest"}
  /\ loaded \in Stores /\ snapshot \in [Scopes -> Stores]
  /\ claim \in Worker \cup {None} /\ age \in {"none", "fresh", "old"}
  /\ state \in {"none", "new", "seen"}
  \* Locks are held in the steps that need them and in no other.
  /\ \A w \in Worker :
       /\ pc[w] \in {"apply", "stage", "files", "unlink"} => Holds(w) = Scopes
       /\ pc[w] \in {"off", "extract", "check", "claim", "report"} => Holds(w) = {} /\ claim # w

\* A file that the index does not name, of a memory that it names elsewhere:
\* publish() unlinks by id, so an update with another category leaves the old
\* file (long_term.py:173-178), and load() refuses the store from then on.
Stray(s, p) == index[s][p] = 0 /\ files[s][p] # 0 /\ p[2] \in IdsOf(index[s])

\* As long as no worker fails or dies, whatever the workers of several sessions
\* do at once: in a store that nobody has locked no id is there twice, every
\* memory has its file as the index says, and every other file is the one that
\* a change of category left.
WholeWhenQuiet ==
  faults = 0 =>
    \A s \in Scopes : writer[s] = None =>
      /\ \A p, q \in Present(index[s]) : p[2] = q[2] => p = q
      /\ \A p \in Path : files[s][p] = index[s][p] \/ Stray(s, p)

\* Without the exception: such a store can be loaded.  It fails, see
\* Memory_category_change.cfg.
ReadableWhenQuiet ==
  faults = 0 => \A s \in Scopes : writer[s] = None => Loads(s)

\* What the model sees is never half of an update: each scope changes with its
\* index, and both are read at one moment.
Board == INSTANCE MemoryBoard WITH memory <- index
ImplementsBoard == Board!Spec

\* No worker waits for ever: not for the locks of others, not for a reader.
WorkerEnds == \A w \in Worker : pc[w] # "off" ~> pc[w] = "off"
=============================================================================
