---------------------------- MODULE MemoryProofs ----------------------------
(***************************************************************************)
(* What long-term memory guarantees for any number of workers, ids,          *)
(* categories, failures and deaths: what can be wrong with a store nobody    *)
(* has locked, and that the agent sees each scope as a whole, both at one    *)
(* moment.                                                                   *)
(***************************************************************************)
EXTENDS Memory, TLAPS

-----------------------------------------------------------------------------
(* Stores and plans.                                                         *)

\* No id is in a store twice.
Distinct(st) == \A p, q \in Present(st) : p[2] = q[2] => p = q

LEMMA EmptyIs == EmptyStore \in Stores /\ Distinct(EmptyStore)
BY DEF EmptyStore, Stores, Distinct, Present, Versions

LEMMA NoPlanIs == NoPlan \in Plan
<1>1. (CHOOSE c \in Categories : TRUE) \in Categories
  BY MemoryAssumption DEF Categories
<1> QED
  BY <1>1 DEF NoPlan, Plan

LEMMA IdOfPath ==
  ASSUME NEW st \in Stores, NEW p \in Present(st)
  PROVE  p \in Path /\ p = <<p[1], p[2]>> /\ p[1] \in Categories /\ p[2] \in Ids
         /\ p[2] \in IdsOf(st) /\ st[p] \in {1, 2}
BY DEF Present, Path, IdsOf, Stores, Versions

LEMMA CurrentIs ==
  ASSUME NEW st \in Stores, NEW id \in IdsOf(st)
  PROVE  Current(st, id) \in Present(st) /\ Current(st, id)[2] = id
<1>1. \E p \in Present(st) : p[2] = id
  BY DEF IdsOf
<1> QED
  BY <1>1 DEF Current

\* What a plan may make of a store is a store in which ids stay distinct.
LEMMA AfterIs ==
  ASSUME NEW st \in Stores, NEW a \in Plan, a.op = "update" => a.id \in IdsOf(st),
         NEW t \in After(st, a)
  PROVE  t \in Stores /\ (Distinct(st) => Distinct(t))
<1>1. CASE a.op = "none"
  BY <1>1 DEF After
<1>2. CASE a.op = "create"
  <2>1. PICK id \in Ids \ IdsOf(st) : t = [st EXCEPT ![<<a.category, id>>] = 1]
    BY <1>2 DEF After
  <2>2. a.category \in Categories
    BY DEF Plan
  <2>3. <<a.category, id>> \in Path
    BY <2>2 DEF Path
  <2>4. t \in Stores
    BY <2>1, <2>3 DEF Stores, Versions
  <2>5. \A p \in Present(t) : p = <<a.category, id>> \/ p \in Present(st)
    BY <2>1, <2>3 DEF Present, Stores
  <2>6. \A p \in Present(st) : p[2] # id
    BY <2>1 DEF IdsOf
  <2>7. <<a.category, id>>[2] = id
    OBVIOUS
  <2> QED
    BY <2>4, <2>5, <2>6, <2>7 DEF Distinct
<1>3. CASE a.op = "delete"
  <2>1. t = [st EXCEPT ![<<a.category, a.id>>] = 0]
    BY <1>3 DEF After
  <2>2. t \in Stores
    BY <2>1 DEF Stores
  <2>3. \A p \in Present(t) : p \in Present(st)
    BY <2>1 DEF Present, Stores
  <2> QED
    BY <2>2, <2>3 DEF Distinct
<1>4. CASE a.op = "update"
  <2> DEFINE p == Current(st, a.id)
             q == <<a.category, a.id>>
  <2>1. p \in Present(st) /\ p[2] = a.id
    BY <1>4, CurrentIs
  <2>2. t = [[st EXCEPT ![p] = 0] EXCEPT ![q] = 3 - st[p]]
    BY <1>4 DEF After
  <2>3. a.category \in Categories /\ a.id \in Ids
    BY <1>4 DEF Plan
  <2>4. q \in Path /\ q[2] = a.id
    BY <2>3 DEF Path
  <2>5. p \in Path /\ st[p] \in {1, 2}
    BY <2>1, IdOfPath
  <2> HIDE DEF p, q
  <2> DEFINE mid == [st EXCEPT ![p] = 0]
  <2>6. mid \in Stores /\ mid[p] = 0 /\ \A r \in Path \ {p} : mid[r] = st[r]
    BY <2>5 DEF Stores
  <2>7. t = [mid EXCEPT ![q] = 3 - st[p]]
    BY <2>2
  <2>8. 3 - st[p] \in {1, 2}
    BY <2>5
  <2> HIDE DEF mid
  <2>9. t \in Stores /\ \A r \in Path \ {q} : t[r] = mid[r]
    BY <2>4, <2>6, <2>7, <2>8 DEF Stores, Versions
  <2>10. \A r \in Present(t) : r = q \/ (r \in Present(st) /\ r # p)
    BY <2>6, <2>9 DEF Present
  <2>11. Distinct(st) => \A r \in Present(st) : r # p => r[2] # a.id
    BY <2>1 DEF Distinct
  <2>12. Distinct(st) => Distinct(t)
    BY <2>4, <2>10, <2>11 DEF Distinct
  <2> QED
    BY <2>9, <2>12
<1> QED
  BY <1>1, <1>2, <1>3, <1>4 DEF Plan

LEMMA PlansTyped ==
  ASSUME index \in [Scopes -> Stores], NEW s \in Scopes, NEW a \in Plans(s)
  PROVE  a \in Plan /\ (a.op = "update" => a.id \in IdsOf(index[s]))
<1>0. index[s] \in Stores /\ NoPlan \in Plan /\ NoPlan.op = "none"
  BY NoPlanIs DEF NoPlan
<1> DEFINE Creates == {[op |-> "create", id |-> None, category |-> c] : c \in Categories}
           Updates == {[op |-> "update", id |-> p[2], category |-> p[1]] :
                         p \in {q \in Path : q[2] \in IdsOf(index[s])}}
           Deletes == {[op |-> "delete", id |-> p[2], category |-> p[1]] :
                         p \in Present(index[s])}
<1>1. a = NoPlan \/ a \in Creates \/ a \in Updates \/ a \in Deletes
  BY DEF Plans, Categories
<1>2. CASE a \in Creates
  BY <1>2 DEF Plan
<1>3. CASE a \in Updates
  <2>1. PICK p \in Path : p[2] \in IdsOf(index[s])
                          /\ a = [op |-> "update", id |-> p[2], category |-> p[1]]
    BY <1>3
  <2>2. p[1] \in Categories /\ p[2] \in Ids
    BY DEF Path
  <2> QED
    BY <2>1, <2>2 DEF Plan
<1>4. CASE a \in Deletes
  <2>1. PICK p \in Present(index[s]) : a = [op |-> "delete", id |-> p[2], category |-> p[1]]
    BY <1>4
  <2>2. p[1] \in Categories /\ p[2] \in Ids
    BY <1>0, IdOfPath
  <2> QED
    BY <2>1, <2>2 DEF Plan
<1> QED
  BY <1>0, <1>1, <1>2, <1>3, <1>4

LEMMA PairIs ==
  ASSUME NEW S, NEW a \in S, NEW b \in S
  PROVE  /\ [user |-> a, project |-> b] \in [Scopes -> S]
         /\ [user |-> a, project |-> b]["user"] = a
         /\ [user |-> a, project |-> b]["project"] = b
BY DEF Scopes

LEMMA StagedIs ==
  ASSUME index \in [Scopes -> Stores], NEW t \in Staged
  PROVE  t \in [Scopes -> Stores]
         /\ \A s \in Scopes : Distinct(index[s]) => Distinct(t[s])
<1>1. PICK st \in Edited("user"), su \in Edited("project") : t = [user |-> st, project |-> su]
  BY DEF Staged
<1>2. \A s \in Scopes : \A e \in Edited(s) : e \in Stores /\ (Distinct(index[s]) => Distinct(e))
  <2> SUFFICES ASSUME NEW s \in Scopes, NEW e \in Edited(s)
               PROVE  e \in Stores /\ (Distinct(index[s]) => Distinct(e))
    OBVIOUS
  <2>1. PICK a \in Plans(s) : e \in After(index[s], a)
    BY DEF Edited
  <2>2. a \in Plan /\ (a.op = "update" => a.id \in IdsOf(index[s]))
    BY PlansTyped
  <2> QED
    BY <2>1, <2>2, AfterIs
<1>3. /\ st \in Stores /\ (Distinct(index["user"]) => Distinct(st))
      /\ su \in Stores /\ (Distinct(index["project"]) => Distinct(su))
  BY <1>2 DEF Scopes
<1>4. t \in [Scopes -> Stores] /\ t["user"] = st /\ t["project"] = su
  BY <1>1, <1>3, PairIs
<1> QED
  BY <1>3, <1>4 DEF Scopes


-----------------------------------------------------------------------------
(* Types, and where a worker is when it holds what.                          *)

Steps == {"off", "extract", "lock", "apply", "files", "unlink", "check", "claim", "stage",
          "report"}
StoreTypes ==
  /\ files \in [Scopes -> Stores] /\ index \in [Scopes -> Stores]
  /\ loaded \in Stores /\ snapshot \in [Scopes -> Stores]
WorkTypes ==
  /\ pc \in [Worker -> Steps]
  /\ at \in [Worker -> 1 .. 2] /\ task \in [Worker -> {"extract", "consolidate"}]
  /\ plan \in [Worker -> Plans_] /\ target \in [Worker -> [Scopes -> Stores]]
  /\ before \in [Worker -> {"none", "fresh", "old"}]
ShareTypes ==
  /\ writer \in [Scopes -> Worker \cup {None}]
  /\ reader \in {"idle", "lock", "load", "rest"}
  /\ claim \in Worker \cup {None} /\ age \in {"none", "fresh", "old"}
  /\ state \in {"none", "new", "seen"}

\* One worker: the locks it holds, the scope it is at, and whether it may have
\* the claim.
Placed(w) ==
  /\ pc[w] \in {"apply", "stage", "files", "unlink"} => \A s \in Scopes : writer[s] = w
  /\ pc[w] \in {"off", "extract", "check", "claim", "report"} => \A s \in Scopes : writer[s] # w
  /\ pc[w] = "lock" => writer["user"] # w /\ (writer["project"] = w <=> at[w] = 2)
  /\ pc[w] \notin {"lock", "files", "unlink", "report"} => at[w] = 1
  /\ claim = w => pc[w] \in {"lock", "stage", "files", "unlink"} /\ task[w] = "consolidate"
  /\ pc[w] \in {"extract", "apply"} => task[w] = "extract"
  /\ pc[w] = "claim" => task[w] = "consolidate"
PlaceInv == \A w \in Worker : Placed(w)

\* While refresh() has the read locks nobody writes, and what it has loaded is
\* what is there.
ReadInv ==
  /\ reader = "lock" => writer["project"] = None
  /\ reader \in {"load", "rest"} => \A s \in Scopes : writer[s] = None
  /\ reader = "rest" => loaded = index["user"]

Control == StoreTypes /\ WorkTypes /\ ShareTypes /\ failed \in [Worker -> BOOLEAN]
           /\ PlaceInv /\ ReadInv

LEMMA ScopesAre == Scopes = {"user", "project"} /\ PublishOrder[1] = "user" /\ PublishOrder[2] = "project"
                   /\ LockOrder[1] = "project" /\ LockOrder[2] = "user"
BY DEF Scopes, PublishOrder, LockOrder

LEMMA NoPlansTyped == [s \in Scopes |-> NoPlan] \in Plans_
BY NoPlanIs DEF Plans_

LEMMA NoTargetTyped == [s \in Scopes |-> EmptyStore] \in [Scopes -> Stores]
BY EmptyIs

LEMMA InitControl == Init => Control
<1> SUFFICES ASSUME Init PROVE Control
  OBVIOUS
<1>1. StoreTypes
  BY EmptyIs DEF Init, StoreTypes
<1>2. WorkTypes
  BY NoPlansTyped, NoTargetTyped DEF Init, WorkTypes, Steps
<1>3. ShareTypes
  BY DEF Init, ShareTypes
<1>4. failed \in [Worker -> BOOLEAN]
  BY DEF Init
<1>5. PlaceInv
  BY MemoryAssumption, ScopesAre DEF Init, PlaceInv, Placed
<1>6. ReadInv
  BY DEF Init, ReadInv
<1> QED
  BY <1>1, <1>2, <1>3, <1>4, <1>5, <1>6 DEF Control

\* An exception or a kill drops what the worker had in memory.
LEMMA DropTyped ==
  ASSUME WorkTypes, NEW w \in Worker, Drop(w)
  PROVE  /\ at' \in [Worker -> 1 .. 2] /\ task' \in [Worker -> {"extract", "consolidate"}]
         /\ plan' \in [Worker -> Plans_] /\ target' \in [Worker -> [Scopes -> Stores]]
         /\ before' \in [Worker -> {"none", "fresh", "old"}] /\ at'[w] = 1
<1>1. at' \in [Worker -> 1 .. 2] /\ at'[w] = 1 /\ task' \in [Worker -> {"extract", "consolidate"}]
  BY DEF Drop, WorkTypes
<1>2. plan' \in [Worker -> Plans_] /\ target' \in [Worker -> [Scopes -> Stores]]
  BY NoPlansTyped, NoTargetTyped DEF Drop, WorkTypes
<1>3. before' \in [Worker -> {"none", "fresh", "old"}]
  BY DEF Drop, WorkTypes
<1> QED
  BY <1>1, <1>2, <1>3

LEMMA RaiseTyped ==
  ASSUME WorkTypes, NEW w \in Worker, Raise(w)
  PROVE  WorkTypes'
<1>1. Drop(w) /\ pc' \in [Worker -> Steps]
  BY DEF Raise, WorkTypes, Steps
<1> QED
  BY <1>1, DropTyped DEF WorkTypes

\* What the plan or the edits of a worker make of the stores.
LEMMA TargetTyped ==
  ASSUME StoreTypes, WorkTypes, NEW w \in Worker, Apply(w) \/ Stage(w)
  PROVE  target' \in [Worker -> [Scopes -> Stores]]
<1>1. \A p \in Plans_, s \in Scopes : p[s] \in Plan
  BY DEF Plans_
<1>2. plan[w] \in Plans_ /\ index["user"] \in Stores /\ index["project"] \in Stores
  BY ScopesAre DEF WorkTypes, StoreTypes
<1>3. CASE Apply(w) /\ \A s \in Scopes : Loads(s) /\ ~Refused(index[s], plan[w][s])
  <2>1. PICK t \in After(index["user"], plan[w]["user"]),
             u \in After(index["project"], plan[w]["project"]) :
               target' = [target EXCEPT ![w] = [user |-> t, project |-> u]]
    BY <1>3 DEF Apply
  <2>2. plan[w]["user"] \in Plan /\ plan[w]["project"] \in Plan
    BY <1>1, <1>2, ScopesAre
  <2>3. /\ plan[w]["user"].op = "update" => plan[w]["user"].id \in IdsOf(index["user"])
        /\ plan[w]["project"].op = "update" => plan[w]["project"].id \in IdsOf(index["project"])
    BY <1>3, ScopesAre DEF Refused
  <2>4. t \in Stores /\ u \in Stores
    BY <1>2, <2>2, <2>3, AfterIs
  <2>5. [user |-> t, project |-> u] \in [Scopes -> Stores]
    BY <2>4, PairIs
  <2> QED
    BY <2>1, <2>5 DEF WorkTypes
<1>4. CASE Apply(w) /\ ~\A s \in Scopes : Loads(s) /\ ~Refused(index[s], plan[w][s])
  BY <1>4, RaiseTyped DEF Apply, WorkTypes
<1>5. CASE Stage(w)
  <2>1. CASE \E t \in Staged : target' = [target EXCEPT ![w] = t]
    BY <2>1, StagedIs DEF StoreTypes, WorkTypes
  <2>2. CASE Raise(w)
    BY <2>2, RaiseTyped DEF WorkTypes
  <2> QED
    BY <1>5, <2>1, <2>2 DEF Stage
<1> QED
  BY <1>3, <1>4, <1>5

LEMMA PlanTyped ==
  ASSUME StoreTypes, WorkTypes, NEW w \in Worker, Extract(w)
  PROVE  plan' \in [Worker -> Plans_]
<1>1. CASE \A s \in Scopes : Loads(s)
  <2>1. PICK p \in Plans("user"), q \in Plans("project") :
               plan' = [plan EXCEPT ![w] = [user |-> p, project |-> q]]
    BY <1>1 DEF Extract
  <2>2. p \in Plan /\ q \in Plan
    BY PlansTyped, ScopesAre DEF StoreTypes
  <2>3. [user |-> p, project |-> q] \in Plans_
    BY <2>2, PairIs DEF Plans_
  <2> QED
    BY <2>1, <2>3 DEF WorkTypes
<1>2. CASE ~\A s \in Scopes : Loads(s)
  BY <1>2, RaiseTyped DEF Extract, WorkTypes
<1> QED
  BY <1>1, <1>2

Acts(w) == Spawn(w) \/ WorkerStep(w) \/ Fail(w) \/ Die(w)

\* One lemma for the steps that only move a worker on.
LEMMA WorkStep ==
  ASSUME StoreTypes, WorkTypes, ShareTypes, NEW w \in Worker, Acts(w)
  PROVE  WorkTypes'
<1>0. Raise(w) => WorkTypes'
  BY RaiseTyped
<1> USE DEF WorkTypes, Steps
<1>1. CASE Spawn(w)
  BY <1>1 DEF Spawn, Step
<1>2. CASE Extract(w)
  <2>1. plan' \in [Worker -> Plans_]
    BY <1>2, PlanTyped
  <2>2. CASE ~Raise(w)
    <3>1. UNCHANGED <<at, task, target, before>> /\ pc' \in [Worker -> Steps]
      BY <1>2, <2>2 DEF Extract
    <3> QED
      BY <2>1, <3>1
  <2> QED
    BY <1>0, <2>2
<1>3. CASE Lock(w)
  <2>1. at' \in [Worker -> 1 .. 2] /\ pc' \in [Worker -> Steps]
    <3>1. at' = [at EXCEPT ![w] = 1] \/ at' = [at EXCEPT ![w] = 2]
      BY <1>3 DEF Lock
    <3>2. pc' = pc \/ \E where \in Steps : pc' = [pc EXCEPT ![w] = where]
      BY <1>3 DEF Lock
    <3>3. at' \in [Worker -> 1 .. 2]
      BY <3>1
    <3>4. pc' \in [Worker -> Steps]
      <4> HIDE DEF Steps
      <4> QED
        BY <3>2
    <3> QED
      BY <3>3, <3>4
  <2>2. UNCHANGED <<task, plan, target, before>>
    BY <1>3 DEF Lock
  <2> QED
    BY <2>1, <2>2
<1>4. CASE Apply(w)
  <2>1. target' \in [Worker -> [Scopes -> Stores]]
    BY <1>4, TargetTyped
  <2>2. CASE ~Raise(w)
    <3>1. UNCHANGED <<at, task, before>> /\ pc' \in [Worker -> Steps]
      BY <1>4, <2>2 DEF Apply
    <3>2. plan' \in [Worker -> Plans_]
      BY <1>4, <2>2, NoPlansTyped DEF Apply
    <3> QED
      BY <2>1, <3>1, <3>2
  <2> QED
    BY <1>0, <2>2
<1>5. CASE WriteFile(w) \/ WriteIndex(w) \/ Unlink(w)
  BY <1>5 DEF WriteFile, WriteIndex, Unlink, Step, work
<1>6. CASE Published(w)
  <2>1. at' \in [Worker -> 1 .. 2] /\ pc' \in [Worker -> Steps]
    <3>1. at' = [at EXCEPT ![w] = 1] \/ at' = [at EXCEPT ![w] = 2]
      BY <1>6 DEF Published
    <3>2. pc' = pc \/ \E where \in Steps : pc' = [pc EXCEPT ![w] = where]
      BY <1>6 DEF Published
    <3>3. at' \in [Worker -> 1 .. 2]
      BY <3>1
    <3>4. pc' \in [Worker -> Steps]
      <4> HIDE DEF Steps
      <4> QED
        BY <3>2
    <3> QED
      BY <3>3, <3>4
  <2>2. target' \in [Worker -> [Scopes -> Stores]]
    BY <1>6, NoTargetTyped DEF Published
  <2>3. UNCHANGED <<task, plan>> /\ before' \in [Worker -> {"none", "fresh", "old"}]
    BY <1>6 DEF Published
  <2> QED
    BY <2>1, <2>2, <2>3
<1>7. CASE Check(w)
  BY <1>7 DEF Check
<1>8. CASE Claim(w)
  BY <1>8 DEF Claim, ShareTypes
<1>9. CASE Stage(w)
  <2>1. target' \in [Worker -> [Scopes -> Stores]]
    BY <1>9, TargetTyped
  <2>2. CASE ~Raise(w)
    <3>1. UNCHANGED <<at, task, plan, before>> /\ pc' \in [Worker -> Steps]
      BY <1>9, <2>2 DEF Stage
    <3> QED
      BY <2>1, <3>1
  <2> QED
    BY <1>0, <2>2
<1>10. CASE Report(w)
  <2>1. Drop(w) /\ pc' \in [Worker -> Steps]
    BY <1>10 DEF Report, Step
  <2> QED
    BY <2>1, DropTyped
<1>11. CASE Fail(w)
  BY <1>0, <1>11 DEF Fail
<1>12. CASE Die(w)
  <2>1. Drop(w) /\ pc' \in [Worker -> Steps]
    BY <1>12 DEF Die
  <2> QED
    BY <2>1, DropTyped
<1> QED
  BY <1>1, <1>2, <1>3, <1>4, <1>5, <1>6, <1>7, <1>8, <1>9, <1>10, <1>11, <1>12
     DEF Acts, WorkerStep

LEMMA FailedStep ==
  ASSUME failed \in [Worker -> BOOLEAN], NEW w \in Worker, Acts(w)
  PROVE  failed' \in [Worker -> BOOLEAN]
<1>1. CASE UNCHANGED failed
  BY <1>1
<1>2. CASE failed' = [failed EXCEPT ![w] = TRUE]
  BY <1>2
<1>3. CASE failed' = [failed EXCEPT ![w] = FALSE]
  BY <1>3
<1> QED
  BY <1>1, <1>2, <1>3, Zenon
     DEF Acts, WorkerStep, Spawn, Extract, Lock, Apply, WriteFile, WriteIndex, Unlink,
         Published, Check, Claim, Stage, Report, Fail, Die, Raise, Drop, work

LEMMA ShareStep ==
  ASSUME WorkTypes, ShareTypes, NEW w \in Worker, Acts(w)
  PROVE  ShareTypes'
<1> USE DEF ShareTypes
<1>1. Unlocked(w) \in [Scopes -> Worker \cup {None}]
  BY DEF Unlocked
<1>2. before[w] \in {"none", "fresh", "old"}
  BY DEF WorkTypes
<1>3. ASSUME Raise(w), UNCHANGED <<reading, state>> PROVE ShareTypes'
  BY <1>1, <1>2, <1>3 DEF Raise, reading
<1>4. CASE Spawn(w) \/ WriteFile(w) \/ WriteIndex(w) \/ Unlink(w)
  BY <1>4 DEF Spawn, WriteFile, WriteIndex, Unlink, reading
<1>5. CASE Extract(w) \/ Apply(w) \/ Stage(w) \/ Fail(w)
  BY <1>3, <1>5 DEF Extract, Apply, Stage, Fail, reading
<1>6. CASE Lock(w)
  BY <1>6, ScopesAre DEF Lock, reading
<1>7. CASE Published(w)
  BY <1>1, <1>7 DEF Published, reading
<1>8. CASE Check(w) \/ Claim(w)
  BY <1>8 DEF Check, Claim, reading
<1>9. CASE Report(w)
  BY <1>9 DEF Report, reading
<1>10. CASE Die(w)
  BY <1>1, <1>10 DEF Die, reading
<1> QED
  BY <1>4, <1>5, <1>6, <1>7, <1>8, <1>9, <1>10 DEF Acts, WorkerStep

LEMMA StoreStep ==
  ASSUME StoreTypes, WorkTypes, NEW w \in Worker, Acts(w)
  PROVE  StoreTypes'
<1> DEFINE s == PublishOrder[at[w]]
<1>0. s \in Scopes
  BY ScopesAre DEF WorkTypes
<1>1. CASE WriteFile(w)
  <2>1. PICK p \in Path : target[w][s][p] # 0
                          /\ files' = [files EXCEPT ![s][p] = target[w][s][p]]
    BY <1>1 DEF WriteFile, Present
  <2>2. target[w][s][p] \in {0} \cup Versions
    BY <1>0 DEF WorkTypes, Stores
  <2>3. files' \in [Scopes -> Stores]
    <3> HIDE DEF s
    <3>1. [files[s] EXCEPT ![p] = target[w][s][p]] \in Stores
      BY <1>0, <2>2 DEF StoreTypes, Stores
    <3>2. files' = [files EXCEPT ![s] = [files[s] EXCEPT ![p] = target[w][s][p]]]
      BY <1>0, <2>1 DEF StoreTypes
    <3> QED
      BY <1>0, <3>1, <3>2 DEF StoreTypes
  <2> QED
    BY <1>1, <2>3 DEF WriteFile, StoreTypes, reading
<1>2. CASE WriteIndex(w)
  <2>1. target[w][s] \in Stores
    BY <1>0 DEF WorkTypes
  <2>2. index' = [index EXCEPT ![s] = target[w][s]]
    BY <1>2 DEF WriteIndex
  <2>3. index' \in [Scopes -> Stores]
    BY <2>1, <2>2 DEF StoreTypes
  <2> QED
    BY <1>2, <2>3 DEF WriteIndex, StoreTypes, reading
<1>3. CASE Unlink(w)
  <2>1. PICK p \in Path : files' = [files EXCEPT ![s][p] = 0]
    BY <1>3 DEF Unlink, Removed, Present
  <2>2. files' \in [Scopes -> Stores]
    <3> HIDE DEF s
    <3>1. [files[s] EXCEPT ![p] = 0] \in Stores
      BY <1>0 DEF StoreTypes, Stores
    <3>2. files' = [files EXCEPT ![s] = [files[s] EXCEPT ![p] = 0]]
      BY <1>0, <2>1 DEF StoreTypes
    <3> QED
      BY <1>0, <3>1, <3>2 DEF StoreTypes
  <2> QED
    BY <1>3, <2>2 DEF Unlink, StoreTypes, reading
<1>4. CASE UNCHANGED <<store, reading>>
  BY <1>4 DEF store, reading, StoreTypes
<1> QED
  BY <1>1, <1>2, <1>3, <1>4
     DEF Acts, WorkerStep, Spawn, Extract, Lock, Apply, Published, Check, Claim, Stage,
         Report, Fail, Die

\* What a step of another worker leaves a worker.
Spared(v) ==
  /\ pc'[v] = pc[v] /\ at'[v] = at[v] /\ task'[v] = task[v] /\ target'[v] = target[v]
  /\ \A s \in Scopes : writer'[s] = v <=> writer[s] = v
  /\ claim' = v <=> claim = v

LEMMA OthersSpared ==
  ASSUME WorkTypes, ShareTypes, NEW w \in Worker, Acts(w), NEW v \in Worker \ {w}
  PROVE  Spared(v)
<1>1. v # None /\ w # None
  BY MemoryAssumption
<1>2. pc'[v] = pc[v] /\ at'[v] = at[v]
  BY DEF WorkTypes, Acts, WorkerStep, Spawn, Extract, Lock, Apply, WriteFile, WriteIndex, Unlink,
         Published, Check, Claim, Stage, Report, Fail, Die, Raise, Drop, Step, work
<1>3. task'[v] = task[v] /\ target'[v] = target[v]
  BY DEF WorkTypes, Acts, WorkerStep, Spawn, Extract, Lock, Apply, WriteFile, WriteIndex, Unlink,
         Published, Check, Claim, Stage, Report, Fail, Die, Raise, Drop, Step, work
<1>4. claim' = v <=> claim = v
  BY <1>1 DEF Acts, WorkerStep, Spawn, Extract, Lock, Apply, WriteFile, WriteIndex, Unlink,
         Published, Check, Claim, Stage, Report, Fail, Die, Raise, Drop
<1>5. \A s \in Scopes : Unlocked(w)[s] = v <=> writer[s] = v
  BY <1>1 DEF Unlocked
<1>6. \A s \in Scopes : writer'[s] = v <=> writer[s] = v
  <2>1. CASE writer' = writer
    BY <2>1
  <2>2. CASE writer' = Unlocked(w)
    BY <1>5, <2>2
  <2>3. CASE Lock(w)
    BY <1>1, <2>3 DEF Lock, ShareTypes
  <2> QED
    BY <2>1, <2>2, <2>3
       DEF Acts, WorkerStep, Spawn, Extract, Apply, WriteFile, WriteIndex, Unlink,
           Published, Check, Claim, Stage, Report, Fail, Die, Raise, Drop
<1> QED
  BY <1>2, <1>3, <1>4, <1>6 DEF Spared

LEMMA OwnPlace ==
  ASSUME WorkTypes, ShareTypes, NEW w \in Worker, Placed(w), Acts(w)
  PROVE  Placed(w)'
<1>0. w # None /\ pc[w] \in Steps /\ at[w] \in 1 .. 2 /\ task[w] \in {"extract", "consolidate"}
  BY MemoryAssumption DEF WorkTypes
<1>1. \A s \in Scopes : Unlocked(w)[s] # w
  BY <1>0 DEF Unlocked
<1>2. ASSUME Raise(w) PROVE Placed(w)'
  <2>1. pc'[w] = "report" /\ writer' = Unlocked(w) /\ claim' # w
    BY <1>0, <1>2 DEF Raise, Drop, WorkTypes
  <2> QED
    BY <1>1, <2>1 DEF Placed
<1>3. CASE Spawn(w)
  <2>1. /\ pc[w] = "off" /\ pc'[w] = "extract" /\ at'[w] = 1 /\ task'[w] = "extract"
        /\ UNCHANGED <<writer, claim>>
    BY <1>3 DEF Spawn, Step, WorkTypes
  <2> QED
    BY <2>1 DEF Placed
<1>4. CASE Extract(w)
  <2>1. CASE ~Raise(w)
    <3>1. pc[w] = "extract" /\ pc'[w] = "lock" /\ UNCHANGED <<at, task, writer, claim>>
      BY <1>4, <2>1 DEF Extract, WorkTypes
    <3> QED
      BY <3>1, ScopesAre DEF Placed
  <2> QED
    BY <1>2, <2>1
<1>5. CASE Lock(w)
  <2>1. pc[w] = "lock" /\ UNCHANGED <<task, claim>> /\ writer' = [writer EXCEPT ![LockOrder[at[w]]] = w]
    BY <1>5 DEF Lock
  <2>2. CASE at[w] = 1
    <3>1. at'[w] = 2 /\ pc'[w] = "lock"
      BY <1>5, <2>1, <2>2 DEF Lock, WorkTypes
    <3>2. writer'["project"] = w /\ writer'["user"] = writer["user"]
      BY <2>1, <2>2, ScopesAre DEF ShareTypes
    <3> QED
      BY <2>1, <3>1, <3>2 DEF Placed
  <2>3. CASE at[w] = 2
    <3>1. at'[w] = 1 /\ pc'[w] = IF task[w] = "extract" THEN "apply" ELSE "stage"
      BY <1>5, <2>1, <2>3 DEF Lock, WorkTypes
    <3>2. writer'["user"] = w /\ writer'["project"] = writer["project"]
      BY <2>1, <2>3, ScopesAre DEF ShareTypes
    <3>3. \A s \in Scopes : writer'[s] = w
      BY <2>1, <2>3, <3>2, ScopesAre DEF Placed
    <3>4. claim' = w => task'[w] = "consolidate" /\ pc'[w] = "stage"
      BY <2>1, <3>1 DEF Placed
    <3> QED
      BY <2>1, <3>1, <3>3, <3>4 DEF Placed
  <2> QED
    BY <1>0, <2>2, <2>3
<1>6. CASE Apply(w)
  <2>1. CASE ~Raise(w)
    <3>1. pc[w] = "apply" /\ pc'[w] = "files" /\ UNCHANGED <<at, task, writer, claim>>
      BY <1>6, <2>1 DEF Apply, WorkTypes
    <3> QED
      BY <3>1 DEF Placed
  <2> QED
    BY <1>2, <2>1
<1>7. CASE WriteFile(w) \/ Unlink(w)
  <2>1. UNCHANGED <<pc, at, task, writer, claim>>
    BY <1>7 DEF WriteFile, Unlink, work
  <2> QED
    BY <2>1 DEF Placed
<1>8. CASE WriteIndex(w)
  <2>1. pc[w] = "files" /\ pc'[w] = "unlink" /\ UNCHANGED <<at, task, writer, claim>>
    BY <1>8 DEF WriteIndex, Step, WorkTypes
  <2> QED
    BY <2>1 DEF Placed
<1>9. CASE Published(w)
  <2>1. pc[w] = "unlink" /\ UNCHANGED task
    BY <1>9 DEF Published
  <2>2. CASE at[w] = 1
    <3>1. pc'[w] = "files" /\ UNCHANGED <<writer, claim>>
      BY <1>9, <2>2 DEF Published, WorkTypes
    <3> QED
      BY <2>1, <3>1 DEF Placed
  <2>3. CASE at[w] # 1
    <3>1. /\ at'[w] = 1 /\ pc'[w] = IF task[w] = "extract" THEN "check" ELSE "report"
          /\ writer' = Unlocked(w) /\ claim' # w
      BY <1>0, <1>9, <2>3 DEF Published, WorkTypes
    <3> QED
      BY <1>0, <1>1, <3>1 DEF Placed
  <2> QED
    BY <2>2, <2>3
<1>10. CASE Check(w)
  <2>1. /\ pc[w] = "check" /\ pc'[w] \in {"claim", "report"} /\ at' = at
        /\ task'[w] = "consolidate" /\ UNCHANGED <<writer, claim>>
    BY <1>10 DEF Check, WorkTypes
  <2> QED
    BY <2>1 DEF Placed
<1>11. CASE Claim(w)
  <2>0. pc[w] = "claim" /\ at' = at /\ UNCHANGED <<writer, task>>
    BY <1>11 DEF Claim
  <2>1. CASE claim = None
    <3>1. pc'[w] = "lock" /\ claim' = w
      BY <1>11, <2>1 DEF Claim, WorkTypes
    <3>2. task[w] = "consolidate"
      BY <2>0 DEF Placed
    <3> QED
      BY <2>0, <3>1, <3>2, ScopesAre DEF Placed
  <2>2. CASE claim # None
    <3>1. pc'[w] = "report" /\ UNCHANGED claim
      BY <1>11, <2>2 DEF Claim, WorkTypes
    <3> QED
      BY <2>0, <3>1 DEF Placed
  <2> QED
    BY <2>1, <2>2
<1>12. CASE Stage(w)
  <2>1. CASE ~Raise(w)
    <3>1. pc[w] = "stage" /\ pc'[w] = "files" /\ UNCHANGED <<at, task, writer, claim>>
      BY <1>12, <2>1 DEF Stage, WorkTypes
    <3> QED
      BY <3>1 DEF Placed
  <2> QED
    BY <1>2, <2>1
<1>13. CASE Report(w)
  <2>1. /\ pc[w] = "report" /\ pc'[w] = "off" /\ at'[w] = 1
        /\ UNCHANGED <<writer, claim>>
    BY <1>13, DropTyped DEF Report, Step, WorkTypes
  <2> QED
    BY <2>1 DEF Placed
<1>14. CASE Die(w)
  <2>1. /\ pc'[w] = "off" /\ at'[w] = 1 /\ writer' = Unlocked(w) /\ claim' # w
    BY <1>0, <1>14, DropTyped DEF Die, WorkTypes
  <2> QED
    BY <1>1, <2>1 DEF Placed
<1> QED
  BY <1>2, <1>3, <1>4, <1>5, <1>6, <1>7, <1>8, <1>9, <1>10, <1>11, <1>12, <1>13, <1>14
     DEF Acts, WorkerStep, Fail

\* A worker publishes only while nobody refreshes.
LEMMA ReadStep ==
  ASSUME Control, NEW w \in Worker, Acts(w)
  PROVE  ReadInv'
<1>1. reader' = reader /\ loaded' = loaded
  BY DEF Acts, WorkerStep, Spawn, Extract, Lock, Apply, WriteFile, WriteIndex, Unlink,
         Published, Check, Claim, Stage, Report, Fail, Die, Raise, Drop, reading
<1>2. \A s \in Scopes : writer[s] = None => writer'[s] = None \/ ~ReadLocked(s)
  <2>1. CASE writer' = writer
    BY <2>1
  <2>2. CASE writer' = Unlocked(w)
    BY <2>2 DEF Unlocked
  <2>3. CASE Lock(w)
    BY <2>3 DEF Lock, Control, ShareTypes
  <2> QED
    BY <2>1, <2>2, <2>3
       DEF Acts, WorkerStep, Spawn, Extract, Apply, WriteFile, WriteIndex, Unlink,
           Published, Check, Claim, Stage, Report, Fail, Die, Raise, Drop
<1>3. reader = "rest" => index' = index
  <2>1. CASE WriteIndex(w)
    <3>1. writer["user"] = w /\ w # None
      BY <2>1, ScopesAre, MemoryAssumption DEF WriteIndex, Step, Control, PlaceInv, Placed
    <3> QED
      BY <3>1, ScopesAre DEF Control, ReadInv
  <2> QED
    BY <2>1 DEF Acts, WorkerStep, Spawn, Extract, Lock, Apply, WriteFile, Unlink,
         Published, Check, Claim, Stage, Report, Fail, Die, Raise, Drop, store
<1> QED
  BY <1>1, <1>2, <1>3, ScopesAre DEF Control, ReadInv, ReadLocked

LEMMA RefreshStep ==
  ASSUME Control, Refresh
  PROVE  StoreTypes' /\ ShareTypes' /\ ReadInv' /\ UNCHANGED <<work, writer, claim>>
<1>1. UNCHANGED <<store, work, writer, claim, age>>
  BY DEF Refresh, RefreshLock, RefreshLoad, RefreshEnd
<1>2. CASE RefreshLock
  <2>1. UNCHANGED <<loaded, snapshot, state>>
    BY <1>2 DEF RefreshLock
  <2>2. reader' \in {"idle", "lock", "load"}
    BY <1>2 DEF RefreshLock, Read
  <2>3. reader' = "lock" => writer["project"] = None
    BY <1>2, ScopesAre DEF RefreshLock, Read
  <2>4. reader' = "load" => writer["project"] = None /\ writer["user"] = None
    BY <1>2, ScopesAre DEF RefreshLock, Read, Control, ReadInv
  <2> QED
    BY <1>1, <2>1, <2>2, <2>3, <2>4, ScopesAre
       DEF Control, StoreTypes, ShareTypes, ReadInv, store
<1>3. CASE RefreshLoad
  <2>1. UNCHANGED <<snapshot, state>>
    BY <1>3 DEF RefreshLoad
  <2>2. /\ reader = "load"
        /\ \/ reader' = "rest" /\ loaded' = index["user"]
           \/ reader' = "idle" /\ loaded' = loaded
    BY <1>3 DEF RefreshLoad, Read
  <2>3. index["user"] \in Stores
    BY ScopesAre DEF Control, StoreTypes
  <2> QED
    BY <1>1, <2>1, <2>2, <2>3, ScopesAre DEF Control, StoreTypes, ShareTypes, ReadInv, store
<1>4. CASE RefreshEnd
  <2>1. reader' = "idle" /\ loaded' = EmptyStore
    BY <1>4 DEF RefreshEnd, Read
  <2>2. state' \in {"none", "new", "seen"}
    BY <1>4 DEF RefreshEnd, Control, ShareTypes
  <2>3. \A s \in Scopes : (IF s = "user" THEN loaded ELSE index[s]) \in Stores
    BY DEF Control, StoreTypes
  <2>4. snapshot' \in [Scopes -> Stores]
    BY <1>4, <2>3 DEF RefreshEnd, Control, StoreTypes
  <2> QED
    BY <1>1, <2>1, <2>2, <2>4, EmptyIs DEF Control, StoreTypes, ShareTypes, ReadInv, store
<1> QED
  BY <1>1, <1>2, <1>3, <1>4 DEF Refresh

LEMMA ControlStep == Control /\ [Next]_vars => Control'
<1> SUFFICES ASSUME Control, [Next]_vars PROVE Control'
  OBVIOUS
<1>1. ASSUME NEW w \in Worker, Acts(w) PROVE Control'
  <2>1. StoreTypes' /\ WorkTypes' /\ ShareTypes'
    BY <1>1, StoreStep, WorkStep, ShareStep DEF Control
  <2>2. failed' \in [Worker -> BOOLEAN]
    BY <1>1, FailedStep DEF Control
  <2>3. ReadInv'
    BY <1>1, ReadStep
  <2>4. ASSUME NEW v \in Worker PROVE Placed(v)'
    <3>1. CASE v = w
      BY <1>1, <3>1, OwnPlace DEF Control, PlaceInv
    <3>2. CASE v # w
      <4>1. Spared(v)
        BY <1>1, <3>2, OthersSpared DEF Control
      <4>2. Placed(v)
        BY DEF Control, PlaceInv
      <4>3. pc'[v] = pc[v] /\ at'[v] = at[v] /\ task'[v] = task[v] /\ (claim' = v <=> claim = v)
        BY <4>1 DEF Spared
      <4>4. \A s \in Scopes : writer'[s] = v <=> writer[s] = v
        BY <4>1 DEF Spared
      <4>5. /\ writer'["user"] = v <=> writer["user"] = v
            /\ writer'["project"] = v <=> writer["project"] = v
        BY <4>4, ScopesAre
      <4>6. (\A s \in Scopes : writer'[s] = v) <=> \A s \in Scopes : writer[s] = v
        BY <4>4
      <4>7. (\A s \in Scopes : writer'[s] # v) <=> \A s \in Scopes : writer[s] # v
        BY <4>4
      <4> QED
        BY <4>2, <4>3, <4>5, <4>6, <4>7 DEF Placed
    <3> QED
      BY <3>1, <3>2
  <2> QED
    BY <2>1, <2>2, <2>3, <2>4 DEF Control, PlaceInv
<1>2. ASSUME UNCHANGED <<work, writer, claim>>, StoreTypes', ShareTypes', ReadInv'
      PROVE  Control'
  <2>1. WorkTypes' /\ failed' \in [Worker -> BOOLEAN]
    <3>1. WorkTypes'
      BY <1>2 DEF work, WorkTypes, Control
    <3>2. failed' = failed
      BY <1>2 DEF work
    <3> QED
      BY <3>1, <3>2, Zenon DEF Control
  <2>2. PlaceInv'
    BY <1>2 DEF work, PlaceInv, Placed, Control
  <2> QED
    BY <1>2, <2>1, <2>2 DEF Control
<1>3. CASE Refresh
  BY <1>2, <1>3, RefreshStep
<1>4. CASE WeekPasses
  <2>1. StoreTypes' /\ ReadInv'
    BY <1>4 DEF WeekPasses, store, reading, StoreTypes, ReadInv, Control
  <2>2. ShareTypes'
    BY <1>4 DEF WeekPasses, reading, ShareTypes, Control
  <2> QED
    BY <1>2, <1>4, <2>1, <2>2 DEF WeekPasses
<1>5. CASE UNCHANGED vars
  <2>1. StoreTypes' /\ ReadInv'
    BY <1>5 DEF vars, store, reading, StoreTypes, ReadInv, Control
  <2>2. ShareTypes'
    BY <1>5 DEF vars, reading, ShareTypes, Control
  <2> QED
    BY <1>2, <1>5, <2>1, <2>2 DEF vars
<1> QED
  BY <1>1, <1>3, <1>4, <1>5 DEF Next, Acts

LEMMA ControlTypes == Control => TypeOK
<1> SUFFICES ASSUME Control PROVE TypeOK
  OBVIOUS
<1>1. \A w \in Worker : pc[w] \in {"apply", "stage", "files", "unlink"} => Holds(w) = Scopes
  BY DEF Control, PlaceInv, Placed, Holds
<1>2. \A w \in Worker : pc[w] \in {"off", "extract", "check", "claim", "report"} =>
                          Holds(w) = {} /\ claim # w
  BY DEF Control, PlaceInv, Placed, Holds
<1>3. failed \in [Worker -> BOOLEAN]
  BY DEF Control
<1>4. StoreTypes /\ WorkTypes /\ ShareTypes
  BY DEF Control
<1> QED
  BY <1>1, <1>2, <1>3, <1>4 DEF TypeOK, StoreTypes, WorkTypes, ShareTypes, Steps

LEMMA AlwaysControl == Spec => []Control
<1>1. Init => Control
  BY InitControl
<1>2. Control /\ [Next]_vars => Control'
  BY ControlStep
<1> QED
  BY <1>1, <1>2, PTL DEF Spec

\* Stores, locks, steps and plans keep their types, and a worker holds its locks
\* and its claim in the steps that need them and in no other, whatever fails or
\* dies (memory_write_locks, maybe_consolidate).
THEOREM MemoryTypeCorrect == Spec => []TypeOK
<1>1. Control => TypeOK
  BY ControlTypes
<1> QED
  BY <1>1, AlwaysControl, PTL

-----------------------------------------------------------------------------
(* Stores that nobody has locked.                                            *)

\* No store, and none that is about to be published, has an id twice.
IdInv ==
  /\ \A s \in Scopes : Distinct(index[s])
  /\ \A w \in Worker, s \in Scopes : pc[w] \in {"files", "unlink"} => Distinct(target[w][s])

LEMMA TargetsDistinct ==
  ASSUME Control, IdInv, NEW w \in Worker, Apply(w) \/ Stage(w), pc'[w] = "files",
         NEW s \in Scopes
  PROVE  Distinct(target'[w][s])
<1>0. /\ index["user"] \in Stores /\ index["project"] \in Stores
      /\ Distinct(index["user"]) /\ Distinct(index["project"])
  BY ScopesAre DEF Control, StoreTypes, IdInv
<1>1. CASE Apply(w)
  <2>1. \A r \in Scopes : Loads(r) /\ ~Refused(index[r], plan[w][r])
    BY <1>1 DEF Apply, Raise, Control, WorkTypes
  <2>2. PICK t \in After(index["user"], plan[w]["user"]),
             u \in After(index["project"], plan[w]["project"]) :
               target' = [target EXCEPT ![w] = [user |-> t, project |-> u]]
    BY <1>1, <2>1 DEF Apply
  <2>3. plan[w]["user"] \in Plan /\ plan[w]["project"] \in Plan
    BY ScopesAre DEF Control, WorkTypes, Plans_
  <2>4. /\ plan[w]["user"].op = "update" => plan[w]["user"].id \in IdsOf(index["user"])
        /\ plan[w]["project"].op = "update" => plan[w]["project"].id \in IdsOf(index["project"])
    BY <2>1, ScopesAre DEF Refused
  <2>5. t \in Stores /\ u \in Stores /\ Distinct(t) /\ Distinct(u)
    BY <1>0, <2>3, <2>4, AfterIs
  <2>6. target'[w] = [user |-> t, project |-> u]
    BY <2>2 DEF Control, WorkTypes
  <2>7. target'[w]["user"] = t /\ target'[w]["project"] = u
    BY <2>5, <2>6, PairIs
  <2> QED
    BY <2>5, <2>7, ScopesAre
<1>2. CASE Stage(w)
  <2>1. PICK t \in Staged : target' = [target EXCEPT ![w] = t]
    BY <1>2 DEF Stage, Raise, Control, WorkTypes
  <2>2. target'[w] = t
    BY <2>1 DEF Control, WorkTypes
  <2> QED
    BY <2>1, <2>2, StagedIs DEF Control, StoreTypes, IdInv
<1> QED
  BY <1>1, <1>2

\* The steps that begin to publish, and those in it.
LEMMA PublishSteps ==
  ASSUME Control, NEW w \in Worker, Acts(w), pc'[w] \in {"files", "unlink"}
  PROVE  \/ (Apply(w) \/ Stage(w)) /\ pc'[w] = "files" /\ UNCHANGED <<store, faults>>
            /\ (\A s \in Scopes : files[s] = index[s]) /\ at' = at /\ at[w] = 1
            /\ pc[w] \notin {"files", "unlink"}
         \/ WriteFile(w) \/ WriteIndex(w) \/ Unlink(w)
         \/ Published(w) /\ pc'[w] = "files" /\ at[w] = 1 /\ UNCHANGED <<store, target, faults>>
<1>0. pc \in [Worker -> Steps] /\ Placed(w)
  BY DEF Control, WorkTypes, PlaceInv
<1>1. CASE Apply(w) \/ Stage(w)
  <2>1. ~Raise(w)
    BY <1>0 DEF Raise
  <2>2. pc[w] \in {"apply", "stage"} /\ pc'[w] = "files" /\ at' = at
        /\ \A s \in Scopes : Loads(s)
    BY <1>0, <1>1, <2>1 DEF Apply, Stage
  <2>3. UNCHANGED <<store, faults>>
    BY <1>1 DEF Apply, Stage, bounds
  <2> QED
    BY <1>0, <1>1, <2>2, <2>3 DEF Loads, Placed
<1>2. CASE Published(w)
  <2>1. at[w] = 1
    BY <1>0, <1>2 DEF Published
  <2> QED
    BY <1>0, <1>2, <2>1 DEF Published, bounds
<1>3. ~Spawn(w) /\ ~Extract(w) /\ ~Lock(w)
  BY <1>0 DEF Spawn, Extract, Lock, Raise, Step
<1>4. ~Check(w) /\ ~Claim(w) /\ ~Report(w) /\ ~Fail(w) /\ ~Die(w)
  BY <1>0 DEF Check, Claim, Report, Fail, Die, Raise, Drop, Step
<1> QED
  BY <1>1, <1>2, <1>3, <1>4 DEF Acts, WorkerStep

LEMMA IdStep == Control /\ IdInv /\ [Next]_vars => IdInv'
<1> SUFFICES ASSUME Control, IdInv, [Next]_vars PROVE IdInv'
  OBVIOUS
<1>1. ASSUME NEW w \in Worker, Acts(w) PROVE IdInv'
  <2>0. target \in [Worker -> [Scopes -> Stores]] /\ pc \in [Worker -> Steps]
    BY DEF Control, WorkTypes
  <2>1. \A s \in Scopes : Distinct(index'[s])
    <3>1. CASE WriteIndex(w)
      <4> DEFINE r == PublishOrder[at[w]]
      <4>1. r \in Scopes /\ pc[w] = "files"
        BY <3>1, ScopesAre DEF Control, WorkTypes, WriteIndex, Step
      <4>2. Distinct(target[w][r])
        BY <4>1 DEF IdInv
      <4>3. index' = [index EXCEPT ![r] = target[w][r]]
        BY <3>1 DEF WriteIndex
      <4> HIDE DEF r
      <4> QED
        BY <4>1, <4>2, <4>3 DEF IdInv, Control, StoreTypes
    <3>2. CASE ~WriteIndex(w)
      <4>1. index' = index
        BY <1>1, <3>2 DEF Acts, WorkerStep, Spawn, Extract, Lock, Apply, WriteFile, Unlink,
           Published, Check, Claim, Stage, Report, Fail, Die, Raise, Drop, store
      <4> QED
        BY <4>1 DEF IdInv
    <3> QED
      BY <3>1, <3>2
  <2>2. ASSUME NEW v \in Worker, NEW s \in Scopes, pc'[v] \in {"files", "unlink"}
        PROVE  Distinct(target'[v][s])
    <3>1. CASE v # w
      <4>1. Spared(v)
        BY <1>1, <3>1, OthersSpared DEF Control
      <4> QED
        BY <2>2, <4>1 DEF Spared, IdInv
    <3>2. CASE v = w /\ (Apply(w) \/ Stage(w)) /\ pc'[w] = "files"
      BY <3>2, TargetsDistinct
    <3>3. CASE v = w /\ (WriteFile(w) \/ WriteIndex(w) \/ Unlink(w) \/ (Published(w) /\ at[w] = 1))
      <4>1. target' = target /\ pc[w] \in {"files", "unlink"}
        <5>1. CASE WriteFile(w) \/ Unlink(w)
          BY <5>1 DEF WriteFile, Unlink, work
        <5>2. CASE WriteIndex(w) \/ (Published(w) /\ at[w] = 1)
          BY <5>2 DEF WriteIndex, Published, Step
        <5> QED
          BY <3>3, <5>1, <5>2
      <4> QED
        BY <3>3, <4>1 DEF IdInv
    <3>4. CASE v = w
      <4>1. \/ (Apply(w) \/ Stage(w)) /\ pc'[w] = "files"
            \/ WriteFile(w) \/ WriteIndex(w) \/ Unlink(w) \/ (Published(w) /\ at[w] = 1)
        <5>1. pc'[w] \in {"files", "unlink"}
          BY <2>2, <3>4
        <5> QED
          BY <1>1, <5>1, PublishSteps, Zenon
      <4> QED
        BY <3>2, <3>3, <3>4, <4>1
    <3> QED
      BY <3>1, <3>4
  <2> QED
    BY <2>1, <2>2 DEF IdInv
<1>2. CASE UNCHANGED <<store, work>>
  BY <1>2 DEF store, work, IdInv
<1> QED
  BY <1>1, <1>2
     DEF Next, Acts, Refresh, RefreshLock, RefreshLoad, RefreshEnd, WeekPasses, vars

LEMMA AlwaysIds == Spec => []IdInv
<1>1. Init => IdInv
  BY EmptyIs DEF Init, IdInv
<1>2. Control /\ IdInv /\ [Next]_vars => IdInv'
  BY IdStep
<1> QED
  BY <1>1, <1>2, AlwaysControl, PTL DEF Spec

Publishes(w, s) == pc[w] \in {"files", "unlink"} /\ PublishOrder[at[w]] = s
Unpublished(s) == \A w \in Worker : ~Publishes(w, s)

\* A path of a memory that is listed under another category.
Elsewhere(s, p) == index[s][p] = 0 /\ p[2] \in IdsOf(index[s])

\* Once the index is written, every memory it lists has its file.
Listed(w, s) ==
  pc[w] = "unlink" /\ PublishOrder[at[w]] = s =>
    /\ target[w][s] = index[s]
    /\ \A p \in Path : index[s][p] # 0 => files[s][p] = index[s][p]

StrayInv ==
  faults = 0 =>
    /\ \A s \in Scopes : Unpublished(s) =>
         \A p \in Path : files[s][p] = index[s][p] \/ Elsewhere(s, p)
    /\ \A w \in Worker, s \in Scopes : Listed(w, s)

\* Nobody publishes beside another, nor while another prepares to.
LEMMA Alone ==
  ASSUME Control, NEW w \in Worker, pc[w] \in {"apply", "stage", "files", "unlink"},
         NEW v \in Worker, pc[v] \in {"apply", "stage", "files", "unlink"}
  PROVE  v = w
<1>1. writer["user"] = w /\ writer["user"] = v
  BY ScopesAre DEF Control, PlaceInv, Placed
<1> QED
  BY <1>1

LEMMA FaultsCount == Spec => [](faults \in Nat)
<1>1. Init => faults \in Nat
  BY DEF Init
<1>2. faults \in Nat /\ [Next]_vars => (faults \in Nat)'
  <2>1. ASSUME NEW w \in Worker, Acts(w) PROVE faults' = faults \/ faults' = faults + 1
    BY <2>1 DEF Acts, WorkerStep, Spawn, Extract, Lock, Apply, WriteFile, WriteIndex, Unlink,
         Published, Check, Claim, Stage, Report, Fail, Die, Fault, bounds
  <2>2. CASE [Next]_vars /\ \A w \in Worker : ~Acts(w)
    BY <2>2 DEF Next, Acts, Refresh, RefreshLock, RefreshLoad, RefreshEnd, WeekPasses,
                vars, bounds
  <2> QED
    BY <2>1, <2>2
<1> QED
  BY <1>1, <1>2, PTL DEF Spec

\* A step of a worker that neither writes nor begins or ends to publish.
Aside(w) ==
  /\ files' = files /\ index' = index
  /\ pc[w] \notin {"files", "unlink"} /\ pc'[w] \notin {"files", "unlink"}
Begins(w) ==
  /\ files' = files /\ index' = index /\ pc[w] \in {"apply", "stage"}
  /\ pc'[w] = "files" /\ at'[w] = 1
  /\ \A s \in Scopes : files[s] = index[s]

LEMMA StoreCases ==
  ASSUME Control, faults \in Nat, NEW w \in Worker, Acts(w), faults' = 0
  PROVE  /\ faults = 0
         /\ Aside(w) \/ Begins(w) \/ WriteFile(w) \/ WriteIndex(w) \/ Unlink(w) \/ Published(w)
<1>0. pc \in [Worker -> Steps] /\ at \in [Worker -> 1 .. 2]
  BY DEF Control, WorkTypes
<1>1. ~Fail(w) /\ ~Die(w) /\ faults = 0
  <2>1. ~Fail(w) /\ ~Die(w)
    BY DEF Fail, Die, Fault
  <2> QED
    BY <2>1 DEF Acts, WorkerStep, Spawn, Extract, Lock, Apply, WriteFile, WriteIndex, Unlink,
         Published, Check, Claim, Stage, Report, bounds
<1>2. CASE pc'[w] \in {"files", "unlink"}
  <2>1. \/ (Apply(w) \/ Stage(w)) /\ pc'[w] = "files" /\ UNCHANGED <<store, faults>>
            /\ (\A s \in Scopes : files[s] = index[s]) /\ at' = at /\ at[w] = 1
            /\ pc[w] \notin {"files", "unlink"}
        \/ WriteFile(w) \/ WriteIndex(w) \/ Unlink(w) \/ Published(w)
    BY <1>2, PublishSteps, Zenon
  <2>2. Apply(w) \/ Stage(w) => pc[w] \in {"apply", "stage"}
    BY <1>0, <1>2 DEF Apply, Stage, Raise
  <2> QED
    BY <1>1, <2>1, <2>2 DEF Begins, store
<1>3. CASE pc'[w] \notin {"files", "unlink"} /\ ~Published(w)
  <2>1. ~WriteFile(w) /\ ~Unlink(w) /\ ~WriteIndex(w)
    BY <1>0, <1>3 DEF WriteFile, WriteIndex, Unlink, Step, work
  <2>2. /\ UNCHANGED store
        /\ pc[w] \in {"off", "lock", "check", "claim", "report", "extract", "apply", "stage"}
    <3>1. CASE Spawn(w) \/ Lock(w) \/ Check(w) \/ Claim(w) \/ Report(w)
      BY <3>1 DEF Spawn, Lock, Check, Claim, Report, Step
    <3>2. CASE Extract(w) \/ Apply(w) \/ Stage(w)
      BY <3>2 DEF Extract, Apply, Stage
    <3> QED
      BY <1>1, <1>3, <2>1, <3>1, <3>2 DEF Acts, WorkerStep
  <2>3. files' = files /\ index' = index
    BY <2>2 DEF store
  <2>4. pc[w] \notin {"files", "unlink"}
    BY <2>2
  <2> QED
    BY <1>1, <1>3, <2>3, <2>4 DEF Aside
<1> QED
  BY <1>1, <1>2, <1>3

\* The step of one worker writes the scope it is at, and nothing else.
LEMMA WriterIs ==
  ASSUME Control, NEW w \in Worker, Acts(w),
         WriteFile(w) \/ WriteIndex(w) \/ Unlink(w) \/ Published(w),
         NEW r, r = PublishOrder[at[w]]
  PROVE  /\ r \in Scopes /\ pc[w] \in {"files", "unlink"} /\ Publishes(w, r)
         /\ \A s \in Scopes : s # r => files'[s] = files[s] /\ index'[s] = index[s]
         /\ \A v \in Worker : v # w => pc[v] \notin {"files", "unlink"} /\ pc'[v] = pc[v]
         /\ ~Published(w) => pc'[w] \in {"files", "unlink"} /\ at' = at /\ target' = target
         /\ \A s \in Scopes : s # r => Unpublished(s)
<1>1. r \in Scopes
  BY ScopesAre DEF Control, WorkTypes
<1>2. pc[w] \in {"files", "unlink"}
  BY DEF WriteFile, WriteIndex, Unlink, Published, Step
<1>3. \A s \in Scopes : s # r => files'[s] = files[s] /\ index'[s] = index[s]
  BY DEF WriteFile, WriteIndex, Unlink, Published, Control, StoreTypes, store
<1>4. \A v \in Worker : v # w => pc[v] \notin {"files", "unlink"} /\ pc'[v] = pc[v]
  <2> SUFFICES ASSUME NEW v \in Worker, v # w
               PROVE  pc[v] \notin {"files", "unlink"} /\ pc'[v] = pc[v]
    OBVIOUS
  <2>1. Spared(v)
    BY OthersSpared DEF Control
  <2> QED
    BY <1>2, <2>1, Alone DEF Spared
<1>5. ~Published(w) => pc'[w] \in {"files", "unlink"} /\ at' = at /\ target' = target
  BY <1>2 DEF WriteFile, WriteIndex, Unlink, Step, work, Control, WorkTypes
<1> QED
  BY <1>1, <1>2, <1>3, <1>4, <1>5 DEF Publishes, Unpublished

LEMMA StrayStep ==
  ASSUME Control, faults \in Nat, StrayInv, NEW w \in Worker, Acts(w), faults' = 0
  PROVE  StrayInv'
<1>0. /\ faults = 0
      /\ Aside(w) \/ Begins(w) \/ WriteFile(w) \/ WriteIndex(w) \/ Unlink(w) \/ Published(w)
  BY StoreCases
<1>1. /\ \A s \in Scopes : Unpublished(s) =>
             \A p \in Path : files[s][p] = index[s][p] \/ Elsewhere(s, p)
      /\ \A v \in Worker, s \in Scopes : Listed(v, s)
  BY <1>0 DEF StrayInv
<1>2. CASE Aside(w)
  <2>1. \A v \in Worker : v # w => Spared(v)
    BY OthersSpared DEF Control
  <2>2. files' = files /\ index' = index
    BY <1>2 DEF Aside, store
  <2>3. ASSUME NEW s \in Scopes PROVE Unpublished(s)' => Unpublished(s)
    BY <1>2, <2>1 DEF Unpublished, Publishes, Spared, Aside
  <2>4. ASSUME NEW v \in Worker, NEW s \in Scopes PROVE Listed(v, s)'
    <3>1. CASE v = w
      BY <1>2, <3>1 DEF Listed, Aside
    <3>2. CASE v # w
      BY <1>1, <2>1, <2>2, <3>2 DEF Spared, Listed
    <3> QED
      BY <3>1, <3>2
  <2> QED
    BY <1>1, <2>2, <2>3, <2>4 DEF StrayInv, Elsewhere
<1>3. CASE Begins(w)
  <2>1. files' = files /\ index' = index /\ \A s \in Scopes : files[s] = index[s]
    BY <1>3 DEF Begins, store
  <2>2. \A v \in Worker : pc'[v] # "unlink"
    <3> SUFFICES ASSUME NEW v \in Worker, v # w PROVE pc'[v] # "unlink"
      BY <1>3 DEF Begins
    <3>1. Spared(v)
      BY OthersSpared DEF Control
    <3> QED
      BY <1>3, <3>1, Alone DEF Spared, Begins
  <2> QED
    BY <2>1, <2>2 DEF StrayInv, Listed
<1>4. CASE WriteFile(w) \/ WriteIndex(w) \/ Unlink(w) \/ Published(w)
  <2>0. PICK r \in Scopes : r = PublishOrder[at[w]]
    BY ScopesAre DEF Control, WorkTypes
  <2>1. /\ pc[w] \in {"files", "unlink"} /\ Publishes(w, r)
        /\ \A s \in Scopes : s # r => files'[s] = files[s] /\ index'[s] = index[s]
        /\ \A v \in Worker : v # w => pc[v] \notin {"files", "unlink"} /\ pc'[v] = pc[v]
        /\ ~Published(w) => pc'[w] \in {"files", "unlink"} /\ at' = at /\ target' = target
        /\ \A s \in Scopes : s # r => Unpublished(s)
    BY <1>4, <2>0, WriterIs
  <2>2. /\ files \in [Scopes -> Stores] /\ index \in [Scopes -> Stores]
        /\ target[w][r] \in Stores /\ pc \in [Worker -> Steps]
    BY <2>1 DEF Control, StoreTypes, WorkTypes
  <2>3. \A v \in Worker, s \in Scopes : v # w => Listed(v, s)'
    BY <2>1 DEF Listed
  <2>4. \A s \in Scopes : s # r => \A p \in Path : files'[s][p] = index'[s][p] \/ Elsewhere(s, p)'
    BY <1>1, <2>1 DEF Elsewhere
  <2>9. ASSUME \A s \in Scopes : Listed(w, s)',
               Unpublished(r)' => \A p \in Path : files'[r][p] = index'[r][p] \/ Elsewhere(r, p)'
        PROVE  StrayInv'
    <3>1. \A v \in Worker, s \in Scopes : Listed(v, s)'
      BY <2>3, <2>9
    <3>2. \A s \in Scopes : Unpublished(s)' =>
            \A p \in Path : files'[s][p] = index'[s][p] \/ Elsewhere(s, p)'
      BY <2>4, <2>9
    <3> QED
      BY <3>1, <3>2, Zenon DEF StrayInv
  <2>10. Publishes(w, r)' => ~Unpublished(r)'
    BY DEF Unpublished
  <2>5. CASE WriteFile(w)
    <3>1. pc'[w] = "files" /\ Publishes(w, r)'
      BY <2>0, <2>1, <2>5 DEF WriteFile, work, Publishes
    <3>2. \A s \in Scopes : Listed(w, s)'
      BY <3>1 DEF Listed
    <3> QED
      BY <2>9, <2>10, <3>1, <3>2
  <2>6. CASE WriteIndex(w)
    <3>1. pc'[w] = "unlink" /\ Publishes(w, r)'
      BY <2>0, <2>1, <2>2, <2>6 DEF WriteIndex, Step, Publishes
    <3>2. index'[r] = target[w][r] /\ files' = files /\ target' = target /\ at' = at
      BY <2>0, <2>1, <2>2, <2>6 DEF WriteIndex
    <3>3. \A p \in Path : target[w][r][p] # 0 => files[r][p] = target[w][r][p]
      BY <2>0, <2>6 DEF WriteIndex, Present
    <3>4. \A s \in Scopes : Listed(w, s)'
      BY <2>0, <3>2, <3>3 DEF Listed
    <3> QED
      BY <2>9, <2>10, <3>1, <3>4
  <2>7. CASE Unlink(w)
    <3>1. pc'[w] = "unlink" /\ pc[w] = "unlink" /\ Publishes(w, r)'
      BY <2>0, <2>1, <2>7 DEF Unlink, work, Publishes
    <3>2. Listed(w, r)
      BY <1>1, <2>1
    <3>3. PICK q \in Path : q[2] \notin IdsOf(target[w][r]) /\ files' = [files EXCEPT ![r][q] = 0]
      BY <2>0, <2>7 DEF Unlink, Removed, Present
    <3>4. target[w][r] = index[r] /\ index' = index /\ target' = target /\ at' = at
      BY <2>0, <2>7, <3>1, <3>2 DEF Unlink, Listed, work
    <3>5. index[r][q] = 0
      BY <3>3, <3>4 DEF IdsOf, Present
    <3>6. \A p \in Path : p # q => files'[r][p] = files[r][p]
      <4>1. files[r] \in [Path -> {0} \cup Versions]
        BY <2>1, <2>2 DEF Stores
      <4>2. files'[r] = [files[r] EXCEPT ![q] = 0]
        BY <2>1, <2>2, <3>3
      <4> QED
        BY <4>1, <4>2
    <3>7. \A s \in Scopes : Listed(w, s)'
      BY <2>0, <3>1, <3>2, <3>4, <3>5, <3>6 DEF Listed
    <3> QED
      BY <2>9, <2>10, <3>1, <3>7
  <2>8. CASE Published(w)
    <3>1. pc[w] = "unlink" /\ Removed(w, r) = {} /\ files' = files /\ index' = index
      BY <2>0, <2>8 DEF Published, store
    <3>2. Listed(w, r)
      BY <1>1, <2>1
    <3>3. /\ target[w][r] = index[r]
          /\ \A p \in Path : index[r][p] # 0 => files[r][p] = index[r][p]
      BY <2>0, <3>1, <3>2 DEF Listed
    <3>4. \A p \in Path : files[r][p] # 0 => p[2] \in IdsOf(index[r])
      BY <3>1, <3>3 DEF Removed, Present
    <3>5. \A p \in Path : files[r][p] = index[r][p] \/ Elsewhere(r, p)
      BY <3>3, <3>4 DEF Elsewhere
    <3>6. \A p \in Path : files'[r][p] = index'[r][p] \/ Elsewhere(r, p)'
      <4> QED
        BY <3>1, <3>5 DEF Elsewhere
    <3>7. pc'[w] # "unlink"
      BY <2>2, <2>8 DEF Published
    <3>8. \A s \in Scopes : Listed(w, s)'
      BY <3>7 DEF Listed
    <3> QED
      BY <2>9, <3>6, <3>8
  <2> QED
    BY <1>4, <2>5, <2>6, <2>7, <2>8
<1> QED
  BY <1>0, <1>2, <1>3, <1>4

LEMMA NoWorkerActs ==
  ASSUME [Next]_vars, \A w \in Worker : ~Acts(w)
  PROVE  UNCHANGED <<store, work, writer, claim, faults>>
BY DEF Next, Acts, Refresh, RefreshLock, RefreshLoad, RefreshEnd, WeekPasses, vars, bounds

LEMMA AlwaysStrays == Spec => []StrayInv
<1>1. Init => StrayInv
  BY DEF Init, StrayInv, Listed
<1>2. Control /\ faults \in Nat /\ StrayInv /\ [Next]_vars => StrayInv'
  <2> SUFFICES ASSUME Control, faults \in Nat, StrayInv, [Next]_vars, faults' = 0
               PROVE  StrayInv'
    BY DEF StrayInv
  <2>1. ASSUME NEW w \in Worker, Acts(w) PROVE StrayInv'
    BY <2>1, StrayStep
  <2>2. CASE \A w \in Worker : ~Acts(w)
    <3>1. UNCHANGED <<store, work, writer, claim, faults>>
      BY <2>2, NoWorkerActs
    <3> QED
      BY <3>1 DEF store, work, StrayInv, Unpublished, Publishes, Elsewhere, Listed
  <2> QED
    BY <2>1, <2>2
<1> QED
  BY <1>1, <1>2, AlwaysControl, FaultsCount, PTL DEF Spec

LEMMA QuietIsUnpublished ==
  ASSUME Control, NEW s \in Scopes, writer[s] = None
  PROVE  Unpublished(s)
BY MemoryAssumption DEF Control, PlaceInv, Placed, Unpublished, Publishes

\* For any workers, ids, categories and operations: every memory of a store that
\* nobody has locked has the file its index says, and every other file there
\* belongs to a memory of another category, unless a worker failed or died
\* (publish() unlinks by id, memory/long_term.py:173).
THEOREM StoresKeepTheirMemories == Spec => []WholeWhenQuiet
<1>1. Control /\ IdInv /\ StrayInv => WholeWhenQuiet
  <2> SUFFICES ASSUME Control, IdInv, StrayInv, faults = 0, NEW s \in Scopes, writer[s] = None
               PROVE  /\ Distinct(index[s])
                      /\ \A p \in Path : files[s][p] = index[s][p] \/ Stray(s, p)
    BY DEF WholeWhenQuiet, Distinct
  <2>1. Distinct(index[s])
    BY DEF IdInv
  <2>2. \A p \in Path : files[s][p] = index[s][p] \/ Elsewhere(s, p)
    BY QuietIsUnpublished DEF StrayInv
  <2> QED
    BY <2>1, <2>2 DEF Elsewhere, Stray
<1> QED
  BY <1>1, AlwaysControl, AlwaysIds, AlwaysStrays, PTL

-----------------------------------------------------------------------------
(* Without a change of category no such file is left.                         *)

\* A publication under way changes the category of a memory.
Moving ==
  \E w \in Worker, s \in Scopes : \E p, q \in Path :
    /\ pc[w] = "files" /\ PublishOrder[at[w]] = s /\ p[2] = q[2] /\ p # q
    /\ index[s][p] # 0 /\ target[w][s][q] # 0

\* The files beside a publication are those of the old index and of the new one.
Accounted(w, s) ==
  PublishOrder[at[w]] = s =>
    /\ pc[w] = "files" =>
         \A p \in Path : files[s][p] # 0 => index[s][p] # 0 \/ target[w][s][p] # 0
    /\ pc[w] = "unlink" =>
         \A p \in Path : files[s][p] # 0 /\ p[2] \in IdsOf(index[s]) => index[s][p] # 0

CleanInv ==
  faults = 0 =>
    /\ \A s \in Scopes : Unpublished(s) => files[s] = index[s]
    /\ \A w \in Worker, s \in Scopes : Accounted(w, s)

LEMMA CleanStep ==
  ASSUME Control, faults \in Nat, StrayInv, CleanInv, ~Moving, NEW w \in Worker, Acts(w),
         faults' = 0
  PROVE  CleanInv'
<1>0. /\ faults = 0
      /\ Aside(w) \/ Begins(w) \/ WriteFile(w) \/ WriteIndex(w) \/ Unlink(w) \/ Published(w)
  BY StoreCases
<1>1. /\ \A s \in Scopes : Unpublished(s) => files[s] = index[s]
      /\ \A v \in Worker, s \in Scopes : Accounted(v, s)
  BY <1>0 DEF CleanInv
<1>2. CASE Aside(w)
  <2>1. \A v \in Worker : v # w => Spared(v)
    BY OthersSpared DEF Control
  <2>2. files' = files /\ index' = index
    BY <1>2 DEF Aside
  <2>3. ASSUME NEW s \in Scopes PROVE Unpublished(s)' => Unpublished(s)
    BY <1>2, <2>1 DEF Unpublished, Publishes, Spared, Aside
  <2>4. ASSUME NEW v \in Worker, NEW s \in Scopes PROVE Accounted(v, s)'
    <3>1. CASE v = w
      BY <1>2, <3>1 DEF Accounted, Aside
    <3>2. CASE v # w
      BY <1>1, <2>1, <2>2, <3>2 DEF Spared, Accounted
    <3> QED
      BY <3>1, <3>2
  <2> QED
    BY <1>1, <2>2, <2>3, <2>4 DEF CleanInv
<1>3. CASE Begins(w)
  <2>1. files' = files /\ index' = index /\ \A s \in Scopes : files[s] = index[s]
    BY <1>3 DEF Begins
  <2>2. \A v \in Worker : pc'[v] # "unlink"
    <3> SUFFICES ASSUME NEW v \in Worker, v # w PROVE pc'[v] # "unlink"
      BY <1>3 DEF Begins
    <3>1. Spared(v)
      BY OthersSpared DEF Control
    <3> QED
      BY <1>3, <3>1, Alone DEF Spared, Begins
  <2> QED
    BY <2>1, <2>2 DEF CleanInv, Accounted
<1>4. CASE WriteFile(w) \/ WriteIndex(w) \/ Unlink(w) \/ Published(w)
  <2>0. PICK r \in Scopes : r = PublishOrder[at[w]]
    BY ScopesAre DEF Control, WorkTypes
  <2>1. /\ pc[w] \in {"files", "unlink"} /\ Publishes(w, r)
        /\ \A s \in Scopes : s # r => files'[s] = files[s] /\ index'[s] = index[s]
        /\ \A v \in Worker : v # w => pc[v] \notin {"files", "unlink"} /\ pc'[v] = pc[v]
        /\ ~Published(w) => pc'[w] \in {"files", "unlink"} /\ at' = at /\ target' = target
        /\ \A s \in Scopes : s # r => Unpublished(s)
    BY <1>4, <2>0, WriterIs
  <2>2. /\ files \in [Scopes -> Stores] /\ index \in [Scopes -> Stores]
        /\ target[w][r] \in Stores /\ pc \in [Worker -> Steps]
    BY <2>1 DEF Control, StoreTypes, WorkTypes
  <2>3. \A v \in Worker, s \in Scopes : v # w => Accounted(v, s)'
    BY <2>1 DEF Accounted
  <2>4. \A s \in Scopes : s # r => files'[s] = index'[s]
    BY <1>1, <2>1
  <2>9. ASSUME \A s \in Scopes : Accounted(w, s)', Unpublished(r)' => files'[r] = index'[r]
        PROVE  CleanInv'
    <3>1. \A v \in Worker, s \in Scopes : Accounted(v, s)'
      BY <2>3, <2>9
    <3>2. \A s \in Scopes : Unpublished(s)' => files'[s] = index'[s]
      BY <2>4, <2>9
    <3> QED
      BY <3>1, <3>2, Zenon DEF CleanInv
  <2>10. Publishes(w, r)' => ~Unpublished(r)'
    BY DEF Unpublished
  <2>11. Accounted(w, r) /\ Listed(w, r)
    BY <1>0, <1>1 DEF StrayInv
  <2>5. CASE WriteFile(w)
    <3>1. pc[w] = "files" /\ pc'[w] = "files" /\ Publishes(w, r)'
          /\ index' = index /\ target' = target /\ at' = at
      BY <2>0, <2>1, <2>5 DEF WriteFile, work, Publishes
    <3>2. PICK q \in Path : target[w][r][q] # 0
                            /\ files' = [files EXCEPT ![r][q] = target[w][r][q]]
      BY <2>0, <2>5 DEF WriteFile, Present
    <3>3. \A p \in Path : p # q => files'[r][p] = files[r][p]
      <4>1. files[r] \in [Path -> {0} \cup Versions]
        BY <2>2 DEF Stores
      <4>2. files'[r] = [files[r] EXCEPT ![q] = target[w][r][q]]
        BY <2>2, <3>2
      <4> QED
        BY <4>1, <4>2
    <3>4. \A s \in Scopes : Accounted(w, s)'
      BY <2>0, <2>11, <3>1, <3>2, <3>3 DEF Accounted
    <3> QED
      BY <2>9, <2>10, <3>1, <3>4
  <2>6. CASE WriteIndex(w)
    <3>1. pc[w] = "files" /\ pc'[w] = "unlink" /\ Publishes(w, r)'
      BY <2>0, <2>1, <2>2, <2>6 DEF WriteIndex, Step, Publishes
    <3>2. index'[r] = target[w][r] /\ files' = files /\ target' = target /\ at' = at
      BY <2>0, <2>1, <2>2, <2>6 DEF WriteIndex
    <3>3. \A p \in Path : files[r][p] # 0 => index[r][p] # 0 \/ target[w][r][p] # 0
      BY <2>0, <2>11, <3>1 DEF Accounted
    <3>4. ASSUME NEW p \in Path, files[r][p] # 0, p[2] \in IdsOf(target[w][r])
          PROVE  target[w][r][p] # 0
      <4>1. PICK q \in Path : q[2] = p[2] /\ target[w][r][q] # 0
        BY <3>4 DEF IdsOf, Present
      <4>2. index[r][p] # 0 => p = q
        BY <2>0, <3>1, <4>1 DEF Moving
      <4> QED
        BY <3>3, <3>4, <4>1, <4>2
    <3>5. \A s \in Scopes : Accounted(w, s)'
      BY <2>0, <3>1, <3>2, <3>4 DEF Accounted
    <3> QED
      BY <2>9, <2>10, <3>1, <3>5
  <2>7. CASE Unlink(w)
    <3>1. pc'[w] = "unlink" /\ pc[w] = "unlink" /\ Publishes(w, r)'
          /\ index' = index /\ target' = target /\ at' = at
      BY <2>0, <2>1, <2>7 DEF Unlink, work, Publishes
    <3>2. PICK q \in Path : files' = [files EXCEPT ![r][q] = 0]
      BY <2>0, <2>7 DEF Unlink, Removed, Present
    <3>3. \A p \in Path : files'[r][p] = files[r][p] \/ files'[r][p] = 0
      <4>1. files[r] \in [Path -> {0} \cup Versions]
        BY <2>2 DEF Stores
      <4>2. files'[r] = [files[r] EXCEPT ![q] = 0]
        BY <2>2, <3>2
      <4> QED
        BY <4>1, <4>2
    <3>4. \A s \in Scopes : Accounted(w, s)'
      BY <2>0, <2>11, <3>1, <3>3 DEF Accounted
    <3> QED
      BY <2>9, <2>10, <3>1, <3>4
  <2>8. CASE Published(w)
    <3>1. pc[w] = "unlink" /\ Removed(w, r) = {} /\ files' = files /\ index' = index
      BY <2>0, <2>8 DEF Published, store
    <3>2. /\ target[w][r] = index[r]
          /\ \A p \in Path : index[r][p] # 0 => files[r][p] = index[r][p]
      BY <2>0, <2>11, <3>1 DEF Listed
    <3>3. \A p \in Path : files[r][p] # 0 => p[2] \in IdsOf(index[r])
      BY <3>1, <3>2 DEF Removed, Present
    <3>4. \A p \in Path : files[r][p] # 0 => index[r][p] # 0
      BY <2>0, <2>11, <3>1, <3>3 DEF Accounted
    <3>5. \A p \in Path : files[r][p] = index[r][p]
      BY <3>2, <3>4
    <3>6. files[r] = index[r]
      BY <2>2, <3>5 DEF Stores
    <3>7. pc'[w] # "unlink"
      BY <2>2, <2>8 DEF Published
    <3>8. \A s \in Scopes : Accounted(w, s)'
      <4>1. CASE at[w] = 1
        <5>1. pc'[w] = "files" /\ at'[w] = 2
          BY <2>8, <4>1 DEF Published, Control, WorkTypes
        <5>2. r = "user" /\ PublishOrder[at'[w]] = "project"
          BY <2>0, <4>1, <5>1, ScopesAre
        <5>3. files'["project"] = index'["project"]
          BY <2>4, <5>2, ScopesAre
        <5> QED
          BY <5>1, <5>2, <5>3 DEF Accounted
      <4>2. CASE at[w] # 1
        <5>1. pc'[w] \in {"check", "report"}
          BY <2>2, <2>8, <4>2 DEF Published
        <5> QED
          BY <5>1 DEF Accounted
      <4> QED
        BY <4>1, <4>2
    <3> QED
      BY <2>9, <3>1, <3>6, <3>8
  <2> QED
    BY <1>4, <2>5, <2>6, <2>7, <2>8
<1> QED
  BY <1>0, <1>2, <1>3, <1>4

LEMMA AlwaysClean == Spec /\ []~Moving => []CleanInv
<1>1. Init => CleanInv
  BY DEF Init, CleanInv, Accounted
<1>2. Control /\ faults \in Nat /\ StrayInv /\ ~Moving /\ CleanInv /\ [Next]_vars => CleanInv'
  <2> SUFFICES ASSUME Control, faults \in Nat, StrayInv, ~Moving, CleanInv, [Next]_vars,
                      faults' = 0
               PROVE  CleanInv'
    BY DEF CleanInv
  <2>1. ASSUME NEW w \in Worker, Acts(w) PROVE CleanInv'
    BY <2>1, CleanStep
  <2>2. CASE \A w \in Worker : ~Acts(w)
    <3>1. UNCHANGED <<store, work, writer, claim, faults>>
      BY <2>2, NoWorkerActs
    <3> QED
      BY <3>1 DEF store, work, CleanInv, Unpublished, Publishes, Accounted
  <2> QED
    BY <2>1, <2>2
<1> QED
  BY <1>1, <1>2, AlwaysControl, FaultsCount, AlwaysStrays, PTL DEF Spec

\* As long as no publication changes the category of a memory, and no worker
\* fails or dies, a store that nobody has locked can be loaded, whatever the
\* workers of several sessions do at once (apply_actions, publish, load).
THEOREM QuietStoresLoad == Spec /\ []~Moving => []ReadableWhenQuiet
<1>1. Control /\ IdInv /\ CleanInv => ReadableWhenQuiet
  BY QuietIsUnpublished DEF ReadableWhenQuiet, CleanInv, IdInv, Loads, Distinct
<1> QED
  BY <1>1, AlwaysControl, AlwaysIds, AlwaysClean, PTL

-----------------------------------------------------------------------------
(* What the agent sees.                                                      *)

LEMMA BoardStep ==
  ASSUME Control, [Next]_vars
  PROVE  [Board!Next]_<<index, snapshot>>
<1>1. ASSUME NEW w \in Worker, Acts(w) PROVE [Board!Next]_<<index, snapshot>>
  <2>1. snapshot' = snapshot
    BY <1>1 DEF Acts, WorkerStep, Spawn, Extract, Lock, Apply, WriteFile, WriteIndex, Unlink,
         Published, Check, Claim, Stage, Report, Fail, Die, Raise, Drop, reading
  <2>2. CASE WriteIndex(w)
    <3>1. PICK s \in Scopes : s = PublishOrder[at[w]]
      BY ScopesAre DEF Control, WorkTypes
    <3>2. target[w][s] \in Stores
      BY DEF Control, WorkTypes
    <3>3. index' = [index EXCEPT ![s] = target[w][s]]
      BY <2>2, <3>1 DEF WriteIndex
    <3> QED
      BY <2>1, <3>2, <3>3 DEF Board!Next, Board!Publish
  <2>3. CASE ~WriteIndex(w)
    <3>1. index' = index
      BY <1>1, <2>3 DEF Acts, WorkerStep, Spawn, Extract, Lock, Apply, WriteFile, Unlink,
         Published, Check, Claim, Stage, Report, Fail, Die, Raise, Drop, store
    <3> QED
      BY <2>1, <3>1
  <2> QED
    BY <2>2, <2>3
<1>2. CASE RefreshEnd
  <2>1. index' = index
    BY <1>2 DEF RefreshEnd, store
  <2>2. CASE Loads("project")
    <3>1. snapshot' = [s \in Scopes |-> IF s = "user" THEN loaded ELSE index[s]]
      BY <1>2, <2>2 DEF RefreshEnd
    <3>2. loaded = index["user"]
      BY <1>2 DEF RefreshEnd, Read, Control, ReadInv
    <3>3. \A s \in Scopes : (IF s = "user" THEN loaded ELSE index[s]) = index[s]
      BY <3>2
    <3>4. snapshot' = [s \in Scopes |-> index[s]]
      BY <3>1, <3>3
    <3>5. snapshot' = index
      BY <3>4 DEF Control, StoreTypes
    <3> QED
      BY <2>1, <3>5 DEF Board!Next, Board!Refresh
  <2>3. CASE ~Loads("project")
    BY <1>2, <2>1, <2>3 DEF RefreshEnd
  <2> QED
    BY <2>2, <2>3
<1>3. CASE RefreshLock \/ RefreshLoad \/ WeekPasses \/ UNCHANGED vars
  BY <1>3 DEF RefreshLock, RefreshLoad, WeekPasses, vars, store, reading
<1> QED
  BY <1>1, <1>2, <1>3 DEF Next, Acts, Refresh

\* Every step of the workers, their failures and deaths, and the refresh
\* implements MemoryBoard: a scope changes at once, and what the agent sees is
\* both scopes as they were at one moment (memory_read_locks, refresh).
THEOREM MemoryImplementsBoard == Spec => ImplementsBoard
<1>1. Init => Board!Init
  BY EmptyIs DEF Init, Board!Init
<1>2. Control /\ [Next]_vars => [Board!Next]_<<index, snapshot>>
  BY BoardStep
<1>3. Spec => Board!Init /\ [][Board!Next]_<<index, snapshot>>
  BY <1>1, <1>2, AlwaysControl, PTL DEF Spec
<1> QED
  BY <1>3, PTL DEF ImplementsBoard, Board!Spec, Board!boardVars
=============================================================================
