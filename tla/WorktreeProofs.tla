--------------------------- MODULE WorktreeProofs ---------------------------
(***************************************************************************)
(* What persistent worktrees guarantee for any number of worktrees, failures, *)
(* crashes and users: a task gets a checkout, work is known to the manager or  *)
(* to its file, and the steps of the manager are steps of WorktreeKeeper.      *)
(***************************************************************************)
EXTENDS Worktree, TLAPS

-----------------------------------------------------------------------------
(* Sessions and what is saved of them.                                       *)

Typed(ss) == DOMAIN ss \subseteq Ids /\ ss \in [DOMAIN ss -> Sessions]

LEMMA WithTyped ==
  ASSUME NEW ss, Typed(ss), NEW w \in Ids, NEW s \in Sessions
  PROVE  Typed(With(ss, w, s)) /\ DOMAIN With(ss, w, s) = DOMAIN ss \cup {w}
BY DEF Typed, With

LEMMA WithoutTyped ==
  ASSUME NEW ss, Typed(ss), NEW w
  PROVE  Typed(Without(ss, w)) /\ DOMAIN Without(ss, w) = DOMAIN ss \ {w}
         /\ \A x \in DOMAIN ss \ {w} : Without(ss, w)[x] = ss[x]
BY DEF Typed, Without, Restrict

\* One session gets another status, or another mark.
LEMMA StatusTyped ==
  ASSUME NEW ss, Typed(ss), NEW w \in DOMAIN ss, NEW status \in Statuses
  PROVE  /\ Typed([ss EXCEPT ![w].status = status])
         /\ DOMAIN [ss EXCEPT ![w].status = status] = DOMAIN ss
         /\ [ss EXCEPT ![w].status = status][w].status = status
         /\ \A x \in DOMAIN ss \ {w} : [ss EXCEPT ![w].status = status][x] = ss[x]
BY DEF Typed, Sessions

LEMMA ErrorTyped ==
  ASSUME NEW ss, Typed(ss), NEW w \in DOMAIN ss
  PROVE  /\ Typed([ss EXCEPT ![w].error = TRUE])
         /\ DOMAIN [ss EXCEPT ![w].error = TRUE] = DOMAIN ss
         /\ \A x \in DOMAIN ss : [ss EXCEPT ![w].error = TRUE][x].status = ss[x].status
BY DEF Typed, Sessions

LEMMA InjectedTyped ==
  ASSUME NEW ss, Typed(ss), NEW w \in DOMAIN ss, NEW b \in BOOLEAN
  PROVE  /\ Typed([ss EXCEPT ![w].injected = b])
         /\ DOMAIN [ss EXCEPT ![w].injected = b] = DOMAIN ss
         /\ \A x \in DOMAIN ss : [ss EXCEPT ![w].injected = b][x].status = ss[x].status
BY DEF Typed, Sessions

LEMMA ActivatedTyped ==
  ASSUME Typed(sessions), op.id \in DOMAIN sessions
  PROVE  /\ Typed(Activated) /\ DOMAIN Activated = DOMAIN sessions
         /\ Activated[op.id].status = "active"
         /\ \A x \in DOMAIN sessions \ {op.id} : Activated[x] = sessions[x]
BY DEF Typed, Activated, Sessions, Statuses

LEMMA IdledTyped ==
  ASSUME NEW ss, Typed(ss)
  PROVE  Typed(Idled(ss)) /\ DOMAIN Idled(ss) = DOMAIN ss
BY DEF Typed, Idled, Sessions, Statuses

LEMMA LoadTyped ==
  ASSUME NEW f, DOMAIN f \subseteq Ids, f \in [DOMAIN f -> Records], NEW failed
  PROVE  /\ Typed(Load(f, failed)) /\ DOMAIN Load(f, failed) = DOMAIN f
         /\ \A w \in DOMAIN f : Load(f, failed)[w].status = "idle"
BY DEF Typed, Load, Sessions, Records, Statuses

\* What is saved is a state file that can be read.
LEMMA RecordedTyped ==
  ASSUME NEW ss, Typed(ss)
  PROVE  /\ Recorded(ss) \in [DOMAIN ss -> Records] /\ DOMAIN Recorded(ss) = DOMAIN ss
         /\ Recorded(ss) # Corrupt
BY WorktreeAssumption DEF Typed, Recorded, Records, Sessions, Statuses

\* What TypeOK says of the operation that runs.
LEMMA OpFacts ==
  ASSUME TypeOK
  PROVE  /\ Typed(sessions) /\ git \in [Ids -> Checkouts] /\ inside \in [Ids -> Contents]
         /\ op \in Ops /\ op.id \in Ids \cup {None}
         /\ op # NoOp => op.id \in Ids /\ op.id \in DOMAIN sessions /\ ~Active(op.id)
         /\ op = NoOp <=> op.kind = "none"
<1>1. op \in Ops /\ (op # NoOp => op.id \in DOMAIN sessions /\ ~Active(op.id))
  BY DEF TypeOK, OpOK
<1>2. Typed(sessions) /\ git \in [Ids -> Checkouts] /\ inside \in [Ids -> Contents]
  BY DEF TypeOK, SessionsOK, DiskOK, Typed
<1>3. op.id \in Ids \cup {None} /\ (op = NoOp <=> op.kind = "none") /\ (op # NoOp => op.id \in Ids)
  <2>1. CASE op = NoOp
    BY <2>1 DEF NoOp, Op
  <2>2. CASE op # NoOp
    BY <1>1, <2>2 DEF Ops
  <2> QED
    BY <2>1, <2>2
<1> QED
  BY <1>1, <1>2, <1>3

LEMMA AtFacts ==
  ASSUME NEW kind \in {"enter", "rollback", "remove"}, NEW step, At(kind, step), TypeOK
  PROVE  up /\ op # NoOp /\ op.id \in Ids /\ op.id \in DOMAIN sessions /\ ~Active(op.id)
         /\ op.kind = kind /\ op.step = step
BY OpFacts DEF At

\* Files that are saved are typed, and an operation saves nothing but sessions.
LEMMA PersistTyped ==
  ASSUME NEW ss, Typed(ss), Persist(ss) \/ UNCHANGED file, FileOK
  PROVE  FileOK'
BY RecordedTyped DEF Persist, FileOK, Typed

LEMMA StoreStep == TypeOK /\ [Next]_vars => SessionsOK' /\ FileOK'
<1> SUFFICES ASSUME TypeOK, [Next]_vars PROVE Typed(sessions') /\ FileOK'
  BY DEF Typed, SessionsOK
<1>0. Typed(sessions) /\ FileOK
  BY OpFacts DEF TypeOK
<1>1. ASSUME UNCHANGED <<sessions, file>> PROVE Typed(sessions') /\ FileOK'
  BY <1>0, <1>1 DEF Typed, FileOK
<1>2. ASSUME NEW w \in Ids, EnterNew(w) PROVE Typed(sessions') /\ FileOK'
  <2>1. NewSession \in Sessions
    BY DEF NewSession, Sessions, Statuses
  <2> QED
    BY <1>0, <1>2, <2>1, WithTyped DEF EnterNew, FileOK
<1>3. CASE PersistCreating
  BY <1>0, <1>3, PersistTyped DEF PersistCreating, PersistFails
<1>4. CASE ConfigureHooks
  BY <1>0, <1>4, AtFacts, StatusTyped DEF ConfigureHooks, FileOK, Statuses
<1>5. CASE Forget
  BY <1>0, <1>5, WithoutTyped, PersistTyped DEF Forget, MayPersist, PersistFails
<1>6. CASE Reconcile
  <2>1. op.id \in DOMAIN sessions /\ file' = file
    BY <1>6, AtFacts DEF Reconcile
  <2>2. sessions' = sessions \/ \E b \in BOOLEAN : sessions' = [sessions EXCEPT ![op.id].injected = b]
    BY <1>6 DEF Reconcile
  <2>3. ASSUME NEW b \in BOOLEAN PROVE Typed([sessions EXCEPT ![op.id].injected = b])
    BY <1>0, <2>1, InjectedTyped
  <2> QED
    BY <1>0, <2>1, <2>2, <2>3 DEF FileOK
<1>7. CASE ReconcileFails
  <2>1. op.id \in DOMAIN sessions /\ (Persist(sessions') \/ UNCHANGED file)
    BY <1>7, AtFacts DEF ReconcileFails
  <2>2. sessions' = [sessions EXCEPT ![op.id].status = "idle"]
    BY <1>7 DEF ReconcileFails
  <2>3. Typed(sessions')
    BY <1>0, <2>1, <2>2, StatusTyped DEF Statuses
  <2> QED
    BY <1>0, <2>1, <2>3, PersistTyped
<1>8. CASE Activate
  <2>1. op.id \in DOMAIN sessions
    BY <1>8, AtFacts DEF Activate
  <2>2. Typed(Activated) /\ Typed([Activated EXCEPT ![op.id].status = "idle"])
    BY <1>0, <2>1, ActivatedTyped, StatusTyped DEF Statuses
  <2> QED
    BY <1>0, <1>8, <2>2, PersistTyped DEF Activate
<1>9. ASSUME NEW w \in Ids, Leave(w) PROVE Typed(sessions') /\ FileOK'
  <2>1. w \in DOMAIN sessions /\ sessions' = [sessions EXCEPT ![w].status = "idle"]
    BY <1>9 DEF Leave, Active
  <2>2. Persist(sessions') \/ UNCHANGED file
    BY <1>9 DEF Leave, MayPersist, PersistFails
  <2>3. Typed(sessions')
    BY <1>0, <2>1, StatusTyped DEF Statuses
  <2> QED
    BY <1>0, <2>2, <2>3, PersistTyped
<1>10. CASE RemoveBranch
  <2>1. op.id \in DOMAIN sessions
    BY <1>10, AtFacts DEF RemoveBranch
  <2>2. \/ sessions' = Without(sessions, op.id) /\ (Persist(sessions') \/ UNCHANGED file)
        \/ sessions' = [sessions EXCEPT ![op.id].error = TRUE] /\ UNCHANGED file
    BY <1>10 DEF RemoveBranch, PersistFails
  <2>3. Typed(Without(sessions, op.id)) /\ Typed([sessions EXCEPT ![op.id].error = TRUE])
    BY <1>0, <2>1, WithoutTyped, ErrorTyped
  <2> QED
    BY <1>0, <2>2, <2>3, PersistTyped
<1>11. CASE RemoveBranchFails
  BY <1>0, <1>11, AtFacts, ErrorTyped, PersistTyped DEF RemoveBranchFails
<1>12. CASE Interrupt
  <2>1. op.id \in DOMAIN sessions
    BY <1>12, OpFacts DEF Interrupt
  <2>2. Typed(Activated)
    BY <1>0, <2>1, ActivatedTyped
  <2> QED
    BY <1>0, <1>1, <1>12, <2>2, PersistTyped DEF Interrupt
<1>13. ASSUME Crash \/ Close PROVE Typed(sessions') /\ FileOK'
  <2>1. Typed(<<>>)
    BY DEF Typed
  <2> QED
    BY <1>0, <1>13, <2>1, IdledTyped, PersistTyped
       DEF Crash, Close, Down, MayPersist, PersistFails
<1>14. CASE Start
  BY <1>0, <1>1, <1>14, LoadTyped, PersistTyped DEF Start, Readable, FileOK
<1>15. CASE SpoilFile
  BY <1>0, <1>15 DEF SpoilFile, FileOK
<1>16. ASSUME \/ \E w \in Ids : EnterKnown(w) \/ StartRemove(w) \/ Work(w) \/ Commit(w) \/ Prune(w)
              \/ CreateBranch \/ Register \/ Fill \/ AddFails \/ Unregister \/ DeleteBranch
              \/ RollbackStops \/ RemoveCheckout \/ RemoveCheckoutFails \/ UNCHANGED vars
       PROVE  UNCHANGED <<sessions, file>>
  BY <1>16 DEF EnterKnown, StartRemove, Work, Commit, Prune, CreateBranch, Register, Fill,
               AddFails, Unregister, DeleteBranch, RollbackStops, RemoveCheckout,
               RemoveCheckoutFails, vars
<1> QED
  BY <1>1, <1>2, <1>3, <1>4, <1>5, <1>6, <1>7, <1>8, <1>9, <1>10, <1>11, <1>12, <1>13,
     <1>14, <1>15, <1>16 DEF Next, Enter, Rollback, Remove

-----------------------------------------------------------------------------
(* What the Git commands of an operation change: its own worktree, and there   *)
(* the fields that they name.                                                  *)

Apart(w) ==
  git' \in [Ids -> Checkouts] /\ \A x \in Ids \ {w} : git'[x] = git[x]

LEMMA AddSteps ==
  ASSUME TypeOK, op.id \in Ids
  PROVE  /\ CreateBranch => Apart(op.id) /\ git'[op.id].branch = "base"
                            /\ git'[op.id].dir = git[op.id].dir
         /\ Register => Apart(op.id) /\ git'[op.id].branch = git[op.id].branch
                        /\ git'[op.id].dir = "partial" /\ git'[op.id].registered
         /\ Fill => Apart(op.id) /\ git'[op.id].branch = git[op.id].branch
                    /\ git'[op.id].dir = "full" /\ git'[op.id].registered = git[op.id].registered
         /\ ConfigureHooks =>
              Apart(op.id) /\ git'[op.id].branch = git[op.id].branch
              /\ git'[op.id].dir = git[op.id].dir /\ git'[op.id].registered = git[op.id].registered
<1>1. git \in [Ids -> Checkouts] /\ git[op.id] \in Checkouts
  BY OpFacts
<1>2. ASSUME CreateBranch
      PROVE  Apart(op.id) /\ git'[op.id].branch = "base" /\ git'[op.id].dir = git[op.id].dir
  BY <1>1, <1>2 DEF CreateBranch, Apart, Checkouts
<1>3. ASSUME Register
      PROVE  Apart(op.id) /\ git'[op.id].branch = git[op.id].branch
             /\ git'[op.id].dir = "partial" /\ git'[op.id].registered
  BY <1>1, <1>3 DEF Register, Apart, Checkouts
<1>4. ASSUME Fill
      PROVE  Apart(op.id) /\ git'[op.id].branch = git[op.id].branch
             /\ git'[op.id].dir = "full" /\ git'[op.id].registered = git[op.id].registered
  BY <1>1, <1>4 DEF Fill, Apart, Checkouts
<1>5. ASSUME ConfigureHooks
      PROVE  Apart(op.id) /\ git'[op.id].branch = git[op.id].branch
             /\ git'[op.id].dir = git[op.id].dir /\ git'[op.id].registered = git[op.id].registered
  BY <1>1, <1>5 DEF ConfigureHooks, Apart, Checkouts
<1> QED
  BY <1>2, <1>3, <1>4, <1>5

LEMMA FallbackSteps ==
  ASSUME TypeOK, op.id \in Ids, AddFails \/ Unregister \/ DeleteBranch \/ Forget
  PROVE  /\ Apart(op.id)
         /\ git'[op.id].branch \in {"none", git[op.id].branch}
         /\ git'[op.id].dir \in {"none", git[op.id].dir}
<1>1. git \in [Ids -> Checkouts] /\ git[op.id] \in Checkouts
  BY OpFacts
<1>2. CASE AddFails
  <2> DEFINE g == [git[op.id] EXCEPT !.registered = FALSE, !.dir = "none"]
  <2>1. git' = git \/ git' = [git EXCEPT ![op.id] = g]
    BY <1>1, <1>2 DEF AddFails
  <2>2. g \in Checkouts /\ g.branch = git[op.id].branch /\ g.dir = "none"
    BY <1>1 DEF Checkouts
  <2> HIDE DEF g
  <2> QED
    BY <1>1, <2>1, <2>2 DEF Apart
<1>3. CASE Unregister
  <2> DEFINE g == [git[op.id] EXCEPT !.registered = FALSE, !.dir = "none", !.hooks = FALSE]
  <2>1. git' = git \/ git' = [git EXCEPT ![op.id] = g]
    BY <1>1, <1>3 DEF Unregister
  <2>2. g \in Checkouts /\ g.branch = git[op.id].branch /\ g.dir = "none"
    BY <1>1 DEF Checkouts
  <2> HIDE DEF g
  <2> QED
    BY <1>1, <2>1, <2>2 DEF Apart
<1>4. CASE DeleteBranch
  BY <1>1, <1>4 DEF DeleteBranch, Apart, Checkouts
<1>5. CASE Forget
  BY <1>1, <1>5 DEF Forget, Apart, Checkouts
<1> QED
  BY <1>2, <1>3, <1>4, <1>5

LEMMA RemovalSteps ==
  ASSUME TypeOK, op.id \in Ids
  PROVE  /\ RemoveCheckout => Apart(op.id) /\ git'[op.id].branch = git[op.id].branch
                              /\ git'[op.id].dir = "none"
         /\ RemoveCheckoutFails => Apart(op.id) /\ git'[op.id].branch = git[op.id].branch
         /\ RemoveBranch => Apart(op.id) /\ git'[op.id].branch = "none"
                            /\ git'[op.id].dir = git[op.id].dir
<1>1. git \in [Ids -> Checkouts] /\ git[op.id] \in Checkouts
  BY OpFacts
<1>2. ASSUME RemoveCheckout
      PROVE  Apart(op.id) /\ git'[op.id].branch = git[op.id].branch /\ git'[op.id].dir = "none"
  BY <1>1, <1>2 DEF RemoveCheckout, Apart, Checkouts
<1>3. ASSUME RemoveCheckoutFails
      PROVE  Apart(op.id) /\ git'[op.id].branch = git[op.id].branch
  <2>1. git' = git \/ \E rest \in {"partial", "none"} : git' = [git EXCEPT ![op.id].dir = rest]
    BY <1>3 DEF RemoveCheckoutFails
  <2> QED
    BY <1>1, <2>1 DEF Apart, Checkouts
<1>4. ASSUME RemoveBranch
      PROVE  Apart(op.id) /\ git'[op.id].branch = "none" /\ git'[op.id].dir = git[op.id].dir
  BY <1>1, <1>4 DEF RemoveBranch, Apart, Checkouts
<1> QED
  BY <1>2, <1>3, <1>4

LEMMA OutsideSteps ==
  ASSUME TypeOK, NEW w \in Ids
  PROVE  /\ Commit(w) => Apart(w) /\ git[w].dir # "none" /\ git[w].registered
                         /\ git'[w].branch = "ahead" /\ git'[w].dir = git[w].dir
                         /\ git'[w].registered = git[w].registered
         /\ Prune(w) => Apart(w) /\ git'[w].branch = git[w].branch /\ git'[w].dir = "none"
<1>1. git \in [Ids -> Checkouts] /\ git[w] \in Checkouts
  BY OpFacts
<1>2. ASSUME Commit(w)
      PROVE  Apart(w) /\ git[w].dir # "none" /\ git[w].registered /\ git'[w].branch = "ahead"
             /\ git'[w].dir = git[w].dir /\ git'[w].registered = git[w].registered
  BY <1>1, <1>2 DEF Commit, Apart, Checkouts
<1>3. ASSUME Prune(w)
      PROVE  Apart(w) /\ git'[w].branch = git[w].branch /\ git'[w].dir = "none"
  <2>1. PICK left \in BOOLEAN :
          git' = [git EXCEPT ![w] = [@ EXCEPT !.dir = "none", !.hooks = FALSE,
                                              !.registered = left /\ @]]
    BY <1>3 DEF Prune
  <2>2. (left /\ git[w].registered) \in BOOLEAN
    OBVIOUS
  <2> QED
    BY <1>1, <2>1, <2>2 DEF Apart, Checkouts
<1> QED
  BY <1>2, <1>3

\* Dependencies are put in and taken out without touching what somebody else
\* put there.
InsideApart(w) ==
  inside' \in [Ids -> Contents] /\ \A x \in Ids \ {w} : inside'[x] = inside[x]

LEMMA DependencySteps ==
  ASSUME TypeOK, op.id \in Ids, Reconcile \/ ReconcileFails
  PROVE  /\ InsideApart(op.id) /\ inside'[op.id].files = inside[op.id].files
         /\ \/ inside'[op.id] = inside[op.id]
            \/ /\ inside[op.id].dependency # "foreign"
               /\ inside'[op.id].dependency \in {"absent", "ours"}
<1>1. inside \in [Ids -> Contents] /\ inside[op.id] \in Contents
  BY OpFacts
<1>2. \/ inside' = inside
      \/ \E d \in {"absent", "ours"} :
           inside' = [inside EXCEPT ![op.id].dependency = d] /\ inside[op.id].dependency # "foreign"
  <2>1. CASE Reconcile
    <3>1. Matches(op.id) => inside[op.id].dependency = "ours"
      BY DEF Matches
    <3>2. \/ inside' = [inside EXCEPT ![op.id].dependency = "absent"] /\ Matches(op.id)
          \/ /\ inside' = [inside EXCEPT ![op.id].dependency = "ours"]
             /\ Matches(op.id) \/ inside[op.id].dependency = "absent"
          \/ inside' = inside
      BY <2>1 DEF Reconcile
    <3> QED
      BY <3>1, <3>2
  <2>2. CASE ReconcileFails
    <3>1. Matches(op.id) => inside[op.id].dependency = "ours"
      BY DEF Matches
    <3>2. \/ inside' = [inside EXCEPT ![op.id].dependency = "absent"] /\ Matches(op.id)
          \/ inside' = inside
      BY <2>2 DEF ReconcileFails
    <3> QED
      BY <3>1, <3>2
  <2> QED
    BY <2>1, <2>2
<1>3. CASE inside' = inside
  BY <1>1, <1>3 DEF InsideApart
<1>4. ASSUME NEW d \in {"absent", "ours"}, inside' = [inside EXCEPT ![op.id].dependency = d],
             inside[op.id].dependency # "foreign"
      PROVE  /\ InsideApart(op.id) /\ inside'[op.id].files = inside[op.id].files
             /\ inside'[op.id].dependency \in {"absent", "ours"}
  BY <1>1, <1>4 DEF InsideApart, Contents
<1> QED
  BY <1>2, <1>3, <1>4

LEMMA EmptyingSteps ==
  ASSUME TypeOK
  PROVE  /\ Empty \in Contents
         /\ op.id \in Ids /\ RemoveCheckout => InsideApart(op.id) /\ inside'[op.id] = Empty
         /\ op.id \in Ids /\ RemoveCheckoutFails =>
              /\ InsideApart(op.id)
              /\ inside'[op.id] = Empty \/ (inside' = inside /\ git' = git)
         /\ \A w \in Ids : Prune(w) =>
              /\ InsideApart(w) /\ inside'[w] = Empty /\ op.id # w /\ ~Active(w)
              /\ ~inside[w].files /\ inside[w].dependency # "foreign"
<1>1. inside \in [Ids -> Contents] /\ Empty \in Contents
  BY OpFacts DEF Empty, Contents
<1>2. ASSUME NEW w \in Ids, inside' = [inside EXCEPT ![w] = Empty]
      PROVE  InsideApart(w) /\ inside'[w] = Empty
  BY <1>1, <1>2 DEF InsideApart
<1>3. ASSUME NEW w \in Ids, inside' = inside PROVE InsideApart(w)
  BY <1>1, <1>3 DEF InsideApart
<1> QED
  BY <1>1, <1>2, <1>3 DEF RemoveCheckout, RemoveCheckoutFails, Prune, Outside

LEMMA WorkStep ==
  ASSUME TypeOK, NEW w \in Ids, Work(w)
  PROVE  /\ InsideApart(w) /\ git[w].dir # "none" /\ op.id # w
         /\ w \in DOMAIN file /\ Readable(file)
         /\ \/ /\ inside'[w].files /\ inside'[w].dependency = inside[w].dependency
            \/ /\ inside'[w].files = inside[w].files /\ inside'[w].dependency = "foreign"
<1>1. inside \in [Ids -> Contents] /\ inside[w] \in Contents
  BY OpFacts
<1>2. CASE inside' = [inside EXCEPT ![w].files = TRUE]
  BY <1>1, <1>2 DEF Work, Outside, InsideApart, Contents
<1>3. CASE inside' = [inside EXCEPT ![w].dependency = "foreign"]
  BY <1>1, <1>3 DEF Work, Outside, InsideApart, Contents
<1> QED
  BY <1>2, <1>3 DEF Work

-----------------------------------------------------------------------------
(* The steps that change nothing on the disk.                                *)

Quiet ==
  \/ \E w \in Ids : EnterNew(w) \/ EnterKnown(w) \/ StartRemove(w) \/ Leave(w)
  \/ PersistCreating \/ Activate \/ RollbackStops \/ RemoveBranchFails
  \/ Interrupt \/ Crash \/ Close \/ Start \/ SpoilFile \/ UNCHANGED vars

LEMMA QuietDisk == Quiet => UNCHANGED <<git, inside>>
BY DEF Quiet, EnterNew, EnterKnown, StartRemove, Leave, PersistCreating, Activate,
       RollbackStops, RemoveBranchFails, Interrupt, Crash, Close, Down, Start, SpoilFile, vars

LEMMA OperationOwns ==
  ASSUME TypeOK,
         \/ CreateBranch \/ Register \/ Fill \/ ConfigureHooks \/ AddFails
         \/ Unregister \/ DeleteBranch \/ Forget \/ Reconcile \/ ReconcileFails
         \/ RemoveCheckout \/ RemoveCheckoutFails \/ RemoveBranch
  PROVE  op.id \in Ids /\ op # NoOp /\ up /\ op.id \in DOMAIN sessions /\ ~Active(op.id)
<1>1. up /\ op.kind # "none"
  BY DEF CreateBranch, Register, Fill, ConfigureHooks, AddFails, Unregister, DeleteBranch,
         Forget, Reconcile, ReconcileFails, RemoveCheckout, RemoveCheckoutFails,
         RemoveBranch, At
<1> QED
  BY <1>1, OpFacts

LEMMA DiskStep == TypeOK /\ [Next]_vars => DiskOK'
<1> SUFFICES ASSUME TypeOK, [Next]_vars PROVE DiskOK'
  OBVIOUS
<1>0. git \in [Ids -> Checkouts] /\ inside \in [Ids -> Contents]
  BY OpFacts
<1>1. CASE Quiet
  BY <1>0, <1>1, QuietDisk DEF DiskOK
<1>2. ASSUME CreateBranch \/ Register \/ Fill \/ ConfigureHooks PROVE DiskOK'
  BY <1>0, <1>2, OperationOwns, AddSteps
     DEF DiskOK, Apart, CreateBranch, Register, Fill, ConfigureHooks
<1>3. ASSUME AddFails \/ Unregister \/ DeleteBranch \/ Forget PROVE DiskOK'
  <2>1. inside' = inside
    BY <1>3 DEF AddFails, Unregister, DeleteBranch, Forget
  <2> QED
    BY <1>0, <1>3, <2>1, OperationOwns, FallbackSteps DEF DiskOK, Apart
<1>4. ASSUME Reconcile \/ ReconcileFails PROVE DiskOK'
  <2>1. git' = git
    BY <1>4 DEF Reconcile, ReconcileFails
  <2> QED
    BY <1>0, <1>4, <2>1, OperationOwns, DependencySteps DEF DiskOK, InsideApart
<1>5. ASSUME RemoveCheckout \/ RemoveCheckoutFails PROVE DiskOK'
  BY <1>5, OperationOwns, RemovalSteps, EmptyingSteps DEF DiskOK, Apart, InsideApart
<1>6. CASE RemoveBranch
  <2>1. inside' = inside
    BY <1>6 DEF RemoveBranch
  <2> QED
    BY <1>0, <1>6, <2>1, OperationOwns, RemovalSteps DEF DiskOK, Apart
<1>7. ASSUME NEW w \in Ids, Work(w) \/ Commit(w) \/ Prune(w) PROVE DiskOK'
  <2>1. CASE Work(w)
    <3>1. git' = git
      BY <2>1 DEF Work
    <3> QED
      BY <1>0, <2>1, <3>1, WorkStep DEF DiskOK, InsideApart
  <2>2. CASE Commit(w)
    <3>1. inside' = inside
      BY <2>2 DEF Commit
    <3> QED
      BY <1>0, <2>2, <3>1, OutsideSteps DEF DiskOK, Apart
  <2>3. CASE Prune(w)
    BY <2>3, OutsideSteps, EmptyingSteps DEF DiskOK, Apart, InsideApart
  <2> QED
    BY <1>7, <2>1, <2>2, <2>3
<1> QED
  BY <1>1, <1>2, <1>3, <1>4, <1>5, <1>6, <1>7 DEF Next, Enter, Rollback, Remove, Quiet

-----------------------------------------------------------------------------
(* The operation that holds the lock.                                        *)

StepsOf(kind) ==
  IF kind = "enter" THEN EnterSteps ELSE IF kind = "rollback" THEN RollbackSteps ELSE RemoveSteps

\* It goes on with the same worktree.
LEMMA Going ==
  ASSUME op \in Ops, NEW kind \in {"enter", "rollback", "remove"}, op.kind = kind,
         NEW step \in StepsOf(kind), Goto(step)
  PROVE  /\ op' \in Ops /\ op' # NoOp /\ op'.id = op.id /\ op'.kind = kind /\ op'.step = step
         /\ op'.fresh = op.fresh
<1>0. op # NoOp
  BY DEF NoOp, Op
<1>1. CASE kind = "enter"
  <2>1. op \in [kind : {"enter"}, id : Ids, step : EnterSteps, fresh : BOOLEAN]
    BY <1>0, <1>1 DEF Ops
  <2>2. op' \in [kind : {"enter"}, id : Ids, step : EnterSteps, fresh : BOOLEAN]
    BY <2>1, <1>1 DEF Goto, StepsOf
  <2> QED
    BY <2>1, <2>2, <1>1 DEF Ops, Goto, NoOp, Op
<1>2. CASE kind = "rollback"
  <2>1. op \in [kind : {"rollback"}, id : Ids, step : RollbackSteps, fresh : {TRUE}]
    BY <1>0, <1>2 DEF Ops
  <2>2. op' \in [kind : {"rollback"}, id : Ids, step : RollbackSteps, fresh : {TRUE}]
    BY <2>1, <1>2 DEF Goto, StepsOf
  <2> QED
    BY <2>1, <2>2, <1>2 DEF Ops, Goto, NoOp, Op
<1>3. CASE kind = "remove"
  <2>1. op \in [kind : {"remove"}, id : Ids, step : RemoveSteps, fresh : {FALSE}]
    BY <1>0, <1>3 DEF Ops
  <2>2. op' \in [kind : {"remove"}, id : Ids, step : RemoveSteps, fresh : {FALSE}]
    BY <2>1, <1>3 DEF Goto, StepsOf
  <2> QED
    BY <2>1, <2>2, <1>3 DEF Ops, Goto, NoOp, Op
<1> QED
  BY <1>1, <1>2, <1>3

LEMMA NewOp ==
  ASSUME NEW w \in Ids
  PROVE  /\ \A step \in EnterSteps, fresh \in BOOLEAN :
              Op("enter", w, step, fresh) \in Ops \ {NoOp}
         /\ Op("rollback", w, "unregister", TRUE) \in Ops \ {NoOp}
         /\ Op("remove", w, "checkout", FALSE) \in Ops \ {NoOp}
         /\ NoOp \in Ops
BY DEF Ops, Op, NoOp, EnterSteps, RollbackSteps, RemoveSteps

LEMMA OpBegins ==
  ASSUME TypeOK, up, ~stateError, up' = up, stateError' = stateError, file' = file, op' \in Ops,
         op'.id \in DOMAIN sessions', sessions'[op'.id].status # "active"
  PROVE  OpOK'
BY DEF TypeOK, OpOK, Active, Readable

\* A step of an operation either ends it, with whatever it did to the sessions,
\* or goes on and leaves the worktree it works on without a task.
LEMMA OpGoesOn ==
  ASSUME TypeOK, op # NoOp, Untouched, FileOK', file' = file \/ file' # Corrupt,
         op' \in Ops, op'.id = op.id,
         op.id \in DOMAIN sessions' /\ sessions'[op.id].status # "active"
  PROVE  OpOK'
BY DEF TypeOK, OpOK, Untouched, Active, Readable

LEMMA OpEnds ==
  ASSUME TypeOK, op # NoOp, Untouched, FileOK', file' = file \/ file' # Corrupt, op' = NoOp
  PROVE  OpOK'
BY DEF TypeOK, OpOK, Untouched, Readable, Ops

LEMMA PersistReadable ==
  ASSUME NEW ss, Typed(ss), Persist(ss)
  PROVE  file' # Corrupt
BY RecordedTyped DEF Persist

LEMMA OpStep == TypeOK /\ [Next]_vars => OpOK'
<1> SUFFICES ASSUME TypeOK, [Next]_vars PROVE OpOK'
  OBVIOUS
<1>0. Typed(sessions) /\ Typed(sessions') /\ FileOK' /\ op \in Ops
  BY StoreStep, OpFacts DEF Typed, SessionsOK
<1>1. ASSUME NEW w \in Ids, EnterNew(w) PROVE OpOK'
  <2>1. w \in DOMAIN sessions' /\ sessions'[w].status # "active"
    BY <1>1 DEF EnterNew, With, NewSession
  <2>2. op' \in Ops /\ op'.id = w
    BY <1>1, NewOp DEF EnterNew, Op, EnterSteps
  <2>3. up /\ ~stateError /\ up' = up /\ stateError' = stateError /\ file' = file
    BY <1>1 DEF EnterNew, Free
  <2> QED
    BY <2>1, <2>2, <2>3, OpBegins
<1>2. ASSUME NEW w \in Ids, EnterKnown(w) \/ StartRemove(w) PROVE OpOK'
  <2>1. w \in DOMAIN sessions /\ ~Active(w) /\ up /\ UNCHANGED <<up, stateError, sessions, file>>
    BY <1>2 DEF EnterKnown, StartRemove, Removable, Free, Untouched
  <2>2. ~stateError
    <3>1. sessions # <<>>
      BY <2>1
    <3> QED
      BY <3>1 DEF TypeOK, OpOK
  <2>3. op' \in {Op("enter", w, "deps", FALSE), Op("enter", w, "branch", FALSE),
                 Op("remove", w, "checkout", FALSE)}
    BY <1>2 DEF EnterKnown, StartRemove
  <2>4. op' \in Ops /\ op'.id = w
    <3>1. \A o \in {Op("enter", w, "deps", FALSE), Op("enter", w, "branch", FALSE),
                    Op("remove", w, "checkout", FALSE)} : o \in Ops
      BY NewOp DEF EnterSteps
    <3>2. \A kind, step, fresh : Op(kind, w, step, fresh).id = w
      BY DEF Op
    <3> QED
      BY <2>3, <3>1, <3>2
  <2>5. w \in DOMAIN sessions' /\ sessions'[w].status # "active"
    BY <2>1 DEF Active
  <2> QED
    BY <2>1, <2>2, <2>4, <2>5, OpBegins
<1>3. ASSUME NEW kind \in {"enter", "rollback", "remove"}, op.kind = kind,
             NEW step \in StepsOf(kind), Goto(step), UNCHANGED <<sessions, file>>, Untouched
      PROVE  OpOK'
  <2>1. op # NoOp /\ op.id \in DOMAIN sessions /\ ~Active(op.id)
    BY <1>3, OpFacts
  <2> QED
    BY <1>0, <1>3, <2>1, Going, OpGoesOn DEF Active
<1>4. ASSUME CreateBranch \/ Register \/ Fill PROVE OpOK'
  BY <1>3, <1>4 DEF CreateBranch, Register, Fill, At, StepsOf, EnterSteps
<1>5. ASSUME Unregister \/ DeleteBranch PROVE OpOK'
  BY <1>3, <1>5 DEF Unregister, DeleteBranch, At, StepsOf, RollbackSteps
<1>6. CASE RemoveCheckout
  BY <1>3, <1>6 DEF RemoveCheckout, At, StepsOf, RemoveSteps
<1>7. CASE PersistCreating
  <2>1. /\ op # NoOp /\ op.id \in Ids /\ op.id \in DOMAIN sessions /\ ~Active(op.id)
        /\ op.kind = "enter"
    BY <1>7, AtFacts DEF PersistCreating
  <2>2. op' \in Ops /\ op'.id = op.id
    <3>1. CASE Goto("branch")
      BY <1>0, <2>1, <3>1, Going DEF StepsOf, EnterSteps
    <3>2. CASE op' = Op("rollback", op.id, "unregister", TRUE)
      BY <2>1, <3>2, NewOp DEF Op
    <3> QED
      BY <1>7, <3>1, <3>2 DEF PersistCreating
  <2>3. file' = file \/ file' # Corrupt
    BY <1>0, <1>7, PersistReadable DEF PersistCreating, PersistFails
  <2>4. sessions' = sessions /\ Untouched
    BY <1>7 DEF PersistCreating
  <2> QED
    BY <1>0, <2>1, <2>2, <2>3, <2>4, OpGoesOn DEF Active
<1>8. CASE ConfigureHooks
  <2>1. /\ op # NoOp /\ op.id \in Ids /\ op.id \in DOMAIN sessions
        /\ op.kind = "enter"
    BY <1>8, AtFacts DEF ConfigureHooks
  <2>2. op' \in Ops /\ op'.id = op.id
    BY <1>0, <1>8, <2>1, Going DEF ConfigureHooks, StepsOf, EnterSteps
  <2>3. op.id \in DOMAIN sessions' /\ sessions'[op.id].status # "active"
    BY <1>0, <1>8, <2>1, StatusTyped DEF ConfigureHooks, Statuses
  <2>4. file' = file /\ Untouched
    BY <1>8 DEF ConfigureHooks
  <2> QED
    BY <1>0, <2>1, <2>2, <2>3, <2>4, OpGoesOn
<1>9. CASE Reconcile
  <2>1. /\ op # NoOp /\ op.id \in Ids /\ op.id \in DOMAIN sessions /\ ~Active(op.id)
        /\ op.kind = "enter"
    BY <1>9, AtFacts DEF Reconcile
  <2>2. op' \in Ops /\ op'.id = op.id
    BY <1>0, <1>9, <2>1, Going DEF Reconcile, StepsOf, EnterSteps
  <2>3. sessions' = sessions \/ \E b \in BOOLEAN : sessions' = [sessions EXCEPT ![op.id].injected = b]
    BY <1>9 DEF Reconcile
  <2>4. ASSUME NEW b \in BOOLEAN
        PROVE  /\ op.id \in DOMAIN [sessions EXCEPT ![op.id].injected = b]
               /\ [sessions EXCEPT ![op.id].injected = b][op.id].status # "active"
    BY <1>0, <2>1, InjectedTyped DEF Active
  <2>5. op.id \in DOMAIN sessions' /\ sessions'[op.id].status # "active"
    BY <2>1, <2>3, <2>4 DEF Active
  <2>6. file' = file /\ Untouched
    BY <1>9 DEF Reconcile
  <2> QED
    BY <1>0, <2>1, <2>2, <2>5, <2>6, OpGoesOn
<1>10. CASE AddFails
  <2>1. op # NoOp /\ op.id \in Ids /\ op.id \in DOMAIN sessions /\ ~Active(op.id)
    BY <1>10, OperationOwns
  <2>2. sessions' = sessions /\ file' = file /\ Untouched
    BY <1>10 DEF AddFails
  <2>3. CASE op' = NoOp
    BY <1>0, <2>1, <2>2, <2>3, OpEnds
  <2>4. CASE op' = Op("rollback", op.id, "unregister", TRUE)
    <3>1. op' \in Ops /\ op'.id = op.id
      BY <2>1, <2>4, NewOp DEF Op
    <3> QED
      BY <1>0, <2>1, <2>2, <3>1, OpGoesOn DEF Active
  <2> QED
    BY <1>10, <2>3, <2>4 DEF AddFails
<1>11. ASSUME ReconcileFails \/ RollbackStops \/ RemoveCheckoutFails \/ RemoveBranch
              \/ RemoveBranchFails \/ Activate \/ Forget \/ Interrupt
       PROVE  OpOK'
  <2>1. op # NoOp /\ op' = NoOp /\ Untouched
    BY <1>11, OpFacts
       DEF ReconcileFails, RollbackStops, RemoveCheckoutFails, RemoveBranch, Activate,
           Forget, RemoveBranchFails, At, Interrupt
  <2>2. file' = file \/ \E ss \in {sessions', Activated} : Persist(ss) /\ ss = sessions'
    BY <1>11 DEF ReconcileFails, RollbackStops, RemoveCheckoutFails, RemoveBranch, Activate,
                 Forget, MayPersist, PersistFails, RemoveBranchFails, Interrupt
  <2>3. file' = file \/ file' # Corrupt
    BY <1>0, <2>2, PersistReadable
  <2> QED
    BY <1>0, <2>1, <2>3, OpEnds
<1>12. ASSUME NEW w \in Ids, Leave(w) PROVE OpOK'
  <2>1. up /\ op = NoOp /\ w \in DOMAIN sessions /\ op' = op /\ Untouched
    BY <1>12 DEF Leave, Free, Active
  <2>2. file' = file \/ file' # Corrupt
    BY <1>0, <1>12, PersistReadable DEF Leave, MayPersist, PersistFails
  <2>3. ~stateError
    <3>1. sessions # <<>>
      BY <2>1
    <3> QED
      BY <3>1 DEF TypeOK, OpOK
  <2> QED
    BY <2>1, <2>2, <2>3 DEF TypeOK, OpOK, Untouched, Readable
<1>13. ASSUME Crash \/ Close PROVE OpOK'
  <2>1. ~up' /\ ~stateError' /\ sessions' = <<>> /\ op' = NoOp
    BY <1>13 DEF Crash, Close, Down
  <2> QED
    BY <2>1, NewOp DEF OpOK, Ops
<1>14. CASE Start
  <2>1. op = NoOp /\ op' = NoOp /\ up' /\ ~up
    BY <1>14 DEF Start, TypeOK, OpOK
  <2>2. sessions = <<>> /\ ~stateError
    BY <2>1 DEF TypeOK, OpOK
  <2>3. op' \in Ops
    BY <2>1 DEF Ops
  <2>4. CASE ~Readable(file)
    <3>1. stateError' /\ sessions' = <<>> /\ file' = file
      BY <1>14, <2>2, <2>4 DEF Start
    <3> QED
      BY <2>1, <2>3, <3>1 DEF OpOK
  <2>5. CASE Readable(file)
    <3>1. ~stateError'
      BY <1>14, <2>2, <2>5 DEF Start
    <3>2. file' # Corrupt
      BY <1>0, <1>14, <2>5, PersistReadable DEF Start, Readable
    <3> QED
      BY <2>1, <2>3, <3>1, <3>2 DEF OpOK, Readable
  <2> QED
    BY <2>4, <2>5
<1>15. CASE SpoilFile
  <2>1. ~up /\ UNCHANGED <<sessions, op>> /\ Untouched
    BY <1>15 DEF SpoilFile
  <2> QED
    BY <2>1 DEF TypeOK, OpOK, Untouched
<1>16. ASSUME (\E w \in Ids : Work(w) \/ Commit(w) \/ Prune(w)) \/ UNCHANGED vars PROVE OpOK'
  <2>1. UNCHANGED <<up, stateError, sessions, op, file>>
    BY <1>16 DEF Work, Commit, Prune, vars, Untouched
  <2> QED
    BY <2>1 DEF TypeOK, OpOK, Active
<1> QED
  BY <1>1, <1>2, <1>4, <1>5, <1>6, <1>7, <1>8, <1>9, <1>10, <1>11, <1>12, <1>13, <1>14,
     <1>15, <1>16 DEF Next, Enter, Rollback, Remove

LEMMA BoundsStep ==
  faults \in 0 .. MaxFaults /\ user \in 0 .. MaxUser /\ [Next]_vars =>
    faults' \in 0 .. MaxFaults /\ user' \in 0 .. MaxUser
<1> SUFFICES ASSUME faults \in 0 .. MaxFaults, user \in 0 .. MaxUser, [Next]_vars
             PROVE  faults' \in 0 .. MaxFaults /\ user' \in 0 .. MaxUser
  OBVIOUS
<1>1. faults' = faults \/ (CanFail /\ faults' = faults + 1)
  BY DEF Next, Enter, Rollback, Remove, EnterNew, EnterKnown, PersistCreating, CreateBranch,
         Register, Fill, ConfigureHooks, AddFails, Reconcile, ReconcileFails, Activate,
         Unregister, DeleteBranch, RollbackStops, Forget, StartRemove, RemoveCheckout,
         RemoveCheckoutFails, RemoveBranch, RemoveBranchFails, Interrupt, Crash, Close, Start,
         SpoilFile, Leave, Work, Commit, Prune, vars, Fault, MayPersist, PersistFails, Down
<1>2. user' = user \/ (user < MaxUser /\ user' = user + 1)
  BY DEF Next, Enter, Rollback, Remove, EnterNew, EnterKnown, PersistCreating, CreateBranch,
         Register, Fill, ConfigureHooks, AddFails, Reconcile, ReconcileFails, Activate,
         Unregister, DeleteBranch, RollbackStops, Forget, StartRemove, RemoveCheckout,
         RemoveCheckoutFails, RemoveBranch, RemoveBranchFails, Interrupt, Crash, Close, Start,
         SpoilFile, Leave, Work, Commit, Prune, vars, Outside, Down
<1> QED
  BY <1>1, <1>2, WorktreeAssumption DEF CanFail

LEMMA FlagsStep == FlagsOK /\ [Next]_vars => FlagsOK'
BY DEF FlagsOK, Next, Enter, Rollback, Remove, EnterNew, EnterKnown, PersistCreating,
       CreateBranch, Register, Fill, ConfigureHooks, AddFails, Reconcile, ReconcileFails,
       Activate, Unregister, DeleteBranch, RollbackStops, Forget, StartRemove,
       RemoveCheckout, RemoveCheckoutFails, RemoveBranch, RemoveBranchFails, Interrupt,
       Crash, Close, Start, SpoilFile, Leave, Work, Commit, Prune, vars, Untouched, Down,
       Configurations

LEMMA InitTypes == Init => TypeOK
<1> SUFFICES ASSUME Init PROVE TypeOK
  OBVIOUS
<1>1. SessionsOK /\ FileOK
  BY DEF Init, SessionsOK, FileOK
<1>2. DiskOK
  BY DEF Init, DiskOK, NoCheckout, Checkouts, Empty, Contents
<1>3. FlagsOK
  BY DEF Init, FlagsOK
<1>4. OpOK
  BY DEF Init, OpOK, Ops
<1>5. faults \in 0 .. MaxFaults /\ user \in 0 .. MaxUser
  BY WorktreeAssumption DEF Init
<1> QED
  BY <1>1, <1>2, <1>3, <1>4, <1>5 DEF TypeOK

LEMMA TypesStep == TypeOK /\ [Next]_vars => TypeOK'
<1> SUFFICES ASSUME TypeOK, [Next]_vars PROVE TypeOK'
  OBVIOUS
<1>1. SessionsOK' /\ FileOK' /\ DiskOK' /\ OpOK'
  BY StoreStep, DiskStep, OpStep
<1>2. FlagsOK'
  BY FlagsStep DEF TypeOK
<1>3. faults' \in 0 .. MaxFaults /\ user' \in 0 .. MaxUser
  BY BoundsStep DEF TypeOK
<1> QED
  BY <1>1, <1>2, <1>3 DEF TypeOK

\* Sessions, the state file, the disk and the operation that runs have their
\* types; an operation works on a worktree that has a session and no task, and
\* nothing is done over a state file that cannot be read.
THEOREM WorktreeTypeCorrect == Spec => []TypeOK
BY InitTypes, TypesStep, PTL DEF Spec

-----------------------------------------------------------------------------
(* The worktrees that tasks work in.                                         *)

\* A worktree gets a task by the last step of enter() alone.
Enters ==
  /\ op.kind = "enter" /\ op.step = "activate" /\ op.id \in Ids /\ ~Active(op.id)
  /\ op' = NoOp /\ Busy' = Busy \cup {op.id}
  /\ UNCHANGED <<git, inside>>

LEMMA SameStatus ==
  ASSUME DOMAIN sessions' = DOMAIN sessions,
         \A w \in DOMAIN sessions : sessions'[w].status = sessions[w].status
  PROVE  Busy' = Busy
BY DEF Busy, Active

\* What happens to the session of the operation that runs.
LEMMA OwnStatus ==
  ASSUME op.id \in DOMAIN sessions, ~Active(op.id),
         DOMAIN sessions' = DOMAIN sessions \/ DOMAIN sessions' = DOMAIN sessions \ {op.id},
         op.id \in DOMAIN sessions' => sessions'[op.id].status # "active",
         \A w \in DOMAIN sessions \ {op.id} : sessions'[w] = sessions[w]
  PROVE  Busy' = Busy
BY DEF Busy, Active

LEMMA Activation ==
  ASSUME TypeOK, op.id \in DOMAIN sessions, op.id \in Ids, sessions' = Activated
  PROVE  Busy' = Busy \cup {op.id}
<1>1. /\ DOMAIN sessions' = DOMAIN sessions /\ sessions'[op.id].status = "active"
      /\ \A x \in DOMAIN sessions \ {op.id} : sessions'[x] = sessions[x]
  BY OpFacts, ActivatedTyped
<1> QED
  BY <1>1 DEF Busy, Active

LEMMA BusyStep ==
  ASSUME TypeOK, [Next]_vars
  PROVE  \/ Busy' = Busy
         \/ Busy' \subseteq Busy /\ (Crash \/ Close \/ \E w \in Ids : Leave(w))
         \/ Enters
<1>0. Typed(sessions)
  BY OpFacts
<1>1. ASSUME NEW w \in Ids, EnterNew(w) PROVE Busy' = Busy
  <2>1. /\ w \notin DOMAIN sessions /\ DOMAIN sessions' = DOMAIN sessions \cup {w}
        /\ sessions'[w].status = "creating" /\ \A x \in DOMAIN sessions : sessions'[x] = sessions[x]
    BY <1>1 DEF EnterNew, With, NewSession
  <2> QED
    BY <2>1 DEF Busy, Active
<1>2. CASE ConfigureHooks
  <2>1. op.id \in DOMAIN sessions /\ ~Active(op.id)
    BY <1>2, OperationOwns
  <2>2. sessions' = [sessions EXCEPT ![op.id].status = "idle"]
    BY <1>2 DEF ConfigureHooks
  <2> QED
    BY <1>0, <2>1, <2>2, StatusTyped, OwnStatus DEF Statuses
<1>3. CASE ReconcileFails
  <2>1. op.id \in DOMAIN sessions /\ ~Active(op.id)
    BY <1>3, OperationOwns
  <2>2. sessions' = [sessions EXCEPT ![op.id].status = "idle"]
    BY <1>3 DEF ReconcileFails
  <2> QED
    BY <1>0, <2>1, <2>2, StatusTyped, OwnStatus DEF Statuses
<1>4. CASE Reconcile
  <2>1. op.id \in DOMAIN sessions
    BY <1>4, OperationOwns
  <2>2. sessions' = sessions \/ \E b \in BOOLEAN : sessions' = [sessions EXCEPT ![op.id].injected = b]
    BY <1>4 DEF Reconcile
  <2>3. ASSUME NEW b \in BOOLEAN, sessions' = [sessions EXCEPT ![op.id].injected = b]
        PROVE  Busy' = Busy
    BY <1>0, <2>1, <2>3, InjectedTyped, SameStatus
  <2>4. CASE sessions' = sessions
    BY <2>4 DEF Busy, Active
  <2> QED
    BY <2>2, <2>3, <2>4
<1>5. ASSUME sessions' = [sessions EXCEPT ![op.id].error = TRUE], op.id \in DOMAIN sessions
      PROVE  Busy' = Busy
  BY <1>0, <1>5, ErrorTyped, SameStatus
<1>6. ASSUME sessions' = Without(sessions, op.id), op.id \in DOMAIN sessions, ~Active(op.id)
      PROVE  Busy' = Busy
  BY <1>0, <1>6, WithoutTyped, OwnStatus
<1>7. CASE Forget
  BY <1>6, <1>7, OperationOwns DEF Forget
<1>8. CASE RemoveBranch
  BY <1>5, <1>6, <1>8, OperationOwns DEF RemoveBranch
<1>9. CASE RemoveBranchFails
  <2>1. op.id \in DOMAIN sessions
    BY <1>9, AtFacts DEF RemoveBranchFails
  <2>2. sessions' = sessions \/ sessions' = [sessions EXCEPT ![op.id].error = TRUE]
    BY <1>9 DEF RemoveBranchFails
  <2>3. CASE sessions' = sessions
    BY <2>3 DEF Busy, Active
  <2> QED
    BY <1>5, <2>1, <2>2, <2>3
<1>10. CASE Activate
  <2>1. /\ op.id \in DOMAIN sessions /\ op.id \in Ids /\ ~Active(op.id)
        /\ op.kind = "enter" /\ op.step = "activate"
    BY <1>10, AtFacts DEF Activate
  <2>2. CASE sessions' = Activated
    BY <1>10, <2>1, <2>2, Activation DEF Activate, Enters
  <2>3. CASE sessions' = [Activated EXCEPT ![op.id].status = "idle"]
    <3>1. /\ Typed(Activated) /\ DOMAIN Activated = DOMAIN sessions
          /\ \A x \in DOMAIN sessions \ {op.id} : Activated[x] = sessions[x]
      BY <1>0, <2>1, ActivatedTyped
    <3>2. /\ DOMAIN sessions' = DOMAIN Activated /\ sessions'[op.id].status = "idle"
          /\ \A x \in DOMAIN Activated \ {op.id} : sessions'[x] = Activated[x]
      BY <2>1, <2>3, <3>1, StatusTyped DEF Statuses
    <3> QED
      BY <2>1, <3>1, <3>2, OwnStatus
  <2> QED
    BY <1>10, <2>2, <2>3 DEF Activate
<1>11. CASE Interrupt
  <2>1. op # NoOp /\ op' = NoOp /\ UNCHANGED <<git, inside>>
    BY <1>11 DEF Interrupt
  <2>2. CASE sessions' = sessions
    BY <2>2 DEF Busy, Active
  <2>3. CASE op.step = "activate" /\ sessions' = Activated
    <3>1. op.kind = "enter"
      BY <2>1, <2>3, OpFacts DEF Ops, RollbackSteps, RemoveSteps
    <3> QED
      BY <2>1, <2>3, <3>1, OpFacts, Activation DEF Enters
  <2> QED
    BY <1>11, <2>2, <2>3 DEF Interrupt
<1>12. ASSUME NEW w \in Ids, Leave(w) PROVE Busy' \subseteq Busy
  <2>1. w \in DOMAIN sessions /\ sessions' = [sessions EXCEPT ![w].status = "idle"]
    BY <1>12 DEF Leave, Active
  <2>2. /\ DOMAIN sessions' = DOMAIN sessions /\ sessions'[w].status = "idle"
        /\ \A x \in DOMAIN sessions \ {w} : sessions'[x] = sessions[x]
    BY <1>0, <2>1, StatusTyped DEF Statuses
  <2> QED
    BY <2>2 DEF Busy, Active
<1>13. ASSUME Crash \/ Close PROVE Busy' \subseteq Busy
  <2>1. sessions' = <<>>
    BY <1>13 DEF Crash, Close, Down
  <2> QED
    BY <2>1 DEF Busy, Active
<1>14. CASE Start
  <2>1. sessions = <<>>
    BY <1>14 DEF Start, TypeOK, OpOK
  <2>2. \A w \in DOMAIN sessions' : sessions'[w].status = "idle"
    <3>1. CASE Readable(file)
      <4>1. DOMAIN file \subseteq Ids /\ file \in [DOMAIN file -> Records]
        BY <3>1 DEF TypeOK, FileOK, Readable
      <4>2. PICK failed : sessions' = Load(file, failed)
        BY <1>14, <3>1 DEF Start
      <4> QED
        BY <4>1, <4>2, LoadTyped
    <3>2. CASE ~Readable(file)
      BY <1>14, <2>1, <3>2 DEF Start
    <3> QED
      BY <3>1, <3>2
  <2> QED
    BY <2>1, <2>2 DEF Busy, Active
<1>15. ASSUME sessions' = sessions PROVE Busy' = Busy
  BY <1>15 DEF Busy, Active
<1>16. ASSUME \/ \E w \in Ids : EnterKnown(w) \/ StartRemove(w) \/ Work(w) \/ Commit(w) \/ Prune(w)
              \/ PersistCreating \/ CreateBranch \/ Register \/ Fill \/ AddFails
              \/ Unregister \/ DeleteBranch \/ RollbackStops
              \/ RemoveCheckout \/ RemoveCheckoutFails \/ SpoilFile \/ UNCHANGED vars
       PROVE  sessions' = sessions
  BY <1>16 DEF EnterKnown, StartRemove, Work, Commit, Prune, PersistCreating, CreateBranch,
               Register, Fill, AddFails, Unregister, DeleteBranch, RollbackStops,
               RemoveCheckout, RemoveCheckoutFails, SpoilFile, vars
<1> QED
  BY <1>1, <1>2, <1>3, <1>4, <1>7, <1>8, <1>9, <1>10, <1>11, <1>12, <1>13, <1>14, <1>15,
     <1>16 DEF Next, Enter, Rollback, Remove

-----------------------------------------------------------------------------
(* The worktrees that no operation works on are touched by their own tasks and *)
(* users alone.                                                               *)

LEMMA OthersStay ==
  ASSUME TypeOK, [Next]_vars, NEW w \in Ids, w # op.id
  PROVE  \/ git'[w] = git[w] /\ inside'[w] = inside[w]
         \/ Work(w) \/ Commit(w) \/ Prune(w)
<1>1. CASE Quiet
  BY <1>1, QuietDisk
<1>2. ASSUME CreateBranch \/ Register \/ Fill \/ ConfigureHooks
      PROVE  git'[w] = git[w] /\ inside'[w] = inside[w]
  BY <1>2, OperationOwns, AddSteps DEF Apart, CreateBranch, Register, Fill, ConfigureHooks
<1>3. ASSUME AddFails \/ Unregister \/ DeleteBranch \/ Forget
      PROVE  git'[w] = git[w] /\ inside'[w] = inside[w]
  <2>1. inside' = inside
    BY <1>3 DEF AddFails, Unregister, DeleteBranch, Forget
  <2> QED
    BY <1>3, <2>1, OperationOwns, FallbackSteps DEF Apart
<1>4. ASSUME Reconcile \/ ReconcileFails PROVE git'[w] = git[w] /\ inside'[w] = inside[w]
  <2>1. git' = git
    BY <1>4 DEF Reconcile, ReconcileFails
  <2> QED
    BY <1>4, <2>1, OperationOwns, DependencySteps DEF InsideApart
<1>5. ASSUME RemoveCheckout \/ RemoveCheckoutFails
      PROVE  git'[w] = git[w] /\ inside'[w] = inside[w]
  BY <1>5, OperationOwns, RemovalSteps, EmptyingSteps DEF Apart, InsideApart
<1>6. ASSUME RemoveBranch PROVE git'[w] = git[w] /\ inside'[w] = inside[w]
  <2>1. inside' = inside
    BY <1>6 DEF RemoveBranch
  <2> QED
    BY <1>6, <2>1, OperationOwns, RemovalSteps DEF Apart
<1>7. ASSUME NEW x \in Ids, x # w, Work(x) \/ Commit(x) \/ Prune(x)
      PROVE  git'[w] = git[w] /\ inside'[w] = inside[w]
  <2>1. CASE Work(x)
    <3>1. git' = git
      BY <2>1 DEF Work
    <3> QED
      BY <1>7, <2>1, <3>1, WorkStep DEF InsideApart
  <2>2. CASE Commit(x)
    <3>1. inside' = inside
      BY <2>2 DEF Commit
    <3> QED
      BY <1>7, <2>2, <3>1, OutsideSteps DEF Apart
  <2>3. CASE Prune(x)
    BY <1>7, <2>3, OutsideSteps, EmptyingSteps DEF Apart, InsideApart
  <2> QED
    BY <1>7, <2>1, <2>2, <2>3
<1> QED
  BY <1>1, <1>2, <1>3, <1>4, <1>5, <1>6, <1>7 DEF Next, Enter, Rollback, Remove, Quiet

-----------------------------------------------------------------------------
(* Checkouts that are ready.                                                 *)

\* From each step of enter() on, what "git worktree add" has made by then is
\* there: nobody else touches the worktree meanwhile.  What it has finished is
\* whole.
Standing ==
  /\ ActiveIsCheckedOut
  /\ op.kind = "enter" =>
       /\ op.step \in {"register", "fill", "hooks", "deps", "activate"} =>
            git[op.id].branch # "none"
       /\ op.step \in {"fill", "hooks", "deps", "activate"} =>
            git[op.id].registered /\ git[op.id].dir # "none"
       /\ op.step \in {"hooks", "deps", "activate"} =>
            git[op.id].dir = "full" \/ (op.step # "hooks" /\ op.id \in found)

LEMMA InitStanding == Init => Standing
BY DEF Init, Standing, ActiveIsCheckedOut, Active, NoOp, Op

LEMMA GoesTo ==
  ASSUME TypeOK, NEW step, Goto(step)
  PROVE  op'.id = op.id /\ op'.kind = op.kind /\ op'.step = step
<1>1. op = [kind |-> op.kind, id |-> op.id, step |-> op.step, fresh |-> op.fresh]
  BY OpFacts DEF Ops, NoOp, Op
<1> QED
  BY <1>1 DEF Goto

\* Only enter() and the end of the process change what is noted of checkouts.
LEMMA FoundStep ==
  ASSUME [Next]_vars
  PROVE  \/ found' = found
         \/ Crash \/ Close
         \/ \E w \in Ids : (EnterNew(w) \/ EnterKnown(w)) /\ found' \in {found \cup {w}, found \ {w}}
BY DEF Next, Enter, Rollback, Remove, EnterNew, EnterKnown, PersistCreating, CreateBranch,
       Register, Fill, ConfigureHooks, AddFails, Reconcile, ReconcileFails, Activate,
       Unregister, DeleteBranch, RollbackStops, Forget, StartRemove, RemoveCheckout,
       RemoveCheckoutFails, RemoveBranch, RemoveBranchFails, Interrupt, Start, SpoilFile,
       Leave, Work, Commit, Prune, vars, Untouched

\* A task that works in a worktree keeps others from entering it.
LEMMA FoundStays ==
  ASSUME [Next]_vars, NEW w \in Ids, Active(w), ~Crash, ~Close
  PROVE  w \in found' <=> w \in found
<1>1. ASSUME NEW x \in Ids, EnterNew(x) \/ EnterKnown(x) PROVE x # w
  BY <1>1 DEF EnterNew, EnterKnown, Active
<1> QED
  BY <1>1, FoundStep

\* The worktrees that tasks work in keep what they need.
LEMMA ActiveStay == TypeOK /\ Standing /\ [Next]_vars => ActiveIsCheckedOut'
<1> SUFFICES ASSUME TypeOK, Standing, [Next]_vars, NEW w \in Ids, Active(w)'
             PROVE  /\ git'[w].registered /\ git'[w].branch # "none"
                    /\ git'[w].dir = "full" \/ (git'[w].dir = "partial" /\ w \in found')
  BY DEF ActiveIsCheckedOut
<1>1. w \in Busy'
  BY DEF Busy
<1>2. CASE Active(w)
  <2>1. w # op.id
    BY <1>2, OpFacts, WorktreeAssumption DEF NoOp, Op
  <2>2. /\ git[w].registered /\ git[w].branch # "none"
        /\ git[w].dir = "full" \/ (git[w].dir = "partial" /\ w \in found)
    BY <1>2 DEF Standing, ActiveIsCheckedOut
  <2>3. CASE Work(w)
    BY <2>2, <2>3 DEF Work, Untouched
  <2>4. CASE Commit(w)
    <3>1. found' = found
      BY <2>4 DEF Commit, Untouched
    <3> QED
      BY <2>2, <2>4, <3>1, OutsideSteps
  <2>5. ~Prune(w)
    BY <1>2 DEF Prune
  <2>6. ~Crash /\ ~Close
    BY DEF Active, Crash, Close, Down
  <2> QED
    BY <1>2, <2>1, <2>2, <2>3, <2>4, <2>5, <2>6, FoundStays, OthersStay
<1>3. CASE ~Active(w)
  <2>1. Enters /\ w = op.id
    BY <1>1, <1>3, BusyStep DEF Busy, Enters
  <2>2. found' = found
    <3>1. op # NoOp
      BY <2>1 DEF Enters, NoOp, Op
    <3>2. ~Crash /\ ~Close
      BY DEF Active, Crash, Close, Down
    <3> QED
      BY <3>1, <3>2, FoundStep DEF EnterNew, EnterKnown, Free
  <2>3. git[w] \in Checkouts
    BY OpFacts
  <2> QED
    BY <2>1, <2>2, <2>3 DEF Enters, Standing, Checkouts
<1> QED
  BY <1>2, <1>3

LEMMA StandingStep == TypeOK /\ Standing /\ [Next]_vars => Standing'
<1> SUFFICES ASSUME TypeOK, Standing, [Next]_vars, op'.kind = "enter"
             PROVE  /\ op'.step \in {"register", "fill", "hooks", "deps", "activate"} =>
                         git'[op'.id].branch # "none"
                    /\ op'.step \in {"fill", "hooks", "deps", "activate"} =>
                         git'[op'.id].registered /\ git'[op'.id].dir # "none"
                    /\ op'.step \in {"hooks", "deps", "activate"} =>
                         git'[op'.id].dir = "full" \/ (op'.step # "hooks" /\ op'.id \in found')
  BY ActiveStay DEF Standing
<1>1. ASSUME NEW w \in Ids, EnterNew(w) PROVE op'.step = "persist"
  BY <1>1 DEF EnterNew, Op
<1>2. ASSUME NEW w \in Ids, EnterKnown(w)
      PROVE  \/ op'.step = "branch"
             \/ /\ git'[op'.id].dir # "none" /\ git'[op'.id].registered
                /\ git'[op'.id].branch # "none" /\ op'.step = "deps" /\ op'.id \in found'
  BY <1>2 DEF EnterKnown, Op
<1>3. ASSUME PersistCreating PROVE op'.step = "branch"
  BY <1>3, GoesTo DEF PersistCreating, Op
<1>4. ASSUME CreateBranch \/ Register \/ Fill \/ ConfigureHooks \/ Reconcile
      PROVE  op.id \in Ids /\ op'.id = op.id /\ op.kind = "enter"
  <2>1. op.id \in Ids
    BY <1>4, OperationOwns
  <2>2. op.kind = "enter"
    BY <1>4 DEF CreateBranch, Register, Fill, ConfigureHooks, Reconcile, At
  <2>3. op'.id = op.id
    BY <1>4, GoesTo DEF CreateBranch, Register, Fill, ConfigureHooks, Reconcile
  <2> QED
    BY <2>1, <2>2, <2>3
<1>5. CASE CreateBranch
  <2>1. op'.step = "register"
    BY <1>5, OpFacts, Going DEF CreateBranch, At, StepsOf, EnterSteps
  <2> QED
    BY <1>4, <1>5, <2>1, AddSteps
<1>6. CASE Register
  <2>1. op'.step = "fill" /\ op.step = "register"
    BY <1>6, OpFacts, Going DEF Register, At, StepsOf, EnterSteps
  <2> QED
    BY <1>4, <1>6, <2>1, AddSteps DEF Standing
<1>7. CASE Fill
  <2>1. op'.step = "hooks" /\ op.step = "fill"
    BY <1>7, OpFacts, Going DEF Fill, At, StepsOf, EnterSteps
  <2> QED
    BY <1>4, <1>7, <2>1, AddSteps DEF Standing
<1>8. CASE ConfigureHooks
  <2>1. op'.step = "deps" /\ op.step = "hooks"
    BY <1>8, OpFacts, Going DEF ConfigureHooks, At, StepsOf, EnterSteps
  <2> QED
    BY <1>4, <1>8, <2>1, AddSteps DEF Standing
<1>9. CASE Reconcile
  <2>1. op'.step = "activate" /\ op.step = "deps"
    BY <1>9, OpFacts, Going DEF Reconcile, At, StepsOf, EnterSteps
  <2>2. git' = git /\ found' = found
    BY <1>9 DEF Reconcile, Untouched
  <2> QED
    BY <1>4, <1>9, <2>1, <2>2 DEF Standing
<1>10. CASE op' = op
  <2>0. found' = found
    <3>1. op # NoOp /\ op' # NoOp
      BY <1>10 DEF NoOp, Op
    <3>2. ~Crash /\ ~Close
      BY <3>1 DEF Crash, Close, Down
    <3> QED
      BY <3>1, <3>2, FoundStep DEF EnterNew, EnterKnown, Free
  <2>1. op.id \in Ids
    BY <1>10, OpFacts
  <2>2. git'[op.id] = git[op.id]
    <3>1. ASSUME NEW w \in Ids, Work(w) \/ Commit(w) \/ Prune(w) PROVE w # op.id
      BY <3>1 DEF Work, Commit, Prune, Outside
    <3>2. CASE git' = git
      BY <3>2
    <3>3. CASE \E w \in Ids : Work(w) \/ Commit(w) \/ Prune(w)
      BY <2>1, <3>1, <3>3, OutsideSteps DEF Apart, Work
    <3>4. ASSUME \/ Register \/ Fill \/ CreateBranch \/ ConfigureHooks \/ Unregister
                 \/ DeleteBranch \/ RemoveCheckout
          PROVE  FALSE
      <4>1. \A step : Goto(step) => op'.step = step \/ ~(op \in Ops)
        BY DEF Goto, Ops, NoOp, Op
      <4> QED
        BY <1>10, <3>4, <4>1, OpFacts
           DEF Register, Fill, CreateBranch, ConfigureHooks, Unregister, DeleteBranch,
               RemoveCheckout, At
    <3>5. ASSUME AddFails \/ Forget \/ RemoveCheckoutFails \/ RemoveBranch PROVE FALSE
      BY <1>10, <3>5 DEF AddFails, Forget, RemoveCheckoutFails, RemoveBranch, At, NoOp, Op
    <3> QED
      BY <3>2, <3>3, <3>4, <3>5, QuietDisk
         DEF Next, Enter, Rollback, Remove, Quiet, Reconcile, ReconcileFails
  <2> QED
    BY <1>10, <2>0, <2>2 DEF Standing
<1>11. ASSUME op' = NoOp PROVE FALSE
  BY <1>11 DEF NoOp, Op
<1>12. ASSUME \/ AddFails \/ ReconcileFails \/ Activate \/ Rollback \/ Remove
              \/ Interrupt \/ Crash \/ Close
       PROVE  op' = NoOp
  <2>1. ASSUME Goto("unbranch") \/ Goto("forget"), op.kind = "rollback" \/ op.kind = "remove"
        PROVE  FALSE
    BY <2>1, GoesTo
  <2> QED
    BY <1>12, <2>1 DEF AddFails, ReconcileFails, Activate, Rollback, Remove, Unregister,
       DeleteBranch, RollbackStops, Forget, StartRemove, RemoveCheckout, RemoveCheckoutFails,
       RemoveBranch, RemoveBranchFails, Interrupt, Crash, Close, Down, At, Op
<1>13. ASSUME \/ Start \/ SpoilFile \/ UNCHANGED vars
              \/ \E w \in Ids : Leave(w) \/ Work(w) \/ Commit(w) \/ Prune(w)
       PROVE  op' = op
  BY <1>13 DEF Start, SpoilFile, vars, Leave, Work, Commit, Prune
<1> QED
  BY <1>1, <1>2, <1>3, <1>5, <1>6, <1>7, <1>8, <1>9, <1>10, <1>11, <1>12, <1>13
     DEF Next, Enter

\* A task works in a directory that is registered as a checkout of the branch of
\* its worktree, whatever failed before in enter() of that worktree or of
\* another one; and the checkout is whole unless the enter() of the task found
\* it there.
THEOREM TasksGetCheckouts == Spec => []ActiveIsCheckedOut
<1>1. Spec => [](TypeOK /\ Standing)
  BY InitTypes, TypesStep, InitStanding, StandingStep, PTL DEF Spec
<1>2. Standing => ActiveIsCheckedOut
  BY DEF Standing
<1> QED
  BY <1>1, <1>2, PTL

-----------------------------------------------------------------------------
(* What is in a worktree while an operation works on it.                     *)

\* Nothing would be lost with it: neither files nor commits nor what somebody
\* else put where the dependency belongs.
Clean(w) ==
  inside[w] \in {Empty, [Empty EXCEPT !.dependency = "ours"]} /\ git[w].branch # "ahead"

\* Without a directory there is nothing in a worktree; no operation works on one
\* with commits of its own; and until a checkout is ready, and while it is
\* rolled back, it is empty.
Vacant == \A w \in Ids : git[w].dir = "none" => inside[w] = Empty
NothingAhead == op # NoOp => git[op.id].branch # "ahead"
Unfilled ==
  /\ op.kind = "enter" /\ op.step \in {"persist", "branch", "register", "fill", "hooks"} =>
       inside[op.id] = Empty
  /\ op.kind = "rollback" => inside[op.id] = Empty
Emptied == op.kind = "remove" /\ op.step = "unbranch" => git[op.id].dir = "none"
Bare == Vacant /\ NothingAhead /\ Unfilled /\ Emptied

LEMMA InitBare == Init => Bare
BY DEF Init, Bare, Vacant, NothingAhead, Unfilled, Emptied, NoOp, Op

\* Outside the steps of the operation itself, its worktree stays as it is.
LEMMA OwnStays ==
  ASSUME TypeOK, op # NoOp, Quiet \/ \E w \in Ids : Work(w) \/ Commit(w) \/ Prune(w)
  PROVE  git'[op.id] = git[op.id] /\ inside'[op.id] = inside[op.id]
<1>1. op.id \in Ids
  BY OpFacts
<1>2. ASSUME NEW w \in Ids, Work(w) \/ Commit(w) \/ Prune(w)
      PROVE  git'[op.id] = git[op.id] /\ inside'[op.id] = inside[op.id]
  <2>1. w # op.id
    BY <1>2 DEF Work, Commit, Prune, Outside
  <2>2. git' = git \/ Apart(w)
    BY <1>2, OutsideSteps DEF Work
  <2>3. inside' = inside \/ InsideApart(w)
    BY <1>2, WorkStep, EmptyingSteps DEF Commit
  <2> QED
    BY <1>1, <2>1, <2>2, <2>3 DEF Apart, InsideApart
<1> QED
  BY <1>2, QuietDisk

LEMMA VacantStep == TypeOK /\ Standing /\ Bare /\ [Next]_vars => Vacant'
<1> SUFFICES ASSUME TypeOK, Standing, Bare, [Next]_vars, NEW w \in Ids, git'[w].dir = "none"
             PROVE  inside'[w] = Empty
  BY DEF Vacant
<1>0. git[w].dir = "none" => inside[w] = Empty
  BY DEF Bare, Vacant
<1>1. CASE w # op.id
  <2>1. CASE Work(w)
    <3>1. git' = git
      BY <2>1 DEF Work
    <3> QED
      BY <2>1, <3>1, WorkStep
  <2>2. CASE Commit(w)
    BY <2>2, OutsideSteps
  <2>3. CASE Prune(w)
    BY <2>3, EmptyingSteps
  <2> QED
    BY <1>0, <1>1, <2>1, <2>2, <2>3, OthersStay
<1>2. CASE w = op.id
  <2>0. op # NoOp
    BY <1>2, WorktreeAssumption DEF NoOp, Op
  <2>1. ASSUME Quiet \/ \E x \in Ids : Work(x) \/ Commit(x) \/ Prune(x)
        PROVE  inside'[w] = Empty
    BY <1>0, <1>2, <2>0, <2>1, OwnStays
  <2>2. ASSUME CreateBranch \/ Register \/ Fill \/ ConfigureHooks PROVE inside'[w] = Empty
    <3>1. inside' = inside
      BY <2>2 DEF CreateBranch, Register, Fill, ConfigureHooks
    <3> QED
      BY <1>0, <1>2, <2>2, <3>1, AddSteps
  <2>3. ASSUME AddFails \/ Unregister \/ DeleteBranch \/ Forget PROVE inside'[w] = Empty
    <3>1. inside' = inside
      BY <2>3 DEF AddFails, Unregister, DeleteBranch, Forget
    <3>2. inside[op.id] = Empty
      BY <2>3 DEF AddFails, Unregister, DeleteBranch, Forget, At, Bare, Unfilled
    <3> QED
      BY <1>2, <3>1, <3>2
  <2>4. ASSUME Reconcile \/ ReconcileFails PROVE FALSE
    <3>1. git' = git
      BY <2>4 DEF Reconcile, ReconcileFails
    <3>2. op.kind = "enter" /\ op.step = "deps"
      BY <2>4 DEF Reconcile, ReconcileFails, At
    <3> QED
      BY <1>2, <3>1, <3>2 DEF Standing
  <2>5. ASSUME RemoveCheckout \/ RemoveCheckoutFails PROVE inside'[w] = Empty
    BY <1>0, <1>2, <2>5, EmptyingSteps
  <2>6. CASE RemoveBranch
    <3>1. inside' = inside
      BY <2>6 DEF RemoveBranch
    <3> QED
      BY <1>0, <1>2, <2>6, <3>1, RemovalSteps
  <2> QED
    BY <2>1, <2>2, <2>3, <2>4, <2>5, <2>6 DEF Next, Enter, Rollback, Remove, Quiet
<1> QED
  BY <1>1, <1>2

\* How the operation that runs comes from the one that ran before: it has just
\* begun, or it is the same, or the next step of the same.
LEMMA OpComes ==
  ASSUME TypeOK, [Next]_vars, op' # NoOp
  PROVE  \/ \E w \in Ids : EnterNew(w) \/ EnterKnown(w) \/ StartRemove(w)
         \/ op # NoOp /\ op' = op /\ (Quiet \/ \E w \in Ids : Work(w) \/ Commit(w) \/ Prune(w))
         \/ /\ op # NoOp /\ op.id \in Ids /\ op'.id = op.id
            /\ \/ PersistCreating \/ CreateBranch \/ Register \/ Fill \/ ConfigureHooks
               \/ AddFails \/ Unregister \/ DeleteBranch \/ Reconcile \/ RemoveCheckout
<1>1. ASSUME \/ ReconcileFails \/ Activate \/ RollbackStops \/ Forget \/ RemoveCheckoutFails
             \/ RemoveBranch \/ RemoveBranchFails \/ Interrupt \/ Crash \/ Close
      PROVE  FALSE
  BY <1>1 DEF ReconcileFails, Activate, RollbackStops, Forget, RemoveCheckoutFails,
              RemoveBranch, RemoveBranchFails, Interrupt, Crash, Close, Down
<1>2. ASSUME \/ Start \/ SpoilFile \/ UNCHANGED vars
             \/ \E w \in Ids : Leave(w) \/ Work(w) \/ Commit(w) \/ Prune(w)
      PROVE  op' = op /\ (Quiet \/ \E w \in Ids : Work(w) \/ Commit(w) \/ Prune(w))
  <2>1. op' = op
    BY <1>2 DEF Start, SpoilFile, vars, Leave, Work, Commit, Prune
  <2> QED
    BY <1>2, <2>1 DEF Quiet
<1>3. ASSUME \/ PersistCreating \/ CreateBranch \/ Register \/ Fill \/ ConfigureHooks
             \/ AddFails \/ Unregister \/ DeleteBranch \/ Reconcile \/ RemoveCheckout
      PROVE  op # NoOp /\ op.id \in Ids /\ op'.id = op.id
  <2>1. op # NoOp /\ op.id \in Ids
    BY <1>3, OperationOwns, AtFacts DEF PersistCreating
  <2>2. op'.id = op.id
    BY <1>3, GoesTo
       DEF PersistCreating, CreateBranch, Register, Fill, ConfigureHooks, AddFails,
           Unregister, DeleteBranch, Reconcile, RemoveCheckout, Op
  <2> QED
    BY <2>1, <2>2
<1> QED
  BY <1>1, <1>2, <1>3 DEF Next, Enter, Rollback, Remove

LEMMA BareStep == TypeOK /\ Standing /\ Bare /\ [Next]_vars => Bare'
<1> SUFFICES ASSUME TypeOK, Standing, Bare, [Next]_vars, op' # NoOp
             PROVE  NothingAhead' /\ Unfilled' /\ Emptied'
  <2>1. op' = NoOp => NothingAhead' /\ Unfilled' /\ Emptied'
    BY DEF NothingAhead, Unfilled, Emptied, NoOp, Op
  <2> QED
    BY <2>1, VacantStep DEF Bare
<1>1. ASSUME NEW w \in Ids, EnterNew(w) PROVE NothingAhead' /\ Unfilled' /\ Emptied'
  <2>1. /\ git' = git /\ inside' = inside /\ git[w].branch = "none" /\ git[w].dir = "none"
        /\ op' = Op("enter", w, "persist", TRUE)
    BY <1>1 DEF EnterNew
  <2>2. inside[w] = Empty
    BY <2>1 DEF Bare, Vacant
  <2> QED
    BY <2>1, <2>2 DEF Op, NothingAhead, Unfilled, Emptied
<1>2. ASSUME NEW w \in Ids, EnterKnown(w) PROVE NothingAhead' /\ Unfilled' /\ Emptied'
  <2>1. /\ git' = git /\ inside' = inside /\ git[w].branch # "ahead"
        /\ \/ op' = Op("enter", w, "deps", FALSE)
           \/ op' = Op("enter", w, "branch", FALSE) /\ git[w].dir = "none"
    BY <1>2 DEF EnterKnown
  <2>2. git[w].dir = "none" => inside[w] = Empty
    BY DEF Bare, Vacant
  <2> QED
    BY <2>1, <2>2 DEF Op, NothingAhead, Unfilled, Emptied
<1>3. ASSUME NEW w \in Ids, StartRemove(w) PROVE NothingAhead' /\ Unfilled' /\ Emptied'
  <2>1. git' = git /\ git[w].branch # "ahead" /\ op' = Op("remove", w, "checkout", FALSE)
    BY <1>3 DEF StartRemove, Removable, Valid
  <2> QED
    BY <2>1 DEF Op, NothingAhead, Unfilled, Emptied
<1>4. ASSUME op # NoOp, op' = op, Quiet \/ \E w \in Ids : Work(w) \/ Commit(w) \/ Prune(w)
      PROVE  NothingAhead' /\ Unfilled' /\ Emptied'
  BY <1>4, OwnStays DEF Bare, NothingAhead, Unfilled, Emptied
<1>5. ASSUME op # NoOp, op.id \in Ids, op'.id = op.id,
             \/ PersistCreating \/ CreateBranch \/ Register \/ Fill \/ ConfigureHooks
             \/ AddFails \/ Unregister \/ DeleteBranch \/ Reconcile \/ RemoveCheckout
      PROVE  NothingAhead' /\ Unfilled' /\ Emptied'
  <2>1. NothingAhead'
    <3>1. git[op.id].branch # "ahead"
      BY <1>5 DEF Bare, NothingAhead
    <3>2. git' = git \/ git'[op.id].branch \in {"none", "base", git[op.id].branch}
      BY <1>5, AddSteps, FallbackSteps, RemovalSteps DEF PersistCreating, Reconcile
    <3> QED
      BY <1>5, <3>1, <3>2 DEF NothingAhead
  <2>2. Unfilled'
    <3>1. CASE Reconcile
      <4>1. op'.kind = "enter" /\ op'.step = "activate"
        BY <3>1, GoesTo DEF Reconcile, At
      <4> QED
        BY <4>1 DEF Unfilled
    <3>2. CASE ConfigureHooks
      <4>1. op'.kind = "enter" /\ op'.step = "deps"
        BY <3>2, GoesTo DEF ConfigureHooks, At
      <4> QED
        BY <4>1 DEF Unfilled
    <3>3. CASE RemoveCheckout
      <4>1. op'.kind = "remove"
        BY <3>3, GoesTo DEF RemoveCheckout, At
      <4> QED
        BY <4>1 DEF Unfilled
    <3>4. ASSUME \/ PersistCreating \/ CreateBranch \/ Register \/ Fill
                 \/ AddFails \/ Unregister \/ DeleteBranch
          PROVE  inside'[op.id] = Empty
      <4>1. inside' = inside
        BY <3>4 DEF PersistCreating, CreateBranch, Register, Fill, AddFails, Unregister,
                    DeleteBranch
      <4>2. inside[op.id] = Empty
        BY <3>4 DEF PersistCreating, CreateBranch, Register, Fill, AddFails, Unregister,
                    DeleteBranch, At, Bare, Unfilled
      <4> QED
        BY <4>1, <4>2
    <3> QED
      BY <1>5, <3>1, <3>2, <3>3, <3>4 DEF Unfilled
  <2>3. Emptied'
    <3>1. CASE RemoveCheckout
      BY <1>5, <3>1, RemovalSteps DEF Emptied
    <3>2. ASSUME \/ PersistCreating \/ CreateBranch \/ Register \/ Fill \/ ConfigureHooks
                 \/ AddFails \/ Unregister \/ DeleteBranch \/ Reconcile
          PROVE  op'.kind # "remove"
      BY <3>2, GoesTo DEF PersistCreating, CreateBranch, Register, Fill, ConfigureHooks, AddFails,
                  Unregister, DeleteBranch, Reconcile, At, NoOp, Op
    <3> QED
      BY <1>5, <3>1, <3>2 DEF Emptied
  <2> QED
    BY <2>1, <2>2, <2>3
<1> QED
  BY <1>1, <1>2, <1>3, <1>4, <1>5, OpComes

-----------------------------------------------------------------------------
(* Work that is known.                                                       *)

\* A worktree that the state file does not name has nothing to lose; and of one
\* that it names and the manager has dropped, not even a directory is left.
Known ==
  Readable(file) =>
    /\ \A w \in Ids \ DOMAIN file : Clean(w)
    /\ up => \A w \in DOMAIN file \ DOMAIN sessions : git[w].dir = "none" /\ Clean(w)

\* Only tasks and users put anything into a worktree.
LEMMA CleanStays ==
  ASSUME TypeOK, Standing, Bare, [Next]_vars, NEW w \in Ids, Clean(w), ~Work(w), ~Commit(w)
  PROVE  Clean(w)'
<1>0. git[w] \in Checkouts /\ inside[w] \in Contents /\ Empty \in Contents
  BY OpFacts DEF Empty, Contents
<1>1. ASSUME git'[w] = git[w], inside'[w] = inside[w] PROVE Clean(w)'
  BY <1>1 DEF Clean
<1>2. ASSUME git'[w].branch \in {"none", "base", git[w].branch},
             inside'[w] \in {Empty, inside[w]}
      PROVE  Clean(w)'
  BY <1>2 DEF Clean
<1>3. CASE w # op.id
  <2>1. CASE Prune(w)
    BY <1>2, <2>1, OutsideSteps, EmptyingSteps
  <2> QED
    BY <1>1, <1>3, <2>1, OthersStay
<1>4. CASE w = op.id
  <2>0. op # NoOp
    BY <1>4, WorktreeAssumption DEF NoOp, Op
  <2>1. ASSUME Quiet \/ \E x \in Ids : Work(x) \/ Commit(x) \/ Prune(x)
        PROVE  Clean(w)'
    BY <1>1, <1>4, <2>0, <2>1, OwnStays
  <2>2. ASSUME \/ CreateBranch \/ Register \/ Fill \/ ConfigureHooks
               \/ AddFails \/ Unregister \/ DeleteBranch \/ Forget \/ RemoveBranch
        PROVE  Clean(w)'
    <3>1. inside' = inside
      BY <2>2 DEF CreateBranch, Register, Fill, ConfigureHooks, AddFails, Unregister,
                  DeleteBranch, Forget, RemoveBranch
    <3>2. git'[w].branch \in {"none", "base", git[w].branch}
      BY <1>4, <2>2, AddSteps, FallbackSteps, RemovalSteps
    <3> QED
      BY <1>2, <3>1, <3>2
  <2>3. ASSUME Reconcile \/ ReconcileFails PROVE Clean(w)'
    <3>1. git' = git
      BY <2>3 DEF Reconcile, ReconcileFails
    <3>2. inside'[w] \in Contents /\ inside'[w].files = inside[w].files
      BY <1>4, <2>3, DependencySteps DEF InsideApart
    <3>3. inside'[w] = inside[w] \/ inside'[w].dependency \in {"absent", "ours"}
      BY <1>4, <2>3, DependencySteps
    <3>4. CASE inside'[w] = inside[w]
      BY <1>1, <3>1, <3>4
    <3>5. CASE inside'[w].dependency \in {"absent", "ours"}
      <4>1. inside[w].files = FALSE
        BY DEF Clean, Empty
      <4>2. inside'[w] = [files |-> FALSE, dependency |-> inside'[w].dependency]
        BY <3>2, <4>1 DEF Contents
      <4>3. inside'[w] \in {Empty, [Empty EXCEPT !.dependency = "ours"]}
        <5>1. [Empty EXCEPT !.dependency = "ours"] = [files |-> FALSE, dependency |-> "ours"]
          <6>1. \A c \in Contents :
                  [c EXCEPT !.dependency = "ours"] = [files |-> c.files, dependency |-> "ours"]
            BY DEF Contents
          <6>2. Empty.files = FALSE
            BY DEF Empty
          <6> QED
            BY <1>0, <6>1, <6>2
        <5> QED
          BY <3>5, <4>2, <5>1 DEF Empty
      <4> QED
        BY <3>1, <4>3 DEF Clean
    <3> QED
      BY <3>3, <3>4, <3>5
  <2>4. ASSUME RemoveCheckout \/ RemoveCheckoutFails PROVE Clean(w)'
    <3>1. inside'[w] \in {Empty, inside[w]}
      BY <1>4, <2>4, EmptyingSteps
    <3>2. git'[w].branch = git[w].branch
      BY <1>4, <2>4, RemovalSteps
    <3> QED
      BY <1>2, <3>1, <3>2
  <2> QED
    BY <2>1, <2>2, <2>3, <2>4 DEF Next, Enter, Rollback, Remove, Quiet
<1> QED
  BY <1>3, <1>4

\* What is written to the state file are the sessions; close() writes those it
\* is about to drop.
LEMMA FileStep ==
  ASSUME TypeOK, [Next]_vars
  PROVE  \/ file' = file \/ Persist(sessions') \/ SpoilFile
         \/ Close /\ Persist(Idled(sessions))
<1>1. ASSUME \/ PersistCreating \/ ReconcileFails \/ Activate \/ Forget \/ RemoveBranch
             \/ RemoveBranchFails \/ Interrupt \/ \E w \in Ids : Leave(w)
      PROVE  file' = file \/ Persist(sessions')
  BY <1>1 DEF PersistCreating, ReconcileFails, Activate, Forget, RemoveBranch,
              RemoveBranchFails, Interrupt, Leave, MayPersist, PersistFails, Persist
<1>2. ASSUME Crash \/ Start PROVE file' = file \/ Persist(sessions')
  BY <1>2 DEF Crash, Start
<1>3. CASE Close
  BY <1>3 DEF Close, MayPersist, PersistFails
<1>4. ASSUME \/ \E w \in Ids : \/ EnterNew(w) \/ EnterKnown(w) \/ StartRemove(w)
                                \/ Work(w) \/ Commit(w) \/ Prune(w)
             \/ CreateBranch \/ Register \/ Fill \/ ConfigureHooks \/ AddFails \/ Reconcile
             \/ Unregister \/ DeleteBranch \/ RollbackStops \/ RemoveCheckout
             \/ RemoveCheckoutFails \/ UNCHANGED vars
      PROVE  file' = file
  BY <1>4 DEF EnterNew, EnterKnown, StartRemove, Work, Commit, Prune, CreateBranch, Register,
              Fill, ConfigureHooks, AddFails, Reconcile, Unregister, DeleteBranch,
              RollbackStops, RemoveCheckout, RemoveCheckoutFails, vars
<1> QED
  BY <1>1, <1>2, <1>3, <1>4 DEF Next, Enter, Rollback, Remove

\* A process that saves has read the state file, and writes what can be read.
LEMMA SavingSteps ==
  ASSUME TypeOK, [Next]_vars, file' # file, ~SpoilFile
  PROVE  Readable(file) /\ Readable(file') /\ (up \/ Start)
<1>0. Typed(sessions) /\ Typed(sessions') /\ (op # NoOp => sessions # <<>>)
  BY StoreStep, OpFacts DEF SessionsOK, Typed
<1>1. Readable(file')
  <2>1. Typed(Idled(sessions))
    BY <1>0, IdledTyped
  <2> QED
    BY <1>0, <2>1, FileStep, PersistReadable DEF Readable
<1>2. ASSUME up, sessions # <<>> PROVE Readable(file)
  BY <1>2 DEF TypeOK, OpOK
<1>3. ASSUME \/ PersistCreating \/ ReconcileFails \/ Activate \/ Forget \/ RemoveBranch
             \/ RemoveBranchFails \/ Interrupt
      PROVE  Readable(file) /\ up
  <2>1. CASE Interrupt
    BY <1>0, <1>2, <2>1 DEF Interrupt
  <2> QED
    BY <1>0, <1>2, <1>3, <2>1, AtFacts
       DEF PersistCreating, ReconcileFails, Activate, Forget, RemoveBranch, RemoveBranchFails
<1>4. ASSUME NEW w \in Ids, Leave(w) PROVE Readable(file) /\ up
  <2>1. up /\ sessions # <<>>
    BY <1>4 DEF Leave, Free, Active
  <2> QED
    BY <1>2, <2>1
<1>5. CASE Close
  <2>1. up /\ sessions # <<>>
    BY <1>5 DEF Close, Free, Active
  <2> QED
    BY <1>1, <1>2, <2>1
<1>6. CASE Start
  BY <1>1, <1>6 DEF Start
<1>7. ASSUME \/ \E w \in Ids : \/ EnterNew(w) \/ EnterKnown(w) \/ StartRemove(w)
                                \/ Work(w) \/ Commit(w) \/ Prune(w)
             \/ CreateBranch \/ Register \/ Fill \/ ConfigureHooks \/ AddFails \/ Reconcile
             \/ Unregister \/ DeleteBranch \/ RollbackStops \/ RemoveCheckout
             \/ RemoveCheckoutFails \/ Crash \/ UNCHANGED vars
      PROVE  FALSE
  BY <1>7 DEF EnterNew, EnterKnown, StartRemove, Work, Commit, Prune, CreateBranch, Register,
              Fill, ConfigureHooks, AddFails, Reconcile, Unregister, DeleteBranch, Crash,
              RollbackStops, RemoveCheckout, RemoveCheckoutFails, vars
<1> QED
  BY <1>1, <1>3, <1>4, <1>5, <1>6, <1>7 DEF Next, Enter, Rollback, Remove

\* A session is dropped when its worktree is gone, or because the process ends.
LEMMA SessionsDropped ==
  ASSUME TypeOK, [Next]_vars, NEW w \in DOMAIN sessions, w \notin DOMAIN sessions'
  PROVE  \/ w = op.id /\ (Forget \/ RemoveBranch)
         \/ Crash \/ Close
<1>0. Typed(sessions)
  BY OpFacts
<1>1. ASSUME NEW x \in Ids, EnterNew(x) PROVE FALSE
  BY <1>1 DEF EnterNew, With
<1>2. ASSUME ConfigureHooks \/ ReconcileFails PROVE FALSE
  <2>1. op.id \in DOMAIN sessions /\ sessions' = [sessions EXCEPT ![op.id].status = "idle"]
    BY <1>2, OperationOwns DEF ConfigureHooks, ReconcileFails
  <2> QED
    BY <1>0, <2>1, StatusTyped DEF Statuses
<1>3. CASE Reconcile
  <2>1. sessions' = sessions \/ \E b \in BOOLEAN : sessions' = [sessions EXCEPT ![op.id].injected = b]
    BY <1>3 DEF Reconcile
  <2> QED
    BY <2>1
<1>4. CASE Forget \/ RemoveBranch
  <2>1. \/ sessions' = Without(sessions, op.id)
        \/ sessions' = [sessions EXCEPT ![op.id].error = TRUE]
    BY <1>4 DEF Forget, RemoveBranch
  <2>2. CASE sessions' = Without(sessions, op.id)
    <3>1. DOMAIN sessions' = DOMAIN sessions \ {op.id}
      BY <1>0, <2>2, WithoutTyped
    <3> QED
      BY <1>4, <3>1
  <2>3. CASE sessions' = [sessions EXCEPT ![op.id].error = TRUE]
    BY <2>3
  <2> QED
    BY <2>1, <2>2, <2>3
<1>5. ASSUME Activate \/ Interrupt PROVE FALSE
  BY <1>5 DEF Activate, Interrupt, Activated
<1>6. ASSUME RemoveBranchFails \/ \E x \in Ids : Leave(x) PROVE FALSE
  BY <1>6 DEF RemoveBranchFails, Leave
<1>7. CASE Start
  <2>1. sessions = <<>>
    BY <1>7 DEF Start, TypeOK, OpOK
  <2> QED
    BY <2>1
<1>8. ASSUME \/ \E x \in Ids : EnterKnown(x) \/ StartRemove(x) \/ Work(x) \/ Commit(x) \/ Prune(x)
             \/ PersistCreating \/ CreateBranch \/ Register \/ Fill \/ AddFails
             \/ Unregister \/ DeleteBranch \/ RollbackStops
             \/ RemoveCheckout \/ RemoveCheckoutFails \/ SpoilFile \/ UNCHANGED vars
      PROVE  sessions' = sessions
  BY <1>8 DEF EnterKnown, StartRemove, Work, Commit, Prune, PersistCreating, CreateBranch,
              Register, Fill, AddFails, Unregister, DeleteBranch, RollbackStops,
              RemoveCheckout, RemoveCheckoutFails, SpoilFile, vars
<1> QED
  BY <1>1, <1>2, <1>3, <1>4, <1>5, <1>6, <1>7, <1>8 DEF Next, Enter, Rollback, Remove

\* Nothing is left in a worktree whose session an operation drops.
LEMMA DroppedBare ==
  ASSUME TypeOK, Standing, Bare, [Next]_vars, Forget \/ RemoveBranch
  PROVE  git'[op.id].dir = "none" /\ inside'[op.id] = Empty /\ git'[op.id].branch # "ahead"
<1>1. op.id \in Ids /\ op # NoOp /\ git[op.id] \in Checkouts /\ git \in [Ids -> Checkouts]
  BY OperationOwns, OpFacts
<1>2. git'[op.id].dir = "none"
  <2>1. CASE Forget
    BY <1>1, <2>1 DEF Forget, Checkouts
  <2>2. CASE RemoveBranch
    BY <1>1, <2>2, RemovalSteps DEF RemoveBranch, At, Bare, Emptied
  <2> QED
    BY <2>1, <2>2
<1>3. inside'[op.id] = Empty
  BY <1>1, <1>2, VacantStep DEF Vacant
<1>4. git'[op.id].branch # "ahead"
  BY <1>1, FallbackSteps, RemovalSteps DEF Bare, NothingAhead
<1> QED
  BY <1>2, <1>3, <1>4

LEMMA KnownStep == TypeOK /\ Standing /\ Bare /\ Known /\ [Next]_vars => Known'
<1> SUFFICES ASSUME TypeOK, Standing, Bare, Known, [Next]_vars, Readable(file')
             PROVE  /\ \A w \in Ids \ DOMAIN file' : Clean(w)'
                    /\ up' => \A w \in DOMAIN file' \ DOMAIN sessions' :
                                git'[w].dir = "none" /\ Clean(w)'
  BY DEF Known, Readable
<1>0. TypeOK' /\ Typed(sessions) /\ Typed(sessions')
  <2>1. TypeOK'
    BY TypesStep
  <2> QED
    BY <2>1, OpFacts DEF TypeOK, SessionsOK, Typed
<1>1. ASSUME NEW w \in Ids, Work(w) \/ Commit(w)
      PROVE  w \in DOMAIN file /\ file' = file /\ sessions' = sessions /\ git[w].dir # "none"
  BY <1>1 DEF Work, Commit, Outside
<1>2. CASE file' = file
  <2>1. ASSUME NEW w \in Ids \ DOMAIN file' PROVE Clean(w)'
    BY <1>1, <1>2, <2>1, CleanStays DEF Known
  <2>2. ASSUME up', NEW w \in DOMAIN file' \ DOMAIN sessions'
        PROVE  git'[w].dir = "none" /\ Clean(w)'
    <3>0. w \in Ids
      BY <1>2, <2>2 DEF TypeOK, FileOK, Readable
    <3>1. CASE ~up
      <4>1. Start
        BY <2>2, <3>1
           DEF Next, Enter, Rollback, Remove, EnterNew, EnterKnown, PersistCreating,
               CreateBranch, Register, Fill, ConfigureHooks, AddFails, Reconcile,
               ReconcileFails, Activate, Unregister, DeleteBranch, RollbackStops, Forget,
               StartRemove, RemoveCheckout, RemoveCheckoutFails, RemoveBranch,
               RemoveBranchFails, Interrupt, Crash, Close, SpoilFile, Leave, Work, Commit,
               Prune, vars, Free, At, Untouched
      <4>2. PICK failed : sessions' = Load(file, failed)
        BY <1>2, <4>1 DEF Start, Readable
      <4>3. DOMAIN sessions' = DOMAIN file
        BY <4>2 DEF Load
      <4> QED
        BY <1>2, <2>2, <4>3
    <3>2. CASE up /\ w \in DOMAIN sessions
      <4>1. ~Crash /\ ~Close
        BY <2>2 DEF Crash, Close, Down
      <4> QED
        BY <2>2, <3>2, <4>1, SessionsDropped, DroppedBare DEF Clean
    <3>3. CASE up /\ w \notin DOMAIN sessions
      <4>1. git[w].dir = "none" /\ Clean(w)
        BY <1>2, <2>2, <3>3 DEF Known
      <4>2. ~Work(w) /\ ~Commit(w) /\ ~Prune(w)
        BY <4>1 DEF Work, Commit, Prune
      <4>3. w # op.id
        BY <3>0, <3>3, OpFacts, WorktreeAssumption DEF NoOp, Op
      <4> QED
        BY <3>0, <4>1, <4>2, <4>3, OthersStay, CleanStays
    <3> QED
      BY <3>1, <3>2, <3>3
  <2> QED
    BY <2>1, <2>2
<1>3. ASSUME file' # file, NEW w \in Ids, w \notin DOMAIN sessions,
             Readable(file), up \/ w \notin DOMAIN file
      PROVE  Clean(w)'
  BY <1>1, <1>3, CleanStays DEF Known
<1>4. CASE file' # file /\ Close /\ Persist(Idled(sessions))
  <2>1. up /\ ~up' /\ sessions # <<>>
    BY <1>4 DEF Close, Free, Down, Active
  <2>2. Readable(file)
    BY <2>1 DEF TypeOK, OpOK
  <2>3. DOMAIN file' = DOMAIN sessions
    BY <1>0, <1>4, IdledTyped, RecordedTyped DEF Persist
  <2> QED
    BY <1>3, <1>4, <2>1, <2>2, <2>3
<1>5. CASE file' # file /\ Persist(sessions') /\ ~Close
  <2>1. DOMAIN file' = DOMAIN sessions'
    BY <1>0, <1>5, RecordedTyped DEF Persist
  <2>2. ~Crash
    BY <1>5 DEF Crash
  <2>3. ASSUME NEW w \in Ids, w \notin DOMAIN sessions' PROVE Clean(w)'
    <3>1. CASE w \in DOMAIN sessions
      BY <1>5, <2>2, <2>3, <3>1, SessionsDropped, DroppedBare DEF Clean
    <3>2. CASE Start
      <4>1. Readable(file)
        BY <1>5, <3>2 DEF Start
      <4>2. PICK failed : sessions' = Load(file, failed)
        BY <3>2, <4>1 DEF Start
      <4>3. DOMAIN sessions' = DOMAIN file
        BY <4>2 DEF Load
      <4>4. sessions = <<>>
        BY <3>2 DEF Start, TypeOK, OpOK
      <4> QED
        BY <1>3, <1>5, <2>3, <4>1, <4>3, <4>4
    <3>3. CASE w \notin DOMAIN sessions /\ ~Start
      <4>1. ~SpoilFile
        BY DEF SpoilFile, Readable
      <4> QED
        BY <1>3, <1>5, <2>3, <3>3, <4>1, SavingSteps
    <3> QED
      BY <3>1, <3>2, <3>3
  <2> QED
    BY <2>1, <2>3
<1>6. CASE SpoilFile
  BY <1>6 DEF SpoilFile, Readable
<1>7. Close => file' = file \/ Persist(Idled(sessions))
  BY DEF Close, MayPersist, PersistFails
<1> QED
  BY <1>2, <1>4, <1>5, <1>6, <1>7, FileStep

LEMMA InitKnown == Init => Known
BY DEF Init, Known, Clean, NoCheckout

\* Work in a worktree is known to the running manager or to the state file that
\* the next start reads, whatever failed and wherever the process died.
THEOREM WorkIsKnown == Spec => []WorkKnown
<1>1. Spec => [](TypeOK /\ Standing /\ Bare /\ Known)
  BY InitTypes, TypesStep, InitStanding, StandingStep, InitBare, BareStep, InitKnown,
     KnownStep, PTL DEF Spec
<1>2. Known => WorkKnown
  BY DEF Known, WorkKnown, Clean
<1> QED
  BY <1>1, <1>2, PTL

-----------------------------------------------------------------------------
(* The promise that WorktreeKeeper states, step by step.                     *)

\* Nothing that counts is put into a worktree or lost from it.
Same(w) ==
  /\ inside'[w].files <=> inside[w].files
  /\ (inside'[w].dependency = "foreign") <=> (inside[w].dependency = "foreign")
  /\ (git'[w].branch = "ahead") <=> (git[w].branch = "ahead")

LEMMA SameKept ==
  ASSUME \A w \in Ids : Same(w), file' = Corrupt <=> file = Corrupt
  PROVE  Kept' = Kept
BY DEF Kept, Same

\* Something is put into one worktree.
LEMMA PutKept ==
  ASSUME NEW w \in Ids, \A x \in Ids \ {w} : Same(x), file' = Corrupt <=> file = Corrupt,
         inside[w].files => inside'[w].files,
         inside[w].dependency = "foreign" => inside'[w].dependency = "foreign",
         git[w].branch = "ahead" => git'[w].branch = "ahead"
  PROVE  \E things \in SUBSET Keeper!Things : Kept' = Kept \cup ({w} \X things)
<1> DEFINE things == {t \in Keeper!Things : <<w, t>> \in Kept'}
<1>1. \A k \in Kept : k \in Kept'
  BY DEF Kept, Same
<1>2. \A k \in Kept' : k \in Kept \/ (k = <<w, k[2]>> /\ k[2] \in Keeper!Things)
  <2>1. ASSUME NEW k \in Kept', k[1] \in Ids, k = <<k[1], k[2]>>,
               k[2] \in Keeper!Things, k[1] # w
        PROVE  k \in Kept
    BY <2>1 DEF Kept, Same, Keeper!Things
  <2>2. ASSUME NEW k \in Kept'
        PROVE  \/ k \in Kept
               \/ k[1] \in Ids /\ k = <<k[1], k[2]>> /\ k[2] \in Keeper!Things
    <3>1. k \in Ids \X Keeper!Things \/ (k = <<"state file", "records">> /\ file' = Corrupt)
      BY <2>2 DEF Kept, Keeper!Things
    <3>2. CASE k \in Ids \X Keeper!Things
      BY <3>2
    <3>3. CASE k = <<"state file", "records">> /\ file' = Corrupt
      BY <3>3 DEF Kept
    <3> QED
      BY <3>1, <3>2, <3>3
  <2> QED
    BY <2>1, <2>2
<1>3. Kept' = Kept \cup ({w} \X things)
  BY <1>1, <1>2
<1> QED
  BY <1>3

\* Something is lost from one worktree.
LEMMA LossKept ==
  ASSUME NEW w \in Ids, \A x \in Ids \ {w} : Same(x), file' = Corrupt <=> file = Corrupt,
         inside'[w].files => inside[w].files,
         inside'[w].dependency = "foreign" => inside[w].dependency = "foreign",
         git'[w].branch = "ahead" => git[w].branch = "ahead"
  PROVE  \E lost \in SUBSET {k \in Kept : k[1] = w} : Kept' = Kept \ lost
<1> DEFINE lost == Kept \ Kept'
<1>1. \A k \in Kept' : k \in Kept
  BY DEF Kept, Same
<1>2. \A k \in Kept : k \in Kept' \/ k[1] = w
  BY DEF Kept, Same
<1>3. lost \in SUBSET {k \in Kept : k[1] = w} /\ Kept' = Kept \ lost
  BY <1>1, <1>2
<1> QED
  BY <1>3

\* An unreadable state file is never written over.
LEMMA CorruptStays ==
  ASSUME TypeOK, [Next]_vars, ~SpoilFile
  PROVE  file' = Corrupt <=> file = Corrupt
BY SavingSteps DEF Readable

\* No step of an operation but a removal changes what counts.
LEMMA OthersSame ==
  ASSUME TypeOK, [Next]_vars, NEW w \in Ids, w # op.id, ~Work(w), ~Commit(w)
  PROVE  Same(w)
<1>1. CASE Prune(w)
  BY <1>1, OutsideSteps, EmptyingSteps DEF Same, Empty
<1> QED
  BY <1>1, OthersStay DEF Same

LEMMA OwnSame ==
  ASSUME TypeOK, Bare, [Next]_vars, op # NoOp, ~RemoveCheckout, ~RemoveCheckoutFails
  PROVE  Same(op.id)
<1>0. op.id \in Ids /\ git[op.id].branch # "ahead"
  BY OpFacts DEF Bare, NothingAhead
<1>1. ASSUME Quiet \/ \E x \in Ids : Work(x) \/ Commit(x) \/ Prune(x) PROVE Same(op.id)
  BY <1>1, OwnStays DEF Same
<1>2. ASSUME \/ CreateBranch \/ Register \/ Fill \/ ConfigureHooks
             \/ AddFails \/ Unregister \/ DeleteBranch \/ Forget \/ RemoveBranch
      PROVE  Same(op.id)
  <2>1. inside' = inside
    BY <1>2 DEF CreateBranch, Register, Fill, ConfigureHooks, AddFails, Unregister,
                DeleteBranch, Forget, RemoveBranch
  <2>2. git'[op.id].branch \in {"none", "base", git[op.id].branch}
    BY <1>0, <1>2, AddSteps, FallbackSteps, RemovalSteps
  <2> QED
    BY <1>0, <2>1, <2>2 DEF Same
<1>3. ASSUME Reconcile \/ ReconcileFails PROVE Same(op.id)
  <2>1. git' = git
    BY <1>3 DEF Reconcile, ReconcileFails
  <2> QED
    BY <1>0, <1>3, <2>1, DependencySteps DEF Same
<1> QED
  BY <1>1, <1>2, <1>3 DEF Next, Enter, Rollback, Remove, Quiet

\* A task or a user puts something into a worktree.
LEMMA WorkKeeps ==
  ASSUME TypeOK, [Next]_vars, NEW w \in Ids, Work(w) \/ Commit(w)
  PROVE  \E things \in SUBSET Keeper!Things : Kept' = Kept \cup ({w} \X things)
<1>1. \A x \in Ids \ {w} : Same(x)
  <2>1. CASE Work(w)
    <3>1. git' = git
      BY <2>1 DEF Work
    <3> QED
      BY <2>1, <3>1, WorkStep DEF InsideApart, Same
  <2>2. CASE Commit(w)
    <3>1. inside' = inside
      BY <2>2 DEF Commit
    <3> QED
      BY <2>2, <3>1, OutsideSteps DEF Apart, Same
  <2> QED
    BY <2>1, <2>2
<1>2. file' = file
  BY DEF Work, Commit
<1>3. /\ inside[w].files => inside'[w].files
      /\ inside[w].dependency = "foreign" => inside'[w].dependency = "foreign"
  BY WorkStep DEF Commit
<1>4. git[w].branch = "ahead" => git'[w].branch = "ahead"
  BY OutsideSteps DEF Work
<1> QED
  BY <1>1, <1>2, <1>3, <1>4, PutKept

\* A removal takes what is in its own worktree.
LEMMA RemovalLoses ==
  ASSUME TypeOK, [Next]_vars, RemoveCheckout \/ RemoveCheckoutFails
  PROVE  \E lost \in SUBSET {k \in Kept : k[1] = op.id} : Kept' = Kept \ lost
<1>1. op.id \in Ids
  BY OperationOwns
<1>2. Apart(op.id) /\ InsideApart(op.id) /\ git'[op.id].branch = git[op.id].branch
  BY <1>1, RemovalSteps, EmptyingSteps
<1>3. inside'[op.id] = Empty \/ inside'[op.id] = inside[op.id]
  BY <1>1, EmptyingSteps
<1>4. \A x \in Ids \ {op.id} : Same(x)
  BY <1>2 DEF Apart, InsideApart, Same
<1>5. file' = file
  BY DEF RemoveCheckout, RemoveCheckoutFails
<1>6. /\ inside'[op.id].files => inside[op.id].files
      /\ inside'[op.id].dependency = "foreign" => inside[op.id].dependency = "foreign"
  BY <1>3 DEF Empty
<1> QED
  BY <1>1, <1>2, <1>4, <1>5, <1>6, LossKept

LEMMA KeptStep ==
  ASSUME TypeOK, Bare, [Next]_vars, ~SpoilFile, ~RemoveCheckout, ~RemoveCheckoutFails,
         ~\E w \in Ids : Work(w) \/ Commit(w)
  PROVE  Kept' = Kept
<1>1. ASSUME NEW w \in Ids PROVE Same(w)
  <2>1. op = NoOp => w # op.id
    BY <1>1, WorktreeAssumption DEF NoOp, Op
  <2> QED
    BY <1>1, <2>1, OwnSame, OthersSame
<1> QED
  BY <1>1, CorruptStays, SameKept

LEMMA SpoilKept == SpoilFile => Kept' = Kept \cup {<<Keeper!StateFile, "records">>}
BY DEF SpoilFile, Kept, Keeper!StateFile

\* A removal begins as StartRemove does, and goes on until it ends.
LEMMA RemovingStep ==
  ASSUME TypeOK, [Next]_vars, ~\E w \in Ids : StartRemove(w)
  PROVE  Removing' \in {Removing, None}
<1>1. ASSUME op' = NoOp PROVE Removing' = None
  BY <1>1 DEF Removing, NoOp, Op
<1>2. ASSUME NEW w \in Ids, EnterNew(w) \/ EnterKnown(w) PROVE Removing' = None
  BY <1>2 DEF EnterNew, EnterKnown, Removing, Op
<1>3. ASSUME op' = op PROVE Removing' = Removing
  BY <1>3 DEF Removing
<1>4. ASSUME \/ PersistCreating \/ CreateBranch \/ Register \/ Fill \/ ConfigureHooks
             \/ AddFails \/ Unregister \/ DeleteBranch \/ Reconcile
      PROVE  Removing' = None
  <2>1. op'.kind # "remove"
    BY <1>4, GoesTo DEF PersistCreating, CreateBranch, Register, Fill, ConfigureHooks, AddFails,
                Unregister, DeleteBranch, Reconcile, At, NoOp, Op
  <2> QED
    BY <2>1 DEF Removing
<1>5. CASE RemoveCheckout
  <2>1. op'.kind = op.kind /\ op'.id = op.id
    BY <1>5, GoesTo DEF RemoveCheckout
  <2> QED
    BY <2>1 DEF Removing
<1> QED
  BY <1>1, <1>2, <1>3, <1>4, <1>5, OpComes

LEMMA KeeperInit == Init => Keeper!Init
<1> SUFFICES ASSUME Init PROVE Kept = {} /\ Busy = {} /\ Removing = None
  BY DEF Keeper!Init
<1>1. Busy = {} /\ Removing = None
  BY DEF Init, Busy, Active, Removing, NoOp, Op
<1>2. file # Corrupt
  <2>1. file \in [{} -> Records]
    BY DEF Init
  <2> QED
    BY <2>1, WorktreeAssumption DEF Records, Statuses
<1>3. Kept = {}
  BY <1>2 DEF Init, Kept, NoCheckout, Empty
<1> QED
  BY <1>1, <1>3

LEMMA KeeperStep == TypeOK /\ Bare /\ [Next]_vars => [Keeper!Next]_Keeper!keeperVars
<1> SUFFICES ASSUME TypeOK, Bare, [Next]_vars PROVE Keeper!Next
  OBVIOUS
<1>0. Busy \subseteq Ids
  BY DEF Busy
<1>1. ASSUME NEW w \in Ids, Work(w) \/ Commit(w) PROVE Keeper!Put(w)
  <2>1. UNCHANGED <<sessions, op>> /\ op.id # w
    BY <1>1 DEF Work, Commit, Outside
  <2>2. Busy' = Busy /\ Removing' = Removing
    BY <2>1 DEF Busy, Active, Removing
  <2>3. w # Removing
    BY <2>1, WorktreeAssumption DEF Removing
  <2> QED
    BY <1>1, <2>2, <2>3, WorkKeeps DEF Keeper!Put
<1>2. ASSUME SpoilFile PROVE Keeper!Spoil
  <2>1. UNCHANGED <<sessions, op>>
    BY <1>2 DEF SpoilFile
  <2>2. Busy' = Busy /\ Removing' = Removing
    BY <2>1 DEF Busy, Active, Removing
  <2> QED
    BY <1>2, <2>2, SpoilKept DEF Keeper!Spoil
<1>3. ASSUME RemoveCheckout \/ RemoveCheckoutFails PROVE Keeper!Discard
  <2>1. Removing = op.id /\ op.id \in Ids
    BY <1>3, OperationOwns DEF RemoveCheckout, RemoveCheckoutFails, At, Removing
  <2>2. Removing # None
    BY <2>1, WorktreeAssumption
  <2>3. sessions' = sessions /\ ~\E w \in Ids : StartRemove(w)
    BY <1>3 DEF RemoveCheckout, RemoveCheckoutFails, StartRemove, At, Free, NoOp, Op
  <2>4. Busy' = Busy
    BY <2>3 DEF Busy, Active
  <2>5. Removing' \in {Removing, None}
    BY <2>3, RemovingStep
  <2>6. \E lost \in SUBSET {k \in Kept : k[1] = Removing} : Kept' = Kept \ lost
    BY <1>3, <2>1, RemovalLoses
  <2> QED
    BY <2>2, <2>4, <2>5, <2>6 DEF Keeper!Discard
<1>4. ASSUME NEW w \in Ids, StartRemove(w) PROVE Keeper!StartRemoval(w)
  <2>1. /\ op = NoOp /\ ~Active(w) /\ op' = Op("remove", w, "checkout", FALSE)
        /\ UNCHANGED <<sessions, git, inside, file>>
    BY <1>4 DEF StartRemove, Free, Removable
  <2>2. Removing = None /\ Removing' = w
    BY <2>1 DEF Removing, NoOp, Op
  <2>3. Busy' = Busy /\ w \notin Busy
    BY <2>1 DEF Busy, Active
  <2>4. Kept' = Kept
    BY <2>1 DEF Kept
  <2> QED
    BY <2>2, <2>3, <2>4 DEF Keeper!StartRemoval
<1>5. CASE /\ ~SpoilFile /\ ~RemoveCheckout /\ ~RemoveCheckoutFails
           /\ ~\E w \in Ids : Work(w) \/ Commit(w) \/ StartRemove(w)
  <2>1. Kept' = Kept
    BY <1>5, KeptStep
  <2>2. Removing' \in {Removing, None}
    BY <1>5, RemovingStep
  <2>3. CASE Enters
    <3>1. op.id \in Ids /\ op.id \notin Busy /\ Busy' = Busy \cup {op.id}
      BY <2>3 DEF Enters, Busy
    <3>2. Removing = None
      BY <2>3 DEF Enters, Removing
    <3>3. Keeper!Enter(op.id)
      BY <2>1, <2>2, <3>1, <3>2 DEF Keeper!Enter
    <3> QED
      BY <3>1, <3>3 DEF Keeper!Next
  <2>4. CASE Busy' \subseteq Busy
    <3>1. Keeper!Leave
      BY <2>1, <2>2, <2>4 DEF Keeper!Leave
    <3> QED
      BY <3>1 DEF Keeper!Next
  <2> QED
    BY <2>3, <2>4, BusyStep
<1> QED
  BY <1>1, <1>2, <1>3, <1>4, <1>5 DEF Keeper!Next

\* What is in a worktree survives everything but a removal that was asked for of
\* a worktree without a task, and an unreadable state file is left alone: every
\* step of the manager, of Git, of a failure or of a crash is a step of
\* WorktreeKeeper.
THEOREM WorktreeImplementsKeeper == Spec => ImplementsKeeper
<1>1. Spec => [](TypeOK /\ Bare)
  BY InitTypes, TypesStep, InitStanding, StandingStep, InitBare, BareStep, PTL DEF Spec
<1>2. TypeOK /\ Bare /\ [Next]_vars => [Keeper!Next]_Keeper!keeperVars
  BY KeeperStep
<1> QED
  BY <1>1, <1>2, KeeperInit, PTL DEF Spec, ImplementsKeeper, Keeper!Spec

=============================================================================
