-------------------------- MODULE McpCatalogProofs --------------------------
(***************************************************************************)
(* What the MCP runtime guarantees for any files, any servers and tools, and  *)
(* any number of edits, processes, sessions and loads: whose servers run,     *)
(* whose tools can be loaded, and which of them the model can call.           *)
(***************************************************************************)
EXTENDS McpCatalog, TLAPS

-----------------------------------------------------------------------------
(* Types.                                                                    *)

LEMMA InitTypes == Init => TypeOK
<1> SUFFICES ASSUME Init PROVE TypeOK
  OBVIOUS
<1>1. RuntimeOK
  <2>1. catalog \in [{} -> Servers]
    BY DEF Init
  <2> QED
    BY <2>1 DEF Init, RuntimeOK
<1>2. SessionOK
  BY DEF Init, SessionOK, NoCall
<1>3. FilesOK /\ CountsOK
  BY McpAssumption DEF Init, FilesOK, CountsOK
<1>4. trusted \in BOOLEAN /\ initialized \in BOOLEAN
  BY DEF Init
<1> QED
  BY <1>1, <1>2, <1>3, <1>4 DEF TypeOK

LEMMA Initializing ==
  ASSUME RuntimeOK, NEW c, Initialize(c)
  PROVE  /\ run' \in {"registering", "starting"}
         /\ server' \in [Servers -> {"off", "starting", "ready", "stopping", "failed"}]
BY DEF Initialize, RuntimeOK

LEMMA RuntimeStep == RuntimeOK /\ [Next]_vars => RuntimeOK'
<1> SUFFICES ASSUME RuntimeOK, [Next]_vars PROVE RuntimeOK'
  OBVIOUS
<1>1. ASSUME NEW c, Initialize(c), UNCHANGED <<pending, catalog>> PROVE RuntimeOK'
  BY <1>1, Initializing DEF RuntimeOK
<1>2. ASSUME InitializeUnasked \/ \E c \in Choices : AnswerProject(c) PROVE RuntimeOK'
  BY <1>1, <1>2 DEF InitializeUnasked, AnswerProject
<1>3. ASSUME NEW s \in Servers, Connects(s) \/ Fails(s) \/ TimesOut(s) \/ Stops(s)
      PROVE  RuntimeOK'
  BY <1>3 DEF Connects, Fails, TimesOut, Stops, RuntimeOK
<1>4. ASSUME NEW s \in Servers, Register(s) PROVE RuntimeOK'
  <2>1. PICK offered \in SUBSET Tools : catalog \in [offered -> Servers]
    BY DEF RuntimeOK
  <2>2. catalog' \in [offered \cup Offers[s] -> Servers] /\ offered \cup Offers[s] \subseteq Tools
    BY <1>4, <2>1, McpAssumption DEF Register
  <2> QED
    BY <1>4, <2>2 DEF Register, RuntimeOK
<1>5. ASSUME StartupReturns \/ StartupTimesOut \/ LoopFails \/ InterruptStartup PROVE RuntimeOK'
  BY <1>5 DEF StartupReturns, Started, Ready, StartupTimesOut, LoopFails, InterruptStartup,
              RuntimeOK, runtime
<1>6. CASE Exit
  <2>1. catalog' \in [{} -> Servers]
    BY <1>6 DEF Exit
  <2> QED
    BY <1>6, <2>1 DEF Exit, RuntimeOK
<1>7. ASSUME StartProcess \/ AskProject \/ Up \/ (\E s \in Sessions : Switch(s))
             \/ RestoreSession \/ InterruptRestore
      PROVE  RuntimeOK'
  BY <1>7 DEF StartProcess, AskProject, Up, Switch, RestoreSession, InterruptRestore,
              RuntimeOK, runtime
<1>8. ASSUME EditFile \/ (\E names \in SUBSET Tools \ {{}} : CallLoad(names))
             \/ LoadTools \/ LogLoad \/ LoadLost \/ UNCHANGED vars
      PROVE  RuntimeOK'
  BY <1>8 DEF EditFile, CallLoad, LoadTools, LogLoad, LoadLost, vars, RuntimeOK, runtime
<1> QED
  BY <1>2, <1>3, <1>4, <1>5, <1>6, <1>7, <1>8 DEF Next, Exhausted

\* The question is only asked about a file.
Asked == run = "asking" => config # NoFile

LEMMA FilesStep == FilesOK /\ Asked /\ [Next]_vars => FilesOK' /\ Asked'
<1> SUFFICES ASSUME FilesOK, Asked, [Next]_vars PROVE FilesOK' /\ Asked'
  OBVIOUS
<1> USE DEF FilesOK, Asked
<1>1. ASSUME NEW c, Initialize(c)
      PROVE  trust' \in Versions \cup {NoFile} /\ config' = config /\ run' # "asking"
  BY <1>1 DEF Initialize, Saved
<1>2. ASSUME NEW c \in Choices, AnswerProject(c) PROVE FilesOK' /\ Asked'
  BY <1>1, <1>2 DEF AnswerProject
<1>3. CASE InitializeUnasked
  BY <1>1, <1>3 DEF InitializeUnasked, history
<1>4. ASSUME EditFile \/ StartProcess \/ AskProject \/ Exit PROVE FilesOK' /\ Asked'
  BY <1>4 DEF EditFile, StartProcess, AskProject, Exit, disk, configuration, history
<1>5. ASSUME NEW s \in Servers, Connects(s) \/ Fails(s) \/ TimesOut(s) \/ Stops(s) \/ Register(s)
      PROVE  FilesOK' /\ Asked'
  BY <1>5 DEF Connects, Fails, TimesOut, Stops, Register, disk, configuration, history
<1>6. ASSUME StartupReturns \/ StartupTimesOut \/ LoopFails \/ InterruptStartup \/ Up
      PROVE  FilesOK' /\ Asked'
  BY <1>6 DEF StartupReturns, StartupTimesOut, LoopFails, InterruptStartup, Up, disk,
              configuration, history
<1>7. ASSUME (\E s \in Sessions : Switch(s)) \/ RestoreSession \/ InterruptRestore \/ LoadLost
      PROVE  FilesOK' /\ Asked'
  BY <1>7 DEF Switch, RestoreSession, InterruptRestore, LoadLost, disk, configuration, history
<1>8. ASSUME (\E names \in SUBSET Tools \ {{}} : CallLoad(names)) \/ LoadTools \/ LogLoad
             \/ UNCHANGED vars
      PROVE  FilesOK' /\ Asked'
  BY <1>8 DEF CallLoad, LoadTools, LogLoad, vars, disk, configuration, history
<1> QED
  BY <1>2, <1>3, <1>4, <1>5, <1>6, <1>7, <1>8 DEF Next, Exhausted

LEMMA CountsStep == CountsOK /\ [Next]_vars => CountsOK'
<1> SUFFICES ASSUME CountsOK, [Next]_vars PROVE CountsOK'
  OBVIOUS
<1>1. ASSUME \/ UNCHANGED <<runs, loads>> /\ edits < MaxEdits /\ edits' = edits + 1
             \/ UNCHANGED <<edits, loads>> /\ runs < MaxRuns /\ runs' = runs + 1
             \/ UNCHANGED <<runs, edits>> /\ loads < MaxLoads /\ loads' = loads + 1
      PROVE  CountsOK'
  BY <1>1, McpAssumption DEF CountsOK
<1>2. ASSUME UNCHANGED bounds PROVE CountsOK'
  BY <1>2 DEF CountsOK, bounds
<1>3. ASSUME \/ AskProject \/ InitializeUnasked \/ \E c \in Choices : AnswerProject(c)
             \/ \E s \in Servers : Connects(s) \/ Fails(s) \/ TimesOut(s) \/ Stops(s) \/ Register(s)
             \/ StartupReturns \/ StartupTimesOut \/ LoopFails \/ InterruptStartup \/ Up
             \/ \E s \in Sessions : Switch(s)
             \/ RestoreSession \/ InterruptRestore \/ LoadTools \/ LogLoad \/ LoadLost \/ Exit
             \/ UNCHANGED vars
      PROVE  UNCHANGED bounds
  BY <1>3 DEF AskProject, InitializeUnasked, AnswerProject, Connects, Fails, TimesOut, Stops,
              Register, StartupReturns, StartupTimesOut, LoopFails, InterruptStartup, Up,
              Switch, RestoreSession, InterruptRestore, LoadTools, LogLoad, LoadLost, Exit, vars
<1>4. ASSUME EditFile \/ StartProcess \/ \E names \in SUBSET Tools \ {{}} : CallLoad(names)
      PROVE  CountsOK'
  BY <1>1, <1>4 DEF EditFile, StartProcess, CallLoad
<1> QED
  BY <1>2, <1>3, <1>4 DEF Next, Exhausted

LEMMA FlagsStep ==
  trusted \in BOOLEAN /\ initialized \in BOOLEAN /\ [Next]_vars =>
    trusted' \in BOOLEAN /\ initialized' \in BOOLEAN
BY DEF Next, Exhausted, vars, configuration, EditFile, StartProcess, AskProject,
       InitializeUnasked, AnswerProject, Initialize, Connects, Fails, TimesOut, Stops,
       Register, StartupReturns, StartupTimesOut, LoopFails, InterruptStartup, Up, Switch,
       RestoreSession, InterruptRestore, CallLoad, LoadTools, LogLoad, LoadLost, Exit

\* What is restored is a set of tools, and so are the names a call may load.
LEMMA RestoredTools == ASSUME RuntimeOK PROVE Restored(active) \subseteq Tools
BY DEF Restored, RuntimeOK

LEMMA LoggingTypes ==
  ASSUME SessionOK, NEW r \in Entry, Append1(r)
  PROVE  log' \in [Sessions -> Seq(Entry)]
BY DEF SessionOK, Append1

LEMMA SessionStep == RuntimeOK /\ SessionOK /\ CountsOK /\ [Next]_vars => SessionOK'
<1> SUFFICES ASSUME RuntimeOK, SessionOK, CountsOK, [Next]_vars PROVE SessionOK'
  OBVIOUS
<1> DEFINE Call == [id : Nat, names : SUBSET Tools, loaded : SUBSET Tools,
                    stage : {"none", "called", "loaded", "refused"}]
<1>1. /\ active \in Sessions /\ log \in [Sessions -> Seq(Entry)]
      /\ registered \subseteq Tools /\ call \in Call /\ NoCall \in Call
  BY DEF SessionOK, NoCall
<1>2. ASSUME UNCHANGED session PROVE SessionOK'
  BY <1>1, <1>2 DEF SessionOK, session
<1>3. CASE StartProcess
  BY <1>1, <1>3 DEF StartProcess, SessionOK
<1>4. ASSUME RestoreSession \/ InterruptRestore PROVE SessionOK'
  <2>1. registered' = Restored(active) \/ registered' \subseteq registered
        \/ registered' \subseteq Restored(active)
    BY <1>4 DEF RestoreSession, InterruptRestore
  <2>2. registered' \subseteq Tools
    BY <1>1, <2>1, RestoredTools
  <2> QED
    BY <1>1, <1>4, <2>2 DEF RestoreSession, InterruptRestore, SessionOK
<1>5. ASSUME NEW s \in Sessions, Switch(s) PROVE SessionOK'
  <2>1. <<>> \in Seq(Entry) /\ log' \in {log, [log EXCEPT ![active] = <<>>]}
    BY <1>5 DEF Switch
  <2>2. log' \in [Sessions -> Seq(Entry)]
    BY <1>1, <2>1
  <2> QED
    BY <1>1, <1>5, <2>2 DEF Switch, SessionOK
<1>6. ASSUME NEW names \in SUBSET Tools, CallLoad(names) PROVE SessionOK'
  <2>1. loads + 1 \in Nat
    BY McpAssumption DEF CountsOK
  <2>2. [kind |-> "call", id |-> loads + 1, names |-> names, error |-> FALSE] \in Entry
    BY <2>1 DEF Entry
  <2>3. log' \in [Sessions -> Seq(Entry)]
    BY <1>6, <2>2, LoggingTypes DEF CallLoad
  <2>4. call' \in Call
    BY <1>6, <2>1 DEF CallLoad
  <2> QED
    BY <1>1, <1>6, <2>3, <2>4 DEF CallLoad, SessionOK
<1>7. CASE LoadTools
  <2>1. Loads(call.names) \subseteq Tools
    BY <1>1 DEF Loads
  <2>2. call' \in Call
    BY <1>1, <1>7, <2>1 DEF LoadTools
  <2> QED
    BY <1>1, <1>7, <2>1, <2>2 DEF LoadTools, SessionOK
<1>8. ASSUME LogLoad \/ LoadLost PROVE SessionOK'
  <2>1. \A e \in BOOLEAN : Result(e) \in Entry
    BY <1>1 DEF Result, Entry
  <2>2. log' \in [Sessions -> Seq(Entry)] /\ call' = NoCall /\ active' = active
    BY <1>1, <1>8, <2>1, LoggingTypes DEF LogLoad, LoadLost
  <2>3. registered' \subseteq Tools
    BY <1>1, <1>8 DEF LogLoad, LoadLost, Loads
  <2> QED
    BY <1>1, <2>2, <2>3 DEF SessionOK
<1>9. CASE Exit
  BY <1>1, <1>9 DEF Exit, SessionOK
<1>10. ASSUME EditFile \/ AskProject \/ InitializeUnasked \/ (\E c \in Choices : AnswerProject(c))
              \/ StartupReturns \/ StartupTimesOut \/ LoopFails \/ InterruptStartup
              \/ Up \/ UNCHANGED vars
              \/ \E s \in Servers : Connects(s) \/ Fails(s) \/ TimesOut(s) \/ Stops(s) \/ Register(s)
       PROVE  UNCHANGED session
  BY <1>10 DEF EditFile, AskProject, InitializeUnasked, AnswerProject, StartupReturns,
               StartupTimesOut, LoopFails, InterruptStartup, Up, vars,
               Connects, Fails, TimesOut, Stops, Register
<1> QED
  BY <1>2, <1>3, <1>4, <1>5, <1>6, <1>7, <1>8, <1>9, <1>10 DEF Next, Exhausted

LEMMA TypesStep == TypeOK /\ Asked /\ [Next]_vars => TypeOK' /\ Asked'
BY RuntimeStep, SessionStep, FilesStep, CountsStep, FlagsStep DEF TypeOK

LEMMA TypesHold == Spec => [](TypeOK /\ Asked)
<1>1. Init => Asked
  BY DEF Init, Asked
<1> QED
  BY <1>1, InitTypes, TypesStep, PTL DEF Spec

\* Files, servers, catalog, calls and logs have their types.
THEOREM McpTypeCorrect == Spec => []TypeOK
BY TypesHold, PTL

-----------------------------------------------------------------------------
(* Trust.                                                                    *)

\* The file of trust names a version that was always allowed, and a version is
\* trusted only if it is that one.  No server outlives its process.
Trust ==
  /\ trust \in always \cup {NoFile}
  /\ trusted => config \in always
  /\ run = "off" => \A s \in Servers : server[s] = "off"
  /\ StartedWasAllowed

LEMMA InitTrust == Init => Trust
<1> SUFFICES ASSUME Init PROVE Trust
  OBVIOUS
<1>1. \A s \in Servers : server[s] = "off"
  BY DEF Init
<1> QED
  BY <1>1 DEF Init, Trust, StartedWasAllowed

\* A server that is started comes from the user's file, or the project's is
\* trusted or was just allowed.
LEMMA Starting ==
  ASSUME NEW c, Initialize(c), NEW s \in Servers, s[1] = "project",
         server \in [Servers -> {"off", "starting", "ready", "stopping", "failed"}],
         server'[s] # "off"
  PROVE  server[s] # "off" \/ trusted \/ c \in {"allow_once", "allow_always"}
<1>1. CASE s \in Merged(FALSE)
  BY <1>1 DEF Merged
<1>2. CASE ~trusted /\ c \notin {"allow_once", "allow_always"} /\ s \notin Merged(FALSE)
  BY <1>2 DEF Initialize
<1> QED
  BY <1>1, <1>2

LEMMA TrustStep == TypeOK /\ Trust /\ [Next]_vars => Trust'
<1> SUFFICES ASSUME TypeOK, Trust, [Next]_vars PROVE Trust'
  OBVIOUS
<1>0. server \in [Servers -> {"off", "starting", "ready", "stopping", "failed"}]
  BY DEF TypeOK, RuntimeOK
<1>1. ASSUME NEW c \in Choices, AnswerProject(c) PROVE Trust'
  <2>1. allowed \subseteq allowed' /\ always \subseteq always' /\ Initialize(c)
    BY <1>1 DEF AnswerProject
  <2>2. /\ c = "allow_always" => config \in always'
        /\ c \in {"allow_once", "allow_always"} => config \in allowed'
    BY <1>1 DEF AnswerProject
  <2>3. config' = config /\ trusted' = trusted /\ run' # "off"
    BY <2>1 DEF Initialize
  <2>4. trust' = trust \/ (c = "allow_always" /\ trust' = config)
    BY <2>1 DEF Initialize, Saved
  <2>5. ASSUME NEW s \in Servers, s[1] = "project", server'[s] # "off"
        PROVE  config' \in allowed' \cup always'
    BY <1>0, <2>1, <2>2, <2>3, <2>5, Starting DEF Trust, StartedWasAllowed
  <2> QED
    BY <2>1, <2>2, <2>3, <2>4, <2>5 DEF Trust, StartedWasAllowed
<1>2. CASE InitializeUnasked
  <2>1. Initialize("none") /\ UNCHANGED <<allowed, always>>
    BY <1>2 DEF InitializeUnasked, history
  <2>2. config' = config /\ trusted' = trusted /\ run' # "off" /\ trust' = trust
    BY <2>1 DEF Initialize
  <2>3. ASSUME NEW s \in Servers, s[1] = "project", server'[s] # "off"
        PROVE  config' \in allowed' \cup always'
    BY <1>0, <2>1, <2>2, <2>3, Starting DEF Trust, StartedWasAllowed
  <2> QED
    BY <2>1, <2>2, <2>3 DEF Trust, StartedWasAllowed
<1>3. CASE StartProcess
  <2>1. \A s \in Servers : server'[s] = "off"
    BY <1>3 DEF StartProcess, Trust, runtime
  <2>2. trusted' => config' \in always'
    BY <1>3 DEF StartProcess, Trust, history
  <2>3. trust' = trust /\ always' = always
    BY <1>3 DEF StartProcess, disk, history
  <2> QED
    BY <2>1, <2>2, <2>3 DEF Trust, StartedWasAllowed
<1>4. CASE Exit
  <2>1. \A s \in Servers : server'[s] = "off"
    BY <1>4 DEF Exit
  <2>2. ~trusted' /\ trust' = trust /\ always' = always
    BY <1>4 DEF Exit, disk
  <2> QED
    BY <2>1, <2>2 DEF Trust, StartedWasAllowed
<1>5. ASSUME UNCHANGED <<trust, config, trusted, allowed, always>>,
             \A s \in Servers : server'[s] # "off" => server[s] # "off",
             run' = "off" => run = "off"
      PROVE  Trust'
  BY <1>5 DEF Trust, StartedWasAllowed
<1>6. ASSUME NEW s \in Servers, Connects(s) \/ Fails(s) \/ TimesOut(s) \/ Stops(s)
      PROVE  Trust'
  BY <1>0, <1>5, <1>6 DEF Connects, Fails, TimesOut, Stops, disk, configuration, history
<1>7. ASSUME StartupReturns \/ StartupTimesOut \/ LoopFails \/ InterruptStartup \/ Up
             \/ AskProject \/ \E s \in Servers : Register(s)
      PROVE  Trust'
  BY <1>5, <1>7 DEF StartupReturns, StartupTimesOut, LoopFails, InterruptStartup, Up,
                    AskProject, Register, disk, configuration, history, runtime
<1>8. ASSUME EditFile \/ (\E s \in Sessions : Switch(s)) \/ RestoreSession \/ InterruptRestore
             \/ (\E names \in SUBSET Tools \ {{}} : CallLoad(names)) \/ LoadTools \/ LogLoad
             \/ LoadLost \/ UNCHANGED vars
      PROVE  Trust'
  BY <1>5, <1>8 DEF EditFile, Switch, RestoreSession, InterruptRestore, CallLoad, LoadTools,
                    LogLoad, LoadLost, vars, disk, configuration, history, runtime
<1> QED
  BY <1>1, <1>2, <1>3, <1>4, <1>6, <1>7, <1>8 DEF Next, Exhausted

\* A server of the project's file runs only if the user allowed the version of
\* the file it was read from, in this process or for always.
THEOREM OnlyAllowedStart == Spec => []StartedWasAllowed
<1>1. Trust => StartedWasAllowed
  BY DEF Trust
<1> QED
  BY <1>1, InitTrust, TrustStep, TypesHold, PTL DEF Spec

-----------------------------------------------------------------------------
(* The catalog.                                                              *)

Undisturbed == incidents \cap {"interrupted", "slow", "loop"} = {}
Served(s) == Offers[s] \subseteq DOMAIN catalog

\* Unless startup was disturbed, it leaves no server between two states, and the
\* tools of a server that is ready are in the catalog, or will be before the
\* agent goes on.
Serving ==
  Undisturbed /\ run # "starting" =>
    /\ Settled
    /\ \A s \in Ready : Served(s) \/ (run = "registering" /\ s \in pending)

LEMMA InitServing == Init => Serving
<1> SUFFICES ASSUME Init PROVE Serving
  OBVIOUS
<1>1. \A s \in Servers : server[s] = "off"
  BY DEF Init
<1> QED
  BY <1>1 DEF Serving, Settled, Ready

LEMMA ServingStep == TypeOK /\ Serving /\ [Next]_vars => Serving'
<1> SUFFICES ASSUME TypeOK, Serving, [Next]_vars PROVE Serving'
  OBVIOUS
<1>0. server \in [Servers -> {"off", "starting", "ready", "stopping", "failed"}]
  BY DEF TypeOK, RuntimeOK
\* Nothing happens to the servers, and nothing that was noted is forgotten.
<1>1. ASSUME UNCHANGED <<server, catalog>>, Undisturbed' => Undisturbed,
             run' = "starting" \/ (run # "starting" /\ (run = "registering" => run' = run /\ pending' = pending))
      PROVE  Serving'
  BY <1>1 DEF Serving, Settled, Ready, Served
<1>2. ASSUME NEW c, Initialize(c), run # "registering", run # "starting",
             UNCHANGED <<catalog, incidents>>
      PROVE  Serving'
  <2>1. CASE run' = "starting"
    BY <2>1 DEF Serving
  <2>2. CASE run' # "starting"
    <3>1. \A s \in Servers : ~(~initialized /\ s \in Merged(trusted \/ c \in {"allow_once", "allow_always"}))
      BY <1>2, <2>2 DEF Initialize
    <3>2. \A s \in Servers : server'[s] = server[s]
      BY <1>2, <3>1 DEF Initialize
    <3> QED
      BY <1>2, <3>2 DEF Serving, Settled, Ready, Served, Undisturbed
  <2> QED
    BY <2>1, <2>2
<1>3. ASSUME InitializeUnasked \/ \E c \in Choices : AnswerProject(c) PROVE Serving'
  BY <1>2, <1>3 DEF InitializeUnasked, AnswerProject, history
<1>4. ASSUME NEW s \in Servers, Connects(s) \/ Fails(s) \/ TimesOut(s) \/ Stops(s)
      PROVE  Serving'
  <2>1. UNCHANGED <<run, catalog, incidents>>
    BY <1>4 DEF Connects, Fails, TimesOut, Stops, history
  <2>2. CASE server[s] \in {"starting", "stopping"} \/ run = "starting"
    BY <2>1, <2>2 DEF Serving, Settled, Undisturbed
  <2>3. CASE server[s] = "ready" /\ s \in pending
    <3>1. server' = [server EXCEPT ![s] = "failed"] /\ pending' = pending \ {s}
      BY <1>4, <2>3 DEF Connects, Fails, TimesOut, Stops
    <3> QED
      BY <1>0, <2>1, <3>1 DEF Serving, Settled, Ready, Served, Undisturbed
  <2> QED
    BY <1>4, <2>2, <2>3 DEF Connects, Fails, TimesOut, Stops
<1>5. CASE StartupReturns
  BY <1>5 DEF StartupReturns, Started, Serving, Settled, Ready
<1>6. ASSUME StartupTimesOut \/ LoopFails PROVE Serving'
  BY <1>6 DEF StartupTimesOut, LoopFails, Serving, Undisturbed
<1>7. ASSUME NEW s \in Servers, Register(s) PROVE Serving'
  <2>1. /\ run = "registering" /\ UNCHANGED <<run, server, incidents>>
        /\ pending' = pending \ {s} /\ DOMAIN catalog' = DOMAIN catalog \cup Offers[s]
    BY <1>7 DEF Register, history
  <2> QED
    BY <2>1 DEF Serving, Settled, Ready, Served, Undisturbed
<1>8. CASE InterruptStartup
  BY <1>8 DEF InterruptStartup, Serving, Settled, Ready, Served, Undisturbed
<1>9. CASE Up
  BY <1>9 DEF Up, Serving, Settled, Ready, Served, Undisturbed, runtime, history
<1>10. CASE Exit
  <2>1. \A s \in Servers : server'[s] = "off"
    BY <1>10 DEF Exit
  <2> QED
    BY <2>1 DEF Serving, Settled, Ready
<1>11. ASSUME StartProcess \/ AskProject \/ (\E s \in Sessions : Switch(s)) \/ RestoreSession
              \/ InterruptRestore
       PROVE  Serving'
  BY <1>1, <1>11 DEF StartProcess, AskProject, Switch, RestoreSession, InterruptRestore,
                     runtime, history, Undisturbed
<1>12. ASSUME EditFile \/ (\E names \in SUBSET Tools \ {{}} : CallLoad(names)) \/ LoadTools
              \/ LogLoad \/ LoadLost \/ UNCHANGED vars
       PROVE  Serving'
  <2>1. UNCHANGED <<run, server, pending, catalog>>
    BY <1>12 DEF EditFile, CallLoad, LoadTools, LogLoad, LoadLost, vars, runtime
  <2>2. incidents \subseteq incidents'
    BY <1>12 DEF EditFile, CallLoad, LoadTools, LogLoad, LoadLost, vars, history
  <2> QED
    BY <2>1, <2>2 DEF Serving, Settled, Ready, Served, Undisturbed
<1> QED
  BY <1>3, <1>4, <1>5, <1>6, <1>7, <1>8, <1>9, <1>10, <1>11, <1>12 DEF Next, Exhausted

\* Once startup is over without an interrupt, a server that would not stop or a
\* missing event loop, the tools of every server that became ready can be loaded.
THEOREM SiblingsAreServed == Spec => []SiblingsServe
<1>1. Serving => SiblingsServe
  BY DEF Serving, SiblingsServe, Undisturbed, Served
<1> QED
  BY <1>1, InitServing, ServingStep, TypesHold, PTL DEF Spec

-----------------------------------------------------------------------------
(* What a log gives back.                                                    *)

LEMMA AppendedEntry ==
  ASSUME NEW l \in Seq(Entry), NEW r \in Entry
  PROVE  /\ DOMAIN Append(l, r) = DOMAIN l \cup {Len(l) + 1}
         /\ Len(l) + 1 \notin DOMAIN l
         /\ Append(l, r)[Len(l) + 1] = r
         /\ \A i \in DOMAIN l : Append(l, r)[i] = l[i]
OBVIOUS

\* The members of a replayed log.
LEMMA InReplayed ==
  ASSUME NEW l, NEW t
  PROVE  t \in Replayed(l) <=>
           \E i, k \in DOMAIN l : /\ l[i].kind = "call" /\ t \in l[i].names
                                  /\ l[k].kind = "result" /\ ~l[k].error /\ l[k].id = l[i].id
BY DEF Replayed, Results

\* A new call gives nothing back yet, and a failed one never does.
LEMMA NothingGiven ==
  ASSUME NEW l \in Seq(Entry), NEW r \in Entry,
         \/ r.kind = "call" /\ \A i \in DOMAIN l : l[i].id # r.id
         \/ r.kind = "result" /\ r.error
  PROVE  Replayed(Append(l, r)) = Replayed(l)
<1> DEFINE m == Append(l, r)
           n == Len(l) + 1
<1>1. /\ DOMAIN m = DOMAIN l \cup {n} /\ n \notin DOMAIN l /\ m[n] = r
      /\ \A i \in DOMAIN l : m[i] = l[i]
  BY AppendedEntry
<1> HIDE DEF m, n
<1>2. ASSUME NEW t PROVE t \in Replayed(m) <=> t \in Replayed(l)
  <2>1. ASSUME NEW i \in DOMAIN m, NEW k \in DOMAIN m, m[i].kind = "call",
               m[k].kind = "result", ~m[k].error, m[k].id = m[i].id
        PROVE  i \in DOMAIN l /\ k \in DOMAIN l
    BY <1>1, <2>1
  <2> QED
    BY <1>1, <2>1, InReplayed
<1> QED
  BY <1>2 DEF m

\* The result of a call gives back the names of that call.
LEMMA NamesGiven ==
  ASSUME NEW l \in Seq(Entry), NEW r \in Entry, r.kind = "result", ~r.error, NEW names,
         \E i \in DOMAIN l : l[i].id = r.id,
         \A i \in DOMAIN l : l[i].id = r.id => l[i].kind = "call" /\ l[i].names = names
  PROVE  Replayed(Append(l, r)) = Replayed(l) \cup names
<1> DEFINE m == Append(l, r)
           n == Len(l) + 1
<1>1. /\ DOMAIN m = DOMAIN l \cup {n} /\ n \notin DOMAIN l /\ m[n] = r
      /\ \A i \in DOMAIN l : m[i] = l[i]
  BY AppendedEntry
<1> HIDE DEF m, n
<1>2. ASSUME NEW t, t \in Replayed(m) PROVE t \in Replayed(l) \cup names
  BY <1>1, <1>2, InReplayed
<1>3. ASSUME NEW t \in Replayed(l) PROVE t \in Replayed(m)
  BY <1>1, InReplayed
<1>4. ASSUME NEW t \in names PROVE t \in Replayed(m)
  <2>1. PICK i \in DOMAIN l : l[i].id = r.id
    OBVIOUS
  <2> QED
    BY <1>1, <2>1, InReplayed
<1> QED
  BY <1>2, <1>3, <1>4 DEF m

-----------------------------------------------------------------------------
(* Calls and what they register.                                             *)

\* A call runs only once the agent is up.  Its log has the call and nothing else
\* under its number, and no log has a later number.
Calling ==
  /\ call = NoCall \/ run = "up"
  /\ call.stage = "none" => call = NoCall
  /\ \A s \in Sessions : \A i \in DOMAIN log[s] : log[s][i].id <= loads
  /\ call # NoCall =>
       /\ call.id <= loads
       /\ \E i \in DOMAIN log[active] : log[active][i].id = call.id
       /\ \A i \in DOMAIN log[active] : log[active][i].id = call.id =>
            log[active][i].kind = "call" /\ log[active][i].names = call.names

Recorded == incidents \cap {"unlogged", "unrestored"} = {}

\* While a call has loaded names that its log does not give back yet, these are
\* the names of the call, and it knows which of them are new.
Logged ==
  run = "up" /\ Recorded =>
    /\ call.stage # "loaded" => registered = Restored(active) /\ call.loaded = {}
    /\ call.stage = "loaded" =>
         /\ call.names \subseteq DOMAIN catalog
         /\ registered = Restored(active) \cup call.names
         /\ call.loaded = call.names \ Restored(active)

LEMMA InitCalls == Init => Calling /\ Logged
<1> SUFFICES ASSUME Init PROVE Calling /\ Logged
  OBVIOUS
<1>1. \A s \in Sessions : DOMAIN log[s] = {}
  BY DEF Init
<1> QED
  BY <1>1 DEF Init, Calling, Logged

\* The steps that leave session, catalog and counts alone.
LEMMA QuietCalls ==
  ASSUME Calling, Logged, UNCHANGED <<session, loads>>,
         \/ UNCHANGED <<run, catalog>> /\ (Recorded' => Recorded)
         \/ run' # "up" /\ call = NoCall
  PROVE  Calling' /\ Logged'
BY DEF Calling, Logged, Restored, session

\* The result of the call that runs is its own.
LEMMA ResultLogged ==
  ASSUME TypeOK, Calling, call # NoCall, NEW e \in BOOLEAN, Append1(Result(e))
  PROVE  /\ \A s \in Sessions : \A i \in DOMAIN log'[s] : log'[s][i].id <= loads
         /\ e => Replayed(log'[active]) = Replayed(log[active])
         /\ ~e => Replayed(log'[active]) = Replayed(log[active]) \cup call.names
<1> DEFINE r == Result(e)
           m == Append(log[active], r)
<1>1. /\ log \in [Sessions -> Seq(Entry)] /\ active \in Sessions
      /\ call \in [id : Nat, names : SUBSET Tools, loaded : SUBSET Tools,
                   stage : {"none", "called", "loaded", "refused"}]
  BY DEF TypeOK, SessionOK
<1>2. r \in Entry /\ r.kind = "result" /\ r.id = call.id /\ r.error = e
  BY <1>1 DEF Result, Entry
<1>3. log'[active] = m /\ \A s \in Sessions \ {active} : log'[s] = log[s]
  BY <1>1 DEF Append1
<1> HIDE DEF r
<1>4. /\ DOMAIN m = DOMAIN log[active] \cup {Len(log[active]) + 1}
      /\ m[Len(log[active]) + 1] = r
      /\ \A i \in DOMAIN log[active] : m[i] = log[active][i]
  BY <1>1, <1>2, AppendedEntry
<1>5. e => Replayed(m) = Replayed(log[active])
  BY <1>1, <1>2, NothingGiven
<1>6. ~e => Replayed(m) = Replayed(log[active]) \cup call.names
  <2>1. /\ \E i \in DOMAIN log[active] : log[active][i].id = r.id
        /\ \A i \in DOMAIN log[active] : log[active][i].id = r.id =>
             log[active][i].kind = "call" /\ log[active][i].names = call.names
    BY <1>2 DEF Calling
  <2>2. log[active] \in Seq(Entry) /\ r \in Entry /\ r.kind = "result" /\ (~e => ~r.error)
    BY <1>1, <1>2
  <2> HIDE DEF m
  <2> QED
    BY <2>1, <2>2, NamesGiven DEF m
<1> HIDE DEF m
<1>7. \A s \in Sessions : \A i \in DOMAIN log'[s] : log'[s][i].id <= loads
  BY <1>2, <1>3, <1>4 DEF Calling
<1> QED
  BY <1>3, <1>5, <1>6, <1>7

LEMMA CallsStep == TypeOK /\ Calling /\ Logged /\ [Next]_vars => Calling' /\ Logged'
<1> SUFFICES ASSUME TypeOK, Calling, Logged, [Next]_vars PROVE Calling' /\ Logged'
  OBVIOUS
<1>0. /\ loads \in Nat /\ log \in [Sessions -> Seq(Entry)] /\ active \in Sessions
      /\ call \in [id : Nat, names : SUBSET Tools, loaded : SUBSET Tools,
                   stage : {"none", "called", "loaded", "refused"}]
  BY McpAssumption DEF TypeOK, CountsOK, SessionOK
<1>1. ASSUME EditFile \/ UNCHANGED vars
             \/ \E s \in Servers : Connects(s) \/ Fails(s) \/ TimesOut(s) \/ Stops(s)
      PROVE  Calling' /\ Logged'
  BY <1>1, QuietCalls DEF EditFile, vars, Connects, Fails, TimesOut, Stops, history, bounds,
                          runtime, Recorded
<1>2. ASSUME \/ AskProject \/ StartupReturns \/ StartupTimesOut \/ LoopFails \/ InterruptStartup
             \/ \E s \in Servers : Register(s)
      PROVE  Calling' /\ Logged'
  BY <1>2, QuietCalls DEF AskProject, StartupReturns, StartupTimesOut, LoopFails,
                          InterruptStartup, Register, bounds, Calling
<1>3. ASSUME InitializeUnasked \/ \E c \in Choices : AnswerProject(c)
      PROVE  Calling' /\ Logged'
  BY <1>3, QuietCalls DEF InitializeUnasked, AnswerProject, Initialize, bounds, Calling
<1>4. CASE StartProcess
  BY <1>0, <1>4 DEF StartProcess, Calling, Logged
<1>5. CASE Up
  BY <1>5, QuietCalls DEF Up, Calling, bounds
<1>6. ASSUME NEW s \in Sessions, Switch(s) PROVE Calling' /\ Logged'
  <2>1. \A u \in Sessions : log'[u] = log[u] \/ log'[u] = <<>>
    BY <1>0, <1>6 DEF Switch
  <2>2. call' = NoCall /\ run' # "up" /\ loads' = loads /\ call = NoCall
    BY <1>6 DEF Switch, bounds
  <2>3. \A u \in Sessions : \A i \in DOMAIN log'[u] : log'[u][i].id <= loads'
    BY <2>1, <2>2 DEF Calling
  <2> QED
    BY <2>2, <2>3 DEF Calling, Logged
<1>7. CASE RestoreSession
  <2>1. call = NoCall
    BY <1>7 DEF RestoreSession, Calling
  <2> QED
    BY <1>0, <1>7, <2>1
      DEF RestoreSession, Calling, Logged, NoCall, Restored, runtime, bounds
<1>8. CASE InterruptRestore
  <2>1. call = NoCall
    BY <1>8 DEF InterruptRestore, Calling
  <2> QED
    BY <1>8, <2>1 DEF InterruptRestore, Calling, Logged, Recorded, bounds
<1>9. CASE Exit
  BY <1>0, <1>9 DEF Exit, Calling, Logged, bounds
<1>10. ASSUME NEW names \in SUBSET Tools, CallLoad(names) PROVE Calling' /\ Logged'
  <2> DEFINE r == [kind |-> "call", id |-> loads + 1, names |-> names, error |-> FALSE]
             m == Append(log[active], r)
  <2>1. /\ r \in Entry /\ log' = [log EXCEPT ![active] = m] /\ loads' = loads + 1
        /\ r.kind = "call" /\ r.id = loads + 1 /\ r.names = names
    BY <1>0, <1>10 DEF CallLoad, Append1, Entry
  <2>2. /\ call'.id = loads + 1 /\ call'.names = names /\ call'.stage = "called"
        /\ call'.loaded = {}
    BY <1>10 DEF CallLoad
  <2>3. /\ run = "up" /\ call = NoCall
        /\ UNCHANGED <<run, catalog, active, registered, incidents>>
    BY <1>10 DEF CallLoad, runtime, history
  <2> HIDE DEF r
  <2>4. /\ DOMAIN m = DOMAIN log[active] \cup {Len(log[active]) + 1}
        /\ m[Len(log[active]) + 1] = r
        /\ \A i \in DOMAIN log[active] : m[i] = log[active][i]
    BY <1>0, <2>1, AppendedEntry
  <2>5. log'[active] = m /\ \A u \in Sessions \ {active} : log'[u] = log[u]
    BY <1>0, <2>1
  <2>6. \A i \in DOMAIN log[active] : log[active][i].id # loads + 1
    <3>1. \A i \in DOMAIN log[active] : log[active][i] \in Entry
      BY <1>0
    <3> QED
      BY <1>0, <3>1 DEF Calling, Entry
  <2>7. Replayed(m) = Replayed(log[active])
    BY <1>0, <2>1, <2>6, NothingGiven
  <2> HIDE DEF m
  <2>8. Calling'
    <3>1. \A u \in Sessions : \A i \in DOMAIN log[u] : log[u][i].id <= loads + 1
      <4>1. \A u \in Sessions : \A i \in DOMAIN log[u] : log[u][i] \in Entry
        BY <1>0
      <4>2. \A u \in Sessions : \A i \in DOMAIN log[u] : log[u][i].id \in Nat
        BY <4>1 DEF Entry
      <4> QED
        BY <1>0, <4>2 DEF Calling
    <3>2. \A u \in Sessions : \A i \in DOMAIN log'[u] : log'[u][i].id <= loads'
      BY <1>0, <2>1, <2>4, <2>5, <3>1
    <3>3. call'.id <= loads' /\ call'.stage # "none" /\ run' = "up"
      BY <1>0, <2>1, <2>2, <2>3
    <3>4. \E i \in DOMAIN m : m[i].id = loads + 1
      BY <2>1, <2>4
    <3>5. \A i \in DOMAIN m : m[i].id = loads + 1 => m[i].kind = "call" /\ m[i].names = names
      BY <2>1, <2>4, <2>6
    <3> QED
      BY <2>2, <2>3, <2>5, <3>2, <3>3, <3>4, <3>5 DEF Calling
  <2>9. Logged'
    BY <2>2, <2>3, <2>5, <2>7 DEF Logged, Restored, Recorded, NoCall
  <2> QED
    BY <2>8, <2>9
<1>11. CASE LoadTools
  <2>1. /\ call'.id = call.id /\ call'.names = call.names
        /\ call'.stage = IF call.names \subseteq DOMAIN catalog THEN "loaded" ELSE "refused"
        /\ call'.loaded = Loads(call.names) \ registered
    BY <1>0, <1>11 DEF LoadTools
  <2>2. /\ call.stage = "called" /\ call # NoCall
        /\ registered' = registered \cup Loads(call.names)
        /\ UNCHANGED <<run, catalog, active, log, incidents, loads>>
    BY <1>11 DEF LoadTools, NoCall, runtime, history, bounds
  <2>3. Calling'
    BY <2>1, <2>2 DEF Calling
  <2>4. Logged'
    BY <2>1, <2>2 DEF Logged, Restored, Recorded, Loads
  <2> QED
    BY <2>3, <2>4
<1>12. CASE LogLoad
  <2>1. /\ call # NoCall /\ call' = NoCall /\ UNCHANGED <<run, catalog, active, loads>>
        /\ registered' = registered /\ incidents' = incidents
    BY <1>12 DEF LogLoad, NoCall, runtime, history, bounds
  <2>2. \/ call.stage = "refused" /\ Append1(Result(TRUE))
        \/ call.stage = "loaded" /\ Append1(Result(FALSE))
    <3>1. Append1(Result(call.stage = "refused")) /\ call.stage \in {"loaded", "refused"}
      BY <1>12 DEF LogLoad
    <3>2. CASE call.stage = "refused"
      <4>1. (call.stage = "refused") = TRUE
        BY <3>2
      <4> QED
        BY <3>1, <3>2, <4>1
    <3>3. CASE call.stage = "loaded"
      <4>1. (call.stage = "refused") = FALSE
        BY <3>3
      <4> QED
        BY <3>1, <3>3, <4>1
    <3> QED
      BY <3>1, <3>2, <3>3
  <2>3. CASE call.stage = "refused"
    <3>1. Append1(Result(TRUE))
      BY <2>2, <2>3
    <3> QED
      BY <2>1, <2>3, <3>1, ResultLogged DEF Calling, Logged, Restored, Recorded, NoCall
  <2>4. CASE call.stage = "loaded"
    <3>1. Append1(Result(FALSE))
      BY <2>2, <2>4
    <3> QED
      BY <2>1, <2>4, <3>1, ResultLogged DEF Calling, Logged, Restored, Recorded, NoCall
  <2> QED
    BY <2>2, <2>3, <2>4
<1>13. CASE LoadLost
  <2>1. /\ call # NoCall /\ call' = NoCall /\ UNCHANGED <<run, catalog, active, loads>>
    BY <1>13 DEF LoadLost, runtime, bounds
  <2>2. \A s \in Sessions : \A i \in DOMAIN log'[s] : log'[s][i].id <= loads'
    BY <1>13, <2>1, ResultLogged DEF LoadLost, Calling
  <2>3. Restored(active)' = Restored(active)
    BY <1>13, <2>1, ResultLogged DEF LoadLost, Restored
  <2>4. Recorded' => Recorded /\ call.loaded = {} /\ registered' = registered
    BY <1>13 DEF LoadLost, Recorded
  <2> QED
    BY <2>1, <2>2, <2>3, <2>4 DEF Calling, Logged, NoCall
<1> QED
  BY <1>1, <1>2, <1>3, <1>4, <1>5, <1>6, <1>7, <1>8, <1>9, <1>10, <1>11, <1>12,
     <1>13 DEF Next, Exhausted

\* Between two calls the tools the model can call are those the session's log
\* gives back, whatever was loaded, refused, interrupted or resumed before; unless
\* a result is missing from the log or the restoration was interrupted, at the end
\* of startup or after a switch.
THEOREM CallableAreLogged == Spec => []CallableIsLogged
<1>1. Logged => CallableIsLogged
  BY DEF Logged, CallableIsLogged, Recorded, NoCall
<1> QED
  BY <1>1, InitCalls, CallsStep, TypesHold, PTL DEF Spec

=============================================================================
