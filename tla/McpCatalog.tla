----------------------------- MODULE McpCatalog -----------------------------
(***************************************************************************)
(* The MCP runtime (core/mcp.py) as the agent drives it: the project's         *)
(* configuration and the trust the user gave it, the concurrent start of the   *)
(* servers, the catalog of their tools, and the tools LoadTools makes callable, *)
(* which a restored session gets back from its log.                            *)
(*                                                                           *)
(* A configuration is a version of the project's file: the names it declares    *)
(* and those whose entries are valid.  A tool is its generated name            *)
(* mcp__server__tool, which two servers may share.  A call of a loaded tool     *)
(* changes nothing here and is left out.                                       *)
(***************************************************************************)
EXTENDS Naturals, FiniteSets, Sequences

CONSTANTS
  Names,       \* server names
  User,        \* the names in the user's file, all valid
  Versions,    \* versions of the project's file
  Declared,    \* per version: the names it declares
  Parsed,      \* per version: the names whose entries are valid
  Tools,       \* generated tool names
  Offers,      \* the tools a server exposes
  Sessions,
  NoFile,
  MaxRuns,     \* bound: processes
  MaxEdits,    \* bound: changes of the project's file
  MaxLoads     \* bound: LoadTools calls

Servers == {"user", "project"} \X Names

ASSUME McpAssumption ==
  /\ User \subseteq Names /\ NoFile \notin Versions
  /\ \A v \in Versions : Parsed[v] \subseteq Declared[v] /\ Declared[v] \subseteq Names
  /\ \A s \in Servers : Offers[s] \subseteq Tools
  /\ MaxRuns \in Nat /\ MaxEdits \in Nat /\ MaxLoads \in Nat

VARIABLES
  file, trust,     \* .duckduckcode/mcp.yaml and the version in mcp.trust
  run,             \* "off", "loaded", "asking", "starting", "registering", "restoring", "up"
  config, trusted, \* MCPConfiguration: the version loaded, project_trusted
  initialized,     \* MCPManager._initialized
  server,          \* the task of each server
  pending,         \* ready servers whose tools are not yet in the catalog
  catalog,         \* _mcp_tools: tool -> its server
  registered,      \* the MCP tools in the ToolManager
  active, log,     \* the session and the LoadTools records of each
  call,            \* the LoadTools call that runs
  allowed,         \* history: versions allowed in this process, once or for always
  always,          \* history: versions always allowed
  incidents,       \* history: what went wrong at startup, or with the session
  runs, edits, loads

disk == <<file, trust>>
configuration == <<config, trusted, initialized>>
runtime == <<server, pending, catalog>>
session == <<active, log, call, registered>>
history == <<allowed, always, incidents>>
bounds == <<runs, edits, loads>>
vars == <<disk, run, configuration, runtime, session, history, bounds>>

NoCall == [id |-> 0, names |-> {}, stage |-> "none", loaded |-> {}]
Choices == {"allow_once", "allow_always", "deny"}

-----------------------------------------------------------------------------
(* Configuration and trust *)

EditFile ==
  /\ edits < MaxEdits /\ edits' = edits + 1
  /\ file' \in (Versions \cup {NoFile}) \ {file}
  /\ UNCHANGED <<trust, run, configuration, runtime, session, history, runs, loads>>

\* MCPManager.__init__; SessionManager.start resumes the latest session.
StartProcess ==
  /\ run = "off" /\ runs < MaxRuns /\ runs' = runs + 1
  /\ run' = "loaded"
  /\ config' = file /\ trusted' = (file # NoFile /\ trust = file) /\ initialized' = FALSE
  /\ active' \in Sessions
  /\ UNCHANGED <<disk, runtime, log, call, registered, history, edits, loads>>

\* merged: a declared project name hides the user's server even when its own
\* entry is invalid.
Merged(project) ==
  IF project /\ config # NoFile
  THEN {<<"user", n>> : n \in User \ Declared[config]} \cup {<<"project", n>> : n \in Parsed[config]}
  ELSE {<<"user", n>> : n \in User}

\* A plausible bug: the file is read again when the trust is saved.
SavedNow == {trust, file}

\* remember_project_trust: the version loaded, or a warning.
Saved == {trust, config}

\* MCPManager.initialize; once only, whatever came of it.
Initialize(choice) ==
  LET included == trusted \/ choice \in {"allow_once", "allow_always"} IN
  /\ run' = IF initialized \/ Merged(included) = {} THEN "registering" ELSE "starting"
  /\ initialized' = TRUE
  /\ trust' \in IF choice = "allow_always" /\ ~initialized THEN Saved ELSE {trust}
  /\ server' = [s \in Servers |-> IF ~initialized /\ s \in Merged(included) THEN "starting" ELSE server[s]]
  /\ UNCHANGED <<config, trusted>>

\* _initialize_mcp, at startup and before every turn until it has completed.
AskProject ==
  /\ run = "loaded" /\ config # NoFile /\ ~trusted
  /\ run' = "asking"
  /\ UNCHANGED <<disk, configuration, runtime, session, history, bounds>>

AnswerProject(choice) ==
  /\ run = "asking"
  /\ allowed' = IF choice = "deny" THEN allowed ELSE allowed \cup {config}
  /\ always' = IF choice = "allow_always" THEN always \cup {config} ELSE always
  /\ Initialize(choice)
  /\ UNCHANGED <<file, pending, catalog, session, incidents, bounds>>

InitializeUnasked ==
  /\ run = "loaded" /\ (config = NoFile \/ trusted)
  /\ Initialize("none")
  /\ UNCHANGED <<file, pending, catalog, session, history, bounds>>

-----------------------------------------------------------------------------
(* Starting the servers: a task each, ten seconds each, twenty in all *)

\* The session is open and its tools are listed.
Connects(s) ==
  /\ server[s] = "starting" /\ server' = [server EXCEPT ![s] = "ready"]
  /\ UNCHANGED <<disk, run, configuration, pending, catalog, session, history, bounds>>

\* The server cannot be started, or breaks off before initialize looks at it.
Fails(s) ==
  /\ server[s] = "starting" \/ (server[s] = "ready" /\ (run = "starting" \/ s \in pending))
  /\ server' = [server EXCEPT ![s] = "failed"] /\ pending' = pending \ {s}
  /\ UNCHANGED <<disk, run, configuration, catalog, session, history, bounds>>

\* Ten seconds: the task is cancelled, and waited for.  An interrupt does not
\* stop this, the end of the twenty seconds does.
TimesOut(s) ==
  /\ "slow" \notin incidents
  /\ server[s] = "starting" /\ server' = [server EXCEPT ![s] = "stopping"]
  /\ UNCHANGED <<disk, run, configuration, pending, catalog, session, history, bounds>>

Stops(s) ==
  /\ server[s] = "stopping" /\ server' = [server EXCEPT ![s] = "failed"]
  /\ UNCHANGED <<disk, run, configuration, pending, catalog, session, history, bounds>>

\* A connection lost after that is not noticed: the tools stay in the catalog.
Ready == {s \in Servers : server[s] = "ready"}
Settled == \A s \in Servers : server[s] \notin {"starting", "stopping"}

\* A plausible bug: one failure makes the start fail.
ReadyTogether == IF \E s \in Servers : server[s] = "failed" THEN {} ELSE Ready

\* The states _start_servers returns without an error.
Started == Ready

StartupReturns ==
  /\ run = "starting" /\ Settled
  /\ run' = "registering" /\ pending' = Started
  /\ UNCHANGED <<disk, configuration, server, catalog, session, history, bounds>>

\* A plausible bug: the future is waited for without a limit.
WaitsForAll == FALSE /\ UNCHANGED vars

\* A server that is slow to stop uses up the twenty seconds.
StartupTimesOut ==
  /\ run = "starting" /\ \E s \in Servers : server[s] = "stopping"
  /\ run' = "registering" /\ incidents' = incidents \cup {"slow"}
  /\ UNCHANGED <<disk, configuration, runtime, session, allowed, always, bounds>>

\* The event loop or its thread cannot be started.
LoopFails ==
  /\ run = "starting" /\ \A s \in Servers : server[s] \in {"off", "starting"}
  /\ run' = "registering" /\ incidents' = incidents \cup {"loop"}
  /\ server' = [s \in Servers |-> "off"]
  /\ UNCHANGED <<disk, configuration, pending, catalog, session, allowed, always, bounds>>

\* register_discovered: the first to offer a name keeps it.
Register(s) ==
  /\ run = "registering" /\ s \in pending
  /\ pending' = pending \ {s}
  /\ catalog' = [t \in DOMAIN catalog \cup Offers[s] |-> IF t \in DOMAIN catalog THEN catalog[t] ELSE s]
  /\ UNCHANGED <<disk, run, configuration, server, session, history, bounds>>

\* Esc while the servers start or their tools are registered, or at the
\* question: the next turn comes back to _initialize_mcp.
InterruptStartup ==
  /\ run \in {"asking", "starting", "registering"}
  /\ run' = "loaded" /\ pending' = {}
  /\ incidents' = IF run = "starting" \/ pending # {} THEN incidents \cup {"interrupted"} ELSE incidents
  /\ UNCHANGED <<disk, configuration, server, catalog, session, allowed, always, bounds>>

-----------------------------------------------------------------------------
(* Sessions and LoadTools *)

Results(l) == {i \in DOMAIN l : l[i].kind = "result" /\ ~l[i].error}

\* The names of the calls in a log whose result is no error.
Replayed(l) ==
  UNION {l[i].names : i \in {j \in DOMAIN l : l[j].kind = "call" /\ \E k \in Results(l) : l[k].id = l[j].id}}

\* restore_session, for what the catalog still has.
Restored(s) == Replayed(log[s]) \cap DOMAIN catalog

\* _mcp_initialized is set: no turn comes back to _initialize_mcp.
Up ==
  /\ run = "registering" /\ pending = {}
  /\ run' = "restoring"
  /\ UNCHANGED <<disk, configuration, runtime, session, history, bounds>>

\* new_session, resume_session, delete_session (which empties a log).
Switch(s) ==
  /\ run \in {"loaded", "up"} /\ call = NoCall
  /\ active' = s
  /\ log' \in {log, [log EXCEPT ![active] = <<>>]}
  /\ run' = IF run = "up" THEN "restoring" ELSE run
  /\ UNCHANGED <<disk, configuration, runtime, call, registered, history, bounds>>

\* The session's tools, at the end of startup and after a switch.
RestoreSession ==
  /\ run = "restoring"
  /\ run' = "up" /\ registered' = Restored(active)
  /\ incidents' = incidents \ {"unlogged", "unrestored"}
  /\ UNCHANGED <<disk, configuration, runtime, active, log, call, allowed, always, bounds>>

\* Esc before it is done, which is not made up for before the next switch: the old
\* tools are removed one by one, and the new ones registered one by one.
InterruptRestore ==
  /\ run = "restoring" /\ run' = "up"
  /\ registered' \in (SUBSET registered) \cup SUBSET Restored(active)
  /\ incidents' = incidents \cup {"unrestored"}
  /\ UNCHANGED <<disk, configuration, runtime, active, log, call, allowed, always, bounds>>

Append1(r) == log' = [log EXCEPT ![active] = Append(@, r)]
Result(error) == [kind |-> "result", id |-> call.id, names |-> {}, error |-> error]

\* LoadTools exists once there is a catalog; a name may be wrong.
CallLoad(names) ==
  /\ run = "up" /\ call = NoCall /\ DOMAIN catalog # {} /\ loads < MaxLoads
  /\ loads' = loads + 1
  /\ call' = [id |-> loads + 1, names |-> names, stage |-> "called", loaded |-> {}]
  /\ Append1([kind |-> "call", id |-> loads + 1, names |-> names, error |-> FALSE])
  /\ UNCHANGED <<disk, run, configuration, runtime, active, registered, history, runs, edits>>

\* A plausible bug: what was found before the wrong name is loaded.
LoadsFound(names) == names \cap DOMAIN catalog

\* load_tools: all the names, or none.
Loads(names) == IF names \subseteq DOMAIN catalog THEN names ELSE {}

LoadTools ==
  /\ call.stage = "called"
  /\ registered' = registered \cup Loads(call.names)
  /\ call' = [call EXCEPT !.stage = IF call.names \subseteq DOMAIN catalog THEN "loaded" ELSE "refused",
                          !.loaded = Loads(call.names) \ registered]
  /\ UNCHANGED <<disk, run, configuration, runtime, active, log, history, bounds>>

LogLoad ==
  /\ call.stage \in {"loaded", "refused"}
  /\ Append1(Result(call.stage = "refused")) /\ call' = NoCall
  /\ UNCHANGED <<disk, run, configuration, runtime, active, registered, history, bounds>>

\* Esc, or a log that cannot be written: the result is an error or missing, and
\* some of the tools may have been registered.
LoadLost ==
  /\ call # NoCall /\ call' = NoCall
  /\ Append1(Result(TRUE)) \/ UNCHANGED log
  /\ \E some \in SUBSET (IF call.stage = "called" THEN Loads(call.names) ELSE {}) :
       /\ registered' = registered \cup some
       /\ incidents' = IF call.loaded \cup (some \ registered) # {}
                       THEN incidents \cup {"unlogged"} ELSE incidents
  /\ UNCHANGED <<disk, run, configuration, runtime, active, allowed, always, bounds>>

\* MCPManager.close, or the end of the process: the servers end with it.
Exit ==
  /\ run # "off" /\ run' = "off"
  /\ server' = [s \in Servers |-> "off"] /\ pending' = {} /\ catalog' = << >>
  /\ registered' = {} /\ call' = NoCall
  /\ config' = NoFile /\ trusted' = FALSE /\ initialized' = FALSE
  /\ allowed' = {} /\ incidents' = {}
  /\ UNCHANGED <<disk, active, log, always, bounds>>

-----------------------------------------------------------------------------

Init ==
  /\ file \in Versions \cup {NoFile} /\ trust = NoFile
  /\ run = "off" /\ config = NoFile /\ trusted = FALSE /\ initialized = FALSE
  /\ server = [s \in Servers |-> "off"] /\ pending = {} /\ catalog = << >>
  /\ registered = {} /\ active \in Sessions /\ log = [s \in Sessions |-> <<>>] /\ call = NoCall
  /\ allowed = {} /\ always = {} /\ incidents = {}
  /\ runs = 0 /\ edits = 0 /\ loads = 0

\* The bounds are reached.
Exhausted == run = "off" /\ runs = MaxRuns /\ UNCHANGED vars

Next ==
  \/ EditFile \/ StartProcess \/ AskProject \/ InitializeUnasked
  \/ \E c \in Choices : AnswerProject(c)
  \/ \E s \in Servers : Connects(s) \/ Fails(s) \/ TimesOut(s) \/ Stops(s) \/ Register(s)
  \/ StartupReturns \/ StartupTimesOut \/ LoopFails \/ InterruptStartup \/ Up
  \/ \E s \in Sessions : Switch(s)
  \/ RestoreSession \/ InterruptRestore
  \/ \E names \in SUBSET Tools \ {{}} : CallLoad(names)
  \/ LoadTools \/ LogLoad \/ LoadLost \/ Exit \/ Exhausted

Spec == Init /\ [][Next]_vars

\* The timers fire and the agent's own code goes on; no server is assumed to
\* connect, to fail or to stop.
FairSpec ==
  /\ Spec
  /\ \A s \in Servers : WF_vars(TimesOut(s)) /\ WF_vars(Register(s))
  /\ WF_vars(StartupReturns) /\ WF_vars(StartupTimesOut) /\ WF_vars(Up)

-----------------------------------------------------------------------------
(* Properties *)

Entry == [kind : {"call", "result"}, id : Nat, names : SUBSET Tools, error : BOOLEAN]

RuntimeOK ==
  /\ run \in {"off", "loaded", "asking", "starting", "registering", "restoring", "up"}
  /\ server \in [Servers -> {"off", "starting", "ready", "stopping", "failed"}]
  /\ pending \subseteq Servers
  /\ \E offered \in SUBSET Tools : catalog \in [offered -> Servers]

SessionOK ==
  /\ active \in Sessions /\ log \in [Sessions -> Seq(Entry)] /\ registered \subseteq Tools
  /\ call \in [id : Nat, names : SUBSET Tools, loaded : SUBSET Tools,
               stage : {"none", "called", "loaded", "refused"}]

FilesOK ==
  /\ {file, trust, config} \subseteq Versions \cup {NoFile}
  /\ allowed \subseteq Versions /\ always \subseteq Versions
  /\ incidents \subseteq {"slow", "loop", "interrupted", "unlogged", "unrestored"}

CountsOK == runs \in 0 .. MaxRuns /\ edits \in 0 .. MaxEdits /\ loads \in 0 .. MaxLoads

TypeOK ==
  /\ RuntimeOK /\ SessionOK /\ FilesOK /\ CountsOK
  /\ trusted \in BOOLEAN /\ initialized \in BOOLEAN

\* A server of the project's file runs only when the user allowed this very
\* version of it, in this process or for always, however often the file is
\* edited, the question asked and the process restarted
\* (load_mcp_configuration, remember_project_trust).
StartedWasAllowed ==
  \A s \in Servers : s[1] = "project" /\ server[s] # "off" => config \in allowed \cup always

\* Once startup is over the tools of every server that became ready can be
\* loaded, whatever the other servers did; unless startup was interrupted, a
\* server took too long to stop, or there was no event loop
\* (_wait_for_server, initialize).
SiblingsServe ==
  run = "up" /\ incidents \cap {"interrupted", "slow", "loop"} = {} =>
    \A s \in Ready : Offers[s] \subseteq DOMAIN catalog

\* Between calls, the tools the model can call are those its session's log says
\* it loaded, so that resuming the session changes nothing; unless a result was
\* lost, or the restoration interrupted, at the end of startup or after a switch
\* (load_tools, restore_session, _initialize_mcp).
CallableIsLogged ==
  run = "up" /\ call = NoCall /\ incidents \cap {"unlogged", "unrestored"} = {} =>
    registered = Restored(active)

\* Startup ends, whatever the servers do (_wait_for_server, initialize).
StartupEnds == run = "starting" ~> run # "starting"

=============================================================================
