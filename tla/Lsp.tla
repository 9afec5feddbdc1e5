-------------------------------- MODULE Lsp --------------------------------
(***************************************************************************)
(* core/lsp.py: one language server as LSPManager and _Connection keep it.   *)
(* Calls come from several threads; their coroutines share one event loop,   *)
(* the start of the server, its documents and its standard input.  Between   *)
(* two awaits a coroutine runs alone, so a step goes from await to await.    *)
(*                                                                           *)
(* One server and one document.  The version of the file stands for its      *)
(* text.  The server is external: it reads its input in order, answers when   *)
(* it likes, in any order, or never, and may die.  Time is not modelled: any  *)
(* limit may be reached at any moment.                                       *)
(***************************************************************************)
EXTENDS Naturals, FiniteSets, Sequences

CONSTANTS
  Call,        \* calls of the LSP tool
  None,        \* no call, no text
  Threads,     \* bound: calls at a time
  Texts,       \* what the file may contain
  Kinds,       \* the document synchronisation a server may ask for
  Room,        \* messages the pipe to the server takes before a write waits
  Stubborn,    \* whether the server may ignore SIGTERM
  MaxEdits,    \* bound: changes of the file
  MaxFaults    \* bound: deaths and unreadable messages of the server

\* _sync_options: openClose and change are settled apart.
Synchronisations == [opens : BOOLEAN, change : {"no", "full", "incremental"}]

ASSUME LspAssumption ==
  /\ {None, "error"} \cap (Call \cup Texts) = {}
  /\ Kinds \subseteq Synchronisations
  /\ Threads \in Nat /\ Room \in Nat \ {0} /\ Stubborn \in BOOLEAN /\ MaxEdits \in Nat /\ MaxFaults \in Nat

VARIABLES
  file,      \* the text of the file now
  pc,        \* per call: its await
  text,      \* per call: what _read_document returned
  id,        \* per call: its request id, 0 without one
  result,    \* per call: None, "error", or the call that was answered
  server,    \* _connections, _starting and _failures
  procs,     \* server processes alive
  dead,      \* the process of the connection has ended
  fatal,     \* _fatal
  kind,      \* textDocumentSync of the server
  doc,       \* the client's _Document
  torn,      \* history: a sync was cut off between the record and the message
  syncer,    \* who has _sync_lock
  writer,    \* who has _write_lock
  nextId,    \* _next_id
  notices,   \* ids whose $/cancelRequest is still to be sent
  pipe,      \* messages the server has not read
  remote,    \* the document at the server
  answers,   \* responses the client has not read
  loop,      \* the event loop: "none", "running", "stopped"
  closing,   \* close(): "no", or its step
  edits, faults

calls == <<pc, text, id, result>>
process == <<server, procs, dead, fatal, kind>>
client == <<doc, torn, syncer, writer, nextId, notices>>
wire == <<pipe, remote, answers>>
runtime == <<loop, closing>>
bounds == <<edits, faults>>
vars == <<file, calls, process, client, wire, runtime, bounds>>

NoSync == [opens |-> FALSE, change |-> "no"]

NoDocument == [version |-> 0, text |-> None]
\* What a server has after a change of a range it does not have.
Mixed == "mixed"

\* The awaits of a coroutine under the 30 seconds of a request.
Syncing == {"opening", "opened", "changing", "changed"}
Asking == {"ask", "asked", "answer"}
Timed == {"sync", "synced"} \cup Syncing \cup Asking

-----------------------------------------------------------------------------
(* How a call goes on and ends *)

GoTo(c, where) == pc' = [pc EXCEPT ![c] = where] /\ UNCHANGED <<text, id, result>>
Finish(C, r) ==
  /\ pc' = [c \in Call |-> IF c \in C THEN "done" ELSE pc[c]]
  /\ result' = [c \in Call |-> IF c \in C THEN r ELSE result[c]]
  /\ text' = [c \in Call |-> IF c \in C THEN None ELSE text[c]]
  /\ id' = [c \in Call |-> IF c \in C THEN 0 ELSE id[c]]
End(c, r) == Finish({c}, r)
Waiters == {c \in Call : pc[c] = "waiting"}

\* Leaving `async with` gives both locks back.
ReleaseLocks(c) ==
  /\ syncer' = IF syncer = c THEN None ELSE syncer
  /\ writer' = IF writer = c THEN None ELSE writer

-----------------------------------------------------------------------------
(* The calling thread *)

Execute(c) ==
  /\ pc[c] = "idle"
  /\ Cardinality({d \in Call : pc[d] \notin {"idle", "done"}}) < Threads
  /\ IF closing # "no" THEN End(c, "error") ELSE GoTo(c, "reading")
  /\ UNCHANGED <<file, process, client, wire, runtime, bounds>>

\* An unknown server, a path outside the workspace or that is no UTF-8 file of
\* this server, a position outside the text.
Refused(c) ==
  /\ pc[c] = "reading"
  /\ End(c, "error")
  /\ UNCHANGED <<file, process, client, wire, runtime, bounds>>

\* The file is read, the loop is started if there is none, and the coroutine
\* is handed to it.
Submit(c) ==
  /\ pc[c] = "reading"
  /\ IF loop = "stopped"
     THEN End(c, "error") /\ UNCHANGED loop
     ELSE /\ pc' = [pc EXCEPT ![c] = "submitted"]
          /\ text' = [text EXCEPT ![c] = file]
          /\ loop' = "running"
          /\ UNCHANGED <<id, result>>
  /\ UNCHANGED <<file, process, client, wire, closing, bounds>>

Edit(t) ==
  /\ edits < MaxEdits /\ edits' = edits + 1
  /\ t # file /\ file' = t
  /\ UNCHANGED <<calls, process, client, wire, runtime, faults>>

-----------------------------------------------------------------------------
(* The shared start *)

\* A plausible bug: every call without a connection starts a server.
ConnectAlone(c) ==
  /\ loop = "running" /\ pc[c] = "submitted"
  /\ IF server = "failed" THEN End(c, "error") /\ UNCHANGED <<server, procs>>
     ELSE IF server = "up" THEN GoTo(c, "sync") /\ UNCHANGED <<server, procs>>
     ELSE GoTo(c, "waiting") /\ server' = "starting" /\ procs' = procs + 1
  /\ UNCHANGED <<file, dead, fatal, kind, client, wire, runtime, bounds>>

\* _connection: a failure is final, a connection and a start are shared.
Connect(c) ==
  /\ loop = "running" /\ pc[c] = "submitted"
  /\ IF server = "failed" THEN End(c, "error") /\ UNCHANGED <<server, procs>>
     ELSE IF server = "up" THEN GoTo(c, "sync") /\ UNCHANGED <<server, procs>>
     ELSE /\ GoTo(c, "waiting")
          /\ IF server = "none" THEN server' = "starting" /\ procs' = procs + 1
                                ELSE UNCHANGED <<server, procs>>
  /\ UNCHANGED <<file, dead, fatal, kind, client, wire, runtime, bounds>>

\* initialize was answered: the capabilities are known, the waiters go on.
StartSucceeds ==
  /\ loop = "running" /\ server = "starting"
  /\ server' = "up" /\ kind' \in Kinds
  /\ pc' = [c \in Call |-> IF c \in Waiters THEN "sync" ELSE pc[c]]
  /\ UNCHANGED <<file, text, id, result, procs, dead, fatal, client, wire, runtime, bounds>>

\* An exception, an unusable answer or the 10 seconds; the process is killed next.
StartFails ==
  /\ loop = "running" /\ server = "starting"
  /\ server' = "failing"
  /\ UNCHANGED <<file, calls, procs, dead, fatal, kind, client, wire, runtime, bounds>>

\* _force_close is done.  Only a failure is remembered.  A cancellation that
\* meets _force_close before its deadline leaves a process that ignores SIGTERM.
StartEnds ==
  /\ loop = "running" /\ server \in {"failing", "cancelled", "cut"}
  /\ \/ procs' = procs - 1
     \/ server = "cut" /\ Stubborn /\ UNCHANGED procs
  /\ server' = IF server = "failing" THEN "failed" ELSE "none"
  /\ Finish(Waiters, "error")
  /\ UNCHANGED <<file, dead, fatal, kind, client, wire, runtime, bounds>>

CancelStart ==
  server' = IF server = "starting" THEN "cancelled"
            ELSE IF server = "failing" THEN "cut" ELSE server

-----------------------------------------------------------------------------
(* sync_document *)

Alive == server = "up" /\ ~dead
DidOpen(t) == [kind |-> "open", version |-> 1, text |-> t, base |-> None]
DidChange(v, t, base) == [kind |-> "change", version |-> v, text |-> t, base |-> base]
Request(i, c) == [kind |-> "request", id |-> i, by |-> c]
CancelRequest(i) == [kind |-> "cancel", id |-> i]
Messages ==
  [kind : {"open", "change"}, version : Nat, text : Texts \cup {None}, base : Texts \cup {None}]
  \cup [kind : {"request"}, id : Nat, by : Call] \cup [kind : {"cancel"}, id : Nat]

\* A plausible bug: _sync_lock is not taken.
SyncUnlocked(c) ==
  /\ loop = "running" /\ pc[c] = "sync"
  /\ IF doc = NoDocument
     THEN /\ doc' = [version |-> 1, text |-> text[c]]
          /\ IF kind.opens THEN GoTo(c, "opening") ELSE GoTo(c, "synced")
     ELSE IF doc.text # text[c]
     THEN /\ doc' = [version |-> doc.version + 1, text |-> IF kind.change = "no" THEN text[c] ELSE doc.text]
          /\ IF kind.change = "no" THEN GoTo(c, "synced") ELSE GoTo(c, "changing")
     ELSE GoTo(c, "synced") /\ UNCHANGED doc
  /\ UNCHANGED <<file, process, torn, syncer, writer, nextId, notices, wire, runtime, bounds>>

\* Under _sync_lock: a new document is recorded before didOpen is sent; a new
\* version is recorded before didChange, the new text after it.
Sync(c) ==
  /\ loop = "running" /\ pc[c] = "sync" /\ syncer = None
  /\ IF doc = NoDocument
     THEN /\ doc' = [version |-> 1, text |-> text[c]]
          /\ IF kind.opens THEN GoTo(c, "opening") /\ syncer' = c
                           ELSE GoTo(c, "synced") /\ UNCHANGED syncer
     ELSE IF doc.text # text[c]
     THEN /\ doc' = [version |-> doc.version + 1, text |-> IF kind.change = "no" THEN text[c] ELSE doc.text]
          /\ IF kind.change = "no" THEN GoTo(c, "synced") /\ UNCHANGED syncer
                                   ELSE GoTo(c, "changing") /\ syncer' = c
     ELSE GoTo(c, "synced") /\ UNCHANGED <<doc, syncer>>
  /\ UNCHANGED <<file, process, torn, writer, nextId, notices, wire, runtime, bounds>>

\* workspace_symbols has no document.
SkipSync(c) ==
  /\ loop = "running" /\ pc[c] = "sync"
  /\ GoTo(c, "synced")
  /\ UNCHANGED <<file, process, client, wire, runtime, bounds>>

\* _send under _write_lock: written at once, then drain() waits.
Message(c) ==
  CASE pc[c] = "opening" -> DidOpen(text[c])
    [] pc[c] = "changing" -> DidChange(doc.version, text[c], IF kind.change = "full" THEN None ELSE doc.text)
    [] pc[c] = "ask" -> Request(id[c], c)
Draining == [opening |-> "opened", changing |-> "changed", ask |-> "asked"]
\* The length of a text is not modelled: any may be too long for a message.
TooLong(c) == pc[c] \in {"opening", "changing"}

Write(c) ==
  /\ loop = "running" /\ pc[c] \in DOMAIN Draining
  /\ writer = None /\ Alive
  /\ pipe' = Append(pipe, Message(c))
  /\ writer' = c
  /\ GoTo(c, Draining[pc[c]])
  /\ UNCHANGED <<file, process, doc, torn, syncer, nextId, notices, remote, answers, runtime, bounds>>

\* The message is refused for its length, or the pipe is broken.
WriteFails(c) ==
  /\ loop = "running"
  /\ \/ pc[c] \in DOMAIN Draining /\ (TooLong(c) \/ (writer = None /\ ~Alive))
     \/ pc[c] \in {"opened", "changed", "asked"} /\ ~Alive
  /\ ReleaseLocks(c)
  /\ torn' = (torn \/ pc[c] = "opening")
  /\ End(c, "error")
  /\ UNCHANGED <<file, process, doc, nextId, notices, wire, runtime, bounds>>

Drained(c) ==
  /\ loop = "running" /\ pc[c] \in {"opened", "changed", "asked"}
  /\ Alive /\ Len(pipe) <= Room
  /\ ReleaseLocks(c)
  /\ doc' = IF pc[c] = "changed" THEN [doc EXCEPT !.text = text[c]] ELSE doc
  /\ GoTo(c, IF pc[c] = "asked" THEN "answer" ELSE "synced")
  /\ UNCHANGED <<file, process, torn, nextId, notices, wire, runtime, bounds>>

-----------------------------------------------------------------------------
(* Requests and their answers *)

Pending == {c \in Call : pc[c] \in Asking}

\* A plausible bug: the smallest id that no request is waiting for.
FreeId == CHOOSE i \in 1..(Cardinality(Call) + 1) :
             /\ \A c \in Pending : id[c] # i
             /\ \A j \in 1..(i - 1) : \E c \in Pending : id[c] = j

FreshId == nextId

Ask(c) ==
  /\ loop = "running" /\ pc[c] = "synced"
  /\ IF fatal
     THEN End(c, "error") /\ UNCHANGED nextId
     ELSE /\ pc' = [pc EXCEPT ![c] = "ask"]
          /\ id' = [id EXCEPT ![c] = FreshId]
          /\ nextId' = nextId + 1
          /\ UNCHANGED <<text, result>>
  /\ UNCHANGED <<file, process, doc, torn, syncer, writer, notices, wire, runtime, bounds>>

\* _read_loop pairs an answer with the request of its id, or ignores it.
Deliver(a) ==
  /\ loop = "running" /\ server = "up" /\ ~fatal /\ a \in answers
  /\ \A c \in Pending : id[c] = a.id => pc[c] = "answer"
  /\ answers' = answers \ {a}
  /\ Finish({c \in Pending : id[c] = a.id}, a.by)
  /\ UNCHANGED <<file, process, client, pipe, remote, runtime, bounds>>

\* _fail_pending, for each request that waits.
Abandon(c) ==
  /\ loop = "running" /\ fatal /\ pc[c] = "answer"
  /\ End(c, "error")
  /\ UNCHANGED <<file, process, client, wire, runtime, bounds>>

\* The coroutine is cancelled: `async with` and `finally` run, a request asks
\* for its $/cancelRequest, a waiter cancels the start it waits for.
Cancel(c) ==
  /\ IF loop = "running"
     THEN /\ ReleaseLocks(c)
          /\ torn' = (torn \/ pc[c] \in {"opening", "changed"})
          /\ notices' = IF pc[c] \in Asking THEN notices \cup {id[c]} ELSE notices
          /\ IF pc[c] = "waiting" THEN CancelStart ELSE UNCHANGED server
     ELSE UNCHANGED <<syncer, writer, torn, notices, server>>
  /\ End(c, "error")
  /\ UNCHANGED <<file, procs, dead, fatal, kind, doc, nextId, wire, runtime, bounds>>

\* The 30 seconds of the request, and the 42 seconds of the calling thread; while
\* a request runs the second does what the first does.
TimeOut(c) == loop = "running" /\ pc[c] \in Timed /\ Cancel(c)
GiveUp(c) ==
  /\ pc[c] \in {"submitted", "waiting"} \/ (pc[c] \in Timed /\ loop = "stopped")
  /\ Cancel(c)

\* The background task that sends $/cancelRequest.
Notify(i) ==
  /\ loop = "running" /\ i \in notices /\ writer = None
  /\ notices' = notices \ {i}
  /\ pipe' = IF Alive THEN Append(pipe, CancelRequest(i)) ELSE pipe
  /\ UNCHANGED <<file, calls, process, doc, torn, syncer, writer, nextId, remote, answers, runtime, bounds>>

-----------------------------------------------------------------------------
(* The server *)

\* What a message does to its document: a change replaces the range it names.
Applied(d, m) ==
  CASE m.kind = "open" -> [version |-> m.version, text |-> m.text]
    [] m.kind = "change" -> [version |-> m.version,
                             text |-> IF m.base \in {None, d.text} THEN m.text ELSE Mixed]
    [] OTHER -> d

ServerReads ==
  /\ Alive /\ pipe # <<>>
  /\ LET m == Head(pipe) IN
       /\ remote' = Applied(remote, m)
       /\ answers' = IF m.kind = "request" THEN answers \cup {[id |-> m.id, by |-> m.by]} ELSE answers
  /\ pipe' = Tail(pipe)
  /\ UNCHANGED <<file, calls, process, client, runtime, bounds>>

ServerDies ==
  /\ Alive /\ faults < MaxFaults /\ faults' = faults + 1
  /\ dead' = TRUE /\ procs' = procs - 1 /\ pipe' = <<>>
  /\ UNCHANGED <<file, calls, server, fatal, kind, client, remote, answers, runtime, edits>>

\* What the server wrote is no frame with a JSON object.
Unreadable == ~dead /\ faults < MaxFaults /\ faults' = faults + 1

\* _read_loop ends: at the end of the output, or at what is no message.
ReaderEnds ==
  /\ loop = "running" /\ server = "up" /\ ~fatal
  /\ \/ dead /\ answers = {} /\ UNCHANGED faults
     \/ Unreadable
  /\ fatal' = TRUE
  /\ UNCHANGED <<file, calls, server, procs, dead, kind, client, wire, runtime, edits>>

-----------------------------------------------------------------------------
(* close() *)

Close ==
  /\ closing = "no"
  /\ closing' = IF loop = "none" THEN "done" ELSE "cancel"
  /\ UNCHANGED <<file, calls, process, client, wire, loop, bounds>>

\* _shutdown cancels the starts and waits for them ...
ShutdownStarts ==
  /\ closing = "cancel" /\ closing' = "starts"
  /\ CancelStart
  /\ UNCHANGED <<file, calls, procs, dead, fatal, kind, client, wire, loop, bounds>>

ShutdownConnections ==
  /\ closing = "starts" /\ server \notin {"cancelled", "cut"}
  /\ closing' = IF server = "up" THEN "connections" ELSE "stop"
  /\ UNCHANGED <<file, calls, process, client, wire, loop, bounds>>

\* ... then closes the connections: asks the server to end, kills it at the deadline.
ConnectionCloses ==
  /\ closing = "connections" /\ closing' = "stop"
  /\ dead' = TRUE /\ pipe' = <<>>
  /\ procs' = IF dead THEN procs ELSE procs - 1
  /\ UNCHANGED <<file, calls, server, fatal, kind, client, remote, answers, loop, bounds>>

\* The loop is stopped, after 6 seconds even if the shutdown is not done.
LoopStops ==
  /\ closing \in {"cancel", "starts", "connections", "stop"}
  /\ closing' = "done" /\ loop' = "stopped"
  /\ UNCHANGED <<file, calls, process, client, wire, bounds>>

-----------------------------------------------------------------------------

Init ==
  /\ file \in Texts
  /\ pc = [c \in Call |-> "idle"]
  /\ text = [c \in Call |-> None] /\ id = [c \in Call |-> 0]
  /\ result = [c \in Call |-> None]
  /\ server = "none" /\ procs = 0 /\ dead = FALSE /\ fatal = FALSE /\ kind = NoSync
  /\ doc = NoDocument /\ torn = FALSE
  /\ syncer = None /\ writer = None /\ nextId = 1 /\ notices = {}
  /\ pipe = <<>> /\ remote = NoDocument /\ answers = {}
  /\ loop = "none" /\ closing = "no" /\ edits = 0 /\ faults = 0

Starts == StartSucceeds \/ StartFails \/ StartEnds
Goes(c) == Refused(c) \/ Submit(c) \/ Connect(c) \/ Sync(c) \/ SkipSync(c) \/ Write(c) \/ WriteFails(c)
           \/ Drained(c) \/ Ask(c) \/ Abandon(c)
Closes == ShutdownStarts \/ ShutdownConnections \/ ConnectionCloses \/ LoopStops

\* The model has no call left.
Exhausted == (\A c \in Call : pc[c] = "done") /\ UNCHANGED vars

Next ==
  \/ \E t \in Texts : Edit(t)
  \/ \E c \in Call : Execute(c) \/ Goes(c) \/ TimeOut(c) \/ GiveUp(c)
  \/ Starts \/ Closes \/ Close
  \/ \E a \in answers : Deliver(a)
  \/ \E i \in notices : Notify(i)
  \/ ServerReads \/ ServerDies \/ ReaderEnds \/ Exhausted

Spec == Init /\ [][Next]_vars

-----------------------------------------------------------------------------
(* Properties *)

\* Types.
TypeOK ==
  /\ file \in Texts
  /\ pc \in [Call -> {"idle", "reading", "submitted", "waiting", "done"} \cup Timed]
  /\ text \in [Call -> Texts \cup {None}]
  /\ id \in [Call -> Nat]
  /\ result \in [Call -> Call \cup {None, "error"}]
  /\ server \in {"none", "starting", "failing", "cancelled", "cut", "up", "failed"}
  /\ procs \in Nat /\ dead \in BOOLEAN /\ fatal \in BOOLEAN
  /\ kind \in Synchronisations
  /\ doc \in [version : Nat, text : Texts \cup {None}] /\ torn \in BOOLEAN
  /\ syncer \in Call \cup {None} /\ writer \in Call \cup {None}
  /\ nextId \in Nat \ {0} /\ notices \subseteq Nat
  /\ pipe \in Seq(Messages)
  /\ remote \in [version : Nat, text : Texts \cup {None, Mixed}]
  /\ answers \subseteq [id : Nat, by : Call]
  /\ loop \in {"none", "running", "stopped"}
  /\ closing \in {"no", "cancel", "starts", "connections", "stop", "done"}

\* The calls of all threads share one process: what _starting or _connections
\* knows is alive, and nothing else is, however starts fail, are cancelled by a
\* call that gives up, and are tried again (_connection, _start_connection).
OneServer ==
  procs = IF server \in {"starting", "failing", "cancelled", "cut"} \/ Alive THEN 1 ELSE 0

\* While no sync was cut off, a server that asked for openings and changes will
\* have, once it has read what is in the pipe, the text and the version the client
\* has on record; and any server reads versions in rising order, cut off or not
\* (sync_document).
Tracks == kind.opens /\ kind.change # "no"
Reading(from, messages) ==
  LET d[n \in 0..Len(messages)] == IF n = 0 THEN from ELSE Applied(d[n - 1], messages[n])
  IN d
Settled == Reading(remote, pipe)[Len(pipe)]
InStep ==
  Alive =>
    /\ \A i, j \in DOMAIN pipe :
         i < j /\ {pipe[i].kind, pipe[j].kind} \subseteq {"open", "change"}
           => pipe[i].version < pipe[j].version
    /\ Tracks /\ ~torn /\ syncer = None => Settled.text = doc.text

\* What a call returns is the answer to its own request, whatever other
\* requests were cancelled and answered late, and no request that still waits is
\* cancelled in place of another (request, _read_loop).
AnswerIsOwn ==
  /\ \A c \in Call : result[c] \in Call => result[c] = c
  /\ \A c \in Pending : id[c] \notin notices

\* Once close() has returned, no server process is alive.
ClosedKills == closing = "done" => procs = 0

=============================================================================
