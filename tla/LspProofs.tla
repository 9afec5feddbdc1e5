------------------------------ MODULE LspProofs ------------------------------
(***************************************************************************)
(* What the LSP runtime guarantees for any number of calls, texts, pipes,     *)
(* faults and kinds of synchronisation: one process, documents in step, and   *)
(* the own answer for each call.                                              *)
(***************************************************************************)
EXTENDS Lsp, SequenceTheorems, WellFoundedInduction, TLAPS

-----------------------------------------------------------------------------
(* Types.                                                                    *)

Places == {"idle", "reading", "submitted", "waiting", "done"} \cup Timed
Known == server \in {"starting", "failing", "cancelled", "cut"} \/ Alive

CallTypes ==
  /\ pc \in [Call -> Places]
  /\ text \in [Call -> Texts \cup {None}]
  /\ id \in [Call -> Nat]
  /\ result \in [Call -> Call \cup {None, "error"}]
ServerTypes ==
  /\ server \in {"none", "starting", "failing", "cancelled", "cut", "up", "failed"}
  /\ kind \in Synchronisations
ClientTypes ==
  /\ file \in Texts
  /\ doc \in [version : Nat, text : Texts \cup {None}]
  /\ syncer \in Call \cup {None} /\ writer \in Call \cup {None}
  /\ nextId \in Nat \ {0} /\ notices \subseteq Nat
WireTypes ==
  /\ pipe \in Seq(Messages)
  /\ remote \in [version : Nat, text : Texts \cup {None, Mixed}]
  /\ answers \subseteq [id : Nat, by : Call]
LoopTypes ==
  /\ loop \in {"none", "running", "stopped"}
  /\ closing \in {"no", "cancel", "starts", "connections", "stop", "done"}
FlagTypes == dead \in BOOLEAN /\ fatal \in BOOLEAN /\ torn \in BOOLEAN

\* What a step of one call leaves the others.
Spared(d) == pc'[d] = pc[d] /\ text'[d] = text[d] /\ id'[d] = id[d] /\ result'[d] = result[d]

LEMMA GoToIs ==
  ASSUME CallTypes, NEW c \in Call, NEW where \in Places, GoTo(c, where)
  PROVE  CallTypes' /\ pc'[c] = where /\ text' = text /\ id' = id /\ result' = result
         /\ \A d \in Call : d # c => Spared(d)
<1>1. pc' \in [Call -> Places] /\ pc'[c] = where /\ \A d \in Call : d # c => pc'[d] = pc[d]
  <2> HIDE DEF Places
  <2> QED
    BY DEF GoTo, CallTypes
<1>2. text' = text /\ id' = id /\ result' = result
  BY DEF GoTo
<1> QED
  BY <1>1, <1>2 DEF CallTypes, Spared

LEMMA FinishIs ==
  ASSUME CallTypes, NEW C, NEW r \in Call \cup {None, "error"}, Finish(C, r)
  PROVE  /\ CallTypes'
         /\ \A d \in Call : d \notin C => Spared(d)
         /\ \A d \in Call : d \in C => pc'[d] = "done" /\ result'[d] = r /\ id'[d] = 0
<1>1. "done" \in Places
  BY DEF Places
<1>2. pc' \in [Call -> Places]
  BY <1>1 DEF Finish, CallTypes
<1>3. text' \in [Call -> Texts \cup {None}] /\ id' \in [Call -> Nat]
  BY DEF Finish, CallTypes
<1>4. result' \in [Call -> Call \cup {None, "error"}]
  BY DEF Finish, CallTypes
<1>5. \A d \in Call : d \notin C => Spared(d)
  BY DEF Finish, Spared
<1>6. \A d \in Call : d \in C => pc'[d] = "done" /\ result'[d] = r /\ id'[d] = 0
  BY DEF Finish
<1> QED
  BY <1>2, <1>3, <1>4, <1>5, <1>6 DEF CallTypes

LEMMA EndIs ==
  ASSUME CallTypes, NEW c \in Call, End(c, "error")
  PROVE  /\ CallTypes' /\ pc'[c] = "done" /\ result'[c] = "error" /\ id'[c] = 0
         /\ \A d \in Call : d # c => Spared(d)
<1>1. Finish({c}, "error")
  BY DEF End
<1> QED
  BY <1>1, FinishIs

\* Where a step of a call takes it.
LEMMA CallMoves ==
  ASSUME CallTypes, ClientTypes, NEW c \in Call,
         Execute(c) \/ Goes(c) \/ TimeOut(c) \/ GiveUp(c)
  PROVE  CallTypes' /\ (\A d \in Call : d # c => Spared(d))
         /\ result'[c] \in {result[c], "error"}
<1>0. {"reading", "submitted", "waiting", "sync", "synced", "opening", "changing", "opened",
       "changed", "asked", "ask", "answer"} \subseteq Places
  BY DEF Places, Timed, Syncing, Asking
<1> HIDE DEF Places
<1>1. CASE End(c, "error")
  BY <1>1, EndIs
<1>2. ASSUME NEW where \in Places, GoTo(c, where)
      PROVE  CallTypes' /\ (\A d \in Call : d # c => Spared(d)) /\ result'[c] = result[c]
  BY <1>2, GoToIs
<1>3. CASE Execute(c)
  BY <1>0, <1>1, <1>2, <1>3 DEF Execute
<1>4. CASE Refused(c) \/ Abandon(c)
  BY <1>1, <1>4 DEF Refused, Abandon
<1>5. CASE Submit(c) /\ loop # "stopped"
  <2>1. pc' = [pc EXCEPT ![c] = "submitted"] /\ text' = [text EXCEPT ![c] = file]
        /\ id' = id /\ result' = result
    BY <1>5 DEF Submit
  <2> QED
    BY <1>0, <2>1 DEF CallTypes, ClientTypes, Spared
<1>6. CASE Submit(c) /\ loop = "stopped"
  BY <1>1, <1>6 DEF Submit
<1>7. CASE Connect(c)
  BY <1>0, <1>1, <1>2, <1>7 DEF Connect
<1>8. CASE Sync(c) \/ SkipSync(c)
  BY <1>0, <1>2, <1>8 DEF Sync, SkipSync
<1>9. CASE Write(c)
  <2>1. pc[c] \in {"opening", "changing", "ask"} /\ GoTo(c, Draining[pc[c]])
    BY <1>9 DEF Write, Draining
  <2>2. Draining[pc[c]] \in {"opened", "changed", "asked"}
    BY <2>1 DEF Draining
  <2> QED
    BY <1>0, <1>2, <2>1, <2>2
<1>10. CASE WriteFails(c)
  BY <1>1, <1>10 DEF WriteFails
<1>11. CASE Drained(c)
  BY <1>0, <1>2, <1>11 DEF Drained
<1>12. CASE Ask(c) /\ fatal
  BY <1>1, <1>12 DEF Ask
<1>13. CASE Ask(c) /\ ~fatal
  <2>1. pc' = [pc EXCEPT ![c] = "ask"] /\ text' = text /\ id' = [id EXCEPT ![c] = FreshId]
        /\ result' = result
    BY <1>13 DEF Ask
  <2> QED
    BY <1>0, <2>1 DEF CallTypes, ClientTypes, FreshId, Spared
<1>14. CASE TimeOut(c) \/ GiveUp(c)
  BY <1>1, <1>14 DEF TimeOut, GiveUp, Cancel
<1> QED
  BY <1>3, <1>4, <1>5, <1>6, <1>7, <1>8, <1>9, <1>10, <1>11, <1>12, <1>13, <1>14 DEF Goes


Calls(c) == Execute(c) \/ Goes(c) \/ TimeOut(c) \/ GiveUp(c)

LEMMA CallStep ==
  ASSUME CallTypes, ClientTypes, WireTypes, [Next]_vars
  PROVE  CallTypes'
<1>1. CASE \E c \in Call : Calls(c)
  BY <1>1, CallMoves DEF Calls
<1>2. CASE StartSucceeds
  <2>1. "sync" \in Places
    BY DEF Places, Timed
  <2> HIDE DEF Places
  <2> QED
    BY <1>2, <2>1 DEF StartSucceeds, CallTypes
<1>3. CASE StartEnds
  BY <1>3, FinishIs DEF StartEnds
<1>4. ASSUME NEW a \in answers, Deliver(a) PROVE CallTypes'
  <2>1. a.by \in Call
    BY <1>4 DEF WireTypes
  <2> QED
    BY <1>4, <2>1, FinishIs DEF Deliver
<1>5. CASE UNCHANGED calls
  BY <1>5 DEF calls, CallTypes
<1> QED
  BY <1>1, <1>2, <1>3, <1>4, <1>5
     DEF Next, Calls, Starts, Closes, Edit, StartFails, ShutdownStarts, ShutdownConnections,
         ConnectionCloses, LoopStops, Close, Notify, ServerReads, ServerDies, ReaderEnds,
         Exhausted, vars

LEMMA ReleaseTyped ==
  ASSUME ClientTypes, NEW c \in Call, ReleaseLocks(c)
  PROVE  syncer' \in Call \cup {None} /\ writer' \in Call \cup {None}
BY DEF ReleaseLocks, ClientTypes

LEMMA CancelTyped ==
  ASSUME CallTypes, ClientTypes, NEW c \in Call, Cancel(c)
  PROVE  syncer' \in Call \cup {None} /\ writer' \in Call \cup {None}
         /\ notices' \subseteq Nat
<1>1. CASE loop = "running"
  <2>1. ReleaseLocks(c)
        /\ notices' = IF pc[c] \in Asking THEN notices \cup {id[c]} ELSE notices
    BY <1>1 DEF Cancel
  <2>2. id[c] \in Nat
    BY DEF CallTypes
  <2> QED
    BY <2>1, <2>2, ReleaseTyped DEF ClientTypes
<1>2. CASE loop # "running"
  BY <1>2 DEF Cancel, ClientTypes
<1> QED
  BY <1>1, <1>2

LEMMA ClientStep ==
  ASSUME CallTypes, ClientTypes, [Next]_vars
  PROVE  ClientTypes'
<1> USE DEF ClientTypes
<1>1. ASSUME NEW t \in Texts, Edit(t) PROVE ClientTypes'
  BY <1>1 DEF Edit, client
<1>2. ASSUME NEW c \in Call, Sync(c) PROVE ClientTypes'
  <2>1. text[c] \in Texts \cup {None} /\ doc.version \in Nat /\ doc.text \in Texts \cup {None}
    BY DEF CallTypes
  <2>2. doc' \in [version : Nat, text : Texts \cup {None}]
    BY <1>2, <2>1 DEF Sync
  <2>3. syncer' \in Call \cup {None} /\ UNCHANGED <<file, writer, nextId, notices>>
    BY <1>2 DEF Sync
  <2> QED
    BY <2>2, <2>3
<1>3. ASSUME NEW c \in Call, Write(c) PROVE ClientTypes'
  BY <1>3 DEF Write
<1>4. ASSUME NEW c \in Call, WriteFails(c) PROVE ClientTypes'
  BY <1>4, ReleaseTyped DEF WriteFails
<1>5. ASSUME NEW c \in Call, Drained(c) PROVE ClientTypes'
  <2>1. text[c] \in Texts \cup {None}
    BY DEF CallTypes
  <2>2. doc' \in [version : Nat, text : Texts \cup {None}]
    BY <1>5, <2>1 DEF Drained
  <2> QED
    BY <1>5, <2>2, ReleaseTyped DEF Drained
<1>6. ASSUME NEW c \in Call, Ask(c) PROVE ClientTypes'
  BY <1>6 DEF Ask
<1>7. ASSUME NEW c \in Call, TimeOut(c) \/ GiveUp(c) PROVE ClientTypes'
  <2>1. Cancel(c)
    BY <1>7 DEF TimeOut, GiveUp
  <2> QED
    BY <2>1, CancelTyped DEF Cancel
<1>8. ASSUME NEW i \in notices, Notify(i) PROVE ClientTypes'
  BY <1>8 DEF Notify
<1>9. CASE UNCHANGED <<file, client>>
  BY <1>9 DEF client
<1> QED
  BY <1>1, <1>2, <1>3, <1>4, <1>5, <1>6, <1>7, <1>8, <1>9
     DEF Next, Goes, Execute, Refused, Submit, Connect, SkipSync, Abandon, Deliver, Starts,
         StartSucceeds, StartFails, StartEnds, Closes, ShutdownStarts, ShutdownConnections,
         ConnectionCloses, LoopStops, Close, ServerReads, ServerDies, ReaderEnds, Exhausted, vars

LEMMA MessageTyped ==
  ASSUME CallTypes, ClientTypes, NEW c \in Call, pc[c] \in DOMAIN Draining
  PROVE  Message(c) \in Messages
<1>1. /\ text[c] \in Texts \cup {None} /\ doc.version \in Nat /\ doc.text \in Texts \cup {None}
      /\ id[c] \in Nat
  BY DEF CallTypes, ClientTypes
<1>2. CASE pc[c] = "opening"
  BY <1>1, <1>2 DEF Message, DidOpen, Messages
<1>3. CASE pc[c] = "changing"
  <2>1. Message(c) = DidChange(doc.version, text[c], IF kind.change = "full" THEN None ELSE doc.text)
    BY <1>3 DEF Message
  <2> QED
    BY <1>1, <2>1 DEF DidChange, Messages
<1>4. CASE pc[c] = "ask"
  <2>1. Message(c) = Request(id[c], c)
    BY <1>4 DEF Message
  <2> QED
    BY <1>1, <2>1 DEF Request, Messages
<1> QED
  BY <1>2, <1>3, <1>4 DEF Draining

LEMMA AppliedTyped ==
  ASSUME NEW d \in [version : Nat, text : Texts \cup {None, Mixed}], NEW m \in Messages
  PROVE  Applied(d, m) \in [version : Nat, text : Texts \cup {None, Mixed}]
<1>1. m.kind \in {"open", "change"} => m.version \in Nat /\ m.text \in Texts \cup {None}
  BY DEF Messages
<1> QED
  BY <1>1 DEF Applied

LEMMA WireStep ==
  ASSUME CallTypes, ClientTypes, WireTypes, [Next]_vars
  PROVE  WireTypes'
<1> USE DEF WireTypes
<1>1. ASSUME NEW c \in Call, Write(c) PROVE WireTypes'
  <2>1. Message(c) \in Messages
    BY <1>1, MessageTyped DEF Write
  <2>2. pipe' = Append(pipe, Message(c)) /\ UNCHANGED <<remote, answers>>
    BY <1>1 DEF Write
  <2> QED
    BY <2>1, <2>2
<1>2. ASSUME NEW a \in answers, Deliver(a) PROVE WireTypes'
  BY <1>2 DEF Deliver
<1>3. ASSUME NEW i \in notices, Notify(i) PROVE WireTypes'
  <2>1. CancelRequest(i) \in Messages
    BY <1>3 DEF CancelRequest, Messages, ClientTypes
  <2>2. pipe' \in Seq(Messages) /\ UNCHANGED <<remote, answers>>
    BY <1>3, <2>1 DEF Notify
  <2> QED
    BY <2>2
<1>4. CASE ServerReads
  <2>1. Head(pipe) \in Messages /\ pipe' = Tail(pipe) /\ pipe' \in Seq(Messages)
    BY <1>4 DEF ServerReads
  <2>2. remote' = Applied(remote, Head(pipe))
    BY <1>4 DEF ServerReads
  <2>3. remote' \in [version : Nat, text : Texts \cup {None, Mixed}]
    BY <2>1, <2>2, AppliedTyped
  <2>4. Head(pipe).kind = "request" => Head(pipe).id \in Nat /\ Head(pipe).by \in Call
    BY <2>1 DEF Messages
  <2>5. answers' \subseteq [id : Nat, by : Call]
    BY <1>4, <2>4 DEF ServerReads
  <2> QED
    BY <2>1, <2>3, <2>5
<1>5. CASE ServerDies \/ ConnectionCloses
  <2>1. pipe' = <<>> /\ remote' = remote /\ answers' = answers
    BY <1>5 DEF ServerDies, ConnectionCloses
  <2>2. <<>> \in Seq(Messages)
    OBVIOUS
  <2> QED
    BY <2>1, <2>2
<1>6. CASE UNCHANGED wire
  BY <1>6 DEF wire
<1> QED
  BY <1>1, <1>2, <1>3, <1>4, <1>5, <1>6
     DEF Next, Goes, Edit, Execute, Refused, Submit, Connect, Sync, SkipSync, WriteFails,
         Drained, Ask, Abandon, TimeOut, GiveUp, Cancel, Starts, StartSucceeds, StartFails,
         StartEnds, Closes, ShutdownStarts, ShutdownConnections, LoopStops, Close, ReaderEnds,
         Exhausted, vars

LEMMA LoopStep ==
  ASSUME LoopTypes, [Next]_vars
  PROVE  LoopTypes'
<1>1. loop' \in {loop, "running", "stopped"}
  <2>1. CASE UNCHANGED loop
    BY <2>1
  <2>2. ASSUME NEW c \in Call, Submit(c) PROVE loop' \in {loop, "running", "stopped"}
    BY <2>2 DEF Submit
  <2>3. CASE LoopStops
    BY <2>3 DEF LoopStops
  <2> QED
    BY <2>1, <2>2, <2>3
       DEF Next, Goes, Edit, Execute, Refused, Connect, Sync, SkipSync, Write, WriteFails,
           Drained, Ask, Abandon, TimeOut, GiveUp, Cancel, Deliver, Notify, Starts,
           StartSucceeds, StartFails, StartEnds, Closes, ShutdownStarts, ShutdownConnections,
           ConnectionCloses, Close, ServerReads, ServerDies, ReaderEnds, Exhausted,
           runtime, vars
<1>2. closing' \in {closing, "cancel", "starts", "connections", "stop", "done"}
  <2>1. CASE UNCHANGED closing
    BY <2>1
  <2>2. CASE Closes \/ Close
    BY <2>2 DEF Closes, Close, ShutdownStarts, ShutdownConnections, ConnectionCloses, LoopStops
  <2> QED
    BY <2>1, <2>2
       DEF Next, Goes, Edit, Execute, Refused, Submit, Connect, Sync, SkipSync, Write,
           WriteFails, Drained, Ask, Abandon, TimeOut, GiveUp, Cancel, Deliver, Notify, Starts,
           StartSucceeds, StartFails, StartEnds, ServerReads, ServerDies, ReaderEnds,
           Exhausted, runtime, vars
<1> QED
  BY <1>1, <1>2 DEF LoopTypes

LEMMA FlagStep ==
  ASSUME FlagTypes, [Next]_vars
  PROVE  FlagTypes'
<1>1. dead' \in {dead, TRUE} /\ fatal' \in {fatal, TRUE}
  BY DEF Next, Goes, Edit, Execute, Refused, Submit, Connect, Sync, SkipSync, Write,
       WriteFails, Drained, Ask, Abandon, TimeOut, GiveUp, Cancel, Deliver, Notify, Starts,
       StartSucceeds, StartFails, StartEnds, Closes, ShutdownStarts, ShutdownConnections,
       ConnectionCloses, LoopStops, Close, ServerReads, ServerDies, ReaderEnds, Exhausted,
       process, vars
<1>2. torn' = torn \/ torn' \in BOOLEAN
  <2>1. CASE torn' = torn
    BY <2>1
  <2>2. ASSUME NEW c \in Call, WriteFails(c) PROVE torn' \in BOOLEAN
    BY <2>2, Zenon DEF WriteFails
  <2>3. ASSUME NEW c \in Call, Cancel(c) PROVE torn' \in BOOLEAN
    BY <2>3, Zenon DEF Cancel, FlagTypes
  <2> QED
    BY <2>1, <2>2, <2>3
       DEF Next, Goes, Edit, Execute, Refused, Submit, Connect, Sync, SkipSync, Write,
       Drained, Ask, Abandon, TimeOut, GiveUp, Deliver, Notify, Starts,
       StartSucceeds, StartFails, StartEnds, Closes, ShutdownStarts, ShutdownConnections,
       ConnectionCloses, LoopStops, Close, ServerReads, ServerDies, ReaderEnds, Exhausted,
       client, vars
<1> QED
  BY <1>1, <1>2, Zenon DEF FlagTypes


LEMMA ServerStep ==
  ASSUME LspAssumption, ServerTypes, [Next]_vars
  PROVE  ServerTypes'
<1>1. kind' \in {kind} \cup Kinds
  BY DEF Next, Goes, Edit, Execute, Refused, Submit, Connect, Sync, SkipSync, Write,
       WriteFails, Drained, Ask, Abandon, TimeOut, GiveUp, Cancel, Deliver, Notify, Starts,
       StartSucceeds, StartFails, StartEnds, Closes, ShutdownStarts, ShutdownConnections,
       ConnectionCloses, LoopStops, Close, ServerReads, ServerDies, ReaderEnds, Exhausted,
       process, vars
<1>2. server' \in {server, "starting", "up", "failing", "failed", "none", "cancelled", "cut"}
  BY DEF Next, Goes, Edit, Execute, Refused, Submit, Connect, Sync, SkipSync, Write,
       WriteFails, Drained, Ask, Abandon, TimeOut, GiveUp, Cancel, CancelStart, Deliver, Notify,
       Starts, StartSucceeds, StartFails, StartEnds, Closes, ShutdownStarts, ShutdownConnections,
       ConnectionCloses, LoopStops, Close, ServerReads, ServerDies, ReaderEnds, Exhausted,
       process, vars
<1> QED
  BY <1>1, <1>2 DEF ServerTypes, LspAssumption

-----------------------------------------------------------------------------
(* The start.  Before a server is up nothing is known of a document and no    *)
(* call is under the limit of a request; a process that ended was up.         *)

Unopened == doc = NoDocument /\ remote = NoDocument /\ pipe = <<>>
StartInv ==
  /\ dead => server = "up"
  /\ server # "up" => Unopened /\ \A c \in Call : pc[c] \notin Timed
  /\ closing = "connections" => server = "up"
  /\ loop = "none" => \A c \in Call : pc[c] \in {"idle", "reading", "done"}

\* Steps by which a call reaches an await.
LEMMA ReachesTimed ==
  ASSUME CallTypes, ClientTypes, WireTypes, [Next]_vars,
         NEW c \in Call, pc'[c] \in Timed
  PROVE  pc[c] \in Timed \/ StartSucceeds \/ (loop = "running" /\ server = "up")
<1>0. {"sync", "synced", "opening", "changing", "opened", "changed", "asked", "ask", "answer"}
        = Timed
  BY DEF Timed, Syncing, Asking
<1>1. CASE UNCHANGED pc
  BY <1>1
<1>2. ASSUME NEW d \in Call, Calls(d), d # c PROVE pc[c] \in Timed
  BY <1>2, CallMoves DEF Spared, Calls
<1>3. ASSUME End(c, "error") PROVE FALSE
  BY <1>0, <1>3, EndIs
<1>4. ASSUME NEW where, GoTo(c, where), where \in Places PROVE pc'[c] = where
  BY <1>4, GoToIs
<1>5. CASE Calls(c)
  <2>1. "reading" \in Places /\ "waiting" \in Places
    BY DEF Places
  <2>2. CASE Execute(c) \/ Refused(c) \/ Connect(c) \/ Ask(c) \/ Abandon(c) \/ WriteFails(c)
    BY <1>0, <1>3, <1>4, <2>1, <2>2
       DEF Execute, Refused, Connect, Ask, Abandon, WriteFails
  <2>3. CASE Submit(c)
    BY <1>0, <1>3, <2>3 DEF Submit, CallTypes
  <2>4. CASE Sync(c) \/ SkipSync(c) \/ Write(c) \/ Drained(c)
    BY <1>0, <2>4 DEF Sync, SkipSync, Write, Drained, Draining
  <2>5. CASE TimeOut(c) \/ GiveUp(c)
    BY <1>3, <2>5 DEF TimeOut, GiveUp, Cancel
  <2> QED
    BY <1>5, <2>2, <2>3, <2>4, <2>5 DEF Calls, Goes
<1>6. ASSUME NEW C, NEW r \in Call \cup {None, "error"}, Finish(C, r)
      PROVE  pc[c] \in Timed
  <2>1. CASE c \in C
    BY <1>0, <1>6, <2>1, FinishIs
  <2>2. CASE c \notin C
    BY <1>6, <2>2, FinishIs DEF Spared
  <2> QED
    BY <2>1, <2>2
<1>7. ASSUME NEW a \in answers, Deliver(a) PROVE pc[c] \in Timed
  <2>1. a.by \in Call
    BY <1>7 DEF WireTypes
  <2> QED
    BY <1>6, <1>7, <2>1 DEF Deliver
<1> QED
  BY <1>1, <1>2, <1>5, <1>6, <1>7
     DEF Next, Calls, Starts, Closes, Edit, StartFails, StartEnds, ShutdownStarts,
         ShutdownConnections, ConnectionCloses, LoopStops, Close, Notify, ServerReads,
         ServerDies, ReaderEnds, Exhausted, calls, vars


\* A server that is up stays up, and one that is not comes up by its start.
LEMMA ServerMoves ==
  ASSUME StartInv, [Next]_vars
  PROVE  /\ server = "up" => server' = "up"
         /\ server' = "up" => server = "up" \/ StartSucceeds
         /\ dead' => dead \/ server = "up"
<1>1. CASE UNCHANGED <<server, dead>>
  BY <1>1
<1>2. ASSUME NEW c \in Call, Connect(c)
      PROVE  dead' = dead /\ (server = "up" <=> server' = "up")
  BY <1>2 DEF Connect
<1>3. ASSUME NEW c \in Call, Cancel(c)
      PROVE  dead' = dead /\ (server = "up" <=> server' = "up")
  BY <1>3 DEF Cancel, CancelStart
<1>4. CASE Starts
  BY <1>4 DEF Starts, StartSucceeds, StartFails, StartEnds
<1>5. CASE ShutdownStarts
  BY <1>5 DEF ShutdownStarts, CancelStart
<1>6. CASE ServerDies
  BY <1>6 DEF ServerDies, Alive
<1>7. CASE ConnectionCloses
  BY <1>7 DEF ConnectionCloses, StartInv
<1> QED
  BY <1>1, <1>2, <1>3, <1>4, <1>5, <1>6, <1>7
     DEF Next, Goes, Edit, Execute, Refused, Submit, Sync, SkipSync, Write,
       WriteFails, Drained, Ask, Abandon, TimeOut, GiveUp, Deliver, Notify, Closes,
       ShutdownConnections, LoopStops, Close, ServerReads, ReaderEnds, Exhausted,
       process, vars

LEMMA UnopenedStep ==
  ASSUME CallTypes, ClientTypes, WireTypes, StartInv, [Next]_vars, server' # "up"
  PROVE  Unopened'
<1>1. server # "up" /\ ~dead /\ Unopened /\ \A c \in Call : pc[c] \notin Timed
  BY ServerMoves DEF StartInv
<1>2. ~Alive /\ ~(server = "up" /\ ~dead)
  BY <1>1 DEF Alive
<1>3. CASE UNCHANGED <<doc, remote, pipe>>
  BY <1>1, <1>3 DEF Unopened, NoDocument
<1>4. \A c \in Call : ~Sync(c) /\ ~Write(c) /\ ~Drained(c)
  BY <1>1, <1>2 DEF Sync, Write, Drained, Timed
<1>5. ~ServerReads /\ ~ServerDies /\ ~ConnectionCloses
  BY <1>1, <1>2 DEF ServerReads, ServerDies, ConnectionCloses, StartInv
<1>6. ASSUME NEW i \in notices, Notify(i) PROVE UNCHANGED <<doc, remote, pipe>>
  BY <1>2, <1>6 DEF Notify
<1> QED
  BY <1>3, <1>4, <1>5, <1>6
     DEF Next, Goes, Edit, Execute, Refused, Submit, Connect, SkipSync, WriteFails, Ask, Abandon,
       TimeOut, GiveUp, Cancel, Deliver, Starts, StartSucceeds, StartFails, StartEnds, Closes,
       ShutdownStarts, ShutdownConnections, LoopStops, Close, ReaderEnds, Exhausted,
       client, wire, vars

LEMMA StartStep ==
  ASSUME CallTypes, ClientTypes, WireTypes, LoopTypes, StartInv, [Next]_vars
  PROVE  StartInv'
<1>1. dead' => server' = "up"
  BY ServerMoves DEF StartInv
<1>2. server' # "up" => Unopened' /\ \A c \in Call : pc'[c] \notin Timed
  <2> SUFFICES ASSUME server' # "up", NEW c \in Call, pc'[c] \in Timed PROVE FALSE
    BY UnopenedStep
  <2>1. server # "up" /\ pc[c] \notin Timed
    BY ServerMoves DEF StartInv
  <2>2. ~StartSucceeds
    BY DEF StartSucceeds
  <2> QED
    BY <2>1, <2>2, ReachesTimed
<1>3. closing' = "connections" => server' = "up"
  <2>1. CASE closing' = closing
    BY <2>1, ServerMoves DEF StartInv
  <2>2. CASE Closes \/ Close
    BY <2>2 DEF Closes, Close, ShutdownStarts, ShutdownConnections, ConnectionCloses, LoopStops,
                process
  <2> QED
    BY <2>1, <2>2
       DEF Next, Goes, Edit, Execute, Refused, Submit, Connect, Sync, SkipSync, Write,
           WriteFails, Drained, Ask, Abandon, TimeOut, GiveUp, Cancel, Deliver, Notify, Starts,
           StartSucceeds, StartFails, StartEnds, ServerReads, ServerDies, ReaderEnds,
           Exhausted, runtime, vars
<1>4. ASSUME loop' = "none" PROVE \A c \in Call : pc'[c] \in {"idle", "reading", "done"}
  <2>1. loop = "none"
    BY <1>4
       DEF Next, Goes, Edit, Execute, Refused, Submit, Connect, Sync, SkipSync, Write,
           WriteFails, Drained, Ask, Abandon, TimeOut, GiveUp, Cancel, Deliver, Notify, Starts,
           StartSucceeds, StartFails, StartEnds, Closes, ShutdownStarts, ShutdownConnections,
           ConnectionCloses, LoopStops, Close, ServerReads, ServerDies, ReaderEnds, Exhausted,
           runtime, vars
  <2>2. \A c \in Call : pc[c] \in {"idle", "reading", "done"}
    BY <2>1 DEF StartInv
  <2>3. CASE UNCHANGED pc
    BY <2>2, <2>3
  <2>4. ASSUME NEW c \in Call, Calls(c), NEW d \in Call
        PROVE  pc'[d] \in {"idle", "reading", "done"}
    <3>1. CASE d # c
      BY <2>2, <2>4, <3>1, CallMoves DEF Spared, Calls
    <3>2. CASE d = c /\ End(c, "error")
      BY <3>2, EndIs
    <3>3. CASE d = c /\ Execute(c)
      <4>1. "reading" \in Places
        BY DEF Places
      <4> QED
        BY <3>2, <3>3, <4>1, GoToIs DEF Execute
    <3>4. Refused(c) => End(c, "error")
      BY DEF Refused
    <3>5. ~Submit(c)
      BY <1>4 DEF Submit
    <3>6. loop # "running"
      BY <2>1
    <3>7. TimeOut(c) \/ GiveUp(c) => End(c, "error")
      BY DEF TimeOut, GiveUp, Cancel
    <3> QED
      BY <2>4, <3>1, <3>2, <3>3, <3>4, <3>5, <3>6, <3>7
         DEF Calls, Goes, Connect, Sync, SkipSync, Write, WriteFails, Drained, Ask, Abandon
  <2> QED
    BY <2>1, <2>3, <2>4
       DEF Next, Calls, Starts, StartSucceeds, Closes, Edit, StartFails, StartEnds,
           ShutdownStarts, ShutdownConnections, ConnectionCloses, LoopStops, Close, Deliver,
           Notify, ServerReads, ServerDies, ReaderEnds, Exhausted, calls, vars
<1> QED
  BY <1>1, <1>2, <1>3, <1>4 DEF StartInv

-----------------------------------------------------------------------------
(* Processes.  What is known is alive, and but for a server that ignores     *)
(* SIGTERM there is no other process.                                        *)

ProcsInv ==
  /\ procs \in Nat
  /\ procs >= (IF Known THEN 1 ELSE 0)
  /\ ~Stubborn => procs = IF Known THEN 1 ELSE 0

LEMMA ProcsStep ==
  ASSUME LspAssumption, ServerTypes, FlagTypes, StartInv, ProcsInv, [Next]_vars
  PROVE  ProcsInv'
<1> DEFINE Same == procs' = procs /\ (Known' <=> Known)
<1>1. CASE Same
  BY <1>1 DEF ProcsInv
<1>2. CASE UNCHANGED process
  BY <1>1, <1>2 DEF process, Known, Alive
<1>3. ASSUME NEW c \in Call, Connect(c) PROVE ProcsInv'
  <2>1. CASE server = "none" /\ server' = "starting" /\ procs' = procs + 1
    BY <2>1 DEF ProcsInv, Known, Alive
  <2>2. CASE UNCHANGED <<server, procs>>
    BY <1>1, <1>3, <2>2 DEF Connect, Known, Alive
  <2> QED
    BY <1>3, <2>1, <2>2 DEF Connect
<1>4. ASSUME CancelStart, UNCHANGED <<procs, dead>> PROVE ProcsInv'
  BY <1>1, <1>4 DEF CancelStart, Known, Alive
<1>5. ASSUME NEW c \in Call, Cancel(c) PROVE ProcsInv'
  <2>1. CASE UNCHANGED server
    BY <1>1, <1>5, <2>1 DEF Cancel, Known, Alive
  <2>2. CASE CancelStart
    BY <1>4, <1>5, <2>2 DEF Cancel
  <2> QED
    BY <1>5, <2>1, <2>2 DEF Cancel
<1>6. CASE StartSucceeds
  <2>1. server = "starting" /\ server' = "up" /\ dead' = dead /\ procs' = procs /\ ~dead
    BY <1>6 DEF StartSucceeds, StartInv
  <2> QED
    BY <1>1, <2>1 DEF Known, Alive
<1>7. CASE StartFails
  BY <1>1, <1>7 DEF StartFails, Known, Alive
<1>8. CASE StartEnds
  <2>1. server \in {"failing", "cancelled", "cut"} /\ server' \in {"failed", "none"}
        /\ (procs' = procs - 1 \/ (Stubborn /\ procs' = procs))
    BY <1>8 DEF StartEnds
  <2>2. Known /\ ~Known'
    BY <2>1 DEF Known, Alive
  <2> QED
    BY <2>1, <2>2 DEF ProcsInv
<1>9. CASE ServerDies
  <2>1. server = "up" /\ ~dead /\ dead' = TRUE /\ server' = server /\ procs' = procs - 1
    BY <1>9 DEF ServerDies, Alive
  <2>2. Known /\ ~Known'
    BY <2>1 DEF Known, Alive
  <2> QED
    BY <2>1, <2>2 DEF ProcsInv
<1>10. CASE ConnectionCloses
  <2>1. server = "up" /\ dead' = TRUE /\ server' = server
        /\ procs' = (IF dead THEN procs ELSE procs - 1)
    BY <1>10 DEF ConnectionCloses, StartInv
  <2>2. ~Known' /\ (Known <=> ~dead)
    BY <2>1 DEF Known, Alive
  <2> QED
    BY <2>1, <2>2 DEF ProcsInv, FlagTypes
<1>11. CASE ShutdownStarts
  BY <1>4, <1>11 DEF ShutdownStarts
<1>12. CASE ReaderEnds
  BY <1>1, <1>12 DEF ReaderEnds, Known, Alive
<1> QED
  BY <1>2, <1>3, <1>5, <1>6, <1>7, <1>8, <1>9, <1>10, <1>11, <1>12
     DEF Next, Goes, Edit, Execute, Refused, Submit, Sync, SkipSync, Write,
       WriteFails, Drained, Ask, Abandon, TimeOut, GiveUp, Deliver, Notify, Starts, Closes,
       ShutdownConnections, LoopStops, Close, ServerReads, Exhausted, vars


-----------------------------------------------------------------------------
(* What the server will have read.                                           *)

Less == OpToRel(<, Nat)

\* A set of numbers that is not empty has a least one.
LEMMA LeastNumber ==
  ASSUME NEW T, T \subseteq Nat, T # {}
  PROVE  \E x \in T : \A y \in T : ~(y < x)
<1>1. \A i, j \in Nat : i < j => <<i, j>> \in Less
  <2>1. Less = {p \in Nat \X Nat : p[1] < p[2]}
    BY DEF Less, OpToRel
  <2> QED
    BY <2>1
<1>2. IsWellFoundedOn(Less, Nat)
  BY NatLessThanWellFounded, Zenon DEF Less
<1>3. \E x \in T : \A y \in T : ~(<<y, x>> \in Less)
  BY <1>2, WFMin, Zenon
<1> QED
  BY <1>1, <1>3

\* A set that has 0 and, with each number, the next one, has them all.
LEMMA AllNumbers ==
  ASSUME NEW S, 0 \in S, \A n \in Nat : n \in S => n + 1 \in S
  PROVE  \A n \in Nat : n \in S
<1> SUFFICES ASSUME {n \in Nat : n \notin S} # {} PROVE FALSE
  OBVIOUS
<1> PICK x \in {n \in Nat : n \notin S} : \A y \in {n \in Nat : n \notin S} : ~(y < x)
  BY LeastNumber, Zenon
<1>1. x # 0
  OBVIOUS
<1>2. x - 1 \in Nat /\ x = (x - 1) + 1
  BY <1>1
<1> QED
  BY <1>2

\* d is the document after each of the first m messages.
Upto(d, from, ms, m) == d = [n \in 0..m |-> IF n = 0 THEN from ELSE Applied(d[n - 1], ms[n])]

\* Reading is defined for every sequence of messages.
LEMMA ReadingIs ==
  ASSUME NEW from, NEW ms \in Seq(Messages)
  PROVE  Upto(Reading(from, ms), from, ms, Len(ms))
<1> DEFINE T == {m \in Nat : \E d : Upto(d, from, ms, m)}
<1>1. 0 \in T
  <2>1. Upto([n \in 0..0 |-> from], from, ms, 0)
    BY DEF Upto
  <2> QED
    BY <2>1, Zenon
<1>2. \A m \in Nat : m \in T => m + 1 \in T
  <2> SUFFICES ASSUME NEW m \in Nat, NEW d, Upto(d, from, ms, m) PROVE m + 1 \in T
    BY Zenon
  <2> DEFINE g == [n \in 0..(m + 1) |-> IF n <= m THEN d[n] ELSE Applied(d[m], ms[m + 1])]
             Next1(f) == [n \in 0..(m + 1) |-> IF n = 0 THEN from ELSE Applied(f[n - 1], ms[n])]
  <2>0. d = [n \in 0..m |-> IF n = 0 THEN from ELSE Applied(d[n - 1], ms[n])]
    BY DEF Upto
  <2>1. \A n \in 0..(m + 1) : g[n] = IF n = 0 THEN from ELSE Applied(g[n - 1], ms[n])
    <3> SUFFICES ASSUME NEW n \in 0..(m + 1)
                 PROVE g[n] = IF n = 0 THEN from ELSE Applied(g[n - 1], ms[n])
      OBVIOUS
    <3>1. CASE n = m + 1
      BY <3>1
    <3>2. CASE n \in 0..m
      BY <2>0, <3>2
    <3> QED
      BY <3>1, <3>2
  <2>2. g = [n \in 0..(m + 1) |-> g[n]]
    OBVIOUS
  <2> HIDE DEF g
  <2>3. Next1(g) = [n \in 0..(m + 1) |-> Next1(g)[n]] /\ \A n \in 0..(m + 1) : Next1(g)[n] = g[n]
    BY <2>1
  <2>4. g = Next1(g)
    <3> HIDE DEF Next1
    <3> QED
      BY <2>2, <2>3
  <2>5. Upto(g, from, ms, m + 1)
    BY <2>4, Zenon DEF Upto
  <2>6. m + 1 \in Nat
    OBVIOUS
  <2> QED
    BY <2>5, <2>6, Zenon
<1>3. Len(ms) \in T
  <2> HIDE DEF T
  <2> QED
    BY <1>1, <1>2, AllNumbers
<1>4. \E d : Upto(d, from, ms, Len(ms))
  BY <1>3
<1> QED
  BY <1>4, Zenon DEF Reading, Upto

LEMMA ReadingStep ==
  ASSUME NEW from, NEW ms \in Seq(Messages), NEW n \in 0..Len(ms)
  PROVE  Reading(from, ms)[n] = IF n = 0 THEN from ELSE Applied(Reading(from, ms)[n - 1], ms[n])
<1> DEFINE d == Reading(from, ms)
<1>1. d = [k \in 0..Len(ms) |-> IF k = 0 THEN from ELSE Applied(d[k - 1], ms[k])]
  BY ReadingIs, Zenon DEF Upto
<1> HIDE DEF d
<1>2. d[n] = IF n = 0 THEN from ELSE Applied(d[n - 1], ms[n])
  BY <1>1
<1> QED
  BY <1>2 DEF d

\* Two readings that see the same messages from the same document agree.
Alike(f, g, ms, k) ==
  /\ f[0] = g[0]
  /\ \A n \in 1..k : f[n] = Applied(f[n - 1], ms[n]) /\ g[n] = Applied(g[n - 1], ms[n])

LEMMA SameReading ==
  ASSUME NEW f, NEW g, NEW ms, NEW k \in Nat, Alike(f, g, ms, k)
  PROVE  f[k] = g[k]
<1> USE DEF Alike
<1> DEFINE T == {n \in Nat : n <= k => f[n] = g[n]}
<1>1. 0 \in T
  OBVIOUS
<1>2. \A n \in Nat : n \in T => n + 1 \in T
  <2> SUFFICES ASSUME NEW n \in Nat, n \in T, n + 1 <= k PROVE f[n + 1] = g[n + 1]
    OBVIOUS
  <2>1. n + 1 \in 1..k /\ (n + 1) - 1 = n /\ f[n] = g[n]
    OBVIOUS
  <2>2. /\ f[n + 1] = Applied(f[(n + 1) - 1], ms[n + 1])
        /\ g[n + 1] = Applied(g[(n + 1) - 1], ms[n + 1])
    BY <2>1
  <2> QED
    BY <2>1, <2>2
<1>3. k \in T
  <2> HIDE DEF T
  <2> QED
    BY <1>1, <1>2, AllNumbers
<1> QED
  BY <1>3

LEMMA SettledAppend ==
  ASSUME NEW from, NEW ms \in Seq(Messages), NEW m \in Messages
  PROVE  Reading(from, Append(ms, m))[Len(Append(ms, m))]
           = Applied(Reading(from, ms)[Len(ms)], m)
<1> DEFINE longer == Append(ms, m)
           f == Reading(from, longer)
           g == Reading(from, ms)
<1>1. /\ longer \in Seq(Messages) /\ Len(longer) = Len(ms) + 1 /\ Len(ms) \in Nat
      /\ longer[Len(ms) + 1] = m /\ \A n \in 1..Len(ms) : longer[n] = ms[n]
  OBVIOUS
<1> HIDE DEF longer
<1>2. \A n \in 0..Len(longer) : f[n] = IF n = 0 THEN from ELSE Applied(f[n - 1], longer[n])
  BY <1>1, ReadingStep
<1>3. \A n \in 0..Len(ms) : g[n] = IF n = 0 THEN from ELSE Applied(g[n - 1], ms[n])
  BY ReadingStep
<1> HIDE DEF f, g
<1>4. Alike(f, g, ms, Len(ms))
  <2>1. \A n \in 1..Len(ms) : g[n] = Applied(g[n - 1], ms[n])
    BY <1>3
  <2>2. ASSUME NEW n \in 1..Len(ms) PROVE f[n] = Applied(f[n - 1], ms[n])
    <3>1. n \in 0..Len(longer) /\ n # 0 /\ longer[n] = ms[n]
      BY <1>1
    <3> QED
      BY <1>2, <3>1
  <2>3. f[0] = from /\ g[0] = from
    BY <1>1, <1>2, <1>3
  <2> QED
    BY <2>1, <2>2, <2>3 DEF Alike
<1>5. f[Len(ms)] = g[Len(ms)]
  BY <1>1, <1>4, SameReading
<1>6. f[Len(ms) + 1] = Applied(f[Len(ms)], m)
  BY <1>1, <1>2
<1> QED
  BY <1>1, <1>5, <1>6 DEF f, g, longer

LEMMA SettledTail ==
  ASSUME NEW from, NEW ms \in Seq(Messages), ms # <<>>
  PROVE  Reading(Applied(from, Head(ms)), Tail(ms))[Len(Tail(ms))] = Reading(from, ms)[Len(ms)]
<1> DEFINE rest == Tail(ms)
           f == Reading(from, ms)
           g == Reading(Applied(from, Head(ms)), rest)
           h == [n \in 0..Len(rest) |-> f[n + 1]]
<1>1. /\ rest \in Seq(Messages) /\ Len(ms) = Len(rest) + 1 /\ Len(rest) \in Nat
      /\ ms[1] = Head(ms) /\ \A n \in 1..Len(rest) : rest[n] = ms[n + 1]
  OBVIOUS
<1> HIDE DEF rest
<1>2. \A n \in 0..Len(ms) : f[n] = IF n = 0 THEN from ELSE Applied(f[n - 1], ms[n])
  BY ReadingStep
<1>3. \A n \in 0..Len(rest) :
        g[n] = IF n = 0 THEN Applied(from, Head(ms)) ELSE Applied(g[n - 1], rest[n])
  BY <1>1, ReadingStep
<1> HIDE DEF f, g
<1>4. f[1] = Applied(from, Head(ms))
  BY <1>1, <1>2
<1>5. \A n \in 1..Len(rest) : h[n] = Applied(h[n - 1], rest[n])
  <2> SUFFICES ASSUME NEW n \in 1..Len(rest) PROVE h[n] = Applied(h[n - 1], rest[n])
    OBVIOUS
  <2>1. h[n] = f[n + 1] /\ h[n - 1] = f[n] /\ n + 1 \in 0..Len(ms) /\ (n + 1) - 1 = n
    BY <1>1
  <2>2. f[n + 1] = Applied(f[n], ms[n + 1])
    BY <1>2, <2>1
  <2> QED
    BY <1>1, <2>1, <2>2
<1>6. h[0] = g[0] /\ h[Len(rest)] = f[Len(rest) + 1]
  BY <1>1, <1>3, <1>4
<1>7. \A n \in 1..Len(rest) : g[n] = Applied(g[n - 1], rest[n])
  BY <1>1, <1>3
<1> HIDE DEF h
<1>8. h[Len(rest)] = g[Len(rest)]
  <2>1. Alike(h, g, rest, Len(rest))
    BY <1>5, <1>6, <1>7 DEF Alike
  <2> QED
    BY <1>1, <2>1, SameReading
<1> QED
  BY <1>1, <1>6, <1>8 DEF f, g, rest


-----------------------------------------------------------------------------
(* The document.  Who is between the record and the message holds _sync_lock, *)
(* so nobody else touches the record or writes of the document.              *)

LockInv ==
  /\ \A c \in Call : pc[c] \in Syncing => syncer = c
  /\ loop # "stopped" /\ syncer # None => pc[syncer] \in Syncing

Versioned(m) == m.kind \in {"open", "change"}
\* Versions in the pipe rise, up to the one on record.
VersionInv == Alive =>
  /\ \A k \in DOMAIN pipe : Versioned(pipe[k]) => pipe[k].version <= doc.version
  /\ \A c \in Call : pc[c] \in {"opening", "changing"} =>
       \A k \in DOMAIN pipe : Versioned(pipe[k]) => pipe[k].version < doc.version
  /\ \A i, j \in DOMAIN pipe :
       i < j /\ Versioned(pipe[i]) /\ Versioned(pipe[j]) => pipe[i].version < pipe[j].version
  /\ \A c \in Call : pc[c] = "opening" => doc.version = 1

\* What the server will have, at each await of a sync.
TextInv == Alive /\ Tracks /\ ~torn =>
  /\ syncer = None => Settled.text = doc.text
  /\ \A c \in Call : pc[c] \in {"changing", "opened"} => Settled.text = doc.text
  /\ \A c \in Call : pc[c] = "opening" => doc.text = text[c]
  /\ \A c \in Call : pc[c] = "changed" => Settled.text = text[c]

\* A step that is no part of a sync and changes nothing a sync looks at.
Undisturbed(d) == pc[d] \in Syncing \/ pc'[d] \in Syncing => pc'[d] = pc[d] /\ text'[d] = text[d]
Calm ==
  /\ UNCHANGED <<doc, torn, syncer, pipe, remote>>
  /\ Alive' => Alive /\ kind' = kind
  /\ loop' # "stopped" => loop # "stopped"
  /\ \A d \in Call : Undisturbed(d)

LEMMA CalmStep ==
  ASSUME CallTypes, ClientTypes, WireTypes, [Next]_vars
  PROVE  \/ Calm
         \/ \E c \in Call : Sync(c) \/ Write(c) \/ WriteFails(c) \/ Drained(c) \/ Cancel(c)
         \/ \E i \in notices : Notify(i)
         \/ ServerReads \/ ServerDies \/ ConnectionCloses \/ StartSucceeds
<1> DEFINE Quiet == UNCHANGED <<doc, torn, syncer, pipe, remote>>
           Up == (Alive' => Alive /\ kind' = kind) /\ (loop' # "stopped" => loop # "stopped")
<1>1. ASSUME UNCHANGED <<pc, text>>, Quiet, Up PROVE Calm
  BY <1>1 DEF Calm, Undisturbed
<1>2. ASSUME NEW c \in Call, Quiet, Up, \A d \in Call : d # c => Spared(d),
             pc[c] \notin Syncing, pc'[c] \notin Syncing
      PROVE  Calm
  BY <1>2 DEF Calm, Undisturbed, Spared
<1>3. ASSUME NEW C, NEW r \in Call \cup {None, "error"}, Finish(C, r),
             \A c \in C : pc[c] \notin Syncing, Quiet, Up
      PROVE  Calm
  <2>1. \A d \in Call : Undisturbed(d)
    <3> SUFFICES ASSUME NEW d \in Call PROVE Undisturbed(d)
      OBVIOUS
    <3>1. CASE d \in C
      <4>1. pc'[d] = "done" /\ pc[d] \notin Syncing
        BY <1>3, <3>1, FinishIs
      <4> QED
        BY <4>1 DEF Undisturbed, Syncing
    <3>2. CASE d \notin C
      BY <1>3, <3>2, FinishIs DEF Spared, Undisturbed
    <3> QED
      BY <3>1, <3>2
  <2> QED
    BY <1>3, <2>1 DEF Calm
<1>4. ASSUME NEW c \in Call,
             Execute(c) \/ Refused(c) \/ Submit(c) \/ Connect(c) \/ SkipSync(c) \/ Ask(c) \/ Abandon(c)
      PROVE  Calm
  <2>1. Calls(c) /\ \A d \in Call : d # c => Spared(d)
    BY <1>4, CallMoves DEF Calls, Goes
  <2>2. pc[c] \in {"idle", "reading", "submitted", "sync", "synced", "answer"}
    BY <1>4 DEF Execute, Refused, Submit, Connect, SkipSync, Ask, Abandon
  <2>3. pc'[c] \in {"reading", "submitted", "waiting", "sync", "synced", "ask", "done"}
    <3>1. ASSUME End(c, "error") PROVE pc'[c] = "done"
      BY <3>1, EndIs
    <3>2. pc \in [Call -> Places]
      BY DEF CallTypes
    <3> HIDE DEF Places
    <3>3. CASE Execute(c) \/ Refused(c) \/ Submit(c)
      BY <3>1, <3>2, <3>3 DEF Execute, Refused, Submit, GoTo
    <3>4. CASE Connect(c)
      BY <3>1, <3>2, <3>4 DEF Connect, GoTo
    <3>5. CASE SkipSync(c) \/ Ask(c) \/ Abandon(c)
      BY <3>1, <3>2, <3>5 DEF SkipSync, Ask, Abandon, GoTo
    <3> QED
      BY <1>4, <3>3, <3>4, <3>5
  <2>4. Quiet
    BY <1>4 DEF Execute, Refused, Submit, Connect, SkipSync, Ask, Abandon, client, wire
  <2>5. Up
    BY <1>4 DEF Execute, Refused, Submit, Connect, SkipSync, Ask, Abandon, process, runtime, Alive
  <2> HIDE DEF Quiet, Up
  <2> QED
    BY <1>2, <2>1, <2>2, <2>3, <2>4, <2>5 DEF Syncing
<1>5. ASSUME NEW t \in Texts, Edit(t) PROVE Calm
  BY <1>1, <1>5 DEF Edit, calls, process, client, wire, runtime, Alive
<1>6. CASE StartFails \/ ShutdownStarts \/ ShutdownConnections \/ LoopStops \/ Close \/ ReaderEnds
  <2>1. UNCHANGED <<pc, text>> /\ Quiet
    BY <1>6 DEF StartFails, ShutdownStarts, ShutdownConnections, LoopStops, Close, ReaderEnds,
                calls, client, wire
  <2>2. Up
    BY <1>6 DEF StartFails, ShutdownStarts, ShutdownConnections, LoopStops, Close, ReaderEnds,
                CancelStart, process, runtime, Alive
  <2> QED
    BY <1>1, <2>1, <2>2
<1>7. CASE StartEnds
  <2>1. Finish(Waiters, "error") /\ \A c \in Waiters : pc[c] \notin Syncing
    BY <1>7 DEF StartEnds, Waiters, Syncing
  <2>2. Quiet /\ Up
    BY <1>7 DEF StartEnds, client, wire, runtime, Alive
  <2> QED
    BY <1>3, <2>1, <2>2
<1>8. ASSUME NEW a \in answers, Deliver(a) PROVE Calm
  <2> DEFINE C == {c \in Pending : id[c] = a.id}
  <2>1. Finish(C, a.by) /\ a.by \in Call
    BY <1>8 DEF Deliver, WireTypes
  <2>2. \A c \in C : pc[c] \notin Syncing
    BY DEF Pending, Asking, Syncing
  <2>3. Quiet /\ Up
    BY <1>8 DEF Deliver, client, process, runtime, Alive
  <2> HIDE DEF C
  <2> QED
    BY <1>3, <2>1, <2>2, <2>3
<1>9. CASE UNCHANGED vars
  BY <1>1, <1>9 DEF vars, calls, client, wire, process, runtime, Alive
<1> HIDE DEF Quiet, Up
<1> QED
  BY <1>4, <1>5, <1>6, <1>7, <1>8, <1>9
     DEF Next, Goes, TimeOut, GiveUp, Starts, Closes, Exhausted


\* Where the steps of a sync take their call.
LEMMA SyncMoves ==
  ASSUME CallTypes, NEW c \in Call,
         Sync(c) \/ Write(c) \/ WriteFails(c) \/ Drained(c) \/ Cancel(c)
  PROVE  /\ \A d \in Call : d # c => pc'[d] = pc[d] /\ text'[d] = text[d]
         /\ Sync(c) => pc[c] = "sync" /\ pc'[c] \in {"opening", "changing", "synced"} /\ text' = text
         /\ Write(c) => /\ pc[c] \in {"opening", "changing", "ask"}
                        /\ pc'[c] = Draining[pc[c]] /\ text' = text
         /\ WriteFails(c) \/ Cancel(c) => pc'[c] = "done"
         /\ Drained(c) => pc'[c] \in {"answer", "synced"} /\ text' = text
<1>0. {"opening", "changing", "synced", "opened", "changed", "asked", "answer"} \subseteq Places
  BY DEF Places, Timed, Syncing, Asking
<1>1. ASSUME NEW where \in Places, GoTo(c, where)
      PROVE  pc'[c] = where /\ text' = text /\ \A d \in Call : d # c => pc'[d] = pc[d]
  BY <1>1, GoToIs DEF Spared
<1>2. ASSUME End(c, "error")
      PROVE  pc'[c] = "done" /\ \A d \in Call : d # c => pc'[d] = pc[d] /\ text'[d] = text[d]
  BY <1>2, EndIs DEF Spared
<1> HIDE DEF Places
<1>3. CASE Sync(c)
  <2>1. pc[c] = "sync" /\ \E where \in {"opening", "changing", "synced"} : GoTo(c, where)
    BY <1>3 DEF Sync
  <2>2. PICK where \in {"opening", "changing", "synced"} : GoTo(c, where)
    BY <2>1
  <2>3. pc'[c] = where /\ text' = text /\ \A d \in Call : d # c => pc'[d] = pc[d]
    BY <1>0, <1>1, <2>2
  <2>4. ~Write(c) /\ ~WriteFails(c) /\ ~Drained(c)
    BY <2>1 DEF Write, WriteFails, Drained, Draining, TooLong
  <2>5. ~Cancel(c)
    BY <1>2, <2>2, <2>3 DEF Cancel
  <2> QED
    BY <2>1, <2>2, <2>3, <2>4, <2>5
<1>4. CASE Write(c)
  <2>1. pc[c] \in {"opening", "changing", "ask"} /\ GoTo(c, Draining[pc[c]])
        /\ Draining[pc[c]] \in {"opened", "changed", "asked"}
    BY <1>4 DEF Write, Draining
  <2>2. pc'[c] = Draining[pc[c]] /\ text' = text /\ \A d \in Call : d # c => pc'[d] = pc[d]
    BY <1>0, <1>1, <2>1
  <2>3. ~Sync(c) /\ ~Drained(c)
    BY <2>1 DEF Sync, Drained
  <2>4. ~End(c, "error")
    BY <1>2, <2>1, <2>2
  <2> QED
    BY <2>1, <2>2, <2>3, <2>4 DEF WriteFails, Cancel
<1>5. CASE Drained(c)
  <2>1. pc[c] \in {"opened", "changed", "asked"} /\ \E where \in {"answer", "synced"} : GoTo(c, where)
    BY <1>5 DEF Drained
  <2>2. PICK where \in {"answer", "synced"} : GoTo(c, where)
    BY <2>1
  <2>3. pc'[c] = where /\ text' = text /\ \A d \in Call : d # c => pc'[d] = pc[d]
    BY <1>0, <1>1, <2>2
  <2>4. ~Write(c) /\ ~Sync(c)
    BY <2>1 DEF Write, Sync, Draining
  <2>5. ~End(c, "error")
    BY <1>2, <2>2, <2>3
  <2> QED
    BY <2>1, <2>2, <2>3, <2>4, <2>5 DEF WriteFails, Cancel
<1>6. CASE WriteFails(c) \/ Cancel(c)
  <2>1. End(c, "error")
    BY <1>6 DEF WriteFails, Cancel
  <2>2. pc'[c] = "done" /\ \A d \in Call : d # c => pc'[d] = pc[d] /\ text'[d] = text[d]
    BY <1>2, <2>1
  <2> QED
    BY <1>3, <1>4, <1>5, <1>6, <2>2
<1> QED
  BY <1>3, <1>4, <1>5, <1>6

LEMMA LockStep ==
  ASSUME LspAssumption, CallTypes, ClientTypes, WireTypes, LoopTypes, StartInv, LockInv, [Next]_vars
  PROVE  LockInv'
<1>0. None \notin Call
  BY DEF LspAssumption
<1>1. CASE Calm
  <2>1. syncer' = syncer /\ (loop' # "stopped" => loop # "stopped") /\ \A d \in Call : Undisturbed(d)
    BY <1>1 DEF Calm
  <2> QED
    BY <2>1 DEF LockInv, Undisturbed, ClientTypes
<1>2. ASSUME NEW c \in Call, Sync(c) PROVE LockInv'
  <2>1. syncer = None /\ \A d \in Call : pc[d] \notin Syncing
    BY <1>0, <1>2 DEF Sync, LockInv
  <2>2. /\ \A d \in Call : d # c => pc'[d] = pc[d]
        /\ pc'[c] \in {"opening", "changing", "synced"}
    BY <1>2, SyncMoves
  <2>3. pc'[c] \in {"opening", "changing"} => syncer' = c
    BY <1>2, <2>1 DEF Sync, GoTo, CallTypes
  <2>4. pc'[c] = "synced" => syncer' = None
    BY <1>2, <2>1 DEF Sync, GoTo, CallTypes
  <2> QED
    BY <1>0, <2>1, <2>2, <2>3, <2>4 DEF LockInv, Syncing
<1>3. ASSUME NEW c \in Call, Write(c) PROVE LockInv'
  <2>1. syncer' = syncer /\ loop' = loop
    BY <1>3 DEF Write, runtime
  <2>2. /\ \A d \in Call : d # c => pc'[d] = pc[d]
        /\ pc[c] \in {"opening", "changing", "ask"} /\ pc'[c] = Draining[pc[c]]
    BY <1>3, SyncMoves
  <2>3. pc'[c] \in Syncing <=> pc[c] \in Syncing
    BY <2>2 DEF Draining, Syncing
  <2> QED
    BY <2>1, <2>2, <2>3 DEF LockInv, ClientTypes
<1>4. ASSUME NEW c \in Call, ReleaseLocks(c), loop' = loop, pc'[c] \notin Syncing,
             \A d \in Call : d # c => pc'[d] = pc[d]
      PROVE  LockInv'
  BY <1>0, <1>4 DEF LockInv, ReleaseLocks, ClientTypes
<1>5. ASSUME NEW c \in Call, WriteFails(c) \/ Drained(c) \/ Cancel(c) PROVE LockInv'
  <2>1. \A d \in Call : d # c => pc'[d] = pc[d]
    BY <1>5, SyncMoves
  <2>2. pc'[c] \notin Syncing
    BY <1>5, SyncMoves DEF Syncing
  <2>3. loop' = loop
    BY <1>5 DEF WriteFails, Drained, Cancel, runtime
  <2>4. CASE ReleaseLocks(c)
    BY <1>4, <2>1, <2>2, <2>3, <2>4
  <2>5. CASE loop # "running" /\ UNCHANGED syncer
    <3>1. loop # "stopped" => \A d \in Call : pc[d] \notin Syncing
      BY <2>5 DEF StartInv, LoopTypes, Syncing
    <3>2. loop # "stopped" => syncer = None
      BY <3>1 DEF LockInv, ClientTypes
    <3> QED
      BY <1>0, <2>1, <2>2, <2>3, <2>5, <3>2 DEF LockInv
  <2> QED
    BY <1>5, <2>4, <2>5 DEF WriteFails, Drained, Cancel
<1>6. ASSUME UNCHANGED <<pc, syncer, loop>> PROVE LockInv'
  BY <1>6 DEF LockInv
<1>7. ASSUME NEW i \in notices, Notify(i) PROVE LockInv'
  BY <1>6, <1>7 DEF Notify, calls, runtime
<1>8. CASE ServerReads \/ ServerDies \/ ConnectionCloses
  BY <1>6, <1>8 DEF ServerReads, ServerDies, ConnectionCloses, calls, client, runtime
<1>9. CASE StartSucceeds
  <2>1. \A d \in Call : pc[d] \notin Syncing /\ pc'[d] \notin Syncing
    <3>1. \A d \in Call : pc[d] \notin Timed
      BY <1>9 DEF StartSucceeds, StartInv
    <3>2. \A d \in Call : pc'[d] \in {"sync", pc[d]}
      BY <1>9 DEF StartSucceeds
    <3> QED
      BY <3>1, <3>2 DEF Timed, Syncing
  <2>2. syncer' = syncer /\ loop' = loop
    BY <1>9 DEF StartSucceeds, client, runtime
  <2> QED
    BY <2>1, <2>2 DEF LockInv, ClientTypes
<1> QED
  BY <1>1, <1>2, <1>3, <1>5, <1>7, <1>8, <1>9, CalmStep


LEMMA VersionStep ==
  ASSUME LspAssumption, CallTypes, ClientTypes, WireTypes, LoopTypes, StartInv, LockInv,
         VersionInv, [Next]_vars
  PROVE  VersionInv'
<1> SUFFICES ASSUME Alive' PROVE VersionInv'
  BY DEF VersionInv
<1>0. None \notin Call /\ doc.version \in Nat /\ doc'.version \in Nat
  BY ClientStep DEF LspAssumption, ClientTypes
<1>1. \A k \in DOMAIN pipe : Versioned(pipe[k]) => pipe[k].version \in Nat
  <2> SUFFICES ASSUME NEW k \in DOMAIN pipe, Versioned(pipe[k]) PROVE pipe[k].version \in Nat
    OBVIOUS
  <2>1. pipe[k] \in Messages
    BY DEF WireTypes
  <2> QED
    BY <2>1 DEF Versioned, Messages
\* A step that leaves the pipe and the record alone and starts no sync.
<1>2. ASSUME Alive, UNCHANGED <<doc, pipe>>,
             \A d \in Call : pc'[d] \in {"opening", "changing"} => pc'[d] = pc[d]
      PROVE  VersionInv'
  BY <1>2 DEF VersionInv
<1>3. CASE Calm
  BY <1>2, <1>3 DEF Calm, Undisturbed, Syncing
<1>4. ASSUME NEW c \in Call, Sync(c) PROVE VersionInv'
  <2>1. Alive /\ pipe' = pipe
    BY <1>4 DEF Sync, process, wire, Alive
  <2>2. \A d \in Call : pc[d] \notin Syncing
    BY <1>0, <1>4 DEF Sync, LockInv
  <2>3. \A d \in Call : d # c => pc'[d] \notin {"opening", "changing"}
    BY <1>4, <2>2, SyncMoves DEF Syncing
  <2>4. CASE UNCHANGED doc
    <3>1. pc'[c] = "synced"
      BY <1>4, <2>4 DEF Sync, NoDocument, GoTo, CallTypes, ClientTypes
    <3> QED
      BY <1>2, <2>1, <2>3, <2>4, <3>1
  <2>5. CASE doc'.version > doc.version /\ (pc'[c] = "opening" => doc'.version = 1)
    <3>1. \A k \in DOMAIN pipe : Versioned(pipe[k]) => pipe[k].version < doc'.version
      BY <1>0, <1>1, <2>1, <2>5 DEF VersionInv
    <3> QED
      BY <1>0, <1>1, <2>1, <2>3, <2>5, <3>1 DEF VersionInv
  <2>6. CASE doc = NoDocument
    BY <1>4, <2>5, <2>6 DEF Sync, NoDocument
  <2>7. CASE doc # NoDocument /\ doc.text # text[c]
    <3>1. doc'.version = doc.version + 1
      BY <1>4, <2>7 DEF Sync
    <3>2. pc'[c] \in {"synced", "changing"}
      BY <1>4, <2>7 DEF Sync, GoTo, CallTypes
    <3> QED
      BY <1>0, <2>5, <3>1, <3>2
  <2>8. CASE doc # NoDocument /\ doc.text = text[c]
    BY <1>4, <2>4, <2>8 DEF Sync
  <2> QED
    BY <2>6, <2>7, <2>8
<1>5. ASSUME NEW c \in Call, Write(c) PROVE VersionInv'
  <2>1. /\ Alive /\ doc' = doc /\ pipe' = Append(pipe, Message(c)) /\ pc[c] \in DOMAIN Draining
        /\ pc[c] \in {"opening", "changing", "ask"}
    BY <1>5 DEF Write, Draining
  <2>2. Message(c) \in Messages
    BY <2>1, MessageTyped
  <2>3. /\ DOMAIN pipe = 1..Len(pipe) /\ DOMAIN pipe' = 1..(Len(pipe) + 1) /\ Len(pipe) \in Nat
        /\ pipe'[Len(pipe) + 1] = Message(c) /\ \A k \in 1..Len(pipe) : pipe'[k] = pipe[k]
    BY <2>1, <2>2 DEF WireTypes
  <2>4. \A d \in Call : pc'[d] \in {"opening", "changing"} => d # c /\ pc'[d] = pc[d]
    BY <1>5, SyncMoves DEF Draining
  <2>5. CASE ~Versioned(Message(c))
    BY <2>1, <2>3, <2>4, <2>5 DEF VersionInv
  <2>6. CASE Versioned(Message(c))
    <3>1. pc[c] \in {"opening", "changing"}
      BY <2>1, <2>6 DEF Versioned, Message, Request
    <3>2. Message(c).version = doc.version
      <4>1. CASE pc[c] = "opening"
        BY <2>1, <4>1 DEF Message, DidOpen, VersionInv
      <4>2. CASE pc[c] = "changing"
        BY <4>2 DEF Message, DidChange
      <4> QED
        BY <3>1, <4>1, <4>2
    <3>3. \A k \in DOMAIN pipe : Versioned(pipe[k]) => pipe[k].version < doc.version
      BY <2>1, <3>1 DEF VersionInv
    <3>4. \A d \in Call : pc'[d] \notin {"opening", "changing"}
      BY <2>4, <3>1 DEF LockInv, Syncing
    <3>5. \A i, j \in DOMAIN pipe :
            i < j /\ Versioned(pipe[i]) /\ Versioned(pipe[j]) => pipe[i].version < pipe[j].version
      BY <2>1 DEF VersionInv
    <3>6. \A k \in DOMAIN pipe' : Versioned(pipe'[k]) => pipe'[k].version <= doc'.version
      BY <1>0, <1>1, <2>1, <2>3, <3>2, <3>3
    <3>7. \A i, j \in DOMAIN pipe' : i < j /\ Versioned(pipe'[i]) /\ Versioned(pipe'[j])
            => pipe'[i].version < pipe'[j].version
      BY <1>0, <1>1, <2>1, <2>3, <3>2, <3>3, <3>5
    <3> QED
      BY <3>4, <3>6, <3>7 DEF VersionInv
  <2> QED
    BY <2>5, <2>6
<1>6. ASSUME NEW c \in Call, WriteFails(c) \/ Cancel(c) PROVE VersionInv'
  <2>1. Alive /\ UNCHANGED <<doc, pipe>>
    BY <1>6 DEF WriteFails, Cancel, CancelStart, process, wire, Alive
  <2> QED
    BY <1>2, <1>6, <2>1, SyncMoves
<1>7. ASSUME NEW c \in Call, Drained(c) PROVE VersionInv'
  <2>1. Alive /\ pipe' = pipe /\ doc'.version = doc.version
    BY <1>7 DEF Drained, wire, ClientTypes
  <2>2. \A d \in Call : pc'[d] \in {"opening", "changing"} => pc'[d] = pc[d]
    BY <1>7, SyncMoves
  <2> QED
    BY <2>1, <2>2 DEF VersionInv
<1>8. ASSUME NEW i \in notices, Notify(i) PROVE VersionInv'
  <2>1. Alive /\ doc' = doc /\ pc' = pc
    BY <1>8 DEF Notify, process, calls, Alive
  <2>2. pipe' = Append(pipe, CancelRequest(i)) /\ CancelRequest(i) \in Messages
    BY <1>8, <2>1 DEF Notify, CancelRequest, Messages, ClientTypes
  <2>3. ~Versioned(CancelRequest(i))
    BY DEF Versioned, CancelRequest
  <2>4. /\ DOMAIN pipe = 1..Len(pipe) /\ DOMAIN pipe' = 1..(Len(pipe) + 1) /\ Len(pipe) \in Nat
        /\ pipe'[Len(pipe) + 1] = CancelRequest(i) /\ \A k \in 1..Len(pipe) : pipe'[k] = pipe[k]
    BY <2>2 DEF WireTypes
  <2> QED
    BY <2>1, <2>3, <2>4 DEF VersionInv
<1>9. CASE ServerReads
  <2>1. Alive /\ doc' = doc /\ pc' = pc /\ pipe # <<>> /\ pipe' = Tail(pipe)
    BY <1>9 DEF ServerReads, calls, client
  <2>2. /\ DOMAIN pipe = 1..Len(pipe) /\ DOMAIN pipe' = 1..(Len(pipe) - 1) /\ Len(pipe) \in Nat
        /\ \A k \in 1..(Len(pipe) - 1) : pipe'[k] = pipe[k + 1]
    BY <2>1 DEF WireTypes
  <2>3. \A k \in DOMAIN pipe' : k \in Nat /\ k + 1 \in DOMAIN pipe /\ pipe'[k] = pipe[k + 1]
    BY <2>2
  <2> QED
    BY <2>1, <2>3 DEF VersionInv
<1>10. ~ServerDies /\ ~ConnectionCloses
  BY DEF ServerDies, ConnectionCloses, Alive
<1>11. CASE StartSucceeds
  <2>1. pipe' = <<>> /\ \A d \in Call : pc'[d] \notin {"opening", "changing"}
    BY <1>11 DEF StartSucceeds, StartInv, Unopened, wire, Timed, Syncing
  <2>2. DOMAIN pipe' = {}
    BY <2>1
  <2> QED
    BY <2>1, <2>2 DEF VersionInv
<1> QED
  BY <1>3, <1>4, <1>5, <1>6, <1>7, <1>8, <1>9, <1>10, <1>11, CalmStep

LEMMA TextStep ==
  ASSUME LspAssumption, CallTypes, ClientTypes, WireTypes, LoopTypes, StartInv, LockInv,
         TextInv, [Next]_vars
  PROVE  TextInv'
<1> DEFINE Tracked == Alive /\ Tracks /\ ~torn
<1> USE DEF Tracks
<1> SUFFICES ASSUME Tracked' PROVE TextInv'
  BY DEF TextInv
<1>0. None \notin Call
  BY DEF LspAssumption
\* A step that changes nothing the server will have.
<1>1. ASSUME UNCHANGED <<pipe, remote>> PROVE Settled' = Settled
  BY <1>1 DEF Settled
<1>2. CASE Calm
  <2>1. UNCHANGED <<doc, torn, syncer, pipe, remote>> /\ Alive /\ kind' = kind
    BY <1>2 DEF Calm
  <2>2. \A d \in Call : pc'[d] \in Syncing => pc'[d] = pc[d] /\ text'[d] = text[d]
    BY <1>2 DEF Calm, Undisturbed
  <2>3. Settled' = Settled
    BY <1>1, <2>1
  <2> QED
    BY <2>1, <2>2, <2>3 DEF TextInv, Syncing
<1>3. ASSUME NEW c \in Call, Sync(c) PROVE TextInv'
  <2>1. Tracked /\ UNCHANGED <<kind, pipe, remote>>
    BY <1>3 DEF Sync, process, wire, Alive
  <2>2. syncer = None /\ Settled' = Settled /\ Settled.text = doc.text
    BY <1>1, <1>3, <2>1 DEF Sync, TextInv
  <2>3. \A d \in Call : pc[d] \notin Syncing
    BY <1>0, <2>2 DEF LockInv
  <2>4. \A d \in Call : d # c => pc'[d] \notin Syncing
    BY <1>3, <2>3, SyncMoves
  <2>5. text' = text /\ pc'[c] \in {"opening", "changing", "synced"}
    BY <1>3, SyncMoves
  <2>6. CASE doc = NoDocument
    <3>1. pc'[c] = "opening" /\ syncer' = c /\ doc'.text = text[c]
      BY <1>3, <2>1, <2>6 DEF Sync, GoTo, CallTypes
    <3> QED
      BY <1>0, <2>4, <2>5, <3>1 DEF TextInv, Syncing
  <2>7. CASE doc # NoDocument /\ doc.text # text[c]
    <3>1. pc'[c] = "changing" /\ doc'.text = doc.text
      BY <1>3, <2>1, <2>7 DEF Sync, GoTo, CallTypes
    <3> QED
      BY <2>2, <2>4, <2>5, <3>1 DEF TextInv, Syncing
  <2>8. CASE doc # NoDocument /\ doc.text = text[c]
    <3>1. pc'[c] = "synced" /\ doc' = doc
      BY <1>3, <2>1, <2>8 DEF Sync, GoTo, CallTypes
    <3> QED
      BY <2>2, <2>4, <2>5, <3>1 DEF TextInv, Syncing
  <2> QED
    BY <2>6, <2>7, <2>8
<1>4. ASSUME NEW c \in Call, Write(c) PROVE TextInv'
  <2>1. /\ Tracked /\ UNCHANGED <<kind, doc, syncer, remote>>
        /\ pipe' = Append(pipe, Message(c)) /\ pc[c] \in DOMAIN Draining
    BY <1>4 DEF Write, process, Alive
  <2>2. Message(c) \in Messages
    BY <2>1, MessageTyped
  <2>3. Settled' = Applied(Settled, Message(c))
    BY <2>1, <2>2, SettledAppend DEF Settled, WireTypes
  <2>4. /\ \A d \in Call : d # c => pc'[d] = pc[d]
        /\ pc[c] \in {"opening", "changing", "ask"} /\ pc'[c] = Draining[pc[c]] /\ text' = text
    BY <1>4, SyncMoves
  <2>5. ASSUME pc[c] \in Syncing PROVE syncer = c /\ \A d \in Call : d # c => pc'[d] \notin Syncing
    BY <2>4, <2>5 DEF LockInv
  <2>6. CASE pc[c] = "opening"
    <3>1. Settled'.text = text[c] /\ pc'[c] = "opened" /\ doc'.text = text[c]
      BY <2>1, <2>3, <2>4, <2>6 DEF Message, DidOpen, Applied, Draining, TextInv
    <3> QED
      BY <1>0, <2>1, <2>4, <2>5, <2>6, <3>1 DEF TextInv, Syncing
  <2>7. CASE pc[c] = "changing"
    <3>1. Message(c).base \in {None, Settled.text} /\ Message(c).kind = "change"
          /\ Message(c).text = text[c]
      BY <2>1, <2>7 DEF Message, DidChange, TextInv
    <3>2. Settled'.text = text[c] /\ pc'[c] = "changed"
      BY <2>3, <2>4, <2>7, <3>1 DEF Applied, Draining
    <3> QED
      BY <1>0, <2>1, <2>4, <2>5, <2>7, <3>2 DEF TextInv, Syncing
  <2>8. CASE pc[c] = "ask"
    <3>1. Settled' = Settled /\ pc'[c] = "asked"
      BY <2>3, <2>4, <2>8 DEF Message, Request, Applied, Draining
    <3> QED
      BY <2>1, <2>4, <3>1 DEF TextInv
  <2> QED
    BY <2>4, <2>6, <2>7, <2>8
\* A call that ends or goes on gives the lock back in step.
<1>5. ASSUME NEW c \in Call, Tracked, UNCHANGED <<kind, pipe, remote>>,
             syncer' = (IF syncer = c THEN None ELSE syncer),
             pc'[c] \notin Syncing, \A d \in Call : d # c => pc'[d] = pc[d] /\ text'[d] = text[d],
             syncer # c => doc' = doc, syncer = c => Settled.text = doc'.text
      PROVE  TextInv'
  <2>1. Settled' = Settled
    BY <1>1, <1>5
  <2>2. CASE syncer = c
    <3>1. \A d \in Call : pc'[d] \notin Syncing
      BY <1>5, <2>2 DEF LockInv
    <3> QED
      BY <1>5, <2>1, <2>2, <3>1 DEF TextInv, Syncing
  <2>3. CASE syncer # c
    BY <1>5, <2>1, <2>3 DEF TextInv, Syncing
  <2> QED
    BY <2>2, <2>3
<1>6. ASSUME NEW c \in Call, WriteFails(c) PROVE TextInv'
  <2>1. Tracked /\ UNCHANGED <<kind, pipe, remote, doc>> /\ ReleaseLocks(c)
        /\ loop = "running" /\ pc[c] \in {"changing"}
    BY <1>6 DEF WriteFails, Alive, process, wire, TooLong
  <2>2. Settled.text = doc.text
    BY <2>1 DEF TextInv
  <2>3. pc'[c] \notin Syncing /\ \A d \in Call : d # c => pc'[d] = pc[d] /\ text'[d] = text[d]
    BY <1>6, SyncMoves DEF Syncing
  <2> QED
    BY <1>5, <2>1, <2>2, <2>3 DEF ReleaseLocks
<1>7. ASSUME NEW c \in Call, Drained(c) PROVE TextInv'
  <2>1. Tracked /\ UNCHANGED <<kind, pipe, remote>> /\ ReleaseLocks(c)
        /\ loop = "running" /\ pc[c] \in {"opened", "changed", "asked"}
        /\ doc' = IF pc[c] = "changed" THEN [doc EXCEPT !.text = text[c]] ELSE doc
    BY <1>7 DEF Drained, process, wire
  <2>2. syncer # c => doc' = doc
    BY <2>1 DEF LockInv, Syncing
  <2>3. syncer = c => pc[c] \in {"opened", "changed"}
    BY <1>0, <2>1 DEF LockInv, Syncing
  <2>4. syncer = c => Settled.text = doc'.text
    BY <2>1, <2>3 DEF TextInv, ClientTypes
  <2>5. pc'[c] \notin Syncing /\ \A d \in Call : d # c => pc'[d] = pc[d] /\ text'[d] = text[d]
    BY <1>7, SyncMoves DEF Syncing
  <2> QED
    BY <1>5, <2>1, <2>2, <2>4, <2>5 DEF ReleaseLocks
<1>8. ASSUME NEW c \in Call, Cancel(c) PROVE TextInv'
  <2>1. Tracked /\ UNCHANGED <<kind, pipe, remote, doc>>
    BY <1>8 DEF Cancel, CancelStart, Alive, wire
  <2>2. pc'[c] \notin Syncing /\ \A d \in Call : d # c => pc'[d] = pc[d] /\ text'[d] = text[d]
    BY <1>8, SyncMoves DEF Syncing
  <2>3. CASE loop = "running"
    <3>1. ReleaseLocks(c) /\ pc[c] \notin {"opening", "changed"}
      BY <1>8, <2>3 DEF Cancel
    <3>2. syncer = c => pc[c] \in {"changing", "opened"}
      BY <1>0, <2>3, <3>1 DEF LockInv, Syncing
    <3>3. syncer = c => Settled.text = doc.text
      BY <2>1, <3>2 DEF TextInv
    <3> QED
      BY <1>5, <2>1, <2>2, <3>1, <3>3 DEF ReleaseLocks
  <2>4. CASE loop # "running"
    <3>1. syncer' = syncer /\ Settled' = Settled
      BY <1>1, <1>8, <2>1, <2>4 DEF Cancel
    <3> QED
      BY <2>1, <2>2, <3>1 DEF TextInv, Syncing
  <2> QED
    BY <2>3, <2>4
<1>9. ASSUME NEW i \in notices, Notify(i) PROVE TextInv'
  <2>1. Tracked /\ UNCHANGED <<kind, doc, syncer, remote, pc, text>>
    BY <1>9 DEF Notify, process, calls, Alive
  <2>2. pipe' = Append(pipe, CancelRequest(i)) /\ CancelRequest(i) \in Messages
    BY <1>9, <2>1 DEF Notify, CancelRequest, Messages, ClientTypes
  <2>3. Settled' = Applied(Settled, CancelRequest(i))
    BY <2>1, <2>2, SettledAppend DEF Settled, WireTypes
  <2>4. Settled' = Settled
    BY <2>3 DEF Applied, CancelRequest
  <2> QED
    BY <2>1, <2>4 DEF TextInv
<1>10. CASE ServerReads
  <2>1. Tracked /\ UNCHANGED <<kind, doc, syncer, pc, text>> /\ pipe # <<>> /\ pipe' = Tail(pipe)
        /\ remote' = Applied(remote, Head(pipe))
    BY <1>10 DEF ServerReads, process, calls, client, Alive
  <2>2. Settled' = Settled
    BY <2>1, SettledTail DEF Settled, WireTypes
  <2> QED
    BY <2>1, <2>2 DEF TextInv
<1>11. ~ServerDies /\ ~ConnectionCloses
  BY DEF ServerDies, ConnectionCloses, Alive
<1>12. CASE StartSucceeds
  <2>1. pipe' = <<>> /\ remote' = NoDocument /\ doc' = NoDocument
        /\ \A d \in Call : pc'[d] \notin Syncing
    BY <1>12 DEF StartSucceeds, StartInv, Unopened, wire, client, Timed, Syncing, NoDocument
  <2>2. Settled' = NoDocument
    <3>1. Settled' = Reading(remote', pipe')[Len(pipe')]
      BY DEF Settled
    <3>2. pipe' \in Seq(Messages) /\ Len(pipe') = 0 /\ 0 \in 0..Len(pipe')
      BY <2>1
    <3>3. Reading(remote', pipe')[0] = remote'
      BY <3>2, ReadingStep
    <3> QED
      BY <2>1, <3>1, <3>2, <3>3
  <2> QED
    BY <2>1, <2>2 DEF TextInv, Syncing
<1> QED
  BY <1>2, <1>3, <1>4, <1>6, <1>7, <1>8, <1>9, <1>10, <1>11, <1>12, CalmStep


-----------------------------------------------------------------------------
(* Requests.  An id names one request for good: what was asked under it,     *)
(* answered or cancelled, is never taken for a request made later.           *)

\* The request of id i is by's, and whoever waits under i is by.
Own(i, by) == i < nextId /\ \A c \in Pending : id[c] = i => by = c

OwnInv ==
  /\ \A a \in answers : Own(a.id, a.by)
  /\ \A k \in DOMAIN pipe : pipe[k].kind = "request" => Own(pipe[k].id, pipe[k].by)
FreshInv ==
  /\ \A i \in notices : i < nextId
  /\ \A c \in Pending : id[c] < nextId /\ id[c] \notin notices
  /\ \A c, d \in Pending : id[c] = id[d] => c = d
ResultInv == \A c \in Call : result[c] \in Call => result[c] = c

Asks(c) == Ask(c) /\ ~fatal
\* No request is made.
NoneAsked == nextId' = nextId /\ \A c \in Call : c \in Pending' => c \in Pending /\ id'[c] = id[c]

LEMMA AskMoves ==
  ASSUME CallTypes, ClientTypes, WireTypes, [Next]_vars
  PROVE  NoneAsked \/ \E c \in Call : Asks(c)
<1>0. nextId' = nextId \/ \E c \in Call : Asks(c)
  BY DEF Next, Goes, Edit, Execute, Refused, Submit, Connect, Sync, SkipSync, Write, Asks,
       WriteFails, Drained, Ask, Abandon, TimeOut, GiveUp, Cancel, Deliver, Notify, Starts,
       StartSucceeds, StartFails, StartEnds, Closes, ShutdownStarts, ShutdownConnections,
       ConnectionCloses, LoopStops, Close, ServerReads, ServerDies, ReaderEnds, Exhausted,
       client, vars
<1> SUFFICES ASSUME nextId' = nextId, \A c \in Call : ~Asks(c), NEW d \in Call, d \in Pending'
             PROVE  d \in Pending /\ id'[d] = id[d]
  BY <1>0 DEF NoneAsked
<1>1. pc'[d] \in Asking
  BY DEF Pending
<1>2. CASE Spared(d)
  BY <1>1, <1>2 DEF Spared, Pending
<1>3. CASE UNCHANGED <<pc, id>>
  BY <1>1, <1>3 DEF Pending
<1>4. ASSUME NEW C, NEW r \in Call \cup {None, "error"}, Finish(C, r)
      PROVE  d \in Pending /\ id'[d] = id[d]
  <2>1. d \notin C
    BY <1>1, <1>4, FinishIs DEF Asking
  <2> QED
    BY <1>2, <1>4, <2>1, FinishIs
<1>5. ASSUME End(d, "error") PROVE FALSE
  BY <1>1, <1>5, EndIs DEF Asking
<1>6. ASSUME NEW c \in Call, Calls(c) PROVE d \in Pending /\ id'[d] = id[d]
  <2>1. CASE d # c
    BY <1>2, <1>6, <2>1, CallMoves DEF Calls
  <2>2. CASE d = c
    <3>1. ASSUME NEW where \in Places, where \notin Asking, GoTo(d, where) PROVE FALSE
      BY <1>1, <3>1, GoToIs
    <3>2. {"reading", "waiting", "sync", "synced", "opening", "changing"} \subseteq Places \ Asking
      BY DEF Places, Timed, Syncing, Asking
    <3> HIDE DEF Places
    <3>3. ~Execute(d) /\ ~Refused(d) /\ ~Connect(d) /\ ~SkipSync(d) /\ ~Abandon(d)
      BY <1>5, <3>1, <3>2 DEF Execute, Refused, Connect, SkipSync, Abandon
    <3>4. ~Sync(d) /\ ~WriteFails(d)
      BY <1>5, <3>1, <3>2 DEF Sync, WriteFails
    <3>5. ~Submit(d)
      BY <1>1, <1>5 DEF Submit, CallTypes, Asking
    <3>6. ~Ask(d)
      BY <1>5 DEF Ask, Asks
    <3>7. ~TimeOut(d) /\ ~GiveUp(d)
      BY <1>5 DEF TimeOut, GiveUp, Cancel
    <3>8. CASE Write(d)
      <4>1. pc[d] \in DOMAIN Draining /\ GoTo(d, Draining[pc[d]])
        BY <3>8 DEF Write
      <4>2. pc'[d] = Draining[pc[d]] /\ id' = id
        BY <4>1 DEF GoTo, CallTypes
      <4> QED
        BY <1>1, <4>1, <4>2 DEF Draining, Asking, Pending
    <3>9. CASE Drained(d)
      <4>1. pc[d] = "asked"
        BY <1>1, <3>1, <3>2, <3>9 DEF Drained
      <4>2. id' = id
        BY <3>9 DEF Drained, GoTo
      <4> QED
        BY <4>1, <4>2 DEF Pending, Asking
    <3> QED
      BY <1>6, <2>2, <3>3, <3>4, <3>5, <3>6, <3>7, <3>8, <3>9 DEF Calls, Goes
  <2> QED
    BY <2>1, <2>2
<1>7. CASE StartSucceeds
  <2>1. pc'[d] \in {"sync", pc[d]} /\ id' = id
    BY <1>7 DEF StartSucceeds
  <2> QED
    BY <1>1, <2>1 DEF Asking, Pending
<1>8. CASE StartEnds
  BY <1>4, <1>8 DEF StartEnds
<1>9. ASSUME NEW a \in answers, Deliver(a) PROVE d \in Pending /\ id'[d] = id[d]
  <2>1. a.by \in Call
    BY <1>9 DEF WireTypes
  <2> QED
    BY <1>4, <1>9, <2>1 DEF Deliver
<1> QED
  BY <1>3, <1>6, <1>7, <1>8, <1>9
     DEF Next, Calls, Starts, Closes, Edit, StartFails, ShutdownStarts,
         ShutdownConnections, ConnectionCloses, LoopStops, Close, Notify, ServerReads,
         ServerDies, ReaderEnds, Exhausted, calls, vars

\* What a request leaves: its own call is new under a new id.
LEMMA AskIs ==
  ASSUME CallTypes, ClientTypes, NEW c \in Call, Asks(c)
  PROVE  /\ nextId' = nextId + 1 /\ id'[c] = nextId /\ notices' = notices
         /\ \A d \in Call : d # c => (d \in Pending' <=> d \in Pending) /\ id'[d] = id[d]
<1>1. pc' = [pc EXCEPT ![c] = "ask"] /\ id' = [id EXCEPT ![c] = nextId] /\ nextId' = nextId + 1
      /\ notices' = notices
  BY DEF Asks, Ask, FreshId
<1>2. id'[c] = nextId /\ \A d \in Call : d # c => pc'[d] = pc[d] /\ id'[d] = id[d]
  BY <1>1 DEF CallTypes
<1> QED
  BY <1>1, <1>2 DEF Pending

LEMMA OwnKept ==
  ASSUME CallTypes, ClientTypes, WireTypes, NEW i \in Nat, NEW by, Own(i, by), [Next]_vars
  PROVE  i < nextId' /\ \A c \in Pending' : id'[c] = i => by = c
<1>1. CASE NoneAsked
  BY <1>1 DEF NoneAsked, Own, Pending
<1>2. ASSUME NEW c \in Call, Asks(c)
      PROVE  i < nextId' /\ \A d \in Pending' : id'[d] = i => by = d
  <2>1. i < nextId /\ nextId \in Nat /\ nextId' = nextId + 1 /\ id'[c] = nextId
    BY <1>2, AskIs DEF Own, ClientTypes
  <2>2. \A d \in Pending' : d \in Call /\ (d # c => d \in Pending /\ id'[d] = id[d])
    BY <1>2, AskIs DEF Pending
  <2> QED
    BY <2>1, <2>2 DEF Own
<1> QED
  BY <1>1, <1>2, AskMoves


\* A message in the pipe was there, or is what a call writes, or a cancellation.
LEMMA PipeMoves ==
  ASSUME CallTypes, ClientTypes, WireTypes, [Next]_vars, NEW k \in DOMAIN pipe',
         pipe'[k].kind = "request"
  PROVE  \/ \E j \in DOMAIN pipe : pipe'[k] = pipe[j]
         \/ \E c \in Call : pc[c] = "ask" /\ pipe'[k] = Request(id[c], c)
<1>1. CASE pipe' = pipe
  BY <1>1
<1>2. ASSUME NEW c \in Call, Write(c)
      PROVE  \/ \E j \in DOMAIN pipe : pipe'[k] = pipe[j]
             \/ pc[c] = "ask" /\ pipe'[k] = Request(id[c], c)
  <2>1. pipe' = Append(pipe, Message(c)) /\ pc[c] \in DOMAIN Draining
    BY <1>2 DEF Write
  <2>2. Message(c) \in Messages
    BY <2>1, MessageTyped
  <2>3. (\E j \in DOMAIN pipe : pipe'[k] = pipe[j]) \/ pipe'[k] = Message(c)
    BY <2>1, <2>2 DEF WireTypes
  <2>4. Message(c).kind = "request" => pc[c] = "ask" /\ Message(c) = Request(id[c], c)
    BY <2>1 DEF Message, DidOpen, DidChange, Draining
  <2> QED
    BY <2>3, <2>4
<1>3. ASSUME NEW i \in notices, Notify(i) PROVE \E j \in DOMAIN pipe : pipe'[k] = pipe[j]
  <2>1. CancelRequest(i) \in Messages /\ CancelRequest(i).kind # "request"
    BY <1>3 DEF CancelRequest, Messages, ClientTypes
  <2>2. pipe' = pipe \/ pipe' = Append(pipe, CancelRequest(i))
    BY <1>3 DEF Notify
  <2>3. (\E j \in DOMAIN pipe : pipe'[k] = pipe[j]) \/ pipe'[k] = CancelRequest(i)
    BY <2>1, <2>2 DEF WireTypes
  <2> QED
    BY <2>1, <2>3
<1>4. CASE ServerReads
  <2>1. pipe # <<>> /\ pipe' = Tail(pipe)
    BY <1>4 DEF ServerReads
  <2>2. k + 1 \in DOMAIN pipe /\ pipe'[k] = pipe[k + 1]
    BY <2>1 DEF WireTypes
  <2> QED
    BY <2>2
<1>5. ~(pipe' = <<>>)
  OBVIOUS
<1> QED
  BY <1>1, <1>2, <1>3, <1>4, <1>5
     DEF Next, Goes, Edit, Execute, Refused, Submit, Connect, Sync, SkipSync, WriteFails,
         Drained, Ask, Abandon, TimeOut, GiveUp, Cancel, Deliver, Starts, StartSucceeds, StartFails,
         StartEnds, Closes, ShutdownStarts, ShutdownConnections, ConnectionCloses, LoopStops,
         Close, ServerDies, ReaderEnds, Exhausted, wire, vars

LEMMA OwnStep ==
  ASSUME CallTypes, ClientTypes, WireTypes, OwnInv, FreshInv, [Next]_vars
  PROVE  OwnInv'
<1>1. \A k \in DOMAIN pipe : pipe[k].kind = "request" =>
        pipe[k].id \in Nat /\ Own(pipe[k].id, pipe[k].by)
  <2> SUFFICES ASSUME NEW k \in DOMAIN pipe, pipe[k].kind = "request" PROVE pipe[k].id \in Nat
    BY DEF OwnInv
  <2>1. pipe[k] \in Messages
    BY DEF WireTypes
  <2> QED
    BY <2>1 DEF Messages
<1>2. ASSUME NEW a \in answers' PROVE a.id \in Nat /\ Own(a.id, a.by)
  <2>1. CASE a \in answers
    BY <2>1 DEF OwnInv, WireTypes
  <2>2. CASE ServerReads /\ a \notin answers
    <3>1. pipe # <<>> /\ Head(pipe).kind = "request"
          /\ a = [id |-> Head(pipe).id, by |-> Head(pipe).by]
      BY <1>2, <2>2 DEF ServerReads
    <3>2. 1 \in DOMAIN pipe /\ Head(pipe) = pipe[1]
      BY <3>1 DEF WireTypes
    <3> QED
      BY <1>1, <3>1, <3>2
  <2>3. answers' \subseteq answers \/ ServerReads
    BY DEF Next, Goes, Edit, Execute, Refused, Submit, Connect, Sync, SkipSync, Write, WriteFails,
         Drained, Ask, Abandon, TimeOut, GiveUp, Cancel, Deliver, Notify, Starts, StartSucceeds,
         StartFails, StartEnds, Closes, ShutdownStarts, ShutdownConnections, ConnectionCloses,
         LoopStops, Close, ServerDies, ReaderEnds, Exhausted, wire, vars
  <2> QED
    BY <2>1, <2>2, <2>3
<1>3. ASSUME NEW k \in DOMAIN pipe', pipe'[k].kind = "request"
      PROVE  pipe'[k].id \in Nat /\ Own(pipe'[k].id, pipe'[k].by)
  <2>1. ASSUME NEW c \in Call, pc[c] = "ask", pipe'[k] = Request(id[c], c)
        PROVE  pipe'[k].id \in Nat /\ Own(pipe'[k].id, pipe'[k].by)
    <3>1. c \in Pending /\ id[c] \in Nat
      BY <2>1 DEF Pending, Asking, CallTypes
    <3>2. Own(id[c], c)
      BY <3>1 DEF Own, FreshInv
    <3> QED
      BY <2>1, <3>1, <3>2 DEF Request
  <2> QED
    BY <1>1, <1>3, <2>1, PipeMoves
<1>4. ASSUME NEW a \in answers' PROVE Own(a.id, a.by)'
  BY <1>2, <1>4, OwnKept DEF Own
<1>5. ASSUME NEW k \in DOMAIN pipe', pipe'[k].kind = "request"
      PROVE  Own(pipe[k].id, pipe[k].by)'
  BY <1>3, <1>5, OwnKept DEF Own
<1> QED
  BY <1>4, <1>5 DEF OwnInv

LEMMA FreshStep ==
  ASSUME CallTypes, ClientTypes, WireTypes, FreshInv, [Next]_vars
  PROVE  FreshInv'
<1>0. nextId \in Nat /\ notices \subseteq Nat
  BY DEF ClientTypes
<1>1. ASSUME NEW c \in Call, Asks(c) PROVE FreshInv'
  <2>1. nextId' = nextId + 1 /\ id'[c] = nextId /\ notices' = notices
    BY <1>1, AskIs
  <2>2. \A d \in Pending' : d = c \/ (d \in Pending /\ id'[d] = id[d])
    BY <1>1, AskIs DEF Pending
  <2>3. \A d \in Pending : id[d] \in Nat
    BY DEF Pending, CallTypes
  <2> QED
    BY <1>0, <2>1, <2>2, <2>3 DEF FreshInv
<1>2. ASSUME NoneAsked, notices' \subseteq notices PROVE FreshInv'
  BY <1>2 DEF NoneAsked, FreshInv, Pending
<1>3. ASSUME NoneAsked, NEW c \in Call, Cancel(c) PROVE FreshInv'
  <2>1. CASE notices' = notices
    BY <1>2, <1>3, <2>1
  <2>2. CASE c \in Pending /\ notices' = notices \cup {id[c]}
    <3>1. c \notin Pending'
      BY <1>3, EndIs DEF Cancel, Pending, Asking
    <3>2. \A d \in Pending' : d \in Pending /\ d # c /\ id'[d] = id[d]
      BY <1>3, <3>1 DEF NoneAsked, Pending
    <3>3. nextId' = nextId
      BY <1>3 DEF NoneAsked
    <3> QED
      BY <2>2, <3>2, <3>3 DEF FreshInv
  <2> QED
    BY <1>3, <2>1, <2>2 DEF Cancel, Pending
<1>4. (\E c \in Call : Cancel(c)) \/ notices' \subseteq notices
  BY DEF Next, Goes, Edit, Execute, Refused, Submit, Connect, Sync, SkipSync, Write, WriteFails,
       Drained, Ask, Abandon, TimeOut, GiveUp, Deliver, Notify, Starts, StartSucceeds,
       StartFails, StartEnds, Closes, ShutdownStarts, ShutdownConnections, ConnectionCloses,
       LoopStops, Close, ServerReads, ServerDies, ReaderEnds, Exhausted, client, vars
<1> QED
  BY <1>1, <1>2, <1>3, <1>4, AskMoves

LEMMA ResultStep ==
  ASSUME LspAssumption, CallTypes, ClientTypes, WireTypes, OwnInv, ResultInv, [Next]_vars
  PROVE  ResultInv'
<1>0. "error" \notin Call
  BY DEF LspAssumption
<1>1. CASE UNCHANGED result
  BY <1>1 DEF ResultInv
<1>2. ASSUME NEW c \in Call, Calls(c) PROVE ResultInv'
  <2>1. /\ \A d \in Call : d # c => result'[d] = result[d]
        /\ result'[c] \in {result[c], "error"}
    BY <1>2, CallMoves DEF Calls, Spared
  <2> QED
    BY <1>0, <2>1 DEF ResultInv
<1>3. CASE StartEnds
  <2>1. \A d \in Call : result'[d] \in {result[d], "error"}
    BY <1>3 DEF StartEnds, Finish
  <2> QED
    BY <1>0, <2>1 DEF ResultInv
<1>4. ASSUME NEW a \in answers, Deliver(a) PROVE ResultInv'
  <2>1. Own(a.id, a.by)
    BY DEF OwnInv
  <2>2. \A d \in Call : result'[d] = result[d] \/ (d \in Pending /\ id[d] = a.id /\ result'[d] = a.by)
    BY <1>4 DEF Deliver, Finish
  <2> QED
    BY <2>1, <2>2 DEF ResultInv, Own
<1> QED
  BY <1>1, <1>2, <1>3, <1>4
     DEF Next, Calls, Starts, StartSucceeds, Closes, Edit, StartFails, ShutdownStarts,
         ShutdownConnections, ConnectionCloses, LoopStops, Close, Notify, ServerReads,
         ServerDies, ReaderEnds, Exhausted, calls, vars


-----------------------------------------------------------------------------
(* The inductive invariant and what follows from it.                         *)

Typed == CallTypes /\ ServerTypes /\ ClientTypes /\ WireTypes /\ LoopTypes /\ FlagTypes
IInv ==
  /\ Typed /\ StartInv /\ ProcsInv
  /\ LockInv /\ VersionInv /\ TextInv
  /\ OwnInv /\ FreshInv /\ ResultInv

LEMMA InitIInv == ASSUME LspAssumption, Init PROVE IInv
<1>0. None \notin Call /\ None \notin Texts
  BY DEF LspAssumption
<1>1. Unopened /\ ~Alive /\ ~Known /\ \A c \in Call : pc[c] = "idle"
  BY DEF Init, Unopened, Alive, Known, NoDocument
<1>2. CallTypes
  <2>1. "idle" \in Places
    BY DEF Places
  <2> HIDE DEF Places
  <2> QED
    BY <2>1 DEF Init, CallTypes
<1>3. ServerTypes /\ LoopTypes /\ FlagTypes
  BY DEF Init, ServerTypes, LoopTypes, FlagTypes, NoSync, Synchronisations
<1>4. ClientTypes
  BY DEF Init, ClientTypes, NoDocument
<1>5. WireTypes
  <2>1. pipe \in Seq(Messages)
    BY DEF Init
  <2>2. remote \in [version : Nat, text : Texts \cup {None, Mixed}] /\ answers = {}
    BY DEF Init, NoDocument
  <2> QED
    BY <2>1, <2>2 DEF WireTypes
<1>6. StartInv
  BY <1>1 DEF Init, StartInv, Timed, Syncing, Asking
<1>7. ProcsInv
  BY <1>1 DEF Init, ProcsInv
<1>8. LockInv
  BY <1>1 DEF Init, LockInv, Syncing
<1>9. VersionInv /\ TextInv
  BY <1>1 DEF VersionInv, TextInv
<1>10. Pending = {} /\ DOMAIN pipe = {} /\ answers = {} /\ notices = {}
  <2>1. Pending = {}
    BY <1>1 DEF Pending, Asking
  <2>2. pipe = <<>> /\ answers = {} /\ notices = {}
    BY DEF Init
  <2> QED
    BY <2>1, <2>2
<1>11. OwnInv /\ FreshInv
  BY <1>10 DEF OwnInv, FreshInv
<1>12. ResultInv
  BY <1>0 DEF Init, ResultInv
<1> QED
  BY <1>2, <1>3, <1>4, <1>5, <1>6, <1>7, <1>8, <1>9, <1>11, <1>12 DEF IInv, Typed

LEMMA NextIInv == ASSUME LspAssumption, IInv, [Next]_vars PROVE IInv'
<1> USE DEF IInv, Typed
<1>1. CallTypes' /\ ClientTypes' /\ WireTypes'
  BY CallStep, ClientStep, WireStep
<1>2. ServerTypes' /\ LoopTypes' /\ FlagTypes'
  BY ServerStep, LoopStep, FlagStep
<1>3. StartInv' /\ ProcsInv'
  BY StartStep, ProcsStep
<1>4. LockInv' /\ VersionInv' /\ TextInv'
  BY LockStep, VersionStep, TextStep
<1>5. OwnInv' /\ FreshInv' /\ ResultInv'
  BY OwnStep, FreshStep, ResultStep
<1> QED
  BY <1>1, <1>2, <1>3, <1>4, <1>5

LEMMA AlwaysIInv == Spec => []IInv
<1>1. Init => IInv
  BY LspAssumption, InitIInv
<1>2. IInv /\ [Next]_vars => IInv'
  BY LspAssumption, NextIInv
<1> QED
  BY <1>1, <1>2, PTL DEF Spec

\* Every variable keeps its type, with any number of calls, texts and faults.
THEOREM LspTypeCorrect == Spec => []TypeOK
<1>1. IInv => TypeOK
  BY DEF IInv, Typed, CallTypes, ServerTypes, ClientTypes, WireTypes, LoopTypes, FlagTypes,
         ProcsInv, Places, TypeOK
<1> QED
  BY <1>1, AlwaysIInv, PTL

\* What _connections or _starting knows of has a process, whatever else a
\* server that ignores SIGTERM has left behind.
KnownIsAlive == Known => procs >= 1

THEOREM KnownServersRun == Spec => []KnownIsAlive
<1>1. IInv => KnownIsAlive
  BY DEF IInv, ProcsInv, KnownIsAlive
<1> QED
  BY <1>1, AlwaysIInv, PTL

\* Where servers end on SIGTERM, the calls of all threads share one process and
\* no other is alive, however starts fail, are cancelled and are tried again.
THEOREM ServersAreShared ==
  ASSUME ~Stubborn
  PROVE  Spec => []OneServer
<1>1. IInv => OneServer
  BY DEF IInv, ProcsInv, Known, OneServer
<1> QED
  BY <1>1, AlwaysIInv, PTL

\* The server reads rising versions; unless a sync was cut off between the
\* record and the message, it will have the text the client has on record.
THEOREM DocumentsKeepStep == Spec => []InStep
<1>1. IInv => InStep
  <2> SUFFICES ASSUME IInv, Alive PROVE InStep
    BY DEF InStep
  <2>1. \A i, j \in DOMAIN pipe :
          i < j /\ {pipe[i].kind, pipe[j].kind} \subseteq {"open", "change"}
            => pipe[i].version < pipe[j].version
    BY DEF IInv, VersionInv, Versioned
  <2>2. Tracks /\ ~torn /\ syncer = None => Settled.text = doc.text
    BY DEF IInv, TextInv
  <2> QED
    BY <2>1, <2>2 DEF InStep
<1> QED
  BY <1>1, AlwaysIInv, PTL

\* A call that returns an answer returns its own, whatever was cancelled and
\* answered late, and nobody who waits is cancelled in place of another.
THEOREM AnswersAreOwn == Spec => []AnswerIsOwn
<1>1. IInv => AnswerIsOwn
  BY DEF IInv, ResultInv, FreshInv, AnswerIsOwn
<1> QED
  BY <1>1, AlwaysIInv, PTL
=============================================================================
