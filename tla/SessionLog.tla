----------------------------- MODULE SessionLog -----------------------------
(***************************************************************************)
(* The format of a session log (memory/session.py): what a line is, what a *)
(* write leaves in the file, when a file is valid, the model context that   *)
(* replaying it yields, the repair it needs, and the places at which the    *)
(* context may be compacted (core/context.py).                              *)
(*                                                                          *)
(* Contents are abstracted: a message is its type and, for a tool call and  *)
(* its result, the call's id.                                               *)
(***************************************************************************)
EXTENDS Naturals, Sequences, SequencesExt

CONSTANTS
  MaxCalls,  \* bound of the model: tool calls in all
  MaxLines   \* bound of the model: lines of the logs beyond which the user says no more

ASSUME BoundsAssumption == MaxCalls \in Nat /\ MaxLines \in Nat

Calls == 1..MaxCalls  \* call ids, in the order the provider issues them

User == [type |-> "user", id |-> 0]            \* a user message, visible or not
Assistant == [type |-> "assistant", id |-> 0]  \* a reply, completed or cut short
CallOf(c) == [type |-> "call", id |-> c]
ResultOf(c) == [type |-> "result", id |-> c]   \* real, interrupted or synthetic
Message == {User, Assistant} \union {CallOf(c) : c \in Calls}
                             \union {ResultOf(c) : c \in Calls}

Checkpoint(n) == [type |-> "compaction", cutoff |-> n]
Partial == [type |-> "partial"]  \* a last line without its newline
Garbled == [type |-> "garbled"]  \* a line that is not one JSON record
Line == Message \union {Partial, Garbled} \union [type: {"compaction"}, cutoff: Nat]

EndsPartial(lines) == lines # <<>> /\ Last(lines) = Partial

\* What the file holds after an append of l that wrote all of it, a part of it
\* or nothing. The file is opened with O_APPEND: what is written joins the
\* partial line that an earlier append may have left.
Written(lines, l, extent) ==
  CASE extent = "none" -> lines
    [] extent = "torn" -> IF EndsPartial(lines) THEN lines ELSE Append(lines, Partial)
    [] extent = "whole" -> IF EndsPartial(lines) THEN Front(lines) \o <<Garbled>>
                           ELSE Append(lines, l)

\* _replay(): each message is added; a checkpoint deletes the messages it stands for.
After(messages, l) ==
  IF l.type = "compaction" THEN SubSeq(messages, l.cutoff + 1, Len(messages))
  ELSE Append(messages, l)

\* The context after each of the lines.
Replayed(lines) ==
  LET context[n \in 0..Len(lines)] ==
        IF n = 0 THEN <<>> ELSE After(context[n - 1], lines[n])
  IN  context
Replay(lines) == Replayed(lines)[Len(lines)]

\* _read(): every line is a record, and no checkpoint drops more messages than
\* there are.
Valid(lines) ==
  \A i \in DOMAIN lines :
    /\ lines[i] \notin {Partial, Garbled}
    /\ lines[i].type = "compaction" => lines[i].cutoff <= Len(Replayed(lines)[i - 1])

Has(messages, m) == \E i \in DOMAIN messages : messages[i] = m

\* Where a context has a call without a result.
Pending(context) ==
  {i \in DOMAIN context :
     context[i].type = "call" /\ ~Has(context, ResultOf(context[i].id))}

IdsOf(messages, type) ==
  {messages[i].id : i \in {i \in DOMAIN messages : messages[i].type = type}}

MutCutoffs(context) ==
  {i - 1 : i \in {i \in 2..Len(context) : context[i].type = "user"}}

\* How many messages a compaction may summarise: it ends where a user message
\* follows a part of the context whose calls and results match. Which of these
\* is taken depends on sizes, which are abstracted.
Cutoffs(context) ==
  {i - 1 : i \in {i \in 2..Len(context) :
     /\ context[i].type = "user"
     /\ LET before == SubSeq(context, 1, i - 1)
        IN  IdsOf(before, "call") = IdsOf(before, "result")}}
=============================================================================
