---------------------------- MODULE DurableChat -----------------------------
(***************************************************************************)
(* What a user may rely on, and SessionLog and AgentTurn implement: chats   *)
(* that outlive the process. A message is added to the open chat and to the *)
(* model's view of it at once; a summary takes a settled prefix off both;   *)
(* opening a chat shows all of it; a process that ends loses nothing, or,   *)
(* if it ends amid an append, that one chat.                                *)
(***************************************************************************)
EXTENDS Naturals, Sequences

CONSTANTS
  Session, None,
  Message,     \* what a chat consists of
  Settled(_)   \* the lengths of the prefixes of a chat that may be summarised

VARIABLES
  chats,  \* the messages of each chat
  known,  \* the chats that can be opened
  open,   \* the chat the process is in
  view    \* what the model sees

chatVars == <<chats, known, open, view>>

ChatInit ==
  /\ chats = [s \in Session |-> <<>>] /\ known = {}
  /\ open = None /\ view = <<>>

Add(m) ==
  /\ open # None
  /\ chats' = [chats EXCEPT ![open] = Append(@, m)]
  /\ view' = Append(view, m)
  /\ UNCHANGED <<known, open>>

Summarise ==
  /\ open # None
  /\ \E n \in Settled(view) :
       /\ chats' = [chats EXCEPT ![open] = SubSeq(@, n + 1, Len(@))]
       /\ view' = SubSeq(view, n + 1, Len(view))
  /\ UNCHANGED <<known, open>>

Without(gone) == [s \in Session |-> IF s \in gone THEN <<>> ELSE chats[s]]

\* Delete some chats and open another one, or create one.
Open(gone, s) ==
  /\ gone \subseteq known /\ s \notin gone
  /\ chats' = Without(gone) /\ known' = (known \ gone) \union {s}
  /\ open' = s /\ view' = chats'[s]

\* Delete a chat without a replacement.
Delete(s) ==
  /\ s \in known /\ chats' = Without({s}) /\ known' = known \ {s}
  /\ IF s = open THEN open' = None /\ view' = <<>> ELSE UNCHANGED <<open, view>>

\* The process ends; if that spoils the chat it was writing, only that one.
Exit(gone) ==
  /\ gone \subseteq {open}
  /\ chats' = Without(gone) /\ known' = known \ gone
  /\ open' = None /\ view' = <<>>

ChatNext ==
  \/ \E m \in Message : Add(m)
  \/ Summarise
  \/ \E gone \in SUBSET known, s \in Session : Open(gone, s)
  \/ \E s \in Session : Delete(s)
  \/ \E gone \in SUBSET {open} : Exit(gone)

ChatSpec == ChatInit /\ [][ChatNext]_chatVars
=============================================================================
