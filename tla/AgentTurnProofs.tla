-------------------------- MODULE AgentTurnProofs --------------------------
(***************************************************************************)
(* What is proved about SessionLog and AgentTurn, for every value of their *)
(* constants.                                                              *)
(***************************************************************************)
EXTENDS AgentTurn, SequenceTheorems, WellFoundedInduction, TLAPS

-----------------------------------------------------------------------------
(* Induction over the numbers, in terms of sets                             *)

Less == OpToRel(<, Nat)

LEMMA LessIs == \A i, j \in Nat : i < j => <<i, j>> \in Less
<1>1. Less = {p \in Nat \X Nat : p[1] < p[2]}
  BY DEF Less, OpToRel
<1> QED BY <1>1

LEMMA LeastElement ==
  ASSUME NEW T, T \subseteq Nat, T # {}
  PROVE  \E x \in T : \A y \in T : ~(y < x)
<1>1. IsWellFoundedOn(Less, Nat)
  BY NatLessThanWellFounded, Zenon DEF Less
<1>2. \E x \in T : \A y \in T : ~(<<y, x>> \in Less)
  BY <1>1, WFMin, Zenon
<1> QED BY <1>2, LessIs

\* A set that has 0 and, with each number, the next one, has them all.
LEMMA SetInduction ==
  ASSUME NEW S, 0 \in S, \A n \in Nat : n \in S => n + 1 \in S
  PROVE  \A n \in Nat : n \in S
<1> SUFFICES ASSUME {n \in Nat : n \notin S} # {} PROVE FALSE
  OBVIOUS
<1> PICK x \in {n \in Nat : n \notin S} : \A y \in {n \in Nat : n \notin S} : ~(y < x)
  BY LeastElement, Zenon
<1>1. x # 0
  OBVIOUS
<1>2. x - 1 \in Nat /\ x = (x - 1) + 1
  BY <1>1
<1>3. x - 1 \in S
  BY <1>2
<1> QED BY <1>2, <1>3

-----------------------------------------------------------------------------
(* The context that a log yields                                            *)

\* h is what Replayed defines.
Replays(h, lines) ==
  h = [n \in 0..Len(lines) |-> IF n = 0 THEN <<>> ELSE After(h[n - 1], lines[n])]

\* Replayed is defined: there is such a function for every log.
LEMMA ReplayedIs ==
  ASSUME NEW S, NEW lines \in Seq(S)
  PROVE  Replays(Replayed(lines), lines)
<1> DEFINE Upto(h, m) ==
      h = [n \in 0..m |-> IF n = 0 THEN <<>> ELSE After(h[n - 1], lines[n])]
<1> DEFINE T == {m \in Nat : \E h : Upto(h, m)}
<1>1. 0 \in T
  <2>1. Upto([n \in 0..0 |-> <<>>], 0)
    OBVIOUS
  <2> QED BY <2>1, Zenon
<1>2. \A m \in Nat : m \in T => m + 1 \in T
  <2> SUFFICES ASSUME NEW m \in Nat, NEW h, Upto(h, m) PROVE m + 1 \in T
    BY Zenon
  <2> DEFINE g == [n \in 0..(m + 1) |-> IF n <= m THEN h[n] ELSE After(h[m], lines[m + 1])]
  <2>1. \A n \in 0..(m + 1) :
          g[n] = IF n = 0 THEN <<>> ELSE After(g[n - 1], lines[n])
    <3> SUFFICES ASSUME NEW n \in 0..(m + 1)
                 PROVE g[n] = IF n = 0 THEN <<>> ELSE After(g[n - 1], lines[n])
      OBVIOUS
    <3>1. CASE n = m + 1
      BY <3>1
    <3>2. CASE n \in 0..m
      BY <3>2
    <3> QED BY <3>1, <3>2
  <2>2. g = [n \in 0..(m + 1) |-> g[n]]
    OBVIOUS
  <2> HIDE DEF g
  <2> DEFINE e == [n \in 0..(m + 1) |-> IF n = 0 THEN <<>> ELSE After(g[n - 1], lines[n])]
  <2>3. e = [n \in 0..(m + 1) |-> e[n]] /\ \A n \in 0..(m + 1) : e[n] = g[n]
    BY <2>1
  <2>4. g = e
    <3> HIDE DEF e
    <3> QED BY <2>2, <2>3
  <2>5. Upto(g, m + 1)
    BY <2>4, Zenon
  <2>6. m + 1 \in Nat
    OBVIOUS
  <2> QED BY <2>5, <2>6, Zenon
<1>3. Len(lines) \in T
  <2> HIDE DEF T
  <2> QED BY <1>1, <1>2, SetInduction
<1>4. \E h : Replays(h, lines)
  BY <1>3 DEF Replays
<1> QED BY <1>4, Zenon DEF Replayed, Replays

LEMMA ReplayedStep ==
  ASSUME NEW S, NEW lines \in Seq(S), NEW n \in 0..Len(lines)
  PROVE  Replayed(lines)[n] =
           IF n = 0 THEN <<>> ELSE After(Replayed(lines)[n - 1], lines[n])
<1> DEFINE h == Replayed(lines)
<1>1. h = [k \in 0..Len(lines) |-> IF k = 0 THEN <<>> ELSE After(h[k - 1], lines[k])]
  BY ReplayedIs, Zenon DEF Replays
<1> HIDE DEF h
<1>2. h[n] = IF n = 0 THEN <<>> ELSE After(h[n - 1], lines[n])
  BY <1>1
<1> QED BY <1>2 DEF h

LEMMA ReplayEmpty == Replay(<<>>) = <<>> /\ Valid(<<>>)
<1> DEFINE none == <<>>
<1>1. none \in Seq({}) /\ 0 \in 0..Len(none) /\ Len(none) = 0 /\ DOMAIN none = {}
  OBVIOUS
<1>2. Replayed(none)[0] = <<>>
  <2> HIDE DEF none
  <2> QED BY <1>1, ReplayedStep
<1>3. Replay(none) = <<>> /\ Valid(none)
  <2> HIDE DEF none
  <2> QED BY <1>1, <1>2 DEF Replay, Valid
<1> QED BY <1>3

\* What is appended to a log does not change what its first lines yield.
LEMMA ReplayedPrefix ==
  ASSUME NEW S, NEW lines \in Seq(S), NEW l \in S, NEW k \in 0..Len(lines)
  PROVE  Replayed(Append(lines, l))[k] = Replayed(lines)[k]
<1> DEFINE longer == Append(lines, l)
           T == {n \in Nat : n \in 0..Len(lines) => Replayed(longer)[n] = Replayed(lines)[n]}
<1>1. longer \in Seq(S) /\ Len(longer) = Len(lines) + 1
  OBVIOUS
<1>2. \A n \in 0..Len(lines) :
        Replayed(lines)[n] = IF n = 0 THEN <<>> ELSE After(Replayed(lines)[n - 1], lines[n])
  BY ReplayedStep
<1>3. \A n \in 0..Len(lines) :
        Replayed(longer)[n] = IF n = 0 THEN <<>> ELSE After(Replayed(longer)[n - 1], longer[n])
  <2>1. \A n \in 0..Len(longer) :
          Replayed(longer)[n] = IF n = 0 THEN <<>> ELSE After(Replayed(longer)[n - 1], longer[n])
    <3> HIDE DEF longer
    <3> QED BY <1>1, ReplayedStep
  <2> QED BY <1>1, <2>1
<1>4. \A n \in 1..Len(lines) : longer[n] = lines[n]
  OBVIOUS
<1> HIDE DEF longer
<1>5. 0 \in T
  BY <1>2, <1>3
<1>6. \A n \in Nat : n \in T => n + 1 \in T
  <2> SUFFICES ASSUME NEW n \in Nat, n \in T, n + 1 \in 0..Len(lines)
               PROVE Replayed(longer)[n + 1] = Replayed(lines)[n + 1]
    OBVIOUS
  <2>1. Replayed(longer)[n] = Replayed(lines)[n]
    OBVIOUS
  <2>2. n + 1 \in 1..Len(lines) /\ (n + 1) - 1 = n /\ n + 1 # 0
    OBVIOUS
  <2>3. Replayed(longer)[n + 1] = After(Replayed(longer)[n], longer[n + 1])
    BY <1>3, <2>2
  <2>4. Replayed(lines)[n + 1] = After(Replayed(lines)[n], lines[n + 1])
    BY <1>2, <2>2
  <2> QED BY <1>4, <2>1, <2>2, <2>3, <2>4
<1>7. k \in T
  <2> HIDE DEF T
  <2> QED BY <1>5, <1>6, SetInduction
<1> QED BY <1>7 DEF longer

LEMMA ReplayAppend ==
  ASSUME NEW S, NEW lines \in Seq(S), NEW l \in S
  PROVE  Replay(Append(lines, l)) = After(Replay(lines), l)
<1> DEFINE longer == Append(lines, l)
<1>1. /\ longer \in Seq(S) /\ Len(longer) = Len(lines) + 1
      /\ longer[Len(lines) + 1] = l /\ Len(lines) \in Nat
  OBVIOUS
<1>2. Replayed(longer)[Len(lines)] = Replayed(lines)[Len(lines)]
  BY ReplayedPrefix
<1> HIDE DEF longer
<1>3. Len(lines) + 1 \in 0..Len(longer)
  BY <1>1
<1>4. Replayed(longer)[Len(lines) + 1] = After(Replayed(longer)[Len(lines)], l)
  BY <1>1, <1>3, ReplayedStep
<1> QED BY <1>1, <1>2, <1>4 DEF Replay, longer

\* A line is acceptable after a log if it is a record and drops no more messages
\* than there are.
LEMMA ValidAppend ==
  ASSUME NEW S, NEW lines \in Seq(S), NEW l \in S
  PROVE  Valid(Append(lines, l)) <=>
           /\ Valid(lines) /\ l \notin {Partial, Garbled}
           /\ l.type = "compaction" => l.cutoff <= Len(Replay(lines))
<1> DEFINE longer == Append(lines, l)
           Fits(m, i) == /\ m[i] \notin {Partial, Garbled}
                         /\ m[i].type = "compaction" =>
                              m[i].cutoff <= Len(Replayed(m)[i - 1])
<1>1. \A i \in 1..Len(lines) : Fits(longer, i) <=> Fits(lines, i)
  <2> SUFFICES ASSUME NEW i \in 1..Len(lines)
               PROVE Fits(longer, i) <=> Fits(lines, i)
    OBVIOUS
  <2>1. longer[i] = lines[i] /\ i - 1 \in 0..Len(lines)
    OBVIOUS
  <2>2. Replayed(longer)[i - 1] = Replayed(lines)[i - 1]
    BY <2>1, ReplayedPrefix
  <2> HIDE DEF longer
  <2> QED BY <2>1, <2>2
<1>2. /\ longer[Len(lines) + 1] = l
      /\ Replayed(longer)[(Len(lines) + 1) - 1] = Replay(lines)
  <2>1. longer[Len(lines) + 1] = l
    OBVIOUS
  <2>2. (Len(lines) + 1) - 1 = Len(lines) /\ Len(lines) \in 0..Len(lines)
    OBVIOUS
  <2>3. Replayed(longer)[Len(lines)] = Replayed(lines)[Len(lines)]
    BY <2>2, ReplayedPrefix
  <2> QED BY <2>1, <2>2, <2>3 DEF Replay
<1>3. Fits(longer, Len(lines) + 1) <=>
        /\ l \notin {Partial, Garbled}
        /\ l.type = "compaction" => l.cutoff <= Len(Replay(lines))
  BY <1>2
<1>4. /\ DOMAIN longer = 1..(Len(lines) + 1) /\ DOMAIN lines = 1..Len(lines)
      /\ 1..(Len(lines) + 1) = 1..Len(lines) \union {Len(lines) + 1}
  OBVIOUS
<1>5. /\ Valid(longer) <=> \A i \in DOMAIN longer : Fits(longer, i)
      /\ Valid(lines) <=> \A i \in DOMAIN lines : Fits(lines, i)
  BY DEF Valid
<1> HIDE DEF Fits, longer
<1>6. Valid(longer) <=> Valid(lines) /\ Fits(longer, Len(lines) + 1)
  BY <1>1, <1>4, <1>5
<1> QED BY <1>3, <1>6 DEF longer

-----------------------------------------------------------------------------
(* Lines, and what an append leaves                                         *)

LEMMA MessageTypes ==
  /\ User \in Message /\ Assistant \in Message
  /\ \A c \in Calls : CallOf(c) \in Message /\ ResultOf(c) \in Message
  /\ \A m \in Message : m \in Line /\ m \notin {Partial, Garbled} /\ m.type # "compaction"
  /\ \A n \in Nat : Checkpoint(n) \in Line /\ Checkpoint(n) \notin {Partial, Garbled}
<1>1. /\ User \in Message /\ Assistant \in Message
      /\ \A c \in Calls : CallOf(c) \in Message /\ ResultOf(c) \in Message
  BY DEF Message
<1>2. ASSUME NEW m \in Message
      PROVE  m.type # "compaction" /\ m.type # "partial" /\ m.type # "garbled"
  BY DEF Message, User, Assistant, CallOf, ResultOf
<1>3. ASSUME NEW m \in Message
      PROVE  m \in Line /\ m \notin {Partial, Garbled} /\ m.type # "compaction"
  <2>1. Partial.type = "partial" /\ Garbled.type = "garbled"
    BY DEF Partial, Garbled
  <2> QED BY <1>2, <2>1 DEF Line
<1>4. ASSUME NEW n \in Nat
      PROVE  Checkpoint(n) \in Line /\ Checkpoint(n) \notin {Partial, Garbled}
  <2>1. Checkpoint(n) \in [type: {"compaction"}, cutoff: Nat]
    BY DEF Checkpoint
  <2>2. Checkpoint(n).type = "compaction" /\ Partial.type = "partial" /\ Garbled.type = "garbled"
    BY DEF Checkpoint, Partial, Garbled
  <2> QED BY <2>1, <2>2 DEF Line
<1> QED BY <1>1, <1>3, <1>4

LEMMA WrittenType ==
  ASSUME NEW lines \in Seq(Line), NEW l \in Line, NEW e \in {"none", "torn", "whole"}
  PROVE  Written(lines, l, e) \in Seq(Line)
<1>1. Partial \in Line /\ Garbled \in Line
  BY DEF Line
<1>2. EndsPartial(lines) => Front(lines) \in Seq(Line)
  BY DEF EndsPartial, Front
<1> QED BY <1>1, <1>2 DEF Written

\* A log that ends in a partial line is not valid, nor is what comes after it.
LEMMA TornIsInvalid ==
  ASSUME NEW lines \in Seq(Line), EndsPartial(lines)
  PROVE  /\ ~Valid(lines)
         /\ \A l \in Line, e \in {"none", "torn", "whole"} : ~Valid(Written(lines, l, e))
<1>1. ~Valid(lines)
  <2>1. Len(lines) \in DOMAIN lines /\ lines[Len(lines)] = Partial
    BY DEF EndsPartial, Last
  <2> QED BY <2>1 DEF Valid
<1>2. ~Valid(Front(lines) \o <<Garbled>>)
  <2> DEFINE m == Front(lines) \o <<Garbled>>
  <2>1. Front(lines) \in Seq(Line)
    BY DEF EndsPartial, Front
  <2>2. Len(Front(lines)) + 1 \in DOMAIN m /\ m[Len(Front(lines)) + 1] = Garbled
    BY <2>1
  <2> QED BY <2>2 DEF Valid
<1> QED BY <1>1, <1>2 DEF Written

\* An append that leaves a valid log left all of its line or nothing.
LEMMA WrittenValid ==
  ASSUME NEW lines \in Seq(Line), NEW l \in Line, NEW e \in {"none", "torn", "whole"},
         Valid(Written(lines, l, e))
  PROVE  /\ Valid(lines) /\ ~EndsPartial(lines)
         /\ \/ e = "none" /\ Replay(Written(lines, l, e)) = Replay(lines)
            \/ e = "whole" /\ Replay(Written(lines, l, e)) = After(Replay(lines), l)
<1>1. ~EndsPartial(lines)
  BY TornIsInvalid
<1>2. CASE e = "none"
  BY <1>1, <1>2 DEF Written
<1>3. CASE e = "torn"
  <2>1. Written(lines, l, e) = Append(lines, Partial)
    BY <1>1, <1>3 DEF Written
  <2>2. Partial \in Line
    BY DEF Line
  <2>3. ~Valid(Append(lines, Partial))
    BY <2>2, ValidAppend
  <2> QED BY <2>1, <2>3
<1>4. CASE e = "whole"
  <2>1. Written(lines, l, e) = Append(lines, l)
    BY <1>1, <1>4 DEF Written
  <2>2. Valid(lines)
    BY <2>1, ValidAppend
  <2> QED BY <1>1, <1>4, <2>1, <2>2, ReplayAppend
<1> QED BY <1>2, <1>3, <1>4

LEMMA WholeMessage ==
  ASSUME NEW lines \in Seq(Line), NEW l \in Message, Valid(lines)
  PROVE  /\ Valid(Written(lines, l, "whole"))
         /\ Replay(Written(lines, l, "whole")) = Append(Replay(lines), l)
<1>1. ~EndsPartial(lines)
  BY TornIsInvalid
<1>2. Written(lines, l, "whole") = Append(lines, l)
  BY <1>1 DEF Written
<1>3. l \in Line /\ l \notin {Partial, Garbled} /\ l.type # "compaction"
  BY MessageTypes
<1>4. Valid(Append(lines, l)) /\ Replay(Append(lines, l)) = After(Replay(lines), l)
  BY <1>3, ValidAppend, ReplayAppend
<1> QED BY <1>2, <1>3, <1>4 DEF After

LEMMA WholeCheckpoint ==
  ASSUME NEW lines \in Seq(Line), Valid(lines), NEW n \in Nat, n <= Len(Replay(lines))
  PROVE  /\ Valid(Written(lines, Checkpoint(n), "whole"))
         /\ Replay(Written(lines, Checkpoint(n), "whole"))
              = SubSeq(Replay(lines), n + 1, Len(Replay(lines)))
<1>1. ~EndsPartial(lines)
  BY TornIsInvalid
<1>2. Written(lines, Checkpoint(n), "whole") = Append(lines, Checkpoint(n))
  BY <1>1 DEF Written
<1>3. /\ Checkpoint(n) \in Line /\ Checkpoint(n) \notin {Partial, Garbled}
      /\ Checkpoint(n).type = "compaction" /\ Checkpoint(n).cutoff = n
  BY MessageTypes DEF Checkpoint
<1>4. /\ Valid(Append(lines, Checkpoint(n)))
      /\ Replay(Append(lines, Checkpoint(n))) = After(Replay(lines), Checkpoint(n))
  BY <1>3, ValidAppend, ReplayAppend
<1> QED BY <1>2, <1>3, <1>4 DEF After

\* What a log has, an append leaves it; a line that is a call it never was.
LEMMA WrittenKeeps ==
  ASSUME NEW lines \in Seq(Line), NEW l \in Line, NEW e \in {"none", "torn", "whole"},
         NEW m, m # Partial, Has(lines, m)
  PROVE  Has(Written(lines, l, e), m)
<1> PICK i \in DOMAIN lines : lines[i] = m
  BY DEF Has
<1>1. CASE EndsPartial(lines)
  <2>1. i # Len(lines)
    BY <1>1 DEF EndsPartial, Last
  <2>2. Front(lines) \in Seq(Line) /\ Len(Front(lines)) = Len(lines) - 1
    <3> DEFINE n == Len(lines) - 1
    <3>1. n \in Nat /\ \A k \in 1..n : lines[k] \in Line
      BY <1>1 DEF EndsPartial
    <3> HIDE DEF n
    <3>2. /\ SubSeq(lines, 1, n) \in Seq(Line)
          /\ Len(SubSeq(lines, 1, n)) = IF 1 <= n THEN n - 1 + 1 ELSE 0
      BY <3>1, SubSeqProperties
    <3>3. (IF 1 <= n THEN n - 1 + 1 ELSE 0) = n
      BY <3>1
    <3> QED BY <3>2, <3>3 DEF Front, n
  <2>3. Front(lines)[i] = lines[i]
    BY <1>1, <2>1 DEF EndsPartial, Front
  <2>4. i \in DOMAIN Front(lines)
    BY <2>1, <2>2
  <2> DEFINE w == Front(lines) \o <<Garbled>>
  <2>5. i \in DOMAIN w /\ w[i] = m
    BY <2>2, <2>3, <2>4
  <2>6. Has(w, m)
    BY <2>5 DEF Has
  <2> QED BY <1>1, <2>6 DEF Written
<1>2. CASE ~EndsPartial(lines)
  <2>1. \A x : i \in DOMAIN Append(lines, x) /\ Append(lines, x)[i] = m
    OBVIOUS
  <2>2. \A x : Has(Append(lines, x), m)
    BY <2>1 DEF Has
  <2> QED BY <1>2, <2>2 DEF Written
<1> QED BY <1>1, <1>2

LEMMA WrittenHas ==
  ASSUME NEW lines \in Seq(Line), NEW l \in Line, ~EndsPartial(lines)
  PROVE  Has(Written(lines, l, "whole"), l)
<1>1. /\ Len(lines) + 1 \in DOMAIN Append(lines, l)
      /\ Append(lines, l)[Len(lines) + 1] = l
  OBVIOUS
<1> QED BY <1>1 DEF Written, Has

LEMMA WholeIsNotPartial ==
  ASSUME NEW lines \in Seq(Line), NEW l \in Message
  PROVE  ~EndsPartial(Written(lines, l, "whole"))
<1>1. \A ms \in Seq(Line), x \in Line :
        x # Partial => ~EndsPartial(Append(ms, x))
  BY DEF EndsPartial, Last
<1>2. l \in Line /\ l # Partial /\ Garbled \in Line /\ Garbled # Partial
  BY MessageTypes DEF Line, Partial, Garbled
<1>3. CASE EndsPartial(lines)
  <2>1. Front(lines) \in Seq(Line)
    BY <1>3 DEF EndsPartial, Front
  <2>2. Front(lines) \o <<Garbled>> = Append(Front(lines), Garbled)
    BY <2>1
  <2> QED BY <1>1, <1>2, <1>3, <2>1, <2>2 DEF Written
<1>4. CASE ~EndsPartial(lines)
  BY <1>1, <1>2, <1>4 DEF Written
<1> QED BY <1>3, <1>4

-----------------------------------------------------------------------------
(* Well-formed contexts                                                     *)

\* Every call is below one id and every result below another.
Below(ms, fresh, next) ==
  \A i \in DOMAIN ms :
    /\ ms[i].type = "call" => ms[i].id < fresh
    /\ ms[i].type = "result" => ms[i].id < next

\* No call occurs twice.
CallsOnce(ms) ==
  \A i, j \in DOMAIN ms :
    i < j /\ ms[i].type = "call" /\ ms[j].type = "call" => ms[i].id # ms[j].id

\* No result occurs on both sides of a user's message. (It may occur twice: an
\* interrupt answers the calls of a batch that have been answered as well.)
ResultsTogether(ms) ==
  \A i, j, k \in DOMAIN ms :
    i < j /\ j < k /\ ms[i].type = "result" /\ ms[j].type = "user" => ms[k] # ms[i]

\* No user's message follows a result of the batch under way.
NothingAfter(ms, batch) ==
  \A i, j \in DOMAIN ms :
    i < j /\ ms[i].type = "result" /\ ms[i].id \in batch => ms[j].type # "user"

Sound(ms, fresh, next, batch) ==
  /\ ms \in Seq(Message)
  /\ Below(ms, fresh, next) /\ CallsOnce(ms)
  /\ ResultsTogether(ms) /\ NothingAfter(ms, batch)

LEMMA MessageIds ==
  /\ \A m \in Message : m.type \in {"user", "assistant", "call", "result"} /\ m.id \in Nat
  /\ \A m \in Message : m.type = "call" => m = CallOf(m.id) /\ m.id \in Calls
  /\ \A m \in Message : m.type = "result" => m = ResultOf(m.id) /\ m.id \in Calls
  /\ User.type = "user" /\ Assistant.type = "assistant"
  /\ \A c : CallOf(c).type = "call" /\ CallOf(c).id = c
  /\ \A c : ResultOf(c).type = "result" /\ ResultOf(c).id = c
BY BoundsAssumption DEF Message, User, Assistant, CallOf, ResultOf, Calls

LEMMA SoundEmpty == \A f, n, b : Sound(<<>>, f, n, b)
BY DEF Sound, Below, CallsOnce, ResultsTogether, NothingAfter

\* Later ids and a smaller batch.
LEMMA SoundWeaken ==
  ASSUME NEW ms, NEW f \in Nat, NEW n \in Nat, NEW b, Sound(ms, f, n, b),
         NEW g \in Nat, NEW m \in Nat, NEW d, f <= g, n <= m,
         \A c \in d : c \in b \/ (c \in Nat /\ n <= c)
  PROVE  Sound(ms, g, m, d)
<1>1. ms \in Seq(Message) /\ \A i \in DOMAIN ms : ms[i].id \in Nat
  BY MessageIds DEF Sound
<1>2. Below(ms, g, m)
  BY <1>1 DEF Sound, Below
<1>3. NothingAfter(ms, d)
  BY <1>1 DEF Sound, Below, NothingAfter
<1> QED BY <1>1, <1>2, <1>3 DEF Sound

\* ms holds what is in front of and at i after l has been appended.
LEMMA AppendAt ==
  ASSUME NEW S, NEW ms \in Seq(S), NEW l
  PROVE  /\ DOMAIN Append(ms, l) = 1..(Len(ms) + 1) /\ DOMAIN ms = 1..Len(ms)
         /\ Len(ms) \in Nat
         /\ \A i \in 1..Len(ms) : Append(ms, l)[i] = ms[i]
         /\ Append(ms, l)[Len(ms) + 1] = l
OBVIOUS

\* What is appended keeps a context well-formed if it is neither a call that is
\* there, nor a result that a user's message separates from another, nor a
\* user's message while results of the batch are there.
LEMMA SoundAppend ==
  ASSUME NEW ms, NEW f \in Nat, NEW n \in Nat, NEW b, Sound(ms, f, n, b),
         NEW l \in Message, NEW g \in Nat, f <= g,
         l.type = "call" => f <= l.id /\ l.id < g,
         l.type = "result" => l.id < n /\ (l.id \in b \/ ~Has(ms, l)),
         l.type = "user" => b = {}
  PROVE  Sound(Append(ms, l), g, n, b)
<1> DEFINE w == Append(ms, l)
<1>1. ms \in Seq(Message) /\ \A i \in DOMAIN ms : ms[i].id \in Nat /\ ms[i] \in Message
  BY MessageIds DEF Sound
<1>2. /\ DOMAIN w = 1..(Len(ms) + 1) /\ DOMAIN ms = 1..Len(ms) /\ Len(ms) \in Nat
      /\ \A i \in 1..Len(ms) : w[i] = ms[i]
      /\ w[Len(ms) + 1] = l /\ w \in Seq(Message)
  BY <1>1, AppendAt
<1>3. \A i \in DOMAIN w : i \in DOMAIN ms \/ i = Len(ms) + 1
  BY <1>2
<1> HIDE DEF w
<1>4. Below(w, g, n)
  BY <1>1, <1>2, <1>3, MessageIds DEF Sound, Below
<1>5. CallsOnce(w)
  <2> SUFFICES ASSUME NEW i \in DOMAIN w, NEW j \in DOMAIN w, i < j,
                      w[i].type = "call", w[j].type = "call"
               PROVE  w[i].id # w[j].id
    BY DEF CallsOnce
  <2>1. i \in DOMAIN ms /\ w[i] = ms[i]
    BY <1>2
  <2>2. CASE j \in DOMAIN ms
    BY <1>2, <2>1, <2>2 DEF Sound, CallsOnce
  <2>3. CASE j = Len(ms) + 1
    <3>1. ms[i].id < f
      BY <2>1 DEF Sound, Below
    <3> QED BY <1>1, <1>2, <2>1, <2>3, <3>1
  <2> QED BY <1>3, <2>2, <2>3
<1>6. ResultsTogether(w)
  <2> SUFFICES ASSUME NEW i \in DOMAIN w, NEW j \in DOMAIN w, NEW k \in DOMAIN w,
                      i < j, j < k, w[i].type = "result", w[j].type = "user"
               PROVE  w[k] # w[i]
    BY DEF ResultsTogether
  <2>1. i \in DOMAIN ms /\ w[i] = ms[i] /\ j \in DOMAIN ms /\ w[j] = ms[j]
    BY <1>2
  <2>2. CASE k \in DOMAIN ms
    BY <1>2, <2>1, <2>2 DEF Sound, ResultsTogether
  <2>3. CASE k = Len(ms) + 1 /\ l.type = "result"
    <3>1. CASE l.id \in b
      <4>1. ms[i].id # l.id
        BY <2>1, <3>1 DEF Sound, NothingAfter
      <4> QED BY <1>2, <2>1, <2>3, <4>1
    <3>2. CASE ~Has(ms, l)
      BY <1>2, <2>1, <2>3, <3>2 DEF Has
    <3> QED BY <2>3, <3>1, <3>2
  <2>4. CASE k = Len(ms) + 1 /\ l.type # "result"
    BY <1>2, <2>1, <2>4
  <2> QED BY <1>3, <2>2, <2>3, <2>4
<1>7. NothingAfter(w, b)
  <2> SUFFICES ASSUME NEW i \in DOMAIN w, NEW j \in DOMAIN w, i < j,
                      w[i].type = "result", w[i].id \in b
               PROVE  w[j].type # "user"
    BY DEF NothingAfter
  <2>1. i \in DOMAIN ms /\ w[i] = ms[i]
    BY <1>2
  <2>2. CASE j \in DOMAIN ms
    BY <1>2, <2>1, <2>2 DEF Sound, NothingAfter
  <2>3. CASE j = Len(ms) + 1
    BY <1>2, <2>3
  <2> QED BY <1>3, <2>2, <2>3
<1> QED BY <1>2, <1>4, <1>5, <1>6, <1>7 DEF Sound, w

\* What a suffix of a sequence is.
LEMMA SuffixAt ==
  ASSUME NEW S, NEW ms \in Seq(S), NEW n \in Nat
  PROVE  LET w == SubSeq(ms, n + 1, Len(ms)) IN
         /\ w \in Seq(S) /\ Len(w) \in Nat /\ DOMAIN w = 1..Len(w)
         /\ Len(w) = IF n <= Len(ms) THEN Len(ms) - n ELSE 0
         /\ \A i \in DOMAIN w : i + n \in DOMAIN ms /\ w[i] = ms[i + n]
<1> DEFINE a == n + 1
           z == Len(ms)
<1>1. /\ a \in Int /\ z \in Nat /\ DOMAIN ms = 1..z
      /\ \A i \in a..z : ms[i] \in S
  OBVIOUS
<1>2. /\ SubSeq(ms, a, z) \in Seq(S)
      /\ Len(SubSeq(ms, a, z)) = IF a <= z THEN z - a + 1 ELSE 0
      /\ \A i \in 1..(z - a + 1) : SubSeq(ms, a, z)[i] = ms[a + i - 1]
  <2> HIDE DEF a, z
  <2> QED BY <1>1, SubSeqProperties
<1>3. DOMAIN SubSeq(ms, a, z) = 1..Len(SubSeq(ms, a, z)) /\ Len(SubSeq(ms, a, z)) \in Nat
  <2> HIDE DEF a, z
  <2> QED BY <1>2
<1>4. Len(SubSeq(ms, a, z)) = IF n <= z THEN z - n ELSE 0
  <2> DEFINE w == SubSeq(ms, a, z)
  <2> HIDE DEF w
  <2> QED BY <1>1, <1>2 DEF w
<1>5. \A i \in 1..Len(SubSeq(ms, a, z)) : i + n \in 1..z /\ SubSeq(ms, a, z)[i] = ms[i + n]
  <2> DEFINE w == SubSeq(ms, a, z)
  <2>1. \A i \in 1..(z - a + 1) : w[i] = ms[a + i - 1]
    BY <1>2
  <2>2. Len(w) = IF n <= z THEN z - n ELSE 0
    BY <1>4
  <2> HIDE DEF w, z
  <2>3. \A i \in 1..Len(w) : i \in 1..(z - a + 1) /\ a + i - 1 = i + n /\ i + n \in 1..z
    BY <1>1, <2>2
  <2>4. \A i \in 1..Len(w) : i + n \in 1..z /\ w[i] = ms[i + n]
    BY <2>1, <2>3
  <2> QED BY <2>4 DEF w
<1> QED BY <1>1, <1>2, <1>3, <1>4, <1>5

LEMMA SoundSuffix ==
  ASSUME NEW ms, NEW f \in Nat, NEW n \in Nat, NEW b, Sound(ms, f, n, b), NEW k \in Nat
  PROVE  Sound(SubSeq(ms, k + 1, Len(ms)), f, n, b)
<1> DEFINE w == SubSeq(ms, k + 1, Len(ms))
<1>1. ms \in Seq(Message)
  BY DEF Sound
<1>2. /\ w \in Seq(Message) /\ DOMAIN w \subseteq Nat
      /\ \A i \in DOMAIN w : i + k \in DOMAIN ms /\ w[i] = ms[i + k]
  <2>1. /\ w \in Seq(Message) /\ Len(w) \in Nat /\ DOMAIN w = 1..Len(w)
        /\ \A i \in DOMAIN w : i + k \in DOMAIN ms /\ w[i] = ms[i + k]
    BY <1>1, SuffixAt, Zenon
  <2> HIDE DEF w
  <2> QED BY <2>1
<1>3. \A i, j \in DOMAIN w : i < j => i + k < j + k
  BY <1>2
<1> HIDE DEF w
<1>4. Below(w, f, n)
  BY <1>2 DEF Sound, Below
<1>5. CallsOnce(w)
  BY <1>2, <1>3 DEF Sound, CallsOnce
<1>6. ResultsTogether(w)
  BY <1>2, <1>3 DEF Sound, ResultsTogether
<1>7. NothingAfter(w, b)
  BY <1>2, <1>3 DEF Sound, NothingAfter
<1> QED BY <1>2, <1>4, <1>5, <1>6, <1>7 DEF Sound, w

-----------------------------------------------------------------------------
(* The batch under way                                                      *)

Places == {"down", "booting", "resuming", "idle", "opening", "draining", "streaming",
           "calling", "executing", "suspended", "resulting", "aborting", "replied",
           "ended"}
InBatch == {"calling", "executing", "suspended", "resulting", "aborting"}

\* The calls of the batch are the last that were issued, none is left outside the
\* steps that deal with one, and only tools of the batch have run.
TurnInv ==
  /\ pc \in Places /\ iteration \in 0..MaxIterations
  /\ calls \in Seq(Calls) /\ executed \subseteq ToSet(calls)
  /\ done \in Nat /\ nextCall \in 1..(MaxCalls + 1)
  /\ pc \in {"calling", "resulting", "aborting"} => done < Len(calls)
  /\ \A i \in DOMAIN calls : calls[i] = nextCall - 1 - Len(calls) + i
  /\ pc \in InBatch => calls # <<>>
  /\ pc \notin InBatch \union {"replied"} => calls = <<>>

LEMMA NoBatchTurn ==
  ASSUME TurnInv, NoBatch, nextCall' = nextCall, pc' \in Places \ InBatch,
         iteration' \in 0..MaxIterations
  PROVE  TurnInv'
<1>1. calls' = <<>> /\ done' = 0 /\ executed' = {} /\ Len(calls') = 0 /\ DOMAIN calls' = {}
  BY DEF NoBatch
<1> QED BY <1>1 DEF TurnInv, InBatch

\* The two ways in which a turn is over.
Finishes == Ends \/ Reports

LEMMA EndsTurn ==
  ASSUME TurnInv, Finishes, nextCall' = nextCall
  PROVE  TurnInv'
<1>1. NoBatch /\ pc' \in {"idle", "ended"} /\ iteration' = 0
  BY DEF Finishes, Ends, Reports, Over
<1>2. 0 \in 0..MaxIterations
  BY LimitsAssumption
<1>3. {"idle", "ended"} \subseteq Places \ InBatch
  BY DEF Places, InBatch
<1> QED BY <1>1, <1>2, <1>3, NoBatchTurn

\* The steps that leave the batch alone.
LEMMA SameTurn ==
  ASSUME TurnInv, calls' = calls, nextCall' = nextCall, executed' = executed,
         pc' \in Places, done' \in Nat, iteration' \in 0..MaxIterations,
         pc' \in {"calling", "resulting", "aborting"} => done' < Len(calls),
         pc' \in InBatch => pc \in InBatch \/ calls # <<>>,
         pc \in InBatch \union {"replied"} => pc' \in InBatch \union {"replied"}
  PROVE  TurnInv'
BY DEF TurnInv

LEMMA BatchType ==
  ASSUME NEW n \in Nat, nextCall \in 1..(MaxCalls + 1), nextCall + n <= MaxCalls + 1
  PROVE  /\ Batch(n) \in Seq(Calls) /\ Len(Batch(n)) = n /\ DOMAIN Batch(n) = 1..n
         /\ \A i \in 1..n : Batch(n)[i] = nextCall + i - 1
<1>1. \A i \in 1..n : nextCall + i - 1 \in Calls
  BY BoundsAssumption DEF Calls
<1> QED BY <1>1 DEF Batch

LEMMA NewBatchTurn ==
  ASSUME TurnInv, NEW n \in Nat, NewBatch(n), iteration' \in 0..MaxIterations,
         pc' = IF n = 0 THEN "replied" ELSE "calling"
  PROVE  TurnInv' /\ Len(calls') = n
<1>1. nextCall \in Nat /\ MaxCalls \in Nat
  BY BoundsAssumption DEF TurnInv
<1>2. /\ calls' \in Seq(Calls) /\ Len(calls') = n /\ DOMAIN calls' = 1..n
      /\ \A i \in 1..n : calls'[i] = nextCall + i - 1
  BY BatchType DEF TurnInv, NewBatch
<1>3. /\ nextCall' = nextCall + n /\ nextCall' <= MaxCalls + 1 /\ done' = 0 /\ executed' = {}
  BY DEF NewBatch
<1>4. nextCall' \in 1..(MaxCalls + 1)
  BY <1>1, <1>3 DEF TurnInv
<1>5. \A i \in DOMAIN calls' : calls'[i] = nextCall' - 1 - Len(calls') + i
  BY <1>1, <1>2, <1>3
<1>6. pc' \in Places /\ (pc' \in InBatch => n > 0) /\ (pc' \notin InBatch => pc' = "replied")
  BY DEF Places, InBatch
<1>7. n > 0 => calls' # <<>>
  BY <1>2
<1> QED BY <1>2, <1>3, <1>4, <1>5, <1>6, <1>7 DEF TurnInv

LEMMA AdvanceTurn ==
  ASSUME TurnInv, NEW from \in {"calling", "resulting", "aborting"}, pc = from,
         NEW to \in {"executing", "replied", "aborting"}, Advance(from, to),
         nextCall' = nextCall
  PROVE  TurnInv'
<1>1. calls' = calls /\ executed' = executed /\ iteration' = iteration
  BY DEF Advance
<1>2. done \in Nat /\ done < Len(calls) /\ Len(calls) \in Nat /\ pc \in InBatch
  BY DEF TurnInv, InBatch
<1>3. CASE done + 1 = Len(calls)
  <2>1. done' = 0 /\ pc' = to
    BY <1>3 DEF Advance, Goes
  <2>2. to \in Places /\ to \in InBatch \union {"replied"}
    BY DEF Places, InBatch
  <2> QED BY <1>1, <1>2, <2>1, <2>2, SameTurn DEF TurnInv
<1>4. CASE done + 1 # Len(calls)
  <2>1. done' = done + 1 /\ pc' = from
    BY <1>4 DEF Advance, Goes
  <2>2. from \in Places /\ from \in InBatch
    BY DEF Places, InBatch
  <2>3. done + 1 < Len(calls) /\ done + 1 \in Nat
    BY <1>2, <1>4
  <2> QED BY <1>1, <1>2, <2>1, <2>2, <2>3, SameTurn DEF TurnInv
<1> QED BY <1>3, <1>4

LEMMA TurnInvStep ==
  ASSUME TurnInv, [Next]_vars
  PROVE  TurnInv'
<1>0. /\ \A p \in {"idle", "opening", "draining", "streaming", "down", "booting", "resuming",
                   "replied", "ended"} : p \in Places \ InBatch
      /\ 0 \in 0..MaxIterations /\ 1 \in 0..MaxIterations /\ MaxIterations \in Nat
      /\ iteration \in 0..MaxIterations /\ nextCall \in Nat /\ Len(calls) \in Nat
      /\ pc \in InBatch => Len(calls) > 0
  BY LimitsAssumption DEF Places, InBatch, TurnInv
<1>1. CASE StartTurn
  BY <1>0, <1>1, NoBatchTurn DEF StartTurn
<1>2. CASE UserTurn
  <2>1. CASE Finishes /\ nextCall' = nextCall
    BY <2>1, EndsTurn
  <2>2. CASE iteration' = 1 /\ pc' = "draining" /\ NoBatch /\ nextCall' = nextCall
    BY <1>0, <2>2, NoBatchTurn
  <2>3. ASSUME iteration' = 0, pc' = "calling", NEW n \in 1..MaxBatch, NewBatch(n)
        PROVE  TurnInv'
    <3>1. n \in Nat /\ n # 0
      BY LimitsAssumption
    <3> QED BY <1>0, <2>3, <3>1, NewBatchTurn
  <2> QED BY <1>2, <2>1, <2>2, <2>3 DEF UserTurn, Finishes
<1>3. CASE DrainResult
  <2>1. CASE Finishes
    BY <1>3, <2>1, EndsTurn DEF DrainResult
  <2>2. CASE UNCHANGED <<pc, reported, late, turnVars>>
    BY <1>3, <2>2 DEF DrainResult, TurnInv, turnVars, batchVars
  <2> QED BY <1>3, <2>1, <2>2 DEF DrainResult, Finishes
<1>4. CASE Request
  <2>1. CASE Finishes
    BY <1>4, <2>1, EndsTurn DEF Request
  <2>2. CASE Goes("streaming") /\ UNCHANGED turnVars
    BY <1>0, <1>4, <2>2, SameTurn DEF Request, TurnInv, turnVars, batchVars, Goes, InBatch
  <2> QED BY <1>4, <2>1, <2>2 DEF Request, Finishes
<1>5. CASE Reply
  <2>1. CASE Finishes /\ nextCall' = nextCall
    BY <2>1, EndsTurn
  <2>2. ASSUME NEW n \in 0..MaxBatch, NewBatch(n), Goes(IF n = 0 THEN "replied" ELSE "calling"),
               iteration' = iteration
        PROVE  TurnInv'
    <3>1. n \in Nat
      BY LimitsAssumption
    <3>2. pc' = IF n = 0 THEN "replied" ELSE "calling"
      BY <2>2 DEF Goes
    <3> QED BY <1>0, <2>2, <3>1, <3>2, NewBatchTurn
  <2> QED BY <1>5, <2>1, <2>2 DEF Reply, Finishes
<1>6. CASE ReplyCut
  BY <1>6, EndsTurn DEF ReplyCut, Finishes
<1>7. CASE ContextTooLong
  <2>1. CASE Finishes
    BY <1>7, <2>1, EndsTurn DEF ContextTooLong
  <2>2. CASE /\ NoBatch
             /\ IF iteration = MaxIterations THEN Goes("ended") /\ UNCHANGED iteration
                ELSE Goes("draining") /\ iteration' = iteration + 1
    <3>1. iteration' \in 0..MaxIterations /\ pc' \in {"ended", "draining"}
      BY <1>0, <2>2 DEF Goes
    <3> QED BY <1>0, <1>7, <2>2, <3>1, NoBatchTurn DEF ContextTooLong
  <2> QED BY <1>7, <2>1, <2>2 DEF ContextTooLong, Finishes
<1>8. CASE CommitCall
  <2>1. CASE Finishes
    BY <1>8, <2>1, EndsTurn DEF CommitCall
  <2>2. CASE Advance("calling", "executing")
    BY <1>8, <2>2, AdvanceTurn DEF CommitCall
  <2> QED BY <1>8, <2>1, <2>2 DEF CommitCall, Finishes
<1>9. ASSUME NEW c \in Calls, Execute(c) PROVE TurnInv'
  BY <1>9 DEF Execute, TurnInv, InBatch
<1>10. CASE ToolsDone
  <2>1. /\ pc = "executing" /\ pc' = "resulting" /\ done' = 0
        /\ calls' = calls /\ executed' = executed /\ iteration' = iteration
        /\ nextCall' = nextCall
    BY <1>10 DEF ToolsDone, Goes
  <2>2. "resulting" \in Places /\ "resulting" \in InBatch /\ "executing" \in InBatch
    BY DEF Places, InBatch
  <2> QED BY <1>0, <2>1, <2>2, SameTurn
<1>11. CASE CommitResult
  <2>1. CASE Finishes
    BY <1>11, <2>1, EndsTurn DEF CommitResult
  <2>2. CASE Advance("resulting", "replied")
    BY <1>11, <2>2, AdvanceTurn DEF CommitResult
  <2> QED BY <1>11, <2>1, <2>2 DEF CommitResult, Finishes
<1>12. CASE EndIteration
  <2>1. CASE Finishes
    BY <1>12, <2>1, EndsTurn DEF EndIteration
  <2>2. CASE NextIteration
    <3>1. iteration' \in 0..MaxIterations /\ pc' = "draining" /\ NoBatch
      BY <1>0, <2>2 DEF NextIteration, Goes
    <3> QED BY <1>0, <1>12, <3>1, NoBatchTurn DEF EndIteration
  <2> QED BY <1>12, <2>1, <2>2 DEF EndIteration, Finishes
<1>13. CASE Abort
  <2>1. CASE Finishes
    BY <1>13, <2>1, EndsTurn DEF Abort
  <2>2. CASE Advance("aborting", "aborting")
    BY <1>13, <2>2, AdvanceTurn DEF Abort
  <2> QED BY <1>13, <2>1, <2>2 DEF Abort, Finishes
<1>14. CASE Repair
  <2>1. CASE Finishes /\ nextCall' = nextCall
    BY <2>1, EndsTurn
  <2>2. CASE Goes("idle") /\ UNCHANGED <<turnVars, nextCall>>
    BY <1>0, <1>14, <2>2, SameTurn DEF Repair, TurnInv, turnVars, batchVars, Goes, InBatch
  <2>3. CASE UNCHANGED <<pc, turnVars, nextCall>>
    BY <2>3 DEF TurnInv, turnVars, batchVars
  <2>4. CASE Gone
    BY <1>0, <2>4, NoBatchTurn DEF Gone
  <2> QED BY <1>14, <2>1, <2>2, <2>3, <2>4 DEF Repair, Repaired, Finishes
<1>15. CASE Suspend
  <2>1. /\ pc = "executing" /\ pc' = "suspended" /\ done' = done + 1
        /\ calls' = calls /\ executed' = executed /\ iteration' = iteration
        /\ nextCall' = nextCall
    BY <1>15 DEF Suspend, Goes
  <2>2. "suspended" \in Places /\ "suspended" \in InBatch /\ "executing" \in InBatch
        /\ done + 1 \in Nat
    BY DEF Places, InBatch, TurnInv
  <2> QED BY <1>0, <2>1, <2>2, SameTurn
<1>16. CASE Answer
  <2>1. /\ pc = "suspended" /\ pc' = "executing" /\ done' = done
        /\ calls' = calls /\ executed' = executed /\ iteration' = iteration
        /\ nextCall' = nextCall
    BY <1>16 DEF Answer, Goes, turnVars, batchVars
  <2>2. "suspended" \in InBatch /\ "executing" \in Places /\ "executing" \in InBatch
        /\ done \in Nat
    BY DEF Places, InBatch, TurnInv
  <2> QED BY <1>0, <2>1, <2>2, SameTurn
<1>17. CASE Interrupt
  <2>1. CASE Finishes
    BY <1>17, <2>1, EndsTurn DEF Interrupt
  <2>2. CASE /\ Interrupted /\ Goes("aborting") /\ done' = 0
             /\ UNCHANGED <<iteration, recovered, calls, executed>>
    <3>1. "aborting" \in Places /\ "aborting" \in InBatch
      BY DEF Places, InBatch
    <3>2. Len(calls) > 0 /\ calls # <<>>
      <4>1. pc \in InBatch \/ calls # <<>>
        BY <2>2 DEF Interrupted, InBatch
      <4> QED BY <1>0, <4>1 DEF TurnInv
    <3>3. nextCall' = nextCall /\ pc' = "aborting"
      BY <1>17, <2>2 DEF Interrupt, Goes
    <3> QED BY <1>0, <2>2, <3>1, <3>2, <3>3, SameTurn
  <2> QED BY <1>17, <2>1, <2>2 DEF Interrupt, Finishes
<1>18. CASE Close
  BY <1>18, EndsTurn DEF Close, Finishes
<1>19. CASE Compact
  BY <1>19 DEF Compact, TurnInv, turnVars, batchVars
<1>20. ASSUME NEW s \in Session, NewSession(s) \/ DeleteSession(s) PROVE TurnInv'
  <2>1. UNCHANGED <<pc, turnVars, nextCall>>
    BY <1>20 DEF NewSession, DeleteSession
  <2> QED BY <2>1 DEF TurnInv, turnVars, batchVars
<1>21. ASSUME NEW s \in Session, ResumeSession(s) PROVE TurnInv'
  <2>1. pc = "idle" /\ pc' = "resuming" /\ UNCHANGED <<turnVars, nextCall>>
    BY <1>21 DEF ResumeSession
  <2> QED BY <1>0, <2>1, SameTurn DEF TurnInv, turnVars, batchVars, InBatch
<1>22. CASE Boot
  <2>1. pc = "down" /\ pc' \in {"booting", "idle"} /\ UNCHANGED <<turnVars, nextCall>>
    BY <1>22 DEF Boot
  <2> QED BY <1>0, <2>1, SameTurn DEF TurnInv, turnVars, batchVars, InBatch
<1>23. CASE Crash
  BY <1>0, <1>23, NoBatchTurn DEF Crash, Gone
<1>24. CASE UNCHANGED vars
  BY <1>24 DEF TurnInv, vars, turnVars, batchVars
<1>26. CASE Leave \/ LateInterrupt
  <2>1. pc = "ended" /\ pc' = "idle" /\ UNCHANGED <<turnVars, nextCall>>
    BY <1>26 DEF Leave, LateInterrupt, Goes
  <2> QED BY <1>0, <2>1, SameTurn DEF TurnInv, turnVars, batchVars, InBatch
<1>25. CASE TurnStep
  BY <1>2, <1>4, <1>5, <1>6, <1>7, <1>8, <1>9, <1>10, <1>11, <1>12, <1>13, <1>14, <1>25,
     <1>26 DEF TurnStep
<1> QED
  BY <1>26, <1>1, <1>3, <1>15, <1>16, <1>17, <1>18, <1>19, <1>20, <1>21, <1>22, <1>23, <1>24, <1>25
     DEF Next, Exhausted

-----------------------------------------------------------------------------
(* What a turn reports                                                      *)

\* Inside a turn no end has been reported, and when it is over one, but for the
\* turn that runs out after a recovery.
Outside == {"idle", "down", "booting", "ended"}
ReportInv ==
  /\ ReportsOnce /\ late \in BOOLEAN
  /\ pc = "ended" => reported = (IF SilentEnd THEN 0 ELSE 1) /\ late = FALSE
  /\ pc \in {"down", "booting"} => reported = 1 /\ late = FALSE /\ recovered = FALSE
  /\ pc \notin Outside => reported = 0 /\ late = FALSE

LEMMA EndsReport ==
  ASSUME ReportInv, pc \notin Outside, Finishes
  PROVE  ReportInv'
<1>1. /\ pc' \in {"idle", "ended"} /\ recovered' = FALSE
      /\ reported' = reported + 1 /\ reported = 0 /\ late' = FALSE
  BY DEF Finishes, Ends, Reports, Over, ReportInv
<1>2. reported' = 1 /\ ~SilentEnd'
  BY <1>1 DEF SilentEnd
<1>3. (IF SilentEnd' THEN 0 ELSE 1) + (IF late' THEN 1 ELSE 0) = 1
  BY <1>1, <1>2
<1> QED BY <1>1, <1>2, <1>3 DEF ReportInv, ReportsOnce, Outside

\* The steps from one place of a turn to another.
LEMMA MovesReport ==
  ASSUME ReportInv, pc \notin Outside, pc' \notin Outside, UNCHANGED <<reported, late>>
  PROVE  ReportInv'
BY DEF ReportInv, ReportsOnce, Outside

LEMMA StaysReport ==
  ASSUME ReportInv, UNCHANGED <<pc, reported, late, turnVars>>
  PROVE  ReportInv'
<1>1. /\ pc' = pc /\ reported' = reported /\ late' = late
      /\ recovered' = recovered /\ iteration' = iteration
  BY DEF turnVars
<1>2. SilentEnd' <=> SilentEnd
  BY <1>1 DEF SilentEnd
<1> QED BY <1>1, <1>2 DEF ReportInv, ReportsOnce

\* The end of a turn, and a start, at which nothing was reported late.
LEMMA IdleReport ==
  ASSUME pc' = "idle", late' = FALSE, reported' = (IF SilentEnd' THEN 0 ELSE 1)
  PROVE  ReportInv'
<1>1. reported' \in Int /\ ~late'
  OBVIOUS
<1>2. reported' = (IF SilentEnd' THEN 0 ELSE 1) + (IF late' THEN 1 ELSE 0)
  BY <1>1
<1> QED BY <1>2 DEF ReportInv, ReportsOnce, Outside

LEMMA AdvanceReport ==
  ASSUME ReportInv, pc \notin Outside,
         NEW from, from \notin Outside,
         NEW to, to \notin Outside, Advance(from, to)
  PROVE  ReportInv'
<1>1. UNCHANGED <<reported, late>> /\ (pc' = from \/ pc' = to)
  BY DEF Advance, Goes
<1> QED BY <1>1, MovesReport

LEMMA ReportInvStep ==
  ASSUME ReportInv, [Next]_vars
  PROVE  ReportInv'
<1>1. CASE StartTurn
  BY <1>1 DEF StartTurn, ReportInv, ReportsOnce, Outside
<1>2. CASE UserTurn
  <2>1. CASE Finishes
    BY <1>2, <2>1, EndsReport DEF UserTurn, Outside
  <2>2. CASE UNCHANGED <<reported, late>> /\ pc' \in {"draining", "calling"}
    BY <1>2, <2>2, MovesReport DEF UserTurn, Outside
  <2> QED BY <1>2, <2>1, <2>2 DEF UserTurn, Finishes
<1>3. CASE DrainResult
  <2>1. CASE Finishes
    BY <1>3, <2>1, EndsReport DEF DrainResult, Outside
  <2>2. CASE UNCHANGED <<pc, reported, late, turnVars>>
    BY <2>2, StaysReport
  <2> QED BY <1>3, <2>1, <2>2 DEF DrainResult, Finishes
<1>4. CASE Request
  <2>1. CASE Finishes
    BY <1>4, <2>1, EndsReport DEF Request, Outside
  <2>2. CASE Goes("streaming")
    BY <1>4, <2>2, MovesReport DEF Request, Goes, Outside
  <2> QED BY <1>4, <2>1, <2>2 DEF Request, Finishes
<1>5. CASE Reply
  <2>1. CASE Finishes
    BY <1>5, <2>1, EndsReport DEF Reply, Outside
  <2>2. CASE \E n \in 0..MaxBatch : Goes(IF n = 0 THEN "replied" ELSE "calling")
    BY <1>5, <2>2, MovesReport DEF Reply, Goes, Outside
  <2> QED BY <1>5, <2>1, <2>2 DEF Reply, Finishes
<1>6. CASE ReplyCut
  BY <1>6, EndsReport DEF ReplyCut, Finishes, Outside
<1>7. CASE ContextTooLong
  <2>1. CASE Finishes
    BY <1>7, <2>1, EndsReport DEF ContextTooLong, Outside
  <2>2. CASE Goes("draining")
    BY <1>7, <2>2, MovesReport DEF ContextTooLong, Goes, Outside
  <2>3. CASE recovered' = TRUE /\ iteration = MaxIterations /\ Goes("ended") /\ UNCHANGED iteration
    <3>1. pc' = "ended" /\ reported' = 0 /\ late' = FALSE
      BY <1>7, <2>3 DEF ContextTooLong, ReportInv, Goes, Outside
    <3>2. SilentEnd'
      BY <2>3 DEF SilentEnd
    <3> QED BY <3>1, <3>2 DEF ReportInv, ReportsOnce, Outside
  <2> QED BY <1>7, <2>1, <2>2, <2>3 DEF ContextTooLong, Finishes
<1>8. CASE CommitCall
  <2>1. CASE Finishes
    BY <1>8, <2>1, EndsReport DEF CommitCall, Outside
  <2>2. CASE Advance("calling", "executing")
    BY <1>8, <2>2, AdvanceReport DEF CommitCall, Outside
  <2> QED BY <1>8, <2>1, <2>2 DEF CommitCall, Finishes
<1>9. CASE (\E c \in Calls : Execute(c)) \/ ToolsDone \/ Suspend \/ Answer
  BY <1>9, MovesReport DEF Execute, ToolsDone, Suspend, Answer, Goes, Outside
<1>10. CASE CommitResult
  <2>1. CASE Finishes
    BY <1>10, <2>1, EndsReport DEF CommitResult, Outside
  <2>2. CASE Advance("resulting", "replied")
    BY <1>10, <2>2, AdvanceReport DEF CommitResult, Outside
  <2> QED BY <1>10, <2>1, <2>2 DEF CommitResult, Finishes
<1>11. CASE EndIteration
  <2>1. CASE Finishes
    BY <1>11, <2>1, EndsReport DEF EndIteration, Outside
  <2>2. CASE NextIteration
    BY <1>11, <2>2, MovesReport DEF EndIteration, NextIteration, Goes, Outside
  <2> QED BY <1>11, <2>1, <2>2 DEF EndIteration, Finishes
<1>12. CASE Abort
  <2>1. CASE Finishes
    BY <1>12, <2>1, EndsReport DEF Abort, Outside
  <2>2. CASE Advance("aborting", "aborting")
    BY <1>12, <2>2, AdvanceReport DEF Abort, Outside
  <2> QED BY <1>12, <2>1, <2>2 DEF Abort, Finishes
<1>13. CASE Repair
  <2>1. CASE pc = "resuming" /\ Finishes
    BY <2>1, EndsReport DEF Outside
  <2>2. CASE pc # "resuming" /\ Goes("idle") /\ UNCHANGED turnVars
    <3>1. /\ pc = "booting" /\ pc' = "idle" /\ reported' = 1 /\ late' = FALSE
          /\ recovered' = FALSE
      BY <1>13, <2>2 DEF Repair, ReportInv, Goes, turnVars
    <3> QED BY <3>1, IdleReport DEF SilentEnd
  <2>3. CASE UNCHANGED <<pc, turnVars, reported, late>>
    BY <2>3, StaysReport
  <2>4. CASE Gone
    BY <2>4 DEF Gone, ReportInv, ReportsOnce, Outside
  <2> QED BY <1>13, <2>1, <2>2, <2>3, <2>4 DEF Repair, Repaired, Finishes
<1>14. CASE Interrupt
  <2>1. pc \notin Outside
    BY <1>14 DEF Interrupt, Outside
  <2>2. CASE Finishes
    BY <2>1, <2>2, EndsReport DEF Outside
  <2>3. CASE Goes("aborting")
    BY <2>1, <2>3, MovesReport DEF Goes, Outside
  <2> QED BY <1>14, <2>2, <2>3 DEF Interrupt, Finishes
<1>15. CASE Close
  BY <1>15, EndsReport DEF Close, Finishes, Outside
<1>16. CASE Compact \/ \E s \in Session : NewSession(s) \/ DeleteSession(s)
  BY <1>16, StaysReport DEF Compact, NewSession, DeleteSession
<1>17. CASE \E s \in Session : ResumeSession(s)
  BY <1>17 DEF ResumeSession, ReportInv, ReportsOnce, Outside
<1>18. CASE Boot
  <2>1. /\ pc' \in {"booting", "idle"} /\ reported' = 1 /\ late' = FALSE
        /\ recovered' = FALSE
    BY <1>18 DEF Boot, ReportInv, turnVars
  <2>2. CASE pc' = "idle"
    BY <2>1, <2>2, IdleReport DEF SilentEnd
  <2>3. CASE pc' = "booting"
    BY <2>1, <2>3 DEF ReportInv, ReportsOnce, Outside
  <2> QED BY <2>1, <2>2, <2>3
<1>19. CASE Crash
  BY <1>19 DEF Crash, Gone, ReportInv, ReportsOnce, Outside
<1>22. CASE Leave
  <2>1. /\ pc' = "idle" /\ late' = FALSE /\ reported' = (IF SilentEnd THEN 0 ELSE 1)
        /\ recovered' = recovered /\ iteration' = iteration
    BY <1>22 DEF Leave, Goes, ReportInv, turnVars
  <2> QED BY <2>1, IdleReport DEF SilentEnd
<1>23. CASE LateInterrupt
  <2>1. /\ pc' = "idle" /\ late' = TRUE
        /\ reported = (IF SilentEnd THEN 0 ELSE 1) /\ reported' = reported + 1
        /\ recovered' = recovered /\ iteration' = iteration
    BY <1>23 DEF LateInterrupt, ReportInv, turnVars
  <2>2. reported' = (IF SilentEnd' THEN 0 ELSE 1) + (IF late' THEN 1 ELSE 0)
    BY <2>1 DEF SilentEnd
  <2> QED BY <2>1, <2>2 DEF ReportInv, ReportsOnce, Outside
<1>20. CASE UNCHANGED vars
  BY <1>20, StaysReport DEF vars
<1>21. CASE TurnStep
  BY <1>2, <1>4, <1>5, <1>6, <1>7, <1>8, <1>9, <1>10, <1>11, <1>12, <1>13, <1>21, <1>22 DEF TurnStep
<1> QED
  BY <1>1, <1>3, <1>9, <1>14, <1>15, <1>16, <1>17, <1>18, <1>19, <1>20, <1>21, <1>23
     DEF Next, Exhausted

-----------------------------------------------------------------------------
(* What a step does to the files and to the context                         *)

LEMMA ThisCall ==
  ASSUME TurnInv, pc \in {"calling", "resulting", "aborting"}
  PROVE  /\ done + 1 \in DOMAIN calls /\ calls[done + 1] \in Calls
         /\ calls[done + 1] \in ToSet(calls)
         /\ CallOf(calls[done + 1]) \in Message /\ ResultOf(calls[done + 1]) \in Message
<1>1. done + 1 \in DOMAIN calls /\ calls[done + 1] \in Calls
  BY DEF TurnInv
<1> QED BY <1>1, MessageTypes DEF ToSet

\* The call that is repaired next.
LEMMA FirstPending ==
  ASSUME context \in Seq(Message), Pending(context) # {}
  PROVE  LET c == context[Min(Pending(context))].id IN
         /\ c \in Calls /\ ResultOf(c) \in Message /\ ~Has(context, ResultOf(c))
         /\ \E i \in DOMAIN context : context[i].type = "call" /\ context[i].id = c
<1> DEFINE p == Min(Pending(context))
<1>1. Pending(context) \subseteq Nat
  BY DEF Pending
<1>2. \E i \in Pending(context) : \A j \in Pending(context) : ~(j < i)
  BY <1>1, LeastElement
<1>3. \E i \in Pending(context) : \A j \in Pending(context) : i =< j
  BY <1>1, <1>2
<1>4. p \in Pending(context)
  BY <1>3, Zenon DEF Min
<1> HIDE DEF p
<1>5. p \in DOMAIN context /\ context[p].type = "call" /\ ~Has(context, ResultOf(context[p].id))
  BY <1>4 DEF Pending
<1>6. context[p].id \in Calls
  BY <1>5, MessageIds
<1> QED BY <1>5, <1>6, MessageTypes DEF p

Extent == {"none", "torn", "whole"}

\* The record l is appended, or the attempt fails.
Appends(l) == (Committed(l) \/ CommitFails(l)) /\ current' = current

\* The process is gone, perhaps amid the append of a record.
Lost ==
  /\ Gone /\ saved' = saved
  /\ \E l \in Message, e \in Extent :
       /\ log' = [log EXCEPT ![current] = Written(@, l, e)]
       /\ e # "none" => current \in saved
       /\ e = "whole" => "unsynced" \in Faults

Awake == pc # "down" /\ pc' # "down"

\* Every step is one of these.
LEMMA StoreSteps ==
  ASSUME TurnInv, context \in Seq(Message), log \in [Session -> Seq(Line)], [Next]_vars
  PROVE  \/ UNCHANGED <<disk, context, current>> /\ (Awake \/ pc' = pc)
         \/ \E l \in Message : Appends(l) /\ Awake
         \/ (Compacted \/ CompactionFails) /\ current' = current /\ Awake
         \/ \E s \in Session : NewSession(s) \/ ResumeSession(s) \/ DeleteSession(s)
         \/ Boot
         \/ Lost /\ pc # "down"
<1> DEFINE Quiet == UNCHANGED <<disk, context, current>> /\ (Awake \/ pc' = pc)
           Writes == \E l \in Message : Appends(l) /\ Awake
           Cuts == (Compacted \/ CompactionFails) /\ current' = current /\ Awake
           Leaves == Lost /\ pc # "down"
<1>1. CASE \/ StartTurn \/ ToolsDone \/ Suspend \/ Answer \/ (\E c \in Calls : Execute(c))
           \/ Leave \/ LateInterrupt
  BY <1>1 DEF StartTurn, ToolsDone, Suspend, Answer, Execute, Leave, LateInterrupt, Goes, Awake
<1>2. CASE Interrupt \/ Close
  <2>1. pc # "down" /\ pc' # "down"
    <3>1. Finishes \/ Goes("aborting")
      BY <1>2 DEF Interrupt, Close, Finishes
    <3>2. pc' # "down"
      BY <3>1 DEF Finishes, Ends, Reports, Over, Goes
    <3> QED BY <1>2, <3>2 DEF Interrupt, Close
  <2> QED BY <1>2, <2>1 DEF Interrupt, Close, Awake
<1>3. CASE UserTurn \/ DrainResult
  <2>1. pc # "down"
    BY <1>3 DEF UserTurn, DrainResult
  <2>2. pc' # "down"
    BY <1>3 DEF UserTurn, DrainResult, Finishes, Ends, Reports, Over
  <2>3. Appends(User)
    BY <1>3 DEF UserTurn, DrainResult, Appends
  <2> QED BY <2>1, <2>2, <2>3, MessageTypes DEF Awake
<1>4. CASE Request
  <2>1. pc # "down" /\ pc' # "down" /\ current' = current
    BY <1>4 DEF Request, Finishes, Ends, Reports, Over, Goes
  <2> QED BY <1>4, <2>1 DEF Request, Awake
<1>5. CASE Reply \/ ReplyCut
  <2>1. pc # "down"
    BY <1>5 DEF Reply, ReplyCut
  <2>2. pc' # "down"
    BY <1>5 DEF Reply, ReplyCut, Finishes, Ends, Reports, Over, Goes
  <2>3. Appends(Assistant)
    BY <1>5 DEF Reply, ReplyCut, Appends
  <2> QED BY <2>1, <2>2, <2>3, MessageTypes DEF Awake
<1>6. CASE ContextTooLong
  <2>1. pc # "down" /\ pc' # "down" /\ current' = current
    BY <1>6 DEF ContextTooLong, Finishes, Ends, Reports, Over, Goes
  <2>2. Compacted \/ CompactionFails \/ UNCHANGED <<disk, context>>
    BY <1>6 DEF ContextTooLong
  <2> QED BY <2>1, <2>2 DEF Awake
<1>7. CASE CommitCall
  <2>1. pc = "calling" /\ pc' # "down"
    BY <1>7 DEF CommitCall, Finishes, Ends, Reports, Over, Advance, Goes
  <2>2. Appends(CallOf(calls[done + 1]))
    BY <1>7 DEF CommitCall, Appends
  <2> QED BY <2>1, <2>2, ThisCall DEF Awake
<1>8. CASE CommitResult \/ Abort
  <2>1. pc \in {"resulting", "aborting"} /\ pc' # "down"
    BY <1>8 DEF CommitResult, Abort, Finishes, Ends, Reports, Over, Advance, Goes
  <2>2. Appends(ResultOf(calls[done + 1]))
    BY <1>8 DEF CommitResult, Abort, Appends
  <2> QED BY <2>1, <2>2, ThisCall DEF Awake
<1>9. CASE EndIteration
  <2>1. pc # "down" /\ pc' # "down" /\ current' = current
    BY <1>9 DEF EndIteration, NextIteration, Finishes, Ends, Reports, Over, Goes
  <2>2. Committed(User) \/ CommitFails(User) \/ UNCHANGED <<disk, context>>
    BY <1>9 DEF EndIteration
  <2> QED BY <2>1, <2>2, MessageTypes DEF Awake, Appends
<1>10. CASE Repair
  <2>0. pc # "down"
    BY <1>10 DEF Repair
  <2>1. CASE Pending(context) = {}
    <3>1. Repaired /\ UNCHANGED <<disk, current, context>>
      BY <1>10, <2>1 DEF Repair
    <3>2. pc' # "down"
      BY <3>1 DEF Repaired, Finishes, Ends, Reports, Over, Goes
    <3> QED BY <2>0, <3>1, <3>2 DEF Awake
  <2>2. CASE Pending(context) # {}
    <3> DEFINE l == ResultOf(context[Min(Pending(context))].id)
    <3>1. l \in Message
      BY <2>2, FirstPending
    <3>2. \/ Committed(l) /\ pc' = pc /\ current' = current
          \/ CommitFails(l) /\ Finishes /\ current' = current
          \/ /\ Gone /\ saved' = saved
             /\ \E e \in Extents : log' = [log EXCEPT ![current] = Written(@, l, e)]
      BY <1>10, <2>2 DEF Repair, Finishes
    <3> HIDE DEF l
    <3>3. CASE Committed(l) /\ pc' = pc /\ current' = current
      BY <2>0, <3>1, <3>3 DEF Appends, Awake
    <3>4. CASE CommitFails(l) /\ Finishes /\ current' = current
      BY <2>0, <3>1, <3>4 DEF Appends, Awake, Finishes, Ends, Reports, Over
    <3>5. ASSUME Gone, saved' = saved, NEW e \in Extents,
                 log' = [log EXCEPT ![current] = Written(@, l, e)]
          PROVE  Leaves
      <4>1. e \in Extent /\ (e # "none" => current \in saved)
            /\ (e = "whole" => "unsynced" \in Faults)
        BY DEF Extents, Extent
      <4> QED BY <2>0, <3>1, <3>5, <4>1 DEF Lost
    <3> QED BY <3>2, <3>3, <3>4, <3>5
  <2> QED BY <2>1, <2>2
<1>11. CASE Compact
  BY <1>11 DEF Compact, Awake
<1>12. CASE Crash
  <2>1. Gone /\ saved' = saved /\ pc # "down"
    BY <1>12 DEF Crash
  <2>2. CASE log' = log
    <3>1. log' = [log EXCEPT ![current] = Written(@, User, "none")]
      <4>1. Written(log[current], User, "none") = log[current]
        BY DEF Written
      <4> QED BY <2>2, <4>1
    <3> QED BY <2>1, <3>1, MessageTypes DEF Lost, Extent
  <2>3. CASE current \in saved /\ log' = [log EXCEPT ![current] = Written(@, User, "torn")]
    BY <2>1, <2>3, MessageTypes DEF Lost, Extent
  <2> QED BY <1>12, <2>2, <2>3 DEF Crash
<1>13. CASE UNCHANGED vars
  BY <1>13 DEF vars
<1>14. CASE TurnStep
  BY <1>1, <1>3, <1>4, <1>5, <1>6, <1>7, <1>8, <1>9, <1>10, <1>14 DEF TurnStep
<1> QED BY <1>1, <1>2, <1>3, <1>11, <1>12, <1>13, <1>14 DEF Next, Exhausted

-----------------------------------------------------------------------------
(* The files                                                                *)

StoreInv ==
  /\ saved \subseteq Session /\ log \in [Session -> Seq(Line)]
  /\ current \in Session \union {None}
  /\ \A s \in Session : s \notin saved => log[s] = <<>>
  /\ (current = None) <=> (pc = "down")
  /\ pc = "down" => context = <<>>

\* An append to the current log changes no other one. What is valid afterwards
\* was so before, and yields the same context or one line more.
LEMMA LogAfter ==
  ASSUME StoreInv, NEW l \in Line, NEW e \in Extent, e # "none" => current \in saved,
         log' = [log EXCEPT ![current] = Written(@, l, e)]
  PROVE  /\ log' \in [Session -> Seq(Line)]
         /\ \A s \in Session : s \notin saved => log'[s] = <<>>
         /\ \A s \in Session : s # current => log'[s] = log[s]
         /\ \A s \in Session : Valid(log'[s]) =>
              /\ Valid(log[s])
              /\ \/ Replay(log'[s]) = Replay(log[s]) /\ (s = current => e = "none")
                 \/ s = current /\ e = "whole" /\ Replay(log'[s]) = After(Replay(log[s]), l)
<1>1. current \in Session => Written(log[current], l, e) \in Seq(Line)
  BY WrittenType DEF StoreInv, Extent
<1>2. log' \in [Session -> Seq(Line)]
  BY <1>1 DEF StoreInv
<1>3. \A s \in Session :
        log'[s] = IF s = current THEN Written(log[s], l, e) ELSE log[s]
  BY DEF StoreInv
<1>4. \A s \in Session : s \notin saved => log'[s] = <<>>
  <2> SUFFICES ASSUME NEW s \in Session, s \notin saved PROVE log'[s] = <<>>
    OBVIOUS
  <2>1. log[s] = <<>>
    BY DEF StoreInv
  <2>2. s = current => e = "none"
    OBVIOUS
  <2>3. e = "none" => Written(log[s], l, e) = log[s]
    BY DEF Written
  <2> QED BY <1>3, <2>1, <2>2, <2>3
<1>5. ASSUME NEW s \in Session, Valid(log'[s])
      PROVE  /\ Valid(log[s])
             /\ \/ Replay(log'[s]) = Replay(log[s]) /\ (s = current => e = "none")
                \/ s = current /\ e = "whole" /\ Replay(log'[s]) = After(Replay(log[s]), l)
  <2>1. CASE s # current
    BY <1>3, <1>5, <2>1
  <2>2. CASE s = current
    <3>1. log'[s] = Written(log[s], l, e) /\ log[s] \in Seq(Line)
      BY <1>3, <2>2 DEF StoreInv
    <3>2. Valid(Written(log[s], l, e))
      BY <1>5, <3>1
    <3> QED BY <2>2, <3>1, <3>2, WrittenValid DEF Extent
  <2> QED BY <2>1, <2>2
<1> QED BY <1>2, <1>3, <1>4, <1>5

\* The line that a commit appends, whatever comes of it.
LEMMA CommitWrites ==
  ASSUME NEW l, Committed(l) \/ CommitFails(l)
  PROVE  /\ saved' = saved
         /\ \E e \in Extent :
              /\ log' = [log EXCEPT ![current] = Written(@, l, e)]
              /\ e # "none" => current \in saved
<1>1. CASE Committed(l)
  BY <1>1 DEF Committed, Extent
<1>2. CASE CommitFails(l)
  BY <1>2 DEF CommitFails, Extents, Extent
<1> QED BY <1>1, <1>2

\* The cutoffs are numbers of messages that are there.
LEMMA CutoffIs ==
  ASSUME NEW ms \in Seq(Message), NEW n \in Cutoffs(ms)
  PROVE  /\ n \in Nat /\ n < Len(ms) /\ n + 1 \in DOMAIN ms /\ ms[n + 1].type = "user"
         /\ IdsOf(SubSeq(ms, 1, n), "call") = IdsOf(SubSeq(ms, 1, n), "result")
<1> PICK i \in 2..Len(ms) :
      /\ n = i - 1 /\ ms[i].type = "user"
      /\ IdsOf(SubSeq(ms, 1, i - 1), "call") = IdsOf(SubSeq(ms, 1, i - 1), "result")
  BY DEF Cutoffs
<1>1. n \in Nat /\ n < Len(ms) /\ n + 1 = i /\ i \in DOMAIN ms
  OBVIOUS
<1> QED BY <1>1

LEMMA CompactionWrites ==
  ASSUME context \in Seq(Message), StoreInv, Compacted \/ CompactionFails
  PROVE  /\ saved' = saved
         /\ \E n \in Cutoffs(context), e \in Extent :
              /\ n \in Nat /\ n < Len(context)
              /\ log' = [log EXCEPT ![current] = Written(@, Checkpoint(n), e)]
              /\ e # "none" => current \in saved
<1>1. \A n \in Cutoffs(context) : n \in Nat /\ n < Len(context)
  BY CutoffIs
<1>2. CASE Compacted
  BY <1>1, <1>2 DEF Compacted, Extent
<1>3. CASE CompactionFails
  <2> PICK n \in Cutoffs(context) : UNCHANGED disk \/ CommitFails(Checkpoint(n))
    BY <1>3 DEF CompactionFails
  <2>1. CASE UNCHANGED disk
    <3>1. Written(log[current], Checkpoint(n), "none") = log[current]
      BY DEF Written
    <3>2. log' = [log EXCEPT ![current] = Written(@, Checkpoint(n), "none")] /\ saved' = saved
      BY <2>1, <3>1 DEF StoreInv, disk
    <3> QED BY <1>1, <3>2 DEF Extent
  <2>2. CASE CommitFails(Checkpoint(n))
    BY <1>1, <2>2, CommitWrites
  <2> QED BY <2>1, <2>2
<1> QED BY <1>2, <1>3

LEMMA StoreInvStep ==
  ASSUME TurnInv, StoreInv, context \in Seq(Message), [Next]_vars
  PROVE  StoreInv'
<1>0. log \in [Session -> Seq(Line)] /\ saved \subseteq Session
  BY DEF StoreInv
<1>1. CASE UNCHANGED <<disk, context, current>> /\ (Awake \/ pc' = pc)
  BY <1>1 DEF StoreInv, Awake, disk
<1>2. ASSUME NEW l \in Message, Appends(l), Awake PROVE StoreInv'
  <2>1. current' = current /\ l \in Line
    BY <1>2, MessageTypes DEF Appends
  <2> PICK e \in Extent : /\ log' = [log EXCEPT ![current] = Written(@, l, e)]
                          /\ e # "none" => current \in saved
    BY <1>2, CommitWrites DEF Appends
  <2>2. saved' = saved
    BY <1>2, CommitWrites DEF Appends
  <2> QED BY <1>2, <2>1, <2>2, LogAfter DEF StoreInv, Awake
<1>3. CASE (Compacted \/ CompactionFails) /\ current' = current /\ Awake
  <2> PICK n \in Cutoffs(context), e \in Extent :
           /\ n \in Nat /\ log' = [log EXCEPT ![current] = Written(@, Checkpoint(n), e)]
           /\ e # "none" => current \in saved
    BY <1>3, CompactionWrites
  <2>1. saved' = saved /\ Checkpoint(n) \in Line
    BY <1>3, CompactionWrites, MessageTypes
  <2> QED BY <1>3, <2>1, LogAfter DEF StoreInv, Awake
<1>4. ASSUME NEW s \in Session, NewSession(s) PROVE StoreInv'
  BY <1>4, NoneAssumption DEF NewSession, CreateIn, StoreInv
<1>5. ASSUME NEW s \in Session, ResumeSession(s) PROVE StoreInv'
  BY <1>5, NoneAssumption DEF ResumeSession, Resume, StoreInv, disk
<1>6. ASSUME NEW s \in Session, DeleteSession(s) PROVE StoreInv'
  <2>1. pc = "idle" /\ pc' = pc
    BY <1>6 DEF DeleteSession
  <2>2. CASE /\ saved' = saved \ {s} /\ log' = [log EXCEPT ![s] = <<>>]
             /\ UNCHANGED <<current, context, scarred>>
    BY <1>0, <2>1, <2>2 DEF StoreInv
  <2>3. ASSUME NEW t \in Session, s = current, CreateIn(t), saved' = (saved \ {s}) \union {t},
               log' = [log EXCEPT ![s] = <<>>, ![t] = <<>>]
        PROVE  StoreInv'
    <3>1. log' \in [Session -> Seq(Line)]
      <4> DEFINE mid == [log EXCEPT ![s] = <<>>]
      <4>1. mid \in [Session -> Seq(Line)] /\ <<>> \in Seq(Line)
        BY <1>0
      <4>2. log' = [mid EXCEPT ![t] = <<>>]
        BY <2>3, Zenon
      <4> HIDE DEF mid
      <4> QED BY <4>1, <4>2
    <3>2. \A r \in Session : r \notin saved' => log'[r] = <<>>
      BY <1>0, <2>3 DEF StoreInv
    <3>3. current' = t /\ t # None
      BY <2>3, NoneAssumption DEF CreateIn
    <3> QED BY <1>0, <2>1, <2>3, <3>1, <3>2, <3>3 DEF StoreInv
  <2> QED BY <1>6, <2>2, <2>3 DEF DeleteSession
<1>7. CASE Boot
  <2>1. /\ saved' \subseteq Session /\ log' \in [Session -> Seq(Line)]
        /\ \A s \in Session : s \notin saved' => log'[s] = <<>>
    <3>1. PICK old \in SUBSET {s \in saved : Valid(log[s])} :
              /\ log' = [s \in Session |-> IF s \in old THEN <<>> ELSE log[s]]
              /\ \/ saved' = saved \ old
                 \/ \E s \in Session \ saved : saved' = (saved \ old) \union {s}
      BY <1>7, Zenon DEF Boot
    <3>2. \A s \in Session : log[s] \in Seq(Line) /\ <<>> \in Seq(Line)
      BY <1>0
    <3>3. log' \in [Session -> Seq(Line)]
      BY <3>1, <3>2
    <3>4. \A s \in Session : s \notin saved' => log'[s] = <<>>
      BY <3>1 DEF StoreInv
    <3> QED BY <1>0, <3>1, <3>3, <3>4
  <2>2. current' \in Session /\ pc' # "down"
    BY <1>0, <1>7 DEF Boot, Resume
  <2> QED BY <2>1, <2>2, NoneAssumption DEF StoreInv
<1>8. CASE Lost /\ pc # "down"
  <2> PICK l \in Message, e \in Extent : /\ log' = [log EXCEPT ![current] = Written(@, l, e)]
                                         /\ e # "none" => current \in saved
    BY <1>8 DEF Lost
  <2>1. l \in Line
    BY MessageTypes
  <2> QED BY <1>8, <2>1, LogAfter DEF StoreInv, Lost, Gone
<1> QED BY <1>0, <1>1, <1>2, <1>3, <1>4, <1>5, <1>6, <1>7, <1>8, StoreSteps

-----------------------------------------------------------------------------
(* Calls are on record before their tools run                               *)

\* The calls of the batch that are on record: while they are committed, those
\* dealt with, and nothing stands between the next one and the file; all of them
\* when tools run; and whatever has run.
LoggedInv ==
  /\ pc = "calling" =>
       /\ ~EndsPartial(log[current]) /\ executed = {}
       /\ \A i \in 1..done : Has(log[current], CallOf(calls[i]))
  /\ pc \in {"executing", "suspended"} =>
       \A i \in DOMAIN calls : Has(log[current], CallOf(calls[i]))
  /\ \A c \in executed : Has(log[current], CallOf(c))

\* A step that is not about sessions leaves every record in the current log.
LEMMA RecordsStay ==
  ASSUME StoreInv, context \in Seq(Message), pc # "down", current' = current,
         \/ UNCHANGED disk
         \/ \E l \in Message : Committed(l) \/ CommitFails(l)
         \/ Compacted \/ CompactionFails,
         NEW m, m # Partial, Has(log[current], m)
  PROVE  Has(log'[current'], m)
<1>1. current \in Session /\ log[current] \in Seq(Line)
  BY DEF StoreInv
<1>2. ASSUME NEW l \in Line, NEW e \in Extent, log' = [log EXCEPT ![current] = Written(@, l, e)]
      PROVE  Has(log'[current'], m)
  <2>1. log'[current'] = Written(log[current], l, e)
    BY <1>1, <1>2 DEF StoreInv
  <2>2. Has(Written(log[current], l, e), m)
    BY <1>1, WrittenKeeps DEF Extent
  <2> QED BY <2>1, <2>2
<1>3. CASE UNCHANGED disk
  BY <1>3 DEF disk
<1>4. ASSUME NEW l \in Message, Committed(l) \/ CommitFails(l)
      PROVE  Has(log'[current'], m)
  BY <1>2, <1>4, CommitWrites, MessageTypes
<1>5. CASE Compacted \/ CompactionFails
  BY <1>2, <1>5, CompactionWrites, MessageTypes
<1> QED BY <1>3, <1>4, <1>5

LEMMA CallIsNotPartial == \A c : CallOf(c) # Partial
<1>1. \A c : CallOf(c).type = "call"
  BY DEF CallOf
<1>2. Partial.type = "partial"
  BY DEF Partial
<1> QED BY <1>1, <1>2

\* The record of a commit is what its log ends in, or the line it spoils.
LEMMA CommitLeaves ==
  ASSUME StoreInv, NEW l \in Message, Committed(l), current' = current
  PROVE  /\ ~EndsPartial(log'[current'])
         /\ ~EndsPartial(log[current]) => Has(log'[current'], l)
<1>1. current \in Session /\ log[current] \in Seq(Line)
  BY DEF StoreInv, Committed
<1>2. log'[current'] = Written(log[current], l, "whole")
  BY <1>1 DEF StoreInv, Committed
<1>3. l \in Line
  BY MessageTypes
<1> QED BY <1>1, <1>2, <1>3, WholeIsNotPartial, WrittenHas

LEMMA NothingToLog ==
  ASSUME executed' = {}, pc' \notin {"calling", "executing", "suspended"}
  PROVE  LoggedInv'
BY DEF LoggedInv

LEMMA StartsToLog ==
  ASSUME StoreInv, NEW l \in Message, Committed(l), current' = current,
         executed' = {}, done' = 0, pc' \in {"calling", "replied"}
  PROVE  LoggedInv'
<1>1. ~EndsPartial(log'[current'])
  BY CommitLeaves
<1>2. 1..done' = {}
  OBVIOUS
<1> QED BY <1>1, <1>2 DEF LoggedInv

LEMMA LoggedInvStep ==
  ASSUME TurnInv, StoreInv, context \in Seq(Message), LoggedInv, [Next]_vars
  PROVE  LoggedInv'
<1> DEFINE Keeps == \A m : m # Partial /\ Has(log[current], m) => Has(log'[current'], m)
<1>0. ASSUME pc # "down", current' = current,
             \/ UNCHANGED disk
             \/ \E l \in Message : Committed(l) \/ CommitFails(l)
             \/ Compacted \/ CompactionFails
      PROVE  Keeps
  BY <1>0, RecordsStay
<1>a. pc \notin InBatch \union {"replied"} => executed = {}
  BY DEF TurnInv, ToSet
<1>b. ASSUME Finishes PROVE LoggedInv'
  BY <1>b, NothingToLog DEF Finishes, Ends, Reports, Over, NoBatch
<1> HIDE DEF Keeps
<1>1. CASE StartTurn
  BY <1>1, NothingToLog DEF StartTurn, NoBatch
<1>2. CASE UserTurn
  <2>1. CASE Finishes
    BY <1>b, <2>1
  <2>2. CASE NoBatch /\ pc' = "draining"
    BY <2>2, NothingToLog DEF NoBatch
  <2>3. CASE Committed(User) /\ pc' = "calling" /\ \E n \in 1..MaxBatch : NewBatch(n)
    BY <1>2, <2>3, StartsToLog, MessageTypes DEF NewBatch, UserTurn
  <2> QED BY <1>2, <2>1, <2>2, <2>3 DEF UserTurn, Finishes
<1>3. CASE DrainResult
  <2>1. CASE Finishes
    BY <1>b, <2>1
  <2>2. CASE UNCHANGED <<pc, reported, late, turnVars>>
    BY <1>3, <1>a, <2>2, NothingToLog DEF DrainResult, turnVars, batchVars, InBatch
  <2> QED BY <1>3, <2>1, <2>2 DEF DrainResult, Finishes
<1>4. CASE Request
  <2>1. CASE Finishes
    BY <1>b, <2>1
  <2>2. CASE Goes("streaming") /\ UNCHANGED turnVars
    BY <1>4, <1>a, <2>2, NothingToLog DEF Request, turnVars, batchVars, InBatch, Goes
  <2> QED BY <1>4, <2>1, <2>2 DEF Request, Finishes
<1>5. CASE Reply
  <2>1. CASE Finishes
    BY <1>b, <2>1
  <2>2. CASE Committed(Assistant) /\ \E n \in 0..MaxBatch :
               NewBatch(n) /\ Goes(IF n = 0 THEN "replied" ELSE "calling")
    BY <1>5, <2>2, StartsToLog, MessageTypes DEF NewBatch, Reply, Goes
  <2> QED BY <1>5, <2>1, <2>2 DEF Reply, Finishes
<1>6. CASE ReplyCut \/ Close
  BY <1>6, <1>b DEF ReplyCut, Close, Finishes
<1>7. CASE ContextTooLong
  <2>1. CASE Finishes
    BY <1>b, <2>1
  <2>2. CASE NoBatch /\ (Goes("ended") \/ Goes("draining"))
    BY <2>2, NothingToLog DEF NoBatch, Goes
  <2> QED BY <1>7, <2>1, <2>2 DEF ContextTooLong, Finishes
<1>8. CASE CommitCall
  <2>1. CASE Finishes
    BY <1>b, <2>1
  <2>2. CASE Committed(CallOf(calls[done + 1])) /\ Advance("calling", "executing")
    <3>1. /\ pc = "calling" /\ current' = current /\ CallOf(calls[done + 1]) \in Message
          /\ done + 1 \in DOMAIN calls /\ done \in Nat /\ DOMAIN calls = 1..Len(calls)
      BY <1>8, ThisCall DEF CommitCall, TurnInv
    <3>2. /\ ~EndsPartial(log'[current'])
          /\ Has(log'[current'], CallOf(calls[done + 1]))
      BY <2>2, <3>1, CommitLeaves DEF LoggedInv
    <3>3. Keeps
      BY <1>0, <2>2, <3>1
    <3>4. \A i \in 1..(done + 1) : Has(log'[current'], CallOf(calls[i]))
      <4> SUFFICES ASSUME NEW i \in 1..(done + 1) PROVE Has(log'[current'], CallOf(calls[i]))
        OBVIOUS
      <4>1. CASE i = done + 1
        BY <3>2, <4>1
      <4>2. CASE i \in 1..done
        BY <3>1, <3>3, <4>2, CallIsNotPartial DEF LoggedInv, Keeps
      <4> QED BY <3>1, <4>1, <4>2
    <3>5. calls' = calls /\ executed' = executed /\ executed = {}
      <4>1. executed = {}
        BY <3>1 DEF LoggedInv
      <4>2. calls' = calls /\ executed' = executed
        BY <2>2 DEF Advance
      <4> QED BY <4>1, <4>2
    <3>6. CASE done + 1 = Len(calls)
      <4>1. pc' = "executing"
        BY <2>2, <3>6 DEF Advance, Goes
      <4> QED BY <3>1, <3>4, <3>5, <3>6, <4>1 DEF LoggedInv
    <3>7. CASE done + 1 # Len(calls)
      <4>1. pc' = "calling" /\ done' = done + 1
        BY <2>2, <3>7 DEF Advance, Goes
      <4> QED BY <3>2, <3>4, <3>5, <4>1 DEF LoggedInv
    <3> QED BY <3>6, <3>7
  <2> QED BY <1>8, <2>1, <2>2 DEF CommitCall, Finishes
<1>9. ASSUME NEW c \in Calls, Execute(c) PROVE LoggedInv'
  <2>1. /\ pc = "executing" /\ pc' = pc /\ log' = log /\ current' = current /\ calls' = calls
        /\ executed' = executed \union {c} /\ c \in ToSet(calls)
    BY <1>9 DEF Execute, disk
  <2>2. Has(log[current], CallOf(c))
    BY <2>1 DEF LoggedInv, ToSet
  <2> QED BY <2>1, <2>2 DEF LoggedInv
<1>10. CASE ToolsDone \/ Suspend \/ Answer
  <2>1. /\ pc \in {"executing", "suspended"} /\ pc' \in {"executing", "suspended", "resulting"}
        /\ log' = log /\ current' = current /\ calls' = calls /\ executed' = executed
    BY <1>10 DEF ToolsDone, Suspend, Answer, Goes, disk, turnVars, batchVars
  <2> QED BY <2>1 DEF LoggedInv
<1>11. CASE CommitResult \/ Abort
  <2>1. CASE Finishes
    BY <1>b, <2>1
  <2>2. CASE /\ Committed(ResultOf(calls[done + 1]))
             /\ Advance("resulting", "replied") \/ Advance("aborting", "aborting")
    <3>1. /\ pc \in {"resulting", "aborting"} /\ current' = current
          /\ ResultOf(calls[done + 1]) \in Message
      BY <1>11, ThisCall DEF CommitResult, Abort
    <3>2. Keeps
      BY <1>0, <2>2, <3>1
    <3>3. executed' = executed /\ pc' \in {"resulting", "replied", "aborting"}
      BY <2>2 DEF Advance, Goes
    <3> QED BY <3>2, <3>3, CallIsNotPartial DEF LoggedInv, Keeps
  <2> QED BY <1>11, <2>1, <2>2 DEF CommitResult, Abort, Finishes
<1>12. CASE EndIteration
  <2>1. CASE Finishes
    BY <1>b, <2>1
  <2>2. CASE NextIteration
    BY <2>2, NothingToLog DEF NextIteration, NoBatch, Goes
  <2> QED BY <1>12, <2>1, <2>2 DEF EndIteration, Finishes
<1>13. CASE Repair
  <2>0. pc \in {"booting", "resuming"} /\ executed = {}
    BY <1>13, <1>a DEF Repair, InBatch
  <2>1. CASE Finishes
    BY <1>b, <2>1
  <2>2. CASE (pc' = pc \/ pc' = "idle") /\ UNCHANGED turnVars
    BY <2>0, <2>2, NothingToLog DEF turnVars, batchVars
  <2>3. CASE Gone
    BY <2>3, NothingToLog DEF Gone, NoBatch
  <2> QED BY <1>13, <2>1, <2>2, <2>3 DEF Repair, Repaired, Goes, Finishes
<1>14. CASE Interrupt
  <2>1. CASE Finishes
    BY <1>b, <2>1
  <2>2. CASE Goes("aborting") /\ UNCHANGED <<iteration, recovered, calls, executed>>
    BY <1>14, <2>2 DEF Interrupt, Goes, LoggedInv, disk
  <2> QED BY <1>14, <2>1, <2>2 DEF Interrupt, Finishes
<1>15. CASE Compact \/ \E s \in Session : NewSession(s) \/ DeleteSession(s) \/ ResumeSession(s)
  <2>1. pc = "idle" /\ pc' \in {"idle", "resuming"} /\ UNCHANGED turnVars
    BY <1>15 DEF Compact, NewSession, DeleteSession, ResumeSession
  <2> QED BY <1>a, <2>1, NothingToLog DEF turnVars, batchVars, InBatch
<1>16. CASE Boot
  BY <1>16, <1>a, NothingToLog DEF Boot, turnVars, batchVars, InBatch
<1>17. CASE Crash
  BY <1>17, NothingToLog DEF Crash, Gone, NoBatch
<1>18. CASE UNCHANGED vars
  BY <1>18 DEF vars, disk, turnVars, batchVars, LoggedInv
<1>20. CASE Leave \/ LateInterrupt
  <2>1. pc = "ended" /\ pc' = "idle" /\ UNCHANGED turnVars
    BY <1>20 DEF Leave, LateInterrupt, Goes
  <2> QED BY <1>a, <2>1, NothingToLog DEF turnVars, batchVars, InBatch
<1>19. CASE TurnStep
  BY <1>2, <1>4, <1>5, <1>6, <1>7, <1>8, <1>9, <1>10, <1>11, <1>12, <1>13, <1>19, <1>20 DEF TurnStep
<1> QED
  BY <1>1, <1>3, <1>6, <1>10, <1>14, <1>15, <1>16, <1>17, <1>18, <1>19, <1>20 DEF Next, Exhausted

-----------------------------------------------------------------------------
(* Contexts stay well-formed                                                *)

\* The id below which the calls on record are.
Fresh == IF pc = "calling" THEN calls[done + 1] ELSE nextCall

\* The model's context, and what a restart would make of each log.
ContextInv ==
  /\ Sound(context, Fresh, nextCall, ToSet(calls))
  /\ \A s \in Session :
       Valid(log[s]) => Sound(Replay(log[s]), Fresh, nextCall, ToSet(calls))

\* The same of the next state, for the ids of this one.
LogsSound(g) ==
  \A s \in Session : Valid(log'[s]) => Sound(Replay(log'[s]), g, nextCall, ToSet(calls))
StillSound(g) == Sound(context', g, nextCall, ToSet(calls)) /\ LogsSound(g)

\* How the batch changes: not at all, as far as ids go; it is dropped; or there is
\* a new one.
LEMMA TurnShape ==
  ASSUME TurnInv, TurnInv', [Next]_vars
  PROVE  \/ /\ calls' = calls /\ nextCall' = nextCall
            /\ pc' = "calling" => pc = "calling" /\ done <= done'
         \/ calls' = <<>> /\ nextCall' = nextCall /\ pc' # "calling"
         \/ pc # "calling" /\ \E n \in Nat : NewBatch(n) /\ (pc' = "calling" => n > 0)
<1> DEFINE Same == /\ calls' = calls /\ nextCall' = nextCall
                   /\ pc' = "calling" => pc = "calling" /\ done <= done'
           Drop == calls' = <<>> /\ nextCall' = nextCall /\ pc' # "calling"
           New == pc # "calling" /\ \E n \in Nat : NewBatch(n) /\ (pc' = "calling" => n > 0)
<1>0. done \in Nat /\ \A n \in 0..MaxBatch : n \in Nat
  BY LimitsAssumption DEF TurnInv
<1>a. Finishes /\ nextCall' = nextCall => Drop
  BY DEF Finishes, Ends, Reports, Over, NoBatch
<1>1. CASE StartTurn \/ ReplyCut \/ Close \/ Crash
  BY <1>1, <1>a DEF StartTurn, ReplyCut, Close, Crash, Gone, NoBatch, Finishes
<1>2. CASE UserTurn
  BY <1>2, <1>0, <1>a DEF UserTurn, NoBatch, Finishes
<1>3. CASE DrainResult \/ Request
  BY <1>3, <1>a DEF DrainResult, Request, turnVars, batchVars, Goes, Finishes
<1>4. CASE Reply
  <2>1. CASE Finishes /\ nextCall' = nextCall
    BY <1>a, <2>1
  <2>2. ASSUME NEW n \in 0..MaxBatch, NewBatch(n), Goes(IF n = 0 THEN "replied" ELSE "calling")
        PROVE  New
    BY <1>4, <1>0, <2>2 DEF Reply, Goes
  <2> QED BY <1>4, <2>1, <2>2 DEF Reply, Finishes
<1>5. CASE ContextTooLong
  BY <1>5, <1>a DEF ContextTooLong, NoBatch, Goes, Finishes
<1>6. CASE CommitCall \/ CommitResult \/ Abort
  <2>1. CASE Finishes
    BY <1>6, <1>a, <2>1 DEF CommitCall, CommitResult, Abort
  <2>2. CASE Advance("calling", "executing") /\ pc = "calling"
    BY <1>0, <1>6, <2>2 DEF Advance, Goes, CommitCall, CommitResult, Abort
  <2>3. CASE Advance("resulting", "replied") \/ Advance("aborting", "aborting")
    BY <1>6, <2>3 DEF Advance, Goes, CommitCall, CommitResult, Abort
  <2> QED BY <1>6, <2>1, <2>2, <2>3 DEF CommitCall, CommitResult, Abort, Finishes
<1>7. CASE \/ (\E c \in Calls : Execute(c)) \/ ToolsDone \/ Suspend \/ Answer
           \/ Leave \/ LateInterrupt
  BY <1>7 DEF Execute, ToolsDone, Suspend, Answer, Leave, LateInterrupt, Goes, turnVars, batchVars
<1>8. CASE EndIteration
  BY <1>8, <1>a DEF EndIteration, NextIteration, NoBatch, Goes, Finishes
<1>9. CASE Repair
  BY <1>9, <1>a DEF Repair, Repaired, Gone, Goes, NoBatch, turnVars, batchVars, Finishes
<1>10. CASE Interrupt
  BY <1>10, <1>a DEF Interrupt, Goes, Finishes
<1>11. CASE Compact \/ \E s \in Session : NewSession(s) \/ DeleteSession(s) \/ ResumeSession(s)
  BY <1>11 DEF Compact, NewSession, DeleteSession, ResumeSession, turnVars, batchVars
<1>12. CASE Boot
  BY <1>12 DEF Boot, turnVars, batchVars
<1>13. CASE UNCHANGED vars
  BY <1>13, <1>0 DEF vars, turnVars, batchVars
<1>14. CASE TurnStep
  BY <1>1, <1>2, <1>3, <1>4, <1>5, <1>6, <1>7, <1>8, <1>9, <1>14 DEF TurnStep
<1> QED BY <1>1, <1>3, <1>7, <1>10, <1>11, <1>12, <1>13, <1>14 DEF Next, Exhausted

\* The ids of the batch are consecutive and end where the next one begins.
CallIds ==
  /\ nextCall \in Nat /\ done \in Nat /\ Len(calls) \in Nat
  /\ DOMAIN calls = 1..Len(calls)
  /\ \A i \in DOMAIN calls : calls[i] = nextCall - 1 - Len(calls) + i /\ calls[i] \in Nat
  /\ pc \in {"calling", "resulting", "aborting"} => done + 1 \in DOMAIN calls
  /\ Fresh \in Nat /\ Fresh <= nextCall
  /\ \A c \in ToSet(calls) : c \in Nat /\ c < nextCall

LEMMA CallIdsHold == TurnInv => CallIds
<1> SUFFICES ASSUME TurnInv PROVE CallIds
  OBVIOUS
<1>1. /\ nextCall \in Nat /\ done \in Nat /\ Len(calls) \in Nat
      /\ DOMAIN calls = 1..Len(calls)
      /\ \A i \in DOMAIN calls : calls[i] = nextCall - 1 - Len(calls) + i /\ calls[i] \in Nat
  <2>1. Calls \subseteq Nat
    BY BoundsAssumption DEF Calls
  <2>2. calls \in Seq(Calls) /\ nextCall \in 1..(MaxCalls + 1)
    BY DEF TurnInv
  <2>3. /\ Len(calls) \in Nat /\ DOMAIN calls = 1..Len(calls)
        /\ \A i \in DOMAIN calls : calls[i] \in Calls
    BY <2>2
  <2> QED BY <2>1, <2>2, <2>3 DEF TurnInv
<1>2. pc \in {"calling", "resulting", "aborting"} => done + 1 \in DOMAIN calls
  BY <1>1 DEF TurnInv
<1>3. Fresh \in Nat /\ Fresh <= nextCall
  BY <1>1, <1>2 DEF Fresh
<1>4. \A c \in ToSet(calls) : c \in Nat /\ c < nextCall
  BY <1>1 DEF ToSet
<1> QED BY <1>1, <1>2, <1>3, <1>4 DEF CallIds

LEMMA CallIdsHoldNext == TurnInv' => CallIds'
BY CallIdsHold, PTL

\* Ids only grow, and a call that is new to the batch is new.
LEMMA IdsGrow ==
  ASSUME TurnInv, TurnInv', [Next]_vars
  PROVE  /\ Fresh \in Nat /\ Fresh' \in Nat /\ nextCall \in Nat /\ nextCall' \in Nat
         /\ Fresh <= Fresh' /\ Fresh <= nextCall /\ nextCall <= nextCall'
         /\ \A c \in ToSet(calls) : c \in Nat /\ c < nextCall
         /\ \A c \in ToSet(calls') : c \in ToSet(calls) \/ (c \in Nat /\ nextCall <= c)
<1>1. CallIds /\ CallIds'
  BY CallIdsHold, CallIdsHoldNext
<1>2. /\ nextCall \in Nat /\ nextCall' \in Nat /\ done \in Nat /\ done' \in Nat
      /\ Fresh \in Nat /\ Fresh' \in Nat /\ Fresh <= nextCall
      /\ \A c \in ToSet(calls) : c \in Nat /\ c < nextCall
  BY <1>1 DEF CallIds
<1>6. CASE /\ calls' = calls /\ nextCall' = nextCall
           /\ pc' = "calling" => pc = "calling" /\ done <= done'
  <2>1. CASE pc' = "calling"
    <3>1. /\ done + 1 \in DOMAIN calls /\ done' + 1 \in DOMAIN calls
          /\ Fresh = calls[done + 1] /\ Fresh' = calls[done' + 1]
      BY <1>1, <1>6, <2>1 DEF CallIds, Fresh
    <3>2. \A i, j \in DOMAIN calls : i <= j => calls[i] <= calls[j]
      BY <1>1 DEF CallIds
    <3> QED BY <1>2, <1>6, <2>1, <3>1, <3>2
  <2>2. CASE pc' # "calling"
    BY <1>2, <1>6, <2>2 DEF Fresh
  <2> QED BY <2>1, <2>2
<1>7. CASE calls' = <<>> /\ nextCall' = nextCall /\ pc' # "calling"
  <2>1. Fresh' = nextCall
    BY <1>7 DEF Fresh
  <2>2. ToSet(calls') = {}
    BY <1>7 DEF ToSet
  <2> QED BY <1>2, <1>7, <2>1, <2>2
<1>8. ASSUME pc # "calling", NEW n \in Nat, NewBatch(n), pc' = "calling" => n > 0
      PROVE  /\ Fresh <= Fresh' /\ nextCall <= nextCall'
             /\ \A c \in ToSet(calls') : c \in Nat /\ nextCall <= c
  <2>1. /\ Len(calls') = n /\ DOMAIN calls' = 1..n
        /\ \A i \in 1..n : calls'[i] = nextCall + i - 1
    BY <1>8, BatchType DEF TurnInv, NewBatch
  <2>2. Fresh = nextCall /\ done' = 0 /\ nextCall' = nextCall + n
    BY <1>8 DEF Fresh, NewBatch
  <2>3. pc' = "calling" => Fresh' = calls'[1] /\ 1 \in 1..n
    BY <1>8, <2>2 DEF Fresh
  <2>4. pc' # "calling" => Fresh' = nextCall'
    BY DEF Fresh
  <2>5. Fresh <= Fresh'
    BY <1>2, <2>1, <2>2, <2>3, <2>4
  <2>6. \A c \in ToSet(calls') : c \in Nat /\ nextCall <= c
    BY <1>2, <2>1 DEF ToSet
  <2> QED BY <1>2, <2>2, <2>5, <2>6
<1> QED BY <1>2, <1>6, <1>7, <1>8, TurnShape

\* With what is written so, the ids of the next state fit as well.
LEMMA StillKept ==
  ASSUME TurnInv, TurnInv', [Next]_vars, NEW g \in Nat, g <= Fresh', StillSound(g)
  PROVE  ContextInv'
<1>1. /\ Fresh' \in Nat /\ nextCall \in Nat /\ nextCall' \in Nat /\ nextCall <= nextCall'
      /\ \A c \in ToSet(calls') : c \in ToSet(calls) \/ (c \in Nat /\ nextCall <= c)
  BY IdsGrow
<1>2. \A ms : Sound(ms, g, nextCall, ToSet(calls)) => Sound(ms, Fresh', nextCall', ToSet(calls'))
  BY <1>1, SoundWeaken
<1> QED BY <1>2 DEF StillSound, LogsSound, ContextInv

\* What the process repairs is what is on record.
RepairInv ==
  pc \in {"booting", "resuming"} =>
    current \in saved /\ Valid(log[current]) /\ Replay(log[current]) = context

LEMMA QuietStill ==
  ASSUME ContextInv, UNCHANGED <<disk, context>>
  PROVE  StillSound(Fresh)
BY DEF ContextInv, StillSound, LogsSound, disk

\* A record that may follow what is there: the condition of SoundAppend.
Fits(l, g) ==
  /\ l.type = "call" => Fresh <= l.id /\ l.id < g
  /\ l.type = "result" =>
       /\ l.id < nextCall
       /\ \/ l.id \in ToSet(calls)
          \/ /\ ~Has(context, l)
             /\ current \in Session /\ Valid(log[current]) => ~Has(Replay(log[current]), l)
  /\ l.type = "user" => ToSet(calls) = {}

LEMMA LogsStill ==
  ASSUME TurnInv, StoreInv, ContextInv, NEW l \in Message, NEW g \in Nat, Fresh <= g,
         Fits(l, g), NEW e \in Extent, e # "none" => current \in saved,
         log' = [log EXCEPT ![current] = Written(@, l, e)]
  PROVE  LogsSound(g)
<1> SUFFICES ASSUME NEW s \in Session, Valid(log'[s])
             PROVE  Sound(Replay(log'[s]), g, nextCall, ToSet(calls))
  BY DEF LogsSound
<1> DEFINE ms == Replay(log[s])
<1>1. l \in Line /\ l.type # "compaction"
  BY MessageTypes
<1>2. /\ Valid(log[s])
      /\ Replay(log'[s]) = ms \/ (s = current /\ Replay(log'[s]) = After(ms, l))
  BY <1>1, LogAfter
<1>3. After(ms, l) = Append(ms, l)
  BY <1>1 DEF After
<1>4. Sound(ms, Fresh, nextCall, ToSet(calls)) /\ Fresh \in Nat /\ nextCall \in Nat
  BY <1>2, CallIdsHold DEF ContextInv, CallIds
<1>5. CASE Replay(log'[s]) = ms
  <2>1. Sound(ms, g, nextCall, ToSet(calls))
    BY <1>4, SoundWeaken
  <2> QED BY <1>5, <2>1
<1>6. CASE s = current /\ Replay(log'[s]) = After(ms, l)
  <2>1. l.type = "result" => l.id < nextCall /\ (l.id \in ToSet(calls) \/ ~Has(ms, l))
    BY <1>2, <1>6 DEF Fits
  <2>2. Sound(Append(ms, l), g, nextCall, ToSet(calls))
    <3> HIDE DEF ms
    <3> QED BY <1>4, <2>1, SoundAppend DEF Fits
  <2> QED BY <1>3, <1>6, <2>2
<1> QED BY <1>2, <1>5, <1>6

LEMMA AppendsStill ==
  ASSUME TurnInv, StoreInv, ContextInv, NEW l \in Message, NEW g \in Nat, Fresh <= g,
         Fits(l, g), Committed(l) \/ CommitFails(l)
  PROVE  StillSound(g)
<1>1. LogsSound(g)
  BY CommitWrites, LogsStill
<1>2. /\ Sound(context, Fresh, nextCall, ToSet(calls))
      /\ Fresh \in Nat /\ nextCall \in Nat
  BY CallIdsHold DEF ContextInv, CallIds
<1>3. Sound(context, g, nextCall, ToSet(calls))
  BY <1>2, SoundWeaken
<1>4. Sound(Append(context, l), g, nextCall, ToSet(calls))
  BY <1>2, SoundAppend DEF Fits
<1>5. context' = context \/ context' = Append(context, l)
  BY DEF Committed, CommitFails
<1> QED BY <1>1, <1>3, <1>4, <1>5 DEF StillSound

LEMMA CutsStill ==
  ASSUME TurnInv, StoreInv, ContextInv, Compacted \/ CompactionFails
  PROVE  StillSound(Fresh)
<1>1. /\ context \in Seq(Message) /\ Fresh \in Nat /\ nextCall \in Nat
      /\ Sound(context, Fresh, nextCall, ToSet(calls))
  BY CallIdsHold DEF ContextInv, CallIds, Sound
<1>2. \A ms : \A n \in Nat : Sound(ms, Fresh, nextCall, ToSet(calls)) =>
        Sound(SubSeq(ms, n + 1, Len(ms)), Fresh, nextCall, ToSet(calls))
  BY <1>1, SoundSuffix
<1>3. LogsSound(Fresh)
  <2> PICK n \in Cutoffs(context), e \in Extent :
           /\ n \in Nat /\ log' = [log EXCEPT ![current] = Written(@, Checkpoint(n), e)]
           /\ e # "none" => current \in saved
    BY <1>1, CompactionWrites
  <2> SUFFICES ASSUME NEW s \in Session, Valid(log'[s])
               PROVE  Sound(Replay(log'[s]), Fresh, nextCall, ToSet(calls))
    BY DEF LogsSound
  <2>1. Checkpoint(n) \in Line
    BY MessageTypes
  <2>2. /\ Valid(log[s])
        /\ \/ Replay(log'[s]) = Replay(log[s])
           \/ Replay(log'[s]) = After(Replay(log[s]), Checkpoint(n))
    BY <2>1, LogAfter
  <2>3. After(Replay(log[s]), Checkpoint(n)) = SubSeq(Replay(log[s]), n + 1, Len(Replay(log[s])))
    BY DEF After, Checkpoint
  <2>4. Sound(Replay(log[s]), Fresh, nextCall, ToSet(calls))
    BY <2>2 DEF ContextInv
  <2> QED BY <1>2, <2>2, <2>3, <2>4
<1>4. Sound(context', Fresh, nextCall, ToSet(calls))
  <2>1. CASE Compacted
    BY <1>1, <1>2, <2>1, CutoffIs DEF Compacted
  <2>2. CASE CompactionFails
    <3>1. context' = context
      BY <2>2 DEF CompactionFails, CommitFails
    <3> QED BY <1>1, <3>1
  <2> QED BY <2>1, <2>2
<1> QED BY <1>3, <1>4 DEF StillSound

\* The logs that are there are the old ones, or empty.
LEMMA OldLogs ==
  ASSUME ContextInv, \A s \in Session : log'[s] \in {log[s], <<>>}
  PROVE  LogsSound(Fresh)
BY ReplayEmpty, SoundEmpty DEF ContextInv, LogsSound

LEMMA SessionsStill ==
  ASSUME StoreInv, ContextInv,
         Boot \/ \E s \in Session : NewSession(s) \/ ResumeSession(s) \/ DeleteSession(s)
  PROVE  StillSound(Fresh)
<1>1. log \in [Session -> Seq(Line)] /\ saved \subseteq Session
  BY DEF StoreInv
<1>2. \A s \in Session :
        Valid(log[s]) => Sound(Replay(log[s]), Fresh, nextCall, ToSet(calls))
  BY DEF ContextInv
<1>3. Sound(context, Fresh, nextCall, ToSet(calls)) /\ Sound(<<>>, Fresh, nextCall, ToSet(calls))
  BY SoundEmpty DEF ContextInv
<1>4. ASSUME NEW s \in Session, NewSession(s) PROVE StillSound(Fresh)
  <2>1. context' = <<>> /\ \A r \in Session : log'[r] \in {log[r], <<>>}
    BY <1>1, <1>4 DEF NewSession, CreateIn
  <2> QED BY <1>3, <2>1, OldLogs DEF StillSound
<1>5. ASSUME NEW s \in Session, ResumeSession(s) PROVE StillSound(Fresh)
  <2>1. log' = log /\ context' = Replay(log[s]) /\ Valid(log[s])
    BY <1>5 DEF ResumeSession, Resume, disk
  <2> QED BY <1>2, <2>1, OldLogs DEF StillSound
<1>6. ASSUME NEW s \in Session, DeleteSession(s) PROVE StillSound(Fresh)
  <2>1. CASE log' = [log EXCEPT ![s] = <<>>] /\ context' = context
    <3>1. \A r \in Session : log'[r] \in {log[r], <<>>}
      BY <1>1, <2>1
    <3> QED BY <1>3, <2>1, <3>1, OldLogs DEF StillSound
  <2>2. ASSUME NEW t \in Session, context' = <<>>, log' = [log EXCEPT ![s] = <<>>, ![t] = <<>>]
        PROVE  StillSound(Fresh)
    <3>1. \A r \in Session : log'[r] \in {log[r], <<>>}
      BY <1>1, <2>2
    <3> QED BY <1>3, <2>2, <3>1, OldLogs DEF StillSound
  <2> QED BY <1>6, <2>1, <2>2 DEF DeleteSession, CreateIn
<1>7. CASE Boot
  <2> PICK old \in SUBSET {s \in saved : Valid(log[s])} :
           /\ log' = [s \in Session |-> IF s \in old THEN <<>> ELSE log[s]]
           /\ \/ \E s \in {s \in saved \ old : Valid(log[s])} : Resume(s)
              \/ context' = <<>>
    BY <1>7, Zenon DEF Boot
  <2>1. \A r \in Session : log'[r] \in {log[r], <<>>}
    OBVIOUS
  <2>2. Sound(context', Fresh, nextCall, ToSet(calls))
    BY <1>1, <1>2, <1>3 DEF Resume
  <2> QED BY <2>1, <2>2, OldLogs DEF StillSound
<1> QED BY <1>4, <1>5, <1>6, <1>7

\* A message of the user's or the model's may follow if no batch is under way.
LEMMA PlainFits ==
  ASSUME NEW l \in {User, Assistant}, ToSet(calls) = {}, NEW g
  PROVE  l \in Message /\ Fits(l, g)
BY MessageTypes, MessageIds DEF Fits

\* The result of a call of the batch may follow at any time.
LEMMA ResultFits ==
  ASSUME TurnInv, pc \in {"calling", "resulting", "aborting"}, NEW g
  PROVE  Fits(ResultOf(calls[done + 1]), g)
<1> DEFINE c == calls[done + 1]
<1>1. c \in ToSet(calls)
  BY ThisCall
<1>2. c < nextCall
  BY <1>1, CallIdsHold DEF CallIds
<1> HIDE DEF c
<1>3. ResultOf(c).type = "result" /\ ResultOf(c).id = c
  BY MessageIds
<1> QED BY <1>1, <1>2, <1>3 DEF Fits, c

LEMMA ContextInvStep ==
  ASSUME TurnInv, TurnInv', StoreInv, ContextInv, RepairInv, [Next]_vars
  PROVE  ContextInv'
<1>1. Fresh \in Nat /\ Fresh' \in Nat /\ Fresh <= Fresh' /\ nextCall \in Nat /\ nextCall' \in Nat
      /\ nextCall <= nextCall'
  BY IdsGrow
<1>2. context \in Seq(Message)
  BY DEF ContextInv, Sound
<1>3. pc \notin InBatch \union {"replied"} \/ calls = <<>> => ToSet(calls) = {}
  BY DEF TurnInv, ToSet
<1>4. StillSound(Fresh) => ContextInv'
  BY <1>1, StillKept
<1>a. ASSUME UNCHANGED <<disk, context>> PROVE ContextInv'
  BY <1>a, <1>4, QuietStill
<1>b. ASSUME NEW l \in {User, Assistant}, ToSet(calls) = {}, Committed(l) \/ CommitFails(l)
      PROVE  ContextInv'
  BY <1>b, <1>1, <1>4, PlainFits, AppendsStill
<1>c. ASSUME Compacted \/ CompactionFails PROVE ContextInv'
  BY <1>c, <1>4, CutsStill
<1>5. CASE StartTurn \/ (\E c \in Calls : Execute(c)) \/ ToolsDone \/ Suspend \/ Answer
           \/ Interrupt \/ Close \/ Leave \/ LateInterrupt
  BY <1>5, <1>a DEF StartTurn, Execute, ToolsDone, Suspend, Answer, Interrupt, Close,
                    Leave, LateInterrupt
<1>6. CASE UserTurn \/ DrainResult \/ Reply \/ ReplyCut
  <2>1. ToSet(calls) = {}
    BY <1>3, <1>6 DEF UserTurn, DrainResult, Reply, ReplyCut, InBatch
  <2>2. \E l \in {User, Assistant} : Committed(l) \/ CommitFails(l)
    BY <1>6 DEF UserTurn, DrainResult, Reply, ReplyCut
  <2> QED BY <1>b, <2>1, <2>2
<1>7. CASE Request \/ ContextTooLong
  BY <1>7, <1>a, <1>c DEF Request, ContextTooLong
<1>8. CASE CommitCall
  <2> DEFINE c == calls[done + 1]
             g == c + 1
  <2>1. pc = "calling" /\ c \in Nat /\ Fresh = c /\ done + 1 \in DOMAIN calls /\ c < nextCall
    BY <1>8, CallIdsHold, ThisCall DEF CommitCall, CallIds, Fresh
  <2>2. CallOf(c) \in Message
    BY <2>1, ThisCall
  <2>3. g \in Nat /\ Fresh <= g /\ Fits(CallOf(c), g)
    <3> HIDE DEF c
    <3>1. CallOf(c).type = "call" /\ CallOf(c).id = c
      BY MessageIds
    <3> QED BY <2>1, <3>1 DEF Fits
  <2>4. Committed(CallOf(c)) \/ CommitFails(CallOf(c))
    BY <1>8 DEF CommitCall
  <2>5. StillSound(g)
    <3> HIDE DEF g, c
    <3> QED BY <2>2, <2>3, <2>4, AppendsStill
  <2>6. g <= Fresh'
    <3>1. CASE Finishes
      <4>1. Fresh' = nextCall
        BY <1>8, <3>1 DEF CommitCall, Fresh, Finishes, Ends, Reports, Over
      <4> QED BY <1>1, <2>1, <4>1
    <3>2. CASE Advance("calling", "executing")
      <4>1. nextCall' = nextCall /\ calls' = calls
        BY <1>8, <3>2 DEF CommitCall, Advance
      <4>2. CASE done + 1 = Len(calls)
        <5>1. Fresh' = nextCall
          BY <3>2, <4>1, <4>2 DEF Advance, Goes, Fresh
        <5> QED BY <1>1, <2>1, <5>1
      <4>3. CASE done + 1 # Len(calls)
        <5>1. pc' = "calling" /\ done' = done + 1
          BY <3>2, <4>3 DEF Advance, Goes
        <5>2. Fresh' = calls[(done + 1) + 1] /\ (done + 1) + 1 \in DOMAIN calls
          <6>1. CallIds'
            BY CallIdsHoldNext
          <6> QED BY <4>1, <5>1, <6>1 DEF CallIds, Fresh
        <5>3. /\ calls[(done + 1) + 1] = nextCall - 1 - Len(calls) + ((done + 1) + 1)
              /\ c = nextCall - 1 - Len(calls) + (done + 1)
              /\ Len(calls) \in Nat /\ done \in Nat
          BY <2>1, <5>2, CallIdsHold DEF CallIds
        <5> QED BY <1>1, <5>2, <5>3
      <4> QED BY <4>2, <4>3
    <3> QED BY <1>8, <3>1, <3>2 DEF CommitCall, Finishes
  <2> QED BY <2>3, <2>5, <2>6, StillKept
<1>9. CASE CommitResult \/ Abort
  <2> DEFINE l == ResultOf(calls[done + 1])
  <2>1. l \in Message /\ Fits(l, Fresh)
    BY <1>9, ThisCall, ResultFits DEF CommitResult, Abort
  <2>2. Committed(l) \/ CommitFails(l)
    BY <1>9 DEF CommitResult, Abort
  <2> HIDE DEF l
  <2> QED BY <1>1, <1>4, <2>1, <2>2, AppendsStill
<1>10. CASE EndIteration
  <2>1. CASE UNCHANGED <<disk, context>>
    BY <1>a, <2>1
  <2>2. CASE calls = <<>> /\ (Committed(User) \/ CommitFails(User))
    BY <1>3, <1>b, <2>2
  <2> QED BY <1>10, <2>1, <2>2 DEF EndIteration
<1>11. CASE Repair
  <2>1. CASE Pending(context) = {}
    BY <1>a, <1>11, <2>1 DEF Repair
  <2>2. CASE Pending(context) # {}
    <3> DEFINE c == context[Min(Pending(context))].id
    <3>1. /\ c \in Calls /\ ResultOf(c) \in Message /\ ~Has(context, ResultOf(c))
          /\ c < nextCall
      <4>1. c \in Calls /\ ResultOf(c) \in Message /\ ~Has(context, ResultOf(c))
        BY <1>2, <2>2, FirstPending
      <4>2. \E i \in DOMAIN context : context[i].type = "call" /\ context[i].id = c
        BY <1>2, <2>2, FirstPending
      <4>3. c < Fresh
        BY <4>2 DEF ContextInv, Sound, Below
      <4>4. Fresh <= nextCall /\ c \in Nat
        BY <4>1, IdsGrow, BoundsAssumption DEF Calls
      <4> QED BY <1>1, <4>1, <4>3, <4>4
    <3> DEFINE l == ResultOf(c)
    <3>2. l \in Message /\ Fits(l, Fresh)
      <4>1. pc \in {"booting", "resuming"}
        BY <1>11 DEF Repair
      <4>2. Replay(log[current]) = context
        BY <4>1 DEF RepairInv
      <4> HIDE DEF c
      <4>3. l.type = "result" /\ l.id = c
        BY MessageIds
      <4> QED BY <3>1, <4>2, <4>3 DEF Fits
    <3>3. \/ Committed(l) \/ CommitFails(l)
          \/ Gone /\ \E e \in Extents : log' = [log EXCEPT ![current] = Written(@, l, e)]
      BY <1>11, <2>2 DEF Repair
    <3> HIDE DEF l
    <3>4. CASE Committed(l) \/ CommitFails(l)
      BY <1>1, <1>4, <3>2, <3>4, AppendsStill
    <3>5. ASSUME Gone, NEW e \in Extents, log' = [log EXCEPT ![current] = Written(@, l, e)]
          PROVE  ContextInv'
      <4>1. e \in Extent /\ (e # "none" => current \in saved)
            /\ (e = "whole" => "unsynced" \in Faults)
        BY DEF Extents, Extent
      <4>2. LogsSound(Fresh)
        <5>1. Fresh <= Fresh
          BY <1>1
        <5> QED BY <1>1, <3>2, <3>5, <4>1, <5>1, LogsStill, Zenon
      <4>3. context' = <<>>
        BY <3>5 DEF Gone
      <4> QED BY <1>4, <4>2, <4>3, SoundEmpty DEF StillSound
    <3> QED BY <3>3, <3>4, <3>5
  <2> QED BY <2>1, <2>2
<1>12. CASE Compact
  BY <1>12, <1>a, <1>c DEF Compact
<1>13. CASE Boot \/ \E s \in Session : NewSession(s) \/ ResumeSession(s) \/ DeleteSession(s)
  BY <1>13, <1>4, SessionsStill
<1>14. CASE Crash
  <2>1. context' = <<>>
    BY <1>14 DEF Crash, Gone
  <2>2. CASE log' = log
    BY <1>4, <2>1, <2>2, OldLogs, SoundEmpty DEF StillSound
  <2>3. CASE current \in saved /\ log' = [log EXCEPT ![current] = Written(@, User, "torn")]
    <3>1. LogsSound(Fresh)
      <4> SUFFICES ASSUME NEW s \in Session, Valid(log'[s])
                   PROVE  Sound(Replay(log'[s]), Fresh, nextCall, ToSet(calls))
        BY DEF LogsSound
      <4>1. User \in Line /\ "torn" \in Extent
        BY MessageTypes DEF Extent
      <4>2. Valid(log[s]) /\ Replay(log'[s]) = Replay(log[s])
        BY <2>3, <4>1, LogAfter
      <4> QED BY <4>2 DEF ContextInv
    <3> QED BY <1>4, <2>1, <3>1, SoundEmpty DEF StillSound
  <2> QED BY <1>14, <2>2, <2>3 DEF Crash
<1>15. CASE UNCHANGED vars
  BY <1>15, <1>a DEF vars
<1>16. CASE TurnStep
  BY <1>5, <1>6, <1>7, <1>8, <1>9, <1>10, <1>11, <1>16 DEF TurnStep
<1> QED BY <1>5, <1>6, <1>12, <1>13, <1>14, <1>15, <1>16 DEF Next, Exhausted

LEMMA RepairInvStep ==
  ASSUME TurnInv, StoreInv, context \in Seq(Message), RepairInv, [Next]_vars
  PROVE  RepairInv'
<1>0. log \in [Session -> Seq(Line)]
  BY DEF StoreInv
<1>1. CASE pc' \notin {"booting", "resuming"}
  BY <1>1 DEF RepairInv
<1>2. ASSUME NEW s \in Session, ResumeSession(s) PROVE RepairInv'
  BY <1>2 DEF ResumeSession, Resume, RepairInv, disk
<1>3. CASE Boot
  <2>1. CASE pc' = "booting"
    <3> PICK old \in SUBSET {s \in saved : Valid(log[s])} :
             /\ saved' = saved \ old
             /\ log' = [r \in Session |-> IF r \in old THEN <<>> ELSE log[r]]
             /\ \E s \in {s \in saved \ old : Valid(log[s])} : Resume(s)
      <4>1. "idle" # "booting"
        OBVIOUS
      <4> QED BY <1>3, <2>1, <4>1, Zenon DEF Boot
    <3> PICK s \in saved \ old : Resume(s)
      OBVIOUS
    <3>1. s \in Session /\ log'[s] = log[s] /\ current' = s /\ s \in saved'
          /\ Valid(log[s]) /\ context' = Replay(log[s])
      BY DEF StoreInv, Resume
    <3> QED BY <3>1 DEF RepairInv
  <2>2. CASE pc' = "idle"
    BY <2>2, <1>1
  <2> QED BY <1>3, <2>1, <2>2 DEF Boot
<1>4. CASE Repair /\ pc' \in {"booting", "resuming"}
  <2>1. pc \in {"booting", "resuming"} /\ Pending(context) # {}
    BY <1>4 DEF Repair, Repaired, Finishes, Ends, Reports, Over, Goes
  <2> DEFINE l == ResultOf(context[Min(Pending(context))].id)
  <2>2. Committed(l) /\ current' = current
    BY <1>4, <2>1 DEF Repair, Finishes, Ends, Reports, Over, Gone
  <2>3. l \in Message
    BY <2>1, FirstPending
  <2> HIDE DEF l
  <2>4. /\ current \in Session /\ current \in saved /\ Valid(log[current])
        /\ Replay(log[current]) = context /\ log[current] \in Seq(Line)
    BY <2>1 DEF RepairInv, StoreInv
  <2>5. /\ log'[current] = Written(log[current], l, "whole") /\ context' = Append(context, l)
        /\ saved' = saved
    BY <1>0, <2>2, <2>4 DEF Committed
  <2>6. Valid(log'[current]) /\ Replay(log'[current]) = context'
    BY <2>3, <2>4, <2>5, WholeMessage
  <2> QED BY <2>2, <2>4, <2>5, <2>6 DEF RepairInv
<1>5. CASE UNCHANGED vars
  BY <1>5 DEF vars, disk, RepairInv
<1>6. CASE DrainResult
  <2>1. pc' # "booting" /\ pc' # "resuming"
    BY <1>6 DEF DrainResult, Finishes, Ends, Reports, Over
  <2> QED BY <1>1, <2>1
<1>7. CASE StartTurn \/ Suspend \/ Answer \/ Interrupt \/ Close \/ Compact \/ Crash
           \/ Leave \/ LateInterrupt \/ \E s \in Session : NewSession(s) \/ DeleteSession(s)
  <2>1. pc' # "booting" /\ pc' # "resuming"
    BY <1>7 DEF StartTurn, Suspend, Answer, Interrupt, Close, Compact, Crash, NewSession,
                Leave, LateInterrupt, DeleteSession, Finishes, Ends, Reports, Over, Goes, Gone
  <2> QED BY <1>1, <2>1
<1>8. CASE TurnStep /\ ~Repair
  <2>1. pc' # "booting" /\ pc' # "resuming"
    <3>1. CASE UserTurn \/ Request \/ Reply \/ ReplyCut \/ ContextTooLong
      BY <3>1 DEF UserTurn, Request, Reply, ReplyCut, ContextTooLong, Finishes, Ends, Reports, Over, Goes
    <3>2. CASE CommitCall \/ CommitResult \/ Abort
      BY <3>2 DEF CommitCall, CommitResult, Abort, Advance, Finishes, Ends, Reports, Over, Goes
    <3>3. CASE ToolsDone \/ EndIteration \/ \E c \in Calls : Execute(c)
      BY <3>3 DEF ToolsDone, EndIteration, NextIteration, Execute, Finishes, Ends, Reports, Over, Goes
    <3>4. CASE Leave
      BY <3>4 DEF Leave, Goes
    <3> QED BY <1>8, <3>1, <3>2, <3>3, <3>4 DEF TurnStep
  <2> QED BY <1>1, <2>1
<1>9. CASE Repair
  BY <1>1, <1>4, <1>9
<1> QED BY <1>2, <1>3, <1>5, <1>6, <1>7, <1>8, <1>9 DEF Next, Exhausted

-----------------------------------------------------------------------------
(* The log of the current session yields the context                        *)

FlagsInv == circuitOpen \in BOOLEAN /\ recovered \in BOOLEAN /\ scarred \in BOOLEAN

LEMMA FlagsInvStep ==
  ASSUME FlagsInv, [Next]_vars
  PROVE  FlagsInv'
<1>1. CASE StartTurn \/ Suspend \/ Answer \/ Close \/ Crash \/ Leave \/ LateInterrupt
  BY <1>1 DEF StartTurn, Suspend, Answer, Close, Crash, Leave, LateInterrupt, Gone, Goes, Finishes, Ends, Reports, Over, turnVars, FlagsInv
<1>2. CASE UserTurn \/ DrainResult
  BY <1>2 DEF UserTurn, DrainResult, Committed, CommitFails, Finishes, Ends, Reports, Over, turnVars, FlagsInv
<1>a. ASSUME Compacted \/ CompactionFails
      PROVE  circuitOpen' \in BOOLEAN /\ scarred' \in BOOLEAN
  BY <1>a DEF Compacted, CompactionFails, CommitFails, FlagsInv
<1>3. CASE Request
  <2>1. circuitOpen' \in BOOLEAN /\ scarred' \in BOOLEAN
    BY <1>a, <1>3 DEF Request, FlagsInv
  <2>2. recovered' \in BOOLEAN
    BY <1>3 DEF Request, Finishes, Ends, Reports, Over, turnVars, FlagsInv
  <2> QED BY <2>1, <2>2 DEF FlagsInv
<1>4. CASE Reply \/ ReplyCut
  BY <1>4 DEF Reply, ReplyCut, Committed, CommitFails, Finishes, Ends, Reports, Over, FlagsInv
<1>5. CASE ContextTooLong
  <2>1. circuitOpen' \in BOOLEAN /\ scarred' \in BOOLEAN
    BY <1>a, <1>5 DEF ContextTooLong, FlagsInv
  <2>2. recovered' \in BOOLEAN
    BY <1>5 DEF ContextTooLong, Finishes, Ends, Reports, Over, FlagsInv
  <2> QED BY <2>1, <2>2 DEF FlagsInv
<1>6. CASE CommitCall \/ CommitResult \/ Abort
  BY <1>6 DEF CommitCall, CommitResult, Abort, Committed, CommitFails, Advance, Finishes, Ends, Reports, Over, FlagsInv
<1>7. CASE ToolsDone \/ \E c \in Calls : Execute(c)
  BY <1>7 DEF ToolsDone, Execute, Goes, FlagsInv
<1>8. CASE EndIteration
  BY <1>8 DEF EndIteration, NextIteration, Committed, CommitFails, Finishes, Ends, Reports, Over, FlagsInv
<1>9. CASE Repair
  BY <1>9 DEF Repair, Repaired, Gone, Committed, CommitFails, Finishes, Ends, Reports, Over, turnVars, FlagsInv
<1>10. CASE Interrupt
  <2>1. circuitOpen' \in BOOLEAN /\ recovered' \in BOOLEAN
    BY <1>10 DEF Interrupt, Finishes, Ends, Reports, Over, FlagsInv
  <2>2. scarred' \in BOOLEAN
    BY <1>10 DEF Interrupt
  <2> QED BY <2>1, <2>2 DEF FlagsInv
<1>11. CASE Compact
  <2>1. circuitOpen' \in BOOLEAN /\ scarred' \in BOOLEAN
    BY <1>a, <1>11 DEF Compact, FlagsInv
  <2>2. recovered' = recovered
    BY <1>11 DEF Compact, turnVars
  <2> QED BY <2>1, <2>2 DEF FlagsInv
<1>12. CASE \E s \in Session : NewSession(s) \/ ResumeSession(s) \/ DeleteSession(s)
  BY <1>12 DEF NewSession, ResumeSession, DeleteSession, CreateIn, Resume, turnVars, FlagsInv
<1>13. CASE Boot
  BY <1>13 DEF Boot, Resume, turnVars, FlagsInv
<1>14. CASE UNCHANGED vars
  BY <1>14 DEF vars, turnVars, FlagsInv
<1>15. CASE TurnStep
  BY <1>1, <1>2, <1>3, <1>4, <1>5, <1>6, <1>7, <1>8, <1>9, <1>15 DEF TurnStep
<1> QED BY <1>1, <1>2, <1>10, <1>11, <1>12, <1>13, <1>14, <1>15 DEF Next, Exhausted

\* Where a failed append may leave a part of the record, or all of it, in the file.
Halves == {"torn", "unsynced"} \intersect Faults

\* Unless that may have happened since the session was opened, its log yields the
\* context.
Harmed == scarred /\ Halves # {}
IntactInv == Harmed \/ RestoreYieldsContext

\* Only opening a session, or the end of the process, makes up for a failure.
LEMMA ScarsStay ==
  ASSUME [Next]_vars
  PROVE  \/ scarred => scarred'
         \/ \E s \in Session : NewSession(s) \/ ResumeSession(s) \/ DeleteSession(s)
         \/ Boot \/ Gone
<1>1. CASE StartTurn \/ Suspend \/ Answer \/ Close \/ Crash
  BY <1>1, Zenon DEF StartTurn, Suspend, Answer, Close, Crash
<1>2. CASE UserTurn \/ DrainResult
  BY <1>2, Zenon DEF UserTurn, DrainResult, Committed, CommitFails
<1>a. ASSUME Compacted \/ CompactionFails PROVE scarred => scarred'
  BY <1>a, Zenon DEF Compacted, CompactionFails, CommitFails
<1>3. CASE Request \/ ContextTooLong \/ Compact
  BY <1>3, <1>a, Zenon DEF Request, ContextTooLong, Compact
<1>4. CASE Reply \/ ReplyCut
  BY <1>4, Zenon DEF Reply, ReplyCut, Committed, CommitFails
<1>5. CASE CommitCall \/ CommitResult \/ Abort
  BY <1>5, Zenon DEF CommitCall, CommitResult, Abort, Committed, CommitFails
<1>6. CASE ToolsDone \/ (\E c \in Calls : Execute(c)) \/ Leave \/ LateInterrupt
  BY <1>6, Zenon DEF ToolsDone, Execute, Leave, LateInterrupt
<1>7. CASE EndIteration
  BY <1>7, Zenon DEF EndIteration, Committed, CommitFails
<1>8. CASE Repair
  BY <1>8, Zenon DEF Repair, Committed, CommitFails
<1>9. CASE Interrupt
  BY <1>9, Zenon DEF Interrupt
<1>10. CASE UNCHANGED vars
  BY <1>10, Zenon DEF vars
<1>11. CASE TurnStep
  BY <1>2, <1>3, <1>4, <1>5, <1>6, <1>7, <1>8, <1>11, Zenon DEF TurnStep
<1> QED BY <1>1, <1>2, <1>3, <1>6, <1>9, <1>10, <1>11, Zenon DEF Next, Exhausted

\* A failed append leaves the log as it was, or the session harmed.
LEMMA FailureHarms ==
  ASSUME StoreInv, NEW l, CommitFails(l)
  PROVE  Harmed' \/ UNCHANGED <<saved, log, context>>
<1>1. scarred' /\ UNCHANGED <<saved, context>>
  BY Zenon DEF CommitFails
<1>2. CASE Halves # {}
  BY <1>1, <1>2, Zenon DEF Harmed
<1>3. CASE Halves = {}
  <2>1. Extents \subseteq {"none"}
    BY <1>3 DEF Extents, Halves
  <2>2. log' = [log EXCEPT ![current] = log[current]]
    BY <2>1 DEF CommitFails, Written
  <2>3. log' = log
    BY <2>2 DEF StoreInv
  <2> QED BY <1>1, <2>3
<1> QED BY <1>2, <1>3

LEMMA IntactInvStep ==
  ASSUME TurnInv, StoreInv, context \in Seq(Message), IntactInv, [Next]_vars
  PROVE  IntactInv'
<1>0. /\ log \in [Session -> Seq(Line)] /\ saved \subseteq Session
      /\ \A s \in Session : s \notin saved => log[s] = <<>>
  BY DEF StoreInv
<1>1. ASSUME NEW s \in Session, NewSession(s) PROVE RestoreYieldsContext'
  <2>1. current' = s /\ context' = <<>> /\ log'[s] = <<>>
    BY <1>0, <1>1 DEF NewSession, CreateIn
  <2> QED BY <2>1, ReplayEmpty DEF RestoreYieldsContext
<1>2. ASSUME NEW s \in Session, ResumeSession(s) PROVE RestoreYieldsContext'
  BY <1>2 DEF ResumeSession, Resume, RestoreYieldsContext, disk
<1>3. ASSUME NEW s \in Session, DeleteSession(s) PROVE IntactInv'
  <2>1. CASE /\ s # current /\ saved' = saved \ {s} /\ log' = [log EXCEPT ![s] = <<>>]
             /\ UNCHANGED <<current, context, scarred>>
    <3>1. CASE Harmed
      BY <2>1, <3>1, Zenon DEF IntactInv, Harmed
    <3>2. CASE RestoreYieldsContext
      <4>1. current \in saved' => current \in saved /\ log'[current] = log[current]
        BY <1>0, <2>1
      <4>2. RestoreYieldsContext'
        BY <2>1, <3>2, <4>1 DEF RestoreYieldsContext
      <4> QED BY <4>2 DEF IntactInv
    <3> QED BY <3>1, <3>2 DEF IntactInv
  <2>2. ASSUME NEW t \in Session, CreateIn(t), s = current,
               log' = [log EXCEPT ![s] = <<>>, ![t] = <<>>]
        PROVE  RestoreYieldsContext'
    <3>1. current' = t /\ context' = <<>> /\ log'[t] = <<>>
      BY <1>0, <2>2 DEF CreateIn
    <3> QED BY <3>1, ReplayEmpty DEF RestoreYieldsContext
  <2>3. CASE s = current /\ saved' = saved \ {s} /\ UNCHANGED <<current, context, scarred>>
    BY <2>3 DEF IntactInv, RestoreYieldsContext
  <2> QED BY <1>3, <2>1, <2>2, <2>3 DEF DeleteSession, IntactInv
<1>4. CASE Boot
  <2> PICK old \in SUBSET {s \in saved : Valid(log[s])} :
           /\ log' = [s \in Session |-> IF s \in old THEN <<>> ELSE log[s]]
           /\ \/ \E s \in {s \in saved \ old : Valid(log[s])} : Resume(s)
              \/ context' = <<>> /\ \E s \in Session \ saved : current' = s
    BY <1>4, Zenon DEF Boot
  <2>1. ASSUME NEW s \in saved \ old, Resume(s) PROVE RestoreYieldsContext'
    <3>1. s \in Session /\ current' = s /\ log'[s] = log[s]
          /\ context' = Replay(log[s]) /\ Valid(log[s])
      BY <1>0, <2>1 DEF Resume
    <3> QED BY <3>1 DEF RestoreYieldsContext
  <2>2. ASSUME NEW s \in Session \ saved, current' = s, context' = <<>>
        PROVE  RestoreYieldsContext'
    <3>1. log'[s] = <<>>
      BY <1>0
    <3> QED BY <2>2, <3>1, ReplayEmpty DEF RestoreYieldsContext
  <2> QED BY <2>1, <2>2 DEF IntactInv
<1>5. CASE Gone /\ saved' = saved
  <2>1. current' \notin saved'
    BY <1>0, <1>5, NoneAssumption DEF Gone
  <2> QED BY <2>1 DEF IntactInv, RestoreYieldsContext
<1>6. ASSUME UNCHANGED <<saved, log, context>>, current' = current, scarred => scarred'
      PROVE  IntactInv'
  <2>1. CASE Harmed
    BY <1>6, <2>1, Zenon DEF IntactInv, Harmed
  <2>2. CASE RestoreYieldsContext
    BY <1>6, <2>2 DEF IntactInv, RestoreYieldsContext
  <2> QED BY <2>1, <2>2 DEF IntactInv
<1>7. ASSUME current' = current, scarred => scarred',
             NEW l \in Message \union {Checkpoint(n) : n \in Nat}, CommitFails(l)
      PROVE  IntactInv'
  <2>1. CASE Harmed'
    BY <2>1 DEF IntactInv
  <2>2. CASE UNCHANGED <<saved, log, context>>
    BY <1>6, <1>7, <2>2
  <2> QED BY <1>7, <2>1, <2>2, FailureHarms
<1>8. ASSUME current' = current, scarred => scarred', NEW l \in Message, Committed(l)
      PROVE  IntactInv'
  <2>1. CASE Harmed
    BY <1>8, <2>1, Zenon DEF IntactInv, Harmed
  <2>2. CASE RestoreYieldsContext
    <3>1. /\ current \in Session /\ Valid(log[current]) /\ Replay(log[current]) = context
          /\ log[current] \in Seq(Line)
      BY <1>0, <1>8, <2>2 DEF Committed, RestoreYieldsContext
    <3>2. log'[current] = Written(log[current], l, "whole") /\ context' = Append(context, l)
      BY <1>0, <1>8, <3>1 DEF Committed
    <3>3. Valid(log'[current]) /\ Replay(log'[current]) = context'
      BY <3>1, <3>2, WholeMessage
    <3> QED BY <1>8, <3>3 DEF IntactInv, RestoreYieldsContext
  <2> QED BY <2>1, <2>2 DEF IntactInv
<1>9. ASSUME current' = current, scarred => scarred', Compacted
      PROVE  IntactInv'
  <2>1. CASE Harmed
    BY <1>9, <2>1, Zenon DEF IntactInv, Harmed
  <2>2. CASE RestoreYieldsContext
    <3> PICK n \in Cutoffs(context) :
             /\ current \in saved
             /\ log' = [log EXCEPT ![current] = Written(@, Checkpoint(n), "whole")]
             /\ context' = SubSeq(context, n + 1, Len(context))
      BY <1>9 DEF Compacted
    <3>1. n \in Nat /\ n < Len(context) /\ Len(context) \in Nat
      BY CutoffIs
    <3>2. /\ current \in Session /\ Valid(log[current]) /\ Replay(log[current]) = context
          /\ log[current] \in Seq(Line)
      BY <1>0, <2>2 DEF RestoreYieldsContext
    <3>3. log'[current] = Written(log[current], Checkpoint(n), "whole")
      BY <1>0, <3>2
    <3>4. Valid(log'[current]) /\ Replay(log'[current]) = context'
      BY <3>1, <3>2, <3>3, WholeCheckpoint
    <3> QED BY <1>9, <3>4 DEF IntactInv, RestoreYieldsContext
  <2> QED BY <2>1, <2>2 DEF IntactInv
<1>10. ASSUME current' = current, scarred => scarred', CompactionFails
       PROVE  IntactInv'
  <2> PICK n \in Cutoffs(context) : UNCHANGED <<disk, context, scarred>> \/ CommitFails(Checkpoint(n))
    BY <1>10 DEF CompactionFails
  <2>1. n \in Nat
    BY CutoffIs
  <2> QED BY <1>6, <1>7, <1>10, <2>1 DEF disk
<1>11. CASE scarred => scarred'
  <2>1. CASE UNCHANGED <<disk, context, current>>
    BY <1>6, <1>11, <2>1 DEF disk
  <2>2. ASSUME NEW l \in Message, Appends(l) PROVE IntactInv'
    BY <1>7, <1>8, <1>11, <2>2 DEF Appends
  <2>3. CASE (Compacted \/ CompactionFails) /\ current' = current
    BY <1>9, <1>10, <1>11, <2>3
  <2>4. CASE Lost
    BY <1>5, <2>4 DEF Lost
  <2> QED BY <1>0, <1>1, <1>2, <1>3, <1>4, <2>1, <2>2, <2>3, <2>4, StoreSteps DEF IntactInv
<1>12. CASE Gone
  <2>1. CASE Lost
    BY <1>5, <2>1 DEF Lost
  <2>2. CASE pc' = pc
    <3>1. pc = "down" /\ current = None
      BY <1>12, <2>2 DEF Gone, StoreInv
    <3>2. CASE UNCHANGED <<disk, context, current>>
      BY <1>5, <1>12, <3>2 DEF disk
    <3> QED BY <1>0, <1>1, <1>2, <1>3, <1>4, <2>1, <3>1, <3>2, StoreSteps DEF IntactInv, Awake
  <2>3. CASE ~Awake /\ pc' # pc
    BY <1>0, <1>1, <1>2, <1>3, <1>4, <2>1, <2>3, StoreSteps DEF IntactInv
  <2> QED BY <1>12, <2>2, <2>3 DEF Gone, Awake
<1> QED BY <1>1, <1>2, <1>3, <1>4, <1>11, <1>12, ScarsStay DEF IntactInv

-----------------------------------------------------------------------------
(* A request shows no call without its result                               *)

\* The calls that may yet be without a result: those of the batch that have not
\* been answered.
Open ==
  IF pc \in {"calling", "executing", "suspended"} THEN ToSet(calls)
  ELSE IF pc \in {"resulting", "aborting"} THEN {calls[i] : i \in (done + 1)..Len(calls)}
  ELSE {}

AnsweredBut(ms, open) == \A i \in Pending(ms) : ms[i].id \in open

AnsweredInv == scarred \/ pc \in {"booting", "resuming"} \/ AnsweredBut(context, Open)

LEMMA AnsweredMore ==
  ASSUME NEW ms, NEW S, AnsweredBut(ms, S), NEW T, S \subseteq T
  PROVE  AnsweredBut(ms, T)
BY DEF AnsweredBut

LEMMA AnsweredNone == \A S : AnsweredBut(<<>>, S)
BY DEF AnsweredBut, Pending

\* A call that is appended is without a result, one whose result is appended no
\* longer; other records make no difference.
LEMMA AnsweredAppend ==
  ASSUME NEW ms \in Seq(Message), NEW S, AnsweredBut(ms, S), NEW l \in Message, NEW T,
         \A c \in S : l # ResultOf(c) => c \in T,
         l.type = "call" => l.id \in T
  PROVE  AnsweredBut(Append(ms, l), T)
<1> DEFINE w == Append(ms, l)
<1>1. /\ DOMAIN w = 1..(Len(ms) + 1) /\ DOMAIN ms = 1..Len(ms) /\ Len(ms) \in Nat
      /\ \A i \in 1..Len(ms) : w[i] = ms[i]
      /\ w[Len(ms) + 1] = l
  BY AppendAt
<1> HIDE DEF w
<1> SUFFICES ASSUME NEW i \in DOMAIN w, w[i].type = "call", ~Has(w, ResultOf(w[i].id))
             PROVE  w[i].id \in T
  BY DEF AnsweredBut, Pending, w
<1>2. CASE i = Len(ms) + 1
  BY <1>1, <1>2
<1>3. CASE i \in DOMAIN ms
  <2>1. w[i] = ms[i]
    BY <1>1, <1>3
  <2>2. ~Has(ms, ResultOf(ms[i].id)) /\ l # ResultOf(ms[i].id)
    BY <1>1, <2>1 DEF Has
  <2>3. ms[i].id \in S
    BY <1>3, <2>1, <2>2 DEF AnsweredBut, Pending
  <2> QED BY <2>1, <2>2, <2>3
<1> QED BY <1>1, <1>2, <1>3

\* What a compaction leaves of a context without an open call has none.
LEMMA AnsweredSuffix ==
  ASSUME NEW ms, NEW f, NEW k, NEW b, Sound(ms, f, k, b), AnsweredBut(ms, {}),
         NEW n \in Cutoffs(ms)
  PROVE  AnsweredBut(SubSeq(ms, n + 1, Len(ms)), {})
<1> DEFINE w == SubSeq(ms, n + 1, Len(ms))
           v == SubSeq(ms, 1, n)
<1>1. ms \in Seq(Message)
  BY DEF Sound
<1>2. n \in Nat /\ n < Len(ms) /\ IdsOf(v, "call") = IdsOf(v, "result")
  BY <1>1, CutoffIs
<1>3. /\ w \in Seq(Message) /\ Len(w) \in Nat /\ DOMAIN w = 1..Len(w)
      /\ Len(w) = Len(ms) - n
      /\ \A i \in DOMAIN w : i + n \in DOMAIN ms /\ w[i] = ms[i + n]
  <2>1. /\ w \in Seq(Message) /\ Len(w) \in Nat /\ DOMAIN w = 1..Len(w)
        /\ Len(w) = IF n <= Len(ms) THEN Len(ms) - n ELSE 0
        /\ \A i \in DOMAIN w : i + n \in DOMAIN ms /\ w[i] = ms[i + n]
    BY <1>1, <1>2, SuffixAt, Zenon
  <2> HIDE DEF w
  <2> QED BY <1>1, <1>2, <2>1
<1>4. DOMAIN v = 1..n /\ \A i \in 1..n : v[i] = ms[i]
  BY <1>1, <1>2
<1>5. DOMAIN ms = 1..Len(ms) /\ Len(ms) \in Nat
  BY <1>1
<1> HIDE DEF w, v
<1> SUFFICES ASSUME NEW i \in DOMAIN w, w[i].type = "call", ~Has(w, ResultOf(w[i].id))
             PROVE  FALSE
  BY DEF AnsweredBut, Pending, w
<1> DEFINE c == w[i].id
<1>6. i + n \in DOMAIN ms /\ ms[i + n].type = "call" /\ ms[i + n].id = c
  BY <1>3
<1>7. PICK k1 \in DOMAIN ms : ms[k1] = ResultOf(c)
  BY <1>6 DEF AnsweredBut, Pending, Has
<1>8. CASE k1 \in 1..n
  <2>1. v[k1].type = "result" /\ v[k1].id = c
    BY <1>4, <1>7, <1>8 DEF ResultOf
  <2>2. c \in IdsOf(v, "call")
    BY <1>2, <1>4, <1>8, <2>1 DEF IdsOf
  <2>3. PICK j \in 1..n : v[j].type = "call" /\ v[j].id = c
    BY <1>4, <2>2 DEF IdsOf
  <2>4. j \in DOMAIN ms /\ j < i + n /\ ms[j].type = "call" /\ ms[j].id = c
    BY <1>2, <1>3, <1>4, <1>5, <2>3
  <2> QED BY <1>6, <2>4 DEF Sound, CallsOnce
<1>9. CASE k1 \notin 1..n
  <2>1. k1 - n \in DOMAIN w /\ (k1 - n) + n = k1
    BY <1>2, <1>3, <1>5, <1>7, <1>9
  <2>2. w[k1 - n] = ResultOf(c)
    BY <1>3, <1>7, <2>1
  <2> QED BY <2>1, <2>2 DEF Has
<1> QED BY <1>8, <1>9

LEMMA AnsweredPlain ==
  ASSUME context \in Seq(Message), NEW l \in {User, Assistant}, Committed(l) \/ CommitFails(l),
         AnsweredBut(context, {})
  PROVE  scarred' \/ AnsweredBut(context', {})
<1>1. CASE CommitFails(l)
  BY <1>1, Zenon DEF CommitFails
<1>2. CASE Committed(l)
  <2>1. l \in Message /\ l.type # "call"
    BY MessageTypes, MessageIds
  <2>2. AnsweredBut(Append(context, l), {})
    BY <2>1, AnsweredAppend
  <2>3. context' = Append(context, l)
    BY <1>2 DEF Committed
  <2> QED BY <2>2, <2>3
<1> QED BY <1>1, <1>2

LEMMA AnsweredCut ==
  ASSUME ContextInv, Compacted \/ CompactionFails, AnsweredBut(context, {})
  PROVE  scarred' \/ AnsweredBut(context', {})
<1>1. CASE Compacted
  <2> PICK n \in Cutoffs(context) : context' = SubSeq(context, n + 1, Len(context))
    BY <1>1 DEF Compacted
  <2>1. AnsweredBut(SubSeq(context, n + 1, Len(context)), {})
    BY AnsweredSuffix DEF ContextInv
  <2> QED BY <2>1
<1>2. CASE CompactionFails
  <2>1. scarred' \/ context' = context
    BY <1>2, Zenon DEF CompactionFails, CommitFails
  <2> QED BY <2>1
<1> QED BY <1>1, <1>2

\* The result of the call that is dealt with next leaves the calls after it.
LEMMA AnsweredResult ==
  ASSUME TurnInv, pc \in {"resulting", "aborting"}, context \in Seq(Message),
         AnsweredBut(context, Open), Committed(ResultOf(calls[done + 1]))
  PROVE  AnsweredBut(context', {calls[i] : i \in (done + 2)..Len(calls)})
<1> DEFINE c == calls[done + 1]
           T == {calls[i] : i \in (done + 2)..Len(calls)}
<1>1. ResultOf(c) \in Message /\ done + 1 \in DOMAIN calls /\ done \in Nat
  BY ThisCall DEF TurnInv
<1>2. Open = {calls[i] : i \in (done + 1)..Len(calls)}
  BY DEF Open
<1>3. \A d \in Open : d = c \/ d \in T
  <2>1. \A i \in (done + 1)..Len(calls) : i = done + 1 \/ i \in (done + 2)..Len(calls)
    BY <1>1
  <2> QED BY <1>2, <2>1
<1>4. ResultOf(c).type # "call"
  BY MessageIds
<1>5. context' = Append(context, ResultOf(c))
  BY DEF Committed
<1> HIDE DEF c, T
<1>6. AnsweredBut(Append(context, ResultOf(c)), T)
  BY <1>1, <1>3, <1>4, AnsweredAppend
<1> QED BY <1>5, <1>6 DEF T

\* Where no batch is under way no call may be open.
LEMMA OpenAtRest ==
  ASSUME AnsweredBut(context, Open), pc \notin InBatch
  PROVE  AnsweredBut(context, {})
BY DEF Open, InBatch

LEMMA NothingOpen == AnsweredBut(context', {}) => AnsweredInv'
<1> SUFFICES ASSUME AnsweredBut(context', {}) PROVE AnsweredBut(context', Open')
  BY DEF AnsweredInv
<1> QED BY AnsweredMore

LEMMA AnsweredBatch ==
  ASSUME TurnInv, StoreInv, ContextInv, ~scarred, AnsweredBut(context, Open),
         CommitCall \/ CommitResult \/ Abort
  PROVE  AnsweredInv'
<1>0. context \in Seq(Message) /\ pc \in {"calling", "resulting", "aborting"}
  BY DEF ContextInv, Sound, CommitCall, CommitResult, Abort
<1>1. done \in Nat /\ Len(calls) \in Nat /\ DOMAIN calls = 1..Len(calls)
  BY CallIdsHold DEF CallIds
<1>2. ASSUME NEW l, CommitFails(l) PROVE AnsweredInv'
  BY <1>2, Zenon DEF CommitFails, AnsweredInv
<1>3. CASE /\ pc = "calling" /\ Committed(CallOf(calls[done + 1]))
           /\ Advance("calling", "executing")
  <2> DEFINE l == CallOf(calls[done + 1])
  <2>1. l \in Message /\ calls[done + 1] \in ToSet(calls)
    BY <1>0, ThisCall
  <2>2. l.type = "call" /\ l.id = calls[done + 1]
    BY MessageIds
  <2>3. \A c : l # ResultOf(c)
    BY <2>2, MessageIds
  <2>4. AnsweredBut(context, ToSet(calls))
    BY <1>3 DEF Open
  <2>5. context' = Append(context, l)
    BY <1>3 DEF Committed
  <2> HIDE DEF l
  <2>6. AnsweredBut(Append(context, l), ToSet(calls))
    BY <1>0, <2>1, <2>2, <2>3, <2>4, AnsweredAppend
  <2>7. Open' = ToSet(calls)
    <3>1. calls' = calls /\ (pc' = "calling" \/ pc' = "executing")
      BY <1>3 DEF Advance, Goes
    <3> QED BY <3>1 DEF Open
  <2> QED BY <2>5, <2>6, <2>7 DEF AnsweredInv
<1>4. ASSUME pc \in {"resulting", "aborting"}, Committed(ResultOf(calls[done + 1]))
      PROVE  AnsweredBut(context', {calls[i] : i \in (done + 2)..Len(calls)})
  BY <1>0, <1>4, AnsweredResult
<1>5. ASSUME pc \in {"resulting", "aborting"}, Committed(ResultOf(calls[done + 1])),
             done + 1 = Len(calls)
      PROVE  AnsweredInv'
  <2>1. {calls[i] : i \in (done + 2)..Len(calls)} = {}
    BY <1>1, <1>5
  <2> QED BY <1>4, <1>5, <2>1, NothingOpen
<1>6. ASSUME NEW p \in {"resulting", "aborting"}, pc = p, NEW q, Advance(p, q),
             Committed(ResultOf(calls[done + 1]))
      PROVE  AnsweredInv'
  <2>1. CASE done + 1 # Len(calls)
    <3>1. done' = done + 1 /\ pc' = p /\ calls' = calls
      BY <1>6, <2>1 DEF Advance, Goes
    <3>2. done' + 1 = done + 2
      BY <1>1, <3>1
    <3>3. Open' = {calls[i] : i \in (done + 2)..Len(calls)}
      BY <1>6, <3>1, <3>2 DEF Open
    <3> QED BY <1>4, <1>6, <3>3 DEF AnsweredInv
  <2> QED BY <1>5, <1>6, <2>1
<1> QED BY <1>2, <1>3, <1>5, <1>6 DEF CommitCall, CommitResult, Abort

LEMMA AnsweredInterrupt ==
  ASSUME TurnInv, AnsweredInv, Interrupt
  PROVE  AnsweredInv'
<1>0. context' = context
  BY DEF Interrupt
<1>1. CASE scarred \/ pc = "resuming"
  BY <1>1, Zenon DEF Interrupt, AnsweredInv
<1>2. CASE pc = "resulting" /\ iteration = 0
  BY <1>2, Zenon DEF Interrupt, AnsweredInv
<1>3. CASE AnsweredBut(context, Open) /\ pc \notin InBatch
  <2>1. AnsweredBut(context', {})
    BY <1>0, <1>3, OpenAtRest
  <2> QED BY <2>1, NothingOpen
<1>4. CASE AnsweredBut(context, Open) /\ pc \in InBatch /\ ~(pc = "resulting" /\ iteration = 0)
  <2>1. iteration \in Nat /\ calls # <<>>
    BY <1>4, LimitsAssumption DEF TurnInv
  <2>2. Interrupted /\ pc # "replied"
    BY <1>4, <2>1 DEF Interrupt, Interrupted, InBatch
  <2>3. pc' = "aborting" /\ done' = 0 /\ calls' = calls
    BY <1>4, <2>2 DEF Interrupt, InBatch, Goes
  <2>4. Open' = {calls[i] : i \in 1..Len(calls)} /\ done \in Nat
    BY <2>3 DEF Open, TurnInv
  <2>5. DOMAIN calls = 1..Len(calls) /\ Len(calls) \in Nat
    BY DEF TurnInv
  <2>6. Open \subseteq Open'
    <3>1. CASE pc \in {"resulting", "aborting"}
      <4>1. Open = {calls[i] : i \in (done + 1)..Len(calls)}
        BY <3>1 DEF Open
      <4>2. (done + 1)..Len(calls) \subseteq 1..Len(calls)
        BY <2>4, <2>5
      <4> QED BY <2>4, <4>1, <4>2
    <3>2. CASE pc \notin {"resulting", "aborting"}
      BY <1>4, <2>4, <2>5, <3>2 DEF Open, InBatch, ToSet
    <3> QED BY <3>1, <3>2
  <2>7. AnsweredBut(context, Open')
    BY <1>4, <2>6, AnsweredMore
  <2> QED BY <1>0, <2>7 DEF AnsweredInv
<1>5. pc # "booting"
  BY DEF Interrupt
<1> QED BY <1>1, <1>2, <1>3, <1>4, <1>5 DEF AnsweredInv

LEMMA AnsweredRepair ==
  ASSUME AnsweredInv, Repair
  PROVE  AnsweredInv'
<1>1. CASE Pending(context) = {}
  <2>1. context' = context
    BY <1>1 DEF Repair
  <2>2. AnsweredBut(context', {})
    BY <1>1, <2>1 DEF AnsweredBut
  <2> QED BY <2>2, NothingOpen
<1>2. CASE Pending(context) # {}
  <2> DEFINE l == ResultOf(context[Min(Pending(context))].id)
  <2>1. pc \in {"booting", "resuming"} /\ (pc' = pc \/ CommitFails(l) \/ Gone)
    BY <1>2 DEF Repair
  <2> HIDE DEF l
  <2>2. CASE pc' = pc
    BY <2>1, <2>2 DEF AnsweredInv
  <2>3. CASE CommitFails(l)
    BY <2>3, Zenon DEF CommitFails, AnsweredInv
  <2>4. CASE Gone
    BY <2>4, AnsweredNone DEF Gone, AnsweredInv
  <2> QED BY <2>1, <2>2, <2>3, <2>4
<1> QED BY <1>1, <1>2

LEMMA AnsweredSessions ==
  ASSUME AnsweredInv,
         \/ \E s \in Session : NewSession(s) \/ ResumeSession(s) \/ DeleteSession(s)
         \/ Boot \/ Gone
  PROVE  AnsweredInv'
<1>1. ASSUME context' = <<>> PROVE AnsweredInv'
  BY <1>1, AnsweredNone DEF AnsweredInv
<1>2. CASE Gone \/ \E s \in Session : NewSession(s)
  BY <1>1, <1>2 DEF Gone, NewSession, CreateIn
<1>3. CASE \E s \in Session : ResumeSession(s)
  BY <1>3 DEF ResumeSession, AnsweredInv
<1>4. ASSUME NEW s \in Session, DeleteSession(s) PROVE AnsweredInv'
  <2>1. CASE UNCHANGED <<context, scarred, pc, turnVars>>
    <3>1. Open' = Open
      BY <2>1 DEF Open, turnVars, batchVars
    <3> QED BY <2>1, <3>1, Zenon DEF AnsweredInv
  <2>2. CASE context' = <<>>
    BY <1>1, <2>2
  <2> QED BY <1>4, <2>1, <2>2 DEF DeleteSession, CreateIn
<1>5. CASE Boot
  <2>1. pc' = "booting" \/ context' = <<>>
    BY <1>5 DEF Boot
  <2> QED BY <1>1, <2>1 DEF AnsweredInv
<1> QED BY <1>2, <1>3, <1>4, <1>5

LEMMA AnsweredInvStep ==
  ASSUME TurnInv, StoreInv, ContextInv, AnsweredInv, [Next]_vars
  PROVE  AnsweredInv'
<1>0. context \in Seq(Message)
  BY DEF ContextInv, Sound
<1>1. CASE \/ \E s \in Session : NewSession(s) \/ ResumeSession(s) \/ DeleteSession(s)
           \/ Boot \/ Crash
  BY <1>1, AnsweredSessions DEF Crash
<1>2. CASE Interrupt
  BY <1>2, AnsweredInterrupt
<1>3. CASE Repair
  BY <1>3, AnsweredRepair
<1>4. CASE Close
  BY <1>4, Zenon DEF Close, AnsweredInv
<1>5. CASE UNCHANGED vars
  <2>1. Open' = Open
    BY <1>5 DEF Open, vars, turnVars, batchVars
  <2> QED BY <1>5, <2>1, Zenon DEF AnsweredInv, vars
<1> DEFINE Work == \/ StartTurn \/ DrainResult \/ UserTurn \/ Request \/ Reply \/ ReplyCut
                   \/ ContextTooLong \/ EndIteration \/ Compact
                   \/ CommitCall \/ CommitResult \/ Abort
                   \/ (\E c \in Calls : Execute(c)) \/ ToolsDone \/ Suspend \/ Answer
                   \/ Leave \/ LateInterrupt
<1>6. Work \/ Interrupt \/ Repair \/ Close \/ UNCHANGED vars \/ Boot \/ Crash
      \/ \E s \in Session : NewSession(s) \/ ResumeSession(s) \/ DeleteSession(s)
  BY Zenon DEF Next, TurnStep, Exhausted
<1>7. ASSUME Work PROVE AnsweredInv'
  <2>1. CASE scarred'
    BY <2>1, Zenon DEF AnsweredInv
  <2>2. CASE ~scarred'
    <3>1. ~scarred
      <4>1. scarred => scarred'
        <5>1. CASE StartTurn \/ DrainResult \/ UserTurn \/ Reply \/ ReplyCut \/ EndIteration
          BY <5>1, Zenon DEF StartTurn, DrainResult, UserTurn, Reply, ReplyCut, EndIteration,
                             Committed, CommitFails
        <5>a. Compacted \/ CompactionFails => (scarred => scarred')
          BY Zenon DEF Compacted, CompactionFails, CommitFails
        <5>2. CASE Request \/ ContextTooLong \/ Compact
          BY <5>2, <5>a, Zenon DEF Request, ContextTooLong, Compact
        <5>3. CASE CommitCall \/ CommitResult \/ Abort
          BY <5>3, Zenon DEF CommitCall, CommitResult, Abort, Committed, CommitFails
        <5>4. CASE \/ (\E c \in Calls : Execute(c)) \/ ToolsDone \/ Suspend \/ Answer
                   \/ Leave \/ LateInterrupt
          BY <5>4, Zenon DEF Execute, ToolsDone, Suspend, Answer, Leave, LateInterrupt
        <5> QED BY <1>7, <5>1, <5>2, <5>3, <5>4, Zenon
      <4> QED BY <2>2, <4>1, Zenon
    <3>2. pc \notin {"booting", "resuming"}
      BY <1>7 DEF StartTurn, DrainResult, UserTurn, Request, Reply, ReplyCut, ContextTooLong,
         EndIteration, Compact, CommitCall, CommitResult, Abort, Execute, ToolsDone, Suspend,
         Answer, Leave, LateInterrupt
    <3>3. AnsweredBut(context, Open)
      BY <3>1, <3>2, Zenon DEF AnsweredInv
    <3>4. CASE CommitCall \/ CommitResult \/ Abort
      BY <3>1, <3>3, <3>4, AnsweredBatch
    <3>5. CASE (\E c \in Calls : Execute(c)) \/ ToolsDone \/ Suspend \/ Answer
      <4>1. /\ pc \in {"executing", "suspended"}
            /\ pc' \in {"executing", "suspended", "resulting"}
            /\ pc' = "resulting" => done' = 0
            /\ calls' = calls /\ context' = context
        BY <3>5 DEF Execute, ToolsDone, Suspend, Answer, Goes, turnVars, batchVars
      <4>2. DOMAIN calls = 1..Len(calls)
        BY DEF TurnInv
      <4>3. Open = ToSet(calls)
        BY <4>1 DEF Open
      <4>4. Open' = ToSet(calls)
        <5>1. CASE pc' = "resulting"
          <6>1. Open' = {calls[i] : i \in (0 + 1)..Len(calls)}
            BY <4>1, <5>1 DEF Open
          <6> QED BY <4>2, <6>1 DEF ToSet
        <5>2. CASE pc' \in {"executing", "suspended"}
          BY <4>1, <5>2 DEF Open
        <5> QED BY <4>1, <5>1, <5>2
      <4> QED BY <3>3, <4>1, <4>3, <4>4 DEF AnsweredInv
    <3>6. CASE \/ StartTurn \/ DrainResult \/ UserTurn \/ Request \/ Reply \/ ReplyCut
               \/ ContextTooLong \/ EndIteration \/ Compact \/ Leave \/ LateInterrupt
      <4>1. pc \notin InBatch
        BY <3>6 DEF StartTurn, DrainResult, UserTurn, Request, Reply, ReplyCut, ContextTooLong,
                    EndIteration, Compact, Leave, LateInterrupt, InBatch
      <4>2. \/ UNCHANGED context
            \/ Compacted \/ CompactionFails
            \/ \E l \in {User, Assistant} : Committed(l) \/ CommitFails(l)
        <5>1. CASE StartTurn \/ Leave \/ LateInterrupt
          BY <5>1 DEF StartTurn, Leave, LateInterrupt
        <5>2. CASE DrainResult \/ UserTurn \/ Reply \/ ReplyCut
          BY <5>2 DEF DrainResult, UserTurn, Reply, ReplyCut
        <5>3. CASE Request \/ ContextTooLong \/ Compact
          BY <5>3 DEF Request, ContextTooLong, Compact
        <5>4. CASE EndIteration
          BY <5>4 DEF EndIteration
        <5> QED BY <3>6, <5>1, <5>2, <5>3, <5>4
      <4>3. AnsweredBut(context, {})
        BY <3>3, <4>1, OpenAtRest
      <4>4. scarred' \/ AnsweredBut(context', {})
        <5>1. CASE UNCHANGED context
          BY <4>3, <5>1
        <5>2. CASE Compacted \/ CompactionFails
          BY <4>3, <5>2, AnsweredCut
        <5>3. CASE \E l \in {User, Assistant} : Committed(l) \/ CommitFails(l)
          BY <1>0, <4>3, <5>3, AnsweredPlain
        <5> QED BY <4>2, <5>1, <5>2, <5>3
      <4> QED BY <2>2, <4>4, NothingOpen
    <3> QED BY <1>7, <3>4, <3>5, <3>6
  <2> QED BY <2>1, <2>2
<1> QED BY <1>1, <1>2, <1>3, <1>4, <1>5, <1>6, <1>7

-----------------------------------------------------------------------------
(* The theorems about turns                                                 *)

\* The inductive invariant.
IInv ==
  /\ TurnInv /\ ReportInv /\ StoreInv /\ LoggedInv /\ ContextInv /\ RepairInv
  /\ FlagsInv /\ IntactInv /\ AnsweredInv

LEMMA InitIInv == Init => IInv
<1> SUFFICES ASSUME Init PROVE IInv
  OBVIOUS
<1>0. /\ saved = {} /\ log = [s \in Session |-> <<>>] /\ current = None /\ context = <<>>
      /\ pc = "down" /\ iteration = 0 /\ calls = <<>> /\ done = 0
      /\ executed = {} /\ nextCall = 1 /\ reported = 1
      /\ late = FALSE /\ recovered = FALSE
  BY DEF Init
<1>1. TurnInv
  BY <1>0, LimitsAssumption, BoundsAssumption DEF TurnInv, Places, InBatch, ToSet
<1>2. ReportInv
  BY <1>0 DEF ReportInv, ReportsOnce, Outside
<1>3. StoreInv
  <2>1. <<>> \in Seq(Line)
    OBVIOUS
  <2> QED BY <1>0, <2>1 DEF StoreInv
<1>4. LoggedInv
  BY <1>0 DEF LoggedInv
<1>5. ContextInv
  BY <1>0, ReplayEmpty, SoundEmpty DEF ContextInv
<1>6. RepairInv
  BY <1>0 DEF RepairInv
<1>7. FlagsInv
  BY DEF Init, FlagsInv
<1>8. IntactInv
  BY <1>0 DEF IntactInv, RestoreYieldsContext
<1>9. AnsweredInv
  BY <1>0, AnsweredNone DEF AnsweredInv
<1> QED BY <1>1, <1>2, <1>3, <1>4, <1>5, <1>6, <1>7, <1>8, <1>9 DEF IInv

LEMMA IInvStep == IInv /\ [Next]_vars => IInv'
<1> SUFFICES ASSUME TurnInv, ReportInv, StoreInv, LoggedInv, ContextInv, RepairInv,
                    FlagsInv, IntactInv, AnsweredInv, [Next]_vars
             PROVE  IInv'
  BY DEF IInv
<1>0. context \in Seq(Message)
  BY DEF ContextInv, Sound
<1>1. TurnInv'
  BY TurnInvStep
<1>2. ReportInv'
  BY ReportInvStep
<1>3. StoreInv'
  BY <1>0, StoreInvStep
<1>4. LoggedInv'
  BY <1>0, <1>1, LoggedInvStep
<1>5. ContextInv'
  BY <1>0, <1>1, ContextInvStep
<1>6. RepairInv'
  BY <1>0, RepairInvStep
<1>7. FlagsInv'
  BY FlagsInvStep
<1>8. IntactInv'
  BY <1>0, IntactInvStep
<1>9. AnsweredInv'
  BY AnsweredInvStep
<1> QED BY <1>1, <1>2, <1>3, <1>4, <1>5, <1>6, <1>7, <1>8, <1>9 DEF IInv

LEMMA IInvHolds == Spec => []IInv
BY InitIInv, IInvStep, PTL DEF Spec

LEMMA IInvTypes == IInv => TypeOK
<1> SUFFICES ASSUME IInv PROVE TypeOK
  OBVIOUS
<1>1. saved \subseteq Session /\ log \in [Session -> Seq(Line)] /\ current \in Session \union {None}
  BY DEF IInv, StoreInv
<1>2. context \in Seq(Message)
  BY DEF IInv, ContextInv, Sound
<1>3. circuitOpen \in BOOLEAN /\ recovered \in BOOLEAN /\ scarred \in BOOLEAN
  BY DEF IInv, FlagsInv
<1>4. /\ pc \in Places /\ iteration \in 0..MaxIterations /\ calls \in Seq(Calls)
      /\ done \in Nat /\ nextCall \in 1..(MaxCalls + 1)
      /\ pc \in {"calling", "resulting", "aborting"} => done < Len(calls)
      /\ executed \subseteq ToSet(calls)
  BY DEF IInv, TurnInv
<1>5. executed \subseteq Calls
  BY <1>4 DEF ToSet
<1>6. pc \in {"calling", "resulting", "aborting"} => done \in 0..(Len(calls) - 1)
  BY <1>4
<1>7. reported \in Nat /\ late \in BOOLEAN
  BY DEF IInv, ReportInv, ReportsOnce, Outside
<1> QED BY <1>1, <1>2, <1>3, <1>4, <1>5, <1>6, <1>7 DEF TypeOK, Places

LEMMA IInvOnRecord == IInv => ExecutedIsLogged
BY DEF IInv, LoggedInv, ExecutedIsLogged

LEMMA IInvAnswered == IInv => RequestAnswered
<1> SUFFICES ASSUME IInv, pc = "streaming", ~scarred PROVE Pending(context) = {}
  BY DEF RequestAnswered
<1>1. AnsweredBut(context, Open)
  BY DEF IInv, AnsweredInv
<1>2. AnsweredBut(context, {})
  BY <1>1, OpenAtRest DEF InBatch
<1> QED BY <1>2 DEF AnsweredBut

\* Every variable has its type, and a batch is under way where one is needed:
\* the turn never indexes a call that is not there.
THEOREM AgentTurnTypeCorrect == Spec => []TypeOK
BY IInvHolds, IInvTypes, PTL

\* A tool is run only after its call has been appended to the session's file,
\* whatever fails or interrupts the turn.
THEOREM ToolsAreOnRecord == Spec => []ExecutedIsLogged
BY IInvHolds, IInvOnRecord, PTL

\* However a turn is cut short, it reports exactly one LoopCompleteEvent: but none
\* where the loop runs out after a context-length recovery (core/agent.py 401-407),
\* and one more where SIGINT finds the last one written and run_backend still active
\* (interfaces/backend.py 101-116).
THEOREM TurnsReportOnce == Spec => []ReportsOnce
<1>1. IInv => ReportsOnce
  BY DEF IInv, ReportInv
<1> QED BY <1>1, IInvHolds, PTL

\* Unless an append failed, or the generator was closed amid a batch, since the
\* session was opened, no request shows a call without its result.
THEOREM RequestsAreAnswered == Spec => []RequestAnswered
BY IInvHolds, IInvAnswered, PTL

\* What a restart would restore from the current session's file is the context,
\* at least until an append fails after the session was opened.
UnharmedRestores == ~scarred => RestoreYieldsContext

THEOREM UnharmedSessionsAreRestored == Spec => []UnharmedRestores
<1>1. IInv => UnharmedRestores
  BY Zenon DEF IInv, IntactInv, Harmed, UnharmedRestores
<1> QED BY <1>1, IInvHolds, PTL

\* If a failed append leaves nothing in the file, it is the context always,
\* through failed appends, interrupts, switches of session and crashes.
THEOREM SessionsAreRestored ==
  ASSUME Halves = {}
  PROVE  Spec => []RestoreYieldsContext
<1>1. IInv => RestoreYieldsContext
  BY Zenon DEF IInv, IntactInv, Harmed
<1> QED BY <1>1, IInvHolds, PTL

-----------------------------------------------------------------------------
(* A compaction keeps calls and results together                            *)

LEMMA CutKeepsPairs ==
  ASSUME NEW ms, NEW f, NEW k, NEW b, Sound(ms, f, k, b), NEW n \in Cutoffs(ms), NEW c,
         Has(ms, CallOf(c)), ~Has(SubSeq(ms, n + 1, Len(ms)), CallOf(c))
  PROVE  Has(ms, ResultOf(c)) /\ ~Has(SubSeq(ms, n + 1, Len(ms)), ResultOf(c))
<1> DEFINE w == SubSeq(ms, n + 1, Len(ms))
           v == SubSeq(ms, 1, n)
<1>1. ms \in Seq(Message)
  BY DEF Sound
<1>2. /\ n \in Nat /\ n < Len(ms) /\ n + 1 \in DOMAIN ms /\ ms[n + 1].type = "user"
      /\ IdsOf(v, "call") = IdsOf(v, "result")
  BY <1>1, CutoffIs
<1>3. /\ w \in Seq(Message) /\ Len(w) \in Nat /\ DOMAIN w = 1..Len(w)
      /\ Len(w) = Len(ms) - n
      /\ \A i \in DOMAIN w : i + n \in DOMAIN ms /\ w[i] = ms[i + n]
  <2>1. /\ w \in Seq(Message) /\ Len(w) \in Nat /\ DOMAIN w = 1..Len(w)
        /\ Len(w) = IF n <= Len(ms) THEN Len(ms) - n ELSE 0
        /\ \A i \in DOMAIN w : i + n \in DOMAIN ms /\ w[i] = ms[i + n]
    BY <1>1, <1>2, SuffixAt, Zenon
  <2> HIDE DEF w
  <2> QED BY <1>1, <1>2, <2>1
<1>4. DOMAIN v = 1..n /\ \A i \in 1..n : v[i] = ms[i]
  BY <1>1, <1>2
<1>5. DOMAIN ms = 1..Len(ms) /\ Len(ms) \in Nat /\ \A i \in DOMAIN ms : ms[i] \in Message
  BY <1>1
<1>6. ~Has(w, CallOf(c))
  OBVIOUS
<1> HIDE DEF w, v
<1>7. PICK i \in DOMAIN ms : ms[i] = CallOf(c)
  BY DEF Has
<1>8. i \in 1..n
  <2> SUFFICES ASSUME i \notin 1..n PROVE FALSE
    OBVIOUS
  <2>1. i - n \in DOMAIN w /\ (i - n) + n = i
    BY <1>2, <1>3, <1>5
  <2>2. w[i - n] = CallOf(c)
    BY <1>3, <1>7, <2>1
  <2> QED BY <1>6, <2>1, <2>2 DEF Has
<1>9. c \in IdsOf(v, "result")
  <2>1. v[i].type = "call" /\ v[i].id = c
    BY <1>4, <1>7, <1>8, MessageIds
  <2> QED BY <1>2, <1>4, <1>8, <2>1 DEF IdsOf
<1>10. PICK j \in 1..n : v[j].type = "result" /\ v[j].id = c
  BY <1>4, <1>9 DEF IdsOf
<1>11. j \in DOMAIN ms /\ ms[j].type = "result" /\ ms[j].id = c
  BY <1>2, <1>4, <1>5, <1>10
<1>12. ms[j] = ResultOf(c)
  BY <1>5, <1>11, MessageIds
<1>13. ASSUME NEW m \in DOMAIN w, w[m] = ResultOf(c) PROVE FALSE
  <2>1. m + n \in DOMAIN ms /\ ms[m + n] = ResultOf(c)
    BY <1>3, <1>13
  <2>2. m + n # n + 1
    BY <1>2, <2>1, MessageIds
  <2>3. j < n + 1 /\ n + 1 < m + n
    BY <1>2, <1>3, <1>10, <2>2
  <2> QED BY <1>2, <1>11, <1>12, <2>1, <2>3 DEF Sound, ResultsTogether
<1> QED BY <1>11, <1>12, <1>13 DEF Has, w

\* If the context of a session gets shorter, it has been compacted, or the session
\* opened again.
LEMMA OnlyCutsShorten ==
  ASSUME TurnInv, StoreInv, context \in Seq(Message), [Next]_vars,
         current' = current, Len(context') < Len(context)
  PROVE  Compacted \/ \E s \in Session : ResumeSession(s)
<1>1. context' # context /\ \A l : context' # Append(context, l)
  OBVIOUS
<1>2. ASSUME NEW l \in Message, Appends(l) PROVE FALSE
  BY <1>1, <1>2 DEF Appends, Committed, CommitFails
<1>3. CASE CompactionFails
  BY <1>1, <1>3 DEF CompactionFails, CommitFails
<1>4. ASSUME NEW s \in Session, NewSession(s) \/ DeleteSession(s) PROVE FALSE
  BY <1>1, <1>4 DEF NewSession, DeleteSession, CreateIn
<1>5. ASSUME Boot PROVE FALSE
  <2>1. current = None
    BY <1>5 DEF Boot, StoreInv
  <2>2. current' \in Session
    BY <1>5 DEF Boot, Resume, StoreInv
  <2> QED BY <2>1, <2>2, NoneAssumption
<1>6. ASSUME Lost, pc # "down" PROVE FALSE
  BY <1>6 DEF Lost, Gone, StoreInv
<1>7. log \in [Session -> Seq(Line)]
  BY DEF StoreInv
<1> QED BY <1>1, <1>2, <1>3, <1>4, <1>5, <1>6, <1>7, StoreSteps

PairsKept ==
  \A c \in Calls :
    Has(context, CallOf(c)) /\ ~Has(context', CallOf(c)) =>
      Has(context, ResultOf(c)) /\ ~Has(context', ResultOf(c))

LEMMA CompactedKeepsPairs ==
  ASSUME ContextInv, Compacted
  PROVE  PairsKept
<1> PICK n \in Cutoffs(context) : context' = SubSeq(context, n + 1, Len(context))
  BY DEF Compacted
<1>1. Sound(context, Fresh, nextCall, ToSet(calls))
  BY DEF ContextInv
<1>2. \A c : Has(context, CallOf(c)) /\ ~Has(SubSeq(context, n + 1, Len(context)), CallOf(c)) =>
        /\ Has(context, ResultOf(c))
        /\ ~Has(SubSeq(context, n + 1, Len(context)), ResultOf(c))
  BY <1>1, CutKeepsPairs
<1> QED BY <1>2 DEF PairsKept

\* No compaction, automatic or not, summarises a call away and keeps its result,
\* nor the reverse, whatever failures and interrupts have left in the context.
THEOREM CompactionsKeepPairs ==
  Spec => [][current' = current /\ pc' # "resuming" /\ Len(context') < Len(context)
               => PairsKept]_vars
<1>1. ASSUME IInv, [Next]_vars, current' = current, pc' # "resuming",
             Len(context') < Len(context)
      PROVE  PairsKept
  <2>1. Compacted \/ \E s \in Session : ResumeSession(s)
    BY <1>1, OnlyCutsShorten DEF IInv, ContextInv, Sound
  <2>2. Compacted
    BY <1>1, <2>1 DEF ResumeSession
  <2> QED BY <1>1, <2>2, CompactedKeepsPairs DEF IInv
<1> QED BY <1>1, IInvHolds, PTL DEF Spec

\* If a failed append leaves nothing in the file, opening the session again does
\* not separate them either.
THEOREM PairsStayTogether ==
  ASSUME Halves = {}
  PROVE  Spec => CompactionKeepsPairs
<1>1. ASSUME IInv, [Next]_vars, current' = current, Len(context') < Len(context)
      PROVE  PairsKept
  <2>1. CASE Compacted
    BY <1>1, <2>1, CompactedKeepsPairs DEF IInv
  <2>2. ASSUME NEW s \in Session, ResumeSession(s) PROVE FALSE
    <3>1. current = s /\ s \in saved /\ context' = Replay(log[s])
      BY <1>1, <2>2 DEF ResumeSession, Resume
    <3>2. RestoreYieldsContext
      BY <1>1, Zenon DEF IInv, IntactInv, Harmed
    <3>3. context' = context /\ Len(context) \in Nat
      BY <1>1, <3>1, <3>2 DEF RestoreYieldsContext, IInv, ContextInv, Sound
    <3> QED BY <1>1, <3>3
  <2>3. Compacted \/ \E s \in Session : ResumeSession(s)
    BY <1>1, OnlyCutsShorten DEF IInv, ContextInv, Sound
  <2> QED BY <2>1, <2>2, <2>3
<1> QED BY <1>1, IInvHolds, PTL DEF Spec, CompactionKeepsPairs, PairsKept

-----------------------------------------------------------------------------
(* The logs implement chats that outlive the process                        *)

OpenChat == IF current \in saved THEN current ELSE None
View == IF current \in saved THEN context ELSE <<>>

LEMMA ChatsAre ==
  /\ Chats = [s \in Session |-> IF s \in saved /\ Valid(log[s]) THEN Replay(log[s]) ELSE <<>>]
  /\ \A s : s \in Readable <=> s \in saved /\ Valid(log[s])
BY DEF Chats, Readable

LEMMA ChatsAreNext ==
  /\ Chats' = [s \in Session |-> IF s \in saved' /\ Valid(log'[s]) THEN Replay(log'[s]) ELSE <<>>]
  /\ \A s : s \in Readable' <=> s \in saved' /\ Valid(log'[s])
BY DEF Chats, Readable

\* What the steps have in common: the open chat is readable and the view is its
\* contents.
ChatInv ==
  /\ log \in [Session -> Seq(Line)] /\ saved \subseteq Session
  /\ \A s \in Session : s \notin saved => log[s] = <<>>
  /\ current \in Session \union {None} /\ RestoreYieldsContext
  /\ (current = None) <=> (pc = "down")
  /\ context \in Seq(Message)

LEMMA ChatInvIs ==
  ASSUME Halves = {}
  PROVE  IInv => ChatInv
<1> SUFFICES ASSUME IInv PROVE ChatInv
  OBVIOUS
<1>1. RestoreYieldsContext
  BY Zenon DEF IInv, IntactInv, Harmed
<1>2. context \in Seq(Message)
  BY DEF IInv, ContextInv, Sound
<1> QED BY <1>1, <1>2 DEF IInv, StoreInv, ChatInv

LEMMA ChatStutters ==
  ASSUME UNCHANGED <<saved, log, current, context>>
  PROVE  UNCHANGED Chat!chatVars
BY DEF Chat!chatVars, Chats, Readable

LEMMA ChatAdds ==
  ASSUME ChatInv, NEW l \in Message, Committed(l), current' = current
  PROVE  Chat!Add(l)
<1>1. /\ current \in saved /\ current \in Session /\ saved' = saved
      /\ log' = [log EXCEPT ![current] = Written(@, l, "whole")]
      /\ context' = Append(context, l) /\ current # None
  BY NoneAssumption DEF ChatInv, Committed
<1>2. /\ log[current] \in Seq(Line) /\ Valid(log[current]) /\ Replay(log[current]) = context
      /\ log'[current] = Written(log[current], l, "whole")
      /\ \A s \in Session : s # current => log'[s] = log[s]
  BY <1>1 DEF ChatInv, RestoreYieldsContext
<1>3. Valid(log'[current]) /\ Replay(log'[current]) = Append(context, l)
  BY <1>2, WholeMessage
<1>4. Readable' = Readable
  <2>1. \A s : s \in Readable' <=> s \in Readable
    BY <1>1, <1>2, <1>3, ChatsAre, ChatsAreNext DEF ChatInv
  <2> QED BY <2>1
<1>5. Chats' = [Chats EXCEPT ![current] = Append(@, l)]
  <2>1. Chats[current] = context
    BY <1>1, <1>2, ChatsAre
  <2>2. Chats' = [s \in Session |-> IF s = current THEN Append(context, l) ELSE Chats[s]]
    <3>1. \A s \in Session : s # current => Chats'[s] = Chats[s]
      BY <1>1, <1>2, ChatsAre, ChatsAreNext
    <3>2. Chats'[current] = Append(context, l)
      BY <1>1, <1>3, ChatsAreNext
    <3>3. Chats' = [s \in Session |-> Chats'[s]]
      BY ChatsAreNext
    <3> QED BY <3>1, <3>2, <3>3
  <2>3. Chats \in [Session -> {Chats[s] : s \in Session}]
    BY ChatsAre
  <2> QED BY <2>1, <2>2, <2>3
<1> QED BY <1>1, <1>4, <1>5 DEF Chat!Add

LEMMA ChatSummarises ==
  ASSUME ChatInv, Compacted, current' = current
  PROVE  Chat!Summarise
<1> PICK n \in Cutoffs(context) :
         /\ current \in saved
         /\ log' = [log EXCEPT ![current] = Written(@, Checkpoint(n), "whole")]
         /\ context' = SubSeq(context, n + 1, Len(context)) /\ saved' = saved
  BY DEF Compacted
<1>1. current \in Session /\ current # None /\ n \in Nat /\ n <= Len(context)
  BY CutoffIs, NoneAssumption DEF ChatInv
<1>2. /\ log[current] \in Seq(Line) /\ Valid(log[current]) /\ Replay(log[current]) = context
      /\ log'[current] = Written(log[current], Checkpoint(n), "whole")
      /\ \A s \in Session : s # current => log'[s] = log[s]
  BY <1>1 DEF ChatInv, RestoreYieldsContext
<1>3. Valid(log'[current]) /\ Replay(log'[current]) = context'
  BY <1>1, <1>2, WholeCheckpoint
<1>4. Readable' = Readable
  <2>1. \A s : s \in Readable' <=> s \in Readable
    BY <1>1, <1>2, <1>3, ChatsAre, ChatsAreNext DEF ChatInv
  <2> QED BY <2>1
<1>5. Chats' = [Chats EXCEPT ![current] = SubSeq(@, n + 1, Len(@))]
  <2>1. Chats[current] = context
    BY <1>1, <1>2, ChatsAre
  <2>2. Chats' = [s \in Session |-> IF s = current THEN context' ELSE Chats[s]]
    <3>1. \A s \in Session : s # current => Chats'[s] = Chats[s]
      BY <1>1, <1>2, ChatsAre, ChatsAreNext
    <3>2. Chats'[current] = context'
      BY <1>1, <1>3, ChatsAreNext
    <3>3. Chats' = [s \in Session |-> Chats'[s]]
      BY ChatsAreNext
    <3> QED BY <3>1, <3>2, <3>3
  <2>3. Chats \in [Session -> {Chats[s] : s \in Session}]
    BY ChatsAre
  <2> HIDE DEF Chats
  <2> QED BY <2>1, <2>2, <2>3
<1> QED BY <1>1, <1>4, <1>5 DEF Chat!Summarise

\* Some chats are deleted and another is opened, or a new one.
LEMMA ChatOpens ==
  ASSUME ChatInv, RestoreYieldsContext', NEW gone, gone \subseteq Readable,
         NEW s \in Session, s \notin gone, current' = s, s \in saved',
         saved' = (saved \ gone) \union {s},
         \A r \in Session : log'[r] = IF r \in gone THEN <<>> ELSE log[r],
         Valid(log[s])
  PROVE  Chat!Open(gone, s)
<1>1. \A r \in Session : r # s /\ r \notin gone => (r \in saved' <=> r \in saved)
  OBVIOUS
<1>2. gone \subseteq saved /\ saved \subseteq Session
  BY ChatsAre DEF ChatInv
<1>3. s \notin saved => Replay(log[s]) = <<>>
  BY ReplayEmpty DEF ChatInv
<1>4. Readable' = (Readable \ gone) \union {s}
  <2>1. \A r : r \in Readable' <=> r \in Readable \ gone \/ r = s
    BY <1>1, <1>2, ChatsAre, ChatsAreNext
  <2> QED BY <2>1
<1>5. Chats' = [r \in Session |-> IF r \in gone THEN <<>> ELSE Chats[r]]
  <2>1. \A r \in Session : Chats'[r] = IF r \in gone THEN <<>> ELSE Chats[r]
    <3> SUFFICES ASSUME NEW r \in Session
                 PROVE  Chats'[r] = IF r \in gone THEN <<>> ELSE Chats[r]
      OBVIOUS
    <3>1. CASE r \in gone
      BY <3>1, ReplayEmpty, ChatsAreNext
    <3>2. CASE r = s
      BY <1>3, <3>2, ChatsAre, ChatsAreNext
    <3>3. CASE r \notin gone /\ r # s
      BY <1>1, <3>3, ChatsAre, ChatsAreNext
    <3> QED BY <3>1, <3>2, <3>3
  <2> QED BY <2>1, ChatsAreNext
<1>6. Chats'[s] = context'
  BY ChatsAreNext DEF RestoreYieldsContext
<1> QED BY <1>4, <1>5, <1>6 DEF Chat!Open, Chat!Without

LEMMA ChatDeletes ==
  ASSUME ChatInv, NEW s \in saved, saved' = saved \ {s}, log' = [log EXCEPT ![s] = <<>>],
         UNCHANGED <<current, context>>
  PROVE  Chat!Delete(s) \/ UNCHANGED Chat!chatVars
<1>1. /\ s \in Session /\ log'[s] = <<>> /\ \A r \in Session : r # s => log'[r] = log[r]
      /\ saved \subseteq Session
  BY DEF ChatInv
<1>2. Readable' = Readable \ {s}
  <2>1. \A r : r \in Readable' <=> r \in Readable /\ r # s
    BY <1>1, ChatsAre, ChatsAreNext
  <2> QED BY <2>1
<1>3. Chats' = [r \in Session |-> IF r \in {s} THEN <<>> ELSE Chats[r]]
  BY <1>1, ChatsAre, ChatsAreNext
<1>4. CASE s \in Readable
  <2>1. CASE s = current
    <3>1. current' \notin saved'
      BY <2>1
    <3> QED BY <1>2, <1>3, <1>4, <2>1, <3>1 DEF Chat!Delete, Chat!Without
  <2>2. CASE s # current
    <3>1. current' \in saved' <=> current \in saved
      BY <2>2
    <3>2. s # IF current \in saved THEN current ELSE None
      BY <1>1, <2>2, NoneAssumption
    <3> QED BY <1>2, <1>3, <1>4, <2>2, <3>1, <3>2 DEF Chat!Delete, Chat!Without
  <2> QED BY <2>1, <2>2
<1>5. CASE s \notin Readable
  <2>1. s # current
    BY <1>5, ChatsAre DEF ChatInv, RestoreYieldsContext
  <2>2. Readable' = Readable
    BY <1>2, <1>5
  <2>3. Chats[s] = <<>>
    BY <1>1, <1>5, ChatsAre
  <2>4. Chats' = Chats
    BY <1>3, <2>3, ChatsAre
  <2>5. current' \in saved' <=> current \in saved
    BY <2>1
  <2> QED BY <2>2, <2>4, <2>5 DEF Chat!chatVars
<1> QED BY <1>4, <1>5

LEMMA ChatExits ==
  ASSUME ChatInv, Halves = {}, Lost, pc # "down"
  PROVE  \E gone \in SUBSET {OpenChat} : Chat!Exit(gone)
<1> PICK l \in Message, e \in Extent :
         /\ log' = [log EXCEPT ![current] = Written(@, l, e)]
         /\ e # "none" => current \in saved
         /\ e = "whole" => "unsynced" \in Faults
  BY DEF Lost
<1>1. saved' = saved /\ current' = None /\ context' = <<>> /\ None \notin saved'
      /\ saved \subseteq Session
  BY NoneAssumption DEF Lost, Gone, ChatInv
<1>2. CASE e = "none"
  <2>1. log' = log
    BY <1>2 DEF Written, ChatInv
  <2>2. Readable' = Readable /\ Chats' = Chats
    BY <1>1, <2>1 DEF Readable, Chats
  <2>3. Chats = [r \in Session |-> IF r \in {} THEN <<>> ELSE Chats[r]]
    BY ChatsAre
  <2>4. Chat!Exit({})
    BY <1>1, <2>2, <2>3 DEF Chat!Exit, Chat!Without
  <2> QED BY <2>4
<1>3. CASE e = "torn"
  <2>1. /\ current \in saved /\ current \in Session /\ log[current] \in Seq(Line)
        /\ log'[current] = Written(log[current], l, "torn")
        /\ \A r \in Session : r # current => log'[r] = log[r]
    BY <1>1, <1>3 DEF ChatInv
  <2>2. ~Valid(log'[current])
    <3>1. EndsPartial(log'[current]) /\ log'[current] \in Seq(Line)
      <4>1. CASE EndsPartial(log[current])
        BY <2>1, <4>1 DEF Written
      <4>2. CASE ~EndsPartial(log[current])
        <5>1. log'[current] = Append(log[current], Partial)
          BY <2>1, <4>2 DEF Written
        <5>2. Partial \in Line
          BY DEF Line
        <5>3. \A m \in Seq(Line) : Append(m, Partial) \in Seq(Line) /\ EndsPartial(Append(m, Partial))
          <6> SUFFICES ASSUME NEW m \in Seq(Line)
                       PROVE  Append(m, Partial) \in Seq(Line) /\ EndsPartial(Append(m, Partial))
            OBVIOUS
          <6> DEFINE w == Append(m, Partial)
          <6>1. w \in Seq(Line) /\ Len(w) = Len(m) + 1 /\ Len(m) \in Nat
            BY <5>2
          <6>2. w[Len(m) + 1] = Partial
            BY <5>2
          <6> HIDE DEF w
          <6>3. Last(w) = Partial
            BY <6>1, <6>2 DEF Last
          <6>4. w # <<>>
            BY <6>1
          <6> QED BY <6>1, <6>3, <6>4 DEF EndsPartial, w
        <5> QED BY <2>1, <5>1, <5>3
      <4> QED BY <4>1, <4>2
    <3> QED BY <3>1, TornIsInvalid
  <2>3. Readable' = Readable \ {current}
    <3>1. \A r : r \in Readable' <=> r \in Readable /\ r # current
      BY <1>1, <2>1, <2>2, ChatsAre, ChatsAreNext
    <3> QED BY <3>1
  <2>4. Chats' = [r \in Session |-> IF r \in {current} THEN <<>> ELSE Chats[r]]
    BY <1>1, <2>1, <2>2, ChatsAre, ChatsAreNext
  <2>5. Chat!Exit({current}) /\ OpenChat = current
    BY <1>1, <2>1, <2>3, <2>4 DEF Chat!Exit, Chat!Without, OpenChat
  <2> QED BY <2>5
<1>4. e # "whole"
  BY DEF Halves
<1> QED BY <1>2, <1>3, <1>4 DEF Extent

LEMMA ChatBoots ==
  ASSUME ChatInv, ChatInv', Boot
  PROVE  \E gone \in SUBSET Readable, s \in Session : Chat!Open(gone, s)
<1> PICK old \in SUBSET {s \in saved : Valid(log[s])} :
         /\ log' = [s \in Session |-> IF s \in old THEN <<>> ELSE log[s]]
         /\ \/ /\ saved' = saved \ old
               /\ \E s \in {s \in saved \ old : Valid(log[s])} : Resume(s)
            \/ \E s \in Session \ saved : current' = s /\ saved' = (saved \ old) \union {s}
  BY Zenon DEF Boot
<1>1. old \subseteq Readable /\ saved \subseteq Session /\ old \subseteq saved
  BY DEF Readable, ChatInv
<1>2. \A r \in Session : log'[r] = IF r \in old THEN <<>> ELSE log[r]
  OBVIOUS
<1>3. ASSUME NEW s \in saved \ old, Valid(log[s]), Resume(s), saved' = saved \ old
      PROVE  s \in Session /\ Chat!Open(old, s)
  <2>1. /\ s \in Session /\ s \notin old /\ current' = s /\ s \in saved'
        /\ saved' = (saved \ old) \union {s}
    BY <1>1, <1>3 DEF Resume
  <2> QED BY <1>1, <1>2, <1>3, <2>1, ChatOpens DEF ChatInv
<1>4. ASSUME NEW s \in Session \ saved, current' = s, saved' = (saved \ old) \union {s}
      PROVE  Chat!Open(old, s)
  <2>1. s \notin old /\ s \in saved' /\ Valid(log[s])
    BY <1>1, <1>4, ReplayEmpty DEF ChatInv
  <2> QED BY <1>1, <1>2, <1>4, <2>1, ChatOpens DEF ChatInv
<1> QED BY <1>1, <1>3, <1>4

LEMMA ChatSwitches ==
  ASSUME ChatInv, ChatInv', NEW s \in Session,
         NewSession(s) \/ ResumeSession(s) \/ DeleteSession(s)
  PROVE  Chat!ChatNext \/ UNCHANGED Chat!chatVars
<1>0. log \in [Session -> Seq(Line)] /\ saved \subseteq Session
      /\ \A r \in Session : r \notin saved => log[r] = <<>> /\ Valid(log[r])
  BY ReplayEmpty DEF ChatInv
<1>1. CASE NewSession(s)
  <2>1. /\ s \notin saved /\ current' = s /\ saved' = saved \union {s}
        /\ log' = [log EXCEPT ![s] = <<>>]
    BY <1>1 DEF NewSession, CreateIn
  <2>2. \A r \in Session : log'[r] = IF r \in {} THEN <<>> ELSE log[r]
    BY <1>0, <2>1
  <2>3. Chat!Open({}, s)
    BY <1>0, <2>1, <2>2, ChatOpens DEF ChatInv
  <2> QED BY <2>3 DEF Chat!ChatNext
<1>2. CASE ResumeSession(s)
  <2>1. s \in saved /\ Valid(log[s]) /\ current' = s /\ saved' = saved /\ log' = log
    BY <1>2 DEF ResumeSession, Resume, disk
  <2>2. Chat!Open({}, s)
    BY <1>0, <2>1, ChatOpens DEF ChatInv
  <2> QED BY <2>2 DEF Chat!ChatNext
<1>3. CASE DeleteSession(s)
  <2>1. CASE /\ s \in saved /\ saved' = saved \ {s} /\ log' = [log EXCEPT ![s] = <<>>]
             /\ UNCHANGED <<current, context, scarred>>
    BY <2>1, ChatDeletes DEF Chat!ChatNext
  <2>2. ASSUME NEW t \in Session, s \in saved, s = current, CreateIn(t),
               saved' = (saved \ {s}) \union {t}, log' = [log EXCEPT ![s] = <<>>, ![t] = <<>>]
        PROVE  Chat!ChatNext
    <3>1. t \notin saved /\ t # s /\ current' = t
      BY <2>2 DEF CreateIn
    <3>2. \A r \in Session : log'[r] = IF r \in {s} THEN <<>> ELSE log[r]
      BY <1>0, <2>2, <3>1
    <3>3. {s} \subseteq Readable
      BY <2>2, ChatsAre DEF ChatInv, RestoreYieldsContext
    <3>4. Chat!Open({s}, t)
      BY <1>0, <2>2, <3>1, <3>2, <3>3, ChatOpens DEF ChatInv
    <3> QED BY <3>3, <3>4 DEF Chat!ChatNext
  <2> QED BY <1>3, <2>1, <2>2 DEF DeleteSession
<1> QED BY <1>1, <1>2, <1>3

LEMMA ChatSteps ==
  ASSUME Halves = {}, IInv, IInv', [Next]_vars
  PROVE  Chat!ChatNext \/ UNCHANGED Chat!chatVars
<1>0. ChatInv /\ ChatInv' /\ TurnInv
  <2>1. IInv' => ChatInv'
    BY ChatInvIs, PTL
  <2> QED BY <2>1, ChatInvIs DEF IInv
<1>1. CASE UNCHANGED <<disk, context, current>>
  BY <1>1, ChatStutters DEF disk
<1>a. ASSUME NEW l, CommitFails(l), current' = current PROVE UNCHANGED Chat!chatVars
  <2>1. ~Harmed' /\ StoreInv
    <3>1. (Halves # {})' <=> Halves # {}
      BY DEF Halves
    <3> QED BY <3>1, Zenon DEF Harmed, IInv
  <2>2. UNCHANGED <<saved, log, context>>
    BY <1>a, <2>1, FailureHarms
  <2> QED BY <1>a, <2>2, ChatStutters
<1>2. ASSUME NEW l \in Message, Appends(l) PROVE Chat!ChatNext \/ UNCHANGED Chat!chatVars
  BY <1>0, <1>2, <1>a, ChatAdds DEF Appends, Chat!ChatNext
<1>3. CASE (Compacted \/ CompactionFails) /\ current' = current
  <2>1. CASE Compacted
    BY <1>0, <1>3, <2>1, ChatSummarises DEF Chat!ChatNext
  <2>2. CASE CompactionFails
    BY <1>3, <1>a, <2>2, ChatStutters DEF CompactionFails, disk
  <2> QED BY <1>3, <2>1, <2>2
<1>4. CASE Boot
  BY <1>0, <1>4, ChatBoots DEF Chat!ChatNext
<1>5. CASE Lost /\ pc # "down"
  BY <1>0, <1>5, ChatExits DEF Chat!ChatNext, OpenChat
<1>6. ASSUME NEW s \in Session, NewSession(s) \/ ResumeSession(s) \/ DeleteSession(s)
      PROVE  Chat!ChatNext \/ UNCHANGED Chat!chatVars
  BY <1>0, <1>6, ChatSwitches
<1> QED BY <1>0, <1>1, <1>2, <1>3, <1>4, <1>5, <1>6, StoreSteps DEF ChatInv

LEMMA ChatStarts == Init => Chat!ChatInit
BY DEF Chat!ChatInit, Init, Chats, Readable

\* If a failed append leaves nothing in the file, the logs, their replay and
\* their repair implement chats that outlive the process: every message is in the
\* file as soon as the model sees it, a summary takes the same prefix off both,
\* and a process that ends loses nothing but a chat whose last line it tore.
THEOREM AgentTurnImplementsChat ==
  ASSUME Halves = {}
  PROVE  Spec => ImplementsDurableChat
<1>1. IInv /\ IInv' /\ [Next]_vars => [Chat!ChatNext]_(Chat!chatVars)
  BY ChatSteps
<1> QED BY <1>1, ChatStarts, IInvHolds, PTL DEF Spec, ImplementsDurableChat, Chat!ChatSpec
=============================================================================
