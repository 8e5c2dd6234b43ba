---------------------------- MODULE Turns_proofs ----------------------------
(***************************************************************************)
(* The safety of the in-app channel's turns, for any sessions, any number  *)
(* of turns and any number of failures.  The argument goes over what one   *)
(* step of a turn may do: it moves that turn only (Moves), and it adds to  *)
(* the stream of its session what may be added there (Fine), under a gate  *)
(* that is left in order (StepOK).                                         *)
(***************************************************************************)
EXTENDS Turns, SequenceTheorems, TLAPS

Event == [type : {"token", "tool", "done", "error"}, turn : Turn, run : 0 .. 3]
Excused(t) == t \in met \cup late \/ \E o \in Outcome : <<t, o>> \in slips
ToolIn(l, t) == \E j \in DOMAIN l : l[j].turn = t /\ l[j].type = "tool"

-----------------------------------------------------------------------------
(* The inductive invariant.                                                *)

(* The types of the variables of the turns, and of the sessions.           *)
TurnTypes ==
  /\ wired \in BOOLEAN
  /\ sess \in [Turn -> Session \cup {NoSession}]
  /\ phase \in [Turn -> Phase]
  /\ attempt \in [Turn -> 0 .. 3]
  /\ emitted \in [Turn -> BOOLEAN] /\ tooled \in [Turn -> BOOLEAN]
  /\ mode \in [Turn -> Mode]
SessionTypes ==
  /\ log \in [Session -> Seq(Event)]
  /\ lane \in [Session -> Seq(Turn)]
  /\ DOMAIN gate = Session

(* What the phase of a turn says of its session, its run and its mode.     *)
PhaseOK(t) ==
  /\ phase[t] = "new" <=> sess[t] = NoSession
  /\ phase[t] \in {"new", "posted", "preparing", "prepared", "unheard"} => attempt[t] = 0
  /\ phase[t] \in {"waiting", "running"} => attempt[t] # 0
  /\ phase[t] = "pausing" => attempt[t] = 1
  /\ phase[t] \notin {"running", "ended"} => ~ emitted[t]
  /\ phase[t] \in {"new", "posted", "preparing", "refused", "unheard"} => mode[t] = "none"

(* A lane is in order: it holds the turns of Q, each once.                 *)
InLane(q, Q) ==
  /\ {q[i] : i \in DOMAIN q} = Q
  /\ \A i, j \in DOMAIN q : q[i] = q[j] => i = j
Queued(s) == {t \in Turn : sess[t] = s /\ phase[t] \in {"waiting", "running"}}

(* The lanes hold their runs; only the head of one of them runs.           *)
LaneOK ==
  /\ \A s \in Session : InLane(lane[s], Queued(s))
  /\ \A t \in Turn : Running(t) => t = Head(lane[sess[t]])
  /\ \A t, u \in Turn : Running(t) /\ Running(u) => t = u

(* Turns of one session that are under way together have met.              *)
MetOK ==
  \A t, u \in Turn :
    t # u /\ UnderWay(t) /\ UnderWay(u) /\ sess[t] = sess[u] => t \in met

(* An event of session s that was sent: a text is that of the turn's last  *)
(* run, which is not repeated any more; an end is an end and an answer     *)
(* that of the last run, unless the title check threw after it.            *)
EventOK(s, e) ==
  /\ sess[e.turn] = s
  /\ e.type = "token" =>
       /\ e.run = attempt[e.turn]
       /\ emitted[e.turn] \/ attempt[e.turn] = 3 \/ phase[e.turn] = "ended"
  /\ Terminal(e) => phase[e.turn] = "ended" \/ <<e.turn, "countFails">> \in slips
  /\ e.type = "done" => e.run = attempt[e.turn] \/ <<e.turn, "countFails">> \in slips

(* The text that a gate of session s holds is that of a run that goes on.  *)
HeldOK(s, e) ==
  /\ sess[e.turn] = s
  /\ e.type = "token" /\ e.run = attempt[e.turn]
  /\ \/ phase[e.turn] = "running" /\ emitted[e.turn]
     \/ phase[e.turn] \in {"waiting", "running"} /\ attempt[e.turn] = 3

Holding(e, w) == [on |-> TRUE, held |-> <<e>>, timer |-> w]
GateOK(s) ==
  \/ gate[s] = NoGate
  \/ gate[s] = FreshGate("action")
  \/ \E e \in Event :
       /\ HeldOK(s, e)
       /\ \/ gate[s] = Holding(e, "running")
          \/ gate[s] = Holding(e, "expired") /\ e.turn \in late

(* A turn in action mode is guarded by its gate until its tool is called,  *)
(* or there is an excuse.                                                  *)
Guarded(t) ==
  mode[t] = "action" /\ phase[t] \in {"prepared", "waiting", "running", "pausing"} =>
    \/ Excused(t)
    \/ ToolIn(log[sess[t]], t)
    \/ gate[sess[t]].on /\ gate[sess[t]].timer # "expired"

LogOK == \A s \in Session : \A i \in DOMAIN log[s] : EventOK(s, log[s][i])

TurnInv ==
  /\ TurnTypes /\ SessionTypes /\ LaneOK /\ MetOK /\ LogOK
  /\ \A t \in Turn : PhaseOK(t) /\ Guarded(t)
  /\ \A s \in Session : GateOK(s)
  /\ SilentAfterEnd /\ NoFiller

-----------------------------------------------------------------------------
(* Sequences of at most three events.                                      *)

(* One after one.                                                          *)
LEMMA Pair == ASSUME NEW S, NEW a \in S, NEW b \in S PROVE <<a>> \o <<b>> = <<a, b>>
<1> DEFINE p == <<a>>  q == <<b>>  c == p \o q  d == <<a, b>>
<1>1. p \in Seq(S) /\ Len(p) = 1 /\ p[1] = a
  OBVIOUS
<1>2. q \in Seq(S) /\ Len(q) = 1 /\ q[1] = b
  OBVIOUS
<1>3. d \in Seq(S) /\ Len(d) = 2 /\ d[1] = a /\ d[2] = b
  OBVIOUS
<1> HIDE DEF p, q
<1>4. c \in Seq(S) /\ Len(c) = 2
      /\ \A i \in 1 .. 2 : c[i] = IF i <= 1 THEN p[i] ELSE q[i - 1]
  BY <1>1, <1>2, ConcatProperties
<1> HIDE DEF c, d
<1>5. c[1] = p[1] /\ c[2] = q[1]
  BY <1>4
<1>6. c = d
  BY <1>1, <1>2, <1>3, <1>4, <1>5, SeqEqual
<1> QED BY <1>6 DEF c, d, p, q

(* One after two.                                                          *)
LEMMA Triple ==
  ASSUME NEW S, NEW a \in S, NEW b \in S, NEW e \in S
  PROVE  <<a, b>> \o <<e>> = <<a, b, e>>
<1> DEFINE p == <<a, b>>  q == <<e>>  c == p \o q  d == <<a, b, e>>
<1>1. p \in Seq(S) /\ Len(p) = 2 /\ p[1] = a /\ p[2] = b
  OBVIOUS
<1>2. q \in Seq(S) /\ Len(q) = 1 /\ q[1] = e
  OBVIOUS
<1>3. d \in Seq(S) /\ Len(d) = 3 /\ d[1] = a /\ d[2] = b /\ d[3] = e
  OBVIOUS
<1> HIDE DEF p, q
<1>4. c \in Seq(S) /\ Len(c) = Len(p) + Len(q)
      /\ \A i \in 1 .. Len(p) + Len(q) : c[i] = IF i <= Len(p) THEN p[i] ELSE q[i - Len(p)]
  <2> HIDE DEF d
  <2> QED BY <1>1, <1>2, ConcatProperties
<1> HIDE DEF c, d
<1>5. Len(c) = 3 /\ c[1] = p[1] /\ c[2] = p[2] /\ c[3] = q[1]
  BY <1>1, <1>2, <1>4
<1>6. c = d
  BY <1>1, <1>2, <1>3, <1>4, <1>5, SeqEqual
<1> QED BY <1>6 DEF c, d, p, q

(* What a stream looks like after more was sent.                           *)
LEMMA Grown ==
  ASSUME NEW l \in Seq(Event), NEW out \in Seq(Event)
  PROVE  /\ l \o out \in Seq(Event)
         /\ Len(l) \in Nat /\ Len(out) \in Nat
         /\ Len(l \o out) = Len(l) + Len(out)
         /\ DOMAIN l = 1 .. Len(l) /\ DOMAIN out = 1 .. Len(out)
         /\ DOMAIN (l \o out) = 1 .. Len(l) + Len(out)
         /\ \A i \in DOMAIN l : i \in DOMAIN (l \o out) /\ (l \o out)[i] = l[i]
         /\ \A i \in DOMAIN (l \o out) :
              \/ i \in DOMAIN l
              \/ i - Len(l) \in DOMAIN out /\ (l \o out)[i] = out[i - Len(l)]
<1> DEFINE c == l \o out
<1>1. c \in Seq(Event) /\ Len(c) = Len(l) + Len(out)
      /\ \A i \in 1 .. Len(l) + Len(out) : c[i] = IF i <= Len(l) THEN l[i] ELSE out[i - Len(l)]
  BY ConcatProperties
<1>2. Len(l) \in Nat /\ Len(out) \in Nat /\ Len(c) \in Nat
      /\ DOMAIN l = 1 .. Len(l) /\ DOMAIN out = 1 .. Len(out) /\ DOMAIN c = 1 .. Len(c)
  BY <1>1, LenProperties
<1> HIDE DEF c
<1>3. \A i \in DOMAIN l : i \in DOMAIN c /\ c[i] = l[i]
  BY <1>1, <1>2
<1>4. \A i \in DOMAIN c : i \in DOMAIN l \/ (i - Len(l) \in DOMAIN out /\ c[i] = out[i - Len(l)])
  BY <1>1, <1>2
<1> QED BY <1>1, <1>2, <1>3, <1>4 DEF c

-----------------------------------------------------------------------------
(* What a step of a turn may add to the stream of session s.               *)

(* What EventOK and Excused say after the step.                            *)
AfterOK(s, e) ==
  /\ sess'[e.turn] = s
  /\ e.type = "token" =>
       /\ e.run = attempt'[e.turn]
       /\ emitted'[e.turn] \/ attempt'[e.turn] = 3 \/ phase'[e.turn] = "ended"
  /\ Terminal(e) => phase'[e.turn] = "ended" \/ <<e.turn, "countFails">> \in slips'
  /\ e.type = "done" => e.run = attempt'[e.turn] \/ <<e.turn, "countFails">> \in slips'
ExcusedAfter(t) == t \in met' \cup late' \/ \E o \in Outcome : <<t, o>> \in slips'

MaySend(s, e) == e \in Event /\ AfterOK(s, e) /\ phase[e.turn] # "ended"
Told(s, e) ==
  e.type = "token" /\ mode'[e.turn] = "action" =>
    ExcusedAfter(e.turn) \/ ToolIn(log[s], e.turn)
EndsWith(e, f) == f.turn = e.turn /\ Terminal(f)
Quiet(e, f) == Terminal(e) /\ f.turn = e.turn => <<e.turn, "countFails">> \in slips'

Fine(s, out) ==
  /\ out \in Seq(Event)
  /\ \A k \in DOMAIN out : MaySend(s, out[k])
  /\ \A k \in DOMAIN out : \A i \in 1 .. k - 1 : Quiet(out[i], out[k])
  /\ \A k \in DOMAIN out : Told(s, out[k]) \/ (k < Len(out) /\ EndsWith(out[k], out[k + 1]))

(* Nothing is fine.                                                        *)
LEMMA FineNone == ASSUME NEW s PROVE Fine(s, <<>>)
  BY DEF Fine

(* One event.                                                              *)
LEMMA FineOne ==
  ASSUME NEW s, NEW a, MaySend(s, a), Told(s, a)
  PROVE  Fine(s, <<a>>)
<1> DEFINE out == <<a>>
<1>1. a \in Event
  BY DEF MaySend
<1>2. out \in Seq(Event) /\ DOMAIN out = {1} /\ out[1] = a
  BY <1>1
<1> HIDE DEF out
<1>3. Fine(s, out)
  BY <1>2 DEF Fine
<1> QED BY <1>3 DEF out

(* Two events, the first of which may be told or end with the second.      *)
LEMMA FineTwo ==
  ASSUME NEW s, NEW a, NEW b, MaySend(s, a), MaySend(s, b), Quiet(a, b),
         Told(s, a) \/ EndsWith(a, b), Told(s, b)
  PROVE  Fine(s, <<a, b>>)
<1> DEFINE out == <<a, b>>
<1>1. a \in Event /\ b \in Event
  BY DEF MaySend
<1>2. out \in Seq(Event) /\ DOMAIN out = 1 .. 2 /\ Len(out) = 2 /\ out[1] = a /\ out[2] = b
  BY <1>1
<1> HIDE DEF out
<1>3. \A k \in DOMAIN out : k = 1 \/ k = 2
  BY <1>2
<1>4. \A k \in DOMAIN out : MaySend(s, out[k])
  BY <1>2, <1>3
<1>5. \A k \in DOMAIN out : \A i \in 1 .. k - 1 : k = 2 /\ i = 1
  BY <1>2, <1>3
<1>6. \A k \in DOMAIN out : \A i \in 1 .. k - 1 : Quiet(out[i], out[k])
  BY <1>2, <1>5
<1>7. \A k \in DOMAIN out : Told(s, out[k]) \/ (k < Len(out) /\ EndsWith(out[k], out[k + 1]))
  BY <1>2, <1>3
<1> QED BY <1>2, <1>4, <1>6, <1>7 DEF Fine, out

(* Three events.                                                           *)
LEMMA FineThree ==
  ASSUME NEW s, NEW a, NEW b, NEW e, MaySend(s, a), MaySend(s, b), MaySend(s, e),
         Quiet(a, b), Quiet(a, e), Quiet(b, e),
         Told(s, a) \/ EndsWith(a, b), Told(s, b) \/ EndsWith(b, e), Told(s, e)
  PROVE  Fine(s, <<a, b, e>>)
<1> DEFINE out == <<a, b, e>>
<1>1. a \in Event /\ b \in Event /\ e \in Event
  BY DEF MaySend
<1>2. out \in Seq(Event) /\ DOMAIN out = 1 .. 3 /\ Len(out) = 3
      /\ out[1] = a /\ out[2] = b /\ out[3] = e
  BY <1>1
<1> HIDE DEF out
<1>3. \A k \in DOMAIN out : k = 1 \/ k = 2 \/ k = 3
  BY <1>2
<1>4. \A k \in DOMAIN out : MaySend(s, out[k])
  BY <1>2, <1>3
<1>5. \A k \in DOMAIN out : \A i \in 1 .. k - 1 :
        (k = 2 /\ i = 1) \/ (k = 3 /\ i = 1) \/ (k = 3 /\ i = 2)
  BY <1>2, <1>3
<1>6. \A k \in DOMAIN out : \A i \in 1 .. k - 1 : Quiet(out[i], out[k])
  BY <1>2, <1>5
<1>7. \A k \in DOMAIN out : Told(s, out[k]) \/ (k < Len(out) /\ EndsWith(out[k], out[k + 1]))
  BY <1>2, <1>3
<1> QED BY <1>2, <1>4, <1>6, <1>7 DEF Fine, out

-----------------------------------------------------------------------------
(* What every step of a turn is like: it touches no other turn, it never   *)
(* starts again what was heard of it, and what excuses it stays.           *)
Moves(t) ==
  /\ phase[t] \notin {"new", "ended", "refused"}
  /\ sess' = sess
  /\ \A u \in Turn \ {t} :
       /\ phase'[u] = phase[u] /\ attempt'[u] = attempt[u]
       /\ emitted'[u] = emitted[u] /\ mode'[u] = mode[u]
  /\ \/ phase'[t] \in {"new", "posted", "ended", "refused", "unheard"}
     \/ UnderWay(t) \/ phase[t] = "posted"
  /\ \/ attempt'[t] = attempt[t] /\ (emitted[t] => emitted'[t])
     \/ ~ emitted[t] /\ attempt[t] # 3
  /\ mode'[t] = mode[t] \/ (attempt[t] = 0 /\ ~ emitted[t])
  /\ met \subseteq met' /\ late \subseteq late' /\ slips \subseteq slips'

(* What was sent stays in order.                                           *)
LEMMA OldEvents ==
  ASSUME TurnInv, NEW t \in Turn, Moves(t)
  PROVE  \A s \in Session : \A i \in DOMAIN log[s] :
           log[s][i] \in Event /\ AfterOK(s, log[s][i])
<1> SUFFICES ASSUME NEW s \in Session, NEW i \in DOMAIN log[s]
             PROVE  log[s][i] \in Event /\ AfterOK(s, log[s][i])
  OBVIOUS
<1> DEFINE e == log[s][i]
<1>1. e \in Event
  <2>1. log[s] \in Seq(Event)
    BY DEF TurnInv, SessionTypes
  <2> QED BY <2>1, LenProperties, ElementOfSeq
<1>2. EventOK(s, e)
  BY DEF TurnInv, LogOK
<1> HIDE DEF e
<1>3. e.turn \in Turn
  BY <1>1 DEF Event
<1>4. AfterOK(s, e)
  <2>1. CASE e.turn = t
    BY <1>2, <1>3, <2>1 DEF EventOK, AfterOK, Moves, Terminal
  <2>2. CASE e.turn # t
    BY <1>2, <1>3, <2>2 DEF EventOK, AfterOK, Moves
  <2> QED BY <2>1, <2>2
<1> QED BY <1>1, <1>4 DEF e

(* A turn that is excused stays so.                                        *)
LEMMA StaysExcused ==
  ASSUME NEW t, Moves(t), NEW u, Excused(u) PROVE ExcusedAfter(u)
  BY DEF Moves, Excused, ExcusedAfter

-----------------------------------------------------------------------------
(* A step that adds what is fine keeps the order of every stream.          *)
LEMMA Sent ==
  ASSUME TurnInv, NEW t \in Turn, sess[t] \in Session, Moves(t),
         NEW out, Fine(sess[t], out), log' = [log EXCEPT ![sess[t]] = log[sess[t]] \o out]
  PROVE  /\ log' \in [Session -> Seq(Event)]
         /\ LogOK' /\ SilentAfterEnd' /\ NoFiller'
         /\ \A u \in Turn, r \in Session : ToolIn(log[r], u) => ToolIn(log'[r], u)
<1> DEFINE s == sess[t]
           l == log[s]
<1>1. l \in Seq(Event) /\ out \in Seq(Event) /\ log \in [Session -> Seq(Event)]
  BY DEF TurnInv, SessionTypes, Fine
<1>2. \A r \in Session : log'[r] = IF r = s THEN l \o out ELSE log[r]
  BY <1>1
<1>3. ASSUME NEW r \in Session
      PROVE  /\ log[r] \in Seq(Event) /\ log'[r] \in Seq(Event)
             /\ Len(log[r]) \in Nat /\ Len(log'[r]) \in Nat
             /\ DOMAIN log[r] = 1 .. Len(log[r]) /\ DOMAIN log'[r] = 1 .. Len(log'[r])
             /\ Len(log[r]) <= Len(log'[r])
             /\ \A i \in DOMAIN log[r] : log'[r][i] = log[r][i]
  <2>1. log[r] \in Seq(Event)
    BY DEF TurnInv, SessionTypes
  <2>2. CASE r = s
    BY <1>1, <1>2, <2>2, Grown
  <2>3. CASE r # s
    BY <1>2, <2>1, <2>3, LenProperties
  <2> QED BY <2>2, <2>3
<1>4. ASSUME NEW r \in Session, NEW i \in DOMAIN log'[r], i \notin DOMAIN log[r]
      PROVE  /\ r = s /\ i - Len(l) \in DOMAIN out /\ log'[r][i] = out[i - Len(l)]
             /\ Len(out) \in Nat /\ DOMAIN out = 1 .. Len(out)
             /\ Len(log'[r]) = Len(l) + Len(out)
  BY <1>1, <1>2, <1>4, Grown
<1>5. \A r \in Session : \A i \in DOMAIN log[r] :
        log[r][i] \in Event /\ AfterOK(r, log[r][i])
  BY OldEvents
<1>6. LogOK'
  <2> SUFFICES ASSUME NEW r \in Session, NEW i \in DOMAIN log'[r]
               PROVE  AfterOK(r, log'[r][i])
    BY DEF LogOK, EventOK, AfterOK
  <2>1. CASE i \in DOMAIN log[r]
    BY <1>3, <1>5, <2>1
  <2>2. CASE i \notin DOMAIN log[r]
    BY <1>4, <2>2 DEF Fine, MaySend
  <2> QED BY <2>1, <2>2
<1>7. SilentAfterEnd'
  <2> SUFFICES ASSUME NEW r \in Session, NEW j \in DOMAIN log'[r], NEW i \in 1 .. j - 1,
                      Terminal(log'[r][i]), log'[r][j].turn = log'[r][i].turn
               PROVE  <<log'[r][i].turn, "countFails">> \in slips'
    BY DEF SilentAfterEnd, Terminal
  <2>0. i \in DOMAIN log'[r] /\ i \in Nat /\ j \in Nat /\ i < j
    BY <1>3
  <2>1. CASE j \in DOMAIN log[r]
    <3>1. i \in DOMAIN log[r]
      BY <1>3, <2>0, <2>1
    <3> QED BY <1>3, <2>1, <3>1 DEF TurnInv, SilentAfterEnd, Moves
  <2>2. CASE j \notin DOMAIN log[r] /\ i \in DOMAIN log[r]
    <3>1. phase[log'[r][j].turn] # "ended"
      BY <1>4, <2>2 DEF Fine, MaySend
    <3>2. EventOK(r, log[r][i])
      BY <2>2 DEF TurnInv, LogOK
    <3> QED BY <1>3, <2>2, <3>1, <3>2 DEF EventOK, Moves
  <2>3. CASE j \notin DOMAIN log[r] /\ i \notin DOMAIN log[r]
    <3> DEFINE k == j - Len(l)  h == i - Len(l)
    <3>1. k \in DOMAIN out /\ h \in DOMAIN out /\ log'[r][j] = out[k] /\ log'[r][i] = out[h]
      BY <1>4, <2>0, <2>3
    <3>2. h \in 1 .. k - 1
      BY <1>1, <1>4, <2>0, <2>3, LenProperties
    <3>3. Quiet(out[h], out[k])
      BY <3>1, <3>2 DEF Fine
    <3> QED BY <3>1, <3>3 DEF Quiet
  <2> QED BY <2>1, <2>2, <2>3
<1>8. \A u \in Turn, r \in Session : ToolIn(log[r], u) => ToolIn(log'[r], u)
  <2> SUFFICES ASSUME NEW u \in Turn, NEW r \in Session, ToolIn(log[r], u)
               PROVE  ToolIn(log'[r], u)
    OBVIOUS
  <2>1. DOMAIN log[r] \subseteq DOMAIN log'[r]
    BY <1>3
  <2> QED BY <1>3, <2>1 DEF ToolIn
<1>9. NoFiller'
  <2> SUFFICES ASSUME NEW r \in Session, NEW i \in DOMAIN log'[r],
                      log'[r][i].type = "token", mode'[log'[r][i].turn] = "action",
                      \A j \in 1 .. i - 1 :
                        ~ (log'[r][j].turn = log'[r][i].turn /\ log'[r][j].type = "tool")
               PROVE  \/ ExcusedAfter(log'[r][i].turn)
                      \/ i < Len(log'[r]) /\ EndsWith(log'[r][i], log'[r][i + 1])
    BY DEF NoFiller, ExcusedAfter, EndsWith, Terminal
  <2>0. i \in Nat /\ i >= 1
    BY <1>3
  <2>1. CASE i \in DOMAIN log[r]
    <3> DEFINE e == log[r][i]
    <3>1. log'[r][i] = e /\ e \in Event /\ EventOK(r, e)
      BY <1>3, <1>5, <2>1 DEF TurnInv, LogOK
    <3>2. e.turn \in Turn
      BY <3>1 DEF Event
    <3>3. mode[e.turn] = "action"
      <4>1. CASE e.turn = t /\ mode'[t] # mode[t]
        <5>1. attempt[t] = 0 /\ ~ emitted[t] /\ phase[t] # "ended"
          BY <4>1 DEF Moves
        <5> QED BY <3>1, <4>1, <5>1 DEF EventOK
      <4>2. CASE e.turn # t \/ mode'[t] = mode[t]
        BY <3>1, <3>2, <4>2 DEF Moves
      <4> QED BY <4>1, <4>2
    <3>4. \A j \in 1 .. i - 1 : ~ (log[r][j].turn = e.turn /\ log[r][j].type = "tool")
      <4>1. \A j \in 1 .. i - 1 : j \in DOMAIN log[r]
        BY <1>3, <2>0, <2>1
      <4> QED BY <1>3, <3>1, <4>1
    <3>5. Excused(e.turn) \/ (i < Len(log[r]) /\ EndsWith(e, log[r][i + 1]))
      BY <2>1, <3>1, <3>3, <3>4 DEF TurnInv, NoFiller, Excused, EndsWith, Terminal
    <3>6. CASE Excused(e.turn)
      BY <3>1, <3>6, StaysExcused
    <3>7. CASE i < Len(log[r]) /\ EndsWith(e, log[r][i + 1])
      <4>1. i + 1 \in DOMAIN log[r] /\ i < Len(log'[r])
        BY <1>3, <2>0, <2>1, <3>7
      <4> QED BY <1>3, <3>1, <3>7, <4>1
    <3> QED BY <3>5, <3>6, <3>7
  <2>2. CASE i \notin DOMAIN log[r]
    <3> DEFINE k == i - Len(l)
    <3>1. r = s /\ k \in DOMAIN out /\ log'[r][i] = out[k] /\ Len(l) \in Nat
          /\ Len(out) \in Nat /\ DOMAIN out = 1 .. Len(out) /\ Len(log'[r]) = Len(l) + Len(out)
      BY <1>1, <1>4, <2>2, LenProperties
    <3>2. ~ ToolIn(log[r], out[k].turn)
      <4>1. \A j \in DOMAIN log[r] : j \in 1 .. i - 1
        BY <1>3, <2>0, <2>2
      <4> QED BY <1>3, <3>1, <4>1 DEF ToolIn
    <3>3. Told(s, out[k]) \/ (k < Len(out) /\ EndsWith(out[k], out[k + 1]))
      BY <3>1 DEF Fine
    <3>4. CASE Told(s, out[k])
      BY <3>1, <3>2, <3>4 DEF Told
    <3>5. CASE k < Len(out) /\ EndsWith(out[k], out[k + 1])
      <4>1. i + 1 \in DOMAIN log'[r] /\ i + 1 \notin DOMAIN log[r] /\ (i + 1) - Len(l) = k + 1
            /\ i < Len(log'[r])
        <5> HIDE DEF l
        <5>1. Len(log[r]) = Len(l)
          BY <3>1 DEF l
        <5>2. DOMAIN log[r] = 1 .. Len(l) /\ DOMAIN log'[r] = 1 .. Len(l) + Len(out)
          BY <1>3, <3>1, <5>1
        <5>3. i \in Nat /\ i >= 1 /\ i > Len(l) /\ Len(l) \in Nat /\ Len(out) \in Nat
          BY <2>0, <2>2, <3>1, <5>2
        <5>4. i - Len(l) < Len(out)
          BY <3>5
        <5>5. Len(log'[r]) = Len(l) + Len(out)
          BY <3>1
        <5> HIDE DEF k
        <5>6. i + 1 \in 1 .. Len(l) + Len(out) /\ i + 1 \notin 1 .. Len(l) /\ i < Len(l) + Len(out)
          BY <5>3, <5>4
        <5>7. (i + 1) - Len(l) = k + 1
          BY <5>3 DEF k
        <5> QED BY <5>2, <5>5, <5>6, <5>7
      <4>2. log'[r][i + 1] = out[k + 1]
        BY <1>4, <4>1
      <4> QED BY <3>1, <3>5, <4>1, <4>2
    <3> QED BY <3>3, <3>4, <3>5
  <2> QED BY <2>1, <2>2
<1>10. log' \in [Session -> Seq(Event)]
  BY <1>1, Grown
<1> QED BY <1>6, <1>7, <1>8, <1>9, <1>10

-----------------------------------------------------------------------------
(* A step that leaves the gate of its own session in order leaves all      *)
(* gates so, and every other turn guarded.                                 *)
LEMMA GatesAfter ==
  ASSUME TurnInv, NEW t \in Turn, sess[t] \in Session, Moves(t),
         \A u \in Turn, r \in Session : ToolIn(log[r], u) => ToolIn(log'[r], u),
         \A r \in Session : r # sess[t] => gate'[r] = gate[r],
         UnderWay(t) \/ gate' = gate, GateOK(sess[t])', Guarded(t)'
  PROVE  /\ \A s \in Session : GateOK(s)'
         /\ \A u \in Turn : Guarded(u)'
<1>1. ASSUME NEW s \in Session, s # sess[t] PROVE GateOK(s)'
  <2>1. gate'[s] = gate[s]
    BY <1>1
  <2>2. CASE gate[s] = NoGate \/ gate[s] = FreshGate("action")
    BY <2>1, <2>2 DEF GateOK, NoGate, FreshGate
  <2>3. ASSUME NEW e \in Event, HeldOK(s, e),
               \/ gate[s] = Holding(e, "running")
               \/ gate[s] = Holding(e, "expired") /\ e.turn \in late
        PROVE  GateOK(s)'
    <3>1. e.turn \in Turn \ {t}
      BY <1>1, <2>3 DEF Event, HeldOK
    <3>2. HeldOK(s, e)'
      BY <2>3, <3>1 DEF HeldOK, Moves
    <3>3. \/ gate'[s] = Holding(e, "running")
          \/ gate'[s] = Holding(e, "expired") /\ e.turn \in late'
      BY <2>1, <2>3 DEF Moves
    <3> QED BY <3>2, <3>3 DEF GateOK, Holding
  <2> QED BY <2>2, <2>3 DEF TurnInv, GateOK
<1>2. ASSUME NEW u \in Turn, u # t PROVE Guarded(u)'
  <2> SUFFICES ASSUME mode'[u] = "action",
                      phase'[u] \in {"prepared", "waiting", "running", "pausing"}
               PROVE  \/ ExcusedAfter(u)
                      \/ ToolIn(log'[sess'[u]], u)
                      \/ gate'[sess'[u]].on /\ gate'[sess'[u]].timer # "expired"
    BY DEF Guarded, Excused, ExcusedAfter
  <2>1. mode[u] = "action" /\ phase[u] = phase'[u] /\ sess'[u] = sess[u]
    BY <1>2 DEF Moves
  <2>2. sess[u] \in Session /\ UnderWay(u)
    BY <2>1 DEF TurnInv, TurnTypes, PhaseOK, UnderWay
  <2>3. \/ Excused(u) \/ ToolIn(log[sess[u]], u)
        \/ gate[sess[u]].on /\ gate[sess[u]].timer # "expired"
    BY <2>1 DEF TurnInv, Guarded
  <2>4. CASE Excused(u)
    BY <2>4, StaysExcused
  <2>5. CASE ToolIn(log[sess[u]], u)
    BY <2>1, <2>2, <2>5
  <2>6. CASE gate[sess[u]].on /\ gate[sess[u]].timer # "expired"
    <3>1. CASE sess[u] # sess[t] \/ gate' = gate
      BY <2>1, <2>2, <2>6, <3>1
    <3>2. CASE sess[u] = sess[t] /\ UnderWay(t)
      <4>1. Excused(u)
        BY <1>2, <2>2, <3>2 DEF TurnInv, MetOK, Excused
      <4> QED BY <4>1, StaysExcused
    <3> QED BY <3>1, <3>2
  <2> QED BY <2>3, <2>4, <2>5, <2>6
<1>3. ASSUME NEW s \in Session, s = sess[t] PROVE GateOK(s)'
  <2>1. sess'[t] = s
    BY <1>3 DEF Moves
  <2> QED BY <2>1 DEF GateOK, HeldOK
<1>4. \A u \in Turn : Guarded(u)'
  BY <1>2
<1> QED BY <1>1, <1>3, <1>4

-----------------------------------------------------------------------------
(* The lanes.                                                              *)

(* A turn that is not in a lane can be put at its end.                     *)
LEMMA AppendLane ==
  ASSUME NEW Q, NEW q \in Seq(Turn), InLane(q, Q), NEW t \in Turn, t \notin Q
  PROVE  /\ Append(q, t) \in Seq(Turn) /\ InLane(Append(q, t), Q \cup {t})
         /\ Q # {} => Head(Append(q, t)) = Head(q)
<1> DEFINE a == Append(q, t)
<1>1. /\ Len(q) \in Nat /\ DOMAIN q = 1 .. Len(q)
      /\ a \in Seq(Turn) /\ DOMAIN a = 1 .. Len(q) + 1
      /\ \A i \in 1 .. Len(q) : a[i] = q[i]
      /\ a[Len(q) + 1] = t
  BY AppendProperties, LenProperties
<1>2. Q # {} => Head(a) = Head(q)
  <2>1. Q # {} => q # <<>>
    BY DEF InLane
  <2> QED BY <2>1, HeadTailAppend
<1> HIDE DEF a
<1>3. \A i \in DOMAIN a : i \in DOMAIN q \/ i = Len(q) + 1
  BY <1>1
<1>4. {a[i] : i \in DOMAIN a} = Q \cup {t}
  <2>1. \A i \in DOMAIN a : a[i] \in Q \cup {t}
    BY <1>1, <1>3 DEF InLane
  <2>2. \A x \in Q : \E i \in DOMAIN a : a[i] = x
    BY <1>1 DEF InLane
  <2>3. Len(q) + 1 \in DOMAIN a
    BY <1>1
  <2> QED BY <1>1, <2>1, <2>2, <2>3
<1>5. \A i, j \in DOMAIN a : a[i] = a[j] => i = j
  <2>1. \A i \in DOMAIN q : a[i] = q[i] /\ q[i] \in Q
    BY <1>1 DEF InLane
  <2> QED BY <1>1, <1>3, <2>1 DEF InLane
<1> QED BY <1>1, <1>2, <1>4, <1>5 DEF InLane, a

(* The head of a lane can leave it.                                        *)
LEMMA TailLane ==
  ASSUME NEW Q, NEW q \in Seq(Turn), InLane(q, Q), NEW t \in Q, t = Head(q)
  PROVE  Tail(q) \in Seq(Turn) /\ InLane(Tail(q), Q \ {t})
<1> DEFINE b == Tail(q)
<1>1. q # <<>>
  BY DEF InLane
<1>2. /\ Len(q) \in Nat \ {0} /\ DOMAIN q = 1 .. Len(q)
      /\ b \in Seq(Turn) /\ DOMAIN b = 1 .. Len(q) - 1
      /\ \A i \in 1 .. Len(q) - 1 : b[i] = q[i + 1]
      /\ q[1] = t
  BY <1>1, EmptySeq, HeadTailProperties, LenProperties
<1> HIDE DEF b
<1>3. \A i \in DOMAIN b : i + 1 \in DOMAIN q /\ i + 1 # 1 /\ b[i] = q[i + 1]
  BY <1>2
<1>4. \A i \in DOMAIN q : i = 1 \/ (i - 1 \in DOMAIN b /\ b[i - 1] = q[i])
  BY <1>2
<1>5. 1 \in DOMAIN q
  BY <1>2
<1>6. {b[i] : i \in DOMAIN b} = Q \ {t}
  <2>1. \A i \in DOMAIN b : b[i] \in Q /\ b[i] # t
    BY <1>2, <1>3, <1>5 DEF InLane
  <2>2. \A x \in Q \ {t} : \E i \in DOMAIN b : b[i] = x
    BY <1>2, <1>4 DEF InLane
  <2> QED BY <2>1, <2>2
<1>7. \A i, j \in DOMAIN b : b[i] = b[j] => i = j
  <2> SUFFICES ASSUME NEW i \in DOMAIN b, NEW j \in DOMAIN b, b[i] = b[j] PROVE i = j
    OBVIOUS
  <2>1. i + 1 = j + 1
    BY <1>3 DEF InLane
  <2> QED BY <1>2, <2>1
<1> QED BY <1>2, <1>6, <1>7 DEF InLane, b
-----------------------------------------------------------------------------
(* The steps of a turn move it and nothing else.                           *)
LEMMA Phases ==
  ASSUME TurnInv, NEW t \in Turn, TurnStep(t)
  PROVE  /\ sess[t] \in Session /\ Moves(t)
         /\ TurnTypes' /\ DOMAIN gate' = Session
         /\ \A u \in Turn : PhaseOK(u)'
<1>1. TurnTypes /\ DOMAIN gate = Session /\ PhaseOK(t) /\ \A u \in Turn : PhaseOK(u)
  BY DEF TurnInv, SessionTypes
<1>2. \A p : Step(t, p) => \A u \in Turn : phase'[u] = IF u = t THEN p ELSE phase[u]
  BY <1>1 DEF Step, TurnTypes
<1>3. \A p \in Phase : Step(t, p) => phase' \in [Turn -> Phase]
  BY <1>1 DEF Step, TurnTypes
<1>4. \A g : SetGate(sess[t], g) => DOMAIN gate' = Session
  BY <1>1 DEF SetGate
<1> USE DEF TurnTypes, PhaseOK
<1> DEFINE Goal == /\ phase[t] \notin {"new", "ended", "refused"}
                   /\ Moves(t) /\ TurnTypes' /\ DOMAIN gate' = Session /\ PhaseOK(t)'
<1>5. ASSUME PostRefused(t) \/ PostAnswered(t) \/ PostAccepted(t) \/ PostUnheard(t) PROVE Goal
  <2>1. phase[t] = "posted" /\ UNCHANGED <<wired, sess, attempt, emitted, tooled, mode, gate, late, slips>>
        /\ met \subseteq met'
    BY <1>5 DEF PostRefused, PostAnswered, PostAccepted, PostUnheard
  <2>2. \E p \in {"refused", "ended", "preparing", "unheard"} : Step(t, p)
    BY <1>5 DEF PostRefused, PostAnswered, PostAccepted, PostUnheard
  <2> QED BY <1>1, <1>2, <1>3, <2>1, <2>2 DEF Moves, Phase, UnderWay
<1>6. ASSUME PrepareFails(t) PROVE Goal
  BY <1>1, <1>2, <1>3, <1>4, <1>6 DEF PrepareFails, Failed, Moves, Phase, UnderWay
<1>7. ASSUME Prepare(t) PROVE Goal
  <2>1. phase[t] = "preparing" /\ Step(t, "prepared")
        /\ UNCHANGED <<wired, sess, attempt, emitted, tooled, met, late, slips>>
    BY <1>7 DEF Prepare
  <2>2. PICK m \in Mode : mode' = [mode EXCEPT ![t] = m]
    BY <1>7 DEF Prepare
  <2>3. mode' \in [Turn -> Mode] /\ \A u \in Turn \ {t} : mode'[u] = mode[u]
    BY <1>1, <2>2
  <2>4. DOMAIN gate' = Session
    BY <1>1, <1>4, <1>7 DEF Prepare
  <2> QED BY <1>1, <1>2, <1>3, <2>1, <2>3, <2>4 DEF Moves, Phase, UnderWay
<1>8. ASSUME NEW n \in 1 .. 3, EnterLane(t, n)
      PROVE  /\ \A u \in Turn \ {t} : attempt'[u] = attempt[u] /\ emitted'[u] = emitted[u]
             /\ attempt'[t] = n /\ ~ emitted'[t]
             /\ attempt' \in [Turn -> 0 .. 3] /\ emitted' \in [Turn -> BOOLEAN]
             /\ tooled' \in [Turn -> BOOLEAN]
  BY <1>1, <1>8 DEF EnterLane
<1>9. ASSUME CallHandler(t) PROVE Goal
  <2>1. EnterLane(t, 1) /\ Step(t, "waiting")
    BY <1>9 DEF CallHandler, EnterLane
  <2> QED BY <1>1, <1>2, <1>3, <1>8, <1>9, <2>1 DEF CallHandler, Moves, Phase, UnderWay
<1>10. ASSUME RetryStarts(t) PROVE Goal
  <2>1. EnterLane(t, 2) /\ Step(t, "waiting")
    BY <1>10 DEF RetryStarts, EnterLane
  <2> QED BY <1>1, <1>2, <1>3, <1>8, <1>10, <2>1 DEF RetryStarts, Moves, Phase, UnderWay
<1>11. ASSUME RunStarts(t) PROVE Goal
  BY <1>1, <1>2, <1>3, <1>11 DEF RunStarts, Moves, Phase, UnderWay
<1>12. ASSUME PartialReply(t) \/ ToolStart(t) PROVE Goal
  <2>1. DOMAIN gate' = Session
    BY <1>1, <1>4, <1>12 DEF PartialReply, ToolStart, EmitSSE
  <2>2. CASE PartialReply(t)
    BY <1>1, <2>1, <2>2 DEF PartialReply, Running, Moves, UnderWay
  <2>3. CASE ToolStart(t)
    BY <1>1, <2>1, <2>3 DEF ToolStart, Running, Moves, UnderWay
  <2> QED BY <1>12, <2>2, <2>3
<1>13. ASSUME RunSucceeds(t) PROVE Goal
  BY <1>1, <1>2, <1>3, <1>4, <1>13 DEF RunSucceeds, Running, Moves, Phase, UnderWay
<1>14. \A o : Noted(t, o) => slips \subseteq slips'
  BY DEF Noted
<1>15. ASSUME NEW o, PrimaryFails(t, o) PROVE Goal
  BY <1>1, <1>2, <1>3, <1>4, <1>14, <1>15
     DEF PrimaryFails, MayRerun, Running, Moves, Phase, UnderWay
<1>16. ASSUME NEW o, RetryFails(t, o) PROVE Goal
  <2>1. EnterLane(t, 3) /\ Step(t, "waiting")
    BY <1>16 DEF RetryFails, EnterLane
  <2>2. DOMAIN gate' = Session
    BY <1>4, <1>16 DEF RetryFails
  <2> QED BY <1>1, <1>2, <1>3, <1>8, <1>14, <1>16, <2>1, <2>2
          DEF RetryFails, MayRerun, Running, Moves, Phase, UnderWay
<1>17. ASSUME NEW o, RunGivesUp(t, o) PROVE Goal
  BY <1>1, <1>2, <1>3, <1>4, <1>14, <1>17
     DEF RunGivesUp, Failed, Running, Moves, Phase, UnderWay
<1>18. Goal
  BY <1>5, <1>6, <1>7, <1>9, <1>10, <1>11, <1>12, <1>13, <1>15, <1>16, <1>17 DEF TurnStep, RunEnds
<1>19. sess[t] \in Session
  BY <1>1, <1>18
<1>20. \A u \in Turn \ {t} : PhaseOK(u)'
  BY <1>1, <1>18 DEF Moves
<1> QED BY <1>18, <1>19, <1>20
(* A turn that comes under way meets those of its session that are.        *)
LEMMA Meets == ASSUME TurnInv, NEW t \in Turn, TurnStep(t) PROVE MetOK'
<1>1. Moves(t) /\ MetOK
  BY Phases DEF TurnInv
<1>2. CASE PostAccepted(t)
  <2>1. phase[t] = "posted" /\ ~ UnderWay(t)
    BY <1>2 DEF PostAccepted, UnderWay
  <2>2. \A u \in Turn : u # t /\ UnderWay(u) /\ sess[u] = sess[t] => u \in met' /\ t \in met'
    BY <1>2 DEF PostAccepted
  <2> QED BY <1>1, <2>1, <2>2 DEF MetOK, Moves, UnderWay
<1>3. CASE ~ PostAccepted(t)
  <2>1. phase[t] = "posted" => PostRefused(t) \/ PostAnswered(t) \/ PostUnheard(t)
    BY <1>3 DEF TurnStep, RunEnds, PrepareFails, Prepare, CallHandler, RunStarts, PartialReply,
       ToolStart, RetryStarts, RunSucceeds, PrimaryFails, RetryFails, RunGivesUp, Running
  <2>2. PostRefused(t) \/ PostAnswered(t) \/ PostUnheard(t) =>
          phase'[t] \in {"refused", "ended", "unheard"}
    <3>1. phase \in [Turn -> Phase]
      BY DEF TurnInv, TurnTypes
    <3> QED BY <3>1 DEF PostRefused, PostAnswered, PostUnheard, Step
  <2>3. UnderWay(t)' => UnderWay(t)
    BY <1>1, <2>1, <2>2 DEF Moves, UnderWay
  <2> QED BY <1>1, <2>3 DEF MetOK, Moves, UnderWay
<1> QED BY <1>2, <1>3

(* The lanes keep the runs that wait or run.                               *)
LEMMA Lanes ==
  ASSUME TurnInv, NEW t \in Turn, TurnStep(t)
  PROVE  lane' \in [Session -> Seq(Turn)] /\ LaneOK'
<1>0. PICK s \in Session : s = sess[t]
  BY Phases
<1> DEFINE q == lane[s]
           Here == {"waiting", "running"}
<1>1. s = sess[t] /\ Moves(t) /\ q \in Seq(Turn) /\ InLane(q, Queued(s))
      /\ lane \in [Session -> Seq(Turn)] /\ phase \in [Turn -> Phase]
  BY <1>0, Phases DEF TurnInv, SessionTypes, TurnTypes, LaneOK
<1>2. \A r \in Session : InLane(lane[r], Queued(r))
  BY DEF TurnInv, LaneOK
<1>3. /\ \A u \in Turn : Running(u) => u = Head(lane[sess[u]])
      /\ \A u, v \in Turn : Running(u) /\ Running(v) => u = v
  BY DEF TurnInv, LaneOK
<1>4. \A r \in Session : r # s => Queued(r)' = Queued(r)
  BY <1>1 DEF Queued, Moves
<1>5. /\ t \in Queued(s) <=> phase[t] \in Here
      /\ Queued(s)' = IF phase'[t] \in Here THEN Queued(s) \cup {t} ELSE Queued(s) \ {t}
  BY <1>1 DEF Queued, Moves
<1>6. \A u \in Turn \ {t} : sess'[u] = sess[u] /\ (Running(u)' <=> Running(u))
  BY <1>1 DEF Moves, Running
<1>7. sess'[t] = s
  BY <1>1 DEF Moves
<1>8. ASSUME UNCHANGED lane, phase[t] \in Here <=> phase'[t] \in Here,
             ~ Running(t)' \/ Running(t)
      PROVE  lane' \in [Session -> Seq(Turn)] /\ LaneOK'
  <2>1. \A r \in Session : Queued(r)' = Queued(r)
    BY <1>4, <1>5, <1>8
  <2>2. \A r \in Session : InLane(lane'[r], Queued(r)')
    BY <1>2, <1>8, <2>1
  <2>3. \A u \in Turn : Running(u)' => Running(u)
    BY <1>6, <1>8
  <2>4. \A u \in Turn : sess'[u] = sess[u]
    BY <1>1 DEF Moves
  <2> QED BY <1>1, <1>3, <1>8, <2>2, <2>3, <2>4 DEF LaneOK
<1>9. CASE PostRefused(t) \/ PostAnswered(t) \/ PostAccepted(t) \/ PostUnheard(t) \/ PrepareFails(t) \/ Prepare(t)
  <2>1. UNCHANGED lane /\ phase[t] \notin Here
    BY <1>9 DEF PostRefused, PostAnswered, PostAccepted, PostUnheard, PrepareFails, Prepare
  <2>2. phase'[t] \notin Here
    BY <1>1, <1>9 DEF PostRefused, PostAnswered, PostAccepted, PostUnheard, PrepareFails, Prepare, Failed, Step
  <2> QED BY <1>8, <2>1, <2>2 DEF Running
<1>10. CASE PartialReply(t) \/ ToolStart(t)
  <2>1. UNCHANGED <<lane, phase>> /\ Running(t)
    BY <1>10 DEF PartialReply, ToolStart
  <2> QED BY <1>8, <2>1 DEF Running
<1>11. CASE RunStarts(t)
  <2>1. UNCHANGED lane /\ phase[t] = "waiting" /\ phase'[t] = "running"
        /\ t = Head(q) /\ \A u \in Turn : ~ Running(u)
    BY <1>1, <1>11 DEF RunStarts, Step
  <2>2. \A r \in Session : Queued(r)' = Queued(r)
    BY <1>4, <1>5, <2>1
  <2>3. \A r \in Session : InLane(lane'[r], Queued(r)')
    BY <1>2, <2>1, <2>2
  <2>4. \A u \in Turn : Running(u)' => u = t
    BY <1>6, <2>1
  <2> QED BY <1>1, <1>7, <2>1, <2>3, <2>4 DEF LaneOK
<1>12. CASE CallHandler(t) \/ RetryStarts(t)
  <2>1. lane' = [lane EXCEPT ![s] = Append(q, t)] /\ phase[t] \notin Here /\ phase'[t] = "waiting"
    BY <1>1, <1>12 DEF CallHandler, RetryStarts, EnterLane, Step
  <2>2. /\ Append(q, t) \in Seq(Turn) /\ InLane(Append(q, t), Queued(s) \cup {t})
        /\ Queued(s) # {} => Head(Append(q, t)) = Head(q)
    <3> DEFINE Q == Queued(s)
    <3>1. q \in Seq(Turn) /\ InLane(q, Q) /\ t \notin Q
      BY <1>1, <1>5, <2>1
    <3> HIDE DEF q, Q
    <3>2. /\ Append(q, t) \in Seq(Turn) /\ InLane(Append(q, t), Q \cup {t})
          /\ Q # {} => Head(Append(q, t)) = Head(q)
      BY <3>1, AppendLane
    <3> QED BY <3>2 DEF Q
  <2>3. lane' \in [Session -> Seq(Turn)]
        /\ \A r \in Session : lane'[r] = IF r = s THEN Append(q, t) ELSE lane[r]
    BY <1>1, <2>1, <2>2
  <2>4. \A r \in Session : InLane(lane'[r], Queued(r)')
    BY <1>2, <1>4, <1>5, <2>1, <2>2, <2>3
  <2>5. ~ Running(t)'
    BY <2>1 DEF Running
  <2>6. ASSUME NEW u \in Turn, Running(u)' PROVE u = Head(lane'[sess'[u]])
    <3>1. Running(u) /\ u # t /\ sess'[u] = sess[u]
      BY <1>6, <2>5, <2>6
    <3>2. sess[u] \in Session /\ u \in Queued(sess[u])
      BY <3>1 DEF Running, TurnInv, TurnTypes, PhaseOK, Queued
    <3> QED BY <1>3, <2>2, <2>3, <3>1, <3>2
  <2> QED BY <1>3, <1>6, <2>3, <2>4, <2>5, <2>6 DEF LaneOK
<1>13. CASE RunEnds(t)
  <2>1. Running(t)
    BY <1>13 DEF RunEnds, RunSucceeds, PrimaryFails, RetryFails, RunGivesUp
  <2>2. t = Head(q) /\ t \in Queued(s)
    BY <1>1, <1>3, <1>5, <2>1 DEF Running
  <2>3. Tail(q) \in Seq(Turn) /\ InLane(Tail(q), Queued(s) \ {t})
    BY <1>1, <2>2, TailLane
  <2>4. \/ phase'[t] \notin Here /\ lane' = [lane EXCEPT ![s] = Tail(q)]
        \/ phase'[t] = "waiting" /\ lane' = [lane EXCEPT ![s] = Append(Tail(q), t)]
    BY <1>1, <1>13
       DEF RunEnds, RunSucceeds, PrimaryFails, RetryFails, RunGivesUp, LeaveLane, Failed, EnterLane, Step
  <2>5. \A u \in Turn : ~ Running(u)'
    BY <1>3, <1>6, <2>1, <2>4 DEF Running
  <2>6. lane' \in [Session -> Seq(Turn)] /\ \A r \in Session : InLane(lane'[r], Queued(r)')
    <3>1. CASE phase'[t] \notin Here /\ lane' = [lane EXCEPT ![s] = Tail(q)]
      <4>1. lane' \in [Session -> Seq(Turn)]
            /\ \A r \in Session : lane'[r] = IF r = s THEN Tail(q) ELSE lane[r]
        BY <1>1, <2>3, <3>1
      <4> QED BY <1>2, <1>4, <1>5, <2>3, <3>1, <4>1
    <3>2. CASE phase'[t] = "waiting" /\ lane' = [lane EXCEPT ![s] = Append(Tail(q), t)]
      <4>1. Append(Tail(q), t) \in Seq(Turn)
            /\ InLane(Append(Tail(q), t), (Queued(s) \ {t}) \cup {t})
        <5> DEFINE p == Tail(q)  Q == Queued(s) \ {t}
        <5>1. p \in Seq(Turn) /\ InLane(p, Q) /\ t \notin Q
          BY <2>3
        <5> HIDE DEF p, Q
        <5>2. Append(p, t) \in Seq(Turn) /\ InLane(Append(p, t), Q \cup {t})
          BY <5>1, AppendLane
        <5> QED BY <5>2 DEF p, Q
      <4>2. (Queued(s) \ {t}) \cup {t} = Queued(s) \cup {t}
        OBVIOUS
      <4>3. lane' \in [Session -> Seq(Turn)]
            /\ \A r \in Session : lane'[r] = IF r = s THEN Append(Tail(q), t) ELSE lane[r]
        BY <1>1, <3>2, <4>1
      <4> QED BY <1>2, <1>4, <1>5, <3>2, <4>1, <4>2, <4>3
    <3> QED BY <2>4, <3>1, <3>2
  <2> QED BY <2>5, <2>6 DEF LaneOK
<1> QED BY <1>9, <1>10, <1>11, <1>12, <1>13 DEF TurnStep
-----------------------------------------------------------------------------
(* What a step of a turn sends, and the gate it leaves.                    *)
Speaks(t) ==
  /\ \E out : Fine(sess[t], out) /\ log' = [log EXCEPT ![sess[t]] = log[sess[t]] \o out]
  /\ \A r \in Session : r # sess[t] => gate'[r] = gate[r]
  /\ UnderWay(t) \/ gate' = gate
  /\ GateOK(sess[t])' /\ Guarded(t)'

(* Sending nothing is fine.                                                *)
LEMMA NothingSent ==
  ASSUME TurnInv, NEW s \in Session, UNCHANGED log
  PROVE  \E out : Fine(s, out) /\ log' = [log EXCEPT ![s] = log[s] \o out]
<1>1. log[s] \o <<>> = log[s]
  <2>1. log[s] \in Seq(Event)
    BY DEF TurnInv, SessionTypes
  <2> QED BY <2>1, ConcatEmptySeq
<1>2. log' = [log EXCEPT ![s] = log[s] \o <<>>]
  BY <1>1 DEF TurnInv, SessionTypes
<1> QED BY <1>2, FineNone

(* A gate that is left alone is in order if the turn, when its text is     *)
(* held, goes on with the same run.                                        *)
LEMMA GateStays ==
  ASSUME TurnInv, NEW t \in Turn, sess[t] \in Session, Moves(t), gate'[sess[t]] = gate[sess[t]],
         phase[t] \in {"waiting", "running"} /\ (attempt[t] = 3 \/ (Running(t) /\ emitted[t])) =>
           /\ phase'[t] \in {"waiting", "running"} /\ (Running(t) => phase'[t] = "running")
           /\ attempt'[t] = attempt[t] /\ (emitted[t] => emitted'[t])
  PROVE  GateOK(sess[t])'
<1>0. PICK s \in Session : s = sess[t]
  OBVIOUS
<1>1. sess'[t] = s /\ gate'[s] = gate[s]
  BY <1>0 DEF Moves
<1>2. CASE gate[s] = NoGate \/ gate[s] = FreshGate("action")
  BY <1>1, <1>2 DEF GateOK, NoGate, FreshGate
<1>3. ASSUME NEW e \in Event, HeldOK(s, e),
             \/ gate[s] = Holding(e, "running")
             \/ gate[s] = Holding(e, "expired") /\ e.turn \in late
      PROVE  GateOK(sess[t])'
  <2>1. e.turn \in Turn
    BY DEF Event
  <2>2. HeldOK(s, e)'
    <3>1. CASE e.turn = t
      BY <1>1, <1>3, <3>1 DEF HeldOK, Running
    <3>2. CASE e.turn # t
      BY <1>3, <2>1, <3>2 DEF HeldOK, Moves
    <3> QED BY <3>1, <3>2
  <2>3. \/ gate'[s] = Holding(e, "running")
        \/ gate'[s] = Holding(e, "expired") /\ e.turn \in late'
    BY <1>1, <1>3 DEF Moves
  <2> QED BY <1>1, <2>2, <2>3 DEF GateOK, Holding, HeldOK
<1> QED BY <1>0, <1>2, <1>3 DEF TurnInv, GateOK

(* A gate that is taken down is in order.                                  *)
LEMMA GateDown ==
  ASSUME TurnInv, NEW t \in Turn, sess[t] \in Session, Moves(t), gate'[sess[t]] = NoGate
  PROVE  GateOK(sess[t])'
  BY DEF Moves, GateOK, NoGate

(* What a flush brings out: nothing, or a text that may be sent.           *)
LEMMA FlushedIs ==
  ASSUME TurnInv, NEW t \in Turn, NEW s \in Session, s = sess[t], Moves(t), UnderWay(t)
  PROVE  \/ Flushed(gate[s]) = <<>>
         \/ \E h \in Event :
              /\ Flushed(gate[s]) = <<h>> /\ MaySend(s, h) /\ \A f : Quiet(h, f)
              /\ h.turn = t \/ Told(s, h)
              /\ gate[s].timer = "expired" \/ ExcusedAfter(t) => Told(s, h)
<1>1. CASE gate[s] = NoGate \/ gate[s] = FreshGate("action")
  BY <1>1 DEF NoGate, FreshGate, Flushed
<1>2. ASSUME NEW h \in Event, HeldOK(s, h),
             \/ gate[s] = Holding(h, "running")
             \/ gate[s] = Holding(h, "expired") /\ h.turn \in late
      PROVE  /\ Flushed(gate[s]) = <<h>> /\ MaySend(s, h) /\ \A f : Quiet(h, f)
             /\ h.turn = t \/ Told(s, h)
             /\ gate[s].timer = "expired" \/ ExcusedAfter(t) => Told(s, h)
  <2>1. h.turn \in Turn /\ ~ Terminal(h)
    BY <1>2 DEF Event, HeldOK, Terminal
  <2>2. Flushed(gate[s]) = <<h>> /\ (gate[s].timer = "expired" => h.turn \in late)
    BY <1>2 DEF Flushed, Holding
  <2>3. MaySend(s, h)
    <3>1. AfterOK(s, h)
      <4>1. CASE h.turn = t
        BY <1>2, <2>1, <4>1 DEF AfterOK, HeldOK, Moves
      <4>2. CASE h.turn # t
        BY <1>2, <2>1, <4>2 DEF AfterOK, HeldOK, Moves
      <4> QED BY <4>1, <4>2
    <3> QED BY <1>2, <3>1 DEF MaySend, HeldOK
  <2>4. \A f : Quiet(h, f)
    BY <2>1 DEF Quiet
  <2>5. h.turn # t => Told(s, h)
    <3> SUFFICES ASSUME h.turn # t PROVE Told(s, h)
      OBVIOUS
    <3>1. UnderWay(h.turn) /\ sess[h.turn] = s
      BY <1>2 DEF HeldOK, UnderWay
    <3>2. Excused(h.turn)
      BY <2>1, <3>1 DEF TurnInv, MetOK, Excused
    <3> QED BY <3>2, StaysExcused DEF Told
  <2>6. gate[s].timer = "expired" => Told(s, h)
    BY <2>2 DEF Told, ExcusedAfter, Moves
  <2>7. ExcusedAfter(t) => Told(s, h)
    BY <2>5 DEF Told
  <2> QED BY <2>2, <2>3, <2>4, <2>5, <2>6, <2>7
<1> QED BY <1>1, <1>2 DEF TurnInv, GateOK

(* A flush alone, of a turn that is excused.                               *)
LEMMA FineFlush ==
  ASSUME TurnInv, NEW t \in Turn, NEW s \in Session, s = sess[t], Moves(t), UnderWay(t),
         ExcusedAfter(t)
  PROVE  Fine(s, Flushed(gate[s]) \o <<>>)
<1>1. \A f \in Seq(Event) : f \o <<>> = f
  BY ConcatEmptySeq
<1>2. CASE Flushed(gate[s]) = <<>>
  BY <1>1, <1>2, FineNone
<1>3. ASSUME NEW h \in Event, Flushed(gate[s]) = <<h>>, MaySend(s, h), Told(s, h)
      PROVE  Fine(s, Flushed(gate[s]) \o <<>>)
  BY <1>1, <1>3, FineOne
<1> QED BY <1>2, <1>3, FlushedIs

(* A flush and an event that ends the turn, or excuses what is flushed.    *)
LEMMA FineFlushEvent ==
  ASSUME TurnInv, NEW t \in Turn, NEW s \in Session, s = sess[t], Moves(t), UnderWay(t),
         NEW e, MaySend(s, e), Told(s, e),
         (e.turn = t /\ Terminal(e)) \/ ExcusedAfter(t) \/ gate[s].timer = "expired"
  PROVE  Fine(s, Flushed(gate[s]) \o <<e>>)
<1>0. e \in Event
  BY DEF MaySend
<1>1. CASE Flushed(gate[s]) = <<>>
  <2>1. <<>> \o <<e>> = <<e>>
    BY <1>0, ConcatEmptySeq
  <2> QED BY <1>1, <2>1, FineOne
<1>2. ASSUME NEW h \in Event, Flushed(gate[s]) = <<h>>, MaySend(s, h), Quiet(h, e),
             h.turn = t \/ Told(s, h),
             gate[s].timer = "expired" \/ ExcusedAfter(t) => Told(s, h)
      PROVE  Fine(s, Flushed(gate[s]) \o <<e>>)
  <2>1. <<h>> \o <<e>> = <<h, e>>
    BY <1>0, Pair
  <2>2. Told(s, h) \/ EndsWith(h, e)
    BY <1>2 DEF EndsWith
  <2> QED BY <1>2, <2>1, <2>2, FineTwo
<1> QED BY <1>1, <1>2, FlushedIs

(* A flush, the end of the turn, and an event that may follow the end.     *)
LEMMA FineFlushTwo ==
  ASSUME TurnInv, NEW t \in Turn, NEW s \in Session, s = sess[t], Moves(t), UnderWay(t),
         NEW e, MaySend(s, e), e.turn = t, Terminal(e),
         NEW f, MaySend(s, f), Told(s, f), Quiet(e, f)
  PROVE  Fine(s, (Flushed(gate[s]) \o <<e>>) \o <<f>>)
<1>0. e \in Event /\ f \in Event /\ Told(s, e)
  BY DEF MaySend, Told, Terminal
<1>1. CASE Flushed(gate[s]) = <<>>
  <2>1. (<<>> \o <<e>>) \o <<f>> = <<e, f>>
    BY <1>0, ConcatEmptySeq, Pair
  <2> QED BY <1>0, <1>1, <2>1, FineTwo
<1>2. ASSUME NEW h \in Event, Flushed(gate[s]) = <<h>>, MaySend(s, h), Quiet(h, e), Quiet(h, f),
             h.turn = t \/ Told(s, h)
      PROVE  Fine(s, (Flushed(gate[s]) \o <<e>>) \o <<f>>)
  <2>1. (<<h>> \o <<e>>) \o <<f>> = <<h, e, f>>
    <3>1. <<h>> \o <<e>> = <<h, e>>
      BY <1>0, Pair
    <3>2. <<h, e>> \o <<f>> = <<h, e, f>>
      BY <1>0, Triple
    <3> QED BY <3>1, <3>2
  <2>2. Told(s, h) \/ EndsWith(h, e)
    BY <1>2 DEF EndsWith
  <2> QED BY <1>0, <1>2, <2>1, <2>2, FineThree
<1> QED BY <1>1, <1>2, FlushedIs
-----------------------------------------------------------------------------
(* The events of a turn itself.                                            *)

(* An end may be sent by a turn that ends, or whose title check throws; an *)
(* answer, only by its last run unless the title check throws.             *)
LEMMA EndMaySend ==
  ASSUME TurnInv, NEW t \in Turn, Moves(t), NEW k \in {"done", "error"},
         phase'[t] = "ended" \/ <<t, "countFails">> \in slips',
         k = "done" => attempt'[t] = attempt[t] \/ <<t, "countFails">> \in slips'
  PROVE  /\ MaySend(sess[t], Ev(k, t)) /\ Told(sess[t], Ev(k, t))
         /\ Terminal(Ev(k, t)) /\ Ev(k, t).turn = t
<1> DEFINE e == Ev(k, t)
<1>1. e \in Event /\ e.turn = t /\ e.type = k /\ e.run = attempt[t]
  BY DEF Ev, Event, TurnInv, TurnTypes
<1> HIDE DEF e
<1>2. MaySend(sess[t], e) /\ Told(sess[t], e) /\ Terminal(e)
  BY <1>1 DEF MaySend, AfterOK, Told, Terminal, Moves
<1> QED BY <1>1, <1>2 DEF e

(* A text may be sent by the last run of a turn.                           *)
LEMMA TextMaySend ==
  ASSUME TurnInv, NEW t \in Turn, Moves(t), NEW e \in Event, e.turn = t, e.type = "token",
         e.run = attempt'[t], emitted'[t] \/ attempt'[t] = 3 \/ phase'[t] = "ended"
  PROVE  MaySend(sess[t], e) /\ ~ Terminal(e)
  BY DEF MaySend, AfterOK, Terminal, Moves

(* What the gate of an unexcused turn in action mode is before its tool is *)
(* called: on, and not timed out.                                          *)
LEMMA GateGuards ==
  ASSUME TurnInv, NEW t \in Turn, Moves(t), mode'[t] = mode[t], mode[t] = "action",
         phase[t] \in {"prepared", "waiting", "running", "pausing"}
  PROVE  \/ ExcusedAfter(t) \/ ToolIn(log[sess[t]], t)
         \/ gate[sess[t]].on /\ gate[sess[t]].timer # "expired"
  BY StaysExcused DEF TurnInv, Guarded

(* What gates look like.                                                   *)
LEMMA Shapes ==
  /\ ~ NoGate.on /\ NoGate.held = <<>> /\ NoGate.timer = "off"
  /\ FreshGate("action").on
  /\ FreshGate("action").held = <<>> /\ FreshGate("action").timer = "off"
  /\ \A e, w : /\ Holding(e, w).on /\ Holding(e, w).held # <<>> /\ Holding(e, w).timer = w
                /\ \A x : [Holding(e, w) EXCEPT !.timer = x] = Holding(e, x)
<1>1. \A e : <<e>> # <<>>
  OBVIOUS
<1>2. \A e, w : Holding(e, w).on /\ Holding(e, w).held = <<e>> /\ Holding(e, w).timer = w
  BY DEF Holding
<1>5. ASSUME NEW e, NEW w, NEW x PROVE [Holding(e, w) EXCEPT !.timer = x] = Holding(e, x)
  <2> DEFINE p == [Holding(e, w) EXCEPT !.timer = x]  q == Holding(e, x)
             F == {"on", "held", "timer"}
  <2>1. p = [f \in F |-> p[f]] /\ p.on = TRUE /\ p.held = <<e>> /\ p.timer = x
    BY DEF Holding
  <2>2. q = [f \in F |-> q[f]] /\ q.on = TRUE /\ q.held = <<e>> /\ q.timer = x
    BY DEF Holding
  <2> HIDE DEF p, q
  <2>3. p = q
    BY <2>1, <2>2
  <2> QED BY <2>3 DEF p, q
<1>3. /\ FreshGate("action").on
      /\ FreshGate("action").held = <<>> /\ FreshGate("action").timer = "off"
  BY DEF NoGate, FreshGate
<1>4. ~ NoGate.on /\ NoGate.held = <<>> /\ NoGate.timer = "off"
  BY DEF NoGate
<1> QED BY <1>1, <1>2, <1>3, <1>4, <1>5

(* A gate that is off holds nothing.                                       *)
LEMMA OffIsDown ==
  ASSUME TurnInv, NEW s \in Session, ~ gate[s].on PROVE gate[s] = NoGate
<1>1. GateOK(s)
  BY DEF TurnInv
<1> QED BY <1>1, Shapes DEF GateOK

(* A text at the gate: it gets through, or takes the place of the one that *)
(* is held.                                                                *)
LEMMA TextAtGate ==
  ASSUME TurnInv, NEW t \in Turn, NEW s \in Session, s = sess[t], Moves(t), Running(t),
         NEW e \in Event, e.turn = t, e.type = "token", e.run = attempt'[t],
         \/ phase'[t] = "running" /\ emitted'[t]
         \/ phase'[t] \in {"waiting", "running"} /\ attempt'[t] = 3,
         mode'[t] = mode[t], gate'[s] = Passed(gate[s], e).gate
  PROVE  /\ Fine(s, Passed(gate[s], e).out)
         /\ GateOK(sess[t])'
         /\ \/ mode'[t] # "action" \/ ExcusedAfter(t) \/ ToolIn(log[s], t)
            \/ gate'[s].on /\ gate'[s].timer # "expired"
<1>1. MaySend(s, e) /\ UnderWay(t) /\ phase[t] = "running"
  BY TextMaySend DEF Running, UnderWay
<1>2. \/ mode'[t] # "action" \/ ExcusedAfter(t) \/ ToolIn(log[s], t)
      \/ gate[s].on /\ gate[s].timer # "expired"
  BY <1>1, GateGuards
<1>3. CASE gate[s].on /\ gate[s].timer = "expired"
  <2>1. gate'[s] = NoGate /\ Passed(gate[s], e).out = Flushed(gate[s]) \o <<e>>
    BY <1>3 DEF Passed
  <2>2. Told(s, e)
    BY <1>2, <1>3 DEF Told
  <2> QED BY <1>1, <1>2, <1>3, <2>1, <2>2, FineFlushEvent, GateDown
<1>4. CASE gate[s].on /\ gate[s].timer # "expired"
  <2>1. gate'[s] = Holding(e, "running") /\ Passed(gate[s], e).out = <<>>
    BY <1>4 DEF Passed, Holding
  <2>2. sess'[t] = s
    BY DEF Moves
  <2>3. HeldOK(s, e)'
    BY <2>2 DEF HeldOK
  <2>4. GateOK(s)'
    BY <2>1, <2>3 DEF GateOK, Holding
  <2>5. gate'[s].on /\ gate'[s].timer # "expired"
    BY <2>1 DEF Holding
  <2>6. GateOK(sess[t])'
    BY <2>2, <2>4 DEF GateOK, HeldOK
  <2> QED BY <2>1, <2>5, <2>6, FineNone
<1>5. CASE ~ gate[s].on
  <2>1. gate[s] = NoGate
    BY <1>5, OffIsDown
  <2>2. gate'[s] = NoGate /\ Passed(gate[s], e).out = <<e>>
    BY <1>5, <2>1 DEF Passed
  <2>3. Told(s, e)
    BY <1>2, <1>5 DEF Told
  <2> QED BY <1>1, <1>2, <1>5, <2>2, <2>3, FineOne, GateDown
<1> QED BY <1>3, <1>4, <1>5
-----------------------------------------------------------------------------
(* Every step of a turn speaks in this way.                                *)

(* The steps that send nothing and leave the gates alone.                  *)
LEMMA QuietSteps ==
  ASSUME TurnInv, NEW t \in Turn,
         \/ PostRefused(t) \/ PostAccepted(t) \/ PostUnheard(t)
         \/ CallHandler(t) \/ RunStarts(t) \/ RetryStarts(t)
  PROVE  Speaks(t)
<1>1. Moves(t) /\ sess[t] \in Session
  BY Phases DEF TurnStep
<1>2. UNCHANGED <<wired, sess, gate, log, mode>>
  BY DEF PostRefused, PostAccepted, PostUnheard, CallHandler, RunStarts, RetryStarts
<1>3. PhaseOK(t) /\ Guarded(t) /\ phase \in [Turn -> Phase]
      /\ attempt \in [Turn -> 0 .. 3] /\ emitted \in [Turn -> BOOLEAN]
  BY DEF TurnInv, TurnTypes
<1>4. CASE RunStarts(t)
  <2>1. phase[t] = "waiting" /\ phase'[t] = "running" /\ UNCHANGED <<wired, attempt, emitted>>
    BY <1>3, <1>4 DEF RunStarts, Step
  <2>2. GateOK(sess[t])'
    BY <1>1, <1>2, <2>1, GateStays DEF Running
  <2>3. Guarded(t)'
    BY <1>1, <1>2, <1>3, <2>1, StaysExcused DEF Guarded, Excused, ExcusedAfter
  <2> QED BY <1>1, <1>2, <2>2, <2>3, NothingSent DEF Speaks
<1>5. CASE PostRefused(t) \/ PostAccepted(t) \/ PostUnheard(t) \/ CallHandler(t) \/ RetryStarts(t)
  <2>1. \/ phase[t] = "posted" /\ phase'[t] \in {"refused", "preparing", "unheard"}
        \/ phase[t] \in {"prepared", "pausing"} /\ phase'[t] = "waiting"
    BY <1>3, <1>5 DEF PostRefused, PostAccepted, PostUnheard, CallHandler, RetryStarts, EnterLane, Step
  <2>2. GateOK(sess[t])'
    BY <1>1, <1>2, <2>1, GateStays
  <2>3. Guarded(t)'
    BY <1>1, <1>2, <1>3, <2>1, StaysExcused DEF Guarded, Excused, ExcusedAfter
  <2> QED BY <1>1, <1>2, <2>2, <2>3, NothingSent DEF Speaks
<1> QED BY <1>4, <1>5

(* The message is answered without a run, before its turn is classified.   *)
LEMMA AnsweredSpeaks == ASSUME TurnInv, NEW t \in Turn, PostAnswered(t) PROVE Speaks(t)
<1>1. Moves(t) /\ sess[t] \in Session
  BY Phases DEF TurnStep
<1>2. phase[t] = "posted" /\ phase'[t] = "ended" /\ UNCHANGED <<wired, sess, gate, mode, attempt>>
  BY DEF PostAnswered, Step, TurnInv, TurnTypes
<1>3. mode'[t] = "none"
  BY <1>2 DEF TurnInv, PhaseOK
<1>4. GateOK(sess[t])' /\ Guarded(t)'
  BY <1>1, <1>2, GateStays DEF Guarded
<1>5. /\ MaySend(sess[t], Ev("error", t)) /\ Told(sess[t], Ev("error", t))
      /\ MaySend(sess[t], Ev("done", t)) /\ Told(sess[t], Ev("done", t))
  BY <1>1, <1>2, EndMaySend
<1>6. CASE Send(sess[t], <<Ev("error", t)>>)
  <2>1. Fine(sess[t], <<Ev("error", t)>>)
    BY <1>5, FineOne
  <2> QED BY <1>2, <1>4, <1>6, <2>1 DEF Send, Speaks
<1>7. CASE Send(sess[t], <<Ev("token", t), Ev("done", t)>>)
  <2> DEFINE e == Ev("token", t)
  <2>1. e \in Event /\ e.turn = t /\ e.type = "token" /\ e.run = attempt'[t]
    BY <1>2 DEF Ev, Event, TurnInv, TurnTypes
  <2> HIDE DEF e
  <2>2. MaySend(sess[t], e) /\ Told(sess[t], e) /\ Quiet(e, Ev("done", t))
    BY <1>1, <1>2, <1>3, <2>1, TextMaySend DEF Told, Quiet
  <2>3. Fine(sess[t], <<e, Ev("done", t)>>)
    BY <1>5, <2>2, FineTwo
  <2> QED BY <1>2, <1>4, <1>7, <2>3 DEF Send, Speaks, e
<1> QED BY <1>6, <1>7 DEF PostAnswered

(* A turn that fails before its run: its error, and no gate.               *)
LEMMA PrepareFailsSpeaks == ASSUME TurnInv, NEW t \in Turn, PrepareFails(t) PROVE Speaks(t)
<1>1. Moves(t) /\ sess[t] \in Session
  BY Phases DEF TurnStep
<1>2. phase[t] = "preparing" /\ phase'[t] = "ended" /\ SetGate(sess[t], NoGate)
      /\ Send(sess[t], <<>> \o <<Ev("error", t)>>)
  BY DEF PrepareFails, Failed, Step, TurnInv, TurnTypes
<1>3. MaySend(sess[t], Ev("error", t)) /\ Told(sess[t], Ev("error", t))
  BY <1>1, <1>2, EndMaySend
<1>4. Fine(sess[t], <<>> \o <<Ev("error", t)>>)
  <2>1. <<>> \o <<Ev("error", t)>> = <<Ev("error", t)>>
    BY <1>3, ConcatEmptySeq DEF MaySend
  <2> QED BY <1>3, <2>1, FineOne
<1>5. gate'[sess[t]] = NoGate /\ \A r \in Session : r # sess[t] => gate'[r] = gate[r]
  BY <1>1, <1>2 DEF SetGate, TurnInv, SessionTypes
<1>6. GateOK(sess[t])' /\ Guarded(t)'
  BY <1>1, <1>2, <1>5, GateDown DEF Guarded
<1> QED BY <1>2, <1>4, <1>5, <1>6 DEF Send, Speaks, UnderWay

(* A turn is classified: its context is fresh, or there is none.           *)
LEMMA PrepareSpeaks == ASSUME TurnInv, NEW t \in Turn, Prepare(t) PROVE Speaks(t)
<1>1. Moves(t) /\ sess[t] \in Session
  BY Phases DEF TurnStep
<1>2. phase[t] = "preparing" /\ UNCHANGED <<wired, sess, log>>
  BY DEF Prepare
<1>3. PICK m \in Mode : /\ mode' = [mode EXCEPT ![t] = m]
                        /\ IF m = "none" THEN UNCHANGED gate ELSE SetGate(sess[t], FreshGate(m))
  BY DEF Prepare
<1>4. mode'[t] = m /\ sess'[t] = sess[t]
  BY <1>2, <1>3 DEF TurnInv, TurnTypes
<1>5. CASE m = "none"
  <2>1. GateOK(sess[t])' /\ Guarded(t)'
    BY <1>1, <1>2, <1>3, <1>4, <1>5, GateStays DEF Guarded
  <2> QED BY <1>1, <1>2, <1>3, <1>5, <2>1, NothingSent DEF Speaks
<1>6. CASE m # "none"
  <2>1. gate'[sess[t]] = FreshGate(m) /\ \A r \in Session : r # sess[t] => gate'[r] = gate[r]
    BY <1>1, <1>3, <1>6 DEF SetGate, TurnInv, SessionTypes
  <2>2. CASE m = "answer"
    <3>1. gate'[sess[t]] = NoGate
      BY <2>1, <2>2 DEF FreshGate, NoGate
    <3>2. GateOK(sess[t])' /\ Guarded(t)'
      BY <1>1, <1>4, <2>2, <3>1, GateDown DEF Guarded
    <3> QED BY <1>1, <1>2, <2>1, <3>2, NothingSent DEF Speaks, UnderWay
  <2>3. CASE m = "action"
    <3>1. GateOK(sess[t])'
      BY <1>4, <2>1, <2>3 DEF GateOK, FreshGate, NoGate
    <3>2. gate'[sess[t]].on /\ gate'[sess[t]].timer # "expired"
      BY <2>1, <2>3 DEF FreshGate, NoGate
    <3>3. Guarded(t)'
      BY <1>4, <3>2 DEF Guarded
    <3> QED BY <1>1, <1>2, <2>1, <3>1, <3>3, NothingSent DEF Speaks, UnderWay
  <2> QED BY <1>6, <2>2, <2>3 DEF Mode
<1> QED BY <1>5, <1>6
(* A text of the run.                                                      *)
LEMMA ReplySpeaks == ASSUME TurnInv, NEW t \in Turn, PartialReply(t) PROVE Speaks(t)
<1> DEFINE e == Ev("token", t)
<1>1. Moves(t) /\ sess[t] \in Session
  BY Phases DEF TurnStep
<1>2. Running(t) /\ UNCHANGED <<wired, sess, phase, attempt, mode>> /\ EmitSSE(sess[t], e)
  BY DEF PartialReply
<1>3. emitted'[t] /\ phase'[t] = "running"
  BY <1>2 DEF PartialReply, Running, TurnInv, TurnTypes
<1>4. e \in Event /\ e.turn = t /\ e.type = "token" /\ e.run = attempt'[t]
  BY <1>2 DEF Ev, Event, TurnInv, TurnTypes
<1> HIDE DEF e
<1>5. /\ gate'[sess[t]] = Passed(gate[sess[t]], e).gate
      /\ \A r \in Session : r # sess[t] => gate'[r] = gate[r]
      /\ log' = [log EXCEPT ![sess[t]] = log[sess[t]] \o Passed(gate[sess[t]], e).out]
  BY <1>1, <1>2 DEF EmitSSE, SetGate, Send, TurnInv, SessionTypes
<1>6. /\ Fine(sess[t], Passed(gate[sess[t]], e).out)
      /\ GateOK(sess[t])'
      /\ \/ mode'[t] # "action" \/ ExcusedAfter(t) \/ ToolIn(log[sess[t]], t)
         \/ gate'[sess[t]].on /\ gate'[sess[t]].timer # "expired"
  BY <1>1, <1>2, <1>3, <1>4, <1>5, TextAtGate
<1>7. ToolIn(log[sess[t]], t) => ToolIn(log'[sess[t]], t)
  BY <1>1, <1>5, <1>6, Sent
<1>8. Guarded(t)'
  BY <1>2, <1>6, <1>7 DEF Guarded, Excused, ExcusedAfter
<1> QED BY <1>2, <1>5, <1>6, <1>8 DEF Speaks, UnderWay, Running

(* The first tool call.                                                    *)
LEMMA ToolSpeaks == ASSUME TurnInv, NEW t \in Turn, ToolStart(t) PROVE Speaks(t)
<1>0. PICK s \in Session : s = sess[t]
  BY Phases DEF TurnStep
<1> DEFINE e == Ev("tool", t)
<1>1. Moves(t)
  BY Phases DEF TurnStep
<1>2. Running(t) /\ UNCHANGED <<wired, sess, phase, attempt, mode>> /\ EmitSSE(s, e)
  BY <1>0 DEF ToolStart
<1>3. e \in Event /\ e.turn = t /\ e.type = "tool"
  BY DEF Ev, Event, TurnInv, TurnTypes
<1> HIDE DEF e
<1>4. MaySend(s, e) /\ Told(s, e)
  BY <1>0, <1>1, <1>2, <1>3 DEF MaySend, AfterOK, Terminal, Told, Moves
<1>5. /\ gate'[s] = Passed(gate[s], e).gate
      /\ \A r \in Session : r # s => gate'[r] = gate[r]
      /\ log' = [log EXCEPT ![s] = log[s] \o Passed(gate[s], e).out]
  BY <1>2 DEF EmitSSE, SetGate, Send, TurnInv, SessionTypes
<1>6. gate'[s] = NoGate
  <2>1. ~ gate[s].on => gate[s] = NoGate
    BY OffIsDown
  <2> QED BY <1>3, <1>5, <2>1 DEF Passed
<1>7. GateOK(sess[t])'
  BY <1>0, <1>1, <1>6, GateDown
<1>8. Fine(s, Passed(gate[s], e).out) /\ Guarded(t)'
  <2>1. CASE gate[s].on /\ gate[s].timer = "expired"
    <3>1. Passed(gate[s], e).out = Flushed(gate[s]) \o <<e>>
      BY <2>1 DEF Passed
    <3>2. Fine(s, Passed(gate[s], e).out)
      BY <1>0, <1>1, <1>2, <1>4, <2>1, <3>1, FineFlushEvent DEF UnderWay, Running
    <3>3. ToolIn(log[s], t) => ToolIn(log'[s], t)
      BY <1>0, <1>1, <1>5, <3>2, Sent
    <3>4. mode[t] = "action" => ExcusedAfter(t) \/ ToolIn(log[s], t)
      BY <1>0, <1>1, <1>2, <2>1, GateGuards DEF Running
    <3> QED BY <1>0, <1>2, <3>2, <3>3, <3>4 DEF Guarded, Excused, ExcusedAfter
  <2>2. CASE ~ (gate[s].on /\ gate[s].timer = "expired")
    <3>1. Passed(gate[s], e).out = <<e>>
      BY <1>3, <2>2 DEF Passed
    <3>2. ToolIn(log'[s], t)
      <4> DEFINE n == Len(log[s]) + 1
      <4>1. log[s] \in Seq(Event) /\ log'[s] = Append(log[s], e)
        BY <1>3, <1>5, <3>1, AppendIsConcat DEF TurnInv, SessionTypes
      <4>2. n \in DOMAIN log'[s] /\ log'[s][n] = e
        BY <1>3, <4>1, AppendProperties, LenProperties
      <4> QED BY <1>3, <4>2 DEF ToolIn
    <3> QED BY <1>0, <1>2, <1>4, <3>1, <3>2, FineOne DEF Guarded
  <2> QED BY <2>1, <2>2
<1> QED BY <1>0, <1>2, <1>5, <1>7, <1>8 DEF Speaks, UnderWay, Running

(* The answer.                                                             *)
LEMMA SucceedsSpeaks == ASSUME TurnInv, NEW t \in Turn, RunSucceeds(t) PROVE Speaks(t)
<1>0. PICK s \in Session : s = sess[t]
  BY Phases DEF TurnStep, RunEnds
<1>1. Moves(t)
  BY Phases DEF TurnStep, RunEnds
<1>2. /\ Running(t) /\ phase'[t] = "ended" /\ attempt' = attempt
      /\ SetGate(s, NoGate) /\ Send(s, Delivered(t, "ok"))
  BY <1>0 DEF RunSucceeds, Step, TurnInv, TurnTypes
<1>3. Delivered(t, "ok") = Flushed(gate[s]) \o <<Ev("done", t)>>
  BY <1>0 DEF Delivered
<1>4. Fine(s, Delivered(t, "ok"))
  BY <1>0, <1>1, <1>2, <1>3, EndMaySend, FineFlushEvent DEF UnderWay, Running
<1>5. gate'[s] = NoGate /\ \A r \in Session : r # s => gate'[r] = gate[r]
  BY <1>2 DEF SetGate, TurnInv, SessionTypes
<1>6. GateOK(sess[t])' /\ Guarded(t)'
  BY <1>0, <1>1, <1>2, <1>5, GateDown DEF Guarded
<1> QED BY <1>0, <1>2, <1>4, <1>5, <1>6 DEF Send, Speaks, UnderWay, Running

-----------------------------------------------------------------------------
(* A run that fails has delivered nothing, or what was held, or also the   *)
(* answer; what it delivered excuses the turn.                             *)
LEMMA FailedDelivery ==
  ASSUME TurnInv, NEW t \in Turn, NEW s \in Session, s = sess[t], NEW o \in Outcome \ {"ok"},
         Noted(t, o)
  PROVE  \/ o = "runFails" /\ Delivered(t, o) = <<>> /\ GateLeft(t, o) = gate[s]
         \/ o = "saveFails" /\ Delivered(t, o) = Flushed(gate[s]) \o <<>>
            /\ GateLeft(t, o) = NoGate /\ ExcusedAfter(t)
         \/ o = "countFails" /\ Delivered(t, o) = Flushed(gate[s]) \o <<Ev("done", t)>>
            /\ GateLeft(t, o) = NoGate /\ ExcusedAfter(t) /\ <<t, "countFails">> \in slips'
  BY DEF Outcome, Delivered, GateLeft, Noted, ExcusedAfter

(* A first run fails: the turn is not ended, and its gate stays or is      *)
(* excused.                                                                *)
LEMMA PrimarySpeaks ==
  ASSUME TurnInv, NEW t \in Turn, NEW o \in Outcome \ {"ok"}, PrimaryFails(t, o)
  PROVE  Speaks(t)
<1>0. PICK s \in Session : s = sess[t]
  BY Phases DEF TurnStep, RunEnds
<1>1. Moves(t)
  BY Phases DEF TurnStep, RunEnds
<1>2. /\ Running(t) /\ attempt[t] = 1 /\ ~ emitted[t] /\ phase'[t] = "pausing"
      /\ SetGate(s, GateLeft(t, o)) /\ Send(s, Delivered(t, o)) /\ Noted(t, o)
      /\ UNCHANGED <<wired, sess, mode>>
  BY <1>0 DEF PrimaryFails, MayRerun, Step, TurnInv, TurnTypes
<1>3. UnderWay(t) /\ sess'[t] = s
  BY <1>0, <1>2 DEF UnderWay, Running
<1>4. gate'[s] = GateLeft(t, o) /\ \A r \in Session : r # s => gate'[r] = gate[r]
  BY <1>2 DEF SetGate, TurnInv, SessionTypes
<1>5. CASE o = "runFails"
  <2>1. Delivered(t, o) = <<>> /\ gate'[s] = gate[s]
    BY <1>0, <1>2, <1>4, <1>5, FailedDelivery
  <2>2. Fine(s, Delivered(t, o))
    BY <2>1, FineNone
  <2>3. GateOK(sess[t])'
    BY <1>0, <1>1, <1>2, <2>1, GateStays DEF Running
  <2>4. ToolIn(log[s], t) => ToolIn(log'[s], t)
    BY <1>0, <1>1, <1>2, <2>2, Sent DEF Send
  <2>5. Guarded(t)'
    <3>1. mode[t] = "action" =>
            \/ ExcusedAfter(t) \/ ToolIn(log[s], t)
            \/ gate[s].on /\ gate[s].timer # "expired"
      BY <1>0, <1>1, <1>2, GateGuards DEF Running
    <3> QED BY <1>2, <1>3, <2>1, <2>4, <3>1 DEF Guarded, Excused, ExcusedAfter
  <2> QED BY <1>0, <1>2, <1>3, <1>4, <2>2, <2>3, <2>5 DEF Speaks, Send
<1>6. CASE o # "runFails"
  <2>1. gate'[s] = NoGate /\ ExcusedAfter(t)
    BY <1>0, <1>2, <1>4, <1>6, FailedDelivery
  <2>2. Fine(s, Delivered(t, o))
    <3>1. CASE o = "saveFails"
      <4>1. Delivered(t, o) = Flushed(gate[s]) \o <<>>
        BY <1>0, <1>2, <3>1, FailedDelivery
      <4> QED BY <1>0, <1>1, <1>3, <2>1, <4>1, FineFlush
    <3>2. CASE o = "countFails"
      <4>1. Delivered(t, o) = Flushed(gate[s]) \o <<Ev("done", t)>> /\ <<t, "countFails">> \in slips'
        BY <1>0, <1>2, <3>2, FailedDelivery
      <4> QED BY <1>0, <1>1, <1>3, <4>1, EndMaySend, FineFlushEvent
    <3> QED BY <1>6, <3>1, <3>2 DEF Outcome
  <2>3. GateOK(sess[t])' /\ Guarded(t)'
    BY <1>0, <1>1, <2>1, GateDown DEF Guarded, Excused, ExcusedAfter
  <2> QED BY <1>0, <1>2, <1>3, <1>4, <2>2, <2>3 DEF Speaks, Send
<1> QED BY <1>5, <1>6
(* The retry fails: the announcement of the fallback is a text of its run. *)
LEMMA RetrySpeaks ==
  ASSUME TurnInv, NEW t \in Turn, NEW o \in Outcome \ {"ok"}, RetryFails(t, o)
  PROVE  Speaks(t)
<1>0. PICK s \in Session : s = sess[t]
  BY Phases DEF TurnStep, RunEnds
<1> DEFINE e == [Ev("token", t) EXCEPT !.run = 3]
           p == Passed(GateLeft(t, o), e)
<1>1. Moves(t)
  BY Phases DEF TurnStep, RunEnds
<1>2. /\ Running(t) /\ ~ emitted[t] /\ phase'[t] = "waiting" /\ attempt'[t] = 3
      /\ SetGate(s, p.gate) /\ Send(s, Delivered(t, o) \o p.out) /\ Noted(t, o)
      /\ UNCHANGED <<wired, sess, mode>>
  BY <1>0 DEF RetryFails, MayRerun, EnterLane, Step, TurnInv, TurnTypes
<1>3. e \in Event /\ e.turn = t /\ e.type = "token" /\ e.run = 3
  BY DEF Ev, Event, TurnInv, TurnTypes
<1> HIDE DEF e
<1>4. UnderWay(t) /\ sess'[t] = s
  BY <1>0, <1>2 DEF UnderWay, Running
<1>5. /\ gate'[s] = p.gate /\ \A r \in Session : r # s => gate'[r] = gate[r]
      /\ log' = [log EXCEPT ![s] = log[s] \o (Delivered(t, o) \o p.out)]
  BY <1>2 DEF SetGate, Send, TurnInv, SessionTypes
<1>6. CASE o = "runFails"
  <2>1. Delivered(t, o) = <<>> /\ p = Passed(gate[s], e)
    BY <1>0, <1>2, <1>6, FailedDelivery
  <2>2. /\ Fine(s, p.out) /\ GateOK(sess[t])'
        /\ \/ mode'[t] # "action" \/ ExcusedAfter(t) \/ ToolIn(log[s], t)
           \/ gate'[s].on /\ gate'[s].timer # "expired"
    <3> HIDE DEF p
    <3> QED BY <1>0, <1>1, <1>2, <1>3, <1>5, <2>1, TextAtGate
  <2>3. Delivered(t, o) \o p.out = p.out
    BY <2>1, <2>2, ConcatEmptySeq DEF Fine
  <2>4. ToolIn(log[s], t) => ToolIn(log'[s], t)
    BY <1>0, <1>1, <1>5, <2>2, <2>3, Sent
  <2>5. Guarded(t)'
    BY <1>4, <2>2, <2>4 DEF Guarded, Excused, ExcusedAfter
  <2> QED BY <1>0, <1>4, <1>5, <2>2, <2>3, <2>5 DEF Speaks
<1>7. CASE o # "runFails"
  <2>1. GateLeft(t, o) = NoGate /\ ExcusedAfter(t)
    BY <1>0, <1>2, <1>7, FailedDelivery
  <2>2. p.gate = NoGate /\ p.out = <<e>>
    BY <1>3, <2>1 DEF Passed, NoGate
  <2>3. MaySend(s, e) /\ Told(s, e)
    BY <1>0, <1>1, <1>2, <1>3, <2>1, TextMaySend DEF Told
  <2>4. Fine(s, Delivered(t, o) \o p.out)
    <3>1. CASE o = "saveFails"
      <4>1. Delivered(t, o) = Flushed(gate[s]) \o <<>>
        BY <1>0, <1>2, <3>1, FailedDelivery
      <4>2. Flushed(gate[s]) \o <<>> = Flushed(gate[s])
        BY <1>0, <1>1, <1>4, FlushedIs, ConcatEmptySeq
      <4> QED BY <1>0, <1>1, <1>4, <2>1, <2>2, <2>3, <4>1, <4>2, FineFlushEvent
    <3>2. CASE o = "countFails"
      <4>1. Delivered(t, o) = Flushed(gate[s]) \o <<Ev("done", t)>> /\ <<t, "countFails">> \in slips'
        BY <1>0, <1>2, <3>2, FailedDelivery
      <4>2. /\ MaySend(s, Ev("done", t)) /\ Ev("done", t).turn = t
            /\ Terminal(Ev("done", t)) /\ Quiet(Ev("done", t), e)
        BY <1>0, <1>1, <4>1, EndMaySend DEF Quiet
      <4> QED BY <1>0, <1>1, <1>4, <2>2, <2>3, <4>1, <4>2, FineFlushTwo
    <3> QED BY <1>7, <3>1, <3>2 DEF Outcome
  <2>5. GateOK(sess[t])' /\ Guarded(t)'
    BY <1>0, <1>1, <1>5, <2>1, <2>2, GateDown DEF Guarded, Excused, ExcusedAfter
  <2> QED BY <1>0, <1>4, <1>5, <2>4, <2>5 DEF Speaks
<1> QED BY <1>6, <1>7

(* The last run fails: the turn ends with its error.                       *)
LEMMA GivesUpSpeaks ==
  ASSUME TurnInv, NEW t \in Turn, NEW o \in Outcome \ {"ok"}, RunGivesUp(t, o)
  PROVE  Speaks(t)
<1>0. PICK s \in Session : s = sess[t]
  BY Phases DEF TurnStep, RunEnds
<1> DEFINE e == Ev("error", t)
<1>1. Moves(t)
  BY Phases DEF TurnStep, RunEnds
<1>2. /\ Running(t) /\ phase'[t] = "ended"
      /\ SetGate(s, NoGate) /\ Send(s, Delivered(t, o) \o <<e>>) /\ Noted(t, o)
  BY <1>0 DEF RunGivesUp, Failed, Step, TurnInv, TurnTypes
<1>3. MaySend(s, e) /\ Told(s, e) /\ Terminal(e) /\ e.turn = t
  BY <1>0, <1>1, <1>2, EndMaySend
<1>4. UnderWay(t)
  BY <1>2 DEF UnderWay, Running
<1> HIDE DEF e
<1>5. Fine(s, Delivered(t, o) \o <<e>>)
  <2>1. CASE o = "runFails"
    <3>1. Delivered(t, o) \o <<e>> = <<e>>
      <4>1. Delivered(t, o) = <<>>
        BY <1>0, <1>2, <2>1, FailedDelivery
      <4>2. <<>> \o <<e>> = <<e>>
        BY <1>3, ConcatEmptySeq DEF MaySend
      <4> QED BY <4>1, <4>2
    <3> QED BY <1>3, <3>1, FineOne
  <2>2. CASE o = "saveFails"
    <3>1. Delivered(t, o) = Flushed(gate[s]) \o <<>>
      BY <1>0, <1>2, <2>2, FailedDelivery
    <3>2. Flushed(gate[s]) \o <<>> = Flushed(gate[s])
      BY <1>0, <1>1, <1>4, FlushedIs, ConcatEmptySeq
    <3> QED BY <1>0, <1>1, <1>3, <1>4, <3>1, <3>2, FineFlushEvent
  <2>3. CASE o = "countFails"
    <3>1. Delivered(t, o) = Flushed(gate[s]) \o <<Ev("done", t)>> /\ <<t, "countFails">> \in slips'
      BY <1>0, <1>2, <2>3, FailedDelivery
    <3>2. /\ MaySend(s, Ev("done", t)) /\ Ev("done", t).turn = t
          /\ Terminal(Ev("done", t)) /\ Quiet(Ev("done", t), e)
      BY <1>0, <1>1, <3>1, EndMaySend DEF Quiet
    <3> QED BY <1>0, <1>1, <1>3, <1>4, <3>1, <3>2, FineFlushTwo
  <2> QED BY <2>1, <2>2, <2>3 DEF Outcome
<1>6. gate'[s] = NoGate /\ \A r \in Session : r # s => gate'[r] = gate[r]
  BY <1>2 DEF SetGate, TurnInv, SessionTypes
<1>7. GateOK(sess[t])' /\ Guarded(t)'
  BY <1>0, <1>1, <1>2, <1>6, GateDown DEF Guarded
<1> QED BY <1>0, <1>2, <1>4, <1>5, <1>6, <1>7 DEF Speaks, Send

LEMMA TurnSpeaks == ASSUME TurnInv, NEW t \in Turn, TurnStep(t) PROVE Speaks(t)
  BY QuietSteps, AnsweredSpeaks, PrepareFailsSpeaks, PrepareSpeaks, ReplySpeaks, ToolSpeaks,
     SucceedsSpeaks, PrimarySpeaks, RetrySpeaks, GivesUpSpeaks DEF TurnStep, RunEnds

-----------------------------------------------------------------------------
(* A step of a turn keeps the invariant.                                   *)
LEMMA TurnKeeps == ASSUME TurnInv, NEW t \in Turn, TurnStep(t) PROVE TurnInv'
<1>1. /\ sess[t] \in Session /\ Moves(t)
      /\ TurnTypes' /\ DOMAIN gate' = Session /\ \A u \in Turn : PhaseOK(u)'
  BY Phases
<1>2. lane' \in [Session -> Seq(Turn)] /\ LaneOK'
  BY Lanes
<1>3. MetOK'
  BY Meets
<1>4. Speaks(t)
  BY TurnSpeaks
<1>5. PICK out : Fine(sess[t], out) /\ log' = [log EXCEPT ![sess[t]] = log[sess[t]] \o out]
  BY <1>4 DEF Speaks
<1>6. /\ log' \in [Session -> Seq(Event)]
      /\ LogOK' /\ SilentAfterEnd' /\ NoFiller'
      /\ \A u \in Turn, r \in Session : ToolIn(log[r], u) => ToolIn(log'[r], u)
  BY <1>1, <1>5, Sent
<1>7. (\A s \in Session : GateOK(s)') /\ \A u \in Turn : Guarded(u)'
  BY <1>1, <1>4, <1>6, GatesAfter DEF Speaks
<1> QED BY <1>1, <1>2, <1>3, <1>6, <1>7 DEF TurnInv, SessionTypes
(* A gate times out: the turns under way in its session are excused.       *)
LEMMA ExpireKeeps == ASSUME TurnInv, NEW s \in Session, GateExpires(s) PROVE TurnInv'
<1>1. /\ gate[s].on /\ gate[s].timer = "running"
      /\ SetGate(s, [gate[s] EXCEPT !.timer = "expired"])
      /\ late' = late \cup {t \in Turn : UnderWay(t) /\ sess[t] = s}
      /\ UNCHANGED <<wired, sess, phase, attempt, emitted, tooled, mode, lane, log, met, slips>>
  BY DEF GateExpires
<1>2. /\ TurnTypes' /\ SessionTypes' /\ LaneOK' /\ MetOK' /\ LogOK'
      /\ \A t \in Turn : PhaseOK(t)'
      /\ SilentAfterEnd'
  <2>1. TurnTypes' /\ SessionTypes'
    BY <1>1 DEF TurnInv, TurnTypes, SessionTypes, SetGate
  <2>2. LaneOK' /\ MetOK'
    BY <1>1 DEF TurnInv, LaneOK, InLane, Queued, Running, MetOK, UnderWay
  <2>3. LogOK' /\ \A t \in Turn : PhaseOK(t)'
    BY <1>1 DEF TurnInv, LogOK, EventOK, PhaseOK
  <2>4. SilentAfterEnd'
    BY <1>1 DEF TurnInv, SilentAfterEnd
  <2> QED BY <2>1, <2>2, <2>3, <2>4
<1>3. \A r \in Session : gate'[r] = IF r = s THEN [gate[s] EXCEPT !.timer = "expired"] ELSE gate[r]
  BY <1>1 DEF SetGate, TurnInv, SessionTypes
<1>4. \A t : Excused(t) => Excused(t)'
  BY <1>1 DEF Excused
<1>5. NoFiller'
  BY <1>1, <1>4 DEF TurnInv, NoFiller, Excused
<1>6. ASSUME NEW t \in Turn PROVE Guarded(t)'
  <2>1. CASE sess[t] = s /\ UnderWay(t)
    <3>1. Excused(t)'
      BY <1>1, <2>1 DEF Excused
    <3> QED BY <3>1 DEF Guarded
  <2>2. CASE ~ UnderWay(t)
    BY <1>1, <2>2 DEF Guarded, UnderWay
  <2>3. CASE sess[t] # s /\ UnderWay(t)
    <3>1. sess[t] \in Session
      BY <2>3 DEF UnderWay, TurnInv, TurnTypes, PhaseOK
    <3>2. gate'[sess[t]] = gate[sess[t]]
      BY <1>3, <2>3, <3>1
    <3> QED BY <1>1, <1>4, <3>2 DEF TurnInv, Guarded
  <2> QED BY <2>1, <2>2, <2>3
<1>7. ASSUME NEW r \in Session PROVE GateOK(r)'
  <2>1. GateOK(r)
    BY DEF TurnInv
  <2>2. \A e : HeldOK(r, e) => HeldOK(r, e)'
    BY <1>1 DEF HeldOK
  <2>3. CASE r # s
    <3>1. gate'[r] = gate[r]
      BY <1>3, <2>3
    <3>2. CASE gate[r] = NoGate \/ gate[r] = FreshGate("action")
      BY <3>1, <3>2 DEF GateOK, NoGate, FreshGate
    <3>3. ASSUME NEW e \in Event, HeldOK(r, e),
                 \/ gate[r] = Holding(e, "running")
                 \/ gate[r] = Holding(e, "expired") /\ e.turn \in late
          PROVE  GateOK(r)'
      BY <1>1, <2>2, <3>1, <3>3 DEF GateOK, Holding
    <3> QED BY <2>1, <3>2, <3>3 DEF GateOK
  <2>4. CASE r = s
    <3>1. PICK e \in Event : HeldOK(s, e) /\ gate[s] = Holding(e, "running")
      BY <1>1, <2>1, <2>4, Shapes DEF GateOK
    <3>2. gate'[s] = Holding(e, "expired")
      BY <1>3, <3>1, Shapes
    <3>3. e.turn \in late'
      BY <1>1, <3>1 DEF HeldOK, UnderWay, Event
    <3> QED BY <2>2, <2>4, <3>1, <3>2, <3>3 DEF GateOK, Holding
  <2> QED BY <2>3, <2>4
<1> QED BY <1>2, <1>5, <1>6, <1>7 DEF TurnInv

(* A message arrives: nothing of its turn was sent, held or queued.        *)
LEMMA ArriveKeeps ==
  ASSUME TurnInv, NEW t \in Turn, NEW s \in Session, Arrives(t, s) PROVE TurnInv'
<1>1. /\ phase[t] = "new" /\ sess[t] = NoSession /\ sess[t] \notin Session
      /\ phase'[t] = "posted" /\ sess'[t] = s
      /\ \A u \in Turn \ {t} : phase'[u] = phase[u] /\ sess'[u] = sess[u]
      /\ UNCHANGED <<wired, attempt, emitted, tooled, mode, gate, lane, log, met, late, slips>>
  BY SessionAssumption DEF Arrives, Step, TurnInv, TurnTypes, PhaseOK
<1>2. TurnTypes' /\ SessionTypes'
  BY DEF Arrives, Step, TurnInv, TurnTypes, SessionTypes, Phase
<1>3. \A u \in Turn : PhaseOK(u)'
  BY <1>1, SessionAssumption DEF TurnInv, PhaseOK
<1>4. LaneOK'
  <2>1. \A r \in Session : Queued(r)' = Queued(r)
    BY <1>1 DEF Queued
  <2>2. \A u \in Turn : Running(u)' => u # t /\ Running(u)
    BY <1>1 DEF Running
  <2> QED BY <1>1, <2>1, <2>2 DEF TurnInv, LaneOK
<1>5. MetOK'
  BY <1>1 DEF TurnInv, MetOK, UnderWay
<1>6. LogOK'
  <2> SUFFICES ASSUME NEW r \in Session, NEW i \in DOMAIN log[r] PROVE EventOK(r, log[r][i])'
    BY <1>1 DEF LogOK
  <2> DEFINE e == log[r][i]
  <2>1. e \in Event /\ EventOK(r, e)
    <3>1. log[r] \in Seq(Event)
      BY DEF TurnInv, SessionTypes
    <3> QED BY <3>1, LenProperties, ElementOfSeq DEF TurnInv, LogOK
  <2>2. log'[r][i] = e
    BY <1>1
  <2> HIDE DEF e
  <2>3. e.turn \in Turn \ {t}
    BY <1>1, <2>1 DEF EventOK, Event
  <2> QED BY <1>1, <2>1, <2>2, <2>3 DEF EventOK
<1>7. SilentAfterEnd' /\ NoFiller'
  BY <1>1 DEF TurnInv, SilentAfterEnd, NoFiller
<1>8. ASSUME NEW u \in Turn PROVE Guarded(u)'
  <2>1. Guarded(u)
    BY DEF TurnInv
  <2>2. CASE u = t
    BY <1>1, <2>2 DEF Guarded
  <2>3. CASE u # t
    BY <1>1, <2>1, <2>3 DEF Guarded, Excused
  <2> QED BY <2>2, <2>3
<1>9. ASSUME NEW r \in Session PROVE GateOK(r)'
  <2>1. GateOK(r)
    BY DEF TurnInv
  <2>2. \A e \in Event : HeldOK(r, e) => HeldOK(r, e)'
    BY <1>1 DEF HeldOK, Event
  <2> QED BY <1>1, <2>1, <2>2 DEF GateOK
<1> QED BY <1>2, <1>3, <1>4, <1>5, <1>6, <1>7, <1>8, <1>9 DEF TurnInv

-----------------------------------------------------------------------------
(* The invariant holds at first.                                           *)
LEMMA TurnStarts == TurnInit => TurnInv
<1> SUFFICES ASSUME TurnInit PROVE TurnInv
  OBVIOUS
<1>1. TurnTypes /\ SessionTypes
  BY EmptySeq DEF TurnInit, TurnTypes, SessionTypes, Phase, Mode
<1>2. LaneOK
  BY DEF TurnInit, LaneOK, InLane, Queued, Running
<1>3. MetOK
  BY DEF TurnInit, MetOK, UnderWay
<1>4. LogOK /\ SilentAfterEnd /\ NoFiller
  BY DEF TurnInit, LogOK, SilentAfterEnd, NoFiller
<1>5. \A t \in Turn : PhaseOK(t) /\ Guarded(t)
  BY DEF TurnInit, PhaseOK, Guarded
<1>6. \A s \in Session : GateOK(s)
  BY DEF TurnInit, GateOK
<1> QED BY <1>1, <1>2, <1>3, <1>4, <1>5, <1>6 DEF TurnInv

(* Every step keeps it.                                                    *)
LEMMA InvNext == TurnInv /\ [Next]_turnVars => TurnInv'
<1>1. CASE UNCHANGED turnVars
  <2> SUFFICES ASSUME TurnInv PROVE TurnInv'
    BY <1>1
  <2> USE <1>1 DEF turnVars
  <2>1. TurnTypes' /\ SessionTypes' /\ LaneOK' /\ MetOK'
    BY DEF TurnInv, TurnTypes, SessionTypes, LaneOK, InLane, Queued, Running, MetOK, UnderWay
  <2>2. LogOK'
    BY DEF TurnInv, LogOK, EventOK, Terminal
  <2>3. SilentAfterEnd'
    BY DEF TurnInv, SilentAfterEnd, Terminal
  <2>4. NoFiller'
    BY DEF TurnInv, NoFiller, Terminal
  <2>5. (\A t \in Turn : PhaseOK(t)' /\ Guarded(t)') /\ \A s \in Session : GateOK(s)'
    BY DEF TurnInv, PhaseOK, Guarded, Excused, GateOK, HeldOK
  <2> QED BY <2>1, <2>2, <2>3, <2>4, <2>5 DEF TurnInv
<1> QED BY <1>1, TurnKeeps, ExpireKeeps, ArriveKeeps DEF Next

LEMMA TurnInvariant == Spec => []TurnInv
  BY TurnStarts, InvNext, PTL DEF Spec

-----------------------------------------------------------------------------
(* The channel's variables have their types; the lane of a session holds   *)
(* exactly its waiting and running runs, each once; a gate times only text *)
(* that it holds.                                                          *)
THEOREM TurnTypeCorrect == Spec => []TypeOK
<1>1. TurnInv => TypeOK
  <2> SUFFICES ASSUME TurnInv PROVE TypeOK
    OBVIOUS
  <2>1. TurnTypes
    BY DEF TurnInv
  <2>2. ASSUME NEW s \in Session
        PROVE  gate[s].timer = "off" <=> gate[s].held = <<>>
    <3>1. GateOK(s)
      BY DEF TurnInv
    <3>2. \A e \in Event : Holding(e, "running").timer # "off" /\ Holding(e, "expired").timer # "off"
      BY Shapes
    <3> QED BY <3>1, <3>2, Shapes DEF GateOK
  <2>3. \A s \in Session : InLane(lane[s], Queued(s))
    BY DEF TurnInv, LaneOK
  <2> QED BY <2>1, <2>2, <2>3, OffIsDown DEF TypeOK, TurnTypes, InLane, Queued
<1> QED BY TurnInvariant, <1>1, PTL

(* After its done or error event a turn is silent in every stream, unless  *)
(* the title check behind the answer threw.                                *)
THEOREM SilentAfterEndCorrect == Spec => []SilentAfterEnd
<1>1. TurnInv => SilentAfterEnd
  BY DEF TurnInv
<1> QED BY TurnInvariant, <1>1, PTL

(* The text of a turn comes from one of its runs; an answer that differs   *)
(* was sent before the title check threw.                                  *)
THEOREM OneVoiceCorrect == Spec => []OneVoice
<1>1. TurnInv => OneVoice
  <2> SUFFICES ASSUME TurnInv, NEW s \in Session, NEW i \in DOMAIN log[s], NEW j \in DOMAIN log[s],
                      Text(log[s][i]), Text(log[s][j]),
                      log[s][i].turn = log[s][j].turn,
                      log[s][i].run # log[s][j].run
               PROVE  /\ "done" \in {log[s][i].type, log[s][j].type}
                      /\ <<log[s][i].turn, "countFails">> \in slips
    BY DEF OneVoice
  <2>1. EventOK(s, log[s][i]) /\ EventOK(s, log[s][j])
    BY DEF TurnInv, LogOK
  <2> QED BY <2>1 DEF EventOK, Text
<1> QED BY TurnInvariant, <1>1, PTL

(* In action mode no text is shown before the first tool call, except the  *)
(* text the turn ends with, or under the excuses NoFiller names.           *)
THEOREM NoFillerCorrect == Spec => []NoFiller
<1>1. TurnInv => NoFiller
  BY DEF TurnInv
<1> QED BY TurnInvariant, <1>1, PTL
-----------------------------------------------------------------------------
(* The other half of SilentAfterEnd: no turn ends without a word.          *)
EndsAreTold == \A t \in Turn : phase[t] = "ended" => Ended(t)

(* Whatever was sent before it, the last event is in the stream.           *)
LEMMA LastIsSent ==
  ASSUME NEW l \in Seq(Event), NEW b \in Seq(Event), NEW e \in Event
  PROVE  \E i \in DOMAIN (l \o (b \o <<e>>)) : (l \o (b \o <<e>>))[i] = e
<1> DEFINE q == l \o b  a == Append(q, e)
<1>1. q \in Seq(Event) /\ l \o (b \o <<e>>) = q \o <<e>>
  BY ConcatProperties, ConcatAssociative
<1> HIDE DEF q
<1>2. l \o (b \o <<e>>) = a
  BY <1>1, AppendIsConcat
<1>3. Len(q) + 1 \in DOMAIN a /\ a[Len(q) + 1] = e
  BY <1>1, AppendProperties, LenProperties
<1> QED BY <1>2, <1>3

(* A step that ends a turn sends its end last.                             *)
LEMMA EndIsSent ==
  ASSUME TurnInv, NEW t \in Turn, TurnStep(t), phase'[t] = "ended"
  PROVE  \E e \in Event, b \in Seq(Event) :
           /\ e.turn = t /\ Terminal(e)
           /\ log' = [log EXCEPT ![sess[t]] = log[sess[t]] \o (b \o <<e>>)]
<1>0. PICK s \in Session : s = sess[t]
  BY Phases
<1>1. Moves(t) /\ phase \in [Turn -> Phase]
  BY Phases DEF TurnInv, TurnTypes
<1>2. \A k \in {"done", "error"} : Ev(k, t) \in Event /\ Ev(k, t).turn = t /\ Terminal(Ev(k, t))
  BY DEF Ev, Event, Terminal, TurnInv, TurnTypes
<1>3. <<>> \in Seq(Event) /\ \A h \in Event : <<h>> \in Seq(Event)
  OBVIOUS
<1>4. UnderWay(t) => Flushed(gate[s]) \in Seq(Event)
  BY <1>0, <1>1, <1>3, FlushedIs
<1>5. CASE PostAnswered(t)
  <2>1. CASE Send(s, <<Ev("error", t)>>)
    <3>1. <<>> \o <<Ev("error", t)>> = <<Ev("error", t)>>
      BY <1>2, ConcatEmptySeq
    <3>2. log' = [log EXCEPT ![s] = log[s] \o (<<>> \o <<Ev("error", t)>>)]
      BY <2>1, <3>1 DEF Send
    <3> QED BY <1>0, <1>2, <1>3, <3>2
  <2>2. CASE Send(s, <<Ev("token", t), Ev("done", t)>>)
    <3>1. Ev("token", t) \in Event
      BY DEF Ev, Event, TurnInv, TurnTypes
    <3>2. <<Ev("token", t)>> \o <<Ev("done", t)>> = <<Ev("token", t), Ev("done", t)>>
      BY <1>2, <3>1, Pair
    <3>3. log' = [log EXCEPT ![s] = log[s] \o (<<Ev("token", t)>> \o <<Ev("done", t)>>)]
      BY <2>2, <3>2 DEF Send
    <3>4. <<Ev("token", t)>> \in Seq(Event)
      BY <3>1
    <3> QED BY <1>0, <1>2, <3>3, <3>4
  <2> QED BY <1>0, <1>5, <2>1, <2>2 DEF PostAnswered
<1>6. CASE PrepareFails(t)
  <2>1. log' = [log EXCEPT ![s] = log[s] \o (<<>> \o <<Ev("error", t)>>)]
    BY <1>0, <1>6 DEF PrepareFails, Failed, Send
  <2> QED BY <1>0, <1>2, <1>3, <2>1
<1>7. CASE RunSucceeds(t)
  <2>1. log' = [log EXCEPT ![s] = log[s] \o (Flushed(gate[s]) \o <<Ev("done", t)>>)]
    BY <1>0, <1>7 DEF RunSucceeds, Send, Delivered
  <2>2. UnderWay(t)
    BY <1>7 DEF RunSucceeds, Running, UnderWay
  <2> QED BY <1>0, <1>2, <1>4, <2>1, <2>2
<1>8. ASSUME NEW o \in Outcome \ {"ok"}, RunGivesUp(t, o)
      PROVE  \E e \in Event, b \in Seq(Event) :
               /\ e.turn = t /\ Terminal(e)
               /\ log' = [log EXCEPT ![s] = log[s] \o (b \o <<e>>)]
  <2>1. log' = [log EXCEPT ![s] = log[s] \o (Delivered(t, o) \o <<Ev("error", t)>>)] /\ Noted(t, o)
    BY <1>0, <1>8 DEF RunGivesUp, Failed, Send
  <2>2. Flushed(gate[s]) \in Seq(Event)
    BY <1>4, <1>8 DEF RunGivesUp, Running, UnderWay
  <2>3. Flushed(gate[s]) \o <<>> \in Seq(Event)
        /\ Flushed(gate[s]) \o <<Ev("done", t)>> \in Seq(Event)
    BY <1>2, <2>2, ConcatProperties
  <2>4. Delivered(t, o) \in Seq(Event)
    BY <1>0, <1>3, <2>1, <2>3, FailedDelivery
  <2> QED BY <1>2, <2>1, <2>4
<1>9. PostAnswered(t) \/ PrepareFails(t) \/ RunSucceeds(t)
      \/ \E o \in Outcome \ {"ok"} : RunGivesUp(t, o)
  <2>1. ~ (PostRefused(t) \/ PostAccepted(t) \/ PostUnheard(t) \/ Prepare(t) \/ CallHandler(t) \/ RunStarts(t)
           \/ RetryStarts(t) \/ \E o \in Outcome : PrimaryFails(t, o) \/ RetryFails(t, o))
    BY <1>1 DEF PostRefused, PostAccepted, PostUnheard, Prepare, CallHandler, RunStarts, RetryStarts,
       PrimaryFails, RetryFails, EnterLane, Step
  <2>2. ~ (PartialReply(t) \/ ToolStart(t))
    BY <1>1 DEF PartialReply, ToolStart, Moves
  <2> QED BY <2>1, <2>2 DEF TurnStep, RunEnds
<1> QED BY <1>0, <1>5, <1>6, <1>7, <1>8, <1>9

(* Every step keeps what is told.                                          *)
LEMMA ToldNext == TurnInv /\ EndsAreTold /\ [Next]_turnVars => EndsAreTold'
<1> SUFFICES ASSUME TurnInv, EndsAreTold, [Next]_turnVars PROVE EndsAreTold'
  OBVIOUS
<1>1. ASSUME NEW t \in Turn, TurnStep(t), NEW u \in Turn, phase'[u] = "ended" PROVE Ended(u)'
  <2>0. PICK s \in Session : s = sess[t]
    BY <1>1, Phases
  <2>1. Moves(t) /\ sess'[u] = sess[u]
    BY <1>1, Phases DEF Moves
  <2>2. log \in [Session -> Seq(Event)]
    BY DEF TurnInv, SessionTypes
  <2>3. CASE u = t
    <3>1. PICK e \in Event, b \in Seq(Event) :
            /\ e.turn = t /\ Terminal(e)
            /\ log' = [log EXCEPT ![s] = log[s] \o (b \o <<e>>)]
      BY <1>1, <2>0, <2>3, EndIsSent
    <3>2. log'[s] = log[s] \o (b \o <<e>>)
      BY <2>2, <3>1
    <3>3. PICK i \in DOMAIN log'[s] : log'[s][i] = e
      <4>1. log[s] \in Seq(Event)
        BY <2>2
      <4>2. \E i \in DOMAIN (log[s] \o (b \o <<e>>)) : (log[s] \o (b \o <<e>>))[i] = e
        BY <4>1, LastIsSent
      <4> QED BY <3>2, <4>2
    <3> QED BY <2>0, <2>1, <2>3, <3>1, <3>3 DEF Ended, Terminal
  <2>4. CASE u # t
    <3>1. phase[u] = "ended"
      BY <1>1, <2>1, <2>4 DEF Moves
    <3>2. PICK i \in DOMAIN log[sess[u]] :
            sess[u] \in Session /\ log[sess[u]][i].turn = u /\ Terminal(log[sess[u]][i])
      BY <3>1 DEF EndsAreTold, Ended
    <3>3. PICK out \in Seq(Event) : log' = [log EXCEPT ![s] = log[s] \o out]
      BY <1>1, <2>0, TurnSpeaks DEF Speaks, Fine
    <3>4. i \in DOMAIN log'[sess[u]] /\ log'[sess[u]][i] = log[sess[u]][i]
      <4>1. CASE sess[u] = s
        BY <2>2, <3>2, <3>3, <4>1, Grown
      <4>2. CASE sess[u] # s
        BY <2>2, <3>2, <3>3, <4>2
      <4> QED BY <4>1, <4>2
    <3> QED BY <2>1, <3>2, <3>4 DEF Ended, Terminal
  <2> QED BY <2>3, <2>4
<1>2. ASSUME NEW t \in Turn, NEW s \in Session, Arrives(t, s) PROVE EndsAreTold'
  <2>1. UNCHANGED log /\ phase'[t] # "ended"
        /\ \A u \in Turn \ {t} : phase'[u] = phase[u] /\ sess'[u] = sess[u]
    BY <1>2 DEF Arrives, Step, TurnInv, TurnTypes
  <2> QED BY <2>1 DEF EndsAreTold, Ended, Terminal
<1>3. ASSUME UNCHANGED <<phase, sess, log>> PROVE EndsAreTold'
  BY <1>3 DEF EndsAreTold, Ended, Terminal
<1> QED BY <1>1, <1>2, <1>3 DEF Next, GateExpires, turnVars, EndsAreTold

(* Every turn that is over said so: it has its done or its error, in the   *)
(* session it belongs to, whatever failed.  What fairness adds is that     *)
(* every accepted turn is over some time (EveryTurnEnds).                  *)
THEOREM EndsAreToldCorrect == Spec => []EndsAreTold
<1>1. TurnInit => EndsAreTold
  BY DEF TurnInit, EndsAreTold
<1> QED BY TurnInvariant, ToldNext, <1>1, PTL DEF Spec
=============================================================================
