--------------------------- MODULE Desktop_proofs ---------------------------
(***************************************************************************)
(* The safety of what the desktop has of the gateway: its notices, for any *)
(* size of the store and any number of notices and failures, and the       *)
(* manager of its process, for any limits of restarts and failed checks.   *)
(***************************************************************************)
EXTENDS Notices, GatewayManager, SequenceTheorems, TLAPS

(***************************************************************************)
(* The store is in order of time: its numbers grow and stay below b, and   *)
(* what has expired (E) is its first k notices.                            *)
(***************************************************************************)
InOrder(s, k, b, E) ==
  /\ k \in 0 .. Len(s)
  /\ \A i, j \in 1 .. Len(s) : i < j => s[i] < s[j]
  /\ \A i \in 1 .. Len(s) : s[i] < b
  /\ \A i \in 1 .. Len(s) : s[i] \in E <=> i <= k

(* What the store keeps in front of a new notice stays in order.           *)
LEMMA OrderFromMiddle ==
  ASSUME NEW s \in Seq(Notice), NEW k, NEW b \in Nat, NEW E, InOrder(s, k, b, E),
         NEW m \in 0 .. Len(s)
  PROVE  /\ SubSeq(s, m + 1, Len(s)) \in Seq(Notice)
         /\ Len(SubSeq(s, m + 1, Len(s))) = Len(s) - m
         /\ \A i \in 1 .. Len(s) - m : SubSeq(s, m + 1, Len(s))[i] = s[i + m]
         /\ InOrder(SubSeq(s, m + 1, Len(s)), IF m <= k THEN k - m ELSE 0, b, E)
<1> DEFINE u == SubSeq(s, m + 1, Len(s))
<1>1. Len(s) \in Nat /\ m \in Nat /\ m <= Len(s) /\ k \in Nat /\ k <= Len(s)
  BY DEF InOrder
<1>2. u \in Seq(Notice) /\ Len(u) = Len(s) - m
        /\ \A i \in 1 .. Len(s) - m : u[i] = s[i + m]
  <2>1. \A i \in m + 1 .. Len(s) : s[i] \in Notice
    BY <1>1, ElementOfSeq
  <2>2. /\ u \in Seq(Notice)
        /\ Len(u) = IF m + 1 <= Len(s) THEN Len(s) - (m + 1) + 1 ELSE 0
        /\ \A i \in 1 .. Len(s) - (m + 1) + 1 : u[i] = s[m + 1 + i - 1]
    BY <1>1, <2>1, SubSeqProperties
  <2>3. QED
    BY <1>1, <2>2
<1> HIDE DEF u
<1>3. InOrder(u, IF m <= k THEN k - m ELSE 0, b, E)
  <2>1. \A i \in 1 .. Len(u) : i + m \in 1 .. Len(s) /\ u[i] = s[i + m]
    BY <1>1, <1>2
  <2>2. ASSUME NEW i \in 1 .. Len(u), NEW j \in 1 .. Len(u), i < j
        PROVE  u[i] < u[j]
    <3>1. i + m < j + m
      BY <1>1, <1>2, <2>2
    <3>2. QED
      BY <2>1, <3>1 DEF InOrder
  <2>3. \A i \in 1 .. Len(u) : u[i] < b
    BY <2>1 DEF InOrder
  <2>4. \A i \in 1 .. Len(u) : u[i] \in E <=> i + m <= k
    BY <2>1 DEF InOrder
  <2>5. CASE m <= k
    BY <1>1, <1>2, <2>2, <2>3, <2>4, <2>5 DEF InOrder
  <2>6. CASE ~ (m <= k)
    BY <1>1, <1>2, <2>2, <2>3, <2>4, <2>6 DEF InOrder
  <2>7. QED
    BY <2>5, <2>6
<1>4. QED
  BY <1>2, <1>3 DEF u

LEMMA OrderOfTail ==
  ASSUME NEW s \in Seq(Notice), NEW b \in Nat, NEW E, InOrder(s, 0, b, E),
         s # <<>>
  PROVE  /\ Tail(s) \in Seq(Notice)
         /\ Len(Tail(s)) = Len(s) - 1
         /\ \A i \in 1 .. Len(s) - 1 : Tail(s)[i] = s[i + 1]
         /\ InOrder(Tail(s), 0, b, E)
<1> DEFINE m == 1
<1>1. m \in 0 .. Len(s) /\ (IF m <= 0 THEN 0 - m ELSE 0) = 0
  BY EmptySeq
<1> HIDE DEF m
<1>2. /\ SubSeq(s, m + 1, Len(s)) \in Seq(Notice)
      /\ Len(SubSeq(s, m + 1, Len(s))) = Len(s) - m
      /\ \A i \in 1 .. Len(s) - m : SubSeq(s, m + 1, Len(s))[i] = s[i + m]
      /\ InOrder(SubSeq(s, m + 1, Len(s)), IF m <= 0 THEN 0 - m ELSE 0, b, E)
  BY <1>1, OrderFromMiddle
<1>3. Tail(s) = SubSeq(s, m + 1, Len(s))
  <2>1. m + 1 = 2
    BY DEF m
  <2>2. QED
    BY <2>1, TailIsSubSeq
<1>4. QED
  BY <1>1, <1>2, <1>3 DEF m

(* A new notice has the largest number so far and has not expired.         *)
LEMMA OrderAppended ==
  ASSUME NEW s \in Seq(Notice), NEW k, NEW b \in Notice, NEW E,
         InOrder(s, k, b, E), b \notin E
  PROVE  InOrder(Append(s, b), k, b + 1, E)
<1> DEFINE u == Append(s, b)
<1> HIDE DEF u
<1>0. /\ Len(u) = Len(s) + 1 /\ u[Len(s) + 1] = b
      /\ \A i \in 1 .. Len(s) : u[i] = s[i]
  BY AppendProperties DEF u
<1>1. /\ Len(s) \in Nat /\ b \in Nat
      /\ Len(u) = Len(s) + 1 /\ u[Len(s) + 1] = b
      /\ \A i \in 1 .. Len(s) : u[i] = s[i] /\ u[i] \in Nat
  <2>1. \A i \in 1 .. Len(s) : s[i] \in Nat
    <3>1. \A i \in 1 .. Len(s) : s[i] \in Notice
      BY ElementOfSeq
    <3>2. QED
      BY <3>1, NoticeAssumption
  <2>2. b \in Nat /\ Len(s) \in Nat
    BY NoticeAssumption
  <2>3. QED
    BY <1>0, <2>1, <2>2
<1>2. \A i \in 1 .. Len(u) : i \in 1 .. Len(s) \/ i = Len(s) + 1
  BY <1>1
<1>3. k \in 0 .. Len(u)
  BY <1>1 DEF InOrder
<1>4. \A i, j \in 1 .. Len(u) : i < j => u[i] < u[j]
  BY <1>1, <1>2 DEF InOrder
<1>5. \A i \in 1 .. Len(u) : u[i] < b + 1
  BY <1>1, <1>2 DEF InOrder
<1>6. \A i \in 1 .. Len(u) : u[i] \in E <=> i <= k
  BY <1>1, <1>2 DEF InOrder
<1>7. QED
  BY <1>3, <1>4, <1>5, <1>6 DEF InOrder, u

(* What the user dismisses leaves the rest in order.                       *)
LEMMA OrderRemoved ==
  ASSUME NEW s \in Seq(Notice), NEW k, NEW b \in Nat, NEW E, InOrder(s, k, b, E),
         NEW n \in 1 .. Len(s)
  PROVE  /\ RemoveAt(s, n) \in Seq(Notice)
         /\ Len(RemoveAt(s, n)) = Len(s) - 1
         /\ \A i \in 1 .. Len(s) - 1 :
              RemoveAt(s, n)[i] = IF i < n THEN s[i] ELSE s[i + 1]
         /\ InOrder(RemoveAt(s, n), IF n <= k THEN k - 1 ELSE k, b, E)
<1> DEFINE f == SubSeq(s, 1, n - 1)
           t == SubSeq(s, n + 1, Len(s))
           u == RemoveAt(s, n)
<1>1. Len(s) \in Nat /\ k \in 0 .. Len(s)
  BY DEF InOrder
<1>2. /\ f \in Seq(Notice) /\ Len(f) = n - 1
      /\ \A i \in 1 .. n - 1 : f[i] = s[i]
  <2>1. \A i \in 1 .. n - 1 : s[i] \in Notice
    BY <1>1, ElementOfSeq
  <2>2. /\ f \in Seq(Notice)
        /\ Len(f) = IF 1 <= n - 1 THEN n - 1 - 1 + 1 ELSE 0
        /\ \A i \in 1 .. n - 1 - 1 + 1 : f[i] = s[1 + i - 1]
    BY <1>1, <2>1, SubSeqProperties
  <2>3. QED
    BY <1>1, <2>2
<1>3. /\ t \in Seq(Notice) /\ Len(t) = Len(s) - n
      /\ \A i \in 1 .. Len(s) - n : t[i] = s[i + n]
  BY <1>1, OrderFromMiddle
<1> HIDE DEF f, t
<1>4. /\ u \in Seq(Notice) /\ Len(u) = Len(s) - 1
      /\ \A i \in 1 .. Len(s) - 1 : u[i] = IF i < n THEN s[i] ELSE s[i + 1]
  <2>1. u = f \o t
    BY DEF RemoveAt, f, t
  <2>2. /\ f \o t \in Seq(Notice)
        /\ Len(f \o t) = Len(f) + Len(t)
        /\ \A i \in 1 .. Len(f) + Len(t) :
             (f \o t)[i] = IF i <= Len(f) THEN f[i] ELSE t[i - Len(f)]
    BY <1>2, <1>3, ConcatProperties
  <2>3. \A i \in 1 .. Len(s) - 1 : (f \o t)[i] = IF i < n THEN s[i] ELSE s[i + 1]
    <3> SUFFICES ASSUME NEW i \in 1 .. Len(s) - 1
                 PROVE  (f \o t)[i] = IF i < n THEN s[i] ELSE s[i + 1]
      OBVIOUS
    <3>1. CASE i < n
      BY <1>1, <1>2, <1>3, <2>2, <3>1
    <3>2. CASE ~ (i < n)
      <4>1. i - (n - 1) \in 1 .. Len(s) - n /\ i - (n - 1) + n = i + 1
        BY <1>1, <3>2
      <4>2. t[i - (n - 1)] = s[i + 1]
        BY <1>3, <4>1
      <4>3. i \in 1 .. Len(f) + Len(t) /\ ~ (i <= Len(f)) /\ i - Len(f) = i - (n - 1)
        BY <1>1, <1>2, <1>3, <3>2
      <4>4. QED
        BY <2>2, <3>2, <4>2, <4>3
    <3>3. QED
      BY <3>1, <3>2
  <2>4. QED
    BY <1>1, <1>2, <1>3, <2>1, <2>2, <2>3
<1> HIDE DEF u
<1>5. InOrder(u, IF n <= k THEN k - 1 ELSE k, b, E)
  <2>1. \A i \in 1 .. Len(u) :
          \/ i < n /\ i \in 1 .. Len(s) /\ u[i] = s[i]
          \/ i >= n /\ i + 1 \in 1 .. Len(s) /\ u[i] = s[i + 1]
    BY <1>1, <1>4
  <2>2. ASSUME NEW i \in 1 .. Len(u), NEW j \in 1 .. Len(u), i < j
        PROVE  u[i] < u[j]
    <3>1. i < j + 1 /\ i + 1 < j + 1 /\ (j < n => i < n)
      BY <1>1, <1>4, <2>2
    <3>2. QED
      BY <2>1, <2>2, <3>1 DEF InOrder
  <2>3. \A i \in 1 .. Len(u) : u[i] < b
    BY <2>1 DEF InOrder
  <2>4. CASE n <= k
    <3>1. \A i \in 1 .. Len(u) : u[i] \in E <=> i <= k - 1
      BY <1>1, <1>4, <2>1, <2>4 DEF InOrder
    <3>2. QED
      BY <1>1, <1>4, <2>2, <2>3, <2>4, <3>1 DEF InOrder
  <2>5. CASE ~ (n <= k)
    <3>1. \A i \in 1 .. Len(u) : u[i] \in E <=> i <= k
      BY <1>1, <1>4, <2>1, <2>5 DEF InOrder
    <3>2. QED
      BY <1>1, <1>4, <2>2, <2>3, <2>5, <3>1 DEF InOrder
  <2>6. QED
    BY <2>4, <2>5
<1>6. QED
  BY <1>4, <1>5 DEF u

-----------------------------------------------------------------------------
(* What a notice needs to be found expired, and its number to be new.      *)
StoreInOrder ==
  /\ next \in Nat
  /\ \A n \in stale : n < next
  /\ \E k \in Nat : InOrder(notes, k, next, stale)

(* The inductive invariant.                                                *)
NoticeInv == TypeOK /\ NothingMissed /\ StoreInOrder

(* getPending: the rest of the store, still in order.                      *)
LEMMA UnexpiredIsRest ==
  ASSUME notes \in Seq(Notice), StoreInOrder
  PROVE  /\ Unexpired \in Seq(Notice)
         /\ Len(Unexpired) <= Len(notes)
         /\ InOrder(Unexpired, 0, next, stale)
         /\ ToSet(Unexpired) = Stored \ stale
<1>1. PICK k \in Nat : InOrder(notes, k, next, stale)
  BY DEF StoreInOrder
<1>2. Len(notes) \in Nat /\ DOMAIN notes = 1 .. Len(notes) /\ k \in 0 .. Len(notes)
        /\ next \in Nat
  BY <1>1 DEF InOrder, StoreInOrder
<1>3. InFront(k)
  BY <1>1, <1>2 DEF InOrder, InFront
<1>4. ASSUME NEW j \in 0 .. Len(notes), InFront(j)
      PROVE  j = k
  <2>1. ASSUME j < k PROVE FALSE
    <3>1. k \in DOMAIN notes
      BY <1>2, <2>1
    <3>2. k <= j
      BY <1>2, <1>3, <1>4, <3>1 DEF InFront
    <3>3. QED
      BY <1>2, <2>1, <3>2
  <2>2. ASSUME k < j PROVE FALSE
    <3>1. j \in DOMAIN notes
      BY <1>2, <2>2
    <3>2. j <= k
      BY <1>2, <1>3, <1>4, <3>1 DEF InFront
    <3>3. QED
      BY <1>2, <2>2, <3>2
  <2>3. QED
    BY <1>2, <2>1, <2>2
<1>5. Unexpired = SubSeq(notes, k + 1, Len(notes))
  <2>1. (CHOOSE j \in 0 .. Len(notes) : InFront(j)) = k
    BY <1>2, <1>3, <1>4
  <2>2. QED
    BY <2>1 DEF Unexpired
<1>6. /\ Unexpired \in Seq(Notice)
      /\ Len(Unexpired) = Len(notes) - k
      /\ \A i \in 1 .. Len(notes) - k : Unexpired[i] = notes[i + k]
      /\ InOrder(Unexpired, IF k <= k THEN k - k ELSE 0, next, stale)
  BY <1>1, <1>2, <1>5, OrderFromMiddle
<1>7. (IF k <= k THEN k - k ELSE 0) = 0
  BY <1>2
<1>8. ToSet(Unexpired) = Stored \ stale
  <2>1. DOMAIN Unexpired = 1 .. Len(notes) - k
    BY <1>6
  <2>2. ASSUME NEW i \in 1 .. Len(notes) - k
        PROVE  Unexpired[i] \in Stored \ stale
    <3>1. i + k \in DOMAIN notes /\ ~ (i + k <= k)
      BY <1>2, <2>2
    <3>2. notes[i + k] \notin stale
      BY <1>3, <3>1 DEF InFront
    <3>3. QED
      BY <1>6, <3>1, <3>2 DEF Stored, ToSet
  <2>3. ASSUME NEW j \in DOMAIN notes, notes[j] \notin stale
        PROVE  notes[j] \in ToSet(Unexpired)
    <3>1. ~ (j <= k)
      BY <1>3, <2>3 DEF InFront
    <3>2. j - k \in 1 .. Len(notes) - k /\ j - k + k = j
      BY <1>2, <3>1
    <3>3. Unexpired[j - k] = notes[j]
      BY <1>6, <3>2
    <3>4. QED
      BY <2>1, <3>2, <3>3 DEF ToSet
  <2>4. QED
    BY <2>1, <2>2, <2>3 DEF Stored, ToSet
<1>9. QED
  BY <1>2, <1>6, <1>7, <1>8

(* add makes room: what is kept is a part of the store, and of the notices *)
(* that have not expired it leaves out at most the oldest, when it is full.*)
LEMMA RoomIsMade ==
  ASSUME notes \in Seq(Notice), Len(notes) <= MaxNotes, StoreInOrder
  PROVE  /\ Room \in Seq(Notice)
         /\ Len(Room) < MaxNotes
         /\ ToSet(Room) \subseteq Stored
         /\ \E k \in Nat : InOrder(Room, k, next, stale)
         /\ \A n \in Stored \ stale :
              n \in ToSet(Room) \/ (Len(notes) = MaxNotes /\ n = Head(Unexpired))
<1>1. Len(notes) \in Nat /\ MaxNotes \in Nat \ {0} /\ next \in Nat
  BY NoticeAssumption DEF StoreInOrder
<1>2. CASE Len(notes) < MaxNotes
  <2>1. Room = notes
    BY <1>2 DEF Room
  <2>2. QED
    BY <1>2, <2>1 DEF StoreInOrder, Stored
<1>3. CASE ~ (Len(notes) < MaxNotes)
  <2>1. Len(notes) = MaxNotes
    BY <1>1, <1>3
  <2>2. Unexpired \in Seq(Notice) /\ Len(Unexpired) \in Nat /\ Len(Unexpired) <= MaxNotes
        /\ InOrder(Unexpired, 0, next, stale) /\ ToSet(Unexpired) = Stored \ stale
    BY <2>1, UnexpiredIsRest
  <2>3. CASE Len(Unexpired) < MaxNotes
    <3>1. Room = Unexpired
      BY <1>3, <2>3 DEF Room
    <3>2. QED
      BY <2>2, <2>3, <3>1
  <2>4. CASE ~ (Len(Unexpired) < MaxNotes)
    <3>1. Room = Tail(Unexpired)
      BY <1>3, <2>4 DEF Room
    <3>2. Len(Unexpired) = MaxNotes /\ Unexpired # <<>>
      BY <1>1, <2>2, <2>4
    <3>4. /\ Tail(Unexpired) \in Seq(Notice)
          /\ Len(Tail(Unexpired)) = Len(Unexpired) - 1
          /\ \A i \in 1 .. Len(Unexpired) - 1 : Tail(Unexpired)[i] = Unexpired[i + 1]
          /\ InOrder(Tail(Unexpired), 0, next, stale)
      BY <1>1, <2>2, <3>2, OrderOfTail
    <3>6. Len(Room) < MaxNotes /\ \E k \in Nat : InOrder(Room, k, next, stale)
      BY <1>1, <3>1, <3>2, <3>4
    <3>7. ToSet(Room) \subseteq ToSet(Unexpired)
      BY <2>2, <3>1, <3>4 DEF ToSet
    <3>8. ASSUME NEW n \in ToSet(Unexpired)
          PROVE  n \in ToSet(Room) \/ n = Head(Unexpired)
      <4>1. PICK i \in 1 .. Len(Unexpired) : n = Unexpired[i]
        BY <2>2 DEF ToSet
      <4>2. CASE i = 1
        BY <2>2, <3>2, <4>1, <4>2
      <4>3. CASE i # 1
        <5>1. i - 1 \in 1 .. Len(Unexpired) - 1 /\ i - 1 + 1 = i
          BY <2>2, <4>3
        <5>2. Tail(Unexpired)[i - 1] = n /\ i - 1 \in DOMAIN Tail(Unexpired)
          BY <3>4, <4>1, <5>1
        <5>3. QED
          BY <3>1, <5>2 DEF ToSet
      <4>4. QED
        BY <4>2, <4>3
    <3>9. QED
      BY <2>1, <2>2, <3>1, <3>4, <3>6, <3>7, <3>8
  <2>5. QED
    BY <2>3, <2>4
<1>4. QED
  BY <1>2, <1>3

-----------------------------------------------------------------------------
LEMMA ToSetAppend ==
  ASSUME NEW S, NEW s \in Seq(S), NEW e \in S
  PROVE  ToSet(Append(s, e)) = ToSet(s) \cup {e}
<1>1. /\ Append(s, e) \in Seq(S)
      /\ Len(Append(s, e)) = Len(s) + 1
      /\ \A i \in 1 .. Len(s) : Append(s, e)[i] = s[i]
      /\ Append(s, e)[Len(s) + 1] = e
  BY AppendProperties
<1>2. Len(s) \in Nat /\ DOMAIN s = 1 .. Len(s) /\ DOMAIN Append(s, e) = 1 .. Len(s) + 1
  BY <1>1
<1>3. DOMAIN Append(s, e) = DOMAIN s \cup {Len(s) + 1}
  BY <1>2
<1> DEFINE u == Append(s, e)
<1> HIDE DEF u
<1>4. /\ DOMAIN u = DOMAIN s \cup {Len(s) + 1} /\ u[Len(s) + 1] = e
      /\ \A i \in DOMAIN s : u[i] = s[i]
  BY <1>1, <1>2, <1>3 DEF u
<1>5. ToSet(u) = ToSet(s) \cup {e}
  BY <1>4 DEF ToSet
<1>6. QED
  BY <1>5 DEF u

LEMMA ToSetHeadTail ==
  ASSUME NEW S, NEW s \in Seq(S), s # <<>>
  PROVE  ToSet(s) = {Head(s)} \cup ToSet(Tail(s))
<1>1. /\ Tail(s) \in Seq(S)
      /\ Len(Tail(s)) = Len(s) - 1
      /\ \A i \in 1 .. Len(s) - 1 : Tail(s)[i] = s[i + 1]
      /\ Head(s) = s[1] /\ Len(s) \in Nat \ {0}
  BY HeadTailProperties
<1>2. DOMAIN s = 1 .. Len(s) /\ DOMAIN Tail(s) = 1 .. Len(s) - 1
  BY <1>1
<1>3. ASSUME NEW i \in DOMAIN s
      PROVE  s[i] \in {Head(s)} \cup ToSet(Tail(s))
  <2>1. i # 1 => i - 1 \in 1 .. Len(s) - 1 /\ Tail(s)[i - 1] = s[i]
    BY <1>1, <1>2
  <2>2. QED
    BY <1>1, <1>2, <2>1 DEF ToSet
<1>4. ASSUME NEW i \in DOMAIN Tail(s)
      PROVE  Tail(s)[i] \in ToSet(s)
  BY <1>1, <1>2 DEF ToSet
<1>5. Head(s) \in ToSet(s)
  BY <1>1, <1>2 DEF ToSet
<1>6. QED
  BY <1>3, <1>4, <1>5 DEF ToSet

LEMMA ToSetReverse ==
  ASSUME NEW S, NEW s \in Seq(S)
  PROVE  Reverse(s) \in Seq(S) /\ ToSet(Reverse(s)) = ToSet(s)
<1>1. Len(s) \in Nat /\ DOMAIN s = 1 .. Len(s)
  OBVIOUS
<1>2. \A i \in 1 .. Len(s) : (Len(s) - i) + 1 \in 1 .. Len(s)
  BY <1>1
<1>3. Reverse(s) \in [1 .. Len(s) -> S]
  BY <1>1, <1>2, ElementOfSeq DEF Reverse
<1>4. Reverse(s) \in Seq(S)
  BY <1>1, <1>3
<1>5. \A i \in 1 .. Len(s) : s[i] = Reverse(s)[(Len(s) - i) + 1]
  <2>1. \A i \in 1 .. Len(s) : (Len(s) - ((Len(s) - i) + 1)) + 1 = i
    BY <1>1
  <2>2. QED
    BY <1>2, <2>1 DEF Reverse
<1>6. DOMAIN Reverse(s) = 1 .. Len(s) /\ \A i \in 1 .. Len(s) : Reverse(s)[i] = s[(Len(s) - i) + 1]
  BY DEF Reverse
<1>7. QED
  BY <1>1, <1>2, <1>4, <1>5, <1>6 DEF ToSet

-----------------------------------------------------------------------------
(* The desktop and the gateway start in the invariant.                     *)
LEMMA NoticeInit == Init => NoticeInv
<1> SUFFICES ASSUME Init PROVE NoticeInv
  OBVIOUS
<1>1. <<>> \in Seq(Notice) /\ Len(<<>>) = 0 /\ DOMAIN <<>> = {}
  OBVIOUS
<1>2. TypeOK
  <2>1. 0 \in 0 .. MaxFaults /\ 0 <= MaxNotes
    BY NoticeAssumption
  <2>2. QED
    BY <1>1, <2>1 DEF Init, TypeOK
<1>3. NothingMissed
  BY DEF Init, NothingMissed, Stored, ToSet
<1>4. StoreInOrder
  <2>1. InOrder(<<>>, 0, 1, {})
    BY <1>1 DEF InOrder
  <2>2. QED
    BY <2>1 DEF Init, StoreInOrder
<1>5. QED
  BY <1>2, <1>3, <1>4 DEF NoticeInv

(* What every step does to the store and its order, whatever the desktop   *)
(* does meanwhile.                                                         *)
LEMMA AddKeeps ==
  ASSUME NoticeInv, HandleProactiveResult
  PROVE  NoticeInv'
<1> USE DEF NoticeInv
<1>1. next \in Notice /\ next \in Nat /\ next' = next + 1 /\ notes' = Append(Room, next)
        /\ up /\ UNCHANGED <<up, stale, told, faults, online, stream, timer>>
  BY NoticeAssumption DEF HandleProactiveResult, Add, desktop
<1>2. /\ Room \in Seq(Notice) /\ Len(Room) \in Nat /\ Len(Room) < MaxNotes
      /\ ToSet(Room) \subseteq Stored
  BY RoomIsMade DEF TypeOK
<1>3. PICK k \in Nat : InOrder(Room, k, next, stale)
  BY RoomIsMade DEF TypeOK
<1>4. notes' \in Seq(Notice) /\ Len(notes') <= MaxNotes
  <2>1. notes' \in Seq(Notice) /\ Len(notes') = Len(Room) + 1
    BY <1>1, <1>2, AppendProperties
  <2>2. QED
    BY <1>2, <2>1, NoticeAssumption
<1>5. Stored' \subseteq Stored \cup {next}
  BY <1>1, <1>2, ToSetAppend DEF Stored
<1>6. next \notin stale
  BY <1>1 DEF StoreInOrder
<1>7. StoreInOrder'
  <2>1. InOrder(notes', k, next + 1, stale)
    BY <1>1, <1>2, <1>3, <1>6, OrderAppended
  <2>2. \A n \in stale : n < next + 1
    <3>1. stale \subseteq Nat
      BY NoticeAssumption DEF TypeOK
    <3>2. QED
      BY <1>1, <3>1 DEF StoreInOrder
  <2>3. QED
    BY <1>1, <2>1, <2>2 DEF StoreInOrder
<1>8. CASE Emit(next) /\ UNCHANGED muted
  <2>1. CASE stream = "open"
    <3>1. pipe' = Append(pipe, next)
      BY <1>8, <2>1 DEF Emit
    <3>2. pipe' \in Seq(Notice) /\ ToSet(pipe') = ToSet(pipe) \cup {next}
      BY <1>1, <3>1, ToSetAppend, AppendProperties DEF TypeOK
    <3>3. TypeOK'
      BY <1>1, <1>4, <1>8, <2>1, <3>2 DEF TypeOK
    <3>4. NothingMissed'
      BY <1>1, <1>5, <1>8, <3>2 DEF NothingMissed
    <3>5. QED
      BY <1>7, <3>3, <3>4
  <2>2. CASE stream # "open"
    <3>1. pipe' = pipe
      BY <1>8, <2>2 DEF Emit
    <3>2. TypeOK'
      BY <1>1, <1>4, <1>8, <3>1 DEF TypeOK
    <3>3. QED
      BY <1>1, <1>7, <2>2, <3>2 DEF NothingMissed
  <2>3. QED
    BY <2>1, <2>2
<1>9. CASE UNCHANGED pipe /\ muted' = muted \cup {next}
  <2>1. TypeOK'
    BY <1>1, <1>4, <1>9 DEF TypeOK
  <2>2. NothingMissed'
    BY <1>1, <1>5, <1>9 DEF NothingMissed
  <2>3. QED
    BY <1>7, <2>1, <2>2
<1>10. QED
  BY <1>8, <1>9 DEF HandleProactiveResult

LEMMA ExpireKeeps ==
  ASSUME NoticeInv, NEW n \in Notice, Expire(n)
  PROVE  NoticeInv'
<1> USE DEF NoticeInv
<1>1. /\ n \notin stale /\ stale' = stale \cup {n} /\ faults' = faults + 1
      /\ faults < MaxFaults
      /\ UNCHANGED <<up, notes, pipe, told, muted, next, online, stream, timer>>
  BY DEF Expire, Fault, history, desktop
<1>2. PICK i \in DOMAIN notes :
        notes[i] = n /\ \A j \in 1 .. i - 1 : notes[j] \in stale
  BY DEF Expire
<1>3. PICK k \in Nat : InOrder(notes, k, next, stale)
  BY DEF StoreInOrder
<1>4. Len(notes) \in Nat /\ DOMAIN notes = 1 .. Len(notes) /\ i \in 1 .. Len(notes)
        /\ k \in 0 .. Len(notes)
  BY <1>2, <1>3 DEF TypeOK, InOrder
<1>5. \A j \in 1 .. Len(notes) : notes[j] \in Nat
  <2>1. \A j \in 1 .. Len(notes) : notes[j] \in Notice
    BY ElementOfSeq DEF TypeOK
  <2>2. QED
    BY <2>1, NoticeAssumption
<1>6. InOrder(notes, i, next, stale')
  <2>1. ASSUME NEW j \in 1 .. Len(notes)
        PROVE  notes[j] \in stale' <=> j <= i
    <3>1. CASE j < i
      BY <1>1, <1>2, <1>4, <3>1
    <3>2. CASE j = i
      BY <1>1, <1>2, <3>2
    <3>3. CASE i < j
      <4>1. ~ (i <= k)
        BY <1>1, <1>2, <1>3, <1>4 DEF InOrder
      <4>2. ~ (j <= k)
        BY <1>4, <3>3, <4>1
      <4>3. notes[j] \notin stale
        BY <1>3, <4>2 DEF InOrder
      <4>4. notes[i] < notes[j]
        BY <1>3, <1>4, <3>3 DEF InOrder
      <4>5. notes[j] # n
        BY <1>2, <1>4, <1>5, <4>4
      <4>6. ~ (j <= i)
        BY <1>4, <3>3
      <4>7. QED
        BY <1>1, <4>3, <4>5, <4>6
    <3>4. QED
      BY <1>4, <3>1, <3>2, <3>3
  <2>2. i \in 0 .. Len(notes)
    BY <1>4
  <2>3. QED
    BY <1>3, <2>1, <2>2 DEF InOrder
<1>7. StoreInOrder'
  <2>1. n < next
    BY <1>2, <1>3, <1>4 DEF InOrder
  <2>2. \A m \in stale' : m < next
    BY <1>1, <2>1 DEF StoreInOrder
  <2>3. QED
    BY <1>1, <1>4, <1>6, <2>2 DEF StoreInOrder
<1>8. TypeOK'
  BY <1>1, NoticeAssumption DEF TypeOK
<1>9. NothingMissed'
  BY <1>1 DEF NothingMissed, Stored
<1>10. QED
  BY <1>7, <1>8, <1>9

LEMMA AcknowledgeKeeps ==
  ASSUME NoticeInv, NEW n \in Notice, Acknowledge(n)
  PROVE  NoticeInv' /\ Stored \ {n} \subseteq Stored'
<1> USE DEF NoticeInv
<1>1. PICK i \in DOMAIN notes : notes[i] = n /\ notes' = RemoveAt(notes, i)
  BY DEF Acknowledge
<1>2. UNCHANGED <<up, stale, pipe, told, muted, next, faults, online, stream, timer>> /\ up
  BY DEF Acknowledge, history, desktop
<1>3. PICK k \in Nat : InOrder(notes, k, next, stale)
  BY DEF StoreInOrder
<1>4. notes \in Seq(Notice) /\ Len(notes) \in Nat /\ DOMAIN notes = 1 .. Len(notes)
        /\ i \in 1 .. Len(notes) /\ next \in Nat /\ k \in 0 .. Len(notes)
  BY <1>1, <1>3 DEF TypeOK, StoreInOrder, InOrder
<1>5. /\ notes' \in Seq(Notice)
      /\ Len(notes') = Len(notes) - 1
      /\ \A j \in 1 .. Len(notes) - 1 :
           notes'[j] = IF j < i THEN notes[j] ELSE notes[j + 1]
      /\ InOrder(notes', IF i <= k THEN k - 1 ELSE k, next, stale)
  BY <1>1, <1>3, <1>4, OrderRemoved
<1>6. DOMAIN notes' = 1 .. Len(notes) - 1
  BY <1>5
<1>7. Stored' \subseteq Stored
  <2>1. ASSUME NEW j \in 1 .. Len(notes) - 1
        PROVE  notes'[j] \in Stored
    <3>1. j \in DOMAIN notes /\ j + 1 \in DOMAIN notes
      BY <1>4
    <3>2. QED
      BY <1>5, <3>1 DEF Stored, ToSet
  <2>2. QED
    BY <1>6, <2>1 DEF Stored, ToSet
<1>8. Stored \ {n} \subseteq Stored'
  <2>1. ASSUME NEW j \in DOMAIN notes, notes[j] # n
        PROVE  notes[j] \in Stored'
    <3>1. CASE j < i
      <4>1. j \in DOMAIN notes' /\ notes'[j] = notes[j]
        BY <1>4, <1>5, <1>6, <3>1
      <4>2. QED
        BY <4>1 DEF Stored, ToSet
    <3>2. CASE ~ (j < i)
      <4>1. j # i
        BY <1>1, <2>1
      <4>2. j - 1 \in DOMAIN notes' /\ ~ (j - 1 < i) /\ j - 1 + 1 = j
        BY <1>4, <1>6, <3>2, <4>1
      <4>3. notes'[j - 1] = notes[j]
        BY <1>5, <1>6, <4>2
      <4>4. QED
        BY <4>2, <4>3 DEF Stored, ToSet
    <3>3. QED
      BY <3>1, <3>2
  <2>2. QED
    BY <2>1 DEF Stored, ToSet
<1>9. TypeOK'
  <2>1. Len(notes') <= MaxNotes
    BY <1>4, <1>5, NoticeAssumption DEF TypeOK
  <2>2. QED
    BY <1>2, <1>5, <2>1 DEF TypeOK
<1>10. NothingMissed'
  BY <1>2, <1>7 DEF NothingMissed
<1>11. StoreInOrder'
  <2>1. (IF i <= k THEN k - 1 ELSE k) \in Nat
    BY <1>4
  <2>2. QED
    BY <1>2, <1>5, <2>1 DEF StoreInOrder
<1>12. QED
  BY <1>8, <1>9, <1>10, <1>11

LEMMA ServedKeeps ==
  ASSUME NoticeInv, Served
  PROVE  NoticeInv' /\ Stored \ stale \subseteq Stored'
<1> USE DEF NoticeInv
<1>1. /\ up /\ stream' = "open" /\ pipe' = Reverse(Unexpired) /\ notes' = Unexpired
      /\ UNCHANGED <<up, stale, online, timer, told, muted, next, faults>>
  BY DEF Served, Replay, history
<1>2. /\ Unexpired \in Seq(Notice) /\ Len(Unexpired) <= Len(notes)
      /\ Len(Unexpired) \in Nat /\ Len(notes) \in Nat
      /\ InOrder(Unexpired, 0, next, stale)
      /\ ToSet(Unexpired) = Stored \ stale
  BY UnexpiredIsRest DEF TypeOK
<1>3. pipe' \in Seq(Notice) /\ ToSet(pipe') = ToSet(Unexpired)
  BY <1>1, <1>2, ToSetReverse
<1>4. Len(notes') <= MaxNotes
  BY <1>1, <1>2, NoticeAssumption DEF TypeOK
<1>5. TypeOK'
  BY <1>1, <1>2, <1>3, <1>4 DEF TypeOK
<1>6. NothingMissed'
  BY <1>1, <1>3 DEF NothingMissed, Stored
<1>7. StoreInOrder'
  BY <1>1, <1>2 DEF StoreInOrder
<1>8. QED
  BY <1>1, <1>2, <1>5, <1>6, <1>7 DEF Stored

LEMMA ReceiveKeeps ==
  ASSUME NoticeInv, Receive
  PROVE  NoticeInv'
<1> USE DEF NoticeInv
<1>1. /\ stream = "open" /\ pipe # <<>>
      /\ told' = told \cup {Head(pipe)} /\ pipe' = Tail(pipe)
      /\ UNCHANGED <<up, notes, stale, online, stream, timer, muted, next, faults>>
  BY DEF Receive, history, desktop
<1>2. /\ Head(pipe) \in Notice /\ Tail(pipe) \in Seq(Notice)
      /\ ToSet(pipe) = {Head(pipe)} \cup ToSet(Tail(pipe))
  BY <1>1, HeadTailProperties, ToSetHeadTail DEF TypeOK
<1>3. TypeOK'
  BY <1>1, <1>2 DEF TypeOK
<1>4. NothingMissed'
  BY <1>1, <1>2 DEF NothingMissed, Stored
<1>5. StoreInOrder'
  BY <1>1 DEF StoreInOrder
<1>6. QED
  BY <1>3, <1>4, <1>5

(* The other steps are those of connections: what is stored stays, or dies *)
(* with the gateway.                                                       *)
LEMMA ConnectionKeeps ==
  ASSUME NoticeInv,
         GatewayOnline \/ GatewayNotOnline \/ StreamFails \/ ReconnectTimer
           \/ GatewayDies \/ GatewayStarts \/ UNCHANGED vars
  PROVE  NoticeInv' /\ (notes' = notes \/ ~ up')
<1> USE DEF NoticeInv
<1>0. <<>> \in Seq(Notice) /\ Len(<<>>) = 0 /\ DOMAIN <<>> = {}
  OBVIOUS
<1>1. ASSUME GatewayDies
      PROVE  NoticeInv' /\ ~ up'
  <2>1. TypeOK'
    <3>1. faults' \in 0 .. MaxFaults /\ 0 <= MaxNotes
      BY <1>1, NoticeAssumption DEF GatewayDies, Fault, TypeOK
    <3>2. timer' \in BOOLEAN /\ up' = FALSE /\ online' = FALSE /\ stream' = "none"
      BY <1>1 DEF GatewayDies
    <3>3. notes' = <<>> /\ pipe' = <<>> /\ stale' = {} /\ UNCHANGED <<told, muted>>
      BY <1>1 DEF GatewayDies, history
    <3>4. QED
      BY <1>0, <3>1, <3>2, <3>3 DEF TypeOK
  <2>2. NothingMissed'
    BY <1>1 DEF GatewayDies, NothingMissed
  <2>3. InOrder(<<>>, 0, next, {})
    BY <1>0 DEF InOrder
  <2>4. StoreInOrder'
    BY <1>1, <2>3 DEF GatewayDies, history, StoreInOrder
  <2>5. QED
    BY <1>1, <2>1, <2>2, <2>4 DEF GatewayDies
<1>2. ASSUME GatewayOnline \/ GatewayNotOnline \/ StreamFails \/ ReconnectTimer
      PROVE  NoticeInv' /\ notes' = notes
  <2>1. /\ UNCHANGED <<up, notes, stale, told, muted, next>>
        /\ stream' \in {"asked", "none"} /\ pipe' = <<>> /\ timer' \in BOOLEAN
        /\ online' \in BOOLEAN
    BY <1>2 DEF GatewayOnline, GatewayNotOnline, StreamFails, ReconnectTimer, Connect,
                Disconnect, Lost, history, TypeOK
  <2>2. faults' \in 0 .. MaxFaults
    BY <1>2, NoticeAssumption
    DEF GatewayOnline, GatewayNotOnline, StreamFails, ReconnectTimer, Fault, TypeOK
  <2>3. TypeOK'
    BY <1>0, <2>1, <2>2 DEF TypeOK
  <2>4. QED
    BY <2>1, <2>3 DEF NothingMissed, StoreInOrder
<1>3. ASSUME GatewayStarts
      PROVE  NoticeInv' /\ notes' = notes
  BY <1>3 DEF GatewayStarts, history, desktop, TypeOK, NothingMissed, Stored, StoreInOrder
<1>4. ASSUME UNCHANGED vars
      PROVE  NoticeInv' /\ notes' = notes
  BY <1>4 DEF vars, TypeOK, NothingMissed, Stored, StoreInOrder
<1>5. QED
  BY <1>1, <1>2, <1>3, <1>4

LEMMA NoticeStep == NoticeInv /\ [Next]_vars => NoticeInv'
BY AddKeeps, ExpireKeeps, AcknowledgeKeeps, ServedKeeps, ReceiveKeeps, ConnectionKeeps
DEF Next

LEMMA NoticeInvariant == Spec => []NoticeInv
BY NoticeInit, NoticeStep, PTL DEF Spec

(* The variables have their types: the store is never larger than its      *)
(* limit, and a stream that is not open carries nothing.                   *)
THEOREM NoticeTypeCorrect == Spec => []TypeOK
<1>1. NoticeInv => TypeOK
  BY DEF NoticeInv
<1> QED BY NoticeInvariant, <1>1, PTL

(* Between the replay and the broadcasts of a stream no notice is missed.  *)
THEOREM NothingMissedCorrect == Spec => []NothingMissed
<1>1. NoticeInv => NothingMissed
  BY DEF NoticeInv
<1> QED BY NoticeInvariant, <1>1, PTL

(* No step takes an unread notice out of the store but its expiry, the end *)
(* of the gateway and, when the store is full, the arrival of a newer one. *)
THEOREM UnreadIsKeptCorrect == Spec => UnreadIsKept
<1>1. ASSUME NoticeInv, [Next]_vars, NEW n \in Stored \ told
      PROVE  n \in ToSet(notes') \/ n \in stale \/ ~up'
               \/ (Len(notes) = MaxNotes /\ n = Head(Unexpired))
  <2> USE DEF NoticeInv
  <2>1. CASE HandleProactiveResult
    <3>1. /\ n \notin stale => n \in ToSet(Room) \/ (Len(notes) = MaxNotes /\ n = Head(Unexpired))
          /\ Room \in Seq(Notice)
      BY <1>1, RoomIsMade DEF TypeOK
    <3>2. ToSet(notes') = ToSet(Room) \cup {next}
      BY <2>1, <3>1, ToSetAppend DEF HandleProactiveResult, Add
    <3>3. QED
      BY <3>1, <3>2
  <2>2. ASSUME NEW m \in Notice, Expire(m)
        PROVE  n \in ToSet(notes')
    BY <2>2, <1>1 DEF Expire, Stored
  <2>3. ASSUME NEW m \in Notice, Acknowledge(m)
        PROVE  n \in ToSet(notes')
    <3>1. m \in told
      BY <2>3 DEF Acknowledge
    <3>2. QED
      BY <1>1, <2>3, <3>1, AcknowledgeKeeps DEF Stored
  <2>4. CASE Served
    BY <1>1, <2>4, ServedKeeps DEF Stored
  <2>5. CASE Receive
    BY <1>1, <2>5 DEF Receive, Stored
  <2>6. CASE GatewayOnline \/ GatewayNotOnline \/ StreamFails \/ ReconnectTimer
               \/ GatewayDies \/ GatewayStarts \/ UNCHANGED vars
    BY <1>1, <2>6, ConnectionKeeps DEF Stored
  <2>7. QED
    BY <1>1, <2>1, <2>2, <2>3, <2>4, <2>5, <2>6 DEF Next
<1>2. NoticeInv /\ [Next]_vars
        => [\A n \in Stored \ told :
              n \in ToSet(notes') \/ n \in stale \/ ~up'
              \/ (Len(notes) = MaxNotes /\ n = Head(Unexpired))]_vars
  BY <1>1
<1>3. QED
  BY <1>2, NoticeInvariant, PTL DEF Spec, UnreadIsKept

-----------------------------------------------------------------------------
(* What start() finds.                                                     *)
NotStarted ==
  ~ started => /\ spawning = "no" /\ child = "none" /\ status = "offline"
               /\ ~ checking /\ check = "no" /\ ~ restartTimer

(* What a spawn finds when the port is there: no check is open.  Checks are*)
(* asked for while there is a child.                                       *)
SpawnsAlone ==
  /\ spawning # "no" => status = "starting" /\ ~ checking /\ check = "no"
  /\ checking => child # "none"

(* Only the child that runs answers well, so a good answer is never that   *)
(* of a child that could not be started.                                   *)
AnswersAreOwn ==
  /\ port = "own" => child = "running"
  /\ check = "ok" => child # "failed"

(* The counter passes its limit only together with "error".                *)
LimitIsError == restarts > MaxRestarts => status = "error" \/ isShuttingDown

(* The inductive invariant.                                                *)
ManagerInv ==
  /\ ManagerTypeOK /\ NoGreenFlicker /\ OneGateway
  /\ NotStarted /\ SpawnsAlone /\ AnswersAreOwn /\ LimitIsError

-----------------------------------------------------------------------------
(* The manager starts in the invariant.                                    *)
LEMMA ManagerStarts == ManagerInit => ManagerInv
<1> SUFFICES ASSUME ManagerInit PROVE ManagerInv
  OBVIOUS
<1>1. 0 \in 0 .. MaxRestarts + 1 /\ 0 \in Nat /\ ~ 0 > MaxRestarts
  BY LimitsAssumption
<1> QED
  BY <1>1 DEF ManagerInit, ManagerInv, ManagerTypeOK, NoGreenFlicker, OneGateway,
     NotStarted, SpawnsAlone, AnswersAreOwn, LimitIsError

(* Every step keeps it.                                                    *)
LEMMA ManagerStep ==
  ManagerInv /\ [ManagerNext]_managerVars => ManagerInv'
<1> SUFFICES ASSUME ManagerInv, [ManagerNext]_managerVars PROVE ManagerInv'
  OBVIOUS
<1> USE LimitsAssumption DEF ManagerInv, ManagerTypeOK, NoGreenFlicker, OneGateway,
        NotStarted, SpawnsAlone, AnswersAreOwn, LimitIsError,
        managerVars, processVars, healthVars, timerVars, stopVars
<1>1. CASE Start
  BY <1>1 DEF Start, SpawnBegins
<1>2. CASE PortFree
  BY <1>2 DEF PortFree, SpawnEnds
<1>3. CASE KillOrphanedGateway
  BY <1>3 DEF KillOrphanedGateway
<1>4. CASE PortBlocked
  BY <1>4 DEF PortBlocked, SpawnRefused
<1>5. CASE PortTriedAgain
  <2>1. CASE port = "free"
    BY <1>5, <2>1 DEF PortTriedAgain, SpawnEnds
  <2>2. CASE port # "free"
    BY <1>5, <2>2 DEF PortTriedAgain, SpawnRefused
  <2> QED BY <2>1, <2>2
<1>6. CASE Listens
  BY <1>6 DEF Listens
<1>7. CASE Exits
  BY <1>7 DEF Exits
<1>8. CASE OrphanExits
  BY <1>8 DEF OrphanExits
<1>9. CASE ExitEvent
  <2>1. CASE isShuttingDown
    BY <1>9, <2>1 DEF ExitEvent
  <2>2. CASE ~ isShuttingDown /\ restarts < MaxRestarts
    <3>1. restarts + 1 \in 0 .. MaxRestarts + 1 /\ ~ restarts + 1 > MaxRestarts
      BY <2>2
    <3>2. restartTimer' = TRUE /\ status' = "offline" /\ restarts' = restarts + 1
      BY <1>9, <2>2 DEF ExitEvent, Restarts
    <3> QED BY <1>9, <2>2, <3>1, <3>2 DEF ExitEvent
  <2>3. CASE ~ isShuttingDown /\ ~ restarts < MaxRestarts
    <3>1. restarts + 1 \in 0 .. MaxRestarts + 1
      BY <1>9, <2>3 DEF ExitEvent
    <3>2. restartTimer' = FALSE /\ status' = "error" /\ restarts' = restarts + 1
      BY <1>9, <2>3 DEF ExitEvent, Restarts
    <3> QED BY <1>9, <2>3, <3>1, <3>2 DEF ExitEvent
  <2> QED BY <2>1, <2>2, <2>3
<1>10. CASE RestartTimer
  <2>1. child = "none" /\ status # "error" /\ started /\ ~ checking
    BY <1>10 DEF RestartTimer
  <2> QED BY <1>10, <2>1 DEF RestartTimer, SpawnBegins
<1>11. CASE StableTimer
  <2>1. restarts' \in 0 .. MaxRestarts + 1
    BY <1>11 DEF StableTimer
  <2>2. LimitIsError'
    BY <1>11 DEF StableTimer
  <2>3. ManagerTypeOK'
    BY <1>11, <2>1 DEF StableTimer
  <2> QED BY <1>11, <2>2, <2>3 DEF StableTimer
<1>12. CASE Ask
  BY <1>12 DEF Ask
<1>13. CASE Answer
  BY <1>13 DEF Answer
<1>14. CASE CheckEnds
  <2>1. CASE CheckPassed
    BY <1>14, <2>1 DEF CheckEnds, CheckPassed, AnswerOfLiving
  <2>2. CASE CheckFailed
    <3>1. failures' \in Nat
      BY <2>2 DEF CheckFailed
    <3> QED BY <1>14, <2>2, <3>1 DEF CheckEnds, CheckFailed, AnswerOfLiving, NoRestart
  <2>3. CASE CheckIgnored
    BY <1>14, <2>3 DEF CheckEnds, CheckIgnored
  <2> QED BY <1>14, <2>1, <2>2, <2>3 DEF CheckEnds
<1>15. CASE Stop
  BY <1>15 DEF Stop
<1>16. CASE ForceKill
  BY <1>16 DEF ForceKill, Kill
<1>17. CASE UNCHANGED managerVars
  BY <1>17
<1> QED
  BY <1>1, <1>2, <1>3, <1>4, <1>5, <1>6, <1>7, <1>8, <1>9, <1>10, <1>11, <1>12,
     <1>13, <1>14, <1>15, <1>16, <1>17 DEF ManagerNext

LEMMA ManagerInvariant == ManagerSpec => []ManagerInv
  BY ManagerStarts, ManagerStep, PTL DEF ManagerSpec

-----------------------------------------------------------------------------
(* The variables have their types, and the counter of restarts passes its  *)
(* limit by one at most: the crash counted beyond it is answered by no     *)
(* other restart.  The failed checks in a row have no limit in the code.   *)
THEOREM ManagerTypeCorrect ==
  ManagerSpec => []ManagerTypeOK
<1>1. ManagerInv => ManagerTypeOK
  BY DEF ManagerInv
<1> QED BY ManagerInvariant, <1>1, PTL

(* "Online" is never shown for a gateway whose exit has been handled.      *)
THEOREM NoGreenFlickerCorrect ==
  ManagerSpec => []NoGreenFlicker
<1>1. ManagerInv => NoGreenFlicker
  BY DEF ManagerInv
<1> QED BY ManagerInvariant, <1>1, PTL

(* One manager never has two gateways, nor a spawn beside a restart, and an*)
(* error leaves no process, no spawn and no restart behind.                *)
THEOREM OneGatewayCorrect ==
  ManagerSpec => []OneGateway
<1>1. ManagerInv => OneGateway
  BY DEF ManagerInv
<1> QED BY ManagerInvariant, <1>1, PTL
=============================================================================
