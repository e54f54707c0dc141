--------------------------- MODULE TxPath_proofs ---------------------------
(***************************************************************************)
(* Theorems about the transmit path, for every number of faces, size of    *)
(* the ring, choice of schedulers and intervals: its type invariant, that  *)
(* no packet waits without a callback on its way, that slots stay apart,   *)
(* that the schedulers' counts cover what is queued, and that the path     *)
(* implements a lossy FIFO.                                                *)
(***************************************************************************)
EXTENDS TxPath, FiniteSetTheorems, SequenceTheorems, WellFoundedInduction, TLAPS

(***************************************************************************)
(* The ordered list of timers, whatever its entries hold besides their     *)
(* time.                                                                   *)
(***************************************************************************)
Timed(T) == \A t \in T : t.at \in Int
-----------------------------------------------------------------------------
(* The place that ccnl_set_timer looks for exists: the first later entry, or the end. *)
LEMMA PlaceFound ==
  ASSUME NEW T, Timed(T), NEW q \in Seq(T), NEW at \in Int
  PROVE  /\ Place(q, at) \in 1..Len(q) + 1
         /\ \A j \in 1..Place(q, at) - 1 : q[j].at =< at
         /\ Place(q, at) =< Len(q) => q[Place(q, at)].at > at
<1> DEFINE Later == {j \in 1..Len(q) : q[j].at > at}
<1>1. \E k \in 1..Len(q) + 1 :
        /\ \A j \in 1..k - 1 : q[j].at =< at
        /\ k =< Len(q) => q[k].at > at
  <2>0. \A j \in 1..Len(q) : q[j].at \in Int
    <3>1. \A j \in 1..Len(q) : q[j] \in T
      BY ElementOfSeq
    <3> QED  BY <3>1 DEF Timed
  <2>1. CASE Later = {}
    <3>1. \A j \in 1..Len(q) : q[j].at =< at
      BY <2>0, <2>1
    <3> QED  BY <3>1
  <2>2. CASE Later # {}
    <3>1. Later \subseteq Nat
      OBVIOUS
    <3>2. PICK k \in Later : \A j \in Later : ~ (<<j, k>> \in OpToRel(<, Nat))
      BY <2>2, <3>1, WFMin, NatLessThanWellFounded
    <3>3. \A j \in Later : ~ (j < k)
      BY <3>1, <3>2 DEF OpToRel
    <3>4. \A j \in 1..k - 1 : q[j].at =< at
      BY <2>0, <3>3
    <3> QED  BY <3>4
  <2> QED  BY <2>1, <2>2
<1> QED  BY <1>1 DEF Place

(* What the list is after ccnl_set_timer, entry by entry. *)
LEMMA Inserted ==
  ASSUME NEW T, Timed(T), NEW q \in Seq(T), NEW t \in T
  PROVE  LET k == Place(q, t.at)
         IN  /\ Insert(q, t) \in Seq(T)
             /\ Len(Insert(q, t)) = Len(q) + 1
             /\ \A i \in 1..Len(q) + 1 :
                  Insert(q, t)[i] = IF i < k THEN q[i] ELSE IF i = k THEN t ELSE q[i - 1]
<1> DEFINE k == Place(q, t.at)
<1>1. t.at \in Int
  BY DEF Timed
<1>2. k \in 1..Len(q) + 1
  BY <1>1, PlaceFound
<1> HIDE DEF k
<1> DEFINE front == SubSeq(q, 1, k - 1)
           back == SubSeq(q, k, Len(q))
<1>3. InsertAt(q, k, t) = (front \o <<t>>) \o back
  BY DEF InsertAt
<1>e. \A i \in 1..Len(q) : q[i] \in T
  BY ElementOfSeq
<1>4. /\ front \in Seq(T) /\ Len(front) = k - 1
      /\ \A i \in 1..k - 1 : front[i] = q[i]
  BY <1>2, <1>e, SubSeqProperties
<1>5. /\ back \in Seq(T) /\ Len(back) = Len(q) + 1 - k
      /\ \A i \in 1..Len(q) + 1 - k : back[i] = q[k + i - 1]
  BY <1>2, <1>e, SubSeqProperties
<1> HIDE DEF front, back
<1> DEFINE head == front \o <<t>>
<1>6. /\ head \in Seq(T) /\ Len(head) = k
      /\ \A i \in 1..k : head[i] = IF i < k THEN q[i] ELSE t
  <2>1. <<t>> \in Seq(T) /\ Len(<<t>>) = 1 /\ <<t>>[1] = t
    OBVIOUS
  <2> QED  BY <1>2, <1>4, <2>1, ConcatProperties
<1> HIDE DEF head
<1>7. /\ head \o back \in Seq(T) /\ Len(head \o back) = Len(head) + Len(back)
      /\ \A i \in 1..Len(head) + Len(back) :
           (head \o back)[i] = IF i <= Len(head) THEN head[i] ELSE back[i - Len(head)]
  BY <1>5, <1>6, ConcatProperties
<1>8. \A i \in 1..Len(q) + 1 :
        (head \o back)[i] = IF i < k THEN q[i] ELSE IF i = k THEN t ELSE q[i - 1]
  <2> SUFFICES ASSUME NEW i \in 1..Len(q) + 1
               PROVE  (head \o back)[i] = IF i < k THEN q[i] ELSE IF i = k THEN t ELSE q[i - 1]
    OBVIOUS
  <2>1. CASE i =< k
    BY <1>2, <1>5, <1>6, <1>7, <2>1
  <2>2. CASE i > k
    <3>1. i - k \in 1..Len(q) + 1 - k /\ k + (i - k) - 1 = i - 1
      BY <1>2, <2>2
    <3>2. back[i - k] = q[i - 1]
      BY <1>5, <3>1
    <3> QED  BY <1>2, <1>5, <1>6, <1>7, <2>2, <3>2
  <2>3. i =< k \/ i > k
    BY <1>2
  <2> QED  BY <2>1, <2>2, <2>3
<1>9. Len(head \o back) = Len(q) + 1
  BY <1>2, <1>5, <1>6, <1>7
<1>10. Insert(q, t) = head \o back
  BY <1>3 DEF Insert, k, head
<1> HIDE DEF head
<1> QED  BY <1>7, <1>8, <1>9, <1>10 DEF k

(* What the list is after ccnl_rem_timer. *)
LEMMA Removed ==
  ASSUME NEW T, NEW q \in Seq(T), NEW k \in 1..Len(q)
  PROVE  /\ Without(q, k) \in Seq(T)
         /\ Len(Without(q, k)) = Len(q) - 1
         /\ \A i \in 1..Len(q) - 1 : Without(q, k)[i] = IF i < k THEN q[i] ELSE q[i + 1]
<1> DEFINE front == SubSeq(q, 1, k - 1)
           back == SubSeq(q, k + 1, Len(q))
<1>1. Without(q, k) = front \o back
  BY DEF Without, RemoveAt
<1>e. \A i \in 1..Len(q) : q[i] \in T
  BY ElementOfSeq
<1>2. /\ front \in Seq(T) /\ Len(front) = k - 1
      /\ \A i \in 1..k - 1 : front[i] = q[i]
  BY <1>e, SubSeqProperties
<1>3. /\ back \in Seq(T) /\ Len(back) = Len(q) - k
      /\ \A i \in 1..Len(q) - k : back[i] = q[k + i]
  BY <1>e, SubSeqProperties
<1> HIDE DEF front, back
<1>4. /\ front \o back \in Seq(T) /\ Len(front \o back) = Len(front) + Len(back)
      /\ \A i \in 1..Len(front) + Len(back) :
           (front \o back)[i] = IF i <= Len(front) THEN front[i] ELSE back[i - Len(front)]
  BY <1>2, <1>3, ConcatProperties
<1>5. ASSUME NEW i \in 1..Len(q) - 1
      PROVE  Without(q, k)[i] = IF i < k THEN q[i] ELSE q[i + 1]
  <2>1. CASE i < k
    BY <1>1, <1>2, <1>3, <1>4, <2>1
  <2>2. CASE i >= k
    <3>1. i - (k - 1) \in 1..Len(q) - k /\ k + (i - (k - 1)) = i + 1
      BY <2>2
    <3>2. back[i - (k - 1)] = q[i + 1]
      BY <1>3, <3>1
    <3> QED  BY <1>1, <1>2, <1>3, <1>4, <2>2, <3>2
  <2> QED  BY <2>1, <2>2
<1> QED  BY <1>1, <1>2, <1>3, <1>4, <1>5
-----------------------------------------------------------------------------
(* Places in the ring *)

LEMMA NoRest == ASSUME NEW n \in Nat \ {0}, NEW x \in 0..n - 1 PROVE x % n = x
OBVIOUS

LEMMA OneRound == ASSUME NEW n \in Nat \ {0}, NEW x \in n..2 * n - 1 PROVE x % n = x - n
BY Z3

LEMMA Wrap ==
  ASSUME NEW x \in 0..2 * QLen - 1
  PROVE  x % QLen = IF x < QLen THEN x ELSE x - QLen
<1>1. QLen \in Nat \ {0}
  BY LimitsAssumption
<1>2. CASE x < QLen
  <2>1. x \in 0..QLen - 1
    BY <1>1, <1>2
  <2> QED
    BY <1>1, <1>2, <2>1, NoRest
<1>3. CASE x >= QLen
  <2>1. x \in QLen..2 * QLen - 1
    BY <1>1, <1>3
  <2>2. x % QLen = x - QLen
    BY <1>1, <2>1, OneRound
  <2> QED
    BY <1>1, <1>3, <2>2
<1> QED
  BY <1>1, <1>2, <1>3

LEMMA InSlots ==
  ASSUME NEW a \in Slots, NEW k \in 0..QLen
  PROVE  (a + k) % QLen \in Slots
<1> DEFINE x == a + k
<1>1. QLen \in Nat \ {0} /\ x \in 0..2 * QLen - 1
  BY LimitsAssumption DEF Slots
<1> HIDE DEF x
<1>2. x % QLen = IF x < QLen THEN x ELSE x - QLen
  BY <1>1, Wrap
<1>3. x % QLen \in Slots
  BY <1>1, <1>2 DEF Slots
<1> QED
  BY <1>3 DEF x

(* The places after the next one are those after this one. *)
LEMMA NextPlace ==
  ASSUME NEW a \in Slots, NEW k \in Nat, k + 1 < QLen
  PROVE  /\ (((a + 1) % QLen) + k) % QLen = (a + (k + 1)) % QLen
         /\ (a + (k + 1)) % QLen # a
<1> DEFINE x == a + 1
           n == x % QLen
           y == n + k
           z == a + (k + 1)
<1>1. QLen \in Nat \ {0} /\ a \in 0..QLen - 1
  BY LimitsAssumption DEF Slots
<1>2. x \in 0..2 * QLen - 1 /\ z \in 0..2 * QLen - 1 /\ x = a + 1 /\ z = a + (k + 1)
  BY <1>1
<1> HIDE DEF x, z
<1>3. n = IF x < QLen THEN x ELSE x - QLen
  BY <1>2, Wrap
<1>4. z % QLen = IF z < QLen THEN z ELSE z - QLen
  BY <1>2, Wrap
<1> HIDE DEF n
<1>5. y \in 0..2 * QLen - 1 /\ y = n + k
  BY <1>1, <1>2, <1>3
<1> HIDE DEF y
<1>6. y % QLen = IF y < QLen THEN y ELSE y - QLen
  BY <1>5, Wrap
<1>7. y % QLen = z % QLen /\ z % QLen # a
  BY <1>1, <1>2, <1>3, <1>4, <1>5, <1>6
<1> QED
  BY <1>7 DEF x, n, y, z
-----------------------------------------------------------------------------
(* Counting places in sequences *)

(* But for k, T is S with everything from k on moved up by one. *)
Raised(n, S, T, k) ==
  /\ n \in Nat /\ S \subseteq 1..n /\ T \subseteq 1..n + 1 /\ k \in 1..n + 1
  /\ \A i \in 1..n + 1 : i # k => (i \in T <=> (i < k /\ i \in S) \/ (i > k /\ i - 1 \in S))

LEMMA CountMoved ==
  ASSUME NEW n, NEW S, NEW T, NEW k, Raised(n, S, T, k), k \notin T
  PROVE  IsFiniteSet(T) /\ Cardinality(S) \in Nat /\ Cardinality(T) = Cardinality(S)
<1> USE DEF Raised
<1> DEFINE h == [i \in S |-> IF i < k THEN i ELSE i + 1]
<1>1. IsFiniteSet(S)
  <2>1. IsFiniteSet(1..n)
    BY FS_Interval
  <2> QED
    BY <2>1, FS_Subset
<1>2. \A i \in S : h[i] \in T
  OBVIOUS
<1>3. \A i \in S, j \in S : h[i] = h[j] => i = j
  OBVIOUS
<1>4. \A j \in T : \E i \in S : h[i] = j
  <2> SUFFICES ASSUME NEW j \in T PROVE \E i \in S : h[i] = j
    OBVIOUS
  <2>1. CASE j < k
    BY <2>1
  <2>2. CASE j > k
    <3>1. j - 1 \in S /\ ~ (j - 1 < k)
      BY <2>2
    <3> QED
      BY <3>1
  <2> QED
    BY <2>1, <2>2
<1>5. h \in Bijection(S, T)
  BY <1>2, <1>3, <1>4 DEF Bijection, Injection, Surjection, IsInjective
<1> HIDE DEF h
<1> QED
  BY <1>1, <1>5, FS_Bijection, FS_CardinalityType DEF ExistsBijection

(* And with k, too. *)
LEMMA CountAdded ==
  ASSUME NEW n, NEW S, NEW T, NEW k, Raised(n, S, T, k), k \in T
  PROVE  IsFiniteSet(T) /\ Cardinality(S) \in Nat /\ Cardinality(T) = Cardinality(S) + 1
<1> DEFINE U == T \ {k}
<1>1. Raised(n, S, U, k) /\ k \notin U
  BY DEF Raised
<1>2. T = U \cup {k}
  OBVIOUS
<1> HIDE DEF U
<1>3. IsFiniteSet(U) /\ Cardinality(S) \in Nat /\ Cardinality(U) = Cardinality(S)
  BY <1>1, CountMoved
<1> QED
  BY <1>1, <1>2, <1>3, FS_AddElement

Calling(q, c) == Cardinality({k \in 1..Len(q) : q[k] = c})

LEMMA CallingPush ==
  ASSUME NEW q \in Seq(Call), NEW d \in Call, NEW c
  PROVE  /\ <<d>> \o q \in Seq(Call)
         /\ Calling(q, c) \in Nat
         /\ Calling(<<d>> \o q, c) = Calling(q, c) + (IF d = c THEN 1 ELSE 0)
<1> DEFINE p == <<d>> \o q
           S == {k \in 1..Len(q) : q[k] = c}
           T == {k \in 1..Len(p) : p[k] = c}
<1>1. <<d>> \in Seq(Call) /\ Len(<<d>>) = 1 /\ <<d>>[1] = d
  OBVIOUS
<1>2. /\ p \in Seq(Call) /\ Len(p) = Len(q) + 1
      /\ p[1] = d /\ \A i \in 2..Len(q) + 1 : p[i] = q[i - 1]
  BY <1>1, ConcatProperties
<1> HIDE DEF p
<1>3. Raised(Len(q), S, T, 1) /\ (1 \in T <=> d = c)
  BY <1>2 DEF Raised
<1> HIDE DEF S, T
<1>4. /\ d = c => Cardinality(S) \in Nat /\ Cardinality(T) = Cardinality(S) + 1
      /\ d # c => Cardinality(S) \in Nat /\ Cardinality(T) = Cardinality(S)
  BY <1>3, CountAdded, CountMoved
<1>5. Calling(q, c) = Cardinality(S) /\ Calling(p, c) = Cardinality(T)
  BY DEF Calling, S, T
<1> QED
  BY <1>2, <1>4, <1>5 DEF p

LEMMA CallingPop ==
  ASSUME NEW q \in Seq(Call), q # <<>>, NEW c
  PROVE  /\ Tail(q) \in Seq(Call)
         /\ Calling(Tail(q), c) \in Nat
         /\ Calling(q, c) = Calling(Tail(q), c) + (IF Head(q) = c THEN 1 ELSE 0)
<1> DEFINE t == Tail(q)
<1>1. Head(q) \in Call /\ t \in Seq(Call) /\ q = <<Head(q)>> \o t
  <2>1. /\ Head(q) \in Call /\ t \in Seq(Call) /\ Len(t) = Len(q) - 1
        /\ \A i \in 1..Len(t) : t[i] = q[i + 1]
    BY HeadTailProperties
  <2>2. <<Head(q)>> \in Seq(Call) /\ Len(<<Head(q)>>) = 1 /\ <<Head(q)>>[1] = Head(q)
    BY <2>1
  <2>3. Head(q) = q[1]
    OBVIOUS
  <2> HIDE DEF t
  <2>4. /\ <<Head(q)>> \o t \in Seq(Call) /\ Len(<<Head(q)>> \o t) = Len(q)
        /\ \A i \in 1..Len(q) : (<<Head(q)>> \o t)[i] = q[i]
    BY <2>1, <2>2, <2>3, ConcatProperties
  <2> QED
    BY <2>1, <2>4, SeqEqual
<1> HIDE DEF t
<1>2. /\ Calling(t, c) \in Nat
      /\ Calling(<<Head(q)>> \o t, c) = Calling(t, c) + (IF Head(q) = c THEN 1 ELSE 0)
  BY <1>1, CallingPush
<1> QED
  BY <1>1, <1>2 DEF t

LEMMA CallingNone == \A c : Calling(<<>>, c) = 0
<1> SUFFICES ASSUME NEW c PROVE Calling(<<>>, c) = 0
  OBVIOUS
<1>1. {k \in 1..Len(<<>>) : <<>>[k] = c} = {}
  OBVIOUS
<1> QED
  BY <1>1, FS_EmptySet DEF Calling

-----------------------------------------------------------------------------
(* Counting the timers of a scheduler: all of them, and all but the first *)

Timer == [at : {-1} \cup Nat, who : Sched]

Waking(q, s) == Cardinality({k \in 1..Len(q) : q[k].who = s})

WakingLater(q, s) == Cardinality({k \in 1..Len(q) : q[k].who = s /\ k # 1})

LEMMA TimerTimed == Timed(Timer)
BY DEF Timed, Timer

LEMMA WakingInsert ==
  ASSUME NEW q \in Seq(Timer), NEW t \in Timer, NEW s
  PROVE  /\ Insert(q, t) \in Seq(Timer)
         /\ Waking(q, s) \in Nat
         /\ Waking(Insert(q, t), s) = Waking(q, s) + (IF t.who = s THEN 1 ELSE 0)
<1> DEFINE p == Insert(q, t)
           k == Place(q, t.at)
           S == {i \in 1..Len(q) : q[i].who = s}
           T == {i \in 1..Len(p) : p[i].who = s}
<1>1. /\ p \in Seq(Timer) /\ Len(p) = Len(q) + 1
      /\ \A i \in 1..Len(q) + 1 : p[i] = IF i < k THEN q[i] ELSE IF i = k THEN t ELSE q[i - 1]
  BY TimerTimed, Inserted
<1>2. k \in 1..Len(q) + 1
  <2>1. t.at \in Int
    BY DEF Timer
  <2> QED
    BY <2>1, TimerTimed, PlaceFound
<1> HIDE DEF p, k
<1>3. Raised(Len(q), S, T, k) /\ (k \in T <=> t.who = s)
  BY <1>1, <1>2 DEF Raised
<1> HIDE DEF S, T
<1>4. /\ t.who = s => Cardinality(S) \in Nat /\ Cardinality(T) = Cardinality(S) + 1
      /\ t.who # s => Cardinality(S) \in Nat /\ Cardinality(T) = Cardinality(S)
  BY <1>3, CountAdded, CountMoved
<1>5. Waking(q, s) = Cardinality(S) /\ Waking(p, s) = Cardinality(T)
  BY DEF Waking, S, T
<1> QED
  BY <1>1, <1>4, <1>5 DEF p

(* A timer that is not overdue goes behind one that is. *)
LEMMA WakingLaterInsert ==
  ASSUME NEW q \in Seq(Timer), NEW t \in Timer, NEW s, q # <<>>, Head(q).at < t.at
  PROVE  /\ Insert(q, t) # <<>> /\ Head(Insert(q, t)) = Head(q)
         /\ WakingLater(q, s) \in Nat
         /\ WakingLater(Insert(q, t), s) = WakingLater(q, s) + (IF t.who = s THEN 1 ELSE 0)
<1> DEFINE p == Insert(q, t)
           k == Place(q, t.at)
           S == {i \in 1..Len(q) : q[i].who = s /\ i # 1}
           T == {i \in 1..Len(p) : p[i].who = s /\ i # 1}
<1>1. /\ p \in Seq(Timer) /\ Len(p) = Len(q) + 1
      /\ \A i \in 1..Len(q) + 1 : p[i] = IF i < k THEN q[i] ELSE IF i = k THEN t ELSE q[i - 1]
  BY TimerTimed, Inserted
<1>2. k \in 1..Len(q) + 1 /\ k # 1
  <2>0. Head(q) = q[1] /\ Len(q) \in Nat /\ Len(q) >= 1
    OBVIOUS
  <2>e. q[1] \in Timer
    BY <2>0, ElementOfSeq
  <2>1. t.at \in Int /\ Head(q) = q[1] /\ Len(q) \in Nat /\ Len(q) >= 1 /\ q[1] \in Timer
    BY <2>0, <2>e DEF Timer
  <2>2. /\ k \in 1..Len(q) + 1
        /\ k =< Len(q) => q[k].at > t.at
    BY <2>1, TimerTimed, PlaceFound
  <2>3. q[1].at \in Int
    BY <2>1 DEF Timer
  <2> HIDE DEF k
  <2> QED
    BY <2>1, <2>2, <2>3
<1> HIDE DEF p, k
<1>3. p # <<>> /\ Head(p) = Head(q)
  <2>1. Len(q) >= 1 /\ Len(q) \in Nat
    OBVIOUS
  <2>2. p[1] = q[1]
    BY <1>1, <1>2, <2>1
  <2> QED
    BY <1>1, <2>1, <2>2
<1>4. Raised(Len(q), S, T, k) /\ (k \in T <=> t.who = s)
  BY <1>1, <1>2 DEF Raised
<1> HIDE DEF S, T
<1>5. /\ t.who = s => Cardinality(S) \in Nat /\ Cardinality(T) = Cardinality(S) + 1
      /\ t.who # s => Cardinality(S) \in Nat /\ Cardinality(T) = Cardinality(S)
  BY <1>4, CountAdded, CountMoved
<1>6. WakingLater(q, s) = Cardinality(S) /\ WakingLater(p, s) = Cardinality(T)
  BY DEF WakingLater, S, T
<1> QED
  BY <1>3, <1>5, <1>6 DEF p

LEMMA WakingPop ==
  ASSUME NEW q \in Seq(Timer), q # <<>>, NEW s
  PROVE  /\ Tail(q) \in Seq(Timer)
         /\ WakingLater(q, s) \in Nat
         /\ Waking(Tail(q), s) = WakingLater(q, s)
         /\ Waking(q, s) = WakingLater(q, s) + (IF Head(q).who = s THEN 1 ELSE 0)
<1> DEFINE t == Tail(q)
           S == {i \in 1..Len(t) : t[i].who = s}
           T == {i \in 1..Len(q) : q[i].who = s}
           U == {i \in 1..Len(q) : q[i].who = s /\ i # 1}
<1>1. /\ Head(q) = q[1] /\ t \in Seq(Timer) /\ Len(q) = Len(t) + 1 /\ Len(t) \in Nat
      /\ \A i \in 1..Len(t) : t[i] = q[i + 1]
  BY HeadTailProperties
<1> HIDE DEF t
<1>2. Raised(Len(t), S, T, 1) /\ (1 \in T <=> Head(q).who = s)
  BY <1>1 DEF Raised
<1>e. U = T \ {1}
  OBVIOUS
<1> HIDE DEF S, T, U
<1>3. Raised(Len(t), S, U, 1) /\ 1 \notin U
  BY <1>2, <1>e DEF Raised
<1>4. /\ Head(q).who = s => Cardinality(T) = Cardinality(S) + 1
      /\ Head(q).who # s => Cardinality(T) = Cardinality(S)
      /\ Cardinality(S) \in Nat /\ Cardinality(U) = Cardinality(S)
  BY <1>2, <1>3, CountAdded, CountMoved
<1>5. Waking(t, s) = Cardinality(S) /\ Waking(q, s) = Cardinality(T) /\ WakingLater(q, s) = Cardinality(U)
  BY DEF Waking, WakingLater, S, T, U
<1> QED
  BY <1>1, <1>4, <1>5 DEF t

LEMMA WakingSame ==
  ASSUME NEW q, NEW p, Len(p) = Len(q), \A k \in 1..Len(q) : p[k].who = q[k].who, NEW s
  PROVE  Waking(p, s) = Waking(q, s) /\ WakingLater(p, s) = WakingLater(q, s)
<1>1. {k \in 1..Len(p) : p[k].who = s} = {k \in 1..Len(q) : q[k].who = s}
  OBVIOUS
<1>2. {k \in 1..Len(p) : p[k].who = s /\ k # 1} = {k \in 1..Len(q) : q[k].who = s /\ k # 1}
  OBVIOUS
<1> QED
  BY <1>1, <1>2 DEF Waking, WakingLater
-----------------------------------------------------------------------------
(* The type invariant needs that the places of the ring that are taken are filled. *)

RingFilled == \A k \in 0..qlen - 1 : ring[(qfront + k) % QLen] \in Request

TypeInv == TypeOK /\ RingFilled

LEMMA GrantType ==
  ASSUME TypeOK, NEW s \in Sched, NEW n \in Int, NEW rest \in Seq(Call), Grant(s, n, rest)
  PROVE  /\ sched' \in [Sched -> [cnt : Int, next : Nat]]
         /\ timers' \in Seq(Timer)
         /\ calls' \in Seq(Call)
<1>1. sched[s].next \in Nat /\ Gap[s] \in Nat /\ timers \in Seq(Timer)
  BY GapAssumption DEF TypeOK, Timer
<1>2. Cts(s) \in Call
  BY DEF Cts, Call
<1>3. <<Cts(s)>> \o rest \in Seq(Call)
  BY <1>2, CallingPush
<1>4. ASSUME NEW m \in Int, NEW t \in Nat
      PROVE  [sched EXCEPT ![s] = [cnt |-> m, next |-> t]] \in [Sched -> [cnt : Int, next : Nat]]
  BY DEF TypeOK
<1>5. [sched EXCEPT ![s].cnt = n] \in [Sched -> [cnt : Int, next : Nat]]
  BY DEF TypeOK
<1>6. CASE Kind[s] = "rate" /\ sched[s].next > 0
  <2> DEFINE t == [at |-> sched[s].next, who |-> s]
  <2>1. t \in Timer
    BY <1>1 DEF Timer
  <2>2. Insert(timers, t) \in Seq(Timer)
    BY <1>1, <2>1, WakingInsert
  <2>3. sched[s].next + Gap[s] \in Nat
    BY <1>1
  <2>4. /\ timers' = Insert(timers, t) /\ calls' = rest
        /\ sched' = [sched EXCEPT ![s] = [cnt |-> n, next |-> sched[s].next + Gap[s]]]
    BY <1>6 DEF Grant
  <2> QED
    BY <1>4, <2>2, <2>3, <2>4
<1>7. CASE Kind[s] = "rate" /\ sched[s].next = 0
  <2>1. /\ timers' = timers /\ calls' = <<Cts(s)>> \o rest
        /\ sched' = [sched EXCEPT ![s] = [cnt |-> n, next |-> Gap[s]]]
    BY <1>1, <1>7 DEF Grant
  <2> QED
    BY <1>1, <1>3, <1>4, <2>1
<1>8. CASE Kind[s] = "chain"
  BY <1>1, <1>3, <1>5, <1>8 DEF Grant
<1> QED
  BY <1>6, <1>7, <1>8 DEF Grant

LEMMA RtsType ==
  ASSUME TypeOK, NEW s \in Sched, NEW rest \in Seq(Call), Rts(s, rest)
  PROVE  /\ sched' \in [Sched -> [cnt : Int, next : Nat]]
         /\ timers' \in Seq(Timer)
         /\ calls' \in Seq(Call)
<1>1. sched[s].cnt + 1 \in Int
  BY DEF TypeOK
<1>2. CASE Grant(s, sched[s].cnt + 1, rest)
  BY <1>1, <1>2, GrantType
<1>3. CASE Kind[s] = "none" /\ calls' = rest /\ UNCHANGED <<sched, timers>>
  BY <1>3 DEF TypeOK, Timer
<1> QED
  BY <1>2, <1>3 DEF Rts

(* A packet from the queue of a face goes into the ring. *)
LEMMA RingPut ==
  ASSUME TypeInv, NEW r \in Request, ~ RingFull,
         ring' = [ring EXCEPT ![FreeSlot] = r], qlen' = qlen + 1, qfront' = qfront
  PROVE  ring' \in [Slots -> Request \cup {Nothing}] /\ qlen' \in 0..QLen /\ RingFilled'
<1>1. QLen \in Nat \ {0} /\ qlen \in 0..QLen - 1 /\ qfront \in Slots
  BY LimitsAssumption DEF TypeInv, TypeOK, RingFull
<1>2. FreeSlot \in Slots
  BY <1>1, InSlots DEF FreeSlot
<1>3. ring' \in [Slots -> Request \cup {Nothing}] /\ ring'[FreeSlot] = r
  BY <1>2 DEF TypeInv, TypeOK
<1>4. ASSUME NEW k \in 0..qlen
      PROVE  ring'[(qfront + k) % QLen] \in Request
  <2> DEFINE p == (qfront + k) % QLen
  <2>1. p \in Slots
    BY <1>1, InSlots
  <2>2. CASE k = qlen
    BY <1>3, <2>2 DEF FreeSlot
  <2>3. CASE k # qlen
    <3>1. ring[p] \in Request
      BY <1>1, <2>3 DEF TypeInv, RingFilled
    <3> HIDE DEF p
    <3>2. ring'[p] = IF p = FreeSlot THEN r ELSE ring[p]
      BY <2>1 DEF TypeInv, TypeOK
    <3>3. ring'[p] \in Request
      BY <3>1, <3>2
    <3> QED
      BY <3>3 DEF p
  <2> QED
    BY <2>2, <2>3
<1> QED
  BY <1>1, <1>3, <1>4 DEF RingFilled

(* The first packet leaves the ring. *)
LEMMA RingGet ==
  ASSUME TypeInv, qlen > 0, ring' = [ring EXCEPT ![qfront] = Nothing],
         qfront' = (qfront + 1) % QLen, qlen' = qlen - 1
  PROVE  /\ ring' \in [Slots -> Request \cup {Nothing}] /\ qlen' \in 0..QLen
         /\ qfront' \in Slots /\ RingFilled' /\ ring[qfront] \in Request
<1>1. QLen \in Nat \ {0} /\ qlen \in 1..QLen /\ qfront \in Slots /\ qfront \in 0..QLen - 1
  BY LimitsAssumption DEF TypeInv, TypeOK, Slots
<1>2. qfront' \in Slots
  BY <1>1, InSlots
<1>3. ring' \in [Slots -> Request \cup {Nothing}]
  BY DEF TypeInv, TypeOK
<1>4. ring[qfront] \in Request
  <2>0. 0 \in 0..qlen - 1
    BY <1>1
  <2>1. ring[(qfront + 0) % QLen] \in Request
    BY <2>0, Zenon DEF TypeInv, RingFilled
  <2>2. qfront + 0 = qfront /\ qfront % QLen = qfront
    BY <1>1, NoRest
  <2> QED
    BY <2>1, <2>2
<1>5. ASSUME NEW k \in 0..qlen - 2
      PROVE  ring'[(qfront' + k) % QLen] \in Request
  <2> DEFINE p == (qfront + (k + 1)) % QLen
  <2>1. k \in Nat /\ k + 1 < QLen /\ k + 1 \in 0..qlen - 1 /\ k + 1 \in 0..QLen
    BY <1>1
  <2>2. (qfront' + k) % QLen = p /\ p # qfront
    BY <1>1, <2>1, NextPlace
  <2>3. ring[p] \in Request
    BY <2>1 DEF TypeInv, RingFilled
  <2>4. p \in Slots
    BY <1>1, <2>1, InSlots
  <2> HIDE DEF p
  <2>5. ring'[p] = ring[p]
    BY <2>2, <2>4 DEF TypeInv, TypeOK
  <2> QED
    BY <2>2, <2>3, <2>5
<1>6. qlen' - 1 = qlen - 2 /\ qlen' \in 0..QLen
  BY <1>1
<1> QED
  BY <1>2, <1>3, <1>4, <1>5, <1>6 DEF RingFilled

LEMMA TypeInit == Init => TypeInv
<1> SUFFICES ASSUME Init PROVE TypeInv
  OBVIOUS
<1>1. 0 \in Slots /\ QLen \in Nat \ {0} /\ 0 \in 0..QLen /\ 0 \in 0..PerRound
  BY LimitsAssumption DEF Slots
<1>2. TypeOK
  <2>1. outq \in [Faces -> Seq(Data)] /\ ring \in [Slots -> Request \cup {Nothing}]
    BY DEF Init
  <2>2. sched \in [Sched -> [cnt : Int, next : Nat]]
    BY DEF Init
  <2>3. timers \in Seq(Timer) /\ calls \in Seq(Call)
    BY DEF Init
  <2>4. live \subseteq Faces /\ qfront = 0 /\ qlen = 0 /\ budget = 0 /\ wire = Nothing
        /\ serving \in BOOLEAN /\ writable \in BOOLEAN /\ phase \in {"events", "io"}
    BY DEF Init
  <2> QED
    BY <1>1, <2>1, <2>2, <2>3, <2>4 DEF TypeOK, Timer
<1>3. RingFilled
  BY DEF Init, RingFilled
<1> QED
  BY <1>2, <1>3 DEF TypeInv

(* What most steps leave alone *)
LEMMA SameRing ==
  ASSUME RingFilled, UNCHANGED <<ring, qfront, qlen>>
  PROVE  RingFilled'
BY DEF RingFilled

LEMMA FaceEnqueueType ==
  ASSUME TypeInv, NEW f \in Faces, NEW d \in Data, FaceEnqueue(f, d)
  PROVE  TypeInv'
<1> USE DEF TypeInv
<1>1. f \in Sched /\ <<>> \in Seq(Call) /\ Cts(f) \in Call
  BY DEF Sched, Cts, Call
<1>2. budget' \in 0..PerRound
  BY LimitsAssumption DEF FaceEnqueue, TypeOK
<1>3. /\ sched' \in [Sched -> [cnt : Int, next : Nat]]
      /\ timers' \in Seq(Timer)
      /\ calls' \in Seq(Call)
  <2>1. CASE UNCHANGED <<sched, timers, calls>>
    BY <2>1 DEF TypeOK, Timer
  <2>2. CASE Rts(f, <<>>)
    BY <1>1, <2>2, RtsType
  <2>3. CASE calls' = <<Cts(f)>> /\ UNCHANGED <<sched, timers>>
    BY <1>1, <2>3 DEF TypeOK, Timer
  <2> QED
    BY <2>1, <2>2, <2>3 DEF FaceEnqueue
<1>4. outq' \in [Faces -> Seq(Data)]
  <2>1. Append(outq[f], d) \in Seq(Data)
    BY DEF TypeOK
  <2>2. outq' = outq \/ outq' = [outq EXCEPT ![f] = Append(outq[f], d)]
    BY DEF FaceEnqueue
  <2> QED
    BY <2>1, <2>2 DEF TypeOK
<1>5. UNCHANGED <<live, ring, qfront, qlen, serving, phase, writable>> /\ wire' = Nothing
  BY DEF FaceEnqueue
<1>6. RingFilled'
  BY <1>5, SameRing
<1>7. TypeOK'
  BY <1>2, <1>3, <1>4, <1>5 DEF TypeOK, Timer
<1> QED
  BY <1>6, <1>7

LEMMA FaceCtsType ==
  ASSUME TypeInv, NEW f \in Faces, FaceCts(f)
  PROVE  TypeInv'
<1> USE DEF TypeInv
<1>1. Tail(calls) \in Seq(Call)
  BY CallingPop DEF FaceCts, TypeOK
<1>2. If \in Sched
  BY DEF Sched
<1>3. UNCHANGED <<live, serving, phase, budget, writable>> /\ wire' = Nothing
  BY DEF FaceCts, loop
<1>4. outq[f] # <<>> => [outq EXCEPT ![f] = Tail(@)] \in [Faces -> Seq(Data)] /\ Head(outq[f]) \in Data
  BY DEF TypeOK
<1>5. CASE outq[f] = <<>> \/ RingFull
  <2>1. /\ calls' = Tail(calls)
        /\ UNCHANGED <<ring, qfront, qlen, sched, timers>>
        /\ outq' = outq \/ (outq[f] # <<>> /\ outq' = [outq EXCEPT ![f] = Tail(@)])
    BY <1>5 DEF FaceCts, queues
  <2>2. RingFilled'
    BY <2>1, SameRing
  <2>3. outq' \in [Faces -> Seq(Data)]
    BY <1>4, <2>1 DEF TypeOK
  <2> QED
    BY <1>1, <1>3, <2>1, <2>2, <2>3 DEF TypeOK
<1>6. CASE outq[f] # <<>> /\ ~ RingFull
  <2> DEFINE r == [face |-> f, data |-> Head(outq[f])]
  <2>1. /\ outq' = [outq EXCEPT ![f] = Tail(@)]
        /\ ring' = [ring EXCEPT ![FreeSlot] = r]
        /\ qlen' = qlen + 1 /\ qfront' = qfront
        /\ Rts(If, Tail(calls))
    BY <1>6 DEF FaceCts
  <2>2. r \in Request
    BY <1>4, <1>6 DEF Request
  <2> HIDE DEF r
  <2>3. ring' \in [Slots -> Request \cup {Nothing}] /\ qlen' \in 0..QLen /\ RingFilled'
    BY <1>6, <2>1, <2>2, RingPut
  <2>4. /\ sched' \in [Sched -> [cnt : Int, next : Nat]]
        /\ timers' \in Seq(Timer)
        /\ calls' \in Seq(Call)
    BY <1>1, <1>2, <2>1, RtsType
  <2>5. outq' \in [Faces -> Seq(Data)]
    BY <1>4, <1>6, <2>1
  <2>6. TypeOK'
    BY <1>3, <2>1, <2>3, <2>4, <2>5 DEF TypeOK, Timer
  <2> QED
    BY <2>3, <2>6
<1> QED
  BY <1>5, <1>6

LEMMA InterfaceCtsType ==
  ASSUME TypeInv, InterfaceCts
  PROVE  TypeInv'
<1> USE DEF TypeInv
<1>1. Tail(calls) \in Seq(Call)
  BY CallingPop DEF InterfaceCts, TypeOK
<1>2. UNCHANGED <<live, outq, sched, timers, serving, phase, budget, writable>>
  BY DEF InterfaceCts, loop
<1>3. CASE qlen = 0
  <2>1. calls' = Tail(calls) /\ wire' = Nothing /\ UNCHANGED <<ring, qfront, qlen>>
    BY <1>3 DEF InterfaceCts
  <2>2. RingFilled'
    BY <2>1, SameRing
  <2> QED
    BY <1>1, <1>2, <2>1, <2>2 DEF TypeOK
<1>4. CASE qlen > 0
  <2>1. /\ wire' = ring[qfront]
        /\ ring' = [ring EXCEPT ![qfront] = Nothing]
        /\ qfront' = (qfront + 1) % QLen /\ qlen' = qlen - 1
        /\ calls' = <<Done(If), Done(ring[qfront].face)>> \o Tail(calls)
    BY <1>4 DEF InterfaceCts
  <2>2. /\ ring' \in [Slots -> Request \cup {Nothing}] /\ qlen' \in 0..QLen
        /\ qfront' \in Slots /\ RingFilled' /\ ring[qfront] \in Request
    BY <1>4, <2>1, RingGet
  <2>3. Done(If) \in Call /\ Done(ring[qfront].face) \in Call
    BY <2>2 DEF Done, Call, Sched, Request
  <2>4. calls' \in Seq(Call)
    BY <1>1, <2>1, <2>3
  <2>5. TypeOK'
    BY <1>2, <2>1, <2>2, <2>4 DEF TypeOK
  <2> QED
    BY <2>2, <2>5
<1> QED
  BY <1>3, <1>4 DEF TypeOK

LEMMA CtsDoneType ==
  ASSUME TypeInv, NEW s \in Sched, CtsDone(s)
  PROVE  TypeInv'
<1> USE DEF TypeInv
<1>1. Tail(calls) \in Seq(Call)
  BY CallingPop DEF CtsDone, TypeOK
<1>2. UNCHANGED <<live, outq, ring, qfront, qlen, serving, phase, budget, writable>> /\ wire' = Nothing
  BY DEF CtsDone, loop, queues
<1>3. sched[s].cnt - 1 \in Int
  BY DEF TypeOK
<1>4. /\ sched' \in [Sched -> [cnt : Int, next : Nat]]
      /\ timers' \in Seq(Timer)
      /\ calls' \in Seq(Call)
  <2>1. CASE calls' = Tail(calls) /\ UNCHANGED <<sched, timers>>
    BY <1>1, <2>1 DEF TypeOK, Timer
  <2>2. CASE calls' = Tail(calls) /\ UNCHANGED timers /\ sched' = [sched EXCEPT ![s].cnt = @ - 1]
    <3>1. sched' \in [Sched -> [cnt : Int, next : Nat]]
      BY <1>3, <2>2 DEF TypeOK
    <3> QED
      BY <1>1, <2>2, <3>1 DEF TypeOK, Timer
  <2>3. CASE Grant(s, sched[s].cnt - 1, Tail(calls))
    BY <1>1, <1>3, <2>3, GrantType
  <2> QED
    BY <2>1, <2>2, <2>3 DEF CtsDone
<1>5. RingFilled'
  BY <1>2, SameRing
<1>6. TypeOK'
  BY <1>2, <1>4 DEF TypeOK, Timer
<1> QED
  BY <1>5, <1>6

(* While the handler of a timer runs, that timer heads the list, and is overdue. *)
Serves == serving => timers # <<>> /\ Head(timers).at < 0

LEMMA GrantServes ==
  ASSUME TypeOK, Serves, NEW s \in Sched, NEW n, NEW rest, Grant(s, n, rest), serving' = serving
  PROVE  Serves'
<1>1. CASE timers' = timers
  BY <1>1 DEF Serves
<1>2. CASE sched[s].next > 0 /\ timers' = Insert(timers, [at |-> sched[s].next, who |-> s])
  <2> DEFINE t == [at |-> sched[s].next, who |-> s]
  <2>1. t \in Timer /\ t.at > 0 /\ timers \in Seq(Timer)
    BY <1>2 DEF TypeOK, Timer
  <2> HIDE DEF t
  <2>2. ASSUME serving PROVE Insert(timers, t) # <<>> /\ Head(Insert(timers, t)) = Head(timers)
    <3>1. timers # <<>> /\ Head(timers).at < 0 /\ Head(timers) \in Timer
      BY <2>1, <2>2, HeadTailProperties DEF Serves
    <3>2. Head(timers).at < t.at
      BY <2>1, <3>1 DEF Timer
    <3> QED
      BY <2>1, <3>1, <3>2, WakingLaterInsert
  <2> QED
    BY <1>2, <2>2 DEF Serves, t
<1> QED
  BY <1>1, <1>2 DEF Grant

LEMMA ServesStep == TypeInv /\ Serves /\ [Next]_vars => Serves'
<1> SUFFICES ASSUME TypeInv, Serves, [Next]_vars PROVE Serves'
  OBVIOUS
<1>1. CASE UNCHANGED <<serving, timers>>
  BY <1>1 DEF Serves
<1>2. ASSUME NEW s \in Sched, NEW n, NEW rest, Grant(s, n, rest), serving' = serving
      PROVE  Serves'
  BY <1>2, GrantServes DEF TypeInv
<1>3. ASSUME NEW s \in Sched, NEW rest, Rts(s, rest), serving' = serving
      PROVE  Serves'
  BY <1>1, <1>2, <1>3 DEF Rts
<1>4. ASSUME NEW f \in Faces, NEW d \in Data, FaceEnqueue(f, d) PROVE Serves'
  BY <1>1, <1>3, <1>4 DEF FaceEnqueue, Sched
<1>5. ASSUME NEW f \in Faces, FaceCts(f) PROVE Serves'
  BY <1>1, <1>3, <1>5 DEF FaceCts, Sched
<1>6. ASSUME NEW s \in Sched, CtsDone(s) PROVE Serves'
  BY <1>1, <1>2, <1>6 DEF CtsDone
<1>7. CASE InterfaceCts \/ CallFreed \/ EndPass \/ SocketWritable \/ EndRound
  BY <1>1, <1>7 DEF InterfaceCts, CallFreed, EndPass, SocketWritable, EndRound
<1>8. ASSUME NEW f \in Faces, FaceRemove(f) PROVE Serves'
  BY <1>1, <1>8 DEF FaceRemove
<1>9. CASE RunHandler
  BY <1>9 DEF RunHandler, Serves
<1>10. CASE HandlerReturns
  BY <1>10 DEF HandlerReturns, Serves
<1>11. CASE Tick
  <2>1. ASSUME timers # <<>>, Head(timers).at < 0
        PROVE  timers' # <<>> /\ Head(timers').at < 0
    <3>1. timers \in Seq(Timer)
      BY DEF TypeInv, TypeOK, Timer
    <3>2. /\ 1 \in 1..Len(timers) /\ Len(timers) \in Nat /\ Head(timers) = timers[1]
          /\ timers' = [k \in 1..Len(timers) |-> [timers[k] EXCEPT !.at = Down(@, -1)]]
      BY <1>11, <2>1, <3>1 DEF Tick
    <3>3. timers[1] \in Timer
      BY <3>1, <3>2, ElementOfSeq
    <3>4. timers'[1] = [timers[1] EXCEPT !.at = Down(@, -1)] /\ timers'[1].at = timers[1].at
      BY <2>1, <3>2, <3>3 DEF Timer, Down
    <3>5. timers' # <<>> /\ Head(timers') = timers'[1]
      BY <3>2
    <3> QED
      BY <2>1, <3>2, <3>4, <3>5
  <2> QED
    BY <1>11, <2>1 DEF Tick, Serves
<1>12. CASE UNCHANGED vars
  BY <1>1, <1>12 DEF vars
<1> QED
  BY <1>4, <1>5, <1>6, <1>7, <1>8, <1>9, <1>10, <1>11, <1>12 DEF Next, Callback

LEMMA TypeStep == TypeInv /\ Serves /\ [Next]_vars => TypeInv'
<1> SUFFICES ASSUME TypeInv, Serves, [Next]_vars PROVE TypeInv'
  OBVIOUS
<1>1. ASSUME NEW f \in Faces, NEW d \in Data, FaceEnqueue(f, d) PROVE TypeInv'
  BY <1>1, FaceEnqueueType
<1>2. ASSUME NEW f \in Faces, FaceCts(f) PROVE TypeInv'
  BY <1>2, FaceCtsType
<1>3. CASE InterfaceCts
  BY <1>3, InterfaceCtsType
<1>4. ASSUME NEW s \in Sched, CtsDone(s) PROVE TypeInv'
  BY <1>4, CtsDoneType
<1>r. UNCHANGED <<ring, qfront, qlen>> => RingFilled'
  BY SameRing DEF TypeInv
<1> USE DEF TypeInv
<1>5. CASE CallFreed
  <2>1. Tail(calls) \in Seq(Call)
    BY <1>5, CallingPop DEF CallFreed, TypeOK
  <2> QED
    BY <1>5, <1>r, <2>1 DEF CallFreed, TypeOK, queues, loop
<1>6. ASSUME NEW f \in Faces, FaceRemove(f) PROVE TypeInv'
  <2>1. outq' \in [Faces -> Seq(Data)]
    BY <1>6 DEF FaceRemove, TypeOK
  <2>2. /\ live' \subseteq Faces /\ wire' = Nothing
        /\ UNCHANGED <<ring, qfront, qlen, sched, timers, serving, calls, phase, budget, writable>>
    BY <1>6 DEF FaceRemove, TypeOK, loop
  <2> QED
    BY <1>r, <2>1, <2>2 DEF TypeOK
<1>7. CASE RunHandler
  <2>1. Head(timers).who \in Sched
    <3>1. Head(timers) \in Timer
      BY <1>7, HeadTailProperties DEF RunHandler, TypeOK, Timer
    <3> QED
      BY <3>1 DEF Timer
  <2>2. <<Cts(Head(timers).who)>> \in Seq(Call)
    BY <2>1 DEF Cts, Call
  <2> QED
    BY <1>7, <1>r, <2>2 DEF RunHandler, TypeOK, queues, loop
<1>8. CASE HandlerReturns
  <2>1. Tail(timers) \in Seq(Timer)
    BY <1>8, HeadTailProperties DEF HandlerReturns, TypeOK, Serves, Timer
  <2> QED
    BY <1>8, <1>r, <2>1 DEF HandlerReturns, TypeOK, queues, loop, Timer
<1>9. CASE EndPass
  BY <1>9, <1>r, LimitsAssumption DEF EndPass, TypeOK, queues, loop
<1>10. CASE SocketWritable
  <2>1. <<Cts(If)>> \in Seq(Call)
    BY DEF Cts, Call, Sched
  <2> QED
    BY <1>10, <1>r, <2>1 DEF SocketWritable, TypeOK, queues
<1>11. CASE EndRound
  BY <1>11, <1>r, LimitsAssumption DEF EndRound, TypeOK, queues
<1>12. CASE Tick
  <2>1. \A n \in {-1} \cup Nat : Down(n, -1) \in {-1} \cup Nat
    BY DEF Down
  <2>2. \A n \in Nat : Down(n, 0) \in Nat
    BY DEF Down
  <2>3. timers' \in Seq(Timer)
    <3>1. timers \in Seq(Timer)
      BY DEF TypeOK, Timer
    <3>2. \A k \in 1..Len(timers) : timers[k] \in Timer
      BY <3>1, ElementOfSeq
    <3>3. \A k \in 1..Len(timers) : [timers[k] EXCEPT !.at = Down(@, -1)] \in Timer
      BY <2>1, <3>2 DEF Timer
    <3>4. timers' = [k \in 1..Len(timers) |-> [timers[k] EXCEPT !.at = Down(@, -1)]] /\ Len(timers) \in Nat
      BY <1>12, <3>1 DEF Tick
    <3> QED
      BY <3>3, <3>4, IsASeq
  <2>4. sched' \in [Sched -> [cnt : Int, next : Nat]]
    BY <1>12, <2>2 DEF Tick, TypeOK
  <2> QED
    BY <1>12, <1>r, <2>3, <2>4 DEF Tick, TypeOK, queues, loop, Timer
<1>13. CASE UNCHANGED vars
  BY <1>13, <1>r DEF vars, queues, loop, TypeOK
<1> QED
  BY <1>1, <1>2, <1>3, <1>4, <1>5, <1>6, <1>7, <1>8, <1>9, <1>10, <1>11, <1>12, <1>13
     DEF Next, Callback

(***************************************************************************)
(* The transmit path keeps its types: the indices stay in the ring, and no *)
(* place of the ring that is taken is empty (ccnl_interface_CTS reads it). *)
(***************************************************************************)
THEOREM PathTyped == Spec => []TypeOK
<1>1. TypeInv => TypeOK
  BY DEF TypeInv
<1>2. Init => Serves
  BY DEF Init, Serves
<1> QED
  BY <1>1, <1>2, TypeInit, TypeStep, ServesStep, PTL DEF Spec
-----------------------------------------------------------------------------
(* Callbacks that x can count on when q is the stack of calls *)

Due(q, x) == Calling(q, Cts(x)) + (IF serving THEN WakingLater(timers, x) ELSE Waking(timers, x))

Owed(x) == Due(calls, x)

(* NoLostWakeup, in terms of the counts above *)
Woken ==
  /\ \A f \in live : Len(outq[f]) =< Owed(f)
  /\ Kind[If] # "none" => qlen =< Owed(If)

LEMMA CtsDiffer == \A a, b : (Cts(a) = Cts(b) <=> a = b) /\ Cts(a) # Done(b)
BY DEF Cts, Done

LEMMA WakingCounts ==
  ASSUME NEW q \in Seq(Timer), NEW s
  PROVE  Waking(q, s) \in Nat /\ WakingLater(q, s) \in Nat
<1>1. IsFiniteSet(1..Len(q))
  <2>1. Len(q) \in Nat
    OBVIOUS
  <2> QED
    BY <2>1, FS_Interval
<1>2. IsFiniteSet({k \in 1..Len(q) : q[k].who = s})
  BY <1>1, FS_Subset
<1>3. IsFiniteSet({k \in 1..Len(q) : q[k].who = s /\ k # 1})
  BY <1>1, FS_Subset
<1> QED
  BY <1>2, <1>3, FS_CardinalityType DEF Waking, WakingLater

LEMMA OwedIsPending ==
  ASSUME serving \in BOOLEAN, NEW x
  PROVE  Pending(x) = Owed(x)
<1>1. CASE serving
  <2>1. {k \in 1..Len(timers) : timers[k].who = x /\ ~ (serving /\ k = 1)}
          = {k \in 1..Len(timers) : timers[k].who = x /\ k # 1}
    BY <1>1
  <2> QED
    BY <1>1, <2>1 DEF Pending, Owed, Due, Calling, WakingLater
<1>2. CASE ~ serving
  <2>1. {k \in 1..Len(timers) : timers[k].who = x /\ ~ (serving /\ k = 1)}
          = {k \in 1..Len(timers) : timers[k].who = x}
    BY <1>2
  <2> QED
    BY <1>2, <2>1 DEF Pending, Owed, Due, Calling, Waking
<1> QED
  BY <1>1, <1>2

(* A call that returns, a call that is made *)
LEMMA DuePop ==
  ASSUME TypeOK, calls # <<>>, NEW x
  PROVE  /\ Tail(calls) \in Seq(Call) /\ Due(Tail(calls), x) \in Nat
         /\ Owed(x) = Due(Tail(calls), x) + (IF Head(calls) = Cts(x) THEN 1 ELSE 0)
<1>1. calls \in Seq(Call) /\ timers \in Seq(Timer)
  BY DEF TypeOK, Timer
<1>2. /\ Tail(calls) \in Seq(Call) /\ Calling(Tail(calls), Cts(x)) \in Nat
      /\ Calling(calls, Cts(x)) = Calling(Tail(calls), Cts(x)) + (IF Head(calls) = Cts(x) THEN 1 ELSE 0)
  BY <1>1, CallingPop
<1>3. Waking(timers, x) \in Nat /\ WakingLater(timers, x) \in Nat
  BY <1>1, WakingCounts
<1> QED
  BY <1>2, <1>3 DEF Owed, Due

LEMMA DuePush ==
  ASSUME TypeOK, NEW q \in Seq(Call), NEW d \in Call, NEW x
  PROVE  /\ Due(q, x) \in Nat
         /\ Due(<<d>> \o q, x) = Due(q, x) + (IF d = Cts(x) THEN 1 ELSE 0)
<1>1. timers \in Seq(Timer)
  BY DEF TypeOK, Timer
<1>2. /\ Calling(q, Cts(x)) \in Nat
      /\ Calling(<<d>> \o q, Cts(x)) = Calling(q, Cts(x)) + (IF d = Cts(x) THEN 1 ELSE 0)
  BY CallingPush
<1>3. Waking(timers, x) \in Nat /\ WakingLater(timers, x) \in Nat
  BY <1>1, WakingCounts
<1> QED
  BY <1>2, <1>3 DEF Due

(* The scheduler that grants leave owes one callback more, at once or by a timer. *)
LEMMA GrantOwes ==
  ASSUME TypeOK, Serves, NEW s \in Sched, NEW n, NEW rest \in Seq(Call), Grant(s, n, rest),
         serving' = serving, NEW x
  PROVE  /\ Due(rest, x) \in Nat
         /\ Owed(x)' = Due(rest, x) + (IF x = s THEN 1 ELSE 0)
<1>1. CASE calls' = <<Cts(s)>> \o rest /\ timers' = timers
  <2>1. Cts(s) \in Call
    BY DEF Cts, Call
  <2>2. /\ Due(rest, x) \in Nat
        /\ Due(<<Cts(s)>> \o rest, x) = Due(rest, x) + (IF Cts(s) = Cts(x) THEN 1 ELSE 0)
    BY <2>1, DuePush
  <2>3. Owed(x)' = Due(<<Cts(s)>> \o rest, x)
    BY <1>1 DEF Owed, Due
  <2> QED
    BY <2>2, <2>3, CtsDiffer
<1>2. CASE sched[s].next > 0 /\ timers' = Insert(timers, [at |-> sched[s].next, who |-> s]) /\ calls' = rest
  <2> DEFINE t == [at |-> sched[s].next, who |-> s]
  <2>1. t \in Timer /\ t.at > 0 /\ timers \in Seq(Timer) /\ t.who = s /\ timers' = Insert(timers, t)
    BY <1>2 DEF TypeOK, Timer
  <2> HIDE DEF t
  <2>2. Calling(rest, Cts(x)) \in Nat
    <3>1. Cts(s) \in Call
      BY DEF Cts, Call
    <3> QED
      BY <3>1, CallingPush
  <2>3. CASE serving
    <3>1. timers # <<>> /\ Head(timers).at < 0 /\ Head(timers) \in Timer
      BY <2>1, <2>3, HeadTailProperties DEF Serves
    <3>2. Head(timers).at < t.at
      BY <2>1, <3>1 DEF Timer
    <3>3. /\ WakingLater(timers, x) \in Nat
          /\ WakingLater(Insert(timers, t), x) = WakingLater(timers, x) + (IF t.who = x THEN 1 ELSE 0)
      BY <2>1, <3>1, <3>2, WakingLaterInsert
    <3>4. Due(rest, x) = Calling(rest, Cts(x)) + WakingLater(timers, x)
      BY <2>3 DEF Due
    <3>5. serving'
      BY <2>3
    <3>6. Owed(x)' = Calling(rest, Cts(x)) + WakingLater(Insert(timers, t), x)
      BY <1>2, <2>1, <3>5 DEF Owed, Due
    <3> QED
      BY <2>1, <2>2, <3>3, <3>4, <3>6
  <2>4. CASE ~ serving
    <3>1. /\ Waking(timers, x) \in Nat
          /\ Waking(Insert(timers, t), x) = Waking(timers, x) + (IF t.who = x THEN 1 ELSE 0)
      BY <2>1, WakingInsert
    <3> QED
      BY <1>2, <2>1, <2>2, <2>4, <3>1 DEF Owed, Due
  <2> QED
    BY <2>3, <2>4
<1> QED
  BY <1>1, <1>2 DEF Grant

LEMMA OwedSame ==
  ASSUME UNCHANGED <<serving, timers, calls>>, NEW x
  PROVE  Owed(x)' = Owed(x)
BY DEF Owed, Due

LEMMA OwedNat == ASSUME TypeOK, NEW x PROVE Owed(x) \in Nat
<1>1. CASE calls = <<>>
  <2>1. timers \in Seq(Timer)
    BY DEF TypeOK, Timer
  <2> QED
    BY <1>1, <2>1, WakingCounts, CallingNone DEF Owed, Due
<1>2. CASE calls # <<>>
  BY <1>2, DuePop
<1> QED
  BY <1>1, <1>2

(* If If is no face, a face is not If. *)
LEMMA FaceIsNotIf == \A f \in Faces : f # If /\ f \in Sched
BY IfAssumption DEF Sched

(* ccnl_face_enqueue: one packet and one callback more *)
LEMMA FaceEnqueueWoken ==
  ASSUME TypeOK, Serves, Woken, NEW f \in Faces, NEW d \in Data, FaceEnqueue(f, d)
  PROVE  Woken'
<1>1. calls = <<>> /\ f \in live /\ UNCHANGED <<live, qlen, serving>>
  BY DEF FaceEnqueue
<1>2. f \in Sched /\ f # If
  BY FaceIsNotIf
<1>3. CASE UNCHANGED <<outq, sched, timers, calls>>
  <2>1. \A x : Owed(x)' = Owed(x)
    BY <1>1, <1>3, OwedSame
  <2> QED
    BY <1>1, <1>3, <2>1 DEF Woken
<1>4. CASE outq' = [outq EXCEPT ![f] = Append(@, d)]
  <2>1. \A x : Owed(x)' = Owed(x) + (IF x = f THEN 1 ELSE 0)
    <3> SUFFICES ASSUME NEW x PROVE Owed(x)' = Owed(x) + (IF x = f THEN 1 ELSE 0)
      OBVIOUS
    <3>1. Owed(x) = Due(<<>>, x)
      BY <1>1 DEF Owed
    <3>2. <<>> \in Seq(Call)
      OBVIOUS
    <3>3. CASE Kind[f] # "none"
      <4>1. Grant(f, sched[f].cnt + 1, <<>>)
        <5>1. Rts(f, <<>>)
          <6>1. ~ (UNCHANGED outq)
            <7>1. Len(outq'[f]) = Len(outq[f]) + 1 /\ Len(outq[f]) \in Nat
              BY <1>4 DEF TypeOK
            <7> QED
              BY <7>1
          <6> QED
            BY <3>3, <6>1 DEF FaceEnqueue
        <5> QED
          BY <3>3, <5>1 DEF Rts
      <4> QED
        BY <1>1, <1>2, <3>1, <3>2, <4>1, GrantOwes
    <3>4. CASE Kind[f] = "none"
      <4>1. calls' = <<Cts(f)>> /\ UNCHANGED timers
        <5>1. ~ (UNCHANGED outq)
          <6>1. Len(outq'[f]) = Len(outq[f]) + 1 /\ Len(outq[f]) \in Nat
            BY <1>4 DEF TypeOK
          <6> QED
            BY <6>1
        <5> QED
          BY <3>4, <5>1 DEF FaceEnqueue
      <4>2. Cts(f) \in Call
        BY <1>2 DEF Cts, Call
      <4>3. <<Cts(f)>> = <<Cts(f)>> \o <<>>
        OBVIOUS
      <4>4. /\ Due(<<>>, x) \in Nat
            /\ Due(<<Cts(f)>> \o <<>>, x) = Due(<<>>, x) + (IF Cts(f) = Cts(x) THEN 1 ELSE 0)
        BY <3>2, <4>2, DuePush
      <4>5. Owed(x)' = Due(<<Cts(f)>>, x)
        BY <1>1, <4>1 DEF Owed, Due
      <4> QED
        BY <3>1, <4>3, <4>4, <4>5, CtsDiffer
    <3> QED
      BY <3>3, <3>4
  <2>2. \A x : Owed(x) \in Nat
    BY OwedNat
  <2>3. ASSUME NEW g \in live PROVE Len(outq'[g]) =< Owed(g)'
    <3>1. g \in Faces /\ outq[g] \in Seq(Data) /\ Len(outq[g]) \in Nat /\ Len(outq[g]) =< Owed(g)
      BY DEF TypeOK, Woken
    <3>2. Len(outq'[g]) = Len(outq[g]) + (IF g = f THEN 1 ELSE 0)
      BY <1>4, <3>1 DEF TypeOK
    <3>3. Owed(g)' = Owed(g) + (IF g = f THEN 1 ELSE 0)
      BY <2>1
    <3>4. Owed(g) \in Nat
      BY <2>2
    <3>5. CASE g = f
      <4>1. Len(outq'[g]) = Len(outq[g]) + 1 /\ Owed(g)' = Owed(g) + 1
        BY <3>2, <3>3, <3>5
      <4> QED
        BY <3>1, <3>4, <4>1
    <3>6. CASE g # f
      <4>1. Len(outq'[g]) = Len(outq[g]) /\ Owed(g)' = Owed(g)
        BY <3>1, <3>2, <3>3, <3>4, <3>6
      <4> QED
        BY <3>1, <4>1
    <3> QED
      BY <3>5, <3>6
  <2>4. Owed(If)' = Owed(If)
    BY <1>2, <2>1, <2>2
  <2> QED
    BY <1>1, <2>3, <2>4 DEF Woken
<1> QED
  BY <1>3, <1>4 DEF FaceEnqueue

(* Steps that leave the queues alone, and no live scheduler with fewer callbacks *)
LEMMA NoneFewer ==
  ASSUME TypeOK, Woken, UNCHANGED <<outq, qlen>>, live' \subseteq live,
         \A x \in live \cup {If} : Owed(x)' \in Nat /\ Owed(x)' >= Owed(x)
  PROVE  Woken'
<1>1. ASSUME NEW g \in live' PROVE Len(outq'[g]) =< Owed(g)'
  <2>1. g \in live /\ outq'[g] = outq[g] /\ outq[g] \in Seq(Data)
    BY DEF TypeOK
  <2>2. Len(outq[g]) \in Nat /\ Len(outq[g]) =< Owed(g)
    BY <2>1 DEF Woken
  <2>3. Owed(g)' \in Nat /\ Owed(g)' >= Owed(g) /\ Owed(g) \in Nat
    BY <2>1, OwedNat
  <2> QED
    BY <2>1, <2>2, <2>3
<1>2. ASSUME Kind[If] # "none" PROVE qlen' =< Owed(If)'
  <2>1. qlen' = qlen /\ qlen \in Nat /\ qlen =< Owed(If)
    BY <1>2 DEF TypeOK, Woken
  <2>2. Owed(If)' \in Nat /\ Owed(If)' >= Owed(If) /\ Owed(If) \in Nat
    BY OwedNat
  <2> QED
    BY <2>1, <2>2
<1> QED
  BY <1>1, <1>2 DEF Woken

(* ccnl_sched_RTS: one callback more, if there is a scheduler *)
LEMMA RtsOwes ==
  ASSUME TypeOK, Serves, NEW s \in Sched, NEW rest \in Seq(Call), Rts(s, rest),
         serving' = serving, Due(rest, s) \in Nat, NEW x
  PROVE  Owed(x)' = IF x = s /\ Kind[s] # "none" THEN Due(rest, x) + 1 ELSE Due(rest, x)
<1>1. CASE Grant(s, sched[s].cnt + 1, rest)
  <2>1. Kind[s] # "none"
    BY <1>1 DEF Grant
  <2>2. /\ Due(rest, x) \in Nat
        /\ Owed(x)' = Due(rest, x) + (IF x = s THEN 1 ELSE 0)
    BY <1>1, GrantOwes
  <2> QED
    BY <2>1, <2>2
<1>2. CASE Kind[s] = "none" /\ calls' = rest /\ UNCHANGED <<sched, timers>>
  BY <1>2 DEF Owed, Due
<1> QED
  BY <1>1, <1>2 DEF Rts

(* The queue of f loses its first packet, if it has one. *)
QueueMoves(f) ==
  \/ outq[f] # <<>> /\ outq' = [outq EXCEPT ![f] = Tail(@)]
  \/ outq[f] = <<>> /\ UNCHANGED outq

(* ccnl_face_CTS uses up one callback of the face, and one of its packets. *)
LEMMA FaceCtsWoken ==
  ASSUME TypeOK, Serves, Woken, NEW f \in Faces, FaceCts(f)
  PROVE  Woken'
<1> DEFINE rest == Tail(calls)
<1>1. calls # <<>> /\ Head(calls) = Cts(f) /\ f \in live /\ UNCHANGED <<live, serving>>
  BY DEF FaceCts
<1>2. f \in Sched /\ f # If /\ If \in Sched
  BY FaceIsNotIf DEF Sched
<1>3. ASSUME NEW x
      PROVE  /\ rest \in Seq(Call) /\ Due(rest, x) \in Nat
             /\ Owed(x) = Due(rest, x) + (IF x = f THEN 1 ELSE 0)
  BY <1>1, DuePop, CtsDiffer
<1> HIDE DEF rest
<1>4. ASSUME NEW g \in live, Owed(g)' = Due(rest, g), QueueMoves(f)
      PROVE  Len(outq'[g]) =< Owed(g)'
  <2>1. outq[g] \in Seq(Data) /\ Len(outq[g]) \in Nat /\ Len(outq[g]) =< Owed(g) /\ g \in Faces
    BY DEF TypeOK, Woken
  <2>2. /\ Due(rest, g) \in Nat
        /\ Owed(g) = Due(rest, g) + (IF g = f THEN 1 ELSE 0)
    BY <1>3
  <2>3. CASE g = f /\ outq[f] # <<>>
    <3>1. Len(outq'[g]) = Len(outq[g]) - 1
      BY <1>4, <2>1, <2>3 DEF TypeOK, QueueMoves
    <3>2. Owed(g) = Due(rest, g) + 1
      BY <2>2, <2>3
    <3> QED
      BY <1>4, <2>1, <2>2, <3>1, <3>2
  <2>4. CASE g = f /\ outq[f] = <<>>
    <3>1. Len(outq'[g]) = 0
      BY <1>4, <2>4 DEF QueueMoves
    <3> QED
      BY <1>4, <2>2, <3>1
  <2>5. CASE g # f
    <3>1. outq'[g] = outq[g]
      BY <1>4, <2>1, <2>5 DEF TypeOK, QueueMoves
    <3>2. Owed(g) = Due(rest, g)
      BY <2>2, <2>5
    <3> QED
      BY <1>4, <2>1, <3>1, <3>2
  <2> QED
    BY <2>3, <2>4, <2>5
<1>5. Owed(If) = Due(rest, If) /\ Due(rest, If) \in Nat
  BY <1>2, <1>3
<1>6. Kind[If] # "none" => qlen \in Nat /\ qlen =< Due(rest, If)
  BY <1>5 DEF TypeOK, Woken
<1>7. CASE outq[f] = <<>> \/ RingFull
  <2>1. calls' = rest /\ UNCHANGED <<qlen, timers>> /\ QueueMoves(f)
    BY <1>7 DEF FaceCts, queues, rest, QueueMoves
  <2>2. ASSUME NEW x PROVE Owed(x)' = Due(rest, x)
    BY <1>1, <2>1 DEF Owed, Due
  <2>3. ASSUME NEW g \in live' PROVE Len(outq'[g]) =< Owed(g)'
    <3>1. g \in live /\ Owed(g)' = Due(rest, g)
      BY <1>1, <2>2
    <3> QED
      BY <1>4, <2>1, <3>1
  <2>4. Kind[If] # "none" => qlen' =< Owed(If)'
    BY <1>6, <2>1, <2>2
  <2> QED
    BY <2>3, <2>4 DEF Woken
<1>8. CASE outq[f] # <<>> /\ ~ RingFull
  <2>1. QueueMoves(f) /\ qlen' = qlen + 1 /\ Rts(If, rest)
    BY <1>8 DEF FaceCts, rest, QueueMoves
  <2>2. ASSUME NEW x
        PROVE  Owed(x)' = IF x = If /\ Kind[If] # "none" THEN Due(rest, x) + 1 ELSE Due(rest, x)
    BY <1>1, <1>2, <1>3, <2>1, RtsOwes
  <2>3. ASSUME NEW g \in live' PROVE Len(outq'[g]) =< Owed(g)'
    <3>1. g \in live /\ g # If
      BY <1>1, FaceIsNotIf DEF TypeOK
    <3>2. Owed(g)' = Due(rest, g)
      BY <2>2, <3>1
    <3> QED
      BY <1>4, <2>1, <3>1, <3>2
  <2>4. ASSUME Kind[If] # "none" PROVE qlen' =< Owed(If)'
    <3>1. Owed(If)' = Due(rest, If) + 1
      BY <2>2, <2>4
    <3> QED
      BY <1>5, <1>6, <2>1, <2>4, <3>1
  <2> QED
    BY <2>3, <2>4 DEF Woken
<1> QED
  BY <1>7, <1>8

LEMMA PairUp ==
  ASSUME NEW a \in Call, NEW b \in Call
  PROVE  <<a>> \in Seq(Call) /\ <<b>> \in Seq(Call) /\ <<a, b>> = <<a>> \o <<b>>
<1>1. <<a>> \in Seq(Call) /\ Len(<<a>>) = 1 /\ <<a>>[1] = a
  OBVIOUS
<1>2. <<b>> \in Seq(Call) /\ Len(<<b>>) = 1 /\ <<b>>[1] = b
  OBVIOUS
<1>3. <<a, b>> \in Seq(Call) /\ Len(<<a, b>>) = 2 /\ <<a, b>>[1] = a /\ <<a, b>>[2] = b
  OBVIOUS
<1> DEFINE p == <<a, b>>
           q == <<a>> \o <<b>>
<1>4. q \in Seq(Call) /\ Len(q) = 2 /\ q[1] = a /\ q[2] = b
  BY <1>1, <1>2, ConcatProperties
<1> HIDE DEF p, q
<1>5. p = q
  <2>1. p \in Seq(Call) /\ Len(p) = 2 /\ p[1] = a /\ p[2] = b
    BY <1>3 DEF p
  <2>2. \A k \in 1..2 : p[k] = q[k]
    BY <1>4, <2>1
  <2> QED
    BY <1>4, <2>1, <2>2, SeqEqual
<1> QED
  BY <1>1, <1>2, <1>5 DEF p, q

(* ccnl_interface_CTS uses up one callback of the interface, and one packet in the ring. *)
LEMMA InterfaceCtsWoken ==
  ASSUME TypeInv, Woken, InterfaceCts
  PROVE  Woken'
<1> DEFINE rest == Tail(calls)
<1> USE DEF TypeInv
<1>1. calls # <<>> /\ Head(calls) = Cts(If) /\ UNCHANGED <<live, outq, timers, serving>>
  BY DEF InterfaceCts
<1>2. ASSUME NEW x
      PROVE  /\ rest \in Seq(Call) /\ Due(rest, x) \in Nat
             /\ Owed(x) = Due(rest, x) + (IF x = If THEN 1 ELSE 0)
  BY <1>1, DuePop, CtsDiffer
<1>3. /\ qlen \in Nat
      /\ qlen = 0 => calls' = rest /\ qlen' = 0
      /\ qlen > 0 => /\ qlen' = qlen - 1
                     /\ calls' = <<Done(If), Done(ring[qfront].face)>> \o rest
                     /\ ring[qfront] \in Request
  <2>1. ASSUME qlen > 0 PROVE ring[qfront] \in Request
    BY <2>1, RingGet DEF InterfaceCts
  <2> QED
    BY <2>1 DEF InterfaceCts, TypeOK
<1> HIDE DEF rest
<1>4. ASSUME NEW x PROVE Owed(x)' = Due(rest, x)
  <2>1. CASE qlen = 0
    BY <1>1, <1>3, <2>1 DEF Owed, Due
  <2>2. CASE qlen > 0
    <3> DEFINE a == Done(If)
               b == Done(ring[qfront].face)
    <3>1. a \in Call /\ b \in Call /\ a # Cts(x) /\ b # Cts(x)
      BY <1>3, <2>2, CtsDiffer DEF Done, Call, Sched, Request
    <3>2. calls' = <<a, b>> \o rest /\ rest \in Seq(Call) /\ Due(rest, x) \in Nat
      BY <1>2, <1>3, <2>2
    <3> HIDE DEF a, b
    <3>3. <<a, b>> \o rest = <<a>> \o (<<b>> \o rest) /\ <<b>> \o rest \in Seq(Call)
      <4>1. <<a>> \in Seq(Call) /\ <<b>> \in Seq(Call) /\ <<a, b>> = <<a>> \o <<b>>
        BY <3>1, PairUp
      <4>2. (<<a>> \o <<b>>) \o rest = <<a>> \o (<<b>> \o rest)
        BY <3>2, <4>1, ConcatAssociative
      <4>3. <<b>> \o rest \in Seq(Call)
        BY <3>2, <4>1, ConcatProperties
      <4> QED
        BY <4>1, <4>2, <4>3
    <3>4. Due(<<b>> \o rest, x) = Due(rest, x)
      BY <3>1, <3>2, DuePush
    <3>5. Due(<<a>> \o (<<b>> \o rest), x) = Due(<<b>> \o rest, x)
      <4> DEFINE q == <<b>> \o rest
      <4>1. q \in Seq(Call)
        BY <3>3
      <4> HIDE DEF q
      <4>2. Due(q, x) \in Nat /\ Due(<<a>> \o q, x) = Due(q, x) + (IF a = Cts(x) THEN 1 ELSE 0)
        BY <3>1, <4>1, DuePush
      <4>3. Due(<<a>> \o q, x) = Due(q, x)
        BY <3>1, <4>2
      <4> QED
        BY <4>3 DEF q
    <3>6. Owed(x)' = Due(<<a, b>> \o rest, x)
      BY <1>1, <3>2 DEF Owed, Due
    <3> QED
      BY <3>3, <3>4, <3>5, <3>6
  <2> QED
    BY <1>3, <2>1, <2>2
<1>5. ASSUME NEW g \in live' PROVE Len(outq'[g]) =< Owed(g)'
  <2>1. g \in live /\ g # If /\ Len(outq[g]) =< Owed(g) /\ outq'[g] = outq[g]
    BY <1>1, FaceIsNotIf DEF TypeOK, Woken
  <2>2. Owed(g) = Due(rest, g) + (IF g = If THEN 1 ELSE 0) /\ Due(rest, g) \in Nat
    BY <1>2
  <2>3. Owed(g)' = Due(rest, g)
    BY <1>4
  <2> QED
    BY <2>1, <2>2, <2>3
<1>6. ASSUME Kind[If] # "none" PROVE qlen' =< Owed(If)'
  <2>1. qlen =< Owed(If)
    BY <1>6 DEF Woken
  <2>2. Owed(If) = Due(rest, If) + 1 /\ Due(rest, If) \in Nat
    BY <1>2
  <2>3. Owed(If)' = Due(rest, If)
    BY <1>4
  <2> QED
    BY <1>3, <2>1, <2>2, <2>3
<1> QED
  BY <1>5, <1>6 DEF Woken

(* ccnl_sched_CTS_done takes no callback from anyone. *)
LEMMA CtsDoneWoken ==
  ASSUME TypeOK, Serves, Woken, NEW s \in Sched, CtsDone(s)
  PROVE  Woken'
<1> DEFINE rest == Tail(calls)
<1>1. calls # <<>> /\ Head(calls) = Done(s) /\ UNCHANGED <<live, outq, qlen, serving>>
  BY DEF CtsDone, queues
<1>2. ASSUME NEW x PROVE rest \in Seq(Call) /\ Due(rest, x) \in Nat /\ Owed(x) = Due(rest, x)
  BY <1>1, DuePop, CtsDiffer
<1>3. \/ calls' = rest /\ UNCHANGED timers
      \/ Grant(s, sched[s].cnt - 1, rest)
  BY DEF CtsDone
<1> HIDE DEF rest
<1>4. ASSUME NEW x PROVE Owed(x)' \in Nat /\ Owed(x)' >= Owed(x)
  <2>1. CASE calls' = rest /\ UNCHANGED timers
    <3>1. Owed(x)' = Due(rest, x)
      BY <1>1, <2>1 DEF Owed, Due
    <3> QED
      BY <1>2, <3>1
  <2>2. CASE Grant(s, sched[s].cnt - 1, rest)
    <3>1. Owed(x)' = Due(rest, x) + (IF x = s THEN 1 ELSE 0)
      BY <1>1, <1>2, <2>2, GrantOwes
    <3>2. Owed(x) = Due(rest, x) /\ Due(rest, x) \in Nat
      BY <1>2
    <3> QED
      BY <3>1, <3>2
  <2> QED
    BY <1>3, <2>1, <2>2
<1> QED
  BY <1>1, <1>4, NoneFewer

(* A timer that fires becomes a call, and leaves the list when its handler returns. *)
LEMMA HandlerWoken ==
  ASSUME TypeOK, Serves, Woken, RunHandler \/ HandlerReturns
  PROVE  Woken'
<1>0. timers \in Seq(Timer) /\ UNCHANGED <<live, outq, qlen>> /\ calls = <<>> /\ timers # <<>>
  BY DEF TypeOK, Timer, RunHandler, HandlerReturns, queues, Serves
<1>1. ASSUME NEW x
      PROVE  /\ WakingLater(timers, x) \in Nat /\ Waking(Tail(timers), x) = WakingLater(timers, x)
             /\ Waking(timers, x) = WakingLater(timers, x) + (IF Head(timers).who = x THEN 1 ELSE 0)
  BY <1>0, WakingPop
<1>2. ASSUME NEW x PROVE Owed(x)' = Owed(x)
  <2>0. Calling(<<>>, Cts(x)) = 0
    BY CallingNone
  <2>1. CASE RunHandler
    <3> DEFINE c == Cts(Head(timers).who)
    <3>1. Head(timers) \in Timer
      BY <1>0, HeadTailProperties
    <3>2. c \in Call
      BY <3>1 DEF Timer, Cts, Call
    <3>3. ~ serving /\ serving' /\ timers' = timers /\ calls' = <<c>>
      BY <2>1 DEF RunHandler
    <3>4. (c = Cts(x)) <=> (Head(timers).who = x)
      BY CtsDiffer
    <3> HIDE DEF c
    <3>5. <<>> \in Seq(Call) /\ <<c>> \o <<>> = <<c>>
      BY <3>2
    <3>6. Calling(<<c>> \o <<>>, Cts(x)) = Calling(<<>>, Cts(x)) + (IF c = Cts(x) THEN 1 ELSE 0)
      BY <3>2, <3>5, CallingPush
    <3>7. Owed(x) = Calling(<<>>, Cts(x)) + Waking(timers, x)
      BY <1>0, <3>3 DEF Owed, Due
    <3>8. Owed(x)' = Calling(<<c>>, Cts(x)) + WakingLater(timers, x)
      BY <3>3 DEF Owed, Due
    <3> QED
      BY <1>1, <2>0, <3>4, <3>5, <3>6, <3>7, <3>8
  <2>2. CASE HandlerReturns
    <3>1. serving /\ ~ serving' /\ timers' = Tail(timers) /\ calls' = calls
      BY <2>2 DEF HandlerReturns
    <3>2. Owed(x) = Calling(<<>>, Cts(x)) + WakingLater(timers, x)
      BY <1>0, <3>1 DEF Owed, Due
    <3>3. Owed(x)' = Calling(<<>>, Cts(x)) + Waking(Tail(timers), x)
      BY <1>0, <3>1 DEF Owed, Due
    <3> QED
      BY <1>1, <3>2, <3>3
  <2> QED
    BY <2>1, <2>2
<1>3. ASSUME NEW x PROVE Owed(x)' \in Nat /\ Owed(x)' >= Owed(x)
  <2>1. Owed(x) \in Nat /\ Owed(x)' = Owed(x)
    BY <1>2, OwedNat
  <2> QED
    BY <2>1
<1> QED
  BY <1>0, <1>3, NoneFewer

LEMMA WokenStep == TypeInv /\ Serves /\ Woken /\ [Next]_vars => Woken'
<1> SUFFICES ASSUME TypeInv, Serves, Woken, [Next]_vars PROVE Woken'
  OBVIOUS
<1>0. TypeOK /\ serving \in BOOLEAN
  BY DEF TypeInv, TypeOK
<1>1. CASE UNCHANGED <<outq, qlen, live, serving, timers, calls>>
  <2>1. ASSUME NEW x PROVE Owed(x)' \in Nat /\ Owed(x)' >= Owed(x)
    <3>1. Owed(x)' = Owed(x)
      BY <1>1, OwedSame
    <3>2. Owed(x) \in Nat
      BY <1>0, OwedNat
    <3> QED
      BY <3>1, <3>2
  <2> QED
    BY <1>0, <1>1, <2>1, NoneFewer
<1>2. ASSUME NEW f \in Faces, NEW d \in Data, FaceEnqueue(f, d) PROVE Woken'
  BY <1>0, <1>2, FaceEnqueueWoken
<1>3. ASSUME NEW f \in Faces, FaceCts(f) PROVE Woken'
  BY <1>0, <1>3, FaceCtsWoken
<1>4. CASE InterfaceCts
  BY <1>4, InterfaceCtsWoken
<1>5. ASSUME NEW s \in Sched, CtsDone(s) PROVE Woken'
  BY <1>0, <1>5, CtsDoneWoken
<1>6. CASE CallFreed
  <2>1. /\ calls # <<>> /\ Head(calls).who \notin live \cup {If} /\ calls' = Tail(calls)
        /\ UNCHANGED <<outq, qlen, live, serving, timers>>
    BY <1>6 DEF CallFreed, queues
  <2>2. ASSUME NEW x \in live \cup {If} PROVE Owed(x)' \in Nat /\ Owed(x)' >= Owed(x)
    <3>1. Head(calls) # Cts(x)
      BY <2>1 DEF Cts
    <3>2. Owed(x) = Due(Tail(calls), x) /\ Due(Tail(calls), x) \in Nat
      BY <1>0, <2>1, <3>1, DuePop
    <3>3. Owed(x)' = Due(Tail(calls), x)
      BY <2>1 DEF Owed, Due
    <3> QED
      BY <3>2, <3>3
  <2> QED
    BY <1>0, <2>1, <2>2, NoneFewer
<1>7. ASSUME NEW f \in Faces, FaceRemove(f) PROVE Woken'
  <2>1. /\ live' = live \ {f} /\ outq' = [outq EXCEPT ![f] = <<>>]
        /\ UNCHANGED <<qlen, serving, timers, calls>>
    BY <1>7 DEF FaceRemove
  <2>2. ASSUME NEW x PROVE Owed(x)' = Owed(x)
    BY <2>1, OwedSame
  <2>3. ASSUME NEW g \in live' PROVE Len(outq'[g]) =< Owed(g)'
    <3>1. g \in live /\ outq'[g] = outq[g]
      BY <1>0, <2>1 DEF TypeOK
    <3>2. Len(outq[g]) =< Owed(g)
      BY <3>1 DEF Woken
    <3>3. Owed(g)' = Owed(g)
      BY <2>2
    <3> QED
      BY <3>1, <3>2, <3>3
  <2>4. Kind[If] # "none" => qlen' =< Owed(If)'
    BY <2>1, <2>2 DEF Woken
  <2> QED
    BY <2>3, <2>4 DEF Woken
<1>8. CASE RunHandler \/ HandlerReturns
  BY <1>0, <1>8, HandlerWoken
<1>9. CASE EndPass \/ EndRound
  BY <1>1, <1>9 DEF EndPass, EndRound, queues
<1>10. CASE SocketWritable
  <2>1. calls = <<>> /\ calls' = <<Cts(If)>> /\ UNCHANGED <<outq, qlen, live, serving, timers>>
    BY <1>10 DEF SocketWritable, queues
  <2>2. ASSUME NEW x PROVE Owed(x)' \in Nat /\ Owed(x)' >= Owed(x)
    <3> DEFINE c == Cts(If)
    <3>1. c \in Call
      BY DEF Cts, Call, Sched
    <3>2. calls' = <<c>>
      BY <2>1
    <3> HIDE DEF c
    <3>3. <<>> \in Seq(Call) /\ <<c>> \o <<>> = <<c>>
      BY <3>1
    <3>4. /\ Due(<<>>, x) \in Nat
          /\ Due(<<c>> \o <<>>, x) = Due(<<>>, x) + (IF c = Cts(x) THEN 1 ELSE 0)
      BY <1>0, <3>1, <3>3, DuePush
    <3>5. Owed(x) = Due(<<>>, x) /\ Owed(x)' = Due(<<c>>, x)
      BY <2>1, <3>2 DEF Owed, Due
    <3> QED
      BY <3>3, <3>4, <3>5
  <2> QED
    BY <1>0, <2>1, <2>2, NoneFewer
<1>11. CASE Tick
  <2>1. UNCHANGED <<outq, qlen, live, serving, calls>>
    BY <1>11 DEF Tick, queues
  <2>2. Len(timers') = Len(timers) /\ \A k \in 1..Len(timers) : timers'[k].who = timers[k].who
    <3>1. timers \in Seq(Timer)
      BY <1>0 DEF TypeOK, Timer
    <3>2. \A k \in 1..Len(timers) : timers[k] \in Timer
      BY <3>1, ElementOfSeq
    <3>3. timers' = [k \in 1..Len(timers) |-> [timers[k] EXCEPT !.at = Down(@, -1)]] /\ Len(timers) \in Nat
      BY <1>11, <3>1 DEF Tick
    <3>4. Len(timers') = Len(timers)
      BY <3>3
    <3>5. ASSUME NEW k \in 1..Len(timers) PROVE timers'[k].who = timers[k].who
      BY <3>2, <3>3 DEF Timer
    <3> QED
      BY <3>4, <3>5
  <2>3. ASSUME NEW x PROVE Owed(x)' \in Nat /\ Owed(x)' >= Owed(x)
    <3>1. Waking(timers', x) = Waking(timers, x) /\ WakingLater(timers', x) = WakingLater(timers, x)
      BY <2>2, WakingSame
    <3>2. Owed(x)' = Owed(x)
      BY <2>1, <3>1 DEF Owed, Due
    <3>3. Owed(x) \in Nat
      BY <1>0, OwedNat
    <3> QED
      BY <3>2, <3>3
  <2> QED
    BY <1>0, <2>1, <2>3, NoneFewer
<1>12. CASE UNCHANGED vars
  BY <1>1, <1>12 DEF vars, queues
<1> QED
  BY <1>2, <1>3, <1>4, <1>5, <1>6, <1>7, <1>8, <1>9, <1>10, <1>11, <1>12 DEF Next, Callback

LEMMA WokenInit == Init => Woken
<1> SUFFICES ASSUME Init PROVE Woken
  OBVIOUS
<1>1. calls = <<>> /\ timers = <<>> /\ serving = FALSE /\ qlen = 0 /\ live = Faces
      /\ outq = [f \in Faces |-> <<>>]
  BY DEF Init
<1>2. ASSUME NEW x PROVE Owed(x) \in Nat
  <2>1. <<>> \in Seq(Timer)
    OBVIOUS
  <2>2. Waking(<<>>, x) \in Nat
    BY <2>1, WakingCounts
  <2> QED
    BY <1>1, <2>2, CallingNone DEF Owed, Due
<1>3. ASSUME NEW f \in live PROVE Len(outq[f]) =< Owed(f)
  <2>1. Len(outq[f]) = 0
    BY <1>1
  <2> QED
    BY <1>2, <2>1
<1> QED
  BY <1>1, <1>2, <1>3 DEF Woken

(***************************************************************************)
(* No packet waits without a callback on its way to fetch it: as many      *)
(* callbacks are on the stack or set as timers as there are packets in a   *)
(* face's queue, and with a scheduler at the interface, in the ring        *)
(* (ccnl_sched_RTS is called once for each, ccnl_sched_CTS_done adds only  *)
(* more, and a face that is removed takes its queue with it).              *)
(***************************************************************************)
THEOREM NoWakeupIsLost == Spec => []NoLostWakeup
<1>1. TypeInv /\ Woken => NoLostWakeup
  <2> SUFFICES ASSUME TypeInv, Woken PROVE NoLostWakeup
    OBVIOUS
  <2>1. ASSUME NEW x PROVE Pending(x) = Owed(x)
    BY OwedIsPending DEF TypeInv, TypeOK
  <2> QED
    BY <2>1 DEF Woken, NoLostWakeup
<1>2. Init => Serves
  BY DEF Init, Serves
<1> QED
  BY <1>1, <1>2, TypeInit, TypeStep, ServesStep, WokenInit, WokenStep, PTL DEF Spec
-----------------------------------------------------------------------------
(* The slots of a scheduler are apart; the argument needs that the list is ordered. *)

(* What is claimed of timer i when q is the list and nx the next slots ... *)
Early(q, nx, i) == q[i].at >= 0 => nx[q[i].who] - q[i].at >= Gap[q[i].who]

(* ... and of the timers i and j *)
Spaced(q, i, j) ==
  i < j => /\ q[i].at =< q[j].at
           /\ q[i].at >= 0 /\ q[j].who = q[i].who => q[j].at - q[i].at >= Gap[q[i].who]

Apart(q, nx) ==
  /\ \A i \in 1..Len(q) : Early(q, nx, i)
  /\ \A i, j \in 1..Len(q) : Spaced(q, i, j)

Nexts == [s \in Sched |-> sched[s].next]

LEMMA ApartSlots == ASSUME TypeOK, Apart(timers, Nexts) PROVE SlotsApart
<1>1. timers \in Seq(Timer)
  BY DEF TypeOK, Timer
<1>2. \A i \in 1..Len(timers) : timers[i] \in Timer
  BY <1>1, ElementOfSeq
<1>3. Len(timers) \in Nat
  BY <1>1
<1> SUFFICES ASSUME NEW i \in 1..Len(timers), timers[i].at >= 0
             PROVE  /\ sched[timers[i].who].next - timers[i].at >= Gap[timers[i].who]
                    /\ \A j \in i + 1..Len(timers) : timers[j].who = timers[i].who =>
                         timers[j].at - timers[i].at >= Gap[timers[i].who]
  BY DEF SlotsApart
<1>4. timers[i].who \in Sched
  BY <1>2 DEF Timer
<1>5. sched[timers[i].who].next - timers[i].at >= Gap[timers[i].who]
  <2>1. Early(timers, Nexts, i)
    BY DEF Apart
  <2> QED
    BY <1>4, <2>1 DEF Early, Nexts
<1>6. ASSUME NEW j \in i + 1..Len(timers), timers[j].who = timers[i].who
      PROVE  timers[j].at - timers[i].at >= Gap[timers[i].who]
  <2>1. j \in 1..Len(timers) /\ i < j
    BY <1>3
  <2>2. Spaced(timers, i, j)
    BY <2>1 DEF Apart
  <2> QED
    BY <1>6, <2>1, <2>2 DEF Spaced
<1> QED
  BY <1>5, <1>6

(* A timer is set for the next slot of its scheduler, which moves on by the interval. *)
LEMMA ApartInsert ==
  ASSUME NEW q \in Seq(Timer), NEW nx \in [Sched -> Nat], Apart(q, nx), NEW s \in Sched,
         NEW t \in Timer, t.who = s, t.at = nx[s]
  PROVE  Apart(Insert(q, t), [nx EXCEPT ![s] = @ + Gap[s]])
<1> DEFINE p == Insert(q, t)
           my == [nx EXCEPT ![s] = @ + Gap[s]]
           k == Place(q, t.at)
<1>1. /\ p \in Seq(Timer) /\ Len(p) = Len(q) + 1 /\ Len(q) \in Nat
      /\ \A i \in 1..Len(q) + 1 : p[i] = IF i < k THEN q[i] ELSE IF i = k THEN t ELSE q[i - 1]
  <2>1. /\ p \in Seq(Timer) /\ Len(p) = Len(q) + 1
        /\ \A i \in 1..Len(q) + 1 : p[i] = IF i < k THEN q[i] ELSE IF i = k THEN t ELSE q[i - 1]
    BY TimerTimed, Inserted
  <2>2. Len(q) \in Nat
    OBVIOUS
  <2> QED
    BY <2>1, <2>2
<1>2. /\ k \in 1..Len(q) + 1
      /\ \A j \in 1..k - 1 : q[j].at =< t.at
      /\ k =< Len(q) => q[k].at > t.at
  <2>1. t.at \in Int
    BY DEF Timer
  <2> QED
    BY <2>1, TimerTimed, PlaceFound
<1>3. ASSUME NEW i \in 1..Len(q) PROVE q[i].at \in Int /\ q[i].who \in Sched
  <2>1. q[i] \in Timer
    BY ElementOfSeq
  <2> QED
    BY <2>1 DEF Timer
<1>4. nx[s] \in Nat /\ \A x \in Sched : Gap[x] \in Nat /\ nx[x] \in Nat
  BY GapAssumption
<1>5. my \in [Sched -> Nat] /\ my[s] = nx[s] + Gap[s] /\ \A x \in Sched : my[x] >= nx[x]
  BY <1>4
<1>t. t.at \in Nat /\ t.who = s /\ t.at = nx[s]
  BY <1>4
<1> HIDE DEF p, k, my
(* Where an entry of the new list comes from *)
<1> DEFINE From(i) == IF i < k THEN i ELSE i - 1
<1>6. ASSUME NEW i \in 1..Len(p), i # k
      PROVE  From(i) \in 1..Len(q) /\ p[i] = q[From(i)]
  BY <1>1, <1>2, <1>6
<1>k. k \in 1..Len(p) /\ p[k] = t
  BY <1>1, <1>2
<1>7. ASSUME NEW i \in 1..Len(p) PROVE Early(p, my, i)
  <2>1. CASE i = k
    BY <1>k, <1>t, <1>4, <1>5, <2>1 DEF Early
  <2>2. CASE i # k
    <3>1. PICK m \in 1..Len(q) : p[i] = q[m]
      BY <1>6, <2>2
    <3>2. Early(q, nx, m)
      BY DEF Apart
    <3>3. q[m].at \in Int /\ q[m].who \in Sched /\ my[q[m].who] >= nx[q[m].who]
          /\ nx[q[m].who] \in Nat /\ my[q[m].who] \in Nat /\ Gap[q[m].who] \in Nat
      BY <1>3, <1>4, <1>5
    <3> QED
      BY <3>1, <3>2, <3>3 DEF Early
  <2> QED
    BY <2>1, <2>2
<1>8. ASSUME NEW i \in 1..Len(p), NEW j \in 1..Len(p), i < j
      PROVE  Spaced(p, i, j)
  <2>1. CASE j = k
    <3>1. i \in 1..Len(q) /\ i \in 1..k - 1 /\ p[i] = q[i] /\ p[j] = t
      BY <1>1, <1>2, <1>8, <2>1
    <3>2. Early(q, nx, i) /\ q[i].at =< t.at /\ q[i].at \in Int
      BY <1>2, <1>3, <3>1 DEF Apart
    <3> QED
      BY <1>t, <3>1, <3>2 DEF Early, Spaced
  <2>2. CASE i = k
    <3> DEFINE m == j - 1
    <3>1. m \in 1..Len(q) /\ m >= k /\ k \in 1..Len(q) /\ p[j] = q[m] /\ p[i] = t
      BY <1>1, <1>2, <1>8, <2>2
    <3> HIDE DEF m
    <3>2. q[m].at > t.at
      <4>1. Spaced(q, k, m) /\ q[k].at \in Int /\ q[m].at \in Int /\ q[k].at > t.at
        BY <1>2, <1>3, <3>1 DEF Apart
      <4> QED
        BY <1>t, <3>1, <4>1 DEF Spaced
    <3>3. q[m].who # s
      <4>1. Early(q, nx, m) /\ q[m].at \in Int
        BY <1>3, <3>1 DEF Apart
      <4> QED
        BY <1>4, <1>t, <3>2, <4>1 DEF Early
    <3>4. q[m].at \in Int
      BY <1>3, <3>1
    <3> QED
      BY <1>t, <3>1, <3>2, <3>3, <3>4 DEF Spaced
  <2>3. CASE i # k /\ j # k
    <3>1. PICK a \in 1..Len(q), b \in 1..Len(q) : a < b /\ p[i] = q[a] /\ p[j] = q[b]
      <4>1. From(i) \in 1..Len(q) /\ p[i] = q[From(i)] /\ From(j) \in 1..Len(q) /\ p[j] = q[From(j)]
        BY <1>6, <2>3
      <4>2. From(i) < From(j)
        BY <1>1, <1>2, <1>8, <2>3
      <4> QED
        BY <4>1, <4>2
    <3>2. Spaced(q, a, b)
      BY DEF Apart
    <3> QED
      BY <3>1, <3>2 DEF Spaced
  <2> QED
    BY <2>1, <2>2, <2>3
<1>9. ASSUME NEW i \in 1..Len(p), NEW j \in 1..Len(p) PROVE Spaced(p, i, j)
  BY <1>8 DEF Spaced
<1>10. Apart(p, my)
  BY <1>7, <1>9 DEF Apart
<1> QED
  BY <1>10 DEF p, my

(* A scheduler grants leave at once: there is no timer for a slot that has not begun. *)
LEMMA ApartNow ==
  ASSUME NEW q \in Seq(Timer), NEW nx \in [Sched -> Nat], Apart(q, nx), NEW s \in Sched, nx[s] = 0
  PROVE  Apart(q, [nx EXCEPT ![s] = Gap[s]])
<1> DEFINE my == [nx EXCEPT ![s] = Gap[s]]
<1>1. /\ my \in [Sched -> Nat] /\ my[s] = Gap[s] /\ Gap[s] \in Nat
      /\ \A x \in Sched : x # s => my[x] = nx[x]
  BY GapAssumption
<1> HIDE DEF my
<1>2. ASSUME NEW i \in 1..Len(q) PROVE Early(q, my, i)
  <2>1. q[i] \in Timer
    BY ElementOfSeq
  <2>2. q[i].at \in Int /\ q[i].who \in Sched /\ Early(q, nx, i)
    BY <2>1 DEF Timer, Apart
  <2>3. CASE q[i].who = s
    <3>1. q[i].at >= 0 => nx[s] - q[i].at >= Gap[s]
      BY <2>2, <2>3 DEF Early
    <3>2. q[i].at >= 0 => my[s] - q[i].at >= Gap[s]
      BY <1>1, <2>2, <3>1
    <3> QED
      BY <2>3, <3>2 DEF Early
  <2>4. CASE q[i].who # s
    BY <1>1, <2>2, <2>4 DEF Early
  <2> QED
    BY <2>3, <2>4
<1>3. Apart(q, my)
  BY <1>2 DEF Apart
<1> QED
  BY <1>3 DEF my

LEMMA ApartTail ==
  ASSUME NEW q \in Seq(Timer), q # <<>>, NEW nx, Apart(q, nx)
  PROVE  Apart(Tail(q), nx)
<1> DEFINE p == Tail(q)
<1>1. Len(q) = Len(p) + 1 /\ Len(p) \in Nat /\ \A i \in 1..Len(p) : p[i] = q[i + 1]
  BY HeadTailProperties
<1> HIDE DEF p
<1>2. ASSUME NEW i \in 1..Len(p) PROVE Early(p, nx, i)
  <2>1. i + 1 \in 1..Len(q) /\ p[i] = q[i + 1]
    BY <1>1
  <2>2. Early(q, nx, i + 1)
    BY <2>1 DEF Apart
  <2> QED
    BY <2>1, <2>2 DEF Early
<1>3. ASSUME NEW i \in 1..Len(p), NEW j \in 1..Len(p) PROVE Spaced(p, i, j)
  <2>1. i + 1 \in 1..Len(q) /\ p[i] = q[i + 1] /\ j + 1 \in 1..Len(q) /\ p[j] = q[j + 1]
    BY <1>1
  <2>2. Spaced(q, i + 1, j + 1)
    BY <2>1 DEF Apart
  <2>3. i < j => i + 1 < j + 1
    OBVIOUS
  <2> QED
    BY <2>1, <2>2, <2>3 DEF Spaced
<1>4. Apart(p, nx)
  BY <1>2, <1>3 DEF Apart
<1> QED
  BY <1>4 DEF p

(* Time passes for timers and slots alike. *)
LEMMA ApartTick ==
  ASSUME NEW q \in Seq(Timer), NEW nx \in [Sched -> Nat], Apart(q, nx)
  PROVE  Apart([k \in 1..Len(q) |-> [q[k] EXCEPT !.at = Down(@, -1)]], [s \in Sched |-> Down(nx[s], 0)])
<1> DEFINE p == [k \in 1..Len(q) |-> [q[k] EXCEPT !.at = Down(@, -1)]]
           my == [s \in Sched |-> Down(nx[s], 0)]
<1>0. Len(q) \in Nat
  OBVIOUS
<1>1. ASSUME NEW i \in 1..Len(q)
      PROVE  /\ q[i].at \in {-1} \cup Nat /\ q[i].who \in Sched
             /\ p[i].who = q[i].who /\ p[i].at = Down(q[i].at, -1)
  <2>1. q[i] \in Timer
    BY ElementOfSeq
  <2> QED
    BY <2>1 DEF Timer
<1>2. Len(p) = Len(q)
  BY <1>0
<1>3. \A x \in Sched : my[x] = Down(nx[x], 0) /\ nx[x] \in Nat /\ Gap[x] \in Nat
  BY GapAssumption
<1> HIDE DEF p, my
<1>4. ASSUME NEW i \in 1..Len(q) PROVE Early(p, my, i)
  <2>1. Early(q, nx, i)
    BY DEF Apart
  <2> DEFINE a == q[i].at
             n == nx[q[i].who]
             g == Gap[q[i].who]
  <2>2. /\ a \in {-1} \cup Nat /\ n \in Nat /\ g \in Nat
        /\ p[i].at = Down(a, -1) /\ my[p[i].who] = Down(n, 0) /\ Gap[p[i].who] = g
    BY <1>1, <1>3
  <2>3. a >= 0 => n - a >= g
    BY <2>1 DEF Early
  <2> HIDE DEF a, n, g
  <2>4. Down(a, -1) >= 0 => Down(n, 0) - Down(a, -1) >= g
    BY <2>2, <2>3 DEF Down
  <2> QED
    BY <2>2, <2>4 DEF Early
<1>5. ASSUME NEW i \in 1..Len(q), NEW j \in 1..Len(q), i < j PROVE Spaced(p, i, j)
  <2>1. Spaced(q, i, j)
    BY DEF Apart
  <2> DEFINE a == q[i].at
             b == q[j].at
             g == Gap[q[i].who]
  <2>2. /\ a \in {-1} \cup Nat /\ b \in {-1} \cup Nat /\ g \in Nat
        /\ p[i].at = Down(a, -1) /\ p[j].at = Down(b, -1) /\ Gap[p[i].who] = g
        /\ p[i].who = q[i].who /\ p[j].who = q[j].who
    BY <1>1, <1>3
  <2>3. a =< b /\ (a >= 0 /\ q[j].who = q[i].who => b - a >= g)
    BY <1>5, <2>1 DEF Spaced
  <2> HIDE DEF a, b, g
  <2>4. Down(a, -1) =< Down(b, -1)
    BY <2>2, <2>3 DEF Down
  <2>5. ASSUME Down(a, -1) >= 0, q[j].who = q[i].who PROVE Down(b, -1) - Down(a, -1) >= g
    BY <2>2, <2>3, <2>5 DEF Down
  <2> QED
    BY <2>2, <2>4, <2>5 DEF Spaced
<1>6. ASSUME NEW i \in 1..Len(q), NEW j \in 1..Len(q) PROVE Spaced(p, i, j)
  BY <1>5 DEF Spaced
<1>7. Apart(p, my)
  BY <1>2, <1>4, <1>6 DEF Apart
<1> QED
  BY <1>7 DEF p, my

LEMMA GrantApart ==
  ASSUME TypeOK, Apart(timers, Nexts), NEW s \in Sched, NEW n \in Int, NEW rest, Grant(s, n, rest)
  PROVE  Apart(timers, Nexts)'
<1>1. /\ timers \in Seq(Timer) /\ Nexts \in [Sched -> Nat] /\ Nexts[s] = sched[s].next
      /\ Gap[s] \in Nat /\ sched \in [Sched -> [cnt : Int, next : Nat]]
  BY GapAssumption DEF TypeOK, Timer, Nexts
<1>2. CASE Kind[s] = "rate" /\ sched[s].next > 0
  <2> DEFINE t == [at |-> sched[s].next, who |-> s]
  <2>1. t \in Timer /\ t.who = s /\ t.at = Nexts[s]
    BY <1>1 DEF Timer
  <2>2. Apart(Insert(timers, t), [Nexts EXCEPT ![s] = @ + Gap[s]])
    BY <1>1, <2>1, ApartInsert
  <2>3. /\ timers' = Insert(timers, t)
        /\ sched' = [sched EXCEPT ![s] = [cnt |-> n, next |-> sched[s].next + Gap[s]]]
    BY <1>2 DEF Grant
  <2>4. Nexts' = [Nexts EXCEPT ![s] = @ + Gap[s]]
    BY <1>1, <2>3 DEF Nexts
  <2> QED
    BY <2>2, <2>3, <2>4
<1>3. CASE Kind[s] = "rate" /\ sched[s].next = 0
  <2>1. timers' = timers /\ sched' = [sched EXCEPT ![s] = [cnt |-> n, next |-> Gap[s]]]
    BY <1>1, <1>3 DEF Grant
  <2>2. Nexts' = [Nexts EXCEPT ![s] = Gap[s]]
    BY <1>1, <2>1 DEF Nexts
  <2>3. Apart(timers, [Nexts EXCEPT ![s] = Gap[s]])
    BY <1>1, <1>3, ApartNow
  <2> QED
    BY <2>1, <2>2, <2>3
<1>4. CASE Kind[s] = "chain"
  <2>1. timers' = timers /\ sched' = [sched EXCEPT ![s].cnt = n]
    BY <1>1, <1>4 DEF Grant
  <2>2. Nexts' = Nexts
    BY <1>1, <2>1 DEF Nexts
  <2> QED
    BY <2>1, <2>2
<1> QED
  BY <1>2, <1>3, <1>4 DEF Grant

LEMMA ApartStep == TypeInv /\ Serves /\ Apart(timers, Nexts) /\ [Next]_vars => Apart(timers, Nexts)'
<1> SUFFICES ASSUME TypeInv, Serves, Apart(timers, Nexts), [Next]_vars PROVE Apart(timers, Nexts)'
  OBVIOUS
<1>0. TypeOK /\ timers \in Seq(Timer) /\ Nexts \in [Sched -> Nat]
  BY DEF TypeInv, TypeOK, Timer, Nexts
<1>1. CASE UNCHANGED <<sched, timers>>
  BY <1>1 DEF Nexts
<1>2. ASSUME NEW s \in Sched, NEW rest, Rts(s, rest) PROVE Apart(timers, Nexts)'
  <2>1. sched[s].cnt + 1 \in Int
    BY <1>0 DEF TypeOK
  <2> QED
    BY <1>0, <1>1, <1>2, <2>1, GrantApart DEF Rts
<1>3. ASSUME NEW f \in Faces, NEW d \in Data, FaceEnqueue(f, d) PROVE Apart(timers, Nexts)'
  BY <1>1, <1>2, <1>3 DEF FaceEnqueue, Sched
<1>4. ASSUME NEW f \in Faces, FaceCts(f) PROVE Apart(timers, Nexts)'
  BY <1>1, <1>2, <1>4 DEF FaceCts, Sched
<1>5. ASSUME NEW s \in Sched, CtsDone(s) PROVE Apart(timers, Nexts)'
  <2>1. sched[s].cnt - 1 \in Int /\ sched \in [Sched -> [cnt : Int, next : Nat]]
    BY <1>0 DEF TypeOK
  <2>2. CASE sched' = [sched EXCEPT ![s].cnt = @ - 1] /\ UNCHANGED timers
    <3>1. Nexts' = Nexts
      BY <2>1, <2>2 DEF Nexts
    <3> QED
      BY <2>2, <3>1
  <2>3. CASE Grant(s, sched[s].cnt - 1, Tail(calls))
    BY <1>0, <2>1, <2>3, GrantApart
  <2> QED
    BY <1>1, <1>5, <2>2, <2>3 DEF CtsDone
<1>6. CASE InterfaceCts \/ CallFreed \/ RunHandler \/ EndPass \/ SocketWritable \/ EndRound
  BY <1>1, <1>6 DEF InterfaceCts, CallFreed, RunHandler, EndPass, SocketWritable, EndRound
<1>7. ASSUME NEW f \in Faces, FaceRemove(f) PROVE Apart(timers, Nexts)'
  BY <1>1, <1>7 DEF FaceRemove
<1>8. CASE HandlerReturns
  <2>1. timers # <<>> /\ timers' = Tail(timers) /\ Nexts' = Nexts
    BY <1>8 DEF HandlerReturns, Serves, Nexts
  <2>2. Apart(Tail(timers), Nexts)
    BY <1>0, <2>1, ApartTail
  <2> QED
    BY <2>1, <2>2
<1>9. CASE Tick
  <2>1. timers' = [k \in 1..Len(timers) |-> [timers[k] EXCEPT !.at = Down(@, -1)]]
    BY <1>9 DEF Tick
  <2>2. Nexts' = [s \in Sched |-> Down(Nexts[s], 0)]
    <3>1. sched \in [Sched -> [cnt : Int, next : Nat]]
      BY <1>0 DEF TypeOK
    <3>2. sched' = [s \in Sched |-> [sched[s] EXCEPT !.next = Down(@, 0)]]
      BY <1>9 DEF Tick
    <3> QED
      BY <3>1, <3>2 DEF Nexts
  <2>3. Apart([k \in 1..Len(timers) |-> [timers[k] EXCEPT !.at = Down(@, -1)]],
              [s \in Sched |-> Down(Nexts[s], 0)])
    BY <1>0, ApartTick
  <2> QED
    BY <2>1, <2>2, <2>3
<1>10. CASE UNCHANGED vars
  BY <1>1, <1>10 DEF vars
<1> QED
  BY <1>3, <1>4, <1>5, <1>6, <1>7, <1>8, <1>9, <1>10 DEF Next, Callback

(***************************************************************************)
(* The callbacks that a rate scheduler has put off are at least its        *)
(* interval apart, and its next slot is as far behind the last of them     *)
(* (ccnl_sched_RTS and ccnl_sched_CTS_done move nextTX with each timer).   *)
(***************************************************************************)
THEOREM SlotsStayApart == Spec => []SlotsApart
<1>1. TypeInv /\ Apart(timers, Nexts) => SlotsApart
  BY ApartSlots DEF TypeInv
<1>2. Init => Serves /\ Apart(timers, Nexts)
  BY DEF Init, Serves, Apart
<1> QED
  BY <1>1, <1>2, TypeInit, TypeStep, ServesStep, ApartStep, PTL DEF Spec
-----------------------------------------------------------------------------
(* The counts of the schedulers cover what is queued *)

RingOf(f) == {k \in 1..qlen : InRing[k].face = f}

Dones(q, x) == Calling(q, Done(x))

(* CountsCover, in terms of the counts above *)
Covered ==
  /\ Kind[If] # "none" => sched[If].cnt = qlen + Dones(calls, If)
  /\ \A f \in live : Kind[f] # "none" =>
       sched[f].cnt >= Len(outq[f]) + Cardinality(RingOf(f)) + Dones(calls, f)

LEMMA DoneDiffer == \A a, b : (Done(a) = Done(b) <=> a = b) /\ Done(a) # Cts(b)
BY DEF Cts, Done

LEMMA TwoPlaces ==
  ASSUME NEW a \in Slots, NEW k \in Nat, NEW m \in Nat, k < m, m < QLen
  PROVE  (a + k) % QLen # (a + m) % QLen
<1> DEFINE x == a + k
           y == a + m
<1>1. QLen \in Nat \ {0} /\ a \in 0..QLen - 1
  BY LimitsAssumption DEF Slots
<1>2. x \in 0..2 * QLen - 1 /\ y \in 0..2 * QLen - 1 /\ x < y /\ y - x < QLen
  BY <1>1
<1> HIDE DEF x, y
<1>3. x % QLen = IF x < QLen THEN x ELSE x - QLen
  BY <1>2, Wrap
<1>4. y % QLen = IF y < QLen THEN y ELSE y - QLen
  BY <1>2, Wrap
<1>5. x % QLen # y % QLen
  BY <1>1, <1>2, <1>3, <1>4
<1> QED
  BY <1>5 DEF x, y

LEMMA RingOfNat == ASSUME TypeOK, NEW f PROVE Cardinality(RingOf(f)) \in Nat
<1>1. IsFiniteSet(1..qlen)
  BY FS_Interval DEF TypeOK
<1>2. IsFiniteSet(RingOf(f))
  BY <1>1, FS_Subset DEF RingOf
<1> QED
  BY <1>2, FS_CardinalityType

(* The places of the ring in order, when a packet goes in *)
LEMMA PlacesPut ==
  ASSUME TypeInv, NEW r \in Request, ~ RingFull,
         ring' = [ring EXCEPT ![FreeSlot] = r], qlen' = qlen + 1, qfront' = qfront
  PROVE  (\A k \in 1..qlen : InRing'[k] = InRing[k]) /\ InRing'[qlen + 1] = r
<1>1. QLen \in Nat \ {0} /\ qlen \in 0..QLen - 1 /\ qfront \in Slots /\ qlen \in Nat
  BY LimitsAssumption DEF TypeInv, TypeOK, RingFull
<1>2. FreeSlot \in Slots /\ ring \in [Slots -> Request \cup {Nothing}]
  BY <1>1, InSlots DEF FreeSlot, TypeInv, TypeOK
<1>3. ASSUME NEW k \in 1..qlen PROVE InRing'[k] = InRing[k]
  <2> DEFINE m == k - 1
             p == (qfront + m) % QLen
  <2>1. m \in Nat /\ m < qlen /\ qlen < QLen /\ m \in 0..QLen /\ k \in 1..qlen + 1
    BY <1>1
  <2> HIDE DEF m
  <2>2. p # FreeSlot /\ p \in Slots
    BY <1>1, <2>1, TwoPlaces, InSlots DEF FreeSlot
  <2> HIDE DEF p
  <2>3. ring'[p] = ring[p]
    BY <1>2, <2>2
  <2>4. qfront + k - 1 = qfront + m
    BY <1>1 DEF m, Slots
  <2>5. InRing[k] = ring[p] /\ InRing'[k] = ring'[p]
    BY <2>1, <2>4 DEF InRing, p
  <2> QED
    BY <2>3, <2>5
<1>4. InRing'[qlen + 1] = r
  <2>1. qfront + (qlen + 1) - 1 = qfront + qlen /\ qlen + 1 \in 1..qlen + 1
    BY <1>1 DEF Slots
  <2>2. InRing'[qlen + 1] = ring'[FreeSlot]
    BY <2>1 DEF InRing, FreeSlot
  <2> QED
    BY <1>2, <2>2
<1> QED
  BY <1>3, <1>4

LEMMA RingOfPut ==
  ASSUME TypeInv, NEW r \in Request, ~ RingFull,
         ring' = [ring EXCEPT ![FreeSlot] = r], qlen' = qlen + 1, qfront' = qfront, NEW f
  PROVE  Cardinality(RingOf(f))' = Cardinality(RingOf(f)) + (IF r.face = f THEN 1 ELSE 0)
<1>1. QLen \in Nat \ {0} /\ qlen \in 0..QLen - 1 /\ qfront \in Slots /\ qlen \in Nat
  BY LimitsAssumption DEF TypeInv, TypeOK, RingFull
<1>3. (\A k \in 1..qlen : InRing'[k] = InRing[k]) /\ InRing'[qlen + 1] = r
  BY PlacesPut
<1> DEFINE S == RingOf(f)
           T == {k \in 1..qlen + 1 : InRing'[k].face = f}
<1>5. RingOf(f)' = T
  BY DEF RingOf
<1>6. Raised(qlen, S, T, qlen + 1) /\ (qlen + 1 \in T <=> r.face = f)
  <2>1. qlen + 1 \in T <=> r.face = f
    BY <1>1, <1>3
  <2>2. S \subseteq 1..qlen /\ T \subseteq 1..qlen + 1
    BY DEF RingOf
  <2>3. ASSUME NEW i \in 1..qlen PROVE i \in T <=> i \in S
    BY <1>1, <1>3 DEF RingOf
  <2> HIDE DEF S, T
  <2> QED
    BY <1>1, <2>1, <2>2, <2>3 DEF Raised
<1> HIDE DEF S, T
<1>7. /\ r.face = f => Cardinality(S) \in Nat /\ Cardinality(T) = Cardinality(S) + 1
      /\ r.face # f => Cardinality(S) \in Nat /\ Cardinality(T) = Cardinality(S)
  BY <1>6, CountAdded, CountMoved
<1> QED
  BY <1>5, <1>7 DEF S

(* and when the first one is taken *)
LEMMA PlacesGet ==
  ASSUME TypeInv, qlen > 0, qfront' = (qfront + 1) % QLen, qlen' = qlen - 1,
         ring' = [ring EXCEPT ![qfront] = Nothing]
  PROVE  InRing[1] = ring[qfront] /\ \A k \in 1..qlen - 1 : InRing'[k] = InRing[k + 1]
<1>1. /\ QLen \in Nat \ {0} /\ qlen \in 1..QLen /\ qlen \in Nat /\ qfront \in Slots
      /\ qfront \in 0..QLen - 1 /\ ring \in [Slots -> Request \cup {Nothing}]
  BY LimitsAssumption DEF TypeInv, TypeOK, Slots
<1>2. InRing[1] = ring[qfront]
  <2>1. qfront + 1 - 1 = qfront /\ qfront % QLen = qfront /\ 1 \in 1..qlen
    BY <1>1, NoRest
  <2> QED
    BY <2>1 DEF InRing
<1>3. ASSUME NEW k \in 1..qlen - 1 PROVE InRing'[k] = InRing[k + 1]
  <2> DEFINE m == k - 1
             p == (qfront + (m + 1)) % QLen
  <2>1. m \in Nat /\ m + 1 < QLen /\ m + 1 \in 0..QLen /\ k + 1 \in 1..qlen /\ k = m + 1
    BY <1>1
  <2> HIDE DEF m
  <2>2. (qfront' + m) % QLen = p /\ p # qfront /\ p \in Slots
    BY <1>1, <2>1, NextPlace, InSlots
  <2> HIDE DEF p
  <2>3. ring'[p] = ring[p]
    BY <1>1, <2>2
  <2>4. qfront + (k + 1) - 1 = qfront + (m + 1)
    BY <1>1, <2>1
  <2>5. InRing[k + 1] = ring[p]
    BY <2>1, <2>4 DEF InRing, p
  <2>6. qfront' + k - 1 = qfront' + m
    <3>1. qfront' \in Slots
      BY <1>1, InSlots
    <3>2. qfront' \in Int
      BY <1>1, <3>1 DEF Slots
    <3> QED
      BY <2>1, <3>2
  <2>7. InRing'[k] = ring'[p]
    BY <1>3, <2>2, <2>6 DEF InRing
  <2> QED
    BY <2>3, <2>5, <2>7
<1> QED
  BY <1>2, <1>3

LEMMA RingOfGet ==
  ASSUME TypeInv, qlen > 0, qfront' = (qfront + 1) % QLen, qlen' = qlen - 1,
         ring' = [ring EXCEPT ![qfront] = Nothing], NEW f
  PROVE  Cardinality(RingOf(f)) =
           Cardinality(RingOf(f))' + (IF ring[qfront].face = f THEN 1 ELSE 0)
<1>1. /\ QLen \in Nat \ {0} /\ qlen \in 1..QLen /\ qlen \in Nat /\ qfront \in Slots
      /\ qfront \in 0..QLen - 1 /\ ring \in [Slots -> Request \cup {Nothing}]
  BY LimitsAssumption DEF TypeInv, TypeOK, Slots
<1>3. InRing[1] = ring[qfront] /\ \A k \in 1..qlen - 1 : InRing'[k] = InRing[k + 1]
  BY PlacesGet
<1> DEFINE T == RingOf(f)
           S == {k \in 1..qlen - 1 : InRing'[k].face = f}
<1>5. RingOf(f)' = S
  BY DEF RingOf
<1>6. Raised(qlen - 1, S, T, 1) /\ (1 \in T <=> ring[qfront].face = f)
  <2>1. 1 \in T <=> ring[qfront].face = f
    BY <1>1, <1>3 DEF RingOf
  <2>2. S \subseteq 1..qlen - 1 /\ T \subseteq 1..qlen
    BY DEF RingOf
  <2>3. ASSUME NEW i \in 1..qlen - 1 PROVE i + 1 \in T <=> i \in S
    BY <1>1, <1>3 DEF RingOf
  <2> HIDE DEF S, T
  <2>4. ASSUME NEW j \in 1..qlen, j # 1 PROVE j \in T <=> j - 1 \in S
    <3>1. j - 1 \in 1..qlen - 1 /\ (j - 1) + 1 = j
      BY <1>1, <2>4
    <3> QED
      BY <2>3, <3>1
  <2> QED
    BY <1>1, <2>1, <2>2, <2>4 DEF Raised
<1> HIDE DEF S, T
<1>7. /\ ring[qfront].face = f => Cardinality(S) \in Nat /\ Cardinality(T) = Cardinality(S) + 1
      /\ ring[qfront].face # f => Cardinality(S) \in Nat /\ Cardinality(T) = Cardinality(S)
  BY <1>6, CountAdded, CountMoved
<1> QED
  BY <1>5, <1>7 DEF T

LEMMA DonesPop ==
  ASSUME TypeOK, calls # <<>>, NEW x
  PROVE  /\ Tail(calls) \in Seq(Call) /\ Dones(Tail(calls), x) \in Nat
         /\ Dones(calls, x) = Dones(Tail(calls), x) + (IF Head(calls) = Done(x) THEN 1 ELSE 0)
<1>1. calls \in Seq(Call)
  BY DEF TypeOK
<1> QED
  BY <1>1, CallingPop DEF Dones

LEMMA DonesPush ==
  ASSUME NEW q \in Seq(Call), NEW d \in Call, NEW x
  PROVE  /\ <<d>> \o q \in Seq(Call) /\ Dones(q, x) \in Nat
         /\ Dones(<<d>> \o q, x) = Dones(q, x) + (IF d = Done(x) THEN 1 ELSE 0)
BY CallingPush DEF Dones

LEMMA DonesNat == ASSUME NEW q \in Seq(Call), NEW x PROVE Dones(q, x) \in Nat
<1>1. Done(If) \in Call
  BY DEF Done, Call, Sched
<1> QED
  BY <1>1, DonesPush

LEMMA DonesCts ==
  ASSUME NEW s \in Sched, NEW x
  PROVE  Dones(<<>>, x) = 0 /\ Dones(<<Cts(s)>>, x) = 0
<1> DEFINE c == Cts(s)
<1>1. c \in Call /\ c # Done(x)
  BY DoneDiffer DEF Cts, Call
<1> HIDE DEF c
<1>2. <<>> \in Seq(Call) /\ <<c>> \o <<>> = <<c>>
  BY <1>1
<1>3. Dones(<<c>> \o <<>>, x) = Dones(<<>>, x) + (IF c = Done(x) THEN 1 ELSE 0) /\ Dones(<<>>, x) = 0
  BY <1>1, <1>2, CallingNone, DonesPush DEF Dones
<1> QED
  BY <1>1, <1>2, <1>3 DEF c

(* A scheduler that grants leave has the new count, and no packet is sent yet. *)
LEMMA GrantCounts ==
  ASSUME TypeOK, NEW s \in Sched, NEW n \in Int, NEW rest \in Seq(Call), Grant(s, n, rest), NEW x
  PROVE  /\ sched'[s].cnt = n
         /\ x \in Sched /\ x # s => sched'[x].cnt = sched[x].cnt
         /\ Dones(calls', x) = Dones(rest, x)
<1>1. sched \in [Sched -> [cnt : Int, next : Nat]]
  BY DEF TypeOK
<1>2. sched'[s].cnt = n /\ (x \in Sched /\ x # s => sched'[x].cnt = sched[x].cnt)
  <2>1. \E m : sched' = [sched EXCEPT ![s] = [cnt |-> n, next |-> m]] \/ sched' = [sched EXCEPT ![s].cnt = n]
    BY DEF Grant
  <2> QED
    BY <1>1, <2>1
<1>3. calls' = rest \/ calls' = <<Cts(s)>> \o rest
  BY DEF Grant
<1>4. Dones(<<Cts(s)>> \o rest, x) = Dones(rest, x)
  <2> DEFINE c == Cts(s)
  <2>1. c \in Call /\ c # Done(x)
    BY DoneDiffer DEF Cts, Call
  <2> HIDE DEF c
  <2>2. Dones(rest, x) \in Nat /\ Dones(<<c>> \o rest, x) = Dones(rest, x) + (IF c = Done(x) THEN 1 ELSE 0)
    BY <2>1, DonesPush
  <2>3. Dones(<<c>> \o rest, x) = Dones(rest, x)
    BY <2>1, <2>2
  <2> QED
    BY <2>3 DEF c
<1> QED
  BY <1>2, <1>3, <1>4

(* What the claim says of f, and of the interface, in numbers *)
FaceCovered(f) ==
  Kind[f] # "none" => sched[f].cnt >= Len(outq[f]) + Cardinality(RingOf(f)) + Dones(calls, f)

IfCovered == Kind[If] # "none" => sched[If].cnt = qlen + Dones(calls, If)

LEMMA CoveredParts == Covered <=> IfCovered /\ \A f \in live : FaceCovered(f)
BY DEF Covered, IfCovered, FaceCovered

(* Steps that send nothing and leave the ring alone *)
Unsent ==
  /\ UNCHANGED <<ring, qfront, qlen>> /\ live' \subseteq live
  /\ \A x \in live' \cup {If} : sched'[x].cnt = sched[x].cnt /\ Dones(calls', x) = Dones(calls, x)
  /\ \A x \in live' : Len(outq'[x]) =< Len(outq[x])

LEMMA UnsentCovered ==
  ASSUME TypeOK, outq' \in [Faces -> Seq(Data)], calls \in Seq(Call), Covered, Unsent
  PROVE  Covered'
<1>1. IfCovered'
  BY CoveredParts DEF IfCovered, Unsent
<1>2. ASSUME NEW f \in live' PROVE FaceCovered(f)'
  <2>1. f \in live /\ f \in Faces /\ f \in Sched
    BY DEF Unsent, TypeOK, Sched
  <2>2. RingOf(f)' = RingOf(f)
    BY DEF Unsent, RingOf, InRing
  <2>3. FaceCovered(f) /\ sched[f].cnt \in Int /\ Len(outq[f]) \in Nat /\ Len(outq'[f]) \in Nat
    BY <2>1, CoveredParts DEF TypeOK
  <2>4. Cardinality(RingOf(f)) \in Nat
    BY RingOfNat
  <2>5. Dones(calls, f) \in Nat
    BY DonesNat
  <2>6. sched'[f].cnt = sched[f].cnt /\ Dones(calls', f) = Dones(calls, f) /\ Len(outq'[f]) =< Len(outq[f])
    BY DEF Unsent
  <2>7. ASSUME Kind[f] # "none"
        PROVE  sched'[f].cnt >= Len(outq'[f]) + Cardinality(RingOf(f)) + Dones(calls', f)
    <3>1. sched[f].cnt >= Len(outq[f]) + Cardinality(RingOf(f)) + Dones(calls, f)
      BY <2>3, <2>7 DEF FaceCovered
    <3> QED
      BY <2>3, <2>4, <2>5, <2>6, <3>1
  <2> QED
    BY <2>2, <2>7 DEF FaceCovered
<1> QED
  BY <1>1, <1>2 DEF Covered, IfCovered, FaceCovered

LEMMA FaceEnqueueCovered ==
  ASSUME TypeOK, TypeOK', Covered, NEW f \in Faces, NEW d \in Data, FaceEnqueue(f, d)
  PROVE  Covered'
<1>1. /\ calls = <<>> /\ f \in live /\ f \in Sched /\ f # If
      /\ UNCHANGED <<live, ring, qfront, qlen>>
  BY FaceIsNotIf DEF FaceEnqueue
<1>2. TypeOK => outq' \in [Faces -> Seq(Data)] /\ calls \in Seq(Call)
  BY DEF TypeOK
<1>3. CASE UNCHANGED <<outq, sched, timers, calls>>
  <2>1. Unsent
    <3>1. \A x \in live' : Len(outq'[x]) =< Len(outq[x])
      BY <1>1, <1>3 DEF TypeOK
    <3> QED
      BY <1>1, <1>3, <3>1 DEF Unsent
  <2> QED
    BY <1>2, <2>1, UnsentCovered
<1>4. CASE outq' = [outq EXCEPT ![f] = Append(@, d)]
  <2>1. Len(outq'[f]) = Len(outq[f]) + 1 /\ Len(outq[f]) \in Nat
    BY <1>4 DEF TypeOK
  <2>2. \/ Grant(f, sched[f].cnt + 1, <<>>)
        \/ Kind[f] = "none" /\ calls' = <<Cts(f)>> /\ UNCHANGED sched
    <3>1. ~ (UNCHANGED outq)
      BY <2>1
    <3> QED
      BY <3>1 DEF FaceEnqueue, Rts
  <2>3. ASSUME NEW x \in Sched
        PROVE  /\ Dones(calls, x) = 0 /\ Dones(calls', x) = 0
               /\ x # f => sched'[x].cnt = sched[x].cnt
               /\ Kind[f] # "none" => sched'[f].cnt = sched[f].cnt + 1
    <3>1. CASE Grant(f, sched[f].cnt + 1, <<>>)
      <4>1. sched[f].cnt + 1 \in Int /\ <<>> \in Seq(Call)
        BY <1>1 DEF TypeOK
      <4>2. Dones(<<>>, x) = 0
        BY DonesCts
      <4> QED
        BY <1>1, <3>1, <4>1, <4>2, GrantCounts
    <3>2. CASE Kind[f] = "none" /\ calls' = <<Cts(f)>> /\ UNCHANGED sched
      BY <1>1, <3>2, DonesCts
    <3> QED
      BY <2>2, <3>1, <3>2
  <2>4. IfCovered'
    <3>1. If \in Sched
      BY DEF Sched
    <3>2. /\ Dones(calls, If) = 0 /\ Dones(calls', If) = 0 /\ sched'[If].cnt = sched[If].cnt
      BY <1>1, <2>3, <3>1
    <3> QED
      BY <1>1, <3>2, CoveredParts DEF IfCovered
  <2>5. ASSUME NEW g \in live' PROVE FaceCovered(g)'
    <3>1. g \in live /\ g \in Faces /\ g \in Sched /\ FaceCovered(g)
      BY <1>1, CoveredParts DEF TypeOK, Sched
    <3>2. RingOf(g)' = RingOf(g) /\ Cardinality(RingOf(g)) \in Nat
      BY <1>1, RingOfNat DEF RingOf, InRing
    <3>3. Dones(calls, g) = 0 /\ Dones(calls', g) = 0 /\ sched[g].cnt \in Int
      BY <2>3, <3>1 DEF TypeOK
    <3>4. CASE g = f
      <4>1. ASSUME Kind[f] # "none"
            PROVE  sched'[f].cnt >= Len(outq'[f]) + Cardinality(RingOf(f)) + 0
        <5>1. sched'[f].cnt = sched[f].cnt + 1
          BY <2>3, <1>1, <4>1
        <5>2. sched[f].cnt >= Len(outq[f]) + Cardinality(RingOf(f)) + 0
          BY <3>1, <3>3, <3>4, <4>1 DEF FaceCovered
        <5> QED
          BY <2>1, <3>2, <3>3, <3>4, <5>1, <5>2
      <4> QED
        BY <3>2, <3>3, <3>4, <4>1 DEF FaceCovered
    <3>5. CASE g # f
      <4>1. outq'[g] = outq[g] /\ sched'[g].cnt = sched[g].cnt
        BY <1>4, <2>3, <3>1, <3>5 DEF TypeOK
      <4> QED
        BY <3>1, <3>2, <3>3, <4>1 DEF FaceCovered
    <3> QED
      BY <3>4, <3>5
  <2> QED
    BY <2>4, <2>5 DEF Covered, IfCovered, FaceCovered
<1> QED
  BY <1>3, <1>4 DEF FaceEnqueue

LEMMA TypeParts ==
  ASSUME TypeOK
  PROVE  /\ live \subseteq Faces /\ outq \in [Faces -> Seq(Data)] /\ calls \in Seq(Call)
         /\ \A f \in Faces : Len(outq[f]) \in Nat
         /\ \A s \in Sched : sched[s].cnt \in Int
         /\ qlen \in Nat
BY LimitsAssumption DEF TypeOK

LEMMA FaceCtsCovered ==
  ASSUME TypeInv, TypeOK', Covered, NEW f \in Faces, FaceCts(f)
  PROVE  Covered'
<1> DEFINE rest == Tail(calls)
<1>0. TypeOK /\ If \in Sched /\ f \in Sched /\ f # If
  BY FaceIsNotIf DEF TypeInv, Sched
<1>1. calls # <<>> /\ Head(calls) = Cts(f) /\ f \in live /\ UNCHANGED live
  BY DEF FaceCts
<1>2. ASSUME NEW x
      PROVE  rest \in Seq(Call) /\ Dones(rest, x) \in Nat /\ Dones(calls, x) = Dones(rest, x)
  BY <1>0, <1>1, DonesPop, DoneDiffer
<1> HIDE DEF rest
<1>3. outq[f] # <<>> => /\ Len(Tail(outq[f])) = Len(outq[f]) - 1 /\ Len(outq[f]) \in Nat
                        /\ Head(outq[f]) \in Data
  <2>1. outq[f] \in Seq(Data)
    BY <1>0 DEF TypeOK
  <2> QED
    BY <2>1
<1>4. CASE outq[f] = <<>> \/ RingFull
  <2>1. /\ calls' = rest /\ UNCHANGED <<ring, qfront, qlen, sched>>
        /\ outq' = outq \/ (outq[f] # <<>> /\ outq' = [outq EXCEPT ![f] = Tail(@)])
    BY <1>4 DEF FaceCts, queues, rest
  <2>2. ASSUME NEW x \in live' PROVE Len(outq'[x]) =< Len(outq[x])
    <3>1. x \in Faces /\ Len(outq[x]) \in Nat
      BY <1>0, <1>1 DEF TypeOK
    <3>2. outq'[x] = outq[x] \/ (x = f /\ outq[f] # <<>> /\ outq'[x] = Tail(outq[f]))
      BY <1>0, <2>1, <3>1 DEF TypeOK
    <3>3. CASE outq'[x] = outq[x]
      BY <3>1, <3>3
    <3>4. CASE x = f /\ outq[f] # <<>> /\ outq'[x] = Tail(outq[f])
      <4>1. Len(outq'[x]) = Len(outq[x]) - 1
        BY <1>3, <3>4
      <4> QED
        BY <3>1, <4>1
    <3> QED
      BY <3>2, <3>3, <3>4
  <2>3. Unsent
    BY <1>1, <1>2, <2>1, <2>2 DEF Unsent
  <2>4. outq' \in [Faces -> Seq(Data)] /\ calls \in Seq(Call)
    BY <1>0 DEF TypeOK
  <2> QED
    BY <1>0, <2>3, <2>4, UnsentCovered
<1>5. CASE outq[f] # <<>> /\ ~ RingFull
  <2> DEFINE r == [face |-> f, data |-> Head(outq[f])]
  <2>1. /\ outq' = [outq EXCEPT ![f] = Tail(@)]
        /\ ring' = [ring EXCEPT ![FreeSlot] = r]
        /\ qlen' = qlen + 1 /\ qfront' = qfront
        /\ Rts(If, rest)
    BY <1>5 DEF FaceCts, rest
  <2>2. r \in Request /\ r.face = f
    BY <1>3, <1>5 DEF Request
  <2> HIDE DEF r
  <2>3. ASSUME NEW x
        PROVE  Cardinality(RingOf(x))' = Cardinality(RingOf(x)) + (IF x = f THEN 1 ELSE 0)
    BY <1>5, <2>1, <2>2, RingOfPut
  <2>4. ASSUME NEW x \in Sched
        PROVE  /\ Dones(calls', x) = Dones(calls, x)
               /\ x # If => sched'[x].cnt = sched[x].cnt
               /\ Kind[If] # "none" => sched'[If].cnt = sched[If].cnt + 1
    <3>1. CASE Grant(If, sched[If].cnt + 1, rest)
      <4>1. sched[If].cnt + 1 \in Int
        BY <1>0, TypeParts
      <4> QED
        BY <1>0, <1>2, <3>1, <4>1, GrantCounts
    <3>2. CASE Kind[If] = "none" /\ calls' = rest /\ UNCHANGED <<sched, timers>>
      BY <1>2, <3>2
    <3> QED
      BY <2>1, <3>1, <3>2 DEF Rts
  <2>5. IfCovered'
    <3>1. ASSUME Kind[If] # "none" PROVE sched'[If].cnt = qlen' + Dones(calls', If)
      <4>1. sched[If].cnt = qlen + Dones(calls, If)
        BY <3>1, CoveredParts DEF IfCovered
      <4>2. sched'[If].cnt = sched[If].cnt + 1 /\ Dones(calls', If) = Dones(calls, If)
        BY <1>0, <2>4, <3>1
      <4>3. qlen \in Nat /\ Dones(calls, If) \in Nat
        BY <1>0, <1>2 DEF TypeOK
      <4> QED
        BY <2>1, <4>1, <4>2, <4>3
    <3> QED
      BY <3>1 DEF IfCovered
  <2>6. ASSUME NEW g \in live' PROVE FaceCovered(g)'
    <3>1. g \in live /\ g \in Faces /\ g \in Sched /\ g # If
      BY <1>0, <1>1, FaceIsNotIf DEF TypeOK
    <3>2. Cardinality(RingOf(g)) \in Nat
      BY <1>0, RingOfNat
    <3>3. Cardinality(RingOf(g))' = Cardinality(RingOf(g)) + (IF g = f THEN 1 ELSE 0)
      BY <2>3
    <3>4. Dones(calls', g) = Dones(calls, g) /\ sched'[g].cnt = sched[g].cnt /\ Dones(calls, g) \in Nat
      BY <1>2, <2>4, <3>1
    <3>o. outq \in [Faces -> Seq(Data)] /\ Len(outq[g]) \in Nat
      BY <1>0, <3>1, TypeParts
    <3>5. /\ g = f => Len(outq'[g]) = Len(outq[g]) - 1
          /\ g # f => Len(outq'[g]) = Len(outq[g])
      <4>1. g = f => outq'[g] = Tail(outq[f])
        BY <2>1, <3>o, <3>1
      <4>2. g # f => outq'[g] = outq[g]
        BY <2>1, <3>o, <3>1
      <4> QED
        BY <1>3, <1>5, <4>1, <4>2
    <3>6. ASSUME Kind[g] # "none"
          PROVE  sched'[g].cnt >= Len(outq'[g]) + Cardinality(RingOf(g))' + Dones(calls', g)
      <4>1. sched[g].cnt >= Len(outq[g]) + Cardinality(RingOf(g)) + Dones(calls, g)
        BY <3>1, <3>6, CoveredParts DEF FaceCovered
      <4>2. Len(outq'[g]) + Cardinality(RingOf(g))' = Len(outq[g]) + Cardinality(RingOf(g))
        <5>1. CASE g = f
          <6>1. Cardinality(RingOf(g))' = Cardinality(RingOf(g)) + 1 /\ Len(outq'[g]) = Len(outq[g]) - 1
            BY <3>3, <3>5, <5>1
          <6> QED
            BY <3>2, <3>o, <6>1
        <5>2. CASE g # f
          <6>1. Cardinality(RingOf(g))' = Cardinality(RingOf(g)) /\ Len(outq'[g]) = Len(outq[g])
            BY <3>2, <3>3, <3>5, <5>2
          <6> QED
            BY <6>1
        <5> QED
          BY <5>1, <5>2
      <4> QED
        BY <3>4, <4>1, <4>2
    <3> QED
      BY <3>6 DEF FaceCovered
  <2> QED
    BY <2>5, <2>6 DEF Covered, IfCovered, FaceCovered
<1> QED
  BY <1>4, <1>5

LEMMA InterfaceCtsCovered ==
  ASSUME TypeInv, Covered, InterfaceCts
  PROVE  Covered'
<1> DEFINE rest == Tail(calls)
<1>0. TypeOK /\ If \in Sched
  BY DEF TypeInv, Sched
<1>1. calls # <<>> /\ Head(calls) = Cts(If) /\ UNCHANGED <<live, outq, sched>>
  BY DEF InterfaceCts
<1>2. ASSUME NEW x
      PROVE  rest \in Seq(Call) /\ Dones(rest, x) \in Nat /\ Dones(calls, x) = Dones(rest, x)
  BY <1>0, <1>1, DonesPop, DoneDiffer
<1> HIDE DEF rest
<1>3. CASE qlen = 0
  <2>1. calls' = rest /\ UNCHANGED <<ring, qfront, qlen>>
    BY <1>3 DEF InterfaceCts, rest
  <2>2. Unsent
    BY <1>0, <1>1, <1>2, <2>1 DEF Unsent, TypeOK
  <2>3. outq' \in [Faces -> Seq(Data)] /\ calls \in Seq(Call)
    BY <1>0, <1>1 DEF TypeOK
  <2> QED
    BY <1>0, <2>2, <2>3, UnsentCovered
<1>4. CASE qlen > 0
  <2> DEFINE h == ring[qfront].face
             a == Done(If)
             b == Done(h)
  <2>1. /\ ring' = [ring EXCEPT ![qfront] = Nothing]
        /\ qfront' = (qfront + 1) % QLen /\ qlen' = qlen - 1
        /\ calls' = <<a, b>> \o rest
    BY <1>4 DEF InterfaceCts, rest
  <2>2. h \in Faces /\ h # If
    <3>1. ring[qfront] \in Request
      BY <1>4, <2>1, RingGet
    <3> QED
      BY <3>1, FaceIsNotIf DEF Request
  <2>3. a \in Call /\ b \in Call
    BY <2>2 DEF Done, Call, Sched
  <2>4. ASSUME NEW x
        PROVE  Dones(calls', x) = Dones(calls, x) + (IF x = h THEN 1 ELSE 0) + (IF x = If THEN 1 ELSE 0)
    <3>1. (a = Done(x) <=> x = If) /\ (b = Done(x) <=> x = h)
      BY DoneDiffer
    <3> HIDE DEF a, b
    <3> DEFINE q == <<b>> \o rest
    <3>2. q \in Seq(Call) /\ Dones(rest, x) \in Nat /\ Dones(q, x) = Dones(rest, x) + (IF b = Done(x) THEN 1 ELSE 0)
      BY <1>2, <2>3, DonesPush
    <3>3. <<a, b>> \o rest = <<a>> \o q
      <4>1. <<a>> \in Seq(Call) /\ <<b>> \in Seq(Call) /\ <<a, b>> = <<a>> \o <<b>>
        BY <2>3, PairUp
      <4> QED
        BY <1>2, <4>1, ConcatAssociative
    <3> HIDE DEF q, h
    <3>4. Dones(<<a>> \o q, x) = Dones(q, x) + (IF a = Done(x) THEN 1 ELSE 0)
      BY <2>3, <3>2, DonesPush
    <3>5. calls' = <<a>> \o q
      BY <2>1, <3>3
    <3>6. Dones(calls', x) = Dones(q, x) + (IF x = If THEN 1 ELSE 0)
      BY <3>1, <3>4, <3>5
    <3>7. Dones(q, x) = Dones(calls, x) + (IF x = h THEN 1 ELSE 0)
      BY <1>2, <3>1, <3>2
    <3> QED
      BY <3>6, <3>7
  <2> HIDE DEF a, b
  <2>5. ASSUME NEW x
        PROVE  Cardinality(RingOf(x)) = Cardinality(RingOf(x))' + (IF h = x THEN 1 ELSE 0)
    BY <1>4, <2>1, RingOfGet
  <2> HIDE DEF h
  <2>6. IfCovered'
    <3>1. ASSUME Kind[If] # "none" PROVE sched'[If].cnt = qlen' + Dones(calls', If)
      <4>1. sched[If].cnt = qlen + Dones(calls, If) /\ sched'[If].cnt = sched[If].cnt
        BY <1>1, <3>1, CoveredParts DEF IfCovered
      <4>2. Dones(calls', If) = Dones(calls, If) + (IF If = h THEN 1 ELSE 0) + 1
        BY <2>4
      <4>3. qlen \in Nat /\ Dones(calls, If) \in Nat
        BY <1>0, <1>2 DEF TypeOK
      <4> QED
        BY <2>1, <2>2, <4>1, <4>2, <4>3
    <3> QED
      BY <3>1 DEF IfCovered
  <2>7. ASSUME NEW g \in live' PROVE FaceCovered(g)'
    <3>1. g \in live /\ g \in Faces /\ g # If /\ Len(outq[g]) \in Nat
      BY <1>0, <1>1, FaceIsNotIf DEF TypeOK
    <3>2. Cardinality(RingOf(g)) = Cardinality(RingOf(g))' + (IF h = g THEN 1 ELSE 0)
      BY <2>5
    <3>3. Dones(calls', g) = Dones(calls, g) + (IF g = h THEN 1 ELSE 0) + (IF g = If THEN 1 ELSE 0)
      BY <2>4
    <3>4. Cardinality(RingOf(g)) \in Nat /\ Cardinality(RingOf(g))' \in Nat /\ Dones(calls, g) \in Nat
      <4>1. IsFiniteSet(1..qlen')
        <5>1. qlen' \in Int
          BY <1>0, <2>1 DEF TypeOK
        <5> QED
          BY <5>1, FS_Interval
      <4>2. IsFiniteSet(RingOf(g)')
        BY <4>1, FS_Subset DEF RingOf
      <4>3. Cardinality(RingOf(g))' \in Nat
        BY <4>2, FS_CardinalityType
      <4> QED
        BY <1>0, <1>2, <4>3, RingOfNat
    <3>5. ASSUME Kind[g] # "none"
          PROVE  sched'[g].cnt >= Len(outq'[g]) + Cardinality(RingOf(g))' + Dones(calls', g)
      <4>1. sched[g].cnt >= Len(outq[g]) + Cardinality(RingOf(g)) + Dones(calls, g)
        BY <3>1, <3>5, CoveredParts DEF FaceCovered
      <4>2. Cardinality(RingOf(g))' + Dones(calls', g) = Cardinality(RingOf(g)) + Dones(calls, g)
        BY <3>1, <3>2, <3>3, <3>4
      <4>3. outq' = outq /\ sched' = sched
        BY <1>1
      <4>4. Len(outq[g]) + (Cardinality(RingOf(g))' + Dones(calls', g))
              = Len(outq[g]) + Cardinality(RingOf(g))' + Dones(calls', g)
        <5>1. Dones(calls', g) \in Nat
          BY <3>3, <3>4
        <5> QED
          BY <3>1, <3>4, <5>1
      <4> QED
        BY <3>1, <3>4, <4>1, <4>2, <4>3, <4>4
    <3> QED
      BY <3>5 DEF FaceCovered
  <2> QED
    BY <2>6, <2>7 DEF Covered, IfCovered, FaceCovered
<1>5. qlen = 0 \/ qlen > 0
  BY <1>0 DEF TypeOK
<1> QED
  BY <1>3, <1>4, <1>5

(* ccnl_sched_CTS_done: the count goes down with the packet that is out. *)
LEMMA CtsDoneCovered ==
  ASSUME TypeOK, Covered, NEW s \in Sched, CtsDone(s)
  PROVE  Covered'
<1> DEFINE rest == Tail(calls)
<1>1. /\ calls # <<>> /\ Head(calls) = Done(s)
      /\ UNCHANGED <<live, outq, ring, qfront, qlen>>
  BY DEF CtsDone, queues
<1>2. ASSUME NEW x
      PROVE  /\ rest \in Seq(Call) /\ Dones(rest, x) \in Nat
             /\ Dones(calls, x) = Dones(rest, x) + (IF x = s THEN 1 ELSE 0)
  BY <1>1, DonesPop, DoneDiffer
<1>3. \/ Kind[s] = "none" /\ calls' = rest /\ sched' = sched
      \/ calls' = rest /\ sched' = [sched EXCEPT ![s].cnt = @ - 1]
      \/ Grant(s, sched[s].cnt - 1, rest)
  BY DEF CtsDone
<1> HIDE DEF rest
<1>4. \A x \in Sched : sched[x].cnt \in Int
  BY TypeParts
<1>5. ASSUME NEW x \in Sched
      PROVE  /\ Dones(calls', x) = Dones(rest, x)
             /\ x # s => sched'[x].cnt = sched[x].cnt
             /\ Kind[s] # "none" => sched'[s].cnt = sched[s].cnt - 1
  <2>1. CASE Kind[s] = "none" /\ calls' = rest /\ sched' = sched
    BY <2>1
  <2>2. CASE calls' = rest /\ sched' = [sched EXCEPT ![s].cnt = @ - 1]
    <3>1. sched \in [Sched -> [cnt : Int, next : Nat]]
      BY DEF TypeOK
    <3> QED
      BY <2>2, <3>1
  <2>3. CASE Grant(s, sched[s].cnt - 1, rest)
    <3>1. sched[s].cnt - 1 \in Int
      BY <1>4
    <3> QED
      BY <1>2, <2>3, <3>1, GrantCounts
  <2> QED
    BY <1>3, <2>1, <2>2, <2>3
<1>6. ASSUME NEW x \in Sched, Kind[x] # "none"
      PROVE  sched'[x].cnt - Dones(calls', x) = sched[x].cnt - Dones(calls, x)
  <2>1. CASE x = s
    <3>1. sched'[x].cnt = sched[x].cnt - 1 /\ Dones(calls, x) = Dones(rest, x) + 1 /\ Dones(calls', x) = Dones(rest, x)
      BY <1>2, <1>5, <1>6, <2>1
    <3> QED
      BY <1>2, <1>4, <3>1
  <2>2. CASE x # s
    <3>1. sched'[x].cnt = sched[x].cnt /\ Dones(calls, x) = Dones(rest, x) /\ Dones(calls', x) = Dones(rest, x)
      BY <1>2, <1>5, <1>6, <2>2
    <3> QED
      BY <3>1
  <2> QED
    BY <2>1, <2>2
<1>7. ASSUME NEW x \in Sched, Kind[x] # "none"
      PROVE  /\ sched[x].cnt \in Int /\ sched'[x].cnt \in Int
             /\ Dones(calls, x) \in Nat /\ Dones(calls', x) \in Nat
  <2>1. Dones(calls, x) \in Nat /\ Dones(calls', x) \in Nat
    BY <1>2, <1>5
  <2>2. sched'[x].cnt \in Int
    <3>1. CASE x = s
      BY <1>4, <1>5, <1>7, <3>1
    <3>2. CASE x # s
      BY <1>4, <1>5, <3>2
    <3> QED
      BY <3>1, <3>2
  <2> QED
    BY <1>4, <2>1, <2>2
<1>8. IfCovered'
  <2>1. ASSUME Kind[If] # "none" PROVE sched'[If].cnt = qlen' + Dones(calls', If)
    <3>1. If \in Sched /\ sched[If].cnt = qlen + Dones(calls, If) /\ qlen' = qlen /\ qlen \in Nat
      BY <1>1, <2>1, CoveredParts, TypeParts DEF IfCovered, Sched
    <3>2. sched'[If].cnt - Dones(calls', If) = sched[If].cnt - Dones(calls, If)
      BY <1>6, <2>1, <3>1
    <3>3. /\ sched[If].cnt \in Int /\ sched'[If].cnt \in Int
          /\ Dones(calls, If) \in Nat /\ Dones(calls', If) \in Nat
      BY <1>7, <2>1, <3>1
    <3> QED
      BY <3>1, <3>2, <3>3
  <2> QED
    BY <2>1 DEF IfCovered
<1>9. ASSUME NEW g \in live' PROVE FaceCovered(g)'
  <2>1. g \in live /\ g \in Sched /\ Len(outq[g]) \in Nat
    BY <1>1, TypeParts DEF Sched
  <2>2. RingOf(g)' = RingOf(g) /\ Cardinality(RingOf(g)) \in Nat
    BY <1>1, RingOfNat DEF RingOf, InRing
  <2>3. ASSUME Kind[g] # "none"
        PROVE  sched'[g].cnt >= Len(outq'[g]) + Cardinality(RingOf(g)) + Dones(calls', g)
    <3>1. sched[g].cnt >= Len(outq[g]) + Cardinality(RingOf(g)) + Dones(calls, g) /\ outq' = outq
      BY <1>1, <2>1, <2>3, CoveredParts DEF FaceCovered
    <3>2. sched'[g].cnt - Dones(calls', g) = sched[g].cnt - Dones(calls, g)
      BY <1>6, <2>1, <2>3
    <3>3. /\ sched[g].cnt \in Int /\ sched'[g].cnt \in Int
          /\ Dones(calls, g) \in Nat /\ Dones(calls', g) \in Nat
      BY <1>7, <2>1, <2>3
    <3> DEFINE a == sched[g].cnt
               b == sched'[g].cnt
               m == Len(outq[g])
               n == Cardinality(RingOf(g))
               d == Dones(calls, g)
               e == Dones(calls', g)
    <3>4. /\ a \in Int /\ b \in Int /\ m \in Nat /\ n \in Nat /\ d \in Nat /\ e \in Nat
          /\ a >= m + n + d /\ b - e = a - d
      BY <2>1, <2>2, <3>1, <3>2, <3>3
    <3> HIDE DEF a, b, m, n, d, e
    <3>5. b >= m + n + e
      BY <3>4
    <3>6. outq' = outq
      BY <3>1
    <3> QED
      BY <3>5, <3>6 DEF b, m, n, e
  <2> QED
    BY <2>2, <2>3 DEF FaceCovered
<1> QED
  BY <1>8, <1>9 DEF Covered, IfCovered, FaceCovered

LEMMA CoveredStep == TypeInv /\ TypeInv' /\ Covered /\ [Next]_vars => Covered'
<1> SUFFICES ASSUME TypeInv, TypeInv', Covered, [Next]_vars PROVE Covered'
  OBVIOUS
<1>0. TypeOK /\ TypeOK' /\ outq' \in [Faces -> Seq(Data)] /\ calls \in Seq(Call)
  BY DEF TypeInv, TypeOK
<1>1. ASSUME UNCHANGED <<ring, qfront, qlen, live, outq>>,
             \A x \in live \cup {If} : sched'[x].cnt = sched[x].cnt /\ Dones(calls', x) = Dones(calls, x)
      PROVE  Covered'
  <2>1. \A x \in live' : Len(outq'[x]) =< Len(outq[x])
    <3>1. \A x \in live : Len(outq[x]) \in Nat
      BY <1>0, TypeParts
    <3> QED
      BY <1>1, <3>1
  <2>2. Unsent
    BY <1>1, <2>1 DEF Unsent
  <2> QED
    BY <1>0, <2>2, UnsentCovered
<1>2. ASSUME NEW f \in Faces, NEW d \in Data, FaceEnqueue(f, d) PROVE Covered'
  BY <1>0, <1>2, FaceEnqueueCovered
<1>3. ASSUME NEW f \in Faces, FaceCts(f) PROVE Covered'
  BY <1>0, <1>3, FaceCtsCovered
<1>4. CASE InterfaceCts
  BY <1>4, InterfaceCtsCovered
<1>5. ASSUME NEW s \in Sched, CtsDone(s) PROVE Covered'
  BY <1>0, <1>5, CtsDoneCovered
<1>6. CASE CallFreed
  <2>1. /\ calls # <<>> /\ Head(calls).who \notin live \cup {If} /\ calls' = Tail(calls)
        /\ UNCHANGED <<outq, ring, qfront, qlen, live, sched>>
    BY <1>6 DEF CallFreed, queues
  <2>2. ASSUME NEW x \in live \cup {If} PROVE Dones(calls', x) = Dones(calls, x)
    <3>1. Head(calls) # Done(x)
      BY <2>1 DEF Done
    <3> QED
      BY <1>0, <2>1, <3>1, DonesPop
  <2> QED
    BY <1>1, <2>1, <2>2
<1>7. ASSUME NEW f \in Faces, FaceRemove(f) PROVE Covered'
  <2>1. /\ live' = live \ {f} /\ outq' = [outq EXCEPT ![f] = <<>>]
        /\ UNCHANGED <<ring, qfront, qlen, sched, calls>>
    BY <1>7 DEF FaceRemove
  <2>2. ASSUME NEW x \in live' PROVE Len(outq'[x]) =< Len(outq[x])
    <3>1. x \in Faces /\ x # f /\ outq \in [Faces -> Seq(Data)] /\ Len(outq[x]) \in Nat
      BY <1>0, <2>1, TypeParts
    <3>2. outq'[x] = outq[x]
      BY <2>1, <3>1
    <3> QED
      BY <3>1, <3>2
  <2>3. Unsent
    BY <2>1, <2>2 DEF Unsent
  <2> QED
    BY <1>0, <2>3, UnsentCovered
<1>8. CASE RunHandler \/ SocketWritable
  <2>1. PICK s \in Sched : calls = <<>> /\ calls' = <<Cts(s)>> /\ UNCHANGED <<outq, ring, qfront, qlen, live, sched>>
    <3>1. CASE RunHandler
      <4>1. Head(timers) \in Timer
        <5>1. timers \in Seq(Timer) /\ timers # <<>>
          BY <1>0, <3>1 DEF TypeOK, Timer, RunHandler
        <5> QED
          BY <5>1, HeadTailProperties
      <4>2. Head(timers).who \in Sched
        BY <4>1 DEF Timer
      <4> QED
        BY <3>1, <4>2 DEF RunHandler, queues
    <3>2. CASE SocketWritable
      BY <3>2 DEF SocketWritable, queues, Sched
    <3> QED
      BY <1>8, <3>1, <3>2
  <2>2. ASSUME NEW x PROVE Dones(calls', x) = Dones(calls, x)
    BY <2>1, DonesCts
  <2> QED
    BY <1>1, <2>1, <2>2
<1>9. CASE HandlerReturns \/ EndPass \/ EndRound
  BY <1>1, <1>9 DEF HandlerReturns, EndPass, EndRound, queues
<1>10. CASE Tick
  <2>1. UNCHANGED <<outq, ring, qfront, qlen, live, calls>>
    BY <1>10 DEF Tick, queues
  <2>2. ASSUME NEW x \in live \cup {If} PROVE sched'[x].cnt = sched[x].cnt
    <3>1. x \in Sched /\ sched \in [Sched -> [cnt : Int, next : Nat]]
      BY <1>0 DEF TypeOK, Sched
    <3>2. sched' = [s \in Sched |-> [sched[s] EXCEPT !.next = Down(@, 0)]]
      BY <1>10 DEF Tick
    <3> QED
      BY <3>1, <3>2
  <2> QED
    BY <1>1, <2>1, <2>2
<1>11. CASE UNCHANGED vars
  BY <1>1, <1>11 DEF vars, queues
<1> QED
  BY <1>2, <1>3, <1>4, <1>5, <1>6, <1>7, <1>8, <1>9, <1>10, <1>11 DEF Next, Callback

LEMMA CoveredInit == Init => Covered
<1> SUFFICES ASSUME Init PROVE Covered
  OBVIOUS
<1>1. /\ calls = <<>> /\ qlen = 0 /\ live = Faces /\ outq = [f \in Faces |-> <<>>]
      /\ sched = [s \in Sched |-> [cnt |-> 0, next |-> 0]]
  BY DEF Init
<1>2. \A x : Dones(calls, x) = 0
  BY <1>1, CallingNone DEF Dones
<1>3. ASSUME NEW f PROVE Cardinality(RingOf(f)) = 0
  <2>1. RingOf(f) = {}
    BY <1>1 DEF RingOf
  <2> QED
    BY <2>1, FS_EmptySet
<1>4. sched[If].cnt = 0 /\ \A f \in live : sched[f].cnt = 0 /\ Len(outq[f]) = 0
  BY <1>1 DEF Sched
<1> QED
  BY <1>1, <1>2, <1>3, <1>4 DEF Covered

(***************************************************************************)
(* The schedulers' counts cover what is queued, whichever packets a full   *)
(* ring drops: the interface's is exact, and a face's is never too small,  *)
(* so ccnl_sched_CTS_done keeps asking for another slot as long as a       *)
(* packet of the face is in its queue or in the ring.                      *)
(***************************************************************************)
THEOREM CountsSuffice == Spec => []CountsCover
<1>1. Covered => CountsCover
  BY DEF Covered, CountsCover, RingOf, Dones, Calling
<1>2. Init => Serves
  BY DEF Init, Serves
<1> QED
  BY <1>1, <1>2, TypeInit, TypeStep, ServesStep, CoveredInit, CoveredStep, PTL DEF Spec
-----------------------------------------------------------------------------
(* What is done to the second of two queues in a row is done to both as one. *)

LEMMA AppendBehind ==
  ASSUME NEW S, NEW p \in Seq(S), NEW q \in Seq(S), NEW d \in S
  PROVE  p \o Append(q, d) = Append(p \o q, d)
<1>1. /\ Append(q, d) \in Seq(S) /\ Len(Append(q, d)) = Len(q) + 1
      /\ \A i \in 1..Len(q) : Append(q, d)[i] = q[i]
      /\ Append(q, d)[Len(q) + 1] = d
  BY AppendProperties
<1> DEFINE a == Append(q, d)
<1> HIDE DEF a
<1> QED
  OBVIOUS

LEMMA HeadMoves ==
  ASSUME NEW S, NEW p \in Seq(S), NEW q \in Seq(S), q # <<>>
  PROVE  Append(p, Head(q)) \o Tail(q) = p \o q
<1>1. /\ Head(q) \in S /\ Head(q) = q[1] /\ Tail(q) \in Seq(S) /\ Len(Tail(q)) = Len(q) - 1
      /\ \A i \in 1..Len(Tail(q)) : Tail(q)[i] = q[i + 1]
  BY HeadTailProperties
<1> DEFINE t == Tail(q)
           h == Head(q)
           a == Append(p, h)
<1>2. t \in Seq(S) /\ h \in S /\ Len(t) = Len(q) - 1 /\ h = q[1] /\ \A i \in 1..Len(t) : t[i] = q[i + 1]
  BY <1>1
<1> HIDE DEF t, h
<1>3. /\ a \in Seq(S) /\ Len(a) = Len(p) + 1 /\ a[Len(p) + 1] = h
      /\ \A i \in 1..Len(p) : a[i] = p[i]
  BY <1>2, AppendProperties
<1> HIDE DEF a
<1>4. /\ a \o t \in Seq(S) /\ Len(a \o t) = Len(a) + Len(t)
      /\ \A i \in 1..Len(a) + Len(t) : (a \o t)[i] = IF i <= Len(a) THEN a[i] ELSE t[i - Len(a)]
  BY <1>2, <1>3, ConcatProperties
<1>5. /\ p \o q \in Seq(S) /\ Len(p \o q) = Len(p) + Len(q)
      /\ \A i \in 1..Len(p) + Len(q) : (p \o q)[i] = IF i <= Len(p) THEN p[i] ELSE q[i - Len(p)]
  BY ConcatProperties
<1>6. Len(p) \in Nat /\ Len(q) \in Nat /\ Len(q) > 0
  OBVIOUS
<1>7. ASSUME NEW i \in 1..Len(p) + Len(q) PROVE (a \o t)[i] = (p \o q)[i]
  <2>1. CASE i <= Len(p)
    BY <1>2, <1>3, <1>4, <1>5, <1>6, <2>1
  <2>2. CASE i = Len(p) + 1
    BY <1>2, <1>3, <1>4, <1>5, <1>6, <2>2
  <2>3. CASE i > Len(p) + 1
    <3>1. i - Len(a) \in 1..Len(t) /\ (i - Len(a)) + 1 = i - Len(p) /\ ~ (i <= Len(a)) /\ ~ (i <= Len(p))
      BY <1>2, <1>3, <1>6, <2>3
    <3>2. t[i - Len(a)] = q[i - Len(p)]
      BY <1>2, <3>1
    <3> QED
      BY <1>2, <1>3, <1>4, <1>5, <1>6, <3>1, <3>2
  <2>4. i <= Len(p) \/ i = Len(p) + 1 \/ i > Len(p) + 1
    BY <1>6
  <2> QED
    BY <2>1, <2>2, <2>3, <2>4, Zenon
<1>8. Len(a \o t) = Len(p) + Len(q)
  BY <1>2, <1>3, <1>4, <1>6
<1>9. a \o t = p \o q
  BY <1>4, <1>5, <1>7, <1>8, SeqEqual
<1> QED
  BY <1>9 DEF a, t, h

LEMMA HeadLost ==
  ASSUME NEW S, NEW p \in Seq(S), NEW q \in Seq(S), q # <<>>
  PROVE  /\ Len(p) + 1 \in 1..Len(p \o q)
         /\ RemoveAt(p \o q, Len(p) + 1) = p \o Tail(q)
<1> DEFINE s == p \o q
           n == Len(p)
           t == Tail(q)
           a == SubSeq(s, 1, n)
           b == SubSeq(s, n + 2, Len(s))
<1>1. n \in Nat /\ Len(q) \in Nat /\ Len(q) > 0
  OBVIOUS
<1>2. /\ s \in Seq(S) /\ Len(s) = n + Len(q)
      /\ \A i \in 1..n + Len(q) : s[i] = IF i <= n THEN p[i] ELSE q[i - n]
  BY ConcatProperties
<1>3. t \in Seq(S) /\ Len(t) = Len(q) - 1 /\ \A i \in 1..Len(t) : t[i] = q[i + 1]
  BY HeadTailProperties
<1> HIDE DEF s, t
<1>4. a = p
  <2>1. /\ a \in Seq(S) /\ Len(a) = IF 1 <= n THEN n - 1 + 1 ELSE 0
        /\ \A i \in 1..n - 1 + 1 : a[i] = s[1 + i - 1]
    <3>1. \A i \in 1..n : s[i] \in S
      BY <1>1, <1>2
    <3> QED
      BY <1>1, <3>1, SubSeqProperties
  <2> HIDE DEF a
  <2>2. Len(a) = n /\ \A i \in 1..n : a[i] = s[i]
    <3>1. Len(a) = n
      BY <1>1, <2>1
    <3>2. ASSUME NEW i \in 1..n PROVE a[i] = s[i]
      <4>1. i \in 1..n - 1 + 1 /\ 1 + i - 1 = i
        BY <1>1
      <4> QED
        BY <2>1, <4>1
    <3> QED
      BY <3>1, <3>2
  <2>3. ASSUME NEW i \in 1..n PROVE a[i] = p[i]
    BY <1>1, <1>2, <2>2
  <2> HIDE DEF n
  <2> QED
    BY <2>1, <2>2, <2>3, SeqEqual DEF n
<1>5. b = t
  <2>0. Len(s) \in Nat /\ Len(s) = n + Len(q)
    BY <1>1, <1>2
  <2>1. /\ b \in Seq(S) /\ Len(b) = IF n + 2 <= Len(s) THEN Len(s) - (n + 2) + 1 ELSE 0
        /\ \A i \in 1..Len(s) - (n + 2) + 1 : b[i] = s[n + 2 + i - 1]
    <3>1. \A i \in n + 2..Len(s) : s[i] \in S
      BY <1>1, <1>2
    <3> HIDE DEF n
    <3> QED
      BY <1>1, <2>0, <3>1, SubSeqProperties
  <2> HIDE DEF b
  <2>2. Len(b) = Len(t)
    BY <1>1, <1>3, <2>0, <2>1
  <2>3. ASSUME NEW i \in 1..Len(t) PROVE b[i] = t[i]
    <3>1. i \in 1..Len(s) - (n + 2) + 1 /\ n + 2 + i - 1 = n + (i + 1) /\ n + (i + 1) \in 1..n + Len(q)
          /\ ~ (n + (i + 1) <= n) /\ (n + (i + 1)) - n = i + 1
      BY <1>1, <1>3, <2>0
    <3>2. b[i] = s[n + (i + 1)]
      BY <2>1, <3>1
    <3>3. s[n + (i + 1)] = q[i + 1]
      BY <1>2, <3>1
    <3> QED
      BY <1>3, <3>2, <3>3
  <2> QED
    BY <1>3, <2>1, <2>2, <2>3, SeqEqual
<1>6. RemoveAt(s, n + 1) = a \o b
  <2>1. (n + 1) - 1 = n /\ (n + 1) + 1 = n + 2
    BY <1>1
  <2> HIDE DEF n
  <2> QED
    BY <2>1 DEF RemoveAt
<1>7. n + 1 \in 1..Len(s)
  BY <1>1, <1>2
<1> QED
  BY <1>4, <1>5, <1>6, <1>7 DEF s, t

LEMMA QueueCut ==
  ASSUME NEW S, NEW p \in Seq(S), NEW q \in Seq(S), q # <<>>
  PROVE  /\ Len(p) + 1 \in 1..Len(p \o q)
         /\ SubSeq(p \o q, 1, (Len(p) + 1) - 1) = p \o <<>>
<1> DEFINE s == p \o q
           n == Len(p)
           a == SubSeq(s, 1, n)
<1>1. n \in Nat /\ Len(q) \in Nat /\ Len(q) > 0
  OBVIOUS
<1>2. /\ s \in Seq(S) /\ Len(s) = n + Len(q)
      /\ \A i \in 1..n + Len(q) : s[i] = IF i <= n THEN p[i] ELSE q[i - n]
  BY ConcatProperties
<1> HIDE DEF s
<1>3. /\ a \in Seq(S) /\ Len(a) = IF 1 <= n THEN n - 1 + 1 ELSE 0
      /\ \A i \in 1..n - 1 + 1 : a[i] = s[1 + i - 1]
  <2>1. \A i \in 1..n : s[i] \in S
    BY <1>1, <1>2
  <2> QED
    BY <1>1, <2>1, SubSeqProperties
<1> HIDE DEF a
<1>4. Len(a) = n
  BY <1>1, <1>3
<1>5. ASSUME NEW i \in 1..n PROVE a[i] = p[i]
  <2>1. i \in 1..n - 1 + 1 /\ 1 + i - 1 = i /\ i \in 1..n + Len(q) /\ i <= n
    BY <1>1
  <2> QED
    BY <1>2, <1>3, <2>1
<1>6. (n + 1) - 1 = n /\ n + 1 \in 1..Len(s)
  BY <1>1, <1>2
<1>7. a = p
  <2> HIDE DEF n
  <2> QED
    BY <1>3, <1>4, <1>5, SeqEqual DEF n
<1>8. p \o <<>> = p
  BY ConcatEmptySeq
<1> QED
  BY <1>6, <1>7, <1>8 DEF s, a

LEMMA HeadSent ==
  ASSUME NEW S, NEW p \in Seq(S), NEW q \in Seq(S), NEW d \in S
  PROVE  /\ (<<d>> \o p) \o q # <<>>
         /\ Head((<<d>> \o p) \o q) = d
         /\ Tail((<<d>> \o p) \o q) = p \o q
<1>1. <<d>> \in Seq(S)
  OBVIOUS
<1> DEFINE s == p \o q
<1>2. (<<d>> \o p) \o q = <<d>> \o s /\ s \in Seq(S)
  BY <1>1, ConcatAssociative, ConcatProperties
<1> HIDE DEF s
<1>3. <<d>> \o s # <<>> /\ Head(<<d>> \o s) = d /\ Tail(<<d>> \o s) = s
  BY <1>2
<1> QED
  BY <1>2, <1>3 DEF s
-----------------------------------------------------------------------------
(***************************************************************************)
(* What is for a face in a sequence of requests: PacketsFor is recursive,  *)
(* so these lemmas argue by the least number for which they fail.          *)
(***************************************************************************)
LEMMA LeastNat ==
  ASSUME NEW B \in SUBSET Nat, B # {}
  PROVE  \E n \in B : \A k \in Nat : k < n => k \notin B
<1>1. PICK n \in B : \A b \in B : ~ (<<b, n>> \in OpToRel(<, Nat))
  BY WFMin, NatLessThanWellFounded
<1>2. \A b \in B : ~ (b < n)
  BY <1>1 DEF OpToRel
<1> QED
  BY <1>2

IsUpTo(g, f, s, n) ==
  g = [k \in 0..n |->
         IF k = 0 THEN <<>>
         ELSE IF s[k].face = f THEN Append(g[k - 1], s[k].data) ELSE g[k - 1]]

LEMMA UpToExists == ASSUME NEW f, NEW s, NEW n \in Nat PROVE \E g : IsUpTo(g, f, s, n)
<1> DEFINE Bad == {m \in Nat : ~ \E g : IsUpTo(g, f, s, m)}
<1>1. SUFFICES ASSUME Bad # {} PROVE FALSE
  OBVIOUS
<1>0. Bad \in SUBSET Nat
  OBVIOUS
<1>2. PICK m \in Bad : \A k \in Nat : k < m => k \notin Bad
  <2> HIDE DEF Bad
  <2> QED
    BY <1>0, <1>1, LeastNat
<1>3. m # 0
  <2>1. IsUpTo([k \in 0..0 |-> <<>>], f, s, 0)
    BY DEF IsUpTo
  <2> QED
    BY <2>1
<1>4. m - 1 \in Nat /\ m - 1 < m
  BY <1>3
<1>5. PICK g : IsUpTo(g, f, s, m - 1)
  BY <1>2, <1>4
<1> DEFINE last == IF s[m].face = f THEN Append(g[m - 1], s[m].data) ELSE g[m - 1]
           h == [k \in 0..m |-> IF k = m THEN last ELSE g[k]]
<1>6. \A k \in 0..m - 1 : g[k] = IF k = 0 THEN <<>>
         ELSE IF s[k].face = f THEN Append(g[k - 1], s[k].data) ELSE g[k - 1]
  BY <1>5 DEF IsUpTo
<1>7. \A k \in 0..m - 1 : h[k] = g[k]
  BY <1>4
<1>8. h[m] = last /\ h = [k \in 0..m |-> h[k]]
  OBVIOUS
<1> HIDE DEF h
<1>9. \A k \in 0..m : h[k] = IF k = 0 THEN <<>>
         ELSE IF s[k].face = f THEN Append(h[k - 1], s[k].data) ELSE h[k - 1]
  <2>1. ASSUME NEW k \in 0..m, k # m
        PROVE  h[k] = IF k = 0 THEN <<>>
                 ELSE IF s[k].face = f THEN Append(h[k - 1], s[k].data) ELSE h[k - 1]
    <3>1. k \in 0..m - 1 /\ (k # 0 => k - 1 \in 0..m - 1)
      BY <1>4, <2>1
    <3> QED
      BY <1>6, <1>7, <3>1
  <2>2. h[m] = IF s[m].face = f THEN Append(h[m - 1], s[m].data) ELSE h[m - 1]
    <3>1. h[m - 1] = g[m - 1]
      BY <1>4, <1>7
    <3> QED
      BY <1>8, <3>1
  <2> QED
    BY <1>3, <2>1, <2>2
<1>10. IsUpTo(h, f, s, m)
  BY <1>8, <1>9 DEF IsUpTo
<1> QED
  BY <1>10

LEMMA PacketsForIs ==
  ASSUME NEW f, NEW s \in Seq(Request)
  PROVE  \E g : /\ PacketsFor(f, s) = g[Len(s)] /\ g[0] = <<>>
                /\ \A k \in 1..Len(s) :
                     g[k] = IF s[k].face = f THEN Append(g[k - 1], s[k].data) ELSE g[k - 1]
<1> DEFINE g == CHOOSE h : IsUpTo(h, f, s, Len(s))
<1>1. IsUpTo(g, f, s, Len(s))
  BY UpToExists
<1>2. PacketsFor(f, s) = g[Len(s)]
  BY DEF PacketsFor, IsUpTo
<1> HIDE DEF g
<1>3. /\ g[0] = <<>>
      /\ \A k \in 1..Len(s) :
           g[k] = IF s[k].face = f THEN Append(g[k - 1], s[k].data) ELSE g[k - 1]
  <2>1. Len(s) \in Nat
    OBVIOUS
  <2>2. \A k \in 0..Len(s) : g[k] = IF k = 0 THEN <<>>
           ELSE IF s[k].face = f THEN Append(g[k - 1], s[k].data) ELSE g[k - 1]
    BY <1>1 DEF IsUpTo
  <2>3. 0 \in 0..Len(s) /\ \A k \in 1..Len(s) : k \in 0..Len(s) /\ k # 0
    BY <2>1
  <2> QED
    BY <2>2, <2>3
<1> QED
  BY <1>2, <1>3

LEMMA PacketsForType == ASSUME NEW f, NEW s \in Seq(Request) PROVE PacketsFor(f, s) \in Seq(Data)
<1>1. PICK g :
        /\ PacketsFor(f, s) = g[Len(s)] /\ g[0] = <<>>
        /\ \A k \in 1..Len(s) :
             g[k] = IF s[k].face = f THEN Append(g[k - 1], s[k].data) ELSE g[k - 1]
  BY PacketsForIs
<1> DEFINE Bad == {k \in 0..Len(s) : g[k] \notin Seq(Data)}
<1>2. Bad # {} => FALSE
  <2>1. SUFFICES ASSUME Bad # {} PROVE FALSE
    OBVIOUS
  <2>0. Bad \in SUBSET Nat
    OBVIOUS
  <2>2. PICK k \in Bad : \A j \in Nat : j < k => j \notin Bad
    <3> HIDE DEF Bad
    <3> QED
      BY <2>0, <2>1, LeastNat
  <2>3. k \in 1..Len(s) /\ k - 1 \in 0..Len(s) /\ k - 1 \in Nat /\ k - 1 < k
    <3>1. k \in 0..Len(s) /\ g[k] \notin Seq(Data) /\ g[0] \in Seq(Data) /\ Len(s) \in Nat
      BY <1>1, <2>2
    <3>2. k # 0
      BY <3>1
    <3> QED
      BY <3>1, <3>2
  <2>4. g[k - 1] \in Seq(Data)
    BY <2>2, <2>3
  <2>5. s[k].data \in Data
    <3>1. s[k] \in Request
      BY <2>3, ElementOfSeq
    <3> QED
      BY <3>1 DEF Request
  <2>6. g[k] = IF s[k].face = f THEN Append(g[k - 1], s[k].data) ELSE g[k - 1]
    BY <1>1, <2>3
  <2>7. g[k] \in Seq(Data)
    BY <2>4, <2>5, <2>6
  <2> QED
    BY <2>2, <2>7
<1>3. Len(s) \in 0..Len(s)
  OBVIOUS
<1> QED
  BY <1>1, <1>2, <1>3

LEMMA PacketsForNone == ASSUME NEW f PROVE PacketsFor(f, <<>>) = <<>>
<1>1. <<>> \in Seq(Request) /\ Len(<<>>) = 0
  OBVIOUS
<1>2. ASSUME NEW e \in Seq(Request), Len(e) = 0
      PROVE  PacketsFor(f, e) = <<>>
  <2>1. PICK g :
          /\ PacketsFor(f, e) = g[Len(e)] /\ g[0] = <<>>
          /\ \A k \in 1..Len(e) :
               g[k] = IF e[k].face = f THEN Append(g[k - 1], e[k].data) ELSE g[k - 1]
    BY PacketsForIs
  <2> QED
    BY <1>2, <2>1
<1> QED
  BY <1>1, <1>2

LEMMA PacketsForAppend ==
  ASSUME NEW f, NEW s \in Seq(Request), NEW r \in Request
  PROVE  PacketsFor(f, Append(s, r)) =
           IF r.face = f THEN Append(PacketsFor(f, s), r.data) ELSE PacketsFor(f, s)
<1> DEFINE t == Append(s, r)
<1>1. /\ t \in Seq(Request) /\ Len(t) = Len(s) + 1 /\ Len(s) \in Nat /\ t[Len(s) + 1] = r
      /\ \A k \in 1..Len(s) : t[k] = s[k]
  OBVIOUS
<1> HIDE DEF t
<1>2. PICK g :
        /\ PacketsFor(f, s) = g[Len(s)] /\ g[0] = <<>>
        /\ \A k \in 1..Len(s) :
             g[k] = IF s[k].face = f THEN Append(g[k - 1], s[k].data) ELSE g[k - 1]
  BY PacketsForIs
<1>3. PICK h :
        /\ PacketsFor(f, t) = h[Len(t)] /\ h[0] = <<>>
        /\ \A k \in 1..Len(t) :
             h[k] = IF t[k].face = f THEN Append(h[k - 1], t[k].data) ELSE h[k - 1]
  BY <1>1, PacketsForIs
<1> DEFINE Bad == {k \in 0..Len(s) : g[k] # h[k]}
<1>4. Bad # {} => FALSE
  <2>1. SUFFICES ASSUME Bad # {} PROVE FALSE
    OBVIOUS
  <2>0. Bad \in SUBSET Nat
    OBVIOUS
  <2>2. PICK k \in Bad : \A j \in Nat : j < k => j \notin Bad
    <3> HIDE DEF Bad
    <3> QED
      BY <2>0, <2>1, LeastNat
  <2>3. k \in 1..Len(s) /\ k - 1 \in 0..Len(s) /\ k - 1 \in Nat /\ k - 1 < k /\ k \in 1..Len(t)
    <3>1. k \in 0..Len(s) /\ g[k] # h[k] /\ g[0] = h[0]
      BY <1>2, <1>3, <2>2
    <3>2. k # 0
      BY <3>1
    <3> QED
      BY <1>1, <3>1, <3>2
  <2>4. g[k - 1] = h[k - 1] /\ t[k] = s[k]
    BY <1>1, <2>2, <2>3
  <2>5. /\ g[k] = IF s[k].face = f THEN Append(g[k - 1], s[k].data) ELSE g[k - 1]
        /\ h[k] = IF t[k].face = f THEN Append(h[k - 1], t[k].data) ELSE h[k - 1]
    BY <1>2, <1>3, <2>3
  <2>6. g[k] = h[k]
    BY <2>4, <2>5
  <2> QED
    BY <2>2, <2>6
<1>5. g[Len(s)] = h[Len(s)]
  BY <1>1, <1>4
<1>6. Len(t) \in 1..Len(t) /\ Len(t) - 1 = Len(s)
  BY <1>1
<1>7. h[Len(t)] = IF r.face = f THEN Append(h[Len(s)], r.data) ELSE h[Len(s)]
  BY <1>1, <1>3, <1>6
<1> QED
  BY <1>2, <1>3, <1>5, <1>7 DEF t

LEMMA PacketsForTail ==
  ASSUME NEW f, NEW s \in Seq(Request), s # <<>>
  PROVE  PacketsFor(f, s) =
           (IF Head(s).face = f THEN <<Head(s).data>> ELSE <<>>) \o PacketsFor(f, Tail(s))
<1> DEFINE t == Tail(s)
           first == IF Head(s).face = f THEN <<Head(s).data>> ELSE <<>>
<1>1. /\ t \in Seq(Request) /\ Len(t) = Len(s) - 1 /\ Len(s) \in Nat \ {0} /\ Head(s) = s[1]
      /\ \A k \in 1..Len(t) : t[k] = s[k + 1]
  OBVIOUS
<1>2. first \in Seq(Data)
  <2>1. 1 \in 1..Len(s) /\ Head(s) = s[1]
    BY <1>1
  <2>2. s[1] \in Request
    BY <2>1, ElementOfSeq
  <2>3. s[1].data \in Data
    BY <2>2 DEF Request
  <2> QED
    BY <2>1, <2>3
<1> HIDE DEF t
<1>3. PICK g :
        /\ PacketsFor(f, s) = g[Len(s)] /\ g[0] = <<>>
        /\ \A k \in 1..Len(s) :
             g[k] = IF s[k].face = f THEN Append(g[k - 1], s[k].data) ELSE g[k - 1]
  BY PacketsForIs
<1>4. PICK h :
        /\ PacketsFor(f, t) = h[Len(t)] /\ h[0] = <<>>
        /\ \A k \in 1..Len(t) :
             h[k] = IF t[k].face = f THEN Append(h[k - 1], t[k].data) ELSE h[k - 1]
  BY <1>1, PacketsForIs
<1> DEFINE Good(k) == h[k] \in Seq(Data) /\ g[k + 1] = first \o h[k]
           Bad == {k \in 0..Len(t) : ~ Good(k)}
<1>5. Good(0)
  <2>1. 1 \in 1..Len(s) /\ 1 - 1 = 0
    BY <1>1
  <2>2. g[1] = IF s[1].face = f THEN Append(<<>>, s[1].data) ELSE <<>>
    BY <1>3, <2>1
  <2>3. first = IF s[1].face = f THEN <<s[1].data>> ELSE <<>>
    BY <1>1
  <2> HIDE DEF first
  <2> QED
    BY <1>2, <1>4, <2>2, <2>3
<1> HIDE DEF first
<1>6. Bad # {} => FALSE
  <2>1. SUFFICES ASSUME Bad # {} PROVE FALSE
    OBVIOUS
  <2>0. Bad \in SUBSET Nat
    OBVIOUS
  <2>2. PICK k \in Bad : \A j \in Nat : j < k => j \notin Bad
    <3> HIDE DEF Bad
    <3> QED
      BY <2>0, <2>1, LeastNat
  <2>3. /\ k \in 1..Len(t) /\ k - 1 \in 0..Len(t) /\ k - 1 \in Nat /\ k - 1 < k
        /\ k + 1 \in 1..Len(s) /\ (k + 1) - 1 = k /\ (k - 1) + 1 = k
    <3> HIDE DEF Good
    <3>1. k \in 0..Len(t) /\ ~ Good(k)
      BY <2>2
    <3>2. k # 0
      BY <1>5, <3>1
    <3> QED
      BY <1>1, <3>1, <3>2
  <2>4. Good(k - 1)
    <3> HIDE DEF Good
    <3> QED
      BY <2>2, <2>3
  <2>5. t[k] = s[k + 1] /\ t[k].data \in Data
    <3>1. t[k] \in Request
      BY <1>1, <2>3, ElementOfSeq
    <3>2. t[k].data \in Data
      BY <3>1 DEF Request
    <3> QED
      BY <1>1, <2>3, <3>2
  <2>6. h[k - 1] \in Seq(Data) /\ g[k] = first \o h[k - 1]
    <3>1. h[k - 1] \in Seq(Data) /\ g[(k - 1) + 1] = first \o h[k - 1]
      BY <2>4
    <3>2. (k - 1) + 1 = k
      BY <2>3
    <3> QED
      BY <3>1, <3>2
  <2>7. h[k] = IF t[k].face = f THEN Append(h[k - 1], t[k].data) ELSE h[k - 1]
    BY <1>4, <2>3
  <2>8. g[k + 1] = IF t[k].face = f THEN Append(g[k], t[k].data) ELSE g[k]
    <3>1. g[k + 1] = IF s[k + 1].face = f THEN Append(g[(k + 1) - 1], s[k + 1].data) ELSE g[(k + 1) - 1]
      BY <1>3, <2>3
    <3>2. (k + 1) - 1 = k
      BY <2>3
    <3> QED
      BY <2>5, <3>1, <3>2
  <2>9. first \o Append(h[k - 1], t[k].data) = Append(first \o h[k - 1], t[k].data)
    BY <1>2, <2>5, <2>6, AppendBehind
  <2>10. Good(k)
    <3>1. CASE t[k].face = f
      <4>1. h[k] = Append(h[k - 1], t[k].data) /\ g[k + 1] = Append(g[k], t[k].data)
        BY <2>7, <2>8, <3>1
      <4>2. h[k] \in Seq(Data)
        BY <2>5, <2>6, <4>1
      <4>3. g[k + 1] = first \o h[k]
        BY <2>6, <2>9, <4>1
      <4> QED
        BY <4>2, <4>3
    <3>2. CASE t[k].face # f
      BY <2>6, <2>7, <2>8, <3>2
    <3> QED
      BY <3>1, <3>2
  <2> HIDE DEF Good
  <2> QED
    BY <2>2, <2>10
<1>7. Good(Len(t)) /\ Len(t) + 1 = Len(s)
  <2>1. Len(t) \in 0..Len(t) /\ Len(t) + 1 = Len(s)
    BY <1>1
  <2> HIDE DEF Good
  <2> QED
    BY <1>6, <2>1
<1> QED
  BY <1>3, <1>4, <1>7 DEF t, first
-----------------------------------------------------------------------------
(* The ring as a queue *)

LEMMA RingSeq == ASSUME TypeInv PROVE InRing \in Seq(Request) /\ Len(InRing) = qlen
<1>1. QLen \in Nat \ {0} /\ qlen \in 0..QLen /\ qlen \in Nat /\ qfront \in Slots /\ qfront \in 0..QLen - 1
  BY LimitsAssumption DEF TypeInv, TypeOK, Slots
<1>2. ASSUME NEW k \in 1..qlen PROVE ring[(qfront + k - 1) % QLen] \in Request
  <2>1. k - 1 \in 0..qlen - 1 /\ qfront + (k - 1) = qfront + k - 1
    BY <1>1
  <2>2. ring[(qfront + (k - 1)) % QLen] \in Request
    BY <2>1 DEF TypeInv, RingFilled
  <2> QED
    BY <2>1, <2>2
<1> QED
  BY <1>1, <1>2 DEF InRing

LEMMA RingAppended ==
  ASSUME TypeInv, NEW r \in Request, ~ RingFull,
         ring' = [ring EXCEPT ![FreeSlot] = r], qlen' = qlen + 1, qfront' = qfront
  PROVE  InRing' = Append(InRing, r)
<1>1. InRing \in Seq(Request) /\ Len(InRing) = qlen /\ qlen \in Nat
  BY RingSeq DEF TypeInv, TypeOK
<1>2. (\A k \in 1..qlen : InRing'[k] = InRing[k]) /\ InRing'[qlen + 1] = r
  BY PlacesPut
<1>3. InRing' \in Seq(Request) /\ Len(InRing') = qlen + 1
  <2>1. ASSUME NEW k \in 1..qlen + 1 PROVE InRing'[k] \in Request
    <3>1. CASE k \in 1..qlen
      BY <1>1, <1>2, <3>1, ElementOfSeq
    <3>2. CASE k = qlen + 1
      BY <1>2, <3>2
    <3> QED
      BY <1>1, <3>1, <3>2
  <2>2. InRing' = [k \in 1..qlen + 1 |-> InRing'[k]]
    BY DEF InRing
  <2> DEFINE q == InRing'
  <2> HIDE DEF q
  <2>3. q \in [1..qlen + 1 -> Request]
    BY <2>1, <2>2 DEF q
  <2>4. qlen + 1 \in Nat
    BY <1>1
  <2>5. q \in Seq(Request) /\ Len(q) = qlen + 1
    BY <2>3, <2>4
  <2> QED
    BY <2>5 DEF q
<1> DEFINE p == InRing
           q == InRing'
<1> HIDE DEF p, q
<1>4. p \in Seq(Request) /\ Len(p) = qlen /\ qlen \in Nat /\ q \in Seq(Request) /\ Len(q) = qlen + 1
  BY <1>1, <1>3 DEF p, q
<1>5. (\A k \in 1..qlen : q[k] = p[k]) /\ q[qlen + 1] = r
  BY <1>2 DEF p, q
<1>6. /\ Append(p, r) \in Seq(Request) /\ Len(Append(p, r)) = qlen + 1
      /\ \A k \in 1..qlen + 1 : q[k] = Append(p, r)[k]
  BY <1>4, <1>5
<1>7. q = Append(p, r)
  BY <1>4, <1>6, SeqEqual
<1> QED
  BY <1>7 DEF p, q

LEMMA RingTaken ==
  ASSUME TypeInv, qlen > 0, qfront' = (qfront + 1) % QLen, qlen' = qlen - 1,
         ring' = [ring EXCEPT ![qfront] = Nothing]
  PROVE  InRing # <<>> /\ Head(InRing) = ring[qfront] /\ InRing' = Tail(InRing)
<1>1. InRing \in Seq(Request) /\ Len(InRing) = qlen /\ qlen \in Nat
  BY RingSeq DEF TypeInv, TypeOK
<1>2. (\A k \in 1..qlen - 1 : InRing'[k] = InRing[k + 1]) /\ InRing[1] = ring[qfront]
  BY PlacesGet
<1>3. InRing' \in Seq(Request) /\ Len(InRing') = qlen - 1
  <2>1. ASSUME NEW k \in 1..qlen - 1 PROVE InRing'[k] \in Request
    <3>1. k + 1 \in 1..Len(InRing)
      BY <1>1
    <3>2. InRing[k + 1] \in Request
      BY <1>1, <3>1, ElementOfSeq
    <3> QED
      BY <1>2, <3>2
  <2>2. InRing' = [k \in 1..qlen - 1 |-> InRing'[k]]
    BY DEF InRing
  <2> DEFINE q == InRing'
  <2> HIDE DEF q
  <2>3. q \in [1..qlen - 1 -> Request]
    BY <2>1, <2>2 DEF q
  <2>4. qlen - 1 \in Nat
    BY <1>1
  <2>5. q \in Seq(Request) /\ Len(q) = qlen - 1
    BY <2>3, <2>4
  <2> QED
    BY <2>5 DEF q
<1> DEFINE p == InRing
           q == InRing'
<1> HIDE DEF p, q
<1>4. p \in Seq(Request) /\ Len(p) = qlen /\ qlen \in Nat /\ q \in Seq(Request) /\ Len(q) = qlen - 1
  BY <1>1, <1>3 DEF p, q
<1>5. (\A k \in 1..qlen - 1 : q[k] = p[k + 1]) /\ p[1] = ring[qfront]
  BY <1>2 DEF p, q
<1>6. p # <<>> /\ Head(p) = ring[qfront]
  BY <1>4, <1>5
<1>7. /\ Tail(p) \in Seq(Request) /\ Len(Tail(p)) = qlen - 1
      /\ \A k \in 1..qlen - 1 : q[k] = Tail(p)[k]
  BY <1>4, <1>5, <1>6, HeadTailProperties
<1>8. q = Tail(p)
  BY <1>4, <1>7, SeqEqual
<1> QED
  BY <1>6, <1>8 DEF p, q
-----------------------------------------------------------------------------
(* Each step of the path is one of the queues that LossyFifo describes. *)

(* The queue of face f that the mapping shows: what is for f in the ring, then its own queue *)
FifoOf(f) == PacketsFor(f, InRing) \o outq[f]

LEMMA FifoType ==
  ASSUME TypeInv, NEW f \in Faces
  PROVE  PacketsFor(f, InRing) \in Seq(Data) /\ outq[f] \in Seq(Data) /\ FifoOf(f) \in Seq(Data)
<1>1. InRing \in Seq(Request) /\ outq[f] \in Seq(Data)
  BY RingSeq DEF TypeInv, TypeOK
<1>2. PacketsFor(f, InRing) \in Seq(Data)
  BY <1>1, PacketsForType
<1> QED
  BY <1>1, <1>2, ConcatProperties DEF FifoOf

LEMMA RestStep ==
  ASSUME wire' = Nothing, \A f \in Faces : FifoOf(f)' = FifoOf(f)
  PROVE  Q!Next
<1>1. [f \in Faces |-> FifoOf(f)]' = [f \in Faces |-> FifoOf(f)]
  OBVIOUS
<1>2. Q!Rest
  BY <1>1 DEF Q!Rest, FifoOf
<1> QED
  BY <1>2 DEF Q!Next

LEMMA OneStep ==
  ASSUME NEW f \in Faces, NEW q, FifoOf(f)' = q, \A g \in Faces \ {f} : FifoOf(g)' = FifoOf(g)
  PROVE  [g \in Faces |-> FifoOf(g)]' = [[g \in Faces |-> FifoOf(g)] EXCEPT ![f] = q]
OBVIOUS

LEMMA PutStep ==
  ASSUME NEW f \in Faces, NEW d \in Data, wire' = Nothing, FifoOf(f)' = Append(FifoOf(f), d),
         \A g \in Faces \ {f} : FifoOf(g)' = FifoOf(g)
  PROVE  Q!Next
<1>1. [g \in Faces |-> FifoOf(g)]'
        = [[g \in Faces |-> FifoOf(g)] EXCEPT ![f] = Append(FifoOf(f), d)]
  BY OneStep
<1>2. Q!Put(f, d)
  BY <1>1 DEF Q!Put, FifoOf
<1> QED
  BY <1>2 DEF Q!Next
LEMMA LoseStep ==
  ASSUME NEW f \in Faces, NEW i \in 1..Len(FifoOf(f)), wire' = Nothing,
         FifoOf(f)' = RemoveAt(FifoOf(f), i),
         \A g \in Faces \ {f} : FifoOf(g)' = FifoOf(g)
  PROVE  Q!Next
<1>1. [g \in Faces |-> FifoOf(g)]'
        = [[g \in Faces |-> FifoOf(g)] EXCEPT ![f] = RemoveAt(FifoOf(f), i)]
  BY OneStep
<1>2. Q!Lose(f, i)
  <2>1. Q!RemoveAt(FifoOf(f), i) = RemoveAt(FifoOf(f), i)
    BY DEF Q!RemoveAt, RemoveAt
  <2> QED
    BY <1>1, <2>1 DEF Q!Lose, FifoOf
<1>3. i \in 1..Len([g \in Faces |-> FifoOf(g)][f])
  OBVIOUS
<1> QED
  BY <1>2, <1>3 DEF Q!Next, FifoOf

LEMMA CutStep ==
  ASSUME NEW f \in Faces, NEW i \in 1..Len(FifoOf(f)), wire' = Nothing,
         FifoOf(f)' = SubSeq(FifoOf(f), 1, i - 1),
         \A g \in Faces \ {f} : FifoOf(g)' = FifoOf(g)
  PROVE  Q!Next
<1>1. [g \in Faces |-> FifoOf(g)]'
        = [[g \in Faces |-> FifoOf(g)] EXCEPT ![f] = SubSeq(FifoOf(f), 1, i - 1)]
  BY OneStep
<1>2. Q!Cut(f, i - 1)
  BY <1>1 DEF Q!Cut, FifoOf
<1>3. i \in 1..Len([g \in Faces |-> FifoOf(g)][f])
  OBVIOUS
<1> QED
  BY <1>2, <1>3 DEF Q!Next, FifoOf

LEMMA SendStep ==
  ASSUME NEW f \in Faces, FifoOf(f) # <<>>,
         wire' = [face |-> f, data |-> Head(FifoOf(f))],
         FifoOf(f)' = Tail(FifoOf(f)),
         \A g \in Faces \ {f} : FifoOf(g)' = FifoOf(g)
  PROVE  Q!Next
<1>1. [g \in Faces |-> FifoOf(g)]'
        = [[g \in Faces |-> FifoOf(g)] EXCEPT ![f] = Tail(FifoOf(f))]
  BY OneStep
<1>2. Q!Send(f)
  BY <1>1 DEF Q!Send, FifoOf
<1> QED
  BY <1>2 DEF Q!Next

(* As long as the ring is left alone, the mapping changes as the queues do. *)
LEMMA RingStands ==
  ASSUME UNCHANGED <<ring, qfront, qlen>>
  PROVE  InRing' = InRing /\ \A g : FifoOf(g)' = PacketsFor(g, InRing) \o outq'[g]
<1>1. InRing' = InRing
  BY DEF InRing
<1> QED
  BY <1>1 DEF FifoOf

LEMMA IdleStep ==
  ASSUME wire' = Nothing, UNCHANGED queues
  PROVE  Q!Next
<1>1. \A g : FifoOf(g)' = PacketsFor(g, InRing) \o outq'[g]
  BY RingStands DEF queues
<1>2. \A g \in Faces : FifoOf(g)' = FifoOf(g)
  BY <1>1 DEF FifoOf, queues
<1> QED
  BY <1>2, RestStep

LEMMA FaceEnqueueMaps ==
  ASSUME TypeInv, NEW f \in Faces, NEW d \in Data, FaceEnqueue(f, d)
  PROVE  Q!Next
<1>1. wire' = Nothing /\ UNCHANGED <<ring, qfront, qlen>>
  BY DEF FaceEnqueue
<1>2. outq \in [Faces -> Seq(Data)]
  BY DEF TypeInv, TypeOK
<1>3. CASE outq' = outq
  BY <1>1, <1>3, IdleStep DEF queues
<1>4. CASE outq' = [outq EXCEPT ![f] = Append(@, d)]
  <2>1. \A g : FifoOf(g)' = PacketsFor(g, InRing) \o outq'[g]
    BY <1>1, RingStands
  <2>2. outq'[f] = Append(outq[f], d) /\ \A g \in Faces \ {f} : outq'[g] = outq[g]
    BY <1>2, <1>4
  <2>3. PacketsFor(f, InRing) \in Seq(Data) /\ outq[f] \in Seq(Data)
    BY FifoType
  <2>4. PacketsFor(f, InRing) \o Append(outq[f], d) = Append(FifoOf(f), d)
    BY <2>3, AppendBehind DEF FifoOf
  <2>5. FifoOf(f)' = Append(FifoOf(f), d)
    BY <2>1, <2>2, <2>4
  <2>6. \A g \in Faces \ {f} : FifoOf(g)' = FifoOf(g)
    BY <2>1, <2>2 DEF FifoOf
  <2> QED
    BY <1>1, <2>5, <2>6, PutStep
<1> QED
  BY <1>3, <1>4 DEF FaceEnqueue

LEMMA FaceCtsMaps ==
  ASSUME TypeInv, NEW f \in Faces, FaceCts(f)
  PROVE  Q!Next
<1>1. wire' = Nothing
  BY DEF FaceCts
<1>2. outq \in [Faces -> Seq(Data)] /\ outq[f] \in Seq(Data) /\ PacketsFor(f, InRing) \in Seq(Data)
  BY FifoType DEF TypeInv, TypeOK
<1>3. CASE UNCHANGED queues
  BY <1>1, <1>3, IdleStep
<1>4. CASE outq[f] # <<>> /\ outq' = [outq EXCEPT ![f] = Tail(@)] /\ UNCHANGED <<ring, qfront, qlen>>
  <2>1. \A g : FifoOf(g)' = PacketsFor(g, InRing) \o outq'[g]
    BY <1>4, RingStands
  <2>2. outq'[f] = Tail(outq[f]) /\ \A g \in Faces \ {f} : outq'[g] = outq[g]
    BY <1>2, <1>4
  <2> DEFINE i == Len(PacketsFor(f, InRing)) + 1
  <2>3. i \in 1..Len(FifoOf(f)) /\ RemoveAt(FifoOf(f), i) = PacketsFor(f, InRing) \o Tail(outq[f])
    BY <1>2, <1>4, HeadLost DEF FifoOf
  <2> HIDE DEF i
  <2>4. FifoOf(f)' = RemoveAt(FifoOf(f), i)
    BY <2>1, <2>2, <2>3
  <2>5. \A g \in Faces \ {f} : FifoOf(g)' = FifoOf(g)
    BY <2>1, <2>2 DEF FifoOf
  <2> QED
    BY <1>1, <2>3, <2>4, <2>5, LoseStep
<1>5. CASE /\ outq[f] # <<>> /\ ~ RingFull
           /\ outq' = [outq EXCEPT ![f] = Tail(@)]
           /\ ring' = [ring EXCEPT ![FreeSlot] = [face |-> f, data |-> Head(outq[f])]]
           /\ qlen' = qlen + 1 /\ qfront' = qfront
  <2> DEFINE r == [face |-> f, data |-> Head(outq[f])]
  <2>1. r \in Request /\ r.face = f /\ r.data = Head(outq[f])
    <3>1. Head(outq[f]) \in Data
      BY <1>2, <1>5, HeadTailProperties
    <3> QED
      BY <3>1 DEF Request
  <2>2. outq'[f] = Tail(outq[f]) /\ \A g \in Faces \ {f} : outq'[g] = outq[g]
    BY <1>2, <1>5
  <2>3. ring' = [ring EXCEPT ![FreeSlot] = r]
    BY <1>5
  <2> HIDE DEF r
  <2>4. InRing' = Append(InRing, r) /\ InRing \in Seq(Request)
    BY <1>5, <2>1, <2>3, RingAppended, RingSeq
  <2>5. ASSUME NEW g \in Faces
        PROVE  FifoOf(g)' = (IF f = g THEN Append(PacketsFor(g, InRing), r.data) ELSE PacketsFor(g, InRing)) \o outq'[g]
    <3>1. PacketsFor(g, Append(InRing, r))
            = IF r.face = g THEN Append(PacketsFor(g, InRing), r.data) ELSE PacketsFor(g, InRing)
      BY <2>1, <2>4, PacketsForAppend
    <3>2. FifoOf(g)' = PacketsFor(g, Append(InRing, r)) \o outq'[g]
      BY <2>4 DEF FifoOf
    <3> QED
      BY <2>1, <3>1, <3>2
  <2>6. FifoOf(f)' = FifoOf(f)
    <3>1. Append(PacketsFor(f, InRing), Head(outq[f])) \o Tail(outq[f]) = FifoOf(f)
      BY <1>2, <1>5, HeadMoves DEF FifoOf
    <3> QED
      BY <2>1, <2>2, <2>5, <3>1
  <2>7. \A g \in Faces \ {f} : FifoOf(g)' = FifoOf(g)
    BY <2>2, <2>5 DEF FifoOf
  <2>8. \A g \in Faces : FifoOf(g)' = FifoOf(g)
    BY <2>6, <2>7
  <2> QED
    BY <1>1, <2>8, RestStep
<1> QED
  BY <1>3, <1>4, <1>5 DEF FaceCts

LEMMA InterfaceCtsMaps ==
  ASSUME TypeInv, InterfaceCts
  PROVE  Q!Next
<1>1. UNCHANGED outq
  BY DEF InterfaceCts
<1>2. CASE wire' = Nothing /\ UNCHANGED <<ring, qfront, qlen>>
  BY <1>1, <1>2, IdleStep DEF queues
<1>3. CASE /\ qlen > 0 /\ wire' = ring[qfront]
           /\ ring' = [ring EXCEPT ![qfront] = Nothing]
           /\ qfront' = (qfront + 1) % QLen /\ qlen' = qlen - 1
  <2>1. ring[qfront] \in Request
    BY <1>3, RingGet
  <2>2. PICK r \in Request, f \in Faces : r = ring[qfront] /\ r.data \in Data /\ r = [face |-> f, data |-> r.data]
    BY <2>1 DEF Request
  <2>3. InRing # <<>> /\ Head(InRing) = r /\ InRing' = Tail(InRing) /\ InRing \in Seq(Request)
    BY <1>3, <2>2, RingTaken, RingSeq
  <2>4. ASSUME NEW g \in Faces
        PROVE  /\ PacketsFor(g, Tail(InRing)) \in Seq(Data) /\ outq[g] \in Seq(Data)
               /\ PacketsFor(g, InRing) = (IF f = g THEN <<r.data>> ELSE <<>>) \o PacketsFor(g, Tail(InRing))
               /\ FifoOf(g)' = PacketsFor(g, Tail(InRing)) \o outq[g]
    <3>1. Tail(InRing) \in Seq(Request)
      BY <2>3, HeadTailProperties
    <3>2. PacketsFor(g, Tail(InRing)) \in Seq(Data) /\ outq[g] \in Seq(Data)
      BY <3>1, PacketsForType, FifoType
    <3>3. PacketsFor(g, InRing) = (IF f = g THEN <<r.data>> ELSE <<>>) \o PacketsFor(g, Tail(InRing))
      <4>1. PacketsFor(g, InRing)
              = (IF Head(InRing).face = g THEN <<Head(InRing).data>> ELSE <<>>) \o PacketsFor(g, Tail(InRing))
        BY <2>3, PacketsForTail
      <4>2. Head(InRing) = r /\ r.face = f
        BY <2>2, <2>3
      <4> QED
        BY <4>1, <4>2
    <3>4. FifoOf(g)' = PacketsFor(g, Tail(InRing)) \o outq[g]
      BY <1>1, <2>3 DEF FifoOf
    <3> QED
      BY <3>2, <3>3, <3>4
  <2>5. wire' = r
    BY <1>3, <2>2
  <2>6. FifoOf(f) = (<<r.data>> \o PacketsFor(f, Tail(InRing))) \o outq[f]
    BY <2>2, <2>4 DEF FifoOf
  <2>7. FifoOf(f) # <<>> /\ Head(FifoOf(f)) = r.data /\ Tail(FifoOf(f)) = FifoOf(f)'
    <3> DEFINE p == PacketsFor(f, Tail(InRing))
               q == outq[f]
               d == r.data
    <3>1. p \in Seq(Data) /\ q \in Seq(Data) /\ d \in Data /\ FifoOf(f)' = p \o q /\ FifoOf(f) = (<<d>> \o p) \o q
      BY <2>2, <2>4, <2>6
    <3> HIDE DEF p, q, d
    <3>2. (<<d>> \o p) \o q # <<>> /\ Head((<<d>> \o p) \o q) = d /\ Tail((<<d>> \o p) \o q) = p \o q
      BY <3>1, HeadSent
    <3> QED
      BY <3>1, <3>2 DEF d
  <2>8. ASSUME NEW g \in Faces \ {f} PROVE FifoOf(g)' = FifoOf(g)
    <3>1. <<>> \o PacketsFor(g, Tail(InRing)) = PacketsFor(g, Tail(InRing))
      BY <2>4, ConcatEmptySeq
    <3> QED
      BY <2>4, <3>1 DEF FifoOf
  <2>9. wire' = [face |-> f, data |-> Head(FifoOf(f))]
    BY <2>2, <2>5, <2>7
  <2> QED
    BY <2>2, <2>7, <2>8, <2>9, SendStep
<1> QED
  BY <1>2, <1>3 DEF InterfaceCts

LEMMA FaceRemoveMaps ==
  ASSUME TypeInv, NEW f \in Faces, FaceRemove(f)
  PROVE  Q!Next
<1>1. wire' = Nothing /\ UNCHANGED <<ring, qfront, qlen>> /\ outq' = [outq EXCEPT ![f] = <<>>]
  BY DEF FaceRemove
<1>2. outq \in [Faces -> Seq(Data)] /\ outq[f] \in Seq(Data) /\ PacketsFor(f, InRing) \in Seq(Data)
  BY FifoType DEF TypeInv, TypeOK
<1>3. \A g : FifoOf(g)' = PacketsFor(g, InRing) \o outq'[g]
  BY <1>1, RingStands
<1>4. outq'[f] = <<>> /\ \A g \in Faces \ {f} : outq'[g] = outq[g]
  BY <1>1, <1>2
<1>5. \A g \in Faces \ {f} : FifoOf(g)' = FifoOf(g)
  BY <1>3, <1>4 DEF FifoOf
<1>6. CASE outq[f] = <<>>
  <2>1. FifoOf(f)' = FifoOf(f)
    BY <1>3, <1>4, <1>6 DEF FifoOf
  <2> QED
    BY <1>1, <1>5, <2>1, RestStep
<1>7. CASE outq[f] # <<>>
  <2> DEFINE i == Len(PacketsFor(f, InRing)) + 1
  <2>1. i \in 1..Len(FifoOf(f)) /\ SubSeq(FifoOf(f), 1, i - 1) = PacketsFor(f, InRing) \o <<>>
    BY <1>2, <1>7, QueueCut DEF FifoOf
  <2> HIDE DEF i
  <2>2. FifoOf(f)' = SubSeq(FifoOf(f), 1, i - 1)
    BY <1>3, <1>4, <2>1
  <2> QED
    BY <1>1, <1>5, <2>1, <2>2, CutStep
<1> QED
  BY <1>6, <1>7

LEMMA StepMaps == TypeInv /\ [Next]_vars => [Q!Next]_<<[f \in Faces |-> FifoOf(f)], wire>>
<1> SUFFICES ASSUME TypeInv, [Next]_vars PROVE [Q!Next]_<<[f \in Faces |-> FifoOf(f)], wire>>
  OBVIOUS
<1>1. ASSUME NEW f \in Faces, NEW d \in Data, FaceEnqueue(f, d) PROVE Q!Next
  BY <1>1, FaceEnqueueMaps
<1>2. ASSUME NEW f \in Faces, FaceCts(f) PROVE Q!Next
  BY <1>2, FaceCtsMaps
<1>3. CASE InterfaceCts
  BY <1>3, InterfaceCtsMaps
<1>4. ASSUME NEW s \in Sched, CtsDone(s) PROVE Q!Next
  BY <1>4, IdleStep DEF CtsDone
<1>5. CASE CallFreed
  BY <1>5, IdleStep DEF CallFreed
<1>6. ASSUME NEW f \in Faces, FaceRemove(f) PROVE Q!Next
  BY <1>6, FaceRemoveMaps
<1>7. CASE RunHandler \/ HandlerReturns \/ EndPass \/ SocketWritable \/ EndRound \/ Tick
  BY <1>7, IdleStep DEF RunHandler, HandlerReturns, EndPass, SocketWritable, EndRound, Tick
<1>8. CASE UNCHANGED vars
  <2>1. wire' = wire /\ outq' = outq /\ UNCHANGED <<ring, qfront, qlen>>
    BY <1>8 DEF vars, queues
  <2>2. \A g : FifoOf(g)' = PacketsFor(g, InRing) \o outq'[g]
    BY <2>1, RingStands
  <2>3. \A g \in Faces : FifoOf(g)' = FifoOf(g)
    BY <2>1, <2>2 DEF FifoOf
  <2>4. [g \in Faces |-> FifoOf(g)]' = [g \in Faces |-> FifoOf(g)]
    BY <2>3
  <2> QED
    BY <2>1, <2>4
<1> QED
  BY <1>1, <1>2, <1>3, <1>4, <1>5, <1>6, <1>7, <1>8 DEF Next, Callback

LEMMA InitMaps == Init => Q!Init
<1> SUFFICES ASSUME Init PROVE Q!Init
  OBVIOUS
<1>1. wire = Nothing /\ outq = [f \in Faces |-> <<>>] /\ qlen = 0
  BY DEF Init
<1>2. InRing = <<>>
  BY <1>1 DEF InRing
<1>3. ASSUME NEW f \in Faces PROVE FifoOf(f) = <<>>
  <2>1. PacketsFor(f, InRing) = <<>> /\ outq[f] = <<>>
    BY <1>1, <1>2, PacketsForNone
  <2> QED
    BY <2>1 DEF FifoOf
<1>4. [f \in Faces |-> FifoOf(f)] = [f \in Faces |-> <<>>]
  BY <1>3
<1> QED
  BY <1>1, <1>4 DEF Q!Init, FifoOf

(***************************************************************************)
(* Packets leave in the order in which the forwarder queued them for a     *)
(* face, none of them twice, late, or without being put: with the ring     *)
(* read as the front of the queues of the faces, every step of the path is *)
(* one of a lossy FIFO, whatever the schedulers do and whichever faces go. *)
(***************************************************************************)
THEOREM PathIsLossyFifo == Spec => LossyFifo
<1>1. Init => Serves
  BY DEF Init, Serves
<1>2. TypeInv /\ [Next]_vars => [Q!Next]_<<[f \in Faces |-> PacketsFor(f, InRing) \o outq[f]], wire>>
  BY StepMaps DEF FifoOf
<1> QED
  BY <1>1, <1>2, InitMaps, TypeInit, TypeStep, ServesStep, PTL DEF Spec, LossyFifo, Q!Spec
=============================================================================
