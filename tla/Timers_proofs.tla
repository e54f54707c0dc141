--------------------------- MODULE Timers_proofs ---------------------------
(***************************************************************************)
(* Theorems about the timer queue, for every set of delays and every       *)
(* bound: no timer is lost and each pass is bounded if the clock is not    *)
(* set back during a pass, and handlers run in order if it never is.       *)
(***************************************************************************)
EXTENDS Timers, SequenceTheorems, WellFoundedInduction, TLAPS

(***************************************************************************)
(* The ordered list of timers, whatever its entries hold besides their     *)
(* time.                                                                   *)
(***************************************************************************)
Timed(T) == \A t \in T : t.at \in Int
-----------------------------------------------------------------------------
(* The place that ccnl_set_timer looks for exists: the first later entry, or the end. *)
LEMMA PlaceFound ==
  ASSUME NEW T, Timed(T), NEW q \in Seq(T), NEW at \in Int
  PROVE  /\ Place(q, at) \in 1..Len(q) + 1
         /\ \A j \in 1..Place(q, at) - 1 : q[j].at =< at
         /\ Place(q, at) =< Len(q) => q[Place(q, at)].at > at
<1> DEFINE Later == {j \in 1..Len(q) : q[j].at > at}
<1>1. \E k \in 1..Len(q) + 1 :
        /\ \A j \in 1..k - 1 : q[j].at =< at
        /\ k =< Len(q) => q[k].at > at
  <2>0. \A j \in 1..Len(q) : q[j].at \in Int
    <3>1. \A j \in 1..Len(q) : q[j] \in T
      BY ElementOfSeq
    <3> QED  BY <3>1 DEF Timed
  <2>1. CASE Later = {}
    <3>1. \A j \in 1..Len(q) : q[j].at =< at
      BY <2>0, <2>1
    <3> QED  BY <3>1
  <2>2. CASE Later # {}
    <3>1. Later \subseteq Nat
      OBVIOUS
    <3>2. PICK k \in Later : \A j \in Later : ~ (<<j, k>> \in OpToRel(<, Nat))
      BY <2>2, <3>1, WFMin, NatLessThanWellFounded
    <3>3. \A j \in Later : ~ (j < k)
      BY <3>1, <3>2 DEF OpToRel
    <3>4. \A j \in 1..k - 1 : q[j].at =< at
      BY <2>0, <3>3
    <3> QED  BY <3>4
  <2> QED  BY <2>1, <2>2
<1> QED  BY <1>1 DEF Place

(* What the list is after ccnl_set_timer, entry by entry. *)
LEMMA Inserted ==
  ASSUME NEW T, Timed(T), NEW q \in Seq(T), NEW t \in T
  PROVE  LET k == Place(q, t.at)
         IN  /\ Insert(q, t) \in Seq(T)
             /\ Len(Insert(q, t)) = Len(q) + 1
             /\ \A i \in 1..Len(q) + 1 :
                  Insert(q, t)[i] = IF i < k THEN q[i] ELSE IF i = k THEN t ELSE q[i - 1]
<1> DEFINE k == Place(q, t.at)
<1>1. t.at \in Int
  BY DEF Timed
<1>2. k \in 1..Len(q) + 1
  BY <1>1, PlaceFound
<1> HIDE DEF k
<1> DEFINE front == SubSeq(q, 1, k - 1)
           back == SubSeq(q, k, Len(q))
<1>3. InsertAt(q, k, t) = (front \o <<t>>) \o back
  BY DEF InsertAt
<1>e. \A i \in 1..Len(q) : q[i] \in T
  BY ElementOfSeq
<1>4. /\ front \in Seq(T) /\ Len(front) = k - 1
      /\ \A i \in 1..k - 1 : front[i] = q[i]
  BY <1>2, <1>e, SubSeqProperties
<1>5. /\ back \in Seq(T) /\ Len(back) = Len(q) + 1 - k
      /\ \A i \in 1..Len(q) + 1 - k : back[i] = q[k + i - 1]
  BY <1>2, <1>e, SubSeqProperties
<1> HIDE DEF front, back
<1> DEFINE head == front \o <<t>>
<1>6. /\ head \in Seq(T) /\ Len(head) = k
      /\ \A i \in 1..k : head[i] = IF i < k THEN q[i] ELSE t
  <2>1. <<t>> \in Seq(T) /\ Len(<<t>>) = 1 /\ <<t>>[1] = t
    OBVIOUS
  <2> QED  BY <1>2, <1>4, <2>1, ConcatProperties
<1> HIDE DEF head
<1>7. /\ head \o back \in Seq(T) /\ Len(head \o back) = Len(head) + Len(back)
      /\ \A i \in 1..Len(head) + Len(back) :
           (head \o back)[i] = IF i <= Len(head) THEN head[i] ELSE back[i - Len(head)]
  BY <1>5, <1>6, ConcatProperties
<1>8. \A i \in 1..Len(q) + 1 :
        (head \o back)[i] = IF i < k THEN q[i] ELSE IF i = k THEN t ELSE q[i - 1]
  <2> SUFFICES ASSUME NEW i \in 1..Len(q) + 1
               PROVE  (head \o back)[i] = IF i < k THEN q[i] ELSE IF i = k THEN t ELSE q[i - 1]
    OBVIOUS
  <2>1. CASE i =< k
    BY <1>2, <1>5, <1>6, <1>7, <2>1
  <2>2. CASE i > k
    <3>1. i - k \in 1..Len(q) + 1 - k /\ k + (i - k) - 1 = i - 1
      BY <1>2, <2>2
    <3>2. back[i - k] = q[i - 1]
      BY <1>5, <3>1
    <3> QED  BY <1>2, <1>5, <1>6, <1>7, <2>2, <3>2
  <2>3. i =< k \/ i > k
    BY <1>2
  <2> QED  BY <2>1, <2>2, <2>3
<1>9. Len(head \o back) = Len(q) + 1
  BY <1>2, <1>5, <1>6, <1>7
<1>10. Insert(q, t) = head \o back
  BY <1>3 DEF Insert, k, head
<1> HIDE DEF head
<1> QED  BY <1>7, <1>8, <1>9, <1>10 DEF k

(* What the list is after ccnl_rem_timer. *)
LEMMA Removed ==
  ASSUME NEW T, NEW q \in Seq(T), NEW k \in 1..Len(q)
  PROVE  /\ Without(q, k) \in Seq(T)
         /\ Len(Without(q, k)) = Len(q) - 1
         /\ \A i \in 1..Len(q) - 1 : Without(q, k)[i] = IF i < k THEN q[i] ELSE q[i + 1]
<1> DEFINE front == SubSeq(q, 1, k - 1)
           back == SubSeq(q, k + 1, Len(q))
<1>1. Without(q, k) = front \o back
  BY DEF Without, RemoveAt
<1>e. \A i \in 1..Len(q) : q[i] \in T
  BY ElementOfSeq
<1>2. /\ front \in Seq(T) /\ Len(front) = k - 1
      /\ \A i \in 1..k - 1 : front[i] = q[i]
  BY <1>e, SubSeqProperties
<1>3. /\ back \in Seq(T) /\ Len(back) = Len(q) - k
      /\ \A i \in 1..Len(q) - k : back[i] = q[k + i]
  BY <1>e, SubSeqProperties
<1> HIDE DEF front, back
<1>4. /\ front \o back \in Seq(T) /\ Len(front \o back) = Len(front) + Len(back)
      /\ \A i \in 1..Len(front) + Len(back) :
           (front \o back)[i] = IF i <= Len(front) THEN front[i] ELSE back[i - Len(front)]
  BY <1>2, <1>3, ConcatProperties
<1>5. ASSUME NEW i \in 1..Len(q) - 1
      PROVE  Without(q, k)[i] = IF i < k THEN q[i] ELSE q[i + 1]
  <2>1. CASE i < k
    BY <1>1, <1>2, <1>3, <1>4, <2>1
  <2>2. CASE i >= k
    <3>1. i - (k - 1) \in 1..Len(q) - k /\ k + (i - (k - 1)) = i + 1
      BY <2>2
    <3>2. back[i - (k - 1)] = q[i + 1]
      BY <1>3, <3>1
    <3> QED  BY <1>1, <1>2, <1>3, <1>4, <2>2, <3>2
  <2> QED  BY <2>1, <2>2
<1> QED  BY <1>1, <1>2, <1>3, <1>4, <1>5
-----------------------------------------------------------------------------
USE DelaysAssumption, TimersBoundsAssumption, ClockAssumption
-----------------------------------------------------------------------------
LEMMA PlaceIsThere ==
  ASSUME NEW q \in Seq(Timer), NEW at \in Nat
  PROVE  /\ Place(q, at) \in 1..Len(q) + 1
         /\ \A j \in 1..Place(q, at) - 1 : q[j].at =< at
         /\ Place(q, at) =< Len(q) => q[Place(q, at)].at > at
<1>1. Timed(Timer) /\ at \in Int
  BY DEF Timed, Timer
<1> QED  BY <1>1, PlaceFound

(* What the list is after ccnl_set_timer, entry by entry. *)
LEMMA InsertFacts ==
  ASSUME NEW q \in Seq(Timer), NEW t \in Timer
  PROVE  LET k == Place(q, t.at)
         IN  /\ Insert(q, t) \in Seq(Timer)
             /\ Len(Insert(q, t)) = Len(q) + 1
             /\ \A i \in 1..Len(q) + 1 :
                  Insert(q, t)[i] = IF i < k THEN q[i] ELSE IF i = k THEN t ELSE q[i - 1]
<1>1. Timed(Timer)
  BY DEF Timed, Timer
<1> QED  BY <1>1, Inserted

(* What the list is after ccnl_rem_timer. *)
LEMMA WithoutFacts ==
  ASSUME NEW q \in Seq(Timer), NEW k \in 1..Len(q)
  PROVE  /\ Without(q, k) \in Seq(Timer)
         /\ Len(Without(q, k)) = Len(q) - 1
         /\ \A i \in 1..Len(q) - 1 : Without(q, k)[i] = IF i < k THEN q[i] ELSE q[i + 1]
BY Removed
-----------------------------------------------------------------------------
(* The list is sorted; entries that are equal in time are in the order of their making. *)
Sorted ==
  \A i, j \in 1..Len(eventqueue) : i < j => Sooner(eventqueue[i], eventqueue[j])

(* Each number in use was given out, to one entry of the list. *)
Numbered ==
  /\ \A i \in 1..Len(eventqueue) : eventqueue[i].id =< made
  /\ \A i, j \in 1..Len(eventqueue) : i < j => eventqueue[i].id # eventqueue[j].id
  /\ \A i \in 1..Len(ran) : ran[i].id =< made

(* The timer that runs heads the list, is the last one that was run, and was due. *)
RunsTheHead ==
  running # NoTimer =>
    /\ now # NoPass
    /\ Len(eventqueue) > 0 /\ eventqueue[1].id = running /\ eventqueue[1].at < now
    /\ Len(ran) > 0 /\ ran[Len(ran)] = eventqueue[1]

(* During a pass the clock is not before its beginning, and what is due was set before it. *)
PassIsPast ==
  now # NoPass =>
    /\ now =< clock
    /\ \A i \in 1..Len(eventqueue) : Due(eventqueue[i]) => eventqueue[i].id =< madeBefore

QueueInv == TypeOK /\ Sorted /\ Numbered /\ RunsTheHead /\ PassIsPast /\ NoneLost

(***************************************************************************)
(* The list stays well-typed, sorted and complete, unless the clock is set *)
(* back during a pass.                                                     *)
(***************************************************************************)
LEMMA QueueInvInit == Init => QueueInv
<1> SUFFICES ASSUME Init PROVE QueueInv
  OBVIOUS
<1> USE DEF Init
<1>1. TypeOK
  BY DEF TypeOK, NoPass, NoTimer
<1>2. Len(eventqueue) = 0 /\ Len(ran) = 0
  OBVIOUS
<1>3. Sorted /\ Numbered /\ RunsTheHead /\ PassIsPast
  BY <1>2 DEF Sorted, Numbered, RunsTheHead, PassIsPast
<1>4. NoneLost
  <2>1. Queued = {} /\ Ran = {}
    BY <1>2 DEF Queued, Ran
  <2> QED  BY <2>1 DEF NoneLost
<1> QED  BY <1>1, <1>3, <1>4 DEF QueueInv

LEMMA QueueInvSetTimer ==
  ASSUME QueueInv, NEW d \in Delays, SetTimer(d)
  PROVE  QueueInv'
<1> USE DEF QueueInv
<1> DEFINE t == [id |-> made + 1, at |-> clock + d]
           k == Place(eventqueue, t.at)
<1>1. /\ made' = made + 1 /\ eventqueue' = Insert(eventqueue, t)
      /\ UNCHANGED <<clock, now, running, madeBefore, ran, removed>>
  BY DEF SetTimer
<1>2. t \in Timer /\ t.id = made + 1 /\ t.at = clock + d /\ t.at \in Nat
  BY DEF Timer, TypeOK, NoTimer
<1> HIDE DEF t
<1>3. eventqueue \in Seq(Timer) /\ made \in Nat /\ running \in Nat
  BY DEF TypeOK
<1>4. /\ eventqueue' \in Seq(Timer)
      /\ Len(eventqueue') = Len(eventqueue) + 1
      /\ \A i \in 1..Len(eventqueue) + 1 :
           eventqueue'[i] = IF i < k THEN eventqueue[i] ELSE IF i = k THEN t ELSE eventqueue[i - 1]
  BY <1>1, <1>2, <1>3, InsertFacts
<1>5. /\ k \in 1..Len(eventqueue) + 1
      /\ \A j \in 1..k - 1 : eventqueue[j].at =< t.at
      /\ k =< Len(eventqueue) => eventqueue[k].at > t.at
  BY <1>2, <1>3, PlaceIsThere
<1> HIDE DEF k
<1>t. \A j \in 1..Len(eventqueue) :
        /\ eventqueue[j].at \in Nat /\ eventqueue[j].id \in Nat
        /\ eventqueue[j].id =< made
  <2>1. \A j \in 1..Len(eventqueue) : eventqueue[j] \in Timer
    BY <1>3, ElementOfSeq
  <2> QED  BY <2>1 DEF Timer, Numbered
<1>o. \A i \in 1..Len(eventqueue) + 1 :
        \/ i < k /\ i \in 1..Len(eventqueue) /\ eventqueue'[i] = eventqueue[i]
        \/ i = k /\ eventqueue'[i] = t
        \/ i > k /\ i - 1 \in 1..Len(eventqueue) /\ eventqueue'[i] = eventqueue[i - 1]
  BY <1>3, <1>4, <1>5
<1>6. TypeOK'
  BY <1>1, <1>4 DEF TypeOK
<1>7. Sorted'
  <2>1. \A j \in 1..Len(eventqueue) : j < k => Sooner(eventqueue[j], t)
    BY <1>t, <1>2, <1>3, <1>5 DEF Sooner
  <2>2. \A j \in 1..Len(eventqueue) : j >= k => Sooner(t, eventqueue[j])
    BY <1>t, <1>2, <1>3, <1>5 DEF Sooner, Sorted
  <2>3. ASSUME NEW i \in 1..Len(eventqueue) + 1, NEW j \in 1..Len(eventqueue) + 1, i < j
        PROVE  Sooner(eventqueue'[i], eventqueue'[j])
    <3>1. CASE j < k
      BY <1>4, <1>5, <2>3, <3>1 DEF Sorted
    <3>2. CASE j = k
      BY <1>4, <1>5, <2>1, <2>3, <3>2
    <3>0. k \in Int /\ i \in Int /\ j \in Int
      BY <1>3, <1>5
    <3>3. CASE j > k /\ i = k
      <4>1. j - 1 \in 1..Len(eventqueue) /\ eventqueue'[j] = eventqueue[j - 1]
        BY <1>o, <3>0, <3>3
      <4>2. eventqueue'[i] = t
        BY <1>o, <3>0, <3>3
      <4>3. j - 1 >= k
        BY <3>0, <3>3
      <4> QED  BY <2>2, <4>1, <4>2, <4>3
    <3>4. CASE j > k /\ i < k
      <4>1. j - 1 \in 1..Len(eventqueue) /\ eventqueue'[j] = eventqueue[j - 1]
        BY <1>o, <3>0, <3>4
      <4>2. i \in 1..Len(eventqueue) /\ eventqueue'[i] = eventqueue[i]
        BY <1>o, <3>0, <3>4
      <4>3. i < j - 1
        BY <3>0, <3>4
      <4> QED  BY <4>1, <4>2, <4>3 DEF Sorted
    <3>5. CASE j > k /\ i > k
      <4>1. /\ i - 1 \in 1..Len(eventqueue) /\ eventqueue'[i] = eventqueue[i - 1]
            /\ j - 1 \in 1..Len(eventqueue) /\ eventqueue'[j] = eventqueue[j - 1]
        BY <1>5, <1>o, <3>5
      <4> QED  BY <2>3, <4>1 DEF Sorted
    <3> QED  BY <1>5, <3>1, <3>2, <3>3, <3>4, <3>5
  <2> QED  BY <1>4, <2>3 DEF Sorted
<1>8. Numbered'
  <2>1. \A i \in 1..Len(eventqueue) + 1 : eventqueue'[i].id =< made + 1
    <3> SUFFICES ASSUME NEW i \in 1..Len(eventqueue) + 1
                 PROVE  eventqueue'[i].id =< made + 1
      OBVIOUS
    <3>1. CASE i = k
      BY <1>2, <1>3, <1>o, <3>1
    <3>2. CASE i < k
      BY <1>3, <1>o, <1>t, <3>2
    <3>3. CASE i > k
      <4>1. eventqueue[i - 1].id =< made /\ eventqueue[i - 1].id \in Nat
        BY <1>5, <1>o, <1>t, <3>3
      <4> QED  BY <1>3, <1>5, <1>o, <3>3, <4>1
    <3> QED  BY <1>5, <3>1, <3>2, <3>3
  <2>3. ASSUME NEW i \in 1..Len(eventqueue) + 1, NEW j \in 1..Len(eventqueue) + 1, i < j
        PROVE  eventqueue'[i].id # eventqueue'[j].id
    <3>0. t.id = made + 1 /\ \A h \in 1..Len(eventqueue) : eventqueue[h].id # made + 1
      BY <1>2, <1>3, <1>t
    <3>1. CASE i = k \/ j = k
      BY <1>5, <1>o, <2>3, <3>0, <3>1
    <3>2. CASE j < k
      BY <1>5, <1>o, <2>3, <3>2 DEF Numbered
    <3>3. CASE i < k /\ j > k
      <4>1. /\ i \in 1..Len(eventqueue) /\ eventqueue'[i] = eventqueue[i]
            /\ j - 1 \in 1..Len(eventqueue) /\ eventqueue'[j] = eventqueue[j - 1]
            /\ i < j - 1
        BY <1>5, <1>o, <3>3
      <4> QED  BY <4>1 DEF Numbered
    <3>4. CASE i > k
      <4>1. /\ i - 1 \in 1..Len(eventqueue) /\ eventqueue'[i] = eventqueue[i - 1]
            /\ j - 1 \in 1..Len(eventqueue) /\ eventqueue'[j] = eventqueue[j - 1]
        BY <1>5, <1>o, <2>3, <3>4
      <4> QED  BY <2>3, <4>1 DEF Numbered
    <3> QED  BY <1>5, <2>3, <3>1, <3>2, <3>3, <3>4
  <2>2. \A i \in 1..Len(ran) : ran[i].id \in Nat
    <3>1. \A i \in 1..Len(ran) : ran[i] \in Timer
      BY ElementOfSeq DEF TypeOK
    <3> QED  BY <3>1 DEF Timer
  <2> QED  BY <1>1, <1>3, <1>4, <2>1, <2>2, <2>3 DEF Numbered
<1>9. RunsTheHead'
  <2> SUFFICES ASSUME running # NoTimer
               PROVE  RunsTheHead'
    BY <1>1 DEF RunsTheHead
  <2>1. eventqueue[1].at < now /\ now =< clock /\ Len(eventqueue) > 0
    BY DEF RunsTheHead, PassIsPast
  <2>2. now \in Nat /\ clock \in Nat /\ d \in Nat
    BY DEF RunsTheHead, TypeOK
  <2>3. eventqueue[1].at < t.at
    BY <1>2, <1>t, <2>1, <2>2
  <2>4. k # 1
    BY <1>2, <1>5, <1>t, <2>1, <2>3
  <2>5. eventqueue'[1] = eventqueue[1]
    BY <1>4, <1>5, <2>4
  <2> QED  BY <1>1, <1>4, <2>5 DEF RunsTheHead
<1>10. PassIsPast'
  <2> SUFFICES ASSUME now # NoPass
               PROVE  PassIsPast'
    BY <1>1 DEF PassIsPast
  <2>1. now \in Nat /\ clock \in Nat /\ d \in Nat /\ now =< clock
    BY DEF TypeOK, PassIsPast
  <2>2. ~ Due(t)
    BY <1>2, <2>1 DEF Due
  <2>3. \A i \in 1..Len(eventqueue) + 1 : Due(eventqueue'[i]) => eventqueue'[i].id =< madeBefore
    <3>1. \A i \in 1..Len(eventqueue) : Due(eventqueue[i]) => eventqueue[i].id =< madeBefore
      BY DEF PassIsPast
    <3> QED  BY <1>o, <2>2, <3>1
  <2> QED  BY <1>1, <1>4, <2>1, <2>3 DEF PassIsPast, Due
<1>11. NoneLost'
  <2>1. made + 1 # running
    <3>1. running # NoTimer => running =< made
      BY <1>t DEF RunsTheHead
    <3> QED  BY <1>3, <3>1 DEF NoTimer
  <2>2. {eventqueue'[i].id : i \in 1..Len(eventqueue')}
          = {eventqueue[i].id : i \in 1..Len(eventqueue)} \cup {made + 1}
    <3> DEFINE New == {eventqueue'[i].id : i \in 1..Len(eventqueue')}
               Old == {eventqueue[i].id : i \in 1..Len(eventqueue)}
    <3>1. ASSUME NEW i \in 1..Len(eventqueue')
          PROVE  eventqueue'[i].id \in Old \cup {made + 1}
      <4>1. CASE i < k
        BY <1>4, <1>5, <4>1
      <4>2. CASE i = k
        BY <1>2, <1>4, <4>2
      <4>3. CASE i > k
        BY <1>4, <1>5, <4>3
      <4> QED  BY <1>5, <4>1, <4>2, <4>3
    <3>2. made + 1 \in New
      BY <1>2, <1>4, <1>5
    <3>3. ASSUME NEW i \in 1..Len(eventqueue)
          PROVE  eventqueue[i].id \in New
      <4>1. CASE i < k
        BY <1>4, <1>5, <4>1
      <4>2. CASE i >= k
        <5>1. eventqueue'[i + 1] = eventqueue[i] /\ i + 1 \in 1..Len(eventqueue')
          BY <1>4, <1>5, <4>2
        <5> QED  BY <5>1
      <4> QED  BY <1>5, <4>1, <4>2
    <3> QED  BY <3>1, <3>2, <3>3
  <2>3. Queued' = Queued \cup {made + 1}
    BY <1>1, <2>1, <2>2 DEF Queued
  <2>4. Ran' = Ran /\ removed' = removed
    BY <1>1 DEF Ran
  <2>5. 1..made' = 1..made \cup {made + 1}
    BY <1>1, <1>3
  <2>6. made + 1 \notin 1..made
    BY <1>3
  <2> QED  BY <2>3, <2>4, <2>5, <2>6 DEF NoneLost
<1> QED  BY <1>6, <1>7, <1>8, <1>9, <1>10, <1>11

(* What the list is after the head of it has been served. *)
LEMMA SuffixFacts ==
  ASSUME NEW q \in Seq(Timer), Len(q) > 0
  PROVE  /\ SubSeq(q, 2, Len(q)) \in Seq(Timer)
         /\ Len(SubSeq(q, 2, Len(q))) = Len(q) - 1
         /\ \A i \in 1..Len(q) - 1 : SubSeq(q, 2, Len(q))[i] = q[i + 1]
<1>1. \A i \in 1..Len(q) : q[i] \in Timer
  BY ElementOfSeq
<1>2. \A i \in 2..Len(q) : q[i] \in Timer
  BY <1>1
<1>3. /\ SubSeq(q, 2, Len(q)) \in Seq(Timer)
      /\ Len(SubSeq(q, 2, Len(q))) = IF 2 <= Len(q) THEN Len(q) - 2 + 1 ELSE 0
      /\ \A i \in 1..Len(q) - 2 + 1 : SubSeq(q, 2, Len(q))[i] = q[2 + i - 1]
  BY <1>2, SubSeqProperties
<1>4. /\ Len(q) - 2 + 1 = Len(q) - 1
      /\ \A i \in 1..Len(q) - 1 : 2 + i - 1 = i + 1
  OBVIOUS
<1> HIDE DEF Timer
<1>5. \A i \in 1..Len(q) - 1 : SubSeq(q, 2, Len(q))[i] = q[i + 1]
  BY <1>3, <1>4
<1>6. Len(SubSeq(q, 2, Len(q))) = Len(q) - 1
  <2>1. Len(q) \in Nat
    BY LenProperties
  <2>2. CASE 2 <= Len(q)
    BY <1>3, <1>4, <2>2
  <2>3. CASE Len(q) = 1
    BY <1>3, <2>3
  <2> QED  BY <2>1, <2>2, <2>3
<1> QED  BY <1>3, <1>5, <1>6


LEMMA QueueInvRemTimer ==
  ASSUME QueueInv, NEW k \in 1..Len(eventqueue), RemTimer(k)
  PROVE  QueueInv'
<1> USE DEF QueueInv
<1> DEFINE t == eventqueue[k]
<1>1. /\ eventqueue' = Without(eventqueue, k) /\ removed' = removed \cup {t.id}
      /\ t.id # running
      /\ UNCHANGED <<clock, now, running, made, madeBefore, ran>>
  BY DEF RemTimer
<1>2. eventqueue \in Seq(Timer) /\ made \in Nat
  BY DEF TypeOK
<1>3. \A j \in 1..Len(eventqueue) : eventqueue[j] \in Timer
  BY <1>2, ElementOfSeq
<1>4. /\ eventqueue' \in Seq(Timer)
      /\ Len(eventqueue') = Len(eventqueue) - 1
      /\ \A i \in 1..Len(eventqueue) - 1 :
           eventqueue'[i] = IF i < k THEN eventqueue[i] ELSE eventqueue[i + 1]
  BY <1>1, <1>2, WithoutFacts
<1>o. \A i \in 1..Len(eventqueue') :
        \/ i < k /\ i \in 1..Len(eventqueue) /\ eventqueue'[i] = eventqueue[i]
        \/ i >= k /\ i + 1 \in 1..Len(eventqueue) /\ eventqueue'[i] = eventqueue[i + 1]
  BY <1>4
<1>s. \A i, j \in 1..Len(eventqueue') : i < j =>
        \E g, h \in 1..Len(eventqueue) :
          g < h /\ eventqueue'[i] = eventqueue[g] /\ eventqueue'[j] = eventqueue[h]
  <2> SUFFICES ASSUME NEW i \in 1..Len(eventqueue'), NEW j \in 1..Len(eventqueue'), i < j
               PROVE  \E g, h \in 1..Len(eventqueue) :
                        g < h /\ eventqueue'[i] = eventqueue[g] /\ eventqueue'[j] = eventqueue[h]
    OBVIOUS
  <2>1. CASE j < k
    BY <1>o, <2>1
  <2>2. CASE i < k /\ j >= k
    <3>1. i < j + 1 /\ i \in 1..Len(eventqueue) /\ j + 1 \in 1..Len(eventqueue)
      BY <1>o, <2>2
    <3> QED  BY <1>o, <2>2, <3>1
  <2>3. CASE i >= k
    <3>1. i + 1 < j + 1 /\ i + 1 \in 1..Len(eventqueue) /\ j + 1 \in 1..Len(eventqueue)
      BY <1>o, <2>3
    <3>2. eventqueue'[i] = eventqueue[i + 1] /\ eventqueue'[j] = eventqueue[j + 1]
      BY <1>o, <2>3
    <3> QED  BY <3>1, <3>2
  <2> QED  BY <2>1, <2>2, <2>3
<1>5. TypeOK'
  <2>1. t.id \in Nat
    BY <1>3 DEF Timer
  <2> QED  BY <1>1, <1>4, <2>1 DEF TypeOK
<1>6. Sorted'
  BY <1>s DEF Sorted
<1>7. Numbered'
  <2>1. \A i \in 1..Len(eventqueue') : eventqueue'[i].id =< made
    BY <1>o DEF Numbered
  <2>2. \A i, j \in 1..Len(eventqueue') : i < j => eventqueue'[i].id # eventqueue'[j].id
    BY <1>s DEF Numbered
  <2> QED  BY <1>1, <2>1, <2>2 DEF Numbered
<1>8. RunsTheHead'
  <2> SUFFICES ASSUME running # NoTimer
               PROVE  RunsTheHead'
    BY <1>1 DEF RunsTheHead
  <2>1. k # 1
    BY <1>1 DEF RunsTheHead
  <2>2. Len(eventqueue') > 0 /\ eventqueue'[1] = eventqueue[1]
    BY <1>4, <2>1
  <2> QED  BY <1>1, <2>2 DEF RunsTheHead
<1>9. PassIsPast'
  <2>1. \A i \in 1..Len(eventqueue') : \E j \in 1..Len(eventqueue) : eventqueue'[i] = eventqueue[j]
    BY <1>o
  <2> QED  BY <1>1, <2>1 DEF PassIsPast, Due
<1>10. NoneLost'
  <2>1. \A i \in 1..Len(eventqueue') : eventqueue'[i].id # t.id
    <3> SUFFICES ASSUME NEW i \in 1..Len(eventqueue')
                 PROVE  eventqueue'[i].id # t.id
      OBVIOUS
    <3>1. \E j \in 1..Len(eventqueue) : j # k /\ eventqueue'[i] = eventqueue[j]
      <4>1. CASE i < k
        BY <1>o, <4>1
      <4>2. CASE i >= k
        <5>1. i + 1 # k /\ i + 1 \in 1..Len(eventqueue) /\ eventqueue'[i] = eventqueue[i + 1]
          BY <1>o, <4>2
        <5> QED  BY <5>1
      <4> QED  BY <4>1, <4>2
    <3>2. \A j \in 1..Len(eventqueue) : j < k \/ j = k \/ k < j
      OBVIOUS
    <3> QED  BY <3>1, <3>2 DEF Numbered
  <2>2. Queued' = Queued \ {t.id}
    <3>1. ASSUME NEW i \in 1..Len(eventqueue')
          PROVE  \E j \in 1..Len(eventqueue) : eventqueue'[i].id = eventqueue[j].id
      BY <1>o
    <3>2. ASSUME NEW j \in 1..Len(eventqueue), eventqueue[j].id # t.id
          PROVE  \E i \in 1..Len(eventqueue') : eventqueue'[i].id = eventqueue[j].id
      <4>1. CASE j < k
        BY <1>4, <1>o, <4>1
      <4>2. CASE j > k
        <5>1. j - 1 \in 1..Len(eventqueue') /\ eventqueue'[j - 1] = eventqueue[j]
          BY <1>4, <4>2
        <5> QED  BY <5>1
      <4> QED  BY <3>2, <4>1, <4>2
    <3>3. {eventqueue'[i].id : i \in 1..Len(eventqueue')}
            = {eventqueue[j].id : j \in 1..Len(eventqueue)} \ {t.id}
      <4> HIDE DEF t, QueueInv
      <4>1. {eventqueue'[i].id : i \in 1..Len(eventqueue')}
              \subseteq {eventqueue[j].id : j \in 1..Len(eventqueue)} \ {t.id}
        BY <2>1, <3>1
      <4>2. {eventqueue[j].id : j \in 1..Len(eventqueue)} \ {t.id}
              \subseteq {eventqueue'[i].id : i \in 1..Len(eventqueue')}
        BY <3>2
      <4> QED  BY <4>1, <4>2
    <3> QED  BY <1>1, <3>3 DEF Queued
  <2>3. t.id \in Queued
    BY <1>1 DEF Queued
  <2>4. Ran' = Ran
    BY <1>1 DEF Ran
  <2> QED  BY <1>1, <2>2, <2>3, <2>4 DEF NoneLost
<1> QED  BY <1>5, <1>6, <1>7, <1>8, <1>9, <1>10

LEMMA QueueInvBeginPass ==
  ASSUME QueueInv, BeginPass
  PROVE  QueueInv'
<1> USE DEF QueueInv
<1>1. /\ now = NoPass /\ now' = clock /\ madeBefore' = made
      /\ UNCHANGED <<clock, eventqueue, running, made, ran, removed>>
  BY DEF BeginPass
<1>2. clock \in Nat /\ made \in Nat
  BY DEF TypeOK
<1>3. TypeOK'
  BY <1>1, <1>2 DEF TypeOK
<1>4. Sorted' /\ Numbered'
  BY <1>1 DEF Sorted, Numbered
<1>5. RunsTheHead'
  BY <1>1 DEF RunsTheHead
<1>6. PassIsPast'
  BY <1>1, <1>2 DEF PassIsPast, Numbered
<1>7. NoneLost'
  <2>1. Queued' = Queued /\ Ran' = Ran
    BY <1>1 DEF Queued, Ran
  <2> QED  BY <1>1, <2>1 DEF NoneLost
<1> QED  BY <1>3, <1>4, <1>5, <1>6, <1>7

LEMMA QueueInvRunHandler ==
  ASSUME QueueInv, RunHandler
  PROVE  QueueInv'
<1> USE DEF QueueInv
<1> DEFINE t == eventqueue[1]
<1>1. eventqueue \in Seq(Timer) /\ eventqueue # <<>> /\ ran \in Seq(Timer)
  BY DEF RunHandler, TypeOK
<1>2. Len(eventqueue) > 0 /\ Head(eventqueue) = t /\ t \in Timer
  BY <1>1, ElementOfSeq, EmptySeq
<1>3. /\ now # NoPass /\ running = NoTimer /\ Due(t)
      /\ running' = t.id /\ ran' = Append(ran, t)
      /\ UNCHANGED <<clock, eventqueue, now, made, madeBefore, removed>>
  BY <1>2 DEF RunHandler
<1>4. t.id \in Nat /\ t.id # NoTimer
  BY <1>2 DEF Timer
<1>5. /\ ran' \in Seq(Timer) /\ Len(ran') = Len(ran) + 1 /\ ran'[Len(ran')] = t
      /\ \A i \in 1..Len(ran) : ran'[i] = ran[i]
  BY <1>1, <1>2, <1>3, AppendProperties
<1>6. TypeOK'
  BY <1>3, <1>4, <1>5 DEF TypeOK
<1>7. Sorted'
  BY <1>3 DEF Sorted
<1>8. Numbered'
  BY <1>2, <1>3, <1>5 DEF Numbered
<1>9. RunsTheHead'
  BY <1>2, <1>3, <1>5 DEF RunsTheHead, Due
<1>10. PassIsPast'
  BY <1>3 DEF PassIsPast, Due
<1>11. NoneLost'
  <2>1. t.id \in Queued
    BY <1>2, <1>3, <1>4 DEF Queued
  <2>2. Queued' = Queued \ {t.id}
    <3>1. NoTimer \notin {eventqueue[i].id : i \in 1..Len(eventqueue)}
      <4>1. \A i \in 1..Len(eventqueue) : eventqueue[i] \in Timer
        BY <1>1, ElementOfSeq
      <4> QED  BY <4>1 DEF Timer
    <3> QED  BY <1>3, <3>1 DEF Queued
  <2>3. Ran' = Ran \cup {t.id}
    <3>1. \A i \in 1..Len(ran') : i \in 1..Len(ran) \/ i = Len(ran')
      BY <1>1, <1>5
    <3>2. Len(ran') \in 1..Len(ran') /\ 1..Len(ran) \subseteq 1..Len(ran')
      BY <1>1, <1>5
    <3> QED  BY <1>5, <3>1, <3>2 DEF Ran
  <2> QED  BY <1>3, <2>1, <2>2, <2>3 DEF NoneLost
<1> QED  BY <1>6, <1>7, <1>8, <1>9, <1>10, <1>11

LEMMA QueueInvHandlerReturns ==
  ASSUME QueueInv, HandlerReturns
  PROVE  QueueInv'
<1> USE DEF QueueInv
<1>1. /\ running # NoTimer /\ running' = NoTimer
      /\ UNCHANGED <<clock, now, made, madeBefore, ran, removed>>
  BY DEF HandlerReturns
<1>2. eventqueue \in Seq(Timer) /\ Len(eventqueue) > 0 /\ eventqueue[1].id = running
  BY <1>1 DEF TypeOK, RunsTheHead
<1>3. eventqueue' = SubSeq(eventqueue, 2, Len(eventqueue))
  <2>1. PICK k \in 1..Len(eventqueue) :
          /\ eventqueue[k].id = running
          /\ eventqueue' = SubSeq(eventqueue, k + 1, Len(eventqueue))
    BY DEF HandlerReturns
  <2>2. k = 1
    BY <1>2, <2>1 DEF Numbered
  <2> QED  BY <2>1, <2>2
<1>4. /\ eventqueue' \in Seq(Timer)
      /\ Len(eventqueue') = Len(eventqueue) - 1
      /\ \A i \in 1..Len(eventqueue) - 1 : eventqueue'[i] = eventqueue[i + 1]
  BY <1>2, <1>3, SuffixFacts
<1>o. \A i \in 1..Len(eventqueue') :
        i + 1 \in 1..Len(eventqueue) /\ eventqueue'[i] = eventqueue[i + 1]
  BY <1>2, <1>4
<1>5. TypeOK'
  BY <1>1, <1>4 DEF TypeOK, NoTimer
<1>s. \A i, j \in 1..Len(eventqueue') : i < j => i + 1 < j + 1
  OBVIOUS
<1>6. Sorted'
  BY <1>o, <1>s DEF Sorted
<1>7. Numbered'
  BY <1>1, <1>o, <1>s DEF Numbered
<1>8. RunsTheHead' /\ PassIsPast'
  BY <1>1, <1>o DEF RunsTheHead, PassIsPast, Due
<1>9. NoneLost'
  <2>1. NoTimer \notin {eventqueue'[i].id : i \in 1..Len(eventqueue')}
    <3>1. \A i \in 1..Len(eventqueue') : eventqueue'[i] \in Timer
      BY <1>4, ElementOfSeq
    <3> QED  BY <3>1 DEF Timer
  <2>2. {eventqueue'[i].id : i \in 1..Len(eventqueue')}
          = {eventqueue[i].id : i \in 1..Len(eventqueue)} \ {running}
    <3>1. ASSUME NEW i \in 1..Len(eventqueue')
          PROVE  /\ eventqueue'[i].id \in {eventqueue[j].id : j \in 1..Len(eventqueue)}
                 /\ eventqueue'[i].id # running
      <4>1. 1 \in 1..Len(eventqueue) /\ 1 < i + 1
        BY <1>2
      <4> QED  BY <1>2, <1>o, <4>1 DEF Numbered
    <3>2. ASSUME NEW j \in 1..Len(eventqueue), eventqueue[j].id # running
          PROVE  eventqueue[j].id \in {eventqueue'[i].id : i \in 1..Len(eventqueue')}
      <4>1. j # 1
        BY <1>2, <3>2
      <4>2. j - 1 \in 1..Len(eventqueue') /\ eventqueue'[j - 1] = eventqueue[j]
        BY <1>4, <4>1
      <4> QED  BY <4>2
    <3> QED  BY <3>1, <3>2
  <2>3. Queued' = Queued /\ Ran' = Ran
    BY <1>1, <2>1, <2>2 DEF Queued, Ran
  <2> QED  BY <1>1, <2>3 DEF NoneLost
<1> QED  BY <1>5, <1>6, <1>7, <1>8, <1>9

LEMMA QueueInvClock ==
  ASSUME QueueInv, EndPass \/ Tick \/ StepBack, "during" \notin StepsBack
  PROVE  QueueInv'
<1> USE DEF QueueInv
<1>1. UNCHANGED <<eventqueue, running, made, madeBefore, ran, removed>>
  BY DEF EndPass, Tick, StepBack
<1>2. clock \in Nat /\ clock' \in Nat
  BY DEF TypeOK, EndPass, Tick, StepBack
<1>3. \/ now' = NoPass /\ running = NoTimer
      \/ now' = now /\ clock' >= clock
      \/ now' = now /\ now = NoPass
  BY <1>2 DEF EndPass, Tick, StepBack
<1>4. TypeOK'
  BY <1>1, <1>2, <1>3 DEF TypeOK
<1>5. Sorted' /\ Numbered'
  BY <1>1 DEF Sorted, Numbered
<1>6. RunsTheHead'
  BY <1>1, <1>3 DEF RunsTheHead
<1>7. PassIsPast'
  <2>1. now' # NoPass => now' = now /\ clock' >= clock
    BY <1>3
  <2>2. now # NoPass => now \in Nat
    BY DEF TypeOK
  <2> QED  BY <1>1, <1>2, <2>1, <2>2 DEF PassIsPast, Due
<1>8. NoneLost'
  <2>1. Queued' = Queued /\ Ran' = Ran
    BY <1>1 DEF Queued, Ran
  <2> QED  BY <1>1, <2>1 DEF NoneLost
<1> QED  BY <1>4, <1>5, <1>6, <1>7, <1>8

LEMMA QueueInvStep ==
  ASSUME QueueInv, [Next]_vars, "during" \notin StepsBack
  PROVE  QueueInv'
<1>1. CASE UNCHANGED vars
  <2> USE <1>1 DEF vars
  <2>1. TypeOK' /\ Sorted' /\ Numbered' /\ RunsTheHead' /\ PassIsPast'
    BY DEF QueueInv, TypeOK, Sorted, Numbered, RunsTheHead, PassIsPast, Due
  <2>2. NoneLost'
    BY DEF QueueInv, NoneLost, Queued, Ran
  <2> QED  BY <2>1, <2>2 DEF QueueInv
<1> QED
  BY <1>1, QueueInvSetTimer, QueueInvRemTimer, QueueInvBeginPass, QueueInvRunHandler,
     QueueInvHandlerReturns, QueueInvClock DEF Next

LEMMA QueueIsSound ==
  ASSUME "during" \notin StepsBack
  PROVE  Spec => []QueueInv
BY QueueInvInit, QueueInvStep, PTL DEF Spec

(***************************************************************************)
(* No timer is lost: each waits, has run once, or was removed              *)
(* (ccnl_set_timer, ccnl_rem_timer, ccnl_run_events), if the clock is not  *)
(* set back while ccnl_run_events is at work.                              *)
(***************************************************************************)
THEOREM NoTimerIsLost ==
  ASSUME "during" \notin StepsBack
  PROVE  Spec => []NoneLost
<1>1. QueueInv => NoneLost
  BY DEF QueueInv
<1> QED  BY <1>1, QueueIsSound, PTL

(***************************************************************************)
(* A pass of ccnl_run_events serves only what was set before it.           *)
(***************************************************************************)
THEOREM PassesAreBounded ==
  ASSUME "during" \notin StepsBack
  PROVE  Spec => []PassIsBounded
<1>1. QueueInv => PassIsBounded
  <2> SUFFICES ASSUME QueueInv, running # NoTimer
               PROVE  running =< madeBefore
    BY DEF PassIsBounded
  <2>1. 1 \in 1..Len(eventqueue) /\ eventqueue[1].id = running /\ Due(eventqueue[1]) /\ now # NoPass
    BY DEF QueueInv, RunsTheHead, TypeOK, Due
  <2> QED  BY <2>1 DEF QueueInv, PassIsPast
<1> QED  BY <1>1, QueueIsSound, PTL

(***************************************************************************)
(* ccnl_run_events runs the soonest timer of the list.                     *)
(***************************************************************************)
THEOREM SoonestRunsFirst ==
  ASSUME "during" \notin StepsBack
  PROVE  Spec => []SoonestFirst
<1>1. QueueInv => SoonestFirst
  <2> SUFFICES ASSUME QueueInv, running # NoTimer,
                      NEW k \in 1..Len(eventqueue), eventqueue[k].id # running
               PROVE  Sooner(ran[Len(ran)], eventqueue[k])
    BY DEF SoonestFirst
  <2>1. eventqueue[1].id = running /\ ran[Len(ran)] = eventqueue[1]
    BY DEF QueueInv, RunsTheHead
  <2>2. 1 \in 1..Len(eventqueue) /\ 1 < k
    BY <2>1
  <2> QED  BY <2>1, <2>2 DEF QueueInv, Sorted
<1> QED  BY <1>1, QueueIsSound, PTL
-----------------------------------------------------------------------------
(* What has run is past, and sooner than anything that still waits. *)
RanBefore ==
  \A i \in 1..Len(ran) :
    /\ ran[i].at < clock
    /\ \A j \in 1..Len(eventqueue) :
         eventqueue[j].id # running => Sooner(ran[i], eventqueue[j])

OrderInv == QueueInv /\ RanBefore /\ RunInOrder

LEMMA OrderInvStep ==
  ASSUME OrderInv, [Next]_vars, StepsBack = {}
  PROVE  OrderInv'
<1> USE DEF OrderInv
<1>q. QueueInv'
  BY QueueInvStep
<1>t. /\ \A i \in 1..Len(eventqueue) : eventqueue[i] \in Timer
      /\ \A i \in 1..Len(ran) : ran[i] \in Timer
  BY ElementOfSeq DEF QueueInv, TypeOK
<1>n. /\ \A i \in 1..Len(eventqueue) : eventqueue[i].at \in Nat /\ eventqueue[i].id \in Nat
      /\ \A i \in 1..Len(ran) : ran[i].at \in Nat /\ ran[i].id \in Nat
      /\ clock \in Nat
  BY <1>t DEF Timer, QueueInv, TypeOK
<1>1. ASSUME NEW d \in Delays, SetTimer(d)
      PROVE  RanBefore' /\ RunInOrder'
  <2> DEFINE t == [id |-> made + 1, at |-> clock + d]
  <2>1. eventqueue' = Insert(eventqueue, t) /\ UNCHANGED <<clock, running, ran>>
    BY <1>1 DEF SetTimer
  <2>2. t \in Timer /\ t.at = clock + d /\ d \in Nat
    BY DEF QueueInv, TypeOK, Timer, NoTimer
  <2> HIDE DEF t
  <2>3. \A j \in 1..Len(eventqueue') :
          eventqueue'[j] = t \/ \E k \in 1..Len(eventqueue) : eventqueue'[j] = eventqueue[k]
    <3> DEFINE k == Place(eventqueue, t.at)
    <3>1. k \in 1..Len(eventqueue) + 1
      BY <2>2, PlaceIsThere DEF QueueInv, TypeOK, Timer
    <3>2. /\ Len(eventqueue') = Len(eventqueue) + 1
          /\ \A i \in 1..Len(eventqueue) + 1 :
               eventqueue'[i] = IF i < k THEN eventqueue[i] ELSE IF i = k THEN t ELSE eventqueue[i - 1]
      BY <2>1, <2>2, InsertFacts DEF QueueInv, TypeOK
    <3> HIDE DEF k
    <3> SUFFICES ASSUME NEW j \in 1..Len(eventqueue')
                 PROVE  eventqueue'[j] = t \/ \E i \in 1..Len(eventqueue) : eventqueue'[j] = eventqueue[i]
      OBVIOUS
    <3>3. CASE j < k
      BY <3>1, <3>2, <3>3
    <3>4. CASE j = k
      BY <3>2, <3>4
    <3>5. CASE j > k
      <4>1. j - 1 \in 1..Len(eventqueue) /\ eventqueue'[j] = eventqueue[j - 1]
        BY <3>1, <3>2, <3>5
      <4> QED  BY <4>1
    <3> QED  BY <3>1, <3>3, <3>4, <3>5
  <2>4. \A i \in 1..Len(ran) : Sooner(ran[i], t)
    BY <1>n, <2>2 DEF RanBefore, Sooner
  <2> QED  BY <2>1, <2>3, <2>4 DEF RanBefore, RunInOrder
<1>2. ASSUME NEW k \in 1..Len(eventqueue), RemTimer(k)
      PROVE  RanBefore' /\ RunInOrder'
  <2>1. eventqueue' = Without(eventqueue, k) /\ UNCHANGED <<clock, running, ran>>
    BY <1>2 DEF RemTimer
  <2>2. \A j \in 1..Len(eventqueue') : \E i \in 1..Len(eventqueue) : eventqueue'[j] = eventqueue[i]
    <3>1. /\ Len(eventqueue') = Len(eventqueue) - 1
          /\ \A i \in 1..Len(eventqueue) - 1 :
               eventqueue'[i] = IF i < k THEN eventqueue[i] ELSE eventqueue[i + 1]
      BY <2>1, WithoutFacts DEF QueueInv, TypeOK
    <3> QED  BY <3>1
  <2> QED  BY <2>1, <2>2 DEF RanBefore, RunInOrder
<1>3. ASSUME RunHandler
      PROVE  RanBefore' /\ RunInOrder'
  <2> DEFINE t == eventqueue[1]
  <2>1. /\ Len(eventqueue) > 0 /\ Head(eventqueue) = t /\ t \in Timer
        /\ ran \in Seq(Timer) /\ eventqueue \in Seq(Timer)
    BY <1>3, <1>t, EmptySeq DEF RunHandler, QueueInv, TypeOK
  <2>2. /\ now # NoPass /\ running = NoTimer /\ Due(t)
        /\ running' = t.id /\ ran' = Append(ran, t)
        /\ UNCHANGED <<clock, eventqueue, now>>
    BY <1>3, <2>1 DEF RunHandler
  <2>3. /\ Len(ran') = Len(ran) + 1 /\ ran'[Len(ran')] = t
        /\ \A i \in 1..Len(ran) : ran'[i] = ran[i]
    BY <2>1, <2>2, AppendProperties
  <2>4. \A i \in 1..Len(ran) : Sooner(ran[i], t)
    BY <2>1, <2>2 DEF RanBefore, Timer
  <2>5. t.at < clock
    <3>1. now \in Nat /\ now =< clock /\ t.at < now
      BY <2>2 DEF QueueInv, TypeOK, PassIsPast, Due
    <3> QED  BY <1>n, <2>1, <3>1
  <2>6. \A j \in 1..Len(eventqueue) : eventqueue[j].id # t.id => Sooner(t, eventqueue[j])
    <3>1. \A j \in 1..Len(eventqueue) : j # 1 => 1 < j
      OBVIOUS
    <3> QED  BY <2>1, <3>1 DEF QueueInv, Sorted
  <2>7. \A i \in 1..Len(ran') : (i \in 1..Len(ran) /\ ran'[i] = ran[i]) \/ (i = Len(ran) + 1 /\ ran'[i] = t)
    BY <2>1, <2>3
  <2>8. RanBefore'
    <3>1. \A i \in 1..Len(ran), j \in 1..Len(eventqueue) : Sooner(ran[i], eventqueue[j])
      BY <1>t, <2>2 DEF RanBefore, Timer
    <3> QED  BY <2>2, <2>5, <2>6, <2>7, <3>1 DEF RanBefore
  <2>9. RunInOrder'
    <3>1. \A i, j \in 1..Len(ran') : i < j => i \in 1..Len(ran)
      BY <2>1, <2>3
    <3> QED  BY <2>4, <2>7, <3>1 DEF RunInOrder
  <2> QED  BY <2>8, <2>9
<1>4. ASSUME HandlerReturns
      PROVE  RanBefore' /\ RunInOrder'
  <2>1. UNCHANGED <<clock, ran>> /\ running' = NoTimer /\ running # NoTimer
    BY <1>4 DEF HandlerReturns
  <2>2. eventqueue \in Seq(Timer) /\ Len(eventqueue) > 0 /\ eventqueue[1].id = running
    BY <2>1 DEF QueueInv, TypeOK, RunsTheHead
  <2>3. eventqueue' = SubSeq(eventqueue, 2, Len(eventqueue))
    <3>1. PICK k \in 1..Len(eventqueue) :
            /\ eventqueue[k].id = running
            /\ eventqueue' = SubSeq(eventqueue, k + 1, Len(eventqueue))
      BY <1>4 DEF HandlerReturns
    <3>2. k = 1
      BY <2>2, <3>1 DEF QueueInv, Numbered
    <3> QED  BY <3>1, <3>2
  <2>4. \A j \in 1..Len(eventqueue') :
          j + 1 \in 1..Len(eventqueue) /\ eventqueue'[j] = eventqueue[j + 1]
    BY <2>2, <2>3, SuffixFacts
  <2>5. \A j \in 1..Len(eventqueue') : eventqueue[j + 1].id # running
    <3>1. \A j \in 1..Len(eventqueue') : 1 \in 1..Len(eventqueue) /\ 1 < j + 1
      BY <2>2
    <3> QED  BY <2>2, <2>4, <3>1 DEF QueueInv, Numbered
  <2> QED  BY <2>1, <2>4, <2>5 DEF RanBefore, RunInOrder
<1>5. ASSUME BeginPass \/ EndPass \/ Tick \/ UNCHANGED vars
      PROVE  RanBefore' /\ RunInOrder'
  <2>1. UNCHANGED <<eventqueue, running, ran>> /\ clock' \in Nat /\ clock' >= clock
    BY <1>5, <1>n DEF BeginPass, EndPass, Tick, vars
  <2> QED  BY <1>n, <2>1 DEF RanBefore, RunInOrder
<1>6. ~ StepBack
  BY DEF StepBack
<1> QED  BY <1>q, <1>1, <1>2, <1>3, <1>4, <1>5, <1>6 DEF Next

(***************************************************************************)
(* Handlers run in the order of their times, and for equal times in the    *)
(* order of ccnl_set_timer, if the clock is never set back.                *)
(***************************************************************************)
THEOREM HandlersRunInOrder ==
  ASSUME StepsBack = {}
  PROVE  Spec => []RunInOrder
<1>1. Init => OrderInv
  <2>1. Init => RanBefore /\ RunInOrder
    BY DEF Init, RanBefore, RunInOrder
  <2> QED  BY <2>1, QueueInvInit DEF OrderInv
<1>2. OrderInv /\ [Next]_vars => OrderInv'
  BY OrderInvStep
<1>3. OrderInv => RunInOrder
  BY DEF OrderInv
<1> QED  BY <1>1, <1>2, <1>3, PTL DEF Spec
=============================================================================
