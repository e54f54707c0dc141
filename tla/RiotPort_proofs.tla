--------------------------- MODULE RiotPort_proofs ---------------------------
(***************************************************************************)
(* What the tables, the timers and the queue of the RIOT port keep between *)
(* them, for every set of names, every size of the queue and every time.   *)
(***************************************************************************)
EXTENDS RiotPort, FiniteSetTheorems, SequenceTheorems, WellFoundedInduction, TLAPS

(* A name is cached once: ccnl_fwd_handleContent and ccnl_cs_add look for it first. *)
CachedOnce(c) == \A j, k \in DOMAIN c : c[j] = c[k] => j = k

(* The parts of InterestsLive and Timed, for tables and a queue given one by one *)
LiveQueue(P, q) ==
  \A k \in DOMAIN q : q[k].type \in {"INT_RETRANS", "INT_TIMEOUT"} => q[k].obj \in PitEntries(P)
LiveTimers(P, t) == \A n \in Name : Has(t, Retrans(n)) \/ Has(t, Timeout(n)) => n \in P

Holds(q, type, obj) == \E k \in DOMAIN q : q[k] = [type |-> type, obj |-> obj]
Doubted(n) == \E m \in Name \ {n} : <<m, n>> \in PathPrefix
EntryTimed(n, t, q, l) ==
  Has(t, Timeout(n)) \/ Holds(q, "INT_TIMEOUT", PitEntry(n)) \/ PitEntry(n) \in l
ContentTimed(n, t, q, l) ==
  Has(t, Expiry(n)) \/ Holds(q, "CS_EXPIRE", Cont(n)) \/ Cont(n) \in l \/ Doubted(n)

QueueOK(q) == q \in Seq(Message) /\ Len(q) =< QueueSize
TimersOK(t) == DOMAIN t \subseteq Timer /\ t \in [DOMAIN t -> Nat]
StoreOK(c) == c \in Seq(Name) /\ Len(c) =< MaxCache /\ CachedOnce(c)

(***************************************************************************)
(* The inductive invariant, of the names P that are pending, the contents  *)
(* c, the timers t, the messages q that wait and the lost ones l           *)
(***************************************************************************)
Good(P, c, t, q, l) ==
  /\ P \subseteq Name /\ StoreOK(c) /\ TimersOK(t) /\ QueueOK(q) /\ l \subseteq Object
  /\ LiveQueue(P, q) /\ LiveTimers(P, t)
  /\ \A n \in P : EntryTimed(n, t, q, l)
  /\ \A k \in DOMAIN c : ContentTimed(c[k], t, q, l)

PitOK(p) ==
  /\ p \in [DOMAIN p -> Entry]
  /\ IsFiniteSet(DOMAIN p) /\ Cardinality(DOMAIN p) =< MaxPit
MailOK(m) == m \in Seq({"chunk", "timeout", "stray"}) /\ Len(m) =< MailboxSize
AppOK == broken \in BOOLEAN /\ app \in {"idle", "asked", "waiting"}

IInv ==
  /\ Good(DOMAIN pit, contents, evtimer, queue, lost)
  /\ PitOK(pit) /\ MailOK(mailbox) /\ faces \subseteq Peer /\ AppOK
-----------------------------------------------------------------------------
(* Objects and timers of different kinds, or of different names, are different. *)
LEMMA Distinct ==
  /\ \A n, m \in Name : PitEntry(n) # Cont(m) /\ Cont(n) # PitEntry(m) /\ PitEntry(n) # Freed
                        /\ Cont(n) # Freed
  /\ \A n, m \in Name : PitEntry(n) = PitEntry(m) => n = m
  /\ \A n, m \in Name : Cont(n) = Cont(m) => n = m
  /\ \A n \in Name, p \in Peer : PitEntry(n) # Face(p) /\ Cont(n) # Face(p)
<1>1. \A a, b : <<a, b>> # Freed
  BY DEF Freed
<1> QED  BY <1>1 DEF PitEntry, Cont, Face

LEMMA DistinctTimers ==
  /\ \A n, m \in Name : /\ Retrans(n) # Timeout(m) /\ Timeout(m) # Retrans(n)
                        /\ Retrans(n) # Expiry(m) /\ Expiry(m) # Retrans(n)
                        /\ Timeout(n) # Expiry(m) /\ Expiry(m) # Timeout(n)
  /\ \A n, m \in Name : Retrans(n) = Retrans(m) => n = m
  /\ \A n, m \in Name : Timeout(n) = Timeout(m) => n = m
  /\ \A n, m \in Name : Expiry(n) = Expiry(m) => n = m
  /\ \A n \in Name : Wait # Retrans(n) /\ Wait # Timeout(n) /\ Wait # Expiry(n)
  /\ \A n \in Name, p \in Peer :
       Idle(p) # Retrans(n) /\ Idle(p) # Timeout(n) /\ Idle(p) # Expiry(n)
  /\ \A p \in Peer : Wait # Idle(p)
BY DEF Retrans, Timeout, Expiry, Idle, Wait, PitEntry, Cont, Face

(* What a timer's message carries, and what a message is that has an object *)
LEMMA Kinds ==
  /\ \A n \in Name : /\ Retrans(n)[1] = "INT_RETRANS" /\ Retrans(n)[2] = PitEntry(n)
                     /\ Timeout(n)[1] = "INT_TIMEOUT" /\ Timeout(n)[2] = PitEntry(n)
                     /\ Expiry(n)[1] = "CS_EXPIRE" /\ Expiry(n)[2] = Cont(n)
  /\ \A p \in Peer : Idle(p)[1] = "FACE_TIMEOUT" /\ Idle(p)[2] = Face(p)
  /\ \A n \in Name : PitEntry(n) \in Object /\ Cont(n) \in Object
  /\ \A p \in Peer : Face(p) \in Object
  /\ Freed \in Object
BY DEF Retrans, Timeout, Expiry, Idle, Object

LEMMA TimerMessages ==
  ASSUME NEW m \in Message, m.type \in TimerType
  PROVE  m \in TimerMsg
BY DEF Message, TimerMsg, Packet, Request, Zero, TimerType
-----------------------------------------------------------------------------
(* Marking or erasing messages changes no other message, nor their number. *)
LEMMA DanglingSeq ==
  ASSUME NEW q \in Seq(Message), NEW objs
  PROVE  /\ Dangling(q, objs) \in Seq(Message) /\ Len(Dangling(q, objs)) = Len(q)
         /\ DOMAIN Dangling(q, objs) = DOMAIN q
         /\ \A k \in DOMAIN q :
              Dangling(q, objs)[k] = IF PointsTo(q[k], objs)
                                     THEN [type |-> q[k].type, obj |-> Freed] ELSE q[k]
<1>1. \A k \in DOMAIN q : q[k] \in Message
  OBVIOUS
<1>2. ASSUME NEW k \in DOMAIN q, PointsTo(q[k], objs)
      PROVE  /\ [q[k] EXCEPT !.obj = Freed] = [type |-> q[k].type, obj |-> Freed]
             /\ [type |-> q[k].type, obj |-> Freed] \in Message
  <2>1. q[k] \in TimerMsg
    BY <1>1, <1>2, TimerMessages DEF PointsTo
  <2> QED  BY <2>1, Kinds DEF TimerMsg, Message
<1>3. DOMAIN q = 1..Len(q) /\ Len(q) \in Nat
  OBVIOUS
<1>4. Dangling(q, objs) \in [1..Len(q) -> Message]
  BY <1>1, <1>2, <1>3 DEF Dangling
<1>5. Dangling(q, objs) \in Seq(Message)
  BY <1>3, <1>4
<1>6. Len(Dangling(q, objs)) = Len(q)
  BY <1>3, <1>4, <1>5
<1> QED  BY <1>2, <1>3, <1>5, <1>6 DEF Dangling

LEMMA PurgedSeq ==
  ASSUME NEW q \in Seq(Message), NEW objs
  PROVE  /\ Purged(q, objs) \in Seq(Message) /\ Len(Purged(q, objs)) = Len(q)
         /\ DOMAIN Purged(q, objs) = DOMAIN q
         /\ \A k \in DOMAIN q :
              Purged(q, objs)[k] = IF PointsTo(q[k], objs) THEN Zero ELSE q[k]
<1>1. \A k \in DOMAIN q : q[k] \in Message
  OBVIOUS
<1>2. Zero \in Message
  BY DEF Message
<1>3. DOMAIN q = 1..Len(q) /\ Len(q) \in Nat
  OBVIOUS
<1>4. Purged(q, objs) \in [1..Len(q) -> Message]
  BY <1>1, <1>2, <1>3 DEF Purged
<1>5. Purged(q, objs) \in Seq(Message)
  BY <1>3, <1>4
<1>6. Len(Purged(q, objs)) = Len(q)
  BY <1>3, <1>4, <1>5
<1> QED  BY <1>3, <1>5, <1>6 DEF Purged

-----------------------------------------------------------------------------
(* A message that is taken off the queue, unless it is the one that times something *)
LEMMA Taken ==
  ASSUME NEW P, NEW c, NEW t, NEW q, NEW l, Good(P, c, t, q, l), q # <<>>,
         \A n \in P : Head(q) # [type |-> "INT_TIMEOUT", obj |-> PitEntry(n)],
         \A k \in DOMAIN c : \/ Head(q) # [type |-> "CS_EXPIRE", obj |-> Cont(c[k])]
                             \/ Doubted(c[k])
  PROVE  Good(P, c, t, Tail(q), l)
<1>1. q \in Seq(Message) /\ Len(q) =< QueueSize /\ QueueSize \in Nat
  BY RiotAssumption DEF Good, QueueOK
<1>2. /\ Tail(q) \in Seq(Message) /\ Len(Tail(q)) = Len(q) - 1
      /\ \A k \in DOMAIN Tail(q) : k + 1 \in DOMAIN q /\ Tail(q)[k] = q[k + 1]
      /\ \A k \in DOMAIN q : q[k] = Head(q) \/ (k - 1 \in DOMAIN Tail(q) /\ Tail(q)[k - 1] = q[k])
  BY <1>1, HeadTailProperties
<1>3. QueueOK(Tail(q))
  BY <1>1, <1>2 DEF QueueOK
<1>4. LiveQueue(P, Tail(q))
  BY <1>2 DEF LiveQueue, Good
<1>5. ASSUME NEW type, NEW obj, Holds(q, type, obj), Head(q) # [type |-> type, obj |-> obj]
      PROVE  Holds(Tail(q), type, obj)
  BY <1>2, <1>5 DEF Holds
<1>6. \A n \in P : EntryTimed(n, t, Tail(q), l)
  BY <1>5 DEF EntryTimed, Good
<1>7. \A k \in DOMAIN c : ContentTimed(c[k], t, Tail(q), l)
  BY <1>5 DEF ContentTimed, Good
<1> QED  BY <1>3, <1>4, <1>6, <1>7 DEF Good

(* A message that is put in the queue: one of an entry's timer points to that entry. *)
LEMMA MessagePut ==
  ASSUME NEW P, NEW c, NEW t, NEW q, NEW l, Good(P, c, t, q, l),
         NEW m \in Message, Len(q) < QueueSize,
         m.type \in {"INT_RETRANS", "INT_TIMEOUT"} => m.obj \in PitEntries(P)
  PROVE  /\ Good(P, c, t, Append(q, m), l)
         /\ \E k \in DOMAIN Append(q, m) : Append(q, m)[k] = m
<1>1. q \in Seq(Message) /\ Len(q) \in Nat /\ QueueSize \in Nat
  BY RiotAssumption DEF Good, QueueOK
<1>2. /\ Append(q, m) \in Seq(Message) /\ Len(Append(q, m)) = Len(q) + 1
      /\ \A k \in DOMAIN Append(q, m) :
           \/ k \in DOMAIN q /\ Append(q, m)[k] = q[k]
           \/ k = Len(q) + 1 /\ Append(q, m)[k] = m
      /\ Len(q) + 1 \in DOMAIN Append(q, m)
      /\ \A k \in DOMAIN q : k \in DOMAIN Append(q, m) /\ Append(q, m)[k] = q[k]
  BY <1>1, AppendProperties
<1>3. QueueOK(Append(q, m))
  BY <1>1, <1>2 DEF QueueOK
<1>4. LiveQueue(P, Append(q, m))
  BY <1>2 DEF LiveQueue, Good
<1>5. ASSUME NEW type, NEW obj, Holds(q, type, obj)
      PROVE  Holds(Append(q, m), type, obj)
  BY <1>2, <1>5 DEF Holds
<1>6. \A n \in P : EntryTimed(n, t, Append(q, m), l)
  BY <1>5 DEF EntryTimed, Good
<1>7. \A k \in DOMAIN c : ContentTimed(c[k], t, Append(q, m), l)
  BY <1>5 DEF ContentTimed, Good
<1> QED  BY <1>2, <1>3, <1>4, <1>6, <1>7 DEF Good

(* Timers that are started or stopped and belong to no entry and no content *)
LEMMA OtherTimers ==
  ASSUME NEW P, NEW c, NEW t, NEW q, NEW l, Good(P, c, t, q, l), NEW u, TimersOK(u),
         \A n \in Name : /\ Has(u, Retrans(n)) => Has(t, Retrans(n)) \/ n \in P
                         /\ Has(u, Timeout(n)) => Has(t, Timeout(n))
                         /\ Has(t, Timeout(n)) => Has(u, Timeout(n))
                         /\ Has(t, Expiry(n)) => Has(u, Expiry(n))
  PROVE  Good(P, c, u, q, l)
<1>1. P \subseteq Name /\ c \in Seq(Name) /\ \A k \in DOMAIN c : c[k] \in Name
  BY DEF Good, StoreOK
<1>2. LiveTimers(P, u)
  BY DEF LiveTimers, Good
<1>3. \A n \in P : EntryTimed(n, u, q, l)
  BY <1>1 DEF EntryTimed, Good
<1>4. \A k \in DOMAIN c : ContentTimed(c[k], u, q, l)
  BY <1>1 DEF ContentTimed, Good
<1> QED  BY <1>2, <1>3, <1>4 DEF Good

LEMMA ArmedOK ==
  ASSUME NEW t, TimersOK(t), NEW which \in SUBSET Timer, NEW ticks \in Nat
  PROVE  TimersOK(Armed(t, which, ticks)) /\ DOMAIN Armed(t, which, ticks) = DOMAIN t \cup which
BY DEF TimersOK, Armed

LEMMA DisarmedOK ==
  ASSUME NEW t, TimersOK(t), NEW which
  PROVE  TimersOK(Disarmed(t, which)) /\ DOMAIN Disarmed(t, which) = DOMAIN t \ which
BY DEF TimersOK, Disarmed
-----------------------------------------------------------------------------
(* An Interest becomes pending: both its timers start. *)
LEMMA EntryMade ==
  ASSUME NEW P, NEW c, NEW t, NEW q, NEW l, Good(P, c, t, q, l), NEW n \in Name
  PROVE  Good(P \cup {n}, c,
              Armed(Armed(t, {Retrans(n)}, RetransTime), {Timeout(n)}, Lifetime), q, l)
<1> DEFINE u == Armed(t, {Retrans(n)}, RetransTime)
           v == Armed(u, {Timeout(n)}, Lifetime)
<1>1. Retrans(n) \in Timer /\ Timeout(n) \in Timer /\ RetransTime \in Nat /\ Lifetime \in Nat
  BY RiotAssumption DEF Timer
<1>2. TimersOK(u) /\ DOMAIN u = DOMAIN t \cup {Retrans(n)}
  <2>1. TimersOK(t) /\ {Retrans(n)} \in SUBSET Timer
    BY <1>1 DEF Good
  <2> QED  BY <1>1, <2>1, ArmedOK
<1> HIDE DEF u
<1>3. TimersOK(v) /\ DOMAIN v = DOMAIN t \cup {Retrans(n), Timeout(n)}
  <2>1. {Timeout(n)} \in SUBSET Timer
    BY <1>1
  <2>2. TimersOK(v) /\ DOMAIN v = DOMAIN u \cup {Timeout(n)}
    BY <1>1, <1>2, <2>1, ArmedOK
  <2> QED  BY <1>2, <2>2
<1> HIDE DEF v
<1>4. P \cup {n} \subseteq Name /\ \A k \in DOMAIN c : c[k] \in Name
  BY DEF Good, StoreOK
<1>5. LiveTimers(P \cup {n}, v)
  BY <1>3, DistinctTimers DEF LiveTimers, Good, Has
<1>6. LiveQueue(P \cup {n}, q)
  BY DEF LiveQueue, Good, PitEntries
<1>7. \A m \in P \cup {n} : EntryTimed(m, v, q, l)
  BY <1>3 DEF EntryTimed, Good, Has
<1>8. \A k \in DOMAIN c : ContentTimed(c[k], v, q, l)
  BY <1>3 DEF ContentTimed, Good, Has
<1>9. Good(P \cup {n}, c, v, q, l)
  BY <1>3, <1>4, <1>5, <1>6, <1>7, <1>8 DEF Good
<1> QED  BY <1>9 DEF u, v

(* Entries go, and with them their timers and every message that points to them. *)
LEMMA EntriesGone ==
  ASSUME NEW P, NEW c, NEW t, NEW q, NEW l, Good(P, c, t, q, l), NEW G \in SUBSET Name
  PROVE  Good(P \ G, c, Disarmed(t, TimersOf(G)), Purged(q, PitEntries(G)), l \ PitEntries(G))
<1> DEFINE u == Disarmed(t, TimersOf(G))
           r == Purged(q, PitEntries(G))
           m == l \ PitEntries(G)
<1>1. TimersOK(u) /\ DOMAIN u = DOMAIN t \ TimersOf(G)
  BY DisarmedOK DEF Good
<1> HIDE DEF u
<1>2. q \in Seq(Message) /\ Len(q) =< QueueSize
  BY DEF Good, QueueOK
<1>3. /\ r \in Seq(Message) /\ Len(r) = Len(q) /\ DOMAIN r = DOMAIN q
      /\ \A k \in DOMAIN q : r[k] = IF PointsTo(q[k], PitEntries(G)) THEN Zero ELSE q[k]
  BY <1>2, PurgedSeq
<1> HIDE DEF r
<1>4. P \subseteq Name /\ \A k \in DOMAIN c : c[k] \in Name
  BY DEF Good, StoreOK
<1>5. \A n \in Name : n \notin G => PitEntry(n) \notin PitEntries(G) /\ Timeout(n) \notin TimersOf(G)
  BY Distinct, DistinctTimers DEF PitEntries, TimersOf
<1>6. \A n \in Name : Cont(n) \notin PitEntries(G) /\ Expiry(n) \notin TimersOf(G)
  BY Distinct, DistinctTimers DEF PitEntries, TimersOf
<1>7. \A n \in G : PitEntry(n) \in PitEntries(G) /\ Retrans(n) \in TimersOf(G) /\ Timeout(n) \in TimersOf(G)
  BY DEF PitEntries, TimersOf
<1>8. ASSUME NEW type, NEW obj, Holds(q, type, obj), obj \notin PitEntries(G)
      PROVE  Holds(r, type, obj)
  BY <1>3, <1>8 DEF Holds, PointsTo
<1>9. LiveTimers(P \ G, u)
  BY <1>1, <1>7 DEF LiveTimers, Good, Has
<1>10. LiveQueue(P \ G, r)
  <2>1. SUFFICES ASSUME NEW k \in DOMAIN r, r[k].type \in {"INT_RETRANS", "INT_TIMEOUT"}
                 PROVE  r[k].obj \in PitEntries(P \ G)
    BY DEF LiveQueue
  <2>2. r[k] # Zero
    BY <2>1 DEF Zero
  <2>3. k \in DOMAIN q /\ r[k] = q[k] /\ ~ PointsTo(q[k], PitEntries(G))
    BY <1>3, <2>2
  <2>4. q[k].obj \in PitEntries(P)
    BY <2>1, <2>3 DEF LiveQueue, Good
  <2>5. q[k].obj \notin PitEntries(G)
    BY <2>1, <2>3 DEF PointsTo, TimerType
  <2> QED  BY <2>3, <2>4, <2>5 DEF PitEntries
<1>11. \A n \in P \ G : EntryTimed(n, u, r, m)
  BY <1>1, <1>4, <1>5, <1>8 DEF EntryTimed, Good, Has
<1>12. \A k \in DOMAIN c : ContentTimed(c[k], u, r, m)
  BY <1>1, <1>4, <1>6, <1>8 DEF ContentTimed, Good, Has
<1>13. QueueOK(r)
  BY <1>2, <1>3 DEF QueueOK
<1>14. Good(P \ G, c, u, r, m)
  BY <1>1, <1>4, <1>9, <1>10, <1>11, <1>12, <1>13 DEF Good
<1> QED  BY <1>14 DEF u, r

(* A content goes, and its timer; the messages that point to it do so no more. *)
LEMMA ContentGone ==
  ASSUME NEW P, NEW t, NEW q, NEW l, Good(P, contents, t, q, l), NEW k \in DOMAIN contents
  PROVE  /\ Good(P, Dropped(k), Disarmed(t, {Expiry(contents[k])}),
                 Dangling(q, {Cont(contents[k])}), l \ {Cont(contents[k])})
         /\ Len(Dropped(k)) = Len(contents) - 1
         /\ \A j \in DOMAIN Dropped(k) : \E i \in DOMAIN contents : Dropped(k)[j] = contents[i]
<1> DEFINE n == contents[k]
           d == Dropped(k)
           u == Disarmed(t, {Expiry(n)})
           r == Dangling(q, {Cont(n)})
           m == l \ {Cont(n)}
<1>1. /\ contents \in Seq(Name) /\ Len(contents) =< MaxCache /\ CachedOnce(contents)
      /\ Len(contents) \in Nat /\ MaxCache \in Nat
      /\ DOMAIN contents = 1..Len(contents) /\ k \in 1..Len(contents) /\ n \in Name
  BY RiotAssumption DEF Good, StoreOK
<1>2. /\ d \in Seq(Name) /\ Len(d) = Len(contents) - 1 /\ DOMAIN d = 1..Len(contents) - 1
      /\ \A j \in DOMAIN d : /\ j < k => d[j] = contents[j]
                             /\ j >= k => d[j] = contents[j + 1]
  <2>1. \A j \in 1..Len(contents) - 1 : j \in 1..Len(contents) /\ j + 1 \in 1..Len(contents)
    BY <1>1
  <2>2. \A j \in 1..Len(contents) : contents[j] \in Name
    BY <1>1
  <2>3. d \in [1..Len(contents) - 1 -> Name]
    BY <2>1, <2>2 DEF Dropped
  <2>4. d \in Seq(Name) /\ Len(d) = Len(contents) - 1
    <3>1. Len(contents) - 1 \in Nat /\ DOMAIN d = 1..Len(contents) - 1
      BY <1>1, <2>3
    <3>2. d \in Seq(Name)
      BY <2>3, <3>1
    <3> QED  BY <3>1, <3>2
  <2> QED  BY <1>1, <2>4 DEF Dropped
<1> HIDE DEF d
<1>3. \A j \in DOMAIN d : \E i \in DOMAIN contents : i # k /\ d[j] = contents[i]
  BY <1>1, <1>2
<1>4. StoreOK(d)
  <2>1. ASSUME NEW i \in DOMAIN d, NEW j \in DOMAIN d, d[i] = d[j], i < j  PROVE FALSE
    <3>1. i \in 1..Len(contents) /\ j \in 1..Len(contents)
          /\ i + 1 \in 1..Len(contents) /\ j + 1 \in 1..Len(contents)
      BY <1>1, <1>2
    <3>2. CASE j < k
      BY <1>1, <1>2, <2>1, <3>1, <3>2 DEF CachedOnce
    <3>3. CASE i < k /\ j >= k
      BY <1>1, <1>2, <2>1, <3>1, <3>3 DEF CachedOnce
    <3>4. CASE i >= k /\ j >= k
      BY <1>1, <1>2, <2>1, <3>1, <3>4 DEF CachedOnce
    <3> QED  BY <1>1, <1>2, <2>1, <3>2, <3>3, <3>4
  <2>2. \A i, j \in DOMAIN d : i < j \/ j < i \/ i = j
    BY <1>2
  <2>3. CachedOnce(d)
    BY <2>1, <2>2 DEF CachedOnce
  <2> QED  BY <1>1, <1>2, <2>3 DEF StoreOK
<1>5. TimersOK(u) /\ DOMAIN u = DOMAIN t \ {Expiry(n)}
  BY DisarmedOK DEF Good
<1> HIDE DEF u
<1>6. q \in Seq(Message) /\ Len(q) =< QueueSize
  BY DEF Good, QueueOK
<1>7. /\ r \in Seq(Message) /\ Len(r) = Len(q) /\ DOMAIN r = DOMAIN q
      /\ \A i \in DOMAIN q :
           r[i] = IF PointsTo(q[i], {Cont(n)}) THEN [type |-> q[i].type, obj |-> Freed] ELSE q[i]
  BY <1>6, DanglingSeq
<1> HIDE DEF r
<1>8. P \subseteq Name
  BY DEF Good
<1>9. LiveTimers(P, u)
  BY <1>5 DEF LiveTimers, Good, Has
<1>10. LiveQueue(P, r)
  <2>1. SUFFICES ASSUME NEW i \in DOMAIN r, r[i].type \in {"INT_RETRANS", "INT_TIMEOUT"}
                 PROVE  r[i].obj \in PitEntries(P)
    BY DEF LiveQueue
  <2>2. i \in DOMAIN q /\ r[i].type = q[i].type
    BY <1>7
  <2>3. q[i].obj \in PitEntries(P)
    BY <2>1, <2>2 DEF LiveQueue, Good
  <2>4. ~ PointsTo(q[i], {Cont(n)})
    BY <1>1, <1>8, <2>3, Distinct DEF PointsTo, PitEntries
  <2> QED  BY <1>7, <2>2, <2>3, <2>4
<1>11. ASSUME NEW type, NEW obj, Holds(q, type, obj), obj # Cont(n)
       PROVE  Holds(r, type, obj)
  BY <1>7, <1>11 DEF Holds, PointsTo
<1>12. \A i \in P : EntryTimed(i, u, r, m)
  BY <1>1, <1>5, <1>8, <1>11, Distinct, DistinctTimers DEF EntryTimed, Good, Has
<1>13. ASSUME NEW j \in DOMAIN d  PROVE ContentTimed(d[j], u, r, m)
  <2>1. PICK i \in DOMAIN contents : i # k /\ d[j] = contents[i]
    BY <1>3
  <2>2. contents[i] \in Name /\ contents[i] # n
    BY <1>1, <2>1 DEF CachedOnce
  <2>3. Cont(contents[i]) # Cont(n) /\ Expiry(contents[i]) # Expiry(n)
    BY <1>1, <2>2, Distinct, DistinctTimers
  <2>4. ContentTimed(contents[i], t, q, l)
    BY <2>1 DEF Good
  <2> QED  BY <1>5, <1>11, <2>1, <2>3, <2>4 DEF ContentTimed, Has
<1>14. QueueOK(r)
  BY <1>6, <1>7 DEF QueueOK
<1>15. Good(P, d, u, r, m)
  BY <1>4, <1>5, <1>8, <1>9, <1>10, <1>12, <1>13, <1>14 DEF Good
<1> QED  BY <1>2, <1>3, <1>15 DEF u, r, d

(* A content that is not cached yet joins the others, and its timer starts. *)
LEMMA ContentAdded ==
  ASSUME NEW P, NEW c, NEW t, NEW q, NEW l, Good(P, c, t, q, l), NEW n \in Name,
         Len(c) < MaxCache, \A k \in DOMAIN c : c[k] # n
  PROVE  Good(P, <<n>> \o c, Armed(t, {Expiry(n)}, ContentTime), q, l \ {Cont(n)})
<1> DEFINE u == Armed(t, {Expiry(n)}, ContentTime)
           d == <<n>> \o c
           m == l \ {Cont(n)}
<1>1. c \in Seq(Name) /\ Len(c) \in Nat /\ CachedOnce(c) /\ P \subseteq Name /\ MaxCache \in Nat
  BY RiotAssumption DEF Good, StoreOK
<1>2. TimersOK(u) /\ DOMAIN u = DOMAIN t \cup {Expiry(n)}
  <2>1. TimersOK(t) /\ {Expiry(n)} \in SUBSET Timer /\ ContentTime \in Nat
    BY RiotAssumption DEF Good, Timer
  <2> QED  BY <2>1, ArmedOK
<1> HIDE DEF u
<1>3. /\ d \in Seq(Name) /\ Len(d) = Len(c) + 1
      /\ \A k \in DOMAIN d : \/ k = 1 /\ d[k] = n
                             \/ k > 1 /\ k - 1 \in DOMAIN c /\ d[k] = c[k - 1]
  <2>1. <<n>> \in Seq(Name) /\ Len(<<n>>) = 1 /\ <<n>>[1] = n
    OBVIOUS
  <2> QED  BY <1>1, <2>1, ConcatProperties
<1> HIDE DEF d
<1>4. StoreOK(d)
  <2>1. \A j, k \in DOMAIN d : j \in Nat /\ k \in Nat
    BY <1>3
  <2>2. CachedOnce(d)
    BY <1>1, <1>3, <2>1 DEF CachedOnce
  <2> QED  BY <1>1, <1>3, <2>2 DEF StoreOK
<1>5. LiveTimers(P, u)
  BY <1>2, DistinctTimers DEF LiveTimers, Good, Has
<1>6. \A i \in P : EntryTimed(i, u, q, m)
  BY <1>1, <1>2, Distinct DEF EntryTimed, Good, Has
<1>7. \A k \in DOMAIN d : ContentTimed(d[k], u, q, m)
  <2>1. ASSUME NEW k \in DOMAIN c  PROVE ContentTimed(c[k], u, q, m)
    <3>1. c[k] \in Name /\ c[k] # n /\ ContentTimed(c[k], t, q, l)
      BY <1>1 DEF Good
    <3>2. Cont(c[k]) # Cont(n)
      BY <3>1, Distinct
    <3> QED  BY <1>2, <3>1, <3>2 DEF ContentTimed, Has
  <2>2. ContentTimed(n, u, q, m)
    BY <1>2 DEF ContentTimed, Has
  <2> QED  BY <1>3, <2>1, <2>2
<1>8. Good(P, d, u, q, m)
  BY <1>1, <1>2, <1>4, <1>5, <1>6, <1>7 DEF Good
<1> QED  BY <1>8 DEF u, d

(* A face goes, and the messages that point to it do so no more. *)
LEMMA FaceGone ==
  ASSUME NEW P, NEW c, NEW t, NEW q, NEW l, Good(P, c, t, q, l), NEW p \in Peer
  PROVE  Good(P, c, t, Dangling(q, {Face(p)}), l \ {Face(p)})
<1> DEFINE r == Dangling(q, {Face(p)})
           m == l \ {Face(p)}
<1>1. q \in Seq(Message) /\ Len(q) =< QueueSize /\ P \subseteq Name /\ \A k \in DOMAIN c : c[k] \in Name
  BY DEF Good, QueueOK, StoreOK
<1>2. /\ r \in Seq(Message) /\ Len(r) = Len(q) /\ DOMAIN r = DOMAIN q
      /\ \A i \in DOMAIN q :
           r[i] = IF PointsTo(q[i], {Face(p)}) THEN [type |-> q[i].type, obj |-> Freed] ELSE q[i]
  BY <1>1, DanglingSeq
<1> HIDE DEF r
<1>3. LiveQueue(P, r)
  <2>1. SUFFICES ASSUME NEW i \in DOMAIN r, r[i].type \in {"INT_RETRANS", "INT_TIMEOUT"}
                 PROVE  r[i].obj \in PitEntries(P)
    BY DEF LiveQueue
  <2>2. i \in DOMAIN q /\ r[i].type = q[i].type
    BY <1>2
  <2>3. q[i].obj \in PitEntries(P)
    BY <2>1, <2>2 DEF LiveQueue, Good
  <2>4. ~ PointsTo(q[i], {Face(p)})
    BY <1>1, <2>3, Distinct DEF PointsTo, PitEntries
  <2> QED  BY <1>2, <2>2, <2>3, <2>4
<1>4. ASSUME NEW type, NEW obj, Holds(q, type, obj), obj # Face(p)
      PROVE  Holds(r, type, obj)
  BY <1>2, <1>4 DEF Holds, PointsTo
<1>5. \A n \in P : EntryTimed(n, t, r, m)
  BY <1>1, <1>4, Distinct DEF EntryTimed, Good
<1>6. \A k \in DOMAIN c : ContentTimed(c[k], t, r, m)
  BY <1>1, <1>4, Distinct DEF ContentTimed, Good
<1>7. QueueOK(r)
  BY <1>1, <1>2 DEF QueueOK
<1>8. Good(P, c, t, r, m)
  BY <1>3, <1>5, <1>6, <1>7 DEF Good
<1> QED  BY <1>8 DEF r

-----------------------------------------------------------------------------
LEMMA DisarmedTwice ==
  ASSUME NEW t, NEW X, NEW Y
  PROVE  Disarmed(Disarmed(t, X), Y) = Disarmed(t, X \cup Y)
BY DEF Disarmed

LEMMA MailPut ==
  ASSUME NEW m, MailOK(m), NEW what \in {"chunk", "timeout", "stray"}, Len(m) < MailboxSize
  PROVE  MailOK(Append(m, what))
BY RiotAssumption DEF MailOK

LEMMA Delivered ==
  ASSUME MailOK(mailbox), NEW chunk, Deliver(chunk)
  PROVE  MailOK(mailbox')
<1>1. CASE (chunk /\ app # "idle") /\ Len(mailbox) < MailboxSize
  BY <1>1, MailPut DEF Deliver
<1>2. CASE ~ ((chunk /\ app # "idle") /\ Len(mailbox) < MailboxSize)
  BY <1>2, Zenon DEF Deliver
<1> QED  BY <1>1, <1>2

LEMMA PitShrunk ==
  ASSUME PitOK(pit), NEW gone, pit' = PitWithout(gone)
  PROVE  PitOK(pit') /\ DOMAIN pit' = DOMAIN pit \ gone
<1>1. DOMAIN pit' = DOMAIN pit \ gone /\ pit' \in [DOMAIN pit' -> Entry]
  BY DEF PitOK, PitWithout
<1>2. DOMAIN pit' \in SUBSET DOMAIN pit /\ IsFiniteSet(DOMAIN pit)
  BY <1>1 DEF PitOK
<1>3. IsFiniteSet(DOMAIN pit') /\ Cardinality(DOMAIN pit') =< Cardinality(DOMAIN pit)
  BY <1>2, FS_Subset
<1>4. Cardinality(DOMAIN pit) \in Nat /\ Cardinality(DOMAIN pit') \in Nat /\ MaxPit \in Nat
  BY <1>2, <1>3, FS_CardinalityType, RiotAssumption
<1> QED  BY <1>1, <1>3, <1>4 DEF PitOK

(* ccnl_fwd_handleInterest: a new entry has both its timers, an old one keeps them. *)
LEMMA InterestHandled ==
  ASSUME NEW timers, NEW q, Good(DOMAIN pit, contents, timers, q, lost),
         PitOK(pit), MailOK(mailbox), NEW f \in Peer \cup {Local}, NEW n \in Name,
         HandleInterest(f, n, timers)
  PROVE  Good(DOMAIN pit', contents, evtimer', q, lost) /\ PitOK(pit') /\ MailOK(mailbox')
<1>1. CASE /\ Cached(n) /\ Deliver(f = Local)
           /\ evtimer' = timers /\ UNCHANGED pit
  BY <1>1, Delivered
<1>2. CASE /\ Has(pit, n)
           /\ pit' = [pit EXCEPT ![n].pending = @ \cup {f}]
           /\ evtimer' = SameTimers(timers, n) /\ UNCHANGED mailbox
  <2>1. pit[n] \in Entry
    BY <1>2 DEF PitOK, Has
  <2>2. [pit[n] EXCEPT !.pending = @ \cup {f}] \in Entry
    BY <2>1 DEF Entry
  <2>3. DOMAIN pit' = DOMAIN pit /\ pit' \in [DOMAIN pit -> Entry]
    BY <1>2, <2>2 DEF PitOK
  <2> QED  BY <1>2, <2>3 DEF PitOK, SameTimers
<1>3. CASE evtimer' = timers /\ UNCHANGED <<pit, mailbox>>
  BY <1>3
<1>4. CASE /\ ~ Has(pit, n) /\ Cardinality(DOMAIN pit) < MaxPit
           /\ pit' = [m \in DOMAIN pit \cup {n} |->
                        IF m = n THEN [pending |-> {f}, retries |-> 0] ELSE pit[m]]
           /\ evtimer' = Armed(Armed(timers, {Retrans(n)}, RetransTime), {Timeout(n)}, Lifetime)
           /\ UNCHANGED mailbox
  <2>1. [pending |-> {f}, retries |-> 0] \in Entry
    BY RiotAssumption DEF Entry
  <2>2. DOMAIN pit' = DOMAIN pit \cup {n} /\ pit' \in [DOMAIN pit' -> Entry]
    BY <1>4, <2>1 DEF PitOK
  <2>3. IsFiniteSet(DOMAIN pit) /\ n \notin DOMAIN pit /\ MaxPit \in Nat
    BY <1>4, RiotAssumption DEF PitOK, Has
  <2>4. /\ IsFiniteSet(DOMAIN pit')
        /\ Cardinality(DOMAIN pit') = Cardinality(DOMAIN pit) + 1
        /\ Cardinality(DOMAIN pit) \in Nat
    BY <2>2, <2>3, FS_AddElement, FS_CardinalityType
  <2>5. PitOK(pit')
    <3>1. Cardinality(DOMAIN pit') =< MaxPit
      BY <1>4, <2>3, <2>4
    <3> QED  BY <2>2, <2>4, <3>1 DEF PitOK
  <2>6. Good(DOMAIN pit', contents, evtimer', q, lost)
    BY <1>4, <2>2, EntryMade
  <2> QED  BY <1>4, <2>5, <2>6
<1> QED  BY <1>1, <1>2, <1>3, <1>4 DEF HandleInterest

(* ccnl_content_add2cache and ccnl_content_serve_pending: what is evicted, served and added *)
LEMMA Stored ==
  ASSUME NEW timers, NEW q, Good(DOMAIN pit, contents, timers, q, lost),
         PitOK(pit), MailOK(mailbox), NEW n \in Name, ~ IsCached(n), Store(q, n, timers)
  PROVE  Good(DOMAIN pit', contents', evtimer', queue', lost') /\ PitOK(pit') /\ MailOK(mailbox')
<1> DEFINE A == Answered(n)
<1>1. PICK k \in 0..Len(contents) :
        /\ Evicted(k)
        /\ contents' = <<n>> \o (IF k = 0 THEN contents ELSE Dropped(k))
        /\ LET gone == IF k = 0 THEN {} ELSE {contents[k]} IN
           /\ evtimer' = Armed(Disarmed(timers, {Expiry(m) : m \in gone} \cup TimersOf(A)),
                               {Expiry(n)}, ContentTime)
           /\ pit' = PitWithout(A)
           /\ queue' = Purged(Dangling(q, {Cont(m) : m \in gone}), PitEntries(A))
           /\ lost' = lost \ (PitEntries(A) \cup {Cont(m) : m \in gone \cup {n}})
        /\ Deliver(WaitsFor(n, Local))
  BY DEF Store
<1>2. PitOK(pit') /\ DOMAIN pit' = DOMAIN pit \ A
  BY <1>1, PitShrunk
<1>3. MailOK(mailbox')
  BY <1>1, Delivered
<1>4. /\ contents \in Seq(Name) /\ Len(contents) \in Nat /\ MaxCache \in Nat
      /\ Len(contents) =< MaxCache /\ DOMAIN contents = 1..Len(contents)
      /\ DOMAIN pit \subseteq Name /\ q \in Seq(Message) /\ TimersOK(timers)
      /\ \A i \in DOMAIN contents : contents[i] \in Name /\ contents[i] # n
  BY RiotAssumption DEF Good, StoreOK, IsCached, QueueOK
<1>5. A \in SUBSET Name
  BY <1>4 DEF Answered
<1> HIDE DEF A
<1>6. CASE k = 0
  <2>1. Good(DOMAIN pit \ A, contents, Disarmed(timers, TimersOf(A)),
             Purged(q, PitEntries(A)), lost \ PitEntries(A))
    BY <1>5, EntriesGone
  <2>2. Len(contents) < MaxCache
    BY <1>4, <1>6, <1>1 DEF Evicted
  <2>3. Good(DOMAIN pit \ A, <<n>> \o contents,
             Armed(Disarmed(timers, TimersOf(A)), {Expiry(n)}, ContentTime),
             Purged(q, PitEntries(A)), (lost \ PitEntries(A)) \ {Cont(n)})
    BY <1>4, <2>1, <2>2, ContentAdded
  <2>4. Dangling(q, {}) = q
    BY <1>4 DEF Dangling, PointsTo
  <2>5. {Expiry(m) : m \in {}} \cup TimersOf(A) = TimersOf(A) /\ {Cont(m) : m \in {}} = {}
    OBVIOUS
  <2>6. lost' = (lost \ PitEntries(A)) \ {Cont(n)}
    BY <1>1, <1>6
  <2>7. /\ contents' = <<n>> \o contents
        /\ evtimer' = Armed(Disarmed(timers, TimersOf(A)), {Expiry(n)}, ContentTime)
        /\ queue' = Purged(q, PitEntries(A))
    BY <1>1, <1>6, <2>4, <2>5
  <2> QED  BY <1>2, <1>3, <2>3, <2>6, <2>7
<1>7. CASE k # 0
  <2> DEFINE c == contents[k]
             d == Dropped(k)
             u == Disarmed(timers, {Expiry(c)})
             r == Dangling(q, {Cont(c)})
  <2>1. k \in DOMAIN contents
    BY <1>4, <1>7
  <2>2. /\ Good(DOMAIN pit, d, u, r, lost \ {Cont(c)})
        /\ Len(d) = Len(contents) - 1
        /\ \A j \in DOMAIN d : \E i \in DOMAIN contents : d[j] = contents[i]
    BY <2>1, ContentGone
  <2>3. \A j \in DOMAIN d : d[j] # n
    BY <1>4, <2>2
  <2>4. Len(d) < MaxCache
    BY <1>4, <2>2
  <2>5. Disarmed(u, TimersOf(A)) = Disarmed(timers, {Expiry(c)} \cup TimersOf(A))
    BY DisarmedTwice
  <2>6. /\ contents' = <<n>> \o d
        /\ evtimer' = Armed(Disarmed(timers, {Expiry(c)} \cup TimersOf(A)),
                            {Expiry(n)}, ContentTime)
        /\ queue' = Purged(r, PitEntries(A))
        /\ lost' = ((lost \ {Cont(c)}) \ PitEntries(A)) \ {Cont(n)}
    <3>1. {Expiry(m) : m \in {c}} = {Expiry(c)} /\ {Cont(m) : m \in {c}} = {Cont(c)}
      OBVIOUS
    <3>2. {Cont(m) : m \in {c} \cup {n}} = {Cont(c), Cont(n)}
      OBVIOUS
    <3>3. lost' = lost \ (PitEntries(A) \cup {Cont(m) : m \in {c} \cup {n}})
      BY <1>1, <1>7
    <3>4. lost' = lost \ (PitEntries(A) \cup {Cont(c), Cont(n)})
      BY <3>2, <3>3
    <3> QED  BY <1>1, <1>7, <3>1, <3>4
  <2> HIDE DEF c, d, u, r
  <2>7. Good(DOMAIN pit \ A, d, Disarmed(u, TimersOf(A)),
             Purged(r, PitEntries(A)), (lost \ {Cont(c)}) \ PitEntries(A))
    BY <1>5, <2>2, EntriesGone
  <2>8. Good(DOMAIN pit \ A, <<n>> \o d,
             Armed(Disarmed(u, TimersOf(A)), {Expiry(n)}, ContentTime),
             Purged(r, PitEntries(A)), ((lost \ {Cont(c)}) \ PitEntries(A)) \ {Cont(n)})
    BY <2>3, <2>4, <2>7, ContentAdded
  <2> QED  BY <1>2, <1>3, <2>5, <2>6, <2>8
<1> QED  BY <1>6, <1>7

-----------------------------------------------------------------------------
(***************************************************************************)
(* One turn of the event loop                                              *)
(***************************************************************************)
LEMMA TakenOther ==
  ASSUME IInv, queue # <<>>, Head(queue).type \notin {"INT_TIMEOUT", "CS_EXPIRE"}
  PROVE  Good(DOMAIN pit, contents, evtimer, Tail(queue), lost)
<1>1. \A n : /\ Head(queue) # [type |-> "INT_TIMEOUT", obj |-> PitEntry(n)]
             /\ Head(queue) # [type |-> "CS_EXPIRE", obj |-> Cont(n)]
  OBVIOUS
<1> QED  BY <1>1, Taken DEF IInv

(* Marking or erasing, before or after the first message is taken *)
LEMMA TailDangling ==
  ASSUME NEW q \in Seq(Message), q # <<>>, NEW objs
  PROVE  /\ Dangling(q, objs) # <<>> /\ Tail(Dangling(q, objs)) = Dangling(Tail(q), objs)
         /\ PointsTo(Head(q), objs) =>
              Head(Dangling(q, objs)) = [type |-> Head(q).type, obj |-> Freed]
<1> DEFINE r == Dangling(q, objs)
           s == Dangling(Tail(q), objs)
<1>1. /\ Tail(q) \in Seq(Message) /\ Len(Tail(q)) = Len(q) - 1 /\ Len(q) \in Nat /\ Len(q) # 0
      /\ \A k \in 1..Len(q) - 1 : k + 1 \in DOMAIN q /\ k \in DOMAIN Tail(q) /\ Tail(q)[k] = q[k + 1]
      /\ Head(q) = q[1] /\ 1 \in DOMAIN q
  BY HeadTailProperties
<1>2. /\ r \in Seq(Message) /\ Len(r) = Len(q) /\ DOMAIN r = DOMAIN q
      /\ \A k \in DOMAIN q : r[k] = IF PointsTo(q[k], objs)
                                    THEN [type |-> q[k].type, obj |-> Freed] ELSE q[k]
  BY DanglingSeq
<1>3. /\ s \in Seq(Message) /\ Len(s) = Len(Tail(q)) /\ DOMAIN s = DOMAIN Tail(q)
      /\ \A k \in DOMAIN Tail(q) :
           s[k] = IF PointsTo(Tail(q)[k], objs)
                  THEN [type |-> Tail(q)[k].type, obj |-> Freed] ELSE Tail(q)[k]
  BY <1>1, DanglingSeq
<1> HIDE DEF r, s
<1>4. r # <<>> /\ Head(r) = r[1]
  BY <1>1, <1>2
<1>5. /\ Tail(r) \in Seq(Message) /\ Len(Tail(r)) = Len(q) - 1
      /\ \A k \in 1..Len(q) - 1 : Tail(r)[k] = r[k + 1]
  BY <1>2, <1>4, HeadTailProperties
<1>6. \A k \in 1..Len(q) - 1 : Tail(r)[k] = s[k]
  BY <1>1, <1>2, <1>3, <1>5
<1>7. Tail(r) = s
  BY <1>1, <1>3, <1>5, <1>6, SeqEqual
<1> QED  BY <1>1, <1>2, <1>4, <1>7 DEF r, s

LEMMA TailPurged ==
  ASSUME NEW q \in Seq(Message), q # <<>>, NEW objs
  PROVE  /\ Purged(q, objs) # <<>> /\ Tail(Purged(q, objs)) = Purged(Tail(q), objs)
         /\ PointsTo(Head(q), objs) => Head(Purged(q, objs)) = Zero
<1> DEFINE r == Purged(q, objs)
           s == Purged(Tail(q), objs)
<1>1. /\ Tail(q) \in Seq(Message) /\ Len(Tail(q)) = Len(q) - 1 /\ Len(q) \in Nat /\ Len(q) # 0
      /\ \A k \in 1..Len(q) - 1 : k + 1 \in DOMAIN q /\ k \in DOMAIN Tail(q) /\ Tail(q)[k] = q[k + 1]
      /\ Head(q) = q[1] /\ 1 \in DOMAIN q
  BY HeadTailProperties
<1>2. /\ r \in Seq(Message) /\ Len(r) = Len(q) /\ DOMAIN r = DOMAIN q
      /\ \A k \in DOMAIN q : r[k] = IF PointsTo(q[k], objs) THEN Zero ELSE q[k]
  BY PurgedSeq
<1>3. /\ s \in Seq(Message) /\ Len(s) = Len(Tail(q)) /\ DOMAIN s = DOMAIN Tail(q)
      /\ \A k \in DOMAIN Tail(q) :
           s[k] = IF PointsTo(Tail(q)[k], objs) THEN Zero ELSE Tail(q)[k]
  BY <1>1, PurgedSeq
<1> HIDE DEF r, s
<1>4. r # <<>> /\ Head(r) = r[1]
  BY <1>1, <1>2
<1>5. /\ Tail(r) \in Seq(Message) /\ Len(Tail(r)) = Len(q) - 1
      /\ \A k \in 1..Len(q) - 1 : Tail(r)[k] = r[k + 1]
  BY <1>2, <1>4, HeadTailProperties
<1>6. \A k \in 1..Len(q) - 1 : Tail(r)[k] = s[k]
  BY <1>1, <1>2, <1>3, <1>5
<1>7. Tail(r) = s
  BY <1>1, <1>3, <1>5, <1>6, SeqEqual
<1> QED  BY <1>1, <1>2, <1>4, <1>7 DEF r, s

(* A packet makes or refreshes its face. *)
LEMMA FaceRefreshed ==
  ASSUME NEW P, NEW c, NEW q, NEW l, Good(P, c, evtimer, q, l), NEW p \in Peer,
         faces \subseteq Peer, FaceOf(p)
  PROVE  Good(P, c, FaceTimer(p), q, l) /\ faces' \subseteq Peer
<1>1. TimersOK(evtimer) /\ {Idle(p)} \in SUBSET Timer /\ FaceTime \in Nat
  BY RiotAssumption DEF Good, Timer
<1>2. TimersOK(FaceTimer(p)) /\ DOMAIN FaceTimer(p) = DOMAIN evtimer \cup {Idle(p)}
  BY <1>1, ArmedOK DEF FaceTimer
<1>3. \A n \in Name : /\ Has(FaceTimer(p), Retrans(n)) <=> Has(evtimer, Retrans(n))
                      /\ Has(FaceTimer(p), Timeout(n)) <=> Has(evtimer, Timeout(n))
                      /\ Has(FaceTimer(p), Expiry(n)) <=> Has(evtimer, Expiry(n))
  BY <1>2, DistinctTimers DEF Has
<1>4. Good(P, c, FaceTimer(p), q, l)
  BY <1>2, <1>3, OtherTimers
<1> QED  BY <1>4 DEF FaceOf

LEMMA RxInterestKeeps ==
  ASSUME IInv, queue # <<>>, Head(queue).type = "RCV", NEW p \in Peer, NEW n \in Name,
         RxInterest(Tail(queue), p, n), UNCHANGED <<broken, app>>
  PROVE  IInv'
<1>1. Good(DOMAIN pit, contents, FaceTimer(p), Tail(queue), lost) /\ faces' \subseteq Peer
  BY TakenOther, FaceRefreshed DEF IInv, RxInterest
<1>2. /\ Good(DOMAIN pit', contents, evtimer', Tail(queue), lost)
      /\ PitOK(pit') /\ MailOK(mailbox')
  BY <1>1, InterestHandled DEF IInv, RxInterest
<1> QED  BY <1>1, <1>2 DEF IInv, RxInterest, AppOK

LEMMA SendInterestKeeps ==
  ASSUME IInv, queue # <<>>, Head(queue).type = "SND", NEW n \in Name,
         SendInterest(Tail(queue), n), UNCHANGED <<broken, app>>
  PROVE  IInv'
<1>1. Good(DOMAIN pit, contents, evtimer, Tail(queue), lost)
  BY TakenOther
<1>2. /\ Good(DOMAIN pit', contents, evtimer', Tail(queue), lost)
      /\ PitOK(pit') /\ MailOK(mailbox')
  BY <1>1, InterestHandled DEF IInv, SendInterest
<1> QED  BY <1>2 DEF IInv, SendInterest, AppOK

LEMMA RxDataKeeps ==
  ASSUME IInv, queue # <<>>, Head(queue).type = "RCV", NEW p \in Peer, NEW n \in Name,
         RxData(Tail(queue), p, n), UNCHANGED <<broken, app>>
  PROVE  IInv'
<1>1. Good(DOMAIN pit, contents, FaceTimer(p), Tail(queue), lost) /\ faces' \subseteq Peer
  BY TakenOther, FaceRefreshed DEF IInv, RxData
<1>2. CASE ~ IsCached(n) /\ Store(Tail(queue), n, FaceTimer(p))
  BY <1>1, <1>2, Stored DEF IInv, AppOK
<1>3. CASE /\ evtimer' = FaceTimer(p) /\ queue' = Tail(queue)
           /\ UNCHANGED <<pit, contents, lost, mailbox>>
  BY <1>1, <1>3 DEF IInv, AppOK
<1> QED  BY <1>2, <1>3 DEF RxData

LEMMA RxOtherKeeps ==
  ASSUME IInv, queue # <<>>, Head(queue).type = "RCV", NEW p \in Peer,
         RxOther(Tail(queue), p), UNCHANGED <<broken, app>>
  PROVE  IInv'
<1>1. Good(DOMAIN pit, contents, FaceTimer(p), Tail(queue), lost) /\ faces' \subseteq Peer
  BY TakenOther, FaceRefreshed DEF IInv, RxOther
<1> QED  BY <1>1 DEF IInv, AppOK, RxOther

LEMMA CsAddKeeps ==
  ASSUME IInv, queue # <<>>, Head(queue).type = "CS_ADD", NEW n \in Name,
         CsAdd(Tail(queue), n), UNCHANGED <<broken, app>>
  PROVE  IInv'
<1>1. Good(DOMAIN pit, contents, evtimer, Tail(queue), lost)
  BY TakenOther
<1>2. CASE ~ IsCached(n) /\ Store(Tail(queue), n, evtimer) /\ UNCHANGED faces
  BY <1>1, <1>2, Stored DEF IInv, AppOK
<1>3. CASE queue' = Tail(queue) /\ UNCHANGED <<tables, mailbox>>
  BY <1>1, <1>3 DEF IInv, AppOK, tables
<1> QED  BY <1>2, <1>3 DEF CsAdd

(* When a content is cached, some content begins its printed path: itself, if no other does. *)
LEMMA SomethingShown ==
  ASSUME contents \in Seq(Name), NEW n \in Name, IsCached(n)
  PROVE  FirstShown(n) # {}
<1> DEFINE Begins == {k \in DOMAIN contents : <<contents[k], n>> \in PathPrefix}
<1>1. Begins # {} /\ Begins \subseteq Nat /\ DOMAIN contents = 1..Len(contents) /\ Len(contents) \in Nat
  BY RiotAssumption DEF IsCached
<1>2. PICK k \in Begins : \A j \in Begins : ~ (<<j, k>> \in OpToRel(<, Nat))
  BY <1>1, WFMin, NatLessThanWellFounded
<1>3. \A j \in Begins : ~ (j < k)
  BY <1>1, <1>2 DEF OpToRel
<1>4. \A j \in 1..k - 1 : j \in DOMAIN contents /\ j < k
  BY <1>1
<1>5. k \in FirstShown(n)
  BY <1>3, <1>4 DEF FirstShown
<1> QED  BY <1>5

LEMMA ContentRemoved ==
  ASSUME NEW q, Good(DOMAIN pit, contents, evtimer, q, lost), NEW n, CsRemove(q, n)
  PROVE  Good(DOMAIN pit', contents', evtimer', queue', lost')
<1>1. CASE FirstShown(n) = {}
  BY <1>1 DEF CsRemove
<1>2. CASE FirstShown(n) # {}
  <2>1. PICK k \in FirstShown(n) :
          /\ contents' = Dropped(k)
          /\ evtimer' = Disarmed(evtimer, {Expiry(contents[k])})
          /\ queue' = Dangling(q, {Cont(contents[k])})
          /\ lost' = lost \ {Cont(contents[k])}
    BY <1>2 DEF CsRemove
  <2>2. k \in DOMAIN contents
    BY DEF FirstShown
  <2> QED  BY <2>1, <2>2, ContentGone DEF CsRemove
<1> QED  BY <1>1, <1>2

LEMMA CsDelKeeps ==
  ASSUME IInv, queue # <<>>, Head(queue).type = "CS_DEL", NEW n,
         CsRemove(Tail(queue), n), UNCHANGED <<broken, app>>
  PROVE  IInv'
<1>1. Good(DOMAIN pit', contents', evtimer', queue', lost')
  BY TakenOther, ContentRemoved
<1> QED  BY <1>1 DEF IInv, AppOK, CsRemove

(* A content's timeout removes it, or another content that its name does not tell apart. *)
LEMMA CsExpireKeeps ==
  ASSUME IInv, queue # <<>>, Head(queue).type = "CS_EXPIRE", NEW n \in Name,
         Head(queue).obj = Cont(n), CsRemove(Tail(queue), n), UNCHANGED <<broken, app>>
  PROVE  IInv'
<1>1. /\ Good(DOMAIN pit, contents, evtimer, queue, lost) /\ contents \in Seq(Name)
      /\ CachedOnce(contents) /\ queue \in Seq(Message) /\ DOMAIN pit \subseteq Name
  BY DEF IInv, Good, StoreOK, QueueOK
<1>2. \A m \in DOMAIN pit : Head(queue) # [type |-> "INT_TIMEOUT", obj |-> PitEntry(m)]
  OBVIOUS
<1>3. \A k \in DOMAIN contents :
        contents[k] \in Name
        /\ (contents[k] # n => Head(queue) # [type |-> "CS_EXPIRE", obj |-> Cont(contents[k])])
  <2>1. ASSUME NEW k \in DOMAIN contents, contents[k] # n
        PROVE  Head(queue) # [type |-> "CS_EXPIRE", obj |-> Cont(contents[k])]
    <3>1. Cont(contents[k]) # Cont(n)
      BY <1>1, <2>1, Distinct
    <3> QED  BY <3>1
  <2> QED  BY <1>1, <2>1
<1>4. ASSUME \A k \in DOMAIN contents : contents[k] # n \/ Doubted(n)
      PROVE  Good(DOMAIN pit', contents', evtimer', queue', lost')
  <2>1. Good(DOMAIN pit, contents, evtimer, Tail(queue), lost)
    BY <1>1, <1>2, <1>3, <1>4, Taken
  <2> QED  BY <2>1, ContentRemoved
<1>5. ASSUME NEW k \in DOMAIN contents, contents[k] = n, ~ Doubted(n)
      PROVE  Good(DOMAIN pit', contents', evtimer', queue', lost')
  <2>1. FirstShown(n) # {}
    BY <1>1, <1>5, SomethingShown DEF IsCached
  <2>2. PICK j \in FirstShown(n) :
          /\ contents' = Dropped(j)
          /\ evtimer' = Disarmed(evtimer, {Expiry(contents[j])})
          /\ queue' = Dangling(Tail(queue), {Cont(contents[j])})
          /\ lost' = lost \ {Cont(contents[j])}
    BY <2>1 DEF CsRemove
  <2>3. j \in DOMAIN contents /\ contents[j] \in Name /\ <<contents[j], n>> \in PathPrefix
    BY <1>1 DEF FirstShown
  <2>4. contents[j] = n
    BY <1>5, <2>3 DEF Doubted
  <2> DEFINE r == Dangling(queue, {Cont(n)})
  <2>5. Good(DOMAIN pit, contents', evtimer', r, lost')
    BY <1>1, <2>2, <2>3, <2>4, ContentGone
  <2>6. r # <<>> /\ Tail(r) = queue' /\ Head(r) = [type |-> "CS_EXPIRE", obj |-> Freed]
    <3>1. PointsTo(Head(queue), {Cont(n)})
      BY DEF PointsTo, TimerType
    <3> QED  BY <1>1, <2>2, <2>4, <3>1, TailDangling
  <2> HIDE DEF r
  <2>7. \A m \in DOMAIN pit : Head(r) # [type |-> "INT_TIMEOUT", obj |-> PitEntry(m)]
    BY <2>6
  <2>8. \A i \in DOMAIN contents' : Head(r) # [type |-> "CS_EXPIRE", obj |-> Cont(contents'[i])]
    <3>1. \A i \in DOMAIN contents' : contents'[i] \in Name
      BY <2>5 DEF Good, StoreOK
    <3>2. \A i \in DOMAIN contents' : Cont(contents'[i]) # Freed
      BY <3>1, Distinct
    <3> QED  BY <2>6, <3>2
  <2>9. Good(DOMAIN pit, contents', evtimer', queue', lost')
    BY <2>5, <2>6, <2>7, <2>8, Taken
  <2> QED  BY <2>9 DEF CsRemove
<1>6. Good(DOMAIN pit', contents', evtimer', queue', lost')
  BY <1>4, <1>5
<1> QED  BY <1>6 DEF IInv, AppOK, CsRemove

(* ccnl_interest_retransmit: the repetition's timer starts again, for an entry that is there *)
LEMMA IntRetransKeeps ==
  ASSUME IInv, queue # <<>>, Head(queue).type = "INT_RETRANS", NEW n \in Name,
         Head(queue).obj = PitEntry(n), IntRetrans(Tail(queue), n),
         UNCHANGED <<broken, app>>
  PROVE  IInv'
<1>1. Good(DOMAIN pit, contents, evtimer, Tail(queue), lost)
  BY TakenOther
<1>2. n \in DOMAIN pit
  <2>1. queue \in Seq(Message) /\ DOMAIN pit \subseteq Name /\ LiveQueue(DOMAIN pit, queue)
    BY DEF IInv, Good, QueueOK
  <2>2. 1 \in DOMAIN queue /\ Head(queue) = queue[1]
    BY <2>1
  <2>3. PitEntry(n) \in PitEntries(DOMAIN pit)
    BY <2>1, <2>2 DEF LiveQueue
  <2> QED  BY <2>1, <2>3, Distinct DEF PitEntries
<1>3. CASE UNCHANGED <<pit, evtimer>>
  BY <1>1, <1>3 DEF IInv, AppOK, IntRetrans
<1>4. CASE /\ ~ TriedEnough(n)
           /\ pit' = [pit EXCEPT ![n].retries = @ + 1]
           /\ evtimer' = Armed(evtimer, {Retrans(n)}, RetransTime)
  <2>1. pit[n] \in Entry /\ pit[n].retries < MaxRetrans /\ MaxRetrans \in Nat
    <3>1. pit[n] \in Entry
      BY <1>2 DEF IInv, PitOK
    <3> QED  BY <1>4, <3>1, RiotAssumption DEF Entry, TriedEnough
  <2>2. [pit[n] EXCEPT !.retries = @ + 1] \in Entry
    BY <2>1 DEF Entry
  <2>3. DOMAIN pit' = DOMAIN pit /\ PitOK(pit')
    BY <1>4, <2>2 DEF PitOK, IInv
  <2>4. TimersOK(evtimer') /\ DOMAIN evtimer' = DOMAIN evtimer \cup {Retrans(n)}
    <3>1. TimersOK(evtimer) /\ {Retrans(n)} \in SUBSET Timer /\ RetransTime \in Nat
      BY RiotAssumption DEF Good, IInv, Timer
    <3> QED  BY <1>4, <3>1, ArmedOK
  <2>5. \A m \in Name : /\ Has(evtimer', Retrans(m)) => Has(evtimer, Retrans(m)) \/ m \in DOMAIN pit
                        /\ Has(evtimer', Timeout(m)) <=> Has(evtimer, Timeout(m))
                        /\ Has(evtimer', Expiry(m)) <=> Has(evtimer, Expiry(m))
    BY <1>2, <2>4, DistinctTimers DEF Has
  <2>6. Good(DOMAIN pit, contents, evtimer', Tail(queue), lost)
    BY <1>1, <2>4, <2>5, OtherTimers
  <2> QED  BY <2>3, <2>6 DEF IInv, AppOK, IntRetrans
<1> QED  BY <1>3, <1>4 DEF IntRetrans

LEMMA IntTimeoutKeeps ==
  ASSUME IInv, queue # <<>>, Head(queue).type = "INT_TIMEOUT", NEW n \in Name,
         Head(queue).obj = PitEntry(n), IntTimeout(Tail(queue), n),
         UNCHANGED <<broken, app>>
  PROVE  IInv'
<1> DEFINE G == {n}
           r == Purged(queue, PitEntries(G))
<1>1. /\ Good(DOMAIN pit, contents, evtimer, queue, lost)
      /\ queue \in Seq(Message) /\ DOMAIN pit \subseteq Name
  BY DEF IInv, Good, QueueOK
<1>2. Good(DOMAIN pit \ G, contents, Disarmed(evtimer, TimersOf(G)), r, lost \ PitEntries(G))
  BY <1>1, EntriesGone
<1>3. r # <<>> /\ Tail(r) = Purged(Tail(queue), PitEntries(G)) /\ Head(r) = Zero
  <2>1. PointsTo(Head(queue), PitEntries(G))
    BY DEF PointsTo, TimerType, PitEntries
  <2> QED  BY <1>1, <2>1, TailPurged
<1> HIDE DEF r
<1>4. \A obj : Head(r) # [type |-> "INT_TIMEOUT", obj |-> obj]
               /\ Head(r) # [type |-> "CS_EXPIRE", obj |-> obj]
  <2>1. Head(r).type = "none"
    BY <1>3 DEF Zero
  <2> QED  BY <2>1
<1>5. Good(DOMAIN pit \ G, contents, Disarmed(evtimer, TimersOf(G)), Tail(r), lost \ PitEntries(G))
  BY <1>2, <1>3, <1>4, Taken
<1>6. PitOK(pit') /\ DOMAIN pit' = DOMAIN pit \ G
  BY PitShrunk DEF IInv, IntTimeout, RemoveInterests
<1> QED  BY <1>3, <1>5, <1>6 DEF IInv, AppOK, IntTimeout, RemoveInterests

(* ccnl_face_remove: the entries where nobody else waits go. *)
LEMMA FaceTimeoutKeeps ==
  ASSUME IInv, queue # <<>>, Head(queue).type = "FACE_TIMEOUT", NEW p \in Peer,
         FaceTimeout(Tail(queue), p), UNCHANGED <<broken, app>>
  PROVE  IInv'
<1> DEFINE A == Alone(p)
           q == Dangling(Tail(queue), {Face(p)})
<1>1. Good(DOMAIN pit, contents, evtimer, q, lost \ {Face(p)})
  BY TakenOther, FaceGone
<1>2. A \in SUBSET Name
  BY DEF Alone, IInv, Good
<1>3. Good(DOMAIN pit \ A, contents, Disarmed(evtimer, TimersOf(A)), Purged(q, PitEntries(A)),
           (lost \ {Face(p)}) \ PitEntries(A))
  BY <1>1, <1>2, EntriesGone
<1>4. lost' = (lost \ {Face(p)}) \ PitEntries(A)
  BY DEF FaceTimeout
<1>5. PitOK(pit') /\ DOMAIN pit' = DOMAIN pit \ A
  <2>1. ASSUME NEW n \in DOMAIN pit
        PROVE  [pit[n] EXCEPT !.pending = @ \ {p}] \in Entry
    <3>1. pit[n] \in Entry
      BY DEF IInv, PitOK
    <3> QED  BY <3>1 DEF Entry
  <2>2. DOMAIN pit' = DOMAIN pit \ A /\ pit' \in [DOMAIN pit' -> Entry]
    BY <2>1 DEF FaceTimeout
  <2>3. DOMAIN pit' \in SUBSET DOMAIN pit /\ IsFiniteSet(DOMAIN pit)
    BY <2>2 DEF PitOK, IInv
  <2>4. IsFiniteSet(DOMAIN pit') /\ Cardinality(DOMAIN pit') =< Cardinality(DOMAIN pit)
    BY <2>3, FS_Subset
  <2>5. /\ Cardinality(DOMAIN pit) \in Nat /\ Cardinality(DOMAIN pit') \in Nat /\ MaxPit \in Nat
        /\ Cardinality(DOMAIN pit) =< MaxPit
    BY <2>3, <2>4, FS_CardinalityType, RiotAssumption DEF PitOK, IInv
  <2>6. Cardinality(DOMAIN pit') =< MaxPit
    BY <2>4, <2>5
  <2> QED  BY <2>2, <2>4, <2>6 DEF PitOK
<1> QED  BY <1>3, <1>4, <1>5 DEF IInv, AppOK, FaceTimeout

(* What a message of each type carries *)
LEMMA Carried ==
  ASSUME NEW m \in Message
  PROVE  /\ m.type = "RCV" /\ m.is = "interest" => m.peer \in Peer /\ m.name \in Name
         /\ m.type = "RCV" /\ m.is = "data" => m.peer \in Peer /\ m.name \in Name
         /\ m.type = "RCV" /\ m.is = "other" => m.peer \in Peer
         /\ m.type \in {"SND", "CS_ADD"} => m.name \in Name
BY RiotAssumption DEF Message, TimerMsg, TimerType, Packet, Request, Zero

LEMMA LoopKeeps ==
  ASSUME IInv, Loop
  PROVE  IInv'
<1> DEFINE m == Head(queue)
           q == Tail(queue)
<1>1. m \in Message /\ queue # <<>> /\ Handle(m, q) /\ UNCHANGED <<broken, app>>
  BY DEF Loop, IInv, Good, QueueOK
<1>2. /\ m.type = "RCV" /\ m.is = "interest" => m.peer \in Peer /\ m.name \in Name
      /\ m.type = "RCV" /\ m.is = "data" => m.peer \in Peer /\ m.name \in Name
      /\ m.type = "RCV" /\ m.is = "other" => m.peer \in Peer
      /\ m.type \in {"SND", "CS_ADD"} => m.name \in Name
  BY <1>1, Carried
<1>3. CASE m.type = "RCV" /\ m.is = "interest" /\ RxInterest(q, m.peer, m.name)
  BY <1>1, <1>2, <1>3, RxInterestKeeps
<1>4. CASE m.type = "RCV" /\ m.is = "data" /\ RxData(q, m.peer, m.name)
  BY <1>1, <1>2, <1>4, RxDataKeeps
<1>5. CASE m.type = "RCV" /\ m.is = "other" /\ RxOther(q, m.peer)
  BY <1>1, <1>2, <1>5, RxOtherKeeps
<1>6. CASE m.type = "SND" /\ SendInterest(q, m.name)
  BY <1>1, <1>2, <1>6, SendInterestKeeps
<1>7. CASE m.type = "CS_ADD" /\ CsAdd(q, m.name)
  BY <1>1, <1>2, <1>7, CsAddKeeps
<1>8. CASE m.type = "CS_DEL" /\ CsRemove(q, m.name)
  BY <1>1, <1>8, CsDelKeeps
<1>9. CASE m.type = "CS_EXPIRE" /\ \E n \in Name : m.obj = Cont(n) /\ CsRemove(q, n)
  BY <1>1, <1>9, CsExpireKeeps
<1>10. CASE m.type = "INT_RETRANS" /\ \E n \in Name : m.obj = PitEntry(n) /\ IntRetrans(q, n)
  BY <1>1, <1>10, IntRetransKeeps
<1>11. CASE m.type = "INT_TIMEOUT" /\ \E n \in Name : m.obj = PitEntry(n) /\ IntTimeout(q, n)
  BY <1>1, <1>11, IntTimeoutKeeps
<1>12. CASE m.type = "FACE_TIMEOUT" /\ \E p \in Peer : m.obj = Face(p) /\ FaceTimeout(q, p)
  BY <1>1, <1>12, FaceTimeoutKeeps
<1>13. CASE m.type = "none" /\ queue' = q /\ UNCHANGED <<tables, mailbox>>
  BY <1>1, <1>13, TakenOther DEF IInv, AppOK, tables
<1> QED  BY <1>1, <1>3, <1>4, <1>5, <1>6, <1>7, <1>8, <1>9, <1>10, <1>11, <1>12, <1>13 DEF Handle
-----------------------------------------------------------------------------
(***************************************************************************)
(* Time, interrupts, packets that arrive, and the application's thread     *)
(***************************************************************************)
LEMMA TickKeeps ==
  ASSUME IInv, Tick
  PROVE  IInv'
<1>1. TimersOK(evtimer) /\ \A t \in DOMAIN evtimer : evtimer[t] # 0
  BY DEF IInv, Good, Tick, Due
<1>2. TimersOK(evtimer') /\ DOMAIN evtimer' = DOMAIN evtimer
  BY <1>1 DEF TimersOK, Tick
<1>3. Good(DOMAIN pit, contents, evtimer', queue, lost)
  BY <1>2, OtherTimers DEF IInv, Has
<1> QED  BY <1>3 DEF IInv, AppOK, Tick

(* A timer of the relay runs out: its message is in the queue now, or counts as lost. *)
LEMMA FireKeeps ==
  ASSUME IInv, NEW t \in Timer, Fire(t)
  PROVE  IInv'
<1> DEFINE P == DOMAIN pit
           m == [type |-> t[1], obj |-> t[2]]
           u == Disarmed(evtimer, {t})
<1>1. /\ Good(P, contents, evtimer, queue, lost) /\ P \subseteq Name
      /\ \A k \in DOMAIN contents : contents[k] \in Name
      /\ t \in DOMAIN evtimer /\ t # Wait /\ evtimer' = u
  BY DEF IInv, Good, StoreOK, Fire, Due
<1>2. TimersOK(u) /\ DOMAIN u = DOMAIN evtimer \ {t}
  BY <1>1, DisarmedOK DEF Good
<1> HIDE DEF u
<1>3. m \in Message /\ t[2] \in Object
  BY <1>1, Kinds DEF Timer, Message, TimerMsg, TimerType
<1>4. t[1] \in {"INT_RETRANS", "INT_TIMEOUT"} => t[2] \in PitEntries(P)
  <2>1. ASSUME NEW n \in Name, t = Retrans(n) \/ t = Timeout(n)
        PROVE  t[2] \in PitEntries(P)
    BY <1>1, <2>1, Kinds DEF Good, LiveTimers, Has, PitEntries
  <2> QED  BY <1>1, <2>1, Kinds DEF Timer
<1>5. ASSUME NEW q, NEW l, Good(P, contents, evtimer, q, l), \/ \E k \in DOMAIN q : q[k] = m
                                                             \/ t[1] = "INT_RETRANS"
                                                             \/ t[2] \in l
      PROVE  Good(P, contents, u, q, l)
  <2>1. LiveTimers(P, u)
    BY <1>2, <1>5 DEF Good, LiveTimers, Has
  <2>2. \A n \in P : EntryTimed(n, u, q, l)
    <3>1. SUFFICES ASSUME NEW n \in P  PROVE EntryTimed(n, u, q, l)
      OBVIOUS
    <3>2. CASE t = Timeout(n)
      BY <1>1, <1>5, <3>2, Kinds DEF EntryTimed, Holds
    <3>3. CASE t # Timeout(n)
      BY <1>2, <1>5, <3>3 DEF EntryTimed, Good, Has
    <3> QED  BY <3>2, <3>3
  <2>3. \A k \in DOMAIN contents : ContentTimed(contents[k], u, q, l)
    <3>1. SUFFICES ASSUME NEW k \in DOMAIN contents  PROVE ContentTimed(contents[k], u, q, l)
      OBVIOUS
    <3>2. CASE t = Expiry(contents[k])
      BY <1>1, <1>5, <3>2, Kinds DEF ContentTimed, Holds
    <3>3. CASE t # Expiry(contents[k])
      BY <1>2, <1>5, <3>3 DEF ContentTimed, Good, Has
    <3> QED  BY <3>2, <3>3
  <2> QED  BY <1>2, <1>5, <2>1, <2>2, <2>3 DEF Good
<1>6. CASE Len(queue) < QueueSize
  <2>1. queue' = Append(queue, m) /\ lost' = lost
    BY <1>6 DEF Fire
  <2>2. /\ Good(P, contents, evtimer, Append(queue, m), lost)
        /\ \E k \in DOMAIN Append(queue, m) : Append(queue, m)[k] = m
    BY <1>1, <1>3, <1>4, <1>6, MessagePut
  <2>3. Good(P, contents, u, Append(queue, m), lost)
    BY <1>5, <2>2
  <2> QED  BY <1>1, <2>1, <2>3 DEF IInv, AppOK, Fire
<1>7. CASE ~ (Len(queue) < QueueSize)
  <2>1. queue' = queue /\ lost' = IF t[1] = "INT_RETRANS" THEN lost ELSE lost \cup {t[2]}
    BY <1>7 DEF Fire
  <2>2. Good(P, contents, evtimer, queue, lost')
    <3>1. lost \subseteq lost' /\ lost' \subseteq Object
      BY <1>1, <1>3, <2>1 DEF Good
    <3> QED  BY <1>1, <3>1 DEF Good, EntryTimed, ContentTimed
  <2>3. Good(P, contents, u, queue, lost')
    BY <1>5, <2>1, <2>2
  <2> QED  BY <1>1, <2>1, <2>3 DEF IInv, AppOK, Fire
<1> QED  BY <1>6, <1>7

LEMMA WaitTimer ==
  ASSUME IInv, NEW u, TimersOK(u),
         \/ DOMAIN u = DOMAIN evtimer \cup {Wait}
         \/ DOMAIN u = DOMAIN evtimer \ {Wait}
         \/ DOMAIN u = DOMAIN evtimer
  PROVE  Good(DOMAIN pit, contents, u, queue, lost)
<1>1. \A n \in Name : /\ Has(u, Retrans(n)) <=> Has(evtimer, Retrans(n))
                      /\ Has(u, Timeout(n)) <=> Has(evtimer, Timeout(n))
                      /\ Has(u, Expiry(n)) <=> Has(evtimer, Expiry(n))
  BY DistinctTimers DEF Has
<1> QED  BY <1>1, OtherTimers DEF IInv

LEMMA WaitStopped ==
  ASSUME IInv
  PROVE  Good(DOMAIN pit, contents, Disarmed(evtimer, {Wait}), queue, lost)
<1>1. TimersOK(evtimer)
  BY DEF IInv, Good
<1> QED  BY <1>1, DisarmedOK, WaitTimer

LEMMA WaitStarted ==
  ASSUME IInv
  PROVE  Good(DOMAIN pit, contents, Armed(evtimer, {Wait}, WaitTime), queue, lost)
<1>1. TimersOK(evtimer) /\ {Wait} \in SUBSET Timer /\ WaitTime \in Nat
  BY RiotAssumption DEF IInv, Good, Timer
<1> QED  BY <1>1, ArmedOK, WaitTimer

LEMMA FireWaitKeeps ==
  ASSUME IInv, FireWait
  PROVE  IInv'
<1>1. Good(DOMAIN pit, contents, evtimer', queue, lost)
  BY WaitStopped DEF FireWait
<1>2. MailOK(mailbox')
  <2>1. CASE Len(mailbox) < MailboxSize
    BY <2>1, MailPut DEF IInv, FireWait
  <2>2. CASE ~ (Len(mailbox) < MailboxSize)
    BY <2>2 DEF IInv, FireWait
  <2> QED  BY <2>1, <2>2
<1> QED  BY <1>1, <1>2 DEF IInv, AppOK, FireWait

(* A packet or a request is put in the queue. *)
LEMMA Enqueued ==
  ASSUME IInv, NEW m \in Packet \cup Request, Enqueue(m)
  PROVE  Good(DOMAIN pit, contents, evtimer, queue', lost)
<1>1. m \in Message /\ m.type \notin {"INT_RETRANS", "INT_TIMEOUT"}
  BY DEF Message, Packet, Request
<1> QED  BY <1>1, MessagePut DEF IInv, Enqueue

LEMMA AppKeeps ==
  ASSUME IInv, Arrive \/ AppAsk \/ AppWait \/ AppReceive \/ Stray
  PROVE  IInv'
<1>1. CASE Arrive
  <2>1. PICK m \in Packet \cup {r \in Request : r.type # "SND"} : Enqueue(m)
    BY <1>1 DEF Arrive
  <2>2. Good(DOMAIN pit, contents, evtimer, queue', lost)
    BY <2>1, Enqueued
  <2> QED  BY <1>1, <2>2 DEF IInv, AppOK, Arrive, tables
<1>2. CASE AppAsk
  <2>1. PICK n \in AppAsked : Enqueue([type |-> "SND", name |-> n])
    BY <1>2 DEF AppAsk
  <2>2. [type |-> "SND", name |-> n] \in Packet \cup Request
    BY DEF Request
  <2>3. Good(DOMAIN pit, contents, evtimer, queue', lost)
    BY <2>1, <2>2, Enqueued
  <2> QED  BY <1>2, <2>3 DEF IInv, AppOK, AppAsk, tables
<1>3. CASE AppWait
  BY <1>3, WaitStarted DEF IInv, AppOK, AppWait
<1>4. CASE AppReceive
  <2>1. MailOK(mailbox')
    <3>1. /\ mailbox \in Seq({"chunk", "timeout", "stray"}) /\ mailbox # <<>>
          /\ Len(mailbox) =< MailboxSize /\ MailboxSize \in Nat /\ mailbox' = Tail(mailbox)
      BY <1>4, RiotAssumption DEF IInv, MailOK, AppReceive
    <3>2. mailbox' \in Seq({"chunk", "timeout", "stray"}) /\ Len(mailbox') = Len(mailbox) - 1
      BY <3>1
    <3>3. Len(mailbox) \in Nat
      BY <3>1
    <3> QED  BY <3>1, <3>2, <3>3 DEF MailOK
  <2>2. Good(DOMAIN pit, contents, evtimer', queue, lost)
    <3>1. \/ evtimer' = Disarmed(evtimer, {Wait})
          \/ evtimer' = evtimer
          \/ evtimer' = Armed(evtimer, {Wait}, WaitTime)
      BY <1>4 DEF AppReceive, StrayTimer
    <3> QED  BY <3>1, WaitStopped, WaitStarted DEF IInv
  <2>3. AppOK'
    BY <1>4 DEF AppReceive, IInv, AppOK
  <2> QED  BY <1>4, <2>1, <2>2, <2>3 DEF IInv, AppReceive
<1>5. CASE Stray
  <2>1. MailOK(mailbox')
    BY <1>5, MailPut DEF IInv, Stray
  <2> QED  BY <1>5, <2>1 DEF IInv, AppOK, Stray, tables
<1> QED  BY <1>1, <1>2, <1>3, <1>4, <1>5
-----------------------------------------------------------------------------
LEMMA InitOK == Init => IInv
<1> SUFFICES ASSUME Init PROVE IInv
  OBVIOUS
<1>1. /\ DOMAIN pit = {} /\ pit \in [{} -> Entry] /\ contents = <<>> /\ queue = <<>>
      /\ DOMAIN evtimer = {} /\ evtimer \in [{} -> Nat] /\ lost = {}
  BY DEF Init
<1>2. PitOK(pit)
  <2>1. IsFiniteSet({}) /\ Cardinality({}) = 0
    BY FS_EmptySet
  <2> QED  BY <1>1, <2>1, RiotAssumption DEF PitOK
<1>3. StoreOK(contents) /\ QueueOK(queue)
  BY <1>1, RiotAssumption DEF StoreOK, CachedOnce, QueueOK
<1>4. TimersOK(evtimer)
  BY <1>1 DEF TimersOK
<1>5. Good(DOMAIN pit, contents, evtimer, queue, lost)
  BY <1>1, <1>3, <1>4 DEF Good, LiveQueue, LiveTimers, Has
<1>6. MailOK(mailbox) /\ AppOK /\ faces \subseteq Peer
  <2>1. MailOK(mailbox)
    BY RiotAssumption DEF Init, MailOK
  <2>2. AppOK /\ faces \subseteq Peer
    BY DEF Init, AppOK
  <2> QED  BY <2>1, <2>2
<1> QED  BY <1>2, <1>5, <1>6 DEF IInv

LEMMA NextKeeps ==
  ASSUME IInv, [Next]_vars
  PROVE  IInv'
<1>1. CASE Loop
  BY <1>1, LoopKeeps
<1>2. CASE Break
  BY <1>2 DEF Break, IInv, AppOK, tables
<1>3. CASE Tick
  BY <1>3, TickKeeps
<1>4. CASE Interrupt
  BY <1>4, FireKeeps, FireWaitKeeps DEF Interrupt
<1>5. CASE Arrive \/ AppAsk \/ AppWait \/ AppReceive \/ Stray
  BY <1>5, AppKeeps
<1>6. CASE UNCHANGED vars
  BY <1>6 DEF vars, IInv, AppOK
<1> QED  BY <1>1, <1>2, <1>3, <1>4, <1>5, <1>6 DEF Next

LEMMA Kept == Spec => []IInv
<1>1. IInv /\ [Next]_vars => IInv'
  BY NextKeeps
<1> QED  BY InitOK, <1>1, PTL DEF Spec

(***************************************************************************)
(* The tables stay within max_pit_entries and max_cache_entries, the queue *)
(* within CCNL_QUEUE_SIZE, and an entry is never repeated more often than  *)
(* ccnl_interest_retransmit allows.                                        *)
(***************************************************************************)
THEOREM TablesTyped == Spec => []TypeOK
<1>1. IInv => TypeOK
  BY DEF IInv, Good, StoreOK, QueueOK, TimersOK, PitOK, MailOK, AppOK, TypeOK
<1> QED  BY <1>1, Kept, PTL

(***************************************************************************)
(* No timeout or repetition is handled for an Interest that is gone,       *)
(* however many messages wait and whichever of them removed it.            *)
(***************************************************************************)
THEOREM NoTimeoutOfTheGone == Spec => []InterestsLive
<1>1. IInv => InterestsLive
  BY DEF IInv, Good, LiveQueue, LiveTimers, InterestsLive, Has
<1> QED  BY <1>1, Kept, PTL

(***************************************************************************)
(* Everything kept is timed: its timer runs, or its message waits, or the  *)
(* queue was full; contents whose path continues another name's excepted.  *)
(***************************************************************************)
THEOREM KeptIsTimed == Spec => []Timed
<1>1. IInv => Timed
  BY DEF IInv, Good, EntryTimed, ContentTimed, Holds, Doubted, Queued, Timed
<1> QED  BY <1>1, Kept, PTL
=============================================================================
