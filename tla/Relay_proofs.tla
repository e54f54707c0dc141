---------------------------- MODULE Relay_proofs ----------------------------
(***************************************************************************)
(* Theorems about the relay, for every set of peers and packets, every     *)
(* timeout and every limit.                                                *)
(***************************************************************************)
EXTENDS RelayProps, NameLaws, SequenceTheorems, FiniteSetTheorems, TLAPS

USE DEF NoFace, FaceId

LEMMA FlagsType ==
  ASSUME NEW b \in BOOLEAN
  PROVE  [Dynamic EXCEPT !.reflect = b] \in [static : BOOLEAN, reflect : BOOLEAN]
BY DEF Dynamic

(* What TypeOK says of the table of faces. *)
FacesOK(fs, n) == fs \in [DOMAIN fs -> Face] /\ DOMAIN fs \subseteq 1..n

-----------------------------------------------------------------------------
(* Lemmas about the operators the handlers are built from *)

LEMMA NewFaceType ==
  ASSUME NEW p \in Peer, NEW flags \in [static : BOOLEAN, reflect : BOOLEAN]
  PROVE  NewFace(p, flags) \in Face
BY BoundsAssumption DEF NewFace, Face

LEMMA WithFaceType ==
  ASSUME NEW fs, NEW n \in Nat, FacesOK(fs, n), NEW r \in Face,
         NEW m \in Nat, n =< m, NEW f \in 1..m
  PROVE  /\ FacesOK(WithFace(fs, f, r), m)
         /\ DOMAIN WithFace(fs, f, r) = DOMAIN fs \cup {f}
BY DEF FacesOK, WithFace

LEMMA RefreshedType ==
  ASSUME TypeOK, NEW q \in Peer, NEW f \in FaceId, IsFaceFor(f, q)
  PROVE  LET n == IF f \in DOMAIN faces THEN seqno ELSE f IN
           /\ n \in 0..MaxFaceId
           /\ FacesOK(Refreshed(f, q), n)
           /\ DOMAIN Refreshed(f, q) = DOMAIN faces \cup {f}
<1> DEFINE n == IF f \in DOMAIN faces THEN seqno ELSE f
           r == IF f \in DOMAIN faces THEN [faces[f] EXCEPT !.age = 0]
                ELSE NewFace(q, [Dynamic EXCEPT !.reflect = q \in ReflectPeer])
<1>1. f \notin DOMAIN faces => f = seqno + 1
  BY DEF IsFaceFor, FacesOf
<1>2. /\ seqno \in Nat /\ n \in 0..MaxFaceId /\ n \in Nat /\ seqno =< n /\ f \in 1..n
      /\ FacesOK(faces, seqno)
  BY <1>1, BoundsAssumption DEF TypeOK, FacesOK
<1>3. r \in Face
  <2>1. CASE f \in DOMAIN faces
    <3>1. faces[f] \in Face
      BY <2>1 DEF TypeOK
    <3> QED
      BY <2>1, <3>1, BoundsAssumption DEF Face
  <2>2. CASE f \notin DOMAIN faces
    <3>1. [Dynamic EXCEPT !.reflect = q \in ReflectPeer] \in [static : BOOLEAN, reflect : BOOLEAN]
      <4> DEFINE b == q \in ReflectPeer
      <4>1. b \in BOOLEAN
        OBVIOUS
      <4> HIDE DEF b
      <4>2. [Dynamic EXCEPT !.reflect = b] \in [static : BOOLEAN, reflect : BOOLEAN]
        BY <4>1, FlagsType
      <4> QED
        BY <4>2 DEF b
    <3> QED
      BY <2>2, <3>1, NewFaceType
  <2> QED
    BY <2>1, <2>2
<1>4. Refreshed(f, q) = WithFace(faces, f, r)
  BY DEF Refreshed
<1> HIDE DEF n, r
<1>5. FacesOK(Refreshed(f, q), n) /\ DOMAIN Refreshed(f, q) = DOMAIN faces \cup {f}
  BY <1>2, <1>3, <1>4, WithFaceType
<1> QED
  BY <1>2, <1>5 DEF n

LEMMA RxType ==
  ASSUME TypeOK, NEW q \in Peer, NEW f, Rx(f, q)
  PROVE  /\ seqno' \in 0..MaxFaceId /\ FacesOK(faces', seqno')
         /\ DOMAIN faces' = DOMAIN faces \cup {f}
         /\ f \in FaceId
BY RefreshedType DEF Rx

LEMMA FacesWithoutType ==
  ASSUME NEW fs, NEW n \in Nat, FacesOK(fs, n), NEW gone
  PROVE  /\ FacesOK(FacesWithout(fs, gone), n)
         /\ DOMAIN FacesWithout(fs, gone) = DOMAIN fs \ gone
BY DEF FacesOK, FacesWithout

LEMMA PitWithoutType ==
  ASSUME NEW entries, entries \subseteq Pending, NEW gone
  PROVE  PitWithout(entries, gone) \subseteq Pending
<1>1. ASSUME NEW i \in Pending
      PROVE  [i EXCEPT !.pending = @ \ gone,
                       !.from = IF @ \in gone THEN NoFace ELSE @] \in Pending
  BY DEF Pending
<1> QED
  BY <1>1 DEF PitWithout

LEMMA NewContentType ==
  ASSUME NEW d \in AnyData, NEW static \in BOOLEAN
  PROVE  NewContent(d, static) \in Content
BY BoundsAssumption DEF NewContent, Content

LEMMA CacheType ==
  ASSUME cs \subseteq Content, NEW c \in Content, AddToCache(c)
  PROVE  cs' \subseteq cs \cup {c}
BY DEF AddToCache, Evict, Insert

LEMMA NonceType ==
  ASSUME TypeOK, NEW p \in Packet, Remember(p)
  PROVE  nonces' \in Seq({r.nonce : r \in Packet}) /\ Len(nonces') =< MaxNonces
<1> DEFINE S == {r.nonce : r \in Packet}
<1>1. nonces \in Seq(S) /\ Len(nonces) =< MaxNonces /\ <<p.nonce>> \in Seq(S) /\ MaxNonces \in Nat
  BY BoundsAssumption DEF TypeOK
<1>2. CASE ~ HasNonce(p)
  BY <1>1, <1>2 DEF Remember
<1>3. CASE HasNonce(p) /\ Len(nonces) < MaxNonces
  <2>1. nonces' = <<p.nonce>> \o nonces
    BY <1>3 DEF Remember
  <2> HIDE DEF S
  <2>2. nonces' \in Seq(S) /\ Len(nonces') = 1 + Len(nonces)
    BY <1>1, <2>1, ConcatProperties
  <2> QED
    BY <1>1, <1>3, <2>2, LenProperties DEF S
<1>4. CASE HasNonce(p) /\ ~ (Len(nonces) < MaxNonces)
  <2> DEFINE kept == SubSeq(nonces, 1, MaxNonces - 1)
  <2>1. nonces' = <<p.nonce>> \o kept
    BY <1>4 DEF Remember
  <2>2. Len(nonces) \in Nat /\ Len(nonces) = MaxNonces /\ MaxNonces > 1
    BY <1>1, <1>4, BoundsAssumption, LenProperties
  <2> HIDE DEF S
  <2>3. kept \in Seq(S) /\ Len(kept) = MaxNonces - 1
    BY <1>1, <2>2, SubSeqProperties
  <2> HIDE DEF kept
  <2>4. nonces' \in Seq(S) /\ Len(nonces') = 1 + Len(kept)
    BY <1>1, <2>1, <2>3, ConcatProperties
  <2> QED
    BY <1>1, <2>2, <2>3, <2>4 DEF S
<1> QED
  BY <1>2, <1>3, <1>4
-----------------------------------------------------------------------------
(* The type invariant *)

LEMMA InitType == Init => TypeOK
<1> SUFFICES ASSUME Init PROVE TypeOK
  OBVIOUS
<1>1. seqno \in 0..MaxFaceId /\ FacesOK(faces, seqno)
  BY BoundsAssumption DEF Init, FacesOK
<1>2. cs \subseteq Content
  <2>1. PICK files \in SUBSET Preload : cs = {NewContent(d, TRUE) : d \in files}
    BY DEF Init
  <2> QED
    BY <2>1, NewContentType DEF AnyData
<1>3. nonces \in Seq({r.nonce : r \in Packet}) /\ Len(nonces) =< MaxNonces
  BY BoundsAssumption DEF Init
<1>4. fib \subseteq Route /\ pit \subseteq Pending /\ lag \in 0..MaxLag
  BY BoundsAssumption DEF Init
<1> QED
  BY <1>1, <1>2, <1>3, <1>4 DEF TypeOK, FacesOK

LEMMA InterestType ==
  ASSUME TypeOK, NEW p \in Interest, NEW f \in FaceId, HandleInterest(f, p)
  PROVE  /\ fib' = fib /\ cs' = cs /\ lag' = lag
         /\ pit' \subseteq Pending
         /\ nonces' \in Seq({r.nonce : r \in Packet}) /\ Len(nonces') =< MaxNonces
<1>1. p \in Packet /\ Hop(p) \in Packet
  BY DEF Packet
<1>2. CASE DropInterest(f, p)
  BY <1>2 DEF DropInterest, tables, TypeOK
<1>3. CASE AnswerFromCache(f, p)
  BY <1>1, <1>3, NonceType DEF AnswerFromCache, TypeOK
<1>4. CASE RefuseInterest(f, p)
  BY <1>1, <1>4, NonceType DEF RefuseInterest, TypeOK
<1>5. CASE JoinEntry(f, p)
  <2>1. PICK i \in pit : pit' = (pit \ {i}) \cup {[i EXCEPT !.pending = @ \cup {f}]}
    BY <1>5 DEF JoinEntry
  <2>2. [i EXCEPT !.pending = @ \cup {f}] \in Pending
    <3>1. i \in Pending
      BY DEF TypeOK
    <3> QED
      BY <3>1 DEF Pending
  <2> QED
    BY <1>1, <1>5, <2>1, <2>2, NonceType DEF JoinEntry, TypeOK
<1>6. CASE CreateEntry(f, p)
  <2> DEFINE i == [NewEntry(Hop(p), 1, f) EXCEPT !.pending = {f}]
  <2>1. pit' = pit \cup {i}
    BY <1>6 DEF CreateEntry
  <2>2. i \in Pending
    BY <1>1, BoundsAssumption DEF NewEntry, Pending
  <2> HIDE DEF i
  <2> QED
    BY <1>1, <1>6, <2>1, <2>2, NonceType DEF CreateEntry, TypeOK
<1> QED
  BY <1>2, <1>3, <1>4, <1>5, <1>6 DEF HandleInterest

LEMMA ServeType ==
  ASSUME TypeOK, NEW d \in AnyData
  PROVE  /\ ServePending(d) => pit' \subseteq Pending
         /\ AddToCache(NewContent(d, Pins(d))) => cs' \subseteq Content
<1> DEFINE c == NewContent(d, Pins(d))
<1>1. c \in Content
  <2>1. Pins(d) \in BOOLEAN
    BY DEF Pins
  <2> QED
    BY <2>1, NewContentType
<1>2. cs \subseteq Content /\ pit \subseteq Pending
  BY DEF TypeOK
<1> HIDE DEF c
<1>3. AddToCache(c) => cs' \subseteq Content
  BY <1>1, <1>2, CacheType
<1> QED
  BY <1>2, <1>3 DEF ServePending, c

LEMMA AgeingType ==
  ASSUME TypeOK
  PROVE  /\ Retransmitted \subseteq Pending
         /\ {[c EXCEPT !.stale = @ \/ Stales(c)] : c \in {d \in cs : Kept(d)}} \subseteq Content
<1>1. ASSUME NEW i \in pit, ~ TimedOut(i)
      PROVE  [i EXCEPT !.retries = @ + 1] \in Pending
  <2>1. i \in Pending
    BY DEF TypeOK
  <2> QED
    BY <1>1, <2>1, BoundsAssumption DEF TimedOut, Pending
<1>2. ASSUME NEW c \in cs
      PROVE  [c EXCEPT !.stale = @ \/ Stales(c)] \in Content
  <2> DEFINE b == c.stale \/ Stales(c)
  <2>1. c \in Content
    BY DEF TypeOK
  <2>2. b \in BOOLEAN
    OBVIOUS
  <2> HIDE DEF b
  <2>3. [c EXCEPT !.stale = b] \in Content
    BY <2>1, <2>2 DEF Content
  <2> QED
    BY <2>3 DEF b
<1> QED
  BY <1>1, <1>2 DEF Retransmitted

LEMMA TickType ==
  ASSUME TypeOK, Tick
  PROVE  /\ FacesOK(faces', seqno)
         /\ pit' \subseteq Pending /\ cs' \subseteq Content /\ lag' \in 0..MaxLag
<1>1. \A a \in 0..AgeCap : Older(a) \in 0..AgeCap
  BY BoundsAssumption DEF Older
<1>2. ASSUME NEW f \in DOMAIN faces
      PROVE  [faces[f] EXCEPT !.age = Older(@)] \in Face
  <2>1. faces[f] \in Face
    BY DEF TypeOK
  <2> QED
    BY <1>1, <2>1 DEF Face
<1>3. ASSUME NEW i \in pit
      PROVE  [i EXCEPT !.age = Older(@)] \in Pending
  <2>1. i \in Pending
    BY DEF TypeOK
  <2> QED
    BY <1>1, <2>1 DEF Pending
<1>4. ASSUME NEW c \in cs
      PROVE  [c EXCEPT !.age = Older(@)] \in Content
  <2>1. c \in Content
    BY DEF TypeOK
  <2> QED
    BY <1>1, <2>1 DEF Content
<1>5. FacesOK(faces', seqno)
  BY <1>2 DEF Tick, TypeOK, FacesOK
<1>6. pit' \subseteq Pending /\ cs' \subseteq Content
  BY <1>3, <1>4 DEF Tick, TypeOK
<1> QED
  BY <1>5, <1>6, BoundsAssumption DEF Tick, TypeOK

(* A step proves its part of the type invariant from the tables it leaves alone. *)
LEMMA RxKeepsType ==
  ASSUME TypeOK, NEW q \in Peer, NEW f, Rx(f, q),
         fib' \subseteq Route, pit' \subseteq Pending, cs' \subseteq Content, lag' = lag,
         nonces' \in Seq({r.nonce : r \in Packet}) /\ Len(nonces') =< MaxNonces
  PROVE  TypeOK'
BY RxType DEF TypeOK, FacesOK

LEMMA RouteType ==
  ASSUME TypeOK, NEW prefix \in Prefix, NEW g \in FaceId, AppendRoute(prefix, g)
  PROVE  fib' \subseteq Route
BY DEF TypeOK, AppendRoute, Route

LEMMA NextType == TypeOK /\ [Next]_vars => TypeOK'
<1> SUFFICES ASSUME TypeOK, [Next]_vars PROVE TypeOK'
  OBVIOUS
<1> LocalPeer \subseteq Peer
  BY PeerAssumption
<1>0. /\ fib \subseteq Route /\ pit \subseteq Pending /\ cs \subseteq Content /\ lag \in 0..MaxLag
      /\ nonces \in Seq({r.nonce : r \in Packet}) /\ Len(nonces) =< MaxNonces
      /\ seqno \in 0..MaxFaceId /\ FacesOK(faces, seqno)
  BY DEF TypeOK, FacesOK
<1>1. ASSUME NEW f \in FaceId, NEW q \in Peer, RxInterest(f, q)
      PROVE  TypeOK'
  <2>1. PICK p \in Interest : HandleInterest(f, p)
    BY <1>1 DEF RxInterest
  <2> QED
    BY <1>0, <1>1, <2>1, InterestType, RxKeepsType DEF RxInterest
<1>2. ASSUME NEW f \in FaceId, NEW q \in Peer, RxData(f, q)
      PROVE  TypeOK'
  <2>1. PICK d \in Data : DropData(d) \/ AcceptData(d)
    BY <1>2 DEF RxData
  <2>2. d \in AnyData
    BY DEF AnyData
  <2>3. pit' \subseteq Pending /\ cs' \subseteq Content /\ UNCHANGED <<fib, nonces, lag>>
    BY <1>0, <2>1, <2>2, ServeType DEF DropData, AcceptData, tables
  <2> QED
    BY <1>0, <1>2, <2>3, RxKeepsType DEF RxData
<1>3. ASSUME NEW f \in FaceId, NEW q \in Peer, RxOther(f, q)
      PROVE  TypeOK'
  BY <1>0, <1>3, RxKeepsType DEF RxOther, tables
<1>4. ASSUME NEW f \in FaceId, NEW q \in LocalPeer, MgmtNewFace(f, q)
      PROVE  TypeOK'
  <2> DEFINE n == IF f \in DOMAIN faces THEN seqno ELSE f
  <2>1. PICK g \in FaceId, p \in Peer, flags \in [static : BOOLEAN, reflect : BOOLEAN] :
          /\ g = n + 1
          /\ faces' = WithFace(Refreshed(f, q), g, NewFace(p, flags))
          /\ seqno' = g
    BY <1>4 DEF MgmtNewFace
  <2>2. n \in 0..MaxFaceId /\ FacesOK(Refreshed(f, q), n)
    BY <1>4, RefreshedType DEF MgmtNewFace
  <2> HIDE DEF n
  <2>3. NewFace(p, flags) \in Face
    BY NewFaceType
  <2>4. n \in Nat /\ g \in Nat /\ n =< g /\ g \in 1..g
    BY <2>1, <2>2, BoundsAssumption
  <2>5. FacesOK(faces', seqno')
    BY <2>1, <2>2, <2>3, <2>4, WithFaceType
  <2> QED
    BY <1>0, <1>4, <2>1, <2>5, BoundsAssumption DEF MgmtNewFace, tables, TypeOK, FacesOK
<1>5. ASSUME NEW f \in FaceId, NEW q \in LocalPeer, MgmtDestroyFace(f, q)
      PROVE  TypeOK'
  <2> DEFINE n == IF f \in DOMAIN faces THEN seqno ELSE f
  <2>1. PICK g \in DOMAIN Refreshed(f, q) :
          /\ faces' = FacesWithout(Refreshed(f, q), {g})
          /\ fib' = RoutesWithout({g})
          /\ pit' = PitWithout(pit, {g})
    BY <1>5 DEF MgmtDestroyFace
  <2>2. n \in 0..MaxFaceId /\ FacesOK(Refreshed(f, q), n) /\ seqno' = n
    BY <1>5, RefreshedType DEF MgmtDestroyFace
  <2> HIDE DEF n
  <2>3. FacesOK(faces', seqno')
    <3>1. n \in Nat
      BY <2>2, BoundsAssumption
    <3> QED
      BY <2>1, <2>2, <3>1, FacesWithoutType
  <2>4. fib' \subseteq Route /\ pit' \subseteq Pending
    BY <1>0, <2>1, PitWithoutType DEF RoutesWithout
  <2> QED
    BY <1>0, <1>5, <2>2, <2>3, <2>4 DEF MgmtDestroyFace, TypeOK, FacesOK
<1>6. ASSUME NEW f \in FaceId, NEW q \in LocalPeer, MgmtPrefixReg(f, q)
      PROVE  TypeOK'
  <2>1. PICK prefix \in Prefix, g \in DOMAIN faces' : AppendRoute(prefix, g)
    BY <1>6 DEF MgmtPrefixReg
  <2>2. g \in FaceId
    <3>1. seqno' \in 0..MaxFaceId /\ DOMAIN faces' \subseteq 1..seqno'
      BY <1>6, RxType DEF MgmtPrefixReg, FacesOK
    <3> QED
      BY <3>1, BoundsAssumption
  <2> QED
    BY <1>0, <1>6, <2>1, <2>2, RouteType, RxKeepsType DEF MgmtPrefixReg
<1>7. ASSUME NEW f \in FaceId, NEW q \in LocalPeer, MgmtAddCacheObject(f, q)
      PROVE  TypeOK'
  <2>1. PICK n \in CacheName, g \in 1..MaxGen : pit' = pit \cup {NewEntry(CacheRequest(n), g, f)}
    BY <1>7 DEF MgmtAddCacheObject
  <2>2. CacheRequest(n) \in Packet
    BY DEF Packet
  <2>3. NewEntry(CacheRequest(n), g, f) \in Pending
    BY <2>2, BoundsAssumption DEF NewEntry, Pending
  <2> QED
    BY <1>0, <1>7, <2>1, <2>3, RxKeepsType DEF MgmtAddCacheObject
<1>8. ASSUME NEW f \in FaceId, NEW q \in LocalPeer, MgmtRemoveCacheObject(f, q)
      PROVE  TypeOK'
  BY <1>0, <1>8, RxKeepsType DEF MgmtRemoveCacheObject
<1>10. CASE CsAdd
  <2>1. PICK d \in AppData : AddToCache(NewContent(d, Pins(d))) /\ ServePending(d)
    BY <1>10 DEF CsAdd
  <2>2. d \in AnyData
    BY DEF AnyData
  <2>3. pit' \subseteq Pending /\ cs' \subseteq Content
    BY <2>1, <2>2, ServeType
  <2> QED
    BY <1>0, <1>10, <2>3 DEF CsAdd, TypeOK
<1>11. CASE FibAdd
  <2>1. PICK prefix \in Prefix, g \in DOMAIN faces :
          \/ AppendRoute(prefix, g)
          \/ \E r \in First(RoutesFor(prefix)) :
               fib' = (fib \ {r}) \cup {[r EXCEPT !.prefix = prefix, !.face = g]}
    BY <1>11 DEF FibAdd
  <2>2. g \in FaceId
    BY <1>0, BoundsAssumption DEF FacesOK
  <2>3. \A r \in First(RoutesFor(prefix)) : [r EXCEPT !.prefix = prefix, !.face = g] \in Route
    BY <1>0, <2>2 DEF First, RoutesFor, Route
  <2>4. fib' \subseteq Route
    BY <1>0, <2>1, <2>2, <2>3, RouteType
  <2> QED
    BY <1>0, <1>11, <2>4 DEF FibAdd, TypeOK
<1>12. CASE FibRem
  BY <1>0, <1>12 DEF FibRem, TypeOK
<1>13. CASE Tick
  <2>1. /\ FacesOK(faces', seqno)
        /\ pit' \subseteq Pending /\ cs' \subseteq Content /\ lag' \in 0..MaxLag
    BY <1>13, TickType
  <2> QED
    BY <1>0, <1>13, <2>1 DEF Tick, TypeOK, FacesOK
<1>14. CASE Ageing
  <2>1. pit' \subseteq Pending /\ cs' \subseteq Content
    BY <1>14, AgeingType, PitWithoutType DEF Ageing
  <2>2. FacesOK(faces', seqno)
    <3>1. seqno \in Nat /\ FacesOK(faces, seqno) /\ faces' = FacesWithout(faces, Idle)
      BY <1>0, <1>14, BoundsAssumption DEF Ageing
    <3> QED
      BY <3>1, FacesWithoutType
  <2>3. fib' \subseteq Route
    BY <1>0, <1>14 DEF Ageing, RoutesWithout
  <2> QED
    BY <1>0, <1>14, <2>1, <2>2, <2>3, BoundsAssumption DEF Ageing, TypeOK, FacesOK
<1>15. CASE UNCHANGED vars
  BY <1>15 DEF vars, TypeOK
<1> QED
  BY <1>1, <1>2, <1>3, <1>4, <1>5, <1>6, <1>7, <1>8, <1>10, <1>11, <1>12, <1>13,
     <1>14, <1>15 DEF Next, Receive, Mgmt

(***************************************************************************)
(* Every reachable state has its type: no table holds anything but what a  *)
(* handler may put there, no face id, list of nonces or count of           *)
(* retransmissions passes its limit.                                       *)
(***************************************************************************)
THEOREM TypeCorrect == Spec => []TypeOK
<1>1. Init => TypeOK
  BY InitType
<1>2. TypeOK /\ [Next]_vars => TypeOK'
  BY NextType
<1> QED
  BY <1>1, <1>2, PTL DEF Spec
-----------------------------------------------------------------------------
(***************************************************************************)
(* Theorems about the faces of the relay: no table refers to a face that   *)
(* was freed, and no face times out before the Interests it waits for.     *)
(***************************************************************************)

(* NoDanglingFace, for each table and any set of live faces *)
EntriesLive(entries, live) ==
  \A i \in entries : i.from \in live \cup {NoFace} /\ i.pending \subseteq live

RoutesLive(routes, live) == \A r \in routes : r.face \in live

LEMMA Live ==
  NoDanglingFace <=> EntriesLive(pit, DOMAIN faces) /\ RoutesLive(fib, DOMAIN faces)
BY DEF NoDanglingFace, EntriesLive, RoutesLive

(* ccnl_face_remove cleans the PIT and the FIB of what it removes. *)
LEMMA PitWithoutLive ==
  ASSUME NEW entries, entries \subseteq Pending, NEW live, EntriesLive(entries, live), NEW gone
  PROVE  EntriesLive(PitWithout(entries, gone), live \ gone)
<1>1. CASE gone = {}
  BY <1>1 DEF PitWithout, EntriesLive
<1>2. CASE gone # {}
  <2> DEFINE cut(i) == [i EXCEPT !.pending = @ \ gone,
                                 !.from = IF @ \in gone THEN NoFace ELSE @]
  <2>1. ASSUME NEW i \in entries
        PROVE  cut(i).pending \subseteq live \ gone /\ cut(i).from \in (live \ gone) \cup {NoFace}
    <3>1. /\ i \in Pending
          /\ i.from \in live \cup {NoFace} /\ i.pending \subseteq live
      BY DEF EntriesLive
    <3>2. cut(i).pending = i.pending \ gone /\ cut(i).from = IF i.from \in gone THEN NoFace ELSE i.from
      BY <3>1 DEF Pending
    <3> QED
      BY <3>1, <3>2
  <2>2. \A j \in PitWithout(entries, gone) : \E i \in entries : j = cut(i)
    BY <1>2 DEF PitWithout
  <2> HIDE DEF cut
  <2> QED
    BY <2>1, <2>2 DEF EntriesLive
<1> QED
  BY <1>1, <1>2

LEMMA RoutesWithoutLive ==
  ASSUME NEW live, RoutesLive(fib, live), NEW gone
  PROVE  RoutesLive(RoutesWithout(gone), live \ gone)
BY DEF RoutesLive, RoutesWithout

LEMMA MoreLive ==
  ASSUME NEW live, NEW more, live \subseteq more
  PROVE  /\ \A entries : EntriesLive(entries, live) => EntriesLive(entries, more)
         /\ \A routes : RoutesLive(routes, live) => RoutesLive(routes, more)
BY DEF EntriesLive, RoutesLive

LEMMA InterestLive ==
  ASSUME TypeOK, NEW live, EntriesLive(pit, live), NEW f \in live,
         NEW p \in Interest, HandleInterest(f, p)
  PROVE  EntriesLive(pit', live)
<1>1. CASE UNCHANGED pit
  BY <1>1 DEF EntriesLive
<1>2. CASE JoinEntry(f, p)
  <2>1. PICK i \in pit : pit' = (pit \ {i}) \cup {[i EXCEPT !.pending = @ \cup {f}]}
    BY <1>2 DEF JoinEntry
  <2> DEFINE j == [i EXCEPT !.pending = @ \cup {f}]
  <2>2. i \in Pending
    BY DEF TypeOK
  <2>3. j.from = i.from /\ j.pending = i.pending \cup {f}
    BY <2>2 DEF Pending
  <2> HIDE DEF j
  <2> QED
    BY <2>1, <2>3 DEF EntriesLive, j
<1>3. CASE CreateEntry(f, p)
  <2> DEFINE j == [NewEntry(Hop(p), 1, f) EXCEPT !.pending = {f}]
  <2>1. j.from = f /\ j.pending = {f}
    BY DEF NewEntry
  <2>2. pit' = pit \cup {j}
    BY <1>3 DEF CreateEntry
  <2> HIDE DEF j
  <2> QED
    BY <2>1, <2>2 DEF EntriesLive
<1> QED
  BY <1>1, <1>2, <1>3 DEF HandleInterest, DropInterest, AnswerFromCache, RefuseInterest, tables

(* What ages an entry, or counts its retransmissions, leaves its faces alone. *)
LEMMA SameLive ==
  ASSUME NEW entries, NEW live, EntriesLive(entries, live), NEW others,
         \A j \in others : \E i \in entries : j.from = i.from /\ j.pending = i.pending
  PROVE  EntriesLive(others, live)
BY DEF EntriesLive

LEMMA AgedSame ==
  ASSUME TypeOK
  PROVE  /\ Tick => \A j \in pit' : \E i \in pit : j.from = i.from /\ j.pending = i.pending
         /\ \A j \in Retransmitted : \E i \in pit : j.from = i.from /\ j.pending = i.pending
<1>1. ASSUME NEW i \in pit
      PROVE  /\ [i EXCEPT !.age = Older(@)].from = i.from
             /\ [i EXCEPT !.age = Older(@)].pending = i.pending
             /\ [i EXCEPT !.retries = @ + 1].from = i.from
             /\ [i EXCEPT !.retries = @ + 1].pending = i.pending
  <2>1. i \in Pending
    BY DEF TypeOK
  <2> QED
    BY <2>1 DEF Pending
<1>2. ASSUME Tick, NEW j \in pit'
      PROVE  \E i \in pit : j.from = i.from /\ j.pending = i.pending
  <2>1. pit' = {[i EXCEPT !.age = Older(@)] : i \in pit}
    BY <1>2 DEF Tick
  <2>2. PICK i \in pit : j = [i EXCEPT !.age = Older(@)]
    BY <1>2, <2>1
  <2> QED
    BY <1>1, <2>2
<1>3. ASSUME NEW j \in Retransmitted
      PROVE  \E i \in pit : j.from = i.from /\ j.pending = i.pending
  <2>1. PICK i \in pit : j = [i EXCEPT !.retries = @ + 1] \/ j = i
    BY <1>3 DEF Retransmitted
  <2> QED
    BY <1>1, <2>1
<1> QED
  BY <1>2, <1>3

LEMMA NextLive == TypeOK /\ NoDanglingFace /\ [Next]_vars => NoDanglingFace'
<1> SUFFICES ASSUME TypeOK, NoDanglingFace, [Next]_vars PROVE NoDanglingFace'
  OBVIOUS
<1> USE DEF NoDanglingFace
<1> LocalPeer \subseteq Peer
  BY PeerAssumption
<1>0. EntriesLive(pit, DOMAIN faces) /\ RoutesLive(fib, DOMAIN faces)
  BY Live
<1>00. ASSUME NEW f, NEW q \in Peer, Rx(f, q)
       PROVE  /\ f \in DOMAIN faces'
              /\ EntriesLive(pit, DOMAIN faces') /\ RoutesLive(fib, DOMAIN faces')
  <2>1. DOMAIN faces' = DOMAIN faces \cup {f}
    BY <1>00, RxType
  <2>2. DOMAIN faces \subseteq DOMAIN faces' /\ f \in DOMAIN faces'
    BY <2>1
  <2> QED
    BY <1>0, <2>2, MoreLive
<1>000. EntriesLive(pit', DOMAIN faces') /\ RoutesLive(fib', DOMAIN faces') => NoDanglingFace'
  BY DEF EntriesLive, RoutesLive
<1>001. \A d : ServePending(d) => pit' \subseteq pit
  BY DEF ServePending
<1>1. ASSUME NEW f \in FaceId, NEW q \in Peer, RxInterest(f, q)
      PROVE  NoDanglingFace'
  <2>1. PICK p \in Interest : HandleInterest(f, p)
    BY <1>1 DEF RxInterest
  <2>2. fib' = fib
    BY <2>1, InterestType
  <2>3. f \in DOMAIN faces' /\ EntriesLive(pit, DOMAIN faces') /\ RoutesLive(fib, DOMAIN faces')
    BY <1>1, <1>00 DEF RxInterest
  <2>4. EntriesLive(pit', DOMAIN faces')
    BY <2>1, <2>3, InterestLive
  <2> QED
    BY <1>000, <2>2, <2>3, <2>4
<1>2. ASSUME NEW f \in FaceId, NEW q \in Peer, RxData(f, q)
      PROVE  NoDanglingFace'
  <2>1. pit' \subseteq pit /\ fib' = fib
    BY <1>2, <1>001 DEF RxData, DropData, AcceptData, tables
  <2> QED
    BY <1>00, <1>2, <2>1, <1>000 DEF RxData, EntriesLive
<1>3. ASSUME NEW f \in FaceId, NEW q \in Peer, RxOther(f, q)
      PROVE  NoDanglingFace'
  BY <1>00, <1>3, <1>000 DEF RxOther, tables
<1>4. ASSUME NEW f \in FaceId, NEW q \in LocalPeer, MgmtNewFace(f, q)
      PROVE  NoDanglingFace'
  <2>1. DOMAIN faces \subseteq DOMAIN faces'
    <3>1. PICK g \in FaceId, r \in {NewFace(p, flags) :
                 p \in Peer, flags \in [static : BOOLEAN, reflect : BOOLEAN]} :
            faces' = WithFace(Refreshed(f, q), g, r)
      BY <1>4 DEF MgmtNewFace
    <3>2. DOMAIN faces' = DOMAIN Refreshed(f, q) \cup {g}
      BY <3>1 DEF WithFace
    <3>3. q \in Peer /\ IsFaceFor(f, q)
      BY <1>4 DEF MgmtNewFace
    <3>4. DOMAIN Refreshed(f, q) = DOMAIN faces \cup {f}
      BY <3>3, RefreshedType
    <3> QED
      BY <3>2, <3>4
  <2> QED
    BY <1>0, <1>000, <1>4, <2>1, MoreLive DEF MgmtNewFace, tables
<1>5. ASSUME NEW f \in FaceId, NEW q \in LocalPeer, MgmtDestroyFace(f, q)
      PROVE  NoDanglingFace'
  <2>1. PICK g \in DOMAIN Refreshed(f, q) :
          /\ faces' = FacesWithout(Refreshed(f, q), {g})
          /\ fib' = RoutesWithout({g})
          /\ pit' = PitWithout(pit, {g})
    BY <1>5 DEF MgmtDestroyFace
  <2> DEFINE live == DOMAIN Refreshed(f, q)
  <2>2. DOMAIN faces' = live \ {g}
    BY <2>1 DEF FacesWithout
  <2>30. q \in Peer /\ IsFaceFor(f, q)
    BY <1>5 DEF MgmtDestroyFace
  <2>31. DOMAIN Refreshed(f, q) = DOMAIN faces \cup {f}
    BY <2>30, RefreshedType
  <2>3. DOMAIN faces \subseteq live
    BY <2>31
  <2> HIDE DEF live
  <2>4. EntriesLive(pit, live) /\ RoutesLive(fib, live) /\ pit \subseteq Pending
    BY <1>0, <2>3, MoreLive DEF TypeOK
  <2>5. EntriesLive(pit', DOMAIN faces')
    BY <2>1, <2>2, <2>4, PitWithoutLive
  <2>6. RoutesLive(fib', DOMAIN faces')
    BY <2>1, <2>2, <2>4, RoutesWithoutLive
  <2> QED
    BY <1>000, <2>5, <2>6
<1>6. ASSUME NEW f \in FaceId, NEW q \in LocalPeer, MgmtPrefixReg(f, q)
      PROVE  NoDanglingFace'
  <2>1. PICK prefix \in Prefix, g \in DOMAIN faces' : AppendRoute(prefix, g)
    BY <1>6 DEF MgmtPrefixReg
  <2>2. RoutesLive(fib', DOMAIN faces')
    BY <1>00, <1>6, <2>1 DEF MgmtPrefixReg, AppendRoute, RoutesLive
  <2> QED
    BY <1>00, <1>000, <1>6, <2>2 DEF MgmtPrefixReg
<1>7. ASSUME NEW f \in FaceId, NEW q \in LocalPeer, MgmtAddCacheObject(f, q)
      PROVE  NoDanglingFace'
  <2>1. PICK n \in CacheName, g \in 1..MaxGen : pit' = pit \cup {NewEntry(CacheRequest(n), g, f)}
    BY <1>7 DEF MgmtAddCacheObject
  <2>2. EntriesLive(pit', DOMAIN faces')
    BY <1>00, <1>7, <2>1 DEF MgmtAddCacheObject, NewEntry, EntriesLive
  <2> QED
    BY <1>00, <1>000, <1>7, <2>2 DEF MgmtAddCacheObject
<1>8. ASSUME NEW f \in FaceId, NEW q \in LocalPeer, MgmtRemoveCacheObject(f, q)
      PROVE  NoDanglingFace'
  BY <1>00, <1>8, <1>000 DEF MgmtRemoveCacheObject
<1>10. CASE CsAdd
  BY <1>0, <1>001, <1>10, <1>000 DEF CsAdd, EntriesLive
<1>11. CASE FibAdd
  <2>1. PICK prefix \in Prefix, g \in DOMAIN faces :
          \/ AppendRoute(prefix, g)
          \/ \E r \in First(RoutesFor(prefix)) :
               fib' = (fib \ {r}) \cup {[r EXCEPT !.prefix = prefix, !.face = g]}
    BY <1>11 DEF FibAdd
  <2>2. \A r \in First(RoutesFor(prefix)) : [r EXCEPT !.prefix = prefix, !.face = g].face = g
    BY DEF First, RoutesFor, TypeOK, Route
  <2>3. RoutesLive(fib', DOMAIN faces)
    <3>1. CASE AppendRoute(prefix, g)
      BY <1>0, <3>1 DEF AppendRoute, RoutesLive
    <3>2. ASSUME NEW r \in First(RoutesFor(prefix)),
                 fib' = (fib \ {r}) \cup {[r EXCEPT !.prefix = prefix, !.face = g]}
          PROVE  RoutesLive(fib', DOMAIN faces)
      BY <1>0, <2>2, <3>2 DEF RoutesLive
    <3> QED
      BY <2>1, <3>1, <3>2
  <2> QED
    BY <1>0, <1>000, <1>11, <2>3 DEF FibAdd
<1>12. CASE FibRem
  <2>1. fib' \subseteq fib
    BY <1>12 DEF FibRem
  <2> QED
    BY <1>0, <1>12, <1>000, <2>1 DEF FibRem, RoutesLive
<1>13. CASE Tick
  <2>1. DOMAIN faces' = DOMAIN faces /\ fib' = fib
    BY <1>13 DEF Tick
  <2>2. EntriesLive(pit', DOMAIN faces)
    BY <1>0, <1>13, SameLive, AgedSame
  <2> QED
    BY <1>0, <1>000, <2>1, <2>2
<1>14. CASE Ageing
  <2>1. /\ DOMAIN faces' = DOMAIN faces \ Idle
        /\ fib' = RoutesWithout(Idle) /\ pit' = PitWithout(Retransmitted, Idle)
    BY <1>14 DEF Ageing, FacesWithout
  <2>2. EntriesLive(Retransmitted, DOMAIN faces) /\ Retransmitted \subseteq Pending
    BY <1>0, SameLive, AgedSame, AgeingType
  <2>3. EntriesLive(pit', DOMAIN faces')
    BY <2>1, <2>2, PitWithoutLive
  <2>4. RoutesLive(fib', DOMAIN faces')
    BY <1>0, <2>1, RoutesWithoutLive
  <2> QED
    BY <1>000, <2>3, <2>4
<1>15. CASE UNCHANGED vars
  BY <1>15 DEF vars
<1> QED
  BY <1>1, <1>2, <1>3, <1>4, <1>5, <1>6, <1>7, <1>8, <1>10, <1>11, <1>12, <1>13,
     <1>14, <1>15 DEF Next, Receive, Mgmt

(***************************************************************************)
(* No use of a freed face: whatever order packets, commands and timeouts   *)
(* come in, a face that is removed (ccnl_face_remove) is at once in no PIT *)
(* entry, neither as its origin nor as one that waits, and in no route.    *)
(***************************************************************************)
THEOREM NoDangling == Spec => []NoDanglingFace
<1>1. Init => NoDanglingFace
  BY DEF Init, NoDanglingFace
<1>2. TypeOK /\ NoDanglingFace /\ [Next]_vars => NoDanglingFace'
  BY NextLive
<1> QED
  BY <1>1, <1>2, TypeCorrect, PTL DEF Spec
-----------------------------------------------------------------------------
(* FaceYoungerThanPending, for any PIT and any table of faces *)
Young(entries, fs) ==
  \A i \in entries : \A f \in i.pending \cap DOMAIN fs :
    ~ fs[f].static => fs[f].age =< i.age

(* A face that is new or was just refreshed is young enough for every entry. *)
LEMMA YoungerFaces ==
  ASSUME NEW entries, entries \subseteq Pending, NEW fs, Young(entries, fs), NEW others,
         \A g \in DOMAIN others :
           others[g].age = 0 \/ (g \in DOMAIN fs /\ others[g] = fs[g])
  PROVE  Young(entries, others)
<1>1. \A i \in entries : i.age \in Nat
  BY BoundsAssumption DEF Pending
<1> QED
  BY <1>1 DEF Young

LEMMA FewerPlaces ==
  ASSUME NEW entries, NEW fs, Young(entries, fs), NEW others,
         \A j \in others : \E i \in entries : j.pending \subseteq i.pending /\ j.age = i.age
  PROVE  Young(others, fs)
BY DEF Young

LEMMA RefreshedYoung ==
  ASSUME TypeOK, NEW q \in Peer, NEW f \in FaceId, IsFaceFor(f, q)
  PROVE  /\ f \in DOMAIN Refreshed(f, q) /\ Refreshed(f, q)[f].age = 0
         /\ \A g \in DOMAIN Refreshed(f, q) : g # f =>
              g \in DOMAIN faces /\ Refreshed(f, q)[g] = faces[g]
<1> DEFINE r == IF f \in DOMAIN faces THEN [faces[f] EXCEPT !.age = 0]
                ELSE NewFace(q, [Dynamic EXCEPT !.reflect = q \in ReflectPeer])
<1>1. Refreshed(f, q) = WithFace(faces, f, r)
  BY DEF Refreshed
<1>2. r.age = 0
  <2>1. f \in DOMAIN faces => faces[f] \in Face
    BY DEF TypeOK
  <2>2. f \in DOMAIN faces => [faces[f] EXCEPT !.age = 0].age = 0
    BY <2>1 DEF Face
  <2>3. NewFace(q, [Dynamic EXCEPT !.reflect = q \in ReflectPeer]).age = 0
    BY Zenon DEF NewFace
  <2> QED
    BY <2>2, <2>3
<1> HIDE DEF r
<1> QED
  BY <1>1, <1>2 DEF WithFace

LEMMA RxYoung ==
  ASSUME TypeOK, FaceYoungerThanPending, NEW q \in Peer, NEW f, Rx(f, q)
  PROVE  Young(pit, faces') /\ f \in DOMAIN faces' /\ faces'[f].age = 0
<1>1. f \in FaceId /\ IsFaceFor(f, q) /\ faces' = Refreshed(f, q)
  BY DEF Rx
<1>2. /\ f \in DOMAIN faces' /\ faces'[f].age = 0
      /\ \A g \in DOMAIN faces' : g # f => g \in DOMAIN faces /\ faces'[g] = faces[g]
  BY <1>1, RefreshedYoung
<1>3. Young(pit, faces) /\ pit \subseteq Pending
  BY DEF FaceYoungerThanPending, Young, TypeOK
<1> QED
  BY <1>2, <1>3, YoungerFaces

LEMMA PitWithoutYoung ==
  ASSUME NEW entries, entries \subseteq Pending, NEW gone
  PROVE  \A j \in PitWithout(entries, gone) : \E i \in entries :
           j.pending \subseteq i.pending /\ j.age = i.age
<1> DEFINE cut(i) == [i EXCEPT !.pending = @ \ gone,
                               !.from = IF @ \in gone THEN NoFace ELSE @]
<1>1. ASSUME NEW i \in entries
      PROVE  cut(i).pending \subseteq i.pending /\ cut(i).age = i.age
  BY DEF Pending
<1>2. \A j \in PitWithout(entries, gone) : j \in entries \/ \E i \in entries : j = cut(i)
  BY DEF PitWithout
<1> HIDE DEF cut
<1> QED
  BY <1>1, <1>2

LEMMA InterestYoung ==
  ASSUME TypeOK, Young(pit, faces'), NEW f \in FaceId, f \in DOMAIN faces', faces'[f].age = 0,
         NEW p \in Interest, HandleInterest(f, p)
  PROVE  Young(pit', faces')
<1>0. \A i \in pit : i \in Pending /\ i.age \in Nat
  BY BoundsAssumption DEF TypeOK, Pending
<1>1. CASE UNCHANGED pit
  BY <1>1 DEF Young
<1>2. CASE JoinEntry(f, p)
  <2>1. PICK i \in pit : pit' = (pit \ {i}) \cup {[i EXCEPT !.pending = @ \cup {f}]}
    BY <1>2 DEF JoinEntry
  <2> DEFINE j == [i EXCEPT !.pending = @ \cup {f}]
  <2>2. j.age = i.age /\ j.pending = i.pending \cup {f}
    BY <1>0 DEF Pending
  <2> HIDE DEF j
  <2>3. \A g \in j.pending \cap DOMAIN faces' : ~ faces'[g].static => faces'[g].age =< j.age
    BY <1>0, <2>2 DEF Young
  <2>4. pit' = (pit \ {i}) \cup {j}
    BY <2>1 DEF j
  <2> QED
    BY <2>3, <2>4 DEF Young
<1>3. CASE CreateEntry(f, p)
  <2> DEFINE j == [NewEntry(Hop(p), 1, f) EXCEPT !.pending = {f}]
  <2>1. j.age = 0 /\ j.pending = {f}
    BY DEF NewEntry
  <2>2. pit' = pit \cup {j}
    BY <1>3 DEF CreateEntry
  <2> HIDE DEF j
  <2> QED
    BY <2>1, <2>2 DEF Young
<1> QED
  BY <1>1, <1>2, <1>3 DEF HandleInterest, DropInterest, AnswerFromCache, RefuseInterest, tables

LEMMA OlderKeepsOrder ==
  \A a, b \in 0..AgeCap : a =< b => Older(a) =< Older(b)
BY BoundsAssumption DEF Older

LEMMA TickYoung ==
  ASSUME TypeOK, FaceYoungerThanPending, Tick
  PROVE  FaceYoungerThanPending'
<1>1. \A j \in pit' : \E i \in pit : j.pending = i.pending /\ j.age = Older(i.age)
  <2>1. ASSUME NEW i \in pit
        PROVE  /\ [i EXCEPT !.age = Older(@)].pending = i.pending
               /\ [i EXCEPT !.age = Older(@)].age = Older(i.age)
    <3>1. i \in Pending
      BY DEF TypeOK
    <3> QED
      BY <3>1 DEF Pending
  <2> QED
    BY <2>1 DEF Tick
<1>2. DOMAIN faces' = DOMAIN faces
  BY DEF Tick
<1>3. ASSUME NEW f \in DOMAIN faces, ~ faces'[f].static
      PROVE  ~ faces[f].static /\ faces'[f].age = Older(faces[f].age)
  <2>1. faces[f] \in Face
    BY DEF TypeOK
  <2>2. faces'[f] = IF faces[f].static THEN faces[f] ELSE [faces[f] EXCEPT !.age = Older(@)]
    BY DEF Tick
  <2>3. ~ faces[f].static
    BY <1>3, <2>2
  <2> QED
    BY <2>1, <2>2, <2>3 DEF Face
<1>4. /\ \A f \in DOMAIN faces : faces[f].age \in 0..AgeCap
      /\ \A i \in pit : i.age \in 0..AgeCap
  BY DEF TypeOK, Face, Pending
<1>5. ASSUME NEW j \in pit', NEW f \in j.pending \cap DOMAIN faces', ~ faces'[f].static
      PROVE  faces'[f].age =< j.age
  <2>1. PICK i \in pit : j.pending = i.pending /\ j.age = Older(i.age)
    BY <1>1
  <2>2. f \in i.pending \cap DOMAIN faces
    BY <1>2, <2>1
  <2>3. ~ faces[f].static /\ faces'[f].age = Older(faces[f].age)
    BY <1>3, <1>5, <2>2
  <2>4. faces[f].age =< i.age
    BY <2>2, <2>3 DEF FaceYoungerThanPending
  <2> QED
    BY <1>4, <2>1, <2>2, <2>3, <2>4, OlderKeepsOrder
<1> QED
  BY <1>5 DEF FaceYoungerThanPending

LEMMA NextYoung ==
  TypeOK /\ FaceYoungerThanPending /\ [Next]_vars => FaceYoungerThanPending'
<1> SUFFICES ASSUME TypeOK, FaceYoungerThanPending, [Next]_vars PROVE FaceYoungerThanPending'
  OBVIOUS
<1> LocalPeer \subseteq Peer
  BY PeerAssumption
<1>a. Young(pit, faces) /\ pit \subseteq Pending /\ (Young(pit', faces') => FaceYoungerThanPending')
  BY DEF FaceYoungerThanPending, Young, TypeOK
<1>b. \A fs : \A fewer \in SUBSET pit : Young(pit, fs) => Young(fewer, fs)
  BY DEF Young
<1>c. \A d : ServePending(d) => pit' \in SUBSET pit
  BY DEF ServePending
<1>1. ASSUME NEW f \in FaceId, NEW q \in Peer, RxInterest(f, q)
      PROVE  FaceYoungerThanPending'
  <2>1. PICK p \in Interest : HandleInterest(f, p)
    BY <1>1 DEF RxInterest
  <2>2. Young(pit, faces') /\ f \in DOMAIN faces' /\ faces'[f].age = 0
    BY <1>1, RxYoung DEF RxInterest
  <2> QED
    BY <1>a, <2>1, <2>2, InterestYoung
<1>2. ASSUME NEW f \in FaceId, NEW q \in Peer, RxData(f, q)
      PROVE  FaceYoungerThanPending'
  <2>1. pit' \in SUBSET pit
    BY <1>2, <1>c DEF RxData, DropData, AcceptData, tables
  <2>2. Young(pit, faces')
    BY <1>2, RxYoung DEF RxData
  <2> QED
    BY <1>a, <1>b, <2>1, <2>2
<1>3. ASSUME NEW f \in FaceId, NEW q \in Peer, Rx(f, q), pit' = pit
      PROVE  FaceYoungerThanPending'
  BY <1>a, <1>3, RxYoung
<1>4. ASSUME NEW f \in FaceId, NEW q \in LocalPeer, MgmtNewFace(f, q)
      PROVE  FaceYoungerThanPending'
  <2>1. PICK g \in FaceId, p \in Peer, flags \in [static : BOOLEAN, reflect : BOOLEAN] :
          faces' = WithFace(Refreshed(f, q), g, NewFace(p, flags))
    BY <1>4 DEF MgmtNewFace
  <2> DEFINE fs == Refreshed(f, q)
             r == NewFace(p, flags)
  <2>2. r.age = 0
    BY DEF NewFace
  <2>3. q \in Peer /\ IsFaceFor(f, q) /\ pit' = pit
    BY <1>4 DEF MgmtNewFace, tables
  <2>4. \A h \in DOMAIN fs : fs[h].age = 0 \/ (h \in DOMAIN faces /\ fs[h] = faces[h])
    BY <2>3, RefreshedYoung
  <2> HIDE DEF fs, r
  <2>5. Young(pit, fs)
    BY <1>a, <2>4, YoungerFaces
  <2>6. faces' = WithFace(fs, g, r)
    BY <2>1 DEF fs, r
  <2>7. \A h \in DOMAIN faces' : faces'[h].age = 0 \/ (h \in DOMAIN fs /\ faces'[h] = fs[h])
    BY <2>2, <2>6 DEF WithFace
  <2>8. Young(pit, faces')
    BY <1>a, <2>5, <2>7, YoungerFaces
  <2> QED
    BY <1>a, <2>3, <2>8
<1>5. ASSUME NEW f \in FaceId, NEW q \in LocalPeer, MgmtDestroyFace(f, q)
      PROVE  FaceYoungerThanPending'
  <2> DEFINE fs == Refreshed(f, q)
  <2>1. PICK g \in DOMAIN fs : faces' = FacesWithout(fs, {g}) /\ pit' = PitWithout(pit, {g})
    BY <1>5 DEF MgmtDestroyFace
  <2>2. q \in Peer /\ IsFaceFor(f, q)
    BY <1>5 DEF MgmtDestroyFace
  <2>3. \A h \in DOMAIN fs : fs[h].age = 0 \/ (h \in DOMAIN faces /\ fs[h] = faces[h])
    BY <2>2, RefreshedYoung
  <2> HIDE DEF fs
  <2>4. \A h \in DOMAIN faces' : h \in DOMAIN fs /\ faces'[h] = fs[h]
    BY <2>1 DEF FacesWithout
  <2>5. \A h \in DOMAIN faces' : faces'[h].age = 0 \/ (h \in DOMAIN faces /\ faces'[h] = faces[h])
    BY <2>3, <2>4
  <2>6. Young(pit, faces')
    BY <1>a, <2>5, YoungerFaces
  <2>7. \A j \in pit' : \E i \in pit : j.pending \subseteq i.pending /\ j.age = i.age
    BY <1>a, <2>1, PitWithoutYoung
  <2>8. Young(pit', faces')
    BY <2>6, <2>7, FewerPlaces
  <2> QED
    BY <1>a, <2>8
<1>7. ASSUME NEW f \in FaceId, NEW q \in LocalPeer, MgmtAddCacheObject(f, q)
      PROVE  FaceYoungerThanPending'
  <2>1. PICK n \in CacheName, g \in 1..MaxGen : pit' = pit \cup {NewEntry(CacheRequest(n), g, f)}
    BY <1>7 DEF MgmtAddCacheObject
  <2>2. Young(pit, faces')
    BY <1>7, RxYoung DEF MgmtAddCacheObject
  <2>3. Young(pit', faces')
    BY <2>1, <2>2 DEF NewEntry, Young
  <2> QED
    BY <1>a, <2>3
<1>10. CASE CsAdd
  <2>1. pit' \in SUBSET pit /\ faces' = faces
    BY <1>10, <1>c DEF CsAdd
  <2> QED
    BY <1>a, <1>b, <2>1
<1>13. CASE Tick
  BY <1>13, TickYoung
<1>14. CASE Ageing
  <2>1. faces' = FacesWithout(faces, Idle) /\ pit' = PitWithout(Retransmitted, Idle)
    BY <1>14 DEF Ageing
  <2>2. \A h \in DOMAIN faces' : h \in DOMAIN faces /\ faces'[h] = faces[h]
    BY <2>1 DEF FacesWithout
  <2>3. Young(pit, faces')
    BY <1>a, <2>2, YoungerFaces
  <2>4. \A j \in Retransmitted : \E i \in pit : j.pending = i.pending /\ j.age = i.age
    BY <1>a DEF Retransmitted, Pending
  <2>5. \A j \in pit' : \E i \in Retransmitted : j.pending \subseteq i.pending /\ j.age = i.age
    BY <2>1, AgeingType, PitWithoutYoung
  <2>6. Young(Retransmitted, faces')
    BY <2>3, <2>4, FewerPlaces
  <2>7. Young(pit', faces')
    BY <2>5, <2>6, FewerPlaces
  <2> QED
    BY <1>a, <2>7
<1>15. CASE UNCHANGED <<pit, faces>>
  BY <1>a, <1>15
<1> QED
  BY <1>1, <1>2, <1>3, <1>4, <1>5, <1>7, <1>10, <1>13, <1>14, <1>15
  DEF Next, Receive, Mgmt, RxOther, MgmtPrefixReg, MgmtRemoveCacheObject, FibAdd, FibRem, vars, tables

(***************************************************************************)
(* A face that waits for an Interest was heard from since: its age never   *)
(* passes the age of the PIT entry (ccnl_get_face_or_create refreshes it,  *)
(* ccnl_interest_append_pending does not refresh the entry).               *)
(***************************************************************************)
THEOREM FacesAreYounger == Spec => []FaceYoungerThanPending
<1>1. Init => FaceYoungerThanPending
  BY DEF Init, FaceYoungerThanPending
<1>2. TypeOK /\ FaceYoungerThanPending /\ [Next]_vars => FaceYoungerThanPending'
  BY NextYoung
<1> QED
  BY <1>1, <1>2, TypeCorrect, PTL DEF Spec

(* Only ageing sets the clock of the timer back. *)
LEMMA OnlyAgeing ==
  ASSUME TypeOK, [Next]_vars, lag' < lag
  PROVE  Ageing
<1>1. lag \in Int
  BY BoundsAssumption DEF TypeOK
<1>2. ASSUME NEW f, NEW p \in Interest, HandleInterest(f, p)
      PROVE  lag' = lag
  BY <1>2 DEF HandleInterest, DropInterest, AnswerFromCache, RefuseInterest, JoinEntry,
              CreateEntry, tables
<1>3. Receive => lag' = lag
  BY <1>2 DEF Receive, RxInterest, RxData, RxOther, DropData, AcceptData, tables
<1>4. Mgmt => lag' = lag
  BY DEF Mgmt, MgmtNewFace, MgmtDestroyFace, MgmtPrefixReg, MgmtAddCacheObject,
         MgmtRemoveCacheObject, tables
<1>5. CsAdd \/ FibAdd \/ FibRem \/ UNCHANGED vars => lag' = lag
  BY DEF CsAdd, FibAdd, FibRem, vars
<1>6. Tick => lag' = lag + 1
  BY DEF Tick
<1>7. ~ (lag' = lag) /\ ~ (lag' = lag + 1)
  BY <1>1
<1> QED
  BY <1>3, <1>4, <1>5, <1>6, <1>7 DEF Next

(***************************************************************************)
(* If no Interest outlives an idle face, ageing cuts nobody off: the       *)
(* timeout of faces removes none that waits for an Interest still pending. *)
(* The default lifetime is 10 seconds, and faces live 30.                  *)
(***************************************************************************)
THEOREM WaitersAreKept ==
  ASSUME \A p \in Packet : p.life =< FaceTimeout
  PROVE  Spec => WaitersKept
<1>1. ASSUME TypeOK, FaceYoungerThanPending, [Next]_vars, lag' < lag,
             NEW i \in pit, i.pending # {}, ~ TimedOut(i)
      PROVE  \E j \in pit' : j.pkt = i.pkt /\ j.gen = i.gen /\ j.pending = i.pending
  <2>1. pit' = PitWithout(Retransmitted, Idle)
    BY <1>1, OnlyAgeing DEF Ageing
  <2>a. i \in Pending
    BY <1>1 DEF TypeOK
  <2>b. i.pkt \in Packet /\ i.age \in 0..AgeCap
    BY <2>a DEF Pending
  <2>2. i.age \in Nat /\ i.pkt.life \in Nat /\ i.pkt.life =< FaceTimeout
    BY <2>b, BoundsAssumption, TimeoutAssumption
  <2>3. i.age < FaceTimeout
    <3>1. ~ (i.age >= i.pkt.life)
      BY <1>1 DEF TimedOut
    <3> QED
      BY <2>2, <3>1, TimeoutAssumption
  <2>4. i.pending \cap Idle = {}
    <3>1. ASSUME NEW f \in i.pending \cap Idle
          PROVE  FALSE
      <4>1. f \in DOMAIN faces /\ ~ faces[f].static /\ faces[f].age >= FaceTimeout
        BY DEF Idle
      <4>a. faces[f] \in Face
        BY <1>1, <4>1 DEF TypeOK
      <4>2. faces[f].age \in Nat
        BY <4>a, BoundsAssumption DEF Face
      <4>3. faces[f].age =< i.age
        BY <1>1, <4>1 DEF FaceYoungerThanPending
      <4> QED
        BY <2>2, <2>3, <4>1, <4>2, <4>3, TimeoutAssumption
    <3> QED
      BY <3>1
  <2> DEFINE k == [i EXCEPT !.retries = @ + 1]
             cut(e) == [e EXCEPT !.pending = @ \ Idle,
                                 !.from = IF @ \in Idle THEN NoFace ELSE @]
  <2>5. k.pkt = i.pkt /\ k.gen = i.gen /\ k.pending = i.pending
    BY <2>a DEF Pending
  <2>6. k \in Retransmitted
    BY <1>1 DEF Retransmitted
  <2>7. k \in Pending
    BY <1>1, <2>6, AgeingType
  <2> HIDE DEF k
  <2>8. cut(k).pkt = k.pkt /\ cut(k).gen = k.gen /\ cut(k).pending = k.pending
    BY <2>4, <2>5, <2>7 DEF Pending
  <2>9. k \in pit' \/ cut(k) \in pit'
    BY <1>1, <2>1, <2>4, <2>5, <2>6 DEF PitWithout
  <2> QED
    BY <2>5, <2>8, <2>9
<1>2. TypeOK /\ FaceYoungerThanPending /\ [Next]_vars =>
        [lag' < lag =>
           \A i \in pit : i.pending # {} /\ ~ TimedOut(i) =>
             \E j \in pit' : j.pkt = i.pkt /\ j.gen = i.gen /\ j.pending = i.pending]_vars
  BY <1>1
<1> QED
  BY <1>2, TypeCorrect, FacesAreYounger, PTL DEF Spec, WaitersKept
-----------------------------------------------------------------------------
(***************************************************************************)
(* Theorems about answers: the relay implements module Delivery, and no    *)
(* face waits for what the relay has in its cache.                         *)
(***************************************************************************)

(* Most steps take entries or waiting faces away, and add none. *)

Fewer(entries, old) ==
  \A j \in entries : \E i \in old : j.pkt = i.pkt /\ j.pending \subseteq i.pending

LEMMA FewerBySubset ==
  ASSUME NEW old, NEW entries \in SUBSET old
  PROVE  Fewer(entries, old)
BY DEF Fewer

LEMMA PitWithoutFewer ==
  ASSUME NEW entries, entries \subseteq Pending, NEW gone
  PROVE  Fewer(PitWithout(entries, gone), entries)
<1>1. CASE gone = {}
  BY <1>1 DEF PitWithout, Fewer
<1>2. CASE gone # {}
  <2> DEFINE cut(i) == [i EXCEPT !.pending = @ \ gone,
                                 !.from = IF @ \in gone THEN NoFace ELSE @]
  <2>1. ASSUME NEW i \in entries
        PROVE  cut(i).pkt = i.pkt /\ cut(i).pending \subseteq i.pending
    <3>1. i \in Pending
      OBVIOUS
    <3> QED
      BY <3>1 DEF Pending
  <2>2. \A j \in PitWithout(entries, gone) : \E i \in entries : j = cut(i)
    BY <1>2 DEF PitWithout
  <2> HIDE DEF cut
  <2> QED
    BY <2>1, <2>2 DEF Fewer
<1> QED
  BY <1>1, <1>2

LEMMA AgeingFewer ==
  ASSUME TypeOK, Ageing
  PROVE  Fewer(pit', pit)
<1>1. Fewer(PitWithout(Retransmitted, Idle), Retransmitted)
  BY AgeingType, PitWithoutFewer
<1>2. \A j \in Retransmitted : \E i \in pit : j.pkt = i.pkt /\ j.pending = i.pending
  <2>1. ASSUME NEW i \in pit
        PROVE  LET j == [i EXCEPT !.retries = @ + 1] IN j.pkt = i.pkt /\ j.pending = i.pending
    <3>1. i \in Pending
      BY DEF TypeOK
    <3> QED
      BY <3>1 DEF Pending
  <2> QED
    BY <2>1 DEF Retransmitted
<1>3. pit' = PitWithout(Retransmitted, Idle)
  BY DEF Ageing
<1> HIDE DEF Fewer
<1>4. Fewer(pit', Retransmitted)
  BY <1>1, <1>3
<1> QED
  BY <1>2, <1>4 DEF Fewer

LEMMA TickFewer ==
  ASSUME TypeOK, Tick
  PROVE  Fewer(pit', pit)
<1>1. ASSUME NEW i \in pit
      PROVE  LET j == [i EXCEPT !.age = Older(@)] IN j.pkt = i.pkt /\ j.pending = i.pending
  <2>1. i \in Pending
    BY DEF TypeOK
  <2> QED
    BY <2>1 DEF Pending
<1>2. pit' = {[i EXCEPT !.age = Older(@)] : i \in pit}
  BY DEF Tick
<1> QED
  BY <1>1, <1>2 DEF Fewer

(* The steps that neither take in an Interest nor send any Data *)
QuietStep ==
  \/ \E f \in FaceId, q \in Peer : RxOther(f, q)
  \/ \E f \in FaceId, q \in LocalPeer :
       \/ MgmtNewFace(f, q)
       \/ MgmtDestroyFace(f, q)
       \/ MgmtPrefixReg(f, q)
       \/ MgmtRemoveCacheObject(f, q)
  \/ FibAdd \/ FibRem \/ Tick \/ Ageing

LEMMA QuietFewer ==
  ASSUME TypeOK, QuietStep
  PROVE  Fewer(pit', pit) /\ txData' = {}
<1>1. ASSUME NEW f \in FaceId, NEW q \in Peer, RxOther(f, q)
      PROVE  Fewer(pit', pit) /\ txData' = {}
  BY <1>1, FewerBySubset DEF RxOther, tables, Quiet
<1>2. ASSUME NEW f \in FaceId, NEW q \in LocalPeer, MgmtDestroyFace(f, q)
      PROVE  Fewer(pit', pit) /\ txData' = {}
  <2>1. PICK g \in DOMAIN Refreshed(f, q) : pit' = PitWithout(pit, {g})
    BY <1>2 DEF MgmtDestroyFace
  <2>2. pit \subseteq Pending
    BY DEF TypeOK
  <2>3. Fewer(pit', pit)
    BY <2>1, <2>2, PitWithoutFewer
  <2> QED
    BY <1>2, <2>3 DEF MgmtDestroyFace, Quiet
<1>3. ASSUME NEW f \in FaceId, NEW q \in LocalPeer,
             MgmtNewFace(f, q) \/ MgmtPrefixReg(f, q) \/ MgmtRemoveCacheObject(f, q)
      PROVE  Fewer(pit', pit) /\ txData' = {}
  BY <1>3, FewerBySubset DEF MgmtNewFace, MgmtPrefixReg, MgmtRemoveCacheObject, tables, Quiet
<1>4. CASE FibAdd \/ FibRem
  BY <1>4, FewerBySubset DEF FibAdd, FibRem, Quiet
<1>5. CASE Tick
  BY <1>5, TickFewer DEF Tick, Quiet
<1>6. CASE Ageing
  BY <1>6, AgeingFewer DEF Ageing
<1> QED
  BY <1>1, <1>2, <1>3, <1>4, <1>5, <1>6 DEF QuietStep

(* What any other step does is about one Interest or one Data packet. *)
LEMMA NextCases ==
  ASSUME TypeOK, Next
  PROVE  \/ \E f \in FaceId, p \in Interest : HandleInterest(f, p)
         \/ \E d \in AnyData :
              /\ ServePending(d)
              /\ cs' = cs \/ AddToCache(NewContent(d, Pins(d)))
         \/ \E f \in FaceId, q \in LocalPeer : MgmtAddCacheObject(f, q)
         \/ pit' = pit /\ cs' = cs /\ txData' = {}
         \/ QuietStep
<1>1. ASSUME NEW d, DropData(d) \/ AcceptData(d)
      PROVE  \/ ServePending(d) /\ (cs' = cs \/ AddToCache(NewContent(d, Pins(d))))
             \/ pit' = pit /\ cs' = cs /\ txData' = {}
  BY <1>1 DEF DropData, AcceptData, tables, Quiet
<1>2. Data \subseteq AnyData /\ AppData \subseteq AnyData
  BY DEF AnyData
<1> QED
  BY <1>1, <1>2 DEF Next, Receive, Mgmt, QuietStep, RxInterest, RxData, CsAdd
-----------------------------------------------------------------------------
(* The packet as kept: counting the hop leaves all else alone. *)

LEMMA HopKeeps ==
  ASSUME NEW p \in Interest
  PROVE  LET h == Hop(p) IN
           h.name = p.name /\ h.min = p.min /\ h.max = p.max /\ h.ppk = p.ppk /\ h.mbf = p.mbf
<1>1. DOMAIN p = {"name", "min", "max", "ppk", "mbf", "nonce", "scope", "hops", "life"}
  BY InterestAssumption
<1> QED
  BY <1>1 DEF Hop

(* What handling an Interest does to the PIT *)
LEMMA InterestCases ==
  ASSUME TypeOK, NEW f \in FaceId, NEW p \in Interest, HandleInterest(f, p)
  PROVE  \/ pit' = pit /\ txData' = {}
         \/ /\ pit' = pit
            /\ \E c \in cs : CMatch(p, c) /\ txData' = {<<f, c.data>>}
         \/ /\ txData' = {} /\ ~ InCache(p)
            /\ \E i \in Twins(p), j \in Pending :
                 /\ pit' = (pit \ {i}) \cup {j}
                 /\ j.pkt = i.pkt /\ j.pending = i.pending \cup {f}
         \/ /\ txData' = {} /\ ~ InCache(p)
            /\ \E j \in Pending :
                 pit' = pit \cup {j} /\ j.pkt = Hop(p) /\ j.pending = {f}
<1>1. CASE DropInterest(f, p) \/ RefuseInterest(f, p)
  BY <1>1 DEF DropInterest, RefuseInterest, tables, Quiet
<1>2. CASE AnswerFromCache(f, p)
  BY <1>2 DEF AnswerFromCache
<1>3. CASE JoinEntry(f, p)
  <2>1. PICK i \in pit : /\ IsEntryFor(i, p)
                         /\ pit' = (pit \ {i}) \cup {[i EXCEPT !.pending = @ \cup {f}]}
    BY <1>3 DEF JoinEntry
  <2> DEFINE j == [i EXCEPT !.pending = @ \cup {f}]
  <2>2. i \in Pending
    BY DEF TypeOK
  <2>3. j \in Pending /\ j.pkt = i.pkt /\ j.pending = i.pending \cup {f}
    BY <2>2 DEF Pending
  <2>4. pit' = (pit \ {i}) \cup {j} /\ i \in Twins(p)
    BY <2>1 DEF IsEntryFor
  <2> HIDE DEF j
  <2>5. txData' = {} /\ ~ InCache(p)
    BY <1>3 DEF JoinEntry, Quiet
  <2> QED
    BY <2>3, <2>4, <2>5
<1>4. CASE CreateEntry(f, p)
  <2> DEFINE j == [NewEntry(Hop(p), 1, f) EXCEPT !.pending = {f}]
  <2>1. pit' = pit \cup {j} /\ txData' = {} /\ ~ InCache(p)
    BY <1>4 DEF CreateEntry
  <2>2. Hop(p) \in Packet
    BY DEF Packet
  <2>3. j \in Pending /\ j.pkt = Hop(p) /\ j.pending = {f}
    BY <2>2, BoundsAssumption DEF NewEntry, Pending
  <2> HIDE DEF j
  <2> QED
    BY <2>1, <2>3
<1> QED
  BY <1>1, <1>2, <1>3, <1>4 DEF HandleInterest

-----------------------------------------------------------------------------
(* The relay implements module Delivery. *)

WantedIn(entries) == UNION {{<<g, i.pkt>> : g \in i.pending} : i \in entries}

LEMMA WantedMember ==
  ASSUME NEW entries
  PROVE  \A w : w \in WantedIn(entries) <=> \E i \in entries : \E g \in i.pending : w = <<g, i.pkt>>
BY DEF WantedIn

LEMMA FewerWanted ==
  ASSUME NEW old, NEW entries, Fewer(entries, old)
  PROVE  WantedIn(entries) \subseteq WantedIn(old)
BY WantedMember DEF Fewer

LEMMA WantedNow == Wanted = WantedIn(pit) /\ Wanted' = WantedIn(pit')
BY DEF Wanted, WantedIn

LEMMA AnswersIfMatch ==
  ASSUME NEW p, NEW c, CMatch(p, c)
  PROVE  Answers(c.data, p)
BY DEF CMatch

LEMMA InterestDelivers ==
  ASSUME TypeOK, NEW f \in FaceId, NEW p \in Interest, HandleInterest(f, p)
  PROVE  D!Next
<1>a. p \in Packet /\ Hop(p) \in Packet
  BY DEF Packet
<1>1. CASE pit' = pit /\ txData' = {}
  <2>1. D!Forget
    BY <1>1, WantedNow DEF D!Forget
  <2> QED
    BY <2>1 DEF D!Next
<1>2. CASE pit' = pit /\ \E c \in cs : CMatch(p, c) /\ txData' = {<<f, c.data>>}
  <2>1. PICK c \in cs : CMatch(p, c) /\ txData' = {<<f, c.data>>}
    BY <1>2
  <2>2. c.data \in AnyData
    <3>1. c \in Content
      BY DEF TypeOK
    <3> QED
      BY <3>1 DEF Content
  <2>3. Answers(c.data, p)
    BY <2>1, AnswersIfMatch
  <2>4. D!Answer(f, p, c.data)
    BY <1>2, <1>a, <2>1, <2>2, <2>3, WantedNow DEF D!Answer
  <2> QED
    BY <1>a, <2>2, <2>4 DEF D!Next
<1>3. ASSUME NEW i \in pit, NEW j \in Pending, txData' = {},
             pit' = (pit \ {i}) \cup {j}, j.pkt = i.pkt, j.pending = i.pending \cup {f}
      PROVE  D!Next
  <2>1. WantedIn(pit') = WantedIn(pit) \cup {<<f, i.pkt>>}
    BY <1>3, WantedMember
  <2>2. i.pkt \in Packet
    BY DEF TypeOK, Pending
  <2>3. D!Ask(f, i.pkt)
    BY <1>3, <2>1, WantedNow DEF D!Ask
  <2> QED
    BY <2>2, <2>3 DEF D!Next
<1>4. ASSUME NEW j \in Pending, txData' = {}, pit' = pit \cup {j},
             j.pkt = Hop(p), j.pending = {f}
      PROVE  D!Next
  <2>1. WantedIn(pit') = WantedIn(pit) \cup {<<f, Hop(p)>>}
    BY <1>4, WantedMember
  <2>2. D!Ask(f, Hop(p))
    BY <1>4, <2>1, WantedNow DEF D!Ask
  <2> QED
    BY <1>a, <2>2 DEF D!Next
<1> QED
  BY <1>1, <1>2, <1>3, <1>4, InterestCases DEF Twins

LEMMA DataDelivers ==
  ASSUME TypeOK, NEW d \in AnyData, ServePending(d)
  PROVE  D!Next
<1>1. pit' = pit \ Answered(d) /\ txData' = {<<g, d>> : g \in Waiting(Answered(d))}
  BY DEF ServePending
<1>2. \A i \in pit : i.pkt \in Packet
  BY DEF TypeOK, Pending
<1>3. D!Served(d) = WantedIn(Answered(d))
  <2>1. \A w : w \in D!Served(d) <=> w \in WantedIn(pit) /\ w[2] \in Packet /\ Answers(d, w[2])
    BY WantedNow DEF D!Served
  <2>2. ASSUME NEW w \in D!Served(d)
        PROVE  w \in WantedIn(Answered(d))
    <3>1. PICK i \in pit : \E g \in i.pending : w = <<g, i.pkt>>
      BY <2>1, <2>2, WantedMember
    <3>2. i \in Answered(d)
      BY <2>1, <2>2, <3>1 DEF Answered
    <3> QED
      BY <3>1, <3>2, WantedMember
  <2>3. ASSUME NEW w \in WantedIn(Answered(d))
        PROVE  w \in D!Served(d)
    <3>1. PICK i \in Answered(d) : \E g \in i.pending : w = <<g, i.pkt>>
      BY <2>3, WantedMember
    <3>2. i \in pit /\ Answers(d, i.pkt) /\ w[2] = i.pkt
      BY <3>1 DEF Answered
    <3> QED
      BY <1>2, <2>1, <3>1, <3>2, WantedMember
  <2> QED
    BY <2>2, <2>3
<1>4. WantedIn(pit') = WantedIn(pit) \ WantedIn(Answered(d))
  BY <1>1, WantedMember DEF Answered
<1>5. {<<w[1], d>> : w \in WantedIn(Answered(d))} = {<<g, d>> : g \in Waiting(Answered(d))}
  <2> DEFINE E == Answered(d)
  <2>1. \A g : g \in Waiting(E) <=> \E i \in E : g \in i.pending
    BY DEF Waiting
  <2> HIDE DEF E
  <2>2. ASSUME NEW w \in WantedIn(E)
        PROVE  <<w[1], d>> \in {<<g, d>> : g \in Waiting(E)}
    <3>1. PICK i \in E : \E g \in i.pending : w = <<g, i.pkt>>
      BY WantedMember
    <3>2. w[1] \in Waiting(E)
      BY <2>1, <3>1
    <3> QED
      BY <3>2
  <2>3. ASSUME NEW g \in Waiting(E)
        PROVE  <<g, d>> \in {<<w[1], d>> : w \in WantedIn(E)}
    <3>1. PICK i \in E : g \in i.pending
      BY <2>1
    <3>2. <<g, i.pkt>> \in WantedIn(E)
      BY <3>1, WantedMember
    <3> QED
      BY <3>2
  <2>4. {<<w[1], d>> : w \in WantedIn(E)} = {<<g, d>> : g \in Waiting(E)}
    BY <2>2, <2>3
  <2> QED
    BY <2>4 DEF E
<1>6. D!Arrive(d)
  BY <1>1, <1>3, <1>4, <1>5, WantedNow DEF D!Arrive
<1> QED
  BY <1>6 DEF D!Next

LEMMA QuietDelivers ==
  ASSUME Fewer(pit', pit), txData' = {}
  PROVE  D!Next
<1>1. D!Forget
  BY FewerWanted, WantedNow DEF D!Forget
<1> QED
  BY <1>1 DEF D!Next

LEMMA StepDelivers == TypeOK /\ [Next]_vars => [D!Next]_<<Wanted, txData>>
<1> SUFFICES ASSUME TypeOK, [Next]_vars PROVE [D!Next]_<<Wanted, txData>>
  OBVIOUS
<1>1. CASE UNCHANGED vars
  BY <1>1, WantedNow DEF vars
<1>2. CASE Next
  <2>1. ASSUME NEW f \in FaceId, NEW q \in LocalPeer, MgmtAddCacheObject(f, q)
        PROVE  D!Next
    <3>1. PICK n \in CacheName, g \in 1..MaxGen : pit' = pit \cup {NewEntry(CacheRequest(n), g, f)}
      BY <2>1 DEF MgmtAddCacheObject
    <3>2. NewEntry(CacheRequest(n), g, f).pending = {}
      BY DEF NewEntry
    <3> DEFINE e == NewEntry(CacheRequest(n), g, f)
    <3> HIDE DEF e
    <3>a. pit' = pit \cup {e} /\ e.pending = {}
      BY <3>1, <3>2 DEF e
    <3>3. WantedIn(pit') = WantedIn(pit)
      <4>1. \A w : w \in WantedIn(pit') <=> w \in WantedIn(pit)
        BY <3>a, WantedMember
      <4> QED
        BY <4>1 DEF WantedIn
    <3>4. D!Forget
      BY <2>1, <3>3, WantedNow DEF D!Forget, MgmtAddCacheObject
    <3> QED
      BY <3>4 DEF D!Next
  <2>2. pit' = pit /\ txData' = {} => D!Next
    BY FewerBySubset, QuietDelivers
  <2> QED
    BY <1>2, <2>1, <2>2, NextCases, InterestDelivers, DataDelivers, QuietFewer, QuietDelivers
<1> QED
  BY <1>1, <1>2

(***************************************************************************)
(* The relay keeps the promise of module Delivery: content is sent to the  *)
(* faces that wait for it when it comes in (ccnl_content_serve_pending),   *)
(* or to the one face that asks for what is cached, and to no other face.  *)
(***************************************************************************)
THEOREM Implements == Spec => Delivers
<1>1. Init => D!Init
  BY DEF Init, D!Init, Wanted
<1>2. TypeOK /\ [Next]_vars => [D!Next]_<<Wanted, txData>>
  BY StepDelivers
<1> QED
  BY <1>1, <1>2, TypeCorrect, PTL DEF Spec, Delivers, D!Spec
-----------------------------------------------------------------------------
(* What is in the cache, nobody waits for. *)

Unmet(entries, contents) ==
  \A i \in entries, c \in contents : i.pending # {} /\ CMatch(i.pkt, c) => c.stale

(***************************************************************************)
(* Interests that one entry stands for (ccnl_interest_isSame) are answered *)
(* by the same content, unless it is stale.                                *)
(***************************************************************************)
LEMMA SameAnswers ==
  ASSUME NEW p, NEW q, IsSame(p, q), NEW d
  PROVE  Answers(d, p) = Answers(d, q)
<1>1. p.name.comps = q.name.comps /\ p.name.chunk = q.name.chunk /\ p.name.suite = q.name.suite
  BY DEF IsSame, SameName, PrefixCmp, WithDigest
<1>2. SameName(d.name, p.name) = SameName(d.name, q.name)
  BY <1>1 DEF SameName, PrefixCmp, WithDigest
<1>3. CASE p.name.suite = "ccntlv"
  BY <1>1, <1>2, <1>3 DEF Answers
<1>4. CASE p.name.suite # "ccntlv"
  <2>1. p.min = q.min /\ p.max = q.max
    BY <1>4 DEF IsSame
  <2>2. SuffixOK(p, d) = SuffixOK(q, d) /\ DigestFor(p, d) = DigestFor(q, d)
    BY <1>1, <2>1 DEF SuffixOK, DigestFor
  <2>3. PrefixCmp(d.name, DigestFor(p, d), p.name, "exact") = PrefixCmp(d.name, DigestFor(q, d), q.name, "exact")
    BY <1>1, <2>2 DEF PrefixCmp
  <2>4. IPrefixOfC(p, d) = IPrefixOfC(q, d)
    BY <2>2, <2>3 DEF IPrefixOfC
  <2> QED
    BY <1>1, <1>4, <2>4 DEF Answers
<1> QED
  BY <1>3, <1>4

LEMMA SameMatch ==
  ASSUME NEW p, NEW q, IsSame(p, q), NEW c, CMatch(p, c)
  PROVE  CMatch(q, c) \/ c.stale
<1>1. p.name.suite = q.name.suite /\ Answers(c.data, q)
  BY SameAnswers DEF CMatch, IsSame
<1>2. p.name.suite = "ccnb" => p.ppk = q.ppk
  BY DEF IsSame
<1> QED
  BY <1>1, <1>2 DEF CMatch

LEMMA HopMatch ==
  ASSUME NEW p \in Interest, NEW c, CMatch(Hop(p), c)
  PROVE  CMatch(p, c)
<1> DEFINE h == Hop(p)
<1>1. h.name = p.name /\ h.min = p.min /\ h.max = p.max /\ h.ppk = p.ppk /\ h.mbf = p.mbf
  BY HopKeeps
<1> HIDE DEF h
<1>2. Answers(c.data, h) = Answers(c.data, p)
  BY <1>1, SameAnswers DEF IsSame, SameName, PrefixCmp, WithDigest
<1> QED
  BY <1>1, <1>2 DEF CMatch, h

(* Content that only gets older and stale answers no more than it did. *)
LEMMA UnmetFewer ==
  ASSUME Unmet(pit, cs), NEW entries, Fewer(entries, pit), NEW contents,
         \A e \in contents : \E c \in cs : e.data = c.data /\ (c.stale => e.stale)
  PROVE  Unmet(entries, contents)
<1> SUFFICES ASSUME NEW j \in entries, NEW e \in contents, j.pending # {}, CMatch(j.pkt, e)
             PROVE  e.stale
  BY DEF Unmet
<1>1. PICK i \in pit : j.pkt = i.pkt /\ j.pending \subseteq i.pending
  BY DEF Fewer
<1>2. PICK c \in cs : e.data = c.data /\ (c.stale => e.stale)
  OBVIOUS
<1>3. CASE c.stale
  BY <1>2, <1>3
<1>4. CASE ~ c.stale
  <2>1. CMatch(i.pkt, c)
    BY <1>1, <1>2, <1>4 DEF CMatch
  <2>2. i.pending # {}
    BY <1>1
  <2> QED
    BY <1>4, <2>1, <2>2 DEF Unmet
<1> QED
  BY <1>3, <1>4

LEMMA InterestUnmet ==
  ASSUME TypeOK, Unmet(pit, cs), NEW f \in FaceId, NEW p \in Interest, HandleInterest(f, p)
  PROVE  Unmet(pit', cs')
<1>a. cs' = cs
  BY InterestType
<1>b. InCache(p) <=> \E c \in cs : CMatch(p, c)
  BY DEF InCache
<1>1. CASE pit' = pit
  BY <1>a, <1>1
<1>2. ASSUME NEW i \in Twins(p), NEW j \in Pending, ~ InCache(p),
             pit' = (pit \ {i}) \cup {j}, j.pkt = i.pkt
      PROVE  Unmet(pit', cs')
  <2>1. IsSame(j.pkt, p)
    BY <1>2 DEF Twins
  <2>2. \A c \in cs : CMatch(j.pkt, c) => c.stale
    BY <1>2, <1>b, <2>1, SameMatch
  <2> QED
    BY <1>2, <1>a, <2>2 DEF Unmet
<1>3. ASSUME NEW j \in Pending, ~ InCache(p), pit' = pit \cup {j}, j.pkt = Hop(p)
      PROVE  Unmet(pit', cs')
  <2>1. \A c \in cs : ~ CMatch(j.pkt, c)
    BY <1>3, <1>b, HopMatch
  <2> QED
    BY <1>3, <1>a, <2>1 DEF Unmet
<1> QED
  BY <1>1, <1>2, <1>3, InterestCases

LEMMA DataUnmet ==
  ASSUME TypeOK, Unmet(pit, cs), NEW d \in AnyData, ServePending(d),
         cs' = cs \/ AddToCache(NewContent(d, Pins(d)))
  PROVE  Unmet(pit', cs')
<1> DEFINE c == NewContent(d, Pins(d))
<1>1. c.data = d
  BY DEF NewContent
<1> HIDE DEF c
<1>2. \A e \in cs' : e \in cs \/ e = c
  <2>1. AddToCache(c) => cs' \subseteq cs \cup {c}
    BY DEF AddToCache, Evict, Insert
  <2> QED
    BY <2>1 DEF c
<1>3. \A i \in pit' : i \in pit /\ ~ Answers(d, i.pkt)
  BY DEF ServePending, Answered
<1>4. \A i \in pit' : ~ CMatch(i.pkt, c)
  BY <1>1, <1>3, AnswersIfMatch
<1> QED
  BY <1>2, <1>3, <1>4 DEF Unmet

LEMMA QuietContent ==
  ASSUME TypeOK, QuietStep
  PROVE  \A e \in cs' : \E c \in cs : e.data = c.data /\ (c.stale => e.stale)
<1>1. CASE cs' \subseteq cs
  BY <1>1
<1>2. ASSUME NEW c \in cs
      PROVE  /\ [c EXCEPT !.age = Older(@)].data = c.data
             /\ [c EXCEPT !.age = Older(@)].stale = c.stale
             /\ [c EXCEPT !.stale = @ \/ Stales(c)].data = c.data
             /\ c.stale => [c EXCEPT !.stale = @ \/ Stales(c)].stale
  <2>1. c \in Content
    BY DEF TypeOK
  <2> DEFINE b == c.stale \/ Stales(c)
  <2>3. b \in BOOLEAN /\ (c.stale => b)
    OBVIOUS
  <2> HIDE DEF b
  <2>4. [c EXCEPT !.stale = b].data = c.data /\ [c EXCEPT !.stale = b].stale = b
    BY <2>1 DEF Content
  <2>5. /\ [c EXCEPT !.age = Older(@)].data = c.data
        /\ [c EXCEPT !.age = Older(@)].stale = c.stale
    BY <2>1 DEF Content
  <2> QED
    BY <2>3, <2>4, <2>5 DEF b
<1>3. CASE Tick
  <2>1. \A e \in cs' : \E c \in cs : e = c \/ e = [c EXCEPT !.age = Older(@)]
    BY <1>3 DEF Tick
  <2> QED
    BY <1>2, <2>1
<1>4. CASE Ageing
  <2> DEFINE old(c) == [c EXCEPT !.stale = @ \/ Stales(c)]
  <2>1. \A e \in cs' : \E c \in cs : e = old(c)
    BY <1>4 DEF Ageing
  <2>2. \A c \in cs : old(c).data = c.data /\ (c.stale => old(c).stale)
    BY <1>2
  <2> HIDE DEF old
  <2> QED
    BY <2>1, <2>2
<1>5. QuietStep => cs' \subseteq cs \/ Tick \/ Ageing
  BY DEF QuietStep, RxOther, MgmtNewFace, MgmtDestroyFace, MgmtPrefixReg,
         MgmtRemoveCacheObject, FibAdd, FibRem, tables
<1> QED
  BY <1>1, <1>3, <1>4, <1>5

LEMMA NextUnmet == TypeOK /\ CacheAnswersPending /\ [Next]_vars => CacheAnswersPending'
<1> SUFFICES ASSUME TypeOK, Unmet(pit, cs), [Next]_vars PROVE Unmet(pit', cs')
  BY DEF CacheAnswersPending, Unmet
<1>1. CASE pit' = pit /\ cs' = cs
  BY <1>1
<1>2. ASSUME NEW f \in FaceId, NEW q \in LocalPeer, MgmtAddCacheObject(f, q)
      PROVE  Unmet(pit', cs')
  <2>1. PICK n \in CacheName, g \in 1..MaxGen : pit' = pit \cup {NewEntry(CacheRequest(n), g, f)}
    BY <1>2 DEF MgmtAddCacheObject
  <2> DEFINE e == NewEntry(CacheRequest(n), g, f)
  <2>2. e.pending = {}
    BY DEF NewEntry
  <2>3. pit' = pit \cup {e} /\ cs' = cs
    BY <1>2, <2>1 DEF MgmtAddCacheObject
  <2> HIDE DEF e
  <2> QED
    BY <2>2, <2>3 DEF Unmet
<1>3. CASE QuietStep
  BY <1>3, QuietFewer, QuietContent, UnmetFewer
<1>4. UNCHANGED vars => pit' = pit /\ cs' = cs
  BY DEF vars
<1> QED
  BY <1>1, <1>2, <1>3, <1>4, NextCases, InterestUnmet, DataUnmet

(***************************************************************************)
(* No face waits for content that is in the cache and fresh: no order of   *)
(* Interests, Data, cached content, commands and timeouts leaves a request *)
(* behind that the relay could answer.                                     *)
(***************************************************************************)
THEOREM CacheIsUsed == Spec => []CacheAnswersPending
<1>1. Init => CacheAnswersPending
  BY DEF Init, CacheAnswersPending
<1>2. TypeOK /\ CacheAnswersPending /\ [Next]_vars => CacheAnswersPending'
  BY NextUnmet
<1> QED
  BY <1>1, <1>2, TypeCorrect, PTL DEF Spec
-----------------------------------------------------------------------------
(***************************************************************************)
(* Theorems about the PIT and the content store: their keys and limits,    *)
(* how long an entry stays, and who may lose one.                          *)
(***************************************************************************)

(* What a step does to the PIT, and what to the content store *)

LEMMA InterestPit ==
  ASSUME NEW f \in FaceId, NEW p \in Interest, HandleInterest(f, p)
  PROVE  /\ cs' = cs /\ lag' = lag
         /\ pit' = pit \/ JoinEntry(f, p) \/ CreateEntry(f, p)
BY DEF HandleInterest, DropInterest, AnswerFromCache, RefuseInterest, JoinEntry, CreateEntry, tables

LEMMA PitCases ==
  ASSUME TypeOK, [Next]_vars
  PROVE  \/ pit' = pit /\ lag' = lag
         \/ lag' = lag /\ \E f \in FaceId, p \in Interest : JoinEntry(f, p) \/ CreateEntry(f, p)
         \/ lag' = lag /\ \E d \in AnyData : ServePending(d)
         \/ lag' = lag /\ \E f \in FaceId, q \in LocalPeer : MgmtAddCacheObject(f, q)
         \/ lag' = lag /\ \E g : pit' = PitWithout(pit, {g}) /\ g \notin DOMAIN faces'
         \/ Tick \/ Ageing
<1>1. ASSUME NEW f \in FaceId, NEW q \in Peer, RxInterest(f, q)
      PROVE  \/ pit' = pit /\ lag' = lag
             \/ lag' = lag /\ \E p \in Interest : JoinEntry(f, p) \/ CreateEntry(f, p)
  BY <1>1, InterestPit DEF RxInterest
<1>2. ASSUME NEW d, DropData(d) \/ AcceptData(d)
      PROVE  lag' = lag /\ (pit' = pit \/ ServePending(d))
  BY <1>2 DEF DropData, AcceptData, tables
<1>3. ASSUME NEW f \in FaceId, NEW q \in LocalPeer, MgmtDestroyFace(f, q)
      PROVE  lag' = lag /\ \E g : pit' = PitWithout(pit, {g}) /\ g \notin DOMAIN faces'
  BY <1>3 DEF MgmtDestroyFace, FacesWithout
<1>4. ASSUME NEW f \in FaceId, NEW q \in Peer, RxOther(f, q)
      PROVE  pit' = pit /\ lag' = lag
  BY <1>4 DEF RxOther, tables
<1>5. ASSUME NEW f \in FaceId, NEW q \in LocalPeer,
             MgmtNewFace(f, q) \/ MgmtPrefixReg(f, q) \/ MgmtRemoveCacheObject(f, q)
      PROVE  pit' = pit /\ lag' = lag
  BY <1>5 DEF MgmtNewFace, MgmtPrefixReg, MgmtRemoveCacheObject, tables
<1>6. ASSUME NEW f \in FaceId, NEW q \in LocalPeer, MgmtAddCacheObject(f, q)
      PROVE  lag' = lag
  BY <1>6 DEF MgmtAddCacheObject
<1>7. CsAdd => lag' = lag /\ \E d \in AnyData : ServePending(d)
  BY DEF CsAdd, AnyData
<1>8. FibAdd \/ FibRem \/ UNCHANGED vars => pit' = pit /\ lag' = lag
  BY DEF FibAdd, FibRem, vars
<1>9. ASSUME NEW f \in FaceId, NEW q \in Peer, RxData(f, q)
      PROVE  lag' = lag /\ (pit' = pit \/ \E d \in AnyData : ServePending(d))
  BY <1>2, <1>9 DEF RxData, AnyData
<1> QED
  BY <1>1, <1>3, <1>4, <1>5, <1>6, <1>7, <1>8, <1>9 DEF Next, Receive, Mgmt

Found(n, c) == n \in CacheName /\ c \in cs /\ n.comps = c.data.name.comps

LEMMA StoreCases ==
  ASSUME TypeOK, [Next]_vars
  PROVE  \/ cs' = cs /\ lag' = lag
         \/ /\ lag' = lag
            /\ \E d \in AnyData : ~ IsCached(d) /\ AddToCache(NewContent(d, Pins(d)))
         \/ lag' = lag /\ \E n, c : Found(n, c) /\ cs' = cs \ {c}
         \/ Tick \/ Ageing
<1>1. ASSUME NEW f \in FaceId, NEW q \in Peer, RxInterest(f, q)
      PROVE  cs' = cs /\ lag' = lag
  BY <1>1, InterestPit DEF RxInterest
<1>2. ASSUME NEW d, DropData(d) \/ AcceptData(d)
      PROVE  /\ lag' = lag
             /\ cs' = cs \/ (~ IsCached(d) /\ AddToCache(NewContent(d, Pins(d))))
  BY <1>2 DEF DropData, AcceptData, tables
<1>3. ASSUME NEW f \in FaceId, NEW q \in LocalPeer, MgmtRemoveCacheObject(f, q)
      PROVE  lag' = lag /\ \E n, c : Found(n, c) /\ cs' = cs \ {c}
  BY <1>3 DEF MgmtRemoveCacheObject, Found
<1>4. ASSUME NEW f \in FaceId, NEW q \in Peer, RxOther(f, q)
      PROVE  cs' = cs /\ lag' = lag
  BY <1>4 DEF RxOther, tables
<1>5. ASSUME NEW f \in FaceId, NEW q \in LocalPeer,
             \/ MgmtNewFace(f, q) \/ MgmtDestroyFace(f, q)
             \/ MgmtPrefixReg(f, q) \/ MgmtAddCacheObject(f, q)
      PROVE  cs' = cs /\ lag' = lag
  BY <1>5 DEF MgmtNewFace, MgmtDestroyFace, MgmtPrefixReg, MgmtAddCacheObject, tables
<1>7. CsAdd => /\ lag' = lag
               /\ \E d \in AnyData : ~ IsCached(d) /\ AddToCache(NewContent(d, Pins(d)))
  BY DEF CsAdd, AnyData
<1>8. FibAdd \/ FibRem \/ UNCHANGED vars => cs' = cs /\ lag' = lag
  BY DEF FibAdd, FibRem, vars
<1>9. ASSUME NEW f \in FaceId, NEW q \in Peer, RxData(f, q)
      PROVE  \/ cs' = cs /\ lag' = lag
             \/ /\ lag' = lag
                /\ \E d \in AnyData : ~ IsCached(d) /\ AddToCache(NewContent(d, Pins(d)))
  BY <1>2, <1>9 DEF RxData, AnyData
<1> QED
  BY <1>1, <1>3, <1>4, <1>5, <1>7, <1>8, <1>9 DEF Next, Receive, Mgmt
-----------------------------------------------------------------------------
(* What becomes of an entry of the PIT that ageing, time or the end of a face changes *)

Cut(i, gone) ==
  [i EXCEPT !.pending = @ \ gone, !.from = IF @ \in gone THEN NoFace ELSE @]

LEMMA CutKeeps ==
  ASSUME NEW i \in Pending, NEW gone
  PROVE  LET j == Cut(i, gone) IN
           j.pkt = i.pkt /\ j.gen = i.gen /\ j.age = i.age /\ j.pending = i.pending \ gone
BY DEF Cut, Pending

LEMMA PitWithoutCuts ==
  ASSUME NEW entries, entries \subseteq Pending, NEW gone
  PROVE  /\ gone = {} => PitWithout(entries, gone) = entries
         /\ gone # {} => \A j : j \in PitWithout(entries, gone) <=>
              \E i \in entries : i.pending \ gone # {} /\ j = Cut(i, gone)
BY DEF PitWithout, Cut

LEMMA OlderKeeps ==
  ASSUME NEW i \in Pending
  PROVE  LET j == [i EXCEPT !.age = Older(@)] IN
           j.pkt = i.pkt /\ j.gen = i.gen /\ j.age = Older(i.age) /\ j.pending = i.pending
BY DEF Pending

LEMMA RetriedKeeps ==
  ASSUME NEW i \in Pending
  PROVE  LET j == [i EXCEPT !.retries = @ + 1] IN
           j.pkt = i.pkt /\ j.gen = i.gen /\ j.age = i.age /\ j.pending = i.pending
BY DEF Pending

(* What stays after a run of ageing has not timed out, and is what was there. *)
Stayed(j, i) ==
  i \in pit /\ ~ TimedOut(i) /\ j.pkt = i.pkt /\ j.gen = i.gen /\ j.age = i.age

LEMMA AgeingStays ==
  ASSUME TypeOK, Ageing
  PROVE  \A j \in pit' : \E i : /\ Stayed(j, i)
                                /\ \/ j = Cut([i EXCEPT !.retries = @ + 1], Idle)
                                   \/ j = [i EXCEPT !.retries = @ + 1] /\ Idle = {}
<1>1. \A i \in pit : i \in Pending
  BY DEF TypeOK
<1>2. Retransmitted \subseteq Pending /\ pit' = PitWithout(Retransmitted, Idle)
  BY AgeingType DEF Ageing
<1>3. \A r \in Retransmitted : \E i \in pit : ~ TimedOut(i) /\ r = [i EXCEPT !.retries = @ + 1]
  BY DEF Retransmitted
<1> SUFFICES ASSUME NEW j \in pit'
             PROVE  \E i : /\ Stayed(j, i)
                           /\ \/ j = Cut([i EXCEPT !.retries = @ + 1], Idle)
                              \/ j = [i EXCEPT !.retries = @ + 1] /\ Idle = {}
  OBVIOUS
<1>4. CASE Idle = {}
  <2>1. PICK i \in pit : ~ TimedOut(i) /\ j = [i EXCEPT !.retries = @ + 1]
    BY <1>2, <1>3, <1>4, PitWithoutCuts
  <2> QED
    BY <1>1, <1>4, <2>1, RetriedKeeps DEF Stayed
<1>5. CASE Idle # {}
  <2>1. PICK r \in Retransmitted : j = Cut(r, Idle)
    BY <1>2, <1>5, PitWithoutCuts
  <2>2. PICK i \in pit : ~ TimedOut(i) /\ r = [i EXCEPT !.retries = @ + 1]
    BY <1>3
  <2>3. j.pkt = r.pkt /\ j.gen = r.gen /\ j.age = r.age
    BY <1>2, <2>1, CutKeeps
  <2>4. r.pkt = i.pkt /\ r.gen = i.gen /\ r.age = i.age
    BY <1>1, <2>2, RetriedKeeps
  <2>5. Stayed(j, i)
    BY <2>2, <2>3, <2>4 DEF Stayed
  <2> QED
    BY <2>1, <2>2, <2>5
<1> QED
  BY <1>4, <1>5
-----------------------------------------------------------------------------
(* Interests end in time. *)

InTime(i, late) == i.age < i.pkt.life + late \/ i.age =< late

LEMMA AgesAreNumbers ==
  ASSUME TypeOK
  PROVE  /\ \A i \in pit : i \in Pending /\ i.age \in Nat /\ i.pkt.life \in Nat
         /\ lag \in Nat
<1>1. ASSUME NEW i \in pit
      PROVE  i \in Pending /\ i.age \in Nat /\ i.pkt.life \in Nat
  <2>1. i \in Pending
    BY DEF TypeOK
  <2>2. i.pkt \in Packet /\ i.age \in 0..AgeCap
    BY <2>1 DEF Pending
  <2> QED
    BY <2>1, <2>2, TimeoutAssumption, BoundsAssumption
<1> QED
  BY <1>1, BoundsAssumption DEF TypeOK

LEMMA OlderByOne ==
  ASSUME NEW a \in Nat
  PROVE  Older(a) \in Nat /\ Older(a) =< a + 1
BY DEF Older

LEMMA PendingInTimeStep == TypeOK /\ PendingInTime /\ [Next]_vars => PendingInTime'
<1> SUFFICES ASSUME TypeOK, PendingInTime, [Next]_vars
             PROVE  \A j \in pit' : InTime(j, lag')
  BY DEF PendingInTime, InTime
<1>1. \A i \in pit : InTime(i, lag) /\ i \in Pending
  BY AgesAreNumbers DEF PendingInTime, InTime
<1>2. CASE pit' = pit /\ lag' = lag
  BY <1>1, <1>2
<1>3. ASSUME NEW f \in FaceId, NEW p \in Interest, JoinEntry(f, p), lag' = lag
      PROVE  \A j \in pit' : InTime(j, lag')
  <2>1. PICK i \in pit : pit' = (pit \ {i}) \cup {[i EXCEPT !.pending = @ \cup {f}]}
    BY <1>3 DEF JoinEntry
  <2>2. [i EXCEPT !.pending = @ \cup {f}].age = i.age /\ [i EXCEPT !.pending = @ \cup {f}].pkt = i.pkt
    BY <1>1 DEF Pending
  <2> QED
    BY <1>1, <1>3, <2>1, <2>2 DEF InTime
<1>4. ASSUME NEW j, j.age = 0
      PROVE  InTime(j, lag)
  BY <1>4, AgesAreNumbers DEF InTime
<1>5. ASSUME NEW f \in FaceId, NEW p \in Interest, CreateEntry(f, p), lag' = lag
      PROVE  \A j \in pit' : InTime(j, lag')
  <2> DEFINE e == [NewEntry(Hop(p), 1, f) EXCEPT !.pending = {f}]
  <2>1. pit' = pit \cup {e}
    BY <1>5 DEF CreateEntry
  <2>2. e.age = 0
    BY DEF NewEntry
  <2> QED
    BY <1>1, <1>4, <1>5, <2>1, <2>2
<1>6. ASSUME NEW d, ServePending(d), lag' = lag
      PROVE  \A j \in pit' : InTime(j, lag')
  BY <1>1, <1>6 DEF ServePending
<1>7. ASSUME NEW f \in FaceId, NEW q \in LocalPeer, MgmtAddCacheObject(f, q), lag' = lag
      PROVE  \A j \in pit' : InTime(j, lag')
  <2>1. PICK n \in CacheName, g \in 1..MaxGen : pit' = pit \cup {NewEntry(CacheRequest(n), g, f)}
    BY <1>7 DEF MgmtAddCacheObject
  <2>2. NewEntry(CacheRequest(n), g, f).age = 0
    BY DEF NewEntry
  <2> QED
    BY <1>1, <1>4, <1>7, <2>1, <2>2
<1>8. ASSUME NEW g, pit' = PitWithout(pit, {g}), lag' = lag
      PROVE  \A j \in pit' : InTime(j, lag')
  <2>1. \A j \in pit' : \E i \in pit : j = Cut(i, {g})
    BY <1>1, <1>8, PitWithoutCuts
  <2>2. ASSUME NEW i \in pit
        PROVE  Cut(i, {g}).age = i.age /\ Cut(i, {g}).pkt = i.pkt
    BY <1>1, CutKeeps
  <2>3. ASSUME NEW i \in pit
        PROVE  InTime(Cut(i, {g}), lag)
    BY <1>1, <2>2 DEF InTime
  <2> QED
    BY <1>8, <2>1, <2>3
<1>9. CASE Tick
  <2>1. lag' = lag + 1 /\ pit' = {[i EXCEPT !.age = Older(@)] : i \in pit}
    BY <1>9 DEF Tick
  <2>2. ASSUME NEW i \in pit
        PROVE  InTime([i EXCEPT !.age = Older(@)], lag')
    <3> DEFINE j == [i EXCEPT !.age = Older(@)]
    <3>1. j.age = Older(i.age) /\ j.pkt = i.pkt
      BY <1>1, OlderKeeps
    <3>2. i.age \in Nat /\ i.pkt.life \in Nat /\ lag \in Nat
      BY AgesAreNumbers
    <3>3. j.age \in Nat /\ j.age =< i.age + 1
      BY <3>1, <3>2, OlderByOne
    <3>4. i.age < i.pkt.life + lag \/ i.age =< lag
      BY <1>1 DEF InTime
    <3> HIDE DEF j
    <3> QED
      BY <2>1, <3>1, <3>2, <3>3, <3>4 DEF InTime, j
  <2> QED
    BY <2>1, <2>2
<1>10. CASE Ageing
  <2>1. lag' = 0
    BY <1>10 DEF Ageing
  <2>2. \A j \in pit' : \E i : Stayed(j, i)
    BY <1>10, AgeingStays
  <2>3. ASSUME NEW j \in pit'
        PROVE  InTime(j, 0)
    <3>1. PICK i : Stayed(j, i)
      BY <2>2
    <3>2. i.age \in Nat /\ i.pkt.life \in Nat /\ ~ (i.age >= i.pkt.life)
      BY <3>1, AgesAreNumbers DEF Stayed, TimedOut
    <3> QED
      BY <3>1, <3>2 DEF InTime, Stayed
  <2> QED
    BY <2>1, <2>3
<1> QED
  BY <1>2, <1>3, <1>5, <1>6, <1>7, <1>8, <1>9, <1>10, PitCases

(***************************************************************************)
(* No Interest stays in the PIT longer than its lifetime and the lateness  *)
(* of the timer (ccnl_do_ageing), whoever joins it meanwhile.              *)
(***************************************************************************)
THEOREM EndsInTime == Spec => []PendingInTime
<1>1. Init => PendingInTime
  BY DEF Init, PendingInTime
<1> QED
  BY <1>1, PendingInTimeStep, TypeCorrect, PTL DEF Spec
-----------------------------------------------------------------------------
(* The content store: what ageing and time make of a content *)

Marked(c) == [c EXCEPT !.stale = @ \/ Stales(c)]
Aged(c) == IF c.static THEN c ELSE [c EXCEPT !.age = Older(@)]

LEMMA MarkedKeeps ==
  ASSUME NEW c \in Content
  PROVE  /\ Marked(c).data = c.data /\ Marked(c).static = c.static /\ Marked(c).age = c.age
         /\ ~ Marked(c).stale => ~ Stales(c)
         /\ c.static => Marked(c) = c
<1> DEFINE b == c.stale \/ Stales(c)
<1>1. b \in BOOLEAN /\ c.stale \in BOOLEAN /\ Marked(c) = [c EXCEPT !.stale = b]
  BY DEF Content, Marked
<1>2. b = FALSE => ~ Stales(c)
  OBVIOUS
<1>3. c.static => b = c.stale
  BY <1>1 DEF Stales
<1> HIDE DEF b
<1>4. [c EXCEPT !.stale = c.stale] = c
  BY DEF Content
<1>5. LET d == [c EXCEPT !.stale = b] IN d.data = c.data /\ d.static = c.static /\ d.age = c.age /\ d.stale = b
  BY <1>1 DEF Content
<1>6. c.static => Marked(c) = c
  BY <1>1, <1>3, <1>4
<1> QED
  BY <1>1, <1>2, <1>5, <1>6

LEMMA AgedKeeps ==
  ASSUME NEW c \in Content
  PROVE  /\ Aged(c).data = c.data /\ Aged(c).static = c.static /\ Aged(c).stale = c.stale
         /\ c.static => Aged(c) = c
         /\ ~ c.static => Aged(c).age = Older(c.age)
BY DEF Aged, Content

LEMMA TickStore == Tick => cs' = {Aged(c) : c \in cs} /\ lag' = lag + 1
BY DEF Tick, Aged

LEMMA AgeingStore == Ageing => cs' = {Marked(c) : c \in {d \in cs : Kept(d)}} /\ lag' = 0 /\ lag > 0
BY DEF Ageing, Marked

LEMMA AddedKeeps ==
  ASSUME NEW c, AddToCache(c)
  PROVE  /\ \A e \in cs' : e \in cs \/ e = c
         /\ \A e \in cs : e.static => e \in cs'
BY DEF AddToCache, Evict, Insert, Oldest, Evictable

LEMMA StaticStaysStep ==
  ASSUME TypeOK, [Next]_vars, NEW c \in cs, c.static, c \notin cs'
  PROVE  /\ cs' = cs \ {c} /\ lag' = lag
         /\ \E n \in CacheName : n.comps = c.data.name.comps
<1>1. \A e \in cs : e \in Content
  BY DEF TypeOK
<1>2. cs' # cs
  OBVIOUS
<1>3. ~ Tick
  BY <1>1, TickStore, AgedKeeps
<1>4. ~ Ageing
  BY <1>1, AgeingStore, MarkedKeeps DEF Kept
<1>5. ASSUME NEW d \in AnyData, AddToCache(NewContent(d, Pins(d)))
      PROVE  FALSE
  BY <1>5, AddedKeeps
<1>6. PICK n, e : Found(n, e) /\ cs' = cs \ {e} /\ lag' = lag
  BY <1>2, <1>3, <1>4, <1>5, StoreCases
<1> QED
  BY <1>6 DEF Found

(***************************************************************************)
(* Static content leaves the store by removecacheobject only, however full *)
(* the store is (ccnl_content_add2cache, ccnl_do_ageing).                  *)
(***************************************************************************)
THEOREM StaticIsKept == Spec => StaticStays
<1> DEFINE A == \A c \in cs : c.static /\ c \notin cs' =>
                  /\ cs' = cs \ {c} /\ lag' = lag
                  /\ \E n \in CacheName : n.comps = c.data.name.comps
<1>1. TypeOK /\ [Next]_vars => [A]_vars
  BY StaticStaysStep
<1> HIDE DEF A
<1>2. Spec => [][A]_vars
  BY <1>1, TypeCorrect, PTL DEF Spec
<1> QED
  BY <1>2 DEF StaticStays, A
-----------------------------------------------------------------------------
(* Freshness is kept up to the lateness of the timer. *)

Timely(c, late) ==
  c.data.name.suite = "ndntlv" /\ ~ c.static /\ ~ c.stale =>
    c.age < c.data.fresh + late \/ c.age =< late

LEMMA FreshInTimeStep == TypeOK /\ FreshInTime /\ [Next]_vars => FreshInTime'
<1> SUFFICES ASSUME TypeOK, FreshInTime, [Next]_vars
             PROVE  \A e \in cs' : Timely(e, lag')
  BY DEF FreshInTime, Timely
<1>1. /\ \A c \in cs : /\ c \in Content /\ c.age \in Nat /\ Timely(c, lag)
                       /\ c.data.name.suite = "ndntlv" => c.data.fresh \in Nat
      /\ lag \in Nat
  <2>1. ASSUME NEW c \in cs
        PROVE  c \in Content /\ c.age \in 0..AgeCap /\ c.data \in AnyData
    <3>1. c \in Content
      BY DEF TypeOK
    <3> QED
      BY <3>1 DEF Content
  <2>2. lag \in Nat
    BY BoundsAssumption DEF TypeOK
  <2>3. \A c \in cs : Timely(c, lag)
    BY DEF FreshInTime, Timely
  <2> QED
    BY <2>1, <2>2, <2>3, DataAssumption, BoundsAssumption
<1>2. CASE cs' = cs /\ lag' = lag
  BY <1>1, <1>2
<1>3. ASSUME NEW d, AddToCache(NewContent(d, Pins(d))), lag' = lag
      PROVE  \A e \in cs' : Timely(e, lag')
  <2>1. NewContent(d, Pins(d)).age = 0
    BY DEF NewContent
  <2>2. Timely(NewContent(d, Pins(d)), lag)
    BY <1>1, <2>1 DEF Timely
  <2>3. \A e \in cs' : e \in cs \/ e = NewContent(d, Pins(d))
    BY <1>3, AddedKeeps
  <2> QED
    BY <1>1, <1>3, <2>2, <2>3
<1>4. ASSUME NEW n, NEW c, cs' = cs \ {c}, lag' = lag
      PROVE  \A e \in cs' : Timely(e, lag')
  BY <1>1, <1>4
<1>5. CASE Tick
  <2>1. ASSUME NEW c \in cs
        PROVE  Timely(Aged(c), lag + 1)
    <3> DEFINE e == Aged(c)
    <3>1. e.data = c.data /\ e.static = c.static /\ e.stale = c.stale
      BY <1>1, AgedKeeps
    <3>2. ~ e.static => e.age = Older(c.age)
      BY <1>1, <3>1, AgedKeeps
    <3>3. Older(c.age) \in Nat /\ Older(c.age) =< c.age + 1
      BY <1>1, OlderByOne
    <3>4. Timely(c, lag) /\ lag \in Nat /\ c.age \in Nat
          /\ (c.data.name.suite = "ndntlv" => c.data.fresh \in Nat)
      BY <1>1
    <3> HIDE DEF e
    <3>5. Timely(e, lag + 1)
      BY <3>1, <3>2, <3>3, <3>4 DEF Timely
    <3> QED
      BY <3>5 DEF e
  <2> QED
    BY <1>5, <2>1, TickStore
<1>6. CASE Ageing
  <2>1. ASSUME NEW c \in cs
        PROVE  Timely(Marked(c), 0)
    <3> DEFINE e == Marked(c)
    <3>1. e.data = c.data /\ e.static = c.static /\ e.age = c.age /\ (~ e.stale => ~ Stales(c))
      BY <1>1, MarkedKeeps
    <3>2. c.age \in Nat /\ (c.data.name.suite = "ndntlv" => c.data.fresh \in Nat)
      BY <1>1
    <3> HIDE DEF e
    <3>3. Timely(e, 0)
      BY <3>1, <3>2 DEF Timely, Stales
    <3> QED
      BY <3>3 DEF e
  <2> QED
    BY <1>6, <2>1, AgeingStore
<1> QED
  BY <1>2, <1>3, <1>4, <1>5, <1>6, StoreCases

(***************************************************************************)
(* What is not marked stale is over its freshness period by no more than   *)
(* the lateness of the timer (ccnl_do_ageing).                             *)
(***************************************************************************)
THEOREM FreshUpToLag == Spec => []FreshInTime
<1>1. Init => FreshInTime
  BY DEF Init, FreshInTime, NewContent
<1> QED
  BY <1>1, FreshInTimeStep, TypeCorrect, PTL DEF Spec
-----------------------------------------------------------------------------
(* The store: one content per name, and its limit.  Both need that it is finite. *)

OnePerName(contents) == \A c, e \in contents : SameName(c.data.name, e.data.name) => c = e

(* Over the limit by one at most, and then with one content that is not static *)
Limited(contents) ==
  MaxCache > 0 =>
    /\ Cardinality(contents) =< MaxCache + 1
    /\ Cardinality(contents) > MaxCache =>
         \A c, e \in contents : c.static \/ e.static \/ c = e

StoreInv == IsFiniteSet(cs) /\ OnePerName(cs) /\ Limited(cs)

LEMMA SameNameSymmetric ==
  ASSUME NEW n, NEW m, SameName(n, m)
  PROVE  SameName(m, n)
BY DEF SameName, PrefixCmp, WithDigest

LEMMA SameNameReflexive ==
  ASSUME NEW n
  PROVE  SameName(n, n)
BY DEF SameName, PrefixCmp, WithDigest

(* Contents that change, and keep their data and whether they are static *)
Changed(old, new) ==
  \E h \in [old -> new] :
    /\ \A c \in old : h[c].data = c.data /\ h[c].static = c.static
    /\ \A e \in new : \E c \in old : h[c] = e

LEMMA ChangedStore ==
  ASSUME NEW old, IsFiniteSet(old), OnePerName(old), Limited(old), NEW new, Changed(old, new)
  PROVE  IsFiniteSet(new) /\ OnePerName(new) /\ Limited(new)
<1> PICK h \in [old -> new] :
      /\ \A c \in old : h[c].data = c.data /\ h[c].static = c.static
      /\ \A e \in new : \E c \in old : h[c] = e
  BY DEF Changed
<1>1. h \in Surjection(old, new)
  BY DEF Surjection
<1>2. IsFiniteSet(new) /\ Cardinality(new) =< Cardinality(old)
  BY <1>1, FS_Surjection DEF ExistsSurjection
<1>3. Cardinality(new) \in Nat /\ Cardinality(old) \in Nat
  BY <1>2, FS_CardinalityType
<1>4. Limited(new)
  <2>1. ASSUME MaxCache > 0
        PROVE  /\ Cardinality(new) =< MaxCache + 1
               /\ Cardinality(new) > MaxCache => Cardinality(old) > MaxCache
    BY <1>2, <1>3, <2>1, BoundsAssumption DEF Limited
  <2>2. ASSUME MaxCache > 0, Cardinality(new) > MaxCache, NEW d \in new, NEW e \in new
        PROVE  d.static \/ e.static \/ d = e
    <3>1. PICK c \in old, f \in old : h[c] = d /\ h[f] = e
      OBVIOUS
    <3>2. c.static \/ f.static \/ c = f
      BY <2>1, <2>2 DEF Limited
    <3> QED
      BY <3>1, <3>2
  <2> QED
    BY <2>1, <2>2 DEF Limited
<1>5. ASSUME NEW d \in new, NEW e \in new, SameName(d.data.name, e.data.name)
      PROVE  d = e
  <2>1. PICK c \in old, f \in old : h[c] = d /\ h[f] = e
    OBVIOUS
  <2>2. c = f
    BY <1>5, <2>1 DEF OnePerName
  <2> QED
    BY <2>1, <2>2
<1> QED
  BY <1>2, <1>4, <1>5 DEF OnePerName

LEMMA LessStore ==
  ASSUME NEW old, IsFiniteSet(old), OnePerName(old), Limited(old), NEW new \in SUBSET old
  PROVE  IsFiniteSet(new) /\ OnePerName(new) /\ Limited(new)
<1>1. IsFiniteSet(new) /\ Cardinality(new) =< Cardinality(old)
  BY FS_Subset
<1>2. Cardinality(new) \in Nat /\ Cardinality(old) \in Nat
  BY <1>1, FS_CardinalityType
<1>3. Limited(new)
  BY <1>1, <1>2, BoundsAssumption DEF Limited
<1> QED
  BY <1>1, <1>3 DEF OnePerName

LEMMA MoreStore ==
  ASSUME StoreInv, NEW d, ~ IsCached(d), NEW static, AddToCache(NewContent(d, static))
  PROVE  StoreInv'
<1> DEFINE c == NewContent(d, static)
<1>1. PICK room \in SUBSET cs : Evict(room) /\ cs' = Insert(room, c)
  BY DEF AddToCache
<1>2. IsFiniteSet(room) /\ OnePerName(room) /\ Limited(room)
  BY LessStore DEF StoreInv
<1>3. c.data = d
  BY DEF NewContent
<1> HIDE DEF c
<1>4. CASE cs' = room
  BY <1>2, <1>4 DEF StoreInv, OnePerName, Limited
(* If the room made is no less than the limit, nothing in it could be evicted. *)
<1>5. ASSUME MaxCache > 0, Cardinality(room) >= MaxCache
      PROVE  \A e \in room : e.static
  <2>1. Cardinality(cs) \in Nat /\ Cardinality(room) \in Nat /\ Cardinality(room) =< Cardinality(cs)
    BY <1>2, FS_CardinalityType, FS_Subset DEF StoreInv
  <2>2. CacheFull
    BY <1>5, <2>1, BoundsAssumption DEF CacheFull
  <2>3. CASE Evictable = {}
    BY <2>3 DEF Evictable
  <2>4. CASE Evictable # {}
    <3>1. PICK e \in Oldest : room = cs \ {e}
      BY <1>1, <2>2, <2>4 DEF Evict
    <3>2. e \in cs /\ ~ e.static
      BY DEF Oldest, Evictable
    <3>3. Cardinality(room) = Cardinality(cs) - 1
      BY <3>1, <3>2, FS_RemoveElement DEF StoreInv
    <3>4. Cardinality(cs) > MaxCache
      BY <1>5, <2>1, <3>3, BoundsAssumption
    <3> QED
      BY <1>5, <3>1, <3>2, <3>4 DEF StoreInv, Limited
  <2> QED
    BY <2>3, <2>4
<1>6. CASE cs' = room \cup {c} /\ (MaxCache =< 0 \/ Cardinality(room) =< MaxCache)
  <2>1. IsFiniteSet(cs') /\ Cardinality(cs') =< Cardinality(room) + 1 /\ Cardinality(room) \in Nat
    BY <1>2, <1>6, FS_AddElement, FS_CardinalityType
  <2>2. Cardinality(cs') \in Nat
    BY <2>1, FS_CardinalityType
  <2>3. Limited(cs')
    <3>1. MaxCache > 0 => Cardinality(cs') =< MaxCache + 1
      BY <1>6, <2>1, <2>2, BoundsAssumption
    <3>2. ASSUME MaxCache > 0, Cardinality(cs') > MaxCache, NEW e \in room, NEW f \in room
          PROVE  e.static \/ f.static
      BY <1>5, <2>1, <2>2, <3>2, BoundsAssumption
    <3>3. ASSUME MaxCache > 0, Cardinality(cs') > MaxCache, NEW e \in cs', NEW f \in cs'
          PROVE  e.static \/ f.static \/ e = f
      BY <1>6, <1>5, <2>1, <2>2, <3>3, BoundsAssumption
    <3> QED
      BY <3>1, <3>3 DEF Limited
  <2>4. \A e \in room : ~ SameName(e.data.name, c.data.name) /\ ~ SameName(c.data.name, e.data.name)
    BY <1>3, SameNameSymmetric DEF IsCached
  <2>5. OnePerName(cs')
    BY <1>2, <1>6, <2>4 DEF OnePerName
  <2> QED
    BY <2>1, <2>3, <2>5 DEF StoreInv, OnePerName, Limited
<1> QED
  BY <1>1, <1>4, <1>6 DEF Insert

LEMMA StoreInit == Init => StoreInv
<1> SUFFICES ASSUME Init PROVE StoreInv
  OBVIOUS
<1>1. PICK files \in SUBSET Preload :
        /\ \A d, e \in files : SameName(d.name, e.name) => d = e
        /\ MaxCache > 0 => Cardinality(files) =< MaxCache + 1
        /\ cs = {NewContent(d, TRUE) : d \in files}
  BY DEF Init
<1> DEFINE h == [d \in files |-> NewContent(d, TRUE)]
<1>2. IsFiniteSet(files)
  BY FS_Subset, DataAssumption
<1>3. cs = {h[d] : d \in files} /\ h \in Surjection(files, cs)
  BY <1>1 DEF Surjection
<1>4. IsFiniteSet(cs) /\ Cardinality(cs) =< Cardinality(files)
  BY <1>2, <1>3, FS_Surjection DEF ExistsSurjection
<1>5. Limited(cs)
  <2>1. Cardinality(cs) \in Nat /\ Cardinality(files) \in Nat
    BY <1>2, <1>4, FS_CardinalityType
  <2>2. \A c, e \in cs : c.static \/ e.static \/ c = e
    BY <1>1 DEF NewContent
  <2>3. MaxCache > 0 => Cardinality(cs) =< MaxCache + 1
    BY <1>1, <1>4, <2>1, BoundsAssumption
  <2> QED
    BY <2>2, <2>3 DEF Limited
<1>6. ASSUME NEW c \in cs, NEW e \in cs, SameName(c.data.name, e.data.name)
      PROVE  c = e
  <2>1. PICK d \in files, f \in files : c = NewContent(d, TRUE) /\ e = NewContent(f, TRUE)
    BY <1>1
  <2>2. c.data = d /\ e.data = f
    BY <2>1 DEF NewContent
  <2>3. d = f
    BY <1>1, <1>6, <2>2
  <2> QED
    BY <2>1, <2>3
<1> QED
  BY <1>4, <1>5, <1>6 DEF StoreInv, OnePerName

LEMMA StoreStep == TypeOK /\ StoreInv /\ [Next]_vars => StoreInv'
<1> SUFFICES ASSUME TypeOK, StoreInv, [Next]_vars PROVE StoreInv'
  OBVIOUS
<1>1. \A c \in cs : c \in Content
  BY DEF TypeOK
<1>2. ASSUME NEW new, IsFiniteSet(new) /\ OnePerName(new) /\ Limited(new), cs' = new
      PROVE  StoreInv'
  BY <1>2 DEF StoreInv, OnePerName, Limited
<1>3. CASE cs' = cs
  BY <1>2, <1>3 DEF StoreInv
<1>4. ASSUME NEW d, ~ IsCached(d), AddToCache(NewContent(d, Pins(d)))
      PROVE  StoreInv'
  BY <1>4, MoreStore
<1>5. ASSUME NEW c, cs' = cs \ {c}
      PROVE  StoreInv'
  <2>1. cs \ {c} \in SUBSET cs
    OBVIOUS
  <2> QED
    BY <1>2, <1>5, <2>1, LessStore DEF StoreInv
<1>6. CASE Tick
  <2> DEFINE h == [c \in cs |-> Aged(c)]
  <2>1. cs' = {h[c] : c \in cs}
    BY <1>6, TickStore
  <2>2. \A c \in cs : h[c].data = c.data /\ h[c].static = c.static
    BY <1>1, AgedKeeps
  <2>3. h \in [cs -> cs'] /\ \A e \in cs' : \E c \in cs : h[c] = e
    BY <2>1
  <2> HIDE DEF h
  <2>4. Changed(cs, cs')
    BY <2>2, <2>3 DEF Changed
  <2> QED
    BY <1>2, <2>4, ChangedStore DEF StoreInv
<1>7. CASE Ageing
  <2> DEFINE kept == {d \in cs : Kept(d)}
             h == [c \in kept |-> Marked(c)]
  <2>1. cs' = {h[c] : c \in kept}
    BY <1>7, AgeingStore
  <2>2. \A c \in kept : h[c].data = c.data /\ h[c].static = c.static
    BY <1>1, MarkedKeeps
  <2>3. h \in [kept -> cs'] /\ \A e \in cs' : \E c \in kept : h[c] = e
    BY <2>1
  <2>4. IsFiniteSet(kept) /\ OnePerName(kept) /\ Limited(kept)
    BY LessStore DEF StoreInv
  <2> HIDE DEF h, kept
  <2>5. Changed(kept, cs')
    BY <2>2, <2>3 DEF Changed
  <2> QED
    BY <1>2, <2>4, <2>5, ChangedStore
<1> QED
  BY <1>3, <1>4, <1>5, <1>6, <1>7, StoreCases

(***************************************************************************)
(* The store keeps one content per name; it is over max_cache_entries by   *)
(* no more than one, and only where all else in it is static               *)
(* (ccnl_content_add2cache).                                               *)
(***************************************************************************)
THEOREM StoreIsBounded == Spec => []CacheBounded
<1>1. StoreInv => CacheBounded
  BY DEF StoreInv, OnePerName, Limited, CacheBounded
<1> QED
  BY <1>1, StoreInit, StoreStep, TypeCorrect, PTL DEF Spec
-----------------------------------------------------------------------------
(* One PIT entry per Interest *)

Keyed(entries) ==
  \A i, j \in entries : IsSame(i.pkt, j.pkt) /\ i.gen = j.gen => i = j

(* Entries that change, or go, and keep their Interest and their rank *)
SameKeys(old, new) ==
  \E h \in [old -> new] :
    /\ \A i \in old : h[i].pkt = i.pkt /\ h[i].gen = i.gen
    /\ \A j \in new : \E i \in old : h[i] = j

LEMMA IsSameSymmetric ==
  ASSUME NEW p, NEW q, IsSame(p, q)
  PROVE  IsSame(q, p)
BY SameNameSymmetric DEF IsSame

LEMMA IsSameReflexive ==
  ASSUME NEW p
  PROVE  IsSame(p, p)
BY SameNameReflexive DEF IsSame

LEMMA HopSame ==
  ASSUME NEW p \in Interest, NEW q, IsSame(q, Hop(p))
  PROVE  IsSame(q, p)
<1> DEFINE hp == Hop(p)
<1>1. DOMAIN p = {"name", "min", "max", "ppk", "mbf", "nonce", "scope", "hops", "life"}
  BY InterestAssumption
<1>2. hp.name = p.name /\ hp.min = p.min /\ hp.max = p.max /\ hp.ppk = p.ppk
  BY <1>1 DEF Hop
<1> HIDE DEF hp
<1>3. IsSame(q, hp)
  BY DEF hp
<1> QED
  BY <1>2, <1>3 DEF IsSame

LEMMA KeyedImage ==
  ASSUME NEW old, Keyed(old), NEW new, SameKeys(old, new)
  PROVE  Keyed(new)
<1> PICK h \in [old -> new] :
      /\ \A i \in old : h[i].pkt = i.pkt /\ h[i].gen = i.gen
      /\ \A j \in new : \E i \in old : h[i] = j
  BY DEF SameKeys
<1> SUFFICES ASSUME NEW i \in new, NEW j \in new, IsSame(i.pkt, j.pkt), i.gen = j.gen
             PROVE  i = j
  BY DEF Keyed
<1>1. PICK k \in old, m \in old : h[k] = i /\ h[m] = j
  OBVIOUS
<1>2. k = m
  BY <1>1 DEF Keyed
<1> QED
  BY <1>1, <1>2

(* An entry for another Interest, or of another rank, comes in *)
LEMMA KeyedAdd ==
  ASSUME NEW entries, Keyed(entries), NEW e,
         \A i \in entries : IsSame(i.pkt, e.pkt) => i.gen # e.gen
  PROVE  Keyed(entries \cup {e})
<1> SUFFICES ASSUME NEW i \in entries \cup {e}, NEW j \in entries \cup {e},
                    IsSame(i.pkt, j.pkt), i.gen = j.gen
             PROVE  i = j
  BY DEF Keyed
<1>1. IsSame(j.pkt, i.pkt)
  BY IsSameSymmetric
<1> QED
  BY <1>1 DEF Keyed

LEMMA KeyedCut ==
  ASSUME NEW entries, entries \subseteq Pending, Keyed(entries), NEW gone
  PROVE  Keyed(PitWithout(entries, gone))
<1> DEFINE new == PitWithout(entries, gone)
           left == {i \in entries : i.pending \ gone # {}}
           h == [i \in left |-> Cut(i, gone)]
<1>1. CASE gone = {}
  BY <1>1, PitWithoutCuts
<1>2. CASE gone # {}
  <2>1. \A j : j \in new <=> \E i \in entries : i.pending \ gone # {} /\ j = Cut(i, gone)
    BY <1>2, PitWithoutCuts
  <2>2. \A i \in left : Cut(i, gone).pkt = i.pkt /\ Cut(i, gone).gen = i.gen
    BY CutKeeps
  <2>3. Keyed(left)
    BY DEF Keyed
  <2> HIDE DEF new
  <2>4. h \in [left -> new] /\ \A j \in new : \E i \in left : h[i] = j
    BY <2>1
  <2>5. \A i \in left : h[i].pkt = i.pkt /\ h[i].gen = i.gen
    BY <2>2
  <2> HIDE DEF h, left
  <2>6. SameKeys(left, new)
    BY <2>4, <2>5 DEF SameKeys
  <2>7. Keyed(new)
    BY <2>3, <2>6, KeyedImage
  <2> QED
    BY <2>7 DEF new
<1> QED
  BY <1>1, <1>2

LEMMA KeyedStep == TypeOK /\ PitKeyed /\ [Next]_vars => PitKeyed'
<1> SUFFICES ASSUME TypeOK, Keyed(pit), [Next]_vars PROVE Keyed(pit')
  BY DEF PitKeyed, Keyed
<1>1. \A i \in pit : i \in Pending
  BY DEF TypeOK
<1>2. CASE pit' = pit
  BY <1>2
<1>3. ASSUME NEW f \in FaceId, NEW p \in Interest, JoinEntry(f, p)
      PROVE  Keyed(pit')
  <2>1. PICK i \in pit : pit' = (pit \ {i}) \cup {[i EXCEPT !.pending = @ \cup {f}]}
    BY <1>3 DEF JoinEntry
  <2> DEFINE e == [i EXCEPT !.pending = @ \cup {f}]
  <2>2. e.pkt = i.pkt /\ e.gen = i.gen
    BY <1>1 DEF Pending
  <2>3. pit' = (pit \ {i}) \cup {e}
    BY <2>1
  <2> HIDE DEF e
  <2>4. Keyed(pit \ {i})
    BY DEF Keyed
  <2>5. \A k \in pit \ {i} : IsSame(k.pkt, e.pkt) => k.gen # e.gen
    BY <2>2 DEF Keyed
  <2>6. Keyed((pit \ {i}) \cup {e})
    BY <2>4, <2>5, KeyedAdd
  <2> QED
    BY <2>3, <2>6
<1>4. ASSUME NEW f \in FaceId, NEW p \in Interest, CreateEntry(f, p)
      PROVE  Keyed(pit')
  <2> DEFINE e == [NewEntry(Hop(p), 1, f) EXCEPT !.pending = {f}]
  <2>1. pit' = pit \cup {e} /\ Twins(p) = {}
    BY <1>4 DEF CreateEntry
  <2>2. e.pkt = Hop(p)
    BY DEF NewEntry
  <2> HIDE DEF e
  <2>3. \A k \in pit : ~ IsSame(k.pkt, e.pkt)
    BY <2>1, <2>2, HopSame DEF Twins
  <2>4. Keyed(pit \cup {e})
    BY <2>3, KeyedAdd
  <2> QED
    BY <2>1, <2>4
<1>5. ASSUME NEW d, ServePending(d)
      PROVE  Keyed(pit')
  BY <1>5 DEF ServePending, Keyed
<1>6. ASSUME NEW f \in FaceId, NEW q \in LocalPeer, MgmtAddCacheObject(f, q)
      PROVE  Keyed(pit')
  <2>1. PICK n \in CacheName, g \in 1..MaxGen :
          /\ IsNextGen(g, CacheRequest(n))
          /\ pit' = pit \cup {NewEntry(CacheRequest(n), g, f)}
    BY <1>6 DEF MgmtAddCacheObject
  <2> DEFINE e == NewEntry(CacheRequest(n), g, f)
  <2>2. e.pkt = CacheRequest(n) /\ e.gen = g
    BY DEF NewEntry
  <2>3. \A k \in pit : IsSame(k.pkt, CacheRequest(n)) => k.gen < g
    BY <2>1 DEF IsNextGen, Twins
  <2>4. \A k \in pit : k.gen \in Nat
    BY <1>1, BoundsAssumption DEF Pending
  <2> HIDE DEF e
  <2>5. \A k \in pit : IsSame(k.pkt, e.pkt) => k.gen # e.gen
    BY <2>2, <2>3, <2>4
  <2>6. Keyed(pit \cup {e})
    BY <2>5, KeyedAdd
  <2> QED
    BY <2>1, <2>6 DEF e
<1>7. ASSUME NEW g, pit' = PitWithout(pit, {g})
      PROVE  Keyed(pit')
  BY <1>7, KeyedCut DEF TypeOK
<1>8. CASE Tick
  <2> DEFINE h == [i \in pit |-> [i EXCEPT !.age = Older(@)]]
  <2>1. pit' = {[i EXCEPT !.age = Older(@)] : i \in pit}
    BY <1>8 DEF Tick
  <2>2. h \in [pit -> pit'] /\ \A j \in pit' : \E i \in pit : h[i] = j
    BY <2>1
  <2>3. \A i \in pit : h[i].pkt = i.pkt /\ h[i].gen = i.gen
    BY <1>1, OlderKeeps
  <2> HIDE DEF h
  <2>4. SameKeys(pit, pit')
    BY <2>2, <2>3 DEF SameKeys
  <2> QED
    BY <2>4, KeyedImage
<1>9. CASE Ageing
  <2> DEFINE left == {j \in pit : ~ TimedOut(j)}
             h == [i \in left |-> [i EXCEPT !.retries = @ + 1]]
  <2>1. Retransmitted \subseteq Pending /\ pit' = PitWithout(Retransmitted, Idle)
    BY <1>9, AgeingType DEF Ageing
  <2>2. h \in [left -> Retransmitted] /\ \A j \in Retransmitted : \E i \in left : h[i] = j
    BY DEF Retransmitted
  <2>3. \A i \in left : h[i].pkt = i.pkt /\ h[i].gen = i.gen
    BY <1>1, RetriedKeeps
  <2>4. Keyed(left)
    BY DEF Keyed
  <2> HIDE DEF h, left
  <2>5. SameKeys(left, Retransmitted)
    BY <2>2, <2>3 DEF SameKeys
  <2>6. Keyed(Retransmitted)
    BY <2>4, <2>5, KeyedImage
  <2> QED
    BY <2>1, <2>6, KeyedCut
<1> QED
  BY <1>2, <1>3, <1>4, <1>5, <1>6, <1>7, <1>8, <1>9, PitCases

(***************************************************************************)
(* There is one PIT entry per Interest, whoever asks for it and in         *)
(* whichever order (ccnl_interest_isSame), but for those the command       *)
(* addcacheobject makes, which are told apart by their rank.               *)
(***************************************************************************)
THEOREM OneEntryPerInterest == Spec => []PitKeyed
<1>1. Init => PitKeyed
  BY DEF Init, PitKeyed
<1> QED
  BY <1>1, KeyedStep, TypeCorrect, PTL DEF Spec
-----------------------------------------------------------------------------
(* Why a face stops waiting *)

LEMMA CutWaits ==
  ASSUME NEW entries, entries \subseteq Pending, NEW gone,
         NEW i \in entries, NEW f \in i.pending, f \notin gone
  PROVE  \E j \in PitWithout(entries, gone) : j.pkt = i.pkt /\ f \in j.pending
<1>1. CASE gone = {}
  BY <1>1, PitWithoutCuts
<1>2. CASE gone # {}
  <2>1. i.pending \ gone # {}
    OBVIOUS
  <2>2. Cut(i, gone) \in PitWithout(entries, gone)
    BY <1>2, <2>1, PitWithoutCuts
  <2>3. Cut(i, gone).pkt = i.pkt /\ f \in Cut(i, gone).pending
    BY CutKeeps
  <2> QED
    BY <2>2, <2>3
<1> QED
  BY <1>1, <1>2

LEMMA NotForgottenStep ==
  ASSUME TypeOK, [Next]_vars, NEW i \in pit, NEW f \in i.pending
  PROVE  \/ \E j \in pit' : IsSame(i.pkt, j.pkt) /\ f \in j.pending
         \/ \E t \in txData' : t[1] = f /\ Answers(t[2], i.pkt)
         \/ lag' < lag /\ TimedOut(i)
         \/ f \notin DOMAIN faces'
<1> DEFINE Waits == \E j \in pit' : IsSame(i.pkt, j.pkt) /\ f \in j.pending
<1>1. \A j \in pit : j \in Pending
  BY DEF TypeOK
<1>2. ASSUME NEW j \in pit', j.pkt = i.pkt, f \in j.pending
      PROVE  Waits
  BY <1>2, IsSameReflexive
<1>3. CASE i \in pit'
  BY <1>2, <1>3
<1> HIDE DEF Waits
<1>4. ASSUME NEW g \in FaceId, NEW p \in Interest, JoinEntry(g, p) \/ CreateEntry(g, p)
      PROVE  Waits
  <2>1. CASE JoinEntry(g, p)
    <3>1. PICK k \in pit : pit' = (pit \ {k}) \cup {[k EXCEPT !.pending = @ \cup {g}]}
      BY <2>1 DEF JoinEntry
    <3>2. [k EXCEPT !.pending = @ \cup {g}].pkt = k.pkt
          /\ k.pending \subseteq [k EXCEPT !.pending = @ \cup {g}].pending
      BY <1>1 DEF Pending
    <3>3. CASE i = k
      BY <1>2, <3>1, <3>2, <3>3
    <3>4. CASE i # k
      BY <1>2, <3>1, <3>4
    <3> QED
      BY <3>3, <3>4
  <2>2. CASE CreateEntry(g, p)
    BY <1>2, <2>2 DEF CreateEntry
  <2> QED
    BY <1>4, <2>1, <2>2
<1>5. ASSUME NEW d, ServePending(d)
      PROVE  Waits \/ \E t \in txData' : t[1] = f /\ Answers(t[2], i.pkt)
  <2>1. CASE Answers(d, i.pkt)
    <3>1. i \in Answered(d)
      BY <2>1 DEF Answered
    <3>2. f \in Waiting(Answered(d))
      BY <3>1 DEF Waiting
    <3>3. <<f, d>> \in txData'
      BY <1>5, <3>2 DEF ServePending
    <3> QED
      BY <2>1, <3>3
  <2>2. CASE ~ Answers(d, i.pkt)
    BY <1>2, <1>5, <2>2 DEF ServePending, Answered
  <2> QED
    BY <2>1, <2>2
<1>6. ASSUME NEW g \in FaceId, NEW q \in LocalPeer, MgmtAddCacheObject(g, q)
      PROVE  Waits
  BY <1>2, <1>6 DEF MgmtAddCacheObject
<1>7. ASSUME NEW g, pit' = PitWithout(pit, {g}), f # g
      PROVE  Waits
  <2>1. \E j \in pit' : j.pkt = i.pkt /\ f \in j.pending
    BY <1>7, CutWaits DEF TypeOK
  <2> QED
    BY <1>2, <2>1
<1>8. CASE Tick
  <2>1. [i EXCEPT !.age = Older(@)] \in pit'
    BY <1>8 DEF Tick
  <2> QED
    BY <1>1, <1>2, <2>1, OlderKeeps DEF Waits
<1>9. CASE Ageing /\ ~ TimedOut(i) /\ f \in DOMAIN faces'
  <2> DEFINE r == [i EXCEPT !.retries = @ + 1]
  <2>1. Retransmitted \subseteq Pending /\ pit' = PitWithout(Retransmitted, Idle)
    BY <1>9, AgeingType DEF Ageing
  <2>2. f \notin Idle
    BY <1>9 DEF Ageing, FacesWithout
  <2>3. r \in Retransmitted
    BY <1>9 DEF Retransmitted
  <2>4. r.pkt = i.pkt /\ f \in r.pending
    BY <1>1, RetriedKeeps
  <2> HIDE DEF r
  <2>5. \E j \in pit' : j.pkt = r.pkt /\ f \in j.pending
    BY <2>1, <2>2, <2>3, <2>4, CutWaits
  <2> QED
    BY <1>2, <2>4, <2>5 DEF Waits
<1>10. CASE Ageing /\ TimedOut(i)
  BY <1>10 DEF Ageing
<1>11. CASE pit' = pit
  BY <1>3, <1>11 DEF Waits
<1> QED
  BY <1>4, <1>5, <1>6, <1>7, <1>8, <1>9, <1>10, <1>11, PitCases DEF Waits

(***************************************************************************)
(* A face stops waiting for one of three reasons: Data that answers it was *)
(* just sent to it, the entry timed out, or the face itself is gone.       *)
(***************************************************************************)
THEOREM NobodyIsForgotten == Spec => NotForgotten
<1> DEFINE A == \A i \in pit : \A f \in i.pending :
                  \/ \E j \in pit' : IsSame(i.pkt, j.pkt) /\ f \in j.pending
                  \/ \E t \in txData' : t[1] = f /\ Answers(t[2], i.pkt)
                  \/ lag' < lag /\ TimedOut(i)
                  \/ f \notin DOMAIN faces'
<1>1. TypeOK /\ [Next]_vars => [A]_vars
  BY NotForgottenStep
<1> HIDE DEF A
<1>2. Spec => [][A]_vars
  BY <1>1, TypeCorrect, PTL DEF Spec
<1> QED
  BY <1>2 DEF NotForgotten, A

-----------------------------------------------------------------------------
(***************************************************************************)
(* Theorems about the comparisons the PIT and the content store are        *)
(* searched with: for names of any number of components of any set, any    *)
(* bounds, and any size of the numbers.                                    *)
(***************************************************************************)
LEMMA SmallIsItself ==
  ASSUME NEW a \in Nat, a < Word
  PROVE  a % Word = a
BY WordAssumption

LEMMA SameNameIs ==
  ASSUME NEW n, NEW m
  PROVE  SameName(n, m) <=> n.comps = m.comps /\ n.chunk = m.chunk
BY DEF SameName, PrefixCmp, WithDigest

(* Where the digest is left out, or stands for the last component *)
LEMMA ExactIs ==
  ASSUME NEW md, NEW n, NEW m
  PROVE  PrefixCmp(n, md, m, "exact") >= 0 <=> WithDigest(n, md) = m.comps /\ n.chunk = m.chunk
<1>1. CASE WithDigest(n, md) = m.comps /\ n.chunk = m.chunk
  <2>1. PrefixCmp(n, md, m, "exact") = 0
    BY <1>1 DEF PrefixCmp
  <2> QED  BY <1>1, <2>1
<1>2. CASE ~ (WithDigest(n, md) = m.comps /\ n.chunk = m.chunk)
  <2>1. PrefixCmp(n, md, m, "exact") = -1
    BY <1>2 DEF PrefixCmp
  <2> QED  BY <1>2, <2>1
<1> QED  BY <1>1, <1>2

(***************************************************************************)
(* ccnl_i_prefixof_c accepts an Interest for the name of a Data packet     *)
(* with or without its digest, and no other, as the bounds on the suffix   *)
(* allow: it is no prefix match in general.                                *)
(***************************************************************************)
THEOREM PrefixOfIsExact ==
  ASSUME NEW Comp, NEW Key, asked \in InterestOver(Comp, Key), held \in DataOver(Comp, Key),
         NoOverflow(asked)
  PROVE  IPrefixOfC(asked, held) <=>
           /\ asked.name.comps \in {held.name.comps, FullName(held)}
           /\ asked.name.chunk = held.name.chunk
           /\ asked.min =< Open(asked, held) /\ Open(asked, held) =< asked.max
<1> DEFINE P == asked.name.comps
           H == held.name.comps
           x == held.digest
           chunks == held.name.chunk = asked.name.chunk
<1>1. /\ P \in Seq(Comp) /\ H \in Seq(Comp) /\ x \in Comp /\ x # NoValue
      /\ asked.min \in Nat /\ asked.max \in Nat
  BY WordAssumption DEF InterestOver, DataOver, NameOver
<1>2. /\ Len(P) \in Nat /\ Len(H) \in Nat
      /\ FullName(held) = Append(H, x) /\ Len(Append(H, x)) = Len(H) + 1
  BY <1>1 DEF FullName
<1>3. WithDigest(held.name, DigestFor(asked, held)) =
        IF Len(P) = Len(H) + 1 THEN Append(H, x) ELSE H
  BY <1>1 DEF WithDigest, DigestFor
<1>4. WithDigest(held.name, DigestFor(asked, held)) = P <=> P \in {H, Append(H, x)}
  <2>1. CASE Len(P) = Len(H) + 1
    <3>1. P # H
      BY <1>2, <2>1
    <3> QED  BY <1>3, <2>1, <3>1
  <2>2. CASE Len(P) # Len(H) + 1
    <3>1. P # Append(H, x)
      BY <1>2, <2>2
    <3> QED  BY <1>3, <2>2, <3>1
  <2> QED  BY <2>1, <2>2
<1>5. PrefixCmp(held.name, DigestFor(asked, held), asked.name, "exact") >= 0
        <=> P \in {H, Append(H, x)} /\ chunks
  BY <1>4, ExactIs
<1>6. SuffixOK(asked, held) <=> asked.min =< Open(asked, held) /\ Open(asked, held) =< asked.max
  <2>1. /\ Len(P) + asked.min \in Nat /\ Len(P) + asked.min < Word
        /\ Len(P) + asked.max \in Nat /\ Len(P) + asked.max < Word
    <3>1. Len(P) + asked.min < Word /\ Len(P) + asked.max < Word
      BY Zenon DEF NoOverflow
    <3>2. Len(P) \in Nat /\ asked.min \in Nat /\ asked.max \in Nat
      BY <1>1, <1>2
    <3> HIDE DEF P
    <3> QED  BY <3>1, <3>2
  <2>2. /\ (Len(P) + asked.min) % Word = Len(P) + asked.min
        /\ (Len(P) + asked.max) % Word = Len(P) + asked.max
    BY <2>1, SmallIsItself
  <2>3. Open(asked, held) = Len(H) + 1 - Len(P)
    BY <1>2 DEF Open
  <2> HIDE DEF P, H
  <2>4. /\ Len(P) + asked.min =< Len(H) + 1 <=> asked.min =< Len(H) + 1 - Len(P)
        /\ Len(P) + asked.max >= Len(H) + 1 <=> Len(H) + 1 - Len(P) =< asked.max
    BY <1>1, <1>2
  <2> QED  BY <2>2, <2>3, <2>4 DEF SuffixOK, P, H
<1> QED  BY <1>2, <1>5, <1>6 DEF IPrefixOfC

(***************************************************************************)
(* What ccnl_i_prefixof_c accepts is a prefix match within the bounds on   *)
(* the suffix, and it accepts all that leave open no more than the digest. *)
(***************************************************************************)
THEOREM PrefixUpToDigest ==
  ASSUME NEW Comp, NEW Key, asked \in InterestOver(Comp, Key), held \in DataOver(Comp, Key)
  PROVE  MatchesAsPrefix
<1> SUFFICES ASSUME NoOverflow(asked)
             PROVE  /\ IPrefixOfC(asked, held) => PrefixMatch(asked, held)
                    /\ PrefixMatch(asked, held) /\ Open(asked, held) =< 1
                         => IPrefixOfC(asked, held)
  BY DEF MatchesAsPrefix
<1> DEFINE P == asked.name.comps
           H == held.name.comps
           F == Append(H, held.digest)
<1>1. P \in Seq(Comp) /\ H \in Seq(Comp) /\ held.digest \in Comp
  BY DEF InterestOver, DataOver, NameOver
<1>2. /\ Len(P) \in Nat /\ Len(H) \in Nat /\ FullName(held) = F /\ F \in Seq(Comp)
      /\ Len(F) = Len(H) + 1 /\ \A k \in 1..Len(H) : F[k] = H[k]
  BY <1>1 DEF FullName
<1>3. Open(asked, held) = Len(H) + 1 - Len(P)
  BY <1>2 DEF Open
<1> HIDE DEF P, H, F
<1>4. ASSUME P \in {H, F}
      PROVE  Agree(P, F, Len(P))
  BY <1>2, <1>4 DEF Agree
<1>5. ASSUME Agree(P, F, Len(P)), Len(H) + 1 - Len(P) =< 1
      PROVE  P \in {H, F}
  <2>1. Len(P) =< Len(F) /\ \A k \in 1..Len(P) : P[k] = F[k]
    BY <1>5 DEF Agree
  <2>2. CASE Len(P) = Len(H) + 1
    BY <1>1, <1>2, <2>1, <2>2, SeqEqual
  <2>3. CASE Len(P) = Len(H)
    BY <1>1, <1>2, <2>1, <2>3, SeqEqual
  <2> QED  BY <1>2, <1>5, <2>1, <2>2, <2>3
<1>6. IPrefixOfC(asked, held) <=>
        P \in {H, F} /\ asked.name.chunk = held.name.chunk
        /\ asked.min =< Open(asked, held) /\ Open(asked, held) =< asked.max
  BY <1>2, PrefixOfIsExact DEF P, H
<1>7. PrefixMatch(asked, held) <=>
        Agree(P, F, Len(P)) /\ asked.name.chunk = held.name.chunk
        /\ asked.min =< Open(asked, held) /\ Open(asked, held) =< asked.max
  BY <1>2 DEF PrefixMatch, P
<1> QED  BY <1>3, <1>4, <1>5, <1>6, <1>7

(***************************************************************************)
(* Interests that ccnl_interest_isSame takes for one are answered by the   *)
(* same Data packets, whether pending or looked up in the content store.   *)
(***************************************************************************)
THEOREM SameIsAnsweredAlike ==
  ASSUME NEW Comp, NEW Key, asked \in InterestOver(Comp, Key),
         again \in InterestOver(Comp, Key), held \in DataOver(Comp, Key)
  PROVE  AggregationSound
<1> SUFFICES ASSUME IsSame(asked, again)
             PROVE  LET c == [data |-> held, stale |-> FALSE] IN
                      /\ Answers(held, asked) = Answers(held, again)
                      /\ CMatch(asked, c) = CMatch(again, c)
  BY DEF AggregationSound
<1> DEFINE c == [data |-> held, stale |-> FALSE]
<1>1. /\ asked.name.suite = again.name.suite
      /\ asked.name.comps = again.name.comps /\ asked.name.chunk = again.name.chunk
  BY SameNameIs DEF IsSame
<1>2. asked.name.suite # "ccntlv" =>
        asked.min = again.min /\ asked.max = again.max /\ asked.ppk = again.ppk
  BY DEF IsSame
<1>3. asked.name = again.name
  <2>1. asked.name \in NameOver(Comp) /\ again.name \in NameOver(Comp)
    BY DEF InterestOver
  <2> QED  BY <1>1, <2>1 DEF NameOver
<1>4. Answers(held, asked) = Answers(held, again)
  <2>1. CASE asked.name.suite = "ccntlv"
    BY <1>3, <2>1 DEF Answers
  <2>2. CASE asked.name.suite # "ccntlv"
    BY <1>2, <1>3, <2>2 DEF Answers, IPrefixOfC, SuffixOK, DigestFor
  <2> QED  BY <2>1, <2>2
<1>5. c.data = held /\ c.stale = FALSE
  OBVIOUS
<1>6. CMatch(asked, c) = CMatch(again, c)
  <2> HIDE DEF c
  <2>1. /\ CMatch(asked, c) <=> (/\ held.name.suite = asked.name.suite /\ Answers(held, asked)
                                 /\ asked.name.suite = "ccnb" /\ asked.ppk # NoValue => held.ppk = asked.ppk)
        /\ CMatch(again, c) <=> (/\ held.name.suite = again.name.suite /\ Answers(held, again)
                                 /\ again.name.suite = "ccnb" /\ again.ppk # NoValue => held.ppk = again.ppk)
    BY <1>5 DEF CMatch
  <2>2. CMatch(asked, c) <=> CMatch(again, c)
    BY <1>2, <1>3, <1>4, <2>1
  <2> QED  BY <2>2 DEF CMatch
<1> QED  BY <1>4, <1>6
=============================================================================
