--------------------------- MODULE Control_proofs ---------------------------
(***************************************************************************)
(* What module Control promises its users, for every number of runs of the *)
(* program, every set of commands and every size: theorems                 *)
(* FaceIdsStand and CommandsMeanWhatTheySay.                               *)
(*                                                                         *)
(* The fields of a request are looked up by their tags: the first section  *)
(* says what is found in a sequence of fields put together from others.    *)
(***************************************************************************)
EXTENDS Control, WellFoundedInduction, SequenceTheorems, TLAPS

(* A sequence, of whatever *)
IsSeq(s) == \E S : s \in Seq(S)

Has(s, tag) == \E k \in DOMAIN s : s[k].tag = tag
At(s, tag) == {k \in DOMAIN s : s[k].tag = tag}
Val(s, tag) == Extract([fields |-> s], tag)

LEMMA ExtractIsVal ==
  ASSUME NEW rq, NEW tag
  PROVE  Extract(rq, tag) = Val(rq.fields, tag)
BY DEF Extract, Val

LEMMA MaxIsOne ==
  ASSUME NEW n \in Nat, NEW A \in SUBSET (1..n), A # {}
  PROVE  Max(A) \in A /\ \A k \in A : k =< Max(A)
<1> DEFINE Bounds == {b \in Nat : \A k \in A : k =< b}
<1>1. n \in Bounds /\ Bounds \subseteq Nat
  OBVIOUS
<1>2. PICK m \in Bounds : \A b \in Bounds : ~ (<<b, m>> \in OpToRel(<, Nat))
  BY <1>1, WFMin, NatLessThanWellFounded
<1>3. \A b \in Bounds : ~ (b < m)
  BY <1>1, <1>2 DEF OpToRel
<1>4. m \in A
  <2>1. SUFFICES ASSUME m \notin A  PROVE FALSE
    OBVIOUS
  <2>2. PICK k \in A : TRUE
    OBVIOUS
  <2>3. m - 1 \in Nat
    BY <2>2
  <2>4. \A j \in A : j =< m - 1
    BY <2>1, <2>3
  <2> QED  BY <1>3, <2>3, <2>4
<1>5. \A k \in A : k =< m
  BY <1>2
<1>6. \A k \in A : k \in Int
  OBVIOUS
<1>7. \A k \in A : m >= k
  BY <1>4, <1>5, <1>6
<1>8. Max(A) \in A /\ \A k \in A : Max(A) >= k
  BY <1>4, <1>7 DEF Max
<1> QED  BY <1>6, <1>8

LEMMA ValIs ==
  ASSUME NEW s, IsSeq(s), NEW tag
  PROVE  /\ ~ Has(s, tag) => Val(s, tag) = None
         /\ \A m \in At(s, tag) : (\A k \in At(s, tag) : k =< m) => Val(s, tag) = s[m].val
         /\ Has(s, tag) => \E m \in At(s, tag) : \A k \in At(s, tag) : k =< m
<1>1. /\ Len(s) \in Nat /\ DOMAIN s = 1..Len(s)
  BY DEF IsSeq
<1>2. Val(s, tag) = IF At(s, tag) = {} THEN None ELSE s[Max(At(s, tag))].val
  BY DEF Val, Extract, At
<1>3. Has(s, tag) <=> At(s, tag) # {}
  BY DEF Has, At
<1>4. At(s, tag) \in SUBSET (1..Len(s))
  BY <1>1 DEF At
<1>5. At(s, tag) # {} => Max(At(s, tag)) \in At(s, tag) /\ \A k \in At(s, tag) : k =< Max(At(s, tag))
  BY <1>1, <1>4, MaxIsOne
<1>6. \A m \in At(s, tag) : (\A k \in At(s, tag) : k =< m) => m = Max(At(s, tag))
  <2> DEFINE A == At(s, tag)
  <2>1. A \in SUBSET (1..Len(s)) /\ (A # {} => Max(A) \in A /\ \A k \in A : k =< Max(A))
    BY <1>4, <1>5
  <2> HIDE DEF A
  <2>2. ASSUME NEW m \in A, \A k \in A : k =< m
        PROVE  m = Max(A)
    <3>1. Max(A) \in A /\ m =< Max(A) /\ Max(A) =< m
      BY <2>1, <2>2
    <3>2. m \in 1..Len(s) /\ Max(A) \in 1..Len(s)
      BY <2>1, <3>1, Zenon
    <3> QED  BY <1>1, <3>1, <3>2
  <2> QED  BY <2>2 DEF A
<1> QED  BY <1>2, <1>3, <1>5, <1>6

LEMMA Concatenated ==
  ASSUME NEW s, NEW t, IsSeq(s), IsSeq(t)
  PROVE  /\ IsSeq(s \o t)
         /\ Len(s) \in Nat /\ Len(t) \in Nat
         /\ DOMAIN s = 1..Len(s) /\ DOMAIN t = 1..Len(t)
         /\ Len(s \o t) = Len(s) + Len(t) /\ DOMAIN (s \o t) = 1..Len(s) + Len(t)
         /\ \A k \in 1..Len(s) : (s \o t)[k] = s[k]
         /\ \A k \in 1..Len(t) : (s \o t)[Len(s) + k] = t[k]
<1>1. PICK S : s \in Seq(S)
  BY DEF IsSeq
<1>2. PICK T : t \in Seq(T)
  BY DEF IsSeq
<1>3. s \in Seq(S \cup T) /\ t \in Seq(S \cup T)
  BY <1>1, <1>2
<1> HIDE DEF IsSeq
<1>4. s \o t \in Seq(S \cup T)
  BY <1>3
<1>5. IsSeq(s \o t)
  BY <1>4 DEF IsSeq
<1> QED  BY <1>3, <1>4, <1>5

LEMMA ValOfBoth ==
  ASSUME NEW s, NEW t, IsSeq(s), IsSeq(t), NEW tag
  PROVE  /\ IsSeq(s \o t)
         /\ Has(s \o t, tag) <=> Has(s, tag) \/ Has(t, tag)
         /\ Val(s \o t, tag) = IF Has(t, tag) THEN Val(t, tag) ELSE Val(s, tag)
<1> DEFINE u == s \o t
<1>1. /\ IsSeq(u)
      /\ Len(s) \in Nat /\ Len(t) \in Nat
      /\ DOMAIN s = 1..Len(s) /\ DOMAIN t = 1..Len(t) /\ DOMAIN u = 1..Len(s) + Len(t)
      /\ \A k \in 1..Len(s) : u[k] = s[k]
      /\ \A k \in 1..Len(t) : u[Len(s) + k] = t[k]
  BY Concatenated
<1> HIDE DEF u
<1>2. \A k \in DOMAIN u : k \in 1..Len(s) \/ (k - Len(s) \in 1..Len(t) /\ k = Len(s) + (k - Len(s)))
  BY <1>1
<1>3. \A k \in At(s, tag) : k \in At(u, tag) /\ u[k] = s[k]
  BY <1>1 DEF At
<1>4. \A k \in At(t, tag) : Len(s) + k \in At(u, tag) /\ u[Len(s) + k] = t[k] /\ k \in 1..Len(t)
  BY <1>1 DEF At
<1>5. \A k \in At(u, tag) : k \in At(s, tag) \/ (k - Len(s) \in At(t, tag) /\ k = Len(s) + (k - Len(s)))
  <2>1. ASSUME NEW k \in At(u, tag), k \in 1..Len(s)
        PROVE  k \in At(s, tag)
    BY <1>1, <2>1 DEF At
  <2>2. ASSUME NEW k \in At(u, tag), k - Len(s) \in 1..Len(t), k = Len(s) + (k - Len(s))
        PROVE  k - Len(s) \in At(t, tag)
    BY <1>1, <2>2 DEF At
  <2> QED  BY <1>2, <2>1, <2>2 DEF At
<1>6. Has(s, tag) <=> At(s, tag) # {}
  BY DEF Has, At
<1>7. Has(t, tag) <=> At(t, tag) # {}
  BY DEF Has, At
<1>8. Has(u, tag) <=> At(u, tag) # {}
  BY DEF Has, At
<1>9. Has(u, tag) <=> Has(s, tag) \/ Has(t, tag)
  BY <1>3, <1>4, <1>5, <1>6, <1>7, <1>8
<1>10. ASSUME Has(t, tag)
       PROVE  Val(u, tag) = Val(t, tag)
  <2>1. PICK m \in At(t, tag) : \A k \in At(t, tag) : k =< m
    BY <1>10, ValIs
  <2>2. Val(t, tag) = t[m].val
    BY <2>1, ValIs
  <2>3. m \in 1..Len(t) /\ Len(s) + m \in At(u, tag) /\ u[Len(s) + m] = t[m]
    BY <1>4
  <2>4. \A k \in At(u, tag) : k =< Len(s) + m
    <3>1. ASSUME NEW k \in At(u, tag), k \in At(s, tag)
          PROVE  k =< Len(s) + m
      <4>1. k \in 1..Len(s)
        BY <1>1, <3>1 DEF At
      <4> QED  BY <1>1, <2>3, <4>1
    <3>2. ASSUME NEW k \in At(u, tag), k - Len(s) \in At(t, tag), k = Len(s) + (k - Len(s))
          PROVE  k =< Len(s) + m
      <4>1. k - Len(s) \in 1..Len(t) /\ k - Len(s) =< m
        BY <1>4, <2>1, <3>2
      <4> QED  BY <1>1, <2>3, <3>2, <4>1
    <3> QED  BY <1>5, <3>1, <3>2
  <2> QED  BY <1>1, <2>2, <2>3, <2>4, ValIs
<1>11. ASSUME ~ Has(t, tag), Has(s, tag)
       PROVE  Val(u, tag) = Val(s, tag)
  <2>1. PICK m \in At(s, tag) : \A k \in At(s, tag) : k =< m
    BY <1>11, ValIs
  <2>2. Val(s, tag) = s[m].val
    BY <2>1, ValIs
  <2>3. m \in At(u, tag) /\ u[m] = s[m]
    BY <1>3
  <2>4. \A k \in At(u, tag) : k =< m
    BY <1>5, <1>7, <1>11, <2>1
  <2> QED  BY <1>1, <2>2, <2>3, <2>4, ValIs
<1>12. ASSUME ~ Has(t, tag), ~ Has(s, tag)
       PROVE  Val(u, tag) = Val(s, tag)
  BY <1>1, <1>9, <1>12, ValIs
<1> QED  BY <1>1, <1>9, <1>10, <1>11, <1>12 DEF u

LEMMA ValOfOne ==
  ASSUME NEW t, NEW v, NEW tag
  PROVE  /\ IsSeq(F(t, v)) /\ IsSeq(Given(t, v)) /\ IsSeq(<<>>)
         /\ Has(F(t, v), tag) <=> t = tag
         /\ Val(F(t, v), t) = v
         /\ Has(Given(t, v), tag) <=> t = tag /\ v # None
         /\ Val(Given(t, v), t) = v
         /\ ~ Has(<<>>, tag) /\ Val(<<>>, tag) = None
<1>1. IsSeq(<<>>) /\ ~ Has(<<>>, tag)
  <2>1. <<>> \in Seq({})
    OBVIOUS
  <2> QED  BY <2>1 DEF IsSeq, Has
<1>2. Val(<<>>, tag) = None
  BY <1>1, ValIs
<1>2a. Val(<<>>, t) = None
  <2>1. ~ Has(<<>>, t)
    BY DEF Has
  <2> QED  BY <1>1, <2>1, ValIs
<1>3. /\ F(t, v) \in Seq({[tag |-> t, val |-> v]})
      /\ DOMAIN F(t, v) = {1} /\ F(t, v)[1].tag = t /\ F(t, v)[1].val = v
  BY DEF F
<1>4. IsSeq(F(t, v))
  BY <1>3 DEF IsSeq
<1>5. Has(F(t, v), tag) <=> t = tag
  BY <1>3 DEF Has
<1>6. At(F(t, v), t) = {1}
  BY <1>3 DEF At
<1>7. Val(F(t, v), t) = v
  BY <1>3, <1>4, <1>6, ValIs
<1> QED  BY <1>1, <1>2, <1>2a, <1>4, <1>5, <1>7 DEF Given

(* A field is added to others. *)
LEMMA AddF ==
  ASSUME NEW s, IsSeq(s), NEW t, NEW v
  PROVE  /\ IsSeq(s \o F(t, v))
         /\ Val(s \o F(t, v), t) = v
         /\ \A tag : tag # t => /\ Val(s \o F(t, v), tag) = Val(s, tag)
                                /\ Has(s \o F(t, v), tag) <=> Has(s, tag)
<1>1. /\ IsSeq(F(t, v)) /\ Has(F(t, v), t) /\ Val(F(t, v), t) = v
      /\ \A tag : tag # t => ~ Has(F(t, v), tag)
  BY ValOfOne
<1> QED  BY <1>1, ValOfBoth

LEMMA AddGiven ==
  ASSUME NEW s, IsSeq(s), NEW t, NEW v
  PROVE  /\ IsSeq(s \o Given(t, v))
         /\ ~ Has(s, t) => Val(s \o Given(t, v), t) = v
         /\ \A tag : tag # t => /\ Val(s \o Given(t, v), tag) = Val(s, tag)
                                /\ Has(s \o Given(t, v), tag) <=> Has(s, tag)
<1>1. ~ Has(s, t) => Val(s, t) = None
  BY ValIs
<1>2. /\ IsSeq(Given(t, v)) /\ (Has(Given(t, v), t) <=> v # None) /\ Val(Given(t, v), t) = v
      /\ \A tag : tag # t => ~ Has(Given(t, v), tag)
  BY ValOfOne
<1> QED  BY <1>1, <1>2, ValOfBoth

(* ACTION comes before the other fields of a request. *)
LEMMA AfterAction ==
  ASSUME NEW cmd, NEW stmt, NEW s, IsSeq(s)
  PROVE  LET rq == Request(cmd, stmt, s) IN
         /\ rq.cmd = cmd /\ rq.stmt = stmt /\ IsSeq(rq.fields)
         /\ \A tag : tag # "ACTION" => Val(rq.fields, tag) = Val(s, tag)
<1>1. /\ IsSeq(F("ACTION", cmd))
      /\ \A tag : tag # "ACTION" => ~ Has(F("ACTION", cmd), tag)
  BY ValOfOne
<1>2. \A tag : tag # "ACTION" => Val(F("ACTION", cmd), tag) = None
  BY <1>1, ValIs
<1>3. \A tag : ~ Has(s, tag) => Val(s, tag) = None
  BY ValIs
<1>4. /\ IsSeq(F("ACTION", cmd) \o s)
      /\ \A tag : tag # "ACTION" => Val(F("ACTION", cmd) \o s, tag) = Val(s, tag)
  BY <1>1, <1>2, <1>3, ValOfBoth
<1> QED  BY <1>4 DEF Request

LEMMA FaceFieldsAre ==
  ASSUME NEW ip4src, NEW ip6src, NEW host, NEW port
  PROVE  LET s == FaceFields(ip4src, ip6src, host, port) IN
         /\ IsSeq(s) /\ Val(s, "HOST") = host /\ Val(s, "PORT") = port
         /\ \A tag : tag \notin {"IP4SRC", "IPPROTO", "IP6SRC", "HOST", "PORT"} => ~ Has(s, tag)
<1> DEFINE proto(ip) == IF ip = None THEN <<>> ELSE F("IPPROTO", 17)
           s1 == Given("IP4SRC", ip4src)
           s2 == s1 \o proto(ip4src)
           s3 == s2 \o Given("IP6SRC", ip6src)
           s4 == s3 \o proto(ip6src)
           s5 == s4 \o Given("HOST", host)
           s6 == s5 \o Given("PORT", port)
           Others == {"IP4SRC", "IPPROTO", "IP6SRC"}
<1>1. ASSUME NEW ip
      PROVE  IsSeq(proto(ip)) /\ \A tag : tag \notin Others => ~ Has(proto(ip), tag)
  <2>1. IsSeq(<<>>) /\ \A tag : ~ Has(<<>>, tag)
    BY ValOfOne
  <2>2. IsSeq(F("IPPROTO", 17)) /\ \A tag : tag # "IPPROTO" => ~ Has(F("IPPROTO", 17), tag)
    BY ValOfOne
  <2>3. proto(ip) \in {<<>>, F("IPPROTO", 17)}
    OBVIOUS
  <2> QED  BY <2>1, <2>2, <2>3
<1>2. IsSeq(s1) /\ \A tag : tag \notin Others => ~ Has(s1, tag)
  BY ValOfOne
<1> HIDE DEF proto, s1
<1>3. IsSeq(s2) /\ \A tag : tag \notin Others => ~ Has(s2, tag)
  BY <1>1, <1>2, ValOfBoth
<1> HIDE DEF s2
<1>4. IsSeq(s3) /\ \A tag : tag \notin Others => ~ Has(s3, tag)
  BY <1>3, AddGiven
<1> HIDE DEF s3
<1>5. IsSeq(s4) /\ \A tag : tag \notin Others => ~ Has(s4, tag)
  BY <1>1, <1>4, ValOfBoth
<1> HIDE DEF s4
<1>6. /\ IsSeq(s5) /\ Val(s5, "HOST") = host
      /\ \A tag : tag \notin Others \cup {"HOST"} => ~ Has(s5, tag)
  BY <1>5, AddGiven
<1> HIDE DEF s5
<1>7. /\ IsSeq(s6) /\ Val(s6, "HOST") = host /\ Val(s6, "PORT") = port
      /\ \A tag : tag \notin Others \cup {"HOST", "PORT"} => ~ Has(s6, tag)
  BY <1>6, AddGiven
<1>8. FaceFields(ip4src, ip6src, host, port) = s6
  BY DEF FaceFields, proto, s1, s2, s3, s4, s5
<1> QED  BY <1>7, <1>8

LEMMA NewFaceRequestIs ==
  ASSUME NEW ip4src, NEW ip6src, NEW wpan, NEW host, NEW port, NEW flags
  PROVE  LET rq == mkNewFaceRequest(None, ip4src, ip6src, wpan, host, port, flags) IN
         /\ rq.cmd = "newface" /\ rq.stmt = "FACEINSTANCE"
         /\ Extract(rq, "HOST") = host /\ Extract(rq, "PORT") = port
         /\ Extract(rq, "UNIXSRC") = None /\ Extract(rq, "FACEFLAGS") = flags
<1> DEFINE s1 == FaceFields(ip4src, ip6src, host, port)
           s2 == s1 \o Given("WPANADR", wpan)
           s3 == s2 \o Given("WPANPANID", wpan)
           s4 == s3 \o F("FACEFLAGS", flags)
           rq == Request("newface", "FACEINSTANCE", s4)
<1>1. /\ IsSeq(s1) /\ Val(s1, "HOST") = host /\ Val(s1, "PORT") = port
      /\ ~ Has(s1, "UNIXSRC")
  BY FaceFieldsAre
<1>2. Val(s1, "UNIXSRC") = None
  BY <1>1, ValIs
<1> HIDE DEF s1
<1>3. IsSeq(s2) /\ Val(s2, "HOST") = host /\ Val(s2, "PORT") = port /\ Val(s2, "UNIXSRC") = None
  BY <1>1, <1>2, AddGiven
<1> HIDE DEF s2
<1>4. IsSeq(s3) /\ Val(s3, "HOST") = host /\ Val(s3, "PORT") = port /\ Val(s3, "UNIXSRC") = None
  BY <1>3, AddGiven
<1> HIDE DEF s3
<1>5. /\ IsSeq(s4) /\ Val(s4, "HOST") = host /\ Val(s4, "PORT") = port /\ Val(s4, "UNIXSRC") = None
      /\ Val(s4, "FACEFLAGS") = flags
  BY <1>4, AddF
<1> HIDE DEF s4
<1>6. /\ rq.cmd = "newface" /\ rq.stmt = "FACEINSTANCE"
      /\ \A tag : tag # "ACTION" => Extract(rq, tag) = Val(s4, tag)
  BY <1>5, AfterAction, ExtractIsVal
<1>7. mkNewFaceRequest(None, ip4src, ip6src, wpan, host, port, flags) = rq
  BY DEF mkNewFaceRequest, s1, s2, s3, s4
<1> HIDE DEF rq
<1> QED  BY <1>5, <1>6, <1>7

LEMMA NewUNIXFaceRequestIs ==
  ASSUME NEW a
  PROVE  LET rq == mkNewUNIXFaceRequest(a) IN
         /\ rq.cmd = "newface" /\ rq.stmt = "FACEINSTANCE"
         /\ Extract(rq, "HOST") = None /\ Extract(rq, "UNIXSRC") = a.host
         /\ Extract(rq, "FACEFLAGS") = a.flags
<1> DEFINE s1 == F("UNIXSRC", a.host)
           s2 == s1 \o F("FACEFLAGS", a.flags)
<1>1. IsSeq(s1) /\ Val(s1, "UNIXSRC") = a.host /\ ~ Has(s1, "HOST")
  BY ValOfOne
<1>2. Val(s1, "HOST") = None
  BY <1>1, ValIs
<1> HIDE DEF s1
<1>3. /\ IsSeq(s2) /\ Val(s2, "UNIXSRC") = a.host /\ Val(s2, "HOST") = None
      /\ Val(s2, "FACEFLAGS") = a.flags
  BY <1>1, <1>2, AddF
<1> QED  BY <1>3, AfterAction, ExtractIsVal DEF mkNewUNIXFaceRequest, s1

LEMMA DestroyFaceRequestIs ==
  ASSUME NEW a
  PROVE  LET rq == mkDestroyFaceRequest(a) IN
         rq.cmd = "destroyface" /\ rq.stmt = "FACEINSTANCE" /\ Extract(rq, "FACEID") = a.face
<1>1. IsSeq(F("FACEID", a.face)) /\ Val(F("FACEID", a.face), "FACEID") = a.face
  BY ValOfOne
<1> QED  BY <1>1, AfterAction, ExtractIsVal DEF mkDestroyFaceRequest

LEMMA DebugRequestIs ==
  ASSUME NEW a
  PROVE  LET rq == mkDebugRequest(a) IN
         rq.cmd = "debug" /\ rq.stmt = "DEBUGREQUEST" /\ Extract(rq, "DEBUGACTION") = a.what
<1>1. IsSeq(F("DEBUGACTION", a.what)) /\ Val(F("DEBUGACTION", a.what), "DEBUGACTION") = a.what
  BY ValOfOne
<1> QED  BY <1>1, AfterAction, ExtractIsVal DEF mkDebugRequest

LEMMA PrefixregRequestIs ==
  ASSUME NEW cmd, NEW a
  PROVE  LET rq == mkPrefixregRequest(cmd, a) IN
         /\ rq.cmd = cmd /\ rq.stmt = "FWDINGENTRY"
         /\ Extract(rq, "NAME") = WireComps(a.comps, a.suite)
         /\ Extract(rq, "FACEID") = a.face /\ Extract(rq, "SUITE") = a.suite
<1> DEFINE s1 == F("NAME", WireComps(a.comps, a.suite))
           s2 == s1 \o F("FACEID", a.face)
           s3 == s2 \o F("SUITE", a.suite)
<1>1. IsSeq(s1) /\ Val(s1, "NAME") = WireComps(a.comps, a.suite)
  BY ValOfOne
<1> HIDE DEF s1
<1>2. IsSeq(s2) /\ Val(s2, "NAME") = WireComps(a.comps, a.suite) /\ Val(s2, "FACEID") = a.face
  BY <1>1, AddF
<1> HIDE DEF s2
<1>3. /\ IsSeq(s3) /\ Val(s3, "NAME") = WireComps(a.comps, a.suite) /\ Val(s3, "FACEID") = a.face
      /\ Val(s3, "SUITE") = a.suite
  BY <1>2, AddF
<1> QED  BY <1>3, AfterAction, ExtractIsVal DEF mkPrefixregRequest, s1, s2

LEMMA RemoveRequestIs ==
  ASSUME NEW a
  PROVE  LET rq == mkRemoveFormRelayCacheRequest(a) IN
         /\ rq.cmd = "removecacheobject" /\ rq.stmt = "CONTENT"
         /\ Extract(rq, "NAME") = a.comps
BY ValOfOne, ExtractIsVal DEF mkRemoveFormRelayCacheRequest

LEMMA AddRequestIs ==
  ASSUME NEW a
  PROVE  LET rq == mkAddToRelayCacheRequest(a) IN
         /\ rq.cmd = "addcacheobject" /\ rq.stmt = "CONTENTOBJ"
         /\ NameAsked(rq).suite = a.name.suite /\ NameAsked(rq).comps = a.name.comps
         /\ NameAsked(rq).chunk = a.name.chunk
<1> DEFINE chunk == a.name.chunk
           num == IF chunk = None THEN 0 ELSE chunk
           s1 == F("SUITE", a.name.suite)
           s2 == s1 \o F("CHUNKNUM", num)
           s3 == s2 \o F("CHUNKFLAG", chunk # None)
           s4 == s3 \o F("COMPONENT", a.name.comps)
           rq == mkAddToRelayCacheRequest(a)
<1>1. IsSeq(s1) /\ Val(s1, "SUITE") = a.name.suite
  BY ONLY ValOfOne, Zenon
<1> HIDE DEF s1, num
<1>2. IsSeq(s2) /\ Val(s2, "SUITE") = a.name.suite /\ Val(s2, "CHUNKNUM") = num
  BY <1>1, AddF
<1> HIDE DEF s2
<1>3. /\ IsSeq(s3) /\ Val(s3, "SUITE") = a.name.suite /\ Val(s3, "CHUNKNUM") = num
      /\ Val(s3, "CHUNKFLAG") = (chunk # None)
  BY <1>2, AddF
<1> HIDE DEF s3
<1>4. /\ Val(s4, "SUITE") = a.name.suite /\ Val(s4, "CHUNKNUM") = num
      /\ Val(s4, "CHUNKFLAG") = (chunk # None) /\ Val(s4, "COMPONENT") = a.name.comps
  BY <1>3, AddF
<1>5. rq.cmd = "addcacheobject" /\ rq.stmt = "CONTENTOBJ" /\ rq.fields = s4
  BY DEF mkAddToRelayCacheRequest, s1, s2, s3, num
<1> HIDE DEF s4, rq, chunk
<1>6. NameAsked(rq) = [suite |-> a.name.suite, comps |-> a.name.comps,
                       chunk |-> IF chunk # None THEN num ELSE None]
  BY <1>4, <1>5, ExtractIsVal DEF NameAsked
<1>7. (IF chunk # None THEN num ELSE None) = chunk
  BY DEF num
<1> QED  BY <1>5, <1>6, <1>7 DEF rq, chunk

-----------------------------------------------------------------------------
(***************************************************************************)
(* The relay's tables.  A face id is given once: the faces whose numbers   *)
(* are not new are those that were there.                                  *)
(***************************************************************************)
RelayOK(r) ==
  /\ DOMAIN r = {"ifs", "faces", "fib", "pit", "cs", "seqno", "halted"}
  /\ r.seqno \in Nat
  /\ DOMAIN r.faces \subseteq 1..r.seqno
  /\ \A route \in DOMAIN r.fib : route.face \in DOMAIN r.faces

Keeps(r, s) ==
  /\ RelayOK(s) /\ r.seqno =< s.seqno
  /\ \A f \in DOMAIN s.faces : f =< r.seqno => f \in DOMAIN r.faces /\ s.faces[f] = r.faces[f]

(* What a user was told of a face: the number stays the peer's. *)
Names(r, id, host, port) ==
  /\ id \in 1..r.seqno
  /\ id \in DOMAIN r.faces => r.faces[id].host = host /\ r.faces[id].port = port

LEMMA KeepsNames ==
  ASSUME NEW r, NEW s, RelayOK(r), Keeps(r, s), NEW id, NEW host, NEW port, Names(r, id, host, port)
  PROVE  Names(s, id, host, port)
BY DEF RelayOK, Keeps, Names

LEMMA KeepsTransitive ==
  ASSUME NEW r, NEW s, NEW t, RelayOK(r), Keeps(r, s), Keeps(s, t)
  PROVE  Keeps(r, t)
<1>1. /\ RelayOK(t) /\ r.seqno =< t.seqno
  BY DEF RelayOK, Keeps
<1>2. ASSUME NEW f \in DOMAIN t.faces, f =< r.seqno
      PROVE  f \in DOMAIN r.faces /\ t.faces[f] = r.faces[f]
  <2>1. f \in Nat /\ f =< s.seqno
    BY <1>2 DEF RelayOK, Keeps
  <2>2. f \in DOMAIN s.faces /\ t.faces[f] = s.faces[f]
    BY <2>1 DEF Keeps
  <2> QED  BY <1>2, <2>2 DEF Keeps
<1> QED  BY <1>1, <1>2 DEF Keeps

(* A change that leaves faces and routes alone *)
LEMMA KeepsOthers ==
  ASSUME NEW r, NEW s, RelayOK(r), DOMAIN s = DOMAIN r,
         s.faces = r.faces, s.seqno = r.seqno, DOMAIN s.fib \subseteq DOMAIN r.fib
  PROVE  Keeps(r, s)
BY DEF RelayOK, Keeps

LEMMA AddFaceKeeps ==
  ASSUME NEW r, RelayOK(r), NEW family, NEW host, NEW port, NEW static
  PROVE  LET s == AddFace(r, family, host, port, static) IN
         /\ Keeps(r, s) /\ Names(s, NextId(r), host, port)
         /\ NextId(r) \in DOMAIN s.faces /\ s.faces[NextId(r)].static = static
<1> DEFINE n == NextId(r)
           s == AddFace(r, family, host, port, static)
           face == [family |-> family, host |-> host, port |-> port, static |-> static]
<1>1. n = r.seqno + 1 /\ r.seqno \in Nat /\ n \notin DOMAIN r.faces
  BY DEF NextId, RelayOK
<1>2. /\ DOMAIN s = DOMAIN r /\ s.seqno = r.seqno + 1 /\ s.fib = r.fib
      /\ s.faces = [f \in DOMAIN r.faces \cup {n} |-> IF f \in DOMAIN r.faces THEN r.faces[f] ELSE face]
  BY DEF AddFace, RelayOK
<1> HIDE DEF n, s, face
<1>3. s.faces[n] = face /\ DOMAIN s.faces = DOMAIN r.faces \cup {n}
      /\ \A f \in DOMAIN r.faces : s.faces[f] = r.faces[f]
  BY <1>1, <1>2
<1>4. DOMAIN s.faces \subseteq 1..s.seqno
  BY <1>1, <1>2, <1>3 DEF RelayOK
<1>5. RelayOK(s)
  BY <1>1, <1>2, <1>3, <1>4 DEF RelayOK
<1>6. Keeps(r, s)
  BY <1>1, <1>2, <1>3, <1>5 DEF Keeps
<1>7. Names(s, n, host, port)
  BY <1>1, <1>2, <1>3 DEF Names, face
<1> QED  BY <1>3, <1>6, <1>7 DEF n, s, face

LEMMA FaceRemoveKeeps ==
  ASSUME NEW r, RelayOK(r), NEW g
  PROVE  LET s == FaceRemove(r, g) IN Keeps(r, s) /\ g \notin DOMAIN s.faces
<1> DEFINE s == FaceRemove(r, g)
<1>1. /\ DOMAIN s = DOMAIN r /\ s.seqno = r.seqno
      /\ s.faces = [f \in DOMAIN r.faces \ {g} |-> r.faces[f]]
      /\ DOMAIN s.fib = {x \in DOMAIN r.fib : x.face # g}
  BY DEF FaceRemove, RelayOK
<1> HIDE DEF s
<1>2. RelayOK(s)
  BY <1>1 DEF RelayOK
<1>3. Keeps(r, s)
  BY <1>1, <1>2 DEF Keeps, RelayOK
<1> QED  BY <1>1, <1>3 DEF s
-----------------------------------------------------------------------------
(***************************************************************************)
(* The handlers: what is left of the tables, and what an answer says.      *)
(***************************************************************************)
Works(answer) == answer.cmd = "newface" /\ answer.text = "worked"

LEMMA KeepsItself ==
  ASSUME NEW r, RelayOK(r)
  PROVE  Keeps(r, r) /\ Keeps(r, [r EXCEPT !.halted = TRUE])
BY KeepsOthers DEF RelayOK

LEMMA InReply ==
  ASSUME NEW s, NEW cmd, NEW text, NEW fields, NEW o \in Reply(s, cmd, text, fields)
  PROVE  o.relay = s /\ o.answer.cmd = cmd /\ o.answer.text = text /\ o.answer.fields = fields
BY DEF Reply, Outcome, Answer

LEMMA InSilence ==
  ASSUME NEW s, NEW o \in Silence(s)
  PROVE  o.relay = s /\ o.answer = None
BY DEF Silence, Outcome

LEMMA InCrash ==
  ASSUME NEW r, RelayOK(r), NEW o \in Crash(r)
  PROVE  Keeps(r, o.relay) /\ o.answer = None
<1>1. o.relay = [r EXCEPT !.halted = TRUE] /\ o.answer = None
  BY DEF Crash, Silence, Outcome
<1> QED  BY <1>1, KeepsItself

(* Whatever address is asked for is the one in the fields. *)
LEMMA AddressIs ==
  ASSUME NEW rq, NEW a \in AddressAsked(rq)
  PROVE  \/ a.host = Extract(rq, "HOST") /\ a.port = Extract(rq, "PORT") /\ a.host # None
         \/ a.host = Extract(rq, "UNIXSRC") /\ a.port = None /\ a.host # None
BY DEF AddressAsked

LEMMA NewFaceDoes ==
  ASSUME NEW r, RelayOK(r), NEW rq, NEW o \in NewFace(r, rq)
  PROVE  /\ Keeps(r, o.relay)
         /\ o.answer # None /\ o.answer.text = "worked" =>
              /\ Extract(o.answer, "FACEID") = NextId(r)
              /\ \E a \in AddressAsked(rq) :
                   /\ Names(o.relay, NextId(r), a.host, a.port)
                   /\ NextId(r) \in DOMAIN o.relay.faces
                   /\ o.relay.faces[NextId(r)].static <=> Extract(rq, "FACEFLAGS") % 2 = 1
<1> DEFINE asked == {a \in AddressAsked(rq) : HasInterface(r, a.family)}
           flags == Extract(rq, "FACEFLAGS")
           x(tag) == Extract(rq, tag)
           shown == Given("MACSRC", x("MACSRC"))
                    \o FaceFields(x("IP4SRC"), x("IP6SRC"), x("HOST"), x("PORT"))
                    \o Given("FACEFLAGS", flags)
           fields == shown \o F("FACEID", NextId(r))
           static == flags =< 32767 /\ flags % 2 = 1
           new(a) == AddFace(r, a.family, a.host, a.port, static)
           text == IF flags =< 32767 THEN "worked" ELSE "failed"
<1>1. IsSeq(shown)
  <2>1. IsSeq(Given("MACSRC", x("MACSRC")))
    BY ValOfOne
  <2>2. IsSeq(FaceFields(x("IP4SRC"), x("IP6SRC"), x("HOST"), x("PORT")))
    BY FaceFieldsAre
  <2>3. IsSeq(Given("MACSRC", x("MACSRC"))
                 \o FaceFields(x("IP4SRC"), x("IP6SRC"), x("HOST"), x("PORT")))
    BY <2>1, <2>2, ValOfBoth
  <2> QED  BY <2>3, AddGiven
<1>2. Val(fields, "FACEID") = NextId(r)
  <2> HIDE DEF shown
  <2> QED  BY <1>1, AddF
<1>3. \/ o \in Crash(r)
      \/ o \in Reply(r, "newface", "failed", shown)
      \/ \E a \in asked : o \in Reply(new(a), "newface", text, fields)
  BY DEF NewFace
<1> HIDE DEF shown, fields, text, asked, new, static
<1>4. o \in Crash(r) => Keeps(r, o.relay) /\ o.answer = None
  BY InCrash
<1>5. o \in Reply(r, "newface", "failed", shown) => Keeps(r, o.relay) /\ o.answer.text # "worked"
  <2>1. o \in Reply(r, "newface", "failed", shown) => o.relay = r /\ o.answer.text = "failed"
    BY InReply
  <2> QED  BY <2>1, KeepsItself
<1>6. ASSUME NEW a \in asked, o \in Reply(new(a), "newface", text, fields)
      PROVE  /\ Keeps(r, o.relay)
             /\ o.answer.text = "worked" =>
                  /\ Extract(o.answer, "FACEID") = NextId(r)
                  /\ Names(o.relay, NextId(r), a.host, a.port)
                  /\ NextId(r) \in DOMAIN o.relay.faces
                  /\ o.relay.faces[NextId(r)].static <=> Extract(rq, "FACEFLAGS") % 2 = 1
  <2>1. o.relay = new(a) /\ o.answer.text = text /\ o.answer.fields = fields
    BY <1>6, InReply
  <2>2. /\ Keeps(r, new(a)) /\ Names(new(a), NextId(r), a.host, a.port)
        /\ NextId(r) \in DOMAIN new(a).faces /\ new(a).faces[NextId(r)].static = static
    BY AddFaceKeeps DEF new
  <2>3. text = "worked" => (static <=> Extract(rq, "FACEFLAGS") % 2 = 1)
    BY DEF text, static
  <2>4. Extract(o.answer, "FACEID") = NextId(r)
    BY <1>2, <2>1, ExtractIsVal
  <2> QED  BY <2>1, <2>2, <2>3, <2>4
<1> QED  BY <1>3, <1>4, <1>5, <1>6 DEF asked

LEMMA DestroyFaceDoes ==
  ASSUME NEW r, RelayOK(r), NEW from, NEW rq, NEW o \in DestroyFace(r, from, rq)
  PROVE  /\ Keeps(r, o.relay)
         /\ o.answer # None =>
              /\ o.answer.cmd = "destroyface"
              /\ o.answer.text = "worked" => Extract(rq, "FACEID") \notin DOMAIN o.relay.faces
<1> DEFINE g == Extract(rq, "FACEID")
           s == FaceRemove(r, g)
<1>1. Keeps(r, s) /\ g \notin DOMAIN s.faces /\ Keeps(r, r)
  BY FaceRemoveKeeps, KeepsItself
<1>2. \/ o \in Reply(r, "destroyface", "failed", rq.fields)
      \/ o \in Reply(s, "destroyface", "worked", rq.fields)
      \/ o \in Silence(s)
      \/ o \in Crash(r)
  BY DEF DestroyFace
<1> HIDE DEF s, g
<1>3. CASE o \in Reply(r, "destroyface", "failed", rq.fields)
  <2>1. o.relay = r /\ o.answer.cmd = "destroyface" /\ o.answer.text # "worked"
    BY <1>3, InReply
  <2> QED  BY <1>1, <2>1
<1>4. CASE o \in Reply(s, "destroyface", "worked", rq.fields)
  <2>1. o.relay = s /\ o.answer.cmd = "destroyface"
    BY <1>4, InReply
  <2> QED  BY <1>1, <2>1 DEF g
<1>5. CASE o \in Silence(s)
  BY <1>1, <1>5, InSilence
<1>6. CASE o \in Crash(r)
  BY <1>6, InCrash
<1> QED  BY <1>2, <1>3, <1>4, <1>5, <1>6

LEMMA PrefixRegDoes ==
  ASSUME NEW r, RelayOK(r), NEW rq, NEW o \in PrefixReg(r, rq)
  PROVE  /\ Keeps(r, o.relay)
         /\ o.answer # None =>
              /\ o.answer.cmd = "prefixreg"
              /\ o.answer.text = "worked" => RouteAsked(rq) \in DOMAIN o.relay.fib
<1> DEFINE route == RouteAsked(rq)
           s == [r EXCEPT !.fib = @ (+) SetToBag({route})]
<1>1. \/ o \in Reply(r, "prefixreg", "failed", rq.fields)
      \/ o \in Crash(r)
      \/ Extract(rq, "FACEID") \in DOMAIN r.faces /\ o \in Reply(s, "prefixreg", "worked", rq.fields)
  BY DEF PrefixReg
<1>2. route.face = Extract(rq, "FACEID")
  BY DEF RouteAsked
<1>3. /\ DOMAIN s = DOMAIN r /\ s.faces = r.faces /\ s.seqno = r.seqno
      /\ DOMAIN s.fib = DOMAIN r.fib \cup {route}
  <2>1. DOMAIN (r.fib (+) SetToBag({route})) = DOMAIN r.fib \cup {route}
    BY DEF (+), SetToBag
  <2> QED  BY <2>1 DEF RelayOK
<1> HIDE DEF route, s
<1>4. CASE o \in Reply(r, "prefixreg", "failed", rq.fields)
  <2>1. o.relay = r /\ o.answer.cmd = "prefixreg" /\ o.answer.text # "worked"
    BY <1>4, InReply
  <2> QED  BY <2>1, KeepsItself
<1>5. CASE o \in Crash(r)
  BY <1>5, InCrash
<1>6. CASE Extract(rq, "FACEID") \in DOMAIN r.faces /\ o \in Reply(s, "prefixreg", "worked", rq.fields)
  <2>1. o.relay = s /\ o.answer.cmd = "prefixreg"
    BY <1>6, InReply
  <2>2. Keeps(r, s)
    BY <1>2, <1>3, <1>6 DEF RelayOK, Keeps
  <2> QED  BY <1>3, <2>1, <2>2 DEF route
<1> QED  BY <1>1, <1>4, <1>5, <1>6

LEMMA RemoveCacheObjectDoes ==
  ASSUME NEW r, RelayOK(r), NEW rq, NEW o \in RemoveCacheObject(r, rq)
  PROVE  /\ Keeps(r, o.relay)
         /\ o.answer.cmd = "removecacheobject"
         /\ o.answer.text = "Content successfully removed" =>
              Extract(o.answer, "NAME").comps = Extract(rq, "NAME")
<1> DEFINE found == {n \in r.cs : n.suite = "ccnb" /\ n.comps = Extract(rq, "NAME")}
           without(n) == [r EXCEPT !.cs = @ \ {n}]
           cmd == "removecacheobject"
           failed == "Failed to remove content"
           worked == "Content successfully removed"
<1>1. \/ o \in Reply(r, cmd, failed, <<>>)
      \/ \E n \in found : o \in Reply(without(n), cmd, worked, F("NAME", n))
  BY DEF RemoveCacheObject
<1>2. \A n : Keeps(r, without(n))
  BY KeepsOthers DEF RelayOK
<1>3. \A n \in found : n.comps = Extract(rq, "NAME")
  OBVIOUS
<1>4. failed # worked
  OBVIOUS
<1> HIDE DEF found, without, cmd, failed, worked
<1>5. CASE o \in Reply(r, cmd, failed, <<>>)
  <2>1. o.relay = r /\ o.answer.cmd = cmd /\ o.answer.text = failed
    BY <1>5, InReply
  <2> QED  BY <1>4, <2>1, KeepsItself DEF cmd, worked
<1>6. ASSUME NEW n \in found, o \in Reply(without(n), cmd, worked, F("NAME", n))
      PROVE  o.relay = without(n) /\ o.answer.cmd = cmd /\ Extract(o.answer, "NAME") = n
  <2>1. o.relay = without(n) /\ o.answer.cmd = cmd /\ o.answer.fields = F("NAME", n)
    BY <1>6, InReply
  <2> QED  BY <2>1, ExtractIsVal, ValOfOne
<1> QED  BY <1>1, <1>2, <1>3, <1>5, <1>6 DEF cmd

LEMMA DebugDoes ==
  ASSUME NEW r, RelayOK(r), NEW rq, NEW o \in Debug(r, rq)
  PROVE  /\ Keeps(r, o.relay)
         /\ o.answer # None =>
              /\ o.answer.cmd = "debug"
              /\ Extract(rq, "DEBUGACTION") \in {"halt", "dump+halt"} => o.relay.halted
<1> DEFINE what == Extract(rq, "DEBUGACTION")
           s == [r EXCEPT !.halted = what \in {"halt", "dump+halt"}]
<1>1. \/ o \in Crash(r) \/ o \in Silence(s)
      \/ \E text, size : o \in Outcome(s, Answer("debug", text, <<>>, size))
  BY DEF Debug
<1>2. Keeps(r, s) /\ (what \in {"halt", "dump+halt"} => s.halted)
  BY KeepsOthers DEF RelayOK
<1> HIDE DEF s, what
<1>3. CASE o \in Crash(r)
  BY <1>3, InCrash
<1>4. CASE o \in Silence(s)
  BY <1>2, <1>4, InSilence
<1>5. ASSUME NEW text, NEW size, o \in Outcome(s, Answer("debug", text, <<>>, size))
      PROVE  o.relay = s /\ o.answer.cmd = "debug"
  BY <1>5 DEF Outcome, Answer
<1> QED  BY <1>1, <1>2, <1>3, <1>4, <1>5 DEF what

(* The others change neither faces nor routes. *)
LEMMA NewDevKeeps ==
  ASSUME NEW r, RelayOK(r), NEW rq, NEW o \in NewDev(r, rq)
  PROVE  Keeps(r, o.relay) /\ o.answer.cmd = "newdev"
<1>1. PICK s \in {r, [r EXCEPT !.ifs = Append(@, FamilyAsked(rq))]} :
        o \in Reply(s, "newdev", "worked", rq.fields)
  BY DEF NewDev
<1>2. Keeps(r, s)
  BY KeepsOthers DEF RelayOK
<1> QED  BY <1>1, <1>2, InReply

LEMMA SetFragKeeps ==
  ASSUME NEW r, RelayOK(r), NEW rq, NEW o \in SetFrag(r, rq)
  PROVE  /\ Keeps(r, o.relay)
         /\ o.answer # None => o.answer.cmd = "setfrag" /\ o.answer.text # "worked"
<1>1. o \in Crash(r) \/ \E text : text # "worked" /\ o \in Reply(r, "setfrag", text, rq.fields)
  BY DEF SetFrag
<1>2. \A text : o \in Reply(r, "setfrag", text, rq.fields) =>
                  o.relay = r /\ o.answer.cmd = "setfrag" /\ o.answer.text = text
  BY InReply
<1>3. o \in Crash(r) => Keeps(r, o.relay) /\ o.answer = None
  BY InCrash
<1> QED  BY <1>1, <1>2, <1>3, KeepsItself

LEMMA AddCacheObjectKeeps ==
  ASSUME NEW r, RelayOK(r), NEW from, NEW rq, NEW o \in AddCacheObject(r, from, rq)
  PROVE  /\ Keeps(r, o.relay)
         /\ o.answer # None => /\ o.answer.cmd = "addcacheobject"
                               /\ \E i \in o.relay.pit : i.name = NameAsked(rq)
<1> DEFINE entry == [name |-> NameAsked(rq), from |-> from, pending |-> {}]
           s == [r EXCEPT !.pit = @ \cup {entry}]
           text == "received add to cache request"
           fields == F("INTEREST", NameAsked(rq))
<1>1. o \in Silence(r) \/ o \in Reply(s, "addcacheobject", text, fields)
  BY DEF AddCacheObject
<1>2. Keeps(r, s)
  BY KeepsOthers DEF RelayOK
<1>3. \E i \in s.pit : i.name = NameAsked(rq)
  <2>1. s.pit = r.pit \cup {entry}
    BY DEF RelayOK
  <2>2. entry \in s.pit /\ entry.name = NameAsked(rq)
    BY <2>1
  <2> HIDE DEF entry, s
  <2> QED  BY <2>2
<1> HIDE DEF s, text, fields
<1>4. o \in Silence(r) => o.relay = r /\ o.answer = None
  BY InSilence
<1>5. o \in Reply(s, "addcacheobject", text, fields) => o.relay = s /\ o.answer.cmd = "addcacheobject"
  BY InReply
<1> QED  BY <1>1, <1>2, <1>3, <1>4, <1>5, KeepsItself

Refused == "refused: origin of mgmt cmd is not local"

(* ccnl_mgmt hands what it does not refuse to the handler of the command. *)
LEMMA MgmtIs ==
  ASSUME NEW r, NEW from, NEW rq, NEW o \in Mgmt(r, from, rq)
  PROVE  \/ o \in Silence(r)
         \/ o \in Reply(r, rq.cmd, Refused, <<>>)
         \/ o \in Handle(r, from, rq)
BY DEF Mgmt, Refused

LEMMA OfItsStmt ==
  ASSUME NEW rq, NEW tag
  PROVE  Extract(OfStmt(rq, rq.stmt), tag) = Extract(rq, tag)
BY DEF OfStmt

LEMMA HandleKeeps ==
  ASSUME NEW r, RelayOK(r), NEW from, NEW rq, NEW o \in Handle(r, from, rq)
  PROVE  Keeps(r, o.relay) /\ (o.answer # None /\ Works(o.answer) => rq.cmd = "newface")
<1> DEFINE of(stmt) == OfStmt(rq, stmt)
<1>1. CASE rq.cmd = "newdev"
  <2>1. o \in NewDev(r, of("DEVINSTANCE"))
    BY <1>1 DEF Handle
  <2> HIDE DEF of
  <2>2. Keeps(r, o.relay) /\ o.answer.cmd = "newdev"
    BY <2>1, NewDevKeeps
  <2> QED  BY <2>2 DEF Works
<1>2. CASE rq.cmd = "setfrag"
  <2>1. o \in SetFrag(r, of("FACEINSTANCE"))
    BY <1>2 DEF Handle
  <2> HIDE DEF of
  <2>2. Keeps(r, o.relay) /\ (o.answer # None => o.answer.cmd = "setfrag")
    BY <2>1, SetFragKeeps
  <2> QED  BY <2>2 DEF Works
<1>3. CASE rq.cmd = "destroydev"
  <2> DEFINE text == "mgmt_destroydev not implemented yet"
  <2>1. o \in Reply(r, "mgmt_destroy", text, <<>>)
    BY <1>3 DEF Handle
  <2> HIDE DEF text
  <2>2. o.relay = r /\ o.answer.cmd = "mgmt_destroy"
    BY <2>1, InReply
  <2> QED  BY <2>2, KeepsItself DEF Works
<1>4. CASE rq.cmd = "newface"
  <2>1. o \in NewFace(r, of("FACEINSTANCE"))
    BY <1>4 DEF Handle
  <2> HIDE DEF of
  <2>2. Keeps(r, o.relay)
    BY <2>1, NewFaceDoes
  <2> QED  BY <1>4, <2>2
<1>5. CASE rq.cmd = "destroyface"
  <2>1. o \in DestroyFace(r, from, of("FACEINSTANCE"))
    BY <1>5 DEF Handle
  <2> HIDE DEF of
  <2>2. Keeps(r, o.relay) /\ (o.answer # None => o.answer.cmd = "destroyface")
    BY <2>1, DestroyFaceDoes
  <2> QED  BY <2>2 DEF Works
<1>6. CASE rq.cmd = "prefixreg"
  <2>1. o \in PrefixReg(r, of("FWDINGENTRY"))
    BY <1>6 DEF Handle
  <2> HIDE DEF of
  <2>2. Keeps(r, o.relay) /\ (o.answer # None => o.answer.cmd = "prefixreg")
    BY <2>1, PrefixRegDoes
  <2> QED  BY <2>2 DEF Works
<1>7. CASE rq.cmd = "addcacheobject"
  <2>1. o \in AddCacheObject(r, from, of("CONTENTOBJ"))
    BY <1>7 DEF Handle
  <2> HIDE DEF of
  <2>2. Keeps(r, o.relay) /\ (o.answer # None => o.answer.cmd = "addcacheobject")
    BY <2>1, AddCacheObjectKeeps
  <2> QED  BY <2>2 DEF Works
<1>8. CASE rq.cmd = "removecacheobject"
  <2>1. o \in RemoveCacheObject(r, of("CONTENT"))
    BY <1>8 DEF Handle
  <2> HIDE DEF of
  <2>2. Keeps(r, o.relay) /\ o.answer.cmd = "removecacheobject"
    BY <2>1, RemoveCacheObjectDoes
  <2> QED  BY <2>2 DEF Works
<1>9. CASE rq.cmd = "debug"
  <2>1. o \in Debug(r, of("DEBUGREQUEST"))
    BY <1>9 DEF Handle
  <2> HIDE DEF of
  <2>2. Keeps(r, o.relay) /\ (o.answer # None => o.answer.cmd = "debug")
    BY <2>1, DebugDoes
  <2> QED  BY <2>2 DEF Works
<1> DEFINE Known == {"newdev", "setfrag", "destroydev", "newface", "destroyface", "prefixreg",
                     "addcacheobject", "removecacheobject", "debug"}
<1>10. CASE rq.cmd \notin Known
  <2> DEFINE text == "unknown mgmt command"
  <2>1. o \in Reply(r, rq.cmd, text, <<>>)
    BY <1>10 DEF Handle
  <2>2. text # "worked"
    OBVIOUS
  <2> HIDE DEF text
  <2>3. o.relay = r /\ o.answer.text = text
    BY <2>1, InReply
  <2> QED  BY <2>2, <2>3, KeepsItself DEF Works
<1> QED  BY <1>1, <1>2, <1>3, <1>4, <1>5, <1>6, <1>7, <1>8, <1>9, <1>10

LEMMA MgmtKeeps ==
  ASSUME NEW r, RelayOK(r), NEW from, NEW rq, NEW o \in Mgmt(r, from, rq)
  PROVE  Keeps(r, o.relay) /\ (o.answer # None /\ Works(o.answer) => rq.cmd = "newface")
<1>1. Refused # "worked"
  BY DEF Refused
<1>2. \/ o \in Silence(r) \/ o \in Reply(r, rq.cmd, Refused, <<>>) \/ o \in Handle(r, from, rq)
  BY MgmtIs
<1>3. CASE o \in Silence(r)
  <2>1. o.relay = r /\ o.answer = None
    BY <1>3, InSilence
  <2> QED  BY <2>1, KeepsItself
<1>4. CASE o \in Reply(r, rq.cmd, Refused, <<>>)
  <2>1. o.relay = r /\ o.answer.text = Refused
    BY <1>4, InReply
  <2> QED  BY <1>1, <2>1, KeepsItself DEF Works
<1>5. CASE o \in Handle(r, from, rq)
  BY <1>5, HandleKeeps
<1> QED  BY <1>2, <1>3, <1>4, <1>5
-----------------------------------------------------------------------------
(***************************************************************************)
(* What the commands of the program come to.                               *)
(***************************************************************************)

(* What the program builds of a new face command that the relay can read, it reads back: the
   address is the user's, and so is the permanence. *)
FaceAsked(a, rq) ==
  /\ rq.cmd = "newface" /\ rq.stmt = "FACEINSTANCE"
  /\ \A x \in AddressAsked(rq) : x.host = a.host /\ x.port = a.port

FaceVerb == {"newETHface", "newUDPface", "newUDP6face", "newWPANface", "newUNIXface"}

LEMMA FaceRequestIs ==
  ASSUME NEW a, a.verb \in FaceVerb, a.verb = "newUNIXface" => a.port = None,
         NEW rq \in Build(a), rq # Garbled
  PROVE  /\ FaceAsked(a, rq)
         /\ a.verb # "newWPANface" => Extract(rq, "FACEFLAGS") = a.flags
         /\ a.verb = "newWPANface" => AddressAsked(rq) = {}
<1>1. ASSUME NEW ip4src, NEW ip6src, NEW wpan, NEW host, NEW port, NEW flags,
             rq = mkNewFaceRequest(None, ip4src, ip6src, wpan, host, port, flags),
             host = None \/ (host = a.host /\ port = a.port)
      PROVE  /\ FaceAsked(a, rq) /\ Extract(rq, "FACEFLAGS") = flags
             /\ host = None => AddressAsked(rq) = {}
  <2>1. /\ rq.cmd = "newface" /\ rq.stmt = "FACEINSTANCE"
        /\ Extract(rq, "HOST") = host /\ Extract(rq, "PORT") = port
        /\ Extract(rq, "UNIXSRC") = None /\ Extract(rq, "FACEFLAGS") = flags
    BY <1>1, NewFaceRequestIs
  <2>2. ASSUME NEW x \in AddressAsked(rq)
        PROVE  x.host = a.host /\ x.port = a.port
    BY <1>1, <2>1, AddressIs
  <2>3. host = None => AddressAsked(rq) = {}
    BY <2>1, AddressIs
  <2> QED  BY <2>1, <2>2, <2>3 DEF FaceAsked
<1>2. CASE a.verb = "newETHface"
  <2>1. rq = mkNewFaceRequest("any", None, None, None, a.host, a.port, a.flags)
    BY <1>2 DEF Build
  <2>2. None = "any"
    BY <2>1 DEF mkNewFaceRequest
  <2> QED  BY <1>1, <1>2, <2>1, <2>2
<1>3. CASE a.verb = "newUDPface"
  <2>1. rq = mkNewFaceRequest(None, "any", None, None, a.host, a.port, a.flags)
    BY <1>3 DEF Build
  <2> QED  BY <1>1, <1>3, <2>1
<1>4. CASE a.verb = "newUDP6face"
  <2>1. rq = mkNewFaceRequest(None, None, "any", None, a.host, a.port, a.flags)
    BY <1>4 DEF Build
  <2> QED  BY <1>1, <1>4, <2>1
<1>5. CASE a.verb = "newWPANface"
  <2>1. rq = mkNewFaceRequest(None, None, None, a.host, None, None, 1)
    BY <1>5 DEF Build
  <2> QED  BY <1>1, <1>5, <2>1
<1>6. CASE a.verb = "newUNIXface"
  <2>1. rq = mkNewUNIXFaceRequest(a)
    BY <1>6 DEF Build
  <2>2. /\ rq.cmd = "newface" /\ rq.stmt = "FACEINSTANCE"
        /\ Extract(rq, "HOST") = None /\ Extract(rq, "UNIXSRC") = a.host
        /\ Extract(rq, "FACEFLAGS") = a.flags
    BY <2>1, NewUNIXFaceRequestIs
  <2>3. ASSUME NEW x \in AddressAsked(rq)
        PROVE  x.host = a.host /\ x.port = a.port
    BY <1>6, <2>2, AddressIs
  <2> QED  BY <1>6, <2>2, <2>3 DEF FaceAsked
<1> QED  BY <1>2, <1>3, <1>4, <1>5, <1>6 DEF FaceVerb

(* No other command is answered as a new face is. *)
LEMMA OnlyFaces ==
  ASSUME NEW a, a.verb \in Verb \ {"foreign"}, NEW rq \in Build(a), rq # None, rq # Garbled,
         rq.cmd = "newface"
  PROVE  a.verb \in FaceVerb
<1>1. CASE a.verb = "debug"
  BY <1>1, DebugRequestIs DEF Build
<1>2. CASE a.verb \in {"newETHdev", "newUDPdev", "newUDP6dev"}
  BY <1>2 DEF Build, mkNewEthDevRequest, mkNewUDPDevRequest, Request
<1>3. CASE a.verb = "destroydev"
  BY <1>3 DEF Build
<1>4. CASE a.verb = "echoserver"
  BY <1>4 DEF Build, mkEchoserverRequest, Request
<1>5. CASE a.verb = "setfrag"
  BY <1>5 DEF Build, mkSetfragRequest, Request
<1>6. CASE a.verb = "destroyface"
  BY <1>6, DestroyFaceRequestIs DEF Build
<1>7. CASE a.verb \in {"prefixreg", "prefixunreg"}
  <2>1. rq = mkPrefixregRequest(a.verb, a)
    BY <1>7 DEF Build
  <2> QED  BY <1>7, <2>1, PrefixregRequestIs
<1>8. CASE a.verb = "addContentToCache"
  BY <1>8 DEF Build, mkAddToRelayCacheRequest
<1>9. CASE a.verb = "removeContentFromCache"
  BY <1>9, RemoveRequestIs DEF Build
<1> QED  BY <1>1, <1>2, <1>3, <1>4, <1>5, <1>6, <1>7, <1>8, <1>9 DEF Verb, FaceVerb

LEMMA GarbledIsSilent ==
  ASSUME NEW r, NEW from, NEW rq, NEW o \in Mgmt(r, from, rq), o.answer # None
  PROVE  rq # Garbled
<1>1. rq = Garbled => o \in Silence(r)
  BY DEF Mgmt
<1> QED  BY <1>1, InSilence

(* An answer that says that a command worked is its handler's. *)
LEMMA Handled ==
  ASSUME NEW r, NEW from, NEW rq, NEW o \in Mgmt(r, from, rq), o.answer # None,
         NEW text, text # Refused, o.answer.text = text
  PROVE  o \in Handle(r, from, rq)
<1>1. o \in Silence(r) \/ o \in Reply(r, rq.cmd, Refused, <<>>) \/ o \in Handle(r, from, rq)
  BY MgmtIs
<1>2. o \in Silence(r) => o.answer = None
  BY InSilence
<1>3. o \in Reply(r, rq.cmd, Refused, <<>>) => o.answer.text = Refused
  BY InReply
<1> QED  BY <1>1, <1>2, <1>3

LEMMA NewFaceHandled ==
  ASSUME NEW r, RelayOK(r), NEW from, NEW a, NEW rq, FaceAsked(a, rq),
         NEW o \in Mgmt(r, from, rq), o.answer # None, o.answer.text = "worked"
  PROVE  LET id == Extract(o.answer, "FACEID") IN
         /\ AddressAsked(rq) # {}
         /\ Names(o.relay, id, a.host, a.port) /\ id \in DOMAIN o.relay.faces
         /\ o.relay.faces[id].static <=> Extract(rq, "FACEFLAGS") % 2 = 1
<1> DEFINE of == OfStmt(rq, rq.stmt)
<1>1. o \in Handle(r, from, rq)
  BY Handled DEF Refused
<1>2. o \in NewFace(r, of)
  BY <1>1 DEF Handle, FaceAsked
<1>3. \A tag : Extract(of, tag) = Extract(rq, tag)
  BY OfItsStmt
<1>4. AddressAsked(of) = AddressAsked(rq)
  BY <1>3 DEF AddressAsked
<1> HIDE DEF of
<1>5. /\ Extract(o.answer, "FACEID") = NextId(r)
      /\ \E x \in AddressAsked(of) :
           /\ Names(o.relay, NextId(r), x.host, x.port)
           /\ NextId(r) \in DOMAIN o.relay.faces
           /\ o.relay.faces[NextId(r)].static <=> Extract(of, "FACEFLAGS") % 2 = 1
  BY <1>2, NewFaceDoes
<1>6. PICK x \in AddressAsked(rq) :
        /\ Names(o.relay, NextId(r), x.host, x.port)
        /\ NextId(r) \in DOMAIN o.relay.faces
        /\ o.relay.faces[NextId(r)].static <=> Extract(rq, "FACEFLAGS") % 2 = 1
  BY <1>3, <1>4, <1>5
<1>7. x.host = a.host /\ x.port = a.port
  BY DEF FaceAsked
<1> QED  BY <1>5, <1>6, <1>7

(* A user is told of a face that is the peer's. *)
LEMMA ToldOfFace ==
  ASSUME NEW r, RelayOK(r), NEW from,
         NEW a, a.verb \in Verb \ {"foreign"}, a.verb = "newUNIXface" => a.port = None,
         NEW rq \in Build(a), rq # None,
         NEW o \in Mgmt(r, from, rq), o.answer # None, Works(o.answer)
  PROVE  Names(o.relay, Extract(o.answer, "FACEID"), a.host, a.port)
<1>1. rq.cmd = "newface" /\ rq # Garbled
  BY MgmtKeeps, GarbledIsSilent
<1>2. a.verb \in FaceVerb
  BY <1>1, OnlyFaces
<1>3. FaceAsked(a, rq)
  BY <1>1, <1>2, FaceRequestIs
<1> QED  BY <1>3, NewFaceHandled DEF Works

(* One verb of the program at a time: what its answer says, the tables say. *)
LEMMA WantedOfFace ==
  ASSUME NEW r, RelayOK(r), NEW from,
         NEW a, a.verb \in FaceVerb, a.verb = "newUNIXface" => a.port = None,
         NEW rq \in Build(a), NEW o \in Mgmt(r, from, rq), o.answer # None
  PROVE  Wanted(a, o.answer, o.relay)
<1> DEFINE id == Extract(o.answer, "FACEID")
<1>1. rq # Garbled
  BY GarbledIsSilent
<1>2. /\ FaceAsked(a, rq)
      /\ a.verb # "newWPANface" => Extract(rq, "FACEFLAGS") = a.flags
      /\ a.verb = "newWPANface" => AddressAsked(rq) = {}
  BY <1>1, FaceRequestIs
<1>3. ASSUME o.answer.text = "worked"
      PROVE  /\ AddressAsked(rq) # {}
             /\ Names(o.relay, id, a.host, a.port) /\ id \in DOMAIN o.relay.faces
             /\ o.relay.faces[id].static <=> Extract(rq, "FACEFLAGS") % 2 = 1
  BY <1>2, <1>3, NewFaceHandled
<1>4. CASE a.verb = "newWPANface"
  BY <1>2, <1>3, <1>4 DEF Wanted
<1>5. CASE a.verb \in FaceVerb \ {"newWPANface"}
  BY <1>2, <1>3, <1>5 DEF Wanted, Names, FaceVerb
<1> QED  BY <1>4, <1>5

LEMMA WantedOfDestroy ==
  ASSUME NEW r, RelayOK(r), NEW from, NEW a, a.verb = "destroyface",
         NEW rq \in Build(a), NEW o \in Mgmt(r, from, rq), o.answer # None
  PROVE  Wanted(a, o.answer, o.relay)
<1> DEFINE of == OfStmt(rq, rq.stmt)
<1>1. rq = mkDestroyFaceRequest(a)
  BY DEF Build
<1>2. rq.cmd = "destroyface" /\ rq.stmt = "FACEINSTANCE" /\ Extract(rq, "FACEID") = a.face
  BY <1>1, DestroyFaceRequestIs
<1>3. ASSUME o.answer.text = "worked"
      PROVE  a.face \notin DOMAIN o.relay.faces
  <2>1. o \in Handle(r, from, rq)
    BY <1>3, Handled DEF Refused
  <2>2. o \in DestroyFace(r, from, of) /\ Extract(of, "FACEID") = a.face
    BY <1>2, <2>1, OfItsStmt DEF Handle
  <2> HIDE DEF of
  <2> QED  BY <1>3, <2>2, DestroyFaceDoes
<1> QED  BY <1>3 DEF Wanted

LEMMA WantedOfRoute ==
  ASSUME NEW r, RelayOK(r), NEW from, NEW a, a.verb = "prefixreg",
         NEW rq \in Build(a), NEW o \in Mgmt(r, from, rq), o.answer # None
  PROVE  Wanted(a, o.answer, o.relay)
<1> DEFINE of == OfStmt(rq, rq.stmt)
           route == RouteAsked(of)
<1>1. rq = mkPrefixregRequest("prefixreg", a)
  BY DEF Build
<1>2. /\ rq.cmd = "prefixreg" /\ rq.stmt = "FWDINGENTRY"
      /\ Extract(rq, "NAME") = WireComps(a.comps, a.suite)
      /\ Extract(rq, "FACEID") = a.face /\ Extract(rq, "SUITE") = a.suite
  BY <1>1, PrefixregRequestIs
<1>3. \A tag : Extract(of, tag) = Extract(rq, tag)
  BY OfItsStmt
<1>4. /\ route.face = a.face /\ route.suite = a.suite
      /\ route.comps = WireComps(a.comps, a.suite)
  BY <1>2, <1>3 DEF RouteAsked
<1>5. ASSUME o.answer.text = "worked"
      PROVE  route \in DOMAIN o.relay.fib
  <2>1. o \in Handle(r, from, rq)
    BY <1>5, Handled DEF Refused
  <2>2. o \in PrefixReg(r, of)
    BY <1>2, <2>1 DEF Handle
  <2> HIDE DEF of
  <2> QED  BY <1>5, <2>2, PrefixRegDoes
<1> HIDE DEF route
<1> QED  BY <1>4, <1>5 DEF Wanted

LEMMA WantedOfRemoval ==
  ASSUME NEW r, RelayOK(r), NEW from, NEW a, a.verb = "removeContentFromCache",
         NEW rq \in Build(a), NEW o \in Mgmt(r, from, rq), o.answer # None
  PROVE  Wanted(a, o.answer, o.relay)
<1> DEFINE of == OfStmt(rq, rq.stmt)
           worked == "Content successfully removed"
<1>1. rq = mkRemoveFormRelayCacheRequest(a)
  BY DEF Build
<1>2. rq.cmd = "removecacheobject" /\ rq.stmt = "CONTENT" /\ Extract(rq, "NAME") = a.comps
  BY <1>1, RemoveRequestIs
<1>3. Extract(of, "NAME") = a.comps
  BY <1>2, OfItsStmt
<1>4. worked # Refused
  BY DEF Refused
<1>5. ASSUME o.answer.text = worked
      PROVE  Extract(o.answer, "NAME").comps = a.comps
  <2> HIDE DEF worked
  <2>1. o \in Handle(r, from, rq)
    BY <1>4, <1>5, Handled
  <2>2. o \in RemoveCacheObject(r, of)
    BY <1>2, <2>1 DEF Handle
  <2> HIDE DEF of
  <2> QED  BY <1>3, <1>5, <2>2, RemoveCacheObjectDoes DEF worked
<1> QED  BY <1>5 DEF Wanted

LEMMA WantedOfDebug ==
  ASSUME NEW r, RelayOK(r), NEW from, NEW a, a.verb = "debug",
         NEW rq \in Build(a), NEW o \in Mgmt(r, from, rq), o.answer # None
  PROVE  Wanted(a, o.answer, o.relay)
<1> DEFINE of == OfStmt(rq, rq.stmt)
           worked == "debug cmd worked"
<1>1. rq = mkDebugRequest(a)
  BY DEF Build
<1>2. rq.cmd = "debug" /\ rq.stmt = "DEBUGREQUEST" /\ Extract(rq, "DEBUGACTION") = a.what
  BY <1>1, DebugRequestIs
<1>3. Extract(of, "DEBUGACTION") = a.what
  BY <1>2, OfItsStmt
<1>4. worked # Refused
  BY DEF Refused
<1>5. ASSUME o.answer.text = worked, a.what \in {"halt", "dump+halt"}
      PROVE  o.relay.halted
  <2> HIDE DEF worked
  <2>1. o \in Handle(r, from, rq)
    BY <1>4, <1>5, Handled
  <2>2. o \in Debug(r, of)
    BY <1>2, <2>1 DEF Handle
  <2> HIDE DEF of
  <2> QED  BY <1>3, <1>5, <2>2, DebugDoes
<1> QED  BY <1>5 DEF Wanted

LEMMA WantedOfAdd ==
  ASSUME NEW r, RelayOK(r), NEW from, NEW a, a.verb = "addContentToCache",
         NEW rq \in Build(a), NEW o \in Mgmt(r, from, rq), o.answer # None
  PROVE  Wanted(a, o.answer, o.relay)
<1> DEFINE of == OfStmt(rq, rq.stmt)
           received == "received add to cache request"
<1>1. rq = mkAddToRelayCacheRequest(a)
  BY DEF Build
<1>2. /\ rq.cmd = "addcacheobject" /\ rq.stmt = "CONTENTOBJ"
      /\ NameAsked(rq).suite = a.name.suite /\ NameAsked(rq).comps = a.name.comps
      /\ NameAsked(rq).chunk = a.name.chunk
  BY <1>1, AddRequestIs
<1>3. NameAsked(of) = NameAsked(rq)
  BY OfItsStmt DEF NameAsked
<1>4. received # Refused
  BY DEF Refused
<1>5. ASSUME o.answer.text = received
      PROVE  \E i \in o.relay.pit : i.name = NameAsked(rq)
  <2> HIDE DEF received
  <2>1. o \in Handle(r, from, rq)
    BY <1>4, <1>5, Handled
  <2>2. o \in AddCacheObject(r, from, of)
    BY <1>2, <2>1 DEF Handle
  <2> HIDE DEF of
  <2> QED  BY <1>3, <2>2, AddCacheObjectKeeps
<1> QED  BY <1>2, <1>5 DEF Wanted

LEMMA WantedOfOthers ==
  ASSUME NEW r, RelayOK(r), NEW from,
         NEW a, a.verb \in {"setfrag", "destroydev", "echoserver", "prefixunreg"},
         NEW rq \in Build(a), rq # None,
         NEW o \in Mgmt(r, from, rq), o.answer # None
  PROVE  Wanted(a, o.answer, o.relay)
<1> DEFINE of == OfStmt(rq, "FACEINSTANCE")
           unknown == "unknown mgmt command"
<1>1. rq # Garbled
  BY GarbledIsSilent
<1>2. rq.cmd \in {"setfrag", "echoserver", "prefixunreg"}
  <2>1. a.verb # "destroydev"
    BY <1>1 DEF Build
  <2>2. a.verb = "setfrag" => rq.cmd = "setfrag"
    BY DEF Build, mkSetfragRequest, Request
  <2>3. a.verb = "echoserver" => rq.cmd = "echoserver"
    BY DEF Build, mkEchoserverRequest, Request
  <2>4. a.verb = "prefixunreg" => rq.cmd = "prefixunreg"
    BY DEF Build, mkPrefixregRequest, Request
  <2> QED  BY <2>1, <2>2, <2>3, <2>4
<1>3. unknown # "worked"
  OBVIOUS
<1>4. ASSUME o.answer.text = "worked"
      PROVE  FALSE
  <2>1. o \in Handle(r, from, rq)
    BY <1>4, Handled DEF Refused
  <2>2. o \in SetFrag(r, of) \/ o \in Reply(r, rq.cmd, unknown, <<>>)
    BY <1>2, <2>1 DEF Handle
  <2> HIDE DEF of, unknown
  <2>3. o \in SetFrag(r, of) => o.answer.text # "worked"
    BY SetFragKeeps
  <2>4. o \in Reply(r, rq.cmd, unknown, <<>>) => o.answer.text = unknown
    BY InReply
  <2> QED  BY <1>3, <1>4, <2>2, <2>3, <2>4
<1> QED  BY <1>4 DEF Wanted

LEMMA WantedOfAll ==
  ASSUME NEW r, RelayOK(r), NEW from,
         NEW a, a.verb \in Verb, a.verb = "newUNIXface" => a.port = None,
         NEW rq \in Build(a), rq # None,
         NEW o \in Mgmt(r, from, rq), o.answer # None
  PROVE  Wanted(a, o.answer, o.relay)
<1>1. a.verb \in NewDevVerb \cup {"foreign"} => Wanted(a, o.answer, o.relay)
  BY DEF Wanted, NewDevVerb
<1> QED  BY <1>1, WantedOfFace, WantedOfDestroy, WantedOfRoute, WantedOfRemoval, WantedOfDebug,
            WantedOfAdd, WantedOfOthers DEF Verb, FaceVerb, NewDevVerb

-----------------------------------------------------------------------------
(***************************************************************************)
(* The invariant.  A packet of a run is a request that the program builds  *)
(* of its command, or asks for a part; an answer, on its way or read, that *)
(* says that a face was made gives the number of the face, and no other    *)
(* gets that number.                                                       *)
(***************************************************************************)
(* What an answer to command a says of a face *)
TrueOfFace(a, m, r) ==
  Works(m) /\ a.verb # "foreign" => Names(r, Extract(m, "FACEID"), a.host, a.port)

Runs ==
  /\ DOMAIN cl = Client /\ DOMAIN toRelay = Client /\ DOMAIN toClient = Client
  /\ \A c \in Client : DOMAIN cl[c] = {"cmd", "at", "part"} /\ cl[c].cmd \in Command[c]

Packets ==
  \A c \in Client :
    /\ IsSeq(toRelay[c])
    /\ \A p \in ToSet(toRelay[c]) : p.kind = "cmd" => p.rq \in Build(cl[c].cmd) /\ p.rq # None

Answers ==
  \A c \in Client :
    IsSeq(toClient[c]) /\ \A m \in ToSet(toClient[c]) : TrueOfFace(cl[c].cmd, m, relay)

ToldRight == \A t \in told : Names(relay, t.id, t.host, t.port)

IInv == RelayOK(relay) /\ Runs /\ Packets /\ Answers /\ ToldRight

LEMMA Appended ==
  ASSUME NEW s, IsSeq(s), NEW x
  PROVE  /\ IsSeq(Append(s, x)) /\ ToSet(Append(s, x)) = ToSet(s) \cup {x}
         /\ Len(Append(s, x)) = Len(s) + 1 /\ Last(Append(s, x)) = x
<1>1. PICK S : s \in Seq(S)
  BY DEF IsSeq
<1>2. s \in Seq(S \cup {x})
  BY <1>1
<1>3. /\ Append(s, x) \in Seq(S \cup {x}) /\ Len(s) \in Nat /\ Len(Append(s, x)) = Len(s) + 1
      /\ DOMAIN s = 1..Len(s) /\ DOMAIN Append(s, x) = 1..Len(s) + 1
      /\ \A k \in 1..Len(s) : Append(s, x)[k] = s[k]
      /\ Append(s, x)[Len(s) + 1] = x
  BY <1>2
<1>4. ToSet(Append(s, x)) = ToSet(s) \cup {x}
  BY <1>3 DEF ToSet
<1> QED  BY <1>3, <1>4 DEF IsSeq, Last

LEMMA Taken ==
  ASSUME NEW s, IsSeq(s), s # <<>>
  PROVE  /\ IsSeq(Tail(s)) /\ ToSet(Tail(s)) \subseteq ToSet(s) /\ Head(s) \in ToSet(s)
         /\ Len(Tail(s)) < Len(s)
<1>1. PICK S : s \in Seq(S)
  BY DEF IsSeq
<1>2. /\ Tail(s) \in Seq(S) /\ Len(s) \in Nat /\ Len(s) >= 1 /\ Len(Tail(s)) = Len(s) - 1
      /\ DOMAIN s = 1..Len(s) /\ DOMAIN Tail(s) = 1..Len(s) - 1
      /\ \A k \in 1..Len(s) - 1 : Tail(s)[k] = s[k + 1]
      /\ Head(s) = s[1]
  BY <1>1
<1>3. ToSet(Tail(s)) \subseteq ToSet(s)
  BY <1>2 DEF ToSet
<1> QED  BY <1>2, <1>3 DEF IsSeq, ToSet

(* What is sent of an answer *)
LEMMA SentIs ==
  ASSUME NEW s, IsSeq(s), NEW answer
  PROVE  s \o Sent(answer) = IF answer = None THEN s ELSE Append(s, answer)
<1>1. PICK S : s \in Seq(S)
  BY DEF IsSeq
<1>2. s \in Seq(S \cup {answer})
  BY <1>1
<1>3. s \o <<>> = s /\ s \o <<answer>> = Append(s, answer)
  BY <1>2
<1> QED  BY <1>3 DEF Sent

LEMMA NamesKept ==
  ASSUME RelayOK(relay), Answers, ToldRight, NEW r, Keeps(relay, r)
  PROVE  /\ \A c \in Client : \A m \in ToSet(toClient[c]) : TrueOfFace(cl[c].cmd, m, r)
         /\ \A t \in told : Names(r, t.id, t.host, t.port)
<1>1. ASSUME NEW c \in Client, NEW m \in ToSet(toClient[c])
      PROVE  TrueOfFace(cl[c].cmd, m, r)
  BY KeepsNames DEF Answers, TrueOfFace
<1> QED  BY <1>1, KeepsNames DEF ToldRight

(* A packet at the relay: the tables keep their faces, and an answer is true of them. *)
LEMMA ReceiveDoes ==
  ASSUME IInv, NEW c \in Client, Receive(c)
  PROVE  /\ Keeps(relay, relay') /\ toRelay[c] # <<>>
         /\ toRelay' = [toRelay EXCEPT ![c] = Tail(@)] /\ cl' = cl /\ told' = told
         /\ \E answer :
              /\ toClient' = [toClient EXCEPT
                                ![c] = IF answer = None THEN @ ELSE Append(@, answer)]
              /\ answer # None =>
                   Wanted(cl[c].cmd, answer, relay') /\ TrueOfFace(cl[c].cmd, answer, relay')
<1> DEFINE p == Head(toRelay[c])
           r == Arrived(relay, c)
           from == CHOOSE f \in FacesOf(r, c) : TRUE
           a == cl[c].cmd
<1>1. PICK o \in IF p.kind = "cmd" THEN Mgmt(r, from, p.rq)
                 ELSE Silence(AskedFor(r, from, p.name)) :
        relay' = o.relay /\ toClient' = [toClient EXCEPT ![c] = @ \o Sent(o.answer)]
  BY DEF Receive
<1>2. /\ toRelay[c] # <<>> /\ toRelay' = [toRelay EXCEPT ![c] = Tail(@)]
      /\ cl' = cl /\ told' = told
  BY DEF Receive
<1>3. Keeps(relay, r)
  BY AddFaceKeeps, KeepsItself DEF Arrived, IInv
<1>4. RelayOK(r)
  BY <1>3 DEF Keeps
<1>5. p \in ToSet(toRelay[c])
  BY <1>2, Taken DEF IInv, Packets
<1>6. p.kind = "cmd" => p.rq \in Build(a) /\ p.rq # None
  BY <1>5 DEF IInv, Packets
<1>7. a \in Command[c]
  BY DEF IInv, Runs
<1>8. a.verb \in Verb /\ (a.verb = "newUNIXface" => a.port = None)
  BY <1>7, ControlAssumption
<1>9. toClient' = [toClient EXCEPT ![c] = IF o.answer = None THEN @ ELSE Append(@, o.answer)]
  BY <1>1, SentIs DEF IInv, Answers
<1> HIDE DEF p, r, from, a
<1>10. CASE p.kind = "cmd"
  <2>1. p.rq \in Build(a) /\ p.rq # None /\ o \in Mgmt(r, from, p.rq)
    BY <1>1, <1>6, <1>10
  <2>2. Keeps(r, o.relay)
    BY <1>4, <2>1, MgmtKeeps
  <2>3. o.answer # None => Wanted(a, o.answer, o.relay)
    BY <1>4, <1>8, <2>1, WantedOfAll
  <2>4. o.answer # None => TrueOfFace(a, o.answer, o.relay)
    BY <1>4, <1>8, <2>1, ToldOfFace DEF TrueOfFace
  <2>5. Keeps(relay, o.relay)
    BY <1>3, <2>2, KeepsTransitive DEF IInv
  <2> QED  BY <1>1, <1>2, <1>9, <2>3, <2>4, <2>5 DEF a
<1>11. CASE p.kind # "cmd"
  <2> DEFINE s == AskedFor(r, from, p.name)
  <2>1. DOMAIN s = DOMAIN r /\ s.faces = r.faces /\ s.seqno = r.seqno /\ s.fib = r.fib
    BY <1>4 DEF AskedFor, RelayOK
  <2> HIDE DEF s
  <2>2. Keeps(r, s)
    BY <1>4, <2>1, KeepsOthers
  <2>3. o \in Silence(s)
    BY <1>1, <1>11 DEF s
  <2>4. o.relay = s /\ o.answer = None
    BY <2>3, InSilence
  <2>5. Keeps(relay, s)
    BY <1>3, <2>2, KeepsTransitive DEF IInv
  <2> QED  BY <1>1, <1>2, <1>9, <2>4, <2>5
<1> QED  BY <1>10, <1>11

LEMMA IInvInit == Init => IInv
<1> SUFFICES ASSUME Init  PROVE IInv
  OBVIOUS
<1>1. RelayOK(relay)
  BY DEF Init, RelayOK, EmptyBag, SetToBag
<1>2. PICK typed \in [Client -> UNION {Command[c] : c \in Client}] :
        /\ \A c \in Client : typed[c] \in Command[c]
        /\ cl = [c \in Client |-> [cmd |-> typed[c], at |-> "idle", part |-> 0]]
  BY DEF Init
<1>3. Runs
  BY <1>2 DEF Init, Runs
<1>4. IsSeq(<<>>) /\ ToSet(<<>>) = {}
  BY ValOfOne DEF ToSet
<1>5. Packets /\ Answers /\ ToldRight
  BY <1>4 DEF Init, Packets, Answers, ToldRight
<1> QED  BY <1>1, <1>3, <1>5 DEF IInv

LEMMA SendKeeps ==
  ASSUME IInv, NEW c \in Client, Send(c)
  PROVE  IInv'
<1>1. PICK rq \in Build(cl[c].cmd) :
        /\ cl' = [cl EXCEPT ![c].at = IF rq = None THEN "done" ELSE "waiting"]
        /\ toRelay' = [toRelay EXCEPT
                         ![c] = IF rq = None THEN @ ELSE Append(@, [kind |-> "cmd", rq |-> rq])]
  BY DEF Send
<1>2. relay' = relay /\ toClient' = toClient /\ told' = told
  BY DEF Send
<1>3. Runs' /\ \A d \in Client : cl'[d].cmd = cl[d].cmd
  BY <1>1, <1>2 DEF IInv, Runs
<1>4. Packets'
  <2>1. ASSUME NEW d \in Client
        PROVE  /\ IsSeq(toRelay'[d])
               /\ \A p \in ToSet(toRelay'[d]) : p.kind = "cmd" => p.rq \in Build(cl[d].cmd) /\ p.rq # None
    <3> DEFINE q == [kind |-> "cmd", rq |-> rq]
    <3>1. \/ toRelay'[d] = toRelay[d]
          \/ d = c /\ rq # None /\ toRelay'[d] = Append(toRelay[d], q)
      BY <1>1 DEF IInv, Runs
    <3>2. q.rq = rq
      OBVIOUS
    <3> HIDE DEF q
    <3>3. /\ IsSeq(toRelay[d])
          /\ \A p \in ToSet(toRelay[d]) : p.kind = "cmd" => p.rq \in Build(cl[d].cmd) /\ p.rq # None
      BY DEF IInv, Packets
    <3>4. CASE d = c /\ rq # None /\ toRelay'[d] = Append(toRelay[d], q)
      <4>1. IsSeq(toRelay'[d]) /\ ToSet(toRelay'[d]) = ToSet(toRelay[d]) \cup {q}
        BY <3>3, <3>4, Appended
      <4>2. \A p \in ToSet(toRelay'[d]) : p \in ToSet(toRelay[d]) \/ p = q
        BY <4>1
      <4> QED  BY <3>2, <3>3, <3>4, <4>1, <4>2
    <3> QED  BY <3>1, <3>3, <3>4
  <2> QED  BY <1>3, <2>1 DEF Packets
<1>5. Answers' /\ ToldRight' /\ RelayOK(relay)'
  BY <1>2, <1>3 DEF IInv, Answers, ToldRight
<1> QED  BY <1>3, <1>4, <1>5 DEF IInv

LEMMA ReceiveKeeps ==
  ASSUME IInv, NEW c \in Client, Receive(c)
  PROVE  IInv'
<1>1. /\ Keeps(relay, relay') /\ toRelay[c] # <<>>
      /\ toRelay' = [toRelay EXCEPT ![c] = Tail(@)] /\ cl' = cl /\ told' = told
  BY ReceiveDoes
<1>2. PICK answer :
        /\ toClient' = [toClient EXCEPT ![c] = IF answer = None THEN @ ELSE Append(@, answer)]
        /\ answer # None => TrueOfFace(cl[c].cmd, answer, relay')
  BY ReceiveDoes
<1>3. /\ \A d \in Client : \A m \in ToSet(toClient[d]) : TrueOfFace(cl[d].cmd, m, relay')
      /\ \A t \in told : Names(relay', t.id, t.host, t.port)
  BY <1>1, NamesKept DEF IInv
<1>4. RelayOK(relay)' /\ Runs' /\ ToldRight'
  BY <1>1, <1>2, <1>3 DEF IInv, Runs, ToldRight, Keeps
<1>5. Packets'
  <2>1. \A d \in Client : \/ toRelay'[d] = toRelay[d]
                          \/ d = c /\ toRelay'[d] = Tail(toRelay[d])
    BY <1>1 DEF IInv, Runs
  <2> QED  BY <1>1, <2>1, Taken DEF IInv, Packets
<1>6. Answers'
  <2>1. ASSUME NEW d \in Client
        PROVE  IsSeq(toClient'[d]) /\ \A m \in ToSet(toClient'[d]) : TrueOfFace(cl[d].cmd, m, relay')
    <3>1. \/ toClient'[d] = toClient[d]
          \/ d = c /\ answer # None /\ toClient'[d] = Append(toClient[d], answer)
      BY <1>2 DEF IInv, Runs
    <3> QED  BY <1>2, <1>3, <3>1, Appended DEF IInv, Answers
  <2> QED  BY <1>1, <2>1 DEF Answers
<1> QED  BY <1>4, <1>5, <1>6 DEF IInv

LEMMA CollectKeeps ==
  ASSUME IInv, NEW c \in Client, Collect(c)
  PROVE  IInv'
<1> DEFINE m == Head(toClient[c])
           a == cl[c].cmd
           seg == [kind |-> "seg", name |-> SegName(cl[c].part + 1)]
           face == [id |-> Extract(m, "FACEID"), host |-> a.host, port |-> a.port]
<1>1. relay' = relay /\ toClient[c] # <<>> /\ toClient' = [toClient EXCEPT ![c] = Tail(@)]
  BY DEF Collect
<1>2. /\ DOMAIN cl' = Client
      /\ \A d \in Client : DOMAIN cl'[d] = DOMAIN cl[d] /\ cl'[d].cmd = cl[d].cmd
  BY DEF Collect, IInv, Runs
<1>3. toRelay' = [toRelay EXCEPT ![c] = IF HasNext(m) THEN Append(@, seg) ELSE @]
  BY DEF Collect
<1>4. told' = IF m.cmd = "newface" /\ m.text = "worked" /\ a.verb # "foreign"
              THEN told \cup {face} ELSE told
  BY DEF Collect
<1>5. Runs'
  BY <1>1, <1>2, <1>3 DEF IInv, Runs
<1>6. Packets'
  <2>1. seg.kind # "cmd"
    OBVIOUS
  <2> HIDE DEF seg
  <2>2. \A d \in Client : \/ toRelay'[d] = toRelay[d]
                          \/ d = c /\ toRelay'[d] = Append(toRelay[d], seg)
    BY <1>3 DEF IInv, Runs
  <2>3. ASSUME NEW d \in Client
        PROVE  IsSeq(toRelay'[d]) /\ ToSet(toRelay'[d]) \subseteq ToSet(toRelay[d]) \cup {seg}
    <3>1. IsSeq(toRelay[d])
      BY DEF IInv, Packets
    <3>2. /\ IsSeq(Append(toRelay[d], seg))
          /\ ToSet(Append(toRelay[d], seg)) = ToSet(toRelay[d]) \cup {seg}
      BY <3>1, Appended
    <3>3. toRelay'[d] \in {toRelay[d], Append(toRelay[d], seg)}
      BY <2>2
    <3> QED  BY <3>1, <3>2, <3>3
  <2>4. ASSUME NEW d \in Client, NEW p \in ToSet(toRelay'[d]), p.kind = "cmd"
        PROVE  p.rq \in Build(cl[d].cmd) /\ p.rq # None
    <3>1. p \in ToSet(toRelay[d])
      BY <2>1, <2>3, <2>4
    <3> QED  BY <2>4, <3>1 DEF IInv, Packets
  <2> QED  BY <1>2, <2>3, <2>4 DEF Packets
<1>7. Answers'
  <2>1. \A d \in Client : \/ toClient'[d] = toClient[d]
                          \/ d = c /\ toClient'[d] = Tail(toClient[d])
    BY <1>1 DEF IInv, Runs
  <2> QED  BY <1>1, <1>2, <2>1, Taken DEF IInv, Answers
<1>8. ToldRight'
  <2>1. m \in ToSet(toClient[c])
    BY <1>1, Taken DEF IInv, Answers
  <2>2. TrueOfFace(a, m, relay)
    BY <2>1 DEF IInv, Answers
  <2>3. face.id = Extract(m, "FACEID") /\ face.host = a.host /\ face.port = a.port
    OBVIOUS
  <2>4. told' = told \/ (told' = told \cup {face} /\ Names(relay, face.id, face.host, face.port))
    BY <1>4, <2>2, <2>3 DEF TrueOfFace, Works
  <2> HIDE DEF face
  <2> QED  BY <1>1, <2>4 DEF IInv, ToldRight
<1> QED  BY <1>1, <1>5, <1>6, <1>7, <1>8 DEF IInv

LEMMA LoseKeeps ==
  ASSUME IInv, NEW c \in Client, Lose(c)
  PROVE  IInv'
<1>1. relay' = relay /\ cl' = cl /\ told' = told
  BY DEF Lose
<1>2. \/ /\ toRelay[c] # <<>> /\ toRelay' = [toRelay EXCEPT ![c] = Tail(@)]
         /\ toClient' = toClient
      \/ /\ toClient[c] # <<>> /\ toClient' = [toClient EXCEPT ![c] = Tail(@)]
         /\ toRelay' = toRelay
  BY DEF Lose
<1>3. Runs' /\ RelayOK(relay)' /\ ToldRight'
  BY <1>1, <1>2 DEF IInv, Runs, ToldRight
<1>4. \A d \in Client : \/ toRelay'[d] = toRelay[d]
                        \/ d = c /\ toRelay[c] # <<>> /\ toRelay'[d] = Tail(toRelay[d])
  BY <1>2 DEF IInv, Runs
<1>5. \A d \in Client : \/ toClient'[d] = toClient[d]
                        \/ d = c /\ toClient[c] # <<>> /\ toClient'[d] = Tail(toClient[d])
  BY <1>2 DEF IInv, Runs
<1>6. Packets'
  BY <1>1, <1>4, Taken DEF IInv, Packets
<1>7. Answers'
  BY <1>1, <1>5, Taken DEF IInv, Answers
<1> QED  BY <1>3, <1>6, <1>7 DEF IInv

(* What ages leaves the numbers of the others. *)
LEMMA AgeingKeeps ==
  ASSUME IInv, ExpireFace \/ ExpireEntry
  PROVE  IInv'
<1>1. cl' = cl /\ toRelay' = toRelay /\ toClient' = toClient /\ told' = told
  BY DEF ExpireFace, ExpireEntry
<1>2. Keeps(relay, relay')
  <2>1. ASSUME ExpireFace  PROVE Keeps(relay, relay')
    BY <2>1, FaceRemoveKeeps DEF ExpireFace, IInv
  <2>2. ASSUME ExpireEntry  PROVE Keeps(relay, relay')
    <3>1. PICK i \in relay.pit : relay' = [relay EXCEPT !.pit = @ \ {i}]
      BY <2>2 DEF ExpireEntry
    <3> QED  BY <3>1, KeepsOthers DEF IInv, RelayOK
  <2> QED  BY <2>1, <2>2
<1>3. /\ \A d \in Client : \A m \in ToSet(toClient[d]) : TrueOfFace(cl[d].cmd, m, relay')
      /\ \A t \in told : Names(relay', t.id, t.host, t.port)
  BY <1>2, NamesKept DEF IInv
<1> QED  BY <1>1, <1>2, <1>3 DEF IInv, Runs, Packets, Answers, ToldRight, Keeps

LEMMA IInvNext == IInv /\ [Next]_vars => IInv'
<1> SUFFICES ASSUME IInv, [Next]_vars  PROVE IInv'
  OBVIOUS
<1>1. CASE \E c \in Client : Send(c) \/ Receive(c) \/ Collect(c) \/ Lose(c)
  BY <1>1, SendKeeps, ReceiveKeeps, CollectKeeps, LoseKeeps
<1>2. CASE ExpireFace \/ ExpireEntry
  BY <1>2, AgeingKeeps
<1>3. CASE UNCHANGED vars
  BY <1>3 DEF vars, IInv, Runs, Packets, Answers, ToldRight
<1> QED  BY <1>1, <1>2, <1>3 DEF Next

LEMMA IInvIsInvariant == Spec => []IInv
BY IInvInit, IInvNext, PTL DEF Spec

(* A face id that a user was told of never stands for another peer, and routes lead to faces
   that are there (ccnl_get_face_or_create, ccnl_face_remove). *)
THEOREM FaceIdsStand == Spec => []FacesAsTold
<1>1. IInv => FacesAsTold
  BY DEF IInv, ToldRight, Names, RelayOK, FacesAsTold
<1> QED  BY <1>1, IInvIsInvariant, PTL

(* Only the relay's answer makes an answer queue longer. *)
LEMMA StepAsAsked ==
  ASSUME IInv, Next, NEW c \in Client, Len(toClient'[c]) > Len(toClient[c])
  PROVE  Wanted(cl[c].cmd, Last(toClient'[c]), relay')
<1>1. IsSeq(toClient[c]) /\ DOMAIN toClient = Client
  BY DEF IInv, Answers, Runs
<1>2. Len(toClient[c]) \in Nat
  BY <1>1 DEF IsSeq
<1>3. toClient'[c] # toClient[c]
  BY <1>2
<1>4. toClient[c] # <<>> => toClient'[c] # Tail(toClient[c])
  <2>1. ASSUME toClient[c] # <<>>, toClient'[c] = Tail(toClient[c])
        PROVE  FALSE
    <3>1. IsSeq(Tail(toClient[c])) /\ Len(Tail(toClient[c])) < Len(toClient[c])
      BY <1>1, <2>1, Taken
    <3>2. Len(Tail(toClient[c])) \in Nat
      BY <3>1 DEF IsSeq
    <3> QED  BY <1>2, <2>1, <3>1, <3>2
  <2> QED  BY <2>1
<1>5. PICK d \in Client : Receive(d)
  <2>1. ~ (ExpireFace \/ ExpireEntry)
    BY <1>3 DEF ExpireFace, ExpireEntry
  <2>2. PICK d \in Client : Send(d) \/ Receive(d) \/ Collect(d) \/ Lose(d)
    BY <2>1 DEF Next
  <2>3. ~ Send(d)
    BY <1>3 DEF Send
  <2>4. ~ Collect(d)
    <3>1. Collect(d) => toClient[d] # <<>> /\ toClient' = [toClient EXCEPT ![d] = Tail(@)]
      BY DEF Collect
    <3> QED  BY <1>1, <1>3, <1>4, <3>1
  <2>5. ~ Lose(d)
    <3>1. Lose(d) => \/ toClient' = toClient
                     \/ toClient[d] # <<>> /\ toClient' = [toClient EXCEPT ![d] = Tail(@)]
      BY DEF Lose
    <3> QED  BY <1>1, <1>3, <1>4, <3>1
  <2> QED  BY <2>2, <2>3, <2>4, <2>5
<1>6. PICK answer :
        /\ toClient' = [toClient EXCEPT ![d] = IF answer = None THEN @ ELSE Append(@, answer)]
        /\ answer # None => Wanted(cl[d].cmd, answer, relay')
  BY <1>5, ReceiveDoes
<1>7. d = c /\ answer # None /\ toClient'[c] = Append(toClient[c], answer)
  BY <1>1, <1>3, <1>6
<1> QED  BY <1>1, <1>6, <1>7, Appended

(* What an answer says that a command did is in the relay's tables, as the user's words asked
   for it (the mk*Request of ccn-lite-ctrl.c, the handlers of ccnl-mgmt.c), for every command
   but those for a new device; and an answer to a command that this relay does not know or
   cannot do never says that it worked. *)
THEOREM CommandsMeanWhatTheySay == Spec => AsAsked
<1> DEFINE A == \A c \in Client :
                  Len(toClient'[c]) > Len(toClient[c]) =>
                    Wanted(cl[c].cmd, Last(toClient'[c]), relay')
<1>1. IInv /\ [Next]_vars => [A]_vars
  <2>1. IInv /\ Next => A
    BY StepAsAsked
  <2> QED  BY <2>1
<1>2. AsAsked <=> [][A]_vars
  BY DEF AsAsked
<1> HIDE DEF A
<1>3. []IInv /\ [][Next]_vars => [][A]_vars
  BY <1>1, PTL
<1> QED  BY <1>2, <1>3, IInvIsInvariant, PTL DEF Spec
=============================================================================
