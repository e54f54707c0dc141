--------------------------- MODULE Network_proofs ---------------------------
(***************************************************************************)
(* What the client of module Network writes out, for every file, network   *)
(* and pair of relays: theorem FetchedInOrder.                             *)
(*                                                                         *)
(* A fetch is of a bare content or of chunks, and everything that is under *)
(* way, pending or answered is of its kind: a relay sends on the name it   *)
(* was asked for, and answers it only with a content whose chunk number is *)
(* the one in the name.                                                    *)
(***************************************************************************)
EXTENDS Network, TLAPS

(***************************************************************************)
(* The inductive invariant.                                                *)
(***************************************************************************)

(* The client asks for the one packet, and not for chunks. *)
Bare == client.name.chunk = -1 /\ client.name.suite # "ccntlv"

OfTheKind(pkt) == pkt.name.chunk = -1 <=> Bare

Request(pkt) == IsInterest(pkt) /\ "name" \in DOMAIN pkt /\ OfTheKind(pkt)
Reply(pkt) == pkt \in Contents /\ OfTheKind(pkt)

Fits(m) ==
  /\ DOMAIN m = {"from", "to", "pkt", "late"}
  /\ Request(m.pkt) \/ Reply(m.pkt)
  /\ m.to = "client" => Reply(m.pkt)

EntriesFit(pit) == \A i \in pit : "pkt" \in DOMAIN i /\ Request(i.pkt)

CacheFits(cs) == \A c \in cs : "data" \in DOMAIN c /\ c.data \in Contents

(* Relay A asks relay B alone, and relay B nobody. *)
LeadsOn(fib, faces, seqno) ==
  /\ \A r \in fib : r.face = 2
  /\ 2 \in DOMAIN faces /\ faces[2].peer = "B" /\ faces[2].static
  /\ DOMAIN faces[2] = {"peer", "static", "reflect", "age"}
  /\ seqno \in Nat /\ seqno >= 2

(* The client knows where it is: as many chunks are written as cur counts. *)
Written ==
  /\ DOMAIN client = {"state", "name", "cur", "retry", "left", "out"}
  /\ client.out \in Seq(Contents)
  /\ client.cur \in Nat \cup {-1}
  /\ client.name \in Fetched
  /\ client.name.suite = "ccntlv" => client.cur # -1
  /\ Bare => /\ client.cur = -1
             /\ client.out = <<>> \/ (client.state = "done" /\ client.out = <<Single>>)
  /\ ~ Bare => /\ \A k \in DOMAIN client.out : client.out[k].name.chunk \in {k - 1, 0}
               /\ client.state # "done" =>
                    Len(client.out) = IF client.cur = -1 THEN 0 ELSE client.cur

IInv ==
  /\ \A m \in net : Fits(m)
  /\ EntriesFit(aPit) /\ EntriesFit(bPit)
  /\ CacheFits(aCs) /\ CacheFits(bCs)
  /\ LeadsOn(aFib, aFaces, aSeqno) /\ bFib = {}
  /\ Written
-----------------------------------------------------------------------------
(* The contents of the network. *)

LEMMA ContentIs ==
  ASSUME NEW d \in Contents
  PROVE  /\ "name" \in DOMAIN d /\ ~ IsInterest(d)
         /\ d = Single \/ d.name.chunk \in Nat
         /\ d.name.chunk = -1 <=> d = Single
<1>1. CASE d = Single
  BY <1>1, ContentAssumption DEF IsInterest
<1>2. ASSUME NEW k \in 0..Pieces - 1, d = Chunk(k)
      PROVE  DOMAIN d = DOMAIN Single /\ d.name.chunk = k /\ k \in Nat
  BY <1>2, ContentAssumption DEF Chunk, ChunkName
<1> QED  BY <1>1, <1>2, ContentAssumption DEF Contents, IsInterest

(* A packet is either an Interest or Data. *)
LEMMA Apart ==
  ASSUME NEW pkt
  PROVE  /\ Request(pkt) => IsInterest(pkt)
         /\ Reply(pkt) => ~ IsInterest(pkt)
BY ContentIs DEF Request, Reply

(* What is matched has the same chunk number. *)
LEMMA AnswersTheChunk ==
  ASSUME NEW d, NEW p
  PROVE  /\ A!Answers(d, p) => d.name.chunk = p.name.chunk
         /\ B!Answers(d, p) => d.name.chunk = p.name.chunk
BY DEF A!Answers, A!SameName, A!IPrefixOfC, A!PrefixCmp,
       B!Answers, B!SameName, B!IPrefixOfC, B!PrefixCmp

LEMMA Hops ==
  ASSUME NEW p, Request(p)
  PROVE  Request(A!Hop(p)) /\ Request(B!Hop(p))
BY DEF Request, OfTheKind, IsInterest, A!Hop, B!Hop
-----------------------------------------------------------------------------
(***************************************************************************)
(* What a relay does keeps its tables in shape, and what it sends is of    *)
(* the kind of what it was sent.                                           *)
(***************************************************************************)
LEMMA AHandles ==
  ASSUME NEW f, NEW p, Request(p), EntriesFit(aPit), CacheFits(aCs), A!HandleInterest(f, p)
  PROVE  /\ EntriesFit(aPit') /\ CacheFits(aCs') /\ aFib' = aFib
         /\ \A t \in aTxInterest' : Request(t[2]) /\ \E r \in aFib : t[1] = r.face
         /\ \A t \in aTxData' : Reply(t[2])
<1>1. CASE A!DropInterest(f, p)
  BY <1>1 DEF A!DropInterest, A!tables, A!Quiet
<1>2. CASE A!AnswerFromCache(f, p)
  <2>1. PICK c \in aCs : A!CMatch(p, c) /\ aTxData' = {<<f, c.data>>}
    BY <1>2 DEF A!AnswerFromCache
  <2>2. c.data \in Contents /\ c.data.name.chunk = p.name.chunk
    BY <2>1, AnswersTheChunk DEF A!CMatch, CacheFits
  <2>3. Reply(c.data)
    BY <2>2 DEF Reply, Request, OfTheKind
  <2>4. UNCHANGED <<aFib, aPit, aCs>> /\ aTxInterest' = {}
    BY <1>2 DEF A!AnswerFromCache
  <2> QED  BY <2>1, <2>3, <2>4
<1>3. CASE A!RefuseInterest(f, p)
  BY <1>3 DEF A!RefuseInterest, A!Quiet
<1>4. CASE A!JoinEntry(f, p)
  <2>1. PICK i \in aPit : aPit' = (aPit \ {i}) \cup {[i EXCEPT !.pending = @ \cup {f}]}
    BY <1>4 DEF A!JoinEntry
  <2>2. EntriesFit(aPit')
    BY <2>1 DEF EntriesFit
  <2> QED  BY <1>4, <2>2 DEF A!JoinEntry, A!Quiet
<1>5. CASE A!CreateEntry(f, p)
  <2> DEFINE i == [A!NewEntry(A!Hop(p), 1, f) EXCEPT !.pending = {f}]
  <2>1. "pkt" \in DOMAIN i /\ i.pkt = A!Hop(p)
    BY DEF A!NewEntry
  <2>2. aPit' = aPit \cup {i} /\ aTxInterest' = A!Upstream(aFaces', i)
    BY <1>5 DEF A!CreateEntry
  <2> HIDE DEF i
  <2>3. EntriesFit(aPit')
    BY <2>1, <2>2, Hops DEF EntriesFit
  <2>4. \A t \in aTxInterest' : Request(t[2]) /\ \E r \in aFib : t[1] = r.face
    BY <2>1, <2>2, Hops DEF A!Upstream
  <2> QED  BY <1>5, <2>3, <2>4 DEF A!CreateEntry
<1> QED  BY <1>1, <1>2, <1>3, <1>4, <1>5 DEF A!HandleInterest

LEMMA AStores ==
  ASSUME NEW d, Reply(d), EntriesFit(aPit), CacheFits(aCs), A!DropData(d) \/ A!AcceptData(d)
  PROVE  /\ EntriesFit(aPit') /\ CacheFits(aCs') /\ aFib' = aFib
         /\ aTxInterest' = {}
         /\ \A t \in aTxData' : Reply(t[2])
<1>1. CASE A!DropData(d)
  BY <1>1 DEF A!DropData, A!tables, A!Quiet
<1>2. CASE A!AcceptData(d)
  <2>1. EntriesFit(aPit') /\ \A t \in aTxData' : Reply(t[2])
    BY <1>2 DEF A!AcceptData, A!ServePending, EntriesFit
  <2>2. ASSUME NEW s, A!AddToCache(A!NewContent(d, s))
        PROVE  CacheFits(aCs')
    <3>1. PICK room \in SUBSET aCs : aCs' = A!Insert(room, A!NewContent(d, s))
      BY <2>2 DEF A!AddToCache
    <3>2. aCs' \subseteq room \cup {A!NewContent(d, s)}
      BY <3>1 DEF A!Insert
    <3> QED  BY <3>2 DEF CacheFits, A!NewContent, Reply
  <2> QED  BY <1>2, <2>1, <2>2 DEF A!AcceptData
<1> QED  BY <1>1, <1>2

LEMMA AAges ==
  ASSUME EntriesFit(aPit), CacheFits(aCs), A!Ageing
  PROVE  /\ EntriesFit(aPit') /\ CacheFits(aCs') /\ aFib' \subseteq aFib
         /\ \A t \in aTxInterest' : Request(t[2]) /\ \E r \in aFib : t[1] = r.face
<1>1. EntriesFit(A!Retransmitted)
  BY DEF A!Retransmitted, EntriesFit
<1>2. EntriesFit(A!PitWithout(A!Retransmitted, A!Idle))
  BY <1>1 DEF A!PitWithout, EntriesFit
<1>3. aPit' = A!PitWithout(A!Retransmitted, A!Idle)
  BY DEF A!Ageing
<1>4. CacheFits(aCs')
  BY DEF A!Ageing, CacheFits
<1>5. ASSUME NEW t \in aTxInterest'
      PROVE  Request(t[2]) /\ \E r \in aFib : t[1] = r.face
  BY <1>1 DEF A!Ageing, A!Upstream, EntriesFit
<1> QED  BY <1>2, <1>3, <1>4, <1>5 DEF A!Ageing, A!RoutesWithout

LEMMA ATicks ==
  ASSUME EntriesFit(aPit), CacheFits(aCs), A!Tick
  PROVE  EntriesFit(aPit') /\ CacheFits(aCs')
BY DEF A!Tick, EntriesFit, CacheFits

LEMMA BHandles ==
  ASSUME NEW f, NEW p, Request(p), EntriesFit(bPit), CacheFits(bCs), B!HandleInterest(f, p)
  PROVE  /\ EntriesFit(bPit') /\ CacheFits(bCs') /\ bFib' = bFib
         /\ \A t \in bTxInterest' : Request(t[2]) /\ \E r \in bFib : t[1] = r.face
         /\ \A t \in bTxData' : Reply(t[2])
<1>1. CASE B!DropInterest(f, p)
  BY <1>1 DEF B!DropInterest, B!tables, B!Quiet
<1>2. CASE B!AnswerFromCache(f, p)
  <2>1. PICK c \in bCs : B!CMatch(p, c) /\ bTxData' = {<<f, c.data>>}
    BY <1>2 DEF B!AnswerFromCache
  <2>2. c.data \in Contents /\ c.data.name.chunk = p.name.chunk
    BY <2>1, AnswersTheChunk DEF B!CMatch, CacheFits
  <2>3. Reply(c.data)
    BY <2>2 DEF Reply, Request, OfTheKind
  <2>4. UNCHANGED <<bFib, bPit, bCs>> /\ bTxInterest' = {}
    BY <1>2 DEF B!AnswerFromCache
  <2> QED  BY <2>1, <2>3, <2>4
<1>3. CASE B!RefuseInterest(f, p)
  BY <1>3 DEF B!RefuseInterest, B!Quiet
<1>4. CASE B!JoinEntry(f, p)
  <2>1. PICK i \in bPit : bPit' = (bPit \ {i}) \cup {[i EXCEPT !.pending = @ \cup {f}]}
    BY <1>4 DEF B!JoinEntry
  <2>2. EntriesFit(bPit')
    BY <2>1 DEF EntriesFit
  <2> QED  BY <1>4, <2>2 DEF B!JoinEntry, B!Quiet
<1>5. CASE B!CreateEntry(f, p)
  <2> DEFINE i == [B!NewEntry(B!Hop(p), 1, f) EXCEPT !.pending = {f}]
  <2>1. "pkt" \in DOMAIN i /\ i.pkt = B!Hop(p)
    BY DEF B!NewEntry
  <2>2. bPit' = bPit \cup {i} /\ bTxInterest' = B!Upstream(bFaces', i)
    BY <1>5 DEF B!CreateEntry
  <2> HIDE DEF i
  <2>3. EntriesFit(bPit')
    BY <2>1, <2>2, Hops DEF EntriesFit
  <2>4. \A t \in bTxInterest' : Request(t[2]) /\ \E r \in bFib : t[1] = r.face
    BY <2>1, <2>2, Hops DEF B!Upstream
  <2> QED  BY <1>5, <2>3, <2>4 DEF B!CreateEntry
<1> QED  BY <1>1, <1>2, <1>3, <1>4, <1>5 DEF B!HandleInterest

LEMMA BStores ==
  ASSUME NEW d, Reply(d), EntriesFit(bPit), CacheFits(bCs), B!DropData(d) \/ B!AcceptData(d)
  PROVE  /\ EntriesFit(bPit') /\ CacheFits(bCs') /\ bFib' = bFib
         /\ bTxInterest' = {}
         /\ \A t \in bTxData' : Reply(t[2])
<1>1. CASE B!DropData(d)
  BY <1>1 DEF B!DropData, B!tables, B!Quiet
<1>2. CASE B!AcceptData(d)
  <2>1. EntriesFit(bPit') /\ \A t \in bTxData' : Reply(t[2])
    BY <1>2 DEF B!AcceptData, B!ServePending, EntriesFit
  <2>2. ASSUME NEW s, B!AddToCache(B!NewContent(d, s))
        PROVE  CacheFits(bCs')
    <3>1. PICK room \in SUBSET bCs : bCs' = B!Insert(room, B!NewContent(d, s))
      BY <2>2 DEF B!AddToCache
    <3>2. bCs' \subseteq room \cup {B!NewContent(d, s)}
      BY <3>1 DEF B!Insert
    <3> QED  BY <3>2 DEF CacheFits, B!NewContent, Reply
  <2> QED  BY <1>2, <2>1, <2>2 DEF B!AcceptData
<1> QED  BY <1>1, <1>2

LEMMA BAges ==
  ASSUME EntriesFit(bPit), CacheFits(bCs), B!Ageing
  PROVE  /\ EntriesFit(bPit') /\ CacheFits(bCs') /\ bFib' \subseteq bFib
         /\ \A t \in bTxInterest' : Request(t[2]) /\ \E r \in bFib : t[1] = r.face
<1>1. EntriesFit(B!Retransmitted)
  BY DEF B!Retransmitted, EntriesFit
<1>2. EntriesFit(B!PitWithout(B!Retransmitted, B!Idle))
  BY <1>1 DEF B!PitWithout, EntriesFit
<1>3. bPit' = B!PitWithout(B!Retransmitted, B!Idle)
  BY DEF B!Ageing
<1>4. CacheFits(bCs')
  BY DEF B!Ageing, CacheFits
<1>5. ASSUME NEW t \in bTxInterest'
      PROVE  Request(t[2]) /\ \E r \in bFib : t[1] = r.face
  BY <1>1 DEF B!Ageing, B!Upstream, EntriesFit
<1> QED  BY <1>2, <1>3, <1>4, <1>5 DEF B!Ageing, B!RoutesWithout

LEMMA BTicks ==
  ASSUME EntriesFit(bPit), CacheFits(bCs), B!Tick
  PROVE  EntriesFit(bPit') /\ CacheFits(bCs')
BY DEF B!Tick, EntriesFit, CacheFits
-----------------------------------------------------------------------------
(* The face over which relay A asks stays. *)

LEMMA LeadsOnWhenReceiving ==
  ASSUME NEW f, NEW q, LeadsOn(aFib, aFaces, aSeqno), A!Rx(f, q), aFib' = aFib
  PROVE  LeadsOn(aFib', aFaces', aSeqno')
<1>1. f \in Nat /\ (f \in DOMAIN aFaces \/ f = aSeqno + 1)
  BY DEF A!Rx, A!IsFaceFor, A!FacesOf, A!FaceId
<1>2. f = 2 => f \in DOMAIN aFaces
  BY <1>1 DEF LeadsOn
<1>3. aSeqno' \in Nat /\ aSeqno' >= 2
  BY <1>1 DEF LeadsOn, A!Rx
<1>4. 2 \in DOMAIN aFaces'
  BY DEF LeadsOn, A!Rx, A!Refreshed, A!WithFace
<1>5. aFaces'[2] = IF f = 2 THEN [aFaces[2] EXCEPT !.age = 0] ELSE aFaces[2]
  BY <1>2 DEF LeadsOn, A!Rx, A!Refreshed, A!WithFace
<1> QED  BY <1>3, <1>4, <1>5 DEF LeadsOn

LEMMA LeadsOnWhenAgeing ==
  ASSUME LeadsOn(aFib, aFaces, aSeqno), A!Ageing
  PROVE  LeadsOn(aFib', aFaces', aSeqno')
<1>1. 2 \notin A!Idle
  BY DEF LeadsOn, A!Idle
<1>2. 2 \in DOMAIN aFaces' /\ aFaces'[2] = aFaces[2]
  BY <1>1 DEF LeadsOn, A!Ageing, A!FacesWithout
<1> QED  BY <1>2 DEF LeadsOn, A!Ageing, A!RoutesWithout

LEMMA LeadsOnAsTimePasses ==
  ASSUME LeadsOn(aFib, aFaces, aSeqno), A!Tick
  PROVE  LeadsOn(aFib', aFaces', aSeqno')
<1>1. 2 \in DOMAIN aFaces' /\ aFaces'[2] = aFaces[2]
  BY DEF LeadsOn, A!Tick
<1> QED  BY <1>1 DEF LeadsOn, A!Tick
-----------------------------------------------------------------------------
(* The client. *)

LEMMA Taking ==
  ASSUME NEW d, Reply(d), Written, client.state = "wait", client' = Took(d)
  PROVE  Written' /\ client'.name = client.name
<1> DEFINE k == d.name.chunk
           cur == IF client.cur = -1 THEN 0 ELSE client.cur
<1>1. /\ d \in Contents /\ (d = Single \/ k \in Nat) /\ (k = -1 <=> d = Single)
      /\ k = -1 <=> Bare
  BY ContentIs DEF Reply, OfTheKind
<1>2. cur \in Nat /\ client.out \in Seq(Contents)
  BY DEF Written
<1>3. CASE ~ Extracts(d)
  BY <1>3 DEF Took, Retry, Written, Bare
<1>4. CASE Extracts(d) /\ k = -1
  <2>1. client' = Ended(d)
    BY <1>4 DEF Took
  <2>2. client.out = <<>> /\ Bare /\ d = Single /\ client.cur = -1
    BY <1>1, <1>4 DEF Written
  <2>3. Append(client.out, d) = <<Single>> /\ Append(client.out, d) \in Seq(Contents)
    BY <1>1, <2>2
  <2> QED  BY <2>1, <2>2, <2>3 DEF Ended, Written, Bare
<1>5. CASE Extracts(d) /\ k # -1 /\ ~ Takes(cur, k)
  <2>1. client' = [Retry EXCEPT !.cur = cur]
    BY <1>5 DEF Took
  <2>2. ~ Bare
    BY <1>1, <1>5
  <2> QED  BY <1>2, <2>1, <2>2 DEF Retry, Written, Bare
<1>6. CASE Extracts(d) /\ k # -1 /\ Takes(cur, k)
  <2>1. /\ DOMAIN client' = DOMAIN client /\ client'.name = client.name
        /\ client'.out = Append(client.out, d)
        /\ \/ client'.state = "done" /\ client'.cur = client.cur
           \/ client'.state = "send" /\ client'.cur = cur + 1
    BY <1>6 DEF Took, Ended, Written
  <2>2. ~ Bare /\ ~ Bare'
    BY <1>1, <1>6, <2>1 DEF Bare
  <2>3. Len(client.out) = cur /\ k \in {cur, 0}
    BY <1>6, <2>2 DEF Written, Takes
  <2>4. /\ client'.out \in Seq(Contents) /\ Len(client'.out) = cur + 1
        /\ DOMAIN client'.out = 1..cur + 1
        /\ client'.out[cur + 1] = d
        /\ \A n \in 1..cur : client'.out[n] = client.out[n]
        /\ DOMAIN client.out = 1..cur
    BY <1>1, <1>2, <2>1, <2>3
  <2> HIDE DEF cur
  <2>5. \A n \in DOMAIN client'.out : client'.out[n].name.chunk \in {n - 1, 0}
    <3>1. \A n \in DOMAIN client.out : client.out[n].name.chunk \in {n - 1, 0}
      BY <2>2 DEF Written
    <3>2. client'.out[cur + 1].name.chunk \in {(cur + 1) - 1, 0}
      BY <1>2, <2>3, <2>4
    <3>3. \A n \in 1..cur + 1 : n \in 1..cur \/ n = cur + 1
      BY <1>2
    <3> QED  BY <2>4, <3>1, <3>2, <3>3
  <2>6. client'.cur \in Nat \cup {-1} /\ (client.cur # -1 => client'.cur # -1)
    BY <1>2, <2>1 DEF Written
  <2>7. client'.state # "done" => Len(client'.out) = client'.cur /\ client'.cur # -1
    BY <1>2, <2>1, <2>4
  <2> QED  BY <2>1, <2>2, <2>4, <2>5, <2>6, <2>7 DEF Written
<1> QED  BY <1>3, <1>4, <1>5, <1>6

LEMMA Asking ==
  ASSUME NEW n, NEW j, Written
  PROVE  Request(Ask(IF client.cur = -1 THEN client.name ELSE ChunkName(client.name, client.cur), n, j))
<1> DEFINE name == IF client.cur = -1 THEN client.name ELSE ChunkName(client.name, client.cur)
<1>1. DOMAIN client.name = {"suite", "comps", "chunk"} /\ client.name.chunk \in Nat \cup {-1}
  BY ContentAssumption, NetworkAssumption DEF Written
<1>2. name.chunk = -1 <=> Bare
  BY <1>1 DEF Written, ChunkName, Bare
<1>3. /\ Ask(name, n, j).name = name
      /\ {"name", "nonce"} \subseteq DOMAIN Ask(name, n, j)
  BY DEF Ask
<1> QED  BY <1>2, <1>3 DEF Request, OfTheKind, IsInterest
-----------------------------------------------------------------------------
(* The parts of the invariant after a step, in terms of the kind before it. *)
LEMMA Preserved ==
  ASSUME IInv, client'.name = client.name, Written',
         \A m \in net' : Fits(m),
         EntriesFit(aPit'), CacheFits(aCs'), LeadsOn(aFib', aFaces', aSeqno'),
         EntriesFit(bPit'), CacheFits(bCs'), bFib' = {}
  PROVE  IInv'
<1>1. Bare' <=> Bare
  BY DEF Bare
<1>2. \A pkt : (Request(pkt)' <=> Request(pkt)) /\ (Reply(pkt)' <=> Reply(pkt))
  BY <1>1 DEF Request, Reply, OfTheKind
<1>3. (\A m \in net : Fits(m))'
  BY <1>2 DEF Fits
<1>4. EntriesFit(aPit)' /\ EntriesFit(bPit)'
  BY <1>2 DEF EntriesFit
<1>5. CacheFits(aCs)' /\ CacheFits(bCs)'
  BY DEF CacheFits
<1>6. LeadsOn(aFib, aFaces, aSeqno)'
  BY DEF LeadsOn
<1> QED  BY <1>3, <1>4, <1>5, <1>6 DEF IInv

LEMMA Datagrams ==
  ASSUME NEW from, NEW to, NEW pkt, (Request(pkt) /\ to # "client") \/ Reply(pkt)
  PROVE  Fits(Datagram(from, to, pkt))
BY DEF Fits, Datagram

LEMMA WrittenStays ==
  ASSUME Written, UNCHANGED client
  PROVE  Written' /\ client'.name = client.name
BY DEF Written, Bare

THEOREM IInvInit == Init => IInv
<1> SUFFICES ASSUME Init  PROVE IInv
  OBVIOUS
<1>1. aPit = {} /\ aCs = {} /\ net = {} /\ bFib = {} /\ bPit = {}
  BY DEF Init, B!Init
<1>2. CacheFits(bCs)
  BY DEF Init, CacheFits, B!NewContent
<1>3. LeadsOn(aFib, aFaces, aSeqno)
  BY DEF Init, LeadsOn
<1>4. PICK name \in Fetched :
        client = [state |-> "send", name |-> name, cur |-> IF name.suite = "ccntlv" THEN 0 ELSE -1,
                  retry |-> 0, left |-> 0, out |-> <<>>]
  BY DEF Init
<1>5. Written
  <2>1. <<>> \in Seq(Contents) /\ Len(<<>>) = 0 /\ DOMAIN <<>> = {}
    OBVIOUS
  <2> QED  BY <1>4, <2>1 DEF Written, Bare
<1> QED  BY <1>1, <1>2, <1>3, <1>5 DEF IInv, EntriesFit, CacheFits

THEOREM IInvNext == IInv /\ [Next]_vars => IInv'
<1> SUFFICES ASSUME IInv, [Next]_vars  PROVE IInv'
  OBVIOUS
<1>i. /\ \A m \in net : Fits(m)
      /\ EntriesFit(aPit) /\ EntriesFit(bPit) /\ CacheFits(aCs) /\ CacheFits(bCs)
      /\ LeadsOn(aFib, aFaces, aSeqno) /\ bFib = {} /\ Written
  BY DEF IInv
<1>1. ASSUME NEW m \in net, RxA(m)
      PROVE  IInv'
  <2>1. PICK f \in A!FaceId :
          /\ A!Rx(f, m.from)
          /\ \/ IsInterest(m.pkt) /\ A!HandleInterest(f, m.pkt)
             \/ ~ IsInterest(m.pkt) /\ (A!DropData(m.pkt) \/ A!AcceptData(m.pkt))
    BY <1>1 DEF RxA
  <2>2. /\ net' = (net \ {m}) \cup SentBy("A", aFaces', aTxInterest', aTxData')
        /\ UNCHANGED bVars /\ UNCHANGED client
    BY <1>1 DEF RxA
  <2>3. Request(m.pkt) \/ Reply(m.pkt)
    BY <1>i DEF Fits
  <2>4. /\ EntriesFit(aPit') /\ CacheFits(aCs') /\ aFib' = aFib
        /\ \A t \in aTxInterest' : Request(t[2]) /\ \E r \in aFib : t[1] = r.face
        /\ \A t \in aTxData' : Reply(t[2])
    <3>1. CASE Request(m.pkt)
      <4>1. A!HandleInterest(f, m.pkt)
        BY <2>1, <3>1, Apart
      <4> QED  BY <1>i, <3>1, <4>1, AHandles
    <3>2. CASE Reply(m.pkt)
      <4>1. A!DropData(m.pkt) \/ A!AcceptData(m.pkt)
        BY <2>1, <3>2, Apart
      <4> QED  BY <1>i, <3>2, <4>1, AStores
    <3> QED  BY <2>3, <3>1, <3>2
  <2>5. LeadsOn(aFib', aFaces', aSeqno')
    BY <1>i, <2>1, <2>4, LeadsOnWhenReceiving
  <2>6. \A t \in aTxInterest' : aFaces'[t[1]].peer = "B"
    BY <1>i, <2>4, <2>5 DEF LeadsOn
  <2>7. \A s \in net' : Fits(s)
    <3>1. \A s \in SentBy("A", aFaces', aTxInterest', aTxData') : Fits(s)
      BY <2>4, <2>6, Datagrams DEF SentBy
    <3> QED  BY <1>i, <2>2, <3>1
  <2> QED  BY <1>i, <2>2, <2>4, <2>5, <2>7, Preserved, WrittenStays DEF bVars
<1>2. ASSUME NEW m \in net, RxB(m)
      PROVE  IInv'
  <2>1. PICK f \in B!FaceId :
          /\ B!Rx(f, m.from)
          /\ \/ IsInterest(m.pkt) /\ B!HandleInterest(f, m.pkt)
             \/ ~ IsInterest(m.pkt) /\ (B!DropData(m.pkt) \/ B!AcceptData(m.pkt))
    BY <1>2 DEF RxB
  <2>2. /\ net' = (net \ {m}) \cup SentBy("B", bFaces', bTxInterest', bTxData')
        /\ UNCHANGED aVars /\ UNCHANGED client
    BY <1>2 DEF RxB
  <2>3. Request(m.pkt) \/ Reply(m.pkt)
    BY <1>i DEF Fits
  <2>4. /\ EntriesFit(bPit') /\ CacheFits(bCs') /\ bFib' = bFib
        /\ \A t \in bTxInterest' : \E r \in bFib : t[1] = r.face
        /\ \A t \in bTxData' : Reply(t[2])
    <3>1. CASE Request(m.pkt)
      <4>1. B!HandleInterest(f, m.pkt)
        BY <2>1, <3>1, Apart
      <4> QED  BY <1>i, <3>1, <4>1, BHandles
    <3>2. CASE Reply(m.pkt)
      <4>1. B!DropData(m.pkt) \/ B!AcceptData(m.pkt)
        BY <2>1, <3>2, Apart
      <4> QED  BY <1>i, <3>2, <4>1, BStores
    <3> QED  BY <2>3, <3>1, <3>2
  <2>5. bTxInterest' = {}
    BY <1>i, <2>4
  <2>6. \A s \in net' : Fits(s)
    <3>1. \A s \in SentBy("B", bFaces', bTxInterest', bTxData') : Fits(s)
      BY <2>4, <2>5, Datagrams DEF SentBy
    <3> QED  BY <1>i, <2>2, <3>1
  <2> QED  BY <1>i, <2>2, <2>4, <2>6, Preserved, WrittenStays DEF aVars
<1>3. ASSUME NEW m \in net, ClientReceive(m)
      PROVE  IInv'
  <2>1. /\ m.to = "client" /\ client.state = "wait" /\ client' = Took(m.pkt)
        /\ net' = net \ {m} /\ UNCHANGED aVars /\ UNCHANGED bVars
    BY <1>3 DEF ClientReceive
  <2>2. Reply(m.pkt)
    BY <1>i, <2>1 DEF Fits
  <2>3. Written' /\ client'.name = client.name
    BY <1>i, <2>1, <2>2, Taking
  <2> QED  BY <1>i, <2>1, <2>3, Preserved DEF aVars, bVars
<1>4. CASE AgeA
  <2>1. /\ A!Ageing /\ net' = net \cup SentBy("A", aFaces, aTxInterest', {})
        /\ UNCHANGED bVars /\ UNCHANGED client
    BY <1>4 DEF AgeA
  <2>2. /\ EntriesFit(aPit') /\ CacheFits(aCs')
        /\ \A t \in aTxInterest' : Request(t[2]) /\ \E r \in aFib : t[1] = r.face
    BY <1>i, <2>1, AAges
  <2>3. \A s \in SentBy("A", aFaces, aTxInterest', {}) : Fits(s)
    <3>1. \A t \in aTxInterest' : aFaces[t[1]].peer = "B"
      BY <1>i, <2>2 DEF LeadsOn
    <3> QED  BY <2>2, <3>1, Datagrams DEF SentBy
  <2>4. LeadsOn(aFib', aFaces', aSeqno')
    BY <1>i, <2>1, LeadsOnWhenAgeing
  <2> QED  BY <1>i, <2>1, <2>2, <2>3, <2>4, Preserved, WrittenStays DEF bVars
<1>5. CASE AgeB
  <2>1. /\ B!Ageing /\ net' = net \cup SentBy("B", bFaces, bTxInterest', {})
        /\ UNCHANGED aVars /\ UNCHANGED client
    BY <1>5 DEF AgeB
  <2>2. /\ EntriesFit(bPit') /\ CacheFits(bCs') /\ bFib' \subseteq bFib
        /\ \A t \in bTxInterest' : \E r \in bFib : t[1] = r.face
    BY <1>i, <2>1, BAges
  <2>3. SentBy("B", bFaces, bTxInterest', {}) = {} /\ bFib' = {}
    BY <1>i, <2>2 DEF SentBy
  <2> QED  BY <1>i, <2>1, <2>2, <2>3, Preserved, WrittenStays DEF aVars
<1>6. CASE Second
  <2>1. /\ A!Tick /\ B!Tick /\ UNCHANGED net
        /\ client' = [client EXCEPT !.left = @ - 1]
    BY <1>6 DEF Second
  <2>2. Written' /\ client'.name = client.name
    BY <1>i, <2>1 DEF Written, Bare
  <2>3. EntriesFit(aPit') /\ CacheFits(aCs') /\ EntriesFit(bPit') /\ CacheFits(bCs')
    BY <1>i, <2>1, ATicks, BTicks
  <2>4. LeadsOn(aFib', aFaces', aSeqno') /\ bFib' = {}
    BY <1>i, <2>1, LeadsOnAsTimePasses DEF B!Tick
  <2> QED  BY <1>i, <2>1, <2>2, <2>3, <2>4, Preserved
<1>7. CASE ClientSend
  <2>1. client.state = "send" /\ UNCHANGED aVars /\ UNCHANGED bVars
    BY <1>7 DEF ClientSend
  <2>2. /\ client' \in {[client EXCEPT !.state = "wait", !.left = Wait], [client EXCEPT !.state = "failed"]}
        /\ \/ net' = net
           \/ \E j \in Junk :
                net' = net \cup {Datagram("client", "A",
                  Ask(IF client.cur = -1 THEN client.name ELSE ChunkName(client.name, client.cur),
                      Nonce(client.cur, client.retry + 1), j))}
    BY <1>7 DEF ClientSend
  <2>3. Written' /\ client'.name = client.name
    <3>1. /\ DOMAIN client' = DOMAIN client /\ client'.state # "done"
          /\ client'.name = client.name /\ client'.cur = client.cur /\ client'.out = client.out
      BY <1>i, <2>2 DEF Written
    <3>2. Bare' <=> Bare
      BY <3>1 DEF Bare
    <3> QED  BY <1>i, <2>1, <3>1, <3>2 DEF Written
  <2>4. \A s \in net' : Fits(s)
    BY <1>i, <2>2, Asking, Datagrams
  <2> QED  BY <1>i, <2>1, <2>3, <2>4, Preserved DEF aVars, bVars
<1>8. CASE ClientTimeout
  <2>1. Written' /\ client'.name = client.name
    BY <1>i, <1>8 DEF ClientTimeout, Retry, Written, Bare
  <2> QED  BY <1>i, <1>8, <2>1, Preserved DEF ClientTimeout, aVars, bVars
<1>9. ASSUME NEW m \in net, Lose(m) \/ Delay(m)
      PROVE  IInv'
  <2>1. /\ net' \subseteq net \cup {[m EXCEPT !.late = TRUE]}
        /\ UNCHANGED aVars /\ UNCHANGED bVars /\ UNCHANGED client
    BY <1>9 DEF Lose, Delay
  <2>2. Fits([m EXCEPT !.late = TRUE])
    BY <1>i DEF Fits
  <2> QED  BY <1>i, <2>1, <2>2, Preserved, WrittenStays DEF aVars, bVars
<1>10. CASE UNCHANGED vars
  BY <1>i, <1>10, Preserved, WrittenStays DEF vars, aVars, bVars
<1> QED  BY <1>1, <1>2, <1>3, <1>4, <1>5, <1>6, <1>7, <1>8, <1>9, <1>10 DEF Next, Transfer

(***************************************************************************)
(* What ccn-lite-fetch writes is the content, in order, but for a chunk 0  *)
(* that comes again, whatever the links lose or delay, the relays drop     *)
(* from their tables, and the memory of its requests holds.                *)
(***************************************************************************)
THEOREM FetchedInOrder == Spec => []InOrder
<1>1. IInv => InOrder
  BY DEF IInv, Written, InOrder
<1> QED  BY <1>1, IInvInit, IInvNext, PTL DEF Spec
=============================================================================
