------------------------------ MODULE Network ------------------------------
(***************************************************************************)
(* A client fetches content through two relays: ccn-lite-fetch asks relay  *)
(* A, whose only routes lead to relay B, which holds the content from the  *)
(* start.  The relays are two instances of module Relay; the client is     *)
(* ccnl-utils/src/ccn-lite-fetch.c; the links carry datagrams, which may   *)
(* be lost, or be delayed past a second.                                   *)
(***************************************************************************)
EXTENDS Integers, Sequences, FiniteSets

CONSTANTS
  NoValue, Word,
  Single,      \* a content of one packet, whose name has no chunk
  FileName, FileLen, ChunkSize,  \* a file cut into chunks by ccn-lite-produce
  Fetched,     \* the names the client may be started for, of these two
  ACache,      \* max_cache_entries of relay A
  Junk,        \* what memory may hold: [life, mbf], the lifetime in seconds
  Wait,        \* the client's -w, in seconds
  MaxRetry,    \* maxretry of the client
  MaxRetransmit,
  InterestTimeout,
  FaceTimeout, \* CCNL_FACE_TIMEOUT, longer than a fetch
  MaxLag,      \* bound: seconds a relay's ageing timer may be late
  MaxLoss,     \* bound: datagrams lost
  MaxLate      \* bound: datagrams that take longer than a second

(* Names are as in module Names, and Data packets as in module Relay. *)
ASSUME ContentAssumption ==
  /\ DOMAIN Single = {"name", "digest", "ppk", "fresh"}
  /\ \A name \in {Single.name, FileName} : DOMAIN name = {"suite", "comps", "chunk"}
  /\ Single.name.chunk = -1 /\ FileName.chunk \in Nat

ASSUME NetworkAssumption ==
  /\ FileLen \in Nat \ {0} /\ ChunkSize \in Nat \ {0} /\ MaxRetry \in Nat \ {0} /\ Wait \in Nat \ {0}
  /\ MaxLoss \in Nat /\ MaxLate \in Nat /\ (\A j \in Junk : j.life \in Nat /\ j.mbf \in BOOLEAN)
  /\ Fetched \subseteq {Single.name, FileName}

(***************************************************************************)
(* ccn-lite-produce reads the file piece by piece, until one is short or   *)
(* there is none, and tells with every chunk the number of the last, which *)
(* it works out from the length of the file.                               *)
(***************************************************************************)
Pieces == (FileLen + ChunkSize - 1) \div ChunkSize

Last == IF FileLen % ChunkSize = 0 THEN FileLen \div ChunkSize - 1 ELSE FileLen \div ChunkSize

ChunkName(name, k) == [name EXCEPT !.chunk = k]
Chunk(k) == [Single EXCEPT !.name = ChunkName(FileName, k)]
Contents == {Single} \cup {Chunk(k) : k \in 0..Pieces - 1}

(***************************************************************************)
(* ccnl_mkSimpleInterest as ccnl_fetchContentForChunkName calls it: every  *)
(* NDN Interest has a new nonce, but no other option is set: its lifetime  *)
(* and MustBeFresh are whatever the memory held.                           *)
(***************************************************************************)
Ask(name, n, junk) ==
  IF name.suite = "ccntlv"
  THEN [name |-> name, min |-> 0, max |-> 0, ppk |-> NoValue, mbf |-> FALSE, nonce |-> NoValue,
        scope |-> 3, hops |-> 64, life |-> InterestTimeout]
  ELSE [name |-> name, min |-> 0, max |-> 4, ppk |-> NoValue, mbf |-> junk.mbf, nonce |-> n,
        scope |-> 3, hops |-> 64, life |-> junk.life]

(* slip: a retry is sent with the nonce of the first request *)
SameNonce(chunk, n) == MaxRetry * (chunk + 1) + 1

(* at most MaxRetry requests for a chunk, and no two with the same nonce; a chunk 0 that
   comes again moves the client on *)
Nonce(chunk, n) == MaxRetry * (chunk + 1) + n
MaxChunk == Pieces + MaxRetry
Asked ==
  {Ask(name, n, j) : name \in Fetched \cup {ChunkName(f, k) : f \in Fetched, k \in 0..MaxChunk},
                     n \in 1..Nonce(MaxChunk, MaxRetry), j \in Junk}
Node == {"client", "A", "B"}
Everything(suite) == [suite |-> suite, comps |-> <<>>, chunk |-> -1]
Routes == {Everything(Single.name.suite), Everything(FileName.suite)}

VARIABLES
  aSeqno, aFaces, aFib, aPit, aCs, aNonces, aLag, aTxInterest, aTxData,  \* relay A
  bSeqno, bFaces, bFib, bPit, bCs, bNonces, bLag, bTxInterest, bTxData,  \* relay B
  net,     \* the datagrams under way: [from, to, pkt, late]
  losses,  \* how many were lost
  delays,  \* how many were delayed past a second
  client   \* the client: [state, name, retry, left, out]

aVars == <<aSeqno, aFaces, aFib, aPit, aCs, aNonces, aLag, aTxInterest, aTxData>>
bVars == <<bSeqno, bFaces, bFib, bPit, bCs, bNonces, bLag, bTxInterest, bTxData>>
vars == <<aVars, bVars, net, losses, delays, client>>

A == INSTANCE Relay WITH
  Peer <- Node, LocalPeer <- {}, ReflectPeer <- {}, Interest <- Asked, Data <- Contents,
  AppData <- {}, Preload <- {}, Prefix <- Routes, CacheName <- {},
  MaxCache <- ACache, MaxPit <- -1, MaxNonces <- Cardinality(Asked) + 2,
  ContentTimeout <- FaceTimeout, MaxNameComp <- 4, AgeCap <- FaceTimeout,
  MaxFaceId <- 3, MaxFib <- 2, MaxGen <- 1,
  seqno <- aSeqno, faces <- aFaces, fib <- aFib, pit <- aPit, cs <- aCs, nonces <- aNonces,
  lag <- aLag, txInterest <- aTxInterest, txData <- aTxData

B == INSTANCE Relay WITH
  Peer <- Node, LocalPeer <- {}, ReflectPeer <- {}, Interest <- Asked, Data <- Contents,
  AppData <- {}, Preload <- Contents, Prefix <- Routes, CacheName <- {},
  MaxCache <- -1, MaxPit <- -1, MaxNonces <- Cardinality(Asked) + 2,
  ContentTimeout <- FaceTimeout, MaxNameComp <- 4, AgeCap <- FaceTimeout,
  MaxFaceId <- 3, MaxFib <- 2, MaxGen <- 1,
  seqno <- bSeqno, faces <- bFaces, fib <- bFib, pit <- bPit, cs <- bCs, nonces <- bNonces,
  lag <- bLag, txInterest <- bTxInterest, txData <- bTxData

(***************************************************************************)
(* A after newUDPface and two prefixreg from ccn-lite-ctrl, whose own face *)
(* is gone again; B with what ccnl_populate_cache found.                   *)
(***************************************************************************)
Init ==
  /\ aSeqno = 2 /\ aFaces = [f \in {2} |-> [peer |-> "B", static |-> TRUE, reflect |-> FALSE, age |-> 0]]
  /\ aFib = {[pos |-> IF r.suite = Single.name.suite THEN 1 ELSE 2, prefix |-> r, face |-> 2] : r \in Routes}
  /\ aPit = {} /\ aCs = {} /\ aNonces = <<>> /\ aLag = 0 /\ aTxInterest = {} /\ aTxData = {}
  /\ B!Init /\ bCs = {B!NewContent(d, TRUE) : d \in Contents}
  /\ net = {} /\ losses = 0 /\ delays = 0
  /\ \E name \in Fetched :
       client = [state |-> "send", name |-> name,
                 cur |-> IF name.suite = "ccntlv" THEN 0 ELSE -1,
                 retry |-> 0, left |-> 0, out |-> <<>>]
-----------------------------------------------------------------------------
(***************************************************************************)
(* Datagrams.  One that is equal to one under way is not told apart from   *)
(* it.                                                                     *)
(***************************************************************************)
Datagram(from, to, pkt) == [from |-> from, to |-> to, pkt |-> pkt, late |-> FALSE]

(* What a relay sent in this step, over its faces as they were *)
SentBy(node, faces, interests, data) ==
  {Datagram(node, faces[t[1]].peer, t[2]) : t \in interests \cup data}

IsInterest(pkt) == "nonce" \in DOMAIN pkt

Lose(m) ==
  /\ losses < MaxLoss /\ losses' = losses + 1
  /\ net' = net \ {m}
  /\ UNCHANGED <<aVars, bVars, delays, client>>

Delay(m) ==
  /\ ~ m.late /\ delays < MaxLate /\ delays' = delays + 1
  /\ net' = (net \ {m}) \cup {[m EXCEPT !.late = TRUE]}
  /\ UNCHANGED <<aVars, bVars, losses, client>>
-----------------------------------------------------------------------------
(* Relays read a datagram (ccnl_core_RX). *)

RxA(m) ==
  /\ m.to = "A"
  /\ \E f \in A!FaceId :
       /\ A!Rx(f, m.from)
       /\ \/ IsInterest(m.pkt) /\ A!HandleInterest(f, m.pkt)
          \/ ~ IsInterest(m.pkt) /\ (A!DropData(m.pkt) \/ A!AcceptData(m.pkt))
  /\ net' = (net \ {m}) \cup SentBy("A", aFaces', aTxInterest', aTxData')
  /\ UNCHANGED <<bVars, losses, delays, client>>

RxB(m) ==
  /\ m.to = "B"
  /\ \E f \in B!FaceId :
       /\ B!Rx(f, m.from)
       /\ \/ IsInterest(m.pkt) /\ B!HandleInterest(f, m.pkt)
          \/ ~ IsInterest(m.pkt) /\ (B!DropData(m.pkt) \/ B!AcceptData(m.pkt))
  /\ net' = (net \ {m}) \cup SentBy("B", bFaces', bTxInterest', bTxData')
  /\ UNCHANGED <<aVars, losses, delays, client>>

AgeA ==
  /\ A!Ageing
  /\ net' = net \cup SentBy("A", aFaces, aTxInterest', {})
  /\ UNCHANGED <<bVars, losses, delays, client>>

AgeB ==
  /\ B!Ageing
  /\ net' = net \cup SentBy("B", bFaces, bTxInterest', {})
  /\ UNCHANGED <<aVars, losses, delays, client>>
-----------------------------------------------------------------------------
(***************************************************************************)
(* The client (main of ccn-lite-fetch.c).  cur is curchunknum, -1 while it *)
(* is not allocated: then the URI is asked for as it is.                   *)
(***************************************************************************)

(* ccnl_fetchContentForChunkName, up to block_on_read *)
ClientSend ==
  /\ client.state = "send"
  /\ IF client.retry < MaxRetry
     THEN /\ client' = [client EXCEPT !.state = "wait", !.left = Wait]
          /\ \E j \in Junk :
               net' = net \cup {Datagram("client", "A",
                 Ask(IF client.cur = -1 THEN client.name ELSE ChunkName(client.name, client.cur),
                     Nonce(client.cur, client.retry + 1), j))}
     ELSE client' = [client EXCEPT !.state = "failed"] /\ UNCHANGED net
  /\ UNCHANGED <<aVars, bVars, losses, delays>>

Retry == [client EXCEPT !.state = "send", !.retry = @ + 1]

ClientTimeout ==
  /\ client.state = "wait" /\ client.left = 0
  /\ client' = Retry
  /\ UNCHANGED <<aVars, bVars, net, losses, delays>>

(* slip: whatever chunk comes is taken for the next one *)
TakesAny(cur, k) == TRUE

(* "the first chunk or the next valid chunk": a chunk 0 always *)
Takes(cur, k) == k = 0 \/ k = cur

(* ccnl_extractDataAndChunkInfo refuses a CCNx packet when it is Data. *)
Extracts(d) == d.name.suite # "ccntlv"

Ended(d) == [client EXCEPT !.state = "done", !.out = Append(@, d)]

Took(d) ==
  LET k == d.name.chunk
      cur == IF client.cur = -1 THEN 0 ELSE client.cur
  IN CASE ~ Extracts(d) -> Retry
       [] Extracts(d) /\ k = -1 -> Ended(d)
       [] Extracts(d) /\ k # -1 /\ ~ Takes(cur, k) -> [Retry EXCEPT !.cur = cur]
       [] Extracts(d) /\ k # -1 /\ Takes(cur, k) ->
            IF k = Last THEN Ended(d)
            ELSE [client EXCEPT !.state = "send", !.cur = cur + 1, !.retry = 0, !.out = Append(@, d)]

ClientReceive(m) ==
  /\ m.to = "client" /\ client.state = "wait"
  /\ client' = Took(m.pkt)
  /\ net' = net \ {m}
  /\ UNCHANGED <<aVars, bVars, losses, delays>>
-----------------------------------------------------------------------------
(* A second passes while the client waits: what is under way has arrived, unless it is
   late.  The time after the client's end is not looked at. *)
Second ==
  /\ \A m \in net : m.late
  /\ client.state = "wait" /\ client.left > 0
  /\ A!Tick /\ B!Tick
  /\ client' = [client EXCEPT !.left = @ - 1]
  /\ UNCHANGED <<net, losses, delays>>

Transfer == \E m \in net : RxA(m) \/ RxB(m) \/ ClientReceive(m)

Next ==
  \/ Transfer \/ AgeA \/ AgeB \/ Second
  \/ ClientSend \/ ClientTimeout
  \/ \E m \in net : Lose(m) \/ Delay(m)

Spec == Init /\ [][Next]_vars

FairSpec ==
  /\ Spec
  /\ WF_vars(Transfer) /\ WF_vars(AgeA) /\ WF_vars(AgeB) /\ WF_vars(Second)
  /\ WF_vars(ClientSend) /\ WF_vars(ClientTimeout)
-----------------------------------------------------------------------------
(***************************************************************************)
(* What the client writes out is the content: the chunk written in the     *)
(* k-th place is number k - 1, although answers may be late and come       *)
(* twice.  But for chunk 0: one that comes late is written again, in the   *)
(* place of the chunk that was asked for, which is then left out.          *)
(***************************************************************************)
InOrder ==
  \/ client.out \in {<<>>, <<Single>>}
  \/ \A k \in DOMAIN client.out : client.out[k].name.chunk \in {k - 1, 0}

(***************************************************************************)
(* MaxLoss datagrams lost do not make the fetch fail, as long as no        *)
(* datagram is late.  In NDN the relays' own retransmissions do not help   *)
(* when it is the answer of B that was lost, as they carry their first     *)
(* nonce, which B still knows, and the client's next request joins the     *)
(* entry A keeps; it is a retry after that entry has timed out that gets   *)
(* through.  With the waiting time the client has by default there is      *)
(* none.                                                                   *)
(***************************************************************************)
FetchSucceeds == <>(client.state = "done" \/ delays > 0)
=============================================================================
