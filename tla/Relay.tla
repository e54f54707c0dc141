------------------------------- MODULE Relay -------------------------------
(***************************************************************************)
(* The forwarder of one CCN-lite relay: faces, forwarding table (FIB),     *)
(* pending interest table (PIT), content store (CS), list of seen nonces,  *)
(* and the ageing timer.  It models ccnl-core/src/ccnl-relay.c,            *)
(* ccnl-interest.c and ccnl-fwd/src/ccnl-fwd.c as the Linux relay compiles *)
(* them (ccn-lite-relay: duplicate check, management, no scheduler, no     *)
(* fragmentation), and the commands of ccnl-core/src/ccnl-mgmt.c that      *)
(* change these tables.                                                    *)
(*                                                                         *)
(* The relay is one thread: io_loop runs the due timers, then reads one    *)
(* packet of each readable socket, and every handler runs to its end.      *)
(* Each handler is therefore one action.  Time is counted in seconds, and  *)
(* every entry holds its age (now - last_used) instead of a time stamp.    *)
(*                                                                         *)
(* A definition whose comment begins with "slip" is not the code's: it is  *)
(* the definition after it with one mistake, and nothing here uses it.     *)
(* PROJECT.json names the property that finds each mistake.                *)
(***************************************************************************)
EXTENDS Names, FiniteSets

CONSTANTS
  Peer,            \* addresses packets come from, and faces lead to
  LocalPeer,       \* the peers that may give management commands
  ReflectPeer,     \* the peers behind an interface with the reflect flag
  Interest,        \* the Interest packets peers send
  Data,            \* the Data packets peers send
  AppData,         \* the Data packets an application puts in the cache
  Preload,         \* the files ccnl_populate_cache may find at start
  Prefix,          \* the name prefixes routes are registered for
  CacheName,       \* the names addcacheobject and removecacheobject name
  MaxCache,        \* max_cache_entries; no limit when it is not positive
  MaxPit,          \* max_pit_entries; -1 is no limit
  MaxNonces,       \* CCNL_MAX_NONCES
  MaxRetransmit,   \* CCNL_MAX_INTEREST_RETRANSMIT
  InterestTimeout, \* CCNL_INTEREST_TIMEOUT
  ContentTimeout,  \* CCNL_CONTENT_TIMEOUT
  FaceTimeout,     \* CCNL_FACE_TIMEOUT
  MaxNameComp,     \* CCNL_MAX_NAME_COMP
  AgeCap,          \* bound: ages are not told apart from here on
  MaxLag,          \* bound: seconds the ageing timer may be late
  MaxFaceId,       \* bound: faces ever created
  MaxFib,          \* bound: position of a FIB entry in its list
  MaxGen           \* bound: PIT entries for one Interest

NoFace == 0
FaceId == 1..MaxFaceId
Dynamic == [static |-> FALSE, reflect |-> FALSE]

(***************************************************************************)
(* The Interest that ccnl_mgmt_addcacheobject makes for a name: no nonce,  *)
(* no publisher, and a lifetime field that only NDN reads and it leaves 0. *)
(***************************************************************************)
CacheRequest(n) ==
  [name |-> n, min |-> 0, max |-> IF n.suite = "ccntlv" THEN 0 ELSE MaxNameComp,
   ppk |-> NoValue, mbf |-> FALSE, nonce |-> NoValue, scope |-> 0, hops |-> 0,
   life |-> IF n.suite = "ndntlv" THEN 0 ELSE InterestTimeout]

(* The packet as it is kept and forwarded: ccntlv counts the hop. *)
Hop(p) ==
  IF p.name.suite = "ccntlv" THEN [p EXCEPT !.hops = (@ - 1) % 256] ELSE p

AnyData == Data \cup AppData \cup Preload

Packet == Interest \cup {Hop(p) : p \in Interest} \cup {CacheRequest(n) : n \in CacheName}

ASSUME BoundsAssumption ==
  /\ MaxFaceId \in Nat /\ MaxFib \in Nat /\ MaxGen \in Nat \ {0}
  /\ MaxLag \in Nat /\ AgeCap \in Nat
  /\ MaxRetransmit \in Nat /\ MaxNonces \in Nat \ {0, 1}
  /\ MaxCache \in Int /\ MaxPit \in Int

ASSUME TimeoutAssumption ==
  /\ ContentTimeout \in Nat /\ FaceTimeout \in Nat
  /\ ContentTimeout =< AgeCap /\ FaceTimeout =< AgeCap
  /\ \A p \in Packet : p.life \in Nat /\ p.life =< AgeCap

ASSUME InterestAssumption ==
  \A p \in Interest :
    DOMAIN p = {"name", "min", "max", "ppk", "mbf", "nonce", "scope", "hops", "life"}

ASSUME DataAssumption ==
  /\ \A d \in AnyData : d.name.suite = "ndntlv" => d.fresh \in Nat
  /\ IsFiniteSet(Preload)

ASSUME PeerAssumption == LocalPeer \subseteq Peer /\ ReflectPeer \subseteq Peer

VARIABLES
  seqno,       \* the number of faces created so far; the next face id is one more
  faces,       \* the live faces, by id
  fib,         \* the set of routes, each with its position in the list
  pit,         \* the set of pending Interests
  cs,          \* the set of cached contents
  nonces,      \* the nonces seen, newest first
  lag,         \* seconds since ageing ran
  txInterest,  \* what the last step sent upstream: <<face, Interest, route position>>
  txData       \* what the last step sent downstream: <<face, Data>>

vars == <<seqno, faces, fib, pit, cs, nonces, lag, txInterest, txData>>
tables == <<fib, pit, cs, nonces, lag>>

Face == [peer : Peer, static : BOOLEAN, reflect : BOOLEAN, age : 0..AgeCap]
Route == [pos : 1..MaxFib, prefix : Prefix, face : FaceId]
Pending == [pkt : Packet, gen : 1..MaxGen, from : FaceId \cup {NoFace},
            pending : SUBSET FaceId, age : 0..AgeCap, retries : 0..MaxRetransmit]
Content == [data : AnyData,
            static : BOOLEAN, stale : BOOLEAN, age : 0..AgeCap]

TypeOK ==
  /\ seqno \in 0..MaxFaceId
  /\ DOMAIN faces \subseteq 1..seqno
  /\ faces \in [DOMAIN faces -> Face]
  /\ fib \subseteq Route
  /\ pit \subseteq Pending
  /\ cs \subseteq Content
  /\ nonces \in Seq({p.nonce : p \in Packet}) /\ Len(nonces) =< MaxNonces
  /\ lag \in 0..MaxLag
-----------------------------------------------------------------------------
(***************************************************************************)
(* Faces.  ccnl_get_face_or_create finds the face of a peer, the newest if *)
(* there are several, and refreshes it; or it makes one.                   *)
(***************************************************************************)
FacesOf(p) == {f \in DOMAIN faces : faces[f].peer = p}

IsFaceFor(f, p) ==
  IF FacesOf(p) = {} THEN f = seqno + 1
  ELSE f \in FacesOf(p) /\ \A g \in FacesOf(p) : g =< f

NewFace(p, flags) ==
  [peer |-> p, static |-> flags.static, reflect |-> flags.reflect, age |-> 0]

WithFace(fs, f, r) == [g \in DOMAIN fs \cup {f} |-> IF g = f THEN r ELSE fs[g]]

(* slip: a packet does not refresh its face *)
RefreshedNot(f, p) ==
  IF f \in DOMAIN faces THEN faces ELSE WithFace(faces, f, NewFace(p, Dynamic))

Refreshed(f, p) ==
  WithFace(faces, f,
    IF f \in DOMAIN faces THEN [faces[f] EXCEPT !.age = 0]
    ELSE NewFace(p, [Dynamic EXCEPT !.reflect = p \in ReflectPeer]))

(* ccnl_core_RX: a packet of peer p comes in on face f. *)
Rx(f, p) ==
  /\ f \in FaceId /\ IsFaceFor(f, p)
  /\ faces' = Refreshed(f, p)
  /\ seqno' = IF f \in DOMAIN faces THEN seqno ELSE f

(***************************************************************************)
(* ccnl_face_remove, for every face of a set: the faces go, with their     *)
(* routes and their places in the PIT, and so does every PIT entry nobody  *)
(* waits for any more, or nobody ever waited for.                          *)
(***************************************************************************)
FacesWithout(fs, gone) == [f \in DOMAIN fs \ gone |-> fs[f]]

(* slip: the routes over a removed face stay *)
RoutesKept(gone) == fib

RoutesWithout(gone) == {r \in fib : r.face \notin gone}

(* slip: an entry goes with the first face that goes *)
PitWithoutSharing(entries, gone) ==
  {[i EXCEPT !.from = IF @ \in gone THEN NoFace ELSE @] :
     i \in {j \in entries : j.pending \cap gone = {}}}

PitWithout(entries, gone) ==
  IF gone = {} THEN entries
  ELSE {[i EXCEPT !.pending = @ \ gone,
                  !.from = IF @ \in gone THEN NoFace ELSE @] :
          i \in {j \in entries : j.pending \ gone # {}}}
-----------------------------------------------------------------------------
(* The PIT.  An interest is sent on every matching route, but not back to  *)
(* the face it came from, unless that face reflects.                       *)

Upstream(fs, i) ==
  {<<r.face, i.pkt, r.pos>> :
     r \in {s \in fib : /\ Covers(s.prefix, i.pkt.name)
                        /\ \/ i.from = NoFace
                           \/ s.face # i.from
                           \/ fs[i.from].reflect}}

NewEntry(p, g, f) ==
  [pkt |-> p, gen |-> g, from |-> f, pending |-> {}, age |-> 0, retries |-> 0]

(* slip: whole packets are compared, with their nonces *)
TwinsByPacket(p) == {i \in pit : i.pkt = p}

Twins(p) == {i \in pit : IsSame(i.pkt, p)}

(* Entries are searched newest first. *)
IsEntryFor(i, p) == i \in Twins(p) /\ \A j \in Twins(p) : j.gen =< i.gen

(* The age rank of a new entry among the entries for the same Interest. *)
IsNextGen(g, p) ==
  /\ g \in 1..MaxGen
  /\ \A j \in Twins(p) : j.gen < g
  /\ g = 1 \/ \E j \in Twins(p) : j.gen = g - 1

PitFull == MaxPit # -1 /\ Cardinality(pit) >= MaxPit
-----------------------------------------------------------------------------
(* The content store (ccnl_content_add2cache). *)

NewContent(d, static) == [data |-> d, static |-> static, stale |-> FALSE, age |-> 0]

IsCached(d) == \E c \in cs : SameName(c.data.name, d.name)

(* slip: the oldest content is sought among all contents *)
AnyCached == cs

Evictable == {c \in cs : ~ c.static}

Oldest == {c \in Evictable : \A e \in Evictable : e.age =< c.age}

CacheFull == MaxCache > 0 /\ Cardinality(cs) >= MaxCache

Evict(room) ==
  IF CacheFull /\ Evictable # {} THEN \E c \in Oldest : room = cs \ {c}
  ELSE room = cs

(* slip: the second look at the limit is left out *)
InsertAlways(room, c) == room \cup {c}

Insert(room, c) ==
  IF MaxCache =< 0 \/ Cardinality(room) =< MaxCache THEN room \cup {c} ELSE room

(* add2cache of a content whose name is not cached yet *)
AddToCache(c) == \E room \in SUBSET cs : Evict(room) /\ cs' = Insert(room, c)
-----------------------------------------------------------------------------
(* Nonces (ccnl_nonce_isDup, ccnl_nonce_find_or_append): ccntlv has none. *)

Seen(n) == \E k \in 1..Len(nonces) : nonces[k] = n

HasNonce(p) == p.name.suite # "ccntlv" /\ p.nonce # NoValue

IsDup(p) == HasNonce(p) /\ Seen(p.nonce)

(* slip: the list is never cut *)
RememberAll(p) ==
  nonces' = IF HasNonce(p) THEN <<p.nonce>> \o nonces ELSE nonces

Remember(p) ==
  nonces' = IF ~ HasNonce(p) THEN nonces
            ELSE IF Len(nonces) < MaxNonces THEN <<p.nonce>> \o nonces
            ELSE <<p.nonce>> \o SubSeq(nonces, 1, MaxNonces - 1)
-----------------------------------------------------------------------------
(***************************************************************************)
(* The first configuration: no faces and no routes, the content store      *)
(* filled from files that are marked static once they are in.              *)
(***************************************************************************)
Init ==
  /\ seqno = 0 /\ faces = [f \in {} |-> {}]
  /\ fib = {} /\ pit = {}
  /\ \E files \in SUBSET Preload :
       /\ \A d, e \in files : SameName(d.name, e.name) => d = e
       /\ MaxCache > 0 => Cardinality(files) =< MaxCache + 1
       /\ cs = {NewContent(d, TRUE) : d \in files}
  /\ nonces = <<>> /\ lag = 0
  /\ txInterest = {} /\ txData = {}

Quiet == txInterest' = {} /\ txData' = {}

(***************************************************************************)
(* Interests (ccnl_fwd_handleInterest).                                    *)
(***************************************************************************)
FwdOK(p) == p.name.suite = "ndntlv" => p.scope > 2

HopsLeft(p) == p.name.suite = "ccntlv" => Hop(p).hops > 0

InCache(p) == \E c \in cs : CMatch(p, c)

(* dropped by the hop limit, or as a duplicate *)
DropInterest(f, p) ==
  /\ ~ HopsLeft(p) \/ IsDup(p)
  /\ UNCHANGED tables
  /\ Quiet

AnswerFromCache(f, p) ==
  /\ \E c \in cs : CMatch(p, c) /\ txData' = {<<f, c.data>>}
  /\ Remember(p)
  /\ txInterest' = {}
  /\ UNCHANGED <<fib, pit, cs, lag>>

(* a scope that forbids forwarding, or no room for a new entry *)
RefuseInterest(f, p) ==
  /\ ~ InCache(p)
  /\ ~ FwdOK(p) \/ (Twins(p) = {} /\ PitFull)
  /\ Remember(p)
  /\ Quiet
  /\ UNCHANGED <<fib, pit, cs, lag>>

(* slip: a second asker restarts the entry's clock *)
JoinEntryAndRestart(f, p) ==
  /\ ~ InCache(p) /\ FwdOK(p)
  /\ \E i \in pit : IsEntryFor(i, p) /\
       pit' = (pit \ {i}) \cup {[i EXCEPT !.pending = @ \cup {f}, !.age = 0, !.retries = 0]}
  /\ Remember(p)
  /\ Quiet
  /\ UNCHANGED <<fib, cs, lag>>

(* ccnl_interest_append_pending to the entry that is already there *)
JoinEntry(f, p) ==
  /\ ~ InCache(p) /\ FwdOK(p)
  /\ \E i \in pit : IsEntryFor(i, p) /\
       pit' = (pit \ {i}) \cup {[i EXCEPT !.pending = @ \cup {f}]}
  /\ Remember(p)
  /\ Quiet
  /\ UNCHANGED <<fib, cs, lag>>

(* ccnl_interest_new, append_pending, ccnl_interest_propagate *)
CreateEntry(f, p) ==
  /\ ~ InCache(p) /\ FwdOK(p) /\ Twins(p) = {} /\ ~ PitFull
  /\ LET i == [NewEntry(Hop(p), 1, f) EXCEPT !.pending = {f}] IN
       pit' = pit \cup {i} /\ txInterest' = Upstream(faces', i)
  /\ Remember(p)
  /\ txData' = {}
  /\ UNCHANGED <<fib, cs, lag>>

HandleInterest(f, p) ==
  \/ DropInterest(f, p)
  \/ HopsLeft(p) /\ ~ IsDup(p) /\
       \/ AnswerFromCache(f, p)
       \/ RefuseInterest(f, p)
       \/ JoinEntry(f, p)
       \/ CreateEntry(f, p)

RxInterest(f, q) == Rx(f, q) /\ \E p \in Interest : HandleInterest(f, p)
-----------------------------------------------------------------------------
(***************************************************************************)
(* Data (ccnl_fwd_handleContent, ccnl_content_serve_pending).  A face that *)
(* waits in several matching entries is sent one copy.  An entry without a *)
(* waiting face, which only addcacheobject makes, pins the content.        *)
(***************************************************************************)
Answered(d) == {i \in pit : Answers(d, i.pkt)}

Waiting(entries) == UNION {i.pending : i \in entries}

(* slip: a served entry stays *)
ServeAndKeep(d) ==
  /\ pit' = pit
  /\ txData' = {<<g, d>> : g \in Waiting(Answered(d))}

ServePending(d) ==
  /\ pit' = pit \ Answered(d)
  /\ txData' = {<<g, d>> : g \in Waiting(Answered(d))}

Pins(d) == \E i \in Answered(d) : i.pending = {}

(* a duplicate of cached content, or unsolicited *)
DropData(d) ==
  /\ IsCached(d) \/ Answered(d) = {}
  /\ UNCHANGED tables
  /\ Quiet

AcceptData(d) ==
  /\ ~ IsCached(d) /\ Answered(d) # {}
  /\ ServePending(d)
  /\ IF MaxCache = 0 THEN cs' = cs ELSE AddToCache(NewContent(d, Pins(d)))
  /\ txInterest' = {}
  /\ UNCHANGED <<fib, nonces, lag>>

RxData(f, q) == Rx(f, q) /\ \E d \in Data : DropData(d) \/ AcceptData(d)

(* slip: the content is cached and nobody is served *)
CsAddBypassing ==
  \E d \in AppData :
    /\ ~ IsCached(d)
    /\ AddToCache(NewContent(d, FALSE))
    /\ Quiet
    /\ UNCHANGED <<seqno, faces, fib, pit, nonces, lag>>

(* ccnl_cs_add: an application caches content, then pending Interests are served *)
CsAdd ==
  \E d \in AppData :
    /\ ~ IsCached(d)
    /\ AddToCache(NewContent(d, Pins(d)))
    /\ ServePending(d)
    /\ txInterest' = {}
    /\ UNCHANGED <<seqno, faces, fib, nonces, lag>>

(***************************************************************************)
(* Anything else a peer sends: no packet, a malformed or unknown one, a    *)
(* management command that is refused or fails.  It makes or refreshes the *)
(* face, and no more.                                                      *)
(***************************************************************************)
RxOther(f, q) == Rx(f, q) /\ UNCHANGED tables /\ Quiet
-----------------------------------------------------------------------------
(***************************************************************************)
(* Management commands (ccnl-core/src/ccnl-mgmt.c), from local peers only. *)
(* ccn-lite-ctrl puts no nonce in a command.  The answer to the peer       *)
(* changes no table and is left out: the later parts of a long one are     *)
(* meant for the cache, but ccnl_mkContent makes no CCNb content.          *)
(***************************************************************************)

(* newface looks for no face of that peer: it makes another one. *)
MgmtNewFace(f, q) ==
  /\ q \in LocalPeer /\ f \in FaceId /\ IsFaceFor(f, q)
  /\ \E g \in FaceId, p \in Peer, flags \in [static : BOOLEAN, reflect : BOOLEAN] :
       /\ g = (IF f \in DOMAIN faces THEN seqno ELSE f) + 1
       /\ faces' = WithFace(Refreshed(f, q), g, NewFace(p, flags))
       /\ seqno' = g
  /\ UNCHANGED tables
  /\ Quiet

MgmtDestroyFace(f, q) ==
  /\ q \in LocalPeer /\ f \in FaceId /\ IsFaceFor(f, q)
  /\ \E g \in DOMAIN Refreshed(f, q) :
       /\ faces' = FacesWithout(Refreshed(f, q), {g})
       /\ fib' = RoutesWithout({g})
       /\ pit' = PitWithout(pit, {g})
  /\ seqno' = IF f \in DOMAIN faces THEN seqno ELSE f
  /\ Quiet
  /\ UNCHANGED <<cs, nonces, lag>>

IsNextPos(n) ==
  /\ n \in 1..MaxFib
  /\ \A r \in fib : r.pos < n
  /\ n = 1 \/ \E r \in fib : r.pos = n - 1

AppendRoute(prefix, g) ==
  \E n \in 1..MaxFib :
    IsNextPos(n) /\ fib' = fib \cup {[pos |-> n, prefix |-> prefix, face |-> g]}

(* prefixreg appends a route and looks for no earlier one. *)
MgmtPrefixReg(f, q) ==
  /\ q \in LocalPeer /\ Rx(f, q)
  /\ \E prefix \in Prefix, g \in DOMAIN faces' : AppendRoute(prefix, g)
  /\ Quiet
  /\ UNCHANGED <<pit, cs, nonces, lag>>

(***************************************************************************)
(* addcacheobject makes a PIT entry that no face waits for, whatever the   *)
(* PIT and the CS hold, and asks the peer that gave the command.           *)
(***************************************************************************)
MgmtAddCacheObject(f, q) ==
  /\ q \in LocalPeer /\ Rx(f, q) /\ ~ PitFull
  /\ \E n \in CacheName, g \in 1..MaxGen :
       /\ IsNextGen(g, CacheRequest(n))
       /\ pit' = pit \cup {NewEntry(CacheRequest(n), g, f)}
       /\ txInterest' = {<<f, CacheRequest(n), 0>>}
  /\ txData' = {}
  /\ UNCHANGED <<fib, cs, nonces, lag>>

(***************************************************************************)
(* removecacheobject compares the components as strings: those of a CCNb   *)
(* packet are followed by a zero octet, those of the other formats by the  *)
(* next TLV (and headed by one, in CCNx), so that none is ever found.      *)
(***************************************************************************)
MgmtRemoveCacheObject(f, q) ==
  /\ q \in LocalPeer /\ Rx(f, q)
  /\ \E n \in CacheName, c \in cs :
       c.data.name.suite = "ccnb" /\ c.data.name.comps = n.comps /\ cs' = cs \ {c}
  /\ Quiet
  /\ UNCHANGED <<fib, pit, nonces, lag>>
-----------------------------------------------------------------------------
(***************************************************************************)
(* ccnl_fib_add_entry and ccnl_fib_rem_entry: an application's routes.     *)
(***************************************************************************)
RoutesFor(prefix) ==
  {r \in fib : r.prefix.suite = prefix.suite /\ SameName(r.prefix, prefix)}

First(routes) == {r \in routes : \A s \in routes : r.pos =< s.pos}

FibAdd ==
  /\ \E prefix \in Prefix, g \in DOMAIN faces :
       \/ RoutesFor(prefix) = {} /\ AppendRoute(prefix, g)
       \/ \E r \in First(RoutesFor(prefix)) :
            fib' = (fib \ {r}) \cup {[r EXCEPT !.prefix = prefix, !.face = g]}
  /\ Quiet
  /\ UNCHANGED <<seqno, faces, pit, cs, nonces, lag>>

(* a NULL prefix or face stands for any *)
FibRem ==
  /\ \E routes \in {fib} \cup {RoutesFor(p) : p \in Prefix}, g \in DOMAIN faces \cup {NoFace} :
       \E r \in First({s \in routes : g \in {NoFace, s.face}}) : fib' = fib \ {r}
  /\ Quiet
  /\ UNCHANGED <<seqno, faces, pit, cs, nonces, lag>>
-----------------------------------------------------------------------------
(***************************************************************************)
(* Time.  A second passes; ageing runs once a second or later.             *)
(***************************************************************************)
Older(a) == IF a < AgeCap THEN a + 1 ELSE a

Tick ==
  /\ lag < MaxLag /\ lag' = lag + 1
  /\ faces' = [f \in DOMAIN faces |->
                 IF faces[f].static THEN faces[f] ELSE [faces[f] EXCEPT !.age = Older(@)]]
  /\ pit' = {[i EXCEPT !.age = Older(@)] : i \in pit}
  /\ cs' = {IF c.static THEN c ELSE [c EXCEPT !.age = Older(@)] : c \in cs}
  /\ Quiet
  /\ UNCHANGED <<seqno, fib, nonces>>

(* ccnl_do_ageing: contents, then Interests, then faces. *)

Kept(c) == c.static \/ c.age < ContentTimeout

(* slip: > for >= *)
StalesLate(c) == c.data.name.suite = "ndntlv" /\ ~ c.static /\ c.age > c.data.fresh

Stales(c) == c.data.name.suite = "ndntlv" /\ ~ c.static /\ c.age >= c.data.fresh

(* slip: > for >= *)
TimedOutLate(i) == i.age > i.pkt.life \/ i.retries >= MaxRetransmit

TimedOut(i) == i.age >= i.pkt.life \/ i.retries >= MaxRetransmit

Idle == {f \in DOMAIN faces : ~ faces[f].static /\ faces[f].age >= FaceTimeout}

Retransmitted == {[i EXCEPT !.retries = @ + 1] : i \in {j \in pit : ~ TimedOut(j)}}

Ageing ==
  /\ lag > 0 /\ lag' = 0
  /\ cs' = {[c EXCEPT !.stale = @ \/ Stales(c)] : c \in {d \in cs : Kept(d)}}
  /\ txInterest' = UNION {Upstream(faces, i) : i \in Retransmitted}
  /\ pit' = PitWithout(Retransmitted, Idle)
  /\ faces' = FacesWithout(faces, Idle)
  /\ fib' = RoutesWithout(Idle)
  /\ txData' = {}
  /\ UNCHANGED <<seqno, nonces>>
-----------------------------------------------------------------------------
Receive ==
  \E f \in FaceId, q \in Peer :
    \/ RxInterest(f, q)
    \/ RxData(f, q)
    \/ RxOther(f, q)

Mgmt ==
  \E f \in FaceId, q \in LocalPeer :
    \/ MgmtNewFace(f, q)
    \/ MgmtDestroyFace(f, q)
    \/ MgmtPrefixReg(f, q)
    \/ MgmtAddCacheObject(f, q)
    \/ MgmtRemoveCacheObject(f, q)

Next == Receive \/ Mgmt \/ CsAdd \/ FibAdd \/ FibRem \/ Tick \/ Ageing

Spec == Init /\ [][Next]_vars

(***************************************************************************)
(* Time goes on, and io_loop runs the timers before every select, which it *)
(* leaves no later than the next timer is due.                             *)
(***************************************************************************)
FairSpec == Spec /\ WF_vars(Tick) /\ WF_vars(Ageing)
=============================================================================
