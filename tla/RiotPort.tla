------------------------------ MODULE RiotPort ------------------------------
(***************************************************************************)
(* The relay as a thread of RIOT (ccnl-riot/src/ccn-lite-riot.c): there is *)
(* no ageing scan.  Every PIT entry, content and face has timers of its    *)
(* own (evtimer), whose interrupt puts a message in the bounded queue of   *)
(* the event loop; packets and the requests of applications come through   *)
(* the same queue, so that a timeout is handled some messages after it     *)
(* happened.  A message holds a pointer: one that refers to an object that *)
(* was freed in the meantime refers to Freed here, and the step that uses  *)
(* it is undefined behaviour, where the model ends (broken).               *)
(*                                                                         *)
(* Names stand for whole packets; routes and what is sent upstream are as  *)
(* in module Relay and left out.  On RIOT duplicates are told by the nonce *)
(* in the PIT (CCNL_MAX_NONCES is -1), which changes no table.             *)
(***************************************************************************)
EXTENDS Integers, Sequences, FiniteSets

CONSTANTS
  Name,         \* names of Interests and contents
  Answers,      \* the pairs <<content, Interest>> that match
  PathPrefix,   \* the pairs <<n, m>>: the path of n printed is a prefix of that of m
  Peer,         \* the neighbours
  Asked,        \* the names neighbours ask for
  AppAsked,     \* the names the application asks for
  Produced,     \* the contents neighbours send
  Added,        \* the contents applications put in the store
  Deleted,      \* the names applications have removed
  QueueSize,    \* CCNL_QUEUE_SIZE
  MailboxSize,  \* the messages the application's thread can hold
  MaxPit,       \* max_pit_entries
  MaxCache,     \* max_cache_entries
  MaxRetrans,   \* CCNL_MAX_INTEREST_RETRANSMIT
  RetransTime,  \* CCNL_INTEREST_RETRANS_TIMEOUT, in ticks
  Lifetime,     \* the lifetime of an Interest
  ContentTime,  \* CCNL_CONTENT_TIMEOUT
  FaceTime,     \* CCNL_FACE_TIMEOUT
  WaitTime      \* the timeout of ccnl_wait_for_chunk

ASSUME RiotAssumption ==
  /\ Answers \subseteq Name \X Name /\ PathPrefix \subseteq Name \X Name
  /\ \A n \in Name : <<n, n>> \in Answers /\ <<n, n>> \in PathPrefix
  /\ Asked \subseteq Name /\ AppAsked \subseteq Name /\ Produced \subseteq Name
  /\ Added \subseteq Name /\ Deleted \subseteq Name
  /\ QueueSize \in Nat \ {0} /\ MailboxSize \in Nat \ {0}
  /\ MaxPit \in Nat /\ MaxCache \in Nat \ {0} /\ MaxRetrans \in Nat
  /\ {RetransTime, Lifetime, ContentTime, FaceTime, WaitTime} \subseteq Nat

(* The objects a message or a timer may point to *)
Freed == <<"freed">>
PitEntry(n) == <<"interest", n>>
Cont(n) == <<"content", n>>
Face(p) == <<"face", p>>
Object == {Freed} \cup {PitEntry(n) : n \in Name} \cup {Cont(n) : n \in Name}
                  \cup {Face(p) : p \in Peer}
Local == "loopback_face"

(* Messages: a timer's, with the pointer it carries; a packet; a request.  Zero is
   what ccnl_riot_interest_remove leaves behind. *)
TimerType == {"INT_RETRANS", "INT_TIMEOUT", "FACE_TIMEOUT", "CS_EXPIRE"}
TimerMsg == [type : TimerType, obj : Object]
Packet == [type : {"RCV"}, peer : Peer, is : {"interest"}, name : Asked]
          \cup [type : {"RCV"}, peer : Peer, is : {"data"}, name : Produced]
          \cup [type : {"RCV"}, peer : Peer, is : {"other"}]
Request == [type : {"CS_ADD"}, name : Added] \cup [type : {"CS_DEL"}, name : Deleted]
           \cup [type : {"SND"}, name : AppAsked]
Zero == [type |-> "none"]
Message == TimerMsg \cup Packet \cup Request \cup {Zero}

VARIABLES
  faces,     \* the neighbours that have a face; the loopback face is static
  pit,       \* the pending Interests: who waits for each, and how often it was repeated
  contents,  \* the content store, newest first
  evtimer,   \* the ticks left of each timer that runs
  queue,     \* msg_queue of the event loop
  lost,      \* the objects whose timeout message found the queue full
  broken,    \* freed memory was used
  app,       \* what the application's thread does
  mailbox    \* the messages of the application's thread

tables == <<faces, pit, contents, evtimer, lost>>
vars == <<faces, pit, contents, evtimer, queue, lost, broken, app, mailbox>>

Entry == [pending : SUBSET (Peer \cup {Local}), retries : 0..MaxRetrans]

(* A timer: the type of its message, and the object it belongs to *)
Retrans(n) == <<"INT_RETRANS", PitEntry(n)>>
Timeout(n) == <<"INT_TIMEOUT", PitEntry(n)>>
Expiry(n) == <<"CS_EXPIRE", Cont(n)>>
Idle(p) == <<"FACE_TIMEOUT", Face(p)>>
Wait == <<"TIMEOUT", <<"app">> >>
Timer == {Retrans(n) : n \in Name} \cup {Timeout(n) : n \in Name}
         \cup {Expiry(n) : n \in Name} \cup {Idle(p) : p \in Peer} \cup {Wait}

TypeOK ==
  /\ faces \subseteq Peer
  /\ DOMAIN pit \subseteq Name /\ pit \in [DOMAIN pit -> Entry]
  /\ IsFiniteSet(DOMAIN pit) /\ Cardinality(DOMAIN pit) =< MaxPit
  /\ contents \in Seq(Name) /\ Len(contents) =< MaxCache
  /\ DOMAIN evtimer \subseteq Timer /\ evtimer \in [DOMAIN evtimer -> Nat]
  /\ queue \in Seq(Message) /\ Len(queue) =< QueueSize
  /\ lost \subseteq Object
  /\ broken \in BOOLEAN
  /\ app \in {"idle", "asked", "waiting"}
  /\ mailbox \in Seq({"chunk", "timeout", "stray"}) /\ Len(mailbox) =< MailboxSize

Init ==
  /\ faces = {} /\ pit = [n \in {} |-> {}] /\ contents = <<>>
  /\ evtimer = [t \in {} |-> 0] /\ queue = <<>> /\ lost = {} /\ broken = FALSE
  /\ app = "idle" /\ mailbox = <<>>
-----------------------------------------------------------------------------
(***************************************************************************)
(* Timers and memory.                                                      *)
(***************************************************************************)

(* evtimer_del and evtimer_add_msg *)
Armed(timers, which, ticks) ==
  [t \in DOMAIN timers \cup which |-> IF t \in which THEN ticks ELSE timers[t]]
Disarmed(timers, which) == [t \in DOMAIN timers \ which |-> timers[t]]

PointsTo(m, objs) == m.type \in TimerType /\ m.obj \in objs

(* What becomes of the messages that point to freed memory *)
Dangling(q, objs) ==
  [k \in DOMAIN q |-> IF PointsTo(q[k], objs) THEN [q[k] EXCEPT !.obj = Freed] ELSE q[k]]

(* slip: the queue is not searched *)
NotPurged(q, objs) == Dangling(q, objs)

(* ccnl_riot_interest_remove: what pointed to these entries is zeroed *)
Purged(q, objs) == [k \in DOMAIN q |-> IF PointsTo(q[k], objs) THEN Zero ELSE q[k]]

Has(f, x) == x \in DOMAIN f

(* ccnl_interest_remove, for every entry of a set *)
PitWithout(gone) == [n \in DOMAIN pit \ gone |-> pit[n]]
TimersOf(gone) == {Retrans(n) : n \in gone} \cup {Timeout(n) : n \in gone}
PitEntries(gone) == {PitEntry(n) : n \in gone}

RemoveInterests(q, gone) ==
  /\ pit' = PitWithout(gone)
  /\ queue' = Purged(q, PitEntries(gone))
  /\ lost' = lost \ PitEntries(gone)
-----------------------------------------------------------------------------
(***************************************************************************)
(* Packets and requests, as the event loop takes them off the queue: q is  *)
(* what is left of it.                                                     *)
(***************************************************************************)

(* _receive, ccnl_get_face_or_create: a packet makes or refreshes its face. *)
FaceOf(p) == faces' = faces \cup {p}
FaceTimer(p) == Armed(evtimer, {Idle(p)}, FaceTime)

(* ccnl_app_RX: a chunk for the application, which registered for chunks before it
   asked and until it has one, when there is room *)
Deliver(chunk) ==
  mailbox' = IF chunk /\ app # "idle" /\ Len(mailbox) < MailboxSize
             THEN Append(mailbox, "chunk") ELSE mailbox

Cached(n) == \E k \in DOMAIN contents : <<contents[k], n>> \in Answers

(* slip: a second asker starts the timeout anew *)
JoinedTimers(timers, n) == Armed(timers, {Timeout(n)}, Lifetime)
SameTimers(timers, n) == timers

(* ccnl_fwd_handleInterest, from a neighbour or from the loopback face *)
HandleInterest(f, n, timers) ==
  \/ /\ Cached(n)
     /\ Deliver(f = Local)
     /\ evtimer' = timers /\ UNCHANGED pit
  \/ /\ ~ Cached(n) /\ Has(pit, n)
     /\ pit' = [pit EXCEPT ![n].pending = @ \cup {f}]
     /\ evtimer' = SameTimers(timers, n) /\ UNCHANGED mailbox
  \/ /\ ~ Cached(n) /\ ~ Has(pit, n) /\ Cardinality(DOMAIN pit) >= MaxPit
     /\ evtimer' = timers /\ UNCHANGED <<pit, mailbox>>
  \/ /\ ~ Cached(n) /\ ~ Has(pit, n) /\ Cardinality(DOMAIN pit) < MaxPit
     /\ pit' = [m \in DOMAIN pit \cup {n} |->
                  IF m = n THEN [pending |-> {f}, retries |-> 0] ELSE pit[m]]
     /\ evtimer' = Armed(Armed(timers, {Retrans(n)}, RetransTime), {Timeout(n)}, Lifetime)
     /\ UNCHANGED mailbox

RxInterest(q, p, n) ==
  /\ FaceOf(p)
  /\ HandleInterest(p, n, FaceTimer(p))
  /\ queue' = q
  /\ UNCHANGED <<contents, lost>>

SendInterest(q, n) ==
  /\ HandleInterest(Local, n, evtimer)
  /\ queue' = q
  /\ UNCHANGED <<faces, contents, lost>>

Answered(n) == {m \in DOMAIN pit : <<n, m>> \in Answers}
WaitsFor(n, f) == \E m \in Answered(n) : f \in pit[m].pending

IsCached(n) == \E k \in DOMAIN contents : contents[k] = n
Dropped(k) == [j \in 1..Len(contents) - 1 |-> contents[IF j < k THEN j ELSE j + 1]]

(* Any content may be the oldest: last_used counts in seconds. *)
Evicted(k) == IF Len(contents) < MaxCache THEN k = 0 ELSE k \in DOMAIN contents

(***************************************************************************)
(* ccnl_content_add2cache and ccnl_content_serve_pending, in the order of  *)
(* ccnl_fwd_handleContent or of ccnl_cs_add: a content that is not cached  *)
(* yet.  A content that is evicted stops its timer, and a message it sent  *)
(* before keeps a pointer to it.                                           *)
(***************************************************************************)
Store(q, n, timers) ==
  \E k \in 0..Len(contents) :
    /\ Evicted(k)
    /\ contents' = <<n>> \o (IF k = 0 THEN contents ELSE Dropped(k))
    /\ LET gone == IF k = 0 THEN {} ELSE {contents[k]} IN
       /\ evtimer' = Armed(Disarmed(timers, {Expiry(m) : m \in gone} \cup TimersOf(Answered(n))),
                           {Expiry(n)}, ContentTime)
       /\ pit' = PitWithout(Answered(n))
       /\ queue' = Purged(Dangling(q, {Cont(m) : m \in gone}), PitEntries(Answered(n)))
       /\ lost' = lost \ (PitEntries(Answered(n)) \cup {Cont(m) : m \in gone \cup {n}})
    /\ Deliver(WaitsFor(n, Local))

RxData(q, p, n) ==
  /\ FaceOf(p)
  /\ \/ /\ ~ IsCached(n) /\ Answered(n) # {}
        /\ Store(q, n, FaceTimer(p))
     \/ /\ IsCached(n) \/ Answered(n) = {}
        /\ evtimer' = FaceTimer(p) /\ queue' = q
        /\ UNCHANGED <<pit, contents, lost, mailbox>>

(* A packet of a duplicate nonce, one a callback takes, or a malformed one *)
RxOther(q, p) ==
  /\ FaceOf(p) /\ evtimer' = FaceTimer(p) /\ queue' = q
  /\ UNCHANGED <<pit, contents, lost, mailbox>>

CsAdd(q, n) ==
  \/ ~ IsCached(n) /\ Store(q, n, evtimer) /\ UNCHANGED faces
  \/ IsCached(n) /\ queue' = q /\ UNCHANGED <<tables, mailbox>>

(* slip: the prefix is compared with as many characters as it has itself *)
FirstBegun(n) ==
  {k \in DOMAIN contents :
     /\ <<n, contents[k]>> \in PathPrefix
     /\ \A j \in 1..k - 1 : <<n, contents[j]>> \notin PathPrefix}

(* ccnl_cs_remove takes the first content whose printed path begins the given one. *)
FirstShown(n) ==
  {k \in DOMAIN contents :
     /\ <<contents[k], n>> \in PathPrefix
     /\ \A j \in 1..k - 1 : <<contents[j], n>> \notin PathPrefix}

CsRemove(q, n) ==
  /\ IF FirstShown(n) = {}
     THEN queue' = q /\ UNCHANGED <<contents, evtimer, lost>>
     ELSE \E k \in FirstShown(n) :
            /\ contents' = Dropped(k)
            /\ evtimer' = Disarmed(evtimer, {Expiry(contents[k])})
            /\ queue' = Dangling(q, {Cont(contents[k])})
            /\ lost' = lost \ {Cont(contents[k])}
  /\ UNCHANGED <<faces, pit, mailbox>>
-----------------------------------------------------------------------------
(***************************************************************************)
(* Timeouts, as the event loop handles them.                               *)
(***************************************************************************)

(* slip: > for >= *)
TriedTooOften(n) == pit[n].retries > MaxRetrans
TriedEnough(n) == pit[n].retries >= MaxRetrans

(* ccnl_interest_retransmit *)
IntRetrans(q, n) ==
  /\ IF TriedEnough(n) THEN UNCHANGED <<pit, evtimer>>
     ELSE /\ pit' = [pit EXCEPT ![n].retries = @ + 1]
          /\ evtimer' = Armed(evtimer, {Retrans(n)}, RetransTime)
  /\ queue' = q
  /\ UNCHANGED <<faces, contents, lost, mailbox>>

IntTimeout(q, n) ==
  /\ RemoveInterests(q, {n})
  /\ evtimer' = Disarmed(evtimer, TimersOf({n}))
  /\ UNCHANGED <<faces, contents, mailbox>>

(***************************************************************************)
(* ccnl_face_remove: the face leaves the entries it waits in, and those    *)
(* nobody else waits in go.  The timer of the face itself is not stopped:  *)
(* when a packet started it anew after this message was queued, freed      *)
(* memory stays in the list of timers.                                     *)
(***************************************************************************)
Alone(p) == {n \in DOMAIN pit : pit[n].pending \subseteq {p}}

FaceTimeout(q, p) ==
  /\ ~ Has(evtimer, Idle(p))
  /\ faces' = faces \ {p}
  /\ pit' = [n \in DOMAIN pit \ Alone(p) |-> [pit[n] EXCEPT !.pending = @ \ {p}]]
  /\ queue' = Purged(Dangling(q, {Face(p)}), PitEntries(Alone(p)))
  /\ lost' = lost \ (PitEntries(Alone(p)) \cup {Face(p)})
  /\ evtimer' = Disarmed(evtimer, TimersOf(Alone(p)))
  /\ UNCHANGED <<contents, mailbox>>

Breaks(m) ==
  \/ m.type \in TimerType /\ m.obj = Freed
  \/ m.type = "FACE_TIMEOUT" /\ \E p \in Peer : m.obj = Face(p) /\ Has(evtimer, Idle(p))

(* One turn of _ccnl_event_loop *)
Handle(m, q) ==
  \/ m.type = "RCV" /\ m.is = "interest" /\ RxInterest(q, m.peer, m.name)
  \/ m.type = "RCV" /\ m.is = "data" /\ RxData(q, m.peer, m.name)
  \/ m.type = "RCV" /\ m.is = "other" /\ RxOther(q, m.peer)
  \/ m.type = "SND" /\ SendInterest(q, m.name)
  \/ m.type = "CS_ADD" /\ CsAdd(q, m.name)
  \/ m.type = "CS_DEL" /\ CsRemove(q, m.name)
  \/ m.type = "CS_EXPIRE" /\ \E n \in Name : m.obj = Cont(n) /\ CsRemove(q, n)
  \/ m.type = "INT_RETRANS" /\ \E n \in Name : m.obj = PitEntry(n) /\ IntRetrans(q, n)
  \/ m.type = "INT_TIMEOUT" /\ \E n \in Name : m.obj = PitEntry(n) /\ IntTimeout(q, n)
  \/ m.type = "FACE_TIMEOUT" /\ \E p \in Peer : m.obj = Face(p) /\ FaceTimeout(q, p)
  \/ m.type = "none" /\ queue' = q /\ UNCHANGED <<tables, mailbox>>

Loop ==
  /\ queue # <<>> /\ ~ Breaks(Head(queue))
  /\ Handle(Head(queue), Tail(queue))
  /\ UNCHANGED <<broken, app>>

(* The message uses freed memory, or leaves some in the list of timers. *)
Break ==
  /\ queue # <<>> /\ Breaks(Head(queue))
  /\ broken' = TRUE
  /\ UNCHANGED <<tables, queue, app, mailbox>>
-----------------------------------------------------------------------------
(***************************************************************************)
(* The surroundings: time, the network, applications.                      *)
(***************************************************************************)
Due == {t \in DOMAIN evtimer : evtimer[t] = 0}

Tick ==
  /\ DOMAIN evtimer # {} /\ Due = {}
  /\ evtimer' = [t \in DOMAIN evtimer |-> evtimer[t] - 1]
  /\ UNCHANGED <<faces, pit, contents, queue, lost, broken, app, mailbox>>

(* The timer's interrupt: a message, lost when the queue is full *)
Fire(t) ==
  /\ t \in Due /\ t # Wait
  /\ evtimer' = Disarmed(evtimer, {t})
  /\ IF Len(queue) < QueueSize
     THEN queue' = Append(queue, [type |-> t[1], obj |-> t[2]]) /\ UNCHANGED lost
     ELSE UNCHANGED queue /\ lost' = IF t[1] = "INT_RETRANS" THEN lost ELSE lost \cup {t[2]}
  /\ UNCHANGED <<faces, pit, contents, broken, app, mailbox>>

FireWait ==
  /\ Wait \in Due
  /\ evtimer' = Disarmed(evtimer, {Wait})
  /\ mailbox' = IF Len(mailbox) < MailboxSize THEN Append(mailbox, "timeout") ELSE mailbox
  /\ UNCHANGED <<faces, pit, contents, queue, lost, broken, app>>

Enqueue(m) ==
  /\ Len(queue) < QueueSize
  /\ queue' = Append(queue, m)

(* Packets come from the driver's thread, contents and removals from applications. *)
Arrive ==
  /\ \E m \in Packet \cup {r \in Request : r.type # "SND"} : Enqueue(m)
  /\ UNCHANGED <<tables, broken, app, mailbox>>

(* ccnl_send_interest *)
AppAsk ==
  /\ app = "idle" /\ app' = "asked"
  /\ \E n \in AppAsked : Enqueue([type |-> "SND", name |-> n])
  /\ UNCHANGED <<tables, broken, mailbox>>

(* ccnl_wait_for_chunk, up to msg_receive *)
AppWait ==
  /\ app = "asked" /\ app' = "waiting"
  /\ evtimer' = Armed(evtimer, {Wait}, WaitTime)
  /\ UNCHANGED <<faces, pit, contents, queue, lost, broken, mailbox>>

(* slip: the timer is stopped for every message of the stack *)
TimerStopped == Disarmed(evtimer, {Wait})
StrayTimer == Armed(evtimer, {Wait}, WaitTime)

(* a chunk is copied and ends the wait, so does a timeout; anything else starts it anew *)
AppReceive ==
  /\ app = "waiting" /\ mailbox # <<>> /\ mailbox' = Tail(mailbox)
  /\ \/ Head(mailbox) = "chunk" /\ app' = "idle" /\ evtimer' = Disarmed(evtimer, {Wait})
     \/ Head(mailbox) = "timeout" /\ app' = "idle" /\ UNCHANGED evtimer
     \/ Head(mailbox) = "stray" /\ evtimer' = StrayTimer /\ UNCHANGED app
  /\ UNCHANGED <<faces, pit, contents, queue, lost, broken>>

(* Another thread sends the application something else. *)
Stray ==
  /\ Len(mailbox) < MailboxSize
  /\ mailbox' = Append(mailbox, "stray")
  /\ UNCHANGED <<tables, queue, broken, app>>
-----------------------------------------------------------------------------
Interrupt == FireWait \/ \E t \in Timer : Fire(t)
AppStep == AppWait \/ AppReceive

Next ==
  /\ ~ broken
  /\ \/ Loop \/ Break \/ Tick \/ Interrupt
     \/ Arrive \/ AppAsk \/ AppWait \/ AppReceive \/ Stray

Spec == Init /\ [][Next]_vars

(***************************************************************************)
(* The event loop has a priority of its own and blocks on nothing but its  *)
(* queue; time passes and timers fire; the application's thread runs.      *)
(***************************************************************************)
FairSpec ==
  /\ Spec
  /\ WF_vars(~ broken /\ (Loop \/ Break)) /\ WF_vars(~ broken /\ Tick)
  /\ WF_vars(~ broken /\ Interrupt) /\ WF_vars(~ broken /\ AppStep)
-----------------------------------------------------------------------------
(***************************************************************************)
(* No timeout or repetition is handled for an Interest that is gone:       *)
(* ccnl_interest_remove stops both timers of the entry and erases the      *)
(* messages that already left them, however long they lay in the queue.    *)
(***************************************************************************)
InterestsLive ==
  /\ \A k \in DOMAIN queue :
       queue[k].type \in {"INT_RETRANS", "INT_TIMEOUT"} => queue[k].obj \in PitEntries(DOMAIN pit)
  /\ \A n \in Name : Has(evtimer, Retrans(n)) \/ Has(evtimer, Timeout(n)) => Has(pit, n)

(***************************************************************************)
(* Without an ageing scan, what is kept must be timed: every PIT entry and *)
(* every content has its timer running or its message queued, unless the   *)
(* queue was full when the timer fired.  A content whose name is longer    *)
(* than another's is excepted: the removal of the one by its printed path  *)
(* may take the other (ccnl_cs_remove).                                    *)
(***************************************************************************)
Queued(type, obj) == \E k \in DOMAIN queue : queue[k] = [type |-> type, obj |-> obj]

Timed ==
  /\ \A n \in DOMAIN pit :
       Has(evtimer, Timeout(n)) \/ Queued("INT_TIMEOUT", PitEntry(n)) \/ PitEntry(n) \in lost
  /\ \A k \in DOMAIN contents :
       LET n == contents[k] IN
         \/ Has(evtimer, Expiry(n)) \/ Queued("CS_EXPIRE", Cont(n)) \/ Cont(n) \in lost
         \/ \E m \in Name \ {n} : <<m, n>> \in PathPrefix

(***************************************************************************)
(* A pending Interest ends, however often it is asked for again, unless    *)
(* its timeout message was lost in a full queue or freed memory was used.  *)
(***************************************************************************)
InterestsEnd ==
  \A n \in Name : Has(pit, n) ~> ~ Has(pit, n) \/ PitEntry(n) \in lost \/ broken

(***************************************************************************)
(* ccnl_wait_for_chunk returns, with a chunk or with -ETIMEDOUT, once      *)
(* other threads stop sending the application messages that are no chunks. *)
(* Before that each one starts the whole timeout anew ("TODO: reduce       *)
(* timeout value"), though ccn-lite-riot.h calls it the maximum to wait.   *)
(***************************************************************************)
WaitEnds ==
  <>[][~ Stray]_vars => ((app = "waiting") ~> (app = "idle" \/ broken))
=============================================================================
