------------------------------- MODULE TxPath -------------------------------
(***************************************************************************)
(* The transmit path of a relay compiled with USE_SCHEDULER: the queue of  *)
(* each face, the ring of the interface, their schedulers and the timers   *)
(* that these set (ccnl-core/src/ccnl-relay.c, ccnl-sched.c,               *)
(* ccnl-os-time.c), driven by the event loop of ccnl-unix.c.               *)
(*                                                                         *)
(* A queue asks its scheduler for leave to send (RTS); the scheduler calls *)
(* back (CTS) at once or from a timer, and is told when a packet is out    *)
(* (CTS_done).  These functions call each other, so the stack of calls is  *)
(* a variable and each function body is one action: with "cts" pending on  *)
(* the stack, the next step is the body of that callback.                  *)
(*                                                                         *)
(* Time is relative: a timer holds the time that is left, -1 when it is    *)
(* overdue, and a scheduler the time until nextTX.  No time passes inside  *)
(* a pass of ccnl_run_events; module Timers has the passes in full.        *)
(*                                                                         *)
(* A definition whose comment begins with "slip" is not the code's: it is  *)
(* the definition after it with one mistake, and nothing here uses it.     *)
(***************************************************************************)
EXTENDS TimerQueue, FiniteSets

CONSTANTS
  Faces,       \* the remote faces, all on one interface
  Data,        \* contents of packets
  If,          \* the interface
  Nothing,     \* no packet
  QLen,        \* CCNL_MAX_IF_QLEN
  Kind,        \* scheduler of each face and of If: "none", "chain" (mode 0), "rate" (mode 1)
  Gap,         \* ipi of each scheduler
  Removable,   \* the faces that destroyface and ageing may remove
  PerRound,    \* bound: packets that the forwarder sends per round of the event loop
  MaxTimers,   \* bound: timers that are set before the forwarder is held back
  MaxCnt       \* bound: the count of a scheduler before the forwarder is held back

Sched == Faces \cup {If}

ASSUME IfAssumption == If \notin Faces
ASSUME KindAssumption == Kind \in [Sched -> {"none", "chain", "rate"}]
ASSUME GapAssumption == Gap \in [Sched -> Nat]
ASSUME LimitsAssumption ==
  /\ QLen \in Nat \ {0}
  /\ PerRound \in Nat /\ MaxTimers \in Nat /\ MaxCnt \in Nat

VARIABLES
  live,       \* the faces that exist
  outq,       \* the queue of each face
  ring,       \* ifs[].queue
  qfront,     \* index of the next packet in the ring
  qlen,       \* how many packets are in the ring
  sched,      \* cnt and the time until nextTX of each scheduler
  timers,     \* eventqueue: the pending callbacks, who is to be called
  serving,    \* whether the handler of the first timer runs
  calls,      \* the stack of calls, the innermost first
  phase,      \* "events" in ccnl_run_events, "io" while sockets are read
  budget,     \* packets that the forwarder may still send in this round
  writable,   \* whether this round selects the socket for writing
  wire        \* output: the packet that the last step sent

queues == <<outq, ring, qfront, qlen>>
loop == <<phase, budget, writable>>
vars == <<live, queues, sched, timers, serving, calls, loop, wire>>

Request == [face : Faces, data : Data]
Call == [op : {"cts", "done"}, who : Sched]
Cts(s) == [op |-> "cts", who |-> s]
Done(s) == [op |-> "done", who |-> s]

Slots == 0..QLen - 1

Init ==
  /\ live = Faces
  /\ outq = [f \in Faces |-> <<>>]
  /\ ring = [i \in Slots |-> Nothing] /\ qfront = 0 /\ qlen = 0
  /\ sched = [s \in Sched |-> [cnt |-> 0, next |-> 0]]
  /\ timers = <<>> /\ serving = FALSE /\ calls = <<>>
  /\ phase = "events" /\ budget = 0 /\ writable = FALSE
  /\ wire = Nothing
-----------------------------------------------------------------------------
(* slip: the time of the next slot stays when a timer is set for it. *)
GrantSameSlot(s, n, rest) ==
  \/ /\ Kind[s] = "chain"
     /\ sched' = [sched EXCEPT ![s].cnt = n]
     /\ calls' = <<Cts(s)>> \o rest
     /\ UNCHANGED timers
  \/ /\ Kind[s] = "rate" /\ sched[s].next = 0
     /\ sched' = [sched EXCEPT ![s] = [cnt |-> n, next |-> Gap[s]]]
     /\ calls' = <<Cts(s)>> \o rest
     /\ UNCHANGED timers
  \/ /\ Kind[s] = "rate" /\ sched[s].next > 0
     /\ timers' = Insert(timers, [at |-> sched[s].next, who |-> s])
     /\ sched' = [sched EXCEPT ![s].cnt = n]
     /\ calls' = rest

(* slip: one pending timer is thought to do for all packets. *)
GrantOnce(s, n, rest) ==
  \/ /\ Kind[s] = "chain"
     /\ sched' = [sched EXCEPT ![s].cnt = n]
     /\ calls' = <<Cts(s)>> \o rest
     /\ UNCHANGED timers
  \/ /\ Kind[s] = "rate" /\ sched[s].next = 0
     /\ sched' = [sched EXCEPT ![s] = [cnt |-> n, next |-> Gap[s]]]
     /\ calls' = <<Cts(s)>> \o rest
     /\ UNCHANGED timers
  \/ /\ Kind[s] = "rate" /\ sched[s].next > 0
     /\ \/ /\ \A k \in 1..Len(timers) : timers[k].who # s
           /\ timers' = Insert(timers, [at |-> sched[s].next, who |-> s])
           /\ sched' = [sched EXCEPT ![s] = [cnt |-> n, next |-> @.next + Gap[s]]]
        \/ /\ \E k \in 1..Len(timers) : timers[k].who = s
           /\ sched' = [sched EXCEPT ![s].cnt = n]
           /\ UNCHANGED timers
     /\ calls' = rest

(***************************************************************************)
(* The common end of ccnl_sched_RTS and ccnl_sched_CTS_done: the count     *)
(* becomes n, and the callback is made at once if the next slot has begun, *)
(* or else a timer is set for it.  rest is what the caller has yet to do.  *)
(***************************************************************************)
Grant(s, n, rest) ==
  \/ /\ Kind[s] = "chain"
     /\ sched' = [sched EXCEPT ![s].cnt = n]
     /\ calls' = <<Cts(s)>> \o rest
     /\ UNCHANGED timers
  \/ /\ Kind[s] = "rate" /\ sched[s].next = 0
     /\ sched' = [sched EXCEPT ![s] = [cnt |-> n, next |-> Gap[s]]]
     /\ calls' = <<Cts(s)>> \o rest
     /\ UNCHANGED timers
  \/ /\ Kind[s] = "rate" /\ sched[s].next > 0
     /\ timers' = Insert(timers, [at |-> sched[s].next, who |-> s])
     /\ sched' = [sched EXCEPT ![s] = [cnt |-> n, next |-> @.next + Gap[s]]]
     /\ calls' = rest

(* ccnl_sched_RTS *)
Rts(s, rest) ==
  \/ Grant(s, sched[s].cnt + 1, rest)
  \/ Kind[s] = "none" /\ calls' = rest /\ UNCHANGED <<sched, timers>>
-----------------------------------------------------------------------------
(* ccnl_face_enqueue: a packet that is in the queue already is not added. *)
FaceEnqueue(f, d) ==
  /\ phase = "io" /\ calls = <<>> /\ budget > 0
  /\ f \in live
  /\ Len(timers) < MaxTimers /\ sched[f].cnt < MaxCnt
  /\ budget' = budget - 1
  /\ \/ /\ Contains(outq[f], d)
        /\ UNCHANGED <<outq, sched, timers, calls>>
     \/ /\ ~ Contains(outq[f], d)
        /\ outq' = [outq EXCEPT ![f] = Append(@, d)]
        /\ \/ Kind[f] # "none" /\ Rts(f, <<>>)
           \/ Kind[f] = "none" /\ calls' = <<Cts(f)>> /\ UNCHANGED <<sched, timers>>
  /\ wire' = Nothing
  /\ UNCHANGED <<live, ring, qfront, qlen, serving, phase, writable>>

FreeSlot == (qfront + qlen) % QLen

(* slip: the ring is full only when there is one packet too many. *)
RingFullLate == qlen > QLen

RingFull == qlen >= QLen

(* slip: the scheduler is asked before the limit is looked at. *)
FaceCtsAskingFirst(f) ==
  /\ calls # <<>> /\ Head(calls) = Cts(f) /\ f \in live
  /\ \/ /\ outq[f] = <<>>
        /\ calls' = Tail(calls)
        /\ UNCHANGED <<queues, sched, timers>>
     \/ /\ outq[f] # <<>> /\ RingFull
        /\ outq' = [outq EXCEPT ![f] = Tail(@)]
        /\ Rts(If, Tail(calls))
        /\ UNCHANGED <<ring, qfront, qlen>>
     \/ /\ outq[f] # <<>> /\ ~ RingFull
        /\ outq' = [outq EXCEPT ![f] = Tail(@)]
        /\ ring' = [ring EXCEPT ![FreeSlot] = [face |-> f, data |-> Head(outq[f])]]
        /\ qlen' = qlen + 1
        /\ Rts(If, Tail(calls))
        /\ UNCHANGED qfront
  /\ wire' = Nothing
  /\ UNCHANGED <<live, serving, loop>>

(* ccnl_face_CTS and ccnl_interface_enqueue: a full ring drops the packet, and tells nobody. *)
FaceCts(f) ==
  /\ calls # <<>> /\ Head(calls) = Cts(f) /\ f \in live
  /\ \/ /\ outq[f] = <<>>
        /\ calls' = Tail(calls)
        /\ UNCHANGED <<queues, sched, timers>>
     \/ /\ outq[f] # <<>> /\ RingFull
        /\ outq' = [outq EXCEPT ![f] = Tail(@)]
        /\ calls' = Tail(calls)
        /\ UNCHANGED <<ring, qfront, qlen, sched, timers>>
     \/ /\ outq[f] # <<>> /\ ~ RingFull
        /\ outq' = [outq EXCEPT ![f] = Tail(@)]
        /\ ring' = [ring EXCEPT ![FreeSlot] = [face |-> f, data |-> Head(outq[f])]]
        /\ qlen' = qlen + 1
        /\ Rts(If, Tail(calls))
        /\ UNCHANGED qfront
  /\ wire' = Nothing
  /\ UNCHANGED <<live, serving, loop>>

(* ccnl_interface_CTS; a slot that is left is cleared, as nobody reads it again. *)
InterfaceCts ==
  /\ calls # <<>> /\ Head(calls) = Cts(If)
  /\ \/ /\ qlen = 0
        /\ calls' = Tail(calls) /\ wire' = Nothing
        /\ UNCHANGED <<ring, qfront, qlen>>
     \/ /\ qlen > 0
        /\ wire' = ring[qfront]
        /\ ring' = [ring EXCEPT ![qfront] = Nothing]
        /\ qfront' = (qfront + 1) % QLen
        /\ qlen' = qlen - 1
        /\ calls' = <<Done(If), Done(ring[qfront].face)>> \o Tail(calls)
  /\ UNCHANGED <<live, outq, sched, timers, serving, loop>>

(* ccnl_sched_CTS_done, for a face by way of ccnl_face_CTS_done *)
CtsDone(s) ==
  /\ calls # <<>> /\ Head(calls) = Done(s) /\ s \in live \cup {If}
  /\ \/ /\ Kind[s] = "none"
        /\ calls' = Tail(calls)
        /\ UNCHANGED <<sched, timers>>
     \/ /\ Kind[s] # "none" /\ sched[s].cnt =< 1
        /\ sched' = [sched EXCEPT ![s].cnt = @ - 1]
        /\ calls' = Tail(calls)
        /\ UNCHANGED timers
     \/ sched[s].cnt > 1 /\ Grant(s, sched[s].cnt - 1, Tail(calls))
  /\ wire' = Nothing
  /\ UNCHANGED <<live, queues, serving, loop>>

(***************************************************************************)
(* A callback to a face that was freed meanwhile: undefined behaviour.     *)
(* The outcome modelled is that the memory still is as ccnl_face_remove    *)
(* left it, with an empty queue, so that nothing happens.                  *)
(***************************************************************************)
CallFreed ==
  /\ calls # <<>> /\ Head(calls).who \notin live \cup {If}
  /\ calls' = Tail(calls) /\ wire' = Nothing
  /\ UNCHANGED <<live, queues, sched, timers, serving, loop>>

(* ccnl_face_remove, as far as it concerns this path: timers and ring keep the face. *)
FaceRemove(f) ==
  /\ phase = "io" /\ calls = <<>>
  /\ f \in live \cap Removable
  /\ live' = live \ {f}
  /\ outq' = [outq EXCEPT ![f] = <<>>]
  /\ wire' = Nothing
  /\ UNCHANGED <<ring, qfront, qlen, sched, timers, serving, calls, loop>>
-----------------------------------------------------------------------------
(* ccnl_run_events *)
RunHandler ==
  /\ phase = "events" /\ calls = <<>> /\ ~ serving
  /\ timers # <<>> /\ Head(timers).at < 0
  /\ serving' = TRUE
  /\ calls' = <<Cts(Head(timers).who)>>
  /\ wire' = Nothing
  /\ UNCHANGED <<live, queues, sched, timers, loop>>

HandlerReturns ==
  /\ serving /\ calls = <<>>
  /\ serving' = FALSE
  /\ timers' = Tail(timers)
  /\ wire' = Nothing
  /\ UNCHANGED <<live, queues, sched, calls, loop>>

EndPass ==
  /\ phase = "events" /\ calls = <<>> /\ ~ serving
  /\ timers # <<>> => Head(timers).at >= 0
  /\ phase' = "io" /\ budget' = PerRound
  /\ wire' = Nothing
  /\ UNCHANGED <<live, queues, sched, timers, serving, calls, writable>>

(* ccnl_io_loop calls ccnl_interface_CTS itself when the socket takes data. *)
SocketWritable ==
  /\ phase = "io" /\ calls = <<>> /\ writable
  /\ writable' = FALSE
  /\ calls' = <<Cts(If)>>
  /\ wire' = Nothing
  /\ UNCHANGED <<live, queues, sched, timers, serving, phase, budget>>

(* The next round looks at qlen before it runs the timers. *)
EndRound ==
  /\ phase = "io" /\ calls = <<>>
  /\ phase' = "events" /\ budget' = 0
  /\ writable' = (qlen > 0)
  /\ wire' = Nothing
  /\ UNCHANGED <<live, queues, sched, timers, serving, calls>>

Down(n, floor) == IF n > floor THEN n - 1 ELSE n

Tick ==
  /\ phase = "io" /\ calls = <<>>
  /\ timers' = [k \in 1..Len(timers) |-> [timers[k] EXCEPT !.at = Down(@, -1)]]
  /\ sched' = [s \in Sched |-> [sched[s] EXCEPT !.next = Down(@, 0)]]
  /\ wire' = Nothing
  /\ UNCHANGED <<live, queues, serving, calls, loop>>

Callback ==
  \/ \E f \in Faces : FaceCts(f)
  \/ InterfaceCts
  \/ \E s \in Sched : CtsDone(s)
  \/ CallFreed

Next ==
  \/ \E f \in Faces, d \in Data : FaceEnqueue(f, d)
  \/ Callback
  \/ \E f \in Faces : FaceRemove(f)
  \/ RunHandler \/ HandlerReturns \/ EndPass
  \/ SocketWritable \/ EndRound \/ Tick

Spec == Init /\ [][Next]_vars

(***************************************************************************)
(* The event loop goes on with whatever it does, and time passes.  Sockets *)
(* that are selected for writing become writable; nobody has to send.      *)
(***************************************************************************)
FairSpec ==
  /\ Spec
  /\ WF_vars(Callback) /\ WF_vars(RunHandler) /\ WF_vars(HandlerReturns)
  /\ WF_vars(EndPass) /\ WF_vars(EndRound)
  /\ SF_vars(Tick) /\ SF_vars(SocketWritable)
-----------------------------------------------------------------------------
TypeOK ==
  /\ live \subseteq Faces
  /\ outq \in [Faces -> Seq(Data)]
  /\ ring \in [Slots -> Request \cup {Nothing}]
  /\ qfront \in Slots /\ qlen \in 0..QLen
  /\ sched \in [Sched -> [cnt : Int, next : Nat]]
  /\ timers \in Seq([at : {-1} \cup Nat, who : Sched])
  /\ serving \in BOOLEAN
  /\ calls \in Seq(Call)
  /\ phase \in {"events", "io"} /\ budget \in 0..PerRound /\ writable \in BOOLEAN
  /\ wire \in Request \cup {Nothing}

(* How many callbacks s can count on: in the stack, or set as timers that have not run. *)
Pending(s) ==
  Cardinality({k \in 1..Len(calls) : calls[k] = Cts(s)})
  + Cardinality({k \in 1..Len(timers) : timers[k].who = s /\ ~ (serving /\ k = 1)})

(***************************************************************************)
(* No wake-up is lost: for each packet that waits in the queue of a face,  *)
(* and for each one in the ring, a callback is on its way, whichever       *)
(* packets were dropped, however late the timers run, and although         *)
(* ccnl_io_loop takes packets out of the ring behind the scheduler's back. *)
(***************************************************************************)
NoLostWakeup ==
  /\ \A f \in live : Len(outq[f]) =< Pending(f)
  /\ Kind[If] # "none" => qlen =< Pending(If)

InRing == [k \in 1..qlen |-> ring[(qfront + k - 1) % QLen]]

(***************************************************************************)
(* The schedulers' counts cover what is queued: the interface's count is   *)
(* the packets in the ring and those just sent, exactly; a face's count is *)
(* no less than its packets in queue and ring (it is more after a drop).   *)
(***************************************************************************)
CountsCover ==
  /\ Kind[If] # "none" =>
       sched[If].cnt = qlen + Cardinality({k \in 1..Len(calls) : calls[k] = Done(If)})
  /\ \A f \in live : Kind[f] # "none" =>
       sched[f].cnt >= Len(outq[f]) + Cardinality({k \in 1..qlen : InRing[k].face = f})
                       + Cardinality({k \in 1..Len(calls) : calls[k] = Done(f)})

(***************************************************************************)
(* The callbacks that a rate scheduler (ccnl_sched_pktrate_new) has put    *)
(* off are at least its interval apart, and its next slot comes after.     *)
(***************************************************************************)
SlotsApart ==
  \A i \in 1..Len(timers) : timers[i].at >= 0 =>
    LET s == timers[i].who IN
    /\ sched[s].next - timers[i].at >= Gap[s]
    /\ \A j \in i + 1..Len(timers) : timers[j].who = s => timers[j].at - timers[i].at >= Gap[s]

(* What is for face f in a sequence of requests *)
PacketsFor(f, s) ==
  LET upTo[k \in 0..Len(s)] ==
        IF k = 0 THEN <<>>
        ELSE IF s[k].face = f THEN Append(upTo[k - 1], s[k].data) ELSE upTo[k - 1]
  IN  upTo[Len(s)]

(***************************************************************************)
(* Packets leave in the order in which the forwarder queued them for a     *)
(* face, none of them twice: queue and ring together are one lossy FIFO.   *)
(***************************************************************************)
Q == INSTANCE LossyFifo WITH fifo <- [f \in Faces |-> PacketsFor(f, InRing) \o outq[f]]

LossyFifo == Q!Spec

(***************************************************************************)
(* A packet does not stay in the queue of a face, nor does the ring stay   *)
(* full, as long as the event loop runs.                                   *)
(***************************************************************************)
QueuesMove ==
  /\ \A f \in Faces, d \in Data : Contains(outq[f], d) ~> ~ Contains(outq[f], d)
  /\ qlen = QLen ~> qlen < QLen
=============================================================================
