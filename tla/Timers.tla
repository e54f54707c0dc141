------------------------------- MODULE Timers -------------------------------
(***************************************************************************)
(* The timer queue of ccnl-core/src/ccnl-os-time.c: a list of handlers by  *)
(* time, served by ccnl_run_events.  The event loop calls that once a      *)
(* round; it reads the clock once and then runs the handlers that are due, *)
(* each while its own entry still heads the list.  Handlers set and remove *)
(* timers (ageing sets itself, schedulers set clear-to-send callbacks).    *)
(*                                                                         *)
(* The clock is gettimeofday: it goes on at any moment, also inside a      *)
(* handler, and somebody may set it back.                                  *)
(*                                                                         *)
(* A definition whose comment begins with "slip" is not the code's: it is  *)
(* the definition after it with one mistake, and nothing here uses it.     *)
(***************************************************************************)
EXTENDS TimerQueue

CONSTANTS
  Delays,            \* what callers pass to ccnl_set_timer
  MaxClock,          \* bound: the clock stops here
  MaxTimers,         \* bound: how many timers are ever set
  StepsBack          \* when the clock may be set back: "between" or "during" passes

ASSUME DelaysAssumption == Delays \subseteq Nat
ASSUME TimersBoundsAssumption == MaxClock \in Nat /\ MaxTimers \in Nat
ASSUME ClockAssumption == StepsBack \subseteq {"between", "during"}

VARIABLES
  clock,        \* what gettimeofday returns
  eventqueue,   \* the list of timers
  now,          \* the clock at the start of the pass of ccnl_run_events, or NoPass
  running,      \* the timer whose handler runs, or NoTimer
  made,         \* history: how many timers were ever set; they are numbered
  madeBefore,   \* history: how many were set when the pass began
  ran,          \* history: the timers whose handlers were called, in order
  removed       \* history: the numbers of timers taken off by ccnl_rem_timer

vars == <<clock, eventqueue, now, running, made, madeBefore, ran, removed>>

NoPass == -1
NoTimer == 0

Timer == [id : Nat \ {NoTimer}, at : Nat]

(* slip: the clock is read anew for each timer. *)
DueByClock(t) == t.at < clock

(* timevaldelta(&t->timeout, &now) >= 0 ends the pass. *)
Due(t) == t.at < now

Init ==
  /\ clock = 0
  /\ eventqueue = <<>>
  /\ now = NoPass
  /\ running = NoTimer
  /\ made = 0 /\ madeBefore = 0
  /\ ran = <<>> /\ removed = {}

(* ccnl_set_timer and ccnl_rem_timer are called from handlers of packets, *)
(* between passes, and from handlers of timers.                           *)
InHandler == now = NoPass \/ running # NoTimer

SetTimer(d) ==
  /\ InHandler /\ made < MaxTimers
  /\ made' = made + 1
  /\ eventqueue' = Insert(eventqueue, [id |-> made + 1, at |-> clock + d])
  /\ UNCHANGED <<clock, now, running, madeBefore, ran, removed>>

(* No handler removes the timer that runs it: ccnl_run_events reads t->next afterwards. *)
RemTimer(k) ==
  /\ InHandler
  /\ eventqueue[k].id # running
  /\ eventqueue' = Without(eventqueue, k)
  /\ removed' = removed \cup {eventqueue[k].id}
  /\ UNCHANGED <<clock, now, running, made, madeBefore, ran>>

BeginPass ==
  /\ now = NoPass
  /\ now' = clock
  /\ madeBefore' = made
  /\ UNCHANGED <<clock, eventqueue, running, made, ran, removed>>

RunHandler ==
  /\ now # NoPass /\ running = NoTimer
  /\ eventqueue # <<>> /\ Due(Head(eventqueue))
  /\ running' = Head(eventqueue).id
  /\ ran' = Append(ran, Head(eventqueue))
  /\ UNCHANGED <<clock, eventqueue, now, made, madeBefore, removed>>

(* eventqueue = t->next: whatever was put before t meanwhile goes with it. *)
HandlerReturns ==
  /\ running # NoTimer
  /\ \E k \in 1..Len(eventqueue) :
       /\ eventqueue[k].id = running
       /\ eventqueue' = SubSeq(eventqueue, k + 1, Len(eventqueue))
  /\ running' = NoTimer
  /\ UNCHANGED <<clock, now, made, madeBefore, ran, removed>>

EndPass ==
  /\ now # NoPass /\ running = NoTimer
  /\ eventqueue # <<>> => ~ Due(Head(eventqueue))
  /\ now' = NoPass
  /\ UNCHANGED <<clock, eventqueue, running, made, madeBefore, ran, removed>>

Tick ==
  /\ clock < MaxClock
  /\ clock' = clock + 1
  /\ UNCHANGED <<eventqueue, now, running, made, madeBefore, ran, removed>>

StepBack ==
  /\ (IF now = NoPass THEN "between" ELSE "during") \in StepsBack
  /\ clock > 0
  /\ clock' = clock - 1
  /\ UNCHANGED <<eventqueue, now, running, made, madeBefore, ran, removed>>

Next ==
  \/ \E d \in Delays : SetTimer(d)
  \/ \E k \in 1..Len(eventqueue) : RemTimer(k)
  \/ BeginPass \/ RunHandler \/ HandlerReturns \/ EndPass
  \/ Tick \/ StepBack

Spec == Init /\ [][Next]_vars
-----------------------------------------------------------------------------
TypeOK ==
  /\ clock \in Nat
  /\ eventqueue \in Seq(Timer)
  /\ now \in Nat \cup {NoPass}
  /\ running \in Nat
  /\ made \in Nat /\ madeBefore \in Nat
  /\ ran \in Seq(Timer)
  /\ removed \subseteq Nat

Queued == {eventqueue[k].id : k \in 1..Len(eventqueue)} \ {running}
Ran == {ran[k].id : k \in 1..Len(ran)}

(***************************************************************************)
(* Every timer that is set waits in the list, has run, or was removed, and *)
(* only one of these, whatever handlers set or remove while they run: none *)
(* is lost when ccnl_run_events takes off the entry it has served.         *)
(***************************************************************************)
NoneLost ==
  /\ 1..made = Queued \cup Ran \cup removed
  /\ Queued \cap Ran = {} /\ Queued \cap removed = {} /\ Ran \cap removed = {}

Sooner(s, t) == s.at < t.at \/ (s.at = t.at /\ s.id < t.id)

(***************************************************************************)
(* The timer that runs is the soonest of all that wait, those that its     *)
(* handler sets included; of several for the same time it is the one that  *)
(* was set first, so that callbacks that are due together come in order.   *)
(***************************************************************************)
SoonestFirst ==
  running # NoTimer =>
    \A k \in 1..Len(eventqueue) :
      eventqueue[k].id # running => Sooner(ran[Len(ran)], eventqueue[k])

(***************************************************************************)
(* Handlers run in this order over all passes, as ccnl_set_timer sorts     *)
(* them; a clock that is set back may have a timer run after later ones.   *)
(***************************************************************************)
RunInOrder == \A i, j \in 1..Len(ran) : i < j => Sooner(ran[i], ran[j])

(***************************************************************************)
(* A pass ends: it runs only timers that were set before it began, so a    *)
(* handler that sets itself again, however soon, cannot keep the event     *)
(* loop from its sockets.                                                  *)
(***************************************************************************)
PassIsBounded == running # NoTimer => running =< madeBefore
=============================================================================
