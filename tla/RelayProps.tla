----------------------------- MODULE RelayProps -----------------------------
(***************************************************************************)
(* What has to be true of the relay of module Relay.                       *)
(***************************************************************************)
EXTENDS Relay

(***************************************************************************)
(* ccnl_face_remove leaves no pointer to the face it frees: every face a   *)
(* PIT entry came from or waits for, and every face of a route, is live.   *)
(***************************************************************************)
NoDanglingFace ==
  /\ \A i \in pit : i.from \in DOMAIN faces \cup {NoFace} /\ i.pending \subseteq DOMAIN faces
  /\ \A r \in fib : r.face \in DOMAIN faces

(***************************************************************************)
(* Nobody waits for what is in the cache: whichever way content comes in   *)
(* (ccnl_fwd_handleContent, ccnl_cs_add), the faces that wait for it are   *)
(* served with it.  Stale content is excepted, because an Interest that    *)
(* must not be answered with it may be the older one.                      *)
(***************************************************************************)
CacheAnswersPending ==
  \A i \in pit, c \in cs : i.pending # {} /\ CMatch(i.pkt, c) => c.stale

(***************************************************************************)
(* One PIT entry per Interest (ccnl_interest_isSame), whoever asks: only   *)
(* addcacheobject adds a second one, which is then told apart by its rank. *)
(***************************************************************************)
PitKeyed ==
  \A i, j \in pit : IsSame(i.pkt, j.pkt) /\ i.gen = j.gen => i = j

(***************************************************************************)
(* The content store keeps one content per name.  Where it is over         *)
(* max_cache_entries (see CacheLimit) it is by one, and static contents    *)
(* fill it but for one: traffic by itself never takes it over the limit    *)
(* (ccnl_content_add2cache, ccnl_populate_cache).                          *)
(***************************************************************************)
CacheBounded ==
  /\ \A c, e \in cs : SameName(c.data.name, e.data.name) => c = e
  /\ MaxCache > 0 => Cardinality(cs) =< MaxCache + 1
  /\ MaxCache > 0 /\ Cardinality(cs) > MaxCache =>
       \A c, e \in cs : c.static \/ e.static \/ c = e

(***************************************************************************)
(* max_cache_entries is the "max number of cached items" (ccnl-relay.h,    *)
(* line 47).  The code does not keep to it: when all that is cached is     *)
(* static, nothing is evicted and a new content goes in all the same.      *)
(***************************************************************************)
CacheLimit == MaxCache > 0 => Cardinality(cs) =< MaxCache

(***************************************************************************)
(* A face that waits was heard from since the entry it waits in was made:  *)
(* so the face timeout cannot overtake the Interest timeout.               *)
(***************************************************************************)
FaceYoungerThanPending ==
  \A i \in pit : \A f \in i.pending \cap DOMAIN faces :
    ~ faces[f].static => faces[f].age =< i.age

(***************************************************************************)
(* MustBeFresh is kept up to the lateness of the timer: what ccnl_do_ageing *)
(* has not marked stale is at most that much over its freshness period.    *)
(***************************************************************************)
FreshInTime ==
  \A c \in cs : c.data.name.suite = "ndntlv" /\ ~ c.static /\ ~ c.stale =>
    c.age < c.data.fresh + lag \/ c.age =< lag

(***************************************************************************)
(* "Entries in the PIT MUST timeout rather than being held indefinitely"   *)
(* (ccnl_do_ageing): none is older than its lifetime by more than the      *)
(* lateness of the timer.                                                  *)
(***************************************************************************)
PendingInTime ==
  \A i \in pit : i.age < i.pkt.life + lag \/ i.age =< lag

(***************************************************************************)
(* Ageing gives up nobody who still waits: when every Interest lives less  *)
(* long than an idle face, an entry with waiting faces that has not timed  *)
(* out keeps all of them, whichever faces go in the same run of the timer. *)
(***************************************************************************)
WaitersKept ==
  [][lag' < lag =>
       \A i \in pit : i.pending # {} /\ ~ TimedOut(i) =>
         \E j \in pit' : j.pkt = i.pkt /\ j.gen = i.gen /\ j.pending = i.pending]_vars

(***************************************************************************)
(* A face stops waiting for one of three reasons: Data that answers it was *)
(* just sent to it, the entry timed out, or the face itself is gone.       *)
(***************************************************************************)
NotForgotten ==
  [][\A i \in pit : \A f \in i.pending :
       \/ \E j \in pit' : IsSame(i.pkt, j.pkt) /\ f \in j.pending
       \/ \E t \in txData' : t[1] = f /\ Answers(t[2], i.pkt)
       \/ lag' < lag /\ TimedOut(i)
       \/ f \notin DOMAIN faces']_vars

(***************************************************************************)
(* Static content (CCNL_CONTENT_FLAGS_STATIC) leaves the store only by the *)
(* command removecacheobject, never by eviction or by ageing.              *)
(***************************************************************************)
StaticStays ==
  [][\A c \in cs : c.static /\ c \notin cs' =>
       /\ cs' = cs \ {c} /\ lag' = lag
       /\ \E n \in CacheName : n.comps = c.data.name.comps]_vars

(***************************************************************************)
(* The relay keeps the promise of module Delivery: Data goes to the faces  *)
(* that wait for it, to all of them and only to them.                      *)
(***************************************************************************)
Wanted == UNION {{<<f, i.pkt>> : f \in i.pending} : i \in pit}

D == INSTANCE Delivery WITH
       Face <- FaceId, Request <- Packet, Item <- AnyData,
       Match <- {m \in AnyData \X Packet : Answers(m[1], m[2])},
       want <- Wanted, sent <- txData

Delivers == D!Spec

(***************************************************************************)
(* The PIT drains: no Interest stays in it for ever, however often and by  *)
(* whomever it is repeated.                                                *)
(***************************************************************************)
PitDrains == \A p \in Packet : Twins(p) # {} ~> Twins(p) = {}
=============================================================================
