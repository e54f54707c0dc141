----------------------------- MODULE TimerQueue -----------------------------
(***************************************************************************)
(* The ordered list of ccnl-core/src/ccnl-os-time.c: where a timer goes    *)
(* into it, and how one comes out.  Entries are records with a field at.   *)
(*                                                                         *)
(* A definition whose comment begins with "slip" is not the code's: it is  *)
(* the definition after it with one mistake, and nothing here uses it.     *)
(***************************************************************************)
EXTENDS Integers, SequencesExt

(* slip: a timer goes before those of the same time. *)
PlaceBeforeEquals(q, at) ==
  CHOOSE k \in 1..Len(q) + 1 :
    /\ \A j \in 1..k - 1 : q[j].at < at
    /\ k =< Len(q) => q[k].at >= at

(* ccnl_set_timer stops at the first entry that is later than the new one. *)
Place(q, at) ==
  CHOOSE k \in 1..Len(q) + 1 :
    /\ \A j \in 1..k - 1 : q[j].at =< at
    /\ k =< Len(q) => q[k].at > at

Insert(q, t) == InsertAt(q, Place(q, t.at), t)

(* slip: the list is cut at the timer to be removed. *)
CutAt(q, k) == SubSeq(q, 1, k - 1)

(* ccnl_rem_timer *)
Without(q, k) == RemoveAt(q, k)
=============================================================================
