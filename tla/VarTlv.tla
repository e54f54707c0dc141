------------------------------- MODULE VarTlv -------------------------------
(* The types and lengths of NDN, in one octet or more: Local RPC has them as well. *)
EXTENDS Octets

(* ccnl_ndntlv_prependTLval *)
TLval(v) ==
  IF v < 253 THEN <<v>>
  ELSE IF v < 65536 THEN <<253>> \o BigEndian(2, v)
  ELSE <<254>> \o BigEndian(4, v)

(* ccnl_ndntlv_varlenint: lengths of eight octets are "not implemented yet". *)
Varlenint(b) ==
  LET at(n) == {[val |-> Number(SubSeq(b, 2, n)), rest |-> Drop(b, n)]} IN
  CASE b = <<>> -> {}
    [] b # <<>> /\ b[1] < 253 -> {[val |-> b[1], rest |-> Tail(b)]}
    [] b # <<>> /\ b[1] = 253 /\ Len(b) >= 3 -> at(3)
    [] b # <<>> /\ b[1] = 254 /\ Len(b) >= 5 -> at(5)
    [] OTHER -> {}

(* A header, and its value.  The code compares the length with what there was before
   the header; builders write no length that lies between. *)
Dehead(b) ==
  AndThen(Varlenint(b), LAMBDA t :
    AndThen(Varlenint(t.rest), LAMBDA l :
      Only([type |-> t.val, val |-> Take(l.rest, l.val), rest |-> Drop(l.rest, l.val)],
           l.val =< Len(l.rest))))
=============================================================================
