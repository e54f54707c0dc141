------------------------------- MODULE Octets -------------------------------
(***************************************************************************)
(* What the packet formats share.  A buffer is a sequence of octets.  A    *)
(* reader or a writer that may fail gives the set of its results: one, or  *)
(* none.                                                                   *)
(***************************************************************************)
EXTENDS Integers, Sequences, SequencesExt

Octet == 0..255

(* v in n octets, at most four, high octet first *)
Weight == <<1, 256, 65536, 16777216>>
BigEndian(n, v) == [k \in 1..n |-> (v \div Weight[n - k + 1]) % 256]

(* for (...): op over the elements of s, in their order *)
Fold(op(_, _), base, s) ==
  LET upto[k \in 0..Len(s)] == IF k = 0 THEN base ELSE op(upto[k - 1], s[k])
  IN upto[Len(s)]

Number(b) == Fold(LAMBDA v, o : 256 * v + o, 0, b)

Take(b, n) == SubSeq(b, 1, n)
Drop(b, n) == SubSeq(b, n + 1, Len(b))

(* One result after another, each step over the results of the one before *)
AndThen(results, step(_)) == UNION {step(r) : r \in results}
Only(r, cond) == IF cond THEN {r} ELSE {}

(* At most n turns of a loop, until a turn changes nothing *)
Loop(turn(_), start, n) ==
  LET after[k \in 0..n] == IF k = 0 THEN {start} ELSE AndThen(after[k - 1], turn)
  IN after[CHOOSE k \in 0..n : k = n \/ AndThen(after[k], turn) = after[k]]

(* while (dehead(...) == 0), up to the end of b: each element found changes what was
   read, and nothing may be left over.  An element has an octet or more. *)
Scan(dehead(_), read(_, _), b, start) ==
  LET turn(s) ==
        IF s.rest = <<>> THEN {s}
        ELSE AndThen(dehead(s.rest), LAMBDA f :
               AndThen(read(s.out, f), LAMBDA o : {[out |-> o, rest |-> f.rest]}))
  IN {s.out : s \in {t \in Loop(turn, [out |-> start, rest |-> b], Len(b)) : t.rest = <<>>}}
=============================================================================
