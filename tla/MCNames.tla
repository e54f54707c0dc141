------------------------------ MODULE MCNames ------------------------------
(***************************************************************************)
(* The laws of module NameLaws on every pair of an Interest and a Data     *)
(* packet over a small set of names, with every Interest that joins the    *)
(* first, and suffix bounds up to the largest number the sums are computed *)
(* with.                                                                   *)
(***************************************************************************)
EXTENDS NameLaws

Comps == {<<>>, <<"a">>, <<"a", "a">>, <<"a", "h">>}
SomeNames == [suite : Suite, comps : Comps, chunk : {NoChunk, 0}]
Interests ==
  [name : SomeNames, min : {0, 1, Word - 1}, max : {0, 1, 2, Word - 1},
   ppk : {NoValue, "k1"}, mbf : {FALSE}]
Items == [name : SomeNames, digest : {"h"}, ppk : {NoValue, "k1"}, fresh : {0}]

Init == asked \in Interests /\ again \in {q \in Interests : IsSame(asked, q)} /\ held \in Items
Next == UNCHANGED <<asked, again, held>>
Spec == Init /\ [][Next]_<<asked, again, held>>
=============================================================================
