----------------------------- MODULE MCNetwork -----------------------------
(* Instances of Network for TLC: an NDN content of one packet, and a file of two
   chunks. *)
EXTENDS Network

Name(suite, comps, k) == [suite |-> suite, comps |-> comps, chunk |-> k]
NdnOne == [name |-> Name("ndntlv", <<"a">>, -1), digest |-> "h", ppk |-> NoValue, fresh |-> 0]
NdnFile == Name("ndntlv", <<"m">>, 0)
NdnBoth == {NdnOne.name, NdnFile}

(* a lifetime of 0 milliseconds is left out, and is the default then *)
SomeJunk == {[life |-> 10, mbf |-> FALSE], [life |-> 25, mbf |-> TRUE]}
=============================================================================
