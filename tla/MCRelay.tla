------------------------------ MODULE MCRelay ------------------------------
(***************************************************************************)
(* Small instances of module Relay: the packets, names and peers that the  *)
(* configurations MCRelay_*.cfg choose from.                               *)
(***************************************************************************)
EXTENDS RelayProps

Name(suite, comps) == [suite |-> suite, comps |-> comps, chunk |-> NoChunk]

NdnA == Name("ndntlv", <<"a">>)
NdnB == Name("ndntlv", <<"a", "b">>)
NdnDigest == Name("ndntlv", <<"a", "h1">>)
CcnbA == Name("ccnb", <<"a">>)
CcnxA == Name("ccntlv", <<"a">>)

Ask(name, nonce, life) ==
  [name |-> name, min |-> 0, max |-> IF name.suite = "ccntlv" THEN 0 ELSE 4,
   ppk |-> NoValue, mbf |-> FALSE, nonce |-> nonce, scope |-> 3, hops |-> 0, life |-> life]

Item(name, fresh) == [name |-> name, digest |-> "h1", ppk |-> NoValue, fresh |-> fresh]

(* Traffic: NDN, two names, an Interest that lives longer and must be answered fresh, and
   one that must not be forwarded *)
TrafficInterest ==
  {Ask(NdnA, "n1", 1), [Ask(NdnA, "n2", 2) EXCEPT !.mbf = TRUE],
   [Ask(NdnB, "n3", 1) EXCEPT !.scope = 2]}
TrafficData == {Item(NdnA, 1)}
TrafficAppData == {Item(NdnA, 1), Item(NdnB, 0)}
TrafficPrefix == {Name("ndntlv", <<>>)}

(* Management, content of an application with the name of cached content, and an
   Interest whose hops are used up *)
MgmtInterest == {Ask(CcnbA, NoValue, 1), [Ask(CcnxA, NoValue, 1) EXCEPT !.hops = 1]}
MgmtData == {Item(CcnbA, 0)}
MgmtAppData == {[Item(CcnbA, 0) EXCEPT !.ppk = "k1"]}
MgmtPreload == {Item(NdnB, 0), Item(NdnDigest, 0)}
LimitPreload == {Item(NdnB, 0)}
MgmtCacheName == {CcnbA}
MgmtPrefix == {Name("ccnb", <<"a">>)}
=============================================================================
