----------------------------- MODULE MCControl -----------------------------
(* Instances of Control for TLC.  Names of users' words; numbers as ccn-lite-ctrl has them. *)
EXTENDS Control

CONSTANTS c1, c2, c3

Name(suite, comps, chunk) == [suite |-> suite, comps |-> comps, chunk |-> chunk]

Sizes == [head |-> 150, ifs |-> 100, face |-> 120, fib |-> 110, pit |-> 130, cs |-> 110]

Foreign(cmd, stmt, fields) == [verb |-> "foreign", request |-> Request(cmd, stmt, fields)]

(* What users type *)
Face(verb, host, flags) == [verb |-> verb, host |-> host, port |-> 9695, flags |-> flags]
FaceCommands ==
  {Face("newUDPface", "h1", 1), Face("newUDPface", "h2", 0), Face("newUDP6face", "h3", 1),
   [verb |-> "newUNIXface", host |-> "h4", port |-> None, flags |-> 1]}
OddFaces ==
  {Face("newUDPface", "h1", 40000), Face("newETHface", "h1", 1),
   [verb |-> "newWPANface", host |-> "h1"]}
Changes ==
  {[verb |-> "destroyface", face |-> 1], [verb |-> "destroyface", face |-> 2],
   [verb |-> "prefixreg", comps |-> <<"a">>, face |-> 2, suite |-> "ccntlv"],
   [verb |-> "prefixreg", comps |-> <<"a", "b">>, face |-> 3, suite |-> "ccnb"],
   [verb |-> "removeContentFromCache", comps |-> <<"a">>]}
Others ==
  {[verb |-> "setfrag", face |-> 1, frag |-> "none", mtu |-> 1400],
   [verb |-> "newUDPdev", port |-> 9000], [verb |-> "newUDP6dev", port |-> 70000],
   [verb |-> "newETHdev", dev |-> "eth0", port |-> 34997],
   [verb |-> "destroydev"], [verb |-> "echoserver", comps |-> <<"e">>, suite |-> "ndn2013"],
   [verb |-> "prefixunreg", comps |-> <<"a">>, face |-> 2, suite |-> "ccnb"],
   [verb |-> "addContentToCache", name |-> Name("ndn2013", <<"n">>, 1)],
   [verb |-> "addContentToCache", name |-> Name("ccnb", <<"n">>, None)],
   Foreign("destroydev", None, <<>>), Foreign("setfrag", "FACEINSTANCE", <<>>),
   Foreign("newface", "FACEINSTANCE", F("UNIXSRC", "h5")), 
   Foreign("debug", "DEBUGREQUEST", <<>>)}
Debugs == {[verb |-> "debug", what |-> w] : w \in {"dump", "halt", "dump+halt", "stats"}}

(* A user of each kind: one makes a face or asks for something odd, one builds on the faces
   there are, one sits on another host. *)
Mixed == (c1 :> FaceCommands \cup OddFaces \cup Others)
         @@ (c2 :> {Face("newUDPface", "h2", 0)} \cup Changes \cup Debugs)
         @@ (c3 :> {Face("newUDPface", "h6", 0)})
Dump == c1 :> {[verb |-> "debug", what |-> "dump"]}

Families == <<"ip4", "ip6", "unix">>
FewContents ==
  {Name("ccnb", <<"a">>, None), Name("ccnb", <<"a">>, 0), Name("ndn2013", <<"a">>, None)}
ManyContents == {Name("ndn2013", <<"n">>, k) : k \in 1..20}
=============================================================================
