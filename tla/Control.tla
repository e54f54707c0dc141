------------------------------ MODULE Control ------------------------------
(***************************************************************************)
(* The control program ccn-lite-ctrl (ccnl-utils/src/ccn-lite-ctrl.c) and  *)
(* the relay's handlers of its commands (ccnl-core/src/ccnl-mgmt.c).       *)
(*                                                                         *)
(* A run of the program sends one command, as the fields of the last       *)
(* component of an Interest for /ccnx//COMMAND, and waits for the answer,  *)
(* part after part.  A field is a tag with a value: the octets are those   *)
(* of module Ccnb.  Numbers given as text stay numbers.                    *)
(***************************************************************************)
EXTENDS Integers, Sequences, FiniteSets, SequencesExt, Bags

CONSTANTS
  Client,        \* runs of the program, of one command each
  Command,       \* what the user of each run may type: a verb of Verb with its words
  None,          \* a field that is not there: NULL
  Interfaces,    \* the families of the relay's interfaces at start
  Contents,      \* the content store at start: names
  MaxInterfaces, \* CCNL_MAX_INTERFACES
  EntrySize,     \* octets of a dumped interface, face, route, interest, content
  NameSize,      \* octets of a name, as text
  EntryRoom,     \* octets of the dump's buffer per entry: 200
  PartSize,      \* octets of the answer in a part: CCNL_MAX_PACKET_SIZE / 4
  Remote,        \* the runs on another host
  Lossy          \* the program reaches the relay over UDP

(* "foreign" is a request of another program. *)
Verb ==
  {"debug", "newETHdev", "newUDPdev", "newUDP6dev", "destroydev", "echoserver", "newETHface",
   "newUDPface", "newUDP6face", "newWPANface", "newUNIXface", "setfrag", "destroyface",
   "prefixreg", "prefixunreg", "addContentToCache", "removeContentFromCache", "foreign"}

ASSUME ControlAssumption ==
  /\ MaxInterfaces \in Nat /\ Lossy \in BOOLEAN
  /\ EntryRoom \in Nat \ {0} /\ PartSize \in Nat \ {0}
  /\ \A c \in Client : \A a \in Command[c] :
       a.verb \in Verb /\ (a.verb = "newUNIXface" => a.port = None)

VARIABLES
  relay,     \* interfaces, faces, bag of routes, PIT, content store, last face id, halted
  cl,        \* each run: its command, how far it is, the parts it has asked for
  toRelay,   \* the packets each run has sent
  toClient,  \* the packets the relay has sent to each run
  lost,      \* runs that lost a packet
  told       \* the faces users were told of: id and peer

vars == <<relay, cl, toRelay, toClient, lost, told>>
-----------------------------------------------------------------------------
(* The requests (mk*Request).  An optional field is left out when its value is NULL. *)

F(tag, val) == <<[tag |-> tag, val |-> val]>>
Given(tag, val) == IF val = None THEN <<>> ELSE F(tag, val)

Request(cmd, stmt, fields) ==
  [cmd |-> cmd, stmt |-> stmt, fields |-> F("ACTION", cmd) \o fields]

(* What the relay cannot read as a command *)
Garbled == [cmd |-> None, stmt |-> None, fields |-> <<>>]

mkDebugRequest(a) == Request("debug", "DEBUGREQUEST", F("DEBUGACTION", a.what))

mkNewEthDevRequest(a) ==
  Request("newdev", "DEVINSTANCE",
    F("DEVNAME", a.dev) \o F("PORT", a.port) \o F("FRAG", 0) \o F("DEVFLAGS", 0))

mkNewUDPDevRequest(a, ip4src, ip6src) ==
  Request("newdev", "DEVINSTANCE",
    Given("IP4SRC", ip4src) \o Given("IP6SRC", ip6src) \o F("PORT", a.port)
    \o F("FRAG", 0) \o F("DEVFLAGS", 0))

(* A name component of CCNx is sent with its TLV header. *)
WireComps(comps, suite) ==
  [k \in DOMAIN comps |-> IF suite = "ccntlv" THEN <<"hdr", comps[k]>> ELSE <<comps[k]>>]

mkEchoserverRequest(a) ==
  Request("echoserver", "FWDINGENTRY",
    F("NAME", WireComps(a.comps, a.suite)) \o F("SUITE", a.suite))

(* The address of a face, with the protocol of an IP address: UDP *)
FaceFields(ip4src, ip6src, host, port) ==
  Given("IP4SRC", ip4src) \o (IF ip4src = None THEN <<>> ELSE F("IPPROTO", 17))
  \o Given("IP6SRC", ip6src) \o (IF ip6src = None THEN <<>> ELSE F("IPPROTO", 17))
  \o Given("HOST", host) \o Given("PORT", port)

(* The length of MACSRC is added to the packet's and not to the statement's, so that the
   name runs on over octets never written. *)
mkNewFaceRequest(macsrc, ip4src, ip6src, wpan, host, port, flags) ==
  IF macsrc # None THEN Garbled
  ELSE Request("newface", "FACEINSTANCE",
         FaceFields(ip4src, ip6src, host, port)
         \o Given("WPANADR", wpan) \o Given("WPANPANID", wpan) \o F("FACEFLAGS", flags))

mkNewUNIXFaceRequest(a) ==
  Request("newface", "FACEINSTANCE", F("UNIXSRC", a.host) \o F("FACEFLAGS", a.flags))

mkDestroyFaceRequest(a) == Request("destroyface", "FACEINSTANCE", F("FACEID", a.face))

mkSetfragRequest(a) ==
  Request("setfrag", "FACEINSTANCE",
    F("FACEID", a.face) \o F("FRAG", a.frag) \o F("MTU", a.mtu))

mkPrefixregRequest(cmd, a) ==
  Request(cmd, "FWDINGENTRY",
    F("NAME", WireComps(a.comps, a.suite)) \o F("FACEID", a.face) \o F("SUITE", a.suite))

(* The name of the packet in the file, and the suite that goes with it *)
mkAddToRelayCacheRequest(a) ==
  [cmd |-> "addcacheobject", stmt |-> "CONTENTOBJ",
   fields |-> F("SUITE", a.name.suite)
              \o F("CHUNKNUM", IF a.name.chunk = None THEN 0 ELSE a.name.chunk)
              \o F("CHUNKFLAG", a.name.chunk # None)
              \o F("COMPONENT", a.name.comps)]

mkRemoveFormRelayCacheRequest(a) ==
  [cmd |-> "removecacheobject", stmt |-> "CONTENT", fields |-> F("NAME", a.comps)]

(* main: the request of a command; and what any other program may send *)
Build(a) ==
  CASE a.verb = "debug" -> {mkDebugRequest(a)}
    [] a.verb = "newETHdev" -> {mkNewEthDevRequest(a)}
    [] a.verb = "newUDPdev" -> {mkNewUDPDevRequest(a, "any", None)}
    [] a.verb = "newUDP6dev" -> {mkNewUDPDevRequest(a, None, "any")}
    [] a.verb = "destroydev" -> {None, Garbled}   \* the length of the packet is not set
    [] a.verb = "echoserver" -> {mkEchoserverRequest(a)}
    [] a.verb = "newETHface" ->
         {mkNewFaceRequest("any", None, None, None, a.host, a.port, a.flags)}
    [] a.verb = "newUDPface" ->
         {mkNewFaceRequest(None, "any", None, None, a.host, a.port, a.flags)}
    [] a.verb = "newUDP6face" ->
         {mkNewFaceRequest(None, None, "any", None, a.host, a.port, a.flags)}
    [] a.verb = "newWPANface" ->
         {mkNewFaceRequest(None, None, None, a.host, None, None, 1)}
    [] a.verb = "newUNIXface" -> {mkNewUNIXFaceRequest(a)}
    [] a.verb = "setfrag" -> {mkSetfragRequest(a)}
    [] a.verb = "destroyface" -> {mkDestroyFaceRequest(a)}
    [] a.verb \in {"prefixreg", "prefixunreg"} -> {mkPrefixregRequest(a.verb, a)}
    [] a.verb = "addContentToCache" -> {mkAddToRelayCacheRequest(a)}
    [] a.verb = "removeContentFromCache" -> {mkRemoveFormRelayCacheRequest(a)}
    [] a.verb = "foreign" -> {a.request}
-----------------------------------------------------------------------------
(* The relay's tables, for a command *)

(* The last field of that tag stands. *)
Extract(rq, tag) ==
  LET at == {k \in DOMAIN rq.fields : rq.fields[k].tag = tag} IN
  IF at = {} THEN None ELSE rq.fields[Max(at)].val

(* slip: one part more than there is *)
NumPartsTooMany(size) == (size \div PartSize) + 2

(* ccnl_mgmt_send_return_split.  The parts after the first are to go to the cache, but a
   content of CCNb is never made by ccnl_mkSimpleContent: it ends there. *)
NumParts(size) == (size \div PartSize) + 1

(* ccnl_mgmt_return_ccn_msg, and what the handlers write themselves: the first part *)
Answer(cmd, text, fields, size) ==
  [cmd |-> cmd, text |-> text, fields |-> fields, last |-> NumParts(size) = 1]

Outcome(r, answer) == {[relay |-> r, answer |-> answer]}
Reply(r, cmd, text, fields) == Outcome(r, Answer(cmd, text, fields, 1))
Silence(r) == Outcome(r, None)

(* A string that is not there is read, or the memory of a face that was freed *)
Crash(r) == Silence([r EXCEPT !.halted = TRUE])

(* slip: the lowest number that is free *)
FirstFreeId(r) ==
  CHOOSE n \in 1..r.seqno + 1 : n \notin DOMAIN r.faces /\ \A k \in 1..n - 1 : k \in DOMAIN r.faces

NextId(r) == r.seqno + 1

(* ccnl_get_face_or_create with no interface given: always a new face *)
AddFace(r, family, host, port, static) ==
  [r EXCEPT !.faces = [f \in DOMAIN @ \cup {NextId(r)} |->
                         IF f \in DOMAIN @ THEN @[f]
                         ELSE [family |-> family, host |-> host, port |-> port, static |-> static]],
            !.seqno = @ + 1]

(* ccnl_face_remove *)
FaceRemove(r, g) ==
  [r EXCEPT !.faces = [f \in DOMAIN @ \ {g} |-> @[f]],
            !.fib = [route \in {x \in DOMAIN @ : x.face # g} |-> @[route]],
            !.pit = {[i EXCEPT !.pending = @ \ {g}] : i \in {j \in @ : j.pending \ {g} # {}}}]

HasInterface(r, family) == \E k \in DOMAIN r.ifs : r.ifs[k] = family

IsPort(port) == port =< 65535

(* The address newface asks for; ctrl asks for one at most. *)
AddressAsked(rq) ==
  LET x(tag) == Extract(rq, tag)
      ip == x("IPPROTO") = 17 /\ x("HOST") # None /\ x("PORT") # None /\ IsPort(x("PORT"))
      eth == x("MACSRC") # None /\ x("HOST") # None /\ x("PORT") # None /\ IsPort(x("PORT"))
  IN  {a \in {[family |-> "eth", host |-> x("HOST"), port |-> x("PORT")]} : eth}
      \cup {a \in {[family |-> "ip4", host |-> x("HOST"), port |-> x("PORT")]} :
              ip /\ x("IP4SRC") # None}
      \cup {a \in {[family |-> "ip6", host |-> x("HOST"), port |-> x("PORT")]} :
              ip /\ x("IP6SRC") # None}
      \cup {a \in {[family |-> "unix", host |-> x("UNIXSRC"), port |-> None]} :
              x("UNIXSRC") # None}

NewFace(r, rq) ==
  LET asked == {a \in AddressAsked(rq) : HasInterface(r, a.family)}
      flags == Extract(rq, "FACEFLAGS")
      x(tag) == Extract(rq, tag)
      shown == Given("MACSRC", x("MACSRC"))
               \o FaceFields(x("IP4SRC"), x("IP6SRC"), x("HOST"), x("PORT"))
               \o Given("FACEFLAGS", flags)
  IN  IF \/ x("WPANADR") # None /\ x("PORT") = None
         \/ asked # {} /\ flags = None
      THEN Crash(r)
      ELSE IF asked = {} THEN Reply(r, "newface", "failed", shown)
      ELSE UNION {Reply(AddFace(r, a.family, a.host, a.port, flags =< 32767 /\ flags % 2 = 1),
                          "newface", IF flags =< 32767 THEN "worked" ELSE "failed",
                          shown \o F("FACEID", NextId(r))) : a \in asked}

(* Built without USE_FRAG; module Frag has the other case. *)
SetFrag(r, rq) ==
  LET x(tag) == Extract(rq, tag) IN
  IF None \in {x("FACEID"), x("FRAG"), x("MTU")} THEN Crash(r)
  ELSE IF x("FACEID") \notin DOMAIN r.faces THEN Reply(r, "setfrag", "failed", rq.fields)
  ELSE Reply(r, "setfrag", "no fragmentation support", rq.fields)

DestroyFace(r, from, rq) ==
  LET g == Extract(rq, "FACEID") IN
  IF g = None \/ g \notin DOMAIN r.faces THEN Reply(r, "destroyface", "failed", rq.fields)
  ELSE Reply(FaceRemove(r, g), "destroyface", "worked", rq.fields)
       \cup (IF g = from THEN Silence(FaceRemove(r, g)) \cup Crash(r) ELSE {})

(* The kind of interface a request names *)
FamilyAsked(rq) ==
  LET has(tag) == Extract(rq, tag) # None IN
  IF ~ has("PORT") THEN None
  ELSE IF has("DEVNAME") THEN "eth"
  ELSE IF has("IP6SRC") THEN "ip6"
  ELSE IF has("IP4SRC") THEN "ip4"
  ELSE None

(* The answer says that it worked in every case: it is set before anything is tried, and a
   socket that could not be opened (-1) is not told from one that could. *)
NewDev(r, rq) ==
  LET family == FamilyAsked(rq)
      refused == \/ Len(r.ifs) >= MaxInterfaces
                 \/ family = None
                 \/ ~ IsPort(Extract(rq, "PORT"))
  IN  Reply(IF refused THEN r ELSE [r EXCEPT !.ifs = Append(@, family)],
            "newdev", "worked", rq.fields)

(* slip: the suite of a route is not kept *)
RouteNoSuite(rq) ==
  [comps |-> Extract(rq, "NAME"), suite |-> "ccnb", face |-> Extract(rq, "FACEID")]

(* The route of a request *)
RouteAsked(rq) ==
  [comps |-> Extract(rq, "NAME"), suite |-> Extract(rq, "SUITE"), face |-> Extract(rq, "FACEID")]

PrefixReg(r, rq) ==
  LET x(tag) == Extract(rq, tag) IN
  IF x("FACEID") = None \/ x("NAME") \in {None, <<>>}
  THEN Reply(r, "prefixreg", "failed", rq.fields)
  ELSE IF x("SUITE") = None THEN Crash(r)
  ELSE IF x("FACEID") \notin DOMAIN r.faces THEN Reply(r, "prefixreg", "failed", rq.fields)
  ELSE Reply([r EXCEPT !.fib = @ (+) SetToBag({RouteAsked(rq)})], "prefixreg", "worked", rq.fields)

(* The name of a content, from its fields *)
NameAsked(rq) ==
  [suite |-> Extract(rq, "SUITE"), comps |-> Extract(rq, "COMPONENT"),
   chunk |-> IF Extract(rq, "CHUNKFLAG") = TRUE THEN Extract(rq, "CHUNKNUM") ELSE None]

(* The answer's text must fit 300 octets.  The Interest that asks the program for the
   content follows the answer, and the entry stays without anyone pending. *)
AddCacheObject(r, from, rq) ==
  IF rq.fields = <<>> \/ 57 + NameSize >= 300 THEN Silence(r)
  ELSE LET entry == [name |-> NameAsked(rq), from |-> from, pending |-> {}]
       IN  Reply([r EXCEPT !.pit = @ \cup {entry}],
                 "addcacheobject", "received add to cache request",
                 F("INTEREST", NameAsked(rq)))

(* Names are compared as strings, component by component: only those of CCNb end in 0. *)
RemoveCacheObject(r, rq) ==
  LET found == {n \in r.cs : n.suite = "ccnb" /\ n.comps = Extract(rq, "NAME")} IN
  IF found = {}
  THEN Reply(r, "removecacheobject", "Failed to remove content", <<>>)
  ELSE UNION {Reply([r EXCEPT !.cs = @ \ {n}],
                    "removecacheobject", "Content successfully removed", F("NAME", n)) :
                n \in found}

Entries(r) ==
  Len(r.ifs) + Cardinality(DOMAIN r.faces) + BagCardinality(r.fib) + Cardinality(r.pit) + Cardinality(r.cs)

(* ccnl_mgmt_create_*_stmt, from what get_*_dump found *)
InterfacesSize(r) == Len(r.ifs) * EntrySize.ifs
FacesSize(r) == Cardinality(DOMAIN r.faces) * EntrySize.face
RoutesSize(r) == BagCardinality(r.fib) * (EntrySize.fib + NameSize)
InterestsSize(r) == Cardinality(r.pit) * (EntrySize.pit + NameSize)
ContentsSize(r) == Cardinality(r.cs) * (EntrySize.cs + NameSize)

DumpSize(r) ==
  EntrySize.head + InterfacesSize(r) + FacesSize(r) + RoutesSize(r) + InterestsSize(r)
  + ContentsSize(r)

(* A string literal is freed when no action is given; the buffer has EntryRoom octets for
   each entry, and nothing is answered when they do not suffice.  The actions that dump fill
   the answer; the actions that halt let it out. *)
Debug(r, rq) ==
  LET what == Extract(rq, "DEBUGACTION")
      dumps == what \in {"dump", "dump+halt"}
      size == IF dumps THEN DumpSize(r) ELSE EntrySize.head
      s == [r EXCEPT !.halted = what \in {"halt", "dump+halt"}]
      text == IF what \in {"dump", "halt", "dump+halt"} THEN "debug cmd worked"
              ELSE "unknown debug action, ignored"
  IN  IF what = None THEN Crash(r)
      ELSE IF size >= EntryRoom * Entries(r) THEN Silence(s)
      ELSE Outcome(s, Answer("debug", text, <<>>, size))

(* A handler that meets another statement than its own finds no field. *)
OfStmt(rq, stmt) == IF rq.stmt = stmt THEN rq ELSE [rq EXCEPT !.fields = <<>>]

(* ccnl_mgmt_handle: built without USE_ECHO *)
Handle(r, from, rq) ==
  CASE rq.cmd = "newdev" -> NewDev(r, OfStmt(rq, "DEVINSTANCE"))
    [] rq.cmd = "setfrag" -> SetFrag(r, OfStmt(rq, "FACEINSTANCE"))
    [] rq.cmd = "destroydev" ->
         Reply(r, "mgmt_destroy", "mgmt_destroydev not implemented yet", <<>>)
    [] rq.cmd = "newface" -> NewFace(r, OfStmt(rq, "FACEINSTANCE"))
    [] rq.cmd = "destroyface" -> DestroyFace(r, from, OfStmt(rq, "FACEINSTANCE"))
    [] rq.cmd = "prefixreg" -> PrefixReg(r, OfStmt(rq, "FWDINGENTRY"))
    [] rq.cmd = "addcacheobject" -> AddCacheObject(r, from, OfStmt(rq, "CONTENTOBJ"))
    [] rq.cmd = "removecacheobject" -> RemoveCacheObject(r, OfStmt(rq, "CONTENT"))
    [] rq.cmd = "debug" -> Debug(r, OfStmt(rq, "DEBUGREQUEST"))
    [] OTHER -> Reply(r, rq.cmd, "unknown mgmt command", <<>>)

(* ccnl_mgmt; what is not a packet is dropped *)
Mgmt(r, from, rq) ==
  IF rq = Garbled THEN Silence(r)
  ELSE IF r.faces[from].family # "unix"
  THEN Reply(r, rq.cmd, "refused: origin of mgmt cmd is not local", <<>>)
  ELSE Handle(r, from, rq)

Sent(answer) == IF answer = None THEN <<>> ELSE <<answer>>
-----------------------------------------------------------------------------
(* An Interest for a later part: make_next_seg_debug_interest *)
SegName(k) == [suite |-> "ccnb", comps |-> <<"mgmt", k>>, chunk |-> None]

(* The face of a packet's sender, made when there is none: ccnl_core_RX *)
FacesOf(r, c) == {f \in DOMAIN r.faces : r.faces[f].host = c}

Arrived(r, c) ==
  IF FacesOf(r, c) # {} THEN r
  ELSE AddFace(r, IF c \in Remote THEN "ip4" ELSE "unix", c, None, FALSE)

(* Nothing in the cache or the tables answers a later part: it waits in the PIT. *)
AskedFor(r, from, name) ==
  LET same == {i \in r.pit : i.name = name} IN
  [r EXCEPT !.pit =
     IF same = {} THEN @ \cup {[name |-> name, from |-> from, pending |-> {from}]}
     ELSE (@ \ same) \cup {[i EXCEPT !.pending = @ \cup {from}] : i \in same}]

Send(c) ==
  /\ cl[c].at = "idle"
  /\ \E rq \in Build(cl[c].cmd) :
       /\ cl' = [cl EXCEPT ![c].at = IF rq = None THEN "done" ELSE "waiting"]
       /\ toRelay' = [toRelay EXCEPT
                        ![c] = IF rq = None THEN @ ELSE Append(@, [kind |-> "cmd", rq |-> rq])]
  /\ UNCHANGED <<relay, toClient, lost, told>>

Receive(c) ==
  /\ ~ relay.halted /\ toRelay[c] # <<>>
  /\ LET p == Head(toRelay[c])
         r == Arrived(relay, c)
         from == CHOOSE f \in FacesOf(r, c) : TRUE
     IN  \E o \in IF p.kind = "cmd" THEN Mgmt(r, from, p.rq)
                  ELSE Silence(AskedFor(r, from, p.name)) :
           /\ relay' = o.relay
           /\ toClient' = [toClient EXCEPT ![c] = @ \o Sent(o.answer)]
  /\ toRelay' = [toRelay EXCEPT ![c] = Tail(@)]
  /\ UNCHANGED <<cl, lost, told>>

(* check_has_next *)
HasNext(m) == ~ m.last

(* The program asks for the next part until the last one. *)
Collect(c) ==
  /\ cl[c].at = "waiting" /\ toClient[c] # <<>>
  /\ LET m == Head(toClient[c])
         next == cl[c].part + 1
         id == Extract(m, "FACEID")
     IN  /\ cl' = [cl EXCEPT ![c].at = IF HasNext(m) THEN @ ELSE "done",
                             ![c].part = IF HasNext(m) THEN next ELSE @]
         /\ toRelay' = [toRelay EXCEPT
                          ![c] = IF HasNext(m)
                                 THEN Append(@, [kind |-> "seg", name |-> SegName(next)])
                                 ELSE @]
         /\ told' = IF m.cmd = "newface" /\ m.text = "worked" /\ cl[c].cmd.verb # "foreign"
                    THEN told \cup {[id |-> id, host |-> cl[c].cmd.host, port |-> cl[c].cmd.port]}
                    ELSE told
  /\ toClient' = [toClient EXCEPT ![c] = Tail(@)]
  /\ UNCHANGED <<relay, lost>>

(* A datagram of UDP is lost, to the relay or to the program. *)
Lose(c) ==
  /\ Lossy
  /\ \/ /\ toRelay[c] # <<>>
        /\ toRelay' = [toRelay EXCEPT ![c] = Tail(@)]
        /\ UNCHANGED toClient
     \/ /\ toClient[c] # <<>>
        /\ toClient' = [toClient EXCEPT ![c] = Tail(@)]
        /\ UNCHANGED toRelay
  /\ lost' = lost \cup {c}
  /\ UNCHANGED <<relay, cl, told>>

(* ccnl_do_ageing *)
ExpireFace ==
  /\ ~ relay.halted
  /\ \E f \in DOMAIN relay.faces : /\ ~ relay.faces[f].static
                                   /\ relay' = FaceRemove(relay, f)
  /\ UNCHANGED <<cl, toRelay, toClient, lost, told>>

ExpireEntry ==
  /\ ~ relay.halted
  /\ \E i \in relay.pit : relay' = [relay EXCEPT !.pit = @ \ {i}]
  /\ UNCHANGED <<cl, toRelay, toClient, lost, told>>

Init ==
  /\ relay = [ifs |-> Interfaces, faces |-> <<>>, fib |-> EmptyBag, pit |-> {}, cs |-> Contents,
              seqno |-> 0, halted |-> FALSE]
  /\ \E typed \in [Client -> UNION {Command[c] : c \in Client}] :
       /\ \A c \in Client : typed[c] \in Command[c]
       /\ cl = [c \in Client |-> [cmd |-> typed[c], at |-> "idle", part |-> 0]]
  /\ toRelay = [c \in Client |-> <<>>]
  /\ toClient = [c \in Client |-> <<>>]
  /\ lost = {} /\ told = {}

Next ==
  \/ \E c \in Client : Send(c) \/ Receive(c) \/ Collect(c) \/ Lose(c)
  \/ ExpireFace
  \/ ExpireEntry

(* The relay's loop reads its sockets, and the program is blocked on nothing else. *)
Fairness == \A c \in Client : WF_vars(Receive(c)) /\ WF_vars(Collect(c))

Spec == Init /\ [][Next]_vars /\ Fairness
-----------------------------------------------------------------------------
NewDevVerb == {"newUDPdev", "newUDP6dev", "newETHdev"}

(* What the tables are to be when a command is answered so *)
Wanted(a, m, r) ==
  CASE a.verb \in {"newETHface", "newUDPface", "newUDP6face", "newUNIXface"} ->
         m.text = "worked" =>
           /\ Extract(m, "FACEID") \in DOMAIN r.faces
           /\ LET face == r.faces[Extract(m, "FACEID")] IN
                /\ face.host = a.host /\ face.port = a.port
                /\ face.static <=> a.flags % 2 = 1
    [] a.verb = "destroyface" -> m.text = "worked" => a.face \notin DOMAIN r.faces
    [] a.verb = "prefixreg" ->
         m.text = "worked" =>
           \E route \in DOMAIN r.fib : /\ route.face = a.face /\ route.suite = a.suite
                                       /\ route.comps = WireComps(a.comps, a.suite)
    [] a.verb = "addContentToCache" ->
         m.text = "received add to cache request" =>
           \E i \in r.pit : /\ i.name.suite = a.name.suite /\ i.name.comps = a.name.comps
                            /\ i.name.chunk = a.name.chunk
    [] a.verb = "removeContentFromCache" ->
         m.text = "Content successfully removed" => Extract(m, "NAME").comps = a.comps
    [] a.verb = "debug" ->
         m.text = "debug cmd worked" /\ a.what \in {"halt", "dump+halt"} => r.halted
    [] a.verb \in {"newWPANface", "setfrag", "destroydev", "echoserver", "prefixunreg"} ->
         m.text # "worked"
    [] a.verb \in NewDevVerb \cup {"foreign"} -> TRUE

(* An answer to ccn-lite-ctrl that says that a command worked is given with the relay's
   tables as the user asked: the field built from each word of the command line is the field
   the handler reads (the mk*Request of ccn-lite-ctrl.c and the handlers of ccnl-mgmt.c).  A
   command that this relay does not know, or cannot do, is never said to have worked.  The
   commands for a new device are left out: ccnl_mgmt_newdev has "worked" as its answer before
   it tries anything, and keeps it when it fails. *)
AsAsked ==
  [][\A c \in Client :
       Len(toClient'[c]) > Len(toClient[c]) =>
         Wanted(cl[c].cmd, Last(toClient'[c]), relay')]_vars

(* A face id that a user was told of never comes to stand for another peer, whatever faces
   are destroyed, expire or are made for the programs themselves; and every route leads to a
   face that is there (ccnl_get_face_or_create, ccnl_face_remove). *)
FacesAsTold ==
  /\ \A t \in told : t.id \in DOMAIN relay.faces =>
       relay.faces[t.id].host = t.host /\ relay.faces[t.id].port = t.port
  /\ \A route \in DOMAIN relay.fib : route.face \in DOMAIN relay.faces

AnswerEnds(verbs) ==
  \A c \in Client :
    cl[c].at = "waiting" /\ cl[c].cmd.verb \in verbs
      ~> cl[c].at = "done" \/ relay.halted \/ c \in lost

(* A command with a short answer ends, unless the relay halts or a packet is lost: the first
   part is marked as the last one (ccnl_mgmt_send_return_split and check_has_next).  Not so
   destroyface, which may free the face that its answer goes to. *)
ShortEnds ==
  AnswerEnds({"newUDPface", "newUDP6face", "newUNIXface", "newUDPdev", "prefixreg",
              "prefixunreg", "removeContentFromCache"})

(* "To serve the following interest the relay puts the other segments into the cache"
   (doc/internal/ccnl-mgmt-packet-structure.txt): a dump ends too. *)
DumpEnds == AnswerEnds({"debug"})
=============================================================================
