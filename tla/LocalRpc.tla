------------------------------ MODULE LocalRpc ------------------------------
(***************************************************************************)
(* Local RPC: the expressions of ccn-lite-rpc (ccn-lite-rpc.c), their      *)
(* octets (ccnl-pkt-localrpc.c) and the builtin functions of the relay     *)
(* (ccnl-fwd/src/ccnl-localrpc.c).                                         *)
(*                                                                         *)
(* An expression is a tree [type, val, args]: a leaf has a value, a number *)
(* as <<n>>; a node has its parts, an application its function first.      *)
(* Names, and what the answers say in words, are short stand-ins.          *)
(***************************************************************************)
EXTENDS VarTlv, FiniteSets

LRPC ==
  [FLATNAME |-> 0, NONNEGINT |-> 1, APPLICATION |-> 2, STR |-> 3, SEQUENCE |-> 4,
   ABSTRACTION |-> 5, BIN |-> 6, NONCE |-> 7, REQUEST |-> 129, REPLY |-> 130]

Leaf(type, v) == [type |-> type, val |-> v, args |-> <<>>]
Node(type, as) == [type |-> type, val |-> <<>>, args |-> as]
IsLeaf(type) == type \in {LRPC.FLATNAME, LRPC.NONNEGINT, LRPC.STR, LRPC.BIN, LRPC.NONCE}
IsApplied(type) == type \in {LRPC.APPLICATION, LRPC.ABSTRACTION}
NonNegInt(v) == Leaf(LRPC.NONNEGINT, <<v>>)

(* ccnl_switch_prependCoding, with the code CCNL_ENC_LOCALRPC *)
ENC_LOCALRPC == 3
Coding(code) == <<128>> \o TLval(code)
Coded(b) == Coding(ENC_LOCALRPC) \o b
-----------------------------------------------------------------------------
(***************************************************************************)
(* Encoding.  ccnl_rdr_serialize, and ccnl_rdr_serialize_fill for what is  *)
(* applied, add to a length they never set: "stray" is what the memory     *)
(* held.  (A stray value here is never so large that the length itself     *)
(* needs more octets.)                                                     *)
(***************************************************************************)
(* slip: the length in one octet, whatever it is *)
TandLOneOctet(type, n) == TLval(type) \o <<n % 256>>

TandL(type, n) == TLval(type) \o TLval(n)

Digits(v) == BigEndian(CHOOSE n \in 1..4 : v < 256 ^ n /\ \A k \in 1..(n - 1) : v >= 256 ^ k, v)

RECURSIVE Fill(_, _)
Fill(ds, stray) ==
  IF IsLeaf(ds.type)
  THEN LET v == IF ds.type = LRPC.NONNEGINT THEN Digits(ds.val[1]) ELSE ds.val
       IN TandL(ds.type, Len(v)) \o v
  ELSE LET body == FlattenSeq([k \in DOMAIN ds.args |-> Fill(ds.args[k], stray)])
       IN TandL(ds.type, Len(body) + IF IsApplied(ds.type) THEN stray ELSE 0) \o body

Serialize(ds, buflen, stray) ==
  LET b == Fill(ds, stray) IN
  Only(b \o [k \in 1..stray |-> 0], Len(b) + stray =< buflen)

(***************************************************************************)
(* Decoding: ccnl_rdr_getType reads a tree as far as it goes, and fails    *)
(* when a part of it is cut short.                                         *)
(***************************************************************************)
RECURSIVE Parse(_), ParseAll(_)
Parse(b) ==
  AndThen(Dehead(b), LAMBDA h :
    CASE IsLeaf(h.type) ->
           {[tree |-> Leaf(h.type, IF h.type = LRPC.NONNEGINT THEN <<Number(h.val)>> ELSE h.val),
             rest |-> h.rest]}
      [] IsApplied(h.type) \/ h.type \in {LRPC.SEQUENCE, LRPC.REQUEST, LRPC.REPLY} ->
           AndThen(ParseAll(h.val), LAMBDA as :
             Only([tree |-> Node(h.type, as), rest |-> h.rest], IsApplied(h.type) => as # <<>>))
      [] OTHER -> {})

ParseAll(b) ==
  IF b = <<>> THEN {<<>>}
  ELSE AndThen(Parse(b), LAMBDA f :
         AndThen(ParseAll(f.rest), LAMBDA r : {<<f.tree>> \o r}))
-----------------------------------------------------------------------------
(***************************************************************************)
(* The client's command line: a sequence of words [kind, val].  The kinds  *)
(* of constants are the types of their leaves; a file is a BIN.  A         *)
(* character the parser does not know makes it loop for ever, and is left  *)
(* out.                                                                    *)
(***************************************************************************)
Open == -1
Close == -2
Lambda == -3

(* parsePrefixTerm, from one operand to the next.  term is <<>> before the first; the
   second replaces whatever the term had beside its function. *)
Joined(term, joining, t) ==
  [term EXCEPT !.args = IF joining THEN Append(@, t) ELSE <<@[1], t>>]

RECURSIVE Term(_, _, _)
Term(words, term, joining) ==
  LET const(w) == Leaf(w.kind, w.val)
      operand ==
        CASE Head(words).kind = Open ->
               AndThen(Term(Tail(words), <<>>, FALSE), LAMBDA r :
                 Only([first |-> r.term[1], tree |-> r.term[1], rest |-> Tail(r.rest)],
                      r.term # <<>> /\ r.rest # <<>>))
          [] Head(words).kind = Lambda ->
               AndThen(Term(Drop(words, 2), <<>>, FALSE), LAMBDA r :
                 LET t == Node(LRPC.ABSTRACTION, <<const(words[2])>> \o r.term)
                 IN {[first |-> t, tree |-> t, rest |-> r.rest]})
          [] OTHER ->
               LET t == const(Head(words))
               IN {[first |-> Node(LRPC.APPLICATION, <<t>>), tree |-> t, rest |-> Tail(words)]}
  IN IF words = <<>> \/ Head(words).kind = Close THEN {[term |-> term, rest |-> words]}
     ELSE AndThen(operand, LAMBDA o :
            IF term = <<>> THEN Term(o.rest, <<o.first>>, FALSE)
            ELSE Term(o.rest, <<Joined(term[1], joining, o.tree)>>, TRUE))

(* What main sends, and sends again while no reply comes: the nonce, then the expression *)
Typed(p) == AndThen(Term(p.words, <<>>, FALSE), LAMBDA r : Only(Head(r.term), r.term # <<>>))
Request(p) ==
  AndThen(Typed(p), LAMBDA t :
    AndThen(Serialize(Node(LRPC.REQUEST, <<Leaf(LRPC.NONCE, p.nonce), t>>), 64 * 1024 - 2, p.stray),
            LAMBDA b : {Coded(b)}))

(* The first datagram that is an RPC reply is the one main prints, whatever its nonce. *)
Prints(b) == Len(b) > 2 /\ Take(b, 2) = Coding(ENC_LOCALRPC) /\ b[3] = LRPC.REPLY
-----------------------------------------------------------------------------
(***************************************************************************)
(* The builtin functions.  Each gives what it answers, and the contents    *)
(* that stay in the cache.                                                 *)
(***************************************************************************)
Function == [cacheAdd |-> <<1>>, cacheRemove |-> <<2>>, forward |-> <<3>>, lookup |-> <<4>>, syslog |-> <<5>>]
Config == [compileString |-> <<6>>, localTime |-> <<7>>]
Value(name) == [k \in 1..(IF name = Config.compileString THEN 200 ELSE 24) |-> 32]
Reason ==
  [ok |-> <<1>>, unknownParam |-> <<2>>, nonLocal |-> <<3>>, noData |-> <<4>>, notYet |-> <<5>>,
   invalidName |-> <<6>>, removed |-> <<7>>, noEncoding |-> <<8>>, expectedEncoding |-> <<9>>,
   noVariable |-> <<10>>, notVariable |-> <<11>>, malformed |-> <<12>>, notConstant |-> <<13>>,
   unknownFunction |-> <<14>>]

Says(code, reason) == [code |-> code, reason |-> reason, content |-> <<>>]
First(params, type) == params # <<>> /\ params[1].type = type

Syslog(params) ==
  IF First(params, LRPC.STR) THEN Says(200, Reason.ok) ELSE Says(415, Reason.unknownParam)

Lookup(params) ==
  IF ~ First(params, LRPC.FLATNAME) THEN Says(415, Reason.notVariable)
  ELSE IF params[1].val \notin {Config.compileString, Config.localTime} THEN Says(415, Reason.noVariable)
  ELSE [Says(200, Reason.ok) EXCEPT !.content = <<Leaf(LRPC.STR, Value(params[1].val))>>]

(* Every name of an encoding is compiled away: the suites are no macros. *)
Forward(params) ==
  Says(415, IF First(params, LRPC.FLATNAME) THEN Reason.noEncoding ELSE Reason.expectedEncoding)

CacheAdd(params) ==
  Says(415, IF \A k \in DOMAIN params : params[k].type = LRPC.BIN THEN Reason.notYet ELSE Reason.noData)

(* The names before the first parameter that is none; c.name is the name of a content
   of the suite that CCNL_SUITE_DEFAULT is. *)
Named(params) ==
  {params[k].val : k \in {j \in DOMAIN params : \A i \in 1..j : params[i].type = LRPC.FLATNAME}}
CacheRemove(params, cached) ==
  IF \E k \in DOMAIN params : params[k].type # LRPC.FLATNAME THEN Says(415, Reason.invalidName)
  ELSE Says(415, Reason.removed \o <<Cardinality({c \in cached : c.name \in Named(params)})>>)

(***************************************************************************)
(* ccnl_localrpc_handleRequest: rc tells whether a builtin was called.     *)
(***************************************************************************)
HandleRequest(parts, cached, local) ==
  LET app == parts[2]
      params == Tail(app.args)
      f == app.args[1].val
      refuse(code, reason) == [answer |-> Says(code, reason), cached |-> cached, rc |-> -1]
      call(answer, left) == [answer |-> answer, cached |-> left, rc |-> 0]
  IN CASE parts[1].type # LRPC.NONCE \/ Len(parts) < 2 -> refuse(404, Reason.malformed)
       [] Len(parts) >= 2 /\ app.type # LRPC.APPLICATION -> refuse(404, Reason.malformed)
       [] app.args[1].type # LRPC.FLATNAME -> refuse(404, Reason.notConstant)
       [] ~ local /\ f \in {Function.cacheAdd, Function.cacheRemove} -> call(Says(403, Reason.nonLocal), cached)
       [] f = Function.cacheAdd -> call(CacheAdd(params), cached)
       [] f = Function.cacheRemove ->
            call(CacheRemove(params, cached), {c \in cached : c.name \notin Named(params)})
       [] f = Function.forward -> call(Forward(params), cached)
       [] f = Function.lookup -> call(Lookup(params), cached)
       [] f = Function.syslog -> call(Syslog(params), cached)
       [] OTHER -> refuse(501, Reason.unknownFunction)

(* ccnl_emit_RpcReturn: a sequence whose first octet is then made that of a reply.  The
   room is what is said and 50 octets. *)
Reply(nonce, answer) ==
  Node(LRPC.SEQUENCE,
       <<Leaf(LRPC.NONCE, nonce), NonNegInt(answer.code), Leaf(LRPC.STR, answer.reason)>> \o answer.content)

EmitRpcReturn(nonce, answer, stray) ==
  LET room == Len(answer.reason) + 50 + Len(FlattenSeq([k \in DOMAIN answer.content |-> Fill(answer.content[k], 0)]))
  IN AndThen(Serialize(Reply(nonce, answer), room - 2, stray), LAMBDA b : {Coded(<<LRPC.REPLY>> \o Tail(b))})

(***************************************************************************)
(* ccnl_localrpc_exec: one packet after another, until one is refused.     *)
(* fails: what comes next is no RPC packet.  Replies that come to a relay  *)
(* are only read.                                                          *)
(***************************************************************************)
Handle(t, cached, local, stray) ==
  IF t.type = LRPC.REPLY THEN [sent |-> <<>>, cached |-> cached, rc |-> 0]
  ELSE IF t.args = <<>> THEN [sent |-> <<>>, cached |-> cached, rc |-> -1]
  ELSE LET h == HandleRequest(t.args, cached, local)
       IN [sent |-> SetToSeq(EmitRpcReturn(t.args[1].val, h.answer, stray)), cached |-> h.cached, rc |-> h.rc]

RECURSIVE Exec(_, _, _, _)
Exec(b, cached, local, stray) ==
  LET packet == {r \in Parse(b) : r.tree.type \in {LRPC.REQUEST, LRPC.REPLY}}
      after(r) ==
        LET h == Handle(r.tree, cached, local, stray)
            more == IF h.rc = 0 THEN Exec(r.rest, h.cached, local, stray)
                    ELSE [sent |-> <<>>, cached |-> h.cached, rest |-> r.rest, fails |-> FALSE]
        IN [more EXCEPT !.sent = h.sent \o @]
  IN IF b # <<>> /\ packet # {} THEN after(CHOOSE r \in packet : TRUE)
     ELSE [sent |-> <<>>, cached |-> cached, rest |-> b, fails |-> b # <<>>]
=============================================================================
