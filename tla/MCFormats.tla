----------------------------- MODULE MCFormats -----------------------------
(* An instance of Formats for TLC: numbers of one, two and more octets, lengths to both
   sides of the bounds at which headers grow, names with and without a chunk. *)
EXTENDS RpcExchange

Bytes(n) == [k \in 1..n |-> 7]
Comps == {<<>>, << <<97>> >>, << <<97>>, Bytes(20) >>}
Chunks == {None, 0, 1, 300}

Req(s, c, k, o) == [suite |-> s, kind |-> "interest", comps |-> c, chunk |-> k, opts |-> o]
Item(kind, s, c, k, n) == [kind |-> kind, suite |-> s, comps |-> c, chunk |-> k, payload |-> Bytes(n)]

NdnOpts == [nonce : {1, 70000}, mbf : BOOLEAN, lifetime : {0, 200, 4000, 70000}, scope : {None}]
NdnRequests == {Req("ndntlv", c, k, o) : c \in Comps, k \in Chunks, o \in NdnOpts}
NdnItems ==
  {Item("content", "ndntlv", c, k, n) @@ [opts |-> o] :
     c \in Comps, k \in {None, 1}, n \in {0, 1, 252, 253, 300},
     o \in [fresh : {0, 1, 256}, final : {None, 0, 255, 256}]}
  \cup {Item("tool", "ndntlv", c, k, 3) @@ [final |-> f, stray |-> r] :
     c \in Comps, k \in Chunks, f \in {None, 2, 70000}, r \in {0, 5}}

CcnxRequests == {Req("ccntlv", c, k, <<>>) : c \in Comps, k \in Chunks}
CcnxItems ==
  {Item("content", "ccntlv", c, k, n) : c \in Comps, k \in Chunks, n \in {0, 1, 190}}
  \cup {Item("tool", "ccntlv", c, k, n) @@ [final |-> f] :
     c \in Comps, k \in Chunks, n \in {0, 190}, f \in {None, 0, 300, 70000}}
CcnxFragments ==
  {Item("fragment", "ccntlv", <<>>, None, n) @@ [fields |-> f] : n \in {1, 300}, f \in {1, 16384, 65535}}

CcnbRequests == {Req("ccnb", c, None, <<>>) : c \in Comps}
CcnbItems == {Item("tool", "ccnb", c, None, n) : c \in Comps, n \in {0, 1, 15, 16, 300}}

Single == NdnRequests \cup NdnItems \cup CcnxRequests \cup CcnxItems \cup CcnxFragments
          \cup CcnbRequests \cup CcnbItems

(* Commands of ccn-lite-rpc: every builtin with fitting and unfitting parameters, nested
   terms, numbers and files at the limits of their lengths, unfinished parentheses *)
L == RPC!LRPC
Word(kind, v) == [kind |-> kind, val |-> v]
Open == Word(RPC!Open, <<>>)
Close == Word(RPC!Close, <<>>)
Name(v) == Word(L.FLATNAME, v)
Params ==
  {<<>>, <<Name(<<97>>)>>, <<Name(<<97>>), Name(<<98>>)>>, <<Name(<<97>>), Word(L.NONNEGINT, <<65536>>)>>,
   <<Name(RPC!Config.compileString)>>, <<Name(RPC!Config.localTime)>>}
  \cup {<<Word(L.STR, Bytes(n))>> : n \in {0, 1}}
  \cup {<<Word(L.BIN, Bytes(n)), Word(L.NONNEGINT, <<v>>)>> : n \in {247, 252, 253, 300}, v \in {0, 255, 256, 70000}}
  \cup {<<Word(L.BIN, Bytes(3))>>, <<Open, Name(<<97>>), Name(<<98>>), Close, Name(<<99>>)>>,
         <<Word(RPC!Lambda, <<>>), Name(<<97>>), Name(<<98>>)>>, <<Open, Name(<<97>>)>>,
         <<Name(<<97>>), Close, Name(<<98>>)>>}
Functions == {Name(RPC!Function[f]) : f \in DOMAIN RPC!Function} \cup {Name(<<97>>), Word(L.STR, <<97>>)}
Commands ==
  {<<f>> \o p : f \in Functions, p \in Params}
  \cup {<<Open, f>> \o p \o <<Close>> \o p : f \in Functions, p \in Params}
  \cup {<<Word(RPC!Lambda, <<>>), Name(<<97>>), Name(<<98>>)>>}
Cached == {[name |-> <<97>>, id |-> 1], [name |-> <<97>>, id |-> 2], [name |-> <<99>>, id |-> 3]}
RpcRequests ==
  {[words |-> w, nonce |-> <<1, 2, 3, 4>>, cached |-> Cached,
    local |-> here, stray |-> s, left |-> l] :
     w \in Commands, here \in BOOLEAN, s \in {0, 1}, l \in {0, 1}}

(* One packet of any format, or two CCNb packets *)
SoundFrames ==
  {<<p>> : p \in Single} \cup {<<p, q>> : p \in CcnbRequests \cup CcnbItems, q \in CcnbItems}
=============================================================================
