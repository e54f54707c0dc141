---------------------------- MODULE RpcExchange ----------------------------
(***************************************************************************)
(* Datagrams of any kind: those of Formats, and the requests of            *)
(* ccn-lite-rpc.  A request [words, nonce, cached, ...] is alone in its    *)
(* datagram; what local RPC does with the cache is here.                   *)
(***************************************************************************)
EXTENDS Formats

CONSTANT Requests   \* the requests of ccn-lite-rpc

RPC == INSTANCE LocalRpc

VARIABLE cached     \* the contents that local RPC knows, [name, id]

InitRpc ==
  \E p \in Requests :
    frame = <<p>> /\ data \in RPC!Request(p) /\ cached = p.cached /\ Start

(* One turn of the loop of ccnl_core_RX over requests; got are the answers. *)
ReadRpc ==
  /\ reading /\ data # <<>> /\ Suite = "localrpc"
  /\ suite' = Suite
  /\ LET r == RPC!Exec(Packet, cached, frame[1].local, frame[1].left) IN
       /\ got' = got \o SelectSeq(r.sent, RPC!Prints)
       /\ cached' = r.cached /\ data' = r.rest /\ reading' = ~ r.fails
  /\ UNCHANGED frame

InitAny == (Init /\ cached = {}) \/ InitRpc
NextAny == (Next /\ UNCHANGED cached) \/ ReadRpc
SpecAny == InitAny /\ [][NextAny]_<<vars, cached>>

(***************************************************************************)
(* A user of ccn-lite-rpc reads the answer to the expression as typed,     *)
(* with the nonce of the request and all that the answer says, and what    *)
(* the cache lost is what it says.  Only where a length grew by a stray    *)
(* value (ccnl_rdr_serialize_fill) may the answer be missing.              *)
(***************************************************************************)
RpcAnswered ==
  ~ reading /\ frame \notin Frames =>
    LET p == frame[1]
        due == {RPC!HandleRequest(<<RPC!Leaf(RPC!LRPC.NONCE, p.nonce), t>>, p.cached, p.local) : t \in RPC!Typed(p)}
        reply(h) == [RPC!Reply(p.nonce, h.answer) EXCEPT !.type = RPC!LRPC.REPLY]
    IN \/ p.stray > 0 /\ got = <<>> /\ cached = p.cached
       \/ \E h \in due : /\ Len(got) = 1 /\ reply(h) \in {r.tree : r \in RPC!Parse(Drop(got[1], 2))}
                         /\ cached = h.cached
=============================================================================
