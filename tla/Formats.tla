------------------------------ MODULE Formats ------------------------------
(***************************************************************************)
(* A datagram of packets as the builders write them (ccnl-pkt-builder.c,   *)
(* and the tools that fill packets themselves), and ccnl_core_RX reading   *)
(* it packet by packet.  What the tables do with a packet is in Relay,     *)
(* local RPC in RpcExchange.                                               *)
(*                                                                         *)
(* A packet to be built is a record [suite, kind, comps, chunk, ...]; the  *)
(* components are given without headers.                                   *)
(***************************************************************************)
EXTENDS Octets

CONSTANTS
  Frames,           \* the datagrams: sequences of packets to build
  MaxNameComp, MaxPacketSize, InterestTimeout, WithFrag

NDN == INSTANCE NdnTlv
CCNX == INSTANCE CcnxTlv
CCNB == INSTANCE Ccnb
None == -1
NoSuite == "none"

VARIABLES
  frame,   \* what the datagram was made of
  data,    \* what is left of it to read
  suite,   \* the suite ccnl_core_RX reads it as, NoSuite before the first packet
  got,     \* the packets read
  reading  \* the loop of ccnl_core_RX goes on

vars == <<frame, data, suite, got, reading>>

CcnxName(p) ==
  [comps |-> [k \in DOMAIN p.comps |-> CCNX!NameSegment(p.comps[k])], chunk |-> p.chunk]
NdnName(p) == [comps |-> p.comps, chunk |-> p.chunk]

(***************************************************************************)
(* ccnl_mkInterest, ccnl_mkContent.  The content of a CCNx packet made     *)
(* here is always the last chunk 0; for CCNb ccnl_mkContent passes the     *)
(* length 0 as the end of the buffer, so that nothing is made.             *)
(***************************************************************************)
MkInterest(p) ==
  CASE p.suite = "ccnb" -> CCNB!FillInterest(p.comps)
    [] p.suite = "ccntlv" -> CCNX!MkInterest(CcnxName(p))
    [] p.suite = "ndntlv" -> NDN!MkInterest(NdnName(p), p.opts)

MkContent(p) ==
  CASE p.suite = "ccnb" -> CCNB!FillContent(p.comps, p.payload, 0)
    [] p.suite = "ccntlv" -> CCNX!MkContent(CcnxName(p), p.payload, 0)
    [] p.suite = "ndntlv" -> NDN!MkContent(NdnName(p), p.payload, p.opts)

(* ccn-lite-mkC, ccn-lite-produce: a buffer of their own, the last chunk as given.  For
   NDN the freshness period is then whatever the memory held. *)
ToolContent(p) ==
  CASE p.suite = "ccnb" -> CCNB!FillContent(p.comps, p.payload, 65 * 1024)
    [] p.suite = "ccntlv" -> CCNX!MkContent(CcnxName(p), p.payload, p.final)
    [] p.suite = "ndntlv" -> NDN!MkContent(NdnName(p), p.payload,
                         [fresh |-> IF p.final = None THEN 0 ELSE p.stray, final |-> p.final])

Build(p) ==
  CASE p.kind = "interest" -> MkInterest(p)
    [] p.kind = "content" -> MkContent(p)
    [] p.kind = "tool" -> ToolContent(p)
    [] p.kind = "fragment" -> {CCNX!MkFrag(p.fields, p.payload)}

BuildAll(ps) ==
  {FlattenSeq(bs) : bs \in {f \in [DOMAIN ps -> UNION {Build(ps[k]) : k \in DOMAIN ps}] :
                             \A k \in DOMAIN ps : f[k] \in Build(ps[k])}}

(***************************************************************************)
(* The limits of the formats, to which every datagram here keeps: numbers  *)
(* of 31 bits, as many components as a name may have, the chunk among      *)
(* them; for NDN no component that reads as a chunk; for CCNx lengths of   *)
(* one octet (prependTL loses the other one); packets of a suite without a *)
(* common end of its own alone in their datagram.                          *)
(***************************************************************************)
MaxNumber == 2147483647
IsNumber(v) == v \in Nat /\ v =< MaxNumber
MayBe(v) == v = None \/ IsNumber(v)

NameSound(p) ==
  /\ p.comps \in Seq(Seq(Octet)) /\ MayBe(p.chunk)
  /\ Len(p.comps) + (IF p.chunk = None THEN 0 ELSE 1) =< MaxNameComp

NdnSound(p) ==
  /\ \A k \in DOMAIN p.comps : p.comps[k] # <<>> /\ p.comps[k][1] # NDN!SegmentMarker
  /\ p.kind = "interest" =>
       /\ IsNumber(p.opts.nonce) /\ IsNumber(p.opts.lifetime)
       /\ p.opts.mbf \in BOOLEAN /\ p.opts.scope \in Int
  /\ p.kind = "content" => IsNumber(p.opts.fresh) /\ MayBe(p.opts.final)
  /\ p.kind = "tool" => IsNumber(p.stray) /\ MayBe(p.final)

FragmentFits(fields, payload) ==
  WithFrag /\ fields \in Nat /\ fields < 65536 /\ Len(payload) + CCNX!HdrLen + 4 < 65536

CcnxSound(p) ==
  /\ p.kind = "interest" => Len(CCNX!MkName(CcnxName(p), None)) < 256
  /\ p.kind = "content" => Len(CCNX!MkName(CcnxName(p), 0)) + 4 + Len(p.payload) < 256
  /\ p.kind = "tool" =>
       MayBe(p.final) /\ Len(CCNX!MkName(CcnxName(p), p.final)) + 4 + Len(p.payload) < 256
  /\ p.kind = "fragment" => FragmentFits(p.fields, p.payload)

Sound(p) ==
  /\ p.kind \in {"interest", "content", "tool"} \/ (p.kind = "fragment" /\ p.suite = "ccntlv")
  /\ p.kind # "interest" => p.payload \in Seq(Octet)
  /\ p.kind # "fragment" => NameSound(p)
  /\ \/ p.suite = "ccnb"
     \/ p.suite = "ccntlv" /\ CcnxSound(p)
     \/ p.suite = "ndntlv" /\ NdnSound(p)

ASSUME FrameAssumption ==
  /\ MaxNameComp \in Nat /\ IsNumber(MaxPacketSize)
  /\ \A ps \in Frames :
       /\ Len(ps) \in Nat \ {0} /\ ps = [k \in 1..Len(ps) |-> ps[k]]
       /\ \A k \in 1..Len(ps) : Sound(ps[k]) /\ (Len(ps) > 1 => ps[k].suite = "ccnb")

Start == suite = NoSuite /\ got = <<>> /\ reading = TRUE
Init == frame \in Frames /\ data \in BuildAll(frame) /\ Start
-----------------------------------------------------------------------------
(* slip: what is left unclear is taken for CCNb *)
SuiteByFirst(b) ==
  CASE b[1] \in {1, 4} -> "ccnb"
    [] b[1] \in {5, 6, 100} -> "ndntlv"
    [] OTHER -> NoSuite

(* ccnl_pkt2suite: CCNb and CCNx may both begin with 1. *)
Pkt2Suite(b) ==
  CASE b[1] = 4 \/ (b[1] = 1 /\ Len(b) > 1 /\ b[2] \notin 0..3) -> "ccnb"
    [] b[1] = CCNX!V1 /\ Len(b) > 1 /\ b[2] \in 0..3 -> "ccntlv"
    [] b[1] \in {5, 6, 100} -> "ndntlv"
    [] OTHER -> NoSuite

Forwarder(s, b) ==
  CASE s = "ccnb" -> CCNB!Forwarder(b)
    [] s = "ccntlv" -> CCNX!Forwarder(b)
    [] s = "ndntlv" -> NDN!Forwarder(b)

(* ccnl_switch_dehead, ccnl_enc2suite: explicit codes before a packet *)
Enc2Suite(enc) ==
  CASE enc = 0 -> "ccnb" [] enc = 1 -> "ndntlv" [] enc = 2 -> "ccntlv"
    [] enc = 3 -> "localrpc" [] OTHER -> NoSuite

Codes(b) == Max({n \in 0..Len(b) \div 2 : \A k \in 1..n : b[2 * k - 1] = 128 /\ b[2 * k] < 253})
Dehead(b, s) ==
  [suite |-> IF Codes(b) = 0 THEN s ELSE Enc2Suite(b[2 * Codes(b)]), rest |-> Drop(b, 2 * Codes(b))]

(***************************************************************************)
(* One turn of the loop of ccnl_core_RX.  The suite of the first packet is *)
(* that of the whole datagram, as it is looked up only when it is not set. *)
(***************************************************************************)
Packet == Dehead(data, suite).rest
Suite ==
  LET s == Dehead(data, suite).suite IN IF s = NoSuite THEN Pkt2Suite(Packet) ELSE s

Read ==
  /\ reading /\ data # <<>> /\ Suite \notin {NoSuite, "localrpc"}
  /\ suite' = Suite
  /\ \/ \E r \in Forwarder(Suite, Packet) :
          got' = got \o r.pkts /\ data' = r.rest /\ UNCHANGED reading
     \/ Forwarder(Suite, Packet) = {} /\ reading' = FALSE /\ UNCHANGED <<got, data>>
  /\ UNCHANGED frame

Stop ==
  /\ reading /\ (data = <<>> \/ Suite = NoSuite)
  /\ reading' = FALSE
  /\ UNCHANGED <<frame, data, suite, got>>

Next == Read \/ Stop
Spec == Init /\ [][Next]_vars
-----------------------------------------------------------------------------
(***************************************************************************)
(* What a packet says, whatever its format: its components with a last one *)
(* for the chunk, and the fields that were asked for.                      *)
(***************************************************************************)
ChunkComp(p) ==
  IF p.chunk = None THEN <<>>
  ELSE IF p.suite = "ccntlv" THEN <<CCNX!Chunk(p.chunk)>>
  ELSE << <<NDN!SegmentMarker>> \o NDN!NonNegIntVal(p.chunk) >>

Same(p, q) ==
  CASE p.suite = "ccnb" ->
         /\ q.comps = p.comps
         /\ q.type = IF p.kind = "interest" THEN CCNB!DTAG.INTEREST ELSE CCNB!DTAG.CONTENTOBJ
         /\ p.kind # "interest" => q.content = p.payload
    [] p.kind = "fragment" -> q.fields = p.fields /\ q.content = p.payload
    [] p.suite = "ccntlv" /\ p.kind # "fragment" ->
         /\ q.name = [CcnxName(p) EXCEPT !.comps = @ \o ChunkComp(p)]
         /\ q.type = IF p.kind = "interest" THEN CCNX!TL.Interest ELSE CCNX!TL.Object
         /\ p.kind # "interest" => q.content = p.payload
         /\ p.kind = "tool" => q.final = p.final
    [] p.suite = "ndntlv" ->
         /\ q.name = {[NdnName(p) EXCEPT !.comps = @ \o ChunkComp(p)]}
         /\ q.type = IF p.kind = "interest" THEN NDN!TLV.Interest ELSE NDN!TLV.Data
         /\ p.kind = "interest" =>
              /\ q.nonce = p.opts.nonce /\ q.mbf = p.opts.mbf
              /\ q.lifetime = IF p.opts.lifetime = 0 THEN 1000 * InterestTimeout ELSE p.opts.lifetime
         /\ p.kind = "content" =>
              q.content = p.payload /\ q.fresh = p.opts.fresh /\ q.final = p.opts.final
         /\ p.kind = "tool" => q.content = p.payload /\ q.final = p.final

(***************************************************************************)
(* What is built is what is read: every packet of the datagram, once and   *)
(* in its order, taken for its own format, with its name, its content and  *)
(* its fields.                                                             *)
(***************************************************************************)
AsBuilt ==
  ~ reading /\ frame \in Frames =>
    Len(got) = Len(frame) /\ \A k \in DOMAIN frame : Same(frame[k], got[k])
=============================================================================
