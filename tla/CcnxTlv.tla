------------------------------ MODULE CcnxTlv ------------------------------
(***************************************************************************)
(* CCNx packets (ccnl-pkt/src/ccnl-pkt-ccntlv.c): a fixed header of nine   *)
(* octets, and elements with two octets each for type and length.          *)
(*                                                                         *)
(* A name is [comps, chunk]; its components include their headers.         *)
(***************************************************************************)
EXTENDS Octets

CONSTANTS
  MaxNameComp,     \* CCNL_MAX_NAME_COMP
  MaxPacketSize,   \* CCNL_MAX_PACKET_SIZE
  WithFrag         \* USE_FRAG is compiled in

(* Header, top level, message, and name elements *)
PT == [Interest |-> 0, Data |-> 1, NACK |-> 2, Fragment |-> 3]
TL == [Interest |-> 1, Object |-> 2, Fragment |-> 5]
Msg == [Name |-> 0, Payload |-> 1, ENDChunk |-> 25]
Nam == [NameSegment |-> 1, Chunk |-> 16]
V1 == 1
HdrLen == 9
None == -1
-----------------------------------------------------------------------------
(***************************************************************************)
(* Packet composition.                                                     *)
(***************************************************************************)

(* ccnl_ccntlv_prependTL: "(uint8_t) (len & 0xff00U) >> 8U" casts before it shifts, so
   that the high octets of type and length are always 0. *)
Header(type, len) == <<0, type % 256, 0, len % 256>>

Blob(type, b) == Header(type, Len(b)) \o b

(* ccnl_ccntlv_prependNetworkVarUInt: as few octets as hold the value, 0 in one *)
VarUInt(v) ==
  BigEndian(IF v < 256 THEN 1 ELSE IF v < 65536 THEN 2 ELSE IF v < 16777216 THEN 3 ELSE 4, v)

NameSegment(b) == Blob(Nam.NameSegment, b)
Chunk(k) == Blob(Nam.Chunk, VarUInt(k))

(* the last chunk's number is written behind the name *)
MkName(name, last) ==
  Blob(Msg.Name, FlattenSeq(name.comps) \o IF name.chunk = None THEN <<>> ELSE Chunk(name.chunk))
  \o IF last = None THEN <<>> ELSE Blob(Msg.ENDChunk, VarUInt(last))

(* ccnl_ccntlv_prependFixedHdr: the header's own length is in the host's order. *)
FixedHdr(type, payloadlen, hops) ==
  <<V1, type>> \o BigEndian(2, HdrLen + payloadlen) \o <<hops, 0, 0, HdrLen, 0>>

Fits(b) == Only(b, Len(b) =< MaxPacketSize)
WithHdr(type, body, hops) == Fits(FixedHdr(type, Len(body), hops) \o body)

MkInterest(name) == WithHdr(PT.Interest, Blob(TL.Interest, MkName(name, None)), 64)

MkContent(name, payload, last) ==
  WithHdr(PT.Data, Blob(TL.Object, MkName(name, last) \o Blob(Msg.Payload, payload)), 255)

(* ccnl_ccntlv_mkFrag: flags and number in the fill octets; no hop limit is written. *)
MkFrag(fields, b) ==
  <<V1, PT.Fragment>> \o BigEndian(2, HdrLen + 4 + Len(b)) \o <<0>> \o BigEndian(2, fields)
  \o <<HdrLen, 0>> \o BigEndian(2, TL.Fragment) \o BigEndian(2, Len(b)) \o b
-----------------------------------------------------------------------------
(***************************************************************************)
(* Packet parsing.                                                         *)
(***************************************************************************)

(* A header and its value, within what is left *)
Dehead(b) ==
  LET rest == Drop(b, 4)
      len == Number(SubSeq(b, 3, 4))
  IN IF Len(b) < 4 THEN {}
     ELSE Only([type |-> Number(Take(b, 2)), head |-> Take(b, 4), val |-> Take(rest, len),
                rest |-> Drop(rest, len)], len =< Len(rest))

(* A chunk sets the chunk number, and is kept as a component; at most four octets *)
AddComponent(n, f) ==
  LET comps == IF Len(n.comps) < MaxNameComp THEN Append(n.comps, f.head \o f.val) ELSE n.comps
  IN CASE f.type = Nam.Chunk ->
            Only([comps |-> comps, chunk |-> Number(f.val)], Len(f.val) =< 4)
       [] f.type = Nam.NameSegment -> {[n EXCEPT !.comps = comps]}
       [] OTHER -> {n}

ReadName(b) == Scan(Dehead, AddComponent, b, [comps |-> <<>>, chunk |-> None])

ReadField(pkt, f) ==
  CASE f.type = Msg.Name -> AndThen(ReadName(f.val), LAMBDA n : {[pkt EXCEPT !.name = n]})
    [] f.type = Msg.ENDChunk -> Only([pkt EXCEPT !.final = Number(f.val)], Len(f.val) =< 4)
    [] f.type = Msg.Payload -> {[pkt EXCEPT !.content = f.val]}
    [] OTHER -> {pkt}

(* ccnl_ccntlv_bytes2pkt: elements are read to the end of the datagram. *)
Bytes2Pkt(b) ==
  AndThen(Dehead(b), LAMBDA m :
    Scan(Dehead, ReadField, m.val \o m.rest,
         [type |-> m.type, name |-> [comps |-> <<>>, chunk |-> None],
          content |-> <<>>, final |-> None]))

(* The hop limit is an octet: 0 counts down to 255. *)
HopsLeft(h) == (h - 1) % 256

(***************************************************************************)
(* ccnl_ccntlv_forwarder: what is read of the datagram b, and what is left *)
(* of it.  A packet that used up its hops is passed over; for any other    *)
(* the rest of the datagram is taken.                                      *)
(***************************************************************************)
PktLen(b) == Number(SubSeq(b, 3, 4))
GivenHdrLen(b) == b[8] + 256 * b[9]

HeaderOK(b) ==
  /\ Len(b) >= HdrLen /\ b[1] = V1
  /\ GivenHdrLen(b) =< PktLen(b) /\ PktLen(b) =< Len(b)

Limited(b) == b[2] \in {PT.Interest, PT.NACK} \cup (IF WithFrag THEN {PT.Fragment} ELSE {})

(* The payload of a fragment, when its lengths agree *)
ReadFragment(b) ==
  LET body == Drop(b, GivenHdrLen(b))
      frag == [type |-> "fragment", fields |-> Number(SubSeq(b, 6, 7)), content |-> Drop(body, 4)]
  IN IF /\ Number(Take(body, 2)) = TL.Fragment
        /\ Number(SubSeq(body, 3, 4)) = PktLen(b) - GivenHdrLen(b) - 4
     THEN [pkts |-> <<frag>>, rest |-> <<>>]
     ELSE [pkts |-> <<>>, rest |-> Drop(b, PktLen(b))]

(* A packet whose type is not that of its header is ignored. *)
ReadMessage(b) ==
  AndThen(Bytes2Pkt(Drop(b, GivenHdrLen(b))), LAMBDA p :
    {[pkts |-> IF <<b[2], p.type>> \in {<<PT.Interest, TL.Interest>>, <<PT.Data, TL.Object>>}
               THEN <<p>> ELSE <<>>,
      rest |-> <<>>]})

Forwarder(b) ==
  AndThen(Only(b, HeaderOK(b)), LAMBDA d :
    CASE Limited(d) /\ HopsLeft(d[5]) = 0 -> {[pkts |-> <<>>, rest |-> Drop(d, PktLen(d))]}
      [] WithFrag /\ d[2] = PT.Fragment /\ HopsLeft(d[5]) # 0 -> {ReadFragment(d)}
      [] OTHER -> ReadMessage(d))
=============================================================================
