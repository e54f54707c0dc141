------------------------------- MODULE NdnTlv -------------------------------
(***************************************************************************)
(* NDN packets (ccnl-pkt/src/ccnl-pkt-ndntlv.c): what the builders write   *)
(* and what the parser reads.  The builders fill a buffer from its end, so *)
(* that they know the length of a value before they write its header; they *)
(* fail when the buffer is too small, which is when the packet is longer.  *)
(*                                                                         *)
(* A name is [comps, chunk], its components without their headers.         *)
(***************************************************************************)
EXTENDS VarTlv

CONSTANTS
  MaxNameComp,      \* CCNL_MAX_NAME_COMP
  MaxPacketSize,    \* CCNL_MAX_PACKET_SIZE
  InterestTimeout   \* CCNL_INTEREST_TIMEOUT, in seconds

TLV ==
  [Interest |-> 5, Data |-> 6, Name |-> 7, NameComponent |-> 8,
   Selectors |-> 9, Nonce |-> 10, Scope |-> 11, InterestLifetime |-> 12,
   MinSuffixComponents |-> 13, MaxSuffixComponents |-> 14, MustBeFresh |-> 18,
   MetaInfo |-> 20, Content |-> 21, SignatureInfo |-> 22, SignatureValue |-> 23,
   FreshnessPeriod |-> 25, FinalBlockId |-> 26, SignatureType |-> 27]
SegmentMarker == 0
None == -1              \* no chunk, no final block, no nonce
-----------------------------------------------------------------------------
(***************************************************************************)
(* Packet composition.                                                     *)
(***************************************************************************)

(* ccnl_ndntlv_prependBlob, and prependTL over what was written before *)
Blob(type, b) == TLval(type) \o TLval(Len(b)) \o b

(* ccnl_ndntlv_prependNonNegIntVal: as few octets as hold the value, filled up to a
   power of two *)
NonNegIntVal(v) == BigEndian(IF v < 256 THEN 1 ELSE IF v < 65536 THEN 2 ELSE 4, v)
NonNegInt(type, v) == Blob(type, NonNegIntVal(v))
IncludedNonNegInt(type, v) == Blob(type, <<SegmentMarker>> \o NonNegIntVal(v))

MkName(name) ==
  Blob(TLV.Name, FlattenSeq([k \in DOMAIN name.comps |-> Blob(TLV.NameComponent, name.comps[k])])
             \o IF name.chunk = None THEN <<>> ELSE IncludedNonNegInt(TLV.NameComponent, name.chunk))

Fits(b) == Only(b, Len(b) =< MaxPacketSize)

(* ccnl_ndntlv_prependInterest: opts is [nonce, mbf, lifetime, scope]. *)
MkInterest(name, opts) ==
  LET mbf == IF opts.mbf THEN Blob(TLV.Selectors, Blob(TLV.MustBeFresh, <<>>)) ELSE <<>>
      lifetime == IF opts.lifetime = 0 THEN <<>> ELSE NonNegInt(TLV.InterestLifetime, opts.lifetime)
      scope == IF opts.scope < 0 THEN <<>> ELSE NonNegInt(TLV.Scope, opts.scope)
  IN AndThen(Only(opts, opts.scope =< 2), LAMBDA o :
       Fits(Blob(TLV.Interest, MkName(name) \o mbf \o Blob(TLV.Nonce, BigEndian(4, opts.nonce))
                           \o lifetime \o scope)))

(* ccnl_ndntlv_prependContent: opts is [fresh, final]. *)
MkContent(name, payload, opts) ==
  LET fresh == IF opts.fresh = 0 THEN <<>> ELSE NonNegInt(TLV.FreshnessPeriod, opts.fresh)
      final == IF opts.final = None THEN <<>>
               ELSE Blob(TLV.FinalBlockId, IncludedNonNegInt(TLV.NameComponent, opts.final))
  IN Fits(Blob(TLV.Data, MkName(name) \o Blob(TLV.MetaInfo, fresh \o final) \o Blob(TLV.Content, payload)
                     \o Blob(TLV.SignatureInfo, Blob(TLV.SignatureType, <<0>>))
                     \o Blob(TLV.SignatureValue, <<>>)))
-----------------------------------------------------------------------------
(***************************************************************************)
(* Packet parsing.                                                         *)
(***************************************************************************)

(* A component that begins with the marker is the chunk number, and stays a component. *)
AddComponent(name, f) ==
  IF f.type # TLV.NameComponent \/ Len(name.comps) = MaxNameComp THEN {name}
  ELSE {[comps |-> Append(name.comps, f.val),
         chunk |-> IF f.val[1] = SegmentMarker THEN Number(Tail(f.val)) ELSE name.chunk]}

ReadName(b) == Scan(Dehead, AddComponent, b, [comps |-> <<>>, chunk |-> None])

ReadSelector(pkt, f) ==
  CASE f.type = TLV.MinSuffixComponents -> {[pkt EXCEPT !.min = Number(f.val)]}
    [] f.type = TLV.MaxSuffixComponents -> {[pkt EXCEPT !.max = Number(f.val)]}
    [] f.type = TLV.MustBeFresh -> {[pkt EXCEPT !.mbf = TRUE]}
    [] OTHER -> {pkt}

(* the number after the marker, in the one component inside *)
FinalBlock(b) == Number(Tail(b))

ReadMetaInfo(pkt, f) ==
  CASE f.type = TLV.FreshnessPeriod -> {[pkt EXCEPT !.fresh = Number(f.val)]}
    [] f.type = TLV.FinalBlockId ->
         AndThen(Dehead(f.val), LAMBDA c :
           {IF c.type = TLV.NameComponent THEN [pkt EXCEPT !.final = FinalBlock(c.val)] ELSE pkt})
    [] OTHER -> {pkt}

ReadField(pkt, f) ==
  CASE f.type = TLV.Name ->
         AndThen(Only(f.val, pkt.name = {}), LAMBDA b :
           AndThen(ReadName(b), LAMBDA n : {[pkt EXCEPT !.name = {n}, !.final = None]}))
    [] f.type = TLV.Selectors -> Scan(Dehead, ReadSelector, f.val, pkt)
    [] f.type = TLV.Nonce -> {[pkt EXCEPT !.nonce = Number(f.val)]}
    [] f.type = TLV.Scope -> {[pkt EXCEPT !.scope = Number(f.val)]}
    [] f.type = TLV.Content -> {[pkt EXCEPT !.content = f.val]}
    [] f.type = TLV.MetaInfo -> Scan(Dehead, ReadMetaInfo, f.val, pkt)
    [] f.type = TLV.InterestLifetime -> {[pkt EXCEPT !.lifetime = Number(f.val)]}
    [] OTHER -> {pkt}

(* what absent fields are taken for *)
Blank(type) ==
  [type |-> type, name |-> {}, min |-> 0, max |-> MaxNameComp, mbf |-> FALSE, nonce |-> None,
   scope |-> 3, lifetime |-> 1000 * InterestTimeout, content |-> <<>>, fresh |-> 0, final |-> None]

(***************************************************************************)
(* ccnl_ndntlv_forwarder, ccnl_ndntlv_bytes2pkt: the outer header gives    *)
(* the type; fields are read to the end of the datagram, not to that of    *)
(* the packet.                                                             *)
(***************************************************************************)
Forwarder(b) ==
  AndThen(Dehead(b), LAMBDA p :
    AndThen(Only(p.val \o p.rest, p.type \in {TLV.Interest, TLV.Data}), LAMBDA body :
      AndThen(Scan(Dehead, ReadField, body, Blank(p.type)), LAMBDA q :
        {[pkts |-> <<q>>, rest |-> <<>>]})))
=============================================================================
