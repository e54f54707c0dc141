-------------------------------- MODULE Ccnb --------------------------------
(***************************************************************************)
(* CCNb packets (ccnl-pkt/src/ccnl-pkt-ccnb.c): nested blocks, each with a *)
(* header of a number and a type, ended by an octet 0.  The builders write *)
(* forward into a buffer, and need one octet more than they fill.          *)
(***************************************************************************)
EXTENDS Octets

CONSTANTS
  MaxNameComp,     \* CCNL_MAX_NAME_COMP
  MaxPacketSize    \* CCNL_MAX_PACKET_SIZE

TT == [DTAG |-> 2, DATTR |-> 4, BLOB |-> 5, UDATA |-> 6]
DTAG ==
  [NAME |-> 14, COMPONENT |-> 15, CONTENT |-> 19, INTEREST |-> 26, NONCE |-> 41, SCOPE |-> 42,
   ANSWERORIGKIND |-> 47, PUBPUBKDIGEST |-> 60, CONTENTOBJ |-> 64, MINSUFFCOMP |-> 83,
   MAXSUFFCOMP |-> 84]
None == -1
-----------------------------------------------------------------------------
(***************************************************************************)
(* Packet composition.                                                     *)
(***************************************************************************)

(* the high bits of a number, seven to an octet, and no octet more than they need *)
Sevens == <<1, 128, 16384, 2097152>>
HighBits(n) ==
  LET size == IF n = 0 THEN 0 ELSE IF n < 128 THEN 1 ELSE IF n < 16384 THEN 2
              ELSE IF n < 2097152 THEN 3 ELSE 4
  IN [k \in 1..size |-> (n \div Sevens[size - k + 1]) % 128]

(* ccnl_ccnb_mkHeader: the last octet holds four bits of the number and the type. *)
Header(num, tt) == HighBits(num \div 16) \o <<128 + 8 * (num % 16) + tt>>

End == <<0>>
Block(tag, b) == Header(tag, TT.DTAG) \o b \o End
Blob(b) == Header(Len(b), TT.BLOB) \o b

MkName(comps) ==
  Block(DTAG.NAME, FlattenSeq([k \in DOMAIN comps |-> Block(DTAG.COMPONENT, Blob(comps[k]))]))

Fits(b, room) == Only(b, Len(b) < room)

(* ccnl_ccnb_fillInterest as ccnl_mkInterest calls it, without a nonce *)
FillInterest(comps) == Fits(Block(DTAG.INTEREST, MkName(comps)), MaxPacketSize)

FillContent(comps, payload, room) ==
  Fits(Block(DTAG.CONTENTOBJ, MkName(comps) \o Block(DTAG.CONTENT, Blob(payload))), room)
-----------------------------------------------------------------------------
(***************************************************************************)
(* Packet parsing.                                                         *)
(***************************************************************************)

(* The first octet with the high bit set ends a header, among the first eight. *)
HeaderEnd(b) == {i \in 1..IF Len(b) < 8 THEN Len(b) ELSE 8 :
                   b[i] >= 128 /\ \A j \in 1..i - 1 : b[j] < 128}

HighValue(b) == Fold(LAMBDA v, o : 128 * v + o, 0, b)

Dehead(b) ==
  IF b # <<>> /\ b[1] = 0 THEN {[num |-> 0, tt |-> 0, rest |-> Tail(b)]}
  ELSE {[num |-> 16 * HighValue(Take(b, i - 1)) + ((b[i] \div 8) % 16), tt |-> b[i] % 8,
         rest |-> Drop(b, i)] : i \in HeaderEnd(b)}

IsEnd(h) == h.num = 0 /\ h.tt = 0

(***************************************************************************)
(* ccnl_ccnb_hunt_for_end passes over what follows up to the end of the    *)
(* block, and ccnl_ccnb_consume over what follows the header h; each calls *)
(* the other for a block in a block.  "open" counts the blocks not yet     *)
(* ended; val becomes the last blob met.                                   *)
(***************************************************************************)
Pass(s, h) ==
  CASE h.tt \in {TT.BLOB, TT.UDATA} ->
         Only([s EXCEPT !.val = Take(h.rest, h.num), !.rest = Drop(h.rest, h.num)],
              h.num =< Len(h.rest))
    [] h.tt \in {TT.DTAG, TT.DATTR} -> {[s EXCEPT !.rest = h.rest, !.open = @ + 1]}
    [] OTHER -> {}

HuntTurn(s) ==
  IF s.open = 0 THEN {s}
  ELSE AndThen(Dehead(s.rest), LAMBDA h :
         IF IsEnd(h) THEN {[s EXCEPT !.rest = h.rest, !.open = @ - 1]} ELSE Pass(s, h))

Hunt(s) == {t \in Loop(HuntTurn, s, Len(s.rest)) : t.open = 0}

HuntForEnd(b, val) == Hunt([val |-> val, rest |-> b, open |-> 1])
Consume(h, val) == AndThen(Pass([val |-> val, rest |-> h.rest, open |-> 0], h), Hunt)

NameTurn(s) ==
  IF s.done THEN {s}
  ELSE AndThen(Dehead(s.rest), LAMBDA h :
    IF IsEnd(h) THEN {[s EXCEPT !.rest = h.rest, !.done = TRUE]}
    ELSE IF h.tt = TT.DTAG /\ h.num = DTAG.COMPONENT /\ Len(s.comps) < MaxNameComp
      THEN AndThen(HuntForEnd(h.rest, <<>>), LAMBDA c :
             {[s EXCEPT !.rest = c.rest, !.comps = Append(@, c.val)]})
      ELSE AndThen(Consume(h, <<>>), LAMBDA c : {[s EXCEPT !.rest = c.rest]}))

ReadName(b, comps) ==
  {s \in Loop(NameTurn, [comps |-> comps, rest |-> b, done |-> FALSE], Len(b)) : s.done}

(* ccnl_ccnb_data2uint: decimal digits only *)
Digits(b) == \A k \in DOMAIN b : b[k] \in 48..57
Decimal(b) == Fold(LAMBDA v, o : 10 * v + (o - 48), 0, b)

(* of a single octet: '0', '1' or '2', or else -1 *)
ReadScope(b, scope) ==
  IF Len(b) # 1 THEN scope ELSE IF b[1] \in 48..50 THEN b[1] - 48 ELSE -1

ReadField(pkt, tag, b) ==
  CASE tag = DTAG.SCOPE -> {[pkt EXCEPT !.scope = ReadScope(b, @)]}
    [] tag = DTAG.ANSWERORIGKIND -> Only([pkt EXCEPT !.aok = Decimal(b)], Digits(b))
    [] tag = DTAG.MINSUFFCOMP -> Only([pkt EXCEPT !.min = Decimal(b)], Digits(b))
    [] tag = DTAG.MAXSUFFCOMP -> Only([pkt EXCEPT !.max = Decimal(b)], Digits(b))
    [] tag = DTAG.NONCE -> {IF pkt.nonce = <<>> THEN [pkt EXCEPT !.nonce = b] ELSE pkt}
    [] tag = DTAG.PUBPUBKDIGEST -> {IF pkt.ppkd = <<>> THEN [pkt EXCEPT !.ppkd = b] ELSE pkt}
    [] OTHER -> {pkt}

(* ccnl_ccnb_bytes2pkt: up to the end of the block, or until nothing can be read *)
PktTurn(s) ==
  LET blocks == {h \in Dehead(s.rest) : ~ IsEnd(h)} IN
  IF s.done THEN {s}
  ELSE IF blocks = {}
    THEN {[s EXCEPT !.rest = IF Dehead(@) = {} THEN @ ELSE Tail(@), !.done = TRUE]}
  ELSE AndThen(blocks, LAMBDA h :
    CASE h.tt = TT.DTAG /\ h.num = DTAG.NAME ->
           AndThen(ReadName(h.rest, s.pkt.comps), LAMBDA n :
             {[s EXCEPT !.rest = n.rest, !.pkt.comps = n.comps]})
      [] h.tt = TT.DTAG /\ h.num = DTAG.CONTENT ->
           AndThen(Consume(h, s.pkt.content), LAMBDA c :
             {[s EXCEPT !.rest = c.rest, !.pkt.content = c.val]})
      [] h.tt = TT.DTAG /\ h.num \notin {DTAG.NAME, DTAG.CONTENT} ->
           AndThen(HuntForEnd(h.rest, <<>>), LAMBDA c :
             AndThen(ReadField(s.pkt, h.num, c.val), LAMBDA p :
               {[s EXCEPT !.rest = c.rest, !.pkt = p]}))
      [] OTHER -> AndThen(Consume(h, <<>>), LAMBDA c : {[s EXCEPT !.rest = c.rest]}))

Bytes2Pkt(b, pkt) ==
  AndThen(Loop(PktTurn, [pkt |-> pkt, rest |-> b, done |-> FALSE], Len(b)), LAMBDA s :
    {[pkts |-> <<s.pkt>>, rest |-> s.rest]})

Blank(type) ==
  [type |-> type, comps |-> <<>>, min |-> 0, max |-> MaxNameComp, scope |-> 3, aok |-> 3,
   nonce |-> <<>>, ppkd |-> <<>>, content |-> <<>>]

(* One turn of ccnl_ccnb_forwarder, and ccnl_ccnb_fwd *)
Forwarder(b) ==
  AndThen(Dehead(b), LAMBDA h :
    IF h.tt = TT.DTAG /\ h.num \in {DTAG.INTEREST, DTAG.CONTENTOBJ}
    THEN Bytes2Pkt(h.rest, Blank(h.num)) ELSE {})
=============================================================================
