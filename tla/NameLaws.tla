------------------------------ MODULE NameLaws ------------------------------
(***************************************************************************)
(* What the comparisons of module Names promise of two Interests and a     *)
(* Data packet, of any number of components.                               *)
(***************************************************************************)
EXTENDS Names

VARIABLES
  asked,  \* an Interest
  again,  \* one that comes after it
  held    \* a Data packet

(* Names, Interests and Data packets over a set of components, however many of them a name
   has.  The sums are of 64 bits; the digest of a Data packet is never NULL. *)
NameOver(Comp) == [suite : Suite, comps : Seq(Comp), chunk : {NoChunk} \cup Nat]
InterestOver(Comp, Key) ==
  [name : NameOver(Comp), min : 0..Word - 1, max : 0..Word - 1, ppk : Key, mbf : BOOLEAN]
DataOver(Comp, Key) ==
  [name : NameOver(Comp), digest : Comp \ {NoValue}, ppk : Key, fresh : Nat]

FullName(d) == Append(d.name.comps, d.digest)

(* The bounds for which no sum in ccnl_i_prefixof_c overflows. *)
NoOverflow(p) == Len(p.name.comps) + p.min < Word /\ Len(p.name.comps) + p.max < Word

(* The components of the full name that the Interest leaves open. *)
Open(p, d) == Len(FullName(d)) - Len(p.name.comps)

(* A prefix match within the bounds on the suffix *)
PrefixMatch(p, d) ==
  /\ Agree(p.name.comps, FullName(d), Len(p.name.comps))
  /\ p.name.chunk = d.name.chunk
  /\ p.min =< Open(p, d) /\ Open(p, d) =< p.max

(***************************************************************************)
(* What ccnl_i_prefixof_c accepts is a prefix match within the bounds, for *)
(* bounds that do not make a sum overflow; and it accepts all of those     *)
(* that leave open no more than the digest.                                *)
(***************************************************************************)
MatchesAsPrefix ==
  NoOverflow(asked) =>
    /\ IPrefixOfC(asked, held) => PrefixMatch(asked, held)
    /\ PrefixMatch(asked, held) /\ Open(asked, held) =< 1 => IPrefixOfC(asked, held)

(***************************************************************************)
(* "CONFORM: we do prefix match, honour min. and maxsuffix"                *)
(* (ccnl-prefix.c, line 451).  The code compares the names with CMP_EXACT, *)
(* so an Interest that leaves more open is never answered.                 *)
(***************************************************************************)
PrefixMatches ==
  NoOverflow(asked) /\ PrefixMatch(asked, held) => IPrefixOfC(asked, held)

(***************************************************************************)
(* One PIT entry may stand for all Interests ccnl_interest_isSame takes    *)
(* for the same: any one of them is answered by the same content.          *)
(***************************************************************************)
AggregationSound ==
  IsSame(asked, again) =>
    LET c == [data |-> held, stale |-> FALSE] IN
      Answers(held, asked) = Answers(held, again) /\ CMatch(asked, c) = CMatch(again, c)
=============================================================================
