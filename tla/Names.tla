------------------------------- MODULE Names -------------------------------
(***************************************************************************)
(* Names, and the comparisons the forwarder decides with                   *)
(* (ccnl-core/src/ccnl-prefix.c, and the cMatch function of every suite).  *)
(*                                                                         *)
(* A name is a record [suite, comps, chunk]: the packet format it was      *)
(* parsed from, the sequence of its components, and its chunk number.      *)
(* Components, digests, publisher keys and nonces are opaque values.       *)
(*                                                                         *)
(* A definition whose comment begins with "slip" is not the code's: it is  *)
(* the definition after it with one mistake, and nothing here uses it.     *)
(***************************************************************************)
EXTENDS Integers, Sequences

CONSTANTS
  NoValue,    \* a NULL pointer: no digest, no publisher key, no nonce
  Word        \* 2^64: the range of the size computations, scaled down for TLC

ASSUME WordAssumption == Word \in Nat \ {0}

NoChunk == -1

Suite == {"ccnb", "ccntlv", "ndntlv"}

(***************************************************************************)
(* ccnl_prefix_cmp.  A digest md stands for one more component of pfx.     *)
(* The suite is not compared.  "exact" gives 0 or -1; "longest" gives the  *)
(* number of leading components the two names share.                       *)
(***************************************************************************)
WithDigest(pfx, md) == IF md = NoValue THEN pfx.comps ELSE Append(pfx.comps, md)

Agree(s, t, n) == n =< Len(s) /\ n =< Len(t) /\ \A i \in 1..n : s[i] = t[i]

SharedComps(s, t) ==
  CHOOSE n \in 0..Len(s) : Agree(s, t, n) /\ ~ Agree(s, t, n + 1)

PrefixCmp(pfx, md, nam, mode) ==
  LET comps == WithDigest(pfx, md) IN
  IF mode = "exact"
    THEN IF comps = nam.comps /\ pfx.chunk = nam.chunk THEN 0 ELSE -1
    ELSE SharedComps(comps, nam.comps)

SameName(n, m) == PrefixCmp(n, NoValue, m, "exact") = 0

(***************************************************************************)
(* ccnl_i_prefixof_c: does Interest p (a name and its suffix bounds) match *)
(* the Data packet d?  The bounds count the implicit digest as a component *)
(* and are added in 64-bit arithmetic.                                     *)
(***************************************************************************)
SuffixOK(p, d) ==
  /\ (Len(p.name.comps) + p.min) % Word =< Len(d.name.comps) + 1
  /\ (Len(p.name.comps) + p.max) % Word >= Len(d.name.comps) + 1

(* slip: the digest is never computed *)
DigestNever(p, d) == NoValue

DigestFor(p, d) ==
  IF Len(p.name.comps) = Len(d.name.comps) + 1 THEN d.digest ELSE NoValue

IPrefixOfC(p, d) ==
  SuffixOK(p, d) /\ PrefixCmp(d.name, DigestFor(p, d), p.name, "exact") >= 0

(***************************************************************************)
(* ccnl_interest_isSame: two Interests that one PIT entry stands for.      *)
(* MustBeFresh, nonce, lifetime and scope are not compared.                *)
(***************************************************************************)

(* slip: the suffix bounds are not compared either *)
IsSameByName(p, q) ==
  p.name.suite = q.name.suite /\ SameName(p.name, q.name) /\ p.ppk = q.ppk

IsSame(p, q) ==
  /\ p.name.suite = q.name.suite
  /\ SameName(p.name, q.name)
  /\ p.name.suite # "ccntlv" =>
       p.min = q.min /\ p.max = q.max /\ p.ppk = q.ppk

(***************************************************************************)
(* The test of ccnl_content_serve_pending: Data d answers a pending        *)
(* Interest p.  It depends on the suite of the Interest alone.             *)
(***************************************************************************)
Answers(d, p) ==
  IF p.name.suite = "ccntlv" THEN SameName(d.name, p.name) ELSE IPrefixOfC(p, d)

(***************************************************************************)
(* The test of the content store search in ccnl_fwd_handleInterest: the    *)
(* suites agree and the suite's cMatch accepts the cached content c.       *)
(***************************************************************************)
CMatch(p, c) ==
  /\ c.data.name.suite = p.name.suite
  /\ Answers(c.data, p)
  /\ p.name.suite = "ndntlv" => ~ (p.mbf /\ c.stale)
  /\ p.name.suite = "ccnb" /\ p.ppk # NoValue => c.data.ppk = p.ppk

(***************************************************************************)
(* The test of ccnl_interest_propagate: a FIB entry for prefix pfx covers  *)
(* an Interest for name nam.                                               *)
(***************************************************************************)
Covers(pfx, nam) ==
  pfx.suite = nam.suite /\ PrefixCmp(pfx, NoValue, nam, "longest") >= Len(pfx.comps)
=============================================================================
