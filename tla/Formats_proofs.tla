--------------------------- MODULE Formats_proofs ---------------------------
(***************************************************************************)
(* Theorems about the packet formats, for every datagram whose packets     *)
(* keep to the limits of their encoding (FrameAssumption): what is built   *)
(* is what is read, packet by packet in each format, and then for whole    *)
(* datagrams.                                                              *)
(***************************************************************************)
EXTENDS Formats, SequenceTheorems, WellFoundedInduction, TLAPS

Buffer == Seq(Octet)
-----------------------------------------------------------------------------
(***************************************************************************)
(* Loops.  A function is known from its start and its steps.               *)
(***************************************************************************)
StepsAlike(n, f, g) ==
  /\ n \in Nat /\ f[0] = g[0]
  /\ \A k \in 1..n : f[k - 1] = g[k - 1] => f[k] = g[k]

(* Two functions with the same start and the same steps are the same up to n. *)
LEMMA Agree ==
  ASSUME NEW n, NEW f, NEW g, StepsAlike(n, f, g)
  PROVE  \A k \in 0..n : f[k] = g[k]
<1> USE DEF StepsAlike
<1> DEFINE Bad == {k \in 0..n : f[k] # g[k]}
<1>1. SUFFICES ASSUME Bad # {} PROVE FALSE
  OBVIOUS
<1>2. Bad \subseteq Nat
  OBVIOUS
<1>3. PICK k \in Bad : \A j \in Bad : ~ (<<j, k>> \in OpToRel(<, Nat))
  BY <1>1, <1>2, WFMin, NatLessThanWellFounded
<1>4. \A j \in Bad : ~ (j < k)
  BY <1>2, <1>3 DEF OpToRel
<1>5. k \in 1..n /\ k - 1 \in 0..n
  OBVIOUS
<1>6. f[k - 1] = g[k - 1]
  BY <1>4, <1>5
<1> QED  BY <1>5, <1>6

(* A loop of at most N turns that comes to its end after n, through the states S: T[k]
   is what a turn makes of the states after k turns. *)
RunsThrough(N, n, after, T, S) ==
  /\ N \in Nat /\ n \in 0..N
  /\ after[0] = {S[0]}
  /\ \A k \in 1..N : after[k] = T[k - 1]
  /\ \A k \in 0..N : k < n /\ after[k] = {S[k]} => T[k] = {S[k + 1]}
  /\ \A k \in 0..N : after[k] = {S[n]} => T[k] = {S[n]}
  /\ \A j, k \in 0..N : after[j] = after[k] => T[j] = T[k]

(* Such a loop, read where a turn changes nothing any more, is in its last state. *)
LEMMA LoopEnds ==
  ASSUME NEW N, NEW n, NEW after, NEW T, NEW S, RunsThrough(N, n, after, T, S)
  PROVE  after[CHOOSE k \in 0..N : k = N \/ T[k] = after[k]] = {S[n]}
<1> USE DEF RunsThrough
<1> DEFINE g == [k \in 0..N |-> IF k < n THEN {S[k]} ELSE {S[n]}]
<1>1. StepsAlike(N, after, g)
  <2>1. after[0] = g[0]
    OBVIOUS
  <2>2. ASSUME NEW k \in 1..N, after[k - 1] = g[k - 1] PROVE after[k] = g[k]
    <3>1. k - 1 \in 0..N /\ after[k] = T[k - 1]
      OBVIOUS
    <3>2. CASE k - 1 < n
      <4>1. after[k - 1] = {S[k - 1]}
        BY <2>2, <3>1, <3>2
      <4>2. T[k - 1] = {S[k - 1 + 1]} /\ k - 1 + 1 = k
        BY <3>1, <3>2, <4>1
      <4>3. g[k] = {S[k]}
        BY <3>2
      <4> QED  BY <3>1, <4>2, <4>3
    <3>3. CASE ~ (k - 1 < n)
      <4>1. after[k - 1] = {S[n]} /\ g[k] = {S[n]}
        BY <2>2, <3>1, <3>3
      <4> QED  BY <3>1, <4>1
    <3> QED  BY <3>2, <3>3
  <2> HIDE DEF g
  <2> QED  BY <2>1, <2>2 DEF StepsAlike
<1>2. after[N] = g[N] /\ g[N] = {S[n]}
  <2>1. g[N] = {S[n]}
    OBVIOUS
  <2> HIDE DEF g, RunsThrough
  <2>2. \A k \in 0..N : after[k] = g[k]
    BY <1>1, Agree
  <2>3. N \in 0..N
    BY DEF RunsThrough
  <2> QED  BY <2>1, <2>2, <2>3
<1> HIDE DEF g
<1> DEFINE c == CHOOSE k \in 0..N : k = N \/ T[k] = after[k]
<1>3. c \in 0..N /\ (c = N \/ T[c] = after[c])
  <2>1. \E k \in 0..N : k = N \/ T[k] = after[k]
    OBVIOUS
  <2> QED  BY <2>1
<1> HIDE DEF c
<1>4. CASE T[c] = after[c]
  <2> DEFINE f == [k \in 0..N - c |-> after[c + k]]
             h == [k \in 0..N - c |-> after[c]]
  <2>1. StepsAlike(N - c, f, h)
    <3>1. N - c \in Nat /\ f[0] = h[0]
      BY <1>3
    <3>2. ASSUME NEW k \in 1..N - c, f[k - 1] = h[k - 1] PROVE f[k] = h[k]
      <4>1. /\ c + (k - 1) \in 0..N /\ c + k \in 1..N /\ c + k - 1 = c + (k - 1)
            /\ k - 1 \in 0..N - c /\ k \in 0..N - c
        BY <1>3
      <4>2. after[c + (k - 1)] = after[c]
        BY <3>2, <4>1
      <4>3. T[c + (k - 1)] = T[c]
        BY <1>3, <4>1, <4>2
      <4>4. after[c + k] = T[c + (k - 1)]
        <5>1. PICK m \in 1..N : m = c + k /\ m - 1 = c + (k - 1)
          BY <1>3, <4>1
        <5>2. after[m] = T[m - 1]
          OBVIOUS
        <5> QED  BY <5>1, <5>2, Zenon
      <4>5. after[c + k] = after[c]
        BY <1>4, <4>1, <4>3, <4>4
      <4> QED  BY <4>1, <4>5
    <3> HIDE DEF f, h
    <3> QED  BY <3>1, <3>2 DEF StepsAlike
  <2>2. f[N - c] = h[N - c]
    <3> HIDE DEF f, h, RunsThrough
    <3>1. \A k \in 0..N - c : f[k] = h[k]
      BY <2>1, Agree
    <3>2. N - c \in 0..N - c
      BY <1>3 DEF RunsThrough
    <3> QED  BY <3>1, <3>2
  <2>3. after[N] = after[c]
    <3>1. N - c \in 0..N - c /\ c + (N - c) = N
      BY <1>3
    <3> QED  BY <2>2, <3>1
  <2> QED  BY <1>2, <2>3 DEF c
<1>5. CASE c = N
  BY <1>2, <1>5 DEF c
<1> QED  BY <1>3, <1>4, <1>5

-----------------------------------------------------------------------------
(***************************************************************************)
(* Buffers.                                                                *)
(***************************************************************************)
LEMMA OctetIsNat == \A o \in Octet : o \in Nat /\ o < 256
BY DEF Octet

LEMMA BufferElement ==
  ASSUME NEW b \in Buffer, NEW k \in 1..Len(b)
  PROVE  b[k] \in Octet /\ b[k] \in Nat /\ b[k] < 256
<1>1. b[k] \in Octet
  BY ElementOfSeq, Zenon DEF Buffer
<1> QED  BY <1>1, OctetIsNat

LEMMA BufferLen == ASSUME NEW b \in Buffer PROVE Len(b) \in Nat /\ (Len(b) = 0 <=> b = <<>>)
BY DEF Buffer

LEMMA BufferEmpty == <<>> \in Buffer /\ Len(<<>>) = 0
BY DEF Buffer

(* What is put together has the octets of both parts, the second behind the first. *)
LEMMA BufferConcat ==
  ASSUME NEW a \in Buffer, NEW b \in Buffer
  PROVE  /\ a \o b \in Buffer /\ Len(a \o b) = Len(a) + Len(b)
         /\ \A k \in 1..Len(a) : (a \o b)[k] = a[k]
         /\ \A k \in 1..Len(b) : (a \o b)[Len(a) + k] = b[k]
<1>0. Len(a) \in Nat /\ Len(b) \in Nat
  BY BufferLen
<1>1. /\ a \o b \in Seq(Octet) /\ Len(a \o b) = Len(a) + Len(b)
      /\ \A i \in 1..Len(a) + Len(b) : (a \o b)[i] = IF i <= Len(a) THEN a[i] ELSE b[i - Len(a)]
  BY ConcatProperties, Zenon DEF Buffer
<1>2. \A k \in 1..Len(a) : (a \o b)[k] = a[k]
  BY <1>0, <1>1
<1>3. ASSUME NEW k \in 1..Len(b) PROVE (a \o b)[Len(a) + k] = b[k]
  <2>1. Len(a) + k \in 1..Len(a) + Len(b) /\ ~ (Len(a) + k <= Len(a)) /\ Len(a) + k - Len(a) = k
    BY <1>0
  <2> QED  BY <1>1, <2>1
<1> QED  BY <1>1, <1>2, <1>3 DEF Buffer

LEMMA BufferAssociative ==
  ASSUME NEW a \in Buffer, NEW b \in Buffer, NEW c \in Buffer
  PROVE  (a \o b) \o c = a \o (b \o c)
BY ConcatAssociative DEF Buffer

LEMMA BufferEmptyConcat == ASSUME NEW a \in Buffer PROVE a \o <<>> = a /\ <<>> \o a = a
BY ConcatEmptySeq, Zenon DEF Buffer

LEMMA BufferEqual ==
  ASSUME NEW a \in Buffer, NEW b \in Buffer, Len(a) = Len(b), \A k \in 1..Len(a) : a[k] = b[k]
  PROVE  a = b
BY SeqEqual, Zenon DEF Buffer

LEMMA BufferOf ==
  ASSUME NEW n \in Nat, NEW f \in [1..n -> Octet]
  PROVE  f \in Buffer /\ Len(f) = n
BY DEF Buffer

(* A concatenation is taken apart where it was put together. *)
LEMMA Apart ==
  ASSUME NEW a \in Buffer, NEW b \in Buffer
  PROVE  /\ SubSeq(a \o b, 1, Len(a)) = a
         /\ SubSeq(a \o b, Len(a) + 1, Len(a \o b)) = b
<1> DEFINE c == a \o b
           n == Len(a)
           m == Len(c)
<1>0. n \in Nat /\ Len(b) \in Nat /\ m \in Nat /\ m = n + Len(b) /\ c \in Buffer
  BY BufferLen, BufferConcat
<1>1. /\ \A k \in 1..n : c[k] = a[k]
      /\ \A k \in 1..Len(b) : c[n + k] = b[k]
  BY BufferConcat
<1>2. \A k \in 1..m : c[k] \in Octet
  BY <1>0, BufferElement
<1> HIDE DEF c, n, m
<1>3. SubSeq(c, 1, n) = a
  <2>1. \A k \in 1..n : c[k] \in Octet
    BY <1>0, <1>2
  <2>2. /\ SubSeq(c, 1, n) \in Seq(Octet)
        /\ Len(SubSeq(c, 1, n)) = IF 1 <= n THEN n - 1 + 1 ELSE 0
        /\ \A i \in 1..n - 1 + 1 : SubSeq(c, 1, n)[i] = c[1 + i - 1]
    BY <1>0, <2>1, SubSeqProperties
  <2>3. Len(SubSeq(c, 1, n)) = n /\ \A i \in 1..n : SubSeq(c, 1, n)[i] = a[i]
    BY <1>0, <1>1, <2>2
  <2> QED  BY <2>2, <2>3, BufferEqual DEF Buffer, n
<1>4. SubSeq(c, n + 1, m) = b
  <2>1. \A k \in n + 1..m : c[k] \in Octet
    BY <1>0, <1>2
  <2>2. /\ SubSeq(c, n + 1, m) \in Seq(Octet)
        /\ Len(SubSeq(c, n + 1, m)) = IF n + 1 <= m THEN m - (n + 1) + 1 ELSE 0
        /\ \A i \in 1..m - (n + 1) + 1 : SubSeq(c, n + 1, m)[i] = c[n + 1 + i - 1]
    BY <1>0, <2>1, SubSeqProperties, SMTT(40)
  <2>3. Len(SubSeq(c, n + 1, m)) = Len(b)
    BY <1>0, <2>2
  <2>4. \A i \in 1..Len(b) : SubSeq(c, n + 1, m)[i] = b[i]
    <3>1. SUFFICES ASSUME NEW i \in 1..Len(b) PROVE SubSeq(c, n + 1, m)[i] = b[i]
      OBVIOUS
    <3>2. i \in 1..m - (n + 1) + 1 /\ n + 1 + i - 1 = n + i
      BY <1>0
    <3> QED  BY <1>1, <2>2, <3>2
  <2> QED  BY <2>2, <2>3, <2>4, BufferEqual DEF Buffer
<1> QED  BY <1>3, <1>4 DEF c, n, m

LEMMA Middle ==
  ASSUME NEW a \in Buffer, NEW b \in Buffer, NEW c \in Buffer
  PROVE  SubSeq((a \o b) \o c, Len(a) + 1, Len(a) + Len(b)) = b
<1> DEFINE s == (a \o b) \o c
           i == Len(a)
           n == Len(b)
<1>0. i \in Nat /\ n \in Nat
  BY BufferLen
<1>1. \A k \in 1..n : s[i + k] = b[k]
  <2>1. a \o b \in Buffer /\ Len(a \o b) = i + n
    BY BufferConcat
  <2>2. \A k \in 1..n : (a \o b)[i + k] = b[k]
    BY BufferConcat
  <2>3. \A k \in 1..i + n : s[k] = (a \o b)[k]
    BY <2>1, BufferConcat
  <2> HIDE DEF s, i, n
  <2>4. \A k \in 1..n : i + k \in 1..i + n
    BY <1>0
  <2> QED  BY <2>2, <2>3, <2>4
<1>2. \A k \in 1..n : b[k] \in Octet
  BY BufferElement
<1> HIDE DEF s, i, n
<1>3. \A k \in i + 1..i + n : s[k] \in Octet
  <2>1. SUFFICES ASSUME NEW k \in i + 1..i + n PROVE s[k] \in Octet
    OBVIOUS
  <2>2. k - i \in 1..n /\ i + (k - i) = k
    BY <1>0
  <2> QED  BY <1>1, <1>2, <2>2
<1>4. /\ SubSeq(s, i + 1, i + n) \in Seq(Octet)
      /\ Len(SubSeq(s, i + 1, i + n)) = IF i + 1 <= i + n THEN i + n - (i + 1) + 1 ELSE 0
      /\ \A k \in 1..i + n - (i + 1) + 1 : SubSeq(s, i + 1, i + n)[k] = s[i + 1 + k - 1]
  BY <1>0, <1>3, SubSeqProperties
<1>5. Len(SubSeq(s, i + 1, i + n)) = n
  BY <1>0, <1>4
<1>6. \A k \in 1..n : SubSeq(s, i + 1, i + n)[k] = b[k]
  <2>1. SUFFICES ASSUME NEW k \in 1..n PROVE SubSeq(s, i + 1, i + n)[k] = b[k]
    OBVIOUS
  <2>2. k \in 1..i + n - (i + 1) + 1 /\ i + 1 + k - 1 = i + k
    BY <1>0
  <2> QED  BY <1>1, <1>4, <2>2
<1>7. SubSeq(s, i + 1, i + n) \in Buffer
  BY <1>4 DEF Buffer
<1>8. SubSeq(s, i + 1, i + n) = b
  BY <1>5, <1>6, <1>7, BufferEqual DEF n
<1> QED  BY <1>8 DEF s, i, n

LEMMA OneOctet ==
  ASSUME NEW o \in Octet, NEW r \in Buffer
  PROVE  /\ <<o>> \in Buffer /\ Len(<<o>>) = 1
         /\ (<<o>> \o r)[1] = o /\ Tail(<<o>> \o r) = r
         /\ Len(<<o>> \o r) = Len(r) + 1 /\ <<o>> \o r \in Buffer /\ <<o>> \o r # <<>>
<1>1. <<o>> \in Buffer /\ Len(<<o>>) = 1 /\ <<o>>[1] = o
  BY DEF Buffer
<1>2. /\ <<o>> \o r \in Buffer /\ Len(<<o>> \o r) = 1 + Len(r)
      /\ \A k \in 1..1 : (<<o>> \o r)[k] = <<o>>[k]
      /\ \A k \in 1..Len(r) : (<<o>> \o r)[1 + k] = r[k]
  BY <1>1, BufferConcat
<1> DEFINE s == <<o>> \o r
<1>3. Len(r) \in Nat
  BY BufferLen
<1> HIDE DEF s
<1>4. Len(s) # 0 /\ s # <<>>
  BY <1>2, <1>3, BufferLen DEF s
<1>5. /\ Tail(s) \in Seq(Octet) /\ Len(Tail(s)) = Len(s) - 1
      /\ \A i \in 1..Len(Tail(s)) : Tail(s)[i] = s[i + 1]
  BY <1>2, <1>4, HeadTailProperties, Zenon DEF Buffer, s
<1>6. Len(Tail(s)) = Len(r)
  BY <1>2, <1>3, <1>5 DEF s
<1>7. \A i \in 1..Len(Tail(s)) : Tail(s)[i] = r[i]
  <2>1. \A i \in 1..Len(r) : i + 1 = 1 + i
    BY <1>3
  <2> QED  BY <1>2, <1>5, <1>6, <2>1 DEF s
<1>8. Tail(s) = r
  BY <1>5, <1>6, <1>7, BufferEqual DEF Buffer
<1> QED  BY <1>1, <1>2, <1>3, <1>4, <1>8 DEF s

LEMMA TakeDrop ==
  ASSUME NEW a \in Buffer, NEW b \in Buffer, NEW n, n = Len(a)
  PROVE  Take(a \o b, n) = a /\ Drop(a \o b, n) = b
BY Apart DEF Take, Drop

-----------------------------------------------------------------------------
(***************************************************************************)
(* Numbers.                                                                *)
(***************************************************************************)

(* Number is what any function with its steps comes to. *)
LEMMA NumberSteps ==
  ASSUME NEW b \in Buffer, NEW f \in [0..Len(b) -> Nat], f[0] = 0,
         \A k \in 1..Len(b) : f[k] = 256 * f[k - 1] + b[k]
  PROVE  Number(b) = f[Len(b)]
<1> DEFINE D(g) == [k \in 0..Len(b) |-> IF k = 0 THEN 0 ELSE 256 * g[k - 1] + b[k]]
<1>1. f = D(f)
  OBVIOUS
<1>2. PICK at : at = D(at) /\ Number(b) = at[Len(b)]
  <2> DEFINE g == CHOOSE g : g = D(g)
  <2>1. Number(b) = g[Len(b)]
    BY Zenon DEF Number, Fold
  <2> HIDE DEF D
  <2>2. g = D(g)
    BY <1>1, Zenon
  <2> QED  BY <2>1, <2>2, Zenon
<1>3. Len(b) \in Nat
  BY BufferLen
<1>4. at[0] = f[0]
  BY <1>2, <1>3
<1>5. ASSUME NEW k \in 1..Len(b), at[k - 1] = f[k - 1] PROVE at[k] = f[k]
  <2>1. at[k] = 256 * at[k - 1] + b[k]
    BY <1>2, <1>3, SMTT(30)
  <2> QED  BY <1>5, <2>1
<1>6. StepsAlike(Len(b), at, f)
  BY <1>3, <1>4, <1>5 DEF StepsAlike
<1>7. \A k \in 0..Len(b) : at[k] = f[k]
  BY <1>6, Agree
<1> QED  BY <1>2, <1>3, <1>7

LEMMA NumberOfShort ==
  ASSUME NEW b \in Buffer
  PROVE  /\ Len(b) = 1 => Number(b) = b[1]
         /\ Len(b) = 2 => Number(b) = 256 * b[1] + b[2]
         /\ Len(b) = 3 => Number(b) = 256 * (256 * b[1] + b[2]) + b[3]
         /\ Len(b) = 4 => Number(b) = 256 * (256 * (256 * b[1] + b[2]) + b[3]) + b[4]
<1>1. \A k \in 1..Len(b) : b[k] \in Nat
  BY BufferElement
<1>2. ASSUME Len(b) = 1 PROVE Number(b) = b[1]
  <2> DEFINE f == [k \in 0..Len(b) |-> IF k = 0 THEN 0 ELSE b[1]]
  <2>1. b[1] \in Nat
    BY <1>1, <1>2
  <2>2. f \in [0..Len(b) -> Nat] /\ f[0] = 0 /\ \A k \in 1..Len(b) : f[k] = 256 * f[k - 1] + b[k]
    BY <1>2, <2>1
  <2>3. f[Len(b)] = b[1]
    BY <1>2
  <2> HIDE DEF f
  <2> QED  BY <2>2, <2>3, NumberSteps
<1>3. ASSUME Len(b) = 2 PROVE Number(b) = 256 * b[1] + b[2]
  <2> DEFINE f == [k \in 0..Len(b) |-> IF k = 0 THEN 0 ELSE IF k = 1 THEN b[1] ELSE 256 * b[1] + b[2]]
  <2>1. b[1] \in Nat /\ b[2] \in Nat
    BY <1>1, <1>3
  <2>2. f \in [0..Len(b) -> Nat] /\ f[0] = 0 /\ \A k \in 1..Len(b) : f[k] = 256 * f[k - 1] + b[k]
    BY <1>3, <2>1
  <2>3. f[Len(b)] = 256 * b[1] + b[2]
    BY <1>3
  <2> HIDE DEF f
  <2> QED  BY <2>2, <2>3, NumberSteps
<1>4. ASSUME Len(b) = 3 PROVE Number(b) = 256 * (256 * b[1] + b[2]) + b[3]
  <2> DEFINE f == [k \in 0..Len(b) |-> IF k = 0 THEN 0 ELSE IF k = 1 THEN b[1]
                     ELSE IF k = 2 THEN 256 * b[1] + b[2] ELSE 256 * (256 * b[1] + b[2]) + b[3]]
  <2>1. b[1] \in Nat /\ b[2] \in Nat /\ b[3] \in Nat
    BY <1>1, <1>4
  <2>2. f \in [0..Len(b) -> Nat] /\ f[0] = 0 /\ \A k \in 1..Len(b) : f[k] = 256 * f[k - 1] + b[k]
    BY <1>4, <2>1
  <2>3. f[Len(b)] = 256 * (256 * b[1] + b[2]) + b[3]
    BY <1>4
  <2> HIDE DEF f
  <2> QED  BY <2>2, <2>3, NumberSteps
<1>5. ASSUME Len(b) = 4 PROVE Number(b) = 256 * (256 * (256 * b[1] + b[2]) + b[3]) + b[4]
  <2> DEFINE f == [k \in 0..Len(b) |-> IF k = 0 THEN 0 ELSE IF k = 1 THEN b[1]
                     ELSE IF k = 2 THEN 256 * b[1] + b[2]
                     ELSE IF k = 3 THEN 256 * (256 * b[1] + b[2]) + b[3]
                     ELSE 256 * (256 * (256 * b[1] + b[2]) + b[3]) + b[4]]
  <2>1. b[1] \in Nat /\ b[2] \in Nat /\ b[3] \in Nat /\ b[4] \in Nat
    BY <1>1, <1>5
  <2>2. f \in [0..Len(b) -> Nat] /\ f[0] = 0 /\ \A k \in 1..Len(b) : f[k] = 256 * f[k - 1] + b[k]
    BY <1>5, <2>1
  <2>3. f[Len(b)] = 256 * (256 * (256 * b[1] + b[2]) + b[3]) + b[4]
    BY <1>5
  <2> HIDE DEF f
  <2> QED  BY <2>2, <2>3, NumberSteps, SMTT(30)
<1> QED  BY <1>2, <1>3, <1>4, <1>5

(* The numbers that n octets hold *)
Holds(n, v) ==
  /\ n \in 1..4 /\ v \in Nat
  /\ n = 1 => v < 256
  /\ n = 2 => v < 65536
  /\ n = 3 => v < 16777216
  /\ n = 4 => v =< 2147483647

LEMMA BigEndianOctets ==
  ASSUME NEW n \in 1..4, NEW v \in Nat
  PROVE  /\ BigEndian(n, v) \in Buffer /\ Len(BigEndian(n, v)) = n
         /\ \A k \in 1..n : BigEndian(n, v)[k] = (v \div Weight[n - k + 1]) % 256
<1>1. \A k \in 1..4 : Weight[k] \in Nat \ {0}
  BY SMTT(30) DEF Weight
<1>2. \A k \in 1..n : (v \div Weight[n - k + 1]) % 256 \in Octet
  <2>1. ASSUME NEW w \in Nat \ {0} PROVE (v \div w) % 256 \in 0..255
    <3>1. v \div w \in Int
      BY <2>1
    <3> QED  BY <3>1
  <2> QED  BY <1>1, <2>1, SMTT(30) DEF Octet
<1>3. BigEndian(n, v) \in [1..n -> Octet]
  BY <1>2 DEF BigEndian
<1>4. BigEndian(n, v) \in Buffer /\ Len(BigEndian(n, v)) = n
  BY <1>3, BufferOf
<1>5. \A k \in 1..n : BigEndian(n, v)[k] = (v \div Weight[n - k + 1]) % 256
  BY DEF BigEndian
<1> QED  BY <1>4, <1>5

(* A number is read as it was written. *)
LEMMA BigEndianNumber ==
  ASSUME NEW n, NEW v, Holds(n, v)
  PROVE  Number(BigEndian(n, v)) = v
<1> DEFINE b == BigEndian(n, v)
<1>1. n \in 1..4 /\ v \in Nat
  BY DEF Holds
<1>2. /\ b \in Buffer /\ Len(b) = n
      /\ \A k \in 1..n : b[k] = (v \div Weight[n - k + 1]) % 256
  BY <1>1, BigEndianOctets, ZenonT(60)
<1>3. Weight[1] = 1 /\ Weight[2] = 256 /\ Weight[3] = 65536 /\ Weight[4] = 16777216
  BY DEF Weight
<1> HIDE DEF b
<1>n. /\ n = 1 => Number(b) = b[1]
      /\ n = 2 => Number(b) = 256 * b[1] + b[2]
      /\ n = 3 => Number(b) = 256 * (256 * b[1] + b[2]) + b[3]
      /\ n = 4 => Number(b) = 256 * (256 * (256 * b[1] + b[2]) + b[3]) + b[4]
  <2>1. b \in Buffer /\ Len(b) = n
    BY <1>2
  <2>2. /\ Len(b) = 1 => Number(b) = b[1]
        /\ Len(b) = 2 => Number(b) = 256 * b[1] + b[2]
        /\ Len(b) = 3 => Number(b) = 256 * (256 * b[1] + b[2]) + b[3]
        /\ Len(b) = 4 => Number(b) = 256 * (256 * (256 * b[1] + b[2]) + b[3]) + b[4]
    BY <2>1, NumberOfShort, ZenonT(60)
  <2> QED  BY <2>1, <2>2
<1>4. CASE n = 1
  <2>1. b[1] = (v \div 1) % 256
    BY <1>2, <1>3, <1>4
  <2> QED  BY <1>1, <1>4, <1>n, <2>1 DEF Holds, b
<1>5. CASE n = 2
  <2>1. b[1] = (v \div 256) % 256 /\ b[2] = (v \div 1) % 256
    BY <1>2, <1>3, <1>5
  <2> QED  BY <1>1, <1>5, <1>n, <2>1 DEF Holds, b
<1>6. CASE n = 3
  <2>1. b[1] = (v \div 65536) % 256 /\ b[2] = (v \div 256) % 256 /\ b[3] = (v \div 1) % 256
    BY <1>2, <1>3, <1>6
  <2>2. v < 16777216
    BY <1>6 DEF Holds
  <2>3. Number(b) = 256 * (256 * b[1] + b[2]) + b[3]
    BY <1>6, <1>n
  <2>4. 256 * b[1] + b[2] = v \div 256
    BY <1>1, <2>1, <2>2
  <2>5. 256 * (v \div 256) + b[3] = v
    BY <1>1, <2>1
  <2> QED  BY <2>3, <2>4, <2>5 DEF b
<1>7. CASE n = 4
  <2>1. /\ b[1] = (v \div 16777216) % 256 /\ b[2] = (v \div 65536) % 256
        /\ b[3] = (v \div 256) % 256 /\ b[4] = (v \div 1) % 256
    BY <1>2, <1>3, <1>7
  <2>2. v =< 2147483647
    BY <1>7 DEF Holds
  <2>3. Number(b) = 256 * (256 * (256 * b[1] + b[2]) + b[3]) + b[4]
    BY <1>7, <1>n
  <2>4. 256 * b[1] + b[2] = v \div 65536
    BY <1>1, <2>1, <2>2
  <2>5. 256 * (v \div 65536) + b[3] = v \div 256
    BY <1>1, <2>1
  <2>6. 256 * (v \div 256) + b[4] = v
    BY <1>1, <2>1
  <2> QED  BY <2>3, <2>4, <2>5, <2>6 DEF b
<1> QED  BY <1>1, <1>4, <1>5, <1>6, <1>7

-----------------------------------------------------------------------------
(***************************************************************************)
(* NDN: types, lengths, elements.                                          *)
(***************************************************************************)
Count == {v \in Nat : v =< 2147483647}

LEMMA SmallCount == \A v \in 0..255 : v \in Count
BY SMT DEF Count

LEMMA LessCount == ASSUME NEW j \in Count, NEW i \in Nat, i =< j PROVE i \in Count
BY SMT DEF Count

(* The operators of each format that come from Octets are those of Formats. *)
LEMMA NdnOctets ==
  /\ \A n, v : NDN!BigEndian(n, v) = BigEndian(n, v)
  /\ \A b : NDN!Number(b) = Number(b)
  /\ \A b, n : NDN!Take(b, n) = Take(b, n) /\ NDN!Drop(b, n) = Drop(b, n)
<1>1. NDN!Weight = Weight
  BY DEF Weight, NDN!Weight
<1>2. ASSUME NEW n, NEW v PROVE NDN!BigEndian(n, v) = BigEndian(n, v)
  BY <1>1 DEF BigEndian, NDN!BigEndian
<1>3. ASSUME NEW b PROVE NDN!Number(b) = Number(b)
  BY Zenon DEF Number, Fold, NDN!Number, NDN!Fold
<1>4. ASSUME NEW b, NEW n PROVE NDN!Take(b, n) = Take(b, n) /\ NDN!Drop(b, n) = Drop(b, n)
  BY DEF Take, Drop, NDN!Take, NDN!Drop
<1> QED  BY <1>2, <1>3, <1>4

LEMMA NdnFlatten == \A s : NDN!FlattenSeq(s) = FlattenSeq(s)
BY Zenon DEF FlattenSeq, NDN!FlattenSeq

LEMMA NdnTypes ==
  /\ NDN!TLV.Interest = 5 /\ NDN!TLV.Data = 6 /\ NDN!TLV.Name = 7 /\ NDN!TLV.NameComponent = 8
  /\ NDN!TLV.Selectors = 9 /\ NDN!TLV.Nonce = 10 /\ NDN!TLV.Scope = 11 /\ NDN!TLV.InterestLifetime = 12
  /\ NDN!TLV.MinSuffixComponents = 13 /\ NDN!TLV.MaxSuffixComponents = 14 /\ NDN!TLV.MustBeFresh = 18
  /\ NDN!TLV.MetaInfo = 20 /\ NDN!TLV.Content = 21 /\ NDN!TLV.SignatureInfo = 22
  /\ NDN!TLV.SignatureValue = 23 /\ NDN!TLV.FreshnessPeriod = 25 /\ NDN!TLV.FinalBlockId = 26
  /\ NDN!TLV.SignatureType = 27 /\ NDN!SegmentMarker = 0 /\ NDN!None = -1
BY DEF NDN!TLV, NDN!SegmentMarker, NDN!None

(* A type or a length takes one octet to five. *)
LEMMA NdnTLval ==
  ASSUME NEW v \in Nat
  PROVE  NDN!TLval(v) \in Buffer /\ Len(NDN!TLval(v)) \in 1..5
<1>1. ASSUME NEW n \in 1..4, NEW o \in Octet, NDN!TLval(v) = <<o>> \o NDN!BigEndian(n, v)
      PROVE  NDN!TLval(v) \in Buffer /\ Len(NDN!TLval(v)) \in 1..5
  <2>1. BigEndian(n, v) \in Buffer /\ Len(BigEndian(n, v)) = n
    BY BigEndianOctets
  <2>2. <<o>> \o BigEndian(n, v) \in Buffer /\ Len(<<o>> \o BigEndian(n, v)) = n + 1
    BY <2>1, OneOctet
  <2> QED  BY <1>1, <2>2, NdnOctets
<1>2. CASE v < 253
  <2>1. v \in Octet /\ NDN!TLval(v) = <<v>>
    BY <1>2 DEF Octet, NDN!TLval
  <2>2. <<v>> \in Buffer /\ Len(<<v>>) = 1
    BY <2>1, BufferEmpty, OneOctet
  <2> QED  BY <2>1, <2>2
<1>3. CASE v >= 253 /\ v < 65536
  <2>1. NDN!TLval(v) = <<253>> \o NDN!BigEndian(2, v) /\ 253 \in Octet
    BY <1>3, SMT DEF NDN!TLval, Octet
  <2> QED  BY <1>1, <2>1, SMTT(40)
<1>4. CASE v >= 65536
  <2>1. NDN!TLval(v) = <<254>> \o NDN!BigEndian(4, v) /\ 254 \in Octet
    BY <1>4, SMT DEF NDN!TLval, Octet
  <2> QED  BY <1>1, <2>1, SMT
<1> QED  BY <1>2, <1>3, <1>4, SMT

(* The octet before a number of n octets *)
Marks(o, n) == o \in Octet /\ ((n = 2 /\ o = 253) \/ (n = 4 /\ o = 254))

LEMMA NdnLongNumber ==
  ASSUME NEW n, NEW o, Marks(o, n), NEW e \in Buffer, Len(e) = n, NEW r \in Buffer
  PROVE  NDN!Varlenint((<<o>> \o e) \o r) = {[val |-> Number(e), rest |-> r]}
<1>0. o \in Octet /\ ((n = 2 /\ o = 253) \/ (n = 4 /\ o = 254))
  BY DEF Marks
<1>1. <<o>> \in Buffer /\ Len(<<o>>) = 1 /\ <<o>> \o e \in Buffer /\ Len(<<o>> \o e) = n + 1 /\ (<<o>> \o e)[1] = o
  BY <1>0, OneOctet
<1>2. PICK b : b = (<<o>> \o e) \o r
  OBVIOUS
<1>3. /\ b \in Buffer /\ Len(b) = n + 1 + Len(r) /\ b[1] = o /\ b # <<>>
  <2>1. /\ b \in Buffer /\ Len(b) = Len(<<o>> \o e) + Len(r)
        /\ \A k \in 1..Len(<<o>> \o e) : b[k] = (<<o>> \o e)[k]
    BY <1>1, <1>2, BufferConcat
  <2>2. Len(r) \in Nat /\ 1 \in 1..Len(<<o>> \o e)
    BY <1>0, <1>1, BufferLen
  <2>3. b[1] = o
    BY <1>1, <2>1, <2>2
  <2>4. Len(b) # 0
    BY <1>0, <1>1, <2>1, <2>2
  <2> QED  BY <1>1, <2>1, <2>3, <2>4, BufferLen
<1>4. NDN!Drop(b, n + 1) = r
  BY <1>1, <1>2, TakeDrop, NdnOctets
<1>5. SubSeq(b, 2, n + 1) = e
  <2>1. SubSeq((<<o>> \o e) \o r, Len(<<o>>) + 1, Len(<<o>>) + Len(e)) = e
    BY <1>1, Middle
  <2>2. Len(<<o>>) + 1 = 2 /\ Len(<<o>>) + Len(e) = n + 1
    BY <1>0, <1>1
  <2> QED  BY <1>2, <2>1, <2>2
<1>6. Len(r) \in Nat
  BY BufferLen
<1> DEFINE at(m) == {[val |-> NDN!Number(SubSeq(b, 2, m)), rest |-> NDN!Drop(b, m)]}
<1>7. NDN!Varlenint(b) = at(n + 1)
  <2>1. CASE n = 2
    <3>1. o = 253 /\ ~ (b[1] < 253) /\ b[1] = 253 /\ Len(b) >= 3 /\ n + 1 = 3 /\ ~ (b[1] = 254)
      BY <1>0, <1>3, <1>6, <2>1
    <3>2. NDN!Varlenint(b) = at(3)
      BY <1>3, <3>1, Zenon DEF NDN!Varlenint
    <3> QED  BY <3>1, <3>2, Zenon
  <2>2. CASE n = 4
    <3>1. o = 254 /\ ~ (b[1] < 253) /\ b[1] = 254 /\ Len(b) >= 5 /\ n + 1 = 5 /\ ~ (b[1] = 253)
      BY <1>0, <1>3, <1>6, <2>2
    <3>2. NDN!Varlenint(b) = at(5)
      BY <1>3, <3>1, Zenon DEF NDN!Varlenint
    <3> QED  BY <3>1, <3>2, Zenon
  <2> QED  BY <1>0, <2>1, <2>2
<1>8. at(n + 1) = {[val |-> Number(e), rest |-> r]}
  BY <1>4, <1>5, NdnOctets, Zenon
<1> QED  BY <1>2, <1>7, <1>8, Zenon

(* A type or a length is read as it was written. *)
LEMMA NdnVarlenint ==
  ASSUME NEW v \in Count, NEW r \in Buffer
  PROVE  NDN!Varlenint(NDN!TLval(v) \o r) = {[val |-> v, rest |-> r]}
<1>0. v \in Nat /\ v =< 2147483647
  BY SMT DEF Count
<1>1. ASSUME NEW n, NEW o, Marks(o, n), Holds(n, v), NDN!TLval(v) = <<o>> \o NDN!BigEndian(n, v)
      PROVE  NDN!Varlenint(NDN!TLval(v) \o r) = {[val |-> v, rest |-> r]}
  <2>1. n \in 1..4 /\ v \in Nat
    BY <1>1 DEF Holds
  <2>2. PICK e : e = BigEndian(n, v) /\ NDN!TLval(v) = <<o>> \o e
    BY <1>1, NdnOctets
  <2>3. e \in Buffer /\ Len(e) = n
    BY <2>1, <2>2, BigEndianOctets
  <2>4. Number(e) = v
    BY <1>1, <2>2, BigEndianNumber
  <2>5. NDN!Varlenint((<<o>> \o e) \o r) = {[val |-> Number(e), rest |-> r]}
    BY <1>1, <2>3, NdnLongNumber
  <2> QED  BY <2>2, <2>4, <2>5
<1>2. CASE v < 253
  <2>1. v \in Octet /\ NDN!TLval(v) = <<v>>
    BY <1>0, <1>2, SMT DEF Octet, NDN!TLval
  <2>2. PICK b : b = <<v>> \o r
    OBVIOUS
  <2>3. b[1] = v /\ Tail(b) = r /\ b # <<>> /\ b[1] < 253
    BY <1>2, <2>1, <2>2, OneOctet
  <2>4. b[1] # 253 /\ b[1] # 254
    BY <1>0, <1>2, <2>3, SMT
  <2>5. NDN!Varlenint(b) = {[val |-> b[1], rest |-> Tail(b)]}
    BY <2>3, <2>4, Zenon DEF NDN!Varlenint
  <2> QED  BY <2>1, <2>2, <2>3, <2>5, Zenon
<1>3. CASE v >= 253 /\ v < 65536
  <2>1. NDN!TLval(v) = <<253>> \o NDN!BigEndian(2, v) /\ Marks(253, 2) /\ Holds(2, v)
    BY <1>0, <1>3, SMT DEF NDN!TLval, Octet, Marks, Holds
  <2> QED  BY <1>1, <2>1, SMT
<1>4. CASE v >= 65536
  <2>1. NDN!TLval(v) = <<254>> \o NDN!BigEndian(4, v) /\ Marks(254, 4) /\ Holds(4, v)
    BY <1>0, <1>4, SMT DEF NDN!TLval, Octet, Marks, Holds
  <2> QED  BY <1>1, <2>1, SMT
<1> QED  BY <1>0, <1>2, <1>3, <1>4, SMT

LEMMA NdnBlob ==
  ASSUME NEW type \in Count, NEW b \in Buffer
  PROVE  NDN!Blob(type, b) \in Buffer /\ Len(NDN!Blob(type, b)) >= Len(b) + 2
<1>0. type \in Nat /\ Len(b) \in Nat
  BY BufferLen, SMT DEF Count
<1>1. PICK t, l : t = NDN!TLval(type) /\ l = NDN!TLval(Len(b))
  OBVIOUS
<1>2. t \in Buffer /\ Len(t) \in 1..5 /\ l \in Buffer /\ Len(l) \in 1..5
  BY <1>0, <1>1, NdnTLval
<1>3. t \o l \in Buffer /\ Len(t \o l) = Len(t) + Len(l)
  BY <1>2, BufferConcat
<1>4. (t \o l) \o b \in Buffer /\ Len((t \o l) \o b) = Len(t \o l) + Len(b)
  BY <1>3, BufferConcat
<1>5. NDN!Blob(type, b) = (t \o l) \o b
  BY <1>1 DEF NDN!Blob
<1>6. \A i, j \in 1..5, n \in Nat : (i + j) + n >= n + 2
  OBVIOUS
<1> QED  BY <1>0, <1>2, <1>3, <1>4, <1>5, <1>6, Zenon

(* An element is read as it was written, and what follows it is left. *)
LEMMA NdnDehead ==
  ASSUME NEW type \in Count, NEW b \in Buffer, Len(b) \in Count, NEW r \in Buffer
  PROVE  NDN!Dehead(NDN!Blob(type, b) \o r) = {[type |-> type, val |-> b, rest |-> r]}
<1>0. type \in Nat /\ Len(b) \in Nat
  BY SMT DEF Count
<1>1. PICK n, t, l : n = Len(b) /\ t = NDN!TLval(type) /\ l = NDN!TLval(n)
  OBVIOUS
<1>2. t \in Buffer /\ l \in Buffer /\ n \in Count /\ n \in Nat
  BY <1>0, <1>1, NdnTLval
<1>3. PICK c, d, a : c = b \o r /\ d = l \o c /\ a = t \o d
  OBVIOUS
<1>4. c \in Buffer /\ Len(c) = n + Len(r)
  BY <1>1, <1>3, BufferConcat
<1>5. d \in Buffer
  BY <1>2, <1>3, <1>4, BufferConcat
<1>6. NDN!Blob(type, b) \o r = a
  <2>1. NDN!Blob(type, b) = (t \o l) \o b
    BY <1>1 DEF NDN!Blob
  <2>2. t \o l \in Buffer
    BY <1>2, BufferConcat
  <2>3. ((t \o l) \o b) \o r = (t \o l) \o c
    BY <1>3, <2>2, BufferAssociative
  <2>4. (t \o l) \o c = t \o (l \o c)
    BY <1>2, <1>4, BufferAssociative, SMTT(40)
  <2> QED  BY <1>3, <2>1, <2>3, <2>4
<1>7. NDN!Varlenint(a) = {[val |-> type, rest |-> d]}
  BY <1>1, <1>3, <1>5, NdnVarlenint
<1>8. NDN!Varlenint(d) = {[val |-> n, rest |-> c]}
  BY <1>1, <1>2, <1>3, <1>4, NdnVarlenint
<1>9. NDN!Take(c, n) = b /\ NDN!Drop(c, n) = r
  BY <1>1, <1>3, TakeDrop, NdnOctets
<1>10. n =< Len(c)
  <2>1. Len(r) \in Nat
    BY BufferLen
  <2> QED  BY <1>2, <1>4, <2>1
<1> DEFINE f(t1, l1) == [type |-> t1.val, val |-> NDN!Take(l1.rest, l1.val), rest |-> NDN!Drop(l1.rest, l1.val)]
           inner(t1) == UNION {IF l1.val =< Len(l1.rest) THEN {f(t1, l1)} ELSE {} : l1 \in NDN!Varlenint(t1.rest)}
           tt == [val |-> type, rest |-> d]
           ll == [val |-> n, rest |-> c]
<1>11. NDN!Dehead(a) = UNION {inner(t1) : t1 \in NDN!Varlenint(a)}
  BY Zenon DEF NDN!Dehead, NDN!AndThen, NDN!Only
<1>12. tt.val = type /\ tt.rest = d /\ ll.val = n /\ ll.rest = c
  OBVIOUS
<1> HIDE DEF tt, ll
<1>13. f(tt, ll) = [type |-> type, val |-> b, rest |-> r]
  BY <1>9, <1>12
<1> HIDE DEF f
<1>14. inner(tt) = {f(tt, ll)}
  <2>1. NDN!Varlenint(tt.rest) = {ll}
    BY <1>8, <1>12 DEF ll
  <2>2. ll.val =< Len(ll.rest)
    BY <1>10, <1>12
  <2> QED  BY <2>1, <2>2
<1> HIDE DEF inner
<1>15. NDN!Varlenint(a) = {tt}
  BY <1>7 DEF tt
<1>16. NDN!Dehead(a) = inner(tt)
  BY <1>11, <1>15
<1> QED  BY <1>6, <1>13, <1>14, <1>16

-----------------------------------------------------------------------------
(***************************************************************************)
(* Elements read one after another: from p to q over the whole of b, in n  *)
(* turns through the states S.                                             *)
(***************************************************************************)
Reading(dehead(_), read(_, _), b, p, q, n, S) ==
  /\ n \in 0..Len(b)
  /\ S[0] = [out |-> p, rest |-> b] /\ S[n] = [out |-> q, rest |-> <<>>]
  /\ \A k \in 0..n - 1 :
       /\ S[k].rest # <<>>
       /\ \E f : /\ dehead(S[k].rest) = {f}
                 /\ \E o : read(S[k].out, f) = {o} /\ S[k + 1] = [out |-> o, rest |-> f.rest]
Reads(dehead(_), read(_, _), b, p, q) == \E n, S : Reading(dehead, read, b, p, q, n, S)

(* For each kind of element: what reads is what Scan gives, a first element may go
   before the others, and nothing is read of nothing. *)

LEMMA NdnFieldsRead ==
  ASSUME NEW b \in Buffer, NEW p, NEW q, Reads(NDN!Dehead, NDN!ReadField, b, p, q)
  PROVE  NDN!Scan(NDN!Dehead, NDN!ReadField, b, p) = {q}
<1>1. PICK n, S : Reading(NDN!Dehead, NDN!ReadField, b, p, q, n, S)
  BY Zenon DEF Reads
<1> DEFINE start == [out |-> p, rest |-> b]
<1>2. /\ n \in 0..Len(b)
      /\ S[0] = [out |-> p, rest |-> b] /\ S[n] = [out |-> q, rest |-> <<>>]
      /\ \A k \in 0..n - 1 :
           /\ S[k].rest # <<>>
           /\ \E f : /\ NDN!Dehead(S[k].rest) = {f}
                     /\ \E o : NDN!ReadField(S[k].out, f) = {o} /\ S[k + 1] = [out |-> o, rest |-> f.rest]
  BY <1>1, Zenon DEF Reading
<1>3. PICK N : N = Len(b) /\ N \in Nat
  BY BufferLen
<1> DEFINE read(s, f) == UNION {{[out |-> o, rest |-> f.rest]} : o \in NDN!ReadField(s.out, f)}
           turn(s) == IF s.rest = <<>> THEN {s} ELSE UNION {read(s, f) : f \in NDN!Dehead(s.rest)}
           turns(ss) == UNION {turn(s) : s \in ss}
           last(ss) == {s.out : s \in {t \in ss : t.rest = <<>>}}
           made(g) == g = [k \in 0..N |-> IF k = 0 THEN {start} ELSE turns(g[k - 1])]
           end(g) == g[CHOOSE k \in 0..N : k = N \/ turns(g[k]) = g[k]]
<1>4. NDN!Scan(NDN!Dehead, NDN!ReadField, b, p) = last(end(CHOOSE g : made(g)))
  BY <1>3, Zenon DEF NDN!Scan, NDN!Loop, NDN!AndThen
<1> HIDE DEF last
<1>5. ASSUME NEW k \in 0..n - 1 PROVE turn(S[k]) = {S[k + 1]}
  <2>1. PICK f : NDN!Dehead(S[k].rest) = {f}
                 /\ \E o : NDN!ReadField(S[k].out, f) = {o} /\ S[k + 1] = [out |-> o, rest |-> f.rest]
    BY <1>2
  <2>2. PICK o : NDN!ReadField(S[k].out, f) = {o} /\ S[k + 1] = [out |-> o, rest |-> f.rest]
    BY <2>1
  <2>3. read(S[k], f) = {S[k + 1]}
    BY <2>2
  <2> HIDE DEF read
  <2>4. S[k].rest # <<>>
    BY <1>2
  <2> QED  BY <2>1, <2>3, <2>4
<1>6. turn(S[n]) = {S[n]}
  BY <1>2
<1> HIDE DEF turn
<1>7. ASSUME NEW s PROVE turns({s}) = turn(s)
  OBVIOUS
<1> HIDE DEF turns
<1> DEFINE D(g) == [k \in 0..N |-> IF k = 0 THEN {start} ELSE turns(g[k - 1])]
           loop == CHOOSE g : g = D(g)
<1>8. loop = D(loop)
  <2> DEFINE g == [k \in 0..N |-> IF k < n THEN {S[k]} ELSE {S[n]}]
  <2>1. ASSUME NEW k \in 0..N PROVE g[k] = IF k = 0 THEN {start} ELSE turns(g[k - 1])
    <3>1. CASE k = 0
      BY <1>2, <1>3, <3>1
    <3>2. CASE k # 0 /\ k - 1 < n
      <4>1. k - 1 \in 0..n - 1 /\ k - 1 \in 0..N /\ k - 1 + 1 = k
        BY <1>2, <1>3, <3>2
      <4>2. g[k - 1] = {S[k - 1]} /\ g[k] = {S[k]}
        BY <1>2, <1>3, <3>2, <4>1
      <4>3. turn(S[k - 1]) = {S[k - 1 + 1]}
        BY <1>5, <4>1
      <4> HIDE DEF g
      <4>4. turns(g[k - 1]) = {S[k]}
        BY <1>7, <4>1, <4>2, <4>3
      <4> QED  BY <3>2, <4>2, <4>4
    <3>3. CASE k # 0 /\ ~ (k - 1 < n)
      <4>1. k - 1 \in 0..N /\ ~ (k < n)
        BY <1>2, <1>3, <3>3
      <4>2. g[k - 1] = {S[n]} /\ g[k] = {S[n]}
        BY <3>3, <4>1
      <4> HIDE DEF g
      <4> QED  BY <1>6, <1>7, <3>3, <4>2
    <3> QED  BY <3>1, <3>2, <3>3
  <2>2. g = [k \in 0..N |-> g[k]]
    OBVIOUS
  <2> HIDE DEF g
  <2>3. g = D(g)
    BY <2>1, <2>2
  <2> HIDE DEF D
  <2> QED  BY <2>3, Zenon
<1>9. PICK after : after = loop
  OBVIOUS
<1>10. \A k \in 0..N : after[k] = IF k = 0 THEN {start} ELSE turns(after[k - 1])
  <2>1. after = D(after)
    BY <1>8, <1>9, Zenon
  <2> HIDE DEF loop
  <2>2. ASSUME NEW k \in 0..N PROVE D(after)[k] = IF k = 0 THEN {start} ELSE turns(after[k - 1])
    OBVIOUS
  <2> HIDE DEF D
  <2> QED  BY <2>1, <2>2
<1> HIDE DEF loop, D
<1> DEFINE T == [k \in 0..N |-> turns(after[k])]
<1>11. RunsThrough(N, n, after, T, S)
  <2>1. \A k \in 0..N : T[k] = turns(after[k])
    OBVIOUS
  <2> HIDE DEF T
  <2>2. N \in Nat /\ n \in 0..N /\ after[0] = {S[0]}
    BY <1>2, <1>3, <1>10
  <2>3. ASSUME NEW k \in 1..N PROVE after[k] = T[k - 1]
    <3>1. k \in 0..N /\ k - 1 \in 0..N /\ k # 0
      BY <1>3
    <3> QED  BY <1>10, <2>1, <3>1
  <2>4. ASSUME NEW k \in 0..N, k < n, after[k] = {S[k]} PROVE T[k] = {S[k + 1]}
    <3>1. k \in 0..n - 1
      BY <1>2, <1>3, <2>4
    <3>2. turn(S[k]) = {S[k + 1]}
      BY <1>5, <3>1
    <3> QED  BY <1>7, <2>1, <2>4, <3>2
  <2>5. ASSUME NEW k \in 0..N, after[k] = {S[n]} PROVE T[k] = {S[n]}
    BY <1>6, <1>7, <2>1, <2>5
  <2>6. ASSUME NEW j \in 0..N, NEW k \in 0..N, after[j] = after[k] PROVE T[j] = T[k]
    BY <2>1, <2>6
  <2> QED  BY <2>2, <2>3, <2>4, <2>5, <2>6 DEF RunsThrough
<1>12. after[CHOOSE k \in 0..N : k = N \/ T[k] = after[k]] = {S[n]}
  <2> HIDE DEF T
  <2> QED  BY <1>11, LoopEnds
<1> DEFINE at(g) == g[CHOOSE k \in 0..N : k = N \/ turns(g[k]) = g[k]]
<1>13. at(after) = {S[n]}
  <2>1. \A k \in 0..N : T[k] = turns(after[k])
    OBVIOUS
  <2> HIDE DEF T
  <2> QED  BY <1>12, <2>1
<1>14. end(CHOOSE g : made(g)) = at(after)
  BY <1>9, ZenonT(60) DEF loop, D
<1> HIDE DEF at, end, made
<1>15. last({S[n]}) = {q}
  BY <1>2 DEF last
<1> QED  BY <1>4, <1>13, <1>14, <1>15

LEMMA NdnFieldFirst ==
  ASSUME NEW b \in Buffer, NEW f, NEW p, NEW p1, NEW q,
         NDN!Dehead(b) = {f}, NDN!ReadField(p, f) = {p1}, f.rest \in Buffer, Len(f.rest) < Len(b),
         Reads(NDN!Dehead, NDN!ReadField, f.rest, p1, q)
  PROVE  Reads(NDN!Dehead, NDN!ReadField, b, p, q)
<1>1. PICK n, S : Reading(NDN!Dehead, NDN!ReadField, f.rest, p1, q, n, S)
  BY Zenon DEF Reads
<1>2. /\ n \in 0..Len(f.rest)
      /\ S[0] = [out |-> p1, rest |-> f.rest] /\ S[n] = [out |-> q, rest |-> <<>>]
      /\ \A k \in 0..n - 1 :
           /\ S[k].rest # <<>>
           /\ \E g : /\ NDN!Dehead(S[k].rest) = {g}
                     /\ \E o : NDN!ReadField(S[k].out, g) = {o} /\ S[k + 1] = [out |-> o, rest |-> g.rest]
  BY <1>1, Zenon DEF Reading
<1>3. Len(b) \in Nat /\ Len(f.rest) \in Nat /\ b # <<>>
  BY BufferLen
<1>m. PICK m : m = n + 1
  OBVIOUS
<1> DEFINE U == [k \in 0..m |-> IF k = 0 THEN [out |-> p, rest |-> b] ELSE S[k - 1]]
<1>4. m \in 0..Len(b) /\ n \in Nat
  BY <1>2, <1>3, <1>m
<1>5. U[0] = [out |-> p, rest |-> b] /\ U[m] = [out |-> q, rest |-> <<>>]
  BY <1>2, <1>3, <1>m
<1>6. ASSUME NEW k \in 0..m - 1
      PROVE  /\ U[k].rest # <<>>
             /\ \E g : /\ NDN!Dehead(U[k].rest) = {g}
                       /\ \E o : NDN!ReadField(U[k].out, g) = {o} /\ U[k + 1] = [out |-> o, rest |-> g.rest]
  <2>1. CASE k = 0
    <3>1. U[k + 1] = [out |-> p1, rest |-> f.rest] /\ U[k].rest = b /\ U[k].out = p
      BY <1>2, <1>4, <1>m, <2>1
    <3> HIDE DEF U
    <3> QED  BY <1>3, <3>1
  <2>2. CASE k # 0
    <3>1. k - 1 \in 0..n - 1 /\ k \in 0..m /\ k + 1 \in 0..m /\ k + 1 # 0 /\ k + 1 - 1 = k - 1 + 1
      BY <1>4, <1>m, <2>2
    <3>2. U[k] = S[k - 1] /\ U[k + 1] = S[k - 1 + 1]
      <4>1. U[k + 1] = S[k + 1 - 1]
        BY <3>1
      <4> QED  BY <2>2, <3>1, <4>1
    <3> HIDE DEF U
    <3> QED  BY <1>2, <3>1, <3>2, ZenonT(60)
  <2> QED  BY <2>1, <2>2
<1> HIDE DEF U
<1>7. /\ m \in 0..Len(b)
      /\ U[0] = [out |-> p, rest |-> b] /\ U[m] = [out |-> q, rest |-> <<>>]
      /\ \A k \in 0..m - 1 :
           /\ U[k].rest # <<>>
           /\ \E g : /\ NDN!Dehead(U[k].rest) = {g}
                     /\ \E o : NDN!ReadField(U[k].out, g) = {o} /\ U[k + 1] = [out |-> o, rest |-> g.rest]
  BY <1>4, <1>5, <1>6, Zenon
<1>8. Reading(NDN!Dehead, NDN!ReadField, b, p, q, m, U)
  BY <1>7, Zenon DEF Reading
<1> QED  BY <1>8, Zenon DEF Reads

LEMMA NdnNoField == ASSUME NEW p PROVE Reads(NDN!Dehead, NDN!ReadField, <<>>, p, p)
<1> DEFINE S == [k \in 0..0 |-> [out |-> p, rest |-> <<>>]]
<1>1. /\ 0 \in 0..Len(<<>>)
      /\ S[0] = [out |-> p, rest |-> <<>>]
      /\ \A k \in 0..0 - 1 : FALSE
  BY BufferEmpty
<1> HIDE DEF S
<1>2. Reading(NDN!Dehead, NDN!ReadField, <<>>, p, p, 0, S)
  BY <1>1, ZenonT(60) DEF Reading
<1> QED  BY <1>2, Zenon DEF Reads

LEMMA NdnComponentsRead ==
  ASSUME NEW b \in Buffer, NEW p, NEW q, Reads(NDN!Dehead, NDN!AddComponent, b, p, q)
  PROVE  NDN!Scan(NDN!Dehead, NDN!AddComponent, b, p) = {q}
<1>1. PICK n, S : Reading(NDN!Dehead, NDN!AddComponent, b, p, q, n, S)
  BY Zenon DEF Reads
<1> DEFINE start == [out |-> p, rest |-> b]
<1>2. /\ n \in 0..Len(b)
      /\ S[0] = [out |-> p, rest |-> b] /\ S[n] = [out |-> q, rest |-> <<>>]
      /\ \A k \in 0..n - 1 :
           /\ S[k].rest # <<>>
           /\ \E f : /\ NDN!Dehead(S[k].rest) = {f}
                     /\ \E o : NDN!AddComponent(S[k].out, f) = {o} /\ S[k + 1] = [out |-> o, rest |-> f.rest]
  BY <1>1, Zenon DEF Reading
<1>3. PICK N : N = Len(b) /\ N \in Nat
  BY BufferLen
<1> DEFINE read(s, f) == UNION {{[out |-> o, rest |-> f.rest]} : o \in NDN!AddComponent(s.out, f)}
           turn(s) == IF s.rest = <<>> THEN {s} ELSE UNION {read(s, f) : f \in NDN!Dehead(s.rest)}
           turns(ss) == UNION {turn(s) : s \in ss}
           last(ss) == {s.out : s \in {t \in ss : t.rest = <<>>}}
           made(g) == g = [k \in 0..N |-> IF k = 0 THEN {start} ELSE turns(g[k - 1])]
           end(g) == g[CHOOSE k \in 0..N : k = N \/ turns(g[k]) = g[k]]
<1>4. NDN!Scan(NDN!Dehead, NDN!AddComponent, b, p) = last(end(CHOOSE g : made(g)))
  BY <1>3, Zenon DEF NDN!Scan, NDN!Loop, NDN!AndThen
<1> HIDE DEF last
<1>5. ASSUME NEW k \in 0..n - 1 PROVE turn(S[k]) = {S[k + 1]}
  <2>1. PICK f : NDN!Dehead(S[k].rest) = {f}
                 /\ \E o : NDN!AddComponent(S[k].out, f) = {o} /\ S[k + 1] = [out |-> o, rest |-> f.rest]
    BY <1>2
  <2>2. PICK o : NDN!AddComponent(S[k].out, f) = {o} /\ S[k + 1] = [out |-> o, rest |-> f.rest]
    BY <2>1
  <2>3. read(S[k], f) = {S[k + 1]}
    BY <2>2
  <2> HIDE DEF read
  <2>4. S[k].rest # <<>>
    BY <1>2
  <2> QED  BY <2>1, <2>3, <2>4
<1>6. turn(S[n]) = {S[n]}
  BY <1>2
<1> HIDE DEF turn
<1>7. ASSUME NEW s PROVE turns({s}) = turn(s)
  OBVIOUS
<1> HIDE DEF turns
<1> DEFINE D(g) == [k \in 0..N |-> IF k = 0 THEN {start} ELSE turns(g[k - 1])]
           loop == CHOOSE g : g = D(g)
<1>8. loop = D(loop)
  <2> DEFINE g == [k \in 0..N |-> IF k < n THEN {S[k]} ELSE {S[n]}]
  <2>1. ASSUME NEW k \in 0..N PROVE g[k] = IF k = 0 THEN {start} ELSE turns(g[k - 1])
    <3>1. CASE k = 0
      BY <1>2, <1>3, <3>1
    <3>2. CASE k # 0 /\ k - 1 < n
      <4>1. k - 1 \in 0..n - 1 /\ k - 1 \in 0..N /\ k - 1 + 1 = k
        BY <1>2, <1>3, <3>2
      <4>2. g[k - 1] = {S[k - 1]} /\ g[k] = {S[k]}
        BY <1>2, <1>3, <3>2, <4>1
      <4>3. turn(S[k - 1]) = {S[k - 1 + 1]}
        BY <1>5, <4>1
      <4> HIDE DEF g
      <4>4. turns(g[k - 1]) = {S[k]}
        BY <1>7, <4>1, <4>2, <4>3
      <4> QED  BY <3>2, <4>2, <4>4
    <3>3. CASE k # 0 /\ ~ (k - 1 < n)
      <4>1. k - 1 \in 0..N /\ ~ (k < n)
        BY <1>2, <1>3, <3>3
      <4>2. g[k - 1] = {S[n]} /\ g[k] = {S[n]}
        BY <3>3, <4>1
      <4> HIDE DEF g
      <4> QED  BY <1>6, <1>7, <3>3, <4>2
    <3> QED  BY <3>1, <3>2, <3>3
  <2>2. g = [k \in 0..N |-> g[k]]
    OBVIOUS
  <2> HIDE DEF g
  <2>3. g = D(g)
    BY <2>1, <2>2
  <2> HIDE DEF D
  <2> QED  BY <2>3, Zenon
<1>9. PICK after : after = loop
  OBVIOUS
<1>10. \A k \in 0..N : after[k] = IF k = 0 THEN {start} ELSE turns(after[k - 1])
  <2>1. after = D(after)
    BY <1>8, <1>9, Zenon
  <2> HIDE DEF loop
  <2>2. ASSUME NEW k \in 0..N PROVE D(after)[k] = IF k = 0 THEN {start} ELSE turns(after[k - 1])
    OBVIOUS
  <2> HIDE DEF D
  <2> QED  BY <2>1, <2>2
<1> HIDE DEF loop, D
<1> DEFINE T == [k \in 0..N |-> turns(after[k])]
<1>11. RunsThrough(N, n, after, T, S)
  <2>1. \A k \in 0..N : T[k] = turns(after[k])
    OBVIOUS
  <2> HIDE DEF T
  <2>2. N \in Nat /\ n \in 0..N /\ after[0] = {S[0]}
    BY <1>2, <1>3, <1>10
  <2>3. ASSUME NEW k \in 1..N PROVE after[k] = T[k - 1]
    <3>1. k \in 0..N /\ k - 1 \in 0..N /\ k # 0
      BY <1>3
    <3> QED  BY <1>10, <2>1, <3>1
  <2>4. ASSUME NEW k \in 0..N, k < n, after[k] = {S[k]} PROVE T[k] = {S[k + 1]}
    <3>1. k \in 0..n - 1
      BY <1>2, <1>3, <2>4
    <3>2. turn(S[k]) = {S[k + 1]}
      BY <1>5, <3>1
    <3> QED  BY <1>7, <2>1, <2>4, <3>2
  <2>5. ASSUME NEW k \in 0..N, after[k] = {S[n]} PROVE T[k] = {S[n]}
    BY <1>6, <1>7, <2>1, <2>5
  <2>6. ASSUME NEW j \in 0..N, NEW k \in 0..N, after[j] = after[k] PROVE T[j] = T[k]
    BY <2>1, <2>6
  <2> QED  BY <2>2, <2>3, <2>4, <2>5, <2>6 DEF RunsThrough
<1>12. after[CHOOSE k \in 0..N : k = N \/ T[k] = after[k]] = {S[n]}
  <2> HIDE DEF T
  <2> QED  BY <1>11, LoopEnds
<1> DEFINE at(g) == g[CHOOSE k \in 0..N : k = N \/ turns(g[k]) = g[k]]
<1>13. at(after) = {S[n]}
  <2>1. \A k \in 0..N : T[k] = turns(after[k])
    OBVIOUS
  <2> HIDE DEF T
  <2> QED  BY <1>12, <2>1
<1>14. end(CHOOSE g : made(g)) = at(after)
  BY <1>9, ZenonT(60) DEF loop, D
<1> HIDE DEF at, end, made
<1>15. last({S[n]}) = {q}
  BY <1>2 DEF last
<1> QED  BY <1>4, <1>13, <1>14, <1>15

LEMMA NdnComponentFirst ==
  ASSUME NEW b \in Buffer, NEW f, NEW p, NEW p1, NEW q,
         NDN!Dehead(b) = {f}, NDN!AddComponent(p, f) = {p1}, f.rest \in Buffer, Len(f.rest) < Len(b),
         Reads(NDN!Dehead, NDN!AddComponent, f.rest, p1, q)
  PROVE  Reads(NDN!Dehead, NDN!AddComponent, b, p, q)
<1>1. PICK n, S : Reading(NDN!Dehead, NDN!AddComponent, f.rest, p1, q, n, S)
  BY Zenon DEF Reads
<1>2. /\ n \in 0..Len(f.rest)
      /\ S[0] = [out |-> p1, rest |-> f.rest] /\ S[n] = [out |-> q, rest |-> <<>>]
      /\ \A k \in 0..n - 1 :
           /\ S[k].rest # <<>>
           /\ \E g : /\ NDN!Dehead(S[k].rest) = {g}
                     /\ \E o : NDN!AddComponent(S[k].out, g) = {o} /\ S[k + 1] = [out |-> o, rest |-> g.rest]
  BY <1>1, Zenon DEF Reading
<1>3. Len(b) \in Nat /\ Len(f.rest) \in Nat /\ b # <<>>
  BY BufferLen
<1>m. PICK m : m = n + 1
  OBVIOUS
<1> DEFINE U == [k \in 0..m |-> IF k = 0 THEN [out |-> p, rest |-> b] ELSE S[k - 1]]
<1>4. m \in 0..Len(b) /\ n \in Nat
  BY <1>2, <1>3, <1>m
<1>5. U[0] = [out |-> p, rest |-> b] /\ U[m] = [out |-> q, rest |-> <<>>]
  BY <1>2, <1>3, <1>m
<1>6. ASSUME NEW k \in 0..m - 1
      PROVE  /\ U[k].rest # <<>>
             /\ \E g : /\ NDN!Dehead(U[k].rest) = {g}
                       /\ \E o : NDN!AddComponent(U[k].out, g) = {o} /\ U[k + 1] = [out |-> o, rest |-> g.rest]
  <2>1. CASE k = 0
    <3>1. U[k + 1] = [out |-> p1, rest |-> f.rest] /\ U[k].rest = b /\ U[k].out = p
      BY <1>2, <1>4, <1>m, <2>1
    <3> HIDE DEF U
    <3> QED  BY <1>3, <3>1
  <2>2. CASE k # 0
    <3>1. k - 1 \in 0..n - 1 /\ k \in 0..m /\ k + 1 \in 0..m /\ k + 1 # 0 /\ k + 1 - 1 = k - 1 + 1
      BY <1>4, <1>m, <2>2
    <3>2. U[k] = S[k - 1] /\ U[k + 1] = S[k - 1 + 1]
      <4>1. U[k + 1] = S[k + 1 - 1]
        BY <3>1
      <4> QED  BY <2>2, <3>1, <4>1
    <3> HIDE DEF U
    <3> QED  BY <1>2, <3>1, <3>2
  <2> QED  BY <2>1, <2>2
<1> HIDE DEF U
<1>7. /\ m \in 0..Len(b)
      /\ U[0] = [out |-> p, rest |-> b] /\ U[m] = [out |-> q, rest |-> <<>>]
      /\ \A k \in 0..m - 1 :
           /\ U[k].rest # <<>>
           /\ \E g : /\ NDN!Dehead(U[k].rest) = {g}
                     /\ \E o : NDN!AddComponent(U[k].out, g) = {o} /\ U[k + 1] = [out |-> o, rest |-> g.rest]
  BY <1>4, <1>5, <1>6, Zenon
<1>8. Reading(NDN!Dehead, NDN!AddComponent, b, p, q, m, U)
  BY <1>7, Zenon DEF Reading
<1> QED  BY <1>8, Zenon DEF Reads

LEMMA NdnNoComponent == ASSUME NEW p PROVE Reads(NDN!Dehead, NDN!AddComponent, <<>>, p, p)
<1> DEFINE S == [k \in 0..0 |-> [out |-> p, rest |-> <<>>]]
<1>1. /\ 0 \in 0..Len(<<>>)
      /\ S[0] = [out |-> p, rest |-> <<>>]
      /\ \A k \in 0..0 - 1 : FALSE
  BY BufferEmpty
<1> HIDE DEF S
<1>2. Reading(NDN!Dehead, NDN!AddComponent, <<>>, p, p, 0, S)
  BY <1>1, Zenon DEF Reading
<1> QED  BY <1>2, Zenon DEF Reads

LEMMA NdnSelectorsRead ==
  ASSUME NEW b \in Buffer, NEW p, NEW q, Reads(NDN!Dehead, NDN!ReadSelector, b, p, q)
  PROVE  NDN!Scan(NDN!Dehead, NDN!ReadSelector, b, p) = {q}
<1>1. PICK n, S : Reading(NDN!Dehead, NDN!ReadSelector, b, p, q, n, S)
  BY Zenon DEF Reads
<1> DEFINE start == [out |-> p, rest |-> b]
<1>2. /\ n \in 0..Len(b)
      /\ S[0] = [out |-> p, rest |-> b] /\ S[n] = [out |-> q, rest |-> <<>>]
      /\ \A k \in 0..n - 1 :
           /\ S[k].rest # <<>>
           /\ \E f : /\ NDN!Dehead(S[k].rest) = {f}
                     /\ \E o : NDN!ReadSelector(S[k].out, f) = {o} /\ S[k + 1] = [out |-> o, rest |-> f.rest]
  BY <1>1, Zenon DEF Reading
<1>3. PICK N : N = Len(b) /\ N \in Nat
  BY BufferLen
<1> DEFINE read(s, f) == UNION {{[out |-> o, rest |-> f.rest]} : o \in NDN!ReadSelector(s.out, f)}
           turn(s) == IF s.rest = <<>> THEN {s} ELSE UNION {read(s, f) : f \in NDN!Dehead(s.rest)}
           turns(ss) == UNION {turn(s) : s \in ss}
           last(ss) == {s.out : s \in {t \in ss : t.rest = <<>>}}
           made(g) == g = [k \in 0..N |-> IF k = 0 THEN {start} ELSE turns(g[k - 1])]
           end(g) == g[CHOOSE k \in 0..N : k = N \/ turns(g[k]) = g[k]]
<1>4. NDN!Scan(NDN!Dehead, NDN!ReadSelector, b, p) = last(end(CHOOSE g : made(g)))
  BY <1>3, Zenon DEF NDN!Scan, NDN!Loop, NDN!AndThen
<1> HIDE DEF last
<1>5. ASSUME NEW k \in 0..n - 1 PROVE turn(S[k]) = {S[k + 1]}
  <2>1. PICK f : NDN!Dehead(S[k].rest) = {f}
                 /\ \E o : NDN!ReadSelector(S[k].out, f) = {o} /\ S[k + 1] = [out |-> o, rest |-> f.rest]
    BY <1>2
  <2>2. PICK o : NDN!ReadSelector(S[k].out, f) = {o} /\ S[k + 1] = [out |-> o, rest |-> f.rest]
    BY <2>1
  <2>3. read(S[k], f) = {S[k + 1]}
    BY <2>2
  <2> HIDE DEF read
  <2>4. S[k].rest # <<>>
    BY <1>2
  <2> QED  BY <2>1, <2>3, <2>4
<1>6. turn(S[n]) = {S[n]}
  BY <1>2
<1> HIDE DEF turn
<1>7. ASSUME NEW s PROVE turns({s}) = turn(s)
  OBVIOUS
<1> HIDE DEF turns
<1> DEFINE D(g) == [k \in 0..N |-> IF k = 0 THEN {start} ELSE turns(g[k - 1])]
           loop == CHOOSE g : g = D(g)
<1>8. loop = D(loop)
  <2> DEFINE g == [k \in 0..N |-> IF k < n THEN {S[k]} ELSE {S[n]}]
  <2>1. ASSUME NEW k \in 0..N PROVE g[k] = IF k = 0 THEN {start} ELSE turns(g[k - 1])
    <3>1. CASE k = 0
      BY <1>2, <1>3, <3>1
    <3>2. CASE k # 0 /\ k - 1 < n
      <4>1. k - 1 \in 0..n - 1 /\ k - 1 \in 0..N /\ k - 1 + 1 = k
        BY <1>2, <1>3, <3>2
      <4>2. g[k - 1] = {S[k - 1]} /\ g[k] = {S[k]}
        BY <1>2, <1>3, <3>2, <4>1
      <4>3. turn(S[k - 1]) = {S[k - 1 + 1]}
        BY <1>5, <4>1
      <4> HIDE DEF g
      <4>4. turns(g[k - 1]) = {S[k]}
        BY <1>7, <4>1, <4>2, <4>3
      <4> QED  BY <3>2, <4>2, <4>4
    <3>3. CASE k # 0 /\ ~ (k - 1 < n)
      <4>1. k - 1 \in 0..N /\ ~ (k < n)
        BY <1>2, <1>3, <3>3
      <4>2. g[k - 1] = {S[n]} /\ g[k] = {S[n]}
        BY <3>3, <4>1
      <4> HIDE DEF g
      <4> QED  BY <1>6, <1>7, <3>3, <4>2
    <3> QED  BY <3>1, <3>2, <3>3
  <2>2. g = [k \in 0..N |-> g[k]]
    OBVIOUS
  <2> HIDE DEF g
  <2>3. g = D(g)
    BY <2>1, <2>2
  <2> HIDE DEF D
  <2> QED  BY <2>3, Zenon
<1>9. PICK after : after = loop
  OBVIOUS
<1>10. \A k \in 0..N : after[k] = IF k = 0 THEN {start} ELSE turns(after[k - 1])
  <2>1. after = D(after)
    BY <1>8, <1>9, Zenon
  <2> HIDE DEF loop
  <2>2. ASSUME NEW k \in 0..N PROVE D(after)[k] = IF k = 0 THEN {start} ELSE turns(after[k - 1])
    OBVIOUS
  <2> HIDE DEF D
  <2> QED  BY <2>1, <2>2
<1> HIDE DEF loop, D
<1> DEFINE T == [k \in 0..N |-> turns(after[k])]
<1>11. RunsThrough(N, n, after, T, S)
  <2>1. \A k \in 0..N : T[k] = turns(after[k])
    OBVIOUS
  <2> HIDE DEF T
  <2>2. N \in Nat /\ n \in 0..N /\ after[0] = {S[0]}
    BY <1>2, <1>3, <1>10
  <2>3. ASSUME NEW k \in 1..N PROVE after[k] = T[k - 1]
    <3>1. k \in 0..N /\ k - 1 \in 0..N /\ k # 0
      BY <1>3
    <3> QED  BY <1>10, <2>1, <3>1
  <2>4. ASSUME NEW k \in 0..N, k < n, after[k] = {S[k]} PROVE T[k] = {S[k + 1]}
    <3>1. k \in 0..n - 1
      BY <1>2, <1>3, <2>4
    <3>2. turn(S[k]) = {S[k + 1]}
      BY <1>5, <3>1
    <3> QED  BY <1>7, <2>1, <2>4, <3>2
  <2>5. ASSUME NEW k \in 0..N, after[k] = {S[n]} PROVE T[k] = {S[n]}
    BY <1>6, <1>7, <2>1, <2>5
  <2>6. ASSUME NEW j \in 0..N, NEW k \in 0..N, after[j] = after[k] PROVE T[j] = T[k]
    BY <2>1, <2>6
  <2> QED  BY <2>2, <2>3, <2>4, <2>5, <2>6 DEF RunsThrough
<1>12. after[CHOOSE k \in 0..N : k = N \/ T[k] = after[k]] = {S[n]}
  <2> HIDE DEF T
  <2> QED  BY <1>11, LoopEnds
<1> DEFINE at(g) == g[CHOOSE k \in 0..N : k = N \/ turns(g[k]) = g[k]]
<1>13. at(after) = {S[n]}
  <2>1. \A k \in 0..N : T[k] = turns(after[k])
    OBVIOUS
  <2> HIDE DEF T
  <2> QED  BY <1>12, <2>1
<1>14. end(CHOOSE g : made(g)) = at(after)
  BY <1>9, ZenonT(60) DEF loop, D
<1> HIDE DEF at, end, made
<1>15. last({S[n]}) = {q}
  BY <1>2 DEF last
<1> QED  BY <1>4, <1>13, <1>14, <1>15

LEMMA NdnSelectorFirst ==
  ASSUME NEW b \in Buffer, NEW f, NEW p, NEW p1, NEW q,
         NDN!Dehead(b) = {f}, NDN!ReadSelector(p, f) = {p1}, f.rest \in Buffer, Len(f.rest) < Len(b),
         Reads(NDN!Dehead, NDN!ReadSelector, f.rest, p1, q)
  PROVE  Reads(NDN!Dehead, NDN!ReadSelector, b, p, q)
<1>1. PICK n, S : Reading(NDN!Dehead, NDN!ReadSelector, f.rest, p1, q, n, S)
  BY Zenon DEF Reads
<1>2. /\ n \in 0..Len(f.rest)
      /\ S[0] = [out |-> p1, rest |-> f.rest] /\ S[n] = [out |-> q, rest |-> <<>>]
      /\ \A k \in 0..n - 1 :
           /\ S[k].rest # <<>>
           /\ \E g : /\ NDN!Dehead(S[k].rest) = {g}
                     /\ \E o : NDN!ReadSelector(S[k].out, g) = {o} /\ S[k + 1] = [out |-> o, rest |-> g.rest]
  BY <1>1, Zenon DEF Reading
<1>3. Len(b) \in Nat /\ Len(f.rest) \in Nat /\ b # <<>>
  BY BufferLen
<1>m. PICK m : m = n + 1
  OBVIOUS
<1> DEFINE U == [k \in 0..m |-> IF k = 0 THEN [out |-> p, rest |-> b] ELSE S[k - 1]]
<1>4. m \in 0..Len(b) /\ n \in Nat
  BY <1>2, <1>3, <1>m
<1>5. U[0] = [out |-> p, rest |-> b] /\ U[m] = [out |-> q, rest |-> <<>>]
  BY <1>2, <1>3, <1>m
<1>6. ASSUME NEW k \in 0..m - 1
      PROVE  /\ U[k].rest # <<>>
             /\ \E g : /\ NDN!Dehead(U[k].rest) = {g}
                       /\ \E o : NDN!ReadSelector(U[k].out, g) = {o} /\ U[k + 1] = [out |-> o, rest |-> g.rest]
  <2>1. CASE k = 0
    <3>1. U[k + 1] = [out |-> p1, rest |-> f.rest] /\ U[k].rest = b /\ U[k].out = p
      BY <1>2, <1>4, <1>m, <2>1
    <3> HIDE DEF U
    <3> QED  BY <1>3, <3>1
  <2>2. CASE k # 0
    <3>1. k - 1 \in 0..n - 1 /\ k \in 0..m /\ k + 1 \in 0..m /\ k + 1 # 0 /\ k + 1 - 1 = k - 1 + 1
      BY <1>4, <1>m, <2>2
    <3>2. U[k] = S[k - 1] /\ U[k + 1] = S[k - 1 + 1]
      <4>1. U[k + 1] = S[k + 1 - 1]
        BY <3>1
      <4> QED  BY <2>2, <3>1, <4>1
    <3> HIDE DEF U
    <3> QED  BY <1>2, <3>1, <3>2
  <2> QED  BY <2>1, <2>2
<1> HIDE DEF U
<1>7. /\ m \in 0..Len(b)
      /\ U[0] = [out |-> p, rest |-> b] /\ U[m] = [out |-> q, rest |-> <<>>]
      /\ \A k \in 0..m - 1 :
           /\ U[k].rest # <<>>
           /\ \E g : /\ NDN!Dehead(U[k].rest) = {g}
                     /\ \E o : NDN!ReadSelector(U[k].out, g) = {o} /\ U[k + 1] = [out |-> o, rest |-> g.rest]
  BY <1>4, <1>5, <1>6, Zenon
<1>8. Reading(NDN!Dehead, NDN!ReadSelector, b, p, q, m, U)
  BY <1>7, Zenon DEF Reading
<1> QED  BY <1>8, Zenon DEF Reads

LEMMA NdnNoSelector == ASSUME NEW p PROVE Reads(NDN!Dehead, NDN!ReadSelector, <<>>, p, p)
<1> DEFINE S == [k \in 0..0 |-> [out |-> p, rest |-> <<>>]]
<1>1. /\ 0 \in 0..Len(<<>>)
      /\ S[0] = [out |-> p, rest |-> <<>>]
      /\ \A k \in 0..0 - 1 : FALSE
  BY BufferEmpty
<1> HIDE DEF S
<1>2. Reading(NDN!Dehead, NDN!ReadSelector, <<>>, p, p, 0, S)
  BY <1>1, Zenon DEF Reading
<1> QED  BY <1>2, Zenon DEF Reads

LEMMA NdnMetaInfosRead ==
  ASSUME NEW b \in Buffer, NEW p, NEW q, Reads(NDN!Dehead, NDN!ReadMetaInfo, b, p, q)
  PROVE  NDN!Scan(NDN!Dehead, NDN!ReadMetaInfo, b, p) = {q}
<1>1. PICK n, S : Reading(NDN!Dehead, NDN!ReadMetaInfo, b, p, q, n, S)
  BY Zenon DEF Reads
<1> DEFINE start == [out |-> p, rest |-> b]
<1>2. /\ n \in 0..Len(b)
      /\ S[0] = [out |-> p, rest |-> b] /\ S[n] = [out |-> q, rest |-> <<>>]
      /\ \A k \in 0..n - 1 :
           /\ S[k].rest # <<>>
           /\ \E f : /\ NDN!Dehead(S[k].rest) = {f}
                     /\ \E o : NDN!ReadMetaInfo(S[k].out, f) = {o} /\ S[k + 1] = [out |-> o, rest |-> f.rest]
  BY <1>1, Zenon DEF Reading
<1>3. PICK N : N = Len(b) /\ N \in Nat
  BY BufferLen
<1> DEFINE read(s, f) == UNION {{[out |-> o, rest |-> f.rest]} : o \in NDN!ReadMetaInfo(s.out, f)}
           turn(s) == IF s.rest = <<>> THEN {s} ELSE UNION {read(s, f) : f \in NDN!Dehead(s.rest)}
           turns(ss) == UNION {turn(s) : s \in ss}
           last(ss) == {s.out : s \in {t \in ss : t.rest = <<>>}}
           made(g) == g = [k \in 0..N |-> IF k = 0 THEN {start} ELSE turns(g[k - 1])]
           end(g) == g[CHOOSE k \in 0..N : k = N \/ turns(g[k]) = g[k]]
<1>4. NDN!Scan(NDN!Dehead, NDN!ReadMetaInfo, b, p) = last(end(CHOOSE g : made(g)))
  BY <1>3, Zenon DEF NDN!Scan, NDN!Loop, NDN!AndThen
<1> HIDE DEF last
<1>5. ASSUME NEW k \in 0..n - 1 PROVE turn(S[k]) = {S[k + 1]}
  <2>1. PICK f : NDN!Dehead(S[k].rest) = {f}
                 /\ \E o : NDN!ReadMetaInfo(S[k].out, f) = {o} /\ S[k + 1] = [out |-> o, rest |-> f.rest]
    BY <1>2
  <2>2. PICK o : NDN!ReadMetaInfo(S[k].out, f) = {o} /\ S[k + 1] = [out |-> o, rest |-> f.rest]
    BY <2>1
  <2>3. read(S[k], f) = {S[k + 1]}
    BY <2>2
  <2> HIDE DEF read
  <2>4. S[k].rest # <<>>
    BY <1>2
  <2> QED  BY <2>1, <2>3, <2>4
<1>6. turn(S[n]) = {S[n]}
  BY <1>2
<1> HIDE DEF turn
<1>7. ASSUME NEW s PROVE turns({s}) = turn(s)
  OBVIOUS
<1> HIDE DEF turns
<1> DEFINE D(g) == [k \in 0..N |-> IF k = 0 THEN {start} ELSE turns(g[k - 1])]
           loop == CHOOSE g : g = D(g)
<1>8. loop = D(loop)
  <2> DEFINE g == [k \in 0..N |-> IF k < n THEN {S[k]} ELSE {S[n]}]
  <2>1. ASSUME NEW k \in 0..N PROVE g[k] = IF k = 0 THEN {start} ELSE turns(g[k - 1])
    <3>1. CASE k = 0
      BY <1>2, <1>3, <3>1
    <3>2. CASE k # 0 /\ k - 1 < n
      <4>1. k - 1 \in 0..n - 1 /\ k - 1 \in 0..N /\ k - 1 + 1 = k
        BY <1>2, <1>3, <3>2
      <4>2. g[k - 1] = {S[k - 1]} /\ g[k] = {S[k]}
        BY <1>2, <1>3, <3>2, <4>1
      <4>3. turn(S[k - 1]) = {S[k - 1 + 1]}
        BY <1>5, <4>1
      <4> HIDE DEF g
      <4>4. turns(g[k - 1]) = {S[k]}
        BY <1>7, <4>1, <4>2, <4>3
      <4> QED  BY <3>2, <4>2, <4>4
    <3>3. CASE k # 0 /\ ~ (k - 1 < n)
      <4>1. k - 1 \in 0..N /\ ~ (k < n)
        BY <1>2, <1>3, <3>3
      <4>2. g[k - 1] = {S[n]} /\ g[k] = {S[n]}
        BY <3>3, <4>1
      <4> HIDE DEF g
      <4> QED  BY <1>6, <1>7, <3>3, <4>2
    <3> QED  BY <3>1, <3>2, <3>3
  <2>2. g = [k \in 0..N |-> g[k]]
    OBVIOUS
  <2> HIDE DEF g
  <2>3. g = D(g)
    BY <2>1, <2>2
  <2> HIDE DEF D
  <2> QED  BY <2>3, Zenon
<1>9. PICK after : after = loop
  OBVIOUS
<1>10. \A k \in 0..N : after[k] = IF k = 0 THEN {start} ELSE turns(after[k - 1])
  <2>1. after = D(after)
    BY <1>8, <1>9, Zenon
  <2> HIDE DEF loop
  <2>2. ASSUME NEW k \in 0..N PROVE D(after)[k] = IF k = 0 THEN {start} ELSE turns(after[k - 1])
    OBVIOUS
  <2> HIDE DEF D
  <2> QED  BY <2>1, <2>2
<1> HIDE DEF loop, D
<1> DEFINE T == [k \in 0..N |-> turns(after[k])]
<1>11. RunsThrough(N, n, after, T, S)
  <2>1. \A k \in 0..N : T[k] = turns(after[k])
    OBVIOUS
  <2> HIDE DEF T
  <2>2. N \in Nat /\ n \in 0..N /\ after[0] = {S[0]}
    BY <1>2, <1>3, <1>10
  <2>3. ASSUME NEW k \in 1..N PROVE after[k] = T[k - 1]
    <3>1. k \in 0..N /\ k - 1 \in 0..N /\ k # 0
      BY <1>3
    <3> QED  BY <1>10, <2>1, <3>1
  <2>4. ASSUME NEW k \in 0..N, k < n, after[k] = {S[k]} PROVE T[k] = {S[k + 1]}
    <3>1. k \in 0..n - 1
      BY <1>2, <1>3, <2>4
    <3>2. turn(S[k]) = {S[k + 1]}
      BY <1>5, <3>1
    <3> QED  BY <1>7, <2>1, <2>4, <3>2
  <2>5. ASSUME NEW k \in 0..N, after[k] = {S[n]} PROVE T[k] = {S[n]}
    BY <1>6, <1>7, <2>1, <2>5
  <2>6. ASSUME NEW j \in 0..N, NEW k \in 0..N, after[j] = after[k] PROVE T[j] = T[k]
    BY <2>1, <2>6
  <2> QED  BY <2>2, <2>3, <2>4, <2>5, <2>6 DEF RunsThrough
<1>12. after[CHOOSE k \in 0..N : k = N \/ T[k] = after[k]] = {S[n]}
  <2> HIDE DEF T
  <2> QED  BY <1>11, LoopEnds
<1> DEFINE at(g) == g[CHOOSE k \in 0..N : k = N \/ turns(g[k]) = g[k]]
<1>13. at(after) = {S[n]}
  <2>1. \A k \in 0..N : T[k] = turns(after[k])
    OBVIOUS
  <2> HIDE DEF T
  <2> QED  BY <1>12, <2>1
<1>14. end(CHOOSE g : made(g)) = at(after)
  BY <1>9, ZenonT(60) DEF loop, D
<1> HIDE DEF at, end, made
<1>15. last({S[n]}) = {q}
  BY <1>2 DEF last
<1> QED  BY <1>4, <1>13, <1>14, <1>15

LEMMA NdnMetaInfoFirst ==
  ASSUME NEW b \in Buffer, NEW f, NEW p, NEW p1, NEW q,
         NDN!Dehead(b) = {f}, NDN!ReadMetaInfo(p, f) = {p1}, f.rest \in Buffer, Len(f.rest) < Len(b),
         Reads(NDN!Dehead, NDN!ReadMetaInfo, f.rest, p1, q)
  PROVE  Reads(NDN!Dehead, NDN!ReadMetaInfo, b, p, q)
<1>1. PICK n, S : Reading(NDN!Dehead, NDN!ReadMetaInfo, f.rest, p1, q, n, S)
  BY Zenon DEF Reads
<1>2. /\ n \in 0..Len(f.rest)
      /\ S[0] = [out |-> p1, rest |-> f.rest] /\ S[n] = [out |-> q, rest |-> <<>>]
      /\ \A k \in 0..n - 1 :
           /\ S[k].rest # <<>>
           /\ \E g : /\ NDN!Dehead(S[k].rest) = {g}
                     /\ \E o : NDN!ReadMetaInfo(S[k].out, g) = {o} /\ S[k + 1] = [out |-> o, rest |-> g.rest]
  BY <1>1, Zenon DEF Reading
<1>3. Len(b) \in Nat /\ Len(f.rest) \in Nat /\ b # <<>>
  BY BufferLen
<1>m. PICK m : m = n + 1
  OBVIOUS
<1> DEFINE U == [k \in 0..m |-> IF k = 0 THEN [out |-> p, rest |-> b] ELSE S[k - 1]]
<1>4. m \in 0..Len(b) /\ n \in Nat
  BY <1>2, <1>3, <1>m
<1>5. U[0] = [out |-> p, rest |-> b] /\ U[m] = [out |-> q, rest |-> <<>>]
  BY <1>2, <1>3, <1>m
<1>6. ASSUME NEW k \in 0..m - 1
      PROVE  /\ U[k].rest # <<>>
             /\ \E g : /\ NDN!Dehead(U[k].rest) = {g}
                       /\ \E o : NDN!ReadMetaInfo(U[k].out, g) = {o} /\ U[k + 1] = [out |-> o, rest |-> g.rest]
  <2>1. CASE k = 0
    <3>1. U[k + 1] = [out |-> p1, rest |-> f.rest] /\ U[k].rest = b /\ U[k].out = p
      BY <1>2, <1>4, <1>m, <2>1
    <3> HIDE DEF U
    <3> QED  BY <1>3, <3>1
  <2>2. CASE k # 0
    <3>1. k - 1 \in 0..n - 1 /\ k \in 0..m /\ k + 1 \in 0..m /\ k + 1 # 0 /\ k + 1 - 1 = k - 1 + 1
      BY <1>4, <1>m, <2>2
    <3>2. U[k] = S[k - 1] /\ U[k + 1] = S[k - 1 + 1]
      <4>1. U[k + 1] = S[k + 1 - 1]
        BY <3>1
      <4> QED  BY <2>2, <3>1, <4>1
    <3> HIDE DEF U
    <3> QED  BY <1>2, <3>1, <3>2
  <2> QED  BY <2>1, <2>2
<1> HIDE DEF U
<1>7. /\ m \in 0..Len(b)
      /\ U[0] = [out |-> p, rest |-> b] /\ U[m] = [out |-> q, rest |-> <<>>]
      /\ \A k \in 0..m - 1 :
           /\ U[k].rest # <<>>
           /\ \E g : /\ NDN!Dehead(U[k].rest) = {g}
                     /\ \E o : NDN!ReadMetaInfo(U[k].out, g) = {o} /\ U[k + 1] = [out |-> o, rest |-> g.rest]
  BY <1>4, <1>5, <1>6, Zenon
<1>8. Reading(NDN!Dehead, NDN!ReadMetaInfo, b, p, q, m, U)
  BY <1>7, Zenon DEF Reading
<1> QED  BY <1>8, Zenon DEF Reads

LEMMA NdnNoMetaInfo == ASSUME NEW p PROVE Reads(NDN!Dehead, NDN!ReadMetaInfo, <<>>, p, p)
<1> DEFINE S == [k \in 0..0 |-> [out |-> p, rest |-> <<>>]]
<1>1. /\ 0 \in 0..Len(<<>>)
      /\ S[0] = [out |-> p, rest |-> <<>>]
      /\ \A k \in 0..0 - 1 : FALSE
  BY BufferEmpty
<1> HIDE DEF S
<1>2. Reading(NDN!Dehead, NDN!ReadMetaInfo, <<>>, p, p, 0, S)
  BY <1>1, Zenon DEF Reading
<1> QED  BY <1>2, Zenon DEF Reads

LEMMA CcnxComponentsRead ==
  ASSUME NEW b \in Buffer, NEW p, NEW q, Reads(CCNX!Dehead, CCNX!AddComponent, b, p, q)
  PROVE  CCNX!Scan(CCNX!Dehead, CCNX!AddComponent, b, p) = {q}
<1>1. PICK n, S : Reading(CCNX!Dehead, CCNX!AddComponent, b, p, q, n, S)
  BY Zenon DEF Reads
<1> DEFINE start == [out |-> p, rest |-> b]
<1>2. /\ n \in 0..Len(b)
      /\ S[0] = [out |-> p, rest |-> b] /\ S[n] = [out |-> q, rest |-> <<>>]
      /\ \A k \in 0..n - 1 :
           /\ S[k].rest # <<>>
           /\ \E f : /\ CCNX!Dehead(S[k].rest) = {f}
                     /\ \E o : CCNX!AddComponent(S[k].out, f) = {o} /\ S[k + 1] = [out |-> o, rest |-> f.rest]
  BY <1>1, Zenon DEF Reading
<1>3. PICK N : N = Len(b) /\ N \in Nat
  BY BufferLen
<1> DEFINE read(s, f) == UNION {{[out |-> o, rest |-> f.rest]} : o \in CCNX!AddComponent(s.out, f)}
           turn(s) == IF s.rest = <<>> THEN {s} ELSE UNION {read(s, f) : f \in CCNX!Dehead(s.rest)}
           turns(ss) == UNION {turn(s) : s \in ss}
           last(ss) == {s.out : s \in {t \in ss : t.rest = <<>>}}
           made(g) == g = [k \in 0..N |-> IF k = 0 THEN {start} ELSE turns(g[k - 1])]
           end(g) == g[CHOOSE k \in 0..N : k = N \/ turns(g[k]) = g[k]]
<1>4. CCNX!Scan(CCNX!Dehead, CCNX!AddComponent, b, p) = last(end(CHOOSE g : made(g)))
  BY <1>3, Zenon DEF CCNX!Scan, CCNX!Loop, CCNX!AndThen
<1> HIDE DEF last
<1>5. ASSUME NEW k \in 0..n - 1 PROVE turn(S[k]) = {S[k + 1]}
  <2>1. PICK f : CCNX!Dehead(S[k].rest) = {f}
                 /\ \E o : CCNX!AddComponent(S[k].out, f) = {o} /\ S[k + 1] = [out |-> o, rest |-> f.rest]
    BY <1>2
  <2>2. PICK o : CCNX!AddComponent(S[k].out, f) = {o} /\ S[k + 1] = [out |-> o, rest |-> f.rest]
    BY <2>1
  <2>3. read(S[k], f) = {S[k + 1]}
    BY <2>2
  <2> HIDE DEF read
  <2>4. S[k].rest # <<>>
    BY <1>2
  <2> QED  BY <2>1, <2>3, <2>4
<1>6. turn(S[n]) = {S[n]}
  BY <1>2
<1> HIDE DEF turn
<1>7. ASSUME NEW s PROVE turns({s}) = turn(s)
  OBVIOUS
<1> HIDE DEF turns
<1> DEFINE D(g) == [k \in 0..N |-> IF k = 0 THEN {start} ELSE turns(g[k - 1])]
           loop == CHOOSE g : g = D(g)
<1>8. loop = D(loop)
  <2> DEFINE g == [k \in 0..N |-> IF k < n THEN {S[k]} ELSE {S[n]}]
  <2>1. ASSUME NEW k \in 0..N PROVE g[k] = IF k = 0 THEN {start} ELSE turns(g[k - 1])
    <3>1. CASE k = 0
      BY <1>2, <1>3, <3>1
    <3>2. CASE k # 0 /\ k - 1 < n
      <4>1. k - 1 \in 0..n - 1 /\ k - 1 \in 0..N /\ k - 1 + 1 = k
        BY <1>2, <1>3, <3>2
      <4>2. g[k - 1] = {S[k - 1]} /\ g[k] = {S[k]}
        BY <1>2, <1>3, <3>2, <4>1
      <4>3. turn(S[k - 1]) = {S[k - 1 + 1]}
        BY <1>5, <4>1
      <4> HIDE DEF g
      <4>4. turns(g[k - 1]) = {S[k]}
        BY <1>7, <4>1, <4>2, <4>3
      <4> QED  BY <3>2, <4>2, <4>4
    <3>3. CASE k # 0 /\ ~ (k - 1 < n)
      <4>1. k - 1 \in 0..N /\ ~ (k < n)
        BY <1>2, <1>3, <3>3
      <4>2. g[k - 1] = {S[n]} /\ g[k] = {S[n]}
        BY <3>3, <4>1
      <4> HIDE DEF g
      <4> QED  BY <1>6, <1>7, <3>3, <4>2
    <3> QED  BY <3>1, <3>2, <3>3
  <2>2. g = [k \in 0..N |-> g[k]]
    OBVIOUS
  <2> HIDE DEF g
  <2>3. g = D(g)
    BY <2>1, <2>2
  <2> HIDE DEF D
  <2> QED  BY <2>3, Zenon
<1>9. PICK after : after = loop
  OBVIOUS
<1>10. \A k \in 0..N : after[k] = IF k = 0 THEN {start} ELSE turns(after[k - 1])
  <2>1. after = D(after)
    BY <1>8, <1>9, Zenon
  <2> HIDE DEF loop
  <2>2. ASSUME NEW k \in 0..N PROVE D(after)[k] = IF k = 0 THEN {start} ELSE turns(after[k - 1])
    OBVIOUS
  <2> HIDE DEF D
  <2> QED  BY <2>1, <2>2
<1> HIDE DEF loop, D
<1> DEFINE T == [k \in 0..N |-> turns(after[k])]
<1>11. RunsThrough(N, n, after, T, S)
  <2>1. \A k \in 0..N : T[k] = turns(after[k])
    OBVIOUS
  <2> HIDE DEF T
  <2>2. N \in Nat /\ n \in 0..N /\ after[0] = {S[0]}
    BY <1>2, <1>3, <1>10
  <2>3. ASSUME NEW k \in 1..N PROVE after[k] = T[k - 1]
    <3>1. k \in 0..N /\ k - 1 \in 0..N /\ k # 0
      BY <1>3
    <3> QED  BY <1>10, <2>1, <3>1
  <2>4. ASSUME NEW k \in 0..N, k < n, after[k] = {S[k]} PROVE T[k] = {S[k + 1]}
    <3>1. k \in 0..n - 1
      BY <1>2, <1>3, <2>4
    <3>2. turn(S[k]) = {S[k + 1]}
      BY <1>5, <3>1
    <3> QED  BY <1>7, <2>1, <2>4, <3>2
  <2>5. ASSUME NEW k \in 0..N, after[k] = {S[n]} PROVE T[k] = {S[n]}
    BY <1>6, <1>7, <2>1, <2>5
  <2>6. ASSUME NEW j \in 0..N, NEW k \in 0..N, after[j] = after[k] PROVE T[j] = T[k]
    BY <2>1, <2>6
  <2> QED  BY <2>2, <2>3, <2>4, <2>5, <2>6 DEF RunsThrough
<1>12. after[CHOOSE k \in 0..N : k = N \/ T[k] = after[k]] = {S[n]}
  <2> HIDE DEF T
  <2> QED  BY <1>11, LoopEnds
<1> DEFINE at(g) == g[CHOOSE k \in 0..N : k = N \/ turns(g[k]) = g[k]]
<1>13. at(after) = {S[n]}
  <2>1. \A k \in 0..N : T[k] = turns(after[k])
    OBVIOUS
  <2> HIDE DEF T
  <2> QED  BY <1>12, <2>1
<1>14. end(CHOOSE g : made(g)) = at(after)
  BY <1>9, ZenonT(60) DEF loop, D
<1> HIDE DEF at, end, made
<1>15. last({S[n]}) = {q}
  BY <1>2 DEF last
<1> QED  BY <1>4, <1>13, <1>14, <1>15

LEMMA CcnxComponentFirst ==
  ASSUME NEW b \in Buffer, NEW f, NEW p, NEW p1, NEW q,
         CCNX!Dehead(b) = {f}, CCNX!AddComponent(p, f) = {p1}, f.rest \in Buffer, Len(f.rest) < Len(b),
         Reads(CCNX!Dehead, CCNX!AddComponent, f.rest, p1, q)
  PROVE  Reads(CCNX!Dehead, CCNX!AddComponent, b, p, q)
<1>1. PICK n, S : Reading(CCNX!Dehead, CCNX!AddComponent, f.rest, p1, q, n, S)
  BY Zenon DEF Reads
<1>2. /\ n \in 0..Len(f.rest)
      /\ S[0] = [out |-> p1, rest |-> f.rest] /\ S[n] = [out |-> q, rest |-> <<>>]
      /\ \A k \in 0..n - 1 :
           /\ S[k].rest # <<>>
           /\ \E g : /\ CCNX!Dehead(S[k].rest) = {g}
                     /\ \E o : CCNX!AddComponent(S[k].out, g) = {o} /\ S[k + 1] = [out |-> o, rest |-> g.rest]
  BY <1>1, Zenon DEF Reading
<1>3. Len(b) \in Nat /\ Len(f.rest) \in Nat /\ b # <<>>
  BY BufferLen
<1>m. PICK m : m = n + 1
  OBVIOUS
<1> DEFINE U == [k \in 0..m |-> IF k = 0 THEN [out |-> p, rest |-> b] ELSE S[k - 1]]
<1>4. m \in 0..Len(b) /\ n \in Nat
  BY <1>2, <1>3, <1>m
<1>5. U[0] = [out |-> p, rest |-> b] /\ U[m] = [out |-> q, rest |-> <<>>]
  BY <1>2, <1>3, <1>m
<1>6. ASSUME NEW k \in 0..m - 1
      PROVE  /\ U[k].rest # <<>>
             /\ \E g : /\ CCNX!Dehead(U[k].rest) = {g}
                       /\ \E o : CCNX!AddComponent(U[k].out, g) = {o} /\ U[k + 1] = [out |-> o, rest |-> g.rest]
  <2>1. CASE k = 0
    <3>1. U[k + 1] = [out |-> p1, rest |-> f.rest] /\ U[k].rest = b /\ U[k].out = p
      BY <1>2, <1>4, <1>m, <2>1
    <3> HIDE DEF U
    <3> QED  BY <1>3, <3>1
  <2>2. CASE k # 0
    <3>1. k - 1 \in 0..n - 1 /\ k \in 0..m /\ k + 1 \in 0..m /\ k + 1 # 0 /\ k + 1 - 1 = k - 1 + 1
      BY <1>4, <1>m, <2>2
    <3>2. U[k] = S[k - 1] /\ U[k + 1] = S[k - 1 + 1]
      <4>1. U[k + 1] = S[k + 1 - 1]
        BY <3>1
      <4> QED  BY <2>2, <3>1, <4>1
    <3> HIDE DEF U
    <3> QED  BY <1>2, <3>1, <3>2
  <2> QED  BY <2>1, <2>2
<1> HIDE DEF U
<1>7. /\ m \in 0..Len(b)
      /\ U[0] = [out |-> p, rest |-> b] /\ U[m] = [out |-> q, rest |-> <<>>]
      /\ \A k \in 0..m - 1 :
           /\ U[k].rest # <<>>
           /\ \E g : /\ CCNX!Dehead(U[k].rest) = {g}
                     /\ \E o : CCNX!AddComponent(U[k].out, g) = {o} /\ U[k + 1] = [out |-> o, rest |-> g.rest]
  BY <1>4, <1>5, <1>6, Zenon
<1>8. Reading(CCNX!Dehead, CCNX!AddComponent, b, p, q, m, U)
  BY <1>7, Zenon DEF Reading
<1> QED  BY <1>8, Zenon DEF Reads

LEMMA CcnxNoComponent == ASSUME NEW p PROVE Reads(CCNX!Dehead, CCNX!AddComponent, <<>>, p, p)
<1> DEFINE S == [k \in 0..0 |-> [out |-> p, rest |-> <<>>]]
<1>1. /\ 0 \in 0..Len(<<>>)
      /\ S[0] = [out |-> p, rest |-> <<>>]
      /\ \A k \in 0..0 - 1 : FALSE
  BY BufferEmpty
<1> HIDE DEF S
<1>2. Reading(CCNX!Dehead, CCNX!AddComponent, <<>>, p, p, 0, S)
  BY <1>1, Zenon DEF Reading
<1> QED  BY <1>2, Zenon DEF Reads

LEMMA CcnxFieldsRead ==
  ASSUME NEW b \in Buffer, NEW p, NEW q, Reads(CCNX!Dehead, CCNX!ReadField, b, p, q)
  PROVE  CCNX!Scan(CCNX!Dehead, CCNX!ReadField, b, p) = {q}
<1>1. PICK n, S : Reading(CCNX!Dehead, CCNX!ReadField, b, p, q, n, S)
  BY Zenon DEF Reads
<1> DEFINE start == [out |-> p, rest |-> b]
<1>2. /\ n \in 0..Len(b)
      /\ S[0] = [out |-> p, rest |-> b] /\ S[n] = [out |-> q, rest |-> <<>>]
      /\ \A k \in 0..n - 1 :
           /\ S[k].rest # <<>>
           /\ \E f : /\ CCNX!Dehead(S[k].rest) = {f}
                     /\ \E o : CCNX!ReadField(S[k].out, f) = {o} /\ S[k + 1] = [out |-> o, rest |-> f.rest]
  BY <1>1, Zenon DEF Reading
<1>3. PICK N : N = Len(b) /\ N \in Nat
  BY BufferLen
<1> DEFINE read(s, f) == UNION {{[out |-> o, rest |-> f.rest]} : o \in CCNX!ReadField(s.out, f)}
           turn(s) == IF s.rest = <<>> THEN {s} ELSE UNION {read(s, f) : f \in CCNX!Dehead(s.rest)}
           turns(ss) == UNION {turn(s) : s \in ss}
           last(ss) == {s.out : s \in {t \in ss : t.rest = <<>>}}
           made(g) == g = [k \in 0..N |-> IF k = 0 THEN {start} ELSE turns(g[k - 1])]
           end(g) == g[CHOOSE k \in 0..N : k = N \/ turns(g[k]) = g[k]]
<1>4. CCNX!Scan(CCNX!Dehead, CCNX!ReadField, b, p) = last(end(CHOOSE g : made(g)))
  BY <1>3, Zenon DEF CCNX!Scan, CCNX!Loop, CCNX!AndThen
<1> HIDE DEF last
<1>5. ASSUME NEW k \in 0..n - 1 PROVE turn(S[k]) = {S[k + 1]}
  <2>1. PICK f : CCNX!Dehead(S[k].rest) = {f}
                 /\ \E o : CCNX!ReadField(S[k].out, f) = {o} /\ S[k + 1] = [out |-> o, rest |-> f.rest]
    BY <1>2
  <2>2. PICK o : CCNX!ReadField(S[k].out, f) = {o} /\ S[k + 1] = [out |-> o, rest |-> f.rest]
    BY <2>1
  <2>3. read(S[k], f) = {S[k + 1]}
    BY <2>2
  <2> HIDE DEF read
  <2>4. S[k].rest # <<>>
    BY <1>2
  <2> QED  BY <2>1, <2>3, <2>4
<1>6. turn(S[n]) = {S[n]}
  BY <1>2
<1> HIDE DEF turn
<1>7. ASSUME NEW s PROVE turns({s}) = turn(s)
  OBVIOUS
<1> HIDE DEF turns
<1> DEFINE D(g) == [k \in 0..N |-> IF k = 0 THEN {start} ELSE turns(g[k - 1])]
           loop == CHOOSE g : g = D(g)
<1>8. loop = D(loop)
  <2> DEFINE g == [k \in 0..N |-> IF k < n THEN {S[k]} ELSE {S[n]}]
  <2>1. ASSUME NEW k \in 0..N PROVE g[k] = IF k = 0 THEN {start} ELSE turns(g[k - 1])
    <3>1. CASE k = 0
      BY <1>2, <1>3, <3>1
    <3>2. CASE k # 0 /\ k - 1 < n
      <4>1. k - 1 \in 0..n - 1 /\ k - 1 \in 0..N /\ k - 1 + 1 = k
        BY <1>2, <1>3, <3>2
      <4>2. g[k - 1] = {S[k - 1]} /\ g[k] = {S[k]}
        BY <1>2, <1>3, <3>2, <4>1
      <4>3. turn(S[k - 1]) = {S[k - 1 + 1]}
        BY <1>5, <4>1
      <4> HIDE DEF g
      <4>4. turns(g[k - 1]) = {S[k]}
        BY <1>7, <4>1, <4>2, <4>3
      <4> QED  BY <3>2, <4>2, <4>4
    <3>3. CASE k # 0 /\ ~ (k - 1 < n)
      <4>1. k - 1 \in 0..N /\ ~ (k < n)
        BY <1>2, <1>3, <3>3
      <4>2. g[k - 1] = {S[n]} /\ g[k] = {S[n]}
        BY <3>3, <4>1
      <4> HIDE DEF g
      <4> QED  BY <1>6, <1>7, <3>3, <4>2
    <3> QED  BY <3>1, <3>2, <3>3
  <2>2. g = [k \in 0..N |-> g[k]]
    OBVIOUS
  <2> HIDE DEF g
  <2>3. g = D(g)
    BY <2>1, <2>2
  <2> HIDE DEF D
  <2> QED  BY <2>3, Zenon
<1>9. PICK after : after = loop
  OBVIOUS
<1>10. \A k \in 0..N : after[k] = IF k = 0 THEN {start} ELSE turns(after[k - 1])
  <2>1. after = D(after)
    BY <1>8, <1>9, Zenon
  <2> HIDE DEF loop
  <2>2. ASSUME NEW k \in 0..N PROVE D(after)[k] = IF k = 0 THEN {start} ELSE turns(after[k - 1])
    OBVIOUS
  <2> HIDE DEF D
  <2> QED  BY <2>1, <2>2
<1> HIDE DEF loop, D
<1> DEFINE T == [k \in 0..N |-> turns(after[k])]
<1>11. RunsThrough(N, n, after, T, S)
  <2>1. \A k \in 0..N : T[k] = turns(after[k])
    OBVIOUS
  <2> HIDE DEF T
  <2>2. N \in Nat /\ n \in 0..N /\ after[0] = {S[0]}
    BY <1>2, <1>3, <1>10
  <2>3. ASSUME NEW k \in 1..N PROVE after[k] = T[k - 1]
    <3>1. k \in 0..N /\ k - 1 \in 0..N /\ k # 0
      BY <1>3
    <3> QED  BY <1>10, <2>1, <3>1
  <2>4. ASSUME NEW k \in 0..N, k < n, after[k] = {S[k]} PROVE T[k] = {S[k + 1]}
    <3>1. k \in 0..n - 1
      BY <1>2, <1>3, <2>4
    <3>2. turn(S[k]) = {S[k + 1]}
      BY <1>5, <3>1
    <3> QED  BY <1>7, <2>1, <2>4, <3>2
  <2>5. ASSUME NEW k \in 0..N, after[k] = {S[n]} PROVE T[k] = {S[n]}
    BY <1>6, <1>7, <2>1, <2>5
  <2>6. ASSUME NEW j \in 0..N, NEW k \in 0..N, after[j] = after[k] PROVE T[j] = T[k]
    BY <2>1, <2>6
  <2> QED  BY <2>2, <2>3, <2>4, <2>5, <2>6 DEF RunsThrough
<1>12. after[CHOOSE k \in 0..N : k = N \/ T[k] = after[k]] = {S[n]}
  <2> HIDE DEF T
  <2> QED  BY <1>11, LoopEnds
<1> DEFINE at(g) == g[CHOOSE k \in 0..N : k = N \/ turns(g[k]) = g[k]]
<1>13. at(after) = {S[n]}
  <2>1. \A k \in 0..N : T[k] = turns(after[k])
    OBVIOUS
  <2> HIDE DEF T
  <2> QED  BY <1>12, <2>1
<1>14. end(CHOOSE g : made(g)) = at(after)
  BY <1>9, ZenonT(60) DEF loop, D
<1> HIDE DEF at, end, made
<1>15. last({S[n]}) = {q}
  BY <1>2 DEF last
<1> QED  BY <1>4, <1>13, <1>14, <1>15

LEMMA CcnxFieldFirst ==
  ASSUME NEW b \in Buffer, NEW f, NEW p, NEW p1, NEW q,
         CCNX!Dehead(b) = {f}, CCNX!ReadField(p, f) = {p1}, f.rest \in Buffer, Len(f.rest) < Len(b),
         Reads(CCNX!Dehead, CCNX!ReadField, f.rest, p1, q)
  PROVE  Reads(CCNX!Dehead, CCNX!ReadField, b, p, q)
<1>1. PICK n, S : Reading(CCNX!Dehead, CCNX!ReadField, f.rest, p1, q, n, S)
  BY Zenon DEF Reads
<1>2. /\ n \in 0..Len(f.rest)
      /\ S[0] = [out |-> p1, rest |-> f.rest] /\ S[n] = [out |-> q, rest |-> <<>>]
      /\ \A k \in 0..n - 1 :
           /\ S[k].rest # <<>>
           /\ \E g : /\ CCNX!Dehead(S[k].rest) = {g}
                     /\ \E o : CCNX!ReadField(S[k].out, g) = {o} /\ S[k + 1] = [out |-> o, rest |-> g.rest]
  BY <1>1, Zenon DEF Reading
<1>3. Len(b) \in Nat /\ Len(f.rest) \in Nat /\ b # <<>>
  BY BufferLen
<1>m. PICK m : m = n + 1
  OBVIOUS
<1> DEFINE U == [k \in 0..m |-> IF k = 0 THEN [out |-> p, rest |-> b] ELSE S[k - 1]]
<1>4. m \in 0..Len(b) /\ n \in Nat
  BY <1>2, <1>3, <1>m
<1>5. U[0] = [out |-> p, rest |-> b] /\ U[m] = [out |-> q, rest |-> <<>>]
  BY <1>2, <1>3, <1>m
<1>6. ASSUME NEW k \in 0..m - 1
      PROVE  /\ U[k].rest # <<>>
             /\ \E g : /\ CCNX!Dehead(U[k].rest) = {g}
                       /\ \E o : CCNX!ReadField(U[k].out, g) = {o} /\ U[k + 1] = [out |-> o, rest |-> g.rest]
  <2>1. CASE k = 0
    <3>1. U[k + 1] = [out |-> p1, rest |-> f.rest] /\ U[k].rest = b /\ U[k].out = p
      BY <1>2, <1>4, <1>m, <2>1
    <3> HIDE DEF U
    <3> QED  BY <1>3, <3>1
  <2>2. CASE k # 0
    <3>1. k - 1 \in 0..n - 1 /\ k \in 0..m /\ k + 1 \in 0..m /\ k + 1 # 0 /\ k + 1 - 1 = k - 1 + 1
      BY <1>4, <1>m, <2>2
    <3>2. U[k] = S[k - 1] /\ U[k + 1] = S[k - 1 + 1]
      <4>1. U[k + 1] = S[k + 1 - 1]
        BY <3>1
      <4> QED  BY <2>2, <3>1, <4>1
    <3> HIDE DEF U
    <3> QED  BY <1>2, <3>1, <3>2
  <2> QED  BY <2>1, <2>2
<1> HIDE DEF U
<1>7. /\ m \in 0..Len(b)
      /\ U[0] = [out |-> p, rest |-> b] /\ U[m] = [out |-> q, rest |-> <<>>]
      /\ \A k \in 0..m - 1 :
           /\ U[k].rest # <<>>
           /\ \E g : /\ CCNX!Dehead(U[k].rest) = {g}
                     /\ \E o : CCNX!ReadField(U[k].out, g) = {o} /\ U[k + 1] = [out |-> o, rest |-> g.rest]
  BY <1>4, <1>5, <1>6, Zenon
<1>8. Reading(CCNX!Dehead, CCNX!ReadField, b, p, q, m, U)
  BY <1>7, Zenon DEF Reading
<1> QED  BY <1>8, Zenon DEF Reads

LEMMA CcnxNoField == ASSUME NEW p PROVE Reads(CCNX!Dehead, CCNX!ReadField, <<>>, p, p)
<1> DEFINE S == [k \in 0..0 |-> [out |-> p, rest |-> <<>>]]
<1>1. /\ 0 \in 0..Len(<<>>)
      /\ S[0] = [out |-> p, rest |-> <<>>]
      /\ \A k \in 0..0 - 1 : FALSE
  BY BufferEmpty
<1> HIDE DEF S
<1>2. Reading(CCNX!Dehead, CCNX!ReadField, <<>>, p, p, 0, S)
  BY <1>1, Zenon DEF Reading
<1> QED  BY <1>2, Zenon DEF Reads

(* The same for the loops of CCNb. *)
LEMMA CcnbHunts ==
  ASSUME NEW N \in Nat, NEW n \in 0..N, NEW S, NEW start, S[0] = start,
         \A k \in 0..n - 1 : CCNB!HuntTurn(S[k]) = {S[k + 1]}, CCNB!HuntTurn(S[n]) = {S[n]}
  PROVE  CCNB!Loop(CCNB!HuntTurn, start, N) = {S[n]}
<1> DEFINE turn(s) == CCNB!HuntTurn(s)
           turns(ss) == UNION {turn(s) : s \in ss}
           made(g) == g = [k \in 0..N |-> IF k = 0 THEN {start} ELSE turns(g[k - 1])]
           end(g) == g[CHOOSE k \in 0..N : k = N \/ turns(g[k]) = g[k]]
<1>2. n \in 0..N /\ S[0] = start
  OBVIOUS
<1>3. N \in Nat
  OBVIOUS
<1>4. CCNB!Loop(CCNB!HuntTurn, start, N) = end(CHOOSE g : made(g))
  BY Zenon DEF CCNB!Loop, CCNB!AndThen
<1>5. ASSUME NEW k \in 0..n - 1 PROVE turn(S[k]) = {S[k + 1]}
  OBVIOUS
<1>6. turn(S[n]) = {S[n]}
  OBVIOUS
<1> HIDE DEF turn
<1>7. ASSUME NEW s PROVE turns({s}) = turn(s)
  OBVIOUS
<1> HIDE DEF turns
<1> DEFINE D(g) == [k \in 0..N |-> IF k = 0 THEN {start} ELSE turns(g[k - 1])]
           loop == CHOOSE g : g = D(g)
<1>8. loop = D(loop)
  <2> DEFINE g == [k \in 0..N |-> IF k < n THEN {S[k]} ELSE {S[n]}]
  <2>1. ASSUME NEW k \in 0..N PROVE g[k] = IF k = 0 THEN {start} ELSE turns(g[k - 1])
    <3>1. CASE k = 0
      BY <1>2, <1>3, <3>1
    <3>2. CASE k # 0 /\ k - 1 < n
      <4>1. k - 1 \in 0..n - 1 /\ k - 1 \in 0..N /\ k - 1 + 1 = k
        BY <1>2, <1>3, <3>2
      <4>2. g[k - 1] = {S[k - 1]} /\ g[k] = {S[k]}
        BY <1>2, <1>3, <3>2, <4>1
      <4>3. turn(S[k - 1]) = {S[k - 1 + 1]}
        BY <1>5, <4>1
      <4> HIDE DEF g
      <4>4. turns(g[k - 1]) = {S[k]}
        BY <1>7, <4>1, <4>2, <4>3
      <4> QED  BY <3>2, <4>2, <4>4
    <3>3. CASE k # 0 /\ ~ (k - 1 < n)
      <4>1. k - 1 \in 0..N /\ ~ (k < n)
        BY <1>2, <1>3, <3>3
      <4>2. g[k - 1] = {S[n]} /\ g[k] = {S[n]}
        BY <3>3, <4>1
      <4> HIDE DEF g
      <4> QED  BY <1>6, <1>7, <3>3, <4>2
    <3> QED  BY <3>1, <3>2, <3>3
  <2>2. g = [k \in 0..N |-> g[k]]
    OBVIOUS
  <2> HIDE DEF g
  <2>3. g = D(g)
    BY <2>1, <2>2
  <2> HIDE DEF D
  <2> QED  BY <2>3, Zenon
<1>9. PICK after : after = loop
  OBVIOUS
<1>10. \A k \in 0..N : after[k] = IF k = 0 THEN {start} ELSE turns(after[k - 1])
  <2>1. after = D(after)
    BY <1>8, <1>9, Zenon
  <2> HIDE DEF loop
  <2>2. ASSUME NEW k \in 0..N PROVE D(after)[k] = IF k = 0 THEN {start} ELSE turns(after[k - 1])
    OBVIOUS
  <2> HIDE DEF D
  <2> QED  BY <2>1, <2>2
<1> HIDE DEF loop, D
<1> DEFINE T == [k \in 0..N |-> turns(after[k])]
<1>11. RunsThrough(N, n, after, T, S)
  <2>1. \A k \in 0..N : T[k] = turns(after[k])
    OBVIOUS
  <2> HIDE DEF T
  <2>2. N \in Nat /\ n \in 0..N /\ after[0] = {S[0]}
    BY <1>2, <1>3, <1>10
  <2>3. ASSUME NEW k \in 1..N PROVE after[k] = T[k - 1]
    <3>1. k \in 0..N /\ k - 1 \in 0..N /\ k # 0
      BY <1>3
    <3> QED  BY <1>10, <2>1, <3>1
  <2>4. ASSUME NEW k \in 0..N, k < n, after[k] = {S[k]} PROVE T[k] = {S[k + 1]}
    <3>1. k \in 0..n - 1
      BY <1>2, <1>3, <2>4
    <3>2. turn(S[k]) = {S[k + 1]}
      BY <1>5, <3>1
    <3> QED  BY <1>7, <2>1, <2>4, <3>2
  <2>5. ASSUME NEW k \in 0..N, after[k] = {S[n]} PROVE T[k] = {S[n]}
    BY <1>6, <1>7, <2>1, <2>5
  <2>6. ASSUME NEW j \in 0..N, NEW k \in 0..N, after[j] = after[k] PROVE T[j] = T[k]
    BY <2>1, <2>6
  <2> QED  BY <2>2, <2>3, <2>4, <2>5, <2>6 DEF RunsThrough
<1>12. after[CHOOSE k \in 0..N : k = N \/ T[k] = after[k]] = {S[n]}
  <2> HIDE DEF T
  <2> QED  BY <1>11, LoopEnds
<1> DEFINE at(g) == g[CHOOSE k \in 0..N : k = N \/ turns(g[k]) = g[k]]
<1>13. at(after) = {S[n]}
  <2>1. \A k \in 0..N : T[k] = turns(after[k])
    OBVIOUS
  <2> HIDE DEF T
  <2> QED  BY <1>12, <2>1
<1>14. end(CHOOSE g : made(g)) = at(after)
  BY <1>9, ZenonT(60) DEF loop, D
<1> HIDE DEF at, end, made
<1> QED  BY <1>4, <1>13, <1>14, Zenon

NameTurnsRun(S, n) ==
  (\A k \in 0..n - 1 : CCNB!NameTurn(S[k]) = {S[k + 1]}) /\ CCNB!NameTurn(S[n]) = {S[n]}

LEMMA CcnbNames ==
  ASSUME NEW N \in Nat, NEW n \in 0..N, NEW S, NameTurnsRun(S, n)
  PROVE  CCNB!Loop(CCNB!NameTurn, S[0], N) = {S[n]}
<1>1. PICK start : start = S[0]
  OBVIOUS
<1> DEFINE turn(s) == CCNB!NameTurn(s)
           turns(ss) == UNION {turn(s) : s \in ss}
           made(g) == g = [k \in 0..N |-> IF k = 0 THEN {start} ELSE turns(g[k - 1])]
           end(g) == g[CHOOSE k \in 0..N : k = N \/ turns(g[k]) = g[k]]
<1>2. n \in 0..N /\ S[0] = start
  BY <1>1
<1>3. N \in Nat
  OBVIOUS
<1>4. CCNB!Loop(CCNB!NameTurn, start, N) = end(CHOOSE g : made(g))
  BY Zenon DEF CCNB!Loop, CCNB!AndThen
<1>5. ASSUME NEW k \in 0..n - 1 PROVE turn(S[k]) = {S[k + 1]}
  BY Zenon DEF NameTurnsRun
<1>6. turn(S[n]) = {S[n]}
  BY Zenon DEF NameTurnsRun
<1> HIDE DEF turn
<1>7. ASSUME NEW s PROVE turns({s}) = turn(s)
  OBVIOUS
<1> HIDE DEF turns
<1> DEFINE D(g) == [k \in 0..N |-> IF k = 0 THEN {start} ELSE turns(g[k - 1])]
           loop == CHOOSE g : g = D(g)
<1>8. loop = D(loop)
  <2> DEFINE g == [k \in 0..N |-> IF k < n THEN {S[k]} ELSE {S[n]}]
  <2>1. ASSUME NEW k \in 0..N PROVE g[k] = IF k = 0 THEN {start} ELSE turns(g[k - 1])
    <3>1. CASE k = 0
      BY <1>2, <1>3, <3>1
    <3>2. CASE k # 0 /\ k - 1 < n
      <4>1. k - 1 \in 0..n - 1 /\ k - 1 \in 0..N /\ k - 1 + 1 = k
        BY <1>2, <1>3, <3>2
      <4>2. g[k - 1] = {S[k - 1]} /\ g[k] = {S[k]}
        BY <1>2, <1>3, <3>2, <4>1
      <4>3. turn(S[k - 1]) = {S[k - 1 + 1]}
        BY <1>5, <4>1
      <4> HIDE DEF g
      <4>4. turns(g[k - 1]) = {S[k]}
        BY <1>7, <4>1, <4>2, <4>3
      <4> QED  BY <3>2, <4>2, <4>4
    <3>3. CASE k # 0 /\ ~ (k - 1 < n)
      <4>1. k - 1 \in 0..N /\ ~ (k < n)
        BY <1>2, <1>3, <3>3
      <4>2. g[k - 1] = {S[n]} /\ g[k] = {S[n]}
        BY <3>3, <4>1
      <4> HIDE DEF g
      <4> QED  BY <1>6, <1>7, <3>3, <4>2
    <3> QED  BY <3>1, <3>2, <3>3
  <2>2. g = [k \in 0..N |-> g[k]]
    OBVIOUS
  <2> HIDE DEF g
  <2>3. g = D(g)
    BY <2>1, <2>2
  <2> HIDE DEF D
  <2> QED  BY <2>3, Zenon
<1>9. PICK after : after = loop
  OBVIOUS
<1>10. \A k \in 0..N : after[k] = IF k = 0 THEN {start} ELSE turns(after[k - 1])
  <2>1. after = D(after)
    BY <1>8, <1>9, Zenon
  <2> HIDE DEF loop
  <2>2. ASSUME NEW k \in 0..N PROVE D(after)[k] = IF k = 0 THEN {start} ELSE turns(after[k - 1])
    OBVIOUS
  <2> HIDE DEF D
  <2> QED  BY <2>1, <2>2
<1> HIDE DEF loop, D
<1> DEFINE T == [k \in 0..N |-> turns(after[k])]
<1>11. RunsThrough(N, n, after, T, S)
  <2>1. \A k \in 0..N : T[k] = turns(after[k])
    OBVIOUS
  <2> HIDE DEF T
  <2>2. N \in Nat /\ n \in 0..N /\ after[0] = {S[0]}
    BY <1>2, <1>3, <1>10
  <2>3. ASSUME NEW k \in 1..N PROVE after[k] = T[k - 1]
    <3>1. k \in 0..N /\ k - 1 \in 0..N /\ k # 0
      BY <1>3
    <3> QED  BY <1>10, <2>1, <3>1
  <2>4. ASSUME NEW k \in 0..N, k < n, after[k] = {S[k]} PROVE T[k] = {S[k + 1]}
    <3>1. k \in 0..n - 1
      BY <1>2, <1>3, <2>4
    <3>2. turn(S[k]) = {S[k + 1]}
      BY <1>5, <3>1
    <3> QED  BY <1>7, <2>1, <2>4, <3>2
  <2>5. ASSUME NEW k \in 0..N, after[k] = {S[n]} PROVE T[k] = {S[n]}
    BY <1>6, <1>7, <2>1, <2>5
  <2>6. ASSUME NEW j \in 0..N, NEW k \in 0..N, after[j] = after[k] PROVE T[j] = T[k]
    BY <2>1, <2>6
  <2> QED  BY <2>2, <2>3, <2>4, <2>5, <2>6 DEF RunsThrough
<1>12. after[CHOOSE k \in 0..N : k = N \/ T[k] = after[k]] = {S[n]}
  <2> HIDE DEF T
  <2> QED  BY <1>11, LoopEnds
<1> DEFINE at(g) == g[CHOOSE k \in 0..N : k = N \/ turns(g[k]) = g[k]]
<1>13. at(after) = {S[n]}
  <2>1. \A k \in 0..N : T[k] = turns(after[k])
    OBVIOUS
  <2> HIDE DEF T
  <2> QED  BY <1>12, <2>1
<1>14. end(CHOOSE g : made(g)) = at(after)
  BY <1>9, ZenonT(60) DEF loop, D
<1> HIDE DEF at, end, made
<1> QED  BY <1>1, <1>4, <1>13, <1>14, Zenon

PktTurnsRun(S, n) ==
  (\A k \in 0..n - 1 : CCNB!PktTurn(S[k]) = {S[k + 1]}) /\ CCNB!PktTurn(S[n]) = {S[n]}

LEMMA CcnbPkts ==
  ASSUME NEW N \in Nat, NEW n \in 0..N, NEW S, PktTurnsRun(S, n)
  PROVE  CCNB!Loop(CCNB!PktTurn, S[0], N) = {S[n]}
<1>1. PICK start : start = S[0]
  OBVIOUS
<1> DEFINE turn(s) == CCNB!PktTurn(s)
           turns(ss) == UNION {turn(s) : s \in ss}
           made(g) == g = [k \in 0..N |-> IF k = 0 THEN {start} ELSE turns(g[k - 1])]
           end(g) == g[CHOOSE k \in 0..N : k = N \/ turns(g[k]) = g[k]]
<1>2. n \in 0..N /\ S[0] = start
  BY <1>1
<1>3. N \in Nat
  OBVIOUS
<1>4. CCNB!Loop(CCNB!PktTurn, start, N) = end(CHOOSE g : made(g))
  BY Zenon DEF CCNB!Loop, CCNB!AndThen
<1>5. ASSUME NEW k \in 0..n - 1 PROVE turn(S[k]) = {S[k + 1]}
  BY Zenon DEF PktTurnsRun
<1>6. turn(S[n]) = {S[n]}
  BY Zenon DEF PktTurnsRun
<1> HIDE DEF turn
<1>7. ASSUME NEW s PROVE turns({s}) = turn(s)
  OBVIOUS
<1> HIDE DEF turns
<1> DEFINE D(g) == [k \in 0..N |-> IF k = 0 THEN {start} ELSE turns(g[k - 1])]
           loop == CHOOSE g : g = D(g)
<1>8. loop = D(loop)
  <2> DEFINE g == [k \in 0..N |-> IF k < n THEN {S[k]} ELSE {S[n]}]
  <2>1. ASSUME NEW k \in 0..N PROVE g[k] = IF k = 0 THEN {start} ELSE turns(g[k - 1])
    <3>1. CASE k = 0
      BY <1>2, <1>3, <3>1
    <3>2. CASE k # 0 /\ k - 1 < n
      <4>1. k - 1 \in 0..n - 1 /\ k - 1 \in 0..N /\ k - 1 + 1 = k
        BY <1>2, <1>3, <3>2
      <4>2. g[k - 1] = {S[k - 1]} /\ g[k] = {S[k]}
        BY <1>2, <1>3, <3>2, <4>1
      <4>3. turn(S[k - 1]) = {S[k - 1 + 1]}
        BY <1>5, <4>1
      <4> HIDE DEF g
      <4>4. turns(g[k - 1]) = {S[k]}
        BY <1>7, <4>1, <4>2, <4>3
      <4> QED  BY <3>2, <4>2, <4>4
    <3>3. CASE k # 0 /\ ~ (k - 1 < n)
      <4>1. k - 1 \in 0..N /\ ~ (k < n)
        BY <1>2, <1>3, <3>3
      <4>2. g[k - 1] = {S[n]} /\ g[k] = {S[n]}
        BY <3>3, <4>1
      <4> HIDE DEF g
      <4> QED  BY <1>6, <1>7, <3>3, <4>2
    <3> QED  BY <3>1, <3>2, <3>3
  <2>2. g = [k \in 0..N |-> g[k]]
    OBVIOUS
  <2> HIDE DEF g
  <2>3. g = D(g)
    BY <2>1, <2>2
  <2> HIDE DEF D
  <2> QED  BY <2>3, Zenon
<1>9. PICK after : after = loop
  OBVIOUS
<1>10. \A k \in 0..N : after[k] = IF k = 0 THEN {start} ELSE turns(after[k - 1])
  <2>1. after = D(after)
    BY <1>8, <1>9, Zenon
  <2> HIDE DEF loop
  <2>2. ASSUME NEW k \in 0..N PROVE D(after)[k] = IF k = 0 THEN {start} ELSE turns(after[k - 1])
    OBVIOUS
  <2> HIDE DEF D
  <2> QED  BY <2>1, <2>2
<1> HIDE DEF loop, D
<1> DEFINE T == [k \in 0..N |-> turns(after[k])]
<1>11. RunsThrough(N, n, after, T, S)
  <2>1. \A k \in 0..N : T[k] = turns(after[k])
    OBVIOUS
  <2> HIDE DEF T
  <2>2. N \in Nat /\ n \in 0..N /\ after[0] = {S[0]}
    BY <1>2, <1>3, <1>10
  <2>3. ASSUME NEW k \in 1..N PROVE after[k] = T[k - 1]
    <3>1. k \in 0..N /\ k - 1 \in 0..N /\ k # 0
      BY <1>3
    <3> QED  BY <1>10, <2>1, <3>1
  <2>4. ASSUME NEW k \in 0..N, k < n, after[k] = {S[k]} PROVE T[k] = {S[k + 1]}
    <3>1. k \in 0..n - 1
      BY <1>2, <1>3, <2>4
    <3>2. turn(S[k]) = {S[k + 1]}
      BY <1>5, <3>1
    <3> QED  BY <1>7, <2>1, <2>4, <3>2
  <2>5. ASSUME NEW k \in 0..N, after[k] = {S[n]} PROVE T[k] = {S[n]}
    BY <1>6, <1>7, <2>1, <2>5
  <2>6. ASSUME NEW j \in 0..N, NEW k \in 0..N, after[j] = after[k] PROVE T[j] = T[k]
    BY <2>1, <2>6
  <2> QED  BY <2>2, <2>3, <2>4, <2>5, <2>6 DEF RunsThrough
<1>12. after[CHOOSE k \in 0..N : k = N \/ T[k] = after[k]] = {S[n]}
  <2> HIDE DEF T
  <2> QED  BY <1>11, LoopEnds
<1> DEFINE at(g) == g[CHOOSE k \in 0..N : k = N \/ turns(g[k]) = g[k]]
<1>13. at(after) = {S[n]}
  <2>1. \A k \in 0..N : T[k] = turns(after[k])
    OBVIOUS
  <2> HIDE DEF T
  <2> QED  BY <1>12, <2>1
<1>14. end(CHOOSE g : made(g)) = at(after)
  BY <1>9, ZenonT(60) DEF loop, D
<1> HIDE DEF at, end, made
<1> QED  BY <1>1, <1>4, <1>13, <1>14, Zenon

-----------------------------------------------------------------------------
(***************************************************************************)
(* Buffers one after another.                                              *)
(***************************************************************************)

(* Induction up to n *)
LEMMA UpTo ==
  ASSUME NEW n \in Nat, NEW A, 0 \in A, \A k \in 1..n : k - 1 \in A => k \in A
  PROVE  \A k \in 0..n : k \in A
<1> DEFINE f == [k \in 0..n |-> IF k \in A THEN 1 ELSE 0]
           g == [k \in 0..n |-> 1]
<1>1. StepsAlike(n, f, g)
  <2>1. f[0] = g[0]
    OBVIOUS
  <2>2. ASSUME NEW k \in 1..n, f[k - 1] = g[k - 1] PROVE f[k] = g[k]
    <3>1. k - 1 \in 0..n /\ k \in 0..n
      OBVIOUS
    <3>2. k - 1 \in A
      BY <2>2, <3>1
    <3> QED  BY <3>1, <3>2
  <2> HIDE DEF f, g
  <2> QED  BY <2>1, <2>2 DEF StepsAlike
<1>2. \A k \in 0..n : f[k] = g[k]
  <2> HIDE DEF f, g
  <2> QED  BY <1>1, Agree
<1>3. ASSUME NEW k \in 0..n PROVE k \in A
  <2>1. f[k] = 1
    BY <1>2
  <2> QED  BY <2>1
<1> QED  BY <1>3

(* F[k] are the first k buffers of ss, one after another. *)
Joined(ss, F) ==
  /\ F[0] = <<>>
  /\ \A k \in 1..Len(ss) : F[k] = F[k - 1] \o ss[k]
  /\ \A k \in 0..Len(ss) : F[k] \in Buffer
  /\ FlattenSeq(ss) = F[Len(ss)]

LEMMA Flattens ==
  ASSUME NEW ss \in Seq(Buffer)
  PROVE  \E F : Joined(ss, F)
<1>1. PICK n \in Nat : n = Len(ss)
  OBVIOUS
<1>2. \A k \in 1..n : ss[k] \in Buffer
  BY <1>1, ElementOfSeq
<1>3. CASE n = 0
  <2>1. ss = <<>>
    BY <1>1, <1>3, EmptySeq
  <2>2. FlattenSeq(ss) = <<>>
    BY <1>1, <1>3, <2>1 DEF FlattenSeq
  <2> DEFINE F == [k \in 0..0 |-> <<>>]
  <2>3. F[0] = <<>> /\ <<>> \in Buffer
    BY BufferEmpty
  <2> HIDE DEF F
  <2>4. Joined(ss, F)
    BY <1>1, <1>3, <2>2, <2>3 DEF Joined
  <2> QED  BY <2>4
<1>4. CASE n # 0
  <2> DEFINE D(m, g) == [i \in 1..m |-> IF i = 1 THEN ss[i] ELSE g[i - 1] \o ss[i]]
             A == {m \in 0..n : \E g : g = D(m, g)}
  <2>1. 0 \in A
    <3> DEFINE g == [i \in 1..0 |-> ss[i]]
    <3>1. g = D(0, g)
      OBVIOUS
    <3> HIDE DEF D, g
    <3> QED  BY <3>1
  <2>2. ASSUME NEW m \in 1..n, m - 1 \in A PROVE m \in A
    <3>1. PICK g : g = D(m - 1, g)
      BY <2>2
    <3> DEFINE h == [i \in 1..m |-> IF i < m THEN g[i] ELSE IF m = 1 THEN ss[m] ELSE g[m - 1] \o ss[m]]
    <3>2. ASSUME NEW i \in 1..m PROVE h[i] = IF i = 1 THEN ss[i] ELSE h[i - 1] \o ss[i]
      <4>1. CASE i < m
        <5>1. i \in 1..m - 1 /\ (i # 1 => i - 1 \in 1..m /\ i - 1 < m)
          BY <4>1
        <5>2. g[i] = IF i = 1 THEN ss[i] ELSE g[i - 1] \o ss[i]
          BY <3>1, <5>1
        <5>3. h[i] = g[i] /\ (i # 1 => h[i - 1] = g[i - 1])
          BY <4>1, <5>1
        <5> HIDE DEF h
        <5> QED  BY <5>2, <5>3
      <4>2. CASE i = m
        <5>1. m # 1 => m - 1 \in 1..m /\ m - 1 < m
          OBVIOUS
        <5>2. h[m] = IF m = 1 THEN ss[m] ELSE g[m - 1] \o ss[m]
          OBVIOUS
        <5>3. m # 1 => h[m - 1] = g[m - 1]
          BY <5>1
        <5> HIDE DEF h
        <5> QED  BY <4>2, <5>2, <5>3
      <4> QED  BY <4>1, <4>2
    <3>3. h = [i \in 1..m |-> h[i]]
      OBVIOUS
    <3> HIDE DEF h
    <3>4. h = D(m, h)
      BY <3>2, <3>3
    <3>5. m \in 0..n
      OBVIOUS
    <3> HIDE DEF D
    <3> QED  BY <3>4, <3>5
  <2>3. \E g : g = D(n, g)
    <3>1. n \in 0..n
      BY <1>1
    <3> HIDE DEF A
    <3>2. \A m \in 0..n : m \in A
      BY <1>1, <2>1, <2>2, UpTo
    <3> QED  BY <3>1, <3>2 DEF A
  <2>4. PICK g : g = D(n, g) /\ FlattenSeq(ss) = g[n]
    <3> DEFINE c == CHOOSE g : g = D(n, g)
    <3>1. FlattenSeq(ss) = c[n]
      <4>1. Len(ss) # 0
        BY <1>1, <1>4
      <4> QED  BY <1>1, <4>1, Zenon DEF FlattenSeq
    <3> HIDE DEF D
    <3>2. c = D(n, c)
      BY <2>3, Zenon
    <3> QED  BY <3>1, <3>2, Zenon
  <2> DEFINE F == [k \in 0..n |-> IF k = 0 THEN <<>> ELSE g[k]]
  <2>5. F[0] = <<>> /\ F[n] = g[n]
    BY <1>1, <1>4
  <2>6. ASSUME NEW k \in 1..n PROVE F[k] = IF k = 1 THEN ss[k] ELSE F[k - 1] \o ss[k]
    <3>1. g[k] = IF k = 1 THEN ss[k] ELSE g[k - 1] \o ss[k]
      BY <2>4
    <3>2. F[k] = g[k] /\ (k # 1 => F[k - 1] = g[k - 1])
      OBVIOUS
    <3> HIDE DEF F
    <3> QED  BY <3>1, <3>2
  <2> HIDE DEF F
  <2>7. ASSUME NEW k \in 1..n PROVE F[k] = F[k - 1] \o ss[k]
    <3>1. CASE k = 1
      <4>1. ss[k] \in Buffer /\ k - 1 = 0
        BY <1>2, <3>1
      <4>2. <<>> \o ss[k] = ss[k]
        BY <4>1, BufferEmptyConcat
      <4> QED  BY <2>5, <2>6, <3>1, <4>1, <4>2
    <3>2. CASE k # 1
      BY <2>6, <3>2
    <3> QED  BY <3>1, <3>2
  <2>8. \A k \in 0..n : F[k] \in Buffer
    <3> DEFINE B == {k \in 0..n : F[k] \in Buffer}
    <3>1. 0 \in B
      BY <1>1, <2>5, BufferEmpty
    <3>2. ASSUME NEW k \in 1..n, k - 1 \in B PROVE k \in B
      <4>1. F[k - 1] \in Buffer /\ ss[k] \in Buffer
        BY <1>2, <3>2
      <4>2. F[k - 1] \o ss[k] \in Buffer
        BY <4>1, BufferConcat
      <4> QED  BY <2>7, <4>2, k \in 0..n
    <3> HIDE DEF B
    <3>3. \A k \in 0..n : k \in B
      BY <1>1, <3>1, <3>2, UpTo
    <3> QED  BY <3>3 DEF B
  <2>9. Joined(ss, F)
    BY <1>1, <2>4, <2>5, <2>7, <2>8 DEF Joined
  <2> QED  BY <2>9
<1> QED  BY <1>3, <1>4

(* No part is longer than the whole, and the whole begins with each first part. *)
LEMMA Parts ==
  ASSUME NEW ss \in Seq(Buffer), NEW F, Joined(ss, F), NEW k \in 0..Len(ss)
  PROVE  /\ \E r \in Buffer : FlattenSeq(ss) = F[k] \o r
         /\ k > 0 => Len(ss[k]) =< Len(FlattenSeq(ss))
<1>1. PICK n \in Nat : n = Len(ss)
  OBVIOUS
<1>2. /\ \A j \in 1..n : F[j] = F[j - 1] \o ss[j] /\ ss[j] \in Buffer
      /\ \A j \in 0..n : F[j] \in Buffer
      /\ FlattenSeq(ss) = F[n]
  BY <1>1, ElementOfSeq DEF Joined
<1> DEFINE A == {m \in 0..n : m < k \/ \E r \in Buffer : F[m] = F[k] \o r}
<1>3. ASSUME NEW m \in 1..n, m - 1 \in A PROVE m \in A
  <2>1. CASE m = k
    <3>1. F[k] = F[k] \o <<>> /\ <<>> \in Buffer
      BY <1>1, <1>2, BufferEmpty, BufferEmptyConcat
    <3>2. \E r \in Buffer : F[m] = F[k] \o r
      BY <2>1, <3>1, Zenon
    <3>3. m \in 0..n
      OBVIOUS
    <3> QED  BY <3>2, <3>3, Zenon
  <2>2. CASE m > k
    <3>1. PICK r \in Buffer : F[m - 1] = F[k] \o r
      BY <1>3, <1>1, <2>2
    <3>2. F[m] = (F[k] \o r) \o ss[m] /\ ss[m] \in Buffer /\ F[k] \in Buffer
      BY <1>1, <1>2, <3>1
    <3>3. (F[k] \o r) \o ss[m] = F[k] \o (r \o ss[m])
      BY <3>2, BufferAssociative
    <3>4. r \o ss[m] \in Buffer
      BY <3>2, BufferConcat
    <3>5. \E t \in Buffer : F[m] = F[k] \o t
      BY <3>2, <3>3, <3>4, Zenon
    <3>6. m \in 0..n
      OBVIOUS
    <3> QED  BY <3>5, <3>6, Zenon
  <2>3. CASE m < k
    BY <2>3
  <2>4. m = k \/ m > k \/ m < k
    BY <1>1
  <2> HIDE DEF A
  <2> QED  BY <2>1, <2>2, <2>3, <2>4
<1>4. 0 \in A
  <2>1. CASE k = 0
    <3>1. F[k] = F[k] \o <<>> /\ <<>> \in Buffer
      BY <1>1, <1>2, BufferEmpty, BufferEmptyConcat
    <3> QED  BY <1>1, <2>1, <3>1
  <2> QED  BY <1>1, <2>1
<1>5. \A m \in 0..n : m \in A
  <2> HIDE DEF A
  <2> QED  BY <1>1, <1>3, <1>4, UpTo
<1>6. PICK r \in Buffer : F[n] = F[k] \o r
  <2>1. n \in 0..n /\ ~ (n < k)
    BY <1>1
  <2>2. n < k \/ \E r \in Buffer : F[n] = F[k] \o r
    BY <1>5, <2>1
  <2> QED  BY <2>1, <2>2
<1>7. ASSUME k > 0 PROVE Len(ss[k]) =< Len(FlattenSeq(ss))
  <2>1. k \in 1..n /\ k - 1 \in 0..n
    BY <1>1, <1>7
  <2>2. F[k - 1] \in Buffer /\ ss[k] \in Buffer /\ F[k] = F[k - 1] \o ss[k] /\ F[k] \in Buffer
    BY <1>1, <1>2, <2>1
  <2>3. Len(F[k]) = Len(F[k - 1]) + Len(ss[k])
    BY <2>2, BufferConcat
  <2>4. Len(F[k] \o r) = Len(F[k]) + Len(r)
    BY <2>2, BufferConcat
  <2>5. Len(F[k - 1]) \in Nat /\ Len(ss[k]) \in Nat /\ Len(r) \in Nat
    BY <2>2, BufferLen
  <2>6. Len(FlattenSeq(ss)) = Len(F[k]) + Len(r)
    BY <1>2, <1>6, <2>4, Zenon
  <2>7. ASSUME NEW a \in Nat, NEW b \in Nat, NEW c \in Nat PROVE b =< (a + b) + c
    OBVIOUS
  <2> QED  BY <2>3, <2>5, <2>6, <2>7, Zenon
<1> QED  BY <1>2, <1>6, <1>7

(* A sequence grows from nothing by one element at a time. *)
LEMMA OneMore ==
  ASSUME NEW X, NEW s \in Seq(X)
  PROVE  /\ SubSeq(s, 1, 0) = <<>> /\ SubSeq(s, 1, Len(s)) = s
         /\ \A k \in 0..Len(s) : SubSeq(s, 1, k) \in Seq(X) /\ Len(SubSeq(s, 1, k)) = k
         /\ \A k \in 1..Len(s) : Append(SubSeq(s, 1, k - 1), s[k]) = SubSeq(s, 1, k)
<1>1. PICK n \in Nat : n = Len(s)
  OBVIOUS
<1>2. \A k \in 1..n : s[k] \in X
  BY <1>1, ElementOfSeq
<1>3. ASSUME NEW k \in 0..n
      PROVE  /\ SubSeq(s, 1, k) \in Seq(X) /\ Len(SubSeq(s, 1, k)) = k
             /\ \A i \in 1..k : SubSeq(s, 1, k)[i] = s[i]
  <2>1. k \in Nat /\ \A i \in 1..k : s[i] \in X
    BY <1>1, <1>2
  <2>2. /\ SubSeq(s, 1, k) \in Seq(X)
        /\ Len(SubSeq(s, 1, k)) = IF 1 <= k THEN k - 1 + 1 ELSE 0
        /\ \A i \in 1..k - 1 + 1 : SubSeq(s, 1, k)[i] = s[1 + i - 1]
    BY <2>1, SubSeqProperties
  <2>3. ASSUME NEW i \in 1..k PROVE SubSeq(s, 1, k)[i] = s[i]
    <3>1. i \in 1..k - 1 + 1 /\ 1 + i - 1 = i
      BY <2>1
    <3> QED  BY <2>2, <3>1
  <2> QED  BY <2>1, <2>2, <2>3
<1>4. SubSeq(s, 1, 0) = <<>>
  <2>1. 0 \in 0..n
    BY <1>1
  <2> QED  BY <1>3, <2>1, EmptySeq
<1>5. SubSeq(s, 1, n) = s
  <2>1. n \in 0..n
    BY <1>1
  <2>2. SubSeq(s, 1, n) \in Seq(X) /\ Len(SubSeq(s, 1, n)) = n /\ \A i \in 1..n : SubSeq(s, 1, n)[i] = s[i]
    BY <1>3, <2>1
  <2> QED  BY <1>1, <2>2, SeqEqual
<1>6. ASSUME NEW k \in 1..n PROVE Append(SubSeq(s, 1, k - 1), s[k]) = SubSeq(s, 1, k)
  <2>1. k - 1 \in 0..n /\ k \in 0..n /\ s[k] \in X
    BY <1>2
  <2>2. PICK t : t = SubSeq(s, 1, k - 1)
    OBVIOUS
  <2>3. t \in Seq(X) /\ Len(t) = k - 1 /\ \A i \in 1..k - 1 : t[i] = s[i]
    BY <1>3, <2>1, <2>2
  <2>4. /\ Append(t, s[k]) \in Seq(X) /\ Len(Append(t, s[k])) = Len(t) + 1
        /\ \A i \in 1..Len(t) : Append(t, s[k])[i] = t[i]
        /\ Append(t, s[k])[Len(t) + 1] = s[k]
    BY <2>1, <2>3, AppendProperties
  <2>5. PICK u : u = SubSeq(s, 1, k)
    OBVIOUS
  <2>6. u \in Seq(X) /\ Len(u) = k /\ \A i \in 1..k : u[i] = s[i]
    BY <1>3, <2>1, <2>5
  <2>7. Len(Append(t, s[k])) = k /\ \A i \in 1..k : Append(t, s[k])[i] = u[i]
    <3>1. k - 1 + 1 = k
      OBVIOUS
    <3>2. ASSUME NEW i \in 1..k PROVE Append(t, s[k])[i] = u[i]
      <4>1. i \in 1..k - 1 \/ i = k
        OBVIOUS
      <4> QED  BY <2>3, <2>4, <2>6, <3>1, <4>1
    <3> QED  BY <2>3, <2>4, <3>1, <3>2
  <2>8. Append(t, s[k]) = u
    BY <2>4, <2>6, <2>7, SeqEqual
  <2> QED  BY <2>2, <2>5, <2>8
<1> QED  BY <1>1, <1>3, <1>4, <1>5, <1>6

-----------------------------------------------------------------------------
(***************************************************************************)
(* NDN: numbers and names.                                                 *)
(***************************************************************************)
LEMMA NdnNonNegIntVal ==
  ASSUME NEW v \in Count
  PROVE  /\ NDN!NonNegIntVal(v) \in Buffer /\ Len(NDN!NonNegIntVal(v)) \in 1..4
         /\ NDN!Number(NDN!NonNegIntVal(v)) = v
<1>0. v \in Nat /\ v =< 2147483647
  BY SMT DEF Count
<1>1. ASSUME NEW n, Holds(n, v), NDN!NonNegIntVal(v) = NDN!BigEndian(n, v)
      PROVE  /\ NDN!NonNegIntVal(v) \in Buffer /\ Len(NDN!NonNegIntVal(v)) \in 1..4
             /\ NDN!Number(NDN!NonNegIntVal(v)) = v
  <2>1. n \in 1..4 /\ v \in Nat
    BY <1>1 DEF Holds
  <2>2. BigEndian(n, v) \in Buffer /\ Len(BigEndian(n, v)) = n
    BY <2>1, BigEndianOctets
  <2>3. Number(BigEndian(n, v)) = v
    BY <1>1, BigEndianNumber
  <2> QED  BY <1>1, <2>1, <2>2, <2>3, NdnOctets
<1>2. CASE v < 256
  <2>1. NDN!NonNegIntVal(v) = NDN!BigEndian(1, v) /\ Holds(1, v)
    BY <1>0, <1>2, SMT DEF NDN!NonNegIntVal, Holds
  <2> QED  BY <1>1, <2>1, SMT
<1>3. CASE v >= 256 /\ v < 65536
  <2>1. NDN!NonNegIntVal(v) = NDN!BigEndian(2, v) /\ Holds(2, v)
    BY <1>0, <1>3, SMT DEF NDN!NonNegIntVal, Holds
  <2> QED  BY <1>1, <2>1, SMT
<1>4. CASE v >= 65536
  <2>1. NDN!NonNegIntVal(v) = NDN!BigEndian(4, v) /\ Holds(4, v)
    BY <1>0, <1>4, SMT DEF NDN!NonNegIntVal, Holds
  <2> QED  BY <1>1, <2>1, SMT
<1> QED  BY <1>0, <1>2, <1>3, <1>4, SMT

(* A chunk as a component *)
Marked(v) == <<NDN!SegmentMarker>> \o NDN!NonNegIntVal(v)

LEMMA NdnMarked ==
  ASSUME NEW v \in Count
  PROVE  /\ Marked(v) \in Buffer /\ Len(Marked(v)) \in 1..5 /\ Len(Marked(v)) \in Count
         /\ Marked(v)[1] = 0 /\ NDN!Number(Tail(Marked(v))) = v
<1>1. PICK e : e = NDN!NonNegIntVal(v)
  OBVIOUS
<1>2. e \in Buffer /\ Len(e) \in 1..4 /\ NDN!Number(e) = v
  BY <1>1, NdnNonNegIntVal
<1>3. Marked(v) = <<0>> \o e /\ 0 \in Octet
  BY <1>1, NdnTypes DEF Octet, Marked
<1>4. PICK m : m = <<0>> \o e
  OBVIOUS
<1>5. m \in Buffer /\ Len(m) = Len(e) + 1 /\ m[1] = 0 /\ Tail(m) = e
  BY <1>2, <1>3, <1>4, OneOctet
<1>6. \A i \in 1..4 : i + 1 \in 1..5 /\ i + 1 \in 0..255
  OBVIOUS
<1>7. Len(m) \in 1..5 /\ Len(m) \in 0..255
  BY <1>2, <1>5, <1>6, ZenonT(60)
<1>8. Len(m) \in Count
  BY <1>7, SmallCount, Zenon
<1> QED  BY <1>2, <1>3, <1>4, <1>5, <1>7, <1>8, Zenon

LEMMA NdnLonger ==
  ASSUME NEW type \in Count, NEW v \in Buffer, NEW r \in Buffer
  PROVE  NDN!Blob(type, v) \o r \in Buffer /\ Len(r) < Len(NDN!Blob(type, v) \o r)
<1>1. PICK b : b = NDN!Blob(type, v)
  OBVIOUS
<1>2. b \in Buffer /\ Len(b) >= Len(v) + 2 /\ Len(b) \in Nat /\ Len(v) \in Nat /\ Len(r) \in Nat
  BY <1>1, NdnBlob, BufferLen
<1>3. b \o r \in Buffer /\ Len(b \o r) = Len(b) + Len(r)
  BY <1>2, BufferConcat
<1>4. \A i, j, k \in Nat : i >= j + 2 => k < i + k
  OBVIOUS
<1> QED  BY <1>1, <1>2, <1>3, <1>4, Zenon

(* An element, whatever reads it, and what is read after it *)

LEMMA NdnField ==
  ASSUME NEW type \in Count, NEW v \in Buffer, Len(v) \in Count, NEW r \in Buffer,
         NEW p, NEW p1, NEW q, NDN!ReadField(p, [type |-> type, val |-> v, rest |-> r]) = {p1},
         Reads(NDN!Dehead, NDN!ReadField, r, p1, q)
  PROVE  Reads(NDN!Dehead, NDN!ReadField, NDN!Blob(type, v) \o r, p, q)
<1>1. PICK f : f = [type |-> type, val |-> v, rest |-> r]
  OBVIOUS
<1>2. PICK b : b = NDN!Blob(type, v) \o r
  OBVIOUS
<1>3. b \in Buffer /\ Len(r) < Len(b)
  BY <1>2, NdnLonger
<1>4. NDN!Dehead(b) = {f}
  BY <1>1, <1>2, NdnDehead
<1>5. f.rest = r /\ NDN!ReadField(p, f) = {p1}
  BY <1>1
<1> QED  BY <1>2, <1>3, <1>4, <1>5, NdnFieldFirst

LEMMA NdnComponent ==
  ASSUME NEW type \in Count, NEW v \in Buffer, Len(v) \in Count, NEW r \in Buffer,
         NEW p, NEW p1, NEW q, NDN!AddComponent(p, [type |-> type, val |-> v, rest |-> r]) = {p1},
         Reads(NDN!Dehead, NDN!AddComponent, r, p1, q)
  PROVE  Reads(NDN!Dehead, NDN!AddComponent, NDN!Blob(type, v) \o r, p, q)
<1>1. PICK f : f = [type |-> type, val |-> v, rest |-> r]
  OBVIOUS
<1>2. PICK b : b = NDN!Blob(type, v) \o r
  OBVIOUS
<1>3. b \in Buffer /\ Len(r) < Len(b)
  BY <1>2, NdnLonger
<1>4. NDN!Dehead(b) = {f}
  BY <1>1, <1>2, NdnDehead
<1>5. f.rest = r /\ NDN!AddComponent(p, f) = {p1}
  BY <1>1
<1> QED  BY <1>2, <1>3, <1>4, <1>5, NdnComponentFirst

LEMMA NdnSelector ==
  ASSUME NEW type \in Count, NEW v \in Buffer, Len(v) \in Count, NEW r \in Buffer,
         NEW p, NEW p1, NEW q, NDN!ReadSelector(p, [type |-> type, val |-> v, rest |-> r]) = {p1},
         Reads(NDN!Dehead, NDN!ReadSelector, r, p1, q)
  PROVE  Reads(NDN!Dehead, NDN!ReadSelector, NDN!Blob(type, v) \o r, p, q)
<1>1. PICK f : f = [type |-> type, val |-> v, rest |-> r]
  OBVIOUS
<1>2. PICK b : b = NDN!Blob(type, v) \o r
  OBVIOUS
<1>3. b \in Buffer /\ Len(r) < Len(b)
  BY <1>2, NdnLonger
<1>4. NDN!Dehead(b) = {f}
  BY <1>1, <1>2, NdnDehead
<1>5. f.rest = r /\ NDN!ReadSelector(p, f) = {p1}
  BY <1>1
<1> QED  BY <1>2, <1>3, <1>4, <1>5, NdnSelectorFirst

LEMMA NdnMetaInfo ==
  ASSUME NEW type \in Count, NEW v \in Buffer, Len(v) \in Count, NEW r \in Buffer,
         NEW p, NEW p1, NEW q, NDN!ReadMetaInfo(p, [type |-> type, val |-> v, rest |-> r]) = {p1},
         Reads(NDN!Dehead, NDN!ReadMetaInfo, r, p1, q)
  PROVE  Reads(NDN!Dehead, NDN!ReadMetaInfo, NDN!Blob(type, v) \o r, p, q)
<1>1. PICK f : f = [type |-> type, val |-> v, rest |-> r]
  OBVIOUS
<1>2. PICK b : b = NDN!Blob(type, v) \o r
  OBVIOUS
<1>3. b \in Buffer /\ Len(r) < Len(b)
  BY <1>2, NdnLonger
<1>4. NDN!Dehead(b) = {f}
  BY <1>1, <1>2, NdnDehead
<1>5. f.rest = r /\ NDN!ReadMetaInfo(p, f) = {p1}
  BY <1>1
<1> QED  BY <1>2, <1>3, <1>4, <1>5, NdnMetaInfoFirst

(* The components of an NDN name, none of which reads as a chunk *)
NdnComps(comps) ==
  /\ comps \in Seq(Buffer)
  /\ \A k \in 1..Len(comps) : comps[k] # <<>> /\ comps[k][1] # 0
NdnChunkComp(chunk) == IF chunk = None THEN <<>> ELSE <<Marked(chunk)>>
NdnNameBody(comps, chunk) ==
  FlattenSeq([k \in 1..Len(comps) |-> NDN!Blob(8, comps[k])])
  \o IF chunk = None THEN <<>> ELSE NDN!Blob(8, Marked(chunk))
NameUpTo(comps, k) == [comps |-> SubSeq(comps, 1, k), chunk |-> None]

LEMMA NdnNextComponent ==
  ASSUME NEW comps, NdnComps(comps), NEW k \in 1..Len(comps), k =< MaxNameComp,
         NEW f, f.type = 8, f.val = comps[k]
  PROVE  NDN!AddComponent(NameUpTo(comps, k - 1), f) = {NameUpTo(comps, k)}
<1>1. /\ comps \in Seq(Buffer) /\ comps[k] # <<>> /\ comps[k][1] # 0 /\ Len(comps) \in Nat
  BY BufferLen DEF NdnComps
<1>2. /\ Len(SubSeq(comps, 1, k - 1)) = k - 1
      /\ Append(SubSeq(comps, 1, k - 1), comps[k]) = SubSeq(comps, 1, k)
  BY <1>1, OneMore
<1>3. MaxNameComp \in Nat
  BY FrameAssumption
<1>4. k - 1 # MaxNameComp
  BY <1>1, <1>3
<1> DEFINE n == NameUpTo(comps, k - 1)
<1>5. n.comps = SubSeq(comps, 1, k - 1) /\ n.chunk = None
  BY DEF NameUpTo
<1> HIDE DEF n
<1>6. f.type = NDN!TLV.NameComponent /\ f.val[1] # NDN!SegmentMarker
  BY <1>1, NdnTypes
<1>7. NDN!AddComponent(n, f) = {[comps |-> Append(n.comps, f.val), chunk |-> n.chunk]}
  BY <1>2, <1>4, <1>5, <1>6 DEF NDN!AddComponent
<1> QED  BY <1>2, <1>5, <1>7 DEF NameUpTo, n

LEMMA NdnLastComponent ==
  ASSUME NEW comps, NdnComps(comps), Len(comps) < MaxNameComp, NEW v \in Count,
         NEW f, f.type = 8, f.val = Marked(v)
  PROVE  NDN!AddComponent(NameUpTo(comps, Len(comps)), f) = {[comps |-> comps \o <<Marked(v)>>, chunk |-> v]}
<1>1. comps \in Seq(Buffer) /\ Len(comps) \in Nat
  BY BufferLen DEF NdnComps
<1>2. NameUpTo(comps, Len(comps)) = [comps |-> comps, chunk |-> None]
  BY <1>1, OneMore DEF NameUpTo
<1>3. PICK m : m = Marked(v)
  OBVIOUS
<1>4. m \in Buffer /\ m[1] = 0 /\ NDN!Number(Tail(m)) = v
  BY <1>3, NdnMarked
<1>5. Append(comps, m) = comps \o <<m>>
  BY <1>1, <1>4, AppendIsConcat
<1>6. MaxNameComp \in Nat
  BY FrameAssumption
<1>7. Len(comps) # MaxNameComp
  BY <1>1, <1>6
<1> DEFINE n == [comps |-> comps, chunk |-> None]
<1>8. n.comps = comps
  OBVIOUS
<1> HIDE DEF n
<1>9. f.type = NDN!TLV.NameComponent /\ f.val[1] = NDN!SegmentMarker /\ f.val = m
  BY <1>3, <1>4, NdnTypes
<1>10. NDN!AddComponent(n, f) = {[comps |-> Append(n.comps, f.val), chunk |-> NDN!Number(Tail(f.val))]}
  BY <1>7, <1>8, <1>9 DEF NDN!AddComponent
<1> QED  BY <1>2, <1>3, <1>4, <1>5, <1>8, <1>9, <1>10 DEF n

(* A name is read as it was written, its chunk number as a last component as well. *)
LEMMA NdnNameRead ==
  ASSUME NEW comps, NdnComps(comps), NEW chunk, chunk = None \/ chunk \in Count,
         Len(comps) + (IF chunk = None THEN 0 ELSE 1) =< MaxNameComp
  PROVE  /\ NdnNameBody(comps, chunk) \in Buffer
         /\ NDN!MkName([comps |-> comps, chunk |-> chunk]) = NDN!Blob(7, NdnNameBody(comps, chunk))
         /\ Len(NdnNameBody(comps, chunk)) \in Count =>
              NDN!ReadName(NdnNameBody(comps, chunk)) = {[comps |-> comps \o NdnChunkComp(chunk), chunk |-> chunk]}
<1>1. comps \in Seq(Buffer)
  BY DEF NdnComps
<1>2. PICK n \in Nat : n = Len(comps)
  BY <1>1
<1>3. \A k \in 1..n : comps[k] \in Buffer
  BY <1>1, <1>2, ElementOfSeq
<1>4. PICK ss : ss = [k \in 1..n |-> NDN!Blob(8, comps[k])]
  OBVIOUS
<1>o. 8 \in Count
  BY SmallCount
<1>5. \A k \in 1..n : ss[k] = NDN!Blob(8, comps[k]) /\ ss[k] \in Buffer /\ Len(ss[k]) >= Len(comps[k]) + 2
  BY <1>3, <1>4, <1>o, NdnBlob
<1>6. ss \in Seq(Buffer) /\ Len(ss) = n
  BY <1>4, <1>5
<1>7. PICK F : Joined(ss, F)
  BY <1>6, Flattens
<1>8. PICK last : last = IF chunk = None THEN <<>> ELSE NDN!Blob(8, Marked(chunk))
  OBVIOUS
<1>9. last \in Buffer
  <2>1. CASE chunk = None
    BY <1>8, <2>1, BufferEmpty
  <2>2. CASE chunk # None
    <3>1. Marked(chunk) \in Buffer
      BY <2>2, NdnMarked
    <3> QED  BY <1>8, <1>o, <2>2, <3>1, NdnBlob
  <2> QED  BY <2>1, <2>2
<1>10. /\ F[0] = <<>> /\ FlattenSeq(ss) = F[n]
       /\ \A k \in 1..n : F[k] = F[k - 1] \o ss[k]
       /\ \A k \in 0..n : F[k] \in Buffer
  BY <1>6, <1>7 DEF Joined
<1>11. NdnNameBody(comps, chunk) = F[n] \o last
  BY <1>2, <1>4, <1>8, <1>10 DEF NdnNameBody
<1>12. F[n] \in Buffer /\ F[n] \o last \in Buffer /\ Len(F[n] \o last) = Len(F[n]) + Len(last)
  <2>1. F[n] \in Buffer
    BY <1>10
  <2> QED  BY <1>9, <2>1, BufferConcat
<1>13. NDN!MkName([comps |-> comps, chunk |-> chunk]) = NDN!Blob(7, F[n] \o last)
  <2>1. PICK name : name = [comps |-> comps, chunk |-> chunk]
    OBVIOUS
  <2>2. name.comps = comps /\ name.chunk = chunk
    BY <2>1
  <2>3. DOMAIN comps = 1..n
    BY <1>1, <1>2, LenProperties
  <2>4. [k \in DOMAIN name.comps |-> NDN!Blob(8, name.comps[k])] = ss
    BY <1>4, <2>2, <2>3
  <2>5. (IF name.chunk = NDN!None THEN <<>> ELSE NDN!IncludedNonNegInt(8, name.chunk)) = last
    BY <1>8, <2>2, NdnTypes DEF NDN!IncludedNonNegInt, Marked, None
  <2>6. NDN!MkName(name) = NDN!Blob(7, NDN!FlattenSeq([k \in DOMAIN name.comps |-> NDN!Blob(8, name.comps[k])])
                                       \o IF name.chunk = NDN!None THEN <<>> ELSE NDN!IncludedNonNegInt(8, name.chunk))
    BY NdnTypes DEF NDN!MkName
  <2>7. NDN!FlattenSeq(ss) = F[n]
    BY <1>10, NdnFlatten
  <2> QED  BY <2>1, <2>4, <2>5, <2>6, <2>7
<1>14. ASSUME Len(F[n] \o last) \in Count
       PROVE  NDN!ReadName(F[n] \o last) = {[comps |-> comps \o NdnChunkComp(chunk), chunk |-> chunk]}
  <2>1. PICK q : q = [comps |-> comps \o NdnChunkComp(chunk), chunk |-> chunk]
    OBVIOUS
  <2> DEFINE R(b, p, t) == Reads(NDN!Dehead, NDN!AddComponent, b, p, t)
  <2>2. Len(F[n]) \in Count
    <3>1. Len(F[n]) \in Nat /\ Len(last) \in Nat
      BY <1>9, <1>12, BufferLen
    <3>2. Len(F[n]) =< Len(F[n] \o last)
      BY <1>12, <3>1
    <3> QED  BY <1>14, <3>1, <3>2, LessCount
  <2>3. R(last, NameUpTo(comps, n), q)
    <3>1. CASE chunk = None
      <4>1. comps \o <<>> = comps
        BY <1>1, ConcatEmptySeq
      <4>2. SubSeq(comps, 1, n) = comps
        BY <1>1, <1>2, OneMore
      <4>3. q = NameUpTo(comps, n)
        BY <2>1, <3>1, <4>1, <4>2 DEF NdnChunkComp, NameUpTo
      <4>4. last = <<>>
        BY <1>8, <3>1
      <4> QED  BY <4>3, <4>4, NdnNoComponent
    <3>2. CASE chunk # None
      <4>1. chunk \in Count
        BY <3>2
      <4>2. PICK m : m = Marked(chunk)
        OBVIOUS
      <4>3. m \in Buffer /\ Len(m) \in Count
        BY <4>1, <4>2, NdnMarked
      <4>4. PICK f : f = [type |-> 8, val |-> m, rest |-> <<>>]
        OBVIOUS
      <4>5. n < MaxNameComp
        <5>1. MaxNameComp \in Nat
          BY FrameAssumption
        <5> QED  BY <1>2, <3>2, <5>1
      <4>6. f.type = 8 /\ f.val = Marked(chunk)
        BY <4>2, <4>4
      <4>7. NDN!AddComponent(NameUpTo(comps, n), f) = {q}
        <5>1. q = [comps |-> comps \o <<Marked(chunk)>>, chunk |-> chunk]
          BY <2>1, <3>2 DEF NdnChunkComp
        <5> QED  BY <1>2, <4>1, <4>5, <4>6, <5>1, NdnLastComponent
      <4>8. Reads(NDN!Dehead, NDN!AddComponent, <<>>, q, q)
        BY NdnNoComponent
      <4>9. R(NDN!Blob(8, m) \o <<>>, NameUpTo(comps, n), q)
        BY <1>o, <4>3, <4>4, <4>7, <4>8, BufferEmpty, NdnComponent
      <4>10. last = NDN!Blob(8, m)
        BY <1>8, <3>2, <4>2
      <4>11. last \o <<>> = last
        BY <1>9, BufferEmptyConcat
      <4> QED  BY <4>9, <4>10, <4>11
    <3> QED  BY <3>1, <3>2
  <2> DEFINE A == {k \in 0..n : \A r \in Buffer : R(r, NameUpTo(comps, k), q) => R(F[k] \o r, NameUpTo(comps, 0), q)}
  <2>4. 0 \in A
    <3>1. \A r \in Buffer : F[0] \o r = r
      BY <1>10, BufferEmptyConcat
    <3>2. 0 \in 0..n
      BY <1>2
    <3> HIDE DEF R
    <3> QED  BY <3>1, <3>2, Zenon
  <2>5. ASSUME NEW k \in 1..n, k - 1 \in A PROVE k \in A
    <3>1. k \in 0..n /\ k - 1 \in 0..n
      OBVIOUS
    <3> SUFFICES ASSUME NEW r \in Buffer, R(r, NameUpTo(comps, k), q) PROVE R(F[k] \o r, NameUpTo(comps, 0), q)
      BY <3>1
    <3>2. comps[k] \in Buffer /\ Len(comps[k]) \in Count
      <4>1. Len(ss[k]) =< Len(FlattenSeq(ss))
        <5>1. k \in 0..Len(ss) /\ k > 0
          BY <1>6, <3>1
        <5> QED  BY <1>6, <1>7, <5>1, Parts
      <4>2. comps[k] \in Buffer /\ ss[k] \in Buffer /\ Len(ss[k]) >= Len(comps[k]) + 2
        BY <1>3, <1>5
      <4>3. Len(comps[k]) \in Nat /\ Len(ss[k]) \in Nat /\ Len(F[n]) \in Nat
        BY <1>12, <4>2, BufferLen
      <4>4. Len(comps[k]) =< Len(F[n])
        BY <1>10, <4>1, <4>2, <4>3
      <4> QED  BY <2>2, <4>2, <4>3, <4>4, LessCount
    <3>3. k =< MaxNameComp
      <4>1. MaxNameComp \in Nat
        BY FrameAssumption
      <4> QED  BY <1>2, <4>1
    <3>4. PICK f : f = [type |-> 8, val |-> comps[k], rest |-> r]
      OBVIOUS
    <3>5. f.type = 8 /\ f.val = comps[k]
      BY <3>4
    <3>6. NDN!AddComponent(NameUpTo(comps, k - 1), f) = {NameUpTo(comps, k)}
      BY <1>2, <3>3, <3>5, NdnNextComponent
    <3>7. R(NDN!Blob(8, comps[k]) \o r, NameUpTo(comps, k - 1), q)
      BY <1>o, <3>2, <3>4, <3>6, NdnComponent
    <3>8. ss[k] = NDN!Blob(8, comps[k]) /\ ss[k] \in Buffer /\ F[k - 1] \in Buffer /\ F[k] = F[k - 1] \o ss[k]
      BY <1>5, <1>10, <3>1
    <3>9. ss[k] \o r \in Buffer
      BY <3>8, BufferConcat
    <3>10. F[k - 1] \o (ss[k] \o r) = F[k] \o r
      <4>1. (F[k - 1] \o ss[k]) \o r = F[k - 1] \o (ss[k] \o r)
        BY <3>8, BufferAssociative
      <4> QED  BY <3>8, <4>1, Zenon
    <3> HIDE DEF R
    <3>11. R(F[k - 1] \o (ss[k] \o r), NameUpTo(comps, 0), q)
      BY <2>5, <3>7, <3>8, <3>9
    <3> QED  BY <3>10, <3>11
  <2>6. n \in A
    <3> HIDE DEF R, A
    <3>1. \A k \in 0..n : k \in A
      BY <2>4, <2>5, UpTo
    <3> QED  BY <3>1
  <2>7. R(F[n] \o last, NameUpTo(comps, 0), q)
    <3> HIDE DEF R
    <3> QED  BY <1>9, <2>3, <2>6
  <2>8. NDN!Scan(NDN!Dehead, NDN!AddComponent, F[n] \o last, NameUpTo(comps, 0)) = {q}
    BY <1>12, <2>7, NdnComponentsRead
  <2>9. NameUpTo(comps, 0) = [comps |-> <<>>, chunk |-> NDN!None]
    BY <1>1, OneMore, NdnTypes DEF NameUpTo, None
  <2> QED  BY <2>1, <2>8, <2>9 DEF NDN!ReadName
<1> QED  BY <1>11, <1>12, <1>13, <1>14

-----------------------------------------------------------------------------
(***************************************************************************)
(* NDN: fields.  A packet as it is read:                                   *)
(***************************************************************************)
NdnPkt(t, n, m, o, s, l, c, h, z) ==
  [type |-> t, name |-> n, min |-> 0, max |-> MaxNameComp, mbf |-> m, nonce |-> o,
   scope |-> s, lifetime |-> l, content |-> c, fresh |-> h, final |-> z]

LEMMA NdnBlank == ASSUME NEW t PROVE NDN!Blank(t) = NdnPkt(t, {}, FALSE, -1, 3, 1000 * InterestTimeout, <<>>, 0, -1)
BY NdnTypes DEF NDN!Blank, NdnPkt

Empty(e) == e = {}
One(one, nm) == one = {nm}
Yes(x) == x = TRUE

LEMMA NdnReadsName ==
  ASSUME NEW t, NEW m, NEW o, NEW s, NEW l, NEW c, NEW h, NEW z, NEW f, NEW nm,
         NEW e, NEW one, Empty(e), One(one, nm), f.type = 7, One(NDN!ReadName(f.val), nm)
  PROVE  NDN!ReadField(NdnPkt(t, e, m, o, s, l, c, h, z), f) = {NdnPkt(t, one, m, o, s, l, c, h, -1)}
<1>k. /\ f.type = NDN!TLV.Name /\ f.type # NDN!TLV.Selectors /\ f.type # NDN!TLV.Nonce
      /\ f.type # NDN!TLV.Scope /\ f.type # NDN!TLV.Content /\ f.type # NDN!TLV.MetaInfo /\ f.type # NDN!TLV.InterestLifetime
  BY NdnTypes
<1>1. PICK p : p = NdnPkt(t, e, m, o, s, l, c, h, z)
  OBVIOUS
<1>e. e = {} /\ one = {nm} /\ NDN!ReadName(f.val) = {nm}
  BY Zenon DEF Empty, One
<1>2. p.name = {} /\ [p EXCEPT !.name = {nm}, !.final = NDN!None] = NdnPkt(t, {nm}, m, o, s, l, c, h, -1)
  <2>1. PICK x : x = {nm}
    OBVIOUS
  <2>2. PICK y : y = NDN!None /\ y = -1
    BY NdnTypes
  <2>3. p.name = {} /\ [p EXCEPT !.name = x, !.final = y] = NdnPkt(t, x, m, o, s, l, c, h, y)
    <3>2. p = NdnPkt(t, e, m, o, s, l, c, h, z)
      BY <1>1
    <3>3. PICK r : r = [p EXCEPT !.name = x]
      OBVIOUS
    <3>4. p.name = e /\ r = NdnPkt(t, x, m, o, s, l, c, h, z)
      BY <3>2, <3>3 DEF NdnPkt
    <3>5. [r EXCEPT !.final = y] = NdnPkt(t, x, m, o, s, l, c, h, y)
      BY <3>4 DEF NdnPkt
    <3>6. [p EXCEPT !.name = x, !.final = y] = [r EXCEPT !.final = y]
      BY <3>3
    <3> QED  BY <1>e, <3>4, <3>5, <3>6
  <2> QED  BY <2>1, <2>2, <2>3, Zenon
<1>3. NDN!ReadField(p, f) = NDN!AndThen(NDN!Only(f.val, p.name = {}), LAMBDA b :
                              NDN!AndThen(NDN!ReadName(b), LAMBDA n : {[p EXCEPT !.name = {n}, !.final = NDN!None]}))
  BY <1>k, Zenon DEF NDN!ReadField
<1>4. NDN!ReadField(p, f) = UNION {UNION {{[p EXCEPT !.name = {n}, !.final = NDN!None]} : n \in NDN!ReadName(b)} : b \in {f.val}}
  BY <1>2, <1>3, Zenon DEF NDN!AndThen, NDN!Only
<1> HIDE DEF NdnPkt
<1>5. UNION {UNION {{[p EXCEPT !.name = {n}, !.final = NDN!None]} : n \in NDN!ReadName(b)} : b \in {f.val}}
        = {[p EXCEPT !.name = {nm}, !.final = NDN!None]}
  <2> DEFINE g(n) == {[p EXCEPT !.name = {n}, !.final = NDN!None]}
             u(b) == UNION {g(n) : n \in NDN!ReadName(b)}
  <2>1. u(f.val) = g(nm)
    <3>1. NDN!ReadName(f.val) = {nm}
      BY <1>e, Zenon
    <3> HIDE DEF g
    <3> QED  BY <3>1
  <2>2. UNION {u(b) : b \in {f.val}} = u(f.val)
    <3> HIDE DEF u
    <3> QED  OBVIOUS
  <2> QED  BY <2>1, <2>2, Zenon
<1> QED  BY <1>e, <1>1, <1>2, <1>4, <1>5, Zenon

LEMMA NdnReadsSelectors ==
  ASSUME NEW t, NEW n, NEW o, NEW s, NEW l, NEW c, NEW h, NEW z, NEW f, NEW no, NEW yes, Yes(yes),
         f.type = 9, f.val = NDN!Blob(18, <<>>)
  PROVE  NDN!ReadField(NdnPkt(t, n, no, o, s, l, c, h, z), f) = {NdnPkt(t, n, yes, o, s, l, c, h, z)}
<1>k. /\ f.type = NDN!TLV.Selectors /\ f.type # NDN!TLV.Name /\ f.type # NDN!TLV.Nonce
      /\ f.type # NDN!TLV.Scope /\ f.type # NDN!TLV.Content /\ f.type # NDN!TLV.MetaInfo /\ f.type # NDN!TLV.InterestLifetime
  BY NdnTypes
<1>1. PICK p : p = NdnPkt(t, n, no, o, s, l, c, h, z)
  OBVIOUS
<1>2. PICK q : q = NdnPkt(t, n, yes, o, s, l, c, h, z)
  OBVIOUS
<1>3. [p EXCEPT !.mbf = TRUE] = q
  <2>1. [p EXCEPT !.mbf = yes] = q
    BY <1>1, <1>2 DEF NdnPkt
  <2>2. yes = TRUE
    BY Zenon DEF Yes
  <2> QED  BY <2>1, <2>2, Zenon
<1>4. NDN!ReadField(p, f) = NDN!Scan(NDN!Dehead, NDN!ReadSelector, f.val, p)
  BY <1>k, Zenon DEF NDN!ReadField
<1>5. PICK g : g = [type |-> 18, val |-> <<>>, rest |-> <<>>]
  OBVIOUS
<1>6. NDN!ReadSelector(p, g) = {q}
  <2>1. g.type = 18
    BY <1>5
  <2>2. /\ g.type = NDN!TLV.MustBeFresh /\ g.type # NDN!TLV.MinSuffixComponents
        /\ g.type # NDN!TLV.MaxSuffixComponents
    BY <2>1, NdnTypes
  <2>3. NDN!ReadSelector(p, g) = {[p EXCEPT !.mbf = TRUE]}
    BY <2>2, Zenon DEF NDN!ReadSelector
  <2> QED  BY <1>3, <2>3, Zenon
<1>7. 18 \in Count /\ Len(<<>>) \in Count /\ <<>> \in Buffer
  BY SmallCount, BufferEmpty
<1>8. PICK b : b = NDN!Blob(18, <<>>)
  OBVIOUS
<1>9. b \in Buffer /\ b \o <<>> = b
  BY <1>7, <1>8, NdnBlob, BufferEmptyConcat
<1>10. Reads(NDN!Dehead, NDN!ReadSelector, <<>>, q, q)
  BY NdnNoSelector
<1>11. NDN!ReadSelector(p, [type |-> 18, val |-> <<>>, rest |-> <<>>]) = {q}
  BY <1>5, <1>6, Zenon
<1>12. Reads(NDN!Dehead, NDN!ReadSelector, NDN!Blob(18, <<>>) \o <<>>, p, q)
  BY <1>7, <1>10, <1>11, NdnSelector
<1>13. Reads(NDN!Dehead, NDN!ReadSelector, b, p, q)
  BY <1>8, <1>9, <1>12, Zenon
<1>14. NDN!Scan(NDN!Dehead, NDN!ReadSelector, b, p) = {q}
  BY <1>9, <1>13, NdnSelectorsRead
<1>15. f.val = b
  BY <1>8
<1> QED  BY <1>1, <1>2, <1>4, <1>14, <1>15, Zenon

LEMMA NdnReadsNonce ==
  ASSUME NEW t, NEW n, NEW m, NEW o, NEW s, NEW l, NEW c, NEW h, NEW z, NEW f, f.type = 10
  PROVE  NDN!ReadField(NdnPkt(t, n, m, o, s, l, c, h, z), f) = {NdnPkt(t, n, m, NDN!Number(f.val), s, l, c, h, z)}
<1>k. /\ f.type = NDN!TLV.Nonce /\ f.type # NDN!TLV.Name /\ f.type # NDN!TLV.Selectors
      /\ f.type # NDN!TLV.Scope /\ f.type # NDN!TLV.Content /\ f.type # NDN!TLV.MetaInfo /\ f.type # NDN!TLV.InterestLifetime
  BY NdnTypes
<1>1. PICK p : p = NdnPkt(t, n, m, o, s, l, c, h, z)
  OBVIOUS
<1>2. [p EXCEPT !.nonce = NDN!Number(f.val)] = NdnPkt(t, n, m, NDN!Number(f.val), s, l, c, h, z)
  BY <1>1 DEF NdnPkt
<1>3. NDN!ReadField(p, f) = {[p EXCEPT !.nonce = NDN!Number(f.val)]}
  BY <1>k, Zenon DEF NDN!ReadField
<1> QED  BY <1>1, <1>2, <1>3

LEMMA NdnReadsScope ==
  ASSUME NEW t, NEW n, NEW m, NEW o, NEW s, NEW l, NEW c, NEW h, NEW z, NEW f, f.type = 11
  PROVE  NDN!ReadField(NdnPkt(t, n, m, o, s, l, c, h, z), f) = {NdnPkt(t, n, m, o, NDN!Number(f.val), l, c, h, z)}
<1>k. /\ f.type = NDN!TLV.Scope /\ f.type # NDN!TLV.Name /\ f.type # NDN!TLV.Selectors
      /\ f.type # NDN!TLV.Nonce /\ f.type # NDN!TLV.Content /\ f.type # NDN!TLV.MetaInfo /\ f.type # NDN!TLV.InterestLifetime
  BY NdnTypes
<1>1. PICK p : p = NdnPkt(t, n, m, o, s, l, c, h, z)
  OBVIOUS
<1>2. [p EXCEPT !.scope = NDN!Number(f.val)] = NdnPkt(t, n, m, o, NDN!Number(f.val), l, c, h, z)
  BY <1>1 DEF NdnPkt
<1>3. NDN!ReadField(p, f) = {[p EXCEPT !.scope = NDN!Number(f.val)]}
  BY <1>k, Zenon DEF NDN!ReadField
<1> QED  BY <1>1, <1>2, <1>3

LEMMA NdnReadsLifetime ==
  ASSUME NEW t, NEW n, NEW m, NEW o, NEW s, NEW l, NEW c, NEW h, NEW z, NEW f, f.type = 12
  PROVE  NDN!ReadField(NdnPkt(t, n, m, o, s, l, c, h, z), f) = {NdnPkt(t, n, m, o, s, NDN!Number(f.val), c, h, z)}
<1>k. /\ f.type = NDN!TLV.InterestLifetime /\ f.type # NDN!TLV.Name /\ f.type # NDN!TLV.Selectors
      /\ f.type # NDN!TLV.Nonce /\ f.type # NDN!TLV.Scope /\ f.type # NDN!TLV.Content /\ f.type # NDN!TLV.MetaInfo
  BY NdnTypes
<1>1. PICK p : p = NdnPkt(t, n, m, o, s, l, c, h, z)
  OBVIOUS
<1>2. [p EXCEPT !.lifetime = NDN!Number(f.val)] = NdnPkt(t, n, m, o, s, NDN!Number(f.val), c, h, z)
  BY <1>1 DEF NdnPkt
<1>3. NDN!ReadField(p, f) = {[p EXCEPT !.lifetime = NDN!Number(f.val)]}
  BY <1>k, Zenon DEF NDN!ReadField
<1> QED  BY <1>1, <1>2, <1>3

LEMMA NdnReadsContent ==
  ASSUME NEW t, NEW n, NEW m, NEW o, NEW s, NEW l, NEW c, NEW h, NEW z, NEW f, f.type = 21
  PROVE  NDN!ReadField(NdnPkt(t, n, m, o, s, l, c, h, z), f) = {NdnPkt(t, n, m, o, s, l, f.val, h, z)}
<1>k. /\ f.type = NDN!TLV.Content /\ f.type # NDN!TLV.Name /\ f.type # NDN!TLV.Selectors
      /\ f.type # NDN!TLV.Nonce /\ f.type # NDN!TLV.Scope /\ f.type # NDN!TLV.MetaInfo /\ f.type # NDN!TLV.InterestLifetime
  BY NdnTypes
<1>1. PICK p : p = NdnPkt(t, n, m, o, s, l, c, h, z)
  OBVIOUS
<1>2. [p EXCEPT !.content = f.val] = NdnPkt(t, n, m, o, s, l, f.val, h, z)
  BY <1>1 DEF NdnPkt
<1>3. NDN!ReadField(p, f) = {[p EXCEPT !.content = f.val]}
  BY <1>k, Zenon DEF NDN!ReadField
<1> QED  BY <1>1, <1>2, <1>3

LEMMA NdnReadsOther == ASSUME NEW p, NEW f, f.type \in {22, 23} PROVE NDN!ReadField(p, f) = {p}
<1>k. /\ f.type # NDN!TLV.Name /\ f.type # NDN!TLV.Selectors /\ f.type # NDN!TLV.Nonce
      /\ f.type # NDN!TLV.Scope /\ f.type # NDN!TLV.Content /\ f.type # NDN!TLV.MetaInfo /\ f.type # NDN!TLV.InterestLifetime
  BY NdnTypes
<1> QED  BY <1>k, Zenon DEF NDN!ReadField

FreshPart(h) == IF h = 0 THEN <<>> ELSE NDN!Blob(25, NDN!NonNegIntVal(h))
FinalPart(z) == IF z = None THEN <<>> ELSE NDN!Blob(26, NDN!Blob(8, Marked(z)))

LEMMA NdnReadsFinal ==
  ASSUME NEW t, NEW n, NEW m, NEW o, NEW s, NEW l, NEW c, NEW h, NEW z, z = None \/ z \in Count
  PROVE  /\ FinalPart(z) \in Buffer
         /\ Reads(NDN!Dehead, NDN!ReadMetaInfo, FinalPart(z), NdnPkt(t, n, m, o, s, l, c, h, -1),
                  NdnPkt(t, n, m, o, s, l, c, h, z))
<1>1. PICK p, q : p = NdnPkt(t, n, m, o, s, l, c, h, -1) /\ q = NdnPkt(t, n, m, o, s, l, c, h, z)
  OBVIOUS
<1>2. CASE z = None
  <2>1. FinalPart(z) = <<>>
    BY <1>2 DEF FinalPart
  <2>2. p = q
    BY <1>1, <1>2 DEF None
  <2>3. Reads(NDN!Dehead, NDN!ReadMetaInfo, <<>>, p, p)
    BY NdnNoMetaInfo
  <2> QED  BY <1>1, <2>1, <2>2, <2>3, BufferEmpty, Zenon
<1>3. CASE z # None
  <2>0. z \in Count
    BY <1>3
  <2>1. PICK e : e = Marked(z)
    OBVIOUS
  <2>2. e \in Buffer /\ Len(e) \in 1..5 /\ Len(e) \in Count /\ NDN!Number(Tail(e)) = z
    BY <2>0, <2>1, NdnMarked
  <2>3. PICK v : v = NDN!Blob(8, e)
    OBVIOUS
  <2>o. 8 \in Count /\ 26 \in Count
    BY SmallCount
  <2>4. v \in Buffer /\ v \o <<>> = v
    BY <2>o, <2>2, <2>3, NdnBlob, BufferEmptyConcat
  <2>5. Len(v) \in Count
    <3>1. PICK x, y : x = NDN!TLval(8) /\ y = NDN!TLval(Len(e))
      OBVIOUS
    <3>2. Len(e) \in Nat
      BY <2>2
    <3>3. x \in Buffer /\ Len(x) \in 1..5 /\ y \in Buffer /\ Len(y) \in 1..5
      BY <3>1, <3>2, NdnTLval
    <3>4. x \o y \in Buffer /\ Len(x \o y) = Len(x) + Len(y)
      BY <3>3, BufferConcat
    <3>5. Len((x \o y) \o e) = Len(x \o y) + Len(e)
      BY <2>2, <3>4, BufferConcat
    <3>6. v = (x \o y) \o e
      BY <2>3, <3>1 DEF NDN!Blob
    <3>7. Len(v) = (Len(x) + Len(y)) + Len(e)
      BY <3>4, <3>5, <3>6, Zenon
    <3>8. PICK i \in 1..5, j \in 1..5, k \in 1..5 : i = Len(x) /\ j = Len(y) /\ k = Len(e)
      BY <2>2, <3>3, Zenon
    <3>9. (i + j) + k \in 0..255
      OBVIOUS
    <3>10. Len(v) = (i + j) + k
      BY <3>7, <3>8, Zenon
    <3>11. Len(v) \in 0..255
      BY <3>9, <3>10, Zenon
    <3> QED  BY <3>11, SmallCount, Zenon
  <2>6. PICK g : g = [type |-> 8, val |-> e, rest |-> <<>>]
    OBVIOUS
  <2>7. NDN!Dehead(v) = {g}
    <3>1. NDN!Dehead(NDN!Blob(8, e) \o <<>>) = {[type |-> 8, val |-> e, rest |-> <<>>]}
      BY <2>o, <2>2, BufferEmpty, NdnDehead
    <3> QED  BY <2>3, <2>4, <2>6, <3>1, Zenon
  <2>8. PICK f : f = [type |-> 26, val |-> v, rest |-> <<>>]
    OBVIOUS
  <2>9. NDN!ReadMetaInfo(p, f) = {q}
    <3> DEFINE set(k) == {IF k.type = NDN!TLV.NameComponent THEN [p EXCEPT !.final = NDN!FinalBlock(k.val)] ELSE p}
    <3>1. f.type = 26 /\ f.val = v
      BY <2>8
    <3>2. f.type = NDN!TLV.FinalBlockId /\ f.type # NDN!TLV.FreshnessPeriod
      BY <3>1, NdnTypes
    <3>3. NDN!ReadMetaInfo(p, f) = UNION {set(k) : k \in NDN!Dehead(f.val)}
      BY <3>2, Zenon DEF NDN!ReadMetaInfo, NDN!AndThen
    <3>4. g.type = NDN!TLV.NameComponent /\ NDN!FinalBlock(g.val) = z
      BY <2>2, <2>6, NdnTypes DEF NDN!FinalBlock
    <3>5. [p EXCEPT !.final = z] = q
      BY <1>1 DEF NdnPkt
    <3>6. set(g) = {q}
      BY <3>4, <3>5
    <3>7. NDN!Dehead(f.val) = {g}
      BY <2>7, <3>1
    <3> HIDE DEF set
    <3> QED  BY <3>3, <3>6, <3>7
  <2>10. Reads(NDN!Dehead, NDN!ReadMetaInfo, <<>>, q, q)
    BY NdnNoMetaInfo
  <2>11. NDN!ReadMetaInfo(p, [type |-> 26, val |-> v, rest |-> <<>>]) = {q}
    BY <2>8, <2>9, Zenon
  <2>12. Reads(NDN!Dehead, NDN!ReadMetaInfo, NDN!Blob(26, v) \o <<>>, p, q)
    BY <2>o, <2>4, <2>5, <2>10, <2>11, BufferEmpty, NdnMetaInfo
  <2>13. PICK b : b = NDN!Blob(26, v)
    OBVIOUS
  <2>14. b \in Buffer /\ b \o <<>> = b
    BY <2>o, <2>4, <2>13, NdnBlob, BufferEmptyConcat
  <2>15. FinalPart(z) = b
    BY <1>3, <2>1, <2>3, <2>13 DEF FinalPart
  <2> QED  BY <1>1, <2>12, <2>13, <2>14, <2>15, Zenon
<1> QED  BY <1>2, <1>3

MetaInfoOf(f, h, z) ==
  f.type = 20 /\ f.val = FreshPart(h) \o FinalPart(z) /\ h \in Count /\ (z = None \/ z \in Count)

LEMMA NdnReadsMetaInfo ==
  ASSUME NEW t, NEW n, NEW m, NEW o, NEW s, NEW l, NEW c, NEW h, NEW z, NEW f, MetaInfoOf(f, h, z)
  PROVE  /\ FreshPart(h) \o FinalPart(z) \in Buffer
         /\ NDN!ReadField(NdnPkt(t, n, m, o, s, l, c, 0, -1), f) = {NdnPkt(t, n, m, o, s, l, c, h, z)}
<1>m. f.type = 20 /\ f.val = FreshPart(h) \o FinalPart(z) /\ h \in Count /\ (z = None \/ z \in Count)
  BY Zenon DEF MetaInfoOf
<1>t. f.type = 20
  BY <1>m
<1>k. /\ f.type = NDN!TLV.MetaInfo /\ f.type # NDN!TLV.Name /\ f.type # NDN!TLV.Selectors
      /\ f.type # NDN!TLV.Nonce /\ f.type # NDN!TLV.Scope /\ f.type # NDN!TLV.Content /\ f.type # NDN!TLV.InterestLifetime
  BY <1>t, NdnTypes
<1>h. h \in Count
  BY <1>m
<1>1. PICK p, p1, q : /\ p = NdnPkt(t, n, m, o, s, l, c, 0, -1) /\ p1 = NdnPkt(t, n, m, o, s, l, c, h, -1)
                      /\ q = NdnPkt(t, n, m, o, s, l, c, h, z)
  OBVIOUS
<1>2. PICK r : r = FinalPart(z)
  OBVIOUS
<1>z. z = None \/ z \in Count
  BY <1>m
<1>3. r \in Buffer /\ Reads(NDN!Dehead, NDN!ReadMetaInfo, r, p1, q)
  <2>1. /\ FinalPart(z) \in Buffer
        /\ Reads(NDN!Dehead, NDN!ReadMetaInfo, FinalPart(z), NdnPkt(t, n, m, o, s, l, c, h, -1),
                 NdnPkt(t, n, m, o, s, l, c, h, z))
    BY <1>z, NdnReadsFinal
  <2> QED  BY <1>1, <1>2, <2>1, Zenon
<1>4. FreshPart(h) \in Buffer /\ Reads(NDN!Dehead, NDN!ReadMetaInfo, FreshPart(h) \o r, p, q)
  <2>1. CASE h = 0
    <3>1. FreshPart(h) = <<>> /\ <<>> \o r = r
      BY <1>3, <2>1, BufferEmptyConcat DEF FreshPart
    <3>2. p = p1
      BY <1>1, <2>1
    <3> QED  BY <1>3, <3>1, <3>2, BufferEmpty
  <2>2. CASE h # 0
    <3>1. PICK e : e = NDN!NonNegIntVal(h)
      OBVIOUS
    <3>2. e \in Buffer /\ Len(e) \in 1..4 /\ NDN!Number(e) = h
      BY <1>h, <3>1, NdnNonNegIntVal
    <3>3. 25 \in Count
      BY SmallCount
    <3>4. Len(e) \in Count
      <4>1. \A i \in 1..4 : i \in 0..255
        OBVIOUS
      <4> QED  BY <3>2, <4>1, SmallCount, Zenon
    <3>5. PICK g : g = [type |-> 25, val |-> e, rest |-> r]
      OBVIOUS
    <3>6. NDN!ReadMetaInfo(p, g) = {p1}
      <4>1. g.type = 25 /\ g.val = e
        BY <3>5
      <4>2. g.type = NDN!TLV.FreshnessPeriod /\ g.type # NDN!TLV.FinalBlockId
        BY <4>1, NdnTypes
      <4>3. NDN!ReadMetaInfo(p, g) = {[p EXCEPT !.fresh = NDN!Number(g.val)]}
        BY <4>2, Zenon DEF NDN!ReadMetaInfo
      <4>4. NDN!Number(g.val) = h
        BY <3>2, <4>1
      <4>5. [p EXCEPT !.fresh = h] = p1
        BY <1>1 DEF NdnPkt
      <4> QED  BY <4>3, <4>4, <4>5, Zenon
    <3>7. NDN!ReadMetaInfo(p, [type |-> 25, val |-> e, rest |-> r]) = {p1}
      BY <3>5, <3>6, Zenon
    <3>8. Reads(NDN!Dehead, NDN!ReadMetaInfo, NDN!Blob(25, e) \o r, p, q)
      BY <1>3, <3>2, <3>3, <3>4, <3>7, NdnMetaInfo
    <3>9. FreshPart(h) = NDN!Blob(25, e)
      BY <2>2, <3>1 DEF FreshPart
    <3>10. NDN!Blob(25, e) \in Buffer
      BY <3>2, <3>3, NdnBlob
    <3> QED  BY <3>8, <3>9, <3>10, Zenon
  <2> QED  BY <2>1, <2>2
<1>7. FreshPart(h) \o r \in Buffer
  BY <1>3, <1>4, BufferConcat
<1>8. NDN!Scan(NDN!Dehead, NDN!ReadMetaInfo, FreshPart(h) \o r, p) = {q}
  BY <1>4, <1>7, NdnMetaInfosRead
<1>9. NDN!ReadField(p, f) = NDN!Scan(NDN!Dehead, NDN!ReadMetaInfo, f.val, p)
  BY <1>k, Zenon DEF NDN!ReadField
<1> QED  BY <1>m, <1>1, <1>2, <1>7, <1>8, <1>9, Zenon

-----------------------------------------------------------------------------
(***************************************************************************)
(* NDN: packets.                                                           *)
(***************************************************************************)
LEMMA FiveParts ==
  ASSUME NEW a \in Buffer, NEW b \in Buffer, NEW c \in Buffer, NEW d \in Buffer, NEW e \in Buffer
  PROVE  /\ (((a \o b) \o c) \o d) \o e = a \o (b \o (c \o (d \o e)))
         /\ a \o (b \o (c \o (d \o e))) \in Buffer
         /\ Len(a \o (b \o (c \o (d \o e)))) = Len(a) + (Len(b) + (Len(c) + (Len(d) + Len(e))))
         /\ b \o (c \o (d \o e)) \in Buffer /\ c \o (d \o e) \in Buffer /\ d \o e \in Buffer
<1>1. PICK x, y : x = a \o b /\ y = x \o c
  OBVIOUS
<1>2. x \in Buffer
  BY <1>1, BufferConcat
<1>3. y \in Buffer
  BY <1>1, <1>2, BufferConcat
<1>4. d \o e \in Buffer /\ Len(d \o e) = Len(d) + Len(e)
  BY BufferConcat
<1>5. c \o (d \o e) \in Buffer /\ Len(c \o (d \o e)) = Len(c) + Len(d \o e)
  BY <1>4, BufferConcat
<1>6. b \o (c \o (d \o e)) \in Buffer /\ Len(b \o (c \o (d \o e))) = Len(b) + Len(c \o (d \o e))
  BY <1>5, BufferConcat
<1>7. /\ a \o (b \o (c \o (d \o e))) \in Buffer
      /\ Len(a \o (b \o (c \o (d \o e)))) = Len(a) + Len(b \o (c \o (d \o e)))
  BY <1>6, BufferConcat
<1>8. (y \o d) \o e = y \o (d \o e)
  BY <1>3, BufferAssociative, ZenonT(60)
<1>9. (x \o c) \o (d \o e) = x \o (c \o (d \o e))
  BY <1>2, <1>4, BufferAssociative, ZenonT(60)
<1>10. (a \o b) \o (c \o (d \o e)) = a \o (b \o (c \o (d \o e)))
  <2>1. PICK v : v = c \o (d \o e)
    OBVIOUS
  <2>2. v \in Buffer
    BY <1>5, <2>1
  <2>3. (a \o b) \o v = a \o (b \o v)
    BY <2>2, BufferAssociative, ZenonT(60)
  <2> QED  BY <2>1, <2>3, Zenon
<1>11. (((a \o b) \o c) \o d) \o e = a \o (b \o (c \o (d \o e)))
  BY <1>1, <1>8, <1>9, <1>10, Zenon
<1> QED  BY <1>4, <1>5, <1>6, <1>7, <1>11, Zenon

(* A packet that is read to its end is all that is read. *)
LEMMA NdnForwards ==
  ASSUME NEW type \in {5, 6}, NEW body \in Buffer, Len(body) \in Count, NEW q,
         Reads(NDN!Dehead, NDN!ReadField, body, NDN!Blank(type), q),
         NEW b, b = NDN!Blob(type, body)
  PROVE  /\ b \in Buffer /\ Len(b) >= 2 /\ b[1] = type
         /\ NDN!Forwarder(b) = {[pkts |-> <<q>>, rest |-> <<>>]}
<1>1. type \in Count /\ type \in Octet
  <2>1. type \in 0..255
    OBVIOUS
  <2>2. type \in Count
    BY <2>1, SmallCount
  <2> QED  BY <2>1, <2>2 DEF Octet
<1>2. b \in Buffer /\ Len(b) >= Len(body) + 2
  BY <1>1, NdnBlob
<1>3. Len(b) >= 2
  <2>1. Len(body) \in Nat /\ Len(b) \in Nat
    BY <1>2, BufferLen
  <2> QED  BY <1>2, <2>1
<1>4. b[1] = type
  <2>1. PICK l : l = NDN!TLval(Len(body))
    OBVIOUS
  <2>2. Len(body) \in Nat
    BY BufferLen
  <2>3. l \in Buffer
    BY <2>1, <2>2, NdnTLval
  <2>4. NDN!TLval(type) = <<type>>
    BY DEF NDN!TLval
  <2>5. b = (<<type>> \o l) \o body
    BY <2>1, <2>4 DEF NDN!Blob
  <2>6. <<type>> \in Buffer
    BY <1>1, BufferEmpty, OneOctet
  <2>7. (<<type>> \o l) \o body = <<type>> \o (l \o body)
    BY <2>3, <2>6, BufferAssociative
  <2>8. l \o body \in Buffer
    BY <2>3, BufferConcat
  <2>9. (<<type>> \o (l \o body))[1] = type
    BY <1>1, <2>8, OneOctet
  <2> QED  BY <2>5, <2>7, <2>9, Zenon
<1>5. PICK p : p = [type |-> type, val |-> body, rest |-> <<>>]
  OBVIOUS
<1>6. NDN!Dehead(b) = {p}
  <2>1. NDN!Dehead(NDN!Blob(type, body) \o <<>>) = {[type |-> type, val |-> body, rest |-> <<>>]}
    BY <1>1, BufferEmpty, NdnDehead
  <2>2. b \o <<>> = b
    BY <1>2, BufferEmptyConcat
  <2> QED  BY <1>5, <2>1, <2>2, Zenon
<1>7. NDN!Scan(NDN!Dehead, NDN!ReadField, body, NDN!Blank(type)) = {q}
  BY NdnFieldsRead
<1> DEFINE out(x) == {[pkts |-> <<x>>, rest |-> <<>>]}
           scan(k, c) == UNION {out(x) : x \in NDN!Scan(NDN!Dehead, NDN!ReadField, c, NDN!Blank(k.type))}
           bodies(k) == IF k.type \in {NDN!TLV.Interest, NDN!TLV.Data} THEN {k.val \o k.rest} ELSE {}
           read(k) == UNION {scan(k, c) : c \in bodies(k)}
<1>8. NDN!Forwarder(b) = UNION {read(k) : k \in NDN!Dehead(b)}
  BY Zenon DEF NDN!Forwarder, NDN!AndThen, NDN!Only
<1>9. p.type = type /\ p.val = body /\ p.rest = <<>>
  BY <1>5
<1>10. bodies(p) = {body}
  <2>1. body \o <<>> = body
    BY BufferEmptyConcat
  <2>2. p.type \in {NDN!TLV.Interest, NDN!TLV.Data}
    BY <1>9, NdnTypes
  <2> QED  BY <1>9, <2>1, <2>2
<1>11. scan(p, body) = out(q)
  <2> HIDE DEF out
  <2> QED  BY <1>7, <1>9
<1> HIDE DEF scan, bodies
<1>12. read(p) = scan(p, body)
  BY <1>10
<1> HIDE DEF read
<1>13. NDN!Forwarder(b) = read(p)
  BY <1>6, <1>8
<1>14. NDN!Forwarder(b) = out(q)
  BY <1>11, <1>12, <1>13, Zenon
<1> QED  BY <1>2, <1>3, <1>4, <1>14

(* An element, and what is read with it and after it *)

LEMMA NdnThenNonce ==
  ASSUME NEW t, NEW n, NEW m, NEW o, NEW s, NEW l, NEW c, NEW h, NEW z, NEW q,
         NEW v \in Buffer, Len(v) \in Count, NEW r \in Buffer,
         Reads(NDN!Dehead, NDN!ReadField, r, NdnPkt(t, n, m, NDN!Number(v), s, l, c, h, z), q)
  PROVE  Reads(NDN!Dehead, NDN!ReadField, NDN!Blob(10, v) \o r, NdnPkt(t, n, m, o, s, l, c, h, z), q)
<1>1. PICK f : f = [type |-> 10, val |-> v, rest |-> r]
  OBVIOUS
<1>2. f.type = 10 /\ f.val = v
  BY <1>1
<1>3. f.type = 10
  BY <1>2
<1>4. NDN!ReadField(NdnPkt(t, n, m, o, s, l, c, h, z), f) = {NdnPkt(t, n, m, NDN!Number(f.val), s, l, c, h, z)}
  BY <1>3, NdnReadsNonce
<1>7. NDN!ReadField(NdnPkt(t, n, m, o, s, l, c, h, z), f) = {NdnPkt(t, n, m, NDN!Number(v), s, l, c, h, z)}
  BY <1>2, <1>4, Zenon
<1>8. NDN!ReadField(NdnPkt(t, n, m, o, s, l, c, h, z), [type |-> 10, val |-> v, rest |-> r]) = {NdnPkt(t, n, m, NDN!Number(v), s, l, c, h, z)}
  BY <1>1, <1>7, Zenon
<1>9. 10 \in Count
  BY SmallCount
<1> QED  BY <1>8, <1>9, NdnField

LEMMA NdnThenScope ==
  ASSUME NEW t, NEW n, NEW m, NEW o, NEW s, NEW l, NEW c, NEW h, NEW z, NEW q,
         NEW v \in Buffer, Len(v) \in Count, NEW r \in Buffer,
         Reads(NDN!Dehead, NDN!ReadField, r, NdnPkt(t, n, m, o, NDN!Number(v), l, c, h, z), q)
  PROVE  Reads(NDN!Dehead, NDN!ReadField, NDN!Blob(11, v) \o r, NdnPkt(t, n, m, o, s, l, c, h, z), q)
<1>1. PICK f : f = [type |-> 11, val |-> v, rest |-> r]
  OBVIOUS
<1>2. f.type = 11 /\ f.val = v
  BY <1>1
<1>3. f.type = 11
  BY <1>2
<1>4. NDN!ReadField(NdnPkt(t, n, m, o, s, l, c, h, z), f) = {NdnPkt(t, n, m, o, NDN!Number(f.val), l, c, h, z)}
  BY <1>3, NdnReadsScope
<1>7. NDN!ReadField(NdnPkt(t, n, m, o, s, l, c, h, z), f) = {NdnPkt(t, n, m, o, NDN!Number(v), l, c, h, z)}
  BY <1>2, <1>4, Zenon
<1>8. NDN!ReadField(NdnPkt(t, n, m, o, s, l, c, h, z), [type |-> 11, val |-> v, rest |-> r]) = {NdnPkt(t, n, m, o, NDN!Number(v), l, c, h, z)}
  BY <1>1, <1>7, Zenon
<1>9. 11 \in Count
  BY SmallCount
<1> QED  BY <1>8, <1>9, NdnField

LEMMA NdnThenLifetime ==
  ASSUME NEW t, NEW n, NEW m, NEW o, NEW s, NEW l, NEW c, NEW h, NEW z, NEW q,
         NEW v \in Buffer, Len(v) \in Count, NEW r \in Buffer,
         Reads(NDN!Dehead, NDN!ReadField, r, NdnPkt(t, n, m, o, s, NDN!Number(v), c, h, z), q)
  PROVE  Reads(NDN!Dehead, NDN!ReadField, NDN!Blob(12, v) \o r, NdnPkt(t, n, m, o, s, l, c, h, z), q)
<1>1. PICK f : f = [type |-> 12, val |-> v, rest |-> r]
  OBVIOUS
<1>2. f.type = 12 /\ f.val = v
  BY <1>1
<1>3. f.type = 12
  BY <1>2
<1>4. NDN!ReadField(NdnPkt(t, n, m, o, s, l, c, h, z), f) = {NdnPkt(t, n, m, o, s, NDN!Number(f.val), c, h, z)}
  BY <1>3, NdnReadsLifetime
<1>7. NDN!ReadField(NdnPkt(t, n, m, o, s, l, c, h, z), f) = {NdnPkt(t, n, m, o, s, NDN!Number(v), c, h, z)}
  BY <1>2, <1>4, Zenon
<1>8. NDN!ReadField(NdnPkt(t, n, m, o, s, l, c, h, z), [type |-> 12, val |-> v, rest |-> r]) = {NdnPkt(t, n, m, o, s, NDN!Number(v), c, h, z)}
  BY <1>1, <1>7, Zenon
<1>9. 12 \in Count
  BY SmallCount
<1> QED  BY <1>8, <1>9, NdnField

LEMMA NdnThenContent ==
  ASSUME NEW t, NEW n, NEW m, NEW o, NEW s, NEW l, NEW c, NEW h, NEW z, NEW q,
         NEW v \in Buffer, Len(v) \in Count, NEW r \in Buffer,
         Reads(NDN!Dehead, NDN!ReadField, r, NdnPkt(t, n, m, o, s, l, v, h, z), q)
  PROVE  Reads(NDN!Dehead, NDN!ReadField, NDN!Blob(21, v) \o r, NdnPkt(t, n, m, o, s, l, c, h, z), q)
<1>1. PICK f : f = [type |-> 21, val |-> v, rest |-> r]
  OBVIOUS
<1>2. f.type = 21 /\ f.val = v
  BY <1>1
<1>3. f.type = 21
  BY <1>2
<1>4. NDN!ReadField(NdnPkt(t, n, m, o, s, l, c, h, z), f) = {NdnPkt(t, n, m, o, s, l, f.val, h, z)}
  BY <1>3, NdnReadsContent
<1>7. NDN!ReadField(NdnPkt(t, n, m, o, s, l, c, h, z), f) = {NdnPkt(t, n, m, o, s, l, v, h, z)}
  BY <1>2, <1>4, Zenon
<1>8. NDN!ReadField(NdnPkt(t, n, m, o, s, l, c, h, z), [type |-> 21, val |-> v, rest |-> r]) = {NdnPkt(t, n, m, o, s, l, v, h, z)}
  BY <1>1, <1>7, Zenon
<1>9. 21 \in Count
  BY SmallCount
<1> QED  BY <1>8, <1>9, NdnField

LEMMA NdnThenOther ==
  ASSUME NEW type \in {22, 23}, NEW p, NEW q, NEW v \in Buffer, Len(v) \in Count, NEW r \in Buffer,
         Reads(NDN!Dehead, NDN!ReadField, r, p, q)
  PROVE  Reads(NDN!Dehead, NDN!ReadField, NDN!Blob(type, v) \o r, p, q)
<1>1. PICK f : f = [type |-> type, val |-> v, rest |-> r]
  OBVIOUS
<1>2. f.type = type /\ f.val = v
  BY <1>1
<1>7. NDN!ReadField(p, f) = {p}
  <2>1. f.type \in {22, 23}
    BY <1>2
  <2> QED  BY <2>1, NdnReadsOther
<1>8. NDN!ReadField(p, [type |-> type, val |-> v, rest |-> r]) = {p}
  BY <1>1, <1>7, Zenon
<1>9. type \in Count
  <2>1. type \in 0..255
    OBVIOUS
  <2> QED  BY <2>1, SmallCount
<1> QED  BY <1>8, <1>9, NdnField

LEMMA NdnThenSelectors ==
  ASSUME NEW t, NEW n, NEW o, NEW s, NEW l, NEW c, NEW h, NEW z, NEW q,
         NEW no, NEW yes, Yes(yes), NEW v \in Buffer, Len(v) \in Count, v = NDN!Blob(18, <<>>), NEW r \in Buffer,
         Reads(NDN!Dehead, NDN!ReadField, r, NdnPkt(t, n, yes, o, s, l, c, h, z), q)
  PROVE  Reads(NDN!Dehead, NDN!ReadField, NDN!Blob(9, v) \o r, NdnPkt(t, n, no, o, s, l, c, h, z), q)
<1>1. PICK f : f = [type |-> 9, val |-> v, rest |-> r]
  OBVIOUS
<1>2. f.type = 9 /\ f.val = v
  BY <1>1
<1>3. f.type = 9
  BY <1>2
<1>4. f.val = NDN!Blob(18, <<>>)
  BY <1>2
<1>7. NDN!ReadField(NdnPkt(t, n, no, o, s, l, c, h, z), f) = {NdnPkt(t, n, yes, o, s, l, c, h, z)}
  BY <1>3, <1>4, NdnReadsSelectors
<1>8. NDN!ReadField(NdnPkt(t, n, no, o, s, l, c, h, z), [type |-> 9, val |-> v, rest |-> r]) = {NdnPkt(t, n, yes, o, s, l, c, h, z)}
  BY <1>1, <1>7, Zenon
<1>9. 9 \in Count
  BY SmallCount
<1> QED  BY <1>8, <1>9, NdnField

LEMMA NdnThenName ==
  ASSUME NEW t, NEW m, NEW o, NEW s, NEW l, NEW c, NEW h, NEW z, NEW q,
         NEW nm, NEW e, NEW one, Empty(e), One(one, nm), NEW v \in Buffer, Len(v) \in Count, One(NDN!ReadName(v), nm), NEW r \in Buffer,
         Reads(NDN!Dehead, NDN!ReadField, r, NdnPkt(t, one, m, o, s, l, c, h, -1), q)
  PROVE  Reads(NDN!Dehead, NDN!ReadField, NDN!Blob(7, v) \o r, NdnPkt(t, e, m, o, s, l, c, h, z), q)
<1>1. PICK f : f = [type |-> 7, val |-> v, rest |-> r]
  OBVIOUS
<1>2. f.type = 7 /\ f.val = v
  BY <1>1
<1>3. f.type = 7
  BY <1>2
<1>4. One(NDN!ReadName(f.val), nm)
  BY <1>2
<1>7. NDN!ReadField(NdnPkt(t, e, m, o, s, l, c, h, z), f) = {NdnPkt(t, one, m, o, s, l, c, h, -1)}
  BY <1>3, <1>4, NdnReadsName
<1>8. NDN!ReadField(NdnPkt(t, e, m, o, s, l, c, h, z), [type |-> 7, val |-> v, rest |-> r]) = {NdnPkt(t, one, m, o, s, l, c, h, -1)}
  BY <1>1, <1>7, Zenon
<1>9. 7 \in Count
  BY SmallCount
<1> QED  BY <1>8, <1>9, NdnField

LEMMA NdnThenMetaInfo ==
  ASSUME NEW t, NEW n, NEW m, NEW o, NEW s, NEW l, NEW c, NEW h, NEW z, NEW q,
         h \in Count, z = None \/ z \in Count, NEW v \in Buffer, Len(v) \in Count, v = FreshPart(h) \o FinalPart(z), NEW r \in Buffer,
         Reads(NDN!Dehead, NDN!ReadField, r, NdnPkt(t, n, m, o, s, l, c, h, z), q)
  PROVE  Reads(NDN!Dehead, NDN!ReadField, NDN!Blob(20, v) \o r, NdnPkt(t, n, m, o, s, l, c, 0, -1), q)
<1>1. PICK f : f = [type |-> 20, val |-> v, rest |-> r]
  OBVIOUS
<1>2. f.type = 20 /\ f.val = v
  BY <1>1
<1>4. MetaInfoOf(f, h, z)
  BY <1>2 DEF MetaInfoOf
<1>7. NDN!ReadField(NdnPkt(t, n, m, o, s, l, c, 0, -1), f) = {NdnPkt(t, n, m, o, s, l, c, h, z)}
  BY <1>4, NdnReadsMetaInfo
<1>8. NDN!ReadField(NdnPkt(t, n, m, o, s, l, c, 0, -1), [type |-> 20, val |-> v, rest |-> r]) = {NdnPkt(t, n, m, o, s, l, c, h, z)}
  BY <1>1, <1>7, Zenon
<1>9. 20 \in Count
  BY SmallCount
<1> QED  BY <1>8, <1>9, NdnField

LEMMA NdnShort ==
  ASSUME NEW type \in Count, NEW v \in Buffer, Len(NDN!Blob(type, v)) \in Count
  PROVE  Len(v) \in Count
<1>1. PICK b : b = NDN!Blob(type, v)
  OBVIOUS
<1>2. Len(b) >= Len(v) + 2 /\ Len(v) \in Nat /\ Len(b) \in Count
  BY <1>1, NdnBlob, BufferLen
<1>3. Len(b) \in Nat
  BY <1>2, SMT DEF Count
<1>4. Len(v) =< Len(b)
  BY <1>2, <1>3
<1> QED  BY <1>2, <1>4, LessCount

LEMMA FivePartsShort ==
  ASSUME NEW a \in Buffer, NEW b \in Buffer, NEW c \in Buffer, NEW d \in Buffer, NEW e \in Buffer,
         Len(a \o (b \o (c \o (d \o e)))) \in Count
  PROVE  Len(a) \in Count /\ Len(b) \in Count /\ Len(c) \in Count /\ Len(d) \in Count /\ Len(e) \in Count
<1>1. PICK i, j, k, l, n \in Nat : i = Len(a) /\ j = Len(b) /\ k = Len(c) /\ l = Len(d) /\ n = Len(e)
  BY BufferLen
<1>2. PICK t \in Count : t = i + (j + (k + (l + n)))
  <2>1. Len(a \o (b \o (c \o (d \o e)))) = Len(a) + (Len(b) + (Len(c) + (Len(d) + Len(e))))
    <3>1. d \o e \in Buffer /\ Len(d \o e) = Len(d) + Len(e)
      BY BufferConcat
    <3>2. c \o (d \o e) \in Buffer /\ Len(c \o (d \o e)) = Len(c) + Len(d \o e)
      BY <3>1, BufferConcat
    <3>3. b \o (c \o (d \o e)) \in Buffer /\ Len(b \o (c \o (d \o e))) = Len(b) + Len(c \o (d \o e))
      BY <3>2, BufferConcat
    <3>4. Len(a \o (b \o (c \o (d \o e)))) = Len(a) + Len(b \o (c \o (d \o e)))
      BY <3>3, BufferConcat
    <3> QED  BY <3>1, <3>2, <3>3, <3>4, Zenon
  <2> QED  BY <1>1, <2>1, Zenon
<1>3. i =< t /\ j =< t /\ k =< t /\ l =< t /\ n =< t
  BY <1>2
<1>4. i \in Count /\ j \in Count /\ k \in Count /\ l \in Count /\ n \in Count
  BY <1>3, LessCount
<1> QED  BY <1>1, <1>4, Zenon

LEMMA PacketCount == \A i \in Nat : i =< MaxPacketSize => i \in Count
<1>1. MaxPacketSize \in Nat /\ MaxPacketSize =< 2147483647
  BY FrameAssumption, SMT DEF IsNumber, MaxNumber
<1>2. MaxPacketSize \in Count
  BY <1>1, SMT DEF Count
<1> QED  BY <1>2, LessCount

(* A name within the limits, and a packet with one that is alone in its datagram *)
NdnNamed(comps, chunk) ==
  /\ NdnComps(comps) /\ (chunk = None \/ chunk \in Count)
  /\ Len(comps) + (IF chunk = None THEN 0 ELSE 1) =< MaxNameComp
NdnAlone(b, q) == NDN!Forwarder(b) = {[pkts |-> <<q>>, rest |-> <<>>]}

(* A Data packet is read with its name, its content and its MetaInfo as they were
   written. *)
NdnContentAs(comps, chunk, payload, opts) ==
  NdnPkt(6, {[comps |-> comps \o NdnChunkComp(chunk), chunk |-> chunk]},
         FALSE, -1, 3, 1000 * InterestTimeout, payload, opts.fresh, opts.final)
ContentOptions(opts) == opts.fresh \in Count /\ (opts.final = None \/ opts.final \in Count)

LEMMA NdnContentRead ==
  ASSUME NEW comps, NEW chunk, NdnNamed(comps, chunk), NEW payload \in Buffer, NEW opts, ContentOptions(opts),
         NEW b \in NDN!MkContent([comps |-> comps, chunk |-> chunk], payload, opts)
  PROVE  /\ b \in Buffer /\ Len(b) >= 2 /\ b[1] = 6
         /\ NdnAlone(b, NdnContentAs(comps, chunk, payload, opts))
<1> SUFFICES
      ASSUME NdnComps(comps), chunk = None \/ chunk \in Count,
             Len(comps) + (IF chunk = None THEN 0 ELSE 1) =< MaxNameComp,
             opts.fresh \in Count, opts.final = None \/ opts.final \in Count
      PROVE  /\ b \in Buffer /\ Len(b) >= 2 /\ b[1] = 6
             /\ NDN!Forwarder(b) =
                  {[pkts |-> <<NdnPkt(6, {[comps |-> comps \o NdnChunkComp(chunk), chunk |-> chunk]},
                                 FALSE, -1, 3, 1000 * InterestTimeout, payload, opts.fresh, opts.final)>>,
                    rest |-> <<>>]}
  BY Zenon DEF NdnNamed, ContentOptions, NdnAlone, NdnContentAs
<1>1. PICK name, nb, nm : /\ name = [comps |-> comps, chunk |-> chunk] /\ nb = NdnNameBody(comps, chunk)
                          /\ nm = [comps |-> comps \o NdnChunkComp(chunk), chunk |-> chunk]
  OBVIOUS
<1>2. /\ nb \in Buffer /\ NDN!MkName(name) = NDN!Blob(7, nb)
      /\ Len(nb) \in Count => NDN!ReadName(nb) = {nm}
  BY <1>1, NdnNameRead
<1>3. 6 \in Count /\ 7 \in Count /\ 20 \in Count /\ 21 \in Count /\ 22 \in Count /\ 23 \in Count /\ 27 \in Count
  BY SmallCount
<1>4. PICK h, z : h = opts.fresh /\ z = opts.final
  OBVIOUS
<1>5. h \in Count /\ (z = None \/ z \in Count)
  BY <1>4
<1>6. PICK mv : mv = FreshPart(h) \o FinalPart(z)
  OBVIOUS
<1>7. mv \in Buffer
  <2>1. MetaInfoOf([type |-> 20, val |-> FreshPart(h) \o FinalPart(z)], h, z)
    BY <1>5 DEF MetaInfoOf
  <2> QED  BY <1>6, <2>1, NdnReadsMetaInfo
<1>8. PICK dv : dv = NDN!Blob(27, <<0>>)
  OBVIOUS
<1>9. <<0>> \in Buffer /\ <<>> \in Buffer
  <2>1. 0 \in Octet
    BY DEF Octet
  <2> QED  BY <2>1, BufferEmpty, OneOctet
<1>10. dv \in Buffer
  BY <1>3, <1>8, <1>9, NdnBlob
<1>11. PICK a, m, c, d, e : /\ a = NDN!Blob(7, nb) /\ m = NDN!Blob(20, mv) /\ c = NDN!Blob(21, payload)
                            /\ d = NDN!Blob(22, dv) /\ e = NDN!Blob(23, <<>>)
  OBVIOUS
<1>12. a \in Buffer /\ m \in Buffer /\ c \in Buffer /\ d \in Buffer /\ e \in Buffer
  <2>1. a \in Buffer
    BY <1>2, <1>3, <1>11, NdnBlob
  <2>2. m \in Buffer
    BY <1>3, <1>7, <1>11, NdnBlob
  <2>3. c \in Buffer
    BY <1>3, <1>11, NdnBlob
  <2>4. d \in Buffer
    BY <1>3, <1>10, <1>11, NdnBlob
  <2>5. e \in Buffer
    BY <1>3, <1>9, <1>11, NdnBlob
  <2> QED  BY <2>1, <2>2, <2>3, <2>4, <2>5
<1>13. PICK body : body = a \o (m \o (c \o (d \o e)))
  OBVIOUS
<1>14. /\ body \in Buffer /\ (((a \o m) \o c) \o d) \o e = body
       /\ m \o (c \o (d \o e)) \in Buffer /\ c \o (d \o e) \in Buffer /\ d \o e \in Buffer
  <2>1. /\ (((a \o m) \o c) \o d) \o e = a \o (m \o (c \o (d \o e)))
        /\ a \o (m \o (c \o (d \o e))) \in Buffer
        /\ Len(a \o (m \o (c \o (d \o e)))) = Len(a) + (Len(m) + (Len(c) + (Len(d) + Len(e))))
        /\ m \o (c \o (d \o e)) \in Buffer /\ c \o (d \o e) \in Buffer /\ d \o e \in Buffer
    BY <1>12, FiveParts, ZenonT(60)
  <2> QED  BY <1>13, <2>1, Zenon
<1>15. b = NDN!Blob(6, body) /\ Len(b) =< MaxPacketSize
  <2> DEFINE fresh == IF opts.fresh = 0 THEN <<>> ELSE NDN!NonNegInt(NDN!TLV.FreshnessPeriod, opts.fresh)
             final == IF opts.final = NDN!None THEN <<>>
                      ELSE NDN!Blob(NDN!TLV.FinalBlockId, NDN!IncludedNonNegInt(NDN!TLV.NameComponent, opts.final))
             x == NDN!Blob(NDN!TLV.Data, NDN!MkName(name) \o NDN!Blob(NDN!TLV.MetaInfo, fresh \o final)
                     \o NDN!Blob(NDN!TLV.Content, payload)
                     \o NDN!Blob(NDN!TLV.SignatureInfo, NDN!Blob(NDN!TLV.SignatureType, <<0>>))
                     \o NDN!Blob(NDN!TLV.SignatureValue, <<>>))
  <2>1. NDN!MkContent(name, payload, opts) = IF Len(x) =< MaxPacketSize THEN {x} ELSE {}
    BY Zenon DEF NDN!MkContent, NDN!Only, NDN!Fits
  <2>2. fresh = FreshPart(h)
    BY <1>4, NdnTypes DEF NDN!NonNegInt, FreshPart
  <2>3. final = FinalPart(z)
    BY <1>4, NdnTypes DEF NDN!IncludedNonNegInt, Marked, None, FinalPart
  <2> HIDE DEF fresh, final
  <2>4. fresh \o final = mv
    BY <1>6, <2>2, <2>3, Zenon
  <2>5. x = NDN!Blob(6, (((a \o m) \o c) \o d) \o e)
    BY <1>2, <1>8, <1>11, <2>4, NdnTypes
  <2> HIDE DEF x
  <2>6. b = x /\ Len(x) =< MaxPacketSize
    BY <1>1, <2>1
  <2> QED  BY <1>14, <2>5, <2>6
<1>16. Len(b) \in Count /\ b \in Buffer
  <2>1. b \in Buffer
    BY <1>3, <1>14, <1>15, NdnBlob
  <2> QED  BY <1>15, <2>1, PacketCount, BufferLen
<1>17. Len(body) \in Count
  BY <1>3, <1>14, <1>15, <1>16, NdnShort
<1>18. Len(a) \in Count /\ Len(m) \in Count /\ Len(c) \in Count /\ Len(d) \in Count /\ Len(e) \in Count
  BY <1>12, <1>13, <1>17, FivePartsShort
<1>19. Len(nb) \in Count
  BY <1>2, <1>3, <1>11, <1>18, NdnShort
<1>20. Len(mv) \in Count
  BY <1>3, <1>7, <1>11, <1>18, NdnShort
<1>21. Len(payload) \in Count
  BY <1>3, <1>11, <1>18, NdnShort
<1>22. Len(dv) \in Count
  BY <1>3, <1>10, <1>11, <1>18, NdnShort
<1>23. Len(<<>>) \in Count
  BY BufferEmpty, SmallCount
<1>n. PICK no : no = FALSE
  OBVIOUS
<1>l. PICK life : life = 1000 * InterestTimeout
  OBVIOUS
<1>x. PICK x : x = {}
  OBVIOUS
<1>y. PICK y : y = {nm}
  OBVIOUS
<1>24. life = 1000 * InterestTimeout /\ no = FALSE /\ x = {} /\ y = {nm}
  BY <1>n, <1>l, <1>x, <1>y, Zenon
<1>25. PICK q : q = NdnPkt(6, y, no, -1, 3, life, payload, h, z)
  OBVIOUS
<1> DEFINE R(s, p, t) == Reads(NDN!Dehead, NDN!ReadField, s, p, t)
<1>26. R(e, q, q)
  <2>1. Reads(NDN!Dehead, NDN!ReadField, <<>>, q, q)
    BY NdnNoField
  <2>2. Reads(NDN!Dehead, NDN!ReadField, NDN!Blob(23, <<>>) \o <<>>, q, q)
    BY <1>9, <1>23, <2>1, NdnThenOther
  <2>3. e \o <<>> = e
    BY <1>12, BufferEmptyConcat
  <2> QED  BY <1>11, <2>2, <2>3, Zenon
<1>27. R(d \o e, q, q)
  <2>1. Reads(NDN!Dehead, NDN!ReadField, NDN!Blob(22, dv) \o e, q, q)
    BY <1>10, <1>12, <1>22, <1>26, NdnThenOther
  <2> QED  BY <1>11, <2>1, Zenon
<1>28. R(c \o (d \o e), NdnPkt(6, y, no, -1, 3, life, <<>>, h, z), q)
  <2>1. PICK r : r = d \o e
    OBVIOUS
  <2>2. r \in Buffer /\ Reads(NDN!Dehead, NDN!ReadField, r, NdnPkt(6, y, no, -1, 3, life, payload, h, z), q)
    BY <1>14, <1>25, <1>27, <2>1, Zenon
  <2>3. Reads(NDN!Dehead, NDN!ReadField, NDN!Blob(21, payload) \o r, NdnPkt(6, y, no, -1, 3, life, <<>>, h, z), q)
    BY <1>21, <2>2, NdnThenContent
  <2> QED  BY <1>11, <2>1, <2>3, Zenon
<1>29. R(m \o (c \o (d \o e)), NdnPkt(6, y, no, -1, 3, life, <<>>, 0, -1), q)
  <2>1. PICK r : r = c \o (d \o e)
    OBVIOUS
  <2>2. r \in Buffer /\ Reads(NDN!Dehead, NDN!ReadField, r, NdnPkt(6, y, no, -1, 3, life, <<>>, h, z), q)
    BY <1>14, <1>28, <2>1, Zenon
  <2>3. Reads(NDN!Dehead, NDN!ReadField, NDN!Blob(20, mv) \o r, NdnPkt(6, y, no, -1, 3, life, <<>>, 0, -1), q)
    BY <1>5, <1>6, <1>7, <1>20, <2>2, NdnThenMetaInfo
  <2> QED  BY <1>11, <2>1, <2>3, Zenon
<1>30. R(body, NdnPkt(6, x, no, -1, 3, life, <<>>, 0, -1), q)
  <2>1. PICK r : r = m \o (c \o (d \o e))
    OBVIOUS
  <2>2. r \in Buffer /\ Reads(NDN!Dehead, NDN!ReadField, r, NdnPkt(6, y, no, -1, 3, life, <<>>, 0, -1), q)
    BY <1>14, <1>29, <2>1, Zenon
  <2>3. Empty(x) /\ One(y, nm) /\ One(NDN!ReadName(nb), nm)
    BY <1>2, <1>19, <1>24, Zenon DEF Empty, One
  <2>4. Reads(NDN!Dehead, NDN!ReadField, NDN!Blob(7, nb) \o r, NdnPkt(6, x, no, -1, 3, life, <<>>, 0, -1), q)
    BY <1>2, <1>19, <2>2, <2>3, NdnThenName
  <2> QED  BY <1>11, <1>13, <2>1, <2>4, Zenon
<1>31. Reads(NDN!Dehead, NDN!ReadField, body, NDN!Blank(6), q)
  <2>1. NDN!Blank(6) = NdnPkt(6, x, no, -1, 3, life, <<>>, 0, -1)
    BY <1>24, NdnBlank, ZenonT(60)
  <2> QED  BY <1>30, <2>1, Zenon
<1>32. b \in Buffer /\ Len(b) >= 2 /\ b[1] = 6 /\ NDN!Forwarder(b) = {[pkts |-> <<q>>, rest |-> <<>>]}
  BY <1>14, <1>15, <1>17, <1>31, NdnForwards
<1>33. q = NdnPkt(6, {[comps |-> comps \o NdnChunkComp(chunk), chunk |-> chunk]},
                  FALSE, -1, 3, 1000 * InterestTimeout, payload, opts.fresh, opts.final)
  BY <1>1, <1>4, <1>24, <1>25, ZenonT(60)
<1> HIDE DEF NdnPkt
<1> QED  BY <1>32, <1>33, ZenonT(60)

SelectorPart(mbf) == IF mbf THEN NDN!Blob(9, NDN!Blob(18, <<>>)) ELSE <<>>
LifetimePart(l) == IF l = 0 THEN <<>> ELSE NDN!Blob(12, NDN!NonNegIntVal(l))
ScopePart(s) == IF s < 0 THEN <<>> ELSE NDN!Blob(11, NDN!NonNegIntVal(s))

(* The scope, the lifetime and the selectors are there or not. *)
LEMMA NdnThenScopePart ==
  ASSUME NEW t, NEW n, NEW m, NEW o, NEW l, NEW c, NEW h, NEW z, NEW v \in Int, v =< 2
  PROVE  /\ ScopePart(v) \in Buffer
         /\ \E s : Reads(NDN!Dehead, NDN!ReadField, ScopePart(v), NdnPkt(t, n, m, o, 3, l, c, h, z),
                         NdnPkt(t, n, m, o, s, l, c, h, z))
<1>1. CASE v < 0
  <2>1. ScopePart(v) = <<>>
    BY <1>1 DEF ScopePart
  <2>2. Reads(NDN!Dehead, NDN!ReadField, <<>>, NdnPkt(t, n, m, o, 3, l, c, h, z), NdnPkt(t, n, m, o, 3, l, c, h, z))
    BY NdnNoField
  <2> QED  BY <2>1, <2>2, BufferEmpty, Zenon
<1>2. CASE ~ (v < 0)
  <2>1. v \in 0..255
    BY <1>2
  <2>2. v \in Count /\ 11 \in Count
    BY <2>1, SmallCount
  <2>3. PICK e : e = NDN!NonNegIntVal(v)
    OBVIOUS
  <2>4. e \in Buffer /\ Len(e) \in 1..4
    BY <2>2, <2>3, NdnNonNegIntVal
  <2>5. Len(e) \in Count
    <3>1. \A i \in 1..4 : i \in 0..255
      OBVIOUS
    <3> QED  BY <2>4, <3>1, SmallCount, Zenon
  <2>6. PICK s : s = NDN!Number(e)
    OBVIOUS
  <2>7. Reads(NDN!Dehead, NDN!ReadField, <<>>, NdnPkt(t, n, m, o, NDN!Number(e), l, c, h, z),
              NdnPkt(t, n, m, o, s, l, c, h, z))
    <3>1. Reads(NDN!Dehead, NDN!ReadField, <<>>, NdnPkt(t, n, m, o, s, l, c, h, z), NdnPkt(t, n, m, o, s, l, c, h, z))
      BY NdnNoField
    <3> QED  BY <2>6, <3>1, Zenon
  <2>8. <<>> \in Buffer
    BY BufferEmpty
  <2>9. Reads(NDN!Dehead, NDN!ReadField, NDN!Blob(11, e) \o <<>>, NdnPkt(t, n, m, o, 3, l, c, h, z),
              NdnPkt(t, n, m, o, s, l, c, h, z))
    BY <2>4, <2>5, <2>7, <2>8, NdnThenScope
  <2>10. PICK b : b = NDN!Blob(11, e)
    OBVIOUS
  <2>11. b \in Buffer /\ b \o <<>> = b
    BY <2>2, <2>4, <2>10, NdnBlob, BufferEmptyConcat
  <2>12. ScopePart(v) = b
    BY <1>2, <2>3, <2>10 DEF ScopePart
  <2>13. Reads(NDN!Dehead, NDN!ReadField, b, NdnPkt(t, n, m, o, 3, l, c, h, z), NdnPkt(t, n, m, o, s, l, c, h, z))
    <3>1. NDN!Blob(11, e) \o <<>> = b
      BY <2>10, <2>11, Zenon
    <3> QED  BY <2>9, <3>1
  <2> HIDE DEF ScopePart
  <2>14. ScopePart(v) \in Buffer
    BY <2>11, <2>12
  <2>15. Reads(NDN!Dehead, NDN!ReadField, ScopePart(v), NdnPkt(t, n, m, o, 3, l, c, h, z),
               NdnPkt(t, n, m, o, s, l, c, h, z))
    BY <2>12, <2>13
  <2> QED  BY <2>14, <2>15, ZenonT(60)
<1> QED  BY <1>1, <1>2

Lifetime(l) == IF l = 0 THEN 1000 * InterestTimeout ELSE l

LEMMA NdnThenLifetimePart ==
  ASSUME NEW t, NEW n, NEW m, NEW o, NEW s, NEW c, NEW h, NEW z, NEW q, NEW v \in Count,
         NEW r \in Buffer, Reads(NDN!Dehead, NDN!ReadField, r, NdnPkt(t, n, m, o, s, Lifetime(v), c, h, z), q)
  PROVE  /\ LifetimePart(v) \in Buffer
         /\ Reads(NDN!Dehead, NDN!ReadField, LifetimePart(v) \o r,
                  NdnPkt(t, n, m, o, s, 1000 * InterestTimeout, c, h, z), q)
<1>1. CASE v = 0
  <2>1. LifetimePart(v) = <<>> /\ Lifetime(v) = 1000 * InterestTimeout
    BY <1>1 DEF LifetimePart, Lifetime
  <2>2. <<>> \o r = r
    BY BufferEmptyConcat
  <2>3. Reads(NDN!Dehead, NDN!ReadField, r, NdnPkt(t, n, m, o, s, 1000 * InterestTimeout, c, h, z), q)
    BY <2>1, ZenonT(60)
  <2>4. LifetimePart(v) \o r = r
    BY <2>1, <2>2
  <2> QED  BY <2>1, <2>3, <2>4, BufferEmpty, ZenonT(60)
<1>2. CASE v # 0
  <2>1. PICK e, life : e = NDN!NonNegIntVal(v) /\ life = 1000 * InterestTimeout
    OBVIOUS
  <2>2. e \in Buffer /\ Len(e) \in 1..4 /\ NDN!Number(e) = v
    BY <2>1, NdnNonNegIntVal
  <2>3. Len(e) \in Count
    <3>1. \A i \in 1..4 : i \in 0..255
      OBVIOUS
    <3> QED  BY <2>2, <3>1, SmallCount, Zenon
  <2>4. Lifetime(v) = NDN!Number(e) /\ LifetimePart(v) = NDN!Blob(12, e)
    BY <1>2, <2>1, <2>2 DEF Lifetime, LifetimePart
  <2>5. Reads(NDN!Dehead, NDN!ReadField, r, NdnPkt(t, n, m, o, s, NDN!Number(e), c, h, z), q)
    BY <2>4, Zenon
  <2>6. Reads(NDN!Dehead, NDN!ReadField, NDN!Blob(12, e) \o r, NdnPkt(t, n, m, o, s, life, c, h, z), q)
    BY <2>2, <2>3, <2>5, NdnThenLifetime
  <2>7. 12 \in Count
    BY SmallCount
  <2>8. NDN!Blob(12, e) \in Buffer
    BY <2>2, <2>7, NdnBlob
  <2> QED  BY <2>1, <2>4, <2>6, <2>8, ZenonT(60)
<1> QED  BY <1>1, <1>2

Flags(v, no) == v \in BOOLEAN /\ no = FALSE

LEMMA NdnThenSelectorPart ==
  ASSUME NEW t, NEW n, NEW o, NEW s, NEW l, NEW c, NEW h, NEW z, NEW q, NEW v,
         NEW no, Flags(v, no),
         NEW r \in Buffer, Reads(NDN!Dehead, NDN!ReadField, r, NdnPkt(t, n, v, o, s, l, c, h, z), q)
  PROVE  /\ SelectorPart(v) \in Buffer
         /\ Reads(NDN!Dehead, NDN!ReadField, SelectorPart(v) \o r, NdnPkt(t, n, no, o, s, l, c, h, z), q)
<1>f. v \in BOOLEAN /\ no = FALSE
  BY Zenon DEF Flags
<1>1. CASE v = FALSE
  <2>1. SelectorPart(v) = <<>>
    BY <1>1, Zenon DEF SelectorPart
  <2>2. <<>> \o r = r
    BY BufferEmptyConcat
  <2>3. v = no
    BY <1>f, <1>1, Zenon
  <2> QED  BY <2>1, <2>2, <2>3, BufferEmpty, Zenon
<1>2. CASE v = TRUE
  <2>1. PICK e : e = NDN!Blob(18, <<>>)
    OBVIOUS
  <2>2. 18 \in Count /\ 9 \in Count /\ <<>> \in Buffer
    BY SmallCount, BufferEmpty
  <2>3. e \in Buffer
    BY <2>1, <2>2, NdnBlob
  <2>4. Len(e) \in Count
    <3>1. PICK x, y : x = NDN!TLval(18) /\ y = NDN!TLval(Len(<<>>))
      OBVIOUS
    <3>2. Len(<<>>) \in Nat
      BY BufferEmpty
    <3>3. x \in Buffer /\ Len(x) \in 1..5 /\ y \in Buffer /\ Len(y) \in 1..5
      BY <3>1, <3>2, NdnTLval
    <3>4. x \o y \in Buffer /\ Len(x \o y) = Len(x) + Len(y)
      BY <3>3, BufferConcat
    <3>5. (x \o y) \o <<>> = x \o y
      BY <3>4, BufferEmptyConcat
    <3>6. e = (x \o y) \o <<>>
      BY <2>1, <3>1 DEF NDN!Blob
    <3>7. \A i, j \in 1..5 : i + j \in 0..255
      OBVIOUS
    <3>8. Len(e) \in 0..255
      BY <3>3, <3>4, <3>5, <3>6, <3>7, ZenonT(60)
    <3> QED  BY <3>8, SmallCount, Zenon
  <2>5. Yes(v)
    BY <1>2, Zenon DEF Yes
  <2>6. Reads(NDN!Dehead, NDN!ReadField, NDN!Blob(9, e) \o r, NdnPkt(t, n, no, o, s, l, c, h, z), q)
    BY <2>1, <2>3, <2>4, <2>5, NdnThenSelectors
  <2>7. SelectorPart(v) = NDN!Blob(9, e)
    BY <1>2, <2>1, Zenon DEF SelectorPart
  <2>8. NDN!Blob(9, e) \in Buffer
    BY <2>2, <2>3, NdnBlob
  <2> QED  BY <2>6, <2>7, <2>8, Zenon
<1>3. v = TRUE \/ v = FALSE
  BY <1>f
<1> QED  BY <1>1, <1>2, <1>3, Zenon

(* An Interest is read with its name, its nonce, its lifetime and its selectors as they
   were written. *)
InterestOptions(opts) ==
  opts.nonce \in Count /\ opts.lifetime \in Count /\ opts.mbf \in BOOLEAN /\ opts.scope \in Int
NdnInterestAs(comps, chunk, opts, s) ==
  NdnPkt(5, {[comps |-> comps \o NdnChunkComp(chunk), chunk |-> chunk]},
         opts.mbf, opts.nonce, s, Lifetime(opts.lifetime), <<>>, 0, -1)

LEMMA NdnInterestRead ==
  ASSUME NEW comps, NEW chunk, NdnNamed(comps, chunk), NEW opts, InterestOptions(opts),
         NEW b \in NDN!MkInterest([comps |-> comps, chunk |-> chunk], opts)
  PROVE  /\ b \in Buffer /\ Len(b) >= 2 /\ b[1] = 5
         /\ \E s : NdnAlone(b, NdnInterestAs(comps, chunk, opts, s))
<1> SUFFICES
      ASSUME NdnComps(comps), chunk = None \/ chunk \in Count,
             Len(comps) + (IF chunk = None THEN 0 ELSE 1) =< MaxNameComp,
             opts.nonce \in Count, opts.lifetime \in Count, opts.mbf \in BOOLEAN, opts.scope \in Int
      PROVE  /\ b \in Buffer /\ Len(b) >= 2 /\ b[1] = 5
             /\ \E s : NDN!Forwarder(b) =
                  {[pkts |-> <<NdnPkt(5, {[comps |-> comps \o NdnChunkComp(chunk), chunk |-> chunk]},
                                 opts.mbf, opts.nonce, s, Lifetime(opts.lifetime), <<>>, 0, -1)>>, rest |-> <<>>]}
  BY Zenon DEF NdnNamed, InterestOptions, NdnAlone, NdnInterestAs
<1>1. PICK name, nb, nm : /\ name = [comps |-> comps, chunk |-> chunk] /\ nb = NdnNameBody(comps, chunk)
                          /\ nm = [comps |-> comps \o NdnChunkComp(chunk), chunk |-> chunk]
  OBVIOUS
<1>2. /\ nb \in Buffer /\ NDN!MkName(name) = NDN!Blob(7, nb)
      /\ Len(nb) \in Count => NDN!ReadName(nb) = {nm}
  BY <1>1, NdnNameRead
<1>3. 5 \in Count /\ 7 \in Count /\ 10 \in Count
  BY SmallCount
<1>4. PICK nonce, life, mbf, scope : /\ nonce = opts.nonce /\ life = opts.lifetime
                                     /\ mbf = opts.mbf /\ scope = opts.scope
  OBVIOUS
<1>5. nonce \in Count /\ life \in Count /\ mbf \in BOOLEAN /\ scope \in Int
  BY <1>4
<1>6. PICK nv : nv = BigEndian(4, nonce)
  OBVIOUS
<1>7. nv \in Buffer /\ Len(nv) \in Count /\ NDN!Number(nv) = nonce
  <2>1. nonce \in Nat /\ nonce =< 2147483647
    BY <1>5, SMT DEF Count
  <2>2. Holds(4, nonce)
    BY <2>1, SMT DEF Holds
  <2>3. nv \in Buffer /\ Len(nv) = 4
    BY <1>6, <2>1, BigEndianOctets
  <2>4. NDN!Number(nv) = nonce
    BY <1>6, <2>2, BigEndianNumber, NdnOctets
  <2>5. 4 \in Count
    BY SmallCount
  <2> QED  BY <2>3, <2>4, <2>5
<1>8. PICK a, m, c, d, e : /\ a = NDN!Blob(7, nb) /\ m = SelectorPart(mbf) /\ c = NDN!Blob(10, nv)
                           /\ d = LifetimePart(life) /\ e = ScopePart(scope)
  OBVIOUS
<1>9. PICK body : body = a \o (m \o (c \o (d \o e)))
  OBVIOUS
<1>10. /\ b = NDN!Blob(5, (((a \o m) \o c) \o d) \o e) /\ Len(b) =< MaxPacketSize
       /\ scope =< 2
  <2> DEFINE sel == IF opts.mbf THEN NDN!Blob(NDN!TLV.Selectors, NDN!Blob(NDN!TLV.MustBeFresh, <<>>)) ELSE <<>>
             lif == IF opts.lifetime = 0 THEN <<>> ELSE NDN!NonNegInt(NDN!TLV.InterestLifetime, opts.lifetime)
             sco == IF opts.scope < 0 THEN <<>> ELSE NDN!NonNegInt(NDN!TLV.Scope, opts.scope)
             x == NDN!Blob(NDN!TLV.Interest, NDN!MkName(name) \o sel \o NDN!Blob(NDN!TLV.Nonce, NDN!BigEndian(4, opts.nonce))
                     \o lif \o sco)
             fits == IF Len(x) =< MaxPacketSize THEN {x} ELSE {}
             some == IF opts.scope =< 2 THEN {opts} ELSE {}
  <2>1. NDN!MkInterest(name, opts) = UNION {fits : k \in some}
    BY Zenon DEF NDN!MkInterest, NDN!Only, NDN!Fits, NDN!AndThen
  <2>2. sel = m
    <3>1. m = SelectorPart(opts.mbf)
      BY <1>4, <1>8, Zenon
    <3>2. sel = IF opts.mbf THEN NDN!Blob(9, NDN!Blob(18, <<>>)) ELSE <<>>
      BY NdnTypes
    <3> QED  BY <3>1, <3>2, Zenon DEF SelectorPart
  <2>3. lif = d
    BY <1>4, <1>8, NdnTypes DEF NDN!NonNegInt, LifetimePart
  <2>4. sco = e
    BY <1>4, <1>8, NdnTypes DEF NDN!NonNegInt, ScopePart
  <2>5. NDN!Blob(NDN!TLV.Nonce, NDN!BigEndian(4, opts.nonce)) = c
    BY <1>4, <1>6, <1>8, NdnTypes, NdnOctets
  <2>6. NDN!MkName(name) = a /\ NDN!TLV.Interest = 5
    BY <1>2, <1>8, NdnTypes
  <2> HIDE DEF sel, lif, sco
  <2>7. x = NDN!Blob(5, (((a \o m) \o c) \o d) \o e)
    BY <2>2, <2>3, <2>4, <2>5, <2>6, Zenon
  <2> HIDE DEF x
  <2>8. b \in UNION {fits : k \in some}
    BY <1>1, <2>1, Zenon
  <2>9. opts.scope =< 2 /\ b \in fits
    BY <2>8
  <2>10. b = x /\ Len(x) =< MaxPacketSize
    BY <2>9
  <2> QED  BY <1>4, <2>7, <2>9, <2>10, Zenon
<1>11. PICK s : /\ e \in Buffer
                /\ Reads(NDN!Dehead, NDN!ReadField, e, NdnPkt(5, {nm}, mbf, nonce, 3, Lifetime(life), <<>>, 0, -1),
                         NdnPkt(5, {nm}, mbf, nonce, s, Lifetime(life), <<>>, 0, -1))
  <2>1. scope =< 2
    BY <1>10
  <2>2. PICK y, l2 : y = {nm} /\ l2 = Lifetime(life)
    OBVIOUS
  <2>3. /\ ScopePart(scope) \in Buffer
        /\ \E s : Reads(NDN!Dehead, NDN!ReadField, ScopePart(scope), NdnPkt(5, y, mbf, nonce, 3, l2, <<>>, 0, -1),
                        NdnPkt(5, y, mbf, nonce, s, l2, <<>>, 0, -1))
    BY <1>5, <2>1, NdnThenScopePart
  <2> QED  BY <1>8, <2>2, <2>3, Zenon
<1>n. PICK no : no = FALSE
  OBVIOUS
<1>x. PICK x : x = {}
  OBVIOUS
<1>y. PICK y : y = {nm}
  OBVIOUS
<1>l. PICK wait : wait = 1000 * InterestTimeout
  OBVIOUS
<1>12. PICK q : q = NdnPkt(5, y, mbf, nonce, s, Lifetime(life), <<>>, 0, -1)
  OBVIOUS
<1> DEFINE R(u, p, t) == Reads(NDN!Dehead, NDN!ReadField, u, p, t)
<1>13. e \in Buffer /\ R(e, NdnPkt(5, y, mbf, nonce, 3, Lifetime(life), <<>>, 0, -1), q)
  BY <1>11, <1>12, <1>y, Zenon
<1>14. d \in Buffer /\ R(d \o e, NdnPkt(5, y, mbf, nonce, 3, wait, <<>>, 0, -1), q)
  <2>1. /\ LifetimePart(life) \in Buffer
        /\ R(LifetimePart(life) \o e, NdnPkt(5, y, mbf, nonce, 3, 1000 * InterestTimeout, <<>>, 0, -1), q)
    BY <1>5, <1>13, NdnThenLifetimePart
  <2> QED  BY <1>8, <1>l, <2>1, ZenonT(60)
<1>15. d \o e \in Buffer
  BY <1>13, <1>14, BufferConcat
<1>16. c \in Buffer /\ R(c \o (d \o e), NdnPkt(5, y, mbf, NDN!None, 3, wait, <<>>, 0, -1), q)
  <2>1. PICK r : r = d \o e
    OBVIOUS
  <2>2. r \in Buffer /\ R(r, NdnPkt(5, y, mbf, NDN!Number(nv), 3, wait, <<>>, 0, -1), q)
    BY <1>7, <1>14, <1>15, <2>1, Zenon
  <2>3. R(NDN!Blob(10, nv) \o r, NdnPkt(5, y, mbf, NDN!None, 3, wait, <<>>, 0, -1), q)
    BY <1>7, <2>2, NdnThenNonce
  <2>4. NDN!Blob(10, nv) \in Buffer
    BY <1>3, <1>7, NdnBlob
  <2> QED  BY <1>8, <2>1, <2>3, <2>4, Zenon
<1>17. c \o (d \o e) \in Buffer
  BY <1>15, <1>16, BufferConcat
<1>18. m \in Buffer /\ R(m \o (c \o (d \o e)), NdnPkt(5, y, no, NDN!None, 3, wait, <<>>, 0, -1), q)
  <2>1. PICK r : r = c \o (d \o e)
    OBVIOUS
  <2>2. r \in Buffer /\ R(r, NdnPkt(5, y, mbf, NDN!None, 3, wait, <<>>, 0, -1), q)
    BY <1>16, <1>17, <2>1, Zenon
  <2>3. /\ SelectorPart(mbf) \in Buffer
        /\ R(SelectorPart(mbf) \o r, NdnPkt(5, y, no, NDN!None, 3, wait, <<>>, 0, -1), q)
    <3>1. Flags(mbf, no)
      BY <1>5, <1>n, Zenon DEF Flags
    <3>2. r \in Buffer
      BY <2>2
    <3> QED  BY <2>2, <3>1, <3>2, NdnThenSelectorPart
  <2> QED  BY <1>8, <2>1, <2>3, Zenon
<1>19. a \in Buffer
  BY <1>2, <1>3, <1>8, NdnBlob
<1>20. /\ body \in Buffer /\ (((a \o m) \o c) \o d) \o e = body
       /\ m \o (c \o (d \o e)) \in Buffer
  <2>1. /\ (((a \o m) \o c) \o d) \o e = a \o (m \o (c \o (d \o e)))
        /\ a \o (m \o (c \o (d \o e))) \in Buffer
        /\ Len(a \o (m \o (c \o (d \o e)))) = Len(a) + (Len(m) + (Len(c) + (Len(d) + Len(e))))
        /\ m \o (c \o (d \o e)) \in Buffer /\ c \o (d \o e) \in Buffer /\ d \o e \in Buffer
    <3>1. a \in Buffer /\ m \in Buffer /\ c \in Buffer /\ d \in Buffer /\ e \in Buffer
      BY <1>13, <1>14, <1>16, <1>18, <1>19
    <3> QED  BY <3>1, FiveParts, ZenonT(60)
  <2> QED  BY <1>9, <2>1, Zenon
<1>21. b = NDN!Blob(5, body)
  BY <1>10, <1>20, Zenon
<1>22. Len(b) \in Count /\ b \in Buffer
  <2>1. b \in Buffer
    BY <1>3, <1>20, <1>21, NdnBlob
  <2>2. Len(b) =< MaxPacketSize
    BY <1>10
  <2> QED  BY <2>1, <2>2, PacketCount, BufferLen
<1>23. Len(body) \in Count
  BY <1>3, <1>20, <1>21, <1>22, NdnShort
<1>24. Len(nb) \in Count
  <2>1. Len(a) \in Count
    <3>1. a \in Buffer /\ m \in Buffer /\ c \in Buffer /\ d \in Buffer /\ e \in Buffer
      BY <1>13, <1>14, <1>16, <1>18, <1>19
    <3> QED  BY <1>9, <1>23, <3>1, FivePartsShort
  <2> QED  BY <1>2, <1>3, <1>8, <2>1, NdnShort
<1>25. R(body, NdnPkt(5, x, no, NDN!None, 3, wait, <<>>, 0, -1), q)
  <2>1. PICK r : r = m \o (c \o (d \o e))
    OBVIOUS
  <2>2. r \in Buffer /\ R(r, NdnPkt(5, y, no, NDN!None, 3, wait, <<>>, 0, -1), q)
    BY <1>18, <1>20, <2>1, Zenon
  <2>3. Empty(x) /\ One(y, nm) /\ One(NDN!ReadName(nb), nm)
    BY <1>2, <1>24, <1>x, <1>y, Zenon DEF Empty, One
  <2>4. R(NDN!Blob(7, nb) \o r, NdnPkt(5, x, no, NDN!None, 3, wait, <<>>, 0, -1), q)
    BY <1>2, <1>24, <2>2, <2>3, NdnThenName
  <2> QED  BY <1>8, <1>9, <2>1, <2>4, Zenon
<1>26. Reads(NDN!Dehead, NDN!ReadField, body, NDN!Blank(5), q)
  <2>1. NDN!None = -1
    BY NdnTypes
  <2>2. NDN!Blank(5) = NdnPkt(5, x, no, NDN!None, 3, wait, <<>>, 0, -1)
    BY <1>l, <1>n, <1>x, <2>1, NdnBlank, ZenonT(60)
  <2> QED  BY <1>25, <2>2, Zenon
<1>27. b \in Buffer /\ Len(b) >= 2 /\ b[1] = 5 /\ NDN!Forwarder(b) = {[pkts |-> <<q>>, rest |-> <<>>]}
  BY <1>20, <1>21, <1>23, <1>26, NdnForwards
<1>28. q = NdnPkt(5, {[comps |-> comps \o NdnChunkComp(chunk), chunk |-> chunk]},
                  opts.mbf, opts.nonce, s, Lifetime(opts.lifetime), <<>>, 0, -1)
  BY <1>1, <1>4, <1>12, <1>y, Zenon
<1> HIDE DEF NdnPkt
<1> QED  BY <1>27, <1>28, Zenon

-----------------------------------------------------------------------------
(***************************************************************************)
(* CCNx: types, lengths, elements.                                         *)
(***************************************************************************)
LEMMA CcnxOctets ==
  /\ \A n, v : CCNX!BigEndian(n, v) = BigEndian(n, v)
  /\ \A b : CCNX!Number(b) = Number(b)
  /\ \A b, n : CCNX!Take(b, n) = Take(b, n) /\ CCNX!Drop(b, n) = Drop(b, n)
<1>1. CCNX!Weight = Weight
  BY DEF Weight, CCNX!Weight
<1>2. ASSUME NEW n, NEW v PROVE CCNX!BigEndian(n, v) = BigEndian(n, v)
  BY <1>1 DEF BigEndian, CCNX!BigEndian
<1>3. ASSUME NEW b PROVE CCNX!Number(b) = Number(b)
  BY Zenon DEF Number, Fold, CCNX!Number, CCNX!Fold
<1>4. ASSUME NEW b, NEW n PROVE CCNX!Take(b, n) = Take(b, n) /\ CCNX!Drop(b, n) = Drop(b, n)
  BY DEF Take, Drop, CCNX!Take, CCNX!Drop
<1> QED  BY <1>2, <1>3, <1>4

LEMMA CcnxFlatten == \A s : CCNX!FlattenSeq(s) = FlattenSeq(s)
BY Zenon DEF FlattenSeq, CCNX!FlattenSeq

LEMMA CcnxTypes ==
  /\ CCNX!PT.Interest = 0 /\ CCNX!PT.Data = 1 /\ CCNX!PT.NACK = 2 /\ CCNX!PT.Fragment = 3
  /\ CCNX!TL.Interest = 1 /\ CCNX!TL.Object = 2 /\ CCNX!TL.Fragment = 5
  /\ CCNX!Msg.Name = 0 /\ CCNX!Msg.Payload = 1 /\ CCNX!Msg.ENDChunk = 25
  /\ CCNX!Nam.NameSegment = 1 /\ CCNX!Nam.Chunk = 16
  /\ CCNX!V1 = 1 /\ CCNX!HdrLen = 9 /\ CCNX!None = -1
BY DEF CCNX!PT, CCNX!TL, CCNX!Msg, CCNX!Nam, CCNX!V1, CCNX!HdrLen, CCNX!None

LEMMA TwoOctets ==
  ASSUME NEW a \in Octet, NEW b \in Octet
  PROVE  /\ <<a, b>> \in Buffer /\ Len(<<a, b>>) = 2 /\ <<a, b>>[1] = a /\ <<a, b>>[2] = b
         /\ <<a, b>> = <<a>> \o <<b>>
<1>1. <<a, b>> \in Buffer /\ Len(<<a, b>>) = 2 /\ <<a, b>>[1] = a /\ <<a, b>>[2] = b
  BY DEF Buffer
<1>2. PICK c : c = <<a>> \o <<b>>
  OBVIOUS
<1>3. <<b>> \in Buffer /\ Len(<<b>>) = 1 /\ <<b>>[1] = b /\ <<a>> \in Buffer /\ Len(<<a>>) = 1 /\ <<a>>[1] = a
  BY DEF Buffer
<1>4. /\ c \in Buffer /\ Len(c) = 1 + 1 /\ \A k \in 1..1 : c[k] = <<a>>[k]
      /\ \A k \in 1..1 : c[1 + k] = <<b>>[k]
  BY <1>2, <1>3, BufferConcat
<1>5. c[1] = a /\ c[2] = b /\ Len(c) = 2
  <2>1. c[1 + 1] = b
    BY <1>3, <1>4
  <2> QED  BY <1>3, <1>4, <2>1
<1>6. PICK d : d = <<a, b>>
  OBVIOUS
<1>7. d \in Buffer /\ Len(d) = 2 /\ d[1] = a /\ d[2] = b
  BY <1>1, <1>6
<1>8. \A k \in 1..Len(d) : d[k] = c[k]
  BY <1>5, <1>7
<1>9. d = c
  BY <1>4, <1>5, <1>7, <1>8, BufferEqual
<1> QED  BY <1>1, <1>2, <1>6, <1>9

LEMMA CcnxShort ==
  ASSUME NEW t \in Octet
  PROVE  <<0, t>> \in Buffer /\ Len(<<0, t>>) = 2 /\ Number(<<0, t>>) = t
<1>1. 0 \in Octet
  BY DEF Octet
<1>2. PICK e : e = <<0, t>>
  OBVIOUS
<1>3. e \in Buffer /\ Len(e) = 2 /\ e[1] = 0 /\ e[2] = t
  BY <1>1, <1>2, TwoOctets
<1>4. Number(e) = 256 * e[1] + e[2]
  BY <1>3, NumberOfShort
<1>5. t \in Nat
  BY OctetIsNat
<1>6. Number(e) = t
  BY <1>3, <1>4, <1>5
<1> QED  BY <1>2, <1>3, <1>6

LEMMA CcnxHeader ==
  ASSUME NEW t \in Octet, NEW n \in Octet
  PROVE  /\ CCNX!Header(t, n) = <<0, t>> \o <<0, n>>
         /\ CCNX!Header(t, n) \in Buffer /\ Len(CCNX!Header(t, n)) = 4
<1>1. t % 256 = t /\ n % 256 = n /\ 0 \in Octet
  BY DEF Octet
<1>2. CCNX!Header(t, n) = <<0, t, 0, n>>
  BY <1>1 DEF CCNX!Header
<1>3. PICK x, y, z : x = <<0, t>> /\ y = <<0, n>> /\ z = <<0, t, 0, n>>
  OBVIOUS
<1>4. x \in Buffer /\ Len(x) = 2 /\ x[1] = 0 /\ x[2] = t
  BY <1>1, <1>3, TwoOctets
<1>5. y \in Buffer /\ Len(y) = 2 /\ y[1] = 0 /\ y[2] = n
  BY <1>1, <1>3, TwoOctets
<1>6. z \in Buffer /\ Len(z) = 4 /\ z[1] = 0 /\ z[2] = t /\ z[3] = 0 /\ z[4] = n
  BY <1>1, <1>3 DEF Buffer
<1>7. PICK w : w = x \o y
  OBVIOUS
<1>8. /\ w \in Buffer /\ Len(w) = Len(x) + Len(y)
      /\ \A k \in 1..Len(x) : w[k] = x[k]
      /\ \A k \in 1..Len(y) : w[Len(x) + k] = y[k]
  BY <1>4, <1>5, <1>7, BufferConcat
<1>9. /\ w \in Buffer /\ Len(w) = 4
      /\ \A k \in 1..2 : w[k] = x[k]
      /\ \A k \in 1..2 : w[2 + k] = y[k]
  BY <1>4, <1>5, <1>8
<1>10. w[1] = 0 /\ w[2] = t /\ w[3] = 0 /\ w[4] = n
  <2>1. w[2 + 1] = y[1] /\ w[2 + 2] = y[2]
    BY <1>9
  <2> QED  BY <1>4, <1>5, <1>9, <2>1
<1>11. \A k \in 1..Len(z) : z[k] = w[k]
  BY <1>6, <1>10
<1>12. z = w
  BY <1>6, <1>9, <1>11, BufferEqual
<1> QED  BY <1>2, <1>3, <1>6, <1>7, <1>12

LEMMA CcnxBlob ==
  ASSUME NEW t \in Octet, NEW v \in Buffer
  PROVE  CCNX!Blob(t, v) \in Buffer /\ Len(CCNX!Blob(t, v)) = Len(v) + 4
<1>1. PICK h : h = CCNX!Header(t, Len(v))
  OBVIOUS
<1>2. Len(v) \in Nat
  BY BufferLen
<1>3. PICK n : n = Len(v) % 256
  OBVIOUS
<1>4. n \in Octet /\ n % 256 = Len(v) % 256
  <2>1. PICK l : l = Len(v)
    OBVIOUS
  <2>2. \A i \in Nat : i % 256 \in 0..255 /\ (i % 256) % 256 = i % 256
    OBVIOUS
  <2>3. l \in Nat
    BY <1>2, <2>1
  <2>4. n \in 0..255 /\ n % 256 = l % 256
    BY <1>3, <2>1, <2>2, <2>3, ZenonT(60)
  <2> QED  BY <2>1, <2>4, Zenon DEF Octet
<1>5. CCNX!Header(t, n) = h
  BY <1>1, <1>4 DEF CCNX!Header
<1>6. h \in Buffer /\ Len(h) = 4
  BY <1>4, <1>5, CcnxHeader
<1>7. h \o v \in Buffer /\ Len(h \o v) = Len(h) + Len(v)
  BY <1>6, BufferConcat
<1>8. CCNX!Blob(t, v) = h \o v
  BY <1>1 DEF CCNX!Blob
<1> QED  BY <1>2, <1>6, <1>7, <1>8

(* An element as it is read *)
CcnxElement(t, v, r) == [type |-> t, head |-> CCNX!Header(t, Len(v)), val |-> v, rest |-> r]

LEMMA CcnxDehead ==
  ASSUME NEW t \in Octet, NEW v \in Buffer, Len(v) \in Octet, NEW r \in Buffer
  PROVE  CCNX!Dehead(CCNX!Blob(t, v) \o r) = {CcnxElement(t, v, r)}
<1>1. PICK n, h, x, y, w : n = Len(v) /\ h = CCNX!Header(t, n) /\ x = <<0, t>> /\ y = <<0, n>> /\ w = v \o r
  OBVIOUS
<1>2. n \in Octet /\ n \in Nat
  BY <1>1, OctetIsNat
<1>3. h = x \o y /\ h \in Buffer /\ Len(h) = 4
  BY <1>1, <1>2, CcnxHeader
<1>4. x \in Buffer /\ Len(x) = 2 /\ Number(x) = t
  BY <1>1, CcnxShort
<1>5. y \in Buffer /\ Len(y) = 2 /\ Number(y) = n
  BY <1>1, <1>2, CcnxShort
<1>6. w \in Buffer /\ Len(w) = n + Len(r)
  BY <1>1, BufferConcat
<1>7. PICK b : b = h \o w
  OBVIOUS
<1>8. CCNX!Blob(t, v) \o r = b
  <2>1. CCNX!Blob(t, v) = h \o v
    BY <1>1 DEF CCNX!Blob
  <2>2. (h \o v) \o r = h \o (v \o r)
    BY <1>3, BufferAssociative
  <2> QED  BY <1>1, <1>7, <2>1, <2>2, Zenon
<1>9. b \in Buffer /\ Len(b) = 4 + Len(w)
  BY <1>3, <1>6, <1>7, BufferConcat
<1>10. CCNX!Drop(b, 4) = w /\ CCNX!Take(b, 4) = h
  BY <1>3, <1>6, <1>7, TakeDrop, CcnxOctets
<1>11. CCNX!Take(b, 2) = x
  <2>1. b = x \o (y \o w)
    <3>1. (x \o y) \o w = x \o (y \o w)
      BY <1>4, <1>5, <1>6, BufferAssociative, ZenonT(60)
    <3> QED  BY <1>3, <1>7, <3>1, Zenon
  <2>2. y \o w \in Buffer
    BY <1>5, <1>6, BufferConcat
  <2> QED  BY <1>4, <2>1, <2>2, TakeDrop, CcnxOctets
<1>12. SubSeq(b, 3, 4) = y
  <2>1. SubSeq((x \o y) \o w, Len(x) + 1, Len(x) + Len(y)) = y
    BY <1>4, <1>5, <1>6, Middle
  <2>2. Len(x) + 1 = 3 /\ Len(x) + Len(y) = 4
    BY <1>4, <1>5
  <2> QED  BY <1>3, <1>7, <2>1, <2>2
<1>13. CCNX!Take(w, n) = v /\ CCNX!Drop(w, n) = r
  BY <1>1, TakeDrop, CcnxOctets
<1>14. n =< Len(w) /\ ~ (Len(b) < 4)
  <2>1. Len(r) \in Nat
    BY BufferLen
  <2> QED  BY <1>2, <1>6, <1>9, <2>1
<1> DEFINE rest == CCNX!Drop(b, 4)
           len == CCNX!Number(SubSeq(b, 3, 4))
           f == [type |-> CCNX!Number(CCNX!Take(b, 2)), head |-> CCNX!Take(b, 4), val |-> CCNX!Take(rest, len),
                 rest |-> CCNX!Drop(rest, len)]
<1>15. CCNX!Dehead(b) = IF Len(b) < 4 THEN {} ELSE IF len =< Len(rest) THEN {f} ELSE {}
  BY Zenon DEF CCNX!Dehead, CCNX!Only
<1>16. len = n /\ rest = w
  BY <1>5, <1>10, <1>12, CcnxOctets
<1>17. CCNX!Number(CCNX!Take(b, 2)) = t
  BY <1>4, <1>11, CcnxOctets
<1> HIDE DEF rest, len
<1>18. f = [type |-> t, head |-> h, val |-> v, rest |-> r]
  BY <1>10, <1>13, <1>16, <1>17
<1> HIDE DEF f
<1>19. CCNX!Dehead(b) = {f}
  BY <1>14, <1>15, <1>16
<1> QED  BY <1>1, <1>8, <1>18, <1>19 DEF CcnxElement

-----------------------------------------------------------------------------
(***************************************************************************)
(* The packets of Formats in the format NDN.                               *)
(***************************************************************************)
LEMMA NumberIsCount == \A v : IsNumber(v) => v \in Count
<1>1. ASSUME NEW v, IsNumber(v) PROVE v \in Count
  BY <1>1, SMT DEF IsNumber, MaxNumber, Count
<1> QED  BY <1>1

(* What is meant for one suite or kind is not meant for another. *)
LEMMA NdnParts ==
  ASSUME NEW p, Sound(p), p.suite = "ndntlv"
  PROVE  /\ p.kind \in {"interest", "content", "tool"} /\ NameSound(p) /\ NdnSound(p)
         /\ p.kind # "interest" => p.payload \in Buffer
BY DEF Sound, Buffer

LEMMA NdnNames ==
  ASSUME NEW p, NameSound(p), NdnSound(p)
  PROVE  NdnNamed(p.comps, p.chunk)
<1>1. p.comps \in Seq(Buffer) /\ (p.chunk = None \/ IsNumber(p.chunk))
  BY DEF NameSound, MayBe, Buffer
<1>2. Len(p.comps) + (IF p.chunk = None THEN 0 ELSE 1) =< MaxNameComp
  BY DEF NameSound
<1>3. DOMAIN p.comps = 1..Len(p.comps)
  BY <1>1
<1>4. NDN!SegmentMarker = 0
  BY DEF NDN!SegmentMarker
<1>5. \A k \in DOMAIN p.comps : p.comps[k] # <<>> /\ p.comps[k][1] # NDN!SegmentMarker
  BY DEF NdnSound
<1>6. NdnComps(p.comps)
  BY <1>1, <1>3, <1>4, <1>5, Zenon DEF NdnComps
<1> QED  BY <1>1, <1>2, <1>6, NumberIsCount, Zenon DEF NdnNamed

LEMMA NdnNameSame ==
  ASSUME NEW p, p.suite = "ndntlv"
  PROVE  /\ NdnName(p) = [comps |-> p.comps, chunk |-> p.chunk]
         /\ [NdnName(p) EXCEPT !.comps = @ \o ChunkComp(p)]
              = [comps |-> p.comps \o NdnChunkComp(p.chunk), chunk |-> p.chunk]
<1>1. ChunkComp(p) = NdnChunkComp(p.chunk)
  BY DEF ChunkComp, NdnChunkComp, Marked
<1>2. NdnName(p) = [comps |-> p.comps, chunk |-> p.chunk]
  BY DEF NdnName
<1>3. PICK n, c, k, y : n = NdnName(p) /\ c = p.comps /\ k = p.chunk /\ y = p.comps \o ChunkComp(p)
  OBVIOUS
<1>4. n = [comps |-> c, chunk |-> k]
  BY <1>2, <1>3
<1>5. n.comps = c /\ [n EXCEPT !.comps = y] = [comps |-> y, chunk |-> k]
  BY <1>4
<1>6. [n EXCEPT !.comps = @ \o ChunkComp(p)] = [n EXCEPT !.comps = y]
  BY <1>3, <1>5, Zenon
<1>7. [NdnName(p) EXCEPT !.comps = @ \o ChunkComp(p)] = [comps |-> y, chunk |-> k]
  BY <1>3, <1>5, <1>6, Zenon
<1> QED  BY <1>1, <1>2, <1>3, <1>7, Zenon

(* A packet as it was read is the one that was to be built. *)
LEMMA NdnInterestSame ==
  ASSUME NEW p, p.suite = "ndntlv", p.kind = "interest", NEW s
  PROVE  Same(p, NdnInterestAs(p.comps, p.chunk, p.opts, s))
<1>1. PICK q : q = NdnInterestAs(p.comps, p.chunk, p.opts, s)
  OBVIOUS
<1>2. /\ q.name = {[comps |-> p.comps \o NdnChunkComp(p.chunk), chunk |-> p.chunk]} /\ q.type = 5
      /\ q.nonce = p.opts.nonce /\ q.mbf = p.opts.mbf /\ q.lifetime = Lifetime(p.opts.lifetime)
  BY <1>1 DEF NdnInterestAs, NdnPkt
<1>3. q.name = {[NdnName(p) EXCEPT !.comps = @ \o ChunkComp(p)]}
  BY <1>2, NdnNameSame
<1>4. NDN!TLV.Interest = 5
  BY DEF NDN!TLV
<1>5. p.suite # "ccnb" /\ p.suite # "ccntlv" /\ p.kind # "fragment" /\ p.kind # "content" /\ p.kind # "tool"
  OBVIOUS
<1>6. q.lifetime = IF p.opts.lifetime = 0 THEN 1000 * InterestTimeout ELSE p.opts.lifetime
  BY <1>2 DEF Lifetime
<1>7. Same(p, q)
  BY <1>2, <1>3, <1>4, <1>5, <1>6, Zenon DEF Same
<1> QED  BY <1>1, <1>7

(* What the options of a Data packet are for the two ways to build it *)
OptionsOf(p, opts) ==
  /\ p.kind = "content" => opts.fresh = p.opts.fresh /\ opts.final = p.opts.final
  /\ p.kind = "tool" => opts.final = p.final

LEMMA NdnContentSame ==
  ASSUME NEW p, p.suite = "ndntlv", p.kind \in {"content", "tool"}, NEW opts, OptionsOf(p, opts)
  PROVE  Same(p, NdnContentAs(p.comps, p.chunk, p.payload, opts))
<1>1. PICK q : q = NdnContentAs(p.comps, p.chunk, p.payload, opts)
  OBVIOUS
<1>2. /\ q.name = {[comps |-> p.comps \o NdnChunkComp(p.chunk), chunk |-> p.chunk]} /\ q.type = 6
      /\ q.content = p.payload /\ q.fresh = opts.fresh /\ q.final = opts.final
  BY <1>1 DEF NdnContentAs, NdnPkt
<1>3. q.name = {[NdnName(p) EXCEPT !.comps = @ \o ChunkComp(p)]}
  BY <1>2, NdnNameSame
<1>4. NDN!TLV.Data = 6
  BY DEF NDN!TLV
<1>5. p.suite # "ccnb" /\ p.suite # "ccntlv" /\ p.kind # "fragment" /\ p.kind # "interest"
  OBVIOUS
<1>6. p.kind = "content" => q.fresh = p.opts.fresh /\ q.final = p.opts.final
  BY <1>2 DEF OptionsOf
<1>7. p.kind = "tool" => q.final = p.final
  BY <1>2 DEF OptionsOf
<1>8. Same(p, q)
  BY <1>2, <1>3, <1>4, <1>5, <1>6, <1>7, Zenon DEF Same
<1> QED  BY <1>1, <1>8

(***************************************************************************)
(* Whatever the builders and tools make of an NDN packet within the limits *)
(* (ccnl_ndntlv_prependInterest, ccnl_ndntlv_prependContent) is read by    *)
(* ccnl_ndntlv_bytes2pkt as that packet.                                   *)
(***************************************************************************)
THEOREM NdnAsBuilt ==
  ASSUME NEW p, Sound(p), p.suite = "ndntlv", NEW b \in Build(p)
  PROVE  /\ b \in Buffer /\ Len(b) >= 2 /\ b[1] \in {5, 6}
         /\ \E q : NDN!Forwarder(b) = {[pkts |-> <<q>>, rest |-> <<>>]} /\ Same(p, q)
<1>1. /\ p.kind \in {"interest", "content", "tool"} /\ NameSound(p) /\ NdnSound(p)
      /\ p.kind # "interest" => p.payload \in Buffer
  BY NdnParts
<1>2. NdnNamed(p.comps, p.chunk)
  BY <1>1, NdnNames
<1>3. p.suite # "ccnb" /\ p.suite # "ccntlv"
  OBVIOUS
<1>4. NdnName(p) = [comps |-> p.comps, chunk |-> p.chunk]
  BY NdnNameSame
<1>5. ASSUME NEW opts, ContentOptions(opts), OptionsOf(p, opts), p.kind \in {"content", "tool"},
             b \in NDN!MkContent(NdnName(p), p.payload, opts)
      PROVE  b \in Buffer /\ Len(b) >= 2 /\ b[1] = 6 /\ \E q : NdnAlone(b, q) /\ Same(p, q)
  <2>1. p.payload \in Buffer
    BY <1>1, <1>5
  <2>2. /\ b \in Buffer /\ Len(b) >= 2 /\ b[1] = 6
        /\ NdnAlone(b, NdnContentAs(p.comps, p.chunk, p.payload, opts))
    BY <1>2, <1>4, <1>5, <2>1, NdnContentRead
  <2>3. Same(p, NdnContentAs(p.comps, p.chunk, p.payload, opts))
    BY <1>5, NdnContentSame
  <2> QED  BY <2>2, <2>3, Zenon
<1>6. CASE p.kind = "interest"
  <2>1. b \in MkInterest(p)
    BY <1>6, Zenon DEF Build
  <2>2. b \in NDN!MkInterest(NdnName(p), p.opts)
    BY <1>3, <2>1, Zenon DEF MkInterest
  <2>3. InterestOptions(p.opts)
    BY <1>1, <1>6, NumberIsCount, Zenon DEF NdnSound, InterestOptions
  <2>4. b \in Buffer /\ Len(b) >= 2 /\ b[1] = 5 /\ \E s : NdnAlone(b, NdnInterestAs(p.comps, p.chunk, p.opts, s))
    BY <1>2, <1>4, <2>2, <2>3, NdnInterestRead
  <2>5. \E q : NdnAlone(b, q) /\ Same(p, q)
    BY <1>6, <2>4, NdnInterestSame, Zenon
  <2> QED  BY <2>4, <2>5 DEF NdnAlone
<1>7. CASE p.kind = "content"
  <2>1. b \in MkContent(p)
    BY <1>7, Zenon DEF Build
  <2>2. b \in NDN!MkContent(NdnName(p), p.payload, p.opts)
    BY <1>3, <2>1, Zenon DEF MkContent
  <2>3. ContentOptions(p.opts)
    BY <1>1, <1>7, NumberIsCount, Zenon DEF NdnSound, MayBe, ContentOptions
  <2>4. p.kind # "tool" /\ p.kind \in {"content", "tool"}
    BY <1>7
  <2>5. OptionsOf(p, p.opts)
    BY <2>4, Zenon DEF OptionsOf
  <2> QED  BY <1>5, <2>2, <2>3, <2>4, <2>5 DEF NdnAlone
<1>8. CASE p.kind = "tool"
  <2>1. b \in ToolContent(p)
    BY <1>8, Zenon DEF Build
  <2>2. PICK h, opts : h = (IF p.final = None THEN 0 ELSE p.stray) /\ opts = [fresh |-> h, final |-> p.final]
    OBVIOUS
  <2>3. b \in NDN!MkContent(NdnName(p), p.payload, opts)
    BY <1>3, <2>1, <2>2, ZenonT(60) DEF ToolContent
  <2>4. IsNumber(p.stray) /\ (p.final = None \/ IsNumber(p.final))
    BY <1>1, <1>8, Zenon DEF NdnSound, MayBe
  <2>5. 0 \in Count
    BY SmallCount
  <2>6. h \in Count /\ (p.final = None \/ p.final \in Count)
    BY <2>2, <2>4, <2>5, NumberIsCount, Zenon
  <2>7. opts.fresh = h /\ opts.final = p.final
    BY <2>2
  <2>8. ContentOptions(opts)
    BY <2>6, <2>7, Zenon DEF ContentOptions
  <2>9. p.kind # "content" /\ p.kind \in {"content", "tool"}
    BY <1>8
  <2>10. OptionsOf(p, opts)
    BY <2>7, <2>9, Zenon DEF OptionsOf
  <2> QED  BY <1>5, <2>3, <2>8, <2>9, <2>10 DEF NdnAlone
<1> QED  BY <1>1, <1>6, <1>7, <1>8

-----------------------------------------------------------------------------
(***************************************************************************)
(* CCNx: numbers and names.                                                *)
(***************************************************************************)
LEMMA CcnxVarUInt ==
  ASSUME NEW v \in Count
  PROVE  /\ CCNX!VarUInt(v) \in Buffer /\ Len(CCNX!VarUInt(v)) \in 1..4
         /\ CCNX!Number(CCNX!VarUInt(v)) = v
<1>0. v \in Nat /\ v =< 2147483647
  BY SMT DEF Count
<1>1. ASSUME NEW n, Holds(n, v), CCNX!VarUInt(v) = CCNX!BigEndian(n, v)
      PROVE  /\ CCNX!VarUInt(v) \in Buffer /\ Len(CCNX!VarUInt(v)) \in 1..4
             /\ CCNX!Number(CCNX!VarUInt(v)) = v
  <2>1. n \in 1..4 /\ v \in Nat
    BY <1>1 DEF Holds
  <2>2. BigEndian(n, v) \in Buffer /\ Len(BigEndian(n, v)) = n
    BY <2>1, BigEndianOctets
  <2>3. Number(BigEndian(n, v)) = v
    BY <1>1, BigEndianNumber
  <2> QED  BY <1>1, <2>1, <2>2, <2>3, CcnxOctets
<1>2. CASE v < 256
  <2>1. CCNX!VarUInt(v) = CCNX!BigEndian(1, v) /\ Holds(1, v)
    BY <1>0, <1>2, SMT DEF CCNX!VarUInt, Holds
  <2> QED  BY <1>1, <2>1, SMT
<1>3. CASE v >= 256 /\ v < 65536
  <2>1. CCNX!VarUInt(v) = CCNX!BigEndian(2, v) /\ Holds(2, v)
    BY <1>0, <1>3, SMT DEF CCNX!VarUInt, Holds
  <2> QED  BY <1>1, <2>1, SMT
<1>4. CASE v >= 65536 /\ v < 16777216
  <2>1. CCNX!VarUInt(v) = CCNX!BigEndian(3, v) /\ Holds(3, v)
    BY <1>0, <1>4, SMT DEF CCNX!VarUInt, Holds
  <2> QED  BY <1>1, <2>1, SMT
<1>5. CASE v >= 16777216
  <2>1. CCNX!VarUInt(v) = CCNX!BigEndian(4, v) /\ Holds(4, v)
    BY <1>0, <1>5, SMT DEF CCNX!VarUInt, Holds
  <2> QED  BY <1>1, <2>1, SMT
<1> QED  BY <1>0, <1>2, <1>3, <1>4, <1>5, SMTT(30)

LEMMA SmallOctet ==
  /\ \A i \in 0..255 : i \in Octet
  /\ \A i \in 1..4 : i \in Octet
  /\ \A i \in Nat : i < 256 => i \in Octet
  /\ \A j \in Octet, i \in Nat : i =< j => i \in Octet
<1>1. \A i \in 1..4 : i \in 0..255
  OBVIOUS
<1>2. \A i \in Nat : i < 256 => i \in 0..255
  OBVIOUS
<1>3. \A j \in 0..255, i \in Nat : i =< j => i \in 0..255
  OBVIOUS
<1> QED  BY <1>1, <1>2, <1>3, Zenon DEF Octet

LEMMA CcnxLonger ==
  ASSUME NEW t \in Octet, NEW v \in Buffer, NEW r \in Buffer
  PROVE  CCNX!Blob(t, v) \o r \in Buffer /\ Len(r) < Len(CCNX!Blob(t, v) \o r)
<1>1. PICK b : b = CCNX!Blob(t, v)
  OBVIOUS
<1>2. b \in Buffer /\ Len(b) = Len(v) + 4 /\ Len(b) \in Nat /\ Len(v) \in Nat /\ Len(r) \in Nat
  BY <1>1, CcnxBlob, BufferLen
<1>3. b \o r \in Buffer /\ Len(b \o r) = Len(b) + Len(r)
  BY <1>2, BufferConcat
<1>4. \A i, j, k \in Nat : i = j + 4 => k < i + k
  OBVIOUS
<1> QED  BY <1>1, <1>2, <1>3, <1>4, Zenon

(* An element, whatever reads it, and what is read after it *)
LEMMA CcnxField ==
  ASSUME NEW t \in Octet, NEW v \in Buffer, Len(v) \in Octet, NEW r \in Buffer,
         NEW p, NEW p1, NEW q, CCNX!ReadField(p, CcnxElement(t, v, r)) = {p1},
         Reads(CCNX!Dehead, CCNX!ReadField, r, p1, q)
  PROVE  Reads(CCNX!Dehead, CCNX!ReadField, CCNX!Blob(t, v) \o r, p, q)
<1>1. PICK f : f = CcnxElement(t, v, r)
  OBVIOUS
<1>2. PICK b : b = CCNX!Blob(t, v) \o r
  OBVIOUS
<1>3. b \in Buffer /\ Len(r) < Len(b)
  BY <1>2, CcnxLonger
<1>4. CCNX!Dehead(b) = {f}
  BY <1>1, <1>2, CcnxDehead
<1>5. CCNX!ReadField(p, f) = {p1}
  BY <1>1
<1>6. f.rest = r
  BY <1>1 DEF CcnxElement
<1> QED  BY <1>2, <1>3, <1>4, <1>5, <1>6, CcnxFieldFirst

LEMMA CcnxComponent ==
  ASSUME NEW t \in Octet, NEW v \in Buffer, Len(v) \in Octet, NEW r \in Buffer,
         NEW p, NEW p1, NEW q, CCNX!AddComponent(p, CcnxElement(t, v, r)) = {p1},
         Reads(CCNX!Dehead, CCNX!AddComponent, r, p1, q)
  PROVE  Reads(CCNX!Dehead, CCNX!AddComponent, CCNX!Blob(t, v) \o r, p, q)
<1>1. PICK f : f = CcnxElement(t, v, r)
  OBVIOUS
<1>2. PICK b : b = CCNX!Blob(t, v) \o r
  OBVIOUS
<1>3. b \in Buffer /\ Len(r) < Len(b)
  BY <1>2, CcnxLonger
<1>4. CCNX!Dehead(b) = {f}
  BY <1>1, <1>2, CcnxDehead
<1>5. CCNX!AddComponent(p, f) = {p1}
  BY <1>1
<1>6. f.rest = r
  BY <1>1 DEF CcnxElement
<1> QED  BY <1>2, <1>3, <1>4, <1>5, <1>6, CcnxComponentFirst

(* The segments of a CCNx name, headers and all *)
CcnxSegments(comps) == [k \in 1..Len(comps) |-> CCNX!Blob(1, comps[k])]
CcnxChunkComp(chunk) == IF chunk = None THEN <<>> ELSE <<CCNX!Blob(16, CCNX!VarUInt(chunk))>>
CcnxNameBody(comps, chunk) ==
  FlattenSeq(CcnxSegments(comps)) \o IF chunk = None THEN <<>> ELSE CCNX!Blob(16, CCNX!VarUInt(chunk))

LEMMA CcnxNextComponent ==
  ASSUME NEW ss \in Seq(Buffer), NEW k \in 1..Len(ss), k =< MaxNameComp,
         NEW v, NEW r, ss[k] = CCNX!Blob(1, v)
  PROVE  CCNX!AddComponent(NameUpTo(ss, k - 1), CcnxElement(1, v, r)) = {NameUpTo(ss, k)}
<1>1. Len(ss) \in Nat /\ MaxNameComp \in Nat
  BY FrameAssumption, LenProperties
<1>2. /\ Len(SubSeq(ss, 1, k - 1)) = k - 1
      /\ Append(SubSeq(ss, 1, k - 1), ss[k]) = SubSeq(ss, 1, k)
  BY <1>1, OneMore
<1>3. k - 1 < MaxNameComp
  BY <1>1
<1>4. PICK n : n = NameUpTo(ss, k - 1)
  OBVIOUS
<1>5. n.comps = SubSeq(ss, 1, k - 1) /\ n.chunk = None /\ n = [comps |-> SubSeq(ss, 1, k - 1), chunk |-> None]
  BY <1>4 DEF NameUpTo
<1>6. PICK f : f = CcnxElement(1, v, r)
  OBVIOUS
<1>7. f.type = 1 /\ f.head \o f.val = ss[k]
  BY <1>6 DEF CcnxElement, CCNX!Blob
<1>8. CCNX!Nam.NameSegment = 1 /\ CCNX!Nam.Chunk = 16
  BY CcnxTypes
<1>9. f.type = CCNX!Nam.NameSegment /\ f.type # CCNX!Nam.Chunk
  BY <1>7, <1>8
<1> DEFINE comps == IF Len(n.comps) < MaxNameComp THEN Append(n.comps, f.head \o f.val) ELSE n.comps
<1>10. CCNX!AddComponent(n, f) = {[n EXCEPT !.comps = comps]}
  BY <1>9, Zenon DEF CCNX!AddComponent
<1>11. comps = SubSeq(ss, 1, k)
  <2>1. Len(n.comps) < MaxNameComp
    BY <1>2, <1>3, <1>5
  <2> QED  BY <1>2, <1>5, <1>7, <2>1, Zenon
<1> HIDE DEF comps
<1>12. [n EXCEPT !.comps = comps] = [comps |-> comps, chunk |-> None]
  BY <1>5
<1>13. [comps |-> comps, chunk |-> None] = NameUpTo(ss, k)
  BY <1>11 DEF NameUpTo
<1> QED  BY <1>4, <1>6, <1>10, <1>12, <1>13, Zenon

LEMMA CcnxLastComponent ==
  ASSUME NEW ss \in Seq(Buffer), Len(ss) < MaxNameComp, NEW v \in Count
  PROVE  CCNX!AddComponent(NameUpTo(ss, Len(ss)), CcnxElement(16, CCNX!VarUInt(v), <<>>))
           = {[comps |-> ss \o <<CCNX!Blob(16, CCNX!VarUInt(v))>>, chunk |-> v]}
<1>1. PICK u : u = CCNX!VarUInt(v)
  OBVIOUS
<1>2. u \in Buffer /\ Len(u) \in 1..4 /\ CCNX!Number(u) = v
  BY <1>1, CcnxVarUInt
<1>3. PICK c : c = CCNX!Blob(16, u)
  OBVIOUS
<1>4. 16 \in Octet
  BY SmallOctet
<1>5. c \in Buffer
  BY <1>2, <1>3, <1>4, CcnxBlob
<1>6. NameUpTo(ss, Len(ss)) = [comps |-> ss, chunk |-> None]
  BY OneMore DEF NameUpTo
<1>7. PICK n : n = NameUpTo(ss, Len(ss))
  OBVIOUS
<1>8. n.comps = ss
  BY <1>6, <1>7
<1>9. PICK f : f = CcnxElement(16, u, <<>>)
  OBVIOUS
<1>10. f.type = 16 /\ f.val = u /\ f.head \o f.val = c
  BY <1>3, <1>9 DEF CcnxElement, CCNX!Blob
<1>11. CCNX!Nam.Chunk = 16 /\ CCNX!Nam.NameSegment = 1
  BY CcnxTypes
<1>12. f.type = CCNX!Nam.Chunk /\ f.type # CCNX!Nam.NameSegment
  BY <1>10, <1>11
<1> DEFINE comps == IF Len(n.comps) < MaxNameComp THEN Append(n.comps, f.head \o f.val) ELSE n.comps
<1>13. CCNX!AddComponent(n, f) = IF Len(f.val) =< 4 THEN {[comps |-> comps, chunk |-> CCNX!Number(f.val)]} ELSE {}
  BY <1>12, Zenon DEF CCNX!AddComponent, CCNX!Only
<1>14. comps = ss \o <<c>>
  <2>1. Append(ss, c) = ss \o <<c>>
    BY <1>5, AppendIsConcat
  <2>2. Len(n.comps) < MaxNameComp
    BY <1>8
  <2> QED  BY <1>8, <1>10, <2>1, <2>2, Zenon
<1> HIDE DEF comps
<1>15. Len(f.val) =< 4
  <2>1. \A i \in 1..4 : i =< 4
    OBVIOUS
  <2> QED  BY <1>2, <1>10, <2>1, Zenon
<1>16. CCNX!AddComponent(n, f) = {[comps |-> ss \o <<c>>, chunk |-> v]}
  BY <1>2, <1>10, <1>13, <1>14, <1>15, Zenon
<1> QED  BY <1>1, <1>3, <1>7, <1>9, <1>16, Zenon

(* A name is read as it was written, its chunk number as a last component as well. *)
LEMMA CcnxNameRead ==
  ASSUME NEW comps \in Seq(Buffer), NEW chunk, chunk = None \/ chunk \in Count,
         Len(comps) + (IF chunk = None THEN 0 ELSE 1) =< MaxNameComp
  PROVE  /\ CcnxNameBody(comps, chunk) \in Buffer
         /\ Len(CcnxNameBody(comps, chunk)) \in Octet =>
              CCNX!ReadName(CcnxNameBody(comps, chunk))
                = {[comps |-> CcnxSegments(comps) \o CcnxChunkComp(chunk), chunk |-> chunk]}
<1>2. PICK n \in Nat : n = Len(comps)
  BY LenProperties
<1>3. \A k \in 1..n : comps[k] \in Buffer
  BY <1>2, ElementOfSeq
<1>4. PICK ss : ss = [k \in 1..n |-> CCNX!Blob(1, comps[k])]
  OBVIOUS
<1>o. 1 \in Octet /\ 16 \in Octet
  BY SmallOctet
<1>5. \A k \in 1..n : ss[k] = CCNX!Blob(1, comps[k]) /\ ss[k] \in Buffer /\ Len(ss[k]) = Len(comps[k]) + 4
  BY <1>3, <1>4, <1>o, CcnxBlob
<1>6. ss \in Seq(Buffer) /\ Len(ss) = n
  BY <1>4, <1>5
<1>s. ss = CcnxSegments(comps)
  BY <1>2, <1>4 DEF CcnxSegments
<1>7. PICK F : Joined(ss, F)
  BY <1>6, Flattens
<1>8. PICK last : last = IF chunk = None THEN <<>> ELSE CCNX!Blob(16, CCNX!VarUInt(chunk))
  OBVIOUS
<1>9. last \in Buffer
  <2>1. CASE chunk = None
    BY <1>8, <2>1, BufferEmpty
  <2>2. CASE chunk # None
    <3>1. CCNX!VarUInt(chunk) \in Buffer
      BY <2>2, CcnxVarUInt
    <3> QED  BY <1>8, <1>o, <2>2, <3>1, CcnxBlob
  <2> QED  BY <2>1, <2>2
<1>10. /\ F[0] = <<>> /\ FlattenSeq(ss) = F[n]
       /\ \A k \in 1..n : F[k] = F[k - 1] \o ss[k]
       /\ \A k \in 0..n : F[k] \in Buffer
  BY <1>6, <1>7 DEF Joined
<1>11. CcnxNameBody(comps, chunk) = F[n] \o last
  BY <1>8, <1>10, <1>s, Zenon DEF CcnxNameBody
<1>12. F[n] \in Buffer /\ F[n] \o last \in Buffer /\ Len(F[n] \o last) = Len(F[n]) + Len(last)
  <2>1. F[n] \in Buffer
    BY <1>10
  <2> QED  BY <1>9, <2>1, BufferConcat
<1>14. ASSUME Len(F[n] \o last) \in Octet
       PROVE  CCNX!ReadName(F[n] \o last) = {[comps |-> ss \o CcnxChunkComp(chunk), chunk |-> chunk]}
  <2>1. PICK q : q = [comps |-> ss \o CcnxChunkComp(chunk), chunk |-> chunk]
    OBVIOUS
  <2> DEFINE R(b, p, t) == Reads(CCNX!Dehead, CCNX!AddComponent, b, p, t)
  <2>2. Len(F[n]) \in Octet
    <3>1. Len(F[n]) \in Nat /\ Len(last) \in Nat
      BY <1>9, <1>12, BufferLen
    <3>2. Len(F[n]) =< Len(F[n] \o last)
      BY <1>12, <3>1
    <3> QED  BY <1>14, <3>1, <3>2, SmallOctet
  <2>3. R(last, NameUpTo(ss, n), q)
    <3>1. CASE chunk = None
      <4>1. ss \o <<>> = ss
        BY <1>6, ConcatEmptySeq
      <4>2. SubSeq(ss, 1, n) = ss
        BY <1>6, OneMore
      <4>3. q = NameUpTo(ss, n)
        BY <2>1, <3>1, <4>1, <4>2 DEF CcnxChunkComp, NameUpTo
      <4>4. last = <<>>
        BY <1>8, <3>1
      <4> QED  BY <4>3, <4>4, CcnxNoComponent
    <3>2. CASE chunk # None
      <4>1. chunk \in Count
        BY <3>2
      <4>2. PICK m : m = CCNX!VarUInt(chunk)
        OBVIOUS
      <4>3. m \in Buffer /\ Len(m) \in Octet
        <5>1. m \in Buffer /\ Len(m) \in 1..4
          BY <4>1, <4>2, CcnxVarUInt
        <5> QED  BY <5>1, SmallOctet, Zenon
      <4>5. n < MaxNameComp
        <5>1. MaxNameComp \in Nat
          BY FrameAssumption
        <5> QED  BY <1>2, <3>2, <5>1
      <4>7. CCNX!AddComponent(NameUpTo(ss, n), CcnxElement(16, m, <<>>)) = {q}
        <5>1. q = [comps |-> ss \o <<CCNX!Blob(16, CCNX!VarUInt(chunk))>>, chunk |-> chunk]
          BY <2>1, <3>2, Zenon DEF CcnxChunkComp
        <5> QED  BY <1>6, <4>1, <4>2, <4>5, <5>1, CcnxLastComponent
      <4>8. Reads(CCNX!Dehead, CCNX!AddComponent, <<>>, q, q)
        BY CcnxNoComponent
      <4>9. R(CCNX!Blob(16, m) \o <<>>, NameUpTo(ss, n), q)
        BY <1>o, <4>3, <4>7, <4>8, BufferEmpty, CcnxComponent
      <4>10. last = CCNX!Blob(16, m)
        BY <1>8, <3>2, <4>2
      <4>11. last \o <<>> = last
        BY <1>9, BufferEmptyConcat
      <4> QED  BY <4>9, <4>10, <4>11
    <3> QED  BY <3>1, <3>2
  <2> DEFINE A == {k \in 0..n : \A r \in Buffer : R(r, NameUpTo(ss, k), q) => R(F[k] \o r, NameUpTo(ss, 0), q)}
  <2>4. 0 \in A
    <3>1. \A r \in Buffer : F[0] \o r = r
      BY <1>10, BufferEmptyConcat
    <3>2. 0 \in 0..n
      BY <1>2
    <3> HIDE DEF R
    <3> QED  BY <3>1, <3>2, Zenon
  <2>5. ASSUME NEW k \in 1..n, k - 1 \in A PROVE k \in A
    <3>1. k \in 0..n /\ k - 1 \in 0..n
      OBVIOUS
    <3> SUFFICES ASSUME NEW r \in Buffer, R(r, NameUpTo(ss, k), q) PROVE R(F[k] \o r, NameUpTo(ss, 0), q)
      BY <3>1
    <3>2. comps[k] \in Buffer /\ Len(comps[k]) \in Octet
      <4>1. Len(ss[k]) =< Len(FlattenSeq(ss))
        <5>1. k \in 0..Len(ss) /\ k > 0
          BY <1>6, <3>1
        <5> QED  BY <1>6, <1>7, <5>1, Parts
      <4>2. comps[k] \in Buffer /\ ss[k] \in Buffer /\ Len(ss[k]) = Len(comps[k]) + 4
        BY <1>3, <1>5
      <4>3. Len(comps[k]) \in Nat /\ Len(ss[k]) \in Nat /\ Len(F[n]) \in Nat
        BY <1>12, <4>2, BufferLen
      <4>4. Len(comps[k]) =< Len(F[n])
        BY <1>10, <4>1, <4>2, <4>3
      <4> QED  BY <2>2, <4>2, <4>3, <4>4, SmallOctet
    <3>3. k =< MaxNameComp
      <4>1. MaxNameComp \in Nat
        BY FrameAssumption
      <4> QED  BY <1>2, <4>1
    <3>4. ss[k] = CCNX!Blob(1, comps[k]) /\ k \in 1..Len(ss)
      BY <1>5, <1>6
    <3>6. CCNX!AddComponent(NameUpTo(ss, k - 1), CcnxElement(1, comps[k], r)) = {NameUpTo(ss, k)}
      BY <1>6, <3>3, <3>4, CcnxNextComponent
    <3>7. R(CCNX!Blob(1, comps[k]) \o r, NameUpTo(ss, k - 1), q)
      BY <1>o, <3>2, <3>6, CcnxComponent
    <3>8. ss[k] = CCNX!Blob(1, comps[k]) /\ ss[k] \in Buffer /\ F[k - 1] \in Buffer /\ F[k] = F[k - 1] \o ss[k]
      BY <1>5, <1>10, <3>1
    <3>9. ss[k] \o r \in Buffer
      BY <3>8, BufferConcat
    <3>10. F[k - 1] \o (ss[k] \o r) = F[k] \o r
      <4>1. (F[k - 1] \o ss[k]) \o r = F[k - 1] \o (ss[k] \o r)
        BY <3>8, BufferAssociative
      <4> QED  BY <3>8, <4>1, Zenon
    <3> HIDE DEF R
    <3>11. R(F[k - 1] \o (ss[k] \o r), NameUpTo(ss, 0), q)
      BY <2>5, <3>7, <3>8, <3>9
    <3> QED  BY <3>10, <3>11
  <2>6. n \in A
    <3> HIDE DEF R, A
    <3>1. \A k \in 0..n : k \in A
      BY <2>4, <2>5, UpTo
    <3> QED  BY <3>1
  <2>7. R(F[n] \o last, NameUpTo(ss, 0), q)
    <3> HIDE DEF R
    <3> QED  BY <1>9, <2>3, <2>6
  <2>8. CCNX!Scan(CCNX!Dehead, CCNX!AddComponent, F[n] \o last, NameUpTo(ss, 0)) = {q}
    BY <1>12, <2>7, CcnxComponentsRead
  <2>9. NameUpTo(ss, 0) = [comps |-> <<>>, chunk |-> CCNX!None]
    BY <1>6, OneMore, CcnxTypes DEF NameUpTo, None
  <2> QED  BY <2>1, <2>8, <2>9 DEF CCNX!ReadName
<1> QED  BY <1>11, <1>12, <1>14, <1>s

-----------------------------------------------------------------------------
(***************************************************************************)
(* CCNx: fields.  A packet as it is read:                                  *)
(***************************************************************************)
CcnxPkt(t, n, c, z) == [type |-> t, name |-> n, content |-> c, final |-> z]

LEMMA CcnxReadsName ==
  ASSUME NEW t, NEW n, NEW c, NEW z, NEW v, NEW r, NEW nm, One(CCNX!ReadName(v), nm)
  PROVE  CCNX!ReadField(CcnxPkt(t, n, c, z), CcnxElement(0, v, r)) = {CcnxPkt(t, nm, c, z)}
<1>1. PICK p : p = CcnxPkt(t, n, c, z)
  OBVIOUS
<1>2. PICK f : f = CcnxElement(0, v, r)
  OBVIOUS
<1>3. f.type = 0 /\ f.val = v
  BY <1>2 DEF CcnxElement
<1>4. f.type = CCNX!Msg.Name /\ f.type # CCNX!Msg.ENDChunk /\ f.type # CCNX!Msg.Payload
  BY <1>3, CcnxTypes
<1>5. CCNX!ReadField(p, f) = UNION {{[p EXCEPT !.name = a]} : a \in CCNX!ReadName(f.val)}
  BY <1>4, Zenon DEF CCNX!ReadField, CCNX!AndThen
<1>6. CCNX!ReadName(f.val) = {nm}
  BY <1>3 DEF One
<1>7. CCNX!ReadField(p, f) = {[p EXCEPT !.name = nm]}
  BY <1>5, <1>6
<1>8. [p EXCEPT !.name = nm] = CcnxPkt(t, nm, c, z)
  BY <1>1 DEF CcnxPkt
<1> QED  BY <1>1, <1>2, <1>7, <1>8, Zenon

LEMMA CcnxReadsEnd ==
  ASSUME NEW t, NEW n, NEW c, NEW z, NEW k \in Count, NEW r
  PROVE  CCNX!ReadField(CcnxPkt(t, n, c, z), CcnxElement(25, CCNX!VarUInt(k), r)) = {CcnxPkt(t, n, c, k)}
<1>1. PICK p : p = CcnxPkt(t, n, c, z)
  OBVIOUS
<1>2. PICK v : v = CCNX!VarUInt(k)
  OBVIOUS
<1>3. Len(v) \in 1..4 /\ CCNX!Number(v) = k
  BY <1>2, CcnxVarUInt
<1>4. PICK f : f = CcnxElement(25, v, r)
  OBVIOUS
<1>5. f.type = 25 /\ f.val = v
  BY <1>4 DEF CcnxElement
<1>6. f.type # CCNX!Msg.Name /\ f.type = CCNX!Msg.ENDChunk /\ f.type # CCNX!Msg.Payload
  BY <1>5, CcnxTypes
<1>7. CCNX!ReadField(p, f) = IF Len(f.val) =< 4 THEN {[p EXCEPT !.final = CCNX!Number(f.val)]} ELSE {}
  BY <1>6, Zenon DEF CCNX!ReadField, CCNX!Only
<1>8. Len(f.val) =< 4
  <2>1. \A i \in 1..4 : i =< 4
    OBVIOUS
  <2> QED  BY <1>3, <1>5, <2>1, Zenon
<1>9. CCNX!ReadField(p, f) = {[p EXCEPT !.final = k]}
  BY <1>3, <1>5, <1>7, <1>8, Zenon
<1>10. [p EXCEPT !.final = k] = CcnxPkt(t, n, c, k)
  BY <1>1 DEF CcnxPkt
<1> QED  BY <1>1, <1>2, <1>4, <1>9, <1>10, Zenon

LEMMA CcnxReadsPayload ==
  ASSUME NEW t, NEW n, NEW c, NEW z, NEW v, NEW r
  PROVE  CCNX!ReadField(CcnxPkt(t, n, c, z), CcnxElement(1, v, r)) = {CcnxPkt(t, n, v, z)}
<1>1. PICK p : p = CcnxPkt(t, n, c, z)
  OBVIOUS
<1>2. PICK f : f = CcnxElement(1, v, r)
  OBVIOUS
<1>3. f.type = 1 /\ f.val = v
  BY <1>2 DEF CcnxElement
<1>4. f.type # CCNX!Msg.Name /\ f.type # CCNX!Msg.ENDChunk /\ f.type = CCNX!Msg.Payload
  BY <1>3, CcnxTypes
<1>5. CCNX!ReadField(p, f) = {[p EXCEPT !.content = f.val]}
  BY <1>4, Zenon DEF CCNX!ReadField
<1>6. [p EXCEPT !.content = v] = CcnxPkt(t, n, v, z)
  BY <1>1 DEF CcnxPkt
<1> QED  BY <1>1, <1>2, <1>3, <1>5, <1>6, Zenon

(* ccnl_ccntlv_bytes2pkt takes the type of the one message for that of the packet. *)
CcnxBlank(t) == CcnxPkt(t, [comps |-> <<>>, chunk |-> None], <<>>, None)

LEMMA CcnxMessageRead ==
  ASSUME NEW t \in Octet, NEW body \in Buffer, Len(body) \in Octet, NEW q,
         Reads(CCNX!Dehead, CCNX!ReadField, body, CcnxBlank(t), q)
  PROVE  CCNX!Bytes2Pkt(CCNX!Blob(t, body)) = {q}
<1>1. PICK b : b = CCNX!Blob(t, body)
  OBVIOUS
<1>2. <<>> \in Buffer /\ b \in Buffer
  BY <1>1, BufferEmpty, CcnxBlob
<1>3. b \o <<>> = b /\ body \o <<>> = body
  BY <1>2, BufferEmptyConcat
<1>4. PICK m : m = CcnxElement(t, body, <<>>)
  OBVIOUS
<1>5. CCNX!Dehead(b) = {m}
  <2>1. CCNX!Dehead(CCNX!Blob(t, body) \o <<>>) = {CcnxElement(t, body, <<>>)}
    BY <1>2, CcnxDehead
  <2> QED  BY <1>1, <1>3, <1>4, <2>1, Zenon
<1>6. m.type = t /\ m.val = body /\ m.rest = <<>>
  BY <1>4 DEF CcnxElement
<1> DEFINE start(e) == [type |-> e.type, name |-> [comps |-> <<>>, chunk |-> CCNX!None], content |-> <<>>,
                        final |-> CCNX!None]
           scan(e) == CCNX!Scan(CCNX!Dehead, CCNX!ReadField, e.val \o e.rest, start(e))
<1>7. CCNX!Bytes2Pkt(b) = UNION {scan(e) : e \in CCNX!Dehead(b)}
  BY Zenon DEF CCNX!Bytes2Pkt, CCNX!AndThen
<1>8. start(m) = CcnxBlank(t)
  BY <1>6, CcnxTypes DEF CcnxBlank, CcnxPkt, None
<1>9. CCNX!Scan(CCNX!Dehead, CCNX!ReadField, body, CcnxBlank(t)) = {q}
  BY CcnxFieldsRead
<1> HIDE DEF start
<1>10. scan(m) = {q}
  BY <1>3, <1>6, <1>8, <1>9, Zenon
<1> HIDE DEF scan
<1> QED  BY <1>1, <1>5, <1>7, <1>10

(***************************************************************************)
(* A name within the limits, and how it is written (ccnl_ccntlv_prependName)*)
(* with the last chunk's number behind it.                                 *)
(***************************************************************************)
CcnxNamed(comps, chunk) ==
  /\ comps \in Seq(Buffer) /\ (chunk = None \/ chunk \in Count)
  /\ Len(comps) + (IF chunk = None THEN 0 ELSE 1) =< MaxNameComp
CcnxGiven(comps, chunk) == [comps |-> CcnxSegments(comps), chunk |-> chunk]
CcnxFound(comps, chunk) == [comps |-> CcnxSegments(comps) \o CcnxChunkComp(chunk), chunk |-> chunk]
EndPart(last) == IF last = None THEN <<>> ELSE CCNX!Blob(25, CCNX!VarUInt(last))

LEMMA CcnxNamePart ==
  ASSUME NEW comps, NEW chunk, CcnxNamed(comps, chunk), NEW last, last = None \/ last \in Count
  PROVE  \E nb \in Buffer :
           /\ CCNX!MkName(CcnxGiven(comps, chunk), last) = CCNX!Blob(0, nb) \o EndPart(last)
           /\ Len(nb) \in Octet => One(CCNX!ReadName(nb), CcnxFound(comps, chunk))
<1>1. PICK nb : nb = CcnxNameBody(comps, chunk)
  OBVIOUS
<1>2. nb \in Buffer /\ (Len(nb) \in Octet => CCNX!ReadName(nb) = {CcnxFound(comps, chunk)})
  <2>1. comps \in Seq(Buffer) /\ (chunk = None \/ chunk \in Count)
    BY DEF CcnxNamed
  <2>2. Len(comps) + (IF chunk = None THEN 0 ELSE 1) =< MaxNameComp
    BY DEF CcnxNamed
  <2> QED  BY <1>1, <2>1, <2>2, CcnxNameRead DEF CcnxFound
<1>3. PICK ss : ss = CcnxSegments(comps)
  OBVIOUS
<1>4. PICK name : name = [comps |-> ss, chunk |-> chunk]
  OBVIOUS
<1>5. name.comps = ss /\ name.chunk = chunk
  BY <1>4
<1>6. CCNX!MkName(name, last) =
        CCNX!Blob(0, CCNX!FlattenSeq(name.comps) \o IF name.chunk = -1 THEN <<>> ELSE CCNX!Chunk(name.chunk))
        \o IF last = -1 THEN <<>> ELSE CCNX!Blob(25, CCNX!VarUInt(last))
  BY CcnxTypes DEF CCNX!MkName
<1>7. \A k : CCNX!Chunk(k) = CCNX!Blob(16, CCNX!VarUInt(k))
  BY CcnxTypes DEF CCNX!Chunk
<1>8. CCNX!FlattenSeq(name.comps) \o (IF name.chunk = -1 THEN <<>> ELSE CCNX!Chunk(name.chunk)) = nb
  BY <1>1, <1>3, <1>5, <1>7, CcnxFlatten, Zenon DEF CcnxNameBody, None
<1>9. CCNX!MkName(name, last) = CCNX!Blob(0, nb) \o EndPart(last)
  BY <1>6, <1>8, Zenon DEF EndPart, None
<1> QED  BY <1>2, <1>3, <1>4, <1>9, Zenon DEF CcnxGiven, One

LEMMA CcnxEndPart ==
  ASSUME NEW last, last = None \/ last \in Count
  PROVE  EndPart(last) \in Buffer
<1>1. CASE last = None
  BY <1>1, BufferEmpty DEF EndPart
<1>2. CASE last # None
  <2>1. CCNX!VarUInt(last) \in Buffer /\ 25 \in Octet
    BY <1>2, CcnxVarUInt, SmallOctet
  <2> QED  BY <1>2, <2>1, CcnxBlob DEF EndPart
<1> QED  BY <1>1, <1>2

(* The last chunk's number is there or not. *)
LEMMA CcnxThenEnd ==
  ASSUME NEW t, NEW n, NEW c, NEW last, last = None \/ last \in Count, NEW r \in Buffer, NEW q,
         Reads(CCNX!Dehead, CCNX!ReadField, r, CcnxPkt(t, n, c, last), q)
  PROVE  Reads(CCNX!Dehead, CCNX!ReadField, EndPart(last) \o r, CcnxPkt(t, n, c, None), q)
<1>1. CASE last = None
  <2>1. EndPart(last) \o r = r
    BY <1>1, BufferEmptyConcat DEF EndPart
  <2> QED  BY <1>1, <2>1, Zenon
<1>2. CASE last # None
  <2>1. PICK v : v = CCNX!VarUInt(last)
    OBVIOUS
  <2>2. v \in Buffer /\ Len(v) \in Octet /\ 25 \in Octet
    <3>1. v \in Buffer /\ Len(v) \in 1..4
      BY <1>2, <2>1, CcnxVarUInt
    <3>2. \A i \in 1..4 : i \in Octet
      BY DEF Octet
    <3>3. 25 \in Octet
      BY DEF Octet
    <3> QED  BY <3>1, <3>2, <3>3, Zenon
  <2>3. CCNX!ReadField(CcnxPkt(t, n, c, None), CcnxElement(25, v, r)) = {CcnxPkt(t, n, c, last)}
    BY <1>2, <2>1, CcnxReadsEnd
  <2>4. Reads(CCNX!Dehead, CCNX!ReadField, CCNX!Blob(25, v) \o r, CcnxPkt(t, n, c, None), q)
    BY <2>2, <2>3, CcnxField
  <2> QED  BY <1>2, <2>1, <2>4, Zenon DEF EndPart
<1> QED  BY <1>1, <1>2

LEMMA CcnxNameFirst ==
  ASSUME NEW t, NEW comps, NEW chunk, CcnxNamed(comps, chunk), NEW last, last = None \/ last \in Count
  PROVE  /\ CCNX!MkName(CcnxGiven(comps, chunk), last) \in Buffer
         /\ Len(CCNX!MkName(CcnxGiven(comps, chunk), last)) \in Octet =>
              \A q : \A r \in Buffer :
                Reads(CCNX!Dehead, CCNX!ReadField, r, CcnxPkt(t, CcnxFound(comps, chunk), <<>>, last), q) =>
                  Reads(CCNX!Dehead, CCNX!ReadField, CCNX!MkName(CcnxGiven(comps, chunk), last) \o r,
                        CcnxBlank(t), q)
<1>1. PICK m : m = CCNX!MkName(CcnxGiven(comps, chunk), last)
  OBVIOUS
<1>2. PICK nm : nm = CcnxFound(comps, chunk)
  OBVIOUS
<1>3. PICK nb \in Buffer : /\ m = CCNX!Blob(0, nb) \o EndPart(last)
                           /\ Len(nb) \in Octet => One(CCNX!ReadName(nb), nm)
  BY <1>1, <1>2, CcnxNamePart
<1>4. PICK a, e : a = CCNX!Blob(0, nb) /\ e = EndPart(last)
  OBVIOUS
<1>s. 0 \in Octet
  BY DEF Octet
<1>5. a \in Buffer /\ Len(a) = Len(nb) + 4 /\ 0 \in Octet
  BY <1>4, <1>s, CcnxBlob
<1>6. e \in Buffer
  BY <1>4, CcnxEndPart
<1>7. m \in Buffer /\ Len(m) = Len(a) + Len(e)
  BY <1>3, <1>4, <1>5, <1>6, BufferConcat
<1>8. ASSUME Len(m) \in Octet, NEW r \in Buffer, NEW q,
             Reads(CCNX!Dehead, CCNX!ReadField, r, CcnxPkt(t, nm, <<>>, last), q)
      PROVE  Reads(CCNX!Dehead, CCNX!ReadField, m \o r, CcnxBlank(t), q)
  <2>1. Len(nb) \in Octet
    <3>1. Len(nb) \in Nat /\ Len(e) \in Nat
      BY <1>6, BufferLen
    <3>2. \A i, j \in Nat : i =< i + 4 + j
      OBVIOUS
    <3>3. Len(m) = Len(nb) + 4 + Len(e)
      BY <1>5, <1>7
    <3>4. Len(nb) =< Len(m)
      BY <3>1, <3>2, <3>3, Zenon
    <3> QED  BY <1>8, <3>1, <3>4, SmallOctet
  <2>2. One(CCNX!ReadName(nb), nm)
    BY <1>3, <2>1
  <2>3. Reads(CCNX!Dehead, CCNX!ReadField, e \o r, CcnxPkt(t, nm, <<>>, None), q)
    BY <1>4, <1>8, CcnxThenEnd
  <2>4. e \o r \in Buffer
    BY <1>6, BufferConcat
  <2>5. PICK n : n = [comps |-> <<>>, chunk |-> None]
    OBVIOUS
  <2>6. CCNX!ReadField(CcnxPkt(t, n, <<>>, None), CcnxElement(0, nb, e \o r)) = {CcnxPkt(t, nm, <<>>, None)}
    BY <2>2, CcnxReadsName
  <2>7. PICK w : w = e \o r
    OBVIOUS
  <2>8. Reads(CCNX!Dehead, CCNX!ReadField, CCNX!Blob(0, nb) \o w, CcnxPkt(t, n, <<>>, None), q)
    BY <1>5, <2>1, <2>3, <2>4, <2>6, <2>7, CcnxField
  <2>9. (a \o e) \o r = a \o (e \o r)
    BY <1>5, <1>6, BufferAssociative, SMTT(30)
  <2>10. m \o r = CCNX!Blob(0, nb) \o w
    BY <1>3, <1>4, <2>7, <2>9, Zenon
  <2>11. CcnxBlank(t) = CcnxPkt(t, n, <<>>, None)
    BY <2>5, Zenon DEF CcnxBlank
  <2> QED  BY <2>8, <2>10, <2>11, Zenon
<1> QED  BY <1>1, <1>2, <1>7, <1>8, Zenon

(* A message is read with its name and its content as they were written. *)
LEMMA CcnxInterestRead ==
  ASSUME NEW t \in Octet, NEW comps, NEW chunk, CcnxNamed(comps, chunk),
         Len(CCNX!MkName(CcnxGiven(comps, chunk), None)) \in Octet
  PROVE  /\ CCNX!MkName(CcnxGiven(comps, chunk), None) \in Buffer
         /\ CCNX!Bytes2Pkt(CCNX!Blob(t, CCNX!MkName(CcnxGiven(comps, chunk), None)))
              = {CcnxPkt(t, CcnxFound(comps, chunk), <<>>, None)}
<1>1. PICK m : m = CCNX!MkName(CcnxGiven(comps, chunk), None)
  OBVIOUS
<1>2. PICK q : q = CcnxPkt(t, CcnxFound(comps, chunk), <<>>, None)
  OBVIOUS
<1>3. Len(m) \in Octet
  BY <1>1
<1>4. m \in Buffer
  BY <1>1, CcnxNameFirst
<1>5. Reads(CCNX!Dehead, CCNX!ReadField, <<>>, q, q) /\ <<>> \in Buffer
  BY CcnxNoField, BufferEmpty
<1>6. Reads(CCNX!Dehead, CCNX!ReadField, m \o <<>>, CcnxBlank(t), q)
  BY <1>1, <1>2, <1>3, <1>5, CcnxNameFirst
<1>7. m \o <<>> = m
  BY <1>4, BufferEmptyConcat
<1>8. Reads(CCNX!Dehead, CCNX!ReadField, m, CcnxBlank(t), q)
  BY <1>6, <1>7, Zenon
<1>9. CCNX!Bytes2Pkt(CCNX!Blob(t, m)) = {q}
  BY <1>3, <1>4, <1>8, CcnxMessageRead
<1> QED  BY <1>1, <1>2, <1>4, <1>9, Zenon

LEMMA CcnxContentRead ==
  ASSUME NEW t \in Octet, NEW comps, NEW chunk, CcnxNamed(comps, chunk), NEW last, last = None \/ last \in Count,
         NEW payload \in Buffer, Len(CCNX!MkName(CcnxGiven(comps, chunk), last)) + 4 + Len(payload) < 256
  PROVE  LET body == CCNX!MkName(CcnxGiven(comps, chunk), last) \o CCNX!Blob(1, payload)
         IN  /\ body \in Buffer /\ Len(body) \in Octet
             /\ CCNX!Bytes2Pkt(CCNX!Blob(t, body)) = {CcnxPkt(t, CcnxFound(comps, chunk), payload, last)}
<1>1. PICK m : m = CCNX!MkName(CcnxGiven(comps, chunk), last)
  OBVIOUS
<1>2. PICK a : a = CCNX!Blob(1, payload)
  OBVIOUS
<1>3. PICK nm : nm = CcnxFound(comps, chunk)
  OBVIOUS
<1>4. m \in Buffer
  BY <1>1, CcnxNameFirst
<1>s. 1 \in Octet
  BY DEF Octet
<1>5. a \in Buffer /\ Len(a) = Len(payload) + 4 /\ 1 \in Octet
  BY <1>2, <1>s, CcnxBlob
<1>6. m \o a \in Buffer /\ Len(m \o a) = Len(m) + Len(a)
  BY <1>4, <1>5, BufferConcat
<1>7. Len(m) \in Octet /\ Len(payload) \in Octet /\ Len(m \o a) \in Octet
  <2>1. PICK i \in Nat, j \in Nat : i = Len(m) /\ j = Len(payload)
    BY <1>4, BufferLen
  <2>2. i + 4 + j < 256
    BY <1>1, <2>1
  <2>3. i < 256 /\ j < 256 /\ i + (j + 4) < 256 /\ i + (j + 4) \in Nat
    BY <2>2
  <2>4. i \in Octet /\ j \in Octet /\ i + (j + 4) \in Octet
    BY <2>3, SmallOctet
  <2>5. Len(m \o a) = i + (j + 4)
    BY <1>5, <1>6, <2>1
  <2> QED  BY <2>1, <2>4, <2>5, Zenon
<1>8. PICK q : q = CcnxPkt(t, nm, payload, last)
  OBVIOUS
<1>9. Reads(CCNX!Dehead, CCNX!ReadField, <<>>, q, q) /\ <<>> \in Buffer
  BY CcnxNoField, BufferEmpty
<1>10. CCNX!ReadField(CcnxPkt(t, nm, <<>>, last), CcnxElement(1, payload, <<>>)) = {q}
  BY <1>8, CcnxReadsPayload
<1>11. Reads(CCNX!Dehead, CCNX!ReadField, CCNX!Blob(1, payload) \o <<>>, CcnxPkt(t, nm, <<>>, last), q)
  BY <1>5, <1>7, <1>9, <1>10, CcnxField
<1>12. a \o <<>> = a
  BY <1>5, BufferEmptyConcat
<1>13. Reads(CCNX!Dehead, CCNX!ReadField, a, CcnxPkt(t, nm, <<>>, last), q)
  BY <1>2, <1>11, <1>12, Zenon
<1>14. Reads(CCNX!Dehead, CCNX!ReadField, m \o a, CcnxBlank(t), q)
  BY <1>1, <1>3, <1>5, <1>7, <1>13, CcnxNameFirst
<1>15. CCNX!Bytes2Pkt(CCNX!Blob(t, m \o a)) = {q}
  BY <1>6, <1>7, <1>14, CcnxMessageRead
<1> QED  BY <1>1, <1>2, <1>3, <1>6, <1>7, <1>8, <1>15, Zenon

-----------------------------------------------------------------------------
(***************************************************************************)
(* CCNx: the fixed header.  A header h of nine octets says its type, the   *)
(* size of the packet in s, the hops, and two octets u of its own.         *)
(***************************************************************************)
LEMMA PairWithin ==
  ASSUME NEW b \in Buffer, NEW k \in Nat, k > 0, k + 1 =< Len(b), NEW s \in Buffer, Len(s) = 2,
         b[k] = s[1], b[k + 1] = s[2]
  PROVE  SubSeq(b, k, k + 1) = s
<1>1. \A i \in k..k + 1 : b[i] \in Octet
  <2>1. \A i \in k..k + 1 : i \in 1..Len(b)
    BY BufferLen
  <2> QED  BY <2>1, BufferElement
<1>2. PICK c : c = SubSeq(b, k, k + 1)
  OBVIOUS
<1>3. /\ c \in Seq(Octet)
      /\ Len(c) = IF k <= k + 1 THEN k + 1 - k + 1 ELSE 0
      /\ \A i \in 1..k + 1 - k + 1 : c[i] = b[k + i - 1]
  BY <1>1, <1>2, SubSeqProperties
<1>4. c \in Buffer /\ Len(c) = 2 /\ \A i \in 1..2 : c[i] = b[k + i - 1]
  BY <1>3 DEF Buffer
<1>5. c[1] = b[k] /\ c[2] = b[k + 1]
  <2>1. k + 1 - 1 = k /\ k + 2 - 1 = k + 1
    OBVIOUS
  <2>2. c[1] = b[k + 1 - 1] /\ c[2] = b[k + 2 - 1]
    BY <1>4
  <2> QED  BY <2>1, <2>2
<1>6. \A i \in 1..Len(c) : c[i] = s[i]
  BY <1>4, <1>5
<1>7. c = s
  BY <1>4, <1>6, BufferEqual
<1> QED  BY <1>2, <1>7

FixedHeader(h, type, s, hops, u) ==
  /\ h \in Buffer /\ Len(h) = 9 /\ s \in Buffer /\ Len(s) = 2 /\ u \in Buffer /\ Len(u) = 2
  /\ h[1] = 1 /\ h[2] = type /\ h[3] = s[1] /\ h[4] = s[2] /\ h[5] = hops
  /\ h[6] = u[1] /\ h[7] = u[2] /\ h[8] = 9 /\ h[9] = 0

FixedRead(b, type, s, hops, u, m) ==
  /\ b \in Buffer /\ Len(b) = 9 + Len(m) /\ b[1] = 1 /\ b[2] = type /\ b[5] = hops
  /\ CCNX!PktLen(b) = Number(s) /\ CCNX!GivenHdrLen(b) = 9
  /\ SubSeq(b, 6, 7) = u /\ CCNX!Drop(b, 9) = m

LEMMA CcnxFixedRead ==
  ASSUME NEW h, NEW type, NEW s, NEW hops, NEW u, FixedHeader(h, type, s, hops, u), NEW m \in Buffer
  PROVE  FixedRead(h \o m, type, s, hops, u, m)
<1>0. PICK b : b = h \o m
  OBVIOUS
<1>1. h \in Buffer /\ Len(h) = 9 /\ s \in Buffer /\ Len(s) = 2 /\ u \in Buffer /\ Len(u) = 2
  BY DEF FixedHeader
<1>2. b \in Buffer /\ Len(b) = Len(h) + Len(m) /\ \A k \in 1..Len(h) : b[k] = h[k]
  <2>1. h \in Buffer
    BY <1>1
  <2>2. h \o m \in Buffer /\ Len(h \o m) = Len(h) + Len(m) /\ \A k \in 1..Len(h) : (h \o m)[k] = h[k]
    BY <2>1, BufferConcat
  <2> QED  BY <1>0, <2>2, Zenon
<1>3. Len(b) = 9 + Len(m) /\ \A k \in 1..9 : b[k] = h[k]
  BY <1>1, <1>2
<1>4. /\ b[1] = 1 /\ b[2] = type /\ b[3] = s[1] /\ b[4] = s[2] /\ b[5] = hops
      /\ b[6] = u[1] /\ b[7] = u[2] /\ b[8] = 9 /\ b[9] = 0
  BY <1>3 DEF FixedHeader
<1>5. 9 =< Len(b)
  BY <1>3, BufferLen
<1>6. SubSeq(b, 3, 3 + 1) = s /\ SubSeq(b, 6, 6 + 1) = u
  <2> HIDE DEF FixedHeader
  <2>1. b \in Buffer /\ s \in Buffer /\ Len(s) = 2 /\ b[3] = s[1] /\ b[3 + 1] = s[2] /\ 3 + 1 =< Len(b) /\ 3 \in Nat /\ 3 > 0
    BY <1>1, <1>2, <1>4, <1>5, BufferLen
  <2>2. SubSeq(b, 3, 3 + 1) = s
    BY <2>1, PairWithin, Zenon
  <2>3. b \in Buffer /\ u \in Buffer /\ Len(u) = 2 /\ b[6] = u[1] /\ b[6 + 1] = u[2] /\ 6 + 1 =< Len(b) /\ 6 \in Nat /\ 6 > 0
    BY <1>1, <1>2, <1>4, <1>5, BufferLen
  <2>4. SubSeq(b, 6, 6 + 1) = u
    BY <2>3, PairWithin, Zenon
  <2> QED  BY <2>2, <2>4
<1>7. CCNX!Drop(b, 9) = m
  <2>1. CCNX!Drop(h \o m, 9) = m
    BY <1>1, TakeDrop, CcnxOctets
  <2> QED  BY <1>0, <2>1, Zenon
<1>8. CCNX!GivenHdrLen(b) = 9
  BY <1>4 DEF CCNX!GivenHdrLen
<1>9. CCNX!PktLen(b) = Number(s)
  <2>1. SubSeq(b, 3, 4) = s
    BY <1>6
  <2> QED  BY <2>1, CcnxOctets, Zenon DEF CCNX!PktLen
<1>10. SubSeq(b, 6, 7) = u
  BY <1>6
<1>11. FixedRead(b, type, s, hops, u, m)
  BY <1>2, <1>3, <1>4, <1>7, <1>8, <1>9, <1>10, Zenon DEF FixedRead
<1> QED  BY <1>0, <1>11, Zenon

LEMMA CcnxFixedHdr ==
  ASSUME NEW type \in Octet, NEW hops \in Octet, NEW n \in Nat
  PROVE  FixedHeader(CCNX!FixedHdr(type, n, hops), type, BigEndian(2, 9 + n), hops, <<0, 0>>)
<1>1. PICK x, s, z, w, u : /\ x = <<1, type>> /\ s = BigEndian(2, 9 + n) /\ z = <<hops, 0, 0, 9, 0>>
                           /\ w = x \o s /\ u = <<0, 0>>
  OBVIOUS
<1>2. 0 \in Octet /\ 1 \in Octet /\ 9 \in Octet
  BY DEF Octet
<1>3. x \in Buffer /\ Len(x) = 2 /\ x[1] = 1 /\ x[2] = type
  BY <1>1, <1>2, TwoOctets
<1>4. u \in Buffer /\ Len(u) = 2 /\ u[1] = 0 /\ u[2] = 0
  BY <1>1, <1>2, TwoOctets
<1>5. s \in Buffer /\ Len(s) = 2
  BY <1>1, BigEndianOctets
<1>6. z \in Buffer /\ Len(z) = 5 /\ z[1] = hops /\ z[2] = 0 /\ z[3] = 0 /\ z[4] = 9 /\ z[5] = 0
  BY <1>1, <1>2 DEF Buffer
<1>7. PICK h : h = w \o z
  OBVIOUS
<1>8. CCNX!FixedHdr(type, n, hops) = h
  BY <1>1, <1>7, CcnxTypes, CcnxOctets DEF CCNX!FixedHdr
<1>9. w \in Buffer /\ Len(w) = Len(x) + Len(s) /\ (\A k \in 1..Len(x) : w[k] = x[k]) /\ \A k \in 1..Len(s) : w[Len(x) + k] = s[k]
  <2>1. w = x \o s
    BY <1>1
  <2> QED  BY <1>3, <1>5, <2>1, BufferConcat
<1>10. w \in Buffer /\ Len(w) = 4 /\ w[1] = 1 /\ w[2] = type /\ w[2 + 1] = s[1] /\ w[2 + 2] = s[2]
  BY <1>3, <1>5, <1>9
<1>11. h \in Buffer /\ Len(h) = Len(w) + Len(z) /\ (\A k \in 1..Len(w) : h[k] = w[k]) /\ \A k \in 1..Len(z) : h[Len(w) + k] = z[k]
  BY <1>6, <1>7, <1>10, BufferConcat
<1>12. /\ h \in Buffer /\ Len(h) = 9
       /\ h[1] = w[1] /\ h[2] = w[2] /\ h[3] = w[3] /\ h[4] = w[4]
       /\ h[4 + 1] = z[1] /\ h[4 + 2] = z[2] /\ h[4 + 3] = z[3] /\ h[4 + 4] = z[4] /\ h[4 + 5] = z[5]
  BY <1>6, <1>10, <1>11
<1>13. FixedHeader(h, type, s, hops, u)
  BY <1>4, <1>5, <1>6, <1>10, <1>12 DEF FixedHeader
<1> QED  BY <1>1, <1>8, <1>13, Zenon

LEMMA CcnxFragHdr ==
  ASSUME NEW s \in Buffer, Len(s) = 2, NEW u \in Buffer, Len(u) = 2
  PROVE  FixedHeader(<<1, 3>> \o s \o <<0>> \o u \o <<9, 0>>, 3, s, 0, u)
<1>1. PICK x, o, z, w, v, y, h : /\ x = <<1, 3>> /\ o = <<0>> /\ z = <<9, 0>>
                                 /\ w = x \o s /\ v = w \o o /\ y = v \o u /\ h = y \o z
  OBVIOUS
<1>2. 0 \in Octet /\ 1 \in Octet /\ 9 \in Octet /\ 3 \in Octet
  BY DEF Octet
<1>3. x \in Buffer /\ Len(x) = 2 /\ x[1] = 1 /\ x[2] = 3
  BY <1>1, <1>2, TwoOctets
<1>4. z \in Buffer /\ Len(z) = 2 /\ z[1] = 9 /\ z[2] = 0
  BY <1>1, <1>2, TwoOctets
<1>5. o \in Buffer /\ Len(o) = 1 /\ o[1] = 0
  BY <1>1, <1>2 DEF Buffer
<1>6. w \in Buffer /\ Len(w) = Len(x) + Len(s) /\ (\A k \in 1..Len(x) : w[k] = x[k]) /\ \A k \in 1..Len(s) : w[Len(x) + k] = s[k]
  BY <1>1, <1>3, BufferConcat, ZenonT(60)
<1>7. w \in Buffer /\ Len(w) = 4 /\ w[1] = 1 /\ w[2] = 3 /\ w[2 + 1] = s[1] /\ w[2 + 2] = s[2]
  BY <1>3, <1>6
<1>8. v \in Buffer /\ Len(v) = Len(w) + Len(o) /\ (\A k \in 1..Len(w) : v[k] = w[k]) /\ \A k \in 1..Len(o) : v[Len(w) + k] = o[k]
  BY <1>1, <1>5, <1>7, BufferConcat
<1>9. v \in Buffer /\ Len(v) = 5 /\ v[1] = 1 /\ v[2] = 3 /\ v[3] = s[1] /\ v[4] = s[2] /\ v[4 + 1] = 0
  BY <1>5, <1>7, <1>8
<1>10. y \in Buffer /\ Len(y) = Len(v) + Len(u) /\ (\A k \in 1..Len(v) : y[k] = v[k]) /\ \A k \in 1..Len(u) : y[Len(v) + k] = u[k]
  BY <1>1, <1>9, BufferConcat
<1>11. /\ y \in Buffer /\ Len(y) = 7 /\ y[1] = 1 /\ y[2] = 3 /\ y[3] = s[1] /\ y[4] = s[2] /\ y[5] = 0
       /\ y[5 + 1] = u[1] /\ y[5 + 2] = u[2]
  BY <1>9, <1>10
<1>12. h \in Buffer /\ Len(h) = Len(y) + Len(z) /\ (\A k \in 1..Len(y) : h[k] = y[k]) /\ \A k \in 1..Len(z) : h[Len(y) + k] = z[k]
  BY <1>1, <1>4, <1>11, BufferConcat, SMTT(30)
<1>13. /\ h \in Buffer /\ Len(h) = 9 /\ h[1] = 1 /\ h[2] = 3 /\ h[3] = s[1] /\ h[4] = s[2] /\ h[5] = 0
       /\ h[6] = u[1] /\ h[7] = u[2] /\ h[7 + 1] = 9 /\ h[7 + 2] = 0
  BY <1>4, <1>11, <1>12
<1>14. FixedHeader(h, 3, s, 0, u)
  BY <1>13 DEF FixedHeader
<1> QED  BY <1>1, <1>14, Zenon

(* The hops a packet is built with are not used up here. *)
LEMMA CcnxHops == CCNX!HopsLeft(64) # 0 /\ CCNX!HopsLeft(255) # 0 /\ CCNX!HopsLeft(0) # 0
BY DEF CCNX!HopsLeft

(* What is left to decide is whether it is a fragment. *)
LEMMA CcnxTurn ==
  ASSUME NEW b, CCNX!HeaderOK(b), CCNX!HopsLeft(b[5]) # 0
  PROVE  /\ b[2] # CCNX!PT.Fragment => CCNX!Forwarder(b) = CCNX!ReadMessage(b)
         /\ WithFrag /\ b[2] = CCNX!PT.Fragment => CCNX!Forwarder(b) = {CCNX!ReadFragment(b)}
<1> DEFINE then(d) ==
      CASE CCNX!Limited(d) /\ CCNX!HopsLeft(d[5]) = 0 -> {[pkts |-> <<>>, rest |-> CCNX!Drop(d, CCNX!PktLen(d))]}
        [] WithFrag /\ d[2] = CCNX!PT.Fragment /\ CCNX!HopsLeft(d[5]) # 0 -> {CCNX!ReadFragment(d)}
        [] OTHER -> CCNX!ReadMessage(d)
<1>1. CCNX!Forwarder(b) = UNION {then(d) : d \in CCNX!Only(b, CCNX!HeaderOK(b))}
  BY SMT DEF CCNX!Forwarder, CCNX!AndThen
<1>2. CCNX!Only(b, CCNX!HeaderOK(b)) = {b}
  BY DEF CCNX!Only
<1>3. ASSUME b[2] # CCNX!PT.Fragment
      PROVE  then(b) = CCNX!ReadMessage(b)
  BY <1>3, SMT
<1>4. ASSUME WithFrag, b[2] = CCNX!PT.Fragment
      PROVE  then(b) = {CCNX!ReadFragment(b)}
  BY <1>4, SMT
<1> HIDE DEF then
<1>5. CCNX!Forwarder(b) = then(b)
  BY <1>1, <1>2
<1> QED  BY <1>3, <1>4, <1>5

(* An Interest or a Data packet alone in its datagram *)
CcnxKind(type, t) == (type = 0 /\ t = 1) \/ (type = 1 /\ t = 2)

CcnxBuilt(b, type, hops, m) == b = CCNX!FixedHdr(type, Len(m), hops) \o m
CcnxAlone(m, t, q) == m \in Buffer /\ Len(m) + 9 < 65536 /\ CCNX!Bytes2Pkt(m) = {q} /\ q.type = t

CcnxFramed(b, q) ==
  /\ b \in Buffer /\ Len(b) >= 2 /\ b[1] = 1 /\ b[2] \in 0..3
  /\ CCNX!Forwarder(b) = {[pkts |-> <<q>>, rest |-> <<>>]}

LEMMA CcnxForwards ==
  ASSUME NEW type, NEW t, CcnxKind(type, t), NEW hops \in {64, 255}, NEW m, NEW q, CcnxAlone(m, t, q),
         NEW b, CcnxBuilt(b, type, hops, m)
  PROVE  CcnxFramed(b, q)
<1>1. type \in {0, 1}
  BY DEF CcnxKind
<1>2. type \in Octet /\ hops \in Octet
  BY <1>1 DEF Octet
<1>m. m \in Buffer /\ Len(m) + 9 < 65536 /\ CCNX!Bytes2Pkt(m) = {q} /\ q.type = t
  BY DEF CcnxAlone
<1>3. PICK n \in Nat : n = Len(m)
  BY <1>m, BufferLen
<1>4. PICK h, s : h = CCNX!FixedHdr(type, n, hops) /\ s = BigEndian(2, 9 + n)
  OBVIOUS
<1>5. FixedHeader(h, type, s, hops, <<0, 0>>)
  BY <1>2, <1>4, CcnxFixedHdr
<1>6. b = h \o m
  BY <1>3, <1>4, Zenon DEF CcnxBuilt
<1>7. /\ b \in Buffer /\ Len(b) = 9 + Len(m) /\ b[1] = 1 /\ b[2] = type /\ b[5] = hops
      /\ CCNX!PktLen(b) = Number(s) /\ CCNX!GivenHdrLen(b) = 9 /\ CCNX!Drop(b, 9) = m
  <2>1. FixedRead(h \o m, type, s, hops, <<0, 0>>, m)
    BY <1>5, <1>m, CcnxFixedRead
  <2>2. FixedRead(b, type, s, hops, <<0, 0>>, m)
    BY <1>6, <2>1, Zenon
  <2> QED  BY <2>2, Zenon DEF FixedRead
<1>8. Number(s) = 9 + n
  <2>1. 9 + n \in Nat /\ 9 + n < 65536
    BY <1>3, <1>m
  <2>2. Holds(2, 9 + n)
    BY <2>1 DEF Holds
  <2> QED  BY <1>4, <2>2, BigEndianNumber
<1>9. CCNX!HeaderOK(b)
  <2>1. Len(b) = 9 + n /\ CCNX!PktLen(b) = 9 + n
    BY <1>3, <1>7, <1>8
  <2> QED  BY <1>7, <2>1, CcnxTypes DEF CCNX!HeaderOK
<1>10. CCNX!HopsLeft(b[5]) # 0
  BY <1>7, CcnxHops
<1>11. b[2] # CCNX!PT.Fragment
  BY <1>1, <1>7, CcnxTypes
<1>15. CCNX!Forwarder(b) = CCNX!ReadMessage(b)
  BY <1>9, <1>10, <1>11, CcnxTurn
<1> DEFINE found(p) == {[pkts |-> IF <<b[2], p.type>> \in {<<CCNX!PT.Interest, CCNX!TL.Interest>>, <<CCNX!PT.Data, CCNX!TL.Object>>}
                                  THEN <<p>> ELSE <<>>,
                         rest |-> <<>>]}
<1>16. CCNX!ReadMessage(b) = UNION {found(p) : p \in CCNX!Bytes2Pkt(CCNX!Drop(b, CCNX!GivenHdrLen(b)))}
  BY SMT DEF CCNX!ReadMessage, CCNX!AndThen
<1>17. CCNX!Bytes2Pkt(CCNX!Drop(b, CCNX!GivenHdrLen(b))) = {q}
  <2>1. CCNX!Drop(b, CCNX!GivenHdrLen(b)) = m
    <3>1. CCNX!GivenHdrLen(b) = 9 /\ CCNX!Drop(b, 9) = m
      BY <1>7
    <3> QED  BY <3>1, Zenon
  <2> QED  BY <1>m, <2>1
<1>18. <<b[2], q.type>> \in {<<CCNX!PT.Interest, CCNX!TL.Interest>>, <<CCNX!PT.Data, CCNX!TL.Object>>}
  BY <1>7, <1>m, CcnxTypes DEF CcnxKind
<1>19. found(q) = {[pkts |-> <<q>>, rest |-> <<>>]}
  BY <1>18
<1> HIDE DEF found
<1>20. CCNX!ReadMessage(b) = {[pkts |-> <<q>>, rest |-> <<>>]}
  BY <1>16, <1>17, <1>19
<1>21. Len(b) >= 2 /\ b[2] \in 0..3
  BY <1>1, <1>3, <1>7
<1> QED  BY <1>7, <1>15, <1>20, <1>21 DEF CcnxFramed

(* A fragment alone in its datagram (ccnl_ccntlv_mkFrag, ccnl_ccntlv_forwarder) *)
CcnxFragment(fields, payload) == [type |-> "fragment", fields |-> fields, content |-> payload]

LEMMA CcnxTwoParts ==
  ASSUME NEW x \in Buffer, Len(x) = 2, NEW y \in Buffer, Len(y) = 2, NEW v \in Buffer
  PROVE  /\ (x \o y) \o v \in Buffer /\ Len((x \o y) \o v) = 4 + Len(v)
         /\ CCNX!Take((x \o y) \o v, 2) = x /\ SubSeq((x \o y) \o v, 3, 4) = y
         /\ CCNX!Drop((x \o y) \o v, 4) = v
<1>1. x \o y \in Buffer /\ Len(x \o y) = 4
  <2>1. x \o y \in Buffer /\ Len(x \o y) = Len(x) + Len(y)
    BY BufferConcat
  <2> QED  BY <2>1
<1>2. (x \o y) \o v \in Buffer /\ Len((x \o y) \o v) = Len(x \o y) + Len(v)
  BY <1>1, BufferConcat
<1>3. CCNX!Drop((x \o y) \o v, 4) = v
  BY <1>1, TakeDrop, CcnxOctets
<1>4. CCNX!Take(x \o (y \o v), 2) = x
  <2>1. y \o v \in Buffer
    BY BufferConcat
  <2> QED  BY <2>1, TakeDrop, CcnxOctets
<1>5. (x \o y) \o v = x \o (y \o v)
  BY BufferAssociative
<1>6. SubSeq((x \o y) \o v, Len(x) + 1, Len(x) + Len(y)) = y
  BY Middle
<1>7. Len(x) + 1 = 3 /\ Len(x) + Len(y) = 4
  OBVIOUS
<1> QED  BY <1>1, <1>2, <1>3, <1>4, <1>5, <1>6, <1>7, Zenon


FragmentIs(b, fields, payload) == b = CCNX!MkFrag(fields, payload)

LEMMA CcnxFragmentRead ==
  ASSUME NEW fields, NEW payload \in Buffer, FragmentFits(fields, payload), NEW b, FragmentIs(b, fields, payload)
  PROVE  CcnxFramed(b, CcnxFragment(fields, payload))
<1>1. fields \in Nat /\ fields < 65536 /\ Len(payload) + 9 + 4 < 65536
  BY SMT DEF FragmentFits, CCNX!HdrLen
<1>2. PICK n \in Nat : n = Len(payload)
  BY BufferLen
<1>3. n + 13 < 65536
  BY <1>1, <1>2
<1>4. PICK s : s = BigEndian(2, 13 + n)
  OBVIOUS
<1>5. PICK u : u = BigEndian(2, fields)
  OBVIOUS
<1>6. PICK x : x = BigEndian(2, 5)
  OBVIOUS
<1>7. PICK y : y = BigEndian(2, n)
  OBVIOUS
<1>8. Holds(2, 13 + n) /\ Holds(2, fields) /\ Holds(2, 5) /\ Holds(2, n)
  <2>1. /\ 13 + n \in Nat /\ 13 + n < 65536 /\ n < 65536 /\ fields \in Nat /\ fields < 65536
        /\ 5 \in Nat /\ 5 < 65536
    BY <1>1, <1>3
  <2> QED  BY <2>1 DEF Holds
<1>9. s \in Buffer /\ Len(s) = 2 /\ Number(s) = 13 + n
  <2>1. 13 + n \in Nat /\ 2 \in 1..4
    OBVIOUS
  <2> QED  BY <1>4, <1>8, <2>1, BigEndianOctets, BigEndianNumber, ZenonT(60)
<1>10. u \in Buffer /\ Len(u) = 2 /\ Number(u) = fields
  <2>1. fields \in Nat /\ 2 \in 1..4
    BY <1>1
  <2> QED  BY <1>5, <1>8, <2>1, BigEndianOctets, BigEndianNumber, ZenonT(60)
<1>11. x \in Buffer /\ Len(x) = 2 /\ Number(x) = 5
  <2>1. 5 \in Nat /\ 2 \in 1..4
    OBVIOUS
  <2> QED  BY <1>6, <1>8, <2>1, BigEndianOctets, BigEndianNumber, ZenonT(60)
<1>12. y \in Buffer /\ Len(y) = 2 /\ Number(y) = n
  <2>1. n \in Nat /\ 2 \in 1..4
    OBVIOUS
  <2> QED  BY <1>7, <1>8, <2>1, BigEndianOctets, BigEndianNumber, ZenonT(60)
<1>13. PICK h : h = <<1, 3>> \o s \o <<0>> \o u \o <<9, 0>>
  OBVIOUS
<1>14. FixedHeader(h, 3, s, 0, u)
  BY <1>9, <1>10, <1>13, CcnxFragHdr
<1>15. PICK m : m = (x \o y) \o payload
  OBVIOUS
<1>16. /\ m \in Buffer /\ Len(m) = 4 + Len(payload) /\ CCNX!Take(m, 2) = x /\ SubSeq(m, 3, 4) = y
       /\ CCNX!Drop(m, 4) = payload
  BY <1>11, <1>12, <1>15, CcnxTwoParts, ZenonT(60)
<1>17. b = h \o m
  <2>1. h \in Buffer
    BY <1>14 DEF FixedHeader
  <2>2. x \o y \in Buffer /\ h \o x \in Buffer
    BY <1>11, <1>12, <2>1, BufferConcat
  <2>3. (h \o x) \o y = h \o (x \o y)
    BY <1>11, <1>12, <2>1, BufferAssociative
  <2>4. (h \o (x \o y)) \o payload = h \o ((x \o y) \o payload)
    <3>1. PICK xy \in Buffer : xy = x \o y
      BY <2>2
    <3>3. (h \o xy) \o payload = h \o (xy \o payload)
      BY <2>1, BufferAssociative
    <3> QED  BY <3>1, <3>3, Zenon
  <2>5. CCNX!MkFrag(fields, payload) = <<1, 3>> \o BigEndian(2, 9 + 4 + Len(payload)) \o <<0>> \o BigEndian(2, fields)
           \o <<9, 0>> \o BigEndian(2, 5) \o BigEndian(2, Len(payload)) \o payload
    BY CcnxTypes, CcnxOctets DEF CCNX!MkFrag
  <2>6. 9 + 4 + Len(payload) = 13 + n
    BY <1>2
  <2>7. CCNX!MkFrag(fields, payload) = ((h \o x) \o y) \o payload
    BY <1>2, <1>4, <1>5, <1>6, <1>7, <1>13, <2>5, <2>6, Zenon
  <2> QED  BY <1>15, <2>3, <2>4, <2>7, Zenon DEF FragmentIs
<1>18. /\ b \in Buffer /\ Len(b) = 9 + Len(m) /\ b[1] = 1 /\ b[2] = 3 /\ b[5] = 0
       /\ CCNX!PktLen(b) = Number(s) /\ CCNX!GivenHdrLen(b) = 9 /\ SubSeq(b, 6, 7) = u /\ CCNX!Drop(b, 9) = m
  <2>1. FixedRead(h \o m, 3, s, 0, u, m)
    BY <1>14, <1>16, CcnxFixedRead
  <2>2. FixedRead(b, 3, s, 0, u, m)
    BY <1>17, <2>1, Zenon
  <2> QED  BY <2>2, Zenon DEF FixedRead
<1>19. CCNX!PktLen(b) = 13 + n /\ Len(b) = 13 + n
  BY <1>2, <1>9, <1>16, <1>18
<1>20. CCNX!HeaderOK(b)
  BY <1>18, <1>19, CcnxTypes DEF CCNX!HeaderOK
<1>21. CCNX!Forwarder(b) = {CCNX!ReadFragment(b)}
  <2>1. CCNX!HopsLeft(b[5]) # 0 /\ b[2] = CCNX!PT.Fragment
    BY <1>18, CcnxHops, CcnxTypes
  <2>2. WithFrag
    BY SMT DEF FragmentFits
  <2> QED  BY <1>20, <2>1, <2>2, CcnxTurn
<1> DEFINE body == CCNX!Drop(b, CCNX!GivenHdrLen(b))
           frag == [type |-> "fragment", fields |-> CCNX!Number(SubSeq(b, 6, 7)), content |-> CCNX!Drop(body, 4)]
<1>22. CCNX!ReadFragment(b) =
         IF CCNX!Number(CCNX!Take(body, 2)) = CCNX!TL.Fragment
            /\ CCNX!Number(SubSeq(body, 3, 4)) = CCNX!PktLen(b) - CCNX!GivenHdrLen(b) - 4
         THEN [pkts |-> <<frag>>, rest |-> <<>>] ELSE [pkts |-> <<>>, rest |-> CCNX!Drop(b, CCNX!PktLen(b))]
  BY SMT DEF CCNX!ReadFragment
<1>23. body = m
  BY <1>18, Zenon
<1> HIDE DEF body
<1>24. CCNX!Number(CCNX!Take(body, 2)) = CCNX!TL.Fragment
  BY <1>11, <1>16, <1>23, CcnxOctets, CcnxTypes
<1>25. CCNX!Number(SubSeq(body, 3, 4)) = CCNX!PktLen(b) - CCNX!GivenHdrLen(b) - 4
  <2>1. CCNX!Number(SubSeq(body, 3, 4)) = n
    BY <1>12, <1>16, <1>23, CcnxOctets, Zenon
  <2>2. CCNX!PktLen(b) - CCNX!GivenHdrLen(b) - 4 = n
    BY <1>18, <1>19
  <2> QED  BY <2>1, <2>2
<1>26. frag = CcnxFragment(fields, payload)
  <2>1. CCNX!Number(SubSeq(b, 6, 7)) = fields
    BY <1>10, <1>18, CcnxOctets, Zenon
  <2>2. CCNX!Drop(body, 4) = payload
    BY <1>16, <1>23, Zenon
  <2> QED  BY <2>1, <2>2, Zenon DEF CcnxFragment
<1> HIDE DEF frag
<1>27. CCNX!ReadFragment(b) = [pkts |-> <<CcnxFragment(fields, payload)>>, rest |-> <<>>]
  BY <1>22, <1>24, <1>25, <1>26, Zenon
<1>28. Len(b) >= 2 /\ b[2] \in 0..3
  BY <1>18, <1>19
<1> QED  BY <1>18, <1>21, <1>27, <1>28, Zenon DEF CcnxFramed

-----------------------------------------------------------------------------
(***************************************************************************)
(* The packets of Formats in the format CCNx.                              *)
(***************************************************************************)
LEMMA CcnxWithHdr ==
  ASSUME NEW type, NEW m, NEW hops, NEW b, b \in CCNX!WithHdr(type, m, hops)
  PROVE  CcnxBuilt(b, type, hops, m)
<1>1. PICK d : d = CCNX!FixedHdr(type, Len(m), hops) \o m
  OBVIOUS
<1>2. CCNX!WithHdr(type, m, hops) = CCNX!Only(d, Len(d) =< MaxPacketSize)
  BY <1>1, Zenon DEF CCNX!WithHdr, CCNX!Fits
<1>3. b \in CCNX!Only(d, Len(d) =< MaxPacketSize)
  BY <1>2
<1>4. b = d
  BY <1>3, SMT DEF CCNX!Only
<1> QED  BY <1>1, <1>4, Zenon DEF CcnxBuilt

CcnxInterestAs(comps, chunk) == CcnxPkt(1, CcnxFound(comps, chunk), <<>>, None)
CcnxContentAs(comps, chunk, payload, last) == CcnxPkt(2, CcnxFound(comps, chunk), payload, last)

LEMMA CcnxInterestBuilt ==
  ASSUME NEW comps, NEW chunk, CcnxNamed(comps, chunk),
         Len(CCNX!MkName(CcnxGiven(comps, chunk), None)) < 256,
         NEW b, b \in CCNX!MkInterest(CcnxGiven(comps, chunk))
  PROVE  CcnxFramed(b, CcnxInterestAs(comps, chunk))
<1>1. PICK v : v = CCNX!MkName(CcnxGiven(comps, chunk), None)
  OBVIOUS
<1>2. v \in Buffer
  BY <1>1, CcnxNameFirst
<1>3. Len(v) \in Octet /\ Len(v) < 256 /\ Len(v) \in Nat /\ 1 \in Octet
  <2>1. Len(v) \in Nat
    BY <1>2, BufferLen
  <2>2. Len(v) < 256
    BY <1>1
  <2>3. 1 \in Octet
    BY DEF Octet
  <2> QED  BY <2>1, <2>2, <2>3, SmallOctet
<1>4. PICK m : m = CCNX!Blob(1, v)
  OBVIOUS
<1>5. m \in Buffer /\ Len(m) = Len(v) + 4
  BY <1>2, <1>3, <1>4, CcnxBlob
<1>6. PICK q : q = CcnxInterestAs(comps, chunk)
  OBVIOUS
<1>7. CCNX!Bytes2Pkt(m) = {q}
  BY <1>1, <1>3, <1>4, <1>6, CcnxInterestRead DEF CcnxInterestAs
<1>8. q.type = 1
  BY <1>6 DEF CcnxInterestAs, CcnxPkt
<1>9. CcnxAlone(m, 1, q)
  <2>1. Len(m) + 9 < 65536
    BY <1>3, <1>5
  <2> QED  BY <1>5, <1>7, <1>8, <2>1 DEF CcnxAlone
<1>10. CcnxBuilt(b, 0, 64, m)
  <2>1. b \in CCNX!WithHdr(0, m, 64)
    <3>1. b \in CCNX!WithHdr(CCNX!PT.Interest, CCNX!Blob(CCNX!TL.Interest,
                                CCNX!MkName(CcnxGiven(comps, chunk), CCNX!None)), 64)
      BY Zenon DEF CCNX!MkInterest
    <3>2. CCNX!PT.Interest = 0 /\ CCNX!TL.Interest = 1 /\ CCNX!None = None
      BY CcnxTypes DEF None
    <3> QED  BY <1>1, <1>4, <3>1, <3>2, Zenon
  <2> QED  BY <2>1, CcnxWithHdr
<1>11. CcnxKind(0, 1) /\ 64 \in {64, 255}
  BY DEF CcnxKind
<1>12. CcnxFramed(b, q)
  BY <1>9, <1>10, <1>11, CcnxForwards
<1> QED  BY <1>6, <1>12

LEMMA CcnxContentBuilt ==
  ASSUME NEW comps, NEW chunk, CcnxNamed(comps, chunk), NEW last, last = None \/ last \in Count,
         NEW payload \in Buffer, Len(CCNX!MkName(CcnxGiven(comps, chunk), last)) + 4 + Len(payload) < 256,
         NEW b, b \in CCNX!MkContent(CcnxGiven(comps, chunk), payload, last)
  PROVE  CcnxFramed(b, CcnxContentAs(comps, chunk, payload, last))
<1>1. PICK v : v = CCNX!MkName(CcnxGiven(comps, chunk), last) \o CCNX!Blob(1, payload)
  OBVIOUS
<1>2. PICK q : q = CcnxContentAs(comps, chunk, payload, last)
  OBVIOUS
<1>3. PICK m : m = CCNX!Blob(2, v)
  OBVIOUS
<1>4. 2 \in Octet
  BY DEF Octet
<1>5. v \in Buffer /\ Len(v) \in Octet /\ CCNX!Bytes2Pkt(m) = {q}
  BY <1>1, <1>2, <1>3, <1>4, CcnxContentRead DEF CcnxContentAs
<1>6. m \in Buffer /\ Len(m) = Len(v) + 4
  BY <1>3, <1>4, <1>5, CcnxBlob
<1>7. q.type = 2
  BY <1>2 DEF CcnxContentAs, CcnxPkt
<1>8. CcnxAlone(m, 2, q)
  <2>1. Len(v) \in Nat /\ Len(v) < 256
    BY <1>5, OctetIsNat
  <2>2. Len(m) + 9 < 65536
    BY <1>6, <2>1
  <2> QED  BY <1>5, <1>6, <1>7, <2>2 DEF CcnxAlone
<1>9. CcnxBuilt(b, 1, 255, m)
  <2>1. b \in CCNX!WithHdr(1, m, 255)
    BY <1>1, <1>3, CcnxTypes, Zenon DEF CCNX!MkContent
  <2> QED  BY <2>1, CcnxWithHdr
<1>10. CcnxKind(1, 2) /\ 255 \in {64, 255}
  BY DEF CcnxKind
<1>11. CcnxFramed(b, q)
  BY <1>8, <1>9, <1>10, CcnxForwards
<1> QED  BY <1>2, <1>11

LEMMA CcnxNames ==
  ASSUME NEW p, NameSound(p)
  PROVE  CcnxNamed(p.comps, p.chunk) /\ CcnxName(p) = CcnxGiven(p.comps, p.chunk)
<1>1. p.comps \in Seq(Buffer) /\ (p.chunk = None \/ IsNumber(p.chunk))
  BY DEF NameSound, MayBe, Buffer
<1>2. Len(p.comps) + (IF p.chunk = None THEN 0 ELSE 1) =< MaxNameComp
  BY DEF NameSound
<1>3. CcnxNamed(p.comps, p.chunk)
  BY <1>1, <1>2, NumberIsCount, Zenon DEF CcnxNamed
<1>4. PICK c : c = p.comps
  OBVIOUS
<1>5. DOMAIN c = 1..Len(c)
  BY <1>1, <1>4
<1>6. \A v : CCNX!NameSegment(v) = CCNX!Blob(1, v)
  BY CcnxTypes DEF CCNX!NameSegment
<1>7. [k \in DOMAIN c |-> CCNX!NameSegment(c[k])] = [k \in 1..Len(c) |-> CCNX!Blob(1, c[k])]
  BY <1>5, <1>6
<1>8. CcnxName(p) = CcnxGiven(p.comps, p.chunk)
  BY <1>4, <1>7, Zenon DEF CcnxName, CcnxGiven, CcnxSegments
<1> QED  BY <1>3, <1>8

LEMMA CcnxNameSame ==
  ASSUME NEW p, p.suite = "ccntlv", NameSound(p)
  PROVE  [CcnxName(p) EXCEPT !.comps = @ \o ChunkComp(p)] = CcnxFound(p.comps, p.chunk)
<1>1. \A k : CCNX!Chunk(k) = CCNX!Blob(16, CCNX!VarUInt(k))
  BY CcnxTypes DEF CCNX!Chunk
<1>2. ChunkComp(p) = CcnxChunkComp(p.chunk)
  BY <1>1 DEF ChunkComp, CcnxChunkComp
<1>3. PICK n, c, k, y : n = CcnxName(p) /\ c = CcnxSegments(p.comps) /\ k = p.chunk /\ y = c \o ChunkComp(p)
  OBVIOUS
<1>4. n = [comps |-> c, chunk |-> k]
  BY <1>3, CcnxNames, Zenon DEF CcnxGiven
<1>5. n.comps = c /\ [n EXCEPT !.comps = y] = [comps |-> y, chunk |-> k]
  BY <1>4
<1>6. [n EXCEPT !.comps = @ \o ChunkComp(p)] = [n EXCEPT !.comps = y]
  BY <1>3, <1>5, Zenon
<1>7. [CcnxName(p) EXCEPT !.comps = @ \o ChunkComp(p)] = [comps |-> y, chunk |-> k]
  BY <1>3, <1>5, <1>6, Zenon
<1> QED  BY <1>2, <1>3, <1>7, Zenon DEF CcnxFound

(* What is meant for one kind of packet is not meant for another. *)
LEMMA CcnxParts ==
  ASSUME NEW p, Sound(p), p.suite = "ccntlv"
  PROVE  /\ p.kind \in {"interest", "content", "tool", "fragment"} /\ CcnxSound(p)
         /\ p.kind # "interest" => p.payload \in Buffer
         /\ p.kind # "fragment" => NameSound(p)
BY DEF Sound, Buffer

LEMMA CcnxLimits ==
  ASSUME NEW p, CcnxSound(p)
  PROVE  /\ p.kind = "interest" => Len(CCNX!MkName(CcnxName(p), None)) < 256
         /\ p.kind = "content" => Len(CCNX!MkName(CcnxName(p), 0)) + 4 + Len(p.payload) < 256
         /\ p.kind = "tool" =>
              MayBe(p.final) /\ Len(CCNX!MkName(CcnxName(p), p.final)) + 4 + Len(p.payload) < 256
         /\ p.kind = "fragment" => FragmentFits(p.fields, p.payload)
BY Zenon DEF CcnxSound

LEMMA CcnxInterestSame ==
  ASSUME NEW p, p.suite = "ccntlv", NameSound(p), p.kind = "interest"
  PROVE  Same(p, CcnxInterestAs(p.comps, p.chunk))
<1>1. PICK q : q = CcnxInterestAs(p.comps, p.chunk)
  OBVIOUS
<1>2. q.name = CcnxFound(p.comps, p.chunk) /\ q.type = 1
  BY <1>1 DEF CcnxInterestAs, CcnxPkt
<1>3. q.name = [CcnxName(p) EXCEPT !.comps = @ \o ChunkComp(p)]
  BY <1>2, CcnxNameSame
<1>4. CCNX!TL.Interest = 1
  BY CcnxTypes
<1>5. p.suite # "ccnb" /\ p.suite # "ndntlv" /\ p.kind # "fragment" /\ p.kind # "content" /\ p.kind # "tool"
  OBVIOUS
<1>6. Same(p, q)
  BY <1>2, <1>3, <1>4, <1>5, Zenon DEF Same
<1> QED  BY <1>1, <1>6

LEMMA CcnxContentSame ==
  ASSUME NEW p, p.suite = "ccntlv", NameSound(p), p.kind \in {"content", "tool"},
         NEW last, p.kind = "tool" => last = p.final
  PROVE  Same(p, CcnxContentAs(p.comps, p.chunk, p.payload, last))
<1>1. PICK q : q = CcnxContentAs(p.comps, p.chunk, p.payload, last)
  OBVIOUS
<1>2. q.name = CcnxFound(p.comps, p.chunk) /\ q.type = 2 /\ q.content = p.payload /\ q.final = last
  BY <1>1 DEF CcnxContentAs, CcnxPkt
<1>3. q.name = [CcnxName(p) EXCEPT !.comps = @ \o ChunkComp(p)]
  BY <1>2, CcnxNameSame
<1>4. CCNX!TL.Object = 2
  BY CcnxTypes
<1>5. p.suite # "ccnb" /\ p.suite # "ndntlv" /\ p.kind # "fragment" /\ p.kind # "interest"
  OBVIOUS
<1>6. p.kind = "tool" => q.final = p.final
  BY <1>2
<1>7. Same(p, q)
  BY <1>2, <1>3, <1>4, <1>5, <1>6, Zenon DEF Same
<1> QED  BY <1>1, <1>7

LEMMA CcnxFragmentSame ==
  ASSUME NEW p, p.suite = "ccntlv", p.kind = "fragment"
  PROVE  Same(p, CcnxFragment(p.fields, p.payload))
<1>1. PICK q : q = CcnxFragment(p.fields, p.payload)
  OBVIOUS
<1>2. q.fields = p.fields /\ q.content = p.payload
  BY <1>1 DEF CcnxFragment
<1>3. p.suite # "ccnb" /\ p.suite # "ndntlv"
  OBVIOUS
<1>4. Same(p, q)
  BY <1>2, <1>3, Zenon DEF Same
<1> QED  BY <1>1, <1>4

(***************************************************************************)
(* Whatever the builders and tools make of a CCNx packet or fragment       *)
(* within the limits (ccnl_ccntlv_prependInterestWithHdr,                  *)
(* ccnl_ccntlv_prependContentWithHdr, ccnl_ccntlv_mkFrag) is read by       *)
(* ccnl_ccntlv_forwarder and ccnl_ccntlv_bytes2pkt as that packet.         *)
(***************************************************************************)
THEOREM CcnxAsBuilt ==
  ASSUME NEW p, Sound(p), p.suite = "ccntlv", NEW b \in Build(p)
  PROVE  /\ b \in Buffer /\ Len(b) >= 2 /\ b[1] = 1 /\ b[2] \in 0..3
         /\ \E q : CCNX!Forwarder(b) = {[pkts |-> <<q>>, rest |-> <<>>]} /\ Same(p, q)
<1>1. /\ p.kind \in {"interest", "content", "tool", "fragment"} /\ CcnxSound(p)
      /\ p.kind # "interest" => p.payload \in Buffer
      /\ p.kind # "fragment" => NameSound(p)
  BY CcnxParts
<1>2. p.suite # "ccnb" /\ p.suite # "ndntlv"
  OBVIOUS
<1> SUFFICES \E q : CcnxFramed(b, q) /\ Same(p, q)
  BY Zenon DEF CcnxFramed
<1>3. CASE p.kind = "interest"
  <2>1. NameSound(p)
    BY <1>1, <1>3
  <2>2. CcnxNamed(p.comps, p.chunk) /\ CcnxName(p) = CcnxGiven(p.comps, p.chunk)
    BY <2>1, CcnxNames
  <2>3. Len(CCNX!MkName(CcnxGiven(p.comps, p.chunk), None)) < 256
    BY <1>1, <1>3, <2>2, CcnxLimits, Zenon
  <2>4. b \in MkInterest(p)
    BY <1>3, Zenon DEF Build
  <2>5. b \in CCNX!MkInterest(CcnxGiven(p.comps, p.chunk))
    BY <1>2, <2>2, <2>4, Zenon DEF MkInterest
  <2>6. CcnxFramed(b, CcnxInterestAs(p.comps, p.chunk))
    BY <2>2, <2>3, <2>5, CcnxInterestBuilt
  <2>7. Same(p, CcnxInterestAs(p.comps, p.chunk))
    BY <1>3, <2>1, CcnxInterestSame
  <2> QED  BY <2>6, <2>7, Zenon
<1>4. ASSUME p.kind \in {"content", "tool"}, NEW last, last = None \/ last \in Count,
             p.kind = "tool" => last = p.final,
             Len(CCNX!MkName(CcnxName(p), last)) + 4 + Len(p.payload) < 256,
             b \in CCNX!MkContent(CcnxName(p), p.payload, last)
      PROVE  \E q : CcnxFramed(b, q) /\ Same(p, q)
  <2>1. NameSound(p) /\ p.payload \in Buffer
    BY <1>1, <1>4
  <2>2. CcnxNamed(p.comps, p.chunk) /\ CcnxName(p) = CcnxGiven(p.comps, p.chunk)
    BY <2>1, CcnxNames
  <2>3. Len(CCNX!MkName(CcnxGiven(p.comps, p.chunk), last)) + 4 + Len(p.payload) < 256
    BY <1>4, <2>2, Zenon
  <2>4. b \in CCNX!MkContent(CcnxGiven(p.comps, p.chunk), p.payload, last)
    BY <1>4, <2>2, Zenon
  <2>5. CcnxFramed(b, CcnxContentAs(p.comps, p.chunk, p.payload, last))
    BY <1>4, <2>1, <2>2, <2>3, <2>4, CcnxContentBuilt
  <2>6. Same(p, CcnxContentAs(p.comps, p.chunk, p.payload, last))
    BY <1>4, <2>1, CcnxContentSame
  <2> QED  BY <2>5, <2>6, Zenon
<1>5. CASE p.kind = "content"
  <2>1. b \in MkContent(p)
    BY <1>5, Zenon DEF Build
  <2>2. b \in CCNX!MkContent(CcnxName(p), p.payload, 0)
    BY <1>2, <2>1, Zenon DEF MkContent
  <2>3. Len(CCNX!MkName(CcnxName(p), 0)) + 4 + Len(p.payload) < 256
    BY <1>1, <1>5, CcnxLimits, Zenon
  <2>4. 0 \in Count
    BY SmallCount
  <2>5. p.kind # "tool" /\ p.kind \in {"content", "tool"}
    BY <1>5
  <2> QED  BY <1>4, <2>2, <2>3, <2>4, <2>5
<1>6. CASE p.kind = "tool"
  <2>1. b \in ToolContent(p)
    BY <1>6, Zenon DEF Build
  <2>2. b \in CCNX!MkContent(CcnxName(p), p.payload, p.final)
    BY <1>2, <2>1, ZenonT(60) DEF ToolContent
  <2>3. MayBe(p.final) /\ Len(CCNX!MkName(CcnxName(p), p.final)) + 4 + Len(p.payload) < 256
    BY <1>1, <1>6, CcnxLimits, Zenon
  <2>4. p.final = None \/ p.final \in Count
    BY <2>3, NumberIsCount, Zenon DEF MayBe
  <2>5. p.kind \in {"content", "tool"}
    BY <1>6
  <2> QED  BY <1>4, <2>2, <2>3, <2>4, <2>5
<1>7. CASE p.kind = "fragment"
  <2>1. b = CCNX!MkFrag(p.fields, p.payload)
    BY <1>7, Zenon DEF Build
  <2>2. FragmentFits(p.fields, p.payload)
    BY <1>1, <1>7, CcnxLimits, Zenon
  <2>3. CcnxFramed(b, CcnxFragment(p.fields, p.payload))
    <3>1. p.payload \in Buffer
      BY <1>1, <1>7
    <3> QED  BY <2>1, <2>2, <3>1, CcnxFragmentRead, Zenon DEF FragmentIs
  <2>4. Same(p, CcnxFragment(p.fields, p.payload))
    BY <1>7, CcnxFragmentSame
  <2> QED  BY <2>3, <2>4, Zenon
<1> QED  BY <1>1, <1>3, <1>5, <1>6, <1>7

-----------------------------------------------------------------------------
(***************************************************************************)
(* CCNb: numbers and headers.                                              *)
(***************************************************************************)
LEMMA CcnbOctets ==
  /\ \A b, n : CCNB!Take(b, n) = Take(b, n) /\ CCNB!Drop(b, n) = Drop(b, n)
  /\ \A s : CCNB!FlattenSeq(s) = FlattenSeq(s)
<1>1. ASSUME NEW b, NEW n PROVE CCNB!Take(b, n) = Take(b, n) /\ CCNB!Drop(b, n) = Drop(b, n)
  BY DEF Take, Drop, CCNB!Take, CCNB!Drop
<1>2. \A s : CCNB!FlattenSeq(s) = FlattenSeq(s)
  BY Zenon DEF FlattenSeq, CCNB!FlattenSeq
<1> QED  BY <1>1, <1>2

LEMMA CcnbTypes ==
  /\ CCNB!TT.DTAG = 2 /\ CCNB!TT.DATTR = 4 /\ CCNB!TT.BLOB = 5 /\ CCNB!TT.UDATA = 6
  /\ CCNB!DTAG.NAME = 14 /\ CCNB!DTAG.COMPONENT = 15 /\ CCNB!DTAG.CONTENT = 19
  /\ CCNB!DTAG.INTEREST = 26 /\ CCNB!DTAG.CONTENTOBJ = 64 /\ CCNB!End = <<0>>
BY DEF CCNB!TT, CCNB!DTAG, CCNB!End

LEMMA HighValueSteps ==
  ASSUME NEW b \in Buffer, NEW f \in [0..Len(b) -> Nat], f[0] = 0,
         \A k \in 1..Len(b) : f[k] = 128 * f[k - 1] + b[k]
  PROVE  CCNB!HighValue(b) = f[Len(b)]
<1> DEFINE D(g) == [k \in 0..Len(b) |-> IF k = 0 THEN 0 ELSE 128 * g[k - 1] + b[k]]
<1>1. f = D(f)
  OBVIOUS
<1>2. PICK at : at = D(at) /\ CCNB!HighValue(b) = at[Len(b)]
  <2> DEFINE g == CHOOSE g : g = D(g)
  <2>1. CCNB!HighValue(b) = g[Len(b)]
    BY Zenon DEF CCNB!HighValue, CCNB!Fold
  <2> HIDE DEF D
  <2>2. g = D(g)
    BY <1>1, Zenon
  <2> QED  BY <2>1, <2>2, Zenon
<1>3. Len(b) \in Nat
  BY BufferLen
<1>4. at[0] = f[0]
  BY <1>2, <1>3
<1>5. ASSUME NEW k \in 1..Len(b), at[k - 1] = f[k - 1] PROVE at[k] = f[k]
  <2>1. at[k] = 128 * at[k - 1] + b[k]
    BY <1>2, <1>3, SMTT(30)
  <2> QED  BY <1>5, <2>1
<1>6. StepsAlike(Len(b), at, f)
  BY <1>3, <1>4, <1>5 DEF StepsAlike
<1>7. \A k \in 0..Len(b) : at[k] = f[k]
  BY <1>6, Agree
<1> QED  BY <1>2, <1>3, <1>7

LEMMA HighValueShort ==
  ASSUME NEW b \in Buffer
  PROVE  /\ Len(b) = 0 => CCNB!HighValue(b) = 0
         /\ Len(b) = 1 => CCNB!HighValue(b) = b[1]
         /\ Len(b) = 2 => CCNB!HighValue(b) = 128 * b[1] + b[2]
         /\ Len(b) = 3 => CCNB!HighValue(b) = 128 * (128 * b[1] + b[2]) + b[3]
         /\ Len(b) = 4 => CCNB!HighValue(b) = 128 * (128 * (128 * b[1] + b[2]) + b[3]) + b[4]
<1>1. \A k \in 1..Len(b) : b[k] \in Nat
  BY BufferElement
<1>0. ASSUME Len(b) = 0 PROVE CCNB!HighValue(b) = 0
  <2> DEFINE f == [k \in 0..Len(b) |-> 0]
  <2>1. f \in [0..Len(b) -> Nat] /\ f[0] = 0 /\ \A k \in 1..Len(b) : f[k] = 128 * f[k - 1] + b[k]
    BY <1>0
  <2>2. f[Len(b)] = 0
    BY <1>0
  <2> HIDE DEF f
  <2> QED  BY <2>1, <2>2, HighValueSteps
<1>2. ASSUME Len(b) = 1 PROVE CCNB!HighValue(b) = b[1]
  <2> DEFINE f == [k \in 0..Len(b) |-> IF k = 0 THEN 0 ELSE b[1]]
  <2>1. b[1] \in Nat
    BY <1>1, <1>2
  <2>2. f \in [0..Len(b) -> Nat] /\ f[0] = 0 /\ \A k \in 1..Len(b) : f[k] = 128 * f[k - 1] + b[k]
    BY <1>2, <2>1
  <2>3. f[Len(b)] = b[1]
    BY <1>2
  <2> HIDE DEF f
  <2> QED  BY <2>2, <2>3, HighValueSteps, SMTT(30)
<1>3. ASSUME Len(b) = 2 PROVE CCNB!HighValue(b) = 128 * b[1] + b[2]
  <2> DEFINE f == [k \in 0..Len(b) |-> IF k = 0 THEN 0 ELSE IF k = 1 THEN b[1] ELSE 128 * b[1] + b[2]]
  <2>1. b[1] \in Nat /\ b[2] \in Nat
    BY <1>1, <1>3
  <2>2. f \in [0..Len(b) -> Nat] /\ f[0] = 0 /\ \A k \in 1..Len(b) : f[k] = 128 * f[k - 1] + b[k]
    BY <1>3, <2>1
  <2>3. f[Len(b)] = 128 * b[1] + b[2]
    BY <1>3
  <2> HIDE DEF f
  <2> QED  BY <2>2, <2>3, HighValueSteps, SMTT(30)
<1>4. ASSUME Len(b) = 3 PROVE CCNB!HighValue(b) = 128 * (128 * b[1] + b[2]) + b[3]
  <2> DEFINE f == [k \in 0..Len(b) |-> IF k = 0 THEN 0 ELSE IF k = 1 THEN b[1] ELSE IF k = 2 THEN 128 * b[1] + b[2] ELSE 128 * (128 * b[1] + b[2]) + b[3]]
  <2>1. b[1] \in Nat /\ b[2] \in Nat /\ b[3] \in Nat
    BY <1>1, <1>4
  <2>2. f \in [0..Len(b) -> Nat] /\ f[0] = 0 /\ \A k \in 1..Len(b) : f[k] = 128 * f[k - 1] + b[k]
    BY <1>4, <2>1
  <2>3. f[Len(b)] = 128 * (128 * b[1] + b[2]) + b[3]
    BY <1>4
  <2> HIDE DEF f
  <2> QED  BY <2>2, <2>3, HighValueSteps, SMTT(30)
<1>5. ASSUME Len(b) = 4 PROVE CCNB!HighValue(b) = 128 * (128 * (128 * b[1] + b[2]) + b[3]) + b[4]
  <2> DEFINE f == [k \in 0..Len(b) |-> IF k = 0 THEN 0 ELSE IF k = 1 THEN b[1] ELSE IF k = 2 THEN 128 * b[1] + b[2] ELSE IF k = 3 THEN 128 * (128 * b[1] + b[2]) + b[3] ELSE 128 * (128 * (128 * b[1] + b[2]) + b[3]) + b[4]]
  <2>1. b[1] \in Nat /\ b[2] \in Nat /\ b[3] \in Nat /\ b[4] \in Nat
    BY <1>1, <1>5
  <2>2. f \in [0..Len(b) -> Nat] /\ f[0] = 0 /\ \A k \in 1..Len(b) : f[k] = 128 * f[k - 1] + b[k]
    BY <1>5, <2>1
  <2>3. f[Len(b)] = 128 * (128 * (128 * b[1] + b[2]) + b[3]) + b[4]
    BY <1>5, SMTT(30)
  <2> HIDE DEF f
  <2> QED  BY <2>2, <2>3, HighValueSteps, SMTT(30)
<1> QED  BY <1>0, <1>2, <1>3, <1>4, <1>5

HighBitsIn(n, size) == [k \in 1..size |-> (n \div CCNB!Sevens[size - k + 1]) % 128]

HighBitsAre(h, n, size) ==
  /\ h \in Buffer /\ Len(h) = size
  /\ \A k \in 1..size : h[k] = (n \div CCNB!Sevens[size - k + 1]) % 128 /\ h[k] < 128

LEMMA HighBitsOctets ==
  ASSUME NEW n \in Nat, NEW size \in 0..4
  PROVE  HighBitsAre(HighBitsIn(n, size), n, size)
<1> SUFFICES
         /\ HighBitsIn(n, size) \in Buffer /\ Len(HighBitsIn(n, size)) = size
         /\ \A k \in 1..size : /\ HighBitsIn(n, size)[k] = (n \div CCNB!Sevens[size - k + 1]) % 128
                               /\ HighBitsIn(n, size)[k] < 128
  BY Zenon DEF HighBitsAre
<1>1. \A k \in 1..4 : CCNB!Sevens[k] \in Nat \ {0}
  BY DEF CCNB!Sevens
<1>2. \A k \in 1..size : (n \div CCNB!Sevens[size - k + 1]) % 128 \in 0..127
  <2>1. ASSUME NEW w \in Nat \ {0} PROVE (n \div w) % 128 \in 0..127
    <3>1. n \div w \in Int
      BY <2>1
    <3> QED  BY <3>1
  <2> QED  BY <1>1, <2>1, SMTT(30)
<1>3. \A v \in 0..127 : v \in Octet /\ v < 128
  BY DEF Octet
<1>4. HighBitsIn(n, size) \in [1..size -> Octet]
  BY <1>2, <1>3 DEF HighBitsIn
<1>5. HighBitsIn(n, size) \in Buffer /\ Len(HighBitsIn(n, size)) = size
  BY <1>4, BufferOf
<1>6. \A k \in 1..size : HighBitsIn(n, size)[k] = (n \div CCNB!Sevens[size - k + 1]) % 128
  BY DEF HighBitsIn
<1> QED  BY <1>2, <1>3, <1>5, <1>6, ZenonT(60)

(* The high bits h of a number n: no octet ends a header, none of them is spare. *)
HighOf(h, n) ==
  /\ h \in Buffer /\ Len(h) \in 0..4
  /\ \A k \in 1..Len(h) : h[k] < 128
  /\ h # <<>> => h[1] # 0
  /\ CCNB!HighValue(h) = n

HighFits(n) == n < 268435456

LEMMA CcnbHighBits ==
  ASSUME NEW n \in Nat, HighFits(n)
  PROVE  HighOf(CCNB!HighBits(n), n)
<1>1. CCNB!Sevens[1] = 1 /\ CCNB!Sevens[2] = 128 /\ CCNB!Sevens[3] = 16384 /\ CCNB!Sevens[4] = 2097152
  BY DEF CCNB!Sevens
<1>s. ASSUME NEW size \in 0..4, NEW h, h = HighBitsIn(n, size)
      PROVE  HighBitsAre(h, n, size)
  <2>1. HighBitsAre(HighBitsIn(n, size), n, size)
    BY HighBitsOctets
  <2> QED  BY <1>s, <2>1, Zenon
<1>2. ASSUME NEW size \in 0..4, CCNB!HighBits(n) = HighBitsIn(n, size),
             size # 0 => HighBitsIn(n, size)[1] # 0, CCNB!HighValue(HighBitsIn(n, size)) = n
      PROVE  HighOf(CCNB!HighBits(n), n)
  <2>1. PICK h : h = HighBitsIn(n, size)
    OBVIOUS
  <2>2. h \in Buffer /\ Len(h) = size /\ \A k \in 1..size : h[k] < 128
    <3>1. HighBitsAre(HighBitsIn(n, size), n, size)
      BY HighBitsOctets
    <3> QED  BY <2>1, <3>1, Zenon DEF HighBitsAre
  <2>3. h # <<>> => size # 0
    BY <2>2, BufferLen
  <2>4. HighOf(h, n)
    BY <1>2, <2>1, <2>2, <2>3 DEF HighOf
  <2> QED  BY <1>2, <2>1, <2>4
<1>3. CASE n = 0
  <2>1. CCNB!HighBits(n) = HighBitsIn(n, 0)
    BY <1>3 DEF CCNB!HighBits, HighBitsIn
  <2>2. 0 \in 0..4
    OBVIOUS
  <2>3. HighBitsIn(n, 0) \in Buffer /\ Len(HighBitsIn(n, 0)) = 0
    BY <2>2, HighBitsOctets DEF HighBitsAre
  <2>4. CCNB!HighValue(HighBitsIn(n, 0)) = n
    BY <1>3, <2>3, HighValueShort
  <2> QED  BY <1>2, <2>1, <2>2, <2>4
<1>4. CASE n # 0 /\ n < 128
  <2>1. CCNB!HighBits(n) = HighBitsIn(n, 1)
    BY <1>4 DEF CCNB!HighBits, HighBitsIn
  <2>2. PICK h : h = HighBitsIn(n, 1)
    OBVIOUS
  <2>s. /\ h \in Buffer /\ Len(h) = 1
        /\ \A k \in 1..1 : h[k] = (n \div CCNB!Sevens[1 - k + 1]) % 128
    <3>1. 1 \in 0..4
      OBVIOUS
    <3>2. HighBitsAre(h, n, 1)
      BY <1>s, <2>2, <3>1
    <3> QED  BY <3>2, Zenon DEF HighBitsAre
  <2>3. h \in Buffer /\ Len(h) = 1 /\ h[1] = (n \div 1) % 128
    BY <1>1, <2>s
  <2>4. CCNB!HighValue(h) = h[1]
    BY <2>3, HighValueShort
  <2>5. h[1] = n
    BY <1>4, <2>3
  <2> QED  BY <1>2, <1>4, <2>1, <2>2, <2>4, <2>5
<1>5. CASE n >= 128 /\ n < 16384
  <2>1. CCNB!HighBits(n) = HighBitsIn(n, 2)
    BY <1>5 DEF CCNB!HighBits, HighBitsIn
  <2>2. PICK h : h = HighBitsIn(n, 2)
    OBVIOUS
  <2>s. /\ h \in Buffer /\ Len(h) = 2
        /\ \A k \in 1..2 : h[k] = (n \div CCNB!Sevens[2 - k + 1]) % 128
    <3>1. 2 \in 0..4
      OBVIOUS
    <3>2. HighBitsAre(h, n, 2)
      BY <1>s, <2>2, <3>1
    <3> QED  BY <3>2, Zenon DEF HighBitsAre
  <2>3. h \in Buffer /\ Len(h) = 2 /\ h[1] = (n \div 128) % 128 /\ h[2] = (n \div 1) % 128
    BY <1>1, <2>s
  <2>4. CCNB!HighValue(h) = 128 * h[1] + h[2]
    BY <2>3, HighValueShort
  <2>5. h[1] # 0 /\ 128 * h[1] + h[2] = n
    BY <1>5, <2>3
  <2> QED  BY <1>2, <2>1, <2>2, <2>4, <2>5
<1>6. CASE n >= 16384 /\ n < 2097152
  <2>1. CCNB!HighBits(n) = HighBitsIn(n, 3)
    BY <1>6 DEF CCNB!HighBits, HighBitsIn
  <2>2. PICK h : h = HighBitsIn(n, 3)
    OBVIOUS
  <2>s. /\ h \in Buffer /\ Len(h) = 3
        /\ \A k \in 1..3 : h[k] = (n \div CCNB!Sevens[3 - k + 1]) % 128
    <3>1. 3 \in 0..4
      OBVIOUS
    <3>2. HighBitsAre(h, n, 3)
      BY <1>s, <2>2, <3>1
    <3> QED  BY <3>2, Zenon DEF HighBitsAre
  <2>3. /\ h \in Buffer /\ Len(h) = 3
        /\ h[1] = (n \div 16384) % 128 /\ h[2] = (n \div 128) % 128 /\ h[3] = (n \div 1) % 128
    BY <1>1, <2>s
  <2>4. CCNB!HighValue(h) = 128 * (128 * h[1] + h[2]) + h[3]
    BY <2>3, HighValueShort
  <2>5. h[1] # 0 /\ 128 * h[1] + h[2] = n \div 128
    BY <1>6, <2>3
  <2>6. 128 * (n \div 128) + h[3] = n
    BY <1>6, <2>3
  <2> QED  BY <1>2, <2>1, <2>2, <2>4, <2>5, <2>6
<1>7. CASE n >= 2097152
  <2>1. CCNB!HighBits(n) = HighBitsIn(n, 4)
    BY <1>7 DEF CCNB!HighBits, HighBitsIn
  <2>2. PICK h : h = HighBitsIn(n, 4)
    OBVIOUS
  <2>s. /\ h \in Buffer /\ Len(h) = 4
        /\ \A k \in 1..4 : h[k] = (n \div CCNB!Sevens[4 - k + 1]) % 128
    <3>1. 4 \in 0..4
      OBVIOUS
    <3>2. HighBitsAre(h, n, 4)
      BY <1>s, <2>2, <3>1
    <3> QED  BY <3>2, Zenon DEF HighBitsAre
  <2>3. /\ h \in Buffer /\ Len(h) = 4
        /\ h[1] = (n \div 2097152) % 128 /\ h[2] = (n \div 16384) % 128
        /\ h[3] = (n \div 128) % 128 /\ h[4] = (n \div 1) % 128
    BY <1>1, <2>s
  <2>4. CCNB!HighValue(h) = 128 * (128 * (128 * h[1] + h[2]) + h[3]) + h[4]
    BY <2>3, HighValueShort
  <2>5. h[1] # 0 /\ 128 * h[1] + h[2] = n \div 16384
    BY <1>7, <2>3 DEF HighFits
  <2>6. 128 * (n \div 16384) + h[3] = n \div 128
    BY <1>7, <2>3
  <2>7. 128 * (n \div 128) + h[4] = n
    BY <1>7, <2>3
  <2> QED  BY <1>2, <2>1, <2>2, <2>4, <2>5, <2>6, <2>7
<1> QED  BY <1>3, <1>4, <1>5, <1>6, <1>7

(* A header is its high bits and an octet o of the other four with the type. *)
Heads(h, o, num, tt) ==
  /\ HighOf(h, num \div 16) /\ o \in Octet /\ o >= 128
  /\ (o \div 8) % 16 = num % 16 /\ o % 8 = tt

LEMMA CcnbHeader ==
  ASSUME NEW num \in Count, NEW tt \in 0..7
  PROVE  \E h, o : CCNB!Header(num, tt) = h \o <<o>> /\ Heads(h, o, num, tt)
<1>1. num \in Nat /\ num \div 16 \in Nat /\ HighFits(num \div 16)
  BY SMT DEF Count, HighFits
<1>2. PICK h : h = CCNB!HighBits(num \div 16)
  OBVIOUS
<1>3. HighOf(h, num \div 16)
  BY <1>1, <1>2, CcnbHighBits
<1>4. PICK o : o = 128 + 8 * (num % 16) + tt
  OBVIOUS
<1>5. o \in Octet /\ o >= 128 /\ (o \div 8) % 16 = num % 16 /\ o % 8 = tt
  <2>1. PICK f \in 0..15 : f = num % 16
    BY <1>1
  <2>2. o = 128 + 8 * f + tt
    BY <1>4, <2>1
  <2>3. o \in Octet /\ o >= 128
    BY <2>2 DEF Octet
  <2>4. o \div 8 = 16 + f /\ o % 8 = tt
    BY <2>2
  <2> QED  BY <2>1, <2>3, <2>4
<1>6. CCNB!Header(num, tt) = h \o <<o>>
  BY <1>2, <1>4 DEF CCNB!Header
<1>7. Heads(h, o, num, tt)
  BY <1>3, <1>5 DEF Heads
<1> QED  BY <1>6, <1>7

(* Whatever the number, a header has one octet to five. *)
LEMMA CcnbHeaderOctets ==
  ASSUME NEW num \in Nat, NEW tt \in 0..7
  PROVE  CCNB!Header(num, tt) \in Buffer /\ Len(CCNB!Header(num, tt)) \in 1..5
<1>1. PICK h, o : h = CCNB!HighBits(num \div 16) /\ o = 128 + 8 * (num % 16) + tt
  OBVIOUS
<1>2. h \in Buffer /\ Len(h) \in 0..4 /\ o \in Octet
  <2>1. PICK n \in Nat : n = num \div 16
    OBVIOUS
  <2>2. PICK size \in 0..4 : CCNB!HighBits(n) = HighBitsIn(n, size)
    <3>1. CCNB!HighBits(n) = HighBitsIn(n, IF n = 0 THEN 0 ELSE IF n < 128 THEN 1 ELSE IF n < 16384 THEN 2
                                           ELSE IF n < 2097152 THEN 3 ELSE 4)
      BY DEF CCNB!HighBits, HighBitsIn
    <3>2. (IF n = 0 THEN 0 ELSE IF n < 128 THEN 1 ELSE IF n < 16384 THEN 2
           ELSE IF n < 2097152 THEN 3 ELSE 4) \in 0..4
      OBVIOUS
    <3> QED  BY <3>1, <3>2
  <2>3. HighBitsIn(n, size) \in Buffer /\ Len(HighBitsIn(n, size)) = size
    BY HighBitsOctets DEF HighBitsAre
  <2>4. o \in Octet
    <3>1. PICK f \in 0..15 : f = num % 16
      OBVIOUS
    <3>2. o = 128 + 8 * f + tt
      BY <1>1, <3>1
    <3> QED  BY <3>2 DEF Octet
  <2> QED  BY <1>1, <2>1, <2>2, <2>3, <2>4, Zenon
<1>3. <<o>> \in Buffer /\ Len(<<o>>) = 1
  BY <1>2 DEF Buffer
<1>4. h \o <<o>> \in Buffer /\ Len(h \o <<o>>) = Len(h) + 1
  BY <1>2, <1>3, BufferConcat
<1>5. Len(h) + 1 \in 1..5
  <2>1. \A n \in 0..4 : n + 1 \in 1..5
    OBVIOUS
  <2> QED  BY <1>2, <2>1, Zenon
<1>6. CCNB!Header(num, tt) = h \o <<o>>
  BY <1>1 DEF CCNB!Header
<1> QED  BY <1>4, <1>5, <1>6, Zenon

LEMMA CcnbHeaderEnd ==
  ASSUME NEW h, NEW o, NEW num, NEW tt, Heads(h, o, num, tt), NEW b \in Buffer, Len(b) >= Len(h) + 1,
         \A k \in 1..Len(h) : b[k] = h[k], b[Len(h) + 1] = o
  PROVE  CCNB!HeaderEnd(b) = {Len(h) + 1} /\ b # <<>> /\ b[1] # 0
<1>1. PICK m \in 0..4 : m = Len(h)
  BY DEF Heads, HighOf
<1>2. (\A k \in 1..m : b[k] = h[k] /\ b[k] < 128) /\ b[m + 1] = o /\ o >= 128 /\ o \in Nat
  BY <1>1, OctetIsNat, SMTT(30) DEF Heads, HighOf
<1>3. Len(b) \in Nat /\ Len(b) >= m + 1
  BY <1>1, BufferLen
<1>4. \A k \in 1..m : ~ (b[k] >= 128)
  <2>1. ASSUME NEW k \in 1..m PROVE ~ (b[k] >= 128)
    <3>1. k \in 1..Len(b)
      BY <1>3
    <3>2. b[k] \in Nat
      BY <3>1, BufferElement
    <3> QED  BY <1>2, <3>2
  <2> QED  BY <2>1
<1>5. PICK l \in Nat : l = IF Len(b) < 8 THEN Len(b) ELSE 8
  BY <1>3
<1>6. m + 1 =< l
  BY <1>3, <1>5
<1>7. CCNB!HeaderEnd(b) = {i \in 1..l : b[i] >= 128 /\ \A j \in 1..i - 1 : b[j] < 128}
  BY <1>5, Zenon DEF CCNB!HeaderEnd
<1>8. \A i \in 1..l : (b[i] >= 128 /\ \A j \in 1..i - 1 : b[j] < 128) <=> i = m + 1
  <2>1. ASSUME NEW i \in 1..l, b[i] >= 128, \A j \in 1..i - 1 : b[j] < 128 PROVE i = m + 1
    <3>1. i > m
      BY <1>4, <2>1
    <3>2. ASSUME i > m + 1 PROVE FALSE
      <4>1. m + 1 \in 1..i - 1
        BY <3>2
      <4>2. o < 128
        BY <1>2, <2>1, <4>1
      <4> QED  BY <1>2, <4>2
    <3> QED  BY <3>1, <3>2
  <2>2. ASSUME NEW i \in 1..l, i = m + 1 PROVE b[i] >= 128 /\ \A j \in 1..i - 1 : b[j] < 128
    BY <1>2, <2>2
  <2> QED  BY <2>1, <2>2
<1>9. m + 1 \in 1..l
  BY <1>6
<1>10. CCNB!HeaderEnd(b) = {m + 1}
  <2> DEFINE A(i) == b[i] >= 128 /\ \A j \in 1..i - 1 : b[j] < 128
  <2>1. \A i \in 1..l : A(i) <=> i = m + 1
    BY <1>8
  <2>2. CCNB!HeaderEnd(b) = {i \in 1..l : A(i)}
    BY <1>7
  <2> HIDE DEF A
  <2> QED  BY <1>9, <2>1, <2>2
<1>11. b # <<>>
  BY <1>3, BufferLen
<1>12. b[1] # 0
  <2>1. CASE m = 0
    BY <1>2, <2>1
  <2>2. CASE m # 0
    <3>1. 1 \in 1..m
      BY <2>2
    <3>2. h \in Buffer /\ h # <<>>
      BY <1>1, <2>2, BufferLen DEF Heads, HighOf
    <3>3. h[1] # 0
      BY <3>2 DEF Heads, HighOf
    <3> QED  BY <1>2, <3>1, <3>3
  <2> QED  BY <2>1, <2>2
<1> QED  BY <1>1, <1>10, <1>11, <1>12

(* A header is read as it was written. *)
LEMMA CcnbDehead ==
  ASSUME NEW num \in Count, NEW tt \in 0..7, NEW r \in Buffer
  PROVE  CCNB!Dehead(CCNB!Header(num, tt) \o r) = {[num |-> num, tt |-> tt, rest |-> r]}
<1>1. PICK h, o : CCNB!Header(num, tt) = h \o <<o>> /\ Heads(h, o, num, tt)
  BY CcnbHeader, Zenon
<1>2. PICK m : m = Len(h)
  OBVIOUS
<1>3. h \in Buffer /\ m \in 0..4 /\ o \in Octet /\ o >= 128 /\ CCNB!HighValue(h) = num \div 16
  BY <1>1, <1>2 DEF Heads, HighOf
<1>4. <<o>> \in Buffer /\ Len(<<o>>) = 1
  BY <1>3 DEF Buffer
<1>5. PICK e : e = <<o>> \o r
  OBVIOUS
<1>6. e \in Buffer /\ e[1] = o /\ Len(e) = Len(r) + 1 /\ Len(r) \in Nat
  BY <1>3, <1>5, OneOctet, BufferLen
<1>7. PICK b : b = h \o e
  OBVIOUS
<1>8. b \in Buffer /\ Len(b) = m + Len(e) /\ \A k \in 1..m : b[k] = h[k]
  BY <1>2, <1>3, <1>6, <1>7, BufferConcat
<1>9. b[m + 1] = o
  <2>1. \A k \in 1..Len(e) : b[m + k] = e[k]
    BY <1>2, <1>3, <1>6, <1>7, BufferConcat
  <2>2. 1 \in 1..Len(e)
    BY <1>6
  <2> QED  BY <1>6, <2>1, <2>2
<1>10. Len(b) >= m + 1
  BY <1>3, <1>6, <1>8
<1>11. CCNB!HeaderEnd(b) = {m + 1} /\ b # <<>> /\ b[1] # 0
  BY <1>1, <1>2, <1>8, <1>9, <1>10, CcnbHeaderEnd
<1>12. CCNB!Take(b, m) = h
  BY <1>2, <1>3, <1>6, <1>7, TakeDrop, CcnbOctets
<1>13. (h \o <<o>>) \o r = b
  <2>1. (h \o <<o>>) \o r = h \o (<<o>> \o r)
    BY <1>3, <1>4, BufferAssociative
  <2> QED  BY <1>5, <1>7, <2>1, Zenon
<1>14. CCNB!Drop(b, m + 1) = r
  <2>1. h \o <<o>> \in Buffer /\ Len(h \o <<o>>) = m + 1
    BY <1>2, <1>3, <1>4, BufferConcat
  <2>2. Drop((h \o <<o>>) \o r, m + 1) = r
    BY <2>1, TakeDrop
  <2> QED  BY <1>13, <2>2, CcnbOctets
<1>15. PICK f : f = [num |-> num, tt |-> tt, rest |-> r]
  OBVIOUS
<1> DEFINE at(i) == [num |-> 16 * CCNB!HighValue(CCNB!Take(b, i - 1)) + ((b[i] \div 8) % 16), tt |-> b[i] % 8,
                     rest |-> CCNB!Drop(b, i)]
<1>16. CCNB!Dehead(b) = {at(i) : i \in CCNB!HeaderEnd(b)}
  BY <1>11, Zenon DEF CCNB!Dehead
<1>17. at(m + 1) = f
  <2>1. (m + 1) - 1 = m
    BY <1>3
  <2>2. CCNB!HighValue(CCNB!Take(b, (m + 1) - 1)) = num \div 16
    BY <1>3, <1>12, <2>1
  <2>3. (b[m + 1] \div 8) % 16 = num % 16 /\ b[m + 1] % 8 = tt
    BY <1>1, <1>9 DEF Heads
  <2>4. 16 * (num \div 16) + (num % 16) = num
    <3>1. num \in Nat
      BY SMT DEF Count
    <3> QED  BY <3>1
  <2>5. 16 * CCNB!HighValue(CCNB!Take(b, (m + 1) - 1)) + ((b[m + 1] \div 8) % 16) = num
    BY <2>2, <2>3, <2>4, Zenon
  <2>6. PICK x, y, z : /\ x = 16 * CCNB!HighValue(CCNB!Take(b, (m + 1) - 1)) + ((b[m + 1] \div 8) % 16)
                       /\ y = b[m + 1] % 8 /\ z = CCNB!Drop(b, m + 1)
    OBVIOUS
  <2>7. x = num /\ y = tt /\ z = r
    BY <1>14, <2>3, <2>5, <2>6, Zenon
  <2>8. at(m + 1) = [num |-> x, tt |-> y, rest |-> z]
    BY <2>6, Zenon
  <2> QED  BY <1>15, <2>7, <2>8, Zenon
<1> HIDE DEF at
<1>18. CCNB!Dehead(b) = {f}
  BY <1>11, <1>16, <1>17
<1> QED  BY <1>1, <1>13, <1>15, <1>18, Zenon

(* An end is read as one. *)
LEMMA CcnbDeheadEnd ==
  ASSUME NEW r \in Buffer
  PROVE  /\ CCNB!Dehead(<<0>> \o r) = {[num |-> 0, tt |-> 0, rest |-> r]}
         /\ <<0>> \in Buffer /\ Len(<<0>>) = 1 /\ <<0>> \o r \in Buffer /\ Len(<<0>> \o r) = Len(r) + 1
         /\ Tail(<<0>> \o r) = r
<1>1. 0 \in Octet
  BY DEF Octet
<1>2. PICK b : b = <<0>> \o r
  OBVIOUS
<1>3. /\ <<0>> \in Buffer /\ Len(<<0>>) = 1 /\ b[1] = 0 /\ Tail(b) = r
      /\ b \in Buffer /\ b # <<>> /\ Len(b) = Len(r) + 1
  BY <1>1, <1>2, OneOctet
<1>4. CCNB!Dehead(b) = {[num |-> 0, tt |-> 0, rest |-> Tail(b)]}
  BY <1>3, Zenon DEF CCNB!Dehead
<1> QED  BY <1>2, <1>3, <1>4, Zenon

-----------------------------------------------------------------------------
(***************************************************************************)
(* CCNb: blocks and blobs.                                                 *)
(***************************************************************************)
Hunting(v, b, o) == [val |-> v, rest |-> b, open |-> o]

IsHunting(s, v, b, o) == s = Hunting(v, b, o)

LEMMA HuntingOn ==
  ASSUME NEW s, NEW v, NEW b, NEW o, IsHunting(s, v, b, o)
  PROVE  /\ s.val = v /\ s.rest = b /\ s.open = o
         /\ \A w, c : [s EXCEPT !.val = w, !.rest = c] = Hunting(w, c, o)
         /\ \A c, p : [s EXCEPT !.rest = c, !.open = p] = Hunting(v, c, p)
<1>0. s = [val |-> v, rest |-> b, open |-> o]
  BY Zenon DEF IsHunting, Hunting
<1>1. s.val = v /\ s.rest = b /\ s.open = o
  BY <1>0
<1>2. ASSUME NEW w, NEW c PROVE [s EXCEPT !.val = w, !.rest = c] = Hunting(w, c, o)
  <2>1. [s EXCEPT !.val = w] = [val |-> w, rest |-> b, open |-> o]
    BY <1>0
  <2>2. [[val |-> w, rest |-> b, open |-> o] EXCEPT !.rest = c] = [val |-> w, rest |-> c, open |-> o]
    OBVIOUS
  <2> QED  BY <2>1, <2>2, Zenon DEF Hunting
<1>3. ASSUME NEW c, NEW p PROVE [s EXCEPT !.rest = c, !.open = p] = Hunting(v, c, p)
  <2>1. [s EXCEPT !.rest = c] = [val |-> v, rest |-> c, open |-> o]
    BY <1>0
  <2>2. [[val |-> v, rest |-> c, open |-> o] EXCEPT !.open = p] = [val |-> v, rest |-> c, open |-> p]
    OBVIOUS
  <2> QED  BY <2>1, <2>2, Zenon DEF Hunting
<1> QED  BY <1>1, <1>2, <1>3, Zenon

LEMMA CcnbBlobOctets ==
  ASSUME NEW c \in Buffer
  PROVE  /\ CCNB!Blob(c) \in Buffer /\ Len(CCNB!Blob(c)) > Len(c)
         /\ \A r \in Buffer : CCNB!Blob(c) \o r = CCNB!Header(Len(c), 5) \o (c \o r)
<1>1. PICK h : h = CCNB!Header(Len(c), 5)
  OBVIOUS
<1>2. 5 \in 0..7 /\ Len(c) \in Nat
  BY BufferLen
<1>3. h \in Buffer /\ Len(h) \in 1..5
  BY <1>1, <1>2, CcnbHeaderOctets
<1>4. CCNB!Blob(c) = h \o c
  BY <1>1, CcnbTypes DEF CCNB!Blob
<1>5. h \o c \in Buffer /\ Len(h \o c) = Len(h) + Len(c)
  BY <1>3, BufferConcat
<1>6. Len(h) + Len(c) > Len(c)
  <2>1. Len(c) \in Nat
    BY BufferLen
  <2>2. \A i \in 1..5, n \in Nat : i + n > n
    OBVIOUS
  <2> QED  BY <1>3, <2>1, <2>2, Zenon
<1>7. \A r \in Buffer : (h \o c) \o r = h \o (c \o r)
  BY <1>3, BufferAssociative
<1> QED  BY <1>1, <1>4, <1>5, <1>6, <1>7

LEMMA CcnbBlockOctets ==
  ASSUME NEW tag \in Count, NEW b \in Buffer
  PROVE  /\ CCNB!Block(tag, b) \in Buffer /\ Len(CCNB!Block(tag, b)) >= Len(b) + 2
         /\ \A r \in Buffer : /\ CCNB!Block(tag, b) \o r = CCNB!Header(tag, 2) \o (b \o (<<0>> \o r))
                              /\ b \o (<<0>> \o r) \in Buffer /\ <<0>> \o r \in Buffer
<1>1. PICK h : h = CCNB!Header(tag, 2)
  OBVIOUS
<1>2. 2 \in 0..7 /\ tag \in Nat
  BY SMT DEF Count
<1>3. h \in Buffer /\ Len(h) \in 1..5
  BY <1>1, <1>2, CcnbHeaderOctets
<1>4. PICK e : e = <<0>>
  OBVIOUS
<1>5. e \in Buffer /\ Len(e) = 1
  BY <1>4, BufferEmpty, CcnbDeheadEnd
<1>6. CCNB!Block(tag, b) = (h \o b) \o e
  BY <1>1, <1>4, CcnbTypes DEF CCNB!Block
<1>7. h \o b \in Buffer /\ Len(h \o b) = Len(h) + Len(b)
  BY <1>3, BufferConcat
<1>8. (h \o b) \o e \in Buffer /\ Len((h \o b) \o e) = (Len(h) + Len(b)) + 1
  <2>1. PICK g : g = h \o b
    OBVIOUS
  <2>2. g \in Buffer /\ Len(g) = Len(h) + Len(b)
    BY <1>7, <2>1, Zenon
  <2>3. g \o e \in Buffer /\ Len(g \o e) = Len(g) + Len(e)
    BY <1>5, <2>2, BufferConcat
  <2> QED  BY <1>5, <2>1, <2>2, <2>3, Zenon
<1>9. (Len(h) + Len(b)) + 1 >= Len(b) + 2
  <2>1. Len(b) \in Nat
    BY BufferLen
  <2>2. \A i \in 1..5, n \in Nat : (i + n) + 1 >= n + 2
    OBVIOUS
  <2> QED  BY <1>3, <2>1, <2>2, Zenon
<1>10. ASSUME NEW r \in Buffer
       PROVE  ((h \o b) \o e) \o r = h \o (b \o (e \o r)) /\ b \o (e \o r) \in Buffer /\ e \o r \in Buffer
  <2>1. e \o r \in Buffer
    BY <1>5, BufferConcat
  <2>2. b \o (e \o r) \in Buffer
    BY <2>1, BufferConcat
  <2>3. ((h \o b) \o e) \o r = (h \o b) \o (e \o r)
    BY <1>5, <1>7, BufferAssociative
  <2>4. (h \o b) \o (e \o r) = h \o (b \o (e \o r))
    BY <1>3, <2>1, BufferAssociative
  <2> QED  BY <2>1, <2>2, <2>3, <2>4, Zenon
<1> QED  BY <1>1, <1>4, <1>6, <1>8, <1>9, <1>10, Zenon

BlockBefore(tag, b, r) ==
  /\ CCNB!Block(tag, b) \o r = CCNB!Header(tag, 2) \o (b \o (<<0>> \o r))
  /\ b \o (<<0>> \o r) \in Buffer

LEMMA CcnbBlockBefore ==
  ASSUME NEW tag \in Count, NEW b \in Buffer, NEW r \in Buffer
  PROVE  BlockBefore(tag, b, r)
BY CcnbBlockOctets DEF BlockBefore

(* The turns over a blob, over an end, and when all is ended *)
LEMMA CcnbPassBlob ==
  ASSUME NEW c \in Buffer, Len(c) \in Count, NEW r \in Buffer, NEW v, NEW o \in Nat \ {0}
  PROVE  CCNB!HuntTurn(Hunting(v, CCNB!Blob(c) \o r, o)) = {Hunting(c, r, o)}
<1>1. PICK n, d, b : n = Len(c) /\ d = c \o r /\ b = CCNB!Blob(c) \o r
  OBVIOUS
<1>2. d \in Buffer /\ Len(d) = n + Len(r) /\ n \in Nat /\ Len(r) \in Nat
  BY <1>1, BufferConcat, BufferLen
<1>3. b = CCNB!Header(n, 5) \o d
  BY <1>1, CcnbBlobOctets
<1>4. PICK h : h = [num |-> n, tt |-> 5, rest |-> d]
  OBVIOUS
<1>5. CCNB!Dehead(b) = {h}
  <2>1. 5 \in 0..7 /\ n \in Count
    BY <1>1
  <2> QED  BY <1>2, <1>3, <1>4, <2>1, CcnbDehead
<1>6. h.num = n /\ h.tt = 5 /\ h.rest = d
  BY <1>4
<1>7. CCNB!Take(d, n) = c /\ CCNB!Drop(d, n) = r
  BY <1>1, TakeDrop, CcnbOctets
<1>8. PICK s : s = Hunting(v, b, o)
  OBVIOUS
<1>h. IsHunting(s, v, b, o)
  BY <1>8, Zenon DEF IsHunting
<1>9. s.open = o /\ s.rest = b /\ o # 0
  <2>1. s.open = o /\ s.rest = b
    BY <1>h, HuntingOn, Zenon
  <2> QED  BY <2>1
<1>10. ~ CCNB!IsEnd(h)
  BY <1>6 DEF CCNB!IsEnd
<1>11. n =< Len(d)
  BY <1>2
<1>12. CCNB!Pass(s, h) = {[s EXCEPT !.val = c, !.rest = r]}
  <2>1. h.tt \in {CCNB!TT.BLOB, CCNB!TT.UDATA} /\ h.tt \notin {CCNB!TT.DTAG, CCNB!TT.DATTR}
    BY <1>6, CcnbTypes
  <2>2. CCNB!Pass(s, h) = CCNB!Only([s EXCEPT !.val = CCNB!Take(h.rest, h.num), !.rest = CCNB!Drop(h.rest, h.num)],
                                    h.num =< Len(h.rest))
    BY <2>1, SMT DEF CCNB!Pass
  <2> QED  BY <1>6, <1>7, <1>11, <2>2, Zenon DEF CCNB!Only
<1>13. [s EXCEPT !.val = c, !.rest = r] = Hunting(c, r, o)
  BY <1>h, HuntingOn, ZenonT(60)
<1>14. CCNB!HuntTurn(s) = CCNB!Pass(s, h)
  <2> DEFINE X(g) == IF CCNB!IsEnd(g) THEN {[s EXCEPT !.rest = g.rest, !.open = @ - 1]} ELSE CCNB!Pass(s, g)
  <2>1. CCNB!HuntTurn(s) = UNION {X(g) : g \in CCNB!Dehead(s.rest)}
    BY <1>9, Zenon DEF CCNB!HuntTurn, CCNB!AndThen
  <2>2. X(h) = CCNB!Pass(s, h)
    BY <1>10, Zenon
  <2> HIDE DEF X
  <2>3. UNION {X(g) : g \in {h}} = X(h)
    OBVIOUS
  <2> QED  BY <1>5, <1>9, <2>1, <2>2, <2>3, Zenon
<1> QED  BY <1>1, <1>8, <1>12, <1>13, <1>14, Zenon

LEMMA CcnbPassEnd ==
  ASSUME NEW r \in Buffer, NEW v, NEW o \in Nat \ {0}
  PROVE  CCNB!HuntTurn(Hunting(v, <<0>> \o r, o)) = {Hunting(v, r, o - 1)}
<1>1. PICK b : b = <<0>> \o r
  OBVIOUS
<1>2. PICK h : h = [num |-> 0, tt |-> 0, rest |-> r]
  OBVIOUS
<1>3. CCNB!Dehead(b) = {h}
  BY <1>1, <1>2, CcnbDeheadEnd
<1>4. CCNB!IsEnd(h) /\ h.rest = r
  BY <1>2 DEF CCNB!IsEnd
<1>5. PICK s : s = Hunting(v, b, o)
  OBVIOUS
<1>h. IsHunting(s, v, b, o)
  BY <1>5, Zenon DEF IsHunting
<1>6. s.open = o /\ s.rest = b /\ o # 0
  <2>1. s.open = o /\ s.rest = b
    BY <1>h, HuntingOn, Zenon
  <2> QED  BY <2>1
<1>7. [s EXCEPT !.rest = r, !.open = @ - 1] = Hunting(v, r, o - 1)
  <2> DEFINE p == o - 1
  <2> HIDE DEF p
  <2>0. \A c, q : [s EXCEPT !.rest = c, !.open = q] = Hunting(v, c, q)
    BY <1>h, HuntingOn, Zenon
  <2>1. [s EXCEPT !.rest = r, !.open = p] = Hunting(v, r, p)
    BY <2>0, Zenon
  <2> QED  BY <1>6, <2>1, Zenon DEF p
<1>8. CCNB!HuntTurn(s) = {[s EXCEPT !.rest = r, !.open = @ - 1]}
  <2> DEFINE X(g) == IF CCNB!IsEnd(g) THEN {[s EXCEPT !.rest = g.rest, !.open = @ - 1]} ELSE CCNB!Pass(s, g)
  <2>1. CCNB!HuntTurn(s) = UNION {X(g) : g \in CCNB!Dehead(s.rest)}
    BY <1>6, Zenon DEF CCNB!HuntTurn, CCNB!AndThen
  <2>2. X(h) = {[s EXCEPT !.rest = r, !.open = @ - 1]}
    BY <1>4, Zenon
  <2> HIDE DEF X
  <2>3. UNION {X(g) : g \in {h}} = X(h)
    OBVIOUS
  <2> QED  BY <1>3, <1>6, <2>1, <2>2, <2>3, Zenon
<1> QED  BY <1>1, <1>5, <1>7, <1>8, Zenon

LEMMA CcnbPassed == ASSUME NEW v, NEW b PROVE CCNB!HuntTurn(Hunting(v, b, 0)) = {Hunting(v, b, 0)}
<1>1. PICK s : s = Hunting(v, b, 0)
  OBVIOUS
<1>2. s.open = 0
  BY <1>1 DEF Hunting
<1>3. CCNB!HuntTurn(s) = {s}
  BY <1>2, Zenon DEF CCNB!HuntTurn
<1> QED  BY <1>1, <1>3, Zenon

(* The blob in a block is read, and what follows the block is left. *)
LEMMA CcnbHuntBlob ==
  ASSUME NEW c \in Buffer, Len(c) \in Count, NEW r \in Buffer, NEW v
  PROVE  CCNB!HuntForEnd(CCNB!Blob(c) \o (<<0>> \o r), v) = {Hunting(c, r, 0)}
<1>1. PICK e : e = <<0>> \o r
  OBVIOUS
<1>2. e \in Buffer /\ Len(e) = Len(r) + 1 /\ Len(r) \in Nat
  BY <1>1, BufferLen, CcnbDeheadEnd
<1>3. PICK b : b = CCNB!Blob(c) \o e
  OBVIOUS
<1>4. b \in Buffer /\ Len(b) \in Nat /\ Len(b) >= 2
  <2>1. CCNB!Blob(c) \in Buffer /\ Len(CCNB!Blob(c)) > Len(c)
    BY CcnbBlobOctets
  <2>2. b \in Buffer /\ Len(b) = Len(CCNB!Blob(c)) + Len(e)
    BY <1>2, <1>3, <2>1, BufferConcat
  <2>3. Len(c) \in Nat /\ Len(CCNB!Blob(c)) \in Nat
    BY <2>1, BufferLen
  <2> QED  BY <1>2, <2>1, <2>2, <2>3
<1> DEFINE S == [k \in 0..2 |-> IF k = 0 THEN Hunting(v, b, 1) ELSE IF k = 1 THEN Hunting(c, e, 1) ELSE Hunting(c, r, 0)]
<1>5. S[0] = Hunting(v, b, 1) /\ S[1] = Hunting(c, e, 1) /\ S[2] = Hunting(c, r, 0)
  OBVIOUS
<1> HIDE DEF S
<1>6. CCNB!HuntTurn(S[0]) = {S[1]}
  BY <1>2, <1>3, <1>5, CcnbPassBlob
<1>7. CCNB!HuntTurn(S[1]) = {S[2]}
  <2>1. CCNB!HuntTurn(Hunting(c, e, 1)) = {Hunting(c, r, 1 - 1)}
    BY <1>1, CcnbPassEnd
  <2>2. 1 - 1 = 0
    OBVIOUS
  <2> QED  BY <1>5, <2>1, <2>2
<1>8. CCNB!HuntTurn(S[2]) = {S[2]}
  BY <1>5, CcnbPassed
<1>9. CCNB!Loop(CCNB!HuntTurn, S[0], Len(b)) = {S[2]}
  <2>1. \A k \in 0..2 - 1 : CCNB!HuntTurn(S[k]) = {S[k + 1]}
    <3>1. \A k \in 0..2 - 1 : k = 0 \/ k = 1
      OBVIOUS
    <3>2. 0 + 1 = 1 /\ 1 + 1 = 2
      OBVIOUS
    <3> QED  BY <1>6, <1>7, <3>1, <3>2, Zenon
  <2>2. 2 \in 0..Len(b)
    BY <1>4
  <2>3. Len(b) \in Nat
    BY <1>4
  <2> QED  BY <1>8, <2>1, <2>2, <2>3, CcnbHunts, ZenonT(60)
<1>10. S[0].rest = b /\ S[2].open = 0 /\ S[0] = [val |-> v, rest |-> b, open |-> 1]
  BY <1>5 DEF Hunting
<1>11. CCNB!Hunt(S[0]) = {S[2]}
  <2>1. CCNB!Hunt(S[0]) = {t \in CCNB!Loop(CCNB!HuntTurn, S[0], Len(S[0].rest)) : t.open = 0}
    BY Zenon DEF CCNB!Hunt
  <2>2. {t \in {S[2]} : t.open = 0} = {S[2]}
    BY <1>10, Zenon
  <2> QED  BY <1>9, <1>10, <2>1, <2>2, Zenon
<1>12. CCNB!HuntForEnd(b, v) = CCNB!Hunt(S[0])
  BY <1>10, Zenon DEF CCNB!HuntForEnd
<1> QED  BY <1>1, <1>3, <1>5, <1>11, <1>12, Zenon

LEMMA CcnbConsumeBlock ==
  ASSUME NEW h, h.tt = 2, NEW v
  PROVE  CCNB!Consume(h, v) = CCNB!HuntForEnd(h.rest, v)
<1>1. PICK s, t : s = [val |-> v, rest |-> h.rest, open |-> 0] /\ t = [val |-> v, rest |-> h.rest, open |-> 1]
  OBVIOUS
<1>2. h.tt \in {CCNB!TT.DTAG, CCNB!TT.DATTR} /\ h.tt \notin {CCNB!TT.BLOB, CCNB!TT.UDATA}
  BY CcnbTypes
<1>3. CCNB!Pass(s, h) = {[s EXCEPT !.rest = h.rest, !.open = @ + 1]}
  BY <1>2, Zenon DEF CCNB!Pass
<1>4. [s EXCEPT !.rest = h.rest, !.open = @ + 1] = t
  <2>1. s = Hunting(v, h.rest, 0) /\ t = Hunting(v, h.rest, 1)
    BY <1>1, Zenon DEF Hunting
  <2>h. IsHunting(s, v, h.rest, 0)
    BY <2>1, Zenon DEF IsHunting
  <2>2. s.open + 1 = 1
    <3>1. s.open = 0
      BY <2>h, HuntingOn, Zenon
    <3> QED  BY <3>1
  <2>3. [s EXCEPT !.rest = h.rest, !.open = 1] = t
    <3>1. \A c, p : [s EXCEPT !.rest = c, !.open = p] = Hunting(v, c, p)
      BY <2>h, HuntingOn, Zenon
    <3>2. [s EXCEPT !.rest = h.rest, !.open = 1] = Hunting(v, h.rest, 1)
      BY <3>1, Zenon
    <3> QED  BY <2>1, <3>2, Zenon
  <2> QED  BY <2>2, <2>3, Zenon
<1>5. CCNB!Consume(h, v) = UNION {CCNB!Hunt(u) : u \in CCNB!Pass(s, h)}
  BY <1>1, Zenon DEF CCNB!Consume, CCNB!AndThen
<1>6. UNION {CCNB!Hunt(u) : u \in {t}} = CCNB!Hunt(t)
  <2> DEFINE X(u) == CCNB!Hunt(u)
  <2> HIDE DEF X
  <2>1. UNION {X(u) : u \in {t}} = X(t)
    OBVIOUS
  <2> QED  BY <2>1, Zenon DEF X
<1>7. CCNB!HuntForEnd(h.rest, v) = CCNB!Hunt(t)
  BY <1>1, Zenon DEF CCNB!HuntForEnd
<1> QED  BY <1>3, <1>4, <1>5, <1>6, <1>7, Zenon

-----------------------------------------------------------------------------
(***************************************************************************)
(* CCNb: names.                                                            *)
(***************************************************************************)
Naming(cs, b, d) == [comps |-> cs, rest |-> b, done |-> d]
IsNaming(s, cs, b, d) == s = Naming(cs, b, d)

LEMMA NamingOn ==
  ASSUME NEW s, NEW cs, NEW b, NEW d, IsNaming(s, cs, b, d)
  PROVE  /\ s.comps = cs /\ s.rest = b /\ s.done = d
         /\ \A c, x : [s EXCEPT !.rest = c, !.comps = x] = Naming(x, c, d)
         /\ \A c, x : [s EXCEPT !.rest = c, !.done = x] = Naming(cs, c, x)
<1>0. s = [comps |-> cs, rest |-> b, done |-> d]
  BY Zenon DEF IsNaming, Naming
<1>1. s.comps = cs /\ s.rest = b /\ s.done = d
  BY <1>0
<1>2. ASSUME NEW c, NEW x PROVE [s EXCEPT !.rest = c, !.comps = x] = Naming(x, c, d)
  <2>1. [s EXCEPT !.rest = c] = [comps |-> cs, rest |-> c, done |-> d]
    BY <1>0
  <2>2. [[comps |-> cs, rest |-> c, done |-> d] EXCEPT !.comps = x] = [comps |-> x, rest |-> c, done |-> d]
    OBVIOUS
  <2> QED  BY <2>1, <2>2, Zenon DEF Naming
<1>3. ASSUME NEW c, NEW x PROVE [s EXCEPT !.rest = c, !.done = x] = Naming(cs, c, x)
  <2>1. [s EXCEPT !.rest = c] = [comps |-> cs, rest |-> c, done |-> d]
    BY <1>0
  <2>2. [[comps |-> cs, rest |-> c, done |-> d] EXCEPT !.done = x] = [comps |-> cs, rest |-> c, done |-> x]
    OBVIOUS
  <2> QED  BY <2>1, <2>2, Zenon DEF Naming
<1> QED  BY <1>1, <1>2, <1>3, Zenon

(* A component as it is written *)
CcnbComp(c) == CCNB!Block(15, CCNB!Blob(c))

LEMMA CcnbCompOctets ==
  ASSUME NEW c \in Buffer
  PROVE  CcnbComp(c) \in Buffer /\ Len(CcnbComp(c)) >= 2 /\ Len(CcnbComp(c)) >= Len(c)
<1>1. PICK x : x = CCNB!Blob(c)
  OBVIOUS
<1>2. x \in Buffer /\ Len(x) > Len(c)
  BY <1>1, CcnbBlobOctets
<1>3. 15 \in Count
  BY SmallCount
<1>4. PICK y : y = CCNB!Block(15, x)
  OBVIOUS
<1>5. y \in Buffer /\ Len(y) >= Len(x) + 2
  BY <1>2, <1>3, <1>4, CcnbBlockOctets
<1>6. Len(x) \in Nat /\ Len(y) \in Nat /\ Len(c) \in Nat
  BY <1>2, <1>5, BufferLen
<1>7. Len(y) >= 2 /\ Len(y) >= Len(c)
  BY <1>2, <1>5, <1>6
<1> QED  BY <1>1, <1>4, <1>5, <1>7, Zenon DEF CcnbComp

LEMMA CcnbNameTurn ==
  ASSUME NEW cs, Len(cs) < MaxNameComp, NEW c \in Buffer, Len(c) \in Count, NEW r \in Buffer
  PROVE  CCNB!NameTurn(Naming(cs, CcnbComp(c) \o r, FALSE)) = {Naming(Append(cs, c), r, FALSE)}
<1>1. PICK x : x = CCNB!Blob(c)
  OBVIOUS
<1>2. x \in Buffer
  BY <1>1, CcnbBlobOctets
<1>3. PICK d : d = x \o (<<0>> \o r)
  OBVIOUS
<1>4. 15 \in Count /\ 2 \in 0..7
  BY SmallCount
<1>5. PICK b : b = CcnbComp(c) \o r
  OBVIOUS
<1>6. b = CCNB!Header(15, 2) \o d /\ d \in Buffer
  <2>1. CCNB!Block(15, x) \o r = CCNB!Header(15, 2) \o (x \o (<<0>> \o r)) /\ x \o (<<0>> \o r) \in Buffer
    <3>1. 15 \in Count
      BY <1>4
    <3>2. BlockBefore(15, x, r)
      BY <1>2, <3>1, CcnbBlockBefore
    <3> QED  BY <3>2, Zenon DEF BlockBefore
  <2> QED  BY <1>1, <1>3, <1>5, <2>1, Zenon DEF CcnbComp
<1>7. PICK h : h = [num |-> 15, tt |-> 2, rest |-> d]
  OBVIOUS
<1>8. CCNB!Dehead(b) = {h}
  BY <1>4, <1>6, <1>7, CcnbDehead, Zenon
<1>9. h.num = 15 /\ h.tt = 2 /\ h.rest = d
  BY <1>7
<1>10. PICK t : t = Hunting(c, r, 0)
  OBVIOUS
<1>11. CCNB!HuntForEnd(h.rest, <<>>) = {t}
  BY <1>1, <1>3, <1>9, <1>10, CcnbHuntBlob, Zenon
<1>12. t.val = c /\ t.rest = r
  <2>1. IsHunting(t, c, r, 0)
    BY <1>10, Zenon DEF IsHunting
  <2> QED  BY <2>1, HuntingOn, Zenon
<1>13. PICK s : s = Naming(cs, b, FALSE)
  OBVIOUS
<1>14. IsNaming(s, cs, b, FALSE)
  BY <1>13, Zenon DEF IsNaming
<1>15. s.comps = cs /\ s.rest = b /\ ~ s.done
  BY <1>14, NamingOn, Zenon
<1> DEFINE Z(w) == {[s EXCEPT !.rest = w.rest, !.comps = Append(@, w.val)]}
           X(g) == IF CCNB!IsEnd(g) THEN {[s EXCEPT !.rest = g.rest, !.done = TRUE]}
                   ELSE IF g.tt = CCNB!TT.DTAG /\ g.num = CCNB!DTAG.COMPONENT /\ Len(s.comps) < MaxNameComp
                   THEN UNION {Z(w) : w \in CCNB!HuntForEnd(g.rest, <<>>)}
                   ELSE UNION {{[s EXCEPT !.rest = w.rest]} : w \in CCNB!Consume(g, <<>>)}
<1>16. CCNB!NameTurn(s) = UNION {X(g) : g \in CCNB!Dehead(s.rest)}
  BY <1>15, Zenon DEF CCNB!NameTurn, CCNB!AndThen
<1>17. X(h) = UNION {Z(w) : w \in CCNB!HuntForEnd(h.rest, <<>>)}
  <2>1. ~ CCNB!IsEnd(h)
    BY <1>9 DEF CCNB!IsEnd
  <2>2. h.tt = CCNB!TT.DTAG /\ h.num = CCNB!DTAG.COMPONENT /\ Len(s.comps) < MaxNameComp
    BY <1>9, <1>15, CcnbTypes, Zenon
  <2> QED  BY <2>1, <2>2, Zenon
<1>18. Z(t) = {Naming(Append(cs, c), r, FALSE)}
  <2>1. \A e, y : [s EXCEPT !.rest = e, !.comps = y] = Naming(y, e, FALSE)
    BY <1>14, NamingOn, Zenon
  <2>2. [s EXCEPT !.rest = r, !.comps = Append(cs, c)] = Naming(Append(cs, c), r, FALSE)
    BY <2>1, Zenon
  <2> QED  BY <1>12, <1>15, <2>2, Zenon
<1> HIDE DEF X, Z
<1>19. UNION {Z(w) : w \in {t}} = Z(t)
  OBVIOUS
<1>20. UNION {X(g) : g \in {h}} = X(h)
  OBVIOUS
<1> QED  BY <1>5, <1>8, <1>11, <1>13, <1>15, <1>16, <1>17, <1>18, <1>19, <1>20, Zenon

LEMMA CcnbNameEnd ==
  ASSUME NEW cs, NEW r \in Buffer
  PROVE  /\ CCNB!NameTurn(Naming(cs, <<0>> \o r, FALSE)) = {Naming(cs, r, TRUE)}
         /\ CCNB!NameTurn(Naming(cs, r, TRUE)) = {Naming(cs, r, TRUE)}
<1>1. PICK b : b = <<0>> \o r
  OBVIOUS
<1>2. PICK h : h = [num |-> 0, tt |-> 0, rest |-> r]
  OBVIOUS
<1>3. CCNB!Dehead(b) = {h}
  BY <1>1, <1>2, CcnbDeheadEnd
<1>4. CCNB!IsEnd(h) /\ h.rest = r
  BY <1>2 DEF CCNB!IsEnd
<1>5. PICK s : s = Naming(cs, b, FALSE)
  OBVIOUS
<1>6. IsNaming(s, cs, b, FALSE)
  BY <1>5, Zenon DEF IsNaming
<1>7. s.rest = b /\ ~ s.done
  BY <1>6, NamingOn, Zenon
<1> DEFINE X(g) == IF CCNB!IsEnd(g) THEN {[s EXCEPT !.rest = g.rest, !.done = TRUE]}
                   ELSE IF g.tt = CCNB!TT.DTAG /\ g.num = CCNB!DTAG.COMPONENT /\ Len(s.comps) < MaxNameComp
                   THEN UNION {{[s EXCEPT !.rest = w.rest, !.comps = Append(@, w.val)]} : w \in CCNB!HuntForEnd(g.rest, <<>>)}
                   ELSE UNION {{[s EXCEPT !.rest = w.rest]} : w \in CCNB!Consume(g, <<>>)}
<1>8. CCNB!NameTurn(s) = UNION {X(g) : g \in CCNB!Dehead(s.rest)}
  BY <1>7, Zenon DEF CCNB!NameTurn, CCNB!AndThen
<1>9. X(h) = {Naming(cs, r, TRUE)}
  <2>1. \A e, y : [s EXCEPT !.rest = e, !.done = y] = Naming(cs, e, y)
    BY <1>6, NamingOn, Zenon
  <2>2. [s EXCEPT !.rest = r, !.done = TRUE] = Naming(cs, r, TRUE)
    BY <2>1, Zenon
  <2> QED  BY <1>4, <2>2, Zenon
<1> HIDE DEF X
<1>10. UNION {X(g) : g \in {h}} = X(h)
  OBVIOUS
<1>11. CCNB!NameTurn(s) = {Naming(cs, r, TRUE)}
  BY <1>3, <1>7, <1>8, <1>9, <1>10, Zenon
<1>12. PICK t : t = Naming(cs, r, TRUE)
  OBVIOUS
<1>13. IsNaming(t, cs, r, TRUE)
  BY <1>12, Zenon DEF IsNaming
<1>14. t.done
  BY <1>13, NamingOn, Zenon
<1>15. CCNB!NameTurn(t) = {t}
  BY <1>14, Zenon DEF CCNB!NameTurn
<1> QED  BY <1>1, <1>5, <1>11, <1>12, <1>15, Zenon

(* R[k] is what follows the first k buffers of ss. *)
Rests(ss, R) ==
  /\ R[0] = FlattenSeq(ss) /\ R[Len(ss)] = <<>>
  /\ \A k \in 0..Len(ss) : R[k] \in Buffer
  /\ \A k \in 1..Len(ss) : R[k - 1] = ss[k] \o R[k]

LEMMA HasRests ==
  ASSUME NEW ss \in Seq(Buffer)
  PROVE  \E R : Rests(ss, R)
<1>1. PICK F : Joined(ss, F)
  BY Flattens, Zenon
<1>2. PICK n \in Nat : n = Len(ss)
  OBVIOUS
<1>3. /\ F[0] = <<>> /\ \A k \in 1..n : F[k] = F[k - 1] \o ss[k]
      /\ \A k \in 0..n : F[k] \in Buffer
      /\ FlattenSeq(ss) = F[n]
  BY <1>1, <1>2 DEF Joined
<1>4. \A k \in 1..n : ss[k] \in Buffer
  BY <1>2, ElementOfSeq
<1> DEFINE R == [k \in 0..n |-> Drop(F[n], Len(F[k]))]
<1>5. \A k \in 0..n : R[k] = Drop(F[n], Len(F[k]))
  OBVIOUS
<1> HIDE DEF R
<1>6. ASSUME NEW k \in 0..n, NEW x \in Buffer, F[n] = F[k] \o x PROVE R[k] = x
  <2>1. F[k] \in Buffer
    BY <1>3
  <2>2. Drop(F[k] \o x, Len(F[k])) = x
    BY <2>1, TakeDrop
  <2> QED  BY <1>5, <1>6, <2>2
<1>7. ASSUME NEW k \in 0..n PROVE R[k] \in Buffer /\ F[n] = F[k] \o R[k]
  <2>1. PICK x \in Buffer : F[n] = F[k] \o x
    BY <1>1, <1>2, <1>3, Parts, ZenonT(60)
  <2>2. R[k] = x
    BY <1>6, <2>1
  <2> QED  BY <2>1, <2>2
<1>8. R[0] = FlattenSeq(ss)
  <2>1. 0 \in 0..n /\ n \in 0..n
    BY <1>2
  <2>2. F[n] \in Buffer
    BY <1>3, <2>1
  <2>3. F[n] = F[0] \o F[n]
    BY <1>3, <2>2, BufferEmptyConcat
  <2>4. R[0] = F[n]
    BY <1>6, <2>1, <2>2, <2>3
  <2> QED  BY <1>3, <2>4
<1>9. R[n] = <<>>
  <2>1. n \in 0..n
    BY <1>2
  <2>2. F[n] \in Buffer
    BY <1>3, <2>1
  <2>3. F[n] = F[n] \o <<>>
    BY <2>2, BufferEmptyConcat
  <2> QED  BY <1>6, <2>1, <2>3, BufferEmpty
<1>10. ASSUME NEW k \in 1..n PROVE R[k - 1] = ss[k] \o R[k]
  <2>1. k - 1 \in 0..n /\ k \in 0..n
    OBVIOUS
  <2>2. PICK f, s, x : f = F[k - 1] /\ s = ss[k] /\ x = R[k]
    OBVIOUS
  <2>3. f \in Buffer /\ s \in Buffer /\ x \in Buffer
    BY <1>3, <1>4, <1>7, <2>1, <2>2
  <2>4. F[n] = (f \o s) \o x
    BY <1>3, <1>7, <2>1, <2>2
  <2>5. (f \o s) \o x = f \o (s \o x)
    BY <2>3, BufferAssociative
  <2>6. s \o x \in Buffer
    BY <2>3, BufferConcat
  <2>7. F[n] = F[k - 1] \o (s \o x)
    BY <2>2, <2>4, <2>5, Zenon
  <2> QED  BY <1>6, <2>1, <2>2, <2>6, <2>7
<1>11. Rests(ss, R)
  BY <1>2, <1>7, <1>8, <1>9, <1>10 DEF Rests
<1> QED  BY <1>11

(* Buffers that are not empty together have as many octets as they are. *)
LEMMA RestsLong ==
  ASSUME NEW ss \in Seq(Buffer), \A k \in 1..Len(ss) : Len(ss[k]) >= 1
  PROVE  FlattenSeq(ss) \in Buffer /\ Len(FlattenSeq(ss)) >= Len(ss)
<1>1. PICK F : Joined(ss, F)
  BY Flattens, Zenon
<1>2. PICK n \in Nat : n = Len(ss)
  OBVIOUS
<1>3. /\ F[0] = <<>> /\ \A k \in 1..n : F[k] = F[k - 1] \o ss[k]
      /\ \A k \in 0..n : F[k] \in Buffer
      /\ FlattenSeq(ss) = F[n]
  BY <1>1, <1>2 DEF Joined
<1>4. \A k \in 1..n : ss[k] \in Buffer /\ Len(ss[k]) >= 1
  BY <1>2, ElementOfSeq
<1> DEFINE A == {k \in 0..n : Len(F[k]) >= k}
<1>5. 0 \in A
  BY <1>2, <1>3, BufferEmpty
<1>6. ASSUME NEW k \in 1..n, k - 1 \in A PROVE k \in A
  <2>1. k - 1 \in 0..n /\ k \in 0..n /\ Len(F[k - 1]) >= k - 1
    BY <1>6
  <2>2. PICK f, s, x : f = F[k - 1] /\ s = ss[k] /\ x = F[k]
    OBVIOUS
  <2>3. f \in Buffer /\ s \in Buffer /\ x = f \o s /\ Len(s) >= 1 /\ Len(f) >= k - 1
    BY <1>3, <1>4, <2>1, <2>2
  <2>4. Len(x) = Len(f) + Len(s)
    BY <2>3, BufferConcat
  <2>5. Len(f) \in Nat /\ Len(s) \in Nat
    BY <2>3, BufferLen
  <2>6. Len(x) >= k
    BY <2>3, <2>4, <2>5
  <2> QED  BY <2>1, <2>2, <2>6
<1>7. n \in A
  <2> HIDE DEF A
  <2>1. \A k \in 0..n : k \in A
    BY <1>5, <1>6, UpTo
  <2> QED  BY <2>1
<1> QED  BY <1>2, <1>3, <1>7

(* A name that CCNb packets may have *)
CcnbNamed(comps) == comps \in Seq(Buffer) /\ Len(comps) =< MaxNameComp
CcnbNameBody(comps) == FlattenSeq([k \in 1..Len(comps) |-> CcnbComp(comps[k])])

LEMMA CcnbMkName ==
  ASSUME NEW comps, CcnbNamed(comps)
  PROVE  CCNB!MkName(comps) = CCNB!Block(14, CcnbNameBody(comps))
<1>1. DOMAIN comps = 1..Len(comps)
  BY DEF CcnbNamed
<1>2. PICK d : d = DOMAIN comps
  OBVIOUS
<1>3. CCNB!MkName(comps) = CCNB!Block(CCNB!DTAG.NAME, CCNB!FlattenSeq(
          [k \in d |-> CCNB!Block(CCNB!DTAG.COMPONENT, CCNB!Blob(comps[k]))]))
  BY <1>2, Zenon DEF CCNB!MkName
<1>4. CCNB!DTAG.NAME = 14 /\ CCNB!DTAG.COMPONENT = 15
  BY CcnbTypes
<1>5. CcnbNameBody(comps) = FlattenSeq([k \in d |-> CCNB!Block(15, CCNB!Blob(comps[k]))])
  BY <1>1, <1>2, Zenon DEF CcnbNameBody, CcnbComp
<1> QED  BY <1>3, <1>4, <1>5, CcnbOctets, Zenon

(* The parts of a name as it is written, ss, and what follows each of them, R *)
CcnbWritten(comps, ss, R) ==
  /\ ss \in Seq(Buffer) /\ Len(ss) = Len(comps) /\ CcnbNameBody(comps) = FlattenSeq(ss)
  /\ \A k \in 1..Len(comps) : comps[k] \in Buffer /\ ss[k] = CcnbComp(comps[k])
  /\ Rests(ss, R)

LEMMA CcnbWriting ==
  ASSUME NEW comps, comps \in Seq(Buffer)
  PROVE  /\ \E ss, R : CcnbWritten(comps, ss, R)
         /\ CcnbNameBody(comps) \in Buffer /\ Len(CcnbNameBody(comps)) >= Len(comps)
         /\ \A k \in 1..Len(comps) : Len(comps[k]) =< Len(CcnbNameBody(comps))
<1>1. PICK n \in Nat : n = Len(comps)
  OBVIOUS
<1>2. \A k \in 1..n : comps[k] \in Buffer
  BY <1>1, ElementOfSeq
<1>3. PICK ss : ss = [k \in 1..n |-> CcnbComp(comps[k])]
  OBVIOUS
<1>4. ASSUME NEW k \in 1..n
      PROVE  ss[k] = CcnbComp(comps[k]) /\ ss[k] \in Buffer /\ Len(ss[k]) >= 1 /\ Len(ss[k]) >= Len(comps[k])
  <2>1. ss[k] = CcnbComp(comps[k])
    BY <1>3
  <2>2. PICK c \in Buffer : c = comps[k]
    BY <1>2
  <2>3. CcnbComp(c) \in Buffer /\ Len(CcnbComp(c)) >= 2 /\ Len(CcnbComp(c)) >= Len(c)
    BY CcnbCompOctets
  <2>4. PICK x : x = CcnbComp(c)
    OBVIOUS
  <2>5. Len(x) \in Nat /\ Len(x) >= 2
    BY <2>3, <2>4, BufferLen
  <2>6. Len(x) >= 1
    BY <2>5
  <2> QED  BY <2>1, <2>2, <2>3, <2>4, <2>6, Zenon
<1>5. ss \in Seq(Buffer) /\ Len(ss) = n
  BY <1>3, <1>4
<1>6. CcnbNameBody(comps) = FlattenSeq(ss)
  BY <1>1, <1>3 DEF CcnbNameBody
<1>7. PICK R : Rests(ss, R)
  BY <1>5, HasRests, Zenon
<1>8. CcnbWritten(comps, ss, R)
  BY <1>1, <1>2, <1>4, <1>5, <1>6, <1>7 DEF CcnbWritten
<1>9. FlattenSeq(ss) \in Buffer /\ Len(FlattenSeq(ss)) >= n
  BY <1>4, <1>5, RestsLong
<1>10. PICK F : Joined(ss, F)
  BY <1>5, Flattens, Zenon
<1>11. ASSUME NEW k \in 1..n PROVE Len(comps[k]) =< Len(FlattenSeq(ss))
  <2>1. k \in 0..Len(ss) /\ k > 0
    BY <1>5
  <2>2. Len(ss[k]) =< Len(FlattenSeq(ss))
    BY <1>5, <1>10, <2>1, Parts
  <2>3. PICK c, s, g : c = comps[k] /\ s = ss[k] /\ g = FlattenSeq(ss)
    OBVIOUS
  <2>4. c \in Buffer /\ s \in Buffer /\ g \in Buffer /\ Len(s) >= Len(c) /\ Len(s) =< Len(g)
    BY <1>2, <1>4, <1>9, <2>2, <2>3
  <2>5. Len(c) \in Nat /\ Len(s) \in Nat /\ Len(g) \in Nat
    BY <2>4, BufferLen
  <2> QED  BY <2>3, <2>4, <2>5
<1> QED  BY <1>1, <1>6, <1>8, <1>9, <1>11, Zenon

(* A name is read as it was written, and what follows its block is left. *)
LEMMA CcnbNameRead ==
  ASSUME NEW comps, CcnbNamed(comps), Len(CcnbNameBody(comps)) \in Count, NEW r \in Buffer
  PROVE  CCNB!ReadName(CcnbNameBody(comps) \o (<<0>> \o r), <<>>) = {Naming(comps, r, TRUE)}
<1>1. comps \in Seq(Buffer) /\ MaxNameComp \in Nat
  BY FrameAssumption DEF CcnbNamed
<1>2. PICK n \in Nat : n = Len(comps)
  BY <1>1
<1>3. n =< MaxNameComp
  BY <1>2 DEF CcnbNamed
<1>4. PICK g : g = CcnbNameBody(comps)
  OBVIOUS
<1>5. g \in Buffer /\ Len(g) \in Count /\ Len(g) >= n /\ \A k \in 1..n : Len(comps[k]) =< Len(g)
  BY <1>1, <1>2, <1>4, CcnbWriting, Zenon
<1>6. PICK ss, R : CcnbWritten(comps, ss, R)
  BY <1>1, CcnbWriting, Zenon
<1>7. /\ \A k \in 1..n : comps[k] \in Buffer /\ ss[k] = CcnbComp(comps[k]) /\ R[k - 1] = ss[k] \o R[k]
      /\ \A k \in 0..n : R[k] \in Buffer
      /\ R[0] = g /\ R[n] = <<>>
  BY <1>2, <1>4, <1>6 DEF CcnbWritten, Rests
<1>8. PICK t : t = <<0>> \o r
  OBVIOUS
<1>9. t \in Buffer /\ Len(t) = Len(r) + 1
  BY <1>8, CcnbDeheadEnd
<1>10. PICK b : b = g \o t
  OBVIOUS
<1>11. b \in Buffer /\ Len(b) \in Nat /\ Len(b) >= n + 1
  <2>1. b \in Buffer /\ Len(b) = Len(g) + Len(t)
    BY <1>5, <1>9, <1>10, BufferConcat
  <2>2. Len(g) \in Nat /\ Len(r) \in Nat
    BY <1>5, BufferLen
  <2> QED  BY <1>5, <1>9, <2>1, <2>2
<1> DEFINE S == [k \in 0..n + 1 |-> IF k =< n THEN Naming(SubSeq(comps, 1, k), R[k] \o t, FALSE)
                                    ELSE Naming(comps, r, TRUE)]
<1>12. ASSUME NEW k \in 0..n PROVE S[k] = Naming(SubSeq(comps, 1, k), R[k] \o t, FALSE)
  BY <1>12
<1>13. S[n + 1] = Naming(comps, r, TRUE)
  <2>1. n + 1 \in 0..n + 1 /\ ~ (n + 1 =< n)
    OBVIOUS
  <2> QED  BY <2>1
<1> HIDE DEF S
<1>14. S[0] = Naming(<<>>, b, FALSE)
  <2>1. 0 \in 0..n
    OBVIOUS
  <2>2. SubSeq(comps, 1, 0) = <<>>
    BY <1>1, OneMore, Zenon
  <2> QED  BY <1>7, <1>10, <1>12, <2>1, <2>2, Zenon
<1>15. ASSUME NEW k \in 0..n - 1 PROVE CCNB!NameTurn(S[k]) = {S[k + 1]}
  <2>1. PICK j \in 1..n : j = k + 1 /\ k = j - 1
    OBVIOUS
  <2>2. j \in 0..n /\ k \in 0..n
    BY <2>1
  <2>3. PICK cs, c, x : cs = SubSeq(comps, 1, k) /\ c = comps[j] /\ x = R[j]
    OBVIOUS
  <2>4. c \in Buffer /\ x \in Buffer
    BY <1>7, <2>2, <2>3
  <2>5. Len(c) \in Count
    <3>1. Len(c) =< Len(g) /\ Len(c) \in Nat
      BY <1>5, <2>3, <2>4, BufferLen
    <3> QED  BY <1>5, <3>1, LessCount
  <2>6. Len(cs) = k /\ Append(cs, c) = SubSeq(comps, 1, j)
    <3>1. \A i \in 0..Len(comps) : Len(SubSeq(comps, 1, i)) = i
      BY <1>1, OneMore, Zenon
    <3>2. \A i \in 1..Len(comps) : Append(SubSeq(comps, 1, i - 1), comps[i]) = SubSeq(comps, 1, i)
      BY <1>1, OneMore, Zenon
    <3> QED  BY <1>2, <2>1, <2>2, <2>3, <3>1, <3>2, Zenon
  <2>7. Len(cs) < MaxNameComp
    BY <1>1, <1>3, <2>6
  <2>8. R[k] \o t = CcnbComp(c) \o (x \o t) /\ x \o t \in Buffer
    <3>1. R[k] = CcnbComp(c) \o x
      BY <1>7, <2>1, <2>3, Zenon
    <3>2. CcnbComp(c) \in Buffer
      BY <2>4, CcnbCompOctets
    <3>3. (CcnbComp(c) \o x) \o t = CcnbComp(c) \o (x \o t)
      BY <1>9, <2>4, <3>2, BufferAssociative
    <3>4. x \o t \in Buffer
      BY <1>9, <2>4, BufferConcat
    <3> QED  BY <3>1, <3>3, <3>4, Zenon
  <2>9. CCNB!NameTurn(Naming(cs, CcnbComp(c) \o (x \o t), FALSE)) = {Naming(Append(cs, c), x \o t, FALSE)}
    BY <2>4, <2>5, <2>7, <2>8, CcnbNameTurn
  <2>10. S[k] = Naming(cs, R[k] \o t, FALSE) /\ S[j] = Naming(SubSeq(comps, 1, j), x \o t, FALSE)
    BY <1>12, <2>2, <2>3, Zenon
  <2> QED  BY <2>1, <2>6, <2>8, <2>9, <2>10, Zenon
<1>16. CCNB!NameTurn(S[n]) = {S[n + 1]}
  <2>1. n \in 0..n
    OBVIOUS
  <2>2. R[n] \o t = t
    BY <1>7, <1>9, BufferEmptyConcat
  <2>3. SubSeq(comps, 1, n) = comps
    BY <1>1, <1>2, OneMore, Zenon
  <2>4. S[n] = Naming(comps, t, FALSE)
    BY <1>12, <2>1, <2>2, <2>3, Zenon
  <2>5. CCNB!NameTurn(Naming(comps, t, FALSE)) = {Naming(comps, r, TRUE)}
    BY <1>8, CcnbNameEnd, Zenon
  <2> QED  BY <1>13, <2>4, <2>5, Zenon
<1>17. CCNB!NameTurn(S[n + 1]) = {S[n + 1]}
  BY <1>13, CcnbNameEnd, Zenon
<1>18. CCNB!Loop(CCNB!NameTurn, S[0], Len(b)) = {S[n + 1]}
  <2>1. ASSUME NEW k \in 0..(n + 1) - 1 PROVE CCNB!NameTurn(S[k]) = {S[k + 1]}
    <3>1. k \in 0..n - 1 \/ k = n
      OBVIOUS
    <3> QED  BY <1>15, <1>16, <3>1, Zenon
  <2>2. n + 1 \in 0..Len(b) /\ Len(b) \in Nat
    BY <1>11
  <2>3. PICK m \in 0..Len(b) : m = n + 1
    BY <2>2
  <2>4. \A k \in 0..m - 1 : CCNB!NameTurn(S[k]) = {S[k + 1]}
    BY <2>1, <2>3, Zenon
  <2>5. CCNB!NameTurn(S[m]) = {S[m]}
    BY <1>17, <2>3, Zenon
  <2>6. CCNB!Loop(CCNB!NameTurn, S[0], Len(b)) = {S[m]}
    <3>1. PICK N \in Nat : N = Len(b)
      BY <2>2
    <3>2. m \in 0..N
      BY <3>1
    <3>3. NameTurnsRun(S, m)
      BY <2>4, <2>5, Zenon DEF NameTurnsRun
    <3>4. CCNB!Loop(CCNB!NameTurn, S[0], N) = {S[m]}
      BY <3>2, <3>3, CcnbNames, Zenon
    <3> QED  BY <3>1, <3>4, Zenon
  <2> QED  BY <2>3, <2>6, Zenon
<1>19. PICK q : q = Naming(comps, r, TRUE)
  OBVIOUS
<1>20. q.done
  <2>1. IsNaming(q, comps, r, TRUE)
    BY <1>19, Zenon DEF IsNaming
  <2> QED  BY <2>1, NamingOn, Zenon
<1>21. CCNB!ReadName(b, <<>>) = {s \in CCNB!Loop(CCNB!NameTurn, S[0], Len(b)) : s.done}
  BY <1>14, Zenon DEF CCNB!ReadName, Naming
<1>22. {s \in {q} : s.done} = {q}
  BY <1>20, Zenon
<1> QED  BY <1>4, <1>8, <1>10, <1>13, <1>18, <1>19, <1>21, <1>22, Zenon

-----------------------------------------------------------------------------
(***************************************************************************)
(* CCNb: packets.                                                          *)
(***************************************************************************)
CcnbPkt(t, cs, c) ==
  [type |-> t, comps |-> cs, min |-> 0, max |-> MaxNameComp, scope |-> 3, aok |-> 3,
   nonce |-> <<>>, ppkd |-> <<>>, content |-> c]

LEMMA CcnbBlank == ASSUME NEW t PROVE CCNB!Blank(t) = CcnbPkt(t, <<>>, <<>>)
BY DEF CCNB!Blank, CcnbPkt

Pkting(p, b, d) == [pkt |-> p, rest |-> b, done |-> d]
IsPkting(s, t, cs, c, b, d) == s = Pkting(CcnbPkt(t, cs, c), b, d)

(* What a state becomes when its components, its content or its end are set *)
CompsSet(s, t, c, d) ==
  \A e, x : [s EXCEPT !.rest = e, !.pkt.comps = x] = Pkting(CcnbPkt(t, x, c), e, d)
ContentSet(s, t, cs, d) ==
  \A e, x : [s EXCEPT !.rest = e, !.pkt.content = x] = Pkting(CcnbPkt(t, cs, x), e, d)
DoneSet(s, t, cs, c) ==
  \A e, x : [s EXCEPT !.rest = e, !.done = x] = Pkting(CcnbPkt(t, cs, c), e, x)

LEMMA PktingOn ==
  ASSUME NEW s, NEW t, NEW cs, NEW c, NEW b, NEW d, IsPkting(s, t, cs, c, b, d)
  PROVE  /\ s.pkt.comps = cs /\ s.pkt.content = c /\ s.rest = b /\ s.done = d
         /\ CompsSet(s, t, c, d) /\ ContentSet(s, t, cs, d) /\ DoneSet(s, t, cs, c)
<1>1. PICK p : p = CcnbPkt(t, cs, c)
  OBVIOUS
<1>2. s = [pkt |-> p, rest |-> b, done |-> d]
  BY <1>1, Zenon DEF IsPkting, Pkting
<1>3. s.pkt = p /\ s.rest = b /\ s.done = d
  BY <1>2
<1>4. p.comps = cs /\ p.content = c
  BY <1>1 DEF CcnbPkt
<1>5. ASSUME NEW e
      PROVE  /\ [s EXCEPT !.rest = e] = [pkt |-> p, rest |-> e, done |-> d]
             /\ \A q : [[pkt |-> p, rest |-> e, done |-> d] EXCEPT !.pkt = q] = [pkt |-> q, rest |-> e, done |-> d]
             /\ \A x : [[pkt |-> p, rest |-> e, done |-> d] EXCEPT !.done = x] = [pkt |-> p, rest |-> e, done |-> x]
             /\ [pkt |-> p, rest |-> e, done |-> d].pkt = p
  <2>1. [s EXCEPT !.rest = e] = [pkt |-> p, rest |-> e, done |-> d]
    BY <1>2
  <2>2. \A q : [[pkt |-> p, rest |-> e, done |-> d] EXCEPT !.pkt = q] = [pkt |-> q, rest |-> e, done |-> d]
    OBVIOUS
  <2>3. \A x : [[pkt |-> p, rest |-> e, done |-> d] EXCEPT !.done = x] = [pkt |-> p, rest |-> e, done |-> x]
    OBVIOUS
  <2>4. [pkt |-> p, rest |-> e, done |-> d].pkt = p
    OBVIOUS
  <2> QED  BY <2>1, <2>2, <2>3, <2>4, Zenon
<1>6. ASSUME NEW e, NEW x PROVE [s EXCEPT !.rest = e, !.pkt.comps = x] = Pkting(CcnbPkt(t, x, c), e, d)
  <2>1. [p EXCEPT !.comps = x] = CcnbPkt(t, x, c)
    BY <1>1 DEF CcnbPkt
  <2>2. [s EXCEPT !.rest = e, !.pkt.comps = x]
          = [[pkt |-> p, rest |-> e, done |-> d] EXCEPT !.pkt = [p EXCEPT !.comps = x]]
    BY <1>5, Zenon
  <2>3. PICK q : q = CcnbPkt(t, x, c)
    OBVIOUS
  <2>4. [[pkt |-> p, rest |-> e, done |-> d] EXCEPT !.pkt = q] = [pkt |-> q, rest |-> e, done |-> d]
    OBVIOUS
  <2> QED  BY <2>1, <2>2, <2>3, <2>4, Zenon DEF Pkting
<1>7. ASSUME NEW e, NEW x PROVE [s EXCEPT !.rest = e, !.pkt.content = x] = Pkting(CcnbPkt(t, cs, x), e, d)
  <2>1. [p EXCEPT !.content = x] = CcnbPkt(t, cs, x)
    BY <1>1 DEF CcnbPkt
  <2>2. [s EXCEPT !.rest = e, !.pkt.content = x]
          = [[pkt |-> p, rest |-> e, done |-> d] EXCEPT !.pkt = [p EXCEPT !.content = x]]
    BY <1>5, Zenon
  <2>3. PICK q : q = CcnbPkt(t, cs, x)
    OBVIOUS
  <2>4. [[pkt |-> p, rest |-> e, done |-> d] EXCEPT !.pkt = q] = [pkt |-> q, rest |-> e, done |-> d]
    OBVIOUS
  <2> QED  BY <2>1, <2>2, <2>3, <2>4, Zenon DEF Pkting
<1>8. ASSUME NEW e, NEW x PROVE [s EXCEPT !.rest = e, !.done = x] = Pkting(CcnbPkt(t, cs, c), e, x)
  BY <1>1, <1>5, Zenon DEF Pkting
<1>9. CompsSet(s, t, c, d)
  BY <1>6, Zenon DEF CompsSet
<1>10. ContentSet(s, t, cs, d)
  BY <1>7, Zenon DEF ContentSet
<1>11. DoneSet(s, t, cs, c)
  BY <1>8, Zenon DEF DoneSet
<1> QED  BY <1>3, <1>4, <1>9, <1>10, <1>11, Zenon

(* What a turn makes of a block h *)
CcnbNamePart(s, h) == UNION {{[s EXCEPT !.rest = n.rest, !.pkt.comps = n.comps]} : n \in CCNB!ReadName(h.rest, s.pkt.comps)}
CcnbContentPart(s, h) == UNION {{[s EXCEPT !.rest = c.rest, !.pkt.content = c.val]} : c \in CCNB!Consume(h, s.pkt.content)}

LEMMA CcnbPktTurn ==
  ASSUME NEW s, ~ s.done, NEW h, CCNB!Dehead(s.rest) = {h}
  PROVE  /\ h.tt = 2 /\ h.num = 14 => CCNB!PktTurn(s) = CcnbNamePart(s, h)
         /\ h.tt = 2 /\ h.num = 19 => CCNB!PktTurn(s) = CcnbContentPart(s, h)
         /\ CCNB!IsEnd(h) => CCNB!PktTurn(s) = {[s EXCEPT !.rest = Tail(@), !.done = TRUE]}
<1> DEFINE blocks == {g \in CCNB!Dehead(s.rest) : ~ CCNB!IsEnd(g)}
           F(g, c) == UNION {{[s EXCEPT !.rest = c.rest, !.pkt = p]} : p \in CCNB!ReadField(s.pkt, g.num, c.val)}
           N(g) == UNION {{[s EXCEPT !.rest = n.rest, !.pkt.comps = n.comps]} : n \in CCNB!ReadName(g.rest, s.pkt.comps)}
           C(g) == UNION {{[s EXCEPT !.rest = c.rest, !.pkt.content = c.val]} : c \in CCNB!Consume(g, s.pkt.content)}
           O(g) == UNION {F(g, c) : c \in CCNB!HuntForEnd(g.rest, <<>>)}
           P(g) == UNION {{[s EXCEPT !.rest = c.rest]} : c \in CCNB!Consume(g, <<>>)}
           X(g) == CASE g.tt = CCNB!TT.DTAG /\ g.num = CCNB!DTAG.NAME -> N(g)
                     [] g.tt = CCNB!TT.DTAG /\ g.num = CCNB!DTAG.CONTENT -> C(g)
                     [] g.tt = CCNB!TT.DTAG /\ g.num \notin {CCNB!DTAG.NAME, CCNB!DTAG.CONTENT} -> O(g)
                     [] OTHER -> P(g)
           E == {[s EXCEPT !.rest = IF CCNB!Dehead(@) = {} THEN @ ELSE Tail(@), !.done = TRUE]}
<1>1. CCNB!PktTurn(s) = IF blocks = {} THEN E ELSE UNION {X(g) : g \in blocks}
  BY Zenon DEF CCNB!PktTurn, CCNB!AndThen
<1>2. N(h) = CcnbNamePart(s, h) /\ C(h) = CcnbContentPart(s, h)
  BY Zenon DEF CcnbNamePart, CcnbContentPart
<1>3. E = {[s EXCEPT !.rest = Tail(@), !.done = TRUE]}
  <2>1. CCNB!Dehead(s.rest) # {}
    OBVIOUS
  <2> QED  BY <2>1, Zenon
<1>4. blocks = IF CCNB!IsEnd(h) THEN {} ELSE {h}
  <2> DEFINE D == CCNB!Dehead(s.rest)
             I(g) == CCNB!IsEnd(g)
  <2>1. D = {h} /\ blocks = {g \in D : ~ I(g)}
    OBVIOUS
  <2> HIDE DEF D, I
  <2>2. {g \in D : ~ I(g)} = IF I(h) THEN {} ELSE {h}
    BY <2>1
  <2> QED  BY <2>1, <2>2 DEF I
<1> HIDE DEF N, C, O, P, E, blocks
<1>5. h.tt = 2 /\ h.num = 14 => X(h) = N(h)
  BY CcnbTypes
<1>6. h.tt = 2 /\ h.num = 19 => X(h) = C(h)
  BY CcnbTypes
<1> HIDE DEF X
<1>7. UNION {X(g) : g \in {h}} = X(h)
  OBVIOUS
<1>8. h.tt = 2 => ~ CCNB!IsEnd(h)
  BY DEF CCNB!IsEnd
<1>9. {h} # {}
  OBVIOUS
<1>10. ~ CCNB!IsEnd(h) => CCNB!PktTurn(s) = X(h)
  BY <1>1, <1>4, <1>7, <1>9, Zenon
<1>11. CCNB!IsEnd(h) => CCNB!PktTurn(s) = E
  BY <1>1, <1>4, Zenon
<1> QED  BY <1>2, <1>3, <1>5, <1>6, <1>8, <1>10, <1>11, Zenon

(* One turn of the loop of ccnl_ccnb_bytes2pkt. *)
PktTurnsTo(s, t) == CCNB!PktTurn(s) = {t}

LEMMA CcnbPktName ==
  ASSUME NEW comps, CcnbNamed(comps), Len(CcnbNameBody(comps)) \in Count, NEW r \in Buffer, NEW t, NEW c
  PROVE  PktTurnsTo(Pkting(CcnbPkt(t, <<>>, c), CCNB!MkName(comps) \o r, FALSE),
                    Pkting(CcnbPkt(t, comps, c), r, FALSE))
<1> SUFFICES CCNB!PktTurn(Pkting(CcnbPkt(t, <<>>, c), CCNB!MkName(comps) \o r, FALSE))
               = {Pkting(CcnbPkt(t, comps, c), r, FALSE)}
  BY Zenon DEF PktTurnsTo
<1>1. PICK g : g = CcnbNameBody(comps)
  OBVIOUS
<1>2. g \in Buffer
  BY <1>1, CcnbWriting DEF CcnbNamed
<1>3. PICK d : d = g \o (<<0>> \o r)
  OBVIOUS
<1>4. PICK b : b = CCNB!MkName(comps) \o r
  OBVIOUS
<1>5. b = CCNB!Header(14, 2) \o d /\ d \in Buffer
  <2>1. 14 \in Count
    BY SmallCount
  <2>2. BlockBefore(14, g, r)
    BY <1>2, <2>1, CcnbBlockBefore
  <2>3. CCNB!MkName(comps) = CCNB!Block(14, g)
    BY <1>1, CcnbMkName, Zenon
  <2> QED  BY <1>3, <1>4, <2>2, <2>3, Zenon DEF BlockBefore
<1>6. PICK h : h = [num |-> 14, tt |-> 2, rest |-> d]
  OBVIOUS
<1>7. CCNB!Dehead(b) = {h}
  <2>1. 14 \in Count /\ 2 \in 0..7
    BY SmallCount
  <2> QED  BY <1>5, <1>6, <2>1, CcnbDehead, Zenon
<1>8. h.num = 14 /\ h.tt = 2 /\ h.rest = d
  BY <1>6
<1>9. PICK n : n = Naming(comps, r, TRUE)
  OBVIOUS
<1>10. n.comps = comps /\ n.rest = r
  <2>1. IsNaming(n, comps, r, TRUE)
    BY <1>9, Zenon DEF IsNaming
  <2> QED  BY <2>1, NamingOn, Zenon
<1>11. CCNB!ReadName(d, <<>>) = {n}
  BY <1>1, <1>3, <1>9, CcnbNameRead, Zenon
<1>12. PICK s : s = Pkting(CcnbPkt(t, <<>>, c), b, FALSE)
  OBVIOUS
<1>13. IsPkting(s, t, <<>>, c, b, FALSE)
  BY <1>12, Zenon DEF IsPkting
<1>14. s.pkt.comps = <<>> /\ s.rest = b /\ ~ s.done
  BY <1>13, PktingOn, Zenon
<1>15. CCNB!PktTurn(s) = CcnbNamePart(s, h)
  BY <1>7, <1>8, <1>14, CcnbPktTurn, Zenon
<1> DEFINE X(m) == {[s EXCEPT !.rest = m.rest, !.pkt.comps = m.comps]}
<1>16. CcnbNamePart(s, h) = UNION {X(m) : m \in {n}}
  BY <1>8, <1>11, <1>14, Zenon DEF CcnbNamePart
<1>17. X(n) = {Pkting(CcnbPkt(t, comps, c), r, FALSE)}
  <2>1. \A e, x : [s EXCEPT !.rest = e, !.pkt.comps = x] = Pkting(CcnbPkt(t, x, c), e, FALSE)
    <3>1. CompsSet(s, t, c, FALSE)
      BY <1>13, PktingOn, Zenon
    <3> QED  BY <3>1, Zenon DEF CompsSet
  <2>2. [s EXCEPT !.rest = r, !.pkt.comps = comps] = Pkting(CcnbPkt(t, comps, c), r, FALSE)
    BY <2>1, Zenon
  <2> QED  BY <1>10, <2>2, Zenon
<1> HIDE DEF X
<1>18. UNION {X(m) : m \in {n}} = X(n)
  OBVIOUS
<1> QED  BY <1>4, <1>12, <1>15, <1>16, <1>17, <1>18, Zenon

LEMMA CcnbPktContent ==
  ASSUME NEW c \in Buffer, Len(c) \in Count, NEW r \in Buffer, NEW t, NEW cs
  PROVE  PktTurnsTo(Pkting(CcnbPkt(t, cs, <<>>), CCNB!Block(19, CCNB!Blob(c)) \o r, FALSE),
                    Pkting(CcnbPkt(t, cs, c), r, FALSE))
<1> SUFFICES CCNB!PktTurn(Pkting(CcnbPkt(t, cs, <<>>), CCNB!Block(19, CCNB!Blob(c)) \o r, FALSE))
               = {Pkting(CcnbPkt(t, cs, c), r, FALSE)}
  BY Zenon DEF PktTurnsTo
<1>1. PICK g : g = CCNB!Blob(c)
  OBVIOUS
<1>2. g \in Buffer
  BY <1>1, CcnbBlobOctets
<1>3. PICK d : d = g \o (<<0>> \o r)
  OBVIOUS
<1>4. PICK b : b = CCNB!Block(19, CCNB!Blob(c)) \o r
  OBVIOUS
<1>5. b = CCNB!Header(19, 2) \o d /\ d \in Buffer
  <2>1. 19 \in Count
    BY SmallCount
  <2>2. BlockBefore(19, g, r)
    BY <1>2, <2>1, CcnbBlockBefore
  <2> QED  BY <1>1, <1>3, <1>4, <2>2, Zenon DEF BlockBefore
<1>6. PICK h : h = [num |-> 19, tt |-> 2, rest |-> d]
  OBVIOUS
<1>7. CCNB!Dehead(b) = {h}
  <2>1. 19 \in Count /\ 2 \in 0..7
    BY SmallCount
  <2> QED  BY <1>5, <1>6, <2>1, CcnbDehead, ZenonT(60)
<1>8. h.num = 19 /\ h.tt = 2 /\ h.rest = d
  BY <1>6
<1>9. PICK n : n = Hunting(c, r, 0)
  OBVIOUS
<1>10. n.val = c /\ n.rest = r
  <2>1. IsHunting(n, c, r, 0)
    BY <1>9, Zenon DEF IsHunting
  <2> QED  BY <2>1, HuntingOn, Zenon
<1>11. CCNB!Consume(h, <<>>) = {n}
  <2>1. CCNB!Consume(h, <<>>) = CCNB!HuntForEnd(d, <<>>)
    BY <1>8, CcnbConsumeBlock, Zenon
  <2>2. CCNB!HuntForEnd(d, <<>>) = {n}
    BY <1>1, <1>3, <1>9, CcnbHuntBlob, Zenon
  <2> QED  BY <2>1, <2>2, Zenon
<1>12. PICK s : s = Pkting(CcnbPkt(t, cs, <<>>), b, FALSE)
  OBVIOUS
<1>13. IsPkting(s, t, cs, <<>>, b, FALSE)
  BY <1>12, Zenon DEF IsPkting
<1>14. s.pkt.content = <<>> /\ s.rest = b /\ ~ s.done
  BY <1>13, PktingOn, Zenon
<1>15. CCNB!PktTurn(s) = CcnbContentPart(s, h)
  BY <1>7, <1>8, <1>14, CcnbPktTurn, Zenon
<1> DEFINE X(m) == {[s EXCEPT !.rest = m.rest, !.pkt.content = m.val]}
<1>16. CcnbContentPart(s, h) = UNION {X(m) : m \in {n}}
  BY <1>11, <1>14, Zenon DEF CcnbContentPart
<1>17. X(n) = {Pkting(CcnbPkt(t, cs, c), r, FALSE)}
  <2>1. \A e, x : [s EXCEPT !.rest = e, !.pkt.content = x] = Pkting(CcnbPkt(t, cs, x), e, FALSE)
    <3>1. ContentSet(s, t, cs, FALSE)
      BY <1>13, PktingOn, Zenon
    <3> QED  BY <3>1, Zenon DEF ContentSet
  <2>2. [s EXCEPT !.rest = r, !.pkt.content = c] = Pkting(CcnbPkt(t, cs, c), r, FALSE)
    BY <2>1, Zenon
  <2> QED  BY <1>10, <2>2, Zenon
<1> HIDE DEF X
<1>18. UNION {X(m) : m \in {n}} = X(n)
  OBVIOUS
<1> QED  BY <1>4, <1>12, <1>15, <1>16, <1>17, <1>18, Zenon

LEMMA CcnbPktEnd ==
  ASSUME NEW r \in Buffer, NEW t, NEW cs, NEW c
  PROVE  /\ PktTurnsTo(Pkting(CcnbPkt(t, cs, c), <<0>> \o r, FALSE), Pkting(CcnbPkt(t, cs, c), r, TRUE))
         /\ PktTurnsTo(Pkting(CcnbPkt(t, cs, c), r, TRUE), Pkting(CcnbPkt(t, cs, c), r, TRUE))
<1> SUFFICES
      /\ CCNB!PktTurn(Pkting(CcnbPkt(t, cs, c), <<0>> \o r, FALSE)) = {Pkting(CcnbPkt(t, cs, c), r, TRUE)}
      /\ CCNB!PktTurn(Pkting(CcnbPkt(t, cs, c), r, TRUE)) = {Pkting(CcnbPkt(t, cs, c), r, TRUE)}
  BY Zenon DEF PktTurnsTo
<1>1. PICK b : b = <<0>> \o r
  OBVIOUS
<1>2. PICK h : h = [num |-> 0, tt |-> 0, rest |-> r]
  OBVIOUS
<1>3. CCNB!Dehead(b) = {h} /\ Tail(b) = r
  BY <1>1, <1>2, CcnbDeheadEnd, Zenon
<1>4. CCNB!IsEnd(h)
  BY <1>2 DEF CCNB!IsEnd
<1>5. PICK s : s = Pkting(CcnbPkt(t, cs, c), b, FALSE)
  OBVIOUS
<1>6. IsPkting(s, t, cs, c, b, FALSE)
  BY <1>5, Zenon DEF IsPkting
<1>7. s.rest = b /\ ~ s.done
  BY <1>6, PktingOn, Zenon
<1>8. CCNB!PktTurn(s) = {[s EXCEPT !.rest = Tail(@), !.done = TRUE]}
  BY <1>3, <1>4, <1>7, CcnbPktTurn, Zenon
<1>9. [s EXCEPT !.rest = r, !.done = TRUE] = Pkting(CcnbPkt(t, cs, c), r, TRUE)
  <2>1. \A e, x : [s EXCEPT !.rest = e, !.done = x] = Pkting(CcnbPkt(t, cs, c), e, x)
    <3>1. DoneSet(s, t, cs, c)
      BY <1>6, PktingOn, Zenon
    <3> QED  BY <3>1, Zenon DEF DoneSet
  <2> QED  BY <2>1, Zenon
<1>10. CCNB!PktTurn(s) = {Pkting(CcnbPkt(t, cs, c), r, TRUE)}
  BY <1>3, <1>7, <1>8, <1>9, Zenon
<1>11. PICK u : u = Pkting(CcnbPkt(t, cs, c), r, TRUE)
  OBVIOUS
<1>12. IsPkting(u, t, cs, c, r, TRUE)
  BY <1>11, Zenon DEF IsPkting
<1>13. u.done
  BY <1>12, PktingOn, Zenon
<1>14. CCNB!PktTurn(u) = {u}
  BY <1>13, Zenon DEF CCNB!PktTurn
<1> QED  BY <1>1, <1>5, <1>10, <1>11, <1>14, Zenon

(* From the state a packet is read in, the loop of ccnl_ccnb_bytes2pkt comes to its end. *)
CcnbReaches(b, t, cs, c, r) ==
  CCNB!Loop(CCNB!PktTurn, Pkting(CcnbPkt(t, <<>>, <<>>), b, FALSE), Len(b)) = {Pkting(CcnbPkt(t, cs, c), r, TRUE)}

LEMMA CcnbBytes2Pkt ==
  ASSUME NEW b, NEW t, NEW cs, NEW c, NEW r, CcnbReaches(b, t, cs, c, r)
  PROVE  CCNB!Bytes2Pkt(b, CCNB!Blank(t)) = {[pkts |-> <<CcnbPkt(t, cs, c)>>, rest |-> r]}
<1>1. PICK p, q, u : /\ p = CcnbPkt(t, <<>>, <<>>) /\ q = CcnbPkt(t, cs, c)
                     /\ u = Pkting(CcnbPkt(t, cs, c), r, TRUE)
  OBVIOUS
<1>2. CCNB!Loop(CCNB!PktTurn, [pkt |-> p, rest |-> b, done |-> FALSE], Len(b)) = {u}
  BY <1>1, Zenon DEF CcnbReaches, Pkting
<1>3. u.pkt = q /\ u.rest = r
  <2>1. u = [pkt |-> q, rest |-> r, done |-> TRUE]
    BY <1>1, Zenon DEF Pkting
  <2> QED  BY <2>1
<1> DEFINE X(s) == {[pkts |-> <<s.pkt>>, rest |-> s.rest]}
<1>4. CCNB!Bytes2Pkt(b, p) = UNION {X(s) : s \in {u}}
  BY <1>2, Zenon DEF CCNB!Bytes2Pkt, CCNB!AndThen
<1>5. X(u) = {[pkts |-> <<q>>, rest |-> r]}
  BY <1>3, Zenon
<1> HIDE DEF X
<1>6. UNION {X(s) : s \in {u}} = X(u)
  OBVIOUS
<1>7. CCNB!Blank(t) = p
  BY <1>1, CcnbBlank, Zenon
<1> QED  BY <1>1, <1>4, <1>5, <1>6, <1>7, Zenon

LEMMA CcnbInterestRead ==
  ASSUME NEW comps, CcnbNamed(comps), Len(CcnbNameBody(comps)) \in Count, NEW r \in Buffer, NEW t
  PROVE  CcnbReaches(CCNB!MkName(comps) \o (<<0>> \o r), t, comps, <<>>, r)
<1>1. PICK m, e : m = CCNB!MkName(comps) /\ e = <<0>> \o r
  OBVIOUS
<1>2. m \in Buffer /\ Len(m) >= 2 /\ e \in Buffer
  <2>1. CcnbNameBody(comps) \in Buffer /\ 14 \in Count
    BY CcnbWriting, SmallCount DEF CcnbNamed
  <2>2. PICK g : g = CcnbNameBody(comps)
    OBVIOUS
  <2>3. m = CCNB!Block(14, g)
    BY <1>1, <2>2, CcnbMkName, Zenon
  <2>4. m \in Buffer /\ Len(m) >= Len(g) + 2 /\ Len(g) \in Nat
    BY <2>1, <2>2, <2>3, BufferLen, CcnbBlockOctets
  <2>5. Len(m) \in Nat
    BY <2>4, BufferLen
  <2>6. Len(m) >= 2
    BY <2>4, <2>5
  <2>7. e \in Buffer
    BY <1>1, CcnbDeheadEnd
  <2> QED  BY <2>4, <2>6, <2>7
<1>3. PICK b : b = m \o e
  OBVIOUS
<1>4. PICK N \in Nat : N = Len(b) /\ N >= 2
  <2>1. b \in Buffer /\ Len(b) = Len(m) + Len(e)
    BY <1>2, <1>3, BufferConcat
  <2>2. Len(m) \in Nat /\ Len(e) \in Nat
    BY <1>2, BufferLen
  <2> QED  BY <1>2, <2>1, <2>2
<1> DEFINE S == [k \in 0..2 |-> IF k = 0 THEN Pkting(CcnbPkt(t, <<>>, <<>>), b, FALSE)
                                ELSE IF k = 1 THEN Pkting(CcnbPkt(t, comps, <<>>), e, FALSE)
                                ELSE Pkting(CcnbPkt(t, comps, <<>>), r, TRUE)]
<1>5. /\ S[0] = Pkting(CcnbPkt(t, <<>>, <<>>), b, FALSE)
      /\ S[1] = Pkting(CcnbPkt(t, comps, <<>>), e, FALSE)
      /\ S[2] = Pkting(CcnbPkt(t, comps, <<>>), r, TRUE)
  OBVIOUS
<1> HIDE DEF S
<1>6. PktTurnsTo(S[0], S[1])
  <2>1. PktTurnsTo(Pkting(CcnbPkt(t, <<>>, <<>>), CCNB!MkName(comps) \o e, FALSE), Pkting(CcnbPkt(t, comps, <<>>), e, FALSE))
    BY <1>2, CcnbPktName
  <2> QED  BY <1>1, <1>3, <1>5, <2>1, Zenon
<1>7. PktTurnsTo(S[1], S[2]) /\ PktTurnsTo(S[2], S[2])
  <2>1. /\ PktTurnsTo(Pkting(CcnbPkt(t, comps, <<>>), <<0>> \o r, FALSE), Pkting(CcnbPkt(t, comps, <<>>), r, TRUE))
        /\ PktTurnsTo(Pkting(CcnbPkt(t, comps, <<>>), r, TRUE), Pkting(CcnbPkt(t, comps, <<>>), r, TRUE))
    BY CcnbPktEnd
  <2> QED  BY <1>1, <1>5, <2>1, Zenon
<1>8. PktTurnsRun(S, 2)
  <2>1. \A k \in 0..2 - 1 : k = 0 \/ k = 1
    OBVIOUS
  <2>2. 0 + 1 = 1 /\ 1 + 1 = 2
    OBVIOUS
  <2> QED  BY <1>6, <1>7, <2>1, <2>2, Zenon DEF PktTurnsRun, PktTurnsTo
<1>9. 2 \in 0..N
  BY <1>4
<1>10. CCNB!Loop(CCNB!PktTurn, S[0], N) = {S[2]}
  BY <1>8, <1>9, CcnbPkts
<1> QED  BY <1>1, <1>3, <1>4, <1>5, <1>10, Zenon DEF CcnbReaches

LEMMA CcnbContentRead ==
  ASSUME NEW comps, CcnbNamed(comps), Len(CcnbNameBody(comps)) \in Count,
         NEW c \in Buffer, Len(c) \in Count, NEW r \in Buffer, NEW t
  PROVE  CcnbReaches(CCNB!MkName(comps) \o (CCNB!Block(19, CCNB!Blob(c)) \o (<<0>> \o r)), t, comps, c, r)
<1>1. PICK m, g, e : m = CCNB!MkName(comps) /\ g = CCNB!Block(19, CCNB!Blob(c)) /\ e = <<0>> \o r
  OBVIOUS
<1>2. e \in Buffer
  BY <1>1, CcnbDeheadEnd
<1>3. m \in Buffer
  <2>1. CcnbNameBody(comps) \in Buffer /\ 14 \in Count
    BY CcnbWriting, SmallCount DEF CcnbNamed
  <2> QED  BY <1>1, <2>1, CcnbMkName, CcnbBlockOctets
<1>4. g \in Buffer /\ Len(g) >= 2
  <2>1. PICK x \in Buffer : x = CCNB!Blob(c)
    BY CcnbBlobOctets
  <2>2. 19 \in Count
    BY SmallCount
  <2>3. g \in Buffer /\ Len(g) >= Len(x) + 2 /\ Len(x) \in Nat
    BY <1>1, <2>1, <2>2, BufferLen, CcnbBlockOctets
  <2>4. Len(g) \in Nat
    BY <2>3, BufferLen
  <2> QED  BY <2>3, <2>4
<1>5. PICK d : d = g \o e
  OBVIOUS
<1>6. d \in Buffer /\ Len(d) = Len(g) + Len(e) /\ Len(e) >= 1
  <2>1. d \in Buffer /\ Len(d) = Len(g) + Len(e)
    BY <1>2, <1>4, <1>5, BufferConcat
  <2>2. Len(e) = Len(r) + 1 /\ Len(r) \in Nat
    BY <1>1, BufferLen, CcnbDeheadEnd
  <2> QED  BY <2>1, <2>2
<1>7. PICK b : b = m \o d
  OBVIOUS
<1>8. PICK N \in Nat : N = Len(b) /\ N >= 3
  <2>1. b \in Buffer /\ Len(b) = Len(m) + Len(d)
    BY <1>3, <1>6, <1>7, BufferConcat
  <2>2. Len(m) \in Nat /\ Len(e) \in Nat /\ Len(g) \in Nat
    BY <1>2, <1>3, <1>4, BufferLen
  <2> QED  BY <1>4, <1>6, <2>1, <2>2
<1> DEFINE S == [k \in 0..3 |-> IF k = 0 THEN Pkting(CcnbPkt(t, <<>>, <<>>), b, FALSE)
                                ELSE IF k = 1 THEN Pkting(CcnbPkt(t, comps, <<>>), d, FALSE)
                                ELSE IF k = 2 THEN Pkting(CcnbPkt(t, comps, c), e, FALSE)
                                ELSE Pkting(CcnbPkt(t, comps, c), r, TRUE)]
<1>9. /\ S[0] = Pkting(CcnbPkt(t, <<>>, <<>>), b, FALSE)
      /\ S[1] = Pkting(CcnbPkt(t, comps, <<>>), d, FALSE)
      /\ S[2] = Pkting(CcnbPkt(t, comps, c), e, FALSE)
      /\ S[3] = Pkting(CcnbPkt(t, comps, c), r, TRUE)
  OBVIOUS
<1> HIDE DEF S
<1>10. PktTurnsTo(S[0], S[1])
  <2>1. PktTurnsTo(Pkting(CcnbPkt(t, <<>>, <<>>), CCNB!MkName(comps) \o d, FALSE), Pkting(CcnbPkt(t, comps, <<>>), d, FALSE))
    BY <1>6, CcnbPktName
  <2> QED  BY <1>1, <1>7, <1>9, <2>1, Zenon
<1>11. PktTurnsTo(S[1], S[2])
  <2>1. PktTurnsTo(Pkting(CcnbPkt(t, comps, <<>>), CCNB!Block(19, CCNB!Blob(c)) \o e, FALSE), Pkting(CcnbPkt(t, comps, c), e, FALSE))
    BY <1>2, CcnbPktContent
  <2> QED  BY <1>1, <1>5, <1>9, <2>1, Zenon
<1>12. PktTurnsTo(S[2], S[3]) /\ PktTurnsTo(S[3], S[3])
  <2>1. /\ PktTurnsTo(Pkting(CcnbPkt(t, comps, c), <<0>> \o r, FALSE), Pkting(CcnbPkt(t, comps, c), r, TRUE))
        /\ PktTurnsTo(Pkting(CcnbPkt(t, comps, c), r, TRUE), Pkting(CcnbPkt(t, comps, c), r, TRUE))
    BY CcnbPktEnd
  <2> QED  BY <1>1, <1>9, <2>1, Zenon
<1>13. PktTurnsRun(S, 3)
  <2>1. \A k \in 0..3 - 1 : k = 0 \/ k = 1 \/ k = 2
    OBVIOUS
  <2>2. 0 + 1 = 1 /\ 1 + 1 = 2 /\ 2 + 1 = 3
    OBVIOUS
  <2> QED  BY <1>10, <1>11, <1>12, <2>1, <2>2, Zenon DEF PktTurnsRun, PktTurnsTo
<1>14. 3 \in 0..N
  BY <1>8
<1>15. CCNB!Loop(CCNB!PktTurn, S[0], N) = {S[3]}
  BY <1>13, <1>14, CcnbPkts
<1> QED  BY <1>1, <1>5, <1>7, <1>8, <1>9, <1>15, Zenon DEF CcnbReaches

LEMMA CcnbForwards ==
  ASSUME NEW tag \in {26, 64}, NEW x \in Buffer, NEW r \in Buffer, NEW cs, NEW c,
         CcnbReaches(x \o (CCNB!End \o r), tag, cs, c, r)
  PROVE  CCNB!Forwarder(CCNB!Block(tag, x) \o r) = {[pkts |-> <<CcnbPkt(tag, cs, c)>>, rest |-> r]}
<1>1. PICK y, d : y = x \o (<<0>> \o r) /\ d = CCNB!Block(tag, x) \o r
  OBVIOUS
<1>2. tag \in Count /\ 2 \in 0..7
  <2>1. tag \in 0..255
    OBVIOUS
  <2> QED  BY <2>1, SmallCount
<1>3. y \in Buffer /\ d = CCNB!Header(tag, 2) \o y
  BY <1>1, <1>2, CcnbBlockOctets, ZenonT(60)
<1>4. PICK h : h = [num |-> tag, tt |-> 2, rest |-> y]
  OBVIOUS
<1>5. CCNB!Dehead(d) = {h}
  BY <1>2, <1>3, <1>4, CcnbDehead
<1>6. h.num = tag /\ h.tt = 2 /\ h.rest = y
  BY <1>4
<1> DEFINE X(k) == IF k.tt = CCNB!TT.DTAG /\ k.num \in {CCNB!DTAG.INTEREST, CCNB!DTAG.CONTENTOBJ}
                   THEN CCNB!Bytes2Pkt(k.rest, CCNB!Blank(k.num)) ELSE {}
<1>7. CCNB!Forwarder(d) = UNION {X(k) : k \in {h}}
  BY <1>5, Zenon DEF CCNB!Forwarder, CCNB!AndThen
<1>8. h.tt = CCNB!TT.DTAG /\ h.num \in {CCNB!DTAG.INTEREST, CCNB!DTAG.CONTENTOBJ}
  BY <1>6, CcnbTypes
<1>9. X(h) = CCNB!Bytes2Pkt(y, CCNB!Blank(tag))
  BY <1>6, <1>8, Zenon
<1> HIDE DEF X
<1>10. UNION {X(k) : k \in {h}} = X(h)
  OBVIOUS
<1>11. CCNB!Bytes2Pkt(y, CCNB!Blank(tag)) = {[pkts |-> <<CcnbPkt(tag, cs, c)>>, rest |-> r]}
  <2>1. CcnbReaches(y, tag, cs, c, r)
    BY <1>1, CcnbTypes, Zenon
  <2> QED  BY <2>1, CcnbBytes2Pkt
<1> QED  BY <1>1, <1>7, <1>9, <1>10, <1>11, Zenon

(* The first octets of a block, of a number for which its header has two *)
LEMMA CcnbFirst ==
  ASSUME NEW tag \in 16..255, NEW x \in Buffer
  PROVE  CCNB!Block(tag, x)[1] = tag \div 16 /\ CCNB!Block(tag, x)[2] >= 128
<1>1. PICK n \in Nat : n = tag \div 16 /\ n # 0 /\ n < 128
  OBVIOUS
<1>2. PICK h, o : h = CCNB!HighBits(n) /\ o = 128 + 8 * (tag % 16) + 2
  OBVIOUS
<1>3. h \in Buffer /\ Len(h) = 1 /\ h[1] = n
  <2>1. h = HighBitsIn(n, 1)
    BY <1>1, <1>2 DEF CCNB!HighBits, HighBitsIn
  <2>2. 1 \in 0..4
    OBVIOUS
  <2>3. /\ HighBitsIn(n, 1) \in Buffer /\ Len(HighBitsIn(n, 1)) = 1
        /\ \A k \in 1..1 : HighBitsIn(n, 1)[k] = (n \div CCNB!Sevens[1 - k + 1]) % 128
    BY <2>2, HighBitsOctets DEF HighBitsAre
  <2>4. CCNB!Sevens[1] = 1
    BY DEF CCNB!Sevens
  <2>5. h[1] = (n \div 1) % 128
    BY <2>1, <2>3, <2>4
  <2> QED  BY <1>1, <2>1, <2>3, <2>5
<1>4. o \in Octet /\ o >= 128
  BY <1>2 DEF Octet
<1>5. <<o>> \in Buffer /\ Len(<<o>>) = 1
  BY <1>4 DEF Buffer
<1>6. PICK d : d = CCNB!Header(tag, 2)
  OBVIOUS
<1>7. d = h \o <<o>>
  BY <1>1, <1>2, <1>6 DEF CCNB!Header
<1>8. d \in Buffer /\ Len(d) = 2 /\ d[1] = n /\ d[2] = o
  <2>1. PICK e : e = <<o>>
    OBVIOUS
  <2>2. e \in Buffer /\ Len(e) = 1 /\ e[1] = o
    BY <1>5, <2>1
  <2>3. /\ h \o e \in Buffer /\ Len(h \o e) = Len(h) + Len(e)
        /\ \A k \in 1..Len(h) : (h \o e)[k] = h[k]
        /\ \A k \in 1..Len(e) : (h \o e)[Len(h) + k] = e[k]
    BY <1>3, <2>2, BufferConcat
  <2>4. d = h \o e
    BY <1>7, <2>1
  <2> QED  BY <1>3, <2>2, <2>3, <2>4
<1>9. PICK y \in Buffer : CCNB!Block(tag, x) = d \o y
  <2>1. tag \in Count /\ <<>> \in Buffer
    <3>1. tag \in 0..255
      OBVIOUS
    <3> QED  BY <3>1, BufferEmpty, SmallCount, Zenon
  <2>2. CCNB!Block(tag, x) \in Buffer /\ CCNB!Block(tag, x) \o <<>> = d \o (x \o (<<0>> \o <<>>))
        /\ x \o (<<0>> \o <<>>) \in Buffer
    BY <1>6, <2>1, CcnbBlockOctets, ZenonT(60)
  <2> QED  BY <2>2, BufferEmptyConcat
<1>10. (d \o y)[1] = d[1] /\ (d \o y)[2] = d[2]
  <2>1. \A k \in 1..Len(d) : (d \o y)[k] = d[k]
    BY <1>8, BufferConcat
  <2>2. 1 \in 1..Len(d) /\ 2 \in 1..Len(d)
    BY <1>8
  <2> QED  BY <2>1, <2>2, Zenon
<1> QED  BY <1>1, <1>4, <1>8, <1>9, <1>10

(* A packet that fits is no longer than a number may say. *)
LEMMA CcnbFits ==
  ASSUME NEW d \in Buffer, NEW room \in Count, NEW b, b \in CCNB!Fits(d, room)
  PROVE  b = d /\ Len(d) \in Count
<1>1. b \in CCNB!Only(d, Len(d) < room)
  BY Zenon DEF CCNB!Fits
<1>2. b = d /\ Len(d) < room
  BY <1>1, SMT DEF CCNB!Only
<1>3. Len(d) \in Nat /\ room \in Nat
  BY BufferLen, SMT DEF Count
<1>4. Len(d) \in Count
  BY <1>2, <1>3, LessCount
<1> QED  BY <1>2, <1>4

(* Packet b is built and read as q, whatever comes after it. *)
CcnbFramed(b, q) ==
  /\ b \in Buffer /\ Len(b) >= 2 /\ (b[1] = 4 \/ b[1] = 1) /\ b[2] >= 128
  /\ \A r \in Buffer : CCNB!Forwarder(b \o r) = {[pkts |-> <<q>>, rest |-> r]}

LEMMA CcnbInterestBuilt ==
  ASSUME NEW comps, CcnbNamed(comps), NEW b, b \in CCNB!FillInterest(comps)
  PROVE  CcnbFramed(b, CcnbPkt(26, comps, <<>>))
<1>1. PICK m, g : m = CCNB!MkName(comps) /\ g = CcnbNameBody(comps)
  OBVIOUS
<1>2. 14 \in Count /\ 26 \in Count /\ MaxPacketSize \in Count
  BY FrameAssumption, NumberIsCount, SmallCount
<1>3. g \in Buffer
  BY <1>1, CcnbWriting DEF CcnbNamed
<1>4. m \in Buffer /\ Len(m) >= Len(g) + 2
  BY <1>1, <1>2, <1>3, CcnbMkName, CcnbBlockOctets
<1>5. PICK d : d = CCNB!Block(26, m)
  OBVIOUS
<1>6. d \in Buffer /\ Len(d) >= Len(m) + 2
  BY <1>2, <1>4, <1>5, CcnbBlockOctets
<1>7. b = d /\ Len(d) \in Count
  <2>1. b \in CCNB!Fits(CCNB!Block(CCNB!DTAG.INTEREST, m), MaxPacketSize)
    BY <1>1, Zenon DEF CCNB!FillInterest
  <2>2. b \in CCNB!Fits(d, MaxPacketSize)
    BY <1>5, <2>1, CcnbTypes, Zenon
  <2> QED  BY <1>2, <1>6, <2>2, CcnbFits
<1>8. Len(g) \in Nat /\ Len(m) \in Nat /\ Len(d) \in Nat
  BY <1>3, <1>4, <1>6, BufferLen
<1>9. Len(g) \in Count
  <2>1. Len(g) =< Len(d)
    BY <1>4, <1>6, <1>8
  <2> QED  BY <1>7, <1>8, <2>1, LessCount
<1>10. b[1] = 1 /\ b[2] >= 128 /\ Len(b) >= 2 /\ b \in Buffer
  <2>1. 26 \in 16..255 /\ 26 \div 16 = 1
    OBVIOUS
  <2>2. d[1] = 26 \div 16 /\ d[2] >= 128
    BY <1>4, <1>5, <2>1, CcnbFirst
  <2> QED  BY <1>6, <1>7, <1>8, <2>1, <2>2
<1>11. ASSUME NEW r \in Buffer
       PROVE  CCNB!Forwarder(b \o r) = {[pkts |-> <<CcnbPkt(26, comps, <<>>)>>, rest |-> r]}
  <2>1. CcnbReaches(m \o (CCNB!End \o r), 26, comps, <<>>, r)
    <3>1. CcnbReaches(m \o (<<0>> \o r), 26, comps, <<>>, r)
      BY <1>1, <1>9, CcnbInterestRead
    <3> QED  BY <3>1, CcnbTypes, Zenon
  <2>2. 26 \in {26, 64}
    OBVIOUS
  <2>3. CCNB!Forwarder(CCNB!Block(26, m) \o r) = {[pkts |-> <<CcnbPkt(26, comps, <<>>)>>, rest |-> r]}
    BY <1>4, <2>1, <2>2, CcnbForwards
  <2> QED  BY <1>5, <1>7, <2>3, Zenon
<1> QED  BY <1>10, <1>11, Zenon DEF CcnbFramed

LEMMA CcnbContentBuilt ==
  ASSUME NEW comps, CcnbNamed(comps), NEW c \in Buffer, NEW room \in Count,
         NEW b, b \in CCNB!FillContent(comps, c, room)
  PROVE  CcnbFramed(b, CcnbPkt(64, comps, c))
<1>1. PICK m, g, x, k : /\ m = CCNB!MkName(comps) /\ g = CcnbNameBody(comps)
                        /\ x = CCNB!Blob(c) /\ k = CCNB!Block(19, x)
  OBVIOUS
<1>2. 14 \in Count /\ 19 \in Count /\ 64 \in Count
  BY SmallCount
<1>3. g \in Buffer
  BY <1>1, CcnbWriting DEF CcnbNamed
<1>4. m \in Buffer /\ Len(m) >= Len(g) + 2
  BY <1>1, <1>2, <1>3, CcnbMkName, CcnbBlockOctets
<1>5. x \in Buffer /\ Len(x) >= Len(c)
  <2>1. PICK h : h = CCNB!Header(Len(c), 5)
    OBVIOUS
  <2>2. Len(c) \in Nat /\ 5 \in 0..7
    BY BufferLen
  <2>3. h \in Buffer
    BY <2>1, <2>2, CcnbHeaderOctets
  <2>4. x = h \o c
    BY <1>1, <2>1, CcnbTypes, Zenon DEF CCNB!Blob
  <2>5. x \in Buffer /\ Len(x) = Len(h) + Len(c)
    BY <2>3, <2>4, BufferConcat
  <2>6. Len(h) \in Nat
    BY <2>3, BufferLen
  <2> QED  BY <2>2, <2>5, <2>6
<1>6. k \in Buffer /\ Len(k) >= Len(x) + 2
  BY <1>1, <1>2, <1>5, CcnbBlockOctets
<1>7. PICK y, d : y = m \o k /\ d = CCNB!Block(64, y)
  OBVIOUS
<1>8. y \in Buffer /\ Len(y) = Len(m) + Len(k)
  BY <1>4, <1>6, <1>7, BufferConcat
<1>9. d \in Buffer /\ Len(d) >= Len(y) + 2
  BY <1>2, <1>7, <1>8, CcnbBlockOctets
<1>10. b = d /\ Len(d) \in Count
  <2>1. b \in CCNB!Fits(CCNB!Block(CCNB!DTAG.CONTENTOBJ, m \o CCNB!Block(CCNB!DTAG.CONTENT, x)), room)
    BY <1>1, Zenon DEF CCNB!FillContent
  <2>2. b \in CCNB!Fits(d, room)
    BY <1>1, <1>7, <2>1, CcnbTypes, Zenon
  <2> QED  BY <1>9, <2>2, CcnbFits
<1>11. /\ Len(g) \in Nat /\ Len(m) \in Nat /\ Len(d) \in Nat /\ Len(x) \in Nat
       /\ Len(k) \in Nat /\ Len(c) \in Nat /\ Len(y) \in Nat
  BY <1>3, <1>4, <1>5, <1>6, <1>8, <1>9, BufferLen
<1>12. Len(g) \in Count /\ Len(c) \in Count
  <2>1. Len(g) =< Len(d) /\ Len(c) =< Len(d)
    BY <1>4, <1>5, <1>6, <1>8, <1>9, <1>11
  <2>2. Len(g) \in Count
    BY <1>10, <1>11, <2>1, LessCount
  <2>3. Len(c) \in Count
    BY <1>10, <1>11, <2>1, LessCount
  <2> QED  BY <2>2, <2>3
<1>13. b[1] = 4 /\ b[2] >= 128 /\ Len(b) >= 2 /\ b \in Buffer
  <2>1. 64 \in 16..255 /\ 64 \div 16 = 4
    OBVIOUS
  <2>2. d[1] = 64 \div 16 /\ d[2] >= 128
    BY <1>7, <1>8, <2>1, CcnbFirst
  <2> QED  BY <1>9, <1>10, <1>11, <2>1, <2>2
<1>14. ASSUME NEW r \in Buffer
       PROVE  CCNB!Forwarder(b \o r) = {[pkts |-> <<CcnbPkt(64, comps, c)>>, rest |-> r]}
  <2>1. CcnbReaches(m \o (k \o (<<0>> \o r)), 64, comps, c, r)
    BY <1>1, <1>12, CcnbContentRead
  <2>2. PICK e \in Buffer : e = <<0>> \o r
    BY CcnbDeheadEnd
  <2>3. (m \o k) \o e = m \o (k \o e)
    BY <1>4, <1>6, <2>2, BufferAssociative, ZenonT(60)
  <2>4. CcnbReaches(y \o (CCNB!End \o r), 64, comps, c, r)
    BY <1>7, <2>1, <2>2, <2>3, CcnbTypes, Zenon
  <2>5. 64 \in {26, 64}
    OBVIOUS
  <2>6. CCNB!Forwarder(CCNB!Block(64, y) \o r) = {[pkts |-> <<CcnbPkt(64, comps, c)>>, rest |-> r]}
    BY <1>8, <2>4, <2>5, CcnbForwards
  <2> QED  BY <1>7, <1>10, <2>6, Zenon
<1> QED  BY <1>13, <1>14, Zenon DEF CcnbFramed

LEMMA CcnbSame ==
  ASSUME NEW p, p.suite = "ccnb", p.kind \in {"interest", "content", "tool"}, NEW t, NEW c,
         t = IF p.kind = "interest" THEN 26 ELSE 64, p.kind # "interest" => c = p.payload
  PROVE  Same(p, CcnbPkt(t, p.comps, c))
<1>1. PICK q : q = CcnbPkt(t, p.comps, c)
  OBVIOUS
<1>2. q.comps = p.comps /\ q.type = t /\ q.content = c
  BY <1>1 DEF CcnbPkt
<1>3. q.type = IF p.kind = "interest" THEN CCNB!DTAG.INTEREST ELSE CCNB!DTAG.CONTENTOBJ
  BY <1>2, CcnbTypes
<1>4. p.kind # "interest" => q.content = p.payload
  BY <1>2
<1>5. p.kind # "fragment" /\ p.suite # "ccntlv" /\ p.suite # "ndntlv"
  OBVIOUS
<1>6. Same(p, q)
  BY <1>2, <1>3, <1>4, <1>5, Zenon DEF Same
<1> QED  BY <1>1, <1>6

(* What is meant for one kind of packet is not meant for another. *)
LEMMA CcnbParts ==
  ASSUME NEW p, Sound(p), p.suite = "ccnb"
  PROVE  /\ p.kind \in {"interest", "content", "tool"} /\ CcnbNamed(p.comps)
         /\ p.kind # "interest" => p.payload \in Buffer
<1>1. p.kind \in {"interest", "content", "tool"} /\ NameSound(p)
  BY DEF Sound
<1>2. p.kind # "interest" => p.payload \in Buffer
  BY DEF Sound, Buffer
<1>3. p.comps \in Seq(Buffer) /\ Len(p.comps) + (IF p.chunk = None THEN 0 ELSE 1) =< MaxNameComp
  BY <1>1 DEF NameSound, Buffer
<1>4. Len(p.comps) \in Nat /\ MaxNameComp \in Nat
  BY <1>3, FrameAssumption
<1>5. CcnbNamed(p.comps)
  <2>1. PICK l \in Nat : l = Len(p.comps)
    BY <1>4
  <2>2. l + 0 =< MaxNameComp \/ l + 1 =< MaxNameComp
    BY <1>3, <2>1
  <2>3. l =< MaxNameComp
    BY <1>4, <2>2
  <2> QED  BY <1>3, <2>1, <2>3, Zenon DEF CcnbNamed
<1> QED  BY <1>1, <1>2, <1>5

(***************************************************************************)
(* Whatever the builders and tools make of a CCNb packet within the limits *)
(* (ccnl_ccnb_fillInterest, ccnl_ccnb_fillContent), ccnl_ccnb_forwarder    *)
(* and ccnl_ccnb_bytes2pkt read as that packet, and leave what follows it  *)
(* in the datagram as it was.                                              *)
(***************************************************************************)
THEOREM CcnbAsBuilt ==
  ASSUME NEW p, Sound(p), p.suite = "ccnb", NEW b \in Build(p)
  PROVE  /\ b \in Buffer /\ Len(b) >= 2 /\ (b[1] = 4 \/ b[1] = 1) /\ b[2] >= 128
         /\ \E q : /\ \A r \in Buffer : CCNB!Forwarder(b \o r) = {[pkts |-> <<q>>, rest |-> r]}
                   /\ Same(p, q)
<1>1. /\ p.kind \in {"interest", "content", "tool"} /\ CcnbNamed(p.comps)
      /\ p.kind # "interest" => p.payload \in Buffer
  BY CcnbParts
<1>2. p.suite # "ccntlv" /\ p.suite # "ndntlv"
  OBVIOUS
<1> SUFFICES \E q : CcnbFramed(b, q) /\ Same(p, q)
  BY Zenon DEF CcnbFramed
<1>3. CASE p.kind = "interest"
  <2>1. b \in MkInterest(p)
    BY <1>3, Zenon DEF Build
  <2>2. b \in CCNB!FillInterest(p.comps)
    BY <1>2, <2>1, Zenon DEF MkInterest
  <2>3. CcnbFramed(b, CcnbPkt(26, p.comps, <<>>))
    BY <1>1, <2>2, CcnbInterestBuilt
  <2>4. Same(p, CcnbPkt(26, p.comps, <<>>))
    BY <1>1, <1>3, CcnbSame
  <2> QED  BY <2>3, <2>4, Zenon
<1>4. ASSUME p.kind # "interest", NEW room \in Count, b \in CCNB!FillContent(p.comps, p.payload, room)
      PROVE  \E q : CcnbFramed(b, q) /\ Same(p, q)
  <2>1. CcnbFramed(b, CcnbPkt(64, p.comps, p.payload))
    BY <1>1, <1>4, CcnbContentBuilt
  <2>2. Same(p, CcnbPkt(64, p.comps, p.payload))
    BY <1>1, <1>4, CcnbSame
  <2> QED  BY <2>1, <2>2, Zenon
<1>5. CASE p.kind = "content"
  <2>1. b \in MkContent(p)
    BY <1>5, Zenon DEF Build
  <2>2. b \in CCNB!FillContent(p.comps, p.payload, 0)
    BY <1>2, <2>1, Zenon DEF MkContent
  <2>3. 0 \in Count /\ p.kind # "interest"
    BY <1>5, SmallCount
  <2> QED  BY <1>4, <2>2, <2>3, Zenon
<1>6. CASE p.kind = "tool"
  <2>1. b \in ToolContent(p)
    BY <1>6, Zenon DEF Build
  <2>2. b \in CCNB!FillContent(p.comps, p.payload, 65 * 1024)
    BY <1>2, <2>1, ZenonT(60) DEF ToolContent
  <2>3. 65 * 1024 \in Count /\ p.kind # "interest"
    BY <1>6, SMT DEF Count
  <2> QED  BY <1>4, <2>2, <2>3
<1> QED  BY <1>1, <1>3, <1>5, <1>6

-----------------------------------------------------------------------------
(***************************************************************************)
(* The datagram, and ccnl_core_RX.                                         *)
(***************************************************************************)
LEMMA SuiteOf ==
  ASSUME NEW c \in Buffer, Len(c) >= 2
  PROVE  /\ (c[1] = 4 \/ c[1] = 1) /\ c[2] >= 128 => Pkt2Suite(c) = "ccnb"
         /\ c[1] = 1 /\ c[2] \in 0..3 => Pkt2Suite(c) = "ccntlv"
         /\ c[1] \in {5, 6} => Pkt2Suite(c) = "ndntlv"
<1>1. Len(c) > 1 /\ CCNX!V1 = 1
  BY BufferLen DEF CCNX!V1
<1>2. c[2] >= 128 => c[2] \notin 0..3
  <2>1. 2 \in 1..Len(c)
    BY <1>1, BufferLen
  <2>2. c[2] \in Nat
    BY <2>1, BufferElement
  <2> QED  BY <2>2
<1>3. PICK x, y : x = c[1] /\ y = c[2]
  OBVIOUS
<1>4. Pkt2Suite(c) = CASE x = 4 \/ (x = 1 /\ y \notin 0..3) -> "ccnb"
                       [] x = 1 /\ y \in 0..3 -> "ccntlv"
                       [] x \in {5, 6, 100} -> "ndntlv"
                       [] OTHER -> NoSuite
  BY <1>1, <1>3 DEF Pkt2Suite
<1>5. CASE (x = 4 \/ x = 1) /\ y >= 128
  <2>1. y \notin 0..3 /\ x \notin {5, 6}
    BY <1>2, <1>3, <1>5
  <2>2. x \notin {5, 6, 100}
    BY <1>5
  <2>3. Pkt2Suite(c) = "ccnb"
    BY <1>4, <1>5, <2>1, <2>2
  <2> QED  BY <1>3, <2>1, <2>3
<1>6. CASE x = 1 /\ y \in 0..3
  <2>1. Pkt2Suite(c) = "ccntlv"
    BY <1>4, <1>6
  <2>2. ~ (y >= 128) /\ x \notin {5, 6}
    BY <1>6
  <2> QED  BY <1>3, <2>1, <2>2
<1>7. CASE x \in {5, 6}
  <2>1. Pkt2Suite(c) = "ndntlv"
    BY <1>4, <1>7
  <2>2. x # 4 /\ x # 1
    BY <1>7
  <2> QED  BY <1>3, <2>1, <2>2
<1> QED  BY <1>3, <1>5, <1>6, <1>7

(* Packet b, built of p, is read as q, and what may follow it is left. *)
Delivers(p, b, q) ==
  /\ b \in Buffer /\ Len(b) >= 2 /\ b[1] # 128 /\ Same(p, q)
  /\ \A r \in Buffer : p.suite = "ccnb" \/ r = <<>> =>
       /\ Pkt2Suite(b \o r) = p.suite
       /\ Forwarder(p.suite, b \o r) = {[pkts |-> <<q>>, rest |-> r]}

LEMMA FirstTwo ==
  ASSUME NEW b \in Buffer, Len(b) >= 2, NEW r \in Buffer
  PROVE  b \o r \in Buffer /\ Len(b \o r) >= 2 /\ (b \o r)[1] = b[1] /\ (b \o r)[2] = b[2]
<1>1. /\ b \o r \in Buffer /\ Len(b \o r) = Len(b) + Len(r)
      /\ \A k \in 1..Len(b) : (b \o r)[k] = b[k]
  BY BufferConcat
<1>2. Len(b) \in Nat /\ Len(r) \in Nat
  BY BufferLen
<1>3. 1 \in 1..Len(b) /\ 2 \in 1..Len(b)
  BY <1>2
<1>4. Len(b \o r) >= 2
  BY <1>1, <1>2
<1> QED  BY <1>1, <1>3, <1>4, Zenon

LEMMA Delivered ==
  ASSUME NEW p, Sound(p), NEW b \in Build(p)
  PROVE  \E q : Delivers(p, b, q)
<1>1. p.suite = "ccnb" \/ p.suite = "ccntlv" \/ p.suite = "ndntlv"
  BY Zenon DEF Sound
<1>2. CASE p.suite = "ccnb"
  <2>1. b \in Buffer /\ Len(b) >= 2 /\ (b[1] = 4 \/ b[1] = 1) /\ b[2] >= 128
    BY <1>2, CcnbAsBuilt
  <2>2. PICK q : (\A r \in Buffer : CCNB!Forwarder(b \o r) = {[pkts |-> <<q>>, rest |-> r]}) /\ Same(p, q)
    BY <1>2, CcnbAsBuilt, Zenon
  <2>3. ASSUME NEW r \in Buffer
        PROVE  Pkt2Suite(b \o r) = p.suite /\ Forwarder(p.suite, b \o r) = {[pkts |-> <<q>>, rest |-> r]}
    <3>1. PICK c : c = b \o r
      OBVIOUS
    <3>2. c \in Buffer /\ Len(c) >= 2 /\ (c[1] = 4 \/ c[1] = 1) /\ c[2] >= 128
      BY <2>1, <3>1, FirstTwo
    <3>3. Pkt2Suite(c) = "ccnb"
      BY <3>2, SuiteOf
    <3>4. Forwarder("ccnb", c) = CCNB!Forwarder(c)
      BY DEF Forwarder
    <3> QED  BY <1>2, <2>2, <3>1, <3>3, <3>4, Zenon
  <2>4. b[1] # 128
    BY <2>1
  <2> QED  BY <2>1, <2>2, <2>3, <2>4, Zenon DEF Delivers
<1>3. ASSUME p.suite # "ccnb", b \in Buffer, Len(b) >= 2, b[1] # 128, Pkt2Suite(b) = p.suite,
             NEW q, Forwarder(p.suite, b) = {[pkts |-> <<q>>, rest |-> <<>>]}, Same(p, q)
      PROVE  Delivers(p, b, q)
  <2>1. b \o <<>> = b
    BY <1>3, BufferEmptyConcat
  <2> QED  BY <1>3, <2>1, Zenon DEF Delivers
<1>4. CASE p.suite = "ccntlv"
  <2>1. b \in Buffer /\ Len(b) >= 2 /\ b[1] = 1 /\ b[2] \in 0..3
    BY <1>4, CcnxAsBuilt
  <2>2. PICK q : CCNX!Forwarder(b) = {[pkts |-> <<q>>, rest |-> <<>>]} /\ Same(p, q)
    BY <1>4, CcnxAsBuilt, Zenon
  <2>3. Pkt2Suite(b) = "ccntlv"
    BY <2>1, SuiteOf
  <2>4. Forwarder("ccntlv", b) = CCNX!Forwarder(b)
    BY DEF Forwarder
  <2>5. b[1] # 128 /\ p.suite # "ccnb"
    BY <1>4, <2>1
  <2>6. Pkt2Suite(b) = p.suite /\ Forwarder(p.suite, b) = {[pkts |-> <<q>>, rest |-> <<>>]}
    BY <1>4, <2>2, <2>3, <2>4, Zenon
  <2> QED  BY <1>3, <2>1, <2>2, <2>5, <2>6, Zenon
<1>5. CASE p.suite = "ndntlv"
  <2>1. b \in Buffer /\ Len(b) >= 2 /\ b[1] \in {5, 6}
    BY <1>5, NdnAsBuilt
  <2>2. PICK q : NDN!Forwarder(b) = {[pkts |-> <<q>>, rest |-> <<>>]} /\ Same(p, q)
    BY <1>5, NdnAsBuilt, Zenon
  <2>3. Pkt2Suite(b) = "ndntlv"
    BY <2>1, SuiteOf
  <2>4. Forwarder("ndntlv", b) = NDN!Forwarder(b)
    BY DEF Forwarder
  <2>5. b[1] # 128 /\ p.suite # "ccnb"
    BY <1>5, <2>1
  <2>6. Pkt2Suite(b) = p.suite /\ Forwarder(p.suite, b) = {[pkts |-> <<q>>, rest |-> <<>>]}
    BY <1>5, <2>2, <2>3, <2>4, Zenon
  <2> QED  BY <1>3, <2>1, <2>2, <2>5, <2>6, Zenon
<1> QED  BY <1>1, <1>2, <1>4, <1>5

(* No packet begins with a code of ccnl_switch_dehead. *)
LEMMA NoCodes ==
  ASSUME NEW b \in Buffer, Len(b) >= 2, b[1] # 128, NEW s
  PROVE  Dehead(b, s).suite = s /\ Dehead(b, s).rest = b
<1>1. PICK l \in Nat : l = Len(b)
  BY BufferLen
<1> DEFINE A(n) == \A k \in 1..n : b[2 * k - 1] = 128 /\ b[2 * k] < 253
<1> DEFINE N == {n \in 0..l \div 2 : A(n)}
<1>2. Codes(b) = Max(N)
  BY <1>1, Zenon DEF Codes
<1>3. A(0) /\ \A n \in Nat : n > 0 => ~ A(n)
  <2>1. ASSUME NEW n \in Nat, n > 0, A(n) PROVE FALSE
    <3>1. 1 \in 1..n
      BY <2>1
    <3>2. b[2 * 1 - 1] = 128
      BY <2>1, <3>1, ZenonT(60)
    <3> QED  BY <3>2
  <2> QED  BY <2>1
<1> HIDE DEF A
<1>4. N = {0}
  <2>1. l \div 2 \in Nat
    OBVIOUS
  <2>2. \A n \in 0..l \div 2 : A(n) <=> n = 0
    BY <1>3, <2>1
  <2>3. 0 \in 0..l \div 2
    BY <2>1
  <2> QED  BY <2>2, <2>3
<1>5. Max({0}) = 0
  BY DEF Max
<1>6. Codes(b) = 0
  BY <1>2, <1>4, <1>5, Zenon
<1>7. Drop(b, 2 * 0) = b
  <2>1. b \in Seq(Octet)
    BY DEF Buffer
  <2>2. SubSeq(b, 1, Len(b)) = b
    BY <2>1, SubSeqFull
  <2>3. 2 * 0 + 1 = 1
    OBVIOUS
  <2> QED  BY <2>2, <2>3, Zenon DEF Drop
<1>8. PICK d : d = Drop(b, 2 * 0)
  OBVIOUS
<1>9. Dehead(b, s) = [suite |-> s, rest |-> d]
  <2>1. Dehead(b, s) = [suite |-> IF Codes(b) = 0 THEN s ELSE Enc2Suite(b[2 * Codes(b)]),
                        rest |-> Drop(b, 2 * Codes(b))]
    BY Zenon DEF Dehead
  <2> QED  BY <1>6, <1>8, <2>1, Zenon
<1> QED  BY <1>7, <1>8, <1>9

(***************************************************************************)
(* A datagram of the packets ps: their octets bs, what follows each of     *)
(* them, R, and what each is read as, Q.                                   *)
(***************************************************************************)
Datagram(ps, bs, R, Q) ==
  /\ bs \in Seq(Buffer) /\ Len(bs) = Len(ps) /\ Rests(bs, R)
  /\ \A k \in 1..Len(ps) : Delivers(ps[k], bs[k], Q[k]) /\ (ps[k].suite = "ccnb" \/ R[k] = <<>>)

LEMMA Composed ==
  ASSUME NEW ps \in Frames, NEW d \in BuildAll(ps)
  PROVE  \E bs, R, Q : Datagram(ps, bs, R, Q) /\ d = R[0]
<1>1. PICK n \in Nat : n = Len(ps)
  BY FrameAssumption
<1>2. DOMAIN ps = 1..n /\ \A k \in 1..n : Sound(ps[k]) /\ (n > 1 => ps[k].suite = "ccnb")
  <2>1. ps = [k \in 1..n |-> ps[k]] /\ \A k \in 1..n : Sound(ps[k]) /\ (n > 1 => ps[k].suite = "ccnb")
    BY <1>1, FrameAssumption, Zenon
  <2>2. PICK f : f = [k \in 1..n |-> ps[k]]
    OBVIOUS
  <2>3. DOMAIN f = 1..n
    BY <2>2
  <2> QED  BY <2>1, <2>2, <2>3, Zenon
<1>3. PICK bs : /\ bs \in [1..n -> UNION {Build(ps[k]) : k \in 1..n}] /\ d = FlattenSeq(bs)
                /\ \A k \in 1..n : bs[k] \in Build(ps[k])
  BY <1>2, Zenon DEF BuildAll
<1>4. PICK Q : Q = [k \in 1..n |-> CHOOSE q : Delivers(ps[k], bs[k], q)]
  OBVIOUS
<1>5. ASSUME NEW k \in 1..n PROVE Delivers(ps[k], bs[k], Q[k])
  <2>1. \E q : Delivers(ps[k], bs[k], q)
    BY <1>2, <1>3, Delivered, Zenon
  <2>2. Q[k] = CHOOSE q : Delivers(ps[k], bs[k], q)
    BY <1>4
  <2> QED  BY <2>1, <2>2, Zenon
<1>6. bs \in Seq(Buffer) /\ Len(bs) = n
  <2>1. \A k \in 1..n : bs[k] \in Buffer
    BY <1>5, Zenon DEF Delivers
  <2>2. bs \in [1..n -> Buffer]
    BY <1>3, <2>1
  <2> QED  BY <2>2
<1>7. PICK R : Rests(bs, R)
  BY <1>6, HasRests, Zenon
<1>8. R[0] = d /\ R[n] = <<>>
  BY <1>3, <1>6, <1>7, Zenon DEF Rests
<1>9. ASSUME NEW k \in 1..n PROVE ps[k].suite = "ccnb" \/ R[k] = <<>>
  <2>1. n > 1 \/ k = n
    OBVIOUS
  <2> QED  BY <1>2, <1>8, <2>1, Zenon
<1>10. Datagram(ps, bs, R, Q)
  BY <1>1, <1>5, <1>6, <1>7, <1>9, Zenon DEF Datagram
<1> QED  BY <1>8, <1>10, Zenon

(***************************************************************************)
(* The inductive invariant: the first m packets have been read, each as it *)
(* was meant, and what is left is what follows them; a datagram whose      *)
(* loop has ended has been read to its end.                                *)
(***************************************************************************)
SoFar(R, Q, m) ==
  /\ m \in 0..Len(frame) /\ data = R[m]
  /\ got \in Seq({Q[k] : k \in 1..Len(frame)}) /\ Len(got) = m
  /\ \A k \in 1..m : got[k] = Q[k]
  /\ suite = IF m = 0 THEN NoSuite ELSE frame[m].suite
  /\ reading = FALSE => m = Len(frame)

ReadSoFar ==
  /\ frame \in Frames /\ reading \in BOOLEAN
  /\ \E bs, R, Q, m : Datagram(frame, bs, R, Q) /\ SoFar(R, Q, m)

LEMMA ReadInit == Init => ReadSoFar
<1> SUFFICES ASSUME Init PROVE ReadSoFar
  OBVIOUS
<1>1. /\ frame \in Frames /\ data \in BuildAll(frame)
      /\ suite = NoSuite /\ got = <<>> /\ reading = TRUE
  BY Zenon DEF Init, Start
<1>2. PICK bs, R, Q : Datagram(frame, bs, R, Q) /\ data = R[0]
  BY <1>1, Composed, Zenon
<1>3. PICK S : S = {Q[k] : k \in 1..Len(frame)}
  OBVIOUS
<1>4. got \in Seq(S) /\ Len(got) = 0
  BY <1>1
<1>5. 0 \in 0..Len(frame) /\ \A k \in 1..0 : got[k] = Q[k]
  <2>1. Len(frame) \in Nat
    BY <1>1, FrameAssumption
  <2> QED  BY <2>1
<1>6. SoFar(R, Q, 0)
  BY <1>1, <1>2, <1>3, <1>4, <1>5, Zenon DEF SoFar
<1> QED  BY <1>1, <1>2, <1>6 DEF ReadSoFar

(* While a packet is left, it is read as the next one was meant. *)
LEMMA NextPacket ==
  ASSUME NEW bs, NEW R, NEW Q, NEW m, frame \in Frames, Datagram(frame, bs, R, Q), SoFar(R, Q, m),
         m # Len(frame)
  PROVE  /\ m + 1 \in 1..Len(frame) /\ data # <<>> /\ Suite = frame[m + 1].suite /\ Suite # NoSuite
         /\ Forwarder(Suite, Packet) = {[pkts |-> <<Q[m + 1]>>, rest |-> R[m + 1]]}
<1>1. PICK n \in Nat : n = Len(frame)
  BY FrameAssumption
<1>2. m \in 0..n /\ data = R[m] /\ suite = IF m = 0 THEN NoSuite ELSE frame[m].suite
  BY <1>1, Zenon DEF SoFar
<1>3. PICK k \in 1..n : k = m + 1
  BY <1>1, <1>2
<1>4. /\ Delivers(frame[k], bs[k], Q[k]) /\ (frame[k].suite = "ccnb" \/ R[k] = <<>>)
      /\ Len(bs) = n /\ Rests(bs, R)
  BY <1>1, <1>3, Zenon DEF Datagram
<1>5. R[k] \in Buffer /\ data = bs[k] \o R[k]
  <2>1. k - 1 = m /\ k \in 0..n /\ k \in 1..n
    BY <1>2, <1>3
  <2>2. R[k] \in Buffer /\ R[k - 1] = bs[k] \o R[k]
    BY <1>4, <2>1, Zenon DEF Rests
  <2> QED  BY <1>2, <2>1, <2>2
<1>6. PICK b, r, q, p : b = bs[k] /\ r = R[k] /\ q = Q[k] /\ p = frame[k]
  OBVIOUS
<1>7. /\ b \in Buffer /\ Len(b) >= 2 /\ b[1] # 128 /\ r \in Buffer
      /\ Pkt2Suite(data) = p.suite /\ Forwarder(p.suite, data) = {[pkts |-> <<q>>, rest |-> r]}
  BY <1>4, <1>5, <1>6, Zenon DEF Delivers
<1>8. data \in Buffer /\ Len(data) >= 2 /\ data[1] # 128
  <2>1. b \o r \in Buffer /\ Len(b \o r) >= 2 /\ (b \o r)[1] = b[1]
    BY <1>7, FirstTwo
  <2> QED  BY <1>5, <1>6, <1>7, <2>1, Zenon
<1>9. data # <<>>
  BY <1>8, BufferLen
<1>10. Packet = data /\ Dehead(data, suite).suite = suite
  BY <1>8, NoCodes, ZenonT(60) DEF Packet
<1>11. Sound(p) /\ (n > 1 => \A i \in 1..n : frame[i].suite = "ccnb")
  BY <1>1, <1>3, <1>6, FrameAssumption, Zenon
<1>12. p.suite # NoSuite
  <2>1. p.suite = "ccnb" \/ p.suite = "ccntlv" \/ p.suite = "ndntlv"
    BY <1>11, Zenon DEF Sound
  <2> QED  BY <2>1 DEF NoSuite
<1>13. Suite = p.suite
  <2>1. Suite = IF suite = NoSuite THEN Pkt2Suite(data) ELSE suite
    BY <1>10, Zenon DEF Suite
  <2>2. CASE m = 0
    BY <1>2, <1>7, <2>1, <2>2, Zenon
  <2>3. CASE m # 0
    <3>1. m \in 1..n /\ n > 1
      BY <1>2, <1>3, <2>3
    <3>2. suite = "ccnb" /\ p.suite = "ccnb"
      BY <1>2, <1>3, <1>6, <1>11, <2>3, <3>1, Zenon
    <3> QED  BY <1>12, <2>1, <3>2, Zenon
  <2> QED  BY <2>2, <2>3
<1> QED  BY <1>1, <1>3, <1>6, <1>7, <1>9, <1>10, <1>12, <1>13, Zenon

LEMMA PacketMore ==
  ASSUME NEW S, NEW s \in Seq(S), NEW q \in S
  PROVE  /\ s \o <<q>> \in Seq(S) /\ Len(s \o <<q>>) = Len(s) + 1
         /\ \A k \in 1..Len(s) : (s \o <<q>>)[k] = s[k]
         /\ (s \o <<q>>)[Len(s) + 1] = q
OBVIOUS

LEMMA ReadStep ==
  ASSUME ReadSoFar, Read
  PROVE  ReadSoFar'
<1>1. PICK bs, R, Q, m : Datagram(frame, bs, R, Q) /\ SoFar(R, Q, m)
  BY Zenon DEF ReadSoFar
<1>2. frame \in Frames /\ reading \in BOOLEAN
  BY Zenon DEF ReadSoFar
<1>3. PICK n \in Nat : n = Len(frame)
  BY <1>2, FrameAssumption
<1>4. /\ reading /\ data # <<>> /\ suite' = Suite /\ frame' = frame
      /\ \/ \E r \in Forwarder(Suite, Packet) : got' = got \o r.pkts /\ data' = r.rest /\ reading' = reading
         \/ Forwarder(Suite, Packet) = {} /\ reading' = FALSE /\ got' = got /\ data' = data
  BY Zenon DEF Read
<1>5. m # n
  <2>1. R[n] = <<>>
    BY <1>1, <1>3, Zenon DEF Datagram, Rests
  <2>2. data = R[m]
    BY <1>1, Zenon DEF SoFar
  <2> QED  BY <1>4, <2>1, <2>2
<1>6. /\ m + 1 \in 1..n /\ Suite = frame[m + 1].suite
      /\ Forwarder(Suite, Packet) = {[pkts |-> <<Q[m + 1]>>, rest |-> R[m + 1]]}
  BY <1>1, <1>2, <1>3, <1>5, NextPacket
<1>7. PICK f : f = [pkts |-> <<Q[m + 1]>>, rest |-> R[m + 1]]
  OBVIOUS
<1>8. f.pkts = <<Q[m + 1]>> /\ f.rest = R[m + 1]
  BY <1>7
<1>9. got' = got \o <<Q[m + 1]>> /\ data' = R[m + 1] /\ reading' = reading
  BY <1>4, <1>6, <1>7, <1>8, Zenon
<1>10. PICK S : S = {Q[k] : k \in 1..n}
  OBVIOUS
<1>11. PICK l \in Nat : l = m /\ l + 1 \in 1..n
  BY <1>1, <1>3, <1>6 DEF SoFar
<1>12. got \in Seq(S) /\ Len(got) = l /\ \A k \in 1..l : got[k] = Q[k]
  BY <1>1, <1>3, <1>10, <1>11, Zenon DEF SoFar
<1>13. Q[l + 1] \in S
  BY <1>10, <1>11, Zenon
<1>14. /\ got' \in Seq(S) /\ Len(got') = l + 1
       /\ \A k \in 1..l : got'[k] = Q[k]
       /\ got'[l + 1] = Q[l + 1]
  <2>1. /\ got \o <<Q[l + 1]>> \in Seq(S) /\ Len(got \o <<Q[l + 1]>>) = Len(got) + 1
        /\ \A k \in 1..Len(got) : (got \o <<Q[l + 1]>>)[k] = got[k]
        /\ (got \o <<Q[l + 1]>>)[Len(got) + 1] = Q[l + 1]
    BY <1>12, <1>13, PacketMore
  <2>2. got' = got \o <<Q[l + 1]>>
    BY <1>9, <1>11, Zenon
  <2> QED  BY <1>12, <2>1, <2>2, Zenon
<1>15. \A k \in 1..l + 1 : got'[k] = Q[k]
  <2>1. \A k \in 1..l + 1 : k \in 1..l \/ k = l + 1
    OBVIOUS
  <2> QED  BY <1>14, <2>1, Zenon
<1>16. SoFar(R, Q, l + 1)'
  <2>1. l + 1 \in 0..n /\ l + 1 # 0
    BY <1>11
  <2>2. suite' = IF l + 1 = 0 THEN NoSuite ELSE frame[l + 1].suite
    BY <1>4, <1>6, <1>11, <2>1, Zenon
  <2>3. reading' # FALSE
    BY <1>2, <1>4, <1>9
  <2> QED  BY <1>3, <1>4, <1>9, <1>10, <1>11, <1>14, <1>15, <2>1, <2>2, <2>3, Zenon DEF SoFar
<1>17. Datagram(frame, bs, R, Q)'
  BY <1>1, <1>4, Zenon DEF Datagram
<1>18. frame' \in Frames /\ reading' \in BOOLEAN
  BY <1>2, <1>4, <1>9, Zenon
<1> QED  BY <1>16, <1>17, <1>18, Zenon DEF ReadSoFar

LEMMA StopStep ==
  ASSUME ReadSoFar, Stop
  PROVE  ReadSoFar'
<1>1. PICK bs, R, Q, m : Datagram(frame, bs, R, Q) /\ SoFar(R, Q, m)
  BY Zenon DEF ReadSoFar
<1>2. frame \in Frames /\ reading \in BOOLEAN
  BY Zenon DEF ReadSoFar
<1>3. /\ data = <<>> \/ Suite = NoSuite
      /\ reading' = FALSE /\ frame' = frame /\ data' = data /\ suite' = suite /\ got' = got
  BY Zenon DEF Stop
<1>4. m = Len(frame)
  BY <1>1, <1>2, <1>3, NextPacket
<1>5. SoFar(R, Q, m)'
  BY <1>1, <1>3, <1>4, Zenon DEF SoFar
<1>6. Datagram(frame, bs, R, Q)'
  BY <1>1, <1>3, Zenon DEF Datagram
<1> QED  BY <1>2, <1>3, <1>5, <1>6, Zenon DEF ReadSoFar

LEMMA ReadNext == ReadSoFar /\ [Next]_vars => ReadSoFar'
<1> SUFFICES ASSUME ReadSoFar, [Next]_vars PROVE ReadSoFar'
  OBVIOUS
<1>1. CASE Read
  BY <1>1, ReadStep
<1>2. CASE Stop
  BY <1>2, StopStep
<1>3. CASE UNCHANGED vars
  <2>1. PICK bs, R, Q, m : Datagram(frame, bs, R, Q) /\ SoFar(R, Q, m)
    BY Zenon DEF ReadSoFar
  <2>2. frame' = frame /\ data' = data /\ suite' = suite /\ got' = got /\ reading' = reading
    BY <1>3 DEF vars
  <2>3. SoFar(R, Q, m)'
    BY <2>1, <2>2, Zenon DEF SoFar
  <2>4. Datagram(frame, bs, R, Q)'
    BY <2>1, <2>2, Zenon DEF Datagram
  <2>5. frame' \in Frames /\ reading' \in BOOLEAN
    BY <2>2, Zenon DEF ReadSoFar
  <2> QED  BY <2>3, <2>4, <2>5, Zenon DEF ReadSoFar
<1> QED  BY <1>1, <1>2, <1>3, Zenon DEF Next

LEMMA ReadAsBuilt == ReadSoFar => AsBuilt
<1> SUFFICES ASSUME ReadSoFar, ~ reading
             PROVE  Len(got) = Len(frame) /\ \A k \in DOMAIN frame : Same(frame[k], got[k])
  BY Zenon DEF AsBuilt
<1>1. PICK bs, R, Q, m : Datagram(frame, bs, R, Q) /\ SoFar(R, Q, m)
  BY Zenon DEF ReadSoFar
<1>2. frame \in Frames /\ reading = FALSE
  BY DEF ReadSoFar
<1>3. PICK n \in Nat : n = Len(frame)
  BY <1>2, FrameAssumption
<1>4. m = n /\ Len(got) = n /\ \A k \in 1..n : got[k] = Q[k]
  BY <1>1, <1>2, <1>3, Zenon DEF SoFar
<1>5. \A k \in 1..n : Same(frame[k], Q[k])
  BY <1>1, <1>3, Zenon DEF Datagram, Delivers
<1>6. DOMAIN frame = 1..n
  <2>1. frame = [k \in 1..n |-> frame[k]]
    BY <1>2, <1>3, FrameAssumption, Zenon
  <2>2. PICK f : f = [k \in 1..n |-> frame[k]]
    OBVIOUS
  <2>3. DOMAIN f = 1..n
    BY <2>2
  <2> QED  BY <2>1, <2>2, <2>3, Zenon
<1> QED  BY <1>3, <1>4, <1>5, <1>6, Zenon

(***************************************************************************)
(* Every datagram within the limits of the formats is read by              *)
(* ccnl_core_RX as what it was built of: every packet, once and in its     *)
(* order, taken for its own format, with its name, its content and its     *)
(* fields.                                                                 *)
(***************************************************************************)
THEOREM FormatsAsBuilt == Spec => []AsBuilt
<1>1. Spec => []ReadSoFar
  BY ReadInit, ReadNext, PTL DEF Spec
<1> QED  BY <1>1, ReadAsBuilt, PTL
=============================================================================
