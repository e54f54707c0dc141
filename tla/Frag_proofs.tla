----------------------------- MODULE Frag_proofs -----------------------------
(***************************************************************************)
(* Theorems about module Frag: its types, and that the receiver hands over *)
(* whole packets and leaves out none whose fragments came in a row, for    *)
(* every number of sequence numbers, every length of packets and every     *)
(* behaviour of the link.                                                  *)
(***************************************************************************)
EXTENDS Frag, FiniteSetTheorems, SequenceTheorems, TLAPS

(* a and b differ by a multiple of Numbers. *)
Alike(a, b) == \E q \in Int : a - b = q * Numbers

(* Equality is one way of being alike. *)
LEMMA AlikeSame == ASSUME NEW a \in Int PROVE Alike(a, a)
<1>1. a - a = 0 * Numbers
  BY NumbersAssumption, SMT
<1> QED BY <1>1 DEF Alike

(* Alike is symmetric. *)
LEMMA AlikeBack ==
  ASSUME NEW a \in Int, NEW b \in Int, Alike(a, b) PROVE Alike(b, a)
<1>1. PICK q \in Int : a - b = q * Numbers
  BY DEF Alike
<1>2. b - a = (-q) * Numbers
  BY <1>1, NumbersAssumption, SMT
<1>3. -q \in Int
  OBVIOUS
<1> QED BY <1>2, <1>3 DEF Alike

(* Alike is transitive. *)
LEMMA AlikeOn ==
  ASSUME NEW a \in Int, NEW b \in Int, NEW c \in Int, Alike(a, b), Alike(b, c)
  PROVE  Alike(a, c)
<1>1. PICK q \in Int : a - b = q * Numbers
  BY DEF Alike
<1>2. PICK r \in Int : b - c = r * Numbers
  BY DEF Alike
<1>3. a - c = (q + r) * Numbers
  <2>1. (q + r) * Numbers = q * Numbers + r * Numbers
    BY NumbersAssumption, SMT
  <2>2. q * Numbers \in Int /\ r * Numbers \in Int
    BY NumbersAssumption, SMT
  <2> QED BY <1>1, <1>2, <2>1, <2>2, SMT
<1> QED BY <1>3, q + r \in Int DEF Alike

(* A number and its remainder are alike. *)
LEMMA AlikeRest == ASSUME NEW a \in Nat PROVE Alike(a, a % Numbers)
<1> DEFINE q == a \div Numbers
            r == a % Numbers
<1>1. a = Numbers * q + r
  BY NumbersAssumption, SMTT(30)
<1>2. q \in Int /\ r \in Int
  BY NumbersAssumption, SMT
<1> HIDE DEF q, r
<1>3. a - r = q * Numbers
  <2>1. Numbers * q = q * Numbers /\ q * Numbers \in Int
    BY <1>2, NumbersAssumption, SMT
  <2> QED BY <1>1, <1>2, <2>1, SMT
<1>4. Alike(a, r)
  BY <1>2, <1>3 DEF Alike
<1> QED BY <1>4 DEF r

(* The difference of numbers that are alike leaves no rest. *)
LEMMA AlikeNoRest ==
  ASSUME NEW a \in Int, NEW b \in Int, Alike(a, b) PROVE (a - b) % Numbers = 0
<1>1. PICK q \in Int : a - b = q * Numbers
  BY DEF Alike
<1>2. (q * Numbers) % Numbers = 0
  BY NumbersAssumption, SMTT(30)
<1> QED BY <1>1, <1>2
-----------------------------------------------------------------------------
(***************************************************************************)
(* What a packet adds to the fragments that were sent: w of them behind    *)
(* the others, one if the face does not fragment.                          *)
(***************************************************************************)
Added(w) ==
  /\ Len(sent') = Len(sent) + w
  /\ \A i \in 1..Len(sent) : sent'[i] = sent[i]
  /\ \A k \in 1..w :
       sent'[Len(sent) + k] =
         [seq |-> IF fragmenting THEN (sendseq + k - 1) % Numbers ELSE 0,
          flag |-> IF fragmenting THEN Flag(k, w) ELSE "plain",
          of |-> Len(sent) + 1, epoch |-> epoch]

(* The fragments of a packet are such. *)
LEMMA CutTyped ==
  ASSUME TypeOK, NEW n \in Nat \ {0}
  PROVE  Cut(n) \in Seq(Fragment) /\ Len(Cut(n)) = n /\ Uncut \in Seq(Fragment) /\ Len(Uncut) = 1
<1> DEFINE f(k) == [seq |-> Number(sendseq + k - 1), flag |-> Flag(k, n),
                    of |-> Len(sent) + 1, epoch |-> epoch]
<1>t. sendseq \in Nat /\ epoch \in Nat /\ Len(sent) + 1 \in Nat
  BY DEF TypeOK
<1>1. \A k \in 1..n : f(k) \in Fragment
  <2> SUFFICES ASSUME NEW k \in 1..n PROVE f(k) \in Fragment
    OBVIOUS
  <2>1. Flag(k, n) \in {"single", "first", "mid", "last", "plain"}
    BY DEF Flag
  <2>2. Number(sendseq + k - 1) \in 0..Numbers - 1
    BY <1>t, NumbersAssumption DEF Number
  <2> QED  BY <1>t, <2>1, <2>2 DEF Fragment
<1>2. Cut(n) = [k \in 1..n |-> f(k)]
  BY DEF Cut
<1>3. [seq |-> 0, flag |-> "plain", of |-> Len(sent) + 1, epoch |-> epoch] \in Fragment
  BY <1>t, NumbersAssumption DEF Fragment
<1>4. Uncut \in Seq(Fragment) /\ Len(Uncut) = 1
  BY <1>3 DEF Uncut
<1> HIDE DEF f
<1>5. Cut(n) \in Seq(Fragment) /\ Len(Cut(n)) = n
  BY <1>1, <1>2
<1> QED  BY <1>4, <1>5

(* One sequence behind another, element by element. *)
LEMMA BehindFacts ==
  ASSUME NEW S, NEW a \in Seq(S), NEW b \in Seq(S)
  PROVE  /\ a \o b \in Seq(S) /\ Len(a \o b) = Len(a) + Len(b)
         /\ \A i \in 1..Len(a) : (a \o b)[i] = a[i]
         /\ \A k \in 1..Len(b) : (a \o b)[Len(a) + k] = b[k]
  OBVIOUS

LEMMA SendFacts ==
  ASSUME TypeOK, NEW n \in Parts, Send(n)
  PROVE  /\ sent' \in Seq(Fragment)
         /\ \E w \in Nat \ {0} :
              /\ Added(w)
              /\ fragmenting => sendseq' = sendseq + w
              /\ ~ fragmenting => w = 1 /\ sendseq' = sendseq
<1>t. n \in Nat \ {0} /\ sent \in Seq(Fragment) /\ fragmenting \in BOOLEAN
  BY PartsAssumption DEF TypeOK
<1>1. CASE fragmenting
  <2>1. sent' = sent \o Cut(n) /\ sendseq' = sendseq + n
    BY <1>1 DEF Send
  <2>2. Cut(n) \in Seq(Fragment) /\ Len(Cut(n)) = n
    BY <1>t, CutTyped
  <2>3. /\ sent' \in Seq(Fragment) /\ Len(sent') = Len(sent) + n
        /\ \A i \in 1..Len(sent) : sent'[i] = sent[i]
        /\ \A k \in 1..n : sent'[Len(sent) + k] = Cut(n)[k]
    <3> DEFINE c == Cut(n)
    <3>1. c \in Seq(Fragment) /\ Len(c) = n /\ sent' = sent \o c
      BY <2>1, <2>2
    <3> HIDE DEF c
    <3>2. sent' \in Seq(Fragment) /\ Len(sent') = Len(sent) + n
      BY <1>t, <3>1, BehindFacts
    <3>3. \A i \in 1..Len(sent) : sent'[i] = sent[i]
      BY <1>t, <3>1, BehindFacts
    <3>4. \A k \in 1..n : sent'[Len(sent) + k] = c[k]
      BY <1>t, <3>1, BehindFacts
    <3> QED  BY <3>2, <3>3, <3>4 DEF c
  <2>4. Added(n)
    <3>1. \A k \in 1..n : Cut(n)[k] = [seq |-> (sendseq + k - 1) % Numbers, flag |-> Flag(k, n),
                                      of |-> Len(sent) + 1, epoch |-> epoch]
      BY DEF Cut, Number
    <3>2. \A k \in 1..n : sent'[Len(sent) + k] =
            [seq |-> IF fragmenting THEN (sendseq + k - 1) % Numbers ELSE 0,
             flag |-> IF fragmenting THEN Flag(k, n) ELSE "plain",
             of |-> Len(sent) + 1, epoch |-> epoch]
      BY <1>1, <2>3, <3>1
    <3> QED  BY <2>3, <3>2 DEF Added
  <2> QED  BY <1>1, <1>t, <2>1, <2>3, <2>4
<1>2. CASE ~ fragmenting
  <2>1. sent' = sent \o Uncut /\ sendseq' = sendseq
    BY <1>2 DEF Send
  <2>2. Uncut \in Seq(Fragment) /\ Len(Uncut) = 1
    BY <1>t, CutTyped
  <2>3. /\ sent' \in Seq(Fragment) /\ Len(sent') = Len(sent) + 1
        /\ \A i \in 1..Len(sent) : sent'[i] = sent[i]
        /\ sent'[Len(sent) + 1] = Uncut[1]
    BY <1>t, <2>1, <2>2, BehindFacts
  <2>4. Added(1)
    <3>1. Uncut[1] = [seq |-> 0, flag |-> "plain", of |-> Len(sent) + 1, epoch |-> epoch]
      BY DEF Uncut
    <3>2. \A k \in 1..1 : sent'[Len(sent) + k] =
            [seq |-> IF fragmenting THEN (sendseq + k - 1) % Numbers ELSE 0,
             flag |-> IF fragmenting THEN Flag(k, 1) ELSE "plain",
             of |-> Len(sent) + 1, epoch |-> epoch]
      <4>1. \A k \in 1..1 : k = 1
        OBVIOUS
      <4> QED  BY <1>2, <2>3, <3>1, <4>1
    <3> QED  BY <2>3, <3>2 DEF Added
  <2> QED  BY <1>2, <2>1, <2>3, <2>4
<1> QED  BY <1>1, <1>2

(* A sequence stays one when its set of elements grows. *)
LEMMA SeqGrows ==
  ASSUME NEW S, NEW T, S \subseteq T, NEW q \in Seq(S) PROVE q \in Seq(T)
<1>1. \A k \in 1..Len(q) : q[k] \in T
  OBVIOUS
<1> QED  BY <1>1

(* The receiver's variables keep their types. *)
LEMMA ReceiveTypes ==
  ASSUME TypeOK, NEW i \in Sent, Receive(i), UNCHANGED sent
  PROVE  /\ recvseq' \in 0..Numbers /\ defrag' \in Seq(Sent)
         /\ got' \in Seq(Seq(Sent)) /\ arrived' \in Seq(Sent \cup {Forgot})
<1>t. /\ sent[i] \in Fragment /\ defrag \in Seq(Sent) /\ got \in Seq(Seq(Sent))
      /\ arrived \in Seq(Sent \cup {Forgot}) /\ recvseq \in 0..Numbers
  BY DEF TypeOK, Sent
<1>1. Kept(i) \in Seq(Sent)
  BY <1>t DEF Kept
<1>2. <<i>> \in Seq(Sent) /\ Append(Kept(i), i) \in Seq(Sent) /\ <<>> \in Seq(Sent)
  BY <1>1
<1>3. arrived' \in Seq(Sent \cup {Forgot})
  BY <1>t DEF Receive
<1>4. recvseq' \in 0..Numbers
  <2>1. Following(i) \in 0..Numbers
    BY <1>t, NumbersAssumption DEF Following, Fragment
  <2> QED  BY <1>t, <2>1 DEF Receive
<1>5. defrag' \in Seq(Sent)
  BY <1>t, <1>2 DEF Receive
<1>6. got' \in Seq(Seq(Sent))
  <2>1. Append(got, <<i>>) \in Seq(Seq(Sent)) /\ Append(got, Append(Kept(i), i)) \in Seq(Seq(Sent))
    BY <1>t, <1>2
  <2> QED  BY <1>t, <2>1 DEF Receive
<1> QED  BY <1>3, <1>4, <1>5, <1>6

(* How often a record was made anew is a number. *)
LEMMA AnewNat == TypeOK => Cardinality({k \in 1..Len(arrived) : arrived[k] = Forgot}) \in Nat
<1> SUFFICES ASSUME TypeOK
             PROVE  Cardinality({k \in 1..Len(arrived) : arrived[k] = Forgot}) \in Nat
  OBVIOUS
<1>1. Len(arrived) \in Nat
  BY DEF TypeOK
<1>2. IsFiniteSet(1..Len(arrived))
  BY <1>1, FS_Interval
<1>3. IsFiniteSet({k \in 1..Len(arrived) : arrived[k] = Forgot})
  BY <1>2, FS_Subset
<1> QED  BY <1>3, FS_CardinalityType

(***************************************************************************)
(* Types: in particular, sequence numbers on the link are below Numbers,   *)
(* while the number that the receiver expects may be Numbers itself.       *)
(***************************************************************************)
LEMMA TypeStep == TypeOK /\ [Next]_vars => TypeOK'
<1> SUFFICES ASSUME TypeOK, [Next]_vars PROVE TypeOK'
  OBVIOUS
<1> USE NumbersAssumption
<1>l. Len(sent) \in Nat /\ Len(sent) = Len(sent)
  BY DEF TypeOK
<1>1. ASSUME NEW n \in Parts, Send(n) PROVE TypeOK'
  <2>1. PICK w \in Nat \ {0} :
          /\ Added(w)
          /\ fragmenting => sendseq' = sendseq + w
          /\ ~ fragmenting => w = 1 /\ sendseq' = sendseq
    BY <1>1, SendFacts
  <2>2. sent' \in Seq(Fragment) /\ Sent \subseteq Sent'
    <3>4. sent' \in Seq(Fragment)
      BY <1>1, SendFacts
    <3>5. Sent \subseteq Sent'
      BY <1>l, <2>1 DEF Added, Sent
    <3> QED  BY <3>4, <3>5
  <2>3. UNCHANGED <<fragmenting, epoch, gone, late, recvseq, defrag, got, arrived>>
    BY <1>1 DEF Send, receiver
  <2>4. sendseq' \in Nat
    BY <2>1 DEF TypeOK
  <2>5. gone' \in 0..Len(sent') /\ late' \subseteq 1..gone'
    BY <1>l, <2>1, <2>3 DEF Added, TypeOK
  <2>6. defrag' \in Seq(Sent') /\ arrived' \in Seq(Sent' \cup {Forgot})
    BY <2>2, <2>3, SeqGrows, Sent \cup {Forgot} \subseteq Sent' \cup {Forgot} DEF TypeOK
  <2>7. got' \in Seq(Seq(Sent'))
    <3>1. Seq(Sent) \subseteq Seq(Sent')
      BY <2>2, SeqGrows
    <3> QED  BY <2>3, <3>1, SeqGrows DEF TypeOK
  <2> QED  BY <2>2, <2>3, <2>4, <2>5, <2>6, <2>7 DEF TypeOK
<1>2. CASE Renew
  <2>1. epoch + 1 \in 0..MaxAnew
    BY <1>2, AnewNat, BoundsAssumption DEF Renew, Anew, TypeOK
  <2> QED  BY <1>2, <2>1 DEF Renew, TypeOK, Sent, receiver
<1>3. CASE SetFrag
  BY <1>3 DEF SetFrag, TypeOK, Sent, receiver
<1>4. CASE Arrive
  <2>1. gone + 1 \in Sent /\ UNCHANGED <<sender, late>> /\ gone' = gone + 1
    BY <1>4, <1>l DEF Arrive, TypeOK, Sent
  <2>2. Receive(gone + 1) /\ UNCHANGED sent
    BY <1>4 DEF Arrive, sender
  <2> QED  BY <1>l, <2>1, <2>2, ReceiveTypes DEF TypeOK, Sent, sender
<1>5. CASE Lose
  BY <1>5, <1>l DEF Lose, TypeOK, Sent, sender, receiver
<1>6. CASE Delay
  BY <1>6, <1>l DEF Delay, TypeOK, Sent, sender, receiver
<1>7. CASE Duplicate
  <2>1. /\ gone + 1 \in Sent /\ UNCHANGED sender
        /\ gone' = gone + 1 /\ late' = late \cup {gone + 1}
    BY <1>7, <1>l DEF Duplicate, TypeOK, Sent
  <2>2. Receive(gone + 1) /\ UNCHANGED sent
    BY <1>7 DEF Duplicate, sender
  <2> QED  BY <1>l, <2>1, <2>2, ReceiveTypes DEF TypeOK, Sent, sender
<1>8. ASSUME NEW i \in late, ArriveLate(i) PROVE TypeOK'
  <2>1. i \in Sent /\ UNCHANGED <<sender, gone>> /\ late' = late \ {i}
    BY <1>8, <1>l DEF ArriveLate, TypeOK, Sent
  <2>2. Receive(i) /\ UNCHANGED sent
    BY <1>8 DEF ArriveLate, sender
  <2> QED  BY <2>1, <2>2, ReceiveTypes DEF TypeOK, Sent, sender
<1>9. CASE Forget
  <2>1. arrived' \in Seq(Sent \cup {Forgot})
    BY <1>9 DEF Forget, TypeOK
  <2> QED  BY <1>9, <2>1 DEF Forget, TypeOK, Sent, sender
<1>10. CASE UNCHANGED vars
  BY <1>10 DEF vars, sender, receiver, TypeOK, Sent
<1> QED  BY <1>1, <1>2, <1>3, <1>4, <1>5, <1>6, <1>7, <1>8, <1>9, <1>10 DEF Next

LEMMA TypeInit == Init => TypeOK
  BY NumbersAssumption, BoundsAssumption DEF Init, TypeOK, Sent

(* The variables of sender, link and receiver keep their types, for all constants. *)
THEOREM FragmentsTyped == Spec => []TypeOK
  BY TypeInit, TypeStep, PTL DEF Spec
-----------------------------------------------------------------------------
(* The fragments of a packet follow each other in what was sent, between a *)
(* first and a last one.                                                   *)
Starts(i) == sent[i].flag \in {"single", "first", "plain"}
GoesOn(i) == sent[i].flag \in {"first", "mid"}
Ends(i) == sent[i].flag \in {"single", "last", "plain"}

OfInv ==
  /\ \A i \in Sent : sent[i].of \in 1..i
  /\ \A i \in Sent : Starts(i) => sent[i].of = i
  /\ \A i \in Sent : GoesOn(i) => i + 1 \in Sent /\ sent[i + 1].of = sent[i].of
  /\ \A i \in Sent : Ends(i) /\ i + 1 \in Sent => sent[i + 1].of = i + 1
  /\ \A i, j \in Sent : i =< j => sent[i].of =< sent[j].of

(* Within one record of the sender, numbers and places are the same up to  *)
(* a constant and multiples of Numbers.                                    *)
WasCut(i) == sent[i].flag # "plain"
Shift(i) == i - sent[i].seq

NumberInv ==
  /\ \A i \in Sent : sent[i].epoch =< epoch
  /\ \A i, j \in Sent : WasCut(i) /\ WasCut(j) /\ sent[i].epoch = sent[j].epoch
                       => Alike(Shift(i), Shift(j))
  /\ fragmenting =>
       \A i \in Sent : WasCut(i) /\ sent[i].epoch = epoch
                      => Alike(Shift(i), Len(sent) + 1 - sendseq)

LEMMA FlagFacts ==
  ASSUME NEW w \in Nat \ {0}, NEW k \in 1..w
  PROVE  /\ Flag(k, w) # "plain"
         /\ Flag(k, w) \in {"single", "first"} => k = 1
         /\ Flag(k, w) \in {"first", "mid"} => k < w
         /\ Flag(k, w) \in {"single", "last"} => k = w
  BY DEF Flag

(* A difference may be taken on either side. *)
LEMMA AlikeShift ==
  ASSUME NEW a \in Int, NEW b \in Int, NEW c \in Int, Alike(a, b)
  PROVE  Alike(c - b, c - a)
<1>1. PICK q \in Int : a - b = q * Numbers
  BY DEF Alike
<1>2. (c - b) - (c - a) = a - b
  BY SMT
<1> QED  BY <1>1, <1>2 DEF Alike

(* A new packet: its fragments are w, from place Len(sent) + 1 on. *)
LEMMA OfSend ==
  ASSUME TypeOK, OfInv, NEW w \in Nat \ {0}, Added(w), ~ fragmenting => w = 1
  PROVE  OfInv'
<1>0. PICK L \in Nat : L = Len(sent)
  BY DEF TypeOK
<1>l. L \in Nat /\ Len(sent') = L + w
  BY <1>0 DEF Added
<1>s. Sent = 1..L /\ Sent' = 1..L + w
  BY <1>0, <1>l DEF Sent
<1>o. \A i \in 1..L : sent'[i] = sent[i]
  BY <1>0 DEF Added
<1>n. \A k \in 1..w :
        /\ sent'[L + k].of = L + 1
        /\ Starts(L + k)' => k = 1
        /\ GoesOn(L + k)' => k < w
        /\ Ends(L + k)' => k = w
  <2> SUFFICES ASSUME NEW k \in 1..w
               PROVE  /\ sent'[L + k].of = L + 1
                      /\ Starts(L + k)' => k = 1
                      /\ GoesOn(L + k)' => k < w
                      /\ Ends(L + k)' => k = w
    OBVIOUS
  <2>0. sent'[L + k] =
          [seq |-> IF fragmenting THEN (sendseq + k - 1) % Numbers ELSE 0,
           flag |-> IF fragmenting THEN Flag(k, w) ELSE "plain",
           of |-> L + 1, epoch |-> epoch]
    BY <1>0 DEF Added
  <2>1. /\ sent'[L + k].of = L + 1
        /\ sent'[L + k].flag = IF fragmenting THEN Flag(k, w) ELSE "plain"
    BY <2>0
  <2>2. CASE fragmenting
    BY <2>1, <2>2, FlagFacts DEF Starts, GoesOn, Ends
  <2>3. CASE ~ fragmenting
    <3>1. k = 1 /\ w = 1
      BY <2>3
    <3> QED  BY <2>1, <2>3, <3>1 DEF Starts, GoesOn, Ends
  <2> QED  BY <2>2, <2>3
<1>p. \A i \in Sent' : i \in 1..L \/ \E k \in 1..w : i = L + k
  <2> SUFFICES ASSUME NEW i \in Sent', i \notin 1..L PROVE \E k \in 1..w : i = L + k
    OBVIOUS
  <2>1. i - L \in 1..w /\ i = L + (i - L)
    BY <1>l, <1>s
  <2> QED  BY <2>1
<1>f. \A i \in 1..L : /\ sent'[i].of = sent[i].of /\ (Starts(i)' <=> Starts(i))
                      /\ (GoesOn(i)' <=> GoesOn(i)) /\ (Ends(i)' <=> Ends(i))
  BY <1>o DEF Starts, GoesOn, Ends
<1>h. \A i \in 1..L : /\ sent[i].of \in 1..i /\ (Starts(i) => sent[i].of = i)
                      /\ (GoesOn(i) => i + 1 \in 1..L /\ sent[i + 1].of = sent[i].of)
                      /\ (Ends(i) /\ i + 1 \in 1..L => sent[i + 1].of = i + 1)
                      /\ \A j \in 1..L : i =< j => sent[i].of =< sent[j].of
  BY <1>s DEF OfInv
<1>1. ASSUME NEW i \in Sent'
      PROVE  /\ sent'[i].of \in 1..i
             /\ Starts(i)' => sent'[i].of = i
             /\ GoesOn(i)' => i + 1 \in Sent' /\ sent'[i + 1].of = sent'[i].of
             /\ Ends(i)' /\ i + 1 \in Sent' => sent'[i + 1].of = i + 1
  <2>1. CASE i \in 1..L
    <3>1. sent'[i].of \in 1..i /\ (Starts(i)' => sent'[i].of = i)
      BY <1>f, <1>h, <2>1
    <3>2. GoesOn(i)' => i + 1 \in Sent' /\ sent'[i + 1].of = sent'[i].of
      BY <1>f, <1>h, <1>l, <1>s, <2>1
    <3>3. Ends(i)' /\ i + 1 \in Sent' => sent'[i + 1].of = i + 1
      <4>1. CASE i + 1 \in 1..L
        BY <1>f, <1>h, <2>1, <4>1
      <4>2. CASE i + 1 \notin 1..L
        <5>1. i + 1 = L + 1 /\ 1 \in 1..w
          BY <1>l, <2>1, <4>2
        <5> QED  BY <1>n, <5>1
      <4> QED  BY <4>1, <4>2
    <3> QED  BY <3>1, <3>2, <3>3
  <2>2. CASE \E k \in 1..w : i = L + k
    <3>1. PICK k \in 1..w : i = L + k
      BY <2>2
    <3>2. sent'[i].of = L + 1 /\ L + 1 \in 1..i /\ (Starts(i)' => L + 1 = i)
      BY <1>l, <1>n, <3>1
    <3>3. GoesOn(i)' => i + 1 \in Sent' /\ sent'[i + 1].of = sent'[i].of
      <4> SUFFICES ASSUME GoesOn(i)' PROVE i + 1 \in Sent' /\ sent'[i + 1].of = sent'[i].of
        OBVIOUS
      <4>1. k < w
        BY <1>n, <3>1
      <4>2. k + 1 \in 1..w /\ i + 1 = L + (k + 1)
        BY <1>l, <3>1, <4>1
      <4>3. sent'[i + 1].of = L + 1
        BY <1>n, <4>2
      <4> QED  BY <1>l, <1>s, <3>1, <3>2, <4>2, <4>3
    <3>4. Ends(i)' => i + 1 \notin Sent'
      <4> SUFFICES ASSUME Ends(i)' PROVE i + 1 \notin Sent'
        OBVIOUS
      <4>1. k = w
        BY <1>n, <3>1
      <4> QED  BY <1>l, <1>s, <3>1, <4>1
    <3> QED  BY <3>2, <3>3, <3>4
  <2> QED  BY <1>p, <2>1, <2>2
<1>2. ASSUME NEW i \in Sent', NEW j \in Sent', i =< j PROVE sent'[i].of =< sent'[j].of
  <2>1. CASE j \in 1..L
    <3>1. i \in 1..L
      BY <1>l, <1>s, <1>2, <2>1
    <3> QED  BY <1>f, <1>h, <1>2, <2>1, <3>1
  <2>2. CASE j \notin 1..L
    <3>1. sent'[j].of = L + 1
      BY <1>n, <1>p, <2>2
    <3>2. CASE i \in 1..L
      <4>1. sent'[i].of \in 1..i
        BY <1>1
      <4> QED  BY <1>l, <3>1, <3>2, <4>1
    <3>3. CASE i \notin 1..L
      <4>1. sent'[i].of = L + 1
        BY <1>n, <1>p, <3>3
      <4> QED  BY <1>l, <3>1, <4>1
    <3> QED  BY <3>2, <3>3
  <2> QED  BY <2>1, <2>2
<1> QED  BY <1>1, <1>2 DEF OfInv

(* A new packet: its numbers go on where those of the last one stopped. *)
LEMMA NumberSend ==
  ASSUME TypeOK, NumberInv, NEW w \in Nat \ {0}, Added(w), epoch' = epoch, fragmenting' = fragmenting,
         fragmenting => sendseq' = sendseq + w
  PROVE  NumberInv'
<1>0. PICK L \in Nat : L = Len(sent)
  BY DEF TypeOK
<1>l. Sent = 1..L /\ Sent' = 1..L + w /\ epoch \in Nat /\ sendseq \in Nat /\ fragmenting \in BOOLEAN
  BY <1>0 DEF Sent, Added, TypeOK
<1>o. \A i \in 1..L : sent'[i] = sent[i] /\ sent[i].seq \in Nat /\ sent[i].epoch \in Nat
  <2>1. \A i \in 1..L : sent'[i] = sent[i] /\ sent[i] \in Fragment
    BY <1>0 DEF Added, TypeOK
  <2> QED  BY <2>1, NumbersAssumption DEF Fragment
<1>p. \A i \in Sent' : i \in 1..L \/ \E k \in 1..w : i = L + k
  <2> SUFFICES ASSUME NEW i \in Sent', i \notin 1..L PROVE \E k \in 1..w : i = L + k
    OBVIOUS
  <2>1. i - L \in 1..w /\ i = L + (i - L)
    BY <1>l
  <2> QED  BY <2>1
<1>n. \A k \in 1..w :
        sent'[L + k] = [seq |-> IF fragmenting THEN (sendseq + k - 1) % Numbers ELSE 0,
                        flag |-> IF fragmenting THEN Flag(k, w) ELSE "plain",
                        of |-> L + 1, epoch |-> epoch]
  BY <1>0 DEF Added
<1>m. \A k \in 1..w : sent'[L + k].epoch = epoch /\ (sent'[L + k].flag # "plain" => fragmenting)
                     /\ sent'[L + k].seq = (IF fragmenting THEN (sendseq + k - 1) % Numbers ELSE 0)
  <2> SUFFICES ASSUME NEW k \in 1..w
               PROVE  /\ sent'[L + k].epoch = epoch /\ (sent'[L + k].flag # "plain" => fragmenting)
                      /\ sent'[L + k].seq = (IF fragmenting THEN (sendseq + k - 1) % Numbers ELSE 0)
    OBVIOUS
  <2> DEFINE q == IF fragmenting THEN (sendseq + k - 1) % Numbers ELSE 0
             f == IF fragmenting THEN Flag(k, w) ELSE "plain"
  <2>1. sent'[L + k] = [seq |-> q, flag |-> f, of |-> L + 1, epoch |-> epoch]
    BY <1>n
  <2>2. f # "plain" => fragmenting
    OBVIOUS
  <2> HIDE DEF q, f
  <2>3. sent'[L + k].epoch = epoch /\ sent'[L + k].flag = f /\ sent'[L + k].seq = q
    BY <2>1
  <2> QED  BY <2>2, <2>3 DEF q
<1>i. \A i \in 1..L : /\ sent[i].epoch =< epoch
                      /\ fragmenting /\ sent[i].flag # "plain" /\ sent[i].epoch = epoch
                           => Alike(i - sent[i].seq, L + 1 - sendseq)
                      /\ \A j \in 1..L : sent[i].flag # "plain" /\ sent[j].flag # "plain"
                                        /\ sent[i].epoch = sent[j].epoch
                           => Alike(i - sent[i].seq, j - sent[j].seq)
  BY <1>0, <1>l DEF NumberInv, WasCut, Shift
<1>1. \A i \in Sent' : sent'[i].epoch =< epoch /\ sent'[i].seq \in Int
  <2> SUFFICES ASSUME NEW i \in Sent' PROVE sent'[i].epoch =< epoch /\ sent'[i].seq \in Int
    OBVIOUS
  <2>1. CASE i \in 1..L
    BY <1>i, <1>o, <2>1
  <2>2. CASE \E k \in 1..w : i = L + k
    <3>1. PICK k \in 1..w : i = L + k
      BY <2>2
    <3>2. (sendseq + k - 1) % Numbers \in Int
      BY <1>l, NumbersAssumption
    <3>3. sent'[i].epoch = epoch /\ sent'[i].seq \in Int
      BY <1>m, <3>1, <3>2
    <3> QED  BY <1>l, <3>3
  <2> QED  BY <1>p, <2>1, <2>2
<1>2. ASSUME fragmenting, NEW i \in Sent', sent'[i].flag # "plain", sent'[i].epoch = epoch
      PROVE  Alike(i - sent'[i].seq, L + 1 - sendseq)
  <2>1. CASE i \in 1..L
    BY <1>2, <1>i, <1>o, <2>1
  <2>2. CASE \E k \in 1..w : i = L + k
    <3>1. PICK k \in 1..w : i = L + k
      BY <2>2
    <3> DEFINE a == sendseq + k - 1
               r == a % Numbers
    <3>2. a \in Nat
      BY <1>l
    <3> HIDE DEF a
    <3>3. Alike(a, r) /\ r \in Int
      BY <3>2, AlikeRest, NumbersAssumption
    <3> HIDE DEF r
    <3>i. i \in Int /\ a \in Int
      BY <3>1, <3>2
    <3>4. Alike(i - r, i - a)
      BY <3>i, <3>3, AlikeShift
    <3>5. i - a = L + 1 - sendseq
      BY <1>l, <3>1 DEF a
    <3>6. sent'[i].seq = r
      BY <1>2, <1>m, <3>1 DEF r, a
    <3> QED  BY <3>4, <3>5, <3>6
  <2> QED  BY <1>p, <2>1, <2>2
<1>3. ASSUME NEW i \in Sent', NEW j \in Sent', sent'[i].flag # "plain", sent'[j].flag # "plain",
             sent'[i].epoch = sent'[j].epoch
      PROVE  Alike(i - sent'[i].seq, j - sent'[j].seq)
  <2>1. CASE i \in 1..L /\ j \in 1..L
    BY <1>3, <1>i, <1>o, <2>1
  <2>2. CASE ~ (i \in 1..L /\ j \in 1..L)
    <3>1. fragmenting /\ sent'[i].epoch = epoch
      BY <1>3, <1>m, <1>p, <2>2
    <3>2. Alike(i - sent'[i].seq, L + 1 - sendseq) /\ Alike(j - sent'[j].seq, L + 1 - sendseq)
      BY <1>2, <1>3, <3>1
    <3>3. i - sent'[i].seq \in Int /\ j - sent'[j].seq \in Int /\ L + 1 - sendseq \in Int
      BY <1>1, <1>l
    <3>4. Alike(L + 1 - sendseq, j - sent'[j].seq)
      BY <3>2, <3>3, AlikeBack
    <3> QED  BY <3>2, <3>3, <3>4, AlikeOn
  <2> QED  BY <2>1, <2>2
<1>4. fragmenting => Len(sent') + 1 - sendseq' = L + 1 - sendseq
  BY <1>0, <1>l DEF Added
<1> QED
  <2>1. \A i \in Sent' : sent'[i].epoch =< epoch'
    BY <1>1
  <2>2. \A i, j \in Sent' : sent'[i].flag # "plain" /\ sent'[j].flag # "plain"
                            /\ sent'[i].epoch = sent'[j].epoch
                          => Alike(i - sent'[i].seq, j - sent'[j].seq)
    BY <1>3
  <2>3. fragmenting' =>
          \A i \in Sent' : sent'[i].flag # "plain" /\ sent'[i].epoch = epoch'
                          => Alike(i - sent'[i].seq, Len(sent') + 1 - sendseq')
    BY <1>2, <1>4
  <2> QED  BY <2>1, <2>2, <2>3 DEF NumberInv, WasCut, Shift
-----------------------------------------------------------------------------
(* The buffers: the fragments in one are a piece of a packet from its      *)
(* start on, unless two neighbours of them were mistaken for such.         *)
Mixed(b) == \E k \in 1..Len(b) - 1 : Mistaken(b[k], b[k + 1])
Straight(b) == \A k \in 1..Len(b) : b[k] = b[1] + k - 1 /\ sent[b[k]].of = b[1]

HeldInv ==
  defrag # <<>> =>
    /\ GoesOn(defrag[Len(defrag)])
    /\ recvseq = sent[defrag[Len(defrag)]].seq + 1
    /\ Mixed(defrag) \/ Straight(defrag)

GotInv ==
  \A m \in 1..Len(got) :
    /\ got[m] # <<>>
    /\ Mixed(got[m]) \/ (Straight(got[m]) /\ Ends(got[m][Len(got[m])]))

WholeInv == TypeOK /\ OfInv /\ NumberInv /\ HeldInv /\ GotInv

(* A fragment with the number that is expected goes behind the last one, *)
(* or is mistaken for the one that does.                                 *)
LEMMA NextFits ==
  ASSUME TypeOK, OfInv, NumberInv, NEW l \in Sent, NEW i \in Sent,
         GoesOn(l), WasCut(i), sent[i].seq = sent[l].seq + 1
  PROVE  Mistaken(l, i) \/ (i = l + 1 /\ sent[i].of = sent[l].of)
<1>t. sent[l].seq \in Int /\ sent[i].seq \in Int /\ l \in Int /\ i \in Int
  <2>1. sent[l] \in Fragment /\ sent[i] \in Fragment
    BY DEF TypeOK, Sent
  <2> QED  BY <2>1, NumbersAssumption DEF Fragment, Sent
<1>1. CASE i = l + 1
  BY <1>1 DEF OfInv
<1>2. CASE i # l + 1
  <2>1. ASSUME sent[l].epoch = sent[i].epoch PROVE (i - l - 1) % Numbers = 0
    <3>1. Alike(Shift(i), Shift(l))
      BY <2>1 DEF NumberInv, WasCut, GoesOn
    <3>2. (Shift(i) - Shift(l)) % Numbers = 0
      BY <1>t, <3>1, AlikeNoRest DEF Shift
    <3>3. Shift(i) - Shift(l) = i - l - 1
      BY <1>t DEF Shift
    <3> QED  BY <3>2, <3>3
  <2>2. i # l + 1
    BY <1>2
  <2>3. sent[l].epoch = sent[i].epoch => (i - l - 1) % Numbers = 0
    BY <2>1
  <2>4. Mistaken(l, i)
    BY <2>2, <2>3 DEF Mistaken
  <2> QED  BY <2>4
<1> QED  BY <1>1, <1>2

LEMMA Lengthened ==
  ASSUME TypeOK, OfInv, NumberInv, HeldInv, NEW i \in Sent, WasCut(i),
         defrag # <<>>, sent[i].seq = recvseq
  PROVE  Mixed(Append(defrag, i)) \/ Straight(Append(defrag, i))
<1> DEFINE n == Len(defrag)
           l == defrag[n]
           b == Append(defrag, i)
<1>t. defrag \in Seq(Sent) /\ n \in Nat \ {0} /\ l \in Sent /\ Sent \subseteq Nat
  BY DEF TypeOK, Sent
<1>b. Len(b) = n + 1 /\ b[n + 1] = i /\ \A k \in 1..n : b[k] = defrag[k]
  BY <1>t
<1>1. Mistaken(l, i) \/ (i = l + 1 /\ sent[i].of = sent[l].of)
  BY <1>t, NextFits DEF HeldInv
<1> HIDE DEF b
<1>2. CASE Mistaken(l, i)
  <2>1. n \in 1..Len(b) - 1 /\ b[n] = l /\ b[n + 1] = i
    BY <1>t, <1>b
  <2> QED  BY <1>2, <2>1 DEF Mixed, b
<1>3. CASE Mixed(defrag)
  <2>1. PICK k \in 1..n - 1 : Mistaken(defrag[k], defrag[k + 1])
    BY <1>3 DEF Mixed
  <2>2. k \in 1..Len(b) - 1 /\ b[k] = defrag[k] /\ b[k + 1] = defrag[k + 1]
    BY <1>t, <1>b
  <2> QED  BY <2>1, <2>2 DEF Mixed, b
<1>4. CASE Straight(defrag) /\ i = l + 1 /\ sent[i].of = sent[l].of
  <2>1. l = defrag[1] + n - 1 /\ sent[l].of = defrag[1] /\ defrag[1] \in Nat
    <3>1. 1 \in 1..n /\ n \in 1..n /\ defrag[1] \in Sent
      BY <1>t
    <3>2. defrag[n] = defrag[1] + n - 1 /\ sent[defrag[n]].of = defrag[1]
      BY <1>4, <3>1 DEF Straight
    <3> QED  BY <1>t, <3>1, <3>2
  <2>2. i = defrag[1] + (n + 1) - 1 /\ sent[i].of = defrag[1]
    BY <1>t, <1>4, <2>1
  <2>3. \A k \in 1..Len(b) : b[k] = b[1] + k - 1 /\ sent[b[k]].of = b[1]
    <3> SUFFICES ASSUME NEW k \in 1..Len(b) PROVE b[k] = b[1] + k - 1 /\ sent[b[k]].of = b[1]
      OBVIOUS
    <3>0. b[1] = defrag[1]
      BY <1>t, <1>b
    <3>1. CASE k \in 1..n
      BY <1>4, <1>b, <3>0, <3>1 DEF Straight
    <3>2. CASE k = n + 1
      BY <1>b, <2>2, <3>0, <3>2
    <3> QED  BY <1>t, <1>b, <3>1, <3>2
  <2> QED  BY <2>3 DEF Straight, b
<1> QED  BY <1>1, <1>2, <1>3, <1>4 DEF HeldInv

(* One fragment that starts a packet is a straight piece. *)
LEMMA Alone ==
  ASSUME OfInv, NEW i \in Sent, Starts(i) PROVE Straight(<<i>>)
<1>1. sent[i].of = i /\ i \in Nat
  BY DEF OfInv, Sent
<1>2. \A k \in 1..Len(<<i>>) : k = 1 /\ <<i>>[k] = i
  OBVIOUS
<1> QED  BY <1>1, <1>2 DEF Straight

(* A new buffer at the end of those that were handed over. *)
LEMMA HandedOver ==
  ASSUME TypeOK, GotInv, NEW b \in Seq(Sent), b # <<>>,
         Mixed(b) \/ (Straight(b) /\ Ends(b[Len(b)]))
  PROVE  \A m \in 1..Len(Append(got, b)) :
           /\ Append(got, b)[m] # <<>>
           /\ \/ Mixed(Append(got, b)[m])
              \/ (Straight(Append(got, b)[m]) /\ Ends(Append(got, b)[m][Len(Append(got, b)[m])]))
<1> DEFINE g == Append(got, b)
<1>1. /\ Len(got) \in Nat /\ Len(g) = Len(got) + 1 /\ g[Len(got) + 1] = b
      /\ \A m \in 1..Len(got) : g[m] = got[m]
  BY DEF TypeOK
<1> HIDE DEF g
<1>2. ASSUME NEW m \in 1..Len(g)
      PROVE  /\ g[m] # <<>>
             /\ Mixed(g[m]) \/ (Straight(g[m]) /\ Ends(g[m][Len(g[m])]))
  <2>1. CASE m \in 1..Len(got)
    BY <1>1, <2>1 DEF GotInv
  <2>2. CASE m = Len(got) + 1
    BY <1>1, <2>2
  <2> QED  BY <1>1, <2>1, <2>2
<1> QED  BY <1>2 DEF g

(* Whatever arrives, the buffer and what was handed over stay as described. *)
LEMMA ReceiveWhole ==
  ASSUME WholeInv, NEW i \in Sent, Receive(i), sent' = sent
  PROVE  HeldInv' /\ GotInv'
<1> USE DEF WholeInv
<1>t. /\ sent[i].seq \in Nat /\ sent[i].flag \in {"single", "first", "mid", "last", "plain"}
      /\ defrag \in Seq(Sent) /\ <<i>> \in Seq(Sent)
  <2>1. sent[i] \in Fragment
    BY DEF TypeOK, Sent
  <2> QED  BY <2>1, NumbersAssumption DEF Fragment, TypeOK
<1>a. /\ Starts(i) => Straight(<<i>>) /\ <<i>> # <<>> /\ Len(<<i>>) = 1 /\ <<i>>[1] = i
  BY Alone
<1>b. ASSUME Kept(i) # <<>>, WasCut(i)
      PROVE  /\ Append(Kept(i), i) = Append(defrag, i) /\ Append(defrag, i) \in Seq(Sent)
             /\ Append(defrag, i) # <<>> /\ Append(defrag, i)[Len(Append(defrag, i))] = i
             /\ Mixed(Append(defrag, i)) \/ Straight(Append(defrag, i))
  <2>1. Kept(i) = defrag /\ defrag # <<>> /\ sent[i].seq = recvseq
    BY <1>b DEF Kept
  <2>2. Mixed(Append(defrag, i)) \/ Straight(Append(defrag, i))
    BY <1>b, <2>1, Lengthened
  <2>3. Append(defrag, i) \in Seq(Sent) /\ Append(defrag, i) # <<>>
        /\ Append(defrag, i)[Len(Append(defrag, i))] = i
    BY <1>t
  <2> QED  BY <2>1, <2>2, <2>3
<1>1. defrag' # <<>> =>
        /\ GoesOn(defrag'[Len(defrag')])
        /\ recvseq' = sent[defrag'[Len(defrag')]].seq + 1
        /\ Mixed(defrag') \/ Straight(defrag')
  <2>1. CASE sent[i].flag = "plain"
    BY <2>1 DEF Receive, HeldInv
  <2>2. CASE sent[i].flag \in {"single", "last"}
    BY <2>2 DEF Receive
  <2>3. CASE sent[i].flag = "first"
    <3>1. defrag' = <<i>> /\ recvseq' = sent[i].seq + 1
      BY <2>3 DEF Receive, Following
    <3>2. Starts(i) /\ GoesOn(i)
      BY <2>3 DEF Starts, GoesOn
    <3> QED  BY <1>a, <3>1, <3>2
  <2>4. CASE sent[i].flag = "mid"
    <3>1. defrag' = (IF Kept(i) = <<>> THEN <<>> ELSE Append(Kept(i), i)) /\ recvseq' = sent[i].seq + 1
      BY <2>4 DEF Receive, Following
    <3>2. WasCut(i) /\ GoesOn(i)
      BY <2>4 DEF WasCut, GoesOn
    <3> QED  BY <1>b, <3>1, <3>2
  <2> QED  BY <1>t, <2>1, <2>2, <2>3, <2>4
<1>2. \A m \in 1..Len(got') :
        /\ got'[m] # <<>>
        /\ Mixed(got'[m]) \/ (Straight(got'[m]) /\ Ends(got'[m][Len(got'[m])]))
  <2>1. CASE sent[i].flag \in {"plain", "single"}
    <3>1. got' = Append(got, <<i>>)
      BY <2>1 DEF Receive
    <3>2. Starts(i) /\ Ends(i)
      BY <2>1 DEF Starts, Ends
    <3> QED  BY <1>a, <1>t, <3>1, <3>2, HandedOver
  <2>2. CASE sent[i].flag \in {"first", "mid"}
    BY <2>2 DEF Receive, GotInv
  <2>3. CASE sent[i].flag = "last"
    <3>1. got' = IF Kept(i) = <<>> THEN got ELSE Append(got, Append(Kept(i), i))
      BY <2>3 DEF Receive
    <3>2. WasCut(i) /\ Ends(i)
      BY <2>3 DEF WasCut, Ends
    <3>3. CASE Kept(i) = <<>>
      BY <3>1, <3>3 DEF GotInv
    <3>4. CASE Kept(i) # <<>>
      BY <1>b, <3>1, <3>2, <3>4, HandedOver
    <3> QED  BY <3>3, <3>4
  <2> QED  BY <1>t, <2>1, <2>2, <2>3
<1> QED
  BY <1>1, <1>2 DEF HeldInv, GotInv, Mixed, Straight, Mistaken, GoesOn, Ends

(* A buffer is not touched by what is sent later. *)
LEMMA Untouched ==
  ASSUME NEW b \in Seq(Sent), \A i \in Sent : sent'[i] = sent[i]
  PROVE  (Mixed(b) => Mixed(b)') /\ (Straight(b) => Straight(b)')
<1>1. \A k \in 1..Len(b) : b[k] \in Sent
  OBVIOUS
<1>2. \A k \in 1..Len(b) - 1 : b[k] \in Sent /\ b[k + 1] \in Sent
  BY <1>1
<1> QED  BY <1>1, <1>2 DEF Mixed, Straight, Mistaken

LEMMA WholeStep == WholeInv /\ [Next]_vars => WholeInv'
<1> SUFFICES ASSUME WholeInv, [Next]_vars PROVE WholeInv'
  OBVIOUS
<1>t. TypeOK'
  BY TypeStep DEF WholeInv
<1>s. ASSUME UNCHANGED sent PROVE OfInv'
  BY <1>s DEF WholeInv, OfInv, Sent, Starts, GoesOn, Ends
<1>n. ASSUME UNCHANGED sender PROVE NumberInv'
  BY <1>n DEF WholeInv, NumberInv, Sent, WasCut, Shift, sender, Alike
<1>r. ASSUME UNCHANGED <<sent, recvseq, defrag, got>> PROVE HeldInv' /\ GotInv'
  BY <1>r DEF WholeInv, HeldInv, GotInv, Mixed, Straight, Mistaken, GoesOn, Ends
<1>1. ASSUME NEW n \in Parts, Send(n) PROVE WholeInv'
  <2>1. PICK w \in Nat \ {0} :
          /\ Added(w)
          /\ fragmenting => sendseq' = sendseq + w
          /\ ~ fragmenting => w = 1 /\ sendseq' = sendseq
    BY <1>1, SendFacts DEF WholeInv
  <2>2. UNCHANGED <<fragmenting, epoch, recvseq, defrag, got>>
    BY <1>1 DEF Send, receiver
  <2>3. OfInv' /\ NumberInv'
    BY <2>1, <2>2, OfSend, NumberSend DEF WholeInv
  <2>4. \A i \in Sent : sent'[i] = sent[i]
    BY <2>1 DEF Added, Sent
  <2>5. HeldInv'
    <3> SUFFICES ASSUME defrag # <<>>
                 PROVE  /\ GoesOn(defrag[Len(defrag)])' /\ recvseq' = (sent[defrag[Len(defrag)]].seq + 1)'
                        /\ Mixed(defrag)' \/ Straight(defrag)'
      BY <2>2 DEF HeldInv
    <3>1. PICK b \in Seq(Sent) : b = defrag
      BY DEF WholeInv, TypeOK
    <3>2. b[Len(b)] \in Sent
      BY <3>1
    <3>3. Mixed(b)' \/ Straight(b)'
      BY <2>4, <3>1, Untouched DEF WholeInv, HeldInv
    <3>4. Mixed(defrag)' \/ Straight(defrag)'
      BY <2>2, <3>1, <3>3
    <3> QED  BY <2>2, <2>4, <3>1, <3>2, <3>4 DEF WholeInv, HeldInv, GoesOn
  <2>6. GotInv'
    <3> SUFFICES ASSUME NEW m \in 1..Len(got)
                 PROVE  /\ got[m] # <<>>
                        /\ Mixed(got[m])' \/ (Straight(got[m])' /\ Ends(got[m][Len(got[m])])')
      BY <2>2 DEF GotInv
    <3>1. PICK b \in Seq(Sent) : b = got[m]
      BY DEF WholeInv, TypeOK
    <3>2. b # <<>> /\ (Mixed(b) \/ (Straight(b) /\ Ends(b[Len(b)])))
      BY <3>1 DEF WholeInv, GotInv
    <3>3. b[Len(b)] \in Sent
      BY <3>1, <3>2
    <3>4. Ends(b[Len(b)]) => Ends(b[Len(b)])'
      BY <2>4, <3>3 DEF Ends
    <3>5. Mixed(b)' \/ (Straight(b)' /\ Ends(b[Len(b)])')
      BY <2>4, <3>2, <3>4, Untouched
    <3> QED  BY <2>2, <3>1, <3>2, <3>5
  <2> QED  BY <1>t, <2>3, <2>5, <2>6 DEF WholeInv
<1>2. CASE Renew
  <2>1. UNCHANGED <<sent, recvseq, defrag, got>> /\ epoch' = epoch + 1
    BY <1>2 DEF Renew, receiver
  <2>2. NumberInv'
    <3>1. \A i \in Sent : sent[i].epoch \in Nat /\ sent[i].epoch =< epoch /\ epoch \in Nat
      <4>1. \A i \in Sent : sent[i] \in Fragment
        BY DEF WholeInv, TypeOK, Sent
      <4> QED  BY <4>1 DEF WholeInv, TypeOK, NumberInv, Fragment
    <3>2. \A i \in Sent : sent[i].epoch =< epoch' /\ sent[i].epoch # epoch'
      BY <2>1, <3>1
    <3>3. \A i, j \in Sent : WasCut(i) /\ WasCut(j) /\ sent[i].epoch = sent[j].epoch
                           => Alike(Shift(i), Shift(j))
      BY DEF WholeInv, NumberInv
    <3> QED  BY <2>1, <3>2, <3>3 DEF NumberInv, Sent, WasCut, Shift, Alike
  <2> QED  BY <1>t, <1>s, <1>r, <2>1, <2>2 DEF WholeInv
<1>3. CASE SetFrag
  <2>1. UNCHANGED <<sendseq, epoch, sent, recvseq, defrag, got>> /\ fragmenting' = FALSE
    BY <1>3 DEF SetFrag, receiver
  <2>2. NumberInv'
    BY <2>1 DEF WholeInv, NumberInv, Sent, WasCut, Shift, Alike
  <2> QED  BY <1>t, <1>s, <1>r, <2>1, <2>2 DEF WholeInv
<1>4. ASSUME NEW i \in Sent, Receive(i), UNCHANGED sender PROVE WholeInv'
  BY <1>4, <1>t, <1>s, <1>n, ReceiveWhole DEF WholeInv, sender
<1>5. CASE Arrive
  <2>1. gone + 1 \in Sent
    BY <1>5 DEF Arrive, WholeInv, TypeOK, Sent
  <2> QED  BY <1>4, <1>5, <2>1 DEF Arrive
<1>6. CASE Duplicate
  <2>1. gone + 1 \in Sent
    BY <1>6 DEF Duplicate, WholeInv, TypeOK, Sent
  <2> QED  BY <1>4, <1>6, <2>1 DEF Duplicate
<1>7. ASSUME NEW i \in late, ArriveLate(i) PROVE WholeInv'
  <2>1. i \in Sent
    BY DEF WholeInv, TypeOK, Sent
  <2> QED  BY <1>4, <1>7, <2>1 DEF ArriveLate
<1>8. CASE Forget
  <2>1. UNCHANGED <<sender, sent, got>> /\ defrag' = <<>>
    BY <1>8 DEF Forget, sender
  <2>2. HeldInv' /\ GotInv'
    BY <2>1 DEF WholeInv, HeldInv, GotInv, Mixed, Straight, Mistaken, Ends
  <2> QED  BY <1>t, <1>s, <1>n, <2>1, <2>2 DEF WholeInv
<1>9. CASE Lose \/ Delay \/ UNCHANGED vars
  <2>1. UNCHANGED <<sender, receiver>>
    BY <1>9 DEF Lose, Delay, vars
  <2> QED  BY <1>t, <1>s, <1>n, <1>r, <2>1 DEF WholeInv, sender, receiver
<1> QED  BY <1>1, <1>2, <1>3, <1>5, <1>6, <1>7, <1>8, <1>9 DEF Next

LEMMA WholeInit == Init => WholeInv
<1> SUFFICES ASSUME Init PROVE WholeInv
  OBVIOUS
<1>1. sent = <<>> /\ defrag = <<>> /\ got = <<>> /\ Sent = {}
  BY DEF Init, Sent
<1> QED  BY <1>1, TypeInit DEF WholeInv, OfInv, NumberInv, HeldInv, GotInv

(* A straight piece that ends a packet is that packet. *)
LEMMA StraightIsWhole ==
  ASSUME TypeOK, OfInv, NEW b \in Seq(Sent), b # <<>>, Straight(b), Ends(b[Len(b)])
  PROVE  \E o \in Packets : b = FragmentsOf(o)
<1> DEFINE n == Len(b)
           o == b[1]
           e == b[n]
           F == {i \in Sent : sent[i].of = o}
<1>0. PICK L \in Nat : L = Len(sent)
  BY DEF TypeOK
<1>t. n \in Nat \ {0} /\ o \in Sent /\ e \in Sent /\ Sent = 1..L
  BY <1>0 DEF Sent
<1>b. \A k \in 1..n : b[k] \in Sent /\ b[k] = o + k - 1 /\ sent[b[k]].of = o
  BY DEF Straight
<1>1. sent[o].of = o /\ e = o + n - 1
  BY <1>t, <1>b
<1>2. F = o..e
  <2>1. ASSUME NEW i \in o..e PROVE i \in F
    <3>0. n \in Nat /\ o \in Nat /\ e = o + n - 1 /\ i \in o..e
      BY <1>t, <1>1
    <3>1. i - o + 1 \in 1..n /\ i = o + (i - o + 1) - 1
      <4> HIDE DEF n, o, e
      <4> QED  BY <3>0
    <3>2. b[i - o + 1] = i /\ i \in Sent /\ sent[i].of = o
      <4>1. b[i - o + 1] = o + (i - o + 1) - 1
        BY <1>b, <3>1
      <4>2. b[i - o + 1] = i
        BY <3>1, <4>1
      <4> QED  BY <1>b, <3>1, <4>2
    <3> QED  BY <3>2
  <2>2. ASSUME NEW i \in F PROVE i \in o..e
    <3>1. i \in Sent /\ sent[i].of = o /\ o \in 1..i
      BY DEF OfInv
    <3>2. ASSUME i > e PROVE FALSE
      <4>1. e + 1 \in Sent /\ e + 1 =< i
        BY <1>t, <3>1, <3>2
      <4>2. sent[e + 1].of = e + 1
        BY <1>t, <4>1 DEF OfInv
      <4>3. sent[e + 1].of =< sent[i].of
        BY <3>1, <4>1 DEF OfInv
      <4>4. e >= o
        BY <1>t, <1>1
      <4> QED  BY <1>t, <3>1, <4>2, <4>3, <4>4
    <3> QED  BY <1>t, <3>1, <3>2
  <2> QED  BY <2>1, <2>2
<1>3. Cardinality(F) = n
  <2>1. o \in Int /\ e \in Int /\ o =< e
    BY <1>t, <1>1
  <2>2. n \in Nat /\ o \in Nat /\ e = o + n - 1
    BY <1>1, <1>t
  <2> HIDE DEF n, o, e, F
  <2>3. Cardinality(o..e) = e - o + 1
    <3>1. Cardinality(o..e) = IF o > e THEN 0 ELSE e - o + 1
      BY <2>1, FS_Interval
    <3> QED  BY <2>1, <3>1
  <2> QED  BY <1>2, <2>2, <2>3
<1>4. FragmentsOf(o) = [k \in 1..n |-> o + k - 1]
  BY <1>3 DEF FragmentsOf
<1>5. b = [k \in 1..n |-> o + k - 1]
  <2>1. \A k \in 1..n : b[k] = o + k - 1
    BY <1>b
  <2>2. b = [k \in 1..n |-> b[k]]
    OBVIOUS
  <2> HIDE DEF o, n
  <2> QED  BY <2>1, <2>2
<1>6. o \in Packets
  BY <1>t, <1>1 DEF Packets
<1> QED  BY <1>4, <1>5, <1>6

(***************************************************************************)
(* The receiver hands over whole packets, unless it joined fragments that  *)
(* are a multiple of Numbers apart or come from different records of the   *)
(* sender: for all lengths of packets, whatever the link loses, delays or  *)
(* repeats, and whenever either end starts anew.                           *)
(***************************************************************************)
THEOREM DeliversWhole == Spec => []Whole
<1>1. WholeInv => Whole
  <2> SUFFICES ASSUME WholeInv, NEW m \in 1..Len(got)
               PROVE  \/ \E o \in Packets : got[m] = FragmentsOf(o)
                      \/ \E k \in 1..Len(got[m]) - 1 : Mistaken(got[m][k], got[m][k + 1])
    BY DEF Whole
  <2>1. got[m] \in Seq(Sent)
    BY DEF WholeInv, TypeOK
  <2>2. got[m] # <<>> /\ (Mixed(got[m]) \/ (Straight(got[m]) /\ Ends(got[m][Len(got[m])])))
    BY DEF WholeInv, GotInv
  <2>3. CASE Mixed(got[m])
    BY <2>3 DEF Mixed
  <2>4. CASE Straight(got[m]) /\ Ends(got[m][Len(got[m])])
    BY <2>1, <2>2, <2>4, StraightIsWhole DEF WholeInv
  <2> QED  BY <2>2, <2>3, <2>4
<1> QED  BY <1>1, WholeInit, WholeStep, PTL DEF Spec

-----------------------------------------------------------------------------
(***************************************************************************)
(* Completeness.  A packet is a parcel: n fragments in a row from place o  *)
(* on, only the first of which starts one and only the last of which does  *)
(* not go on, and whose numbers count up but where they begin again at 0.  *)
(***************************************************************************)
Parcel(o, n) ==
  /\ o \in Sent /\ n \in Nat \ {0} /\ o + n - 1 \in Sent
  /\ \A i \in Sent : sent[i].of = o <=> i \in o..o + n - 1
  /\ \A i \in o..o + n - 1 : (Starts(i) <=> i = o) /\ (GoesOn(i) <=> i # o + n - 1)
  /\ \A i \in o..o + n - 2 : sent[i + 1].seq = 0 \/ sent[i + 1].seq = sent[i].seq + 1

Run(o, n) == [k \in 1..n |-> o + k - 1]

(* Where in q the fragments of a parcel stand in a row, and where in g they are as one *)
Came(q, o, n) == {k \in 0..Len(q) - n : \A j \in 1..n : q[k + j] = o + j - 1}
Handed(g, o, n) == {m \in 1..Len(g) : g[m] = Run(o, n)}

(* The last k elements of q are the first k fragments of parcel o. *)
EndsIn(q, o, k) == k =< Len(q) /\ \A j \in 1..k : q[Len(q) - k + j] = o + j - 1

(* Neighbours in a buffer have numbers that count up. *)
Counting(b) == \A k \in 1..Len(b) - 1 : sent[b[k + 1]].seq = sent[b[k]].seq + 1

ParcelInv == \A o \in Packets : \E n \in Nat : Parcel(o, n)

CountingInv == Counting(defrag) /\ \A m \in 1..Len(got) : Counting(got[m])

(* What has come of a parcel at last is in the buffer. *)
ReadyInv ==
  \A o, n, k \in Nat :
    Parcel(o, n) /\ ~ Wraps(o) /\ k \in 1..n - 1 /\ EndsIn(arrived, o, k) => defrag = Run(o, k)

TimesInv ==
  \A o, n \in Nat :
    Parcel(o, n) /\ ~ Wraps(o) =>
      Cardinality(Came(arrived, o, n)) =< Cardinality(Handed(got, o, n))

CompleteInv == WholeInv /\ ParcelInv /\ CountingInv /\ ReadyInv /\ TimesInv

-----------------------------------------------------------------------------
(* What the sender adds is a parcel, and the others stay. *)

(* The number after a number is the next one or 0. *)
LEMMA NextRest ==
  ASSUME NEW a \in Nat
  PROVE  (a + 1) % Numbers = 0 \/ (a + 1) % Numbers = (a % Numbers) + 1
<1> DEFINE r == a % Numbers
           s == (a + 1) % Numbers
           N == Numbers
<1>n. N \in Nat \ {0}
  BY NumbersAssumption
<1>0. r \in 0..N - 1 /\ s \in 0..N - 1
  BY <1>n
<1>1. Alike(a, r) /\ Alike(a + 1, s)
  BY AlikeRest
<1> HIDE DEF r, s
<1>2. PICK p \in Int : a - r = p * N
  BY <1>1 DEF Alike
<1>3. PICK q \in Int : (a + 1) - s = q * N
  BY <1>1 DEF Alike
<1> HIDE DEF N
<1>4. (q - p) * N = 1 + r - s
  BY <1>0, <1>2, <1>3, <1>n, SMTT(30)
<1>5. PICK d \in Int : d = q - p
  OBVIOUS
<1>6. d * N = 1 + r - s
  BY <1>4, <1>5
<1>7. d >= 0
  <2>1. ASSUME d =< -1 PROVE FALSE
    <3>1. d * N =< -1 * N
      BY <1>n, <2>1, SMTT(30)
    <3> QED  BY <1>0, <1>6, <1>n, <3>1
  <2> QED  BY <2>1
<1>8. d =< 1
  <2>1. ASSUME d >= 2 PROVE FALSE
    <3>1. d * N >= 2 * N
      BY <1>n, <2>1, SMTT(30)
    <3> QED  BY <1>0, <1>6, <1>n, <3>1
  <2> QED  BY <2>1
<1>9. CASE d = 0
  <2>1. s = r + 1
    BY <1>0, <1>6, <1>9, <1>n
  <2> QED  BY <2>1 DEF r, s, N
<1>10. CASE d = 1
  <2>1. 1 * N = N
    BY <1>n
  <2>2. s = 0
    BY <1>0, <1>6, <1>10, <1>n, <2>1
  <2> QED  BY <2>2 DEF s, N
<1> QED  BY <1>7, <1>8, <1>9, <1>10

LEMMA FlagShape ==
  ASSUME NEW w \in Nat \ {0}, NEW k \in 1..w
  PROVE  /\ Flag(k, w) \in {"single", "first", "plain"} <=> k = 1
         /\ Flag(k, w) \in {"first", "mid"} <=> k # w
  BY DEF Flag

(* The fields of a fragment that is added *)
LEMMA AddedFields ==
  ASSUME NEW w, Added(w), NEW L, L = Len(sent), NEW k \in 1..w
  PROVE  /\ sent'[L + k].of = L + 1
         /\ sent'[L + k].flag = IF fragmenting THEN Flag(k, w) ELSE "plain"
         /\ sent'[L + k].seq = IF fragmenting THEN (sendseq + k - 1) % Numbers ELSE 0
<1> DEFINE q == IF fragmenting THEN (sendseq + k - 1) % Numbers ELSE 0
           f == IF fragmenting THEN Flag(k, w) ELSE "plain"
<1>1. sent'[L + k] = [seq |-> q, flag |-> f, of |-> L + 1, epoch |-> epoch]
  BY DEF Added
<1> HIDE DEF q, f
<1>2. sent'[L + k].of = L + 1 /\ sent'[L + k].flag = f /\ sent'[L + k].seq = q
  BY <1>1
<1> QED  BY <1>2 DEF q, f

LEMMA ParcelAdded ==
  ASSUME TypeOK, OfInv, NEW w \in Nat \ {0}, Added(w), ~ fragmenting => w = 1,
         NEW L, L = Len(sent)
  PROVE  Parcel(L + 1, w)'
<1>0. L \in Nat /\ L = Len(sent)
  BY DEF TypeOK
<1>s. Sent = 1..L /\ Sent' = 1..L + w /\ sendseq \in Nat
  BY <1>0 DEF Sent, Added, TypeOK
<1>1. ASSUME NEW k \in 1..w
      PROVE  /\ sent'[L + k].of = L + 1
             /\ sent'[L + k].flag = IF fragmenting THEN Flag(k, w) ELSE "plain"
             /\ sent'[L + k].seq = IF fragmenting THEN (sendseq + k - 1) % Numbers ELSE 0
  BY <1>0, AddedFields
<1>o. \A i \in 1..L : sent'[i] = sent[i] /\ sent[i].of \in 1..i
  BY <1>0, <1>s DEF Added, OfInv
<1>2. ASSUME NEW i \in 1..L + w PROVE sent'[i].of = L + 1 <=> i \in L + 1..L + w
  <2>1. CASE i \in 1..L
    <3>1. sent'[i].of \in 1..i
      BY <1>o, <2>1
    <3> QED  BY <1>0, <2>1, <3>1
  <2>2. CASE i \notin 1..L
    <3>1. i - L \in 1..w /\ L + (i - L) = i /\ i \in L + 1..L + w
      BY <1>0, <2>2
    <3> QED  BY <1>1, <3>1
  <2> QED  BY <2>1, <2>2
<1>3. ASSUME NEW i \in L + 1..L + w
      PROVE  (Starts(i)' <=> i = L + 1) /\ (GoesOn(i)' <=> i # L + w)
  <2>1. PICK k \in 1..w : i = L + k
    <3>1. i - L \in 1..w /\ L + (i - L) = i
      BY <1>0
    <3> QED  BY <3>1
  <2>2. (i = L + 1 <=> k = 1) /\ (i = L + w <=> k = w)
    BY <1>0, <2>1
  <2>3. sent'[i].flag = IF fragmenting THEN Flag(k, w) ELSE "plain"
    BY <1>1, <2>1
  <2>4. CASE fragmenting
    BY <2>2, <2>3, <2>4, FlagShape DEF Starts, GoesOn
  <2>5. CASE ~ fragmenting
    <3>1. k = 1 /\ w = 1
      BY <2>5
    <3> QED  BY <2>2, <2>3, <2>5, <3>1 DEF Starts, GoesOn
  <2> QED  BY <2>4, <2>5
<1>4. ASSUME NEW i \in L + 1..L + w - 1
      PROVE  sent'[i + 1].seq = 0 \/ sent'[i + 1].seq = sent'[i].seq + 1
  <2>1. PICK k \in 1..w : i = L + k /\ k + 1 \in 1..w
    <3>1. i - L \in 1..w /\ L + (i - L) = i /\ (i - L) + 1 \in 1..w
      BY <1>0
    <3> QED  BY <3>1
  <2>2. /\ sent'[i].seq = IF fragmenting THEN (sendseq + k - 1) % Numbers ELSE 0
        /\ sent'[i + 1].seq = IF fragmenting THEN (sendseq + (k + 1) - 1) % Numbers ELSE 0
    <3>1. i + 1 = L + (k + 1)
      BY <1>0, <2>1
    <3> QED  BY <1>1, <2>1, <3>1
  <2> DEFINE a == sendseq + k - 1
  <2>3. a \in Nat /\ sendseq + (k + 1) - 1 = a + 1
    BY <1>s
  <2> HIDE DEF a
  <2>4. (a + 1) % Numbers = 0 \/ (a + 1) % Numbers = (a % Numbers) + 1
    BY <2>3, NextRest
  <2> QED  BY <2>2, <2>3, <2>4 DEF a
<1>5. L + 1 \in 1..L + w /\ (L + 1) + w - 1 = L + w /\ (L + 1) + w - 2 = L + w - 1 /\ L + w \in 1..L + w
  BY <1>0
<1>6. Parcel(L + 1, w)'
  BY <1>2, <1>3, <1>4, <1>5, <1>s DEF Parcel
<1> QED  BY <1>6

LEMMA ParcelSame ==
  ASSUME TypeOK, NEW w \in Nat \ {0}, Added(w), NEW o \in Sent, NEW n \in Nat
  PROVE  (Parcel(o, n)' <=> Parcel(o, n)) /\ (Wraps(o)' <=> Wraps(o))
<1>0. PICK L \in Nat : L = Len(sent)
  BY DEF TypeOK
<1>s. Sent = 1..L /\ Sent' = 1..L + w /\ o \in 1..L
  BY <1>0 DEF Sent, Added
<1>o. \A i \in 1..L : sent'[i] = sent[i] /\ (Starts(i)' <=> Starts(i)) /\ (GoesOn(i)' <=> GoesOn(i))
  BY <1>0 DEF Added, Starts, GoesOn
<1>n. ASSUME NEW i \in 1..L + w, i \notin 1..L PROVE sent'[i].of = L + 1
  <2>1. i - L \in 1..w /\ L + (i - L) = i
    BY <1>0, <1>n
  <2>2. sent'[L + (i - L)].of = L + 1
    BY <1>0, <2>1, AddedFields
  <2> QED  BY <2>1, <2>2
<1>w. Wraps(o)' <=> Wraps(o)
  BY <1>n, <1>o, <1>s DEF Wraps
<1>1. ASSUME Parcel(o, n) PROVE Parcel(o, n)'
  <2>1. /\ n \in Nat \ {0} /\ o + n - 1 \in 1..L
        /\ \A i \in 1..L : sent[i].of = o <=> i \in o..o + n - 1
        /\ \A i \in o..o + n - 1 : (Starts(i) <=> i = o) /\ (GoesOn(i) <=> i # o + n - 1)
        /\ \A i \in o..o + n - 2 : sent[i + 1].seq = 0 \/ sent[i + 1].seq = sent[i].seq + 1
    BY <1>1, <1>s DEF Parcel
  <2>2. (\A i \in o..o + n - 1 : i \in 1..L) /\ (\A i \in o..o + n - 2 : i \in 1..L /\ i + 1 \in 1..L)
    BY <1>s, <2>1
  <2>3. o \in Sent' /\ o + n - 1 \in Sent'
    BY <1>s, <2>1
  <2>4. \A i \in Sent' : sent'[i].of = o <=> i \in o..o + n - 1
    BY <1>n, <1>o, <1>s, <2>1, <2>2
  <2>5. \A i \in o..o + n - 1 : (Starts(i)' <=> i = o) /\ (GoesOn(i)' <=> i # o + n - 1)
    BY <1>o, <2>1, <2>2
  <2>6. \A i \in o..o + n - 2 : sent'[i + 1].seq = 0 \/ sent'[i + 1].seq = sent'[i].seq + 1
    BY <1>o, <2>1, <2>2
  <2> QED  BY <2>1, <2>3, <2>4, <2>5, <2>6 DEF Parcel
<1>2. ASSUME Parcel(o, n)' PROVE Parcel(o, n)
  <2>1. /\ n \in Nat \ {0} /\ o + n - 1 \in 1..L + w
        /\ \A i \in 1..L + w : sent'[i].of = o <=> i \in o..o + n - 1
        /\ \A i \in o..o + n - 1 : (Starts(i)' <=> i = o) /\ (GoesOn(i)' <=> i # o + n - 1)
        /\ \A i \in o..o + n - 2 : sent'[i + 1].seq = 0 \/ sent'[i + 1].seq = sent'[i].seq + 1
    BY <1>2, <1>s DEF Parcel
  <2>l. o + n - 1 \in 1..L
    <3>1. o + n - 1 \in o..o + n - 1
      BY <1>s, <2>1
    <3>2. sent'[o + n - 1].of = o /\ o # L + 1
      BY <1>s, <2>1, <3>1
    <3> QED  BY <1>n, <2>1, <3>2
  <2>2. (\A i \in o..o + n - 1 : i \in 1..L) /\ (\A i \in o..o + n - 2 : i \in 1..L /\ i + 1 \in 1..L)
    BY <1>s, <2>1, <2>l
  <2>4. \A i \in Sent : sent[i].of = o <=> i \in o..o + n - 1
    BY <1>o, <1>s, <2>1
  <2>5. \A i \in o..o + n - 1 : (Starts(i) <=> i = o) /\ (GoesOn(i) <=> i # o + n - 1)
    BY <1>o, <2>1, <2>2
  <2>6. \A i \in o..o + n - 2 : sent[i + 1].seq = 0 \/ sent[i + 1].seq = sent[i].seq + 1
    BY <1>o, <2>1, <2>2
  <2> QED  BY <1>s, <2>1, <2>l, <2>4, <2>5, <2>6 DEF Parcel
<1> QED  BY <1>w, <1>1, <1>2

-----------------------------------------------------------------------------
(* What one more arrival, or one more buffer, adds *)

LEMMA EndsAppend ==
  ASSUME NEW S, NEW q \in Seq(S), NEW x \in S, NEW o \in Nat, NEW k \in Nat \ {0},
         EndsIn(Append(q, x), o, k)
  PROVE  x = o + k - 1 /\ (k > 1 => EndsIn(q, o, k - 1))
<1> DEFINE p == Append(q, x)
           m == Len(q)
<1>1. /\ m \in Nat /\ Len(p) = m + 1 /\ p[m + 1] = x
      /\ \A j \in 1..m : p[j] = q[j]
  OBVIOUS
<1>2. k =< m + 1 /\ \A j \in 1..k : p[(m + 1) - k + j] = o + j - 1
  BY <1>1 DEF EndsIn
<1> HIDE DEF p, m
<1>3. x = o + k - 1
  <2>1. k \in 1..k /\ (m + 1) - k + k = m + 1
    BY <1>1
  <2> QED  BY <1>1, <1>2, <2>1
<1>4. ASSUME k > 1 PROVE EndsIn(q, o, k - 1)
  <2>1. ASSUME NEW j \in 1..k - 1 PROVE q[m - (k - 1) + j] = o + j - 1
    <3>1. j \in 1..k /\ (m + 1) - k + j = m - (k - 1) + j /\ m - (k - 1) + j \in 1..m
      BY <1>1, <1>2
    <3> QED  BY <1>1, <1>2, <3>1
  <2>2. k - 1 =< m
    BY <1>1, <1>2
  <2> QED  BY <2>1, <2>2 DEF EndsIn, m
<1> QED  BY <1>3, <1>4

LEMMA CameFinite ==
  ASSUME NEW S, NEW q \in Seq(S), NEW o \in Nat, NEW n \in Nat
  PROVE  IsFiniteSet(Came(q, o, n)) /\ Cardinality(Came(q, o, n)) \in Nat
<1>1. IsFiniteSet(0..Len(q) - n)
  <2>1. Len(q) - n \in Int
    OBVIOUS
  <2> QED  BY <2>1, FS_Interval
<1>2. IsFiniteSet(Came(q, o, n))
  BY <1>1, FS_Subset DEF Came
<1> QED  BY <1>2, FS_CardinalityType

LEMMA CameAppend ==
  ASSUME NEW S, NEW q \in Seq(S), NEW x \in S, NEW o \in Nat, NEW n \in Nat \ {0}
  PROVE  /\ Cardinality(Came(Append(q, x), o, n)) =< Cardinality(Came(q, o, n)) + 1
         /\ ~ EndsIn(Append(q, x), o, n) => Came(Append(q, x), o, n) = Came(q, o, n)
<1> DEFINE p == Append(q, x)
           m == Len(q)
           A == Came(q, o, n)
           B == Came(p, o, n)
           e == (m + 1) - n
<1>1. /\ p \in Seq(S) /\ m \in Nat /\ Len(p) = m + 1 /\ p[m + 1] = x
      /\ \A j \in 1..m : p[j] = q[j]
  OBVIOUS
<1> HIDE DEF p
<1>2. ASSUME NEW k \in B PROVE k \in A \/ k = e
  <2>1. k \in 0..(m + 1) - n /\ \A j \in 1..n : p[k + j] = o + j - 1
    BY <1>1 DEF Came
  <2>2. ASSUME k # e PROVE k \in A
    <3>1. k \in 0..m - n
      BY <1>1, <2>1, <2>2
    <3>2. \A j \in 1..n : k + j \in 1..m
      BY <1>1, <3>1
    <3>3. \A j \in 1..n : q[k + j] = o + j - 1
      BY <1>1, <2>1, <3>2
    <3> QED  BY <3>1, <3>3 DEF Came
  <2> QED  BY <2>2
<1>3. ASSUME NEW k \in A PROVE k \in B
  <2>1. k \in 0..m - n /\ \A j \in 1..n : q[k + j] = o + j - 1
    BY DEF Came
  <2>2. k \in 0..Len(p) - n /\ \A j \in 1..n : k + j \in 1..m
    BY <1>1, <2>1
  <2>3. \A j \in 1..n : p[k + j] = o + j - 1
    BY <1>1, <2>1, <2>2
  <2> QED  BY <2>2, <2>3 DEF Came
<1>4. ASSUME e \in B PROVE EndsIn(p, o, n)
  <2>1. e \in 0..(m + 1) - n /\ \A j \in 1..n : p[e + j] = o + j - 1
    BY <1>1, <1>4 DEF Came
  <2>2. n =< Len(p) /\ Len(p) - n = e
    BY <1>1, <2>1
  <2> HIDE DEF e
  <2> QED  BY <2>1, <2>2 DEF EndsIn
<1>5. IsFiniteSet(A) /\ Cardinality(A) \in Nat
  BY CameFinite
<1>6. ~ EndsIn(p, o, n) => B = A
  <2> HIDE DEF A, B, e
  <2> QED  BY <1>2, <1>3, <1>4
<1>7. Cardinality(B) =< Cardinality(A) + 1
  <2>0. B \subseteq A \cup {e}
    <3> HIDE DEF A, B, e
    <3> QED  BY <1>2
  <2> HIDE DEF A, B, e
  <2>1. /\ IsFiniteSet(A \cup {e})
        /\ Cardinality(A \cup {e}) = IF e \in A THEN Cardinality(A) ELSE Cardinality(A) + 1
    BY <1>5, FS_AddElement
  <2>2. Cardinality(B) =< Cardinality(A \cup {e}) /\ Cardinality(B) \in Nat
    BY <2>0, <2>1, FS_Subset, FS_CardinalityType
  <2>3. Cardinality(A \cup {e}) =< Cardinality(A) + 1
    BY <1>5, <2>1
  <2>4. Cardinality(A \cup {e}) \in Nat
    BY <2>1, FS_CardinalityType
  <2> QED  BY <1>5, <2>2, <2>3, <2>4
<1> QED  BY <1>6, <1>7 DEF p

LEMMA HandedFinite ==
  ASSUME NEW T, NEW g \in Seq(T), NEW o, NEW n
  PROVE  IsFiniteSet(Handed(g, o, n)) /\ Cardinality(Handed(g, o, n)) \in Nat
<1>1. IsFiniteSet(1..Len(g))
  <2>1. Len(g) \in Int
    OBVIOUS
  <2> QED  BY <2>1, FS_Interval
<1>2. IsFiniteSet(Handed(g, o, n))
  BY <1>1, FS_Subset DEF Handed
<1> QED  BY <1>2, FS_CardinalityType

LEMMA HandedAppend ==
  ASSUME NEW T, NEW g \in Seq(T), NEW b \in T, NEW o, NEW n
  PROVE  Cardinality(Handed(Append(g, b), o, n)) =
           Cardinality(Handed(g, o, n)) + (IF b = Run(o, n) THEN 1 ELSE 0)
<1> DEFINE h == Append(g, b)
           r == Run(o, n)
           A == Handed(g, o, n)
           B == Handed(h, o, n)
           e == Len(g) + 1
<1>1. /\ Len(g) \in Nat /\ Len(h) = Len(g) + 1 /\ h[e] = b
      /\ \A m \in 1..Len(g) : h[m] = g[m]
  OBVIOUS
<1>2. A = {m \in 1..Len(g) : g[m] = r} /\ B = {m \in 1..Len(h) : h[m] = r}
  BY DEF Handed
<1>3. IsFiniteSet(A) /\ Cardinality(A) \in Nat
  BY HandedFinite
<1> HIDE DEF h, r, A, B
<1>4. (b = r => B = A \cup {e}) /\ (b # r => B = A) /\ e \notin A
  BY <1>1, <1>2
<1> HIDE DEF e
<1>5. b = r => Cardinality(B) = Cardinality(A) + 1
  BY <1>3, <1>4, FS_AddElement
<1>6. Cardinality(B) = Cardinality(A) + (IF b = r THEN 1 ELSE 0)
  BY <1>3, <1>4, <1>5
<1> QED  BY <1>6 DEF A, B, h, r

-----------------------------------------------------------------------------
(* What the receiver does with the next fragment of a parcel *)

LEMMA RunFacts ==
  ASSUME NEW o \in Nat, NEW k \in Nat \ {0}
  PROVE  /\ Run(o, k) \in Seq(Nat) /\ Len(Run(o, k)) = k
         /\ Run(o, k) # <<>> /\ Run(o, k)[Len(Run(o, k))] = o + k - 1
         /\ k = 1 => <<o>> = Run(o, k)
         /\ k > 1 => Append(Run(o, k - 1), o + k - 1) = Run(o, k)
<1> DEFINE r == Run(o, k)
<1>1. r = [j \in 1..k |-> o + j - 1] /\ \A j \in 1..k : o + j - 1 \in Nat
  BY DEF Run
<1>2. r \in Seq(Nat) /\ Len(r) = k /\ \A j \in 1..k : r[j] = o + j - 1
  BY <1>1
<1> HIDE DEF r
<1>3. r # <<>> /\ r[Len(r)] = o + k - 1
  BY <1>2
<1>4. ASSUME k = 1 PROVE <<o>> = r
  <2>1. <<o>> \in Seq(Nat) /\ Len(<<o>>) = 1 /\ <<o>>[1] = o
    OBVIOUS
  <2>2. r[1] = o
    BY <1>2, <1>4
  <2>3. \A j \in 1..Len(r) : r[j] = <<o>>[j]
    BY <1>2, <1>4, <2>1, <2>2
  <2> QED  BY <1>2, <1>4, <2>1, <2>3, SeqEqual
<1>5. ASSUME k > 1 PROVE Append(Run(o, k - 1), o + k - 1) = r
  <2> DEFINE s == Run(o, k - 1)
             a == Append(s, o + k - 1)
  <2>1. k - 1 \in Nat \ {0} /\ s = [j \in 1..k - 1 |-> o + j - 1] /\ \A j \in 1..k - 1 : o + j - 1 \in Nat
    BY <1>5 DEF Run
  <2>2. s \in Seq(Nat) /\ Len(s) = k - 1 /\ \A j \in 1..k - 1 : s[j] = o + j - 1
    BY <2>1
  <2> HIDE DEF s
  <2>3. /\ a \in Seq(Nat) /\ Len(a) = k /\ a[k] = o + k - 1
        /\ \A j \in 1..k - 1 : a[j] = s[j]
    BY <2>1, <2>2
  <2> HIDE DEF a
  <2>4. \A j \in 1..k : a[j] = r[j]
    <3>1. ASSUME NEW j \in 1..k PROVE a[j] = r[j]
      <4>1. CASE j \in 1..k - 1
        BY <1>2, <2>2, <2>3, <4>1
      <4>2. CASE j = k
        BY <1>2, <2>3, <4>2
      <4> QED  BY <4>1, <4>2
    <3> QED  BY <3>1
  <2>5. a = r
    BY <1>2, <2>3, <2>4, SeqEqual
  <2> QED  BY <2>5 DEF a, s
<1> QED  BY <1>2, <1>3, <1>4, <1>5 DEF r

LEMMA Completes ==
  ASSUME TypeOK, HeldInv, ReadyInv, NEW i \in Sent, Receive(i), NEW o \in Nat, NEW n \in Nat,
         Parcel(o, n), ~ Wraps(o), NEW k \in 1..n, EndsIn(arrived', o, k)
  PROVE  /\ k < n => defrag' = Run(o, k)
         /\ k = n => got' = Append(got, Run(o, n))
<1>t. /\ arrived \in Seq(Sent \cup {Forgot}) /\ arrived' = Append(arrived, i)
      /\ sent[i].flag \in {"single", "first", "mid", "last", "plain"}
  <2>1. sent[i] \in Fragment
    BY DEF TypeOK, Sent
  <2> QED  BY <2>1 DEF TypeOK, Receive, Fragment
<1>1. i = o + k - 1 /\ (k > 1 => EndsIn(arrived, o, k - 1))
  <2> DEFINE S == Sent \cup {Forgot}
  <2>1. arrived \in Seq(S) /\ i \in S /\ k \in Nat \ {0} /\ EndsIn(Append(arrived, i), o, k)
    BY <1>t
  <2> HIDE DEF S
  <2> QED  BY <2>1, EndsAppend
<1>2. /\ n \in Nat \ {0} /\ i \in o..o + n - 1 /\ (i = o <=> k = 1) /\ (i = o + n - 1 <=> k = n)
      /\ (Starts(i) <=> k = 1) /\ (GoesOn(i) <=> k # n)
  <2>1. i \in o..o + n - 1 /\ (i = o <=> k = 1) /\ (i = o + n - 1 <=> k = n)
    BY <1>1
  <2> QED  BY <2>1 DEF Parcel
<1>3. CASE k = 1
  <2>1. <<i>> = Run(o, k)
    BY <1>1, <1>3, RunFacts
  <2>2. CASE k = n
    <3>1. sent[i].flag \in {"single", "plain"}
      BY <1>2, <1>3, <1>t, <2>2 DEF Starts, GoesOn
    <3>2. got' = Append(got, <<i>>)
      BY <3>1 DEF Receive
    <3> QED  BY <2>1, <2>2, <3>2
  <2>3. CASE k < n
    <3>1. sent[i].flag = "first"
      BY <1>2, <1>3, <1>t, <2>3 DEF Starts, GoesOn
    <3>2. defrag' = <<i>>
      BY <3>1 DEF Receive
    <3> QED  BY <2>1, <2>3, <3>2
  <2> QED  BY <2>2, <2>3
<1>4. CASE k > 1
  <2>1. defrag = Run(o, k - 1) /\ k - 1 \in Nat \ {0}
    <3>1. k - 1 \in 1..n - 1 /\ k - 1 \in Nat \ {0}
      BY <1>4
    <3>2. EndsIn(arrived, o, k - 1)
      BY <1>1, <1>4
    <3> QED  BY <3>1, <3>2 DEF ReadyInv
  <2>2. defrag # <<>> /\ defrag[Len(defrag)] = i - 1
    <3>1. Run(o, k - 1) # <<>> /\ Run(o, k - 1)[Len(Run(o, k - 1))] = o + (k - 1) - 1
      BY <2>1, RunFacts
    <3> QED  BY <1>1, <2>1, <3>1
  <2>3. recvseq = sent[i - 1].seq + 1
    BY <2>2 DEF HeldInv
  <2>4. sent[i].seq = sent[i - 1].seq + 1
    <3>1. i - 1 \in o..o + n - 2 /\ (i - 1) + 1 = i /\ i # o
      BY <1>1, <1>4
    <3>2. sent[i].seq = 0 \/ sent[i].seq = sent[i - 1].seq + 1
      BY <3>1 DEF Parcel
    <3>3. sent[i].of = o
      BY <1>2 DEF Parcel
    <3>4. sent[i].seq # 0
      BY <3>1, <3>3 DEF Wraps
    <3> QED  BY <3>2, <3>4
  <2>5. Kept(i) = defrag /\ Append(defrag, i) = Run(o, k)
    <3>1. Append(Run(o, k - 1), o + k - 1) = Run(o, k)
      BY <1>4, RunFacts
    <3> QED  BY <1>1, <2>1, <2>3, <2>4, <3>1 DEF Kept
  <2>6. CASE k = n
    <3>1. sent[i].flag = "last"
      BY <1>2, <1>4, <1>t, <2>6 DEF Starts, GoesOn
    <3>2. got' = IF Kept(i) = <<>> THEN got ELSE Append(got, Append(Kept(i), i))
      BY <3>1 DEF Receive
    <3>3. got' = Append(got, Run(o, k))
      BY <2>2, <2>5, <3>2
    <3> QED  BY <2>6, <3>3
  <2>7. CASE k < n
    <3>1. sent[i].flag = "mid"
      BY <1>2, <1>4, <1>t, <2>7 DEF Starts, GoesOn
    <3>2. defrag' = IF Kept(i) = <<>> THEN <<>> ELSE Append(Kept(i), i)
      BY <3>1 DEF Receive
    <3>3. defrag' = Run(o, k)
      BY <2>2, <2>5, <3>2
    <3> QED  BY <2>7, <3>3
  <2> QED  BY <2>6, <2>7
<1> QED  BY <1>3, <1>4

LEMMA ParcelStays ==
  ASSUME sent' = sent, NEW o, NEW n
  PROVE  (Parcel(o, n)' <=> Parcel(o, n)) /\ (Wraps(o)' <=> Wraps(o))
  BY DEF Parcel, Wraps, Sent, Starts, GoesOn

LEMMA GotGrows ==
  ASSUME TypeOK, NEW i \in Sent, Receive(i)
  PROVE  got' = got \/ \E b \in Seq(Sent) : got' = Append(got, b)
<1>1. <<i>> \in Seq(Sent) /\ Append(Kept(i), i) \in Seq(Sent)
  <2>1. Kept(i) \in Seq(Sent)
    BY DEF Kept, TypeOK
  <2> QED  BY <2>1
<1>2. got' = got \/ got' = Append(got, <<i>>) \/ got' = Append(got, Append(Kept(i), i))
  BY DEF Receive
<1> QED  BY <1>1, <1>2

LEMMA ReceiveTimes ==
  ASSUME TypeOK, HeldInv, ReadyInv, TimesInv, NEW i \in Sent, Receive(i), sent' = sent
  PROVE  ReadyInv' /\ TimesInv'
<1>t. arrived \in Seq(Sent \cup {Forgot}) /\ arrived' = Append(arrived, i) /\ got \in Seq(Seq(Sent))
  BY DEF TypeOK, Receive
<1>1. ReadyInv'
  <2> SUFFICES ASSUME NEW o \in Nat, NEW n \in Nat, NEW k \in Nat,
                      Parcel(o, n)', ~ Wraps(o)', k \in 1..n - 1, EndsIn(arrived', o, k)
               PROVE  defrag' = Run(o, k)
    BY DEF ReadyInv
  <2>1. Parcel(o, n) /\ ~ Wraps(o) /\ k \in 1..n /\ k < n
    BY ParcelStays
  <2> QED  BY <2>1, Completes
<1>2. TimesInv'
  <2> SUFFICES ASSUME NEW o \in Nat, NEW n \in Nat, Parcel(o, n)', ~ Wraps(o)'
               PROVE  Cardinality(Came(arrived', o, n)) =< Cardinality(Handed(got', o, n))
    BY DEF TimesInv
  <2> DEFINE S == Sent \cup {Forgot}
             T == Seq(Sent)
             a == Cardinality(Came(arrived, o, n))
             b == Cardinality(Came(arrived', o, n))
             c == Cardinality(Handed(got, o, n))
             d == Cardinality(Handed(got', o, n))
  <2>1. Parcel(o, n) /\ ~ Wraps(o)
    BY ParcelStays
  <2>2. n \in Nat \ {0}
    BY <2>1 DEF Parcel
  <2>3. a \in Nat /\ b \in Nat /\ b =< a + 1 /\ (~ EndsIn(arrived', o, n) => b = a)
    <3> HIDE DEF S
    <3>1. arrived \in Seq(S) /\ i \in S /\ Append(arrived, i) \in Seq(S)
      BY <1>t DEF S
    <3>2. a \in Nat /\ Cardinality(Came(Append(arrived, i), o, n)) \in Nat
      BY <3>1, CameFinite
    <3>3. /\ Cardinality(Came(Append(arrived, i), o, n)) =< Cardinality(Came(arrived, o, n)) + 1
          /\ ~ EndsIn(Append(arrived, i), o, n) => Came(Append(arrived, i), o, n) = Came(arrived, o, n)
      BY <2>2, <3>1, CameAppend
    <3> QED  BY <1>t, <3>2, <3>3
  <2>4. c \in Nat /\ d \in Nat /\ d >= c
    <3> HIDE DEF T
    <3>1. got \in Seq(T) /\ c \in Nat
      BY <1>t, HandedFinite DEF T
    <3>2. CASE got' = got
      BY <3>1, <3>2
    <3>3. ASSUME NEW x \in T, got' = Append(got, x) PROVE c \in Nat /\ d \in Nat /\ d >= c
      <4>1. Cardinality(Handed(Append(got, x), o, n)) = c + (IF x = Run(o, n) THEN 1 ELSE 0)
        BY <3>1, HandedAppend
      <4> QED  BY <3>1, <3>3, <4>1
    <3>4. got' = got \/ \E x \in T : got' = Append(got, x)
      BY GotGrows DEF T
    <3> HIDE DEF c, d
    <3> QED  BY <3>2, <3>3, <3>4, Zenon
  <2>5. a =< c
    BY <2>1 DEF TimesInv
  <2>6. CASE EndsIn(arrived', o, n)
    <3>1. got' = Append(got, Run(o, n))
      <4>1. n \in 1..n
        BY <2>2
      <4> QED  BY <2>1, <2>6, <4>1, Completes
    <3>2. d = c + 1
      <4> DEFINE U == T \cup {Run(o, n)}
      <4>1. got \in Seq(U) /\ Run(o, n) \in U
        BY <1>t, SeqGrows
      <4> HIDE DEF U
      <4>2. Cardinality(Handed(Append(got, Run(o, n)), o, n)) = Cardinality(Handed(got, o, n)) + 1
        BY <4>1, HandedAppend
      <4> QED  BY <3>1, <4>2
    <3> HIDE DEF a, b, c, d
    <3>3. b =< d
      BY <2>3, <2>4, <2>5, <3>2
    <3> QED  BY <3>3 DEF b, d
  <2>7. CASE ~ EndsIn(arrived', o, n)
    <3> HIDE DEF a, b, c, d
    <3>1. b =< d
      BY <2>3, <2>4, <2>5, <2>7
    <3> QED  BY <3>1 DEF b, d
  <2> QED  BY <2>6, <2>7
<1> QED  BY <1>1, <1>2

-----------------------------------------------------------------------------
(* The numbers in a buffer count up. *)

LEMMA ReceiveCounting ==
  ASSUME TypeOK, HeldInv, CountingInv, NEW i \in Sent, Receive(i), sent' = sent
  PROVE  CountingInv'
<1>t. defrag \in Seq(Sent) /\ got \in Seq(Seq(Sent))
  BY DEF TypeOK
<1>1. Counting(<<i>>) /\ Counting(<<>>)
  BY DEF Counting
<1>2. ASSUME Kept(i) # <<>> PROVE Counting(Append(Kept(i), i))
  <2> DEFINE m == Len(defrag)
             b == Append(defrag, i)
  <2>1. Kept(i) = defrag /\ defrag # <<>> /\ sent[i].seq = recvseq
    BY <1>2 DEF Kept
  <2>2. /\ m \in Nat \ {0} /\ Len(b) = m + 1 /\ b[m + 1] = i
        /\ \A k \in 1..m : b[k] = defrag[k]
    BY <1>t, <2>1
  <2>3. sent[i].seq = sent[defrag[m]].seq + 1
    BY <2>1 DEF HeldInv
  <2> HIDE DEF b, m
  <2>4. ASSUME NEW k \in 1..m PROVE sent[b[k + 1]].seq = sent[b[k]].seq + 1
    <3>1. CASE k = m
      BY <2>2, <2>3, <3>1
    <3>2. CASE k # m
      <4>1. k \in 1..m - 1 /\ k + 1 \in 1..m
        BY <2>2, <3>2
      <4>2. sent[defrag[k + 1]].seq = sent[defrag[k]].seq + 1
        BY <4>1 DEF CountingInv, Counting, m
      <4> QED  BY <2>2, <4>1, <4>2
    <3> QED  BY <3>1, <3>2
  <2>5. Len(b) - 1 = m
    BY <2>2
  <2>6. Counting(b)
    BY <2>4, <2>5 DEF Counting
  <2> QED  BY <2>1, <2>6 DEF b
<1>3. Counting(defrag')
  <2>1. defrag' \in {defrag, <<>>, <<i>>} \/ (Kept(i) # <<>> /\ defrag' = Append(Kept(i), i))
    BY DEF Receive
  <2> QED  BY <1>1, <1>2, <2>1 DEF CountingInv
<1>4. \/ got' = got
      \/ \E b \in Seq(Sent) : got' = Append(got, b) /\ Counting(b)
  <2>1. \/ got' = got \/ got' = Append(got, <<i>>)
        \/ Kept(i) # <<>> /\ got' = Append(got, Append(Kept(i), i))
    BY DEF Receive
  <2>2. <<i>> \in Seq(Sent) /\ Append(Kept(i), i) \in Seq(Sent)
    <3>1. Kept(i) \in Seq(Sent)
      BY <1>t DEF Kept
    <3> QED  BY <3>1
  <2> QED  BY <1>1, <1>2, <2>1, <2>2
<1>5. ASSUME NEW m \in 1..Len(got') PROVE Counting(got'[m])
  <2>1. CASE got' = got
    BY <2>1 DEF CountingInv
  <2>2. ASSUME NEW b \in Seq(Sent), got' = Append(got, b), Counting(b) PROVE Counting(got'[m])
    <3>1. (m \in 1..Len(got) /\ got'[m] = got[m]) \/ got'[m] = b
      <4> DEFINE T == Seq(Sent)
      <4>1. got \in Seq(T) /\ b \in T
        BY <1>t
      <4> HIDE DEF T
      <4> QED  BY <2>2, <4>1
    <3> QED  BY <2>2, <3>1 DEF CountingInv
  <2> QED  BY <1>4, <2>1, <2>2
<1>6. \A b : Counting(b)' <=> Counting(b')
  BY DEF Counting
<1> QED  BY <1>3, <1>5 DEF CountingInv, Counting

(* Buffers keep counting when more is sent. *)
LEMMA CountingStays ==
  ASSUME TypeOK, CountingInv, \A i \in Sent : sent'[i] = sent[i], UNCHANGED <<defrag, got>>
  PROVE  CountingInv'
<1>1. ASSUME NEW b \in Seq(Sent), Counting(b)
      PROVE  \A k \in 1..Len(b) - 1 : sent'[b[k + 1]].seq = sent'[b[k]].seq + 1
  <2> SUFFICES ASSUME NEW k \in 1..Len(b) - 1 PROVE sent'[b[k + 1]].seq = sent'[b[k]].seq + 1
    OBVIOUS
  <2>1. b[k] \in Sent /\ b[k + 1] \in Sent
    <3>1. k \in 1..Len(b) /\ k + 1 \in 1..Len(b)
      OBVIOUS
    <3> QED  BY <3>1, ElementOfSeq
  <2>2. sent[b[k + 1]].seq = sent[b[k]].seq + 1
    BY <1>1 DEF Counting
  <2> QED  BY <2>1, <2>2
<1>2. Counting(defrag)'
  <2>1. defrag \in Seq(Sent) /\ Counting(defrag)
    BY DEF TypeOK, CountingInv
  <2>2. \A k \in 1..Len(defrag) - 1 : sent'[defrag[k + 1]].seq = sent'[defrag[k]].seq + 1
    BY <1>1, <2>1
  <2> QED  BY <2>2 DEF Counting
<1>3. ASSUME NEW m \in 1..Len(got) PROVE Counting(got[m])'
  <2>1. got[m] \in Seq(Sent) /\ Counting(got[m])
    BY DEF TypeOK, CountingInv
  <2>2. \A k \in 1..Len(got[m]) - 1 : sent'[got[m][k + 1]].seq = sent'[got[m][k]].seq + 1
    BY <1>1, <2>1
  <2> QED  BY <2>2 DEF Counting
<1> QED  BY <1>2, <1>3 DEF CountingInv
-----------------------------------------------------------------------------
(* A new packet, of which nothing came yet *)

LEMMA SendComplete ==
  ASSUME CompleteInv, NEW w \in Nat \ {0}, Added(w), ~ fragmenting => w = 1,
         UNCHANGED <<arrived, got, defrag>>
  PROVE  ParcelInv' /\ CountingInv' /\ ReadyInv' /\ TimesInv'
<1> USE DEF CompleteInv, WholeInv
<1>0. PICK L \in Nat : L = Len(sent)
  BY DEF TypeOK
<1>s. Sent = 1..L /\ Sent' = 1..L + w /\ \A i \in Sent : sent'[i] = sent[i]
  BY <1>0 DEF Sent, Added
<1>a. arrived \in Seq(Sent \cup {Forgot}) /\ got \in Seq(Seq(Sent))
  BY DEF TypeOK
<1>1. ParcelInv'
  <2> SUFFICES ASSUME NEW o \in Packets' PROVE \E n \in Nat : Parcel(o, n)'
    BY DEF ParcelInv
  <2>1. PICK i \in 1..L + w : sent'[i].of = o
    BY <1>s DEF Packets
  <2>2. CASE i \in 1..L
    <3>1. o \in Packets /\ o \in Sent
      <4>1. sent[i].of = o /\ i \in Sent
        BY <1>s, <2>1, <2>2
      <4>2. sent[i].of \in 1..i
        BY <4>1 DEF OfInv
      <4> QED  BY <1>s, <2>2, <4>1, <4>2 DEF Packets
    <3>2. PICK n \in Nat : Parcel(o, n)
      BY <3>1 DEF ParcelInv
    <3>3. Parcel(o, n)'
      BY <3>1, <3>2, ParcelSame
    <3> QED  BY <3>3
  <2>3. CASE i \notin 1..L
    <3>1. i - L \in 1..w /\ L + (i - L) = i
      BY <1>0, <2>3
    <3>2. sent'[L + (i - L)].of = L + 1
      BY <1>0, <3>1, AddedFields
    <3>3. o = L + 1
      BY <2>1, <3>1, <3>2
    <3>4. Parcel(L + 1, w)'
      BY <1>0, ParcelAdded
    <3> QED  BY <3>3, <3>4
  <2> QED  BY <2>2, <2>3
<1>2. CountingInv'
  BY <1>s, CountingStays
<1>3. ASSUME NEW o \in Nat, NEW n \in Nat, NEW k \in Nat, Parcel(o, n)', o \notin Sent
      PROVE  ~ (k \in 1..n /\ EndsIn(arrived, o, k)) /\ Came(arrived, o, n) = {}
  <2>1. o \in 1..L + w /\ o > L /\ n \in Nat \ {0}
    <3>1. o \in Sent' /\ n \in Nat \ {0}
      BY <1>3 DEF Parcel
    <3> QED  BY <1>0, <1>3, <1>s, <3>1
  <2>2. \A j \in 1..Len(arrived) : arrived[j] # o
    <3>1. \A j \in 1..Len(arrived) : arrived[j] \in 1..L \cup {0}
      BY <1>a, <1>s DEF Forgot
    <3> QED  BY <1>0, <2>1, <3>1
  <2>3. ASSUME k \in 1..n, EndsIn(arrived, o, k) PROVE FALSE
    <3>1. k =< Len(arrived) /\ arrived[Len(arrived) - k + 1] = o + 1 - 1 /\ Len(arrived) \in Nat
      <4>1. 1 \in 1..k
        BY <2>3
      <4> QED  BY <1>a, <2>3, <4>1 DEF EndsIn
    <3>2. Len(arrived) - k + 1 \in 1..Len(arrived) /\ o + 1 - 1 = o
      BY <2>3, <3>1
    <3> QED  BY <2>2, <3>1, <3>2
  <2>4. ASSUME NEW x \in Came(arrived, o, n) PROVE FALSE
    <3>1. x \in 0..Len(arrived) - n /\ Len(arrived) \in Nat /\ arrived[x + 1] = o + 1 - 1
      <4>1. 1 \in 1..n
        BY <2>1
      <4> QED  BY <1>a, <4>1 DEF Came
    <3>2. x + 1 \in 1..Len(arrived) /\ o + 1 - 1 = o
      BY <2>1, <3>1
    <3> QED  BY <2>2, <3>1, <3>2
  <2> QED  BY <2>3, <2>4
<1>4. ReadyInv'
  <2> SUFFICES ASSUME NEW o \in Nat, NEW n \in Nat, NEW k \in Nat,
                      Parcel(o, n)', ~ Wraps(o)', k \in 1..n - 1, EndsIn(arrived, o, k)
               PROVE  defrag = Run(o, k)
    BY DEF ReadyInv
  <2>1. k \in 1..n
    OBVIOUS
  <2>2. o \in Sent
    BY <1>3, <2>1
  <2>3. Parcel(o, n) /\ ~ Wraps(o)
    BY <2>2, ParcelSame
  <2> QED  BY <2>3 DEF ReadyInv
<1>5. TimesInv'
  <2> SUFFICES ASSUME NEW o \in Nat, NEW n \in Nat, Parcel(o, n)', ~ Wraps(o)'
               PROVE  Cardinality(Came(arrived, o, n)) =< Cardinality(Handed(got, o, n))
    BY DEF TimesInv
  <2>1. CASE o \in Sent
    <3>1. Parcel(o, n) /\ ~ Wraps(o)
      BY <2>1, ParcelSame
    <3> QED  BY <3>1 DEF TimesInv
  <2>2. CASE o \notin Sent
    <3>1. Cardinality(Came(arrived, o, n)) = 0
      <4>1. Came(arrived, o, n) = {}
        BY <1>3, <2>2
      <4> QED  BY <4>1, FS_EmptySet
    <3>2. Cardinality(Handed(got, o, n)) \in Nat
      <4> DEFINE T == Seq(Sent)
      <4>1. got \in Seq(T)
        BY <1>a
      <4> HIDE DEF T
      <4> QED  BY <4>1, HandedFinite
    <3> QED  BY <3>1, <3>2
  <2> QED  BY <2>1, <2>2
<1> QED  BY <1>1, <1>2, <1>4, <1>5

-----------------------------------------------------------------------------
LEMMA ForgetComplete ==
  ASSUME CompleteInv, Forget
  PROVE  ParcelInv' /\ CountingInv' /\ ReadyInv' /\ TimesInv'
<1> USE DEF CompleteInv, WholeInv
<1>1. /\ sent' = sent /\ arrived' = Append(arrived, Forgot) /\ defrag' = <<>> /\ got' = got
      /\ arrived \in Seq(Sent \cup {Forgot})
  BY DEF Forget, sender, TypeOK
<1>2. ParcelInv'
  BY <1>1, ParcelStays DEF ParcelInv, Packets, Sent
<1>3. CountingInv'
  BY <1>1 DEF CountingInv, Counting
<1>4. ASSUME NEW o \in Nat, NEW k \in Nat \ {0}, o \in Sent
      PROVE  ~ EndsIn(arrived', o, k)
  <2> SUFFICES ASSUME EndsIn(arrived', o, k) PROVE FALSE
    OBVIOUS
  <2> DEFINE S == Sent \cup {Forgot}
  <2>1. arrived \in Seq(S) /\ Forgot \in S
    BY <1>1
  <2> HIDE DEF S
  <2>2. Forgot = o + k - 1
    BY <1>1, <2>1, EndsAppend
  <2> QED  BY <1>4, <2>2 DEF Forgot, Sent
<1>5. ReadyInv'
  <2> SUFFICES ASSUME NEW o \in Nat, NEW n \in Nat, NEW k \in Nat,
                      Parcel(o, n)', k \in 1..n - 1, EndsIn(arrived', o, k)
               PROVE  FALSE
    BY DEF ReadyInv
  <2>1. o \in Sent
    BY <1>1, ParcelStays DEF Parcel
  <2> QED  BY <1>4, <2>1
<1>6. TimesInv'
  <2> SUFFICES ASSUME NEW o \in Nat, NEW n \in Nat, Parcel(o, n)', ~ Wraps(o)'
               PROVE  Cardinality(Came(arrived', o, n)) =< Cardinality(Handed(got, o, n))
    BY <1>1 DEF TimesInv
  <2>1. Parcel(o, n) /\ ~ Wraps(o)
    BY <1>1, ParcelStays
  <2>2. o \in Sent /\ n \in Nat \ {0}
    BY <2>1 DEF Parcel
  <2>3. Came(arrived', o, n) = Came(arrived, o, n)
    <3> DEFINE S == Sent \cup {Forgot}
    <3>1. arrived \in Seq(S) /\ Forgot \in S
      BY <1>1
    <3> HIDE DEF S
    <3>2. ~ EndsIn(Append(arrived, Forgot), o, n)
      BY <1>1, <1>4, <2>2
    <3> QED  BY <1>1, <2>2, <3>1, <3>2, CameAppend
  <2> QED  BY <2>1, <2>3 DEF TimesInv
<1> QED  BY <1>2, <1>3, <1>5, <1>6

LEMMA CompleteStep == CompleteInv /\ [Next]_vars => CompleteInv'
<1> SUFFICES ASSUME CompleteInv, [Next]_vars PROVE CompleteInv'
  OBVIOUS
<1>t. WholeInv' /\ WholeInv /\ TypeOK /\ HeldInv
  BY WholeStep DEF CompleteInv, WholeInv
<1>1. ASSUME NEW n \in Parts, Send(n) PROVE CompleteInv'
  <2>1. PICK w \in Nat \ {0} :
          /\ Added(w)
          /\ fragmenting => sendseq' = sendseq + w
          /\ ~ fragmenting => w = 1 /\ sendseq' = sendseq
    BY <1>1, <1>t, SendFacts
  <2>2. UNCHANGED <<arrived, got, defrag>>
    BY <1>1 DEF Send, receiver
  <2>3. ParcelInv' /\ CountingInv' /\ ReadyInv' /\ TimesInv'
    BY <2>1, <2>2, SendComplete
  <2> QED  BY <1>t, <2>3 DEF CompleteInv
<1>2. ASSUME NEW i \in Sent, Receive(i), UNCHANGED sender PROVE CompleteInv'
  <2>1. sent' = sent
    BY <1>2 DEF sender
  <2>2. ParcelInv'
    BY <2>1, ParcelStays DEF CompleteInv, ParcelInv, Packets, Sent
  <2>3. CountingInv' /\ ReadyInv' /\ TimesInv'
    BY <1>2, <1>t, <2>1, ReceiveCounting, ReceiveTimes DEF CompleteInv
  <2> QED  BY <1>t, <2>2, <2>3 DEF CompleteInv
<1>3. CASE Arrive
  <2>1. gone + 1 \in Sent
    BY <1>3, <1>t DEF Arrive, TypeOK, Sent
  <2> QED  BY <1>2, <1>3, <2>1 DEF Arrive
<1>4. CASE Duplicate
  <2>1. gone + 1 \in Sent
    BY <1>4, <1>t DEF Duplicate, TypeOK, Sent
  <2> QED  BY <1>2, <1>4, <2>1 DEF Duplicate
<1>5. ASSUME NEW i \in late, ArriveLate(i) PROVE CompleteInv'
  <2>1. i \in Sent
    BY <1>t DEF TypeOK, Sent
  <2> QED  BY <1>2, <1>5, <2>1 DEF ArriveLate
<1>6. CASE Forget
  BY <1>6, <1>t, ForgetComplete DEF CompleteInv
<1>7. CASE Renew \/ SetFrag \/ Lose \/ Delay \/ UNCHANGED vars
  <2>1. UNCHANGED <<sent, receiver>>
    BY <1>7 DEF Renew, SetFrag, Lose, Delay, vars, sender
  <2>2. UNCHANGED <<sent, defrag, got, arrived>>
    BY <2>1 DEF receiver
  <2>3. ParcelInv' /\ CountingInv'
    BY <2>2, ParcelStays DEF CompleteInv, ParcelInv, Packets, Sent, CountingInv, Counting
  <2>4. ReadyInv' /\ TimesInv'
    BY <2>2, ParcelStays DEF CompleteInv, ReadyInv, TimesInv
  <2> QED  BY <1>t, <2>3, <2>4 DEF CompleteInv
<1> QED  BY <1>1, <1>3, <1>4, <1>5, <1>6, <1>7 DEF Next

LEMMA CompleteInit == Init => CompleteInv
<1> SUFFICES ASSUME Init PROVE CompleteInv
  OBVIOUS
<1>1. sent = <<>> /\ defrag = <<>> /\ got = <<>> /\ Sent = {}
  BY DEF Init, Sent
<1>2. \A o, n \in Nat : ~ Parcel(o, n)
  BY <1>1 DEF Parcel
<1>3. ParcelInv
  BY <1>1 DEF ParcelInv, Packets
<1>4. CountingInv
  BY <1>1 DEF CountingInv, Counting
<1> QED  BY <1>2, <1>3, <1>4, WholeInit DEF CompleteInv, ReadyInv, TimesInv

LEMMA ParcelIsPacket ==
  ASSUME NEW o \in Nat, NEW n \in Nat, Parcel(o, n)
  PROVE  FragmentsOf(o) = Run(o, n) /\ n \in Nat \ {0}
<1>1. {i \in Sent : sent[i].of = o} = o..o + n - 1
  <2>1. \A i \in o..o + n - 1 : i \in Sent
    BY DEF Parcel, Sent
  <2> QED  BY <2>1 DEF Parcel
<1>2. Cardinality(o..o + n - 1) = n
  <2>1. n \in Nat \ {0}
    BY DEF Parcel
  <2> DEFINE e == o + n - 1
  <2>2. o \in Int /\ e \in Int /\ o =< e /\ e - o + 1 = n
    BY <2>1
  <2> HIDE DEF e
  <2>3. Cardinality(o..e) = IF o > e THEN 0 ELSE e - o + 1
    BY <2>2, FS_Interval
  <2>4. Cardinality(o..e) = n
    BY <2>2, <2>3
  <2> QED  BY <2>4 DEF e
<1> QED  BY <1>1, <1>2 DEF FragmentsOf, Run, Parcel

LEMMA CameAsPieces ==
  ASSUME NEW S, NEW q \in Seq(S), NEW o \in Nat, NEW n \in Nat \ {0}
  PROVE  {k \in 0..Len(q) - n : SubSeq(q, k + 1, k + n) = Run(o, n)} = Came(q, o, n)
<1>1. ASSUME NEW k \in 0..Len(q) - n
      PROVE  SubSeq(q, k + 1, k + n) = Run(o, n) <=> \A j \in 1..n : q[k + j] = o + j - 1
  <2> DEFINE s == SubSeq(q, k + 1, k + n)
             r == Run(o, n)
             T == S \cup Nat
  <2>1. Len(q) \in Nat /\ k \in Nat /\ \A j \in k + 1..k + n : j \in 1..Len(q)
    OBVIOUS
  <2>2. \A j \in k + 1..k + n : q[j] \in T
    BY <2>1, ElementOfSeq
  <2> HIDE DEF T
  <2>3. /\ s \in Seq(T) /\ Len(s) = n
        /\ \A j \in 1..n : s[j] = q[k + j]
    <3>1. /\ SubSeq(q, k + 1, k + n) \in Seq(T)
          /\ Len(SubSeq(q, k + 1, k + n)) = IF k + 1 <= k + n THEN (k + n) - (k + 1) + 1 ELSE 0
          /\ \A j \in 1..(k + n) - (k + 1) + 1 : SubSeq(q, k + 1, k + n)[j] = q[(k + 1) + j - 1]
      <4>1. k + 1 \in Int /\ k + n \in Int
        BY <2>1
      <4> QED  BY <2>2, <4>1, SubSeqProperties
    <3> HIDE DEF s
    <3>2. k + 1 <= k + n /\ (k + n) - (k + 1) + 1 = n /\ \A j \in 1..n : (k + 1) + j - 1 = k + j
      BY <2>1
    <3> QED  BY <3>1, <3>2 DEF s
  <2>4. r \in Seq(T) /\ Len(r) = n /\ \A j \in 1..n : r[j] = o + j - 1
    <3>1. r \in Seq(Nat) /\ Len(r) = n
      BY RunFacts
    <3>2. \A j \in 1..n : r[j] = o + j - 1
      BY DEF Run
    <3> HIDE DEF r
    <3>3. r \in Seq(T)
      <4>1. Nat \subseteq T
        BY DEF T
      <4> QED  BY <3>1, <4>1, SeqGrows
    <3> QED  BY <3>1, <3>2, <3>3
  <2> HIDE DEF s, r
  <2>5. ASSUME \A j \in 1..n : q[k + j] = o + j - 1 PROVE s = r
    <3>1. \A j \in 1..Len(s) : s[j] = r[j]
      BY <2>3, <2>4, <2>5
    <3> QED  BY <2>3, <2>4, <3>1, SeqEqual
  <2>6. ASSUME s = r PROVE \A j \in 1..n : q[k + j] = o + j - 1
    BY <2>3, <2>4, <2>6
  <2>7. s = r <=> \A j \in 1..n : q[k + j] = o + j - 1
    BY <2>5, <2>6
  <2> QED  BY <2>7 DEF s, r
<1> QED  BY <1>1 DEF Came

(***************************************************************************)
(* No packet is missing: for packets of any length and any behaviour of    *)
(* the link, the receiver hands one over as often as its fragments arrive  *)
(* in a row, whatever came before, and never one in which the numbers      *)
(* begin again at 0.                                                       *)
(***************************************************************************)
THEOREM DeliversAll == Spec => []Complete
<1>1. CompleteInv => Complete
  <2> SUFFICES ASSUME CompleteInv, NEW o \in Packets
               PROVE  \/ Wraps(o) /\ TimesGot(o) = 0
                      \/ ~ Wraps(o) /\ TimesGot(o) >= TimesArrived(o)
    BY DEF Complete
  <2>1. PICK n \in Nat : Parcel(o, n)
    BY DEF CompleteInv, ParcelInv
  <2>2. o \in Nat
    BY <2>1 DEF Parcel, Sent
  <2>3. FragmentsOf(o) = Run(o, n) /\ n \in Nat \ {0} /\ Len(FragmentsOf(o)) = n
    BY <2>1, <2>2, ParcelIsPacket, RunFacts
  <2>4. TimesGot(o) = Cardinality(Handed(got, o, n))
    BY <2>3 DEF TimesGot, Handed
  <2>5. TimesArrived(o) = Cardinality(Came(arrived, o, n))
    <3> DEFINE S == Sent \cup {Forgot}
    <3>1. arrived \in Seq(S)
      BY DEF CompleteInv, WholeInv, TypeOK
    <3> HIDE DEF S
    <3>2. {k \in 0..Len(arrived) - n : SubSeq(arrived, k + 1, k + n) = Run(o, n)} = Came(arrived, o, n)
      BY <2>2, <2>3, <3>1, CameAsPieces
    <3>3. TimesArrived(o)
            = Cardinality({k \in 0..Len(arrived) - n : SubSeq(arrived, k + 1, k + n) = Run(o, n)})
      BY <2>3 DEF TimesArrived
    <3> QED  BY <3>2, <3>3
  <2>6. CASE ~ Wraps(o)
    <3>1. Cardinality(Came(arrived, o, n)) =< Cardinality(Handed(got, o, n))
      BY <2>1, <2>2, <2>6 DEF CompleteInv, TimesInv
    <3>2. Cardinality(Came(arrived, o, n)) \in Nat /\ Cardinality(Handed(got, o, n)) \in Nat
      <4> DEFINE S == Sent \cup {Forgot}
                 T == Seq(Sent)
      <4>1. arrived \in Seq(S) /\ got \in Seq(T)
        BY DEF CompleteInv, WholeInv, TypeOK
      <4> HIDE DEF S, T
      <4> QED  BY <2>2, <4>1, CameFinite, HandedFinite
    <3>3. TimesGot(o) >= TimesArrived(o)
      BY <2>4, <2>5, <3>1, <3>2
    <3> QED  BY <2>6, <3>3
  <2>7. CASE Wraps(o)
    <3>1. PICK i \in Sent : i # o /\ sent[i].of = o /\ sent[i].seq = 0
      BY <2>7 DEF Wraps
    <3>2. i \in o..o + n - 1 /\ i \in Nat /\ \A j \in o..o + n - 1 : j \in Sent
      BY <2>1, <3>1 DEF Parcel, Sent
    <3>3. PICK k \in 1..n - 1 : i = o + k
      <4>1. i - o \in 1..n - 1 /\ i = o + (i - o)
        BY <2>2, <3>1, <3>2
      <4> QED  BY <4>1
    <3>4. ASSUME NEW m \in Handed(got, o, n) PROVE FALSE
      <4>1. m \in 1..Len(got) /\ got[m] = Run(o, n)
        BY DEF Handed
      <4>2. Counting(Run(o, n)) /\ Len(Run(o, n)) = n
        BY <2>2, <2>3, <4>1, RunFacts DEF CompleteInv, CountingInv
      <4>3. sent[Run(o, n)[k + 1]].seq = sent[Run(o, n)[k]].seq + 1
        BY <4>2 DEF Counting
      <4>4. Run(o, n)[k + 1] = i /\ Run(o, n)[k] = i - 1
        <5>1. k + 1 \in 1..n /\ k \in 1..n /\ o + (k + 1) - 1 = i /\ o + k - 1 = i - 1
          BY <2>2, <2>3, <3>3
        <5> QED  BY <5>1 DEF Run
      <4>5. sent[i - 1].seq \in Nat
        <5>1. i - 1 \in Sent
          BY <2>2, <3>2, <3>3
        <5>2. sent[i - 1] \in Fragment
          BY <5>1 DEF CompleteInv, WholeInv, TypeOK, Sent
        <5> QED  BY <5>2, NumbersAssumption DEF Fragment
      <4> QED  BY <3>1, <4>3, <4>4, <4>5
    <3>5. Handed(got, o, n) = {}
      BY <3>4
    <3>6. TimesGot(o) = 0
      BY <2>4, <3>5, FS_EmptySet
    <3> QED  BY <2>7, <3>6
  <2> QED  BY <2>6, <2>7
<1> QED  BY <1>1, CompleteInit, CompleteStep, PTL DEF Spec
=============================================================================
