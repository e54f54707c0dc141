-------------------------------- MODULE Frag --------------------------------
(***************************************************************************)
(* Begin-end fragmentation between two relays compiled with USE_FRAG and   *)
(* without USE_SCHEDULER, as ccn-lite-simu.c is: the sender of one face    *)
(* (ccnl_face_CTS, ccnl-frag.c, ccnl_ccntlv_mkFrag), a link that loses,    *)
(* duplicates and delays, and the receiver (ccnl_frag_RX_BeginEnd2015).    *)
(* The packets are those of the CCNx suite.  What comes out for an NDN     *)
(* packet is no fragment and often undefined: see NdnFrag.                 *)
(*                                                                         *)
(* ccnl_face_CTS loops until the packet is cut up and nothing is queued,   *)
(* so that bigpkt, sendoffs and outq are idle between two packets.  Bytes  *)
(* are left out: a packet is known by the number of its first fragment     *)
(* among all that were ever sent, and a buffer by the fragments in it.     *)
(*                                                                         *)
(* A definition whose comment begins with "slip" is not the code's: it is  *)
(* the definition after it with one mistake, and nothing here uses it.     *)
(***************************************************************************)
EXTENDS Integers, FiniteSets, Sequences

CONSTANTS
  Numbers,     \* how many sequence numbers there are: 2^14
  Parts,       \* into how many fragments the MTU cuts a packet
  MaxSent,     \* bound: fragments sent
  MaxLink,     \* bound: fragments on the link when the next packet is sent
  MaxAnew,     \* bound: how often the sender's or the receiver's state is made anew
  MaxLate      \* bound: fragments that are delayed at a time

ASSUME NumbersAssumption == Numbers \in Nat \ {0}
ASSUME PartsAssumption == Parts \subseteq Nat \ {0}
ASSUME BoundsAssumption ==
  /\ MaxSent \in Nat /\ MaxLink \in Nat /\ MaxAnew \in Nat /\ MaxLate \in Nat

VARIABLES
  fragmenting,  \* sender: whether the face has a frag record
  sendseq,      \* sender: the number of the next fragment
  epoch,        \* history: which frag record of the sender it is
  sent,         \* history: every fragment that the sender put on the link
  gone,         \* link: how many of them have left the link
  late,         \* link: those that left it and are still to come
  recvseq,      \* receiver: the number that it expects
  defrag,       \* receiver: the fragments in the buffer, none for NULL
  got,          \* output: the buffers handed to the forwarder
  arrived       \* history: the fragments as they came, 0 where the receiver forgot

sender == <<fragmenting, sendseq, epoch, sent>>
receiver == <<recvseq, defrag, got, arrived>>
vars == <<sender, gone, late, receiver>>

Fragment ==
  [seq : 0..Numbers - 1, flag : {"single", "first", "mid", "last", "plain"},
   of : Nat, epoch : Nat]

Sent == 1..Len(sent)
Forgot == 0
Anew == epoch + Cardinality({k \in 1..Len(arrived) : arrived[k] = Forgot})

Init ==
  /\ fragmenting \in BOOLEAN /\ sendseq = 0 /\ epoch = 0
  /\ sent = <<>> /\ gone = 0 /\ late = {}
  /\ recvseq = 0 /\ defrag = <<>> /\ got = <<>> /\ arrived = <<>>
-----------------------------------------------------------------------------
(* The flag of the k-th of n fragments *)
Flag(k, n) ==
  CASE n = 1 -> "single"
    [] n > 1 /\ k = 1 -> "first"
    [] n > 1 /\ k = n -> "last"
    [] OTHER -> "mid"

(* slip: the number is not cut to 14 bits. *)
NumberWhole(n) == n

Number(n) == n % Numbers

(* The fragments of the next packet, if it has n *)
Cut(n) ==
  [k \in 1..n |-> [seq |-> Number(sendseq + k - 1), flag |-> Flag(k, n),
                   of |-> Len(sent) + 1, epoch |-> epoch]]

(* A packet on a face without frag record goes out as it is. *)
Uncut == <<[seq |-> 0, flag |-> "plain", of |-> Len(sent) + 1, epoch |-> epoch]>>

(***************************************************************************)
(* ccnl_face_enqueue and ccnl_face_CTS, for a CCNx packet.  (A CCNb packet *)
(* yields no fragment and is freed with the next one: no step at all.)     *)
(***************************************************************************)
Send(n) ==
  /\ Len(sent) + n =< MaxSent /\ Len(sent) - gone =< MaxLink
  /\ \/ fragmenting /\ sent' = sent \o Cut(n) /\ sendseq' = sendseq + n
     \/ ~ fragmenting /\ sent' = sent \o Uncut /\ UNCHANGED sendseq
  /\ UNCHANGED <<fragmenting, epoch, gone, late, receiver>>

(* A fragment from the peer makes a new record where the face has none: after *)
(* setfrag, or on a face that was freed and made anew.  No command makes one. *)
Renew ==
  /\ ~ fragmenting /\ Anew < MaxAnew
  /\ epoch' = epoch + 1
  /\ fragmenting' = TRUE /\ sendseq' = 0
  /\ UNCHANGED <<sent, gone, late, receiver>>

(* setfrag knows the names of obsolete protocols only, for which ccnl_frag_new returns
   NULL.  The face freed, and made anew by a packet that is no fragment, has none either. *)
SetFrag ==
  /\ fragmenting
  /\ fragmenting' = FALSE
  /\ UNCHANGED <<sendseq, epoch, sent, gone, late, receiver>>
-----------------------------------------------------------------------------
(* slip: the buffer stays when the number is not the one expected. *)
KeptAlways(i) == defrag

(* What the buffer still holds when fragment i is looked at *)
Kept(i) == IF sent[i].seq = recvseq THEN defrag ELSE <<>>

(* slip: the number expected next is not counted up. *)
FollowingSame(i) == sent[i].seq

(* The number expected after fragment i: it is not cut to 14 bits. *)
Following(i) == sent[i].seq + 1

(* ccnl_frag_RX_BeginEnd2015, and the forwarder for a packet that was not cut *)
Receive(i) ==
  /\ arrived' = Append(arrived, i)
  /\ \/ /\ sent[i].flag = "plain"
        /\ got' = Append(got, <<i>>)
        /\ UNCHANGED <<recvseq, defrag>>
     \/ /\ sent[i].flag # "plain" /\ recvseq' = Following(i)
        /\ \/ sent[i].flag = "single" /\ defrag' = <<>> /\ got' = Append(got, <<i>>)
           \/ sent[i].flag = "first" /\ defrag' = <<i>> /\ UNCHANGED got
           \/ /\ sent[i].flag = "mid"
              /\ defrag' = IF Kept(i) = <<>> THEN <<>> ELSE Append(Kept(i), i)
              /\ UNCHANGED got
           \/ /\ sent[i].flag = "last"
              /\ defrag' = <<>>
              /\ got' = IF Kept(i) = <<>> THEN got ELSE Append(got, Append(Kept(i), i))

(* The link: the next fragment arrives or not, and it may come later (again). *)
Arrive ==
  /\ gone < Len(sent) /\ gone' = gone + 1
  /\ Receive(gone + 1)
  /\ UNCHANGED <<sender, late>>

Lose ==
  /\ gone < Len(sent) /\ gone' = gone + 1
  /\ UNCHANGED <<sender, late, receiver>>

Delay ==
  /\ gone < Len(sent) /\ gone' = gone + 1
  /\ Cardinality(late) < MaxLate /\ late' = late \cup {gone + 1}
  /\ UNCHANGED <<sender, receiver>>

Duplicate ==
  /\ gone < Len(sent) /\ gone' = gone + 1
  /\ Cardinality(late) < MaxLate /\ late' = late \cup {gone + 1}
  /\ Receive(gone + 1)
  /\ UNCHANGED sender

ArriveLate(i) ==
  /\ i \in late /\ late' = late \ {i}
  /\ Receive(i)
  /\ UNCHANGED <<sender, gone>>

(* setfrag at the receiver, or its face freed; the next fragment makes a new record. *)
Forget ==
  /\ Anew < MaxAnew
  /\ arrived' = Append(arrived, Forgot)
  /\ recvseq' = 0 /\ defrag' = <<>>
  /\ UNCHANGED <<sender, gone, late, got>>

Next ==
  \/ \E n \in Parts : Send(n)
  \/ Renew \/ SetFrag
  \/ Arrive \/ Lose \/ Delay \/ Duplicate
  \/ \E i \in late : ArriveLate(i)
  \/ Forget

Spec == Init /\ [][Next]_vars
-----------------------------------------------------------------------------
TypeOK ==
  /\ fragmenting \in BOOLEAN /\ sendseq \in Nat /\ epoch \in 0..MaxAnew
  /\ sent \in Seq(Fragment)
  /\ gone \in 0..Len(sent) /\ late \subseteq 1..gone
  /\ recvseq \in 0..Numbers
  /\ defrag \in Seq(Sent) /\ got \in Seq(Seq(Sent))
  /\ arrived \in Seq(Sent \cup {Forgot})

Packets == {sent[i].of : i \in Sent}

(* The fragments of packet o, in order *)
FragmentsOf(o) ==
  [k \in 1..Cardinality({i \in Sent : sent[i].of = o}) |-> o + k - 1]

(* Fragment j is not the successor of i but has its number. *)
Mistaken(i, j) ==
  /\ j # i + 1
  /\ sent[i].epoch = sent[j].epoch => (j - i - 1) % Numbers = 0

(***************************************************************************)
(* What the receiver (ccnl_frag_RX_BeginEnd2015) hands to the forwarder is *)
(* one CCNx packet as it was sent, whatever the link and the management    *)
(* commands do, except where it cannot tell: when two fragments that do    *)
(* not belong together are a multiple of 2^14 apart, or were numbered by   *)
(* different records of the sender.                                        *)
(***************************************************************************)
Whole ==
  \A m \in 1..Len(got) :
    \/ \E o \in Packets : got[m] = FragmentsOf(o)
    \/ \E k \in 1..Len(got[m]) - 1 : Mistaken(got[m][k], got[m][k + 1])

(* Does a fragment of packet o other than the first have the number 0? *)
Wraps(o) ==
  \E i \in Sent : i # o /\ sent[i].of = o /\ sent[i].seq = 0

TimesArrived(o) ==
  Cardinality({k \in 0..Len(arrived) - Len(FragmentsOf(o)) :
                 SubSeq(arrived, k + 1, k + Len(FragmentsOf(o))) = FragmentsOf(o)})

TimesGot(o) == Cardinality({m \in 1..Len(got) : got[m] = FragmentsOf(o)})

(***************************************************************************)
(* When the fragments of a CCNx packet arrive one after the other, the     *)
(* forwarder gets it, whatever came before: losses, late fragments, a new  *)
(* record at either end.  There is one exception, on a perfect link too: a *)
(* packet inside which the numbers start again at 0 never gets through,    *)
(* because the receiver expects 2^14 there (recvseq++).                    *)
(***************************************************************************)
Complete ==
  \A o \in Packets :
    \/ Wraps(o) /\ TimesGot(o) = 0
    \/ ~ Wraps(o) /\ TimesGot(o) >= TimesArrived(o)
=============================================================================
