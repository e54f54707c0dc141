----------------------------- MODULE LossyFifo -----------------------------
(***************************************************************************)
(* What the transmit path promises to the forwarder (abstract): for each   *)
(* face a queue from which packets leave in the order they came in.  One   *)
(* may be lost on the way, and the rest of a queue may be cut off, but     *)
(* none is sent twice, late behind its successor, or without being put.    *)
(***************************************************************************)
EXTENDS Naturals, SequencesExt

CONSTANTS Faces, Data, Nothing

VARIABLES
  fifo,   \* the packets that are to go to each face
  wire    \* the packet that the last step sent, with its face, or Nothing

Init == fifo = [f \in Faces |-> <<>>] /\ wire = Nothing

Put(f, d) == wire' = Nothing /\ fifo' = [fifo EXCEPT ![f] = Append(@, d)]

Lose(f, i) == wire' = Nothing /\ fifo' = [fifo EXCEPT ![f] = RemoveAt(@, i)]

Cut(f, n) == wire' = Nothing /\ fifo' = [fifo EXCEPT ![f] = SubSeq(@, 1, n)]

Send(f) ==
  /\ fifo[f] # <<>>
  /\ wire' = [face |-> f, data |-> Head(fifo[f])]
  /\ fifo' = [fifo EXCEPT ![f] = Tail(@)]

Rest == wire' = Nothing /\ UNCHANGED fifo

Next ==
  \/ \E f \in Faces :
       \/ \E d \in Data : Put(f, d)
       \/ \E i \in 1..Len(fifo[f]) : Lose(f, i) \/ Cut(f, i - 1)
       \/ Send(f)
  \/ Rest

Spec == Init /\ [][Next]_<<fifo, wire>>
=============================================================================
