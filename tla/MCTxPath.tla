------------------------------ MODULE MCTxPath ------------------------------
(* Instances of TxPath for TLC. *)
EXTENDS TxPath

First == CHOOSE f \in Faces : TRUE

(* A rate on the interface and on one face, the dummy scheduler on the others *)
RateAndChain == [s \in Sched |-> IF s \in {First, If} THEN "rate" ELSE "chain"]

OneTick == [s \in Sched |-> 1]
=============================================================================
