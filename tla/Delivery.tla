------------------------------ MODULE Delivery ------------------------------
(***************************************************************************)
(* What a CCN forwarder promises to those who ask it (abstract).           *)
(*                                                                         *)
(* A face asks for Data.  A Data packet that comes in goes at once to      *)
(* every face that waits for it, one copy each, and to no other face; each *)
(* of those faces then has to ask again.  An Interest may be answered on   *)
(* the spot, and may be forgotten.  Nothing else is ever sent downstream.  *)
(***************************************************************************)
CONSTANTS
  Face,      \* those who ask
  Request,   \* what they may ask for
  Item,      \* what may be sent to them
  Match      \* the pairs <<item, request>> where the item answers the request

VARIABLES
  want,      \* the pairs <<face, request>> that wait for an answer
  sent       \* the pairs <<face, item>> that the last step sent

Init == want = {} /\ sent = {}

Ask(f, r) == want' = want \cup {<<f, r>>} /\ sent' = {}

Answer(f, r, d) == <<d, r>> \in Match /\ sent' = {<<f, d>>} /\ want' = want

Served(d) == {w \in want : <<d, w[2]>> \in Match}

Arrive(d) ==
  /\ sent' = {<<w[1], d>> : w \in Served(d)}
  /\ want' = want \ Served(d)

Forget == want' \subseteq want /\ sent' = {}

Next ==
  \/ \E f \in Face, r \in Request : Ask(f, r) \/ \E d \in Item : Answer(f, r, d)
  \/ \E d \in Item : Arrive(d)
  \/ Forget

Spec == Init /\ [][Next]_<<want, sent>>
=============================================================================
