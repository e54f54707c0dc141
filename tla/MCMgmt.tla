------------------------------- MODULE MCMgmt -------------------------------
(***************************************************************************)
(* The relay under commands and traffic, and beside it the Interests and   *)
(* Data packets of MCNames as its functions compare them: those states     *)
(* have an empty relay, in which nothing happens.                          *)
(***************************************************************************)
EXTENDS MCRelay, NameLaws

Compare == INSTANCE MCNames

packets == <<asked, again, held>>
Relaying == asked = Ask(CcnbA, NoValue, 1)

InitRelay == Init /\ Relaying /\ again = asked /\ held = Item(CcnbA, 0)
InitCompare == Init /\ cs = {} /\ Compare!Init
NextRelay == Relaying /\ Next /\ UNCHANGED packets
NextCompare == ~ Relaying /\ UNCHANGED <<vars, packets>>

SpecBoth == (InitRelay \/ InitCompare) /\ [][NextRelay \/ NextCompare]_<<vars, packets>>
=============================================================================
