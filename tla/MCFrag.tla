------------------------------- MODULE MCFrag -------------------------------
(* An instance of Frag for TLC: packets of one, two and three fragments. *)
EXTENDS Frag

UpToThree == 1..3
=============================================================================
