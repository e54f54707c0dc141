----------------------------- MODULE MCRiotPort -----------------------------
(* An instance of RiotPort for TLC: a name, and one that continues it. *)
EXTENDS RiotPort

Identity == {<<n, n>> : n \in Name}
Longer == {<<"a", "ab">>}
PathPrefixes == Identity \cup Longer
LongerAnswers == Identity \cup {<<"ab", "a">>}
=============================================================================
