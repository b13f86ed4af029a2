--------------------------- MODULE MCConferences ---------------------------
(* Small instances of Conferences for TLC. *)
EXTENDS Conferences, TLC

CONSTANTS g1, g2, ann, bob, clerk, dana, nobody, c1, c2

\* A guest becomes a speaker, at one address or at another.
MCEdits == {[kind |-> "speaker", email |-> ann], [kind |-> "speaker", email |-> bob]}

Symmetric == Permutations(Calls)
============================================================================
