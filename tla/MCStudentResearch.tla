-------------------------- MODULE MCStudentResearch --------------------------
(* A small instance of StudentResearch for TLC. *)
EXTENDS StudentResearch, TLC

CONSTANTS lee, amy, bob, here, there, f1, c1, c2, none

\* Two of the staff, one for one unit and one for both; they may supervise as well.
MCScopeOf == [p \in {amy, bob} |-> IF p = amy THEN {here} ELSE {here, there}]

Symmetric == Permutations({c1, c2})
=============================================================================
