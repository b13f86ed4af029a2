------------------------- MODULE MCProjectLifecycle -------------------------
(* Small instances of ProjectLifecycle for TLC. *)
EXTENDS ProjectLifecycle, TLC

CONSTANTS clerk, head, director, expert, nobody, p1, p2, c1, r1, r2

\* The expert, who is on the staff too, joins the team and leaves it again.
MCTeamChanges == {[op |-> "add", person |-> expert], [op |-> "end", person |-> expert]}

\* The level of the project goes up or down, or something changes the closure does not look at.
MCLevelChanges == {[op |-> "level", person |-> nobody], [op |-> "plan", person |-> nobody],
                   [op |-> "extend", person |-> nobody]}

\* Nothing tells two report revisions or two products apart.
MCReportSymmetry == Permutations({r1, r2})
MCProductSymmetry == Permutations({p1, p2})
=============================================================================
