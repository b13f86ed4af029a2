------------------------- MODULE MCProposalEvaluation -------------------------
(* Small instances of ProposalEvaluation for TLC. *)
EXTENDS ProposalEvaluation

CONSTANTS owner, colleague, head, boardHead, clerk, director, deputy, ann, bob, eve, nobody

\* A reviewer, perhaps a second one, and a secretary.
MCLimits == [r \in Roles |-> IF r = "reviewer" THEN [min |-> 1, max |-> 2]
                             ELSE IF r = "committee_member" THEN [min |-> 0, max |-> 0]
                             ELSE [min |-> 1, max |-> 1]]

\* The head of department and the director are asked for a review.
MCCandidates == {<<head, "reviewer", "open">>, <<director, "reviewer", "open">>,
                 <<eve, "committee_secretary", "open">>}

MCCouncilLimits == [r \in Roles |-> IF r = "reviewer" THEN [min |-> 1, max |-> 1]
                                    ELSE IF r = "committee_member" THEN [min |-> 0, max |-> 0]
                                    ELSE [min |-> 1, max |-> 1]]
\* A council of two; for its reviewer's place somebody else is asked directly, up to a day.
MCRosters == {{<<bob, "reviewer">>, <<eve, "committee_secretary">>}}
MCMixedCandidates == {<<ann, "reviewer", "timed">>, <<eve, "committee_secretary", "open">>}
=============================================================================
