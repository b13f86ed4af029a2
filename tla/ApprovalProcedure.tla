-------------------------- MODULE ApprovalProcedure --------------------------
(***************************************************************************)
(* What the routing component promises for every procedure ("thu tuc"),    *)
(* whatever rows it keeps: the header of proposals-shared/                 *)
(* approval-routing.ts.  A procedure is drafted, reviewed by the board     *)
(* head, approved by the department head, signed by the leadership; a      *)
(* return at any step leads back to the drafter; no step is skipped.       *)
(* ApprovalRouting implements this specification.                          *)
(***************************************************************************)
CONSTANTS
    Keys,       \* the procedures: (kind, subject, subjectRef)
    Redraft,    \* procedures whose draft may be sent again while under review
    Legacy      \* procedures put to the leadership before the route existed

VARIABLE phase  \* [Keys -> Phases]

UnderReview == {"BOARD_REVIEW", "HEAD_REVIEW", "LEADERSHIP"}
Phases == UnderReview \cup {"drafting", "approved", "rejected"}

Init == phase = [k \in Keys |-> IF k \in Legacy THEN "LEADERSHIP" ELSE "drafting"]

Move(k, from, to) ==
    /\ phase[k] \in from
    /\ phase' = [phase EXCEPT ![k] = to]

\* A staff member starts at BOARD_REVIEW, the board head at HEAD_REVIEW.
Submit(k) ==
    \E to \in {"BOARD_REVIEW", "HEAD_REVIEW"} :
        Move(k, {"drafting"} \cup (IF k \in Redraft THEN UnderReview ELSE {}), to)

Forward(k)  == Move(k, {"BOARD_REVIEW"}, "HEAD_REVIEW")
Endorse(k)  == Move(k, {"HEAD_REVIEW"}, "LEADERSHIP")
SendBack(k) == Move(k, UnderReview, "drafting")
Approve(k)  == Move(k, {"LEADERSHIP"}, "approved")
Refuse(k)   == Move(k, {"LEADERSHIP"}, "rejected")

Next == \E k \in Keys : \/ Submit(k) \/ Forward(k) \/ Endorse(k)
                        \/ SendBack(k) \/ Approve(k) \/ Refuse(k)

Spec == Init /\ [][Next]_phase
=============================================================================
