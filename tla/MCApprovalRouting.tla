-------------------------- MODULE MCApprovalRouting --------------------------
(* Small instances of ApprovalRouting for TLC. *)
EXTENDS ApprovalRouting, TLC

CONSTANTS staff, boardHead, head, head2, director, deputy,
          s1, s2, s3, q1, q2,
          liquidation, extension, council, package

MCKindOf == [k \in Keys |->
    CASE k = liquidation -> "LIQUIDATION"
      [] k = extension   -> "PROJECT_EXTENSION"
      [] k = council     -> "EVALUATION_COUNCIL"
      [] k = package     -> "DECISION_PACKAGE"]

MCInitialRole == [p \in People |->
    CASE p = staff     -> Staff
      [] p = boardHead -> BoardHead
      [] p = head      -> DeptHead
      [] p = head2     -> DeptHead
      [] p = director  -> Director
      [] p = deputy    -> Deputy]

\* A staff member becomes board head, the board head becomes department head.
MCRoleChanges == {<<staff, BoardHead>>, <<boardHead, DeptHead>>}

Symmetric == Permutations(Requests)
=============================================================================
