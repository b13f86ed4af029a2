----------------------- MODULE ProposalEvaluationProofs -----------------------
(* Theorems about ProposalEvaluation, for every set of people, council       *)
(* rules, rosters, teams and every bound.                                     *)
EXTENDS ProposalEvaluation, TLAPS

RowStatuses == {"absent", "invited", "assigned", "completed", "declined", "revoked"}

(* A row stays a row when one of its fields changes. *)
LEMMA RowUpdate ==
    ASSUME NEW row \in Row
    PROVE  /\ \A s \in RowStatuses : [row EXCEPT !.status = s] \in Row
           /\ [row EXCEPT !.accepted = TRUE] \in Row
           /\ [row EXCEPT !.window = "over"] \in Row
           /\ [row EXCEPT !.review = "draft"] \in Row
           /\ [row EXCEPT !.review = "submitted", !.status = "completed"] \in Row
  BY DEF Row, RowStatuses

(* A new assignment or invitation is a row of the current round. *)
LEMMA NewRowType ==
    ASSUME TypeOK, NEW p \in People, NEW r \in Roles, NEW st \in RowStatuses,
           NEW w \in {"open", "timed"}
    PROVE  NewRow(p, r, st, w) \in Row
  BY DEF TypeOK, NewRow, AbsentRow, Row, RowStatuses, Accounts, Roles

(* What the operations do to the other rows leaves them rows. *)
LEMMA OtherRowsType ==
    ASSUME TypeOK, NEW i \in Assignments, NEW x
    PROVE  Retired(x, i) \in Row /\ Uninvited(x, i) \in Row /\ CloseRound(i) \in Row
  <1>1. rows[i] \in Row
    BY DEF TypeOK
  <1> QED
    BY <1>1, RowUpdate DEF Retired, Uninvited, CloseRound, RowStatuses

(* The package captures sets of assignments. *)
LEMMA PackageType ==
    ASSUME TypeOK, summary.revision < MaxRevision, NEW st \in {"draft", "finalized"},
           NEW life \in {"draft", "finalized"}, NEW who \in Accounts
    PROVE  Package(st, life, who) \in Summary
  <1>1. summary.revision \in 0..MaxRevision /\ round \in Rounds
    BY DEF TypeOK, Summary
  <1>2. summary.revision + 1 \in 0..MaxRevision
    BY <1>1, BoundsAssumption
  <1>3. RoundRows \in SUBSET Assignments /\ RoundReviews \in SUBSET Assignments
    BY DEF RoundRows, RoundReviews
  <1> QED
    BY <1>1, <1>2, <1>3 DEF Package, Summary

(* The officer found after a submission is an account. *)
LEMMA AutoOfficerType ==
    ASSUME TypeOK PROVE AutoOfficer \subseteq Accounts
  BY PeopleAssumption DEF TypeOK, AutoOfficer, Accounts

(* Opening an approval submission puts the procedure under review. *)
LEMMA OpenType ==
    ASSUME TypeOK, NEW k \in Procedures, NEW p, openApprovalSubmission(k, p)
    PROVE  /\ route' \in [Procedures -> Phases]
           /\ route'[k] \in UnderReview
           /\ \A j \in Procedures \ {k} : route'[j] = route[j]
  BY DEF TypeOK, openApprovalSubmission, Phases, UnderReview

-----------------------------------------------------------------------------
(* Type correctness is inductive. *)
LEMMA TypeInit == Init => TypeOK
  <1> SUFFICES ASSUME Init PROVE TypeOK
    OBVIOUS
  <1>1. AbsentRow \in Row
    BY BoundsAssumption DEF AbsentRow, Row, Accounts, Roles, Rounds
  <1>2. 0 \in 0..MaxRevision /\ 0 \in Rounds
    BY BoundsAssumption DEF Rounds
  <1> QED
    BY <1>1, <1>2, PeopleAssumption
       DEF Init, TypeOK, Statuses, Summary, Council, Decision, Phases, Accounts

(* The steps of the submission keep the types. *)
LEMMA PreparationType == TypeOK /\ Preparation => TypeOK'
  <1> SUFFICES ASSUME TypeOK, Preparation PROVE TypeOK'
    OBVIOUS
  <1>1. ASSUME NEW ms \in Teams, replaceMembers(ms) PROVE TypeOK'
    BY <1>1, PeopleAssumption DEF TypeOK, replaceMembers, submission
  <1>2. ASSUME NEW from, NEW to \in Statuses, NewRound(from, to) PROVE TypeOK'
    <2>1. round' \in Rounds
      BY <1>2, BoundsAssumption DEF TypeOK, NewRound, Rounds
    <2>2. officer' \in Accounts
      BY <1>2, AutoOfficerType DEF NewRound
    <2> QED
      BY <1>2, <2>1, <2>2 DEF TypeOK, NewRound
  <1>3. ASSUME NEW p \in People, requestSupplement(p) PROVE TypeOK'
    BY <1>3 DEF TypeOK, requestSupplement, team, Statuses
  <1>4. ASSUME NEW p \in People, completeCheck(p) PROVE TypeOK'
    BY <1>4 DEF TypeOK, completeCheck, team
  <1>5. ASSUME NEW p \in People, revokeManagementOfficer(p) PROVE TypeOK'
    BY <1>5 DEF TypeOK, revokeManagementOfficer, submission, Accounts
  <1>6. ASSUME NEW a \in People, NEW p \in People, assignManagementOfficer(a, p) PROVE TypeOK'
    BY <1>6 DEF TypeOK, assignManagementOfficer, submission, Accounts
  <1> QED
    BY <1>1, <1>2, <1>3, <1>4, <1>5, <1>6
       DEF Preparation, submitProposal, resubmitProposal, Statuses

(* The steps of the evaluation keep the types. *)
LEMMA EvaluationType == TypeOK /\ Evaluation => TypeOK'
  <1> SUFFICES ASSUME TypeOK, Evaluation PROVE TypeOK'
    OBVIOUS
  <1>0. \A i \in Assignments : rows[i] \in Row
    BY DEF TypeOK
  <1>1. ASSUME NEW a \in People, NEW c \in Candidates, assignReviewer(a, c[1], c[2], c[3])
        PROVE TypeOK'
    <2>1. c[1] \in People /\ c[2] \in Roles /\ c[3] \in {"open", "timed"}
      BY PeopleAssumption
    <2>2. NewRow(c[1], c[2], "assigned", c[3]) \in Row
      BY <2>1, NewRowType DEF RowStatuses
    <2>3. rows' \in [Assignments -> Row]
      BY <1>1, <2>2, OtherRowsType DEF assignReviewer
    <2> QED
      BY <1>1, <2>3 DEF TypeOK, assignReviewer, team, Statuses
  <1>2. ASSUME NEW i \in Assignments, NEW a \in People, revokeAssignment(a, i) PROVE TypeOK'
    <2>1. [rows[i] EXCEPT !.status = "revoked"] \in Row
      BY <1>0, RowUpdate DEF RowStatuses
    <2> QED
      BY <1>2, <2>1 DEF TypeOK, revokeAssignment, submission, team
  <1>3. ASSUME NEW i \in Assignments, NEW answer \in {"accept", "decline"},
               respondToInvitation(i, answer)
        PROVE TypeOK'
    <2>1. [rows[i] EXCEPT !.accepted = TRUE] \in Row /\ [rows[i] EXCEPT !.status = "declined"] \in Row
      BY <1>0, RowUpdate DEF RowStatuses
    <2> QED
      BY <1>3, <2>1 DEF TypeOK, respondToInvitation, submission, team
  <1>4. ASSUME NEW i \in Assignments, Expire(i) PROVE TypeOK'
    <2>1. [rows[i] EXCEPT !.window = "over"] \in Row
      BY <1>0, RowUpdate
    <2> QED
      BY <1>4, <2>1 DEF TypeOK, Expire, submission, team
  <1>5. ASSUME NEW i \in Assignments, saveMyReview(i) PROVE TypeOK'
    <2>1. [rows[i] EXCEPT !.review = "draft"] \in Row
      BY <1>0, RowUpdate
    <2> QED
      BY <1>5, <2>1 DEF TypeOK, saveMyReview, submission, team
  <1>6. ASSUME NEW i \in Assignments, submitMyReview(i) PROVE TypeOK'
    <2>1. [rows[i] EXCEPT !.review = "submitted", !.status = "completed"] \in Row
      BY <1>0, RowUpdate
    <2> QED
      BY <1>6, <2>1 DEF TypeOK, submitMyReview, submission, team
  <1>7. ASSUME NEW p \in People, saveEvaluationSummary(p) PROVE TypeOK'
    <2>1. Package("draft", "draft", Nobody) \in Summary
      BY <1>7, PackageType DEF saveEvaluationSummary, Accounts
    <2> QED
      BY <1>7, <2>1 DEF TypeOK, saveEvaluationSummary, submission, team
  <1>8. ASSUME NEW p \in People, finalizeEvaluationSummary(p) PROVE TypeOK'
    <2>1. Package("finalized", "finalized", p) \in Summary
      BY <1>8, PackageType DEF finalizeEvaluationSummary, Accounts
    <2> QED
      BY <1>8, <2>1 DEF TypeOK, finalizeEvaluationSummary, submission, team
  <1>9. ASSUME NEW p \in People, reopenEvaluationSummary(p) PROVE TypeOK'
    <2>1. summary.revision + 1 \in 0..MaxRevision
      BY <1>9, BoundsAssumption DEF TypeOK, Summary, reopenEvaluationSummary
    <2>2. summary' \in Summary
      BY <1>9, <2>1 DEF TypeOK, Summary, reopenEvaluationSummary
    <2> QED
      BY <1>9, <2>2 DEF TypeOK, reopenEvaluationSummary, submission, team
  <1>10. ASSUME NEW p \in People, submitEvaluationPackage(p) PROVE TypeOK'
    <2>1. rows' \in [Assignments -> Row]
      BY <1>10, OtherRowsType DEF submitEvaluationPackage
    <2>2. summary' \in Summary
      BY <1>10 DEF TypeOK, Summary, submitEvaluationPackage
    <2>3. route' \in [Procedures -> Phases]
      BY <1>10, OpenType DEF submitEvaluationPackage, Procedures
    <2> QED
      BY <1>10, <2>1, <2>2, <2>3 DEF TypeOK, submitEvaluationPackage, team, Statuses
  <1> QED
    BY <1>1, <1>2, <1>3, <1>4, <1>5, <1>6, <1>7, <1>8, <1>9, <1>10 DEF Evaluation

(* The steps of the approval keep the types. *)
LEMMA ApprovalType == TypeOK /\ Approval => TypeOK'
  <1> SUFFICES ASSUME TypeOK, Approval PROVE TypeOK'
    OBVIOUS
  <1>1. ASSUME NEW k \in Procedures, advance(k) PROVE TypeOK'
    BY <1>1 DEF TypeOK, advance, submission, team, Phases, UnderReview
  <1>2. CASE returnPackage
    <2>1. [summary EXCEPT !.status = "finalized"] \in Summary
      BY DEF TypeOK, Summary
    <2> QED
      BY <1>2, <2>1 DEF TypeOK, returnPackage, revertOnReturn, team, Phases, Statuses
  <1>3. CASE returnCouncil
    <2>1. [council EXCEPT !.status = "returned"] \in Council
      BY DEF TypeOK, Council
    <2> QED
      BY <1>3, <2>1 DEF TypeOK, returnCouncil, submission, team, Phases
  <1>4. ASSUME NEW d \in Directors, NEW revision \in 1..MaxRevision, DecideCheck(d, revision)
        PROVE TypeOK'
    BY <1>4, BoundsAssumption DEF TypeOK, DecideCheck, submission, team
  <1>5. ASSUME NEW d \in Directors, NEW outcome \in {"approved", "rejected"}, decide(d, outcome)
        PROVE TypeOK'
    <2>1. d \in Accounts /\ deciding[d] \in 0..MaxRevision
      BY PeopleAssumption DEF TypeOK, Accounts
    <2>2. decision' \in Decision
      BY <1>5, <2>1 DEF decide, Decision
    <2>3. 0 \in 0..MaxRevision
      BY BoundsAssumption
    <2> QED
      BY <1>5, <2>2, <2>3 DEF TypeOK, decide, team, Phases, Statuses
  <1>6. ASSUME NEW d \in Directors, DecideRefused(d) PROVE TypeOK'
    BY <1>6, BoundsAssumption DEF TypeOK, DecideRefused, submission, team
  <1> QED
    BY <1>1, <1>2, <1>3, <1>4, <1>5, <1>6 DEF Approval

(* Inviting the members of a roster leaves the rows rows. *)
LEMMA SyncType ==
    ASSUME TypeOK, NEW ms \in Rosters, syncCouncilInvitations(ms)
    PROVE  rows' \in [Assignments -> Row]
  <1>1. PICK new \in [ToInvite(ms) -> Free] :
          rows' = [i \in Assignments |->
                     IF \E m \in ToInvite(ms) : new[m] = i
                     THEN LET m == CHOOSE m \in ToInvite(ms) : new[m] = i
                          IN  NewRow(m[1], m[2], "invited", "open")
                     ELSE Uninvited(ms, i)]
    BY DEF syncCouncilInvitations
  <1>2. \A m \in ToInvite(ms) : NewRow(m[1], m[2], "invited", "open") \in Row
    <2> TAKE m \in ToInvite(ms)
    <2>1. m[1] \in People /\ m[2] \in Roles
      BY CouncilAssumption DEF ToInvite
    <2> QED
      BY <2>1, NewRowType DEF RowStatuses
  <1> QED
    BY <1>1, <1>2, OtherRowsType

(* The steps of the council keep the types. *)
LEMMA CouncilType == TypeOK /\ CouncilSteps => TypeOK'
  <1> SUFFICES ASSUME TypeOK, CouncilSteps PROVE TypeOK'
    OBVIOUS
  <1>1. ASSUME NEW p \in People, NEW ms \in Rosters, NEW action \in {"save", "invite", "submit"},
               proposeCouncil(p, ms, action)
        PROVE TypeOK'
    <2>1. rows' \in [Assignments -> Row]
      BY <1>1, SyncType DEF TypeOK, proposeCouncil
    <2>2. route' \in [Procedures -> Phases]
      BY <1>1, OpenType DEF TypeOK, proposeCouncil, Procedures
    <2>3. council' \in Council
      BY <1>1, CouncilAssumption DEF proposeCouncil, Council
    <2> QED
      BY <1>1, <2>1, <2>2, <2>3 DEF TypeOK, proposeCouncil, submission, team
  <1>2. ASSUME NEW l \in People, approveCouncil(l) PROVE TypeOK'
    <2>1. \A i \in Assignments : Established(i) \in Row
      <3> TAKE i \in Assignments
      <3>1. rows[i] \in Row
        BY DEF TypeOK
      <3> QED
        BY <3>1, RowUpdate, OtherRowsType DEF Established, RowStatuses
    <2>2. council' \in Council
      BY <1>2 DEF TypeOK, approveCouncil, Council
    <2> QED
      BY <1>2, <2>1, <2>2 DEF TypeOK, approveCouncil, team, Phases, Statuses
  <1>3. ASSUME NEW l \in People, rejectCouncil(l) PROVE TypeOK'
    <2>1. council' \in Council
      BY <1>3 DEF TypeOK, rejectCouncil, Council
    <2> QED
      BY <1>3, <2>1 DEF TypeOK, rejectCouncil, submission, team, Phases
  <1> QED
    BY <1>1, <1>2, <1>3 DEF CouncilSteps

LEMMA TypeNext == TypeOK /\ [Next]_vars => TypeOK'
  <1>1. TypeOK /\ UNCHANGED vars => TypeOK'
    BY DEF TypeOK, vars
  <1> QED
    BY <1>1, PreparationType, EvaluationType, ApprovalType, CouncilType DEF Next

(* Every reachable state is well typed: no operation writes a status, a role or a round that *)
(* the other operations do not know. *)
THEOREM TypeCorrect == Spec => []TypeOK
  BY TypeInit, TypeNext, PTL DEF Spec

-----------------------------------------------------------------------------
(* Who judges: assignments belong to the current round and to nobody on the team. *)
Evaluating == {"under_review", "ready_for_approval", "approved", "rejected"}
JudgesInv == TypeOK /\ AssignmentsOfRound /\ TeamNeverJudges

(* The conditions under which a step keeps both: what is in force afterwards was in force *)
(* before, or is an assignment of the checked current round to somebody outside the team. *)
LEMMA JudgesKept ==
    ASSUME JudgesInv, UNCHANGED <<round, members, officer>>, checked \subseteq checked',
           status' = status \/ status' \in Evaluating,
           \A i \in Assignments : Live(i)' =>
              \/ Live(i) /\ rows'[i].person = rows[i].person /\ rows'[i].round = rows[i].round
              \/ /\ rows'[i].round = round /\ round \in checked /\ status' \in Evaluating
                 /\ rows'[i].person \notin Participants
    PROVE  AssignmentsOfRound' /\ TeamNeverJudges'
  BY DEF JudgesInv, AssignmentsOfRound, TeamNeverJudges, Participants, Evaluating

(* While the proposal is with its owner no assignment is in force. *)
LEMMA NobodyJudgesDraft ==
    ASSUME JudgesInv, status \notin Evaluating
    PROVE  \A i \in Assignments : ~Live(i)
  BY DEF JudgesInv, AssignmentsOfRound, Evaluating

LEMMA JudgesPreparation == JudgesInv /\ Preparation => AssignmentsOfRound' /\ TeamNeverJudges'
  <1> SUFFICES ASSUME JudgesInv, Preparation PROVE AssignmentsOfRound' /\ TeamNeverJudges'
    OBVIOUS
  <1>1. ASSUME NEW ms \in Teams, replaceMembers(ms)
        PROVE AssignmentsOfRound' /\ TeamNeverJudges'
    <2>1. \A i \in Assignments : ~Live(i)
      BY <1>1, NobodyJudgesDraft DEF replaceMembers, Evaluating
    <2>2. officer' \notin Participants'
      BY <1>1 DEF replaceMembers, MayJoin, JudgesInv, TeamNeverJudges, Participants
    <2>3. \A i \in Assignments : ~Live(i)'
      BY <1>1, <2>1 DEF replaceMembers, Live
    <2> QED
      BY <2>2, <2>3 DEF AssignmentsOfRound, TeamNeverJudges
  <1>2. ASSUME NEW from \in {"draft", "supplement_requested"}, NEW to, NewRound(from, to)
        PROVE AssignmentsOfRound' /\ TeamNeverJudges'
    <2>1. \A i \in Assignments : ~Live(i)
      BY <1>2, NobodyJudgesDraft DEF NewRound, Evaluating
    <2>2. \A i \in Assignments : ~Live(i)'
      BY <1>2, <2>1 DEF NewRound, Live
    <2>3. AutoOfficer \cap Participants = {}
      BY PeopleAssumption DEF JudgesInv, TypeOK, TeamNeverJudges, AutoOfficer, Participants, Accounts
    <2>4. officer' \notin Participants'
      BY <1>2, <2>3 DEF NewRound, Participants
    <2> QED
      BY <2>2, <2>4 DEF AssignmentsOfRound, TeamNeverJudges
  <1>3. ASSUME NEW p \in People, requestSupplement(p)
        PROVE AssignmentsOfRound' /\ TeamNeverJudges'
    <2>1. \A i \in Assignments : ~Live(i)
      BY <1>3, NobodyJudgesDraft DEF requestSupplement, SupplementStatuses, Evaluating
    <2>2. \A i \in Assignments : ~Live(i)'
      BY <1>3, <2>1 DEF requestSupplement, Live
    <2> QED
      BY <1>3, <2>2 DEF requestSupplement, team, JudgesInv, AssignmentsOfRound, TeamNeverJudges,
                        Participants
  <1>4. ASSUME NEW p \in People, completeCheck(p)
        PROVE AssignmentsOfRound' /\ TeamNeverJudges'
    <2>1. \A i \in Assignments : Live(i)' <=> Live(i)
      BY <1>4 DEF completeCheck, Live
    <2> QED
      BY <1>4, <2>1, JudgesKept DEF completeCheck, team
  <1>5. ASSUME NEW p \in People, revokeManagementOfficer(p)
        PROVE AssignmentsOfRound' /\ TeamNeverJudges'
    BY <1>5, PeopleAssumption
       DEF revokeManagementOfficer, submission, JudgesInv, TypeOK, AssignmentsOfRound,
           TeamNeverJudges, Participants, Live
  <1>6. ASSUME NEW a \in People, NEW p \in People, assignManagementOfficer(a, p)
        PROVE AssignmentsOfRound' /\ TeamNeverJudges'
    BY <1>6 DEF assignManagementOfficer, submission, JudgesInv, AssignmentsOfRound,
                TeamNeverJudges, Participants, Live
  <1> QED
    BY <1>1, <1>2, <1>3, <1>4, <1>5, <1>6 DEF Preparation, submitProposal, resubmitProposal

(* An operation on other rows leaves in force only what was in force. *)
LEMMA OtherRowsLive ==
    ASSUME NEW i \in Assignments, NEW x, NEW new \in {Retired(x, i), Uninvited(x, i), CloseRound(i)},
           new.status \in {"assigned", "completed"}, rows[i] \in Row
    PROVE  Live(i) /\ new.person = rows[i].person /\ new.round = rows[i].round
  BY DEF Retired, Uninvited, CloseRound, Live, Row

LEMMA JudgesEvaluation == JudgesInv /\ Evaluation => AssignmentsOfRound' /\ TeamNeverJudges'
  <1> SUFFICES ASSUME JudgesInv, Evaluation PROVE AssignmentsOfRound' /\ TeamNeverJudges'
    OBVIOUS
  <1>0. \A i \in Assignments : rows[i] \in Row
    BY DEF JudgesInv, TypeOK
  <1>00. rows \in [Assignments -> Row]
    BY DEF JudgesInv, TypeOK
  <1>1. ASSUME NEW a \in People, NEW c \in Candidates, assignReviewer(a, c[1], c[2], c[3])
        PROVE AssignmentsOfRound' /\ TeamNeverJudges'
    <2>1. PICK n \in NextFree :
            rows' = [i \in Assignments |->
                       IF i = n THEN NewRow(c[1], c[2], "assigned", c[3]) ELSE Retired({c[1]}, i)]
      BY <1>1 DEF assignReviewer
    <2>2. ASSUME NEW i \in Assignments, Live(i)'
          PROVE  \/ Live(i) /\ rows'[i].person = rows[i].person /\ rows'[i].round = rows[i].round
                 \/ /\ rows'[i].round = round /\ round \in checked /\ status' \in Evaluating
                    /\ rows'[i].person \notin Participants
      <3>1. CASE i = n
        <4>1. rows'[i] = NewRow(c[1], c[2], "assigned", c[3])
          BY <2>1, <3>1
        <4> QED
          BY <1>1, <4>1 DEF assignReviewer, NewRow, AbsentRow, Evaluating
      <3>2. CASE i # n
        <4>1. rows'[i] = Retired({c[1]}, i)
          BY <2>1, <3>2
        <4>2. rows'[i].status \in {"assigned", "completed"}
          BY <2>2 DEF Live
        <4> QED
          BY <1>0, <4>1, <4>2, OtherRowsLive
      <3> QED
        BY <3>1, <3>2
    <2> QED
      BY <1>1, <2>2, JudgesKept DEF assignReviewer, team, Evaluating
  <1>2. ASSUME NEW i \in Assignments, NEW a \in People, revokeAssignment(a, i)
        PROVE AssignmentsOfRound' /\ TeamNeverJudges'
    <2>1. \A j \in Assignments : Live(j)' => Live(j) /\ rows'[j] = rows[j]
      BY <1>2, <1>00 DEF revokeAssignment, Live, Row
    <2> QED
      BY <1>2, <2>1, JudgesKept DEF revokeAssignment, submission, team
  <1>3. ASSUME NEW i \in Assignments, NEW answer \in {"accept", "decline"},
               respondToInvitation(i, answer)
        PROVE AssignmentsOfRound' /\ TeamNeverJudges'
    <2>1. \A j \in Assignments : Live(j)' =>
             Live(j) /\ rows'[j].person = rows[j].person /\ rows'[j].round = rows[j].round
      BY <1>3, <1>00 DEF respondToInvitation, Live, Row
    <2> QED
      BY <1>3, <2>1, JudgesKept DEF respondToInvitation, submission, team
  <1>4. ASSUME NEW i \in Assignments, Expire(i)
        PROVE AssignmentsOfRound' /\ TeamNeverJudges'
    <2>1. \A j \in Assignments : Live(j)' =>
             Live(j) /\ rows'[j].person = rows[j].person /\ rows'[j].round = rows[j].round
      BY <1>4, <1>00 DEF Expire, Live, Row
    <2> QED
      BY <1>4, <2>1, JudgesKept DEF Expire, submission, team
  <1>5. ASSUME NEW i \in Assignments, saveMyReview(i)
        PROVE AssignmentsOfRound' /\ TeamNeverJudges'
    <2>1. \A j \in Assignments : Live(j)' =>
             Live(j) /\ rows'[j].person = rows[j].person /\ rows'[j].round = rows[j].round
      BY <1>5, <1>00 DEF saveMyReview, Live, Row
    <2> QED
      BY <1>5, <2>1, JudgesKept DEF saveMyReview, submission, team
  <1>6. ASSUME NEW i \in Assignments, submitMyReview(i)
        PROVE AssignmentsOfRound' /\ TeamNeverJudges'
    <2>1. Live(i)
      BY <1>6 DEF submitMyReview, assertAssigned, ReviewAccess, Granting, Live
    <2>2. \A j \in Assignments : Live(j)' =>
             Live(j) /\ rows'[j].person = rows[j].person /\ rows'[j].round = rows[j].round
      BY <1>6, <1>00, <2>1 DEF submitMyReview, Live, Row
    <2> QED
      BY <1>6, <2>2, JudgesKept DEF submitMyReview, submission, team
  <1>7. ASSUME NEW p \in People,
               saveEvaluationSummary(p) \/ finalizeEvaluationSummary(p) \/ reopenEvaluationSummary(p)
        PROVE AssignmentsOfRound' /\ TeamNeverJudges'
    BY <1>7 DEF saveEvaluationSummary, finalizeEvaluationSummary, reopenEvaluationSummary,
                submission, team, JudgesInv, AssignmentsOfRound, TeamNeverJudges, Participants, Live
  <1>8. ASSUME NEW p \in People, submitEvaluationPackage(p)
        PROVE AssignmentsOfRound' /\ TeamNeverJudges'
    <2>1. ASSUME NEW j \in Assignments, Live(j)'
          PROVE  Live(j) /\ rows'[j].person = rows[j].person /\ rows'[j].round = rows[j].round
      <3>1. rows'[j] = CloseRound(j) /\ rows'[j].status \in {"assigned", "completed"}
        BY <1>8, <2>1 DEF submitEvaluationPackage, Live
      <3> QED
        BY <1>0, <3>1, OtherRowsLive
    <2> QED
      BY <1>8, <2>1, JudgesKept DEF submitEvaluationPackage, team, Evaluating
  <1> QED
    BY <1>1, <1>2, <1>3, <1>4, <1>5, <1>6, <1>7, <1>8 DEF Evaluation

LEMMA JudgesApproval == JudgesInv /\ Approval => AssignmentsOfRound' /\ TeamNeverJudges'
  <1> SUFFICES ASSUME JudgesInv, Approval PROVE AssignmentsOfRound' /\ TeamNeverJudges'
    OBVIOUS
  <1>1. /\ UNCHANGED <<round, checked, team, rows>>
        /\ status' = status \/ status' \in Evaluating
    BY DEF Approval, advance, returnPackage, revertOnReturn, returnCouncil, DecideCheck, decide,
           DecideRefused, submission, Evaluating
  <1>2. \A i \in Assignments : Live(i)' <=> Live(i)
    BY <1>1 DEF Live
  <1> QED
    BY <1>1, <1>2, JudgesKept DEF team

LEMMA JudgesCouncil == JudgesInv /\ CouncilSteps => AssignmentsOfRound' /\ TeamNeverJudges'
  <1> SUFFICES ASSUME JudgesInv, CouncilSteps PROVE AssignmentsOfRound' /\ TeamNeverJudges'
    OBVIOUS
  <1>0. \A i \in Assignments : rows[i] \in Row
    BY DEF JudgesInv, TypeOK
  <1>1. ASSUME NEW p \in People, NEW ms \in Rosters, NEW action \in {"save", "invite", "submit"},
               proposeCouncil(p, ms, action)
        PROVE AssignmentsOfRound' /\ TeamNeverJudges'
    <2>1. ASSUME NEW i \in Assignments, Live(i)'
          PROVE  Live(i) /\ rows'[i].person = rows[i].person /\ rows'[i].round = rows[i].round
      <3>1. CASE action = "save"
        BY <1>1, <2>1, <3>1 DEF proposeCouncil, Live
      <3>2. CASE action # "save"
        <4>1. PICK new \in [ToInvite(ms) -> Free] :
                rows' = [j \in Assignments |->
                           IF \E m \in ToInvite(ms) : new[m] = j
                           THEN LET m == CHOOSE m \in ToInvite(ms) : new[m] = j
                                IN  NewRow(m[1], m[2], "invited", "open")
                           ELSE Uninvited(ms, j)]
          BY <1>1, <3>2 DEF proposeCouncil, syncCouncilInvitations
        <4>2. rows'[i].status \in {"assigned", "completed"}
          BY <2>1 DEF Live
        <4>3. rows'[i] = Uninvited(ms, i)
          BY <4>1, <4>2 DEF NewRow, AbsentRow
        <4> QED
          BY <1>0, <4>2, <4>3, OtherRowsLive
      <3> QED
        BY <3>1, <3>2
    <2> QED
      BY <1>1, <2>1, JudgesKept DEF proposeCouncil, submission, team
  <1>2. ASSUME NEW l \in People, approveCouncil(l)
        PROVE AssignmentsOfRound' /\ TeamNeverJudges'
    <2>1. ASSUME NEW i \in Assignments, Live(i)'
          PROVE  \/ Live(i) /\ rows'[i].person = rows[i].person /\ rows'[i].round = rows[i].round
                 \/ /\ rows'[i].round = round /\ round \in checked /\ status' \in Evaluating
                    /\ rows'[i].person \notin Participants
      <3>1. rows'[i] = Established(i) /\ rows'[i].status \in {"assigned", "completed"}
        BY <1>2, <2>1 DEF approveCouncil, Live
      <3>2. CASE i \in Activated
        <4>1. rows'[i].person = rows[i].person /\ rows'[i].round = rows[i].round
          BY <1>0, <3>1, <3>2 DEF Established, Row
        <4>2. rows[i].round = round /\ rows[i].person \in People1(council.members)
          BY <3>2 DEF Activated, People1
        <4> QED
          BY <1>2, <4>1, <4>2 DEF approveCouncil, Evaluating
      <3>3. CASE i \notin Activated
        <4>1. CASE rows[i].status = "invited" /\ rows[i].round = round
          BY <1>0, <3>1, <3>3, <4>1 DEF Established, Row
        <4>2. CASE ~(rows[i].status = "invited" /\ rows[i].round = round)
          <5>1. rows'[i] = Retired({rows[j].person : j \in Activated}, i)
            BY <3>1, <3>3, <4>2 DEF Established
          <5> QED
            BY <1>0, <3>1, <5>1, OtherRowsLive
        <4> QED
          BY <4>1, <4>2
      <3> QED
        BY <3>2, <3>3
    <2> QED
      BY <1>2, <2>1, JudgesKept DEF approveCouncil, team, Evaluating
  <1>3. ASSUME NEW l \in People, rejectCouncil(l)
        PROVE AssignmentsOfRound' /\ TeamNeverJudges'
    BY <1>3 DEF rejectCouncil, submission, team, JudgesInv, AssignmentsOfRound, TeamNeverJudges,
                Participants, Live
  <1> QED
    BY <1>1, <1>2, <1>3 DEF CouncilSteps

LEMMA JudgesInductive == Init => JudgesInv
  <1> SUFFICES ASSUME Init PROVE AssignmentsOfRound /\ TeamNeverJudges
    BY TypeInit DEF JudgesInv
  <1>1. \A i \in Assignments : ~Live(i)
    BY DEF Init, Live, AbsentRow
  <1>2. officer \notin Participants
    BY PeopleAssumption DEF Init, Participants
  <1> QED
    BY <1>1, <1>2 DEF AssignmentsOfRound, TeamNeverJudges

LEMMA JudgesNext == JudgesInv /\ [Next]_vars => JudgesInv'
  <1>1. JudgesInv /\ UNCHANGED vars => AssignmentsOfRound' /\ TeamNeverJudges'
    BY DEF JudgesInv, AssignmentsOfRound, TeamNeverJudges, Participants, Live, vars
  <1>2. JudgesInv /\ [Next]_vars => TypeOK'
    BY TypeNext DEF JudgesInv
  <1>3. JudgesInv /\ Next => AssignmentsOfRound' /\ TeamNeverJudges'
    BY JudgesPreparation, JudgesEvaluation, JudgesApproval, JudgesCouncil DEF Next
  <1> QED
    BY <1>1, <1>2, <1>3 DEF JudgesInv

(* Every assignment in force is one of the current, checked submission, however supplement, *)
(* assignment, invitation and approval of a council interleave. *)
THEOREM AssignmentsOfRoundHolds == Spec => []AssignmentsOfRound
  <1>1. JudgesInv => AssignmentsOfRound
    BY DEF JudgesInv
  <1> QED
    BY JudgesInductive, JudgesNext, <1>1, PTL DEF Spec

(* Nobody on the team, and never the owner, judges or administers the proposal. *)
THEOREM TeamNeverJudgesHolds == Spec => []TeamNeverJudges
  <1>1. JudgesInv => TeamNeverJudges
    BY DEF JudgesInv
  <1> QED
    BY JudgesInductive, JudgesNext, <1>1, PTL DEF Spec

-----------------------------------------------------------------------------
(* What is handed in: a row not yet used carries no review. *)
UnusedUnwritten == \A i \in Assignments : rows[i].status = "absent" => rows[i].review = "none"
ReviewsInv == TypeOK /\ UnusedUnwritten

(* What a step may do to the rows: take an unused one, or keep person, round and a review *)
(* that was handed in. *)
RowStep ==
    \A i \in Assignments :
        \/ rows[i].status = "absent"
        \/ /\ rows'[i].status # "absent"
           /\ rows'[i].person = rows[i].person /\ rows'[i].round = rows[i].round
           /\ rows[i].review = "submitted" => rows'[i].review = "submitted"
AbsentStep ==
    \A i \in Assignments : rows'[i].status = "absent" => rows'[i] = rows[i]

LEMMA OtherRowsKept ==
    ASSUME NEW i \in Assignments, NEW x, NEW new \in {Retired(x, i), Uninvited(x, i), CloseRound(i)},
           rows[i] \in Row
    PROVE  /\ new.person = rows[i].person /\ new.round = rows[i].round /\ new.review = rows[i].review
           /\ new.status = "absent" <=> rows[i].status = "absent"
           /\ new.status = "absent" => new = rows[i]
  BY DEF Retired, Uninvited, CloseRound, Row

LEMMA RowsStep == TypeOK /\ Next => RowStep /\ AbsentStep
  <1> SUFFICES ASSUME TypeOK, Next PROVE RowStep /\ AbsentStep
    OBVIOUS
  <1>0. \A i \in Assignments : rows[i] \in Row
    BY DEF TypeOK
  <1>00. rows \in [Assignments -> Row]
    BY DEF TypeOK
  <1>1. ASSUME UNCHANGED rows PROVE RowStep /\ AbsentStep
    BY <1>1 DEF RowStep, AbsentStep
  <1>2. CASE Preparation
    BY <1>1, <1>2 DEF Preparation, replaceMembers, submitProposal, resubmitProposal, NewRound,
       requestSupplement, completeCheck, revokeManagementOfficer, assignManagementOfficer
  <1>3. CASE Approval
    BY <1>1, <1>3 DEF Approval, advance, returnPackage, returnCouncil, DecideCheck, decide,
       DecideRefused
  <1>4. CASE Evaluation
    <2>1. ASSUME NEW a \in People, NEW c \in Candidates, assignReviewer(a, c[1], c[2], c[3])
          PROVE RowStep /\ AbsentStep
      <3>1. PICK n \in NextFree :
              rows' = [i \in Assignments |->
                         IF i = n THEN NewRow(c[1], c[2], "assigned", c[3]) ELSE Retired({c[1]}, i)]
        BY <2>1 DEF assignReviewer
      <3>2. rows[n].status = "absent"
        BY DEF NextFree, Free
      <3>3. rows'[n].status = "assigned"
        BY <3>1 DEF NextFree, Free, NewRow, AbsentRow
      <3>4. \A i \in Assignments : i # n => rows'[i] = Retired({c[1]}, i)
        BY <3>1
      <3> QED
        BY <1>0, <3>2, <3>3, <3>4, OtherRowsKept DEF RowStep, AbsentStep
    <2>2. ASSUME NEW i \in Assignments,
                 \/ \E a \in People : revokeAssignment(a, i)
                 \/ \E answer \in {"accept", "decline"} : respondToInvitation(i, answer)
                 \/ Expire(i)
          PROVE RowStep /\ AbsentStep
      BY <1>0, <1>00, <2>2 DEF revokeAssignment, respondToInvitation, Expire, Live, RowStep, AbsentStep, Row
    <2>3. ASSUME NEW i \in Assignments, saveMyReview(i) \/ submitMyReview(i)
          PROVE RowStep /\ AbsentStep
      <3>1. rows[i].review # "submitted" /\ rows[i].status \in {"assigned", "completed"}
        BY <2>3 DEF saveMyReview, submitMyReview, assertReviewIsOpen, assertAssigned, ReviewAccess, Granting
      <3>2. PICK new \in {[rows[i] EXCEPT !.review = "draft"],
                          [rows[i] EXCEPT !.review = "submitted", !.status = "completed"]} :
                 rows' = [rows EXCEPT ![i] = new]
        BY <1>00, <2>3 DEF saveMyReview, submitMyReview
      <3>3. /\ new.person = rows[i].person /\ new.round = rows[i].round
            /\ new.status \in {"assigned", "completed"}
        BY <1>0, <3>1, <3>2 DEF Row
      <3> QED
        BY <1>00, <3>1, <3>2, <3>3 DEF RowStep, AbsentStep
    <2>4. ASSUME NEW p \in People, submitEvaluationPackage(p)
          PROVE RowStep /\ AbsentStep
      <3>1. \A i \in Assignments : rows'[i] = CloseRound(i)
        BY <2>4 DEF submitEvaluationPackage
      <3> QED
        BY <1>0, <3>1, OtherRowsKept DEF RowStep, AbsentStep
    <2>5. ASSUME NEW p \in People,
                 saveEvaluationSummary(p) \/ finalizeEvaluationSummary(p) \/ reopenEvaluationSummary(p)
          PROVE RowStep /\ AbsentStep
      BY <1>1, <2>5 DEF saveEvaluationSummary, finalizeEvaluationSummary, reopenEvaluationSummary
    <2> QED
      BY <1>4, <2>1, <2>2, <2>3, <2>4, <2>5 DEF Evaluation
  <1>5. CASE CouncilSteps
    <2>1. ASSUME NEW p \in People, NEW ms \in Rosters, NEW action \in {"save", "invite", "submit"},
                 proposeCouncil(p, ms, action)
          PROVE RowStep /\ AbsentStep
      <3>1. CASE action = "save"
        BY <1>1, <2>1, <3>1 DEF proposeCouncil
      <3>2. CASE action # "save"
        <4>1. PICK new \in [ToInvite(ms) -> Free] :
                rows' = [j \in Assignments |->
                           IF \E m \in ToInvite(ms) : new[m] = j
                           THEN LET m == CHOOSE m \in ToInvite(ms) : new[m] = j
                                IN  NewRow(m[1], m[2], "invited", "open")
                           ELSE Uninvited(ms, j)]
          BY <2>1, <3>2 DEF proposeCouncil, syncCouncilInvitations
        <4>2. \A i \in Assignments :
                 \/ rows[i].status = "absent" /\ rows'[i].status = "invited"
                 \/ rows'[i] = Uninvited(ms, i)
          BY <4>1 DEF NewRow, AbsentRow, Free
        <4> QED
          BY <1>0, <4>2, OtherRowsKept DEF RowStep, AbsentStep
      <3> QED
        BY <3>1, <3>2
    <2>2. ASSUME NEW l \in People, approveCouncil(l)
          PROVE RowStep /\ AbsentStep
      <3>1. ASSUME NEW i \in Assignments
            PROVE  /\ rows'[i].person = rows[i].person /\ rows'[i].round = rows[i].round
                   /\ rows'[i].review = rows[i].review
                   /\ rows'[i].status = "absent" <=> rows[i].status = "absent"
                   /\ rows'[i].status = "absent" => rows'[i] = rows[i]
        <4>1. rows'[i] = Established(i)
          BY <2>2 DEF approveCouncil
        <4>2. CASE i \in Activated \/ (rows[i].status = "invited" /\ rows[i].round = round)
          BY <1>0, <4>1, <4>2 DEF Established, Activated, Row
        <4>3. CASE ~(i \in Activated \/ (rows[i].status = "invited" /\ rows[i].round = round))
          <5>1. rows'[i] = Retired({rows[j].person : j \in Activated}, i)
            BY <4>1, <4>3 DEF Established
          <5> QED
            BY <1>0, <5>1, OtherRowsKept
        <4> QED
          BY <4>2, <4>3
      <3> QED
        BY <3>1 DEF RowStep, AbsentStep
    <2>3. ASSUME NEW l \in People, rejectCouncil(l) PROVE RowStep /\ AbsentStep
      BY <1>1, <2>3 DEF rejectCouncil
    <2> QED
      BY <1>5, <2>1, <2>2, <2>3 DEF CouncilSteps
  <1> QED
    BY <1>2, <1>3, <1>4, <1>5 DEF Next

(* A review that was handed in stands in every behaviour: it is not rewritten, withdrawn or *)
(* moved to another person or round, by no later assignment, invitation or decision. *)
THEOREM SubmittedReviewsHold == Spec => SubmittedReviewsStand
  <1>1. Init => ReviewsInv
    BY TypeInit DEF Init, ReviewsInv, UnusedUnwritten, AbsentRow
  <1>2. ReviewsInv /\ [Next]_vars => ReviewsInv'
    <2>1. ReviewsInv /\ [Next]_vars => TypeOK'
      BY TypeNext DEF ReviewsInv
    <2>2. ReviewsInv /\ Next => UnusedUnwritten'
      BY RowsStep DEF ReviewsInv, UnusedUnwritten, AbsentStep
    <2>3. ReviewsInv /\ UNCHANGED vars => UnusedUnwritten'
      BY DEF ReviewsInv, UnusedUnwritten, vars
    <2> QED
      BY <2>1, <2>2, <2>3 DEF ReviewsInv
  <1>3. ReviewsInv /\ [Next]_vars =>
          [\A i \in Assignments : rows[i].review = "submitted" =>
              /\ rows'[i].review = "submitted"
              /\ rows'[i].person = rows[i].person /\ rows'[i].round = rows[i].round]_vars
    BY RowsStep DEF ReviewsInv, UnusedUnwritten, RowStep
  <1> QED
    BY <1>1, <1>2, <1>3, PTL DEF Spec, SubmittedReviewsStand

-----------------------------------------------------------------------------
(* The approval route: what is closed stays closed, and only the package of a proposal under *)
(* evaluation and a council still open to change may be submitted. *)
RouteExact ==
    /\ RouteAgrees
    /\ route["DECISION_PACKAGE"] \in {"approved", "rejected"} => status = route["DECISION_PACKAGE"]
    /\ route["EVALUATION_COUNCIL"] = "approved" <=> council.status = "approved"
    /\ route["EVALUATION_COUNCIL"] # "rejected"
RouteInv == TypeOK /\ RouteExact

LEMMA RouteInit == Init => RouteInv
  <1> SUFFICES ASSUME Init PROVE RouteExact
    BY TypeInit DEF RouteInv
  <1> QED
    BY DEF Init, RouteExact, RouteAgrees, UnderReview, Procedures

(* Steps that change neither the route nor the records it locks. *)
LEMMA RouteUntouched ==
    ASSUME RouteExact, UNCHANGED <<route, summary, council>>,
           \/ UNCHANGED status
           \/ /\ status \notin {"ready_for_approval", "approved", "rejected"}
              /\ status' \notin {"ready_for_approval", "approved", "rejected"}
    PROVE  RouteExact'
  BY DEF RouteExact, RouteAgrees, UnderReview

(* Every step is one of the abstract procedure, or none, and keeps the records in agreement. *)
LEMMA RouteStep == RouteInv /\ Next => RouteExact' /\ [Procedure!Next]_route
  <1> SUFFICES ASSUME RouteInv, Next PROVE RouteExact' /\ [Procedure!Next]_route
    OBVIOUS
  <1>0. RouteExact /\ route \in [Procedures -> Phases]
    BY DEF RouteInv, TypeOK
  <1> DEFINE Goal == RouteExact' /\ [Procedure!Next]_route
  <1>1. ASSUME UNCHANGED <<route, summary, council>>,
               \/ UNCHANGED status
               \/ /\ status \notin {"ready_for_approval", "approved", "rejected"}
                  /\ status' \notin {"ready_for_approval", "approved", "rejected"}
        PROVE Goal
    BY <1>0, <1>1, RouteUntouched
  <1>2. CASE Preparation
    BY <1>1, <1>2 DEF Preparation, replaceMembers, submitProposal, resubmitProposal, NewRound,
       requestSupplement, SupplementStatuses, completeCheck, revokeManagementOfficer,
       assignManagementOfficer, submission
  <1>3. CASE Evaluation
    <2>1. ASSUME NEW a \in People, NEW c \in Candidates, assignReviewer(a, c[1], c[2], c[3])
          PROVE Goal
      BY <1>1, <2>1 DEF assignReviewer, AssignableStatuses
    <2>2. ASSUME NEW i \in Assignments,
                 \/ \E a \in People : revokeAssignment(a, i)
                 \/ \E answer \in {"accept", "decline"} : respondToInvitation(i, answer)
                 \/ Expire(i) \/ saveMyReview(i) \/ submitMyReview(i)
          PROVE Goal
      BY <1>1, <2>2 DEF revokeAssignment, respondToInvitation, Expire, saveMyReview,
         submitMyReview, submission
    <2>3. ASSUME NEW p \in People,
                 saveEvaluationSummary(p) \/ finalizeEvaluationSummary(p) \/ reopenEvaluationSummary(p)
          PROVE Goal
      <3>1. UNCHANGED <<route, council, status>> /\ status = "under_review"
        BY <2>3 DEF saveEvaluationSummary, finalizeEvaluationSummary, reopenEvaluationSummary,
           loadForConsolidation, submission
      <3>2. summary'.status # "ready_for_approval"
        <4>1. summary \in Summary
          BY DEF RouteInv, TypeOK
        <4>2. CASE saveEvaluationSummary(p)
          BY <4>2 DEF saveEvaluationSummary, Package
        <4>3. CASE finalizeEvaluationSummary(p)
          BY <4>3 DEF finalizeEvaluationSummary, Package
        <4>4. CASE reopenEvaluationSummary(p)
          BY <4>1, <4>4 DEF reopenEvaluationSummary, Summary
        <4> QED
          BY <2>3, <4>2, <4>3, <4>4
      <3>3. RouteExact'
        BY <1>0, <3>1, <3>2 DEF RouteExact, RouteAgrees, UnderReview
      <3> QED
        BY <3>1, <3>3
    <2>4. ASSUME NEW p \in People, submitEvaluationPackage(p)
          PROVE Goal
      <3>1. /\ status = "under_review" /\ status' = "ready_for_approval"
            /\ openApprovalSubmission("DECISION_PACKAGE", p) /\ UNCHANGED council
        BY <2>4 DEF submitEvaluationPackage, loadForConsolidation
      <3>2. summary'.status = "ready_for_approval"
        BY <2>4 DEF submitEvaluationPackage, RouteInv, TypeOK, Summary
      <3>3. route["DECISION_PACKAGE"] = "drafting"
        BY <1>0, <3>1 DEF RouteExact, RouteAgrees, UnderReview, Phases, Procedures
      <3>4. /\ route'["DECISION_PACKAGE"] \in UnderReview
            /\ route'["EVALUATION_COUNCIL"] = route["EVALUATION_COUNCIL"]
        BY <3>1, OpenType DEF RouteInv, Procedures
      <3>5. RouteExact'
        BY <1>0, <3>1, <3>2, <3>4 DEF RouteExact, RouteAgrees, UnderReview
      <3>6. Procedure!Submit("DECISION_PACKAGE")
        BY <3>1, <3>3 DEF openApprovalSubmission, Procedure!Submit, Procedure!Move
      <3> QED
        BY <3>5, <3>6 DEF Procedure!Next, Procedures
    <2> QED
      BY <1>3, <2>1, <2>2, <2>3, <2>4 DEF Evaluation
  <1>4. CASE Approval
    <2>1. ASSUME NEW k \in Procedures, advance(k) PROVE Goal
      <3>1. UNCHANGED <<status, summary, council>>
        BY <2>1 DEF advance, submission
      <3>2. /\ route[k] \in UnderReview /\ route'[k] \in UnderReview
            /\ \A j \in Procedures \ {k} : route'[j] = route[j]
        BY <1>0, <2>1 DEF advance, UnderReview
      <3>3. RouteExact'
        BY <1>0, <3>1, <3>2 DEF RouteExact, RouteAgrees, UnderReview, Procedures
      <3>4. Procedure!Forward(k) \/ Procedure!Endorse(k)
        BY <1>0, <2>1 DEF advance, Procedure!Forward, Procedure!Endorse, Procedure!Move
      <3> QED
        BY <3>3, <3>4 DEF Procedure!Next
    <2>2. CASE returnPackage
      <3>1. /\ route["DECISION_PACKAGE"] \in {"BOARD_REVIEW", "HEAD_REVIEW"}
            /\ route' = [route EXCEPT !["DECISION_PACKAGE"] = "drafting"]
            /\ UNCHANGED council
        BY <2>2 DEF returnPackage
      <3>2. status = "ready_for_approval"
        BY <1>0, <3>1 DEF RouteExact, RouteAgrees, UnderReview
      <3>3. status' = "under_review" /\ summary'.status = "finalized"
        BY <2>2, <3>2 DEF returnPackage, revertOnReturn, RouteInv, TypeOK, Summary
      <3>4. RouteExact'
        BY <1>0, <3>1, <3>3 DEF RouteExact, RouteAgrees, UnderReview, Procedures
      <3>5. Procedure!SendBack("DECISION_PACKAGE")
        BY <3>1 DEF Procedure!SendBack, Procedure!Move, Procedure!UnderReview
      <3> QED
        BY <3>4, <3>5 DEF Procedure!Next, Procedures
    <2>3. CASE returnCouncil
      <3>1. /\ route["EVALUATION_COUNCIL"] \in {"BOARD_REVIEW", "HEAD_REVIEW"}
            /\ route' = [route EXCEPT !["EVALUATION_COUNCIL"] = "drafting"]
            /\ UNCHANGED <<status, summary>>
        BY <2>3 DEF returnCouncil, submission
      <3>2. council.status = "submitted"
        BY <1>0, <3>1 DEF RouteExact, RouteAgrees, UnderReview
      <3>3. council'.status = "returned"
        BY <2>3, <3>2 DEF returnCouncil, RouteInv, TypeOK, Council
      <3>4. RouteExact'
        BY <1>0, <3>1, <3>3 DEF RouteExact, RouteAgrees, UnderReview, Procedures
      <3>5. Procedure!SendBack("EVALUATION_COUNCIL")
        BY <3>1 DEF Procedure!SendBack, Procedure!Move, Procedure!UnderReview
      <3> QED
        BY <3>4, <3>5 DEF Procedure!Next, Procedures
    <2>4. ASSUME NEW d \in Directors, NEW outcome \in {"approved", "rejected"}, decide(d, outcome)
          PROVE Goal
      <3>1. /\ route["DECISION_PACKAGE"] = "LEADERSHIP"
            /\ route' = [route EXCEPT !["DECISION_PACKAGE"] = outcome]
            /\ status' = outcome /\ UNCHANGED <<summary, council>>
            /\ summary.status = "ready_for_approval"
        BY <2>4 DEF decide, assertDecidablePackage
      <3>2. RouteExact'
        BY <1>0, <3>1 DEF RouteExact, RouteAgrees, UnderReview, Procedures
      <3>3. Procedure!Approve("DECISION_PACKAGE") \/ Procedure!Refuse("DECISION_PACKAGE")
        BY <3>1 DEF Procedure!Approve, Procedure!Refuse, Procedure!Move
      <3> QED
        BY <3>2, <3>3 DEF Procedure!Next, Procedures
    <2>5. ASSUME NEW d \in Directors,
                 (\E revision \in 1..MaxRevision : DecideCheck(d, revision)) \/ DecideRefused(d)
          PROVE Goal
      BY <1>1, <2>5 DEF DecideCheck, DecideRefused, submission
    <2> QED
      BY <1>4, <2>1, <2>2, <2>3, <2>4, <2>5 DEF Approval
  <1>5. CASE CouncilSteps
    <2>1. ASSUME NEW p \in People, NEW ms \in Rosters, NEW action \in {"save", "invite", "submit"},
                 proposeCouncil(p, ms, action)
          PROVE Goal
      <3>1. /\ council.status \notin {"submitted", "approved"} /\ UNCHANGED <<status, summary>>
        BY <2>1 DEF proposeCouncil, CouncilEditable, submission
      <3>2. route["EVALUATION_COUNCIL"] = "drafting"
        BY <1>0, <3>1 DEF RouteExact, RouteAgrees, UnderReview, Phases, Procedures
      <3>3. CASE action = "submit"
        <4>1. openApprovalSubmission("EVALUATION_COUNCIL", p) /\ council'.status = "submitted"
          BY <2>1, <3>3 DEF proposeCouncil
        <4>2. /\ route'["EVALUATION_COUNCIL"] \in UnderReview
              /\ route'["DECISION_PACKAGE"] = route["DECISION_PACKAGE"]
          BY <4>1, OpenType DEF RouteInv, Procedures
        <4>3. RouteExact'
          BY <1>0, <3>1, <4>1, <4>2 DEF RouteExact, RouteAgrees, UnderReview
        <4>4. Procedure!Submit("EVALUATION_COUNCIL")
          BY <3>2, <4>1 DEF openApprovalSubmission, Procedure!Submit, Procedure!Move
        <4> QED
          BY <4>3, <4>4 DEF Procedure!Next, Procedures
      <3>4. CASE action # "submit"
        <4>1. UNCHANGED route /\ council'.status = "draft"
          BY <2>1, <3>4 DEF proposeCouncil
        <4>2. RouteExact'
          BY <1>0, <3>1, <3>2, <4>1 DEF RouteExact, RouteAgrees, UnderReview
        <4> QED
          BY <4>1, <4>2
      <3> QED
        BY <3>3, <3>4
    <2>2. ASSUME NEW l \in People, approveCouncil(l) PROVE Goal
      <3>1. /\ route["EVALUATION_COUNCIL"] = "LEADERSHIP"
            /\ route' = [route EXCEPT !["EVALUATION_COUNCIL"] = "approved"]
            /\ status \in AssignableStatuses /\ status' = "under_review" /\ UNCHANGED summary
        BY <2>2 DEF approveCouncil, assertCouncilSigning
      <3>2. council'.status = "approved"
        BY <2>2 DEF approveCouncil, RouteInv, TypeOK, Council
      <3>3. RouteExact'
        BY <1>0, <3>1, <3>2 DEF RouteExact, RouteAgrees, UnderReview, Procedures, AssignableStatuses
      <3>4. Procedure!Approve("EVALUATION_COUNCIL")
        BY <3>1 DEF Procedure!Approve, Procedure!Move
      <3> QED
        BY <3>3, <3>4 DEF Procedure!Next, Procedures
    <2>3. ASSUME NEW l \in People, rejectCouncil(l) PROVE Goal
      <3>1. /\ route["EVALUATION_COUNCIL"] = "LEADERSHIP"
            /\ route' = [route EXCEPT !["EVALUATION_COUNCIL"] = "drafting"]
            /\ UNCHANGED <<status, summary>>
        BY <2>3 DEF rejectCouncil, assertCouncilSigning, submission
      <3>2. council'.status = "rejected"
        BY <2>3 DEF rejectCouncil, RouteInv, TypeOK, Council
      <3>3. RouteExact'
        BY <1>0, <3>1, <3>2 DEF RouteExact, RouteAgrees, UnderReview, Procedures
      <3>4. Procedure!SendBack("EVALUATION_COUNCIL")
        BY <3>1 DEF Procedure!SendBack, Procedure!Move, Procedure!UnderReview
      <3> QED
        BY <3>3, <3>4 DEF Procedure!Next, Procedures
    <2> QED
      BY <1>5, <2>1, <2>2, <2>3 DEF CouncilSteps
  <1> QED
    BY <1>2, <1>3, <1>4, <1>5 DEF Next

LEMMA RouteNext == RouteInv /\ [Next]_vars => RouteInv'
  <1>1. RouteInv /\ UNCHANGED vars => RouteExact'
    BY RouteUntouched DEF RouteInv, vars
  <1> QED
    BY <1>1, RouteStep, TypeNext DEF RouteInv

(* The records of proposal, summary and council and the approval route always agree. *)
THEOREM RouteAgreesHolds == Spec => []RouteAgrees
  <1>1. RouteInv => RouteAgrees
    BY DEF RouteInv, RouteExact
  <1> QED
    BY RouteInit, RouteNext, <1>1, PTL DEF Spec

(* Council and package implement the abstract approval procedure: no stage is skipped, nothing *)
(* under review is submitted again and nothing decided reopens. *)
THEOREM RefinesProcedure == Spec => ImplementsProcedure
  <1>1. Init => Procedure!Init
    BY DEF Init, Procedure!Init
  <1>2. RouteInv /\ [Next]_vars => [Procedure!Next]_route
    <2>1. UNCHANGED vars => UNCHANGED route
      BY DEF vars
    <2> QED
      BY <2>1, RouteStep
  <1> QED
    BY RouteInit, RouteNext, <1>1, <1>2, PTL DEF Spec, ImplementsProcedure, Procedure!Spec
=============================================================================
