------------------------ MODULE ProposalDecisionProofs ------------------------
(* Theorems about the end of ProposalEvaluation: who consolidates and decides, *)
(* on which reviews, and how large a council becomes.  They rest on the        *)
(* invariants of ProposalEvaluationProofs.                                     *)
EXTENDS ProposalEvaluationProofs, FiniteSetTheorems

(* A review is written by somebody who scores, and handed in with the assignment completed *)
(* (which may be revoked later). *)
WrittenOK(row) ==
    /\ row.review # "none" => row.role \in ScoringRoles /\ row.status # "absent"
    /\ row.review = "submitted" => row.status \in {"completed", "revoked"}

WrittenInv == JudgesInv /\ \A i \in Assignments : WrittenOK(rows[i])

LEMMA WrittenUpdate ==
    ASSUME NEW row \in Row, WrittenOK(row)
    PROVE  /\ WrittenOK([row EXCEPT !.status = "revoked"])
           /\ row.status \in {"assigned", "invited"} =>
                 /\ WrittenOK([row EXCEPT !.status = "declined"])
                 /\ WrittenOK([row EXCEPT !.status = "assigned"])
                 /\ WrittenOK([row EXCEPT !.status = "completed"])
           /\ WrittenOK([row EXCEPT !.accepted = TRUE])
           /\ WrittenOK([row EXCEPT !.window = "over"])
           /\ row.role \in ScoringRoles /\ row.review # "submitted" /\ row.status # "absent" =>
                 /\ WrittenOK([row EXCEPT !.review = "draft"])
                 /\ WrittenOK([row EXCEPT !.review = "submitted", !.status = "completed"])
  BY DEF WrittenOK, Row

LEMMA WrittenNew ==
    ASSUME NEW p, NEW r, NEW st, NEW w PROVE WrittenOK(NewRow(p, r, st, w))
  BY DEF WrittenOK, NewRow, AbsentRow

LEMMA WrittenOthers ==
    ASSUME NEW i \in Assignments, NEW x, rows[i] \in Row, WrittenOK(rows[i])
    PROVE  WrittenOK(Retired(x, i)) /\ WrittenOK(Uninvited(x, i)) /\ WrittenOK(CloseRound(i))
  BY WrittenUpdate DEF Retired, Uninvited, CloseRound

(* One row under each operation that writes rows. *)
LEMMA WrittenStep ==
    ASSUME WrittenInv, Next, NEW i \in Assignments
    PROVE  WrittenOK(rows'[i])
  <1>0. /\ rows \in [Assignments -> Row] /\ rows[i] \in Row /\ WrittenOK(rows[i])
    BY DEF WrittenInv, JudgesInv, TypeOK
  <1>1. ASSUME UNCHANGED rows PROVE WrittenOK(rows'[i])
    BY <1>0, <1>1
  <1>2. CASE Preparation
    BY <1>1, <1>2 DEF Preparation, replaceMembers, submitProposal, resubmitProposal, NewRound,
       requestSupplement, completeCheck, revokeManagementOfficer, assignManagementOfficer
  <1>3. CASE Approval
    BY <1>1, <1>3 DEF Approval, advance, returnPackage, returnCouncil, DecideCheck, decide,
       DecideRefused
  <1>4. CASE Evaluation
    <2>1. ASSUME NEW a \in People, NEW c \in Candidates, assignReviewer(a, c[1], c[2], c[3])
          PROVE WrittenOK(rows'[i])
      <3>1. rows'[i] \in {NewRow(c[1], c[2], "assigned", c[3]), Retired({c[1]}, i)}
        BY <2>1 DEF assignReviewer
      <3> QED
        BY <1>0, <3>1, WrittenNew, WrittenOthers
    <2>2. ASSUME NEW j \in Assignments, NEW a \in People, revokeAssignment(a, j)
          PROVE WrittenOK(rows'[i])
      BY <1>0, <2>2, WrittenUpdate DEF revokeAssignment
    <2>3. ASSUME NEW j \in Assignments, NEW answer \in {"accept", "decline"},
                 respondToInvitation(j, answer)
          PROVE WrittenOK(rows'[i])
      BY <1>0, <2>3, WrittenUpdate DEF respondToInvitation
    <2>4. ASSUME NEW j \in Assignments, Expire(j) PROVE WrittenOK(rows'[i])
      BY <1>0, <2>4, WrittenUpdate DEF Expire
    <2>5. ASSUME NEW j \in Assignments, saveMyReview(j) PROVE WrittenOK(rows'[i])
      <3>1. Scoring(j) /\ rows[j].review # "submitted" /\ rows[j].status # "absent"
        BY <2>5 DEF saveMyReview, assertAssigned, assertReviewIsOpen, ReviewAccess, Granting
      <3> QED
        BY <1>0, <2>5, <3>1, WrittenUpdate DEF saveMyReview, Scoring
    <2>6. ASSUME NEW j \in Assignments, submitMyReview(j) PROVE WrittenOK(rows'[i])
      <3>1. Scoring(j) /\ rows[j].review # "submitted" /\ rows[j].status # "absent"
        BY <2>6 DEF submitMyReview, assertAssigned, assertReviewIsOpen, ReviewAccess, Granting
      <3> QED
        BY <1>0, <2>6, <3>1, WrittenUpdate DEF submitMyReview, Scoring
    <2>7. ASSUME NEW p \in People, submitEvaluationPackage(p) PROVE WrittenOK(rows'[i])
      BY <1>0, <2>7, WrittenOthers DEF submitEvaluationPackage
    <2>8. ASSUME NEW p \in People,
                 saveEvaluationSummary(p) \/ finalizeEvaluationSummary(p) \/ reopenEvaluationSummary(p)
          PROVE WrittenOK(rows'[i])
      BY <1>1, <2>8 DEF saveEvaluationSummary, finalizeEvaluationSummary, reopenEvaluationSummary
    <2> QED
      BY <1>4, <2>1, <2>2, <2>3, <2>4, <2>5, <2>6, <2>7, <2>8 DEF Evaluation
  <1>5. CASE CouncilSteps
    <2>1. ASSUME NEW p \in People, NEW ms \in Rosters, NEW action \in {"save", "invite", "submit"},
                 proposeCouncil(p, ms, action)
          PROVE WrittenOK(rows'[i])
      <3>1. CASE action = "save"
        BY <1>1, <2>1, <3>1 DEF proposeCouncil
      <3>2. CASE action # "save"
        <4>1. \/ \E q, r : rows'[i] = NewRow(q, r, "invited", "open")
              \/ rows'[i] = Uninvited(ms, i)
          BY <2>1, <3>2 DEF proposeCouncil, syncCouncilInvitations
        <4> QED
          BY <1>0, <4>1, WrittenNew, WrittenOthers
      <3> QED
        BY <3>1, <3>2
    <2>2. ASSUME NEW l \in People, approveCouncil(l) PROVE WrittenOK(rows'[i])
      <3>1. rows'[i] = Established(i)
        BY <2>2 DEF approveCouncil
      <3>2. CASE i \in Activated
        BY <1>0, <3>1, <3>2, WrittenUpdate DEF Established, Activated
      <3>3. CASE i \notin Activated
        BY <1>0, <3>1, <3>3, WrittenUpdate, WrittenOthers DEF Established
      <3> QED
        BY <3>2, <3>3
    <2>3. ASSUME NEW l \in People, rejectCouncil(l) PROVE WrittenOK(rows'[i])
      BY <1>1, <2>3 DEF rejectCouncil
    <2> QED
      BY <1>5, <2>1, <2>2, <2>3 DEF CouncilSteps
  <1> QED
    BY <1>2, <1>3, <1>4, <1>5 DEF Next

LEMMA WrittenInit == Init => WrittenInv
  BY JudgesInductive DEF Init, WrittenInv, WrittenOK, AbsentRow

LEMMA WrittenNext == WrittenInv /\ [Next]_vars => WrittenInv'
  <1>1. WrittenInv /\ [Next]_vars => JudgesInv'
    BY JudgesNext DEF WrittenInv
  <1>2. WrittenInv /\ Next => \A i \in Assignments : WrittenOK(rows'[i])
    BY WrittenStep
  <1>3. WrittenInv /\ UNCHANGED vars => \A i \in Assignments : WrittenOK(rows'[i])
    BY DEF WrittenInv, vars
  <1> QED
    BY <1>1, <1>2, <1>3 DEF WrittenInv

(* What was handed in stays where it is. *)
LEMMA SubmittedStays ==
    ASSUME WrittenInv, Next, NEW i \in Assignments, rows[i].review = "submitted"
    PROVE  rows'[i].review = "submitted" /\ rows'[i].person = rows[i].person
  BY RowsStep DEF WrittenInv, JudgesInv, WrittenOK, RowStep

-----------------------------------------------------------------------------
(* Third persons.  Whoever finalized the evidence of the summary, and whoever asked to      *)
(* decide its present revision, wrote none of its reviews and is not on the team: the team   *)
(* changes only before the evaluation, and another set of reviews is another revision.       *)
Third(p) == p \notin Participants /\ \A i \in summary.reviews : rows[i].person # p

ThirdInv ==
    /\ WrittenInv
    /\ \A i \in summary.reviews : rows[i].review = "submitted"
    /\ summary.lifecycle = "finalized" =>
          status \in Evaluating /\ Third(summary.finalizedBy) /\ summary.finalizedBy # Nobody
    /\ status \in {"ready_for_approval", "approved", "rejected"} => summary.lifecycle = "finalized"
    /\ \A d \in Directors : deciding[d] # 0 =>
          /\ status \in Evaluating /\ deciding[d] <= summary.revision
          /\ deciding[d] = summary.revision => Third(d)
    /\ decision.outcome # "none" => status \in {"approved", "rejected"} /\ Third(decision.by)

LEMMA ThirdInit == Init => ThirdInv
  BY WrittenInit DEF Init, ThirdInv

(* A person without a conflict is a third person to any set of reviews that were handed in. *)
LEMMA NoConflictIsThird ==
    ASSUME WrittenInv, NEW p, ~resolveActorConflict(p), NEW i \in Assignments,
           rows[i].review = "submitted"
    PROVE  p \notin Participants /\ rows[i].person # p
  BY DEF WrittenInv, WrittenOK, resolveActorConflict, RowsOf

(* The conditions under which a step that leaves the evidence alone keeps the invariant. *)
LEMMA ThirdKept ==
    ASSUME ThirdInv, Next,
           summary'.reviews = summary.reviews, summary'.revision = summary.revision,
           summary'.lifecycle = summary.lifecycle, summary'.finalizedBy = summary.finalizedBy,
           UNCHANGED <<deciding, decision>>,
           members' = members \/ status \notin Evaluating,
           status \in Evaluating => status' \in Evaluating,
           status' \in {"ready_for_approval", "approved", "rejected"} =>
              summary'.lifecycle = "finalized",
           decision.outcome # "none" => status' = status
    PROVE  ThirdInv'
  <1>1. WrittenInv'
    BY WrittenNext DEF ThirdInv
  <1>2. \A i \in summary.reviews :
           rows'[i].review = "submitted" /\ rows'[i].person = rows[i].person
    <2>1. summary.reviews \subseteq Assignments
      BY DEF ThirdInv, WrittenInv, JudgesInv, TypeOK, Summary
    <2> QED
      BY <2>1, SubmittedStays DEF ThirdInv
  <1>3. ASSUME NEW p, Third(p), status \in Evaluating PROVE Third(p)'
    BY <1>2, <1>3 DEF Third, Participants
  <1>4. decision.outcome # "none" => status \in Evaluating
    BY DEF ThirdInv, Evaluating
  <1>5. summary'.lifecycle = "finalized" =>
          /\ status' \in Evaluating /\ Third(summary.finalizedBy)'
          /\ summary'.finalizedBy # Nobody
    BY <1>3 DEF ThirdInv
  <1>6. \A d \in Directors : deciding[d] # 0 =>
          /\ status' \in Evaluating /\ deciding[d] <= summary.revision
          /\ deciding[d] = summary.revision => Third(d)'
    BY <1>3 DEF ThirdInv
  <1>7. decision.outcome # "none" => status' \in {"approved", "rejected"} /\ Third(decision.by)'
    BY <1>3, <1>4 DEF ThirdInv
  <1> QED
    BY <1>1, <1>2, <1>5, <1>6, <1>7 DEF ThirdInv, Third

(* The summary is captured again, or reopened: a revision nobody has asked to decide. *)
LEMMA ThirdRevised ==
    ASSUME ThirdInv, Next, status = "under_review",
           summary'.revision = summary.revision + 1,
           \A i \in summary'.reviews : rows[i].review = "submitted" /\ i \in Assignments,
           summary'.lifecycle = "finalized" =>
              Third(summary.finalizedBy)' /\ summary'.finalizedBy # Nobody,
           UNCHANGED <<status, members, rows, deciding, decision>>
    PROVE  ThirdInv'
  <1>1. WrittenInv'
    BY WrittenNext DEF ThirdInv
  <1>2. \A i \in summary'.reviews : rows'[i].review = "submitted"
    OBVIOUS
  <1>3. status' \in Evaluating /\ status' = "under_review"
    BY DEF Evaluating
  <1>4. \A d \in Directors : deciding[d] # 0 =>
           deciding[d] <= summary'.revision /\ deciding[d] # summary'.revision
    <2>1. summary.revision \in Nat /\ \A d \in Directors : deciding[d] \in Nat
      BY BoundsAssumption DEF ThirdInv, WrittenInv, JudgesInv, TypeOK, Summary
    <2> QED
      BY <2>1 DEF ThirdInv
  <1>5. decision'.outcome = "none"
    BY DEF ThirdInv
  <1> QED
    BY <1>1, <1>2, <1>3, <1>4, <1>5 DEF ThirdInv

LEMMA ThirdPreparation == ThirdInv /\ Next /\ Preparation => ThirdInv'
  <1> SUFFICES ASSUME ThirdInv, Next, Preparation PROVE ThirdInv'
    OBVIOUS
  <1>1. UNCHANGED <<summary, deciding, decision>>
    BY DEF Preparation, replaceMembers, submitProposal, resubmitProposal, NewRound,
       requestSupplement, completeCheck, revokeManagementOfficer, assignManagementOfficer
  <1>2. members' = members \/ status \notin Evaluating
    BY DEF Preparation, replaceMembers, submitProposal, resubmitProposal, NewRound,
       requestSupplement, completeCheck, revokeManagementOfficer, assignManagementOfficer,
       Evaluating, team
  <1>3. \/ status' = status
        \/ /\ status \notin Evaluating
           /\ status' \notin {"ready_for_approval", "approved", "rejected"}
    BY DEF Preparation, replaceMembers, submitProposal, resubmitProposal, NewRound,
       requestSupplement, completeCheck, revokeManagementOfficer, assignManagementOfficer,
       Evaluating, SupplementStatuses, submission
  <1>4. decision.outcome # "none" => status \in Evaluating
    BY DEF ThirdInv, Evaluating
  <1>5. status \in {"ready_for_approval", "approved", "rejected"} => summary.lifecycle = "finalized"
    BY DEF ThirdInv
  <1> QED
    BY <1>1, <1>2, <1>3, <1>4, <1>5, ThirdKept

LEMMA ThirdEvaluation == ThirdInv /\ Next /\ Evaluation => ThirdInv'
  <1> SUFFICES ASSUME ThirdInv, Next, Evaluation PROVE ThirdInv'
    OBVIOUS
  <1>0. /\ decision.outcome # "none" => status \in {"approved", "rejected"}
        /\ status \in {"ready_for_approval", "approved", "rejected"} =>
              summary.lifecycle = "finalized"
        /\ summary \in Summary
    BY DEF ThirdInv, WrittenInv, JudgesInv, TypeOK
  <1>1. ASSUME NEW a \in People, NEW c \in Candidates, assignReviewer(a, c[1], c[2], c[3])
        PROVE ThirdInv'
    BY <1>0, <1>1, ThirdKept DEF assignReviewer, AssignableStatuses, Evaluating, team
  <1>2. ASSUME NEW i \in Assignments,
               \/ \E a \in People : revokeAssignment(a, i)
               \/ \E answer \in {"accept", "decline"} : respondToInvitation(i, answer)
               \/ Expire(i) \/ saveMyReview(i) \/ submitMyReview(i)
        PROVE ThirdInv'
    <2>1. UNCHANGED <<submission, team, summary, deciding, decision>>
      BY <1>2 DEF revokeAssignment, respondToInvitation, Expire, saveMyReview, submitMyReview
    <2> QED
      BY <1>0, <2>1, ThirdKept DEF submission, team
  <1>3. RoundReviews \subseteq Assignments /\ \A i \in RoundReviews : rows[i].review = "submitted"
    BY DEF RoundReviews, RoundRows
  <1>4. ASSUME NEW p \in People, saveEvaluationSummary(p) PROVE ThirdInv'
    <2>1. /\ status = "under_review" /\ summary' = Package("draft", "draft", Nobody)
          /\ UNCHANGED <<submission, team, rows, deciding, decision>>
      BY <1>4 DEF saveEvaluationSummary, loadForConsolidation
    <2>2. /\ summary'.revision = summary.revision + 1 /\ summary'.reviews = RoundReviews
          /\ summary'.lifecycle = "draft"
      BY <2>1 DEF Package
    <2> QED
      BY <1>3, <2>1, <2>2, ThirdRevised DEF submission, team
  <1>5. ASSUME NEW p \in People, finalizeEvaluationSummary(p) PROVE ThirdInv'
    <2>1. /\ status = "under_review" /\ summary' = Package("finalized", "finalized", p)
          /\ UNCHANGED <<submission, team, rows, deciding, decision>> /\ ~resolveActorConflict(p)
      BY <1>5 DEF finalizeEvaluationSummary, loadForConsolidation
    <2>2. /\ summary'.revision = summary.revision + 1 /\ summary'.reviews = RoundReviews
          /\ summary'.finalizedBy = p
      BY <2>1 DEF Package
    <2>3. p \notin Participants /\ \A i \in RoundReviews : rows[i].person # p
      <3>1. p \notin Participants
        BY <2>1 DEF resolveActorConflict
      <3> QED
        BY <1>3, <2>1, <3>1, NoConflictIsThird DEF ThirdInv
    <2>4. Third(summary.finalizedBy)'
      BY <2>1, <2>2, <2>3 DEF Third, Participants, team
    <2>5. p # Nobody
      BY PeopleAssumption
    <2> QED
      BY <1>3, <2>1, <2>2, <2>4, <2>5, ThirdRevised DEF submission, team
  <1>6. ASSUME NEW p \in People, reopenEvaluationSummary(p) PROVE ThirdInv'
    <2>1. /\ status = "under_review"
          /\ summary' = [summary EXCEPT !.status = "draft", !.lifecycle = "draft", !.revision = @ + 1]
          /\ UNCHANGED <<submission, team, rows, deciding, decision>>
      BY <1>6 DEF reopenEvaluationSummary, loadForConsolidation
    <2>2. /\ summary'.revision = summary.revision + 1 /\ summary'.reviews = summary.reviews
          /\ summary'.lifecycle = "draft"
      BY <1>0, <2>1 DEF Summary
    <2>3. \A i \in summary.reviews : rows[i].review = "submitted" /\ i \in Assignments
      BY <1>0 DEF ThirdInv, Summary
    <2> QED
      BY <2>1, <2>2, <2>3, ThirdRevised DEF submission, team
  <1>7. ASSUME NEW p \in People, submitEvaluationPackage(p) PROVE ThirdInv'
    <2>1. /\ status = "under_review" /\ status' = "ready_for_approval"
          /\ summary.lifecycle = "finalized"
          /\ summary' = [summary EXCEPT !.status = "ready_for_approval"]
          /\ UNCHANGED <<team, deciding, decision>>
      BY <1>7 DEF submitEvaluationPackage, loadForConsolidation
    <2>2. /\ summary'.reviews = summary.reviews /\ summary'.revision = summary.revision
          /\ summary'.lifecycle = summary.lifecycle /\ summary'.finalizedBy = summary.finalizedBy
      BY <1>0, <2>1 DEF Summary
    <2> QED
      BY <1>0, <2>1, <2>2, ThirdKept DEF team, Evaluating
  <1> QED
    BY <1>1, <1>2, <1>4, <1>5, <1>6, <1>7 DEF Evaluation

LEMMA ThirdApproval == ThirdInv /\ Next /\ Approval => ThirdInv'
  <1> SUFFICES ASSUME ThirdInv, Next, Approval PROVE ThirdInv'
    OBVIOUS
  <1>0. /\ decision.outcome # "none" => status \in {"approved", "rejected"}
        /\ status \in {"ready_for_approval", "approved", "rejected"} =>
              summary.lifecycle = "finalized"
        /\ summary \in Summary /\ WrittenInv
        /\ deciding \in [Directors -> 0..MaxRevision]
    BY DEF ThirdInv, WrittenInv, JudgesInv, TypeOK
  <1>w. WrittenInv'
    BY <1>0, WrittenNext
  <1>1. ASSUME NEW k \in Procedures, advance(k) PROVE ThirdInv'
    BY <1>0, <1>1, ThirdKept DEF advance, submission, team
  <1>2. CASE returnPackage
    <2>1. CASE status = "ready_for_approval"
      <3>1. /\ status' = "under_review" /\ summary' = [summary EXCEPT !.status = "finalized"]
            /\ UNCHANGED <<team, deciding, decision>>
        BY <1>2, <2>1 DEF returnPackage, revertOnReturn
      <3>2. /\ summary'.reviews = summary.reviews /\ summary'.revision = summary.revision
            /\ summary'.lifecycle = summary.lifecycle /\ summary'.finalizedBy = summary.finalizedBy
        BY <1>0, <3>1 DEF Summary
      <3> QED
        BY <1>0, <2>1, <3>1, <3>2, ThirdKept DEF team, Evaluating
    <2>2. CASE status # "ready_for_approval"
      <3>1. UNCHANGED <<status, summary, team, deciding, decision>>
        BY <1>2, <2>2 DEF returnPackage, revertOnReturn
      <3> QED
        BY <1>0, <3>1, ThirdKept DEF team
    <2> QED
      BY <2>1, <2>2
  <1>3. CASE returnCouncil
    <2>1. UNCHANGED <<submission, team, summary, deciding, decision>>
      BY <1>3 DEF returnCouncil
    <2> QED
      BY <1>0, <2>1, ThirdKept DEF submission, team
  <1>4. ASSUME NEW d \in Directors, NEW revision \in 1..MaxRevision, DecideCheck(d, revision)
        PROVE ThirdInv'
    <2>1. /\ status = "ready_for_approval" /\ ~resolveActorConflict(d)
          /\ revision <= summary.revision /\ deciding' = [deciding EXCEPT ![d] = revision]
          /\ UNCHANGED <<submission, team, rows, summary, decision>>
      BY <1>4 DEF DecideCheck
    <2>2. Third(d)
      <3>1. \A i \in summary.reviews : i \in Assignments /\ rows[i].review = "submitted"
        BY <1>0 DEF ThirdInv, Summary
      <3>2. d \notin Participants
        BY <2>1 DEF resolveActorConflict
      <3> QED
        BY <1>0, <2>1, <3>1, <3>2, NoConflictIsThird DEF Third
    <2>3. \A q : Third(q)' <=> Third(q)
      BY <2>1 DEF Third, Participants, team
    <2>4. \A e \in Directors : deciding'[e] # 0 =>
            /\ status' \in Evaluating /\ deciding'[e] <= summary'.revision
            /\ deciding'[e] = summary'.revision => Third(e)'
      BY <1>0, <2>1, <2>2, <2>3 DEF ThirdInv, Evaluating, submission
    <2>5. /\ \A i \in summary'.reviews : rows'[i].review = "submitted"
          /\ summary'.lifecycle = "finalized" =>
                status' \in Evaluating /\ Third(summary.finalizedBy)' /\ summary'.finalizedBy # Nobody
          /\ status' \in {"ready_for_approval", "approved", "rejected"} =>
                summary'.lifecycle = "finalized"
          /\ decision'.outcome # "none" => status' \in {"approved", "rejected"} /\ Third(decision.by)'
      BY <2>1, <2>3 DEF ThirdInv, submission, Third, Participants, team
    <2> QED
      BY <1>w, <2>4, <2>5 DEF ThirdInv
  <1>5. ASSUME NEW d \in Directors, NEW outcome \in {"approved", "rejected"}, decide(d, outcome)
        PROVE ThirdInv'
    <2>1. /\ status = "ready_for_approval" /\ status' = outcome
          /\ deciding[d] # 0 /\ deciding[d] = summary.revision
          /\ decision' = [outcome |-> outcome, by |-> d, revision |-> deciding[d]]
          /\ deciding' = [deciding EXCEPT ![d] = 0]
          /\ UNCHANGED <<team, rows, summary>>
      BY <1>5 DEF decide, assertDecidablePackage
    <2>2. Third(d) /\ decision'.by = d
      BY <2>1 DEF ThirdInv
    <2>3. \A q : Third(q)' <=> Third(q)
      BY <2>1 DEF Third, Participants, team
    <2>4. \A e \in Directors : deciding'[e] # 0 => deciding'[e] = deciding[e]
      BY <1>0, <2>1
    <2>5. \A e \in Directors : deciding'[e] # 0 =>
            /\ status' \in Evaluating /\ deciding'[e] <= summary'.revision
            /\ deciding'[e] = summary'.revision => Third(e)'
      BY <2>1, <2>3, <2>4 DEF ThirdInv, Evaluating
    <2>6. Third(decision.by)'
      BY <2>1, <2>2 DEF Third, Participants, team
    <2>7. /\ \A i \in summary'.reviews : rows'[i].review = "submitted"
          /\ summary'.lifecycle = "finalized" =>
                status' \in Evaluating /\ Third(summary.finalizedBy)' /\ summary'.finalizedBy # Nobody
          /\ summary'.lifecycle = "finalized"
      BY <1>0, <2>1, <2>3 DEF ThirdInv, Evaluating, Third, Participants, team
    <2> QED
      BY <1>w, <2>1, <2>5, <2>6, <2>7 DEF ThirdInv
  <1>6. ASSUME NEW d \in Directors, DecideRefused(d) PROVE ThirdInv'
    <2>1. /\ deciding' = [deciding EXCEPT ![d] = 0]
          /\ UNCHANGED <<submission, team, rows, summary, decision>>
      BY <1>6 DEF DecideRefused
    <2>2. \A e \in Directors : deciding'[e] # 0 => deciding'[e] = deciding[e]
      BY <1>0, <2>1
    <2>3. \A q : Third(q)' <=> Third(q)
      BY <2>1 DEF Third, Participants, team
    <2>4. \A e \in Directors : deciding'[e] # 0 =>
            /\ status' \in Evaluating /\ deciding'[e] <= summary'.revision
            /\ deciding'[e] = summary'.revision => Third(e)'
      BY <2>1, <2>2, <2>3 DEF ThirdInv, submission
    <2>5. /\ \A i \in summary'.reviews : rows'[i].review = "submitted"
          /\ summary'.lifecycle = "finalized" =>
                status' \in Evaluating /\ Third(summary.finalizedBy)' /\ summary'.finalizedBy # Nobody
          /\ status' \in {"ready_for_approval", "approved", "rejected"} =>
                summary'.lifecycle = "finalized"
          /\ decision'.outcome # "none" => status' \in {"approved", "rejected"} /\ Third(decision.by)'
      BY <2>1, <2>3 DEF ThirdInv, submission, Third, Participants, team
    <2> QED
      BY <1>w, <2>4, <2>5 DEF ThirdInv
  <1> QED
    BY <1>1, <1>2, <1>3, <1>4, <1>5, <1>6 DEF Approval

LEMMA ThirdCouncil == ThirdInv /\ Next /\ CouncilSteps => ThirdInv'
  <1> SUFFICES ASSUME ThirdInv, Next, CouncilSteps PROVE ThirdInv'
    OBVIOUS
  <1>1. UNCHANGED <<team, summary, deciding, decision>>
    BY DEF CouncilSteps, proposeCouncil, approveCouncil, rejectCouncil
  <1>2. \/ status' = status
        \/ status \in AssignableStatuses /\ status' = "under_review"
    BY DEF CouncilSteps, proposeCouncil, approveCouncil, rejectCouncil, submission
  <1>3. /\ decision.outcome # "none" => status \in {"approved", "rejected"}
        /\ status \in {"ready_for_approval", "approved", "rejected"} =>
              summary.lifecycle = "finalized"
    BY DEF ThirdInv
  <1> QED
    BY <1>1, <1>2, <1>3, ThirdKept DEF AssignableStatuses, Evaluating, team

THEOREM ThirdPersons == Spec => []ThirdInv
  <1>1. ThirdInv /\ Next => ThirdInv'
    BY ThirdPreparation, ThirdEvaluation, ThirdApproval, ThirdCouncil DEF Next
  <1>2. ThirdInv /\ UNCHANGED vars => ThirdInv'
    <2> SUFFICES ASSUME ThirdInv, UNCHANGED vars PROVE ThirdInv'
      OBVIOUS
    <2>1. WrittenInv'
      BY WrittenNext DEF ThirdInv
    <2> QED
      BY <2>1 DEF ThirdInv, vars, Third, Participants
  <1> QED
    BY <1>1, <1>2, ThirdInit, PTL DEF Spec

(* Whoever consolidates or decides neither takes part in the proposal nor wrote one of the   *)
(* reviews: a director's conflict looked up before the lock still holds at the decision,     *)
(* because a return that lets the reviews change also changes the revision.                  *)
THEOREM ThirdPersonsJudge == Spec => []NobodyJudgesOwnWork
  <1>1. ThirdInv => NobodyJudgesOwnWork
    BY DEF ThirdInv, Third, NobodyJudgesOwnWork, NoSelfConsolidation, NoSelfDecision
  <1> QED
    BY <1>1, ThirdPersons, PTL

-----------------------------------------------------------------------------
(* The evidence under the signatures.  Once the package is handed in, the rows change only  *)
(* by the end of a window, which no part of the evidence looks at.                           *)
SameRow(i) ==
    /\ rows'[i].status = rows[i].status /\ rows'[i].person = rows[i].person
    /\ rows'[i].role = rows[i].role /\ rows'[i].round = rows[i].round
    /\ rows'[i].accepted = rows[i].accepted /\ rows'[i].review = rows[i].review

LEMMA LateStep ==
    ASSUME TypeOK, Next, status \in {"ready_for_approval", "approved", "rejected"}
    PROVE  /\ round' = round /\ \A i \in Assignments : SameRow(i)
           /\ summary' = summary
              \/ (status' = "under_review" /\ status = "ready_for_approval" /\ decision' = decision)
           /\ \/ decision' = decision /\ status' \in {status, "under_review"}
                 /\ (status' # status => status = "ready_for_approval")
              \/ \E d \in Directors, outcome \in {"approved", "rejected"} : decide(d, outcome)
  <1>0. rows \in [Assignments -> Row]
    BY DEF TypeOK
  <1>1. rows' = rows => \A i \in Assignments : SameRow(i)
    BY DEF SameRow
  <1>2. CASE Preparation
    <2>1. UNCHANGED <<round, rows, summary, decision, status>>
      BY <1>2 DEF Preparation, replaceMembers, submitProposal, resubmitProposal, NewRound,
         requestSupplement, completeCheck, revokeManagementOfficer, assignManagementOfficer,
         SupplementStatuses, submission
    <2> QED
      BY <1>1, <2>1
  <1>3. CASE Evaluation
    <2>1. PICK i \in Assignments : Expire(i)
      BY <1>3 DEF Evaluation, assignReviewer, revokeAssignment, respondToInvitation, saveMyReview,
         submitMyReview, saveEvaluationSummary, finalizeEvaluationSummary, reopenEvaluationSummary,
         submitEvaluationPackage, loadForConsolidation, AssignableStatuses
    <2>2. UNCHANGED <<round, summary, decision, status>>
      BY <2>1 DEF Expire, submission
    <2>3. \A j \in Assignments : SameRow(j)
      <3>1. ASSUME NEW j \in Assignments PROVE rows'[j] \in {rows[j], [rows[j] EXCEPT !.window = "over"]}
        BY <1>0, <2>1 DEF Expire
      <3>2. ASSUME NEW j \in Assignments PROVE SameRow(j)
        BY <1>0, <3>1 DEF SameRow, Row
      <3> QED
        BY <3>2
    <2> QED
      BY <2>2, <2>3
  <1>4. CASE Approval
    <2>1. UNCHANGED <<round, rows>>
      BY <1>4 DEF Approval, advance, returnPackage, returnCouncil, DecideCheck, decide,
         DecideRefused, submission
    <2>2. CASE \E d \in Directors, outcome \in {"approved", "rejected"} : decide(d, outcome)
      <3>1. summary' = summary
        BY <2>2 DEF decide
      <3> QED
        BY <1>1, <2>1, <2>2, <3>1
    <2>3. CASE returnPackage
      BY <1>1, <2>1, <2>3 DEF returnPackage, revertOnReturn
    <2>4. CASE ~(\E d \in Directors, outcome \in {"approved", "rejected"} : decide(d, outcome))
               /\ ~returnPackage
      <3>1. UNCHANGED <<status, summary, decision>>
        BY <1>4, <2>4 DEF Approval, advance, returnCouncil, DecideCheck, DecideRefused, submission
      <3> QED
        BY <1>1, <2>1, <3>1
    <2> QED
      BY <2>2, <2>3, <2>4
  <1>5. CASE CouncilSteps
    <2>1. UNCHANGED <<round, rows, summary, decision, status>>
      BY <1>5 DEF CouncilSteps, proposeCouncil, approveCouncil, rejectCouncil, AssignableStatuses,
         submission
    <2> QED
      BY <1>1, <2>1
  <1> QED
    BY <1>2, <1>3, <1>4, <1>5 DEF Next

(* The council and the reviews of the round do not move then. *)
LEMMA SameRound ==
    ASSUME round' = round, \A i \in Assignments : SameRow(i)
    PROVE  RoundRows' = RoundRows /\ RoundReviews' = RoundReviews
  <1>1. RoundRows' = RoundRows
    BY DEF RoundRows, Live, SameRow
  <1> QED
    BY <1>1 DEF RoundReviews, RoundRows, SameRow

(* How many persons a set of rows has. *)
LEMMA PersonsOfRows ==
    ASSUME NEW T \in SUBSET Assignments, NEW f \in [T -> Accounts]
    PROVE  LET P == {f[i] : i \in T}
           IN  /\ Cardinality(T) \in Nat /\ Cardinality(P) \in Nat
               /\ Cardinality(P) <= Cardinality(T)
               /\ (\A i, j \in T : f[i] = f[j] => i = j) => Cardinality(P) = Cardinality(T)
  <1> DEFINE P == {f[i] : i \in T}
  <1>1. IsFiniteSet(Assignments)
    BY FS_Interval, BoundsAssumption DEF Assignments
  <1>2. IsFiniteSet(T)
    BY <1>1, FS_Subset
  <1>3. f \in Surjection(T, P)
    BY DEF Surjection
  <1>4. (\A i, j \in T : f[i] = f[j] => i = j) => f \in Injection(T, P)
    BY DEF Injection, IsInjective
  <1> HIDE DEF P
  <1>5. /\ IsFiniteSet(P) /\ Cardinality(P) <= Cardinality(T)
        /\ Cardinality(P) = Cardinality(T) <=> f \in Injection(T, P)
    BY <1>2, <1>3, FS_Surjection
  <1>6. Cardinality(T) \in Nat /\ Cardinality(P) \in Nat
    BY <1>2, <1>5, FS_CardinalityType
  <1>7. /\ Cardinality(T) \in Nat /\ Cardinality(P) \in Nat
        /\ Cardinality(P) <= Cardinality(T)
        /\ (\A i, j \in T : f[i] = f[j] => i = j) => Cardinality(P) = Cardinality(T)
    BY <1>4, <1>5, <1>6
  <1> QED
    BY <1>7 DEF P

(* RoleCount counts persons; among rows of different persons it counts the rows. *)
LEMMA RoleCountOfRows ==
    ASSUME TypeOK, NEW S \in SUBSET Assignments, NEW r
    PROVE  LET n == Cardinality({i \in S : rows[i].role = r})
           IN  n \in Nat /\ RoleCount(S, r) \in Nat /\ RoleCount(S, r) <= n
               /\ (OneRoleEach(S) => RoleCount(S, r) = n)
  <1> DEFINE T == {i \in S : rows[i].role = r}
             f == [i \in T |-> rows[i].person]
  <1>1. T \in SUBSET Assignments /\ f \in [T -> Accounts]
    BY DEF TypeOK, Row
  <1>2. RoleCount(S, r) = Cardinality({f[i] : i \in T})
    <2>1. {f[i] : i \in T} = {rows[i].person : i \in T}
      OBVIOUS
    <2> QED
      BY <2>1 DEF RoleCount
  <1>3. OneRoleEach(S) => \A i, j \in T : f[i] = f[j] => i = j
    BY DEF OneRoleEach
  <1> HIDE DEF f, T
  <1>4. /\ Cardinality(T) \in Nat /\ Cardinality({f[i] : i \in T}) \in Nat
        /\ Cardinality({f[i] : i \in T}) <= Cardinality(T)
        /\ (\A i, j \in T : f[i] = f[j] => i = j) => Cardinality({f[i] : i \in T}) = Cardinality(T)
    BY <1>1, PersonsOfRows
  <1>5. /\ Cardinality(T) \in Nat /\ RoleCount(S, r) \in Nat /\ RoleCount(S, r) <= Cardinality(T)
        /\ (OneRoleEach(S) => RoleCount(S, r) = Cardinality(T))
    BY <1>2, <1>3, <1>4
  <1> QED
    BY <1>5 DEF T

FullInv == ThirdInv /\ PackageEvidenceFrozen /\ DecisionOnFullCouncil

(* The moment of the decision: what assertDecidablePackage has just checked. *)
LEMMA FullDecide ==
    ASSUME FullInv, NEW d \in Directors, NEW outcome \in {"approved", "rejected"},
           decide(d, outcome)
    PROVE  DecisionOnFullCouncil'
  <1>0. TypeOK /\ WrittenInv
    BY DEF FullInv, ThirdInv, WrittenInv, JudgesInv
  <1>1. /\ summary.revision = deciding[d] /\ sameEvidenceIds /\ councilReady(RoundRows)
        /\ status' = outcome /\ UNCHANGED <<round, rows, summary>>
        /\ decision' = [outcome |-> outcome, by |-> d, revision |-> deciding[d]]
    BY DEF decide, assertDecidablePackage
  <1>2. RoundRows' = RoundRows /\ \A i : Scoring(i)' <=> Scoring(i)
    BY <1>1 DEF RoundRows, Live, Scoring
  <1>3. RoundRows \in SUBSET Assignments
    BY DEF RoundRows
  <1>4. \A i \in RoundRows : Scoring(i) <=> rows[i].review = "submitted"
    BY <1>0, <1>1, <1>3 DEF councilReady, WrittenInv, WrittenOK, Scoring
  <1>5. summary.reviews = {i \in RoundRows : Scoring(i)} /\ summary.assignments = RoundRows
    BY <1>1, <1>4 DEF sameEvidenceIds, RoundReviews
  <1>6. ASSUME NEW r \in Roles
        PROVE  Cardinality({i \in RoundRows : rows[i].role = r}) >= Limits[r].min
    <2>1. RoleCount(RoundRows, r) \in Limits[r].min .. Limits[r].max
      BY <1>1 DEF councilReady
    <2>2. LET n == Cardinality({i \in RoundRows : rows[i].role = r})
          IN  n \in Nat /\ RoleCount(RoundRows, r) \in Nat /\ RoleCount(RoundRows, r) <= n
      BY <1>0, <1>3, RoleCountOfRows
    <2>3. Limits[r].min \in Nat /\ Limits[r].max \in Nat
      BY CouncilAssumption
    <2> QED
      BY <2>1, <2>2, <2>3
  <1>7. \A r \in Roles : Cardinality({i \in RoundRows' : rows'[i].role = r}) >= Limits[r].min
    <2>1. \A r : {i \in RoundRows' : rows'[i].role = r} = {i \in RoundRows : rows[i].role = r}
      BY <1>1, <1>2
    <2> QED
      BY <1>6, <2>1
  <1>8. \A i \in RoundRows' : Scoring(i)' <=> rows'[i].review = "submitted"
    BY <1>1, <1>2, <1>4
  <1>9. summary'.reviews = {i \in RoundRows' : Scoring(i)'} /\ summary'.assignments = RoundRows'
    BY <1>1, <1>2, <1>5
  <1>10. status' = decision'.outcome /\ decision'.revision = summary'.revision
    BY <1>1
  <1> QED
    BY <1>7, <1>8, <1>9, <1>10 DEF DecisionOnFullCouncil

(* Afterwards nothing of it moves. *)
LEMMA FullAfter ==
    ASSUME FullInv, Next, decision.outcome # "none"
    PROVE  DecisionOnFullCouncil'
  <1>0. TypeOK /\ status \in {"approved", "rejected"}
    BY DEF FullInv, ThirdInv, WrittenInv, JudgesInv
  <1>1. ~\E d \in Directors, outcome \in {"approved", "rejected"} : decide(d, outcome)
    BY <1>0 DEF decide
  <1>2. /\ round' = round /\ (\A i \in Assignments : SameRow(i))
        /\ summary' = summary /\ decision' = decision /\ status' = status
    BY <1>0, <1>1, LateStep
  <1>3. RoundRows' = RoundRows
    BY <1>2, SameRound
  <1>4. \A i \in RoundRows : /\ Scoring(i)' <=> Scoring(i)
                             /\ rows'[i].review = rows[i].review /\ rows'[i].role = rows[i].role
    BY <1>2 DEF RoundRows, SameRow, Scoring
  <1>5. \A r : {i \in RoundRows' : rows'[i].role = r} = {i \in RoundRows : rows[i].role = r}
    BY <1>3, <1>4
  <1>6. {i \in RoundRows' : Scoring(i)'} = {i \in RoundRows : Scoring(i)}
    BY <1>3, <1>4
  <1>7. DecisionOnFullCouncil
    BY DEF FullInv
  <1>8. \A r \in Roles : Cardinality({i \in RoundRows' : rows'[i].role = r}) >= Limits[r].min
    BY <1>5, <1>7 DEF DecisionOnFullCouncil
  <1>9. /\ status' = decision'.outcome /\ decision'.revision = summary'.revision
        /\ summary'.assignments = RoundRows'
        /\ summary'.reviews = {i \in RoundRows' : Scoring(i)'}
        /\ \A i \in RoundRows' : Scoring(i)' <=> rows'[i].review = "submitted"
    BY <1>2, <1>3, <1>4, <1>6, <1>7 DEF DecisionOnFullCouncil
  <1> QED
    BY <1>8, <1>9 DEF DecisionOnFullCouncil

(* The moment the package is handed in: closing the round takes only secretaries who never *)
(* answered out of the council. *)
LEMMA FrozenSubmit ==
    ASSUME FullInv, NEW p \in People, submitEvaluationPackage(p)
    PROVE  PackageEvidenceFrozen'
  <1>0. /\ rows \in [Assignments -> Row] /\ summary \in Summary
        /\ \A i \in Assignments : WrittenOK(rows[i])
    BY DEF FullInv, ThirdInv, WrittenInv, JudgesInv, TypeOK
  <1>1. /\ sameEvidenceIds /\ councilReady(RoundRows) /\ round' = round
        /\ \A i \in Assignments : rows'[i] = CloseRound(i)
        /\ summary' = [summary EXCEPT !.status = "ready_for_approval"]
    BY DEF submitEvaluationPackage
  <1>2. summary'.reviews = RoundReviews /\ summary'.assignments = RoundRows
    BY <1>0, <1>1 DEF Summary, sameEvidenceIds
  <1>3. ASSUME NEW i \in Assignments
        PROVE  /\ rows'[i].review = rows[i].review /\ rows'[i].round = rows[i].round
               /\ rows'[i].role = rows[i].role /\ rows'[i].accepted = rows[i].accepted
               /\ \/ rows'[i].status = rows[i].status
                  \/ rows[i].status = "assigned" /\ rows[i].round = round
                     /\ rows'[i].status = IF rows[i].accepted THEN "completed" ELSE "revoked"
    BY <1>0, <1>1 DEF CloseRound, Row
  <1>4. \A i \in RoundReviews : rows[i].status = "completed"
    BY <1>0 DEF RoundReviews, RoundRows, WrittenOK, Live
  <1>5. RoundRows' \subseteq RoundRows
    BY <1>1, <1>3 DEF RoundRows, Live
  <1>6. RoundReviews' = RoundReviews
    BY <1>1, <1>3, <1>4, <1>5 DEF RoundReviews, RoundRows, Live
  <1>7. ASSUME NEW i \in RoundRows, i \notin RoundRows'
        PROVE  ~Scoring(i)' /\ ~rows'[i].accepted /\ rows'[i].status = "revoked"
    <2>1. i \in Assignments /\ rows[i].round = round /\ rows[i].status \in {"assigned", "completed"}
      BY DEF RoundRows, Live
    <2>2. rows[i].status = "assigned" /\ ~rows[i].accepted /\ rows'[i].status = "revoked"
      BY <1>1, <1>3, <1>7, <2>1 DEF RoundRows, Live
    <2>3. ~Scoring(i)
      BY <1>1, <1>4, <2>1, <2>2 DEF councilReady, RoundReviews
    <2> QED
      BY <1>3, <2>1, <2>2, <2>3 DEF Scoring
  <1> QED
    BY <1>2, <1>5, <1>6, <1>7 DEF PackageEvidenceFrozen

LEMMA FrozenStays ==
    ASSUME FullInv, Next, status = "ready_for_approval", status' = "ready_for_approval"
    PROVE  PackageEvidenceFrozen'
  <1>0. TypeOK /\ PackageEvidenceFrozen /\ summary \in Summary
    BY DEF FullInv, ThirdInv, WrittenInv, JudgesInv, TypeOK
  <1>2. /\ round' = round /\ (\A i \in Assignments : SameRow(i)) /\ summary' = summary
    BY <1>0, LateStep
  <1>3. RoundRows' = RoundRows /\ RoundReviews' = RoundReviews
    BY <1>2, SameRound
  <1>4. summary.assignments \subseteq Assignments
    BY <1>0 DEF Summary
  <1> QED
    BY <1>0, <1>2, <1>3, <1>4 DEF PackageEvidenceFrozen, SameRow, Scoring

(* A package comes before the leadership by its submission only. *)
LEMMA PackageSubmitted ==
    ASSUME Next, status' = "ready_for_approval", status # "ready_for_approval"
    PROVE  \E p \in People : submitEvaluationPackage(p)
  <1>1. CASE Preparation
    BY <1>1 DEF Preparation, replaceMembers, submitProposal, resubmitProposal, NewRound,
       requestSupplement, completeCheck, revokeManagementOfficer, assignManagementOfficer, submission
  <1>2. CASE Evaluation
    BY <1>2 DEF Evaluation, assignReviewer, revokeAssignment, respondToInvitation, Expire,
       saveMyReview, submitMyReview, saveEvaluationSummary, finalizeEvaluationSummary,
       reopenEvaluationSummary, submission
  <1>3. CASE Approval
    BY <1>3 DEF Approval, advance, returnPackage, revertOnReturn, returnCouncil, DecideCheck,
       decide, DecideRefused, submission
  <1>4. CASE CouncilSteps
    BY <1>4 DEF CouncilSteps, proposeCouncil, approveCouncil, rejectCouncil, submission
  <1> QED
    BY <1>1, <1>2, <1>3, <1>4 DEF Next

LEMMA FrozenNext == FullInv /\ Next => PackageEvidenceFrozen'
  <1> SUFFICES ASSUME FullInv, Next, status' = "ready_for_approval", status # "ready_for_approval"
               PROVE  PackageEvidenceFrozen'
    BY FrozenStays DEF PackageEvidenceFrozen
  <1> QED
    BY PackageSubmitted, FrozenSubmit

LEMMA DecisionNext == FullInv /\ Next => DecisionOnFullCouncil'
  <1> SUFFICES ASSUME FullInv, Next, decision.outcome = "none", decision' # decision
               PROVE  DecisionOnFullCouncil'
    BY FullAfter DEF DecisionOnFullCouncil
  <1>1. \E d \in Directors, outcome \in {"approved", "rejected"} : decide(d, outcome)
    <2>1. CASE Preparation
      BY <2>1 DEF Preparation, replaceMembers, submitProposal, resubmitProposal, NewRound,
         requestSupplement, completeCheck, revokeManagementOfficer, assignManagementOfficer
    <2>2. CASE Evaluation
      BY <2>2 DEF Evaluation, assignReviewer, revokeAssignment, respondToInvitation, Expire,
         saveMyReview, submitMyReview, saveEvaluationSummary, finalizeEvaluationSummary,
         reopenEvaluationSummary, submitEvaluationPackage
    <2>3. CASE Approval
      BY <2>3 DEF Approval, advance, returnPackage, returnCouncil, DecideCheck, DecideRefused
    <2>4. CASE CouncilSteps
      BY <2>4 DEF CouncilSteps, proposeCouncil, approveCouncil, rejectCouncil
    <2> QED
      BY <2>1, <2>2, <2>3, <2>4 DEF Next
  <1> QED
    BY <1>1, FullDecide

THEOREM FullInvariant == Spec => []FullInv
  <1>1. Init => FullInv
    BY ThirdInit DEF Init, FullInv, PackageEvidenceFrozen, DecisionOnFullCouncil
  <1>2. FullInv /\ Next => ThirdInv'
    BY ThirdPreparation, ThirdEvaluation, ThirdApproval, ThirdCouncil DEF Next, FullInv
  <1>3. FullInv /\ UNCHANGED vars => FullInv'
    <2> SUFFICES ASSUME FullInv, UNCHANGED vars PROVE FullInv'
      OBVIOUS
    <2>1. WrittenInv'
      BY WrittenNext DEF FullInv, ThirdInv
    <2>2. ThirdInv'
      BY <2>1 DEF FullInv, ThirdInv, vars, Third, Participants
    <2> QED
      BY <2>2 DEF FullInv, PackageEvidenceFrozen, DecisionOnFullCouncil, vars, RoundRows,
         RoundReviews, Live, Scoring
  <1> QED
    BY <1>1, <1>2, <1>3, FrozenNext, DecisionNext, PTL DEF Spec, FullInv

(* A decision stands on the full council and the reviews of the round, for ever. *)
THEOREM DecidedOnFullCouncil == Spec => []DecisionOnFullCouncil
  <1>1. FullInv => DecisionOnFullCouncil
    BY DEF FullInv
  <1> QED
    BY <1>1, FullInvariant, PTL

-----------------------------------------------------------------------------
(* A package under approval keeps what the decision asks for, on the evidence it has captured. *)
Decidable ==
    status = "ready_for_approval" =>
        /\ summary.status = "ready_for_approval" /\ summary.round = round
        /\ round \in checked
        /\ councilReady(summary.assignments)

(* Whether a set of rows is a full council depends on persons, roles and reviews only. *)
LEMMA ReadyKept ==
    ASSUME NEW S, councilReady(S),
           \A i \in S : /\ rows'[i].person = rows[i].person /\ rows'[i].role = rows[i].role
                        /\ rows'[i].review = rows[i].review
    PROVE  councilReady(S)'
  <1>1. \A r : {rows'[i].person : i \in {j \in S : rows'[j].role = r}}
                 = {rows[i].person : i \in {j \in S : rows[j].role = r}}
    OBVIOUS
  <1>2. \A r : RoleCount(S, r)' = RoleCount(S, r)
    BY <1>1 DEF RoleCount
  <1>3. \A r \in Roles : RoleCount(S, r) \in Limits[r].min .. Limits[r].max
    BY DEF councilReady
  <1>4. \A r \in Roles : RoleCount(S, r)' \in Limits[r].min .. Limits[r].max
    BY <1>2, <1>3
  <1>5. S # {} /\ (\A i \in S : Scoring(i)' => rows'[i].review = "submitted") /\ OneRoleEach(S)'
    BY DEF councilReady, Scoring, OneRoleEach
  <1> QED
    BY <1>4, <1>5 DEF councilReady

(* The records of the completeness checks only grow. *)
LEMMA ChecksStay == Next => checked \subseteq checked'
  <1> SUFFICES ASSUME Next PROVE checked \subseteq checked'
    OBVIOUS
  <1>1. CASE Preparation
    BY <1>1 DEF Preparation, replaceMembers, submitProposal, resubmitProposal, NewRound,
       requestSupplement, completeCheck, revokeManagementOfficer, assignManagementOfficer, submission
  <1>2. CASE Evaluation
    BY <1>2 DEF Evaluation, assignReviewer, revokeAssignment, respondToInvitation, Expire,
       saveMyReview, submitMyReview, saveEvaluationSummary, finalizeEvaluationSummary,
       reopenEvaluationSummary, submitEvaluationPackage, submission
  <1>3. CASE Approval
    BY <1>3 DEF Approval, advance, returnPackage, returnCouncil, DecideCheck, decide,
       DecideRefused, submission
  <1>4. CASE CouncilSteps
    BY <1>4 DEF CouncilSteps, proposeCouncil, approveCouncil, rejectCouncil, submission
  <1> QED
    BY <1>1, <1>2, <1>3, <1>4 DEF Next

(* The moment the package is handed in: the round is closed by the statuses of its rows. *)
LEMMA DecidableSubmit ==
    ASSUME FullInv, NEW p \in People, submitEvaluationPackage(p)
    PROVE  Decidable'
  <1>0. rows \in [Assignments -> Row] /\ summary \in Summary
    BY DEF FullInv, ThirdInv, WrittenInv, JudgesInv, TypeOK
  <1>1. /\ sameEvidenceIds /\ councilReady(RoundRows) /\ UNCHANGED <<round, checked>>
        /\ round \in checked /\ summary.round = round
        /\ \A i \in Assignments : rows'[i] = CloseRound(i)
        /\ summary' = [summary EXCEPT !.status = "ready_for_approval"]
    BY DEF submitEvaluationPackage
  <1>2. /\ summary'.status = "ready_for_approval" /\ summary'.round = round
        /\ summary'.assignments = RoundRows
    BY <1>0, <1>1 DEF Summary, sameEvidenceIds
  <1>3. ASSUME NEW i \in Assignments
        PROVE  /\ rows'[i].person = rows[i].person /\ rows'[i].role = rows[i].role
               /\ rows'[i].review = rows[i].review
    BY <1>0, <1>1 DEF CloseRound, Row
  <1>4. PICK S \in SUBSET Assignments : S = RoundRows
    BY DEF RoundRows
  <1>5. councilReady(S)'
    BY <1>1, <1>3, <1>4, ReadyKept
  <1>6. councilReady(summary.assignments)'
    BY <1>2, <1>4, <1>5 DEF councilReady, OneRoleEach, RoleCount
  <1> QED
    BY <1>1, <1>2, <1>6 DEF Decidable

(* From then on the rows stay but for the ends of their windows. *)
LEMMA DecidableStays ==
    ASSUME FullInv, Decidable, Next, status = "ready_for_approval", status' = "ready_for_approval"
    PROVE  Decidable'
  <1>0. TypeOK /\ summary \in Summary
    BY DEF FullInv, ThirdInv, WrittenInv, JudgesInv, TypeOK
  <1>1. round' = round /\ (\A i \in Assignments : SameRow(i)) /\ summary' = summary
    BY <1>0, LateStep
  <1>2. PICK S \in SUBSET Assignments : S = summary.assignments
    BY <1>0 DEF Summary
  <1>3. councilReady(S)
    BY <1>2 DEF Decidable
  <1>4. councilReady(S)'
    BY <1>1, <1>3, ReadyKept DEF SameRow
  <1>5. councilReady(summary.assignments)'
    BY <1>1, <1>2, <1>4 DEF councilReady, OneRoleEach, RoleCount
  <1> QED
    BY <1>1, <1>5, ChecksStay DEF Decidable

LEMMA DecidableNext == FullInv /\ Decidable /\ [Next]_vars => Decidable'
  <1>1. ASSUME FullInv, Decidable, Next PROVE Decidable'
    <2>1. CASE status' # "ready_for_approval"
      BY <2>1 DEF Decidable
    <2>2. CASE status' = "ready_for_approval" /\ status # "ready_for_approval"
      BY <1>1, <2>2, PackageSubmitted, DecidableSubmit
    <2>3. CASE status' = "ready_for_approval" /\ status = "ready_for_approval"
      BY <1>1, <2>3, DecidableStays
    <2> QED
      BY <2>1, <2>2, <2>3
  <1>2. ASSUME Decidable, UNCHANGED vars PROVE Decidable'
    BY <1>2 DEF Decidable, vars, councilReady, Scoring, OneRoleEach, RoleCount
  <1> QED
    BY <1>1, <1>2

LEMMA HoldsFollows == FullInv /\ Decidable => PackageHolds
  <1> SUFFICES ASSUME FullInv, Decidable, status = "ready_for_approval",
                      summary.assignments = RoundRows
               PROVE  assertDecidablePackage(summary.revision)
    BY DEF FullInv, PackageHolds, DecidableUnlessLeft
  <1>1. summary.lifecycle = "finalized"
    BY DEF FullInv, ThirdInv
  <1>2. sameEvidenceIds
    BY DEF FullInv, PackageEvidenceFrozen, sameEvidenceIds
  <1>3. councilReady(RoundRows)
    BY DEF Decidable
  <1> QED
    BY <1>1, <1>2, <1>3 DEF Decidable, assertDecidablePackage

(* The evidence of a package under approval does not move under the signatures, and the        *)
(* leadership can decide on it unless an assignment was still unanswered when it was handed in: *)
(* no step, of any number of persons in any order, takes away what the decision asks for.       *)
THEOREM PackageStaysWhole == Spec => []PackageHolds
  <1>1. Init => Decidable
    BY DEF Init, Decidable
  <1> QED
    BY <1>1, DecidableNext, HoldsFollows, FullInvariant, PTL DEF Spec

-----------------------------------------------------------------------------
(* The size of the council of a round. *)
Seats(S, r) == {i \in S : rows[i].role = r}

LEMMA FiniteSeats ==
    ASSUME NEW T \in SUBSET Assignments
    PROVE  /\ IsFiniteSet(T) /\ Cardinality(T) \in Nat
           /\ \A U \in SUBSET T : Cardinality(U) \in Nat /\ Cardinality(U) <= Cardinality(T)
  <1>0. IsFiniteSet(Assignments)
    BY FS_Interval, BoundsAssumption DEF Assignments
  <1>1. IsFiniteSet(T)
    BY <1>0, FS_Subset
  <1>2. ASSUME NEW U \in SUBSET T
        PROVE  Cardinality(U) \in Nat /\ Cardinality(U) <= Cardinality(T)
    BY <1>1, FS_Subset, FS_CardinalityType
  <1> QED
    BY <1>1, <1>2, FS_CardinalityType

(* A step after which only seats of the same round are taken that were taken before. *)
LEMMA SeatsShrink ==
    ASSUME RoleLimits,
           \A i \in RoundRows' :
              i \in RoundRows /\ rows'[i].person = rows[i].person /\ rows'[i].role = rows[i].role
    PROVE  RoleLimits'
  <1>1. ASSUME NEW r \in Roles
        PROVE  Cardinality({i \in RoundRows' : rows'[i].role = r}) <= Limits[r].max
    <2>1. {i \in RoundRows' : rows'[i].role = r} \in SUBSET Seats(RoundRows, r)
      BY DEF Seats
    <2>2. Seats(RoundRows, r) \in SUBSET Assignments
      BY DEF Seats, RoundRows
    <2>3. Cardinality(Seats(RoundRows, r)) <= Limits[r].max
      BY DEF RoleLimits, Seats
    <2>4. Limits[r].max \in Nat
      BY CouncilAssumption
    <2> QED
      BY <2>1, <2>2, <2>3, <2>4, FiniteSeats
  <1>2. \A i, j \in RoundRows' : rows'[i].person = rows'[j].person => i = j
    BY DEF RoleLimits
  <1> QED
    BY <1>1, <1>2 DEF RoleLimits

(* No seat is taken. *)
LEMMA SeatsEmpty ==
    ASSUME RoundRows' = {} PROVE RoleLimits'
  <1>1. ASSUME NEW r \in Roles
        PROVE  Cardinality({i \in RoundRows' : rows'[i].role = r}) <= Limits[r].max
    <2>1. {i \in RoundRows' : rows'[i].role = r} = {}
      OBVIOUS
    <2>2. Limits[r].max \in Nat
      BY CouncilAssumption
    <2> QED
      BY <2>1, <2>2, FS_EmptySet
  <1> QED
    BY <1>1 DEF RoleLimits

SeatsInv == JudgesInv /\ RoleLimits

LEMMA SeatsPreparation == SeatsInv /\ Preparation => RoleLimits'
  <1> SUFFICES ASSUME SeatsInv, Preparation PROVE RoleLimits'
    OBVIOUS
  <1>1. CASE submitProposal \/ resubmitProposal
    <2>1. rows' = rows /\ status \notin Evaluating
      BY <1>1 DEF submitProposal, resubmitProposal, NewRound, Evaluating
    <2>2. \A i \in Assignments : ~Live(i)
      BY <2>1, NobodyJudgesDraft DEF SeatsInv
    <2>3. RoundRows' = {}
      BY <2>1, <2>2 DEF RoundRows, Live
    <2> QED
      BY <2>3, SeatsEmpty
  <1>2. CASE ~(submitProposal \/ resubmitProposal)
    <2>1. UNCHANGED <<round, rows>>
      BY <1>2 DEF Preparation, replaceMembers, requestSupplement, completeCheck,
         revokeManagementOfficer, assignManagementOfficer, submission
    <2>2. RoundRows' = RoundRows
      BY <2>1 DEF RoundRows, Live
    <2> QED
      BY <2>1, <2>2, SeatsShrink DEF SeatsInv
  <1> QED
    BY <1>1, <1>2

(* A direct assignment takes one seat that is free, for a person who has none. *)
LEMMA SeatsAssign ==
    ASSUME SeatsInv, NEW a \in People, NEW c \in Candidates, assignReviewer(a, c[1], c[2], c[3])
    PROVE  RoleLimits'
  <1>0. /\ \A i \in Assignments : rows[i] \in Row
        /\ RoleLimits
    BY DEF SeatsInv, JudgesInv, TypeOK
  <1>1. PICK n \in NextFree :
          rows' = [i \in Assignments |->
                     IF i = n THEN NewRow(c[1], c[2], "assigned", c[3]) ELSE Retired({c[1]}, i)]
    BY DEF assignReviewer
  <1>2. /\ n \in Assignments /\ n \notin RoundRows
    BY DEF NextFree, Free, RoundRows, Live
  <1>3. /\ rows'[n].person = c[1] /\ rows'[n].role = c[2]
    BY <1>1, <1>2 DEF NewRow, AbsentRow
  <1>4. ASSUME NEW i \in RoundRows', i # n
        PROVE  i \in RoundRows /\ rows'[i].person = rows[i].person /\ rows'[i].role = rows[i].role
    <2>1. i \in Assignments /\ rows'[i].status \in {"assigned", "completed"} /\ rows'[i].round = round
      BY DEF RoundRows, Live, assignReviewer
    <2>2. rows'[i] = Retired({c[1]}, i)
      BY <1>1, <1>4, <2>1
    <2>3. rows'[i] = rows[i]
      BY <1>0, <2>1, <2>2 DEF Retired, Row
    <2> QED
      BY <2>1, <2>3 DEF RoundRows, Live
  <1>5. \A i \in RoundRows : rows[i].person # c[1]
    BY DEF assignReviewer
  <1>6. ASSUME NEW r \in Roles
        PROVE  Cardinality({i \in RoundRows' : rows'[i].role = r}) <= Limits[r].max
    <2> DEFINE T == Seats(RoundRows, r)
               U == {i \in RoundRows' : rows'[i].role = r}
    <2>1. T \in SUBSET Assignments
      BY DEF Seats, RoundRows
    <2>2. Limits[r].max \in Nat /\ Cardinality(T) <= Limits[r].max
      BY <1>0, CouncilAssumption DEF RoleLimits, Seats
    <2>3. CASE r = c[2]
      <3>1. Cardinality(T) < Limits[r].max
        BY <2>3 DEF assignReviewer, WithinLimit, Seats
      <3>2. U \in SUBSET (T \cup {n}) /\ T \cup {n} \in SUBSET Assignments /\ n \notin T
        BY <1>2, <1>4, <2>1 DEF Seats
      <3> HIDE DEF T, U
      <3>3. IsFiniteSet(T) /\ Cardinality(T) \in Nat
        BY <2>1, FiniteSeats
      <3>4. Cardinality(T \cup {n}) = Cardinality(T) + 1
        BY <3>2, <3>3, FS_AddElement
      <3>5. Cardinality(U) \in Nat /\ Cardinality(U) <= Cardinality(T \cup {n})
        BY <3>2, FiniteSeats
      <3>6. Cardinality(U) <= Limits[r].max
        BY <2>2, <3>1, <3>3, <3>4, <3>5
      <3> QED
        BY <3>6 DEF U
    <2>4. CASE r # c[2]
      <3>1. U \in SUBSET T
        BY <1>3, <1>4, <2>4 DEF Seats
      <3> HIDE DEF T, U
      <3>2. Cardinality(T) \in Nat /\ Cardinality(U) \in Nat /\ Cardinality(U) <= Cardinality(T)
        BY <2>1, <3>1, FiniteSeats
      <3>3. Cardinality(U) <= Limits[r].max
        BY <2>2, <3>2
      <3> QED
        BY <3>3 DEF U
    <2> QED
      BY <2>3, <2>4
  <1>7. \A i, j \in RoundRows' : rows'[i].person = rows'[j].person => i = j
    BY <1>0, <1>3, <1>4, <1>5 DEF RoleLimits
  <1> QED
    BY <1>6, <1>7 DEF RoleLimits

LEMMA SeatsEvaluation == SeatsInv /\ Evaluation => RoleLimits'
  <1> SUFFICES ASSUME SeatsInv, Evaluation PROVE RoleLimits'
    OBVIOUS
  <1>0. /\ \A i \in Assignments : rows[i] \in Row
        /\ rows \in [Assignments -> Row]
        /\ RoleLimits
    BY DEF SeatsInv, JudgesInv, TypeOK
  <1>1. ASSUME NEW a \in People, NEW c \in Candidates, assignReviewer(a, c[1], c[2], c[3])
        PROVE RoleLimits'
    BY <1>1, SeatsAssign
  <1>2. ASSUME round' = round, NEW j \in Assignments, NEW new \in Row, rows' = [rows EXCEPT ![j] = new],
               new.status \in {"assigned", "completed"} => Live(j),
               new.person = rows[j].person, new.role = rows[j].role, new.round = rows[j].round
        PROVE RoleLimits'
    <2>1. \A i \in RoundRows' :
             i \in RoundRows /\ rows'[i].person = rows[i].person /\ rows'[i].role = rows[i].role
      BY <1>0, <1>2 DEF RoundRows, Live
    <2> QED
      BY <1>0, <2>1, SeatsShrink
  <1>3. ASSUME NEW i \in Assignments, NEW a \in People, revokeAssignment(a, i) PROVE RoleLimits'
    <2> DEFINE new == [rows[i] EXCEPT !.status = "revoked"]
    <2>0. new \in Row
      BY <1>0, RowUpdate DEF RowStatuses
    <2>1. /\ new.status = "revoked" /\ new.person = rows[i].person
          /\ new.role = rows[i].role /\ new.round = rows[i].round
      BY <1>0 DEF Row
    <2>2. rows' = [rows EXCEPT ![i] = new] /\ round' = round
      BY <1>3 DEF revokeAssignment, submission
    <2> HIDE DEF new
    <2> QED
      BY <1>2, <2>0, <2>1, <2>2
  <1>4. ASSUME NEW i \in Assignments, NEW answer \in {"accept", "decline"},
               respondToInvitation(i, answer)
        PROVE RoleLimits'
    <2> DEFINE new == IF answer = "accept" THEN [rows[i] EXCEPT !.accepted = TRUE]
                      ELSE [rows[i] EXCEPT !.status = "declined"]
    <2>0. new \in Row
      BY <1>0, RowUpdate DEF RowStatuses
    <2>1. /\ new.status \in {rows[i].status, "declined"}
          /\ new.person = rows[i].person /\ new.role = rows[i].role /\ new.round = rows[i].round
      BY <1>0 DEF Row
    <2>2. rows' = [rows EXCEPT ![i] = new] /\ round' = round
      BY <1>0, <1>4 DEF respondToInvitation, submission
    <2> HIDE DEF new
    <2> QED
      BY <1>2, <2>0, <2>1, <2>2 DEF Live
  <1>5. ASSUME NEW i \in Assignments, Expire(i) PROVE RoleLimits'
    <2> DEFINE new == [rows[i] EXCEPT !.window = "over"]
    <2>0. new \in Row
      BY <1>0, RowUpdate
    <2>1. /\ new.person = rows[i].person
          /\ new.role = rows[i].role /\ new.round = rows[i].round
      BY <1>0 DEF Row
    <2>2. rows' = [rows EXCEPT ![i] = new] /\ round' = round /\ Live(i)
      BY <1>5 DEF Expire, submission
    <2> HIDE DEF new
    <2> QED
      BY <1>2, <2>0, <2>1, <2>2
  <1>6. ASSUME NEW i \in Assignments, saveMyReview(i) \/ submitMyReview(i) PROVE RoleLimits'
    <2>1. PICK new \in {[rows[i] EXCEPT !.review = "draft"],
                        [rows[i] EXCEPT !.review = "submitted", !.status = "completed"]} :
             rows' = [rows EXCEPT ![i] = new]
      BY <1>0, <1>6 DEF saveMyReview, submitMyReview
    <2>0. new \in Row
      BY <1>0, <2>1, RowUpdate
    <2>2. /\ new.person = rows[i].person
          /\ new.role = rows[i].role /\ new.round = rows[i].round
      BY <1>0, <2>1 DEF Row
    <2>3. round' = round /\ Live(i)
      BY <1>6 DEF saveMyReview, submitMyReview, assertAssigned, ReviewAccess, Granting, Live, submission
    <2> QED
      BY <1>2, <2>0, <2>1, <2>2, <2>3
  <1>7. ASSUME NEW p \in People,
               saveEvaluationSummary(p) \/ finalizeEvaluationSummary(p) \/ reopenEvaluationSummary(p)
        PROVE RoleLimits'
    <2>1. UNCHANGED <<round, rows>>
      BY <1>7 DEF saveEvaluationSummary, finalizeEvaluationSummary, reopenEvaluationSummary, submission
    <2>2. RoundRows' = RoundRows
      BY <2>1 DEF RoundRows, Live
    <2> QED
      BY <1>0, <2>1, <2>2, SeatsShrink
  <1>8. ASSUME NEW p \in People, submitEvaluationPackage(p) PROVE RoleLimits'
    <2>1. ASSUME NEW i \in RoundRows'
          PROVE  i \in RoundRows /\ rows'[i].person = rows[i].person /\ rows'[i].role = rows[i].role
      <3>1. /\ i \in Assignments /\ rows'[i] = CloseRound(i) /\ rows'[i].round = round
            /\ rows'[i].status \in {"assigned", "completed"}
        BY <1>8 DEF submitEvaluationPackage, RoundRows, Live
      <3> QED
        BY <1>0, <3>1 DEF CloseRound, RoundRows, Live, Row
    <2> QED
      BY <1>0, <2>1, SeatsShrink
  <1> QED
    BY <1>1, <1>3, <1>4, <1>5, <1>6, <1>7, <1>8 DEF Evaluation

(* An approved council takes the seats that RosterFits counted. *)
LEMMA SeatsEstablish ==
    ASSUME SeatsInv, NEW l \in People, approveCouncil(l)
    PROVE  RoleLimits'
  <1>0. /\ TypeOK /\ \A i \in Assignments : rows[i] \in Row
    BY DEF SeatsInv, JudgesInv, TypeOK
  <1> DEFINE S == RoundRows \cup Activated
  <1>1. /\ OneRoleEach(S) /\ \A r \in Roles : RoleCount(S, r) <= Limits[r].max
        /\ round' = round /\ \A i \in Assignments : rows'[i] = Established(i)
    BY DEF approveCouncil, RosterFits
  <1>2. S \in SUBSET Assignments
    BY DEF RoundRows, Activated
  <1>3. ASSUME NEW i \in RoundRows'
        PROVE  i \in S /\ rows'[i].person = rows[i].person /\ rows'[i].role = rows[i].role
    <2>1. /\ i \in Assignments /\ rows'[i] = Established(i) /\ rows'[i].round = round
          /\ rows'[i].status \in {"assigned", "completed"}
      BY <1>1 DEF RoundRows, Live
    <2>2. CASE i \in Activated
      BY <1>0, <2>1, <2>2 DEF Established, Row
    <2>3. CASE i \notin Activated
      <3>1. rows'[i] = rows[i]
        <4>1. CASE rows[i].status = "invited" /\ rows[i].round = round
          BY <1>0, <2>1, <2>3, <4>1 DEF Established, Row
        <4>2. CASE ~(rows[i].status = "invited" /\ rows[i].round = round)
          <5>1. rows'[i] = Retired({rows[j].person : j \in Activated}, i)
            BY <2>1, <2>3, <4>2 DEF Established
          <5> QED
            BY <1>0, <2>1, <5>1 DEF Retired, Row
        <4> QED
          BY <4>1, <4>2
      <3> QED
        BY <2>1, <3>1 DEF RoundRows, Live
    <2> QED
      BY <2>2, <2>3
  <1> HIDE DEF S
  <1>4. ASSUME NEW r \in Roles
        PROVE  Cardinality({i \in RoundRows' : rows'[i].role = r}) <= Limits[r].max
    <2>1. {i \in RoundRows' : rows'[i].role = r} \in SUBSET {i \in S : rows[i].role = r}
      BY <1>3
    <2>2. LET n == Cardinality({i \in S : rows[i].role = r})
          IN  n \in Nat /\ (OneRoleEach(S) => RoleCount(S, r) = n)
      BY <1>0, <1>2, RoleCountOfRows
    <2>3. Cardinality({i \in S : rows[i].role = r}) <= Limits[r].max
      BY <1>1, <2>2
    <2>4. {i \in S : rows[i].role = r} \in SUBSET Assignments
      BY <1>2
    <2>5. Limits[r].max \in Nat
      BY CouncilAssumption
    <2> QED
      BY <2>1, <2>3, <2>4, <2>5, FiniteSeats
  <1>5. \A i, j \in RoundRows' : rows'[i].person = rows'[j].person => i = j
    BY <1>1, <1>3 DEF OneRoleEach
  <1> QED
    BY <1>4, <1>5 DEF RoleLimits

LEMMA SeatsCouncil == SeatsInv /\ CouncilSteps => RoleLimits'
  <1> SUFFICES ASSUME SeatsInv, CouncilSteps PROVE RoleLimits'
    OBVIOUS
  <1>0. \A i \in Assignments : rows[i] \in Row
    BY DEF SeatsInv, JudgesInv, TypeOK
  <1>1. ASSUME NEW p \in People, NEW ms \in Rosters, NEW action \in {"save", "invite", "submit"},
               proposeCouncil(p, ms, action)
        PROVE RoleLimits'
    <2>1. ASSUME NEW i \in RoundRows'
          PROVE  i \in RoundRows /\ rows'[i].person = rows[i].person /\ rows'[i].role = rows[i].role
      <3>0. /\ i \in Assignments /\ rows'[i].status \in {"assigned", "completed"}
            /\ rows'[i].round = round
        BY <1>1 DEF RoundRows, Live, proposeCouncil, submission
      <3>1. CASE action = "save"
        BY <1>1, <3>0, <3>1 DEF proposeCouncil, RoundRows, Live
      <3>2. CASE action # "save"
        <4>1. \/ \E q, r : rows'[i] = NewRow(q, r, "invited", "open")
              \/ rows'[i] = Uninvited(ms, i)
          BY <1>1, <3>0, <3>2 DEF proposeCouncil, syncCouncilInvitations
        <4>2. rows'[i] = Uninvited(ms, i)
          BY <3>0, <4>1 DEF NewRow, AbsentRow
        <4> QED
          BY <1>0, <3>0, <4>2 DEF Uninvited, RoundRows, Live, Row
      <3> QED
        BY <3>1, <3>2
    <2> QED
      BY <2>1, SeatsShrink DEF SeatsInv
  <1>2. ASSUME NEW l \in People, approveCouncil(l) PROVE RoleLimits'
    BY <1>2, SeatsEstablish
  <1>3. ASSUME NEW l \in People, rejectCouncil(l) PROVE RoleLimits'
    <2>1. UNCHANGED <<round, rows>>
      BY <1>3 DEF rejectCouncil, submission
    <2>2. RoundRows' = RoundRows
      BY <2>1 DEF RoundRows, Live
    <2> QED
      BY <2>1, <2>2, SeatsShrink DEF SeatsInv
  <1> QED
    BY <1>1, <1>2, <1>3 DEF CouncilSteps

(* The council of a round never exceeds a maximum, whatever mixture of direct assignments    *)
(* and accepted invitations made it, and nobody sits in it twice.                             *)
THEOREM CouncilFitsRules == Spec => []RoleLimits
  <1>1. Init => SeatsInv
    <2> SUFFICES ASSUME Init PROVE SeatsInv
      OBVIOUS
    <2>1. RoundRows = {}
      BY DEF Init, RoundRows, Live, AbsentRow
    <2>2. \A r \in Roles : {i \in RoundRows : rows[i].role = r} = {} /\ Limits[r].max \in Nat
      BY <2>1, CouncilAssumption
    <2>3. RoleLimits
      BY <2>1, <2>2, FS_EmptySet DEF RoleLimits
    <2> QED
      BY <2>3, JudgesInductive DEF SeatsInv
  <1>2. SeatsInv /\ [Next]_vars => SeatsInv'
    <2>1. SeatsInv /\ [Next]_vars => JudgesInv'
      BY JudgesNext DEF SeatsInv
    <2>2. SeatsInv /\ Approval => RoleLimits'
      <3> SUFFICES ASSUME SeatsInv, Approval PROVE RoleLimits'
        OBVIOUS
      <3>1. UNCHANGED <<round, rows>>
        BY DEF Approval, advance, returnPackage, returnCouncil, DecideCheck, decide,
           DecideRefused, submission
      <3>2. RoundRows' = RoundRows
        BY <3>1 DEF RoundRows, Live
      <3> QED
        BY <3>1, <3>2, SeatsShrink DEF SeatsInv
    <2>3. SeatsInv /\ UNCHANGED vars => RoleLimits'
      BY DEF SeatsInv, RoleLimits, RoundRows, Live, vars
    <2> QED
      BY <2>1, <2>2, <2>3, SeatsPreparation, SeatsEvaluation, SeatsCouncil DEF Next, SeatsInv
  <1>3. SeatsInv => RoleLimits
    BY DEF SeatsInv
  <1> QED
    BY <1>1, <1>2, <1>3, PTL DEF Spec

-----------------------------------------------------------------------------
(* The council the leadership establishes. *)

(* A proposed council that passed the rules has nobody on two of its seats. *)
LEMMA OneSeatEach ==
    ASSUME NEW ms \in SUBSET (People \X Roles), Cardinality(People1(ms)) = Cardinality(ms)
    PROVE  \A m, n \in ms : m[1] = n[1] => m = n
  <1> DEFINE P == People1(ms)
             f == [m \in ms |-> m[1]]
  <1>1. IsFiniteSet(Roles)
    <2>1. IsFiniteSet({}) /\ IsFiniteSet({} \cup {"reviewer"})
      BY FS_EmptySet, FS_AddElement
    <2>2. IsFiniteSet(({} \cup {"reviewer"}) \cup {"committee_member"})
      BY <2>1, FS_AddElement
    <2>3. IsFiniteSet((({} \cup {"reviewer"}) \cup {"committee_member"}) \cup {"committee_secretary"})
      BY <2>2, FS_AddElement
    <2>4. Roles = (({} \cup {"reviewer"}) \cup {"committee_member"}) \cup {"committee_secretary"}
      BY DEF Roles
    <2> QED
      BY <2>3, <2>4
  <1>2. IsFiniteSet(ms)
    <2>1. IsFiniteSet(People \X Roles)
      BY <1>1, AccountsAssumption, FS_Product
    <2> QED
      BY <2>1, FS_Subset
  <1>3. f \in Surjection(ms, P)
    <2>1. f \in [ms -> P]
      BY DEF People1
    <2>2. \A x \in P : \E m \in ms : f[m] = x
      BY DEF People1
    <2> QED
      BY <2>1, <2>2 DEF Surjection
  <1>4. Cardinality(ms) = Cardinality(P)
    OBVIOUS
  <1>5. f \in Injection(ms, P)
    <2> HIDE DEF f, P
    <2> QED
      BY <1>2, <1>3, <1>4, FS_SurjSameCardinalityImpliesInj
  <1>6. \A m, n \in ms : f[m] = f[n] => m = n
    BY <1>5 DEF Injection, IsInjective
  <1> QED
    BY <1>6

LEMMA EstablishStep ==
    ASSUME TypeOK, NEW l \in People, approveCouncil(l), NEW m \in council.members
    PROVE  \E i \in Assignments :
              /\ <<rows'[i].person, rows'[i].role>> = m /\ rows'[i].round = round
              /\ Live(i)' /\ (Live(i) \/ rows[i].accepted)
  <1>0. /\ rows \in [Assignments -> Row] /\ council.members \in SUBSET (People \X Roles)
        /\ rows' = [i \in Assignments |-> Established(i)]
    BY DEF TypeOK, Council, approveCouncil
  <1>1. m = <<m[1], m[2]>>
    BY <1>0
  <1>2. \A n \in council.members : m[1] = n[1] => m = n
    BY <1>0, OneSeatEach DEF approveCouncil, RosterProblems
  <1>3. CASE \E i \in RoundRows : rows[i].person = m[1]
    <2>1. PICK i \in RoundRows : rows[i].person = m[1]
      BY <1>3
    <2>2. i \in Assignments /\ Live(i) /\ rows[i].round = round
      BY DEF RoundRows
    <2>3. rows[i].role = m[2]
      BY <1>3, <2>1 DEF approveCouncil
    <2>4. rows'[i] = rows[i]
      BY <1>0, <2>2 DEF Established, Activated, Retired, Live
    <2> QED
      BY <1>1, <2>1, <2>2, <2>3, <2>4 DEF Live
  <1>4. CASE ~\E i \in RoundRows : rows[i].person = m[1]
    <2>1. PICK i \in Activated : rows[i].person = m[1]
      BY <1>4 DEF approveCouncil
    <2>2. /\ i \in Assignments /\ rows[i].round = round /\ rows[i].accepted
          /\ <<rows[i].person, rows[i].role>> \in council.members
      BY DEF Activated
    <2>3. m = <<rows[i].person, rows[i].role>>
      BY <1>2, <2>1, <2>2
    <2>4. rows'[i] = [rows[i] EXCEPT !.status = "assigned"]
      BY <1>0, <2>1, <2>2 DEF Established
    <2>5. /\ rows'[i].status = "assigned" /\ rows'[i].person = rows[i].person
          /\ rows'[i].role = rows[i].role /\ rows'[i].round = rows[i].round
      BY <1>0, <2>2, <2>4 DEF Row
    <2> QED
      BY <2>2, <2>3, <2>5 DEF Live
  <1> QED
    BY <1>3, <1>4

(* Whoever the leadership seats in a council sits there by an assignment of this round that  *)
(* was in force, or that they accepted themselves for this round.                             *)
THEOREM MembersAcceptedForRound == Spec => CouncilEstablishedForRound
  <1> DEFINE Seated == council.status # "approved" /\ council'.status = "approved" =>
                 \A m \in council.members : \E i \in Assignments :
                     /\ <<rows'[i].person, rows'[i].role>> = m /\ rows'[i].round = round
                     /\ Live(i)' /\ (Live(i) \/ rows[i].accepted)
  <1>1. TypeOK /\ [Next]_vars => [Seated]_vars
    <2> SUFFICES ASSUME TypeOK, Next, council.status # "approved", council'.status = "approved"
                 PROVE  Seated
      BY DEF vars
    <2>1. council \in Council
      BY DEF TypeOK
    <2>2. ASSUME Preparation \/ Evaluation \/ Approval PROVE FALSE
      <3>1. CASE Preparation
        BY <3>1 DEF Preparation, replaceMembers, submitProposal, resubmitProposal, NewRound,
           requestSupplement, completeCheck, revokeManagementOfficer, assignManagementOfficer
      <3>2. CASE Evaluation
        BY <3>2 DEF Evaluation, assignReviewer, revokeAssignment, respondToInvitation, Expire,
           saveMyReview, submitMyReview, saveEvaluationSummary, finalizeEvaluationSummary,
           reopenEvaluationSummary, submitEvaluationPackage
      <3>3. CASE Approval
        BY <2>1, <3>3 DEF Approval, Council, advance, returnPackage, returnCouncil, DecideCheck, decide,
           DecideRefused
      <3> QED
        BY <2>2, <3>1, <3>2, <3>3
    <2>3. CASE CouncilSteps
      <3>1. ASSUME NEW p \in People, NEW ms \in Rosters,
                   NEW action \in {"save", "invite", "submit"}, proposeCouncil(p, ms, action)
            PROVE FALSE
        BY <3>1 DEF proposeCouncil
      <3>2. ASSUME NEW l \in People, rejectCouncil(l) PROVE FALSE
        BY <2>1, <3>2 DEF rejectCouncil, Council
      <3>3. ASSUME NEW l \in People, approveCouncil(l) PROVE Seated
        BY <3>3, EstablishStep
      <3> QED
        BY <2>3, <3>1, <3>2, <3>3 DEF CouncilSteps
    <2> QED
      BY <2>2, <2>3 DEF Next
  <1> QED
    BY <1>1, TypeCorrect, PTL DEF Spec, CouncilEstablishedForRound
=============================================================================
