-------------------------- MODULE ProposalEvaluation --------------------------
(***************************************************************************)
(* One research proposal from its draft to the leadership's decision:      *)
(* submission and supplement (research-proposals), the completeness check, *)
(* the invitation and assignment of reviewers and council, their reviews,  *)
(* the consolidated package and the decision (proposal-evaluations).       *)
(*                                                                         *)
(* Every operation but decide runs in runProposalMutation: SERIALIZABLE,   *)
(* with the proposal row locked, so each is one action.  decide checks its *)
(* caller before it takes the lock and is two actions.  A submission event *)
(* is its number: the round.  The persons and locks of the approval route  *)
(* are in ApprovalRouting; here its stages are one variable.               *)
(***************************************************************************)
EXTENDS Naturals, FiniteSets

CONSTANTS
    People,         \* accounts
    PI,             \* the proposal's owner
    Heads,          \* department and board heads whose scope holds the host unit
    BoardHeads,     \* the board heads among them
    Staff,          \* management staff in scope
    Portfolio,      \* staff whose portfolio rules match the proposal
    Directors,      \* accounts that decide proposals
    Deputies,       \* science deputy directors, who also sign councils
    Nobody,         \* no account
    Limits,         \* [Roles -> [min, max]], EVALUATION_COUNCIL_LIMITS
    Candidates,     \* <<account, role, window>>: whom a coordinator may try to assign, until when
    Rosters,        \* the councils a coordinator may propose
    Teams,          \* the teams the PI may enter
    MaxAssignments, \* bound on proposal_review_assignments rows
    MaxRounds,      \* bound on submissions
    MaxRevision     \* bound on the revisions of the summary

VARIABLES
    status,         \* research_proposals.status
    round,          \* the latest submission event, 0 before the first
    checked,        \* the rounds with a completeness_check event
    members,        \* active participants besides the PI
    officer,        \* the current management officer or Nobody
    rows,           \* [Assignments -> Row], assignments and the review of each
    summary,        \* the evaluation summary with its evidence snapshot
    council,        \* councilMetadata: status and proposed members
    route,          \* [Procedures -> phase], the approval route of council and package
    deciding,       \* [Directors -> revision], decide calls past their first checks; 0 is none
    decision        \* the proposal_decisions record

vars == <<status, round, checked, members, officer, rows, summary, council, route, deciding, decision>>
team == <<members, officer>>
submission == <<status, round, checked>>

Assignments == 1..MaxAssignments
Rounds == 0..MaxRounds
Accounts == People \cup {Nobody}

Roles        == {"reviewer", "committee_member", "committee_secretary"}
ScoringRoles == {"reviewer", "committee_member"}

ASSUME PeopleAssumption ==
    /\ PI \in People /\ Nobody \notin People
    /\ Heads \subseteq People /\ BoardHeads \subseteq Heads
    /\ Staff \subseteq People /\ Portfolio \subseteq Staff
    /\ Directors \subseteq People /\ Deputies \subseteq People
    /\ Candidates \subseteq People \X Roles \X {"open", "timed"}
    /\ Teams \subseteq SUBSET People
    /\ \A t \in Teams : PI \notin t
ASSUME AccountsAssumption == IsFiniteSet(People)
ASSUME CouncilAssumption ==
    /\ Limits \in [Roles -> [min : Nat, max : Nat]]
    /\ Rosters \subseteq SUBSET (People \X Roles)
ASSUME BoundsAssumption ==
    MaxAssignments \in Nat \ {0} /\ MaxRounds \in Nat \ {0} /\ MaxRevision \in Nat

Statuses == {"draft", "submitted", "supplement_requested", "resubmitted", "under_review",
             "ready_for_approval", "approved", "rejected"}

\* Fault: assignments may still change while the package is with the leadership.
AssignableStatuses_Package == {"submitted", "resubmitted", "under_review", "ready_for_approval"}
\* REVIEWER_ASSIGNABLE_STATUSES.
AssignableStatuses == {"submitted", "resubmitted", "under_review"}

\* requestSupplement's own list of statuses.
SupplementStatuses == {"submitted", "resubmitted"}

\* A row of proposal_review_assignments with the status of the review written on it;
\* "over" is a window whose effectiveUntil has passed.
Row == [status : {"absent", "invited", "assigned", "completed", "declined", "revoked"},
        person : Accounts, role : Roles, round : Rounds, accepted : BOOLEAN,
        window : {"open", "timed", "over"}, review : {"none", "draft", "submitted"}]
\* The summary with packageEvidence (lifecycle, round, assignments, reviews).
Summary == [status : {"none", "draft", "finalized", "ready_for_approval"}, revision : 0..MaxRevision,
            lifecycle : {"none", "draft", "finalized"}, round : Rounds,
            assignments : SUBSET Assignments, reviews : SUBSET Assignments, finalizedBy : Accounts]
Council == [status : {"none", "draft", "submitted", "returned", "rejected", "approved"},
            members : SUBSET (People \X Roles)]
Decision == [outcome : {"none", "approved", "rejected"}, by : Accounts, revision : 0..MaxRevision]

Procedures  == {"EVALUATION_COUNCIL", "DECISION_PACKAGE"}
UnderReview == {"BOARD_REVIEW", "HEAD_REVIEW", "LEADERSHIP"}
Phases      == UnderReview \cup {"drafting", "approved", "rejected"}

AbsentRow == [status |-> "absent", person |-> Nobody, role |-> "reviewer", round |-> 0,
              accepted |-> FALSE, window |-> "open", review |-> "none"]

-----------------------------------------------------------------------------
Live(i)   == rows[i].status \in {"assigned", "completed"}
Scoring(i) == rows[i].role \in ScoringRoles
InWindow(i) == rows[i].window # "over"
RowsOf(p) == {i \in Assignments : rows[i].status # "absent" /\ rows[i].person = p}

\* currentRoundAssignments and, among them, the submitted reviews of currentRoundReviews.
RoundRows    == {i \in Assignments : Live(i) /\ rows[i].round = round}
RoundReviews == {i \in RoundRows : rows[i].review = "submitted"}

Participants == members \cup {PI}

\* resolveConflictForProposal: a duty still open, or a review that was ever written.
ReviewDuty(p) == \E i \in RowsOf(p) : (Live(i) /\ InWindow(i)) \/ rows[i].review # "none"

\* Participants, and whoever scores or has scored, neither consolidate nor decide.
resolveActorConflict(p) ==
    \/ p \in Participants
    \/ \E i \in RowsOf(p) : (Live(i) /\ InWindow(i) /\ Scoring(i)) \/ rows[i].review # "none"

isEvaluationCoordinator(p) == p \in Heads \/ p = officer

assertCanRequestSupplement(p) ==
    (p = officer \/ p \in BoardHeads) /\ p \notin Participants /\ ~ReviewDuty(p)

\* resolveProposalReviewAccess: the latest assignment that is accepted and in its window.
Granting(p) == {i \in RowsOf(p) : /\ \/ rows[i].status = "assigned" /\ rows[i].accepted
                                     \/ rows[i].status = "completed"
                                  /\ InWindow(i)}
ReviewAccess(p, i) == i \in Granting(p) /\ \A j \in Granting(p) : j <= i

RoleCount(S, r) == Cardinality({rows[i].person : i \in {j \in S : rows[j].role = r}})
OneRoleEach(S)  == \A i, j \in S : rows[i].person = rows[j].person => i = j

\* Fault: the composition alone decides.
councilReady_NoReviews(S) ==
    /\ S # {}
    /\ OneRoleEach(S)
    /\ \A r \in Roles : RoleCount(S, r) \in Limits[r].min .. Limits[r].max

\* Every scoring assignment has its review and the composition is as the rules ask.
councilReady(S) ==
    /\ S # {}
    /\ \A i \in S : Scoring(i) => rows[i].review = "submitted"
    /\ OneRoleEach(S)
    /\ \A r \in Roles : RoleCount(S, r) \in Limits[r].min .. Limits[r].max

sameEvidenceIds == summary.assignments = RoundRows /\ summary.reviews = RoundReviews

-----------------------------------------------------------------------------
Init ==
    /\ status = "draft" /\ round = 0 /\ checked = {}
    /\ members = {} /\ officer = Nobody
    /\ rows = [i \in Assignments |-> AbsentRow]
    /\ summary = [status |-> "none", revision |-> 0, lifecycle |-> "none", round |-> 0,
                  assignments |-> {}, reviews |-> {}, finalizedBy |-> Nobody]
    /\ council = [status |-> "none", members |-> {}]
    /\ route = [k \in Procedures |-> "drafting"]
    /\ deciding = [d \in Directors |-> 0]
    /\ decision = [outcome |-> "none", by |-> Nobody, revision |-> 0]

\* Fault: the officer in charge is not looked up.
MayJoin_Officer(ms) == \A p \in ms : ~ReviewDuty(p)
\* Neither the officer in charge nor anyone with a review joins the team.
MayJoin(ms) == officer \notin ms /\ \A p \in ms : ~ReviewDuty(p)

\* updateDraft with members; the content of the draft is left out.
replaceMembers(ms) ==
    /\ status \in {"draft", "supplement_requested"}
    /\ MayJoin(ms)
    /\ members' = ms
    /\ UNCHANGED <<submission, officer, rows, summary, council, route, deciding, decision>>

\* autoAssignPortfolioOfficer: the officer after a submission.
AutoOfficer ==
    LET fit == Portfolio \ Participants
    IN  IF officer # Nobody THEN {officer} ELSE IF fit = {} THEN {Nobody} ELSE fit

\* submitProposal and resubmitProposal: a new submission event, hence a new round.
NewRound(from, to) ==
    /\ status = from
    /\ round < MaxRounds
    /\ status' = to
    /\ round' = round + 1
    /\ officer' \in AutoOfficer
    /\ UNCHANGED <<checked, members, rows, summary, council, route, deciding, decision>>

submitProposal   == NewRound("draft", "submitted")
resubmitProposal == NewRound("supplement_requested", "resubmitted")

requestSupplement(p) ==
    /\ assertCanRequestSupplement(p)
    /\ status \in SupplementStatuses
    /\ status' = "supplement_requested"
    /\ UNCHANGED <<round, checked, team, rows, summary, council, route, deciding, decision>>

\* The completeness check is recorded for the round it looked at.
completeCheck(p) ==
    /\ assertCanRequestSupplement(p)
    /\ status \in {"submitted", "resubmitted"}
    /\ round \notin checked
    /\ checked' = checked \cup {round}
    /\ UNCHANGED <<status, round, team, rows, summary, council, route, deciding, decision>>

assignManagementOfficer(a, p) ==
    /\ a \in Heads \ Participants /\ ~ReviewDuty(a)
    /\ p \in Staff \ ({a, officer} \cup Participants) /\ ~ReviewDuty(p)
    /\ officer' = p
    /\ UNCHANGED <<submission, members, rows, summary, council, route, deciding, decision>>

revokeManagementOfficer(a) ==
    /\ a \in Heads \ Participants /\ ~ReviewDuty(a)
    /\ officer # Nobody
    /\ officer' = Nobody
    /\ UNCHANGED <<submission, members, rows, summary, council, route, deciding, decision>>

-----------------------------------------------------------------------------
NewRow(p, r, st, w) ==
    [AbsentRow EXCEPT !.status = st, !.person = p, !.role = r, !.round = round, !.window = w]

Free == {i \in Assignments : rows[i].status = "absent"}
NextFree == {i \in Free : \A j \in Free : i <= j}

\* assignmentLimitError: the rows, not the persons, of the role are counted.
WithinLimit(r) == Cardinality({i \in RoundRows : rows[i].role = r}) < Limits[r].max

\* retireStaleOpenAssignments for the persons ps, then the effect f of the operation itself.
Retired(ps, i) ==
    IF rows[i].status = "assigned" /\ rows[i].round # round /\ rows[i].person \in ps
    THEN [rows[i] EXCEPT !.status = "revoked"]
    ELSE rows[i]

assignReviewer(a, p, r, w) ==
    /\ isEvaluationCoordinator(a) /\ a \notin Participants
    /\ status \in AssignableStatuses
    /\ round \in checked
    /\ p \notin Participants
    /\ \A i \in RoundRows : rows[i].person # p
    /\ WithinLimit(r)
    /\ \E n \in NextFree :
          rows' = [i \in Assignments |->
                     IF i = n THEN NewRow(p, r, "assigned", w) ELSE Retired({p}, i)]
    /\ status' = "under_review"
    /\ UNCHANGED <<round, checked, team, summary, council, route, deciding, decision>>

revokeAssignment(a, i) ==
    /\ isEvaluationCoordinator(a) /\ a \notin Participants
    /\ status \in AssignableStatuses
    /\ Live(i)
    /\ rows' = [rows EXCEPT ![i].status = "revoked"]
    /\ UNCHANGED <<submission, team, summary, council, route, deciding, decision>>

\* The person invited answers, while the proposal is being evaluated.
respondToInvitation(i, answer) ==
    /\ rows[i].status \in {"assigned", "invited"} /\ ~rows[i].accepted /\ InWindow(i)
    /\ status \in AssignableStatuses
    /\ rows' = [rows EXCEPT ![i] = IF answer = "accept" THEN [@ EXCEPT !.accepted = TRUE]
                                   ELSE [@ EXCEPT !.status = "declined"]]
    /\ UNCHANGED <<submission, team, summary, council, route, deciding, decision>>

\* The end of an assignment's window passes.
Expire(i) ==
    /\ Live(i) /\ rows[i].window = "timed"
    /\ rows' = [rows EXCEPT ![i].window = "over"]
    /\ UNCHANGED <<submission, team, summary, council, route, deciding, decision>>

\* Fault: a review that was handed in is opened again.
assertReviewIsOpen_Always(i) == TRUE

assertReviewIsOpen(i) == rows[i].review # "submitted"

\* The scoring reviewer of the current round writes on the latest assignment that grants access.
assertAssigned(i) ==
    /\ rows[i].person \notin Participants
    /\ ReviewAccess(rows[i].person, i)
    /\ Scoring(i)
    /\ round \in checked
    /\ rows[i].round = round

saveMyReview(i) ==
    /\ assertAssigned(i)
    /\ status = "under_review"
    /\ assertReviewIsOpen(i)
    /\ rows' = [rows EXCEPT ![i].review = "draft"]
    /\ UNCHANGED <<submission, team, summary, council, route, deciding, decision>>

submitMyReview(i) ==
    /\ assertAssigned(i)
    /\ status = "under_review"
    /\ assertReviewIsOpen(i)
    /\ rows' = [rows EXCEPT ![i] = [@ EXCEPT !.review = "submitted", !.status = "completed"]]
    /\ UNCHANGED <<submission, team, summary, council, route, deciding, decision>>

-----------------------------------------------------------------------------
\* A coordinator, or the secretary of the current round's council, without a conflict.
loadForConsolidation(p) ==
    /\ \/ isEvaluationCoordinator(p)
       \/ \E i \in Assignments : /\ ReviewAccess(p, i)
                                 /\ rows[i].role = "committee_secretary"
                                 /\ rows[i].round = round
    /\ status = "under_review"
    /\ ~resolveActorConflict(p)

Package(st, life, who) ==
    [status |-> st, revision |-> summary.revision + 1, lifecycle |-> life, round |-> round,
     assignments |-> RoundRows, reviews |-> RoundReviews, finalizedBy |-> who]

saveEvaluationSummary(p) ==
    /\ loadForConsolidation(p)
    /\ round \in checked
    /\ summary.status \in {"none", "draft"}
    /\ summary.revision < MaxRevision
    /\ summary' = Package("draft", "draft", Nobody)
    /\ UNCHANGED <<submission, team, rows, council, route, deciding, decision>>

finalizeEvaluationSummary(p) ==
    /\ loadForConsolidation(p)
    /\ round \in checked
    /\ summary.status = "draft"
    /\ summary.revision < MaxRevision
    /\ councilReady(RoundRows)
    /\ summary.round = round /\ sameEvidenceIds
    /\ summary' = Package("finalized", "finalized", p)
    /\ UNCHANGED <<submission, team, rows, council, route, deciding, decision>>

\* The evidence stays as it was captured.
reopenEvaluationSummary(p) ==
    /\ loadForConsolidation(p)
    /\ summary.status = "finalized"
    /\ summary.revision < MaxRevision
    /\ summary' = [summary EXCEPT !.status = "draft", !.lifecycle = "draft", !.revision = @ + 1]
    /\ UNCHANGED <<submission, team, rows, council, route, deciding, decision>>

\* openApprovalSubmission: a board head's own submission starts at the department head.
openApprovalSubmission(k, p) ==
    route' = [route EXCEPT ![k] = IF p \in BoardHeads THEN "HEAD_REVIEW" ELSE "BOARD_REVIEW"]

\* Assignments still open are closed with the round: without an answer they are revoked.
CloseRound(i) ==
    IF rows[i].status = "assigned" /\ rows[i].round = round
    THEN [rows[i] EXCEPT !.status = IF rows[i].accepted THEN "completed" ELSE "revoked"]
    ELSE rows[i]

submitEvaluationPackage(p) ==
    /\ loadForConsolidation(p)
    /\ round \in checked
    /\ summary.status = "finalized"
    /\ summary.lifecycle = "finalized" /\ summary.round = round /\ sameEvidenceIds
    /\ councilReady(RoundRows)
    /\ status' = "ready_for_approval"
    /\ summary' = [summary EXCEPT !.status = "ready_for_approval"]
    /\ rows' = [i \in Assignments |-> CloseRound(i)]
    /\ openApprovalSubmission("DECISION_PACKAGE", p)
    /\ UNCHANGED <<round, checked, team, council, deciding, decision>>

-----------------------------------------------------------------------------
\* advance, by a reviewer of the stage (ApprovalRouting has the persons and the row lock).
advance(k) ==
    /\ route[k] \in {"BOARD_REVIEW", "HEAD_REVIEW"}
    /\ route' = [route EXCEPT ![k] = IF @ = "BOARD_REVIEW" THEN "HEAD_REVIEW" ELSE "LEADERSHIP"]
    /\ UNCHANGED <<submission, team, rows, summary, council, deciding, decision>>

\* revertOnReturn of a package: the proposal is evaluated again, the summary is finalized.
revertOnReturn ==
    IF status = "ready_for_approval"
    THEN status' = "under_review" /\ summary' = [summary EXCEPT !.status = "finalized"]
    ELSE UNCHANGED <<status, summary>>

\* returnToStaff at the stage of the board head or of the department head.
returnPackage ==
    /\ route["DECISION_PACKAGE"] \in {"BOARD_REVIEW", "HEAD_REVIEW"}
    /\ route' = [route EXCEPT !["DECISION_PACKAGE"] = "drafting"]
    /\ revertOnReturn
    /\ UNCHANGED <<round, checked, team, rows, council, deciding, decision>>

returnCouncil ==
    /\ route["EVALUATION_COUNCIL"] \in {"BOARD_REVIEW", "HEAD_REVIEW"}
    /\ route' = [route EXCEPT !["EVALUATION_COUNCIL"] = "drafting"]
    /\ council' = IF council.status = "submitted" THEN [council EXCEPT !.status = "returned"]
                  ELSE council
    /\ UNCHANGED <<submission, team, rows, summary, deciding, decision>>

\* Fault: the revision the director looked at is not compared.
assertDecidablePackage_AnyRevision(revision) ==
    /\ summary.status = "ready_for_approval"
    /\ round \in checked
    /\ summary.lifecycle = "finalized" /\ summary.round = round /\ sameEvidenceIds
    /\ councilReady(RoundRows)

assertDecidablePackage(revision) ==
    /\ summary.status = "ready_for_approval"
    /\ summary.revision = revision
    /\ round \in checked
    /\ summary.lifecycle = "finalized" /\ summary.round = round /\ sameEvidenceIds
    /\ councilReady(RoundRows)

\* decide, before its transaction: the director's authority and conflict, the status, and the
\* revision of the package on the screen (it may be an old one).
DecideCheck(d, revision) ==
    /\ deciding[d] = 0
    /\ status = "ready_for_approval"
    /\ ~resolveActorConflict(d)
    /\ revision \in 1..summary.revision
    /\ deciding' = [deciding EXCEPT ![d] = revision]
    /\ UNCHANGED <<submission, team, rows, summary, council, route, decision>>

\* decide, inside the transaction with the proposal row locked.
decide(d, outcome) ==
    /\ deciding[d] # 0
    /\ assertDecidablePackage(deciding[d])
    /\ route["DECISION_PACKAGE"] = "LEADERSHIP"
    /\ status = "ready_for_approval"
    /\ status' = outcome
    /\ route' = [route EXCEPT !["DECISION_PACKAGE"] = outcome]
    /\ decision' = [outcome |-> outcome, by |-> d, revision |-> deciding[d]]
    /\ deciding' = [deciding EXCEPT ![d] = 0]
    /\ UNCHANGED <<round, checked, team, rows, summary, council>>

\* The transaction is refused and rolled back.
DecideRefused(d) ==
    /\ deciding[d] # 0
    /\ ~(assertDecidablePackage(deciding[d]) /\ route["DECISION_PACKAGE"] = "LEADERSHIP"
         /\ status = "ready_for_approval")
    /\ deciding' = [deciding EXCEPT ![d] = 0]
    /\ UNCHANGED <<submission, team, rows, summary, council, route, decision>>

-----------------------------------------------------------------------------
People1(ms) == {m[1] : m \in ms}

\* councilMetadataProblems: the members of a proposed council, strictly when it is submitted.
RosterProblems(ms, strict) ==
    \/ Cardinality(People1(ms)) # Cardinality(ms)
    \/ \E r \in Roles : LET n == Cardinality({m \in ms : m[2] = r})
                        IN  n > Limits[r].max \/ (strict /\ n < Limits[r].min)

\* An invitation of an earlier round, or not wanted any more, is revoked ...
Uninvited(ms, i) ==
    IF rows[i].status = "invited" /\ (rows[i].round # round \/ <<rows[i].person, rows[i].role>> \notin ms)
    THEN [rows[i] EXCEPT !.status = "revoked"]
    ELSE rows[i]
\* ... and whoever has neither an assignment nor an answer in this round is invited.
ToInvite(ms) ==
    {m \in ms : \A i \in RowsOf(m[1]) :
                    rows[i].round = round => ~Live(i) /\ ~(rows[i].status \in {"invited", "declined"}
                                                           /\ rows[i].role = m[2])}

\* syncCouncilInvitations; ids are given in any order.
syncCouncilInvitations(ms) ==
    /\ \A i \in RoundRows : \A m \in ms : rows[i].person = m[1] => rows[i].role = m[2]
    /\ \E new \in [ToInvite(ms) -> Free] :
          /\ \A m, n \in ToInvite(ms) : new[m] = new[n] => m = n
          /\ \A m \in ToInvite(ms), j \in Free : j < new[m] => \E n \in ToInvite(ms) : new[n] = j
          /\ rows' = [i \in Assignments |->
                        IF \E m \in ToInvite(ms) : new[m] = i
                        THEN LET m == CHOOSE m \in ToInvite(ms) : new[m] = i
                             IN  NewRow(m[1], m[2], "invited", "open")
                        ELSE Uninvited(ms, i)]

\* councilAcceptanceProblems: an assignment in force counts like an accepted invitation.
Accepted(m) ==
    \E i \in RowsOf(m[1]) : /\ rows[i].round = round /\ rows[i].role = m[2]
                            /\ Live(i) \/ (rows[i].status = "invited" /\ rows[i].accepted)

\* Fault: a proposal at the leadership may be replaced.
CouncilEditable_Submitted == council.status # "approved"
CouncilEditable == council.status \notin {"submitted", "approved"}

\* proposeCouncil with its three actions; a submission is only made when nobody is left to
\* invite, so that all have answered.
proposeCouncil(p, ms, action) ==
    /\ isEvaluationCoordinator(p) /\ ~resolveActorConflict(p)
    /\ status \in AssignableStatuses
    /\ CouncilEditable
    /\ People1(ms) \cap Participants = {}
    /\ ~RosterProblems(ms, action = "submit")
    /\ action # "save" => round \in checked
    /\ IF action = "save" THEN UNCHANGED rows ELSE syncCouncilInvitations(ms)
    /\ IF action = "submit"
       THEN (\A m \in ms : Accepted(m)) /\ openApprovalSubmission("EVALUATION_COUNCIL", p)
       ELSE UNCHANGED route
    /\ council' = [status |-> IF action = "submit" THEN "submitted" ELSE "draft", members |-> ms]
    /\ UNCHANGED <<submission, team, summary, deciding, decision>>

assertCouncilSigning(l) ==
    /\ l \in Directors \cup Deputies
    /\ ~resolveActorConflict(l)
    /\ council.status = "submitted"
    /\ route["EVALUATION_COUNCIL"] = "LEADERSHIP"

\* Fault: an invitation of an earlier round is taken.
Activated_AnyRound == {i \in Assignments : /\ rows[i].status = "invited" /\ rows[i].accepted
                                           /\ <<rows[i].person, rows[i].role>> \in council.members
                                           /\ \A j \in RoundRows : rows[j].person # rows[i].person}
\* The invitations that the decision makes assignments.
Activated == {i \in Assignments : /\ rows[i].status = "invited" /\ rows[i].round = round /\ rows[i].accepted
                                  /\ <<rows[i].person, rows[i].role>> \in council.members
                                  /\ \A j \in RoundRows : rows[j].person # rows[i].person}
\* The assignments after the decision.
Established(i) ==
    IF i \in Activated THEN [rows[i] EXCEPT !.status = "assigned"]
    ELSE IF rows[i].status = "invited" /\ rows[i].round = round
         THEN [rows[i] EXCEPT !.status = "revoked"]
         ELSE Retired({rows[j].person : j \in Activated}, i)

\* Fault: the roster with the assignments already in force is not checked against the maxima.
RosterFits_Unchecked == TRUE
RosterFits ==
    LET S == RoundRows \cup Activated
    IN  OneRoleEach(S) /\ \A r \in Roles : RoleCount(S, r) <= Limits[r].max

approveCouncil(l) ==
    /\ assertCouncilSigning(l)
    /\ status \in AssignableStatuses
    /\ summary.status \in {"none", "draft"}
    /\ ~RosterProblems(council.members, TRUE)
    /\ round \in checked
    /\ People1(council.members) \cap Participants = {}
    /\ \A m \in council.members :
          IF \E i \in RoundRows : rows[i].person = m[1]
          THEN \A i \in RoundRows : rows[i].person = m[1] => rows[i].role = m[2]
          ELSE \E i \in Activated : rows[i].person = m[1]
    /\ RosterFits
    /\ rows' = [i \in Assignments |-> Established(i)]
    /\ council' = [council EXCEPT !.status = "approved"]
    /\ status' = "under_review"
    /\ route' = [route EXCEPT !["EVALUATION_COUNCIL"] = "approved"]
    /\ UNCHANGED <<round, checked, team, summary, deciding, decision>>

\* A refused council is the coordinator's to change again.
rejectCouncil(l) ==
    /\ assertCouncilSigning(l)
    /\ council' = [council EXCEPT !.status = "rejected"]
    /\ route' = [route EXCEPT !["EVALUATION_COUNCIL"] = "drafting"]
    /\ UNCHANGED <<submission, team, rows, summary, deciding, decision>>

-----------------------------------------------------------------------------
Preparation ==
    \/ \E ms \in Teams : replaceMembers(ms)
    \/ submitProposal \/ resubmitProposal
    \/ \E p \in People : requestSupplement(p) \/ completeCheck(p) \/ revokeManagementOfficer(p)
    \/ \E a, p \in People : assignManagementOfficer(a, p)

Evaluation ==
    \/ \E a \in People, c \in Candidates : assignReviewer(a, c[1], c[2], c[3])
    \/ \E i \in Assignments :
          \/ \E a \in People : revokeAssignment(a, i)
          \/ \E answer \in {"accept", "decline"} : respondToInvitation(i, answer)
          \/ Expire(i) \/ saveMyReview(i) \/ submitMyReview(i)
    \/ \E p \in People : \/ saveEvaluationSummary(p) \/ finalizeEvaluationSummary(p)
                         \/ reopenEvaluationSummary(p) \/ submitEvaluationPackage(p)

Approval ==
    \/ \E k \in Procedures : advance(k)
    \/ returnPackage \/ returnCouncil
    \/ \E d \in Directors : \/ \E revision \in 1..MaxRevision : DecideCheck(d, revision)
                            \/ \E outcome \in {"approved", "rejected"} : decide(d, outcome)
                            \/ DecideRefused(d)

CouncilSteps ==
    \/ \E p \in People, ms \in Rosters, action \in {"save", "invite", "submit"} : proposeCouncil(p, ms, action)
    \/ \E l \in People : approveCouncil(l) \/ rejectCouncil(l)

Next == Preparation \/ Evaluation \/ Approval \/ CouncilSteps

Spec == Init /\ [][Next]_vars

-----------------------------------------------------------------------------
TypeOK ==
    /\ status \in Statuses /\ round \in Rounds /\ checked \subseteq Rounds
    /\ members \subseteq People /\ officer \in Accounts
    /\ rows \in [Assignments -> Row]
    /\ summary \in Summary /\ council \in Council /\ route \in [Procedures -> Phases]
    /\ deciding \in [Directors -> 0..MaxRevision] /\ decision \in Decision

\* Whatever mixture of direct assignments and accepted invitations made it, the council of a
\* round never exceeds a maximum of EVALUATION_COUNCIL_LIMITS and nobody sits in it twice.
RoleLimits ==
    /\ \A r \in Roles : Cardinality({i \in RoundRows : rows[i].role = r}) <= Limits[r].max
    /\ \A i, j \in RoundRows : rows[i].person = rows[j].person => i = j

\* A decision stands on the revision that was finalized, on exactly the council and the reviews
\* of the current round, every scoring member's review being in and each role filled.
DecisionOnFullCouncil ==
    decision.outcome # "none" =>
        /\ status = decision.outcome /\ decision.revision = summary.revision
        /\ summary.assignments = RoundRows
        /\ summary.reviews = {i \in RoundRows : Scoring(i)}
        /\ \A i \in RoundRows : Scoring(i) <=> rows[i].review = "submitted"
        /\ \A r \in Roles : Cardinality({i \in RoundRows : rows[i].role = r}) >= Limits[r].min

\* The evidence captured in a package that is under approval does not move under the signatures:
\* only a secretary who never answered leaves it.
PackageEvidenceFrozen ==
    status = "ready_for_approval" =>
        /\ summary.reviews = RoundReviews
        /\ RoundRows \subseteq summary.assignments
        /\ \A i \in summary.assignments \ RoundRows :
              ~Scoring(i) /\ ~rows[i].accepted /\ rows[i].status = "revoked"

\* A package can be decided as long as nobody has left it.
DecidableUnlessLeft ==
    status = "ready_for_approval" /\ summary.assignments = RoundRows
        => assertDecidablePackage(summary.revision)

\* What the leadership gets is what was finalized, and it can decide on it unless an assignment
\* was still unanswered when the package was submitted (see SubmittedPackageDecidable): no other
\* step, in any order, takes from a package what the decision asks for.
PackageHolds == PackageEvidenceFrozen /\ DecidableUnlessLeft

\* A review that was handed in is never rewritten, withdrawn or moved to another assignment.
SubmittedReviewsStand ==
    [][\A i \in Assignments : rows[i].review = "submitted" =>
          /\ rows'[i].review = "submitted"
          /\ rows'[i].person = rows[i].person /\ rows'[i].round = rows[i].round]_vars

\* Whoever consolidated the package that is decided neither takes part in the proposal nor wrote
\* one of the reviews consolidated.
NoSelfConsolidation ==
    status \in {"ready_for_approval", "approved", "rejected"} =>
        /\ summary.finalizedBy \notin Participants \cup {Nobody}
        /\ \A i \in summary.reviews : rows[i].person # summary.finalizedBy

\* A director decides neither on the own proposal nor on a package with a review of theirs, though
\* the conflict is looked up before the proposal is locked and a return may come in between.
NoSelfDecision ==
    decision.outcome # "none" =>
        /\ decision.by \notin Participants
        /\ \A i \in summary.reviews : rows[i].person # decision.by

\* From the package to the decision, whoever consolidates or decides is a third person: the two
\* rules above together, which fail in different parts of the procedure.
NobodyJudgesOwnWork == NoSelfConsolidation /\ NoSelfDecision

\* Nobody on the team judges the proposal or administers it, though the team may be changed
\* whenever the proposal is with its owner.
TeamNeverJudges ==
    /\ officer \notin Participants
    /\ \A i \in Assignments : Live(i) => rows[i].person \notin Participants

\* Every assignment in force is one of the current submission, which passed its completeness
\* check; the owner cannot get the proposal back while one exists.
AssignmentsOfRound ==
    \A i \in Assignments : Live(i) =>
        /\ rows[i].round = round /\ round \in checked
        /\ status \in {"under_review", "ready_for_approval", "approved", "rejected"}

\* When the leadership establishes a council, each member has an assignment of the current round
\* that was in force before or that they themselves accepted for this round.
CouncilEstablishedForRound ==
    [][council.status # "approved" /\ council'.status = "approved" =>
          \A m \in council.members : \E i \in Assignments :
              /\ <<rows'[i].person, rows'[i].role>> = m /\ rows'[i].round = round
              /\ Live(i)' /\ (Live(i) \/ rows[i].accepted)]_vars

\* The approval route agrees with the records it locks: the package and the council are under
\* approval exactly while proposal, summary and councilMetadata say so.
RouteAgrees ==
    /\ route["DECISION_PACKAGE"] \in UnderReview <=> status = "ready_for_approval"
    /\ summary.status = "ready_for_approval"
          <=> status \in {"ready_for_approval", "approved", "rejected"}
    /\ route["EVALUATION_COUNCIL"] \in UnderReview <=> council.status = "submitted"

\* Council and package take the approval procedure: no stage is skipped, nothing decided reopens.
Procedure == INSTANCE ApprovalProcedure
                 WITH Keys <- Procedures, Redraft <- {}, Legacy <- {}, phase <- route
ImplementsProcedure == Procedure!Spec

\* The comment in assertDecidablePackage: a new package passed this check when it was finalized
\* and when it was submitted, so that a package under approval can be decided.
SubmittedPackageDecidable ==
    status = "ready_for_approval" => sameEvidenceIds /\ councilReady(RoundRows)
=============================================================================
