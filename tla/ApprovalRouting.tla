--------------------------- MODULE ApprovalRouting ---------------------------
(***************************************************************************)
(* The approval route of every procedure that goes to the Academy's        *)
(* leadership: rows of approval_submissions and approval_steps, written by *)
(* openApprovalSubmission / closeApprovalSubmission inside the procedures' *)
(* own transactions and by ApprovalRoutingService.advance / returnToStaff. *)
(*                                                                         *)
(* advance and returnToStaff run at READ COMMITTED and are modelled in     *)
(* steps: the request arrives with the caller's role as authenticated, the *)
(* row is locked (SELECT ... FOR UPDATE) and read, then the transaction    *)
(* commits or is refused.  The procedures' transactions hold the lock of   *)
(* the proposal or project row, so each of them is one action; it waits    *)
(* for a row lock it needs.                                                *)
(*                                                                         *)
(* subject[k] abstracts the business record of procedure k: whether its    *)
(* owner may still change it ("editable"), it is put up for approval       *)
(* ("submitted") or decided, and the version of its content.               *)
(***************************************************************************)
EXTENDS Naturals, FiniteSets

CONSTANTS
    Keys,           \* procedures (kind, subjectType, subjectId, subjectRef)
    KindOf,         \* [Keys -> Kinds]
    Legacy,         \* procedures already with the leadership when the route was introduced
    People,         \* accounts
    InitialRole,    \* [People -> Roles]
    InScope,        \* accounts whose organization scope holds the host unit
    Submissions,    \* ids of approval_submissions rows
    Requests,       \* concurrent advance / return requests
    RoleChanges,    \* <<account, new role>>: the changes of role the administrator may make
    MaxVersion,     \* bound on the edits of a subject
    MaxRoleChanges  \* bound on the number of changes of role

VARIABLES
    role,           \* [People -> Roles], users.systemRole
    roleChanges,    \* 0..MaxRoleChanges
    subject,        \* [Keys -> [status, version]]
    rows,           \* [Submissions -> Row]
    req             \* [Requests -> Request], the transactions of the service in flight

vars == <<role, roleChanges, subject, rows, req>>

Staff     == "RESEARCH_MANAGEMENT_STAFF"
BoardHead == "RESEARCH_BOARD_HEAD"
DeptHead  == "RESEARCH_MANAGEMENT_HEAD"
Director  == "LEADERSHIP_APPROVAL_AUTHORITY"
Deputy    == "SCIENCE_DEPUTY_DIRECTOR"
Roles     == {Staff, BoardHead, DeptHead, Director, Deputy}

Kinds == {"EVALUATION_COUNCIL", "DECISION_PACKAGE", "IRB_COUNCIL", "IRB_CERTIFICATE",
          "ACCEPTANCE_COUNCIL", "PROJECT_EXTENSION", "PROJECT_ADJUSTMENT", "LIQUIDATION"}

\* Procedures only the Director signs; the science deputy signs the others too.
DirectorKinds == {"DECISION_PACKAGE", "LIQUIDATION"}

\* Kinds whose draft stays open for the drafter while it is being reviewed: each
\* new version replaces the submission in progress.
RedraftKinds == {"ACCEPTANCE_COUNCIL", "LIQUIDATION"}

\* Kinds the leadership can send back or refuse, and those still editable after a refusal.
ReturnKinds == {"IRB_CERTIFICATE", "PROJECT_EXTENSION", "PROJECT_ADJUSTMENT"}
RejectKinds == {"EVALUATION_COUNCIL", "IRB_COUNCIL", "DECISION_PACKAGE",
                "PROJECT_EXTENSION", "PROJECT_ADJUSTMENT"}
ReopenKinds == {"EVALUATION_COUNCIL", "IRB_COUNCIL"}

Redraft == {k \in Keys : KindOf[k] \in RedraftKinds}

ASSUME KeysAssumption == Keys # {} /\ KindOf \in [Keys -> Kinds] /\ Legacy \subseteq Keys
ASSUME PeopleAssumption ==
    People # {} /\ InitialRole \in [People -> Roles] /\ InScope \subseteq People
    /\ RoleChanges \subseteq People \X Roles
ASSUME SubmissionsAssumption == Submissions # {}
ASSUME BoundsAssumption == MaxVersion \in Nat \ {0} /\ MaxRoleChanges \in Nat

Stages   == {"BOARD_REVIEW", "HEAD_REVIEW", "LEADERSHIP", "CLOSED"}
Statuses == {"ABSENT", "PENDING", "APPROVED", "REJECTED", "RETURNED", "CANCELLED"}
\* A row of approval_steps; "as" is the role its actor was authenticated with (history).
Step == [stage : Stages, action : {"SUBMIT", "FORWARD", "APPROVE", "REJECT", "RETURN"},
         actor : People, as : Roles]
\* "content" is the version of the subject that was submitted (history).
Row == [key : Keys, stage : Stages, status : Statuses, submittedBy : People,
        content : 1..MaxVersion, steps : SUBSET Step]
SubjectStatuses == {"editable", "submitted", "approved", "rejected"}
Request == [phase : {"idle", "arrived", "locked"}, op : {"advance", "return"},
            actor : People, as : Roles, sub : Submissions, stage : Stages, status : Statuses]

Absent == [key |-> CHOOSE k \in Keys : TRUE, stage |-> "CLOSED", status |-> "ABSENT",
           submittedBy |-> CHOOSE p \in People : TRUE, content |-> 1, steps |-> {}]

-----------------------------------------------------------------------------
History(k) == {s \in Submissions : rows[s].status # "ABSENT" /\ rows[s].key = k}
Pending(k) == {s \in History(k) : rows[s].status = "PENDING"}

\* Fault: the row is read without FOR UPDATE.
Locked_Never(s) == FALSE

\* The row lock of SELECT ... FOR UPDATE.
Locked(s) == \E q \in Requests : req[q].phase = "locked" /\ req[q].sub = s

canSignApproval(r, k) == r = Director \/ (r = Deputy /\ KindOf[k] \notin DirectorKinds)

\* Fault: any submission in progress may be signed.
assertReadyForLeadership_AnyStage(r, k) ==
    IF Pending(k) # {} THEN canSignApproval(r, k) ELSE History(k) = {}

\* The leadership signs what is at LEADERSHIP, and what has no route at all.
assertReadyForLeadership(r, k) ==
    IF Pending(k) # {}
    THEN \E s \in Pending(k) : rows[s].stage = "LEADERSHIP" /\ canSignApproval(r, k)
    ELSE History(k) = {}

\* Fault: the stage of the department head has no actor.
assertStageActor_BoardOnly(q) ==
    /\ req[q].stage = "BOARD_REVIEW" /\ req[q].as = BoardHead
    /\ req[q].actor \in InScope
    /\ rows[req[q].sub].submittedBy # req[q].actor

\* The right person at the right stage, in scope, and not the submitter; q holds
\* what the transaction read under the lock.
assertStageActor(q) ==
    /\ \/ req[q].stage = "BOARD_REVIEW" /\ req[q].as = BoardHead
       \/ req[q].stage = "HEAD_REVIEW" /\ req[q].as = DeptHead
    /\ req[q].actor \in InScope
    /\ rows[req[q].sub].submittedBy # req[q].actor

AddStep(row, stage, action, p, r) ==
    row.steps \cup {[stage |-> stage, action |-> action, actor |-> p, as |-> r]}

Idle == [phase |-> "idle", op |-> "advance", actor |-> Absent.submittedBy, as |-> Staff,
         sub |-> CHOOSE s \in Submissions : TRUE, stage |-> "CLOSED", status |-> "ABSENT"]

-----------------------------------------------------------------------------
Init ==
    /\ role = InitialRole
    /\ roleChanges = 0
    /\ subject = [k \in Keys |->
                    [status |-> IF k \in Legacy THEN "submitted" ELSE "editable", version |-> 1]]
    /\ rows = [s \in Submissions |-> Absent]
    /\ req = [q \in Requests |-> Idle]

\* The administrator gives an account another role.
ChangeRole(p, r) ==
    /\ roleChanges < MaxRoleChanges
    /\ <<p, r>> \in RoleChanges
    /\ role' = [role EXCEPT ![p] = r]
    /\ roleChanges' = roleChanges + 1
    /\ UNCHANGED <<subject, rows, req>>

\* The drafter changes a procedure that is not put up for approval.
EditDraft(k) ==
    /\ k \notin Redraft
    /\ subject[k].status = "editable"
    /\ subject[k].version < MaxVersion
    /\ subject' = [subject EXCEPT ![k].version = @ + 1]
    /\ UNCHANGED <<role, roleChanges, rows, req>>

\* Fault: everybody starts at the board head, the board head too.
NewSubmission_Board(p, k, content) ==
    [key |-> k, stage |-> "BOARD_REVIEW", status |-> "PENDING", submittedBy |-> p, content |-> content,
     steps |-> {[stage |-> "BOARD_REVIEW", action |-> "SUBMIT", actor |-> p, as |-> role[p]]}]

NewSubmission(p, k, content) ==
    LET stage == IF role[p] = BoardHead THEN "HEAD_REVIEW" ELSE "BOARD_REVIEW"
    IN [key |-> k, stage |-> stage, status |-> "PENDING", submittedBy |-> p, content |-> content,
        steps |-> {[stage |-> stage, action |-> "SUBMIT", actor |-> p, as |-> role[p]]}]

\* Fault: the submission in progress is kept for the new draft.
openApprovalSubmission_Reuses(s, p, k, content) ==
    rows' = IF Pending(k) # {} THEN rows ELSE [rows EXCEPT ![s] = NewSubmission(p, k, content)]

\* A new submission in the place of the one in progress, if any.
openApprovalSubmission(s, p, k, content) ==
    rows' = [t \in Submissions |->
               IF t = s THEN NewSubmission(p, k, content)
               ELSE IF t \in Pending(k)
                    THEN [rows[t] EXCEPT !.status = "CANCELLED", !.stage = "CLOSED"]
                    ELSE rows[t]]

\* The "submit" operation of the procedure.  A Redraft procedure writes its new draft and
\* opens its submission in the same operation, also while an earlier one is under review.
Submit(s, p, k) ==
    /\ role[p] \in {Staff, BoardHead, DeptHead}
    /\ p \in InScope
    /\ rows[s].status = "ABSENT"
    /\ \A t \in Pending(k) : ~Locked(t)
    /\ IF k \in Redraft
       THEN /\ subject[k].status \in {"editable", "submitted"}
            /\ subject[k].version < MaxVersion
            /\ subject' = [subject EXCEPT ![k] = [status |-> "submitted", version |-> @.version + 1]]
       ELSE /\ subject[k].status = "editable"
            /\ subject' = [subject EXCEPT ![k].status = "submitted"]
    /\ openApprovalSubmission(s, p, k, subject'[k].version)
    /\ UNCHANGED <<role, roleChanges, req>>

-----------------------------------------------------------------------------
\* A call of advance or returnToStaff enters the service, for a submission the inbox showed
\* as pending; actor and role come from the session.
Arrive(q, p, s, op) ==
    /\ req[q].phase = "idle"
    /\ role[p] \in {BoardHead, DeptHead}
    /\ rows[s].status = "PENDING"
    /\ req' = [req EXCEPT ![q] = [phase |-> "arrived", op |-> op, actor |-> p, as |-> role[p],
                                  sub |-> s, stage |-> "CLOSED", status |-> "ABSENT"]]
    /\ UNCHANGED <<role, roleChanges, subject, rows>>

\* SELECT ... FOR UPDATE, then the row is read.
lockPending(q) ==
    /\ req[q].phase = "arrived"
    /\ ~Locked(req[q].sub)
    /\ req' = [req EXCEPT ![q] = [@ EXCEPT !.phase = "locked",
                                           !.stage = rows[req[q].sub].stage,
                                           !.status = rows[req[q].sub].status]]
    /\ UNCHANGED <<role, roleChanges, subject, rows>>

Allowed(q) == req[q].status = "PENDING" /\ assertStageActor(q)

Release(q) == req' = [req EXCEPT ![q] = Idle]

Refuse(q) ==
    /\ req[q].phase = "locked"
    /\ ~Allowed(q)
    /\ Release(q)
    /\ UNCHANGED <<role, roleChanges, subject, rows>>

NextStage(stage) == IF stage = "BOARD_REVIEW" THEN "HEAD_REVIEW" ELSE "LEADERSHIP"

advance(q) ==
    /\ req[q].phase = "locked" /\ req[q].op = "advance"
    /\ Allowed(q)
    /\ rows' = [rows EXCEPT ![req[q].sub] =
          [@ EXCEPT !.stage = NextStage(req[q].stage),
                    !.steps = AddStep(rows[req[q].sub], req[q].stage,
                                      IF req[q].stage = "BOARD_REVIEW" THEN "FORWARD" ELSE "APPROVE",
                                      req[q].actor, req[q].as)]]
    /\ Release(q)
    /\ UNCHANGED <<role, roleChanges, subject>>

\* Fault: only the submission is returned.
revertOnReturn_RowOnly(k) == UNCHANGED subject

\* The procedure becomes editable again, unless its draft never stopped being so.
revertOnReturn(k) ==
    IF k \in Redraft \/ subject[k].status # "submitted" THEN UNCHANGED subject
    ELSE subject' = [subject EXCEPT ![k].status = "editable"]

returnToStaff(q) ==
    /\ req[q].phase = "locked" /\ req[q].op = "return"
    /\ Allowed(q)
    /\ rows' = [rows EXCEPT ![req[q].sub] =
          [@ EXCEPT !.stage = "CLOSED", !.status = "RETURNED",
                    !.steps = AddStep(rows[req[q].sub], req[q].stage, "RETURN",
                                      req[q].actor, req[q].as)]]
    /\ revertOnReturn(rows[req[q].sub].key)
    /\ Release(q)
    /\ UNCHANGED <<role, roleChanges>>

-----------------------------------------------------------------------------
\* The pending submission, if there is one, is closed with the leadership's decision.
closeApprovalSubmission(p, k, decision, action) ==
    rows' = [s \in Submissions |->
        IF s \in Pending(k)
        THEN [rows[s] EXCEPT !.status = decision, !.stage = "CLOSED",
                             !.steps = AddStep(rows[s], "LEADERSHIP", action, p, role[p])]
        ELSE rows[s]]

\* A decision of the leadership on procedure k, which leaves its record in "status".
Decide(p, k, decision, action, status) ==
    /\ subject[k].status = "submitted"
    /\ canSignApproval(role[p], k)
    /\ assertReadyForLeadership(role[p], k)
    /\ \A s \in Pending(k) : ~Locked(s)
    /\ subject' = [subject EXCEPT ![k].status = status]
    /\ closeApprovalSubmission(p, k, decision, action)
    /\ UNCHANGED <<role, roleChanges, req>>

Approve(p, k) == Decide(p, k, "APPROVED", "APPROVE", "approved")

Reject(p, k) ==
    /\ KindOf[k] \in RejectKinds
    /\ Decide(p, k, "REJECTED", "REJECT",
              IF KindOf[k] \in ReopenKinds THEN "editable" ELSE "rejected")

LeadershipReturn(p, k) ==
    /\ KindOf[k] \in ReturnKinds
    /\ Decide(p, k, "RETURNED", "RETURN", "editable")

Next ==
    \/ \E p \in People, r \in Roles : ChangeRole(p, r)
    \/ \E k \in Keys : EditDraft(k)
    \/ \E s \in Submissions, p \in People, k \in Keys : Submit(s, p, k)
    \/ \E q \in Requests, p \in People, s \in Submissions, op \in {"advance", "return"} :
            Arrive(q, p, s, op)
    \/ \E q \in Requests : lockPending(q) \/ Refuse(q) \/ advance(q) \/ returnToStaff(q)
    \/ \E p \in People, k \in Keys : Approve(p, k) \/ Reject(p, k) \/ LeadershipReturn(p, k)

Spec == Init /\ [][Next]_vars

-----------------------------------------------------------------------------
(* Properties *)

\* Every variable holds values of its type.
TypeOK ==
    /\ role \in [People -> Roles]
    /\ roleChanges \in 0..MaxRoleChanges
    /\ subject \in [Keys -> [status : SubjectStatuses, version : 1..MaxVersion]]
    /\ rows \in [Submissions -> Row]
    /\ req \in [Requests -> Request]

\* A procedure has at most one submission in progress (the partial unique index
\* approval_submissions_one_pending relies on openApprovalSubmission to replace the old one).
OnePending == \A k \in Keys : \A s, t \in Pending(k) : s = t

\* No step is skipped: what is with the leadership, or was signed by it, was approved by a
\* department head, and forwarded by a board head unless the board head drafted it.
RouteComplete ==
    \A s \in Submissions :
        rows[s].stage = "LEADERSHIP" \/ rows[s].status = "APPROVED" =>
            /\ \E e \in rows[s].steps :
                   e.stage = "HEAD_REVIEW" /\ e.action = "APPROVE" /\ e.as = DeptHead
            /\ \E e \in rows[s].steps :
                   /\ e.as = BoardHead
                   /\ \/ e.stage = "BOARD_REVIEW" /\ e.action = "FORWARD"
                      \/ e.stage = "HEAD_REVIEW" /\ e.action = "SUBMIT"

\* Nobody reviews a submission of their own, whatever roles they held in the meantime.
NoSelfReview ==
    \A s \in Submissions : \A e \in rows[s].steps :
        e.stage \in {"BOARD_REVIEW", "HEAD_REVIEW"} /\ e.action # "SUBMIT"
            => e.actor # rows[s].submittedBy

\* A stage is decided once: two reviewers answering together, or one answering twice,
\* leave one answer in approval_steps.
OneReviewPerStage ==
    \A s \in Submissions : \A d, e \in rows[s].steps :
        d.action # "SUBMIT" /\ e.action # "SUBMIT" /\ d.stage = e.stage => d = e

\* A routed procedure is closed to its drafter exactly while a submission of it is in
\* progress: it is never left locked with nobody to act on it, nor edited under review.
LockedIffPending ==
    \A k \in Keys \ Redraft :
        History(k) # {} => (subject[k].status = "submitted" <=> Pending(k) # {})

\* What the leadership approved is the content that was put through the review: no
\* later draft is carried by an earlier review.
SignedAsReviewed ==
    \A k \in Keys :
        subject[k].status = "approved" /\ History(k) # {} =>
            \E s \in History(k) :
                rows[s].status = "APPROVED" /\ rows[s].content = subject[k].version

\* A procedure is under one review at a time, and each stage of it is answered once.
OneReviewAtATime == OnePending /\ OneReviewPerStage

\* Who may answer a submission that waits at the stage of a board or department head.
Reviewer(p, s) ==
    /\ rows[s].status = "PENDING"
    /\ \/ rows[s].stage = "BOARD_REVIEW" /\ role[p] = BoardHead
       \/ rows[s].stage = "HEAD_REVIEW" /\ role[p] = DeptHead
    /\ p \in InScope
    /\ p # rows[s].submittedBy

\* Persons for every stage, who keep their roles: a board head, a Director, and two department
\* heads, because a head does not review a submission of their own.
Staffed ==
    /\ MaxRoleChanges = 0
    /\ \E p \in InScope : InitialRole[p] = BoardHead
    /\ \E p, q \in InScope : p # q /\ InitialRole[p] = DeptHead /\ InitialRole[q] = DeptHead
    /\ \E p \in People : InitialRole[p] = Director

\* A procedure that is put up for approval always waits for somebody who may act on it, one
\* board head being enough (their own submissions begin at the department head); only a draft
\* that never closes may have been returned, and is then its drafter's to send again.
SomebodysTurn ==
    Staffed => \A k \in Keys : subject[k].status = "submitted" =>
        \/ \E s \in Pending(k), p \in People : Reviewer(p, s)
        \/ \E p \in People : canSignApproval(role[p], k) /\ assertReadyForLeadership(role[p], k)
        \/ k \in Redraft /\ Pending(k) = {}

\* A finished submission and its steps never change again (a late review of a submission
\* that was replaced, returned or signed has no effect).
ClosedStaysClosed ==
    [][\A s \in Submissions :
          rows[s].status \in {"APPROVED", "REJECTED", "RETURNED", "CANCELLED"} =>
              rows'[s] = rows[s]]_vars

\* The promise of the component: see ApprovalProcedure.
phase == [k \in Keys |->
    CASE subject[k].status \in {"approved", "rejected"} -> subject[k].status
      [] subject[k].status \in {"editable", "submitted"} /\ Pending(k) # {} ->
             rows[CHOOSE s \in Pending(k) : TRUE].stage
      [] subject[k].status = "submitted" /\ History(k) = {} -> "LEADERSHIP"
      [] OTHER -> "drafting"]

Abstract == INSTANCE ApprovalProcedure

\* The rows implement the procedure: each step of the service or of a procedure's own
\* transaction is one legal move of that procedure, or none.
ImplementsProcedure == Abstract!Spec

-----------------------------------------------------------------------------
(* Liveness.  The server completes the transactions it began and PostgreSQL's lock queue   *)
(* is fair; a reviewer who may act on a waiting submission keeps trying, and so do the     *)
(* signers.                                                                                *)

Answer(s) == \E q \in Requests, p \in People, op \in {"advance", "return"} :
                Reviewer(p, s) /\ Arrive(q, p, s, op)

Sign(k) == \E p \in People : Approve(p, k) \/ Reject(p, k) \/ LeadershipReturn(p, k)

Fairness ==
    /\ \A q \in Requests : /\ SF_vars(lockPending(q))
                           /\ WF_vars(Refuse(q) \/ advance(q) \/ returnToStaff(q))
    /\ \A s \in Submissions : SF_vars(Answer(s))
    /\ \A k \in Keys : SF_vars(Sign(k))

FairSpec == Spec /\ Fairness

\* Every submission is eventually answered for good: signed, refused, returned or replaced.
EverySubmissionEnds ==
    \A s \in Submissions : rows[s].status = "PENDING" ~> rows[s].status # "PENDING"
=============================================================================
