------------------------ MODULE ApprovalRoutingProofs ------------------------
(* Theorems about ApprovalRouting, for every set of procedures, people,    *)
(* submissions and concurrent requests.                                    *)
EXTENDS ApprovalRouting, TLAPS

(* The records Init starts from are of their types. *)
LEMMA AbsentType == Absent \in Row /\ Idle \in Request
  <1>1. (CHOOSE k \in Keys : TRUE) \in Keys
    BY KeysAssumption
  <1>2. (CHOOSE p \in People : TRUE) \in People
    BY PeopleAssumption
  <1>3. (CHOOSE s \in Submissions : TRUE) \in Submissions
    BY SubmissionsAssumption
  <1>4. 1 \in 1..MaxVersion
    BY BoundsAssumption
  <1>5. Absent \in Row
    BY <1>1, <1>2, <1>4 DEF Absent, Row, Stages, Statuses
  <1> QED
    BY <1>2, <1>3, <1>5 DEF Absent, Idle, Request, Stages, Statuses, Roles, Staff

(* A step added to a row is a step. *)
LEMMA AddStepType ==
    ASSUME NEW row \in Row, NEW stage \in Stages, NEW p \in People, NEW r \in Roles,
           NEW action \in {"SUBMIT", "FORWARD", "APPROVE", "REJECT", "RETURN"}
    PROVE  AddStep(row, stage, action, p, r) \in SUBSET Step
  BY DEF AddStep, Step, Row

(* A row stays a row when its stage, status and steps are replaced. *)
LEMMA RowUpdateType ==
    ASSUME NEW row \in Row, NEW stage \in Stages, NEW status \in Statuses,
           NEW steps \in SUBSET Step
    PROVE  /\ [row EXCEPT !.status = status, !.stage = stage] \in Row
           /\ [row EXCEPT !.stage = stage, !.steps = steps] \in Row
           /\ [row EXCEPT !.stage = stage, !.status = status, !.steps = steps] \in Row
           /\ [row EXCEPT !.status = status, !.stage = stage, !.steps = steps] \in Row
  BY DEF Row

(* Type correctness is inductive. *)
LEMMA TypeInit == Init => TypeOK
  BY AbsentType, KeysAssumption, PeopleAssumption, BoundsAssumption
     DEF Init, TypeOK, SubjectStatuses

LEMMA TypeNext == TypeOK /\ [Next]_vars => TypeOK'
  <1> SUFFICES ASSUME TypeOK, [Next]_vars PROVE TypeOK'
    OBVIOUS
  <1> USE DEF TypeOK
  <1>1. ASSUME NEW p \in People, NEW r \in Roles, ChangeRole(p, r) PROVE TypeOK'
    BY <1>1, BoundsAssumption DEF ChangeRole
  <1>2. ASSUME NEW k \in Keys, EditDraft(k) PROVE TypeOK'
    BY <1>2, BoundsAssumption DEF EditDraft, SubjectStatuses
  <1>3. ASSUME NEW s \in Submissions, NEW p \in People, NEW k \in Keys, Submit(s, p, k)
        PROVE TypeOK'
    <2>1. subject' \in [Keys -> [status : SubjectStatuses, version : 1..MaxVersion]]
      BY <1>3, BoundsAssumption DEF Submit, SubjectStatuses
    <2>2. NewSubmission(p, k, subject'[k].version) \in Row
      BY <2>1 DEF NewSubmission, Row, Stages, Statuses, Step
    <2>3. rows' \in [Submissions -> Row]
      <3>1. \A t \in Submissions :
                [rows[t] EXCEPT !.status = "CANCELLED", !.stage = "CLOSED"] \in Row
        BY RowUpdateType DEF Stages, Statuses, Step
      <3> QED
        BY <1>3, <2>2, <3>1 DEF Submit, openApprovalSubmission
    <2> QED
      BY <1>3, <2>1, <2>3 DEF Submit
  <1>4. ASSUME NEW q \in Requests, NEW p \in People, NEW s \in Submissions,
               NEW op \in {"advance", "return"}, Arrive(q, p, s, op)
        PROVE TypeOK'
    BY <1>4 DEF Arrive, Request, Stages, Statuses
  <1>5. ASSUME NEW q \in Requests, lockPending(q) PROVE TypeOK'
    <2>1. [req[q] EXCEPT !.phase = "locked", !.stage = rows[req[q].sub].stage,
                         !.status = rows[req[q].sub].status] \in Request
      BY DEF Request, Row
    <2> QED
      BY <1>5, <2>1 DEF lockPending
  <1>6. ASSUME NEW q \in Requests, Refuse(q) PROVE TypeOK'
    BY <1>6, AbsentType DEF Refuse, Release
  <1>7. ASSUME NEW q \in Requests, advance(q) PROVE TypeOK'
    <2> DEFINE row == rows[req[q].sub]
               action == IF req[q].stage = "BOARD_REVIEW" THEN "FORWARD" ELSE "APPROVE"
    <2>0. row \in Row
      BY DEF Request
    <2>1. AddStep(row, req[q].stage, action, req[q].actor, req[q].as) \in SUBSET Step
      BY AddStepType DEF Request
    <2>2. rows' \in [Submissions -> Row]
      <3>1. NextStage(req[q].stage) \in Stages
        BY DEF NextStage, Stages
      <3>2. ASSUME NEW stage \in Stages, NEW steps \in SUBSET Step
            PROVE  [row EXCEPT !.stage = stage, !.steps = steps] \in Row
        BY <2>0, RowUpdateType DEF Statuses
      <3>3. [row EXCEPT !.stage = NextStage(req[q].stage),
                        !.steps = AddStep(row, req[q].stage, action, req[q].actor, req[q].as)] \in Row
        BY <2>1, <3>1, <3>2
      <3> QED
        BY <1>7, <3>3 DEF advance
    <2> QED
      BY <1>7, <2>2, AbsentType DEF advance, Release
  <1>8. ASSUME NEW q \in Requests, returnToStaff(q) PROVE TypeOK'
    <2> DEFINE row == rows[req[q].sub]
    <2>1. AddStep(row, req[q].stage, "RETURN", req[q].actor, req[q].as) \in SUBSET Step
      BY AddStepType DEF Request
    <2>2. rows' \in [Submissions -> Row]
      <3>1. [row EXCEPT !.stage = "CLOSED", !.status = "RETURNED",
                        !.steps = AddStep(row, req[q].stage, "RETURN", req[q].actor, req[q].as)] \in Row
        BY <2>1, RowUpdateType DEF Request, Stages, Statuses
      <3> QED
        BY <1>8, <3>1 DEF returnToStaff
    <2>3. subject' \in [Keys -> [status : SubjectStatuses, version : 1..MaxVersion]]
      BY <1>8 DEF returnToStaff, revertOnReturn, SubjectStatuses
    <2> QED
      BY <1>8, <2>2, <2>3, AbsentType DEF returnToStaff, Release
  <1>9. ASSUME NEW p \in People, NEW k \in Keys, NEW decision \in Statuses,
               NEW action \in {"APPROVE", "REJECT", "RETURN"}, NEW status \in SubjectStatuses,
               Decide(p, k, decision, action, status)
        PROVE TypeOK'
    <2>1. \A s \in Submissions :
              AddStep(rows[s], "LEADERSHIP", action, p, role[p]) \in SUBSET Step
      BY AddStepType DEF Stages
    <2>2. rows' \in [Submissions -> Row]
      <3>1. \A s \in Submissions :
               [rows[s] EXCEPT !.status = decision, !.stage = "CLOSED",
                    !.steps = AddStep(rows[s], "LEADERSHIP", action, p, role[p])] \in Row
        BY <2>1, RowUpdateType DEF Stages
      <3> QED
        BY <1>9, <3>1 DEF Decide, closeApprovalSubmission
    <2> QED
      BY <1>9, <2>2 DEF Decide
  <1>10. ASSUME UNCHANGED vars PROVE TypeOK'
    BY <1>10 DEF vars
  <1>11. ASSUME NEW p \in People, NEW k \in Keys,
                Approve(p, k) \/ Reject(p, k) \/ LeadershipReturn(p, k)
         PROVE TypeOK'
    <2>1. CASE Approve(p, k)
      BY <1>9, <2>1 DEF Approve, Statuses, SubjectStatuses
    <2>2. CASE Reject(p, k)
      BY <1>9, <2>2 DEF Reject, Statuses, SubjectStatuses
    <2>3. CASE LeadershipReturn(p, k)
      BY <1>9, <2>3 DEF LeadershipReturn, Statuses, SubjectStatuses
    <2> QED
      BY <1>11, <2>1, <2>2, <2>3
  <1> QED
    BY <1>1, <1>2, <1>3, <1>4, <1>5, <1>6, <1>7, <1>8, <1>10, <1>11 DEF Next

(* The variables keep their types in every reachable state. *)
THEOREM TypeCorrect == Spec => []TypeOK
  BY TypeInit, TypeNext, PTL DEF Spec

-----------------------------------------------------------------------------
(* The inductive invariant.  RowOK says of one row what its stage owes to its steps;   *)
(* LocksAgree that what a transaction read under the row lock is still what the row is, *)
(* which is why the checks made on the copy hold of the row when it is written.         *)

Boarded(row) == \E e \in row.steps :
    /\ e.as = BoardHead
    /\ \/ e.stage = "BOARD_REVIEW" /\ e.action = "FORWARD"
       \/ e.stage = "HEAD_REVIEW" /\ e.action = "SUBMIT"

Endorsed(row) == \E e \in row.steps :
    e.stage = "HEAD_REVIEW" /\ e.action = "APPROVE" /\ e.as = DeptHead

\* The stages whose answer may already be among the steps.
Answered(row) ==
    CASE row.stage = "BOARD_REVIEW" -> {}
      [] row.stage = "HEAD_REVIEW"  -> {"BOARD_REVIEW"}
      [] row.stage = "LEADERSHIP"   -> {"BOARD_REVIEW", "HEAD_REVIEW"}
      [] OTHER                      -> Stages

RowOK(row) ==
    /\ row.status = "PENDING" <=> row.stage # "CLOSED"
    /\ row.stage \in {"HEAD_REVIEW", "LEADERSHIP"} => Boarded(row)
    /\ row.stage = "LEADERSHIP" => Endorsed(row)
    /\ row.status = "APPROVED" => Boarded(row) /\ Endorsed(row)
    /\ \A e \in row.steps :
          e.action # "SUBMIT" =>
             /\ e.stage \in Answered(row)
             /\ e.stage \in {"BOARD_REVIEW", "HEAD_REVIEW"} => e.actor # row.submittedBy
    /\ \A d, e \in row.steps :
          d.action # "SUBMIT" /\ e.action # "SUBMIT" /\ d.stage = e.stage => d = e

LocksAgree ==
    \A q \in Requests :
        /\ req[q].phase # "idle" => rows[req[q].sub].status # "ABSENT"
        /\ req[q].phase = "locked" =>
              /\ req[q].stage = rows[req[q].sub].stage
              /\ req[q].status = rows[req[q].sub].status
              /\ \A r \in Requests :
                    req[r].phase = "locked" /\ req[r].sub = req[q].sub => r = q

RoutingInv ==
    /\ TypeOK
    /\ \A s \in Submissions : RowOK(rows[s])
    /\ LocksAgree
    /\ OnePending

(* A submission just opened owes nothing: a board head's own starts at HEAD_REVIEW. *)
LEMMA NewRowOK ==
    ASSUME NEW p \in People, NEW k \in Keys, NEW content
    PROVE  RowOK(NewSubmission(p, k, content))
  <1> DEFINE stage == IF role[p] = BoardHead THEN "HEAD_REVIEW" ELSE "BOARD_REVIEW"
             step == [stage |-> stage, action |-> "SUBMIT", actor |-> p, as |-> role[p]]
             new == NewSubmission(p, k, content)
  <1>1. new.status = "PENDING" /\ new.stage = stage /\ new.steps = {step}
    BY DEF NewSubmission
  <1>2. step.stage = stage /\ step.action = "SUBMIT" /\ step.as = role[p]
    OBVIOUS
  <1> HIDE DEF new, step
  <1>3. stage = "HEAD_REVIEW" => Boarded(new)
    BY <1>1, <1>2 DEF Boarded
  <1>4. RowOK(new)
    BY <1>1, <1>2, <1>3 DEF RowOK
  <1> QED
    BY <1>4 DEF new

(* Closing a row without a step (replacement) keeps what its steps say. *)
LEMMA CancelledRowOK ==
    ASSUME NEW row \in Row, RowOK(row)
    PROVE  RowOK([row EXCEPT !.status = "CANCELLED", !.stage = "CLOSED"])
  <1> DEFINE new == [row EXCEPT !.status = "CANCELLED", !.stage = "CLOSED"]
  <1>1. /\ new.status = "CANCELLED" /\ new.stage = "CLOSED"
        /\ new.steps = row.steps /\ new.submittedBy = row.submittedBy
    BY DEF Row
  <1>2. \A e \in row.steps : e.stage \in Stages
    BY DEF Row, Step
  <1> HIDE DEF new
  <1>3. Answered(new) = Stages
    BY <1>1 DEF Answered
  <1>4. RowOK(new)
    BY <1>1, <1>2, <1>3 DEF RowOK
  <1> QED
    BY <1>4 DEF new

(* The answer of a stage's own reviewer keeps the row in order. *)
LEMMA AdvancedRowOK ==
    ASSUME NEW row \in Row, RowOK(row), row.status = "PENDING",
           NEW p \in People, p # row.submittedBy, NEW r \in Roles,
           \/ row.stage = "BOARD_REVIEW" /\ r = BoardHead
           \/ row.stage = "HEAD_REVIEW" /\ r = DeptHead
    PROVE  LET action == IF row.stage = "BOARD_REVIEW" THEN "FORWARD" ELSE "APPROVE"
           IN RowOK([row EXCEPT !.stage = NextStage(row.stage),
                                !.steps = AddStep(row, row.stage, action, p, r)])
  <1> DEFINE action == IF row.stage = "BOARD_REVIEW" THEN "FORWARD" ELSE "APPROVE"
             step == [stage |-> row.stage, action |-> action, actor |-> p, as |-> r]
             new == [row EXCEPT !.stage = NextStage(row.stage),
                                !.steps = AddStep(row, row.stage, action, p, r)]
  <1>1. /\ new.status = "PENDING" /\ new.stage = NextStage(row.stage)
        /\ new.steps = row.steps \cup {step} /\ new.submittedBy = row.submittedBy
    BY DEF Row, AddStep
  <1>2. /\ step.stage = row.stage /\ step.action = action /\ step.actor = p /\ step.as = r
    OBVIOUS
  <1>3. row.stage \notin Answered(row) /\ Answered(new) = Answered(row) \cup {row.stage}
    BY <1>1 DEF Answered, NextStage
  <1> HIDE DEF new, step
  <1>4. Boarded(new)
    BY <1>1, <1>2 DEF RowOK, Boarded
  <1>5. new.stage = "LEADERSHIP" => Endorsed(new)
    BY <1>1, <1>2 DEF NextStage, Endorsed
  <1>6. \A e \in new.steps :
          e.action # "SUBMIT" =>
             /\ e.stage \in Answered(new)
             /\ e.stage \in {"BOARD_REVIEW", "HEAD_REVIEW"} => e.actor # new.submittedBy
    BY <1>1, <1>2, <1>3 DEF RowOK
  <1>7. \A d, e \in new.steps :
          d.action # "SUBMIT" /\ e.action # "SUBMIT" /\ d.stage = e.stage => d = e
    BY <1>1, <1>2, <1>3 DEF RowOK
  <1>8. RowOK(new)
    BY <1>1, <1>4, <1>5, <1>6, <1>7 DEF RowOK, NextStage
  <1> QED
    BY <1>8 DEF new

(* So does closing it with the answer of the stage it is at; an approval needs LEADERSHIP. *)
LEMMA ClosedRowOK ==
    ASSUME NEW row \in Row, RowOK(row), row.status = "PENDING",
           NEW p \in People, NEW r \in Roles,
           row.stage \in {"BOARD_REVIEW", "HEAD_REVIEW"} => p # row.submittedBy,
           NEW status \in {"APPROVED", "REJECTED", "RETURNED"},
           status = "APPROVED" => row.stage = "LEADERSHIP",
           NEW action \in {"APPROVE", "REJECT", "RETURN"},
           NEW new,
           new.status = status, new.stage = "CLOSED", new.submittedBy = row.submittedBy,
           new.steps = AddStep(row, row.stage, action, p, r)
    PROVE  RowOK(new)
  <1> DEFINE step == [stage |-> row.stage, action |-> action, actor |-> p, as |-> r]
  <1>1. new.steps = row.steps \cup {step}
    BY DEF AddStep
  <1>2. /\ step.stage = row.stage /\ step.action = action /\ step.actor = p /\ step.as = r
    OBVIOUS
  <1>3. row.stage \notin Answered(row) /\ Answered(new) = Stages
    BY DEF Answered, RowOK, Row, Stages
  <1>4. \A e \in row.steps : e.stage \in Stages
    BY DEF Row, Step
  <1> HIDE DEF step
  <1>5. Boarded(row) => Boarded(new)
    BY <1>1 DEF Boarded
  <1>6. Endorsed(row) => Endorsed(new)
    BY <1>1 DEF Endorsed
  <1>7. \A e \in new.steps :
          e.action # "SUBMIT" =>
             /\ e.stage \in Answered(new)
             /\ e.stage \in {"BOARD_REVIEW", "HEAD_REVIEW"} => e.actor # new.submittedBy
    BY <1>1, <1>2, <1>3, <1>4 DEF RowOK, Row
  <1>8. \A d, e \in new.steps :
          d.action # "SUBMIT" /\ e.action # "SUBMIT" /\ d.stage = e.stage => d = e
    BY <1>1, <1>2, <1>3 DEF RowOK
  <1> QED
    BY <1>5, <1>6, <1>7, <1>8 DEF RowOK

-----------------------------------------------------------------------------
(* What each action does to the rows and to the requests, for the proofs below. *)

LEMMA InvInit == Init => RoutingInv
  <1> SUFFICES ASSUME Init PROVE RoutingInv
    OBVIOUS
  <1>1. TypeOK
    BY TypeInit
  <1>2. \A s \in Submissions : rows[s] = Absent
    BY DEF Init
  <1>3. Absent.status = "ABSENT" /\ Absent.stage = "CLOSED" /\ Absent.steps = {}
    BY DEF Absent
  <1>4. \A s \in Submissions : RowOK(rows[s])
    BY <1>2, <1>3 DEF RowOK
  <1>5. \A q \in Requests : req[q].phase = "idle"
    BY DEF Init, Idle
  <1> QED
    BY <1>1, <1>2, <1>3, <1>4, <1>5 DEF RoutingInv, LocksAgree, OnePending, Pending, History

(* Reviewing: the row the transaction locked is in progress and at the actor's stage. *)
LEMMA ReviewedRow ==
    ASSUME RoutingInv, NEW q \in Requests, req[q].phase = "locked", Allowed(q)
    PROVE  /\ req[q].sub \in Submissions /\ req[q].actor \in People /\ req[q].as \in Roles
           /\ rows[req[q].sub].status = "PENDING"
           /\ rows[req[q].sub].stage = req[q].stage
           /\ req[q].actor # rows[req[q].sub].submittedBy
           /\ \/ req[q].stage = "BOARD_REVIEW" /\ req[q].as = BoardHead
              \/ req[q].stage = "HEAD_REVIEW" /\ req[q].as = DeptHead
  BY DEF RoutingInv, LocksAgree, Allowed, assertStageActor, TypeOK, Request

(* Deciding: all that is in progress of the procedure is with the leadership. *)
LEMMA DecidedRow ==
    ASSUME RoutingInv, NEW p \in People, NEW k \in Keys, NEW r, assertReadyForLeadership(r, k),
           NEW s \in Pending(k)
    PROVE  rows[s].stage = "LEADERSHIP" /\ rows[s].status = "PENDING" /\ s \in Submissions
  BY DEF RoutingInv, OnePending, assertReadyForLeadership, Pending, History

(* The rows stay in order. *)
LEMMA RowsNext ==
    ASSUME RoutingInv, [Next]_vars
    PROVE  \A s \in Submissions : RowOK(rows'[s])
  <1> SUFFICES ASSUME NEW t \in Submissions PROVE RowOK(rows'[t])
    OBVIOUS
  <1>0. RowOK(rows[t]) /\ rows[t] \in Row
    BY DEF RoutingInv, TypeOK
  <1>1. CASE UNCHANGED rows
    BY <1>0, <1>1
  <1>2. ASSUME NEW s \in Submissions, NEW p \in People, NEW k \in Keys, Submit(s, p, k)
        PROVE RowOK(rows'[t])
    <2>1. rows'[t] \in {rows[t], NewSubmission(p, k, subject'[k].version),
                        [rows[t] EXCEPT !.status = "CANCELLED", !.stage = "CLOSED"]}
      BY <1>2 DEF Submit, openApprovalSubmission
    <2> QED
      BY <2>1, <1>0, NewRowOK, CancelledRowOK
  <1>3. ASSUME NEW q \in Requests, advance(q) PROVE RowOK(rows'[t])
    <2> DEFINE s == req[q].sub
    <2>1. CASE t # s
      BY <1>0, <1>3, <2>1 DEF advance, RoutingInv, TypeOK
    <2>2. CASE t = s
      <3>1. req[q].phase = "locked" /\ Allowed(q)
        BY <1>3 DEF advance
      <3>2. rows'[t] = [rows[t] EXCEPT !.stage = NextStage(rows[t].stage),
                          !.steps = AddStep(rows[t], rows[t].stage,
                             IF rows[t].stage = "BOARD_REVIEW" THEN "FORWARD" ELSE "APPROVE",
                             req[q].actor, req[q].as)]
        <4>1. rows'[t] = [rows[t] EXCEPT !.stage = NextStage(req[q].stage),
                            !.steps = AddStep(rows[t], req[q].stage,
                               IF req[q].stage = "BOARD_REVIEW" THEN "FORWARD" ELSE "APPROVE",
                               req[q].actor, req[q].as)]
          BY <1>3, <2>2 DEF advance, RoutingInv, TypeOK
        <4>2. req[q].stage = rows[t].stage
          BY <2>2, <3>1, ReviewedRow
        <4> QED
          BY <4>1, <4>2
      <3> QED
        <4>1. /\ rows[t].status = "PENDING" /\ req[q].actor \in People /\ req[q].as \in Roles
              /\ req[q].actor # rows[t].submittedBy
              /\ \/ rows[t].stage = "BOARD_REVIEW" /\ req[q].as = BoardHead
                 \/ rows[t].stage = "HEAD_REVIEW" /\ req[q].as = DeptHead
          BY <2>2, <3>1, ReviewedRow
        <4>2. RowOK([rows[t] EXCEPT !.stage = NextStage(rows[t].stage),
                       !.steps = AddStep(rows[t], rows[t].stage,
                          IF rows[t].stage = "BOARD_REVIEW" THEN "FORWARD" ELSE "APPROVE",
                          req[q].actor, req[q].as)])
          BY <1>0, <4>1, AdvancedRowOK
        <4> QED
          BY <3>2, <4>2
    <2> QED
      BY <2>1, <2>2
  <1>4. ASSUME NEW q \in Requests, returnToStaff(q) PROVE RowOK(rows'[t])
    <2> DEFINE s == req[q].sub
    <2>1. CASE t # s
      BY <1>0, <1>4, <2>1 DEF returnToStaff, RoutingInv, TypeOK
    <2>2. CASE t = s
      <3>1. req[q].phase = "locked" /\ Allowed(q)
        BY <1>4 DEF returnToStaff
      <3>2. /\ rows'[t].status = "RETURNED" /\ rows'[t].stage = "CLOSED"
            /\ rows'[t].submittedBy = rows[t].submittedBy
            /\ rows'[t].steps = AddStep(rows[t], rows[t].stage, "RETURN", req[q].actor, req[q].as)
        <4>1. rows'[t] = [rows[t] EXCEPT !.stage = "CLOSED", !.status = "RETURNED",
                            !.steps = AddStep(rows[t], rows[t].stage, "RETURN",
                                              req[q].actor, req[q].as)]
          BY <1>4, <2>2, <3>1, ReviewedRow DEF returnToStaff, RoutingInv, TypeOK
        <4> QED
          BY <1>0, <4>1 DEF Row
      <3> QED
        BY <1>0, <2>2, <3>1, <3>2, ReviewedRow, ClosedRowOK
    <2> QED
      BY <2>1, <2>2
  <1>5. ASSUME NEW p \in People, NEW k \in Keys,
               NEW decision \in {"APPROVED", "REJECTED", "RETURNED"},
               NEW action \in {"APPROVE", "REJECT", "RETURN"}, NEW status,
               Decide(p, k, decision, action, status)
        PROVE RowOK(rows'[t])
    <2>1. CASE t \notin Pending(k)
      BY <1>0, <1>5, <2>1 DEF Decide, closeApprovalSubmission
    <2>2. CASE t \in Pending(k)
      <3>1. rows[t].stage = "LEADERSHIP" /\ rows[t].status = "PENDING"
        BY <1>5, <2>2, DecidedRow DEF Decide
      <3>2. /\ rows'[t].status = decision /\ rows'[t].stage = "CLOSED"
            /\ rows'[t].submittedBy = rows[t].submittedBy
            /\ rows'[t].steps = AddStep(rows[t], rows[t].stage, action, p, role[p])
        <4>1. rows'[t] = [rows[t] EXCEPT !.status = decision, !.stage = "CLOSED",
                            !.steps = AddStep(rows[t], "LEADERSHIP", action, p, role[p])]
          BY <1>5, <2>2 DEF Decide, closeApprovalSubmission
        <4> QED
          BY <1>0, <3>1, <4>1 DEF Row
      <3>3. role[p] \in Roles
        BY DEF RoutingInv, TypeOK
      <3> QED
        BY <1>0, <3>1, <3>2, <3>3, ClosedRowOK
    <2> QED
      BY <2>1, <2>2
  <1>6. ASSUME NEW p \in People, NEW k \in Keys,
               Approve(p, k) \/ Reject(p, k) \/ LeadershipReturn(p, k)
        PROVE RowOK(rows'[t])
    BY <1>5, <1>6 DEF Approve, Reject, LeadershipReturn
  <1> QED
    BY <1>1, <1>2, <1>3, <1>4, <1>6
       DEF Next, vars, ChangeRole, EditDraft, Arrive, lockPending, Refuse

(* A procedure keeps one submission in progress. *)
LEMMA OnePendingNext ==
    ASSUME RoutingInv, [Next]_vars
    PROVE  OnePending'
  <1> SUFFICES ASSUME NEW c \in Keys, NEW u \in Submissions, NEW v \in Submissions,
                      rows'[u].key = c, rows'[v].key = c,
                      rows'[u].status = "PENDING", rows'[v].status = "PENDING"
               PROVE  u = v
    BY DEF OnePending, Pending, History
  <1>0. /\ rows[u] \in Row /\ rows[v] \in Row
        /\ rows[u].key = c /\ rows[v].key = c
             /\ rows[u].status = "PENDING" /\ rows[v].status = "PENDING" => u = v
    BY DEF RoutingInv, OnePending, Pending, History, TypeOK
  <1>1. CASE UNCHANGED rows
    BY <1>0, <1>1
  <1>2. ASSUME NEW s \in Submissions, NEW p \in People, NEW k \in Keys, Submit(s, p, k)
        PROVE u = v
    <2>1. \A w \in Submissions :
            rows'[w] = IF w = s THEN NewSubmission(p, k, subject'[k].version)
                       ELSE IF w \in Pending(k)
                            THEN [rows[w] EXCEPT !.status = "CANCELLED", !.stage = "CLOSED"]
                            ELSE rows[w]
      BY <1>2 DEF Submit, openApprovalSubmission
    <2>2. NewSubmission(p, k, subject'[k].version).key = k
      BY DEF NewSubmission
    <2>3. \A w \in {u, v} : w # s => w \notin Pending(k) /\ rows'[w] = rows[w]
      BY <1>0, <2>1 DEF Row
    <2>4. \A w \in {u, v} : w # s => c # k
      BY <1>0, <2>3 DEF Pending, History
    <2> QED
      BY <1>0, <2>1, <2>2, <2>3, <2>4
  <1>3. ASSUME NEW q \in Requests, advance(q) PROVE u = v
    <2>1. \A w \in {u, v} : rows'[w].key = rows[w].key /\ rows'[w].status = rows[w].status
      <3> SUFFICES ASSUME NEW w \in {u, v}
                   PROVE rows'[w].key = rows[w].key /\ rows'[w].status = rows[w].status
        OBVIOUS
      <3>1. rows'[w] = rows[w] \/ \E a, b : rows'[w] = [rows[w] EXCEPT !.stage = a, !.steps = b]
        BY <1>3 DEF advance, RoutingInv, TypeOK
      <3> QED
        BY <1>0, <3>1 DEF Row
    <2> QED
      BY <1>0, <2>1
  <1>4. ASSUME NEW q \in Requests, returnToStaff(q) PROVE u = v
    <2>1. \A w \in {u, v} : rows'[w] = rows[w]
      <3> SUFFICES ASSUME NEW w \in {u, v} PROVE rows'[w] = rows[w]
        OBVIOUS
      <3>1. w = req[q].sub =>
              rows'[w] = [rows[w] EXCEPT !.stage = "CLOSED", !.status = "RETURNED",
                            !.steps = AddStep(rows[w], req[q].stage, "RETURN",
                                              req[q].actor, req[q].as)]
        BY <1>4 DEF returnToStaff, RoutingInv, TypeOK
      <3>2. w = req[q].sub => rows'[w].status = "RETURNED"
        BY <1>0, <3>1 DEF Row
      <3> QED
        BY <1>4, <3>2 DEF returnToStaff, RoutingInv, TypeOK
    <2> QED
      BY <1>0, <2>1
  <1>5. ASSUME NEW p \in People, NEW k \in Keys,
               NEW decision \in {"APPROVED", "REJECTED", "RETURNED"}, NEW action, NEW status,
               Decide(p, k, decision, action, status)
        PROVE u = v
    <2>1. \A w \in {u, v} : rows'[w] = rows[w]
      <3> SUFFICES ASSUME NEW w \in {u, v} PROVE rows'[w] = rows[w]
        OBVIOUS
      <3>1. w \in Pending(k) => 
              rows'[w] = [rows[w] EXCEPT !.status = decision, !.stage = "CLOSED",
                            !.steps = AddStep(rows[w], "LEADERSHIP", action, p, role[p])]
        BY <1>5 DEF Decide, closeApprovalSubmission
      <3>2. w \in Pending(k) => rows'[w].status = decision
        BY <1>0, <3>1 DEF Row
      <3> QED
        BY <1>5, <3>2 DEF Decide, closeApprovalSubmission
    <2> QED
      BY <1>0, <2>1
  <1>6. ASSUME NEW p \in People, NEW k \in Keys,
               Approve(p, k) \/ Reject(p, k) \/ LeadershipReturn(p, k)
        PROVE u = v
    BY <1>5, <1>6 DEF Approve, Reject, LeadershipReturn
  <1> QED
    BY <1>1, <1>2, <1>3, <1>4, <1>6
       DEF Next, vars, ChangeRole, EditDraft, Arrive, lockPending, Refuse

(* A row never disappears. *)
LEMMA PresentNext ==
    ASSUME RoutingInv, [Next]_vars, NEW t \in Submissions, rows[t].status # "ABSENT"
    PROVE  rows'[t].status # "ABSENT"
  <1>0. rows[t] \in Row
    BY DEF RoutingInv, TypeOK
  <1>1. ASSUME NEW s \in Submissions, NEW p \in People, NEW k \in Keys, Submit(s, p, k)
        PROVE rows'[t].status # "ABSENT"
    <2>1. rows'[t] \in {rows[t], NewSubmission(p, k, subject'[k].version),
                        [rows[t] EXCEPT !.status = "CANCELLED", !.stage = "CLOSED"]}
      BY <1>1 DEF Submit, openApprovalSubmission
    <2>2. NewSubmission(p, k, subject'[k].version).status = "PENDING"
      BY DEF NewSubmission
    <2>3. [rows[t] EXCEPT !.status = "CANCELLED", !.stage = "CLOSED"].status = "CANCELLED"
      BY <1>0 DEF Row
    <2> QED
      BY <2>1, <2>2, <2>3
  <1>2. ASSUME NEW q \in Requests, advance(q) PROVE rows'[t].status # "ABSENT"
    <2>1. rows'[t] = rows[t] \/ \E a, b : rows'[t] = [rows[t] EXCEPT !.stage = a, !.steps = b]
      BY <1>2 DEF advance, RoutingInv, TypeOK
    <2> QED
      BY <1>0, <2>1 DEF Row
  <1>3. ASSUME NEW q \in Requests, returnToStaff(q) PROVE rows'[t].status # "ABSENT"
    <2>1. \/ rows'[t] = rows[t]
          \/ \E b : rows'[t] = [rows[t] EXCEPT !.stage = "CLOSED", !.status = "RETURNED",
                                              !.steps = b]
      BY <1>3 DEF returnToStaff, RoutingInv, TypeOK
    <2> QED
      BY <1>0, <2>1 DEF Row
  <1>4. ASSUME NEW p \in People, NEW k \in Keys,
               NEW decision \in {"APPROVED", "REJECTED", "RETURNED"}, NEW action, NEW status,
               Decide(p, k, decision, action, status)
        PROVE rows'[t].status # "ABSENT"
    <2>1. \/ rows'[t] = rows[t]
          \/ \E b : rows'[t] = [rows[t] EXCEPT !.status = decision, !.stage = "CLOSED",
                                              !.steps = b]
      BY <1>4 DEF Decide, closeApprovalSubmission
    <2> QED
      BY <1>0, <2>1 DEF Row
  <1>5. ASSUME NEW p \in People, NEW k \in Keys,
               Approve(p, k) \/ Reject(p, k) \/ LeadershipReturn(p, k)
        PROVE rows'[t].status # "ABSENT"
    BY <1>4, <1>5 DEF Approve, Reject, LeadershipReturn
  <1> QED
    BY <1>1, <1>2, <1>3, <1>5 DEF Next, vars, ChangeRole, EditDraft, Arrive, lockPending, Refuse

(* A transaction that holds a row lock sees the row as it is. *)
LEMMA LocksNext ==
    ASSUME RoutingInv, [Next]_vars
    PROVE  LocksAgree'
  <1> DEFINE Present(q) == req[q].phase # "idle" => rows[req[q].sub].status # "ABSENT"
             Agrees(q) == /\ req[q].stage = rows[req[q].sub].stage
                          /\ req[q].status = rows[req[q].sub].status
             Alone(q) == \A r \in Requests :
                            req[r].phase = "locked" /\ req[r].sub = req[q].sub => r = q
  <1>0. /\ rows \in [Submissions -> Row] /\ req \in [Requests -> Request]
        /\ \A q \in Requests : req[q].sub \in Submissions
        /\ \A q \in Requests : Present(q)
        /\ \A q \in Requests : req[q].phase = "locked" => Agrees(q) /\ Alone(q)
    BY DEF RoutingInv, TypeOK, LocksAgree, Request
  <1>1. \A s \in Submissions : rows[s].status # "ABSENT" => rows'[s].status # "ABSENT"
    BY PresentNext
  (* Requests that stay as they are, on rows that change only when not locked by them. *)
  <1>2. ASSUME NEW q \in Requests, req'[q] = req[q],
               req[q].phase = "locked" => rows'[req[q].sub] = rows[req[q].sub]
        PROVE  Present(q)' /\ (req'[q].phase = "locked" => Agrees(q)')
    BY <1>0, <1>1, <1>2
  <1>3. ASSUME req' = req, \A s \in Submissions : Locked(s) => rows'[s] = rows[s]
        PROVE  LocksAgree'
    <2>1. \A q \in Requests : req[q].phase = "locked" => rows'[req[q].sub] = rows[req[q].sub]
      BY <1>0, <1>3 DEF Locked
    <2> QED
      BY <1>0, <1>2, <1>3, <2>1 DEF LocksAgree
  <1>4. ASSUME NEW s \in Submissions, NEW p \in People, NEW k \in Keys, Submit(s, p, k)
        PROVE LocksAgree'
    <2>1. ~Locked(s)
      BY <1>0, <1>4 DEF Submit, Locked
    <2>2. \A t \in Submissions : Locked(t) => rows'[t] = rows[t]
      BY <1>4, <2>1 DEF Submit, openApprovalSubmission
    <2> QED
      BY <1>3, <1>4, <2>2 DEF Submit
  <1>5. ASSUME NEW q \in Requests, NEW p \in People, NEW s \in Submissions,
               NEW op \in {"advance", "return"}, Arrive(q, p, s, op)
        PROVE LocksAgree'
    <2>1. /\ req'[q].phase = "arrived" /\ req'[q].sub = s
          /\ rows' = rows /\ rows[s].status # "ABSENT"
          /\ \A r \in Requests : r # q => req'[r] = req[r]
      BY <1>0, <1>5 DEF Arrive
    <2> QED
      BY <1>0, <2>1 DEF LocksAgree
  <1>6. ASSUME NEW q \in Requests, lockPending(q) PROVE LocksAgree'
    <2>1. /\ req'[q].sub = req[q].sub
          /\ req'[q].stage = rows[req[q].sub].stage
          /\ req'[q].status = rows[req[q].sub].status
          /\ rows' = rows
          /\ req[q].phase = "arrived"
          /\ \A r \in Requests : r # q => req'[r] = req[r]
      BY <1>0, <1>6 DEF lockPending, Request
    <2>2. \A r \in Requests : req[r].phase = "locked" => req[r].sub # req[q].sub
      BY <1>0, <1>6 DEF lockPending, Locked
    <2> QED
      BY <1>0, <2>1, <2>2 DEF LocksAgree
  <1>7. ASSUME NEW q \in Requests, req[q].phase = "locked", req' = [req EXCEPT ![q] = Idle],
               \A s \in Submissions \ {req[q].sub} : rows'[s] = rows[s]
        PROVE LocksAgree'
    <2>1. req'[q].phase = "idle" /\ \A r \in Requests : r # q => req'[r] = req[r]
      BY <1>0, <1>7 DEF Idle
    <2>2. \A r \in Requests : r # q /\ req[r].phase = "locked" => req[r].sub # req[q].sub
      BY <1>0, <1>7
    <2>3. \A r \in Requests : r # q /\ req[r].phase = "locked" => rows'[req[r].sub] = rows[req[r].sub]
      BY <1>0, <1>7, <2>2
    <2> QED
      BY <1>0, <1>1, <2>1, <2>3 DEF LocksAgree
  <1>8. ASSUME NEW q \in Requests, Refuse(q) \/ advance(q) \/ returnToStaff(q) PROVE LocksAgree'
    BY <1>0, <1>7, <1>8 DEF Refuse, advance, returnToStaff, Release
  <1>9. ASSUME NEW p \in People, NEW k \in Keys,
               NEW decision, NEW action, NEW status, Decide(p, k, decision, action, status)
        PROVE LocksAgree'
    <2>1. \A t \in Submissions : Locked(t) => rows'[t] = rows[t]
      BY <1>9 DEF Decide, closeApprovalSubmission
    <2> QED
      BY <1>3, <1>9, <2>1 DEF Decide
  <1>10. ASSUME NEW p \in People, NEW k \in Keys,
                Approve(p, k) \/ Reject(p, k) \/ LeadershipReturn(p, k)
         PROVE LocksAgree'
    BY <1>9, <1>10 DEF Approve, Reject, LeadershipReturn
  <1>11. CASE UNCHANGED <<rows, req>>
    BY <1>3, <1>11
  <1> QED
    BY <1>4, <1>5, <1>6, <1>8, <1>10, <1>11 DEF Next, vars, ChangeRole, EditDraft

-----------------------------------------------------------------------------
THEOREM RoutingInvariant == Spec => []RoutingInv
  <1>1. RoutingInv /\ [Next]_vars => RoutingInv'
    BY TypeNext, RowsNext, LocksNext, OnePendingNext DEF RoutingInv
  <1> QED
    BY <1>1, InvInit, PTL DEF Spec

(* A procedure never has two submissions in progress. *)
THEOREM OnePendingHolds == Spec => []OnePending
  <1>1. RoutingInv => OnePending
    BY DEF RoutingInv
  <1> QED
    BY <1>1, RoutingInvariant, PTL

(* No step of the route is skipped on the way to the leadership. *)
THEOREM RouteIsComplete == Spec => []RouteComplete
  <1>1. RoutingInv => RouteComplete
    BY DEF RoutingInv, RouteComplete, RowOK, Boarded, Endorsed
  <1> QED
    BY <1>1, RoutingInvariant, PTL

(* Nobody reviews what they submitted, whatever roles they held. *)
THEOREM NobodyReviewsOwn == Spec => []NoSelfReview
  <1>1. RoutingInv => NoSelfReview
    BY DEF RoutingInv, NoSelfReview, RowOK
  <1> QED
    BY <1>1, RoutingInvariant, PTL

(* A procedure is under one review at a time, and each stage of it is answered once. *)
THEOREM OneAnswerPerStage == Spec => []OneReviewAtATime
  <1>1. RoutingInv => OneReviewAtATime
    BY DEF RoutingInv, OneReviewAtATime, OneReviewPerStage, RowOK
  <1> QED
    BY <1>1, RoutingInvariant, PTL

-----------------------------------------------------------------------------
(* The submissions of a procedure and its business record.  Each lemma says what a kind *)
(* of action does to what a row is about: its procedure, its status and its content.     *)

Same(t) == /\ rows'[t].key = rows[t].key /\ rows'[t].content = rows[t].content
           /\ rows'[t].status = rows[t].status

LEMMA SubmitEffect ==
    ASSUME RoutingInv, NEW s \in Submissions, NEW p \in People, NEW k \in Keys, Submit(s, p, k)
    PROVE  /\ rows[s].status = "ABSENT"
           /\ rows'[s].key = k /\ rows'[s].status = "PENDING"
           /\ rows'[s].content = subject'[k].version
           /\ \A t \in Submissions \ {s} :
                 \/ t \notin Pending(k) /\ rows'[t] = rows[t]
                 \/ /\ t \in Pending(k)
                    /\ rows'[t].key = k /\ rows'[t].status = "CANCELLED"
  <1>0. rows \in [Submissions -> Row]
    BY DEF RoutingInv, TypeOK
  <1>1. \A t \in Submissions :
          rows'[t] = IF t = s THEN NewSubmission(p, k, subject'[k].version)
                     ELSE IF t \in Pending(k)
                          THEN [rows[t] EXCEPT !.status = "CANCELLED", !.stage = "CLOSED"]
                          ELSE rows[t]
    BY DEF Submit, openApprovalSubmission
  <1>2. ASSUME NEW t \in Submissions, t # s, t \in Pending(k)
        PROVE  rows'[t].key = k /\ rows'[t].status = "CANCELLED"
    <2>1. rows[t].key = k /\ rows[t] \in Row
      BY <1>0, <1>2 DEF Pending, History
    <2> QED
      BY <1>1, <1>2, <2>1 DEF Row
  <1>3. rows[s].status = "ABSENT"
    BY DEF Submit
  <1>4. rows'[s] = NewSubmission(p, k, subject'[k].version)
    BY <1>1
  <1>5. /\ rows'[s].key = k /\ rows'[s].status = "PENDING"
        /\ rows'[s].content = subject'[k].version
    BY <1>4 DEF NewSubmission
  <1>6. \A t \in Submissions \ {s} : t \notin Pending(k) => rows'[t] = rows[t]
    BY <1>1
  <1> QED
    BY <1>2, <1>3, <1>5, <1>6

LEMMA AdvanceEffect ==
    ASSUME RoutingInv, NEW q \in Requests, advance(q)
    PROVE  /\ \A t \in Submissions : Same(t)
           /\ req[q].sub \in Submissions /\ rows[req[q].sub].status = "PENDING"
           /\ \A t \in Submissions \ {req[q].sub} : rows'[t] = rows[t]
  <1>0. rows \in [Submissions -> Row] /\ req[q].sub \in Submissions
        /\ rows[req[q].sub].status = "PENDING"
    BY ReviewedRow DEF RoutingInv, TypeOK, advance
  <1>1. \A t \in Submissions :
          rows'[t] = rows[t] \/ \E a, b : rows'[t] = [rows[t] EXCEPT !.stage = a, !.steps = b]
    BY <1>0 DEF advance
  <1>2. \A t \in Submissions : Same(t)
    <2> SUFFICES ASSUME NEW t \in Submissions PROVE Same(t)
      OBVIOUS
    <2>1. CASE rows'[t] = rows[t]
      BY <2>1 DEF Same
    <2>2. ASSUME NEW a, NEW b, rows'[t] = [rows[t] EXCEPT !.stage = a, !.steps = b]
          PROVE  Same(t)
      BY <1>0, <2>2 DEF Same, Row
    <2> QED
      BY <1>1, <2>1, <2>2
  <1> QED
    BY <1>0, <1>2 DEF advance

LEMMA ReturnEffect ==
    ASSUME RoutingInv, NEW q \in Requests, returnToStaff(q)
    PROVE  /\ req[q].sub \in Submissions /\ rows[req[q].sub].status = "PENDING"
           /\ rows'[req[q].sub].status = "RETURNED"
           /\ rows'[req[q].sub].key = rows[req[q].sub].key
           /\ \A t \in Submissions \ {req[q].sub} : rows'[t] = rows[t]
  <1>0. rows \in [Submissions -> Row] /\ req[q].sub \in Submissions
        /\ rows[req[q].sub].status = "PENDING"
    BY ReviewedRow DEF RoutingInv, TypeOK, returnToStaff
  <1>1. \E b : rows'[req[q].sub] = [rows[req[q].sub] EXCEPT !.stage = "CLOSED",
                                        !.status = "RETURNED", !.steps = b]
    BY <1>0 DEF returnToStaff
  <1>2. rows'[req[q].sub].status = "RETURNED" /\ rows'[req[q].sub].key = rows[req[q].sub].key
    BY <1>0, <1>1 DEF Row
  <1> QED
    BY <1>0, <1>2 DEF returnToStaff

LEMMA DecideEffect ==
    ASSUME RoutingInv, NEW p \in People, NEW k \in Keys,
           NEW decision \in {"APPROVED", "REJECTED", "RETURNED"}, NEW action, NEW status,
           Decide(p, k, decision, action, status)
    PROVE  \A t \in Submissions :
              \/ t \notin Pending(k) /\ rows'[t] = rows[t]
              \/ /\ t \in Pending(k)
                 /\ rows'[t].key = k /\ rows'[t].status = decision
                 /\ rows'[t].content = rows[t].content
  <1> SUFFICES ASSUME NEW t \in Submissions, t \in Pending(k)
               PROVE  /\ rows'[t].key = k /\ rows'[t].status = decision
                      /\ rows'[t].content = rows[t].content
    BY DEF Decide, closeApprovalSubmission
  <1>1. rows[t] \in Row /\ rows[t].key = k
    BY DEF RoutingInv, TypeOK, Pending, History
  <1>2. \E b : rows'[t] = [rows[t] EXCEPT !.status = decision, !.stage = "CLOSED", !.steps = b]
    BY DEF Decide, closeApprovalSubmission
  <1> QED
    BY <1>1, <1>2 DEF Row

(* A finished row never changes. *)
LEMMA FinishedRowNext ==
    ASSUME RoutingInv, [Next]_vars, NEW t \in Submissions,
           rows[t].status \in {"APPROVED", "REJECTED", "RETURNED", "CANCELLED"}
    PROVE  rows'[t] = rows[t]
  <1>0. \A k \in Keys : t \notin Pending(k)
    BY DEF Pending
  <1>1. ASSUME NEW s \in Submissions, NEW p \in People, NEW k \in Keys, Submit(s, p, k)
        PROVE rows'[t] = rows[t]
    BY <1>0, <1>1, SubmitEffect
  <1>2. ASSUME NEW q \in Requests, advance(q) PROVE rows'[t] = rows[t]
    BY <1>2, AdvanceEffect
  <1>3. ASSUME NEW q \in Requests, returnToStaff(q) PROVE rows'[t] = rows[t]
    BY <1>3, ReturnEffect
  <1>4. ASSUME NEW p \in People, NEW k \in Keys,
               Approve(p, k) \/ Reject(p, k) \/ LeadershipReturn(p, k)
        PROVE rows'[t] = rows[t]
    BY <1>0, <1>4, DecideEffect DEF Approve, Reject, LeadershipReturn
  <1> QED
    BY <1>1, <1>2, <1>3, <1>4 DEF Next, vars, ChangeRole, EditDraft, Arrive, lockPending, Refuse

(* A submission that was answered for good and its steps are never touched again. *)
THEOREM FinishedRowsStay == Spec => ClosedStaysClosed
  <1>1. RoutingInv /\ [Next]_vars =>
          [\A s \in Submissions :
              rows[s].status \in {"APPROVED", "REJECTED", "RETURNED", "CANCELLED"} =>
                  rows'[s] = rows[s]]_vars
    BY FinishedRowNext
  <1> QED
    BY <1>1, RoutingInvariant, PTL DEF Spec, ClosedStaysClosed

(* The business record of a procedure and its submissions: while one is in progress the  *)
(* record is put up for approval with the content that was submitted.                     *)
RecordOK(k) ==
    /\ \A s \in Pending(k) :
          subject[k].status = "submitted" /\ rows[s].content = subject[k].version
    /\ k \notin Redraft /\ History(k) # {} /\ subject[k].status = "submitted" => Pending(k) # {}
    /\ subject[k].status = "approved" /\ History(k) # {} =>
          \E s \in History(k) :
              rows[s].status = "APPROVED" /\ rows[s].content = subject[k].version

RecordsInv == RoutingInv /\ \A k \in Keys : RecordOK(k)

(* What a step leaves alone: the record of k, and what its rows are about. *)
LEMMA RecordKept ==
    ASSUME NEW k \in Keys, RecordOK(k), subject'[k] = subject[k],
           \A t \in Submissions : Same(t)
    PROVE  RecordOK(k)'
  BY DEF RecordOK, Pending, History, Same

LEMMA RecordsInit == Init => \A k \in Keys : RecordOK(k)
  BY DEF Init, RecordOK, Pending, History, Absent

LEMMA SubmitRecord ==
    ASSUME RecordsInv, NEW c \in Keys,
           NEW s \in Submissions, NEW p \in People, NEW k \in Keys, Submit(s, p, k)
    PROVE  RecordOK(c)'
  <1>0. /\ rows \in [Submissions -> Row]
        /\ subject \in [Keys -> [status : SubjectStatuses, version : 1..MaxVersion]]
        /\ RecordOK(c)
    BY DEF RecordsInv, RoutingInv, TypeOK
  <1>1. /\ rows[s].status = "ABSENT"
        /\ rows'[s].key = k /\ rows'[s].status = "PENDING"
        /\ rows'[s].content = subject'[k].version
        /\ \A t \in Submissions \ {s} :
              \/ t \notin Pending(k) /\ rows'[t] = rows[t]
              \/ /\ t \in Pending(k)
                 /\ rows'[t].key = k /\ rows'[t].status = "CANCELLED"
    BY SubmitEffect DEF RecordsInv
  <1>2. subject'[k].status = "submitted"
    BY <1>0 DEF Submit
  <1>3. CASE c = k
    <2>1. Pending(k)' = {s}
      BY <1>1 DEF Pending, History
    <2> QED
      BY <1>1, <1>2, <1>3, <2>1 DEF RecordOK
  <1>4. CASE c # k
    <2>1. subject'[c] = subject[c]
      BY <1>0, <1>4 DEF Submit
    <2>2. \A t \in Submissions : rows[t].key = c /\ rows[t].status # "ABSENT" => rows'[t] = rows[t]
      BY <1>1, <1>4 DEF Pending, History
    <2>3. \A t \in Submissions :
             rows'[t].key = c /\ rows'[t].status # "ABSENT" => rows'[t] = rows[t]
      BY <1>1, <1>4
    <2>4. Pending(c)' = Pending(c) /\ History(c)' = History(c)
      BY <2>2, <2>3 DEF Pending, History
    <2>5. \A t \in History(c) : rows'[t] = rows[t]
      BY <2>2 DEF History
    <2> QED
      BY <1>0, <2>1, <2>4, <2>5 DEF RecordOK, Pending
  <1> QED
    BY <1>3, <1>4

LEMMA ReturnRecord ==
    ASSUME RecordsInv, NEW c \in Keys, NEW q \in Requests, returnToStaff(q)
    PROVE  RecordOK(c)'
  <1>0. /\ rows \in [Submissions -> Row]
        /\ subject \in [Keys -> [status : SubjectStatuses, version : 1..MaxVersion]]
        /\ RecordOK(c) /\ OnePending
    BY DEF RecordsInv, RoutingInv, TypeOK
  <1>a. PICK u \in Submissions : u = req[q].sub
    BY ReturnEffect DEF RecordsInv
  <1>2. PICK k \in Keys : k = rows[u].key
    BY <1>0 DEF Row
  <1>1. /\ u \in Submissions /\ rows[u].status = "PENDING"
        /\ rows'[u].status = "RETURNED"
        /\ rows'[u].key = k
        /\ \A t \in Submissions \ {u} : rows'[t] = rows[t]
    BY <1>a, <1>2, ReturnEffect DEF RecordsInv
  <1>3. u \in Pending(k)
    BY <1>1, <1>2 DEF Pending, History
  <1>4. revertOnReturn(k)
    BY <1>a, <1>2 DEF returnToStaff
  <1>5. CASE c = k
    <2>1. Pending(k)' = {}
      BY <1>0, <1>1, <1>2, <1>3 DEF OnePending, Pending, History
    <2>2. subject[k].status = "submitted"
      BY <1>0, <1>3, <1>5 DEF RecordOK
    <2>3. subject'[k].status # "approved"
          /\ (k \notin Redraft => subject'[k].status = "editable")
      BY <1>0, <1>2, <1>4, <2>2 DEF revertOnReturn
    <2> QED
      BY <1>5, <2>1, <2>3 DEF RecordOK
  <1>6. CASE c # k
    <2>1. subject'[c] = subject[c]
      BY <1>0, <1>2, <1>4, <1>6 DEF revertOnReturn
    <2>2. Pending(c)' = Pending(c) /\ History(c)' = History(c)
      BY <1>1, <1>3, <1>6 DEF Pending, History
    <2>3. \A t \in History(c) : rows'[t] = rows[t]
      BY <1>1, <1>3, <1>6 DEF Pending, History
    <2> QED
      BY <1>0, <2>1, <2>2, <2>3 DEF RecordOK, Pending
  <1> QED
    BY <1>5, <1>6

LEMMA DecideRecord ==
    ASSUME RecordsInv, NEW c \in Keys, NEW p \in People, NEW k \in Keys,
           NEW decision \in {"APPROVED", "REJECTED", "RETURNED"}, NEW action,
           NEW status \in {"approved", "rejected", "editable"},
           status = "approved" => decision = "APPROVED",
           Decide(p, k, decision, action, status)
    PROVE  RecordOK(c)'
  <1>0. /\ rows \in [Submissions -> Row]
        /\ subject \in [Keys -> [status : SubjectStatuses, version : 1..MaxVersion]]
        /\ RecordOK(c)
    BY DEF RecordsInv, RoutingInv, TypeOK
  <1>1. \A t \in Submissions :
           \/ t \notin Pending(k) /\ rows'[t] = rows[t]
           \/ /\ t \in Pending(k)
              /\ rows'[t].key = k /\ rows'[t].status = decision
              /\ rows'[t].content = rows[t].content
    BY DecideEffect DEF RecordsInv
  <1>2. /\ subject'[k].status = status /\ subject'[k].version = subject[k].version
        /\ \A e \in Keys : e # k => subject'[e] = subject[e]
    BY <1>0 DEF Decide
  <1>3. CASE c = k
    <2>1. Pending(k)' = {}
      BY <1>1 DEF Pending, History
    <2>2. status = "approved" /\ History(k)' # {} =>
             \E s \in History(k)' :
                 rows'[s].status = "APPROVED" /\ rows'[s].content = subject'[k].version
      <3>1. CASE Pending(k) = {}
        <4>1. History(k) = {}
          BY <3>1 DEF Decide, assertReadyForLeadership
        <4>2. History(k)' = {}
          BY <1>1, <3>1, <4>1 DEF History
        <4> QED
          BY <4>2
      <3>2. CASE Pending(k) # {}
        <4>1. PICK s \in Pending(k) : TRUE
          BY <3>2
        <4>2. s \in Submissions /\ rows[s].content = subject[k].version
          BY <1>0, <1>3, <4>1 DEF RecordOK, Pending, History
        <4>3. rows'[s].key = k /\ rows'[s].status = decision
              /\ rows'[s].content = subject'[k].version
          BY <1>1, <1>2, <4>1, <4>2
        <4> QED
          BY <4>2, <4>3 DEF History
      <3> QED
        BY <3>1, <3>2
    <2> QED
      BY <1>2, <1>3, <2>1, <2>2 DEF RecordOK
  <1>4. CASE c # k
    <2>1. \A t \in Submissions : rows[t].key = c => rows'[t] = rows[t]
      BY <1>1, <1>4 DEF Pending, History
    <2>2. \A t \in Submissions : rows'[t].key = c => rows'[t] = rows[t]
      BY <1>1, <1>4
    <2>3. Pending(c)' = Pending(c) /\ History(c)' = History(c)
      BY <2>1, <2>2 DEF Pending, History
    <2>4. \A t \in History(c) : rows'[t] = rows[t]
      BY <2>1 DEF History
    <2> QED
      BY <1>0, <1>2, <1>4, <2>3, <2>4 DEF RecordOK, Pending
  <1> QED
    BY <1>3, <1>4

LEMMA RecordsNext ==
    ASSUME RecordsInv, [Next]_vars, NEW c \in Keys
    PROVE  RecordOK(c)'
  <1>0. /\ rows \in [Submissions -> Row]
        /\ subject \in [Keys -> [status : SubjectStatuses, version : 1..MaxVersion]]
        /\ RecordOK(c)
    BY DEF RecordsInv, RoutingInv, TypeOK
  <1>1. CASE UNCHANGED <<subject, rows>>
    BY <1>0, <1>1, RecordKept DEF Same
  <1>2. ASSUME NEW k \in Keys, EditDraft(k) PROVE RecordOK(c)'
    <2>1. CASE c = k
      <3>1. subject[c].status = "editable" /\ subject'[c].status = "editable"
        BY <1>0, <1>2, <2>1 DEF EditDraft
      <3>2. Pending(c)' = {}
        BY <1>0, <1>2, <3>1 DEF RecordOK, EditDraft, Pending, History
      <3> QED
        BY <3>1, <3>2 DEF RecordOK
    <2>2. CASE c # k
      <3>1. subject'[c] = subject[c] /\ rows' = rows
        BY <1>0, <1>2, <2>2 DEF EditDraft
      <3> QED
        BY <1>0, <3>1, RecordKept DEF Same
    <2> QED
      BY <2>1, <2>2
  <1>3. ASSUME NEW s \in Submissions, NEW p \in People, NEW k \in Keys, Submit(s, p, k)
        PROVE RecordOK(c)'
    BY <1>3, SubmitRecord
  <1>4. ASSUME NEW q \in Requests, advance(q) PROVE RecordOK(c)'
    <2>1. \A t \in Submissions : Same(t)
      BY <1>4, AdvanceEffect DEF RecordsInv
    <2>2. subject' = subject
      BY <1>4 DEF advance
    <2> QED
      BY <1>0, <2>1, <2>2, RecordKept
  <1>5. ASSUME NEW q \in Requests, returnToStaff(q) PROVE RecordOK(c)'
    BY <1>5, ReturnRecord
  <1>6. ASSUME NEW p \in People, NEW k \in Keys, Approve(p, k) PROVE RecordOK(c)'
    BY <1>6, DecideRecord DEF Approve
  <1>7. ASSUME NEW p \in People, NEW k \in Keys, Reject(p, k) PROVE RecordOK(c)'
    BY <1>7, DecideRecord DEF Reject
  <1>8. ASSUME NEW p \in People, NEW k \in Keys, LeadershipReturn(p, k) PROVE RecordOK(c)'
    BY <1>8, DecideRecord DEF LeadershipReturn
  <1> QED
    BY <1>1, <1>2, <1>3, <1>4, <1>5, <1>6, <1>7, <1>8
       DEF Next, vars, ChangeRole, Arrive, lockPending, Refuse

THEOREM RecordsInvariant == Spec => []RecordsInv
  <1>1. Init => RecordsInv
    BY InvInit, RecordsInit DEF RecordsInv
  <1>2. RecordsInv /\ [Next]_vars => RecordsInv'
    <2>1. RoutingInv /\ [Next]_vars => RoutingInv'
      BY TypeNext, RowsNext, LocksNext, OnePendingNext DEF RoutingInv
    <2> QED
      BY <2>1, RecordsNext DEF RecordsInv
  <1> QED
    BY <1>1, <1>2, PTL DEF Spec

(* A routed procedure is closed to its drafter exactly while a submission is in progress. *)
THEOREM ClosedWhileUnderReview == Spec => []LockedIffPending
  <1>1. RecordsInv => LockedIffPending
    BY DEF RecordsInv, RecordOK, LockedIffPending, Pending
  <1> QED
    BY <1>1, RecordsInvariant, PTL

(* What the leadership approved is what was reviewed. *)
THEOREM ReviewedContentIsSigned == Spec => []SignedAsReviewed
  <1>1. RecordsInv => SignedAsReviewed
    BY DEF RecordsInv, RecordOK, SignedAsReviewed
  <1> QED
    BY <1>1, RecordsInvariant, PTL

-----------------------------------------------------------------------------
(* Whoever is asked to review a submission is there.  With roles that do not change, what *)
(* waits at the board head's stage was submitted by somebody else, since a board head's    *)
(* own submissions begin at the department head; so one board head is enough.              *)
BoardNotOwn(s) ==
    rows[s].status = "PENDING" /\ rows[s].stage = "BOARD_REVIEW"
        => InitialRole[rows[s].submittedBy] # BoardHead

TurnInv == RecordsInv /\ role = InitialRole /\ \A s \in Submissions : BoardNotOwn(s)

LEMMA TurnInit == Init => TurnInv
  <1> SUFFICES ASSUME Init PROVE TurnInv
    OBVIOUS
  <1>1. RecordsInv /\ role = InitialRole
    BY InvInit, RecordsInit DEF RecordsInv, Init
  <1>2. \A s \in Submissions : rows[s].status = "ABSENT"
    BY DEF Init, Absent
  <1> QED
    BY <1>1, <1>2 DEF TurnInv, BoardNotOwn

(* A row that a step leaves out of the board head's stage, or leaves alone, stays so. *)
LEMMA BoardNotOwnKept ==
    ASSUME NEW s \in Submissions, BoardNotOwn(s),
           rows'[s] = rows[s] \/ rows'[s].status # "PENDING" \/ rows'[s].stage # "BOARD_REVIEW"
    PROVE  BoardNotOwn(s)'
  BY DEF BoardNotOwn

LEMMA AdvancedStage ==
    ASSUME RoutingInv, NEW q \in Requests, advance(q)
    PROVE  rows'[req[q].sub].stage # "BOARD_REVIEW"
  <1>1. rows \in [Submissions -> Row] /\ req[q].sub \in Submissions
    BY ReviewedRow DEF RoutingInv, TypeOK, advance
  <1>2. \E b : rows'[req[q].sub] = [rows[req[q].sub] EXCEPT !.stage = NextStage(req[q].stage), !.steps = b]
    BY <1>1 DEF advance
  <1>3. rows'[req[q].sub].stage = NextStage(req[q].stage)
    BY <1>1, <1>2 DEF Row
  <1> QED
    BY <1>3 DEF NextStage

LEMMA TurnNext ==
    ASSUME TurnInv, MaxRoleChanges = 0, [Next]_vars
    PROVE  TurnInv'
  <1>0. RecordsInv /\ RoutingInv /\ role = InitialRole /\ \A s \in Submissions : BoardNotOwn(s)
    BY DEF TurnInv, RecordsInv
  <1>1. RecordsInv'
    <2>1. RoutingInv'
      BY <1>0, TypeNext, RowsNext, LocksNext, OnePendingNext DEF RoutingInv
    <2> QED
      BY <1>0, <2>1, RecordsNext DEF RecordsInv
  <1>2. roleChanges = 0
    BY <1>0 DEF RoutingInv, TypeOK
  <1>3. role' = role
    <2>1. ASSUME NEW p \in People, NEW r \in Roles, ChangeRole(p, r) PROVE FALSE
      BY <1>2, <2>1 DEF ChangeRole
    <2> QED
      BY <2>1 DEF Next, vars, EditDraft, Submit, Arrive, lockPending, Refuse, advance, returnToStaff,
         Approve, Reject, LeadershipReturn, Decide
  <1>4. \A s \in Submissions : BoardNotOwn(s)'
    <2> SUFFICES ASSUME NEW t \in Submissions PROVE BoardNotOwn(t)'
      OBVIOUS
    <2>1. ASSUME NEW s \in Submissions, NEW p \in People, NEW k \in Keys, Submit(s, p, k)
          PROVE  BoardNotOwn(t)'
      <3>1. CASE t = s
        <4>1. rows'[t] = NewSubmission(p, k, subject'[k].version)
          BY <2>1, <3>1 DEF Submit, openApprovalSubmission
        <4>2. rows'[t].submittedBy = p /\ (rows'[t].stage = "BOARD_REVIEW" => role[p] # BoardHead)
          BY <4>1 DEF NewSubmission
        <4> QED
          BY <1>0, <4>2 DEF BoardNotOwn
      <3>2. CASE t # s
        BY <1>0, <2>1, <3>2, SubmitEffect, BoardNotOwnKept
      <3> QED
        BY <3>1, <3>2
    <2>2. ASSUME NEW q \in Requests, advance(q) PROVE BoardNotOwn(t)'
      BY <1>0, <2>2, AdvanceEffect, AdvancedStage, BoardNotOwnKept
    <2>3. ASSUME NEW q \in Requests, returnToStaff(q) PROVE BoardNotOwn(t)'
      BY <1>0, <2>3, ReturnEffect, BoardNotOwnKept
    <2>4. ASSUME NEW p \in People, NEW k \in Keys,
                 Approve(p, k) \/ Reject(p, k) \/ LeadershipReturn(p, k)
          PROVE  BoardNotOwn(t)'
      BY <1>0, <2>4, DecideEffect, BoardNotOwnKept DEF Approve, Reject, LeadershipReturn
    <2>5. CASE rows' = rows
      BY <1>0, <2>5, BoardNotOwnKept
    <2> QED
      BY <2>1, <2>2, <2>3, <2>4, <2>5 DEF Next, vars, ChangeRole, EditDraft, Arrive, lockPending, Refuse
  <1> QED
    BY <1>0, <1>1, <1>3, <1>4 DEF TurnInv

(* Where everybody is at their post, somebody may act on what is put up for approval. *)
LEMMA TurnSound ==
    ASSUME TurnInv, Staffed
    PROVE  SomebodysTurn
  <1> SUFFICES ASSUME NEW k \in Keys, subject[k].status = "submitted",
                      ~(k \in Redraft /\ Pending(k) = {})
               PROVE  \/ \E s \in Pending(k), p \in People : Reviewer(p, s)
                      \/ \E p \in People : canSignApproval(role[p], k) /\ assertReadyForLeadership(role[p], k)
    BY DEF SomebodysTurn
  <1>0. /\ role = InitialRole /\ RecordOK(k) /\ OnePending /\ InScope \subseteq People
        /\ \A s \in Submissions : RowOK(rows[s]) /\ BoardNotOwn(s) /\ rows[s] \in Row
    BY PeopleAssumption DEF TurnInv, RecordsInv, RoutingInv, TypeOK
  <1>1. PICK d \in People : role[d] = Director
    BY <1>0 DEF Staffed
  <1>2. CASE Pending(k) = {}
    <2>1. History(k) = {}
      BY <1>0, <1>2 DEF RecordOK
    <2> QED
      BY <1>1, <1>2, <2>1 DEF canSignApproval, assertReadyForLeadership
  <1>3. ASSUME NEW s \in Pending(k)
        PROVE  \/ \E p \in People : Reviewer(p, s)
               \/ \E p \in People : canSignApproval(role[p], k) /\ assertReadyForLeadership(role[p], k)
    <2>1. /\ s \in Submissions /\ rows[s].status = "PENDING"
          /\ rows[s].stage \in {"BOARD_REVIEW", "HEAD_REVIEW", "LEADERSHIP"}
      BY <1>0 DEF Pending, History, RowOK, Row, Stages
    <2>2. CASE rows[s].stage = "BOARD_REVIEW"
      <3>1. PICK b \in InScope : role[b] = BoardHead
        BY <1>0 DEF Staffed
      <3>2. Reviewer(b, s)
        BY <1>0, <2>1, <2>2, <3>1 DEF Reviewer, BoardNotOwn
      <3> QED
        BY <1>0, <3>1, <3>2
    <2>3. CASE rows[s].stage = "HEAD_REVIEW"
      <3>1. PICK h \in InScope : role[h] = DeptHead /\ h # rows[s].submittedBy
        BY <1>0 DEF Staffed
      <3>2. Reviewer(h, s)
        BY <2>1, <2>3, <3>1 DEF Reviewer
      <3> QED
        BY <1>0, <3>1, <3>2
    <2>4. CASE rows[s].stage = "LEADERSHIP"
      BY <1>1, <2>4 DEF canSignApproval, assertReadyForLeadership
    <2> QED
      BY <2>1, <2>2, <2>3, <2>4
  <1> QED
    BY <1>2, <1>3

(* With persons for every stage nothing that is put up for approval waits for nobody, for *)
(* any number of procedures, submissions, persons and requests under way.                  *)
THEOREM SomebodysTurnHolds == Spec => []SomebodysTurn
  <1>1. CASE Staffed
    <2>1. MaxRoleChanges = 0
      BY <1>1 DEF Staffed
    <2>2. TurnInv /\ [Next]_vars => TurnInv'
      BY <2>1, TurnNext
    <2>3. TurnInv => SomebodysTurn
      BY <1>1, TurnSound
    <2> QED
      BY <2>2, <2>3, TurnInit, PTL DEF Spec
  <1>2. CASE ~Staffed
    <2>1. SomebodysTurn
      BY <1>2 DEF SomebodysTurn
    <2> QED
      BY <2>1, PTL
  <1> QED
    BY <1>1, <1>2

-----------------------------------------------------------------------------
(* The rows implement the procedure.  PhaseTable reads the phase of a procedure off its   *)
(* record and its submissions, where the records agree with the submissions.              *)
PhaseTable ==
    \A k \in Keys :
        /\ subject[k].status \in {"approved", "rejected"} => phase[k] = subject[k].status
        /\ \A s \in Pending(k) : phase[k] = rows[s].stage /\ phase[k] \in Abstract!UnderReview
        /\ subject[k].status = "submitted" /\ History(k) = {} => phase[k] = "LEADERSHIP"
        /\ subject[k].status = "editable" => phase[k] = "drafting"
        /\ subject[k].status = "submitted" /\ History(k) # {} /\ Pending(k) = {} =>
              phase[k] = "drafting"

LEMMA PhaseIs == RecordsInv => PhaseTable
  <1> SUFFICES ASSUME RecordsInv, NEW k \in Keys
               PROVE
        /\ subject[k].status \in {"approved", "rejected"} => phase[k] = subject[k].status
        /\ \A s \in Pending(k) : phase[k] = rows[s].stage /\ phase[k] \in Abstract!UnderReview
        /\ subject[k].status = "submitted" /\ History(k) = {} => phase[k] = "LEADERSHIP"
        /\ subject[k].status = "editable" => phase[k] = "drafting"
        /\ subject[k].status = "submitted" /\ History(k) # {} /\ Pending(k) = {} =>
              phase[k] = "drafting"
    BY DEF PhaseTable
  <1> DEFINE the == CHOOSE s \in Pending(k) : TRUE
  <1>1. phase[k] = CASE subject[k].status \in {"approved", "rejected"} -> subject[k].status
                     [] subject[k].status \in {"editable", "submitted"} /\ Pending(k) # {} ->
                            rows[the].stage
                     [] subject[k].status = "submitted" /\ History(k) = {} -> "LEADERSHIP"
                     [] OTHER -> "drafting"
    BY DEF phase
  <1>2. Pending(k) \subseteq History(k) /\ History(k) \subseteq Submissions
    BY DEF Pending, History
  <1>3. \A s \in Pending(k) : /\ subject[k].status = "submitted"
                              /\ \A t \in Pending(k) : s = t
    BY DEF RecordsInv, RecordOK, RoutingInv, OnePending
  <1>4. \A s \in Pending(k) : the = s
    <2> SUFFICES ASSUME NEW s \in Pending(k) PROVE the = s
      OBVIOUS
    <2>1. the \in Pending(k)
      OBVIOUS
    <2> QED
      BY <1>3, <2>1
  <1>5. \A s \in Pending(k) : rows[s].stage \in Abstract!UnderReview
    BY <1>2 DEF RecordsInv, RoutingInv, TypeOK, RowOK, Row, Stages, Pending, Abstract!UnderReview
  <1> HIDE DEF the
  <1>6. ASSUME subject[k].status \in {"approved", "rejected"} PROVE phase[k] = subject[k].status
    BY <1>1, <1>6
  <1>7. ASSUME NEW s \in Pending(k) PROVE phase[k] = rows[s].stage
    <2>1. /\ subject[k].status \notin {"approved", "rejected"}
          /\ subject[k].status \in {"editable", "submitted"} /\ Pending(k) # {}
      BY <1>3, <1>7
    <2>2. ~(subject[k].status = "submitted" /\ History(k) = {})
      BY <1>2, <1>7
    <2>3. phase[k] = rows[the].stage
      BY <1>1, <2>1, <2>2
    <2> QED
      BY <1>4, <1>7, <2>3
  <1>8. ASSUME subject[k].status = "submitted", History(k) = {} PROVE phase[k] = "LEADERSHIP"
    BY <1>1, <1>2, <1>8
  <1>9. ASSUME subject[k].status = "editable" PROVE phase[k] = "drafting"
    <2>1. Pending(k) = {}
      BY <1>3, <1>9
    <2> QED
      BY <1>1, <1>9, <2>1
  <1>10. ASSUME subject[k].status = "submitted", History(k) # {}, Pending(k) = {}
         PROVE  phase[k] = "drafting"
    BY <1>1, <1>10
  <1> QED
    BY <1>5, <1>6, <1>7, <1>8, <1>9, <1>10

LEMMA PhaseIsNext == RecordsInv' => PhaseTable'
  BY PhaseIs, PTL

(* A procedure whose record keeps its status and whose rows do not change keeps its phase. *)
LEMMA PhaseKept ==
    ASSUME PhaseTable, PhaseTable', TypeOK, NEW c \in Keys, subject'[c].status = subject[c].status,
           \A t \in Submissions : t \in History(c) \/ t \in History(c)' => rows'[t] = rows[t]
    PROVE  phase'[c] = phase[c]
  <1>1. History(c)' = History(c) /\ Pending(c)' = Pending(c)
    BY DEF History, Pending
  <1>2. \A t \in Pending(c) : rows'[t] = rows[t]
    BY DEF History, Pending
  <1>3. subject[c].status \in SubjectStatuses
    BY DEF TypeOK
  <1>4. CASE Pending(c) # {}
    <2>1. PICK s \in Pending(c) : TRUE
      BY <1>4
    <2> QED
      BY <1>1, <1>2, <2>1 DEF PhaseTable
  <1>5. CASE Pending(c) = {}
    BY <1>1, <1>3, <1>5 DEF PhaseTable, SubjectStatuses
  <1> QED
    BY <1>4, <1>5

(* One procedure moves, the others keep their phases. *)
LEMMA PhaseMoved ==
    ASSUME NEW k \in Keys, NEW to, phase'[k] = to,
           \A c \in Keys \ {k} : phase'[c] = phase[c]
    PROVE  phase' = [phase EXCEPT ![k] = to]
  <1>1. phase = [c \in Keys |-> phase[c]] /\ phase' = [c \in Keys |-> phase'[c]]
    BY DEF phase
  <1> HIDE DEF phase
  <1> QED
    BY <1>1

LEMMA SamePhases ==
    ASSUME \A c \in Keys : phase'[c] = phase[c]
    PROVE  phase' = phase
  <1>1. phase = [c \in Keys |-> phase[c]] /\ phase' = [c \in Keys |-> phase'[c]]
    BY DEF phase
  <1> QED
    BY <1>1

LEMMA SubmitMoves ==
    ASSUME RecordsInv, PhaseTable, PhaseTable',
           NEW s \in Submissions, NEW p \in People, NEW k \in Keys, Submit(s, p, k)
    PROVE  Abstract!Submit(k)
  <1>0. /\ rows \in [Submissions -> Row] /\ TypeOK
        /\ subject \in [Keys -> [status : SubjectStatuses, version : 1..MaxVersion]]
    BY DEF RecordsInv, RoutingInv, TypeOK
  <1>1. /\ rows[s].status = "ABSENT"
        /\ rows'[s].key = k /\ rows'[s].status = "PENDING"
        /\ \A t \in Submissions \ {s} :
              \/ t \notin Pending(k) /\ rows'[t] = rows[t]
              \/ /\ t \in Pending(k)
                 /\ rows'[t].key = k /\ rows'[t].status = "CANCELLED"
    BY SubmitEffect DEF RecordsInv
  <1>2. rows'[s].stage \in {"BOARD_REVIEW", "HEAD_REVIEW"}
    BY <1>0 DEF Submit, openApprovalSubmission, NewSubmission
  <1>3. s \in Pending(k)'
    BY <1>1 DEF Pending, History
  <1>4. phase'[k] \in {"BOARD_REVIEW", "HEAD_REVIEW"}
    BY <1>2, <1>3 DEF PhaseTable
  <1>5. \A c \in Keys \ {k} : phase'[c] = phase[c]
    <2> SUFFICES ASSUME NEW c \in Keys \ {k} PROVE phase'[c] = phase[c]
      OBVIOUS
    <2>1. subject'[c] = subject[c]
      BY <1>0 DEF Submit
    <2>2. \A t \in Submissions : t \in History(c) \/ t \in History(c)' => rows'[t] = rows[t]
      BY <1>1 DEF Pending, History
    <2> QED
      BY <1>0, <2>1, <2>2, PhaseKept
  <1>6. phase[k] \in {"drafting"} \cup (IF k \in Redraft THEN Abstract!UnderReview ELSE {})
    <2>1. CASE subject[k].status = "editable"
      BY <2>1 DEF PhaseTable
    <2>2. CASE k \in Redraft /\ subject[k].status = "submitted"
      <3>1. CASE Pending(k) # {}
        BY <2>2, <3>1 DEF PhaseTable
      <3>2. CASE Pending(k) = {}
        BY <2>2, <3>2 DEF PhaseTable, Abstract!UnderReview
      <3> QED
        BY <3>1, <3>2
    <2> QED
      BY <2>1, <2>2 DEF Submit
  <1>7. phase' = [phase EXCEPT ![k] = phase'[k]]
    BY <1>5, PhaseMoved
  <1> QED
    BY <1>4, <1>6, <1>7 DEF Abstract!Submit, Abstract!Move

LEMMA AdvanceMoves ==
    ASSUME RecordsInv, PhaseTable, PhaseTable', NEW q \in Requests, advance(q)
    PROVE  \E k \in Keys : Abstract!Forward(k) \/ Abstract!Endorse(k)
  <1>0. /\ rows \in [Submissions -> Row] /\ TypeOK /\ RoutingInv
    BY DEF RecordsInv, RoutingInv, TypeOK
  <1>a. PICK u \in Submissions : u = req[q].sub
    BY <1>0, AdvanceEffect
  <1>b. PICK k \in Keys : k = rows[u].key
    BY <1>0 DEF Row
  <1>1. /\ rows[u].status = "PENDING" /\ rows[u].stage = req[q].stage
        /\ rows[u].stage \in {"BOARD_REVIEW", "HEAD_REVIEW"}
    BY <1>0, <1>a, ReviewedRow DEF advance, Allowed, assertStageActor
  <1>2. \A t \in Submissions \ {u} : rows'[t] = rows[t]
    BY <1>0, <1>a, AdvanceEffect
  <1>3. rows'[u].stage = NextStage(rows[u].stage)
    <2>1. \E b : rows'[u] = [rows[u] EXCEPT !.stage = NextStage(req[q].stage), !.steps = b]
      BY <1>0, <1>a DEF advance
    <2> QED
      BY <1>0, <1>1, <2>1 DEF Row
  <1>4. rows'[u].key = k /\ rows'[u].status = "PENDING"
    BY <1>0, <1>a, <1>b, <1>1, AdvanceEffect DEF Same
  <1>5. u \in Pending(k) /\ u \in Pending(k)'
    BY <1>b, <1>1, <1>4 DEF Pending, History
  <1>6. phase[k] = rows[u].stage /\ phase'[k] = NextStage(rows[u].stage)
    BY <1>3, <1>5 DEF PhaseTable
  <1>7. \A c \in Keys \ {k} : phase'[c] = phase[c]
    <2> SUFFICES ASSUME NEW c \in Keys \ {k} PROVE phase'[c] = phase[c]
      OBVIOUS
    <2>1. subject' = subject
      BY DEF advance
    <2>2. \A t \in Submissions : t \in History(c) \/ t \in History(c)' => rows'[t] = rows[t]
      BY <1>b, <1>2, <1>4 DEF History
    <2> QED
      BY <1>0, <2>1, <2>2, PhaseKept
  <1>8. CASE rows[u].stage = "BOARD_REVIEW"
    <2>1. phase' = [phase EXCEPT ![k] = "HEAD_REVIEW"]
      BY <1>6, <1>7, <1>8, PhaseMoved DEF NextStage
    <2> QED
      BY <1>6, <1>8, <2>1 DEF Abstract!Forward, Abstract!Move
  <1>9. CASE rows[u].stage = "HEAD_REVIEW"
    <2>1. phase' = [phase EXCEPT ![k] = "LEADERSHIP"]
      BY <1>6, <1>7, <1>9, PhaseMoved DEF NextStage
    <2> QED
      BY <1>6, <1>9, <2>1 DEF Abstract!Endorse, Abstract!Move
  <1> QED
    BY <1>1, <1>8, <1>9

LEMMA ReturnMoves ==
    ASSUME RecordsInv, PhaseTable, PhaseTable', NEW q \in Requests, returnToStaff(q)
    PROVE  \E k \in Keys : Abstract!SendBack(k)
  <1>0. /\ rows \in [Submissions -> Row] /\ TypeOK /\ RoutingInv
        /\ subject \in [Keys -> [status : SubjectStatuses, version : 1..MaxVersion]]
    BY DEF RecordsInv, RoutingInv, TypeOK
  <1>a. PICK u \in Submissions : u = req[q].sub
    BY <1>0, ReturnEffect
  <1>b. PICK k \in Keys : k = rows[u].key
    BY <1>0 DEF Row
  <1>1. /\ rows[u].status = "PENDING"
        /\ rows'[u].status = "RETURNED" /\ rows'[u].key = k
        /\ \A t \in Submissions \ {u} : rows'[t] = rows[t]
    BY <1>0, <1>a, <1>b, ReturnEffect
  <1>2. revertOnReturn(k)
    BY <1>a, <1>b DEF returnToStaff
  <1>3. u \in Pending(k) /\ u \in History(k)'
    BY <1>b, <1>1 DEF Pending, History
  <1>4. phase[k] \in Abstract!UnderReview
    BY <1>3 DEF PhaseTable
  <1>5. phase'[k] = "drafting"
    <2>1. Pending(k)' = {}
      BY <1>0, <1>b, <1>1, <1>3 DEF RoutingInv, OnePending, Pending, History
    <2>2. subject[k].status = "submitted"
      BY <1>3 DEF RecordsInv, RecordOK
    <2>3. subject'[k].status \in {"submitted", "editable"}
      BY <1>0, <1>2, <2>2 DEF revertOnReturn
    <2> QED
      BY <1>3, <2>1, <2>3 DEF PhaseTable
  <1>6. \A c \in Keys \ {k} : phase'[c] = phase[c]
    <2> SUFFICES ASSUME NEW c \in Keys \ {k} PROVE phase'[c] = phase[c]
      OBVIOUS
    <2>1. subject'[c] = subject[c]
      BY <1>0, <1>2 DEF revertOnReturn
    <2>2. \A t \in Submissions : t \in History(c) \/ t \in History(c)' => rows'[t] = rows[t]
      BY <1>b, <1>1 DEF History
    <2> QED
      BY <1>0, <2>1, <2>2, PhaseKept
  <1>7. phase' = [phase EXCEPT ![k] = "drafting"]
    BY <1>5, <1>6, PhaseMoved
  <1> QED
    BY <1>4, <1>7 DEF Abstract!SendBack, Abstract!Move

(* The leadership decides on what is with the leadership. *)
LEMMA DecideMoves ==
    ASSUME RecordsInv, PhaseTable, PhaseTable', NEW p \in People, NEW k \in Keys,
           NEW decision \in {"APPROVED", "REJECTED", "RETURNED"}, NEW action,
           NEW status \in {"approved", "rejected", "editable"},
           Decide(p, k, decision, action, status)
    PROVE  Abstract!Approve(k) \/ Abstract!Refuse(k) \/ Abstract!SendBack(k)
  <1>0. /\ rows \in [Submissions -> Row] /\ TypeOK /\ RoutingInv
        /\ subject \in [Keys -> [status : SubjectStatuses, version : 1..MaxVersion]]
    BY DEF RecordsInv, RoutingInv, TypeOK
  <1>1. \A t \in Submissions :
           \/ t \notin Pending(k) /\ rows'[t] = rows[t]
           \/ t \in Pending(k) /\ rows'[t].key = k /\ rows'[t].status = decision
    BY DecideEffect DEF RecordsInv
  <1>2. /\ subject'[k].status = status
        /\ \A c \in Keys \ {k} : subject'[c] = subject[c]
    BY <1>0 DEF Decide
  <1>3. phase[k] = "LEADERSHIP"
    <2>1. CASE Pending(k) # {}
      <3>1. \E s \in Pending(k) : rows[s].stage = "LEADERSHIP"
        BY <2>1 DEF Decide, assertReadyForLeadership
      <3> QED
        BY <3>1 DEF PhaseTable
    <2>2. CASE Pending(k) = {}
      <3>1. History(k) = {} /\ subject[k].status = "submitted"
        BY <2>2 DEF Decide, assertReadyForLeadership
      <3> QED
        BY <3>1 DEF PhaseTable
    <2> QED
      BY <2>1, <2>2
  <1>4. phase'[k] = IF status = "editable" THEN "drafting" ELSE status
    BY <1>2 DEF PhaseTable
  <1>5. \A c \in Keys \ {k} : phase'[c] = phase[c]
    <2> SUFFICES ASSUME NEW c \in Keys \ {k} PROVE phase'[c] = phase[c]
      OBVIOUS
    <2>1. \A t \in Submissions : t \in History(c) \/ t \in History(c)' => rows'[t] = rows[t]
      BY <1>1 DEF Pending, History
    <2> QED
      BY <1>0, <1>2, <2>1, PhaseKept
  <1>6. phase' = [phase EXCEPT ![k] = phase'[k]]
    BY <1>5, PhaseMoved
  <1>7. CASE status = "approved"
    BY <1>3, <1>4, <1>6, <1>7 DEF Abstract!Approve, Abstract!Move
  <1>8. CASE status = "rejected"
    BY <1>3, <1>4, <1>6, <1>8 DEF Abstract!Refuse, Abstract!Move
  <1>9. CASE status = "editable"
    BY <1>3, <1>4, <1>6, <1>9 DEF Abstract!SendBack, Abstract!Move, Abstract!UnderReview
  <1> QED
    BY <1>7, <1>8, <1>9

LEMMA EditKeepsPhases ==
    ASSUME RecordsInv, PhaseTable, PhaseTable', NEW k \in Keys, EditDraft(k)
    PROVE  phase' = phase
  <1>0. TypeOK /\ subject \in [Keys -> [status : SubjectStatuses, version : 1..MaxVersion]]
    BY DEF RecordsInv, RoutingInv, TypeOK
  <1>1. rows' = rows /\ \A c \in Keys : subject'[c].status = subject[c].status
    BY <1>0 DEF EditDraft
  <1>2. \A c \in Keys : phase'[c] = phase[c]
    BY <1>0, <1>1, PhaseKept
  <1> QED
    BY <1>2, SamePhases

(* Every step of the rows is one legal move of one procedure, or none. *)
LEMMA StepMoves == RecordsInv /\ RecordsInv' /\ [Next]_vars => [Abstract!Next]_phase
  <1> SUFFICES ASSUME RecordsInv, RecordsInv', [Next]_vars PROVE [Abstract!Next]_phase
    OBVIOUS
  <1>0. PhaseTable /\ PhaseTable'
    BY PhaseIs, PhaseIsNext
  <1>1. CASE UNCHANGED <<subject, rows>>
    <2>1. phase' = phase
      BY <1>1 DEF phase, Pending, History
    <2> QED
      BY <2>1
  <1>2. ASSUME NEW k \in Keys, EditDraft(k) PROVE [Abstract!Next]_phase
    BY <1>0, <1>2, EditKeepsPhases
  <1>3. ASSUME NEW s \in Submissions, NEW p \in People, NEW k \in Keys, Submit(s, p, k)
        PROVE [Abstract!Next]_phase
    BY <1>0, <1>3, SubmitMoves DEF Abstract!Next
  <1>4. ASSUME NEW q \in Requests, advance(q) PROVE [Abstract!Next]_phase
    BY <1>0, <1>4, AdvanceMoves DEF Abstract!Next
  <1>5. ASSUME NEW q \in Requests, returnToStaff(q) PROVE [Abstract!Next]_phase
    BY <1>0, <1>5, ReturnMoves DEF Abstract!Next
  <1>6. ASSUME NEW p \in People, NEW k \in Keys, NEW status \in {"approved", "rejected", "editable"},
               NEW decision \in {"APPROVED", "REJECTED", "RETURNED"}, NEW action,
               Decide(p, k, decision, action, status)
        PROVE [Abstract!Next]_phase
    BY <1>0, <1>6, DecideMoves DEF Abstract!Next
  <1>7. ASSUME NEW p \in People, NEW k \in Keys,
               Approve(p, k) \/ Reject(p, k) \/ LeadershipReturn(p, k)
        PROVE [Abstract!Next]_phase
    <2>1. CASE Approve(p, k)
      BY <1>6, <2>1 DEF Approve
    <2>2. CASE Reject(p, k)
      BY <1>6, <2>2 DEF Reject
    <2>3. CASE LeadershipReturn(p, k)
      BY <1>6, <2>3 DEF LeadershipReturn
    <2> QED
      BY <1>7, <2>1, <2>2, <2>3
  <1> QED
    BY <1>1, <1>2, <1>3, <1>4, <1>5, <1>7
       DEF Next, vars, ChangeRole, Arrive, lockPending, Refuse

LEMMA InitPhases == Init => Abstract!Init
  <1> SUFFICES ASSUME Init PROVE Abstract!Init
    OBVIOUS
  <1>1. PhaseTable
    BY InvInit, RecordsInit, PhaseIs DEF RecordsInv
  <1>2. \A k \in Keys : History(k) = {} /\ Pending(k) = {}
    BY DEF Init, History, Pending, Absent
  <1>3. \A k \in Keys : subject[k].status = IF k \in Legacy THEN "submitted" ELSE "editable"
    BY DEF Init
  <1>4. \A k \in Keys : phase[k] = IF k \in Legacy THEN "LEADERSHIP" ELSE "drafting"
    BY <1>1, <1>2, <1>3 DEF PhaseTable
  <1>5. phase = [k \in Keys |-> phase[k]]
    BY DEF phase
  <1> HIDE DEF phase
  <1> QED
    BY <1>4, <1>5 DEF Abstract!Init

(* The rows implement the procedure: no step of it is skipped, a return at any step leads *)
(* back to the drafter, and the leadership decides on nothing but what is with it.         *)
THEOREM ProcedureImplemented == Spec => ImplementsProcedure
  <1>1. RecordsInv /\ RecordsInv' /\ [Next]_vars => [Abstract!Next]_phase
    BY StepMoves
  <1> QED
    BY <1>1, InitPhases, RecordsInvariant, PTL DEF Spec, ImplementsProcedure, Abstract!Spec
=============================================================================
