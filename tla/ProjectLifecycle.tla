-------------------------- MODULE ProjectLifecycle --------------------------
(***************************************************************************)
(* One approved project, from its set-up to its closure: the officer and   *)
(* the team, progress reports, the request for an adjustment or an         *)
(* extension and its approval route, the products and their expert panels, *)
(* the acceptance rounds, the superior level, the finance and the          *)
(* liquidation.                                                            *)
(*                                                                         *)
(* Every handler runs inside ApprovedProjectsService.mutate: the project   *)
(* row is locked, the context version the client sends must be the one in  *)
(* the row, and the transaction is serializable.  So a handler is one      *)
(* action; a client with an old version is refused and changes nothing.    *)
(* The version itself is kept as what the handlers use it for: a request   *)
(* is `current' while the project's aggregate and relationship versions    *)
(* are those recorded with it.                                             *)
(***************************************************************************)
EXTENDS Integers, Sequences, FiniteSets

CONSTANTS
    People,       \* persons with an account, the principal investigator (PI) left out
    Staff,        \* research management staff with the host unit in their scope
    Assigners,    \* department head and research board head
    Leaders,      \* leadership that decides requests and councils
    Directors,    \* the one of them that approves a liquidation
    Experts,      \* persons whose profile may be put on a panel or a council
    Evaluators,   \* persons who had a review to do on the source proposal
    Founders,     \* the team of the approved submission, without the PI
    Products,     \* rows of the product list
    Checkpoints,  \* reporting checkpoints of the one milestone
    Reports,      \* rows of project_report_revisions
    Amounts,      \* sums of money
    Changes,      \* contents an adjustment or an extension may have
    MaxRounds,    \* bound on the acceptance rounds
    None          \* no officer

ChangeOps == {"extend", "plan", "level", "add", "end"}

ASSUME LifecycleAssumption ==
    /\ Staff \subseteq People /\ Assigners \subseteq People /\ Leaders \subseteq People
    /\ Directors \subseteq Leaders
    /\ Experts \subseteq People /\ Evaluators \subseteq People
    /\ Founders \subseteq People \ Evaluators
    /\ Amounts \subseteq Nat /\ 0 \in Amounts
    /\ MaxRounds \in Nat
    /\ Changes \subseteq [op : ChangeOps, person : People \cup {None}]
    /\ \A c \in Changes : c.op \in {"add", "end"} => c.person \in People
    /\ None \notin People

VARIABLES
    project,      \* status; whether its level needs the superior acceptance
    officer,      \* management officer in charge
    members,      \* active team besides the PI
    team,         \* everyone who is or was on the team
    checkpoint,   \* status of each checkpoint
    reports,      \* report revisions
    request,      \* the latest adjustment or extension request
    route,        \* stage of the latest approval submission of each procedure
    products,     \* status of each product, with the panel that looks at it
    rounds,       \* acceptance rounds
    superior,     \* superior acceptance
    finance,      \* totals disbursed and settled
    liquidation   \* liquidation record

vars == <<project, officer, members, team, checkpoint, reports, request, route, products, rounds,
          superior, finance, liquidation>>

people == <<officer, members, team>>
work == <<checkpoint, reports>>
closure == <<rounds, superior, finance, liquidation>>

-----------------------------------------------------------------------------
Statuses == {"preparing", "executing", "pending_acceptance", "pending_superior_acceptance",
             "accepted", "failed", "closed"}
ReportStatuses == {"none", "draft", "submitted", "under_review", "supplement_requested", "accepted"}
RequestStatuses == {"none", "draft", "submitted", "under_staff_review", "under_staff_validation",
                    "supplement_requested", "ready_for_head_decision", "approved", "rejected"}
ProductStatuses == {"ABSENT", "PLANNED", "SUBMITTED", "UNDER_REVIEW", "PASSED", "FAILED"}
RoundStatuses == {"SUBMITTED", "RETURNED", "COUNCIL_PROPOSED", "COUNCIL_ESTABLISHED",
                  "REVISION_REQUIRED", "REVISION_SUBMITTED", "PASSED", "FAILED"}
SuperiorStatuses == {"none", "PREPARING", "SENT", "PASSED", "FAILED"}
Kinds == {"REQUEST", "ACCEPTANCE_COUNCIL", "LIQUIDATION"}
Pending == {"BOARD_REVIEW", "HEAD_REVIEW", "LEADERSHIP"}
Stages == {"NONE", "CLOSED"} \cup Pending

\* Fault: a request the leadership has is not counted as open.
OpenRequestStatuses_NotReady == {"submitted", "under_staff_review", "under_staff_validation", "supplement_requested"}

OpenRequestStatuses == RequestStatuses \ {"none", "draft", "approved", "rejected"}
PendingReportStatuses == {"submitted", "under_review"}
ClosedRoundStatuses == {"RETURNED", "PASSED", "FAILED"}

NoChange == [op |-> "none", person |-> None]
Request == [status : RequestStatuses, change : Changes \cup {NoChange}, current : BOOLEAN]
Round == [status : RoundStatuses, council : SUBSET Experts]
Liquidation == [status : {"none", "DRAFT", "APPROVED"}, disbursed : Amounts, settled : Amounts, recovered : Amounts]

Init ==
    /\ project \in [status : {"preparing"}, needsSuperior : BOOLEAN]
    /\ officer = None
    /\ members = Founders
    /\ team = Founders
    /\ checkpoint = [c \in Checkpoints |-> "none"]
    /\ reports = [r \in Reports |-> [status |-> "none", checkpoint |-> None]]
    /\ request = [status |-> "none", change |-> NoChange, current |-> FALSE]
    /\ route = [k \in Kinds |-> "NONE"]
    /\ products = [p \in Products |-> [status |-> "ABSENT", panel |-> {}]]
    /\ rounds = <<>>
    /\ superior = [status |-> "none", complete |-> FALSE]
    /\ finance = [disbursed |-> 0, settled |-> 0]
    /\ liquidation = [status |-> "none", disbursed |-> 0, settled |-> 0, recovered |-> 0]

-----------------------------------------------------------------------------
(* Guards shared by the handlers *)

\* Every write but the request and report steps and the finance raises a version of the project.
Bump == request' = [request EXCEPT !.current = FALSE]

\* assertOfficer: the officer in charge, not on the team, without a review of the proposal.
AssertOfficer == officer # None /\ officer \notin members \cup Evaluators

\* The PI writes reports and requests while the project is carried out.
AssertPi == project.status = "executing"

Independent(p) == p \notin members \cup Evaluators

\* Fault: a project the Academy has accepted is liquidated before the superior level has spoken.
Concluded_BeforeSuperior == project.status \in {"accepted", "failed", "pending_superior_acceptance"}

Concluded == project.status \in {"accepted", "failed"}
SetStatus(s) == project' = [project EXCEPT !.status = s]

\* assertReadyForLeadership: a submission waits for the leadership, or there never was one.
AssertReadyForLeadership(k) == route[k] \in {"LEADERSHIP", "NONE"}
\* Fault: a changed proposal keeps the place of the one before it.
OpenSubmission_Once(k) == route' = [route EXCEPT ![k] = IF @ \in Pending THEN @ ELSE "BOARD_REVIEW"]

OpenSubmission(k) == route' = [route EXCEPT ![k] = "BOARD_REVIEW"]
CloseSubmission(k) == route' = [route EXCEPT ![k] = IF @ \in Pending THEN "CLOSED" ELSE @]

LastRound == rounds[Len(rounds)]
CurrentRound(allowed) == rounds # <<>> /\ LastRound.status \in allowed
SetRound(r) == rounds' = [rounds EXCEPT ![Len(rounds)] = r]
SetRoundStatus(s) == SetRound([LastRound EXCEPT !.status = s])
OpenAcceptanceRound == rounds # <<>> /\ LastRound.status \notin ClosedRoundStatuses
OpenRequest == request.status \in OpenRequestStatuses

-----------------------------------------------------------------------------
(* Set-up and officer *)

assignOfficer(a, p) ==
    /\ a \in Assigners /\ Independent(a)
    /\ p \in Staff /\ Independent(p)
    /\ officer' = p
    /\ Bump
    /\ UNCHANGED <<project, members, team, work, route, products, closure>>

revokeOfficer(a) ==
    /\ a \in Assigners /\ Independent(a)
    /\ officer # None
    /\ officer' = None
    /\ Bump
    /\ UNCHANGED <<project, members, team, work, route, products, closure>>

configureSetup ==
    /\ project.status = "preparing"
    /\ AssertOfficer
    /\ \A c \in Checkpoints : checkpoint[c] = "none"
    /\ checkpoint' = [c \in Checkpoints |-> "open"]
    /\ Bump
    /\ UNCHANGED <<project, people, reports, route, products, closure>>

confirmSetup ==
    /\ project.status = "preparing"
    /\ AssertOfficer
    /\ \A c \in Checkpoints : checkpoint[c] # "none"
    /\ SetStatus("executing")
    /\ Bump
    /\ UNCHANGED <<people, work, route, products, closure>>

-----------------------------------------------------------------------------
(* Progress reports.  All reports are of one reporting period, so that two  *)
(* reports on the same checkpoint overlap.                                  *)

ReportUnchanged == UNCHANGED <<people, project, route, products, closure>>
SetReport(r, s) == reports' = [reports EXCEPT ![r].status = s]

CheckpointUsable(c) == c # None => checkpoint[c] = "open"
Overlaps(r, c) == \E q \in Reports \ {r} :
    reports[q].checkpoint = c /\ reports[q].status \notin {"none", "supplement_requested"}

createReportDraft(r, c) ==
    /\ AssertPi
    /\ reports[r].status = "none"
    /\ CheckpointUsable(c) /\ ~Overlaps(r, c)
    /\ reports' = [reports EXCEPT ![r] = [status |-> "draft", checkpoint |-> c]]
    /\ UNCHANGED <<checkpoint, request>> /\ ReportUnchanged

\* A draft is changed in place; after a request for more the new text is a new revision.
updateReportDraft(r, q, c) ==
    /\ AssertPi
    /\ \/ reports[r].status = "draft" /\ q = r
       \/ reports[r].status = "supplement_requested" /\ reports[q].status = "none"
    /\ c = None => reports[r].checkpoint = None
    /\ CheckpointUsable(c) /\ ~Overlaps(r, c)
    /\ reports' = [reports EXCEPT ![q] = [status |-> "draft", checkpoint |-> c]]
    /\ UNCHANGED <<checkpoint, request>> /\ ReportUnchanged

submitReport(r) ==
    /\ AssertPi
    /\ reports[r].status = "draft"
    /\ CheckpointUsable(reports[r].checkpoint) /\ ~Overlaps(r, reports[r].checkpoint)
    /\ SetReport(r, "submitted")
    /\ UNCHANGED <<checkpoint, request>> /\ ReportUnchanged

reviewReport(r) ==
    /\ AssertOfficer
    /\ reports[r].status = "submitted"
    /\ SetReport(r, "under_review")
    /\ UNCHANGED <<checkpoint, request>> /\ ReportUnchanged

requestReportSupplement(r) ==
    /\ AssertOfficer
    /\ reports[r].status \in PendingReportStatuses
    /\ SetReport(r, "supplement_requested")
    /\ UNCHANGED <<checkpoint, request>> /\ ReportUnchanged

acceptReport(r) ==
    /\ AssertOfficer
    /\ reports[r].status = "under_review"
    /\ SetReport(r, "accepted")
    /\ LET c == reports[r].checkpoint
       IN IF c = None
          THEN UNCHANGED <<checkpoint, request>>
          ELSE checkpoint' = [checkpoint EXCEPT ![c] = "completed"] /\ Bump
    /\ ReportUnchanged

-----------------------------------------------------------------------------
(* Adjustment and extension requests *)

RequestUnchanged == UNCHANGED <<work, products, closure>>
SetRequest(s) == request' = [request EXCEPT !.status = s]

\* Where the officer works on it: adjustments are reviewed, extensions validated.
StaffStatus == IF request.change.op = "extend" THEN "under_staff_validation" ELSE "under_staff_review"

createRequest(c) ==
    /\ AssertPi
    /\ request.status \in {"none", "approved", "rejected"}
    /\ request' = [status |-> "draft", change |-> c, current |-> TRUE]
    /\ route' = [route EXCEPT !["REQUEST"] = "NONE"]
    /\ UNCHANGED <<project, people>> /\ RequestUnchanged

\* The type of a request stays, its content and the versions it was written for do not.
editRequestDraft(c) ==
    /\ AssertPi
    /\ request.status \in {"draft", "supplement_requested"}
    /\ (c.op = "extend") <=> (request.change.op = "extend")
    /\ request' = [status |-> "draft", change |-> c, current |-> TRUE]
    /\ UNCHANGED <<project, people, route>> /\ RequestUnchanged

submitRequest ==
    /\ AssertPi
    /\ request.status = "draft"
    /\ request.current
    /\ SetRequest("submitted")
    /\ UNCHANGED <<project, people, route>> /\ RequestUnchanged

\* reviewAdjustment, validateExtension
reviewRequest ==
    /\ AssertOfficer
    /\ request.status = "submitted"
    /\ SetRequest(StaffStatus)
    /\ UNCHANGED <<project, people, route>> /\ RequestUnchanged

\* Before it is put forward the officer asks for more, afterwards a leader it has reached.
requestSupplement(d) ==
    /\ \/ /\ request.status \in {"submitted", StaffStatus}
          /\ AssertOfficer
          /\ UNCHANGED route
       \/ /\ request.status = "ready_for_head_decision"
          /\ d \in Leaders /\ Independent(d)
          /\ AssertReadyForLeadership("REQUEST")
          /\ CloseSubmission("REQUEST")
    /\ SetRequest("supplement_requested")
    /\ UNCHANGED <<project, people>> /\ RequestUnchanged

\* prepareAdjustment, prepareExtension
prepareRequest ==
    /\ AssertOfficer
    /\ request.status = StaffStatus
    /\ SetRequest("ready_for_head_decision")
    /\ OpenSubmission("REQUEST")
    /\ UNCHANGED <<project, people>> /\ RequestUnchanged

\* Fault: the officer may join the team.
MayJoin_Officer(p) == p \notin members \cup Evaluators

\* Who may join: not on the team, not the officer, no review of the proposal.
MayJoin(p) == p \notin members \cup {officer} \cup Evaluators

ApplyChange(c) ==
    CASE c.op = "add" -> /\ MayJoin(c.person)
                         /\ members' = members \cup {c.person} /\ team' = team \cup {c.person}
                         /\ UNCHANGED project
      [] c.op = "end" -> /\ c.person \in members
                         /\ members' = members \ {c.person}
                         /\ UNCHANGED <<team, project>>
      [] c.op = "level" -> /\ project' = [project EXCEPT !.needsSuperior = ~@]
                           /\ UNCHANGED <<members, team>>
      [] OTHER -> UNCHANGED <<members, team, project>>

AssertDecider(d) ==
    /\ request.status = "ready_for_head_decision"
    /\ d \in Leaders /\ Independent(d)
    /\ AssertReadyForLeadership("REQUEST")
    /\ request.current

approveRequest(d) ==
    /\ AssertDecider(d)
    /\ ApplyChange(request.change)
    /\ request' = [request EXCEPT !.status = "approved", !.current = FALSE]
    /\ CloseSubmission("REQUEST")
    /\ UNCHANGED officer /\ RequestUnchanged

rejectRequest(d) ==
    /\ AssertDecider(d)
    /\ SetRequest("rejected")
    /\ CloseSubmission("REQUEST")
    /\ UNCHANGED <<project, people>> /\ RequestUnchanged

\* Board head, then department head.
advance(k) ==
    /\ route[k] \in {"BOARD_REVIEW", "HEAD_REVIEW"}
    /\ route' = [route EXCEPT ![k] = IF @ = "BOARD_REVIEW" THEN "HEAD_REVIEW" ELSE "LEADERSHIP"]
    /\ UNCHANGED <<project, people, request>> /\ RequestUnchanged

\* The request goes back to the officer; a council or a liquidation stays a draft.
revertOnReturn(k) ==
    IF k = "REQUEST" /\ request.status = "ready_for_head_decision" THEN SetRequest(StaffStatus) ELSE UNCHANGED request

returnToStaff(k) ==
    /\ route[k] \in {"BOARD_REVIEW", "HEAD_REVIEW"}
    /\ CloseSubmission(k)
    /\ revertOnReturn(k)
    /\ UNCHANGED <<project, people>> /\ RequestUnchanged

-----------------------------------------------------------------------------
(* Products and expert panels *)

ProductUnchanged == UNCHANGED <<project, people, work, route, closure>>
SetProduct(p, s, panel) == products' = [products EXCEPT ![p] = [status |-> s, panel |-> panel]]

\* Products already handed in stay on the list; the others come and go.
saveProducts(planned) ==
    /\ AssertOfficer
    /\ project.status \in {"preparing", "executing"}
    /\ \A p \in planned : products[p].status \in {"ABSENT", "PLANNED"}
    /\ products' = [p \in Products |->
         IF products[p].status \in {"ABSENT", "PLANNED"}
         THEN [products[p] EXCEPT !.status = IF p \in planned THEN "PLANNED" ELSE "ABSENT"]
         ELSE products[p]]
    /\ Bump /\ ProductUnchanged

submitProduct(p) ==
    /\ AssertPi
    /\ products[p].status \in {"PLANNED", "FAILED", "SUBMITTED"}
    /\ SetProduct(p, "SUBMITTED", {})
    /\ Bump /\ ProductUnchanged

\* A panel has three to five seats; persons without an account may take the others.
formProductPanel(p, panel) ==
    /\ AssertOfficer /\ project.status = "executing"
    /\ products[p].status = "SUBMITTED"
    /\ panel \cap team = {}
    /\ SetProduct(p, "UNDER_REVIEW", panel)
    /\ Bump /\ ProductUnchanged

recordProductReview(p, result) ==
    /\ AssertOfficer /\ project.status = "executing"
    /\ products[p].status = "UNDER_REVIEW"
    /\ SetProduct(p, result, {})
    /\ Bump /\ ProductUnchanged

-----------------------------------------------------------------------------
(* Acceptance rounds *)

RoundUnchanged == UNCHANGED <<people, work, products, finance, liquidation>>

AllProductsPassed == /\ \E p \in Products : products[p].status # "ABSENT"
                     /\ \A p \in Products : products[p].status \in {"ABSENT", "PASSED"}

submitAcceptance ==
    /\ AssertPi
    /\ ~OpenAcceptanceRound
    /\ AllProductsPassed
    /\ ~OpenRequest
    /\ \A r \in Reports : reports[r].status \notin PendingReportStatuses
    /\ Len(rounds) < MaxRounds
    /\ rounds' = Append(rounds, [status |-> "SUBMITTED", council |-> {}])
    /\ SetStatus("pending_acceptance")
    /\ route' = [route EXCEPT !["ACCEPTANCE_COUNCIL"] = "NONE"]
    /\ Bump
    /\ UNCHANGED superior /\ RoundUnchanged

returnAcceptance ==
    /\ AssertOfficer /\ project.status = "pending_acceptance" /\ CurrentRound({"SUBMITTED"})
    /\ SetRoundStatus("RETURNED")
    /\ SetStatus("executing")
    /\ Bump
    /\ UNCHANGED <<route, superior>> /\ RoundUnchanged

\* Fault: only the present team is kept off the council.
proposeCouncil_PresentTeam(council) ==
    /\ AssertOfficer /\ project.status = "pending_acceptance"
    /\ CurrentRound({"SUBMITTED", "COUNCIL_PROPOSED"})
    /\ council \cap members = {}
    /\ SetRound([status |-> "COUNCIL_PROPOSED", council |-> council])
    /\ OpenSubmission("ACCEPTANCE_COUNCIL")
    /\ Bump
    /\ UNCHANGED <<project, superior>> /\ RoundUnchanged

\* Nobody who is or was on the team; persons without an account take the other seats.
proposeCouncil(council) ==
    /\ AssertOfficer /\ project.status = "pending_acceptance"
    /\ CurrentRound({"SUBMITTED", "COUNCIL_PROPOSED"})
    /\ council \cap team = {}
    /\ SetRound([status |-> "COUNCIL_PROPOSED", council |-> council])
    /\ OpenSubmission("ACCEPTANCE_COUNCIL")
    /\ Bump
    /\ UNCHANGED <<project, superior>> /\ RoundUnchanged

establishCouncil(d) ==
    /\ d \in Leaders /\ Independent(d)
    /\ project.status = "pending_acceptance" /\ CurrentRound({"COUNCIL_PROPOSED"})
    /\ AssertReadyForLeadership("ACCEPTANCE_COUNCIL")
    /\ SetRoundStatus("COUNCIL_ESTABLISHED")
    /\ CloseSubmission("ACCEPTANCE_COUNCIL")
    /\ Bump
    /\ UNCHANGED <<project, superior>> /\ RoundUnchanged

\* Fault: the superior level is forgotten.
concludeFacilityAcceptance_NoSuperior == SetStatus("accepted") /\ UNCHANGED superior

\* The Academy's council has passed the project; the superior level may have to.
concludeFacilityAcceptance ==
    IF project.needsSuperior
    THEN SetStatus("pending_superior_acceptance") /\ superior' = [superior EXCEPT !.status = "PREPARING"]
    ELSE SetStatus("accepted") /\ UNCHANGED superior

recordMinutes(result) ==
    /\ AssertOfficer /\ project.status = "pending_acceptance" /\ CurrentRound({"COUNCIL_ESTABLISHED"})
    /\ SetRoundStatus(result)
    /\ CASE result = "PASSED" -> concludeFacilityAcceptance
         [] result = "FAILED" -> SetStatus("failed") /\ UNCHANGED superior
         [] result = "REVISION_REQUIRED" -> UNCHANGED <<project, superior>>
    /\ Bump
    /\ UNCHANGED route /\ RoundUnchanged

submitRevision ==
    /\ project.status = "pending_acceptance" /\ CurrentRound({"REVISION_REQUIRED"})
    /\ SetRoundStatus("REVISION_SUBMITTED")
    /\ Bump
    /\ UNCHANGED <<project, route, superior>> /\ RoundUnchanged

confirmRevision(accept) ==
    /\ AssertOfficer /\ project.status = "pending_acceptance" /\ CurrentRound({"REVISION_SUBMITTED"})
    /\ IF accept
       THEN SetRoundStatus("PASSED") /\ concludeFacilityAcceptance
       ELSE SetRoundStatus("REVISION_REQUIRED") /\ UNCHANGED <<project, superior>>
    /\ Bump
    /\ UNCHANGED route /\ RoundUnchanged

-----------------------------------------------------------------------------
(* Superior level *)

SuperiorUnchanged == UNCHANGED <<rounds, route>> /\ RoundUnchanged

saveSuperiorDossier(complete) ==
    /\ AssertOfficer /\ project.status = "pending_superior_acceptance" /\ superior.status = "PREPARING"
    /\ superior' = [superior EXCEPT !.complete = complete]
    /\ Bump
    /\ UNCHANGED project /\ SuperiorUnchanged

sendSuperiorRequest ==
    /\ AssertOfficer /\ project.status = "pending_superior_acceptance" /\ superior.status = "PREPARING"
    /\ superior.complete
    /\ superior' = [superior EXCEPT !.status = "SENT"]
    /\ Bump
    /\ UNCHANGED project /\ SuperiorUnchanged

recordSuperiorResult(result) ==
    /\ AssertOfficer /\ project.status = "pending_superior_acceptance" /\ superior.status = "SENT"
    /\ superior' = [superior EXCEPT !.status = result]
    /\ SetStatus(IF result = "PASSED" THEN "accepted" ELSE "failed")
    /\ Bump
    /\ SuperiorUnchanged

-----------------------------------------------------------------------------
(* Finance, liquidation and closure *)

MoneyUnchanged == UNCHANGED <<people, work, products, rounds, superior>>

\* Fault: the finance of an approved liquidation may still be corrected.
updateFinance_Approved(a, disbursed, settled) ==
    /\ a \in (Directors \cup Assigners \cup {officer}) \ (members \cup {None})
    /\ project.status # "closed"
    /\ finance' = [disbursed |-> disbursed, settled |-> settled]
    /\ UNCHANGED <<project, request, route, liquidation>> /\ MoneyUnchanged

\* Director, heads and the officer, nobody on the team; the totals follow from the lines entered.
updateFinance(a, disbursed, settled) ==
    /\ a \in (Directors \cup Assigners \cup {officer}) \ (members \cup {None})
    /\ project.status # "closed" /\ liquidation.status # "APPROVED"
    /\ finance' = [disbursed |-> disbursed, settled |-> settled]
    /\ UNCHANGED <<project, request, route, liquidation>> /\ MoneyUnchanged

prepareLiquidation(recovered) ==
    /\ AssertOfficer /\ Concluded
    /\ liquidation.status # "APPROVED"
    /\ recovered <= finance.disbursed
    /\ liquidation' = [status |-> "DRAFT", disbursed |-> finance.disbursed, settled |-> finance.settled,
                       recovered |-> recovered]
    /\ OpenSubmission("LIQUIDATION")
    /\ Bump
    /\ UNCHANGED <<project, finance>> /\ MoneyUnchanged

\* Fault: the draft's totals are approved as they were written.
approveLiquidation_DraftTotals(d) ==
    /\ d \in Directors /\ Independent(d)
    /\ Concluded /\ liquidation.status = "DRAFT"
    /\ AssertReadyForLeadership("LIQUIDATION")
    /\ liquidation.settled + liquidation.recovered = liquidation.disbursed
    /\ liquidation' = [liquidation EXCEPT !.status = "APPROVED"]
    /\ CloseSubmission("LIQUIDATION")
    /\ Bump
    /\ UNCHANGED <<project, finance>> /\ MoneyUnchanged

\* The totals are taken again from the finance as it is now, and must balance.
approveLiquidation(d) ==
    /\ d \in Directors /\ Independent(d)
    /\ Concluded /\ liquidation.status = "DRAFT"
    /\ AssertReadyForLeadership("LIQUIDATION")
    /\ finance.settled + liquidation.recovered = finance.disbursed
    /\ liquidation' = [liquidation EXCEPT !.status = "APPROVED", !.disbursed = finance.disbursed,
                                          !.settled = finance.settled]
    /\ CloseSubmission("LIQUIDATION")
    /\ Bump
    /\ UNCHANGED <<project, finance>> /\ MoneyUnchanged

closeProject ==
    /\ AssertOfficer /\ Concluded
    /\ liquidation.status = "APPROVED"
    /\ ~OpenRequest
    /\ SetStatus("closed")
    /\ Bump
    /\ UNCHANGED <<route, finance, liquidation>> /\ MoneyUnchanged

-----------------------------------------------------------------------------
SetUp == \/ \E a \in Assigners : revokeOfficer(a) \/ \E p \in Staff : assignOfficer(a, p)
         \/ configureSetup \/ confirmSetup

Reporting == \E r \in Reports :
    \/ \E c \in Checkpoints \cup {None} :
         createReportDraft(r, c) \/ \E q \in Reports : updateReportDraft(r, q, c)
    \/ submitReport(r) \/ reviewReport(r) \/ requestReportSupplement(r) \/ acceptReport(r)

Requesting == \/ \E c \in Changes : createRequest(c) \/ editRequestDraft(c)
              \/ submitRequest \/ reviewRequest \/ prepareRequest
              \/ \E d \in Leaders : requestSupplement(d) \/ approveRequest(d) \/ rejectRequest(d)
              \/ \E k \in Kinds : advance(k) \/ returnToStaff(k)

Producing == \/ \E planned \in SUBSET Products : saveProducts(planned)
             \/ \E p \in Products :
                  \/ submitProduct(p)
                  \/ \E panel \in SUBSET Experts : formProductPanel(p, panel)
                  \/ \E result \in {"PASSED", "FAILED"} : recordProductReview(p, result)

Accepting == \/ submitAcceptance \/ returnAcceptance \/ submitRevision
             \/ \E council \in SUBSET Experts : proposeCouncil(council)
             \/ \E d \in Leaders : establishCouncil(d)
             \/ \E result \in {"PASSED", "FAILED", "REVISION_REQUIRED"} : recordMinutes(result)
             \/ \E accept \in BOOLEAN : confirmRevision(accept)
             \/ \E complete \in BOOLEAN : saveSuperiorDossier(complete)
             \/ sendSuperiorRequest
             \/ \E result \in {"PASSED", "FAILED"} : recordSuperiorResult(result)

Closing == \/ \E a \in People, d, s \in Amounts : updateFinance(a, d, s)
           \/ \E recovered \in Amounts : prepareLiquidation(recovered)
           \/ \E d \in Directors : approveLiquidation(d)
           \/ closeProject

Next == SetUp \/ Reporting \/ Requesting \/ Producing \/ Accepting \/ Closing

Spec == Init /\ [][Next]_vars

-----------------------------------------------------------------------------
(* Properties *)

\* The shape of the records; everyone on the team is in its history.
TypeOK ==
    /\ project \in [status : Statuses, needsSuperior : BOOLEAN]
    /\ officer \in Staff \cup {None}
    /\ members \subseteq People /\ team \subseteq People /\ members \subseteq team
    /\ checkpoint \in [Checkpoints -> {"none", "open", "completed"}]
    /\ reports \in [Reports -> [status : ReportStatuses, checkpoint : Checkpoints \cup {None}]]
    /\ request \in Request
    /\ route \in [Kinds -> Stages]
    /\ products \in [Products -> [status : ProductStatuses, panel : SUBSET Experts]]
    /\ rounds \in Seq(Round)
    /\ superior \in [status : SuperiorStatuses, complete : BOOLEAN]
    /\ finance \in [disbursed : Amounts, settled : Amounts]
    /\ liquidation \in Liquidation

\* A request or a report someone still has to answer exists only while the project is
\* carried out.  The officer's and the leaders' steps on requests and reports look at no
\* project status: it is submitAcceptance, once, that keeps them out of the acceptance.
OpenWorkOnlyWhileExecuting ==
    project.status # "executing" =>
        /\ request.status \in {"none", "draft", "approved", "rejected"}
        /\ \A r \in Reports : reports[r].status \notin {"submitted", "under_review"}

\* The project waits for its acceptance exactly while its last round is open, and only the
\* last round is: the handlers write the two in separate updates.
AcceptanceAgrees ==
    /\ project.status = "pending_acceptance" <=> OpenAcceptanceRound
    /\ \A i \in 1 .. Len(rounds) : rounds[i].status \notin ClosedRoundStatuses => i = Len(rounds)
    /\ \A i \in 1 .. Len(rounds) : rounds[i].status \in {"PASSED", "FAILED"} => i = Len(rounds)

\* A project is accepted by the councils its level asks for, with all its products passed,
\* whatever was adjusted on the way; it fails only by the word of the last council.
AcceptedAtItsLevel ==
    /\ project.status \in {"accepted", "pending_superior_acceptance"} =>
          /\ rounds # <<>> /\ LastRound.status = "PASSED"
          /\ \E p \in Products : products[p].status = "PASSED"
          /\ \A p \in Products : products[p].status \in {"ABSENT", "PASSED"}
    /\ project.status = "accepted" => (superior.status = IF project.needsSuperior THEN "PASSED" ELSE "none")
    /\ project.status = "failed" =>
          \/ rounds # <<>> /\ LastRound.status = "FAILED"
          \/ project.needsSuperior /\ superior.status = "FAILED"

\* A step the closure can take now: by the PI, or by the officer.
ClosureStep ==
    \/ AssertPi
    \/ project.status = "pending_acceptance" /\ CurrentRound({"REVISION_REQUIRED"})
    \/ /\ AssertOfficer
       /\ \/ project.status = "preparing"
          \/ /\ project.status = "pending_acceptance"
             /\ CurrentRound({"SUBMITTED", "COUNCIL_PROPOSED", "COUNCIL_ESTABLISHED", "REVISION_SUBMITTED"})
          \/ project.status = "pending_superior_acceptance" /\ superior.status \in {"PREPARING", "SENT"}
          \/ Concluded /\ (liquidation.status = "APPROVED" => ~OpenRequest)

\* With an officer in charge the closure never waits for nothing: the round, the superior
\* acceptance, the requests and the liquidation are where the status of the project needs them.
ClosureGoesOn == officer # None /\ project.status # "closed" => ClosureStep

\* The status of the project says what the records of its councils say, open or concluded.
OutcomeAgrees == AcceptanceAgrees /\ AcceptedAtItsLevel /\ ClosureGoesOn

\* Once approved, the liquidation record and the finance of the project say the same, and
\* what was disbursed is settled or recovered: the finance stays open to three kinds of
\* persons while the draft makes its way to the director.
LiquidationBalanced ==
    /\ liquidation.status = "APPROVED" =>
          /\ liquidation.disbursed = finance.disbursed /\ liquidation.settled = finance.settled
          /\ liquidation.settled + liquidation.recovered = liquidation.disbursed
    /\ project.status = "closed" => liquidation.status = "APPROVED"

\* A request waits for the leadership exactly while its submission is on its way: decide,
\* ask for more and return end both, in two services.
RequestRouteAgrees == request.status = "ready_for_head_decision" <=> route["REQUEST"] \in Pending

\* The officer in charge is never on the team, nor judged the proposal: one handler assigns
\* the officer, another one adds members.
OfficerIndependent == officer \notin members \cup Evaluators

\* Nobody who is or was on the team sits on the council of a round that is proposed or
\* established: the team is looked at once, when the council is proposed.
CouncilIndependent == rounds # <<>> /\ OpenAcceptanceRound => LastRound.council \cap team = {}

\* Two sides of every project stay apart, whatever order people move in.
Independence == OfficerIndependent /\ CouncilIndependent

\* Whoever an open request waits for may answer it, however old the versions it was written for:
\* the PI, the officer in charge, or the heads and leaders its submission is with.
RequestAnswerable == OpenRequest =>
    \/ request.status = "supplement_requested" /\ AssertPi
    \/ request.status \in {"submitted", StaffStatus} /\ (officer # None => AssertOfficer)
    \/ request.status = "ready_for_head_decision" /\ route["REQUEST"] \in Pending

\* A request is open only where somebody can still answer it: on its route, in a project that is
\* carried out.
OpenWorkAgrees == RequestRouteAgrees /\ OpenWorkOnlyWhileExecuting /\ RequestAnswerable

\* What a submission puts forward.
Content(k) == CASE k = "REQUEST" -> {request.change}
                [] k = "ACCEPTANCE_COUNCIL" -> LastRound.council
                [] k = "LIQUIDATION" -> {liquidation.recovered}

\* What the leadership has decided in a procedure.
Decided(k) ==
    CASE k = "REQUEST" -> request.status \in {"approved", "rejected"}
      [] k = "ACCEPTANCE_COUNCIL" -> rounds # <<>> /\ LastRound.status = "COUNCIL_ESTABLISHED"
      [] k = "LIQUIDATION" -> liquidation.status = "APPROVED"

\* What the heads have seen is what the leadership decides on.  It changes only with a new
\* submission, which starts again at the board head; and nothing goes around the heads, although
\* a procedure without a submission passes the leadership's check (it may be older than the route).
DecidedAsReviewed == [][\A k \in Kinds :
    /\ route[k] \in Pending /\ Content(k)' # Content(k) => route'[k] = "BOARD_REVIEW"
    /\ ~Decided(k) /\ Decided(k)' => route[k] = "LEADERSHIP"]_vars

\* What is concluded stays: an acceptance round, an approved liquidation, a closed project.
ConcludedStays == [][
    /\ \A i \in 1 .. Len(rounds) : rounds[i].status \in ClosedRoundStatuses => rounds'[i] = rounds[i]
    /\ liquidation.status = "APPROVED" => liquidation' = liquidation /\ finance' = finance
    /\ project.status = "closed" => project' = project /\ members' = members /\ products' = products]_vars

\* The phases of ProjectPhases, and the outcome as the councils' records give it.
Phase == IF liquidation.status = "APPROVED" /\ project.status # "closed"
         THEN "liquidated"
         ELSE CASE project.status = "pending_acceptance" -> "facility"
                [] project.status = "pending_superior_acceptance" -> "superior"
                [] project.status \in {"accepted", "failed"} -> "concluded"
                [] OTHER -> project.status

Outcome == IF rounds = <<>> \/ LastRound.status \notin {"PASSED", "FAILED"} THEN "none"
           ELSE IF LastRound.status = "FAILED" \/ superior.status = "FAILED" THEN "failed"
           ELSE IF superior.status \in {"none", "PASSED"} THEN "accepted"
           ELSE "none"

Phases == INSTANCE ProjectPhases WITH phase <- Phase, outcome <- Outcome

\* The handlers carry a project through the phases of ProjectPhases, skip none and take
\* back no outcome.
ImplementsPhases == Phases!Spec
=============================================================================
