# Verification of DocManS

DocManS is the research-management system of an academy: a NestJS API over PostgreSQL (Prisma) and MinIO, and a web
client. Researchers submit proposals, staff check them, reviewers and councils evaluate them, the leadership decides;
approved projects are carried out, report, ask for adjustments, are accepted, liquidated and closed. Beside them stand
scientific conferences, student research and the accounts everybody signs in with. This directory holds TLA+ models of
the API's protocols, TLC configurations that check them on small instances, and proofs checked by TLAPS.

Paths below are relative to `src/apps/api/src/` unless they start with `docs/`.

## 1. Inventory

### Components

| component | code | state it keeps | operations | module |
|---|---|---|---|---|
| Approval routing | `approvals/`, `proposals-shared/approval-routing.ts` | rows of approval_submissions with stage and status, rows of approval_steps | open and close (called by the procedures), advance, returnToStaff | `ApprovalRouting` |
| Research proposals | `research-proposals/` | status, submission events, supplement requests, completeness checks, participants, officer | submit, resubmit, requestSupplement, completeCheck, replaceMembers, assign and revoke the officer | `ProposalEvaluation` |
| Reviewers and reviews | `proposal-evaluations/proposal-review-assignments.service.ts`, `proposal-reviews.service.ts` | assignments with status, role, window, acceptance; one review each | assign, revoke, respond, save and submit a review | `ProposalEvaluation` |
| Summary and package | `proposal-evaluations/proposal-evaluation-summary.service.ts` | summary with lifecycle, revision and captured evidence | save, finalize, reopen, submit | `ProposalEvaluation` |
| Decisions and evaluation council | `proposal-evaluations/proposal-decisions.service.ts` | decision, councilMetadata | decide, propose, invite, submit, approve, reject | `ProposalEvaluation` |
| Ethics council (IRB), document numbers | same file, `irb-council.ts` | irbMetadata (one JSON value), member rows, the counter of numbers | propose, respond, approve, reject, review, conclude, certify, return | `EthicsCouncil` |
| Approved projects | `approved-projects/approved-projects.service.ts` | project, officer, team, checkpoints, report revisions, requests | set-up, officer, reports, requests and their decision | `ProjectLifecycle` |
| Project closure | `approved-projects/project-closure.service.ts` | products and panels, acceptance rounds, superior acceptance, finance, liquidation | about twenty handlers from products to closeProject | `ProjectLifecycle` |
| Conferences | `conferences/` | conference, invitations and reply links, papers, sessions, program | officer, transitions, guests, mailings, answers, papers, revisions, publish | `Conferences` |
| Sign-in and accounts | `auth/`, `admin/admin-users.service.ts`, `tasks/` | user with credential version, sessions, login challenges, reset and activation links | log in, verify, resend, change, reset, activate, disable, expire | `Accounts` |
| Student research | `student-research/` | project with status, supervisor, officer and unit; documents and stored contents | register, create, edit, the transitions, upload, delete | `StudentResearch` |
| Intake periods, files, profiles, documents, catalogs, units, budget, minutes, portfolios | their directories | single rows, or one value | create, edit, read | none, see 5 |
| Notifications, mail, reminders, dashboards, reports, capabilities, web client | their directories | nothing another step reads | send, read, export | none, see 5 |

### How they interact

All shared state is in PostgreSQL and the object store; there is no message queue, and no in-process state that two
requests share. The components call each other inside one transaction:

* the proposal handlers run in `runProposalMutation`, the project handlers in `mutate`: SERIALIZABLE, the row of the
  proposal or project locked first. Such a handler is one action;
* others read and check first and write in a later transaction: `decide`, nearly everything in `conferences/`, `auth/`
  and `student-research/`, and the part of `returnToStaff` that writes back the ethics data. Such a call is two actions
  with the steps of everybody else in between, and what the code compares again under its lock is a guard of the second;
* every procedure that needs the leadership calls `openApprovalSubmission` and `closeApprovalSubmission` in its own
  transaction. `advance` and `returnToStaff` work the other way round: they lock the submission first and, on a
  return, call back into the procedure that submitted it (`revertOnReturn`);
* a decision on a proposal creates the approved project with the team of the approved submission;
* an answer to a conference invitation may create the account of the guest, and issues an activation link for it or for
  one that waits, without the lock the other issuers take;
* notifications are sent after the commit and nothing waits for them. A mail with a login code is sent before the
  challenge is stored or renewed: a mail that fails leaves nothing.

### What is hard

* **Two actors at once.** Two reviewers on one submission; a submission replaced while a reviewer looks at it; two
  requests with the code of one challenge; a guest who answers while the invitation is revoked.
* **State read earlier and used later.** A director whose checks were made on a package that was returned meanwhile; a
  password that changes between the proof and the session; a supervisor who changes between the check of a manager's
  rights and the approval; a return that writes back the ethics data it read without the lock.
* **Evidence.** What was captured when a package was saved is compared when it is finalized, submitted and decided. A
  request records the versions of the project and may be decided only while they are current.
* **Records that must agree.** Proposal, summary, council and approval submission are four rows; so are project, round,
  superior acceptance and liquidation; so are paper, session and published program. Every handler writes its own subset.
* **Long legal sequences.** Return, reopen, re-assign, review, save, finalize, submit again; a second acceptance
  round; an adjustment that changes the level in the middle; a certificate issued again under another number.
* **Failures.** A mail that is not accepted; an upload whose transaction fails; a server that stops between the store
  and the record.
* **Waiting.** A submission waits for a reviewer who is not its drafter; a request waits until its versions are
  current again.

A transaction commits or leaves nothing, and there is no job that resumes work after a restart. The crash that matters is
the one between the object store and the database (`UploadLost` in `StudentResearch`).

### What makes each component correct

* *Routing*: one answer per stage, one submission in progress, what is signed is what was reviewed, a procedure is locked
  exactly while it is under review, each submission is answered.
* *Evaluation*: nobody judges, administers, consolidates or decides their own work; a decision stands on the complete
  council and exactly the evidence that was finalized; reviews handed in stand; an answer to an invitation counts only for
  the submission it was made for; the council keeps to its limits; route and records agree.
* *Ethics council*: those who judge are those who agreed; a conclusion rests on every reviewer's opinion; the certificate
  is signed by an outsider; no number twice; no opinion lost.
* *Projects*: nobody acts on both sides; a request is decided as it was reviewed and only while the project is carried
  out; the acceptance asked for by the project's level happened; the liquidation balances; what is concluded stays.
* *Conferences*: one answer per invitation; a live paper belongs to a guest who accepted; a link that still works reaches
  the guest it was mailed to; papers and program agree.
* *Sign-in*: a code opens one session; a session belongs to the password in force; a link that sets it belongs to it
  too; wrong codes are bounded.
* *Student research*: whoever judges is not the supervisor, even under interleaved edits; every document listed has its
  content; what is finished stays.

## 2. Modules

| module | role |
|---|---|
| `ApprovalProcedure` | abstract: one phase per procedure and the six moves it may make |
| `ApprovalRouting` | the rows, locks and requests of the approval service and the procedures that use it; implements `ApprovalProcedure` |
| `ProposalEvaluation` | one proposal from its draft to the decision; its `route` implements `ApprovalProcedure` |
| `ProjectPhases` | abstract: the phases and the outcome of a project |
| `ProjectLifecycle` | one approved project from set-up to closure; implements `ProjectPhases` |
| `GuestLife` | abstract: an invitation is sent, answered once or revoked, only an accepted guest has a talk, and a talk withdrawn stays so |
| `Conferences` | one conference; implements `GuestLife` |
| `CredentialLife` | abstract: who enters has proven the secret in force, a proof is good for one entry, a new secret puts everybody out |
| `Accounts` | one account, its sessions, links and challenges; implements `CredentialLife` |
| `EthicsCouncil` | the ethics council of one proposal, its certificate and the numbers it shares with others |
| `StudentResearch` | one student project and its documents |
| `MC<module>` | the small instances of a module for TLC |
| `<module>Proofs` | the theorems about a module; `ProposalDecisionProofs` continues `ProposalEvaluationProofs` |

The composition is by contract. `ApprovalRouting` shows that rows, locks and persons of the route, for any number of
procedures, implement `ApprovalProcedure`. `ProposalEvaluation`, `ProjectLifecycle` and `EthicsCouncil` keep one stage per
procedure, change it only by the moves of the route, and put the weight on what the procedure itself does when it
opens, closes or gets back a submission. For the rows and for council and package, that they are an `ApprovalProcedure` is
proved.

An operator named `X_Y` that begins with the comment "Fault:" is a plausible mistake in `X`. Nothing in the
specification uses it; `PROJECT.json` pairs it with the property that finds it.

### ApprovalRouting

| model | code |
|---|---|
| `rows[s]`: stage, status, submittedBy, steps, content | approval_submissions and its approval_steps; `content` is the version of the business record the submission carries, and is in no column: it is what the submission is about |
| `subject[k]` | the record of procedure `k`: may its owner change it, is it put up, decided; version of its content |
| `req[q]`: idle, arrived, locked | a call of advance or returnToStaff: authenticated with the role of that moment (`as`), then `SELECT ... FOR UPDATE`, then commit or refusal |
| `Submit` | `openApprovalSubmission` inside a procedure's transaction: refuses or replaces the submission in progress, first stage by the role of the drafter |
| `Arrive`, `lockPending`, `advance`, `returnToStaff`, `Refuse` | `ApprovalRoutingService`, `assertStageActor`, `revertOnReturn` |
| `Approve`, `Reject`, `LeadershipReturn` | the leadership's handlers of the procedures, with `assertReadyForLeadership` and `closeApprovalSubmission` |
| `ChangeRole` | an administrator changes a role between two requests |

The eight kinds of procedure differ in who signs, whether the leadership may return or refuse, whether a refused
record may be edited again and whether a draft stays open under review; each is a constant set taken from the
handlers. `Legacy` is a procedure that was with the leadership before the route existed: it has no row and is let
through, as in the code.

### ProposalEvaluation

One proposal. `round` is the number of the submission event. `rows` holds assignments with their review; `summary` has
the evidence captured in the package; `council`, `route`, `decision` as named; `deciding[d]` is a call of `decide`
between its first checks (without the lock) and its transaction. All other handlers are one action, since they lock the
proposal before the first read they use.

Abstractions:
* whether a supplement request row is open follows from the status, so the row is left out;
* `contextVersion` is optional in these handlers and only refuses more, so it is left out;
* councils from before invitations existed take a branch of their own in the code; left out;
* an assignment whose start lies in the future is left out. The window of an assignment is `"open"` (no end), `"timed"`
  or `"over"`; `Expire` lets the time pass;
* `retireStaleOpenAssignments` finds nothing in the reachable states: `AssignmentsOfRound` says why (an assignment in
  force keeps the proposal from going back to its owner);
* scores, texts, files and dates are data no guard reads; nor is the approved budget, or the minutes of the council.

### EthicsCouncil

| model | code |
|---|---|
| `irb` | `irbMetadata` of the proposal: list and status of the council, opinions, conclusion, certificate |
| `rows[p][r]` | proposal_irb_members: invited, accepted, declined, active, revoked |
| `route` | the two approval submissions, with the stages of the department in one |
| `ret` | `returnToStaff` in flight: the row of the submission is locked, the ethics data read without the proposal's lock and written back |
| `counter`, `others` | document_number_counters and the numbers of other proposals' certificates |

The conflicts of interest that keep somebody off a list are a condition on `Lists`. Councils from before there were
invitations (`Old`) are initial states, since the code has branches for them. Stages of the department, persons and row
locks are in `ApprovalRouting`.

### ProjectLifecycle

One project. The PI is outside `People`. `mutate` locks the row, compares the client's context version and is
serializable: a handler is one action, a stale client changes nothing. The only versions kept are the ones stored in a
request, as `request.current`.

Abstractions:
* one reporting milestone with checkpoints, one reporting period, one change per request, the latest request only;
* a milestone's responsible person may not leave the team; milestones have no responsible person here;
* panels and councils hold persons with accounts; members from outside, without an account, cannot conflict with
  anybody. Numbers of members and the chair are not modelled;
* the superior dossier is one flag, complete or not; dates, document numbers, extension dates are left out;
* milestone progress, health assessments, plan baselines and the import of acceptances recorded before the present
  tables are left out;
* a liquidation records who prepared it and no guard reads it; left out;
* the director alone approves a liquidation (`Directors`), the deputy signs requests and councils (`Leaders`).

### Conferences

One conference. A handler reads and checks, then writes in a transaction: `BeginX` stores in `calls[c]` what the code
still holds after its reads, `CommitX` is the transaction, and `Abort` is a refusal or failure in between. Assignment of
the officer and transitions compare the version under the lock and are one action. Transactions run at READ COMMITTED, and
not every one begins with the lock of the conference row; what the database makes of it is modelled as follows.

* `LockFree`: the row of the conference is held between two steps by `submit` only. Handlers that lock it first
  (additions, mailings, answers, sessions, publication) are one step. So are withdrawal and request for a revision: they
  do not lock it, but they record an event in the same transaction, `conference_events` refers to the conference, and that
  reference waits for whoever locked it. A submission that read a paper therefore cannot commit over its withdrawal:
  either the withdrawal waits, or the two wait for each other and one is aborted.
* `updateInvitation` and `revokeInvitation` write the invitation and its links first and touch the conference last, so
  that they have three steps. `WriteUpdate` and `WriteRevoke` are the write to the invitation and the links the next
  statement sees; `CommitUpdate` and `CommitRevoke` are the rest and the commit. In between a mailing may commit and leave
  a link behind that the revocation does not see. `RowFree` is the lock on the row of the invitation in that time:
  another edit or revocation, an answer and the first mail to a draft write the same row.
* `Readdressed`: an edit that changes the address changes a column of a unique index, which locks the row also against a
  row that refers to it. A new link is one, so that no mailing issues a link between the two steps of such an edit.
* Locks taken in opposite orders are a deadlock, which the database resolves by aborting one: `Abort`.

| model | code |
|---|---|
| `inv[g]`, `link[g]` | the invitation of a guest; the latest reply link: its number, whether it is unused and unrevoked, to whom it was mailed. A mailing revokes the earlier ones |
| `Valid`, `findToken` | what makes a link good: unused, unrevoked, the invitation still asked, the conference open |
| `accounts` | which persons have an account: an answer by link creates one |
| `paper[g]`, `slots`, `program` | papers with the texts handed in and asked for again; papers placed in sessions; the published program |
| `conf` | status and officer |

Left out: the information of the conference and its deadlines, the times inside a session (`conference-scheduling.ts`),
proceedings, statistics, exports and the layout of the import file.

### Accounts

One account. `credential_version` changes exactly with the password hash, so the version stands for the password. Log-in,
verification, resend and change of password are a read and a later write; `createSession` locks the account and compares
the version. A mail is sent between the two steps, and `Abort` is also a mail that was not accepted. Links are issued in two
ways: `issueLink` under the lock of the account (`createPasswordResetToken`, `resetResearcherAccount`), and
`BeginIssue`, `CommitIssue` by an acceptance in a conference (`issueActivation` in `conferences/`), which locks the
conference and not the account: it uses up the links it read, while others issue or use theirs. The account and those
links are one read here; the version of an account that waits does not change in between. `locked` and
`disabled` differ in name only. Expiry and nightly deletion are one step, since no query accepts an expired row. The limit
of tries per address is in the memory of one process and only delays; it is left out.

### StudentResearch

One project. Each request is two actions: it reads project and rights, then writes if status and version are those that
were read (`guardedUpdate`), or, for documents, if the rights still hold under the lock (`StillOpen`). `fresh` stands
for the version. `store` has the contents in the object store: an upload stores first, then lists; `UploadFails` removes
the content again, `UploadLost` is a crash or a store that does not answer. Names, dates, codes and scores are left out.

## 3. Runs

| run | what it shows | properties | distinct states |
|---|---|---|---|
| `routing_redraft` | a liquidation record re-drafted while board head and department head review it, two service requests in flight and a change of role: one submission in progress, no double or late review, and the signed version is the reviewed one | OneReviewAtATime, SignedAsReviewed | 178,175 |
| `routing_ways` | an extension that was already with the leadership before the route existed, and two department heads, so that a head's own submission has a reviewer: the rows implement the abstract procedure, a procedure is locked exactly while it is under review, whatever waits has somebody who may act on it, and every submission is eventually answered for good | LockedIffPending, SomebodysTurn, ImplementsProcedure, EverySubmissionEnds | 42,570 |
| `proposal_evaluation` | from submission to decision with reviewers assigned directly, the department head and the director among them, packages returned and reopened and a decision in flight: decisions stand on the finalized evidence, nobody judges their own work and a review handed in stands | DecisionOnFullCouncil, PackageHolds, NobodyJudgesOwnWork, SubmittedReviewsStand | 155,498 |
| `proposal_council` | a council is proposed, invited, changed, approved and refused while the proposal is supplemented and submitted again and its team and officer change, and another person is assigned directly, with an end date: only answers of the current round count, and both ways together keep to the composition rules | RoleLimits, TeamNeverJudges, RouteAgrees, CouncilEstablishedForRound, ImplementsProcedure | 114,727 |
| `package_decidable` | a package is submitted whose secretary never answered the invitation: the submission itself makes it undecidable | SubmittedPackageDecidable | violated |
| `project_work` | a person of the staff and of the experts joins and leaves the team by adjustments while officers change, panels and councils are formed and submissions travel and come back: nobody acts on both sides, what is decided is what was reviewed, and of two report revisions and the request nothing is left open once the acceptance begins | OpenWorkAgrees, Independence, DecidedAsReviewed | 343,760 |
| `project_closure` | two products, two acceptance rounds, both levels of acceptance with adjustments that change the level, and finance updated up to the approval of the liquidation: the project goes through the phases of ProjectPhases, its records agree and what is concluded stays | OutcomeAgrees, LiquidationBalanced, ConcludedStays, ImplementsPhases | 168,272 |
| `conference` | one guest with or without an account, two calls in flight: every pair of add, edit, revoke, mail, answer, submit, withdraw, revise, place and publish crosses between what it read and its transaction, and a mailing crosses between the two writes of an edit and of a revocation, which do not lock the conference | LivePaperHasGuest, ProgramAgrees, LinkKeepsFitting, OnlyPublicationReopens, ImplementsGuestLife | 4,019,381 |
| `conference_closed` | a program that was checked before the conference is cancelled is published after it and the conference is open again | ClosedIsFinal | violated |
| `accounts` | one account, two requests in flight: sign-in, codes, resends, changes and resets of the password, activation links issued with and without the lock of the account and the administrator's status changes cross between what a request read and what it writes | OneSessionPerChallenge, SessionsOfPresentPassword, LinksOfPresentPassword, WrongCodesBounded, ImplementsCredentialLife | 379,260 |
| `ethics_council` | four people, two of them authorities, four lists with places changed and refused, a new proposal and councils from before invitations; a return by the department is in flight beside everything else; certificates of other proposals take numbers from the counter and by hand | RouteAgrees, CouncilAsAccepted, CertificateEarned, NumberOfOneProposal, NoReviewLost | 71,212 |
| `student_research` | a lecturer, two of the staff who may supervise too, two units, one document and two requests in flight, new projects and those from before there were units: edits, judgements and uploads cross between what they read and what they write, uploads fail and get lost | ContentAccounted, JudgedByThirdPerson, FinishedStays | 209,063 |

Type invariants (`TypeOK` of each module) are proved, see 4, so that the runs spend their time on the other properties.

Several properties have named parts. `OneReviewAtATime` is `OnePending` and `OneReviewPerStage`; `PackageHolds` is
`PackageEvidenceFrozen` and `DecidableUnlessLeft`. Five of the parts say in a single state that work never waits for
nothing: `SomebodysTurn` (a procedure put up for approval has somebody who may act on it), `RequestAnswerable` (whoever
an open request waits for may answer it), `ClosureGoesOn` (with an officer in charge the closure has a next step),
`DecidableUnlessLeft` and `DecidableThere` (what came to the leadership is complete enough to decide). The deadlock
check of TLC cannot see such a case, because some other step is nearly always possible; and unlike liveness they can be
proved. `RequestAnswerable` and `ClosureGoesOn` speak of a project with an officer: without one the department head
appoints one first.

Violation runs show a disagreement between code and text:

* `package_decidable`. Submitting a package revokes the assignment of a secretary who never answered, after the check
  that counted it. The evidence no longer matches, `decide` refuses for ever, and at the leadership nobody can return a
  package. The comment in `proposal-evaluations/proposal-decisions.service.ts:402-403` says a package passed this check
  when it was finalized and when it was submitted.
* `conference_closed`. `publish` reads the status, checks it, and writes `program_published` in a later transaction
  (`conferences/conference-program.service.ts:259`, `:295`). A conference cancelled in between is open again;
  `conferences/conference-workflow.ts:31` says no operation is possible on a closed one.

Further divergences are recorded as hazards with a note instead of a run:

* a member assigned directly, who never answered, is listed in the council's decision, though the comment at
  `proposal-decisions.service.ts:482-483` says it lists only persons who agreed. What does hold, and is proved, is
  `CouncilEstablishedForRound`;
* a member of a product's panel may join the team before the panel concludes; the acceptance may start with open
  milestones (`docs/design/nghiem-thu-thanh-ly-dong-de-tai.md:43-44`, `:54`);
* `decide` writes the budget over metadata it read before its transaction;
* staff may enter a student project of their own as active, which every other way keeps from them;
* an edit of an invitation is written without looking whether the guest has answered meanwhile; and of two edits, the one
  that writes back the address both have read leaves the link that was mailed to the other's address in force: it compares
  with what it read before its transaction (`conferences/conference-invitations.service.ts:272`), although the comment at
  `:271` says a changed address revokes the old link. `LinkKeepsFitting` makes an exception of this case (`WritesBack`) and of no other;
* a mailing that crosses a revocation leaves a link on the revoked invitation that is neither used nor revoked, although
  the comment at `:284` says the link is revoked. Only the status of the invitation, which `findToken` and
  `applyResponse` compare, makes it worthless, and `LinkKeepsFitting` is therefore about what `findToken` accepts;
* two activation links of one account may be good at once, since an acceptance in a conference issues one beside the
  others. Both are of the password the account still has, and activation uses up both: `LinksOfPresentPassword`.

### Bounds

* *Routing.* Two submissions are enough for a row to be replaced, returned or signed while another request still holds
  its identifier; two requests are enough for any race on one row, since a lock has one holder and one who waits;
  one change of role between authentication and lock. `MaxVersion` 2 or 3 lets a draft change under review. Roles change
  only in `routing_redraft`, the run about answers and signatures; the proofs allow any change.
* *Evaluation.* Council limits are cut to one or two reviewers and one secretary, no members: minimum, maximum and the
  difference between scoring and other roles remain. Three assignment rows allow a revoked one beside a full council.
  `MaxRevision = 5` is a first package saved, finalized, returned, reopened and saved again while a decision on the
  first is in flight. The council run has no summary (`MaxRevision = 0`): there the interesting part is two rounds.
  `Candidates` says who may be asked directly and until when.
* *Ethics council.* Four people, two of whom may sign; four lists, so that a place changes its holder, a person its role,
  somebody who signs is on the council, and a list is incomplete; two numbers, so that the counter meets one that was
  entered by hand.
* *Projects.* One person who is on the staff and an expert is enough for every conflict of two roles; two products tell
  "all" from "some"; two rounds give a return or a failure after a return; amounts 0 and 1 with two totals give every
  sign of the difference; two report rows on one checkpoint compete for it.
* *Conferences.* One guest whose row may change its kind and move between the addresses of two persons without an account,
  two links, two calls in flight: each call touches
  one invitation or paper, except a mailing and a publication, which touch all in one step. What relates two guests (one
  address, one account each) is covered by the proofs, for any number.
* *Accounts.* Two requests are two sign-ins, or one beside a change of the password, a resend, a reset, or two conferences
  that issue a link; two sessions and
  two links tell "this" from "the others"; one challenge, one wrong code allowed and two mails reach both limits.
* *Student research.* Three people in every combination of supervisor, manager and registrant, two units with different
  managers, one document, two requests.

The state space of each run is finite by these bounds and TLC exhausts it; no state constraint is used.
`CHECK_DEADLOCK FALSE` stands where the system stops rightly: all procedures decided and the bound on submissions
reached, a proposal decided, a conference over, links and sessions used up, a student project finished. Project runs
check for deadlock: requests and officers keep moving. Symmetry is used for requests in flight, for report rows, for
products and, in `accounts`, for sessions and links; no definition tells their members apart, and no run with symmetry
checks liveness.

### Fairness

Only `routing_ways` assumes any, for `EverySubmissionEnds`. `WF` on the second half of a request: the server finishes
the transactions it began. `SF` on taking the row lock: PostgreSQL queues waiters, and the lock is free again and again.
`SF` on an eligible reviewer answering and on the leadership signing: this is an assumption on people, not on the code,
namely that somebody entitled keeps trying. The instance has two department heads because `assertStageActor` refuses the
drafter: a sole department head's own submission waits until a second one is appointed. `EverySubmissionEnds` is false
with one, and that is recorded as a hazard. `SomebodysTurn` is its safety half and says in its premise `Staffed` what it
asks for: roles that do not change, a board head, two department heads, a director. The other components promise no
progress: each of their steps waits for a person who may never come, and the code has no timer that would take it.

## 4. Proofs

Every leaf is checked by SMT (Z3), Zenon or PTL. The proofs use the named assumptions on the constants only: any number
of persons, rows, requests, guests, rounds, amounts and bounds. Two assumptions are about finiteness, where
cardinalities are counted: `AccountsAssumption` (people who may sit on a council) and `AccountBounds` (requests in
flight on one account).

| theorem | module | establishes |
|---|---|---|
| `TypeCorrect` | `ApprovalRoutingProofs` | type correctness of the routing component in every reachable state |
| `OnePendingHolds` | `ApprovalRoutingProofs` | a procedure never has two submissions in progress, for any number of procedures, submissions and concurrent requests |
| `RouteIsComplete` | `ApprovalRoutingProofs` | what reaches or leaves the leadership was forwarded by a board head (or drafted by one) and approved by a department head |
| `NobodyReviewsOwn` | `ApprovalRoutingProofs` | no reviewer answers a submission of their own, under any change of roles |
| `OneAnswerPerStage` | `ApprovalRoutingProofs` | a procedure is under one review at a time and each stage of it is answered at most once, whatever requests race (`OneReviewAtATime`) |
| `ClosedWhileUnderReview` | `ApprovalRoutingProofs` | a routed procedure is open to its drafter exactly when no submission of it is in progress (`LockedIffPending`) |
| `SomebodysTurnHolds` | `ApprovalRoutingProofs` | with persons for every stage, two department heads among them, whatever is put up for approval waits for somebody who may act on it: the safety half of EverySubmissionEnds (`SomebodysTurn`) |
| `ReviewedContentIsSigned` | `ApprovalRoutingProofs` | what the leadership approved is the version of the content that went through the review (`SignedAsReviewed`) |
| `FinishedRowsStay` | `ApprovalRoutingProofs` | a submission that was signed, refused, returned or replaced, and its steps, never change again (ClosedStaysClosed) |
| `ProcedureImplemented` | `ApprovalRoutingProofs` | the submissions and their steps implement the approval procedure: whatever requests race, each step of a procedure is one legal move, none is skipped and a return leads back to the drafter (`ImplementsProcedure`) |
| `TypeCorrect` | `ProposalEvaluationProofs` | every reachable state has the declared shape, for any persons, limits and bounds (TypeOK) |
| `AssignmentsOfRoundHolds` | `ProposalEvaluationProofs` | assignments that count belong to the current round of the proposal |
| `TeamNeverJudgesHolds` | `ProposalEvaluationProofs` | nobody of the team or in charge of the proposal has a live assignment to judge it (`TeamNeverJudges`) |
| `SubmittedReviewsHold` | `ProposalEvaluationProofs` | a submitted review is never changed or taken back (`SubmittedReviewsStand`) |
| `RouteAgreesHolds` | `ProposalEvaluationProofs` | the package and the council wait for the leadership exactly while their submissions are on the way (`RouteAgrees`) |
| `RefinesProcedure` | `ProposalEvaluationProofs` | the routes of council and package implement the abstract approval procedure (`ImplementsProcedure`) |
| `ThirdPersonsJudge` | `ProposalDecisionProofs` | whoever consolidates or decides is neither on the team nor an author of a review consolidated, although the conflict is looked up before the lock: other reviews are another revision (`NobodyJudgesOwnWork`) |
| `DecidedOnFullCouncil` | `ProposalDecisionProofs` | a decision stands on the finalized revision, on exactly the council and the reviews of the round, for any composition rules (`DecisionOnFullCouncil`) |
| `PackageStaysWhole` | `ProposalDecisionProofs` | the evidence of a package under approval does not move under the signatures, and the leadership can decide on it unless an assignment was unanswered when it was handed in (`PackageHolds`) |
| `CouncilFitsRules` | `ProposalDecisionProofs` | no mixture of direct assignments and accepted invitations exceeds a maximum of the council's roles or seats a person twice (`RoleLimits`) |
| `MembersAcceptedForRound` | `ProposalDecisionProofs` | whoever the leadership seats in a council holds an assignment of the round that was in force or accepted the invitation of this round (`CouncilEstablishedForRound`) |
| `TypeCorrect` | `ProjectLifecycleProofs` | type correctness of a project, for any people, products, reports, amounts and number of rounds (TypeOK) |
| `RequestsHaveTheirPlace` | `ProjectLifecycleProofs` | a request is open only while the project is carried out, with the leadership exactly while its submission is on the way, and always where the one it waits for can answer it (`OpenWorkAgrees`) |
| `SidesStayApart` | `ProjectLifecycleProofs` | nobody of the team, past or present, is the officer or on the council of an open round, in whatever order people move (`Independence`) |
| `OutcomeCorrect` | `ProjectLifecycleProofs` | the status of the project says what the records of its councils say, for any number of rounds and changes of level, and with an officer in charge the closure always has a next step (`OutcomeAgrees`) |
| `MoneyBalances` | `ProjectLifecycleProofs` | an approved liquidation is the finance of the project and balances, for all sums (`LiquidationBalanced`) |
| `ReviewedIsDecided` | `ProjectLifecycleProofs` | the content of a submission on its way changes only with a new submission, and the leadership decides only on what came to it through both heads (`DecidedAsReviewed`) |
| `ConclusionsStand` | `ProjectLifecycleProofs` | an ended round, an approved liquidation and a closed project never change again (`ConcludedStays`) |
| `PhasesImplemented` | `ProjectLifecycleProofs` | the handlers implement ProjectPhases: no phase skipped, no outcome taken back (`ImplementsPhases`) |
| `ConferenceTypeCorrect` | `ConferencesProofs` | the type invariant for any number of guests, persons and requests in flight (TypeOK) |
| `LivePapersHaveGuests` | `ConferencesProofs` | a paper that is not withdrawn belongs to a guest who accepted and has an account (`LivePaperHasGuest`) |
| `LinksKeepFitting` | `ConferencesProofs` | a link that findToken accepts reaches the guest it was mailed to, across edits and revocations that do not lock the conference, with the address written back as the one way out (`LinkKeepsFitting`) |
| `ProgramAndPapersAgree` | `ConferencesProofs` | the published program and the papers agree, by what the lock of the conference leaves to a submission that read the paper (`ProgramAgrees`) |
| `ConferenceOnlyGoesOn` | `ConferencesProofs` | from the end of its submission a conference only goes on, whatever mailing was on its way; only a publication under way when it was closed brings it back (`OnlyPublicationReopens`) |
| `ConferenceImplementsGuestLife` | `ConferencesProofs` | every step of a conference maps to a step of GuestLife or a stutter (`ImplementsGuestLife`) |
| `AccountTypeCorrect` | `AccountsProofs` | the type invariant for any number of sessions, links, challenges and requests in flight (TypeOK) |
| `SessionsAreOfThePassword` | `AccountsProofs` | a session that has not ended was opened with the password in force, however requests cross (`SessionsOfPresentPassword`) |
| `LinksAreOfThePassword` | `AccountsProofs` | at most one reset link is good and it belongs to the present password; the activation links of an account that waits do so too, however many a conference issued beside the others (`LinksOfPresentPassword`) |
| `WrongCodesAreBounded` | `AccountsProofs` | wrong codes of one challenge between two mails stay below the limit plus the requests in flight, by counting what is about to be counted (`WrongCodesBounded`) |
| `ChallengeOpensOneSession` | `AccountsProofs` | the code of one challenge opens one session however many requests carry it (`OneSessionPerChallenge`) |
| `SignInImplementsCredentialLife` | `AccountsProofs` | every step of signing in maps to a step of CredentialLife or a stutter (`ImplementsCredentialLife`) |
| `EthicsTypeCorrect` | `EthicsCouncilProofs` | the type invariant for any people, lists and composition rules (TypeOK) |
| `CouncilIsAsAccepted` | `EthicsCouncilProofs` | the ethics council that is submitted and the one that judges are the people who agreed to their places, for every composition and every list (`CouncilAsAccepted`) |
| `EthicsRouteAgrees` | `EthicsCouncilProofs` | the council and the conclusion are on their way exactly while they wait for an answer, and at the leadership they have all that its decision asks for but a signer (`RouteAgrees`) |
| `CertificateIsEarned` | `EthicsCouncilProofs` | a settled conclusion rests on every reviewer's opinion and a certificate on the signature of an outsider (`CertificateEarned`) |
| `NumberIsOfOneProposal` | `EthicsCouncilProofs` | no two proposals have a certificate of the same number, however numbers are entered, kept and counted (`NumberOfOneProposal`) |
| `NoReviewIsLost` | `EthicsCouncilProofs` | a return by the department, which writes back what it read without the lock, loses no opinion (`NoReviewLost`) |
| `StudentTypeCorrect` | `StudentResearchProofs` | the type invariant for any number of projects, uploads and requests in flight (TypeOK) |
| `ContentIsAccounted` | `StudentResearchProofs` | every listed document has its content and every content is on its way in, listed or lost with a server, for any number of uploads in flight (`ContentAccounted`) |
| `JudgedByAThird` | `StudentResearchProofs` | no student project is approved, returned, completed or cancelled while active by its supervisor, however requests interleave (`JudgedByThirdPerson`) |
| `FinishedIsFinal` | `StudentResearchProofs` | a finished student project and its documents stay as they are (`FinishedStays`) |

Every safety property of the passing runs is proved, the five refinements included. How the proofs go:

* *Routing.* `RoutingInv` strengthens the safety properties: `RowOK` says for each row which steps its stage implies,
  that no reviewing step is by the drafter and that a stage to come has no step yet; `OnePending`; and `LocksAgree`,
  that a locked request's copy of the row is the row and that it is the only holder. `advance` decides on what it
  read, and is right because nobody else can have written in between. One lemma per kind of change to a row (new,
  cancelled, advanced, closed) keeps `RowOK`. `RecordsInv` adds `RecordOK`, what the business record says while a
  submission of it is in progress and after one was signed: without it the content that is signed need not be the one
  reviewed. `TurnInv` adds for `SomebodysTurn` that no board head is asked about a submission of their own
  (`BoardNotOwn`): these begin at the department head, so that one board head is enough, while two department heads are
  needed. For the refinement `PhaseTable` reads the phase of a procedure off its record and rows.
* *Judges.* `TeamNeverJudges` is not inductive: replacing the team looks for duties still open, and a live assignment whose
  window is over is none. `JudgesInv` adds `AssignmentsOfRound`: while the owner has the proposal no assignment is live.
* *Reviews.* `RowStep` describes what any step may do to a row; the action property follows row by row. `ReviewsInv`
  adds that a free row has no review, so that a new assignment overwrites none.
* *Route of a proposal.* `RouteExact` adds to `RouteAgrees` where a closed procedure stands. `RouteStep` shows at once that
  it is kept and that the step is one of `ApprovalProcedure`, hence `RefinesProcedure`.
* *Decisions.* `WrittenInv`: a review is written by somebody who scores. `ThirdInv` is what makes a check before the
  lock good enough: for a call of `decide` in flight, as long as the revision it read is the present one the director is
  neither on the team nor an author of a review consolidated; other reviews are another revision. `FullInv` adds the
  frozen evidence, and `Decidable` that a package under approval belongs to the round, passed the checks and holds a
  full council: the composition is kept on the assignments *captured*, since those that still count are fewer once a
  secretary has left; that is where `PackageHolds` needs its condition. `SeatsInv` counts the seats, where the two
  ways into a council meet (`EstablishStep`).
* *Projects.* `LifeInv` is `TypeOK`, `OpenWork` and `StaffStatusFits` (where requests stand: in a project that is
  carried out, with the leadership while on the way, with the staff in the status of their kind), `Independence`, and
  what relates the records: `PhaseInv` (status against rounds and superior level), `EarlierReturned` (only the last
  round can be other than returned, hence `ConcludedStays`), `ProductsInv`, `LiquidationInv`, `CouncilOnRoute`.
  `Forwarded` says that no council is proposed and no liquidation drafted without a submission of it: the leadership may
  sign a record that was never submitted (rows from before the route), so that `DecidedAsReviewed` would fail if one
  could come into being later. `RequestAnswerable` and `ClosureGoesOn` follow from `LifeInv`. The refinement maps each
  handler to one step of `ProjectPhases` or none.
* *Accounts.* The limit on wrong codes is exceeded by requests that read the counter together, so that it is not
  inductive by itself: `Counted` bounds what is counted plus what is about to be counted (`Wrong`, `Resent`) by the
  limit plus the number of requests. `AboutChallenges`, `OnceOnly` and `NoViaYet` say that the proof of a challenge is
  held by one request or one session and carries the version of the challenge, hence `OneSessionPerChallenge` and the
  refinement of `CredentialLife`, where a proof moves and is never copied. `IssuesPresent` is why a link issued without
  the lock fits: as long as the account waits for its activation nothing changes its password, so that the version an
  acceptance read is the present one; and once the account is active no activation link is good.
* *Conferences.* `ConfInv` has `GuestSound`, what holds of a guest between any two steps, and `CallSound`, what a request in
  flight may still rely on of what it read; `OneSubmit` and `OneWriter` are the locks on the rows of conference and
  guest. A lemma per commit shows that it keeps both; the others' requests lose nothing they rely on, and who holds a
  guest's row (`HeldKept`) keeps its status and its address, and sees no new link while it changes the address. With it
  `LinksStep` gives `LinkKeepsFitting`: a link that a revocation overlooks is one of a revoked guest, one that an edit
  overlooks went to the address that stays. `OnlyPublicationReopens` follows commit by commit: every other writer goes by
  the status it finds, a publication by the one it read.
* *Ethics council.* `ReturnAgrees` is the reason why no opinion is lost: while a return is in flight the data it read is
  still that of the proposal. It is kept because a submission with the department closes every other handler (a submitted
  council takes no list, a submitted conclusion no opinion, and neither can be signed before the department has passed
  it), which is what `RouteAgrees` says of the records; `JudgedOnceSigned` says there is nothing to judge before.
  `DecidableThere` follows, with no strengthening of its own: what closes the other handlers keeps the submission complete.
* *Student research.* `Judging`: as long as the version a judging request read is the present one, its author is of the
  staff and not the supervisor; an edit that changes the supervisor makes every such request stale. `Uploading` accounts
  for contents in flight.

Only model-checked: `EverySubmissionEnds`, since the prover has neither ENABLED nor fairness; its safety half,
`SomebodysTurn`, is proved. The prover also cannot instantiate
induction theorems over data and loses its SMT backend with RECURSIVE operators; the models use no recursion.

## 5. Not modelled, and why

The modules map about a fifth of the lines of the API and a tenth of the repository's implementation. What is left:

* **Web client, seed data**: about half of the implementation. The client is screens over the API, which enforces
  every guard again; it holds no state another client relies on.
* **Reads, lists, exports, dashboards, response objects, DTOs and controllers, audit wording, notifications**: most of
  the rest of the services. No handler reads back what they produce.
* **Capabilities** (`permissions/`) as presented to the client: their conditions are the guards of the modelled handlers.
* **Single-row edits**: catalogs, units, profiles, scientific documents, intake periods (draft, open, closed, under a row
  lock; a proposal reads one once, when it is submitted), the approved budget, the minutes of a council. No later step
  reads them before it writes, or one transition is the whole behaviour.
* **Progress and health of a project**: computed from milestones and dates; nothing modelled depends on the result.
* **Schedule arithmetic of conferences**: times inside a session from a duration and an order; pure functions with unit
  tests beside them. `publish` takes the default duration from the conference it read before its transaction, which is the
  same kind of stale read as the status in `conference_closed`.
* **Files** outside student research: the object is stored before the transaction and removed when it fails; the same
  pattern as in `StudentResearch`, with nothing else at stake.
* **Scores, money beyond balances, texts, dates**: no protocol guard reads them, or only "present or not".
* **The database's unique indexes**: the models do not assume them except where the code relies on the error (one open
  request for a revision, addresses and accounts of guests). `OnePending`, `OutcomeAgrees` and `ConcludedStays` show that
  the other handlers keep to theirs anyway.

## 6. Plan

Done: routing, proposal evaluation with the council, ethics council, projects from set-up to closure, conferences,
sign-in, student research; every safety property proved.

What would be worth adding next, in this order: the times of the program, with the stale default duration; intake periods
as they change while proposals are submitted; the approved budget beside a decision in flight; milestones and baselines,
where `docs/design/nghiem-thu-thanh-ly-dong-de-tai.md` asks more of the acceptance than the code checks.
