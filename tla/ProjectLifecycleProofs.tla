------------------------ MODULE ProjectLifecycleProofs ------------------------
(* Theorems about ProjectLifecycle, for every team, staff, list of products,  *)
(* reports and amounts, and any number of acceptance rounds.                  *)
EXTENDS ProjectLifecycle, SequenceTheorems, TLAPS

-----------------------------------------------------------------------------
(* What the helpers of the handlers do to the types. *)

LEMMA RequestUpdate ==
    ASSUME NEW r \in Request
    PROVE  /\ [r EXCEPT !.current = FALSE] \in Request
           /\ [r EXCEPT !.current = FALSE].status = r.status
           /\ [r EXCEPT !.current = FALSE].change = r.change
           /\ \A s \in RequestStatuses :
                 /\ [r EXCEPT !.status = s] \in Request
                 /\ [r EXCEPT !.status = s].status = s /\ [r EXCEPT !.status = s].change = r.change
                 /\ [r EXCEPT !.status = s, !.current = FALSE] \in Request
                 /\ [r EXCEPT !.status = s, !.current = FALSE].status = s
                 /\ [r EXCEPT !.status = s, !.current = FALSE].change = r.change
  BY DEF Request

LEMMA BumpEffect ==
    ASSUME TypeOK, Bump
    PROVE  /\ request' \in Request /\ request'.status = request.status
           /\ request'.change = request.change
  BY RequestUpdate DEF TypeOK, Bump

LEMMA SetRequestEffect ==
    ASSUME TypeOK, NEW s \in RequestStatuses, SetRequest(s)
    PROVE  request' \in Request /\ request'.status = s /\ request'.change = request.change
  <1>1. request \in Request
    BY DEF TypeOK
  <1>2. request' = [request EXCEPT !.status = s]
    BY DEF SetRequest
  <1> QED
    BY <1>1, <1>2, RequestUpdate

LEMMA SubmissionEffect ==
    ASSUME TypeOK, NEW k \in Kinds
    PROVE  /\ OpenSubmission(k) =>
                 /\ route' \in [Kinds -> Stages] /\ route'[k] = "BOARD_REVIEW"
                 /\ \A j \in Kinds \ {k} : route'[j] = route[j]
           /\ CloseSubmission(k) =>
                 /\ route' \in [Kinds -> Stages] /\ route'[k] \notin Pending
                 /\ \A j \in Kinds \ {k} : route'[j] = route[j]
  BY DEF TypeOK, OpenSubmission, CloseSubmission, Stages, Pending

LEMMA SetStatusEffect ==
    ASSUME TypeOK, NEW s \in Statuses, SetStatus(s)
    PROVE  /\ project' \in [status : Statuses, needsSuperior : BOOLEAN]
           /\ project'.status = s /\ project'.needsSuperior = project.needsSuperior
  BY DEF TypeOK, SetStatus

LEMMA LastRoundType ==
    ASSUME TypeOK, rounds # <<>>
    PROVE  /\ Len(rounds) \in Nat \ {0} /\ Len(rounds) \in 1 .. Len(rounds)
           /\ LastRound \in Round
  <1>1. Len(rounds) \in Nat \ {0}
    BY EmptySeq DEF TypeOK
  <1>2. Len(rounds) \in 1 .. Len(rounds)
    BY <1>1
  <1> QED
    BY <1>1, <1>2, ElementOfSeq DEF TypeOK, LastRound

LEMMA SetRoundEffect ==
    ASSUME TypeOK, rounds # <<>>, NEW r \in Round, SetRound(r)
    PROVE  /\ rounds' \in Seq(Round) /\ rounds' # <<>> /\ Len(rounds') = Len(rounds)
           /\ LastRound' = r
           /\ \A i \in 1 .. Len(rounds) : i # Len(rounds) => rounds'[i] = rounds[i]
  <1>1. Len(rounds) \in Nat \ {0} /\ Len(rounds) \in 1 .. Len(rounds) /\ rounds \in Seq(Round)
    BY LastRoundType DEF TypeOK
  <1>2. /\ rounds' \in Seq(Round) /\ Len(rounds') = Len(rounds)
        /\ \A j \in 1 .. Len(rounds) : rounds'[j] = IF j = Len(rounds) THEN r ELSE rounds[j]
    BY <1>1, ExceptSeq DEF SetRound
  <1>3. rounds' # <<>>
    BY <1>1, <1>2
  <1> QED
    BY <1>1, <1>2, <1>3 DEF LastRound

LEMMA SetRoundStatusEffect ==
    ASSUME TypeOK, rounds # <<>>, NEW s \in RoundStatuses, SetRoundStatus(s)
    PROVE  /\ rounds' \in Seq(Round) /\ rounds' # <<>> /\ Len(rounds') = Len(rounds)
           /\ LastRound'.status = s /\ LastRound'.council = LastRound.council
           /\ \A i \in 1 .. Len(rounds) : i # Len(rounds) => rounds'[i] = rounds[i]
  <1>1. LastRound \in Round
    BY LastRoundType
  <1> DEFINE r == [LastRound EXCEPT !.status = s]
  <1>2. r \in Round /\ r.status = s /\ r.council = LastRound.council
    BY <1>1 DEF Round
  <1>3. SetRound(r)
    BY DEF SetRoundStatus
  <1> HIDE DEF r
  <1> QED
    BY <1>2, <1>3, SetRoundEffect

LEMMA AppendRoundEffect ==
    ASSUME TypeOK, NEW r \in Round, rounds' = Append(rounds, r)
    PROVE  /\ rounds' \in Seq(Round) /\ rounds' # <<>> /\ Len(rounds') = Len(rounds) + 1
           /\ Len(rounds) \in Nat /\ LastRound' = r
           /\ \A i \in 1 .. Len(rounds) : rounds'[i] = rounds[i]
  BY AppendProperties, LenProperties DEF TypeOK, LastRound

-----------------------------------------------------------------------------
(* Type correctness is inductive. *)
LEMMA TypeInit == Init => TypeOK
  <1> SUFFICES ASSUME Init PROVE TypeOK
    OBVIOUS
  <1>1. project \in [status : Statuses, needsSuperior : BOOLEAN]
    BY DEF Init, Statuses
  <1>2. officer \in Staff \cup {None} /\ members \subseteq People /\ team \subseteq People
        /\ members \subseteq team
    BY LifecycleAssumption DEF Init
  <1>3. /\ checkpoint \in [Checkpoints -> {"none", "open", "completed"}]
        /\ reports \in [Reports -> [status : ReportStatuses, checkpoint : Checkpoints \cup {None}]]
    BY DEF Init, ReportStatuses
  <1>4. request \in Request
    BY DEF Init, Request, RequestStatuses
  <1>5. /\ route \in [Kinds -> Stages]
        /\ products \in [Products -> [status : ProductStatuses, panel : SUBSET Experts]]
    BY DEF Init, Stages, ProductStatuses
  <1>6. rounds \in Seq(Round)
    BY DEF Init
  <1>7. superior \in [status : SuperiorStatuses, complete : BOOLEAN]
    BY DEF Init, SuperiorStatuses
  <1>8. finance \in [disbursed : Amounts, settled : Amounts] /\ liquidation \in Liquidation
    BY LifecycleAssumption DEF Init, Liquidation
  <1> QED
    BY <1>1, <1>2, <1>3, <1>4, <1>5, <1>6, <1>7, <1>8 DEF TypeOK

LEMMA TypeSetUp == TypeOK /\ SetUp => TypeOK'
  <1> SUFFICES ASSUME TypeOK, SetUp PROVE TypeOK'
    OBVIOUS
  <1> USE DEF TypeOK
  <1>1. Bump
    BY DEF SetUp, revokeOfficer, assignOfficer, configureSetup, confirmSetup
  <1>2. request' \in Request
    BY <1>1, BumpEffect
  <1>3. ASSUME NEW a \in Assigners,
               revokeOfficer(a) \/ \E p \in Staff : assignOfficer(a, p)
        PROVE TypeOK'
    BY <1>2, <1>3 DEF revokeOfficer, assignOfficer, work, closure
  <1>4. CASE configureSetup
    BY <1>2, <1>4 DEF configureSetup, people, closure
  <1>5. CASE confirmSetup
    <2>1. project' \in [status : Statuses, needsSuperior : BOOLEAN]
      BY <1>5, SetStatusEffect DEF confirmSetup, Statuses
    <2> QED
      BY <1>2, <1>5, <2>1 DEF confirmSetup, people, work, closure
  <1> QED
    BY <1>3, <1>4, <1>5 DEF SetUp

LEMMA TypeReporting == TypeOK /\ Reporting => TypeOK'
  <1> SUFFICES ASSUME TypeOK, Reporting PROVE TypeOK'
    OBVIOUS
  <1> USE DEF TypeOK
  <1>1. ReportUnchanged
    BY DEF Reporting, createReportDraft, updateReportDraft, submitReport, reviewReport,
       requestReportSupplement, acceptReport
  <1>2. request' \in Request
    <2>1. request' = request \/ Bump
      BY DEF Reporting, createReportDraft, updateReportDraft, submitReport, reviewReport,
         requestReportSupplement, acceptReport
    <2> QED
      BY <2>1, BumpEffect
  <1>3. reports' \in [Reports -> [status : ReportStatuses, checkpoint : Checkpoints \cup {None}]]
    <2>1. ASSUME NEW r \in Reports, NEW s \in ReportStatuses, SetReport(r, s)
          PROVE  reports' \in [Reports -> [status : ReportStatuses, checkpoint : Checkpoints \cup {None}]]
      <3>1. [reports[r] EXCEPT !.status = s] \in [status : ReportStatuses, checkpoint : Checkpoints \cup {None}]
        OBVIOUS
      <3>2. reports' = [reports EXCEPT ![r] = [reports[r] EXCEPT !.status = s]]
        BY <2>1 DEF SetReport
      <3> DEFINE row == [reports[r] EXCEPT !.status = s]
      <3> HIDE DEF row
      <3> QED
        BY <3>1, <3>2 DEF row
    <2>2. ASSUME NEW r \in Reports, NEW q \in Reports, NEW c \in Checkpoints \cup {None},
                 createReportDraft(r, c) \/ updateReportDraft(r, q, c)
          PROVE  reports' \in [Reports -> [status : ReportStatuses, checkpoint : Checkpoints \cup {None}]]
      <3> DEFINE row == [status |-> "draft", checkpoint |-> c]
      <3>1. row \in [status : ReportStatuses, checkpoint : Checkpoints \cup {None}]
        BY DEF ReportStatuses
      <3>2. reports' = [reports EXCEPT ![r] = row] \/ reports' = [reports EXCEPT ![q] = row]
        BY <2>2 DEF createReportDraft, updateReportDraft
      <3> HIDE DEF row
      <3> QED
        BY <3>1, <3>2
    <2>3. ASSUME NEW r \in Reports,
                 submitReport(r) \/ reviewReport(r) \/ requestReportSupplement(r) \/ acceptReport(r)
          PROVE  \E s \in ReportStatuses : SetReport(r, s)
      BY <2>3 DEF submitReport, reviewReport, requestReportSupplement, acceptReport, ReportStatuses
    <2> QED
      BY <2>1, <2>2, <2>3 DEF Reporting
  <1>4. checkpoint' \in [Checkpoints -> {"none", "open", "completed"}]
    BY DEF Reporting, createReportDraft, updateReportDraft, submitReport, reviewReport,
       requestReportSupplement, acceptReport
  <1> QED
    BY <1>1, <1>2, <1>3, <1>4 DEF ReportUnchanged, people, closure

(* A team change keeps the history of the team and the type of the project. *)
LEMMA ChangeType ==
    ASSUME TypeOK, ApplyChange(request.change)
    PROVE  /\ project' \in [status : Statuses, needsSuperior : BOOLEAN]
           /\ project'.status = project.status
           /\ request.change.op # "level" => project' = project
           /\ members' \subseteq People /\ team' \subseteq People /\ members' \subseteq team'
           /\ team \subseteq team'
           /\ \/ members' \subseteq members /\ team' = team
              \/ /\ MayJoin(request.change.person)
                 /\ members' = members \cup {request.change.person}
  <1>0. request.change.op = "add" => request.change.person \in People
    BY LifecycleAssumption DEF TypeOK, Request, NoChange
  <1>1. CASE request.change.op = "add"
    <2>1. /\ MayJoin(request.change.person)
          /\ members' = members \cup {request.change.person}
          /\ team' = team \cup {request.change.person}
          /\ UNCHANGED project
      BY <1>1, Zenon DEF ApplyChange
    <2> QED
      BY <1>0, <1>1, <2>1 DEF TypeOK
  <1>2. CASE request.change.op = "end"
    <2>1. members' = members \ {request.change.person} /\ UNCHANGED <<team, project>>
      BY <1>2, Zenon DEF ApplyChange
    <2> QED
      BY <1>2, <2>1 DEF TypeOK
  <1>3. CASE request.change.op = "level"
    <2>1. project' = [project EXCEPT !.needsSuperior = ~@] /\ UNCHANGED <<members, team>>
      BY <1>3, Zenon DEF ApplyChange
    <2> QED
      BY <1>3, <2>1 DEF TypeOK
  <1>4. CASE request.change.op \notin {"add", "end", "level"}
    <2>1. UNCHANGED <<members, team, project>>
      BY <1>4, Zenon DEF ApplyChange
    <2> QED
      BY <1>4, <2>1 DEF TypeOK
  <1> QED
    BY <1>1, <1>2, <1>3, <1>4

LEMMA TypeRequesting == TypeOK /\ Requesting => TypeOK'
  <1> SUFFICES ASSUME TypeOK, Requesting PROVE TypeOK'
    OBVIOUS
  <1>0. RequestUnchanged
    BY DEF Requesting, createRequest, editRequestDraft, submitRequest, reviewRequest,
       prepareRequest, requestSupplement, approveRequest, rejectRequest, advance, returnToStaff
  <1>1. ASSUME request' \in Request, route' \in [Kinds -> Stages], UNCHANGED <<project, people>>
        PROVE TypeOK'
    BY <1>0, <1>1 DEF TypeOK, RequestUnchanged, people, work, closure
  <1>2. ASSUME NEW c \in Changes, createRequest(c) PROVE TypeOK'
    <2>1. request' \in Request
      BY <1>2 DEF createRequest, Request, RequestStatuses
    <2>2. route' \in [Kinds -> Stages]
      BY <1>2 DEF createRequest, TypeOK, Stages
    <2> QED
      BY <1>1, <1>2, <2>1, <2>2 DEF createRequest
  <1>3. ASSUME NEW c \in Changes, editRequestDraft(c) PROVE TypeOK'
    <2>1. request' \in Request
      BY <1>3 DEF editRequestDraft, Request, RequestStatuses
    <2> QED
      BY <1>1, <1>3, <2>1 DEF editRequestDraft, TypeOK
  <1>4. StaffStatus \in RequestStatuses
    BY DEF StaffStatus, RequestStatuses
  <1>5. CASE submitRequest \/ reviewRequest
    <2>1. request' \in Request
      BY <1>4, <1>5, SetRequestEffect DEF submitRequest, reviewRequest, RequestStatuses
    <2> QED
      BY <1>1, <1>5, <2>1 DEF submitRequest, reviewRequest, TypeOK
  <1>6. CASE prepareRequest
    <2>1. request' \in Request
      BY <1>6, SetRequestEffect DEF prepareRequest, RequestStatuses
    <2>2. route' \in [Kinds -> Stages]
      BY <1>6, SubmissionEffect DEF prepareRequest, Kinds
    <2> QED
      BY <1>1, <1>6, <2>1, <2>2 DEF prepareRequest
  <1>7. ASSUME NEW d \in Leaders, requestSupplement(d) \/ rejectRequest(d) PROVE TypeOK'
    <2>1. request' \in Request
      BY <1>7, SetRequestEffect DEF requestSupplement, rejectRequest, RequestStatuses
    <2>2. route' \in [Kinds -> Stages]
      BY <1>7, SubmissionEffect DEF requestSupplement, rejectRequest, Kinds, TypeOK
    <2> QED
      BY <1>1, <1>7, <2>1, <2>2 DEF requestSupplement, rejectRequest
  <1>8. ASSUME NEW d \in Leaders, approveRequest(d) PROVE TypeOK'
    <2>1. request' \in Request
      BY <1>8, RequestUpdate DEF approveRequest, TypeOK, RequestStatuses
    <2>2. route' \in [Kinds -> Stages]
      BY <1>8, SubmissionEffect DEF approveRequest, Kinds
    <2>3. /\ project' \in [status : Statuses, needsSuperior : BOOLEAN]
          /\ members' \subseteq People /\ team' \subseteq People /\ members' \subseteq team'
      BY <1>8, ChangeType DEF approveRequest
    <2> QED
      BY <1>0, <1>8, <2>1, <2>2, <2>3 DEF approveRequest, TypeOK, RequestUnchanged, work, closure
  <1>9. ASSUME NEW k \in Kinds, advance(k) PROVE TypeOK'
    <2>1. route' \in [Kinds -> Stages]
      BY <1>9 DEF advance, TypeOK, Stages, Pending
    <2> QED
      BY <1>1, <1>9, <2>1 DEF advance, TypeOK
  <1>10. ASSUME NEW k \in Kinds, returnToStaff(k) PROVE TypeOK'
    <2>1. request' \in Request
      BY <1>4, <1>10, SetRequestEffect DEF returnToStaff, revertOnReturn, TypeOK
    <2>2. route' \in [Kinds -> Stages]
      BY <1>10, SubmissionEffect DEF returnToStaff
    <2> QED
      BY <1>1, <1>10, <2>1, <2>2 DEF returnToStaff
  <1> QED
    BY <1>2, <1>3, <1>5, <1>6, <1>7, <1>8, <1>9, <1>10 DEF Requesting

LEMMA SetProductEffect ==
    ASSUME TypeOK, NEW p \in Products, NEW s \in ProductStatuses, NEW panel \in SUBSET Experts,
           SetProduct(p, s, panel)
    PROVE  /\ products' \in [Products -> [status : ProductStatuses, panel : SUBSET Experts]]
           /\ products'[p].status = s
           /\ \A q \in Products \ {p} : products'[q] = products[q]
  <1> DEFINE row == [status |-> s, panel |-> panel]
  <1>1. row \in [status : ProductStatuses, panel : SUBSET Experts] /\ row.status = s
    OBVIOUS
  <1>2. products' = [products EXCEPT ![p] = row]
    BY DEF SetProduct
  <1> HIDE DEF row
  <1> QED
    BY <1>1, <1>2 DEF TypeOK

LEMMA TypeProducing == TypeOK /\ Producing => TypeOK'
  <1> SUFFICES ASSUME TypeOK, Producing PROVE TypeOK'
    OBVIOUS
  <1>1. Bump /\ ProductUnchanged
    BY DEF Producing, saveProducts, submitProduct, formProductPanel, recordProductReview
  <1>2. request' \in Request
    BY <1>1, BumpEffect
  <1>3. products' \in [Products -> [status : ProductStatuses, panel : SUBSET Experts]]
    <2>1. ASSUME NEW planned \in SUBSET Products, saveProducts(planned)
          PROVE  products' \in [Products -> [status : ProductStatuses, panel : SUBSET Experts]]
      <3>1. ASSUME NEW p \in Products, NEW s \in {"PLANNED", "ABSENT"}
            PROVE  [products[p] EXCEPT !.status = s] \in [status : ProductStatuses, panel : SUBSET Experts]
        BY <3>1 DEF TypeOK, ProductStatuses
      <3> DEFINE row(p) == IF products[p].status \in {"ABSENT", "PLANNED"}
                           THEN [products[p] EXCEPT !.status = IF p \in planned THEN "PLANNED" ELSE "ABSENT"]
                           ELSE products[p]
      <3>2. \A p \in Products : row(p) \in [status : ProductStatuses, panel : SUBSET Experts]
        BY <3>1 DEF TypeOK
      <3>3. products' = [p \in Products |-> row(p)]
        BY <2>1 DEF saveProducts
      <3> HIDE DEF row
      <3> QED
        BY <3>2, <3>3
    <2>2. ASSUME NEW p \in Products, NEW panel \in SUBSET Experts,
                 submitProduct(p) \/ formProductPanel(p, panel)
                 \/ recordProductReview(p, "PASSED") \/ recordProductReview(p, "FAILED")
          PROVE  \E s \in ProductStatuses, x \in SUBSET Experts : SetProduct(p, s, x)
      BY <2>2 DEF submitProduct, formProductPanel, recordProductReview, ProductStatuses
    <2> QED
      BY <2>1, <2>2, SetProductEffect DEF Producing
  <1> QED
    BY <1>1, <1>2, <1>3 DEF TypeOK, ProductUnchanged, people, work, closure

LEMMA SuperiorUpdate ==
    ASSUME NEW x \in [status : SuperiorStatuses, complete : BOOLEAN]
    PROVE  /\ \A s \in SuperiorStatuses :
                 /\ [x EXCEPT !.status = s] \in [status : SuperiorStatuses, complete : BOOLEAN]
                 /\ [x EXCEPT !.status = s].status = s
           /\ \A b \in BOOLEAN :
                 /\ [x EXCEPT !.complete = b] \in [status : SuperiorStatuses, complete : BOOLEAN]
                 /\ [x EXCEPT !.complete = b].status = x.status
  OBVIOUS

LEMMA ConcludeEffect ==
    ASSUME TypeOK, concludeFacilityAcceptance
    PROVE  /\ project' \in [status : Statuses, needsSuperior : BOOLEAN]
           /\ superior' \in [status : SuperiorStatuses, complete : BOOLEAN]
           /\ project'.needsSuperior = project.needsSuperior
           /\ \/ /\ project.needsSuperior /\ project'.status = "pending_superior_acceptance"
                 /\ superior'.status = "PREPARING"
              \/ /\ ~project.needsSuperior /\ project'.status = "accepted"
                 /\ superior' = superior
  <1>1. superior \in [status : SuperiorStatuses, complete : BOOLEAN]
    BY DEF TypeOK
  <1>2. CASE project.needsSuperior
    <2>1. SetStatus("pending_superior_acceptance")
          /\ superior' = [superior EXCEPT !.status = "PREPARING"]
      BY <1>2 DEF concludeFacilityAcceptance
    <2> QED
      BY <1>1, <1>2, <2>1, SetStatusEffect, SuperiorUpdate DEF Statuses, SuperiorStatuses
  <1>3. CASE ~project.needsSuperior
    <2>1. SetStatus("accepted") /\ superior' = superior
      BY <1>3 DEF concludeFacilityAcceptance
    <2> QED
      BY <1>1, <1>3, <2>1, SetStatusEffect DEF Statuses
  <1> QED
    BY <1>2, <1>3

(* What the acceptance handlers do to the round, the project and the superior record, one *)
(* lemma per handler, used for the types and again for the invariants.                    *)

LEMMA SubmitAcceptanceEffect ==
    ASSUME TypeOK, submitAcceptance
    PROVE  /\ project' \in [status : Statuses, needsSuperior : BOOLEAN]
           /\ project'.status = "pending_acceptance" /\ project'.needsSuperior = project.needsSuperior
           /\ rounds' \in Seq(Round) /\ rounds' # <<>> /\ Len(rounds') = Len(rounds) + 1
           /\ LastRound'.status = "SUBMITTED" /\ LastRound'.council = {}
           /\ \A i \in 1 .. Len(rounds) : rounds'[i] = rounds[i]
           /\ route' \in [Kinds -> Stages] /\ route'["ACCEPTANCE_COUNCIL"] = "NONE"
           /\ \A k \in Kinds \ {"ACCEPTANCE_COUNCIL"} : route'[k] = route[k]
  <1> DEFINE r == [status |-> "SUBMITTED", council |-> {}]
  <1>1. r \in Round /\ r.status = "SUBMITTED" /\ r.council = {}
    BY DEF Round, RoundStatuses
  <1>2. rounds' = Append(rounds, r)
    BY DEF submitAcceptance
  <1>3. SetStatus("pending_acceptance")
    BY DEF submitAcceptance
  <1> HIDE DEF r
  <1>4. /\ rounds' \in Seq(Round) /\ rounds' # <<>> /\ Len(rounds') = Len(rounds) + 1
        /\ LastRound' = r /\ \A i \in 1 .. Len(rounds) : rounds'[i] = rounds[i]
    BY <1>1, <1>2, AppendRoundEffect
  <1>5. /\ project' \in [status : Statuses, needsSuperior : BOOLEAN]
        /\ project'.status = "pending_acceptance" /\ project'.needsSuperior = project.needsSuperior
    BY <1>3, SetStatusEffect DEF Statuses
  <1>6. /\ route' \in [Kinds -> Stages] /\ route'["ACCEPTANCE_COUNCIL"] = "NONE"
        /\ \A k \in Kinds \ {"ACCEPTANCE_COUNCIL"} : route'[k] = route[k]
    BY DEF submitAcceptance, TypeOK, Kinds, Stages
  <1> QED
    BY <1>1, <1>4, <1>5, <1>6

LEMMA ReturnAcceptanceEffect ==
    ASSUME TypeOK, returnAcceptance
    PROVE  /\ project' \in [status : Statuses, needsSuperior : BOOLEAN]
           /\ project'.status = "executing" /\ project'.needsSuperior = project.needsSuperior
           /\ rounds' \in Seq(Round) /\ rounds' # <<>> /\ Len(rounds') = Len(rounds)
           /\ LastRound'.status = "RETURNED"
           /\ \A i \in 1 .. Len(rounds) : i # Len(rounds) => rounds'[i] = rounds[i]
  <1>1. rounds # <<>> /\ SetRoundStatus("RETURNED") /\ SetStatus("executing")
    BY DEF returnAcceptance, CurrentRound
  <1> QED
    BY <1>1, SetRoundStatusEffect, SetStatusEffect DEF Statuses, RoundStatuses

LEMMA ProposeCouncilEffect ==
    ASSUME TypeOK, NEW council \in SUBSET Experts, proposeCouncil(council)
    PROVE  /\ rounds' \in Seq(Round) /\ rounds' # <<>> /\ Len(rounds') = Len(rounds)
           /\ LastRound'.status = "COUNCIL_PROPOSED" /\ LastRound'.council = council
           /\ \A i \in 1 .. Len(rounds) : i # Len(rounds) => rounds'[i] = rounds[i]
           /\ route' \in [Kinds -> Stages] /\ route'["ACCEPTANCE_COUNCIL"] = "BOARD_REVIEW"
           /\ \A k \in Kinds \ {"ACCEPTANCE_COUNCIL"} : route'[k] = route[k]
  <1> DEFINE r == [status |-> "COUNCIL_PROPOSED", council |-> council]
  <1>1. r \in Round /\ r.status = "COUNCIL_PROPOSED" /\ r.council = council
    BY DEF Round, RoundStatuses
  <1>2. rounds # <<>> /\ SetRound(r) /\ OpenSubmission("ACCEPTANCE_COUNCIL")
    BY DEF proposeCouncil, CurrentRound
  <1> HIDE DEF r
  <1> QED
    BY <1>1, <1>2, SetRoundEffect, SubmissionEffect DEF Kinds

LEMMA EstablishCouncilEffect ==
    ASSUME TypeOK, NEW d \in Leaders, establishCouncil(d)
    PROVE  /\ rounds' \in Seq(Round) /\ rounds' # <<>> /\ Len(rounds') = Len(rounds)
           /\ LastRound'.status = "COUNCIL_ESTABLISHED" /\ LastRound'.council = LastRound.council
           /\ \A i \in 1 .. Len(rounds) : i # Len(rounds) => rounds'[i] = rounds[i]
           /\ route' \in [Kinds -> Stages] /\ route'["ACCEPTANCE_COUNCIL"] \notin Pending
           /\ \A k \in Kinds \ {"ACCEPTANCE_COUNCIL"} : route'[k] = route[k]
  <1>1. /\ rounds # <<>> /\ SetRoundStatus("COUNCIL_ESTABLISHED")
        /\ CloseSubmission("ACCEPTANCE_COUNCIL")
    BY DEF establishCouncil, CurrentRound
  <1> QED
    BY <1>1, SetRoundStatusEffect, SubmissionEffect DEF Kinds, RoundStatuses

(* How the council of a round can leave it: for another revision, or for good. *)
LEMMA VerdictEffect ==
    ASSUME TypeOK,
           (\E result \in {"PASSED", "FAILED", "REVISION_REQUIRED"} : recordMinutes(result))
           \/ submitRevision \/ (\E accept \in BOOLEAN : confirmRevision(accept))
    PROVE  /\ project' \in [status : Statuses, needsSuperior : BOOLEAN]
           /\ superior' \in [status : SuperiorStatuses, complete : BOOLEAN]
           /\ project'.needsSuperior = project.needsSuperior
           /\ rounds # <<>> /\ rounds' \in Seq(Round) /\ rounds' # <<>> /\ Len(rounds') = Len(rounds)
           /\ LastRound'.council = LastRound.council
           /\ \A i \in 1 .. Len(rounds) : i # Len(rounds) => rounds'[i] = rounds[i]
           /\ \/ /\ LastRound'.status \in {"REVISION_REQUIRED", "REVISION_SUBMITTED"}
                 /\ UNCHANGED <<project, superior>>
              \/ /\ LastRound'.status = "FAILED" /\ project'.status = "failed" /\ superior' = superior
              \/ /\ LastRound'.status = "PASSED"
                 /\ project.needsSuperior /\ project'.status = "pending_superior_acceptance"
                 /\ superior'.status = "PREPARING"
              \/ /\ LastRound'.status = "PASSED"
                 /\ ~project.needsSuperior /\ project'.status = "accepted" /\ superior' = superior
  <1>1. rounds # <<>>
    BY DEF recordMinutes, submitRevision, confirmRevision, CurrentRound
  <1>2. \/ /\ SetRoundStatus("REVISION_REQUIRED") \/ SetRoundStatus("REVISION_SUBMITTED")
           /\ UNCHANGED <<project, superior>>
        \/ SetRoundStatus("FAILED") /\ SetStatus("failed") /\ UNCHANGED superior
        \/ SetRoundStatus("PASSED") /\ concludeFacilityAcceptance
    BY Zenon DEF recordMinutes, submitRevision, confirmRevision
  <1>3. \A s \in RoundStatuses : SetRoundStatus(s) =>
           /\ rounds' \in Seq(Round) /\ rounds' # <<>> /\ Len(rounds') = Len(rounds)
           /\ LastRound'.status = s /\ LastRound'.council = LastRound.council
           /\ \A i \in 1 .. Len(rounds) : i # Len(rounds) => rounds'[i] = rounds[i]
    BY <1>1, SetRoundStatusEffect
  <1>4. {"REVISION_REQUIRED", "REVISION_SUBMITTED", "FAILED", "PASSED"} \subseteq RoundStatuses
    BY DEF RoundStatuses
  <1>5. CASE (SetRoundStatus("REVISION_REQUIRED") \/ SetRoundStatus("REVISION_SUBMITTED"))
             /\ UNCHANGED <<project, superior>>
    BY <1>1, <1>3, <1>4, <1>5 DEF TypeOK
  <1>6. CASE SetRoundStatus("FAILED") /\ SetStatus("failed") /\ UNCHANGED superior
    <2>1. /\ project' \in [status : Statuses, needsSuperior : BOOLEAN]
          /\ project'.status = "failed" /\ project'.needsSuperior = project.needsSuperior
      BY <1>6, SetStatusEffect DEF Statuses
    <2> QED
      BY <1>1, <1>3, <1>4, <1>6, <2>1 DEF TypeOK
  <1>7. CASE SetRoundStatus("PASSED") /\ concludeFacilityAcceptance
    BY <1>1, <1>3, <1>4, <1>7, ConcludeEffect
  <1> QED
    BY <1>2, <1>5, <1>6, <1>7

LEMMA SuperiorEffect ==
    ASSUME TypeOK,
           \/ \E complete \in BOOLEAN : saveSuperiorDossier(complete)
           \/ sendSuperiorRequest
           \/ \E result \in {"PASSED", "FAILED"} : recordSuperiorResult(result)
    PROVE  /\ project' \in [status : Statuses, needsSuperior : BOOLEAN]
           /\ superior' \in [status : SuperiorStatuses, complete : BOOLEAN]
           /\ project'.needsSuperior = project.needsSuperior
           /\ SuperiorUnchanged /\ project.status = "pending_superior_acceptance"
           /\ \/ superior'.status \in {"PREPARING", "SENT"} /\ project' = project
              \/ superior'.status = "PASSED" /\ project'.status = "accepted"
              \/ superior'.status = "FAILED" /\ project'.status = "failed"
  <1>0. superior \in [status : SuperiorStatuses, complete : BOOLEAN]
    BY DEF TypeOK
  <1>1. ASSUME NEW complete \in BOOLEAN, saveSuperiorDossier(complete)
        PROVE  /\ superior' \in [status : SuperiorStatuses, complete : BOOLEAN]
               /\ superior'.status = "PREPARING" /\ project' = project
    BY <1>0, <1>1, SuperiorUpdate DEF saveSuperiorDossier
  <1>2. CASE sendSuperiorRequest
    <2>1. /\ superior' \in [status : SuperiorStatuses, complete : BOOLEAN]
          /\ superior'.status = "SENT" /\ project' = project
      BY <1>0, <1>2, SuperiorUpdate DEF sendSuperiorRequest, SuperiorStatuses
    <2> QED
      BY <1>2, <2>1 DEF sendSuperiorRequest, TypeOK
  <1>3. ASSUME NEW result \in {"PASSED", "FAILED"}, recordSuperiorResult(result)
        PROVE  /\ superior' \in [status : SuperiorStatuses, complete : BOOLEAN]
               /\ superior'.status = result
               /\ project' \in [status : Statuses, needsSuperior : BOOLEAN]
               /\ project'.status = IF result = "PASSED" THEN "accepted" ELSE "failed"
               /\ project'.needsSuperior = project.needsSuperior
    <2>1. superior' = [superior EXCEPT !.status = result]
          /\ SetStatus(IF result = "PASSED" THEN "accepted" ELSE "failed")
      BY <1>3 DEF recordSuperiorResult
    <2>2. result \in SuperiorStatuses /\ (IF result = "PASSED" THEN "accepted" ELSE "failed") \in Statuses
      BY DEF SuperiorStatuses, Statuses
    <2> QED
      BY <1>0, <2>1, <2>2, SuperiorUpdate, SetStatusEffect
  <1>4. SuperiorUnchanged /\ project.status = "pending_superior_acceptance"
    BY DEF saveSuperiorDossier, sendSuperiorRequest, recordSuperiorResult
  <1> QED
    BY <1>1, <1>2, <1>3, <1>4 DEF TypeOK

LEMMA TypeAccepting == TypeOK /\ Accepting => TypeOK'
  <1> SUFFICES ASSUME TypeOK, Accepting PROVE TypeOK'
    OBVIOUS
  <1>1. Bump /\ RoundUnchanged
    BY DEF Accepting, submitAcceptance, returnAcceptance, submitRevision, proposeCouncil,
       establishCouncil, recordMinutes, confirmRevision, saveSuperiorDossier, sendSuperiorRequest,
       recordSuperiorResult, SuperiorUnchanged
  <1>2. request' \in Request
    BY <1>1, BumpEffect
  <1>3. ASSUME project' \in [status : Statuses, needsSuperior : BOOLEAN], rounds' \in Seq(Round),
               route' \in [Kinds -> Stages],
               superior' \in [status : SuperiorStatuses, complete : BOOLEAN]
        PROVE  TypeOK'
    BY <1>1, <1>2, <1>3 DEF TypeOK, RoundUnchanged, people, work
  <1>4. CASE submitAcceptance
    <2>1. superior' = superior
      BY <1>4 DEF submitAcceptance
    <2> QED
      BY <1>3, <1>4, <2>1, SubmitAcceptanceEffect DEF TypeOK
  <1>5. CASE returnAcceptance
    <2>1. UNCHANGED <<route, superior>>
      BY <1>5 DEF returnAcceptance
    <2> QED
      BY <1>3, <1>5, <2>1, ReturnAcceptanceEffect DEF TypeOK
  <1>6. ASSUME NEW council \in SUBSET Experts, proposeCouncil(council) PROVE TypeOK'
    <2>1. UNCHANGED <<project, superior>>
      BY <1>6 DEF proposeCouncil
    <2> QED
      BY <1>3, <1>6, <2>1, ProposeCouncilEffect DEF TypeOK
  <1>7. ASSUME NEW d \in Leaders, establishCouncil(d) PROVE TypeOK'
    <2>1. UNCHANGED <<project, superior>>
      BY <1>7 DEF establishCouncil
    <2> QED
      BY <1>3, <1>7, <2>1, EstablishCouncilEffect DEF TypeOK
  <1>8. CASE (\E result \in {"PASSED", "FAILED", "REVISION_REQUIRED"} : recordMinutes(result))
             \/ submitRevision \/ (\E accept \in BOOLEAN : confirmRevision(accept))
    <2>1. UNCHANGED route
      BY <1>8 DEF recordMinutes, submitRevision, confirmRevision
    <2> QED
      BY <1>3, <1>8, <2>1, VerdictEffect DEF TypeOK
  <1>9. CASE \/ \E complete \in BOOLEAN : saveSuperiorDossier(complete)
             \/ sendSuperiorRequest
             \/ \E result \in {"PASSED", "FAILED"} : recordSuperiorResult(result)
    <2>1. /\ project' \in [status : Statuses, needsSuperior : BOOLEAN]
          /\ superior' \in [status : SuperiorStatuses, complete : BOOLEAN]
          /\ SuperiorUnchanged
      BY <1>9, SuperiorEffect
    <2> QED
      BY <1>3, <2>1 DEF TypeOK, SuperiorUnchanged
  <1> QED
    BY <1>4, <1>5, <1>6, <1>7, <1>8, <1>9 DEF Accepting

LEMMA TypeClosing == TypeOK /\ Closing => TypeOK'
  <1> SUFFICES ASSUME TypeOK, Closing PROVE TypeOK'
    OBVIOUS
  <1>0. MoneyUnchanged
    BY DEF Closing, updateFinance, prepareLiquidation, approveLiquidation, closeProject
  <1>1. request' \in Request
    <2>1. request' = request \/ Bump
      BY DEF Closing, updateFinance, prepareLiquidation, approveLiquidation, closeProject
    <2> QED
      BY <2>1, BumpEffect DEF TypeOK
  <1>2. ASSUME NEW a \in People, NEW d \in Amounts, NEW s \in Amounts, updateFinance(a, d, s)
        PROVE  TypeOK'
    BY <1>0, <1>2 DEF TypeOK, updateFinance, MoneyUnchanged, people, work
  <1>3. ASSUME NEW recovered \in Amounts, prepareLiquidation(recovered) PROVE TypeOK'
    <2>1. liquidation' \in Liquidation
      BY <1>3 DEF prepareLiquidation, Liquidation, TypeOK
    <2>2. route' \in [Kinds -> Stages]
      BY <1>3, SubmissionEffect DEF prepareLiquidation, Kinds
    <2> QED
      BY <1>0, <1>1, <1>3, <2>1, <2>2 DEF TypeOK, prepareLiquidation, MoneyUnchanged, people, work
  <1>4. ASSUME NEW d \in Directors, approveLiquidation(d) PROVE TypeOK'
    <2>1. liquidation' \in Liquidation
      BY <1>4 DEF approveLiquidation, Liquidation, TypeOK
    <2>2. route' \in [Kinds -> Stages]
      BY <1>4, SubmissionEffect DEF approveLiquidation, Kinds
    <2> QED
      BY <1>0, <1>1, <1>4, <2>1, <2>2 DEF TypeOK, approveLiquidation, MoneyUnchanged, people, work
  <1>5. CASE closeProject
    <2>1. project' \in [status : Statuses, needsSuperior : BOOLEAN]
      BY <1>5, SetStatusEffect DEF closeProject, Statuses
    <2> QED
      BY <1>0, <1>1, <1>5, <2>1 DEF TypeOK, closeProject, MoneyUnchanged, people, work
  <1> QED
    BY <1>2, <1>3, <1>4, <1>5 DEF Closing

LEMMA TypeNext == TypeOK /\ [Next]_vars => TypeOK'
  <1>1. ASSUME TypeOK, UNCHANGED vars PROVE TypeOK'
    BY <1>1 DEF TypeOK, vars
  <1> QED
    BY <1>1, TypeSetUp, TypeReporting, TypeRequesting, TypeProducing, TypeAccepting, TypeClosing
       DEF Next

(* The records of a project keep their shape, and everyone on its team stays in the history *)
(* of the team that the councils are checked against, whatever the handlers write.           *)
THEOREM TypeCorrect == Spec => []TypeOK
  BY TypeInit, TypeNext, PTL DEF Spec

-----------------------------------------------------------------------------
(* Open requests and reports belong to a project that is carried out. *)

\* Only the handlers of the requests move a request or its submission.
LEMMA RequestUntouched ==
    ASSUME TypeOK, SetUp \/ Reporting \/ Producing \/ Accepting \/ Closing
    PROVE  /\ request'.status = request.status /\ request'.change = request.change
           /\ route'["REQUEST"] = route["REQUEST"]
  <1>1. request' = request \/ Bump
    BY DEF SetUp, Reporting, Producing, Accepting, Closing, revokeOfficer, assignOfficer,
       configureSetup, confirmSetup, createReportDraft, updateReportDraft, submitReport,
       reviewReport, requestReportSupplement, acceptReport, saveProducts, submitProduct,
       formProductPanel, recordProductReview, submitAcceptance, returnAcceptance, submitRevision,
       proposeCouncil, establishCouncil, recordMinutes, confirmRevision, saveSuperiorDossier,
       sendSuperiorRequest, recordSuperiorResult, updateFinance, prepareLiquidation,
       approveLiquidation, closeProject
  <1>2. CASE SetUp \/ Reporting \/ Producing
    <2>1. route' = route
      BY <1>2 DEF SetUp, Reporting, Producing, revokeOfficer, assignOfficer, configureSetup,
         confirmSetup, createReportDraft, updateReportDraft, submitReport, reviewReport,
         requestReportSupplement, acceptReport, ReportUnchanged, saveProducts, submitProduct,
         formProductPanel, recordProductReview, ProductUnchanged
    <2> QED
      BY <1>1, <2>1, BumpEffect
  <1>3. CASE Accepting
    <2>1. \/ route' = route \/ submitAcceptance
          \/ OpenSubmission("ACCEPTANCE_COUNCIL") \/ CloseSubmission("ACCEPTANCE_COUNCIL")
      BY <1>3 DEF Accepting, returnAcceptance, submitRevision, proposeCouncil, establishCouncil,
         recordMinutes, confirmRevision, saveSuperiorDossier, sendSuperiorRequest,
         recordSuperiorResult, SuperiorUnchanged
    <2>2. route'["REQUEST"] = route["REQUEST"]
      BY <2>1, SubmissionEffect, SubmitAcceptanceEffect DEF Kinds
    <2> QED
      BY <1>1, <2>2, BumpEffect
  <1>4. CASE Closing
    <2>1. route' = route \/ OpenSubmission("LIQUIDATION") \/ CloseSubmission("LIQUIDATION")
      BY <1>4 DEF Closing, updateFinance, prepareLiquidation, approveLiquidation, closeProject
    <2>2. route'["REQUEST"] = route["REQUEST"]
      BY <2>1, SubmissionEffect DEF Kinds
    <2> QED
      BY <1>1, <2>2, BumpEffect
  <1> QED
    BY <1>2, <1>3, <1>4

\* A request is ready for the leadership exactly while its submission is on its way.
LEMMA RouteAgreesNext == TypeOK /\ RequestRouteAgrees /\ [Next]_vars => RequestRouteAgrees'
  <1> SUFFICES ASSUME TypeOK, RequestRouteAgrees, [Next]_vars PROVE RequestRouteAgrees'
    OBVIOUS
  <1>1. CASE UNCHANGED vars
    BY <1>1 DEF RequestRouteAgrees, vars
  <1>2. CASE SetUp \/ Reporting \/ Producing \/ Accepting \/ Closing
    BY <1>2, RequestUntouched DEF RequestRouteAgrees
  <1>3. "REQUEST" \in Kinds /\ "BOARD_REVIEW" \in Pending /\ "NONE" \notin Pending
    BY DEF Kinds, Pending
  <1>4. StaffStatus \in RequestStatuses /\ StaffStatus # "ready_for_head_decision"
    BY DEF StaffStatus, RequestStatuses
  <1>5. ASSUME NEW c \in Changes, createRequest(c) PROVE RequestRouteAgrees'
    <2>1. request'.status = "draft"
      BY <1>5 DEF createRequest
    <2>2. route'["REQUEST"] = "NONE"
      BY <1>3, <1>5 DEF createRequest, TypeOK
    <2> QED
      BY <1>3, <2>1, <2>2 DEF RequestRouteAgrees
  <1>6. ASSUME NEW c \in Changes, editRequestDraft(c) PROVE RequestRouteAgrees'
    BY <1>6 DEF editRequestDraft, RequestRouteAgrees
  <1>7. CASE submitRequest
    BY <1>7, SetRequestEffect DEF submitRequest, RequestRouteAgrees, RequestStatuses
  <1>8. CASE reviewRequest
    BY <1>4, <1>8, SetRequestEffect DEF reviewRequest, RequestRouteAgrees
  <1>9. CASE prepareRequest
    <2>1. request'.status = "ready_for_head_decision"
      BY <1>9, SetRequestEffect DEF prepareRequest, RequestStatuses
    <2>2. route'["REQUEST"] = "BOARD_REVIEW"
      BY <1>3, <1>9, SubmissionEffect DEF prepareRequest
    <2> QED
      BY <1>3, <2>1, <2>2 DEF RequestRouteAgrees
  <1>10. ASSUME NEW d \in Leaders, requestSupplement(d) PROVE RequestRouteAgrees'
    <2>1. request'.status = "supplement_requested"
      BY <1>10, SetRequestEffect DEF requestSupplement, RequestStatuses
    <2>2. route'["REQUEST"] \notin Pending
      BY <1>3, <1>4, <1>10, SubmissionEffect DEF requestSupplement, RequestRouteAgrees
    <2> QED
      BY <2>1, <2>2 DEF RequestRouteAgrees
  <1>11. ASSUME NEW d \in Leaders, approveRequest(d) PROVE RequestRouteAgrees'
    <2>1. request'.status = "approved"
      BY <1>11, RequestUpdate DEF approveRequest, TypeOK, RequestStatuses
    <2>2. route'["REQUEST"] \notin Pending
      BY <1>3, <1>11, SubmissionEffect DEF approveRequest
    <2> QED
      BY <2>1, <2>2 DEF RequestRouteAgrees
  <1>12. ASSUME NEW d \in Leaders, rejectRequest(d) PROVE RequestRouteAgrees'
    <2>1. request'.status = "rejected"
      BY <1>12, SetRequestEffect DEF rejectRequest, RequestStatuses
    <2>2. route'["REQUEST"] \notin Pending
      BY <1>3, <1>12, SubmissionEffect DEF rejectRequest
    <2> QED
      BY <2>1, <2>2 DEF RequestRouteAgrees
  <1>13. ASSUME NEW k \in Kinds, advance(k) PROVE RequestRouteAgrees'
    <2>1. request' = request /\ (route'["REQUEST"] \in Pending <=> route["REQUEST"] \in Pending)
      BY <1>3, <1>13 DEF advance, TypeOK, Pending
    <2> QED
      BY <1>13, <2>1 DEF RequestRouteAgrees, advance
  <1>14. ASSUME NEW k \in Kinds, returnToStaff(k) PROVE RequestRouteAgrees'
    <2>1. CASE k = "REQUEST"
      <3>1. route["REQUEST"] \in Pending /\ route'["REQUEST"] \notin Pending
        BY <1>14, <2>1, SubmissionEffect DEF returnToStaff, Pending
      <3>2. request'.status = StaffStatus
        BY <1>4, <1>14, <2>1, <3>1, SetRequestEffect DEF returnToStaff, revertOnReturn, RequestRouteAgrees
      <3> QED
        BY <1>4, <3>1, <3>2 DEF RequestRouteAgrees
    <2>2. CASE k # "REQUEST"
      <3>1. route'["REQUEST"] = route["REQUEST"]
        BY <1>3, <1>14, <2>2, SubmissionEffect DEF returnToStaff
      <3>2. request' = request
        BY <1>14, <2>2 DEF returnToStaff, revertOnReturn
      <3> QED
        BY <3>1, <3>2 DEF RequestRouteAgrees
    <2> QED
      BY <2>1, <2>2
  <1>15. CASE Requesting
    BY <1>5, <1>6, <1>7, <1>8, <1>9, <1>10, <1>11, <1>12, <1>13, <1>14, <1>15 DEF Requesting
  <1> QED
    BY <1>1, <1>2, <1>15 DEF Next

\* Of OpenWorkAgrees, the part that every step preserves with no help of the other records.
OpenWork == RequestRouteAgrees /\ OpenWorkOnlyWhileExecuting

\* The project stops being carried out in one step only, and then nothing is open.
LEMMA LeavesExecution ==
    ASSUME TypeOK, SetUp \/ Reporting \/ Producing \/ Accepting \/ Closing,
           project'.status # "executing"
    PROVE  project.status # "executing" \/ submitAcceptance
  <1>1. CASE SetUp
    <2>1. project' = project \/ project.status = "preparing"
      BY <1>1 DEF SetUp, revokeOfficer, assignOfficer, configureSetup, confirmSetup
    <2> QED
      BY <2>1
  <1>2. CASE Reporting
    <2>1. project' = project
      BY <1>2 DEF Reporting, createReportDraft, updateReportDraft, submitReport, reviewReport,
         requestReportSupplement, acceptReport, ReportUnchanged
    <2> QED
      BY <2>1
  <1>3. CASE Producing
    <2>1. project' = project
      BY <1>3 DEF Producing, saveProducts, submitProduct, formProductPanel, recordProductReview,
         ProductUnchanged
    <2> QED
      BY <2>1
  <1>4. CASE Accepting
    BY <1>4 DEF Accepting, returnAcceptance, submitRevision, proposeCouncil, establishCouncil,
       recordMinutes, confirmRevision, saveSuperiorDossier, sendSuperiorRequest, recordSuperiorResult
  <1>5. CASE Closing
    BY <1>5 DEF Closing, updateFinance, prepareLiquidation, approveLiquidation, closeProject, Concluded
  <1> QED
    BY <1>1, <1>2, <1>3, <1>4, <1>5

\* The steps of requests leave the status of the project, and while it is not carried out
\* there is nothing they could open.
LEMMA RequestingIdle ==
    ASSUME TypeOK, OpenWork, Requesting
    PROVE  /\ project'.status = project.status /\ UNCHANGED <<officer, reports, products, closure>>
           /\ project.status # "executing" =>
                 UNCHANGED <<project, members, team>> /\ request'.status = request.status
           /\ project'.needsSuperior # project.needsSuperior \/ team' # team \/ members' # members
                 => \E d \in Leaders : approveRequest(d)
  <1>1. UNCHANGED <<officer, reports, products, closure>>
    BY DEF Requesting, createRequest, editRequestDraft, submitRequest, reviewRequest,
       prepareRequest, requestSupplement, approveRequest, rejectRequest, advance, returnToStaff,
       RequestUnchanged, people, work
  <1>2. UNCHANGED <<project, members, team>> \/ \E d \in Leaders : approveRequest(d)
    BY DEF Requesting, createRequest, editRequestDraft, submitRequest, reviewRequest,
       prepareRequest, requestSupplement, approveRequest, rejectRequest, advance, returnToStaff, people
  <1>3. project'.status = project.status
    BY <1>2, ChangeType DEF approveRequest
  <1>4. ASSUME project.status # "executing"
        PROVE  UNCHANGED <<project, members, team>> /\ request'.status = request.status
    <2>1. request.status \in {"none", "draft", "approved", "rejected"}
      BY <1>4 DEF OpenWork, OpenWorkOnlyWhileExecuting
    <2>2. ~\E d \in Leaders : approveRequest(d)
      BY <2>1 DEF approveRequest, AssertDecider
    <2>3. route["REQUEST"] \notin Pending
      BY <2>1 DEF OpenWork, RequestRouteAgrees
    <2>4. StaffStatus \notin {"none", "draft", "approved", "rejected"}
      BY DEF StaffStatus
    <2>5. request' = request
      BY <1>4, <2>1, <2>2, <2>3, <2>4
         DEF Requesting, createRequest, editRequestDraft, submitRequest, reviewRequest,
             prepareRequest, requestSupplement, rejectRequest, AssertDecider, advance, returnToStaff,
             revertOnReturn, AssertPi, RequestUnchanged
    <2> QED
      BY <1>2, <2>2, <2>5
  <1> QED
    BY <1>1, <1>2, <1>3, <1>4

\* Reports are handed in only while the project is carried out.
LEMMA ReportsMove ==
    ASSUME TypeOK, [Next]_vars, project.status # "executing",
           \A r \in Reports : reports[r].status \notin {"submitted", "under_review"}
    PROVE  \A r \in Reports : reports'[r].status \notin {"submitted", "under_review"}
  <1>1. CASE Reporting
    <2>1. reports' = reports
      BY <1>1 DEF Reporting, createReportDraft, updateReportDraft, submitReport, reviewReport,
         requestReportSupplement, acceptReport, AssertPi, PendingReportStatuses
    <2> QED
      BY <2>1
  <1>2. CASE SetUp \/ Requesting \/ Producing \/ Accepting \/ Closing \/ UNCHANGED vars
    <2>1. reports' = reports
      BY <1>2 DEF SetUp, revokeOfficer, assignOfficer, configureSetup, confirmSetup, work, vars,
         Requesting, createRequest, editRequestDraft, submitRequest, reviewRequest, prepareRequest,
         requestSupplement, approveRequest, rejectRequest, advance, returnToStaff, RequestUnchanged,
         Producing, saveProducts, submitProduct, formProductPanel, recordProductReview,
         ProductUnchanged, Accepting, submitAcceptance, returnAcceptance, submitRevision,
         proposeCouncil, establishCouncil, recordMinutes, confirmRevision, saveSuperiorDossier,
         sendSuperiorRequest, recordSuperiorResult, SuperiorUnchanged, RoundUnchanged, Closing,
         updateFinance, prepareLiquidation, approveLiquidation, closeProject, MoneyUnchanged
    <2> QED
      BY <2>1
  <1> QED
    BY <1>1, <1>2 DEF Next

LEMMA OpenWorkInit == Init => OpenWork
  BY DEF Init, OpenWork, RequestRouteAgrees, OpenWorkOnlyWhileExecuting, Pending, Kinds

LEMMA OpenWorkNext == TypeOK /\ OpenWork /\ [Next]_vars => OpenWork'
  <1> SUFFICES ASSUME TypeOK, OpenWork, [Next]_vars PROVE OpenWork'
    OBVIOUS
  <1>1. RequestRouteAgrees'
    BY RouteAgreesNext DEF OpenWork
  <1>2. ASSUME project'.status # "executing"
        PROVE  /\ request'.status \in {"none", "draft", "approved", "rejected"}
               /\ \A r \in Reports : reports'[r].status \notin {"submitted", "under_review"}
    <2>1. CASE project.status # "executing"
      <3>1. /\ request.status \in {"none", "draft", "approved", "rejected"}
            /\ \A r \in Reports : reports[r].status \notin {"submitted", "under_review"}
        BY <2>1 DEF OpenWork, OpenWorkOnlyWhileExecuting
      <3>2. request'.status = request.status
        BY <2>1, RequestUntouched, RequestingIdle DEF Next, vars
      <3> QED
        BY <2>1, <3>1, <3>2, ReportsMove
    <2>2. CASE project.status = "executing"
      <3>1. submitAcceptance
        BY <1>2, <2>2, LeavesExecution, RequestingIdle DEF Next, vars
      <3>2. request.status \in {"none", "draft", "approved", "rejected"} /\ reports' = reports
        BY <3>1 DEF submitAcceptance, OpenRequest, OpenRequestStatuses, TypeOK, Request,
           RoundUnchanged, work
      <3>3. \A r \in Reports : reports[r].status \notin {"submitted", "under_review"}
        BY <3>1 DEF submitAcceptance, PendingReportStatuses
      <3>4. request'.status = request.status
        BY <3>1, RequestUntouched DEF Accepting
      <3> QED
        BY <3>2, <3>3, <3>4
    <2> QED
      BY <2>1, <2>2
  <1>3. OpenWorkOnlyWhileExecuting'
    BY <1>2 DEF OpenWorkOnlyWhileExecuting
  <1> QED
    BY <1>1, <1>3 DEF OpenWork

-----------------------------------------------------------------------------
(* The records of a project in each phase of its life, stronger than the properties the runs *)
(* check, so that every step preserves them.                                                  *)

LastIs(s) == rounds # <<>> /\ LastRound.status = s

AcceptedRecords ==
    /\ LastIs("PASSED")
    /\ superior.status = IF project.needsSuperior THEN "PASSED" ELSE "none"

FailedRecords ==
    \/ LastIs("FAILED") /\ superior.status = "none"
    \/ LastIs("PASSED") /\ superior.status = "FAILED" /\ project.needsSuperior

\* What the rounds and the superior record say for the status of the project.
PhaseInv ==
    /\ project.status \in {"preparing", "executing"} =>
          superior.status = "none" /\ (rounds # <<>> => LastRound.status = "RETURNED")
    /\ project.status = "pending_acceptance" =>
          /\ superior.status = "none" /\ rounds # <<>>
          /\ LastRound.status \notin ClosedRoundStatuses
    /\ project.status = "pending_superior_acceptance" =>
          /\ LastIs("PASSED") /\ project.needsSuperior
          /\ superior.status \in {"PREPARING", "SENT"}
    /\ project.status = "accepted" => AcceptedRecords
    /\ project.status = "failed" => FailedRecords
    /\ project.status = "closed" => AcceptedRecords \/ FailedRecords

\* A round before the last was returned: every other end leaves no place for another round.
EarlierReturned == \A i \in 1 .. Len(rounds) : i # Len(rounds) => rounds[i].status = "RETURNED"

\* From the acceptance on the products stay as they were accepted.
ProductsInv == project.status \notin {"preparing", "executing"} => AllProductsPassed

LiquidationInv ==
    /\ LiquidationBalanced
    /\ liquidation.status = "APPROVED" => project.status \in {"accepted", "failed", "closed"}

\* The council on its way to the leadership is that of the last round.
CouncilOnRoute == route["ACCEPTANCE_COUNCIL"] \in Pending => LastIs("COUNCIL_PROPOSED")

\* The officer works on a request in the status of its kind: a draft keeps its kind.
StaffStatusFits ==
    request.status \in {"under_staff_review", "under_staff_validation"} => request.status = StaffStatus

\* What the leadership could decide has been put forward: no council is proposed, and no
\* liquidation drafted, without a submission.
Forwarded ==
    /\ LastIs("COUNCIL_PROPOSED") => route["ACCEPTANCE_COUNCIL"] # "NONE"
    /\ liquidation.status = "DRAFT" => route["LIQUIDATION"] # "NONE"

LifeInv == /\ TypeOK /\ OpenWork /\ StaffStatusFits /\ Independence
           /\ PhaseInv /\ EarlierReturned /\ ProductsInv /\ LiquidationInv
           /\ CouncilOnRoute /\ Forwarded

LEMMA LifeInit == Init => LifeInv
  <1> SUFFICES ASSUME Init PROVE LifeInv
    OBVIOUS
  <1>1. TypeOK /\ OpenWork
    BY TypeInit, OpenWorkInit
  <1>2. officer \notin members \cup Evaluators
    BY LifecycleAssumption DEF Init
  <1>3. Independence
    BY <1>2 DEF Independence, OfficerIndependent, CouncilIndependent, Init
  <1>4. PhaseInv /\ EarlierReturned /\ ProductsInv /\ LiquidationInv /\ CouncilOnRoute
    BY DEF Init, PhaseInv, EarlierReturned, ProductsInv, LiquidationInv, LiquidationBalanced,
       CouncilOnRoute, Kinds, Pending
  <1>5. StaffStatusFits /\ Forwarded
    BY DEF Init, StaffStatusFits, Forwarded, LastIs
  <1> QED
    BY <1>1, <1>3, <1>4, <1>5 DEF LifeInv

\* The steps of the set-up, the reports, the requests and the products leave the records of the
\* acceptance alone, and touch team and products only before it.
LEMMA EarlySteps ==
    ASSUME TypeOK, OpenWork, SetUp \/ Reporting \/ Requesting \/ Producing
    PROVE  /\ UNCHANGED closure
           /\ \/ project'.status = project.status
              \/ project.status = "preparing" /\ project'.status = "executing"
           /\ project.status \notin {"preparing", "executing"} =>
                 UNCHANGED <<project, products, members, team>>
           /\ project.status # "executing" => UNCHANGED <<members, team>>
           /\ project'.status # "executing" => project' = project
           /\ project.status # "executing" => project'.needsSuperior = project.needsSuperior
  <1>1. CASE SetUp
    <2>1. /\ UNCHANGED <<products, members, team, closure>>
          /\ \/ project' = project
             \/ project.status = "preparing" /\ SetStatus("executing")
      BY <1>1 DEF SetUp, revokeOfficer, assignOfficer, configureSetup, confirmSetup, people, work
    <2> QED
      BY <2>1, SetStatusEffect DEF Statuses
  <1>2. CASE Reporting
    <2>1. UNCHANGED <<project, people, products, closure>>
      BY <1>2 DEF Reporting, createReportDraft, updateReportDraft, submitReport, reviewReport,
         requestReportSupplement, acceptReport, ReportUnchanged
    <2> QED
      BY <2>1 DEF people
  <1>3. CASE Requesting
    <2>1. /\ project'.status = project.status /\ UNCHANGED <<products, closure>>
          /\ project.status # "executing" => UNCHANGED <<project, members, team>>
      BY <1>3, RequestingIdle
    <2> QED
      BY <2>1
  <1>4. CASE Producing
    <2>1. UNCHANGED <<project, people, closure>>
      BY <1>4 DEF Producing, saveProducts, submitProduct, formProductPanel, recordProductReview,
         ProductUnchanged
    <2>2. project.status \notin {"preparing", "executing"} => FALSE
      BY <1>4 DEF Producing, saveProducts, submitProduct, formProductPanel, recordProductReview, AssertPi
    <2> QED
      BY <2>1, <2>2 DEF people
  <1> QED
    BY <1>1, <1>2, <1>3, <1>4

\* They put no council before the leadership either.
LEMMA EarlyRoute ==
    ASSUME TypeOK, SetUp \/ Reporting \/ Requesting \/ Producing,
           NEW k \in Kinds \ {"REQUEST"}
    PROVE  route'[k] \in Pending => route[k] \in Pending
  <1>0. "REQUEST" \in Kinds
    BY DEF Kinds
  <1>1. CASE SetUp \/ Reporting \/ Producing
    <2>1. route' = route
      BY <1>1 DEF SetUp, Reporting, Producing, revokeOfficer, assignOfficer, configureSetup,
         confirmSetup, createReportDraft, updateReportDraft, submitReport, reviewReport,
         requestReportSupplement, acceptReport, ReportUnchanged, saveProducts, submitProduct,
         formProductPanel, recordProductReview, ProductUnchanged
    <2> QED
      BY <2>1
  <1>2. ASSUME NEW j \in Kinds, advance(j) PROVE route'[k] \in Pending => route[k] \in Pending
    BY <1>2 DEF advance, TypeOK, Pending
  <1>3. ASSUME NEW j \in Kinds, returnToStaff(j) PROVE route'[k] \in Pending => route[k] \in Pending
    <2>1. j = k => route'[k] \notin Pending
      BY <1>3, SubmissionEffect DEF returnToStaff
    <2>2. j # k => route'[k] = route[k]
      BY <1>3, SubmissionEffect DEF returnToStaff
    <2> QED
      BY <2>1, <2>2
  <1>4. ASSUME Requesting, ~\E j \in Kinds : advance(j) \/ returnToStaff(j)
        PROVE  route'[k] = route[k]
    <2>1. \/ route' = route \/ route' = [route EXCEPT !["REQUEST"] = "NONE"]
          \/ OpenSubmission("REQUEST") \/ CloseSubmission("REQUEST")
      BY <1>4 DEF Requesting, createRequest, editRequestDraft, submitRequest, reviewRequest,
         prepareRequest, requestSupplement, approveRequest, rejectRequest
    <2> QED
      BY <1>0, <2>1, SubmissionEffect DEF TypeOK
  <1> QED
    BY <1>1, <1>2, <1>3, <1>4

\* The finance and the liquidation come after the councils.
LEMMA LateSteps ==
    ASSUME TypeOK, Closing
    PROVE  /\ UNCHANGED <<officer, members, team, products, rounds, superior>>
           /\ project'.needsSuperior = project.needsSuperior
           /\ \/ project' = project
              \/ Concluded /\ project'.status = "closed" /\ liquidation.status = "APPROVED"
                 /\ UNCHANGED <<finance, liquidation>>
           /\ route'["ACCEPTANCE_COUNCIL"] = route["ACCEPTANCE_COUNCIL"]
  <1>1. MoneyUnchanged
    BY DEF Closing, updateFinance, prepareLiquidation, approveLiquidation, closeProject
  <1>2. \/ project' = project
        \/ /\ Concluded /\ SetStatus("closed") /\ liquidation.status = "APPROVED"
           /\ UNCHANGED <<finance, liquidation>>
    BY DEF Closing, updateFinance, prepareLiquidation, approveLiquidation, closeProject
  <1>3. route' = route \/ OpenSubmission("LIQUIDATION") \/ CloseSubmission("LIQUIDATION")
    BY DEF Closing, updateFinance, prepareLiquidation, approveLiquidation, closeProject
  <1>4. route'["ACCEPTANCE_COUNCIL"] = route["ACCEPTANCE_COUNCIL"]
    BY <1>3, SubmissionEffect DEF Kinds
  <1> QED
    BY <1>1, <1>2, <1>4, SetStatusEffect DEF MoneyUnchanged, people, Statuses

-----------------------------------------------------------------------------
(* Phases *)
LEMMA PhaseNext == LifeInv /\ [Next]_vars => PhaseInv'
  <1> SUFFICES ASSUME LifeInv, [Next]_vars PROVE PhaseInv'
    OBVIOUS
  <1> USE DEF LastIs
  <1>0. TypeOK /\ OpenWork /\ PhaseInv
    BY DEF LifeInv
  <1>1. CASE UNCHANGED vars
    BY <1>0, <1>1 DEF PhaseInv, vars, AcceptedRecords, FailedRecords, LastRound
  <1>2. CASE SetUp \/ Reporting \/ Requesting \/ Producing
    <2>1. UNCHANGED <<rounds, superior>> /\ LastRound' = LastRound
      BY <1>0, <1>2, EarlySteps DEF closure, LastRound
    <2>2. CASE project.status \notin {"preparing", "executing"}
      <3>1. project' = project
        BY <1>0, <1>2, <2>2, EarlySteps
      <3> QED
        BY <1>0, <2>1, <3>1 DEF PhaseInv, AcceptedRecords, FailedRecords
    <2>3. CASE project.status \in {"preparing", "executing"}
      <3>1. project'.status \in {"preparing", "executing"}
        BY <1>0, <1>2, <2>3, EarlySteps
      <3> QED
        BY <1>0, <2>1, <2>3, <3>1 DEF PhaseInv
    <2> QED
      BY <2>2, <2>3
  <1>3. CASE submitAcceptance
    <2>1. project.status = "executing" /\ superior' = superior
      BY <1>3 DEF submitAcceptance, AssertPi
    <2>2. /\ project'.status = "pending_acceptance" /\ rounds' # <<>>
          /\ LastRound'.status = "SUBMITTED"
      BY <1>0, <1>3, SubmitAcceptanceEffect
    <2> QED
      BY <1>0, <2>1, <2>2 DEF PhaseInv, ClosedRoundStatuses
  <1>4. CASE returnAcceptance
    <2>1. project.status = "pending_acceptance" /\ superior' = superior
      BY <1>4 DEF returnAcceptance
    <2>2. project'.status = "executing" /\ LastRound'.status = "RETURNED"
      BY <1>0, <1>4, ReturnAcceptanceEffect
    <2> QED
      BY <1>0, <2>1, <2>2 DEF PhaseInv
  <1>5. ASSUME NEW council \in SUBSET Experts, proposeCouncil(council) PROVE PhaseInv'
    <2>1. project.status = "pending_acceptance" /\ UNCHANGED <<project, superior>>
      BY <1>5 DEF proposeCouncil
    <2>2. rounds' # <<>> /\ LastRound'.status = "COUNCIL_PROPOSED"
      BY <1>0, <1>5, ProposeCouncilEffect
    <2> QED
      BY <1>0, <2>1, <2>2 DEF PhaseInv, ClosedRoundStatuses
  <1>6. ASSUME NEW d \in Leaders, establishCouncil(d) PROVE PhaseInv'
    <2>1. project.status = "pending_acceptance" /\ UNCHANGED <<project, superior>>
      BY <1>6 DEF establishCouncil
    <2>2. rounds' # <<>> /\ LastRound'.status = "COUNCIL_ESTABLISHED"
      BY <1>0, <1>6, EstablishCouncilEffect
    <2> QED
      BY <1>0, <2>1, <2>2 DEF PhaseInv, ClosedRoundStatuses
  <1>7. CASE (\E result \in {"PASSED", "FAILED", "REVISION_REQUIRED"} : recordMinutes(result))
             \/ submitRevision \/ (\E accept \in BOOLEAN : confirmRevision(accept))
    <2>1. project.status = "pending_acceptance"
      BY <1>7 DEF recordMinutes, submitRevision, confirmRevision
    <2>2. superior.status = "none"
      BY <1>0, <2>1 DEF PhaseInv
    <2>3. /\ rounds' # <<>> /\ project'.needsSuperior = project.needsSuperior
          /\ \/ /\ LastRound'.status \in {"REVISION_REQUIRED", "REVISION_SUBMITTED"}
                /\ UNCHANGED <<project, superior>>
             \/ /\ LastRound'.status = "FAILED" /\ project'.status = "failed" /\ superior' = superior
             \/ /\ LastRound'.status = "PASSED"
                /\ project.needsSuperior /\ project'.status = "pending_superior_acceptance"
                /\ superior'.status = "PREPARING"
             \/ /\ LastRound'.status = "PASSED"
                /\ ~project.needsSuperior /\ project'.status = "accepted" /\ superior' = superior
      BY <1>0, <1>7, VerdictEffect
    <2> QED
      BY <2>1, <2>2, <2>3 DEF PhaseInv, AcceptedRecords, FailedRecords, ClosedRoundStatuses
  <1>8. CASE \/ \E complete \in BOOLEAN : saveSuperiorDossier(complete)
             \/ sendSuperiorRequest
             \/ \E result \in {"PASSED", "FAILED"} : recordSuperiorResult(result)
    <2>1. /\ SuperiorUnchanged /\ project.status = "pending_superior_acceptance"
          /\ project'.needsSuperior = project.needsSuperior
          /\ \/ superior'.status \in {"PREPARING", "SENT"} /\ project' = project
             \/ superior'.status = "PASSED" /\ project'.status = "accepted"
             \/ superior'.status = "FAILED" /\ project'.status = "failed"
      BY <1>0, <1>8, SuperiorEffect
    <2>2. rounds' = rounds /\ LastRound' = LastRound
      BY <2>1 DEF SuperiorUnchanged, LastRound
    <2>3. LastIs("PASSED") /\ project.needsSuperior
      BY <1>0, <2>1 DEF PhaseInv
    <2> QED
      BY <2>1, <2>2, <2>3 DEF PhaseInv, AcceptedRecords, FailedRecords
  <1>9. CASE Closing
    <2>1. /\ UNCHANGED <<rounds, superior>> /\ LastRound' = LastRound
          /\ project'.needsSuperior = project.needsSuperior
          /\ project' = project \/ (Concluded /\ project'.status = "closed")
      BY <1>0, <1>9, LateSteps DEF LastRound
    <2> QED
      BY <1>0, <2>1 DEF PhaseInv, Concluded, AcceptedRecords, FailedRecords
  <1> QED
    BY <1>1, <1>2, <1>3, <1>4, <1>5, <1>6, <1>7, <1>8, <1>9 DEF Next, Accepting

(* What the handlers of the acceptance leave alone. *)
LEMMA AcceptingFrame ==
    ASSUME TypeOK, Accepting
    PROVE  /\ UNCHANGED <<officer, members, team, products, finance, liquidation>>
           /\ project.status \in {"executing", "pending_acceptance", "pending_superior_acceptance"}
           /\ project.status = "executing" => submitAcceptance
  <1>1. RoundUnchanged
    BY DEF Accepting, submitAcceptance, returnAcceptance, submitRevision, proposeCouncil,
       establishCouncil, recordMinutes, confirmRevision, saveSuperiorDossier, sendSuperiorRequest,
       recordSuperiorResult, SuperiorUnchanged
  <1>2. \/ submitAcceptance /\ project.status = "executing"
        \/ project.status \in {"pending_acceptance", "pending_superior_acceptance"}
    BY DEF Accepting, submitAcceptance, returnAcceptance, submitRevision, proposeCouncil, AssertPi,
       establishCouncil, recordMinutes, confirmRevision, saveSuperiorDossier, sendSuperiorRequest,
       recordSuperiorResult
  <1> QED
    BY <1>1, <1>2 DEF RoundUnchanged, people

LEMMA ProductsNext == LifeInv /\ [Next]_vars => ProductsInv'
  <1> SUFFICES ASSUME LifeInv, [Next]_vars, project'.status \notin {"preparing", "executing"}
               PROVE AllProductsPassed'
    BY DEF ProductsInv
  <1>0. TypeOK /\ OpenWork /\ ProductsInv
    BY DEF LifeInv
  <1>1. ASSUME products' = products, AllProductsPassed PROVE AllProductsPassed'
    BY <1>1 DEF AllProductsPassed
  <1>2. CASE UNCHANGED vars
    BY <1>0, <1>1, <1>2 DEF ProductsInv, vars
  <1>3. CASE SetUp \/ Reporting \/ Requesting \/ Producing
    <2>1. project.status \notin {"preparing", "executing"} /\ products' = products
      BY <1>0, <1>3, EarlySteps
    <2> QED
      BY <1>0, <1>1, <2>1 DEF ProductsInv
  <1>4. CASE Accepting
    <2>1. products' = products
      BY <1>0, <1>4, AcceptingFrame
    <2>2. CASE submitAcceptance
      BY <1>1, <2>1, <2>2 DEF submitAcceptance
    <2>3. CASE ~submitAcceptance
      BY <1>0, <1>1, <1>4, <2>1, <2>3, AcceptingFrame DEF ProductsInv
    <2> QED
      BY <2>2, <2>3
  <1>5. CASE Closing
    <2>1. products' = products /\ project.status \notin {"preparing", "executing"}
      BY <1>0, <1>5, LateSteps DEF Concluded
    <2> QED
      BY <1>0, <1>1, <2>1 DEF ProductsInv
  <1> QED
    BY <1>2, <1>3, <1>4, <1>5 DEF Next

LEMMA LiquidationNext == LifeInv /\ [Next]_vars => LiquidationInv'
  <1> SUFFICES ASSUME LifeInv, [Next]_vars PROVE LiquidationInv'
    OBVIOUS
  <1> USE DEF LiquidationInv, LiquidationBalanced
  <1>0. TypeOK /\ OpenWork /\ LiquidationInv
    BY DEF LifeInv
  <1>1. CASE UNCHANGED vars
    BY <1>0, <1>1 DEF vars
  <1>2. CASE SetUp \/ Reporting \/ Requesting \/ Producing
    <2>1. /\ UNCHANGED <<finance, liquidation>>
          /\ project.status \notin {"preparing", "executing"} => project' = project
          /\ project.status \in {"preparing", "executing"} =>
                project'.status \in {"preparing", "executing"}
      BY <1>0, <1>2, EarlySteps DEF closure
    <2> QED
      BY <1>0, <2>1
  <1>3. CASE Accepting
    <2>1. /\ UNCHANGED <<finance, liquidation>>
          /\ project.status \in {"executing", "pending_acceptance", "pending_superior_acceptance"}
      BY <1>0, <1>3, AcceptingFrame
    <2>2. liquidation.status # "APPROVED"
      BY <1>0, <2>1
    <2>3. project'.status # "closed"
      <3>1. CASE \/ \E complete \in BOOLEAN : saveSuperiorDossier(complete)
                 \/ sendSuperiorRequest
                 \/ \E result \in {"PASSED", "FAILED"} : recordSuperiorResult(result)
        BY <1>0, <3>1, SuperiorEffect
      <3>2. CASE (\E result \in {"PASSED", "FAILED", "REVISION_REQUIRED"} : recordMinutes(result))
                 \/ submitRevision \/ (\E accept \in BOOLEAN : confirmRevision(accept))
        BY <1>0, <2>1, <3>2, VerdictEffect
      <3>3. CASE submitAcceptance \/ returnAcceptance
        BY <1>0, <3>3, SubmitAcceptanceEffect, ReturnAcceptanceEffect
      <3>4. CASE \/ \E council \in SUBSET Experts : proposeCouncil(council)
                 \/ \E d \in Leaders : establishCouncil(d)
        BY <2>1, <3>4 DEF proposeCouncil, establishCouncil
      <3> QED
        BY <1>3, <3>1, <3>2, <3>3, <3>4 DEF Accepting
    <2> QED
      BY <2>1, <2>2, <2>3
  <1>4. CASE Closing
    <2>1. CASE closeProject
      <3>1. /\ Concluded /\ project'.status = "closed" /\ liquidation.status = "APPROVED"
            /\ UNCHANGED <<finance, liquidation>>
        BY <1>0, <2>1, SetStatusEffect DEF closeProject, Statuses
      <3> QED
        BY <1>0, <3>1
    <2>2. ASSUME NEW a \in People, NEW d \in Amounts, NEW s \in Amounts, updateFinance(a, d, s)
          PROVE LiquidationInv'
      BY <1>0, <2>2 DEF updateFinance
    <2>3. ASSUME NEW recovered \in Amounts, prepareLiquidation(recovered) PROVE LiquidationInv'
      BY <1>0, <2>3 DEF prepareLiquidation, Concluded
    <2>4. ASSUME NEW d \in Directors, approveLiquidation(d) PROVE LiquidationInv'
      <3>1. liquidation \in Liquidation
        BY <1>0 DEF TypeOK
      <3>2. /\ liquidation'.status = "APPROVED" /\ liquidation'.disbursed = finance.disbursed
            /\ liquidation'.settled = finance.settled /\ liquidation'.recovered = liquidation.recovered
        BY <2>4, <3>1 DEF approveLiquidation, Liquidation
      <3>3. /\ finance.settled + liquidation.recovered = finance.disbursed
            /\ UNCHANGED <<project, finance>> /\ Concluded
        BY <2>4 DEF approveLiquidation
      <3> QED
        BY <3>2, <3>3 DEF Concluded
    <2> QED
      BY <1>4, <2>1, <2>2, <2>3, <2>4 DEF Closing
  <1> QED
    BY <1>1, <1>2, <1>3, <1>4 DEF Next

\* Rounds are never taken away; the ones before the last keep their end.
LEMMA EarlierNext == LifeInv /\ [Next]_vars => EarlierReturned'
  <1> SUFFICES ASSUME LifeInv, [Next]_vars PROVE EarlierReturned'
    OBVIOUS
  <1>0. TypeOK /\ OpenWork /\ EarlierReturned /\ PhaseInv
    BY DEF LifeInv
  <1>1. CASE rounds' = rounds
    BY <1>0, <1>1 DEF EarlierReturned
  <1>2. ASSUME Len(rounds') = Len(rounds),
               \A i \in 1 .. Len(rounds) : i # Len(rounds) => rounds'[i] = rounds[i]
        PROVE  EarlierReturned'
    BY <1>0, <1>2 DEF EarlierReturned
  <1>3. CASE submitAcceptance
    <2>1. /\ Len(rounds') = Len(rounds) + 1 /\ Len(rounds) \in Nat
          /\ \A i \in 1 .. Len(rounds) : rounds'[i] = rounds[i]
      BY <1>0, <1>3, SubmitAcceptanceEffect, LenProperties DEF TypeOK
    <2>2. project.status = "executing"
      BY <1>3 DEF submitAcceptance, AssertPi
    <2>3. Len(rounds) # 0 => rounds[Len(rounds)].status = "RETURNED"
      BY <1>0, <2>2, EmptySeq DEF PhaseInv, TypeOK, LastRound
    <2>4. \A i \in 1 .. Len(rounds) : rounds[i].status = "RETURNED"
      BY <1>0, <2>1, <2>3 DEF EarlierReturned
    <2> QED
      BY <2>1, <2>4 DEF EarlierReturned
  <1>4. CASE returnAcceptance
    BY <1>0, <1>2, <1>4, ReturnAcceptanceEffect
  <1>5. ASSUME NEW council \in SUBSET Experts, proposeCouncil(council) PROVE EarlierReturned'
    BY <1>0, <1>2, <1>5, ProposeCouncilEffect
  <1>6. ASSUME NEW d \in Leaders, establishCouncil(d) PROVE EarlierReturned'
    BY <1>0, <1>2, <1>6, EstablishCouncilEffect
  <1>7. CASE (\E result \in {"PASSED", "FAILED", "REVISION_REQUIRED"} : recordMinutes(result))
             \/ submitRevision \/ (\E accept \in BOOLEAN : confirmRevision(accept))
    BY <1>0, <1>2, <1>7, VerdictEffect
  <1>8. CASE \/ \E complete \in BOOLEAN : saveSuperiorDossier(complete)
             \/ sendSuperiorRequest
             \/ \E result \in {"PASSED", "FAILED"} : recordSuperiorResult(result)
    BY <1>0, <1>1, <1>8, SuperiorEffect DEF SuperiorUnchanged
  <1>9. CASE SetUp \/ Reporting \/ Requesting \/ Producing \/ Closing \/ UNCHANGED vars
    BY <1>0, <1>1, <1>9, EarlySteps, LateSteps DEF closure, vars
  <1> QED
    BY <1>3, <1>4, <1>5, <1>6, <1>7, <1>8, <1>9 DEF Next, Accepting

\* A council leaves its proposed state only by the leadership or by a new proposal.
LEMMA CouncilRouteNext == LifeInv /\ [Next]_vars => CouncilOnRoute'
  <1> SUFFICES ASSUME LifeInv, [Next]_vars, route'["ACCEPTANCE_COUNCIL"] \in Pending
               PROVE LastIs("COUNCIL_PROPOSED")'
    BY DEF CouncilOnRoute
  <1>0. TypeOK /\ OpenWork /\ CouncilOnRoute /\ "ACCEPTANCE_COUNCIL" \in Kinds \ {"REQUEST"}
    BY DEF LifeInv, Kinds
  <1>1. ASSUME rounds' = rounds, route["ACCEPTANCE_COUNCIL"] \in Pending
        PROVE  LastIs("COUNCIL_PROPOSED")'
    BY <1>0, <1>1 DEF CouncilOnRoute, LastIs, LastRound
  <1>2. CASE SetUp \/ Reporting \/ Requesting \/ Producing
    BY <1>0, <1>1, <1>2, EarlySteps, EarlyRoute DEF closure
  <1>3. CASE Closing \/ UNCHANGED vars
    BY <1>0, <1>1, <1>3, LateSteps DEF vars
  <1>4. CASE submitAcceptance
    BY <1>0, <1>4, SubmitAcceptanceEffect DEF Pending
  <1>5. CASE returnAcceptance
    <2>1. LastRound.status = "SUBMITTED" /\ route' = route
      BY <1>5 DEF returnAcceptance, CurrentRound
    <2> QED
      BY <1>0, <2>1 DEF CouncilOnRoute, LastIs
  <1>6. ASSUME NEW council \in SUBSET Experts, proposeCouncil(council)
        PROVE  LastIs("COUNCIL_PROPOSED")'
    BY <1>0, <1>6, ProposeCouncilEffect DEF LastIs
  <1>7. ASSUME NEW d \in Leaders, establishCouncil(d) PROVE LastIs("COUNCIL_PROPOSED")'
    BY <1>0, <1>7, EstablishCouncilEffect
  <1>8. CASE (\E result \in {"PASSED", "FAILED", "REVISION_REQUIRED"} : recordMinutes(result))
             \/ submitRevision \/ (\E accept \in BOOLEAN : confirmRevision(accept))
    <2>1. LastRound.status # "COUNCIL_PROPOSED" /\ route' = route
      BY <1>8 DEF recordMinutes, submitRevision, confirmRevision, CurrentRound
    <2> QED
      BY <1>0, <2>1 DEF CouncilOnRoute, LastIs
  <1>9. CASE \/ \E complete \in BOOLEAN : saveSuperiorDossier(complete)
             \/ sendSuperiorRequest
             \/ \E result \in {"PASSED", "FAILED"} : recordSuperiorResult(result)
    BY <1>0, <1>1, <1>9, SuperiorEffect DEF SuperiorUnchanged
  <1> QED
    BY <1>2, <1>3, <1>4, <1>5, <1>6, <1>7, <1>8, <1>9 DEF Next, Accepting

-----------------------------------------------------------------------------
(* Requests and submissions *)
LEMMA StaffStatusNext == LifeInv /\ [Next]_vars => StaffStatusFits'
  <1> SUFFICES ASSUME LifeInv, [Next]_vars PROVE StaffStatusFits'
    OBVIOUS
  <1> USE DEF StaffStatusFits
  <1>0. TypeOK /\ StaffStatusFits /\ request \in Request
    BY DEF LifeInv, TypeOK
  <1>1. ASSUME request'.change = request.change PROVE StaffStatus' = StaffStatus
    BY <1>1 DEF StaffStatus
  <1>2. CASE SetUp \/ Reporting \/ Producing \/ Accepting \/ Closing \/ UNCHANGED vars
    BY <1>0, <1>1, <1>2, RequestUntouched DEF vars
  <1>3. CASE \E c \in Changes : createRequest(c) \/ editRequestDraft(c)
    BY <1>3 DEF createRequest, editRequestDraft
  <1>4. CASE \E k \in Kinds : advance(k)
    BY <1>0, <1>1, <1>4 DEF advance
  <1>5. ASSUME NEW s \in RequestStatuses \ {"under_staff_review", "under_staff_validation"},
               SetRequest(s)
        PROVE  StaffStatusFits'
    BY <1>0, <1>5, SetRequestEffect
  <1>6. ASSUME SetRequest(StaffStatus) PROVE StaffStatusFits'
    <2>1. StaffStatus \in RequestStatuses
      BY DEF StaffStatus, RequestStatuses
    <2> QED
      BY <1>0, <1>1, <1>6, <2>1, SetRequestEffect
  <1>7. CASE submitRequest \/ reviewRequest \/ prepareRequest
    BY <1>5, <1>6, <1>7 DEF submitRequest, reviewRequest, prepareRequest, RequestStatuses
  <1>8. ASSUME NEW d \in Leaders, approveRequest(d) PROVE StaffStatusFits'
    <2>1. request' = [request EXCEPT !.status = "approved", !.current = FALSE]
      BY <1>8 DEF approveRequest
    <2> QED
      BY <1>0, <2>1, RequestUpdate DEF RequestStatuses
  <1>9. ASSUME NEW d \in Leaders, requestSupplement(d) \/ rejectRequest(d) PROVE StaffStatusFits'
    BY <1>5, <1>9 DEF requestSupplement, rejectRequest, RequestStatuses
  <1>10. ASSUME NEW k \in Kinds, returnToStaff(k) PROVE StaffStatusFits'
    BY <1>0, <1>1, <1>6, <1>10 DEF returnToStaff, revertOnReturn
  <1> QED
    BY <1>2, <1>3, <1>4, <1>7, <1>8, <1>9, <1>10 DEF Next, Requesting

\* A procedure once submitted keeps a submission, whatever becomes of it, while requests,
\* reports and products go their way.
LEMMA EarlyKeeps ==
    ASSUME TypeOK, SetUp \/ Reporting \/ Requesting \/ Producing,
           NEW k \in Kinds \ {"REQUEST"}, route[k] # "NONE"
    PROVE  route'[k] # "NONE"
  <1>1. CASE SetUp \/ Reporting \/ Producing
    <2>1. route' = route
      BY <1>1 DEF SetUp, Reporting, Producing, revokeOfficer, assignOfficer, configureSetup,
         confirmSetup, createReportDraft, updateReportDraft, submitReport, reviewReport,
         requestReportSupplement, acceptReport, ReportUnchanged, saveProducts, submitProduct,
         formProductPanel, recordProductReview, ProductUnchanged
    <2> QED
      BY <2>1
  <1>2. CASE Requesting
    <2>1. \/ route' = route \/ route' = [route EXCEPT !["REQUEST"] = "NONE"]
          \/ OpenSubmission("REQUEST") \/ \E j \in Kinds : CloseSubmission(j) \/ advance(j)
      BY <1>2 DEF Requesting, createRequest, editRequestDraft, submitRequest, reviewRequest, Kinds,
         prepareRequest, requestSupplement, approveRequest, rejectRequest, returnToStaff
    <2>2. ASSUME NEW j \in Kinds, CloseSubmission(j) \/ advance(j) PROVE route'[k] # "NONE"
      BY <2>2 DEF TypeOK, CloseSubmission, advance
    <2>3. CASE route' = route \/ route' = [route EXCEPT !["REQUEST"] = "NONE"]
               \/ OpenSubmission("REQUEST")
      BY <2>3 DEF TypeOK, OpenSubmission
    <2> QED
      BY <2>1, <2>2, <2>3
  <1> QED
    BY <1>1, <1>2

LEMMA ForwardedNext == LifeInv /\ [Next]_vars => Forwarded'
  <1> SUFFICES ASSUME LifeInv, [Next]_vars PROVE Forwarded'
    OBVIOUS
  <1> USE DEF LastIs
  <1>0. /\ TypeOK /\ OpenWork /\ Forwarded
        /\ {"ACCEPTANCE_COUNCIL", "LIQUIDATION"} \subseteq Kinds \ {"REQUEST"}
    BY DEF LifeInv, Kinds
  <1>1. CASE UNCHANGED vars
    BY <1>0, <1>1 DEF Forwarded, vars, LastRound
  <1>2. CASE SetUp \/ Reporting \/ Requesting \/ Producing
    <2>1. rounds' = rounds /\ liquidation' = liquidation /\ LastRound' = LastRound
      BY <1>0, <1>2, EarlySteps DEF closure, LastRound
    <2> QED
      BY <1>0, <1>2, <2>1, EarlyKeeps DEF Forwarded
  <1>3. CASE Accepting
    <2>1. liquidation' = liquidation
      BY <1>0, <1>3, AcceptingFrame
    <2>2. \/ route' = route \/ submitAcceptance
          \/ OpenSubmission("ACCEPTANCE_COUNCIL") \/ CloseSubmission("ACCEPTANCE_COUNCIL")
      BY <1>3 DEF Accepting, returnAcceptance, submitRevision, proposeCouncil, establishCouncil,
         recordMinutes, confirmRevision, saveSuperiorDossier, sendSuperiorRequest,
         recordSuperiorResult, SuperiorUnchanged
    <2>3. route'["LIQUIDATION"] = route["LIQUIDATION"]
      BY <1>0, <2>2, SubmissionEffect, SubmitAcceptanceEffect DEF Kinds
    <2>4. ASSUME LastRound'.status = "COUNCIL_PROPOSED" PROVE route'["ACCEPTANCE_COUNCIL"] # "NONE"
      <3>1. CASE submitAcceptance \/ returnAcceptance
        BY <1>0, <2>4, <3>1, SubmitAcceptanceEffect, ReturnAcceptanceEffect
      <3>2. ASSUME NEW council \in SUBSET Experts, proposeCouncil(council)
            PROVE  route'["ACCEPTANCE_COUNCIL"] # "NONE"
        BY <1>0, <3>2, ProposeCouncilEffect
      <3>3. ASSUME NEW d \in Leaders, establishCouncil(d) PROVE FALSE
        BY <1>0, <2>4, <3>3, EstablishCouncilEffect
      <3>4. CASE (\E result \in {"PASSED", "FAILED", "REVISION_REQUIRED"} : recordMinutes(result))
                 \/ submitRevision \/ (\E accept \in BOOLEAN : confirmRevision(accept))
        <4>1. LastRound'.status # "COUNCIL_PROPOSED"
          <5>1. LastRound.status # "COUNCIL_PROPOSED"
            BY <3>4 DEF recordMinutes, submitRevision, confirmRevision, CurrentRound
          <5> QED
            BY <1>0, <3>4, <5>1, VerdictEffect
        <4> QED
          BY <2>4, <4>1
      <3>5. CASE \/ \E complete \in BOOLEAN : saveSuperiorDossier(complete)
                 \/ sendSuperiorRequest
                 \/ \E result \in {"PASSED", "FAILED"} : recordSuperiorResult(result)
        <4>1. rounds' = rounds /\ route' = route /\ LastRound' = LastRound
          BY <1>0, <3>5, SuperiorEffect DEF SuperiorUnchanged, LastRound
        <4>2. rounds # <<>>
          <5>1. PhaseInv /\ project.status = "pending_superior_acceptance"
            BY <1>0, <3>5, SuperiorEffect DEF LifeInv
          <5> QED
            BY <5>1 DEF PhaseInv
        <4> QED
          BY <1>0, <2>4, <4>1, <4>2 DEF Forwarded
      <3> QED
        BY <1>3, <3>1, <3>2, <3>3, <3>4, <3>5 DEF Accepting
    <2> QED
      BY <1>0, <2>1, <2>3, <2>4 DEF Forwarded
  <1>4. CASE Closing
    <2>1. rounds' = rounds /\ LastRound' = LastRound
          /\ route'["ACCEPTANCE_COUNCIL"] = route["ACCEPTANCE_COUNCIL"]
      BY <1>0, <1>4, LateSteps DEF LastRound
    <2>2. ASSUME liquidation'.status = "DRAFT" PROVE route'["LIQUIDATION"] # "NONE"
      <3>1. ASSUME NEW d \in Directors, approveLiquidation(d) PROVE FALSE
        <4>1. liquidation \in Liquidation
          BY <1>0 DEF TypeOK
        <4> QED
          BY <2>2, <3>1, <4>1 DEF approveLiquidation, Liquidation
      <3>2. (liquidation' = liquidation /\ route' = route) \/ OpenSubmission("LIQUIDATION")
        BY <1>4, <3>1 DEF Closing, updateFinance, prepareLiquidation, closeProject
      <3> QED
        BY <1>0, <2>2, <3>2, SubmissionEffect DEF Forwarded
    <2> QED
      BY <1>0, <2>1, <2>2 DEF Forwarded
  <1> QED
    BY <1>1, <1>2, <1>3, <1>4 DEF Next

-----------------------------------------------------------------------------
(* Independence *)
LEMMA OfficerNext == LifeInv /\ [Next]_vars => OfficerIndependent'
  <1> SUFFICES ASSUME LifeInv, [Next]_vars PROVE OfficerIndependent'
    OBVIOUS
  <1> USE DEF OfficerIndependent
  <1>0. TypeOK /\ OpenWork /\ OfficerIndependent /\ None \notin People /\ Evaluators \subseteq People
    BY LifecycleAssumption DEF LifeInv, Independence
  <1>1. CASE SetUp
    <2>1. members' = members
      BY <1>1 DEF SetUp, revokeOfficer, assignOfficer, configureSetup, confirmSetup, people
    <2>2. \/ officer' = officer \/ officer' = None
          \/ \E p \in Staff : officer' = p /\ p \notin members \cup Evaluators
      BY <1>1 DEF SetUp, revokeOfficer, assignOfficer, configureSetup, confirmSetup, people, Independent
    <2> QED
      BY <1>0, <2>1, <2>2 DEF TypeOK
  <1>2. CASE Requesting
    <2>1. officer' = officer
      BY <1>0, <1>2, RequestingIdle
    <2>2. CASE members' = members
      BY <1>0, <2>1, <2>2
    <2>3. CASE members' # members
      <3>1. PICK d \in Leaders : approveRequest(d)
        BY <1>0, <1>2, <2>3, RequestingIdle
      <3>2. \/ members' \subseteq members
            \/ MayJoin(request.change.person) /\ members' = members \cup {request.change.person}
        BY <1>0, <3>1, ChangeType DEF approveRequest
      <3> QED
        BY <1>0, <2>1, <3>2 DEF MayJoin
    <2> QED
      BY <2>2, <2>3
  <1>3. CASE Reporting \/ Producing \/ Accepting \/ Closing \/ UNCHANGED vars
    <2>1. UNCHANGED <<officer, members>>
      BY <1>0, <1>3, AcceptingFrame, LateSteps
         DEF Reporting, createReportDraft, updateReportDraft, submitReport, reviewReport,
             requestReportSupplement, acceptReport, ReportUnchanged, Producing, saveProducts,
             submitProduct, formProductPanel, recordProductReview, ProductUnchanged, people, vars
    <2> QED
      BY <1>0, <2>1
  <1> QED
    BY <1>1, <1>2, <1>3 DEF Next

LEMMA CouncilNext == LifeInv /\ [Next]_vars => CouncilIndependent'
  <1> SUFFICES ASSUME LifeInv, [Next]_vars PROVE CouncilIndependent'
    OBVIOUS
  <1> USE DEF CouncilIndependent, OpenAcceptanceRound
  <1>0. TypeOK /\ OpenWork /\ CouncilIndependent /\ PhaseInv
    BY DEF LifeInv, Independence
  <1>1. ASSUME rounds # <<>>, OpenAcceptanceRound, LastRound'.council = LastRound.council, team' = team
        PROVE  CouncilIndependent'
    BY <1>0, <1>1
  <1>2. CASE SetUp \/ Reporting \/ Requesting \/ Producing
    <2>1. rounds' = rounds /\ LastRound' = LastRound
      BY <1>0, <1>2, EarlySteps DEF closure, LastRound
    <2>2. CASE project.status = "executing"
      BY <1>0, <2>1, <2>2 DEF PhaseInv, ClosedRoundStatuses
    <2>3. CASE project.status # "executing"
      <3>1. team' = team
        BY <1>0, <1>2, <2>3, EarlySteps
      <3> QED
        BY <1>0, <2>1, <3>1
    <2> QED
      BY <2>2, <2>3
  <1>3. CASE Closing \/ UNCHANGED vars
    <2>1. rounds' = rounds /\ LastRound' = LastRound /\ team' = team
      BY <1>0, <1>3, LateSteps DEF LastRound, vars
    <2> QED
      BY <1>0, <2>1
  <1>4. CASE Accepting
    <2>0. team' = team
      BY <1>0, <1>4, AcceptingFrame
    <2>1. CASE submitAcceptance
      BY <1>0, <2>1, SubmitAcceptanceEffect
    <2>2. CASE returnAcceptance
      BY <1>0, <2>2, ReturnAcceptanceEffect DEF ClosedRoundStatuses
    <2>3. ASSUME NEW council \in SUBSET Experts, proposeCouncil(council) PROVE CouncilIndependent'
      <3>1. council \cap team = {}
        BY <2>3 DEF proposeCouncil
      <3> QED
        BY <1>0, <2>0, <2>3, <3>1, ProposeCouncilEffect
    <2>4. ASSUME NEW d \in Leaders, establishCouncil(d) PROVE CouncilIndependent'
      <3>1. rounds # <<>> /\ OpenAcceptanceRound
        BY <2>4 DEF establishCouncil, CurrentRound, ClosedRoundStatuses
      <3> QED
        BY <1>0, <1>1, <2>0, <2>4, <3>1, EstablishCouncilEffect
    <2>5. CASE (\E result \in {"PASSED", "FAILED", "REVISION_REQUIRED"} : recordMinutes(result))
               \/ submitRevision \/ (\E accept \in BOOLEAN : confirmRevision(accept))
      <3>1. rounds # <<>> /\ OpenAcceptanceRound
        BY <2>5 DEF recordMinutes, submitRevision, confirmRevision, CurrentRound, ClosedRoundStatuses
      <3> QED
        BY <1>0, <1>1, <2>0, <2>5, <3>1, VerdictEffect
    <2>6. CASE \/ \E complete \in BOOLEAN : saveSuperiorDossier(complete)
               \/ sendSuperiorRequest
               \/ \E result \in {"PASSED", "FAILED"} : recordSuperiorResult(result)
      <3>1. rounds' = rounds /\ LastRound' = LastRound
        BY <1>0, <2>6, SuperiorEffect DEF SuperiorUnchanged, LastRound
      <3> QED
        BY <1>0, <2>0, <3>1
    <2> QED
      BY <1>4, <2>1, <2>2, <2>3, <2>4, <2>5, <2>6 DEF Accepting
  <1> QED
    BY <1>2, <1>3, <1>4 DEF Next

LEMMA LifeNext == LifeInv /\ [Next]_vars => LifeInv'
  BY TypeNext, OpenWorkNext, PhaseNext, ProductsNext, LiquidationNext, EarlierNext,
     CouncilRouteNext, StaffStatusNext, ForwardedNext, OfficerNext, CouncilNext
     DEF LifeInv, Independence

LEMMA LifeInvariant == Spec => []LifeInv
  BY LifeInit, LifeNext, PTL DEF Spec

(* Nobody on the team, past or present, and no evaluator of the proposal is on the other side *)
(* of the project: not its officer, not on the council of an open round; whatever order       *)
(* officers are assigned, members join and leave, and councils are proposed in.               *)
THEOREM SidesStayApart == Spec => []Independence
  <1>1. LifeInv => Independence
    BY DEF LifeInv
  <1> QED
    BY <1>1, LifeInvariant, PTL

LEMMA RequestsFollow == LifeInv => OpenWorkAgrees
  <1> SUFFICES ASSUME LifeInv, OpenRequest PROVE RequestAnswerable
    BY DEF LifeInv, OpenWork, OpenWorkAgrees, RequestAnswerable
  <1>1. TypeOK /\ RequestRouteAgrees /\ OpenWorkOnlyWhileExecuting /\ StaffStatusFits
    BY DEF LifeInv, OpenWork
  <1>2. project.status = "executing"
    BY <1>1 DEF OpenWorkOnlyWhileExecuting, OpenRequest, OpenRequestStatuses
  <1>3. officer # None => AssertOfficer
    BY DEF LifeInv, Independence, OfficerIndependent, AssertOfficer
  <1>4. request.status \in {"submitted", "under_staff_review", "under_staff_validation",
                            "supplement_requested", "ready_for_head_decision"}
    BY DEF OpenRequest, OpenRequestStatuses, RequestStatuses
  <1>5. CASE request.status = "supplement_requested"
    BY <1>2, <1>5 DEF RequestAnswerable, AssertPi
  <1>6. CASE request.status = "ready_for_head_decision"
    BY <1>1, <1>6 DEF RequestAnswerable, RequestRouteAgrees
  <1>7. CASE request.status \in {"submitted", "under_staff_review", "under_staff_validation"}
    <2>1. request.status \in {"submitted", StaffStatus}
      BY <1>1, <1>7 DEF StaffStatusFits
    <2> QED
      BY <1>3, <2>1 DEF RequestAnswerable
  <1> QED
    BY <1>4, <1>5, <1>6, <1>7

(* A request is open only in a project that is carried out, with the leadership exactly while *)
(* its submission is on its way, and always where the one it waits for can answer it: no       *)
(* order of the officer's, the PI's and the leaders' steps leaves it with nobody.              *)
THEOREM RequestsHaveTheirPlace == Spec => []OpenWorkAgrees
  BY RequestsFollow, LifeInvariant, PTL

\* In each status of the project, what its closure waits for is there.
LEMMA ClosureFollows == LifeInv => ClosureGoesOn
  <1> SUFFICES ASSUME LifeInv, officer # None, project.status # "closed" PROVE ClosureStep
    BY DEF ClosureGoesOn
  <1>0. /\ TypeOK /\ PhaseInv /\ OpenWorkOnlyWhileExecuting /\ AssertOfficer
        /\ project.status \in Statuses
    BY DEF LifeInv, OpenWork, Independence, OfficerIndependent, AssertOfficer, TypeOK
  <1>1. CASE project.status \in {"preparing", "executing"}
    BY <1>0, <1>1 DEF ClosureStep, AssertPi
  <1>2. CASE project.status = "pending_acceptance"
    <2>1. rounds # <<>> /\ LastRound.status \notin ClosedRoundStatuses
      BY <1>0, <1>2 DEF PhaseInv
    <2>2. LastRound.status \in RoundStatuses
      BY <1>0, <2>1, LastRoundType DEF Round
    <2>3. LastRound.status \in {"SUBMITTED", "COUNCIL_PROPOSED", "COUNCIL_ESTABLISHED",
                                "REVISION_REQUIRED", "REVISION_SUBMITTED"}
      BY <2>1, <2>2 DEF RoundStatuses, ClosedRoundStatuses
    <2> QED
      BY <1>0, <1>2, <2>1, <2>3 DEF ClosureStep, CurrentRound
  <1>3. CASE project.status = "pending_superior_acceptance"
    BY <1>0, <1>3 DEF PhaseInv, ClosureStep
  <1>4. CASE project.status \in {"accepted", "failed"}
    <2>1. ~OpenRequest
      BY <1>0, <1>4 DEF OpenWorkOnlyWhileExecuting, OpenRequest, OpenRequestStatuses
    <2> QED
      BY <1>0, <1>4, <2>1 DEF ClosureStep, Concluded
  <1> QED
    BY <1>0, <1>1, <1>2, <1>3, <1>4 DEF Statuses

LEMMA OutcomeFollows == LifeInv => OutcomeAgrees
  <1> SUFFICES ASSUME LifeInv PROVE OutcomeAgrees
    OBVIOUS
  <1>0. TypeOK /\ PhaseInv /\ EarlierReturned /\ ProductsInv /\ project.status \in Statuses
    BY DEF LifeInv, TypeOK
  <1>1. project.status = "pending_acceptance" <=> OpenAcceptanceRound
    BY <1>0 DEF PhaseInv, OpenAcceptanceRound, ClosedRoundStatuses, LastIs, AcceptedRecords,
       FailedRecords, Statuses
  <1>2. AcceptanceAgrees
    BY <1>0, <1>1 DEF AcceptanceAgrees, EarlierReturned, ClosedRoundStatuses
  <1>3. AcceptedAtItsLevel
    <2>1. ASSUME project.status \in {"accepted", "pending_superior_acceptance"}
          PROVE  /\ rounds # <<>> /\ LastRound.status = "PASSED"
                 /\ \E p \in Products : products[p].status = "PASSED"
                 /\ \A p \in Products : products[p].status \in {"ABSENT", "PASSED"}
      BY <1>0, <2>1 DEF PhaseInv, LastIs, AcceptedRecords, ProductsInv, AllProductsPassed
    <2>2. project.status = "accepted" =>
             superior.status = IF project.needsSuperior THEN "PASSED" ELSE "none"
      BY <1>0 DEF PhaseInv, AcceptedRecords
    <2>3. project.status = "failed" =>
             \/ rounds # <<>> /\ LastRound.status = "FAILED"
             \/ project.needsSuperior /\ superior.status = "FAILED"
      BY <1>0 DEF PhaseInv, FailedRecords, LastIs
    <2> QED
      BY <2>1, <2>2, <2>3 DEF AcceptedAtItsLevel
  <1> QED
    BY <1>2, <1>3, ClosureFollows DEF OutcomeAgrees

(* The status of the project says what the records of its councils say, for any number of      *)
(* rounds, revisions and changes of level, although one handler writes the round and another   *)
(* the project; so with an officer in charge the closure never waits for what cannot come.      *)
THEOREM OutcomeCorrect == Spec => []OutcomeAgrees
  BY OutcomeFollows, LifeInvariant, PTL

(* An approved liquidation is the finance of the project, and what was disbursed is settled or *)
(* recovered, for all sums and however often the finance is changed while the draft waits.      *)
THEOREM MoneyBalances == Spec => []LiquidationBalanced
  <1>1. LifeInv => LiquidationBalanced
    BY DEF LifeInv, LiquidationInv
  <1> QED
    BY <1>1, LifeInvariant, PTL

-----------------------------------------------------------------------------
(* What a step may not do *)

\* A round that has ended stays as it is.
LEMMA EndedRoundsStay ==
    LifeInv /\ [Next]_vars =>
        \A i \in 1 .. Len(rounds) : rounds[i].status \in ClosedRoundStatuses => rounds'[i] = rounds[i]
  <1> SUFFICES ASSUME LifeInv, [Next]_vars, NEW i \in 1 .. Len(rounds),
                      rounds[i].status \in ClosedRoundStatuses
               PROVE  rounds'[i] = rounds[i]
    OBVIOUS
  <1>0. TypeOK /\ OpenWork
    BY DEF LifeInv
  <1>1. ASSUME OpenAcceptanceRound \/ (rounds # <<>> /\ LastRound.status \notin ClosedRoundStatuses),
               \A j \in 1 .. Len(rounds) : j # Len(rounds) => rounds'[j] = rounds[j]
        PROVE  rounds'[i] = rounds[i]
    BY <1>1 DEF OpenAcceptanceRound, LastRound
  <1>2. CASE submitAcceptance
    BY <1>0, <1>2, SubmitAcceptanceEffect
  <1>3. CASE returnAcceptance
    <2>1. rounds # <<>> /\ LastRound.status \notin ClosedRoundStatuses
      BY <1>3 DEF returnAcceptance, CurrentRound, ClosedRoundStatuses
    <2> QED
      BY <1>0, <1>1, <1>3, <2>1, ReturnAcceptanceEffect
  <1>4. ASSUME NEW council \in SUBSET Experts, proposeCouncil(council) PROVE rounds'[i] = rounds[i]
    <2>1. rounds # <<>> /\ LastRound.status \notin ClosedRoundStatuses
      BY <1>4 DEF proposeCouncil, CurrentRound, ClosedRoundStatuses
    <2> QED
      BY <1>0, <1>1, <1>4, <2>1, ProposeCouncilEffect
  <1>5. ASSUME NEW d \in Leaders, establishCouncil(d) PROVE rounds'[i] = rounds[i]
    <2>1. rounds # <<>> /\ LastRound.status \notin ClosedRoundStatuses
      BY <1>5 DEF establishCouncil, CurrentRound, ClosedRoundStatuses
    <2> QED
      BY <1>0, <1>1, <1>5, <2>1, EstablishCouncilEffect
  <1>6. CASE (\E result \in {"PASSED", "FAILED", "REVISION_REQUIRED"} : recordMinutes(result))
             \/ submitRevision \/ (\E accept \in BOOLEAN : confirmRevision(accept))
    <2>1. rounds # <<>> /\ LastRound.status \notin ClosedRoundStatuses
      BY <1>6 DEF recordMinutes, submitRevision, confirmRevision, CurrentRound, ClosedRoundStatuses
    <2> QED
      BY <1>0, <1>1, <1>6, <2>1, VerdictEffect
  <1>7. CASE \/ \E complete \in BOOLEAN : saveSuperiorDossier(complete)
             \/ sendSuperiorRequest
             \/ \E result \in {"PASSED", "FAILED"} : recordSuperiorResult(result)
    BY <1>0, <1>7, SuperiorEffect DEF SuperiorUnchanged
  <1>8. CASE SetUp \/ Reporting \/ Requesting \/ Producing \/ Closing \/ UNCHANGED vars
    BY <1>0, <1>8, EarlySteps, LateSteps DEF closure, vars
  <1> QED
    BY <1>2, <1>3, <1>4, <1>5, <1>6, <1>7, <1>8 DEF Next, Accepting

LEMMA ConcludedStep ==
    LifeInv /\ [Next]_vars =>
        /\ liquidation.status = "APPROVED" => liquidation' = liquidation /\ finance' = finance
        /\ project.status = "closed" => project' = project /\ members' = members /\ products' = products
  <1> SUFFICES ASSUME LifeInv, [Next]_vars
               PROVE  /\ liquidation.status = "APPROVED" => liquidation' = liquidation /\ finance' = finance
                      /\ project.status = "closed" =>
                            project' = project /\ members' = members /\ products' = products
    OBVIOUS
  <1>0. TypeOK /\ OpenWork
    BY DEF LifeInv
  <1>1. CASE SetUp \/ Reporting \/ Requesting \/ Producing
    <2>1. UNCHANGED <<liquidation, finance>>
      BY <1>0, <1>1, EarlySteps DEF closure
    <2>2. project.status = "closed" => UNCHANGED <<project, members, products>>
      BY <1>0, <1>1, EarlySteps
    <2> QED
      BY <2>1, <2>2
  <1>2. CASE Accepting
    BY <1>0, <1>2, AcceptingFrame
  <1>3. CASE Closing
    <2>1. liquidation.status = "APPROVED" => UNCHANGED <<liquidation, finance>>
      BY <1>3 DEF Closing, updateFinance, prepareLiquidation, approveLiquidation, closeProject
    <2>2. UNCHANGED <<members, products>> /\ (project' = project \/ Concluded)
      BY <1>0, <1>3, LateSteps
    <2> QED
      BY <2>1, <2>2 DEF Concluded
  <1>4. CASE UNCHANGED vars
    BY <1>4 DEF vars
  <1> QED
    BY <1>1, <1>2, <1>3, <1>4 DEF Next

(* What is concluded stays: no handler that runs late, on a version just read, changes a round *)
(* that has ended, an approved liquidation or a closed project.                                 *)
THEOREM ConclusionsStand == Spec => ConcludedStays
  <1>1. LifeInv /\ [Next]_vars =>
          [/\ \A i \in 1 .. Len(rounds) : rounds[i].status \in ClosedRoundStatuses => rounds'[i] = rounds[i]
           /\ liquidation.status = "APPROVED" => liquidation' = liquidation /\ finance' = finance
           /\ project.status = "closed" =>
                 project' = project /\ members' = members /\ products' = products]_vars
    BY EndedRoundsStay, ConcludedStep
  <1> QED
    BY <1>1, LifeInvariant, PTL DEF Spec, ConcludedStays

\* What a pending submission puts forward changes with a new submission only.
LEMMA ReviewedStep ==
    ASSUME LifeInv, [Next]_vars, NEW k \in Kinds, route[k] \in Pending, Content(k)' # Content(k)
    PROVE  route'[k] = "BOARD_REVIEW"
  <1>0. TypeOK /\ OpenWork /\ CouncilOnRoute
    BY DEF LifeInv
  <1>1. CASE k = "REQUEST"
    <2>1. Content(k) = {request.change}
      BY <1>1 DEF Content
    <2>2. request'.change # request.change
      BY <1>1 DEF Content
    <2>3. request.status = "ready_for_head_decision"
      BY <1>0, <1>1 DEF OpenWork, RequestRouteAgrees
    <2>4. Requesting
      BY <1>0, <2>2, RequestUntouched DEF Next, vars
    <2>5. request' = request \/ \E s \in RequestStatuses : SetRequest(s)
             \/ request' = [request EXCEPT !.status = "approved", !.current = FALSE]
      BY <2>3, <2>4 DEF Requesting, createRequest, editRequestDraft, submitRequest, reviewRequest,
         prepareRequest, requestSupplement, approveRequest, rejectRequest, AssertDecider, advance,
         returnToStaff, revertOnReturn, RequestStatuses, StaffStatus
    <2>6. request'.change = request.change
      <3>1. request \in Request /\ "approved" \in RequestStatuses
        BY <1>0 DEF TypeOK, RequestStatuses
      <3>2. [request EXCEPT !.status = "approved", !.current = FALSE].change = request.change
        BY <3>1, RequestUpdate
      <3>3. ASSUME NEW s \in RequestStatuses, SetRequest(s) PROVE request'.change = request.change
        BY <1>0, <3>3, SetRequestEffect
      <3> QED
        BY <2>5, <3>2, <3>3
    <2> QED
      BY <2>2, <2>6
  <1>2. CASE k = "ACCEPTANCE_COUNCIL"
    <2>1. LastIs("COUNCIL_PROPOSED")
      BY <1>0, <1>2 DEF CouncilOnRoute
    <2>2. LastRound'.council # LastRound.council
      BY <1>2 DEF Content
    <2>3. rounds # <<>> /\ LastRound.status = "COUNCIL_PROPOSED"
      BY <2>1 DEF LastIs
    <2>4. CASE SetUp \/ Reporting \/ Requesting \/ Producing \/ Closing \/ UNCHANGED vars
      <3>1. rounds' = rounds
        BY <1>0, <2>4, EarlySteps, LateSteps DEF closure, vars
      <3> QED
        BY <2>2, <3>1 DEF LastRound
    <2>5. CASE submitAcceptance \/ returnAcceptance
      BY <2>3, <2>5 DEF submitAcceptance, returnAcceptance, OpenAcceptanceRound, CurrentRound,
         ClosedRoundStatuses
    <2>6. ASSUME NEW council \in SUBSET Experts, proposeCouncil(council) PROVE route'[k] = "BOARD_REVIEW"
      BY <1>0, <1>2, <2>6, ProposeCouncilEffect
    <2>7. ASSUME NEW d \in Leaders, establishCouncil(d) PROVE FALSE
      BY <1>0, <2>2, <2>7, EstablishCouncilEffect
    <2>8. CASE (\E result \in {"PASSED", "FAILED", "REVISION_REQUIRED"} : recordMinutes(result))
               \/ submitRevision \/ (\E accept \in BOOLEAN : confirmRevision(accept))
      BY <1>0, <2>2, <2>8, VerdictEffect
    <2>9. CASE \/ \E complete \in BOOLEAN : saveSuperiorDossier(complete)
               \/ sendSuperiorRequest
               \/ \E result \in {"PASSED", "FAILED"} : recordSuperiorResult(result)
      <3>1. rounds' = rounds
        BY <1>0, <2>9, SuperiorEffect DEF SuperiorUnchanged
      <3> QED
        BY <2>2, <3>1 DEF LastRound
    <2> QED
      BY <2>4, <2>5, <2>6, <2>7, <2>8, <2>9 DEF Next, Accepting
  <1>3. CASE k = "LIQUIDATION"
    <2>1. liquidation'.recovered # liquidation.recovered
      BY <1>3 DEF Content
    <2>2. Closing
      BY <1>0, <2>1, EarlySteps, AcceptingFrame DEF Next, vars, closure
    <2>3. liquidation' = liquidation \/ (\E d \in Directors : approveLiquidation(d))
             \/ OpenSubmission("LIQUIDATION")
      BY <2>2 DEF Closing, updateFinance, prepareLiquidation, closeProject
    <2>4. ASSUME NEW d \in Directors, approveLiquidation(d) PROVE FALSE
      <3>1. liquidation \in Liquidation
        BY <1>0 DEF TypeOK
      <3> QED
        BY <2>1, <2>4, <3>1 DEF approveLiquidation, Liquidation
    <2> QED
      BY <1>0, <1>3, <2>1, <2>3, <2>4, SubmissionEffect
  <1> QED
    BY <1>1, <1>2, <1>3 DEF Kinds

\* What is decided in one step has come to the leadership by its submission.
LEMMA DecidedStep ==
    ASSUME LifeInv, [Next]_vars, NEW k \in Kinds, ~Decided(k), Decided(k)'
    PROVE  route[k] = "LEADERSHIP"
  <1>0. /\ TypeOK /\ OpenWork /\ Forwarded
        /\ Pending \cap {"LEADERSHIP", "NONE"} = {"LEADERSHIP"}
    BY DEF LifeInv, Pending
  <1>1. CASE k = "REQUEST"
    <2>1. /\ request.status \notin {"approved", "rejected"}
          /\ request'.status \in {"approved", "rejected"}
      BY <1>1 DEF Decided
    <2>2. Requesting
      BY <1>0, <2>1, RequestUntouched DEF Next, vars
    <2>3. ASSUME NEW s \in RequestStatuses \ {"approved", "rejected"}, SetRequest(s) PROVE FALSE
      BY <1>0, <2>1, <2>3, SetRequestEffect
    <2>4. StaffStatus \in RequestStatuses \ {"approved", "rejected"}
      BY DEF StaffStatus, RequestStatuses
    <2>5. \E d \in Leaders : AssertDecider(d)
      BY <2>1, <2>2, <2>3, <2>4
         DEF Requesting, createRequest, editRequestDraft, submitRequest, reviewRequest,
             prepareRequest, requestSupplement, approveRequest, rejectRequest, advance,
             returnToStaff, revertOnReturn, RequestStatuses
    <2>6. route["REQUEST"] \in Pending /\ route["REQUEST"] \in {"LEADERSHIP", "NONE"}
      BY <1>0, <2>5 DEF AssertDecider, AssertReadyForLeadership, OpenWork, RequestRouteAgrees
    <2> QED
      BY <1>0, <1>1, <2>6
  <1>2. CASE k = "ACCEPTANCE_COUNCIL"
    <2>1. /\ ~(rounds # <<>> /\ LastRound.status = "COUNCIL_ESTABLISHED")
          /\ LastRound'.status = "COUNCIL_ESTABLISHED" /\ rounds' # <<>>
      BY <1>2 DEF Decided
    <2>2. rounds' # rounds
      BY <2>1 DEF LastRound
    <2>3. Accepting
      BY <1>0, <2>2, EarlySteps, LateSteps DEF Next, vars, closure
    <2>4. CASE submitAcceptance \/ returnAcceptance
      BY <1>0, <2>1, <2>4, SubmitAcceptanceEffect, ReturnAcceptanceEffect
    <2>5. ASSUME NEW council \in SUBSET Experts, proposeCouncil(council) PROVE FALSE
      BY <1>0, <2>1, <2>5, ProposeCouncilEffect
    <2>6. ASSUME NEW d \in Leaders, establishCouncil(d) PROVE route[k] = "LEADERSHIP"
      <3>1. LastIs("COUNCIL_PROPOSED") /\ route["ACCEPTANCE_COUNCIL"] \in {"LEADERSHIP", "NONE"}
        BY <2>6 DEF establishCouncil, CurrentRound, AssertReadyForLeadership, LastIs
      <3> QED
        BY <1>0, <1>2, <3>1 DEF Forwarded
    <2>7. CASE (\E result \in {"PASSED", "FAILED", "REVISION_REQUIRED"} : recordMinutes(result))
               \/ submitRevision \/ (\E accept \in BOOLEAN : confirmRevision(accept))
      BY <1>0, <2>1, <2>7, VerdictEffect
    <2>8. CASE \/ \E complete \in BOOLEAN : saveSuperiorDossier(complete)
               \/ sendSuperiorRequest
               \/ \E result \in {"PASSED", "FAILED"} : recordSuperiorResult(result)
      BY <1>0, <2>2, <2>8, SuperiorEffect DEF SuperiorUnchanged
    <2> QED
      BY <2>3, <2>4, <2>5, <2>6, <2>7, <2>8 DEF Accepting
  <1>3. CASE k = "LIQUIDATION"
    <2>1. liquidation.status # "APPROVED" /\ liquidation'.status = "APPROVED"
      BY <1>3 DEF Decided
    <2>2. Closing
      BY <1>0, <2>1, EarlySteps, AcceptingFrame DEF Next, vars, closure
    <2>3. PICK d \in Directors : approveLiquidation(d)
      BY <2>1, <2>2 DEF Closing, updateFinance, prepareLiquidation, closeProject
    <2>4. liquidation.status = "DRAFT" /\ route["LIQUIDATION"] \in {"LEADERSHIP", "NONE"}
      BY <2>3 DEF approveLiquidation, AssertReadyForLeadership
    <2> QED
      BY <1>0, <1>3, <2>4 DEF Forwarded
  <1> QED
    BY <1>1, <1>2, <1>3 DEF Kinds

(* What the heads have seen is what the leadership decides on: the content of a request, a      *)
(* council or a liquidation changes on its way only with a new submission, at the board head,   *)
(* and nothing is approved, rejected or established that has not come all of that way.           *)
THEOREM ReviewedIsDecided == Spec => DecidedAsReviewed
  <1>1. LifeInv /\ [Next]_vars =>
          [\A k \in Kinds :
             /\ route[k] \in Pending /\ Content(k)' # Content(k) => route'[k] = "BOARD_REVIEW"
             /\ ~Decided(k) /\ Decided(k)' => route[k] = "LEADERSHIP"]_vars
    BY ReviewedStep, DecidedStep
  <1> QED
    BY <1>1, LifeInvariant, PTL DEF Spec, DecidedAsReviewed

-----------------------------------------------------------------------------
(* The handlers implement the phases of ProjectPhases. *)

\* The phase and the outcome for each status of the project.
PhaseTable ==
    /\ project.status \in {"preparing", "executing"} => Phase = project.status /\ Outcome = "none"
    /\ project.status = "pending_acceptance" => Phase = "facility" /\ Outcome = "none"
    /\ project.status = "pending_superior_acceptance" => Phase = "superior" /\ Outcome = "none"
    /\ project.status \in {"accepted", "failed"} =>
          /\ Phase = IF liquidation.status = "APPROVED" THEN "liquidated" ELSE "concluded"
          /\ Outcome = project.status
    /\ project.status = "closed" => Phase = "closed"

LEMMA TableHolds == LifeInv => PhaseTable
  <1> SUFFICES ASSUME LifeInv PROVE PhaseTable
    OBVIOUS
  <1>0. PhaseInv /\ LiquidationInv
    BY DEF LifeInv
  <1>1. CASE project.status \in {"preparing", "executing"}
    <2>1. liquidation.status # "APPROVED" /\ (rounds # <<>> => LastRound.status = "RETURNED")
      BY <1>0, <1>1 DEF PhaseInv, LiquidationInv
    <2>2. Outcome = "none"
      BY <2>1 DEF Outcome
    <2>3. Phase = project.status
      BY <1>1, <2>1 DEF Phase
    <2> QED
      BY <1>1, <2>2, <2>3 DEF PhaseTable
  <1>2. CASE project.status = "pending_acceptance"
    <2>1. liquidation.status # "APPROVED" /\ LastRound.status \notin ClosedRoundStatuses
      BY <1>0, <1>2 DEF PhaseInv, LiquidationInv
    <2>2. Outcome = "none"
      BY <2>1 DEF Outcome, ClosedRoundStatuses
    <2>3. Phase = "facility"
      BY <1>2, <2>1 DEF Phase
    <2> QED
      BY <1>2, <2>2, <2>3 DEF PhaseTable
  <1>3. CASE project.status = "pending_superior_acceptance"
    <2>1. /\ liquidation.status # "APPROVED" /\ rounds # <<>> /\ LastRound.status = "PASSED"
          /\ superior.status \in {"PREPARING", "SENT"}
      BY <1>0, <1>3 DEF PhaseInv, LiquidationInv, LastIs
    <2>2. Outcome = "none"
      BY <2>1 DEF Outcome
    <2>3. Phase = "superior"
      BY <1>3, <2>1 DEF Phase
    <2> QED
      BY <1>3, <2>2, <2>3 DEF PhaseTable
  <1>4. CASE project.status \in {"accepted", "failed"}
    <2>1. Phase = IF liquidation.status = "APPROVED" THEN "liquidated" ELSE "concluded"
      BY <1>4 DEF Phase
    <2>2. Outcome = project.status
      BY <1>0, <1>4 DEF PhaseInv, AcceptedRecords, FailedRecords, LastIs, Outcome
    <2> QED
      BY <1>4, <2>1, <2>2 DEF PhaseTable
  <1>5. CASE project.status = "closed"
    BY <1>5 DEF PhaseTable, Phase
  <1>6. CASE project.status \notin {"preparing", "executing", "pending_acceptance",
                                    "pending_superior_acceptance", "accepted", "failed", "closed"}
    BY <1>6 DEF PhaseTable
  <1> QED
    BY <1>1, <1>2, <1>3, <1>4, <1>5, <1>6

LEMMA TableHoldsNext == LifeInv' => PhaseTable'
  BY TableHolds, PTL

LEMMA PhasesInit == Init => Phases!Init
  <1> SUFFICES ASSUME Init PROVE Phases!Init
    OBVIOUS
  <1>1. project.status = "preparing"
    BY DEF Init
  <1>2. PhaseTable
    BY LifeInit, TableHolds
  <1> QED
    BY <1>1, <1>2 DEF PhaseTable, Phases!Init

\* Where the records that Phase and Outcome read stay, so do they.
LEMMA PhasesStutter ==
    ASSUME project'.status = project.status, rounds' = rounds, superior' = superior,
           (liquidation'.status = "APPROVED") <=> (liquidation.status = "APPROVED")
    PROVE  Phase' = Phase /\ Outcome' = Outcome
  <1>1. LastRound' = LastRound
    BY DEF LastRound
  <1>2. Outcome' = Outcome
    BY <1>1 DEF Outcome
  <1>3. Phase' = Phase
    BY DEF Phase
  <1> QED
    BY <1>2, <1>3

LEMMA PhasesStep == LifeInv /\ LifeInv' /\ [Next]_vars => [Phases!Next]_(Phases!vars)
  <1> SUFFICES ASSUME LifeInv, LifeInv', [Next]_vars PROVE [Phases!Next]_(Phases!vars)
    OBVIOUS
  <1>0. TypeOK /\ OpenWork /\ PhaseInv /\ LiquidationInv /\ PhaseTable /\ PhaseTable'
    BY TableHolds, TableHoldsNext DEF LifeInv
  <1>1. ASSUME Phase' = Phase, Outcome' = Outcome PROVE [Phases!Next]_(Phases!vars)
    BY <1>1 DEF Phases!vars
  <1>2. CASE UNCHANGED vars
    BY <1>1, <1>2, PhasesStutter DEF vars
  <1>3. CASE SetUp \/ Reporting \/ Requesting \/ Producing
    <2>1. UNCHANGED <<rounds, superior, liquidation>>
      BY <1>0, <1>3, EarlySteps DEF closure
    <2>2. CASE project'.status = project.status
      BY <1>1, <2>1, <2>2, PhasesStutter
    <2>3. CASE project.status = "preparing" /\ project'.status = "executing"
      BY <1>0, <2>3 DEF PhaseTable, Phases!Next, Phases!Start
    <2> QED
      BY <1>0, <1>3, <2>2, <2>3, EarlySteps
  <1>4. CASE submitAcceptance
    <2>1. project.status = "executing" /\ project'.status = "pending_acceptance"
      BY <1>0, <1>4, SubmitAcceptanceEffect DEF submitAcceptance, AssertPi
    <2> QED
      BY <1>0, <2>1 DEF PhaseTable, Phases!Next, Phases!SubmitDossier
  <1>5. CASE returnAcceptance
    <2>1. project.status = "pending_acceptance" /\ project'.status = "executing"
      BY <1>0, <1>5, ReturnAcceptanceEffect DEF returnAcceptance
    <2> QED
      BY <1>0, <2>1 DEF PhaseTable, Phases!Next, Phases!ReturnDossier
  <1>6. CASE \/ \E council \in SUBSET Experts : proposeCouncil(council)
             \/ \E d \in Leaders : establishCouncil(d)
    <2>1. project.status = "pending_acceptance" /\ project' = project
      BY <1>6 DEF proposeCouncil, establishCouncil
    <2> QED
      BY <1>0, <1>1, <2>1 DEF PhaseTable
  <1>7. CASE (\E result \in {"PASSED", "FAILED", "REVISION_REQUIRED"} : recordMinutes(result))
             \/ submitRevision \/ (\E accept \in BOOLEAN : confirmRevision(accept))
    <2>1. project.status = "pending_acceptance" /\ liquidation' = liquidation
      BY <1>7 DEF recordMinutes, submitRevision, confirmRevision, RoundUnchanged
    <2>2. liquidation'.status # "APPROVED"
      BY <1>0, <2>1 DEF LiquidationInv
    <2>3. \/ project' = project
          \/ project'.status \in {"failed", "accepted", "pending_superior_acceptance"}
      BY <1>0, <1>7, VerdictEffect
    <2>4. CASE project' = project
      BY <1>0, <1>1, <2>1, <2>4 DEF PhaseTable
    <2>5. CASE project'.status \in {"failed", "accepted"}
      BY <1>0, <2>1, <2>2, <2>5 DEF PhaseTable, Phases!Next, Phases!Conclude
    <2>6. CASE project'.status = "pending_superior_acceptance"
      BY <1>0, <2>1, <2>6 DEF PhaseTable, Phases!Next, Phases!Refer
    <2> QED
      BY <2>3, <2>4, <2>5, <2>6
  <1>8. CASE \/ \E complete \in BOOLEAN : saveSuperiorDossier(complete)
             \/ sendSuperiorRequest
             \/ \E result \in {"PASSED", "FAILED"} : recordSuperiorResult(result)
    <2>1. /\ SuperiorUnchanged /\ project.status = "pending_superior_acceptance"
          /\ project' = project \/ project'.status \in {"accepted", "failed"}
      BY <1>0, <1>8, SuperiorEffect
    <2>2. liquidation'.status # "APPROVED"
      BY <1>0, <2>1 DEF LiquidationInv, SuperiorUnchanged, RoundUnchanged
    <2>3. CASE project' = project
      BY <1>0, <1>1, <2>1, <2>3 DEF PhaseTable
    <2>4. CASE project'.status \in {"accepted", "failed"}
      BY <1>0, <2>1, <2>2, <2>4 DEF PhaseTable, Phases!Next, Phases!Conclude
    <2> QED
      BY <2>1, <2>3, <2>4
  <1>9. CASE Closing
    <2>0. UNCHANGED <<rounds, superior>>
      BY <1>0, <1>9, LateSteps
    <2>1. CASE closeProject
      <3>1. /\ project.status \in {"accepted", "failed"} /\ liquidation.status = "APPROVED"
            /\ project'.status = "closed"
        BY <1>0, <2>1, SetStatusEffect DEF closeProject, Concluded, Statuses
      <3>2. Outcome' = Outcome
        BY <2>0 DEF Outcome, LastRound
      <3> QED
        BY <1>0, <3>1, <3>2 DEF PhaseTable, Phases!Next, Phases!Close
    <2>2. ASSUME NEW d \in Directors, approveLiquidation(d) PROVE [Phases!Next]_(Phases!vars)
      <3>1. /\ project.status \in {"accepted", "failed"} /\ liquidation.status # "APPROVED"
            /\ project' = project
        BY <2>2 DEF approveLiquidation, Concluded
      <3>2. liquidation'.status = "APPROVED"
        BY <1>0, <2>2 DEF approveLiquidation, TypeOK, Liquidation
      <3> QED
        BY <1>0, <3>1, <3>2 DEF PhaseTable, Phases!Next, Phases!Liquidate
    <2>3. CASE \/ \E a \in People, d \in Amounts, s \in Amounts : updateFinance(a, d, s)
               \/ \E recovered \in Amounts : prepareLiquidation(recovered)
      <3>1. /\ project' = project
            /\ (liquidation'.status = "APPROVED") <=> (liquidation.status = "APPROVED")
        BY <2>3 DEF updateFinance, prepareLiquidation
      <3> QED
        BY <1>1, <2>0, <3>1, PhasesStutter
    <2> QED
      BY <1>9, <2>1, <2>2, <2>3 DEF Closing
  <1> QED
    BY <1>2, <1>3, <1>4, <1>5, <1>6, <1>7, <1>8, <1>9 DEF Next, Accepting

(* Every behaviour of the handlers is one of ProjectPhases: no phase is skipped, a returned    *)
(* dossier is the only way back, and an outcome, once there, is final.                          *)
THEOREM PhasesImplemented == Spec => ImplementsPhases
  <1>1. Init => Phases!Init
    BY PhasesInit
  <1>2. LifeInv /\ LifeInv' /\ [Next]_vars => [Phases!Next]_(Phases!vars)
    BY PhasesStep
  <1> QED
    BY <1>1, <1>2, LifeInvariant, PTL DEF Spec, ImplementsPhases, Phases!Spec
=============================================================================
