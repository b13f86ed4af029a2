-------------------------- MODULE EthicsCouncilProofs --------------------------
(* The safety of EthicsCouncil for every set of people, every composition of   *)
(* the council, every list and every bound on the numbers.                     *)
EXTENDS EthicsCouncil, TLAPS

(* A return that is in flight has its submission still at the department, and  *)
(* what it read is what the proposal still has.                                *)
ReturnAgrees == ret.kind # None => route[ret.kind] = "office" /\ ret.read = irb

(* There is something to lose only once the council is signed.                 *)
JudgedOnceSigned == irb.council.status # "approved" =>
    irb.reviews = {} /\ irb.conclusion = "none" /\ irb.certificate = None

EthicsInv == /\ TypeOK /\ ReturnAgrees /\ JudgedOnceSigned
             /\ SubmittedCouncilAccepted /\ CouncilIsItsRows /\ OnePlaceEach
             /\ OnItsWay /\ CertificateEarned /\ NumberOfOneProposal

LEMMA RouteType == TypeOK => \A k \in Procedures : close(k) \in [Procedures -> Stages]
  BY DEF TypeOK, close, Stages

(* Initial states *)
LEMMA InitInv == Init => EthicsInv
  <1> SUFFICES ASSUME Init PROVE EthicsInv
    OBVIOUS
  <1> USE EthicsAssumption
  <1>1. New \in Irb /\ Old("submitted") \in Irb /\ Old("approved") \in Irb
    BY DEF New, Old, Empty, Irb, List, CouncilStatus, Conclusions, Decisions
  <1>2. NoRows \in [People -> [MemberRoles -> MemberStatus]] /\ OldRows \in [People -> [MemberRoles -> MemberStatus]]
    BY DEF NoRows, OldRows, MemberStatus
  <1>3. TypeOK
    BY <1>1, <1>2 DEF Init, TypeOK, NoReturn, Procedures, Stages
  <1>4. ReturnAgrees /\ JudgedOnceSigned /\ SubmittedCouncilAccepted /\ OnItsWay /\ CertificateEarned /\ NumberOfOneProposal
    <2>1. irb.reviews = {} /\ irb.conclusion = "none" /\ irb.certificate = None /\ irb.number = None
          /\ irb.council.sent = FALSE
      BY DEF Init, New, Old
    <2>2. ret.kind = None
      BY DEF Init, NoReturn
    <2>3. OnItsWay
      BY <2>1 DEF Init, OnItsWay, Procedures
    <2> QED
      BY <2>1, <2>2, <2>3 DEF Init, ReturnAgrees, JudgedOnceSigned, SubmittedCouncilAccepted, CertificateEarned,
                              NumberOfOneProposal
  <1>5. CASE irb \in {New, Old("submitted")} /\ rows = NoRows
    <2>1. irb.council.status # "approved"
      BY <1>5 DEF New, Old
    <2>2. \A p \in People, r \in MemberRoles : rows[p][r] = "none"
      BY <1>5 DEF NoRows
    <2>3. CouncilIsItsRows /\ OnePlaceEach
      BY <2>1, <2>2 DEF CouncilIsItsRows, OnePlaceEach, active
    <2> QED
      BY <1>3, <1>4, <2>3 DEF EthicsInv
  <1>6. CASE irb = Old("approved") /\ rows = OldRows
    <2>1. irb.council.status = "approved" /\ irb.council.list = OldList
      BY <1>6 DEF Old, New
    <2>2. \A p \in People, r \in MemberRoles : rows[p][r] = IF OldList[p] # None /\ r = "member" THEN "active" ELSE "none"
      BY <1>6 DEF OldRows
    <2>3. \A p \in People : active(p) <=> OldList[p] # None
      BY <2>2 DEF active, MemberRoles
    <2>4. CouncilIsItsRows
      BY <2>1, <2>2, <2>3 DEF CouncilIsItsRows
    <2>5. OnePlaceEach
      BY <2>2 DEF OnePlaceEach
    <2> QED
      BY <1>3, <1>4, <2>4, <2>5 DEF EthicsInv
  <1> QED
    BY <1>5, <1>6 DEF Init

(* The list and the invitations *)
LEMMA SyncFacts ==
  ASSUME TypeOK, NEW list \in List
  PROVE  /\ syncIrbInvitations(list) \in [People -> [MemberRoles -> MemberStatus]]
         /\ \A p \in People, r \in MemberRoles :
              /\ syncIrbInvitations(list)[p][r] \in {"invited", "accepted"} => list[p] = r
              /\ syncIrbInvitations(list)[p][r] = "active" => rows[p][r] = "active"
  BY DEF TypeOK, syncIrbInvitations, MemberStatus

LEMMA ProposePreserves ==
  ASSUME EthicsInv, NEW action \in {"save", "invite", "submit"}, NEW list \in Lists, proposeIrbCouncil(action, list)
  PROVE  EthicsInv'
  <1> USE EthicsAssumption
  <1>1. list \in List /\ irb \in Irb /\ rows \in [People -> [MemberRoles -> MemberStatus]]
        /\ route \in [Procedures -> Stages]
    BY DEF EthicsInv, TypeOK
  <1>2. irb.council.status # "submitted" /\ irb.council.status # "approved"
    BY DEF proposeIrbCouncil, councilOpen
  <1>3. rows' = rows \/ rows' = syncIrbInvitations(list)
    BY DEF proposeIrbCouncil
  <1>4. rows' \in [People -> [MemberRoles -> MemberStatus]]
    BY <1>1, <1>3, SyncFacts DEF EthicsInv
  <1>5. irb' = [irb EXCEPT !.council = [status |-> IF action = "submit" THEN "submitted" ELSE "draft",
                                       list |-> list, sent |-> irb.council.sent \/ action # "save"]]
    BY DEF proposeIrbCouncil
  <1>6. irb' \in Irb
    BY <1>1, <1>5 DEF Irb, CouncilStatus
  <1>7. route' = IF action = "submit" THEN [route EXCEPT !["council"] = "office"] ELSE route
    BY DEF proposeIrbCouncil
  <1>8. route' \in [Procedures -> Stages]
    BY <1>1, <1>7 DEF Procedures, Stages
  <1>9. TypeOK'
    BY <1>4, <1>6, <1>8 DEF EthicsInv, TypeOK, proposeIrbCouncil, numbers
  <1>10. irb.conclusion = "none" /\ irb.reviews = {} /\ irb.certificate = None
    BY <1>2 DEF EthicsInv, JudgedOnceSigned
  <1>11. irb'.conclusion = "none" /\ irb'.reviews = {} /\ irb'.certificate = None /\ irb'.number = irb.number
         /\ irb'.council.list = list /\ irb'.council.status = (IF action = "submit" THEN "submitted" ELSE "draft")
         /\ (action # "save" => irb'.council.sent)
    BY <1>1, <1>5, <1>10 DEF Irb
  <1>12. ReturnAgrees'
    <2>1. ret.kind = None
      <3>1. ret.kind = "council" => FALSE
        BY <1>2, <1>1 DEF EthicsInv, ReturnAgrees, OnItsWay, Procedures
      <3>2. ret.kind = "certificate" => FALSE
        BY <1>10 DEF EthicsInv, ReturnAgrees, OnItsWay, Procedures
      <3> QED
        BY <3>1, <3>2 DEF EthicsInv, TypeOK, Procedures
    <2> QED
      BY <2>1 DEF ReturnAgrees, proposeIrbCouncil
  <1>13. JudgedOnceSigned'
    BY <1>11 DEF JudgedOnceSigned
  <1>14. SubmittedCouncilAccepted'
    <2>1. CASE action = "submit"
      <3>1. irbCompositionHolds(list, TRUE)
        <4>1. (action = "submit") = TRUE
          BY <2>1
        <4>2. irbCompositionHolds(list, action = "submit")
          BY DEF proposeIrbCouncil
        <4> HIDE DEF irbCompositionHolds
        <4> QED
          BY <4>1, <4>2, Zenon
      <3>2. allAccepted(list, rows')
        BY <2>1 DEF proposeIrbCouncil
      <3>3. irb'.council.list = list
        BY <1>11
      <3>4. allAccepted(irb'.council.list, rows') /\ irbCompositionHolds(irb'.council.list, TRUE)
        BY <3>1, <3>2, <3>3
      <3> QED
        BY <3>4 DEF SubmittedCouncilAccepted, allAccepted, irbCompositionHolds
    <2> QED
      BY <2>1, <1>11 DEF SubmittedCouncilAccepted
  <1>15. CouncilIsItsRows'
    <2>1. \A p \in People, r \in MemberRoles : rows[p][r] # "active"
      BY <1>2 DEF EthicsInv, CouncilIsItsRows, active
    <2>2. \A p \in People, r \in MemberRoles : rows'[p][r] # "active"
      BY <1>1, <1>3, <2>1, SyncFacts DEF EthicsInv
    <2> QED
      BY <2>2, <1>11 DEF CouncilIsItsRows, active
  <1>16. OnePlaceEach'
    <2>1. CASE rows' = rows
      BY <2>1 DEF EthicsInv, OnePlaceEach
    <2>2. CASE rows' = syncIrbInvitations(list)
      <3>1. \A p \in People, r \in MemberRoles : rows[p][r] # "active"
        BY <1>2 DEF EthicsInv, CouncilIsItsRows, active
      <3> QED
        BY <2>2, <3>1, <1>1, SyncFacts DEF EthicsInv, OnePlaceEach
    <2> QED
      BY <1>3, <2>1, <2>2
  <1>17. OnItsWay'
    BY <1>1, <1>2, <1>7, <1>10, <1>11 DEF EthicsInv, OnItsWay, Procedures
  <1>18. CertificateEarned' /\ NumberOfOneProposal'
    BY <1>11 DEF EthicsInv, CertificateEarned, NumberOfOneProposal, proposeIrbCouncil, numbers
  <1> QED
    BY <1>9, <1>12, <1>13, <1>14, <1>15, <1>16, <1>17, <1>18 DEF EthicsInv

LEMMA RespondPreserves ==
  ASSUME EthicsInv, NEW p \in People, NEW r \in MemberRoles, NEW answer \in {"accepted", "declined"},
         respondToIrbInvitation(p, r, answer)
  PROVE  EthicsInv'
  <1>1. rows[p][r] = "invited" /\ rows' = [rows EXCEPT ![p][r] = answer]
        /\ UNCHANGED <<irb, route, ret, counter, others>>
    BY DEF respondToIrbInvitation, mayAnswer, numbers
  <1>2. rows \in [People -> [MemberRoles -> MemberStatus]]
    BY DEF EthicsInv, TypeOK
  <1>3. rows' \in [People -> [MemberRoles -> MemberStatus]]
    BY <1>1, <1>2 DEF MemberStatus
  <1>4. \A q \in People, s \in MemberRoles :
          rows'[q][s] = IF q = p /\ s = r THEN answer ELSE rows[q][s]
    BY <1>1, <1>2
  <1>5. TypeOK' /\ ReturnAgrees' /\ JudgedOnceSigned' /\ OnItsWay' /\ NumberOfOneProposal'
    BY <1>1, <1>3 DEF EthicsInv, TypeOK, ReturnAgrees, JudgedOnceSigned, OnItsWay, NumberOfOneProposal
  <1>6. irb.council.status # "approved"
    BY <1>1 DEF EthicsInv, CouncilIsItsRows
  <1>7. \A q \in People : ~active(q)' /\ ~active(q)
    BY <1>1, <1>4, <1>6 DEF EthicsInv, CouncilIsItsRows, active
  <1>8. SubmittedCouncilAccepted'
    BY <1>1, <1>4 DEF EthicsInv, SubmittedCouncilAccepted, allAccepted, irbCompositionHolds
  <1>9. CouncilIsItsRows'
    BY <1>1, <1>6, <1>7 DEF CouncilIsItsRows
  <1>10. OnePlaceEach'
    BY <1>1, <1>4 DEF EthicsInv, OnePlaceEach
  <1>11. CertificateEarned'
    BY <1>1, <1>6 DEF EthicsInv, JudgedOnceSigned, CertificateEarned
  <1> QED
    BY <1>5, <1>8, <1>9, <1>10, <1>11 DEF EthicsInv

(* The signature *)
LEMMA ApprovePreserves ==
  ASSUME EthicsInv, approveIrbCouncil
  PROVE  EthicsInv'
  <1> USE EthicsAssumption
  <1>1. irb \in Irb /\ rows \in [People -> [MemberRoles -> MemberStatus]] /\ route \in [Procedures -> Stages]
        /\ irb.council.list \in List
    BY DEF EthicsInv, TypeOK, Irb
  <1>2. irb.council.status = "submitted" /\ rows' = established
        /\ irb' = [irb EXCEPT !.council.status = "approved"]
        /\ route' = close("council") /\ UNCHANGED <<ret, counter, others>>
    BY DEF approveIrbCouncil, numbers
  <1>3. irb' \in Irb /\ irb'.council.status = "approved" /\ irb'.council.list = irb.council.list
        /\ irb'.reviews = irb.reviews /\ irb'.conclusion = irb.conclusion
        /\ irb'.certificate = irb.certificate /\ irb'.number = irb.number
    BY <1>1, <1>2 DEF Irb, CouncilStatus
  <1>4. rows' \in [People -> [MemberRoles -> MemberStatus]]
    BY <1>1, <1>2 DEF established, MemberStatus
  <1>5. TypeOK'
    BY <1>2, <1>3, <1>4, RouteType DEF EthicsInv, TypeOK, Procedures
  <1>6. irb.conclusion = "none" /\ irb.reviews = {} /\ irb.certificate = None
    BY <1>2 DEF EthicsInv, JudgedOnceSigned
  <1>7. ret.kind = None
    <2>1. ret.kind # "council"
      BY DEF approveIrbCouncil, signable
    <2>2. ret.kind # "certificate"
      BY <1>6 DEF EthicsInv, ReturnAgrees, OnItsWay, Procedures
    <2> QED
      BY <2>1, <2>2 DEF EthicsInv, TypeOK, Procedures
  <1>8. ReturnAgrees' /\ JudgedOnceSigned' /\ SubmittedCouncilAccepted' /\ NumberOfOneProposal'
    <2>1. irb'.council.status # "submitted"
      BY <1>3
    <2>2. SubmittedCouncilAccepted'
      BY <2>1 DEF SubmittedCouncilAccepted
    <2> QED
      BY <1>2, <1>3, <1>7, <2>2 DEF EthicsInv, ReturnAgrees, JudgedOnceSigned, NumberOfOneProposal
  <1>9. \A p \in People, r \in MemberRoles : rows[p][r] # "active"
    BY <1>2 DEF EthicsInv, CouncilIsItsRows, active
  <1>10. irb.council.sent \in BOOLEAN
    BY <1>1 DEF Irb
  <1>11. None \notin MemberRoles /\ "member" \in MemberRoles
    BY DEF MemberRoles
  <1>12. ASSUME irb.council.sent PROVE CouncilIsItsRows' /\ OnePlaceEach'
    <2>1. \A p \in People, r \in MemberRoles :
            rows'[p][r] = IF irb.council.list[p] = r /\ rows[p][r] = "accepted" THEN "active"
                          ELSE IF rows[p][r] \in {"invited", "accepted"} THEN "revoked" ELSE rows[p][r]
      BY <1>2, <1>12, <1>10 DEF established
    <2>2. \A p \in People : irb.council.list[p] # None => rows[p][irb.council.list[p]] = "accepted"
      BY <1>2, <1>12 DEF EthicsInv, SubmittedCouncilAccepted, allAccepted
    <2>3. \A p \in People : irb.council.list[p] # None => irb.council.list[p] \in MemberRoles
      BY <1>1 DEF List
    <2>4. \A p \in People : (\E r \in MemberRoles : rows'[p][r] = "active") <=> irb.council.list[p] # None
      BY <2>1, <2>2, <2>3, <1>9, <1>11
    <2>5. CouncilIsItsRows'
      BY <1>3, <2>1, <2>4 DEF CouncilIsItsRows, active
    <2>6. OnePlaceEach'
      BY <2>1, <1>9 DEF OnePlaceEach
    <2> QED
      BY <2>5, <2>6
  <1>13. ASSUME ~irb.council.sent PROVE CouncilIsItsRows' /\ OnePlaceEach'
    <2>1. \A p \in People, r \in MemberRoles :
            rows'[p][r] = IF irb.council.list[p] # None /\ r = "member" THEN "active"
                          ELSE IF rows[p][r] \in {"invited", "accepted"} THEN "revoked" ELSE rows[p][r]
      BY <1>2, <1>13, <1>10 DEF established
    <2>2. \A p \in People : (\E r \in MemberRoles : rows'[p][r] = "active") <=> irb.council.list[p] # None
      BY <2>1, <1>9, <1>11
    <2>3. CouncilIsItsRows'
      BY <1>3, <2>1, <2>2 DEF CouncilIsItsRows, active
    <2>4. OnePlaceEach'
      BY <2>1, <1>9 DEF OnePlaceEach
    <2> QED
      BY <2>3, <2>4
  <1>14. CouncilIsItsRows' /\ OnePlaceEach'
    BY <1>10, <1>12, <1>13
  <1>17. OnItsWay'
    BY <1>1, <1>2, <1>3, <1>6 DEF EthicsInv, OnItsWay, close, Procedures
  <1>18. CertificateEarned'
    BY <1>3, <1>6 DEF CertificateEarned
  <1> QED
    BY <1>5, <1>8, <1>14, <1>17, <1>18 DEF EthicsInv

LEMMA RejectPreserves ==
  ASSUME EthicsInv, rejectIrbCouncil
  PROVE  EthicsInv'
  <1> USE EthicsAssumption
  <1>1. irb \in Irb /\ route \in [Procedures -> Stages]
    BY DEF EthicsInv, TypeOK
  <1>2. irb.council.status = "submitted" /\ irb' = [irb EXCEPT !.council.status = "rejected"]
        /\ route' = close("council") /\ UNCHANGED <<rows, ret, counter, others>>
    BY DEF rejectIrbCouncil, numbers
  <1>3. irb' \in Irb /\ irb'.council.status = "rejected" /\ irb'.council.list = irb.council.list
        /\ irb'.reviews = irb.reviews /\ irb'.conclusion = irb.conclusion
        /\ irb'.certificate = irb.certificate /\ irb'.number = irb.number
    BY <1>1, <1>2 DEF Irb, CouncilStatus
  <1>4. TypeOK'
    BY <1>2, <1>3, RouteType DEF EthicsInv, TypeOK, Procedures
  <1>5. irb.conclusion = "none" /\ irb.reviews = {} /\ irb.certificate = None
    BY <1>2 DEF EthicsInv, JudgedOnceSigned
  <1>6. ret.kind = None
    <2>1. ret.kind # "council"
      BY DEF rejectIrbCouncil, signable
    <2>2. ret.kind # "certificate"
      BY <1>5 DEF EthicsInv, ReturnAgrees, OnItsWay, Procedures
    <2> QED
      BY <2>1, <2>2 DEF EthicsInv, TypeOK, Procedures
  <1>7. ReturnAgrees' /\ JudgedOnceSigned' /\ SubmittedCouncilAccepted' /\ NumberOfOneProposal' /\ CertificateEarned'
    <2>1. irb'.council.status # "submitted"
      BY <1>3
    <2>2. SubmittedCouncilAccepted'
      BY <2>1 DEF SubmittedCouncilAccepted
    <2> QED
      BY <1>2, <1>3, <1>5, <1>6, <2>2 DEF EthicsInv, ReturnAgrees, JudgedOnceSigned, NumberOfOneProposal, CertificateEarned
  <1>8. CouncilIsItsRows' /\ OnePlaceEach'
    BY <1>2, <1>3 DEF EthicsInv, CouncilIsItsRows, OnePlaceEach, active
  <1>9. OnItsWay'
    BY <1>1, <1>2, <1>3, <1>5 DEF EthicsInv, OnItsWay, close, Procedures
  <1> QED
    BY <1>4, <1>7, <1>8, <1>9 DEF EthicsInv

(* Everything after the signature leaves the council, its list and its rows as *)
(* they are.                                                                   *)
LEMMA CouncilKept ==
  ASSUME EthicsInv, UNCHANGED rows, irb'.council = irb.council
  PROVE  SubmittedCouncilAccepted' /\ CouncilIsItsRows' /\ OnePlaceEach'
  BY DEF EthicsInv, SubmittedCouncilAccepted, CouncilIsItsRows, OnePlaceEach, active, allAccepted, irbCompositionHolds

LEMMA ReviewPreserves ==
  ASSUME EthicsInv, NEW p \in People, submitIrbReview(p)
  PROVE  EthicsInv'
  <1> USE EthicsAssumption
  <1>1. irb \in Irb
    BY DEF EthicsInv, TypeOK
  <1>2. irb.council.status = "approved" /\ irb.conclusion \notin {"finalized", "submitted"} /\ irb.certificate = None
        /\ irb' = [irb EXCEPT !.reviews = @ \cup {p}]
        /\ UNCHANGED <<rows, route, ret, counter, others>>
    BY DEF submitIrbReview, reviewsOpen, numbers
  <1>3. irb' \in Irb /\ irb'.council = irb.council /\ irb'.reviews = irb.reviews \cup {p}
        /\ irb'.conclusion = irb.conclusion /\ irb'.certificate = irb.certificate
        /\ irb'.signer = irb.signer /\ irb'.number = irb.number
    BY <1>1, <1>2 DEF Irb
  <1>4. TypeOK'
    BY <1>2, <1>3 DEF EthicsInv, TypeOK
  <1>5. ret.kind = None
    <2>1. ret.kind # "council" /\ ret.kind # "certificate"
      BY <1>2 DEF EthicsInv, ReturnAgrees, OnItsWay, Procedures
    <2> QED
      BY <2>1 DEF EthicsInv, TypeOK, Procedures
  <1>6. ReturnAgrees' /\ JudgedOnceSigned' /\ OnItsWay' /\ NumberOfOneProposal'
    BY <1>2, <1>3, <1>5 DEF EthicsInv, ReturnAgrees, JudgedOnceSigned, OnItsWay, NumberOfOneProposal
  <1>7. CertificateEarned'
    BY <1>2, <1>3 DEF EthicsInv, CertificateEarned, active
  <1> QED
    BY <1>2, <1>3, <1>4, <1>6, <1>7, CouncilKept DEF EthicsInv

LEMMA ConclusionPreserves ==
  ASSUME EthicsInv, NEW p \in People, NEW s \in {"draft", "finalized"}, NEW d \in Decisions,
         saveIrbConclusion(p, s, d)
  PROVE  EthicsInv'
  <1> USE EthicsAssumption
  <1>1. irb \in Irb
    BY DEF EthicsInv, TypeOK
  <1>2. irb.council.status = "approved" /\ irb.conclusion # "submitted" /\ irb.certificate = None
        /\ irb' = [irb EXCEPT !.conclusion = s, !.decision = d]
        /\ UNCHANGED <<rows, route, ret, counter, others>>
    BY DEF saveIrbConclusion, numbers
  <1>3. irb' \in Irb /\ irb'.council = irb.council /\ irb'.reviews = irb.reviews
        /\ irb'.conclusion = s /\ irb'.certificate = None /\ irb'.number = irb.number
    BY <1>1, <1>2 DEF Irb, Conclusions
  <1>4. TypeOK'
    BY <1>2, <1>3 DEF EthicsInv, TypeOK
  <1>5. ret.kind = None
    <2>1. ret.kind # "council" /\ ret.kind # "certificate"
      BY <1>2 DEF EthicsInv, ReturnAgrees, OnItsWay, Procedures
    <2> QED
      BY <2>1 DEF EthicsInv, TypeOK, Procedures
  <1>6. ReturnAgrees' /\ JudgedOnceSigned' /\ OnItsWay' /\ NumberOfOneProposal'
    BY <1>2, <1>3, <1>5 DEF EthicsInv, ReturnAgrees, JudgedOnceSigned, OnItsWay, NumberOfOneProposal
  <1>7. CertificateEarned'
    BY <1>2, <1>3 DEF CertificateEarned, saveIrbConclusion, reviewed
  <1> QED
    BY <1>2, <1>3, <1>4, <1>6, <1>7, CouncilKept DEF EthicsInv

LEMMA SubmitConclusionPreserves ==
  ASSUME EthicsInv, submitIrbConclusion
  PROVE  EthicsInv'
  <1> USE EthicsAssumption
  <1>1. irb \in Irb /\ route \in [Procedures -> Stages]
    BY DEF EthicsInv, TypeOK
  <1>2. irb.conclusion = "finalized" /\ irb.certificate = None
        /\ irb' = [irb EXCEPT !.conclusion = "submitted"]
        /\ route' = [route EXCEPT !["certificate"] = "office"]
        /\ UNCHANGED <<rows, ret, counter, others>>
    BY DEF submitIrbConclusion, numbers
  <1>3. irb' \in Irb /\ irb'.council = irb.council /\ irb'.reviews = irb.reviews
        /\ irb'.conclusion = "submitted" /\ irb'.certificate = None /\ irb'.number = irb.number
    BY <1>1, <1>2 DEF Irb, Conclusions
  <1>4. route' \in [Procedures -> Stages] /\ route'["certificate"] = "office" /\ route'["council"] = route["council"]
    BY <1>1, <1>2 DEF Procedures, Stages
  <1>5. TypeOK'
    BY <1>2, <1>3, <1>4 DEF EthicsInv, TypeOK
  <1>6. irb.council.status = "approved"
    BY <1>2 DEF EthicsInv, JudgedOnceSigned
  <1>7. ret.kind = None
    <2>1. ret.kind # "council" /\ ret.kind # "certificate"
      BY <1>2, <1>6 DEF EthicsInv, ReturnAgrees, OnItsWay, Procedures
    <2> QED
      BY <2>1 DEF EthicsInv, TypeOK, Procedures
  <1>8. ReturnAgrees' /\ JudgedOnceSigned' /\ OnItsWay' /\ NumberOfOneProposal'
    BY <1>2, <1>3, <1>4, <1>6, <1>7 DEF EthicsInv, ReturnAgrees, JudgedOnceSigned, OnItsWay, NumberOfOneProposal
  <1>9. CertificateEarned'
    BY <1>2, <1>3 DEF EthicsInv, CertificateEarned
  <1> QED
    BY <1>2, <1>3, <1>5, <1>8, <1>9, CouncilKept DEF EthicsInv

LEMMA ReturnConclusionPreserves ==
  ASSUME EthicsInv, returnIrbConclusion
  PROVE  EthicsInv'
  <1> USE EthicsAssumption
  <1>1. irb \in Irb /\ route \in [Procedures -> Stages]
    BY DEF EthicsInv, TypeOK
  <1>2. irb.conclusion = "submitted" /\ ret.kind # "certificate"
        /\ irb' = [irb EXCEPT !.conclusion = "returned"]
        /\ route' = close("certificate")
        /\ UNCHANGED <<rows, ret, counter, others>>
    BY DEF returnIrbConclusion, signable, numbers
  <1>3. irb' \in Irb /\ irb'.council = irb.council /\ irb'.reviews = irb.reviews
        /\ irb'.conclusion = "returned" /\ irb'.certificate = irb.certificate /\ irb'.number = irb.number
        /\ irb'.signer = irb.signer
    BY <1>1, <1>2 DEF Irb, Conclusions
  <1>4. route'["certificate"] = "closed" /\ route'["council"] = route["council"]
    BY <1>1, <1>2 DEF EthicsInv, OnItsWay, close, Procedures
  <1>5. TypeOK'
    BY <1>2, <1>3, RouteType DEF EthicsInv, TypeOK, Procedures
  <1>6. irb.council.status = "approved"
    BY <1>2 DEF EthicsInv, JudgedOnceSigned
  <1>7. ret.kind = None
    <2>1. ret.kind # "council"
      BY <1>6 DEF EthicsInv, ReturnAgrees, OnItsWay, Procedures
    <2> QED
      BY <1>2, <2>1 DEF EthicsInv, TypeOK, Procedures
  <1>8. ReturnAgrees' /\ JudgedOnceSigned' /\ OnItsWay' /\ NumberOfOneProposal'
    BY <1>2, <1>3, <1>4, <1>6, <1>7 DEF EthicsInv, ReturnAgrees, JudgedOnceSigned, OnItsWay, NumberOfOneProposal
  <1>9. CertificateEarned'
    BY <1>2, <1>3 DEF EthicsInv, CertificateEarned, active
  <1> QED
    BY <1>2, <1>3, <1>5, <1>8, <1>9, CouncilKept DEF EthicsInv

(* A number that is given is one no other certificate has; the counter stays in its range. *)
LEMMA NumberFacts ==
  ASSUME TypeOK, NEW requested \in Numbers \cup {None}, NEW previous \in Numbers \cup {None},
         NEW generate \in BOOLEAN, NEW taken, None \notin taken \/ generate,
         NEW d \in resolveDocumentNumber(requested, previous, generate, taken)
  PROVE  /\ d[2] \in 0 .. MaxNumber
         /\ d[1] \in Numbers \cup {None} /\ d[1] \notin taken
         /\ generate => d[1] \in Numbers
  <1> USE EthicsAssumption
  <1> DEFINE chosen == IF requested # None THEN requested ELSE previous
  <1>1. counter \in 0 .. MaxNumber
    BY DEF TypeOK
  <1>2. CASE chosen # None
    <2>1. d = <<chosen, counter>> /\ chosen \notin taken
      BY <1>2 DEF resolveDocumentNumber
    <2> QED
      BY <1>1, <1>2, <2>1
  <1>3. CASE chosen = None /\ generate
    <2>1. PICK n \in nextNumber(taken) : d = <<n, n>>
      BY <1>3 DEF resolveDocumentNumber
    <2> QED
      BY <2>1 DEF nextNumber, Numbers
  <1>4. CASE chosen = None /\ ~generate
    <2>1. d = <<None, counter>>
      BY <1>4 DEF resolveDocumentNumber
    <2> QED
      BY <1>1, <1>4, <2>1
  <1> QED
    BY <1>2, <1>3, <1>4

LEMMA CertifyPreserves ==
  ASSUME EthicsInv, NEW a \in Authorities, NEW status \in Decisions, NEW n \in Numbers \cup {None},
         updateIRBStatus(a, status, n)
  PROVE  EthicsInv'
  <1> USE EthicsAssumption
  <1>1. irb \in Irb /\ route \in [Procedures -> Stages] /\ others \subseteq Numbers
    BY DEF EthicsInv, TypeOK
  <1> DEFINE previous == IF status = "APPROVED" THEN irb.number ELSE None
  <1>2. PICK d \in resolveDocumentNumber(n, previous, status = "APPROVED", others) :
          /\ irb' = [irb EXCEPT !.certificate = status, !.signer = a, !.number = d[1],
                                !.conclusion = IF @ = "none" THEN "none" ELSE "signed"]
          /\ counter' = d[2]
    BY DEF updateIRBStatus
  <1>3. previous \in Numbers \cup {None} /\ None \notin others
    <2>1. irb.number \in Numbers \cup {None}
      BY <1>1 DEF Irb
    <2>2. None \notin Nat /\ Numbers \subseteq Nat
      BY DEF Numbers
    <2> QED
      BY <1>1, <2>1, <2>2
  <1>4. d[2] \in 0 .. MaxNumber /\ d[1] \in Numbers \cup {None} /\ d[1] \notin others
    <2> HIDE DEF previous
    <2>1. (status = "APPROVED") \in BOOLEAN
      OBVIOUS
    <2>2. None \notin others \/ status = "APPROVED"
      BY <1>3
    <2> QED
      BY <1>2, <1>3, <2>1, <2>2, NumberFacts DEF EthicsInv
  <1>5. irb.council.status = "approved" /\ ~active(a) /\ UNCHANGED <<rows, ret, others>>
        /\ route' = (IF route["certificate"] = "leadership" THEN close("certificate") ELSE route)
    BY DEF updateIRBStatus, mayCertify
  <1>6. irb' \in Irb /\ irb'.council = irb.council /\ irb'.reviews = irb.reviews /\ irb'.number = d[1]
        /\ irb'.conclusion = (IF irb.conclusion = "none" THEN "none" ELSE "signed")
        /\ irb'.certificate = status /\ irb'.signer = a
    BY <1>1, <1>2, <1>4 DEF Irb, Conclusions
  <1>7. TypeOK'
    BY <1>2, <1>4, <1>5, <1>6, RouteType DEF EthicsInv, TypeOK, Procedures
  <1>8. CASE irb.conclusion = "submitted" /\ signable("certificate")
    <2>1. route["certificate"] = "leadership" /\ ret.kind # "certificate"
      BY <1>8, <1>1 DEF signable, EthicsInv, OnItsWay
    <2>2. route'["certificate"] = "closed" /\ route'["council"] = route["council"]
      BY <1>1, <1>5, <2>1 DEF close, Procedures
    <2>3. ret.kind = None
      <3>1. ret.kind # "council"
        BY <1>5 DEF EthicsInv, ReturnAgrees, OnItsWay, Procedures
      <3> QED
        BY <2>1, <3>1 DEF EthicsInv, TypeOK, Procedures
    <2>4. ReturnAgrees' /\ JudgedOnceSigned' /\ OnItsWay' /\ NumberOfOneProposal'
      BY <1>4, <1>5, <1>6, <1>8, <2>2, <2>3 DEF EthicsInv, ReturnAgrees, JudgedOnceSigned, OnItsWay, NumberOfOneProposal
    <2>5. CertificateEarned'
      BY <1>5, <1>6, <1>8 DEF EthicsInv, CertificateEarned, active
    <2> QED
      BY <1>5, <1>6, <1>7, <2>4, <2>5, CouncilKept DEF EthicsInv
  <1>9. CASE ~irb.council.sent /\ irb.conclusion = "none"
    <2>1. route["certificate"] # "leadership" /\ route' = route
      BY <1>5, <1>9 DEF EthicsInv, OnItsWay
    <2>2. ret.kind = None
      <3>1. ret.kind # "council" /\ ret.kind # "certificate"
        BY <1>5, <1>9 DEF EthicsInv, ReturnAgrees, OnItsWay, Procedures
      <3> QED
        BY <3>1 DEF EthicsInv, TypeOK, Procedures
    <2>3. ReturnAgrees' /\ JudgedOnceSigned' /\ OnItsWay' /\ NumberOfOneProposal'
      BY <1>4, <1>5, <1>6, <1>9, <2>1, <2>2 DEF EthicsInv, ReturnAgrees, JudgedOnceSigned, OnItsWay, NumberOfOneProposal
    <2>4. CertificateEarned'
      BY <1>5, <1>6, <1>9 DEF CertificateEarned, active
    <2> QED
      BY <1>5, <1>6, <1>7, <2>3, <2>4, CouncilKept DEF EthicsInv
  <1> QED
    BY <1>8, <1>9 DEF updateIRBStatus

LEMMA OtherPreserves ==
  ASSUME EthicsInv, NEW n \in Numbers \cup {None}, NEW old \in others \cup {None}, otherCertificate(n, old)
  PROVE  EthicsInv'
  <1> USE EthicsAssumption
  <1> DEFINE taken == (others \ {old}) \cup {irb.number}
  <1>1. PICK d \in resolveDocumentNumber(n, old, TRUE, taken) :
          others' = (others \ {old}) \cup {d[1]} /\ counter' = d[2]
    BY DEF otherCertificate
  <1>2. old \in Numbers \cup {None}
    BY DEF EthicsInv, TypeOK
  <1>3. d[2] \in 0 .. MaxNumber /\ d[1] \in Numbers /\ d[1] \notin taken
    <2> HIDE DEF taken
    <2> QED
      BY <1>1, <1>2, NumberFacts DEF EthicsInv
  <1>4. UNCHANGED <<irb, rows, route, ret>>
    BY DEF otherCertificate
  <1>5. TypeOK'
    BY <1>1, <1>3, <1>4 DEF EthicsInv, TypeOK
  <1>6. NumberOfOneProposal'
    BY <1>1, <1>3, <1>4 DEF EthicsInv, NumberOfOneProposal
  <1>7. ReturnAgrees' /\ JudgedOnceSigned' /\ OnItsWay'
    BY <1>4 DEF EthicsInv, ReturnAgrees, JudgedOnceSigned, OnItsWay
  <1>8. CertificateEarned'
    BY <1>4 DEF EthicsInv, CertificateEarned, active
  <1> QED
    BY <1>4, <1>5, <1>6, <1>7, <1>8, CouncilKept DEF EthicsInv

(* The department *)
LEMMA AdvancePreserves ==
  ASSUME EthicsInv, NEW k \in Procedures, advance(k)
  PROVE  EthicsInv'
  <1> USE EthicsAssumption
  <1>1. route["certificate"] \in Stages /\ route \in [Procedures -> Stages]
    BY DEF EthicsInv, TypeOK, Procedures
  <1>2. route[k] = "office" /\ ret.kind # k /\ route' = [route EXCEPT ![k] = "leadership"]
        /\ UNCHANGED <<irb, rows, ret, counter, others>>
    BY DEF advance, numbers
  <1>3. \A j \in Procedures : route'[j] = IF j = k THEN "leadership" ELSE route[j]
    BY <1>1, <1>2
  <1>4. TypeOK'
    BY <1>1, <1>2 DEF EthicsInv, TypeOK, Stages
  <1>5. ReturnAgrees'
    BY <1>2, <1>3 DEF EthicsInv, TypeOK, ReturnAgrees
  <1>6. OnItsWay'
    BY <1>2, <1>3 DEF EthicsInv, OnItsWay, Procedures
  <1>7. JudgedOnceSigned' /\ NumberOfOneProposal'
    BY <1>2 DEF EthicsInv, JudgedOnceSigned, NumberOfOneProposal
  <1>8. CertificateEarned'
    BY <1>2 DEF EthicsInv, CertificateEarned, active
  <1> QED
    BY <1>2, <1>4, <1>5, <1>6, <1>7, <1>8, CouncilKept DEF EthicsInv

LEMMA BeginReturnPreserves ==
  ASSUME EthicsInv, NEW k \in Procedures, BeginReturn(k)
  PROVE  EthicsInv'
  <1>1. route[k] = "office" /\ ret' = [kind |-> k, read |-> irb] /\ UNCHANGED <<irb, rows, route, counter, others>>
    BY DEF BeginReturn, numbers
  <1>2. TypeOK' /\ ReturnAgrees'
    BY <1>1 DEF EthicsInv, TypeOK, ReturnAgrees
  <1>3. JudgedOnceSigned' /\ NumberOfOneProposal' /\ OnItsWay'
    BY <1>1 DEF EthicsInv, JudgedOnceSigned, NumberOfOneProposal, OnItsWay
  <1>4. CertificateEarned'
    BY <1>1 DEF EthicsInv, CertificateEarned, active
  <1> QED
    BY <1>1, <1>2, <1>3, <1>4, CouncilKept DEF EthicsInv

LEMMA CommitReturnPreserves ==
  ASSUME EthicsInv, CommitReturn
  PROVE  EthicsInv' /\ irb'.reviews = irb.reviews
  <1> USE EthicsAssumption
  <1>1. irb \in Irb /\ route \in [Procedures -> Stages] /\ ret.kind \in Procedures
    BY DEF EthicsInv, TypeOK, CommitReturn
  <1>2. ret.kind # None /\ route[ret.kind] = "office" /\ ret.read = irb
        /\ irb' = returned(ret.kind, irb) /\ route' = [route EXCEPT ![ret.kind] = "closed"]
        /\ ret' = NoReturn /\ UNCHANGED <<rows, counter, others>>
    BY DEF CommitReturn, EthicsInv, ReturnAgrees, numbers
  <1>3. NoReturn \in [kind: Procedures \cup {None}, read: Irb] /\ NoReturn.kind = None
    BY DEF NoReturn, New, Empty, Irb, List, CouncilStatus, Conclusions, Decisions
  <1>4. route' \in [Procedures -> Stages]
    BY <1>1, <1>2 DEF Stages
  <1>5. ReturnAgrees'
    BY <1>2, <1>3 DEF ReturnAgrees
  <1>6. CASE ret.kind = "council"
    <2>1. irb.council.status = "submitted" /\ irb.council.sent
      BY <1>2, <1>6 DEF EthicsInv, OnItsWay
    <2>2. irb' = [irb EXCEPT !.council.status = "returned"]
      BY <1>2, <1>6, <2>1 DEF returned
    <2>3. irb' \in Irb /\ irb'.council.status = "returned" /\ irb'.reviews = irb.reviews
          /\ irb'.conclusion = irb.conclusion /\ irb'.certificate = irb.certificate /\ irb'.number = irb.number
      BY <1>1, <2>2 DEF Irb, CouncilStatus
    <2>4. irb.conclusion = "none" /\ irb.reviews = {} /\ irb.certificate = None
      BY <2>1 DEF EthicsInv, JudgedOnceSigned
    <2>5. TypeOK'
      BY <1>2, <1>3, <1>4, <2>3 DEF EthicsInv, TypeOK
    <2>6. JudgedOnceSigned' /\ NumberOfOneProposal' /\ CertificateEarned'
      BY <1>2, <2>3, <2>4 DEF EthicsInv, JudgedOnceSigned, NumberOfOneProposal, CertificateEarned
    <2>7. SubmittedCouncilAccepted'
      BY <2>3 DEF SubmittedCouncilAccepted
    <2>8. CouncilIsItsRows' /\ OnePlaceEach'
      BY <1>2, <2>1, <2>3 DEF EthicsInv, CouncilIsItsRows, OnePlaceEach, active
    <2>9. OnItsWay'
      BY <1>1, <1>2, <1>6, <2>3, <2>4 DEF EthicsInv, OnItsWay, Procedures
    <2> QED
      BY <1>5, <2>3, <2>5, <2>6, <2>7, <2>8, <2>9 DEF EthicsInv
  <1>7. CASE ret.kind = "certificate"
    <2>1. irb.conclusion = "submitted"
      BY <1>2, <1>7 DEF EthicsInv, OnItsWay
    <2>2. irb' = [irb EXCEPT !.conclusion = "returned"]
      BY <1>2, <1>7, <2>1 DEF returned
    <2>3. irb' \in Irb /\ irb'.council = irb.council /\ irb'.reviews = irb.reviews
          /\ irb'.conclusion = "returned" /\ irb'.certificate = irb.certificate /\ irb'.number = irb.number
          /\ irb'.signer = irb.signer
      BY <1>1, <2>2 DEF Irb, Conclusions
    <2>4. irb.council.status = "approved"
      BY <2>1 DEF EthicsInv, JudgedOnceSigned
    <2>5. TypeOK'
      BY <1>2, <1>3, <1>4, <2>3 DEF EthicsInv, TypeOK
    <2>6. JudgedOnceSigned' /\ NumberOfOneProposal'
      BY <1>2, <2>3, <2>4 DEF EthicsInv, JudgedOnceSigned, NumberOfOneProposal
    <2>7. CertificateEarned'
      BY <1>2, <2>1, <2>3 DEF EthicsInv, CertificateEarned, active
    <2>8. OnItsWay'
      BY <1>1, <1>2, <1>7, <2>3, <2>4 DEF EthicsInv, OnItsWay, Procedures
    <2> QED
      BY <1>2, <1>5, <2>3, <2>5, <2>6, <2>7, <2>8, CouncilKept DEF EthicsInv
  <1> QED
    BY <1>1, <1>6, <1>7 DEF Procedures

(* Every step of the council *)
LEMMA NextInv == EthicsInv /\ [Next]_vars => EthicsInv'
  <1> SUFFICES ASSUME EthicsInv, [Next]_vars PROVE EthicsInv'
    OBVIOUS
  <1>1. ASSUME NEW action \in {"save", "invite", "submit"}, NEW list \in Lists, proposeIrbCouncil(action, list)
        PROVE EthicsInv'
    BY <1>1, ProposePreserves
  <1>2. ASSUME NEW p \in People, NEW r \in MemberRoles, NEW answer \in {"accepted", "declined"},
               respondToIrbInvitation(p, r, answer)
        PROVE EthicsInv'
    BY <1>2, RespondPreserves
  <1>3. ASSUME NEW p \in People, submitIrbReview(p) PROVE EthicsInv'
    BY <1>3, ReviewPreserves
  <1>4. ASSUME NEW p \in People, NEW s \in {"draft", "finalized"}, NEW d \in Decisions, saveIrbConclusion(p, s, d)
        PROVE EthicsInv'
    BY <1>4, ConclusionPreserves
  <1>5. ASSUME NEW n \in Numbers \cup {None}, NEW a \in Authorities, NEW s \in Decisions, updateIRBStatus(a, s, n)
        PROVE EthicsInv'
    BY <1>5, CertifyPreserves
  <1>6. ASSUME NEW n \in Numbers \cup {None}, NEW old \in others \cup {None}, otherCertificate(n, old)
        PROVE EthicsInv'
    BY <1>6, OtherPreserves
  <1>7. ASSUME NEW k \in Procedures, advance(k) \/ BeginReturn(k) PROVE EthicsInv'
    BY <1>7, AdvancePreserves, BeginReturnPreserves
  <1>8. CASE UNCHANGED vars
    <2>1. UNCHANGED <<irb, rows, route, ret, counter, others>>
      BY <1>8 DEF vars
    <2>2. TypeOK' /\ ReturnAgrees' /\ JudgedOnceSigned' /\ OnItsWay' /\ NumberOfOneProposal'
      BY <2>1 DEF EthicsInv, TypeOK, ReturnAgrees, JudgedOnceSigned, OnItsWay, NumberOfOneProposal
    <2>3. CertificateEarned'
      BY <2>1 DEF EthicsInv, CertificateEarned, active
    <2> QED
      BY <2>1, <2>2, <2>3, CouncilKept DEF EthicsInv
  <1> QED
    BY <1>1, <1>2, <1>3, <1>4, <1>5, <1>6, <1>7, <1>8, ApprovePreserves, RejectPreserves,
       SubmitConclusionPreserves, ReturnConclusionPreserves, CommitReturnPreserves DEF Next

THEOREM EthicsInvHolds == Spec => []EthicsInv
  BY InitInv, NextInv, PTL DEF Spec

(* The types of the ethics council. *)
THEOREM EthicsTypeCorrect == Spec => []TypeOK
  <1>1. EthicsInv => TypeOK
    BY DEF EthicsInv
  <1> QED
    BY <1>1, EthicsInvHolds, PTL

(* The council that judges is the one that agreed to, for every list and every composition. *)
THEOREM CouncilIsAsAccepted == Spec => []CouncilAsAccepted
  <1>1. EthicsInv => CouncilAsAccepted
    BY DEF EthicsInv, CouncilAsAccepted
  <1> QED
    BY <1>1, EthicsInvHolds, PTL

(* What has come to the leadership can be decided there. *)
LEMMA LeadershipDecides == EthicsInv => DecidableThere
  <1> SUFFICES ASSUME EthicsInv PROVE DecidableThere
    OBVIOUS
  <1>1. \A k \in Procedures : route[k] = "leadership" => signable(k)
    <2> SUFFICES ASSUME NEW k \in Procedures, route[k] = "leadership" PROVE signable(k)
      OBVIOUS
    <2>1. k # None
      BY EthicsAssumption DEF Procedures
    <2> QED
      BY <2>1 DEF EthicsInv, ReturnAgrees, signable
  <1>2. ASSUME route["council"] = "leadership"
        PROVE  /\ irb.council.status = "submitted"
               /\ irbCompositionHolds(irb.council.list, TRUE) /\ allAccepted(irb.council.list, rows)
    BY <1>2 DEF EthicsInv, OnItsWay, SubmittedCouncilAccepted
  <1>3. ASSUME route["certificate"] = "leadership"
        PROVE  /\ irb.conclusion = "submitted" /\ irb.council.status = "approved"
               /\ \A a \in Authorities : irb.council.list[a] = None => mayCertify(a)
    <2>1. irb.conclusion = "submitted"
      BY <1>3 DEF EthicsInv, OnItsWay
    <2>2. irb.council.status = "approved"
      BY <2>1 DEF EthicsInv, JudgedOnceSigned
    <2> QED
      BY <2>1, <2>2, EthicsAssumption DEF EthicsInv, CouncilIsItsRows, mayCertify
  <1> QED
    BY <1>1, <1>2, <1>3 DEF DecidableThere, Procedures

(* Council and conclusion are on their way exactly while they wait for an answer, and an authority *)
(* that is not on the council can give it, whoever else is.                                        *)
THEOREM EthicsRouteAgrees == Spec => []RouteAgrees
  <1>1. EthicsInv => RouteAgrees
    BY LeadershipDecides DEF EthicsInv, RouteAgrees
  <1> QED
    BY <1>1, EthicsInvHolds, PTL

(* A certificate rests on the opinions and on the signature of an outsider. *)
THEOREM CertificateIsEarned == Spec => []CertificateEarned
  <1>1. EthicsInv => CertificateEarned
    BY DEF EthicsInv
  <1> QED
    BY <1>1, EthicsInvHolds, PTL

(* No two proposals have a certificate of the same number, however numbers are entered and counted. *)
THEOREM NumberIsOfOneProposal == Spec => []NumberOfOneProposal
  <1>1. EthicsInv => NumberOfOneProposal
    BY DEF EthicsInv
  <1> QED
    BY <1>1, EthicsInvHolds, PTL

(* No opinion is lost: what a return writes back is what the proposal still has. *)
THEOREM NoReviewIsLost == Spec => NoReviewLost
  <1>1. EthicsInv /\ [Next]_vars => irb.reviews \subseteq irb'.reviews
    <2> SUFFICES ASSUME EthicsInv, [Next]_vars PROVE irb.reviews \subseteq irb'.reviews
      OBVIOUS
    <2>1. irb \in Irb
      BY DEF EthicsInv, TypeOK
    <2>2. ASSUME NEW action \in {"save", "invite", "submit"}, NEW list \in Lists, proposeIrbCouncil(action, list)
          PROVE irb'.reviews = irb.reviews
      <3>1. irb' = [irb EXCEPT !.council = irb'.council]
        BY <2>1, <2>2 DEF proposeIrbCouncil, Irb
      <3> QED
        BY <2>1, <3>1 DEF Irb
    <2>3. ASSUME NEW p \in People, submitIrbReview(p) PROVE irb.reviews \subseteq irb'.reviews
      BY <2>1, <2>3 DEF submitIrbReview, Irb
    <2>4. ASSUME NEW p \in People, NEW s \in {"draft", "finalized"}, NEW d \in Decisions, saveIrbConclusion(p, s, d)
          PROVE irb'.reviews = irb.reviews
      BY <2>1, <2>4 DEF saveIrbConclusion, Irb
    <2>5. ASSUME NEW n \in Numbers \cup {None}, NEW a \in Authorities, NEW s \in Decisions, updateIRBStatus(a, s, n)
          PROVE irb'.reviews = irb.reviews
      BY <2>1, <2>5 DEF updateIRBStatus, Irb
    <2>6. CASE approveIrbCouncil \/ rejectIrbCouncil \/ submitIrbConclusion \/ returnIrbConclusion
      BY <2>1, <2>6 DEF approveIrbCouncil, rejectIrbCouncil, submitIrbConclusion, returnIrbConclusion, Irb
    <2>7. CASE CommitReturn
      BY <2>7, CommitReturnPreserves
    <2>8. CASE UNCHANGED irb
      BY <2>8
    <2> QED
      BY <2>2, <2>3, <2>4, <2>5, <2>6, <2>7, <2>8 DEF Next, vars, respondToIrbInvitation, otherCertificate, advance, BeginReturn
  <1> QED
    BY <1>1, EthicsInvHolds, PTL DEF Spec, NoReviewLost
===============================================================================
