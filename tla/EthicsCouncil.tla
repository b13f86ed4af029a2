----------------------------- MODULE EthicsCouncil -----------------------------
(* The ethics council (IRB) of one proposal: its list and invitations, the     *)
(* opinions of its members, the conclusion and the certificate, with the route *)
(* of both through the department (proposal-decisions.service, irb-council).   *)
(* The council, opinions, conclusion and certificate are one JSON value of the *)
(* proposal. The procedures here lock the proposal and are serializable: one   *)
(* action each. A return by the department reads the value and writes it back  *)
(* without that lock: two actions.                                             *)
EXTENDS Naturals, FiniteSets

CONSTANTS People,
          Authorities,  \* accounts that sign for the Academy; they may be on the council too
          Lists,        \* the lists an officer may write: [People -> MemberRoles \cup {None}]
          OldList,      \* the list of a council from before there were invitations
          Min, Max,     \* IRB_COMPOSITION, [MemberRoles -> Nat]
          MaxNumber,    \* bound on the numbers of certificates of a year
          None

MemberRoles   == {"chair", "secretary", "reviewer", "member"}
MemberStatus  == {"none", "invited", "accepted", "declined", "active", "revoked"}
CouncilStatus == {"draft", "submitted", "returned", "rejected", "approved"}
Conclusions   == {"none", "draft", "finalized", "submitted", "returned", "signed"}
Decisions     == {"APPROVED", "REJECTED"}
Procedures    == {"council", "certificate"}
\* none: never submitted; office: with the department; leadership: to be signed; closed: ended.
Stages        == {"none", "office", "leadership", "closed"}
List          == [People -> MemberRoles \cup {None}]
Numbers       == 1 .. MaxNumber

ASSUME EthicsAssumption ==
    /\ Authorities \subseteq People
    /\ MaxNumber \in Nat
    /\ None \notin People \cup MemberRoles \cup Decisions \cup Procedures \cup Nat
    /\ Lists \subseteq List /\ OldList \in List
    /\ Min \in [MemberRoles -> Nat] /\ Max \in [MemberRoles -> Nat]

VARIABLES irb,    \* research_proposals.irb_metadata
          rows,   \* proposal_irb_members: the last row of a person in a role
          route,  \* [Procedures -> Stages], approval_submissions
          ret,    \* the return to the staff that is in flight
          counter,  \* document_number_counters: the last number of the year
          others    \* the numbers on the certificates of other proposals

vars == <<irb, rows, route, ret, counter, others>>
numbers == <<counter, others>>

Irb == [council: [status: CouncilStatus, list: List, sent: BOOLEAN],
        reviews: SUBSET People,
        conclusion: Conclusions, decision: Decisions,
        certificate: Decisions \cup {None}, signer: People \cup {None},
        number: Numbers \cup {None}]

TypeOK ==
    /\ irb \in Irb
    /\ rows \in [People -> [MemberRoles -> MemberStatus]]
    /\ route \in [Procedures -> Stages]
    /\ ret \in [kind: Procedures \cup {None}, read: Irb]
    /\ counter \in 0 .. MaxNumber /\ others \subseteq Numbers

-----------------------------------------------------------------------------
Empty == [p \in People |-> None]
New == [council |-> [status |-> "draft", list |-> Empty, sent |-> FALSE], reviews |-> {},
        conclusion |-> "none", decision |-> "APPROVED", certificate |-> None, signer |-> None,
        number |-> None]
Old(status) == [New EXCEPT !.council = [status |-> status, list |-> OldList, sent |-> FALSE]]

NoRows == [p \in People |-> [r \in MemberRoles |-> "none"]]
\* Members of a council from before invitations have the role member.
OldRows == [p \in People |-> [r \in MemberRoles |->
    IF OldList[p] # None /\ r = "member" THEN "active" ELSE "none"]]
NoReturn == [kind |-> None, read |-> New]

\* A new proposal, or one whose council was submitted or signed before there were invitations.
Init ==
    /\ \/ irb \in {New, Old("submitted")} /\ rows = NoRows
       \/ irb = Old("approved") /\ rows = OldRows
    /\ route = [k \in Procedures |-> "none"]
    /\ ret = NoReturn
    /\ counter = 0 /\ others = {}

-----------------------------------------------------------------------------
active(p) == \E r \in MemberRoles : rows[p][r] = "active"

irbCompositionHolds(list, strict) == \A r \in MemberRoles :
    LET n == Cardinality({p \in People : list[p] = r})
    IN  n <= Max[r] /\ (strict => n >= Min[r])

\* Invites who is new, takes back what the list no longer has; an answer stays, a refusal too.
syncIrbInvitations(list) == [p \in People |-> [r \in MemberRoles |->
    CASE rows[p][r] \in {"invited", "accepted"} /\ list[p] # r -> "revoked"
      [] list[p] = r /\ rows[p][r] \notin {"invited", "accepted", "declined"} -> "invited"
      [] OTHER -> rows[p][r]]]

allAccepted(list, rs) == \A p \in People : list[p] # None => rs[p][list[p]] = "accepted"

councilOpen == irb.council.status \notin {"submitted", "approved"}

\* save: a draft; invite: the list and the invitations; submit: everybody has accepted.
proposeIrbCouncil(action, list) ==
    /\ irb.certificate = None
    /\ councilOpen
    /\ irbCompositionHolds(list, action = "submit")
    /\ rows' = IF action = "save" THEN rows ELSE syncIrbInvitations(list)
    /\ action = "submit" => allAccepted(list, rows')
    /\ irb' = [irb EXCEPT !.council = [status |-> IF action = "submit" THEN "submitted" ELSE "draft",
                                       list |-> list, sent |-> @.sent \/ action # "save"]]
    /\ route' = IF action = "submit" THEN [route EXCEPT !["council"] = "office"] ELSE route
    /\ UNCHANGED <<ret, numbers>>

\* Fault: an answer may be changed.
mayAnswer_Again(status) == status \in {"invited", "accepted", "declined"}

mayAnswer(status) == status = "invited"

respondToIrbInvitation(p, r, answer) ==
    /\ mayAnswer(rows[p][r])
    /\ rows' = [rows EXCEPT ![p][r] = answer]
    /\ UNCHANGED <<irb, route, ret, numbers>>

\* assertReadyForLeadership; the row of the submission may be locked by a return.
signable(k) == route[k] \in {"none", "leadership"} /\ ret.kind # k

\* Fault: the submission stays open.
close_Forgotten(k) == route

close(k) == IF route[k] = "none" THEN route ELSE [route EXCEPT ![k] = "closed"]

\* Everybody on the list becomes a member and other invitations end.
established == [p \in People |-> [r \in MemberRoles |->
    CASE irb.council.sent /\ irb.council.list[p] = r /\ rows[p][r] = "accepted" -> "active"
      [] ~irb.council.sent /\ irb.council.list[p] # None /\ r = "member" -> "active"
      [] OTHER -> IF rows[p][r] \in {"invited", "accepted"} THEN "revoked" ELSE rows[p][r]]]

approveIrbCouncil ==
    /\ irb.council.status = "submitted"
    /\ signable("council")
    /\ irb.council.sent => irbCompositionHolds(irb.council.list, TRUE) /\ allAccepted(irb.council.list, rows)
    /\ rows' = established
    /\ irb' = [irb EXCEPT !.council.status = "approved"]
    /\ route' = close("council")
    /\ UNCHANGED <<ret, numbers>>

rejectIrbCouncil ==
    /\ irb.council.status = "submitted"
    /\ signable("council")
    /\ irb' = [irb EXCEPT !.council.status = "rejected"]
    /\ route' = close("council")
    /\ UNCHANGED <<rows, ret, numbers>>

-----------------------------------------------------------------------------
(* Opinions, conclusion, certificate *)

\* Fault: opinions come in at any time.
reviewsOpen_Always == TRUE

reviewsOpen == irb.certificate = None /\ irb.conclusion \notin {"finalized", "submitted"}

submitIrbReview(p) == \E r \in MemberRoles \ {"secretary"} :
    /\ rows[p][r] = "active"
    /\ irb.council.status = "approved"
    /\ reviewsOpen
    /\ irb' = [irb EXCEPT !.reviews = @ \cup {p}]
    /\ UNCHANGED <<rows, route, ret, numbers>>

\* Fault: one opinion is enough.
reviewed_Any == irb.reviews # {}

reviewed == irb.reviews # {} /\ \A p \in People : rows[p]["reviewer"] = "active" => p \in irb.reviews

saveIrbConclusion(p, status, decision) ==
    /\ rows[p]["secretary"] = "active"
    /\ irb.council.status = "approved"
    /\ irb.certificate = None
    /\ irb.conclusion # "submitted"
    /\ status = "finalized" => reviewed
    /\ irb' = [irb EXCEPT !.conclusion = status, !.decision = decision]
    /\ UNCHANGED <<rows, route, ret, numbers>>

submitIrbConclusion ==
    /\ irb.certificate = None
    /\ irb.conclusion = "finalized"
    /\ irb' = [irb EXCEPT !.conclusion = "submitted"]
    /\ route' = [route EXCEPT !["certificate"] = "office"]
    /\ UNCHANGED <<rows, ret, numbers>>

returnIrbConclusion ==
    /\ irb.conclusion = "submitted"
    /\ signable("certificate")
    /\ irb' = [irb EXCEPT !.conclusion = "returned"]
    /\ route' = close("certificate")
    /\ UNCHANGED <<rows, ret, numbers>>

mayCertify(a) == ~active(a)

\* Fault: the next number is taken as it is.
nextNumber_Plain(taken) == {n \in Numbers : n = counter + 1}

\* The counter passes over numbers that were entered by hand.
nextNumber(taken) ==
    {n \in Numbers : n > counter /\ n \notin taken /\ \A m \in Numbers : counter < m /\ m < n => m \in taken}

\* An entered number or the one the certificate has, unless another proposal has it; else, when one
\* is needed, the next of the counter. Pairs of the number and the counter; one year.
resolveDocumentNumber(requested, previous, generate, taken) ==
    LET chosen == IF requested # None THEN requested ELSE previous
    IN  IF chosen # None THEN {<<chosen, counter>> : n \in {chosen} \ taken}
        ELSE IF generate THEN {<<n, n>> : n \in nextNumber(taken)}
        ELSE {<<None, counter>>}

\* The leadership may decide otherwise than the conclusion. A council from before invitations has no
\* conclusion: an opinion is enough, and the certificate can be issued again.
updateIRBStatus(a, status, requested) ==
    /\ mayCertify(a)
    /\ irb.council.status = "approved"
    /\ \/ irb.conclusion = "submitted" /\ signable("certificate")
       \/ ~irb.council.sent /\ irb.conclusion = "none" /\ irb.reviews # {}
    /\ \E d \in resolveDocumentNumber(requested, IF status = "APPROVED" THEN irb.number ELSE None,
                                      status = "APPROVED", others) :
         /\ irb' = [irb EXCEPT !.certificate = status, !.signer = a, !.number = d[1],
                               !.conclusion = IF @ = "none" THEN "none" ELSE "signed"]
         /\ counter' = d[2]
    /\ route' = IF route["certificate"] = "leadership" THEN close("certificate") ELSE route
    /\ UNCHANGED <<rows, ret, others>>

\* The certificate of another proposal, for the first time (old = None) or again.
otherCertificate(requested, old) ==
    /\ \E d \in resolveDocumentNumber(requested, old, TRUE, (others \ {old}) \cup {irb.number}) :
         others' = (others \ {old}) \cup {d[1]} /\ counter' = d[2]
    /\ UNCHANGED <<irb, rows, route, ret>>

-----------------------------------------------------------------------------
(* The department (approval-routing.service, modelled in full in ApprovalRouting) *)

advance(k) ==
    /\ route[k] = "office" /\ ret.kind # k
    /\ route' = [route EXCEPT ![k] = "leadership"]
    /\ UNCHANGED <<irb, rows, ret, numbers>>

\* The row of the submission is locked, the value of the proposal only read.
BeginReturn(k) ==
    /\ route[k] = "office" /\ ret.kind = None
    /\ ret' = [kind |-> k, read |-> irb]
    /\ UNCHANGED <<irb, rows, route, numbers>>

returned(k, value) ==
    CASE k = "council" /\ value.council.status = "submitted"  -> [value EXCEPT !.council.status = "returned"]
      [] k = "certificate" /\ value.conclusion = "submitted"  -> [value EXCEPT !.conclusion = "returned"]
      [] OTHER -> irb

\* revertOnReturn: the value that was read is written back.
CommitReturn ==
    /\ ret.kind # None
    /\ irb' = returned(ret.kind, ret.read)
    /\ route' = [route EXCEPT ![ret.kind] = "closed"]
    /\ ret' = NoReturn
    /\ UNCHANGED <<rows, numbers>>

-----------------------------------------------------------------------------
Next ==
    \/ \E action \in {"save", "invite", "submit"}, list \in Lists : proposeIrbCouncil(action, list)
    \/ \E p \in People, r \in MemberRoles, answer \in {"accepted", "declined"} : respondToIrbInvitation(p, r, answer)
    \/ approveIrbCouncil \/ rejectIrbCouncil
    \/ \E p \in People :
        \/ submitIrbReview(p)
        \/ \E s \in {"draft", "finalized"}, d \in Decisions : saveIrbConclusion(p, s, d)
    \/ submitIrbConclusion \/ returnIrbConclusion
    \/ \E n \in Numbers \cup {None} :
        \/ \E a \in Authorities, s \in Decisions : updateIRBStatus(a, s, n)
        \/ \E old \in others \cup {None} : otherCertificate(n, old)
    \/ \E k \in Procedures : advance(k) \/ BeginReturn(k)
    \/ CommitReturn

Spec == Init /\ [][Next]_vars

-----------------------------------------------------------------------------
(* While a list is before the leadership, everybody on it has accepted and the list is complete: no answer *)
(* and no other list can undo that until it is decided.                                                    *)
SubmittedCouncilAccepted ==
    irb.council.status = "submitted" /\ irb.council.sent =>
        allAccepted(irb.council.list, rows) /\ irbCompositionHolds(irb.council.list, TRUE)

(* The people who may read and judge are those on the list that was signed; before the signature there are *)
(* none, and no invitation is left over.                                                                   *)
CouncilIsItsRows ==
    /\ \A p \in People : active(p) <=> irb.council.status = "approved" /\ irb.council.list[p] # None
    /\ irb.council.status = "approved" => \A p \in People, r \in MemberRoles : rows[p][r] \notin {"invited", "accepted"}

(* Nobody holds two places, whatever lists were tried before.                                              *)
OnePlaceEach == \A p \in People, r, q \in MemberRoles :
    rows[p][r] \in {"invited", "accepted", "active"} /\ rows[p][q] \in {"invited", "accepted", "active"} => r = q

(* The council that judges is the one that agreed to: from the list that is submitted to the people who    *)
(* may read the proposal, over answers, other lists, returns and councils from before invitations.         *)
CouncilAsAccepted == SubmittedCouncilAccepted /\ CouncilIsItsRows /\ OnePlaceEach

(* A procedure is on its way exactly while the record it is about waits for the answer.                    *)
OnItsWay ==
    /\ route["council"] \in {"office", "leadership"} <=> irb.council.status = "submitted" /\ irb.council.sent
    /\ route["certificate"] \in {"office", "leadership"} <=> irb.conclusion = "submitted"

(* What has come to the leadership can be decided there: no return is in flight any more, the council is    *)
(* complete, and every authority without a place on it may sign the certificate.                           *)
DecidableThere ==
    /\ route["council"] = "leadership" =>
          /\ irb.council.status = "submitted" /\ signable("council")
          /\ irbCompositionHolds(irb.council.list, TRUE) /\ allAccepted(irb.council.list, rows)
    /\ route["certificate"] = "leadership" =>
          /\ irb.council.status = "approved" /\ irb.conclusion = "submitted" /\ signable("certificate")
          /\ \A a \in Authorities : irb.council.list[a] = None => mayCertify(a)

(* The route and the record of the proposal agree, so that neither waits for the other.                    *)
RouteAgrees == OnItsWay /\ DecidableThere

(* A conclusion that is settled rests on the opinion of every reviewer, also when it was sent back and     *)
(* settled again; a certificate is signed by somebody outside the council and, for a council that was      *)
(* invited, on its conclusion.                                                                             *)
CertificateEarned ==
    /\ irb.conclusion \in {"finalized", "submitted", "signed"} =>
          irb.reviews # {} /\ \A p \in People : rows[p]["reviewer"] = "active" => p \in irb.reviews
    /\ irb.certificate # None =>
          /\ irb.council.status = "approved"
          /\ ~active(irb.signer)
          /\ irb.council.sent => irb.conclusion = "signed"

(* The number of a certificate is that of no other proposal, although numbers are also entered by hand, in *)
(* advance of the counter, and kept, replaced or dropped when a certificate is issued again.               *)
NumberOfOneProposal == irb.number \notin others

(* No opinion is lost, although a return by the department writes back what it read without the lock.      *)
NoReviewLost == [][irb.reviews \subseteq irb'.reviews]_vars
===============================================================================
