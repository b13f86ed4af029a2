----------------------------- MODULE Conferences -----------------------------
(* One scientific conference: its status and officer, the guests and their    *)
(* answers, the papers and the program (conferences/ of the API). Unlike the  *)
(* handlers of proposals and projects these read and check first and write in *)
(* a later transaction, so a call is two steps: Begin... is what it read,     *)
(* Commit... its transaction.                                                 *)
EXTENDS Naturals, FiniteSets

CONSTANTS Guests,      \* rows of conference_invitations
          People,      \* persons, each with one e-mail address
          Officers,    \* those of the management staff
          Registered,  \* those who have an account from the beginning
          Calls,       \* requests in flight
          Nobody,
          Edits,       \* what a guest's row may be changed to: [kind, email]
          MaxLinks     \* bound: reply links mailed to one guest

ASSUME PeopleAssumption ==
    Officers \subseteq Registered /\ Registered \subseteq People /\ Nobody \notin People
ASSUME LinksAssumption == MaxLinks \in Nat
ASSUME EditsAssumption == \A e \in Edits : e.kind \in {"speaker", "delegate"} /\ e.email \in People \cup {Nobody}

VARIABLES conf,      \* status and officer
          inv,       \* the invitation of each guest
          link,      \* the latest reply link: its number, whether it is unused and unrevoked, to whom it was mailed
          accounts,  \* persons with an account
          paper,     \* status, texts handed in, texts to be revised
          slots,     \* papers placed in a session
          program,   \* the latest published program
          calls

vars == <<conf, inv, link, accounts, paper, slots, program, calls>>

Statuses == {"draft", "preparing", "inviting", "submission_closed", "program_published", "completed", "cancelled"}
Closed     == {"completed", "cancelled"}
Invitable  == {"preparing", "inviting", "submission_closed", "program_published"}
Submission == {"inviting", "submission_closed", "program_published"}
Program    == {"submission_closed", "program_published"}

Kinds == {"speaker", "delegate"}
Texts == {"abstract", "full_paper"}
Asked == {"draft", "sent"}                       \* may still be edited
Guest == {"draft", "sent", "accepted"}           \* is a guest, or may become one
PaperOpen   == {"awaiting_abstract", "abstract_submitted", "full_paper_submitted"}
Schedulable == {"full_paper_submitted", "scheduled"}

Row   == [status: {"none", "draft", "sent", "accepted", "declined", "revoked"}, kind: Kinds,
          email: People \cup {Nobody}, user: People \cup {Nobody}]
Paper == [status: PaperOpen \cup {"none", "scheduled", "withdrawn"}, has: SUBSET Texts, revise: SUBSET Texts]
Link  == [n: 0..MaxLinks, live: BOOLEAN, to: People \cup {Nobody}]
Ops   == {"idle", "add", "update", "updating", "revoke", "revoking", "invite", "remind", "answer", "submit",
          "withdraw", "revise", "slots", "publish"}

NoRow   == [status |-> "none", kind |-> "speaker", email |-> Nobody, user |-> Nobody]
NoPaper == [status |-> "none", has |-> {}, revise |-> {}]
NoLink  == [n |-> 0, live |-> FALSE, to |-> Nobody]

(* A call: the operation, its arguments, and what it read before its transaction. *)
Call == [op: Ops, guests: SUBSET Guests, kind: Kinds, email: People \cup {Nobody}, accept: BOOLEAN,
         link: 0..MaxLinks, text: Texts, row: Row, officer: People \cup {Nobody}, paper: Paper]
Idle == [op |-> "idle", guests |-> {}, kind |-> "speaker", email |-> Nobody, accept |-> FALSE,
         link |-> 0, text |-> "abstract", row |-> NoRow, officer |-> Nobody, paper |-> NoPaper]

TypeOK ==
    /\ conf \in [status: Statuses, officer: Officers \cup {Nobody}]
    /\ inv \in [Guests -> Row]
    /\ link \in [Guests -> Link]
    /\ accounts \in SUBSET People
    /\ paper \in [Guests -> Paper]
    /\ slots \in SUBSET Guests
    /\ program \in [published: BOOLEAN, papers: SUBSET Guests]
    /\ calls \in [Calls -> Call]

Init ==
    /\ conf = [status |-> "draft", officer |-> Nobody]
    /\ inv = [g \in Guests |-> NoRow]
    /\ link = [g \in Guests |-> NoLink]
    /\ accounts = Registered
    /\ paper = [g \in Guests |-> NoPaper]
    /\ slots = {}
    /\ program = [published |-> FALSE, papers |-> {}]
    /\ calls = [c \in Calls |-> Idle]

-----------------------------------------------------------------------------
(* The row lock of the conference is held between two steps by submit only.   *)
(* The other transactions need it within one step, if only to record their    *)
(* event: it refers to the conference, which waits for whoever locked it.     *)
LockFree == \A c \in Calls : calls[c].op # "submit"

(* An edit and a revocation write the row of the guest first and touch the    *)
(* conference last. In between they hold the row against other writers of it, *)
(* and a new address also against a new link, which refers to the row. Two    *)
(* that wait for each other are a deadlock, of which one is aborted.          *)
Holds(c, g)    == calls[c].op \in {"updating", "revoking"} /\ g \in calls[c].guests
RowFree(g)     == \A c \in Calls : ~Holds(c, g)
Readdressed(g) == \E c \in Calls :
    calls[c].op = "updating" /\ g \in calls[c].guests /\ calls[c].email \notin {Nobody, inv[g].email}

Officer  == conf.officer # Nobody

Begin(c, call) == /\ calls[c].op = "idle"
                  /\ calls' = [calls EXCEPT ![c] = call]
                  /\ UNCHANGED <<conf, inv, link, accounts, paper, slots, program>>
End(c) == calls' = [calls EXCEPT ![c] = Idle]

\* The transaction is refused or lost: nothing was written.
Abort(c) == /\ calls[c].op # "idle"
            /\ End(c)
            /\ UNCHANGED <<conf, inv, link, accounts, paper, slots, program>>

(* conferences.service *)

\* The version of the conference is compared under the lock, and every write to guests raises it.
assignOfficer(p) ==
    /\ LockFree
    /\ conf.status \notin Closed
    /\ conf.officer # p
    /\ \A g \in Guests : inv[g].status \in Guest => p \notin {inv[g].user, inv[g].email}
    /\ conf' = [status |-> IF conf.status = "draft" THEN "preparing" ELSE conf.status, officer |-> p]
    /\ UNCHANGED <<inv, link, accounts, paper, slots, program, calls>>

revokeOfficer ==
    /\ LockFree
    /\ conf.status \notin Closed
    /\ Officer
    /\ conf' = [conf EXCEPT !.officer = Nobody]
    /\ UNCHANGED <<inv, link, accounts, paper, slots, program, calls>>

Transitions == {<<"inviting", "submission_closed">>, <<"submission_closed", "completed">>,
                <<"program_published", "completed">>} \cup {<<s, "cancelled">> : s \in Statuses \ Closed}

\* close-submission and complete are the officer's, cancel is the head's too.
transition(to) ==
    /\ LockFree
    /\ <<conf.status, to>> \in Transitions
    /\ to # "cancelled" => Officer
    /\ conf' = [conf EXCEPT !.status = to]
    /\ UNCHANGED <<inv, link, accounts, paper, slots, program, calls>>

-----------------------------------------------------------------------------
(* conference-invitations.service *)

invitationManage == Officer /\ conf.status \in Invitable

BeginAdd(c, k, p) ==
    /\ invitationManage
    /\ Begin(c, [Idle EXCEPT !.op = "add", !.kind = k, !.email = p, !.officer = conf.officer])

\* The account of the e-mail address is linked at once; both are unique in a conference.
CommitAdd(c) == \E g \in Guests :
    LET call == calls[c] IN
    /\ call.op = "add" /\ LockFree
    /\ inv[g].status = "none"
    /\ call.email # call.officer
    /\ \A h \in Guests : call.email \notin {inv[h].email, inv[h].user}
    /\ inv' = [inv EXCEPT ![g] = [status |-> "draft", kind |-> call.kind, email |-> call.email,
                                  user |-> IF call.email \in accounts THEN call.email ELSE Nobody]]
    /\ End(c)
    /\ UNCHANGED <<conf, link, accounts, paper, slots, program>>

\* Of a guest with an account only the kind may be changed; the officer's address is refused.
BeginUpdate(c, g, e) ==
    /\ invitationManage
    /\ inv[g].status \in Asked
    /\ inv[g].user # Nobody => e.email = Nobody
    /\ e.email # conf.officer
    /\ Begin(c, [Idle EXCEPT !.op = "update", !.guests = {g}, !.kind = e.kind, !.email = e.email,
                         !.row.email = inv[g].email])

\* The row is written without looking at the status again; of the links the statement behind it sees
\* those that are there now.
WriteUpdate(c) == \E g \in calls[c].guests :
    /\ calls[c].op = "update" /\ RowFree(g)
    /\ calls' = [calls EXCEPT ![c].op = "updating", ![c].link = link[g].n]
    /\ UNCHANGED <<conf, inv, link, accounts, paper, slots, program>>

\* Fault: the link of the old address is not revoked.
CommitUpdate_KeepsLink(c) == \E g \in calls[c].guests :
    LET call == calls[c]
        new  == IF call.email = Nobody THEN inv[g].email ELSE call.email IN
    /\ call.op = "updating" /\ LockFree
    /\ \A h \in Guests \ {g} : inv[h].email # new
    /\ inv' = [inv EXCEPT ![g].kind = call.kind, ![g].email = new]
    /\ End(c)
    /\ UNCHANGED <<conf, link, accounts, paper, slots, program>>

\* An address other than the one read before takes the link with it.
CommitUpdate(c) == \E g \in calls[c].guests :
    LET call == calls[c]
        new  == IF call.email = Nobody THEN inv[g].email ELSE call.email IN
    /\ call.op = "updating" /\ LockFree
    /\ \A h \in Guests \ {g} : inv[h].email # new
    /\ inv' = [inv EXCEPT ![g].kind = call.kind, ![g].email = new]
    /\ link' = [link EXCEPT ![g].live = @ /\ (call.email \in {Nobody, call.row.email} \/ link[g].n # call.link)]
    /\ End(c)
    /\ UNCHANGED <<conf, accounts, paper, slots, program>>

BeginRevoke(c, g) ==
    /\ invitationManage
    /\ inv[g].status \in Guest
    /\ Begin(c, [Idle EXCEPT !.op = "revoke", !.guests = {g}, !.row.status = inv[g].status])

\* The row is revoked only as it was read; the lock of the conference is not taken, so that a mailing may
\* add a link behind the ones seen here.
WriteRevoke(c) == \E g \in calls[c].guests :
    /\ calls[c].op = "revoke" /\ RowFree(g)
    /\ inv[g].status = calls[c].row.status
    /\ calls' = [calls EXCEPT ![c].op = "revoking", ![c].link = link[g].n]
    /\ UNCHANGED <<conf, inv, link, accounts, paper, slots, program>>

\* Fault: link and paper are forgotten.
CommitRevoke_StatusOnly(c) == \E g \in calls[c].guests :
    /\ calls[c].op = "revoking" /\ LockFree
    /\ inv' = [inv EXCEPT ![g].status = "revoked"]
    /\ End(c)
    /\ UNCHANGED <<conf, link, accounts, paper, slots, program>>

\* The links seen and the paper of a revoked guest go with the invitation.
CommitRevoke(c) == \E g \in calls[c].guests :
    /\ calls[c].op = "revoking" /\ LockFree
    /\ inv' = [inv EXCEPT ![g].status = "revoked"]
    /\ link' = [link EXCEPT ![g].live = @ /\ link[g].n # calls[c].link]
    /\ paper' = [paper EXCEPT ![g].status = IF @ = "none" THEN @ ELSE "withdrawn"]
    /\ End(c)
    /\ UNCHANGED <<conf, accounts, slots, program>>

Recipients(op) == IF op = "invite" THEN Asked ELSE {"sent", "accepted"}

BeginMailing(c, op, S) ==
    /\ invitationManage
    /\ S # {}
    /\ Begin(c, [Idle EXCEPT !.op = op, !.guests = S])

\* Fault: any invitation opens the submission.
StatusAfterMailing_Always(op, s) == IF op = "invite" THEN "inviting" ELSE s

\* The first invitations open the submission.
StatusAfterMailing(op, s) == IF op = "invite" /\ s = "preparing" THEN "inviting" ELSE s

\* The status is read again under the lock; recipients in another state are skipped. A guest without an
\* account gets a new link, the old one stops working.
CommitMailing(c) ==
    LET call    == calls[c]
        targets == {g \in call.guests : inv[g].status \in Recipients(call.op)}
        linked  == {g \in targets : inv[g].user = Nobody /\ inv[g].status # "accepted"} IN
    /\ call.op \in {"invite", "remind"} /\ LockFree
    /\ conf.status \notin Closed
    /\ targets # {}
    /\ \A g \in targets : inv[g].status = "draft" => RowFree(g)
    /\ \A g \in linked : link[g].n < MaxLinks /\ ~Readdressed(g)
    /\ link' = [g \in Guests |-> IF g \in linked THEN [n |-> link[g].n + 1, live |-> TRUE, to |-> inv[g].email]
                                                 ELSE link[g]]
    /\ inv' = [g \in Guests |-> IF g \in targets /\ call.op = "invite" /\ inv[g].status = "draft"
                                THEN [inv[g] EXCEPT !.status = "sent"] ELSE inv[g]]
    /\ conf' = [conf EXCEPT !.status = StatusAfterMailing(call.op, @)]
    /\ End(c)
    /\ UNCHANGED <<accounts, paper, slots, program>>

\* Fault: the status of the invitation is not compared when the answer is written.
StillAsked_Unchecked(g) == TRUE

StillAsked(g) == inv[g].status = "sent"

\* findToken: an unused, unrevoked link of an invitation still asked, while the conference is open.
Valid(g)        == link[g].live /\ inv[g].status = "sent"
findToken(g, n) == Valid(g) /\ link[g].n = n /\ conf.status \notin Closed

\* respondInApp looks at the invitation only.
BeginAnswer(c, g, accept) ==
    /\ \E n \in 0..MaxLinks :
        /\ IF n = 0 THEN inv[g].status = "sent" /\ inv[g].user # Nobody ELSE findToken(g, n)
        /\ Begin(c, [Idle EXCEPT !.op = "answer", !.guests = {g}, !.accept = accept, !.link = n,
                                 !.row = inv[g], !.officer = conf.officer])

\* applyResponse: the link is used up, the status must still be sent; kind, address, account and officer
\* are those read before the lock. Without an account that of the address is linked or created.
CommitAnswer(c) == \E g \in calls[c].guests :
    LET call == calls[c]
        user == IF call.row.user = Nobody THEN call.row.email ELSE call.row.user IN
    /\ call.op = "answer" /\ LockFree /\ RowFree(g)
    /\ call.link > 0 => link[g].live /\ link[g].n = call.link
    /\ StillAsked(g)
    /\ link' = [link EXCEPT ![g].live = @ /\ call.link = 0]
    /\ IF call.accept
       THEN /\ call.row.user = Nobody => user # call.officer /\ \A h \in Guests \ {g} : inv[h].user # user
            /\ inv' = [inv EXCEPT ![g].status = "accepted",
                                  ![g].user = IF call.row.user = Nobody THEN user ELSE @]
            /\ accounts' = accounts \cup {user}
            /\ paper' = [paper EXCEPT ![g] = IF call.row.kind = "speaker"
                                             THEN [NoPaper EXCEPT !.status = "awaiting_abstract"] ELSE @]
       ELSE /\ inv' = [inv EXCEPT ![g].status = "declined"]
            /\ UNCHANGED <<accounts, paper>>
    /\ End(c)
    /\ UNCHANGED <<conf, slots, program>>

-----------------------------------------------------------------------------
(* conference-papers.service *)

\* Deadlines only refuse more and are left out: a text is taken while the conference invites, or when
\* its revision was asked for.
submissionAllowed(g, t) ==
    /\ inv[g].status = "accepted"
    /\ conf.status \in Submission
    /\ paper[g].status \in PaperOpen
    /\ t = "full_paper" => "abstract" \in paper[g].has
    /\ t \in paper[g].revise \/ conf.status = "inviting"

\* Fault: an abstract takes a full paper back.
paperStatusAfterSubmit_Back(current, t) ==
    IF t = "full_paper" THEN "full_paper_submitted" ELSE "abstract_submitted"

\* A new abstract never takes a full paper back.
paperStatusAfterSubmit(current, t) ==
    IF t = "full_paper" \/ current = "full_paper_submitted" THEN "full_paper_submitted" ELSE "abstract_submitted"

\* The file is stored, then the conference is locked and the paper is read and checked again.
BeginSubmit(c, g, t) ==
    /\ LockFree
    /\ submissionAllowed(g, t)
    /\ Begin(c, [Idle EXCEPT !.op = "submit", !.guests = {g}, !.text = t, !.paper.status = paper[g].status])

CommitSubmit(c) == \E g \in calls[c].guests :
    LET call == calls[c] IN
    /\ call.op = "submit"
    /\ paper' = [paper EXCEPT ![g].status = paperStatusAfterSubmit(call.paper.status, call.text),
                              ![g].has = @ \cup {call.text}, ![g].revise = @ \ {call.text}]
    /\ End(c)
    /\ UNCHANGED <<conf, inv, link, accounts, slots, program>>

\* The author, while still a guest, or the officer; the conference is not locked before the paper is written.
BeginWithdraw(c, g) ==
    /\ paper[g].status \in PaperOpen
    /\ conf.status \notin Closed
    /\ inv[g].status = "accepted" \/ Officer
    /\ Begin(c, [Idle EXCEPT !.op = "withdraw", !.guests = {g}, !.paper = paper[g]])

CommitWithdraw(c) == \E g \in calls[c].guests :
    /\ calls[c].op = "withdraw" /\ LockFree
    /\ paper[g] = calls[c].paper
    /\ paper' = [paper EXCEPT ![g].status = "withdrawn", ![g].revise = {}]
    /\ End(c)
    /\ UNCHANGED <<conf, inv, link, accounts, slots, program>>

BeginRevision(c, g, t) ==
    /\ Officer
    /\ conf.status \notin Closed
    /\ paper[g].status \in PaperOpen
    /\ t \in paper[g].has
    /\ Begin(c, [Idle EXCEPT !.op = "revise", !.guests = {g}, !.text = t])

\* One open request per text (a unique index); the status of the paper is not looked at again.
CommitRevision(c) == \E g \in calls[c].guests :
    /\ calls[c].op = "revise" /\ LockFree
    /\ calls[c].text \notin paper[g].revise
    /\ paper' = [paper EXCEPT ![g].revise = @ \cup {calls[c].text}]
    /\ End(c)
    /\ UNCHANGED <<conf, inv, link, accounts, slots, program>>

-----------------------------------------------------------------------------
(* conference-program.service *)

programManage == Officer /\ conf.status \in Program

BeginSlots(c, S) == programManage /\ Begin(c, [Idle EXCEPT !.op = "slots", !.guests = S])

\* setSessionSlots; deleteSession is the empty list.
CommitSlots(c) ==
    /\ calls[c].op = "slots" /\ LockFree
    /\ \A g \in calls[c].guests : paper[g].status \in Schedulable
    /\ slots' = calls[c].guests
    /\ End(c)
    /\ UNCHANGED <<conf, inv, link, accounts, paper, program>>

BeginPublish(c, acknowledged) ==
    programManage /\ Begin(c, [Idle EXCEPT !.op = "publish", !.accept = acknowledged])

\* The status of the conference is not looked at again.
CommitPublish(c) ==
    /\ calls[c].op = "publish" /\ LockFree
    /\ calls[c].accept \/ \A g \in Guests : paper[g].status \in Schedulable => g \in slots
    /\ paper' = [g \in Guests |->
           IF paper[g].status \in Schedulable
           THEN [paper[g] EXCEPT !.status = IF g \in slots THEN "scheduled" ELSE "full_paper_submitted"]
           ELSE paper[g]]
    /\ program' = [published |-> TRUE, papers |-> slots]
    /\ conf' = [conf EXCEPT !.status = "program_published"]
    /\ End(c)
    /\ UNCHANGED <<inv, link, accounts, slots>>

-----------------------------------------------------------------------------
Start(c) ==
    \/ \E k \in Kinds, p \in People : BeginAdd(c, k, p)
    \/ \E S \in SUBSET Guests : BeginSlots(c, S)
    \/ \E op \in {"invite", "remind"}, S \in SUBSET Guests : BeginMailing(c, op, S)
    \/ \E b \in BOOLEAN : BeginPublish(c, b)
    \/ \E g \in Guests :
        \/ \E e \in Edits : BeginUpdate(c, g, e)
        \/ BeginRevoke(c, g)
        \/ \E b \in BOOLEAN : BeginAnswer(c, g, b)
        \/ BeginWithdraw(c, g)
        \/ \E t \in Texts : BeginSubmit(c, g, t) \/ BeginRevision(c, g, t)

Finish(c) ==
    \/ CommitAdd(c) \/ CommitUpdate(c) \/ CommitRevoke(c) \/ CommitMailing(c) \/ CommitAnswer(c)
    \/ WriteUpdate(c) \/ WriteRevoke(c)
    \/ CommitSubmit(c) \/ CommitWithdraw(c) \/ CommitRevision(c)
    \/ CommitSlots(c) \/ CommitPublish(c)
    \/ Abort(c)

Next ==
    \/ \E p \in Officers : assignOfficer(p)
    \/ revokeOfficer
    \/ \E s \in Statuses : transition(s)
    \/ \E c \in Calls : Start(c) \/ Finish(c)

Spec == Init /\ [][Next]_vars

-----------------------------------------------------------------------------
(* A paper that is not withdrawn belongs to a guest who accepted and has an account, whatever revocations, *)
(* answers and submissions cross: revokeInvitation and applyResponse write guest and paper together.       *)
LivePaperHasGuest == \A g \in Guests :
    paper[g].status \notin {"none", "withdrawn"} => inv[g].status = "accepted" /\ inv[g].user \in accounts

(* What findToken accepts reaches the guest it was mailed to: a link that is unused and unrevoked, of an   *)
(* invitation still asked, was mailed to the present address of a guest without an account. A revocation   *)
(* that crosses a mailing leaves such a link behind, and only the status of the invitation stops it. The   *)
(* one way out is an edit that writes back the address it had read: it compares with that one, not with    *)
(* the address an edit in between has put there and to which a link was mailed.                            *)
LinkFits(g)     == Valid(g) => inv[g].user = Nobody /\ link[g].to = inv[g].email
WritesBack(c, g) == /\ calls[c].op = "updating" /\ g \in calls[c].guests /\ calls'[c] = Idle
                    /\ calls[c].email = calls[c].row.email /\ calls[c].email # inv[g].email
LinkKeepsFitting == [][\A g \in Guests : LinkFits(g) => LinkFits(g)' \/ \E c \in Calls : WritesBack(c, g)]_vars

(* The published program and the papers agree: a scheduled paper is in the latest program, and a paper of  *)
(* the program is scheduled unless it was withdrawn. It holds because a text handed in again never takes   *)
(* a full paper back, so that what was placed in a session can be published later.                         *)
ProgramAgrees == \A g \in Guests :
    /\ paper[g].status = "scheduled" => g \in program.papers
    /\ g \in program.papers => paper[g].status \in {"scheduled", "withdrawn"}

(* From the end of the submission a conference only goes on: to its program, then to its end. No mailing    *)
(* prepared before opens the submission again, and nothing but a publication that was on its way brings a  *)
(* conference back that is over or cancelled.                                                              *)
OnlyPublicationReopens ==
    [][conf.status \in Program \cup Closed /\ conf'.status # conf.status =>
          \/ conf.status \in Program /\ conf'.status \in Closed
          \/ conf'.status = "program_published" /\ \E c \in Calls : calls[c].op = "publish"]_vars

(* conference-workflow.ts: a conference that is over or cancelled takes no operation any more. Violated: a *)
(* program that was checked before the cancellation is published after it.                                 *)
ClosedIsFinal == [][conf.status \in Closed => conf'.status = conf.status]_vars

Life == INSTANCE GuestLife WITH
    phase <- [g \in Guests |-> inv[g].status],
    talk <- [g \in Guests |-> IF paper[g].status \in {"none", "withdrawn"} THEN paper[g].status ELSE "live"]

(* Guests and papers live the life of GuestLife: an invitation is answered once, a talk begins with the    *)
(* acceptance and does not outlive a revocation.                                                           *)
ImplementsGuestLife == Life!Spec
=============================================================================
