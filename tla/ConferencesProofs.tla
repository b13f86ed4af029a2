-------------------------- MODULE ConferencesProofs --------------------------
(* The safety of Conferences for any number of guests, persons and requests in *)
(* flight, and that guests and papers live the life of GuestLife.              *)
EXTENDS Conferences, TLAPS

(* What holds of one guest between any two steps. *)
GuestSound(g) ==
    /\ inv[g].status # "none" => inv[g].email \in People
    /\ inv[g].user # Nobody => inv[g].user \in accounts
    /\ inv[g].status = "accepted" => inv[g].user \in accounts
    /\ paper[g].status # "none" => inv[g].status \in {"accepted", "revoked"}
    /\ paper[g].status \notin {"none", "withdrawn"} => inv[g].status = "accepted"
    /\ link[g].live => inv[g].status \in {"sent", "revoked"} /\ inv[g].user = Nobody
    /\ g \in slots => paper[g].status \in Schedulable \cup {"withdrawn"}
    /\ paper[g].status = "scheduled" => g \in program.papers
    /\ g \in program.papers => paper[g].status \in {"scheduled", "withdrawn"}

(* What a request in flight may still rely on of what it read. *)
CallSound(call) ==
    /\ call.op = "add" => call.email \in People
    /\ call.op \in {"update", "updating", "revoke", "revoking"} =>
           \A g \in call.guests : inv[g].status # "none" /\ call.guests = {g}
    /\ call.op \in {"revoke", "revoking"} => call.row.status \in Guest
    /\ call.op = "revoking" => \A g \in call.guests : inv[g].status = call.row.status
    /\ call.op = "updating" => \A g \in call.guests : link[g].n # call.link => call.email \in {Nobody, inv[g].email}
    /\ call.op = "withdraw" => call.paper.status \in PaperOpen
    /\ call.op = "answer" => /\ call.row.email \in People
                             /\ call.link = 0 => call.row.user # Nobody
                             /\ \A g \in call.guests :
                                  /\ inv[g].status \notin {"none", "draft"}
                                  /\ inv[g].status = "sent" => inv[g].user = call.row.user
    /\ call.op = "submit" => /\ call.paper.status \in PaperOpen
                             /\ \A g \in call.guests : paper[g].status = call.paper.status

OneSubmit == \A c, d \in Calls : calls[c].op = "submit" /\ calls[d].op = "submit" => c = d
OneWriter == \A c, d \in Calls : \A g \in Guests : Holds(c, g) /\ Holds(d, g) => c = d

Data == /\ conf \in [status: Statuses, officer: Officers \cup {Nobody}]
        /\ inv \in [Guests -> Row]
        /\ link \in [Guests -> Link]
        /\ accounts \in SUBSET People
        /\ paper \in [Guests -> Paper]
        /\ slots \in SUBSET Guests
        /\ program \in [published: BOOLEAN, papers: SUBSET Guests]
        /\ \A g \in Guests : GuestSound(g)

Requests == /\ calls \in [Calls -> Call]
            /\ \A c \in Calls : CallSound(calls[c])
            /\ OneSubmit
            /\ OneWriter

ConfInv == Data /\ Requests

LEMMA RowFacts ==
  /\ NoRow \in Row /\ NoRow.status = "none" /\ NoRow.user = Nobody
  /\ NoPaper \in Paper /\ NoPaper.status = "none"
  /\ NoLink \in Link /\ ~NoLink.live
  BY LinksAssumption DEF NoRow, Row, NoPaper, Paper, NoLink, Link, Kinds, PaperOpen

LEMMA IdleFacts == Idle \in Call /\ Idle.op = "idle"
  BY RowFacts, LinksAssumption DEF Idle, Call, Ops, Kinds, Texts

LEMMA InitInv == Init => ConfInv
  <1> SUFFICES ASSUME Init PROVE ConfInv
    OBVIOUS
  <1> USE PeopleAssumption, LinksAssumption
  <1>1. conf \in [status: Statuses, officer: Officers \cup {Nobody}] /\ program \in [published: BOOLEAN, papers: SUBSET Guests]
    BY DEF Init, Statuses
  <1>2. inv \in [Guests -> Row] /\ paper \in [Guests -> Paper] /\ slots \in SUBSET Guests /\ accounts \in SUBSET People
        /\ link \in [Guests -> Link]
    BY RowFacts DEF Init
  <1>3. \A g \in Guests : GuestSound(g)
    BY RowFacts DEF Init, GuestSound
  <1>4. Requests
    BY IdleFacts DEF Init, Requests, CallSound, OneSubmit, OneWriter, Holds
  <1> QED
    BY <1>1, <1>2, <1>3, <1>4 DEF ConfInv, Data

(* What a step leaves to the requests in flight. *)
RowsKept == \A g \in Guests :
    /\ inv[g].status # "none" => inv'[g].status # "none"
    /\ inv[g].status \notin {"none", "draft"} =>
          /\ inv'[g].status \notin {"none", "draft"}
          /\ inv'[g].status = "sent" => inv[g].status = "sent" /\ inv'[g].user = inv[g].user

LockKept == (\E c \in Calls : calls[c].op = "submit" /\ calls'[c] = calls[c]) =>
    \A g \in Guests : paper'[g].status = paper[g].status

(* Who holds the row of a guest keeps its status and address, and a new link only if the address stays. *)
HeldKept == \A c \in Calls : \A g \in Guests : Holds(c, g) /\ calls'[c] = calls[c] =>
    /\ inv'[g].status = inv[g].status /\ inv'[g].email = inv[g].email
    /\ calls[c].op = "updating" /\ link'[g].n # link[g].n => calls[c].email \in {Nobody, inv[g].email}

LEMMA RequestsStep ==
  ASSUME ConfInv, RowsKept, LockKept, HeldKept,
         UNCHANGED calls \/ \E c \in Calls : End(c)
  PROVE  Requests'
  <1>0. calls \in [Calls -> Call]
    BY DEF ConfInv, Requests
  <1>1. calls' \in [Calls -> Call] /\ \A c \in Calls : calls'[c] = calls[c] \/ calls'[c] = Idle
    BY <1>0, IdleFacts DEF End
  <1>2. OneSubmit' /\ OneWriter'
    BY <1>1, IdleFacts DEF ConfInv, Requests, OneSubmit, OneWriter, Holds
  <1>3. ASSUME NEW c \in Calls PROVE CallSound(calls[c])'
    <2>1. CASE calls'[c] = Idle
      BY <2>1, IdleFacts DEF CallSound
    <2>2. CASE calls'[c] = calls[c]
      <3>1. calls[c].guests \in SUBSET Guests /\ CallSound(calls[c])
        BY <1>0 DEF Call, ConfInv, Requests
      <3>2. CASE calls[c].op = "answer"
        BY <2>2, <3>1, <3>2 DEF CallSound, RowsKept
      <3>3. CASE calls[c].op = "submit"
        BY <2>2, <3>1, <3>3 DEF CallSound, LockKept
      <3>4. CASE calls[c].op \in {"update", "revoke"}
        BY <2>2, <3>1, <3>4 DEF CallSound, RowsKept
      <3>5. CASE calls[c].op \in {"updating", "revoking"}
        <4>1. ASSUME NEW g \in calls[c].guests
              PROVE  /\ inv'[g].status # "none" /\ inv'[g].status = inv[g].status /\ inv'[g].email = inv[g].email
                     /\ calls[c].op = "updating" /\ link'[g].n # link[g].n => calls[c].email \in {Nobody, inv[g].email}
          BY <2>2, <3>1, <3>5 DEF CallSound, RowsKept, HeldKept, Holds
        <4> QED
          BY <2>2, <3>1, <3>5, <4>1 DEF CallSound
      <3>6. CASE calls[c].op \notin {"answer", "submit", "update", "revoke", "updating", "revoking"}
        BY <2>2, <3>1, <3>6 DEF CallSound
      <3> QED
        BY <3>2, <3>3, <3>4, <3>5, <3>6
    <2> QED
      BY <1>1, <2>1, <2>2
  <1> QED
    BY <1>1, <1>2, <1>3 DEF Requests

(* Requests that begin *)
LEMMA NewCall ==
  ASSUME ConfInv, NEW c \in Calls, NEW call \in Call, Begin(c, call), CallSound(call), call.op = "submit" => LockFree,
         call.op \notin {"updating", "revoking"}
  PROVE  ConfInv'
  <1>0. calls \in [Calls -> Call]
    BY DEF ConfInv, Requests
  <1>1. /\ calls' = [calls EXCEPT ![c] = call]
        /\ UNCHANGED <<conf, inv, link, accounts, paper, slots, program>>
    BY DEF Begin
  <1>2. Data'
    BY <1>1 DEF ConfInv, Data, GuestSound
  <1>3. \A d \in Calls : calls'[d] = IF d = c THEN call ELSE calls[d]
    BY <1>0, <1>1
  <1>4. \A d \in Calls : CallSound(calls[d])'
    BY <1>1, <1>3 DEF ConfInv, Requests, CallSound
  <1>5. OneSubmit'
    BY <1>3 DEF ConfInv, Requests, OneSubmit, LockFree
  <1>6. OneWriter'
    BY <1>3 DEF ConfInv, Requests, OneWriter, Holds
  <1> QED
    BY <1>0, <1>1, <1>2, <1>4, <1>5, <1>6 DEF ConfInv, Requests

(* The row of the guest is written, by one request at a time. *)
LEMMA WriteStep ==
  ASSUME ConfInv, NEW c \in Calls, WriteUpdate(c) \/ WriteRevoke(c)
  PROVE  ConfInv'
  <1>0. /\ calls \in [Calls -> Call] /\ link \in [Guests -> Link] /\ CallSound(calls[c])
        /\ calls[c].guests \in SUBSET Guests
    BY DEF ConfInv, Data, Requests, Call
  <1>1. PICK g \in calls[c].guests, op \in {"updating", "revoking"} :
          /\ \/ calls[c].op = "update" /\ op = "updating"
             \/ calls[c].op = "revoke" /\ op = "revoking" /\ inv[g].status = calls[c].row.status
          /\ RowFree(g)
          /\ calls' = [calls EXCEPT ![c].op = op, ![c].link = link[g].n]
          /\ UNCHANGED <<conf, inv, link, accounts, paper, slots, program>>
    BY DEF WriteUpdate, WriteRevoke
  <1> DEFINE call == [calls[c] EXCEPT !.op = op, !.link = link[g].n]
  <1>2. calls[c].guests = {g} /\ g \in Guests /\ inv[g].status # "none" /\ link[g].n \in 0..MaxLinks
    BY <1>0, <1>1 DEF CallSound, Link
  <1>3. call \in Call /\ call.op = op /\ call.link = link[g].n /\ call.guests = {g} /\ call.row = calls[c].row
    BY <1>0, <1>1, <1>2 DEF Call, Ops
  <1>4. \A d \in Calls : calls'[d] = IF d = c THEN call ELSE calls[d]
    BY <1>0, <1>1
  <1> HIDE DEF call
  <1>5. Data'
    BY <1>1 DEF ConfInv, Data, GuestSound
  <1>6. calls' \in [Calls -> Call]
    BY <1>0, <1>1, <1>3, <1>4
  <1>7. CallSound(call)
    BY <1>0, <1>1, <1>2, <1>3 DEF CallSound
  <1>8. \A d \in Calls : CallSound(calls[d])'
    BY <1>1, <1>4, <1>7 DEF ConfInv, Requests, CallSound
  <1>9. OneSubmit'
    BY <1>3, <1>4 DEF ConfInv, Requests, OneSubmit
  <1>10. OneWriter'
    <2>1. \A d \in Calls : ~Holds(d, g)
      BY <1>1 DEF RowFree
    <2>2. \A d \in Calls : \A h \in Guests : Holds(d, h)' => Holds(d, h) \/ (d = c /\ h = g)
      BY <1>3, <1>4 DEF Holds
    <2> QED
      BY <2>1, <2>2 DEF ConfInv, Requests, OneWriter
  <1> QED
    BY <1>5, <1>6, <1>8, <1>9, <1>10 DEF ConfInv, Requests

LEMMA StartStep ==
  ASSUME ConfInv, NEW c \in Calls, Start(c)
  PROVE  ConfInv'
  <1> USE PeopleAssumption, LinksAssumption, RowFacts
  <1>0. /\ conf \in [status: Statuses, officer: Officers \cup {Nobody}] /\ inv \in [Guests -> Row] /\ paper \in [Guests -> Paper]
        /\ link \in [Guests -> Link]
        /\ \A g \in Guests : GuestSound(g)
    BY DEF ConfInv, Data
  <1>1. conf.officer \in People \cup {Nobody}
    BY <1>0
  <1>2. ASSUME NEW k \in Kinds, NEW p \in People, BeginAdd(c, k, p) PROVE ConfInv'
    <2> DEFINE call == [Idle EXCEPT !.op = "add", !.kind = k, !.email = p, !.officer = conf.officer]
    <2>1. call \in Call /\ call.op = "add" /\ call.email = p
      BY <1>1, IdleFacts DEF Call, Ops, Texts
    <2>2. Begin(c, call)
      BY <1>2 DEF BeginAdd
    <2> HIDE DEF call
    <2>3. CallSound(call)
      BY <2>1 DEF CallSound
    <2> QED
      BY <2>1, <2>2, <2>3, NewCall
  <1>3. ASSUME NEW S \in SUBSET Guests, BeginSlots(c, S) PROVE ConfInv'
    <2> DEFINE call == [Idle EXCEPT !.op = "slots", !.guests = S]
    <2>1. call \in Call /\ call.op = "slots"
      BY IdleFacts DEF Call, Ops, Texts, Kinds
    <2>2. Begin(c, call)
      BY <1>3 DEF BeginSlots
    <2> HIDE DEF call
    <2>3. CallSound(call)
      BY <2>1 DEF CallSound
    <2> QED
      BY <2>1, <2>2, <2>3, NewCall
  <1>4. ASSUME NEW op \in {"invite", "remind"}, NEW S \in SUBSET Guests, BeginMailing(c, op, S) PROVE ConfInv'
    <2> DEFINE call == [Idle EXCEPT !.op = op, !.guests = S]
    <2>1. call \in Call /\ call.op = op
      BY IdleFacts DEF Call, Ops, Texts, Kinds
    <2>2. Begin(c, call)
      BY <1>4 DEF BeginMailing
    <2> HIDE DEF call
    <2>3. CallSound(call)
      BY <2>1 DEF CallSound
    <2> QED
      BY <2>1, <2>2, <2>3, NewCall
  <1>5. ASSUME NEW b \in BOOLEAN, BeginPublish(c, b) PROVE ConfInv'
    <2> DEFINE call == [Idle EXCEPT !.op = "publish", !.accept = b]
    <2>1. call \in Call /\ call.op = "publish"
      BY IdleFacts DEF Call, Ops, Texts, Kinds
    <2>2. Begin(c, call)
      BY <1>5 DEF BeginPublish
    <2> HIDE DEF call
    <2>3. CallSound(call)
      BY <2>1 DEF CallSound
    <2> QED
      BY <2>1, <2>2, <2>3, NewCall
  <1>6. ASSUME NEW g \in Guests, NEW e \in Edits, BeginUpdate(c, g, e) PROVE ConfInv'
    <2> DEFINE row  == [NoRow EXCEPT !.email = inv[g].email]
               call == [Idle EXCEPT !.op = "update", !.guests = {g}, !.kind = e.kind, !.email = e.email, !.row.email = inv[g].email]
    <2>1. inv[g].email \in People \cup {Nobody}
      BY <1>0 DEF Row
    <2>2. e.kind \in Kinds /\ e.email \in People \cup {Nobody}
      BY EditsAssumption DEF Kinds
    <2>3. row \in Row
      BY <2>1 DEF NoRow, Row
    <2>4. call = [Idle EXCEPT !.op = "update", !.guests = {g}, !.kind = e.kind, !.email = e.email, !.row = row]
      BY DEF Idle
    <2> HIDE DEF row
    <2>5. [Idle EXCEPT !.op = "update", !.guests = {g}, !.kind = e.kind, !.email = e.email, !.row = row] \in Call
      BY <2>2, <2>3, IdleFacts DEF Call, Ops, Texts
    <2>6. call \in Call /\ call.op = "update" /\ call.guests = {g}
      BY <2>4, <2>5 DEF Idle
    <2>7. Begin(c, call)
      BY <1>6 DEF BeginUpdate
    <2> HIDE DEF call
    <2>8. CallSound(call)
      BY <1>6, <2>6 DEF CallSound, BeginUpdate, Asked
    <2> QED
      BY <2>6, <2>7, <2>8, NewCall
  <1>7. ASSUME NEW g \in Guests, BeginRevoke(c, g) PROVE ConfInv'
    <2> DEFINE row  == [NoRow EXCEPT !.status = inv[g].status]
               call == [Idle EXCEPT !.op = "revoke", !.guests = {g}, !.row.status = inv[g].status]
    <2>1. inv[g].status \in {"none", "draft", "sent", "accepted", "declined", "revoked"} /\ inv[g].status \in Guest
      BY <1>0, <1>7 DEF Row, BeginRevoke
    <2>2. row \in Row /\ row.status = inv[g].status
      BY <2>1 DEF NoRow, Row
    <2>3. call = [Idle EXCEPT !.op = "revoke", !.guests = {g}, !.row = row]
      BY DEF Idle
    <2> HIDE DEF row
    <2>4. [Idle EXCEPT !.op = "revoke", !.guests = {g}, !.row = row] \in Call
      BY <2>2, IdleFacts DEF Call, Ops, Texts, Kinds
    <2>5. call \in Call /\ call.op = "revoke" /\ call.row.status = inv[g].status /\ call.guests = {g}
      BY <2>2, <2>3, <2>4 DEF Idle
    <2>6. Begin(c, call)
      BY <1>7 DEF BeginRevoke
    <2> HIDE DEF call
    <2>7. CallSound(call)
      BY <2>1, <2>5 DEF CallSound, Guest
    <2> QED
      BY <2>5, <2>6, <2>7, NewCall
  <1>8. ASSUME NEW g \in Guests, NEW b \in BOOLEAN, BeginAnswer(c, g, b) PROVE ConfInv'
    <2>1. PICK n \in 0..MaxLinks :
            /\ IF n = 0 THEN inv[g].status = "sent" /\ inv[g].user # Nobody ELSE findToken(g, n)
            /\ Begin(c, [Idle EXCEPT !.op = "answer", !.guests = {g}, !.accept = b, !.link = n,
                                     !.row = inv[g], !.officer = conf.officer])
      BY <1>8 DEF BeginAnswer
    <2>2. inv[g] \in Row /\ inv[g].status = "sent" /\ inv[g].email \in People
      BY <1>0, <2>1 DEF findToken, Valid, GuestSound
    <2> DEFINE call == [Idle EXCEPT !.op = "answer", !.guests = {g}, !.accept = b, !.link = n,
                                    !.row = inv[g], !.officer = conf.officer]
    <2>3. call \in Call /\ call.op = "answer" /\ call.guests = {g} /\ call.row = inv[g] /\ call.link = n
      BY <1>1, <2>2, IdleFacts DEF Call, Ops, Texts, Kinds
    <2>4. Begin(c, call)
      BY <2>1
    <2> HIDE DEF call
    <2>5. CallSound(call)
      BY <2>1, <2>2, <2>3 DEF CallSound
    <2> QED
      BY <2>3, <2>4, <2>5, NewCall
  <1>9. ASSUME NEW g \in Guests, BeginWithdraw(c, g) PROVE ConfInv'
    <2> DEFINE call == [Idle EXCEPT !.op = "withdraw", !.guests = {g}, !.paper = paper[g]]
    <2>1. call \in Call /\ call.op = "withdraw" /\ call.paper = paper[g]
      BY <1>0, IdleFacts DEF Call, Ops, Texts, Kinds
    <2>2. Begin(c, call) /\ paper[g].status \in PaperOpen
      BY <1>9 DEF BeginWithdraw
    <2> HIDE DEF call
    <2>3. CallSound(call)
      BY <2>1, <2>2 DEF CallSound
    <2> QED
      BY <2>1, <2>2, <2>3, NewCall
  <1>10. ASSUME NEW g \in Guests, NEW t \in Texts, BeginRevision(c, g, t) PROVE ConfInv'
    <2> DEFINE call == [Idle EXCEPT !.op = "revise", !.guests = {g}, !.text = t]
    <2>1. call \in Call /\ call.op = "revise"
      BY IdleFacts DEF Call, Ops, Kinds
    <2>2. Begin(c, call)
      BY <1>10 DEF BeginRevision
    <2> HIDE DEF call
    <2>3. CallSound(call)
      BY <2>1 DEF CallSound
    <2> QED
      BY <2>1, <2>2, <2>3, NewCall
  <1>11. ASSUME NEW g \in Guests, NEW t \in Texts, BeginSubmit(c, g, t) PROVE ConfInv'
    <2> DEFINE read == [NoPaper EXCEPT !.status = paper[g].status]
               call == [Idle EXCEPT !.op = "submit", !.guests = {g}, !.text = t, !.paper.status = paper[g].status]
    <2>1. LockFree /\ paper[g].status \in PaperOpen /\ inv[g].status = "accepted"
      BY <1>11 DEF BeginSubmit, submissionAllowed
    <2>2. read \in Paper /\ read.status = paper[g].status
      BY <2>1 DEF NoPaper, Paper
    <2>3. call = [Idle EXCEPT !.op = "submit", !.guests = {g}, !.text = t, !.paper = read]
      BY DEF Idle
    <2> HIDE DEF read
    <2>4. [Idle EXCEPT !.op = "submit", !.guests = {g}, !.text = t, !.paper = read] \in Call
      BY <2>2, IdleFacts DEF Call, Ops, Kinds
    <2>5. call \in Call /\ call.op = "submit" /\ call.guests = {g} /\ call.paper.status = paper[g].status
      BY <2>2, <2>3, <2>4 DEF Idle
    <2>6. Begin(c, call)
      BY <1>11 DEF BeginSubmit
    <2> HIDE DEF call
    <2>7. CallSound(call)
      BY <2>1, <2>5 DEF CallSound
    <2> QED
      BY <2>1, <2>5, <2>6, <2>7, NewCall
  <1> QED
    BY <1>2, <1>3, <1>4, <1>5, <1>6, <1>7, <1>8, <1>9, <1>10, <1>11 DEF Start

(* Requests that end: what they write, and what they leave to the others. *)
Written == Data' /\ RowsKept /\ LockKept /\ HeldKept

LEMMA OnlyConference ==
  ASSUME ConfInv, conf' \in [status: Statuses, officer: Officers \cup {Nobody}],
         UNCHANGED <<inv, link, accounts, paper, slots, program>>
  PROVE  Written
  BY DEF ConfInv, Data, GuestSound, Written, RowsKept, LockKept, HeldKept

LEMMA AddWrites ==
  ASSUME ConfInv, NEW c \in Calls, CommitAdd(c)
  PROVE  Written
  <1> USE PeopleAssumption
  <1>0. inv \in [Guests -> Row] /\ accounts \in SUBSET People /\ calls[c] \in Call /\ CallSound(calls[c])
        /\ \A g \in Guests : GuestSound(g)
    BY DEF ConfInv, Data, Requests
  <1>1. PICK g \in Guests :
          /\ calls[c].op = "add" /\ inv[g].status = "none"
          /\ inv' = [inv EXCEPT ![g] = [status |-> "draft", kind |-> calls[c].kind, email |-> calls[c].email,
                                  user |-> IF calls[c].email \in accounts THEN calls[c].email ELSE Nobody]]
          /\ UNCHANGED <<conf, link, accounts, paper, slots, program>>
    BY DEF CommitAdd
  <1> DEFINE row == [status |-> "draft", kind |-> calls[c].kind, email |-> calls[c].email,
                     user |-> IF calls[c].email \in accounts THEN calls[c].email ELSE Nobody]
  <1>2. calls[c].email \in People /\ calls[c].kind \in Kinds
    BY <1>0, <1>1 DEF CallSound, Call
  <1>3. row \in Row /\ row.status = "draft" /\ row.email \in People /\ (row.user # Nobody => row.user \in accounts)
    BY <1>2 DEF Row
  <1> HIDE DEF row
  <1>4. inv' \in [Guests -> Row] /\ inv'[g] = row /\ \A h \in Guests : h # g => inv'[h] = inv[h]
    BY <1>0, <1>1, <1>3 DEF row
  <1>5. \A h \in Guests : GuestSound(h)'
    BY <1>0, <1>1, <1>3, <1>4 DEF GuestSound
  <1>6. RowsKept /\ LockKept
    BY <1>1, <1>3, <1>4 DEF RowsKept, LockKept
  <1>7. HeldKept
    <2>1. \A d \in Calls : ~Holds(d, g)
      BY <1>1 DEF Holds, ConfInv, Requests, CallSound
    <2> QED
      BY <1>1, <1>4, <2>1 DEF HeldKept
  <1> QED
    BY <1>1, <1>4, <1>5, <1>6, <1>7 DEF ConfInv, Data, Written

(* What the holder of a row writes concerns no other holder. *)
LEMMA OtherHolds ==
  ASSUME ConfInv, NEW c \in Calls, NEW g \in calls[c].guests, calls[c].op \in {"updating", "revoking"}, End(c),
         NEW d \in Calls, NEW h \in Guests, Holds(d, h), calls'[d] = calls[d]
  PROVE  h # g
  <1>1. calls \in [Calls -> Call] /\ OneWriter /\ g \in Guests
    BY DEF ConfInv, Requests, Call
  <1>2. calls'[c] = Idle
    BY <1>1, IdleFacts DEF End
  <1> QED
    BY <1>1, <1>2, IdleFacts DEF OneWriter, Holds

LEMMA UpdateWrites ==
  ASSUME ConfInv, NEW c \in Calls, CommitUpdate(c)
  PROVE  Written
  <1>0. inv \in [Guests -> Row] /\ link \in [Guests -> Link] /\ calls[c] \in Call
        /\ \A g \in Guests : GuestSound(g)
    BY DEF ConfInv, Data, Requests
  <1> DEFINE new(g) == IF calls[c].email = Nobody THEN inv[g].email ELSE calls[c].email
  <1>1. PICK g \in calls[c].guests :
          /\ calls[c].op = "updating" /\ LockFree /\ End(c)
          /\ inv' = [inv EXCEPT ![g].kind = calls[c].kind, ![g].email = new(g)]
          /\ link' = [link EXCEPT ![g].live = @ /\ (calls[c].email \in {Nobody, calls[c].row.email} \/ link[g].n # calls[c].link)]
          /\ UNCHANGED <<conf, accounts, paper, slots, program>>
    BY DEF CommitUpdate
  <1>2. g \in Guests /\ calls[c].kind \in Kinds /\ calls[c].email \in People \cup {Nobody}
    BY <1>0 DEF Call
  <1> DEFINE row == [inv[g] EXCEPT !.kind = calls[c].kind, !.email = new(g)]
             lnk == [link[g] EXCEPT !.live = link[g].live /\ (calls[c].email \in {Nobody, calls[c].row.email} \/ link[g].n # calls[c].link)]
  <1>3. inv[g] \in Row /\ link[g] \in Link /\ new(g) \in People \cup {Nobody}
    BY <1>0, <1>2 DEF Row
  <1>4. row \in Row /\ row.status = inv[g].status /\ row.user = inv[g].user /\ row.email = new(g)
    BY <1>2, <1>3 DEF Row
  <1>5. lnk \in Link /\ (lnk.live => link[g].live) /\ lnk.n = link[g].n
    BY <1>3 DEF Link
  <1>6. inv[g].status # "none" => new(g) \in People
    BY <1>0, <1>2 DEF GuestSound
  <1>7. inv' = [inv EXCEPT ![g] = row] /\ link' = [link EXCEPT ![g] = lnk]
    BY <1>0, <1>1, <1>2
  <1> HIDE DEF row, lnk, new
  <1>8. /\ inv' \in [Guests -> Row] /\ inv'[g] = row /\ \A h \in Guests : h # g => inv'[h] = inv[h]
        /\ link' \in [Guests -> Link] /\ link'[g] = lnk
        /\ \A h \in Guests : h # g => link'[h] = link[h]
    BY <1>0, <1>2, <1>4, <1>5, <1>7
  <1>9. \A h \in Guests : GuestSound(h)'
    <2>1. link'[g].live => link[g].live
      BY <1>5, <1>8
    <2>2. GuestSound(g)'
      BY <1>0, <1>1, <1>2, <1>4, <1>6, <1>8, <2>1 DEF GuestSound
    <2>3. \A h \in Guests : h # g => GuestSound(h)'
      BY <1>0, <1>1, <1>8 DEF GuestSound
    <2> QED
      BY <2>2, <2>3
  <1>10. RowsKept /\ LockKept
    BY <1>1, <1>4, <1>8 DEF RowsKept, LockKept
  <1>11. HeldKept
    BY <1>1, <1>2, <1>8, OtherHolds DEF HeldKept
  <1> QED
    BY <1>1, <1>8, <1>9, <1>10, <1>11 DEF ConfInv, Data, Written

LEMMA RevokeWrites ==
  ASSUME ConfInv, NEW c \in Calls, CommitRevoke(c)
  PROVE  Written
  <1>0. inv \in [Guests -> Row] /\ link \in [Guests -> Link] /\ paper \in [Guests -> Paper]
        /\ calls[c] \in Call /\ \A g \in Guests : GuestSound(g)
    BY DEF ConfInv, Data, Requests
  <1>1. PICK g \in calls[c].guests :
          /\ calls[c].op = "revoking" /\ LockFree /\ End(c)
          /\ inv' = [inv EXCEPT ![g].status = "revoked"]
          /\ link' = [link EXCEPT ![g].live = @ /\ link[g].n # calls[c].link]
          /\ paper' = [paper EXCEPT ![g].status = IF @ = "none" THEN @ ELSE "withdrawn"]
          /\ UNCHANGED <<conf, accounts, slots, program>>
    BY DEF CommitRevoke
  <1>2. g \in Guests /\ inv[g].status \in Guest
    BY <1>0, <1>1 DEF Call, ConfInv, Requests, CallSound
  <1> DEFINE row == [inv[g] EXCEPT !.status = "revoked"]
             lnk == [link[g] EXCEPT !.live = link[g].live /\ link[g].n # calls[c].link]
             pap == [paper[g] EXCEPT !.status = IF paper[g].status = "none" THEN "none" ELSE "withdrawn"]
  <1>3. inv[g] \in Row /\ link[g] \in Link /\ paper[g] \in Paper
    BY <1>0, <1>2
  <1>4. row \in Row /\ row.status = "revoked" /\ row.user = inv[g].user /\ row.email = inv[g].email
    BY <1>3 DEF Row
  <1>5. lnk \in Link /\ (lnk.live => link[g].live)
    BY <1>3 DEF Link
  <1>6. pap \in Paper /\ pap.status = IF paper[g].status = "none" THEN "none" ELSE "withdrawn"
    BY <1>3 DEF Paper
  <1>7. inv' = [inv EXCEPT ![g] = row] /\ link' = [link EXCEPT ![g] = lnk] /\ paper' = [paper EXCEPT ![g] = pap]
    BY <1>0, <1>1, <1>2
  <1> HIDE DEF row, lnk, pap
  <1>8. /\ inv' \in [Guests -> Row] /\ inv'[g] = row /\ \A h \in Guests : h # g => inv'[h] = inv[h]
        /\ link' \in [Guests -> Link] /\ link'[g] = lnk
        /\ \A h \in Guests : h # g => link'[h] = link[h]
        /\ paper' \in [Guests -> Paper] /\ paper'[g] = pap /\ \A h \in Guests : h # g => paper'[h] = paper[h]
    BY <1>0, <1>2, <1>4, <1>5, <1>6, <1>7
  <1>9. \A h \in Guests : GuestSound(h)'
    <2>1. link'[g].live => link[g].live
      BY <1>5, <1>8
    <2>2. GuestSound(g)'
      BY <1>0, <1>1, <1>2, <1>4, <1>6, <1>8, <2>1 DEF GuestSound, Schedulable, Guest
    <2>3. \A h \in Guests : h # g => GuestSound(h)'
      BY <1>0, <1>1, <1>8 DEF GuestSound
    <2> QED
      BY <2>2, <2>3
  <1>10. RowsKept /\ LockKept
    BY <1>1, <1>4, <1>8 DEF RowsKept, LockKept, LockFree
  <1>11. HeldKept
    BY <1>1, <1>2, <1>8, OtherHolds DEF HeldKept
  <1> QED
    BY <1>1, <1>8, <1>9, <1>10, <1>11 DEF ConfInv, Data, Written

LEMMA MailingWrites ==
  ASSUME ConfInv, NEW c \in Calls, CommitMailing(c)
  PROVE  Written
  <1> USE LinksAssumption
  <1>0. /\ conf \in [status: Statuses, officer: Officers \cup {Nobody}]
        /\ inv \in [Guests -> Row] /\ link \in [Guests -> Link]
        /\ calls[c] \in Call /\ \A g \in Guests : GuestSound(g)
    BY DEF ConfInv, Data, Requests
  <1> DEFINE call    == calls[c]
             targets == {g \in call.guests : inv[g].status \in Recipients(call.op)}
             linked  == {g \in targets : inv[g].user = Nobody /\ inv[g].status # "accepted"}
  <1>1. /\ call.op \in {"invite", "remind"} /\ LockFree
        /\ \A g \in targets : inv[g].status = "draft" => RowFree(g)
        /\ \A g \in linked : link[g].n < MaxLinks /\ ~Readdressed(g)
        /\ link' = [g \in Guests |-> IF g \in linked THEN [n |-> link[g].n + 1, live |-> TRUE, to |-> inv[g].email]
                                                     ELSE link[g]]
        /\ inv' = [g \in Guests |-> IF g \in targets /\ call.op = "invite" /\ inv[g].status = "draft"
                                    THEN [inv[g] EXCEPT !.status = "sent"] ELSE inv[g]]
        /\ conf' = [conf EXCEPT !.status = StatusAfterMailing(call.op, @)]
        /\ UNCHANGED <<accounts, paper, slots, program>>
    BY DEF CommitMailing
  <1>2. conf' \in [status: Statuses, officer: Officers \cup {Nobody}]
    <2>1. StatusAfterMailing(call.op, conf.status) \in Statuses
      BY <1>0 DEF StatusAfterMailing, Statuses
    <2> QED
      BY <1>0, <1>1, <2>1
  <1>3. ASSUME NEW g \in Guests
        PROVE  /\ inv'[g] \in Row /\ link'[g] \in Link
               /\ inv'[g].user = inv[g].user /\ inv'[g].email = inv[g].email
               /\ inv'[g].status = inv[g].status \/ (inv[g].status = "draft" /\ inv'[g].status = "sent" /\ RowFree(g))
               /\ link'[g] = link[g] \/ (inv'[g].status = "sent" /\ inv[g].user = Nobody /\ ~Readdressed(g))
    <2>1. inv[g] \in Row /\ link[g] \in Link
      BY <1>0
    <2> DEFINE row == [inv[g] EXCEPT !.status = "sent"]
    <2>2. row \in Row /\ row.status = "sent" /\ row.user = inv[g].user /\ row.email = inv[g].email
      BY <2>1 DEF Row
    <2>3. inv'[g] = IF g \in targets /\ call.op = "invite" /\ inv[g].status = "draft" THEN row ELSE inv[g]
      BY <1>1
    <2>4. link'[g] = IF g \in linked THEN [n |-> link[g].n + 1, live |-> TRUE, to |-> inv[g].email] ELSE link[g]
      BY <1>1
    <2>5. g \in linked => link[g].n + 1 \in 0..MaxLinks /\ inv[g].email \in People \cup {Nobody}
      BY <1>1, <2>1 DEF Link, Row
    <2>6. g \in targets => inv[g].status \in {"draft", "sent", "accepted"} /\ (inv[g].status = "draft" => call.op = "invite")
      BY <1>1 DEF Recipients, Asked
    <2> HIDE DEF row
    <2>7. link'[g] \in Link
      BY <2>1, <2>4, <2>5 DEF Link
    <2>8. g \in linked => inv'[g].status = "sent" /\ inv[g].user = Nobody /\ ~Readdressed(g)
      BY <1>1, <2>2, <2>3, <2>6
    <2>9. inv'[g].status = inv[g].status \/ (inv[g].status = "draft" /\ inv'[g].status = "sent" /\ RowFree(g))
      BY <1>1, <2>2, <2>3
    <2> QED
      BY <2>1, <2>2, <2>3, <2>4, <2>7, <2>8, <2>9
  <1>4. inv' \in [Guests -> Row] /\ link' \in [Guests -> Link]
    <2>1. /\ inv' = [g \in Guests |-> inv'[g]] /\ link' = [g \in Guests |-> link'[g]]
      BY <1>1
    <2> QED
      BY <1>3, <2>1
  <1> HIDE DEF call, targets, linked
  <1>5. ASSUME NEW g \in Guests PROVE GuestSound(g)'
    <2>1. UNCHANGED <<accounts, paper, slots, program>>
      BY <1>1
    <2>2. GuestSound(g)
      BY <1>0
    <2>3. CASE inv'[g].status = inv[g].status
      BY <1>3, <2>1, <2>2, <2>3 DEF GuestSound
    <2>4. CASE inv[g].status = "draft" /\ inv'[g].status = "sent"
      BY <1>3, <2>1, <2>2, <2>4 DEF GuestSound
    <2> QED
      BY <1>3, <2>3, <2>4
  <1>6. RowsKept /\ LockKept
    BY <1>1, <1>3 DEF RowsKept, LockKept
  <1>7. HeldKept
    BY <1>3 DEF HeldKept, RowFree, Readdressed, Holds
  <1> QED
    BY <1>1, <1>2, <1>4, <1>5, <1>6, <1>7 DEF ConfInv, Data, Written

LEMMA AnswerWrites ==
  ASSUME ConfInv, NEW c \in Calls, CommitAnswer(c)
  PROVE  Written
  <1>0. inv \in [Guests -> Row] /\ link \in [Guests -> Link] /\ paper \in [Guests -> Paper]
        /\ accounts \in SUBSET People
        /\ calls[c] \in Call /\ CallSound(calls[c]) /\ \A g \in Guests : GuestSound(g)
    BY DEF ConfInv, Data, Requests
  <1> DEFINE call == calls[c]
             user == IF call.row.user = Nobody THEN call.row.email ELSE call.row.user
  <1>1. PICK g \in call.guests :
          /\ call.op = "answer" /\ LockFree /\ RowFree(g) /\ StillAsked(g)
          /\ call.link > 0 => link[g].live /\ link[g].n = call.link
          /\ link' = [link EXCEPT ![g].live = @ /\ call.link = 0]
          /\ IF call.accept
             THEN /\ inv' = [inv EXCEPT ![g].status = "accepted",
                                        ![g].user = IF call.row.user = Nobody THEN user ELSE @]
                  /\ accounts' = accounts \cup {user}
                  /\ paper' = [paper EXCEPT ![g] = IF call.row.kind = "speaker"
                                                   THEN [NoPaper EXCEPT !.status = "awaiting_abstract"] ELSE @]
             ELSE /\ inv' = [inv EXCEPT ![g].status = "declined"]
                  /\ UNCHANGED <<accounts, paper>>
          /\ UNCHANGED <<conf, slots, program>>
    BY DEF CommitAnswer
  <1>2. /\ g \in Guests /\ inv[g].status = "sent" /\ inv[g].user = call.row.user /\ call.row.email \in People
        /\ call.link = 0 => call.row.user # Nobody
    BY <1>0, <1>1 DEF Call, CallSound, StillAsked
  <1>3. inv[g] \in Row /\ link[g] \in Link /\ paper[g] \in Paper /\ paper[g].status = "none"
        /\ (inv[g].user # Nobody => inv[g].user \in accounts) /\ inv[g].email \in People
        /\ g \notin slots /\ g \notin program.papers
    BY <1>0, <1>2 DEF GuestSound, Schedulable
  <1> DEFINE lnk == [link[g] EXCEPT !.live = link[g].live /\ call.link = 0]
  <1>4. lnk \in Link /\ (lnk.live => link[g].live /\ call.link = 0)
    BY <1>3 DEF Link
  <1>5. ~lnk.live
    BY <1>0, <1>2, <1>4 DEF GuestSound
  <1>6. link' = [link EXCEPT ![g] = lnk]
    BY <1>0, <1>1, <1>2
  <1> HIDE DEF lnk
  <1>7. link' \in [Guests -> Link] /\ ~link'[g].live /\ \A h \in Guests : h # g => link'[h] = link[h]
    BY <1>0, <1>2, <1>4, <1>5, <1>6
  <1>8. user \in People
    BY <1>0, <1>2, <1>3
  <1>9. ASSUME NEW row \in Row, NEW pap \in Paper,
               inv' = [inv EXCEPT ![g] = row], paper' = [paper EXCEPT ![g] = pap],
               accounts \subseteq accounts', accounts' \in SUBSET People,
               row.email = inv[g].email, row.status \in {"accepted", "declined"},
               row.user # Nobody => row.user \in accounts', row.status = "accepted" => row.user \in accounts',
               pap.status \in {"none", "awaiting_abstract"}, pap.status # "none" => row.status = "accepted"
        PROVE  Written
    <2>1. /\ inv' \in [Guests -> Row] /\ inv'[g] = row /\ \A h \in Guests : h # g => inv'[h] = inv[h]
          /\ paper' \in [Guests -> Paper] /\ paper'[g] = pap /\ \A h \in Guests : h # g => paper'[h] = paper[h]
      BY <1>0, <1>2, <1>9
    <2>2. GuestSound(g)'
      BY <1>1, <1>3, <1>7, <1>9, <2>1 DEF GuestSound
    <2>3. ASSUME NEW h \in Guests, h # g PROVE GuestSound(h)'
      BY <1>0, <1>1, <1>7, <1>9, <2>1, <2>3 DEF GuestSound
    <2>4. RowsKept /\ LockKept
      BY <1>1, <1>2, <1>9, <2>1 DEF RowsKept, LockKept, LockFree
    <2>5. HeldKept
      BY <1>1, <1>7, <2>1 DEF HeldKept, RowFree
    <2> QED
      BY <1>1, <1>7, <1>9, <2>1, <2>2, <2>3, <2>4, <2>5 DEF ConfInv, Data, Written
  <1>10. CASE call.accept
    <2> DEFINE row == [inv[g] EXCEPT !.status = "accepted", !.user = user]
               pap == IF call.row.kind = "speaker" THEN [NoPaper EXCEPT !.status = "awaiting_abstract"] ELSE paper[g]
    <2>1. inv' = [inv EXCEPT ![g] = [inv[g] EXCEPT !.status = "accepted", !.user = IF call.row.user = Nobody THEN user ELSE inv[g].user]]
          /\ paper' = [paper EXCEPT ![g] = pap]
      BY <1>0, <1>1, <1>2, <1>10
    <2>2. (IF call.row.user = Nobody THEN user ELSE inv[g].user) = user
      BY <1>2
    <2>3. inv' = [inv EXCEPT ![g] = row]
      BY <2>1, <2>2
    <2>4. row \in Row /\ row.email = inv[g].email /\ row.status = "accepted" /\ row.user = user
      BY <1>3, <1>8 DEF Row
    <2>5. pap \in Paper /\ pap.status \in {"none", "awaiting_abstract"}
      <3>1. [NoPaper EXCEPT !.status = "awaiting_abstract"] \in Paper
            /\ [NoPaper EXCEPT !.status = "awaiting_abstract"].status = "awaiting_abstract"
        BY DEF NoPaper, Paper, PaperOpen
      <3> QED
        BY <1>3, <3>1
    <2>6. accounts \subseteq accounts' /\ accounts' \in SUBSET People /\ user \in accounts'
      BY <1>0, <1>1, <1>8, <1>10
    <2> HIDE DEF row, pap, user
    <2> QED
      BY <1>9, <2>1, <2>3, <2>4, <2>5, <2>6
  <1>11. CASE ~call.accept
    <2> DEFINE row == [inv[g] EXCEPT !.status = "declined"]
    <2>1. inv' = [inv EXCEPT ![g] = row] /\ UNCHANGED <<accounts, paper>>
      BY <1>0, <1>1, <1>2, <1>11
    <2>2. row \in Row /\ row.email = inv[g].email /\ row.status = "declined" /\ row.user = inv[g].user
      BY <1>3 DEF Row
    <2>3. paper' = [paper EXCEPT ![g] = paper[g]]
      BY <1>0, <2>1
    <2> HIDE DEF row
    <2> QED
      BY <1>0, <1>3, <1>9, <2>1, <2>2, <2>3
  <1> QED
    BY <1>10, <1>11

LEMMA RevisionWrites ==
  ASSUME ConfInv, NEW c \in Calls, CommitRevision(c)
  PROVE  Written
  <1>0. paper \in [Guests -> Paper] /\ calls[c] \in Call /\ \A g \in Guests : GuestSound(g)
    BY DEF ConfInv, Data, Requests
  <1>1. PICK g \in calls[c].guests :
          /\ paper' = [paper EXCEPT ![g].revise = @ \cup {calls[c].text}]
          /\ UNCHANGED <<conf, inv, link, accounts, slots, program>>
    BY DEF CommitRevision
  <1> DEFINE pap == [paper[g] EXCEPT !.revise = paper[g].revise \cup {calls[c].text}]
  <1>2. g \in Guests /\ calls[c].text \in Texts /\ paper[g] \in Paper
    BY <1>0 DEF Call
  <1>3. pap \in Paper /\ pap.status = paper[g].status
    BY <1>2 DEF Paper
  <1>4. paper' = [paper EXCEPT ![g] = pap]
    BY <1>0, <1>1, <1>2
  <1> HIDE DEF pap
  <1>5. paper' \in [Guests -> Paper] /\ \A h \in Guests : paper'[h].status = paper[h].status
    BY <1>0, <1>2, <1>3, <1>4
  <1>6. \A h \in Guests : GuestSound(h)'
    BY <1>0, <1>1, <1>5 DEF GuestSound
  <1>7. RowsKept /\ LockKept /\ HeldKept
    BY <1>1, <1>5 DEF RowsKept, LockKept, HeldKept
  <1> QED
    BY <1>1, <1>5, <1>6, <1>7 DEF ConfInv, Data, Written

LEMMA WithdrawWrites ==
  ASSUME ConfInv, NEW c \in Calls, CommitWithdraw(c)
  PROVE  Written
  <1>0. paper \in [Guests -> Paper] /\ calls[c] \in Call /\ CallSound(calls[c]) /\ \A g \in Guests : GuestSound(g)
    BY DEF ConfInv, Data, Requests
  <1>1. PICK g \in calls[c].guests :
          /\ calls[c].op = "withdraw" /\ LockFree /\ paper[g] = calls[c].paper
          /\ paper' = [paper EXCEPT ![g].status = "withdrawn", ![g].revise = {}]
          /\ UNCHANGED <<conf, inv, link, accounts, slots, program>>
    BY DEF CommitWithdraw
  <1> DEFINE pap == [paper[g] EXCEPT !.status = "withdrawn", !.revise = {}]
  <1>2. g \in Guests /\ paper[g] \in Paper /\ paper[g].status \in PaperOpen
    BY <1>0, <1>1 DEF Call, CallSound
  <1>3. pap \in Paper /\ pap.status = "withdrawn"
    BY <1>2 DEF Paper
  <1>4. paper' = [paper EXCEPT ![g] = pap]
    BY <1>0, <1>1, <1>2
  <1> HIDE DEF pap
  <1>5. paper' \in [Guests -> Paper] /\ paper'[g].status = "withdrawn" /\ \A h \in Guests : h # g => paper'[h] = paper[h]
    BY <1>0, <1>2, <1>3, <1>4
  <1>6. GuestSound(g)'
    BY <1>0, <1>1, <1>2, <1>5 DEF GuestSound, PaperOpen
  <1>7. \A h \in Guests : h # g => GuestSound(h)'
    BY <1>0, <1>1, <1>5 DEF GuestSound
  <1>8. RowsKept /\ LockKept /\ HeldKept
    BY <1>1, <1>5 DEF RowsKept, LockKept, LockFree, HeldKept
  <1> QED
    BY <1>1, <1>5, <1>6, <1>7, <1>8 DEF ConfInv, Data, Written

LEMMA SlotsWrites ==
  ASSUME ConfInv, NEW c \in Calls, CommitSlots(c)
  PROVE  Written
  <1>0. calls[c] \in Call /\ \A g \in Guests : GuestSound(g)
    BY DEF ConfInv, Data, Requests
  <1>1. /\ LockFree /\ \A g \in calls[c].guests : paper[g].status \in Schedulable
        /\ slots' = calls[c].guests
        /\ UNCHANGED <<conf, inv, link, accounts, paper, program>>
    BY DEF CommitSlots
  <1>2. slots' \in SUBSET Guests
    BY <1>0, <1>1 DEF Call
  <1>3. \A h \in Guests : GuestSound(h)'
    BY <1>0, <1>1 DEF GuestSound
  <1>4. RowsKept /\ LockKept /\ HeldKept
    BY <1>1 DEF RowsKept, LockKept, LockFree, HeldKept
  <1> QED
    BY <1>1, <1>2, <1>3, <1>4 DEF ConfInv, Data, Written

LEMMA PublishWrites ==
  ASSUME ConfInv, NEW c \in Calls, CommitPublish(c)
  PROVE  Written
  <1>0. /\ conf \in [status: Statuses, officer: Officers \cup {Nobody}] /\ paper \in [Guests -> Paper]
        /\ slots \in SUBSET Guests /\ \A g \in Guests : GuestSound(g)
    BY DEF ConfInv, Data
  <1>1. /\ LockFree
        /\ paper' = [g \in Guests |->
             IF paper[g].status \in Schedulable
             THEN [paper[g] EXCEPT !.status = IF g \in slots THEN "scheduled" ELSE "full_paper_submitted"]
             ELSE paper[g]]
        /\ program' = [published |-> TRUE, papers |-> slots]
        /\ conf' = [conf EXCEPT !.status = "program_published"]
        /\ UNCHANGED <<inv, link, accounts, slots>>
    BY DEF CommitPublish
  <1>2. conf' \in [status: Statuses, officer: Officers \cup {Nobody}]
    BY <1>0, <1>1 DEF Statuses
  <1>3. program' \in [published: BOOLEAN, papers: SUBSET Guests] /\ program'.papers = slots
    BY <1>0, <1>1
  <1>4. ASSUME NEW g \in Guests
        PROVE  /\ paper'[g] \in Paper
               /\ paper'[g].status = IF paper[g].status \notin Schedulable THEN paper[g].status
                                     ELSE IF g \in slots THEN "scheduled" ELSE "full_paper_submitted"
    <2> DEFINE st == IF g \in slots THEN "scheduled" ELSE "full_paper_submitted"
               pap == [paper[g] EXCEPT !.status = st]
    <2>1. paper[g] \in Paper /\ st \in {"scheduled", "full_paper_submitted"}
      BY <1>0
    <2>2. paper'[g] = IF paper[g].status \in Schedulable THEN pap ELSE paper[g]
      BY <1>1
    <2> HIDE DEF st
    <2>3. pap \in Paper /\ pap.status = st
      BY <2>1 DEF Paper, PaperOpen
    <2> HIDE DEF pap
    <2> QED
      BY <2>1, <2>2, <2>3 DEF st
  <1>5. paper' \in [Guests -> Paper]
    <2>1. paper' = [g \in Guests |-> paper'[g]]
      BY <1>1
    <2> QED
      BY <1>4, <2>1
  <1>6. ASSUME NEW g \in Guests PROVE GuestSound(g)'
    BY <1>0, <1>1, <1>3, <1>4 DEF GuestSound, Schedulable
  <1>7. RowsKept /\ LockKept /\ HeldKept
    BY <1>1 DEF RowsKept, LockKept, LockFree, HeldKept
  <1> QED
    BY <1>1, <1>2, <1>3, <1>5, <1>6, <1>7 DEF ConfInv, Data, Written

(* A submission writes what it read of the paper; nobody else held the lock. *)
LEMMA SubmitStep ==
  ASSUME ConfInv, NEW c \in Calls, CommitSubmit(c)
  PROVE  ConfInv'
  <1>0. paper \in [Guests -> Paper] /\ calls \in [Calls -> Call] /\ CallSound(calls[c]) /\ OneSubmit
        /\ \A g \in Guests : GuestSound(g)
    BY DEF ConfInv, Data, Requests
  <1> DEFINE call == calls[c]
             st == paperStatusAfterSubmit(call.paper.status, call.text)
  <1>1. PICK g \in call.guests :
          /\ call.op = "submit"
          /\ paper' = [paper EXCEPT ![g].status = st, ![g].has = @ \cup {call.text}, ![g].revise = @ \ {call.text}]
          /\ End(c)
          /\ UNCHANGED <<conf, inv, link, accounts, slots, program>>
    BY DEF CommitSubmit
  <1>2. /\ g \in Guests /\ call.text \in Texts /\ paper[g] \in Paper
        /\ call.paper.status \in PaperOpen /\ inv[g].status = "accepted"
        /\ g \notin program.papers /\ (g \in slots => call.paper.status = "full_paper_submitted")
    BY <1>0, <1>1 DEF Call, CallSound, GuestSound, PaperOpen, Schedulable
  <1> DEFINE pap == [paper[g] EXCEPT !.status = st, !.has = paper[g].has \cup {call.text}, !.revise = paper[g].revise \ {call.text}]
  <1>3. st \in {"abstract_submitted", "full_paper_submitted"} /\ (g \in slots => st = "full_paper_submitted")
    BY <1>2 DEF paperStatusAfterSubmit
  <1> HIDE DEF st
  <1>4. pap \in Paper /\ pap.status = st
    BY <1>2, <1>3 DEF Paper, PaperOpen
  <1>5. paper' = [paper EXCEPT ![g] = pap]
    BY <1>0, <1>1, <1>2
  <1> HIDE DEF pap, call
  <1>6. paper' \in [Guests -> Paper] /\ paper'[g].status = st /\ \A h \in Guests : h # g => paper'[h] = paper[h]
    BY <1>0, <1>2, <1>4, <1>5
  <1>7. GuestSound(g)'
    BY <1>0, <1>1, <1>2, <1>3, <1>6 DEF GuestSound, Schedulable
  <1>8. \A h \in Guests : h # g => GuestSound(h)'
    BY <1>0, <1>1, <1>6 DEF GuestSound
  <1>9. Data'
    BY <1>1, <1>6, <1>7, <1>8 DEF ConfInv, Data
  <1>10. calls' \in [Calls -> Call] /\ \A d \in Calls : calls'[d] = IF d = c THEN Idle ELSE calls[d]
    BY <1>0, <1>1, IdleFacts DEF End
  <1>11. \A d \in Calls : calls'[d].op # "submit" /\ OneSubmit'
    BY <1>0, <1>1, <1>10, IdleFacts DEF OneSubmit, call
  <1>12. ASSUME NEW d \in Calls PROVE CallSound(calls[d])'
    BY <1>0, <1>1, <1>10, <1>11, IdleFacts DEF ConfInv, Requests, CallSound
  <1>13. OneWriter'
    BY <1>10, IdleFacts DEF ConfInv, Requests, OneWriter, Holds
  <1> QED
    BY <1>9, <1>10, <1>11, <1>12, <1>13 DEF ConfInv, Requests, OneSubmit

LEMMA NextInv == ConfInv /\ [Next]_vars => ConfInv'
  <1> SUFFICES ASSUME ConfInv, [Next]_vars PROVE ConfInv'
    OBVIOUS
  <1> USE PeopleAssumption
  <1>0. conf \in [status: Statuses, officer: Officers \cup {Nobody}]
    BY DEF ConfInv, Data
  <1>1. ASSUME Written, UNCHANGED calls \/ \E c \in Calls : End(c)
        PROVE  ConfInv'
    BY <1>1, RequestsStep DEF Written, ConfInv
  <1>2. ASSUME NEW p \in Officers, assignOfficer(p) PROVE ConfInv'
    <2>1. conf' \in [status: Statuses, officer: Officers \cup {Nobody}] /\ UNCHANGED <<inv, link, accounts, paper, slots, program, calls>>
      BY <1>0, <1>2 DEF assignOfficer, Statuses
    <2> QED
      BY <1>1, <2>1, OnlyConference
  <1>3. ASSUME revokeOfficer PROVE ConfInv'
    <2>1. conf' \in [status: Statuses, officer: Officers \cup {Nobody}] /\ UNCHANGED <<inv, link, accounts, paper, slots, program, calls>>
      BY <1>0, <1>3 DEF revokeOfficer
    <2> QED
      BY <1>1, <2>1, OnlyConference
  <1>4. ASSUME NEW st \in Statuses, transition(st) PROVE ConfInv'
    <2>1. conf' \in [status: Statuses, officer: Officers \cup {Nobody}] /\ UNCHANGED <<inv, link, accounts, paper, slots, program, calls>>
      BY <1>0, <1>4 DEF transition
    <2> QED
      BY <1>1, <2>1, OnlyConference
  <1>5. ASSUME NEW c \in Calls, Abort(c) PROVE ConfInv'
    <2>1. End(c) /\ UNCHANGED <<conf, inv, link, accounts, paper, slots, program>>
      BY <1>5 DEF Abort
    <2> QED
      BY <1>0, <1>1, <2>1, OnlyConference
  <1>6. ASSUME NEW c \in Calls,
               CommitAdd(c) \/ CommitUpdate(c) \/ CommitRevoke(c) \/ CommitMailing(c) \/ CommitAnswer(c)
               \/ CommitWithdraw(c) \/ CommitRevision(c) \/ CommitSlots(c) \/ CommitPublish(c)
        PROVE  ConfInv'
    <2>1. Written
      BY <1>6, AddWrites, UpdateWrites, RevokeWrites, MailingWrites, AnswerWrites, WithdrawWrites, RevisionWrites,
         SlotsWrites, PublishWrites
    <2>2. End(c)
      BY <1>6 DEF CommitAdd, CommitUpdate, CommitRevoke, CommitMailing, CommitAnswer, CommitWithdraw, CommitRevision,
         CommitSlots, CommitPublish
    <2> QED
      BY <1>1, <2>1, <2>2
  <1>7. CASE UNCHANGED vars
    <2>1. UNCHANGED <<conf, inv, link, accounts, paper, slots, program>> /\ UNCHANGED calls
      BY <1>7 DEF vars
    <2> QED
      BY <1>0, <1>1, <2>1, OnlyConference
  <1> QED
    BY <1>2, <1>3, <1>4, <1>5, <1>6, <1>7, StartStep, SubmitStep, WriteStep DEF Next, Finish

THEOREM ConfInvHolds == Spec => []ConfInv
  BY InitInv, NextInv, PTL DEF Spec

(* Every variable of a conference keeps its type. *)
THEOREM ConferenceTypeCorrect == Spec => []TypeOK
  <1>1. ConfInv => TypeOK
    BY DEF ConfInv, Data, Requests, TypeOK
  <1> QED
    BY <1>1, ConfInvHolds, PTL

(* A paper that is not withdrawn belongs to a guest who accepted and has an account. *)
THEOREM LivePapersHaveGuests == Spec => []LivePaperHasGuest
  <1>1. ConfInv => LivePaperHasGuest
    BY DEF ConfInv, Data, GuestSound, LivePaperHasGuest
  <1> QED
    BY <1>1, ConfInvHolds, PTL

(* What findToken accepts reaches the guest it was mailed to: a step keeps that, unless it is an edit that *)
(* writes back the address it had read.                                                                    *)
LEMMA LinksStep ==
  ASSUME ConfInv, [Next]_vars, NEW g \in Guests, LinkFits(g)
  PROVE  LinkFits(g)' \/ \E c \in Calls : WritesBack(c, g)
  <1>0. /\ inv \in [Guests -> Row] /\ link \in [Guests -> Link] /\ calls \in [Calls -> Call] /\ GuestSound(g)
        /\ \A c \in Calls : CallSound(calls[c]) /\ calls[c].guests \in SUBSET Guests
    BY DEF ConfInv, Data, Requests, Call
  <1>1. ASSUME inv' = inv, link' = link PROVE LinkFits(g)'
    BY <1>1 DEF LinkFits, Valid
  <1>2. CASE \/ revokeOfficer
             \/ \E p \in Officers : assignOfficer(p)
             \/ \E st \in Statuses : transition(st)
             \/ UNCHANGED vars
    BY <1>1, <1>2 DEF assignOfficer, revokeOfficer, transition, vars
  <1>3. ASSUME NEW c \in Calls, Start(c) PROVE LinkFits(g)'
    BY <1>1, <1>3 DEF Start, BeginAdd, BeginSlots, BeginMailing, BeginPublish, BeginUpdate, BeginRevoke, BeginAnswer,
       BeginWithdraw, BeginSubmit, BeginRevision, Begin
  <1>4. ASSUME NEW c \in Calls,
               WriteUpdate(c) \/ WriteRevoke(c) \/ CommitSubmit(c) \/ CommitWithdraw(c) \/ CommitRevision(c)
               \/ CommitSlots(c) \/ CommitPublish(c) \/ Abort(c)
        PROVE  LinkFits(g)'
    BY <1>1, <1>4 DEF WriteUpdate, WriteRevoke, CommitSubmit, CommitWithdraw, CommitRevision, CommitSlots,
       CommitPublish, Abort
  <1>5. ASSUME NEW c \in Calls, CommitAdd(c) PROVE LinkFits(g)'
    <2>1. PICK h \in Guests : /\ \E row : row.status = "draft" /\ inv' = [inv EXCEPT ![h] = row]
                             /\ link' = link
      <3> DEFINE row == [status |-> "draft", kind |-> calls[c].kind, email |-> calls[c].email,
                         user |-> IF calls[c].email \in accounts THEN calls[c].email ELSE Nobody]
      <3>1. row.status = "draft" /\ \E h \in Guests : inv' = [inv EXCEPT ![h] = row] /\ link' = link
        BY <1>5 DEF CommitAdd
      <3> HIDE DEF row
      <3> QED
        BY <3>1
    <2>2. inv'[g] = inv[g] \/ inv'[g].status = "draft"
      BY <1>0, <2>1
    <2> QED
      BY <2>1, <2>2 DEF LinkFits, Valid
  <1>6. ASSUME NEW c \in Calls, CommitUpdate(c) PROVE LinkFits(g)' \/ WritesBack(c, g)
    <2> DEFINE new(h) == IF calls[c].email = Nobody THEN inv[h].email ELSE calls[c].email
               keeps(h) == calls[c].email \in {Nobody, calls[c].row.email} \/ link[h].n # calls[c].link
    <2>1. PICK h \in calls[c].guests :
            /\ calls[c].op = "updating" /\ End(c)
            /\ inv' = [inv EXCEPT ![h].kind = calls[c].kind, ![h].email = new(h)]
            /\ link' = [link EXCEPT ![h].live = @ /\ keeps(h)]
      BY <1>6 DEF CommitUpdate
    <2>2. CASE h # g
      <3>1. inv'[g] = inv[g] /\ link'[g] = link[g]
        BY <1>0, <2>1, <2>2
      <3> QED
        BY <3>1 DEF LinkFits, Valid
    <2>3. CASE h = g
      <3>1. /\ inv'[g].status = inv[g].status /\ inv'[g].user = inv[g].user /\ inv'[g].email = new(g)
            /\ link'[g].to = link[g].to /\ (link'[g].live => link[g].live /\ keeps(g))
        <4>1. inv[g] \in Row /\ link[g] \in Link
          BY <1>0
        <4> HIDE DEF new, keeps
        <4>2. /\ inv'[g] = [inv[g] EXCEPT !.kind = calls[c].kind, !.email = new(g)]
              /\ link'[g] = [link[g] EXCEPT !.live = link[g].live /\ keeps(g)]
          BY <1>0, <2>1, <2>3
        <4> QED
          BY <4>1, <4>2 DEF Row, Link
      <3>2. calls'[c] = Idle
        BY <1>0, <2>1 DEF End
      <3>3. link[g].n # calls[c].link => calls[c].email \in {Nobody, inv[g].email}
        BY <1>0, <2>1, <2>3 DEF CallSound
      <3>4. CASE new(g) = inv[g].email
        BY <3>1, <3>4 DEF LinkFits, Valid
      <3>5. CASE new(g) # inv[g].email /\ keeps(g)
        BY <2>1, <2>3, <3>2, <3>3, <3>5 DEF WritesBack
      <3>6. CASE ~keeps(g)
        BY <3>1, <3>6 DEF LinkFits, Valid
      <3> QED
        BY <3>4, <3>5, <3>6
    <2> QED
      BY <2>2, <2>3
  <1>7. ASSUME NEW c \in Calls, CommitRevoke(c) PROVE LinkFits(g)'
    <2>1. PICK h \in calls[c].guests :
            /\ inv' = [inv EXCEPT ![h].status = "revoked"]
            /\ \E b : link' = [link EXCEPT ![h].live = b]
      BY <1>7 DEF CommitRevoke
    <2>2. (inv'[g] = inv[g] /\ link'[g] = link[g]) \/ inv'[g].status = "revoked"
      BY <1>0, <2>1 DEF Row
    <2> QED
      BY <2>2 DEF LinkFits, Valid
  <1>8. ASSUME NEW c \in Calls, CommitMailing(c) PROVE LinkFits(g)'
    <2> DEFINE call    == calls[c]
               targets == {h \in call.guests : inv[h].status \in Recipients(call.op)}
               linked  == {h \in targets : inv[h].user = Nobody /\ inv[h].status # "accepted"}
    <2>1. /\ link'[g] = IF g \in linked THEN [n |-> link[g].n + 1, live |-> TRUE, to |-> inv[g].email] ELSE link[g]
          /\ inv'[g] = IF g \in targets /\ call.op = "invite" /\ inv[g].status = "draft"
                       THEN [inv[g] EXCEPT !.status = "sent"] ELSE inv[g]
      BY <1>8 DEF CommitMailing
    <2>2. inv'[g].user = inv[g].user /\ inv'[g].email = inv[g].email
          /\ (inv'[g].status = inv[g].status \/ inv[g].status = "draft")
      BY <1>0, <2>1 DEF Row
    <2>3. CASE g \in linked
      BY <2>1, <2>2, <2>3 DEF LinkFits, Valid
    <2>4. CASE g \notin linked
      BY <1>0, <2>1, <2>2, <2>4 DEF LinkFits, Valid, GuestSound
    <2> QED
      BY <2>3, <2>4
  <1>9. ASSUME NEW c \in Calls, CommitAnswer(c) PROVE LinkFits(g)'
    <2>1. PICK h \in calls[c].guests :
            /\ \E b : link' = [link EXCEPT ![h].live = b]
            /\ \/ \E u : inv' = [inv EXCEPT ![h].status = "accepted", ![h].user = u]
               \/ inv' = [inv EXCEPT ![h].status = "declined"]
      <3> DEFINE u(h) == IF calls[c].row.user = Nobody
                         THEN IF calls[c].row.user = Nobody THEN calls[c].row.email ELSE calls[c].row.user
                         ELSE inv[h].user
      <3>1. PICK h \in calls[c].guests :
              /\ link' = [link EXCEPT ![h].live = @ /\ calls[c].link = 0]
              /\ \/ inv' = [inv EXCEPT ![h].status = "accepted", ![h].user = u(h)]
                 \/ inv' = [inv EXCEPT ![h].status = "declined"]
        BY <1>0, <1>9 DEF CommitAnswer
      <3> HIDE DEF u
      <3> QED
        BY <3>1
    <2>2. (inv'[g] = inv[g] /\ link'[g] = link[g]) \/ inv'[g].status \in {"accepted", "declined"}
      BY <1>0, <2>1 DEF Row
    <2> QED
      BY <2>2 DEF LinkFits, Valid
  <1> QED
    BY <1>2, <1>3, <1>4, <1>5, <1>6, <1>7, <1>8, <1>9 DEF Next, Finish

(* What findToken accepts reaches the guest it was mailed to, for any number of mailings, edits, answers and *)
(* revocations that cross; the only step out of that is an edit that writes back the address it had read.    *)
THEOREM LinksKeepFitting == Spec => LinkKeepsFitting
  <1>1. ConfInv /\ [Next]_vars =>
          [\A g \in Guests : LinkFits(g) => LinkFits(g)' \/ \E c \in Calls : WritesBack(c, g)]_vars
    BY LinksStep
  <1> QED
    BY <1>1, ConfInvHolds, PTL DEF Spec, LinkKeepsFitting

(* The published program and the papers agree. *)
THEOREM ProgramAndPapersAgree == Spec => []ProgramAgrees
  <1>1. ConfInv => ProgramAgrees
    BY DEF ConfInv, Data, GuestSound, ProgramAgrees
  <1> QED
    BY <1>1, ConfInvHolds, PTL

(* From the end of the submission a conference only goes on; what brings one back that is over is a *)
(* publication that was on its way, and nothing else.                                               *)
THEOREM ConferenceOnlyGoesOn == Spec => OnlyPublicationReopens
  <1> DEFINE GoesOn == \/ conf'.status = conf.status
                       \/ conf.status \in Program /\ conf'.status \in Closed
                       \/ conf'.status = "program_published" /\ \E c \in Calls : calls[c].op = "publish"
  <1>1. ConfInv /\ [Next]_vars => [conf.status \in Program \cup Closed /\ conf'.status # conf.status =>
          \/ conf.status \in Program /\ conf'.status \in Closed
          \/ conf'.status = "program_published" /\ \E c \in Calls : calls[c].op = "publish"]_vars
    <2> SUFFICES ASSUME ConfInv, Next, conf.status \in Program \cup Closed PROVE GoesOn
      OBVIOUS
    <2>0. conf \in [status: Statuses, officer: Officers \cup {Nobody}] /\ conf.status # "inviting" /\ conf.status # "preparing"
          /\ conf.status # "draft"
      BY DEF ConfInv, Data, Program, Closed
    <2>1. CASE conf' = conf
      BY <2>1
    <2>2. ASSUME NEW p \in Officers, assignOfficer(p) PROVE GoesOn
      BY <2>0, <2>2 DEF assignOfficer
    <2>3. ASSUME revokeOfficer PROVE GoesOn
      BY <2>0, <2>3 DEF revokeOfficer
    <2>4. ASSUME NEW st \in Statuses, transition(st) PROVE GoesOn
      <3>1. <<conf.status, st>> \in Transitions /\ conf'.status = st
        BY <2>0, <2>4 DEF transition
      <3>2. conf.status \notin Closed /\ st \in Closed
        BY <2>0, <3>1 DEF Transitions, Closed
      <3> QED
        BY <3>1, <3>2
    <2>5. ASSUME NEW c \in Calls, CommitMailing(c) PROVE GoesOn
      BY <2>0, <2>5 DEF CommitMailing, StatusAfterMailing
    <2>6. ASSUME NEW c \in Calls, CommitPublish(c) PROVE GoesOn
      BY <2>0, <2>6 DEF CommitPublish
    <2>7. ASSUME NEW c \in Calls, Start(c) PROVE conf' = conf
      BY <2>7 DEF Start, BeginAdd, BeginSlots, BeginMailing, BeginPublish, BeginUpdate, BeginRevoke, BeginAnswer,
         BeginWithdraw, BeginSubmit, BeginRevision, Begin
    <2>8. ASSUME NEW c \in Calls,
                 CommitAdd(c) \/ CommitUpdate(c) \/ CommitRevoke(c) \/ CommitAnswer(c) \/ CommitSubmit(c)
                 \/ CommitWithdraw(c) \/ CommitRevision(c) \/ CommitSlots(c) \/ Abort(c)
                 \/ WriteUpdate(c) \/ WriteRevoke(c)
          PROVE  conf' = conf
      BY <2>8 DEF WriteUpdate, WriteRevoke, CommitAdd, CommitUpdate, CommitRevoke, CommitAnswer, CommitSubmit, CommitWithdraw, CommitRevision,
         CommitSlots, Abort
    <2> QED
      BY <2>1, <2>2, <2>3, <2>4, <2>5, <2>6, <2>7, <2>8 DEF Next, Finish
  <1> QED
    BY <1>1, ConfInvHolds, PTL DEF Spec, OnlyPublicationReopens

-----------------------------------------------------------------------------
(* Guests and papers live the life of GuestLife: its variables, by name. *)
phases == [g \in Guests |-> inv[g].status]
talks  == [g \in Guests |-> IF paper[g].status \in {"none", "withdrawn"} THEN paper[g].status ELSE "live"]


LEMMA LifeStutters ==
  ASSUME \A g \in Guests : inv'[g].status = inv[g].status /\ talks'[g] = talks[g]
  PROVE  UNCHANGED Life!vars
  <1>1. phases' = phases
    BY DEF phases
  <1>2. talks' = talks
    BY DEF talks
  <1> QED
    BY <1>1, <1>2 DEF Life!vars, phases, talks

LEMMA LifeMoves ==
  ASSUME NEW g \in Guests, NEW s, NEW t, <<s, t>> \in Life!Moves,
         inv[g].status = s, inv'[g].status = t,
         \A h \in Guests : h # g => inv'[h].status = inv[h].status,
         \A h \in Guests : h # g => talks'[h] = talks[h],
         \/ t # "revoked" /\ talks'[g] = talks[g]
         \/ t = "accepted" /\ talks'[g] = "live"
         \/ t = "revoked" /\ talks'[g] = IF talks[g] = "live" THEN "withdrawn" ELSE talks[g]
  PROVE  Life!Move(g)
  <1>1. phases' = [phases EXCEPT ![g] = t] /\ phases[g] = s
    BY DEF phases
  <1>2. \/ t # "revoked" /\ talks' = talks
        \/ t = "accepted" /\ talks' = [talks EXCEPT ![g] = "live"]
        \/ t = "revoked" /\ talks' = [talks EXCEPT ![g] = IF @ = "live" THEN "withdrawn" ELSE @]
    <2>1. /\ talks = [h \in Guests |-> talks[h]]
          /\ talks' = [h \in Guests |-> talks'[h]]
      BY DEF talks
    <2>2. CASE t # "revoked" /\ talks'[g] = talks[g]
      <3>1. \A h \in Guests : talks'[h] = talks[h]
        BY <2>2
      <3> QED
        BY <2>1, <2>2, <3>1
    <2>3. CASE t = "accepted" /\ talks'[g] = "live"
      BY <2>1, <2>3
    <2>4. CASE t = "revoked" /\ talks'[g] = IF talks[g] = "live" THEN "withdrawn" ELSE talks[g]
      BY <2>1, <2>4
    <2> QED
      BY <2>2, <2>3, <2>4
  <1> DEFINE m == <<s, t>>
  <1>3. m \in Life!Moves /\ m[1] = s /\ m[2] = t
    OBVIOUS
  <1> HIDE DEF m
  <1> QED
    BY <1>1, <1>2, <1>3 DEF Life!Move, phases, talks

LEMMA LifeWithdraws ==
  ASSUME NEW g \in Guests, inv[g].status = "accepted", talks[g] = "live", talks'[g] = "withdrawn",
         \A h \in Guests : inv'[h].status = inv[h].status,
         \A h \in Guests : h # g => talks'[h] = talks[h]
  PROVE  Life!Withdraw(g)
  <1>1. phases' = phases /\ phases[g] = "accepted"
    BY DEF phases
  <1>2. talks' = [talks EXCEPT ![g] = "withdrawn"]
    BY DEF talks
  <1> QED
    BY <1>1, <1>2 DEF Life!Withdraw, phases, talks

LEMMA TalksAt ==
  \A g \in Guests :
    /\ talks[g] = IF paper[g].status \in {"none", "withdrawn"} THEN paper[g].status ELSE "live"
    /\ talks'[g] = IF paper'[g].status \in {"none", "withdrawn"} THEN paper'[g].status ELSE "live"
  BY DEF talks

LEMMA LifeInit == Init => Life!Init
  <1> SUFFICES ASSUME Init PROVE Life!Init
    OBVIOUS
  <1>1. phases = [g \in Guests |-> "none"] /\ talks = [g \in Guests |-> "none"]
    BY RowFacts DEF Init, phases, talks
  <1> QED
    BY <1>1 DEF Life!Init, phases, talks

LEMMA LifeStep == ConfInv /\ [Next]_vars => [Life!Next]_(Life!vars)
  <1> SUFFICES ASSUME ConfInv, [Next]_vars PROVE [Life!Next]_(Life!vars)
    OBVIOUS
  <1>0. /\ inv \in [Guests -> Row] /\ paper \in [Guests -> Paper] /\ calls \in [Calls -> Call]
        /\ \A g \in Guests : GuestSound(g)
        /\ \A c \in Calls : CallSound(calls[c]) /\ calls[c].guests \in SUBSET Guests
    BY DEF ConfInv, Data, Requests, Call
  <1>1. ASSUME inv' = inv, paper' = paper PROVE UNCHANGED Life!vars
    BY <1>1, LifeStutters DEF talks
  <1>2. CASE \/ revokeOfficer
             \/ \E p \in Officers : assignOfficer(p)
             \/ \E st \in Statuses : transition(st)
             \/ UNCHANGED vars
    BY <1>1, <1>2 DEF assignOfficer, revokeOfficer, transition, vars
  <1>3. ASSUME NEW c \in Calls, Start(c) PROVE UNCHANGED Life!vars
    BY <1>1, <1>3 DEF Start, BeginAdd, BeginSlots, BeginMailing, BeginPublish, BeginUpdate, BeginRevoke, BeginAnswer,
       BeginWithdraw, BeginSubmit, BeginRevision, Begin
  <1>4. ASSUME NEW c \in Calls, CommitSlots(c) \/ WriteUpdate(c) \/ WriteRevoke(c) \/ Abort(c) PROVE UNCHANGED Life!vars
    BY <1>1, <1>4 DEF CommitSlots, WriteUpdate, WriteRevoke, Abort
  <1>5. ASSUME NEW c \in Calls, CommitAdd(c) PROVE \E g \in Guests : Life!Move(g)
    <2>1. PICK g \in Guests :
            /\ inv[g].status = "none" /\ UNCHANGED paper
            /\ \E row : row.status = "draft" /\ inv' = [inv EXCEPT ![g] = row]
      <3>1. PICK g \in Guests :
              /\ inv[g].status = "none" /\ UNCHANGED paper
              /\ inv' = [inv EXCEPT ![g] = [status |-> "draft", kind |-> calls[c].kind, email |-> calls[c].email,
                                            user |-> IF calls[c].email \in accounts THEN calls[c].email ELSE Nobody]]
        BY <1>5 DEF CommitAdd
      <3> DEFINE row == [status |-> "draft", kind |-> calls[c].kind, email |-> calls[c].email,
                         user |-> IF calls[c].email \in accounts THEN calls[c].email ELSE Nobody]
      <3>2. row.status = "draft" /\ inv' = [inv EXCEPT ![g] = row]
        BY <3>1
      <3> HIDE DEF row
      <3> QED
        BY <3>1, <3>2
    <2>2. inv'[g].status = "draft" /\ \A h \in Guests : h # g => inv'[h] = inv[h]
      BY <1>0, <2>1
    <2>3. <<"none", "draft">> \in Life!Moves
      BY DEF Life!Moves
    <2>4. Life!Move(g)
      BY <2>1, <2>2, <2>3, LifeMoves, TalksAt
    <2> QED
      BY <2>4
  <1>6. ASSUME NEW c \in Calls, CommitUpdate(c) PROVE UNCHANGED Life!vars
    <2>1. PICK g \in calls[c].guests :
            /\ inv' = [inv EXCEPT ![g].kind = calls[c].kind,
                                  ![g].email = IF calls[c].email = Nobody THEN inv[g].email ELSE calls[c].email]
            /\ UNCHANGED paper
      BY <1>6 DEF CommitUpdate
    <2> DEFINE k == calls[c].kind
               e == IF calls[c].email = Nobody THEN inv[g].email ELSE calls[c].email
    <2>2. inv' = [inv EXCEPT ![g].kind = k, ![g].email = e] /\ UNCHANGED paper
      BY <2>1
    <2> HIDE DEF k, e
    <2>3. \A h \in Guests : inv'[h].status = inv[h].status
      BY <1>0, <2>2 DEF Row
    <2> QED
      BY <2>2, <2>3, LifeStutters, TalksAt
  <1>7. ASSUME NEW c \in Calls, CommitRevoke(c) PROVE \E g \in Guests : Life!Move(g)
    <2>1. PICK g \in calls[c].guests :
            /\ calls[c].op = "revoking"
            /\ inv' = [inv EXCEPT ![g].status = "revoked"]
            /\ paper' = [paper EXCEPT ![g].status = IF @ = "none" THEN @ ELSE "withdrawn"]
      BY <1>7 DEF CommitRevoke
    <2>2. g \in Guests /\ inv[g].status \in Guest /\ inv[g] \in Row /\ paper[g] \in Paper
      BY <1>0, <2>1 DEF CallSound
    <2>3. inv'[g].status = "revoked" /\ \A h \in Guests : h # g => inv'[h] = inv[h]
      BY <1>0, <2>1, <2>2 DEF Row
    <2>4. paper'[g].status = (IF paper[g].status = "none" THEN "none" ELSE "withdrawn")
          /\ \A h \in Guests : h # g => paper'[h] = paper[h]
      BY <1>0, <2>1, <2>2 DEF Paper
    <2>5. <<inv[g].status, "revoked">> \in Life!Moves
      BY <2>2 DEF Life!Moves, Guest
    <2>6. talks'[g] = IF talks[g] = "live" THEN "withdrawn" ELSE talks[g]
      BY <2>2, <2>4, TalksAt
    <2>7. Life!Move(g)
      BY <2>2, <2>3, <2>4, <2>5, <2>6, LifeMoves, TalksAt
    <2> QED
      BY <2>2, <2>7
  <1>8. ASSUME NEW c \in Calls, CommitMailing(c) PROVE Life!Send
    <2> DEFINE S == {g \in Guests : inv[g].status = "draft" /\ inv'[g].status = "sent"}
               targets == {g \in calls[c].guests : inv[g].status \in Recipients(calls[c].op)}
    <2>1. /\ inv' = [g \in Guests |-> IF g \in targets /\ calls[c].op = "invite" /\ inv[g].status = "draft"
                                      THEN [inv[g] EXCEPT !.status = "sent"] ELSE inv[g]]
          /\ UNCHANGED paper
      BY <1>8 DEF CommitMailing
    <2>2. \A g \in Guests : inv'[g].status = IF g \in S THEN "sent" ELSE inv[g].status
      <3> TAKE g \in Guests
      <3>1. [inv[g] EXCEPT !.status = "sent"].status = "sent"
        BY <1>0 DEF Row
      <3> QED
        BY <2>1, <3>1
    <2>3. phases' = [g \in Guests |-> IF g \in S THEN "sent" ELSE phases[g]]
      BY <2>2 DEF phases
    <2>4. S \in SUBSET {g \in Guests : phases[g] = "draft"}
      BY DEF phases
    <2>5. talks' = talks
      BY <2>1 DEF talks
    <2> HIDE DEF S
    <2> QED
      BY <2>3, <2>4, <2>5 DEF Life!Send, phases, talks
  <1>9. ASSUME NEW c \in Calls, CommitAnswer(c) PROVE \E g \in Guests : Life!Move(g)
    <2> DEFINE call == calls[c]
    <2>1. PICK g \in call.guests :
            /\ inv[g].status = "sent"
            /\ \/ /\ \E u : inv' = [inv EXCEPT ![g].status = "accepted", ![g].user = u]
                  /\ \/ paper' = [paper EXCEPT ![g] = [NoPaper EXCEPT !.status = "awaiting_abstract"]]
                     \/ paper' = [paper EXCEPT ![g] = @]
               \/ /\ inv' = [inv EXCEPT ![g].status = "declined"]
                  /\ UNCHANGED paper
      <3> DEFINE user  == IF call.row.user = Nobody THEN call.row.email ELSE call.row.user
                 u(g)  == IF call.row.user = Nobody THEN user ELSE inv[g].user
      <3>1. PICK g \in call.guests :
              /\ inv[g].status = "sent"
              /\ IF call.accept
                 THEN /\ inv' = [inv EXCEPT ![g].status = "accepted", ![g].user = IF call.row.user = Nobody THEN user ELSE @]
                      /\ paper' = [paper EXCEPT ![g] = IF call.row.kind = "speaker"
                                                       THEN [NoPaper EXCEPT !.status = "awaiting_abstract"] ELSE @]
                 ELSE inv' = [inv EXCEPT ![g].status = "declined"] /\ UNCHANGED paper
        BY <1>9 DEF CommitAnswer, StillAsked
      <3>2. CASE call.accept
        <4>1. inv' = [inv EXCEPT ![g].status = "accepted", ![g].user = u(g)]
          BY <1>0, <3>1, <3>2
        <4> HIDE DEF u
        <4>2. \E v : inv' = [inv EXCEPT ![g].status = "accepted", ![g].user = v]
          BY <4>1
        <4>3. \/ paper' = [paper EXCEPT ![g] = [NoPaper EXCEPT !.status = "awaiting_abstract"]]
              \/ paper' = [paper EXCEPT ![g] = @]
          BY <3>1, <3>2
        <4> QED
          BY <3>1, <4>2, <4>3
      <3>3. CASE ~call.accept
        BY <3>1, <3>3
      <3> QED
        BY <3>2, <3>3
    <2>2. g \in Guests /\ inv[g] \in Row
      BY <1>0
    <2>3. CASE \E u : inv' = [inv EXCEPT ![g].status = "accepted", ![g].user = u]
      <3>1. PICK u : inv' = [inv EXCEPT ![g].status = "accepted", ![g].user = u]
        BY <2>3
      <3>2. inv'[g].status = "accepted" /\ \A h \in Guests : h # g => inv'[h] = inv[h]
        BY <1>0, <2>2, <3>1 DEF Row
      <3>3. <<"sent", "accepted">> \in Life!Moves
        BY DEF Life!Moves
      <3>4. paper' = paper \/ paper' = [paper EXCEPT ![g] = [NoPaper EXCEPT !.status = "awaiting_abstract"]]
        BY <1>0, <2>1, <2>2
      <3>5. [NoPaper EXCEPT !.status = "awaiting_abstract"].status = "awaiting_abstract"
        BY DEF NoPaper
      <3>6. /\ \A h \in Guests : h # g => paper'[h] = paper[h]
            /\ paper'[g] = paper[g] \/ paper'[g].status = "awaiting_abstract"
        BY <1>0, <2>2, <3>4, <3>5
      <3>7. talks'[g] = talks[g] \/ talks'[g] = "live"
        BY <2>2, <3>6, TalksAt
      <3>8. \A h \in Guests : h # g => talks'[h] = talks[h]
        BY <3>6, TalksAt
      <3>9. Life!Move(g)
        BY <2>1, <2>2, <3>2, <3>3, <3>7, <3>8, LifeMoves
      <3> QED
        BY <2>2, <3>9
    <2>4. CASE inv' = [inv EXCEPT ![g].status = "declined"] /\ UNCHANGED paper
      <3>1. inv'[g].status = "declined" /\ \A h \in Guests : h # g => inv'[h] = inv[h]
        BY <1>0, <2>2, <2>4 DEF Row
      <3>2. <<"sent", "declined">> \in Life!Moves
        BY DEF Life!Moves
      <3>3. \A h \in Guests : talks'[h] = talks[h]
        BY <2>4, TalksAt
      <3>4. Life!Move(g)
        BY <2>1, <2>2, <3>1, <3>2, <3>3, LifeMoves
      <3> QED
        BY <2>2, <3>4
    <2> QED
      BY <2>1, <2>3, <2>4
  <1>10. ASSUME NEW c \in Calls, CommitSubmit(c) PROVE UNCHANGED Life!vars
    <2> DEFINE st == paperStatusAfterSubmit(calls[c].paper.status, calls[c].text)
    <2>1. PICK g \in calls[c].guests :
            /\ calls[c].op = "submit"
            /\ paper' = [paper EXCEPT ![g].status = st, ![g].has = @ \cup {calls[c].text}, ![g].revise = @ \ {calls[c].text}]
            /\ UNCHANGED inv
      BY <1>10 DEF CommitSubmit
    <2>2. st \in {"abstract_submitted", "full_paper_submitted"}
      BY DEF paperStatusAfterSubmit
    <2> HIDE DEF st
    <2>3. g \in Guests /\ paper[g].status \in PaperOpen /\ paper[g] \in Paper
      BY <1>0, <2>1 DEF CallSound
    <2>4. paper'[g].status = st /\ \A h \in Guests : h # g => paper'[h] = paper[h]
      BY <1>0, <2>1, <2>3 DEF Paper
    <2>5. \A h \in Guests : talks'[h] = talks[h]
      BY <2>2, <2>3, <2>4, TalksAt DEF PaperOpen
    <2> QED
      BY <2>1, <2>5, LifeStutters
  <1>11. ASSUME NEW c \in Calls, CommitWithdraw(c) PROVE \E g \in Guests : Life!Withdraw(g)
    <2>1. PICK g \in calls[c].guests :
            /\ calls[c].op = "withdraw" /\ paper[g] = calls[c].paper
            /\ paper' = [paper EXCEPT ![g].status = "withdrawn", ![g].revise = {}]
            /\ UNCHANGED inv
      BY <1>11 DEF CommitWithdraw
    <2>2. g \in Guests /\ paper[g].status \in PaperOpen /\ inv[g].status = "accepted" /\ paper[g] \in Paper
      BY <1>0, <2>1 DEF CallSound, GuestSound, PaperOpen
    <2>3. paper'[g].status = "withdrawn" /\ \A h \in Guests : h # g => paper'[h] = paper[h]
      BY <1>0, <2>1, <2>2 DEF Paper
    <2>4. talks[g] = "live" /\ talks'[g] = "withdrawn" /\ \A h \in Guests : h # g => talks'[h] = talks[h]
      BY <2>2, <2>3, TalksAt DEF PaperOpen
    <2>5. Life!Withdraw(g)
      BY <2>1, <2>2, <2>4, LifeWithdraws
    <2> QED
      BY <2>2, <2>5
  <1>12. ASSUME NEW c \in Calls, CommitRevision(c) PROVE UNCHANGED Life!vars
    <2>1. PICK g \in calls[c].guests :
            /\ paper' = [paper EXCEPT ![g].revise = @ \cup {calls[c].text}] /\ UNCHANGED inv
      BY <1>12 DEF CommitRevision
    <2>2. \A h \in Guests : paper'[h].status = paper[h].status
      BY <1>0, <2>1 DEF Paper
    <2> QED
      BY <2>1, <2>2, LifeStutters, TalksAt
  <1>13. ASSUME NEW c \in Calls, CommitPublish(c) PROVE UNCHANGED Life!vars
    <2>1. /\ paper' = [g \in Guests |->
               IF paper[g].status \in Schedulable
               THEN [paper[g] EXCEPT !.status = IF g \in slots THEN "scheduled" ELSE "full_paper_submitted"]
               ELSE paper[g]]
          /\ UNCHANGED inv
      BY <1>13 DEF CommitPublish
    <2>2. ASSUME NEW g \in Guests PROVE talks'[g] = talks[g]
      <3>1. CASE paper[g].status \in Schedulable
        <4> DEFINE st == IF g \in slots THEN "scheduled" ELSE "full_paper_submitted"
        <4>1. paper'[g] = [paper[g] EXCEPT !.status = st] /\ paper[g] \in Paper
          BY <1>0, <2>1, <3>1
        <4>2. paper'[g].status = st
          BY <4>1 DEF Paper
        <4> QED
          BY <3>1, <4>2, TalksAt DEF Schedulable
      <3>2. CASE paper[g].status \notin Schedulable
        BY <2>1, <3>2, TalksAt
      <3> QED
        BY <3>1, <3>2
    <2> QED
      BY <2>1, <2>2, LifeStutters
  <1> QED
    BY <1>2, <1>3, <1>4, <1>5, <1>6, <1>7, <1>8, <1>9, <1>10, <1>11, <1>12, <1>13 DEF Next, Finish, Life!Next

(* Guests and papers live the life of GuestLife: an invitation is answered once, a talk begins with the *)
(* acceptance and does not outlive a revocation.                                                        *)
THEOREM ConferenceImplementsGuestLife == Spec => ImplementsGuestLife
  <1>1. Init => Life!Init
    BY LifeInit
  <1>2. ConfInv /\ [Next]_vars => [Life!Next]_(Life!vars)
    BY LifeStep
  <1> QED
    BY <1>1, <1>2, ConfInvHolds, PTL DEF Spec, ImplementsGuestLife, Life!Spec

=============================================================================
