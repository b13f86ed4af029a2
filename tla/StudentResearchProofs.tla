------------------------- MODULE StudentResearchProofs -------------------------
(* The safety of StudentResearch for any people, units, contents and number of *)
(* requests in flight.                                                         *)
EXTENDS StudentResearch, TLAPS

(* A request that judges: it approves, returns, completes, or cancels what is active. *)
Judges(call) == call.op \in {"approve", "return", "complete"} \/ (call.op = "cancel" /\ call.status = "ACTIVE")

(* While the version a judging request read is the present one, its author is  *)
(* of the staff and not the supervisor.                                        *)
Judging == \A c \in Calls :
    /\ calls[c].op = "approve" => calls[c].actor \in Staff
    /\ calls[c].fresh /\ Judges(calls[c]) => calls[c].actor \in Staff /\ calls[c].actor # project.supervisor

(* What may still change the project was checked while it was open. *)
Checked == \A c \in Calls : calls[c].op \in Actions => calls[c].status \in Open

(* There are no requests before there is a project. *)
Begun == project.status = "ABSENT" => \A c \in Calls : calls[c].op = "idle"

(* An upload in flight has its content in the store, no record yet, and is the *)
(* only one of that content.                                                   *)
Uploading == \A c \in Calls :
    /\ calls[c].op \in {"upload", "delete"} => calls[c].file \in Files /\ calls[c].actor \in People
    /\ calls[c].op = "upload" =>
          /\ calls[c].file \in store /\ records[calls[c].file] = "none"
          /\ \A d \in Calls : calls[d].op = "upload" /\ calls[d].file = calls[c].file => d = c

StudentInv == TypeOK /\ Judging /\ Checked /\ Begun /\ Uploading /\ ContentAccounted

LEMMA InitInv == Init => StudentInv
  <1> SUFFICES ASSUME Init PROVE StudentInv
    OBVIOUS
  <1> USE StudentAssumption
  <1>1. \A c \in Calls : calls[c] = Idle
    BY DEF Init
  <1>2. Idle \in Call /\ Idle.op = "idle" /\ Idle.fresh = FALSE
    BY DEF Idle, Call, Statuses
  <1>3. project \in Project
    BY DEF Init, Project, Statuses
  <1>4. TypeOK
    BY <1>2, <1>3 DEF Init, TypeOK, Event, Statuses
  <1>5. Judging /\ Checked /\ Begun /\ Uploading
    BY <1>1, <1>2 DEF Judging, Checked, Begun, Uploading, Actions
  <1>6. ContentAccounted
    BY DEF Init, ContentAccounted
  <1> QED
    BY <1>4, <1>5, <1>6 DEF StudentInv

(* The two ways a project begins *)
LEMMA StartPreserves ==
  ASSUME StudentInv, NEW p \in People, NEW u \in Units, NEW s \in People, register(p, u) \/ create(p, s, u)
  PROVE  StudentInv'
  <1> USE StudentAssumption
  <1>1. UNCHANGED <<calls, records, uploader, store, lost>> /\ project.status = "ABSENT"
    BY DEF register, create
  <1>2. project' \in Project /\ project'.status # "ABSENT" /\ event' \in Event
    BY DEF register, create, Project, Event, Statuses
  <1>3. \A c \in Calls : calls[c].op = "idle"
    BY <1>1 DEF StudentInv, Begun
  <1>4. TypeOK'
    BY <1>1, <1>2 DEF StudentInv, TypeOK
  <1>5. Judging' /\ Checked' /\ Begun' /\ Uploading'
    BY <1>1, <1>2, <1>3 DEF Judging, Judges, Checked, Begun, Uploading, Actions
  <1>6. ContentAccounted'
    BY <1>1 DEF StudentInv, ContentAccounted
  <1> QED
    BY <1>4, <1>5, <1>6 DEF StudentInv

(* What a request that begins has, and that the others keep what they have. *)
LEMMA BeginFacts ==
  ASSUME StudentInv, NEW c \in Calls, NEW op \in Actions \cup {"upload", "delete"}, NEW p \in People,
         NEW s \in People \cup {None}, NEW u \in Units \cup {None}, NEW f \in Files \cup {None},
         Begin(c, op, p, s, u, f)
  PROVE  /\ UNCHANGED <<project, event, records, uploader, lost>>
         /\ calls' \in [Calls -> Call]
         /\ calls'[c] = [op |-> op, actor |-> p, status |-> project.status, fresh |-> TRUE,
                         supervisor |-> s, unit |-> u, file |-> f]
         /\ \A d \in Calls \ {c} : calls'[d] = calls[d]
         /\ calls[c] = Idle
  <1> USE StudentAssumption
  <1>1. project.status \in Statuses /\ calls \in [Calls -> Call]
    BY DEF StudentInv, TypeOK, Project
  <1>2. [op |-> op, actor |-> p, status |-> project.status, fresh |-> TRUE,
         supervisor |-> s, unit |-> u, file |-> f] \in Call
    BY <1>1 DEF Call
  <1> QED
    BY <1>1, <1>2 DEF Begin

LEMMA UpdateBegins ==
  ASSUME StudentInv, NEW c \in Calls, NEW p \in People, NEW s \in Supervisors \cup {project.supervisor},
         NEW u \in Units \cup {project.unit}, BeginUpdate(c, p, s, u)
  PROVE  StudentInv'
  <1> USE StudentAssumption
  <1>1. s \in People \cup {None} /\ u \in Units \cup {None} /\ "edit" \in Actions
    BY DEF StudentInv, TypeOK, Project, Actions
  <1>2. project.status \in Open
    BY DEF BeginUpdate, canStudentProject, Open
  <1>3. Begin(c, "edit", p, s, u, None) /\ UNCHANGED store
    BY DEF BeginUpdate
  <1>4. /\ UNCHANGED <<project, event, records, uploader, lost>> /\ calls' \in [Calls -> Call]
        /\ calls'[c].op = "edit" /\ calls'[c].status = project.status /\ calls[c] = Idle
        /\ \A d \in Calls \ {c} : calls'[d] = calls[d]
    <2>1. calls'[c] = [op |-> "edit", actor |-> p, status |-> project.status, fresh |-> TRUE,
                       supervisor |-> s, unit |-> u, file |-> None]
      BY <1>1, <1>3, BeginFacts
    <2> QED
      BY <1>1, <1>3, <2>1, BeginFacts
  <1>5. TypeOK'
    BY <1>3, <1>4 DEF StudentInv, TypeOK
  <1>6. Judging'
    BY <1>4 DEF StudentInv, Judging, Judges
  <1>7. Checked' /\ Begun'
    BY <1>2, <1>4 DEF StudentInv, Checked, Begun, Open
  <1>8. Uploading'
    BY <1>3, <1>4 DEF StudentInv, Uploading
  <1>9. ContentAccounted'
    BY <1>3, <1>4 DEF StudentInv, ContentAccounted, Idle
  <1> QED
    BY <1>5, <1>6, <1>7, <1>8, <1>9 DEF StudentInv

(* Who may judge is of the staff and does not supervise the project. *)
LEMMA MayJudge ==
  ASSUME NEW p, NEW action \in Actions, canStudentProject(p, action)
  PROVE  /\ project.status \in Open
         /\ \/ action \in {"approve", "return", "complete"}
            \/ action = "cancel" /\ project.status = "ACTIVE"
            => p \in Staff /\ p # project.supervisor
  BY DEF canStudentProject, independentManager, manager, canManage, isSupervisor, Open, Actions

LEMMA TransitionBegins ==
  ASSUME StudentInv, NEW c \in Calls, NEW p \in People, NEW a \in Actions \ {"edit"}, BeginTransition(c, p, a)
  PROVE  StudentInv'
  <1> USE StudentAssumption
  <1>1. canStudentProject(p, a) /\ Begin(c, a, p, None, None, None) /\ UNCHANGED store
    BY DEF BeginTransition
  <1>2. /\ UNCHANGED <<project, event, records, uploader, lost>> /\ calls' \in [Calls -> Call]
        /\ calls'[c].op = a /\ calls'[c].status = project.status /\ calls'[c].actor = p /\ calls[c] = Idle
        /\ \A d \in Calls \ {c} : calls'[d] = calls[d]
    <2>1. calls'[c] = [op |-> a, actor |-> p, status |-> project.status, fresh |-> TRUE,
                       supervisor |-> None, unit |-> None, file |-> None]
      BY <1>1, BeginFacts
    <2> QED
      BY <1>1, <2>1, BeginFacts
  <1>3. TypeOK'
    BY <1>1, <1>2 DEF StudentInv, TypeOK
  <1>4. Judging'
    <2>1. calls'[c].op = "approve" => calls'[c].actor \in Staff
      BY <1>1, <1>2, MayJudge
    <2>2. Judges(calls'[c]) => calls'[c].actor \in Staff /\ calls'[c].actor # project.supervisor
      BY <1>1, <1>2, MayJudge DEF Judges
    <2> QED
      BY <1>2, <2>1, <2>2 DEF StudentInv, Judging, Judges
  <1>5. Checked' /\ Begun'
    BY <1>1, <1>2, MayJudge DEF StudentInv, Checked, Begun, Open
  <1>6. Uploading'
    BY <1>1, <1>2 DEF StudentInv, Uploading, Actions
  <1>7. ContentAccounted'
    BY <1>1, <1>2 DEF StudentInv, ContentAccounted, Idle
  <1> QED
    BY <1>3, <1>4, <1>5, <1>6, <1>7 DEF StudentInv

LEMMA UploadBegins ==
  ASSUME StudentInv, NEW c \in Calls, NEW p \in People, NEW f \in Files, BeginUpload(c, p, f)
  PROVE  StudentInv'
  <1> USE StudentAssumption
  <1>1. project.status \in Open /\ records[f] = "none" /\ f \notin store /\ store' = store \cup {f}
        /\ Begin(c, "upload", p, None, None, f) /\ \A d \in Calls : calls[d].file # f
    BY DEF BeginUpload, mayUpload
  <1>2. /\ UNCHANGED <<project, event, records, uploader, lost>> /\ calls' \in [Calls -> Call]
        /\ calls'[c].op = "upload" /\ calls'[c].file = f /\ calls'[c].actor = p /\ calls[c] = Idle
        /\ \A d \in Calls \ {c} : calls'[d] = calls[d]
    <2>1. calls'[c] = [op |-> "upload", actor |-> p, status |-> project.status, fresh |-> TRUE,
                       supervisor |-> None, unit |-> None, file |-> f]
      BY <1>1, BeginFacts
    <2> QED
      BY <1>1, <2>1, BeginFacts
  <1>3. TypeOK'
    BY <1>1, <1>2 DEF StudentInv, TypeOK
  <1>4. Judging'
    BY <1>2 DEF StudentInv, Judging, Judges
  <1>5. Checked' /\ Begun'
    BY <1>1, <1>2 DEF StudentInv, Checked, Begun, Open, Actions
  <1>6. Uploading'
    BY <1>1, <1>2 DEF StudentInv, Uploading
  <1>7. ContentAccounted'
    BY <1>1, <1>2 DEF StudentInv, ContentAccounted, Idle
  <1> QED
    BY <1>3, <1>4, <1>5, <1>6, <1>7 DEF StudentInv

LEMMA DeleteBegins ==
  ASSUME StudentInv, NEW c \in Calls, NEW p \in People, NEW f \in Files, BeginDelete(c, p, f)
  PROVE  StudentInv'
  <1> USE StudentAssumption
  <1>1. project.status \in Open /\ UNCHANGED store /\ Begin(c, "delete", p, None, None, f)
    BY DEF BeginDelete, canDelete, mayUpload
  <1>2. /\ UNCHANGED <<project, event, records, uploader, lost>> /\ calls' \in [Calls -> Call]
        /\ calls'[c].op = "delete" /\ calls'[c].file = f /\ calls'[c].actor = p /\ calls[c] = Idle
        /\ \A d \in Calls \ {c} : calls'[d] = calls[d]
    <2>1. calls'[c] = [op |-> "delete", actor |-> p, status |-> project.status, fresh |-> TRUE,
                       supervisor |-> None, unit |-> None, file |-> f]
      BY <1>1, BeginFacts
    <2> QED
      BY <1>1, <2>1, BeginFacts
  <1>3. TypeOK'
    BY <1>1, <1>2 DEF StudentInv, TypeOK
  <1>4. Judging'
    BY <1>2 DEF StudentInv, Judging, Judges
  <1>5. Checked' /\ Begun'
    BY <1>1, <1>2 DEF StudentInv, Checked, Begun, Open, Actions
  <1>6. Uploading'
    BY <1>1, <1>2 DEF StudentInv, Uploading
  <1>7. ContentAccounted'
    BY <1>1, <1>2 DEF StudentInv, ContentAccounted, Idle
  <1> QED
    BY <1>3, <1>4, <1>5, <1>6, <1>7 DEF StudentInv

(* The write: what others read is no longer the present version. *)
LEMMA WritePreserves ==
  ASSUME StudentInv, NEW c \in Calls, Write(c)
  PROVE  StudentInv'
  <1> USE StudentAssumption
  <1>1. calls[c] \in Call /\ project \in Project /\ calls \in [Calls -> Call]
    BY DEF StudentInv, TypeOK
  <1>2. calls[c].op \in Actions /\ project.status = calls[c].status /\ Finish(c)
        /\ UNCHANGED <<records, uploader, store, lost>>
    BY DEF Write, guardedUpdate
  <1>3. calls[c].status \in Open /\ Target(c) \in Statuses /\ Target(c) # "ABSENT"
    BY <1>1, <1>2 DEF StudentInv, Checked, Target, Open, Statuses, Actions
  <1>4. calls[c].op = "approve" => calls[c].actor \in Staff
    BY DEF StudentInv, Judging
  <1>5. project' \in Project /\ project'.status = Target(c)
    <2>1. /\ calls[c].actor \in People \cup {None} /\ calls[c].supervisor \in People \cup {None}
          /\ calls[c].unit \in Units \cup {None} /\ project.officer \in Staff \cup {None}
          /\ project.supervisor \in People \cup {None} /\ project.unit \in Units \cup {None}
      BY <1>1 DEF Call, Project
    <2> DEFINE o == IF calls[c].op = "approve" THEN calls[c].actor ELSE project.officer
               s == IF calls[c].op = "edit" THEN calls[c].supervisor ELSE project.supervisor
               u == IF calls[c].op = "edit" THEN calls[c].unit ELSE project.unit
    <2>2. o \in Staff \cup {None} /\ s \in People \cup {None} /\ u \in Units \cup {None}
      BY <2>1, <1>4
    <2>3. project' = [project EXCEPT !.status = Target(c), !.officer = o, !.supervisor = s, !.unit = u]
      BY DEF Write
    <2> HIDE DEF o, s, u
    <2>4. project' = [status |-> Target(c), supervisor |-> s, officer |-> o, unit |-> u]
      BY <1>1, <2>3 DEF Project
    <2> QED
      BY <1>3, <2>2, <2>4 DEF Project
  <1>6. event' \in Event
    BY <1>1, <1>2, <1>3 DEF Write, Event, Call, Open, Statuses
  <1>7. Idle \in Call /\ Idle.op = "idle" /\ Idle.fresh = FALSE
    BY DEF Idle, Call, Statuses
  <1>8. \A d \in Calls : calls'[d] = IF d = c THEN Idle ELSE [calls[d] EXCEPT !.fresh = FALSE]
    BY <1>2 DEF Finish
  <1>9. \A d \in Calls : /\ calls'[d] \in Call /\ calls'[d].fresh = FALSE
                         /\ d # c => /\ calls'[d].op = calls[d].op /\ calls'[d].status = calls[d].status
                                     /\ calls'[d].actor = calls[d].actor /\ calls'[d].file = calls[d].file
                         /\ d = c => calls'[d].op = "idle"
    <2>1. ASSUME NEW d \in Calls, d # c
          PROVE calls'[d] \in Call /\ calls'[d].fresh = FALSE /\ calls'[d].op = calls[d].op
                /\ calls'[d].status = calls[d].status /\ calls'[d].actor = calls[d].actor /\ calls'[d].file = calls[d].file
      <3>1. calls[d] \in Call /\ calls'[d] = [calls[d] EXCEPT !.fresh = FALSE]
        BY <1>1, <1>8, <2>1
      <3> QED
        BY <3>1 DEF Call
    <2> QED
      BY <1>7, <1>8, <2>1
  <1>10. calls' \in [Calls -> Call]
    BY <1>2, <1>9 DEF Finish
  <1>11. TypeOK'
    BY <1>2, <1>5, <1>6, <1>10 DEF StudentInv, TypeOK
  <1>12. Judging'
    BY <1>9 DEF StudentInv, Judging
  <1>13. Checked' /\ Begun'
    BY <1>3, <1>5, <1>9 DEF StudentInv, Checked, Begun, Actions
  <1>14. Uploading'
    BY <1>2, <1>9 DEF StudentInv, Uploading
  <1>15. ContentAccounted'
    BY <1>2, <1>9 DEF StudentInv, ContentAccounted, Actions
  <1> QED
    BY <1>11, <1>12, <1>13, <1>14, <1>15 DEF StudentInv

(* A request that ends without a write to the project. *)
LEMMA LeaveFacts ==
  ASSUME StudentInv, NEW c \in Calls, Leave(c), UNCHANGED <<project, event>>
  PROVE  /\ calls' \in [Calls -> Call] /\ calls'[c].op = "idle"
         /\ \A d \in Calls \ {c} : calls'[d] = calls[d]
         /\ Judging' /\ Checked' /\ Begun'
  <1> USE StudentAssumption
  <1>1. calls \in [Calls -> Call] /\ Idle \in Call /\ Idle.op = "idle" /\ Idle.fresh = FALSE
    BY DEF StudentInv, TypeOK, Idle, Call, Statuses
  <1>2. calls' \in [Calls -> Call] /\ calls'[c] = Idle /\ \A d \in Calls \ {c} : calls'[d] = calls[d]
    BY <1>1 DEF Leave
  <1>3. Judging'
    BY <1>1, <1>2 DEF StudentInv, Judging, Judges
  <1>4. Checked' /\ Begun'
    BY <1>1, <1>2 DEF StudentInv, Checked, Begun, Actions
  <1> QED
    BY <1>1, <1>2, <1>3, <1>4

LEMMA RefusedPreserves ==
  ASSUME StudentInv, NEW c \in Calls, Refused(c)
  PROVE  StudentInv'
  <1>1. calls[c].op # "upload" /\ Leave(c) /\ UNCHANGED <<project, event, records, uploader, store, lost>>
    BY DEF Refused, Actions
  <1>2. TypeOK'
    BY <1>1, LeaveFacts DEF StudentInv, TypeOK
  <1>3. Uploading'
    BY <1>1, LeaveFacts DEF StudentInv, Uploading
  <1>4. ContentAccounted'
    BY <1>1, LeaveFacts DEF StudentInv, ContentAccounted
  <1> QED
    BY <1>1, <1>2, <1>3, <1>4, LeaveFacts DEF StudentInv

LEMMA UploadPreserves ==
  ASSUME StudentInv, NEW c \in Calls, uploadDocument(c)
  PROVE  StudentInv'
  <1> DEFINE f == calls[c].file
  <1>1. calls[c].op = "upload" /\ Leave(c) /\ UNCHANGED <<project, event, store, lost>>
        /\ records' = [records EXCEPT ![f] = "active"] /\ uploader' = [uploader EXCEPT ![f] = calls[c].actor]
    BY DEF uploadDocument
  <1>2. f \in Files /\ calls[c].actor \in People /\ f \in store
        /\ \A d \in Calls : calls[d].op = "upload" /\ calls[d].file = f => d = c
    BY <1>1 DEF StudentInv, Uploading
  <1> HIDE DEF f
  <1>3. TypeOK'
    BY <1>1, <1>2, LeaveFacts DEF StudentInv, TypeOK
  <1>4. \A g \in Files : records'[g] = IF g = f THEN "active" ELSE records[g]
    BY <1>1 DEF StudentInv, TypeOK
  <1>5. Uploading'
    BY <1>1, <1>2, <1>4, LeaveFacts DEF StudentInv, Uploading
  <1>6. ContentAccounted'
    <2>1. \A g \in Files : records'[g] # "none" => g \in store'
      BY <1>1, <1>2, <1>4 DEF StudentInv, ContentAccounted
    <2>2. store \subseteq Files
      BY DEF StudentInv, TypeOK
    <2>3. \A g \in store : g # f => \/ records[g] # "none" \/ g \in lost
                                    \/ \E d \in Calls \ {c} : calls[d].op = "upload" /\ calls[d].file = g
      BY DEF StudentInv, ContentAccounted, f
    <2> QED
      BY <1>1, <1>4, <2>1, <2>2, <2>3, LeaveFacts DEF ContentAccounted
  <1> QED
    BY <1>1, <1>3, <1>5, <1>6, LeaveFacts DEF StudentInv

LEMMA UploadFailsPreserves ==
  ASSUME StudentInv, NEW c \in Calls, UploadFails(c)
  PROVE  StudentInv'
  <1> DEFINE f == calls[c].file
  <1>1. calls[c].op = "upload" /\ Leave(c) /\ UNCHANGED <<project, event, records, uploader, lost>>
        /\ store' = store \ {f}
    BY DEF UploadFails, Removed
  <1>2. f \in Files /\ records[f] = "none" /\ \A d \in Calls : calls[d].op = "upload" /\ calls[d].file = f => d = c
    BY <1>1 DEF StudentInv, Uploading
  <1>3. \A g \in store : g # f => \/ records[g] # "none" \/ g \in lost
                                  \/ \E d \in Calls \ {c} : calls[d].op = "upload" /\ calls[d].file = g
    BY DEF StudentInv, ContentAccounted
  <1> HIDE DEF f
  <1>4. TypeOK'
    BY <1>1, LeaveFacts DEF StudentInv, TypeOK
  <1>5. Uploading'
    BY <1>1, <1>2, LeaveFacts DEF StudentInv, Uploading
  <1>6. \A g \in Files : records'[g] # "none" => g \in store'
    BY <1>1, <1>2 DEF StudentInv, ContentAccounted
  <1>7. ContentAccounted'
    BY <1>1, <1>3, <1>6, LeaveFacts DEF ContentAccounted
  <1> QED
    BY <1>1, <1>4, <1>5, <1>7, LeaveFacts DEF StudentInv

LEMMA UploadLostPreserves ==
  ASSUME StudentInv, NEW c \in Calls, UploadLost(c)
  PROVE  StudentInv'
  <1> DEFINE f == calls[c].file
  <1>1. calls[c].op = "upload" /\ Leave(c) /\ UNCHANGED <<project, event, records, uploader, store>>
        /\ lost' = lost \cup {f}
    BY DEF UploadLost
  <1>2. f \in Files
    BY <1>1 DEF StudentInv, Uploading
  <1>3. \A g \in store : g # f => \/ records[g] # "none" \/ g \in lost
                                  \/ \E d \in Calls \ {c} : calls[d].op = "upload" /\ calls[d].file = g
    BY DEF StudentInv, ContentAccounted
  <1> HIDE DEF f
  <1>4. TypeOK'
    BY <1>1, <1>2, LeaveFacts DEF StudentInv, TypeOK
  <1>5. Uploading'
    BY <1>1, LeaveFacts DEF StudentInv, Uploading
  <1>6. \A g \in Files : records'[g] # "none" => g \in store'
    BY <1>1 DEF StudentInv, ContentAccounted
  <1>7. ContentAccounted'
    BY <1>1, <1>3, <1>6, LeaveFacts DEF ContentAccounted
  <1> QED
    BY <1>1, <1>4, <1>5, <1>7, LeaveFacts DEF StudentInv

LEMMA DeletePreserves ==
  ASSUME StudentInv, NEW c \in Calls, deleteDocument(c)
  PROVE  StudentInv'
  <1> DEFINE f == calls[c].file
  <1>1. calls[c].op = "delete" /\ records[f] = "active" /\ Leave(c) /\ UNCHANGED <<project, event, uploader, store, lost>>
        /\ records' = [records EXCEPT ![f] = "deleted"]
    BY DEF deleteDocument
  <1>2. f \in Files
    BY <1>1 DEF StudentInv, Uploading
  <1> HIDE DEF f
  <1>3. \A g \in Files : records'[g] = IF g = f THEN "deleted" ELSE records[g]
    BY <1>1 DEF StudentInv, TypeOK
  <1>4. TypeOK'
    BY <1>1, <1>2, LeaveFacts DEF StudentInv, TypeOK
  <1>5. Uploading'
    BY <1>1, <1>2, <1>3, LeaveFacts DEF StudentInv, Uploading
  <1>6. \A g \in Files : records'[g] # "none" => g \in store'
    BY <1>1, <1>3 DEF StudentInv, ContentAccounted
  <1>7. store \subseteq Files
    BY DEF StudentInv, TypeOK
  <1>8. \A g \in store : \/ records[g] # "none" \/ g \in lost
                         \/ \E d \in Calls \ {c} : calls[d].op = "upload" /\ calls[d].file = g
    BY <1>1 DEF StudentInv, ContentAccounted
  <1>9. ContentAccounted'
    BY <1>1, <1>3, <1>6, <1>7, <1>8, LeaveFacts DEF ContentAccounted
  <1> QED
    BY <1>1, <1>4, <1>5, <1>9, LeaveFacts DEF StudentInv

(* Every step *)
LEMMA NextInv == StudentInv /\ [Next]_vars => StudentInv'
  <1> SUFFICES ASSUME StudentInv, [Next]_vars PROVE StudentInv'
    OBVIOUS
  <1>1. ASSUME NEW p \in People, NEW u \in Units, register(p, u) \/ \E s \in People : create(p, s, u) PROVE StudentInv'
    BY <1>1, StartPreserves
  <1>2. ASSUME Requests PROVE StudentInv'
    BY <1>2, UpdateBegins, TransitionBegins, UploadBegins, DeleteBegins DEF Requests
  <1>3. ASSUME Transactions PROVE StudentInv'
    BY <1>3, WritePreserves, RefusedPreserves, UploadPreserves, UploadFailsPreserves, UploadLostPreserves,
       DeletePreserves DEF Transactions
  <1>4. CASE UNCHANGED vars
    BY <1>4 DEF vars, StudentInv, TypeOK, Judging, Judges, Checked, Begun, Uploading, ContentAccounted
  <1> QED
    BY <1>1, <1>2, <1>3, <1>4 DEF Next

THEOREM StudentInvHolds == Spec => []StudentInv
  BY InitInv, NextInv, PTL DEF Spec

(* The types of a student project. *)
THEOREM StudentTypeCorrect == Spec => []TypeOK
  <1>1. StudentInv => TypeOK
    BY DEF StudentInv
  <1> QED
    BY <1>1, StudentInvHolds, PTL

(* Every listed document has its content and every content is accounted for. *)
THEOREM ContentIsAccounted == Spec => []ContentAccounted
  <1>1. StudentInv => ContentAccounted
    BY DEF StudentInv
  <1> QED
    BY <1>1, StudentInvHolds, PTL

(* Nobody approves, returns, completes or cancels the active project they supervise. *)
THEOREM JudgedByAThird == Spec => JudgedByThirdPerson
  <1> DEFINE Rule == project' # project
                     /\ (\/ event'.action \in {"approve", "return", "complete"}
                         \/ event'.action = "cancel" /\ project.status = "ACTIVE")
                     => event'.actor \in Staff /\ event'.actor # project.supervisor
  <1>1. StudentInv /\ [Next]_vars => Rule
    <2> SUFFICES ASSUME StudentInv, [Next]_vars PROVE Rule
      OBVIOUS
    <2>1. ASSUME NEW c \in Calls, Write(c) PROVE Rule
      <3>1. calls[c].fresh /\ project.status = calls[c].status
            /\ event'.action = calls[c].op /\ event'.actor = calls[c].actor
        BY <2>1 DEF Write, guardedUpdate
      <3>2. Judges(calls[c]) => calls[c].actor \in Staff /\ calls[c].actor # project.supervisor
        BY <3>1 DEF StudentInv, Judging
      <3> QED
        BY <3>1, <3>2 DEF Judges
    <2>2. ASSUME NEW p \in People, NEW u \in Units, register(p, u) \/ \E s \in People : create(p, s, u) PROVE Rule
      BY <2>2 DEF register, create
    <2>3. CASE UNCHANGED project
      BY <2>3
    <2> QED
      BY <2>1, <2>2, <2>3 DEF Next, Requests, Transactions, vars, BeginUpdate, BeginTransition, BeginUpload, BeginDelete,
         Begin, Refused, uploadDocument, UploadFails, UploadLost, deleteDocument
  <1> QED
    BY <1>1, StudentInvHolds, PTL DEF Spec, JudgedByThirdPerson

(* A finished project stays as it is, with the documents it has. *)
THEOREM FinishedIsFinal == Spec => FinishedStays
  <1> DEFINE Rule == project.status \in {"COMPLETED", "CANCELLED"} => project' = project /\ records' = records
  <1>1. StudentInv /\ [Next]_vars => Rule
    <2> SUFFICES ASSUME StudentInv, [Next]_vars, project.status \in {"COMPLETED", "CANCELLED"}
                 PROVE project' = project /\ records' = records
      OBVIOUS
    <2>1. project.status \notin Open /\ project.status # "ABSENT"
      BY DEF Open
    <2>2. ASSUME NEW c \in Calls PROVE ~Write(c)
      BY <2>1 DEF StudentInv, Checked, Write, guardedUpdate
    <2>3. ASSUME NEW c \in Calls PROVE ~uploadDocument(c) /\ ~deleteDocument(c)
      BY <2>1 DEF uploadDocument, deleteDocument, StillOpen, canDelete, mayUpload
    <2>4. CASE UNCHANGED <<project, records>>
      BY <2>4
    <2> QED
      BY <2>1, <2>2, <2>3, <2>4 DEF Next, Requests, Transactions, vars, BeginUpdate, BeginTransition, BeginUpload,
         BeginDelete, Begin, Refused, UploadFails, UploadLost, register, create
  <1> QED
    BY <1>1, StudentInvHolds, PTL DEF Spec, FinishedStays
================================================================================
