--------------------------- MODULE StudentResearch ---------------------------
(* A student research project: registration, review, changes of supervisor and *)
(* unit, completion, and the documents kept for it                             *)
(* (student-research.service, student-research-access).  Every request reads   *)
(* the project and checks the rights first, and writes in a later transaction: *)
(* two actions, with the requests of others in between.  The content of a      *)
(* document goes to the object store before its record is written.             *)
EXTENDS Naturals, FiniteSets

CONSTANTS People,
          Registrants,  \* who may register a project of their own (REGISTRANT_ROLES)
          Supervisors,  \* accounts assertSupervisor accepts
          Staff,        \* RESEARCH_MANAGEMENT_STAFF
          Units, ScopeOf,  \* the units of the Academy, [Staff -> SUBSET Units]
          Files,        \* contents that are uploaded, each once
          Calls,        \* requests in flight
          None

ASSUME StudentAssumption ==
    /\ Registrants \subseteq Supervisors /\ Supervisors \subseteq People /\ Staff \subseteq People
    /\ ScopeOf \in [Staff -> SUBSET Units] /\ None \notin People \cup Units \cup Files

Statuses == {"ABSENT", "DRAFT", "SUBMITTED", "ACTIVE", "COMPLETED", "CANCELLED"}
Open     == {"DRAFT", "SUBMITTED", "ACTIVE"}  \* DOCUMENT_OPEN_STATUSES
Project  == [status : Statuses, supervisor : People \cup {None}, officer : Staff \cup {None},
             unit : Units \cup {None}]
Actions  == {"edit", "submit", "approve", "return", "cancel", "complete"}
\* "status" is what the request read; "fresh" holds while the version it read is the present one.
\* "supervisor" and "unit" are the values of an edit, "file" the document of an upload or deletion.
Call     == [op : Actions \cup {"idle", "upload", "delete"}, actor : People \cup {None},
             status : Statuses, fresh : BOOLEAN, supervisor : People \cup {None},
             unit : Units \cup {None}, file : Files \cup {None}]
\* student_research_events: the last one that concerns the project's own row.
Event    == [action : Actions \cup {"register", "create"}, actor : People \cup {None},
             from : Statuses, to : Statuses]

VARIABLES project, event, calls,
          records,   \* student_research_documents and file_records
          uploader,  \* uploadedById
          store,     \* the object store
          lost       \* contents whose removal never happened: a crash, or the store did not answer

vars == <<project, event, calls, records, uploader, store, lost>>

Idle == [op |-> "idle", actor |-> None, status |-> "ABSENT", fresh |-> FALSE,
         supervisor |-> None, unit |-> None, file |-> None]

\* Nothing yet, or a project from before projects had a unit: active, with an officer.
Init ==
    /\ \/ project = [status |-> "ABSENT", supervisor |-> None, officer |-> None, unit |-> None]
       \/ \E s \in Supervisors, o \in Staff :
             project = [status |-> "ACTIVE", supervisor |-> s, officer |-> o, unit |-> None]
    /\ event = [action |-> "register", actor |-> None, from |-> "ABSENT", to |-> "ABSENT"]
    /\ calls = [c \in Calls |-> Idle]
    /\ records = [f \in Files |-> "none"] /\ uploader = [f \in Files |-> None]
    /\ store = {} /\ lost = {}

-----------------------------------------------------------------------------
(* Who may do what: student-research-access *)

canManage(p) == p \in Staff /\ (project.officer = p \/ project.unit \in ScopeOf[p])
isSupervisor(p) == project.supervisor = p
manager(p) == project.status # "DRAFT" /\ canManage(p)

independentManager(p) == manager(p) /\ ~isSupervisor(p)

canStudentProject(p, action) ==
    CASE project.status = "DRAFT" ->
            action \in {"edit", "submit", "cancel"} /\ isSupervisor(p)
      [] project.status = "SUBMITTED" ->
            \/ action = "edit" /\ manager(p)
            \/ action \in {"approve", "return", "cancel"} /\ independentManager(p)
            \/ action = "cancel" /\ isSupervisor(p)
      [] project.status = "ACTIVE" ->
            \/ action = "edit" /\ manager(p)
            \/ action \in {"cancel", "complete"} /\ independentManager(p)
      [] OTHER -> FALSE

mayUpload(p) == project.status \in Open /\ (isSupervisor(p) \/ manager(p))

canDelete(p, f) ==
    mayUpload(p) /\ (uploader[f] = p \/ IF project.status = "DRAFT" THEN isSupervisor(p) ELSE canManage(p))

-----------------------------------------------------------------------------
(* The project *)

register(p, u) ==
    /\ project.status = "ABSENT" /\ p \in Registrants
    /\ project' = [status |-> "DRAFT", supervisor |-> p, officer |-> None, unit |-> u]
    /\ event' = [action |-> "register", actor |-> p, from |-> "ABSENT", to |-> "DRAFT"]
    /\ UNCHANGED <<calls, records, uploader, store, lost>>

\* Staff enter a project that was approved elsewhere.
create(p, s, u) ==
    /\ project.status = "ABSENT" /\ p \in Staff /\ u \in ScopeOf[p] /\ s \in Supervisors
    /\ project' = [status |-> "ACTIVE", supervisor |-> s, officer |-> p, unit |-> u]
    /\ event' = [action |-> "create", actor |-> p, from |-> "ABSENT", to |-> "ACTIVE"]
    /\ UNCHANGED <<calls, records, uploader, store, lost>>

Begin(c, op, p, s, u, f) ==
    /\ calls[c] = Idle
    /\ calls' = [calls EXCEPT ![c] = [op |-> op, actor |-> p, status |-> project.status,
                                     fresh |-> TRUE, supervisor |-> s, unit |-> u, file |-> f]]
    /\ UNCHANGED <<project, event, records, uploader, lost>>

\* The version sent with the request is the one the project has when it is read.  Fields that are
\* not sent keep their value; name, dates and code are left out.
BeginUpdate(c, p, s, u) ==
    /\ canStudentProject(p, "edit")
    /\ s # project.supervisor => manager(p) /\ ~isSupervisor(p) /\ s # p /\ s \in Supervisors
    /\ u # project.unit /\ manager(p) => u \in ScopeOf[p]
    /\ Begin(c, "edit", p, s, u, None) /\ UNCHANGED store

BeginTransition(c, p, action) ==
    /\ canStudentProject(p, action)
    /\ Begin(c, action, p, None, None, None) /\ UNCHANGED store

Target(c) == CASE calls[c].op = "submit" -> "SUBMITTED" [] calls[c].op = "approve" -> "ACTIVE"
               [] calls[c].op = "return" -> "DRAFT" [] calls[c].op = "cancel" -> "CANCELLED"
               [] calls[c].op = "complete" -> "COMPLETED" [] OTHER -> calls[c].status

\* Fault: only the status is compared.
guardedUpdate_Status(c) == project.status = calls[c].status

\* The row is written if its status and its version are those that were read.
guardedUpdate(c) == project.status = calls[c].status /\ calls[c].fresh

\* A write gives the project a new version.
Finish(c) == calls' = [d \in Calls |-> IF d = c THEN Idle ELSE [calls[d] EXCEPT !.fresh = FALSE]]
Leave(c) == calls' = [calls EXCEPT ![c] = Idle]

Write(c) ==
    /\ calls[c].op \in Actions /\ guardedUpdate(c)
    /\ LET call == calls[c] IN
         /\ project' = [project EXCEPT !.status = Target(c),
                            !.officer = IF call.op = "approve" THEN call.actor ELSE @,
                            !.supervisor = IF call.op = "edit" THEN call.supervisor ELSE @,
                            !.unit = IF call.op = "edit" THEN call.unit ELSE @]
         /\ event' = [action |-> call.op, actor |-> call.actor, from |-> call.status, to |-> Target(c)]
    /\ Finish(c)
    /\ UNCHANGED <<records, uploader, store, lost>>

\* CONTEXT_VERSION_MISMATCH, a code that is taken, or any failure of the transaction.
Refused(c) ==
    /\ calls[c].op \in Actions \cup {"delete"}
    /\ Leave(c)
    /\ UNCHANGED <<project, event, records, uploader, store, lost>>

-----------------------------------------------------------------------------
(* Documents *)

\* putObject, before anything is written to the database.
BeginUpload(c, p, f) ==
    /\ mayUpload(p)
    /\ records[f] = "none" /\ f \notin store \cup lost
    /\ \A d \in Calls : calls[d].file # f
    /\ Begin(c, "upload", p, None, None, f)
    /\ store' = store \cup {f}

\* Fault: the project is not looked at again.
StillOpen_Before(c) == TRUE

\* Under the lock of the project, which a change of status needs too.
StillOpen(c) == IF calls[c].op = "upload" THEN mayUpload(calls[c].actor)
                ELSE canDelete(calls[c].actor, calls[c].file)

uploadDocument(c) ==
    /\ calls[c].op = "upload" /\ StillOpen(c)
    /\ records' = [records EXCEPT ![calls[c].file] = "active"]
    /\ uploader' = [uploader EXCEPT ![calls[c].file] = calls[c].actor]
    /\ Leave(c)
    /\ UNCHANGED <<project, event, store, lost>>

\* Fault: the content is left behind.
Removed_Kept(f) == store

Removed(f) == store \ {f}

\* The transaction is refused or fails: the content is removed again.
UploadFails(c) ==
    /\ calls[c].op = "upload"
    /\ store' = Removed(calls[c].file)
    /\ Leave(c)
    /\ UNCHANGED <<project, event, records, uploader, lost>>

\* The server stops, or the store does not remove the content.
UploadLost(c) ==
    /\ calls[c].op = "upload"
    /\ lost' = lost \cup {calls[c].file}
    /\ Leave(c)
    /\ UNCHANGED <<project, event, records, uploader, store>>

BeginDelete(c, p, f) ==
    /\ records[f] = "active" /\ canDelete(p, f)
    /\ Begin(c, "delete", p, None, None, f) /\ UNCHANGED store

\* The record of the file stays, marked as deleted; its content too.
deleteDocument(c) ==
    /\ calls[c].op = "delete" /\ records[calls[c].file] = "active" /\ StillOpen(c)
    /\ records' = [records EXCEPT ![calls[c].file] = "deleted"]
    /\ Leave(c)
    /\ UNCHANGED <<project, event, uploader, store, lost>>

-----------------------------------------------------------------------------
Requests == \E c \in Calls, p \in People :
    \/ \E s \in Supervisors \cup {project.supervisor}, u \in Units \cup {project.unit} : BeginUpdate(c, p, s, u)
    \/ \E a \in Actions \ {"edit"} : BeginTransition(c, p, a)
    \/ \E f \in Files : BeginUpload(c, p, f) \/ BeginDelete(c, p, f)

Transactions == \E c \in Calls :
    Write(c) \/ Refused(c) \/ uploadDocument(c) \/ UploadFails(c) \/ UploadLost(c) \/ deleteDocument(c)

Next == \/ \E p \in People, u \in Units : register(p, u) \/ \E s \in People : create(p, s, u)
        \/ Requests \/ Transactions

Spec == Init /\ [][Next]_vars

-----------------------------------------------------------------------------
(* Properties *)

TypeOK ==
    /\ project \in Project /\ event \in Event /\ calls \in [Calls -> Call]
    /\ records \in [Files -> {"none", "active", "deleted"}]
    /\ uploader \in [Files -> People \cup {None}]
    /\ store \subseteq Files /\ lost \subseteq Files

\* A project is approved, returned and completed, and once active cancelled, by somebody of the
\* staff who does not supervise it at that moment, though the supervisor may be replaced between
\* the check and the write, by the very person who is to judge.
JudgedByThirdPerson ==
    [][project' # project
       /\ (\/ event'.action \in {"approve", "return", "complete"}
           \/ event'.action = "cancel" /\ project.status = "ACTIVE")
            => event'.actor \in Staff /\ event'.actor # project.supervisor]_vars

\* A project that is completed or cancelled stays as it is, with the documents it then has, even
\* for the requests that were checked while it was open.
FinishedStays ==
    [][project.status \in {"COMPLETED", "CANCELLED"} => project' = project /\ records' = records]_vars

\* A document that is listed has its content; a content without a document is on its way in, was
\* deleted from the list, or was lost in a crash, and no failed request leaves one behind.
ContentAccounted ==
    /\ \A f \in Files : records[f] # "none" => f \in store
    /\ \A f \in store : \/ records[f] # "none" \/ f \in lost
                        \/ \E c \in Calls : calls[c].op = "upload" /\ calls[c].file = f
=============================================================================
