------------------------------- MODULE Accounts -------------------------------
(* One account: its password, sign-in with a code sent by mail, sessions,     *)
(* links that reset the password or activate the account, and what an         *)
(* administrator does to it (auth/ and admin/admin-users.service of the API), *)
(* and the activation link a conference issues for an invited guest.          *)
(* Requests read first and write later, so most are two steps. The password   *)
(* hash changes exactly when credential_version does: the version stands for  *)
(* the password.                                                              *)
EXTENDS Naturals, FiniteSets

CONSTANTS Sessions,     \* rows of sessions
          Links,        \* rows of password_reset_tokens and account_activation_tokens
          Challenges,   \* rows of login_challenges
          Calls,        \* requests in flight
          None,
          MaxAttempts,  \* LOGIN_OTP_MAX_ATTEMPTS
          MaxSends,     \* LOGIN_OTP_MAX_SENDS
          MaxVersion    \* bound: changes of the password

ASSUME AccountBounds ==
    /\ MaxAttempts \in Nat \ {0} /\ MaxSends \in Nat /\ MaxVersion \in Nat
    /\ IsFiniteSet(Calls)
    /\ None \notin Nat /\ None \notin Challenges
    /\ Calls \cap Challenges = {}

VARIABLES user,        \* status, version, code required at sign-in, temporary password
          sessions, links, challenges, calls

vars == <<user, sessions, links, challenges, calls>>

\* A locked account differs from a disabled one in name only.
UserStatuses == {"pending_activation", "active", "disabled"}
LinkKinds    == {"reset", "activation"}
Ops == {"idle", "password", "verify", "open", "resend", "change", "issue"}

Session   == [state: {"none", "live", "ended"}, version: 0..MaxVersion, via: Challenges \cup {None}]
Link      == [state: {"none", "unused", "used"}, version: 0..MaxVersion, kind: LinkKinds]
\* Requests that read a counter below its limit at the same time each raise it.
Challenge == [state: {"none", "open", "consumed", "expired"}, version: 0..MaxVersion,
              attempts: 0..(MaxAttempts + Cardinality(Calls)), sends: 0..(MaxSends + Cardinality(Calls))]
Call == [op: Ops, version: 0..MaxVersion, otp: BOOLEAN, via: Challenges \cup {None}, right: BOOLEAN,
         seen: SUBSET Links]
Idle == [op |-> "idle", version |-> 0, otp |-> FALSE, via |-> None, right |-> FALSE, seen |-> {}]

TypeOK ==
    /\ user \in [status: UserStatuses, version: 0..MaxVersion, otp: BOOLEAN, mustChange: BOOLEAN]
    /\ sessions \in [Sessions -> Session]
    /\ links \in [Links -> Link]
    /\ challenges \in [Challenges -> Challenge]
    /\ calls \in [Calls -> Call]

\* Created by an administrator with a temporary password, or for a researcher who will activate it.
Init ==
    /\ \E b \in BOOLEAN :
         user \in {[status |-> "active", version |-> 0, otp |-> b, mustChange |-> TRUE],
                   [status |-> "pending_activation", version |-> 0, otp |-> b, mustChange |-> FALSE]}
    /\ sessions = [s \in Sessions |-> [state |-> "none", version |-> 0, via |-> None]]
    /\ links = [l \in Links |-> [state |-> "none", version |-> 0, kind |-> "reset"]]
    /\ challenges = [h \in Challenges |-> [state |-> "none", version |-> 0, attempts |-> 0, sends |-> 0]]
    /\ calls = [c \in Calls |-> Idle]

-----------------------------------------------------------------------------
Begin(c, call) == /\ calls[c].op = "idle"
                  /\ calls' = [calls EXCEPT ![c] = call]
                  /\ UNCHANGED <<user, sessions, links, challenges>>
End(c) == calls' = [calls EXCEPT ![c] = Idle]

\* Refused, or the mail with the code could not be sent: nothing remains.
Abort(c) == /\ calls[c].op # "idle"
            /\ End(c)
            /\ UNCHANGED <<user, sessions, links, challenges>>

\* getUserForSession
usable(s) == sessions[s].state = "live" /\ user.status = "active" /\ sessions[s].version = user.version

\* Fault: only the session that asks is ended.
revokeAll_Nobody == sessions

\* Nothing looks at the rest of an ended session or of a link that is used up or expired: it is left out.
ended(s) == [state |-> "ended", version |-> 0, via |-> sessions[s].via]
Used == [state |-> "used", version |-> 0, kind |-> "reset"]

revokeAll == [s \in Sessions |-> IF sessions[s].state = "live" THEN ended(s) ELSE sessions[s]]

useUp(kinds) == [l \in Links |->
    IF links[l].state = "unused" /\ links[l].kind \in kinds THEN Used ELSE links[l]]

-----------------------------------------------------------------------------
(* auth.service, auth.store: signing in *)

\* The password is compared with the hash of the row that was read.
BeginLogin(c) ==
    /\ user.status = "active"
    /\ Begin(c, [Idle EXCEPT !.op = "password", !.version = user.version, !.otp = user.otp])

\* Fault: the session is opened for the account as it is now.
sameCredentials_Unchecked(c) == user.status = "active"

sameCredentials(c) == user.status = "active" /\ user.version = calls[c].version

\* createSession: the row of the account is locked and compared with what was proven.
OpenSession(c) == \E s \in Sessions :
    /\ calls[c].op = "open" \/ (calls[c].op = "password" /\ ~calls[c].otp)
    /\ sameCredentials(c)
    /\ sessions[s].state = "none"
    /\ sessions' = [sessions EXCEPT ![s] = [state |-> "live", version |-> user.version, via |-> calls[c].via]]
    /\ End(c)
    /\ UNCHANGED <<user, links, challenges>>

\* LoginOtpService.start, the mail was accepted.
StartChallenge(c) == \E h \in Challenges :
    /\ calls[c].op = "password" /\ calls[c].otp
    /\ challenges[h].state = "none"
    /\ challenges' = [challenges EXCEPT ![h] =
           [state |-> "open", version |-> calls[c].version, attempts |-> 0, sends |-> 1]]
    /\ End(c)
    /\ UNCHANGED <<user, sessions, links>>

\* Fault: wrong codes are not counted.
BeginVerify_Uncounted(c, h, right) ==
    /\ challenges[h].state = "open"
    /\ Begin(c, [Idle EXCEPT !.op = "verify", !.version = challenges[h].version, !.via = h, !.right = right])

\* The code is compared with the hash of the row that was read.
BeginVerify(c, h, right) ==
    /\ challenges[h].state = "open"
    /\ challenges[h].attempts < MaxAttempts
    /\ Begin(c, [Idle EXCEPT !.op = "verify", !.version = challenges[h].version, !.via = h, !.right = right])

WrongCode(c) == \E h \in Challenges :
    /\ calls[c].op = "verify" /\ calls[c].via = h /\ ~calls[c].right
    /\ challenges' = [challenges EXCEPT ![h].attempts = @ + 1]
    /\ End(c)
    /\ UNCHANGED <<user, sessions, links>>

\* Fault: a code that was used is taken again.
Unconsumed_Unchecked(h) == TRUE

Unconsumed(h) == challenges[h].state \in {"open", "expired"}

\* The challenge is used up, unless another request used it first; opening the session compares the version.
RightCode(c) == \E h \in Challenges :
    /\ calls[c].op = "verify" /\ calls[c].via = h /\ calls[c].right
    /\ Unconsumed(h)
    /\ challenges' = [challenges EXCEPT ![h].state = "consumed"]
    /\ calls' = [calls EXCEPT ![c].op = "open"]
    /\ UNCHANGED <<user, sessions, links>>

BeginResend(c, h) ==
    /\ challenges[h].state = "open"
    /\ user.status = "active"
    /\ challenges[h].sends < MaxSends
    /\ Begin(c, [Idle EXCEPT !.op = "resend", !.via = h])

\* Written after the mail and without looking again: a challenge that expired meanwhile is open again.
CommitResend(c) == \E h \in Challenges :
    /\ calls[c].op = "resend" /\ calls[c].via = h
    /\ challenges' = [challenges EXCEPT ![h].attempts = 0, ![h].sends = @ + 1,
                                        ![h].state = IF @ = "expired" THEN "open" ELSE @]
    /\ End(c)
    /\ UNCHANGED <<user, sessions, links>>

logout(s) ==
    /\ sessions[s].state = "live"
    /\ sessions' = [sessions EXCEPT ![s] = ended(s)]
    /\ UNCHANGED <<user, links, challenges, calls>>

-----------------------------------------------------------------------------
(* auth.service, auth.store: passwords and links *)

BeginChange(c) ==
    /\ \E s \in Sessions : usable(s)
    /\ Begin(c, [Idle EXCEPT !.op = "change", !.version = user.version])

\* Every change of the password ends all sessions and uses up the reset links.
CommitChange(c) ==
    /\ calls[c].op = "change"
    /\ sameCredentials(c)
    /\ user.version < MaxVersion
    /\ user' = [user EXCEPT !.version = @ + 1, !.mustChange = FALSE]
    /\ sessions' = revokeAll
    /\ links' = useUp({"reset"})
    /\ End(c)
    /\ UNCHANGED challenges

\* Fault: the earlier links stay.
issueLink_KeepsOld(l, kind) ==
    /\ links[l].state = "none"
    /\ links' = [links EXCEPT ![l] = [state |-> "unused", version |-> user.version, kind |-> kind]]
    /\ UNCHANGED <<user, sessions, challenges, calls>>

\* Under the lock of the account (createPasswordResetToken, resetResearcherAccount) a new link replaces the earlier
\* ones of its kind and carries the present version. An activation link is for an account that waits for it.
issueLink(l, kind) ==
    /\ links[l].state = "none"
    /\ kind = "activation" => user.status = "pending_activation"
    /\ links' = [useUp({kind}) EXCEPT ![l] = [state |-> "unused", version |-> user.version, kind |-> kind]]
    /\ UNCHANGED <<user, sessions, challenges, calls>>

\* A guest accepts an invitation to a conference and has an account that waits for its activation. Nothing locks
\* the account: the account and the earlier links are those that are read here, and others may issue meanwhile.
BeginIssue(c) ==
    /\ user.status = "pending_activation"
    /\ Begin(c, [Idle EXCEPT !.op = "issue", !.version = user.version,
                   !.seen = {l \in Links : links[l].state = "unused" /\ links[l].kind = "activation"}])

\* The links that were read are used up, the new one is written, perhaps for an account that is active by now.
CommitIssue(c) == \E l \in Links :
    /\ calls[c].op = "issue"
    /\ links[l].state = "none"
    /\ links' = [m \in Links |->
           IF m = l THEN [state |-> "unused", version |-> calls[c].version, kind |-> "activation"]
           ELSE IF m \in calls[c].seen THEN Used ELSE links[m]]
    /\ End(c)
    /\ UNCHANGED <<user, sessions, challenges>>

linkHolds(l, kind, status) ==
    /\ links[l].state = "unused" /\ links[l].kind = kind
    /\ user.status = status
    /\ links[l].version = user.version

completePasswordReset(l) ==
    /\ linkHolds(l, "reset", "active")
    /\ user.version < MaxVersion
    /\ user' = [user EXCEPT !.version = @ + 1, !.mustChange = FALSE]
    /\ sessions' = revokeAll
    /\ links' = useUp({"reset"})
    /\ UNCHANGED <<challenges, calls>>

completeAccountActivation(l) ==
    /\ linkHolds(l, "activation", "pending_activation")
    /\ user.version < MaxVersion
    /\ user' = [user EXCEPT !.status = "active", !.version = @ + 1, !.mustChange = FALSE]
    /\ sessions' = revokeAll
    /\ links' = useUp(LinkKinds)
    /\ UNCHANGED <<challenges, calls>>

-----------------------------------------------------------------------------
(* admin-users.service, and what time and the nightly clean-up do *)

\* Any status but pending_activation at any time; sessions and links are left alone.
setUserStatus(st) ==
    /\ st # user.status
    /\ user' = [user EXCEPT !.status = st]
    /\ UNCHANGED <<sessions, links, challenges, calls>>

\* The user turns the code on or off, or a new role requires it.
setLoginOtp ==
    /\ \E s \in Sessions : usable(s) /\ ~user.mustChange
    /\ user' = [user EXCEPT !.otp = ~@]
    /\ UNCHANGED <<sessions, links, challenges, calls>>

expireSession(s) == sessions[s].state = "live" /\ sessions' = [sessions EXCEPT ![s] = ended(s)]
                    /\ UNCHANGED <<user, links, challenges, calls>>

expireLink(l) == links[l].state = "unused" /\ links' = [links EXCEPT ![l] = Used]
                 /\ UNCHANGED <<user, sessions, challenges, calls>>

expireChallenge(h) == challenges[h].state = "open" /\ challenges' = [challenges EXCEPT ![h].state = "expired"]
                      /\ UNCHANGED <<user, sessions, links, calls>>

-----------------------------------------------------------------------------
Next ==
    \/ \E c \in Calls :
        \/ BeginLogin(c) \/ OpenSession(c) \/ StartChallenge(c)
        \/ WrongCode(c) \/ RightCode(c) \/ CommitResend(c)
        \/ BeginChange(c) \/ CommitChange(c) \/ BeginIssue(c) \/ CommitIssue(c) \/ Abort(c)
        \/ \E h \in Challenges : BeginResend(c, h) \/ \E b \in BOOLEAN : BeginVerify(c, h, b)
    \/ \E s \in Sessions : logout(s) \/ expireSession(s)
    \/ \E l \in Links :
        \/ \E k \in LinkKinds : issueLink(l, k)
        \/ completePasswordReset(l) \/ completeAccountActivation(l) \/ expireLink(l)
    \/ \E h \in Challenges : expireChallenge(h)
    \/ \E st \in {"active", "disabled"} : setUserStatus(st)
    \/ setLoginOtp

Spec == Init /\ [][Next]_vars

-----------------------------------------------------------------------------
(* A session that has not ended was opened with the password in force, also when the password changes      *)
(* while a sign-in or a code is on its way: createSession compares under the lock what every change of the *)
(* password raises and revokes.                                                                            *)
SessionsOfPresentPassword == \A s \in Sessions :
    sessions[s].state = "live" => sessions[s].version = user.version

(* The code of one challenge opens one session, however many requests carry it.                            *)
OneSessionPerChallenge == \A s, t \in Sessions :
    sessions[s].via # None /\ sessions[s].via = sessions[t].via => s = t

(* At most one link that resets the password is good and it belongs to the present password: what was      *)
(* mailed before is worth nothing after a new link or a new password. Several activation links may be good *)
(* at once, since a conference issues its own beside the others; each is of the password the account still *)
(* has, so that the one that is used puts an end to all of them.                                           *)
LinksOfPresentPassword ==
    /\ \A l, m \in Links : links[l].state = "unused" /\ links[m].state = "unused"
                          /\ links[l].kind = "reset" /\ links[m].kind = "reset" => l = m
    /\ \A l \in Links : links[l].state = "unused" /\ links[l].kind = "reset" => links[l].version = user.version
    /\ user.status = "pending_activation" =>
          \A l \in Links : links[l].state = "unused" /\ links[l].kind = "activation" => links[l].version = user.version

(* Wrong codes per challenge and mail are limited even when requests are in flight together: each of them  *)
(* may exceed the limit by one, never more.                                                                *)
WrongCodesBounded == \A h \in Challenges :
    challenges[h].attempts + Cardinality({c \in Calls : calls[c].op = "verify" /\ calls[c].via = h /\ ~calls[c].right})
        < MaxAttempts + Cardinality(Calls)

Life == INSTANCE CredentialLife WITH
    Attempts <- Calls \cup Challenges,
    allowed <- user.status = "active",
    secret <- user.version,
    proof <- [a \in Calls \cup Challenges |->
        IF a \in Calls THEN IF calls[a].op \in {"password", "open"} THEN calls[a].version ELSE None
        ELSE IF challenges[a].state \in {"open", "expired"} THEN challenges[a].version ELSE None],
    phase <- [s \in Sessions |-> CASE sessions[s].state = "none" -> "new"
                                   [] sessions[s].state = "live" -> "in"
                                   [] sessions[s].state = "ended" -> "out"]

(* Signing in does what CredentialLife promises: a proof of the password is used for one entry, and none   *)
(* survives a new password.                                                                                *)
ImplementsCredentialLife == Life!Spec
===============================================================================
