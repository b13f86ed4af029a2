---------------------------- MODULE AccountsProofs ----------------------------
(* The safety of Accounts for any number of sessions, links, challenges and   *)
(* requests in flight, and that signing in does what CredentialLife promises. *)
EXTENDS Accounts, FiniteSetTheorems, TLAPS

Wrong(h)  == {c \in Calls : calls[c].op = "verify" /\ calls[c].via = h /\ ~calls[c].right}
Resent(h) == {c \in Calls : calls[c].op = "resend" /\ calls[c].via = h}

(* What is counted and what is about to be counted, together. *)
Counted == \A h \in Challenges :
    /\ challenges[h].attempts + Cardinality(Wrong(h)) < MaxAttempts + Cardinality(Calls)
    /\ challenges[h].sends + Cardinality(Resent(h)) <= MaxSends + Cardinality(Calls)

(* A request about a challenge has the version of the challenge, which does    *)
(* not change once it is sent.                                                 *)
AboutChallenges == \A c \in Calls :
    calls[c].op \in {"verify", "resend", "open"} =>
        /\ calls[c].via \in Challenges /\ challenges[calls[c].via].state # "none"
        /\ calls[c].op # "resend" => calls[c].version = challenges[calls[c].via].version

(* A challenge is good for one request that may open a session and one session. *)
OnceOnly == \A h \in Challenges :
    /\ \A c \in Calls : calls[c].op = "open" /\ calls[c].via = h =>
          /\ challenges[h].state = "consumed"
          /\ \A d \in Calls : calls[d].op = "open" /\ calls[d].via = h => d = c
          /\ \A s \in Sessions : sessions[s].via # h
    /\ \A s \in Sessions : sessions[s].via = h => challenges[h].state = "consumed"

NoViaYet == /\ \A s \in Sessions : sessions[s].state = "none" => sessions[s].via = None
            /\ \A c \in Calls : calls[c].op \in {"idle", "password", "change", "issue"} => calls[c].via = None

(* A conference that issues an activation link has the version of the account for as long as it waits. *)
IssuesPresent == \A c \in Calls :
    calls[c].op = "issue" /\ user.status = "pending_activation" => calls[c].version = user.version

AccountInv == /\ TypeOK /\ SessionsOfPresentPassword /\ LinksOfPresentPassword /\ IssuesPresent
              /\ Counted /\ AboutChallenges /\ OnceOnly /\ NoViaYet /\ OneSessionPerChallenge

LEMMA WrongFinite ==
  ASSUME NEW h
  PROVE  /\ IsFiniteSet(Wrong(h)) /\ Cardinality(Wrong(h)) \in Nat /\ Cardinality(Wrong(h)) <= Cardinality(Calls)
         /\ IsFiniteSet(Resent(h)) /\ Cardinality(Resent(h)) \in Nat /\ Cardinality(Resent(h)) <= Cardinality(Calls)
         /\ Cardinality(Calls) \in Nat
  <1>1. Wrong(h) \in SUBSET Calls /\ Resent(h) \in SUBSET Calls
    BY DEF Wrong, Resent
  <1> HIDE DEF Wrong, Resent
  <1> QED
    BY <1>1, AccountBounds, FS_Subset, FS_CardinalityType

LEMMA InitInv == Init => AccountInv
  <1> SUFFICES ASSUME Init PROVE AccountInv
    OBVIOUS
  <1> USE AccountBounds
  <1>1. Cardinality(Calls) \in Nat
    BY FS_CardinalityType
  <1>2. Idle \in Call /\ Idle.op = "idle" /\ Idle.via = None
    BY DEF Idle, Call, Ops
  <1>3. TypeOK
    <2>1. user \in [status: UserStatuses, version: 0..MaxVersion, otp: BOOLEAN, mustChange: BOOLEAN]
      <3>1. PICK b \in BOOLEAN :
              user \in {[status |-> "active", version |-> 0, otp |-> b, mustChange |-> TRUE],
                       [status |-> "pending_activation", version |-> 0, otp |-> b, mustChange |-> FALSE]}
        BY DEF Init
      <3>2. 0 \in 0..MaxVersion /\ "active" \in UserStatuses /\ "pending_activation" \in UserStatuses
        BY DEF UserStatuses
      <3>3. CASE user = [status |-> "active", version |-> 0, otp |-> b, mustChange |-> TRUE]
        BY <3>2, <3>3
      <3>4. CASE user = [status |-> "pending_activation", version |-> 0, otp |-> b, mustChange |-> FALSE]
        BY <3>2, <3>4
      <3> QED
        BY <3>1, <3>3, <3>4
    <2>2. [state |-> "none", version |-> 0, via |-> None] \in Session
      BY DEF Session
    <2>3. [state |-> "none", version |-> 0, kind |-> "reset"] \in Link
      BY DEF Link, LinkKinds
    <2>4. [state |-> "none", version |-> 0, attempts |-> 0, sends |-> 0] \in Challenge
      BY <1>1 DEF Challenge
    <2> QED
      BY <1>2, <2>1, <2>2, <2>3, <2>4 DEF Init, TypeOK
  <1>4. SessionsOfPresentPassword /\ LinksOfPresentPassword /\ AboutChallenges /\ OnceOnly /\ NoViaYet /\ OneSessionPerChallenge
        /\ IssuesPresent
    BY <1>2 DEF Init, SessionsOfPresentPassword, LinksOfPresentPassword, IssuesPresent, AboutChallenges, OnceOnly, NoViaYet, OneSessionPerChallenge
  <1>5. \A h : Wrong(h) = {} /\ Resent(h) = {}
    BY <1>2 DEF Init, Wrong, Resent
  <1>6. Counted
    <2>1. \A h : Cardinality(Wrong(h)) = 0 /\ Cardinality(Resent(h)) = 0
      BY <1>5, FS_EmptySet
    <2>2. \A h \in Challenges : challenges[h].attempts = 0 /\ challenges[h].sends = 0
      BY DEF Init
    <2> QED
      BY <1>1, <2>1, <2>2 DEF Counted
  <1> QED
    BY <1>3, <1>4, <1>6 DEF AccountInv

(* The steps, by what they touch. *)
Changes == \/ \E c \in Calls : CommitChange(c)
           \/ \E l \in Links : completePasswordReset(l) \/ completeAccountActivation(l)
Ends    == \E s \in Sessions : logout(s) \/ expireSession(s)
Begins  == \E c \in Calls :
    \/ BeginLogin(c) \/ BeginChange(c) \/ BeginIssue(c)
    \/ \E h \in Challenges : BeginResend(c, h) \/ \E b \in BOOLEAN : BeginVerify(c, h, b)

LEMMA RevokeFacts ==
  ASSUME TypeOK
  PROVE  /\ revokeAll \in [Sessions -> Session]
         /\ \A s \in Sessions : /\ revokeAll[s].state # "live" /\ revokeAll[s].via = sessions[s].via
                                /\ revokeAll[s].state = "none" <=> sessions[s].state = "none"
  <1> USE AccountBounds
  <1>1. ASSUME NEW s \in Sessions
        PROVE /\ revokeAll[s] \in Session
              /\ revokeAll[s].state # "live" /\ revokeAll[s].via = sessions[s].via
              /\ revokeAll[s].state = "none" <=> sessions[s].state = "none"
    <2>1. sessions[s] \in Session /\ revokeAll[s] = IF sessions[s].state = "live" THEN ended(s) ELSE sessions[s]
      BY DEF TypeOK, revokeAll
    <2> QED
      BY <2>1 DEF Session, ended
  <1> QED
    BY <1>1 DEF revokeAll

LEMMA UseUpFacts ==
  ASSUME TypeOK, NEW kinds
  PROVE  /\ useUp(kinds) \in [Links -> Link]
         /\ \A l \in Links : useUp(kinds)[l].state = "unused" => useUp(kinds)[l] = links[l] /\ links[l].kind \notin kinds
  <1> USE AccountBounds
  <1>1. Used \in Link /\ Used.state = "used"
    BY DEF Used, Link, LinkKinds
  <1>2. ASSUME NEW l \in Links
        PROVE /\ useUp(kinds)[l] \in Link
              /\ useUp(kinds)[l].state = "unused" => useUp(kinds)[l] = links[l] /\ links[l].kind \notin kinds
    BY <1>1 DEF useUp, TypeOK
  <1> QED
    BY <1>2 DEF useUp

(* What a new password does. *)
LEMMA ChangeFacts ==
  ASSUME TypeOK, Changes
  PROVE  /\ user' \in [status: UserStatuses, version: 0..MaxVersion, otp: BOOLEAN, mustChange: BOOLEAN]
         /\ user'.version = user.version + 1 /\ user'.status = "active"
         /\ sessions' = revokeAll
         /\ links' = useUp({"reset"}) \/ links' = useUp(LinkKinds)
         /\ UNCHANGED challenges
         /\ \/ UNCHANGED calls
            \/ \E c \in Calls : calls[c].op = "change" /\ End(c)
  <1> USE AccountBounds
  <1>1. user \in [status: UserStatuses, version: 0..MaxVersion, otp: BOOLEAN, mustChange: BOOLEAN]
    BY DEF TypeOK
  <1>2. ASSUME NEW c \in Calls, CommitChange(c)
        PROVE /\ user' = [user EXCEPT !.version = @ + 1, !.mustChange = FALSE] /\ user.version < MaxVersion
              /\ user.status = "active"
              /\ sessions' = revokeAll /\ links' = useUp({"reset"}) /\ UNCHANGED challenges
              /\ calls[c].op = "change" /\ End(c)
    BY <1>2 DEF CommitChange, sameCredentials
  <1>3. ASSUME NEW l \in Links, completePasswordReset(l)
        PROVE /\ user' = [user EXCEPT !.version = @ + 1, !.mustChange = FALSE] /\ user.version < MaxVersion
              /\ user.status = "active"
              /\ sessions' = revokeAll /\ links' = useUp({"reset"}) /\ UNCHANGED <<challenges, calls>>
    BY <1>3 DEF completePasswordReset, linkHolds
  <1>4. ASSUME NEW l \in Links, completeAccountActivation(l)
        PROVE /\ user' = [user EXCEPT !.status = "active", !.version = @ + 1, !.mustChange = FALSE] /\ user.version < MaxVersion
              /\ sessions' = revokeAll /\ links' = useUp(LinkKinds) /\ UNCHANGED <<challenges, calls>>
    BY <1>4 DEF completeAccountActivation, linkHolds
  <1>5. ASSUME NEW st \in UserStatuses, user.version < MaxVersion,
               user' = [user EXCEPT !.status = st, !.version = @ + 1, !.mustChange = FALSE]
        PROVE  /\ user' \in [status: UserStatuses, version: 0..MaxVersion, otp: BOOLEAN, mustChange: BOOLEAN]
               /\ user'.version = user.version + 1 /\ user'.status = st
    <2>1. user.version + 1 \in 0..MaxVersion
      BY <1>1, <1>5
    <2>2. user' = [user EXCEPT !.status = st, !.version = user.version + 1, !.mustChange = FALSE]
      BY <1>5
    <2> QED
      BY <1>1, <2>1, <2>2
  <1>6. "active" \in UserStatuses
    BY DEF UserStatuses
  <1>7. user.status = "active" => \A v : [user EXCEPT !.version = v, !.mustChange = FALSE]
                                      = [user EXCEPT !.status = "active", !.version = v, !.mustChange = FALSE]
    BY <1>1
  <1>8. ASSUME NEW c \in Calls, CommitChange(c)
        PROVE  /\ user' \in [status: UserStatuses, version: 0..MaxVersion, otp: BOOLEAN, mustChange: BOOLEAN]
               /\ user'.version = user.version + 1 /\ user'.status = "active"
    BY <1>2, <1>5, <1>6, <1>7, <1>8
  <1>9. ASSUME NEW l \in Links, completePasswordReset(l)
        PROVE  /\ user' \in [status: UserStatuses, version: 0..MaxVersion, otp: BOOLEAN, mustChange: BOOLEAN]
               /\ user'.version = user.version + 1 /\ user'.status = "active"
    BY <1>3, <1>5, <1>6, <1>7, <1>9
  <1>10. ASSUME NEW l \in Links, completeAccountActivation(l)
        PROVE  /\ user' \in [status: UserStatuses, version: 0..MaxVersion, otp: BOOLEAN, mustChange: BOOLEAN]
               /\ user'.version = user.version + 1 /\ user'.status = "active"
    BY <1>4, <1>5, <1>6, <1>10
  <1> QED
    BY <1>2, <1>3, <1>4, <1>8, <1>9, <1>10 DEF Changes

(* Nothing but a new password changes the version, and nothing but OpenSession adds a session. *)
LEMMA StepFacts ==
  ASSUME TypeOK, [Next]_vars, ~Changes
  PROVE  /\ user' \in [status: UserStatuses, version: 0..MaxVersion, otp: BOOLEAN, mustChange: BOOLEAN]
         /\ user'.version = user.version
         /\ user'.status = "pending_activation" => user.status = "pending_activation"
         /\ UNCHANGED sessions \/ Ends \/ \E c \in Calls : OpenSession(c)
         /\ \/ UNCHANGED links
            \/ \E c \in Calls : CommitIssue(c)
            \/ \E l \in Links : expireLink(l) \/ \E k \in LinkKinds : issueLink(l, k)
  <1>1. user \in [status: UserStatuses, version: 0..MaxVersion, otp: BOOLEAN, mustChange: BOOLEAN]
    BY DEF TypeOK
  <1>2. CASE \E c \in Calls : \/ BeginLogin(c) \/ OpenSession(c) \/ StartChallenge(c)
                             \/ WrongCode(c) \/ RightCode(c) \/ CommitResend(c)
                             \/ BeginChange(c) \/ BeginIssue(c) \/ CommitIssue(c) \/ Abort(c)
                             \/ \E h \in Challenges : BeginResend(c, h) \/ \E b \in BOOLEAN : BeginVerify(c, h, b)
    BY <1>1, <1>2 DEF BeginLogin, OpenSession, StartChallenge, WrongCode, RightCode, CommitResend, BeginChange, Abort,
       BeginIssue, CommitIssue, BeginResend, BeginVerify, Begin
  <1>3. CASE \E s \in Sessions : logout(s) \/ expireSession(s)
    BY <1>1, <1>3 DEF Ends, logout, expireSession
  <1>4. CASE \E l \in Links : expireLink(l) \/ \E k \in LinkKinds : issueLink(l, k)
    BY <1>1, <1>4 DEF expireLink, issueLink
  <1>5. CASE \E h \in Challenges : expireChallenge(h)
    BY <1>1, <1>5 DEF expireChallenge
  <1>6. ASSUME NEW st \in {"active", "disabled"}, setUserStatus(st)
        PROVE  user' \in [status: UserStatuses, version: 0..MaxVersion, otp: BOOLEAN, mustChange: BOOLEAN]
               /\ user'.version = user.version /\ UNCHANGED <<sessions, links>>
               /\ user'.status # "pending_activation"
    BY <1>1, <1>6 DEF setUserStatus, UserStatuses
  <1>7. CASE setLoginOtp
    BY <1>1, <1>7 DEF setLoginOtp
  <1>8. CASE UNCHANGED vars
    BY <1>1, <1>8 DEF vars
  <1> QED
    BY <1>2, <1>3, <1>4, <1>5, <1>6, <1>7, <1>8 DEF Next, Changes

(* Sessions *)
LEMMA SessionsStep ==
  ASSUME AccountInv, [Next]_vars
  PROVE  sessions' \in [Sessions -> Session] /\ SessionsOfPresentPassword'
  <1> USE AccountBounds
  <1>0. TypeOK /\ sessions \in [Sessions -> Session] /\ calls \in [Calls -> Call]
        /\ user \in [status: UserStatuses, version: 0..MaxVersion, otp: BOOLEAN, mustChange: BOOLEAN]
    BY DEF AccountInv, TypeOK
  <1>1. CASE Changes
    BY <1>0, <1>1, ChangeFacts, RevokeFacts DEF SessionsOfPresentPassword
  <1>2. CASE ~Changes /\ UNCHANGED sessions
    BY <1>0, <1>2, StepFacts DEF AccountInv, SessionsOfPresentPassword
  <1>3. CASE ~Changes /\ Ends
    <2>1. PICK s \in Sessions : sessions' = [sessions EXCEPT ![s] = ended(s)]
      BY <1>3 DEF Ends, logout, expireSession
    <2>2. ended(s) \in Session /\ ended(s).state # "live"
      BY <1>0 DEF Session, ended
    <2> QED
      BY <1>0, <1>3, <2>1, <2>2, StepFacts DEF AccountInv, SessionsOfPresentPassword
  <1>4. ASSUME NEW c \in Calls, OpenSession(c), ~Changes
        PROVE  sessions' \in [Sessions -> Session] /\ SessionsOfPresentPassword'
    <2>1. PICK s \in Sessions :
            sessions' = [sessions EXCEPT ![s] = [state |-> "live", version |-> user.version, via |-> calls[c].via]]
      BY <1>4 DEF OpenSession
    <2>2. calls[c].via \in Challenges \cup {None} /\ user.version \in 0..MaxVersion
      BY <1>0 DEF Call
    <2>3. [state |-> "live", version |-> user.version, via |-> calls[c].via] \in Session
      BY <2>2 DEF Session
    <2>4. user'.version = user.version
      BY <1>0, <1>4, StepFacts
    <2> QED
      BY <1>0, <2>1, <2>3, <2>4 DEF AccountInv, SessionsOfPresentPassword
  <1> QED
    BY <1>0, <1>1, <1>2, <1>3, <1>4, StepFacts

(* Links *)
LEMMA LinksStep ==
  ASSUME AccountInv, [Next]_vars
  PROVE  links' \in [Links -> Link] /\ LinksOfPresentPassword'
  <1> USE AccountBounds
  <1>0. TypeOK /\ links \in [Links -> Link]
        /\ user \in [status: UserStatuses, version: 0..MaxVersion, otp: BOOLEAN, mustChange: BOOLEAN]
    BY DEF AccountInv, TypeOK
  <1>1. CASE Changes
    <2>1. links' = useUp({"reset"}) \/ links' = useUp(LinkKinds)
      BY <1>0, <1>1, ChangeFacts
    <2>2. links' \in [Links -> Link]
      BY <1>0, <2>1, UseUpFacts
    <2>3. \A l \in Links : links'[l].state = "unused" => links'[l] = links[l] /\ links[l].kind # "reset"
      BY <1>0, <2>1, UseUpFacts DEF LinkKinds
    <2>4. user'.status # "pending_activation"
      BY <1>0, <1>1, ChangeFacts
    <2> QED
      BY <2>2, <2>3, <2>4 DEF LinksOfPresentPassword
  <1>2. CASE ~Changes /\ UNCHANGED links
    BY <1>0, <1>2, StepFacts DEF AccountInv, LinksOfPresentPassword
  <1>3. ASSUME NEW l \in Links, expireLink(l), ~Changes
        PROVE  links' \in [Links -> Link] /\ LinksOfPresentPassword'
    <2>1. /\ links' = [links EXCEPT ![l] = Used]
          /\ user'.version = user.version
          /\ user'.status = "pending_activation" => user.status = "pending_activation"
      BY <1>0, <1>3, StepFacts DEF expireLink
    <2>2. Used \in Link /\ Used.state # "unused"
      BY DEF Used, Link, LinkKinds
    <2> QED
      BY <1>0, <2>1, <2>2 DEF AccountInv, LinksOfPresentPassword
  <1>4. ASSUME NEW l \in Links, NEW k \in LinkKinds, issueLink(l, k), ~Changes
        PROVE  links' \in [Links -> Link] /\ LinksOfPresentPassword'
    <2> DEFINE new == [state |-> "unused", version |-> user.version, kind |-> k]
    <2>1. /\ links' = [useUp({k}) EXCEPT ![l] = new]
          /\ user'.version = user.version
          /\ user'.status = "pending_activation" => user.status = "pending_activation"
      BY <1>0, <1>4, StepFacts DEF issueLink
    <2>2. new \in Link /\ new.kind = k /\ new.state = "unused" /\ new.version = user.version
      BY <1>0 DEF Link
    <2> HIDE DEF new
    <2>3. useUp({k}) \in [Links -> Link]
      BY <1>0, UseUpFacts
    <2>4. \A m \in Links : m # l => links'[m] = useUp({k})[m]
      BY <2>1, <2>3
    <2>5. links'[l] = new
      BY <2>1, <2>3
    <2>6. \A m \in Links : m # l /\ links'[m].state = "unused" => links'[m] = links[m] /\ links[m].kind # k
      BY <1>0, <2>4, UseUpFacts
    <2>7. links' \in [Links -> Link]
      BY <2>1, <2>2, <2>3
    <2>8. ASSUME NEW m \in Links, NEW n \in Links, links'[m].state = "unused", links'[n].state = "unused",
                 links'[m].kind = "reset", links'[n].kind = "reset"
          PROVE  m = n
      <3>1. CASE m = l \/ n = l
        BY <2>2, <2>5, <2>6, <2>8, <3>1
      <3>2. CASE m # l /\ n # l
        BY <2>6, <2>8, <3>2 DEF AccountInv, LinksOfPresentPassword
      <3> QED
        BY <3>1, <3>2
    <2>9. ASSUME NEW m \in Links, links'[m].state = "unused",
                 links'[m].kind = "reset" \/ (links'[m].kind = "activation" /\ user'.status = "pending_activation")
          PROVE  links'[m].version = user'.version
      BY <2>1, <2>2, <2>5, <2>6, <2>9 DEF AccountInv, LinksOfPresentPassword
    <2> QED
      BY <2>7, <2>8, <2>9 DEF LinksOfPresentPassword
  <1>5. ASSUME NEW c \in Calls, CommitIssue(c), ~Changes
        PROVE  links' \in [Links -> Link] /\ LinksOfPresentPassword'
    <2> DEFINE new == [state |-> "unused", version |-> calls[c].version, kind |-> "activation"]
    <2>1. PICK l \in Links :
            links' = [m \in Links |-> IF m = l THEN new ELSE IF m \in calls[c].seen THEN Used ELSE links[m]]
      BY <1>5 DEF CommitIssue
    <2>2. calls[c].op = "issue" /\ UNCHANGED user
      BY <1>5 DEF CommitIssue
    <2>3. new \in Link /\ new.kind = "activation" /\ new.version = calls[c].version
      <3>1. calls[c].version \in 0..MaxVersion
        BY <1>0 DEF TypeOK, Call
      <3> QED
        BY <3>1 DEF Link, LinkKinds
    <2> HIDE DEF new
    <2>4. Used \in Link /\ Used.state # "unused"
      BY DEF Used, Link, LinkKinds
    <2>5. \A m \in Links : m # l /\ links'[m].state = "unused" => links'[m] = links[m]
      BY <2>1, <2>4
    <2>6. links'[l] = new /\ links' \in [Links -> Link]
      BY <1>0, <2>1, <2>3, <2>4
    <2>7. user.status = "pending_activation" => calls[c].version = user.version
      BY <2>2 DEF AccountInv, IssuesPresent
    <2>8. ASSUME NEW m \in Links, NEW n \in Links, links'[m].state = "unused", links'[n].state = "unused",
                 links'[m].kind = "reset", links'[n].kind = "reset"
          PROVE  m = n
      BY <2>3, <2>5, <2>6, <2>8 DEF AccountInv, LinksOfPresentPassword
    <2>9. ASSUME NEW m \in Links, links'[m].state = "unused",
                 links'[m].kind = "reset" \/ (links'[m].kind = "activation" /\ user.status = "pending_activation")
          PROVE  links'[m].version = user.version
      BY <2>3, <2>5, <2>6, <2>7, <2>9 DEF AccountInv, LinksOfPresentPassword
    <2> QED
      BY <2>2, <2>6, <2>8, <2>9 DEF LinksOfPresentPassword
  <1> QED
    BY <1>0, <1>1, <1>2, <1>3, <1>4, <1>5, StepFacts

(* Challenges and requests *)
LEMMA CallSteps ==
  ASSUME [Next]_vars
  PROVE  \/ UNCHANGED <<challenges, calls>>
         \/ \E c \in Calls : End(c) /\ UNCHANGED challenges
         \/ Begins
         \/ \E c \in Calls : StartChallenge(c) \/ WrongCode(c) \/ RightCode(c) \/ CommitResend(c)
         \/ \E h \in Challenges : expireChallenge(h)
  <1>1. ASSUME NEW c \in Calls, OpenSession(c) \/ CommitChange(c) \/ CommitIssue(c) \/ Abort(c)
        PROVE  End(c) /\ UNCHANGED challenges
    BY <1>1 DEF OpenSession, CommitChange, CommitIssue, Abort
  <1>2. CASE \E c \in Calls : BeginLogin(c) \/ BeginChange(c) \/ BeginIssue(c)
                 \/ \E h \in Challenges : BeginResend(c, h) \/ \E b \in BOOLEAN : BeginVerify(c, h, b)
    BY <1>2 DEF Begins
  <1>3. CASE \E s \in Sessions : logout(s) \/ expireSession(s)
    BY <1>3 DEF logout, expireSession
  <1>4. CASE \E l \in Links : expireLink(l) \/ \E k \in LinkKinds : issueLink(l, k)
    BY <1>4 DEF expireLink, issueLink
  <1>5. CASE \E l \in Links : completePasswordReset(l) \/ completeAccountActivation(l)
    BY <1>5 DEF completePasswordReset, completeAccountActivation
  <1>6. CASE setLoginOtp \/ \E st \in {"active", "disabled"} : setUserStatus(st)
    BY <1>6 DEF setLoginOtp, setUserStatus
  <1>7. CASE UNCHANGED vars
    BY <1>7 DEF vars
  <1> QED
    BY <1>1, <1>2, <1>3, <1>4, <1>5, <1>6, <1>7 DEF Next

(* What a request becomes when it begins. *)
NewCall(c, call) ==
    /\ calls[c].op = "idle" /\ calls' = [calls EXCEPT ![c] = call] /\ UNCHANGED challenges
    /\ call \in Call
    /\ \/ call.op \in {"password", "change"} /\ call.via = None
       \/ call.op = "issue" /\ call.via = None /\ call.version = user.version
       \/ /\ call.op = "verify" /\ call.via \in Challenges /\ challenges[call.via].state = "open"
          /\ challenges[call.via].attempts < MaxAttempts /\ call.version = challenges[call.via].version
       \/ /\ call.op = "resend" /\ call.via \in Challenges /\ challenges[call.via].state = "open"
          /\ challenges[call.via].sends < MaxSends

LEMMA IdleFacts == Idle \in Call /\ Idle.op = "idle" /\ Idle.via = None
  BY AccountBounds DEF Idle, Call, Ops

LEMMA BeginsFacts ==
  ASSUME TypeOK, Begins
  PROVE  \E c \in Calls : \E call : NewCall(c, call)
  <1> USE AccountBounds
  <1>0. user \in [status: UserStatuses, version: 0..MaxVersion, otp: BOOLEAN, mustChange: BOOLEAN]
        /\ challenges \in [Challenges -> Challenge]
    BY DEF TypeOK
  <1>1. ASSUME NEW c \in Calls, BeginLogin(c) PROVE \E call : NewCall(c, call)
    <2> DEFINE call == [Idle EXCEPT !.op = "password", !.version = user.version, !.otp = user.otp]
    <2>1. calls[c].op = "idle" /\ calls' = [calls EXCEPT ![c] = call] /\ UNCHANGED challenges
      BY <1>1 DEF BeginLogin, Begin
    <2>2. call \in Call /\ call.op = "password" /\ call.via = None
      BY <1>0 DEF Call, Ops, Idle
    <2> HIDE DEF call
    <2>4. NewCall(c, call)
      BY <2>1, <2>2, <1>0 DEF NewCall
    <2> QED
      BY <2>4
  <1>2. ASSUME NEW c \in Calls, BeginChange(c) PROVE \E call : NewCall(c, call)
    <2> DEFINE call == [Idle EXCEPT !.op = "change", !.version = user.version]
    <2>1. calls[c].op = "idle" /\ calls' = [calls EXCEPT ![c] = call] /\ UNCHANGED challenges
      BY <1>2 DEF BeginChange, Begin
    <2>2. call \in Call /\ call.op = "change" /\ call.via = None
      BY <1>0 DEF Call, Ops, Idle
    <2> HIDE DEF call
    <2>4. NewCall(c, call)
      BY <2>1, <2>2, <1>0 DEF NewCall
    <2> QED
      BY <2>4
  <1>3. ASSUME NEW c \in Calls, NEW h \in Challenges, NEW b \in BOOLEAN, BeginVerify(c, h, b)
        PROVE  \E call : NewCall(c, call)
    <2> DEFINE call == [Idle EXCEPT !.op = "verify", !.version = challenges[h].version, !.via = h, !.right = b]
    <2>1. calls[c].op = "idle" /\ calls' = [calls EXCEPT ![c] = call] /\ UNCHANGED challenges
          /\ challenges[h].state = "open" /\ challenges[h].attempts < MaxAttempts
      BY <1>3 DEF BeginVerify, Begin
    <2>2. challenges[h].version \in 0..MaxVersion
      BY <1>0 DEF Challenge
    <2>3. call \in Call /\ call.op = "verify" /\ call.via = h /\ call.version = challenges[h].version
      BY <2>2 DEF Call, Ops, Idle
    <2> HIDE DEF call
    <2>4. NewCall(c, call)
      BY <2>1, <2>3, <1>0 DEF NewCall
    <2> QED
      BY <2>4
  <1>4. ASSUME NEW c \in Calls, NEW h \in Challenges, BeginResend(c, h) PROVE \E call : NewCall(c, call)
    <2> DEFINE call == [Idle EXCEPT !.op = "resend", !.via = h]
    <2>1. calls[c].op = "idle" /\ calls' = [calls EXCEPT ![c] = call] /\ UNCHANGED challenges
          /\ challenges[h].state = "open" /\ challenges[h].sends < MaxSends
      BY <1>4 DEF BeginResend, Begin
    <2>2. call \in Call /\ call.op = "resend" /\ call.via = h
      BY IdleFacts DEF Call, Ops
    <2> HIDE DEF call
    <2>4. NewCall(c, call)
      BY <2>1, <2>2, <1>0 DEF NewCall
    <2> QED
      BY <2>4
  <1>5. ASSUME NEW c \in Calls, BeginIssue(c) PROVE \E call : NewCall(c, call)
    <2> DEFINE read == {l \in Links : links[l].state = "unused" /\ links[l].kind = "activation"}
               call == [Idle EXCEPT !.op = "issue", !.version = user.version, !.seen = read]
    <2>1. calls[c].op = "idle" /\ calls' = [calls EXCEPT ![c] = call] /\ UNCHANGED challenges
      BY <1>5 DEF BeginIssue, Begin
    <2>2. read \in SUBSET Links
      OBVIOUS
    <2> HIDE DEF read
    <2>3. call \in Call /\ call.op = "issue" /\ call.via = None /\ call.version = user.version
      BY <1>0, <2>2 DEF Call, Ops, Idle
    <2> HIDE DEF call
    <2>4. NewCall(c, call)
      BY <2>1, <2>3, <1>0 DEF NewCall
    <2> QED
      BY <2>4
  <1> QED
    BY <1>1, <1>2, <1>3, <1>4, <1>5 DEF Begins

LEMMA SubsetOfCalls ==
  ASSUME NEW S \in SUBSET Calls
  PROVE  IsFiniteSet(S) /\ Cardinality(S) \in Nat /\ Cardinality(S) <= Cardinality(Calls) /\ Cardinality(Calls) \in Nat
  BY AccountBounds, FS_Subset, FS_CardinalityType

(* A request that ends is counted no more. *)
LEMMA EndCounts ==
  ASSUME TypeOK, NEW c \in Calls, End(c), NEW h
  PROVE  /\ Wrong(h)' = Wrong(h) \ {c} /\ Resent(h)' = Resent(h) \ {c}
         /\ Cardinality(Wrong(h)') <= Cardinality(Wrong(h)) /\ Cardinality(Resent(h)') <= Cardinality(Resent(h))
         /\ c \in Wrong(h) => Cardinality(Wrong(h)') = Cardinality(Wrong(h)) - 1
         /\ c \in Resent(h) => Cardinality(Resent(h)') = Cardinality(Resent(h)) - 1
  <1>1. calls' = [calls EXCEPT ![c] = Idle] /\ calls \in [Calls -> Call]
    BY DEF End, TypeOK
  <1>2. Wrong(h)' = Wrong(h) \ {c} /\ Resent(h)' = Resent(h) \ {c}
    BY <1>1, IdleFacts DEF Wrong, Resent
  <1>3. Wrong(h) \in SUBSET Calls /\ Resent(h) \in SUBSET Calls
    BY DEF Wrong, Resent
  <1> HIDE DEF Wrong, Resent
  <1>4. IsFiniteSet(Wrong(h)) /\ IsFiniteSet(Resent(h))
    BY <1>3, SubsetOfCalls
  <1>5. /\ Cardinality(Wrong(h) \ {c}) <= Cardinality(Wrong(h)) /\ Cardinality(Resent(h) \ {c}) <= Cardinality(Resent(h))
    BY <1>4, FS_Subset
  <1>6. /\ c \in Wrong(h) => Cardinality(Wrong(h) \ {c}) = Cardinality(Wrong(h)) - 1
        /\ c \in Resent(h) => Cardinality(Resent(h) \ {c}) = Cardinality(Resent(h)) - 1
    BY <1>4, FS_RemoveElement
  <1> QED
    BY <1>2, <1>5, <1>6

(* A request that begins is counted only below the limit. *)
LEMMA BeginCounts ==
  ASSUME TypeOK, Counted, NEW c \in Calls, NEW call, NewCall(c, call)
  PROVE  Counted'
  <1>0. calls' = [calls EXCEPT ![c] = call] /\ calls \in [Calls -> Call] /\ challenges' = challenges
        /\ challenges \in [Challenges -> Challenge] /\ calls[c].op = "idle"
    BY DEF TypeOK, NewCall
  <1> SUFFICES ASSUME NEW h \in Challenges
               PROVE  /\ challenges[h].attempts + Cardinality(Wrong(h)') < MaxAttempts + Cardinality(Calls)
                      /\ challenges[h].sends + Cardinality(Resent(h)') <= MaxSends + Cardinality(Calls)
    BY <1>0 DEF Counted
  <1>1. challenges[h].attempts \in Nat /\ challenges[h].sends \in Nat /\ MaxAttempts \in Nat /\ MaxSends \in Nat
    BY <1>0, SubsetOfCalls, AccountBounds DEF Challenge
  <1>2. Wrong(h)' \in SUBSET Calls /\ Resent(h)' \in SUBSET Calls
    BY DEF Wrong, Resent
  <1>3. Wrong(h)' = Wrong(h) \/ (call.op = "verify" /\ call.via = h)
    BY <1>0 DEF Wrong
  <1>4. Resent(h)' = Resent(h) \/ (call.op = "resend" /\ call.via = h)
    BY <1>0 DEF Resent
  <1>5. /\ challenges[h].attempts + Cardinality(Wrong(h)) < MaxAttempts + Cardinality(Calls)
        /\ challenges[h].sends + Cardinality(Resent(h)) <= MaxSends + Cardinality(Calls)
    BY DEF Counted
  <1>6. call.op = "verify" /\ call.via = h => challenges[h].attempts < MaxAttempts
    BY DEF NewCall
  <1>7. call.op = "resend" /\ call.via = h => challenges[h].sends < MaxSends
    BY DEF NewCall
  <1> HIDE DEF Wrong, Resent
  <1>8. /\ Cardinality(Wrong(h)') \in Nat /\ Cardinality(Wrong(h)') <= Cardinality(Calls)
        /\ Cardinality(Resent(h)') \in Nat /\ Cardinality(Resent(h)') <= Cardinality(Calls)
        /\ Cardinality(Calls) \in Nat
    BY <1>2, SubsetOfCalls
  <1>9. challenges[h].attempts + Cardinality(Wrong(h)') < MaxAttempts + Cardinality(Calls)
    BY <1>1, <1>3, <1>5, <1>6, <1>8
  <1>10. challenges[h].sends + Cardinality(Resent(h)') <= MaxSends + Cardinality(Calls)
    BY <1>1, <1>4, <1>5, <1>7, <1>8
  <1> QED
    BY <1>9, <1>10

(* How the rows of the challenges change: no row goes back to "none" or leaves "consumed". *)
Row == [state: {"none", "open", "consumed", "expired"}, version: 0..MaxVersion, attempts: Nat, sends: Nat]

Kept == \A h \in Challenges :
    /\ challenges[h].state # "none" => challenges'[h].state # "none" /\ challenges'[h].version = challenges[h].version
    /\ challenges[h].state = "consumed" => challenges'[h].state = "consumed"

LEMMA RowsStep ==
  ASSUME AccountInv, [Next]_vars
  PROVE  challenges' \in [Challenges -> Row] /\ Kept /\ Counted'
  <1> USE AccountBounds
  <1>0. TypeOK /\ calls \in [Calls -> Call] /\ Counted /\ AboutChallenges
    BY DEF AccountInv, TypeOK
  <1>1. challenges \in [Challenges -> Row]
    <2>1. \A h \in Challenges : challenges[h] \in Row
      BY <1>0, SubsetOfCalls DEF TypeOK, Challenge, Row
    <2> QED
      BY <1>0, <2>1 DEF TypeOK
  <1>2. /\ \A h \in Challenges : /\ challenges[h].attempts \in Nat /\ challenges[h].sends \in Nat
                                 /\ challenges[h].attempts + Cardinality(Wrong(h)) < MaxAttempts + Cardinality(Calls)
                                 /\ challenges[h].sends + Cardinality(Resent(h)) <= MaxSends + Cardinality(Calls)
        /\ \A h : /\ Cardinality(Wrong(h)) \in Nat /\ Cardinality(Wrong(h)) <= Cardinality(Calls)
                  /\ Cardinality(Resent(h)) \in Nat /\ Cardinality(Resent(h)) <= Cardinality(Calls)
        /\ Cardinality(Calls) \in Nat
    BY <1>0, <1>1, WrongFinite DEF Counted, Row
  <1>3. ASSUME NEW c \in Calls, End(c), NEW h
        PROVE  /\ Cardinality(Wrong(h)') \in Nat /\ Cardinality(Resent(h)') \in Nat
               /\ Cardinality(Wrong(h)') <= Cardinality(Wrong(h)) /\ Cardinality(Resent(h)') <= Cardinality(Resent(h))
               /\ c \in Wrong(h) => Cardinality(Wrong(h)') = Cardinality(Wrong(h)) - 1
               /\ c \in Resent(h) => Cardinality(Resent(h)') = Cardinality(Resent(h)) - 1
               /\ Cardinality(Resent(h)') < Cardinality(Calls)
    <2>0. Wrong(h)' = Wrong(h) \ {c} /\ Resent(h)' = Resent(h) \ {c}
      BY <1>0, <1>3, EndCounts
    <2>1. Wrong(h)' = Wrong(h) \ {c} /\ Resent(h)' = Resent(h) \ {c}
          /\ Wrong(h) \in SUBSET Calls /\ Resent(h) \in SUBSET Calls
      BY <2>0 DEF Wrong, Resent
    <2> HIDE DEF Wrong, Resent
    <2>2. Wrong(h)' \in SUBSET Calls /\ Resent(h)' \in SUBSET (Calls \ {c})
      BY <2>1
    <2>3. Cardinality(Wrong(h)') \in Nat /\ Cardinality(Resent(h)') \in Nat
      BY <2>2, SubsetOfCalls
    <2>4. Cardinality(Calls \ {c}) = Cardinality(Calls) - 1 /\ IsFiniteSet(Calls \ {c})
      BY FS_RemoveElement
    <2>5. Cardinality(Resent(h)') <= Cardinality(Calls \ {c})
      BY <2>2, <2>4, FS_Subset
    <2> QED
      BY <1>0, <1>2, <1>3, <2>3, <2>4, <2>5, EndCounts
  <1>4. CASE UNCHANGED <<challenges, calls>>
    <2>1. \A h : Wrong(h)' = Wrong(h) /\ Resent(h)' = Resent(h)
      BY <1>4 DEF Wrong, Resent
    <2> QED
      BY <1>1, <1>2, <1>4, <2>1 DEF Kept, Counted
  <1>5. ASSUME NEW c \in Calls, End(c), UNCHANGED challenges
        PROVE  challenges' \in [Challenges -> Row] /\ Kept /\ Counted'
    BY <1>1, <1>2, <1>3, <1>5 DEF Kept, Counted
  <1>6. CASE Begins
    <2>1. PICK c \in Calls : \E call : NewCall(c, call)
      BY <1>0, <1>6, BeginsFacts
    <2>2. PICK call : NewCall(c, call)
      BY <2>1
    <2>3. UNCHANGED challenges
      BY <2>2 DEF NewCall
    <2> QED
      BY <1>0, <1>1, <2>2, <2>3, BeginCounts DEF Kept
  <1>7. ASSUME NEW c \in Calls, StartChallenge(c)
        PROVE  challenges' \in [Challenges -> Row] /\ Kept /\ Counted'
    <2>1. PICK h \in Challenges :
            /\ challenges[h].state = "none"
            /\ challenges' = [challenges EXCEPT ![h] =
                  [state |-> "open", version |-> calls[c].version, attempts |-> 0, sends |-> 1]]
            /\ End(c)
      BY <1>7 DEF StartChallenge
    <2>2. calls[c].version \in 0..MaxVersion
      BY <1>0 DEF Call
    <2>3. [state |-> "open", version |-> calls[c].version, attempts |-> 0, sends |-> 1] \in Row
      BY <2>2 DEF Row
    <2>4. challenges' \in [Challenges -> Row] /\ Kept
      BY <1>1, <2>1, <2>3 DEF Kept
    <2>5. /\ challenges'[h].attempts = 0 /\ challenges'[h].sends = 1
          /\ \A g \in Challenges : g # h => challenges'[g] = challenges[g]
      BY <1>1, <2>1
    <2>6. Counted'
      BY <1>2, <1>3, <2>1, <2>5 DEF Counted
    <2> QED
      BY <2>4, <2>6
  <1>8. ASSUME NEW c \in Calls, WrongCode(c)
        PROVE  challenges' \in [Challenges -> Row] /\ Kept /\ Counted'
    <2>1. PICK h \in Challenges :
            /\ calls[c].op = "verify" /\ calls[c].via = h /\ ~calls[c].right
            /\ challenges' = [challenges EXCEPT ![h].attempts = @ + 1]
            /\ End(c)
      BY <1>8 DEF WrongCode
    <2>2. c \in Wrong(h)
      BY <2>1 DEF Wrong
    <2>3. challenges[h] \in Row /\ challenges' = [challenges EXCEPT ![h] = [challenges[h] EXCEPT !.attempts = challenges[h].attempts + 1]]
      BY <1>1, <2>1
    <2>4. [challenges[h] EXCEPT !.attempts = challenges[h].attempts + 1] \in Row
      BY <2>3 DEF Row
    <2>5. /\ challenges'[h].attempts = challenges[h].attempts + 1 /\ challenges'[h].sends = challenges[h].sends
          /\ challenges'[h].state = challenges[h].state /\ challenges'[h].version = challenges[h].version
          /\ \A g \in Challenges : g # h => challenges'[g] = challenges[g]
      BY <1>1, <2>3 DEF Row
    <2>6. challenges' \in [Challenges -> Row] /\ Kept
      BY <1>1, <2>3, <2>4, <2>5 DEF Kept
    <2>7. Counted'
      BY <1>2, <1>3, <2>1, <2>2, <2>5 DEF Counted
    <2> QED
      BY <2>6, <2>7
  <1>9. ASSUME NEW c \in Calls, RightCode(c)
        PROVE  challenges' \in [Challenges -> Row] /\ Kept /\ Counted'
    <2>1. PICK h \in Challenges :
            /\ calls[c].op = "verify" /\ calls[c].via = h /\ calls[c].right
            /\ Unconsumed(h)
            /\ challenges' = [challenges EXCEPT ![h].state = "consumed"]
            /\ calls' = [calls EXCEPT ![c].op = "open"]
      BY <1>9 DEF RightCode
    <2>2. challenges[h] \in Row /\ challenges' = [challenges EXCEPT ![h] = [challenges[h] EXCEPT !.state = "consumed"]]
          /\ calls' = [calls EXCEPT ![c] = [calls[c] EXCEPT !.op = "open"]] /\ calls[c] \in Call
      BY <1>0, <1>1, <2>1
    <2>3. [challenges[h] EXCEPT !.state = "consumed"] \in Row
      BY <2>2 DEF Row
    <2>4. /\ challenges'[h].attempts = challenges[h].attempts /\ challenges'[h].sends = challenges[h].sends
          /\ challenges'[h].state = "consumed" /\ challenges'[h].version = challenges[h].version
          /\ \A g \in Challenges : g # h => challenges'[g] = challenges[g]
      BY <1>1, <2>2 DEF Row
    <2>5. challenges' \in [Challenges -> Row] /\ Kept
      BY <1>1, <2>2, <2>3, <2>4 DEF Kept
    <2>6. \A g : Wrong(g)' = Wrong(g) /\ Resent(g)' = Resent(g)
      BY <1>0, <2>1, <2>2 DEF Wrong, Resent, Call
    <2>7. Counted'
      BY <1>2, <2>4, <2>6 DEF Counted
    <2> QED
      BY <2>5, <2>7
  <1>10. ASSUME NEW c \in Calls, CommitResend(c)
        PROVE  challenges' \in [Challenges -> Row] /\ Kept /\ Counted'
    <2>1. PICK h \in Challenges :
            /\ calls[c].op = "resend" /\ calls[c].via = h
            /\ challenges' = [challenges EXCEPT ![h].attempts = 0, ![h].sends = @ + 1,
                                                ![h].state = IF @ = "expired" THEN "open" ELSE @]
            /\ End(c)
      BY <1>10 DEF CommitResend
    <2>2. c \in Resent(h)
      BY <2>1 DEF Resent
    <2> DEFINE st == IF challenges[h].state = "expired" THEN "open" ELSE challenges[h].state
               row == [challenges[h] EXCEPT !.attempts = 0, !.sends = challenges[h].sends + 1, !.state = st]
    <2>3. challenges[h] \in Row /\ challenges' = [challenges EXCEPT ![h] = row]
      BY <1>1, <2>1 DEF Row
    <2> HIDE DEF st
    <2>4. /\ row \in Row /\ row.attempts = 0 /\ row.sends = challenges[h].sends + 1
          /\ row.version = challenges[h].version /\ row.state = st
      <3>1. st \in {"none", "open", "consumed", "expired"} /\ challenges[h].sends + 1 \in Nat
        BY <2>3 DEF Row, st
      <3> QED
        BY <2>3, <3>1 DEF Row
    <2> HIDE DEF row
    <2>5. /\ challenges'[h] = row
          /\ \A g \in Challenges : g # h => challenges'[g] = challenges[g]
      BY <1>1, <2>3
    <2>6. challenges' \in [Challenges -> Row] /\ Kept
      BY <1>1, <2>3, <2>4, <2>5 DEF Kept, st
    <2>7. Counted'
      <3>1. /\ row.attempts + Cardinality(Wrong(h)') < MaxAttempts + Cardinality(Calls)
            /\ row.sends + Cardinality(Resent(h)') <= MaxSends + Cardinality(Calls)
        <4> HIDE DEF Wrong, Resent
        <4>1. Cardinality(Resent(h)') = Cardinality(Resent(h)) - 1
          BY <1>3, <2>1, <2>2
        <4>2. Cardinality(Wrong(h)') \in Nat /\ Cardinality(Wrong(h)') <= Cardinality(Wrong(h))
          BY <1>3, <2>1
        <4> QED
          BY <1>2, <2>4, <4>1, <4>2
      <3>2. ASSUME NEW g \in Challenges, g # h
            PROVE  /\ challenges[g].attempts + Cardinality(Wrong(g)') < MaxAttempts + Cardinality(Calls)
                   /\ challenges[g].sends + Cardinality(Resent(g)') <= MaxSends + Cardinality(Calls)
        BY <1>2, <1>3, <2>1
      <3> QED
        BY <2>5, <3>1, <3>2 DEF Counted
    <2> QED
      BY <2>6, <2>7
  <1>11. ASSUME NEW h \in Challenges, expireChallenge(h)
        PROVE  challenges' \in [Challenges -> Row] /\ Kept /\ Counted'
    <2>1. challenges[h].state = "open" /\ challenges[h] \in Row /\ UNCHANGED calls
          /\ challenges' = [challenges EXCEPT ![h] = [challenges[h] EXCEPT !.state = "expired"]]
      BY <1>1, <1>11 DEF expireChallenge
    <2>2. [challenges[h] EXCEPT !.state = "expired"] \in Row
      BY <2>1 DEF Row
    <2>3. /\ challenges'[h].attempts = challenges[h].attempts /\ challenges'[h].sends = challenges[h].sends
          /\ challenges'[h].state = "expired" /\ challenges'[h].version = challenges[h].version
          /\ \A g \in Challenges : g # h => challenges'[g] = challenges[g]
      BY <1>1, <2>1 DEF Row
    <2>4. challenges' \in [Challenges -> Row] /\ Kept
      BY <1>1, <2>1, <2>2, <2>3 DEF Kept
    <2>5. \A g : Wrong(g)' = Wrong(g) /\ Resent(g)' = Resent(g)
      BY <2>1 DEF Wrong, Resent
    <2>6. Counted'
      BY <1>2, <2>3, <2>5 DEF Counted
    <2> QED
      BY <2>4, <2>6
  <1> QED
    BY <1>4, <1>5, <1>6, <1>7, <1>8, <1>9, <1>10, <1>11, CallSteps

LEMMA RightCodeFacts ==
  ASSUME TypeOK, NEW c \in Calls, RightCode(c)
  PROVE  \E h \in Challenges :
            /\ calls[c].op = "verify" /\ calls[c].via = h /\ challenges[h].state # "consumed"
            /\ challenges'[h].state = "consumed"
            /\ calls' = [calls EXCEPT ![c] = [calls[c] EXCEPT !.op = "open"]]
            /\ [calls[c] EXCEPT !.op = "open"] \in Call
            /\ UNCHANGED sessions
  <1>0. calls[c] \in Call /\ challenges \in [Challenges -> Challenge]
    BY DEF TypeOK
  <1>1. PICK h \in Challenges :
            /\ calls[c].op = "verify" /\ calls[c].via = h /\ calls[c].right
            /\ Unconsumed(h)
            /\ challenges' = [challenges EXCEPT ![h].state = "consumed"]
            /\ calls' = [calls EXCEPT ![c].op = "open"]
            /\ UNCHANGED sessions
    BY DEF RightCode
  <1>2. [calls[c] EXCEPT !.op = "open"] \in Call
    BY <1>0 DEF Call, Ops
  <1>3. challenges'[h] = [challenges[h] EXCEPT !.state = "consumed"] /\ challenges[h] \in Challenge
    BY <1>0, <1>1
  <1>4. challenges'[h].state = "consumed"
    BY <1>3 DEF Challenge
  <1> QED
    BY <1>1, <1>2, <1>4 DEF Unconsumed

LEMMA CallsStep ==
  ASSUME AccountInv, [Next]_vars
  PROVE  /\ calls' \in [Calls -> Call]
         /\ AboutChallenges'
         /\ \A c \in Calls : calls'[c].op \in {"idle", "password", "change", "issue"} => calls'[c].via = None
         /\ \/ \E c \in Calls : RightCode(c)
            \/ \A c \in Calls : calls'[c].op = "open" => calls'[c] = calls[c]
  <1> USE AccountBounds
  <1>0. TypeOK /\ calls \in [Calls -> Call] /\ AboutChallenges /\ NoViaYet
    BY DEF AccountInv, TypeOK
  <1>1. Kept
    BY RowsStep
  <1> DEFINE About(call, rows) ==
        call.op \in {"verify", "resend", "open"} =>
            /\ call.via \in Challenges /\ rows[call.via].state # "none"
            /\ call.op # "resend" => call.version = rows[call.via].version
  <1>2. \A c \in Calls : About(calls[c], challenges')
    BY <1>0, <1>1 DEF Kept, AboutChallenges
  <1>3. SUFFICES /\ calls' \in [Calls -> Call]
                 /\ \A c \in Calls : /\ About(calls'[c], challenges')
                                     /\ calls'[c].op \in {"idle", "password", "change", "issue"} => calls'[c].via = None
                 /\ \/ \E c \in Calls : RightCode(c)
                    \/ \A c \in Calls : calls'[c].op = "open" => calls'[c] = calls[c]
    BY DEF AboutChallenges
  <1>4. \A c \in Calls : calls[c].op \in {"idle", "password", "change", "issue"} => calls[c].via = None
    BY <1>0 DEF NoViaYet
  <1>5. \A call : call.op \notin {"verify", "resend", "open"} => About(call, challenges')
    OBVIOUS
  <1> HIDE DEF About
  <1>6. CASE UNCHANGED calls
    BY <1>0, <1>2, <1>4, <1>6
  <1>7. CASE \E c \in Calls : End(c)
    <2>1. PICK c \in Calls : calls' = [calls EXCEPT ![c] = Idle]
      BY <1>7 DEF End
    <2> QED
      BY <1>0, <1>2, <1>4, <1>5, <2>1, IdleFacts
  <1>8. CASE Begins
    <2>1. PICK c \in Calls : \E call : NewCall(c, call)
      BY <1>0, <1>8, BeginsFacts
    <2>2. PICK call : NewCall(c, call)
      BY <2>1
    <2>3. /\ calls' = [calls EXCEPT ![c] = call] /\ call \in Call /\ call.op # "open"
          /\ call.op \in {"idle", "password", "change", "issue"} => call.via = None
      BY <2>2 DEF NewCall
    <2>4. About(call, challenges')
      BY <2>2, <1>5 DEF NewCall, About
    <2> QED
      BY <1>0, <1>2, <1>4, <2>3, <2>4
  <1>9. ASSUME NEW c \in Calls, RightCode(c)
        PROVE /\ calls' \in [Calls -> Call]
              /\ \A d \in Calls : /\ About(calls'[d], challenges')
                                  /\ calls'[d].op \in {"idle", "password", "change", "issue"} => calls'[d].via = None
    <2> DEFINE call == [calls[c] EXCEPT !.op = "open"]
    <2>1. calls[c] \in Call /\ calls[c].op = "verify" /\ calls' = [calls EXCEPT ![c] = call] /\ call \in Call
      BY <1>0, <1>9, RightCodeFacts
    <2>2. call.op = "open" /\ call.via = calls[c].via /\ call.version = calls[c].version
      BY <2>1 DEF Call
    <2> HIDE DEF call
    <2>3. About(call, challenges')
      BY <1>2, <2>1, <2>2 DEF About
    <2> QED
      BY <1>0, <1>2, <1>4, <2>1, <2>2, <2>3
  <1>10. \A c \in Calls : StartChallenge(c) \/ WrongCode(c) \/ CommitResend(c) => End(c)
    BY DEF StartChallenge, WrongCode, CommitResend
  <1>11. \A h \in Challenges : expireChallenge(h) => UNCHANGED calls
    BY DEF expireChallenge
  <1> QED
    BY <1>6, <1>7, <1>8, <1>9, <1>10, <1>11, CallSteps

LEMMA IssuesStep ==
  ASSUME AccountInv, [Next]_vars
  PROVE  IssuesPresent'
  <1>0. TypeOK /\ calls \in [Calls -> Call] /\ IssuesPresent
    BY DEF AccountInv, TypeOK
  <1> SUFFICES ASSUME NEW c \in Calls, calls'[c].op = "issue", user'.status = "pending_activation"
               PROVE  calls'[c].version = user'.version
    BY DEF IssuesPresent
  <1>1. user'.version = user.version /\ user.status = "pending_activation"
    BY <1>0, ChangeFacts, StepFacts
  <1>2. CASE calls'[c] = calls[c]
    BY <1>0, <1>1, <1>2 DEF IssuesPresent
  <1>3. ASSUME NEW d \in Calls, End(d) PROVE calls'[c] = calls[c]
    BY <1>0, <1>3, IdleFacts DEF End
  <1>4. CASE Begins
    <2>1. PICK d \in Calls : \E call : NewCall(d, call)
      BY <1>0, <1>4, BeginsFacts
    <2>2. PICK call : NewCall(d, call)
      BY <2>1
    <2> QED
      BY <1>0, <1>1, <1>2, <2>2 DEF NewCall
  <1>5. ASSUME NEW d \in Calls, RightCode(d) PROVE calls'[c] = calls[c]
    <2>1. calls' = [calls EXCEPT ![d] = [calls[d] EXCEPT !.op = "open"]] /\ calls[d] \in Call
      BY <1>0, <1>5, RightCodeFacts
    <2> QED
      BY <1>0, <2>1 DEF Call
  <1>6. \A d \in Calls : StartChallenge(d) \/ WrongCode(d) \/ CommitResend(d) => End(d)
    BY DEF StartChallenge, WrongCode, CommitResend
  <1>7. \A h \in Challenges : expireChallenge(h) => UNCHANGED calls
    BY DEF expireChallenge
  <1> QED
    BY <1>2, <1>3, <1>4, <1>5, <1>6, <1>7, CallSteps

LEMMA OpenFacts ==
  ASSUME TypeOK, NEW c \in Calls, OpenSession(c)
  PROVE  \E s \in Sessions :
            /\ calls[c].op = "open" \/ calls[c].op = "password"
            /\ sessions[s].state = "none"
            /\ sessions' = [sessions EXCEPT ![s] = [state |-> "live", version |-> user.version, via |-> calls[c].via]]
            /\ calls' = [calls EXCEPT ![c] = Idle]
            /\ UNCHANGED challenges
  <1>1. PICK s \in Sessions :
            /\ calls[c].op = "open" \/ (calls[c].op = "password" /\ ~calls[c].otp)
            /\ sessions[s].state = "none"
            /\ sessions' = [sessions EXCEPT ![s] = [state |-> "live", version |-> user.version, via |-> calls[c].via]]
            /\ End(c)
            /\ UNCHANGED <<user, links, challenges>>
    BY DEF OpenSession
  <1> QED
    BY <1>1 DEF End

LEMMA SessionSteps ==
  ASSUME AccountInv, [Next]_vars
  PROVE  \/ \A s \in Sessions : /\ sessions'[s].via = sessions[s].via
                                /\ sessions'[s].state = "none" <=> sessions[s].state = "none"
         \/ \E c \in Calls : OpenSession(c)
  <1>0. TypeOK /\ sessions \in [Sessions -> Session]
    BY DEF AccountInv, TypeOK
  <1>1. CASE Changes
    BY <1>0, <1>1, ChangeFacts, RevokeFacts
  <1>2. CASE Ends
    <2>1. PICK s \in Sessions : sessions[s].state = "live" /\ sessions' = [sessions EXCEPT ![s] = ended(s)]
      BY <1>2 DEF Ends, logout, expireSession
    <2> QED
      BY <1>0, <2>1 DEF ended
  <1> QED
    BY <1>0, <1>1, <1>2, StepFacts

LEMMA ViasStep ==
  ASSUME AccountInv, [Next]_vars
  PROVE  OnceOnly' /\ OneSessionPerChallenge' /\ \A s \in Sessions : sessions'[s].state = "none" => sessions'[s].via = None
  <1> USE AccountBounds
  <1>0. TypeOK /\ calls \in [Calls -> Call] /\ sessions \in [Sessions -> Session]
        /\ AboutChallenges /\ NoViaYet /\ OnceOnly /\ OneSessionPerChallenge
    BY DEF AccountInv, TypeOK
  <1>1. Kept
    BY RowsStep
  <1>2. ASSUME NEW c \in Calls, OpenSession(c)
        PROVE  OnceOnly' /\ OneSessionPerChallenge' /\ \A s \in Sessions : sessions'[s].state = "none" => sessions'[s].via = None
    <2>1. PICK s \in Sessions :
            /\ calls[c].op = "open" \/ calls[c].op = "password"
            /\ sessions[s].state = "none"
            /\ sessions' = [sessions EXCEPT ![s] = [state |-> "live", version |-> user.version, via |-> calls[c].via]]
            /\ calls' = [calls EXCEPT ![c] = Idle]
            /\ UNCHANGED challenges
      BY <1>0, <1>2, OpenFacts
    <2>2. /\ sessions'[s].state = "live" /\ sessions'[s].via = calls[c].via
          /\ \A t \in Sessions : t # s => sessions'[t] = sessions[t]
          /\ sessions[s].via = None
      BY <1>0, <2>1 DEF NoViaYet
    <2>3. /\ calls'[c].op = "idle"
          /\ \A d \in Calls : d # c => calls'[d] = calls[d]
      BY <1>0, <2>1, IdleFacts
    <2>4. calls[c].op = "password" => calls[c].via = None
      BY <1>0 DEF NoViaYet
    <2>5. calls[c].op = "open" =>
            /\ calls[c].via \in Challenges /\ challenges[calls[c].via].state = "consumed"
            /\ \A t \in Sessions : sessions[t].via # calls[c].via
            /\ \A d \in Calls : calls[d].op = "open" /\ calls[d].via = calls[c].via => d = c
      BY <1>0 DEF AboutChallenges, OnceOnly
    <2>6. OnceOnly'
      <3> SUFFICES ASSUME NEW h \in Challenges
                   PROVE  /\ \A d \in Calls : calls'[d].op = "open" /\ calls'[d].via = h =>
                                /\ challenges[h].state = "consumed"
                                /\ \A e \in Calls : calls'[e].op = "open" /\ calls'[e].via = h => e = d
                                /\ \A t \in Sessions : sessions'[t].via # h
                          /\ \A t \in Sessions : sessions'[t].via = h => challenges[h].state = "consumed"
        BY <2>1 DEF OnceOnly
      <3>1. ASSUME NEW d \in Calls, calls'[d].op = "open", calls'[d].via = h
            PROVE  /\ challenges[h].state = "consumed"
                   /\ \A e \in Calls : calls'[e].op = "open" /\ calls'[e].via = h => e = d
                   /\ \A t \in Sessions : sessions'[t].via # h
        BY <1>0, <2>1, <2>2, <2>3, <2>4, <2>5, <3>1 DEF OnceOnly
      <3>2. ASSUME NEW t \in Sessions, sessions'[t].via = h PROVE challenges[h].state = "consumed"
        BY <1>0, <2>1, <2>2, <2>4, <2>5, <3>2 DEF OnceOnly
      <3> QED
        BY <3>1, <3>2
    <2>7. OneSessionPerChallenge'
      BY <1>0, <2>1, <2>2, <2>4, <2>5 DEF OneSessionPerChallenge
    <2>8. \A t \in Sessions : sessions'[t].state = "none" => sessions'[t].via = None
      BY <1>0, <2>2 DEF NoViaYet
    <2> QED
      BY <2>6, <2>7, <2>8
  <1>3. ASSUME \A s \in Sessions : /\ sessions'[s].via = sessions[s].via
                                   /\ sessions'[s].state = "none" <=> sessions[s].state = "none"
        PROVE  OneSessionPerChallenge' /\ \A s \in Sessions : sessions'[s].state = "none" => sessions'[s].via = None
    BY <1>0, <1>3 DEF OneSessionPerChallenge, NoViaYet
  <1>4. ASSUME \A s \in Sessions : sessions'[s].via = sessions[s].via,
               \A c \in Calls : calls'[c].op = "open" => calls'[c] = calls[c]
        PROVE  OnceOnly'
    BY <1>0, <1>1, <1>4 DEF OnceOnly, Kept
  <1>5. ASSUME NEW c \in Calls, RightCode(c)
        PROVE  OnceOnly' /\ UNCHANGED sessions
    <2>1. PICK h \in Challenges :
            /\ calls[c].op = "verify" /\ calls[c].via = h /\ challenges[h].state # "consumed"
            /\ challenges'[h].state = "consumed"
            /\ calls' = [calls EXCEPT ![c] = [calls[c] EXCEPT !.op = "open"]]
            /\ [calls[c] EXCEPT !.op = "open"] \in Call
            /\ UNCHANGED sessions
      BY <1>0, <1>5, RightCodeFacts
    <2>2. /\ calls'[c].via = h
          /\ \A d \in Calls : d # c => calls'[d] = calls[d]
      BY <1>0, <2>1 DEF Call
    <2>3. /\ \A d \in Calls : calls[d].op = "open" => calls[d].via # h
          /\ \A t \in Sessions : sessions[t].via # h
      BY <1>0, <2>1 DEF OnceOnly
    <2> SUFFICES ASSUME NEW g \in Challenges
                 PROVE  /\ \A d \in Calls : calls'[d].op = "open" /\ calls'[d].via = g =>
                              /\ challenges'[g].state = "consumed"
                              /\ \A e \in Calls : calls'[e].op = "open" /\ calls'[e].via = g => e = d
                              /\ \A t \in Sessions : sessions[t].via # g
                        /\ \A t \in Sessions : sessions[t].via = g => challenges'[g].state = "consumed"
      BY <2>1 DEF OnceOnly
    <2>4. CASE g = h
      BY <2>1, <2>2, <2>3, <2>4
    <2>5. CASE g # h
      BY <1>0, <1>1, <2>2, <2>5 DEF OnceOnly, Kept
    <2> QED
      BY <2>4, <2>5
  <1> QED
    BY <1>2, <1>3, <1>4, <1>5, SessionSteps, CallsStep

LEMMA NextInv == AccountInv /\ [Next]_vars => AccountInv'
  <1> SUFFICES ASSUME AccountInv, [Next]_vars PROVE AccountInv'
    OBVIOUS
  <1> USE AccountBounds
  <1>1. user' \in [status: UserStatuses, version: 0..MaxVersion, otp: BOOLEAN, mustChange: BOOLEAN]
    BY ChangeFacts, StepFacts DEF AccountInv
  <1>2. challenges' \in [Challenges -> Challenge]
    <2>1. challenges' \in [Challenges -> Row] /\ Counted'
      BY RowsStep
    <2>2. ASSUME NEW h \in Challenges PROVE challenges'[h] \in Challenge
      <3>1. /\ Wrong(h)' \in SUBSET Calls /\ Resent(h)' \in SUBSET Calls
        BY DEF Wrong, Resent
      <3> HIDE DEF Wrong, Resent
      <3>2. Cardinality(Wrong(h)') \in Nat /\ Cardinality(Resent(h)') \in Nat /\ Cardinality(Calls) \in Nat
        BY <3>1, SubsetOfCalls
      <3>3. /\ challenges'[h].attempts + Cardinality(Wrong(h)') < MaxAttempts + Cardinality(Calls)
            /\ challenges'[h].sends + Cardinality(Resent(h)') <= MaxSends + Cardinality(Calls)
        BY <2>1 DEF Counted
      <3>4. challenges'[h] \in Row
        BY <2>1
      <3>5. challenges'[h].attempts \in 0..(MaxAttempts + Cardinality(Calls))
            /\ challenges'[h].sends \in 0..(MaxSends + Cardinality(Calls))
        BY <3>2, <3>3, <3>4 DEF Row
      <3> QED
        BY <3>4, <3>5 DEF Row, Challenge
    <2> QED
      BY <2>1, <2>2
  <1> QED
    BY <1>1, <1>2, SessionsStep, LinksStep, RowsStep, CallsStep, IssuesStep, ViasStep DEF AccountInv, TypeOK, NoViaYet

THEOREM AccountInvHolds == Spec => []AccountInv
  BY InitInv, NextInv, PTL DEF Spec

(* Every variable of an account keeps its type. *)
THEOREM AccountTypeCorrect == Spec => []TypeOK
  <1>1. AccountInv => TypeOK
    BY DEF AccountInv
  <1> QED
    BY <1>1, AccountInvHolds, PTL

(* A session that has not ended was opened with the password in force. *)
THEOREM SessionsAreOfThePassword == Spec => []SessionsOfPresentPassword
  <1>1. AccountInv => SessionsOfPresentPassword
    BY DEF AccountInv
  <1> QED
    BY <1>1, AccountInvHolds, PTL

(* One reset link at most is good and it belongs to the present password; so do the activation links of an account *)
(* that waits, however many a conference issued beside the others.                                                 *)
THEOREM LinksAreOfThePassword == Spec => []LinksOfPresentPassword
  <1>1. AccountInv => LinksOfPresentPassword
    BY DEF AccountInv
  <1> QED
    BY <1>1, AccountInvHolds, PTL

(* However many requests are in flight, a challenge counts fewer wrong codes than the limit and the requests together. *)
THEOREM WrongCodesAreBounded == Spec => []WrongCodesBounded
  <1>1. AccountInv => WrongCodesBounded
    BY DEF AccountInv, Counted, WrongCodesBounded, Wrong
  <1> QED
    BY <1>1, AccountInvHolds, PTL

(* The code of one challenge opens one session, however many requests carry it. *)
THEOREM ChallengeOpensOneSession == Spec => []OneSessionPerChallenge
  <1>1. AccountInv => OneSessionPerChallenge
    BY DEF AccountInv
  <1> QED
    BY <1>1, AccountInvHolds, PTL

-----------------------------------------------------------------------------
(* Signing in implements CredentialLife: the variables of Life, by name. *)
carried(call) == IF call.op \in {"password", "open"} THEN call.version ELSE None
waiting(row)  == IF row.state \in {"open", "expired"} THEN row.version ELSE None
proofs == [a \in Calls \cup Challenges |->
              IF a \in Calls THEN IF calls[a].op \in {"password", "open"} THEN calls[a].version ELSE None
              ELSE IF challenges[a].state \in {"open", "expired"} THEN challenges[a].version ELSE None]
phases == [s \in Sessions |-> CASE sessions[s].state = "none" -> "new"
                                [] sessions[s].state = "live" -> "in"
                                [] sessions[s].state = "ended" -> "out"]

LEMMA ProofsAt ==
  /\ \A c \in Calls : proofs[c] = carried(calls[c])
  /\ \A h \in Challenges : proofs[h] = waiting(challenges[h])
  BY AccountBounds DEF proofs, carried, waiting

LEMMA ProofsAtNext ==
  /\ \A c \in Calls : proofs'[c] = carried(calls'[c])
  /\ \A h \in Challenges : proofs'[h] = waiting(challenges'[h])
  BY AccountBounds DEF proofs, carried, waiting

(* A proof that moves from one request or challenge to another. *)
LEMMA Moves ==
  ASSUME NEW a \in Calls \cup Challenges, NEW b \in Calls \cup Challenges,
         \A x \in Calls \cup Challenges :
            proofs'[x] = IF x = a THEN None ELSE IF x = b THEN proofs[a] ELSE proofs[x]
  PROVE  proofs' = [proofs EXCEPT ![b] = proofs[a], ![a] = None]
  BY DEF proofs

LEMMA Stays ==
  ASSUME \A x \in Calls \cup Challenges : proofs'[x] = proofs[x]
  PROVE  proofs' = proofs
  BY DEF proofs

phaseOf(row) == CASE row.state = "none" -> "new"
                  [] row.state = "live" -> "in"
                  [] row.state = "ended" -> "out"

LEMMA PhaseOfFacts ==
  /\ phases = [s \in Sessions |-> phaseOf(sessions[s])]
  /\ phases' = [s \in Sessions |-> phaseOf(sessions'[s])]
  /\ \A row : /\ row.state = "none" => phaseOf(row) = "new"
              /\ row.state = "live" => phaseOf(row) = "in"
              /\ row.state = "ended" => phaseOf(row) = "out"
  BY DEF phases, phaseOf

LEMMA PhasesAt ==
  ASSUME TypeOK, sessions' \in [Sessions -> Session]
  PROVE  /\ phases \in [Sessions -> {"new", "in", "out"}] /\ phases' \in [Sessions -> {"new", "in", "out"}]
         /\ \A s \in Sessions :
               /\ sessions[s].state = "none" => phases[s] = "new"
               /\ sessions[s].state = "live" => phases[s] = "in"
               /\ sessions[s].state = "ended" => phases[s] = "out"
               /\ sessions'[s].state = "none" => phases'[s] = "new"
               /\ sessions'[s].state = "live" => phases'[s] = "in"
               /\ sessions'[s].state = "ended" => phases'[s] = "out"
               /\ sessions[s].state \in {"none", "live", "ended"} /\ sessions'[s].state \in {"none", "live", "ended"}
               /\ sessions'[s] = sessions[s] => phases'[s] = phases[s]
  <1>1. \A s \in Sessions : sessions[s].state \in {"none", "live", "ended"} /\ sessions'[s].state \in {"none", "live", "ended"}
    BY DEF TypeOK, Session
  <1>2. \A s \in Sessions : phaseOf(sessions[s]) \in {"new", "in", "out"} /\ phaseOf(sessions'[s]) \in {"new", "in", "out"}
    <2>1. \A row : row.state \in {"none", "live", "ended"} => phaseOf(row) \in {"new", "in", "out"}
      BY DEF phaseOf
    <2> QED
      BY <1>1, <2>1
  <1>3. phases \in [Sessions -> {"new", "in", "out"}] /\ phases' \in [Sessions -> {"new", "in", "out"}]
    BY <1>2, PhaseOfFacts
  <1>4. ASSUME NEW s \in Sessions
        PROVE  phases[s] = phaseOf(sessions[s]) /\ phases'[s] = phaseOf(sessions'[s])
    BY PhaseOfFacts
  <1>5. ASSUME NEW s \in Sessions
        PROVE  /\ sessions[s].state = "none" => phaseOf(sessions[s]) = "new"
               /\ sessions[s].state = "live" => phaseOf(sessions[s]) = "in"
               /\ sessions[s].state = "ended" => phaseOf(sessions[s]) = "out"
               /\ sessions'[s].state = "none" => phaseOf(sessions'[s]) = "new"
               /\ sessions'[s].state = "live" => phaseOf(sessions'[s]) = "in"
               /\ sessions'[s].state = "ended" => phaseOf(sessions'[s]) = "out"
    BY DEF phaseOf
  <1>6. \A s \in Sessions : sessions'[s] = sessions[s] => phases'[s] = phases[s]
    BY <1>4
  <1> QED
    BY <1>1, <1>3, <1>4, <1>5, <1>6

LEMMA MapInit == Init => Life!Init
  <1> SUFFICES ASSUME Init PROVE Life!Init
    OBVIOUS
  <1> USE AccountBounds
  <1>1. proofs = [a \in Calls \cup Challenges |-> None]
    BY IdleFacts DEF Init, proofs
  <1>2. phases = [s \in Sessions |-> "new"]
    BY DEF Init, phases
  <1>3. user.version = 0
    BY DEF Init
  <1>4. (user.status = "active") \in BOOLEAN
    OBVIOUS
  <1> QED
    BY <1>1, <1>2, <1>3, <1>4 DEF Life!Init, proofs, phases

(* What a request in flight does. *)
LEMMA MapCalls ==
  ASSUME AccountInv, AccountInv', NEW c \in Calls,
         BeginLogin(c) \/ OpenSession(c) \/ StartChallenge(c) \/ WrongCode(c) \/ RightCode(c) \/ CommitResend(c)
         \/ Abort(c) \/ BeginChange(c) \/ BeginIssue(c) \/ CommitIssue(c)
         \/ \E h \in Challenges : BeginResend(c, h) \/ \E b \in BOOLEAN : BeginVerify(c, h, b)
  PROVE  [Life!Next]_(Life!vars)
  <1> USE AccountBounds
  <1>0. /\ TypeOK /\ calls \in [Calls -> Call] /\ challenges \in [Challenges -> Challenge] /\ AboutChallenges
        /\ sessions \in [Sessions -> Session] /\ sessions' \in [Sessions -> Session]
        /\ \A x \in Calls \cup Challenges : x \in Calls <=> x \notin Challenges
    BY DEF AccountInv, TypeOK
  <1>1. ASSUME BeginLogin(c) PROVE Life!Prove(c)
    <2>1. user.status = "active" /\ calls' = [calls EXCEPT ![c] = [Idle EXCEPT !.op = "password", !.version = user.version, !.otp = user.otp]]
          /\ UNCHANGED <<user, sessions, challenges>>
      BY <1>1 DEF BeginLogin, Begin
    <2>2. calls'[c].op = "password" /\ calls'[c].version = user.version
      BY <1>0, <2>1 DEF Idle
    <2>3. \A x \in Calls \cup Challenges : proofs'[x] = IF x = c THEN user.version ELSE proofs[x]
      BY <1>0, <2>1, <2>2 DEF proofs
    <2>4. proofs' = [proofs EXCEPT ![c] = user.version]
      BY <2>3 DEF proofs
    <2>5. phases' = phases
      BY <2>1 DEF phases
    <2> QED
      BY <2>1, <2>4, <2>5 DEF Life!Prove, proofs, phases
  <1>2. ASSUME OpenSession(c) PROVE \E s \in Sessions : Life!Enter(c, s)
    <2>1. PICK s \in Sessions :
            /\ calls[c].op = "open" \/ calls[c].op = "password"
            /\ sessions[s].state = "none"
            /\ sessions' = [sessions EXCEPT ![s] = [state |-> "live", version |-> user.version, via |-> calls[c].via]]
            /\ calls' = [calls EXCEPT ![c] = Idle]
            /\ UNCHANGED challenges
      BY <1>0, <1>2, OpenFacts
    <2>2. user.status = "active" /\ user.version = calls[c].version /\ UNCHANGED user
      BY <1>2 DEF OpenSession, sameCredentials
    <2>3. proofs[c] = user.version
      BY <2>1, <2>2 DEF proofs
    <2>4. \A x \in Calls \cup Challenges : proofs'[x] = IF x = c THEN None ELSE proofs[x]
      BY <1>0, <2>1, IdleFacts DEF proofs
    <2>5. proofs' = [proofs EXCEPT ![c] = None]
      BY <2>4 DEF proofs
    <2>6. phases[s] = "new" /\ \A t \in Sessions : phases'[t] = IF t = s THEN "in" ELSE phases[t]
      <3>1. sessions'[s].state = "live" /\ \A t \in Sessions : t # s => sessions'[t] = sessions[t]
        BY <1>0, <2>1
      <3>2. phases[s] = "new" /\ phases'[s] = "in"
        BY <1>0, <2>1, <3>1, PhasesAt
      <3>3. \A t \in Sessions : t # s => phases'[t] = phases[t]
        BY <1>0, <3>1, PhasesAt
      <3> QED
        BY <3>2, <3>3
    <2>7. phases' = [phases EXCEPT ![s] = "in"]
      BY <1>0, <2>6, PhasesAt
    <2>8. Life!Enter(c, s)
      BY <2>2, <2>3, <2>5, <2>6, <2>7 DEF Life!Enter, proofs, phases
    <2> QED
      BY <2>8
  <1>3. ASSUME NEW a \in Calls \cup Challenges, NEW b \in Calls \cup Challenges,
               \A x \in Calls \cup Challenges :
                  proofs'[x] = IF x = a THEN None ELSE IF x = b THEN proofs[a] ELSE proofs[x],
               UNCHANGED <<user, sessions>>
        PROVE  Life!Pass(a, b)
    <2>1. proofs' = [proofs EXCEPT ![b] = proofs[a], ![a] = None]
      BY <1>3, Moves
    <2>2. phases' = phases
      BY <1>3 DEF phases
    <2> QED
      BY <1>3, <2>1, <2>2 DEF Life!Pass, proofs, phases
  <1>4. ASSUME StartChallenge(c) PROVE \E h \in Challenges : Life!Pass(c, h)
    <2>1. PICK h \in Challenges :
            /\ calls[c].op = "password" /\ challenges[h].state = "none"
            /\ challenges' = [challenges EXCEPT ![h] =
                  [state |-> "open", version |-> calls[c].version, attempts |-> 0, sends |-> 1]]
            /\ End(c) /\ UNCHANGED <<user, sessions>>
      BY <1>4 DEF StartChallenge
    <2>2. calls' = [calls EXCEPT ![c] = Idle]
      BY <2>1 DEF End
    <2>3. \A x \in Calls \cup Challenges :
            proofs'[x] = IF x = c THEN None ELSE IF x = h THEN proofs[c] ELSE proofs[x]
      BY <1>0, <2>1, <2>2, IdleFacts DEF proofs
    <2>4. Life!Pass(c, h)
      BY <1>3, <2>1, <2>3
    <2> QED
      BY <2>4
  <1>5. ASSUME RightCode(c) PROVE \E h \in Challenges : Life!Pass(h, c)
    <2>1. PICK h \in Challenges :
            /\ calls[c].op = "verify" /\ calls[c].via = h
            /\ Unconsumed(h)
            /\ challenges' = [challenges EXCEPT ![h].state = "consumed"]
            /\ calls' = [calls EXCEPT ![c].op = "open"]
            /\ UNCHANGED <<user, sessions>>
      BY <1>5 DEF RightCode
    <2>2. calls'[c].op = "open" /\ calls'[c].version = calls[c].version
      BY <1>0, <2>1 DEF Call
    <2>3. calls[c].version = challenges[h].version
      BY <1>0, <2>1 DEF AboutChallenges
    <2>4. challenges'[h].state = "consumed"
      BY <1>0, <2>1 DEF Challenge
    <2>5. \A x \in Calls \cup Challenges :
            proofs'[x] = IF x = h THEN None ELSE IF x = c THEN proofs[h] ELSE proofs[x]
      <3>1. proofs'[h] = None
        BY <1>0, <2>4, ProofsAtNext DEF waiting
      <3>2. proofs'[c] = calls[c].version /\ proofs[h] = challenges[h].version
        BY <2>1, <2>2, ProofsAt, ProofsAtNext DEF carried, waiting, Unconsumed
      <3>3. \A x \in Calls \cup Challenges : x # h /\ x # c => proofs'[x] = proofs[x]
        BY <1>0, <2>1 DEF proofs
      <3> QED
        BY <2>3, <3>1, <3>2, <3>3
    <2>6. Life!Pass(h, c)
      BY <1>3, <2>1, <2>5
    <2> QED
      BY <2>6
  <1>6. ASSUME Abort(c) PROVE Life!Pass(c, c)
    <2>1. calls' = [calls EXCEPT ![c] = Idle] /\ UNCHANGED <<user, sessions, challenges>>
      BY <1>6 DEF Abort, End
    <2>2. \A x \in Calls \cup Challenges : proofs'[x] = IF x = c THEN None ELSE IF x = c THEN proofs[c] ELSE proofs[x]
      BY <1>0, <2>1, IdleFacts DEF proofs
    <2> QED
      BY <1>3, <2>1, <2>2
  <1>7. ASSUME \A x \in Calls \cup Challenges : proofs'[x] = proofs[x], UNCHANGED <<user, sessions>>
        PROVE  UNCHANGED Life!vars
    <2>1. proofs' = proofs /\ phases' = phases
      BY <1>7, Stays DEF phases
    <2> QED
      BY <1>7, <2>1 DEF Life!vars, proofs, phases
  <1>8. ASSUME BeginChange(c) \/ BeginIssue(c) \/ \E h \in Challenges : BeginResend(c, h) \/ \E b \in BOOLEAN : BeginVerify(c, h, b)
        PROVE  UNCHANGED Life!vars
    <2>1. ASSUME NEW call, Begin(c, call), call.op \notin {"password", "open"}
          PROVE  UNCHANGED Life!vars
      <3>1. /\ calls' = [calls EXCEPT ![c] = call] /\ calls[c].op = "idle"
            /\ UNCHANGED <<user, sessions, challenges>>
        BY <2>1 DEF Begin
      <3>2. \A x \in Calls \cup Challenges : proofs'[x] = proofs[x]
        BY <1>0, <2>1, <3>1 DEF proofs
      <3> QED
        BY <1>7, <3>1, <3>2
    <2>2. ASSUME BeginChange(c) PROVE UNCHANGED Life!vars
      <3>1. [Idle EXCEPT !.op = "change", !.version = user.version].op = "change"
        BY DEF Idle
      <3> QED
        BY <2>1, <2>2, <3>1 DEF BeginChange
    <2>3. ASSUME NEW h \in Challenges, BeginResend(c, h) PROVE UNCHANGED Life!vars
      <3>1. [Idle EXCEPT !.op = "resend", !.via = h].op = "resend"
        BY DEF Idle
      <3> QED
        BY <2>1, <2>3, <3>1 DEF BeginResend
    <2>4. ASSUME NEW h \in Challenges, NEW b \in BOOLEAN, BeginVerify(c, h, b) PROVE UNCHANGED Life!vars
      <3> DEFINE call == [Idle EXCEPT !.op = "verify", !.version = challenges[h].version, !.via = h, !.right = b]
      <3>1. call.op = "verify"
        BY DEF Idle
      <3>2. Begin(c, call)
        BY <2>4 DEF BeginVerify
      <3> HIDE DEF call
      <3> QED
        BY <2>1, <3>1, <3>2
    <2>5. ASSUME BeginIssue(c) PROVE UNCHANGED Life!vars
      <3> DEFINE call == [Idle EXCEPT !.op = "issue", !.version = user.version,
                           !.seen = {l \in Links : links[l].state = "unused" /\ links[l].kind = "activation"}]
      <3>1. call.op = "issue"
        BY DEF Idle
      <3>2. Begin(c, call)
        BY <2>5 DEF BeginIssue
      <3> HIDE DEF call
      <3> QED
        BY <2>1, <3>1, <3>2
    <2> QED
      BY <1>8, <2>2, <2>3, <2>4, <2>5
  <1>9. ASSUME WrongCode(c) PROVE UNCHANGED Life!vars
    <2>1. PICK h \in Challenges :
            /\ calls[c].op = "verify"
            /\ challenges' = [challenges EXCEPT ![h].attempts = @ + 1]
            /\ End(c) /\ UNCHANGED <<user, sessions>>
      BY <1>9 DEF WrongCode
    <2>2. calls' = [calls EXCEPT ![c] = Idle]
      BY <2>1 DEF End
    <2>3. \A g \in Challenges : challenges'[g].state = challenges[g].state /\ challenges'[g].version = challenges[g].version
      BY <1>0, <2>1 DEF Challenge
    <2>4. \A x \in Calls \cup Challenges : proofs'[x] = proofs[x]
      BY <1>0, <2>1, <2>2, <2>3, IdleFacts DEF proofs
    <2> QED
      BY <1>7, <2>1, <2>4
  <1>10. ASSUME CommitResend(c) PROVE UNCHANGED Life!vars
    <2>1. PICK h \in Challenges :
            /\ calls[c].op = "resend"
            /\ challenges' = [challenges EXCEPT ![h].attempts = 0, ![h].sends = @ + 1,
                                                ![h].state = IF @ = "expired" THEN "open" ELSE @]
            /\ End(c) /\ UNCHANGED <<user, sessions>>
      BY <1>10 DEF CommitResend
    <2>2. calls' = [calls EXCEPT ![c] = Idle]
      BY <2>1 DEF End
    <2>3. \A g \in Challenges : challenges'[g].version = challenges[g].version
            /\ (challenges'[g].state \in {"open", "expired"} <=> challenges[g].state \in {"open", "expired"})
      BY <1>0, <2>1 DEF Challenge
    <2>4. \A x \in Calls \cup Challenges : proofs'[x] = proofs[x]
      BY <1>0, <2>1, <2>2, <2>3, IdleFacts DEF proofs
    <2> QED
      BY <1>7, <2>1, <2>4
  <1>11. ASSUME CommitIssue(c) PROVE UNCHANGED Life!vars
    <2>1. calls[c].op = "issue" /\ calls' = [calls EXCEPT ![c] = Idle] /\ UNCHANGED <<user, sessions, challenges>>
      BY <1>11 DEF CommitIssue, End
    <2>2. \A x \in Calls \cup Challenges : proofs'[x] = proofs[x]
      BY <1>0, <2>1, IdleFacts DEF proofs
    <2> QED
      BY <1>7, <2>1, <2>2
  <1> QED
    BY <1>1, <1>2, <1>4, <1>5, <1>6, <1>8, <1>9, <1>10, <1>11 DEF Life!Next, Life!Drop

(* What a new password, the end of a session and everything else do. *)
LEMMA MapStep == AccountInv /\ AccountInv' /\ [Next]_vars => [Life!Next]_(Life!vars)
  <1> SUFFICES ASSUME AccountInv, AccountInv', [Next]_vars PROVE [Life!Next]_(Life!vars)
    OBVIOUS
  <1> USE AccountBounds
  <1>0. /\ TypeOK /\ calls \in [Calls -> Call] /\ challenges \in [Challenges -> Challenge]
        /\ sessions \in [Sessions -> Session] /\ sessions' \in [Sessions -> Session]
        /\ user \in [status: UserStatuses, version: 0..MaxVersion, otp: BOOLEAN, mustChange: BOOLEAN]
        /\ \A x \in Calls \cup Challenges : x \in Calls <=> x \notin Challenges
    BY DEF AccountInv, TypeOK
  <1>1. CASE Changes
    <2>1. /\ user'.version = user.version + 1 /\ user'.status = "active"
          /\ sessions' = revokeAll /\ UNCHANGED challenges
          /\ \/ UNCHANGED calls
             \/ \E c \in Calls : calls[c].op = "change" /\ End(c)
      BY <1>0, <1>1, ChangeFacts
    <2>2. \A x \in Calls \cup Challenges : proofs'[x] = proofs[x]
      BY <1>0, <2>1, IdleFacts DEF proofs, End
    <2>3. proofs' = proofs
      BY <2>2, Stays
    <2>4. \A s \in Sessions : phases'[s] = IF phases[s] = "in" THEN "out" ELSE phases[s]
      <3> TAKE s \in Sessions
      <3>1. sessions'[s] = IF sessions[s].state = "live" THEN ended(s) ELSE sessions[s]
        BY <2>1 DEF revokeAll
      <3>2. sessions[s].state = "live" => sessions'[s].state = "ended"
        BY <3>1 DEF ended
      <3>3. sessions[s].state # "live" => sessions'[s].state = sessions[s].state
        BY <3>1
      <3> QED
        BY <1>0, <3>2, <3>3, PhasesAt
    <2>5. phases' = [s \in Sessions |-> IF phases[s] = "in" THEN "out" ELSE phases[s]]
      BY <1>0, <2>4, PhasesAt
    <2>6. Life!Change
      BY <2>1, <2>3, <2>5 DEF Life!Change, proofs, phases
    <2> QED
      BY <2>6 DEF Life!Next
  <1>2. CASE Ends
    <2>1. PICK s \in Sessions : sessions[s].state = "live" /\ sessions' = [sessions EXCEPT ![s] = ended(s)]
                                /\ UNCHANGED <<user, challenges, calls>>
      BY <1>2 DEF Ends, logout, expireSession
    <2>2. sessions'[s].state = "ended" /\ \A t \in Sessions : t # s => sessions'[t] = sessions[t]
      BY <1>0, <2>1 DEF ended
    <2>3. phases[s] = "in" /\ phases'[s] = "out"
      BY <1>0, <2>1, <2>2, PhasesAt
    <2>4. \A t \in Sessions : t # s => phases'[t] = phases[t]
      BY <1>0, <2>2, PhasesAt
    <2>5. phases' = [phases EXCEPT ![s] = "out"]
      BY <1>0, <2>3, <2>4, PhasesAt
    <2>6. proofs' = proofs
      BY <2>1 DEF proofs
    <2>7. Life!Leave(s)
      BY <2>1, <2>3, <2>5, <2>6 DEF Life!Leave, proofs, phases
    <2> QED
      BY <2>7 DEF Life!Next
  <1>3. ASSUME UNCHANGED <<sessions, calls>>,
               \A h \in Challenges : waiting(challenges'[h]) = waiting(challenges[h]),
               user'.version = user.version
        PROVE  [Life!Next]_(Life!vars)
    <2>1. \A x \in Calls \cup Challenges : proofs'[x] = proofs[x]
      BY <1>0, <1>3, ProofsAt, ProofsAtNext
    <2>2. proofs' = proofs /\ phases' = phases
      BY <1>3, <2>1, Stays DEF phases
    <2>3. Life!Allow
      BY <1>3, <2>2 DEF Life!Allow, proofs, phases
    <2> QED
      BY <2>3 DEF Life!Next
  <1>4. CASE \E l \in Links : expireLink(l) \/ \E k \in LinkKinds : issueLink(l, k)
    BY <1>3, <1>4 DEF expireLink, issueLink
  <1>5. CASE setLoginOtp
    BY <1>0, <1>3, <1>5 DEF setLoginOtp
  <1>6. CASE \E st \in {"active", "disabled"} : setUserStatus(st)
    BY <1>0, <1>3, <1>6 DEF setUserStatus
  <1>7. CASE \E h \in Challenges : expireChallenge(h)
    <2>1. PICK h \in Challenges : challenges[h].state = "open" /\ UNCHANGED <<user, sessions, calls>>
                                  /\ challenges' = [challenges EXCEPT ![h].state = "expired"]
      BY <1>7 DEF expireChallenge
    <2>2. \A g \in Challenges : waiting(challenges'[g]) = waiting(challenges[g])
      BY <1>0, <2>1 DEF Challenge, waiting
    <2> QED
      BY <1>3, <2>1, <2>2
  <1>8. CASE UNCHANGED vars
    BY <1>3, <1>8 DEF vars
  <1>9. CASE \E c \in Calls : \/ BeginLogin(c) \/ OpenSession(c) \/ StartChallenge(c)
                             \/ WrongCode(c) \/ RightCode(c) \/ CommitResend(c)
                             \/ BeginChange(c) \/ BeginIssue(c) \/ CommitIssue(c) \/ Abort(c)
                             \/ \E h \in Challenges : BeginResend(c, h) \/ \E b \in BOOLEAN : BeginVerify(c, h, b)
    BY <1>9, MapCalls
  <1> QED
    BY <1>1, <1>2, <1>4, <1>5, <1>6, <1>7, <1>8, <1>9 DEF Next, Changes, Ends

(* Signing in does what CredentialLife promises: a proof of the password is used for one entry, and none *)
(* that is older than the password lets anybody in.                                                      *)
THEOREM SignInImplementsCredentialLife == Spec => ImplementsCredentialLife
  <1>1. Init => Life!Init
    BY MapInit
  <1>2. AccountInv /\ AccountInv' /\ [Next]_vars => [Life!Next]_(Life!vars)
    BY MapStep
  <1> QED
    BY <1>1, <1>2, AccountInvHolds, PTL DEF Spec, ImplementsCredentialLife, Life!Spec

===============================================================================
