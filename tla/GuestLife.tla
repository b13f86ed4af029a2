------------------------------ MODULE GuestLife ------------------------------
(* What a conference promises the persons it invites: an invitation is sent,  *)
(* answered once or revoked, and only an accepted guest ever has a talk.      *)
CONSTANT Guests

VARIABLES phase,  \* [Guests -> none, draft, sent, accepted, declined or revoked]
          talk    \* [Guests -> none, live or withdrawn]

vars == <<phase, talk>>

Init == /\ phase = [g \in Guests |-> "none"]
        /\ talk = [g \in Guests |-> "none"]

Answered == {"accepted", "declined", "revoked"}

Moves == {<<"none", "draft">>, <<"draft", "sent">>, <<"sent", "accepted">>, <<"sent", "declined">>,
          <<"draft", "revoked">>, <<"sent", "revoked">>, <<"accepted", "revoked">>}

\* One guest moves; a talk begins with the acceptance and ends with the revocation.
Move(g) == \E m \in Moves :
    /\ phase[g] = m[1]
    /\ phase' = [phase EXCEPT ![g] = m[2]]
    /\ \/ m[2] # "revoked" /\ UNCHANGED talk
       \/ m[2] = "accepted" /\ talk' = [talk EXCEPT ![g] = "live"]
       \/ m[2] = "revoked" /\ talk' = [talk EXCEPT ![g] = IF @ = "live" THEN "withdrawn" ELSE @]

\* One mailing sends several drafts.
Send == \E S \in SUBSET {g \in Guests : phase[g] = "draft"} :
    /\ phase' = [g \in Guests |-> IF g \in S THEN "sent" ELSE phase[g]]
    /\ UNCHANGED talk

\* The talk of an accepted guest is withdrawn, for good.
Withdraw(g) == /\ phase[g] = "accepted"
               /\ talk[g] = "live"
               /\ talk' = [talk EXCEPT ![g] = "withdrawn"]
               /\ UNCHANGED phase

Next == Send \/ \E g \in Guests : Move(g) \/ Withdraw(g)

Spec == Init /\ [][Next]_vars
=============================================================================
