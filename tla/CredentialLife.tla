---------------------------- MODULE CredentialLife ----------------------------
(* What sign-in promises of one account: whoever enters has proven the secret *)
(* in force at that moment, a proof is good for one entry, and a new secret   *)
(* puts everybody out.                                                        *)
EXTENDS Naturals

CONSTANTS Attempts,  \* what may carry a proof: a request, or a challenge that waits for its code
          Sessions,
          None

VARIABLES allowed,   \* the account may be used
          secret,    \* how often the secret has changed
          proof,     \* [Attempts -> the secret that was proven, or None]
          phase      \* [Sessions -> new, in or out]

vars == <<allowed, secret, proof, phase>>

Init == /\ allowed \in BOOLEAN
        /\ secret = 0
        /\ proof = [a \in Attempts |-> None]
        /\ phase = [s \in Sessions |-> "new"]

Allow == allowed' \in BOOLEAN /\ UNCHANGED <<secret, proof, phase>>

Prove(a) == /\ allowed
            /\ proof' = [proof EXCEPT ![a] = secret]
            /\ UNCHANGED <<allowed, secret, phase>>

\* The proof moves on, it is never copied.
Pass(a, b) == /\ proof' = [proof EXCEPT ![b] = proof[a], ![a] = None]
              /\ UNCHANGED <<allowed, secret, phase>>

Drop(a) == Pass(a, a)

Enter(a, s) == /\ allowed
               /\ proof[a] = secret
               /\ phase[s] = "new"
               /\ phase' = [phase EXCEPT ![s] = "in"]
               /\ proof' = [proof EXCEPT ![a] = None]
               /\ UNCHANGED <<allowed, secret>>

Leave(s) == /\ phase[s] = "in"
            /\ phase' = [phase EXCEPT ![s] = "out"]
            /\ UNCHANGED <<allowed, secret, proof>>

Change == /\ secret' = secret + 1
          /\ allowed'
          /\ phase' = [s \in Sessions |-> IF phase[s] = "in" THEN "out" ELSE phase[s]]
          /\ UNCHANGED proof

Next == \/ Allow \/ Change
        \/ \E a \in Attempts : \/ Prove(a) \/ Drop(a)
                               \/ \E b \in Attempts : Pass(a, b)
                               \/ \E s \in Sessions : Enter(a, s)
        \/ \E s \in Sessions : Leave(s)

Spec == Init /\ [][Next]_vars
===============================================================================
