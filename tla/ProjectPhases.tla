--------------------------- MODULE ProjectPhases ---------------------------
(***************************************************************************)
(* What the life of an approved project promises, without its handlers: it *)
(* is carried out, accepted by the Academy (and by the superior level when *)
(* its level asks for it), liquidated and closed.  A returned dossier is   *)
(* the only way back; an outcome, once there, is final.  The diagram is in *)
(* docs/design/nghiem-thu-thanh-ly-dong-de-tai.md, section 1.              *)
(***************************************************************************)
VARIABLES phase, outcome

vars == <<phase, outcome>>

Phases == {"preparing", "executing", "facility", "superior", "concluded", "liquidated", "closed"}
Outcomes == {"none", "accepted", "failed"}

Init == phase = "preparing" /\ outcome = "none"

Start == phase = "preparing" /\ phase' = "executing" /\ UNCHANGED outcome

SubmitDossier == phase = "executing" /\ phase' = "facility" /\ UNCHANGED outcome

ReturnDossier == phase = "facility" /\ phase' = "executing" /\ UNCHANGED outcome

\* The facility council has passed a project that the superior level must accept too.
Refer == phase = "facility" /\ phase' = "superior" /\ UNCHANGED outcome

\* The last council that has a say concludes.
Conclude ==
    /\ phase \in {"facility", "superior"}
    /\ phase' = "concluded"
    /\ outcome' \in {"accepted", "failed"}

Liquidate == phase = "concluded" /\ phase' = "liquidated" /\ UNCHANGED outcome

Close == phase = "liquidated" /\ phase' = "closed" /\ UNCHANGED outcome

Next == Start \/ SubmitDossier \/ ReturnDossier \/ Refer \/ Conclude \/ Liquidate \/ Close

Spec == Init /\ [][Next]_vars
=============================================================================
