---------------------------- MODULE MCEthicsCouncil ----------------------------
(* Small instances of EthicsCouncil for TLC. *)
EXTENDS EthicsCouncil, TLC

CONSTANTS ann, bob, cam, dir, none

\* One chair, one secretary, one or two reviewers, at most one member.
MCMin == [r \in MemberRoles |-> IF r = "member" THEN 0 ELSE 1]
MCMax == [r \in MemberRoles |-> IF r = "reviewer" THEN 2 ELSE 1]

First  == (ann :> "chair") @@ (bob :> "secretary") @@ (cam :> "reviewer") @@ (dir :> None)
Signer == (ann :> "chair") @@ (bob :> "secretary") @@ (cam :> "reviewer") @@ (dir :> "reviewer")
Swap   == (ann :> "secretary") @@ (bob :> "chair") @@ (cam :> None) @@ (dir :> "reviewer")
Part   == (ann :> "chair") @@ (bob :> None) @@ (cam :> None) @@ (dir :> None)
MCLists == {First, Signer, Swap, Part}
===============================================================================
