------------------------- MODULE MCGovernanceHotfix -------------------------
(***************************************************************************)
(* Three signers, two of them of one account, and three epochs of two      *)
(* blocks: the validator set changes under a hotfix that was whitelisted   *)
(* or prepared before.                                                     *)
(***************************************************************************)
EXTENDS GovernanceHotfix, TLC

CONSTANTS s1, s2, s3, v1, v2

SignerAccounts == (s1 :> v1) @@ (s2 :> v2) @@ (s3 :> v2)

=============================================================================
