------------------------- MODULE MCElectValidators --------------------------
(***************************************************************************)
(* Instances of ElectValidators for TLC.                                   *)
(***************************************************************************)
EXTENDS ElectValidators

\* A group needs a tenth of the votes.
OneTenth == newFixedFraction(1, 10)

=============================================================================
