---------------------------- MODULE MCLockedGold ----------------------------
(***************************************************************************)
(* Instances of LockedGold for TLC.  Groups have one member each, of three *)
(* registered validators.                                                  *)
(***************************************************************************)
EXTENDS LockedGold

OneMember == [g \in Groups |-> 1]

NoRequirement == [a \in Accounts |-> 0]

RequireOne == [a \in Accounts |-> 1]

Symmetry == Permutations(Accounts) \cup Permutations(Groups)

=============================================================================
