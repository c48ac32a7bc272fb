----------------------------- MODULE MCMultiSig -----------------------------
(***************************************************************************)
(* Instances of MultiSig for TLC: o1 and o2 own the wallet at first, o3    *)
(* may join.                                                               *)
(***************************************************************************)
EXTENDS MultiSig

CONSTANTS o1, o2, o3

TwoOwners == <<o1, o2>>

\* Every call of the wallet's functions, the refused ones too.
AllCalls ==
    [fn : {"external"}]
    \cup [fn : {"addOwner", "removeOwner"}, owner : Addresses \cup {NullAddress}]
    \cup [fn : {"replaceOwner"}, owner : Addresses, newOwner : Addresses \cup {NullAddress}]
    \cup [fn : {"changeRequirement", "changeInternalRequirement"},
          required : 0..MAX_OWNER_COUNT + 1]

=============================================================================
