----------------------------- MODULE SortedSeq ------------------------------
(***************************************************************************)
(* Sequences of elements [key, value] sorted by decreasing value: what a   *)
(* list of SortedLinkedList.sol contains, read from its head to its tail.  *)
(***************************************************************************)
EXTENDS Integers, Sequences, SequencesExt

KeySet(s) == {s[i].key : i \in DOMAIN s}

Sorted(s) == \A i, j \in DOMAIN s : i < j => s[i].value >= s[j].value

Position(s, k) == CHOOSE i \in DOMAIN s : s[i].key = k

getValue(s, k) == s[Position(s, k)].value

Without(s, k) == RemoveAt(s, Position(s, k))

\* The sequences that result from putting k, with value v, at a place in s
\* that keeps it sorted.  Among elements of equal value any place will do.
Placements(s, k, v) ==
    {t \in {InsertAt(s, i, [key |-> k, value |-> v]) : i \in 1..Len(s) + 1} :
        Sorted(t)}

=============================================================================
