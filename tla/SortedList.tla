----------------------------- MODULE SortedList -----------------------------
(***************************************************************************)
(* What the sorted list library promises its users (Governance keeps its   *)
(* proposal queue in one, Election its eligible groups): a sequence of     *)
(* distinct keys with their values, greatest value first.  How the list is *)
(* stored, and how a caller points at a position, is left to the           *)
(* implementation, SortedLinkedList.                                       *)
(***************************************************************************)
EXTENDS SortedSeq

CONSTANTS Keys,       \* the keys an element may have
          MaxValue    \* bound on the values: they range over 0..MaxValue

VARIABLE elements     \* the [key, value] records, from the head to the tail

-----------------------------------------------------------------------------

Init == elements = <<>>

Insert(k, v) ==
    /\ k \notin KeySet(elements)
    /\ elements' \in Placements(elements, k, v)

Delete(k) ==
    /\ k \in KeySet(elements)
    /\ elements' = Without(elements, k)

Update(k, v) ==
    /\ k \in KeySet(elements)
    /\ elements' \in Placements(Without(elements, k), k, v)

\* A pushed element goes behind all the others.
Push(k) ==
    /\ k \notin KeySet(elements)
    /\ elements' = Append(elements, [key |-> k, value |-> 0])

PopN(n) ==
    /\ n <= Len(elements)
    /\ elements' = SubSeq(elements, n + 1, Len(elements))

Next ==
    \/ \E k \in Keys, v \in 0..MaxValue : Insert(k, v) \/ Update(k, v)
    \/ \E k \in Keys : Delete(k) \/ Push(k)
    \/ \E n \in 0..Len(elements) : PopN(n)

Spec == Init /\ [][Next]_elements

=============================================================================
