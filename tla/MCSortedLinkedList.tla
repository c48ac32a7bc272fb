------------------------- MODULE MCSortedLinkedList -------------------------
(***************************************************************************)
(* Five keys and three values: lists long enough that an element can move  *)
(* over several others, with two ties at once and a place between them.    *)
(***************************************************************************)
EXTENDS SortedLinkedListWithMedian, ListHints, TLC

Symmetry == Permutations(Keys)

=============================================================================
