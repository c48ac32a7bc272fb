-------------------------- MODULE SortedLinkedList --------------------------
(***************************************************************************)
(* The doubly linked list that LinkedList.sol and SortedLinkedList.sol     *)
(* keep in contract storage.  previousKey points towards the tail (lesser  *)
(* values), nextKey towards the head (greater values).  A caller that      *)
(* inserts or updates an element passes two hints, lesserKey and           *)
(* greaterKey, and the call reverts when neither leads to a right place.   *)
(*                                                                         *)
(* The library's functions are operators on the whole list, so that update *)
(* is literally an insert into the list that remove returns; an operator   *)
(* named can... is the conjunction of the function's require statements.   *)
(***************************************************************************)
EXTENDS Integers, Sequences

CONSTANTS Keys,       \* the keys an element may have
          Zero,       \* bytes32(0), the key that stands for no element
          MaxValue    \* bound on the values: they range over 0..MaxValue

ASSUME SortedLinkedListAssumption == Zero \notin Keys /\ MaxValue \in Nat

VARIABLE list

Hints == Keys \cup {Zero}

NoElement == [previousKey |-> Zero, nextKey |-> Zero, exists |-> FALSE]

EmptyList ==
    [head |-> Zero, tail |-> Zero, numElements |-> 0,
     elements |-> [k \in Keys |-> NoElement],
     values   |-> [k \in Keys |-> 0]]

contains(L, k) == k # Zero /\ L.elements[k].exists

(***************************************************************************)
(* LinkedList.sol                                                          *)
(***************************************************************************)
canLink(L, k, previousKey, nextKey) ==
    /\ k # Zero /\ ~contains(L, k)
    /\ previousKey # k /\ nextKey # k
    /\ L.numElements # 0 =>
          /\ previousKey # Zero \/ nextKey # Zero
          /\ previousKey # Zero => /\ contains(L, previousKey)
                                   /\ L.elements[previousKey].nextKey = nextKey
          /\ nextKey # Zero => /\ contains(L, nextKey)
                               /\ L.elements[nextKey].previousKey = previousKey

linkNonEmpty(L, k, previousKey, nextKey) ==
    LET new  == [previousKey |-> previousKey, nextKey |-> nextKey, exists |-> TRUE]
        after(x) == IF x = previousKey THEN [L.elements[x] EXCEPT !.nextKey = k]
                                       ELSE L.elements[x]
        both(x)  == IF x = nextKey THEN [after(x) EXCEPT !.previousKey = k]
                                   ELSE after(x)
    IN  [L EXCEPT !.elements = [x \in Keys |-> IF x = k THEN new ELSE both(x)],
                  !.tail = IF previousKey = Zero THEN k ELSE @,
                  !.head = IF nextKey = Zero THEN k ELSE @,
                  !.numElements = @ + 1]

link(L, k, previousKey, nextKey) ==
    IF L.numElements = 0
    THEN [L EXCEPT !.elements[k].exists = TRUE, !.tail = k, !.head = k,
                   !.numElements = @ + 1]
    ELSE linkNonEmpty(L, k, previousKey, nextKey)

\* Mutant: the element below the removed one still points to it.
unlinkOneSide(L, k) ==
    LET e == L.elements[k]
        both(x) == IF x = e.nextKey THEN [L.elements[x] EXCEPT !.previousKey = e.previousKey]
                                    ELSE L.elements[x]
    IN  [L EXCEPT !.elements = [x \in Keys |-> IF x = k THEN NoElement ELSE both(x)],
                  !.tail = IF e.previousKey = Zero THEN e.nextKey ELSE @,
                  !.head = IF e.nextKey = Zero THEN e.previousKey ELSE @,
                  !.numElements = @ - 1]

unlink(L, k) ==
    LET e == L.elements[k]
        before(x) == IF x = e.previousKey THEN [L.elements[x] EXCEPT !.nextKey = e.nextKey]
                                          ELSE L.elements[x]
        both(x)   == IF x = e.nextKey THEN [before(x) EXCEPT !.previousKey = e.previousKey]
                                      ELSE before(x)
    IN  [L EXCEPT !.elements = [x \in Keys |-> IF x = k THEN NoElement ELSE both(x)],
                  !.tail = IF e.previousKey = Zero THEN e.nextKey ELSE @,
                  !.head = IF e.nextKey = Zero THEN e.previousKey ELSE @,
                  !.numElements = @ - 1]

headN(L, n) ==
    LET keys[i \in 1..n] == IF i = 1 THEN L.head
                                     ELSE L.elements[keys[i - 1]].previousKey
    IN  keys

(***************************************************************************)
(* SortedLinkedList.sol                                                    *)
(***************************************************************************)
isValueBetween(L, v, lesserKey, greaterKey) ==
    /\ lesserKey = Zero \/ L.values[lesserKey] <= v
    /\ greaterKey = Zero \/ L.values[greaterKey] >= v

\* The four ways a hint may lead to a place, tried in this order.
NoPlace == [lesser |-> Zero, greater |-> Zero, found |-> FALSE]

\* Mutant: the place below a correct greaterKey is not tried.
getLesserAndGreaterThreeWays(L, v, lesserKey, greaterKey) ==
    LET place(l, g) == [lesser |-> l, greater |-> g, found |-> TRUE]
        above == L.elements[lesserKey].nextKey
    IN  IF lesserKey = Zero /\ isValueBetween(L, v, lesserKey, L.tail)
        THEN place(lesserKey, L.tail)
        ELSE IF greaterKey = Zero /\ isValueBetween(L, v, L.head, greaterKey)
        THEN place(L.head, greaterKey)
        ELSE IF lesserKey # Zero /\ isValueBetween(L, v, lesserKey, above)
        THEN place(lesserKey, above)
        ELSE NoPlace

getLesserAndGreater(L, v, lesserKey, greaterKey) ==
    LET place(l, g) == [lesser |-> l, greater |-> g, found |-> TRUE]
        above == L.elements[lesserKey].nextKey
        below == L.elements[greaterKey].previousKey
    IN  IF lesserKey = Zero /\ isValueBetween(L, v, lesserKey, L.tail)
        THEN place(lesserKey, L.tail)
        ELSE IF greaterKey = Zero /\ isValueBetween(L, v, L.head, greaterKey)
        THEN place(L.head, greaterKey)
        ELSE IF lesserKey # Zero /\ isValueBetween(L, v, lesserKey, above)
        THEN place(lesserKey, above)
        ELSE IF greaterKey # Zero /\ isValueBetween(L, v, below, greaterKey)
        THEN place(below, greaterKey)
        ELSE NoPlace

canInsert(L, k, v, lesserKey, greaterKey) ==
    LET place == getLesserAndGreater(L, v, lesserKey, greaterKey)
    IN  /\ k # Zero /\ k # lesserKey /\ k # greaterKey /\ ~contains(L, k)
        /\ lesserKey # Zero \/ greaterKey # Zero \/ L.numElements = 0
        /\ contains(L, lesserKey) \/ lesserKey = Zero
        /\ contains(L, greaterKey) \/ greaterKey = Zero
        /\ place.found
        /\ canLink(L, k, place.lesser, place.greater)

insert(L, k, v, lesserKey, greaterKey) ==
    LET place == getLesserAndGreater(L, v, lesserKey, greaterKey)
    IN  [link(L, k, place.lesser, place.greater) EXCEPT !.values[k] = v]

remove(L, k) == [unlink(L, k) EXCEPT !.values[k] = 0]

\* Mutant: the elements are popped from the tail.
popNFromTail(L, n) ==
    LET rest[i \in 0..n] == IF i = 0 THEN L ELSE remove(rest[i - 1], rest[i - 1].tail)
    IN  rest[n]

popN(L, n) ==
    LET rest[i \in 0..n] == IF i = 0 THEN L ELSE remove(rest[i - 1], rest[i - 1].head)
    IN  rest[n]

-----------------------------------------------------------------------------

Init == list = EmptyList

Insert(k, v, lesserKey, greaterKey) ==
    /\ canInsert(list, k, v, lesserKey, greaterKey)
    /\ list' = insert(list, k, v, lesserKey, greaterKey)

Delete(k) ==
    /\ contains(list, k)
    /\ list' = remove(list, k)

Update(k, v, lesserKey, greaterKey) ==
    /\ contains(list, k)
    /\ canInsert(remove(list, k), k, v, lesserKey, greaterKey)
    /\ list' = insert(remove(list, k), k, v, lesserKey, greaterKey)

Push(k) ==
    /\ canInsert(list, k, 0, Zero, list.tail)
    /\ list' = insert(list, k, 0, Zero, list.tail)

PopN(n) ==
    /\ n <= list.numElements
    /\ list' = popN(list, n)

Next ==
    \/ \E k \in Keys, v \in 0..MaxValue, lesserKey, greaterKey \in Hints :
          Insert(k, v, lesserKey, greaterKey) \/ Update(k, v, lesserKey, greaterKey)
    \/ \E k \in Keys : Delete(k) \/ Push(k)
    \/ \E n \in 0..list.numElements : PopN(n)

Spec == Init /\ [][Next]_list

-----------------------------------------------------------------------------
(***************************************************************************)
(* Properties                                                              *)
(***************************************************************************)

getElements == LET keys == headN(list, list.numElements)
               IN  [i \in 1..list.numElements |->
                       [key |-> keys[i], value |-> list.values[keys[i]]]]

\* Walking previousKey from the head visits every element once and ends at the
\* tail, and nextKey leads back the same way: what headN and popN rely on after
\* any mixture of inserts, updates and removals.  An element that is not in the list
\* has neither links nor a value left over.
WalksAgree ==
    LET keys == headN(list, list.numElements)
        n    == list.numElements
    IN  /\ {keys[i] : i \in 1..n} = {k \in Keys : contains(list, k)}
        /\ \A i, j \in 1..n : keys[i] = keys[j] => i = j
        /\ list.tail = IF n = 0 THEN Zero ELSE keys[n]
        /\ \A i \in 1..n :
              list.elements[keys[i]] =
                 [nextKey |-> IF i = 1 THEN Zero ELSE keys[i - 1],
                  previousKey |-> IF i = n THEN Zero ELSE keys[i + 1],
                  exists |-> TRUE]
        /\ \A k \in Keys : ~contains(list, k) => /\ list.elements[k] = NoElement
                                                 /\ list.values[k] = 0

\* The comment on update says that only one of the two hints needs to be correct.
\* Take any place that keeps the list sorted and its two neighbours: with one of
\* them as a hint, and any element of the list (or none) as the other, the insert
\* goes through; with both it puts the element at that very place.
OneCorrectHintSuffices ==
    LET n    == list.numElements
        keys == headN(list, n)
        at(i) == IF i \in 1..n THEN keys[i] ELSE Zero
    IN  \A k \in Keys, v \in 0..MaxValue, i \in 0..n, other \in Hints :
          (/\ ~contains(list, k)
           /\ isValueBetween(list, v, at(i + 1), at(i))
           /\ other = Zero \/ contains(list, other))
          => /\ canInsert(list, k, v, at(i + 1), at(i))
             /\ LET new == insert(list, k, v, at(i + 1), at(i))
                IN  headN(new, n + 1)[i + 1] = k
             /\ n # 0 /\ ~(at(i + 1) = Zero /\ other = Zero)
                   => canInsert(list, k, v, at(i + 1), other)
             /\ n # 0 /\ ~(at(i) = Zero /\ other = Zero)
                   => canInsert(list, k, v, other, at(i))

\* Read from head to tail, the linked list behaves as the abstract sorted list:
\* whatever the hints, an inserted, updated or pushed element lands where the order
\* stays intact and nothing else moves, and popN takes the greatest values.
Abstract == INSTANCE SortedList WITH elements <- getElements

ImplementsSortedList == Abstract!Spec

=============================================================================
