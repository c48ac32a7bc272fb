--------------------- MODULE SortedLinkedListWithMedian ---------------------
(***************************************************************************)
(* The sorted list with a tracked median in which SortedOracles.sol keeps  *)
(* the reported rates.  An operation of the list moves the median by one   *)
(* place or leaves it, which it decides from the parity of the length and  *)
(* from how the element, or its neighbour, is related to the old median.   *)
(***************************************************************************)
EXTENDS SortedLinkedList

VARIABLES median,     \* the key of the median element
          relation    \* of each key to the median; left over for removed ones

medianVars == <<list, median, relation>>

MedianInit ==
    /\ Init
    /\ median = Zero
    /\ relation = [k \in Hints |-> "Undefined"]

Middle == [median |-> median, relation |-> relation]

updateMedian(L, M, action) ==
    LET old   == M.median
        next  == CASE action = "Lesser"  -> L.elements[old].previousKey
                   [] action = "Greater" -> L.elements[old].nextKey
                   [] OTHER -> old
        aside == CASE action = "Lesser"  -> [M.relation EXCEPT ![old] = "Greater"]
                   [] action = "Greater" -> [M.relation EXCEPT ![old] = "Lesser"]
                   [] OTHER -> M.relation
    IN  [median |-> next, relation |-> [aside EXCEPT ![next] = "Equal"]]

\* Mutant: an element that is inserted next to the median counts as below it.
sideOfInsertNextTo(L, M, k) ==
    LET below == L.elements[k].previousKey
        above == L.elements[k].nextKey
    IN  IF L.numElements % 2 = 1
        THEN IF below = Zero \/ M.relation[below] # "Greater" THEN "Lesser" ELSE "Greater"
        ELSE IF above = Zero \/ M.relation[above] = "Greater" THEN "Greater" ELSE "Lesser"

\* L is the list after the insertion, related to the median before it.
sideOfInsert(L, M, k) ==
    LET below == L.elements[k].previousKey
        above == L.elements[k].nextKey
    IN  IF L.numElements % 2 = 1
        THEN IF below = Zero \/ M.relation[below] = "Lesser" THEN "Lesser" ELSE "Greater"
        ELSE IF above = Zero \/ M.relation[above] = "Greater" THEN "Greater" ELSE "Lesser"

\* When the length becomes odd the median goes to the lesser side if that grew,
\* and when it becomes even to the greater side if that did.
medianOfInsert(L, M, k) ==
    LET side   == sideOfInsert(L, M, k)
        action == IF (L.numElements % 2 = 1) = (side = "Lesser") THEN side ELSE "None"
    IN  IF L.numElements = 1
        THEN [median |-> k, relation |-> [M.relation EXCEPT ![k] = "Equal"]]
        ELSE updateMedian(L, [M EXCEPT !.relation[k] = side], action)

\* L is the list from which k is about to be removed.
medianOfRemove(L, M, k) ==
    LET even == L.numElements % 2 = 0
    IN  updateMedian(L, M, CASE even /\ M.relation[k] # "Lesser" -> "Lesser"
                             [] ~even /\ M.relation[k] # "Greater" -> "Greater"
                             [] OTHER -> "None")

medianOfPopN(L, M, n) ==
    LET rest[i \in 0..n] == IF i = 0 THEN M
                            ELSE medianOfRemove(popN(L, i - 1), rest[i - 1], popN(L, i - 1).head)
    IN  rest[n]

-----------------------------------------------------------------------------

MedianBecomes(M) == median' = M.median /\ relation' = M.relation

InsertWithMedian(k, v, lesserKey, greaterKey) ==
    /\ Insert(k, v, lesserKey, greaterKey)
    /\ MedianBecomes(medianOfInsert(list', Middle, k))

RemoveWithMedian(k) ==
    /\ Delete(k)
    /\ MedianBecomes(medianOfRemove(list, Middle, k))

UpdateWithMedian(k, v, lesserKey, greaterKey) ==
    /\ Update(k, v, lesserKey, greaterKey)
    /\ MedianBecomes(medianOfInsert(list', medianOfRemove(list, Middle, k), k))

PushWithMedian(k) ==
    /\ Push(k)
    /\ MedianBecomes(medianOfInsert(list', Middle, k))

PopNWithMedian(n) ==
    /\ PopN(n)
    /\ MedianBecomes(medianOfPopN(list, Middle, n))

MedianNext ==
    \/ \E k \in Keys, v \in 0..MaxValue, lesserKey, greaterKey \in Hints :
          \/ InsertWithMedian(k, v, lesserKey, greaterKey)
          \/ UpdateWithMedian(k, v, lesserKey, greaterKey)
    \/ \E k \in Keys : RemoveWithMedian(k) \/ PushWithMedian(k)
    \/ \E n \in 0..list.numElements : PopNWithMedian(n)

MedianSpec == MedianInit /\ [][MedianNext]_medianVars

-----------------------------------------------------------------------------

\* After any mixture of operations the tracked key is the middle of the walk from
\* the head (the greater of the two middle ones when their number is even), and
\* every element knows on which side of it it is: medianRate and the exchange rate
\* of the reserve are read from there.
MedianIsMedian ==
    LET n      == list.numElements
        keys   == headN(list, n)
        middle == (n + 1) \div 2
    IN  /\ median = IF n = 0 THEN Zero ELSE keys[middle]
        /\ \A i \in 1..n :
              relation[keys[i]] = IF i < middle THEN "Greater"
                                  ELSE IF i = middle THEN "Equal" ELSE "Lesser"

=============================================================================
