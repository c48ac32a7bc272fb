----------------------- MODULE SortedLinkedListProofs -----------------------
(***************************************************************************)
(* Proofs about LinkedList.sol, SortedLinkedList.sol and what builds on    *)
(* them, for any keys and values and any sequence of calls.                *)
(*                                                                         *)
(* The state of the linked list is described by its walk, the keys from    *)
(* the head to the tail: the links of every element are those of its       *)
(* neighbours in the walk, and no other key has links or a value.  That    *)
(* the values descend along the walk belongs to the invariant, since it is *)
(* what makes a place that the hints lead to a right one.  Every operation *)
(* is then an operation on the walk: link opens it at a place, unlink      *)
(* closes it, popN drops its first keys.                                   *)
(***************************************************************************)
EXTENDS SortedLinkedListWithMedian, ListHints, DataTheorems

Links == [previousKey : Hints, nextKey : Hints, exists : BOOLEAN]

Lists ==
    [head : Hints, tail : Hints, numElements : Nat,
     elements : [Keys -> Links], values : [Keys -> 0..MaxValue]]

\* The key at place i of the walk, Zero outside of it.
place(w, n, i) == IF i \in 1..n THEN w[i] ELSE Zero

Within(w, n, k) == \E i \in 1..n : w[i] = k

Walks(L, w, n) ==
    /\ n = L.numElements
    /\ w \in [1..n -> Keys]
    /\ \A i, j \in 1..n : w[i] = w[j] => i = j
    /\ L.head = place(w, n, 1) /\ L.tail = place(w, n, n)
    /\ \A i \in 1..n : /\ L.elements[w[i]].previousKey = place(w, n, i + 1)
                       /\ L.elements[w[i]].nextKey = place(w, n, i - 1)
                       /\ L.elements[w[i]].exists
    /\ \A k \in Keys : ~Within(w, n, k) => L.elements[k] = NoElement /\ L.values[k] = 0

Descending(L, w, n) == \A i, j \in 1..n : i < j => L.values[w[i]] >= L.values[w[j]]

\* The walk with k put in behind its first i keys, and without the key at p.
opened(w, n, i, k) ==
    [j \in 1..n + 1 |-> IF j <= i THEN w[j] ELSE IF j = i + 1 THEN k ELSE w[j - 1]]

closed(w, n, p) == [j \in 1..n - 1 |-> IF j < p THEN w[j] ELSE w[j + 1]]

-----------------------------------------------------------------------------
(***************************************************************************)
(* One operation on the links                                              *)
(***************************************************************************)

\* What is in the list is what its walk visits.
LEMMA Visited ==
    ASSUME NEW L \in Lists, NEW n \in Nat, NEW w, Walks(L, w, n), NEW k \in Hints
    PROVE  /\ contains(L, k) <=> Within(w, n, k)
           /\ contains(L, k) => k \in Keys
<1>1. CASE k = Zero
  <2>1. \A i \in 1..n : w[i] # Zero
    BY SortedLinkedListAssumption DEF Walks
  <2> QED BY <1>1, <2>1 DEF contains, Within
<1>2. CASE k # Zero /\ Within(w, n, k)
  <2>1. PICK i \in 1..n : w[i] = k
    BY <1>2 DEF Within
  <2>2. k \in Keys /\ L.elements[k].exists
    BY <2>1 DEF Walks
  <2> QED BY <1>2, <2>2 DEF contains
<1>3. CASE k # Zero /\ ~Within(w, n, k)
  <2>1. k \in Keys
    BY <1>3 DEF Hints
  <2>2. L.elements[k] = NoElement
    BY <1>3, <2>1 DEF Walks
  <2> QED BY <1>3, <2>1, <2>2 DEF contains, NoElement
<1> QED BY <1>1, <1>2, <1>3 DEF Hints

\* What stands at the places of a walk that was opened.
LEMMA OpenedPlaces ==
    ASSUME NEW n \in Nat, NEW w \in [1..n -> Keys], NEW i \in 0..n, NEW k \in Keys,
           NEW u, u = opened(w, n, i, k), NEW m, m = n + 1
    PROVE  /\ u \in [1..m -> Keys]
           /\ \A j \in Int : place(u, m, j) =
                 IF j <= i THEN place(w, n, j) ELSE IF j = i + 1 THEN k ELSE place(w, n, j - 1)
           /\ \A x : Within(u, m, x) <=> x = k \/ Within(w, n, x)
<1>1. \A j \in 1..m : u[j] = IF j <= i THEN w[j] ELSE IF j = i + 1 THEN k ELSE w[j - 1]
  BY DEF opened
<1>2. u \in [1..m -> Keys]
  <2>1. \A j \in 1..m : (j <= i => j \in 1..n) /\ (j > i + 1 => j - 1 \in 1..n)
    OBVIOUS
  <2>2. \A j \in 1..m : (IF j <= i THEN w[j] ELSE IF j = i + 1 THEN k ELSE w[j - 1]) \in Keys
    BY <2>1
  <2> QED BY <2>2 DEF opened
<1>3. ASSUME NEW j \in Int
      PROVE  place(u, m, j) =
                IF j <= i THEN place(w, n, j) ELSE IF j = i + 1 THEN k ELSE place(w, n, j - 1)
  BY <1>1 DEF place
<1>4. ASSUME NEW x PROVE Within(u, m, x) <=> x = k \/ Within(w, n, x)
  <2>1. Within(u, m, x) => x = k \/ Within(w, n, x)
    <3>1. \A j \in 1..m : (j <= i => j \in 1..n) /\ (j > i + 1 => j - 1 \in 1..n)
      OBVIOUS
    <3> QED BY <1>1, <3>1 DEF Within
  <2>2. i + 1 \in 1..m /\ u[i + 1] = k
    BY <1>1
  <2>3. \A j \in 1..n : \/ j \in 1..m /\ u[j] = w[j]
                        \/ j + 1 \in 1..m /\ u[j + 1] = w[j]
    BY <1>1
  <2> QED BY <2>1, <2>2, <2>3 DEF Within
<1> QED BY <1>2, <1>3, <1>4

\* The key that was taken out is the only one missing.
LEMMA ClosedWithin ==
    ASSUME NEW n \in Nat, NEW w \in [1..n -> Keys], NEW p \in 1..n,
           \A i, j \in 1..n : w[i] = w[j] => i = j,
           NEW u, u = closed(w, n, p), NEW m, m = n - 1, NEW x
    PROVE  Within(u, m, x) <=> x # w[p] /\ Within(w, n, x)
<1>1. \A j \in 1..m : u[j] = IF j < p THEN w[j] ELSE w[j + 1]
  BY DEF closed
<1>2. ASSUME NEW j \in 1..m PROVE u[j] # w[p] /\ Within(w, n, u[j])
  BY <1>1 DEF Within
<1>3. \A j \in 1..n : \/ j = p
                      \/ j \in 1..m /\ u[j] = w[j]
                      \/ j - 1 \in 1..m /\ u[j - 1] = w[j]
  BY <1>1
<1> QED BY <1>2, <1>3 DEF Within

\* A list is the record of its fields.
LEMMA Fields ==
    ASSUME NEW L \in Lists
    PROVE  /\ L = [head |-> L.head, tail |-> L.tail, numElements |-> L.numElements,
                   elements |-> L.elements, values |-> L.values]
           /\ L.head \in Hints /\ L.tail \in Hints /\ L.numElements \in Nat
           /\ L.elements \in [Keys -> Links] /\ L.values \in [Keys -> 0..MaxValue]
BY DEF Lists

\* What linking does to the fields and to every element.
LEMMA LinkFields ==
    ASSUME NEW L \in Lists, NEW k \in Keys, NEW below \in Hints, NEW above \in Hints,
           L.numElements = 0 => L.elements[k] = NoElement /\ below = Zero /\ above = Zero,
           NEW M, M = link(L, k, below, above)
    PROVE  /\ M \in Lists /\ M.values = L.values /\ M.numElements = L.numElements + 1
           /\ M.head = IF above = Zero THEN k ELSE L.head
           /\ M.tail = IF below = Zero THEN k ELSE L.tail
           /\ M.elements[k] = [previousKey |-> below, nextKey |-> above, exists |-> TRUE]
           /\ \A x \in Keys \ {k} :
                 M.elements[x] = [previousKey |-> IF x = above THEN k ELSE L.elements[x].previousKey,
                                  nextKey |-> IF x = below THEN k ELSE L.elements[x].nextKey,
                                  exists |-> L.elements[x].exists]
<1>1. k # Zero /\ k \in Hints /\ Zero \in Hints /\ Keys \subseteq Hints
  BY SortedLinkedListAssumption DEF Hints
<1>2. \A x \in Keys : L.elements[x] = [previousKey |-> L.elements[x].previousKey,
                                       nextKey |-> L.elements[x].nextKey,
                                       exists |-> L.elements[x].exists]
  <2> TAKE x \in Keys
  <2>1. L.elements[x] \in Links
    BY Fields
  <2> QED BY <2>1 DEF Links
<1>3. CASE L.numElements = 0
  <2> DEFINE elements == [L.elements EXCEPT ![k].exists = TRUE]
  <2>1. M = [L EXCEPT !.elements = elements, !.tail = k, !.head = k, !.numElements = @ + 1]
    BY <1>3 DEF link
  <2>2. elements \in [Keys -> Links] /\ elements[k] = [NoElement EXCEPT !.exists = TRUE]
    <3>1. L.elements[k] = NoElement /\ L.elements \in [Keys -> Links]
      BY <1>3, Fields
    <3>2. [NoElement EXCEPT !.exists = TRUE] \in Links
      BY <1>1 DEF NoElement, Links
    <3> QED BY <3>1, <3>2
  <2>3. \A x \in Keys \ {k} : elements[x] = L.elements[x]
    BY Fields
  <2> HIDE DEF elements
  <2>4. M = [head |-> k, tail |-> k, numElements |-> L.numElements + 1,
             elements |-> elements, values |-> L.values]
    BY <2>1, Fields
  <2>5. M \in Lists
    BY <1>1, <2>2, <2>4, Fields DEF Lists
  <2>6. \A x \in Keys \ {k} : x # above /\ x # below
    BY <1>3, SortedLinkedListAssumption
  <2>7. M.elements = elements /\ M.values = L.values /\ M.numElements = L.numElements + 1
        /\ M.head = k /\ M.tail = k
    BY <2>4
  <2>8. M.elements[k] = [previousKey |-> below, nextKey |-> above, exists |-> TRUE]
    BY <1>3, <2>2, <2>7 DEF NoElement
  <2>9. ASSUME NEW x \in Keys \ {k}
        PROVE  M.elements[x] = [previousKey |-> IF x = above THEN k ELSE L.elements[x].previousKey,
                                nextKey |-> IF x = below THEN k ELSE L.elements[x].nextKey,
                                exists |-> L.elements[x].exists]
    <3>1. M.elements[x] = L.elements[x] /\ x # above /\ x # below
      BY <2>3, <2>6, <2>7
    <3> QED BY <1>2, <3>1
  <2> QED BY <1>3, <2>5, <2>7, <2>8, <2>9
<1>4. CASE L.numElements # 0
  <2> DEFINE after(x) == IF x = below THEN [L.elements[x] EXCEPT !.nextKey = k]
                                      ELSE L.elements[x]
             both(x)  == IF x = above THEN [after(x) EXCEPT !.previousKey = k] ELSE after(x)
             new      == [previousKey |-> below, nextKey |-> above, exists |-> TRUE]
             elements == [x \in Keys |-> IF x = k THEN new ELSE both(x)]
  <2>1. M = [L EXCEPT !.elements = elements, !.tail = IF below = Zero THEN k ELSE @,
                      !.head = IF above = Zero THEN k ELSE @, !.numElements = @ + 1]
    BY <1>4 DEF link, linkNonEmpty
  <2>2. ASSUME NEW x \in Keys
        PROVE  both(x) = [previousKey |-> IF x = above THEN k ELSE L.elements[x].previousKey,
                          nextKey |-> IF x = below THEN k ELSE L.elements[x].nextKey,
                          exists |-> L.elements[x].exists]
    <3>1. L.elements[x] \in Links
      BY Fields
    <3>2. CASE x = below
      BY <3>1, <3>2 DEF Links
    <3>3. CASE x # below
      BY <3>1, <3>3 DEF Links
    <3> QED BY <3>2, <3>3
  <2>3. \A x \in Keys : both(x) \in Links
    <3> TAKE x \in Keys
    <3>1. L.elements[x] \in Links
      BY Fields
    <3> QED BY <1>1, <2>2, <3>1 DEF Links
  <2>4. new \in Links
    BY DEF Links
  <2> HIDE DEF both, new
  <2>5. elements \in [Keys -> Links] /\ elements[k] = new /\ \A x \in Keys \ {k} : elements[x] = both(x)
    BY <2>3, <2>4
  <2> HIDE DEF elements
  <2>6. M = [head |-> IF above = Zero THEN k ELSE L.head, tail |-> IF below = Zero THEN k ELSE L.tail,
             numElements |-> L.numElements + 1, elements |-> elements, values |-> L.values]
    BY <2>1, Fields
  <2>7. M \in Lists
    BY <1>1, <2>5, <2>6, Fields DEF Lists
  <2>8. M.elements[k] = [previousKey |-> below, nextKey |-> above, exists |-> TRUE]
    BY <2>5, <2>6 DEF new
  <2>9. \A x \in Keys \ {k} : M.elements[x] = both(x)
    <3>1. M.elements = elements
      BY <2>6
    <3> QED BY <2>5, <3>1
  <2>10. /\ M.values = L.values /\ M.numElements = L.numElements + 1
         /\ M.head = IF above = Zero THEN k ELSE L.head
         /\ M.tail = IF below = Zero THEN k ELSE L.tail
    BY <2>6
  <2> QED BY <2>2, <2>7, <2>8, <2>9, <2>10
<1> QED BY <1>3, <1>4

\* Linking k in behind the first i elements opens the walk there.
LEMMA LinkOpens ==
    ASSUME NEW L \in Lists, NEW n \in Nat, NEW w, Walks(L, w, n),
           NEW i \in 0..n, NEW k \in Keys, ~Within(w, n, k),
           NEW M, M = link(L, k, place(w, n, i + 1), place(w, n, i)),
           NEW u, u = opened(w, n, i, k), NEW m, m = n + 1
    PROVE  M \in Lists /\ M.values = L.values /\ Walks(M, u, m)
<1> DEFINE below == place(w, n, i + 1)
           above == place(w, n, i)
<1>1. /\ n = L.numElements /\ w \in [1..n -> Keys]
      /\ \A a, b \in 1..n : w[a] = w[b] => a = b
      /\ L.head = place(w, n, 1) /\ L.tail = place(w, n, n)
  BY DEF Walks
<1>2. \A j \in 1..n : /\ L.elements[w[j]].previousKey = place(w, n, j + 1)
                      /\ L.elements[w[j]].nextKey = place(w, n, j - 1)
                      /\ L.elements[w[j]].exists
  BY DEF Walks
<1>3. /\ u \in [1..m -> Keys]
      /\ \A j \in Int : place(u, m, j) =
            IF j <= i THEN place(w, n, j) ELSE IF j = i + 1 THEN k ELSE place(w, n, j - 1)
      /\ \A x : Within(u, m, x) <=> x = k \/ Within(w, n, x)
  BY <1>1, OpenedPlaces
<1>4. \A j \in 1..n : w[j] \in Keys /\ w[j] # k /\ w[j] # Zero
  BY <1>1, SortedLinkedListAssumption DEF Within
<1>5. ASSUME NEW a \in 1..m, NEW b \in 1..m, u[a] = u[b] PROVE a = b
  <2>1. \A j \in 1..m : u[j] = IF j <= i THEN w[j] ELSE IF j = i + 1 THEN k ELSE w[j - 1]
    BY DEF opened
  <2>2. \A j \in 1..m : (j <= i => j \in 1..n) /\ (j > i + 1 => j - 1 \in 1..n)
    OBVIOUS
  <2>3. \A j \in 1..m : u[j] = k <=> j = i + 1
    BY <1>4, <2>1, <2>2
  <2>4. CASE u[a] = k
    BY <1>5, <2>3, <2>4
  <2>5. CASE u[a] # k
    BY <1>1, <1>5, <2>1, <2>2, <2>3, <2>5
  <2> QED BY <2>4, <2>5
<1>6. above \in Hints /\ below \in Hints
  BY <1>1 DEF place, Hints
<1>7. /\ L.elements[k] = NoElement
      /\ L.numElements = 0 => below = Zero /\ above = Zero
  BY <1>1 DEF Walks, place
<1>8. \A j \in 1..n : (w[j] = above <=> j = i) /\ (w[j] = below <=> j = i + 1)
  BY <1>1, <1>4 DEF place
<1>9. (above = Zero <=> i = 0) /\ (below = Zero <=> i = n)
  BY <1>4 DEF place
<1> HIDE DEF above, below
<1>10. /\ M \in Lists /\ M.values = L.values /\ M.numElements = L.numElements + 1
       /\ M.head = IF above = Zero THEN k ELSE L.head
       /\ M.tail = IF below = Zero THEN k ELSE L.tail
       /\ M.elements[k] = [previousKey |-> below, nextKey |-> above, exists |-> TRUE]
       /\ \A x \in Keys \ {k} :
             M.elements[x] = [previousKey |-> IF x = above THEN k ELSE L.elements[x].previousKey,
                              nextKey |-> IF x = below THEN k ELSE L.elements[x].nextKey,
                              exists |-> L.elements[x].exists]
  BY <1>6, <1>7, LinkFields DEF above, below
<1>11. M.head = place(u, m, 1) /\ M.tail = place(u, m, m)
  BY <1>1, <1>3, <1>9, <1>10
<1>12. ASSUME NEW j \in 1..m
       PROVE  /\ M.elements[u[j]].previousKey = place(u, m, j + 1)
              /\ M.elements[u[j]].nextKey = place(u, m, j - 1)
              /\ M.elements[u[j]].exists
  <2>1. u[j] = place(u, m, j)
    BY DEF place
  <2>2. ASSUME NEW l \in 1..n
        PROVE  /\ M.elements[w[l]].previousKey = IF l = i THEN k ELSE place(w, n, l + 1)
               /\ M.elements[w[l]].nextKey = IF l = i + 1 THEN k ELSE place(w, n, l - 1)
               /\ M.elements[w[l]].exists
    <3>1. w[l] \in Keys \ {k} /\ (w[l] = above <=> l = i) /\ (w[l] = below <=> l = i + 1)
      BY <1>4, <1>8
    <3>2. M.elements[w[l]] =
             [previousKey |-> IF w[l] = above THEN k ELSE L.elements[w[l]].previousKey,
              nextKey |-> IF w[l] = below THEN k ELSE L.elements[w[l]].nextKey,
              exists |-> L.elements[w[l]].exists]
      BY <1>10, <3>1
    <3>3. M.elements[w[l]].exists
      BY <1>2, <3>2
    <3> QED BY <1>2, <3>1, <3>2, <3>3
  <2>3. CASE j = i + 1
    <3>1. u[j] = k
      BY <1>3, <2>1, <2>3
    <3>2. place(u, m, j + 1) = below /\ place(u, m, j - 1) = above
      BY <1>3, <2>3 DEF below, above
    <3> QED BY <1>10, <3>1, <3>2
  <2>4. CASE j <= i
    <3>1. j \in 1..n /\ u[j] = w[j]
      BY <1>3, <2>1, <2>4 DEF place
    <3>2. /\ place(u, m, j + 1) = IF j = i THEN k ELSE place(w, n, j + 1)
          /\ place(u, m, j - 1) = place(w, n, j - 1)
      BY <1>3, <2>4
    <3> QED BY <2>2, <2>4, <3>1, <3>2
  <2>5. CASE j > i + 1
    <3>1. j - 1 \in 1..n /\ u[j] = w[j - 1]
      BY <1>3, <2>1, <2>5 DEF place
    <3>2. /\ place(u, m, j + 1) = place(w, n, (j - 1) + 1)
          /\ place(u, m, j - 1) = IF j - 1 = i + 1 THEN k ELSE place(w, n, (j - 1) - 1)
      BY <1>3, <2>5
    <3>3. j - 1 # i
      BY <2>5
    <3> QED BY <2>2, <3>1, <3>2, <3>3
  <2> QED BY <2>3, <2>4, <2>5
<1>13. ASSUME NEW x \in Keys, ~Within(u, m, x) PROVE M.elements[x] = NoElement /\ M.values[x] = 0
  <2>1. x # k /\ ~Within(w, n, x)
    BY <1>3, <1>13
  <2>2. L.elements[x] = NoElement /\ L.values[x] = 0
    BY <2>1 DEF Walks
  <2>3. x # above /\ x # below
    BY <2>1, SortedLinkedListAssumption DEF above, below, place, Within
  <2> QED BY <1>10, <2>1, <2>2, <2>3 DEF NoElement
<1>14. Walks(M, u, m)
  BY <1>1, <1>3, <1>5, <1>10, <1>11, <1>12, <1>13 DEF Walks
<1> QED BY <1>10, <1>14

\* What removing does to the fields and to every element.
LEMMA RemoveFields ==
    ASSUME NEW L \in Lists, NEW k \in Keys, L.numElements # 0,
           NEW below, below = L.elements[k].previousKey,
           NEW above, above = L.elements[k].nextKey,
           NEW M, M = remove(L, k)
    PROVE  /\ M \in Lists /\ M.numElements = L.numElements - 1
           /\ M.values[k] = 0 /\ \A x \in Keys \ {k} : M.values[x] = L.values[x]
           /\ M.head = IF above = Zero THEN below ELSE L.head
           /\ M.tail = IF below = Zero THEN above ELSE L.tail
           /\ M.elements[k] = NoElement
           /\ \A x \in Keys \ {k} :
                 M.elements[x] = [previousKey |-> IF x = above THEN below ELSE L.elements[x].previousKey,
                                  nextKey |-> IF x = below THEN above ELSE L.elements[x].nextKey,
                                  exists |-> L.elements[x].exists]
<1> DEFINE before(x) == IF x = below THEN [L.elements[x] EXCEPT !.nextKey = above]
                                     ELSE L.elements[x]
           both(x)   == IF x = above THEN [before(x) EXCEPT !.previousKey = below] ELSE before(x)
           elements  == [x \in Keys |-> IF x = k THEN NoElement ELSE both(x)]
           values    == [L.values EXCEPT ![k] = 0]
<1>1. below \in Hints /\ above \in Hints
  <2>1. L.elements[k] \in Links
    BY Fields
  <2> QED BY <2>1 DEF Links
<1>2. unlink(L, k) = [L EXCEPT !.elements = elements, !.tail = IF below = Zero THEN above ELSE @,
                               !.head = IF above = Zero THEN below ELSE @, !.numElements = @ - 1]
  BY DEF unlink
<1>3. ASSUME NEW x \in Keys
      PROVE  /\ both(x) = [previousKey |-> IF x = above THEN below ELSE L.elements[x].previousKey,
                           nextKey |-> IF x = below THEN above ELSE L.elements[x].nextKey,
                           exists |-> L.elements[x].exists]
             /\ both(x) \in Links
  <2>1. L.elements[x] \in Links
    BY Fields
  <2>2. both(x) = [previousKey |-> IF x = above THEN below ELSE L.elements[x].previousKey,
                   nextKey |-> IF x = below THEN above ELSE L.elements[x].nextKey,
                   exists |-> L.elements[x].exists]
    <3>1. CASE x = below
      BY <2>1, <3>1 DEF Links
    <3>2. CASE x # below
      BY <2>1, <3>2 DEF Links
    <3> QED BY <3>1, <3>2
  <2> HIDE DEF both
  <2> QED BY <1>1, <2>1, <2>2 DEF Links
<1>4. NoElement \in Links
  BY DEF NoElement, Links, Hints
<1> HIDE DEF both
<1>5. /\ elements \in [Keys -> Links] /\ elements[k] = NoElement
      /\ \A x \in Keys \ {k} : elements[x] = both(x)
  BY <1>3, <1>4
<1>6. /\ values \in [Keys -> 0..MaxValue] /\ values[k] = 0
      /\ \A x \in Keys \ {k} : values[x] = L.values[x]
  BY Fields, SortedLinkedListAssumption
<1> HIDE DEF elements
<1>7. unlink(L, k) = [head |-> IF above = Zero THEN below ELSE L.head,
                      tail |-> IF below = Zero THEN above ELSE L.tail,
                      numElements |-> L.numElements - 1, elements |-> elements, values |-> L.values]
  BY <1>2, Fields
<1>8. M = [head |-> IF above = Zero THEN below ELSE L.head,
           tail |-> IF below = Zero THEN above ELSE L.tail,
           numElements |-> L.numElements - 1, elements |-> elements, values |-> values]
  BY <1>7 DEF remove
<1> HIDE DEF values
<1>9. M \in Lists
  BY <1>1, <1>5, <1>6, <1>8, Fields DEF Lists
<1>10. M.elements = elements /\ M.values = values
  BY <1>8
<1>11. /\ M.numElements = L.numElements - 1
       /\ M.head = IF above = Zero THEN below ELSE L.head
       /\ M.tail = IF below = Zero THEN above ELSE L.tail
  BY <1>8
<1> QED BY <1>3, <1>5, <1>6, <1>9, <1>10, <1>11

\* Removing the key at place p closes the walk there.
LEMMA RemoveCloses ==
    ASSUME NEW L \in Lists, NEW n \in Nat, NEW w, Walks(L, w, n), NEW p \in 1..n,
           NEW M, M = remove(L, w[p]),
           NEW u, u = closed(w, n, p), NEW m, m = n - 1
    PROVE  /\ M \in Lists /\ Walks(M, u, m)
           /\ \A x \in Keys \ {w[p]} : M.values[x] = L.values[x]
<1> DEFINE below == place(w, n, p + 1)
           above == place(w, n, p - 1)
<1>1. /\ n = L.numElements /\ w \in [1..n -> Keys]
      /\ \A a, b \in 1..n : w[a] = w[b] => a = b
      /\ L.head = place(w, n, 1) /\ L.tail = place(w, n, n)
  BY DEF Walks
<1>2. \A j \in 1..n : /\ L.elements[w[j]].previousKey = place(w, n, j + 1)
                      /\ L.elements[w[j]].nextKey = place(w, n, j - 1)
                      /\ L.elements[w[j]].exists
  BY DEF Walks
<1>3. /\ u \in [1..m -> Keys]
      /\ \A j \in Int : place(u, m, j) = IF j < p THEN place(w, n, j) ELSE place(w, n, j + 1)
      /\ \A x : Within(u, m, x) <=> x # w[p] /\ Within(w, n, x)
  <2>1. /\ n \in Nat /\ w \in [1..n -> Keys] /\ \A a, b \in 1..n : w[a] = w[b] => a = b
        /\ p \in 1..n /\ u = closed(w, n, p) /\ m = n - 1
    BY <1>1
  <2>2. u \in [1..m -> Keys]
    BY ONLY <2>1 DEF closed
  <2>3. ASSUME NEW j \in Int
        PROVE  place(u, m, j) = IF j < p THEN place(w, n, j) ELSE place(w, n, j + 1)
    BY ONLY <2>1, <2>3 DEF closed, place
  <2>4. ASSUME NEW x PROVE Within(u, m, x) <=> x # w[p] /\ Within(w, n, x)
    BY ONLY <2>1, ClosedWithin
  <2> QED BY <2>2, <2>3, <2>4
<1>4. /\ \A j \in 1..n : w[j] \in Keys /\ w[j] # Zero /\ (w[j] = w[p] <=> j = p)
      /\ below = L.elements[w[p]].previousKey /\ above = L.elements[w[p]].nextKey
  <2>1. \A j \in 1..n : w[j] \in Keys /\ w[j] # Zero /\ (w[j] = w[p] <=> j = p)
    BY <1>1, SortedLinkedListAssumption
  <2>2. below = L.elements[w[p]].previousKey /\ above = L.elements[w[p]].nextKey
    BY <1>2
  <2> QED BY <2>1, <2>2
<1>5. ASSUME NEW a \in 1..m, NEW b \in 1..m, u[a] = u[b] PROVE a = b
  <2>1. \A j \in 1..m : u[j] = IF j < p THEN w[j] ELSE w[j + 1]
    BY DEF closed
  <2>2. \A j \in 1..m : j \in 1..n /\ j + 1 \in 1..n
    OBVIOUS
  <2> QED BY <1>1, <1>5, <2>1, <2>2
<1>6. /\ \A j \in 1..n : (w[j] = above <=> j = p - 1) /\ (w[j] = below <=> j = p + 1)
      /\ above = Zero <=> p = 1
      /\ below = Zero <=> p = n
  BY <1>1, <1>4 DEF place
<1> HIDE DEF above, below
<1>7. /\ M \in Lists /\ M.numElements = L.numElements - 1
      /\ M.values[w[p]] = 0 /\ \A x \in Keys \ {w[p]} : M.values[x] = L.values[x]
      /\ M.head = IF above = Zero THEN below ELSE L.head
      /\ M.tail = IF below = Zero THEN above ELSE L.tail
      /\ M.elements[w[p]] = NoElement
      /\ \A x \in Keys \ {w[p]} :
            M.elements[x] = [previousKey |-> IF x = above THEN below ELSE L.elements[x].previousKey,
                             nextKey |-> IF x = below THEN above ELSE L.elements[x].nextKey,
                             exists |-> L.elements[x].exists]
  BY <1>1, <1>4, RemoveFields
<1>8. M.head = place(u, m, 1) /\ M.tail = place(u, m, m)
  <2> HIDE DEF below, above
  <2>0. /\ \A j \in Int : place(u, m, j) = IF j < p THEN place(w, n, j) ELSE place(w, n, j + 1)
        /\ n \in Nat /\ p \in 1..n /\ m = n - 1
    BY <1>3
  <2>1. place(u, m, 1) = IF p = 1 THEN below ELSE place(w, n, 1)
    <3>1. place(u, m, 1) = IF 1 < p THEN place(w, n, 1) ELSE place(w, n, 2)
      BY ONLY <2>0
    <3>2. p = 1 => below = place(w, n, 2)
      BY ONLY <2>0 DEF below
    <3> QED BY ONLY <2>0, <3>1, <3>2
  <2>2. place(u, m, m) = IF p = n THEN above ELSE place(w, n, n)
    <3>1. place(u, m, m) = IF m < p THEN place(w, n, m) ELSE place(w, n, m + 1)
      BY ONLY <2>0
    <3>2. p = n => above = place(w, n, m)
      BY ONLY <2>0 DEF above
    <3> QED BY ONLY <2>0, <3>1, <3>2
  <2> QED BY <1>1, <1>6, <1>7, <2>1, <2>2
<1>9. ASSUME NEW j \in 1..m
      PROVE  /\ M.elements[u[j]].previousKey = place(u, m, j + 1)
             /\ M.elements[u[j]].nextKey = place(u, m, j - 1)
             /\ M.elements[u[j]].exists
  <2>1. ASSUME NEW l \in 1..n, l # p
        PROVE  /\ M.elements[w[l]].previousKey = IF l = p - 1 THEN below ELSE place(w, n, l + 1)
               /\ M.elements[w[l]].nextKey = IF l = p + 1 THEN above ELSE place(w, n, l - 1)
               /\ M.elements[w[l]].exists
    <3>1. w[l] \in Keys \ {w[p]} /\ (w[l] = above <=> l = p - 1) /\ (w[l] = below <=> l = p + 1)
      BY <1>4, <1>6, <2>1
    <3>2. M.elements[w[l]] =
             [previousKey |-> IF w[l] = above THEN below ELSE L.elements[w[l]].previousKey,
              nextKey |-> IF w[l] = below THEN above ELSE L.elements[w[l]].nextKey,
              exists |-> L.elements[w[l]].exists]
      BY <1>7, <3>1
    <3>3. M.elements[w[l]].exists
      BY <1>2, <3>2
    <3> QED BY <1>2, <3>1, <3>2, <3>3
  <2>2. CASE j < p
    <3>1. j \in 1..n /\ j # p /\ u[j] = w[j]
      BY <2>2 DEF closed
    <3>2. /\ place(u, m, j + 1) = IF j = p - 1 THEN place(w, n, p + 1) ELSE place(w, n, j + 1)
          /\ place(u, m, j - 1) = place(w, n, j - 1)
      <4>1. /\ j + 1 \in Int /\ j - 1 \in Int /\ j - 1 < p
            /\ j + 1 < p <=> j # p - 1
            /\ j = p - 1 => (j + 1) + 1 = p + 1
        BY <2>2
      <4> QED BY <1>3, <4>1
    <3>3. j # p + 1
      BY <2>2
    <3> QED BY <2>1, <3>1, <3>2, <3>3 DEF below
  <2>3. CASE j >= p
    <3>1. j + 1 \in 1..n /\ j + 1 # p /\ u[j] = w[j + 1]
      BY <2>3 DEF closed
    <3>2. /\ place(u, m, j + 1) = place(w, n, (j + 1) + 1)
          /\ place(u, m, j - 1) = IF j + 1 = p + 1 THEN place(w, n, p - 1) ELSE place(w, n, (j + 1) - 1)
      <4>1. /\ j + 1 \in Int /\ j - 1 \in Int /\ ~(j + 1 < p)
            /\ j - 1 < p <=> j + 1 = p + 1
            /\ j + 1 = p + 1 => j - 1 = p - 1
            /\ (j - 1) + 1 = (j + 1) - 1
        BY <2>3
      <4>2. place(u, m, j + 1) = place(w, n, (j + 1) + 1)
        BY <1>3, <4>1
      <4>3. place(u, m, j - 1) = IF j - 1 < p THEN place(w, n, j - 1) ELSE place(w, n, (j - 1) + 1)
        BY <1>3, <4>1
      <4> QED BY <4>1, <4>2, <4>3
    <3>3. j + 1 # p - 1
      BY <2>3
    <3> QED BY <2>1, <3>1, <3>2, <3>3 DEF above
  <2> QED BY <2>2, <2>3
<1>10. ASSUME NEW x \in Keys, ~Within(u, m, x) PROVE M.elements[x] = NoElement /\ M.values[x] = 0
  <2>1. CASE x = w[p]
    BY <1>7, <2>1
  <2>2. CASE x # w[p]
    <3>1. ~Within(w, n, x)
      BY <1>3, <1>10, <2>2
    <3>2. L.elements[x] = NoElement /\ L.values[x] = 0
      BY <3>1 DEF Walks
    <3>3. x # above /\ x # below
      BY <3>1, SortedLinkedListAssumption DEF above, below, place, Within
    <3> QED BY <1>7, <2>2, <3>2, <3>3 DEF NoElement
  <2> QED BY <2>1, <2>2
<1>11. Walks(M, u, m)
  BY <1>1, <1>3, <1>5, <1>7, <1>8, <1>9, <1>10 DEF Walks
<1> QED BY <1>7, <1>11

-----------------------------------------------------------------------------
(***************************************************************************)
(* Inserting at the place that the hints lead to                           *)
(***************************************************************************)

\* Where the hints lead to, the value fits between the neighbours.
LEMMA FoundPlaceFits ==
    ASSUME NEW L \in Lists, NEW v, NEW lesserKey \in Hints, NEW greaterKey \in Hints,
           NEW pl, pl = getLesserAndGreater(L, v, lesserKey, greaterKey), pl.found
    PROVE  /\ pl.lesser \in Hints /\ pl.greater \in Hints
           /\ isValueBetween(L, v, pl.lesser, pl.greater)
<1> DEFINE above == L.elements[lesserKey].nextKey
           below == L.elements[greaterKey].previousKey
<1>1. /\ lesserKey # Zero => above \in Hints
      /\ greaterKey # Zero => below \in Hints
      /\ L.head \in Hints /\ L.tail \in Hints
  <2>1. \A x \in Keys : L.elements[x].nextKey \in Hints /\ L.elements[x].previousKey \in Hints
    <3> TAKE x \in Keys
    <3>1. L.elements[x] \in Links
      BY Fields
    <3> QED BY <3>1 DEF Links
  <2> QED BY <2>1, Fields DEF Hints
<1> HIDE DEF above, below
<1>2. \/ /\ lesserKey = Zero /\ isValueBetween(L, v, lesserKey, L.tail)
         /\ pl.lesser = lesserKey /\ pl.greater = L.tail
      \/ /\ greaterKey = Zero /\ isValueBetween(L, v, L.head, greaterKey)
         /\ pl.lesser = L.head /\ pl.greater = greaterKey
      \/ /\ lesserKey # Zero /\ isValueBetween(L, v, lesserKey, above)
         /\ pl.lesser = lesserKey /\ pl.greater = above
      \/ /\ greaterKey # Zero /\ isValueBetween(L, v, below, greaterKey)
         /\ pl.lesser = below /\ pl.greater = greaterKey
  <2>1. CASE lesserKey = Zero /\ isValueBetween(L, v, lesserKey, L.tail)
    BY <2>1 DEF getLesserAndGreater
  <2>2. CASE /\ ~(lesserKey = Zero /\ isValueBetween(L, v, lesserKey, L.tail))
             /\ greaterKey = Zero /\ isValueBetween(L, v, L.head, greaterKey)
    BY <2>2 DEF getLesserAndGreater
  <2>3. CASE /\ ~(lesserKey = Zero /\ isValueBetween(L, v, lesserKey, L.tail))
             /\ ~(greaterKey = Zero /\ isValueBetween(L, v, L.head, greaterKey))
             /\ lesserKey # Zero /\ isValueBetween(L, v, lesserKey, above)
    BY <2>3 DEF getLesserAndGreater, above
  <2>4. CASE /\ ~(lesserKey = Zero /\ isValueBetween(L, v, lesserKey, L.tail))
             /\ ~(greaterKey = Zero /\ isValueBetween(L, v, L.head, greaterKey))
             /\ ~(lesserKey # Zero /\ isValueBetween(L, v, lesserKey, above))
             /\ greaterKey # Zero /\ isValueBetween(L, v, below, greaterKey)
    BY <2>4 DEF getLesserAndGreater, above, below
  <2>5. CASE /\ ~(lesserKey = Zero /\ isValueBetween(L, v, lesserKey, L.tail))
             /\ ~(greaterKey = Zero /\ isValueBetween(L, v, L.head, greaterKey))
             /\ ~(lesserKey # Zero /\ isValueBetween(L, v, lesserKey, above))
             /\ ~(greaterKey # Zero /\ isValueBetween(L, v, below, greaterKey))
    <3>1. pl = NoPlace
      BY <2>5 DEF getLesserAndGreater, above, below
    <3> QED BY <3>1 DEF NoPlace
  <2> QED BY <2>1, <2>2, <2>3, <2>4, <2>5
<1> QED BY <1>1, <1>2

\* Two keys between which an element can be linked are neighbours in the walk.
LEMMA LinkedPlace ==
    ASSUME NEW L \in Lists, NEW n \in Nat \ {0}, NEW w, Walks(L, w, n), NEW k \in Keys,
           NEW below \in Hints, NEW above \in Hints, canLink(L, k, below, above)
    PROVE  \E i \in 0..n : below = place(w, n, i + 1) /\ above = place(w, n, i)
<1>1. /\ n = L.numElements /\ w \in [1..n -> Keys]
      /\ \A j \in 1..n : /\ L.elements[w[j]].previousKey = place(w, n, j + 1)
                         /\ L.elements[w[j]].nextKey = place(w, n, j - 1)
  BY DEF Walks
<1>2. /\ below # Zero \/ above # Zero
      /\ below # Zero => contains(L, below) /\ L.elements[below].nextKey = above
      /\ above # Zero => contains(L, above) /\ L.elements[above].previousKey = below
  BY <1>1 DEF canLink
<1>3. CASE below # Zero
  <2>1. Within(w, n, below)
    BY <1>2, <1>3, Visited
  <2>2. PICK j \in 1..n : w[j] = below
    BY <2>1 DEF Within
  <2>3. /\ j - 1 \in 0..n /\ (j - 1) + 1 = j
        /\ below = place(w, n, j) /\ above = place(w, n, j - 1)
    BY <1>1, <1>2, <1>3, <2>2 DEF place
  <2> QED BY <2>3
<1>4. CASE below = Zero
  <2>1. Within(w, n, above)
    BY <1>2, <1>4, Visited
  <2>2. PICK j \in 1..n : w[j] = above
    BY <2>1 DEF Within
  <2>3. /\ j \in 0..n
        /\ below = place(w, n, j + 1) /\ above = place(w, n, j)
    BY <1>1, <1>2, <1>4, <2>1, <2>2 DEF place
  <2> QED BY <2>3
<1> QED BY <1>3, <1>4

\* An insert that goes through has found a place where the value fits.
LEMMA InsertPlace ==
    ASSUME NEW L \in Lists, NEW n \in Nat, NEW w, Walks(L, w, n), NEW k \in Keys, NEW v,
           NEW lesserKey \in Hints, NEW greaterKey \in Hints,
           canInsert(L, k, v, lesserKey, greaterKey),
           NEW pl, pl = getLesserAndGreater(L, v, lesserKey, greaterKey)
    PROVE  /\ ~Within(w, n, k)
           /\ \E i \in 0..n : /\ pl.lesser = place(w, n, i + 1) /\ pl.greater = place(w, n, i)
                              /\ isValueBetween(L, v, place(w, n, i + 1), place(w, n, i))
<1>1. /\ ~contains(L, k) /\ pl.found /\ canLink(L, k, pl.lesser, pl.greater)
      /\ contains(L, lesserKey) \/ lesserKey = Zero
      /\ contains(L, greaterKey) \/ greaterKey = Zero
  BY DEF canInsert
<1>2. k \in Hints
  BY DEF Hints
<1>3. ~Within(w, n, k)
  BY <1>1, <1>2, Visited
<1>4. /\ pl.lesser \in Hints /\ pl.greater \in Hints
      /\ isValueBetween(L, v, pl.lesser, pl.greater)
  BY <1>1, FoundPlaceFits
<1>5. CASE n = 0
  <2>1. L.tail = Zero /\ \A x \in Hints : ~Within(w, n, x)
    BY <1>5 DEF Walks, Within, place
  <2>2. lesserKey = Zero /\ greaterKey = Zero
    BY <1>1, <2>1, Visited
  <2>3. isValueBetween(L, v, Zero, Zero)
    BY DEF isValueBetween
  <2>4. pl.lesser = Zero /\ pl.greater = Zero
    BY <2>1, <2>2, <2>3 DEF getLesserAndGreater
  <2>5. place(w, n, 0) = Zero /\ place(w, n, 0 + 1) = Zero
    BY <1>5 DEF place
  <2> QED BY <1>3, <1>5, <2>3, <2>4, <2>5
<1>6. CASE n # 0
  BY <1>1, <1>3, <1>4, <1>6, LinkedPlace
<1> QED BY <1>5, <1>6

setValue(L, k, v) == [L EXCEPT !.values[k] = v]

\* Giving a key of the list another value changes no link.
LEMMA ValueChanges ==
    ASSUME NEW L \in Lists, NEW n \in Nat, NEW w, Walks(L, w, n),
           NEW k \in Keys, Within(w, n, k), NEW v \in 0..MaxValue,
           NEW M, M = setValue(L, k, v)
    PROVE  /\ M \in Lists /\ Walks(M, w, n)
           /\ M.values[k] = v /\ \A x \in Keys \ {k} : M.values[x] = L.values[x]
<1>1. M = [head |-> L.head, tail |-> L.tail, numElements |-> L.numElements,
           elements |-> L.elements, values |-> [L.values EXCEPT ![k] = v]]
  BY Fields DEF setValue
<1>2. M \in Lists
  BY <1>1, Fields DEF Lists
<1>3. /\ M.head = L.head /\ M.tail = L.tail /\ M.numElements = L.numElements
      /\ M.elements = L.elements
      /\ M.values[k] = v /\ \A x \in Keys \ {k} : M.values[x] = L.values[x]
  BY <1>1, Fields
<1>4. \A x \in Keys : ~Within(w, n, x) => x # k
  OBVIOUS
<1>5. Walks(M, w, n)
  BY <1>3, <1>4 DEF Walks
<1> QED BY <1>2, <1>3, <1>5

\* The values descend along a walk that was opened where the new value fits.
LEMMA OpenedDescends ==
    ASSUME NEW L \in Lists, NEW n \in Nat, NEW w \in [1..n -> Keys], Descending(L, w, n),
           NEW i \in 0..n, NEW k \in Keys, ~Within(w, n, k), NEW v \in 0..MaxValue,
           isValueBetween(L, v, place(w, n, i + 1), place(w, n, i)),
           NEW M, M \in Lists, M.values[k] = v, \A x \in Keys \ {k} : M.values[x] = L.values[x],
           NEW u, u = opened(w, n, i, k), NEW m, m = n + 1
    PROVE  Descending(M, u, m)
<1>1. \A j \in 1..n : /\ w[j] \in Keys /\ w[j] # Zero /\ w[j] # k
                      /\ L.values[w[j]] \in Int /\ M.values[w[j]] = L.values[w[j]]
  BY Fields, SortedLinkedListAssumption DEF Within
<1>2. /\ i \in 1..n => L.values[w[i]] >= v
      /\ i + 1 \in 1..n => L.values[w[i + 1]] <= v
  BY <1>1 DEF isValueBetween, place
<1>3. \A j \in 1..n : (j <= i => L.values[w[j]] >= v) /\ (j > i => L.values[w[j]] <= v)
  <2> SUFFICES ASSUME NEW j \in 1..n
               PROVE  (j <= i => L.values[w[j]] >= v) /\ (j > i => L.values[w[j]] <= v)
    OBVIOUS
  <2>1. CASE j < i
    <3>1. i \in 1..n /\ L.values[w[j]] >= L.values[w[i]]
      BY <2>1 DEF Descending
    <3> QED BY <1>1, <1>2, <2>1, <3>1
  <2>2. CASE j = i
    BY <1>2, <2>2
  <2>3. CASE j = i + 1
    BY <1>2, <2>3
  <2>4. CASE j > i + 1
    <3>1. i + 1 \in 1..n /\ L.values[w[i + 1]] >= L.values[w[j]]
      BY <2>4 DEF Descending
    <3> QED BY <1>1, <1>2, <2>4, <3>1
  <2> QED BY <2>1, <2>2, <2>3, <2>4
<1>4. \A j \in 1..m : u[j] = IF j <= i THEN w[j] ELSE IF j = i + 1 THEN k ELSE w[j - 1]
  BY DEF opened
<1>5. ASSUME NEW a \in 1..m, NEW b \in 1..m, a < b PROVE M.values[u[a]] >= M.values[u[b]]
  <2>1. \A j \in 1..m : (j <= i => j \in 1..n) /\ (j > i + 1 => j - 1 \in 1..n)
    OBVIOUS
  <2>2. CASE a = i + 1
    <3>1. u[a] = k /\ b - 1 \in 1..n /\ b - 1 > i /\ u[b] = w[b - 1]
      BY <1>4, <1>5, <2>1, <2>2
    <3>2. M.values[u[b]] <= v
      BY <1>1, <1>3, <3>1
    <3> QED BY <1>1, <3>1, <3>2
  <2>3. CASE b = i + 1
    BY <1>1, <1>3, <1>4, <1>5, <2>1, <2>3
  <2>4. CASE a # i + 1 /\ b # i + 1
    <3>1. PICK c \in 1..n : u[a] = w[c] /\ c = IF a <= i THEN a ELSE a - 1
      BY <1>4, <2>1, <2>4
    <3>2. PICK d \in 1..n : u[b] = w[d] /\ d = IF b <= i THEN b ELSE b - 1
      BY <1>4, <2>1, <2>4
    <3>3. c < d
      BY <1>5, <2>4, <3>1, <3>2
    <3>4. L.values[w[c]] >= L.values[w[d]]
      BY <3>3 DEF Descending
    <3> QED BY <1>1, <3>1, <3>2, <3>4
  <2> QED BY <2>2, <2>3, <2>4
<1> QED BY <1>5 DEF Descending

\* Inserting at a place where the value fits opens the walk there.
LEMMA InsertOpens ==
    ASSUME NEW L \in Lists, NEW n \in Nat, NEW w, Walks(L, w, n), Descending(L, w, n),
           NEW i \in 0..n, NEW k \in Keys, ~Within(w, n, k), NEW v \in 0..MaxValue,
           isValueBetween(L, v, place(w, n, i + 1), place(w, n, i)),
           NEW M, M = setValue(link(L, k, place(w, n, i + 1), place(w, n, i)), k, v),
           NEW u, u = opened(w, n, i, k), NEW m, m = n + 1
    PROVE  /\ M \in Lists /\ Walks(M, u, m) /\ Descending(M, u, m)
           /\ M.values[k] = v /\ \A x \in Keys \ {k} : M.values[x] = L.values[x]
<1> DEFINE N == link(L, k, place(w, n, i + 1), place(w, n, i))
<1>1. N \in Lists /\ N.values = L.values /\ Walks(N, u, m)
  BY LinkOpens
<1>2. w \in [1..n -> Keys]
  BY DEF Walks
<1>3. Within(u, m, k) /\ m \in Nat
  BY <1>2, OpenedPlaces
<1> HIDE DEF N
<1>4. /\ M \in Lists /\ Walks(M, u, m)
      /\ M.values[k] = v /\ \A x \in Keys \ {k} : M.values[x] = N.values[x]
  <2>1. M = setValue(N, k, v)
    BY DEF N
  <2> QED BY <1>1, <1>3, <2>1, ValueChanges
<1>5. \A x \in Keys \ {k} : M.values[x] = L.values[x]
  BY <1>1, <1>4
<1>6. Descending(M, u, m)
  BY <1>2, <1>4, <1>5, OpenedDescends
<1> QED BY <1>4, <1>5, <1>6

-----------------------------------------------------------------------------
(***************************************************************************)
(* headN and popN, which are loops in the source                           *)
(***************************************************************************)
Heads(L, n, h) ==
    h = [i \in 1..n |-> IF i = 1 THEN L.head ELSE L.elements[h[i - 1]].previousKey]

\* headN visits the keys of the walk in their order.
LEMMA HeadNIsWalk ==
    ASSUME NEW L \in Lists, NEW n \in Nat, NEW w, Walks(L, w, n)
    PROVE  headN(L, n) = w
<1>1. headN(L, n) = CHOOSE h : Heads(L, n, h)
  BY DEF headN, Heads
<1>2. /\ w \in [1..n -> Keys] /\ L.head = place(w, n, 1)
      /\ \A i \in 1..n : L.elements[w[i]].previousKey = place(w, n, i + 1)
  BY DEF Walks
<1>3. Heads(L, n, w)
  <2>1. ASSUME NEW i \in 1..n
        PROVE  w[i] = IF i = 1 THEN L.head ELSE L.elements[w[i - 1]].previousKey
    <3>1. CASE i = 1
      BY <1>2, <3>1 DEF place
    <3>2. CASE i # 1
      <4>1. i - 1 \in 1..n /\ (i - 1) + 1 = i
        BY <3>2
      <4>2. L.elements[w[i - 1]].previousKey = place(w, n, i)
        BY <1>2, <4>1
      <4> QED BY <3>2, <4>2 DEF place
    <3> QED BY <3>1, <3>2
  <2> QED BY <1>2, <2>1 DEF Heads
<1>4. ASSUME NEW h, Heads(L, n, h) PROVE h = w
  <2>1. /\ DOMAIN h = 1..n /\ h = [i \in 1..n |-> h[i]]
        /\ \A i \in 1..n : h[i] = IF i = 1 THEN L.head ELSE L.elements[h[i - 1]].previousKey
    BY <1>4 DEF Heads
  <2>2. \A i \in 1..n : w[i] = IF i = 1 THEN L.head ELSE L.elements[w[i - 1]].previousKey
    BY <1>3 DEF Heads
  <2> DEFINE Good == {m \in 0..n : \A i \in 1..m : h[i] = w[i]}
  <2>3. 0 \in Good
    OBVIOUS
  <2>4. \A m \in 0..n - 1 : m \in Good => m + 1 \in Good
    <3> SUFFICES ASSUME NEW m \in 0..n - 1, m \in Good PROVE m + 1 \in Good
      OBVIOUS
    <3>1. \A i \in 1..m : h[i] = w[i]
      OBVIOUS
    <3>2. h[m + 1] = w[m + 1]
      <4>1. m + 1 \in 1..n /\ (m + 1) - 1 = m
        OBVIOUS
      <4>2. CASE m = 0
        BY <2>1, <2>2, <4>1, <4>2
      <4>3. CASE m # 0
        <5>1. h[m] = w[m] /\ m + 1 # 1
          BY <3>1, <4>3
        <5>2. h[m + 1] = L.elements[h[(m + 1) - 1]].previousKey
          BY <2>1, <4>1, <5>1
        <5>3. w[m + 1] = L.elements[w[(m + 1) - 1]].previousKey
          BY <2>2, <4>1, <5>1
        <5> QED BY <4>1, <5>1, <5>2, <5>3
      <4> QED BY <4>2, <4>3
    <3>3. \A i \in 1..m + 1 : i \in 1..m \/ i = m + 1
      OBVIOUS
    <3>4. m + 1 \in 0..n
      OBVIOUS
    <3> QED BY <3>1, <3>2, <3>3, <3>4
  <2> HIDE DEF Good
  <2>5. n \in Good
    BY <2>3, <2>4, UpTo
  <2> QED BY <1>2, <2>1, <2>5 DEF Good
<1> QED BY <1>1, <1>3, <1>4

Pops(L, n, r) == r = [i \in 0..n |-> IF i = 0 THEN L ELSE remove(r[i - 1], r[i - 1].head)]

\* What popping one element after the other goes through, element by element.
LEMMA PopsElements ==
    ASSUME NEW L, NEW n \in Nat, NEW r, Pops(L, n, r)
    PROVE  r[0] = L /\ \A i \in 1..n : r[i] = remove(r[i - 1], r[i - 1].head)
BY DEF Pops

\* There is one way to pop n elements, one after the other.
LEMMA PopsUnique ==
    ASSUME NEW L, NEW n \in Nat, NEW m \in 0..n, NEW a, Pops(L, n, a), NEW b, Pops(L, m, b)
    PROVE  a[m] = b[m]
<1> DEFINE Good == {i \in 0..m : a[i] = b[i]}
<1>1. /\ a[0] = L /\ \A i \in 1..n : a[i] = remove(a[i - 1], a[i - 1].head)
      /\ b[0] = L /\ \A i \in 1..m : b[i] = remove(b[i - 1], b[i - 1].head)
  BY PopsElements
<1>2. 0 \in Good
  BY <1>1
<1>3. \A i \in 0..m - 1 : i \in Good => i + 1 \in Good
  <2> SUFFICES ASSUME NEW i \in 0..m - 1, i \in Good PROVE i + 1 \in Good
    OBVIOUS
  <2>1. i + 1 \in 1..n /\ i + 1 \in 1..m /\ (i + 1) - 1 = i /\ a[i] = b[i]
    OBVIOUS
  <2>2. a[i + 1] = remove(a[i], a[i].head) /\ b[i + 1] = remove(b[i], b[i].head)
    BY <1>1, <2>1
  <2> QED BY <2>1, <2>2
<1> HIDE DEF Good
<1>4. m \in Good
  BY <1>2, <1>3, UpTo
<1> QED BY <1>4 DEF Good

\* Any number of elements can be popped, one after the other.
LEMMA PopsExist ==
    ASSUME NEW L, NEW n \in Nat
    PROVE  \E r : Pops(L, n, r)
<1> DEFINE Good == {m \in 0..n : \E r : Pops(L, m, r)}
<1>1. 0 \in Good
  <2> DEFINE r == [i \in 0..0 |-> L]
  <2>1. Pops(L, 0, r)
    BY DEF Pops
  <2> QED BY <2>1
<1>2. \A m \in 0..n - 1 : m \in Good => m + 1 \in Good
  <2> SUFFICES ASSUME NEW m \in 0..n - 1, m \in Good PROVE m + 1 \in Good
    OBVIOUS
  <2>1. PICK r : Pops(L, m, r)
    OBVIOUS
  <2> DEFINE s == [i \in 0..m + 1 |-> IF i <= m THEN r[i] ELSE remove(r[m], r[m].head)]
  <2>2. r[0] = L /\ \A i \in 1..m : r[i] = remove(r[i - 1], r[i - 1].head)
    BY <2>1, PopsElements
  <2>3. ASSUME NEW i \in 0..m + 1
        PROVE  s[i] = IF i = 0 THEN L ELSE remove(s[i - 1], s[i - 1].head)
    <3>1. CASE i = 0
      BY <2>2, <3>1
    <3>2. CASE i \in 1..m
      <4>1. i - 1 \in 0..m + 1 /\ i - 1 <= m
        BY <3>2
      <4>2. s[i] = r[i] /\ s[i - 1] = r[i - 1]
        BY <3>2, <4>1
      <4> HIDE DEF s
      <4> QED BY <2>2, <3>2, <4>2
    <3>3. CASE i = m + 1
      <4>1. i - 1 = m /\ i # 0 /\ ~(i <= m)
        BY <3>3
      <4>2. s[i] = remove(r[m], r[m].head) /\ s[i - 1] = r[m]
        BY <3>3, <4>1
      <4> HIDE DEF s
      <4> QED BY <4>1, <4>2
    <3> QED BY <3>1, <3>2, <3>3
  <2>4. s = [i \in 0..m + 1 |-> s[i]]
    OBVIOUS
  <2>5. m + 1 \in 0..n
    OBVIOUS
  <2> HIDE DEF s
  <2>6. Pops(L, m + 1, s)
    BY <2>3, <2>4 DEF Pops
  <2> QED BY <2>5, <2>6
<1> HIDE DEF Good
<1>3. n \in Good
  BY <1>1, <1>2, UpTo
<1> QED BY <1>3 DEF Good

\* popN removes the head, one more time for each n.
LEMMA PopNStep ==
    ASSUME NEW L, NEW n \in Nat
    PROVE  /\ popN(L, 0) = L
           /\ popN(L, n + 1) = remove(popN(L, n), popN(L, n).head)
<1>1. \A m \in Nat : popN(L, m) = (CHOOSE r : Pops(L, m, r))[m]
  BY DEF popN, Pops
<1> DEFINE r(m) == CHOOSE r : Pops(L, m, r)
<1>2. \A m \in Nat : Pops(L, m, r(m))
  BY PopsExist
<1>3. \A m \in Nat : popN(L, m) = r(m)[m]
  BY <1>1
<1> HIDE DEF r
<1>4. popN(L, 0) = L
  BY <1>2, <1>3, PopsElements
<1>5. n + 1 \in Nat /\ n \in 0..n + 1 /\ n + 1 \in 1..n + 1 /\ (n + 1) - 1 = n
  OBVIOUS
<1>6. r(n + 1)[n + 1] = remove(r(n + 1)[n], r(n + 1)[n].head)
  <2>1. \A i \in 1..n + 1 : r(n + 1)[i] = remove(r(n + 1)[i - 1], r(n + 1)[i - 1].head)
    <3>1. Pops(L, n + 1, r(n + 1))
      BY <1>2, <1>5
    <3> DEFINE s == r(n + 1)
               m == n + 1
    <3>2. Pops(L, m, s) /\ m \in Nat
      BY <1>5, <3>1
    <3> HIDE DEF s, m
    <3>3. \A i \in 1..m : s[i] = remove(s[i - 1], s[i - 1].head)
      BY <3>2, PopsElements
    <3> QED BY <3>3 DEF s, m
  <2> QED BY <1>5, <2>1
<1>7. r(n + 1)[n] = r(n)[n]
  BY <1>2, <1>5, PopsUnique
<1> QED BY <1>3, <1>4, <1>5, <1>6, <1>7

-----------------------------------------------------------------------------
(***************************************************************************)
(* The operations on a list in order, and its walk                         *)
(***************************************************************************)
walk(L) == headN(L, L.numElements)

InOrder(L) ==
    /\ L \in Lists
    /\ Walks(L, walk(L), L.numElements)
    /\ Descending(L, walk(L), L.numElements)

dropped(w, n, m) == [j \in 1..n - m |-> w[j + m]]

\* A list with a walk along which the values descend is in order, and that is its walk.
LEMMA InOrderFromWalk ==
    ASSUME NEW L \in Lists, NEW n \in Nat, NEW w, Walks(L, w, n), Descending(L, w, n)
    PROVE  InOrder(L) /\ walk(L) = w /\ L.numElements = n
<1>1. L.numElements = n
  BY DEF Walks
<1>2. walk(L) = w
  BY <1>1, HeadNIsWalk DEF walk
<1> QED BY <1>1, <1>2 DEF InOrder

\* What is known of a list in order.
LEMMA InOrderWalk ==
    ASSUME NEW L, InOrder(L), NEW n, n = L.numElements, NEW w, w = walk(L)
    PROVE  /\ L \in Lists /\ n \in Nat /\ Walks(L, w, n) /\ Descending(L, w, n)
           /\ w \in [1..n -> Keys] /\ \A i, j \in 1..n : w[i] = w[j] => i = j
           /\ \A j \in 1..n : w[j] # Zero /\ L.values[w[j]] \in 0..MaxValue
<1>1. L \in Lists /\ n \in Nat /\ Walks(L, w, n) /\ Descending(L, w, n)
  BY Fields DEF InOrder
<1>2. w \in [1..n -> Keys] /\ \A i, j \in 1..n : w[i] = w[j] => i = j
  BY <1>1 DEF Walks
<1> QED BY <1>1, <1>2, Fields, SortedLinkedListAssumption

\* An insert that goes through opens the walk at a place where the value fits.
LEMMA InsertInOrder ==
    ASSUME NEW L, InOrder(L), NEW n, n = L.numElements, NEW w, w = walk(L),
           NEW k \in Keys, NEW v \in 0..MaxValue,
           NEW lesserKey \in Hints, NEW greaterKey \in Hints,
           canInsert(L, k, v, lesserKey, greaterKey),
           NEW M, M = insert(L, k, v, lesserKey, greaterKey)
    PROVE  /\ InOrder(M) /\ M.numElements = n + 1 /\ ~Within(w, n, k)
           /\ \E i \in 0..n : /\ walk(M) = opened(w, n, i, k)
                              /\ isValueBetween(L, v, place(w, n, i + 1), place(w, n, i))
           /\ M.values[k] = v /\ \A x \in Keys \ {k} : M.values[x] = L.values[x]
<1> DEFINE pl == getLesserAndGreater(L, v, lesserKey, greaterKey)
<1>1. L \in Lists /\ n \in Nat /\ Walks(L, w, n) /\ Descending(L, w, n)
  BY InOrderWalk
<1>2. /\ ~Within(w, n, k)
      /\ \E i \in 0..n : /\ pl.lesser = place(w, n, i + 1) /\ pl.greater = place(w, n, i)
                         /\ isValueBetween(L, v, place(w, n, i + 1), place(w, n, i))
  BY <1>1, InsertPlace
<1>3. PICK i \in 0..n : /\ pl.lesser = place(w, n, i + 1) /\ pl.greater = place(w, n, i)
                        /\ isValueBetween(L, v, place(w, n, i + 1), place(w, n, i))
  BY <1>2
<1>4. M = setValue(link(L, k, pl.lesser, pl.greater), k, v)
  BY DEF insert, setValue
<1> HIDE DEF pl
<1>5. M = setValue(link(L, k, place(w, n, i + 1), place(w, n, i)), k, v)
  BY <1>3, <1>4
<1> DEFINE u == opened(w, n, i, k)
           m == n + 1
<1>6. m \in Nat
  BY <1>1
<1>7. /\ M \in Lists /\ Walks(M, u, m) /\ Descending(M, u, m)
      /\ M.values[k] = v /\ \A x \in Keys \ {k} : M.values[x] = L.values[x]
  BY <1>1, <1>2, <1>3, <1>5, InsertOpens
<1> HIDE DEF u, m
<1>8. InOrder(M) /\ walk(M) = u /\ M.numElements = m
  BY <1>6, <1>7, InOrderFromWalk
<1> QED BY <1>2, <1>3, <1>7, <1>8 DEF u, m

\* The values descend along a walk that was closed.
LEMMA ClosedDescends ==
    ASSUME NEW L \in Lists, NEW n \in Nat, NEW w \in [1..n -> Keys], Descending(L, w, n),
           NEW p \in 1..n, NEW M \in Lists,
           \A j \in 1..n : j # p => M.values[w[j]] = L.values[w[j]],
           NEW u, u = closed(w, n, p), NEW m, m = n - 1
    PROVE  Descending(M, u, m)
<1> SUFFICES ASSUME NEW a \in 1..m, NEW b \in 1..m, a < b PROVE M.values[u[a]] >= M.values[u[b]]
  BY DEF Descending
<1> DEFINE o(j) == IF j < p THEN j ELSE j + 1
<1>1. /\ o(a) \in 1..n /\ o(b) \in 1..n /\ o(a) < o(b) /\ o(a) # p /\ o(b) # p
      /\ u[a] = w[o(a)] /\ u[b] = w[o(b)]
  BY DEF closed
<1> HIDE DEF o
<1>2. M.values[u[a]] = L.values[w[o(a)]] /\ M.values[u[b]] = L.values[w[o(b)]]
  BY <1>1
<1> QED BY <1>1, <1>2 DEF Descending

\* Removing a key closes the walk where it stood.
LEMMA RemoveInOrder ==
    ASSUME NEW L, InOrder(L), NEW n, n = L.numElements, NEW w, w = walk(L),
           NEW p \in 1..n, NEW M, M = remove(L, w[p])
    PROVE  /\ InOrder(M) /\ M.numElements = n - 1 /\ walk(M) = closed(w, n, p)
           /\ \A x \in Keys \ {w[p]} : M.values[x] = L.values[x]
<1>1. /\ L \in Lists /\ n \in Nat /\ Walks(L, w, n) /\ Descending(L, w, n)
      /\ w \in [1..n -> Keys] /\ \A i, j \in 1..n : w[i] = w[j] => i = j
  BY InOrderWalk
<1> DEFINE u == closed(w, n, p)
           m == n - 1
<1>2. m \in Nat /\ m = n - 1 /\ u = closed(w, n, p)
  BY <1>1
<1> HIDE DEF u, m
<1>3. /\ M \in Lists /\ Walks(M, u, m)
      /\ \A x \in Keys \ {w[p]} : M.values[x] = L.values[x]
  BY <1>1, <1>2, RemoveCloses
<1>4. Descending(M, u, m)
  <2>1. \A j \in 1..n : j # p => M.values[w[j]] = L.values[w[j]]
    BY <1>1, <1>3
  <2>2. p \in 1..n
    OBVIOUS
  <2> QED BY ONLY <1>1, <1>2, <1>3, <2>1, <2>2, ClosedDescends
<1>5. InOrder(M) /\ walk(M) = u /\ M.numElements = m
  BY <1>2, <1>3, <1>4, InOrderFromWalk
<1> QED BY <1>2, <1>3, <1>5

\* The keys of the list are those of its walk.
LEMMA ContainedPlace ==
    ASSUME NEW L, InOrder(L), NEW n, n = L.numElements, NEW w, w = walk(L),
           NEW k \in Hints, contains(L, k)
    PROVE  k \in Keys /\ \E p \in 1..n : k = w[p]
<1>1. L \in Lists /\ n \in Nat /\ Walks(L, w, n)
  BY InOrderWalk
<1>2. k \in Keys /\ Within(w, n, k)
  BY <1>1, Visited
<1> QED BY <1>2 DEF Within

\* popN drops the first keys of the walk.
LEMMA PopNInOrder ==
    ASSUME NEW L, InOrder(L), NEW n, n = L.numElements, NEW w, w = walk(L),
           NEW m \in 0..n, NEW M, M = popN(L, m)
    PROVE  /\ InOrder(M) /\ M.numElements = n - m /\ walk(M) = dropped(w, n, m)
           /\ \A j \in m + 1..n : M.values[w[j]] = L.values[w[j]]
<1>1. /\ n \in Nat /\ w \in [1..n -> Keys] /\ \A i, j \in 1..n : w[i] = w[j] => i = j
  BY InOrderWalk
<1> DEFINE Popped(P, l) == /\ InOrder(P) /\ P.numElements = n - l /\ walk(P) = dropped(w, n, l)
                           /\ \A j \in l + 1..n : P.values[w[j]] = L.values[w[j]]
           Good == {l \in 0..m : Popped(popN(L, l), l)}
<1>2. 0 \in Good
  <2>1. popN(L, 0) = L
    BY PopNStep
  <2>2. dropped(w, n, 0) = w
    BY <1>1 DEF dropped
  <2> QED BY <1>1, <2>1, <2>2
<1>3. ASSUME NEW l \in 0..m - 1, l \in Good PROVE l + 1 \in Good
  <2> DEFINE P == popN(L, l)
             Q == popN(L, l + 1)
             u == dropped(w, n, l)
             q == n - l
  <2>1. /\ InOrder(P) /\ P.numElements = q /\ walk(P) = u
        /\ \A j \in l + 1..n : P.values[w[j]] = L.values[w[j]]
    BY <1>3
  <2>2. Q = remove(P, P.head)
    BY PopNStep
  <2>3. q \in Nat \ {0} /\ 1 \in 1..q /\ l + 1 \in 0..m /\ l + 1 \in 1..n
    BY <1>1
  <2>4. \A j \in 1..q : u[j] = w[j + l]
    BY DEF dropped
  <2> HIDE DEF P, Q, u, q, Good
  <2>5. P.head = u[1]
    <3>1. Walks(P, u, q)
      BY <2>1, InOrderWalk
    <3> QED BY <2>3, <3>1 DEF Walks, place
  <2>6. /\ InOrder(Q) /\ Q.numElements = q - 1 /\ walk(Q) = closed(u, q, 1)
        /\ \A x \in Keys \ {u[1]} : Q.values[x] = P.values[x]
    BY <2>1, <2>2, <2>3, <2>5, RemoveInOrder
  <2>7. closed(u, q, 1) = dropped(w, n, l + 1)
    <3>1. q - 1 = n - (l + 1)
      BY <1>1 DEF q
    <3>2. ASSUME NEW j \in 1..q - 1
          PROVE  (IF j < 1 THEN u[j] ELSE u[j + 1]) = w[j + (l + 1)]
      <4>1. j + 1 \in 1..q /\ (j + 1) + l = j + (l + 1) /\ ~(j < 1)
        BY <2>3
      <4>2. u[j + 1] = w[(j + 1) + l]
        BY <2>4, <4>1
      <4> QED BY <4>1, <4>2
    <3> QED BY <3>1, <3>2 DEF closed, dropped
  <2>8. q - 1 = n - (l + 1)
    BY <1>1 DEF q
  <2>9. \A j \in (l + 1) + 1..n : Q.values[w[j]] = L.values[w[j]]
    <3> SUFFICES ASSUME NEW j \in (l + 1) + 1..n PROVE Q.values[w[j]] = L.values[w[j]]
      OBVIOUS
    <3>1. j \in 1..n /\ j \in l + 1..n /\ j # 1 + l /\ 1 + l \in 1..n
      BY <1>1, <2>3
    <3>2. w[j] \in Keys \ {u[1]}
      BY <1>1, <2>3, <2>4, <3>1
    <3> QED BY <2>1, <2>6, <3>1, <3>2
  <2> QED BY <2>3, <2>6, <2>7, <2>8, <2>9 DEF Good, Q
<1> HIDE DEF Good
<1>4. m \in Good
  BY <1>2, <1>3, UpTo
<1> QED BY <1>4 DEF Good

-----------------------------------------------------------------------------
(***************************************************************************)
(* The list is in order after any sequence of calls                        *)
(***************************************************************************)

\* The list is in order before the first call.
LEMMA EmptyInOrder == InOrder(EmptyList) /\ EmptyList.numElements = 0
<1> DEFINE w == [j \in 1..0 |-> Zero]
<1>1. EmptyList \in Lists
  BY SortedLinkedListAssumption DEF EmptyList, NoElement, Lists, Links, Hints
<1>2. w \in [1..0 -> Keys] /\ \A i \in 1..0 : FALSE
  OBVIOUS
<1> HIDE DEF w
<1>3. Walks(EmptyList, w, 0)
  BY <1>2 DEF Walks, EmptyList, place
<1>4. Descending(EmptyList, w, 0)
  BY <1>2 DEF Descending
<1> QED BY <1>1, <1>3, <1>4, InOrderFromWalk

\* Every operation keeps the list in order.
LEMMA OperationsInOrder == InOrder(list) /\ Next => InOrder(list')
<1> SUFFICES ASSUME InOrder(list), Next PROVE InOrder(list')
  OBVIOUS
<1> DEFINE n == list.numElements
           w == walk(list)
<1>1. list \in Lists /\ n \in Nat
  BY InOrderWalk
<1> HIDE DEF n, w
<1>2. ASSUME NEW k \in Keys, contains(list, k)
      PROVE  InOrder(remove(list, k))
  <2>1. k \in Hints
    BY DEF Hints
  <2>2. PICK p \in 1..n : k = w[p]
    BY <1>2, <2>1, ContainedPlace DEF n, w
  <2> QED BY <2>2, RemoveInOrder DEF n, w
<1>3. ASSUME NEW k \in Keys, NEW v \in 0..MaxValue, NEW lesserKey \in Hints, NEW greaterKey \in Hints,
             Insert(k, v, lesserKey, greaterKey)
      PROVE  InOrder(list')
  BY <1>3, InsertInOrder DEF Insert
<1>4. ASSUME NEW k \in Keys, NEW v \in 0..MaxValue, NEW lesserKey \in Hints, NEW greaterKey \in Hints,
             Update(k, v, lesserKey, greaterKey)
      PROVE  InOrder(list')
  BY <1>2, <1>4, InsertInOrder DEF Update
<1>5. ASSUME NEW k \in Keys, Delete(k) PROVE InOrder(list')
  BY <1>2, <1>5 DEF Delete
<1>6. ASSUME NEW k \in Keys, Push(k) PROVE InOrder(list')
  <2>1. Zero \in Hints /\ list.tail \in Hints /\ 0 \in 0..MaxValue
    BY <1>1, Fields, SortedLinkedListAssumption DEF Hints
  <2> QED BY <1>6, <2>1, InsertInOrder DEF Push
<1>7. ASSUME NEW m \in 0..list.numElements, PopN(m) PROVE InOrder(list')
  BY <1>7, PopNInOrder DEF PopN
<1> QED BY <1>3, <1>4, <1>5, <1>6, <1>7 DEF Next

\* The list is in order in every reachable state.
LEMMA AlwaysInOrder == Spec => []InOrder(list)
<1>1. Init => InOrder(list)
  BY EmptyInOrder DEF Init
<1>2. InOrder(list) /\ [Next]_list => InOrder(list)'
  <2> SUFFICES ASSUME InOrder(list), [Next]_list PROVE InOrder(list')
    OBVIOUS
  <2>1. CASE Next
    BY <2>1, OperationsInOrder
  <2>2. CASE list' = list
    BY <2>2
  <2> QED BY <2>1, <2>2
<1> QED BY <1>1, <1>2, PTL DEF Spec

\* Walking previousKey from the head visits every element of the list once and ends at
\* the tail, and nextKey leads back, whatever was inserted, updated, pushed, popped and
\* removed before.
THEOREM WalksAlwaysAgree == Spec => []WalksAgree
<1>1. InOrder(list) => WalksAgree
  <2> SUFFICES ASSUME InOrder(list) PROVE WalksAgree
    OBVIOUS
  <2> DEFINE n == list.numElements
             keys == headN(list, list.numElements)
  <2>1. /\ list \in Lists /\ n \in Nat /\ Walks(list, keys, n)
        /\ keys \in [1..n -> Keys] /\ \A i, j \in 1..n : keys[i] = keys[j] => i = j
    BY InOrderWalk DEF walk
  <2> HIDE DEF n, keys
  <2>2. {keys[i] : i \in 1..n} = {k \in Keys : contains(list, k)}
    <3>1. \A k \in Keys : contains(list, k) <=> \E i \in 1..n : keys[i] = k
      BY <2>1, Visited DEF Within, Hints
    <3> QED BY <2>1, <3>1
  <2>3. list.tail = IF n = 0 THEN Zero ELSE keys[n]
    BY <2>1 DEF Walks, place
  <2>4. ASSUME NEW i \in 1..n
        PROVE  list.elements[keys[i]] =
                  [nextKey |-> IF i = 1 THEN Zero ELSE keys[i - 1],
                   previousKey |-> IF i = n THEN Zero ELSE keys[i + 1],
                   exists |-> TRUE]
    <3>1. list.elements[keys[i]] \in Links
      BY <2>1, Fields
    <3>2. /\ list.elements[keys[i]].previousKey = place(keys, n, i + 1)
          /\ list.elements[keys[i]].nextKey = place(keys, n, i - 1)
          /\ list.elements[keys[i]].exists
      BY <2>1 DEF Walks
    <3>3. /\ place(keys, n, i + 1) = IF i = n THEN Zero ELSE keys[i + 1]
          /\ place(keys, n, i - 1) = IF i = 1 THEN Zero ELSE keys[i - 1]
      BY <2>1 DEF place
    <3>4. list.elements[keys[i]].exists = TRUE
      BY <3>1, <3>2 DEF Links
    <3> HIDE <3>2
    <3>5. /\ list.elements[keys[i]].previousKey = IF i = n THEN Zero ELSE keys[i + 1]
          /\ list.elements[keys[i]].nextKey = IF i = 1 THEN Zero ELSE keys[i - 1]
      BY <3>2, <3>3
    <3> QED BY <3>1, <3>4, <3>5 DEF Links
  <2>5. \A k \in Keys : ~contains(list, k) => list.elements[k] = NoElement /\ list.values[k] = 0
    <3>1. \A k \in Keys : ~contains(list, k) => ~Within(keys, n, k)
      BY <2>1, Visited DEF Hints
    <3> QED BY <2>1, <3>1 DEF Walks
  <2> QED BY <2>1, <2>2, <2>3, <2>4, <2>5 DEF WalksAgree, n, keys
<1> QED BY <1>1, AlwaysInOrder, PTL

-----------------------------------------------------------------------------
(***************************************************************************)
(* Which hints are good enough                                             *)
(***************************************************************************)

\* One of the four ways to use the hints has to work.
LEMMA FoundWhen ==
    ASSUME NEW L, NEW v, NEW lesserKey, NEW greaterKey,
           \/ lesserKey = Zero /\ isValueBetween(L, v, lesserKey, L.tail)
           \/ greaterKey = Zero /\ isValueBetween(L, v, L.head, greaterKey)
           \/ lesserKey # Zero /\ isValueBetween(L, v, lesserKey, L.elements[lesserKey].nextKey)
           \/ greaterKey # Zero /\ isValueBetween(L, v, L.elements[greaterKey].previousKey, greaterKey)
    PROVE  getLesserAndGreater(L, v, lesserKey, greaterKey).found
<1> DEFINE A == lesserKey = Zero /\ isValueBetween(L, v, lesserKey, L.tail)
           B == greaterKey = Zero /\ isValueBetween(L, v, L.head, greaterKey)
           C == lesserKey # Zero /\ isValueBetween(L, v, lesserKey, L.elements[lesserKey].nextKey)
           D == greaterKey # Zero
                   /\ isValueBetween(L, v, L.elements[greaterKey].previousKey, greaterKey)
           gap(l, g) == [lesser |-> l, greater |-> g, found |-> TRUE]
           pl == IF A THEN gap(lesserKey, L.tail)
                 ELSE IF B THEN gap(L.head, greaterKey)
                 ELSE IF C THEN gap(lesserKey, L.elements[lesserKey].nextKey)
                 ELSE IF D THEN gap(L.elements[greaterKey].previousKey, greaterKey)
                 ELSE NoPlace
<1>1. getLesserAndGreater(L, v, lesserKey, greaterKey) = pl
  BY DEF getLesserAndGreater
<1>2. A \/ B \/ C \/ D
  OBVIOUS
<1> HIDE DEF A, B, C, D
<1>3. pl.found
  BY <1>2
<1> QED BY <1>1, <1>3

\* A key of the list with its neighbour, or an end of the list, is a place in it.
LEMMA FoundIsPlace ==
    ASSUME NEW L, InOrder(L), NEW n, n = L.numElements, NEW w, w = walk(L),
           NEW lesserKey \in Hints, lesserKey = Zero \/ contains(L, lesserKey),
           NEW greaterKey \in Hints, greaterKey = Zero \/ contains(L, greaterKey), NEW v,
           NEW pl, pl = getLesserAndGreater(L, v, lesserKey, greaterKey), pl.found
    PROVE  \E i \in 0..n : pl.lesser = place(w, n, i + 1) /\ pl.greater = place(w, n, i)
<1>1. /\ L \in Lists /\ n \in Nat /\ Walks(L, w, n)
      /\ \A j \in 1..n : w[j] # Zero
  BY InOrderWalk
<1> DEFINE above == L.elements[lesserKey].nextKey
           below == L.elements[greaterKey].previousKey
<1>2. \/ lesserKey = Zero /\ pl.lesser = Zero /\ pl.greater = L.tail
      \/ greaterKey = Zero /\ pl.lesser = L.head /\ pl.greater = Zero
      \/ lesserKey # Zero /\ pl.lesser = lesserKey /\ pl.greater = above
      \/ greaterKey # Zero /\ pl.lesser = below /\ pl.greater = greaterKey
  <2> DEFINE A == lesserKey = Zero /\ isValueBetween(L, v, lesserKey, L.tail)
             B == greaterKey = Zero /\ isValueBetween(L, v, L.head, greaterKey)
             C == lesserKey # Zero /\ isValueBetween(L, v, lesserKey, above)
             D == greaterKey # Zero /\ isValueBetween(L, v, below, greaterKey)
             of(l, g) == [lesser |-> l, greater |-> g, found |-> TRUE]
  <2>1. pl = IF A THEN of(lesserKey, L.tail) ELSE IF B THEN of(L.head, greaterKey)
             ELSE IF C THEN of(lesserKey, above) ELSE IF D THEN of(below, greaterKey)
             ELSE NoPlace
    BY DEF getLesserAndGreater
  <2>2. (A => lesserKey = Zero) /\ (B => greaterKey = Zero)
        /\ (C => lesserKey # Zero) /\ (D => greaterKey # Zero)
    OBVIOUS
  <2>3. ~NoPlace.found
    BY DEF NoPlace
  <2> HIDE DEF A, B, C, D, above, below
  <2>4. A \/ B \/ C \/ D
    BY <2>1, <2>3
  <2>5. CASE A
    BY <2>1, <2>2, <2>5
  <2>6. CASE ~A /\ B
    BY <2>1, <2>2, <2>6
  <2>7. CASE ~A /\ ~B /\ C
    BY <2>1, <2>2, <2>7
  <2>8. CASE ~A /\ ~B /\ ~C /\ D
    BY <2>1, <2>2, <2>8
  <2> QED BY <2>4, <2>5, <2>6, <2>7, <2>8
<1>3. /\ L.head = place(w, n, 1) /\ L.tail = place(w, n, n)
      /\ place(w, n, 0) = Zero /\ place(w, n, n + 1) = Zero
      /\ 0 \in 0..n /\ n \in 0..n /\ 0 + 1 = 1
  BY <1>1 DEF Walks, place
<1>4. CASE lesserKey = Zero /\ pl.lesser = Zero /\ pl.greater = L.tail
  BY <1>3, <1>4
<1>5. CASE greaterKey = Zero /\ pl.lesser = L.head /\ pl.greater = Zero
  BY <1>3, <1>5
<1>6. CASE lesserKey # Zero /\ pl.lesser = lesserKey /\ pl.greater = above
  <2>1. PICK p \in 1..n : lesserKey = w[p]
    BY <1>6, ContainedPlace
  <2>2. /\ p - 1 \in 0..n /\ (p - 1) + 1 = p
        /\ lesserKey = place(w, n, p) /\ above = place(w, n, p - 1)
    BY <1>1, <2>1 DEF Walks, place
  <2> QED BY <1>6, <2>2
<1>7. CASE greaterKey # Zero /\ pl.lesser = below /\ pl.greater = greaterKey
  <2>1. PICK p \in 1..n : greaterKey = w[p]
    BY <1>7, ContainedPlace
  <2>2. /\ p \in 0..n
        /\ greaterKey = place(w, n, p) /\ below = place(w, n, p + 1)
    BY <1>1, <2>1 DEF Walks, place
  <2> QED BY <1>7, <2>2
<1> QED BY <1>2, <1>4, <1>5, <1>6, <1>7

\* A new element can be linked between any two neighbours.
LEMMA NeighboursLink ==
    ASSUME NEW L, InOrder(L), NEW n, n = L.numElements, NEW w, w = walk(L),
           NEW k \in Keys, ~contains(L, k), NEW i \in 0..n
    PROVE  canLink(L, k, place(w, n, i + 1), place(w, n, i))
<1>1. /\ L \in Lists /\ n \in Nat /\ Walks(L, w, n)
      /\ w \in [1..n -> Keys] /\ \A j \in 1..n : w[j] # Zero
  BY InOrderWalk
<1>2. k # Zero /\ k \in Hints /\ \A j \in 1..n : w[j] \in Hints
  BY <1>1, SortedLinkedListAssumption DEF Hints
<1>3. ~Within(w, n, k)
  BY <1>1, <1>2, Visited
<1>4. \A j \in 1..n : /\ w[j] # k /\ contains(L, w[j])
                      /\ L.elements[w[j]].previousKey = place(w, n, j + 1)
                      /\ L.elements[w[j]].nextKey = place(w, n, j - 1)
  <2> TAKE j \in 1..n
  <2>1. w[j] # k /\ Within(w, n, w[j])
    BY <1>3 DEF Within
  <2>2. contains(L, w[j])
    BY <1>1, <1>2, <2>1, Visited
  <2> QED BY <1>1, <2>1, <2>2 DEF Walks
<1> DEFINE below == place(w, n, i + 1)
           above == place(w, n, i)
<1>5. below # k /\ above # k
  BY <1>2, <1>4 DEF place
<1>6. below # Zero => contains(L, below) /\ L.elements[below].nextKey = above
  <2> SUFFICES ASSUME below # Zero PROVE contains(L, below) /\ L.elements[below].nextKey = above
    OBVIOUS
  <2>1. i + 1 \in 1..n /\ below = w[i + 1] /\ (i + 1) - 1 = i
    BY DEF place
  <2> QED BY <1>4, <2>1
<1>7. above # Zero => contains(L, above) /\ L.elements[above].previousKey = below
  <2> SUFFICES ASSUME above # Zero PROVE contains(L, above) /\ L.elements[above].previousKey = below
    OBVIOUS
  <2>1. i \in 1..n /\ above = w[i]
    BY DEF place
  <2> QED BY <1>4, <2>1
<1>8. n # 0 => below # Zero \/ above # Zero
  BY <1>1 DEF place
<1> HIDE DEF below, above
<1>9. canLink(L, k, below, above)
  BY <1>2, <1>5, <1>6, <1>7, <1>8 DEF canLink
<1> QED BY <1>9 DEF below, above

\* An insert goes through when its hints are in the list, or Zero, and lead to a place.
LEMMA FoundInserts ==
    ASSUME NEW L, InOrder(L), NEW k \in Keys, ~contains(L, k), NEW v,
           NEW lesserKey \in Hints, lesserKey = Zero \/ contains(L, lesserKey),
           NEW greaterKey \in Hints, greaterKey = Zero \/ contains(L, greaterKey),
           lesserKey # Zero \/ greaterKey # Zero \/ L.numElements = 0,
           getLesserAndGreater(L, v, lesserKey, greaterKey).found
    PROVE  canInsert(L, k, v, lesserKey, greaterKey)
<1> DEFINE n == L.numElements
           w == walk(L)
           pl == getLesserAndGreater(L, v, lesserKey, greaterKey)
<1>1. pl.found
  OBVIOUS
<1> HIDE DEF pl
<1>2. \E i \in 0..n : pl.lesser = place(w, n, i + 1) /\ pl.greater = place(w, n, i)
  BY <1>1, FoundIsPlace DEF pl
<1>3. canLink(L, k, pl.lesser, pl.greater)
  BY <1>2, NeighboursLink
<1>4. k # Zero /\ k # lesserKey /\ k # greaterKey
  BY SortedLinkedListAssumption
<1> QED BY <1>1, <1>3, <1>4 DEF canInsert, pl

\* The place between two neighbours in the walk, with its hints one by one.
LEMMA NeighboursAsHints ==
    ASSUME NEW L, InOrder(L), NEW n, n = L.numElements, NEW w, w = walk(L), NEW i \in 0..n,
           NEW below, below = place(w, n, i + 1), NEW above, above = place(w, n, i)
    PROVE  /\ below \in Hints /\ (below = Zero \/ contains(L, below))
           /\ above \in Hints /\ (above = Zero \/ contains(L, above))
           /\ below = Zero => above = L.tail
           /\ above = Zero => below = L.head
           /\ below # Zero => L.elements[below].nextKey = above
           /\ above # Zero => L.elements[above].previousKey = below
           /\ n # 0 => below # Zero \/ above # Zero
<1>1. /\ L \in Lists /\ n \in Nat /\ Walks(L, w, n)
      /\ w \in [1..n -> Keys] /\ \A j \in 1..n : w[j] # Zero
  BY InOrderWalk
<1>2. \A j \in 1..n : contains(L, w[j]) /\ w[j] \in Hints
  BY <1>1, Visited DEF Within, Hints
<1>3. /\ i + 1 \in 1..n <=> i # n
      /\ i \in 1..n <=> i # 0
      /\ i \in Int /\ (i + 1) - 1 = i
  BY <1>1
<1>4. /\ below = IF i # n THEN w[i + 1] ELSE Zero
      /\ above = IF i # 0 THEN w[i] ELSE Zero
  BY <1>3 DEF place
<1>5. /\ L.head = place(w, n, 1) /\ L.tail = place(w, n, n)
      /\ \A j \in 1..n : /\ L.elements[w[j]].previousKey = place(w, n, j + 1)
                         /\ L.elements[w[j]].nextKey = place(w, n, j - 1)
  BY <1>1 DEF Walks
<1>6. below = Zero <=> i = n
  BY <1>1, <1>3, <1>4
<1>7. above = Zero <=> i = 0
  BY <1>1, <1>3, <1>4
<1>8. /\ below \in Hints /\ (below = Zero \/ contains(L, below))
      /\ above \in Hints /\ (above = Zero \/ contains(L, above))
  BY <1>2, <1>3, <1>4 DEF Hints
<1>9. below # Zero => L.elements[below].nextKey = above
  <2> SUFFICES ASSUME below # Zero PROVE L.elements[below].nextKey = above
    OBVIOUS
  <2>1. i + 1 \in 1..n /\ below = w[i + 1]
    BY <1>3, <1>4
  <2>2. L.elements[w[i + 1]].nextKey = place(w, n, (i + 1) - 1)
    BY <1>5, <2>1
  <2> QED BY <1>3, <2>1, <2>2
<1>10. above # Zero => L.elements[above].previousKey = below
  BY <1>3, <1>4, <1>5
<1> QED BY <1>3, <1>5, <1>6, <1>7, <1>8, <1>9, <1>10

\* Only one of the two hints needs to be correct: an insert goes through with a correct
\* hint and any element of the list, or none, as the other, and with two correct hints
\* the element is put at that very place.
THEOREM OneCorrectHintAlwaysSuffices == Spec => []OneCorrectHintSuffices
<1>1. InOrder(list) => OneCorrectHintSuffices
  <2> SUFFICES ASSUME InOrder(list) PROVE OneCorrectHintSuffices
    OBVIOUS
  <2> DEFINE n == list.numElements
             keys == headN(list, n)
             at(j) == IF j \in 1..n THEN keys[j] ELSE Zero
  <2>1. /\ keys = walk(list) /\ n \in Nat
        /\ \A j \in Int : at(j) = place(keys, n, j)
    BY InOrderWalk DEF walk, place
  <2> SUFFICES ASSUME NEW k \in Keys, NEW v \in 0..MaxValue, NEW i \in 0..n, NEW other \in Hints,
                      ~contains(list, k),
                      isValueBetween(list, v, at(i + 1), at(i)),
                      other = Zero \/ contains(list, other)
               PROVE  /\ canInsert(list, k, v, at(i + 1), at(i))
                      /\ headN(insert(list, k, v, at(i + 1), at(i)), n + 1)[i + 1] = k
                      /\ n # 0 /\ ~(at(i + 1) = Zero /\ other = Zero)
                            => canInsert(list, k, v, at(i + 1), other)
                      /\ n # 0 /\ ~(at(i) = Zero /\ other = Zero)
                            => canInsert(list, k, v, other, at(i))
    BY DEF OneCorrectHintSuffices
  <2> DEFINE below == at(i + 1)
             above == at(i)
  <2>2. /\ below = place(keys, n, i + 1) /\ above = place(keys, n, i)
        /\ isValueBetween(list, v, below, above)
    BY <2>1
  <2> HIDE DEF at, keys, below, above
  <2>3. /\ below \in Hints /\ (below = Zero \/ contains(list, below))
        /\ above \in Hints /\ (above = Zero \/ contains(list, above))
        /\ below = Zero => above = list.tail
        /\ above = Zero => below = list.head
        /\ below # Zero => list.elements[below].nextKey = above
        /\ above # Zero => list.elements[above].previousKey = below
        /\ n # 0 => below # Zero \/ above # Zero
    BY <2>1, <2>2, NeighboursAsHints
  <2>4. getLesserAndGreater(list, v, below, above) =
           [lesser |-> below, greater |-> above, found |-> TRUE]
    BY <2>2, <2>3 DEF getLesserAndGreater
  <2>5. canInsert(list, k, v, below, above)
    BY <2>3, <2>4, FoundInserts
  <2>6. headN(insert(list, k, v, below, above), n + 1)[i + 1] = k
    <3> DEFINE M == insert(list, k, v, below, above)
               u == opened(keys, n, i, k)
               m == n + 1
    <3>1. M = setValue(link(list, k, place(keys, n, i + 1), place(keys, n, i)), k, v)
      BY <2>2, <2>4 DEF insert, setValue
    <3>2. ~Within(keys, n, k)
      BY <2>1, InOrderWalk, Visited DEF Hints
    <3>3. /\ list \in Lists /\ Walks(list, keys, n) /\ Descending(list, keys, n)
      BY <2>1, InOrderWalk
    <3>4. isValueBetween(list, v, place(keys, n, i + 1), place(keys, n, i))
      BY <2>2
    <3>5. u = opened(keys, n, i, k) /\ m = n + 1 /\ m \in Nat /\ i + 1 \in 1..m
      BY <2>1
    <3> HIDE DEF M, u, m
    <3>6. M \in Lists /\ Walks(M, u, m)
      BY <2>1, <3>1, <3>2, <3>3, <3>4, <3>5, InsertOpens
    <3>7. headN(M, m) = u
      BY <3>5, <3>6, HeadNIsWalk
    <3>8. u[i + 1] = k
      BY <3>5 DEF opened
    <3> QED BY <3>5, <3>7, <3>8 DEF M
  <2>7. ASSUME n # 0, ~(below = Zero /\ other = Zero) PROVE canInsert(list, k, v, below, other)
    <3>1. getLesserAndGreater(list, v, below, other).found
      BY <2>2, <2>3, FoundWhen
    <3> QED BY <2>3, <2>7, <3>1, FoundInserts
  <2>8. ASSUME n # 0, ~(above = Zero /\ other = Zero) PROVE canInsert(list, k, v, other, above)
    <3>1. getLesserAndGreater(list, v, other, above).found
      BY <2>2, <2>3, FoundWhen
    <3> QED BY <2>3, <2>8, <3>1, FoundInserts
  <2> QED BY <2>5, <2>6, <2>7, <2>8 DEF below, above
<1> QED BY <1>1, AlwaysInOrder, PTL

-----------------------------------------------------------------------------
(***************************************************************************)
(* The list implements the abstract sorted list                            *)
(***************************************************************************)
Entries == [key : Keys, value : 0..MaxValue]

entry(k, v) == [key |-> k, value |-> v]

readOut(L) == [i \in 1..L.numElements |-> entry(walk(L)[i], L.values[walk(L)[i]])]

\* What a list in order reads like, from its head to its tail.
LEMMA ReadOut ==
    ASSUME NEW L, InOrder(L), NEW n, n = L.numElements, NEW w, w = walk(L),
           NEW s, s = readOut(L)
    PROVE  /\ s \in Seq(Entries) /\ Len(s) = n
           /\ \A i \in 1..n : s[i] = entry(w[i], L.values[w[i]])
           /\ DistinctKeys(s) /\ Sorted(s)
           /\ \A k : k \in KeySet(s) <=> Within(w, n, k)
<1>1. /\ n \in Nat /\ w \in [1..n -> Keys] /\ Descending(L, w, n)
      /\ \A i, j \in 1..n : w[i] = w[j] => i = j
      /\ \A j \in 1..n : L.values[w[j]] \in 0..MaxValue
  BY InOrderWalk
<1>2. s = [i \in 1..n |-> entry(w[i], L.values[w[i]])]
  BY DEF readOut
<1>3. \A i \in 1..n : entry(w[i], L.values[w[i]]) \in Entries
  BY <1>1 DEF entry, Entries
<1>4. s \in [1..n -> Entries] /\ DOMAIN s = 1..n
  BY <1>2, <1>3
<1>5. s \in Seq(Entries)
  BY <1>1, <1>4, SeqDef
<1>6. Len(s) = n
  <2>1. Len(s) \in Nat /\ 1..Len(s) = 1..n
    BY <1>4, <1>5, LenProperties
  <2>2. \A i \in Int : i \in 1..Len(s) <=> i \in 1..n
    BY <2>1
  <2> HIDE <2>1
  <2>3. Len(s) \in Nat
    BY <2>1
  <2>4. Len(s) \in 1..n \/ Len(s) = 0
    BY <2>2, <2>3
  <2>5. n \in 1..Len(s) \/ n = 0
    BY <1>1, <2>2
  <2> QED BY <1>1, <2>3, <2>4, <2>5
<1>7. \A i \in 1..n : s[i] = entry(w[i], L.values[w[i]])
  BY <1>2
<1>8. \A i \in 1..n : s[i].key = w[i] /\ s[i].value = L.values[w[i]]
  <2> TAKE i \in 1..n
  <2>1. s[i] = entry(w[i], L.values[w[i]])
    BY <1>7
  <2> HIDE <1>2, <1>7
  <2> QED BY <2>1 DEF entry
<1> HIDE <1>2
<1>9. DistinctKeys(s)
  BY <1>1, <1>4, <1>8 DEF DistinctKeys
<1>10. Sorted(s)
  BY <1>1, <1>4, <1>8 DEF Sorted, Descending
<1>11. \A k : k \in KeySet(s) <=> Within(w, n, k)
  BY <1>4, <1>8 DEF KeySet, Within
<1> QED BY <1>5, <1>6, <1>7, <1>9, <1>10, <1>11

\* A list that was read out is the result of putting an entry in if it has this entry at
\* its place, and the others moved on.
LEMMA InsertAtIs ==
    ASSUME NEW s \in Seq(Entries), NEW p \in 1..Len(s) + 1, NEW e \in Entries,
           NEW t \in Seq(Entries), Len(t) = Len(s) + 1,
           \A i \in 1..Len(s) + 1 : t[i] = IF i < p THEN s[i] ELSE IF i = p THEN e ELSE s[i - 1]
    PROVE  t = InsertAt(s, p, e)
<1> DEFINE r == InsertAt(s, p, e)
<1>1. /\ r \in Seq(Entries) /\ Len(r) = Len(s) + 1
      /\ \A i \in 1..Len(s) + 1 : r[i] = IF i < p THEN s[i] ELSE IF i = p THEN e ELSE s[i - 1]
  BY InsertAtElements
<1> HIDE DEF r
<1>2. \A i \in 1..Len(t) : t[i] = r[i]
  BY <1>1
<1>3. t = r
  BY <1>1, <1>2, SeqEqual
<1> QED BY <1>3 DEF r

\* Opening the walk puts the entry in at that place.
LEMMA OpenReads ==
    ASSUME NEW L, InOrder(L), NEW n, n = L.numElements, NEW w, w = walk(L),
           NEW i \in 0..n, NEW k \in Keys, ~Within(w, n, k), NEW v \in 0..MaxValue,
           NEW M, InOrder(M), M.numElements = n + 1, walk(M) = opened(w, n, i, k),
           M.values[k] = v, \A x \in Keys \ {k} : M.values[x] = L.values[x],
           NEW s, s = readOut(L), NEW t, t = readOut(M)
    PROVE  t = InsertAt(s, i + 1, entry(k, v))
<1> DEFINE u == opened(w, n, i, k)
           m == n + 1
           e == entry(k, v)
<1>1. /\ n \in Nat /\ w \in [1..n -> Keys]
      /\ s \in Seq(Entries) /\ Len(s) = n
      /\ \A j \in 1..n : s[j] = entry(w[j], L.values[w[j]])
  BY InOrderWalk, ReadOut
<1>2. \A j \in 1..n : w[j] \in Keys \ {k}
  BY <1>1 DEF Within
<1>3. \A j \in 1..m : u[j] = IF j <= i THEN w[j] ELSE IF j = i + 1 THEN k ELSE w[j - 1]
  BY DEF opened
<1> HIDE DEF u
<1>4. walk(M) = u /\ M.numElements = m
  BY DEF u
<1>5. /\ t \in Seq(Entries) /\ Len(t) = m
      /\ \A j \in 1..m : t[j] = entry(u[j], M.values[u[j]])
  <2> HIDE DEF m
  <2> QED BY <1>4, ReadOut
<1>6. e \in Entries /\ i + 1 \in 1..Len(s) + 1
  BY <1>1 DEF entry, Entries
<1>7. ASSUME NEW j \in 1..m
      PROVE  t[j] = IF j < i + 1 THEN s[j] ELSE IF j = i + 1 THEN e ELSE s[j - 1]
  <2>1. t[j] = entry(u[j], M.values[u[j]])
    BY <1>5
  <2>2. CASE j = i + 1
    <3>1. u[j] = k /\ ~(j < i + 1)
      BY <1>3, <2>2
    <3> QED BY <2>1, <2>2, <3>1
  <2>3. CASE j <= i
    <3>1. j \in 1..n /\ j < i + 1 /\ u[j] = w[j]
      BY <1>1, <1>3, <2>3
    <3>2. s[j] = entry(w[j], L.values[w[j]]) /\ M.values[w[j]] = L.values[w[j]]
      BY <1>1, <1>2, <3>1
    <3> QED BY <2>1, <3>1, <3>2
  <2>4. CASE j > i + 1
    <3>1. j - 1 \in 1..n /\ ~(j < i + 1) /\ j # i + 1 /\ u[j] = w[j - 1]
      BY <1>1, <1>3, <2>4
    <3>2. s[j - 1] = entry(w[j - 1], L.values[w[j - 1]]) /\ M.values[w[j - 1]] = L.values[w[j - 1]]
      BY <1>1, <1>2, <3>1
    <3> QED BY <2>1, <3>1, <3>2
  <2> QED BY <1>1, <2>2, <2>3, <2>4
<1> HIDE DEF e
<1>8. t = InsertAt(s, i + 1, e)
  <2> DEFINE p == i + 1
  <2>1. /\ Len(t) = Len(s) + 1 /\ p \in 1..Len(s) + 1
        /\ \A j \in 1..Len(s) + 1 : t[j] = IF j < p THEN s[j] ELSE IF j = p THEN e ELSE s[j - 1]
    BY <1>1, <1>5, <1>6, <1>7
  <2> HIDE DEF p
  <2>2. s \in Seq(Entries) /\ t \in Seq(Entries) /\ e \in Entries
    BY <1>1, <1>5, <1>6
  <2>3. t = InsertAt(s, p, e)
    BY ONLY <2>1, <2>2, InsertAtIs
  <2> QED BY <2>3 DEF p
<1> QED BY <1>8 DEF e

\* Closing the walk takes the entry out that stood there.
LEMMA CloseReads ==
    ASSUME NEW L, InOrder(L), NEW n, n = L.numElements, NEW w, w = walk(L),
           NEW p \in 1..n, NEW k, k = w[p],
           NEW M, InOrder(M), M.numElements = n - 1, walk(M) = closed(w, n, p),
           \A x \in Keys \ {k} : M.values[x] = L.values[x],
           NEW s, s = readOut(L), NEW t, t = readOut(M)
    PROVE  t = Without(s, k)
<1> DEFINE u == closed(w, n, p)
           m == n - 1
           r == Without(s, k)
<1>1. /\ n \in Nat /\ w \in [1..n -> Keys] /\ \A a, b \in 1..n : w[a] = w[b] => a = b
      /\ s \in Seq(Entries) /\ Len(s) = n /\ DistinctKeys(s)
      /\ \A j \in 1..n : s[j] = entry(w[j], L.values[w[j]])
  BY InOrderWalk, ReadOut
<1>2. \A j \in 1..n : j # p => w[j] \in Keys \ {k}
  BY <1>1
<1>3. \A j \in 1..m : u[j] = IF j < p THEN w[j] ELSE w[j + 1]
  BY DEF closed
<1> HIDE DEF u
<1>4. walk(M) = u /\ M.numElements = m
  BY DEF u
<1>5. /\ t \in Seq(Entries) /\ Len(t) = m
      /\ \A j \in 1..m : t[j] = entry(u[j], M.values[u[j]])
  <2> HIDE DEF m
  <2> QED BY <1>4, ReadOut
<1>6. p \in 1..Len(s) /\ s[p].key = k /\ r = Without(s, k)
  <2>1. s[p] = entry(w[p], L.values[w[p]])
    BY <1>1
  <2> QED BY <1>1, <2>1 DEF entry
<1> HIDE DEF r
<1>7. /\ r \in Seq(Entries) /\ Len(r) = Len(s) - 1
      /\ \A j \in 1..Len(s) - 1 : r[j] = IF j <= p - 1 THEN s[j] ELSE s[j + 1]
  <2>1. s \in Seq(Entries) /\ DistinctKeys(s)
    BY <1>1
  <2>2. r \in Seq(Entries) /\ Len(r) = Len(s) - 1
    BY ONLY <1>6, <2>1, WithoutElements
  <2>3. ASSUME NEW j \in 1..Len(s) - 1 PROVE r[j] = IF j <= p - 1 THEN s[j] ELSE s[j + 1]
    BY ONLY <1>6, <2>1, <2>3, WithoutElement
  <2> QED BY <2>2, <2>3
<1>8. ASSUME NEW j \in 1..m PROVE t[j] = r[j]
  <2>1. CASE j < p
    <3>1. j \in 1..n /\ j <= p - 1 /\ j # p
      BY <1>1, <2>1
    <3>2. u[j] = w[j] /\ r[j] = s[j]
      BY <1>1, <1>3, <1>7, <2>1, <3>1
    <3>3. /\ t[j] = entry(u[j], M.values[u[j]]) /\ s[j] = entry(w[j], L.values[w[j]])
          /\ M.values[w[j]] = L.values[w[j]]
      BY <1>1, <1>2, <1>5, <3>1
    <3> QED BY <3>2, <3>3
  <2>2. CASE ~(j < p)
    <3>1. j + 1 \in 1..n /\ ~(j <= p - 1) /\ j + 1 # p
      BY <1>1, <2>2
    <3>2. u[j] = w[j + 1] /\ r[j] = s[j + 1]
      BY <1>1, <1>3, <1>7, <2>2, <3>1
    <3>3. /\ t[j] = entry(u[j], M.values[u[j]]) /\ s[j + 1] = entry(w[j + 1], L.values[w[j + 1]])
          /\ M.values[w[j + 1]] = L.values[w[j + 1]]
      BY <1>1, <1>2, <1>5, <3>1
    <3> QED BY <3>2, <3>3
  <2> QED BY <2>1, <2>2
<1>9. t = r
  BY <1>1, <1>5, <1>7, <1>8, SeqEqual
<1> QED BY <1>9 DEF r

\* Dropping the first keys of the walk drops the first entries.
LEMMA DropReads ==
    ASSUME NEW L, InOrder(L), NEW n, n = L.numElements, NEW w, w = walk(L), NEW m \in 0..n,
           NEW M, InOrder(M), M.numElements = n - m, walk(M) = dropped(w, n, m),
           \A j \in m + 1..n : M.values[w[j]] = L.values[w[j]],
           NEW s, s = readOut(L), NEW t, t = readOut(M)
    PROVE  t = SubSeq(s, m + 1, n)
<1> DEFINE u == dropped(w, n, m)
           q == n - m
           r == SubSeq(s, m + 1, n)
<1>1. /\ n \in Nat /\ s \in Seq(Entries) /\ Len(s) = n
      /\ \A j \in 1..n : s[j] = entry(w[j], L.values[w[j]])
  BY InOrderWalk, ReadOut
<1>2. \A j \in 1..q : u[j] = w[j + m]
  BY DEF dropped
<1> HIDE DEF u
<1>3. walk(M) = u /\ M.numElements = q
  BY DEF u
<1>4. /\ t \in Seq(Entries) /\ Len(t) = q
      /\ \A j \in 1..q : t[j] = entry(u[j], M.values[u[j]])
  <2> HIDE DEF q
  <2> QED BY <1>3, ReadOut
<1>5. /\ r \in Seq(Entries) /\ Len(r) = IF m + 1 <= n THEN n - (m + 1) + 1 ELSE 0
      /\ \A j \in 1..n - (m + 1) + 1 : r[j] = s[(m + 1) + j - 1]
  <2>1. \A j \in m + 1..n : s[j] \in Entries
    BY <1>1, ElementOfSeq
  <2>2. m + 1 \in Int /\ n \in Int
    BY <1>1
  <2> QED BY <2>1, <2>2, SubSeqProperties
<1> HIDE DEF r
<1>6. Len(r) = q
  BY <1>1, <1>5
<1>7. ASSUME NEW j \in 1..q PROVE t[j] = r[j]
  <2>1. /\ (m + 1) + j - 1 = j + m /\ j \in 1..n - (m + 1) + 1
        /\ j + m \in 1..n /\ j + m \in m + 1..n
    BY <1>1
  <2>2. r[j] = s[j + m] /\ u[j] = w[j + m]
    BY <1>2, <1>5, <2>1
  <2>3. /\ t[j] = entry(u[j], M.values[u[j]]) /\ s[j + m] = entry(w[j + m], L.values[w[j + m]])
        /\ M.values[w[j + m]] = L.values[w[j + m]]
    BY <1>1, <1>4, <2>1
  <2> QED BY <2>2, <2>3
<1>8. t = r
  BY <1>4, <1>5, <1>6, <1>7, SeqEqual
<1> QED BY <1>8 DEF r

\* The keys that are read out are those of the list.
LEMMA ContainsReads ==
    ASSUME NEW L, InOrder(L), NEW k \in Keys
    PROVE  contains(L, k) <=> k \in KeySet(readOut(L))
<1> DEFINE n == L.numElements
           w == walk(L)
<1>1. L \in Lists /\ n \in Nat /\ Walks(L, w, n) /\ k \in Hints
  BY InOrderWalk DEF Hints
<1>2. k \in KeySet(readOut(L)) <=> Within(w, n, k)
  BY ReadOut
<1> HIDE DEF n, w
<1> QED BY <1>1, <1>2, Visited

\* An insert that goes through puts the entry in where the order stays intact.
LEMMA InsertReads ==
    ASSUME NEW L, InOrder(L), NEW k \in Keys, NEW v \in 0..MaxValue,
           NEW lesserKey \in Hints, NEW greaterKey \in Hints,
           canInsert(L, k, v, lesserKey, greaterKey),
           NEW M, M = insert(L, k, v, lesserKey, greaterKey),
           NEW s, s = readOut(L), NEW t, t = readOut(M)
    PROVE  InOrder(M) /\ k \notin KeySet(s) /\ t \in Placements(s, k, v)
<1> DEFINE n == L.numElements
           w == walk(L)
<1>1. /\ InOrder(M) /\ M.numElements = n + 1 /\ ~Within(w, n, k)
      /\ M.values[k] = v /\ \A x \in Keys \ {k} : M.values[x] = L.values[x]
  BY InsertInOrder
<1>2. \E i \in 0..n : walk(M) = opened(w, n, i, k)
  BY InsertInOrder
<1>3. PICK i \in 0..n : walk(M) = opened(w, n, i, k)
  BY <1>2
<1>4. n \in Nat /\ Len(s) = n /\ (k \in KeySet(s) <=> Within(w, n, k))
  BY InOrderWalk, ReadOut
<1>5. Sorted(t)
  BY <1>1, ReadOut
<1> HIDE DEF n, w
<1>6. t = InsertAt(s, i + 1, entry(k, v))
  BY <1>1, <1>3, OpenReads DEF n, w
<1>7. i + 1 \in 1..Len(s) + 1
  BY <1>4
<1>8. t \in Placements(s, k, v)
  BY <1>5, <1>6, <1>7 DEF Placements, entry
<1> QED BY <1>1, <1>4, <1>8

\* Removing a key takes its entry out.
LEMMA RemoveReads ==
    ASSUME NEW L, InOrder(L), NEW k \in Keys, contains(L, k), NEW M, M = remove(L, k)
    PROVE  InOrder(M) /\ readOut(M) = Without(readOut(L), k)
<1> DEFINE n == L.numElements
           w == walk(L)
<1>1. k \in Hints
  BY DEF Hints
<1>2. PICK p \in 1..n : k = w[p]
  BY <1>1, ContainedPlace
<1> HIDE DEF n, w
<1>3. /\ InOrder(M) /\ M.numElements = n - 1 /\ walk(M) = closed(w, n, p)
      /\ \A x \in Keys \ {k} : M.values[x] = L.values[x]
  BY <1>2, RemoveInOrder DEF n, w
<1> QED BY <1>2, <1>3, CloseReads DEF n, w

\* A pushed key goes behind all the others, since no value is less than zero.
LEMMA PushReads ==
    ASSUME NEW L, InOrder(L), NEW k \in Keys, canInsert(L, k, 0, Zero, L.tail),
           NEW M, M = insert(L, k, 0, Zero, L.tail),
           NEW s, s = readOut(L), NEW t, t = readOut(M)
    PROVE  InOrder(M) /\ k \notin KeySet(s) /\ t = Append(s, entry(k, 0))
<1> DEFINE n == L.numElements
           w == walk(L)
           u == opened(w, n, n, k)
           m == n + 1
<1>1. /\ L \in Lists /\ n \in Nat /\ Walks(L, w, n) /\ Descending(L, w, n)
      /\ w \in [1..n -> Keys] /\ \A j \in 1..n : L.values[w[j]] \in 0..MaxValue
      /\ s \in Seq(Entries) /\ Len(s) = n /\ (k \in KeySet(s) <=> Within(w, n, k))
  BY InOrderWalk, ReadOut
<1>2. k \in Hints /\ 0 \in 0..MaxValue /\ n \in 0..n
  BY <1>1, SortedLinkedListAssumption DEF Hints
<1>3. ~Within(w, n, k)
  <2>1. ~contains(L, k)
    BY DEF canInsert
  <2> HIDE DEF n, w
  <2> QED BY <1>1, <1>2, <2>1, Visited
<1>4. place(w, n, n + 1) = Zero /\ place(w, n, n) = L.tail
  BY <1>1 DEF Walks, place
<1>5. isValueBetween(L, 0, Zero, L.tail)
  BY <1>1, <1>4 DEF isValueBetween, place
<1>6. getLesserAndGreater(L, 0, Zero, L.tail) = [lesser |-> Zero, greater |-> L.tail, found |-> TRUE]
  BY <1>5 DEF getLesserAndGreater
<1>7. M = setValue(link(L, k, Zero, L.tail), k, 0)
  BY <1>6 DEF insert, setValue
<1> HIDE DEF n, w
<1>8. u = opened(w, n, n, k) /\ m = n + 1 /\ m \in Nat
  BY <1>1
<1> HIDE DEF u, m
<1>9. /\ M \in Lists /\ Walks(M, u, m) /\ Descending(M, u, m)
      /\ M.values[k] = 0 /\ \A x \in Keys \ {k} : M.values[x] = L.values[x]
  <2>1. /\ isValueBetween(L, 0, place(w, n, n + 1), place(w, n, n))
        /\ M = setValue(link(L, k, place(w, n, n + 1), place(w, n, n)), k, 0)
    BY <1>4, <1>5, <1>7
  <2> QED BY <1>1, <1>2, <1>3, <1>8, <2>1, InsertOpens
<1>10. InOrder(M) /\ walk(M) = u /\ M.numElements = m
  BY <1>8, <1>9, InOrderFromWalk
<1>11. t = InsertAt(s, n + 1, entry(k, 0))
  <2>1. M.numElements = n + 1 /\ walk(M) = opened(w, n, n, k)
    BY <1>8, <1>10
  <2> QED BY <1>2, <1>3, <1>9, <1>10, <2>1, OpenReads DEF n, w
<1>12. InsertAt(s, n + 1, entry(k, 0)) = Append(s, entry(k, 0))
  <2> DEFINE e == entry(k, 0)
             p == n + 1
             r == Append(s, e)
  <2>1. e \in Entries /\ p \in 1..Len(s) + 1 /\ s \in Seq(Entries)
    BY <1>1, <1>2 DEF entry, Entries
  <2> HIDE DEF e
  <2>2. /\ r \in Seq(Entries) /\ Len(r) = Len(s) + 1
        /\ \A j \in 1..Len(s) : r[j] = s[j]
        /\ r[Len(s) + 1] = e
    BY <2>1, AppendProperties
  <2> HIDE DEF r
  <2>3. \A j \in 1..Len(s) + 1 : r[j] = IF j < p THEN s[j] ELSE IF j = p THEN e ELSE s[j - 1]
    BY <1>1, <2>2
  <2> HIDE DEF p
  <2>4. r = InsertAt(s, p, e)
    BY <2>1, <2>2, <2>3, InsertAtIs
  <2> QED BY <2>4 DEF r, p, e
<1> QED BY <1>1, <1>3, <1>10, <1>11, <1>12

\* What popN leaves are the entries behind the first n.
LEMMA PopNReads ==
    ASSUME NEW L, InOrder(L), NEW m \in 0..L.numElements, NEW M, M = popN(L, m),
           NEW s, s = readOut(L)
    PROVE  m <= Len(s) /\ readOut(M) = SubSeq(s, m + 1, Len(s))
<1> DEFINE n == L.numElements
           w == walk(L)
<1>1. /\ InOrder(M) /\ M.numElements = n - m /\ walk(M) = dropped(w, n, m)
      /\ \A j \in m + 1..n : M.values[w[j]] = L.values[w[j]]
  BY PopNInOrder
<1>2. Len(s) = n /\ n \in Nat
  BY InOrderWalk, ReadOut
<1> HIDE DEF n, w
<1>3. readOut(M) = SubSeq(s, m + 1, n)
  BY <1>1, DropReads DEF n, w
<1> QED BY <1>2, <1>3 DEF n

\* The operators of the abstract list are those of SortedSeq.
LEMMA AbstractOperators ==
    ASSUME NEW s, NEW k, NEW v
    PROVE  /\ Abstract!KeySet(s) = KeySet(s)
           /\ Abstract!Without(s, k) = Without(s, k)
           /\ \A t : t \in Abstract!Placements(s, k, v) <=> t \in Placements(s, k, v)
<1>1. Abstract!KeySet(s) = KeySet(s)
  BY DEF Abstract!KeySet, KeySet
<1>2. Abstract!Without(s, k) = Without(s, k)
  BY DEF Abstract!Without, Without, Abstract!RemoveAt, RemoveAt, Abstract!Position, Position
<1>3. ASSUME NEW t PROVE t \in Abstract!Placements(s, k, v) <=> t \in Placements(s, k, v)
  BY DEF Abstract!Placements, Placements, Abstract!Sorted, Sorted, Abstract!InsertAt, InsertAt
<1> QED BY <1>1, <1>2, <1>3

\* Every operation of the linked list is the same operation of the abstract one.
LEMMA OperationsImplement == InOrder(list) /\ Next => Abstract!Next
<1> SUFFICES ASSUME InOrder(list), Next PROVE Abstract!Next
  OBVIOUS
<1> DEFINE s == readOut(list)
           t == readOut(list')
<1>1. getElements = s /\ getElements' = t
  BY DEF getElements, readOut, walk, entry
<1> HIDE DEF s, t
<1>2. ASSUME NEW k \in Keys, NEW v \in 0..MaxValue, NEW lesserKey \in Hints, NEW greaterKey \in Hints,
             Insert(k, v, lesserKey, greaterKey)
      PROVE  Abstract!Insert(k, v)
  <2>1. k \notin KeySet(s) /\ t \in Placements(s, k, v)
    BY <1>2, InsertReads DEF Insert, s, t
  <2> QED BY <1>1, <2>1, AbstractOperators DEF Abstract!Insert
<1>3. ASSUME NEW k \in Keys, NEW v \in 0..MaxValue, NEW lesserKey \in Hints, NEW greaterKey \in Hints,
             Update(k, v, lesserKey, greaterKey)
      PROVE  Abstract!Update(k, v)
  <2> DEFINE R == remove(list, k)
  <2>1. contains(list, k) /\ canInsert(R, k, v, lesserKey, greaterKey)
        /\ list' = insert(R, k, v, lesserKey, greaterKey)
    BY <1>3 DEF Update
  <2>2. InOrder(R) /\ readOut(R) = Without(s, k)
    BY <2>1, RemoveReads DEF s
  <2>3. k \in KeySet(s)
    BY <2>1, ContainsReads DEF s
  <2> HIDE DEF R
  <2>4. t \in Placements(Without(s, k), k, v)
    <3>1. t \in Placements(readOut(R), k, v)
      BY <2>1, <2>2, InsertReads DEF t
    <3> QED BY <2>2, <3>1
  <2> QED BY <1>1, <2>3, <2>4, AbstractOperators DEF Abstract!Update
<1>4. ASSUME NEW k \in Keys, Delete(k) PROVE Abstract!Delete(k)
  <2>1. k \in KeySet(s) /\ t = Without(s, k)
    BY <1>4, ContainsReads, RemoveReads DEF Delete, s, t
  <2> QED BY <1>1, <2>1, AbstractOperators DEF Abstract!Delete
<1>5. ASSUME NEW k \in Keys, Push(k) PROVE Abstract!Push(k)
  <2>1. k \notin KeySet(s) /\ t = Append(s, [key |-> k, value |-> 0])
    BY <1>5, PushReads DEF Push, s, t, entry
  <2> QED BY <1>1, <2>1, AbstractOperators DEF Abstract!Push
<1>6. ASSUME NEW n \in 0..list.numElements, PopN(n) PROVE n \in 0..Len(s) /\ Abstract!PopN(n)
  <2>1. n <= Len(s) /\ t = SubSeq(s, n + 1, Len(s))
    BY <1>6, PopNReads DEF PopN, s, t
  <2>2. Len(s) \in Nat /\ n \in Nat
    BY InOrderWalk, ReadOut DEF s
  <2> QED BY <1>1, <2>1, <2>2 DEF Abstract!PopN
<1> QED BY <1>1, <1>2, <1>3, <1>4, <1>5, <1>6 DEF Next, Abstract!Next

\* Read from head to tail, the linked list is the abstract sorted list: an inserted,
\* updated or pushed element lands where the order stays intact, whatever the hints, and
\* nothing else moves.
THEOREM LinkedListImplementsSortedList == Spec => ImplementsSortedList
<1>1. Init => Abstract!Init
  <2> SUFFICES ASSUME Init PROVE getElements = <<>>
    BY DEF Abstract!Init
  <2>1. list.numElements = 0
    BY EmptyInOrder DEF Init
  <2> QED BY <2>1 DEF getElements
<1>2. InOrder(list) /\ [Next]_list => [Abstract!Next]_getElements
  <2>1. CASE Next
    BY <2>1, OperationsImplement
  <2>2. CASE UNCHANGED list
    BY <2>2 DEF getElements
  <2> QED BY <2>1, <2>2
<1> QED BY <1>1, <1>2, AlwaysInOrder, PTL DEF Spec, ImplementsSortedList, Abstract!Spec

-----------------------------------------------------------------------------
(***************************************************************************)
(* The median moves with the list                                          *)
(***************************************************************************)
Sides == {"Undefined", "Lesser", "Equal", "Greater"}

Middles == [median : Hints, relation : [Hints -> Sides]]

sideAt(i, c) == IF i < c THEN "Greater" ELSE IF i = c THEN "Equal" ELSE "Lesser"

\* The median is at place c of the walk, and every key of it knows on which side it is.
CentredAt(M, w, n, c) ==
    /\ M \in Middles
    /\ M.median = place(w, n, c)
    /\ \A i \in 1..n : M.relation[w[i]] = sideAt(i, c)

half(n) == (n + 1) \div 2

\* A median is the record of its fields.
LEMMA MiddleFields ==
    ASSUME NEW M \in Middles
    PROVE  /\ M = [median |-> M.median, relation |-> M.relation]
           /\ M.median \in Hints /\ M.relation \in [Hints -> Sides]
BY DEF Middles

movedTo(c, action) == IF action = "Lesser" THEN c + 1 ELSE IF action = "Greater" THEN c - 1 ELSE c

\* updateMedian moves the median by one place, over either end of the walk, or leaves it.
LEMMA MedianMoves ==
    ASSUME NEW L \in Lists, NEW n \in Nat, NEW w, Walks(L, w, n), NEW c \in 1..n,
           NEW M, CentredAt(M, w, n, c), NEW action,
           NEW d, d = movedTo(c, action), NEW N, N = updateMedian(L, M, action)
    PROVE  CentredAt(N, w, n, d)
<1> DEFINE next  == IF action = "Lesser" THEN L.elements[M.median].previousKey
                    ELSE IF action = "Greater" THEN L.elements[M.median].nextKey ELSE M.median
           aside == IF action = "Lesser" THEN [M.relation EXCEPT ![M.median] = "Greater"]
                    ELSE IF action = "Greater" THEN [M.relation EXCEPT ![M.median] = "Lesser"]
                    ELSE M.relation
           beyond == [aside EXCEPT ![next] = "Equal"]
<1>1. /\ w \in [1..n -> Keys] /\ \A i, j \in 1..n : w[i] = w[j] => i = j
      /\ L.elements[w[c]].previousKey = place(w, n, c + 1)
      /\ L.elements[w[c]].nextKey = place(w, n, c - 1)
  BY DEF Walks
<1>2. /\ M.median = w[c] /\ M.median \in Hints /\ M.relation \in [Hints -> Sides]
      /\ \A i \in 1..n : M.relation[w[i]] = sideAt(i, c)
  BY MiddleFields DEF CentredAt, place
<1>3. \A i \in 1..n : w[i] \in Hints /\ w[i] # Zero
  BY <1>1, SortedLinkedListAssumption DEF Hints
<1>4. N = [median |-> next, relation |-> beyond]
  BY DEF updateMedian
<1>5. next = place(w, n, d) /\ d \in Int
  BY <1>1, <1>2 DEF movedTo, place
<1>6. next \in Hints
  BY <1>3, <1>5 DEF place, Hints
<1>7. aside \in [Hints -> Sides]
  BY <1>2 DEF Sides
<1>8. \A i \in 1..n : aside[w[i]] = IF i = c /\ d # c THEN (IF d > c THEN "Greater" ELSE "Lesser")
                                    ELSE sideAt(i, c)
  <2> SUFFICES ASSUME NEW i \in 1..n
               PROVE  aside[w[i]] = IF i = c /\ d # c THEN (IF d > c THEN "Greater" ELSE "Lesser")
                                    ELSE sideAt(i, c)
    OBVIOUS
  <2>1. w[i] \in Hints /\ (w[i] = M.median <=> i = c)
    BY <1>1, <1>2, <1>3
  <2>2. CASE action = "Lesser"
    BY <1>2, <2>1, <2>2 DEF movedTo
  <2>3. CASE action = "Greater"
    BY <1>2, <2>1, <2>3 DEF movedTo
  <2>4. CASE action # "Lesser" /\ action # "Greater"
    BY <1>2, <2>1, <2>4 DEF movedTo
  <2> QED BY <2>2, <2>3, <2>4
<1> HIDE DEF next, aside
<1>9. beyond \in [Hints -> Sides]
  BY <1>6, <1>7 DEF Sides
<1>10. \A i \in 1..n : beyond[w[i]] = sideAt(i, d)
  <2> SUFFICES ASSUME NEW i \in 1..n PROVE beyond[w[i]] = sideAt(i, d)
    OBVIOUS
  <2>1. next = w[i] <=> i = d
    BY <1>1, <1>3, <1>5 DEF place
  <2>2. beyond[w[i]] = IF i = d THEN "Equal" ELSE aside[w[i]]
    BY <1>3, <1>6, <1>7, <2>1
  <2>3. d = c \/ d = c + 1 \/ d = c - 1
    BY DEF movedTo
  <2> QED BY <1>8, <2>2, <2>3 DEF sideAt
<1> HIDE DEF beyond
<1>11. N.median = next /\ N.relation = beyond /\ N \in Middles
  BY <1>4, <1>6, <1>9 DEF Middles
<1> QED BY <1>5, <1>10, <1>11 DEF CentredAt

\* Which place is the middle one, before and after an insertion at place i + 1.
LEMMA HalfOfInsert ==
    ASSUME NEW n \in Nat \ {0}, NEW i \in 0..n, NEW m, m = n + 1, NEW c, c = half(n)
    PROVE  /\ c \in 1..n
           /\ m % 2 = 1 /\ i >= c => half(m) = c + 1
           /\ m % 2 = 1 /\ i < c => half(m) = c + 1
           /\ m % 2 # 1 => half(m) = c
           /\ m % 2 = 0 \/ m % 2 = 1
BY DEF half

\* Inserting a key next to the median, or further away, keeps the median in the middle.
LEMMA InsertCentres ==
    ASSUME NEW N \in Lists, NEW n \in Nat, NEW w \in [1..n -> Keys],
           NEW i \in 0..n, NEW k \in Keys, ~Within(w, n, k),
           NEW u, u = opened(w, n, i, k), NEW m, m = n + 1, Walks(N, u, m),
           NEW M, CentredAt(M, w, n, half(n)), NEW T, T = medianOfInsert(N, M, k)
    PROVE  CentredAt(T, u, m, half(m))
<1>1. ASSUME NEW j \in Int
      PROVE  place(u, m, j) =
                IF j <= i THEN place(w, n, j) ELSE IF j = i + 1 THEN k ELSE place(w, n, j - 1)
  BY OpenedPlaces
<1> DEFINE below == N.elements[k].previousKey
           above == N.elements[k].nextKey
           side  == IF m % 2 = 1
                    THEN IF below = Zero \/ M.relation[below] = "Lesser" THEN "Lesser" ELSE "Greater"
                    ELSE IF above = Zero \/ M.relation[above] = "Greater" THEN "Greater" ELSE "Lesser"
           c     == half(n)
<1>2. /\ N.numElements = m
      /\ \A j \in 1..m : /\ N.elements[u[j]].previousKey = place(u, m, j + 1)
                         /\ N.elements[u[j]].nextKey = place(u, m, j - 1)
  BY DEF Walks
<1>3. i + 1 \in 1..m /\ u[i + 1] = k
  BY DEF opened
<1>4. below = place(w, n, i + 1) /\ above = place(w, n, i)
  <2>1. below = place(u, m, (i + 1) + 1) /\ above = place(u, m, (i + 1) - 1)
    BY <1>2, <1>3
  <2>2. /\ ~((i + 1) + 1 <= i) /\ (i + 1) + 1 # i + 1 /\ ((i + 1) + 1) - 1 = i + 1
        /\ (i + 1) - 1 = i /\ (i + 1) + 1 \in Int /\ i \in Int /\ i <= i
    OBVIOUS
  <2> QED BY <1>1, <2>1, <2>2
<1>5. /\ M \in Middles /\ M = [median |-> M.median, relation |-> M.relation]
      /\ M.relation \in [Hints -> Sides] /\ M.median = place(w, n, c)
      /\ \A j \in 1..n : M.relation[w[j]] = sideAt(j, c)
  BY MiddleFields DEF CentredAt
<1>6. /\ k \in Hints /\ k # Zero
      /\ \A j \in 1..n : w[j] \in Hints /\ w[j] # Zero /\ w[j] # k
  BY SortedLinkedListAssumption DEF Hints, Within
<1>7. CASE n = 0
  <2>1. N.numElements = 1 /\ m = 1 /\ half(m) = 1 /\ i = 0
    BY <1>2, <1>7 DEF half
  <2>2. T = [median |-> k, relation |-> [M.relation EXCEPT ![k] = "Equal"]]
    BY <2>1 DEF medianOfInsert
  <2>3. u[1] = k
    BY <1>3, <2>1
  <2>4. T \in Middles
    BY <1>5, <1>6, <2>2 DEF Middles, Sides
  <2>5. T.median = place(u, m, 1)
    BY <2>1, <2>2, <2>3 DEF place
  <2>6. ASSUME NEW j \in 1..m PROVE T.relation[u[j]] = sideAt(j, 1)
    <3>1. j = 1
      BY <2>1
    <3> QED BY <1>5, <1>6, <2>2, <2>3, <3>1 DEF sideAt
  <2> QED BY <2>1, <2>4, <2>5, <2>6 DEF CentredAt
<1>8. CASE n # 0
  <2> DEFINE P == [M EXCEPT !.relation[k] = side]
             action == IF (m % 2 = 1) = (side = "Lesser") THEN side ELSE "None"
             b == IF i < c THEN c + 1 ELSE c
  <2>1. /\ c \in 1..n
        /\ m % 2 = 1 => half(m) = c + 1
        /\ m % 2 # 1 => half(m) = c
        /\ m % 2 = 0 \/ m % 2 = 1
    BY <1>8, HalfOfInsert
  <2>2. N.numElements # 1
    BY <1>2, <1>8
  <2> DEFINE s == sideOfInsert(N, M, k)
  <2>3. s = side
    BY <1>2 DEF sideOfInsert
  <2>4. T = updateMedian(N, P, action)
    <3>1. T = updateMedian(N, [M EXCEPT !.relation[k] = s],
                           IF (N.numElements % 2 = 1) = (s = "Lesser") THEN s ELSE "None")
      BY <2>2 DEF medianOfInsert
    <3> HIDE DEF s, side
    <3> QED BY <1>2, <2>3, <3>1
  <2> HIDE DEF s, c
  <2>5. side = IF i < c THEN "Greater" ELSE "Lesser"
    <3>1. i + 1 \in 1..n => below = w[i + 1] /\ below # Zero /\ M.relation[below] = sideAt(i + 1, c)
      BY <1>4, <1>5, <1>6 DEF place
    <3>2. i \in 1..n => above = w[i] /\ above # Zero /\ M.relation[above] = sideAt(i, c)
      BY <1>4, <1>5, <1>6 DEF place
    <3>3. (i + 1 \notin 1..n => below = Zero /\ i = n) /\ (i \notin 1..n => above = Zero /\ i = 0)
      BY <1>4 DEF place
    <3> HIDE DEF below, above
    <3>4. CASE m % 2 = 1
      BY <2>1, <3>1, <3>3, <3>4 DEF sideAt
    <3>5. CASE m % 2 # 1
      BY <2>1, <3>2, <3>3, <3>5 DEF sideAt
    <3> QED BY <3>4, <3>5
  <2> HIDE DEF side
  <2>6. P.median = M.median /\ P.relation = [M.relation EXCEPT ![k] = side]
        /\ P = [median |-> M.median, relation |-> [M.relation EXCEPT ![k] = side]]
    BY <1>5
  <2> HIDE DEF P
  <2>7. P \in Middles
    BY <1>5, <1>6, <2>5, <2>6 DEF Middles, Sides
  <2>8. P.median = place(u, m, b) /\ b \in 1..m
    <3>1. CASE i < c
      <4>1. ~(c + 1 <= i) /\ c + 1 # i + 1 /\ (c + 1) - 1 = c /\ c + 1 \in Int /\ b = c + 1
        BY <2>1, <3>1
      <4>2. place(u, m, c + 1) = place(w, n, c)
        BY <1>1, <4>1
      <4> QED BY <1>5, <2>1, <2>6, <4>1, <4>2
    <3>2. CASE ~(i < c)
      <4>1. c <= i /\ c \in Int /\ b = c
        BY <2>1, <3>2
      <4>2. place(u, m, c) = place(w, n, c)
        BY <1>1, <4>1
      <4> QED BY <1>5, <2>1, <2>6, <4>1, <4>2
    <3> QED BY <3>1, <3>2
  <2>9. ASSUME NEW j \in 1..m PROVE P.relation[u[j]] = sideAt(j, b)
    <3>1. u[j] = IF j <= i THEN w[j] ELSE IF j = i + 1 THEN k ELSE w[j - 1]
      BY DEF opened
    <3>2. \A l \in 1..n : P.relation[w[l]] = sideAt(l, c)
      BY <1>5, <1>6, <2>6
    <3>3. P.relation[k] = side
      BY <1>5, <1>6, <2>6
    <3>4. CASE j <= i
      <4>1. j \in 1..n /\ u[j] = w[j]
        BY <3>1, <3>4
      <4>2. sideAt(j, b) = sideAt(j, c)
        BY <2>1, <3>4 DEF sideAt
      <4> QED BY <3>2, <4>1, <4>2
    <3>5. CASE j = i + 1
      <4>1. u[j] = k
        BY <3>1, <3>5
      <4>2. sideAt(j, b) = side
        BY <2>1, <2>5, <3>5 DEF sideAt
      <4> QED BY <3>3, <4>1, <4>2
    <3>6. CASE j > i + 1
      <4>1. j - 1 \in 1..n /\ u[j] = w[j - 1]
        BY <3>1, <3>6
      <4>2. sideAt(j, b) = sideAt(j - 1, c)
        BY <2>1, <3>6 DEF sideAt
      <4> QED BY <3>2, <4>1, <4>2
    <3> QED BY <3>4, <3>5, <3>6
  <2>10. CentredAt(P, u, m, b)
    BY <2>7, <2>8, <2>9 DEF CentredAt
  <2>11. half(m) = movedTo(b, action)
    <3>1. CASE m % 2 = 1
      BY <2>1, <2>5, <3>1 DEF movedTo
    <3>2. CASE m % 2 # 1
      BY <2>1, <2>5, <3>2 DEF movedTo
    <3> QED BY <3>1, <3>2
  <2> HIDE DEF action, b
  <2> DEFINE d == half(m)
  <2>12. d = movedTo(b, action)
    BY <2>11
  <2> HIDE DEF d
  <2>13. CentredAt(T, u, m, d)
    BY <2>4, <2>8, <2>10, <2>12, MedianMoves
  <2> QED BY <2>13 DEF d
<1> QED BY <1>7, <1>8

\* Removing a key moves the median before the walk closes, to the middle of what is left.
LEMMA RemoveCentres ==
    ASSUME NEW L \in Lists, NEW n \in Nat, NEW w, Walks(L, w, n), NEW p \in 1..n,
           NEW u, u = closed(w, n, p), NEW m, m = n - 1,
           NEW M, CentredAt(M, w, n, half(n)), NEW T, T = medianOfRemove(L, M, w[p])
    PROVE  CentredAt(T, u, m, half(m))
<1> DEFINE c      == half(n)
           even   == n % 2 = 0
           side   == M.relation[w[p]]
           action == CASE even /\ side # "Lesser" -> "Lesser"
                       [] ~even /\ side # "Greater" -> "Greater"
                       [] OTHER -> "None"
           d      == movedTo(c, action)
<1>1. /\ L.numElements = n /\ w \in [1..n -> Keys]
      /\ \A i, j \in 1..n : w[i] = w[j] => i = j
  BY DEF Walks
<1>2. ASSUME NEW j \in Int
      PROVE  place(u, m, j) = IF j < p THEN place(w, n, j) ELSE place(w, n, j + 1)
  BY <1>1 DEF closed, place
<1>3. T = updateMedian(L, M, action)
  BY <1>1 DEF medianOfRemove
<1>4. /\ c \in 1..n
      /\ even => half(m) = c
      /\ ~even => half(m) = c - 1
  BY DEF half
<1>5. side = sideAt(p, c)
  BY DEF CentredAt
<1> HIDE DEF c, even, side
<1>6. action = IF even /\ p <= c THEN "Lesser" ELSE IF ~even /\ p >= c THEN "Greater" ELSE "None"
  BY <1>4, <1>5 DEF sideAt
<1> HIDE DEF action
<1>7. CentredAt(T, w, n, d)
  <2>1. CentredAt(M, w, n, c)
    BY DEF c
  <2> HIDE DEF d
  <2>2. d = movedTo(c, action)
    BY DEF d
  <2> QED BY <1>3, <1>4, <2>1, <2>2, MedianMoves
<1>8. d \in Int /\ p # d /\ half(m) = IF p < d THEN d - 1 ELSE d
  <2>1. CASE even
    BY <1>4, <1>6, <2>1 DEF movedTo
  <2>2. CASE ~even
    BY <1>4, <1>6, <2>2 DEF movedTo
  <2> QED BY <2>1, <2>2
<1> HIDE DEF d
<1> DEFINE h == half(m)
<1>9. T \in Middles /\ T.median = place(w, n, d)
      /\ \A i \in 1..n : T.relation[w[i]] = sideAt(i, d)
  BY <1>7 DEF CentredAt
<1>10. T.median = place(u, m, h)
  <2>1. h \in Int
    BY <1>8
  <2>2. CASE p < d
    <3>1. h = d - 1 /\ ~(h < p) /\ h + 1 = d
      BY <1>8, <2>2
    <3> HIDE DEF h
    <3>2. place(u, m, h) = place(w, n, h + 1)
      BY <1>2, <2>1, <3>1
    <3> QED BY <1>9, <3>1, <3>2
  <2>3. CASE ~(p < d)
    <3>1. h = d /\ h < p
      BY <1>8, <2>3
    <3> HIDE DEF h
    <3>2. place(u, m, h) = place(w, n, h)
      BY <1>2, <2>1, <3>1
    <3> QED BY <1>9, <3>1, <3>2
  <2> QED BY <2>2, <2>3
<1>11. ASSUME NEW j \in 1..m PROVE T.relation[u[j]] = sideAt(j, h)
  <2>1. u[j] = IF j < p THEN w[j] ELSE w[j + 1]
    BY DEF closed
  <2>2. CASE j < p
    <3>1. j \in 1..n /\ u[j] = w[j]
      BY <2>1, <2>2
    <3>2. sideAt(j, h) = sideAt(j, d)
      BY <1>8, <2>2 DEF sideAt
    <3> QED BY <1>9, <3>1, <3>2
  <2>3. CASE ~(j < p)
    <3>1. j + 1 \in 1..n /\ u[j] = w[j + 1]
      BY <2>1, <2>3
    <3>2. sideAt(j, h) = sideAt(j + 1, d)
      BY <1>8, <2>3 DEF sideAt
    <3> QED BY <1>9, <3>1, <3>2
  <2> QED BY <2>2, <2>3
<1> QED BY <1>9, <1>10, <1>11 DEF CentredAt

\* One removal of the head, the way medianOfPopN goes through it.
medianOfPop(L, i, M) == medianOfRemove(popN(L, i), M, popN(L, i).head)

MedianPops(L, M, n, r) ==
    r = [i \in 0..n |-> IF i = 0 THEN M ELSE medianOfPop(L, i - 1, r[i - 1])]

\* What popping one element after the other does to the median, element by element.
LEMMA MedianPopsElements ==
    ASSUME NEW L, NEW M, NEW n \in Nat, NEW r, MedianPops(L, M, n, r)
    PROVE  r[0] = M /\ \A i \in 1..n : r[i] = medianOfPop(L, i - 1, r[i - 1])
BY DEF MedianPops

\* There is one way for the median to follow.
LEMMA MedianPopsUnique ==
    ASSUME NEW L, NEW M, NEW n \in Nat, NEW m \in 0..n,
           NEW a, MedianPops(L, M, n, a), NEW b, MedianPops(L, M, m, b)
    PROVE  a[m] = b[m]
<1> DEFINE Good == {i \in 0..m : a[i] = b[i]}
<1>1. /\ a[0] = M /\ \A i \in 1..n : a[i] = medianOfPop(L, i - 1, a[i - 1])
      /\ b[0] = M /\ \A i \in 1..m : b[i] = medianOfPop(L, i - 1, b[i - 1])
  BY MedianPopsElements
<1>2. 0 \in Good
  BY <1>1
<1>3. \A i \in 0..m - 1 : i \in Good => i + 1 \in Good
  <2> SUFFICES ASSUME NEW i \in 0..m - 1, i \in Good PROVE i + 1 \in Good
    OBVIOUS
  <2>1. i + 1 \in 1..n /\ i + 1 \in 1..m /\ (i + 1) - 1 = i /\ a[i] = b[i]
    OBVIOUS
  <2>2. a[i + 1] = medianOfPop(L, i, a[i]) /\ b[i + 1] = medianOfPop(L, i, b[i])
    BY <1>1, <2>1
  <2> QED BY <2>1, <2>2
<1> HIDE DEF Good
<1>4. m \in Good
  BY <1>2, <1>3, UpTo
<1> QED BY <1>4 DEF Good

\* The median can follow any number of pops.
LEMMA MedianPopsExist ==
    ASSUME NEW L, NEW M, NEW n \in Nat
    PROVE  \E r : MedianPops(L, M, n, r)
<1> DEFINE Good == {m \in 0..n : \E r : MedianPops(L, M, m, r)}
<1>1. 0 \in Good
  <2> DEFINE r == [i \in 0..0 |-> M]
  <2>1. MedianPops(L, M, 0, r)
    BY DEF MedianPops
  <2> QED BY <2>1
<1>2. \A m \in 0..n - 1 : m \in Good => m + 1 \in Good
  <2> SUFFICES ASSUME NEW m \in 0..n - 1, m \in Good PROVE m + 1 \in Good
    OBVIOUS
  <2>1. PICK r : MedianPops(L, M, m, r)
    OBVIOUS
  <2> DEFINE s == [i \in 0..m + 1 |-> IF i <= m THEN r[i] ELSE medianOfPop(L, m, r[m])]
  <2>2. r[0] = M /\ \A i \in 1..m : r[i] = medianOfPop(L, i - 1, r[i - 1])
    BY <2>1, MedianPopsElements
  <2>3. ASSUME NEW i \in 0..m + 1
        PROVE  s[i] = IF i = 0 THEN M ELSE medianOfPop(L, i - 1, s[i - 1])
    <3>1. CASE i = 0
      BY <2>2, <3>1
    <3>2. CASE i \in 1..m
      <4>1. i - 1 \in 0..m + 1 /\ i - 1 <= m
        BY <3>2
      <4>2. s[i] = r[i] /\ s[i - 1] = r[i - 1]
        BY <3>2, <4>1
      <4> HIDE DEF s
      <4> QED BY <2>2, <3>2, <4>2
    <3>3. CASE i = m + 1
      <4>1. i - 1 = m /\ i # 0 /\ ~(i <= m)
        BY <3>3
      <4>2. s[i] = medianOfPop(L, m, r[m]) /\ s[i - 1] = r[m]
        BY <3>3, <4>1
      <4> HIDE DEF s
      <4> QED BY <4>1, <4>2
    <3> QED BY <3>1, <3>2, <3>3
  <2>4. s = [i \in 0..m + 1 |-> s[i]]
    OBVIOUS
  <2>5. m + 1 \in 0..n
    OBVIOUS
  <2> HIDE DEF s
  <2>6. MedianPops(L, M, m + 1, s)
    BY <2>3, <2>4 DEF MedianPops
  <2> QED BY <2>5, <2>6
<1> HIDE DEF Good
<1>3. n \in Good
  BY <1>1, <1>2, UpTo
<1> QED BY <1>3 DEF Good

\* The median follows popN one removal of the head at a time.
LEMMA MedianOfPopNStep ==
    ASSUME NEW L, NEW M, NEW n \in Nat
    PROVE  /\ medianOfPopN(L, M, 0) = M
           /\ medianOfPopN(L, M, n + 1) = medianOfPop(L, n, medianOfPopN(L, M, n))
<1>1. \A m \in Nat : medianOfPopN(L, M, m) = (CHOOSE r : MedianPops(L, M, m, r))[m]
  BY DEF medianOfPopN, MedianPops, medianOfPop
<1> DEFINE r(m) == CHOOSE r : MedianPops(L, M, m, r)
<1>2. \A m \in Nat : MedianPops(L, M, m, r(m))
  BY MedianPopsExist
<1>3. \A m \in Nat : medianOfPopN(L, M, m) = r(m)[m]
  BY <1>1
<1> HIDE DEF r
<1>4. medianOfPopN(L, M, 0) = M
  <2>1. 0 \in Nat
    OBVIOUS
  <2>2. MedianPops(L, M, 0, r(0)) /\ medianOfPopN(L, M, 0) = r(0)[0]
    BY <1>2, <1>3, <2>1
  <2>3. r(0)[0] = M
    BY <2>1, <2>2, MedianPopsElements
  <2> QED BY <2>2, <2>3
<1>5. n + 1 \in Nat /\ n \in 0..n + 1 /\ n + 1 \in 1..n + 1 /\ (n + 1) - 1 = n
  OBVIOUS
<1>6. r(n + 1)[n + 1] = medianOfPop(L, n, r(n + 1)[n])
  <2> DEFINE s == r(n + 1)
             m == n + 1
  <2>1. MedianPops(L, M, m, s) /\ m \in Nat
    BY <1>2, <1>5
  <2> HIDE DEF s, m
  <2>2. \A i \in 1..m : s[i] = medianOfPop(L, i - 1, s[i - 1])
    BY <2>1, MedianPopsElements
  <2>3. s[n + 1] = medianOfPop(L, (n + 1) - 1, s[(n + 1) - 1])
    BY <1>5, <2>2 DEF m
  <2> QED BY <1>5, <2>3 DEF s
<1>7. r(n + 1)[n] = r(n)[n]
  BY <1>2, <1>5, MedianPopsUnique
<1> QED BY <1>3, <1>4, <1>5, <1>6, <1>7

\* The list with its median: the list is in order and the median in the middle.
Central(L, M) == InOrder(L) /\ CentredAt(M, walk(L), L.numElements, half(L.numElements))

\* An insert that goes through keeps the median in the middle.
LEMMA InsertCentral ==
    ASSUME NEW L, NEW M, Central(L, M), NEW k \in Keys, NEW v \in 0..MaxValue,
           NEW lesserKey \in Hints, NEW greaterKey \in Hints,
           canInsert(L, k, v, lesserKey, greaterKey),
           NEW N, N = insert(L, k, v, lesserKey, greaterKey)
    PROVE  Central(N, medianOfInsert(N, M, k))
<1> DEFINE n == L.numElements
           w == walk(L)
<1>1. InOrder(L) /\ CentredAt(M, w, n, half(n))
  BY DEF Central
<1>2. /\ InOrder(N) /\ N.numElements = n + 1 /\ ~Within(w, n, k)
      /\ \E i \in 0..n : walk(N) = opened(w, n, i, k)
  BY <1>1, InsertInOrder
<1>3. PICK i \in 0..n : walk(N) = opened(w, n, i, k)
  BY <1>2
<1>4. n \in Nat /\ w \in [1..n -> Keys]
  BY <1>1, InOrderWalk
<1> DEFINE u == walk(N)
           m == N.numElements
           T == medianOfInsert(N, M, k)
<1>5. N \in Lists /\ Walks(N, u, m)
  BY <1>2, InOrderWalk
<1>6. u = opened(w, n, i, k) /\ m = n + 1 /\ T = medianOfInsert(N, M, k)
  BY <1>2, <1>3
<1> HIDE DEF n, w, u, m, T
<1>7. CentredAt(T, u, m, half(m))
  BY <1>1, <1>2, <1>4, <1>5, <1>6, InsertCentres
<1> QED BY <1>2, <1>7 DEF Central, u, m, T

\* Removing a key keeps the median in the middle.
LEMMA RemoveCentral ==
    ASSUME NEW L, NEW M, Central(L, M), NEW k \in Keys, contains(L, k)
    PROVE  Central(remove(L, k), medianOfRemove(L, M, k))
<1> DEFINE n == L.numElements
           w == walk(L)
           N == remove(L, k)
           T == medianOfRemove(L, M, k)
<1>1. InOrder(L) /\ CentredAt(M, w, n, half(n)) /\ k \in Hints
  BY DEF Central, Hints
<1>2. PICK p \in 1..n : k = w[p]
  BY <1>1, ContainedPlace
<1>3. InOrder(N) /\ N.numElements = n - 1 /\ walk(N) = closed(w, n, p)
  BY <1>1, <1>2, RemoveInOrder
<1>4. L \in Lists /\ n \in Nat /\ Walks(L, w, n)
  BY <1>1, InOrderWalk
<1> DEFINE u == walk(N)
           m == N.numElements
<1>5. u = closed(w, n, p) /\ m = n - 1 /\ T = medianOfRemove(L, M, w[p])
  BY <1>2, <1>3
<1> HIDE DEF n, w, N, T, u, m
<1>6. CentredAt(T, u, m, half(m))
  BY <1>1, <1>4, <1>5, RemoveCentres
<1> QED BY <1>3, <1>6 DEF Central, u, m, N, T

\* Popping any number of elements keeps the median in the middle.
LEMMA PopNCentral ==
    ASSUME NEW L, NEW M, Central(L, M), NEW m \in 0..L.numElements
    PROVE  Central(popN(L, m), medianOfPopN(L, M, m))
<1> DEFINE n == L.numElements
           Good == {l \in 0..m : Central(popN(L, l), medianOfPopN(L, M, l))}
<1>1. InOrder(L) /\ n \in Nat
  BY InOrderWalk DEF Central
<1>2. 0 \in Good
  BY <1>1, PopNStep, MedianOfPopNStep
<1>3. ASSUME NEW l \in 0..m - 1, l \in Good PROVE l + 1 \in Good
  <2> DEFINE P == popN(L, l)
             T == medianOfPopN(L, M, l)
             q == P.numElements
             w == walk(P)
             k == P.head
  <2>1. Central(P, T) /\ l \in Nat /\ l \in 0..n /\ l + 1 \in 0..m
    BY <1>1, <1>3
  <2>2. InOrder(P) /\ q = n - l
    BY <1>1, <2>1, PopNInOrder DEF Central
  <2>3. P \in Lists /\ q \in Nat /\ Walks(P, w, q) /\ w \in [1..q -> Keys]
    BY <2>2, InOrderWalk
  <2>4. 1 \in 1..q
    BY <1>1, <2>2
  <2> HIDE DEF P, T, q, w, Good
  <2>5. k \in Keys /\ contains(P, k)
    <3>1. k = w[1]
      BY <2>3, <2>4 DEF Walks, place
    <3>2. k \in Keys /\ Within(w, q, k)
      BY <2>3, <2>4, <3>1 DEF Within
    <3>3. k \in Hints
      BY <3>2 DEF Hints
    <3> HIDE DEF k
    <3> QED BY <2>3, <3>2, <3>3, Visited
  <2>6. Central(remove(P, k), medianOfRemove(P, T, k))
    BY <2>1, <2>5, RemoveCentral
  <2>7. popN(L, l + 1) = remove(P, k) /\ medianOfPopN(L, M, l + 1) = medianOfRemove(P, T, k)
    BY <2>1, PopNStep, MedianOfPopNStep DEF P, T, medianOfPop
  <2> HIDE DEF k
  <2>8. Central(popN(L, l + 1), medianOfPopN(L, M, l + 1))
    BY <2>6, <2>7
  <2> QED BY <2>1, <2>8 DEF Good
<1> HIDE DEF Good
<1>4. m \in Good
  BY <1>1, <1>2, <1>3, UpTo
<1> QED BY <1>4 DEF Good

\* Every operation is one of the list alone.
LEMMA MedianStepIsStep == MedianNext => Next
BY DEF MedianNext, Next, InsertWithMedian, UpdateWithMedian, RemoveWithMedian, PushWithMedian,
       PopNWithMedian

\* What holds of the list alone holds of the list with its median.
THEOREM MedianListIsList == MedianSpec => Spec
<1>1. MedianInit => Init
  BY DEF MedianInit
<1>2. [MedianNext]_medianVars => [Next]_list
  BY MedianStepIsStep DEF medianVars
<1> QED BY <1>1, <1>2, PTL DEF MedianSpec, Spec

\* Every operation keeps the median in the middle.
LEMMA OperationsCentral == Central(list, Middle) /\ MedianNext => Central(list', Middle')
<1> SUFFICES ASSUME Central(list, Middle), MedianNext PROVE Central(list', Middle')
  OBVIOUS
<1>0. list \in Lists /\ Zero \in Hints /\ 0 \in 0..MaxValue
  BY InOrderWalk, SortedLinkedListAssumption DEF Central, Hints
<1>1. ASSUME NEW T, MedianBecomes(T), Central(list', T) PROVE Central(list', Middle')
  <2>1. T = Middle'
    <3>1. T \in Middles
      BY <1>1 DEF Central, CentredAt
    <3> QED BY <1>1, <3>1, MiddleFields DEF MedianBecomes, Middle
  <2> QED BY <1>1, <2>1
<1>2. ASSUME NEW k \in Keys, NEW v \in 0..MaxValue, NEW lesserKey \in Hints, NEW greaterKey \in Hints,
             InsertWithMedian(k, v, lesserKey, greaterKey)
      PROVE  Central(list', Middle')
  <2>1. Central(list', medianOfInsert(list', Middle, k))
    BY <1>2, InsertCentral DEF InsertWithMedian, Insert
  <2> QED BY <1>1, <1>2, <2>1 DEF InsertWithMedian
<1>3. ASSUME NEW k \in Keys, NEW v \in 0..MaxValue, NEW lesserKey \in Hints, NEW greaterKey \in Hints,
             UpdateWithMedian(k, v, lesserKey, greaterKey)
      PROVE  Central(list', Middle')
  <2> DEFINE R == remove(list, k)
             T == medianOfRemove(list, Middle, k)
  <2>1. contains(list, k) /\ canInsert(R, k, v, lesserKey, greaterKey)
        /\ list' = insert(R, k, v, lesserKey, greaterKey)
    BY <1>3 DEF UpdateWithMedian, Update
  <2>2. Central(R, T)
    BY <2>1, RemoveCentral
  <2>3. MedianBecomes(medianOfInsert(list', T, k))
    BY <1>3 DEF UpdateWithMedian
  <2> HIDE DEF R, T
  <2>4. Central(list', medianOfInsert(list', T, k))
    BY <2>1, <2>2, InsertCentral
  <2> QED BY <1>1, <2>3, <2>4
<1>4. ASSUME NEW k \in Keys, RemoveWithMedian(k) PROVE Central(list', Middle')
  <2>1. Central(list', medianOfRemove(list, Middle, k))
    BY <1>4, RemoveCentral DEF RemoveWithMedian, Delete
  <2> QED BY <1>1, <1>4, <2>1 DEF RemoveWithMedian
<1>5. ASSUME NEW k \in Keys, PushWithMedian(k) PROVE Central(list', Middle')
  <2>1. list.tail \in Hints
    BY <1>0, Fields
  <2>2. Central(list', medianOfInsert(list', Middle, k))
    BY <1>0, <1>5, <2>1, InsertCentral DEF PushWithMedian, Push
  <2> QED BY <1>1, <1>5, <2>2 DEF PushWithMedian
<1>6. ASSUME NEW n \in 0..list.numElements, PopNWithMedian(n) PROVE Central(list', Middle')
  <2>1. Central(list', medianOfPopN(list, Middle, n))
    BY <1>6, PopNCentral DEF PopNWithMedian, PopN
  <2> QED BY <1>1, <1>6, <2>1 DEF PopNWithMedian
<1> QED BY <1>2, <1>3, <1>4, <1>5, <1>6 DEF MedianNext

\* After any mixture of operations the tracked key is the middle of the walk from the
\* head, and every element knows on which side of it it is.
THEOREM MedianAlwaysMedian == MedianSpec => []MedianIsMedian
<1>1. MedianInit => Central(list, Middle)
  <2> SUFFICES ASSUME MedianInit PROVE Central(list, Middle)
    OBVIOUS
  <2>1. InOrder(list) /\ list.numElements = 0
    BY EmptyInOrder DEF MedianInit, Init
  <2>2. Middle \in Middles /\ Middle.median = Zero
    BY DEF MedianInit, Middle, Middles, Hints, Sides
  <2>3. half(0) = 0 /\ place(walk(list), 0, 0) = Zero /\ \A i \in 1..0 : FALSE
    BY DEF half, place
  <2>4. CentredAt(Middle, walk(list), 0, half(0))
    BY <2>2, <2>3 DEF CentredAt
  <2> QED BY <2>1, <2>4 DEF Central
<1>2. Central(list, Middle) /\ [MedianNext]_medianVars => Central(list, Middle)'
  <2> SUFFICES ASSUME Central(list, Middle), [MedianNext]_medianVars PROVE Central(list', Middle')
    OBVIOUS
  <2>1. CASE MedianNext
    BY <2>1, OperationsCentral
  <2>2. CASE UNCHANGED medianVars
    BY <2>2 DEF medianVars, Middle
  <2> QED BY <2>1, <2>2
<1>3. Central(list, Middle) => MedianIsMedian
  <2> SUFFICES ASSUME Central(list, Middle) PROVE MedianIsMedian
    OBVIOUS
  <2> DEFINE n == list.numElements
             w == walk(list)
             c == half(n)
  <2>1. n \in Nat /\ CentredAt(Middle, w, n, c)
    BY InOrderWalk DEF Central
  <2>2. c = (n + 1) \div 2 /\ (n = 0 => c = 0) /\ (n # 0 => c \in 1..n)
    BY <2>1 DEF half
  <2>3. w = headN(list, n)
    BY DEF walk
  <2> HIDE DEF n, w, c
  <2>4. median = IF n = 0 THEN Zero ELSE w[c]
    BY <2>1, <2>2 DEF CentredAt, Middle, place
  <2>5. \A i \in 1..n : relation[w[i]] = IF i < c THEN "Greater" ELSE IF i = c THEN "Equal" ELSE "Lesser"
    BY <2>1 DEF CentredAt, Middle, sideAt
  <2> QED BY <2>2, <2>3, <2>4, <2>5 DEF MedianIsMedian, n
<1> QED BY <1>1, <1>2, <1>3, PTL DEF MedianSpec

-----------------------------------------------------------------------------
(***************************************************************************)
(* The neighbours that ContractKit computes                                *)
(***************************************************************************)

\* Nothing but one of the four ways is found.
LEMMA FoundOnlyWhen ==
    ASSUME NEW L, NEW v, NEW lesserKey, NEW greaterKey,
           getLesserAndGreater(L, v, lesserKey, greaterKey).found
    PROVE  \/ lesserKey = Zero /\ isValueBetween(L, v, lesserKey, L.tail)
           \/ greaterKey = Zero /\ isValueBetween(L, v, L.head, greaterKey)
           \/ lesserKey # Zero /\ isValueBetween(L, v, lesserKey, L.elements[lesserKey].nextKey)
           \/ greaterKey # Zero /\ isValueBetween(L, v, L.elements[greaterKey].previousKey, greaterKey)
<1> DEFINE A == lesserKey = Zero /\ isValueBetween(L, v, lesserKey, L.tail)
           B == greaterKey = Zero /\ isValueBetween(L, v, L.head, greaterKey)
           C == lesserKey # Zero /\ isValueBetween(L, v, lesserKey, L.elements[lesserKey].nextKey)
           D == greaterKey # Zero
                   /\ isValueBetween(L, v, L.elements[greaterKey].previousKey, greaterKey)
           spot(l, g) == [lesser |-> l, greater |-> g, found |-> TRUE]
           pl == IF A THEN spot(lesserKey, L.tail)
                 ELSE IF B THEN spot(L.head, greaterKey)
                 ELSE IF C THEN spot(lesserKey, L.elements[lesserKey].nextKey)
                 ELSE IF D THEN spot(L.elements[greaterKey].previousKey, greaterKey)
                 ELSE NoPlace
<1>1. getLesserAndGreater(L, v, lesserKey, greaterKey) = pl
  BY DEF getLesserAndGreater
<1> HIDE DEF A, B, C, D
<1>2. ~(A \/ B \/ C \/ D) => ~pl.found
  BY DEF NoPlace
<1> QED BY <1>1, <1>2 DEF A, B, C, D

\* An element can be inserted between the neighbours of a place where its value fits.
LEMMA FitsInserts ==
    ASSUME NEW L, InOrder(L), NEW n, n = L.numElements, NEW w, w = walk(L),
           NEW k \in Keys, ~contains(L, k), NEW v, NEW i \in 0..n,
           NEW below, below = place(w, n, i + 1), NEW above, above = place(w, n, i),
           isValueBetween(L, v, below, above)
    PROVE  canInsert(L, k, v, below, above)
<1>1. /\ below \in Hints /\ (below = Zero \/ contains(L, below))
      /\ above \in Hints /\ (above = Zero \/ contains(L, above))
      /\ below = Zero => above = L.tail
      /\ above = Zero => below = L.head
      /\ below # Zero => L.elements[below].nextKey = above
      /\ n # 0 => below # Zero \/ above # Zero
  BY NeighboursAsHints
<1>2. getLesserAndGreater(L, v, below, above).found
  BY <1>1, FoundWhen
<1> QED BY <1>1, <1>2, FoundInserts

\* With the neighbours of a place as hints, an insert goes through only if its value fits.
LEMMA InsertedFits ==
    ASSUME NEW L, InOrder(L), NEW n, n = L.numElements, NEW w, w = walk(L), NEW k, NEW v,
           NEW i \in 0..n,
           NEW below, below = place(w, n, i + 1), NEW above, above = place(w, n, i),
           canInsert(L, k, v, below, above)
    PROVE  isValueBetween(L, v, below, above)
<1>1. /\ below = Zero => above = L.tail
      /\ above = Zero => below = L.head
      /\ below # Zero => L.elements[below].nextKey = above
      /\ above # Zero => L.elements[above].previousKey = below
  BY NeighboursAsHints
<1>2. getLesserAndGreater(L, v, below, above).found
  BY DEF canInsert
<1> QED BY <1>1, <1>2, FoundOnlyWhen

\* The list without k, into which an insert or an update of k puts it.
others(L, k) == IF contains(L, k) THEN remove(L, k) ELSE L

\* An update goes through if the insert into the list without the element does.
LEMMA AcceptedIntoOthers ==
    ASSUME NEW L, NEW k, NEW v, NEW hints
    PROVE  accepted(L, k, v, hints) <=> canInsert(others(L, k), k, v, hints.lesser, hints.greater)
BY DEF accepted, others

\* The list without k is in order and does not have k.
LEMMA OthersInOrder ==
    ASSUME NEW L, InOrder(L), NEW k \in Keys, NEW R, R = others(L, k)
    PROVE  /\ InOrder(R) /\ ~contains(R, k)
           /\ \A x \in Keys \ {k} : R.values[x] = L.values[x]
           /\ \A x \in Keys \ {k} : contains(R, x) <=> contains(L, x)
<1> DEFINE n == L.numElements
           w == walk(L)
<1>1. L \in Lists /\ n \in Nat /\ Walks(L, w, n) /\ \A i, j \in 1..n : w[i] = w[j] => i = j
  BY InOrderWalk
<1>2. CASE ~contains(L, k)
  BY <1>2 DEF others
<1>3. CASE contains(L, k)
  <2>1. k \in Hints
    BY DEF Hints
  <2>2. PICK p \in 1..n : k = w[p]
    BY <1>3, <2>1, ContainedPlace
  <2>3. R = remove(L, w[p])
    BY <1>3, <2>2 DEF others
  <2> DEFINE u == closed(w, n, p)
             m == n - 1
  <2>4. /\ InOrder(R) /\ R.numElements = m /\ walk(R) = u
        /\ \A x \in Keys \ {k} : R.values[x] = L.values[x]
    BY <2>2, <2>3, RemoveInOrder
  <2>5. ASSUME NEW x PROVE Within(u, m, x) <=> x # k /\ Within(w, n, x)
    <3>1. w \in [1..n -> Keys]
      BY <1>1 DEF Walks
    <3>2. u = closed(w, n, p) /\ m = n - 1 /\ p \in 1..n
      BY <2>2
    <3> HIDE DEF n, w, u, m
    <3> QED BY ONLY <1>1, <2>2, <3>1, <3>2, ClosedWithin
  <2> HIDE DEF n, w, u, m
  <2>6. R \in Lists /\ m \in Nat /\ Walks(R, u, m)
    BY <2>4, InOrderWalk
  <2>7. ASSUME NEW x \in Keys PROVE contains(R, x) <=> x # k /\ contains(L, x)
    <3>1. x \in Hints
      BY DEF Hints
    <3>2. contains(R, x) <=> Within(u, m, x)
      BY <2>6, <3>1, Visited
    <3>3. contains(L, x) <=> Within(w, n, x)
      BY <1>1, <3>1, Visited
    <3> QED BY <2>5, <3>2, <3>3
  <2> QED BY <2>4, <2>7
<1> QED BY <1>2, <1>3

\* What is read from the list, place by place.
LEMMA ElementsRead ==
    ASSUME InOrder(list), NEW n, n = list.numElements, NEW w, w = walk(list)
    PROVE  /\ DOMAIN getElements = 1..n /\ Len(getElements) = n
           /\ \A i \in 1..n : getElements[i].key = w[i] /\ getElements[i].value = list.values[w[i]]
           /\ \A i : keyAt(getElements, i) = place(w, n, i)
<1> DEFINE s == getElements
<1>1. s = readOut(list)
  BY DEF getElements, readOut, walk, entry
<1> HIDE DEF s
<1>2. /\ s \in Seq(Entries) /\ Len(s) = n
      /\ \A i \in 1..n : s[i] = entry(w[i], list.values[w[i]])
  BY <1>1, ReadOut
<1>3. DOMAIN s = 1..n
  BY <1>2, LenProperties
<1>4. ASSUME NEW i \in 1..n PROVE s[i].key = w[i] /\ s[i].value = list.values[w[i]]
  <2>1. s[i] = entry(w[i], list.values[w[i]])
    BY <1>2
  <2> QED BY <2>1 DEF entry
<1>5. \A i : keyAt(s, i) = place(w, n, i)
  BY <1>3, <1>4 DEF keyAt, place
<1> QED BY <1>2, <1>3, <1>4, <1>5 DEF s

\* CHOOSE finds the least and the greatest element of a set of numbers that has one.
LEMMA MinMax ==
    ASSUME NEW n \in Nat, NEW S, S \subseteq 0..n, S # {}
    PROVE  /\ Min(S) \in S /\ \A i \in S : Min(S) <= i
           /\ Max(S) \in S /\ \A i \in S : i <= Max(S)
<1>0. S \subseteq Nat /\ \A i \in S : i \in 0..n
  OBVIOUS
<1>1. PICK a \in S : \A i \in S : a <= i
  BY <1>0, LeastNumber
<1>2. \E b \in S : \A i \in S : b >= i
  <2> DEFINE Down == {n - i : i \in S}
  <2>1. Down \subseteq Nat /\ Down # {}
    <3>1. \A i \in S : n - i \in Nat
      BY <1>0
    <3>2. PICK i \in S : TRUE
      OBVIOUS
    <3>3. n - i \in Down
      OBVIOUS
    <3> QED BY <3>1, <3>3
  <2> HIDE DEF Down
  <2>2. PICK d \in Down : \A e \in Down : d <= e
    BY <2>1, LeastNumber
  <2>3. PICK b \in S : d = n - b
    BY <2>2 DEF Down
  <2>4. \A i \in S : n - b <= n - i
    BY <2>2, <2>3 DEF Down
  <2>5. \A i \in S : b >= i
    BY <1>0, <2>4
  <2> QED BY <2>5
<1>3. Min(S) \in S /\ \A i \in S : Min(S) <= i
  BY <1>1 DEF Min
<1>4. Max(S) \in S /\ \A i \in S : Max(S) >= i
  BY <1>2 DEF Max
<1> QED BY <1>3, <1>4

\* Where the scan for k stops: at the first other element whose value is at most v, with
\* the last other element before it.
StopsAt(w, n, k, v, stop, last) ==
    /\ stop \in 1..n + 1 /\ last \in 0..n /\ last < stop
    /\ stop \in 1..n => w[stop] # k /\ list.values[w[stop]] <= v
    /\ last \in 1..n => w[last] # k
    /\ \A i \in 1..n : w[i] # k /\ i < stop => list.values[w[i]] > v /\ i <= last

\* The scan returns the keys where it stops.
LEMMA ScanStops ==
    ASSUME InOrder(list), NEW n, n = list.numElements, NEW w, w = walk(list),
           NEW k \in Keys, NEW v \in Int
    PROVE  \E stop, last \in Int : /\ StopsAt(w, n, k, v, stop, last)
                                   /\ scan(k, v) = neighbours(place(w, n, stop), place(w, n, last))
<1> DEFINE S == {i \in 1..n : w[i] # k}
           A == {i \in S : list.values[w[i]] <= v} \cup {n + 1}
           stop == Min(A)
           B == {i \in S : i < stop} \cup {0}
           last == Max(B)
<1>1. n \in Nat /\ \A i \in 1..n : list.values[w[i]] \in 0..MaxValue
  BY InOrderWalk
<1>2. /\ DOMAIN getElements = 1..n /\ Len(getElements) = n
      /\ \A i \in 1..n : getElements[i].key = w[i] /\ getElements[i].value = list.values[w[i]]
      /\ \A i : keyAt(getElements, i) = place(w, n, i)
  BY ElementsRead
<1>3. {i \in DOMAIN getElements : getElements[i].key # k} = S
  BY <1>2
<1>4. (S \cap {i \in DOMAIN getElements : getElements[i].value <= v}) \cup {Len(getElements) + 1} = A
  BY <1>2
<1>5. scan(k, v) = neighbours(place(w, n, stop), place(w, n, last))
  BY <1>2, <1>3, <1>4 DEF scan, scanTo
<1>6. stop \in A /\ \A i \in A : stop <= i
  <2>1. A \subseteq 0..n + 1 /\ A # {} /\ n + 1 \in Nat
    BY <1>1
  <2> HIDE DEF A
  <2> QED BY <2>1, MinMax
<1> HIDE DEF stop
<1>7. last \in B /\ \A i \in B : i <= last
  <2>1. B \subseteq 0..n /\ B # {} /\ n \in Nat
    BY <1>1
  <2> HIDE DEF B
  <2> QED BY <2>1, MinMax
<1> HIDE DEF last
<1>8. StopsAt(w, n, k, v, stop, last)
  <2>1. stop \in 1..n + 1 /\ last \in 0..n /\ last < stop
    BY <1>1, <1>6, <1>7
  <2>2. stop \in 1..n => w[stop] # k /\ list.values[w[stop]] <= v
    BY <1>1, <1>6
  <2>3. last \in 1..n => w[last] # k
    BY <1>7
  <2>4. ASSUME NEW i \in 1..n, w[i] # k, i < stop PROVE list.values[w[i]] > v /\ i <= last
    <3>1. i \in B /\ i \notin A
      BY <1>1, <1>6, <2>1, <2>4
    <3> QED BY <1>1, <1>7, <2>4, <3>1
  <2> QED BY <2>1, <2>2, <2>3, <2>4 DEF StopsAt
<1> QED BY <1>5, <1>8 DEF StopsAt

\* The scan finds the place behind the other elements of greater value, in the list
\* without k.
LEMMA ScanPlace ==
    ASSUME InOrder(list), NEW k \in Keys, NEW v \in Int,
           NEW R, R = others(list, k), NEW m, m = R.numElements, NEW u, u = walk(R)
    PROVE  \E i \in 0..m :
              /\ scan(k, v) = neighbours(place(u, m, i + 1), place(u, m, i))
              /\ i + 1 \in 1..m => R.values[u[i + 1]] <= v
              /\ i \in 1..m => R.values[u[i]] > v
<1> DEFINE n == list.numElements
           w == walk(list)
<1>1. /\ list \in Lists /\ n \in Nat /\ Walks(list, w, n)
      /\ w \in [1..n -> Keys] /\ \A i, j \in 1..n : w[i] = w[j] => i = j
  BY InOrderWalk
<1>2. PICK stop \in Int, last \in Int :
         /\ StopsAt(w, n, k, v, stop, last)
         /\ scan(k, v) = neighbours(place(w, n, stop), place(w, n, last))
  BY ScanStops
<1> HIDE DEF n, w
<1>3. /\ stop \in 1..n + 1 /\ last \in 0..n /\ last < stop
      /\ stop \in 1..n => w[stop] # k /\ list.values[w[stop]] <= v
      /\ last \in 1..n => w[last] # k
      /\ \A i \in 1..n : w[i] # k /\ i < stop => list.values[w[i]] > v /\ i <= last
  BY <1>2 DEF StopsAt
<1>4. CASE ~contains(list, k)
  <2>1. R = list /\ m = n /\ u = w
    BY <1>4 DEF others, n, w
  <2>2. \A i \in 1..n : w[i] # k
    <3>1. k \in Hints
      BY DEF Hints
    <3>2. ~Within(w, n, k)
      BY <1>1, <1>4, <3>1, Visited
    <3> QED BY <3>2 DEF Within
  <2> DEFINE i == stop - 1
  <2>3. i \in 0..m /\ i + 1 = stop /\ i = last
    <3>1. stop - 1 \in 1..n => stop - 1 <= last
      BY <1>1, <1>3, <2>2
    <3> QED BY <1>1, <1>3, <2>1, <3>1
  <2>4. i + 1 \in 1..m => R.values[u[i + 1]] <= v
    BY <1>3, <2>1, <2>3
  <2>5. i \in 1..m => R.values[u[i]] > v
    BY <1>1, <1>3, <2>1, <2>2, <2>3
  <2> HIDE DEF i
  <2> QED BY <1>2, <2>1, <2>3, <2>4, <2>5
<1>5. CASE contains(list, k)
  <2>1. PICK p \in 1..n : k = w[p]
    <3>1. k \in Hints
      BY DEF Hints
    <3> QED BY <1>5, <3>1, ContainedPlace DEF n, w
  <2>2. R = remove(list, w[p])
    BY <1>5, <2>1 DEF others
  <2>3. /\ m = n - 1 /\ u = closed(w, n, p)
        /\ \A x \in Keys \ {k} : R.values[x] = list.values[x]
    BY <2>1, <2>2, RemoveInOrder DEF n, w
  <2>4. \A j \in 1..n : (w[j] # k <=> j # p) /\ (j # p => R.values[w[j]] = list.values[w[j]])
    BY <1>1, <2>1, <2>3
  <2>5. ASSUME NEW j \in Int
        PROVE  place(u, m, j) = IF j < p THEN place(w, n, j) ELSE place(w, n, j + 1)
    <3>1. /\ n \in Nat /\ w \in [1..n -> Keys] /\ p \in 1..n
          /\ u = closed(w, n, p) /\ m = n - 1
      BY <1>1, <2>3
    <3> QED BY ONLY <2>5, <3>1 DEF closed, place
  <2>6. \A j \in 1..m : u[j] = IF j < p THEN w[j] ELSE w[j + 1]
    BY <2>3 DEF closed
  <2> DEFINE i == IF stop < p THEN stop - 1 ELSE stop - 2
  <2>7. stop # p /\ last # p
    BY <1>3, <2>1
  <2>8. i \in 0..m
    BY <1>1, <1>3, <2>3, <2>7
  <2>9. last = IF i < p THEN i ELSE i + 1
    <3>1. stop - 1 \in 1..n /\ stop - 1 # p => stop - 1 <= last
      BY <1>1, <1>3, <2>4
    <3>2. ASSUME stop - 2 \in 1..n, stop - 2 # p PROVE stop - 2 <= last
      <4>1. w[stop - 2] # k
        BY <2>4, <3>2
      <4>2. stop - 2 < stop
        OBVIOUS
      <4> QED BY <1>3, <3>2, <4>1, <4>2
    <3> QED BY <1>1, <1>3, <2>7, <3>1, <3>2
  <2>10. i \in Int /\ stop = IF i + 1 < p THEN i + 1 ELSE (i + 1) + 1
    BY <1>1, <1>3, <2>7
  <2> HIDE DEF i
  <2>11. place(u, m, i + 1) = place(w, n, stop) /\ place(u, m, i) = place(w, n, last)
    <3>1. i + 1 \in Int
      BY <2>10
    <3> QED BY <2>5, <2>9, <2>10, <3>1
  <2>12. i + 1 \in 1..m => R.values[u[i + 1]] <= v
    <3> SUFFICES ASSUME i + 1 \in 1..m PROVE R.values[u[i + 1]] <= v
      OBVIOUS
    <3>1. stop \in 1..n /\ u[i + 1] = w[stop]
      BY <1>1, <2>3, <2>6, <2>10
    <3> QED BY <1>3, <2>4, <2>7, <3>1
  <2>13. i \in 1..m => R.values[u[i]] > v
    <3> SUFFICES ASSUME i \in 1..m PROVE R.values[u[i]] > v
      OBVIOUS
    <3>1. last \in 1..n /\ u[i] = w[last]
      BY <1>1, <2>3, <2>6, <2>9
    <3> QED BY <1>3, <2>4, <2>7, <3>1
  <2> QED BY <1>2, <2>8, <2>11, <2>12, <2>13
<1> QED BY <1>4, <1>5

\* An element that was inserted and is taken out again leaves the list as it was read.
LEMMA TakenOutAgain ==
    ASSUME NEW R, InOrder(R), NEW m, m = R.numElements, NEW u, u = walk(R),
           NEW k \in Keys, ~contains(R, k), NEW v \in 0..MaxValue,
           NEW lesserKey \in Hints, NEW greaterKey \in Hints,
           canInsert(R, k, v, lesserKey, greaterKey),
           NEW rest, rest = insert(R, k, v, lesserKey, greaterKey),
           NEW B, B = others(rest, k)
    PROVE  /\ InOrder(B) /\ B.numElements = m /\ walk(B) = u /\ ~contains(B, k)
           /\ \A x \in Keys \ {k} : B.values[x] = R.values[x]
<1>1. /\ InOrder(rest) /\ rest.numElements = m + 1 /\ ~Within(u, m, k)
      /\ \A x \in Keys \ {k} : rest.values[x] = R.values[x]
      /\ \E i \in 0..m : walk(rest) = opened(u, m, i, k)
  BY InsertInOrder
<1>2. PICK i \in 0..m : walk(rest) = opened(u, m, i, k)
  BY <1>1
<1>3. m \in Nat /\ u \in [1..m -> Keys]
  BY InOrderWalk
<1> DEFINE t == walk(rest)
           n == rest.numElements
           p == i + 1
<1>4. p \in 1..n /\ t[p] = k
  BY <1>1, <1>2, <1>3 DEF opened
<1>5. contains(rest, k)
  <2>1. rest \in Lists /\ n \in Nat /\ Walks(rest, t, n) /\ k \in Hints
    BY <1>1, InOrderWalk DEF Hints
  <2>2. Within(t, n, k)
    BY <1>4 DEF Within
  <2> HIDE DEF t, n
  <2> QED BY <2>1, <2>2, Visited
<1>6. B = remove(rest, t[p])
  BY <1>4, <1>5 DEF others
<1>7. closed(t, n, p) = u
  <2>1. \A j \in 1..m + 1 : t[j] = IF j <= i THEN u[j] ELSE IF j = i + 1 THEN k ELSE u[j - 1]
    BY <1>2 DEF opened
  <2>2. ASSUME NEW j \in 1..m PROVE (IF j < p THEN t[j] ELSE t[j + 1]) = u[j]
    <3>1. j \in 1..m + 1 /\ j + 1 \in 1..m + 1 /\ (j + 1) - 1 = j
      BY <1>3
    <3> HIDE DEF t
    <3> QED BY <2>1, <3>1
  <2>3. n - 1 = m
    BY <1>1, <1>3
  <2> HIDE DEF t, p, n
  <2> QED BY <1>3, <2>2, <2>3 DEF closed
<1>8. n - 1 = m
  BY <1>1, <1>3
<1>9. /\ InOrder(B) /\ B.numElements = n - 1 /\ walk(B) = closed(t, n, p)
      /\ \A x \in Keys \ {k} : B.values[x] = rest.values[x]
  <2>1. t = walk(rest) /\ n = rest.numElements
    OBVIOUS
  <2> HIDE DEF t, n, p
  <2> QED BY <1>1, <1>4, <1>6, <2>1, RemoveInOrder
<1>10. ~contains(B, k)
  BY <1>1, OthersInOrder
<1> QED BY <1>1, <1>7, <1>8, <1>9, <1>10


\* A place whose neighbours have a value between them.
LEMMA PlaceFits ==
    ASSUME NEW L, NEW n, NEW w, NEW v, NEW i,
           i + 1 \in 1..n => L.values[w[i + 1]] <= v,
           i \in 1..n => L.values[w[i]] >= v
    PROVE  isValueBetween(L, v, place(w, n, i + 1), place(w, n, i))
BY DEF isValueBetween, place

\* The keys that a walk visits are the list's own.
LEMMA OtherKeys ==
    ASSUME NEW L, InOrder(L), NEW k \in Keys,
           NEW R, R = others(L, k), NEW m, m = R.numElements, NEW u, u = walk(R),
           NEW i \in 1..m
    PROVE  /\ u[i] \in Keys \ {k} /\ contains(L, u[i])
           /\ R.values[u[i]] = L.values[u[i]] /\ R.values[u[i]] \in 0..MaxValue
<1>1. InOrder(R) /\ ~contains(R, k)
  BY OthersInOrder
<1>2. R \in Lists /\ m \in Nat /\ Walks(R, u, m) /\ u \in [1..m -> Keys]
  BY <1>1, InOrderWalk
<1>3. u[i] \in Hints /\ u[i] \in Keys /\ Within(u, m, u[i])
  BY <1>2 DEF Hints, Within
<1>4. contains(R, u[i])
  BY <1>2, <1>3, Visited
<1>5. u[i] \in Keys \ {k}
  BY <1>1, <1>3, <1>4
<1>6. contains(L, u[i]) /\ R.values[u[i]] = L.values[u[i]]
  BY <1>4, <1>5, OthersInOrder
<1>7. R.values[u[i]] \in 0..MaxValue
  BY <1>2, <1>3, Fields
<1> QED BY <1>5, <1>6, <1>7

\* The hints of the scan lead to a place, whatever ties there are.
LEMMA ScanAccepted ==
    ASSUME InOrder(list), NEW k \in Keys, NEW v \in Int
    PROVE  canInsert(others(list, k), k, v, scan(k, v).lesser, scan(k, v).greater)
<1> DEFINE R == others(list, k)
           m == R.numElements
           u == walk(R)
<1>0. R = others(list, k) /\ m = R.numElements /\ u = walk(R)
  OBVIOUS
<1> HIDE DEF R, m, u
<1>1. InOrder(R) /\ ~contains(R, k)
  BY <1>0, OthersInOrder
<1>2. PICK i \in 0..m :
         /\ scan(k, v) = neighbours(place(u, m, i + 1), place(u, m, i))
         /\ i + 1 \in 1..m => R.values[u[i + 1]] <= v
         /\ i \in 1..m => R.values[u[i]] > v
  BY <1>0, ScanPlace
<1>3. i \in 1..m => R.values[u[i]] >= v
  <2>1. i \in 1..m => R.values[u[i]] \in 0..MaxValue
    BY <1>0, InOrderWalk, OtherKeys
  <2> QED BY <1>2, <2>1, SortedLinkedListAssumption
<1>4. isValueBetween(R, v, place(u, m, i + 1), place(u, m, i))
  BY <1>2, <1>3, PlaceFits
<1>5. canInsert(R, k, v, place(u, m, i + 1), place(u, m, i))
  BY <1>0, <1>1, <1>4, FitsInserts
<1>6. scan(k, v).lesser = place(u, m, i + 1) /\ scan(k, v).greater = place(u, m, i)
  BY <1>2 DEF neighbours
<1> QED BY <1>0, <1>5, <1>6

\* Hints for more votes than are left once the first transaction went through still lead
\* to a place, if no element has a value in between.
LEMMA StaleScanAccepted ==
    ASSUME InOrder(list), NEW k \in Keys, NEW v \in 0..MaxValue,
           NEW first, first = scan(k, v),
           NEW rest, rest = insert(others(list, k), k, v, first.lesser, first.greater),
           NEW left \in Int, NEW assumed \in Int, left <= assumed,
           \A l \in Keys \ {k} : contains(list, l) =>
              ~(list.values[l] > left /\ list.values[l] <= assumed)
    PROVE  accepted(rest, k, left, scan(k, assumed))
<1> DEFINE R == others(list, k)
           m == R.numElements
           u == walk(R)
           B == others(rest, k)
<1>0. /\ R = others(list, k) /\ m = R.numElements /\ u = walk(R) /\ B = others(rest, k)
      /\ rest = insert(R, k, v, first.lesser, first.greater)
  OBVIOUS
<1> HIDE DEF R, m, u, B
<1>1. InOrder(R) /\ ~contains(R, k)
  BY <1>0, OthersInOrder
<1>2. canInsert(R, k, v, first.lesser, first.greater)
  BY <1>0, ScanAccepted
<1>3. first.lesser \in Hints /\ first.greater \in Hints
  <2>1. PICK i \in 0..m : first = neighbours(place(u, m, i + 1), place(u, m, i))
    BY <1>0, ScanPlace
  <2>2. u \in [1..m -> Keys]
    BY <1>0, <1>1, InOrderWalk
  <2>3. place(u, m, i + 1) \in Hints /\ place(u, m, i) \in Hints
    BY <2>2 DEF place, Hints
  <2> QED BY <2>1, <2>3 DEF neighbours
<1>4. /\ InOrder(B) /\ B.numElements = m /\ walk(B) = u /\ ~contains(B, k)
      /\ \A x \in Keys \ {k} : B.values[x] = R.values[x]
  BY <1>0, <1>1, <1>2, <1>3, TakenOutAgain
<1>5. PICK i \in 0..m :
         /\ scan(k, assumed) = neighbours(place(u, m, i + 1), place(u, m, i))
         /\ i + 1 \in 1..m => R.values[u[i + 1]] <= assumed
         /\ i \in 1..m => R.values[u[i]] > assumed
  BY <1>0, ScanPlace
<1>6. ASSUME NEW j \in 1..m
      PROVE  /\ B.values[u[j]] = R.values[u[j]] /\ R.values[u[j]] \in Int
             /\ R.values[u[j]] > left => R.values[u[j]] > assumed
  <2>1. /\ u[j] \in Keys \ {k} /\ contains(list, u[j])
        /\ R.values[u[j]] = list.values[u[j]] /\ R.values[u[j]] \in 0..MaxValue
    BY <1>0, OtherKeys
  <2>2. R.values[u[j]] \in Int
    BY <2>1, SortedLinkedListAssumption
  <2>3. ~(list.values[u[j]] > left /\ list.values[u[j]] <= assumed)
    BY <2>1
  <2> QED BY <1>4, <2>1, <2>2, <2>3
<1>7. i + 1 \in 1..m => B.values[u[i + 1]] <= left
  <2> SUFFICES ASSUME i + 1 \in 1..m PROVE B.values[u[i + 1]] <= left
    OBVIOUS
  <2> DEFINE j == i + 1
  <2>1. j \in 1..m /\ R.values[u[j]] <= assumed
    BY <1>5
  <2> HIDE DEF j
  <2>2. B.values[u[j]] <= left
    BY <1>6, <2>1
  <2> QED BY <2>2 DEF j
<1>8. i \in 1..m => B.values[u[i]] >= left
  BY <1>5, <1>6
<1>9. isValueBetween(B, left, place(u, m, i + 1), place(u, m, i))
  BY <1>7, <1>8, PlaceFits
<1>10. canInsert(B, k, left, place(u, m, i + 1), place(u, m, i))
  BY <1>4, <1>9, FitsInserts
<1>11. scan(k, assumed).lesser = place(u, m, i + 1) /\ scan(k, assumed).greater = place(u, m, i)
  BY <1>5 DEF neighbours
<1> QED BY <1>0, <1>10, <1>11, AcceptedIntoOthers

\* The greatest rate that is shown as no more than v.
shownUpTo(v) == (v \div ShownUnit + 1) * ShownUnit - (ShownUnit \div 2) - 1

\* The rate lies on one side of v, and is taken to lie on the other.
misplaced(rate, v, c) == (rate < v /\ rate > c) \/ (rate > v /\ rate <= c)

\* A rate is shown as no more than v if it is no more than that.
LEMMA ShownAtMost ==
    ASSUME NEW x \in Nat, NEW v \in Nat
    PROVE  /\ shownUpTo(v) \in Int /\ fromFixed(x) \in Int
           /\ fromFixed(x) <= v <=> x <= shownUpTo(v)
<1> DEFINE U == ShownUnit
           h == U \div 2
           q == (x + h) \div U
           s == v \div U
<1>1. U \in Nat \ {0} /\ h \in Nat
  BY HintsAssumption
<1>2. /\ fromFixed(x) = q * U
      /\ shownUpTo(v) = (s + 1) * U - h - 1
  BY DEF fromFixed, shownUpTo
<1>3. /\ q \in Nat /\ q * U <= x + h /\ x + h < (q + 1) * U
      /\ s \in Nat /\ s * U <= v /\ v < (s + 1) * U
  <2>1. x + h \in Nat
    BY <1>1
  <2> HIDE DEF h, U
  <2> QED BY <1>1, <2>1, QuotientBounds
<1> HIDE DEF U, h, q, s
<1>4. q * U \in Int /\ s * U \in Int /\ (q + 1) * U \in Int /\ (s + 1) * U \in Int
  BY <1>1, <1>3
<1>5. CASE q <= s
  <2>1. q * U <= s * U /\ (q + 1) * U <= (s + 1) * U
    BY <1>1, <1>3, <1>5, ProductOrder
  <2>2. q * U <= v /\ x + h < (s + 1) * U
    BY <1>1, <1>3, <1>4, <2>1
  <2> QED BY <1>1, <1>2, <1>4, <2>2
<1>6. CASE s + 1 <= q
  <2>1. (s + 1) * U <= q * U
    BY <1>1, <1>3, <1>6, ProductOrder
  <2>2. q * U > v /\ x + h >= (s + 1) * U
    BY <1>1, <1>3, <1>4, <2>1
  <2> QED BY <1>1, <1>2, <1>4, <2>2
<1> QED BY <1>3, <1>5, <1>6

\* A report is scanned for as the greatest rate shown as no more than its value.
LEMMA ReportScan ==
    ASSUME InOrder(list), NEW k \in Keys, NEW v \in Nat
    PROVE  findLesserAndGreaterKeys(k, v) = scan(k, shownUpTo(v))
<1> DEFINE n == list.numElements
           w == walk(list)
<1>1. n \in Nat /\ \A i \in 1..n : list.values[w[i]] \in Nat
  <2>1. n \in Nat /\ \A i \in 1..n : list.values[w[i]] \in 0..MaxValue
    BY InOrderWalk
  <2> QED BY <2>1, SortedLinkedListAssumption
<1>2. /\ DOMAIN getElements = 1..n
      /\ \A i \in 1..n : getElements[i].value = list.values[w[i]]
  BY ElementsRead
<1> HIDE DEF n, w
<1>3. {i \in DOMAIN getElements : fromFixed(getElements[i].value) <= v}
        = {i \in DOMAIN getElements : getElements[i].value <= shownUpTo(v)}
  BY <1>1, <1>2, ShownAtMost
<1> QED BY <1>3 DEF findLesserAndGreaterKeys, scan

\* The hints for a report are refused exactly when another rate is rounded past its value.
LEMMA ReportAccepted ==
    ASSUME InOrder(list), NEW k \in Keys, NEW v \in Nat
    PROVE  accepted(list, k, v, findLesserAndGreaterKeys(k, v)) <=> ~roundedPast(k, v)
<1> DEFINE R == others(list, k)
           m == R.numElements
           u == walk(R)
           c == shownUpTo(v)
<1>0. R = others(list, k) /\ m = R.numElements /\ u = walk(R) /\ c = shownUpTo(v)
  OBVIOUS
<1> HIDE DEF R, m, u, c
<1>1. /\ InOrder(R) /\ ~contains(R, k)
      /\ \A x \in Keys \ {k} : contains(R, x) <=> contains(list, x)
  BY <1>0, OthersInOrder
<1>2. R \in Lists /\ m \in Nat /\ Walks(R, u, m) /\ Descending(R, u, m)
  BY <1>0, <1>1, InOrderWalk
<1>3. c \in Int
  <2>1. 0 \in Nat
    OBVIOUS
  <2> QED BY <1>0, <2>1, ShownAtMost
<1>4. PICK i \in 0..m :
         /\ scan(k, c) = neighbours(place(u, m, i + 1), place(u, m, i))
         /\ i + 1 \in 1..m => R.values[u[i + 1]] <= c
         /\ i \in 1..m => R.values[u[i]] > c
  BY <1>0, <1>3, ScanPlace
<1> DEFINE rate(j) == R.values[u[j]]
<1>5. ASSUME NEW j \in 1..m
      PROVE  /\ u[j] \in Keys \ {k} /\ contains(list, u[j]) /\ rate(j) = list.values[u[j]]
             /\ rate(j) \in Nat /\ fromFixed(rate(j)) \in Int
             /\ fromFixed(rate(j)) <= v <=> rate(j) <= c
  <2>1. /\ u[j] \in Keys \ {k} /\ contains(list, u[j])
        /\ rate(j) = list.values[u[j]] /\ rate(j) \in 0..MaxValue
    BY <1>0, OtherKeys
  <2>2. rate(j) \in Nat
    BY <2>1, SortedLinkedListAssumption
  <2> HIDE DEF rate
  <2> QED BY <1>0, <2>1, <2>2, ShownAtMost
<1>6. \A l \in Keys \ {k} : contains(list, l) => \E j \in 1..m : u[j] = l
  <2> SUFFICES ASSUME NEW l \in Keys \ {k}, contains(list, l) PROVE \E j \in 1..m : u[j] = l
    OBVIOUS
  <2>1. contains(R, l) /\ l \in Hints
    BY <1>1 DEF Hints
  <2> QED BY <1>2, <2>1, Visited DEF Within
<1>7. roundedPast(k, v) <=> \E j \in 1..m : misplaced(rate(j), v, c)
  <2>1. ASSUME NEW j \in 1..m
        PROVE  (fromFixed(rate(j)) > v <=> rate(j) > c) /\ (fromFixed(rate(j)) <= v <=> rate(j) <= c)
    BY <1>3, <1>5
  <2>2. ASSUME NEW j \in 1..m, misplaced(rate(j), v, c)
        PROVE  roundedPast(k, v)
    BY <1>5, <2>1, <2>2 DEF roundedPast, misplaced
  <2>3. ASSUME roundedPast(k, v)
        PROVE  \E j \in 1..m : misplaced(rate(j), v, c)
    <3>1. PICK l \in Keys \ {k} :
             /\ contains(list, l)
             /\ \/ list.values[l] < v /\ fromFixed(list.values[l]) > v
                \/ list.values[l] > v /\ fromFixed(list.values[l]) <= v
      BY <2>3 DEF roundedPast
    <3>2. PICK j \in 1..m : u[j] = l
      BY <1>6, <3>1
    <3>3. rate(j) = list.values[l]
      BY <1>5, <3>2
    <3> HIDE DEF rate
    <3> QED BY <2>1, <3>1, <3>3 DEF misplaced
  <2> QED BY <2>2, <2>3
<1>8. isValueBetween(R, v, place(u, m, i + 1), place(u, m, i))
        <=> (i + 1 \in 1..m => rate(i + 1) <= v) /\ (i \in 1..m => rate(i) >= v)
  <2>1. \A j \in 1..m : u[j] # Zero
    BY <1>0, <1>1, InOrderWalk
  <2> QED BY <2>1 DEF isValueBetween, place
<1>9. \A j, l \in 1..m : j < l => rate(j) >= rate(l)
  BY <1>2 DEF Descending
<1>10. (i + 1 \in 1..m => rate(i + 1) <= v) /\ (i \in 1..m => rate(i) >= v)
         <=> ~ \E j \in 1..m : misplaced(rate(j), v, c)
  <2>1. \A j \in 1..m : rate(j) \in Int
    BY <1>5
  <2>2. /\ i + 1 \in 1..m => rate(i + 1) <= c
        /\ i \in 1..m => rate(i) > c
    BY <1>4
  <2> HIDE DEF rate
  <2>3. ASSUME NEW j \in 1..m
        PROVE  (j <= i /\ i \in 1..m => rate(j) >= rate(i)) /\ (j > i /\ i + 1 \in 1..m => rate(j) <= rate(i + 1))
    BY <1>2, <1>9, <2>1
  <2>4. ASSUME NEW j \in 1..m
        PROVE  (j <= i => i \in 1..m) /\ (j > i => i + 1 \in 1..m)
    BY <1>2
  <2>5. ASSUME i + 1 \in 1..m => rate(i + 1) <= v, i \in 1..m => rate(i) >= v, NEW j \in 1..m
        PROVE  ~misplaced(rate(j), v, c)
    <3>1. CASE j <= i
      BY <1>3, <2>1, <2>2, <2>3, <2>4, <2>5, <3>1 DEF misplaced
    <3>2. CASE j > i
      BY <1>3, <2>1, <2>2, <2>3, <2>4, <2>5, <3>2 DEF misplaced
    <3> QED BY <3>1, <3>2
  <2>6. ASSUME \A j \in 1..m : ~misplaced(rate(j), v, c)
        PROVE  (i + 1 \in 1..m => rate(i + 1) <= v) /\ (i \in 1..m => rate(i) >= v)
    BY <1>3, <2>1, <2>2, <2>6 DEF misplaced
  <2> QED BY <2>5, <2>6
<1> HIDE DEF rate
<1>11. canInsert(R, k, v, place(u, m, i + 1), place(u, m, i))
         <=> isValueBetween(R, v, place(u, m, i + 1), place(u, m, i))
  BY <1>0, <1>1, FitsInserts, InsertedFits
<1>12. LET hints == findLesserAndGreaterKeys(k, v)
       IN  hints.lesser = place(u, m, i + 1) /\ hints.greater = place(u, m, i)
  BY <1>0, <1>4, ReportScan DEF neighbours
<1>13. accepted(list, k, v, findLesserAndGreaterKeys(k, v))
         <=> canInsert(R, k, v, place(u, m, i + 1), place(u, m, i))
  BY <1>0, <1>12, AcceptedIntoOthers
<1> QED BY <1>7, <1>8, <1>10, <1>11, <1>13

\* Of a vote the hints of the scan are refused only when overtaken.
LEMMA VotesAccepted ==
    ASSUME InOrder(list), NEW k \in Keys
    PROVE  votesRefusedOnlyWhenOvertaken(k)
<1> SUFFICES
      LET votes == IF contains(list, k) THEN list.values[k] ELSE 0
      IN  /\ \A v \in 0..MaxValue :
                accepted(list, k, v, findLesserAndGreaterAfterVote(k, v - votes))
          /\ \A pending, active \in 1..MaxValue :
                contains(list, k) /\ pending + active <= votes =>
                   LET hints == revoke(k, pending, active)
                       after == votes - pending
                       rest  == insert(remove(list, k), k, after, hints[1].lesser, hints[1].greater)
                   IN  \/ accepted(rest, k, after - active, hints[2])
                       \/ \E l \in Keys \ {k} : /\ contains(list, l)
                                                /\ list.values[l] > after - active
                                                /\ list.values[l] <= votes - active
  BY DEF votesRefusedOnlyWhenOvertaken
<1> DEFINE votes == IF contains(list, k) THEN list.values[k] ELSE 0
<1>1. MaxValue \in Nat /\ votes \in 0..MaxValue
  <2>1. list.values[k] \in 0..MaxValue
    BY InOrderWalk, Fields
  <2> QED BY <2>1, SortedLinkedListAssumption
<1>2. ASSUME NEW x \in Int PROVE findLesserAndGreaterAfterVote(k, x) = scan(k, votes + x)
  BY DEF findLesserAndGreaterAfterVote
<1>3. contains(list, k) => votes = list.values[k] /\ others(list, k) = remove(list, k)
  BY DEF others
<1> HIDE DEF votes
<1>4. ASSUME NEW v \in 0..MaxValue
      PROVE  accepted(list, k, v, findLesserAndGreaterAfterVote(k, v - votes))
  <2>1. v \in Int /\ v - votes \in Int /\ votes + (v - votes) = v
    BY <1>1
  <2>2. findLesserAndGreaterAfterVote(k, v - votes) = scan(k, v)
    BY <1>2, <2>1
  <2> QED BY <2>1, <2>2, ScanAccepted, AcceptedIntoOthers
<1>5. ASSUME NEW pending \in 1..MaxValue, NEW active \in 1..MaxValue,
             contains(list, k), pending + active <= votes,
             NEW hints, hints = revoke(k, pending, active),
             NEW after, after = votes - pending,
             NEW rest, rest = insert(remove(list, k), k, after, hints[1].lesser, hints[1].greater),
             \A l \in Keys \ {k} : contains(list, l) =>
                ~(list.values[l] > after - active /\ list.values[l] <= votes - active)
      PROVE  accepted(rest, k, after - active, hints[2])
  <2>1. /\ -pending \in Int /\ votes + -pending = after
        /\ -active \in Int /\ votes + -active = votes - active
        /\ after \in 0..MaxValue /\ after - active \in Int /\ votes - active \in Int
        /\ after - active <= votes - active
    BY <1>1, <1>5
  <2>2. hints[1] = scan(k, after) /\ hints[2] = scan(k, votes - active)
    BY <1>2, <1>5, <2>1 DEF revoke
  <2>3. rest = insert(others(list, k), k, after, hints[1].lesser, hints[1].greater)
    BY <1>3, <1>5
  <2> DEFINE left == after - active
             assumed == votes - active
  <2>4. left \in Int /\ assumed \in Int /\ left <= assumed
    BY <2>1
  <2>5. \A l \in Keys \ {k} : contains(list, l) =>
           ~(list.values[l] > left /\ list.values[l] <= assumed)
    BY <1>5
  <2> HIDE DEF left, assumed
  <2>6. accepted(rest, k, left, scan(k, assumed))
    BY <2>1, <2>2, <2>3, <2>4, <2>5, StaleScanAccepted
  <2> QED BY <2>2, <2>6 DEF left, assumed
<1> QED BY <1>4, <1>5 DEF votes

\* In a list that is in order the hints of the scan are refused only when overtaken.
LEMMA InOrderHints == InOrder(list) => HintsRefusedOnlyWhenOvertaken
<1> SUFFICES ASSUME InOrder(list), NEW k \in Keys
             PROVE  votesRefusedOnlyWhenOvertaken(k) /\ reportsRefusedWhenRoundedPast(k)
  BY DEF HintsRefusedOnlyWhenOvertaken
<1>1. ASSUME NEW v \in 0..MaxValue + ShownUnit
      PROVE  accepted(list, k, v, findLesserAndGreaterKeys(k, v)) <=> ~roundedPast(k, v)
  <2>1. v \in Nat
    BY SortedLinkedListAssumption, HintsAssumption
  <2> QED BY <2>1, ReportAccepted
<1> QED BY <1>1, VotesAccepted DEF reportsRefusedWhenRoundedPast

\* A vote or a revocation goes through with the hints that ContractKit computed from the
\* list as it is, the second transaction of a revocation unless some group's votes lie
\* between what its hints assume is left and what is left, and a report exactly if no other
\* oracle's rate is rounded past it.
THEOREM ScanHintsRefusedOnlyWhenOvertaken == Spec => []HintsRefusedOnlyWhenOvertaken
<1>1. Spec => []InOrder(list)
  BY AlwaysInOrder
<1>2. InOrder(list) => HintsRefusedOnlyWhenOvertaken
  BY InOrderHints
<1> QED BY <1>1, <1>2, PTL


-----------------------------------------------------------------------------
(***************************************************************************)
(* The neighbours in the array that is sorted anew                         *)
(***************************************************************************)

\* Place i comes before place j in the stable sort from the least value up.
Before(f, i, j) == f[i] < f[j] \/ (f[i] = f[j] /\ i < j)

Below(f, n, i) == {j \in 1..n : Before(f, j, i)}

rank(f, n, i) == Cardinality(Below(f, n, i))

\* The ranks order the places as Before does.
LEMMA RanksOrder ==
    ASSUME NEW n \in Nat, NEW f \in [1..n -> Int]
    PROVE  /\ \A i \in 1..n : rank(f, n, i) \in Nat
           /\ \A i, j \in 1..n : Before(f, i, j) <=> rank(f, n, i) < rank(f, n, j)
           /\ \A i, j \in 1..n : i = j \/ Before(f, i, j) \/ Before(f, j, i)
<1>1. ASSUME NEW i \in 1..n PROVE IsFiniteSet(Below(f, n, i)) /\ rank(f, n, i) \in Nat
  <2>1. Below(f, n, i) \in SUBSET (1..n)
    BY DEF Below
  <2>2. IsFiniteSet(1..n)
    BY FS_Interval
  <2> QED BY <2>1, <2>2, FS_Subset, FS_CardinalityType DEF rank
<1>2. ASSUME NEW i \in 1..n, NEW j \in 1..n, Before(f, i, j)
      PROVE  rank(f, n, i) < rank(f, n, j)
  <2>1. Below(f, n, i) \in SUBSET Below(f, n, j)
    BY <1>2 DEF Below, Before
  <2>2. i \in Below(f, n, j) /\ i \notin Below(f, n, i)
    BY <1>2 DEF Below, Before
  <2>3. /\ rank(f, n, i) <= rank(f, n, j)
        /\ rank(f, n, j) = rank(f, n, i) => Below(f, n, j) = Below(f, n, i)
    BY <1>1, <2>1, FS_Subset DEF rank
  <2>4. rank(f, n, i) \in Nat /\ rank(f, n, j) \in Nat
    BY <1>1
  <2> QED BY <2>2, <2>3, <2>4
<1>3. \A i, j \in 1..n : i = j \/ Before(f, i, j) \/ Before(f, j, i)
  BY DEF Before
<1>4. ASSUME NEW i \in 1..n, NEW j \in 1..n, rank(f, n, i) < rank(f, n, j)
      PROVE  Before(f, i, j)
  <2>1. ~(rank(f, n, j) < rank(f, n, i)) /\ i # j
    BY <1>1, <1>4
  <2> QED BY <1>2, <1>3, <2>1
<1> QED BY <1>1, <1>2, <1>3, <1>4

\* The place one rank before another is its predecessor.
LEMMA RankBefore ==
    ASSUME NEW n \in Nat, NEW f \in [1..n -> Int], NEW i \in 1..n, NEW q \in 1..n
    PROVE  rank(f, n, i) = rank(f, n, q) - 1
             <=> /\ Before(f, i, q)
                 /\ \A j \in 1..n : Before(f, j, q) => j = i \/ Before(f, j, i)
<1>1. rank(f, n, i) \in Nat /\ rank(f, n, q) \in Nat
  BY RanksOrder
<1>2. ASSUME rank(f, n, i) = rank(f, n, q) - 1, NEW j \in 1..n, Before(f, j, q), j # i
      PROVE  Before(f, j, i)
  <2>1. rank(f, n, j) < rank(f, n, q) /\ rank(f, n, j) \in Nat
    BY <1>2, RanksOrder
  <2>2. ~(rank(f, n, i) < rank(f, n, j))
    BY <1>1, <1>2, <2>1
  <2> QED BY <1>2, <2>2, RanksOrder
<1>3. rank(f, n, i) = rank(f, n, q) - 1 => Before(f, i, q)
  <2>1. rank(f, n, i) = rank(f, n, q) - 1 => rank(f, n, i) < rank(f, n, q)
    BY <1>1
  <2> QED BY <2>1, RanksOrder
<1>4. ASSUME Before(f, i, q), \A j \in 1..n : Before(f, j, q) => j = i \/ Before(f, j, i)
      PROVE  rank(f, n, i) = rank(f, n, q) - 1
  <2>1. \A j \in 1..n : Before(f, j, i) => Before(f, j, q)
    BY <1>4 DEF Before
  <2>2. Below(f, n, q) = Below(f, n, i) \cup {i}
    BY <1>4, <2>1 DEF Below
  <2>3. i \notin Below(f, n, i)
    BY DEF Below, Before
  <2>4. IsFiniteSet(Below(f, n, i))
    <3>1. Below(f, n, i) \in SUBSET (1..n) /\ IsFiniteSet(1..n)
      BY FS_Interval DEF Below
    <3> QED BY <3>1, FS_Subset
  <2>5. rank(f, n, q) = rank(f, n, i) + 1
    BY <2>2, <2>3, <2>4, FS_AddElement DEF rank
  <2> QED BY <1>1, <2>5
<1> QED BY <1>2, <1>3, <1>4

\* Every place but the first and the last has one.
LEMMA Predecessor ==
    ASSUME NEW n \in Nat, NEW f \in [1..n -> Int], NEW q \in 1..n,
           NEW j \in 1..n, Before(f, j, q)
    PROVE  \E i \in 1..n : rank(f, n, i) = rank(f, n, q) - 1
<1> DEFINE S == {rank(f, n, x) : x \in Below(f, n, q)}
           N == rank(f, n, q)
<1>1. N \in Nat /\ \A x \in 1..n : rank(f, n, x) \in Nat
  BY RanksOrder
<1>2. ASSUME NEW x \in Below(f, n, q) PROVE x \in 1..n /\ rank(f, n, x) \in 0..N
  <2>1. x \in 1..n /\ Before(f, x, q)
    BY DEF Below
  <2>2. rank(f, n, x) < N /\ rank(f, n, x) \in Nat
    BY <2>1, RanksOrder
  <2> HIDE DEF N
  <2> QED BY <1>1, <2>1, <2>2
<1>3. S \subseteq 0..N /\ S # {}
  <2>1. j \in Below(f, n, q)
    BY DEF Below
  <2> HIDE DEF N
  <2> QED BY <1>2, <2>1
<1> HIDE DEF N
<1>4. Max(S) \in S /\ \A r \in S : r <= Max(S)
  <2> HIDE DEF S
  <2> QED BY <1>1, <1>3, MinMax
<1>5. PICK i \in Below(f, n, q) : rank(f, n, i) = Max(S)
  BY <1>4
<1>6. i \in 1..n /\ Before(f, i, q)
  BY <1>5 DEF Below
<1>7. ASSUME NEW x \in 1..n, Before(f, x, q), x # i PROVE Before(f, x, i)
  <2>1. x \in Below(f, n, q)
    BY <1>7 DEF Below
  <2>2. rank(f, n, x) <= rank(f, n, i)
    BY <1>4, <1>5, <2>1
  <2>3. ~(rank(f, n, i) < rank(f, n, x))
    BY <1>1, <1>6, <2>2
  <2> QED BY <1>6, <1>7, <2>3, RanksOrder
<1>8. rank(f, n, i) = rank(f, n, q) - 1
  BY <1>6, <1>7, RankBefore
<1> QED BY <1>6, <1>8

LEMMA Successor ==
    ASSUME NEW n \in Nat, NEW f \in [1..n -> Int], NEW q \in 1..n,
           NEW j \in 1..n, Before(f, q, j)
    PROVE  \E i \in 1..n : rank(f, n, i) = rank(f, n, q) + 1
<1> DEFINE S == {rank(f, n, x) : x \in {y \in 1..n : Before(f, q, y)}}
<1>1. \A x \in 1..n : rank(f, n, x) \in Nat
  BY RanksOrder
<1>2. S \subseteq Nat /\ S # {}
  BY <1>1
<1>3. PICK r \in S : \A s \in S : r <= s
  <2> HIDE DEF S
  <2> QED BY <1>2, LeastNumber
<1>4. PICK i \in 1..n : Before(f, q, i) /\ r = rank(f, n, i)
  BY <1>3
<1>5. ASSUME NEW x \in 1..n, Before(f, x, i), x # q PROVE Before(f, x, q)
  <2> SUFFICES ASSUME ~Before(f, x, q) PROVE FALSE
    OBVIOUS
  <2>1. Before(f, q, x)
    BY <1>5, RanksOrder
  <2>2. rank(f, n, i) <= rank(f, n, x)
    BY <1>3, <1>4, <2>1
  <2>3. rank(f, n, x) < rank(f, n, i)
    BY <1>5, RanksOrder
  <2>4. rank(f, n, x) \in Nat /\ rank(f, n, i) \in Nat
    BY <1>1
  <2> QED BY ONLY <2>2, <2>3, <2>4
<1>6. rank(f, n, q) = rank(f, n, i) - 1
  BY <1>4, <1>5, RankBefore
<1>7. rank(f, n, i) = rank(f, n, q) + 1
  BY <1>1, <1>6
<1> QED BY <1>7

\* The key at a rank: that of the only place which has it, or none.
LEMMA KeyAtRank ==
    ASSUME NEW n \in Nat, NEW f \in [1..n -> Int], NEW r,
           NEW is, is = {i \in 1..n : rank(f, n, i) = r}
    PROVE  /\ is # {} => (CHOOSE i \in is : TRUE) \in 1..n
                         /\ rank(f, n, CHOOSE i \in is : TRUE) = r
           /\ is = {} <=> \A i \in 1..n : rank(f, n, i) # r
OBVIOUS


\* The neighbours that the sort returns for the element at q: the places before and after
\* it, once it has its new value.
Predecessors(f, w, n, q, lesser) ==
    \/ lesser = Zero /\ \A j \in 1..n : ~Before(f, j, q)
    \/ \E i \in 1..n : /\ lesser = w[i] /\ Before(f, i, q)
                       /\ \A j \in 1..n : Before(f, j, q) => j = i \/ Before(f, j, i)

Successors(f, w, n, q, greater) ==
    \/ greater = Zero /\ \A j \in 1..n : ~Before(f, q, j)
    \/ \E i \in 1..n : /\ greater = w[i] /\ Before(f, q, i)
                       /\ \A j \in 1..n : Before(f, q, j) => j = i \/ Before(f, i, j)

LEMMA SortedNeighbours ==
    ASSUME InOrder(list), NEW n, n = list.numElements, NEW w, w = walk(list),
           NEW q \in 1..n, NEW p, p = w[q], NEW v \in Int,
           NEW f, f = [i \in 1..n |-> IF i = q THEN v ELSE list.values[w[i]]],
           NEW hints, hints = lesserAndGreater(p, v)
    PROVE  /\ f \in [1..n -> Int]
           /\ Predecessors(f, w, n, q, hints.lesser) /\ Successors(f, w, n, q, hints.greater)
<1> DEFINE updated == [i \in DOMAIN getElements |->
                          IF getElements[i].key = p THEN [key |-> p, value |-> v]
                                                    ELSE getElements[i]]
           before(i, j) == \/ updated[i].value < updated[j].value
                           \/ updated[i].value = updated[j].value /\ i < j
           at     == CHOOSE i \in DOMAIN updated : updated[i].key = p
           rnk(i) == Cardinality({j \in DOMAIN updated : before(j, i)})
           key(r) == LET is == {i \in DOMAIN updated : rnk(i) = r}
                     IN  IF is = {} THEN Zero ELSE updated[CHOOSE i \in is : TRUE].key
<1>1. hints = neighbours(key(rnk(at) - 1), key(rnk(at) + 1))
  BY DEF lesserAndGreater
<1>2. n \in Nat /\ w \in [1..n -> Keys] /\ \A i, j \in 1..n : w[i] = w[j] => i = j
  BY InOrderWalk
<1>3. ASSUME NEW i \in 1..n PROVE list.values[w[i]] \in Int
  <2>1. list.values[w[i]] \in 0..MaxValue
    BY InOrderWalk
  <2> QED BY <2>1, SortedLinkedListAssumption
<1>4. f \in [1..n -> Int]
  BY <1>3
<1>5. /\ DOMAIN getElements = 1..n
      /\ \A i \in 1..n : getElements[i].key = w[i] /\ getElements[i].value = list.values[w[i]]
  BY ElementsRead
<1>6. DOMAIN updated = 1..n
  BY <1>5
<1>7. ASSUME NEW i \in 1..n PROVE updated[i].key = w[i] /\ updated[i].value = f[i]
  <2>1. updated[i] = IF w[i] = p THEN [key |-> p, value |-> v] ELSE getElements[i]
    BY <1>5
  <2>2. w[i] = p <=> i = q
    BY <1>2
  <2> HIDE DEF updated
  <2> QED BY <1>5, <2>1, <2>2
<1> HIDE DEF updated
<1>8. at = q
  BY <1>2, <1>6, <1>7
<1>9. ASSUME NEW i \in 1..n PROVE rnk(i) = rank(f, n, i)
  <2>1. {j \in DOMAIN updated : before(j, i)} = Below(f, n, i)
    BY <1>6, <1>7 DEF Below, Before
  <2> QED BY <2>1 DEF rank
<1> HIDE DEF rnk, at
<1>10. ASSUME NEW r
       PROVE  /\ (\A i \in 1..n : rank(f, n, i) # r) => key(r) = Zero
              /\ (\E i \in 1..n : rank(f, n, i) = r) =>
                    \E i \in 1..n : rank(f, n, i) = r /\ key(r) = w[i]
  <2> DEFINE is == {i \in 1..n : rank(f, n, i) = r}
             i  == CHOOSE j \in is : TRUE
             keyIn(S) == IF S = {} THEN Zero ELSE updated[CHOOSE j \in S : TRUE].key
  <2>1. {j \in DOMAIN updated : rnk(j) = r} = is
    BY <1>6, <1>9
  <2>2. key(r) = IF is = {} THEN Zero ELSE updated[i].key
    <3>1. key(r) = keyIn({j \in DOMAIN updated : rnk(j) = r})
      OBVIOUS
    <3>2. keyIn(is) = IF is = {} THEN Zero ELSE updated[i].key
      OBVIOUS
    <3> HIDE DEF keyIn, key, is, i
    <3> QED BY <2>1, <3>1, <3>2
  <2>3. is # {} => i \in 1..n /\ rank(f, n, i) = r
    BY <1>2, <1>4, KeyAtRank
  <2>4. is = {} <=> \A j \in 1..n : rank(f, n, j) # r
    OBVIOUS
  <2> HIDE DEF i, is, key
  <2>5. is # {} => key(r) = w[i]
    BY <1>7, <2>2, <2>3
  <2> QED BY <2>2, <2>3, <2>4, <2>5
<1> HIDE DEF key
<1>11. hints.lesser = key(rank(f, n, q) - 1) /\ hints.greater = key(rank(f, n, q) + 1)
  BY <1>1, <1>8, <1>9 DEF neighbours
<1>12. \A i \in 1..n : rank(f, n, i) \in Nat
  BY <1>2, <1>4, RanksOrder
<1>13. Predecessors(f, w, n, q, hints.lesser)
  <2>1. CASE \A j \in 1..n : ~Before(f, j, q)
    <3>1. \A i \in 1..n : rank(f, n, i) # rank(f, n, q) - 1
      BY <1>2, <1>4, <2>1, RankBefore
    <3> QED BY <1>10, <1>11, <2>1, <3>1 DEF Predecessors
  <2>2. CASE \E j \in 1..n : Before(f, j, q)
    <3>1. \E i \in 1..n : rank(f, n, i) = rank(f, n, q) - 1
      BY <1>2, <1>4, <2>2, Predecessor
    <3>2. PICK i \in 1..n : rank(f, n, i) = rank(f, n, q) - 1 /\ hints.lesser = w[i]
      <4> DEFINE r == rank(f, n, q) - 1
      <4>1. hints.lesser = key(r) /\ \E i \in 1..n : rank(f, n, i) = r
        BY <1>11, <3>1
      <4> HIDE DEF r
      <4>2. \E i \in 1..n : rank(f, n, i) = r /\ hints.lesser = w[i]
        BY <1>10, <4>1
      <4> QED BY <4>2 DEF r
    <3>3. Before(f, i, q) /\ \A j \in 1..n : Before(f, j, q) => j = i \/ Before(f, j, i)
      BY <1>2, <1>4, <3>2, RankBefore
    <3> QED BY <3>2, <3>3 DEF Predecessors
  <2> QED BY <2>1, <2>2
<1>14. Successors(f, w, n, q, hints.greater)
  <2>1. ASSUME NEW i \in 1..n, rank(f, n, i) = rank(f, n, q) + 1
        PROVE  Before(f, q, i) /\ \A j \in 1..n : Before(f, q, j) => j = i \/ Before(f, i, j)
    <3>1. rank(f, n, q) = rank(f, n, i) - 1
      BY <1>12, <2>1
    <3>2. Before(f, q, i) /\ \A j \in 1..n : Before(f, j, i) => j = q \/ Before(f, j, q)
      BY <1>2, <1>4, <3>1, RankBefore
    <3>3. ASSUME NEW j \in 1..n, Before(f, q, j), j # i PROVE Before(f, i, j)
      <4>1. Before(f, i, j) \/ Before(f, j, i)
        BY <1>2, <1>4, <3>3, RanksOrder
      <4>2. ~(j = q) /\ ~Before(f, j, q)
        BY <1>4, <3>3 DEF Before
      <4> QED BY <3>2, <4>1, <4>2
    <3> QED BY <3>2, <3>3
  <2>2. CASE \A j \in 1..n : ~Before(f, q, j)
    <3>1. \A i \in 1..n : rank(f, n, i) # rank(f, n, q) + 1
      BY <2>1, <2>2
    <3> QED BY <1>10, <1>11, <2>2, <3>1 DEF Successors
  <2>3. CASE \E j \in 1..n : Before(f, q, j)
    <3>1. \E i \in 1..n : rank(f, n, i) = rank(f, n, q) + 1
      BY <1>2, <1>4, <2>3, Successor
    <3>2. PICK i \in 1..n : rank(f, n, i) = rank(f, n, q) + 1 /\ hints.greater = w[i]
      <4> DEFINE r == rank(f, n, q) + 1
      <4>1. hints.greater = key(r) /\ \E i \in 1..n : rank(f, n, i) = r
        BY <1>11, <3>1
      <4> HIDE DEF r
      <4>2. \E i \in 1..n : rank(f, n, i) = r /\ hints.greater = w[i]
        BY <1>10, <4>1
      <4> QED BY <4>2 DEF r
    <3> QED BY <2>1, <3>2 DEF Successors
  <2> QED BY <2>2, <2>3
<1> QED BY <1>4, <1>13, <1>14


\* Where place j of the walk without the element at q was before it was taken out.
past(q, j) == IF j < q THEN j ELSE j + 1

LEMMA PastPlaces ==
    ASSUME NEW n \in Nat, NEW q \in 1..n, NEW m, m = n - 1
    PROVE  /\ \A j \in 1..m : past(q, j) \in 1..n /\ past(q, j) # q /\ (past(q, j) < q <=> j < q)
           /\ \A i, j \in 1..m : i <= j <=> past(q, i) <= past(q, j)
           /\ \A i \in 1..n : i # q => \E j \in 1..m : past(q, j) = i
<1>1. \A j \in 1..m : past(q, j) \in 1..n /\ past(q, j) # q /\ (past(q, j) < q <=> j < q)
  BY DEF past
<1>2. \A i, j \in 1..m : i <= j <=> past(q, i) <= past(q, j)
  BY DEF past
<1>3. ASSUME NEW i \in 1..n, i # q PROVE \E j \in 1..m : past(q, j) = i
  <2>1. CASE i < q
    <3>1. i \in 1..m /\ past(q, i) = i
      BY <2>1 DEF past
    <3> QED BY <3>1
  <2>2. CASE i > q
    <3>1. i - 1 \in 1..m /\ past(q, i - 1) = i
      BY <2>2 DEF past
    <3> QED BY <3>1
  <2> QED BY <1>3, <2>1, <2>2
<1> QED BY <1>1, <1>2, <1>3

\* The walk u without the element at q has the values g: those of f at the other places.
WithoutPlace(n, w, f, q, m, u, g) ==
    /\ n \in Nat /\ q \in 1..n /\ m = n - 1 /\ f \in [1..n -> Int]
    /\ \A j \in 1..m : u[j] = w[past(q, j)] /\ g[j] = f[past(q, j)]

\* Place a of the other values: the last of the greatest ones below v, or that of one
\* equal to v; behind the end if there is none.
LastBelow(g, m, v, a) ==
    /\ a \in 1..m + 1
    /\ a \in 1..m => /\ g[a] <= v
                     /\ \A j \in 1..m : g[j] < v => g[j] <= g[a] /\ (g[j] = g[a] => j <= a)
    /\ a = m + 1 => \A j \in 1..m : g[j] >= v

\* Place b of the other values: the first of the least ones above v, or that of one
\* equal to v; before the start if there is none.
FirstAbove(g, m, v, b) ==
    /\ b \in 0..m
    /\ b \in 1..m => /\ g[b] >= v
                     /\ \A j \in 1..m : g[j] > v => g[j] >= g[b] /\ (g[j] = g[b] => b <= j)
    /\ b = 0 => \A j \in 1..m : g[j] <= v

\* The neighbours in the sorted array are at such places, and an element whose value is
\* v stands before or after the one that moves.
LEMMA PredecessorPlace ==
    ASSUME NEW n, NEW w, NEW f, NEW q, NEW m, NEW u, NEW g, WithoutPlace(n, w, f, q, m, u, g),
           NEW v, v = f[q], NEW lesser, Predecessors(f, w, n, q, lesser)
    PROVE  \E a \in Int : /\ LastBelow(g, m, v, a) /\ lesser = place(u, m, a)
                          /\ \A j \in 1..m : g[j] = v /\ j < q => a \in 1..m /\ g[a] = v
<1>0. /\ n \in Nat /\ q \in 1..n /\ m = n - 1 /\ f \in [1..n -> Int]
      /\ \A j \in 1..m : u[j] = w[past(q, j)] /\ g[j] = f[past(q, j)]
  BY DEF WithoutPlace
<1> USE <1>0
<1>1. /\ \A j \in 1..m : past(q, j) \in 1..n /\ past(q, j) # q /\ (past(q, j) < q <=> j < q)
      /\ \A i, j \in 1..m : i <= j <=> past(q, i) <= past(q, j)
      /\ \A i \in 1..n : i # q => \E j \in 1..m : past(q, j) = i
  <2>1. \A j \in 1..m : past(q, j) \in 1..n /\ past(q, j) # q /\ (past(q, j) < q <=> j < q)
    BY ONLY <1>0, PastPlaces
  <2>2. \A i, j \in 1..m : i <= j <=> past(q, i) <= past(q, j)
    BY ONLY <1>0 DEF past
  <2>3. \A i \in 1..n : i # q => \E j \in 1..m : past(q, j) = i
    BY ONLY <1>0, PastPlaces
  <2> QED BY <2>1, <2>2, <2>3
<1>2. CASE lesser = Zero /\ \A j \in 1..n : ~Before(f, j, q)
  <2>1. ASSUME NEW j \in 1..m PROVE g[j] >= v /\ (j < q => g[j] # v)
    <3>1. past(q, j) \in 1..n /\ ~Before(f, past(q, j), q) /\ (past(q, j) < q <=> j < q)
      BY <1>1, <1>2
    <3>2. f[past(q, j)] \in Int /\ f[q] \in Int
      BY <3>1
    <3> QED BY <3>1, <3>2 DEF Before
  <2>2. m + 1 \in 1..m + 1 /\ m + 1 \notin 1..m /\ m + 1 \in Int
    OBVIOUS
  <2>3. LastBelow(g, m, v, m + 1) /\ lesser = place(u, m, m + 1)
    BY <1>2, <2>1, <2>2 DEF LastBelow, place
  <2> QED BY <2>1, <2>2, <2>3
<1>3. ASSUME NEW i \in 1..n, lesser = w[i], Before(f, i, q),
             \A j \in 1..n : Before(f, j, q) => j = i \/ Before(f, j, i)
      PROVE  \E a \in Int : /\ LastBelow(g, m, v, a) /\ lesser = place(u, m, a)
                            /\ \A j \in 1..m : g[j] = v /\ j < q => a \in 1..m /\ g[a] = v
  <2>1. i # q
    BY <1>3 DEF Before
  <2>2. PICK a \in 1..m : past(q, a) = i
    BY <1>1, <2>1
  <2>3. lesser = place(u, m, a) /\ g[a] = f[i] /\ g[a] \in Int /\ v \in Int /\ g[a] <= v
    <3>1. u[a] = w[i] /\ g[a] = f[i] /\ f[i] \in Int /\ v \in Int
      BY <2>2
    <3>2. f[i] <= v
      BY <1>3, <3>1 DEF Before
    <3> QED BY <1>3, <3>1, <3>2 DEF place
  <2>4. ASSUME NEW j \in 1..m, g[j] < v \/ (g[j] = v /\ j < q)
        PROVE  g[j] <= g[a] /\ (g[j] = g[a] => j <= a)
    <3>1. past(q, j) \in 1..n /\ (past(q, j) < q <=> j < q) /\ (j <= a <=> past(q, j) <= i)
      BY <1>1, <2>2
    <3>2. f[past(q, j)] \in Int /\ g[j] = f[past(q, j)]
      BY <3>1
    <3>3. Before(f, past(q, j), q)
      BY <2>4, <3>1, <3>2 DEF Before
    <3>4. past(q, j) = i \/ Before(f, past(q, j), i)
      BY <1>3, <3>1, <3>3
    <3> QED BY <2>3, <3>1, <3>2, <3>4 DEF Before
  <2>5. LastBelow(g, m, v, a)
    BY <2>3, <2>4 DEF LastBelow
  <2>6. \A j \in 1..m : g[j] = v /\ j < q => g[a] = v
    BY <2>3, <2>4
  <2> QED BY <2>3, <2>5, <2>6
<1> QED BY <1>2, <1>3 DEF Predecessors

LEMMA SuccessorPlace ==
    ASSUME NEW n, NEW w, NEW f, NEW q, NEW m, NEW u, NEW g, WithoutPlace(n, w, f, q, m, u, g),
           NEW v, v = f[q], NEW greater, Successors(f, w, n, q, greater)
    PROVE  \E b \in Int : /\ FirstAbove(g, m, v, b) /\ greater = place(u, m, b)
                          /\ \A j \in 1..m : g[j] = v /\ j >= q => b \in 1..m /\ g[b] = v
<1>0. /\ n \in Nat /\ q \in 1..n /\ m = n - 1 /\ f \in [1..n -> Int]
      /\ \A j \in 1..m : u[j] = w[past(q, j)] /\ g[j] = f[past(q, j)]
  BY DEF WithoutPlace
<1> USE <1>0
<1>1. /\ \A j \in 1..m : past(q, j) \in 1..n /\ past(q, j) # q /\ (past(q, j) < q <=> j < q)
      /\ \A i, j \in 1..m : i <= j <=> past(q, i) <= past(q, j)
      /\ \A i \in 1..n : i # q => \E j \in 1..m : past(q, j) = i
  <2>1. \A j \in 1..m : past(q, j) \in 1..n /\ past(q, j) # q /\ (past(q, j) < q <=> j < q)
    BY ONLY <1>0, PastPlaces
  <2>2. \A i, j \in 1..m : i <= j <=> past(q, i) <= past(q, j)
    BY ONLY <1>0 DEF past
  <2>3. \A i \in 1..n : i # q => \E j \in 1..m : past(q, j) = i
    BY ONLY <1>0, PastPlaces
  <2> QED BY <2>1, <2>2, <2>3
<1>2. CASE greater = Zero /\ \A j \in 1..n : ~Before(f, q, j)
  <2>1. ASSUME NEW j \in 1..m PROVE g[j] <= v /\ (j >= q => g[j] # v)
    <3>1. past(q, j) \in 1..n /\ ~Before(f, q, past(q, j)) /\ (past(q, j) < q <=> j < q)
          /\ past(q, j) # q
      BY <1>1, <1>2
    <3>2. f[past(q, j)] \in Int /\ f[q] \in Int
      BY <3>1
    <3> QED BY <3>1, <3>2 DEF Before
  <2>2. 0 \in 0..m /\ 0 \notin 1..m
    OBVIOUS
  <2>3. FirstAbove(g, m, v, 0) /\ greater = place(u, m, 0)
    BY <1>2, <2>1, <2>2 DEF FirstAbove, place
  <2> QED BY <2>1, <2>2, <2>3
<1>3. ASSUME NEW i \in 1..n, greater = w[i], Before(f, q, i),
             \A j \in 1..n : Before(f, q, j) => j = i \/ Before(f, i, j)
      PROVE  \E b \in Int : /\ FirstAbove(g, m, v, b) /\ greater = place(u, m, b)
                            /\ \A j \in 1..m : g[j] = v /\ j >= q => b \in 1..m /\ g[b] = v
  <2>1. i # q
    BY <1>3 DEF Before
  <2>2. PICK b \in 1..m : past(q, b) = i
    BY <1>1, <2>1
  <2>3. greater = place(u, m, b) /\ g[b] = f[i] /\ g[b] \in Int /\ v \in Int /\ g[b] >= v
    <3>1. f[i] \in Int /\ f[q] \in Int /\ f[i] >= f[q]
      BY <1>3 DEF Before
    <3>2. u[b] = w[i] /\ g[b] = f[i]
      BY <2>2
    <3> QED BY <1>3, <3>1, <3>2 DEF place
  <2>4. ASSUME NEW j \in 1..m, g[j] > v \/ (g[j] = v /\ j >= q)
        PROVE  g[j] >= g[b] /\ (g[j] = g[b] => b <= j)
    <3>1. past(q, j) \in 1..n /\ past(q, j) # q /\ (past(q, j) < q <=> j < q)
          /\ (b <= j <=> i <= past(q, j))
      BY <1>1, <2>2
    <3>2. f[past(q, j)] \in Int /\ g[j] = f[past(q, j)]
      BY <3>1
    <3>3. Before(f, q, past(q, j))
      BY <2>4, <3>1, <3>2 DEF Before
    <3>4. past(q, j) = i \/ Before(f, i, past(q, j))
      BY <1>3, <3>1, <3>3
    <3> QED BY <2>3, <3>1, <3>2, <3>4 DEF Before
  <2>5. FirstAbove(g, m, v, b)
    BY <2>3, <2>4 DEF FirstAbove
  <2>6. \A j \in 1..m : g[j] = v /\ j >= q => g[b] = v
    BY <2>3, <2>4
  <2> QED BY <2>3, <2>5, <2>6
<1> QED BY <1>2, <1>3 DEF Successors


\* Two different places have the greatest value below v, or the least one above it.
TiedBelow(g, m, v) ==
    \E i, j \in 1..m : i # j /\ g[i] = g[j] /\ g[i] < v /\ \A x \in 1..m : g[x] < v => g[x] <= g[i]

TiedAbove(g, m, v) ==
    \E i, j \in 1..m : i # j /\ g[i] = g[j] /\ g[i] > v /\ \A x \in 1..m : g[x] > v => g[x] >= g[i]

\* One of the four ways leads from the places a and b to a place that v fits in.
LeadsToPlace(g, m, v, a, b) ==
    \/ a = m + 1 /\ (m \in 1..m => g[m] >= v)
    \/ b = 0 /\ (1 \in 1..m => g[1] <= v)
    \/ a \in 1..m /\ g[a] <= v /\ (a - 1 \in 1..m => g[a - 1] >= v)
    \/ b \in 1..m /\ g[b] >= v /\ (b + 1 \in 1..m => g[b + 1] <= v)

\* The place below v leads nowhere just if the greatest value below v is tied.
LEMMA BelowLeads ==
    ASSUME NEW m \in Nat, NEW g, \A i \in 1..m : g[i] \in Int,
           \A i, j \in 1..m : i < j => g[i] >= g[j],
           NEW v \in Int, \A i \in 1..m : g[i] # v, NEW a, LastBelow(g, m, v, a)
    PROVE  /\ a = m + 1 => ~TiedBelow(g, m, v)
           /\ a \in 1..m => g[a] < v /\ (TiedBelow(g, m, v) <=> a - 1 \in 1..m /\ g[a - 1] < v)
<1>1. ASSUME a = m + 1 PROVE ~TiedBelow(g, m, v)
  <2>1. \A j \in 1..m : g[j] >= v
    BY <1>1 DEF LastBelow
  <2>2. \A j \in 1..m : ~(g[j] < v)
    BY <2>1
  <2> QED BY <2>2 DEF TiedBelow
<1>2. ASSUME a \in 1..m PROVE g[a] < v
  BY <1>2 DEF LastBelow
<1>3. a \in 1..m => \A j \in 1..m : g[j] < v => g[j] <= g[a] /\ (g[j] = g[a] => j <= a)
  BY DEF LastBelow
<1>4. ASSUME a \in 1..m, TiedBelow(g, m, v) PROVE a - 1 \in 1..m /\ g[a - 1] < v
  <2>1. PICK i \in 1..m, j \in 1..m :
           i # j /\ g[i] = g[j] /\ g[i] < v /\ \A x \in 1..m : g[x] < v => g[x] <= g[i]
    BY <1>4 DEF TiedBelow
  <2>2. g[i] <= g[a] /\ g[a] <= g[i] /\ g[j] = g[i]
    BY <1>2, <1>3, <1>4, <2>1
  <2>3. g[i] = g[a] /\ g[j] = g[a]
    BY <1>4, <2>2
  <2>4. i <= a /\ j <= a
    BY <1>3, <1>4, <2>1, <2>3
  <2>5. PICK x \in {i, j} : x < a
    BY <1>4, <2>1, <2>4
  <2>6. x \in 1..m /\ g[x] = g[a]
    BY <2>3
  <2>7. a - 1 \in 1..m
    BY <1>4, <2>5, <2>6
  <2>8. g[x] >= g[a - 1]
    <3>1. x = a - 1 \/ x < a - 1
      BY <1>4, <2>5, <2>6
    <3>2. x < a - 1 => g[x] >= g[a - 1]
      BY <2>6, <2>7
    <3>3. g[a - 1] \in Int
      BY <2>7
    <3> QED BY <3>1, <3>2, <3>3
  <2> QED BY <1>2, <1>4, <2>6, <2>7, <2>8
<1>5. ASSUME a \in 1..m, a - 1 \in 1..m, g[a - 1] < v PROVE TiedBelow(g, m, v)
  <2>1. g[a - 1] <= g[a]
    BY <1>3, <1>5
  <2>2. g[a - 1] >= g[a]
    <3>1. a - 1 < a
      BY <1>5
    <3> QED BY <1>5, <3>1
  <2>3. g[a] = g[a - 1] /\ a # a - 1
    BY <1>5, <2>1, <2>2
  <2>4. \A x \in 1..m : g[x] < v => g[x] <= g[a]
    BY <1>3, <1>5
  <2>5. g[a] < v
    BY <1>2, <1>5
  <2> DEFINE i == a - 1
  <2>6. i \in 1..m /\ a # i /\ g[a] = g[i]
    BY <1>5, <2>3
  <2> HIDE DEF i
  <2> QED BY <1>5, <2>4, <2>5, <2>6 DEF TiedBelow
<1> QED BY <1>1, <1>2, <1>4, <1>5

LEMMA AboveLeads ==
    ASSUME NEW m \in Nat, NEW g, \A i \in 1..m : g[i] \in Int,
           \A i, j \in 1..m : i < j => g[i] >= g[j],
           NEW v \in Int, \A i \in 1..m : g[i] # v, NEW b, FirstAbove(g, m, v, b)
    PROVE  /\ b = 0 => ~TiedAbove(g, m, v)
           /\ b \in 1..m => g[b] > v /\ (TiedAbove(g, m, v) <=> b + 1 \in 1..m /\ g[b + 1] > v)
<1>1. ASSUME b = 0 PROVE ~TiedAbove(g, m, v)
  <2>1. \A j \in 1..m : g[j] <= v
    BY <1>1 DEF FirstAbove
  <2>2. \A j \in 1..m : ~(g[j] > v)
    BY <2>1
  <2> QED BY <2>2 DEF TiedAbove
<1>2. ASSUME b \in 1..m PROVE g[b] > v
  BY <1>2 DEF FirstAbove
<1>3. b \in 1..m => \A j \in 1..m : g[j] > v => g[j] >= g[b] /\ (g[j] = g[b] => b <= j)
  BY DEF FirstAbove
<1>4. ASSUME b \in 1..m, TiedAbove(g, m, v) PROVE b + 1 \in 1..m /\ g[b + 1] > v
  <2>1. PICK i \in 1..m, j \in 1..m :
           i # j /\ g[i] = g[j] /\ g[i] > v /\ \A x \in 1..m : g[x] > v => g[x] >= g[i]
    BY <1>4 DEF TiedAbove
  <2>2. g[i] >= g[b] /\ g[b] >= g[i] /\ g[j] = g[i]
    BY <1>2, <1>3, <1>4, <2>1
  <2>3. g[i] = g[b] /\ g[j] = g[b]
    BY <1>4, <2>2
  <2>4. b <= i /\ b <= j
    BY <1>3, <1>4, <2>1, <2>3
  <2>5. PICK x \in {i, j} : x > b
    BY <1>4, <2>1, <2>4
  <2>6. x \in 1..m /\ g[x] = g[b]
    BY <2>3
  <2>7. b + 1 \in 1..m
    BY <1>4, <2>5, <2>6
  <2>8. g[b + 1] >= g[x]
    <3>1. x = b + 1 \/ b + 1 < x
      BY <1>4, <2>5, <2>6
    <3>2. b + 1 < x => g[b + 1] >= g[x]
      BY <2>6, <2>7
    <3>3. g[b + 1] \in Int
      BY <2>7
    <3> QED BY <3>1, <3>2, <3>3
  <2> QED BY <1>2, <1>4, <2>6, <2>7, <2>8
<1>5. ASSUME b \in 1..m, b + 1 \in 1..m, g[b + 1] > v PROVE TiedAbove(g, m, v)
  <2>1. g[b + 1] >= g[b]
    BY <1>3, <1>5
  <2>2. g[b] >= g[b + 1]
    <3>1. b < b + 1
      BY <1>5
    <3> QED BY <1>5, <3>1
  <2>3. g[b] = g[b + 1] /\ b # b + 1
    BY <1>5, <2>1, <2>2
  <2>4. \A x \in 1..m : g[x] > v => g[x] >= g[b]
    BY <1>3, <1>5
  <2>5. g[b] > v
    BY <1>2, <1>5
  <2> DEFINE i == b + 1
  <2>6. i \in 1..m /\ b # i /\ g[b] = g[i]
    BY <1>5, <2>3
  <2> HIDE DEF i
  <2> QED BY <1>5, <2>4, <2>5, <2>6 DEF TiedAbove
<1> QED BY <1>1, <1>2, <1>4, <1>5


\* The places lead somewhere but for a value that comes between two groups of equal ones.
LEMMA LeadsUnlessTied ==
    ASSUME NEW m \in Nat, NEW g, \A i \in 1..m : g[i] \in Int,
           \A i, j \in 1..m : i < j => g[i] >= g[j],
           NEW v \in Int, NEW a, LastBelow(g, m, v, a), NEW b, FirstAbove(g, m, v, b),
           \A j \in 1..m : g[j] = v => (a \in 1..m /\ g[a] = v) \/ (b \in 1..m /\ g[b] = v)
    PROVE  LeadsToPlace(g, m, v, a, b)
             <=> ~((\A i \in 1..m : g[i] # v) /\ TiedBelow(g, m, v) /\ TiedAbove(g, m, v))
<1>0. a \in 1..m + 1 /\ b \in 0..m
  BY DEF LastBelow, FirstAbove
<1>1. ASSUME NEW j \in 1..m, g[j] = v PROVE LeadsToPlace(g, m, v, a, b)
  <2>1. CASE a \in 1..m /\ g[a] = v
    <3>1. a - 1 \in 1..m => g[a - 1] >= g[a]
      <4>1. a - 1 < a
        BY <1>0
      <4> QED BY <2>1, <4>1
    <3> QED BY <2>1, <3>1 DEF LeadsToPlace
  <2>2. CASE b \in 1..m /\ g[b] = v
    <3>1. b + 1 \in 1..m => g[b] >= g[b + 1]
      <4>1. b < b + 1
        BY <1>0
      <4> QED BY <2>2, <4>1
    <3>2. b + 1 \in 1..m => g[b + 1] <= v
      <4>1. b + 1 \in 1..m => g[b + 1] \in Int
        OBVIOUS
      <4> QED BY <2>2, <3>1, <4>1
    <3>3. g[b] >= v
      BY <2>2
    <3> QED BY <2>2, <3>2, <3>3 DEF LeadsToPlace
  <2> QED BY <1>1, <2>1, <2>2
<1>2. ASSUME \A i \in 1..m : g[i] # v
      PROVE  LeadsToPlace(g, m, v, a, b) <=> ~(TiedBelow(g, m, v) /\ TiedAbove(g, m, v))
  <2> DEFINE A == a = m + 1 /\ (m \in 1..m => g[m] >= v)
             B == b = 0 /\ (1 \in 1..m => g[1] <= v)
             C == a \in 1..m /\ g[a] <= v /\ (a - 1 \in 1..m => g[a - 1] >= v)
             D == b \in 1..m /\ g[b] >= v /\ (b + 1 \in 1..m => g[b + 1] <= v)
  <2>1. LeadsToPlace(g, m, v, a, b) <=> A \/ B \/ C \/ D
    BY DEF LeadsToPlace
  <2>2. /\ a = m + 1 => ~TiedBelow(g, m, v)
        /\ a \in 1..m => g[a] < v /\ (TiedBelow(g, m, v) <=> a - 1 \in 1..m /\ g[a - 1] < v)
    BY <1>2, BelowLeads
  <2>3. /\ b = 0 => ~TiedAbove(g, m, v)
        /\ b \in 1..m => g[b] > v /\ (TiedAbove(g, m, v) <=> b + 1 \in 1..m /\ g[b + 1] > v)
    BY <1>2, AboveLeads
  <2>4. (A \/ C) <=> ~TiedBelow(g, m, v)
    <3>1. CASE a = m + 1
      <4>1. m \in 1..m => g[m] >= v
        BY <3>1 DEF LastBelow
      <4> QED BY <2>2, <3>1, <4>1
    <3>2. CASE a \in 1..m
      <4>1. a # m + 1 /\ g[a] <= v
        BY <2>2, <3>2
      <4>2. a - 1 \in 1..m => (g[a - 1] < v <=> ~(g[a - 1] >= v))
        <5>1. a - 1 \in 1..m => g[a - 1] \in Int
          OBVIOUS
        <5> QED BY <5>1
      <4> QED BY <2>2, <3>2, <4>1, <4>2
    <3> QED BY <1>0, <3>1, <3>2
  <2>5. (B \/ D) <=> ~TiedAbove(g, m, v)
    <3>1. CASE b = 0
      <4>1. 1 \in 1..m => g[1] <= v
        BY <3>1 DEF FirstAbove
      <4> QED BY <2>3, <3>1, <4>1
    <3>2. CASE b \in 1..m
      <4>1. b # 0 /\ g[b] >= v
        BY <2>3, <3>2
      <4>2. b + 1 \in 1..m => (g[b + 1] > v <=> ~(g[b + 1] <= v))
        <5>1. b + 1 \in 1..m => g[b + 1] \in Int
          OBVIOUS
        <5> QED BY <5>1
      <4> QED BY <2>3, <3>2, <4>1, <4>2
    <3> QED BY <1>0, <3>1, <3>2
  <2> HIDE DEF A, B, C, D
  <2> QED BY <2>1, <2>4, <2>5
<1> QED BY <1>1, <1>2

\* In a list that is in order, that is one of the four ways from two places of the walk.
LEMMA FoundFromPlaces ==
    ASSUME NEW L, InOrder(L), NEW m, m = L.numElements, NEW u, u = walk(L), NEW v \in Int,
           NEW a \in 1..m + 1, NEW lesser, lesser = place(u, m, a),
           NEW b \in 0..m, NEW greater, greater = place(u, m, b),
           NEW g, \A i \in 1..m : g[i] = L.values[u[i]]
    PROVE  getLesserAndGreater(L, v, lesser, greater).found <=> LeadsToPlace(g, m, v, a, b)
<1>1. /\ m \in Nat /\ u \in [1..m -> Keys] /\ \A i \in 1..m : u[i] # Zero
      /\ L.head = place(u, m, 1) /\ L.tail = place(u, m, m)
      /\ \A i \in 1..m : /\ L.elements[u[i]].previousKey = place(u, m, i + 1)
                         /\ L.elements[u[i]].nextKey = place(u, m, i - 1)
  <2>1. m \in Nat /\ Walks(L, u, m) /\ u \in [1..m -> Keys] /\ \A i \in 1..m : u[i] # Zero
    BY InOrderWalk
  <2> QED BY <2>1 DEF Walks
<1>2. ASSUME NEW i \in Int
      PROVE  /\ place(u, m, i) = Zero <=> i \notin 1..m
             /\ i \in 1..m => L.values[place(u, m, i)] = g[i]
  BY <1>1 DEF place
<1>3. (lesser = Zero <=> a = m + 1) /\ (lesser # Zero <=> a \in 1..m) /\ a \in Int
  BY <1>1, <1>2
<1>4. (greater = Zero <=> b = 0) /\ (greater # Zero <=> b \in 1..m) /\ b \in Int
  BY <1>1, <1>2
<1>5. ASSUME NEW i \in Int, NEW j \in Int
      PROVE  isValueBetween(L, v, place(u, m, i), place(u, m, j))
               <=> (i \in 1..m => g[i] <= v) /\ (j \in 1..m => g[j] >= v)
  BY <1>2 DEF isValueBetween
<1>6. lesser = Zero /\ isValueBetween(L, v, lesser, L.tail)
        <=> a = m + 1 /\ (m \in 1..m => g[m] >= v)
  <2>1. m \in Int /\ (a = m + 1 => a \notin 1..m)
    BY <1>1
  <2>2. isValueBetween(L, v, lesser, L.tail)
          <=> (a \in 1..m => g[a] <= v) /\ (m \in 1..m => g[m] >= v)
    BY <1>1, <1>3, <1>5, <2>1
  <2> QED BY <1>3, <2>1, <2>2
<1>7. greater = Zero /\ isValueBetween(L, v, L.head, greater)
        <=> b = 0 /\ (1 \in 1..m => g[1] <= v)
  <2>1. isValueBetween(L, v, L.head, greater)
          <=> (1 \in 1..m => g[1] <= v) /\ (b \in 1..m => g[b] >= v)
    BY <1>1, <1>4, <1>5
  <2> QED BY <1>4, <2>1
<1>8. lesser # Zero /\ isValueBetween(L, v, lesser, L.elements[lesser].nextKey)
        <=> a \in 1..m /\ g[a] <= v /\ (a - 1 \in 1..m => g[a - 1] >= v)
  <2> SUFFICES ASSUME a \in 1..m
               PROVE  isValueBetween(L, v, lesser, L.elements[lesser].nextKey)
                        <=> g[a] <= v /\ (a - 1 \in 1..m => g[a - 1] >= v)
    BY <1>3
  <2>1. lesser = u[a]
    BY DEF place
  <2>2. L.elements[lesser].nextKey = place(u, m, a - 1) /\ a - 1 \in Int
    BY <1>1, <2>1
  <2>3. isValueBetween(L, v, place(u, m, a), place(u, m, a - 1))
          <=> (a \in 1..m => g[a] <= v) /\ (a - 1 \in 1..m => g[a - 1] >= v)
    BY <1>3, <1>5, <2>2
  <2> QED BY <2>2, <2>3
<1>9. greater # Zero /\ isValueBetween(L, v, L.elements[greater].previousKey, greater)
        <=> b \in 1..m /\ g[b] >= v /\ (b + 1 \in 1..m => g[b + 1] <= v)
  <2> SUFFICES ASSUME b \in 1..m
               PROVE  isValueBetween(L, v, L.elements[greater].previousKey, greater)
                        <=> g[b] >= v /\ (b + 1 \in 1..m => g[b + 1] <= v)
    BY <1>4
  <2>1. greater = u[b]
    BY DEF place
  <2>2. L.elements[greater].previousKey = place(u, m, b + 1) /\ b + 1 \in Int
    BY <1>1, <2>1
  <2>3. isValueBetween(L, v, place(u, m, b + 1), place(u, m, b))
          <=> (b + 1 \in 1..m => g[b + 1] <= v) /\ (b \in 1..m => g[b] >= v)
    BY <1>4, <1>5, <2>2
  <2> QED BY <2>2, <2>3
<1>10. getLesserAndGreater(L, v, lesser, greater).found
         <=> \/ lesser = Zero /\ isValueBetween(L, v, lesser, L.tail)
             \/ greater = Zero /\ isValueBetween(L, v, L.head, greater)
             \/ lesser # Zero /\ isValueBetween(L, v, lesser, L.elements[lesser].nextKey)
             \/ greater # Zero /\ isValueBetween(L, v, L.elements[greater].previousKey, greater)
  BY FoundWhen, FoundOnlyWhen
<1> QED BY <1>6, <1>7, <1>8, <1>9, <1>10 DEF LeadsToPlace


\* The two places of the walk u that the hints send a value v to.
HintPlaces(g, m, v, u, hints) ==
    \E a, b \in Int :
       /\ LastBelow(g, m, v, a) /\ hints.lesser = place(u, m, a)
       /\ FirstAbove(g, m, v, b) /\ hints.greater = place(u, m, b)
       /\ \A j \in 1..m : g[j] = v => (a \in 1..m /\ g[a] = v) \/ (b \in 1..m /\ g[b] = v)

\* The sorted array sends p to two places of the list without p.
LEMMA SortedHintPlaces ==
    ASSUME InOrder(list), NEW n, n = list.numElements, NEW w, w = walk(list),
           NEW q \in 1..n, NEW p, p = w[q], NEW v \in Int,
           NEW hints, hints = lesserAndGreater(p, v),
           NEW u, NEW m, m = n - 1, NEW g,
           \A j \in 1..m : u[j] = w[past(q, j)] /\ g[j] = list.values[u[j]]
    PROVE  HintPlaces(g, m, v, u, hints)
<1> DEFINE f == [i \in 1..n |-> IF i = q THEN v ELSE list.values[w[i]]]
<1>0. f = [i \in 1..n |-> IF i = q THEN v ELSE list.values[w[i]]]
  OBVIOUS
<1> HIDE DEF f
<1>1. /\ f \in [1..n -> Int]
      /\ Predecessors(f, w, n, q, hints.lesser) /\ Successors(f, w, n, q, hints.greater)
  <2>1. /\ InOrder(list) /\ n = list.numElements /\ w = walk(list) /\ q \in 1..n
        /\ p = w[q] /\ v \in Int /\ hints = lesserAndGreater(p, v)
    OBVIOUS
  <2> QED BY ONLY <1>0, <2>1, SortedNeighbours
<1> USE DEF f
<1>2. n \in Nat /\ v = f[q]
  BY InOrderWalk
<1>3. ASSUME NEW j \in 1..m PROVE u[j] = w[past(q, j)] /\ g[j] = f[past(q, j)]
  <2>1. past(q, j) \in 1..n /\ past(q, j) # q
    BY <1>2, PastPlaces
  <2> QED BY <2>1
<1> HIDE DEF f
<1> DEFINE lesser == hints.lesser
           greater == hints.greater
<1>4. /\ WithoutPlace(n, w, f, q, m, u, g) /\ v = f[q]
      /\ Predecessors(f, w, n, q, lesser) /\ Successors(f, w, n, q, greater)
  BY <1>1, <1>2, <1>3 DEF WithoutPlace
<1> HIDE DEF lesser, greater
<1>5. PICK a \in Int : /\ LastBelow(g, m, v, a) /\ lesser = place(u, m, a)
                       /\ \A j \in 1..m : g[j] = v /\ j < q => a \in 1..m /\ g[a] = v
  BY ONLY <1>4, PredecessorPlace
<1>6. PICK b \in Int : /\ FirstAbove(g, m, v, b) /\ greater = place(u, m, b)
                       /\ \A j \in 1..m : g[j] = v /\ j >= q => b \in 1..m /\ g[b] = v
  BY ONLY <1>4, SuccessorPlace
<1>7. \A j \in 1..m : j < q \/ j >= q
  BY <1>2
<1> QED BY <1>5, <1>6, <1>7 DEF lesser, greater, HintPlaces

\* The keys in S are those of the walk u, with their values.
KeysOfPlaces(S, m, u, g, val) ==
    /\ m \in Nat /\ \A j \in 1..m : g[j] = val[u[j]] /\ g[j] \in Int
    /\ \A i, j \in 1..m : u[i] = u[j] => i = j
    /\ \A x : x \in S <=> \E j \in 1..m : x = u[j]

\* None of them has the value v just if no place has.
LEMMA NoneEqual ==
    ASSUME NEW S, NEW m, NEW u, NEW g, NEW val, KeysOfPlaces(S, m, u, g, val), NEW v \in Int,
           NEW behind, behind = {k \in S : val[k] < v}, NEW ahead, ahead = {k \in S : val[k] > v}
    PROVE  behind \cup ahead = S <=> \A j \in 1..m : g[j] # v
<1> USE DEF KeysOfPlaces
<1>1. ASSUME \A j \in 1..m : g[j] # v, NEW x \in S PROVE x \in behind \cup ahead
  <2>1. PICK j \in 1..m : x = u[j]
    OBVIOUS
  <2>2. g[j] < v \/ g[j] > v
    BY <1>1
  <2> QED BY <2>1, <2>2
<1>2. ASSUME behind \cup ahead = S, NEW j \in 1..m PROVE g[j] # v
  <2>1. u[j] \in behind \cup ahead
    BY <1>2
  <2>2. val[u[j]] < v \/ val[u[j]] > v
    BY <2>1
  <2> QED BY <2>2
<1>3. behind \cup ahead \subseteq S
  OBVIOUS
<1> QED BY <1>1, <1>2, <1>3

\* Two of them are tied behind v, or ahead of it, just if two places are.
LEMMA TiedBehind ==
    ASSUME NEW S, NEW m, NEW u, NEW g, NEW val, KeysOfPlaces(S, m, u, g, val), NEW v \in Int,
           NEW behind, behind = {k \in S : val[k] < v}
    PROVE  (\E k, l \in behind : k # l /\ val[k] = val[l] /\ \A x \in behind : val[k] >= val[x])
             <=> TiedBelow(g, m, v)
<1> USE DEF KeysOfPlaces
<1>1. ASSUME NEW j \in 1..m PROVE u[j] \in behind <=> g[j] < v
  <2>1. u[j] \in S /\ g[j] = val[u[j]]
    OBVIOUS
  <2> QED BY <2>1
<1>2. ASSUME NEW x \in behind PROVE \E j \in 1..m : x = u[j] /\ g[j] = val[x]
  <2>1. x \in S
    OBVIOUS
  <2>2. PICK j \in 1..m : x = u[j]
    BY <2>1
  <2> QED BY <2>2
<1>3. ASSUME NEW k \in behind, NEW l \in behind, k # l, val[k] = val[l],
             \A x \in behind : val[k] >= val[x]
      PROVE  TiedBelow(g, m, v)
  <2>1. PICK i \in 1..m : k = u[i] /\ g[i] = val[k]
    BY <1>2
  <2>2. PICK j \in 1..m : l = u[j] /\ g[j] = val[l]
    BY <1>2
  <2>3. i # j /\ g[i] = g[j] /\ g[i] < v
    BY <1>1, <1>3, <2>1, <2>2
  <2>4. ASSUME NEW x \in 1..m, g[x] < v PROVE g[x] <= g[i]
    <3>1. u[x] \in behind /\ g[x] = val[u[x]] /\ g[x] \in Int /\ g[i] \in Int
      BY <1>1, <2>4
    <3>2. val[k] >= val[u[x]]
      BY <1>3, <3>1
    <3> QED BY <2>1, <3>1, <3>2
  <2> QED BY <2>3, <2>4 DEF TiedBelow
<1>4. ASSUME TiedBelow(g, m, v)
      PROVE  \E k, l \in behind : k # l /\ val[k] = val[l] /\ \A x \in behind : val[k] >= val[x]
  <2>1. PICK i \in 1..m, j \in 1..m :
           i # j /\ g[i] = g[j] /\ g[i] < v /\ \A x \in 1..m : g[x] < v => g[x] <= g[i]
    BY <1>4 DEF TiedBelow
  <2>2. u[i] \in behind /\ u[j] \in behind /\ u[i] # u[j] /\ val[u[i]] = val[u[j]]
    BY <1>1, <2>1
  <2>3. ASSUME NEW x \in behind PROVE val[u[i]] >= val[x]
    <3>1. PICK y \in 1..m : x = u[y] /\ g[y] = val[x]
      BY <1>2
    <3>2. g[y] <= g[i] /\ g[y] \in Int /\ g[i] \in Int
      BY <1>1, <2>1, <3>1
    <3> QED BY <3>1, <3>2
  <2> QED BY <2>2, <2>3
<1> QED BY <1>3, <1>4

LEMMA TiedAhead ==
    ASSUME NEW S, NEW m, NEW u, NEW g, NEW val, KeysOfPlaces(S, m, u, g, val), NEW v \in Int,
           NEW ahead, ahead = {k \in S : val[k] > v}
    PROVE  (\E k, l \in ahead : k # l /\ val[k] = val[l] /\ \A x \in ahead : val[k] <= val[x])
             <=> TiedAbove(g, m, v)
<1> USE DEF KeysOfPlaces
<1>1. ASSUME NEW j \in 1..m PROVE u[j] \in ahead <=> g[j] > v
  <2>1. u[j] \in S /\ g[j] = val[u[j]]
    OBVIOUS
  <2> QED BY <2>1
<1>2. ASSUME NEW x \in ahead PROVE \E j \in 1..m : x = u[j] /\ g[j] = val[x]
  <2>1. x \in S
    OBVIOUS
  <2>2. PICK j \in 1..m : x = u[j]
    BY <2>1
  <2> QED BY <2>2
<1>3. ASSUME NEW k \in ahead, NEW l \in ahead, k # l, val[k] = val[l],
             \A x \in ahead : val[k] <= val[x]
      PROVE  TiedAbove(g, m, v)
  <2>1. PICK i \in 1..m : k = u[i] /\ g[i] = val[k]
    BY <1>2
  <2>2. PICK j \in 1..m : l = u[j] /\ g[j] = val[l]
    BY <1>2
  <2>3. i # j /\ g[i] = g[j] /\ g[i] > v
    BY <1>1, <1>3, <2>1, <2>2
  <2>4. ASSUME NEW x \in 1..m, g[x] > v PROVE g[x] >= g[i]
    <3>1. u[x] \in ahead /\ g[x] = val[u[x]] /\ g[x] \in Int /\ g[i] \in Int
      BY <1>1, <2>4
    <3>2. val[k] <= val[u[x]]
      BY <1>3, <3>1
    <3> QED BY <2>1, <3>1, <3>2
  <2> QED BY <2>3, <2>4 DEF TiedAbove
<1>4. ASSUME TiedAbove(g, m, v)
      PROVE  \E k, l \in ahead : k # l /\ val[k] = val[l] /\ \A x \in ahead : val[k] <= val[x]
  <2>1. PICK i \in 1..m, j \in 1..m :
           i # j /\ g[i] = g[j] /\ g[i] > v /\ \A x \in 1..m : g[x] > v => g[x] >= g[i]
    BY <1>4 DEF TiedAbove
  <2>2. u[i] \in ahead /\ u[j] \in ahead /\ u[i] # u[j] /\ val[u[i]] = val[u[j]]
    BY <1>1, <2>1
  <2>3. ASSUME NEW x \in ahead PROVE val[u[i]] <= val[x]
    <3>1. PICK y \in 1..m : x = u[y] /\ g[y] = val[x]
      BY <1>2
    <3>2. g[y] >= g[i] /\ g[y] \in Int /\ g[i] \in Int
      BY <1>1, <2>1, <3>1
    <3> QED BY <3>1, <3>2
  <2> QED BY <2>2, <2>3
<1> QED BY <1>3, <1>4

\* An upvote is refused just when p comes between two groups of equal values.
LEMMA SortedHintsAccepted ==
    ASSUME InOrder(list), NEW p \in Keys, contains(list, p), NEW v \in Int,
           NEW R, R = others(list, p), NEW m, m = R.numElements, NEW u, u = walk(R),
           NEW g, \A j \in 1..m : g[j] = list.values[u[j]]
    PROVE  accepted(list, p, v, lesserAndGreater(p, v))
             <=> ~((\A i \in 1..m : g[i] # v) /\ TiedBelow(g, m, v) /\ TiedAbove(g, m, v))
<1> DEFINE n == list.numElements
           w == walk(list)
           hints == lesserAndGreater(p, v)
<1>1. PICK q \in 1..n : p = w[q]
  <2>1. p \in Hints
    BY DEF Hints
  <2> QED BY <2>1, ContainedPlace
<1>2. InOrder(R)
  BY OthersInOrder
<1>3. m = n - 1 /\ u = closed(w, n, q)
  <2>1. R = remove(list, w[q])
    BY <1>1 DEF others
  <2> QED BY <1>1, <2>1, RemoveInOrder
<1>4. ~contains(R, p)
  BY OthersInOrder
<1>5. \A j \in 1..m : u[j] = w[past(q, j)] /\ g[j] = list.values[u[j]]
  BY <1>3 DEF closed, past
<1>6. n = list.numElements /\ w = walk(list) /\ hints = lesserAndGreater(p, v)
  OBVIOUS
<1> HIDE DEF n, w, hints
<1>7. /\ InOrder(list) /\ n = list.numElements /\ w = walk(list) /\ q \in 1..n /\ p = w[q]
      /\ v \in Int /\ hints = lesserAndGreater(p, v) /\ m = n - 1
      /\ \A j \in 1..m : u[j] = w[past(q, j)] /\ g[j] = list.values[u[j]]
  BY <1>1, <1>3, <1>5, <1>6
<1>8. HintPlaces(g, m, v, u, hints)
  BY ONLY <1>7, SortedHintPlaces
<1>9. PICK a \in Int, b \in Int :
         /\ LastBelow(g, m, v, a) /\ hints.lesser = place(u, m, a)
         /\ FirstAbove(g, m, v, b) /\ hints.greater = place(u, m, b)
         /\ \A j \in 1..m : g[j] = v => (a \in 1..m /\ g[a] = v) \/ (b \in 1..m /\ g[b] = v)
  BY <1>8 DEF HintPlaces
<1>10. m \in Nat /\ Descending(R, u, m)
  BY <1>2, InOrderWalk
<1>11. ASSUME NEW j \in 1..m PROVE g[j] = R.values[u[j]] /\ g[j] \in Int
  <2>1. R.values[u[j]] = list.values[u[j]] /\ R.values[u[j]] \in 0..MaxValue
    BY OtherKeys
  <2> QED BY <2>1, SortedLinkedListAssumption
<1>12. \A i, j \in 1..m : i < j => g[i] >= g[j]
  BY <1>10, <1>11 DEF Descending
<1>13. a \in 1..m + 1 /\ b \in 0..m
  BY <1>9 DEF LastBelow, FirstAbove
<1>14. getLesserAndGreater(R, v, hints.lesser, hints.greater).found <=> LeadsToPlace(g, m, v, a, b)
  BY <1>2, <1>9, <1>11, <1>13, FoundFromPlaces
<1>15. LeadsToPlace(g, m, v, a, b)
         <=> ~((\A i \in 1..m : g[i] # v) /\ TiedBelow(g, m, v) /\ TiedAbove(g, m, v))
  BY <1>9, <1>10, <1>11, <1>12, LeadsUnlessTied
<1>16. hints.lesser \in Hints /\ (hints.lesser = Zero \/ contains(R, hints.lesser))
  <2> DEFINE i == a - 1
  <2>1. i \in 0..m /\ i + 1 = a
    BY <1>10, <1>13
  <2> HIDE DEF i
  <2>2. hints.lesser = place(u, m, i + 1)
    BY <1>9, <2>1
  <2> QED BY <1>2, <2>1, <2>2, NeighboursAsHints
<1>17. hints.greater \in Hints /\ (hints.greater = Zero \/ contains(R, hints.greater))
  BY <1>2, <1>9, <1>13, NeighboursAsHints
<1>18. hints.lesser # Zero \/ hints.greater # Zero \/ m = 0
  <2> SUFFICES ASSUME hints.lesser = Zero, hints.greater = Zero, m # 0 PROVE FALSE
    OBVIOUS
  <2>1. \A j \in 1..m : u[j] # Zero
    BY <1>2, InOrderWalk
  <2>2. a \notin 1..m /\ b \notin 1..m
    BY <1>9, <2>1 DEF place
  <2>3. a = m + 1 /\ b = 0 /\ 1 \in 1..m
    BY <1>10, <1>13, <2>2
  <2>4. g[1] >= v /\ g[1] <= v /\ g[1] \in Int
    BY <1>9, <1>11, <2>3 DEF LastBelow, FirstAbove
  <2>5. g[1] = v
    BY <2>4
  <2> QED BY <1>9, <2>2, <2>3, <2>5
<1>19. canInsert(R, p, v, hints.lesser, hints.greater)
         <=> getLesserAndGreater(R, v, hints.lesser, hints.greater).found
  <2>1. canInsert(R, p, v, hints.lesser, hints.greater)
          => getLesserAndGreater(R, v, hints.lesser, hints.greater).found
    BY DEF canInsert
  <2> QED BY <1>2, <1>4, <1>16, <1>17, <1>18, <2>1, FoundInserts
<1> QED BY <1>6, <1>14, <1>15, <1>19, AcceptedIntoOthers

LEMMA InOrderUpvotes == InOrder(list) => UpvoteRefusedBetweenTies
<1> SUFFICES ASSUME InOrder(list), NEW p \in {k \in Keys : contains(list, k)}, NEW v \in 0..MaxValue
             PROVE  LET S      == {k \in Keys \ {p} : contains(list, k)}
                        behind == {k \in S : list.values[k] < v}
                        ahead  == {k \in S : list.values[k] > v}
                        tied(T, least) == \E k, l \in T : /\ k # l /\ list.values[k] = list.values[l]
                                                          /\ \A x \in T : IF least
                                                                THEN list.values[k] <= list.values[x]
                                                                ELSE list.values[k] >= list.values[x]
                    IN  accepted(list, p, v, lesserAndGreater(p, v))
                          <=> ~(/\ behind \cup ahead = S
                                /\ tied(behind, FALSE) /\ tied(ahead, TRUE))
  BY DEF UpvoteRefusedBetweenTies
<1> DEFINE S      == {k \in Keys \ {p} : contains(list, k)}
           behind == {k \in S : list.values[k] < v}
           ahead  == {k \in S : list.values[k] > v}
           R == others(list, p)
           m == R.numElements
           u == walk(R)
           g == [j \in 1..m |-> list.values[u[j]]]
<1>0. R = others(list, p) /\ m = R.numElements /\ u = walk(R)
  OBVIOUS
<1>1. \A j \in 1..m : g[j] = list.values[u[j]]
  OBVIOUS
<1> HIDE DEF R, m, u, g
<1>2. p \in Keys /\ contains(list, p) /\ v \in Int
  BY SortedLinkedListAssumption
<1>3. accepted(list, p, v, lesserAndGreater(p, v))
        <=> ~((\A i \in 1..m : g[i] # v) /\ TiedBelow(g, m, v) /\ TiedAbove(g, m, v))
  BY <1>0, <1>1, <1>2, SortedHintsAccepted
<1>4. /\ InOrder(R) /\ ~contains(R, p)
      /\ \A x \in Keys \ {p} : contains(R, x) <=> contains(list, x)
  BY <1>0, <1>2, OthersInOrder
<1>5. m \in Nat /\ R \in Lists /\ Walks(R, u, m) /\ \A i, j \in 1..m : u[i] = u[j] => i = j
  BY <1>0, <1>4, InOrderWalk
<1>6. \A j \in 1..m : u[j] \in S /\ g[j] \in Int
  <2> TAKE j \in 1..m
  <2>1. /\ u[j] \in Keys \ {p} /\ contains(list, u[j])
        /\ R.values[u[j]] = list.values[u[j]] /\ R.values[u[j]] \in 0..MaxValue
    BY <1>0, <1>2, OtherKeys
  <2> QED BY <1>1, <2>1, SortedLinkedListAssumption
<1>7. ASSUME NEW x \in S PROVE \E j \in 1..m : x = u[j]
  <2>1. x \in Keys \ {p} /\ contains(R, x) /\ x \in Hints
    BY <1>4 DEF Hints
  <2>2. Within(u, m, x)
    BY <1>5, <2>1, Visited
  <2> QED BY <2>2 DEF Within
<1>8. \A x : x \in S <=> \E j \in 1..m : x = u[j]
  BY <1>6, <1>7
<1> DEFINE val == list.values
<1>9. behind = {k \in S : val[k] < v} /\ ahead = {k \in S : val[k] > v}
  OBVIOUS
<1>10. KeysOfPlaces(S, m, u, g, val)
  BY <1>1, <1>5, <1>6, <1>8 DEF KeysOfPlaces
<1> HIDE DEF val, S, behind, ahead
<1>11. behind \cup ahead = S <=> \A j \in 1..m : g[j] # v
  BY <1>2, <1>9, <1>10, NoneEqual
<1>12. (\E k, l \in behind : k # l /\ val[k] = val[l] /\ \A x \in behind : val[k] >= val[x])
         <=> TiedBelow(g, m, v)
  BY <1>2, <1>9, <1>10, TiedBehind
<1>13. (\E k, l \in ahead : k # l /\ val[k] = val[l] /\ \A x \in ahead : val[k] <= val[x])
         <=> TiedAbove(g, m, v)
  BY <1>2, <1>9, <1>10, TiedAhead
<1>14. accepted(list, p, v, lesserAndGreater(p, v))
         <=> ~(/\ behind \cup ahead = S
               /\ \E k, l \in behind : k # l /\ val[k] = val[l] /\ \A x \in behind : val[k] >= val[x]
               /\ \E k, l \in ahead : k # l /\ val[k] = val[l] /\ \A x \in ahead : val[k] <= val[x])
  BY <1>3, <1>11, <1>12, <1>13
<1> QED BY <1>14 DEF val, S, behind, ahead

\* Upvoting goes through with the neighbours of the sorted queue unless the proposal comes
\* between two groups of equally upvoted ones, and then it reverts.
THEOREM UpvotesRefusedBetweenTies == Spec => []UpvoteRefusedBetweenTies
<1>1. Spec => []InOrder(list)
  BY AlwaysInOrder
<1>2. InOrder(list) => UpvoteRefusedBetweenTies
  BY InOrderUpvotes
<1> QED BY <1>1, <1>2, PTL

=============================================================================
