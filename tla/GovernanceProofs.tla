-------------------------- MODULE GovernanceProofs --------------------------
(***************************************************************************)
(* Proofs about Governance.sol, for any parameters and any number of       *)
(* proposals, voters and slots.  The first half shows that it never        *)
(* mislays a proposal: emptyIndices lists the free slots, a proposal is in *)
(* the queue or in one slot and not in both, and an executed proposal is   *)
(* gone for good.  The second half shows that its books are right: the     *)
(* upvotes of a queued proposal and the votes of a dequeued one are the    *)
(* sums of the voters' records, every deposit is accounted for, and a      *)
(* proposal that is executed had the support the constitution asks for.    *)
(***************************************************************************)
EXTENDS Governance, DataTheorems

Element == [key : Nat, value : Nat]

-----------------------------------------------------------------------------
(***************************************************************************)
(* dequeueProposalsIfReady: the slots the popped proposals get             *)
(***************************************************************************)

\* The members of a set of numbers, counted in increasing order, get the ranks from
\* one up to their number.
LEMMA RankProperties ==
    ASSUME NEW n \in Nat, NEW S \in SUBSET (1..n)
    PROVE  /\ Cardinality(S) \in Nat
           /\ \A i \in S : rank(S, i) \in 1..Cardinality(S)
           /\ \A i, j \in S : rank(S, i) = rank(S, j) => i = j
           /\ \A r \in 1..Cardinality(S) : \E i \in S : rank(S, i) = r
<1> DEFINE upTo(i) == {j \in S : j <= i}
<1>0. \A i \in S : i \in Int
  OBVIOUS
<1>1. IsFiniteSet(S) /\ Cardinality(S) \in Nat
  <2>1. IsFiniteSet(1..n)
    BY FS_Interval
  <2>2. IsFiniteSet(S)
    BY <2>1, FS_Subset
  <2> QED BY <2>2, FS_CardinalityType
<1>2. \A i \in S : /\ IsFiniteSet(upTo(i)) /\ Cardinality(upTo(i)) \in Nat
                   /\ Cardinality(upTo(i)) <= Cardinality(S)
  <2>1. \A i \in S : upTo(i) \in SUBSET S
    OBVIOUS
  <2>2. \A i \in S : IsFiniteSet(upTo(i)) /\ Cardinality(upTo(i)) <= Cardinality(S)
    BY <1>1, <2>1, FS_Subset
  <2> QED BY <2>2, FS_CardinalityType
<1>3. \A i \in S : Cardinality(upTo(i)) # 0
  <2> SUFFICES ASSUME NEW i \in S PROVE Cardinality(upTo(i)) # 0
    OBVIOUS
  <2>1. i \in upTo(i)
    OBVIOUS
  <2> QED BY <1>2, <2>1, FS_EmptySet
<1>4. ASSUME NEW i \in S, NEW j \in S, i < j
      PROVE  Cardinality(upTo(i)) # Cardinality(upTo(j))
  <2>1. j \in upTo(j) /\ j \notin upTo(i)
    BY <1>0, <1>4
  <2>2. upTo(i) \in SUBSET upTo(j)
    <3>1. i \in Int /\ j \in Int
      BY <1>0
    <3>2. ASSUME NEW x \in upTo(i) PROVE x \in upTo(j)
      <4>1. x \in S /\ x <= i
        BY <3>2
      <4> QED BY <1>0, <1>4, <3>1, <4>1
    <3> QED BY <3>2
  <2> QED BY <1>2, <2>1, <2>2, FS_Subset
<1>5. \A i \in S : rank(S, i) = Cardinality(upTo(i))
  BY DEF rank
<1>6. \A i \in S : rank(S, i) \in 1..Cardinality(S)
  <2> SUFFICES ASSUME NEW i \in S PROVE rank(S, i) \in 1..Cardinality(S)
    OBVIOUS
  <2> HIDE DEF upTo
  <2>1. Cardinality(upTo(i)) \in 1..Cardinality(S)
    BY <1>1, <1>2, <1>3
  <2> QED BY <1>5, <2>1
<1> HIDE DEF upTo
<1>7. \A i, j \in S : rank(S, i) = rank(S, j) => i = j
  <2> SUFFICES ASSUME NEW i \in S, NEW j \in S, rank(S, i) = rank(S, j) PROVE i = j
    OBVIOUS
  <2>1. ~(i < j) /\ ~(j < i)
    BY <1>4, <1>5
  <2> QED BY <1>0, <2>1
<1> DEFINE f == [i \in S |-> rank(S, i)]
<1>8. f \in Injection(S, 1..Cardinality(S))
  <2>1. f \in [S -> 1..Cardinality(S)]
    BY <1>6
  <2>2. \A i, j \in S : f[i] = f[j] => i = j
    BY <1>7
  <2> HIDE DEF f
  <2> QED BY <2>1, <2>2 DEF Injection, IsInjective
<1>9. IsFiniteSet(1..Cardinality(S)) /\ Cardinality(1..Cardinality(S)) = Cardinality(S)
  BY <1>1, FS_Interval
<1>10. f \in Surjection(S, 1..Cardinality(S))
  BY <1>8, <1>9, FS_Injection
<1>11. \A r \in 1..Cardinality(S) : \E i \in S : rank(S, i) = r
  BY <1>10 DEF Surjection
<1> QED BY <1>1, <1>6, <1>7, <1>11

\* What the queue, the slots and the proposals satisfy in every reachable state.
Sound(g) ==
    /\ g \in GovState
    /\ SlotsConsistentIn(g)
    /\ InOnePlaceIn(g)
    /\ \A id \in executed : id \in DOMAIN g.proposals /\ ~exists(g.proposals[id])

\* The parameters and the clock, as far as dequeueProposalsIfReady depends on them.
Ready == now \in Nat \ {0} /\ params["concurrentProposals"] \in Nat

\* The fields of a well typed record have their types.
LEMMA StateFields ==
    ASSUME NEW g \in GovState
    PROVE  /\ g.proposals \in Seq(Proposal) /\ DOMAIN g.proposals = 1..Len(g.proposals)
           /\ g.queue \in Seq(Element) /\ DOMAIN g.queue = 1..Len(g.queue)
           /\ g.dequeued \in Seq(Nat) /\ DOMAIN g.dequeued = 1..Len(g.dequeued)
           /\ g.emptyIndices \in Seq(Nat) /\ DOMAIN g.emptyIndices = 1..Len(g.emptyIndices)
           /\ Len(g.proposals) \in Nat /\ Len(g.queue) \in Nat
           /\ Len(g.dequeued) \in Nat /\ Len(g.emptyIndices) \in Nat
<1>1. /\ g.proposals \in Seq(Proposal) /\ g.queue \in Seq(Element)
      /\ g.dequeued \in Seq(Nat) /\ g.emptyIndices \in Seq(Nat)
  BY DEF GovState, Element
<1> QED BY <1>1, LenProperties

\* A batch pops at most the whole queue, and the proposals that get a slot are
\* among those it pops.
LEMMA FreshProperties ==
    ASSUME NEW g \in GovState, Ready
    PROVE  /\ numToDequeue(g) \in 0..Len(g.queue)
           /\ fresh(g) \in SUBSET (1..numToDequeue(g))
           /\ \A i \in fresh(g) : i \in DOMAIN g.queue
<1>1. numToDequeue(g) \in 0..Len(g.queue)
  BY StateFields DEF numToDequeue, Ready
<1>2. fresh(g) \in SUBSET (1..numToDequeue(g))
  BY DEF fresh
<1> QED BY <1>1, <1>2, StateFields

\* A popped proposal gets a slot of its own: one that emptyIndices lists, from its
\* end, or a new one; and the slots taken from there and the new ones are all used.
LEMMA SlotProperties ==
    ASSUME NEW g \in GovState, Ready, SlotsConsistentIn(g),
           NEW m, m = Len(g.emptyIndices), NEW c, c = Cardinality(fresh(g)),
           NEW d, d = Len(g.dequeued)
    PROVE  /\ c \in Nat
           /\ \A i \in fresh(g) :
                 \/ \E k \in DOMAIN g.emptyIndices :
                       k > m - c /\ slotOf(g, i) = g.emptyIndices[k]
                 \/ slotOf(g, i) \in d + 1..d + c - m
           /\ \A i, j \in fresh(g) : slotOf(g, i) = slotOf(g, j) => i = j
           /\ \A k \in DOMAIN g.emptyIndices :
                 k > m - c => \E i \in fresh(g) : slotOf(g, i) = g.emptyIndices[k]
           /\ \A s \in d + 1..d + c - m : \E i \in fresh(g) : slotOf(g, i) = s
<1> DEFINE r(i) == rank(fresh(g), i)
           E == g.emptyIndices
<1>0. m \in Nat /\ d \in Nat /\ DOMAIN E = 1..m /\ DOMAIN g.dequeued = 1..d
  BY StateFields
<1>1. /\ c \in Nat
      /\ \A i \in fresh(g) : r(i) \in 1..c
      /\ \A i, j \in fresh(g) : r(i) = r(j) => i = j
      /\ \A x \in 1..c : \E i \in fresh(g) : r(i) = x
  <2>1. numToDequeue(g) \in Nat /\ fresh(g) \in SUBSET (1..numToDequeue(g))
    BY FreshProperties, StateFields
  <2> QED BY <2>1, RankProperties
<1>2. \A i \in fresh(g) : slotOf(g, i) = IF r(i) <= m THEN E[m + 1 - r(i)] ELSE d + r(i) - m
  BY DEF slotOf
<1>3. /\ \A j, k \in DOMAIN E : E[j] = E[k] => j = k
      /\ \A k \in DOMAIN E : E[k] \in 1..d
  BY <1>0 DEF SlotsConsistentIn
<1> HIDE DEF r, E
<1>4. ASSUME NEW i \in fresh(g)
      PROVE  \/ \E k \in DOMAIN E : k > m - c /\ slotOf(g, i) = E[k]
             \/ slotOf(g, i) \in d + 1..d + c - m
  <2>1. CASE r(i) <= m
    <3>1. /\ m + 1 - r(i) \in DOMAIN E /\ m + 1 - r(i) > m - c
          /\ slotOf(g, i) = E[m + 1 - r(i)]
      BY <1>0, <1>1, <1>2, <2>1
    <3> QED BY <3>1
  <2>2. CASE r(i) > m
    BY <1>0, <1>1, <1>2, <2>2
  <2> QED BY <1>0, <1>1, <2>1, <2>2
<1>5. ASSUME NEW i \in fresh(g), NEW j \in fresh(g), slotOf(g, i) = slotOf(g, j)
      PROVE  i = j
  <2>0. r(i) \in 1..c /\ r(j) \in 1..c
    BY <1>1
  <2>1. CASE r(i) <= m /\ r(j) <= m
    <3>1. /\ m + 1 - r(i) \in DOMAIN E /\ m + 1 - r(j) \in DOMAIN E
          /\ E[m + 1 - r(i)] = E[m + 1 - r(j)]
      BY <1>0, <1>1, <1>2, <1>5, <2>0, <2>1
    <3>2. m + 1 - r(i) = m + 1 - r(j)
      BY <1>3, <3>1
    <3> QED BY <1>0, <1>1, <2>0, <3>2
  <2>2. CASE r(i) > m /\ r(j) > m
    BY <1>0, <1>1, <1>2, <1>5, <2>0, <2>2
  <2>3. ASSUME NEW x \in fresh(g), NEW y \in fresh(g), r(x) <= m, r(y) > m
        PROVE  slotOf(g, x) # slotOf(g, y)
    <3>1. r(x) \in 1..c /\ r(y) \in 1..c
      BY <1>1
    <3>2. m + 1 - r(x) \in DOMAIN E /\ slotOf(g, x) = E[m + 1 - r(x)]
      BY <1>0, <1>2, <2>3, <3>1
    <3>3. slotOf(g, x) \in 1..d
      BY <1>3, <3>2
    <3>4. slotOf(g, y) = d + r(y) - m
      BY <1>0, <1>1, <1>2, <2>3, <3>1
    <3> QED BY <1>0, <1>1, <2>3, <3>1, <3>3, <3>4
  <2> QED BY <1>0, <1>1, <1>5, <2>0, <2>1, <2>2, <2>3
<1>6. ASSUME NEW k \in DOMAIN E, k > m - c
      PROVE  \E i \in fresh(g) : slotOf(g, i) = E[k]
  <2>1. m + 1 - k \in 1..c
    BY <1>0, <1>1, <1>6
  <2>2. PICK i \in fresh(g) : r(i) = m + 1 - k
    BY <1>1, <2>1
  <2>3. r(i) <= m /\ m + 1 - r(i) = k
    BY <1>0, <2>1, <2>2
  <2> QED BY <1>2, <2>3
<1>7. ASSUME NEW s \in d + 1..d + c - m
      PROVE  \E i \in fresh(g) : slotOf(g, i) = s
  <2>0. s \in Int /\ d + 1 <= s /\ s <= d + c - m /\ c \in Nat
    BY <1>0, <1>1
  <2> DEFINE x == s - (d - m)
  <2>1. x \in Int /\ 1 <= x /\ x <= c /\ x > m /\ d + x - m = s
    <3>1. ASSUME NEW s1 \in Int, NEW d1 \in Nat, NEW m1 \in Nat, NEW c1 \in Nat,
                 d1 + 1 <= s1, s1 <= d1 + c1 - m1
          PROVE  LET y == s1 - (d1 - m1)
                 IN  y \in Int /\ 1 <= y /\ y <= c1 /\ y > m1 /\ d1 + y - m1 = s1
      BY <3>1
    <3> QED BY <1>0, <2>0, <3>1
  <2> HIDE DEF x
  <2>2. x \in 1..c
    BY <2>0, <2>1
  <2>3. PICK i \in fresh(g) : r(i) = x
    BY <1>1, <2>2
  <2>4. ~(r(i) <= m) /\ d + r(i) - m = s
    BY <1>0, <2>1, <2>3
  <2> QED BY <1>2, <2>4
<1> QED BY <1>1, <1>4, <1>5, <1>6, <1>7 DEF E

\* What popN leaves of the queue: its elements, moved to the front.
LEMMA QueueTail ==
    ASSUME NEW g \in GovState, Ready,
           NEW q, q = SubSeq(g.queue, numToDequeue(g) + 1, Len(g.queue))
    PROVE  /\ q \in Seq(Element)
           /\ \A i \in DOMAIN q : /\ numToDequeue(g) + i \in DOMAIN g.queue
                                  /\ q[i] = g.queue[numToDequeue(g) + i]
<1> DEFINE n == numToDequeue(g)
           l == Len(g.queue)
<1>1. n \in 0..l /\ l \in Nat /\ DOMAIN g.queue = 1..l /\ g.queue \in Seq(Element)
  BY FreshProperties, StateFields
<1> HIDE DEF n
<1>2. /\ q \in Seq(Element)
      /\ Len(q) = IF n + 1 <= l THEN l - (n + 1) + 1 ELSE 0
      /\ \A i \in 1..l - (n + 1) + 1 : q[i] = g.queue[n + 1 + i - 1]
  <2> DEFINE a == n + 1
  <2>1. \A i \in a..l : g.queue[i] \in Element
    BY <1>1, ElementOfSeq
  <2>2. a \in Int /\ l \in Int /\ q = SubSeq(g.queue, a, l)
    BY <1>1 DEF n
  <2> HIDE DEF l, a
  <2> DEFINE u == g.queue
  <2>3. \A i \in a..l : u[i] \in Element
    BY <2>1
  <2> HIDE DEF u
  <2>4. /\ SubSeq(u, a, l) \in Seq(Element)
        /\ Len(SubSeq(u, a, l)) = IF a <= l THEN l - a + 1 ELSE 0
        /\ \A i \in 1..l - a + 1 : SubSeq(u, a, l)[i] = u[a + i - 1]
    BY <2>2, <2>3, SubSeqProperties
  <2> QED BY <2>2, <2>4 DEF a, u
<1>3. DOMAIN q = 1..l - n
  BY <1>1, <1>2, LenProperties
<1>4. \A i \in 1..l - n : n + i \in DOMAIN g.queue /\ q[i] = g.queue[n + i]
  <2> SUFFICES ASSUME NEW i \in 1..l - n
               PROVE  n + i \in DOMAIN g.queue /\ q[i] = g.queue[n + i]
    OBVIOUS
  <2>1. n + 1 + i - 1 = n + i /\ i \in 1..l - (n + 1) + 1 /\ n + i \in 1..l
    BY <1>1
  <2> QED BY <1>1, <1>2, <2>1
<1> QED BY <1>2, <1>3, <1>4 DEF n

\* The entries of emptyIndices that a batch leaves are its first ones.
LEMMA RemainingProperties ==
    ASSUME NEW g \in GovState, Ready,
           NEW m, m = Len(g.emptyIndices), NEW c, c = Cardinality(fresh(g)), c \in Nat
    PROVE  /\ remainingEmptyIndices(g) \in Seq(Nat)
           /\ \A k : k \in DOMAIN remainingEmptyIndices(g) <=>
                        k \in DOMAIN g.emptyIndices /\ k <= m - c
           /\ \A k \in DOMAIN remainingEmptyIndices(g) :
                 remainingEmptyIndices(g)[k] = g.emptyIndices[k]
<1> DEFINE n == IF m - c > 0 THEN m - c ELSE 0
           R == remainingEmptyIndices(g)
<1>1. m \in Nat /\ DOMAIN g.emptyIndices = 1..m /\ g.emptyIndices \in Seq(Nat)
  BY StateFields
<1>2. n \in Nat /\ n <= m
  BY <1>1
<1>3. R = SubSeq(g.emptyIndices, 1, n)
  BY DEF remainingEmptyIndices
<1> HIDE DEF R
<1>4. /\ R \in Seq(Nat) /\ Len(R) = n
      /\ \A k \in 1..n : R[k] = g.emptyIndices[k]
  <2>1. \A k \in 1..n : g.emptyIndices[k] \in Nat
    BY <1>1, <1>2, ElementOfSeq
  <2> HIDE DEF n
  <2>2. /\ R \in Seq(Nat)
        /\ Len(R) = IF 1 <= n THEN n - 1 + 1 ELSE 0
        /\ \A k \in 1..n - 1 + 1 : R[k] = g.emptyIndices[1 + k - 1]
    BY <1>2, <1>3, <2>1, SubSeqProperties
  <2>3. \A k \in 1..n : k \in 1..n - 1 + 1 /\ 1 + k - 1 = k
    BY <1>2
  <2> QED BY <1>2, <2>2, <2>3
<1>5. DOMAIN R = 1..n
  BY <1>4, LenProperties
<1> QED BY <1>1, <1>2, <1>4, <1>5, SMTT(30) DEF R

\* A slot of the new array holds the popped proposal it was given to, or else what it
\* held before.
LEMMA FilledProperties ==
    ASSUME NEW g, Sound(g), Ready
    PROVE  /\ filledDequeued(g) \in Seq(Nat)
           /\ \A s \in DOMAIN g.dequeued : s \in DOMAIN filledDequeued(g)
           /\ \A i \in fresh(g) : /\ slotOf(g, i) \in DOMAIN filledDequeued(g)
                                   /\ filledDequeued(g)[slotOf(g, i)] = g.queue[i].key
           /\ \A s \in DOMAIN filledDequeued(g) :
                 \/ \E i \in fresh(g) : slotOf(g, i) = s
                 \/ /\ \A i \in fresh(g) : slotOf(g, i) # s
                    /\ s \in DOMAIN g.dequeued
                    /\ filledDequeued(g)[s] = g.dequeued[s]
<1> DEFINE m == Len(g.emptyIndices)
           c == Cardinality(fresh(g))
           d == Len(g.dequeued)
           l == d + (IF c - m > 0 THEN c - m ELSE 0)
           newAt(s) == {i \in fresh(g) : slotOf(g, i) = s}
           F == filledDequeued(g)
           at(s) == IF newAt(s) # {} THEN g.queue[CHOOSE i \in newAt(s) : TRUE].key
                                     ELSE g.dequeued[s]
<1>0. g \in GovState /\ SlotsConsistentIn(g)
  BY DEF Sound
<1>1. m \in Nat /\ d \in Nat /\ DOMAIN g.dequeued = 1..d /\ DOMAIN g.emptyIndices = 1..m
  BY <1>0, StateFields
<1>2. /\ c \in Nat
      /\ \A i \in fresh(g) :
            \/ \E k \in DOMAIN g.emptyIndices : k > m - c /\ slotOf(g, i) = g.emptyIndices[k]
            \/ slotOf(g, i) \in d + 1..d + c - m
      /\ \A i, j \in fresh(g) : slotOf(g, i) = slotOf(g, j) => i = j
      /\ \A s \in d + 1..d + c - m : \E i \in fresh(g) : slotOf(g, i) = s
  BY <1>0, SlotProperties
<1>3. F = [s \in 1..l |-> at(s)]
  BY DEF filledDequeued
<1> HIDE DEF F, m, c, d
<1>4. l \in Nat /\ d <= l
  BY <1>1, <1>2
<1>5. ASSUME NEW i \in fresh(g)
      PROVE  slotOf(g, i) \in 1..l /\ F[slotOf(g, i)] = g.queue[i].key
  <2>1. slotOf(g, i) \in 1..l
    <3>1. CASE \E k \in DOMAIN g.emptyIndices : slotOf(g, i) = g.emptyIndices[k]
      <4>1. slotOf(g, i) \in 1..d
        BY <1>0, <1>1, <3>1 DEF SlotsConsistentIn
      <4> QED BY <1>1, <1>4, <4>1
    <3>2. CASE slotOf(g, i) \in d + 1..d + c - m
      BY <1>1, <1>2, <3>2
    <3> QED BY <1>2, <3>1, <3>2
  <2>2. newAt(slotOf(g, i)) = {i}
    BY <1>2
  <2>3. (CHOOSE x \in {i} : TRUE) = i
    OBVIOUS
  <2>4. at(slotOf(g, i)) = g.queue[i].key
    BY <2>2, <2>3
  <2> HIDE DEF at, l
  <2> QED BY <1>3, <2>1, <2>4
<1>6. ASSUME NEW s \in 1..l, \A i \in fresh(g) : slotOf(g, i) # s
      PROVE  s \in 1..d /\ F[s] = g.dequeued[s]
  <2>1. s \in 1..d
    BY <1>1, <1>2, <1>6
  <2>2. newAt(s) = {}
    BY <1>6
  <2>3. at(s) = g.dequeued[s]
    BY <2>2
  <2> HIDE DEF at, l
  <2> QED BY <1>3, <2>1, <2>3
<1>7. \A s \in 1..l : F[s] \in Nat
  <2>1. \A s \in 1..d : g.dequeued[s] \in Nat
    BY <1>0, <1>1, StateFields, ElementOfSeq DEF d
  <2>2. \A i \in fresh(g) : g.queue[i].key \in Nat
    <3>1. \A i \in fresh(g) : i \in 1..Len(g.queue)
      BY <1>0, FreshProperties, StateFields
    <3>2. \A i \in 1..Len(g.queue) : g.queue[i] \in Element
      BY <1>0, StateFields, ElementOfSeq
    <3> QED BY <3>1, <3>2 DEF Element
  <2> QED BY <1>5, <1>6, <2>1, <2>2
<1> HIDE DEF l, at
<1>8. DOMAIN F = 1..l /\ F \in [1..l -> Nat]
  BY <1>3, <1>7
<1>9. F \in Seq(Nat)
  BY <1>4, <1>8, SeqDef
<1>10. \A s \in DOMAIN g.dequeued : s \in DOMAIN F
  BY <1>1, <1>4, <1>8
<1> QED BY <1>1, <1>5, <1>6, <1>8, <1>9, <1>10 DEF F

\* Only the popped proposals that had not expired are touched; they start afresh.
LEMMA RestampProperties ==
    ASSUME NEW g, Sound(g), Ready, NEW P,
           P = [id \in DOMAIN g.proposals |->
                  IF id \in freshIds(g) THEN [g.proposals[id] EXCEPT !.timestamp = now]
                                        ELSE g.proposals[id]]
    PROVE  /\ P \in Seq(Proposal) /\ DOMAIN P = DOMAIN g.proposals
           /\ \A id \in DOMAIN P : exists(g.proposals[id]) => exists(P[id])
           /\ \A id \in DOMAIN P : ~exists(g.proposals[id]) => ~exists(P[id])
<1>0. g \in GovState /\ InOnePlaceIn(g)
  BY DEF Sound
<1> DEFINE l == Len(g.proposals)
<1>1. l \in Nat /\ DOMAIN g.proposals = 1..l
  BY <1>0, StateFields
<1>2. \A id \in 1..l : g.proposals[id] \in Proposal
  BY <1>0, StateFields, ElementOfSeq
<1> HIDE DEF l
<1>3. \A id \in freshIds(g) : id \in 1..l /\ exists(g.proposals[id])
  <2>1. \A i \in fresh(g) : g.queue[i].key \in 1..l /\ exists(g.proposals[g.queue[i].key])
    BY <1>0, <1>1, FreshProperties DEF InOnePlaceIn
  <2> QED BY <2>1 DEF freshIds
<1>4. ASSUME NEW id \in 1..l
      PROVE  /\ P[id] \in Proposal
             /\ P[id].timestamp = IF id \in freshIds(g) THEN now ELSE g.proposals[id].timestamp
  BY <1>1, <1>2 DEF Proposal, Ready
<1>5. P \in Seq(Proposal)
  <2>1. P \in [1..l -> Proposal]
    BY <1>1, <1>4
  <2> QED BY <1>1, <2>1, SeqDef
<1>6. \A id \in 1..l : exists(g.proposals[id]) => exists(P[id])
  <2>1. now > 0
    BY DEF Ready
  <2>2. ASSUME NEW id \in 1..l, g.proposals[id].timestamp > 0 PROVE P[id].timestamp > 0
    <3>1. P[id].timestamp = now \/ P[id].timestamp = g.proposals[id].timestamp
      BY <1>4
    <3> QED BY <2>1, <2>2, <3>1
  <2> QED BY <2>2 DEF exists
<1>7. \A id \in 1..l : ~exists(g.proposals[id]) => ~exists(P[id])
  <2>1. \A id \in 1..l : ~(g.proposals[id].timestamp > 0) => id \notin freshIds(g)
    BY <1>3 DEF exists
  <2> QED BY <1>4, <2>1 DEF exists
<1> QED BY <1>1, <1>5, <1>6, <1>7

\* dequeueProposalsIfReady keeps the queue, the slots and the proposals consistent.
LEMMA DequeueSound ==
    ASSUME NEW g, Sound(g), Ready
    PROVE  Sound(dequeueProposalsIfReady(g))
<1> DEFINE n == numToDequeue(g)
           q == SubSeq(g.queue, n + 1, Len(g.queue))
           F == filledDequeued(g)
           R == remainingEmptyIndices(g)
           P == [id \in DOMAIN g.proposals |->
                   IF id \in freshIds(g) THEN [g.proposals[id] EXCEPT !.timestamp = now]
                                         ELSE g.proposals[id]]
           h == dequeueProposalsIfReady(g)
           m == Len(g.emptyIndices)
           c == Cardinality(fresh(g))
<1>0. g \in GovState /\ SlotsConsistentIn(g) /\ InOnePlaceIn(g)
  BY DEF Sound
<1> SUFFICES ASSUME dequeueReady(g) PROVE Sound(h)
  BY DEF dequeueProposalsIfReady
<1>1. /\ n \in Nat /\ \A i \in fresh(g) : i \in 1..n /\ i \in DOMAIN g.queue
  BY <1>0, FreshProperties, StateFields
<1>2. /\ q \in Seq(Element)
      /\ \A i \in DOMAIN q : n + i \in DOMAIN g.queue /\ q[i] = g.queue[n + i]
      /\ DOMAIN q = 1..Len(q)
  <2>1. /\ q \in Seq(Element)
        /\ \A i \in DOMAIN q : n + i \in DOMAIN g.queue /\ q[i] = g.queue[n + i]
    BY <1>0, QueueTail
  <2> QED BY <2>1, LenProperties
<1>3. /\ F \in Seq(Nat)
      /\ \A s \in DOMAIN g.dequeued : s \in DOMAIN F
      /\ \A i \in fresh(g) : slotOf(g, i) \in DOMAIN F /\ F[slotOf(g, i)] = g.queue[i].key
      /\ \A s \in DOMAIN F :
            \/ \E i \in fresh(g) : slotOf(g, i) = s
            \/ /\ \A i \in fresh(g) : slotOf(g, i) # s
               /\ s \in DOMAIN g.dequeued /\ F[s] = g.dequeued[s]
  BY FilledProperties
<1>4. /\ c \in Nat
      /\ \A i, j \in fresh(g) : slotOf(g, i) = slotOf(g, j) => i = j
      /\ \A k \in DOMAIN g.emptyIndices :
            k > m - c => \E i \in fresh(g) : slotOf(g, i) = g.emptyIndices[k]
      /\ \A i \in fresh(g) :
            \/ \E k \in DOMAIN g.emptyIndices : k > m - c /\ slotOf(g, i) = g.emptyIndices[k]
            \/ slotOf(g, i) \notin DOMAIN g.dequeued
  <2>1. /\ c \in Nat
        /\ \A i, j \in fresh(g) : slotOf(g, i) = slotOf(g, j) => i = j
        /\ \A k \in DOMAIN g.emptyIndices :
              k > m - c => \E i \in fresh(g) : slotOf(g, i) = g.emptyIndices[k]
        /\ \A i \in fresh(g) :
              \/ \E k \in DOMAIN g.emptyIndices : k > m - c /\ slotOf(g, i) = g.emptyIndices[k]
              \/ slotOf(g, i) \in Len(g.dequeued) + 1..Len(g.dequeued) + c - m
    BY <1>0, SlotProperties
  <2>2. \A s \in Len(g.dequeued) + 1..Len(g.dequeued) + c - m : s \notin DOMAIN g.dequeued
    BY <1>0, <2>1, StateFields
  <2> HIDE DEF c, m
  <2> QED BY <2>1, <2>2
<1>5. /\ R \in Seq(Nat)
      /\ \A k : k \in DOMAIN R <=> k \in DOMAIN g.emptyIndices /\ k <= m - c
      /\ \A k \in DOMAIN R : R[k] = g.emptyIndices[k]
  BY <1>0, <1>4, RemainingProperties
<1>6. /\ P \in Seq(Proposal) /\ DOMAIN P = DOMAIN g.proposals
      /\ \A id \in DOMAIN P : exists(g.proposals[id]) => exists(P[id])
      /\ \A id \in DOMAIN P : ~exists(g.proposals[id]) => ~exists(P[id])
  BY RestampProperties
<1>7. h = [g EXCEPT !.queue = q, !.dequeued = F, !.emptyIndices = R, !.proposals = P,
                    !.lastDequeue = now]
  BY DEF dequeueProposalsIfReady
<1>8. \A k \in DOMAIN g.emptyIndices : k \in Int /\ m \in Int /\ c \in Int
  BY <1>0, <1>4, StateFields
<1> HIDE DEF n, q, F, R, P, h, m, c
<1>9. /\ h \in GovState
      /\ h.queue = q /\ h.dequeued = F /\ h.emptyIndices = R /\ h.proposals = P
  BY <1>0, <1>2, <1>3, <1>5, <1>6, <1>7 DEF GovState, Element, Ready
<1>10. SlotsConsistentIn(h)
  <2>1. \A j, k \in DOMAIN R : R[j] = R[k] => j = k
    BY <1>0, <1>5 DEF SlotsConsistentIn
  <2>2. \A k \in DOMAIN R : R[k] \in DOMAIN F
    BY <1>0, <1>3, <1>5 DEF SlotsConsistentIn
  <2>3. ASSUME NEW s \in DOMAIN F, F[s] = 0
        PROVE  \E k \in DOMAIN R : R[k] = s
    <3>1. \A i \in fresh(g) : g.queue[i].key # 0
      <4>1. \A i \in fresh(g) : g.queue[i].key \in DOMAIN g.proposals
        BY <1>0, <1>1 DEF InOnePlaceIn
      <4>2. DOMAIN g.proposals = 1..Len(g.proposals)
        BY <1>0, StateFields
      <4> QED BY <4>1, <4>2
    <3>2. /\ \A i \in fresh(g) : slotOf(g, i) # s
          /\ s \in DOMAIN g.dequeued /\ g.dequeued[s] = 0
      BY <1>3, <2>3, <3>1
    <3>3. PICK k \in DOMAIN g.emptyIndices : g.emptyIndices[k] = s
      BY <1>0, <3>2 DEF SlotsConsistentIn
    <3>4. ~(k > m - c)
      BY <1>4, <3>2, <3>3
    <3>5. k \in DOMAIN R
      BY <1>5, <1>8, <3>4
    <3> QED BY <1>5, <3>3, <3>5
  <2>4. ASSUME NEW k \in DOMAIN R PROVE F[R[k]] = 0
    <3>1. k \in DOMAIN g.emptyIndices /\ k <= m - c /\ R[k] = g.emptyIndices[k]
      BY <1>5
    <3>2. R[k] \in DOMAIN g.dequeued /\ g.dequeued[R[k]] = 0
      BY <1>0, <3>1 DEF SlotsConsistentIn
    <3>3. ASSUME NEW i \in fresh(g) PROVE slotOf(g, i) # R[k]
      <4> SUFFICES ASSUME slotOf(g, i) = R[k] PROVE FALSE
        OBVIOUS
      <4>1. PICK j \in DOMAIN g.emptyIndices : j > m - c /\ g.emptyIndices[j] = R[k]
        BY <1>4, <3>2
      <4>2. j = k
        BY <1>0, <3>1, <4>1 DEF SlotsConsistentIn
      <4> QED BY <1>8, <3>1, <4>1, <4>2
    <3> QED BY <1>3, <2>2, <3>2, <3>3
  <2> QED BY <1>9, <2>1, <2>2, <2>3, <2>4 DEF SlotsConsistentIn
<1>11. InOnePlaceIn(h)
  <2>1. \A i, j \in DOMAIN q : q[i].key = q[j].key => i = j
    <3> SUFFICES ASSUME NEW i \in DOMAIN q, NEW j \in DOMAIN q, q[i].key = q[j].key
                 PROVE  i = j
      OBVIOUS
    <3>1. n + i = n + j
      BY <1>0, <1>2 DEF InOnePlaceIn
    <3> QED BY <1>1, <1>2, <3>1
  <2>2. ASSUME NEW s \in DOMAIN F, NEW t \in DOMAIN F, F[s] = F[t], F[s] # 0
        PROVE  s = t
    <3>1. CASE \E i \in fresh(g) : slotOf(g, i) = s
      <4>1. PICK i \in fresh(g) : slotOf(g, i) = s
        BY <3>1
      <4>2. CASE \E j \in fresh(g) : slotOf(g, j) = t
        BY <1>0, <1>1, <1>3, <2>2, <4>1, <4>2, SMTT(30) DEF InOnePlaceIn
      <4>3. CASE t \in DOMAIN g.dequeued /\ F[t] = g.dequeued[t]
        BY <1>0, <1>1, <1>3, <2>2, <4>1, <4>3, SMTT(30) DEF InOnePlaceIn
      <4> QED BY <1>3, <4>2, <4>3
    <3>2. CASE s \in DOMAIN g.dequeued /\ F[s] = g.dequeued[s]
      <4>1. CASE \E j \in fresh(g) : slotOf(g, j) = t
        <5>1. PICK j \in fresh(g) : slotOf(g, j) = t
          BY <4>1
        <5>2. g.queue[j].key = g.dequeued[s]
          BY <1>3, <2>2, <3>2, <5>1
        <5> QED BY <1>0, <1>1, <3>2, <5>1, <5>2 DEF InOnePlaceIn
      <4>2. CASE t \in DOMAIN g.dequeued /\ F[t] = g.dequeued[t]
        BY <1>0, <2>2, <3>2, <4>2 DEF InOnePlaceIn
      <4> QED BY <1>3, <4>1, <4>2
    <3> QED BY <1>3, <3>1, <3>2
  <2>3. ASSUME NEW i \in DOMAIN q, NEW s \in DOMAIN F PROVE q[i].key # F[s]
    <3>1. CASE \E j \in fresh(g) : slotOf(g, j) = s
      <4>1. PICK j \in fresh(g) : slotOf(g, j) = s
        BY <3>1
      <4>2. j # n + i
        BY <1>1, <1>2
      <4>3. n + i \in DOMAIN g.queue /\ j \in DOMAIN g.queue /\ q[i] = g.queue[n + i]
        BY <1>1, <1>2
      <4>4. g.queue[n + i].key # g.queue[j].key
        BY <1>0, <4>2, <4>3 DEF InOnePlaceIn
      <4> QED BY <1>3, <4>1, <4>3, <4>4
    <3>2. CASE s \in DOMAIN g.dequeued /\ F[s] = g.dequeued[s]
      BY <1>0, <1>2, <3>2 DEF InOnePlaceIn
    <3> QED BY <1>3, <3>1, <3>2
  <2>4. ASSUME NEW i \in DOMAIN q PROVE q[i].key \in DOMAIN P /\ exists(P[q[i].key])
    <3>1. n + i \in DOMAIN g.queue /\ q[i] = g.queue[n + i]
      BY <1>1, <1>2
    <3>2. q[i].key \in DOMAIN g.proposals /\ exists(g.proposals[q[i].key])
      BY <1>0, <3>1 DEF InOnePlaceIn
    <3> QED BY <1>6, <3>2
  <2>5. ASSUME NEW s \in DOMAIN F, F[s] # 0 PROVE F[s] \in DOMAIN P /\ exists(P[F[s]])
    <3>1. F[s] \in DOMAIN g.proposals /\ exists(g.proposals[F[s]])
      <4>1. CASE \E i \in fresh(g) : slotOf(g, i) = s
        <5>1. PICK i \in fresh(g) : slotOf(g, i) = s
          BY <4>1
        <5>2. F[s] = g.queue[i].key /\ i \in DOMAIN g.queue
          BY <1>1, <1>3, <5>1
        <5> QED BY <1>0, <5>2 DEF InOnePlaceIn
      <4>2. CASE s \in DOMAIN g.dequeued /\ F[s] = g.dequeued[s]
        BY <1>0, <2>5, <4>2 DEF InOnePlaceIn
      <4> QED BY <1>3, <4>1, <4>2
    <3> QED BY <1>6, <3>1
  <2> QED BY <1>9, <2>1, <2>2, <2>3, <2>4, <2>5 DEF InOnePlaceIn
<1>12. \A id \in executed : id \in DOMAIN h.proposals /\ ~exists(h.proposals[id])
  BY <1>6, <1>9 DEF Sound
<1> QED BY <1>9, <1>10, <1>11, <1>12 DEF Sound

-----------------------------------------------------------------------------
(***************************************************************************)
(* The other ways the proposals, the queue and the slots change            *)
(***************************************************************************)

\* A new queue with the same proposals, or fewer.
LEMMA QueueChange ==
    ASSUME NEW g, Sound(g), NEW q \in Seq(Element), DistinctKeys(q),
           KeySet(q) \subseteq KeySet(g.queue)
    PROVE  Sound([g EXCEPT !.queue = q])
<1> DEFINE h == [g EXCEPT !.queue = q]
<1>0. g \in GovState /\ SlotsConsistentIn(g) /\ InOnePlaceIn(g)
  BY DEF Sound
<1>1. /\ h \in GovState /\ h.queue = q /\ h.dequeued = g.dequeued
      /\ h.emptyIndices = g.emptyIndices /\ h.proposals = g.proposals
  BY <1>0 DEF GovState, Element
<1> HIDE DEF h
<1>2. SlotsConsistentIn(h)
  BY <1>0, <1>1 DEF SlotsConsistentIn
<1>3. \A i \in DOMAIN q : \E j \in DOMAIN g.queue : g.queue[j].key = q[i].key
  BY DEF KeySet
<1>4. \A i, j \in DOMAIN q : q[i].key = q[j].key => i = j
  BY DEF DistinctKeys
<1>5. \A i \in DOMAIN q, j \in DOMAIN g.dequeued : q[i].key # g.dequeued[j]
  <2>1. \A i \in DOMAIN g.queue, j \in DOMAIN g.dequeued : g.queue[i].key # g.dequeued[j]
    BY <1>0 DEF InOnePlaceIn
  <2> QED BY <1>3, <2>1
<1>6. \A i \in DOMAIN q : q[i].key \in DOMAIN g.proposals /\ exists(g.proposals[q[i].key])
  <2>1. \A i \in DOMAIN g.queue : /\ g.queue[i].key \in DOMAIN g.proposals
                                  /\ exists(g.proposals[g.queue[i].key])
    BY <1>0 DEF InOnePlaceIn
  <2> QED BY <1>3, <2>1
<1>7. /\ \A i, j \in DOMAIN g.dequeued :
            g.dequeued[i] = g.dequeued[j] /\ g.dequeued[i] # 0 => i = j
      /\ \A i \in DOMAIN g.dequeued : g.dequeued[i] # 0 =>
            g.dequeued[i] \in DOMAIN g.proposals /\ exists(g.proposals[g.dequeued[i]])
  BY <1>0 DEF InOnePlaceIn
<1>8. InOnePlaceIn(h)
  BY <1>1, <1>4, <1>5, <1>6, <1>7, ZenonT(30) DEF InOnePlaceIn
<1> QED BY <1>1, <1>2, <1>8 DEF Sound, h

\* removeIfQueuedAndExpired takes the proposal out of the queue at most.
LEMMA RemoveExpiredSound ==
    ASSUME NEW g, Sound(g), NEW id
    PROVE  Sound(removeIfQueuedAndExpired(g, id))
<1>0. g.queue \in Seq(Element) /\ DistinctKeys(g.queue)
  BY StateFields DEF Sound, InOnePlaceIn, DistinctKeys
<1>1. CASE isQueuedAndExpired(g, id)
  <2>1. id \in KeySet(g.queue)
    BY <1>1 DEF isQueuedAndExpired, inQueue
  <2>2. /\ Without(g.queue, id) \in Seq(Element) /\ DistinctKeys(Without(g.queue, id))
        /\ KeySet(Without(g.queue, id)) \subseteq KeySet(g.queue)
    BY <1>0, <2>1, WithoutProperties
  <2>3. Sound([g EXCEPT !.queue = Without(g.queue, id)])
    BY <2>2, QueueChange
  <2> QED BY <1>1, <2>3 DEF removeIfQueuedAndExpired
<1>2. CASE ~isQueuedAndExpired(g, id)
  BY <1>2 DEF removeIfQueuedAndExpired
<1> QED BY <1>1, <1>2

\* A change of the upvotes of a queued proposal moves it within the queue.
LEMMA UpdateUpvotesSound ==
    ASSUME NEW g, Sound(g), NEW id \in KeySet(g.queue), NEW v \in Nat,
           NEW q \in Placements(Without(g.queue, id), id, v)
    PROVE  Sound([g EXCEPT !.queue = q])
<1>0. g.queue \in Seq(Element) /\ DistinctKeys(g.queue)
  BY StateFields DEF Sound, InOnePlaceIn, DistinctKeys
<1>1. id \in Nat
  <2>1. \A i \in 1..Len(g.queue) : g.queue[i] \in Element
    BY <1>0, ElementOfSeq
  <2> QED BY <1>0, <2>1, KeySetElements DEF Element
<1> DEFINE w == Without(g.queue, id)
<1>2. w \in Seq(Element) /\ DistinctKeys(w) /\ KeySet(w) = KeySet(g.queue) \ {id}
  BY <1>0, WithoutProperties
<1> HIDE DEF w
<1>3. q \in Seq(Element) /\ DistinctKeys(q) /\ KeySet(q) = KeySet(w) \cup {id}
  <2>1. [key |-> id, value |-> v] \in Element
    BY <1>1 DEF Element
  <2>2. q \in Placements(w, id, v) /\ id \notin KeySet(w)
    BY <1>2 DEF w
  <2> QED BY <1>2, <2>1, <2>2, PlacementsProperties
<1>4. KeySet(q) \subseteq KeySet(g.queue)
  BY <1>2, <1>3
<1> QED BY <1>3, <1>4, QueueChange

\* A change of what a proposal records, but for its existence.
LEMMA ProposalChange ==
    ASSUME NEW g, Sound(g), NEW id \in DOMAIN g.proposals, exists(g.proposals[id]),
           NEW p \in Proposal, exists(p)
    PROVE  Sound([g EXCEPT !.proposals[id] = p])
<1> DEFINE h == [g EXCEPT !.proposals[id] = p]
           P == [g.proposals EXCEPT ![id] = p]
<1>0. g \in GovState /\ SlotsConsistentIn(g) /\ InOnePlaceIn(g)
  BY DEF Sound
<1>1. /\ P \in Seq(Proposal) /\ DOMAIN P = DOMAIN g.proposals
      /\ \A i \in DOMAIN P : P[i] = IF i = id THEN p ELSE g.proposals[i]
  BY <1>0, StateFields, ExceptSeq
<1>2. /\ h \in GovState /\ h.queue = g.queue /\ h.dequeued = g.dequeued
      /\ h.emptyIndices = g.emptyIndices /\ h.proposals = P
  <2>1. h = [g EXCEPT !.proposals = P]
    OBVIOUS
  <2> HIDE DEF h, P
  <2> QED BY <1>0, <1>1, <2>1 DEF GovState
<1> HIDE DEF h, P
<1>3. SlotsConsistentIn(h)
  BY <1>0, <1>2 DEF SlotsConsistentIn
<1>4. \A i \in DOMAIN P : exists(P[i]) <=> exists(g.proposals[i])
  BY <1>1
<1>5. InOnePlaceIn(h)
  <2>1. \A i \in DOMAIN g.queue : /\ g.queue[i].key \in DOMAIN P
                                  /\ exists(P[g.queue[i].key])
    BY <1>0, <1>1, <1>4 DEF InOnePlaceIn
  <2>2. \A i \in DOMAIN g.dequeued : g.dequeued[i] # 0 =>
           g.dequeued[i] \in DOMAIN P /\ exists(P[g.dequeued[i]])
    BY <1>0, <1>1, <1>4 DEF InOnePlaceIn
  <2>3. /\ \A i, j \in DOMAIN g.queue : g.queue[i].key = g.queue[j].key => i = j
        /\ \A i, j \in DOMAIN g.dequeued :
              g.dequeued[i] = g.dequeued[j] /\ g.dequeued[i] # 0 => i = j
        /\ \A i \in DOMAIN g.queue, j \in DOMAIN g.dequeued : g.queue[i].key # g.dequeued[j]
    BY <1>0 DEF InOnePlaceIn
  <2> QED BY <1>2, <2>1, <2>2, <2>3 DEF InOnePlaceIn
<1>6. \A i \in executed : i \in DOMAIN h.proposals /\ ~exists(h.proposals[i])
  BY <1>1, <1>2, <1>4 DEF Sound
<1> QED BY <1>2, <1>3, <1>5, <1>6 DEF Sound, h

\* A new proposal goes to the queue, under an ID that was never used.
LEMMA ProposeSound ==
    ASSUME NEW g, Sound(g), NEW p \in Proposal, exists(p)
    PROVE  Sound([g EXCEPT !.proposals = Append(g.proposals, p),
                           !.queue = Append(g.queue, [key |-> Len(g.proposals) + 1, value |-> 0])])
<1> DEFINE l == Len(g.proposals)
           e == [key |-> l + 1, value |-> 0]
           P == Append(g.proposals, p)
           q == Append(g.queue, e)
           n == Len(g.queue)
           h == [g EXCEPT !.proposals = P, !.queue = q]
<1>0. g \in GovState /\ SlotsConsistentIn(g) /\ InOnePlaceIn(g)
  BY DEF Sound
<1>1. /\ l \in Nat /\ n \in Nat /\ DOMAIN g.proposals = 1..l /\ DOMAIN g.queue = 1..n
      /\ g.proposals \in Seq(Proposal) /\ g.queue \in Seq(Element)
  BY <1>0, StateFields
<1>2. e \in Element /\ e.key = l + 1
  BY <1>1 DEF Element
<1> HIDE DEF e
<1>3. /\ P \in Seq(Proposal) /\ DOMAIN P = 1..l + 1
      /\ \A i \in 1..l : P[i] = g.proposals[i]
      /\ P[l + 1] = p
  BY <1>1, AppendProperties, LenProperties
<1>4. /\ q \in Seq(Element) /\ DOMAIN q = 1..n + 1
      /\ \A i \in 1..n : q[i] = g.queue[i]
      /\ q[n + 1] = e
  BY <1>1, <1>2, AppendProperties, LenProperties
<1> HIDE DEF l, n, P, q
<1>5. /\ h \in GovState /\ h.queue = q /\ h.dequeued = g.dequeued
      /\ h.emptyIndices = g.emptyIndices /\ h.proposals = P
  BY <1>0, <1>3, <1>4 DEF GovState, Element
<1> HIDE DEF h
<1>6. SlotsConsistentIn(h)
  BY <1>0, <1>5 DEF SlotsConsistentIn
<1>7. \A i \in 1..n : /\ g.queue[i].key \in 1..l /\ g.queue[i].key # l + 1
                      /\ exists(g.proposals[g.queue[i].key])
  <2>1. \A i \in DOMAIN g.queue : /\ g.queue[i].key \in DOMAIN g.proposals
                                  /\ exists(g.proposals[g.queue[i].key])
    BY <1>0 DEF InOnePlaceIn
  <2>2. \A k \in 1..l : k # l + 1
    BY <1>1
  <2> QED BY <1>1, <2>1, <2>2
<1>8. \A i \in DOMAIN g.dequeued : g.dequeued[i] # l + 1
  <2>1. \A i \in DOMAIN g.dequeued : g.dequeued[i] # 0 => g.dequeued[i] \in 1..l
    BY <1>0, <1>1 DEF InOnePlaceIn
  <2> QED BY <1>1, <2>1
<1>9. InOnePlaceIn(h)
  <2>1. \A i \in 1..n + 1 : i \in 1..n \/ i = n + 1
    BY <1>1
  <2>2. \A i, j \in DOMAIN q : q[i].key = q[j].key => i = j
    BY <1>0, <1>1, <1>2, <1>4, <1>7, <2>1, ZenonT(30) DEF InOnePlaceIn
  <2>3. \A i \in DOMAIN q, j \in DOMAIN g.dequeued : q[i].key # g.dequeued[j]
    BY <1>0, <1>1, <1>2, <1>4, <1>8, <2>1 DEF InOnePlaceIn
  <2>4. \A i \in 1..l : i \in DOMAIN P
    BY <1>1, <1>3
  <2>5. l + 1 \in DOMAIN P
    BY <1>1, <1>3
  <2>6. \A i \in DOMAIN q : q[i].key \in DOMAIN P /\ exists(P[q[i].key])
    <3> SUFFICES ASSUME NEW i \in DOMAIN q PROVE q[i].key \in DOMAIN P /\ exists(P[q[i].key])
      OBVIOUS
    <3>1. CASE i \in 1..n
      BY <1>3, <1>4, <1>7, <2>4, <3>1
    <3>2. CASE i = n + 1
      BY <1>2, <1>3, <1>4, <2>5, <3>2
    <3> QED BY <1>4, <2>1, <3>1, <3>2
  <2>7. \A i \in DOMAIN g.dequeued :
           g.dequeued[i] # 0 => g.dequeued[i] \in DOMAIN P /\ exists(P[g.dequeued[i]])
    BY <1>0, <1>1, <1>3, <2>4 DEF InOnePlaceIn
  <2>8. \A i, j \in DOMAIN g.dequeued :
           g.dequeued[i] = g.dequeued[j] /\ g.dequeued[i] # 0 => i = j
    BY <1>0 DEF InOnePlaceIn
  <2> QED BY <1>5, <2>2, <2>3, <2>6, <2>7, <2>8 DEF InOnePlaceIn
<1>10. \A i \in executed : i \in DOMAIN h.proposals /\ ~exists(h.proposals[i])
  <2>1. \A i \in executed : i \in 1..l /\ ~exists(g.proposals[i])
    BY <1>1 DEF Sound
  <2>2. \A i \in 1..l : i \in DOMAIN P
    BY <1>1, <1>3
  <2> QED BY <1>3, <1>5, <2>1, <2>2
<1>11. Sound(h)
  BY <1>5, <1>6, <1>9, <1>10 DEF Sound
<1> QED BY <1>11 DEF h, P, q, e, l

\* Deleting a dequeued proposal frees its slot.
LEMMA DeleteSound ==
    ASSUME NEW g, Sound(g), NEW id, NEW index, isDequeuedProposal(g, id, index)
    PROVE  /\ Sound(deleteDequeuedProposal(g, id, index))
           /\ id \in DOMAIN deleteDequeuedProposal(g, id, index).proposals
           /\ ~exists(deleteDequeuedProposal(g, id, index).proposals[id])
<1> DEFINE h == deleteDequeuedProposal(g, id, index)
           D == [g.dequeued EXCEPT ![index] = 0]
           P == [g.proposals EXCEPT ![id] = NoProposal]
           E == Append(g.emptyIndices, index)
           n == Len(g.emptyIndices)
<1>0. g \in GovState /\ SlotsConsistentIn(g) /\ InOnePlaceIn(g)
  BY DEF Sound
<1>1. /\ id \in DOMAIN g.proposals /\ index \in DOMAIN g.dequeued
      /\ g.dequeued[index] = id /\ exists(g.proposals[id])
  BY DEF isDequeuedProposal
<1>2. /\ NoProposal \in Proposal /\ ~exists(NoProposal)
  BY DEF NoProposal, Proposal, exists
<1>3. /\ P \in Seq(Proposal) /\ DOMAIN P = DOMAIN g.proposals
      /\ \A i \in DOMAIN P : P[i] = IF i = id THEN NoProposal ELSE g.proposals[i]
  BY <1>0, <1>1, <1>2, StateFields, ExceptSeq
<1>4. /\ D \in Seq(Nat) /\ DOMAIN D = DOMAIN g.dequeued
      /\ \A i \in DOMAIN D : D[i] = IF i = index THEN 0 ELSE g.dequeued[i]
  BY <1>0, <1>1, StateFields, ExceptSeq
<1>5. /\ n \in Nat /\ DOMAIN g.emptyIndices = 1..n /\ index \in Nat
      /\ g.emptyIndices \in Seq(Nat) /\ DOMAIN g.proposals = 1..Len(g.proposals)
  BY <1>0, <1>1, StateFields
<1>6. /\ E \in Seq(Nat) /\ DOMAIN E = 1..n + 1
      /\ \A k \in 1..n : E[k] = g.emptyIndices[k]
      /\ E[n + 1] = index
  BY <1>5, AppendProperties, LenProperties
<1>7. h = [g EXCEPT !.dequeued = D, !.emptyIndices = E, !.proposals = P]
  BY DEF deleteDequeuedProposal
<1> HIDE DEF h, D, P, E, n
<1>8. /\ h \in GovState /\ h.queue = g.queue /\ h.dequeued = D
      /\ h.emptyIndices = E /\ h.proposals = P
  BY <1>0, <1>3, <1>4, <1>6, <1>7 DEF GovState
<1>9. \A k \in 1..n + 1 : k \in 1..n \/ k = n + 1
  BY <1>5
<1>10. n + 1 \in 1..n + 1 /\ \A k \in 1..n : k \in 1..n + 1
  BY <1>5
<1>11. id # 0
  BY <1>1, <1>5
<1>12. \A k \in 1..n : g.emptyIndices[k] # index
  BY <1>0, <1>1, <1>5, <1>11 DEF SlotsConsistentIn
<1>13. SlotsConsistentIn(h)
  <2>1. \A j, k \in DOMAIN E : E[j] = E[k] => j = k
    BY <1>0, <1>5, <1>6, <1>9, <1>12, SMTT(30) DEF SlotsConsistentIn
  <2>2. \A k \in DOMAIN E : E[k] \in DOMAIN D
    BY <1>0, <1>1, <1>4, <1>5, <1>6, <1>9 DEF SlotsConsistentIn
  <2>3. ASSUME NEW i \in DOMAIN D, D[i] = 0 PROVE \E k \in DOMAIN E : E[k] = i
    <3>1. CASE i = index
      BY <1>6, <1>10, <3>1
    <3>2. CASE i # index
      <4>1. PICK k \in 1..n : g.emptyIndices[k] = i
        BY <1>0, <1>4, <1>5, <2>3, <3>2 DEF SlotsConsistentIn
      <4> QED BY <1>6, <1>10, <4>1
    <3> QED BY <3>1, <3>2
  <2>4. ASSUME NEW k \in DOMAIN E PROVE D[E[k]] = 0
    <3>1. CASE k = n + 1
      BY <1>1, <1>4, <1>6, <3>1
    <3>2. CASE k \in 1..n
      <4>1. g.dequeued[g.emptyIndices[k]] = 0 /\ g.emptyIndices[k] \in DOMAIN g.dequeued
        BY <1>0, <1>5, <3>2 DEF SlotsConsistentIn
      <4>2. E[k] = g.emptyIndices[k] /\ E[k] # index
        BY <1>6, <1>12, <3>2
      <4> QED BY <1>4, <4>1, <4>2
    <3> QED BY <1>6, <1>9, <3>1, <3>2
  <2> QED BY <1>8, <2>1, <2>2, <2>3, <2>4 DEF SlotsConsistentIn
<1>14. InOnePlaceIn(h)
  <2>1. \A i, j \in DOMAIN D : D[i] = D[j] /\ D[i] # 0 => i = j
    BY <1>0, <1>4 DEF InOnePlaceIn
  <2>2. \A i \in DOMAIN g.queue : g.queue[i].key # id /\ g.queue[i].key # 0
    <3>1. /\ \A i \in DOMAIN g.queue : g.queue[i].key \in DOMAIN g.proposals
          /\ \A i \in DOMAIN g.queue, j \in DOMAIN g.dequeued : g.queue[i].key # g.dequeued[j]
      BY <1>0 DEF InOnePlaceIn
    <3>2. 0 \notin DOMAIN g.proposals
      BY <1>5
    <3> QED BY <1>1, <3>1, <3>2
  <2>3. \A i \in DOMAIN g.queue, j \in DOMAIN D : g.queue[i].key # D[j]
    BY <1>0, <1>4, <2>2 DEF InOnePlaceIn
  <2>4. \A i \in DOMAIN g.queue : /\ g.queue[i].key \in DOMAIN P
                                  /\ exists(P[g.queue[i].key])
    BY <1>0, <1>3, <2>2 DEF InOnePlaceIn
  <2>5. ASSUME NEW i \in DOMAIN D, D[i] # 0 PROVE D[i] \in DOMAIN P /\ exists(P[D[i]])
    <3>1. i # index /\ D[i] = g.dequeued[i] /\ i \in DOMAIN g.dequeued
      BY <1>4, <2>5
    <3>2. D[i] # id
      BY <1>0, <1>1, <2>5, <3>1 DEF InOnePlaceIn
    <3>3. D[i] \in DOMAIN g.proposals /\ exists(g.proposals[D[i]])
      BY <1>0, <2>5, <3>1 DEF InOnePlaceIn
    <3> QED BY <1>3, <3>2, <3>3
  <2>6. \A i, j \in DOMAIN g.queue : g.queue[i].key = g.queue[j].key => i = j
    BY <1>0 DEF InOnePlaceIn
  <2> QED BY <1>8, <2>1, <2>3, <2>4, <2>5, <2>6, ZenonT(30) DEF InOnePlaceIn
<1>15. \A i \in executed : i \in DOMAIN P /\ ~exists(P[i])
  BY <1>2, <1>3 DEF Sound
<1>16. id \in DOMAIN P /\ ~exists(P[id])
  BY <1>1, <1>2, <1>3
<1>17. Sound(h)
  BY <1>8, <1>13, <1>14, <1>15 DEF Sound
<1> QED BY <1>8, <1>16, <1>17 DEF h

-----------------------------------------------------------------------------
(***************************************************************************)
(* The invariant and its proof                                             *)
(***************************************************************************)

\* The parameters, the voters' records and the locked gold, as far as the proposals
\* depend on them.
RecordsTyped ==
    /\ Ready /\ DOMAIN params = ParamNames
    /\ upvote \in [Voters -> [proposalId : Nat, weight : Nat]]
    /\ DOMAIN referendumVotes = Voters
    /\ \A a \in Voters : \A i \in DOMAIN referendumVotes[a] :
          referendumVotes[a][i] \in [value : VoteValues, proposalId : Nat, weight : Nat]
    /\ locked \in [Voters -> Nat] /\ totalLocked \in Nat

IInv == Sound(gov) /\ RecordsTyped

\* The invariant holds once initialize has run.
LEMMA InitInvariant == Init => IInv
<1> SUFFICES ASSUME Init PROVE IInv
  OBVIOUS
<1>1. gov \in GovState
  BY GovernanceAssumption DEF Init, GovState
<1>2. /\ DOMAIN gov.queue = {} /\ DOMAIN gov.dequeued = {} /\ DOMAIN gov.emptyIndices = {}
      /\ executed = {}
  BY DEF Init
<1>3. Sound(gov)
  BY <1>1, <1>2 DEF Sound, SlotsConsistentIn, InOnePlaceIn
<1>4. Ready /\ DOMAIN params = ParamNames
  <2>1. "concurrentProposals" \in ParamNames
    BY DEF ParamNames, Counts
  <2> QED BY <2>1, GovernanceAssumption DEF Init, Ready
<1>5. totalLocked \in Nat
  <2>1. Cardinality(Voters) \in Nat
    BY GovernanceAssumption, FS_CardinalityType
  <2> QED BY <2>1, GovernanceAssumption DEF Init
<1>6. /\ upvote \in [Voters -> [proposalId : Nat, weight : Nat]]
      /\ DOMAIN referendumVotes = Voters
      /\ \A a \in Voters : DOMAIN referendumVotes[a] = {}
      /\ locked \in [Voters -> Nat]
  BY GovernanceAssumption DEF Init, NoUpvote
<1> QED BY <1>3, <1>4, <1>5, <1>6 DEF IInv, RecordsTyped

\* A step that leaves the history, the records and the parameters alone preserves the
\* invariant if it leads to proposals that satisfy it.
LEMMA SoundStep ==
    ASSUME IInv, NEW g, Sound(g), gov' = g, executed' = executed, RecordsTyped'
    PROVE  IInv'
BY DEF IInv, Sound

\* RecordsTyped is about the clock, the parameters, the voters and the gold alone.
LEMMA RecordsUnchanged ==
    ASSUME RecordsTyped, UNCHANGED <<now, params, upvote, referendumVotes, locked, totalLocked>>
    PROVE  RecordsTyped'
BY DEF RecordsTyped, Ready

\* Deleting a proposal changes the participation baseline alone, and executing one
\* sets parameters to what its transactions say.
LEMMA ParamsStep ==
    ASSUME RecordsTyped, NEW ps, DOMAIN ps = ParamNames, ps["concurrentProposals"] \in Nat,
           NEW proposal, params' = paramsAfterDelete(ps, proposal),
           UNCHANGED <<now, upvote, referendumVotes, locked, totalLocked>>
    PROVE  RecordsTyped'
<1>1. /\ DOMAIN paramsAfterDelete(ps, proposal) = ParamNames
      /\ paramsAfterDelete(ps, proposal)["concurrentProposals"] = ps["concurrentProposals"]
  <2> DEFINE b == updatedBaseline(ps, proposal)
  <2>1. "concurrentProposals" \in ParamNames /\ "concurrentProposals" # "baseline"
    BY DEF ParamNames, Counts
  <2> HIDE DEF b
  <2>2. /\ DOMAIN [ps EXCEPT !["baseline"] = b] = ParamNames
        /\ [ps EXCEPT !["baseline"] = b]["concurrentProposals"] = ps["concurrentProposals"]
    BY <2>1
  <2> QED BY <2>2 DEF paramsAfterDelete, b
<1> QED BY <1>1 DEF RecordsTyped, Ready

\* The setters of a payload leave a natural number for the size of a batch.
LEMMA ExecuteTransactionsTyped ==
    ASSUME RecordsTyped, NEW txs \in Payloads \cup {<<>>}
    PROVE  /\ DOMAIN executeTransactions(txs) = ParamNames
           /\ executeTransactions(txs)["concurrentProposals"] \in Nat
<1> DEFINE name == "concurrentProposals"
           setters == {j \in DOMAIN txs : txs[j].set = name}
<1>1. name \in ParamNames
  BY DEF ParamNames, Counts
<1>2. executeTransactions(txs)[name] =
         IF setters = {} THEN params[name] ELSE txs[CHOOSE j \in setters : TRUE].to
  BY <1>1 DEF executeTransactions
<1>3. setters # {} => (CHOOSE j \in setters : TRUE) \in DOMAIN txs
  OBVIOUS
<1>4. \A j \in DOMAIN txs : txs[j].to \in Nat
  BY GovernanceAssumption DEF IsPayload
<1>5. params[name] \in Nat
  BY DEF RecordsTyped, Ready
<1> HIDE DEF setters
<1>6. executeTransactions(txs)[name] \in Nat
  BY <1>2, <1>3, <1>4, <1>5
<1> QED BY <1>6 DEF executeTransactions

\* Every operation of Governance.sol, every move of gold and every tick of the clock
\* preserves the invariant.
LEMMA NextInvariant == IInv /\ [Next]_vars => IInv'
<1> SUFFICES ASSUME IInv, [Next]_vars PROVE IInv'
  OBVIOUS
<1> DEFINE g == dequeueProposalsIfReady(gov)
<1>0. Sound(gov) /\ RecordsTyped /\ Ready
  BY DEF IInv, RecordsTyped
<1>g. Sound(g) /\ g \in GovState
  BY <1>0, DequeueSound DEF Sound
<1> HIDE DEF g
<1>1. CASE Tick
  <2>1. RecordsTyped'
    BY <1>0, <1>1 DEF Tick, RecordsTyped, Ready, ruleVars, voterVars, goldVars
  <2> QED BY <1>0, <1>1, <2>1, SoundStep DEF Tick, history
<1>2. CASE Dequeue
  BY <1>0, <1>2, <1>g, SoundStep, RecordsUnchanged
     DEF Dequeue, g, ruleVars, voterVars, goldVars, history
<1>3. ASSUME NEW a \in Proposers, NEW d \in Deposits, NEW txs \in Payloads, Propose(a, d, txs)
      PROVE  IInv'
  <2> DEFINE new == make(a, d, txs)
             q == Append(g.queue, [key |-> Len(g.proposals) + 1, value |-> 0])
             P == Append(g.proposals, new)
  <2>1. new \in Proposal /\ exists(new)
    <3>1. d \in Nat /\ now \in Nat /\ now > 0
      BY <1>0, GovernanceAssumption DEF Ready
    <3> DEFINE noVotes == [v \in VoteValues |-> 0]
    <3>2. noVotes \in [VoteValues -> Nat]
      OBVIOUS
    <3>3. new = [proposer |-> a, deposit |-> d, timestamp |-> now, approved |-> FALSE,
                 votes |-> noVotes, networkWeight |-> 0, transactions |-> txs]
      BY DEF make
    <3> HIDE DEF noVotes, new
    <3> QED BY <3>1, <3>2, <3>3 DEF exists, Proposal
  <2> HIDE DEF new
  <2>2. Sound([g EXCEPT !.proposals = P, !.queue = q])
    BY <1>g, <2>1, ProposeSound
  <2>3. gov' = [g EXCEPT !.proposals = P, !.queue = q]
    BY <1>3 DEF Propose, g, new
  <2> QED BY <1>0, <1>3, <2>2, <2>3, SoundStep, RecordsUnchanged
          DEF Propose, ruleVars, voterVars, goldVars, history
<1>4. ASSUME NEW id, UpvoteExpired(id) PROVE IInv'
  <2>1. Sound(removeIfQueuedAndExpired(g, id))
    BY <1>g, RemoveExpiredSound
  <2> QED BY <1>0, <1>4, <2>1, SoundStep, RecordsUnchanged
          DEF UpvoteExpired, g, ruleVars, voterVars, goldVars, history
<1>5. ASSUME NEW id, NEW a \in Voters, Upvote(a, id) PROVE IInv'
  <2> DEFINE h == removeIfQueuedAndExpired(g, upvote[a].proposalId)
             v == getValue(h.queue, id) + locked[a]
  <2>1. Sound(h)
    BY <1>g, RemoveExpiredSound
  <2>2. /\ id \in KeySet(h.queue)
        /\ \E q \in Placements(Without(h.queue, id), id, v) : gov' = [h EXCEPT !.queue = q]
    BY <1>5 DEF Upvote, inQueue, g
  <2> HIDE DEF h
  <2>3. h.queue \in Seq(Element)
    BY <2>1, StateFields DEF Sound
  <2>4. id \in Nat /\ v \in Nat
    <3>1. Position(h.queue, id) \in 1..Len(h.queue)
      BY <2>2, <2>3 DEF KeySet, Position
    <3>2. \A i \in 1..Len(h.queue) : h.queue[i].key \in Nat /\ h.queue[i].value \in Nat
      <4>1. \A i \in 1..Len(h.queue) : h.queue[i] \in Element
        BY <2>3, ElementOfSeq
      <4> QED BY <4>1 DEF Element
    <3>3. id \in Nat
      BY <2>2, <2>3, <3>2, KeySetElements
    <3> QED BY <1>0, <3>1, <3>2, <3>3 DEF getValue, RecordsTyped
  <2>5. PICK q \in Placements(Without(h.queue, id), id, v) : gov' = [h EXCEPT !.queue = q]
    BY <2>2
  <2> HIDE DEF v
  <2>6. Sound([h EXCEPT !.queue = q])
    BY <2>1, <2>2, <2>4, <2>5, UpdateUpvotesSound
  <2>7. RecordsTyped'
    BY <1>0, <1>5, <2>4 DEF Upvote, RecordsTyped, Ready, ruleVars, goldVars
  <2>8. executed' = executed
    BY <1>5 DEF Upvote, history
  <2> QED BY <2>5, <2>6, <2>7, <2>8, SoundStep
<1>6. ASSUME NEW a \in Voters, RevokeUpvote(a) PROVE IInv'
  <2> DEFINE id == upvote[a].proposalId
             weight == upvote[a].weight
             h == removeIfQueuedAndExpired(g, id)
  <2>1. Sound(h)
    BY <1>g, RemoveExpiredSound
  <2>2. \/ /\ id \in KeySet(h.queue)
           /\ getValue(h.queue, id) >= weight
           /\ \E q \in Placements(Without(h.queue, id), id, getValue(h.queue, id) - weight) :
                 gov' = [h EXCEPT !.queue = q]
        \/ gov' = h
    BY <1>6 DEF RevokeUpvote, inQueue, g
  <2>3. RecordsTyped' /\ executed' = executed
    BY <1>0, <1>6 DEF RevokeUpvote, RecordsTyped, Ready, NoUpvote, ruleVars, goldVars, history
  <2>4. weight \in Nat
    BY <1>0 DEF RecordsTyped
  <2> HIDE DEF h, id, weight
  <2>5. CASE gov' = h
    BY <2>1, <2>3, <2>5, SoundStep
  <2>6. CASE gov' # h
    <3>1. h.queue \in Seq(Element)
      BY <2>1, StateFields DEF Sound
    <3>2. getValue(h.queue, id) - weight \in Nat
      <4>1. Position(h.queue, id) \in 1..Len(h.queue)
        BY <2>2, <2>6, <3>1 DEF KeySet, Position
      <4>2. \A i \in 1..Len(h.queue) : h.queue[i].value \in Nat
        <5>1. \A i \in 1..Len(h.queue) : h.queue[i] \in Element
          BY <3>1, ElementOfSeq
        <5> QED BY <5>1 DEF Element
      <4>3. getValue(h.queue, id) \in Nat
        BY <4>1, <4>2 DEF getValue
      <4> QED BY <2>2, <2>4, <2>6, <4>3
    <3> DEFINE v == getValue(h.queue, id) - weight
    <3> HIDE DEF v
    <3>3. PICK q \in Placements(Without(h.queue, id), id, v) : gov' = [h EXCEPT !.queue = q]
      BY <2>2, <2>6 DEF v
    <3>4. v \in Nat /\ id \in KeySet(h.queue)
      BY <2>2, <2>6, <3>2 DEF v
    <3>5. Sound([h EXCEPT !.queue = q])
      BY <2>1, <3>4, UpdateUpvotesSound
    <3> QED BY <2>3, <3>3, <3>5, SoundStep
  <2> QED BY <2>5, <2>6
<1>7. ASSUME NEW id, NEW index, DeleteExpired(id, index) PROVE IInv'
  <2>1. Sound(deleteDequeuedProposal(g, id, index))
    BY <1>7, <1>g, DeleteSound DEF DeleteExpired, g
  <2>2. RecordsTyped'
    BY <1>0, <1>7, ParamsStep DEF DeleteExpired, RecordsTyped, Ready, voterVars, goldVars
  <2> QED BY <1>7, <2>1, <2>2, SoundStep DEF DeleteExpired, g, history
<1>8. ASSUME NEW id, NEW index, isDequeuedProposal(g, id, index)
      PROVE  id \in DOMAIN g.proposals /\ id # 0 /\ g.proposals[id] \in Proposal
             /\ exists(g.proposals[id])
  BY <1>8, <1>g, StateFields, ElementOfSeq DEF isDequeuedProposal
<1>9. ASSUME NEW id, NEW index, Approve(id, index) PROVE IInv'
  <2> DEFINE p == [g.proposals[id] EXCEPT !.approved = TRUE, !.networkWeight = totalLocked]
  <2>1. /\ id \in DOMAIN g.proposals /\ g.proposals[id] \in Proposal
        /\ exists(g.proposals[id])
    BY <1>8, <1>9 DEF Approve, g
  <2>2. p \in Proposal /\ exists(p)
    BY <1>0, <2>1 DEF Proposal, exists, RecordsTyped
  <2>3. gov' = [g EXCEPT !.proposals[id] = p]
    <3>1. gov' = [g EXCEPT !.proposals[id].approved = TRUE,
                           !.proposals[id].networkWeight = totalLocked]
      BY <1>9 DEF Approve, g
    <3> QED BY <1>g, <2>1, <3>1 DEF GovState, Proposal
  <2> HIDE DEF p
  <2>4. Sound([g EXCEPT !.proposals[id] = p])
    BY <1>g, <2>1, <2>2, ProposalChange
  <2> QED BY <1>0, <1>9, <2>3, <2>4, SoundStep, RecordsUnchanged
          DEF Approve, ruleVars, voterVars, goldVars, history
<1>10. ASSUME NEW id, NEW index, NEW a \in Voters, NEW value \in VoteValues,
              Vote(a, id, index, value)
       PROVE  IInv'
  <2> DEFINE record == voteRecord(a, index)
             previous == IF record.proposalId = id THEN record.value ELSE "None"
             votes == updateVote(g.proposals[id].votes, record.weight, locked[a], previous, value)
             p == [g.proposals[id] EXCEPT !.votes = votes, !.networkWeight = totalLocked]
  <2>1. /\ id \in DOMAIN g.proposals /\ id # 0 /\ g.proposals[id] \in Proposal
        /\ exists(g.proposals[id])
    BY <1>8, <1>10 DEF Vote, g
  <2>2. previous # "None" =>
           previous \in VoteValues /\ g.proposals[id].votes[previous] >= record.weight
    <3>1. previous # "None" => previous \in VoteValues
      BY <1>0, <2>1 DEF voteRecord, NoVote, RecordsTyped
    <3> QED BY <1>10, <3>1 DEF Vote, previousValue, g
  <2>3. record.weight \in Nat /\ locked[a] \in Nat
    BY <1>0 DEF voteRecord, NoVote, RecordsTyped
  <2>4. votes \in [VoteValues -> Nat]
    <3>1. g.proposals[id].votes \in [VoteValues -> Nat]
      BY <2>1 DEF Proposal
    <3> HIDE DEF record, previous
    <3> QED BY <2>2, <2>3, <3>1 DEF updateVote
  <2>5. gov' = [g EXCEPT !.proposals[id] = p]
    <3>1. gov' = [g EXCEPT !.proposals[id].votes = votes,
                           !.proposals[id].networkWeight = totalLocked]
      BY <1>10 DEF Vote, previousValue, g
    <3> HIDE DEF votes
    <3> QED BY <1>g, <2>1, <3>1 DEF GovState, Proposal
  <2> HIDE DEF votes, record, previous
  <2>6. p \in Proposal /\ exists(p)
    BY <1>0, <2>1, <2>4 DEF Proposal, exists, RecordsTyped
  <2> HIDE DEF p
  <2>7. Sound([g EXCEPT !.proposals[id] = p])
    BY <1>g, <2>1, <2>6, ProposalChange
  <2>8. RecordsTyped'
    <3>1. id \in Nat
      BY <1>g, <2>1, StateFields
    <3>2. referendumVotes' = [referendumVotes EXCEPT ![a] =
             [i \in DOMAIN referendumVotes[a] \cup {index} |->
                IF i = index THEN [value |-> value, proposalId |-> id, weight |-> locked[a]]
                             ELSE referendumVotes[a][i]]]
      BY <1>10 DEF Vote
    <3>3. /\ DOMAIN referendumVotes' = Voters
          /\ \A b \in Voters : \A i \in DOMAIN referendumVotes'[b] :
                referendumVotes'[b][i] \in [value : VoteValues, proposalId : Nat, weight : Nat]
      BY <1>0, <2>3, <3>1, <3>2 DEF RecordsTyped
    <3> QED BY <1>0, <1>10, <3>3 DEF Vote, RecordsTyped, Ready, ruleVars, goldVars
  <2>9. executed' = executed
    BY <1>10 DEF Vote, history
  <2> QED BY <2>5, <2>7, <2>8, <2>9, SoundStep
<1>11. ASSUME NEW id, NEW index, Execute(id, index) PROVE IInv'
  <2> DEFINE h == deleteDequeuedProposal(g, id, index)
  <2>1. isDequeuedProposal(g, id, index)
    BY <1>11 DEF Execute, g
  <2>2. Sound(h) /\ id \in DOMAIN h.proposals /\ ~exists(h.proposals[id])
    BY <1>g, <2>1, DeleteSound
  <2>3. gov' = h /\ executed' = executed \cup {id}
    BY <1>11 DEF Execute, g
  <2> HIDE DEF h
  <2>4. Sound(gov)'
    BY <2>2, <2>3 DEF Sound
  <2>5. g.proposals[id].transactions \in Payloads \cup {<<>>}
    BY <1>8, <2>1 DEF Proposal
  <2>6. RecordsTyped'
    BY <1>0, <1>11, <2>5, ExecuteTransactionsTyped, ParamsStep
       DEF Execute, g, voterVars, goldVars
  <2> QED BY <2>4, <2>6 DEF IInv
<1>12. ASSUME NEW a, Withdraw(a) PROVE IInv'
  BY <1>0, <1>12, SoundStep, RecordsUnchanged
     DEF Withdraw, ruleVars, voterVars, goldVars, history
<1>13. ASSUME NEW a \in Voters, NEW v \in 1..MaxGold, Lock(a, v) \/ Unlock(a, v) \/ Slash(a, v)
       PROVE  IInv'
  <2>1. RecordsTyped'
    BY <1>0, <1>13, GovernanceAssumption
       DEF Lock, Unlock, Slash, RecordsTyped, Ready, ruleVars, voterVars
  <2>2. gov' = gov /\ executed' = executed
    BY <1>13 DEF Lock, Unlock, Slash, history
  <2> QED BY <1>0, <2>1, <2>2, SoundStep
<1>14. CASE UNCHANGED vars
  BY <1>0, <1>14, SoundStep, RecordsUnchanged
     DEF vars, ruleVars, voterVars, goldVars, history
<1> QED BY <1>1, <1>2, <1>3, <1>4, <1>5, <1>6, <1>7, <1>9, <1>10, <1>11, <1>12, <1>13, <1>14
        DEF Next

\* The invariant holds in every reachable state.
LEMMA InvariantHolds == Spec => []IInv
<1> QED BY InitInvariant, NextInvariant, PTL DEF Spec

-----------------------------------------------------------------------------

\* emptyIndices lists exactly the free slots of dequeued, each once, in every state
\* that dequeueProposalsIfReady and deleteDequeuedProposal can lead to.
THEOREM SlotsAlwaysConsistent == Spec => []SlotsConsistent
<1>1. IInv => SlotsConsistent
  BY DEF IInv, Sound, SlotsConsistent
<1> QED BY <1>1, InvariantHolds, PTL

\* No proposal is twice in the queue or in two slots, or in the queue and a slot, and
\* every proposal in one of them exists.
THEOREM AlwaysInOnePlace == Spec => []InOnePlace
<1>1. IInv => InOnePlace
  BY DEF IInv, Sound, InOnePlace
<1> QED BY <1>1, InvariantHolds, PTL

\* execute deletes the proposal it executes, and nothing brings it back.
THEOREM ExecutedStaysGone == Spec => []ExecutedIsGone
<1>1. IInv => ExecutedIsGone
  BY DEF IInv, Sound, ExecutedIsGone, ProposalIds
<1> QED BY <1>1, InvariantHolds, PTL

\* The proposals, the queue and the slots are well typed: in particular no vote total
\* goes below zero when updateVote takes back a previous vote.
THEOREM StateTyped == Spec => [](gov \in GovState)
<1>1. IInv => gov \in GovState
  BY DEF IInv, Sound
<1> QED BY <1>1, InvariantHolds, PTL

-----------------------------------------------------------------------------
(***************************************************************************)
(* The books.  The totals match the records only because a record never    *)
(* names a proposal too early: an upvote names a proposal that was made,   *)
(* and a vote record one that has left the queue, so that a proposal       *)
(* starts in the queue without upvotes and in its slot without votes,      *)
(* whatever the records of the slot's earlier proposals say.               *)
(***************************************************************************)
UpvotesKnown(g) == \A a \in Voters : upvote[a].proposalId \in {0} \cup DOMAIN g.proposals

RecordsKnown(g) ==
    \A a \in Voters : \A i \in DOMAIN referendumVotes[a] :
        /\ referendumVotes[a][i].proposalId \in DOMAIN g.proposals
        /\ referendumVotes[a][i].proposalId \notin KeySet(g.queue)

\* A queued proposal has no votes and is not approved.
QueuedUntouched(g) ==
    \A i \in DOMAIN g.queue : /\ \A v \in VoteValues : g.proposals[g.queue[i].key].votes[v] = 0
                              /\ ~g.proposals[g.queue[i].key].approved

ProposersKnown(g) ==
    \A id \in DOMAIN g.proposals : exists(g.proposals[id]) => g.proposals[id].proposer \in Proposers

UpvotesMatch(g) ==
    /\ Sorted(g.queue)
    /\ \A i \in DOMAIN g.queue : g.queue[i].value = upvotesFor(g.queue[i].key)

VotesMatch(g) ==
    \A i \in DOMAIN g.dequeued : \A v \in VoteValues :
        g.dequeued[i] # 0 => g.proposals[g.dequeued[i]].votes[v] = votesAt(i, g.dequeued[i], v)

\* What the deposits of the proposals that are in no slot come to.
unslotted(g) == SumFunctionOnSet(depositsOf(g), DOMAIN g.proposals \ SlotIds(g))

Tallied(g) ==
    /\ UpvotesKnown(g) /\ RecordsKnown(g) /\ QueuedUntouched(g) /\ ProposersKnown(g)
    /\ UpvotesMatch(g) /\ VotesMatch(g)

MoneyTyped ==
    /\ refundedDeposits \in [Proposers -> Nat]
    /\ balance \in Int /\ spent \in Int
    /\ constitution \in [ConstitutionKeys -> Nat]

Accounted == balance + spent = SumFunction(refundedDeposits) + unslotted(gov)

TotalsInv == IInv /\ MoneyTyped /\ Tallied(gov) /\ Accounted

-----------------------------------------------------------------------------
(***************************************************************************)
(* What dequeueProposalsIfReady does to the proposals it moves             *)
(***************************************************************************)

\* The proposals that leave the queue for a slot.
moved(g) == IF dequeueReady(g) THEN freshIds(g) ELSE {}

\* Slots hold proposals, and a free one holds 0.
LEMMA SlotIdsOf ==
    ASSUME NEW g, Sound(g)
    PROVE  /\ \A s \in DOMAIN g.dequeued : g.dequeued[s] \in {0} \cup SlotIds(g)
           /\ SlotIds(g) \subseteq DOMAIN g.proposals
           /\ SlotIds(g) \cap KeySet(g.queue) = {}
           /\ IsFiniteSet(DOMAIN g.proposals)
           /\ \A id \in DOMAIN g.proposals : id # 0 /\ g.proposals[id] \in Proposal
<1>0. g \in GovState /\ InOnePlaceIn(g)
  BY DEF Sound
<1>1. SlotIds(g) \subseteq DOMAIN g.proposals
  <2>1. \A s \in DOMAIN g.dequeued : g.dequeued[s] # 0 => g.dequeued[s] \in DOMAIN g.proposals
    BY <1>0 DEF InOnePlaceIn
  <2> QED BY <2>1 DEF SlotIds
<1>2. SlotIds(g) \cap KeySet(g.queue) = {}
  <2>1. \A i \in DOMAIN g.queue, s \in DOMAIN g.dequeued : g.queue[i].key # g.dequeued[s]
    BY <1>0 DEF InOnePlaceIn
  <2> SUFFICES ASSUME NEW id \in SlotIds(g), id \in KeySet(g.queue) PROVE FALSE
    OBVIOUS
  <2>2. PICK s \in DOMAIN g.dequeued : g.dequeued[s] = id
    BY DEF SlotIds
  <2>3. PICK i \in DOMAIN g.queue : g.queue[i].key = id
    BY DEF KeySet
  <2> QED BY <2>1, <2>2, <2>3
<1>3. IsFiniteSet(DOMAIN g.proposals) /\ \A id \in DOMAIN g.proposals : id # 0
  <2>1. DOMAIN g.proposals = 1..Len(g.proposals) /\ Len(g.proposals) \in Nat
    BY <1>0, StateFields
  <2> QED BY <2>1, FS_Interval
<1>4. \A id \in DOMAIN g.proposals : g.proposals[id] \in Proposal
  BY <1>0, StateFields, ElementOfSeq
<1> QED BY <1>1, <1>2, <1>3, <1>4 DEF SlotIds

\* dequeueProposalsIfReady only moves proposals that are queued and exist.
LEMMA MovedQueued ==
    ASSUME NEW g, Sound(g), Ready
    PROVE  /\ moved(g) \subseteq KeySet(g.queue)
           /\ KeySet(g.queue) \subseteq DOMAIN g.proposals
           /\ \A k \in KeySet(g.queue) : exists(g.proposals[k])
<1>0. g \in GovState /\ InOnePlaceIn(g)
  BY DEF Sound
<1>1. freshIds(g) \subseteq KeySet(g.queue)
  BY <1>0, FreshProperties DEF freshIds, KeySet
<1>2. \A k \in KeySet(g.queue) : k \in DOMAIN g.proposals /\ exists(g.proposals[k])
  <2>1. \A i \in DOMAIN g.queue : /\ g.queue[i].key \in DOMAIN g.proposals
                                  /\ exists(g.proposals[g.queue[i].key])
    BY <1>0 DEF InOnePlaceIn
  <2> QED BY <2>1 DEF KeySet
<1> QED BY <1>1, <1>2 DEF moved

\* A proposal keeps all it records but its timestamp, and that one too unless it moves;
\* those in slots stay there, and those that move are in slots afterwards.
KeptBy(g, h) ==
    /\ DOMAIN h.proposals = DOMAIN g.proposals
    /\ \A id \in DOMAIN g.proposals :
          /\ h.proposals[id].proposer = g.proposals[id].proposer
          /\ h.proposals[id].deposit = g.proposals[id].deposit
          /\ h.proposals[id].approved = g.proposals[id].approved
          /\ h.proposals[id].votes = g.proposals[id].votes
          /\ id \notin moved(g) => h.proposals[id] = g.proposals[id]
          /\ exists(h.proposals[id]) => exists(g.proposals[id])
    /\ \A i \in DOMAIN h.queue : \E j \in DOMAIN g.queue : h.queue[i] = g.queue[j]
    /\ Sorted(g.queue) => Sorted(h.queue)
    /\ \A s \in DOMAIN h.dequeued :
          \/ s \in DOMAIN g.dequeued /\ h.dequeued[s] = g.dequeued[s]
          \/ h.dequeued[s] \in moved(g)
    /\ SlotIds(h) = SlotIds(g) \cup moved(g)

\* dequeueProposalsIfReady keeps what KeptBy says, whatever it moves or expires.
LEMMA DequeueEffect ==
    ASSUME NEW g, Sound(g), Ready, NEW h, h = dequeueProposalsIfReady(g)
    PROVE  KeptBy(g, h)
<1>0. g \in GovState /\ SlotsConsistentIn(g) /\ InOnePlaceIn(g)
  BY DEF Sound
<1>1. CASE ~dequeueReady(g)
  BY <1>1 DEF dequeueProposalsIfReady, moved, KeptBy
<1>2. CASE dequeueReady(g)
  <2> DEFINE n == numToDequeue(g)
             q == SubSeq(g.queue, n + 1, Len(g.queue))
             F == filledDequeued(g)
             P == [id \in DOMAIN g.proposals |->
                     IF id \in freshIds(g) THEN [g.proposals[id] EXCEPT !.timestamp = now]
                                           ELSE g.proposals[id]]
  <2>1. h.proposals = P /\ h.queue = q /\ h.dequeued = F
    BY <1>0, <1>2 DEF dequeueProposalsIfReady, GovState
  <2>2. moved(g) = freshIds(g)
    BY <1>2 DEF moved
  <2>3. /\ DOMAIN P = DOMAIN g.proposals
        /\ \A id \in DOMAIN P : ~exists(g.proposals[id]) => ~exists(P[id])
    BY RestampProperties
  <2>4. ASSUME NEW id \in DOMAIN g.proposals
        PROVE  /\ P[id].proposer = g.proposals[id].proposer
               /\ P[id].deposit = g.proposals[id].deposit
               /\ P[id].approved = g.proposals[id].approved
               /\ P[id].votes = g.proposals[id].votes
               /\ id \notin freshIds(g) => P[id] = g.proposals[id]
    <3>1. g.proposals[id] \in Proposal
      BY SlotIdsOf
    <3> QED BY <3>1 DEF Proposal
  <2>5. /\ q \in Seq(Element)
        /\ \A i \in DOMAIN q : n + i \in DOMAIN g.queue /\ q[i] = g.queue[n + i]
    BY <1>0, QueueTail
  <2>6. Sorted(g.queue) => Sorted(q)
    <3> SUFFICES ASSUME Sorted(g.queue), NEW i \in DOMAIN q, NEW j \in DOMAIN q, i < j
                 PROVE  q[i].value >= q[j].value
      BY DEF Sorted
    <3>1. i \in Nat /\ j \in Nat
      BY <2>5, LenProperties
    <3>2. n \in Nat
      BY <1>0, FreshProperties, StateFields
    <3>3. n + i < n + j
      BY <3>1, <3>2
    <3> QED BY <2>5, <3>3 DEF Sorted
  <2>7. /\ \A s \in DOMAIN g.dequeued : s \in DOMAIN F
        /\ \A i \in fresh(g) : slotOf(g, i) \in DOMAIN F /\ F[slotOf(g, i)] = g.queue[i].key
        /\ \A s \in DOMAIN F :
              \/ \E i \in fresh(g) : slotOf(g, i) = s
              \/ /\ \A i \in fresh(g) : slotOf(g, i) # s
                 /\ s \in DOMAIN g.dequeued /\ F[s] = g.dequeued[s]
    BY FilledProperties
  <2>8. \A s \in DOMAIN F : \/ s \in DOMAIN g.dequeued /\ F[s] = g.dequeued[s]
                            \/ F[s] \in freshIds(g)
    BY <2>7 DEF freshIds
  <2>9. SlotIds(h) = SlotIds(g) \cup freshIds(g)
    <3>1. \A s \in DOMAIN F : F[s] # 0 => F[s] \in SlotIds(g) \cup freshIds(g)
      BY <2>8 DEF SlotIds
    <3>2. \A k \in freshIds(g) : k # 0 /\ \E s \in DOMAIN F : F[s] = k
      <4>1. freshIds(g) \subseteq DOMAIN g.proposals
        BY <2>2, MovedQueued
      <4> QED BY <2>7, <4>1, SlotIdsOf DEF freshIds
    <3>3. ASSUME NEW s \in DOMAIN g.dequeued, g.dequeued[s] # 0
          PROVE  F[s] = g.dequeued[s]
      \* Only free slots and new ones are filled.
      <4> SUFFICES ASSUME NEW i \in fresh(g), slotOf(g, i) = s PROVE FALSE
        BY <2>7
      <4>1. \/ \E k \in DOMAIN g.emptyIndices : slotOf(g, i) = g.emptyIndices[k]
            \/ slotOf(g, i) \in Len(g.dequeued) + 1
                                  ..Len(g.dequeued) + Cardinality(fresh(g)) - Len(g.emptyIndices)
        BY <1>0, SlotProperties
      <4>2. DOMAIN g.dequeued = 1..Len(g.dequeued) /\ Len(g.dequeued) \in Nat
        BY <1>0, StateFields
      <4>3. PICK k \in DOMAIN g.emptyIndices : g.emptyIndices[k] = s
        <5>1. Cardinality(fresh(g)) \in Nat /\ Len(g.emptyIndices) \in Nat
          BY <1>0, SlotProperties, StateFields
        <5> QED BY <4>1, <4>2, <5>1
      <4> QED BY <1>0, <3>3, <4>3 DEF SlotsConsistentIn
    <3>4. \A k \in SlotIds(g) : k # 0 /\ \E s \in DOMAIN F : F[s] = k
      BY <2>7, <3>3 DEF SlotIds
    <3> HIDE DEF F
    <3> QED BY <2>1, <3>1, <3>2, <3>4 DEF SlotIds
  <2> HIDE DEF q, F, P
  <2> QED BY <2>1, <2>2, <2>3, <2>4, <2>5, <2>6, <2>8, <2>9 DEF KeptBy
<1> QED BY <1>1, <1>2

\* The deposits not in a slot of the dequeued array add up to a number.
LEMMA UnslottedType ==
    ASSUME NEW g, Sound(g)
    PROVE  unslotted(g) \in Int
<1> DEFINE f == depositsOf(g)
           S == DOMAIN g.proposals \ SlotIds(g)
<1>1. IsFiniteSet(DOMAIN g.proposals) /\ \A id \in DOMAIN g.proposals : g.proposals[id] \in Proposal
  BY SlotIdsOf
<1>2. S \in SUBSET DOMAIN g.proposals
  OBVIOUS
<1>3. \A id \in S : f[id] \in Int
  BY <1>1 DEF depositsOf, Proposal
<1> HIDE DEF f, S
<1>4. SumFunctionOnSet(f, S) \in Int
  BY <1>1, <1>2, <1>3, FS_Subset, SumType
<1> QED BY <1>4 DEF unslotted, f, S

\* The deposits of the proposals that move are credited to their proposers.
LEMMA RefundsOfDequeue ==
    ASSUME NEW g, Sound(g), Ready, ProposersKnown(g), MoneyTyped
    PROVE  /\ refundsOfDequeue(g) \in [Proposers -> Nat]
           /\ SumFunctionOnSet(depositsOf(g), moved(g)) \in Int
           /\ SumFunction(refundsOfDequeue(g))
                 = SumFunction(refundedDeposits) + SumFunctionOnSet(depositsOf(g), moved(g))
<1>0. /\ refundedDeposits \in [Proposers -> Nat] /\ IsFiniteSet(Proposers)
      /\ refundedDeposits \in [Proposers -> Int]
  BY GovernanceAssumption DEF MoneyTyped
<1>1. SumFunction(refundedDeposits) \in Int
  BY <1>0, SumOfAllType
<1>2. CASE ~dequeueReady(g)
  <2>1. moved(g) = {} /\ refundsOfDequeue(g) = refundedDeposits
    BY <1>2 DEF moved, refundsOfDequeue
  <2> QED BY <1>0, <1>1, <2>1, SumEmpty
<1>3. CASE dequeueReady(g)
  <2> DEFINE S == freshIds(g)
             f == depositsOf(g)
             h == [id \in DOMAIN g.proposals |-> g.proposals[id].proposer]
             of(a) == {id \in S : h[id] = a}
  <2>1. moved(g) = S
    BY <1>3 DEF moved
  <2>2. S \subseteq DOMAIN g.proposals /\ IsFiniteSet(S)
    <3>1. S \in SUBSET DOMAIN g.proposals
      BY <2>1, MovedQueued
    <3>2. IsFiniteSet(DOMAIN g.proposals)
      BY SlotIdsOf
    <3> QED BY <3>1, <3>2, FS_Subset
  <2>3. \A id \in S : f[id] \in Nat /\ h[id] \in Proposers
    <3>1. \A id \in S : g.proposals[id] \in Proposal /\ exists(g.proposals[id])
      BY <2>1, <2>2, MovedQueued, SlotIdsOf
    <3> QED BY <2>2, <3>1 DEF ProposersKnown, depositsOf, Proposal
  <2>4. refundsOfDequeue(g) = [a \in Proposers |-> refundedDeposits[a] + SumFunctionOnSet(f, of(a))]
    <3>1. \A a \in Proposers : {id \in S : g.proposals[id].proposer = a} = of(a)
      BY <2>2
    <3> HIDE DEF of, S, h
    <3> QED BY <1>3, <3>1 DEF refundsOfDequeue, S
  <2>5. \A a \in Proposers : SumFunctionOnSet(f, of(a)) \in Nat
    <3> SUFFICES ASSUME NEW a \in Proposers PROVE SumFunctionOnSet(f, of(a)) \in Nat
      OBVIOUS
    <3>1. of(a) \in SUBSET S
      OBVIOUS
    <3> HIDE DEF of, S, f, h
    <3>2. IsFiniteSet(of(a)) /\ \A id \in of(a) : f[id] \in Nat /\ f[id] \in Int
      BY <2>2, <2>3, <3>1, FS_Subset
    <3> QED BY <3>2, SumType
  <2> HIDE DEF S, f, h
  <2>6. \A id \in S : f[id] \in Int
    BY <2>3
  <2>7. SumFunction([a \in Proposers |-> refundedDeposits[a] + SumFunctionOnSet(f, of(a))])
           = SumFunction(refundedDeposits) + SumFunctionOnSet(f, S)
    BY <1>0, <2>2, <2>3, <2>6, SumByGroups
  <2>8. SumFunctionOnSet(f, S) \in Int
    BY <2>2, <2>6, SumType
  <2> HIDE DEF of
  <2>9. refundsOfDequeue(g) \in [Proposers -> Nat]
    BY <1>0, <2>4, <2>5
  <2> QED BY <2>1, <2>4, <2>7, <2>8, <2>9 DEF f
<1> QED BY <1>2, <1>3

\* So a batch moves deposits from the proposals to their proposers, and changes none.
LEMMA DequeueMoney ==
    ASSUME NEW g, Sound(g), Ready, ProposersKnown(g), MoneyTyped,
           NEW h, h = dequeueProposalsIfReady(g)
    PROVE  /\ unslotted(h) \in Int
           /\ SumFunction(refundsOfDequeue(g)) + unslotted(h)
                 = SumFunction(refundedDeposits) + unslotted(g)
<1> DEFINE f == depositsOf(g)
           D == DOMAIN g.proposals
           M == moved(g)
           R == D \ SlotIds(h)
<1>1. DOMAIN h.proposals = D /\ depositsOf(h) = f /\ SlotIds(h) = SlotIds(g) \cup M
  <2>1. /\ DOMAIN h.proposals = D /\ SlotIds(h) = SlotIds(g) \cup M
        /\ \A id \in D : h.proposals[id].deposit = g.proposals[id].deposit
    <3>1. KeptBy(g, h)
      BY DequeueEffect
    <3> QED BY <3>1 DEF KeptBy
  <2> QED BY <2>1 DEF depositsOf
<1>2. /\ IsFiniteSet(D) /\ \A id \in D : f[id] \in Int
      /\ M \subseteq D /\ M \cap SlotIds(g) = {}
  <2>1. IsFiniteSet(D) /\ \A id \in D : g.proposals[id] \in Proposal
    BY SlotIdsOf
  <2>2. M \subseteq D /\ M \cap SlotIds(g) = {}
    BY MovedQueued, SlotIdsOf
  <2>3. \A id \in D : f[id] \in Int
    BY <2>1 DEF depositsOf, Proposal
  <2> QED BY <2>1, <2>2, <2>3
<1> HIDE DEF f, D, M
<1>3. D \ SlotIds(g) = R \cup M /\ R \cap M = {} /\ R \subseteq D
  BY <1>1, <1>2
<1>4. IsFiniteSet(R) /\ IsFiniteSet(M) /\ \A id \in R \cup M : f[id] \in Int
  <2> HIDE DEF R
  <2> QED BY <1>2, <1>3, FS_Subset
<1> HIDE DEF R
<1>5. SumFunctionOnSet(f, R \cup M) = SumFunctionOnSet(f, R) + SumFunctionOnSet(f, M)
  BY <1>3, <1>4, SumUnion
<1>6. unslotted(g) = SumFunctionOnSet(f, R \cup M) /\ unslotted(h) = SumFunctionOnSet(f, R)
  BY <1>1, <1>3 DEF unslotted, f, D, R
<1>7. SumFunctionOnSet(f, R) \in Int /\ SumFunctionOnSet(f, M) \in Int
  BY <1>4, SumType
<1>8. SumFunction(refundsOfDequeue(g)) = SumFunction(refundedDeposits) + SumFunctionOnSet(f, M)
  BY RefundsOfDequeue DEF f, M
<1>9. SumFunction(refundedDeposits) \in Int
  BY GovernanceAssumption, SumOfAllType DEF MoneyTyped
<1> QED BY <1>5, <1>6, <1>7, <1>8, <1>9

-----------------------------------------------------------------------------
(***************************************************************************)
(* The totals and the voters' records                                      *)
(***************************************************************************)

\* The sum of an account's weights over the voters is well defined, whatever is summed.
LEMMA VotersFinite == IsFiniteSet(Voters)
<1> QED BY GovernanceAssumption

\* A proposal that no upvote names has no upvotes.
LEMMA NoUpvotesYet ==
    ASSUME NEW id, \A a \in Voters : upvote[a].proposalId # id
    PROVE  upvotesFor(id) = 0
<1> DEFINE f == [a \in Voters |-> IF upvote[a].proposalId = id THEN upvote[a].weight ELSE 0]
<1>1. DOMAIN f = Voters /\ \A a \in Voters : f[a] = 0
  OBVIOUS
<1> HIDE DEF f
<1>2. SumFunction(f) = 0
  BY <1>1, VotersFinite, SumOfAll, SumZero
<1> QED BY <1>2 DEF upvotesFor, f

\* A proposal that is queued has no votes at any slot.
LEMMA NoVotesYet ==
    ASSUME NEW g, Sound(g), RecordsKnown(g), NEW id \in KeySet(g.queue), NEW i, NEW v
    PROVE  votesAt(i, id, v) = 0
<1> DEFINE f == [a \in Voters |->
                    IF voteRecord(a, i).proposalId = id /\ voteRecord(a, i).value = v
                    THEN voteRecord(a, i).weight ELSE 0]
<1>1. id # 0
  <2>1. \A j \in DOMAIN g.queue : g.queue[j].key \in DOMAIN g.proposals
    BY DEF Sound, InOnePlaceIn
  <2> QED BY <2>1, SlotIdsOf DEF KeySet
<1>2. \A a \in Voters : voteRecord(a, i).proposalId # id
  BY <1>1 DEF RecordsKnown, voteRecord, NoVote
<1>3. DOMAIN f = Voters /\ \A a \in Voters : f[a] = 0
  BY <1>2
<1> HIDE DEF f
<1>4. SumFunction(f) = 0
  BY <1>3, VotersFinite, SumOfAll, SumZero
<1> QED BY <1>4 DEF votesAt, f

\* A batch leaves the queue's upvotes alone, and gives slots to proposals without votes.
LEMMA DequeueTallied ==
    ASSUME NEW g, Sound(g), Ready, Tallied(g), NEW h, h = dequeueProposalsIfReady(g)
    PROVE  Tallied(h)
<1>0. KeptBy(g, h)
  BY DequeueEffect
<1> DEFINE same(id) ==
        /\ h.proposals[id].proposer = g.proposals[id].proposer
        /\ h.proposals[id].approved = g.proposals[id].approved
        /\ h.proposals[id].votes = g.proposals[id].votes
        /\ exists(h.proposals[id]) => exists(g.proposals[id])
<1>1. /\ DOMAIN h.proposals = DOMAIN g.proposals
      /\ \A id \in DOMAIN g.proposals : same(id)
      /\ \A i \in DOMAIN h.queue : \E j \in DOMAIN g.queue : h.queue[i] = g.queue[j]
      /\ Sorted(g.queue) => Sorted(h.queue)
      /\ \A s \in DOMAIN h.dequeued :
            \/ s \in DOMAIN g.dequeued /\ h.dequeued[s] = g.dequeued[s]
            \/ h.dequeued[s] \in moved(g)
  BY <1>0 DEF KeptBy
<1>2. \A i \in DOMAIN g.queue : g.queue[i].key \in DOMAIN g.proposals
  BY DEF Sound, InOnePlaceIn
<1>3. moved(g) \subseteq KeySet(g.queue) /\ moved(g) \subseteq DOMAIN g.proposals
  BY MovedQueued
<1>4. KeySet(h.queue) \subseteq KeySet(g.queue)
  BY <1>1 DEF KeySet
<1>5. UpvotesKnown(h) /\ RecordsKnown(h)
  BY <1>1, <1>4 DEF Tallied, UpvotesKnown, RecordsKnown
<1>6. QueuedUntouched(h)
  <2> SUFFICES ASSUME NEW i \in DOMAIN h.queue
               PROVE  /\ \A v \in VoteValues : h.proposals[h.queue[i].key].votes[v] = 0
                      /\ ~h.proposals[h.queue[i].key].approved
    BY DEF QueuedUntouched
  <2>1. PICK j \in DOMAIN g.queue : h.queue[i] = g.queue[j]
    BY <1>1
  <2>2. same(g.queue[j].key)
    BY <1>1, <1>2
  <2> QED BY <2>1, <2>2 DEF Tallied, QueuedUntouched
<1>7. ProposersKnown(h)
  BY <1>1 DEF Tallied, ProposersKnown
<1>8. UpvotesMatch(h)
  BY <1>1 DEF Tallied, UpvotesMatch
<1>9. VotesMatch(h)
  <2> SUFFICES ASSUME NEW s \in DOMAIN h.dequeued, NEW v \in VoteValues, h.dequeued[s] # 0
               PROVE  h.proposals[h.dequeued[s]].votes[v] = votesAt(s, h.dequeued[s], v)
    BY DEF VotesMatch
  <2> DEFINE id == h.dequeued[s]
  <2>1. CASE s \in DOMAIN g.dequeued /\ id = g.dequeued[s]
    <3>1. id \in DOMAIN g.proposals
      BY <2>1, SlotIdsOf
    <3>2. same(id)
      BY <1>1, <3>1
    <3> QED BY <2>1, <3>2 DEF Tallied, VotesMatch
  <2>2. CASE id \in moved(g)
    <3>1. id \in KeySet(g.queue) /\ same(id)
      BY <1>1, <1>3, <2>2
    <3>2. g.proposals[id].votes[v] = 0
      BY <3>1 DEF Tallied, QueuedUntouched, KeySet
    <3>3. votesAt(s, id, v) = 0
      BY <3>1, NoVotesYet DEF Tallied
    <3> QED BY <3>1, <3>2, <3>3
  <2> QED BY <1>1, <2>1, <2>2
<1> QED BY <1>5, <1>6, <1>7, <1>8, <1>9 DEF Tallied

\* A queue that keeps some of its elements, in order.
LEMMA QueueTallied ==
    ASSUME NEW g, Sound(g), Tallied(g), NEW q, Sorted(q),
           \A i \in DOMAIN q : \E j \in DOMAIN g.queue : q[i] = g.queue[j],
           NEW h, h = [g EXCEPT !.queue = q]
    PROVE  Tallied(h) /\ unslotted(h) = unslotted(g)
<1>1. h.queue = q /\ h.proposals = g.proposals /\ h.dequeued = g.dequeued
  BY DEF Sound, GovState
<1>2. KeySet(q) \subseteq KeySet(g.queue)
  BY DEF KeySet
<1>3. UpvotesKnown(h) /\ RecordsKnown(h) /\ ProposersKnown(h)
  BY <1>1, <1>2 DEF Tallied, UpvotesKnown, RecordsKnown, ProposersKnown
<1>4. QueuedUntouched(h) /\ UpvotesMatch(h)
  BY <1>1 DEF Tallied, QueuedUntouched, UpvotesMatch
<1>5. VotesMatch(h)
  BY <1>1 DEF Tallied, VotesMatch
<1>6. unslotted(h) = unslotted(g)
  BY <1>1 DEF unslotted, depositsOf, SlotIds
<1> QED BY <1>3, <1>4, <1>5, <1>6 DEF Tallied

\* Removing an expired queued proposal keeps the tallies and the deposits.
LEMMA RemoveExpiredTallied ==
    ASSUME NEW g, Sound(g), Tallied(g), NEW id, NEW h, h = removeIfQueuedAndExpired(g, id)
    PROVE  Tallied(h) /\ unslotted(h) = unslotted(g)
<1>1. CASE isQueuedAndExpired(g, id)
  <2>1. id \in KeySet(g.queue)
    BY <1>1 DEF isQueuedAndExpired, inQueue
  <2>2. g.queue \in Seq(Element) /\ DistinctKeys(g.queue) /\ Sorted(g.queue)
    BY StateFields DEF Sound, InOnePlaceIn, DistinctKeys, Tallied, UpvotesMatch
  <2> DEFINE q == Without(g.queue, id)
  <2>3. Sorted(q) /\ \A i \in DOMAIN q : \E j \in DOMAIN g.queue : q[i] = g.queue[j]
    BY <2>1, <2>2, WithoutProperties
  <2>4. h = [g EXCEPT !.queue = q]
    BY <1>1 DEF removeIfQueuedAndExpired
  <2> HIDE DEF q
  <2> QED BY <2>3, <2>4, QueueTallied
<1>2. CASE ~isQueuedAndExpired(g, id)
  BY <1>2 DEF removeIfQueuedAndExpired
<1> QED BY <1>1, <1>2

\* Records that do not change agree with the totals of the proposals a step leads to.
LEMMA TalliedStep ==
    ASSUME NEW h, Tallied(h), gov' = h, UNCHANGED <<upvote, referendumVotes>>
    PROVE  Tallied(gov)'
<1>1. UpvotesKnown(gov)' /\ RecordsKnown(gov)' /\ QueuedUntouched(gov)' /\ ProposersKnown(gov)'
  BY DEF Tallied, UpvotesKnown, RecordsKnown, QueuedUntouched, ProposersKnown
<1>2. UpvotesMatch(gov)'
  BY DEF Tallied, UpvotesMatch, upvotesFor
<1>3. VotesMatch(gov)'
  BY DEF Tallied, VotesMatch, votesAt, voteRecord
<1> QED BY <1>1, <1>2, <1>3 DEF Tallied

-----------------------------------------------------------------------------
(***************************************************************************)
(* A new proposal, a deleted one and one that changes                      *)
(***************************************************************************)

\* The votes agree with the records when slots and their proposals do not change.
LEMMA VotesMatchKept ==
    ASSUME NEW g, VotesMatch(g), NEW h, h.dequeued = g.dequeued,
           \A s \in DOMAIN g.dequeued :
              g.dequeued[s] # 0 => h.proposals[g.dequeued[s]] = g.proposals[g.dequeued[s]]
    PROVE  VotesMatch(h)
<1> QED BY DEF VotesMatch

\* A new proposal is queued without upvotes, under an ID no record names.
LEMMA ProposeTallied ==
    ASSUME NEW g, Sound(g), Tallied(g), NEW p \in Proposal, p.proposer \in Proposers,
           ~p.approved, \A v \in VoteValues : p.votes[v] = 0,
           NEW h, h = [g EXCEPT !.proposals = Append(g.proposals, p),
                                !.queue = Append(g.queue, [key |-> Len(g.proposals) + 1,
                                                           value |-> 0])]
    PROVE  /\ Tallied(h)
           /\ unslotted(g) \in Int /\ unslotted(h) = unslotted(g) + p.deposit
<1> DEFINE l == Len(g.proposals)
           e == [key |-> l + 1, value |-> 0]
           P == Append(g.proposals, p)
           q == Append(g.queue, e)
           n == Len(g.queue)
<1>0. g \in GovState /\ InOnePlaceIn(g)
  BY DEF Sound
<1>1. /\ l \in Nat /\ n \in Nat /\ DOMAIN g.proposals = 1..l /\ DOMAIN g.queue = 1..n
      /\ g.proposals \in Seq(Proposal) /\ g.queue \in Seq(Element)
  BY <1>0, StateFields
<1>2. e \in Element /\ e.key = l + 1 /\ e.value = 0
  BY <1>1 DEF Element
<1> HIDE DEF e
<1>3. /\ P \in Seq(Proposal) /\ DOMAIN P = 1..l + 1
      /\ \A i \in 1..l : P[i] = g.proposals[i]
      /\ P[l + 1] = p
  BY <1>1, AppendProperties, LenProperties
<1>4. /\ DOMAIN q = 1..n + 1
      /\ \A i \in 1..n : q[i] = g.queue[i]
      /\ q[n + 1] = e
  BY <1>1, <1>2, AppendProperties, LenProperties
<1>5. h.queue = q /\ h.dequeued = g.dequeued /\ h.proposals = P
  BY <1>0 DEF GovState, e
<1> HIDE DEF l, n, P, q
<1>6. /\ \A i \in 1..l : i \in DOMAIN P /\ i # l + 1
      /\ \A i \in DOMAIN P : i \in 1..l \/ i = l + 1
      /\ \A i \in DOMAIN q : i \in 1..n \/ i = n + 1
      /\ l + 1 \in DOMAIN P
  BY <1>1, <1>3, <1>4
<1>7. \A i \in 1..n : g.queue[i].key \in 1..l
  BY <1>0, <1>1 DEF InOnePlaceIn
<1>8. UpvotesKnown(h)
  BY <1>1, <1>5, <1>6 DEF Tallied, UpvotesKnown
<1>9. RecordsKnown(h)
  <2>1. \A k \in KeySet(q) : k \in KeySet(g.queue) \/ k = l + 1
    BY <1>1, <1>2, <1>4, <1>6 DEF KeySet
  <2> QED BY <1>1, <1>5, <1>6, <2>1 DEF Tallied, RecordsKnown
<1>10. QueuedUntouched(h)
  <2> SUFFICES ASSUME NEW i \in DOMAIN q
               PROVE  /\ \A v \in VoteValues : P[q[i].key].votes[v] = 0
                      /\ ~P[q[i].key].approved
    BY <1>5, ZenonT(30) DEF QueuedUntouched
  <2>1. CASE i \in 1..n
    BY <1>1, <1>3, <1>4, <1>7, <2>1, SMTT(30) DEF Tallied, QueuedUntouched
  <2>2. CASE i = n + 1
    BY <1>2, <1>3, <1>4, <2>2
  <2> QED BY <1>6, <2>1, <2>2
<1>11. ProposersKnown(h)
  BY <1>1, <1>3, <1>5, <1>6 DEF Tallied, ProposersKnown
<1>12. UpvotesMatch(h)
  <2>1. \A i \in 1..n : g.queue[i].value \in Nat
    <3>1. \A i \in 1..n : g.queue[i] \in Element
      BY <1>1, ElementOfSeq DEF n
    <3> QED BY <3>1 DEF Element
  <2>2. Sorted(q)
    <3> SUFFICES ASSUME NEW i \in DOMAIN q, NEW j \in DOMAIN q, i < j
                 PROVE  q[i].value >= q[j].value
      BY DEF Sorted
    <3>1. i \in 1..n
      BY <1>1, <1>4
    <3>2. CASE j \in 1..n
      BY <1>1, <1>4, <3>1, <3>2 DEF Tallied, UpvotesMatch, Sorted
    <3>3. CASE j = n + 1
      BY <1>2, <1>4, <2>1, <3>1, <3>3
    <3> QED BY <1>6, <3>2, <3>3
  <2>3. upvotesFor(l + 1) = 0
    <3>1. \A a \in Voters : upvote[a].proposalId # l + 1
      BY <1>1, <1>6 DEF Tallied, UpvotesKnown
    <3> QED BY <3>1, NoUpvotesYet
  <2>4. \A i \in DOMAIN q : q[i].value = upvotesFor(q[i].key)
    BY <1>1, <1>2, <1>4, <1>6, <2>3 DEF Tallied, UpvotesMatch
  <2> QED BY <1>5, <2>2, <2>4 DEF UpvotesMatch
<1>13. \A s \in DOMAIN g.dequeued : g.dequeued[s] # 0 => g.dequeued[s] \in 1..l
  BY <1>0, <1>1 DEF InOnePlaceIn
<1>14. VotesMatch(h)
  <2>1. ASSUME NEW s \in DOMAIN g.dequeued, g.dequeued[s] # 0
        PROVE  h.proposals[g.dequeued[s]] = g.proposals[g.dequeued[s]]
    BY <1>3, <1>5, <1>13, <2>1
  <2>2. h.dequeued = g.dequeued
    BY <1>5
  <2>3. VotesMatch(g)
    BY DEF Tallied
  <2> QED BY <2>1, <2>2, <2>3, VotesMatchKept
<1>15. unslotted(g) \in Int /\ unslotted(h) = unslotted(g) + p.deposit
  <2> DEFINE f == depositsOf(g)
             k == depositsOf(h)
             S == (1..l) \ SlotIds(g)
  <2>1. SlotIds(h) = SlotIds(g) /\ SlotIds(g) \subseteq 1..l
    <3>1. SlotIds(h) = SlotIds(g)
      BY <1>5 DEF SlotIds
    <3>2. SlotIds(g) \subseteq DOMAIN g.proposals
      BY SlotIdsOf
    <3> QED BY <1>1, <3>1, <3>2
  <2>2. IsFiniteSet(S) /\ l + 1 \notin S
    <3>1. S \in SUBSET (1..l) /\ l + 1 \notin 1..l
      BY <1>1
    <3>2. IsFiniteSet(1..l)
      BY <1>1, FS_Interval
    <3> HIDE DEF S
    <3> QED BY <3>1, <3>2, FS_Subset
  <2>3. \A i \in S : g.proposals[i].deposit \in Int
    <3>1. \A i \in 1..l : g.proposals[i] \in Proposal
      BY <1>1, SlotIdsOf
    <3> QED BY <3>1 DEF Proposal
  <2>4. \A i \in S : f[i] \in Int /\ f[i] = k[i]
    BY <1>1, <1>3, <1>5, <1>6, <2>3 DEF depositsOf
  <2>5. k[l + 1] = p.deposit /\ p.deposit \in Int
    BY <1>3, <1>5, <1>6 DEF depositsOf, Proposal
  <2>6. DOMAIN P \ SlotIds(h) = S \cup {l + 1}
    BY <1>3, <1>6, <2>1
  <2>7. unslotted(g) = SumFunctionOnSet(f, S)
        /\ unslotted(h) = SumFunctionOnSet(k, S \cup {l + 1})
    BY <1>1, <1>5, <2>6 DEF unslotted
  <2> HIDE DEF f, k, S
  <2>8. SumFunctionOnSet(k, S \cup {l + 1}) = k[l + 1] + SumFunctionOnSet(k, S)
    <3>1. \A i \in S \cup {l + 1} : k[i] \in Int
      BY <2>4, <2>5
    <3> QED BY <2>2, <3>1, SumAdd
  <2>9. SumFunctionOnSet(k, S) = SumFunctionOnSet(f, S) /\ SumFunctionOnSet(f, S) \in Int
    BY <2>2, <2>4, SumAgree, SumType
  <2> QED BY <2>5, <2>7, <2>8, <2>9
<1> QED BY <1>8, <1>9, <1>10, <1>11, <1>12, <1>14, <1>15 DEF Tallied

\* A dequeued proposal is in one slot and not in the queue.
AloneIn(g, id, index) ==
    /\ g \in GovState
    /\ index \in DOMAIN g.dequeued /\ g.dequeued[index] = id
    /\ id # 0 /\ id \in DOMAIN g.proposals /\ id \in SlotIds(g)
    /\ g.proposals[id] \in Proposal /\ exists(g.proposals[id])
    /\ \A i \in DOMAIN g.queue : g.queue[i].key # id
    /\ \A i \in DOMAIN g.queue : g.queue[i].key \in DOMAIN g.proposals
    /\ \A s \in DOMAIN g.dequeued : g.dequeued[s] = id => s = index
    /\ \A s \in DOMAIN g.dequeued : g.dequeued[s] # 0 => g.dequeued[s] \in DOMAIN g.proposals

\* A dequeued proposal occupies no slot but the one its caller names.
LEMMA DequeuedAlone ==
    ASSUME NEW g, Sound(g), NEW id, NEW index, isDequeuedProposal(g, id, index)
    PROVE  AloneIn(g, id, index)
<1>0. g \in GovState /\ InOnePlaceIn(g)
  BY DEF Sound
<1>1. /\ index \in DOMAIN g.dequeued /\ g.dequeued[index] = id
      /\ id \in DOMAIN g.proposals /\ exists(g.proposals[id])
  BY DEF isDequeuedProposal
<1>2. id # 0 /\ g.proposals[id] \in Proposal
  BY <1>1, SlotIdsOf
<1>3. id \in SlotIds(g)
  BY <1>1, <1>2 DEF SlotIds
<1>4. \A i \in DOMAIN g.queue, s \in DOMAIN g.dequeued : g.queue[i].key # g.dequeued[s]
  BY <1>0 DEF InOnePlaceIn
<1>5. \A i, j \in DOMAIN g.dequeued :
         g.dequeued[i] = g.dequeued[j] /\ g.dequeued[i] # 0 => i = j
  BY <1>0 DEF InOnePlaceIn
<1>6. \A i \in DOMAIN g.queue : g.queue[i].key \in DOMAIN g.proposals
  BY <1>0 DEF InOnePlaceIn
<1>7. \A s \in DOMAIN g.dequeued : g.dequeued[s] # 0 => g.dequeued[s] \in DOMAIN g.proposals
  BY <1>0 DEF InOnePlaceIn
<1> QED BY <1>0, <1>1, <1>2, <1>3, <1>4, <1>5, <1>6, <1>7 DEF AloneIn

\* Deleting a dequeued proposal takes its totals away with it; its deposit, which was
\* refunded when it was dequeued, is no longer recorded.
LEMMA DeleteTallied ==
    ASSUME NEW g, Sound(g), Tallied(g), NEW id, NEW index, isDequeuedProposal(g, id, index),
           NEW h, h = deleteDequeuedProposal(g, id, index)
    PROVE  /\ Tallied(h)
           /\ unslotted(g) \in Int /\ unslotted(h) = unslotted(g)
<1> DEFINE D == [g.dequeued EXCEPT ![index] = 0]
           P == [g.proposals EXCEPT ![id] = NoProposal]
<1>0. /\ g \in GovState
      /\ index \in DOMAIN g.dequeued /\ g.dequeued[index] = id
      /\ id # 0 /\ id \in DOMAIN g.proposals /\ id \in SlotIds(g)
      /\ g.proposals[id] \in Proposal /\ exists(g.proposals[id])
      /\ \A i \in DOMAIN g.queue : g.queue[i].key # id
      /\ \A i \in DOMAIN g.queue : g.queue[i].key \in DOMAIN g.proposals
      /\ \A s \in DOMAIN g.dequeued : g.dequeued[s] = id => s = index
      /\ \A s \in DOMAIN g.dequeued : g.dequeued[s] # 0 => g.dequeued[s] \in DOMAIN g.proposals
  BY DequeuedAlone DEF AloneIn
<1>1. /\ DOMAIN P = DOMAIN g.proposals /\ P[id] = NoProposal
      /\ \A i \in DOMAIN P : i # id => P[i] = g.proposals[i]
  BY <1>0, StateFields, ExceptSeq
<1>2. /\ DOMAIN D = DOMAIN g.dequeued /\ D[index] = 0
      /\ \A s \in DOMAIN D : s # index => D[s] = g.dequeued[s]
  BY <1>0, StateFields, ExceptSeq
<1>3. h.queue = g.queue /\ h.dequeued = D /\ h.proposals = P
  BY <1>0 DEF deleteDequeuedProposal, GovState
<1> HIDE DEF D, P
<1>4. UpvotesKnown(h) /\ RecordsKnown(h)
  BY <1>1, <1>3 DEF Tallied, UpvotesKnown, RecordsKnown
<1>5. QueuedUntouched(h)
  BY <1>0, <1>1, <1>3 DEF Tallied, QueuedUntouched
<1>6. ProposersKnown(h)
  <2>1. ~exists(NoProposal)
    BY DEF NoProposal, exists
  <2> QED BY <1>1, <1>3, <2>1 DEF Tallied, ProposersKnown
<1>7. UpvotesMatch(h)
  BY <1>3 DEF Tallied, UpvotesMatch
<1>8. VotesMatch(h)
  <2> SUFFICES ASSUME NEW s \in DOMAIN D, NEW v \in VoteValues, D[s] # 0
               PROVE  P[D[s]].votes[v] = votesAt(s, D[s], v)
    BY <1>3 DEF VotesMatch
  <2>1. s \in DOMAIN g.dequeued /\ D[s] = g.dequeued[s] /\ g.dequeued[s] # id
    BY <1>0, <1>2
  <2>2. P[D[s]] = g.proposals[g.dequeued[s]]
    BY <1>0, <1>1, <2>1
  <2> QED BY <2>1, <2>2 DEF Tallied, VotesMatch
<1>9. SlotIds(h) = SlotIds(g) \ {id}
  BY <1>0, <1>2, <1>3 DEF SlotIds
<1> DEFINE f == depositsOf(g)
           k == depositsOf(h)
           S == DOMAIN g.proposals \ SlotIds(g)
<1>10. IsFiniteSet(S) /\ id \notin S
  <2>1. IsFiniteSet(DOMAIN g.proposals) /\ S \in SUBSET DOMAIN g.proposals
    BY SlotIdsOf
  <2>2. id \notin S
    BY <1>0
  <2> HIDE DEF S
  <2> QED BY <2>1, <2>2, FS_Subset
<1>11. \A i \in S : f[i] \in Int /\ f[i] = k[i]
  <2>1. \A i \in DOMAIN g.proposals : g.proposals[i] \in Proposal
    BY SlotIdsOf
  <2>2. \A i \in DOMAIN g.proposals : g.proposals[i].deposit \in Int
    BY <2>1 DEF Proposal
  <2> QED BY <1>0, <1>1, <1>3, <2>2 DEF depositsOf
<1>12. k[id] = 0
  BY <1>0, <1>1, <1>3 DEF depositsOf, NoProposal
<1>13. /\ unslotted(g) = SumFunctionOnSet(f, S)
       /\ unslotted(h) = SumFunctionOnSet(k, S \cup {id})
  <2>1. DOMAIN h.proposals \ SlotIds(h) = S \cup {id}
    BY <1>0, <1>1, <1>3, <1>9
  <2> QED BY <2>1 DEF unslotted
<1> HIDE DEF f, k, S
<1>14. SumFunctionOnSet(k, S \cup {id}) = k[id] + SumFunctionOnSet(k, S)
  <2>1. \A i \in S \cup {id} : k[i] \in Int
    BY <1>11, <1>12
  <2> QED BY <1>10, <2>1, SumAdd
<1>15. SumFunctionOnSet(k, S) = SumFunctionOnSet(f, S) /\ SumFunctionOnSet(f, S) \in Int
  BY <1>10, <1>11, SumAgree, SumType
<1> QED BY <1>4, <1>5, <1>6, <1>7, <1>8, <1>12, <1>13, <1>14, <1>15 DEF Tallied

\* What a dequeued proposal records about its support may change: nothing else does.
LEMMA DequeuedChange ==
    ASSUME NEW g, Sound(g), Tallied(g), NEW id, NEW index, isDequeuedProposal(g, id, index),
           NEW p, p.proposer = g.proposals[id].proposer, p.deposit = g.proposals[id].deposit,
           NEW h, h = [g EXCEPT !.proposals[id] = p]
    PROVE  /\ UpvotesKnown(h) /\ RecordsKnown(h) /\ QueuedUntouched(h) /\ ProposersKnown(h)
           /\ UpvotesMatch(h) /\ unslotted(h) = unslotted(g)
           /\ h.dequeued = g.dequeued /\ h.queue = g.queue
           /\ DOMAIN h.proposals = DOMAIN g.proposals
           /\ h.proposals[id] = p
           /\ \A i \in DOMAIN g.proposals : i # id => h.proposals[i] = g.proposals[i]
<1>0. /\ g \in GovState /\ id \in DOMAIN g.proposals /\ exists(g.proposals[id])
      /\ \A i \in DOMAIN g.queue : g.queue[i].key # id
      /\ \A i \in DOMAIN g.queue : g.queue[i].key \in DOMAIN g.proposals
  BY DequeuedAlone DEF AloneIn
<1>1. /\ h.dequeued = g.dequeued /\ h.queue = g.queue
      /\ h.proposals = [g.proposals EXCEPT ![id] = p]
  BY <1>0 DEF GovState
<1>2. /\ DOMAIN h.proposals = DOMAIN g.proposals /\ h.proposals[id] = p
      /\ \A i \in DOMAIN g.proposals : i # id => h.proposals[i] = g.proposals[i]
  BY <1>0, <1>1
<1>3. UpvotesKnown(h) /\ RecordsKnown(h)
  BY <1>1, <1>2 DEF Tallied, UpvotesKnown, RecordsKnown
<1>4. QueuedUntouched(h)
  BY <1>0, <1>1, <1>2 DEF Tallied, QueuedUntouched
<1>5. ProposersKnown(h)
  <2> SUFFICES ASSUME NEW i \in DOMAIN h.proposals, exists(h.proposals[i])
               PROVE  h.proposals[i].proposer \in Proposers
    BY DEF ProposersKnown
  <2>1. ProposersKnown(g)
    BY DEF Tallied
  <2>2. CASE i = id
    BY <1>0, <1>2, <2>1, <2>2 DEF ProposersKnown
  <2>3. CASE i # id
    BY <1>2, <2>1, <2>3 DEF ProposersKnown
  <2> QED BY <2>2, <2>3
<1>6. UpvotesMatch(h)
  BY <1>1 DEF Tallied, UpvotesMatch
<1>7. unslotted(h) = unslotted(g)
  <2>1. depositsOf(h) = depositsOf(g)
    BY <1>0, <1>2 DEF depositsOf
  <2>2. SlotIds(h) = SlotIds(g)
    BY <1>1 DEF SlotIds
  <2> QED BY <1>2, <2>1, <2>2 DEF unslotted
<1> QED BY <1>1, <1>2, <1>3, <1>4, <1>5, <1>6, <1>7

\* Approving a proposal changes neither its votes nor a deposit.
LEMMA ApproveTallied ==
    ASSUME NEW g, Sound(g), Tallied(g), NEW id, NEW index, isDequeuedProposal(g, id, index),
           NEW p, p.proposer = g.proposals[id].proposer, p.deposit = g.proposals[id].deposit,
           p.votes = g.proposals[id].votes,
           NEW h, h = [g EXCEPT !.proposals[id] = p]
    PROVE  Tallied(h) /\ unslotted(h) = unslotted(g)
<1>1. /\ UpvotesKnown(h) /\ RecordsKnown(h) /\ QueuedUntouched(h) /\ ProposersKnown(h)
      /\ UpvotesMatch(h) /\ unslotted(h) = unslotted(g)
      /\ h.dequeued = g.dequeued /\ h.queue = g.queue
      /\ DOMAIN h.proposals = DOMAIN g.proposals
      /\ h.proposals[id] = p
      /\ \A i \in DOMAIN g.proposals : i # id => h.proposals[i] = g.proposals[i]
  BY DequeuedChange
<1>2. \A s \in DOMAIN g.dequeued : g.dequeued[s] # 0 => g.dequeued[s] \in DOMAIN g.proposals
  BY DequeuedAlone DEF AloneIn
<1>3. VotesMatch(h)
  <2> SUFFICES ASSUME NEW s \in DOMAIN g.dequeued, NEW v \in VoteValues, g.dequeued[s] # 0
               PROVE  h.proposals[g.dequeued[s]].votes[v] = votesAt(s, g.dequeued[s], v)
    BY <1>1 DEF VotesMatch
  <2>1. h.proposals[g.dequeued[s]].votes = g.proposals[g.dequeued[s]].votes
    BY <1>1, <1>2
  <2> QED BY <2>1 DEF Tallied, VotesMatch
<1> QED BY <1>1, <1>3 DEF Tallied

-----------------------------------------------------------------------------
(***************************************************************************)
(* An upvote and a vote change one record and one total                    *)
(***************************************************************************)
UpvoteRecord == [proposalId : Nat, weight : Nat]

VoteRecord == [value : VoteValues, proposalId : Nat, weight : Nat]

\* What an upvote record counts for a proposal, and what the records of all do.
shareOf(record, id) == IF record.proposalId = id THEN record.weight ELSE 0

upvotesIn(records, id) == SumFunction([a \in Voters |-> shareOf(records[a], id)])

\* Replacing one account's upvote record changes the upvotes of a proposal by its
\* share.
LEMMA UpvoteChange ==
    ASSUME NEW u \in [Voters -> UpvoteRecord], NEW a \in Voters, NEW r \in UpvoteRecord, NEW id
    PROVE  /\ upvotesIn(u, id) \in Nat /\ shareOf(u[a], id) \in Nat /\ shareOf(r, id) \in Nat
           /\ upvotesIn([u EXCEPT ![a] = r], id)
                 = upvotesIn(u, id) - shareOf(u[a], id) + shareOf(r, id)
<1> DEFINE w == [u EXCEPT ![a] = r]
           f == [b \in Voters |-> shareOf(u[b], id)]
           k == [b \in Voters |-> shareOf(w[b], id)]
<1>1. \A b \in Voters : u[b] \in UpvoteRecord
  OBVIOUS
<1>2. \A x \in UpvoteRecord : shareOf(x, id) \in Nat
  BY DEF UpvoteRecord, shareOf
<1>3. f \in [Voters -> Int] /\ \A b \in Voters : f[b] \in Nat
  BY <1>1, <1>2
<1>4. DOMAIN k = Voters /\ k[a] = shareOf(r, id) /\ f[a] = shareOf(u[a], id)
  OBVIOUS
<1>5. \A b \in Voters \ {a} : k[b] = f[b]
  OBVIOUS
<1>6. shareOf(r, id) \in Int
  BY <1>2
<1>7. SumFunction(f) = upvotesIn(u, id) /\ SumFunction(k) = upvotesIn(w, id)
  BY DEF upvotesIn
<1> HIDE DEF f, k, w
<1>8. SumFunction(k) = SumFunction(f) - f[a] + shareOf(r, id)
  BY <1>3, <1>4, <1>5, <1>6, VotersFinite, SumOfAllChange
<1>9. SumFunction(f) \in Nat
  BY <1>3, VotersFinite, SumOfAllType
<1> QED BY <1>1, <1>2, <1>4, <1>7, <1>8, <1>9 DEF w

\* The queue and the upvote records agree.
Upvoted(q, u) == Sorted(q) /\ \A i \in DOMAIN q : q[i].value = upvotesIn(u, q[i].key)

\* A record may change if it names no queued proposal before or after.
LEMMA UpvoteOfOther ==
    ASSUME NEW u \in [Voters -> UpvoteRecord], NEW a \in Voters, NEW r \in UpvoteRecord,
           NEW q, Upvoted(q, u), u[a].proposalId \notin KeySet(q), r.proposalId \notin KeySet(q)
    PROVE  Upvoted(q, [u EXCEPT ![a] = r])
<1> SUFFICES ASSUME NEW i \in DOMAIN q
             PROVE  q[i].value = upvotesIn([u EXCEPT ![a] = r], q[i].key)
  BY DEF Upvoted
<1>1. shareOf(u[a], q[i].key) = 0 /\ shareOf(r, q[i].key) = 0
  BY DEF shareOf, KeySet
<1>2. /\ upvotesIn(u, q[i].key) \in Nat
      /\ upvotesIn([u EXCEPT ![a] = r], q[i].key)
            = upvotesIn(u, q[i].key) - shareOf(u[a], q[i].key) + shareOf(r, q[i].key)
  BY UpvoteChange
<1>3. q[i].value = upvotesIn(u, q[i].key)
  BY DEF Upvoted
<1> QED BY <1>1, <1>2, <1>3

\* A queued proposal whose upvotes change moves to where they belong in the queue.
PlacedFor(s, id, u, a, r, v, q) ==
    Upvoted(q, [u EXCEPT ![a] = r]) /\ KeySet(q) = KeySet(s)

\* Sorting a proposal anew, with an upvote added or revoked, shows the upvotes it has.
LEMMA UpvotePlaced ==
    ASSUME NEW s \in Seq(Element), DistinctKeys(s), NEW id \in KeySet(s), id \in Nat,
           NEW u \in [Voters -> UpvoteRecord], NEW a \in Voters, NEW r \in UpvoteRecord,
           Upvoted(s, u),
           \A k \in KeySet(s) \ {id} : u[a].proposalId # k /\ r.proposalId # k,
           NEW v \in Nat, v = getValue(s, id) - shareOf(u[a], id) + shareOf(r, id),
           NEW q \in Placements(Without(s, id), id, v)
    PROVE  PlacedFor(s, id, u, a, r, v, q)
<1> DEFINE w == Without(s, id)
<1>1. /\ w \in Seq(Element) /\ DistinctKeys(w) /\ KeySet(w) = KeySet(s) \ {id}
      /\ \A i \in DOMAIN w : \E j \in DOMAIN s : w[i] = s[j] /\ s[j].key # id
  BY WithoutProperties, SMTT(30)
<1> HIDE DEF w
<1>2. /\ KeySet(q) = KeySet(w) \cup {id}
      /\ \A i \in DOMAIN q : \/ q[i] = [key |-> id, value |-> v]
                             \/ \E j \in DOMAIN w : q[i] = w[j]
      /\ Sorted(q)
  <2>1. [key |-> id, value |-> v] \in Element
    BY DEF Element
  <2>2. q \in Placements(w, id, v) /\ id \notin KeySet(w)
    BY <1>1 DEF w
  <2> QED BY <1>1, <2>1, <2>2, PlacementsProperties
<1>3. getValue(s, id) = upvotesIn(u, id)
  <2>1. Position(s, id) \in DOMAIN s /\ s[Position(s, id)].key = id
    BY DEF KeySet, Position
  <2> QED BY <2>1 DEF Upvoted, getValue
<1>4. ASSUME NEW i \in DOMAIN q
      PROVE  q[i].value = upvotesIn([u EXCEPT ![a] = r], q[i].key)
  <2>1. CASE q[i] = [key |-> id, value |-> v]
    <3>1. upvotesIn([u EXCEPT ![a] = r], id)
             = upvotesIn(u, id) - shareOf(u[a], id) + shareOf(r, id)
      BY UpvoteChange
    <3> QED BY <1>3, <2>1, <3>1
  <2>2. CASE \E j \in DOMAIN w : q[i] = w[j]
    <3>1. PICK j \in DOMAIN s : q[i] = s[j] /\ s[j].key # id
      BY <1>1, <2>2
    <3>2. s[j].key \in KeySet(s) \ {id}
      BY <3>1 DEF KeySet
    <3>3. shareOf(u[a], s[j].key) = 0 /\ shareOf(r, s[j].key) = 0
      BY <3>2 DEF shareOf
    <3>4. /\ upvotesIn(u, s[j].key) \in Nat
          /\ upvotesIn([u EXCEPT ![a] = r], s[j].key)
                = upvotesIn(u, s[j].key) - shareOf(u[a], s[j].key) + shareOf(r, s[j].key)
      BY UpvoteChange
    <3>5. s[j].value = upvotesIn(u, s[j].key)
      BY DEF Upvoted
    <3> QED BY <3>1, <3>3, <3>4, <3>5
  <2> QED BY <1>2, <2>1, <2>2
<1> QED BY <1>1, <1>2, <1>4 DEF Upvoted, PlacedFor

\* A step that changes the queue and the upvote records together.
LEMMA UpvoteStep ==
    ASSUME NEW h, Sound(h), Tallied(h), NEW q, KeySet(q) \subseteq KeySet(h.queue),
           gov'.queue = q, gov'.proposals = h.proposals, gov'.dequeued = h.dequeued,
           UNCHANGED referendumVotes,
           \A b \in Voters : upvote'[b].proposalId \in {0} \cup DOMAIN h.proposals,
           Upvoted(q, upvote')
    PROVE  Tallied(gov)' /\ unslotted(gov)' = unslotted(h)
<1>1. gov'.queue = q /\ gov'.proposals = h.proposals /\ gov'.dequeued = h.dequeued
  OBVIOUS
<1>2. UpvotesKnown(gov)' /\ RecordsKnown(gov)' /\ ProposersKnown(gov)'
  BY <1>1 DEF Tallied, UpvotesKnown, RecordsKnown, ProposersKnown
<1>3. QueuedUntouched(gov)'
  <2> SUFFICES ASSUME NEW i \in DOMAIN q
               PROVE  /\ \A v \in VoteValues : h.proposals[q[i].key].votes[v] = 0
                      /\ ~h.proposals[q[i].key].approved
    BY <1>1 DEF QueuedUntouched
  <2>1. PICK j \in DOMAIN h.queue : h.queue[j].key = q[i].key
    BY DEF KeySet
  <2> QED BY <2>1 DEF Tallied, QueuedUntouched
<1>4. UpvotesMatch(gov)'
  BY <1>1 DEF Upvoted, UpvotesMatch, upvotesIn, upvotesFor, shareOf
<1>5. VotesMatch(gov)'
  BY <1>1 DEF Tallied, VotesMatch, votesAt, voteRecord
<1>6. unslotted(gov)' = unslotted(h)
  BY <1>1 DEF unslotted, depositsOf, SlotIds
<1> QED BY <1>2, <1>3, <1>4, <1>5, <1>6 DEF Tallied

\* The vote records kept for a slot, and what one counts for a value of a proposal.
recordIn(records, a, i) == IF i \in DOMAIN records[a] THEN records[a][i] ELSE NoVote

countsFor(record, id, v) ==
    IF record.proposalId = id /\ record.value = v THEN record.weight ELSE 0

votesIn(records, i, id, v) ==
    SumFunction([a \in Voters |-> countsFor(recordIn(records, a, i), id, v)])

RecordsIn(records) ==
    /\ DOMAIN records = Voters
    /\ \A a \in Voters : \A i \in DOMAIN records[a] : records[a][i] \in VoteRecord

recorded(records, a, index, record) ==
    [records EXCEPT ![a] = [i \in DOMAIN @ \cup {index} |-> IF i = index THEN record ELSE @[i]]]

\* The weight of a vote record counts for a proposal as a natural number.
LEMMA RecordInType ==
    ASSUME NEW r, RecordsIn(r), NEW a \in Voters, NEW i, NEW id, NEW v
    PROVE  /\ recordIn(r, a, i).weight \in Nat
           /\ countsFor(recordIn(r, a, i), id, v) \in Nat
<1>1. CASE i \in DOMAIN r[a]
  <2>1. recordIn(r, a, i) \in VoteRecord
    BY <1>1 DEF RecordsIn, recordIn
  <2> QED BY <2>1 DEF VoteRecord, countsFor
<1>2. CASE i \notin DOMAIN r[a]
  <2>1. recordIn(r, a, i) = NoVote
    BY <1>2 DEF recordIn
  <2> QED BY <2>1 DEF NoVote, countsFor
<1> QED BY <1>1, <1>2

\* Replacing one vote record changes the votes in its slot alone.
LEMMA VoteChange ==
    ASSUME NEW r, RecordsIn(r), NEW a \in Voters, NEW index, NEW n \in VoteRecord,
           NEW i, NEW id, NEW v
    PROVE  /\ votesIn(r, i, id, v) \in Nat
           /\ votesIn(recorded(r, a, index, n), i, id, v) =
                 IF i = index
                 THEN votesIn(r, i, id, v) - countsFor(recordIn(r, a, i), id, v)
                         + countsFor(n, id, v)
                 ELSE votesIn(r, i, id, v)
<1> DEFINE s == recorded(r, a, index, n)
           f == [b \in Voters |-> countsFor(recordIn(r, b, i), id, v)]
           k == [b \in Voters |-> countsFor(recordIn(s, b, i), id, v)]
<1>1. \A b \in Voters : countsFor(recordIn(r, b, i), id, v) \in Nat
  BY RecordInType
<1>2. f \in [Voters -> Int] /\ \A b \in Voters : f[b] \in Nat
  BY <1>1
<1>3. \A b \in Voters : recordIn(s, b, i) = IF b = a /\ i = index THEN n ELSE recordIn(r, b, i)
  <2>1. /\ s[a] = [j \in DOMAIN r[a] \cup {index} |-> IF j = index THEN n ELSE r[a][j]]
        /\ \A b \in Voters \ {a} : s[b] = r[b]
    BY DEF recorded, RecordsIn
  <2> HIDE DEF s
  <2>2. recordIn(s, a, i) = IF i = index THEN n ELSE recordIn(r, a, i)
    BY <2>1 DEF recordIn
  <2>3. \A b \in Voters \ {a} : recordIn(s, b, i) = recordIn(r, b, i)
    BY <2>1 DEF recordIn
  <2> QED BY <2>2, <2>3
<1>4. SumFunction(f) = votesIn(r, i, id, v) /\ SumFunction(k) = votesIn(s, i, id, v)
  BY DEF votesIn
<1>5. SumFunction(f) \in Nat
  <2> HIDE DEF f
  <2> QED BY <1>2, VotersFinite, SumOfAllType
<1>6. CASE i # index
  <2>1. k = f
    <3> HIDE DEF s
    <3> QED BY <1>3, <1>6
  <2> QED BY <1>4, <1>5, <1>6, <2>1
<1>7. CASE i = index
  <2>1. /\ DOMAIN k = Voters /\ k[a] = countsFor(n, id, v)
        /\ f[a] = countsFor(recordIn(r, a, i), id, v)
        /\ \A b \in Voters \ {a} : k[b] = f[b]
    <3> HIDE DEF s
    <3> QED BY <1>3, <1>7
  <2>2. countsFor(n, id, v) \in Int
    BY DEF VoteRecord, countsFor
  <2> HIDE DEF f, k, s
  <2>3. SumFunction(k) = SumFunction(f) - f[a] + countsFor(n, id, v)
    BY <1>2, <2>1, <2>2, VotersFinite, SumOfAllChange
  <2> QED BY <1>4, <1>5, <1>7, <2>1, <2>3 DEF s
<1> QED BY <1>6, <1>7

\* updateVote takes back what the record counted and adds what the new one counts.
LEMMA UpdateVoteCounts ==
    ASSUME NEW votes \in [VoteValues -> Nat], NEW r, r = NoVote \/ r \in VoteRecord,
           NEW id, id # 0, NEW value \in VoteValues, NEW n,
           n.value = value, n.proposalId = id, n.weight \in Nat,
           NEW previous, previous = (IF r.proposalId = id THEN r.value ELSE "None"),
           NEW v \in VoteValues
    PROVE  updateVote(votes, r.weight, n.weight, previous, value)[v]
              = votes[v] - countsFor(r, id, v) + countsFor(n, id, v)
<1>1. r.weight \in Nat /\ "None" \notin VoteValues
  BY DEF NoVote, VoteRecord, VoteValues
<1>2. countsFor(n, id, v) = IF v = value THEN n.weight ELSE 0
  BY DEF countsFor
<1>3. CASE r.proposalId = id
  <2>1. r.value \in VoteValues /\ previous = r.value
    BY <1>3 DEF NoVote, VoteRecord
  <2>2. countsFor(r, id, v) = IF v = previous THEN r.weight ELSE 0
    BY <1>3, <2>1 DEF countsFor
  <2> QED BY <1>1, <1>2, <2>1, <2>2 DEF updateVote
<1>4. CASE r.proposalId # id
  <2>1. previous = "None" /\ countsFor(r, id, v) = 0
    BY <1>4 DEF countsFor
  <2> QED BY <1>1, <1>2, <2>1 DEF updateVote
<1> QED BY <1>3, <1>4

\* A vote changes the record of its slot and the totals of the proposal in it.
LEMMA VoteStep ==
    ASSUME NEW g, Sound(g), Tallied(g), NEW id, NEW index, isDequeuedProposal(g, id, index),
           RecordsIn(referendumVotes), NEW a \in Voters, NEW n \in VoteRecord,
           n.proposalId = id,
           NEW p, p.proposer = g.proposals[id].proposer, p.deposit = g.proposals[id].deposit,
           \A v \in VoteValues :
              p.votes[v] = g.proposals[id].votes[v]
                              - countsFor(recordIn(referendumVotes, a, index), id, v)
                              + countsFor(n, id, v),
           NEW h, h = [g EXCEPT !.proposals[id] = p], gov' = h,
           NEW s, s = recorded(referendumVotes, a, index, n), referendumVotes' = s,
           UNCHANGED upvote
    PROVE  Tallied(gov)' /\ unslotted(gov)' = unslotted(g)
<1>0. /\ index \in DOMAIN g.dequeued /\ g.dequeued[index] = id /\ id # 0
      /\ id \in DOMAIN g.proposals
      /\ \A i \in DOMAIN g.queue : g.queue[i].key # id
      /\ \A t \in DOMAIN g.dequeued : g.dequeued[t] = id => t = index
      /\ \A t \in DOMAIN g.dequeued : g.dequeued[t] # 0 => g.dequeued[t] \in DOMAIN g.proposals
  <2>1. AloneIn(g, id, index)
    BY DequeuedAlone
  <2> QED BY <2>1 DEF AloneIn
<1>1. /\ UpvotesKnown(h) /\ RecordsKnown(h) /\ QueuedUntouched(h) /\ ProposersKnown(h)
      /\ UpvotesMatch(h) /\ unslotted(h) = unslotted(g)
      /\ h.dequeued = g.dequeued /\ h.queue = g.queue
      /\ DOMAIN h.proposals = DOMAIN g.proposals
      /\ h.proposals[id] = p
      /\ \A i \in DOMAIN g.proposals : i # id => h.proposals[i] = g.proposals[i]
  BY DequeuedChange
<1>2. gov' = h /\ referendumVotes' = s /\ upvote' = upvote
  OBVIOUS
<1>3. \A b \in Voters : \A i \in DOMAIN s[b] :
         \/ s[b][i] = n
         \/ i \in DOMAIN referendumVotes[b] /\ s[b][i] = referendumVotes[b][i]
  <2>1. /\ s[a] = [j \in DOMAIN referendumVotes[a] \cup {index} |->
                     IF j = index THEN n ELSE referendumVotes[a][j]]
        /\ \A b \in Voters \ {a} : s[b] = referendumVotes[b]
    BY DEF recorded, RecordsIn
  <2> QED BY <2>1
<1>4. UpvotesKnown(gov)' /\ QueuedUntouched(gov)' /\ ProposersKnown(gov)' /\ UpvotesMatch(gov)'
  <2>0. UpvotesKnown(gov)'
    BY <1>1, <1>2 DEF UpvotesKnown
  <2>1. QueuedUntouched(gov)'
    BY <1>1, <1>2 DEF QueuedUntouched
  <2>2. ProposersKnown(gov)'
    BY <1>1, <1>2 DEF ProposersKnown
  <2>3. UpvotesMatch(gov)'
    BY <1>1, <1>2 DEF UpvotesMatch, upvotesFor
  <2> QED BY <2>0, <2>1, <2>2, <2>3
<1>5. RecordsKnown(gov)'
  <2>1. id \in DOMAIN h.proposals /\ id \notin KeySet(h.queue)
    BY <1>0, <1>1 DEF KeySet
  <2>2. \A b \in Voters : \A i \in DOMAIN s[b] :
           s[b][i].proposalId \in DOMAIN h.proposals /\ s[b][i].proposalId \notin KeySet(h.queue)
    BY <1>1, <1>3, <2>1 DEF RecordsKnown
  <2> QED BY <1>2, <2>2 DEF RecordsKnown
<1>6. \A t \in DOMAIN g.dequeued : \A v \in VoteValues : g.dequeued[t] # 0 =>
         h.proposals[g.dequeued[t]].votes[v] = votesIn(s, t, g.dequeued[t], v)
  <2> SUFFICES ASSUME NEW t \in DOMAIN g.dequeued, NEW v \in VoteValues, g.dequeued[t] # 0
               PROVE  h.proposals[g.dequeued[t]].votes[v] = votesIn(s, t, g.dequeued[t], v)
    OBVIOUS
  <2>1. g.proposals[g.dequeued[t]].votes[v] = votesIn(referendumVotes, t, g.dequeued[t], v)
    <3>1. g.proposals[g.dequeued[t]].votes[v] = votesAt(t, g.dequeued[t], v)
      BY DEF Tallied, VotesMatch
    <3> QED BY <3>1 DEF votesAt, votesIn, voteRecord, recordIn, countsFor
  <2>2. votesIn(s, t, g.dequeued[t], v) =
           IF t = index
           THEN votesIn(referendumVotes, t, g.dequeued[t], v)
                   - countsFor(recordIn(referendumVotes, a, t), g.dequeued[t], v)
                   + countsFor(n, g.dequeued[t], v)
           ELSE votesIn(referendumVotes, t, g.dequeued[t], v)
    BY VoteChange
  <2>3. CASE t = index
    BY <1>0, <1>1, <2>1, <2>2, <2>3
  <2>4. CASE t # index
    <3>1. h.proposals[g.dequeued[t]] = g.proposals[g.dequeued[t]]
      BY <1>0, <1>1, <2>4
    <3> QED BY <2>1, <2>2, <2>4, <3>1
  <2> QED BY <2>3, <2>4
<1>7. VotesMatch(gov)'
  <2>1. \A t, k, v : votesAt(t, k, v)' = votesIn(referendumVotes', t, k, v)
    BY DEF votesAt, votesIn, voteRecord, recordIn, countsFor
  <2> QED BY <1>1, <1>2, <1>6, <2>1 DEF VotesMatch
<1>8. unslotted(gov)' = unslotted(g)
  BY <1>1, <1>2 DEF unslotted, depositsOf, SlotIds
<1> QED BY <1>4, <1>5, <1>7, <1>8 DEF Tallied

-----------------------------------------------------------------------------
(***************************************************************************)
(* The invariant                                                           *)
(***************************************************************************)
\* A new Governance contract satisfies the inductive invariant.
LEMMA InitTotals == Init => TotalsInv
<1> SUFFICES ASSUME Init PROVE TotalsInv
  OBVIOUS
<1>1. IInv
  BY InitInvariant
<1>2. /\ DOMAIN gov.proposals = {} /\ DOMAIN gov.queue = {} /\ DOMAIN gov.dequeued = {}
      /\ SlotIds(gov) = {}
  BY DEF Init, SlotIds
<1>3. Tallied(gov)
  <2>1. UpvotesKnown(gov)
    BY DEF Init, UpvotesKnown, NoUpvote
  <2>2. RecordsKnown(gov)
    BY DEF Init, RecordsKnown
  <2>3. QueuedUntouched(gov) /\ ProposersKnown(gov)
    BY <1>2 DEF QueuedUntouched, ProposersKnown
  <2>4. UpvotesMatch(gov) /\ VotesMatch(gov)
    BY <1>2 DEF UpvotesMatch, VotesMatch, Sorted
  <2> QED BY <2>1, <2>2, <2>3, <2>4 DEF Tallied
<1>4. MoneyTyped
  BY DEF Init, MoneyTyped
<1>5. SumFunction(refundedDeposits) = 0
  <2>1. DOMAIN refundedDeposits = Proposers /\ \A a \in Proposers : refundedDeposits[a] = 0
    BY DEF Init
  <2> QED BY <2>1, GovernanceAssumption, SumOfAll, SumZero
<1>6. unslotted(gov) = 0
  <2>1. DOMAIN gov.proposals \ SlotIds(gov) = {}
    BY <1>2
  <2> QED BY <2>1, SumEmpty DEF unslotted
<1>7. Accounted
  BY <1>5, <1>6 DEF Init, Accounted
<1> QED BY <1>1, <1>3, <1>4, <1>7 DEF TotalsInv

\* The money of a call that starts with dequeueProposalsIfReady: what it moves is d.
LEMMA MoneyStep ==
    ASSUME IInv, MoneyTyped, Tallied(gov), Accounted,
           NEW g, g = dequeueProposalsIfReady(gov), refundedDeposits' = refundsOfDequeue(gov),
           NEW d \in Int, unslotted(gov)' = unslotted(g) + d,
           balance' \in Int, spent' \in Int, balance' + spent' = balance + spent + d,
           constitution' \in [ConstitutionKeys -> Nat]
    PROVE  MoneyTyped' /\ Accounted'
<1>1. Sound(gov) /\ Ready /\ ProposersKnown(gov)
  BY DEF IInv, RecordsTyped, Tallied
<1>2. /\ unslotted(g) \in Int
      /\ SumFunction(refundsOfDequeue(gov)) + unslotted(g)
            = SumFunction(refundedDeposits) + unslotted(gov)
  BY <1>1, DequeueMoney
<1>3. refundsOfDequeue(gov) \in [Proposers -> Nat]
  BY <1>1, RefundsOfDequeue
<1>4. SumFunction(refundsOfDequeue(gov)) \in Int
  <2>1. refundsOfDequeue(gov) \in [Proposers -> Int]
    BY <1>3
  <2> QED BY <2>1, GovernanceAssumption, SumOfAllType
<1>5. MoneyTyped'
  BY <1>3 DEF MoneyTyped
<1>6. Accounted'
  <2>1. balance \in Int /\ spent \in Int
    BY DEF MoneyTyped
  <2>2. balance + spent = SumFunction(refundsOfDequeue(gov)) + unslotted(g)
    BY <1>2 DEF Accounted
  <2> DEFINE refunds == SumFunction(refundsOfDequeue(gov))
             queued == unslotted(g)
  <2>3. balance' + spent' = refunds + (queued + d)
    <3>1. refunds \in Int /\ queued \in Int /\ balance + spent = refunds + queued
      BY <1>2, <1>4, <2>2
    <3> DEFINE before == balance + spent
               after == balance' + spent'
    <3>2. before \in Int /\ after = before + d /\ before = refunds + queued
      <4>1. before \in Int
        BY <2>1
      <4>2. after = before + d
        OBVIOUS
      <4>3. before = refunds + queued
        BY <3>1
      <4> QED BY <4>1, <4>2, <4>3
    <3> HIDE DEF refunds, queued, before
    <3>3. after = refunds + (queued + d)
      <4> HIDE DEF after
      <4> QED BY <3>1, <3>2
    <3> QED BY <3>3
  <2>4. SumFunction(refundedDeposits') = refunds
    OBVIOUS
  <2>5. unslotted(gov)' = queued + d
    OBVIOUS
  <2> HIDE DEF refunds, queued
  <2>6. balance' + spent' = SumFunction(refundedDeposits') + unslotted(gov)'
    BY <2>3, <2>4, <2>5
  <2> QED BY <2>6 DEF Accounted
<1> QED BY <1>5, <1>6

\* The setters of a payload leave thresholds that are natural numbers, and it pays out
\* an amount.
LEMMA PayloadTyped ==
    ASSUME MoneyTyped, NEW txs \in Payloads \cup {<<>>}
    PROVE  /\ amendConstitution(txs) \in [ConstitutionKeys -> Nat]
           /\ valueOf(txs) \in Int
<1>1. IsFiniteSet(DOMAIN txs) /\ \A j \in DOMAIN txs : txs[j].value \in Nat /\ txs[j].to \in Nat
  <2>1. CASE txs \in Payloads
    BY <2>1, GovernanceAssumption DEF IsPayload
  <2>2. CASE txs = <<>>
    <3>1. DOMAIN txs = {}
      BY <2>2
    <3> QED BY <3>1, FS_EmptySet
  <2> QED BY <2>1, <2>2
<1>2. amendConstitution(txs) \in [ConstitutionKeys -> Nat]
  <2> SUFFICES ASSUME NEW key \in ConstitutionKeys
               PROVE  amendConstitution(txs)[key] \in Nat
    BY DEF amendConstitution
  <2> DEFINE setters == {j \in DOMAIN txs : txs[j].set = "constitution" /\ txs[j].key = key}
  <2>1. amendConstitution(txs)[key] =
           IF setters = {} THEN constitution[key] ELSE txs[CHOOSE j \in setters : TRUE].to
    BY DEF amendConstitution
  <2>2. setters # {} => (CHOOSE j \in setters : TRUE) \in DOMAIN txs
    OBVIOUS
  <2> HIDE DEF setters
  <2> QED BY <1>1, <2>1, <2>2 DEF MoneyTyped
<1>3. valueOf(txs) \in Int
  <2> DEFINE f == [j \in DOMAIN txs |-> txs[j].value]
  <2>1. f \in [DOMAIN txs -> Int]
    BY <1>1
  <2> HIDE DEF f
  <2>2. SumFunction(f) \in Int
    BY <1>1, <2>1, SumOfAllType
  <2> QED BY <2>2 DEF valueOf, f
<1> QED BY <1>2, <1>3

\* Every operation of Governance.sol keeps its books.
LEMMA NextTotals == TotalsInv /\ [Next]_vars => TotalsInv'
<1> SUFFICES ASSUME TotalsInv, [Next]_vars PROVE TotalsInv'
  OBVIOUS
<1> DEFINE g == dequeueProposalsIfReady(gov)
<1>0. IInv /\ Sound(gov) /\ Ready /\ RecordsTyped /\ MoneyTyped /\ Tallied(gov) /\ Accounted
  BY DEF TotalsInv, IInv, RecordsTyped
<1>i. IInv'
  BY <1>0, NextInvariant
<1>g. Sound(g) /\ Tallied(g) /\ unslotted(g) \in Int /\ g \in GovState
  <2>1. Sound(g)
    BY <1>0, DequeueSound
  <2>2. Tallied(g)
    BY <1>0, DequeueTallied
  <2>3. unslotted(g) \in Int
    <3>1. ProposersKnown(gov)
      BY <1>0 DEF Tallied
    <3> QED BY <1>0, <3>1, DequeueMoney
  <2> QED BY <2>1, <2>2, <2>3 DEF Sound
<1>m. balance \in Int /\ spent \in Int /\ constitution \in [ConstitutionKeys -> Nat]
  BY <1>0 DEF MoneyTyped
<1>n. ASSUME refundedDeposits' = refundsOfDequeue(gov), unslotted(gov)' = unslotted(g),
             UNCHANGED <<balance, spent, constitution>>
      PROVE  MoneyTyped' /\ Accounted'
  <2> HIDE DEF g
  <2>1. /\ unslotted(gov)' = unslotted(g) + 0
        /\ balance' + spent' = balance + spent + 0
        /\ balance' \in Int /\ spent' \in Int /\ constitution' \in [ConstitutionKeys -> Nat]
    BY <1>n, <1>g, <1>m
  <2> QED BY <1>0, <1>n, <2>1, MoneyStep DEF g
<1>u. ASSUME UNCHANGED <<gov, refundedDeposits, balance, spent, constitution, upvote,
                         referendumVotes>>
      PROVE  TotalsInv'
  <2>1. Tallied(gov)'
    BY <1>0, <1>u, TalliedStep
  <2>2. MoneyTyped'
    BY <1>0, <1>u DEF MoneyTyped
  <2>3. Accounted'
    BY <1>0, <1>u DEF Accounted, unslotted, depositsOf, SlotIds
  <2> QED BY <1>i, <2>1, <2>2, <2>3 DEF TotalsInv
<1> HIDE DEF g
<1>1. CASE Tick
  BY <1>1, <1>u DEF Tick, ruleVars, voterVars, history
<1>2. CASE Dequeue
  <2>1. gov' = g /\ unslotted(gov)' = unslotted(g)
    BY <1>2 DEF Dequeue, g, unslotted, depositsOf, SlotIds
  <2>2. Tallied(gov)'
    BY <1>2, <1>g, <2>1, TalliedStep DEF Dequeue, voterVars
  <2>3. MoneyTyped' /\ Accounted'
    BY <1>2, <1>n, <2>1 DEF Dequeue, ruleVars, history
  <2> QED BY <1>i, <2>2, <2>3 DEF TotalsInv
<1>3. ASSUME NEW a \in Proposers, NEW d \in Deposits, NEW txs \in Payloads, Propose(a, d, txs)
      PROVE  TotalsInv'
  <2> DEFINE new == make(a, d, txs)
             h == [g EXCEPT !.proposals = Append(g.proposals, new),
                            !.queue = Append(g.queue, [key |-> Len(g.proposals) + 1,
                                                       value |-> 0])]
  <2>1. /\ new \in Proposal /\ new.proposer \in Proposers /\ new.deposit = d
        /\ ~new.approved /\ \A v \in VoteValues : new.votes[v] = 0
    <3>1. d \in Nat /\ now \in Nat /\ now > 0
      BY <1>0, GovernanceAssumption DEF Ready
    <3> DEFINE noVotes == [v \in VoteValues |-> 0]
    <3>2. noVotes \in [VoteValues -> Nat] /\ \A v \in VoteValues : noVotes[v] = 0
      OBVIOUS
    <3>3. new = [proposer |-> a, deposit |-> d, timestamp |-> now, approved |-> FALSE,
                 votes |-> noVotes, networkWeight |-> 0, transactions |-> txs]
      BY DEF make
    <3> HIDE DEF noVotes, new
    <3> QED BY <3>1, <3>2, <3>3 DEF Proposal
  <2> HIDE DEF new
  <2>2. gov' = h
    BY <1>3 DEF Propose, g, new
  <2>3. Tallied(h) /\ unslotted(h) = unslotted(g) + new.deposit
    BY <1>g, <2>1, ProposeTallied
  <2> HIDE DEF h
  <2>4. Tallied(gov)'
    BY <1>3, <2>2, <2>3, TalliedStep DEF Propose, voterVars
  <2>5. unslotted(gov)' = unslotted(g) + d
    BY <2>1, <2>2, <2>3 DEF unslotted, depositsOf, SlotIds
  <2>6. d \in Int
    BY GovernanceAssumption
  <2>7. /\ refundedDeposits' = refundsOfDequeue(gov)
        /\ balance' \in Int /\ spent' \in Int /\ balance' + spent' = balance + spent + d
        /\ constitution' \in [ConstitutionKeys -> Nat]
    BY <1>3, <1>m, <2>6 DEF Propose, ruleVars, history
  <2>8. MoneyTyped' /\ Accounted'
    BY <1>0, <2>5, <2>6, <2>7, MoneyStep DEF g
  <2> QED BY <1>i, <2>4, <2>8 DEF TotalsInv
<1>4. ASSUME NEW id, UpvoteExpired(id) PROVE TotalsInv'
  <2> DEFINE h == removeIfQueuedAndExpired(g, id)
  <2>1. Tallied(h) /\ unslotted(h) = unslotted(g)
    BY <1>g, RemoveExpiredTallied
  <2>2. gov' = h
    BY <1>4 DEF UpvoteExpired, g
  <2> HIDE DEF h
  <2>3. unslotted(gov)' = unslotted(g)
    BY <2>1, <2>2 DEF unslotted, depositsOf, SlotIds
  <2>4. Tallied(gov)'
    BY <1>4, <2>1, <2>2, TalliedStep DEF UpvoteExpired, voterVars
  <2>5. MoneyTyped' /\ Accounted'
    BY <1>4, <1>n, <2>3 DEF UpvoteExpired, ruleVars, history
  <2> QED BY <1>i, <2>4, <2>5 DEF TotalsInv
<1>5. ASSUME NEW id, NEW a \in Voters, Upvote(a, id) PROVE TotalsInv'
  <2> DEFINE h == removeIfQueuedAndExpired(g, upvote[a].proposalId)
             v == getValue(h.queue, id) + locked[a]
             r == [proposalId |-> id, weight |-> locked[a]]
  <2>1. Sound(h) /\ Tallied(h) /\ unslotted(h) = unslotted(g)
    BY <1>g, RemoveExpiredSound, RemoveExpiredTallied
  <2>2. /\ id \in KeySet(h.queue) /\ upvote[a].proposalId \notin KeySet(h.queue)
        /\ \E q \in Placements(Without(h.queue, id), id, v) : gov' = [h EXCEPT !.queue = q]
        /\ upvote' = [upvote EXCEPT ![a] = r]
    BY <1>5 DEF Upvote, inQueue, g
  <2> HIDE DEF h
  <2>3. PICK q \in Placements(Without(h.queue, id), id, v) : gov' = [h EXCEPT !.queue = q]
    BY <2>2
  <2>4. /\ h \in GovState /\ h.queue \in Seq(Element) /\ DistinctKeys(h.queue)
        /\ Upvoted(h.queue, upvote) /\ upvote \in [Voters -> UpvoteRecord]
    <3>1. h \in GovState /\ InOnePlaceIn(h)
      BY <2>1 DEF Sound
    <3>2. UpvotesMatch(h)
      BY <2>1 DEF Tallied
    <3>3. Upvoted(h.queue, upvote)
      BY <3>2 DEF UpvotesMatch, Upvoted, upvotesFor, upvotesIn, shareOf
    <3>4. upvote \in [Voters -> UpvoteRecord]
      BY <1>0 DEF RecordsTyped, UpvoteRecord
    <3>5. DistinctKeys(h.queue)
      BY <3>1 DEF InOnePlaceIn, DistinctKeys
    <3> QED BY <3>1, <3>3, <3>4, <3>5, StateFields
  <2>5. id \in Nat /\ id \in DOMAIN h.proposals /\ getValue(h.queue, id) \in Nat
    <3>1. /\ Position(h.queue, id) \in 1..Len(h.queue)
          /\ h.queue[Position(h.queue, id)].key = id
      BY <2>2, <2>4, LenProperties DEF KeySet, Position
    <3>2. h.queue[Position(h.queue, id)] \in Element
      BY <2>4, <3>1, ElementOfSeq
    <3>3. \A i \in DOMAIN h.queue : h.queue[i].key \in DOMAIN h.proposals
      BY <2>1 DEF Sound, InOnePlaceIn
    <3>4. Position(h.queue, id) \in DOMAIN h.queue
      BY <2>4, <3>1, LenProperties
    <3> QED BY <3>1, <3>2, <3>3, <3>4 DEF Element, getValue
  <2>6. locked[a] \in Nat
    BY <1>0 DEF RecordsTyped
  <2>7. r \in UpvoteRecord /\ v \in Nat
    BY <2>5, <2>6 DEF UpvoteRecord
  <2>8. /\ \A k \in KeySet(h.queue) \ {id} : upvote[a].proposalId # k /\ r.proposalId # k
        /\ v = getValue(h.queue, id) - shareOf(upvote[a], id) + shareOf(r, id)
    BY <2>2, <2>5, <2>6 DEF shareOf
  <2>9. \A b \in Voters : upvote'[b].proposalId \in {0} \cup DOMAIN h.proposals
    <3>1. \A b \in Voters : upvote[b].proposalId \in {0} \cup DOMAIN h.proposals
      BY <2>1 DEF Tallied, UpvotesKnown
    <3> QED BY <2>2, <2>4, <2>5, <3>1
  <2> HIDE DEF v, r
  <2>10. Upvoted(q, [upvote EXCEPT ![a] = r]) /\ KeySet(q) = KeySet(h.queue)
    <3>1. PlacedFor(h.queue, id, upvote, a, r, v, q)
      BY <2>2, <2>3, <2>4, <2>5, <2>7, <2>8, UpvotePlaced
    <3> QED BY <3>1 DEF PlacedFor
  <2>11. gov'.queue = q /\ gov'.proposals = h.proposals /\ gov'.dequeued = h.dequeued
    BY <2>3, <2>4 DEF GovState
  <2>12. UNCHANGED referendumVotes
    BY <1>5 DEF Upvote
  <2>13. Tallied(gov)' /\ unslotted(gov)' = unslotted(h)
    BY <2>1, <2>2, <2>9, <2>10, <2>11, <2>12, UpvoteStep
  <2>14. MoneyTyped' /\ Accounted'
    BY <1>5, <1>n, <2>1, <2>13 DEF Upvote, ruleVars, history
  <2> QED BY <1>i, <2>13, <2>14 DEF TotalsInv
<1>6. ASSUME NEW a \in Voters, RevokeUpvote(a) PROVE TotalsInv'
  <2> DEFINE id == upvote[a].proposalId
             weight == upvote[a].weight
             h == removeIfQueuedAndExpired(g, id)
             v == getValue(h.queue, id) - weight
  <2>1. Sound(h) /\ Tallied(h) /\ unslotted(h) = unslotted(g)
    BY <1>g, RemoveExpiredSound, RemoveExpiredTallied
  <2>2. /\ \/ /\ id \in KeySet(h.queue)
              /\ getValue(h.queue, id) >= weight
              /\ \E q \in Placements(Without(h.queue, id), id, v) : gov' = [h EXCEPT !.queue = q]
           \/ id \notin KeySet(h.queue) /\ gov' = h
        /\ upvote' = [upvote EXCEPT ![a] = NoUpvote]
        /\ id # 0
    BY <1>6 DEF RevokeUpvote, inQueue, g
  <2> HIDE DEF h
  <2>3. /\ h \in GovState /\ h.queue \in Seq(Element) /\ DistinctKeys(h.queue)
        /\ Upvoted(h.queue, upvote) /\ upvote \in [Voters -> UpvoteRecord]
    <3>1. h \in GovState /\ InOnePlaceIn(h)
      BY <2>1 DEF Sound
    <3>2. UpvotesMatch(h)
      BY <2>1 DEF Tallied
    <3>3. Upvoted(h.queue, upvote)
      BY <3>2 DEF UpvotesMatch, Upvoted, upvotesFor, upvotesIn, shareOf
    <3>4. upvote \in [Voters -> UpvoteRecord]
      BY <1>0 DEF RecordsTyped, UpvoteRecord
    <3>5. DistinctKeys(h.queue)
      BY <3>1 DEF InOnePlaceIn, DistinctKeys
    <3> QED BY <3>1, <3>3, <3>4, <3>5, StateFields
  <2>4. id \in Nat /\ weight \in Nat
    BY <1>0 DEF RecordsTyped
  <2>5. NoUpvote \in UpvoteRecord /\ NoUpvote.proposalId \notin KeySet(h.queue)
    <3>1. \A i \in DOMAIN h.queue : h.queue[i].key \in DOMAIN h.proposals
      BY <2>1 DEF Sound, InOnePlaceIn
    <3>2. 0 \notin KeySet(h.queue)
      BY <2>1, <3>1, SlotIdsOf DEF KeySet
    <3> QED BY <3>2 DEF NoUpvote, UpvoteRecord
  <2>6. \A b \in Voters : upvote'[b].proposalId \in {0} \cup DOMAIN h.proposals
    <3>1. \A b \in Voters : upvote[b].proposalId \in {0} \cup DOMAIN h.proposals
      BY <2>1 DEF Tallied, UpvotesKnown
    <3> QED BY <2>2, <2>3, <3>1 DEF NoUpvote
  <2>7. UNCHANGED referendumVotes
    BY <1>6 DEF RevokeUpvote
  <2>8. \E q : /\ KeySet(q) = KeySet(h.queue) /\ Upvoted(q, upvote')
               /\ gov'.queue = q /\ gov'.proposals = h.proposals /\ gov'.dequeued = h.dequeued
    <3>1. CASE id \notin KeySet(h.queue)
      <4>1. Upvoted(h.queue, [upvote EXCEPT ![a] = NoUpvote])
        BY <2>3, <2>5, <3>1, UpvoteOfOther
      <4> QED BY <2>2, <3>1, <4>1
    <3>2. CASE id \in KeySet(h.queue)
      <4>1. v \in Nat
        <5>1. Position(h.queue, id) \in 1..Len(h.queue)
          BY <2>3, <3>2, LenProperties DEF KeySet, Position
        <5>2. h.queue[Position(h.queue, id)] \in Element
          BY <2>3, <5>1, ElementOfSeq
        <5>3. getValue(h.queue, id) \in Nat
          BY <5>2 DEF Element, getValue
        <5> QED BY <2>2, <2>4, <3>2, <5>3
      <4>2. /\ \A k \in KeySet(h.queue) \ {id} :
                  upvote[a].proposalId # k /\ NoUpvote.proposalId # k
            /\ v = getValue(h.queue, id) - shareOf(upvote[a], id) + shareOf(NoUpvote, id)
        <5>1. shareOf(upvote[a], id) = weight /\ shareOf(NoUpvote, id) = 0
          BY DEF shareOf, NoUpvote
        <5>2. v \in Int
          BY <4>1
        <5>3. v = v + 0
          BY <5>2
        <5> QED BY <2>5, <5>1, <5>3
      <4>3. PICK q \in Placements(Without(h.queue, id), id, v) : gov' = [h EXCEPT !.queue = q]
        BY <2>2, <3>2
      <4> HIDE DEF v, id, weight
      <4>4. Upvoted(q, [upvote EXCEPT ![a] = NoUpvote]) /\ KeySet(q) = KeySet(h.queue)
        <5>1. PlacedFor(h.queue, id, upvote, a, NoUpvote, v, q)
          BY <2>3, <2>4, <2>5, <3>2, <4>1, <4>2, <4>3, UpvotePlaced
        <5> QED BY <5>1 DEF PlacedFor
      <4>5. gov'.queue = q /\ gov'.proposals = h.proposals /\ gov'.dequeued = h.dequeued
        BY <2>3, <4>3 DEF GovState
      <4> QED BY <2>2, <4>4, <4>5
    <3> QED BY <3>1, <3>2
  <2>9. Tallied(gov)' /\ unslotted(gov)' = unslotted(h)
    <3>1. PICK q : /\ KeySet(q) = KeySet(h.queue) /\ Upvoted(q, upvote')
                   /\ gov'.queue = q /\ gov'.proposals = h.proposals /\ gov'.dequeued = h.dequeued
      BY <2>8
    <3> QED BY <2>1, <2>6, <2>7, <3>1, UpvoteStep
  <2>10. MoneyTyped' /\ Accounted'
    BY <1>6, <1>n, <2>1, <2>9 DEF RevokeUpvote, ruleVars, history
  <2> QED BY <1>i, <2>9, <2>10 DEF TotalsInv
<1>7. ASSUME NEW id, NEW index, DeleteExpired(id, index) PROVE TotalsInv'
  <2> DEFINE h == deleteDequeuedProposal(g, id, index)
  <2>1. Tallied(h) /\ unslotted(h) = unslotted(g)
    <3>1. isDequeuedProposal(g, id, index)
      BY <1>7 DEF DeleteExpired, g
    <3> QED BY <1>g, <3>1, DeleteTallied
  <2>2. gov' = h
    BY <1>7 DEF DeleteExpired, g
  <2> HIDE DEF h
  <2>3. unslotted(gov)' = unslotted(g)
    BY <2>1, <2>2 DEF unslotted, depositsOf, SlotIds
  <2>4. Tallied(gov)'
    BY <1>7, <2>1, <2>2, TalliedStep DEF DeleteExpired, voterVars
  <2>5. MoneyTyped' /\ Accounted'
    BY <1>7, <1>n, <2>3 DEF DeleteExpired, history
  <2> QED BY <1>i, <2>4, <2>5 DEF TotalsInv
<1>8. ASSUME NEW id, NEW index, Approve(id, index) PROVE TotalsInv'
  <2> DEFINE p == [g.proposals[id] EXCEPT !.approved = TRUE, !.networkWeight = totalLocked]
             h == [g EXCEPT !.proposals[id] = p]
  <2>1. isDequeuedProposal(g, id, index)
    BY <1>8 DEF Approve, g
  <2>2. g.proposals[id] \in Proposal /\ id \in DOMAIN g.proposals
    <3>1. AloneIn(g, id, index)
      BY <1>g, <2>1, DequeuedAlone
    <3> QED BY <3>1 DEF AloneIn
  <2>3. /\ p.proposer = g.proposals[id].proposer /\ p.deposit = g.proposals[id].deposit
        /\ p.votes = g.proposals[id].votes
    BY <2>2 DEF Proposal
  <2>4. gov' = h
    <3>1. gov' = [g EXCEPT !.proposals[id].approved = TRUE,
                           !.proposals[id].networkWeight = totalLocked]
      BY <1>8 DEF Approve, g
    <3> QED BY <1>g, <2>2, <3>1 DEF GovState, Proposal
  <2> HIDE DEF p
  <2>5. Tallied(h) /\ unslotted(h) = unslotted(g)
    BY <1>g, <2>1, <2>3, ApproveTallied
  <2> HIDE DEF h
  <2>6. unslotted(gov)' = unslotted(g)
    BY <2>4, <2>5 DEF unslotted, depositsOf, SlotIds
  <2>7. Tallied(gov)'
    BY <1>8, <2>4, <2>5, TalliedStep DEF Approve, voterVars
  <2>8. MoneyTyped' /\ Accounted'
    BY <1>8, <1>n, <2>6 DEF Approve, ruleVars, history
  <2> QED BY <1>i, <2>7, <2>8 DEF TotalsInv
<1>9. ASSUME NEW id, NEW index, NEW a \in Voters, NEW value \in VoteValues,
             Vote(a, id, index, value)
      PROVE  TotalsInv'
  <2> DEFINE record == voteRecord(a, index)
             previous == IF record.proposalId = id THEN record.value ELSE "None"
             n == [value |-> value, proposalId |-> id, weight |-> locked[a]]
             votes == updateVote(g.proposals[id].votes, record.weight, n.weight, previous, value)
             p == [g.proposals[id] EXCEPT !.votes = votes, !.networkWeight = totalLocked]
             h == [g EXCEPT !.proposals[id] = p]
  <2>1. isDequeuedProposal(g, id, index)
    BY <1>9 DEF Vote, g
  <2>2. g.proposals[id] \in Proposal /\ id \in DOMAIN g.proposals /\ id # 0 /\ id \in Nat
    <3>1. AloneIn(g, id, index)
      BY <1>g, <2>1, DequeuedAlone
    <3>2. DOMAIN g.proposals = 1..Len(g.proposals)
      BY <1>g, StateFields
    <3> QED BY <3>1, <3>2 DEF AloneIn
  <2>3. RecordsIn(referendumVotes) /\ locked[a] \in Nat
    BY <1>0 DEF RecordsTyped, RecordsIn, VoteRecord
  <2>4. n \in VoteRecord /\ n.value = value /\ n.proposalId = id /\ n.weight \in Nat
    BY <2>2, <2>3 DEF VoteRecord
  <2>5. record = recordIn(referendumVotes, a, index)
    BY DEF voteRecord, recordIn
  <2>6. record = NoVote \/ record \in VoteRecord
    BY <2>3, <2>5 DEF recordIn, RecordsIn
  <2>7. gov' = h
    <3>1. gov' = [g EXCEPT !.proposals[id].votes = votes,
                           !.proposals[id].networkWeight = totalLocked]
      BY <1>9 DEF Vote, previousValue, g
    <3> HIDE DEF votes
    <3> QED BY <1>g, <2>2, <3>1 DEF GovState, Proposal
  <2>8. referendumVotes' = recorded(referendumVotes, a, index, n)
    BY <1>9 DEF Vote, recorded
  <2>9. upvote' = upvote
    BY <1>9 DEF Vote
  <2> HIDE DEF votes
  <2>10. /\ p.proposer = g.proposals[id].proposer /\ p.deposit = g.proposals[id].deposit
         /\ p.votes = votes
    BY <2>2 DEF Proposal
  <2> HIDE DEF p, n, record
  <2>11. \A v \in VoteValues :
            p.votes[v] = g.proposals[id].votes[v]
                            - countsFor(recordIn(referendumVotes, a, index), id, v)
                            + countsFor(n, id, v)
    <3> SUFFICES ASSUME NEW v \in VoteValues
                 PROVE  votes[v] = g.proposals[id].votes[v] - countsFor(record, id, v)
                                      + countsFor(n, id, v)
      BY <2>5, <2>10
    <3>1. g.proposals[id].votes \in [VoteValues -> Nat]
      BY <2>2 DEF Proposal
    <3> HIDE DEF previous
    <3>2. previous = IF record.proposalId = id THEN record.value ELSE "None"
      BY DEF previous
    <3> QED BY <2>2, <2>4, <2>6, <3>1, <3>2, UpdateVoteCounts DEF votes
  <2> HIDE DEF h
  <2>12. Tallied(gov)' /\ unslotted(gov)' = unslotted(g)
    <3>1. h = [g EXCEPT !.proposals[id] = p]
      BY DEF h
    <3> QED BY <1>g, <2>1, <2>3, <2>4, <2>7, <2>8, <2>9, <2>10, <2>11, <3>1, VoteStep
  <2>13. MoneyTyped' /\ Accounted'
    BY <1>9, <1>n, <2>12 DEF Vote, ruleVars, history
  <2> QED BY <1>i, <2>12, <2>13 DEF TotalsInv
<1>10. ASSUME NEW id, NEW index, Execute(id, index) PROVE TotalsInv'
  <2> DEFINE h == deleteDequeuedProposal(g, id, index)
             txs == g.proposals[id].transactions
  <2>1. isDequeuedProposal(g, id, index)
    BY <1>10 DEF Execute, g
  <2>2. Tallied(h) /\ unslotted(h) = unslotted(g)
    BY <1>g, <2>1, DeleteTallied
  <2>3. gov' = h
    BY <1>10 DEF Execute, g
  <2> HIDE DEF h
  <2>4. unslotted(gov)' = unslotted(g) + 0
    BY <1>g, <2>2, <2>3 DEF unslotted, depositsOf, SlotIds
  <2>5. Tallied(gov)'
    BY <1>10, <2>2, <2>3, TalliedStep DEF Execute, voterVars
  <2>6. txs \in Payloads \cup {<<>>}
    <3>1. AloneIn(g, id, index)
      BY <1>g, <2>1, DequeuedAlone
    <3> QED BY <3>1 DEF AloneIn, Proposal
  <2>7. /\ refundedDeposits' = refundsOfDequeue(gov)
        /\ balance' = balance - valueOf(txs) /\ spent' = spent + valueOf(txs)
        /\ constitution' = amendConstitution(txs)
    BY <1>10 DEF Execute, g
  <2> HIDE DEF txs
  <2>8. amendConstitution(txs) \in [ConstitutionKeys -> Nat] /\ valueOf(txs) \in Int
    BY <1>0, <2>6, PayloadTyped
  <2>9. /\ balance' \in Int /\ spent' \in Int /\ balance' + spent' = balance + spent + 0
        /\ constitution' \in [ConstitutionKeys -> Nat] /\ 0 \in Int
    BY <1>m, <2>7, <2>8
  <2>10. MoneyTyped' /\ Accounted'
    BY <1>0, <2>4, <2>7, <2>9, MoneyStep DEF g
  <2> QED BY <1>i, <2>5, <2>10 DEF TotalsInv
<1>11. ASSUME NEW a \in Proposers, Withdraw(a) PROVE TotalsInv'
  <2>1. /\ refundedDeposits' = [refundedDeposits EXCEPT ![a] = 0]
        /\ balance' = balance - refundedDeposits[a]
        /\ UNCHANGED <<gov, spent, constitution, upvote, referendumVotes>>
    BY <1>11 DEF Withdraw, ruleVars, voterVars, history
  <2>2. Tallied(gov)'
    BY <1>0, <2>1, TalliedStep
  <2>3. /\ refundedDeposits \in [Proposers -> Nat] /\ refundedDeposits \in [Proposers -> Int]
        /\ refundedDeposits[a] \in Nat
    BY <1>0 DEF MoneyTyped
  <2>4. MoneyTyped'
    BY <1>m, <2>1, <2>3 DEF MoneyTyped
  <2>5. /\ SumFunction(refundedDeposits') = SumFunction(refundedDeposits) - refundedDeposits[a] + 0
        /\ SumFunction(refundedDeposits) \in Int
    <3>1. /\ DOMAIN refundedDeposits' = Proposers /\ refundedDeposits'[a] = 0
          /\ \A b \in Proposers \ {a} : refundedDeposits'[b] = refundedDeposits[b]
      BY <2>1, <2>3
    <3> QED BY <2>3, <3>1, GovernanceAssumption, SumOfAllChange, SumOfAllType
  <2>6. unslotted(gov)' = unslotted(gov) /\ unslotted(gov) \in Int
    <3>1. unslotted(gov)' = unslotted(gov)
      BY <2>1 DEF unslotted, depositsOf, SlotIds
    <3>2. unslotted(gov) \in Int
      BY <1>0, UnslottedType
    <3> QED BY <3>1, <3>2
  <2>7. Accounted'
    <3> DEFINE before == SumFunction(refundedDeposits)
               after == SumFunction(refundedDeposits')
               queued == unslotted(gov)
    <3>1. /\ balance + spent = before + queued /\ before \in Int /\ queued \in Int
          /\ after = before - refundedDeposits[a] + 0
      BY <1>0, <2>5, <2>6 DEF Accounted
    <3>2. unslotted(gov)' = queued /\ SumFunction(refundedDeposits') = after
      BY <2>6
    <3> DEFINE r == refundedDeposits[a]
    <3>3. balance' = balance - r /\ spent' = spent /\ r \in Int /\ after = before - r + 0
      BY <2>1, <2>3, <3>1
    <3> HIDE DEF before, after, queued, r
    <3>4. balance' + spent' = after + queued
      BY <1>m, <3>1, <3>3
    <3> QED BY <3>2, <3>4 DEF Accounted
  <2> QED BY <1>i, <2>2, <2>4, <2>7 DEF TotalsInv
<1>12. ASSUME NEW a \in Voters, NEW v \in 1..MaxGold, Lock(a, v) \/ Unlock(a, v) \/ Slash(a, v)
       PROVE  TotalsInv'
  BY <1>12, <1>u DEF Lock, Unlock, Slash, ruleVars, voterVars, history
<1>13. CASE UNCHANGED vars
  BY <1>13, <1>u DEF vars, ruleVars, voterVars, history
<1> QED BY <1>1, <1>2, <1>3, <1>4, <1>5, <1>6, <1>7, <1>8, <1>9, <1>10, <1>11, <1>12, <1>13
        DEF Next

\* The invariant holds in every reachable state.
LEMMA TotalsHold == Spec => []TotalsInv
<1> QED BY InitTotals, NextTotals, PTL DEF Spec

-----------------------------------------------------------------------------

\* Every deposit is refundable, waits with a proposal in the queue, or was forfeited
\* there, and nothing else is in the contract but for what executed proposals took.
THEOREM DepositsAlwaysAccountedFor == Spec => []DepositsAccountedFor
<1>1. TotalsInv => DepositsAccountedFor
  BY DEF TotalsInv, Accounted, unslotted, DepositsAccountedFor, ProposalIds
<1> QED BY <1>1, TotalsHold, PTL

\* The queue is sorted by upvotes, and these are the weights of the upvote records that
\* name the proposal, whatever was revoked, dequeued or expired in between.
THEOREM UpvotesAlwaysMatchRecords == Spec => []UpvotesMatchRecords
<1>1. TotalsInv => UpvotesMatchRecords
  BY DEF TotalsInv, Tallied, UpvotesMatch, UpvotesMatchRecords
<1> QED BY <1>1, TotalsHold, PTL

\* The vote totals of a dequeued proposal are the weights of the records of its slot
\* that name it, whatever proposals had the slot before.
THEOREM VoteTotalsAlwaysMatchRecords == Spec => []VoteTotalsMatchRecords
<1>1. TotalsInv => VoteTotalsMatchRecords
  BY DEF TotalsInv, Tallied, VotesMatch, VoteTotalsMatchRecords
<1> QED BY <1>1, TotalsHold, PTL

-----------------------------------------------------------------------------
(***************************************************************************)
(* The support of an executed proposal: what FixidityLib computes          *)
(***************************************************************************)

\* The 1 of FixidityLib is a positive number of its units.
LEMMA Fixed1Positive == FIXED1 \in Nat /\ FIXED1 > 0
<1> QED BY MulPrecisionAssumption DEF FIXED1

\* A fraction is truncated, so one above c is above c before it is truncated, too.
LEMMA FractionAbove ==
    ASSUME NEW yes \in Nat, NEW total \in Nat \ {0}, NEW c \in Nat,
           newFixedFraction(yes, total) > c
    PROVE  yes * FIXED1 > c * total
<1> DEFINE F == FIXED1
           D == total * F
           X == (yes * F) * F
           q == X \div D
<1>1. F \in Nat /\ F > 0
  BY Fixed1Positive
<1> HIDE DEF F
<1>2. D \in Nat \ {0} /\ X \in Nat
  BY <1>1
<1>3. q \in Nat /\ q * D <= X
  <2> HIDE DEF D, X
  <2> QED BY <1>2, QuotientBelow
<1>4. q > c
  BY DEF newFixedFraction, divide, newFixed, F
<1>5. c * D < X
  <2> HIDE DEF D, X, q
  <2>1. (c + 1) * D <= q * D
    BY <1>2, <1>3, <1>4, ProductOrder
  <2>2. (c + 1) * D = c * D + D
    BY <1>2
  <2> QED BY <1>2, <1>3, <2>1, <2>2
<1>6. c * D = (c * total) * F
  BY <1>1
<1>7. c * total \in Int /\ yes * F \in Int
  BY <1>1
<1>8. c * total < yes * F
  <2> DEFINE a == c * total
             b == yes * F
  <2>1. a * F < b * F /\ a \in Int /\ b \in Int
    BY <1>5, <1>6, <1>7
  <2> HIDE DEF a, b
  <2>2. a < b
    BY <1>1, <2>1, ProductOrder
  <2> QED BY <2>2 DEF a, b
<1> QED BY <1>7, <1>8 DEF F

\* multiply of FixidityLib returns an integer.
LEMMA MultiplyType ==
    ASSUME NEW x \in Int, NEW y \in Int
    PROVE  multiply(x, y) \in Int
<1>1. FIXED1 \in Nat \ {0} /\ MulPrecision \in Nat \ {0}
  BY Fixed1Positive, MulPrecisionAssumption
<1>2. \A z \in Int : integer(z) \in Int /\ fractional(z) \in Int
  <2> SUFFICES ASSUME NEW z \in Int PROVE integer(z) \in Int /\ fractional(z) \in Int
    OBVIOUS
  <2>1. z \div FIXED1 \in Int
    BY <1>1, QuotientType
  <2> HIDE DEF FIXED1
  <2> QED BY <1>1, <2>1 DEF integer, fractional
<1> DEFINE x1 == integer(x) \div FIXED1
           y1 == integer(y) \div FIXED1
           x2 == fractional(x)
           y2 == fractional(y)
           x3 == x2 \div MulPrecision
           y3 == y2 \div MulPrecision
<1>3. x1 \in Int /\ y1 \in Int /\ x2 \in Int /\ y2 \in Int
  BY <1>1, <1>2, QuotientType
<1>4. x3 \in Int /\ y3 \in Int
  <2> HIDE DEF x2, y2
  <2> QED BY <1>1, <1>3, QuotientType
<1>5. multiply(x, y) = IF x = 0 \/ y = 0 THEN 0
                       ELSE IF y = FIXED1 THEN x
                       ELSE IF x = FIXED1 THEN y
                       ELSE x1 * y1 * FIXED1 + x2 * y1 + x1 * y2 + x3 * y3
  BY DEF multiply
<1> HIDE DEF x1, y1, x2, y2, x3, y3
<1>6. x1 * y1 * FIXED1 + x2 * y1 + x1 * y2 + x3 * y3 \in Int
  BY <1>1, <1>3, <1>4
<1> QED BY <1>1, <1>5, <1>6

\* newFixedFraction of FixidityLib returns an integer.
LEMMA FractionType ==
    ASSUME NEW x \in Int, NEW y \in Nat \ {0}
    PROVE  newFixedFraction(x, y) \in Int
<1>1. FIXED1 \in Nat \ {0}
  BY Fixed1Positive
<1>2. x * FIXED1 * FIXED1 \in Int /\ y * FIXED1 \in Nat \ {0}
  BY <1>1
<1> QED BY <1>2, QuotientType DEF newFixedFraction, newFixed, divide

-----------------------------------------------------------------------------
(***************************************************************************)
(* The support of an executed proposal: what execute checks                *)
(***************************************************************************)
Parameters(ps) == DOMAIN ps = ParamNames /\ \A name \in ParamNames : ps[name] \in Int

ParamsTyped == Parameters(params)

\* The votes on a proposal, and their total, are naturals.
LEMMA TotalVotesType ==
    ASSUME NEW p \in Proposal
    PROVE  /\ totalVotes(p) \in Nat
           /\ p.votes["Yes"] \in Nat /\ p.votes["No"] \in Nat
<1>1. p.votes \in [VoteValues -> Nat]
  BY DEF Proposal
<1>2. "Yes" \in VoteValues /\ "No" \in VoteValues /\ "Abstain" \in VoteValues
  BY DEF VoteValues
<1> QED BY <1>1, <1>2 DEF totalVotes

\* The participation baseline stays a number when a proposal is deleted.
LEMMA ParamsAfterDeleteTyped ==
    ASSUME NEW ps, Parameters(ps), NEW p \in Proposal
    PROVE  Parameters(paramsAfterDelete(ps, p))
<1>1. CASE p.approved /\ p.networkWeight > 0
  <2>1. /\ ps["baseline"] \in Int /\ ps["baselineUpdateFactor"] \in Int
        /\ ps["baselineFloor"] \in Int
    BY DEF Parameters, ParamNames, Fractions
  <2>2. getParticipation(p) \in Int
    <3>1. p.networkWeight \in Nat \ {0} /\ totalVotes(p) \in Int
      BY <1>1, TotalVotesType DEF Proposal
    <3> QED BY <3>1, FractionType DEF getParticipation
  <2>3. FIXED1 - ps["baselineUpdateFactor"] \in Int
    BY <2>1, Fixed1Positive
  <2>4. /\ multiply(getParticipation(p), ps["baselineUpdateFactor"]) \in Int
        /\ multiply(ps["baseline"], FIXED1 - ps["baselineUpdateFactor"]) \in Int
    BY <2>1, <2>2, <2>3, MultiplyType
  <2>5. updatedBaseline(ps, p) \in Int
    BY <2>1, <2>4 DEF updatedBaseline
  <2> DEFINE b == updatedBaseline(ps, p)
  <2> HIDE DEF b
  <2>6. Parameters([ps EXCEPT !["baseline"] = b])
    BY <2>5 DEF Parameters, b
  <2> QED BY <1>1, <2>6 DEF paramsAfterDelete, b
<1>2. CASE ~(p.approved /\ p.networkWeight > 0)
  BY <1>2 DEF paramsAfterDelete
<1> QED BY <1>1, <1>2

\* The parameters start as fractions and naturals.
LEMMA InitParamsTyped == Init => ParamsTyped
<1> SUFFICES ASSUME Init PROVE ParamsTyped
  OBVIOUS
<1>1. DOMAIN InitialParams = ParamNames /\ \A name \in ParamNames : InitialParams[name] \in Int
  BY GovernanceAssumption
<1>2. params = InitialParams
  BY DEF Init
<1> QED BY <1>1, <1>2 DEF ParamsTyped, Parameters

\* A payload sets parameters to natural numbers.
LEMMA PayloadParamsTyped ==
    ASSUME ParamsTyped, NEW txs \in Payloads \cup {<<>>}
    PROVE  Parameters(executeTransactions(txs))
<1>1. \A j \in DOMAIN txs : txs[j].to \in Int
  <2>1. CASE txs \in Payloads
    BY <2>1, GovernanceAssumption DEF IsPayload
  <2>2. CASE txs = <<>>
    BY <2>2
  <2> QED BY <2>1, <2>2
<1>2. ASSUME NEW name \in ParamNames PROVE executeTransactions(txs)[name] \in Int
  <2> DEFINE setters == {j \in DOMAIN txs : txs[j].set = name}
  <2>1. executeTransactions(txs)[name] =
           IF setters = {} THEN params[name] ELSE txs[CHOOSE j \in setters : TRUE].to
    BY DEF executeTransactions
  <2>2. setters # {} => (CHOOSE j \in setters : TRUE) \in DOMAIN txs
    OBVIOUS
  <2> HIDE DEF setters
  <2> QED BY <1>1, <2>1, <2>2 DEF ParamsTyped, Parameters
<1>3. DOMAIN executeTransactions(txs) = ParamNames
  BY DEF executeTransactions
<1> QED BY <1>2, <1>3 DEF Parameters

\* Every step keeps the parameters fractions and naturals.
LEMMA NextParamsTyped == IInv /\ ParamsTyped /\ [Next]_vars => ParamsTyped'
<1> SUFFICES ASSUME IInv, ParamsTyped, [Next]_vars PROVE ParamsTyped'
  OBVIOUS
<1> DEFINE g == dequeueProposalsIfReady(gov)
<1>g. Sound(g)
  BY DequeueSound DEF IInv, RecordsTyped
<1> HIDE DEF g
<1>u. ASSUME params' = params PROVE ParamsTyped'
  BY <1>u DEF ParamsTyped, Parameters
<1>d. ASSUME NEW id, NEW index, isDequeuedProposal(g, id, index)
      PROVE  /\ g.proposals[id] \in Proposal
             /\ g.proposals[id].transactions \in Payloads \cup {<<>>}
  <2>1. AloneIn(g, id, index)
    BY <1>d, <1>g, DequeuedAlone
  <2> QED BY <2>1 DEF AloneIn, Proposal
<1>1. ASSUME NEW id, NEW index, DeleteExpired(id, index) PROVE ParamsTyped'
  <2>1. isDequeuedProposal(g, id, index) /\ params' = paramsAfterDelete(params, g.proposals[id])
    BY <1>1 DEF DeleteExpired, g
  <2>2. g.proposals[id] \in Proposal
    BY <1>d, <2>1
  <2>3. Parameters(paramsAfterDelete(params, g.proposals[id]))
    BY <2>2, ParamsAfterDeleteTyped DEF ParamsTyped
  <2> QED BY <2>1, <2>3 DEF ParamsTyped
<1>2. ASSUME NEW id, NEW index, Execute(id, index) PROVE ParamsTyped'
  <2> DEFINE txs == g.proposals[id].transactions
  <2>1. /\ isDequeuedProposal(g, id, index)
        /\ params' = paramsAfterDelete(executeTransactions(txs), g.proposals[id])
    BY <1>2 DEF Execute, g
  <2>2. g.proposals[id] \in Proposal /\ txs \in Payloads \cup {<<>>}
    BY <1>d, <2>1
  <2> HIDE DEF txs
  <2>3. Parameters(executeTransactions(txs))
    BY <2>2, PayloadParamsTyped
  <2>4. Parameters(paramsAfterDelete(executeTransactions(txs), g.proposals[id]))
    BY <2>2, <2>3, ParamsAfterDeleteTyped
  <2> QED BY <2>1, <2>4 DEF ParamsTyped
<1>3. CASE Tick \/ Dequeue \/ UNCHANGED vars
  BY <1>3, <1>u DEF Tick, Dequeue, vars, ruleVars
<1>4. ASSUME NEW a, NEW d, NEW txs, Propose(a, d, txs) PROVE ParamsTyped'
  BY <1>4, <1>u DEF Propose, ruleVars
<1>5. ASSUME NEW id, UpvoteExpired(id) PROVE ParamsTyped'
  BY <1>5, <1>u DEF UpvoteExpired, ruleVars
<1>6. ASSUME NEW a, NEW id, Upvote(a, id) PROVE ParamsTyped'
  BY <1>6, <1>u DEF Upvote, ruleVars
<1>7. ASSUME NEW a, RevokeUpvote(a) PROVE ParamsTyped'
  BY <1>7, <1>u DEF RevokeUpvote, ruleVars
<1>8. ASSUME NEW id, NEW index, Approve(id, index) PROVE ParamsTyped'
  BY <1>8, <1>u DEF Approve, ruleVars
<1>9. ASSUME NEW id, NEW index, NEW a, NEW v, Vote(a, id, index, v) PROVE ParamsTyped'
  BY <1>9, <1>u DEF Vote, ruleVars
<1>10. ASSUME NEW a, Withdraw(a) PROVE ParamsTyped'
  BY <1>10, <1>u DEF Withdraw, ruleVars
<1>11. ASSUME NEW a, NEW v, Lock(a, v) \/ Unlock(a, v) \/ Slash(a, v) PROVE ParamsTyped'
  BY <1>11, <1>u DEF Lock, Unlock, Slash, ruleVars
<1> QED BY <1>1, <1>2, <1>3, <1>4, <1>5, <1>6, <1>7, <1>8, <1>9, <1>10, <1>11 DEF Next

\* Padding with "No" votes, and truncation, make the support no larger than it is.
LEMMA SupportIsShare ==
    ASSUME NEW p \in Proposal, ParamsTyped, NEW c \in Nat, NEW quorum \in Int,
           getSupportWithQuorumPadding(p, quorum) > c
    PROVE  p.votes["Yes"] * FIXED1 > c * (p.votes["Yes"] + p.votes["No"])
<1> DEFINE yes == p.votes["Yes"]
           cast == p.votes["No"]
           missing == fromFixed(multiply(quorum, newFixed(p.networkWeight))) - totalVotes(p)
           no == cast + (IF missing > 0 THEN missing ELSE 0)
<1>1. yes \in Nat /\ cast \in Nat /\ totalVotes(p) \in Nat
  BY TotalVotesType
<1>2. missing \in Int
  <2>1. newFixed(p.networkWeight) \in Int
    BY Fixed1Positive DEF newFixed, Proposal
  <2>2. multiply(quorum, newFixed(p.networkWeight)) \in Int
    BY <2>1, MultiplyType
  <2>3. fromFixed(multiply(quorum, newFixed(p.networkWeight))) \in Int
    BY <2>2, Fixed1Positive, QuotientType DEF fromFixed
  <2> QED BY <1>1, <2>3
<1>3. getSupportWithQuorumPadding(p, quorum) =
         IF yes = 0 THEN 0 ELSE newFixedFraction(yes, yes + no)
  BY DEF getSupportWithQuorumPadding
<1> HIDE DEF yes, cast, missing
<1>4. no \in Nat /\ no >= cast
  BY <1>1, <1>2
<1> HIDE DEF no
<1>5. yes # 0 /\ newFixedFraction(yes, yes + no) > c
  BY <1>3
<1>6. yes * FIXED1 > c * (yes + no)
  BY <1>1, <1>4, <1>5, FractionAbove
<1>7. c * (yes + cast) <= c * (yes + no)
  <2>1. (yes + cast) * c <= (yes + no) * c
    BY <1>1, <1>4, ProductOrder
  <2> QED BY <1>1, <1>4, <2>1
<1>8. /\ yes * FIXED1 \in Int /\ c * (yes + no) \in Int /\ c * (yes + cast) \in Int
  BY <1>1, <1>4, Fixed1Positive
<1> QED BY <1>6, <1>7, <1>8 DEF yes, cast

\* getConstitution returns a threshold, set or default.
LEMMA ConstitutionType ==
    ASSUME MoneyTyped, NEW tx
    PROVE  getConstitution(tx) \in Nat
<1>1. FIXED1 \div 2 \in Nat
  BY Fixed1Positive, QuotientBelow
<1> HIDE DEF FIXED1
<1>2. \A key \in ConstitutionKeys : constitution[key] \in Nat
  BY DEF MoneyTyped
<1> QED BY <1>1, <1>2 DEF getConstitution

\* A proposal that is executed was dequeued by an earlier call than the one that
\* executes it, since one that leaves the queue is not approved.
LEMMA ApprovedEarlier ==
    ASSUME NEW g, Sound(g), Ready, Tallied(g), NEW h, h = dequeueProposalsIfReady(g),
           NEW id, NEW index, isDequeuedProposal(h, id, index), h.proposals[id].approved
    PROVE  /\ index \in DOMAIN g.dequeued /\ g.dequeued[index] = id /\ id # 0
           /\ h.proposals[id] = g.proposals[id]
           /\ \A v \in VoteValues : g.proposals[id].votes[v] = votesAt(index, id, v)
<1>1. KeptBy(g, h)
  BY DequeueEffect
<1>2. Sound(h)
  BY DequeueSound
<1>3. AloneIn(h, id, index)
  BY <1>2, DequeuedAlone
<1>4. id \in DOMAIN g.proposals /\ g.proposals[id].approved
  BY <1>1, <1>3 DEF KeptBy, AloneIn
<1>5. id \notin moved(g)
  <2>1. moved(g) \subseteq KeySet(g.queue)
    BY MovedQueued
  <2>2. \A i \in DOMAIN g.queue : ~g.proposals[g.queue[i].key].approved
    BY DEF Tallied, QueuedUntouched
  <2> QED BY <1>4, <2>1, <2>2 DEF KeySet
<1>6. h.proposals[id] = g.proposals[id]
  BY <1>1, <1>4, <1>5 DEF KeptBy
<1>7. index \in DOMAIN g.dequeued /\ g.dequeued[index] = id /\ id # 0
  BY <1>1, <1>3, <1>5 DEF KeptBy, AloneIn
<1>8. \A v \in VoteValues : g.proposals[id].votes[v] = votesAt(index, id, v)
  BY <1>7 DEF Tallied, VotesMatch
<1> QED BY <1>6, <1>7, <1>8

\* What execute makes sure of when it executes a proposal.
LEMMA ExecuteSupport ==
    ASSUME TotalsInv, ParamsTyped, NEW id, NEW index, Execute(id, index)
    PROVE  /\ index \in DOMAIN gov.dequeued /\ gov.dequeued[index] = id
           /\ gov.proposals[id].approved
           /\ now >= gov.proposals[id].timestamp + params["approval"] + params["referendum"]
           /\ \A j \in DOMAIN gov.proposals[id].transactions :
                 votesAt(index, id, "Yes") * FIXED1 >
                    getConstitution(gov.proposals[id].transactions[j])
                       * (votesAt(index, id, "Yes") + votesAt(index, id, "No"))
<1> DEFINE g == dequeueProposalsIfReady(gov)
           p == g.proposals[id]
           quorum == multiply(params["baseline"], params["baselineQuorumFactor"])
<1>0. Sound(gov) /\ Ready /\ Tallied(gov) /\ MoneyTyped
  BY DEF TotalsInv, IInv, RecordsTyped
<1>1. /\ isDequeuedProposal(g, id, index) /\ ~isDequeuedProposalExpired(p)
      /\ getDequeuedStage(p) = "Execution" /\ isProposalPassing(p)
  BY DEF Execute
<1> HIDE DEF g
<1>2. p.approved
  BY <1>1 DEF isDequeuedProposalExpired
<1>3. /\ index \in DOMAIN gov.dequeued /\ gov.dequeued[index] = id
      /\ p = gov.proposals[id]
      /\ \A v \in VoteValues : p.votes[v] = votesAt(index, id, v)
  BY <1>0, <1>1, <1>2, ApprovedEarlier DEF g
<1>4. p \in Proposal
  <2>1. Sound(g)
    BY <1>0, DequeueSound DEF g
  <2>2. AloneIn(g, id, index)
    BY <1>1, <2>1, DequeuedAlone
  <2> QED BY <2>2 DEF AloneIn
<1>5. now >= p.timestamp + params["approval"] + params["referendum"]
  BY <1>1 DEF getDequeuedStage
<1>6. quorum \in Int
  <2>1. params["baseline"] \in Int /\ params["baselineQuorumFactor"] \in Int
    BY DEF ParamsTyped, Parameters, ParamNames, Fractions
  <2> QED BY <2>1, MultiplyType
<1> HIDE DEF p, quorum
<1>7. ASSUME NEW j \in DOMAIN p.transactions
      PROVE  p.votes["Yes"] * FIXED1 >
                getConstitution(p.transactions[j]) * (p.votes["Yes"] + p.votes["No"])
  <2> DEFINE c == getConstitution(p.transactions[j])
  <2>1. c \in Nat
    BY <1>0, ConstitutionType
  <2>2. getSupportWithQuorumPadding(p, quorum) > c
    BY <1>1 DEF isProposalPassing, quorum
  <2> HIDE DEF c
  <2>3. p.votes["Yes"] * FIXED1 > c * (p.votes["Yes"] + p.votes["No"])
    BY <1>4, <1>6, <2>1, <2>2, SupportIsShare
  <2> QED BY <2>3 DEF c
<1>8. p.votes["Yes"] = votesAt(index, id, "Yes") /\ p.votes["No"] = votesAt(index, id, "No")
  BY <1>3 DEF VoteValues
<1> QED BY <1>2, <1>3, <1>5, <1>7, <1>8

\* The step that ExecutedHadSupport describes.
SupportStep ==
    \A id \in executed' \ executed :
       \E i \in DOMAIN gov.dequeued :
          LET weightOf(v) == votesAt(i, id, v)
              txs == gov.proposals[id].transactions
          IN  /\ gov.dequeued[i] = id
              /\ gov.proposals[id].approved
              /\ now >= gov.proposals[id].timestamp + params["approval"] + params["referendum"]
              /\ \A j \in DOMAIN txs :
                    weightOf("Yes") * FIXED1 >
                       getConstitution(txs[j]) * (weightOf("Yes") + weightOf("No"))

\* No step executes a proposal without support.
LEMMA NextSupport == TotalsInv /\ ParamsTyped /\ [Next]_vars => SupportStep
<1> SUFFICES ASSUME TotalsInv, ParamsTyped, [Next]_vars PROVE SupportStep
  OBVIOUS
<1>1. ASSUME NEW id, NEW index, Execute(id, index) PROVE SupportStep
  <2>1. executed' = executed \cup {id}
    BY <1>1 DEF Execute
  <2>2. /\ index \in DOMAIN gov.dequeued /\ gov.dequeued[index] = id
        /\ gov.proposals[id].approved
        /\ now >= gov.proposals[id].timestamp + params["approval"] + params["referendum"]
        /\ \A j \in DOMAIN gov.proposals[id].transactions :
              votesAt(index, id, "Yes") * FIXED1 >
                 getConstitution(gov.proposals[id].transactions[j])
                    * (votesAt(index, id, "Yes") + votesAt(index, id, "No"))
    BY <1>1, ExecuteSupport
  <2> QED BY <2>1, <2>2 DEF SupportStep
<1>u. ASSUME executed' = executed PROVE SupportStep
  BY <1>u DEF SupportStep
<1>2. CASE Tick \/ Dequeue \/ UNCHANGED vars
  BY <1>2, <1>u DEF Tick, Dequeue, vars, history
<1>3. ASSUME NEW a, NEW d, NEW txs, Propose(a, d, txs) PROVE SupportStep
  BY <1>3, <1>u DEF Propose, history
<1>4. ASSUME NEW id, UpvoteExpired(id) PROVE SupportStep
  BY <1>4, <1>u DEF UpvoteExpired, history
<1>5. ASSUME NEW a, NEW id, Upvote(a, id) PROVE SupportStep
  BY <1>5, <1>u DEF Upvote, history
<1>6. ASSUME NEW a, RevokeUpvote(a) PROVE SupportStep
  BY <1>6, <1>u DEF RevokeUpvote, history
<1>7. ASSUME NEW id, NEW index, DeleteExpired(id, index) PROVE SupportStep
  BY <1>7, <1>u DEF DeleteExpired, history
<1>8. ASSUME NEW id, NEW index, Approve(id, index) PROVE SupportStep
  BY <1>8, <1>u DEF Approve, history
<1>9. ASSUME NEW id, NEW index, NEW a, NEW v, Vote(a, id, index, v) PROVE SupportStep
  BY <1>9, <1>u DEF Vote, history
<1>10. ASSUME NEW a, Withdraw(a) PROVE SupportStep
  BY <1>10, <1>u DEF Withdraw, history
<1>11. ASSUME NEW a, NEW v, Lock(a, v) \/ Unlock(a, v) \/ Slash(a, v) PROVE SupportStep
  BY <1>11, <1>u DEF Lock, Unlock, Slash, history
<1> QED BY <1>1, <1>2, <1>3, <1>4, <1>5, <1>6, <1>7, <1>8, <1>9, <1>10, <1>11 DEF Next

\* A proposal that is executed had been approved, had been in its slot for a full
\* approval and referendum stage, and among the weights of the records that name it the
\* share of "Yes" exceeds what the constitution asks of each of its transactions,
\* whatever padding and truncation execute computed it with.
THEOREM ExecutedAlwaysHadSupport == Spec => ExecutedHadSupport
<1>1. IInv /\ ParamsTyped /\ [Next]_vars => ParamsTyped'
  BY NextParamsTyped
<1>2. TotalsInv => IInv
  BY DEF TotalsInv
<1>3. Spec => []ParamsTyped
  BY <1>1, <1>2, InitParamsTyped, TotalsHold, PTL DEF Spec
<1>4. TotalsInv /\ ParamsTyped /\ [Next]_vars => [SupportStep]_vars
  BY NextSupport
<1>5. Spec => [][SupportStep]_vars
  BY <1>3, <1>4, TotalsHold, PTL DEF Spec
<1> QED BY <1>5 DEF ExecutedHadSupport, SupportStep

-----------------------------------------------------------------------------
(***************************************************************************)
(* Gold behind an upvote stays locked                                      *)
(*                                                                         *)
(* An account may unlock once the proposal it upvotes has expired in the   *)
(* queue.  Nothing brings such a proposal back but a longer queueExpiry:   *)
(* then its upvotes count again, with gold that has been unlocked.         *)
(***************************************************************************)

\* The steps of setQueueExpiry, the only ones that change it, shorten it.
QueueExpiryNotRaised == [][params'["queueExpiry"] <= params["queueExpiry"]]_vars

SlashedTyped == slashed \in [Voters -> Nat]

UpvotedInv == SlashedTyped /\ UpvotedGoldStaysLocked

\* A proposal that is queued in h, and was made before, was queued before and has waited
\* since the same time.
QueueKept(h) ==
    \A k \in KeySet(h.queue) : k \in DOMAIN gov.proposals =>
        /\ k \in KeySet(gov.queue)
        /\ h.proposals[k].timestamp = gov.proposals[k].timestamp

\* dequeueProposalsIfReady restarts the clock of the proposals that leave the queue only.
LEMMA DequeueQueueKept ==
    ASSUME Sound(gov), Ready
    PROVE  QueueKept(dequeueProposalsIfReady(gov))
<1> DEFINE h == dequeueProposalsIfReady(gov)
<1>1. KeptBy(gov, h) /\ Sound(h)
  BY DequeueEffect, DequeueSound
<1> HIDE DEF h
<1>2. SlotIds(h) \cap KeySet(h.queue) = {}
  BY <1>1, SlotIdsOf
<1>3. KeySet(h.queue) \subseteq KeySet(gov.queue)
  BY <1>1 DEF KeptBy, KeySet
<1>4. \A k \in KeySet(h.queue) : k \notin moved(gov)
  BY <1>1, <1>2 DEF KeptBy
<1>5. \A k \in DOMAIN gov.proposals :
         k \notin moved(gov) => h.proposals[k] = gov.proposals[k]
  BY <1>1 DEF KeptBy
<1>6. QueueKept(h)
  BY <1>3, <1>4, <1>5 DEF QueueKept
<1> QED BY <1>6 DEF h

\* Fewer queued proposals that have waited as long.
LEMMA QueueKeptStep ==
    ASSUME NEW g, QueueKept(g), NEW h, KeySet(h.queue) \subseteq KeySet(g.queue),
           \A k \in KeySet(h.queue) : k \in DOMAIN gov.proposals =>
               h.proposals[k].timestamp = g.proposals[k].timestamp
    PROVE  QueueKept(h)
BY DEF QueueKept

\* removeIfQueuedAndExpired leaves the proposals and the rest of the queue alone.
LEMMA RemoveExpiredQueue ==
    ASSUME NEW g, Sound(g), NEW id, NEW h, h = removeIfQueuedAndExpired(g, id)
    PROVE  KeySet(h.queue) \subseteq KeySet(g.queue) /\ h.proposals = g.proposals
<1>1. CASE isQueuedAndExpired(g, id)
  <2>1. id \in KeySet(g.queue)
    BY <1>1 DEF isQueuedAndExpired, inQueue
  <2>2. g \in GovState /\ g.queue \in Seq(Element) /\ DistinctKeys(g.queue)
    BY StateFields DEF Sound, InOnePlaceIn, DistinctKeys
  <2> DEFINE q == Without(g.queue, id)
  <2>3. KeySet(q) \subseteq KeySet(g.queue)
    BY <2>1, <2>2, WithoutProperties
  <2>4. h = [g EXCEPT !.queue = q]
    BY <1>1 DEF removeIfQueuedAndExpired
  <2> HIDE DEF q
  <2> QED BY <2>2, <2>3, <2>4 DEF GovState
<1>2. CASE ~isQueuedAndExpired(g, id)
  BY <1>2 DEF removeIfQueuedAndExpired
<1> QED BY <1>1, <1>2

\* The upvotes of a queued proposal are a natural number, and so is its ID.
LEMMA QueuedValue ==
    ASSUME NEW h, Sound(h), NEW id \in KeySet(h.queue)
    PROVE  id \in Nat /\ getValue(h.queue, id) \in Nat
<1>1. h.queue \in Seq(Element) /\ DOMAIN h.queue = 1..Len(h.queue)
  BY StateFields DEF Sound
<1>2. Position(h.queue, id) \in DOMAIN h.queue /\ h.queue[Position(h.queue, id)].key = id
  BY DEF KeySet, Position
<1>3. h.queue[Position(h.queue, id)] \in Element
  BY <1>1, <1>2, ElementOfSeq
<1> QED BY <1>2, <1>3 DEF Element, getValue

\* upvote and revokeUpvote sort a queued proposal anew.
LEMMA PlacedQueue ==
    ASSUME NEW h, Sound(h), NEW id \in KeySet(h.queue), NEW v \in Nat,
           NEW q \in Placements(Without(h.queue, id), id, v)
    PROVE  KeySet(q) \subseteq KeySet(h.queue)
<1>1. h \in GovState /\ h.queue \in Seq(Element) /\ DistinctKeys(h.queue)
  BY StateFields DEF Sound, InOnePlaceIn, DistinctKeys
<1> DEFINE w == Without(h.queue, id)
<1>2. w \in Seq(Element) /\ DistinctKeys(w) /\ KeySet(w) = KeySet(h.queue) \ {id}
  BY <1>1, WithoutProperties
<1>3. [key |-> id, value |-> v] \in Element
  BY QueuedValue DEF Element
<1>4. q \in Placements(w, id, v)
  OBVIOUS
<1> HIDE DEF w
<1>5. KeySet(q) = KeySet(w) \cup {id}
  BY <1>2, <1>3, <1>4, PlacementsProperties
<1> QED BY <1>2, <1>5

\* A change of a dequeued proposal, and of the slots, leaves the queue alone.
LEMMA DequeuedQueueKept ==
    ASSUME NEW g, Sound(g), QueueKept(g), NEW id, NEW index, isDequeuedProposal(g, id, index),
           NEW h, h.queue = g.queue,
           \A k \in DOMAIN g.proposals \ {id} : h.proposals[k] = g.proposals[k]
    PROVE  QueueKept(h)
<1>1. AloneIn(g, id, index)
  BY DequeuedAlone
<1>2. \A k \in KeySet(g.queue) : k # id /\ k \in DOMAIN g.proposals
  BY <1>1 DEF AloneIn, KeySet
<1> QED BY <1>2 DEF QueueKept

\* No step puts a proposal back into the queue, or lets one wait there anew.
LEMMA NextQueueKept == IInv /\ [Next]_vars => QueueKept(gov')
<1> SUFFICES ASSUME IInv, [Next]_vars PROVE QueueKept(gov')
  OBVIOUS
<1> DEFINE g == dequeueProposalsIfReady(gov)
<1>0. Sound(gov) /\ RecordsTyped /\ Ready
  BY DEF IInv, RecordsTyped
<1>g. Sound(g) /\ QueueKept(g) /\ g \in GovState
  BY <1>0, DequeueSound, DequeueQueueKept DEF Sound
<1> HIDE DEF g
<1>u. ASSUME UNCHANGED gov PROVE QueueKept(gov')
  BY <1>u DEF QueueKept
<1>1. ASSUME NEW a, NEW d, NEW txs, Propose(a, d, txs) PROVE QueueKept(gov')
  <2> DEFINE P == Append(g.proposals, make(a, d, txs))
             q == Append(g.queue, [key |-> Len(g.proposals) + 1, value |-> 0])
  <2>1. gov' = [g EXCEPT !.proposals = P, !.queue = q]
    BY <1>1 DEF Propose, g
  <2>2. gov'.proposals = P /\ gov'.queue = q
    BY <1>g, <2>1 DEF GovState
  <2>3. /\ DOMAIN g.proposals = 1..Len(g.proposals) /\ Len(g.proposals) \in Nat
        /\ g.proposals \in Seq(Proposal) /\ g.queue \in Seq(Element)
    BY <1>g, StateFields
  <2>4. DOMAIN gov.proposals = DOMAIN g.proposals
    BY <1>0, DequeueEffect DEF KeptBy, g
  <2>5. \A k \in DOMAIN gov.proposals : P[k] = g.proposals[k]
    BY <2>3, <2>4
  <2>6. KeySet(q) \subseteq KeySet(g.queue) \cup {Len(g.proposals) + 1}
    BY <2>3 DEF KeySet
  <2>7. Len(g.proposals) + 1 \notin DOMAIN gov.proposals
    BY <2>3, <2>4
  <2> HIDE DEF P, q
  <2> QED BY <1>g, <2>2, <2>5, <2>6, <2>7 DEF QueueKept
<1>2. ASSUME NEW id, UpvoteExpired(id) PROVE QueueKept(gov')
  <2>1. gov' = removeIfQueuedAndExpired(g, id)
    BY <1>2 DEF UpvoteExpired, g
  <2>2. KeySet(gov'.queue) \subseteq KeySet(g.queue) /\ gov'.proposals = g.proposals
    BY <1>g, <2>1, RemoveExpiredQueue
  <2> QED BY <1>g, <2>2, QueueKeptStep
<1>3. ASSUME NEW a \in Voters, NEW id, Upvote(a, id) PROVE QueueKept(gov')
  <2> DEFINE h == removeIfQueuedAndExpired(g, upvote[a].proposalId)
             v == getValue(h.queue, id) + locked[a]
  <2>1. /\ Sound(h) /\ h.proposals = g.proposals
        /\ KeySet(h.queue) \subseteq KeySet(g.queue)
    BY <1>g, RemoveExpiredSound, RemoveExpiredQueue
  <2>2. /\ id \in KeySet(h.queue)
        /\ \E q \in Placements(Without(h.queue, id), id, v) : gov' = [h EXCEPT !.queue = q]
    BY <1>3 DEF Upvote, inQueue, g
  <2> HIDE DEF h
  <2>3. v \in Nat
    <3>1. locked[a] \in Nat /\ getValue(h.queue, id) \in Nat
      BY <1>0, <2>1, <2>2, QueuedValue DEF RecordsTyped
    <3> QED BY <3>1
  <2> HIDE DEF v
  <2>4. PICK q \in Placements(Without(h.queue, id), id, v) : gov' = [h EXCEPT !.queue = q]
    BY <2>2
  <2>5. KeySet(q) \subseteq KeySet(h.queue)
    BY <2>1, <2>2, <2>3, PlacedQueue
  <2>6. gov'.queue = q /\ gov'.proposals = h.proposals
    BY <2>1, <2>4 DEF Sound, GovState
  <2> QED BY <1>g, <2>1, <2>5, <2>6, QueueKeptStep
<1>4. ASSUME NEW a \in Voters, RevokeUpvote(a) PROVE QueueKept(gov')
  <2> DEFINE id == upvote[a].proposalId
             weight == upvote[a].weight
             h == removeIfQueuedAndExpired(g, id)
             v == getValue(h.queue, id) - weight
  <2>1. /\ Sound(h) /\ h.proposals = g.proposals
        /\ KeySet(h.queue) \subseteq KeySet(g.queue)
    BY <1>g, RemoveExpiredSound, RemoveExpiredQueue
  <2>2. \/ /\ id \in KeySet(h.queue)
           /\ getValue(h.queue, id) >= weight
           /\ \E q \in Placements(Without(h.queue, id), id, v) : gov' = [h EXCEPT !.queue = q]
        \/ id \notin KeySet(h.queue) /\ gov' = h
    BY <1>4 DEF RevokeUpvote, inQueue, g
  <2> HIDE DEF h
  <2>3. CASE gov' = h
    BY <1>g, <2>1, <2>3, QueueKeptStep
  <2>4. CASE /\ id \in KeySet(h.queue) /\ getValue(h.queue, id) >= weight
             /\ \E q \in Placements(Without(h.queue, id), id, v) : gov' = [h EXCEPT !.queue = q]
    <3>1. v \in Nat
      <4>1. weight \in Nat /\ getValue(h.queue, id) \in Nat
        BY <1>0, <2>1, <2>4, QueuedValue DEF RecordsTyped
      <4> QED BY <2>4, <4>1
    <3> HIDE DEF v, id
    <3>2. PICK q \in Placements(Without(h.queue, id), id, v) : gov' = [h EXCEPT !.queue = q]
      BY <2>4
    <3>3. KeySet(q) \subseteq KeySet(h.queue)
      BY <2>1, <2>4, <3>1, PlacedQueue
    <3>4. gov'.queue = q /\ gov'.proposals = h.proposals
      BY <2>1, <3>2 DEF Sound, GovState
    <3> QED BY <1>g, <2>1, <3>3, <3>4, QueueKeptStep
  <2> QED BY <2>2, <2>3, <2>4
<1>5. ASSUME NEW id, NEW index, isDequeuedProposal(g, id, index),
             gov' = deleteDequeuedProposal(g, id, index)
      PROVE  QueueKept(gov')
  <2>1. /\ gov'.queue = g.queue
        /\ \A k \in DOMAIN g.proposals \ {id} : gov'.proposals[k] = g.proposals[k]
    BY <1>g, <1>5 DEF deleteDequeuedProposal, GovState
  <2> QED BY <1>g, <1>5, <2>1, DequeuedQueueKept
<1>6. ASSUME NEW id, NEW index, DeleteExpired(id, index) \/ Execute(id, index)
      PROVE  QueueKept(gov')
  BY <1>5, <1>6 DEF DeleteExpired, Execute, g
<1>7. ASSUME NEW id, NEW index, Approve(id, index) PROVE QueueKept(gov')
  <2>1. isDequeuedProposal(g, id, index)
    BY <1>7 DEF Approve, g
  <2>2. gov' = [g EXCEPT !.proposals[id].approved = TRUE,
                         !.proposals[id].networkWeight = totalLocked]
    BY <1>7 DEF Approve, g
  <2>3. /\ gov'.queue = g.queue
        /\ \A k \in DOMAIN g.proposals \ {id} : gov'.proposals[k] = g.proposals[k]
    BY <1>g, <2>2 DEF GovState
  <2> QED BY <1>g, <2>1, <2>3, DequeuedQueueKept
<1>8. ASSUME NEW id, NEW index, NEW a, NEW v, Vote(a, id, index, v) PROVE QueueKept(gov')
  <2> DEFINE record == voteRecord(a, index)
             previous == IF record.proposalId = id THEN record.value ELSE "None"
             votes == updateVote(g.proposals[id].votes, record.weight, locked[a], previous, v)
  <2>1. isDequeuedProposal(g, id, index)
    BY <1>8 DEF Vote, g
  <2>2. gov' = [g EXCEPT !.proposals[id].votes = votes,
                         !.proposals[id].networkWeight = totalLocked]
    BY <1>8 DEF Vote, previousValue, g
  <2> HIDE DEF votes
  <2>3. /\ gov'.queue = g.queue
        /\ \A k \in DOMAIN g.proposals \ {id} : gov'.proposals[k] = g.proposals[k]
    BY <1>g, <2>2 DEF GovState
  <2> QED BY <1>g, <2>1, <2>3, DequeuedQueueKept
<1>9. CASE Dequeue
  BY <1>9, <1>g DEF Dequeue, g
<1>10. CASE Tick \/ UNCHANGED vars
  BY <1>10, <1>u DEF Tick, vars
<1>11. ASSUME NEW a, Withdraw(a) PROVE QueueKept(gov')
  BY <1>11, <1>u DEF Withdraw
<1>12. ASSUME NEW a, NEW v, Lock(a, v) \/ Unlock(a, v) \/ Slash(a, v) PROVE QueueKept(gov')
  BY <1>12, <1>u DEF Lock, Unlock, Slash
<1> QED BY <1>1, <1>2, <1>3, <1>4, <1>6, <1>7, <1>8, <1>9, <1>10, <1>11, <1>12 DEF Next

\* A proposal that is queued and not expired was so before: time goes on, and nothing
\* but a longer queueExpiry lets a proposal wait longer.
LEMMA QueuedBefore ==
    ASSUME IInv, ParamsTyped, ParamsTyped', QueueKept(gov'), now' \in Nat, now' >= now,
           params'["queueExpiry"] <= params["queueExpiry"]
    PROVE  \A id \in DOMAIN gov.proposals : isQueued(gov, id)' => isQueued(gov, id)
<1> SUFFICES ASSUME NEW id \in DOMAIN gov.proposals, isQueued(gov, id)' PROVE isQueued(gov, id)
  OBVIOUS
<1>1. now \in Nat /\ params["queueExpiry"] \in Int /\ params'["queueExpiry"] \in Int
  BY DEF IInv, RecordsTyped, Ready, ParamsTyped, Parameters, ParamNames, Counts
<1>2. id # 0 /\ gov.proposals[id] \in Proposal
  BY SlotIdsOf DEF IInv
<1>3. id \in KeySet(gov'.queue)
  BY DEF isQueued, inQueue
<1>4. id \in KeySet(gov.queue) /\ gov'.proposals[id].timestamp = gov.proposals[id].timestamp
  BY <1>3 DEF QueueKept
<1> DEFINE t == gov.proposals[id].timestamp
<1>5. t \in Nat
  BY <1>2 DEF Proposal
<1>6. ~(now' >= t + params'["queueExpiry"])
  BY <1>2, <1>4 DEF isQueued, isQueuedProposalExpired, proposalAt
<1>7. t = proposalAt(gov, id).timestamp
  BY <1>2 DEF proposalAt
<1> HIDE DEF t
<1>8. ~(now >= t + params["queueExpiry"])
  BY <1>1, <1>5, <1>6
<1> QED BY <1>4, <1>7, <1>8 DEF isQueued, isQueuedProposalExpired, inQueue

\* The gold of the account covers its upvote.
Backed(a) ==
    isQueued(gov, upvote[a].proposalId) => upvote[a].weight <= locked[a] + slashed[a]

\* Every step that does not raise queueExpiry keeps the gold behind the upvotes.
LEMMA NextUpvoted ==
    /\ TotalsInv /\ ParamsTyped /\ UpvotedInv /\ [Next]_vars
    /\ [params'["queueExpiry"] <= params["queueExpiry"]]_vars
    => UpvotedInv'
<1> SUFFICES ASSUME TotalsInv, ParamsTyped, UpvotedInv, [Next]_vars,
                    [params'["queueExpiry"] <= params["queueExpiry"]]_vars
             PROVE  UpvotedInv'
  OBVIOUS
<1>0. /\ IInv /\ Sound(gov) /\ UpvotesKnown(gov)
      /\ upvote \in [Voters -> [proposalId : Nat, weight : Nat]]
      /\ locked \in [Voters -> Nat] /\ slashed \in [Voters -> Nat]
      /\ \A a \in Voters : Backed(a)
  BY DEF TotalsInv, IInv, Tallied, RecordsTyped, UpvotedInv, SlashedTyped,
         UpvotedGoldStaysLocked, Backed
<1>1. IInv' /\ ParamsTyped'
  BY <1>0, NextInvariant, NextParamsTyped
<1>2. QueueKept(gov')
  BY <1>0, NextQueueKept
<1>3. params'["queueExpiry"] <= params["queueExpiry"]
  <2>1. params["queueExpiry"] \in Int
    BY DEF ParamsTyped, Parameters, ParamNames, Counts
  <2> QED BY <2>1 DEF vars, ruleVars
<1>4. now' \in Nat /\ now' >= now
  <2>1. now \in Nat
    BY <1>0 DEF IInv, RecordsTyped, Ready
  <2>2. CASE UNCHANGED now
    BY <2>1, <2>2
  <2>3. CASE Tick
    BY <2>1, <2>3 DEF Tick
  <2>4. CASE Dequeue \/ UNCHANGED vars
    BY <2>2, <2>4 DEF Dequeue, vars
  <2>5. ASSUME NEW a, NEW d, NEW txs, Propose(a, d, txs) PROVE UNCHANGED now
    BY <2>5 DEF Propose
  <2>6. ASSUME NEW a, NEW id, Upvote(a, id) \/ UpvoteExpired(id) \/ RevokeUpvote(a)
        PROVE  UNCHANGED now
    BY <2>6 DEF Upvote, UpvoteExpired, RevokeUpvote
  <2>7. ASSUME NEW id, NEW index, DeleteExpired(id, index) \/ Approve(id, index) \/ Execute(id, index)
        PROVE  UNCHANGED now
    BY <2>7 DEF DeleteExpired, Approve, Execute
  <2>8. ASSUME NEW id, NEW index, NEW a, NEW v, Vote(a, id, index, v) PROVE UNCHANGED now
    BY <2>8 DEF Vote
  <2>9. ASSUME NEW a, NEW v, Withdraw(a) \/ Lock(a, v) \/ Unlock(a, v) \/ Slash(a, v)
        PROVE  UNCHANGED now
    BY <2>9 DEF Withdraw, Lock, Unlock, Slash
  <2> QED BY <2>2, <2>3, <2>4, <2>5, <2>6, <2>7, <2>8, <2>9 DEF Next
<1>5. \A id \in DOMAIN gov.proposals : isQueued(gov, id)' => isQueued(gov, id)
  BY <1>0, <1>1, <1>2, <1>3, <1>4, QueuedBefore
\* An upvote of nothing stands behind no queued proposal.
<1>6. 0 \notin KeySet(gov'.queue)
  <2>1. gov' \in GovState /\ InOnePlaceIn(gov')
    BY <1>1 DEF IInv, Sound, GovState, Proposal, InOnePlaceIn
  <2>2. \A k \in DOMAIN gov'.queue : gov'.queue[k].key \in DOMAIN gov'.proposals
    BY <2>1 DEF InOnePlaceIn
  <2>3. 0 \notin DOMAIN gov'.proposals
    BY <2>1, StateFields
  <2> QED BY <2>2, <2>3 DEF KeySet
<1>7. ASSUME NEW a \in Voters, upvote'[a] = upvote[a],
             \/ ~isQueued(gov, upvote[a].proposalId)
             \/ locked'[a] + slashed'[a] >= locked[a] + slashed[a],
             locked'[a] \in Nat, slashed'[a] \in Nat
      PROVE  Backed(a)'
  <2> DEFINE id == upvote[a].proposalId
  <2>1. id \in {0} \cup DOMAIN gov.proposals
    BY <1>0 DEF UpvotesKnown
  <2>2. CASE id = 0
    BY <1>6, <1>7, <2>2 DEF Backed, isQueued, inQueue
  <2>3. CASE id \in DOMAIN gov.proposals /\ isQueued(gov, id)
    <3>1. upvote[a].weight <= locked[a] + slashed[a]
      BY <1>0, <2>3 DEF Backed
    <3>2. upvote[a].weight \in Nat /\ locked[a] \in Nat /\ slashed[a] \in Nat
      BY <1>0
    <3>3. upvote'[a].weight <= locked'[a] + slashed'[a]
      BY <1>7, <2>3, <3>1, <3>2
    <3> QED BY <3>3 DEF Backed
  <2>4. CASE id \in DOMAIN gov.proposals /\ ~isQueued(gov, id)
    <3>1. ~isQueued(gov, upvote[a].proposalId)'
      BY <1>5, <1>7, <2>4 DEF isQueued, inQueue, isQueuedProposalExpired, proposalAt
    <3> QED BY <3>1 DEF Backed
  <2> QED BY <2>1, <2>2, <2>3, <2>4
<1>8. locked' \in [Voters -> Nat]
  BY <1>1 DEF IInv, RecordsTyped
<1>9. ASSUME slashed' \in [Voters -> Nat], \A a \in Voters : Backed(a)'
      PROVE  UpvotedInv'
  BY <1>9 DEF UpvotedInv, SlashedTyped, UpvotedGoldStaysLocked, Backed
<1>10. ASSUME UNCHANGED <<upvote, locked, slashed>> PROVE UpvotedInv'
  <2>1. \A a \in Voters : locked'[a] + slashed'[a] >= locked[a] + slashed[a]
    <3>1. \A a \in Voters : locked[a] + slashed[a] \in Int
      BY <1>0
    <3> QED BY <1>10, <3>1
  <2>2. \A a \in Voters : Backed(a)'
    BY <1>0, <1>7, <1>8, <1>10, <2>1
  <2> QED BY <1>0, <1>9, <1>10, <2>2
<1>11. ASSUME NEW a \in Voters, NEW v \in 1..MaxGold, Lock(a, v) PROVE UpvotedInv'
  <2>1. /\ locked' = [locked EXCEPT ![a] = @ + v] /\ UNCHANGED <<upvote, slashed>>
    BY <1>11 DEF Lock, voterVars
  <2>2. \A b \in Voters : locked'[b] + slashed'[b] >= locked[b] + slashed[b]
    <3>1. \A b \in Voters : locked[b] \in Nat /\ slashed[b] \in Nat /\ v \in Nat
      BY <1>0
    <3>2. \A b \in Voters : locked'[b] >= locked[b] /\ slashed'[b] = slashed[b]
      BY <1>0, <2>1, <3>1
    <3> QED BY <1>8, <3>1, <3>2
  <2>3. \A b \in Voters : Backed(b)'
    BY <1>0, <1>7, <1>8, <2>1, <2>2
  <2> QED BY <1>0, <1>9, <2>1, <2>3
\* unlock asks isVoting first.
<1>12. ASSUME NEW a \in Voters, NEW v \in 1..MaxGold, Unlock(a, v) PROVE UpvotedInv'
  <2>1. /\ locked' = [locked EXCEPT ![a] = @ - v] /\ UNCHANGED <<upvote, slashed>>
        /\ ~isVoting(a)
    BY <1>12 DEF Unlock, voterVars
  <2>2. ~isQueued(gov, upvote[a].proposalId)
    <3>1. \A k \in DOMAIN gov.queue : gov.queue[k].key \in DOMAIN gov.proposals
      BY <1>0 DEF Sound, InOnePlaceIn
    <3>2. 0 \notin KeySet(gov.queue)
      BY <1>0, <3>1, SlotIdsOf DEF KeySet
    <3> QED BY <2>1, <3>2 DEF isVoting, isQueued, inQueue
  <2>3. ASSUME NEW b \in Voters PROVE Backed(b)'
    <3>1. b # a => locked'[b] = locked[b]
      BY <1>0, <2>1
    <3>2. locked[b] + slashed[b] \in Int
      BY <1>0
    <3>3. \/ ~isQueued(gov, upvote[b].proposalId)
          \/ locked'[b] + slashed'[b] >= locked[b] + slashed[b]
      BY <2>1, <2>2, <3>1, <3>2
    <3>4. locked'[b] \in Nat /\ slashed'[b] \in Nat /\ upvote'[b] = upvote[b]
      BY <1>0, <1>8, <2>1
    <3> QED BY <1>7, <3>3, <3>4
  <2> QED BY <1>0, <1>9, <2>1, <2>3
<1>13. ASSUME NEW a \in Voters, NEW v \in 1..MaxGold, Slash(a, v) PROVE UpvotedInv'
  <2>1. /\ locked' = [locked EXCEPT ![a] = @ - v] /\ UNCHANGED upvote
        /\ slashed' = [slashed EXCEPT ![a] = @ + v]
    BY <1>13 DEF Slash, voterVars
  <2>2. v \in Nat /\ slashed' \in [Voters -> Nat]
    BY <1>0, <2>1
  <2>3. \A b \in Voters : locked'[b] + slashed'[b] >= locked[b] + slashed[b]
    <3> SUFFICES ASSUME NEW b \in Voters
                 PROVE  locked'[b] + slashed'[b] >= locked[b] + slashed[b]
      OBVIOUS
    <3>1. locked[b] \in Nat /\ slashed[b] \in Nat
      BY <1>0
    <3>2. CASE b = a
      <4>1. locked'[b] = locked[b] - v /\ slashed'[b] = slashed[b] + v
        BY <1>0, <2>1, <3>2
      <4> QED BY <2>2, <3>1, <4>1
    <3>3. CASE b # a
      <4>1. locked'[b] = locked[b] /\ slashed'[b] = slashed[b]
        BY <1>0, <2>1, <3>3
      <4> QED BY <3>1, <4>1
    <3> QED BY <3>2, <3>3
  <2>4. \A b \in Voters : Backed(b)'
    BY <1>7, <1>8, <2>1, <2>2, <2>3
  <2> QED BY <1>9, <2>2, <2>4
<1>14. ASSUME NEW a \in Voters, NEW r, upvote' = [upvote EXCEPT ![a] = r],
              UNCHANGED <<locked, slashed>>, Backed(a)'
       PROVE  UpvotedInv'
  <2>1. ASSUME NEW b \in Voters \ {a} PROVE Backed(b)'
    <3>1. /\ upvote'[b] = upvote[b] /\ locked'[b] \in Nat /\ slashed'[b] \in Nat
          /\ locked'[b] = locked[b] /\ slashed'[b] = slashed[b]
          /\ locked[b] + slashed[b] \in Int
      BY <1>0, <1>14
    <3>2. locked'[b] + slashed'[b] >= locked[b] + slashed[b]
      BY <3>1
    <3> QED BY <1>7, <3>1, <3>2
  <2> QED BY <1>0, <1>9, <1>14, <2>1
<1>15. ASSUME NEW a \in Voters, NEW id, Upvote(a, id) PROVE UpvotedInv'
  <2> DEFINE r == [proposalId |-> id, weight |-> locked[a]]
  <2>1. upvote' = [upvote EXCEPT ![a] = r] /\ UNCHANGED <<locked, slashed>>
    BY <1>15 DEF Upvote, goldVars
  <2>2. upvote'[a].weight = locked[a]
    BY <1>0, <2>1
  <2>3. upvote'[a].weight <= locked'[a] + slashed'[a]
    <3>1. locked[a] \in Nat /\ slashed[a] \in Nat /\ locked'[a] = locked[a] /\ slashed'[a] = slashed[a]
      BY <1>0, <2>1
    <3> QED BY <2>2, <3>1
  <2>4. Backed(a)'
    BY <2>3 DEF Backed
  <2> HIDE DEF r
  <2> QED BY <1>14, <2>1, <2>4
<1>16. ASSUME NEW a \in Voters, RevokeUpvote(a) PROVE UpvotedInv'
  <2>1. upvote' = [upvote EXCEPT ![a] = NoUpvote] /\ UNCHANGED <<locked, slashed>>
    BY <1>16 DEF RevokeUpvote, goldVars
  <2>2. upvote'[a].proposalId = 0
    BY <1>0, <2>1 DEF NoUpvote
  <2>3. Backed(a)'
    BY <1>6, <2>2 DEF Backed, isQueued, inQueue
  <2> QED BY <1>14, <2>1, <2>3
<1>17. CASE Tick \/ Dequeue \/ UNCHANGED vars
  BY <1>10, <1>17 DEF Tick, Dequeue, vars, voterVars, goldVars
<1>18. ASSUME NEW a, NEW d, NEW txs, Propose(a, d, txs) PROVE UpvotedInv'
  BY <1>10, <1>18 DEF Propose, voterVars, goldVars
<1>19. ASSUME NEW id, UpvoteExpired(id) PROVE UpvotedInv'
  BY <1>10, <1>19 DEF UpvoteExpired, voterVars, goldVars
<1>20. ASSUME NEW id, NEW index, DeleteExpired(id, index) \/ Approve(id, index) \/ Execute(id, index)
       PROVE  UpvotedInv'
  BY <1>10, <1>20 DEF DeleteExpired, Approve, Execute, voterVars, goldVars
<1>21. ASSUME NEW id, NEW index, NEW a, NEW v, Vote(a, id, index, v) PROVE UpvotedInv'
  BY <1>10, <1>21 DEF Vote, goldVars
<1>22. ASSUME NEW a, Withdraw(a) PROVE UpvotedInv'
  BY <1>10, <1>22 DEF Withdraw, voterVars, goldVars
<1> QED BY <1>11, <1>12, <1>13, <1>15, <1>16, <1>17, <1>18, <1>19, <1>20, <1>21, <1>22 DEF Next

\* initialize finds no upvotes and nothing slashed.
LEMMA InitUpvoted == Init => UpvotedInv
<1> SUFFICES ASSUME Init PROVE UpvotedInv
  OBVIOUS
<1>1. slashed = [a \in Voters |-> 0] /\ gov.queue = <<>>
  BY DEF Init
<1>2. ~\E id : isQueued(gov, id)
  BY <1>1 DEF isQueued, inQueue, KeySet
<1> QED BY <1>1, <1>2 DEF UpvotedInv, SlashedTyped, UpvotedGoldStaysLocked

\* As long as no proposal that is executed raises queueExpiry, the gold behind an upvote
\* stays locked while the upvote counts: isVoting, on which unlock relies, is right about
\* the queue whatever is dequeued, expires, is revoked or is slashed in between.
THEOREM UpvotedGoldAlwaysLocked ==
    Spec /\ QueueExpiryNotRaised => []UpvotedGoldStaysLocked
<1>1. Spec => []ParamsTyped
  <2>1. IInv /\ ParamsTyped /\ [Next]_vars => ParamsTyped'
    BY NextParamsTyped
  <2>2. TotalsInv => IInv
    BY DEF TotalsInv
  <2> QED BY <2>1, <2>2, InitParamsTyped, TotalsHold, PTL DEF Spec
<1>2. UpvotedInv => UpvotedGoldStaysLocked
  BY DEF UpvotedInv
<1>3. Spec /\ QueueExpiryNotRaised => []UpvotedInv
  BY <1>1, InitUpvoted, NextUpvoted, TotalsHold, PTL DEF Spec, QueueExpiryNotRaised
<1> QED BY <1>2, <1>3, PTL

-----------------------------------------------------------------------------
(***************************************************************************)
(* The parameters stay in the range the setters allow                      *)
(*                                                                         *)
(* No setter looks at the participation baseline again after initialize:   *)
(* the deletion of a proposal moves it, to a mean of the baseline and the  *)
(* participation.  It stays a proper fraction if the participation is one. *)
(***************************************************************************)

\* Truncating the operands, multiply gives at most its second operand.
LEMMA MultiplyProper ==
    ASSUME NEW x \in 0..FIXED1, NEW y \in 0..FIXED1
    PROVE  multiply(x, y) \in 0..y
<1> DEFINE M == MulPrecision
           F == FIXED1
           x3 == x \div M
           y3 == y \div M
<1>1. M \in Nat \ {0} /\ F \in Nat /\ F > 0 /\ F = M * M
  BY Fixed1Positive, MulPrecisionAssumption DEF FIXED1
<1> HIDE DEF F
<1>2. CASE x = 0 \/ y = 0 \/ x = F \/ y = F
  <2>1. multiply(x, y) = IF x = 0 \/ y = 0 THEN 0 ELSE IF y = F THEN x ELSE y
    BY <1>2 DEF multiply, F
  <2> QED BY <1>1, <2>1 DEF F
<1>3. CASE x # 0 /\ y # 0 /\ x # F /\ y # F
  <2>1. \A z \in 0..F - 1 : z \div F = 0
    BY <1>1
  <2>2. x \div F = 0 /\ y \div F = 0 /\ 0 \div F = 0
    <3>1. x \in 0..F - 1 /\ y \in 0..F - 1 /\ 0 \in 0..F - 1
      BY <1>1, <1>3 DEF F
    <3> QED BY <2>1, <3>1
  <2>3. /\ integer(x) = 0 /\ integer(y) = 0
        /\ fractional(x) = x /\ fractional(y) = y
    BY <1>1, <2>2 DEF integer, fractional, F
  <2>4. x3 \in Nat /\ y3 \in Nat /\ x3 * M <= x /\ y3 * M <= y
    BY <1>1, QuotientBelow
  <2>5. multiply(x, y) = x3 * y3
    <3>1. multiply(x, y) = 0 * 0 * F + x * 0 + 0 * y + x3 * y3
      BY <1>3, <2>2, <2>3 DEF multiply, F
    <3> HIDE DEF x3, y3
    <3> QED BY <1>1, <2>4, <3>1
  <2> HIDE DEF x3, y3, M
  <2>6. x3 <= M
    <3>1. x3 * M <= M * M
      BY <1>1, <2>4 DEF F
    <3>2. ~(M + 1 <= x3)
      <4>1. M + 1 <= x3 => (M + 1) * M <= x3 * M
        BY <1>1, <2>4, ProductOrder
      <4>2. (M + 1) * M = M * M + M
        BY <1>1
      <4> QED BY <1>1, <2>4, <3>1, <4>1, <4>2
    <3> QED BY <1>1, <2>4, <3>2
  <2>7. x3 * y3 <= M * y3
    BY <1>1, <2>4, <2>6, ProductOrder
  <2>8. M * y3 <= y /\ x3 * y3 \in Nat
    BY <1>1, <2>4
  <2> QED BY <1>1, <2>4, <2>5, <2>7, <2>8 DEF F
<1> QED BY <1>2, <1>3

\* A part of a whole is a proper fraction.
LEMMA FractionProper ==
    ASSUME NEW t \in Nat, NEW n \in Nat \ {0}, t <= n
    PROVE  newFixedFraction(t, n) \in 0..FIXED1
<1> DEFINE F == FIXED1
           D == n * F
           X == (t * F) * F
           q == X \div D
<1>1. F \in Nat /\ F > 0
  BY Fixed1Positive
<1> HIDE DEF F
<1>2. D \in Nat \ {0} /\ X \in Nat
  BY <1>1
<1>3. q \in Nat /\ q * D <= X
  <2> HIDE DEF D, X
  <2> QED BY <1>2, QuotientBelow
<1>4. newFixedFraction(t, n) = q
  BY DEF newFixedFraction, divide, newFixed, F
<1>5. X <= F * D
  <2>1. t * F <= n * F
    BY <1>1, ProductOrder
  <2>2. (t * F) * F <= (n * F) * F
    BY <1>1, <2>1, ProductOrder
  <2>3. (n * F) * F = F * D
    BY <1>1
  <2> QED BY <2>2, <2>3
<1> HIDE DEF D, X, q
<1>6. ~(F + 1 <= q)
  <2>1. F + 1 <= q => (F + 1) * D <= q * D
    BY <1>1, <1>2, <1>3, ProductOrder
  <2>2. (F + 1) * D = F * D + D
    BY <1>1, <1>2
  <2>3. q * D \in Int /\ F * D \in Int
    BY <1>1, <1>2, <1>3
  <2> QED BY <1>2, <1>3, <1>5, <2>1, <2>2, <2>3
<1> QED BY <1>1, <1>3, <1>4, <1>6 DEF F

\* The participation in a proposal is a fraction: its votes do not exceed its network
\* weight.  They do once gold that has voted was slashed, or unlocked while the account voted
\* in overlapping referendums, and somebody else votes.
VotesWithinWeight ==
    \A i \in DOMAIN gov.dequeued :
        LET p == gov.proposals[gov.dequeued[i]]
        IN  gov.dequeued[i] # 0 /\ p.approved /\ p.networkWeight > 0
            => totalVotes(p) <= p.networkWeight

\* What the setters allow, of the parameters and of a threshold.
Proper(ps) ==
    /\ DOMAIN ps = ParamNames
    /\ \A name \in Counts : ps[name] \in Nat \ {0}
    /\ \A name \in Fractions : ps[name] \in 0..FIXED1

ProperThreshold(t) == t # 0 => t > FIXED1 \div 2 /\ t <= FIXED1

RangeInv == Proper(params) /\ \A key \in ConstitutionKeys : ProperThreshold(constitution[key])

\* The counts and the fractions have different names.
LEMMA Names ==
    /\ "baseline" \in Fractions /\ "baselineUpdateFactor" \in Fractions
    /\ "baselineFloor" \in Fractions
    /\ "baseline" \notin Counts /\ ParamNames = Counts \cup Fractions
BY DEF Counts, Fractions, ParamNames

\* The baseline moves to a mean of two proper fractions, or to the floor.
LEMMA DeleteProper ==
    ASSUME NEW ps, Proper(ps), NEW p \in Proposal,
           p.approved /\ p.networkWeight > 0 => totalVotes(p) <= p.networkWeight
    PROVE  Proper(paramsAfterDelete(ps, p))
<1>1. CASE p.approved /\ p.networkWeight > 0
  <2> DEFINE u == ps["baselineUpdateFactor"]
             part == getParticipation(p)
             b == updatedBaseline(ps, p)
  <2>1. ps["baseline"] \in 0..FIXED1 /\ u \in 0..FIXED1 /\ ps["baselineFloor"] \in 0..FIXED1
    BY Names DEF Proper
  <2>2. part \in 0..FIXED1
    <3>1. p.networkWeight \in Nat \ {0} /\ totalVotes(p) \in Nat
      BY <1>1, TotalVotesType DEF Proposal
    <3> QED BY <1>1, <3>1, FractionProper DEF getParticipation
  <2>3. FIXED1 - u \in 0..FIXED1 /\ FIXED1 \in Nat
    <3> HIDE DEF u
    <3> QED BY <2>1, Fixed1Positive
  <2>4. /\ multiply(part, u) \in 0..u
        /\ multiply(ps["baseline"], FIXED1 - u) \in 0..(FIXED1 - u)
    <3> HIDE DEF u, part
    <3> QED BY <2>1, <2>2, <2>3, MultiplyProper
  <2>5. b \in 0..FIXED1
    <3> DEFINE x == multiply(part, u)
               y == multiply(ps["baseline"], FIXED1 - u)
    <3>1. b = IF x + y < ps["baselineFloor"] THEN ps["baselineFloor"] ELSE x + y
      BY DEF updatedBaseline
    <3> HIDE DEF b, x, y, u
    <3>2. x + y \in 0..FIXED1
      <4>1. x \in 0..u /\ y \in 0..(FIXED1 - u)
        BY <2>4 DEF x, y
      <4> HIDE DEF FIXED1
      <4> QED BY <2>1, <2>3, <4>1
    <3> QED BY <2>1, <3>1, <3>2
  <2> HIDE DEF b
  <2>6. Proper([ps EXCEPT !["baseline"] = b])
    BY <2>5, Names DEF Proper
  <2> QED BY <1>1, <2>6 DEF paramsAfterDelete, b
<1>2. CASE ~(p.approved /\ p.networkWeight > 0)
  BY <1>2 DEF paramsAfterDelete
<1> QED BY <1>1, <1>2

\* A payload that is executed sets what its setters allow.
LEMMA PayloadProper ==
    ASSUME RangeInv, MoneyTyped, NEW txs \in Payloads \cup {<<>>},
           \A j \in DOMAIN txs : setterSucceeds(txs[j])
    PROVE  /\ Proper(executeTransactions(txs))
           /\ \A key \in ConstitutionKeys : ProperThreshold(amendConstitution(txs)[key])
<1>1. \A j \in DOMAIN txs : txs[j].to \in Nat
  <2>1. CASE txs \in Payloads
    BY <2>1, GovernanceAssumption DEF IsPayload
  <2>2. CASE txs = <<>>
    BY <2>2
  <2> QED BY <2>1, <2>2
<1>2. Proper(params)
  BY DEF RangeInv
<1>3. ASSUME NEW name \in ParamNames
      PROVE  \/ executeTransactions(txs)[name] = params[name]
             \/ \E j \in DOMAIN txs : /\ txs[j].set = name
                                      /\ executeTransactions(txs)[name] = txs[j].to
  <2> DEFINE setters == {j \in DOMAIN txs : txs[j].set = name}
  <2>1. executeTransactions(txs)[name] =
           IF setters = {} THEN params[name] ELSE txs[CHOOSE j \in setters : TRUE].to
    BY DEF executeTransactions
  <2>2. setters # {} => (CHOOSE j \in setters : TRUE) \in setters
    OBVIOUS
  <2> QED BY <2>1, <2>2
<1>4. \A j \in DOMAIN txs : /\ txs[j].set \in Counts => txs[j].to \in Nat \ {0}
                            /\ txs[j].set \in Fractions => txs[j].to \in 0..FIXED1
  BY <1>1, Fixed1Positive DEF setterSucceeds, isProperFraction
<1>5. Proper(executeTransactions(txs))
  <2>1. DOMAIN executeTransactions(txs) = ParamNames
    BY DEF executeTransactions
  <2>2. \A name \in Counts : executeTransactions(txs)[name] \in Nat \ {0}
    BY <1>2, <1>3, <1>4, Names DEF Proper
  <2>3. \A name \in Fractions : executeTransactions(txs)[name] \in 0..FIXED1
    BY <1>2, <1>3, <1>4, Names DEF Proper
  <2> QED BY <2>1, <2>2, <2>3 DEF Proper
<1>6. ASSUME NEW key \in ConstitutionKeys PROVE ProperThreshold(amendConstitution(txs)[key])
  <2> DEFINE setters == {j \in DOMAIN txs : txs[j].set = "constitution" /\ txs[j].key = key}
  <2>1. amendConstitution(txs)[key] =
           IF setters = {} THEN constitution[key] ELSE txs[CHOOSE j \in setters : TRUE].to
    BY DEF amendConstitution
  <2>2. setters # {} => (CHOOSE j \in setters : TRUE) \in setters
    OBVIOUS
  <2>3. \A j \in setters : ProperThreshold(txs[j].to)
    BY DEF setterSucceeds, ProperThreshold
  <2>4. ProperThreshold(constitution[key])
    BY DEF RangeInv
  <2> HIDE DEF setters
  <2> QED BY <2>1, <2>2, <2>3, <2>4
<1> QED BY <1>5, <1>6

\* A proposal that is deleted, if it was approved, has no more votes than weight.
LEMMA DeletedWithinWeight ==
    ASSUME TotalsInv, VotesWithinWeight, NEW id, NEW index,
           isDequeuedProposal(dequeueProposalsIfReady(gov), id, index)
    PROVE  LET p == dequeueProposalsIfReady(gov).proposals[id]
           IN  /\ p \in Proposal
               /\ p.approved /\ p.networkWeight > 0 => totalVotes(p) <= p.networkWeight
<1> DEFINE g == dequeueProposalsIfReady(gov)
           p == g.proposals[id]
<1>0. Sound(gov) /\ Ready /\ Tallied(gov)
  BY DEF TotalsInv, IInv, RecordsTyped
<1>1. Sound(g) /\ isDequeuedProposal(g, id, index)
  BY <1>0, DequeueSound
<1> HIDE DEF g
<1>2. p \in Proposal
  BY <1>1, DequeuedAlone DEF AloneIn
<1>3. ASSUME p.approved, p.networkWeight > 0 PROVE totalVotes(p) <= p.networkWeight
  <2>1. /\ index \in DOMAIN gov.dequeued /\ gov.dequeued[index] = id /\ id # 0
        /\ p = gov.proposals[id]
    BY <1>0, <1>1, <1>3, ApprovedEarlier DEF g
  <2> QED BY <1>3, <2>1 DEF VotesWithinWeight
<1> QED BY <1>2, <1>3 DEF g

\* No step takes a parameter or a threshold out of its range.
LEMMA NextRange ==
    TotalsInv /\ RangeInv /\ VotesWithinWeight /\ [Next]_vars => RangeInv'
<1> SUFFICES ASSUME TotalsInv, RangeInv, VotesWithinWeight, [Next]_vars PROVE RangeInv'
  OBVIOUS
<1> DEFINE g == dequeueProposalsIfReady(gov)
<1>0. MoneyTyped /\ Proper(params)
  BY DEF TotalsInv, RangeInv
<1>u. ASSUME UNCHANGED <<params, constitution>> PROVE RangeInv'
  BY <1>u DEF RangeInv, Proper, ProperThreshold
<1>1. ASSUME NEW id, NEW index, DeleteExpired(id, index) PROVE RangeInv'
  <2> DEFINE p == g.proposals[id]
  <2>1. /\ isDequeuedProposal(g, id, index) /\ params' = paramsAfterDelete(params, p)
        /\ UNCHANGED constitution
    BY <1>1 DEF DeleteExpired
  <2>2. /\ p \in Proposal
        /\ p.approved /\ p.networkWeight > 0 => totalVotes(p) <= p.networkWeight
    BY <2>1, DeletedWithinWeight
  <2> HIDE DEF p
  <2>3. Proper(paramsAfterDelete(params, p))
    BY <1>0, <2>2, DeleteProper
  <2>4. Proper(params')
    BY <2>1, <2>3
  <2> QED BY <2>1, <2>4 DEF RangeInv, Proper, ProperThreshold
<1>2. ASSUME NEW id, NEW index, Execute(id, index) PROVE RangeInv'
  <2> DEFINE p == g.proposals[id]
             txs == p.transactions
  <2>1. /\ isDequeuedProposal(g, id, index)
        /\ params' = paramsAfterDelete(executeTransactions(txs), p)
        /\ constitution' = amendConstitution(txs)
        /\ \A j \in DOMAIN txs : setterSucceeds(txs[j])
    BY <1>2 DEF Execute
  <2>2. /\ p \in Proposal
        /\ p.approved /\ p.networkWeight > 0 => totalVotes(p) <= p.networkWeight
    BY <2>1, DeletedWithinWeight
  <2> HIDE DEF p
  <2>3. txs \in Payloads \cup {<<>>}
    BY <2>2 DEF Proposal
  <2>4. /\ Proper(executeTransactions(txs))
        /\ \A key \in ConstitutionKeys : ProperThreshold(amendConstitution(txs)[key])
    BY <1>0, <2>1, <2>3, PayloadProper
  <2> HIDE DEF txs
  <2>5. Proper(paramsAfterDelete(executeTransactions(txs), p))
    BY <2>2, <2>4, DeleteProper
  <2>6. Proper(params') /\ \A key \in ConstitutionKeys : ProperThreshold(constitution'[key])
    BY <2>1, <2>4, <2>5
  <2> QED BY <2>6 DEF RangeInv, Proper, ProperThreshold
<1>3. CASE Tick \/ Dequeue \/ UNCHANGED vars
  BY <1>3, <1>u DEF Tick, Dequeue, vars, ruleVars
<1>4. ASSUME NEW a, NEW d, NEW txs, Propose(a, d, txs) PROVE RangeInv'
  BY <1>4, <1>u DEF Propose, ruleVars
<1>5. ASSUME NEW id, UpvoteExpired(id) PROVE RangeInv'
  BY <1>5, <1>u DEF UpvoteExpired, ruleVars
<1>6. ASSUME NEW a, NEW id, Upvote(a, id) \/ RevokeUpvote(a) PROVE RangeInv'
  BY <1>6, <1>u DEF Upvote, RevokeUpvote, ruleVars
<1>7. ASSUME NEW id, NEW index, Approve(id, index) PROVE RangeInv'
  BY <1>7, <1>u DEF Approve, ruleVars
<1>8. ASSUME NEW id, NEW index, NEW a, NEW v, Vote(a, id, index, v) PROVE RangeInv'
  BY <1>8, <1>u DEF Vote, ruleVars
<1>9. ASSUME NEW a, Withdraw(a) PROVE RangeInv'
  BY <1>9, <1>u DEF Withdraw, ruleVars
<1>10. ASSUME NEW a, NEW v, Lock(a, v) \/ Unlock(a, v) \/ Slash(a, v) PROVE RangeInv'
  BY <1>10, <1>u DEF Lock, Unlock, Slash, ruleVars
<1> QED BY <1>1, <1>2, <1>3, <1>4, <1>5, <1>6, <1>7, <1>8, <1>9, <1>10 DEF Next

\* initialize calls the setters, and sets no threshold.
LEMMA InitRange == Init => RangeInv
<1> SUFFICES ASSUME Init PROVE RangeInv
  OBVIOUS
<1>1. params = InitialParams /\ \A key \in ConstitutionKeys : constitution[key] = 0
  BY DEF Init
<1>2. /\ DOMAIN InitialParams = ParamNames
      /\ \A name \in ParamNames : InitialParams[name] \in Nat
  BY GovernanceAssumption
<1>3. \A name \in Counts : InitialParams[name] \in Nat \ {0}
  BY <1>2, InitialParamsAssumption, Names
<1>4. \A name \in Fractions : InitialParams[name] \in 0..FIXED1
  BY <1>2, InitialParamsAssumption, Names, Fixed1Positive DEF isProperFraction
<1> QED BY <1>1, <1>2, <1>3, <1>4 DEF RangeInv, Proper, ProperThreshold

\* As long as the votes on a proposal do not exceed its network weight, every count stays
\* positive and every fraction and threshold proper, whatever proposals set and however
\* often deletions move the baseline.
THEOREM ParamsAlwaysInRange == Spec /\ []VotesWithinWeight => []ParamsInRange
<1>1. RangeInv => ParamsInRange
  <2> SUFFICES ASSUME RangeInv PROVE ParamsInRange
    OBVIOUS
  <2>1. /\ \A name \in Counts : params[name] \in Nat \ {0}
        /\ \A name \in Fractions : params[name] \in 0..FIXED1
        /\ \A key \in ConstitutionKeys : ProperThreshold(constitution[key])
    BY DEF RangeInv, Proper
  <2>2. /\ \A name \in Counts : params[name] > 0
        /\ \A name \in Fractions : params[name] <= FIXED1
    BY <2>1, Fixed1Positive
  <2> QED BY <2>1, <2>2 DEF ParamsInRange, ProperThreshold, isProperFraction
<1>2. Spec /\ []VotesWithinWeight => []RangeInv
  BY InitRange, NextRange, TotalsHold, PTL DEF Spec
<1> QED BY <1>1, <1>2, PTL

=============================================================================
