------------------------------ MODULE ListHints ------------------------------
(***************************************************************************)
(* The clients of the sorted list.  A transaction that moves an element    *)
(* has to say between which neighbours it goes; ContractKit computes them  *)
(* from the list it reads just before: Election.ts and SortedOracles.ts    *)
(* scan it from the greatest value down, Governance.ts sorts the queue     *)
(* anew, from the least value up, and takes the neighbours in the array.   *)
(***************************************************************************)
EXTENDS SortedLinkedList, FiniteSetsExt

CONSTANT ShownUnit    \* rates are shown as multiples of this many of their units

ASSUME HintsAssumption == ShownUnit \in Nat \ {0}

neighbours(lesser, greater) == [lesser |-> lesser, greater |-> greater]

keyAt(s, i) == IF i \in DOMAIN s THEN s[i].key ELSE Zero

\* Mutant: the scan does not skip the element that moves.
scanToOverAll(k, stops) ==
    LET stop == Min(stops \cup {Len(getElements) + 1})
    IN  neighbours(keyAt(getElements, stop), keyAt(getElements, stop - 1))

\* The scan passes over k and ends at the first of stops.
scanTo(k, stops) ==
    LET others == {i \in DOMAIN getElements : getElements[i].key # k}
        stop   == Min((others \cap stops) \cup {Len(getElements) + 1})
        last   == Max({i \in others : i < stop} \cup {0})
    IN  neighbours(keyAt(getElements, stop), keyAt(getElements, last))

scan(k, v) == scanTo(k, {i \in DOMAIN getElements : getElements[i].value <= v})

findLesserAndGreaterAfterVote(votedGroup, voteWeight) ==
    LET votes == IF contains(list, votedGroup) THEN list.values[votedGroup] ELSE 0
    IN  scan(votedGroup, votes + voteWeight)

\* The two transactions of Election.revoke, whose hints are both computed before
\* the first one is sent.
revoke(group, pending, active) ==
    << findLesserAndGreaterAfterVote(group, -pending),
       findLesserAndGreaterAfterVote(group, -active) >>

\* A rate has 24 decimals, and its division by fixed1 leaves 20, rounded half up.
fromFixed(rate) == ((rate + ShownUnit \div 2) \div ShownUnit) * ShownUnit

\* The value that is reported is compared with the rates as they are shown.
findLesserAndGreaterKeys(oracle, value) ==
    scanTo(oracle, {i \in DOMAIN getElements : fromFixed(getElements[i].value) <= value})

\* Mutant: the neighbours are those in the array before it was sorted anew.
lesserAndGreaterUnsorted(p, upvotes) ==
    LET at == CHOOSE i \in DOMAIN getElements : getElements[i].key = p
    IN  neighbours(keyAt(getElements, at + 1), keyAt(getElements, at - 1))

\* The queue is sorted stably from the least upvotes up, once p has its new upvotes.
lesserAndGreater(p, upvotes) ==
    LET updated == [i \in DOMAIN getElements |->
                       IF getElements[i].key = p THEN [key |-> p, value |-> upvotes]
                                                 ELSE getElements[i]]
        before(i, j) == \/ updated[i].value < updated[j].value
                        \/ updated[i].value = updated[j].value /\ i < j
        at      == CHOOSE i \in DOMAIN updated : updated[i].key = p
        place(i) == Cardinality({j \in DOMAIN updated : before(j, i)})
        key(n)  == LET is == {i \in DOMAIN updated : place(i) = n}
                   IN  IF is = {} THEN Zero ELSE updated[CHOOSE i \in is : TRUE].key
    IN  neighbours(key(place(at) - 1), key(place(at) + 1))

-----------------------------------------------------------------------------

accepted(L, k, v, hints) ==
    IF contains(L, k) THEN canInsert(remove(L, k), k, v, hints.lesser, hints.greater)
                      ELSE canInsert(L, k, v, hints.lesser, hints.greater)

\* The rate of another oracle is on one side of v, and shown on the other.
roundedPast(oracle, v) ==
    \E l \in Keys \ {oracle} :
       LET rate == list.values[l]
       IN  /\ contains(list, l)
           /\ \/ rate < v /\ fromFixed(rate) > v
              \/ rate > v /\ fromFixed(rate) <= v

\* Upvoting and revoking an upvote go through but for one case: the array is
\* sorted upwards and stably, so proposals with equal upvotes stand in it in the
\* opposite order, and a proposal that comes between two groups of equal ones is
\* sent to the wrong end of both.  Exactly then the call reverts.
UpvoteRefusedBetweenTies ==
    \A p \in {k \in Keys : contains(list, k)}, v \in 0..MaxValue :
       LET others   == {k \in Keys \ {p} : contains(list, k)}
           behind   == {k \in others : list.values[k] < v}
           ahead    == {k \in others : list.values[k] > v}
           tied(S, least) == \E k, l \in S : /\ k # l /\ list.values[k] = list.values[l]
                                             /\ \A m \in S : IF least
                                                   THEN list.values[k] <= list.values[m]
                                                   ELSE list.values[k] >= list.values[m]
       IN  accepted(list, p, v, lesserAndGreater(p, v))
             <=> ~(/\ behind \cup ahead = others
                   /\ tied(behind, FALSE) /\ tied(ahead, TRUE))

\* A vote, a revocation or a group's first member goes through: the hints of the scan lead
\* to a place, whatever ties there are and wherever the element was.  When pending and
\* active votes are revoked in one go, the second transaction, whose hints do not know of
\* the first, goes through as well, unless some group's votes lie between what the hints
\* assume is left and what is left.
votesRefusedOnlyWhenOvertaken(k) ==
    LET votes == IF contains(list, k) THEN list.values[k] ELSE 0
    IN  /\ \A v \in 0..MaxValue :
              accepted(list, k, v, findLesserAndGreaterAfterVote(k, v - votes))
        /\ \A pending, active \in 1..MaxValue :
              contains(list, k) /\ pending + active <= votes =>
                 LET hints == revoke(k, pending, active)
                     after == votes - pending
                     rest  == insert(remove(list, k), k, after, hints[1].lesser, hints[1].greater)
                 IN  \/ accepted(rest, k, after - active, hints[2])
                     \/ \E l \in Keys \ {k} : /\ contains(list, l)
                                              /\ list.values[l] > after - active
                                              /\ list.values[l] <= votes - active

\* An oracle's report goes through but for one case, in which the scan leaves another oracle
\* on the wrong side: its rate is rounded past the value (SortedOracles.ts:256).
reportsRefusedWhenRoundedPast(k) ==
    \A v \in 0..MaxValue + ShownUnit :
       accepted(list, k, v, findLesserAndGreaterKeys(k, v)) <=> ~roundedPast(k, v)

\* As long as nothing else changes the list after ContractKit read it, the hints of a scan
\* are refused in these cases only (Election.ts:423, SortedOracles.ts:243).
HintsRefusedOnlyWhenOvertaken ==
    \A k \in Keys : votesRefusedOnlyWhenOvertaken(k) /\ reportsRefusedWhenRoundedPast(k)

=============================================================================
