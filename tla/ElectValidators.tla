-------------------------- MODULE ElectValidators ---------------------------
(***************************************************************************)
(* Electing validators: electNValidatorSigners of Election.sol assigns     *)
(* seats to groups by the D'Hondt method, one seat in an iteration of its  *)
(* loop, with the heap of Heap.sol to find the group whose next member has *)
(* the most votes.  Arrays start at 1 here.                                *)
(*                                                                         *)
(* What the function reads is chosen at first: the votes of the eligible   *)
(* groups, which are a sorted list (module SortedList), and the members of *)
(* each, at least one, because Validators marks an empty group ineligible. *)
(* Groups are told apart by their place in the list.                       *)
(***************************************************************************)
EXTENDS FixidityLib, SequencesExt, FiniteSetsExt

CONSTANTS
    minElectableValidators,
    maxElectableValidators,
    electabilityThreshold,   \* a fraction of FixidityLib
    MaxGroups,               \* bound on the number of eligible groups
    MaxVotes,                \* bound on the votes of a group
    MaxMembers,              \* bound on the members of a group
    MaxOtherVotes            \* bound on the votes of groups that are not eligible

ASSUME ElectValidatorsAssumption ==
    /\ minElectableValidators \in Nat /\ maxElectableValidators \in Nat
    /\ electabilityThreshold \in 0..FIXED1
    /\ MaxGroups \in Nat /\ MaxVotes \in Nat /\ MaxMembers \in Nat /\ MaxOtherVotes \in Nat

VARIABLES
    eligible,           \* the votes of the eligible groups, from head to tail
    totalVotes,         \* getTotalVotes()
    numMembers,         \* the members of the groups
    keys,               \* the heap of the election groups
    votesForNextMember, \* the votes divided by the seats they have to share
    numMembersElected,  \* the seats of each election group
    result              \* "running", "elected", or "reverted"

inputs == <<eligible, totalVotes, numMembers>>

vars == <<inputs, keys, votesForNextMember, numMembersElected, result>>

-----------------------------------------------------------------------------
requiredVotes(total) == fromFixed(multiply(electabilityThreshold, newFixed(total)))

\* The walk from the head ends at the first value below the threshold, or at max.
numElementsGreaterThan(list, threshold, max) ==
    LET revisedMax == Min({max, Len(list)})
        below      == {i \in 1..revisedMax : list[i] < threshold}
    IN  IF below = {} THEN revisedMax ELSE Min(below) - 1

\* The place among i and its children in the heap whose value is greatest; of equal
\* ones the parent, then the left child.
maxIndex(ks, values, i) ==
    LET better(j, best) == IF j <= Len(ks) /\ values[ks[j]] > values[ks[best]] THEN j ELSE best
    IN  better(2 * i + 1, better(2 * i, i))

RECURSIVE siftDown(_, _, _)
siftDown(ks, values, i) ==
    LET j == maxIndex(ks, values, i)
    IN  IF j = i THEN ks
        ELSE siftDown([ks EXCEPT ![i] = ks[j], ![j] = ks[i]], values, j)

heapifyDown(ks, values) == siftDown(ks, values, 1)

-----------------------------------------------------------------------------
totalNumMembersElected == SumFunction(numMembersElected)

Init ==
    \E n \in 0..MaxGroups :
        /\ eligible \in {s \in [1..n -> 0..MaxVotes] : \A i \in 1..n - 1 : s[i] >= s[i + 1]}
        /\ numMembers \in [1..n -> 1..MaxMembers]
        /\ \E other \in 0..MaxOtherVotes : totalVotes = SumFunction(eligible) + other
        /\ LET groups == numElementsGreaterThan(eligible, requiredVotes(totalVotes),
                                                maxElectableValidators)
           IN  /\ keys = [i \in 1..groups |-> i]
               /\ votesForNextMember = [i \in 1..groups |-> newFixed(eligible[i])]
               /\ numMembersElected = [i \in 1..groups |-> 0]
        /\ result = "running"

\* The loop goes on while there are seats and a group with votes for another member.
goesOn ==
    /\ totalNumMembersElected < maxElectableValidators
    /\ keys # <<>>
    /\ votesForNextMember[keys[1]] # 0

\* Mutant: the votes for the next member are divided by the seats the group has.
votesShared(group, seats) == divide(newFixed(eligible[group]), newFixed(seats))

votesPerSeat(group, seats) == divide(newFixed(eligible[group]), newFixed(seats + 1))

ElectMember ==
    LET group == keys[1]
        seats == numMembersElected[group] + 1
        after == [votesForNextMember EXCEPT ![group] = votesPerSeat(group, seats)]
    IN  /\ result = "running"
        /\ goesOn
        /\ numMembersElected[group] < numMembers[group]
        /\ numMembersElected' = [numMembersElected EXCEPT ![group] = seats]
        /\ votesForNextMember' = after
        /\ keys' = heapifyDown(keys, after)
        /\ UNCHANGED <<inputs, result>>

\* Mutant: a group without members left stays where it is.
AllMembersElectedKeptOnTop ==
    /\ result = "running"
    /\ goesOn
    /\ numMembers[keys[1]] <= numMembersElected[keys[1]]
    /\ UNCHANGED vars

AllMembersElected ==
    LET group == keys[1]
        after == [votesForNextMember EXCEPT ![group] = 0]
    IN  /\ result = "running"
        /\ goesOn
        /\ numMembers[group] <= numMembersElected[group]
        /\ votesForNextMember' = after
        /\ keys' = heapifyDown(keys, after)
        /\ UNCHANGED <<inputs, numMembersElected, result>>

Finish ==
    /\ result = "running"
    /\ ~goesOn
    /\ result' = IF totalNumMembersElected >= minElectableValidators THEN "elected" ELSE "reverted"
    /\ UNCHANGED <<inputs, keys, votesForNextMember, numMembersElected>>

Next == ElectMember \/ AllMembersElected \/ Finish

Spec == Init /\ [][Next]_vars /\ WF_vars(Next)

-----------------------------------------------------------------------------
(***************************************************************************)
(* Properties                                                              *)
(***************************************************************************)
\* The groups electNValidatorSigners should choose from, without its limit to as many
\* groups as there are seats, and the seats a group has won.
Candidates == {i \in DOMAIN eligible : eligible[i] >= requiredVotes(totalVotes)}

seatsOf(i) == IF i \in DOMAIN numMembersElected THEN numMembersElected[i] ELSE 0

\* The seats are allocated by the D'Hondt method to all groups with enough votes, also
\* those that were cut off by the limit on election groups: no seat was won with fewer
\* votes per seat than a group with a member left would have had for one more.  A seat
\* stays empty, or the election fails for want of validators, only when every member of
\* every group with votes is elected.
SeatsByDHondt ==
    /\ result = "elected" =>
          \A i, j \in Candidates :
              seatsOf(i) > 0 /\ seatsOf(j) < numMembers[j]
              => eligible[i] * (seatsOf(j) + 1) >= eligible[j] * seatsOf(i)
    /\ result # "running" =>
          \/ totalNumMembersElected = maxElectableValidators
          \/ \A i \in Candidates : eligible[i] > 0 => seatsOf(i) = numMembers[i]

\* The loop of electNValidatorSigners ends.
Terminates == <>(result # "running")

=============================================================================
