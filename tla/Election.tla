------------------------------ MODULE Election ------------------------------
(***************************************************************************)
(* The votes of Election.sol.  An account's votes for a validator group    *)
(* are pending until the next epoch and can then be activated.  Active     *)
(* votes are units of the group's pool: epoch rewards enlarge the pool, so *)
(* a unit becomes worth more, and every conversion truncates.  The groups  *)
(* that may be voted for are a list sorted by their votes.                 *)
(*                                                                         *)
(* The contract's struct Votes is one record, v, and the functions that    *)
(* change it are operators on it; the actions, which also move gold in     *)
(* LockedGold, are in module LockedGold.  A function that sorts a group    *)
(* anew is an operator to the set of its outcomes, one for each place the  *)
(* caller's hints may lead to.  No subtraction is guarded here, although   *)
(* SafeMath reverts below zero: that the counters never get there is part  *)
(* of LockedGold's type invariant.                                         *)
(***************************************************************************)
EXTENDS SortedSeq, FiniteSets

CONSTANTS
    Accounts,                \* the accounts that lock gold and vote
    Groups,                  \* the validator groups
    UNIT_PRECISION_FACTOR,   \* units for the first vote of a pool
    maxNumGroupsVotedFor,    \* how many groups an account may vote for at once
    maxElectableValidators,  \* the number of validators to elect, at most
    NumRegisteredValidators, \* Validators: how many there are,
    GroupNumMembers          \*   and how many in each group

ASSUME ElectionAssumption ==
    /\ IsFiniteSet(Accounts) /\ IsFiniteSet(Groups)
    /\ UNIT_PRECISION_FACTOR \in Nat \ {0}
    /\ maxNumGroupsVotedFor \in Nat /\ maxElectableValidators \in Nat
    /\ NumRegisteredValidators \in Nat /\ GroupNumMembers \in [Groups -> Nat]

NoPendingVote == [value |-> 0, epoch |-> 0]

NoVotes ==
    [pending |-> [total |-> 0,
                  forGroup |-> [g \in Groups |->
                     [total |-> 0, byAccount |-> [a \in Accounts |-> NoPendingVote]]]],
     active  |-> [total |-> 0,
                  forGroup |-> [g \in Groups |->
                     [total |-> 0, totalUnits |-> 0, unitsByAccount |-> [a \in Accounts |-> 0]]]],
     eligible       |-> <<>>,
     groupsVotedFor |-> [a \in Accounts |-> <<>>]]

-----------------------------------------------------------------------------
(***************************************************************************)
(* Reading the votes                                                       *)
(***************************************************************************)
\* Mutant: the price of a unit never changes.
votesToUnitsAtFirstPrice(v, group, value) == value * UNIT_PRECISION_FACTOR

votesToUnits(v, group, value) ==
    LET pool == v.active.forGroup[group]
    IN  IF pool.totalUnits = 0 THEN value * UNIT_PRECISION_FACTOR
                               ELSE (value * pool.totalUnits) \div pool.total

unitsToVotes(v, group, value) ==
    LET pool == v.active.forGroup[group]
    IN  IF pool.totalUnits = 0 THEN 0 ELSE (value * pool.total) \div pool.totalUnits

getPendingVotesForGroupByAccount(v, group, account) ==
    v.pending.forGroup[group].byAccount[account].value

getActiveVotesForGroupByAccount(v, group, account) ==
    unitsToVotes(v, group, v.active.forGroup[group].unitsByAccount[account])

getTotalVotesForGroupByAccount(v, group, account) ==
    getPendingVotesForGroupByAccount(v, group, account)
    + getActiveVotesForGroupByAccount(v, group, account)

\* The groups an account votes for are a list without duplicates.
getTotalVotesByAccount(v, account) ==
    LET groups == v.groupsVotedFor[account]
    IN  SumFunction([i \in DOMAIN groups |-> getTotalVotesForGroupByAccount(v, groups[i], account)])

getTotalVotesForGroup(v, group) ==
    v.pending.forGroup[group].total + v.active.forGroup[group].total

getTotalVotes(v) == v.active.total + v.pending.total

isEligible(v, group) == group \in KeySet(v.eligible)

\* A group's share of the locked gold is capped by the number of its members.
canReceiveVotes(v, group, value, totalLockedGold) ==
    (getTotalVotesForGroup(v, group) + value)
        * Min({maxElectableValidators, NumRegisteredValidators})
    <= (GroupNumMembers[group] + 1) * totalLockedGold

-----------------------------------------------------------------------------
(***************************************************************************)
(* Changing the votes                                                      *)
(***************************************************************************)
incrementPendingVotes(v, group, account, value, epoch) ==
    [v EXCEPT !.pending.total = @ + value,
              !.pending.forGroup[group].total = @ + value,
              !.pending.forGroup[group].byAccount[account] =
                  [value |-> @.value + value, epoch |-> epoch]]

\* Mutant: the votes of the group are not lowered.
decrementPendingVotesOfAccount(v, group, account, value) ==
    [v EXCEPT !.pending.total = @ - value,
              !.pending.forGroup[group].byAccount[account] =
                  [value |-> @.value - value, epoch |-> IF @.value = value THEN 0 ELSE @.epoch]]

decrementPendingVotes(v, group, account, value) ==
    [v EXCEPT !.pending.total = @ - value,
              !.pending.forGroup[group].total = @ - value,
              !.pending.forGroup[group].byAccount[account] =
                  [value |-> @.value - value, epoch |-> IF @.value = value THEN 0 ELSE @.epoch]]

\* Mutant: units cost what they cost in a new pool.
incrementActiveVotesAtFirstPrice(v, group, account, value) ==
    LET units == value * UNIT_PRECISION_FACTOR
    IN  [v EXCEPT !.active.total = @ + value,
                  !.active.forGroup[group].total = @ + value,
                  !.active.forGroup[group].totalUnits = @ + units,
                  !.active.forGroup[group].unitsByAccount[account] = @ + units]

incrementActiveVotes(v, group, account, value) ==
    LET units == votesToUnits(v, group, value)
    IN  [v EXCEPT !.active.total = @ + value,
                  !.active.forGroup[group].total = @ + value,
                  !.active.forGroup[group].totalUnits = @ + units,
                  !.active.forGroup[group].unitsByAccount[account] = @ + units]

\* Whoever revokes the last of its votes gives up all of its units, whatever
\* rounding makes of them.
decrementActiveVotes(v, group, account, value) ==
    LET units == IF getActiveVotesForGroupByAccount(v, group, account) = value
                 THEN v.active.forGroup[group].unitsByAccount[account]
                 ELSE votesToUnits(v, group, value)
    IN  [v EXCEPT !.active.total = @ - value,
                  !.active.forGroup[group].total = @ - value,
                  !.active.forGroup[group].totalUnits = @ - units,
                  !.active.forGroup[group].unitsByAccount[account] = @ - units]

\* The list with the votes of an eligible group changed by difference.
resorted(v, group, difference) ==
    {[v EXCEPT !.eligible = q] :
        q \in Placements(Without(v.eligible, group), group,
                         getValue(v.eligible, group) + difference)}

incrementTotalVotes(v, group, value) == resorted(v, group, value)

decrementTotalVotes(v, group, value) ==
    IF isEligible(v, group) THEN resorted(v, group, -value) ELSE {v}

\* deleteElement moves the last group into the gap; with any index but the
\* group's the call reverts.
deleteGroupVotedFor(v, account, group) ==
    LET groups == v.groupsVotedFor[account]
        index  == CHOOSE i \in DOMAIN groups : groups[i] = group
    IN  [v EXCEPT !.groupsVotedFor[account] =
             SubSeq([groups EXCEPT ![index] = groups[Len(groups)]], 1, Len(groups) - 1)]

canDeleteGroup(v, account, group) ==
    \/ getTotalVotesForGroupByAccount(v, group, account) # 0
    \/ \E i \in DOMAIN v.groupsVotedFor[account] : v.groupsVotedFor[account][i] = group

\* Mutant: active votes are forgotten.
deleteIfNonePending(v, account, group) ==
    IF getPendingVotesForGroupByAccount(v, group, account) = 0
    THEN deleteGroupVotedFor(v, account, group) ELSE v

deleteIfNoVotes(v, account, group) ==
    IF getTotalVotesForGroupByAccount(v, group, account) = 0
    THEN deleteGroupVotedFor(v, account, group) ELSE v

\* What the rest of a revocation makes of the votes: the group is sorted anew, and
\* struck off the account's list when no votes are left.
afterRevocation(v, account, group, value) ==
    {deleteIfNoVotes(w, account, group) :
        w \in {x \in decrementTotalVotes(v, group, value) : canDeleteGroup(x, account, group)}}

\* Takes up to maxValue votes for group from the account, pending ones first.  The
\* outcomes are records of the votes and of the value that remains to be taken.
decrementVotes(v, account, group, maxValue) ==
    LET pendingValue == Min({maxValue, getPendingVotesForGroupByAccount(v, group, account)})
        w            == IF pendingValue > 0
                        THEN decrementPendingVotes(v, group, account, pendingValue) ELSE v
        activeValue  == Min({maxValue - pendingValue,
                             getActiveVotesForGroupByAccount(w, group, account)})
        x            == IF activeValue > 0
                        THEN decrementActiveVotes(w, group, account, activeValue) ELSE w
        decremented  == pendingValue + activeValue
    IN  {[votes |-> y, remaining |-> maxValue - decremented] :
            y \in IF decremented > 0 THEN afterRevocation(x, account, group, decremented) ELSE {v}}

\* Mutant: the loop stops before the account's first group.
groupsToDecrementButFirst(v, account) ==
    SubSeq(v.groupsVotedFor[account], 2, Len(v.groupsVotedFor[account]))

groupsToDecrement(v, account) == v.groupsVotedFor[account]

decrementFurther(account, group, o) ==
    IF o.remaining = 0 THEN {o} ELSE decrementVotes(o.votes, account, group, o.remaining)

\* Slashing goes through the account's groups from the last to the first; outcomes[n]
\* are those of the last n.  It fails when the groups do not have value votes between them.
forceDecrementVotes(v, account, value) ==
    LET groups == groupsToDecrement(v, account)
        outcomes[n \in 0..Len(groups)] ==
            IF n = 0 THEN {[votes |-> v, remaining |-> value]}
            ELSE UNION {decrementFurther(account, groups[Len(groups) - n + 1], o) :
                           o \in outcomes[n - 1]}
    IN  {o.votes : o \in {p \in outcomes[Len(groups)] : p.remaining = 0}}

=============================================================================
