----------------------------- MODULE LockedGold -----------------------------
(***************************************************************************)
(* Locked gold and the elections it votes in: LockedGold.sol composed with *)
(* Election.sol (module Election).  An account's locked gold is nonvoting, *)
(* kept by LockedGold, or voting for groups, kept by Election; the two     *)
(* contracts call each other when gold passes between them.  Unlocked gold *)
(* waits in a list of pending withdrawals.  LockedGold holds all of it,    *)
(* and the gold that the client mints as epoch rewards too.                *)
(*                                                                         *)
(* Validators is seen through the locked gold it requires of an account    *)
(* and the groups it marks eligible.  Governance.isVoting may refuse an    *)
(* unlock at any time, which is no step.  Every account is registered with *)
(* Accounts and votes with its own key.                                    *)
(***************************************************************************)
EXTENDS Election

CONSTANTS
    LockedGoldRequirement, \* Validators: the gold an account has to keep locked
    unlockingPeriod,       \* how long unlocked gold has to wait
    MaxGold,               \* bound on the gold LockedGold holds
    MaxWithdrawals,        \* bound on an account's pending withdrawals
    MaxPenalty,            \* bound on what a slash takes
    MaxReward,             \* bound on the reward of a group at once
    MaxEpoch,              \* bound on the epoch number
    MaxTime                \* bound on the clock

ASSUME LockedGoldAssumption ==
    /\ LockedGoldRequirement \in [Accounts -> Nat]
    /\ unlockingPeriod \in Nat /\ MaxGold \in Nat /\ MaxWithdrawals \in Nat
    /\ MaxPenalty \in Nat /\ MaxReward \in Nat /\ MaxEpoch \in Nat /\ MaxTime \in Nat

VARIABLES
    votes,              \* Election's struct Votes
    nonvoting,          \* the nonvoting gold of each account
    totalNonvoting,     \* the total LockedGold keeps of it
    pendingWithdrawals, \* the unlocked gold of each account
    balance,            \* the gold that LockedGold holds
    epoch,              \* the number of the current epoch
    rewarded,           \* the groups whose voters got their rewards in it
    now                 \* the timestamp of the current block

clocks   == <<epoch, rewarded, now>>
lockVars == <<nonvoting, totalNonvoting, pendingWithdrawals, balance>>

vars == <<votes, lockVars, clocks>>

getTotalLockedGold == totalNonvoting + getTotalVotes(votes)

getAccountTotalLockedGold(account) == nonvoting[account] + getTotalVotesByAccount(votes, account)

incrementNonvotingAccountBalance(account, value) ==
    /\ nonvoting' = [nonvoting EXCEPT ![account] = @ + value]
    /\ totalNonvoting' = totalNonvoting + value

decrementNonvotingAccountBalance(account, value) ==
    /\ value <= nonvoting[account] /\ value <= totalNonvoting
    /\ nonvoting' = [nonvoting EXCEPT ![account] = @ - value]
    /\ totalNonvoting' = totalNonvoting - value

\* Mutant: the list is shortened and the last withdrawal not moved.
deletePendingWithdrawalUnmoved(list, index) == SubSeq(list, 1, Len(list) - 1)

\* The last pending withdrawal takes the place of the deleted one.
deletePendingWithdrawal(list, index) ==
    SubSeq([list EXCEPT ![index] = list[Len(list)]], 1, Len(list) - 1)

-----------------------------------------------------------------------------
(***************************************************************************)
(* The actions of LockedGold                                               *)
(***************************************************************************)
Init ==
    /\ votes = NoVotes
    /\ nonvoting = [a \in Accounts |-> 0]
    /\ totalNonvoting = 0
    /\ pendingWithdrawals = [a \in Accounts |-> <<>>]
    /\ balance = 0
    /\ epoch = 1
    /\ rewarded = {}
    /\ now = 0

Lock(account, value) ==
    /\ value > 0
    /\ balance + value <= MaxGold
    /\ incrementNonvotingAccountBalance(account, value)
    /\ balance' = balance + value
    /\ UNCHANGED <<votes, pendingWithdrawals, clocks>>

Unlock(account, value) ==
    /\ Len(pendingWithdrawals[account]) < MaxWithdrawals
    /\ \/ LockedGoldRequirement[account] = 0
       \/ LockedGoldRequirement[account] + value <= getAccountTotalLockedGold(account)
    /\ decrementNonvotingAccountBalance(account, value)
    /\ pendingWithdrawals' =
          [pendingWithdrawals EXCEPT ![account] =
              Append(@, [value |-> value, timestamp |-> now + unlockingPeriod])]
    /\ UNCHANGED <<votes, balance, clocks>>

Relock(account, index, value) ==
    LET list == pendingWithdrawals[account]
    IN  /\ value <= list[index].value
        /\ pendingWithdrawals' =
              [pendingWithdrawals EXCEPT ![account] =
                  IF value = list[index].value THEN deletePendingWithdrawal(list, index)
                  ELSE [list EXCEPT ![index].value = list[index].value - value]]
        /\ incrementNonvotingAccountBalance(account, value)
        /\ UNCHANGED <<votes, balance, clocks>>

Withdraw(account, index) ==
    LET withdrawal == pendingWithdrawals[account][index]
    IN  /\ now >= withdrawal.timestamp
        /\ withdrawal.value <= balance
        /\ pendingWithdrawals' =
              [pendingWithdrawals EXCEPT ![account] = deletePendingWithdrawal(@, index)]
        /\ balance' = balance - withdrawal.value
        /\ UNCHANGED <<votes, nonvoting, totalNonvoting, clocks>>

\* Mutant: what Election revoked is taken from the nonvoting gold once more.
nonvotingShareDoubleCounted(maxSlash, difference) == maxSlash

\* forceDecrementVotes does not return the revoked votes as nonvoting gold.
nonvotingShare(maxSlash, difference) == maxSlash - difference

\* A slasher takes penalty from an account, nonvoting gold first, gives reward of it
\* to a reporter and sends the rest to the community fund.
Slash(account, penalty, reporter, reward) ==
    LET maxSlash   == Min({penalty, getAccountTotalLockedGold(account)})
        difference == IF nonvoting[account] < maxSlash THEN maxSlash - nonvoting[account] ELSE 0
        fromNonvoting == nonvotingShare(maxSlash, difference)
        decremented   == [nonvoting EXCEPT ![account] = @ - fromNonvoting]
    IN  /\ maxSlash >= reward
        /\ votes' \in IF difference > 0 THEN forceDecrementVotes(votes, account, difference)
                                        ELSE {votes}
        /\ nonvoting' = [decremented EXCEPT ![reporter] = @ + reward]
        /\ totalNonvoting' = totalNonvoting - fromNonvoting + reward
        /\ maxSlash - reward <= balance
        /\ balance' = balance - (maxSlash - reward)
        /\ UNCHANGED <<pendingWithdrawals, clocks>>

-----------------------------------------------------------------------------
(***************************************************************************)
(* The actions of Election                                                 *)
(***************************************************************************)
Vote(account, group, value) ==
    LET groups  == votes.groupsVotedFor[account]
        already == \E i \in DOMAIN groups : groups[i] = group
        listed  == IF already THEN votes
                   ELSE [votes EXCEPT !.groupsVotedFor[account] = Append(@, group)]
    IN  /\ isEligible(votes, group)
        /\ value > 0
        /\ canReceiveVotes(votes, group, value, getTotalLockedGold)
        /\ already \/ Len(groups) < maxNumGroupsVotedFor
        /\ votes' \in incrementTotalVotes(
                          incrementPendingVotes(listed, group, account, value, epoch), group, value)
        /\ decrementNonvotingAccountBalance(account, value)
        /\ UNCHANGED <<pendingWithdrawals, balance, clocks>>

Activate(account, group) ==
    LET pendingVote == votes.pending.forGroup[group].byAccount[account]
    IN  /\ pendingVote.epoch < epoch
        /\ pendingVote.value > 0
        /\ votes' = incrementActiveVotes(
                        decrementPendingVotes(votes, group, account, pendingVote.value),
                        group, account, pendingVote.value)
        /\ UNCHANGED <<lockVars, clocks>>

RevokePending(account, group, value) ==
    /\ value > 0
    /\ value <= getPendingVotesForGroupByAccount(votes, group, account)
    /\ votes' \in afterRevocation(decrementPendingVotes(votes, group, account, value),
                                  account, group, value)
    /\ incrementNonvotingAccountBalance(account, value)
    /\ UNCHANGED <<pendingWithdrawals, balance, clocks>>

RevokeActive(account, group, value) ==
    /\ value > 0
    /\ value <= getActiveVotesForGroupByAccount(votes, group, account)
    /\ votes' \in afterRevocation(decrementActiveVotes(votes, group, account, value),
                                  account, group, value)
    /\ incrementNonvotingAccountBalance(account, value)
    /\ UNCHANGED <<pendingWithdrawals, balance, clocks>>

\* Mutant: a group that comes back starts without votes.
MarkGroupEligibleAtZero(group) ==
    /\ ~isEligible(votes, group)
    /\ \E q \in Placements(votes.eligible, group, 0) : votes' = [votes EXCEPT !.eligible = q]
    /\ UNCHANGED <<lockVars, clocks>>

\* Validators marks a group when it gets its first member or loses its last.
MarkGroupEligible(group) ==
    /\ ~isEligible(votes, group)
    /\ \E q \in Placements(votes.eligible, group, getTotalVotesForGroup(votes, group)) :
          votes' = [votes EXCEPT !.eligible = q]
    /\ UNCHANGED <<lockVars, clocks>>

MarkGroupIneligible(group) ==
    /\ isEligible(votes, group)
    /\ votes' = [votes EXCEPT !.eligible = Without(@, group)]
    /\ UNCHANGED <<lockVars, clocks>>

\* Once in an epoch the client mints a reward for the voters of a group into
\* LockedGold.  getGroupEpochRewards gives nothing to a group without active votes.
DistributeEpochRewards(group, value) ==
    /\ group \notin rewarded
    /\ votes.active.forGroup[group].total > 0
    /\ balance + value <= MaxGold
    /\ \E w \in IF isEligible(votes, group) THEN resorted(votes, group, value) ELSE {votes} :
          votes' = [w EXCEPT !.active.total = @ + value,
                             !.active.forGroup[group].total = @ + value]
    /\ balance' = balance + value
    /\ rewarded' = rewarded \cup {group}
    /\ UNCHANGED <<nonvoting, totalNonvoting, pendingWithdrawals, epoch, now>>

NextEpoch ==
    /\ epoch < MaxEpoch
    /\ epoch' = epoch + 1
    /\ rewarded' = {}
    /\ UNCHANGED <<votes, lockVars, now>>

Tick ==
    /\ now < MaxTime
    /\ now' = now + 1
    /\ UNCHANGED <<votes, lockVars, epoch, rewarded>>

Next ==
    \/ Tick
    \/ NextEpoch
    \/ \E a \in Accounts, value \in 0..MaxGold : Lock(a, value) \/ Unlock(a, value)
    \/ \E a \in Accounts : \E index \in DOMAIN pendingWithdrawals[a] :
          \/ Withdraw(a, index)
          \/ \E value \in 0..MaxGold : Relock(a, index, value)
    \/ \E a, reporter \in Accounts, penalty \in 1..MaxPenalty, reward \in 0..MaxPenalty :
          Slash(a, penalty, reporter, reward)
    \/ \E a \in Accounts, g \in Groups :
          \/ Activate(a, g)
          \/ \E value \in 1..MaxGold : \/ Vote(a, g, value)
                                       \/ RevokePending(a, g, value)
                                       \/ RevokeActive(a, g, value)
    \/ \E g \in Groups :
          \/ MarkGroupEligible(g)
          \/ MarkGroupIneligible(g)
          \/ \E value \in 1..MaxReward : DistributeEpochRewards(g, value)

Spec == Init /\ [][Next]_vars

-----------------------------------------------------------------------------
(***************************************************************************)
(* Properties                                                              *)
(***************************************************************************)
\* The storage of LockedGold.sol and Election.sol is well typed; in particular no
\* subtraction has gone below zero, where SafeMath would have reverted.
TypeOK ==
    /\ votes.pending \in
          [total : Nat, forGroup : [Groups ->
              [total : Nat, byAccount : [Accounts -> [value : Nat, epoch : Nat]]]]]
    /\ votes.active \in
          [total : Nat, forGroup : [Groups ->
              [total : Nat, totalUnits : Nat, unitsByAccount : [Accounts -> Nat]]]]
    /\ votes.eligible \in Seq([key : Groups, value : Nat])
    /\ votes.groupsVotedFor \in [Accounts -> Seq(Groups)]
    /\ nonvoting \in [Accounts -> Nat] /\ totalNonvoting \in Nat
    /\ \A a \in Accounts : pendingWithdrawals[a] \in Seq([value : Nat, timestamp : Nat])
    /\ balance \in Nat /\ epoch \in Nat /\ rewarded \subseteq Groups /\ now \in Nat

\* The gold LockedGold.sol holds is exactly what is nonvoting, waits to be withdrawn,
\* or votes, as the two contracts count it: every withdrawal can be paid, and no gold
\* is lost between the contracts, whatever is voted, revoked, rewarded or slashed.
GoldAccountedFor ==
    LET waiting(list) == SumFunction([i \in DOMAIN list |-> list[i].value])
    IN  balance = totalNonvoting + getTotalVotes(votes)
                  + SumFunction([a \in Accounts |-> waiting(pendingWithdrawals[a])])

\* Each total of LockedGold.sol and Election.sol is the sum of its parts: nonvoting
\* gold, pending votes and units by account, and pending and active votes by group.
TotalsAreSums ==
    LET pending == votes.pending
        active  == votes.active
    IN  /\ totalNonvoting = SumFunction(nonvoting)
        /\ pending.total = SumFunction([g \in Groups |-> pending.forGroup[g].total])
        /\ active.total = SumFunction([g \in Groups |-> active.forGroup[g].total])
        /\ \A g \in Groups :
              /\ pending.forGroup[g].total =
                    SumFunction([a \in Accounts |-> pending.forGroup[g].byAccount[a].value])
              /\ active.forGroup[g].totalUnits =
                    SumFunction(active.forGroup[g].unitsByAccount)

\* The list by which validators are elected is sorted, and shows for every group in
\* it the votes it really has, also after it was marked ineligible and eligible again.
EligibleShowsVotes ==
    /\ Sorted(votes.eligible)
    /\ \A i \in DOMAIN votes.eligible :
          votes.eligible[i].value = getTotalVotesForGroup(votes, votes.eligible[i].key)

\* What the voters of a group can revoke never exceeds its pool, in spite of the
\* truncations of votesToUnits and unitsToVotes; and the pool is empty exactly when
\* there are no units, so that votesToUnits never divides by zero.
PoolCoversVoters ==
    \A g \in Groups :
        LET pool == votes.active.forGroup[g]
        IN  /\ SumFunction([a \in Accounts |-> getActiveVotesForGroupByAccount(votes, g, a)])
                  <= pool.total
            /\ pool.total = 0 <=> pool.totalUnits = 0

\* groupsVotedFor lists the groups an account votes for, each once: slashing and the
\* weight in governance go through it.  A group may be struck off while units are
\* left, when they round to no votes; those are less than the units of one vote in a
\* new pool, so rewards have to multiply the pool before they are worth a vote again.
VotesAreListed ==
    \A a \in Accounts :
        LET groups == votes.groupsVotedFor[a]
        IN  /\ \A i, j \in DOMAIN groups : groups[i] = groups[j] => i = j
            /\ \A g \in Groups :
                  (\A i \in DOMAIN groups : groups[i] # g)
                  => /\ getPendingVotesForGroupByAccount(votes, g, a) = 0
                     /\ votes.active.forGroup[g].unitsByAccount[a] < UNIT_PRECISION_FACTOR

\* Slashing cannot be blocked by how an account spread its votes: forceDecrementVotes
\* finds every value the account's votes amount to.
SlashFindsVotes ==
    \A a \in Accounts : \A value \in 1..getTotalVotesByAccount(votes, a) :
        forceDecrementVotes(votes, a, value) # {}

\* A step that leaves an account's own records alone, whoever takes it, costs the
\* account in each group at most one vote and what a unit is worth: that is all the
\* rounding of units in decrementActiveVotes may take from the others.
OthersTakeOnlyDust ==
    [][\A a \in Accounts, g \in Groups :
          votes'.active.forGroup[g].unitsByAccount[a] = votes.active.forGroup[g].unitsByAccount[a]
          => getActiveVotesForGroupByAccount(votes', g, a) + 1 + unitsToVotes(votes, g, 1)
                >= getActiveVotesForGroupByAccount(votes, g, a)]_vars

=============================================================================
