-------------------------- MODULE LockedGoldProofs --------------------------
(***************************************************************************)
(* Proofs that LockedGold.sol and Election.sol account for every vote and  *)
(* all the gold, for any accounts, groups, rewards and slashes: the totals *)
(* are the sums of their parts, no subtraction goes below zero, the pools  *)
(* cover their voters whatever is truncated, the sorted list shows the     *)
(* votes of the groups, and a slash always finds what it has to revoke.    *)
(***************************************************************************)
EXTENDS LockedGold, DataTheorems

Record == [value : Nat, epoch : Nat]

PendingPool == [total : Nat, byAccount : [Accounts -> Record]]

ActivePool == [total : Nat, totalUnits : Nat, unitsByAccount : [Accounts -> Nat]]

Shown == [key : Groups, value : Nat]

Votes == [pending        : [total : Nat, forGroup : [Groups -> PendingPool]],
          active         : [total : Nat, forGroup : [Groups -> ActivePool]],
          eligible       : Seq(Shown),
          groupsVotedFor : [Accounts -> Seq(Groups)]]

-----------------------------------------------------------------------------
(***************************************************************************)
(* The inductive invariant                                                 *)
(***************************************************************************)

pendingOf(v, g) == [a \in Accounts |-> v.pending.forGroup[g].byAccount[a].value]
pendingTotals(v) == [g \in Groups |-> v.pending.forGroup[g].total]
activeTotals(v) == [g \in Groups |-> v.active.forGroup[g].total]

Summed(v) ==
    /\ v.pending.total = SumFunction(pendingTotals(v))
    /\ v.active.total = SumFunction(activeTotals(v))
    /\ \A g \in Groups :
          /\ v.pending.forGroup[g].total = SumFunction(pendingOf(v, g))
          /\ v.active.forGroup[g].totalUnits = SumFunction(v.active.forGroup[g].unitsByAccount)

\* A pool has units exactly when it has votes, and no more of them for a vote than a
\* new pool: a revocation rounds the units it takes down, but not below that price.
Priced(pool) ==
    /\ pool.total = 0 <=> pool.totalUnits = 0
    /\ pool.totalUnits <= pool.total * UNIT_PRECISION_FACTOR

\* The list shows the votes of the groups, but for difference more of one group.
ShowsVotes(v, group, difference) ==
    /\ Sorted(v.eligible) /\ DistinctKeys(v.eligible)
    /\ \A i \in DOMAIN v.eligible :
          v.eligible[i].value = getTotalVotesForGroup(v, v.eligible[i].key)
                                + IF v.eligible[i].key = group THEN difference ELSE 0

ShowsAllVotes(v) ==
    /\ Sorted(v.eligible) /\ DistinctKeys(v.eligible)
    /\ \A i \in DOMAIN v.eligible :
          v.eligible[i].value = getTotalVotesForGroup(v, v.eligible[i].key)

Lists(v, a, g) == \E i \in DOMAIN v.groupsVotedFor[a] : v.groupsVotedFor[a][i] = g

\* A group that an account does not list has none of its pending votes, and less than
\* the units of one vote in a new pool.
ListsVotes(v) ==
    \A a \in Accounts :
        /\ \A i, j \in DOMAIN v.groupsVotedFor[a] :
              v.groupsVotedFor[a][i] = v.groupsVotedFor[a][j] => i = j
        /\ \A g \in Groups :
              ~Lists(v, a, g) =>
                  /\ v.pending.forGroup[g].byAccount[a].value = 0
                  /\ v.active.forGroup[g].unitsByAccount[a] < UNIT_PRECISION_FACTOR

Counted(v) ==
    /\ v \in Votes
    /\ Summed(v)
    /\ \A g \in Groups : Priced(v.active.forGroup[g])
    /\ ListsVotes(v)

\* What holds of the votes between the steps of a function of Election.sol, when the
\* list has still to be changed by difference for a group, and when it is done.
HalfChanged(v, group, difference) == Counted(v) /\ ShowsVotes(v, group, difference)

VotesSound(v) == Counted(v) /\ ShowsAllVotes(v)

waiting(list) == SumFunction([i \in DOMAIN list |-> list[i].value])

allWaiting(withdrawals) == SumFunction([a \in Accounts |-> waiting(withdrawals[a])])

Withdrawal == [value : Nat, timestamp : Nat]

NonvotingSound ==
    /\ nonvoting \in [Accounts -> Nat]
    /\ totalNonvoting = SumFunction(nonvoting)

WithdrawalsTyped == pendingWithdrawals \in [Accounts -> Seq(Withdrawal)]

ClocksTyped == epoch \in Nat /\ rewarded \subseteq Groups /\ now \in Nat

GoldHeld == balance = totalNonvoting + getTotalVotes(votes) + allWaiting(pendingWithdrawals)

IInv ==
    /\ VotesSound(votes)
    /\ NonvotingSound
    /\ WithdrawalsTyped
    /\ ClocksTyped
    /\ GoldHeld

-----------------------------------------------------------------------------
(***************************************************************************)
(* Changing the pending votes and the active votes                         *)
(***************************************************************************)

\* The pending votes of an account for a group change by d, and nothing else.
ChangesPending(v, w, group, account, d) ==
    LET old == v.pending.forGroup
        new == w.pending.forGroup
    IN  /\ w \in Votes
        /\ w.pending.total = v.pending.total + d
        /\ new[group].total = old[group].total + d
        /\ new[group].byAccount[account].value = old[group].byAccount[account].value + d
        /\ \A g \in Groups \ {group} : new[g] = old[g]
        /\ \A a \in Accounts \ {account} : new[group].byAccount[a] = old[group].byAccount[a]
        /\ w.active = v.active /\ w.eligible = v.eligible /\ w.groupsVotedFor = v.groupsVotedFor

\* The active votes of a group change by d, and the units an account has of them by n.
ChangesActive(v, w, group, account, d, n) ==
    LET old == v.active.forGroup
        new == w.active.forGroup
    IN  /\ w \in Votes
        /\ w.active.total = v.active.total + d
        /\ new[group].total = old[group].total + d
        /\ new[group].totalUnits = old[group].totalUnits + n
        /\ new[group].unitsByAccount[account] = old[group].unitsByAccount[account] + n
        /\ \A g \in Groups \ {group} : new[g] = old[g]
        /\ \A a \in Accounts \ {account} :
              new[group].unitsByAccount[a] = old[group].unitsByAccount[a]
        /\ w.pending = v.pending /\ w.eligible = v.eligible /\ w.groupsVotedFor = v.groupsVotedFor

\* The fields of Votes, read one by one, are naturals.
LEMMA PendingFields ==
    ASSUME NEW v \in Votes, NEW group \in Groups, NEW account \in Accounts
    PROVE  /\ v.pending.total \in Nat /\ v.pending.forGroup[group].total \in Nat
           /\ v.pending.forGroup[group].byAccount[account].value \in Nat
           /\ v.active.total \in Nat /\ v.active.forGroup[group].total \in Nat
           /\ v.active.forGroup[group].totalUnits \in Nat
           /\ v.active.forGroup[group].unitsByAccount[account] \in Nat
<1> QED BY DEF Votes, PendingPool, ActivePool, Record

\* The votes of a group are naturals.
LEMMA GroupFields ==
    ASSUME NEW v \in Votes, NEW group \in Groups
    PROVE  /\ v.pending.forGroup[group].total \in Nat
           /\ v.active.forGroup[group].total \in Nat
           /\ v.active.forGroup[group].totalUnits \in Nat
           /\ getTotalVotesForGroup(v, group) \in Nat
<1>1. /\ v.pending.forGroup[group].total \in Nat
      /\ v.active.forGroup[group].total \in Nat
      /\ v.active.forGroup[group].totalUnits \in Nat
  BY DEF Votes, PendingPool, ActivePool
<1> QED BY <1>1 DEF getTotalVotesForGroup

\* The totals are naturals.
LEMMA TotalFields ==
    ASSUME NEW v \in Votes
    PROVE  v.pending.total \in Nat /\ v.active.total \in Nat /\ getTotalVotes(v) \in Nat
<1>1. v.pending.total \in Nat /\ v.active.total \in Nat
  BY DEF Votes
<1> QED BY <1>1 DEF getTotalVotes

\* The elements of the sorted list are groups with natural votes.
LEMMA ShownFields ==
    ASSUME NEW v \in Votes
    PROVE  /\ v.eligible \in Seq(Shown)
           /\ \A i \in DOMAIN v.eligible : v.eligible[i].key \in Groups /\ v.eligible[i].value \in Nat
<1> DEFINE s == v.eligible
<1>1. s \in Seq(Shown)
  BY DEF Votes
<1>2. DOMAIN s = 1..Len(s) /\ \A i \in 1..Len(s) : s[i] \in Shown
  <2> HIDE DEF s
  <2> QED BY <1>1
<1> QED BY <1>1, <1>2 DEF Shown

\* The assignments to the components of the votes, and what each does.
SetPendingTotal(v, x) == [v EXCEPT !.pending.total = x]
SetPendingPool(v, group, pool) == [v EXCEPT !.pending.forGroup[group] = pool]
SetActiveTotal(v, x) == [v EXCEPT !.active.total = x]
SetActivePool(v, group, pool) == [v EXCEPT !.active.forGroup[group] = pool]

SetPending(v, group, account, x, y, r) ==
    [v EXCEPT !.pending.total = x, !.pending.forGroup[group].total = y,
              !.pending.forGroup[group].byAccount[account] = r]

SetActive(v, group, account, x, y, z, u) ==
    [v EXCEPT !.active.total = x, !.active.forGroup[group].total = y,
              !.active.forGroup[group].totalUnits = z,
              !.active.forGroup[group].unitsByAccount[account] = u]

\* Assigning pending.total changes nothing else.
LEMMA PendingTotalSet ==
    ASSUME NEW v \in Votes, NEW x \in Nat, NEW w, w = SetPendingTotal(v, x)
    PROVE  /\ w \in Votes
           /\ w.pending.total = x /\ w.pending.forGroup = v.pending.forGroup
           /\ w.active = v.active /\ w.eligible = v.eligible /\ w.groupsVotedFor = v.groupsVotedFor
<1> DEFINE p == [v.pending EXCEPT !.total = x]
<1>1. p \in [total : Nat, forGroup : [Groups -> PendingPool]] /\ p.total = x /\ p.forGroup = v.pending.forGroup
  BY DEF Votes
<1>2. w = [v EXCEPT !.pending = p]
  BY DEF SetPendingTotal
<1> HIDE DEF p
<1> QED BY <1>1, <1>2 DEF Votes

\* Assigning a group's pending votes changes nothing else.
LEMMA PendingPoolSet ==
    ASSUME NEW v \in Votes, NEW group \in Groups, NEW pool \in PendingPool,
           NEW w, w = SetPendingPool(v, group, pool)
    PROVE  /\ w \in Votes
           /\ w.pending.forGroup[group] = pool
           /\ \A g \in Groups \ {group} : w.pending.forGroup[g] = v.pending.forGroup[g]
           /\ w.pending.total = v.pending.total
           /\ w.active = v.active /\ w.eligible = v.eligible /\ w.groupsVotedFor = v.groupsVotedFor
<1> DEFINE f == [v.pending.forGroup EXCEPT ![group] = pool]
           p == [v.pending EXCEPT !.forGroup = f]
<1>1. w = [v EXCEPT !.pending = p]
  BY DEF SetPendingPool
<1>2. /\ f \in [Groups -> PendingPool] /\ f[group] = pool
      /\ \A g \in Groups \ {group} : f[g] = v.pending.forGroup[g]
  BY DEF Votes
<1> HIDE DEF f
<1>3. p \in [total : Nat, forGroup : [Groups -> PendingPool]] /\ p.total = v.pending.total /\ p.forGroup = f
  BY <1>2 DEF Votes
<1> HIDE DEF p
<1> QED BY <1>1, <1>2, <1>3 DEF Votes

\* Assigning active.total changes nothing else.
LEMMA ActiveTotalSet ==
    ASSUME NEW v \in Votes, NEW x \in Nat, NEW w, w = SetActiveTotal(v, x)
    PROVE  /\ w \in Votes
           /\ w.active.total = x /\ w.active.forGroup = v.active.forGroup
           /\ w.pending = v.pending /\ w.eligible = v.eligible /\ w.groupsVotedFor = v.groupsVotedFor
<1> DEFINE p == [v.active EXCEPT !.total = x]
<1>1. p \in [total : Nat, forGroup : [Groups -> ActivePool]] /\ p.total = x /\ p.forGroup = v.active.forGroup
  BY DEF Votes
<1>2. w = [v EXCEPT !.active = p]
  BY DEF SetActiveTotal
<1> HIDE DEF p
<1> QED BY <1>1, <1>2 DEF Votes

\* Assigning a group's pool changes nothing else.
LEMMA ActivePoolSet ==
    ASSUME NEW v \in Votes, NEW group \in Groups, NEW pool \in ActivePool,
           NEW w, w = SetActivePool(v, group, pool)
    PROVE  /\ w \in Votes
           /\ w.active.forGroup[group] = pool
           /\ \A g \in Groups \ {group} : w.active.forGroup[g] = v.active.forGroup[g]
           /\ w.active.total = v.active.total
           /\ w.pending = v.pending /\ w.eligible = v.eligible /\ w.groupsVotedFor = v.groupsVotedFor
<1> DEFINE f == [v.active.forGroup EXCEPT ![group] = pool]
           p == [v.active EXCEPT !.forGroup = f]
<1>1. w = [v EXCEPT !.active = p]
  BY DEF SetActivePool
<1>2. /\ f \in [Groups -> ActivePool] /\ f[group] = pool
      /\ \A g \in Groups \ {group} : f[g] = v.active.forGroup[g]
  BY DEF Votes
<1> HIDE DEF f
<1>3. p \in [total : Nat, forGroup : [Groups -> ActivePool]] /\ p.total = v.active.total /\ p.forGroup = f
  BY <1>2 DEF Votes
<1> HIDE DEF p
<1> QED BY <1>1, <1>2, <1>3 DEF Votes

\* Three assignments change the pending votes.
LEMMA PendingChange ==
    ASSUME NEW v \in Votes, NEW group \in Groups, NEW account \in Accounts, NEW d \in Int,
           NEW x \in Nat, x = v.pending.total + d,
           NEW y \in Nat, y = v.pending.forGroup[group].total + d,
           NEW r \in Record, r.value = v.pending.forGroup[group].byAccount[account].value + d,
           NEW w, w = SetPending(v, group, account, x, y, r)
    PROVE  ChangesPending(v, w, group, account, d)
<1> DEFINE q0 == v.pending.forGroup[group]
           v1 == SetPendingTotal(v, x)
           q1 == [v1.pending.forGroup[group] EXCEPT !.total = y]
           v2 == SetPendingPool(v1, group, q1)
           q2 == [v2.pending.forGroup[group] EXCEPT !.byAccount[account] = r]
           v3 == SetPendingPool(v2, group, q2)
<1>1. w = v3
  BY DEF SetPending, SetPendingTotal, SetPendingPool
<1>2. /\ v1 \in Votes /\ v1.pending.total = x /\ v1.pending.forGroup = v.pending.forGroup
      /\ v1.active = v.active /\ v1.eligible = v.eligible /\ v1.groupsVotedFor = v.groupsVotedFor
  BY PendingTotalSet
<1>3. v2 = SetPendingPool(v1, group, q1)
  OBVIOUS
<1>4. v3 = SetPendingPool(v2, group, q2)
  OBVIOUS
<1> HIDE DEF v1, v2, v3
<1>5. q0 \in PendingPool
  BY DEF Votes
<1>6. q1 \in PendingPool /\ q1.total = y /\ q1.byAccount = q0.byAccount
  <2>1. q1 = [q0 EXCEPT !.total = y]
    BY <1>2
  <2> HIDE DEF q1, q0
  <2> QED BY <1>5, <2>1 DEF PendingPool
<1> HIDE DEF q1
<1>7. /\ v2 \in Votes /\ v2.pending.forGroup[group] = q1 /\ v2.pending.total = x
      /\ \A g \in Groups \ {group} : v2.pending.forGroup[g] = v.pending.forGroup[g]
      /\ v2.active = v.active /\ v2.eligible = v.eligible /\ v2.groupsVotedFor = v.groupsVotedFor
  BY <1>2, <1>3, <1>6, PendingPoolSet
<1>8. /\ q2 \in PendingPool /\ q2.total = y /\ q2.byAccount[account] = r
      /\ \A a \in Accounts \ {account} : q2.byAccount[a] = q0.byAccount[a]
  <2>1. q2 = [q1 EXCEPT !.byAccount[account] = r]
    BY <1>7
  <2> HIDE DEF q2, q0
  <2> QED BY <1>5, <1>6, <2>1 DEF PendingPool
<1> HIDE DEF q2
<1>9. /\ v3 \in Votes /\ v3.pending.forGroup[group] = q2 /\ v3.pending.total = x
      /\ \A g \in Groups \ {group} : v3.pending.forGroup[g] = v.pending.forGroup[g]
      /\ v3.active = v.active /\ v3.eligible = v.eligible /\ v3.groupsVotedFor = v.groupsVotedFor
  <2>1. /\ v3 \in Votes /\ v3.pending.forGroup[group] = q2 /\ v3.pending.total = v2.pending.total
        /\ \A g \in Groups \ {group} : v3.pending.forGroup[g] = v2.pending.forGroup[g]
        /\ v3.active = v2.active /\ v3.eligible = v2.eligible /\ v3.groupsVotedFor = v2.groupsVotedFor
    BY <1>4, <1>7, <1>8, PendingPoolSet
  <2> QED BY <1>7, <2>1
<1> QED BY <1>1, <1>8, <1>9 DEF ChangesPending

\* And four the active ones.
SetsActive(v, w, group, account, x, y, z, u) ==
    LET old == v.active.forGroup
        new == w.active.forGroup
    IN  /\ w \in Votes /\ w.active.total = x
        /\ new[group].total = y /\ new[group].totalUnits = z
        /\ new[group].unitsByAccount[account] = u
        /\ \A g \in Groups \ {group} : new[g] = old[g]
        /\ \A a \in Accounts \ {account} :
              new[group].unitsByAccount[a] = old[group].unitsByAccount[a]
        /\ w.pending = v.pending /\ w.eligible = v.eligible
        /\ w.groupsVotedFor = v.groupsVotedFor

\* The four assignments together.
LEMMA ActiveSet ==
    ASSUME NEW v \in Votes, NEW group \in Groups, NEW account \in Accounts,
           NEW x \in Nat, NEW y \in Nat, NEW z \in Nat, NEW u \in Nat,
           NEW w, w = SetActive(v, group, account, x, y, z, u)
    PROVE  SetsActive(v, w, group, account, x, y, z, u)
<1> DEFINE q0 == v.active.forGroup[group]
           v1 == SetActiveTotal(v, x)
           q1 == [v1.active.forGroup[group] EXCEPT !.total = y]
           v2 == SetActivePool(v1, group, q1)
           q2 == [v2.active.forGroup[group] EXCEPT !.totalUnits = z]
           v3 == SetActivePool(v2, group, q2)
           q3 == [v3.active.forGroup[group] EXCEPT !.unitsByAccount[account] = u]
           v4 == SetActivePool(v3, group, q3)
<1>1. w = v4
  BY DEF SetActive, SetActiveTotal, SetActivePool
<1>2. v1 = SetActiveTotal(v, x)
  OBVIOUS
<1>3. v2 = SetActivePool(v1, group, q1)
  OBVIOUS
<1>4. v3 = SetActivePool(v2, group, q2)
  OBVIOUS
<1>5. v4 = SetActivePool(v3, group, q3)
  OBVIOUS
<1> HIDE DEF v1, v2, v3, v4
<1>0. /\ v1 \in Votes /\ v1.active.total = x /\ v1.active.forGroup = v.active.forGroup
      /\ v1.pending = v.pending /\ v1.eligible = v.eligible /\ v1.groupsVotedFor = v.groupsVotedFor
  <2> HIDE DEF q0, q1, q2, q3
  <2> QED BY <1>2, ActiveTotalSet, Z3
<1>6. q0 \in ActivePool
  BY DEF Votes
<1>7. q1 \in ActivePool /\ q1.total = y /\ q1.totalUnits = q0.totalUnits /\ q1.unitsByAccount = q0.unitsByAccount
  <2>1. q1 = [q0 EXCEPT !.total = y]
    BY <1>0
  <2> HIDE DEF q1, q0
  <2> QED BY <1>6, <2>1 DEF ActivePool
<1> HIDE DEF q1
<1>8. /\ v2 \in Votes /\ v2.active.forGroup[group] = q1 /\ v2.active.total = x
      /\ \A g \in Groups \ {group} : v2.active.forGroup[g] = v.active.forGroup[g]
      /\ v2.pending = v.pending /\ v2.eligible = v.eligible /\ v2.groupsVotedFor = v.groupsVotedFor
  BY <1>0, <1>3, <1>7, ActivePoolSet
<1>9. q2 \in ActivePool /\ q2.total = y /\ q2.totalUnits = z /\ q2.unitsByAccount = q0.unitsByAccount
  <2>1. q2 = [q1 EXCEPT !.totalUnits = z]
    BY <1>8
  <2> HIDE DEF q2, q0
  <2> QED BY <1>6, <1>7, <2>1 DEF ActivePool
<1> HIDE DEF q2
<1>10. /\ v3 \in Votes /\ v3.active.forGroup[group] = q2 /\ v3.active.total = x
       /\ \A g \in Groups \ {group} : v3.active.forGroup[g] = v.active.forGroup[g]
       /\ v3.pending = v.pending /\ v3.eligible = v.eligible /\ v3.groupsVotedFor = v.groupsVotedFor
  <2>1. /\ v3 \in Votes /\ v3.active.forGroup[group] = q2 /\ v3.active.total = v2.active.total
        /\ \A g \in Groups \ {group} : v3.active.forGroup[g] = v2.active.forGroup[g]
        /\ v3.pending = v2.pending /\ v3.eligible = v2.eligible /\ v3.groupsVotedFor = v2.groupsVotedFor
    BY <1>4, <1>8, <1>9, ActivePoolSet
  <2> QED BY <1>8, <2>1
<1>11. /\ q3 \in ActivePool /\ q3.total = y /\ q3.totalUnits = z /\ q3.unitsByAccount[account] = u
       /\ \A a \in Accounts \ {account} : q3.unitsByAccount[a] = q0.unitsByAccount[a]
  <2>1. q3 = [q2 EXCEPT !.unitsByAccount[account] = u]
    BY <1>10
  <2> HIDE DEF q3, q0
  <2> QED BY <1>6, <1>9, <2>1 DEF ActivePool
<1> HIDE DEF q3
<1>12. /\ v4 \in Votes /\ v4.active.forGroup[group] = q3 /\ v4.active.total = x
       /\ \A g \in Groups \ {group} : v4.active.forGroup[g] = v.active.forGroup[g]
       /\ v4.pending = v.pending /\ v4.eligible = v.eligible /\ v4.groupsVotedFor = v.groupsVotedFor
  <2>1. /\ v4 \in Votes /\ v4.active.forGroup[group] = q3 /\ v4.active.total = v3.active.total
        /\ \A g \in Groups \ {group} : v4.active.forGroup[g] = v3.active.forGroup[g]
        /\ v4.pending = v3.pending /\ v4.eligible = v3.eligible /\ v4.groupsVotedFor = v3.groupsVotedFor
    BY <1>5, <1>10, <1>11, ActivePoolSet
  <2> QED BY <1>10, <2>1
<1> QED BY <1>1, <1>11, <1>12 DEF SetsActive

\* Four assignments that add the same votes and the same units change the active votes
\* by them.
LEMMA ActiveChange ==
    ASSUME NEW v \in Votes, NEW group \in Groups, NEW account \in Accounts, NEW d, NEW n,
           NEW x \in Nat, x = v.active.total + d,
           NEW y \in Nat, y = v.active.forGroup[group].total + d,
           NEW z \in Nat, z = v.active.forGroup[group].totalUnits + n,
           NEW u \in Nat, u = v.active.forGroup[group].unitsByAccount[account] + n,
           NEW w, w = SetActive(v, group, account, x, y, z, u)
    PROVE  ChangesActive(v, w, group, account, d, n)
<1>1. SetsActive(v, w, group, account, x, y, z, u)
  BY ActiveSet
<1> QED BY <1>1 DEF SetsActive, ChangesActive

-----------------------------------------------------------------------------
(***************************************************************************)
(* Votes and units: whatever is truncated, a pool keeps to its price       *)
(***************************************************************************)

\* A positive factor can be cancelled.
LEMMA ProductCancels ==
    ASSUME NEW x \in Int, NEW y \in Int, NEW z \in Nat \ {0}
    PROVE  /\ x * z <= y * z => x <= y
           /\ x * z < y * z => x < y
OBVIOUS

\* The units for value more votes in a pool of T votes and U units, for which a new
\* pool would have had F units each.
LEMMA UnitsBought ==
    ASSUME NEW T \in Nat, NEW U \in Nat, NEW F \in Nat \ {0}, NEW value \in Nat \ {0},
           T = 0 <=> U = 0, U <= T * F,
           NEW n, n = IF U = 0 THEN value * F ELSE (value * U) \div T
    PROVE  /\ n \in Nat /\ U + n # 0
           /\ U + n <= (T + value) * F
<1>1. value * F \in Nat /\ value * F # 0 /\ (T + value) * F = T * F + value * F
  OBVIOUS
<1>2. CASE U = 0
  BY <1>1, <1>2
<1>3. CASE U # 0
  <2>1. T \in Nat \ {0} /\ value * U \in Nat
    BY <1>3
  <2>2. n \in Nat /\ n * T <= value * U
    BY <1>3, <2>1, QuotientBounds
  <2>3. value * U <= value * (T * F) /\ value * (T * F) = (value * F) * T
    BY ProductOrder
  <2>4. n * T <= (value * F) * T
    <3>1. n * T \in Int /\ (value * F) * T \in Int
      BY <2>2
    <3> QED BY <2>1, <2>2, <2>3, <3>1
  <2>5. n <= value * F
    BY <1>1, <2>1, <2>2, <2>4, ProductCancels
  <2> QED BY <1>1, <1>3, <2>2, <2>5
<1> QED BY <1>2, <1>3

\* What an account with u of U units can take is covered by the T votes of the pool;
\* and the units taken leave the pool with votes exactly when they leave it with units.
LEMMA WorthOfUnits ==
    ASSUME NEW T \in Nat, NEW U \in Nat \ {0}, NEW u \in Nat, u <= U,
           NEW a, a = (u * T) \div U
    PROVE  /\ a \in Nat /\ a <= T /\ a * U <= u * T /\ u * T < a * U + U
<1>1. u * T \in Nat
  OBVIOUS
<1>2. a \in Nat /\ a * U <= u * T /\ u * T < a * U + U
  BY <1>1, QuotientBounds
<1>3. u * T <= T * U
  BY ProductOrder
<1>4. a * U <= T * U
  <2>1. a * U \in Int /\ T * U \in Int
    BY <1>2
  <2> QED BY <1>1, <1>2, <1>3, <2>1
<1> QED BY <1>2, <1>4, ProductCancels

Worth(u, T, U) == (u * T) \div U
UnitsFor(value, u, T, U) == IF Worth(u, T, U) = value THEN u ELSE (value * U) \div T

\* The units sold for value votes are the account's, and leave units in the pool
\* exactly when they leave votes.
LEMMA UnitsSold ==
    ASSUME NEW T \in Nat \ {0}, NEW U \in Nat \ {0}, NEW u \in Nat, u <= U,
           U <= T * UNIT_PRECISION_FACTOR, NEW value \in Nat, value <= Worth(u, T, U),
           NEW n, n = UnitsFor(value, u, T, U)
    PROVE  /\ n \in Nat /\ n <= u /\ value <= T
           /\ T - value = 0 <=> U - n = 0
           /\ U - n <= (T - value) * UNIT_PRECISION_FACTOR
<1> DEFINE F == UNIT_PRECISION_FACTOR
           a == Worth(u, T, U)
<1>0. F \in Nat \ {0} /\ U <= T * F
  BY ElectionAssumption
<1> HIDE DEF F
<1>a. /\ a = (u * T) \div U /\ value <= a
      /\ n = IF a = value THEN u ELSE (value * U) \div T
  BY DEF Worth, UnitsFor
<1> HIDE DEF a
<1>1. a \in Nat /\ a <= T /\ a * U <= u * T
  BY <1>a, WorthOfUnits
<1>2. CASE a = value
  <2>1. n = u
    BY <1>a, <1>2
  <2>2. a = T => U <= u
    <3>1. ASSUME a = T PROVE U * T <= u * T
      BY <1>1, <3>1
    <3> QED BY <3>1, ProductCancels
  <2>3. u = U => a = T
    <3>1. ASSUME u = U PROVE T * U < a * U + U
      BY <1>a, <3>1, WorthOfUnits
    <3>2. a * U + U = (a + 1) * U
      BY <1>1
    <3>3. ASSUME u = U PROVE T < a + 1
      <4>1. T * U < (a + 1) * U
        BY <3>1, <3>2, <3>3
      <4>2. a + 1 \in Int
        BY <1>1
      <4> QED BY <4>1, <4>2, ProductCancels
    <3> QED BY <1>1, <3>3
  <2>4. U - u <= (T - a) * F
    <3> DEFINE r == T - a
               k == U - u
    <3>1. r \in Nat /\ k \in Nat
      BY <1>1
    <3>2. k * T <= r * U
      <4>1. k * T = U * T - u * T /\ r * U = T * U - a * U
        BY <1>1
      <4>2. U * T = T * U /\ u * T \in Int /\ a * U \in Int /\ U * T \in Int
        BY <1>1
      <4> QED BY <1>1, <4>1, <4>2
    <3> HIDE DEF r, k
    <3>3. r * U <= r * (T * F) /\ r * (T * F) = (r * F) * T
      BY <1>0, <3>1, ProductOrder
    <3>4. k * T <= (r * F) * T
      <4>1. k * T \in Int /\ r * U \in Int /\ (r * F) * T \in Int
        BY <1>0, <3>1
      <4> QED BY <3>2, <3>3, <4>1
    <3>5. k <= r * F
      BY <1>0, <3>1, <3>4, ProductCancels
    <3> QED BY <3>5 DEF r, k
  <2> QED BY <1>0, <1>1, <1>2, <2>1, <2>2, <2>3, <2>4 DEF F
<1>3. CASE a # value
  <2>1. value * U \in Nat /\ T \in Nat \ {0} /\ value < a /\ value < T
    BY <1>a, <1>1, <1>3
  <2>2. n \in Nat /\ n * T <= value * U /\ value * U < n * T + T
    BY <1>a, <1>3, <2>1, QuotientBounds
  <2>3. n <= u
    <3>1. value * U <= a * U
      BY <1>1, <2>1, ProductOrder
    <3>2. n * T <= u * T
      <4>1. n * T \in Int /\ u * T \in Int /\ a * U \in Int
        BY <1>1, <2>2
      <4> QED BY <1>1, <2>1, <2>2, <3>1, <4>1
    <3> QED BY <2>1, <2>2, <3>2, ProductCancels
  <2>4. U - n # 0
    <3> SUFFICES ASSUME n = U PROVE FALSE
      BY <2>2
    <3>1. T * U <= value * U
      <4>1. n * T = T * U
        BY <2>1
      <4> QED BY <2>2, <4>1
    <3> QED BY <2>1, <3>1, ProductCancels
  <2>5. U - n <= (T - value) * F
    <3> DEFINE r == T - value
               k == U - n
    <3>1. r \in Nat /\ k \in Int
      BY <2>1, <2>2
    <3>2. k * T < r * U + T
      <4>1. k * T = U * T - n * T /\ r * U = T * U - value * U
        BY <2>2
      <4>2. U * T = T * U /\ n * T \in Int /\ U * T \in Int
        BY <2>2
      <4> QED BY <2>1, <2>2, <4>1, <4>2
    <3> HIDE DEF r, k
    <3>3. r * U <= r * (T * F) /\ r * (T * F) = (r * F) * T
      BY <1>0, <3>1, ProductOrder
    <3>4. k * T < (r * F + 1) * T
      <4>1. k * T \in Int /\ r * U \in Int /\ (r * F) * T \in Int /\ (r * F + 1) * T = (r * F) * T + T
        BY <1>0, <3>1
      <4> QED BY <3>2, <3>3, <4>1
    <3>5. r * F + 1 \in Int /\ r * F \in Int
      BY <1>0, <3>1
    <3>6. k < r * F + 1
      BY <2>1, <3>1, <3>4, <3>5, ProductCancels
    <3>7. k <= r * F
      BY <3>1, <3>5, <3>6
    <3> QED BY <3>7 DEF r, k
  <2> QED BY <1>0, <1>3, <2>1, <2>2, <2>3, <2>4, <2>5 DEF F
<1> QED BY <1>2, <1>3 DEF F

\* T votes and U units become R votes and V units, and a unit lost at most 1/V of what
\* it was worth; an account with u units lost less than a vote and the worth of a unit.
LEMMA LossByRounding ==
    ASSUME NEW T \in Nat, NEW U \in Nat \ {0}, NEW R \in Nat, NEW V \in Nat,
           NEW u \in Nat, u <= V, T * V < R * U + T,
           NEW a, a = (u * T) \div U,
           NEW b, b = IF V = 0 THEN 0 ELSE (u * R) \div V,
           NEW q, q = T \div U
    PROVE  b + 1 + q >= a
<1>1. T \div U \in Nat /\ T < q * U + U /\ q \in Nat
  BY QuotientBounds
<1>2. u * T \in Nat
  OBVIOUS
<1>3. a \in Nat /\ a * U <= u * T
  BY <1>2, QuotientBounds
<1>4. CASE u = 0
  <2>1. u * T = 0 /\ u * R = 0
    BY <1>4
  <2>2. a = 0
    <3>1. a = 0 \div U
      BY <2>1
    <3> QED BY <3>1
  <2>3. b = 0
    <3>1. b = IF V = 0 THEN 0 ELSE 0 \div V
      BY <2>1
    <3> QED BY <3>1
  <2> QED BY <1>1, <2>2, <2>3
<1>5. CASE u # 0
  <2>1. V \in Nat \ {0} /\ u * R \in Nat
    BY <1>5
  <2>2. b \in Nat /\ u * R < b * V + V
    BY <2>1, QuotientBounds
  <2>3. (b + 1) * V = b * V + V
    BY <2>1, <2>2
  <2>4. SUFFICES ASSUME a >= b + 1 + (q + 1) PROVE FALSE
    BY <1>1, <1>3, <2>2
  <2> DEFINE c == b + 1
             p == q + 1
  <2>5. c \in Nat /\ p \in Nat /\ c + p <= a /\ u * R < c * V /\ T < p * U
    <3>1. (q + 1) * U = q * U + U
      BY <1>1
    <3> QED BY <1>1, <1>3, <2>2, <2>3, <2>4, <3>1
  <2> HIDE DEF c, p
  \* Everything is multiplied by V units.
  <2>6. (c + p) * U <= u * T
    <3>1. (c + p) * U <= a * U
      BY <1>3, <2>5, ProductOrder
    <3> QED BY <1>2, <1>3, <2>5, <3>1
  <2>7. ((c + p) * U) * V <= (u * T) * V
    <3>1. (c + p) * U \in Int /\ u * T \in Int
      BY <2>5
    <3> QED BY <2>6, <3>1, ProductOrder
  <2>8. (u * T) * V < u * (R * U) + u * T
    <3>1. (u * T) * V = (T * V) * u /\ u * (R * U) + u * T = (R * U + T) * u
      OBVIOUS
    <3>2. (T * V) * u < (R * U + T) * u
      <4>1. T * V \in Int /\ R * U + T \in Int /\ u \in Nat \ {0}
        BY <1>5
      <4> DEFINE x == T * V
                 y == R * U + T
      <4>2. x \in Int /\ y \in Int /\ x < y /\ u \in Nat \ {0}
        BY <4>1
      <4> HIDE DEF x, y
      <4>3. x * u < y * u
        BY <4>2
      <4> QED BY <4>3 DEF x, y
    <3> QED BY <3>1, <3>2
  <2>9. u * (R * U) <= (c * V) * U
    <3>1. u * (R * U) = (u * R) * U
      OBVIOUS
    <3>2. u * R \in Int /\ c * V \in Int /\ u * R <= c * V
      BY <2>5
    <3>3. (u * R) * U <= (c * V) * U
      BY <3>2, ProductOrder
    <3> QED BY <3>1, <3>3
  <2>10. u * T <= (p * U) * V
    <3>1. u * T <= V * T /\ V * T = T * V
      BY ProductOrder
    <3>2. T * V <= (p * U) * V
      <4>1. p * U \in Int /\ T <= p * U
        BY <2>5
      <4> QED BY <4>1, ProductOrder
    <3>3. u * T \in Int /\ T * V \in Int /\ (p * U) * V \in Int
      BY <2>5
    <3> QED BY <3>1, <3>2, <3>3
  <2>11. ((c + p) * U) * V = (c * V) * U + (p * U) * V
    BY <2>5
  <2>12. /\ ((c + p) * U) * V \in Int /\ (u * T) * V \in Int /\ u * (R * U) \in Int
         /\ u * T \in Int /\ (c * V) * U \in Int /\ (p * U) * V \in Int
    BY <2>5
  <2> QED BY <2>7, <2>8, <2>9, <2>10, <2>11, <2>12
<1> QED BY <1>4, <1>5

\* The units bought for votes are rounded down: the others lose nothing.
LEMMA PriceOfBought ==
    ASSUME NEW T \in Nat \ {0}, NEW U \in Nat \ {0}, NEW value \in Nat,
           NEW n, n = (value * U) \div T
    PROVE  T * (U + n) < (T + value) * U + T
<1>1. value * U \in Nat
  OBVIOUS
<1>2. n \in Nat /\ n * T <= value * U
  BY <1>1, QuotientBounds
<1>3. T * (U + n) = T * U + n * T /\ (T + value) * U = T * U + value * U
  BY <1>2
<1>4. T * U \in Int /\ n * T \in Int
  BY <1>2
<1> QED BY <1>1, <1>2, <1>3, <1>4

\* The units sold for votes are rounded down by less than one, which the others pay,
\* unless an account sells all it has.
LEMMA PriceOfSold ==
    ASSUME NEW T \in Nat \ {0}, NEW U \in Nat \ {0}, NEW u \in Nat, NEW value \in Nat,
           NEW n, n = IF (u * T) \div U = value THEN u ELSE (value * U) \div T
    PROVE  T * (U - n) < (T - value) * U + T
<1>1. value * U \in Nat /\ u * T \in Nat
  OBVIOUS
<1>2. n \in Nat /\ value * U < n * T + T
  <2>1. CASE (u * T) \div U = value
    <3>1. value * U <= u * T
      BY <1>1, <2>1, QuotientBounds
    <3> QED BY <1>1, <2>1, <3>1
  <2>2. CASE (u * T) \div U # value
    BY <1>1, <2>2, QuotientBounds
  <2> QED BY <2>1, <2>2
<1>3. T * (U - n) = T * U - n * T /\ (T - value) * U = T * U - value * U
  BY <1>2
<1>4. T * U \in Int /\ n * T \in Int
  BY <1>2
<1> QED BY <1>1, <1>2, <1>3, <1>4

\* What rounding takes from each unit that stays in the pool is less than a unit of
\* votes spread over all of them.
KeepsPrice(old, new) ==
    old.totalUnits # 0 => old.total * new.totalUnits < new.total * old.totalUnits + old.total

KeepsPrices(v, w) ==
    \A g \in Groups : KeepsPrice(v.active.forGroup[g], w.active.forGroup[g])

\* A pool that does not change keeps its price.
LEMMA PriceStays ==
    ASSUME NEW v, Counted(v), NEW g \in Groups
    PROVE  KeepsPrice(v.active.forGroup[g], v.active.forGroup[g])
<1> DEFINE T == v.active.forGroup[g].total
           U == v.active.forGroup[g].totalUnits
<1>1. T \in Nat /\ U \in Nat /\ (T = 0 <=> U = 0)
  BY GroupFields DEF Counted, Priced
<1> HIDE DEF T, U
<1>2. U # 0 => T * U < T * U + T
  <2>1. T * U \in Int
    BY <1>1
  <2> QED BY <1>1, <2>1
<1> QED BY <1>2 DEF KeepsPrice, T, U

\* So do all of them when one of them does and the others do not change.
LEMMA PricesStay ==
    ASSUME NEW v, Counted(v), NEW w, NEW group \in Groups,
           KeepsPrice(v.active.forGroup[group], w.active.forGroup[group]),
           \A g \in Groups \ {group} : w.active.forGroup[g] = v.active.forGroup[g]
    PROVE  KeepsPrices(v, w)
<1>1. ASSUME NEW g \in Groups PROVE KeepsPrice(v.active.forGroup[g], w.active.forGroup[g])
  <2>1. CASE g = group
    BY <2>1
  <2>2. CASE g # group
    BY <2>2, PriceStays
  <2> QED BY <2>1, <2>2
<1> QED BY <1>1 DEF KeepsPrices

-----------------------------------------------------------------------------
(***************************************************************************)
(* The functions that change the votes of an account for a group           *)
(***************************************************************************)

\* No part exceeds the total it is counted in.
LEMMA Covered ==
    ASSUME NEW v \in Votes, Summed(v), NEW group \in Groups, NEW account \in Accounts
    PROVE  /\ v.pending.forGroup[group].byAccount[account].value <= v.pending.forGroup[group].total
           /\ v.pending.forGroup[group].total <= v.pending.total
           /\ v.active.forGroup[group].unitsByAccount[account] <= v.active.forGroup[group].totalUnits
           /\ v.active.forGroup[group].total <= v.active.total
<1>0. IsFiniteSet(Accounts) /\ IsFiniteSet(Groups)
  BY ElectionAssumption
<1>1. pendingOf(v, group) \in [Accounts -> Nat]
  BY PendingFields DEF pendingOf
<1>2. pendingTotals(v) \in [Groups -> Nat] /\ activeTotals(v) \in [Groups -> Nat]
  BY DEF pendingTotals, activeTotals, Votes, PendingPool, ActivePool
<1>3. v.active.forGroup[group].unitsByAccount \in [Accounts -> Nat]
  BY DEF Votes, ActivePool
<1>4. pendingOf(v, group)[account] <= SumFunction(pendingOf(v, group))
  BY <1>0, <1>1, SumOfAll, SumCovers
<1>5. pendingTotals(v)[group] <= SumFunction(pendingTotals(v))
  BY <1>0, <1>2, SumOfAll, SumCovers
<1>6. activeTotals(v)[group] <= SumFunction(activeTotals(v))
  BY <1>0, <1>2, SumOfAll, SumCovers
<1>7. v.active.forGroup[group].unitsByAccount[account] <= SumFunction(v.active.forGroup[group].unitsByAccount)
  BY <1>0, <1>3, SumOfAll, SumCovers
<1> QED BY <1>4, <1>5, <1>6, <1>7 DEF Summed, pendingOf, pendingTotals, activeTotals

\* What incrementPendingVotes does.
LEMMA IncrementPending ==
    ASSUME NEW v \in Votes, NEW group \in Groups, NEW account \in Accounts,
           NEW value \in Nat, NEW e \in Nat,
           NEW w, w = incrementPendingVotes(v, group, account, value, e)
    PROVE  ChangesPending(v, w, group, account, value)
<1> DEFINE x == v.pending.total + value
           y == v.pending.forGroup[group].total + value
           r == [value |-> v.pending.forGroup[group].byAccount[account].value + value, epoch |-> e]
<1>1. w = SetPending(v, group, account, x, y, r)
  BY DEF incrementPendingVotes, SetPending
<1>2. x \in Nat /\ y \in Nat /\ r \in Record
      /\ r.value = v.pending.forGroup[group].byAccount[account].value + value
  BY PendingFields DEF Record
<1>3. x = v.pending.total + value /\ y = v.pending.forGroup[group].total + value
  OBVIOUS
<1> HIDE DEF x, y, r
<1> QED BY <1>1, <1>2, <1>3, PendingChange

\* What decrementPendingVotes does, for no more than the account has.
LEMMA DecrementPending ==
    ASSUME NEW v \in Votes, Summed(v), NEW group \in Groups, NEW account \in Accounts,
           NEW value \in Nat, value <= v.pending.forGroup[group].byAccount[account].value,
           NEW w, w = decrementPendingVotes(v, group, account, value)
    PROVE  ChangesPending(v, w, group, account, -value)
<1> DEFINE old == v.pending.forGroup[group].byAccount[account]
           x == v.pending.total - value
           y == v.pending.forGroup[group].total - value
           r == [value |-> old.value - value, epoch |-> IF old.value = value THEN 0 ELSE old.epoch]
<1>1. w = SetPending(v, group, account, x, y, r)
  BY DEF decrementPendingVotes, SetPending
<1>2. x \in Nat /\ y \in Nat
  BY PendingFields, Covered
<1>3. old \in Record
  BY DEF Votes, PendingPool
<1>4. r \in Record
  <2> HIDE DEF old
  <2> QED BY <1>3 DEF Record, old
<1>5. -value \in Int /\ x = v.pending.total + (-value) /\ y = v.pending.forGroup[group].total + (-value)
      /\ r.value = v.pending.forGroup[group].byAccount[account].value + (-value)
  BY PendingFields
<1> HIDE DEF x, y, r, old
<1> QED BY <1>1, <1>2, <1>4, <1>5, PendingChange

\* The units of the group after votes were activated are priced as before.
LEMMA IncrementActive ==
    ASSUME NEW v \in Votes, NEW group \in Groups, NEW account \in Accounts,
           Priced(v.active.forGroup[group]), NEW value \in Nat \ {0},
           NEW w, w = incrementActiveVotes(v, group, account, value)
    PROVE  \E n \in Nat : /\ ChangesActive(v, w, group, account, value, n)
                          /\ Priced(w.active.forGroup[group])
                          /\ KeepsPrice(v.active.forGroup[group], w.active.forGroup[group])
<1> DEFINE T == v.active.forGroup[group].total
           U == v.active.forGroup[group].totalUnits
           n == votesToUnits(v, group, value)
           x == v.active.total + value
           y == T + value
           z == U + n
           u == v.active.forGroup[group].unitsByAccount[account] + n
<1>1. w = SetActive(v, group, account, x, y, z, u)
  BY DEF incrementActiveVotes, SetActive
<1>2. T \in Nat /\ U \in Nat /\ v.active.total \in Nat
      /\ v.active.forGroup[group].unitsByAccount[account] \in Nat
  BY PendingFields
<1>3. n = IF U = 0 THEN value * UNIT_PRECISION_FACTOR ELSE (value * U) \div T
  BY DEF votesToUnits
<1>4. (T = 0 <=> U = 0) /\ U <= T * UNIT_PRECISION_FACTOR /\ UNIT_PRECISION_FACTOR \in Nat \ {0}
  BY ElectionAssumption DEF Priced
<1> HIDE DEF T, U, n
<1>5. /\ n \in Nat /\ U + n # 0
      /\ U + n <= (T + value) * UNIT_PRECISION_FACTOR
  BY <1>2, <1>3, <1>4, UnitsBought
<1>6. x \in Nat /\ y \in Nat /\ z \in Nat /\ u \in Nat
  BY <1>2, <1>5
<1>7. x = v.active.total + value /\ y = v.active.forGroup[group].total + value
      /\ z = v.active.forGroup[group].totalUnits + n
      /\ u = v.active.forGroup[group].unitsByAccount[account] + n
  BY DEF T, U
<1>8. y # 0 /\ z # 0 /\ z <= y * UNIT_PRECISION_FACTOR
  BY <1>2, <1>5
<1>9. U # 0 => T * z < y * U + T
  <2>1. CASE U # 0
    <3>1. T \in Nat \ {0} /\ U \in Nat \ {0} /\ n = (value * U) \div T /\ value \in Nat
      BY <1>2, <1>3, <1>4, <2>1
    <3> QED BY <3>1, PriceOfBought
  <2> QED BY <2>1
<1> HIDE DEF x, y, z, u
<1>10. ChangesActive(v, w, group, account, value, n)
  BY <1>1, <1>6, <1>7, ActiveChange
<1>11. w.active.forGroup[group].total = y /\ w.active.forGroup[group].totalUnits = z
  BY <1>7, <1>10 DEF ChangesActive
<1>12. KeepsPrice(v.active.forGroup[group], w.active.forGroup[group])
  BY <1>11, <1>9 DEF KeepsPrice, T, U
<1> QED BY <1>5, <1>8, <1>10, <1>11, <1>12 DEF Priced

\* decrementActiveVotes takes votes and some number of units, and keeps the price in
\* bounds.
LEMMA DecrementActive ==
    ASSUME NEW v \in Votes, Summed(v), NEW group \in Groups, NEW account \in Accounts,
           Priced(v.active.forGroup[group]), NEW value \in Nat \ {0},
           value <= getActiveVotesForGroupByAccount(v, group, account),
           NEW w, w = decrementActiveVotes(v, group, account, value)
    PROVE  \E n \in Nat : /\ ChangesActive(v, w, group, account, -value, -n)
                          /\ Priced(w.active.forGroup[group])
                          /\ KeepsPrice(v.active.forGroup[group], w.active.forGroup[group])
<1> DEFINE T == v.active.forGroup[group].total
           U == v.active.forGroup[group].totalUnits
           own == v.active.forGroup[group].unitsByAccount[account]
           a == getActiveVotesForGroupByAccount(v, group, account)
           n == IF a = value THEN own ELSE votesToUnits(v, group, value)
           x == v.active.total - value
           y == T - value
           z == U - n
           u == own - n
<1>1. w = SetActive(v, group, account, x, y, z, u)
  BY DEF decrementActiveVotes, SetActive
<1>2. T \in Nat /\ U \in Nat /\ own \in Nat /\ v.active.total \in Nat
  BY PendingFields
<1>3. own <= U /\ T <= v.active.total
  BY Covered
<1>4. (T = 0 <=> U = 0) /\ U <= T * UNIT_PRECISION_FACTOR /\ UNIT_PRECISION_FACTOR \in Nat \ {0}
  BY ElectionAssumption DEF Priced
<1>5. U # 0
  BY DEF getActiveVotesForGroupByAccount, unitsToVotes
<1>6. a = Worth(own, T, U)
  BY <1>5 DEF getActiveVotesForGroupByAccount, unitsToVotes, Worth
<1>7. n = UnitsFor(value, own, T, U)
  BY <1>5, <1>6 DEF votesToUnits, UnitsFor
<1>8. value <= Worth(own, T, U)
  BY <1>6
<1> HIDE DEF T, U, own, a, n
<1>9. /\ n \in Nat /\ n <= own /\ value <= T
      /\ T - value = 0 <=> U - n = 0
      /\ U - n <= (T - value) * UNIT_PRECISION_FACTOR
  <2>1. U \in Nat \ {0} /\ T \in Nat \ {0} /\ U <= T * UNIT_PRECISION_FACTOR /\ value \in Nat
    BY <1>2, <1>4, <1>5
  <2> QED BY <1>2, <1>3, <1>4, <1>7, <1>8, <2>1, UnitsSold
<1>10. x \in Nat /\ y \in Nat /\ z \in Nat /\ u \in Nat
  BY <1>2, <1>3, <1>9
<1>11. x = v.active.total + (-value) /\ y = v.active.forGroup[group].total + (-value)
       /\ z = v.active.forGroup[group].totalUnits + (-n)
       /\ u = v.active.forGroup[group].unitsByAccount[account] + (-n)
  BY <1>2, <1>9 DEF T, U, own
<1>12. (y = 0 <=> z = 0) /\ z <= y * UNIT_PRECISION_FACTOR
  BY <1>9
<1>13. T * z < y * U + T
  <2>1. n = IF (own * T) \div U = value THEN own ELSE (value * U) \div T
    BY <1>7 DEF UnitsFor, Worth
  <2>2. T \in Nat \ {0} /\ U \in Nat \ {0} /\ value \in Nat
    BY <1>2, <1>4, <1>5
  <2> QED BY <1>2, <2>1, <2>2, PriceOfSold
<1> HIDE DEF x, y, z, u
<1>14. ChangesActive(v, w, group, account, -value, -n)
  BY <1>1, <1>10, <1>11, ActiveChange
<1>15. w.active.forGroup[group].total = y /\ w.active.forGroup[group].totalUnits = z
  BY <1>11, <1>14 DEF ChangesActive
<1>16. KeepsPrice(v.active.forGroup[group], w.active.forGroup[group])
  BY <1>15, <1>13 DEF KeepsPrice, T, U
<1> QED BY <1>9, <1>12, <1>14, <1>15, <1>16 DEF Priced

\* The list is right for votes that changed by d when it was right but for d more.
LEMMA ShownAfter ==
    ASSUME NEW v \in Votes, NEW w \in Votes, NEW group \in Groups, NEW d \in Int, NEW e \in Int,
           w.eligible = v.eligible,
           \A g \in Groups : getTotalVotesForGroup(w, g)
                                = getTotalVotesForGroup(v, g) + IF g = group THEN d ELSE 0,
           ShowsVotes(v, group, e)
    PROVE  ShowsVotes(w, group, e - d)
<1> DEFINE s == v.eligible
<1>2. \A i \in DOMAIN s : s[i].key \in Groups /\ s[i].value \in Nat
  BY ShownFields
<1>3. \A g \in Groups : getTotalVotesForGroup(v, g) \in Nat
  BY GroupFields
<1>4. ASSUME NEW i \in DOMAIN s
      PROVE  s[i].value = getTotalVotesForGroup(w, s[i].key)
                             + IF s[i].key = group THEN e - d ELSE 0
  <2> DEFINE k == s[i].key
  <2>1. k \in Groups /\ getTotalVotesForGroup(v, k) \in Nat
    BY <1>2, <1>3
  <2>2. s[i].value = getTotalVotesForGroup(v, k) + IF k = group THEN e ELSE 0
    BY DEF ShowsVotes
  <2>3. getTotalVotesForGroup(w, k) = getTotalVotesForGroup(v, k) + IF k = group THEN d ELSE 0
    BY <2>1
  <2> HIDE DEF k
  <2>4. s[i].value = getTotalVotesForGroup(w, k) + IF k = group THEN e - d ELSE 0
    BY <2>1, <2>2, <2>3
  <2> QED BY <2>4 DEF k
<1> QED BY <1>4 DEF ShowsVotes

\* A change of pending votes keeps the counts, and puts the list off by as much.
LEMMA PendingKeeps ==
    ASSUME NEW v, Counted(v), NEW group \in Groups, NEW account \in Accounts, NEW d \in Int,
           Lists(v, account, group), NEW w, ChangesPending(v, w, group, account, d)
    PROVE  /\ Counted(w)
           /\ \A e \in Int : ShowsVotes(v, group, e) => ShowsVotes(w, group, e - d)
<1>0. IsFiniteSet(Accounts) /\ IsFiniteSet(Groups)
  BY ElectionAssumption
<1>1. v \in Votes /\ w \in Votes /\ Summed(v) /\ ListsVotes(v)
  BY DEF Counted, ChangesPending
<1>2. /\ w.pending.total = v.pending.total + d
      /\ w.pending.forGroup[group].total = v.pending.forGroup[group].total + d
      /\ w.pending.forGroup[group].byAccount[account].value
            = v.pending.forGroup[group].byAccount[account].value + d
      /\ \A g \in Groups \ {group} : w.pending.forGroup[g] = v.pending.forGroup[g]
      /\ \A a \in Accounts \ {account} :
            w.pending.forGroup[group].byAccount[a] = v.pending.forGroup[group].byAccount[a]
      /\ w.active = v.active /\ w.eligible = v.eligible /\ w.groupsVotedFor = v.groupsVotedFor
  BY DEF ChangesPending
<1>3. Summed(w)
  <2>1. SumFunction(pendingTotals(w)) = SumFunction(pendingTotals(v)) + d
    <3>1. pendingTotals(v) \in [Groups -> Int] /\ DOMAIN pendingTotals(w) = Groups
      BY <1>1 DEF pendingTotals, Votes, PendingPool
    <3>2. pendingTotals(w)[group] = pendingTotals(v)[group] + d /\ pendingTotals(v)[group] + d \in Int
      BY <1>2, <3>1 DEF pendingTotals
    <3>3. \A g \in Groups \ {group} : pendingTotals(w)[g] = pendingTotals(v)[g]
      BY <1>2 DEF pendingTotals
    <3>4. SumFunction(pendingTotals(w))
             = SumFunction(pendingTotals(v)) - pendingTotals(v)[group] + (pendingTotals(v)[group] + d)
      BY <1>0, <3>1, <3>2, <3>3, SumOfAllChange
    <3>5. SumFunction(pendingTotals(v)) \in Int /\ pendingTotals(v)[group] \in Int
      BY <1>0, <3>1, SumOfAllType
    <3> QED BY <3>4, <3>5
  <2>2. SumFunction(pendingOf(w, group)) = SumFunction(pendingOf(v, group)) + d
    <3>1. pendingOf(v, group) \in [Accounts -> Int] /\ DOMAIN pendingOf(w, group) = Accounts
      BY <1>1, PendingFields DEF pendingOf
    <3>2. pendingOf(w, group)[account] = pendingOf(v, group)[account] + d
          /\ pendingOf(v, group)[account] + d \in Int
      <4>1. /\ pendingOf(v, group)[account] = v.pending.forGroup[group].byAccount[account].value
            /\ pendingOf(w, group)[account] = w.pending.forGroup[group].byAccount[account].value
        BY DEF pendingOf
      <4>2. pendingOf(v, group)[account] \in Int
        BY <3>1
      <4> QED BY <1>2, <4>1, <4>2
    <3>3. \A a \in Accounts \ {account} : pendingOf(w, group)[a] = pendingOf(v, group)[a]
      BY <1>2 DEF pendingOf
    <3>4. SumFunction(pendingOf(w, group))
             = SumFunction(pendingOf(v, group)) - pendingOf(v, group)[account]
                  + (pendingOf(v, group)[account] + d)
      BY <1>0, <3>1, <3>2, <3>3, SumOfAllChange
    <3>5. SumFunction(pendingOf(v, group)) \in Int /\ pendingOf(v, group)[account] \in Int
      BY <1>0, <3>1, SumOfAllType
    <3> QED BY <3>4, <3>5
  <2>3. \A g \in Groups \ {group} : pendingOf(w, g) = pendingOf(v, g)
    BY <1>2 DEF pendingOf
  <2>4. activeTotals(w) = activeTotals(v)
    BY <1>2 DEF activeTotals
  <2>5. ASSUME NEW g \in Groups PROVE w.pending.forGroup[g].total = SumFunction(pendingOf(w, g))
    BY <1>1, <1>2, <2>2, <2>3 DEF Summed
  <2> QED BY <1>1, <1>2, <2>1, <2>4, <2>5 DEF Summed
<1>4. ListsVotes(w)
  <2>1. \A a \in Accounts, g \in Groups : Lists(w, a, g) <=> Lists(v, a, g)
    BY <1>2 DEF Lists
  <2>2. ASSUME NEW a \in Accounts, NEW g \in Groups, ~Lists(v, a, g)
        PROVE  /\ w.pending.forGroup[g].byAccount[a].value = 0
               /\ w.active.forGroup[g].unitsByAccount[a] < UNIT_PRECISION_FACTOR
    <3>1. /\ v.pending.forGroup[g].byAccount[a].value = 0
          /\ v.active.forGroup[g].unitsByAccount[a] < UNIT_PRECISION_FACTOR
      BY <1>1, <2>2 DEF ListsVotes
    <3>2. g # group \/ a # account
      BY <2>2
    <3>3. w.pending.forGroup[g].byAccount[a] = v.pending.forGroup[g].byAccount[a]
      BY <1>2, <3>2
    <3> QED BY <1>2, <3>1, <3>3
  <2>3. ASSUME NEW a \in Accounts
        PROVE  \A i, j \in DOMAIN w.groupsVotedFor[a] :
                  w.groupsVotedFor[a][i] = w.groupsVotedFor[a][j] => i = j
    BY <1>1, <1>2 DEF ListsVotes
  <2> QED BY <2>1, <2>2, <2>3 DEF ListsVotes
<1>5. \A g \in Groups : Priced(w.active.forGroup[g])
  BY <1>2 DEF Counted
<1>6. \A g \in Groups : getTotalVotesForGroup(w, g)
                           = getTotalVotesForGroup(v, g) + IF g = group THEN d ELSE 0
  BY <1>1, <1>2, GroupFields DEF getTotalVotesForGroup
<1> QED BY <1>1, <1>2, <1>3, <1>4, <1>5, <1>6, ShownAfter DEF Counted

\* So does a change of active votes.
LEMMA ActiveKeeps ==
    ASSUME NEW v, Counted(v), NEW group \in Groups, NEW account \in Accounts, NEW d \in Int,
           NEW n \in Int, Lists(v, account, group) \/ n <= 0,
           NEW w, ChangesActive(v, w, group, account, d, n), Priced(w.active.forGroup[group])
    PROVE  /\ Counted(w)
           /\ \A e \in Int : ShowsVotes(v, group, e) => ShowsVotes(w, group, e - d)
<1>0. IsFiniteSet(Accounts) /\ IsFiniteSet(Groups) /\ UNIT_PRECISION_FACTOR \in Nat
  BY ElectionAssumption
<1>1. v \in Votes /\ w \in Votes /\ Summed(v) /\ ListsVotes(v)
  BY DEF Counted, ChangesActive
<1>2. /\ w.active.total = v.active.total + d
      /\ w.active.forGroup[group].total = v.active.forGroup[group].total + d
      /\ w.active.forGroup[group].totalUnits = v.active.forGroup[group].totalUnits + n
      /\ w.active.forGroup[group].unitsByAccount[account]
            = v.active.forGroup[group].unitsByAccount[account] + n
      /\ \A g \in Groups \ {group} : w.active.forGroup[g] = v.active.forGroup[g]
      /\ \A a \in Accounts \ {account} :
            w.active.forGroup[group].unitsByAccount[a] = v.active.forGroup[group].unitsByAccount[a]
      /\ w.pending = v.pending /\ w.eligible = v.eligible /\ w.groupsVotedFor = v.groupsVotedFor
  BY DEF ChangesActive
<1>3. Summed(w)
  <2>1. SumFunction(activeTotals(w)) = SumFunction(activeTotals(v)) + d
    <3>1. activeTotals(v) \in [Groups -> Int] /\ DOMAIN activeTotals(w) = Groups
      BY <1>1 DEF activeTotals, Votes, ActivePool
    <3>2. activeTotals(w)[group] = activeTotals(v)[group] + d /\ activeTotals(v)[group] + d \in Int
      BY <1>2, <3>1 DEF activeTotals
    <3>3. \A g \in Groups \ {group} : activeTotals(w)[g] = activeTotals(v)[g]
      BY <1>2 DEF activeTotals
    <3>4. SumFunction(activeTotals(w))
             = SumFunction(activeTotals(v)) - activeTotals(v)[group] + (activeTotals(v)[group] + d)
      BY <1>0, <3>1, <3>2, <3>3, SumOfAllChange
    <3>5. SumFunction(activeTotals(v)) \in Int /\ activeTotals(v)[group] \in Int
      BY <1>0, <3>1, SumOfAllType
    <3> QED BY <3>4, <3>5
  <2>2. SumFunction(w.active.forGroup[group].unitsByAccount)
           = SumFunction(v.active.forGroup[group].unitsByAccount) + n
    <3> DEFINE f == v.active.forGroup[group].unitsByAccount
               h == w.active.forGroup[group].unitsByAccount
    <3>1. f \in [Accounts -> Int] /\ DOMAIN h = Accounts
      <4>1. v.active.forGroup[group] \in ActivePool /\ w.active.forGroup[group] \in ActivePool
        BY <1>1 DEF Votes
      <4> QED BY <4>1 DEF ActivePool
    <3>2. h[account] = f[account] + n /\ f[account] + n \in Int
      BY <1>2, <3>1
    <3>3. \A a \in Accounts \ {account} : h[a] = f[a]
      BY <1>2
    <3> HIDE DEF f, h
    <3>4. SumFunction(h) = SumFunction(f) - f[account] + (f[account] + n)
      BY <1>0, <3>1, <3>2, <3>3, SumOfAllChange
    <3>5. SumFunction(f) \in Int /\ f[account] \in Int
      BY <1>0, <3>1, SumOfAllType
    <3>6. SumFunction(h) = SumFunction(f) + n
      BY <3>4, <3>5
    <3> QED BY <3>6 DEF f, h
  <2>3. \A g \in Groups : pendingOf(w, g) = pendingOf(v, g)
    BY <1>2 DEF pendingOf
  <2>4. pendingTotals(w) = pendingTotals(v)
    BY <1>2 DEF pendingTotals
  <2>5. ASSUME NEW g \in Groups
        PROVE  w.active.forGroup[g].totalUnits = SumFunction(w.active.forGroup[g].unitsByAccount)
    BY <1>1, <1>2, <2>2 DEF Summed
  <2> QED BY <1>1, <1>2, <2>1, <2>3, <2>4, <2>5 DEF Summed
<1>4. ListsVotes(w)
  <2>1. \A a \in Accounts, g \in Groups : Lists(w, a, g) <=> Lists(v, a, g)
    BY <1>2 DEF Lists
  <2>2. ASSUME NEW a \in Accounts, NEW g \in Groups, ~Lists(v, a, g)
        PROVE  w.active.forGroup[g].unitsByAccount[a] <= v.active.forGroup[g].unitsByAccount[a]
    <3>1. v.active.forGroup[g].unitsByAccount[a] \in Nat /\ w.active.forGroup[g].unitsByAccount[a] \in Nat
      BY <1>1, PendingFields
    <3>2. CASE g = group /\ a = account
      BY <1>2, <2>2, <3>1, <3>2
    <3>3. CASE g # group \/ a # account
      <4>1. w.active.forGroup[g].unitsByAccount[a] = v.active.forGroup[g].unitsByAccount[a]
        BY <1>2, <3>3
      <4> QED BY <3>1, <4>1
    <3> QED BY <3>2, <3>3
  <2>3. ASSUME NEW a \in Accounts, NEW g \in Groups, ~Lists(v, a, g)
        PROVE  w.active.forGroup[g].unitsByAccount[a] < UNIT_PRECISION_FACTOR
    <3>1. v.active.forGroup[g].unitsByAccount[a] < UNIT_PRECISION_FACTOR
      BY <1>1, <2>3 DEF ListsVotes
    <3>2. v.active.forGroup[g].unitsByAccount[a] \in Nat /\ w.active.forGroup[g].unitsByAccount[a] \in Nat
      BY <1>1, PendingFields
    <3> QED BY <1>0, <2>2, <2>3, <3>1, <3>2
  <2>4. ASSUME NEW a \in Accounts
        PROVE  \A i, j \in DOMAIN w.groupsVotedFor[a] :
                  w.groupsVotedFor[a][i] = w.groupsVotedFor[a][j] => i = j
    BY <1>1, <1>2 DEF ListsVotes
  <2>5. \A a \in Accounts, g \in Groups :
           ~Lists(v, a, g) => w.pending.forGroup[g].byAccount[a].value = 0
    BY <1>1, <1>2 DEF ListsVotes
  <2> QED BY <2>1, <2>3, <2>4, <2>5 DEF ListsVotes
<1>5. \A g \in Groups : Priced(w.active.forGroup[g])
  BY <1>2 DEF Counted
<1>6. \A g \in Groups : getTotalVotesForGroup(w, g)
                           = getTotalVotesForGroup(v, g) + IF g = group THEN d ELSE 0
  BY <1>1, <1>2, GroupFields DEF getTotalVotesForGroup
<1> QED BY <1>1, <1>2, <1>3, <1>4, <1>5, <1>6, ShownAfter DEF Counted

-----------------------------------------------------------------------------
(***************************************************************************)
(* Sorting a group anew, and striking it off an account's list             *)
(***************************************************************************)

\* Assigning the sorted list changes nothing else.
LEMMA EligibleSet ==
    ASSUME NEW v \in Votes, NEW q \in Seq(Shown), NEW w, w = [v EXCEPT !.eligible = q]
    PROVE  /\ w \in Votes /\ w.eligible = q
           /\ w.pending = v.pending /\ w.active = v.active /\ w.groupsVotedFor = v.groupsVotedFor
<1> QED BY DEF Votes

\* The sums and the prices are of the pending and the active votes.
LEMMA CountedKept ==
    ASSUME NEW v, Counted(v), NEW w \in Votes, w.pending = v.pending, w.active = v.active,
           ListsVotes(w)
    PROVE  Counted(w)
<1>1. pendingTotals(w) = pendingTotals(v) /\ activeTotals(w) = activeTotals(v)
  BY DEF pendingTotals, activeTotals
<1>2. \A g \in Groups : pendingOf(w, g) = pendingOf(v, g)
  BY DEF pendingOf
<1>3. Summed(w)
  BY <1>1, <1>2 DEF Counted, Summed
<1> QED BY <1>3 DEF Counted

\* ListsVotes does not depend on the sorted list.
LEMMA ListsVotesKept ==
    ASSUME NEW v, ListsVotes(v), NEW w, w.pending = v.pending, w.active = v.active,
           w.groupsVotedFor = v.groupsVotedFor
    PROVE  ListsVotes(w)
<1>1. \A a \in Accounts, g \in Groups : Lists(w, a, g) <=> Lists(v, a, g)
  BY DEF Lists
<1> QED BY <1>1 DEF ListsVotes

\* Sorting a group anew corrects what the list shows of it.
LEMMA Resorted ==
    ASSUME NEW v, Counted(v), NEW group \in Groups, isEligible(v, group),
           NEW e \in Int, ShowsVotes(v, group, e), NEW d \in Int,
           getTotalVotesForGroup(v, group) + (e + d) \in Nat,
           NEW x \in resorted(v, group, d)
    PROVE  /\ Counted(x) /\ ShowsVotes(x, group, e + d)
           /\ x.pending = v.pending /\ x.active = v.active /\ x.groupsVotedFor = v.groupsVotedFor
<1> DEFINE s == v.eligible
           t == Without(s, group)
           c == getValue(s, group) + d
           new == [key |-> group, value |-> c]
<1>1. v \in Votes /\ s \in Seq(Shown) /\ DistinctKeys(s) /\ group \in KeySet(s)
  BY ShownFields DEF Counted, ShowsVotes, isEligible
<1>2. PICK q \in Placements(t, group, c) : x = [v EXCEPT !.eligible = q]
  BY DEF resorted
<1>3. /\ t \in Seq(Shown) /\ DistinctKeys(t) /\ KeySet(t) = KeySet(s) \ {group}
      /\ \A i \in DOMAIN t : \E j \in DOMAIN s : t[i] = s[j] /\ s[j].key # group
  <2> HIDE DEF s
  <2> QED BY <1>1, WithoutProperties
<1>4. getTotalVotesForGroup(v, group) \in Nat
  BY <1>1, GroupFields
<1>5. getValue(s, group) = getTotalVotesForGroup(v, group) + e
  <2> DEFINE p == Position(s, group)
  <2>1. p \in DOMAIN s /\ s[p].key = group /\ getValue(s, group) = s[p].value
    BY <1>1, PositionOfKey
  <2> HIDE DEF p
  <2> QED BY <2>1 DEF ShowsVotes
<1>6. c = getTotalVotesForGroup(v, group) + (e + d) /\ c \in Nat
  BY <1>4, <1>5
<1>7. new \in Shown
  BY <1>6 DEF Shown
<1> HIDE DEF t, c
<1>8. /\ q \in Seq(Shown) /\ DistinctKeys(q) /\ Sorted(q)
      /\ \A i \in DOMAIN q : \/ q[i] = new
                             \/ \E j \in DOMAIN t : q[i] = t[j]
  <2>1. group \notin KeySet(t)
    BY <1>3
  <2>2. Sorted(q)
    BY <1>2 DEF Placements
  <2> HIDE DEF s
  <2> QED BY <1>2, <1>3, <1>7, <2>1, <2>2, PlacementsProperties, SMTT(30)
<1>9. /\ x \in Votes /\ x.eligible = q
      /\ x.pending = v.pending /\ x.active = v.active /\ x.groupsVotedFor = v.groupsVotedFor
  BY <1>1, <1>2, <1>8, EligibleSet
<1>10. Counted(x)
  <2>1. ListsVotes(v)
    BY DEF Counted
  <2>2. ListsVotes(x)
    BY <1>9, <2>1, ListsVotesKept
  <2> QED BY <1>9, <2>2, CountedKept
<1>11. \A g : getTotalVotesForGroup(x, g) = getTotalVotesForGroup(v, g)
  BY <1>9 DEF getTotalVotesForGroup
<1>12. ASSUME NEW i \in DOMAIN q
       PROVE  q[i].value = getTotalVotesForGroup(x, q[i].key)
                              + IF q[i].key = group THEN e + d ELSE 0
  <2>1. CASE q[i] = new
    <3>1. q[i].key = group /\ q[i].value = c
      BY <2>1
    <3> QED BY <1>6, <1>11, <3>1
  <2>2. CASE q[i] # new
    <3>1. PICK j \in DOMAIN s : q[i] = s[j] /\ s[j].key # group
      BY <1>3, <1>8, <2>2
    <3>2. s[j].value = getTotalVotesForGroup(v, s[j].key) + 0
      BY <3>1 DEF ShowsVotes
    <3> QED BY <1>11, <3>1, <3>2
  <2> QED BY <2>1, <2>2
<1>13. ShowsVotes(x, group, e + d)
  BY <1>8, <1>9, <1>12 DEF ShowsVotes
<1> QED BY <1>9, <1>10, <1>13

\* The difference only matters for a group in the list.
LEMMA ShowsAll ==
    ASSUME NEW v \in Votes, NEW group \in Groups, NEW e \in Int
    PROVE  /\ ShowsVotes(v, group, 0) <=> ShowsAllVotes(v)
           /\ ~isEligible(v, group) /\ ShowsVotes(v, group, e) => ShowsAllVotes(v)
<1>1. \A i \in DOMAIN v.eligible : getTotalVotesForGroup(v, v.eligible[i].key) \in Nat
  BY ShownFields, GroupFields
<1>2. \A i \in DOMAIN v.eligible : ~isEligible(v, group) => v.eligible[i].key # group
  BY DEF isEligible, KeySet
<1>3. ShowsVotes(v, group, 0) <=> ShowsAllVotes(v)
  BY <1>1 DEF ShowsVotes, ShowsAllVotes
<1>4. ASSUME ~isEligible(v, group), ShowsVotes(v, group, e) PROVE ShowsAllVotes(v)
  <2>1. \A i \in DOMAIN v.eligible :
           v.eligible[i].value = getTotalVotesForGroup(v, v.eligible[i].key) + 0
    BY <1>2, <1>4 DEF ShowsVotes
  <2> QED BY <1>1, <1>4, <2>1 DEF ShowsVotes, ShowsAllVotes
<1> QED BY <1>3, <1>4

\* decrementTotalVotes makes the list right again, also for a group not in it.
LEMMA TotalVotesDecremented ==
    ASSUME NEW v, NEW group \in Groups, NEW value \in Nat, HalfChanged(v, group, value),
           NEW x \in decrementTotalVotes(v, group, value)
    PROVE  /\ VotesSound(x)
           /\ x.pending = v.pending /\ x.active = v.active /\ x.groupsVotedFor = v.groupsVotedFor
<1>1. v \in Votes /\ Counted(v) /\ ShowsVotes(v, group, value)
  BY DEF HalfChanged, Counted
<1>2. CASE ~isEligible(v, group)
  <2>1. x = v
    BY <1>2 DEF decrementTotalVotes
  <2> QED BY <1>1, <1>2, <2>1, ShowsAll DEF VotesSound
<1>3. CASE isEligible(v, group)
  <2>1. x \in resorted(v, group, -value)
    BY <1>3 DEF decrementTotalVotes
  <2>2. value + (-value) = 0 /\ -value \in Int /\ getTotalVotesForGroup(v, group) + (value + (-value)) \in Nat
    BY <1>1, GroupFields
  <2>3. /\ Counted(x) /\ ShowsVotes(x, group, value + (-value))
        /\ x.pending = v.pending /\ x.active = v.active /\ x.groupsVotedFor = v.groupsVotedFor
    BY <1>1, <1>3, <2>1, <2>2, Resorted
  <2>4. x \in Votes
    BY <2>3 DEF Counted
  <2> QED BY <2>2, <2>3, <2>4, ShowsAll DEF VotesSound
<1> QED BY <1>2, <1>3

\* Units that are not worth a vote are less than those of a vote in a new pool.
LEMMA WorthNothing ==
    ASSUME NEW v, Counted(v), NEW group \in Groups, NEW account \in Accounts,
           getTotalVotesForGroupByAccount(v, group, account) = 0
    PROVE  /\ v.pending.forGroup[group].byAccount[account].value = 0
           /\ v.active.forGroup[group].unitsByAccount[account] < UNIT_PRECISION_FACTOR
<1> DEFINE p == v.pending.forGroup[group].byAccount[account].value
           T == v.active.forGroup[group].total
           U == v.active.forGroup[group].totalUnits
           u == v.active.forGroup[group].unitsByAccount[account]
           a == getActiveVotesForGroupByAccount(v, group, account)
           F == UNIT_PRECISION_FACTOR
<1>1. v \in Votes /\ Summed(v) /\ Priced(v.active.forGroup[group])
  BY DEF Counted
<1>2. p \in Nat /\ T \in Nat /\ U \in Nat /\ u \in Nat /\ u <= U
  BY <1>1, PendingFields, Covered
<1>3. F \in Nat \ {0} /\ (T = 0 <=> U = 0) /\ U <= T * F
  BY <1>1, ElectionAssumption DEF Priced
<1>4. p + a = 0
  BY DEF getTotalVotesForGroupByAccount, getPendingVotesForGroupByAccount
<1>5. a = IF U = 0 THEN 0 ELSE (u * T) \div U
  BY DEF getActiveVotesForGroupByAccount, unitsToVotes
<1> HIDE DEF p, T, U, u, a, F
<1>6. CASE U = 0
  BY <1>2, <1>3, <1>4, <1>5, <1>6 DEF p, u, F
<1>7. CASE U # 0
  <2>1. U \in Nat \ {0} /\ T \in Nat \ {0} /\ a = (u * T) \div U
    BY <1>2, <1>3, <1>5, <1>7
  <2>2. a \in Nat /\ u * T < a * U + U
    BY <1>2, <2>1, WorthOfUnits
  <2>3. p = 0 /\ a = 0
    BY <1>2, <1>4, <2>2
  <2>4. u * T < U
    BY <2>2, <2>3, <1>2
  <2>5. u * T < F * T
    <3>1. T * F = F * T /\ u * T \in Int /\ F * T \in Int
      BY <1>2, <1>3
    <3> QED BY <1>2, <1>3, <2>4, <3>1
  <2>6. u < F
    BY <1>2, <1>3, <2>1, <2>5, ProductCancels
  <2> QED BY <2>3, <2>6 DEF p, u, F
<1> QED BY <1>6, <1>7

SetGroupsVotedFor(v, account, q) == [v EXCEPT !.groupsVotedFor[account] = q]

\* Assigning an account's list of groups changes nothing else.
LEMMA GroupsVotedForSet ==
    ASSUME NEW v \in Votes, NEW account \in Accounts, NEW q \in Seq(Groups),
           NEW w, w = SetGroupsVotedFor(v, account, q)
    PROVE  /\ w \in Votes /\ w.groupsVotedFor[account] = q
           /\ \A a \in Accounts \ {account} : w.groupsVotedFor[a] = v.groupsVotedFor[a]
           /\ w.pending = v.pending /\ w.active = v.active /\ w.eligible = v.eligible
<1> DEFINE f == [v.groupsVotedFor EXCEPT ![account] = q]
<1>1. w = [v EXCEPT !.groupsVotedFor = f]
  BY DEF SetGroupsVotedFor
<1>2. /\ f \in [Accounts -> Seq(Groups)] /\ f[account] = q
      /\ \A a \in Accounts \ {account} : f[a] = v.groupsVotedFor[a]
  BY DEF Votes
<1> HIDE DEF f
<1> QED BY <1>1, <1>2 DEF Votes

\* The account's list loses the group and keeps the others.
LEMMA GroupDeleted ==
    ASSUME NEW v, VotesSound(v), NEW group \in Groups, NEW account \in Accounts,
           Lists(v, account, group),
           getTotalVotesForGroupByAccount(v, group, account) = 0,
           NEW w, w = deleteGroupVotedFor(v, account, group)
    PROVE  /\ VotesSound(w)
           /\ w.pending = v.pending /\ w.active = v.active
           /\ \A a \in Accounts, g \in Groups : g # group => (Lists(w, a, g) <=> Lists(v, a, g))
<1> DEFINE s == v.groupsVotedFor[account]
           k == CHOOSE i \in DOMAIN s : s[i] = group
           q == SwappedOut(s, k)
<1>1. v \in Votes /\ s \in Seq(Groups) /\ ListsVotes(v)
  BY DEF VotesSound, Counted, Votes
<1>2. w = SetGroupsVotedFor(v, account, q)
  BY DEF deleteGroupVotedFor, SwappedOut, SetGroupsVotedFor
<1>3. k \in 1..Len(s) /\ s[k] = group
  <2>1. \E i \in DOMAIN s : s[i] = group
    BY DEF Lists
  <2>2. DOMAIN s = 1..Len(s)
    <3> HIDE DEF s
    <3> QED BY <1>1
  <2> QED BY <2>1, <2>2
<1>4. \A i, j \in DOMAIN s : s[i] = s[j] => i = j
  BY <1>1 DEF ListsVotes
<1> HIDE DEF s, k
<1>5. q \in Seq(Groups)
  BY <1>1, <1>3, SwappedOutElements
<1>6. /\ \A i, j \in DOMAIN q : q[i] = q[j] => i = j
      /\ \A x : (\E i \in DOMAIN q : q[i] = x) <=> x # group /\ \E i \in DOMAIN s : s[i] = x
  <2>1. DOMAIN s = 1..Len(s) /\ DOMAIN q = 1..Len(q)
    <3> HIDE DEF q
    <3> QED BY <1>1, <1>5
  <2>2. HasNoRepeats(q) /\ \A x : Has(q, x) <=> x # s[k] /\ Has(s, x)
    <3>1. HasNoRepeats(s)
      BY <1>4, <2>1 DEF HasNoRepeats
    <3>2. q = SwappedOut(s, k)
      OBVIOUS
    <3> HIDE DEF q
    <3> QED BY <1>1, <1>3, <3>1, <3>2, SwappedOutOfDistinct
  <2> HIDE DEF q
  <2> QED BY <1>3, <2>1, <2>2 DEF HasNoRepeats, Has
<1> HIDE DEF q
<1>7. /\ w \in Votes /\ w.groupsVotedFor[account] = q
      /\ \A a \in Accounts \ {account} : w.groupsVotedFor[a] = v.groupsVotedFor[a]
      /\ w.pending = v.pending /\ w.active = v.active /\ w.eligible = v.eligible
  BY <1>1, <1>2, <1>5, GroupsVotedForSet, Z3
<1>8. \A a \in Accounts, g \in Groups :
         Lists(w, a, g) <=> Lists(v, a, g) /\ ~(a = account /\ g = group)
  <2>1. ASSUME NEW g \in Groups PROVE Lists(w, account, g) <=> g # group /\ Lists(v, account, g)
    <3>1. Lists(w, account, g) <=> \E i \in DOMAIN q : q[i] = g
      BY <1>7 DEF Lists
    <3>2. Lists(v, account, g) <=> \E i \in DOMAIN s : s[i] = g
      BY DEF Lists, s
    <3> QED BY <1>6, <3>1, <3>2
  <2>2. \A a \in Accounts \ {account}, g \in Groups : Lists(w, a, g) <=> Lists(v, a, g)
    BY <1>7 DEF Lists
  <2> QED BY <2>1, <2>2
<1>9. ListsVotes(w)
  <2>1. ASSUME NEW a \in Accounts
        PROVE  \A i, j \in DOMAIN w.groupsVotedFor[a] :
                  w.groupsVotedFor[a][i] = w.groupsVotedFor[a][j] => i = j
    BY <1>1, <1>6, <1>7 DEF ListsVotes
  <2>2. ASSUME NEW a \in Accounts, NEW g \in Groups, ~Lists(w, a, g)
        PROVE  /\ w.pending.forGroup[g].byAccount[a].value = 0
               /\ w.active.forGroup[g].unitsByAccount[a] < UNIT_PRECISION_FACTOR
    <3>1. CASE a = account /\ g = group
      <4>1. Counted(v)
        BY DEF VotesSound
      <4>2. /\ v.pending.forGroup[group].byAccount[account].value = 0
            /\ v.active.forGroup[group].unitsByAccount[account] < UNIT_PRECISION_FACTOR
        BY <4>1, WorthNothing
      <4> QED BY <1>7, <3>1, <4>2
    <3>2. CASE ~(a = account /\ g = group)
      BY <1>1, <1>7, <1>8, <2>2, <3>2 DEF ListsVotes
    <3> QED BY <3>1, <3>2
  <2> QED BY <2>1, <2>2 DEF ListsVotes
<1>10. Counted(w)
  <2>1. Counted(v)
    BY DEF VotesSound
  <2> QED BY <1>7, <1>9, <2>1, CountedKept
<1>11. ShowsAllVotes(w)
  <2>1. \A g : getTotalVotesForGroup(w, g) = getTotalVotesForGroup(v, g)
    BY <1>7 DEF getTotalVotesForGroup
  <2>2. ShowsAllVotes(v)
    BY DEF VotesSound
  <2> QED BY <1>7, <2>1, <2>2 DEF ShowsAllVotes
<1> QED BY <1>7, <1>8, <1>10, <1>11 DEF VotesSound

\* What is left of a revocation after it took value votes of the group.
LEMMA AfterRevocation ==
    ASSUME NEW v, NEW group \in Groups, NEW account \in Accounts, NEW value \in Nat,
           HalfChanged(v, group, value), NEW y \in afterRevocation(v, account, group, value)
    PROVE  /\ VotesSound(y)
           /\ y.pending = v.pending /\ y.active = v.active
           /\ \A a \in Accounts, g \in Groups : g # group => (Lists(y, a, g) <=> Lists(v, a, g))
<1>1. PICK x \in decrementTotalVotes(v, group, value) :
         canDeleteGroup(x, account, group) /\ y = deleteIfNoVotes(x, account, group)
  BY DEF afterRevocation
<1>2. /\ VotesSound(x)
      /\ x.pending = v.pending /\ x.active = v.active /\ x.groupsVotedFor = v.groupsVotedFor
  BY TotalVotesDecremented
<1>3. \A a, g : Lists(x, a, g) <=> Lists(v, a, g)
  BY <1>2 DEF Lists
<1>4. CASE getTotalVotesForGroupByAccount(x, group, account) # 0
  <2>1. y = x
    BY <1>1, <1>4 DEF deleteIfNoVotes
  <2> QED BY <1>2, <1>3, <2>1
<1>5. CASE getTotalVotesForGroupByAccount(x, group, account) = 0
  <2>1. Lists(x, account, group) /\ y = deleteGroupVotedFor(x, account, group)
    BY <1>1, <1>5 DEF canDeleteGroup, deleteIfNoVotes, Lists
  <2>2. /\ VotesSound(y) /\ y.pending = x.pending /\ y.active = x.active
        /\ \A a \in Accounts, g \in Groups : g # group => (Lists(y, a, g) <=> Lists(x, a, g))
    BY <1>2, <1>5, <2>1, GroupDeleted
  <2> QED BY <1>2, <1>3, <2>2
<1> QED BY <1>4, <1>5

\* Taking votes leaves the list to be changed by as many more.
LEMMA PendingTaken ==
    ASSUME NEW v, NEW group \in Groups, NEW account \in Accounts, NEW e \in Int,
           HalfChanged(v, group, e), NEW value \in Nat \ {0},
           value <= getPendingVotesForGroupByAccount(v, group, account),
           NEW w, w = decrementPendingVotes(v, group, account, value)
    PROVE  /\ HalfChanged(w, group, e + value)
           /\ ChangesPending(v, w, group, account, -value)
<1>1. v \in Votes /\ Counted(v) /\ Summed(v) /\ ListsVotes(v) /\ ShowsVotes(v, group, e)
  BY DEF HalfChanged, Counted
<1>2. value <= v.pending.forGroup[group].byAccount[account].value
      /\ v.pending.forGroup[group].byAccount[account].value \in Nat
  BY <1>1, PendingFields DEF getPendingVotesForGroupByAccount
<1>3. ChangesPending(v, w, group, account, -value)
  BY <1>1, <1>2, DecrementPending
<1>4. Lists(v, account, group)
  BY <1>1, <1>2 DEF ListsVotes
<1>5. -value \in Int /\ e - (-value) = e + value
  OBVIOUS
<1>6. Counted(w) /\ ShowsVotes(w, group, e - (-value))
  BY <1>1, <1>3, <1>4, <1>5, PendingKeeps
<1> QED BY <1>3, <1>5, <1>6 DEF HalfChanged

\* The same for active votes.
LEMMA ActiveTaken ==
    ASSUME NEW v, NEW group \in Groups, NEW account \in Accounts, NEW e \in Int,
           HalfChanged(v, group, e), NEW value \in Nat \ {0},
           value <= getActiveVotesForGroupByAccount(v, group, account),
           NEW w, w = decrementActiveVotes(v, group, account, value)
    PROVE  /\ HalfChanged(w, group, e + value)
           /\ \E n \in Nat : ChangesActive(v, w, group, account, -value, -n)
           /\ KeepsPrice(v.active.forGroup[group], w.active.forGroup[group])
<1>1. v \in Votes /\ Counted(v) /\ Summed(v) /\ ShowsVotes(v, group, e)
      /\ Priced(v.active.forGroup[group])
  BY DEF HalfChanged, Counted
<1>2. PICK n \in Nat : /\ ChangesActive(v, w, group, account, -value, -n)
                       /\ Priced(w.active.forGroup[group])
                       /\ KeepsPrice(v.active.forGroup[group], w.active.forGroup[group])
  BY <1>1, DecrementActive
<1>3. -value \in Int /\ -n \in Int /\ -n <= 0 /\ e - (-value) = e + value
  OBVIOUS
<1>4. Counted(w) /\ ShowsVotes(w, group, e - (-value))
  BY <1>1, <1>2, <1>3, ActiveKeeps
<1> QED BY <1>2, <1>3, <1>4 DEF HalfChanged

\* The smaller of two naturals.
LEMMA MinOfTwo ==
    ASSUME NEW x \in Nat, NEW y \in Nat
    PROVE  Min({x, y}) = IF x <= y THEN x ELSE y
<1> QED BY DEF Min

\* What a step of a slash may change: the votes for the one group, which become d less.
Takes(v, w, group, d) ==
    /\ getTotalVotes(w) = getTotalVotes(v) - d
    /\ KeepsPrice(v.active.forGroup[group], w.active.forGroup[group])
    /\ \A g \in Groups \ {group} : /\ w.pending.forGroup[g] = v.pending.forGroup[g]
                                   /\ w.active.forGroup[g] = v.active.forGroup[g]
    /\ \A a \in Accounts, g \in Groups : g # group => (Lists(w, a, g) <=> Lists(v, a, g))

\* What an account has for a group is a natural number.
LEMMA ActiveVotesTyped ==
    ASSUME NEW v, Counted(v), NEW group \in Groups, NEW account \in Accounts
    PROVE  /\ getActiveVotesForGroupByAccount(v, group, account) \in Nat
           /\ getPendingVotesForGroupByAccount(v, group, account) \in Nat
           /\ getTotalVotesForGroupByAccount(v, group, account) \in Nat
           /\ getTotalVotes(v) \in Nat
<1> DEFINE T == v.active.forGroup[group].total
           U == v.active.forGroup[group].totalUnits
           u == v.active.forGroup[group].unitsByAccount[account]
           a == getActiveVotesForGroupByAccount(v, group, account)
<1>1. v \in Votes
  BY DEF Counted
<1>2. T \in Nat /\ U \in Nat /\ u \in Nat /\ getPendingVotesForGroupByAccount(v, group, account) \in Nat
      /\ getTotalVotes(v) \in Nat
  BY <1>1, PendingFields DEF getPendingVotesForGroupByAccount, getTotalVotes
<1>3. a = IF U = 0 THEN 0 ELSE (u * T) \div U
  BY DEF getActiveVotesForGroupByAccount, unitsToVotes
<1> HIDE DEF T, U, u, a
<1>4. a \in Nat
  <2>1. u * T \in Nat
    BY <1>2
  <2> QED BY <1>2, <1>3, <2>1, QuotientBounds
<1>5. getTotalVotesForGroupByAccount(v, group, account)
         = getPendingVotesForGroupByAccount(v, group, account) + a
  BY DEF getTotalVotesForGroupByAccount, a
<1> QED BY <1>2, <1>4, <1>5 DEF a

\* The pending votes and then the active ones, before the group is sorted anew.
pendingTaken(v, account, group, maxValue) ==
    Min({maxValue, getPendingVotesForGroupByAccount(v, group, account)})
withoutPending(v, account, group, maxValue) ==
    IF pendingTaken(v, account, group, maxValue) > 0
    THEN decrementPendingVotes(v, group, account, pendingTaken(v, account, group, maxValue)) ELSE v
activeTaken(v, account, group, maxValue) ==
    Min({maxValue - pendingTaken(v, account, group, maxValue),
         getActiveVotesForGroupByAccount(withoutPending(v, account, group, maxValue), group, account)})
withoutVotes(v, account, group, maxValue) ==
    IF activeTaken(v, account, group, maxValue) > 0
    THEN decrementActiveVotes(withoutPending(v, account, group, maxValue), group, account,
                              activeTaken(v, account, group, maxValue))
    ELSE withoutPending(v, account, group, maxValue)
votesTaken(v, account, group, maxValue) ==
    pendingTaken(v, account, group, maxValue) + activeTaken(v, account, group, maxValue)

\* decrementVotes in terms of these parts.
LEMMA DecrementVotesParts ==
    ASSUME NEW v, NEW account, NEW group, NEW maxValue
    PROVE  decrementVotes(v, account, group, maxValue)
              = {[votes |-> y, remaining |-> maxValue - votesTaken(v, account, group, maxValue)] :
                    y \in IF votesTaken(v, account, group, maxValue) > 0
                          THEN afterRevocation(withoutVotes(v, account, group, maxValue),
                                               account, group, votesTaken(v, account, group, maxValue))
                          ELSE {v}}
BY DEF decrementVotes, pendingTaken, withoutPending, activeTaken, withoutVotes, votesTaken

\* Together the parts take what the account has for the group, or maxValue if that is
\* less.
LEMMA WithoutVotes ==
    ASSUME NEW v, VotesSound(v), NEW group \in Groups, NEW account \in Accounts,
           NEW maxValue \in Nat,
           NEW x, x = withoutVotes(v, account, group, maxValue),
           NEW d, d = votesTaken(v, account, group, maxValue)
    PROVE  LET all == getTotalVotesForGroupByAccount(v, group, account)
           IN  /\ d \in Nat /\ d = IF maxValue <= all THEN maxValue ELSE all
               /\ HalfChanged(x, group, d)
               /\ Takes(v, x, group, d) /\ x.groupsVotedFor = v.groupsVotedFor
<1> DEFINE p == getPendingVotesForGroupByAccount(v, group, account)
           a == getActiveVotesForGroupByAccount(v, group, account)
           pv == pendingTaken(v, account, group, maxValue)
           w == withoutPending(v, account, group, maxValue)
           av == activeTaken(v, account, group, maxValue)
           all == getTotalVotesForGroupByAccount(v, group, account)
<1>1. Counted(v) /\ v \in Votes /\ ShowsAllVotes(v)
  BY DEF VotesSound, Counted
<1>2. HalfChanged(v, group, 0)
  BY <1>1, ShowsAll DEF HalfChanged
<1>3. p \in Nat /\ a \in Nat /\ all = p + a
  BY <1>1, ActiveVotesTyped DEF getTotalVotesForGroupByAccount
<1>4. pv = IF maxValue <= p THEN maxValue ELSE p
  BY <1>3, MinOfTwo DEF pendingTaken
<1>5. pv \in Nat /\ pv <= p /\ pv <= maxValue
  BY <1>3, <1>4
<1>6. w = IF pv > 0 THEN decrementPendingVotes(v, group, account, pv) ELSE v
  BY DEF withoutPending
<1>7. av = Min({maxValue - pv, getActiveVotesForGroupByAccount(w, group, account)})
  BY DEF activeTaken
<1>8. x = IF av > 0 THEN decrementActiveVotes(w, group, account, av) ELSE w
  BY DEF withoutVotes
<1>9. d = pv + av
  BY DEF votesTaken
<1> HIDE DEF pv, w, av
<1>10. /\ HalfChanged(w, group, pv) /\ w.active = v.active
       /\ w.pending.total = v.pending.total - pv
       /\ \A g \in Groups \ {group} : w.pending.forGroup[g] = v.pending.forGroup[g]
       /\ w.groupsVotedFor = v.groupsVotedFor
  <2>1. CASE pv > 0
    <3>1. pv \in Nat \ {0} /\ w = decrementPendingVotes(v, group, account, pv) /\ 0 \in Int
      BY <1>5, <1>6, <2>1
    <3>2. HalfChanged(w, group, 0 + pv) /\ ChangesPending(v, w, group, account, -pv)
      BY <1>2, <1>5, <3>1, PendingTaken
    <3>3. 0 + pv = pv /\ v.pending.total \in Nat
      BY <1>1, <1>5, PendingFields
    <3> QED BY <1>5, <3>2, <3>3 DEF ChangesPending
  <2>2. CASE ~(pv > 0)
    <3>1. pv = 0 /\ w = v /\ v.pending.total \in Nat
      BY <1>1, <1>5, <1>6, <2>2, PendingFields
    <3> QED BY <1>2, <3>1
  <2> QED BY <2>1, <2>2
<1>11. getActiveVotesForGroupByAccount(w, group, account) = a
  BY <1>10 DEF getActiveVotesForGroupByAccount, unitsToVotes
<1>12. av = IF maxValue - pv <= a THEN maxValue - pv ELSE a
  <2>1. maxValue - pv \in Nat
    BY <1>5
  <2> QED BY <1>3, <1>7, <1>11, <2>1, MinOfTwo
<1>13. av \in Nat /\ av <= a
  BY <1>3, <1>5, <1>12
<1>14. d \in Nat /\ d = IF maxValue <= all THEN maxValue ELSE all
  BY <1>3, <1>4, <1>9, <1>12
<1>15. /\ HalfChanged(x, group, d)
       /\ x.pending = w.pending /\ x.active.total = v.active.total - av
       /\ KeepsPrice(v.active.forGroup[group], x.active.forGroup[group])
       /\ \A g \in Groups \ {group} : x.active.forGroup[g] = v.active.forGroup[g]
       /\ x.groupsVotedFor = v.groupsVotedFor
  <2>1. CASE av > 0
    <3>1. av \in Nat \ {0} /\ x = decrementActiveVotes(w, group, account, av) /\ pv \in Int
      BY <1>5, <1>8, <1>13, <2>1
    <3>2. /\ HalfChanged(x, group, pv + av)
          /\ \E n \in Nat : ChangesActive(w, x, group, account, -av, -n)
          /\ KeepsPrice(w.active.forGroup[group], x.active.forGroup[group])
      BY <1>10, <1>11, <1>13, <3>1, ActiveTaken
    <3>3. v.active.total \in Nat
      BY <1>1, PendingFields
    <3>4. /\ x.active.total = w.active.total + (-av)
          /\ x.pending = w.pending /\ x.groupsVotedFor = w.groupsVotedFor
          /\ \A g \in Groups \ {group} : x.active.forGroup[g] = w.active.forGroup[g]
      BY <3>2 DEF ChangesActive
    <3> QED BY <1>9, <1>10, <1>13, <3>2, <3>3, <3>4
  <2>2. CASE ~(av > 0)
    <3>1. av = 0 /\ x = w /\ d = pv /\ v.active.total \in Nat
      BY <1>1, <1>5, <1>8, <1>9, <1>13, <2>2, PendingFields
    <3>2. KeepsPrice(v.active.forGroup[group], x.active.forGroup[group])
      BY <1>1, <1>10, <3>1, PriceStays
    <3> QED BY <1>10, <3>1, <3>2
  <2> QED BY <2>1, <2>2
<1>16. Takes(v, x, group, d)
  <2>1. getTotalVotes(x) = getTotalVotes(v) - d
    <3>1. v.pending.total \in Nat /\ v.active.total \in Nat
      BY <1>1, PendingFields
    <3> QED BY <1>5, <1>9, <1>10, <1>13, <1>15, <3>1 DEF getTotalVotes
  <2>2. \A b \in Accounts, g \in Groups : Lists(x, b, g) <=> Lists(v, b, g)
    BY <1>15 DEF Lists
  <2> QED BY <1>10, <1>15, <2>1, <2>2 DEF Takes
<1> QED BY <1>14, <1>15, <1>16

\* So does decrementVotes, and it leaves the votes sound and the other groups alone.
LEMMA DecrementVotesOutcome ==
    ASSUME NEW v, VotesSound(v), NEW group \in Groups, NEW account \in Accounts,
           NEW maxValue \in Nat, NEW o \in decrementVotes(v, account, group, maxValue)
    PROVE  LET all == getTotalVotesForGroupByAccount(v, group, account)
           IN  /\ VotesSound(o.votes)
               /\ o.remaining = IF maxValue <= all THEN 0 ELSE maxValue - all
               /\ Takes(v, o.votes, group, maxValue - o.remaining)
<1> DEFINE x == withoutVotes(v, account, group, maxValue)
           d == votesTaken(v, account, group, maxValue)
           all == getTotalVotesForGroupByAccount(v, group, account)
<1>1. x = withoutVotes(v, account, group, maxValue) /\ d = votesTaken(v, account, group, maxValue)
  OBVIOUS
<1>2. PICK y \in IF d > 0 THEN afterRevocation(x, account, group, d) ELSE {v} :
         o = [votes |-> y, remaining |-> maxValue - d]
  BY DecrementVotesParts
<1>3. o.votes = y /\ o.remaining = maxValue - d
  BY <1>2
<1> HIDE DEF x, d
<1>4. /\ d \in Nat /\ d = IF maxValue <= all THEN maxValue ELSE all
      /\ HalfChanged(x, group, d)
      /\ Takes(v, x, group, d) /\ x.groupsVotedFor = v.groupsVotedFor
  BY <1>1, WithoutVotes
<1>5. all \in Nat /\ getTotalVotes(v) \in Nat
  BY ActiveVotesTyped DEF VotesSound
<1>6. o.remaining = (IF maxValue <= all THEN 0 ELSE maxValue - all) /\ maxValue - o.remaining = d
  BY <1>3, <1>4, <1>5
<1>7. CASE d > 0
  <2>1. /\ VotesSound(y) /\ y.pending = x.pending /\ y.active = x.active
        /\ \A a \in Accounts, g \in Groups : g # group => (Lists(y, a, g) <=> Lists(x, a, g))
    BY <1>2, <1>4, <1>7, AfterRevocation
  <2>2. Takes(v, y, group, d)
    BY <1>4, <2>1 DEF Takes, getTotalVotes
  <2> QED BY <1>3, <1>6, <2>1, <2>2
<1>8. CASE ~(d > 0)
  <2>1. d = 0 /\ y = v
    BY <1>2, <1>4, <1>8
  <2>2. Takes(v, y, group, d)
    BY <1>5, <2>1, PriceStays DEF Takes, VotesSound
  <2> QED BY <1>3, <1>6, <2>1, <2>2
<1> QED BY <1>7, <1>8

\* The hints lead to some place, and a listed group can be struck off.
LEMMA ResortedExists ==
    ASSUME NEW v, Counted(v), NEW group \in Groups, NEW e \in Int, ShowsVotes(v, group, e),
           isEligible(v, group), NEW d \in Int, getTotalVotesForGroup(v, group) + (e + d) \in Nat
    PROVE  resorted(v, group, d) # {}
<1> DEFINE s == v.eligible
           t == Without(s, group)
           c == getValue(s, group) + d
<1>1. v \in Votes /\ s \in Seq(Shown) /\ Sorted(s) /\ DistinctKeys(s) /\ group \in KeySet(s)
  BY ShownFields DEF Counted, ShowsVotes, isEligible
<1>2. t \in Seq(Shown) /\ Sorted(t)
  BY <1>1, WithoutProperties
<1>3. getTotalVotesForGroup(v, group) \in Nat
  BY <1>1, GroupFields
<1>4. getValue(s, group) = getTotalVotesForGroup(v, group) + e
  <2> DEFINE p == Position(s, group)
  <2>1. p \in DOMAIN s /\ s[p].key = group /\ getValue(s, group) = s[p].value
    BY <1>1, PositionOfKey
  <2> HIDE DEF p
  <2> QED BY <2>1 DEF ShowsVotes
<1>5. c \in Nat
  BY <1>3, <1>4
<1>6. [key |-> group, value |-> c] \in Shown
  BY <1>5 DEF Shown
<1>7. \A i \in DOMAIN t : t[i].value \in Int
  <2> HIDE DEF t
  <2>1. DOMAIN t = 1..Len(t) /\ \A i \in 1..Len(t) : t[i] \in Shown
    BY <1>2
  <2> QED BY <2>1 DEF Shown
<1>8. Placements(t, group, c) # {}
  <2> HIDE DEF t, c
  <2> QED BY <1>2, <1>5, <1>6, <1>7, PlacementExists
<1> QED BY <1>8 DEF resorted

\* decrementVotes does not revert for a listed group.
LEMMA DecrementVotesExists ==
    ASSUME NEW v, VotesSound(v), NEW group \in Groups, NEW account \in Accounts,
           NEW maxValue \in Nat, Lists(v, account, group)
    PROVE  decrementVotes(v, account, group, maxValue) # {}
<1> DEFINE x == withoutVotes(v, account, group, maxValue)
           d == votesTaken(v, account, group, maxValue)
<1>1. x = withoutVotes(v, account, group, maxValue) /\ d = votesTaken(v, account, group, maxValue)
  OBVIOUS
<1> HIDE DEF x, d
<1>2. d \in Nat /\ HalfChanged(x, group, d) /\ x.groupsVotedFor = v.groupsVotedFor
  BY <1>1, WithoutVotes
<1>3. CASE d > 0
  <2>1. decrementTotalVotes(x, group, d) # {}
    <3>1. CASE isEligible(x, group)
      <4>1. x \in Votes /\ Counted(x) /\ ShowsVotes(x, group, d)
        BY <1>2 DEF HalfChanged, Counted
      <4>2. d \in Int /\ -d \in Int /\ getTotalVotesForGroup(x, group) + (d + (-d)) \in Nat
        BY <1>2, <4>1, GroupFields
      <4>3. resorted(x, group, -d) # {}
        BY <3>1, <4>1, <4>2, ResortedExists
      <4> QED BY <3>1, <4>3 DEF decrementTotalVotes
    <3>2. CASE ~isEligible(x, group)
      BY <3>2 DEF decrementTotalVotes
    <3> QED BY <3>1, <3>2
  <2>2. PICK z : z \in decrementTotalVotes(x, group, d)
    BY <2>1
  <2>3. z.groupsVotedFor = x.groupsVotedFor
    BY <1>2, <2>2, TotalVotesDecremented
  <2>4. canDeleteGroup(z, account, group)
    BY <1>2, <2>3 DEF canDeleteGroup, Lists
  <2>5. deleteIfNoVotes(z, account, group) \in afterRevocation(x, account, group, d)
    BY <2>2, <2>4 DEF afterRevocation
  <2> QED BY <1>1, <1>3, <2>5, DecrementVotesParts
<1>4. CASE ~(d > 0)
  BY <1>1, <1>4, DecrementVotesParts
<1> QED BY <1>3, <1>4

-----------------------------------------------------------------------------
(***************************************************************************)
(* The loop of forceDecrementVotes                                         *)
(***************************************************************************)

\* What the n-th pass, over the n-th group from the end, makes of the outcomes so far.
Pass(v, account, n, outcomes) ==
    UNION {decrementFurther(account, v.groupsVotedFor[account][Len(v.groupsVotedFor[account]) - n + 1], o) :
              o \in outcomes}

Runs(v, account, value, m, it) ==
    it = [n \in 0..m |-> IF n = 0 THEN {[votes |-> v, remaining |-> value]}
                                  ELSE Pass(v, account, n, it[n - 1])]

\* The outcomes of the loop are a well-defined recursive function.
LEMMA RunsExist ==
    ASSUME NEW v, NEW account, NEW value, NEW L \in Nat
    PROVE  \E it : Runs(v, account, value, L, it)
<1> DEFINE Good == {m \in 0..L : \E it : Runs(v, account, value, m, it)}
<1>1. 0 \in Good
  <2> DEFINE it == [n \in 0..0 |-> {[votes |-> v, remaining |-> value]}]
  <2>1. Runs(v, account, value, 0, it)
    BY DEF Runs
  <2>2. 0 \in 0..L
    OBVIOUS
  <2> HIDE DEF it
  <2> QED BY <2>1, <2>2
<1>2. ASSUME NEW m \in 0..L - 1, m \in Good PROVE m + 1 \in Good
  <2>1. PICK it : Runs(v, account, value, m, it)
    BY <1>2
  <2> DEFINE jt == [n \in 0..m + 1 |-> IF n <= m THEN it[n] ELSE Pass(v, account, m + 1, it[m])]
  <2>2. \A n \in 0..m : it[n] = IF n = 0 THEN {[votes |-> v, remaining |-> value]}
                                ELSE Pass(v, account, n, it[n - 1])
    BY <2>1 DEF Runs
  <2>3. ASSUME NEW n \in 0..m + 1
        PROVE  jt[n] = IF n = 0 THEN {[votes |-> v, remaining |-> value]}
                                ELSE Pass(v, account, n, jt[n - 1])
    <3>1. CASE n <= m
      <4>1. n \in 0..m /\ jt[n] = it[n] /\ (n # 0 => n - 1 \in 0..m + 1 /\ n - 1 <= m)
        BY <3>1
      <4>2. n # 0 => jt[n - 1] = it[n - 1]
        BY <4>1
      <4> QED BY <2>2, <4>1, <4>2
    <3>2. CASE ~(n <= m)
      <4>1. n = m + 1 /\ n # 0 /\ n - 1 = m /\ m \in 0..m + 1 /\ m <= m
        BY <3>2
      <4>2. jt[n] = Pass(v, account, m + 1, it[m]) /\ jt[m] = it[m]
        BY <3>2, <4>1
      <4> QED BY <4>1, <4>2
    <3> QED BY <3>1, <3>2
  <2>4. jt = [n \in 0..m + 1 |-> jt[n]]
    OBVIOUS
  <2> HIDE DEF jt
  <2>5. jt = [n \in 0..m + 1 |-> IF n = 0 THEN {[votes |-> v, remaining |-> value]}
                                          ELSE Pass(v, account, n, jt[n - 1])]
    BY <2>3, <2>4
  <2>6. Runs(v, account, value, m + 1, jt)
    BY <2>5, Zenon DEF Runs
  <2>7. m + 1 \in 0..L
    OBVIOUS
  <2> QED BY <2>6, <2>7
<1>3. L \in Good
  <2> HIDE DEF Good
  <2> QED BY <1>1, <1>2, UpTo
<1> QED BY <1>3

Finished(outcomes) == {o.votes : o \in {p \in outcomes : p.remaining = 0}}

\* forceDecrementVotes is one pass for each of the account's groups, from the last to
\* the first.
LEMMA ForceDecrementVotesPasses ==
    ASSUME NEW v \in Votes, NEW account \in Accounts, NEW value,
           NEW L, L = Len(v.groupsVotedFor[account])
    PROVE  \E it : /\ it[0] = {[votes |-> v, remaining |-> value]}
                   /\ \A n \in 1..L : it[n] = Pass(v, account, n, it[n - 1])
                   /\ forceDecrementVotes(v, account, value) = Finished(it[L])
<1> DEFINE R == CHOOSE it : Runs(v, account, value, L, it)
<1>1. L \in Nat
  <2>1. v.groupsVotedFor[account] \in Seq(Groups)
    BY DEF Votes
  <2> QED BY <2>1
<1>2. Runs(v, account, value, L, R)
  BY <1>1, RunsExist
<1>3. forceDecrementVotes(v, account, value) = Finished(R[L])
  BY DEF forceDecrementVotes, groupsToDecrement, Runs, Pass, Finished
<1> HIDE DEF R
<1>4. \A n \in 0..L : R[n] = IF n = 0 THEN {[votes |-> v, remaining |-> value]}
                             ELSE Pass(v, account, n, R[n - 1])
  BY <1>2 DEF Runs
<1>5. R[0] = {[votes |-> v, remaining |-> value]} /\ \A n \in 1..L : R[n] = Pass(v, account, n, R[n - 1])
  BY <1>1, <1>4
<1> QED BY <1>3, <1>5

VotesAt(v, account) ==
    [i \in DOMAIN v.groupsVotedFor[account] |->
        getTotalVotesForGroupByAccount(v, v.groupsVotedFor[account][i], account)]

\* The votes an account has for the last n of its groups.
LastVotes(v, account, n) ==
    SumFunctionOnSet(VotesAt(v, account),
                     Len(v.groupsVotedFor[account]) - n + 1..Len(v.groupsVotedFor[account]))

\* What has become of the votes v after n passes: value was taken from the last n groups,
\* as far as they go, and the others are as they were.
AfterPasses(v, account, value, n, o) ==
    LET groups == v.groupsVotedFor[account]
        taken  == LastVotes(v, account, n)
    IN  /\ VotesSound(o.votes)
        /\ o.remaining = IF value <= taken THEN 0 ELSE value - taken
        /\ getTotalVotes(o.votes) = getTotalVotes(v) - (value - o.remaining)
        /\ KeepsPrices(v, o.votes)
        /\ \A i \in 1..Len(groups) - n :
              /\ o.votes.pending.forGroup[groups[i]] = v.pending.forGroup[groups[i]]
              /\ o.votes.active.forGroup[groups[i]] = v.active.forGroup[groups[i]]
              /\ Lists(o.votes, account, groups[i])

\* An account's list of groups has no repeats, and each has votes that are counted.
LEMMA GroupsOf ==
    ASSUME NEW v, Counted(v), NEW account \in Accounts, NEW groups, groups = v.groupsVotedFor[account]
    PROVE  /\ groups \in Seq(Groups) /\ Len(groups) \in Nat /\ DOMAIN groups = 1..Len(groups)
           /\ \A i \in 1..Len(groups) : groups[i] \in Groups /\ Lists(v, account, groups[i])
           /\ \A i, j \in 1..Len(groups) : groups[i] = groups[j] => i = j
           /\ VotesAt(v, account) \in [1..Len(groups) -> Nat]
           /\ IsFiniteSet(1..Len(groups))
<1>1. groups \in Seq(Groups) /\ ListsVotes(v)
  BY DEF Counted, Votes
<1>2. Len(groups) \in Nat /\ DOMAIN groups = 1..Len(groups) /\ \A i \in 1..Len(groups) : groups[i] \in Groups
  BY <1>1
<1>3. \A i \in 1..Len(groups) : Lists(v, account, groups[i])
  BY <1>2 DEF Lists
<1>4. \A i, j \in 1..Len(groups) : groups[i] = groups[j] => i = j
  BY <1>1, <1>2 DEF ListsVotes
<1>5. VotesAt(v, account) \in [1..Len(groups) -> Nat]
  <2>1. \A i \in 1..Len(groups) : getTotalVotesForGroupByAccount(v, groups[i], account) \in Nat
    BY <1>2, ActiveVotesTyped
  <2> QED BY <1>2, <2>1 DEF VotesAt
<1>6. IsFiniteSet(1..Len(groups))
  BY <1>2, FS_Interval
<1> QED BY <1>1, <1>2, <1>3, <1>4, <1>5, <1>6

\* The votes for the last n groups, added up one group at a time.
LEMMA LastVotesSum ==
    ASSUME NEW v, Counted(v), NEW account \in Accounts, NEW L, L = Len(v.groupsVotedFor[account])
    PROVE  /\ LastVotes(v, account, 0) = 0
           /\ LastVotes(v, account, L) = getTotalVotesByAccount(v, account)
           /\ \A n \in 0..L : LastVotes(v, account, n) \in Nat
           /\ \A n \in 1..L : \A k : k = L - n + 1 =>
                 LastVotes(v, account, n) = LastVotes(v, account, n - 1) + VotesAt(v, account)[k]
<1> DEFINE f == VotesAt(v, account)
<1>1. L \in Nat /\ f \in [1..L -> Nat] /\ IsFiniteSet(1..L) /\ DOMAIN v.groupsVotedFor[account] = 1..L
  BY GroupsOf
<1>2. \A n : LastVotes(v, account, n) = SumFunctionOnSet(f, L - n + 1..L)
  BY DEF LastVotes
<1>3. getTotalVotesByAccount(v, account) = SumFunction(f)
  BY DEF getTotalVotesByAccount, VotesAt
<1> HIDE DEF f
<1>4. SumFunction(f) = SumFunctionOnSet(f, 1..L)
  BY <1>1, SumOfAll
<1>5. LastVotes(v, account, 0) = 0
  <2>1. L - 0 + 1..L = {}
    BY <1>1
  <2> QED BY <1>2, <2>1, SumEmpty
<1>6. LastVotes(v, account, L) = getTotalVotesByAccount(v, account)
  <2>1. L - L + 1..L = 1..L
    BY <1>1
  <2> QED BY <1>2, <1>3, <1>4, <2>1
<1>7. ASSUME NEW n \in 0..L PROVE LastVotes(v, account, n) \in Nat
  <2> DEFINE S == L - n + 1..L
  <2>1. IsFiniteSet(S)
    BY <1>1, FS_Interval
  <2>2. \A i \in S : f[i] \in Nat /\ f[i] \in Int
    BY <1>1
  <2>3. LastVotes(v, account, n) = SumFunctionOnSet(f, S)
    BY <1>2
  <2> HIDE DEF S
  <2> QED BY <2>1, <2>2, <2>3, SumType
<1>8. ASSUME NEW n \in 1..L
      PROVE  LastVotes(v, account, n) = LastVotes(v, account, n - 1) + f[L - n + 1]
  <2> DEFINE k == L - n + 1
             S == L - (n - 1) + 1..L
  <2>1. k \in 1..L /\ k \notin S /\ L - n + 1..L = S \cup {k} /\ S \subseteq 1..L
    BY <1>1
  <2>2. IsFiniteSet(S) /\ \A i \in S \cup {k} : f[i] \in Int
    <3>1. IsFiniteSet(S)
      BY <1>1, <2>1, FS_Subset
    <3> QED BY <1>1, <2>1, <3>1
  <2> HIDE DEF k, S
  <2>3. SumFunctionOnSet(f, S \cup {k}) = f[k] + SumFunctionOnSet(f, S)
    BY <2>1, <2>2, SumAdd
  <2>4. f[k] \in Int /\ SumFunctionOnSet(f, S) \in Int
    BY <2>2, SumType
  <2>5. LastVotes(v, account, n) = SumFunctionOnSet(f, S \cup {k})
        /\ LastVotes(v, account, n - 1) = SumFunctionOnSet(f, S)
    BY <1>2, <2>1 DEF S
  <2>6. LastVotes(v, account, n) = LastVotes(v, account, n - 1) + f[k]
    BY <2>3, <2>4, <2>5
  <2> QED BY <2>6 DEF k
<1> QED BY <1>5, <1>6, <1>7, <1>8 DEF f

\* One pass of the loop, which takes what is left to take from one more group.
LEMMA OnePass ==
    ASSUME NEW v, VotesSound(v), NEW account \in Accounts, NEW value \in Nat,
           NEW n \in 1..Len(v.groupsVotedFor[account]), NEW o, AfterPasses(v, account, value, n - 1, o),
           NEW group, group = v.groupsVotedFor[account][Len(v.groupsVotedFor[account]) - n + 1]
    PROVE  /\ decrementFurther(account, group, o) # {}
           /\ \A q \in decrementFurther(account, group, o) : AfterPasses(v, account, value, n, q)
<1> DEFINE groups == v.groupsVotedFor[account]
           L == Len(groups)
           k == L - n + 1
           before == LastVotes(v, account, n - 1)
           after == LastVotes(v, account, n)
           own == getTotalVotesForGroupByAccount(v, group, account)
<1>1. Counted(v)
  BY DEF VotesSound
<1>2. /\ L \in Nat /\ DOMAIN groups = 1..L
      /\ \A i \in 1..L : groups[i] \in Groups
      /\ \A i, j \in 1..L : groups[i] = groups[j] => i = j
  BY <1>1, GroupsOf
<1>3. k \in 1..L /\ group = groups[k] /\ L - (n - 1) = k /\ L - n = k - 1
  BY <1>2
<1>4. group \in Groups
  BY <1>2, <1>3
<1>5. own \in Nat
  BY <1>1, <1>4, ActiveVotesTyped
<1>6. before \in Nat /\ after = before + own
  <2>1. \A m \in 0..L : LastVotes(v, account, m) \in Nat
    BY <1>1, LastVotesSum
  <2>2. n - 1 \in 0..L
    BY <1>2
  <2>3. LastVotes(v, account, n) = LastVotes(v, account, n - 1) + VotesAt(v, account)[k]
    <3>1. k = L - n + 1 /\ L = Len(v.groupsVotedFor[account]) /\ n \in 1..L
      OBVIOUS
    <3> HIDE DEF k, L
    <3> QED BY <1>1, <3>1, LastVotesSum, Z3T(30)
  <2>4. VotesAt(v, account)[k] = own
    BY <1>2, <1>3 DEF VotesAt
  <2> QED BY <2>1, <2>2, <2>3, <2>4
<1>7. /\ VotesSound(o.votes)
      /\ o.remaining = IF value <= before THEN 0 ELSE value - before
      /\ getTotalVotes(o.votes) = getTotalVotes(v) - (value - o.remaining)
      /\ KeepsPrices(v, o.votes)
      /\ \A i \in 1..k :
            /\ o.votes.pending.forGroup[groups[i]] = v.pending.forGroup[groups[i]]
            /\ o.votes.active.forGroup[groups[i]] = v.active.forGroup[groups[i]]
            /\ Lists(o.votes, account, groups[i])
  BY <1>3 DEF AfterPasses
<1> HIDE DEF groups, L, k, before, after, own
<1>8. o.remaining \in Nat /\ getTotalVotes(v) \in Nat
  BY <1>1, <1>4, <1>6, <1>7, ActiveVotesTyped
<1>9. \A i \in 1..k - 1 : i \in 1..k /\ groups[i] \in Groups /\ groups[i] # group
  BY <1>2, <1>3
<1>10. /\ Lists(o.votes, account, group)
       /\ getTotalVotesForGroupByAccount(o.votes, group, account) = own
       /\ o.votes.active.forGroup[group] = v.active.forGroup[group]
  <2>1. k \in 1..k
    BY <1>2, <1>3
  <2>2. /\ o.votes.pending.forGroup[group] = v.pending.forGroup[group]
        /\ o.votes.active.forGroup[group] = v.active.forGroup[group]
        /\ Lists(o.votes, account, group)
    BY <1>3, <1>7, <2>1
  <2> QED BY <2>2 DEF own, getTotalVotesForGroupByAccount, getPendingVotesForGroupByAccount,
                      getActiveVotesForGroupByAccount, unitsToVotes
<1>11. \A q : AfterPasses(v, account, value, n, q) <=>
          /\ VotesSound(q.votes)
          /\ q.remaining = IF value <= after THEN 0 ELSE value - after
          /\ getTotalVotes(q.votes) = getTotalVotes(v) - (value - q.remaining)
          /\ KeepsPrices(v, q.votes)
          /\ \A i \in 1..k - 1 :
                /\ q.votes.pending.forGroup[groups[i]] = v.pending.forGroup[groups[i]]
                /\ q.votes.active.forGroup[groups[i]] = v.active.forGroup[groups[i]]
                /\ Lists(q.votes, account, groups[i])
  BY <1>3 DEF AfterPasses, groups, L, after
<1>12. CASE o.remaining = 0
  <2>1. decrementFurther(account, group, o) = {o}
    BY <1>12 DEF decrementFurther
  <2>2. o.remaining = IF value <= after THEN 0 ELSE value - after
    BY <1>5, <1>6, <1>7, <1>12
  <2>3. AfterPasses(v, account, value, n, o)
    BY <1>7, <1>9, <1>11, <2>2
  <2> QED BY <2>1, <2>3
<1>13. CASE o.remaining # 0
  <2>1. decrementFurther(account, group, o) = decrementVotes(o.votes, account, group, o.remaining)
    BY <1>13 DEF decrementFurther
  <2>2. VotesSound(o.votes) /\ o.remaining \in Nat /\ Lists(o.votes, account, group)
    BY <1>7, <1>8, <1>10
  <2>3. decrementFurther(account, group, o) # {}
    BY <1>4, <2>1, <2>2, DecrementVotesExists
  <2>4. ASSUME NEW q \in decrementFurther(account, group, o)
        PROVE  AfterPasses(v, account, value, n, q)
    <3>1. /\ VotesSound(q.votes)
          /\ q.remaining = IF o.remaining <= own THEN 0 ELSE o.remaining - own
          /\ Takes(o.votes, q.votes, group, o.remaining - q.remaining)
      <4>1. q \in decrementVotes(o.votes, account, group, o.remaining)
        BY <2>1
      <4> QED BY <1>4, <1>10, <2>2, <4>1, DecrementVotesOutcome
    <3>2. q.remaining = IF value <= after THEN 0 ELSE value - after
      <4>1. o.remaining = value - before
        BY <1>7, <1>13
      <4>2. o.remaining <= own <=> value <= after
        BY <1>5, <1>6, <4>1
      <4>3. o.remaining - own = value - after
        BY <1>5, <1>6, <4>1
      <4> QED BY <3>1, <4>2, <4>3
    <3>3. getTotalVotes(q.votes) = getTotalVotes(o.votes) - (o.remaining - q.remaining)
      BY <3>1 DEF Takes
    <3>4. q.remaining \in Int
      BY <1>5, <1>8, <3>1
    <3>5. getTotalVotes(q.votes) = getTotalVotes(v) - (value - q.remaining)
      BY <1>7, <1>8, <3>3, <3>4
    <3>6. ASSUME NEW i \in 1..k - 1
          PROVE  /\ q.votes.pending.forGroup[groups[i]] = v.pending.forGroup[groups[i]]
                 /\ q.votes.active.forGroup[groups[i]] = v.active.forGroup[groups[i]]
                 /\ Lists(q.votes, account, groups[i])
      <4>1. groups[i] \in Groups \ {group} /\ i \in 1..k
        BY <1>9
      <4>2. /\ q.votes.pending.forGroup[groups[i]] = o.votes.pending.forGroup[groups[i]]
            /\ q.votes.active.forGroup[groups[i]] = o.votes.active.forGroup[groups[i]]
            /\ Lists(q.votes, account, groups[i]) <=> Lists(o.votes, account, groups[i])
        BY <3>1, <4>1 DEF Takes
      <4> QED BY <1>7, <4>1, <4>2
    <3>7. KeepsPrices(v, q.votes)
      <4>1. ASSUME NEW g \in Groups
            PROVE  KeepsPrice(v.active.forGroup[g], q.votes.active.forGroup[g])
        <5>1. CASE g = group
          BY <1>10, <3>1, <5>1 DEF Takes
        <5>2. CASE g # group
          BY <1>7, <3>1, <5>2 DEF Takes, KeepsPrices
        <5> QED BY <5>1, <5>2
      <4> QED BY <4>1 DEF KeepsPrices
    <3> QED BY <1>11, <3>1, <3>2, <3>5, <3>6, <3>7
  <2> QED BY <2>3, <2>4
<1> QED BY <1>12, <1>13

\* forceDecrementVotes takes the value exactly, and can when the account has the votes.
LEMMA ForceDecrementVotes ==
    ASSUME NEW v, VotesSound(v), NEW account \in Accounts, NEW value \in Nat
    PROVE  /\ \A w \in forceDecrementVotes(v, account, value) :
                 /\ VotesSound(w) /\ getTotalVotes(w) = getTotalVotes(v) - value
                 /\ KeepsPrices(v, w)
           /\ value <= getTotalVotesByAccount(v, account)
                 => forceDecrementVotes(v, account, value) # {}
<1> DEFINE groups == v.groupsVotedFor[account]
           L == Len(groups)
<1>1. Counted(v) /\ v \in Votes
  BY DEF VotesSound, Counted
<1>2. L \in Nat /\ \A i \in 1..L : groups[i] \in Groups /\ Lists(v, account, groups[i])
  BY <1>1, GroupsOf
<1>3. PICK it : /\ it[0] = {[votes |-> v, remaining |-> value]}
                /\ \A n \in 1..L : it[n] = Pass(v, account, n, it[n - 1])
                /\ forceDecrementVotes(v, account, value) = Finished(it[L])
  <2>1. L = Len(v.groupsVotedFor[account])
    OBVIOUS
  <2> HIDE DEF L
  <2> QED BY <1>1, <2>1, ForceDecrementVotesPasses
<1> DEFINE Good == {n \in 0..L : it[n] # {} /\ \A o \in it[n] : AfterPasses(v, account, value, n, o)}
<1>4. LastVotes(v, account, 0) = 0 /\ LastVotes(v, account, L) = getTotalVotesByAccount(v, account)
      /\ LastVotes(v, account, L) \in Nat
  <2>1. \A n \in 0..L : LastVotes(v, account, n) \in Nat
    BY <1>1, LastVotesSum
  <2>2. L \in 0..L
    BY <1>2
  <2> QED BY <1>1, <2>1, <2>2, LastVotesSum
<1>5. 0 \in Good
  <2> DEFINE o == [votes |-> v, remaining |-> value]
  <2>1. o.votes = v /\ o.remaining = value
    OBVIOUS
  <2> HIDE DEF o
  <2>2. getTotalVotes(v) \in Int
    BY <1>1, TotalFields
  <2>3. o.remaining = IF value <= LastVotes(v, account, 0) THEN 0 ELSE value - LastVotes(v, account, 0)
    BY <1>4, <2>1
  <2>4. \A i \in 1..Len(v.groupsVotedFor[account]) - 0 : Lists(v, account, v.groupsVotedFor[account][i])
    BY <1>2
  <2>5. AfterPasses(v, account, value, 0, o)
    <3>1. KeepsPrices(v, v)
      BY <1>1, PriceStays DEF KeepsPrices
    <3> QED BY <2>1, <2>2, <2>3, <2>4, <3>1 DEF AfterPasses
  <2>6. it[0] = {o} /\ 0 \in 0..L
    BY <1>2, <1>3 DEF o
  <2> QED BY <2>5, <2>6
<1>6. ASSUME NEW m \in 0..L - 1, m \in Good PROVE m + 1 \in Good
  <2> DEFINE group == groups[L - (m + 1) + 1]
  <2>1. m + 1 \in 1..L /\ m + 1 \in 0..L /\ m + 1 - 1 = m
    BY <1>2
  <2>2. it[m + 1] = UNION {decrementFurther(account, group, o) : o \in it[m]}
    <3>1. it[m + 1] = Pass(v, account, m + 1, it[m])
      BY <1>3, <2>1
    <3> QED BY <3>1 DEF Pass
  <2>3. it[m] # {} /\ \A o \in it[m] : AfterPasses(v, account, value, m, o)
    BY <1>6
  <2>4. ASSUME NEW o \in it[m]
        PROVE  /\ decrementFurther(account, group, o) # {}
               /\ \A q \in decrementFurther(account, group, o) : AfterPasses(v, account, value, m + 1, q)
    <3>1. AfterPasses(v, account, value, m + 1 - 1, o)
      BY <2>1, <2>3
    <3>2. group = v.groupsVotedFor[account][Len(v.groupsVotedFor[account]) - (m + 1) + 1]
      OBVIOUS
    <3>3. m + 1 \in 1..Len(v.groupsVotedFor[account])
      BY <2>1
    <3> HIDE DEF group
    <3> DEFINE n == m + 1
    <3>4. n = m + 1
      OBVIOUS
    <3> HIDE DEF n
    <3>5. /\ decrementFurther(account, group, o) # {}
          /\ \A q \in decrementFurther(account, group, o) : AfterPasses(v, account, value, n, q)
      BY <3>1, <3>2, <3>3, <3>4, OnePass
    <3> QED BY <3>4, <3>5
  <2> HIDE DEF group
  <2>5. it[m + 1] # {} /\ \A o \in it[m + 1] : AfterPasses(v, account, value, m + 1, o)
    BY <2>2, <2>3, <2>4
  <2> QED BY <2>1, <2>5
<1>7. L \in Good
  <2> HIDE DEF Good, L
  <2> QED BY <1>2, <1>5, <1>6, UpTo
<1>8. it[L] # {} /\ \A o \in it[L] : AfterPasses(v, account, value, L, o)
  BY <1>7
<1>9. ASSUME NEW w \in forceDecrementVotes(v, account, value)
      PROVE  /\ VotesSound(w) /\ getTotalVotes(w) = getTotalVotes(v) - value
             /\ KeepsPrices(v, w)
  <2>1. PICK o \in it[L] : o.remaining = 0 /\ w = o.votes
    BY <1>3 DEF Finished
  <2>2. /\ VotesSound(o.votes) /\ getTotalVotes(o.votes) = getTotalVotes(v) - (value - o.remaining)
        /\ KeepsPrices(v, o.votes)
    BY <1>8 DEF AfterPasses
  <2>3. value - o.remaining = value
    BY <2>1
  <2> QED BY <2>1, <2>2, <2>3
<1>10. ASSUME value <= getTotalVotesByAccount(v, account)
       PROVE  forceDecrementVotes(v, account, value) # {}
  <2>1. PICK o : o \in it[L]
    BY <1>8
  <2>2. o.remaining = 0
    BY <1>4, <1>8, <1>10, <2>1 DEF AfterPasses
  <2>3. o.votes \in Finished(it[L])
    <3> HIDE DEF L
    <3> QED BY <2>1, <2>2 DEF Finished
  <2> QED BY <1>3, <2>3
<1> QED BY <1>9, <1>10

-----------------------------------------------------------------------------
(***************************************************************************)
(* The gold that is nonvoting and the gold that waits to be withdrawn      *)
(***************************************************************************)

Updated(f, x, y) == [f EXCEPT ![x] = y]

\* The sum over the accounts when the value of one becomes x.
LEMMA SumOverAccounts ==
    ASSUME NEW f \in [Accounts -> Nat], NEW account \in Accounts, NEW x \in Nat,
           NEW h, DOMAIN h = Accounts, h[account] = x, \A a \in Accounts \ {account} : h[a] = f[a]
    PROVE  /\ SumFunction(h) = SumFunction(f) - f[account] + x
           /\ SumFunction(f) \in Nat /\ f[account] \in Nat
<1>1. IsFiniteSet(Accounts)
  BY ElectionAssumption
<1>2. f \in [Accounts -> Int] /\ (\A a \in Accounts : f[a] \in Nat) /\ x \in Int
  OBVIOUS
<1>3. SumFunction(h) = SumFunction(f) - f[account] + x
  BY <1>1, <1>2, SumOfAllChange
<1>4. SumFunction(f) \in Nat
  BY <1>1, <1>2, SumOfAllType
<1> QED BY <1>3, <1>4

\* The pending withdrawals of an account add up to a natural number.
LEMMA WithdrawalsOf ==
    ASSUME NEW list \in Seq(Withdrawal), NEW f, f = [i \in DOMAIN list |-> list[i].value]
    PROVE  /\ Len(list) \in Nat /\ DOMAIN list = 1..Len(list) /\ IsFiniteSet(1..Len(list))
           /\ \A i \in 1..Len(list) : list[i] \in Withdrawal /\ list[i].value \in Nat
           /\ f \in [1..Len(list) -> Nat] /\ waiting(list) = SumFunction(f)
           /\ waiting(list) \in Nat
<1>1. Len(list) \in Nat /\ DOMAIN list = 1..Len(list) /\ \A i \in 1..Len(list) : list[i] \in Withdrawal
  OBVIOUS
<1>2. IsFiniteSet(1..Len(list))
  BY <1>1, FS_Interval
<1>3. \A i \in 1..Len(list) : list[i].value \in Nat
  BY <1>1 DEF Withdrawal
<1>4. f \in [1..Len(list) -> Nat] /\ waiting(list) = SumFunction(f)
  BY <1>1, <1>3 DEF waiting
<1>5. SumFunction(f) \in Nat
  <2>1. f \in [1..Len(list) -> Int] /\ \A i \in 1..Len(list) : f[i] \in Nat
    BY <1>4
  <2> QED BY <1>2, <2>1, SumOfAllType
<1> QED BY <1>1, <1>2, <1>3, <1>4, <1>5

\* unlock adds its value to what waits.
LEMMA WaitingAppended ==
    ASSUME NEW list \in Seq(Withdrawal), NEW w \in Withdrawal
    PROVE  Append(list, w) \in Seq(Withdrawal) /\ waiting(Append(list, w)) = waiting(list) + w.value
<1> DEFINE f == [i \in DOMAIN list |-> list[i].value]
           r == Append(list, w)
           h == [i \in DOMAIN r |-> r[i].value]
           n == Len(list)
<1>1. r \in Seq(Withdrawal) /\ Len(r) = n + 1 /\ r[n + 1] = w /\ \A i \in 1..n : r[i] = list[i]
  OBVIOUS
<1>2. n \in Nat /\ f \in [1..n -> Nat] /\ waiting(list) = SumFunction(f) /\ DOMAIN list = 1..n
  BY WithdrawalsOf
<1>3. DOMAIN r = 1..n + 1 /\ waiting(r) = SumFunction(h)
  <2> HIDE DEF h
  <2>1. DOMAIN r = 1..Len(r)
    <3> HIDE DEF r
    <3> QED BY <1>1
  <2> QED BY <1>1, <2>1 DEF waiting, h
<1> HIDE DEF r
<1>4. DOMAIN h = 1..n + 1 /\ h[n + 1] = w.value /\ \A i \in 1..n : h[i] = f[i]
  BY <1>1, <1>2, <1>3
<1>5. w.value \in Int /\ f \in [1..n -> Int]
  BY <1>2 DEF Withdrawal
<1> HIDE DEF f, h, n
<1>6. SumFunction(h) = SumFunction(f) + w.value
  BY <1>2, <1>4, <1>5, SumAppended
<1> QED BY <1>1, <1>2, <1>3, <1>6 DEF r

\* deletePendingWithdrawal takes away the value of the withdrawal deleted.
LEMMA WaitingDeleted ==
    ASSUME NEW list \in Seq(Withdrawal), NEW index \in 1..Len(list)
    PROVE  /\ deletePendingWithdrawal(list, index) \in Seq(Withdrawal)
           /\ waiting(deletePendingWithdrawal(list, index)) = waiting(list) - list[index].value
<1> DEFINE f == [i \in DOMAIN list |-> list[i].value]
           r == deletePendingWithdrawal(list, index)
           h == [i \in DOMAIN r |-> r[i].value]
           n == Len(list)
<1>1. n \in Nat /\ f \in [1..n -> Nat] /\ waiting(list) = SumFunction(f) /\ DOMAIN list = 1..n
  BY WithdrawalsOf
<1>2. index \in 1..n /\ n \in Nat \ {0}
  BY <1>1
<1>3. r = SwappedOut(list, index)
  BY DEF deletePendingWithdrawal, SwappedOut
<1> HIDE DEF r, f, n
<1>4. /\ r \in Seq(Withdrawal) /\ Len(r) = n - 1
      /\ \A i \in 1..n - 1 : i # index => r[i] = list[i]
      /\ index < n => r[index] = list[n]
  <2>1. index \in 1..Len(list)
    BY <1>2 DEF n
  <2>2. /\ r \in Seq(Withdrawal) /\ Len(r) = Len(list) - 1
        /\ \A i \in 1..Len(list) - 1 : i # index => r[i] = list[i]
        /\ index < Len(list) => r[index] = list[Len(list)]
    <3> HIDE DEF h
    <3>1. r \in Seq(Withdrawal)
      BY <1>3, <2>1, SwappedOutElements
    <3>2. Len(r) = Len(list) - 1
      BY <1>3, <2>1, SwappedOutElements
    <3>3. ASSUME NEW i \in 1..Len(list) - 1, i # index PROVE r[i] = list[i]
      BY <1>3, <2>1, <3>3, SwappedOutElements
    <3>4. index < Len(list) => r[index] = list[Len(list)]
      BY <1>3, <2>1, SwappedOutElements
    <3> QED BY <3>1, <3>2, <3>3, <3>4
  <2> QED BY <2>2 DEF n
<1>5. DOMAIN r = 1..n - 1
  BY <1>4
<1>6. \A i \in 1..n - 1 : h[i] = IF i = index THEN f[n] ELSE f[i]
  <2>1. \A i \in 1..n : f[i] = list[i].value
    BY <1>1 DEF f
  <2>2. \A i \in 1..n - 1 : h[i] = r[i].value
    BY <1>5
  <2> HIDE DEF h
  <2>3. ASSUME NEW i \in 1..n - 1 PROVE h[i] = IF i = index THEN f[n] ELSE f[i]
    <3>1. i \in 1..n /\ n \in 1..n /\ i < n
      BY <1>2
    <3>2. r[i] = IF i = index THEN list[n] ELSE list[i]
      BY <1>4, <3>1
    <3> QED BY <2>1, <2>2, <3>1, <3>2
  <2> QED BY <2>3
<1>7. DOMAIN h = 1..n - 1 /\ f \in [1..n -> Int] /\ waiting(r) = SumFunction(h)
  BY <1>1, <1>5 DEF waiting
<1> HIDE DEF h
<1>8. SumFunction(h) = SumFunction(f) - f[index]
  BY <1>2, <1>6, <1>7, SumSwappedOut, ZenonT(30)
<1>9. f[index] = list[index].value
  BY <1>1, <1>2 DEF f
<1> QED BY <1>1, <1>4, <1>7, <1>8, <1>9 DEF r

\* A withdrawal replaced by another changes what waits by the difference.
LEMMA WaitingLowered ==
    ASSUME NEW list \in Seq(Withdrawal), NEW index \in 1..Len(list), NEW w \in Withdrawal,
           NEW r, r = Updated(list, index, w)
    PROVE  r \in Seq(Withdrawal) /\ waiting(r) = waiting(list) - list[index].value + w.value
<1> DEFINE f == [i \in DOMAIN list |-> list[i].value]
           h == [i \in DOMAIN r |-> r[i].value]
           n == Len(list)
<1>1. n \in Nat /\ f \in [1..n -> Nat] /\ waiting(list) = SumFunction(f) /\ DOMAIN list = 1..n
  BY WithdrawalsOf
<1>2. r \in Seq(Withdrawal) /\ DOMAIN r = 1..n /\ r[index] = w /\ \A i \in 1..n \ {index} : r[i] = list[i]
  <2>1. r = [list EXCEPT ![index] = w]
    BY DEF Updated
  <2>2. r \in Seq(Withdrawal)
    <3> HIDE DEF f, h, n
    <3> QED BY <2>1
  <2>3. DOMAIN r = 1..n
    BY <1>1, <2>1
  <2>4. r[index] = w /\ \A i \in 1..n \ {index} : r[i] = list[i]
    BY <1>1, <2>1
  <2> QED BY <2>2, <2>3, <2>4
<1>3. w.value \in Nat
  BY DEF Withdrawal
<1>4. DOMAIN h = 1..n /\ h[index] = w.value /\ \A i \in 1..n \ {index} : h[i] = f[i]
  BY <1>1, <1>2
<1>5. waiting(r) = SumFunction(h)
  BY DEF waiting
<1>6. f[index] = list[index].value /\ index \in 1..n
  BY <1>1
<1> HIDE DEF f, h, n
<1>7. SumFunction(h) = SumFunction(f) - f[index] + w.value
  <2>1. IsFiniteSet(1..n)
    BY <1>1, FS_Interval
  <2>2. DifferAt(f, h, 1..n, index)
    BY <1>1, <1>3, <1>4, <1>6 DEF DifferAt
  <2>3. SumFunction(h) = SumFunction(f) - f[index] + h[index]
    BY <2>1, <2>2, SumDiffers
  <2> QED BY <1>4, <2>3
<1> QED BY <1>1, <1>2, <1>5, <1>6, <1>7

\* What waits altogether changes by what one account waits for.
LEMMA AllWaitingChange ==
    ASSUME WithdrawalsTyped, NEW account \in Accounts, NEW list \in Seq(Withdrawal),
           pendingWithdrawals' = Updated(pendingWithdrawals, account, list)
    PROVE  /\ WithdrawalsTyped'
           /\ allWaiting(pendingWithdrawals) \in Nat
           /\ allWaiting(pendingWithdrawals')
                 = allWaiting(pendingWithdrawals) - waiting(pendingWithdrawals[account]) + waiting(list)
<1> DEFINE f == [a \in Accounts |-> waiting(pendingWithdrawals[a])]
           h == [a \in Accounts |-> waiting(pendingWithdrawals'[a])]
<1>1. \A a \in Accounts : waiting(pendingWithdrawals[a]) \in Nat
  BY WithdrawalsOf DEF WithdrawalsTyped
<1>2. WithdrawalsTyped' /\ pendingWithdrawals'[account] = list
      /\ \A a \in Accounts \ {account} : pendingWithdrawals'[a] = pendingWithdrawals[a]
  BY DEF WithdrawalsTyped, Updated
<1>3. f \in [Accounts -> Nat]
  BY <1>1
<1>4. DOMAIN h = Accounts /\ h[account] = waiting(list) /\ \A a \in Accounts \ {account} : h[a] = f[a]
  BY <1>2
<1>5. waiting(list) \in Nat
  BY WithdrawalsOf
<1>6. allWaiting(pendingWithdrawals) = SumFunction(f) /\ allWaiting(pendingWithdrawals') = SumFunction(h)
      /\ f[account] = waiting(pendingWithdrawals[account])
  BY DEF allWaiting
<1> HIDE DEF f, h
<1>7. SumFunction(h) = SumFunction(f) - f[account] + waiting(list) /\ SumFunction(f) \in Nat
  BY <1>3, <1>4, <1>5, SumOverAccounts
<1> QED BY <1>2, <1>6, <1>7

\* Changing one balance and the total by the same amount keeps the total a sum.
LEMMA NonvotingChange ==
    ASSUME NonvotingSound, NEW account \in Accounts, NEW x \in Nat,
           nonvoting' = Updated(nonvoting, account, x),
           totalNonvoting' = totalNonvoting - nonvoting[account] + x
    PROVE  NonvotingSound' /\ totalNonvoting \in Nat /\ totalNonvoting' \in Nat
<1>1. nonvoting \in [Accounts -> Nat] /\ nonvoting' \in [Accounts -> Nat] /\ nonvoting'[account] = x
      /\ \A a \in Accounts \ {account} : nonvoting'[a] = nonvoting[a]
  BY DEF NonvotingSound, Updated
<1>2. DOMAIN nonvoting' = Accounts
  BY <1>1
<1>3. SumFunction(nonvoting') = SumFunction(nonvoting) - nonvoting[account] + x
      /\ SumFunction(nonvoting) \in Nat
  BY <1>1, <1>2, SumOverAccounts
<1>4. nonvoting'[account] \in Nat /\ SumFunction(nonvoting') \in Nat
  BY <1>1, SumOverAccounts
<1> QED BY <1>1, <1>3, <1>4 DEF NonvotingSound

-----------------------------------------------------------------------------
(***************************************************************************)
(* What the actions make of the votes                                      *)
(***************************************************************************)

\* The votes Election.sol starts with are sound.
LEMMA NoVotesSound == VotesSound(NoVotes) /\ getTotalVotes(NoVotes) = 0
<1> DEFINE zeros(S) == [x \in S |-> 0]
<1>0. IsFiniteSet(Accounts) /\ IsFiniteSet(Groups) /\ UNIT_PRECISION_FACTOR \in Nat \ {0}
  BY ElectionAssumption
<1>1. SumFunction(zeros(Accounts)) = 0 /\ SumFunction(zeros(Groups)) = 0
  <2>1. ASSUME NEW S, IsFiniteSet(S) PROVE SumFunction(zeros(S)) = 0
    <3> DEFINE f == zeros(S)
    <3>1. DOMAIN f = S /\ \A x \in S : f[x] = 0
      OBVIOUS
    <3> HIDE DEF f
    <3>2. SumFunction(f) = 0
      BY <2>1, <3>1, SumOfAll, SumZero
    <3> QED BY <3>2 DEF f
  <2> QED BY <1>0, <2>1
<1>2. /\ NoVotes.pending.total = 0 /\ NoVotes.active.total = 0
      /\ NoVotes.eligible = <<>> /\ NoVotes.groupsVotedFor = [a \in Accounts |-> <<>>]
      /\ \A g \in Groups : /\ NoVotes.pending.forGroup[g].total = 0
                           /\ NoVotes.active.forGroup[g].total = 0
                           /\ NoVotes.active.forGroup[g].totalUnits = 0
                           /\ NoVotes.active.forGroup[g].unitsByAccount = zeros(Accounts)
                           /\ \A a \in Accounts : NoVotes.pending.forGroup[g].byAccount[a].value = 0
  BY DEF NoVotes, NoPendingVote
<1>3. NoVotes \in Votes
  <2>1. NoPendingVote \in Record
    BY DEF NoPendingVote, Record
  <2>2. <<>> \in Seq(Shown) /\ <<>> \in Seq(Groups)
    OBVIOUS
  <2> QED BY <2>1, <2>2 DEF NoVotes, Votes, PendingPool, ActivePool
<1>4. pendingTotals(NoVotes) = zeros(Groups) /\ activeTotals(NoVotes) = zeros(Groups)
      /\ \A g \in Groups : pendingOf(NoVotes, g) = zeros(Accounts)
  BY <1>2 DEF pendingTotals, activeTotals, pendingOf
<1> HIDE DEF zeros
<1>5. Summed(NoVotes)
  BY <1>1, <1>2, <1>4 DEF Summed
<1>6. \A g \in Groups : Priced(NoVotes.active.forGroup[g])
  BY <1>0, <1>2 DEF Priced
<1>7. ListsVotes(NoVotes)
  BY <1>0, <1>2 DEF ListsVotes, zeros
<1>8. ShowsAllVotes(NoVotes)
  BY <1>2 DEF ShowsAllVotes, Sorted, DistinctKeys
<1>9. getTotalVotes(NoVotes) = 0
  BY <1>2 DEF getTotalVotes
<1> QED BY <1>3, <1>5, <1>6, <1>7, <1>8, <1>9 DEF VotesSound, Counted

\* An account votes for a group that it does not list yet.
LEMMA GroupListed ==
    ASSUME NEW v, VotesSound(v), NEW account \in Accounts, NEW group \in Groups,
           ~Lists(v, account, group),
           NEW w, w = SetGroupsVotedFor(v, account, Append(v.groupsVotedFor[account], group))
    PROVE  /\ VotesSound(w) /\ Lists(w, account, group)
           /\ w.pending = v.pending /\ w.active = v.active /\ w.eligible = v.eligible
<1> DEFINE s == v.groupsVotedFor[account]
           q == Append(s, group)
<1>1. v \in Votes /\ Counted(v) /\ ListsVotes(v) /\ ShowsAllVotes(v)
  BY DEF VotesSound, Counted
<1>2. s \in Seq(Groups) /\ Len(s) \in Nat /\ DOMAIN s = 1..Len(s)
  BY <1>1, GroupsOf
<1>3. q \in Seq(Groups) /\ DOMAIN q = 1..Len(s) + 1 /\ q[Len(s) + 1] = group
      /\ \A i \in 1..Len(s) : q[i] = s[i]
  <2> HIDE DEF s
  <2> QED BY <1>2
<1>4. q = Append(v.groupsVotedFor[account], group)
  OBVIOUS
<1>5. \A i \in 1..Len(s) : s[i] # group
  BY <1>2 DEF Lists
<1>6. \A i, j \in 1..Len(s) : s[i] = s[j] => i = j
  BY <1>1, <1>2 DEF ListsVotes
<1> HIDE DEF q
<1>7. /\ w \in Votes /\ w.groupsVotedFor[account] = q
      /\ \A a \in Accounts \ {account} : w.groupsVotedFor[a] = v.groupsVotedFor[a]
      /\ w.pending = v.pending /\ w.active = v.active /\ w.eligible = v.eligible
  <2>1. w = SetGroupsVotedFor(v, account, q) /\ q \in Seq(Groups)
    BY <1>3, <1>4
  <2> QED BY <1>1, <2>1, GroupsVotedForSet, Z3
<1>8. Lists(w, account, group)
  BY <1>2, <1>3, <1>7 DEF Lists
<1>9. \A a \in Accounts, g \in Groups : Lists(v, a, g) => Lists(w, a, g)
  <2>1. ASSUME NEW g \in Groups, Lists(v, account, g) PROVE Lists(w, account, g)
    <3>1. PICK i \in 1..Len(s) : s[i] = g
      BY <1>2, <2>1 DEF Lists
    <3>2. i \in DOMAIN q /\ q[i] = g
      BY <1>2, <1>3, <3>1
    <3> QED BY <1>7, <3>2 DEF Lists
  <2>2. \A a \in Accounts \ {account}, g \in Groups : Lists(v, a, g) => Lists(w, a, g)
    BY <1>7 DEF Lists
  <2> QED BY <2>1, <2>2
<1>10. \A i, j \in DOMAIN q : q[i] = q[j] => i = j
  <2> HIDE DEF s
  <2> QED BY <1>2, <1>3, <1>5, <1>6
<1>11. ListsVotes(w)
  <2>1. ASSUME NEW a \in Accounts
        PROVE  \A i, j \in DOMAIN w.groupsVotedFor[a] :
                  w.groupsVotedFor[a][i] = w.groupsVotedFor[a][j] => i = j
    BY <1>1, <1>7, <1>10 DEF ListsVotes
  <2>2. ASSUME NEW a \in Accounts, NEW g \in Groups, ~Lists(w, a, g)
        PROVE  /\ w.pending.forGroup[g].byAccount[a].value = 0
               /\ w.active.forGroup[g].unitsByAccount[a] < UNIT_PRECISION_FACTOR
    BY <1>1, <1>7, <1>9, <2>2 DEF ListsVotes
  <2> QED BY <2>1, <2>2 DEF ListsVotes
<1>12. Counted(w)
  BY <1>1, <1>7, <1>11, CountedKept
<1>13. ShowsAllVotes(w)
  <2>1. \A g : getTotalVotesForGroup(w, g) = getTotalVotesForGroup(v, g)
    BY <1>7 DEF getTotalVotesForGroup
  <2> QED BY <1>1, <1>7, <2>1 DEF ShowsAllVotes
<1> QED BY <1>7, <1>8, <1>12, <1>13 DEF VotesSound

\* vote adds pending votes and sorts the group anew.
LEMMA VotesCast ==
    ASSUME NEW v, VotesSound(v), NEW account \in Accounts, NEW group \in Groups,
           Lists(v, account, group), isEligible(v, group), NEW value \in Nat, NEW e \in Nat,
           NEW w \in incrementTotalVotes(incrementPendingVotes(v, group, account, value, e), group, value)
    PROVE  VotesSound(w) /\ getTotalVotes(w) = getTotalVotes(v) + value /\ KeepsPrices(v, w)
<1> DEFINE x == incrementPendingVotes(v, group, account, value, e)
<1>1. v \in Votes /\ Counted(v) /\ ShowsVotes(v, group, 0)
  BY ShowsAll DEF VotesSound, Counted
<1>2. w \in resorted(x, group, value)
  BY DEF incrementTotalVotes
<1>3. x = incrementPendingVotes(v, group, account, value, e)
  OBVIOUS
<1> HIDE DEF x
<1>4. ChangesPending(v, x, group, account, value)
  BY <1>1, <1>3, IncrementPending
<1>5. 0 - value = -value /\ 0 \in Int /\ value \in Int /\ -value \in Int /\ -value + value = 0
  OBVIOUS
<1>6. Counted(x) /\ ShowsVotes(x, group, -value)
  <2>1. Counted(x) /\ ShowsVotes(x, group, 0 - value)
    BY <1>1, <1>4, <1>5, PendingKeeps
  <2> QED BY <1>5, <2>1
<1>7. x \in Votes /\ isEligible(x, group) /\ x.active = v.active
      /\ x.pending.total = v.pending.total + value
  BY <1>4 DEF ChangesPending, isEligible
<1>8. getTotalVotesForGroup(x, group) + (-value + value) \in Nat
  BY <1>5, <1>7, GroupFields
<1>9. /\ Counted(w) /\ ShowsVotes(w, group, -value + value)
      /\ w.pending = x.pending /\ w.active = x.active
  BY <1>2, <1>5, <1>6, <1>7, <1>8, Resorted
<1>10. VotesSound(w)
  <2>1. w \in Votes /\ ShowsVotes(w, group, 0)
    BY <1>5, <1>9 DEF Counted
  <2> QED BY <1>9, <2>1, ShowsAll DEF VotesSound
<1>11. getTotalVotes(w) = getTotalVotes(v) + value
  <2>1. v.pending.total \in Nat /\ v.active.total \in Nat
    BY <1>1, TotalFields
  <2> QED BY <1>7, <1>9, <2>1 DEF getTotalVotes
<1>12. KeepsPrices(v, w)
  BY <1>1, <1>7, <1>9, PriceStays DEF KeepsPrices
<1> QED BY <1>10, <1>11, <1>12

\* activate turns pending votes into active ones: the group has as many as before.
LEMMA Activated ==
    ASSUME NEW v, VotesSound(v), NEW account \in Accounts, NEW group \in Groups,
           NEW value \in Nat \ {0}, value <= getPendingVotesForGroupByAccount(v, group, account),
           NEW w, w = incrementActiveVotes(decrementPendingVotes(v, group, account, value),
                                           group, account, value)
    PROVE  VotesSound(w) /\ getTotalVotes(w) = getTotalVotes(v) /\ KeepsPrices(v, w)
<1> DEFINE x == decrementPendingVotes(v, group, account, value)
<1>1. v \in Votes /\ Counted(v) /\ ListsVotes(v)
  BY DEF VotesSound, Counted
<1>2. HalfChanged(v, group, 0)
  BY <1>1, ShowsAll DEF VotesSound, HalfChanged
<1>3. x = decrementPendingVotes(v, group, account, value)
  OBVIOUS
<1> HIDE DEF x
<1>4. HalfChanged(x, group, value) /\ ChangesPending(v, x, group, account, -value)
  <2> DEFINE e == 0
  <2>1. e \in Int /\ HalfChanged(v, group, e) /\ e + value = value
    BY <1>2
  <2> HIDE DEF e
  <2>2. HalfChanged(x, group, e + value) /\ ChangesPending(v, x, group, account, -value)
    BY <1>3, <2>1, PendingTaken
  <2> QED BY <2>1, <2>2
<1>5. Lists(x, account, group)
  <2>1. v.pending.forGroup[group].byAccount[account].value # 0
    <3>1. v.pending.forGroup[group].byAccount[account].value \in Nat
      BY <1>1, PendingFields
    <3> QED BY <3>1 DEF getPendingVotesForGroupByAccount
  <2>2. Lists(v, account, group)
    BY <1>1, <2>1 DEF ListsVotes
  <2>3. x.groupsVotedFor = v.groupsVotedFor
    BY <1>4 DEF ChangesPending
  <2> QED BY <2>2, <2>3 DEF Lists
<1>6. x \in Votes /\ Counted(x) /\ ShowsVotes(x, group, value) /\ Priced(x.active.forGroup[group])
  BY <1>4 DEF HalfChanged, Counted
<1>7. PICK n \in Nat : /\ ChangesActive(x, w, group, account, value, n)
                       /\ Priced(w.active.forGroup[group])
                       /\ KeepsPrice(x.active.forGroup[group], w.active.forGroup[group])
  BY <1>3, <1>6, IncrementActive
<1>8. value \in Int /\ n \in Int /\ value - value = 0
  OBVIOUS
<1>9. Counted(w) /\ ShowsVotes(w, group, value - value)
  BY <1>5, <1>6, <1>7, <1>8, ActiveKeeps
<1>10. VotesSound(w)
  <2>1. w \in Votes /\ ShowsVotes(w, group, 0)
    BY <1>8, <1>9 DEF Counted
  <2> QED BY <1>9, <2>1, ShowsAll DEF VotesSound
<1>11. getTotalVotes(w) = getTotalVotes(v)
  <2>1. v.pending.total \in Nat /\ v.active.total \in Nat
    BY <1>1, TotalFields
  <2>2. x.pending.total = v.pending.total + (-value) /\ x.active.total = v.active.total
    BY <1>4 DEF ChangesPending
  <2>3. w.pending.total = x.pending.total /\ w.active.total = x.active.total + value
    BY <1>7 DEF ChangesActive
  <2>4. w.active.total + w.pending.total = v.active.total + v.pending.total
    BY <2>1, <2>2, <2>3
  <2> QED BY <2>4 DEF getTotalVotes
<1>12. KeepsPrices(v, w)
  <2>1. x.active = v.active
    BY <1>4 DEF ChangesPending
  <2>2. \A g \in Groups \ {group} : w.active.forGroup[g] = v.active.forGroup[g]
    BY <1>7, <2>1 DEF ChangesActive
  <2>3. KeepsPrice(v.active.forGroup[group], w.active.forGroup[group])
    BY <1>7, <2>1
  <2> QED BY <1>1, <2>2, <2>3, PricesStay
<1> QED BY <1>10, <1>11, <1>12

\* revokePending takes value votes,
LEMMA PendingRevoked ==
    ASSUME NEW v, VotesSound(v), NEW account \in Accounts, NEW group \in Groups,
           NEW value \in Nat \ {0}, value <= getPendingVotesForGroupByAccount(v, group, account),
           NEW w \in afterRevocation(decrementPendingVotes(v, group, account, value),
                                     account, group, value)
    PROVE  VotesSound(w) /\ getTotalVotes(w) = getTotalVotes(v) - value /\ KeepsPrices(v, w)
<1> DEFINE x == decrementPendingVotes(v, group, account, value)
<1>1. v \in Votes /\ Counted(v)
  BY DEF VotesSound, Counted
<1>2. HalfChanged(v, group, 0)
  BY <1>1, ShowsAll DEF VotesSound, HalfChanged
<1>3. x = decrementPendingVotes(v, group, account, value)
  OBVIOUS
<1> HIDE DEF x
<1>4. HalfChanged(x, group, value) /\ ChangesPending(v, x, group, account, -value)
  <2> DEFINE e == 0
  <2>1. e \in Int /\ HalfChanged(v, group, e) /\ e + value = value
    BY <1>2
  <2> HIDE DEF e
  <2>2. HalfChanged(x, group, e + value) /\ ChangesPending(v, x, group, account, -value)
    BY <1>3, <2>1, PendingTaken
  <2> QED BY <2>1, <2>2
<1>5. VotesSound(w) /\ w.pending = x.pending /\ w.active = x.active
  BY <1>3, <1>4, AfterRevocation
<1>6. v.pending.total \in Nat /\ v.active.total \in Nat
  BY <1>1, TotalFields
<1>7. x.pending.total = v.pending.total + (-value) /\ x.active.total = v.active.total
  BY <1>4 DEF ChangesPending
<1>8. KeepsPrices(v, w)
  BY <1>1, <1>4, <1>5, PriceStays DEF ChangesPending, KeepsPrices
<1> QED BY <1>5, <1>6, <1>7, <1>8 DEF getTotalVotes

\* and so does revokeActive.
LEMMA ActiveRevoked ==
    ASSUME NEW v, VotesSound(v), NEW account \in Accounts, NEW group \in Groups,
           NEW value \in Nat \ {0}, value <= getActiveVotesForGroupByAccount(v, group, account),
           NEW w \in afterRevocation(decrementActiveVotes(v, group, account, value),
                                     account, group, value)
    PROVE  VotesSound(w) /\ getTotalVotes(w) = getTotalVotes(v) - value /\ KeepsPrices(v, w)
<1> DEFINE x == decrementActiveVotes(v, group, account, value)
<1>1. v \in Votes /\ Counted(v)
  BY DEF VotesSound, Counted
<1>2. HalfChanged(v, group, 0)
  BY <1>1, ShowsAll DEF VotesSound, HalfChanged
<1>3. x = decrementActiveVotes(v, group, account, value)
  OBVIOUS
<1> HIDE DEF x
<1>4. /\ HalfChanged(x, group, value)
      /\ \E n \in Nat : ChangesActive(v, x, group, account, -value, -n)
      /\ KeepsPrice(v.active.forGroup[group], x.active.forGroup[group])
  <2> DEFINE e == 0
  <2>1. e \in Int /\ HalfChanged(v, group, e) /\ e + value = value
    BY <1>2
  <2> HIDE DEF e
  <2>2. /\ HalfChanged(x, group, e + value)
        /\ \E n \in Nat : ChangesActive(v, x, group, account, -value, -n)
        /\ KeepsPrice(v.active.forGroup[group], x.active.forGroup[group])
    BY <1>3, <2>1, ActiveTaken
  <2> QED BY <2>1, <2>2
<1>5. VotesSound(w) /\ w.pending = x.pending /\ w.active = x.active
  BY <1>3, <1>4, AfterRevocation
<1>6. v.pending.total \in Nat /\ v.active.total \in Nat
  BY <1>1, TotalFields
<1>7. x.active.total = v.active.total + (-value) /\ x.pending.total = v.pending.total
  BY <1>4 DEF ChangesActive
<1>8. KeepsPrices(v, w)
  <2>1. \A g \in Groups \ {group} : w.active.forGroup[g] = v.active.forGroup[g]
    BY <1>4, <1>5 DEF ChangesActive
  <2>2. KeepsPrice(v.active.forGroup[group], w.active.forGroup[group])
    BY <1>4, <1>5
  <2> QED BY <1>1, <2>1, <2>2, PricesStay
<1> QED BY <1>5, <1>6, <1>7, <1>8 DEF getTotalVotes

\* A change of the list alone.
LEMMA EligibleChanged ==
    ASSUME NEW v, VotesSound(v), NEW q \in Seq(Shown), Sorted(q), DistinctKeys(q),
           \A i \in DOMAIN q : q[i].value = getTotalVotesForGroup(v, q[i].key),
           NEW w, w = [v EXCEPT !.eligible = q]
    PROVE  VotesSound(w) /\ getTotalVotes(w) = getTotalVotes(v)
<1>1. v \in Votes /\ Counted(v) /\ ListsVotes(v)
  BY DEF VotesSound, Counted
<1>2. /\ w \in Votes /\ w.eligible = q
      /\ w.pending = v.pending /\ w.active = v.active /\ w.groupsVotedFor = v.groupsVotedFor
  BY <1>1, EligibleSet
<1>3. Counted(w)
  BY <1>1, <1>2, ListsVotesKept, CountedKept
<1>4. \A g : getTotalVotesForGroup(w, g) = getTotalVotesForGroup(v, g)
  BY <1>2 DEF getTotalVotesForGroup
<1>5. ShowsAllVotes(w)
  BY <1>2, <1>4 DEF ShowsAllVotes
<1>6. getTotalVotes(w) = getTotalVotes(v)
  BY <1>2 DEF getTotalVotes
<1> QED BY <1>3, <1>5, <1>6 DEF VotesSound

\* markGroupEligible puts a group into the list with the votes it has.
LEMMA MarkedEligible ==
    ASSUME NEW v, VotesSound(v), NEW group \in Groups, ~isEligible(v, group),
           NEW q \in Placements(v.eligible, group, getTotalVotesForGroup(v, group)),
           NEW w, w = [v EXCEPT !.eligible = q]
    PROVE  VotesSound(w) /\ getTotalVotes(w) = getTotalVotes(v)
<1> DEFINE s == v.eligible
           c == getTotalVotesForGroup(v, group)
           new == [key |-> group, value |-> c]
<1>1. v \in Votes /\ ShowsAllVotes(v)
  BY DEF VotesSound, Counted
<1>2. s \in Seq(Shown) /\ DistinctKeys(s) /\ group \notin KeySet(s)
  BY <1>1, ShownFields DEF ShowsAllVotes, isEligible
<1>3. new \in Shown
  BY <1>1, GroupFields DEF Shown
<1>4. new.key = group /\ new.value = c
  OBVIOUS
<1>5. \A j \in DOMAIN s : s[j].value = getTotalVotesForGroup(v, s[j].key)
  BY <1>1 DEF ShowsAllVotes
<1>6. q \in Placements(s, group, c) /\ new = [key |-> group, value |-> c]
      /\ c = getTotalVotesForGroup(v, group)
  OBVIOUS
<1>7. Sorted(q)
  BY DEF Placements
<1> HIDE DEF s, c
<1>8. /\ q \in Seq(Shown) /\ DistinctKeys(q)
      /\ \A i \in DOMAIN q : q[i] = new \/ \E j \in DOMAIN s : q[i] = s[j]
  BY <1>2, <1>3, <1>6, PlacementsProperties, Z3
<1> HIDE DEF new
<1>9. \A i \in DOMAIN q : q[i].value = getTotalVotesForGroup(v, q[i].key)
  BY <1>4, <1>5, <1>6, <1>8
<1> QED BY <1>7, <1>8, <1>9, EligibleChanged

\* markGroupIneligible takes a group out of the list and leaves its votes.
LEMMA MarkedIneligible ==
    ASSUME NEW v, VotesSound(v), NEW group \in Groups, isEligible(v, group),
           NEW w, w = [v EXCEPT !.eligible = Without(v.eligible, group)]
    PROVE  VotesSound(w) /\ getTotalVotes(w) = getTotalVotes(v)
<1> DEFINE s == v.eligible
           t == Without(s, group)
<1>1. v \in Votes /\ ShowsAllVotes(v)
  BY DEF VotesSound, Counted
<1>2. s \in Seq(Shown) /\ Sorted(s) /\ DistinctKeys(s) /\ group \in KeySet(s)
  BY <1>1, ShownFields DEF ShowsAllVotes, isEligible
<1>3. \A j \in DOMAIN s : s[j].value = getTotalVotesForGroup(v, s[j].key)
  BY <1>1 DEF ShowsAllVotes
<1>4. w = [v EXCEPT !.eligible = t]
  OBVIOUS
<1>5. /\ t \in Seq(Shown) /\ DistinctKeys(t) /\ Sorted(t)
      /\ \A i \in DOMAIN t : \E j \in DOMAIN s : t[i] = s[j]
  BY <1>2, WithoutProperties
<1> HIDE DEF t, s
<1>6. \A i \in DOMAIN t : t[i].value = getTotalVotesForGroup(v, t[i].key)
  BY <1>3, <1>5
<1> QED BY <1>4, <1>5, <1>6, EligibleChanged

-----------------------------------------------------------------------------
\* An epoch reward makes a group's pool, and with it each of its units, worth more.
AddReward(v, group, value) ==
    [v EXCEPT !.active.total = @ + value, !.active.forGroup[group].total = @ + value]

\* It adds votes and no units.
LEMMA RewardAdded ==
    ASSUME NEW v \in Votes, NEW group \in Groups, NEW account \in Accounts, NEW value \in Nat,
           NEW w, w = AddReward(v, group, value)
    PROVE  ChangesActive(v, w, group, account, value, 0)
<1> DEFINE x == v.active.total + value
           p0 == v.active.forGroup[group]
           v1 == SetActiveTotal(v, x)
           p1 == [p0 EXCEPT !.total = @ + value]
           v2 == SetActivePool(v1, group, p1)
<1>1. w = v2
  BY DEF AddReward, SetActiveTotal, SetActivePool
<1>2. v1 = SetActiveTotal(v, x) /\ v2 = SetActivePool(v1, group, p1) /\ x = v.active.total + value
  OBVIOUS
<1>3. x \in Nat
  BY TotalFields
<1> HIDE DEF x, v1, v2
<1>4. /\ v1 \in Votes /\ v1.active.total = x /\ v1.active.forGroup = v.active.forGroup
      /\ v1.pending = v.pending /\ v1.eligible = v.eligible /\ v1.groupsVotedFor = v.groupsVotedFor
  BY <1>2, <1>3, ActiveTotalSet
<1>5. p0 \in ActivePool /\ p0.totalUnits \in Nat /\ \A a \in Accounts : p0.unitsByAccount[a] \in Nat
  BY DEF Votes, ActivePool
<1>6. /\ p1 \in ActivePool /\ p1.total = p0.total + value
      /\ p1.totalUnits = p0.totalUnits /\ p1.unitsByAccount = p0.unitsByAccount
  <2> HIDE DEF p0
  <2> QED BY <1>5 DEF ActivePool
<1> HIDE DEF p1
<1>7. /\ v2 \in Votes /\ v2.active.forGroup[group] = p1 /\ v2.active.total = v1.active.total
      /\ \A g \in Groups \ {group} : v2.active.forGroup[g] = v1.active.forGroup[g]
      /\ v2.pending = v1.pending /\ v2.eligible = v1.eligible
      /\ v2.groupsVotedFor = v1.groupsVotedFor
  BY <1>2, <1>4, <1>6, ActivePoolSet, Z3
<1>8. /\ v2.active.forGroup[group].totalUnits = v.active.forGroup[group].totalUnits + 0
      /\ v2.active.forGroup[group].unitsByAccount[account]
            = v.active.forGroup[group].unitsByAccount[account] + 0
  BY <1>5, <1>6, <1>7
<1>9. /\ v2.active.total = v.active.total + value
      /\ v2.active.forGroup[group].total = v.active.forGroup[group].total + value
      /\ \A g \in Groups \ {group} : v2.active.forGroup[g] = v.active.forGroup[g]
      /\ \A a \in Accounts \ {account} : v2.active.forGroup[group].unitsByAccount[a]
                                           = v.active.forGroup[group].unitsByAccount[a]
  BY <1>2, <1>4, <1>6, <1>7
<1>10. v2.pending = v.pending /\ v2.eligible = v.eligible /\ v2.groupsVotedFor = v.groupsVotedFor
  BY <1>4, <1>7
<1> QED BY <1>1, <1>7, <1>8, <1>9, <1>10 DEF ChangesActive

\* distributeEpochRewards adds value votes, and the list shows them.
LEMMA Rewarded ==
    ASSUME NEW v, VotesSound(v), NEW group \in Groups, v.active.forGroup[group].total > 0,
           NEW value \in Nat,
           NEW y, y \in IF isEligible(v, group) THEN resorted(v, group, value) ELSE {v},
           NEW w, w = AddReward(y, group, value)
    PROVE  VotesSound(w) /\ getTotalVotes(w) = getTotalVotes(v) + value /\ KeepsPrices(v, w)
<1>1. v \in Votes /\ Counted(v) /\ ShowsAllVotes(v) /\ ShowsVotes(v, group, 0)
  BY ShowsAll DEF VotesSound, Counted
<1>2. 0 + value \in Int /\ value - value = 0 /\ value \in Int /\ 0 \in Int /\ 0 + value = value
  OBVIOUS
<1>3. /\ Counted(y) /\ y.pending = v.pending /\ y.active = v.active
      /\ IF isEligible(v, group) THEN ShowsVotes(y, group, value) ELSE y = v
  <2>1. CASE isEligible(v, group)
    <3>1. y \in resorted(v, group, value)
      BY <2>1
    <3>2. getTotalVotesForGroup(v, group) + (0 + value) \in Nat
      BY <1>1, GroupFields
    <3>3. /\ Counted(y) /\ ShowsVotes(y, group, 0 + value)
          /\ y.pending = v.pending /\ y.active = v.active
      BY <1>1, <1>2, <2>1, <3>1, <3>2, Resorted
    <3> QED BY <1>2, <2>1, <3>3
  <2>2. CASE ~isEligible(v, group)
    BY <1>1, <2>2
  <2> QED BY <2>1, <2>2
<1>4. y \in Votes /\ Priced(y.active.forGroup[group]) /\ Summed(y)
  BY <1>3 DEF Counted
<1>5. y.active.forGroup[group].total > 0
  BY <1>3
<1>6. PICK account \in Accounts : TRUE
  <2>1. Accounts # {}
    <3>1. SUFFICES ASSUME Accounts = {} PROVE FALSE
      OBVIOUS
    <3> DEFINE f == y.active.forGroup[group].unitsByAccount
    <3>2. DOMAIN f = {} /\ y.active.forGroup[group].totalUnits = SumFunction(f)
      BY <1>4, <3>1 DEF Votes, ActivePool, Summed
    <3> HIDE DEF f
    <3>3. SumFunction(f) = 0
      BY <3>2, SumOfAll, SumEmpty
    <3>4. y.active.forGroup[group].total = 0
      BY <1>4, <3>2, <3>3 DEF Priced
    <3> QED BY <1>5, <3>4
  <2> QED BY <2>1
<1>7. ChangesActive(y, w, group, account, value, 0)
  BY <1>4, RewardAdded
<1>8. Priced(w.active.forGroup[group])
  <2> DEFINE T == y.active.forGroup[group].total
             U == y.active.forGroup[group].totalUnits
             F == UNIT_PRECISION_FACTOR
  <2>1. w.active.forGroup[group].total = T + value /\ w.active.forGroup[group].totalUnits = U + 0
    BY <1>7 DEF ChangesActive
  <2>2. T \in Nat /\ U \in Nat /\ F \in Nat
    BY <1>4, GroupFields, ElectionAssumption
  <2>3. (T = 0 <=> U = 0) /\ U <= T * F /\ T > 0
    BY <1>4, <1>5 DEF Priced
  <2> HIDE DEF T, U
  <2>4. T * F <= (T + value) * F /\ T * F \in Nat /\ (T + value) * F \in Nat
    <3>1. (T + value) * F = T * F + value * F /\ value * F \in Nat /\ T * F \in Nat
      BY <2>2
    <3> QED BY <3>1
  <2> HIDE DEF F
  <2>5. U + 0 <= (T + value) * F
    BY <2>2, <2>3, <2>4
  <2>6. T + value = 0 <=> U + 0 = 0
    BY <2>2, <2>3
  <2> QED BY <2>1, <2>5, <2>6 DEF Priced, F
<1>9. /\ Counted(w)
      /\ \A e \in Int : ShowsVotes(y, group, e) => ShowsVotes(w, group, e - value)
  BY <1>2, <1>3, <1>7, <1>8, ActiveKeeps
<1>10. w \in Votes /\ w.eligible = y.eligible
  BY <1>7 DEF ChangesActive
<1>11. ShowsAllVotes(w)
  <2>1. CASE isEligible(v, group)
    <3>1. ShowsVotes(w, group, 0)
      BY <1>2, <1>3, <1>9, <2>1
    <3> QED BY <1>10, <3>1, ShowsAll
  <2>2. CASE ~isEligible(v, group)
    <3>1. ShowsVotes(w, group, 0 - value) /\ ~isEligible(w, group) /\ 0 - value \in Int
      BY <1>1, <1>2, <1>3, <1>9, <1>10, <2>2 DEF isEligible
    <3> QED BY <1>10, <3>1, ShowsAll
  <2> QED BY <2>1, <2>2
<1>12. getTotalVotes(w) = getTotalVotes(v) + value
  <2>1. v.pending.total \in Nat /\ v.active.total \in Nat
    BY <1>1, TotalFields
  <2>2. w.pending = y.pending /\ w.active.total = y.active.total + value
    BY <1>7 DEF ChangesActive
  <2> QED BY <1>3, <2>1, <2>2 DEF getTotalVotes
<1>13. KeepsPrice(y.active.forGroup[group], w.active.forGroup[group])
  <2> DEFINE T == y.active.forGroup[group].total
             U == y.active.forGroup[group].totalUnits
  <2>1. w.active.forGroup[group].total = T + value /\ w.active.forGroup[group].totalUnits = U + 0
    BY <1>7 DEF ChangesActive
  <2>2. T \in Nat \ {0} /\ U \in Nat
    BY <1>4, <1>5, GroupFields
  <2> HIDE DEF T, U
  <2>3. T * (U + 0) < (T + value) * U + T
    <3>1. T * (U + 0) = T * U /\ (T + value) * U = T * U + value * U
          /\ T * U \in Int /\ value * U \in Nat
      BY <2>2
    <3> QED BY <2>2, <3>1
  <2> QED BY <2>1, <2>3 DEF KeepsPrice, T, U
<1>14. KeepsPrices(v, w)
  <2>1. \A g \in Groups \ {group} : w.active.forGroup[g] = v.active.forGroup[g]
    BY <1>3, <1>7 DEF ChangesActive
  <2>2. KeepsPrice(v.active.forGroup[group], w.active.forGroup[group])
    BY <1>3, <1>13
  <2> QED BY <1>1, <2>1, <2>2, PricesStay
<1> QED BY <1>9, <1>11, <1>12, <1>14 DEF VotesSound

-----------------------------------------------------------------------------
(***************************************************************************)
(* The steps keep the invariant                                            *)
(***************************************************************************)

\* What waits for all accounts is a natural number.
LEMMA AllWaitingType ==
    ASSUME NEW w \in [Accounts -> Seq(Withdrawal)]
    PROVE  allWaiting(w) \in Nat
<1> DEFINE f == [a \in Accounts |-> waiting(w[a])]
<1>1. IsFiniteSet(Accounts)
  BY ElectionAssumption
<1>2. \A a \in Accounts : waiting(w[a]) \in Nat
  BY WithdrawalsOf
<1>3. f \in [Accounts -> Int] /\ \A a \in Accounts : f[a] \in Nat
  BY <1>2
<1>4. allWaiting(w) = SumFunction(f)
  BY DEF allWaiting
<1> HIDE DEF f
<1> QED BY <1>1, <1>3, <1>4, SumOfAllType

\* The numbers that GoldHeld adds up are no less than zero.
LEMMA Amounts ==
    ASSUME IInv
    PROVE  /\ totalNonvoting \in Nat /\ getTotalVotes(votes) \in Nat
           /\ allWaiting(pendingWithdrawals) \in Nat /\ balance \in Nat
           /\ nonvoting \in [Accounts -> Nat]
           /\ \A a \in Accounts : getTotalVotesByAccount(votes, a) \in Nat
<1>1. VotesSound(votes) /\ Counted(votes) /\ votes \in Votes
  BY DEF IInv, VotesSound, Counted
<1>2. getTotalVotes(votes) \in Nat
  BY <1>1, TotalFields
<1>3. nonvoting \in [Accounts -> Nat] /\ totalNonvoting \in Nat
  <2>1. nonvoting \in [Accounts -> Nat] /\ totalNonvoting = SumFunction(nonvoting)
    BY DEF IInv, NonvotingSound
  <2>2. nonvoting \in [Accounts -> Int] /\ \A a \in Accounts : nonvoting[a] \in Nat
    BY <2>1
  <2>3. SumFunction(nonvoting) \in Nat
    BY <2>2, ElectionAssumption, SumOfAllType
  <2> QED BY <2>1, <2>3
<1>4. allWaiting(pendingWithdrawals) \in Nat
  BY AllWaitingType DEF IInv, WithdrawalsTyped
<1>5. balance \in Nat
  BY <1>2, <1>3, <1>4 DEF IInv, GoldHeld
<1>6. ASSUME NEW a \in Accounts PROVE getTotalVotesByAccount(votes, a) \in Nat
  <2> DEFINE L == Len(votes.groupsVotedFor[a])
  <2>1. L \in Nat
    BY <1>1, GroupsOf
  <2>2. /\ LastVotes(votes, a, L) = getTotalVotesByAccount(votes, a)
        /\ \A n \in 0..L : LastVotes(votes, a, n) \in Nat
    <3>1. L = Len(votes.groupsVotedFor[a])
      OBVIOUS
    <3> HIDE DEF L
    <3> QED BY <1>1, <3>1, LastVotesSum, Z3
  <2>3. L \in 0..L
    BY <2>1
  <2> QED BY <2>2, <2>3
<1> QED BY <1>2, <1>3, <1>4, <1>5, <1>6

\* What _incrementNonvotingAccountBalance does.
LEMMA NonvotingIncremented ==
    ASSUME NonvotingSound, NEW account \in Accounts, NEW value \in Nat,
           incrementNonvotingAccountBalance(account, value)
    PROVE  NonvotingSound' /\ totalNonvoting' = totalNonvoting + value /\ totalNonvoting \in Nat
<1> DEFINE x == nonvoting[account] + value
<1>1. nonvoting[account] \in Nat /\ x \in Nat
  BY DEF NonvotingSound
<1>2. nonvoting' = Updated(nonvoting, account, x) /\ totalNonvoting' = totalNonvoting + value
  BY DEF incrementNonvotingAccountBalance, Updated
<1>3. totalNonvoting \in Nat
  BY ElectionAssumption, SumOfAllType DEF NonvotingSound
<1>4. totalNonvoting' = totalNonvoting - nonvoting[account] + x
  BY <1>1, <1>2, <1>3
<1> HIDE DEF x
<1>5. NonvotingSound'
  BY <1>1, <1>2, <1>4, NonvotingChange
<1> QED BY <1>2, <1>3, <1>5

\* What _decrementNonvotingAccountBalance does.
LEMMA NonvotingDecremented ==
    ASSUME NonvotingSound, NEW account \in Accounts, NEW value \in Nat,
           decrementNonvotingAccountBalance(account, value)
    PROVE  NonvotingSound' /\ totalNonvoting' = totalNonvoting - value /\ totalNonvoting \in Nat
<1> DEFINE x == nonvoting[account] - value
<1>1. nonvoting[account] \in Nat /\ x \in Nat
  BY DEF NonvotingSound, decrementNonvotingAccountBalance
<1>2. nonvoting' = Updated(nonvoting, account, x) /\ totalNonvoting' = totalNonvoting - value
  BY DEF decrementNonvotingAccountBalance, Updated
<1>3. totalNonvoting \in Nat
  BY ElectionAssumption, SumOfAllType DEF NonvotingSound
<1>4. totalNonvoting' = totalNonvoting - nonvoting[account] + x
  BY <1>1, <1>2, <1>3
<1> HIDE DEF x
<1>5. NonvotingSound'
  BY <1>1, <1>2, <1>4, NonvotingChange
<1> QED BY <1>2, <1>3, <1>5

\* The new contracts satisfy the inductive invariant.
LEMMA InitInvariant == Init => IInv
<1> SUFFICES ASSUME Init PROVE IInv
  OBVIOUS
<1>1. VotesSound(votes) /\ getTotalVotes(votes) = 0
  BY NoVotesSound DEF Init
<1>2. NonvotingSound /\ totalNonvoting = 0
  <2>1. nonvoting \in [Accounts -> Nat] /\ DOMAIN nonvoting = Accounts
        /\ totalNonvoting = 0 /\ \A a \in Accounts : nonvoting[a] = 0
    BY DEF Init
  <2>2. SumFunction(nonvoting) = 0
    BY <2>1, ElectionAssumption, SumOfAll, SumZero
  <2> QED BY <2>1, <2>2 DEF NonvotingSound
<1>3. WithdrawalsTyped
  <2>1. <<>> \in Seq(Withdrawal)
    OBVIOUS
  <2> QED BY <2>1 DEF Init, WithdrawalsTyped
<1>4. allWaiting(pendingWithdrawals) = 0
  <2>1. waiting(<<>>) = 0
    <3> DEFINE f == [i \in DOMAIN <<>> |-> <<>>[i].value]
    <3>1. DOMAIN f = {} /\ waiting(<<>>) = SumFunction(f)
      BY DEF waiting
    <3> HIDE DEF f
    <3> QED BY <3>1, SumOfAll, SumEmpty
  <2> DEFINE f == [a \in Accounts |-> waiting(pendingWithdrawals[a])]
  <2>2. DOMAIN f = Accounts /\ \A a \in Accounts : f[a] = 0
    BY <2>1 DEF Init
  <2>3. allWaiting(pendingWithdrawals) = SumFunction(f)
    BY DEF allWaiting
  <2> HIDE DEF f
  <2> QED BY <2>2, <2>3, ElectionAssumption, SumOfAll, SumZero
<1>5. ClocksTyped /\ balance = 0
  BY DEF Init, ClocksTyped
<1> QED BY <1>1, <1>2, <1>3, <1>4, <1>5 DEF IInv, GoldHeld

\* The parts of the invariant that a step leaves alone.
LEMMA VotesUnchanged ==
    ASSUME IInv, UNCHANGED votes
    PROVE  VotesSound(votes)' /\ getTotalVotes(votes)' = getTotalVotes(votes)
BY DEF IInv

\* The nonvoting gold,
LEMMA NonvotingUnchanged ==
    ASSUME IInv, UNCHANGED <<nonvoting, totalNonvoting>>
    PROVE  NonvotingSound'
BY DEF IInv, NonvotingSound

\* the pending withdrawals,
LEMMA WithdrawalsUnchanged ==
    ASSUME IInv, UNCHANGED pendingWithdrawals
    PROVE  WithdrawalsTyped' /\ allWaiting(pendingWithdrawals)' = allWaiting(pendingWithdrawals)
BY DEF IInv, WithdrawalsTyped

\* and the clocks.
LEMMA ClocksUnchanged ==
    ASSUME IInv, UNCHANGED clocks
    PROVE  ClocksTyped'
BY DEF IInv, ClocksTyped, clocks

\* lock keeps the inductive invariant.
LEMMA LockStep ==
    ASSUME IInv, NEW account \in Accounts, NEW value \in Nat, Lock(account, value)
    PROVE  IInv'
<1>1. /\ incrementNonvotingAccountBalance(account, value) /\ balance' = balance + value
      /\ UNCHANGED votes /\ UNCHANGED pendingWithdrawals /\ UNCHANGED clocks
  BY DEF Lock
<1>2. NonvotingSound' /\ totalNonvoting' = totalNonvoting + value
  BY <1>1, NonvotingIncremented DEF IInv
<1>3. VotesSound(votes)' /\ getTotalVotes(votes)' = getTotalVotes(votes)
  BY <1>1, VotesUnchanged
<1>4. WithdrawalsTyped' /\ allWaiting(pendingWithdrawals)' = allWaiting(pendingWithdrawals)
  BY <1>1, WithdrawalsUnchanged
<1>5. ClocksTyped'
  BY <1>1, ClocksUnchanged
<1>6. GoldHeld'
  BY <1>1, <1>2, <1>3, <1>4, Amounts DEF IInv, GoldHeld
<1> QED BY <1>2, <1>3, <1>4, <1>5, <1>6 DEF IInv

\* unlock keeps it.
LEMMA UnlockStep ==
    ASSUME IInv, NEW account \in Accounts, NEW value \in Nat, Unlock(account, value)
    PROVE  IInv'
<1> DEFINE list == pendingWithdrawals[account]
           w == [value |-> value, timestamp |-> now + unlockingPeriod]
           longer == Append(list, w)
<1>1. /\ decrementNonvotingAccountBalance(account, value)
      /\ pendingWithdrawals' = Updated(pendingWithdrawals, account, longer)
      /\ UNCHANGED votes /\ UNCHANGED balance /\ UNCHANGED clocks
  BY DEF Unlock, Updated
<1>2. NonvotingSound' /\ totalNonvoting' = totalNonvoting - value
  BY <1>1, NonvotingDecremented DEF IInv
<1>3. VotesSound(votes)' /\ getTotalVotes(votes)' = getTotalVotes(votes)
  BY <1>1, VotesUnchanged
<1>4. w \in Withdrawal /\ w.value = value
  BY LockedGoldAssumption DEF Withdrawal, IInv, ClocksTyped
<1>5. list \in Seq(Withdrawal) /\ longer = Append(list, w) /\ list = pendingWithdrawals[account]
  BY DEF IInv, WithdrawalsTyped
<1> HIDE DEF w, list, longer
<1>6. longer \in Seq(Withdrawal) /\ waiting(longer) = waiting(list) + value
  BY <1>4, <1>5, WaitingAppended
<1>7. waiting(list) \in Nat
  BY <1>5, WithdrawalsOf
<1>8. /\ WithdrawalsTyped'
      /\ allWaiting(pendingWithdrawals')
            = allWaiting(pendingWithdrawals) - waiting(list) + waiting(longer)
  BY <1>1, <1>5, <1>6, AllWaitingChange DEF IInv
<1>9. ClocksTyped'
  BY <1>1, ClocksUnchanged
<1>10. GoldHeld'
  <2>1. /\ totalNonvoting \in Nat /\ getTotalVotes(votes) \in Nat
        /\ allWaiting(pendingWithdrawals) \in Nat
        /\ balance = totalNonvoting + getTotalVotes(votes) + allWaiting(pendingWithdrawals)
    BY Amounts DEF IInv, GoldHeld
  <2>2. allWaiting(pendingWithdrawals') = allWaiting(pendingWithdrawals) + value
    BY <1>6, <1>7, <1>8, <2>1
  <2>3. balance' = totalNonvoting' + getTotalVotes(votes)' + allWaiting(pendingWithdrawals')
    BY <1>1, <1>2, <1>3, <2>1, <2>2
  <2> QED BY <2>3 DEF GoldHeld
<1> QED BY <1>2, <1>3, <1>8, <1>9, <1>10 DEF IInv

\* relock keeps it, whether it deletes the withdrawal or lowers it.
LEMMA RelockStep ==
    ASSUME IInv, NEW account \in Accounts, NEW index \in DOMAIN pendingWithdrawals[account],
           NEW value \in Nat, Relock(account, index, value)
    PROVE  IInv'
<1> DEFINE list == pendingWithdrawals[account]
           old == list[index].value
           w == [list[index] EXCEPT !.value = old - value]
           rest == IF value = old THEN deletePendingWithdrawal(list, index)
                   ELSE Updated(list, index, w)
<1>1. /\ value <= old
      /\ incrementNonvotingAccountBalance(account, value)
      /\ pendingWithdrawals' = Updated(pendingWithdrawals, account, rest)
      /\ UNCHANGED votes /\ UNCHANGED balance /\ UNCHANGED clocks
  BY DEF Relock, Updated
<1>2. NonvotingSound' /\ totalNonvoting' = totalNonvoting + value
  BY <1>1, NonvotingIncremented DEF IInv
<1>3. VotesSound(votes)' /\ getTotalVotes(votes)' = getTotalVotes(votes)
  BY <1>1, VotesUnchanged
<1>4. list \in Seq(Withdrawal) /\ list = pendingWithdrawals[account]
  BY DEF IInv, WithdrawalsTyped
<1>5. /\ DOMAIN list = 1..Len(list) /\ waiting(list) \in Nat
      /\ \A i \in 1..Len(list) : list[i] \in Withdrawal /\ list[i].value \in Nat
  BY <1>4, WithdrawalsOf
<1>6. index \in 1..Len(list) /\ list[index] \in Withdrawal /\ old \in Nat
  BY <1>5
<1>7. rest = IF value = old THEN deletePendingWithdrawal(list, index) ELSE Updated(list, index, w)
  OBVIOUS
<1>8. w \in Withdrawal /\ w.value = old - value
  <2>1. list[index] \in Withdrawal /\ old - value \in Nat
    BY <1>1, <1>6
  <2> QED BY <2>1 DEF Withdrawal
<1>9. old = list[index].value
  OBVIOUS
<1> HIDE DEF list, old, w, rest
<1>10. rest \in Seq(Withdrawal) /\ waiting(rest) = waiting(list) - value
  <2>1. CASE value = old
    <3>1. rest = deletePendingWithdrawal(list, index)
      BY <1>7, <2>1
    <3> QED BY <1>4, <1>6, <1>9, <2>1, <3>1, WaitingDeleted
  <2>2. CASE value # old
    <3>1. rest = Updated(list, index, w)
      BY <1>7, <2>2
    <3>2. rest \in Seq(Withdrawal) /\ waiting(rest) = waiting(list) - list[index].value + w.value
      BY <1>4, <1>6, <1>8, <3>1, WaitingLowered, Z3
    <3> QED BY <1>5, <1>6, <1>8, <1>9, <3>2
  <2> QED BY <2>1, <2>2
<1>11. /\ WithdrawalsTyped'
       /\ allWaiting(pendingWithdrawals')
             = allWaiting(pendingWithdrawals) - waiting(list) + waiting(rest)
  BY <1>1, <1>4, <1>10, AllWaitingChange DEF IInv
<1>12. ClocksTyped'
  BY <1>1, ClocksUnchanged
<1>13. GoldHeld'
  <2>1. /\ totalNonvoting \in Nat /\ getTotalVotes(votes) \in Nat
        /\ allWaiting(pendingWithdrawals) \in Nat
        /\ balance = totalNonvoting + getTotalVotes(votes) + allWaiting(pendingWithdrawals)
    BY Amounts DEF IInv, GoldHeld
  <2>2. allWaiting(pendingWithdrawals') = allWaiting(pendingWithdrawals) - value
    BY <1>5, <1>10, <1>11, <2>1
  <2>3. balance' = totalNonvoting' + getTotalVotes(votes)' + allWaiting(pendingWithdrawals')
    BY <1>1, <1>2, <1>3, <2>1, <2>2
  <2> QED BY <2>3 DEF GoldHeld
<1> QED BY <1>2, <1>3, <1>11, <1>12, <1>13 DEF IInv

\* withdraw keeps it.
LEMMA WithdrawStep ==
    ASSUME IInv, NEW account \in Accounts, NEW index \in DOMAIN pendingWithdrawals[account],
           Withdraw(account, index)
    PROVE  IInv'
<1> DEFINE list == pendingWithdrawals[account]
           old == list[index].value
           rest == deletePendingWithdrawal(list, index)
<1>1. /\ balance' = balance - old
      /\ pendingWithdrawals' = Updated(pendingWithdrawals, account, rest)
      /\ UNCHANGED votes /\ UNCHANGED <<nonvoting, totalNonvoting>> /\ UNCHANGED clocks
  BY DEF Withdraw, Updated
<1>2. NonvotingSound' /\ totalNonvoting' = totalNonvoting
  BY <1>1, NonvotingUnchanged
<1>3. VotesSound(votes)' /\ getTotalVotes(votes)' = getTotalVotes(votes)
  BY <1>1, VotesUnchanged
<1>4. list \in Seq(Withdrawal) /\ list = pendingWithdrawals[account]
  BY DEF IInv, WithdrawalsTyped
<1>5. /\ DOMAIN list = 1..Len(list) /\ waiting(list) \in Nat
      /\ \A i \in 1..Len(list) : list[i] \in Withdrawal /\ list[i].value \in Nat
  BY <1>4, WithdrawalsOf
<1>6. index \in 1..Len(list) /\ old \in Nat /\ old = list[index].value
      /\ rest = deletePendingWithdrawal(list, index)
  BY <1>5
<1> HIDE DEF list, old, rest
<1>7. rest \in Seq(Withdrawal) /\ waiting(rest) = waiting(list) - old
  BY <1>4, <1>6, WaitingDeleted
<1>8. /\ WithdrawalsTyped'
      /\ allWaiting(pendingWithdrawals')
            = allWaiting(pendingWithdrawals) - waiting(list) + waiting(rest)
  BY <1>1, <1>4, <1>7, AllWaitingChange DEF IInv
<1>9. ClocksTyped'
  BY <1>1, ClocksUnchanged
<1>10. GoldHeld'
  <2>1. /\ totalNonvoting \in Nat /\ getTotalVotes(votes) \in Nat
        /\ allWaiting(pendingWithdrawals) \in Nat
        /\ balance = totalNonvoting + getTotalVotes(votes) + allWaiting(pendingWithdrawals)
    BY Amounts DEF IInv, GoldHeld
  <2>2. allWaiting(pendingWithdrawals') = allWaiting(pendingWithdrawals) - old
    BY <1>5, <1>6, <1>7, <1>8, <2>1
  <2>3. balance' = totalNonvoting' + getTotalVotes(votes)' + allWaiting(pendingWithdrawals')
    BY <1>1, <1>2, <1>3, <1>6, <2>1, <2>2
  <2> QED BY <2>3 DEF GoldHeld
<1> QED BY <1>2, <1>3, <1>8, <1>9, <1>10 DEF IInv

\* What a slash takes of the nonvoting gold, and what it leaves Election to revoke.
LEMMA SlashShares ==
    ASSUME NEW penalty \in Nat, NEW own \in Nat, NEW voting \in Nat,
           NEW maxSlash, maxSlash = Min({penalty, own + voting}),
           NEW difference, difference = IF own < maxSlash THEN maxSlash - own ELSE 0
    PROVE  /\ maxSlash \in Nat /\ difference \in Nat
           /\ maxSlash - difference \in Nat /\ maxSlash - difference <= own
           /\ difference <= voting
<1>1. maxSlash = IF penalty <= own + voting THEN penalty ELSE own + voting
  BY MinOfTwo
<1> QED BY <1>1

\* slash keeps it: what nonvoting gold does not cover is revoked, and the reporter
\* gets a share.
LEMMA SlashStep ==
    ASSUME IInv, NEW account \in Accounts, NEW penalty \in Nat, NEW reporter \in Accounts,
           NEW reward \in Nat, Slash(account, penalty, reporter, reward)
    PROVE  IInv' /\ KeepsPrices(votes, votes')
<1> DEFINE own == nonvoting[account]
           voting == getTotalVotesByAccount(votes, account)
           maxSlash == Min({penalty, own + voting})
           difference == IF own < maxSlash THEN maxSlash - own ELSE 0
           taken == maxSlash - difference
           decremented == Updated(nonvoting, account, own - taken)
           x == decremented[reporter] + reward
<1>1. /\ votes' \in IF difference > 0 THEN forceDecrementVotes(votes, account, difference)
                                      ELSE {votes}
      /\ nonvoting' = Updated(decremented, reporter, x)
      /\ totalNonvoting' = totalNonvoting - taken + reward
      /\ balance' = balance - (maxSlash - reward)
      /\ UNCHANGED pendingWithdrawals /\ UNCHANGED clocks
  BY DEF Slash, getAccountTotalLockedGold, nonvotingShare, Updated
<1>2. own \in Nat /\ voting \in Nat
  BY Amounts
<1>3. /\ maxSlash \in Nat /\ difference \in Nat /\ taken \in Nat /\ taken <= own
      /\ difference <= voting
  <2>1. maxSlash = Min({penalty, own + voting})
    OBVIOUS
  <2>2. difference = IF own < maxSlash THEN maxSlash - own ELSE 0
    OBVIOUS
  <2> HIDE DEF own, voting, maxSlash, difference
  <2> QED BY <1>2, <2>1, <2>2, SlashShares
<1>4. taken = maxSlash - difference
  OBVIOUS
<1>5. own = nonvoting[account] /\ decremented = Updated(nonvoting, account, own - taken)
      /\ x = decremented[reporter] + reward
  OBVIOUS
<1> HIDE DEF own, voting, maxSlash, difference, taken, decremented, x
<1>6. nonvoting \in [Accounts -> Nat] /\ totalNonvoting = SumFunction(nonvoting)
  BY DEF IInv, NonvotingSound
<1>7. /\ decremented \in [Accounts -> Nat]
      /\ SumFunction(decremented) = totalNonvoting - taken
  <2> DEFINE y == own - taken
  <2>1. y \in Nat
    BY <1>2, <1>3
  <2>2. decremented = Updated(nonvoting, account, y)
    BY <1>5
  <2> HIDE DEF y
  <2>3. /\ decremented \in [Accounts -> Nat] /\ DOMAIN decremented = Accounts
        /\ decremented[account] = y
        /\ \A a \in Accounts \ {account} : decremented[a] = nonvoting[a]
    BY <1>6, <2>1, <2>2 DEF Updated
  <2>4. SumFunction(decremented) = SumFunction(nonvoting) - nonvoting[account] + y
        /\ SumFunction(nonvoting) \in Nat
    BY <1>6, <2>1, <2>3, SumOverAccounts
  <2> QED BY <1>2, <1>3, <1>5, <1>6, <2>3, <2>4 DEF y
<1>8. nonvoting' \in [Accounts -> Nat] /\ totalNonvoting' = SumFunction(nonvoting')
  <2>1. x \in Nat
    BY <1>5, <1>7
  <2>2. /\ nonvoting' \in [Accounts -> Nat] /\ DOMAIN nonvoting' = Accounts
        /\ nonvoting'[reporter] = x
        /\ \A a \in Accounts \ {reporter} : nonvoting'[a] = decremented[a]
    BY <1>1, <1>7, <2>1 DEF Updated
  <2>3. /\ SumFunction(nonvoting') = SumFunction(decremented) - decremented[reporter] + x
        /\ SumFunction(decremented) \in Nat /\ decremented[reporter] \in Nat
    BY <1>7, <2>1, <2>2, SumOverAccounts
  <2> QED BY <1>1, <1>5, <1>7, <2>2, <2>3
<1>9. NonvotingSound'
  BY <1>8 DEF NonvotingSound
<1>10. /\ VotesSound(votes') /\ getTotalVotes(votes') = getTotalVotes(votes) - difference
       /\ KeepsPrices(votes, votes')
  <2>1. CASE difference > 0
    <3>1. votes' \in forceDecrementVotes(votes, account, difference)
      BY <1>1, <2>1
    <3> QED BY <1>3, <3>1, ForceDecrementVotes DEF IInv
  <2>2. CASE ~(difference > 0)
    <3>1. difference = 0 /\ votes' = votes
      BY <1>1, <1>3, <2>2
    <3>2. KeepsPrices(votes, votes)
      BY PriceStays DEF IInv, VotesSound, KeepsPrices
    <3> QED BY <3>1, <3>2, Amounts DEF IInv
  <2> QED BY <2>1, <2>2
<1>11. WithdrawalsTyped' /\ allWaiting(pendingWithdrawals') = allWaiting(pendingWithdrawals)
  BY <1>1, WithdrawalsUnchanged
<1>12. ClocksTyped'
  BY <1>1, ClocksUnchanged
<1>13. GoldHeld'
  <2>1. balance' = totalNonvoting' + getTotalVotes(votes') + allWaiting(pendingWithdrawals')
    BY <1>1, <1>3, <1>4, <1>10, <1>11, Amounts DEF IInv, GoldHeld
  <2> QED BY <2>1 DEF GoldHeld
<1> QED BY <1>9, <1>10, <1>11, <1>12, <1>13 DEF IInv

\* vote keeps it.
LEMMA VoteStep ==
    ASSUME IInv, NEW account \in Accounts, NEW group \in Groups, NEW value \in Nat,
           Vote(account, group, value)
    PROVE  IInv' /\ KeepsPrices(votes, votes')
<1> DEFINE groups == votes.groupsVotedFor[account]
           already == \E i \in DOMAIN groups : groups[i] = group
           listed == IF already THEN votes
                     ELSE [votes EXCEPT !.groupsVotedFor[account] = Append(@, group)]
<1>1. /\ isEligible(votes, group)
      /\ votes' \in incrementTotalVotes(
                        incrementPendingVotes(listed, group, account, value, epoch), group, value)
      /\ decrementNonvotingAccountBalance(account, value)
      /\ UNCHANGED pendingWithdrawals /\ UNCHANGED balance /\ UNCHANGED clocks
  BY DEF Vote
<1>2. already <=> Lists(votes, account, group)
  BY DEF Lists
<1>3. listed = IF already THEN votes
               ELSE SetGroupsVotedFor(votes, account, Append(votes.groupsVotedFor[account], group))
  BY DEF SetGroupsVotedFor
<1> HIDE DEF already, listed
<1>4. VotesSound(votes) /\ epoch \in Nat
  BY DEF IInv, ClocksTyped
<1>5. /\ VotesSound(listed) /\ Lists(listed, account, group) /\ isEligible(listed, group)
      /\ getTotalVotes(listed) = getTotalVotes(votes) /\ listed.active = votes.active
  <2>1. CASE already
    BY <1>1, <1>2, <1>3, <1>4, <2>1
  <2>2. CASE ~already
    <3>1. /\ VotesSound(listed) /\ Lists(listed, account, group)
          /\ listed.pending = votes.pending /\ listed.active = votes.active
          /\ listed.eligible = votes.eligible
      BY <1>2, <1>3, <1>4, <2>2, GroupListed
    <3> QED BY <1>1, <3>1 DEF isEligible, getTotalVotes
  <2> QED BY <2>1, <2>2
<1>6. /\ VotesSound(votes') /\ getTotalVotes(votes') = getTotalVotes(votes) + value
      /\ KeepsPrices(listed, votes')
  BY <1>1, <1>4, <1>5, VotesCast
<1>7. NonvotingSound' /\ totalNonvoting' = totalNonvoting - value
  BY <1>1, NonvotingDecremented DEF IInv
<1>8. WithdrawalsTyped' /\ allWaiting(pendingWithdrawals') = allWaiting(pendingWithdrawals)
  BY <1>1, WithdrawalsUnchanged
<1>9. ClocksTyped'
  BY <1>1, ClocksUnchanged
<1>10. balance' = totalNonvoting' + getTotalVotes(votes') + allWaiting(pendingWithdrawals')
  BY <1>1, <1>6, <1>7, <1>8, Amounts DEF IInv, GoldHeld
<1>11. KeepsPrices(votes, votes')
  BY <1>5, <1>6 DEF KeepsPrices
<1> QED BY <1>6, <1>7, <1>8, <1>9, <1>10, <1>11 DEF IInv, GoldHeld

\* A step that changes the votes alone.
LEMMA OnlyVotesChange ==
    ASSUME IInv, UNCHANGED <<lockVars, clocks>>,
           VotesSound(votes'), getTotalVotes(votes') = getTotalVotes(votes)
    PROVE  IInv'
<1>1. /\ UNCHANGED <<nonvoting, totalNonvoting>> /\ UNCHANGED pendingWithdrawals
      /\ UNCHANGED balance /\ UNCHANGED clocks
  BY DEF lockVars
<1>2. NonvotingSound' /\ WithdrawalsTyped' /\ ClocksTyped'
      /\ allWaiting(pendingWithdrawals') = allWaiting(pendingWithdrawals)
  BY <1>1, NonvotingUnchanged, WithdrawalsUnchanged, ClocksUnchanged
<1>3. balance' = totalNonvoting' + getTotalVotes(votes') + allWaiting(pendingWithdrawals')
  BY <1>1, <1>2 DEF IInv, GoldHeld
<1> QED BY <1>2, <1>3 DEF IInv, GoldHeld

\* activate keeps it.
LEMMA ActivateStep ==
    ASSUME IInv, NEW account \in Accounts, NEW group \in Groups, Activate(account, group)
    PROVE  IInv' /\ KeepsPrices(votes, votes')
<1> DEFINE value == getPendingVotesForGroupByAccount(votes, group, account)
<1>1. /\ value > 0
      /\ votes' = incrementActiveVotes(decrementPendingVotes(votes, group, account, value),
                                       group, account, value)
      /\ UNCHANGED <<lockVars, clocks>>
  BY DEF Activate, getPendingVotesForGroupByAccount
<1>2. VotesSound(votes) /\ Counted(votes)
  BY DEF IInv, VotesSound
<1>3. value \in Nat
  BY <1>2, ActiveVotesTyped
<1>4. value = getPendingVotesForGroupByAccount(votes, group, account)
  OBVIOUS
<1> HIDE DEF value
<1>5. value \in Nat \ {0} /\ value <= getPendingVotesForGroupByAccount(votes, group, account)
  BY <1>1, <1>3, <1>4
<1>6. /\ VotesSound(votes') /\ getTotalVotes(votes') = getTotalVotes(votes)
      /\ KeepsPrices(votes, votes')
  BY <1>1, <1>2, <1>5, Activated, Z3
<1> QED BY <1>1, <1>6, OnlyVotesChange

\* A revocation gives back as nonvoting gold what it takes of the votes.
LEMMA RevokeStep ==
    ASSUME IInv, NEW account \in Accounts, NEW value \in Nat,
           VotesSound(votes'), getTotalVotes(votes') = getTotalVotes(votes) - value,
           incrementNonvotingAccountBalance(account, value),
           UNCHANGED <<pendingWithdrawals, balance, clocks>>
    PROVE  IInv'
<1>1. NonvotingSound' /\ totalNonvoting' = totalNonvoting + value
  BY NonvotingIncremented DEF IInv
<1>2. WithdrawalsTyped' /\ allWaiting(pendingWithdrawals') = allWaiting(pendingWithdrawals)
  BY WithdrawalsUnchanged
<1>3. ClocksTyped'
  BY ClocksUnchanged
<1>4. balance' = totalNonvoting' + getTotalVotes(votes') + allWaiting(pendingWithdrawals')
  BY <1>1, <1>2, Amounts DEF IInv, GoldHeld
<1> QED BY <1>1, <1>2, <1>3, <1>4 DEF IInv, GoldHeld

\* revokePending keeps it.
LEMMA RevokePendingStep ==
    ASSUME IInv, NEW account \in Accounts, NEW group \in Groups, NEW value \in Nat,
           RevokePending(account, group, value)
    PROVE  IInv'
<1>1. /\ value \in Nat \ {0}
      /\ value <= getPendingVotesForGroupByAccount(votes, group, account)
      /\ votes' \in afterRevocation(decrementPendingVotes(votes, group, account, value),
                                    account, group, value)
      /\ incrementNonvotingAccountBalance(account, value)
      /\ UNCHANGED <<pendingWithdrawals, balance, clocks>>
  BY DEF RevokePending
<1>2. VotesSound(votes)
  BY DEF IInv
<1>3. VotesSound(votes') /\ getTotalVotes(votes') = getTotalVotes(votes) - value
  BY <1>1, <1>2, PendingRevoked
<1> QED BY <1>1, <1>3, RevokeStep

\* revokeActive keeps it.
LEMMA RevokeActiveStep ==
    ASSUME IInv, NEW account \in Accounts, NEW group \in Groups, NEW value \in Nat,
           RevokeActive(account, group, value)
    PROVE  IInv'
<1>1. /\ value \in Nat \ {0}
      /\ value <= getActiveVotesForGroupByAccount(votes, group, account)
      /\ votes' \in afterRevocation(decrementActiveVotes(votes, group, account, value),
                                    account, group, value)
      /\ incrementNonvotingAccountBalance(account, value)
      /\ UNCHANGED <<pendingWithdrawals, balance, clocks>>
  BY DEF RevokeActive
<1>2. VotesSound(votes)
  BY DEF IInv
<1>3. VotesSound(votes') /\ getTotalVotes(votes') = getTotalVotes(votes) - value
  BY <1>1, <1>2, ActiveRevoked
<1> QED BY <1>1, <1>3, RevokeStep

\* markGroupEligible keeps it.
LEMMA MarkGroupEligibleStep ==
    ASSUME IInv, NEW group \in Groups, MarkGroupEligible(group)
    PROVE  IInv'
<1>1. PICK q \in Placements(votes.eligible, group, getTotalVotesForGroup(votes, group)) :
         votes' = [votes EXCEPT !.eligible = q]
  BY DEF MarkGroupEligible
<1>2. ~isEligible(votes, group) /\ UNCHANGED <<lockVars, clocks>>
  BY DEF MarkGroupEligible
<1>3. VotesSound(votes)
  BY DEF IInv
<1>4. VotesSound(votes') /\ getTotalVotes(votes') = getTotalVotes(votes)
  BY <1>1, <1>2, <1>3, MarkedEligible
<1> QED BY <1>2, <1>4, OnlyVotesChange

\* markGroupIneligible keeps it.
LEMMA MarkGroupIneligibleStep ==
    ASSUME IInv, NEW group \in Groups, MarkGroupIneligible(group)
    PROVE  IInv'
<1>1. /\ isEligible(votes, group)
      /\ votes' = [votes EXCEPT !.eligible = Without(votes.eligible, group)]
      /\ UNCHANGED <<lockVars, clocks>>
  BY DEF MarkGroupIneligible
<1>2. VotesSound(votes)
  BY DEF IInv
<1>3. VotesSound(votes') /\ getTotalVotes(votes') = getTotalVotes(votes)
  BY <1>1, <1>2, MarkedIneligible
<1> QED BY <1>1, <1>3, OnlyVotesChange

\* distributeEpochRewards keeps it, with the gold the client mints.
LEMMA DistributeEpochRewardsStep ==
    ASSUME IInv, NEW group \in Groups, NEW value \in Nat, DistributeEpochRewards(group, value)
    PROVE  IInv'
<1>1. PICK y \in IF isEligible(votes, group) THEN resorted(votes, group, value) ELSE {votes} :
         votes' = AddReward(y, group, value)
  BY DEF DistributeEpochRewards, AddReward
<1>2. /\ votes.active.forGroup[group].total > 0
      /\ balance' = balance + value /\ rewarded' = rewarded \cup {group}
      /\ UNCHANGED <<nonvoting, totalNonvoting>> /\ UNCHANGED pendingWithdrawals
      /\ UNCHANGED <<epoch, now>>
  BY DEF DistributeEpochRewards
<1>3. VotesSound(votes)
  BY DEF IInv
<1>4. VotesSound(votes') /\ getTotalVotes(votes') = getTotalVotes(votes) + value
  BY <1>1, <1>2, <1>3, Rewarded
<1>5. NonvotingSound' /\ WithdrawalsTyped'
      /\ allWaiting(pendingWithdrawals') = allWaiting(pendingWithdrawals)
  BY <1>2, NonvotingUnchanged, WithdrawalsUnchanged
<1>6. ClocksTyped'
  BY <1>2 DEF IInv, ClocksTyped
<1>7. balance' = totalNonvoting' + getTotalVotes(votes') + allWaiting(pendingWithdrawals')
  BY <1>2, <1>4, <1>5, Amounts DEF IInv, GoldHeld
<1> QED BY <1>4, <1>5, <1>6, <1>7 DEF IInv, GoldHeld

\* The passing of time touches neither votes nor gold.
LEMMA TimeStep ==
    ASSUME IInv, UNCHANGED <<votes, lockVars>>, ClocksTyped'
    PROVE  IInv'
BY DEF IInv, NonvotingSound, WithdrawalsTyped, GoldHeld, lockVars

\* One case for each disjunct of Next.
LEMMA NextInvariant == IInv /\ [Next]_vars => IInv'
<1> SUFFICES ASSUME IInv, [Next]_vars PROVE IInv'
  OBVIOUS
<1>0. /\ 0..MaxGold \subseteq Nat /\ 1..MaxGold \subseteq Nat /\ 1..MaxPenalty \subseteq Nat
      /\ 0..MaxPenalty \subseteq Nat /\ 1..MaxReward \subseteq Nat
  BY LockedGoldAssumption
<1>1. CASE Tick
  <2>1. ClocksTyped'
    BY <1>1 DEF Tick, IInv, ClocksTyped
  <2> QED BY <1>1, <2>1, TimeStep DEF Tick
<1>2. CASE NextEpoch
  <2>1. ClocksTyped'
    BY <1>2 DEF NextEpoch, IInv, ClocksTyped
  <2> QED BY <1>2, <2>1, TimeStep DEF NextEpoch
<1>3. ASSUME NEW a \in Accounts, NEW value \in 0..MaxGold, Lock(a, value) \/ Unlock(a, value)
      PROVE  IInv'
  BY <1>0, <1>3, LockStep, UnlockStep
<1>4. ASSUME NEW a \in Accounts, NEW index \in DOMAIN pendingWithdrawals[a],
             \/ Withdraw(a, index)
             \/ \E value \in 0..MaxGold : Relock(a, index, value)
      PROVE  IInv'
  BY <1>0, <1>4, WithdrawStep, RelockStep
<1>5. ASSUME NEW a \in Accounts, NEW reporter \in Accounts,
             NEW penalty \in 1..MaxPenalty, NEW reward \in 0..MaxPenalty,
             Slash(a, penalty, reporter, reward)
      PROVE  IInv'
  BY <1>0, <1>5, SlashStep
<1>6. ASSUME NEW a \in Accounts, NEW g \in Groups, Activate(a, g)
      PROVE  IInv'
  BY <1>6, ActivateStep
<1>7. ASSUME NEW a \in Accounts, NEW g \in Groups, NEW value \in 1..MaxGold,
             Vote(a, g, value) \/ RevokePending(a, g, value) \/ RevokeActive(a, g, value)
      PROVE  IInv'
  BY <1>0, <1>7, VoteStep, RevokePendingStep, RevokeActiveStep
<1>8. ASSUME NEW g \in Groups, MarkGroupEligible(g) \/ MarkGroupIneligible(g)
      PROVE  IInv'
  BY <1>8, MarkGroupEligibleStep, MarkGroupIneligibleStep
<1>9. ASSUME NEW g \in Groups, NEW value \in 1..MaxReward, DistributeEpochRewards(g, value)
      PROVE  IInv'
  BY <1>0, <1>9, DistributeEpochRewardsStep
<1>10. CASE UNCHANGED vars
  <2>1. UNCHANGED <<lockVars, clocks>> /\ votes' = votes
    BY <1>10 DEF vars
  <2> QED BY <2>1, OnlyVotesChange DEF IInv
<1> QED BY <1>1, <1>2, <1>3, <1>4, <1>5, <1>6, <1>7, <1>8, <1>9, <1>10 DEF Next

\* Every step of LockedGold.sol and Election.sol keeps the inductive invariant: the
\* counters are the sums of what they count, every pool prices its units, and the
\* gold held is the gold owed.
THEOREM Invariance == Spec => []IInv
<1>1. Init => IInv
  BY InitInvariant
<1>2. IInv /\ [Next]_vars => IInv'
  BY NextInvariant
<1> QED BY <1>1, <1>2, PTL DEF Spec

-----------------------------------------------------------------------------
(***************************************************************************)
(* What follows from it                                                    *)
(***************************************************************************)

\* No subtraction of LockedGold.sol or Election.sol ever goes below zero, in whatever
\* order gold is locked, voted, rewarded, revoked and slashed.
THEOREM TypeCorrect == Spec => []TypeOK
<1>1. IInv => TypeOK
  <2> SUFFICES ASSUME IInv PROVE TypeOK
    OBVIOUS
  <2>1. votes \in Votes
    BY DEF IInv, VotesSound, Counted
  <2>2. /\ votes.pending \in
             [total : Nat, forGroup : [Groups ->
                 [total : Nat, byAccount : [Accounts -> [value : Nat, epoch : Nat]]]]]
        /\ votes.active \in
             [total : Nat, forGroup : [Groups ->
                 [total : Nat, totalUnits : Nat, unitsByAccount : [Accounts -> Nat]]]]
        /\ votes.eligible \in Seq([key : Groups, value : Nat])
        /\ votes.groupsVotedFor \in [Accounts -> Seq(Groups)]
    BY <2>1 DEF Votes, PendingPool, ActivePool, Record, Shown
  <2>3. nonvoting \in [Accounts -> Nat] /\ totalNonvoting \in Nat /\ balance \in Nat
    BY Amounts
  <2>4. \A a \in Accounts : pendingWithdrawals[a] \in Seq([value : Nat, timestamp : Nat])
    BY DEF IInv, WithdrawalsTyped, Withdrawal
  <2>5. epoch \in Nat /\ rewarded \subseteq Groups /\ now \in Nat
    BY DEF IInv, ClocksTyped
  <2> QED BY <2>2, <2>3, <2>4, <2>5 DEF TypeOK
<1> QED BY <1>1, Invariance, PTL

\* LockedGold.sol holds exactly the gold that is nonvoting, votes, or waits to be
\* withdrawn: every withdrawal can be paid, and no gold is lost.
THEOREM GoldIsAccountedFor == Spec => []GoldAccountedFor
<1>1. IInv => GoldAccountedFor
  BY DEF IInv, GoldHeld, allWaiting, waiting, GoldAccountedFor
<1> QED BY <1>1, Invariance, PTL

\* Every total that LockedGold.sol and Election.sol keep is the sum of its parts.
THEOREM TotalsCorrect == Spec => []TotalsAreSums
<1>1. IInv => TotalsAreSums
  <2> SUFFICES ASSUME IInv PROVE TotalsAreSums
    OBVIOUS
  <2>1. Summed(votes) /\ totalNonvoting = SumFunction(nonvoting)
    BY DEF IInv, VotesSound, Counted, NonvotingSound
  <2> QED BY <2>1 DEF Summed, pendingTotals, activeTotals, pendingOf, TotalsAreSums
<1> QED BY <1>1, Invariance, PTL

\* The list of Election.sol by which validators are elected is sorted, and shows for
\* every group the votes it has.
THEOREM EligibleVotesShown == Spec => []EligibleShowsVotes
<1>1. IInv => EligibleShowsVotes
  BY DEF IInv, VotesSound, ShowsAllVotes, EligibleShowsVotes
<1> QED BY <1>1, Invariance, PTL

\* Rounded down, the parts of a pool are worth no more than the pool.
LEMMA WorthNoMoreThanPool ==
    ASSUME NEW v, Counted(v), NEW g \in Groups
    PROVE  SumFunction([a \in Accounts |-> getActiveVotesForGroupByAccount(v, g, a)])
              <= v.active.forGroup[g].total
<1> DEFINE T == v.active.forGroup[g].total
           U == v.active.forGroup[g].totalUnits
           units == v.active.forGroup[g].unitsByAccount
           worth == [a \in Accounts |-> getActiveVotesForGroupByAccount(v, g, a)]
           left  == [a \in Accounts |-> worth[a] * U]
           right == [a \in Accounts |-> units[a] * T]
<1>0. IsFiniteSet(Accounts)
  BY ElectionAssumption
<1>1. v \in Votes /\ U = SumFunction(units)
  BY DEF Counted, Summed
<1>2. T \in Nat /\ U \in Nat
  BY <1>1, GroupFields
<1>3. units \in [Accounts -> Nat] /\ \A a \in Accounts : units[a] \in Nat
  BY <1>1 DEF Votes, ActivePool
<1>4. DOMAIN worth = Accounts /\ \A a \in Accounts : worth[a] \in Nat
  BY ActiveVotesTyped
<1>5. \A a \in Accounts : worth[a] = IF U = 0 THEN 0 ELSE (units[a] * T) \div U
  BY DEF getActiveVotesForGroupByAccount, unitsToVotes
<1>6. /\ DOMAIN left = Accounts /\ \A a \in Accounts : left[a] = worth[a] * U
      /\ DOMAIN right = Accounts /\ \A a \in Accounts : right[a] = units[a] * T
  OBVIOUS
<1> HIDE DEF T, U, units, worth, left, right
<1>7. SumFunction(worth) = SumFunctionOnSet(worth, Accounts)
      /\ SumFunction(units) = SumFunctionOnSet(units, Accounts)
  BY <1>3, <1>4, SumOfAll
<1>8. SumFunctionOnSet(worth, Accounts) \in Nat
  BY <1>0, <1>4, SumType
<1>9. CASE U = 0
  <2>1. \A a \in Accounts : worth[a] = 0
    BY <1>5, <1>9
  <2>2. SumFunctionOnSet(worth, Accounts) = 0
    BY <1>0, <2>1, SumZero
  <2>3. SumFunction(worth) <= T
    BY <1>2, <1>7, <2>2
  <2> QED BY <2>3 DEF worth, T
<1>10. CASE U # 0
  <2>1. ASSUME NEW a \in Accounts
        PROVE  left[a] \in Int /\ right[a] \in Int /\ left[a] <= right[a]
    <3>1. worth[a] = (units[a] * T) \div U /\ units[a] * T \in Nat /\ U \in Nat \ {0}
      BY <1>2, <1>3, <1>5, <1>10
    <3>2. worth[a] * U <= units[a] * T /\ worth[a] * U \in Int
      <4> DEFINE x == units[a] * T
      <4>1. x \in Nat /\ worth[a] = x \div U
        BY <3>1
      <4> HIDE DEF x
      <4>2. worth[a] * U <= x
        BY <3>1, <4>1, QuotientBounds
      <4>3. worth[a] * U \in Int
        BY <1>2, <1>4
      <4> QED BY <4>2, <4>3 DEF x
    <3> QED BY <1>6, <3>1, <3>2
  <2>2. SumFunctionOnSet(left, Accounts) <= SumFunctionOnSet(right, Accounts)
    BY <1>0, <2>1, SumMonotone
  <2>3. SumFunctionOnSet(left, Accounts) = SumFunctionOnSet(worth, Accounts) * U
    BY <1>0, <1>2, <1>4, <1>6, SumScaled
  <2>4. SumFunctionOnSet(right, Accounts) = SumFunctionOnSet(units, Accounts) * T
    BY <1>0, <1>2, <1>3, <1>6, SumScaled
  <2>5. SumFunctionOnSet(worth, Accounts) * U <= T * U
    <3>1. SumFunctionOnSet(units, Accounts) = U /\ U * T = T * U
      BY <1>1, <1>2, <1>7
    <3> QED BY <2>2, <2>3, <2>4, <3>1
  <2>6. SumFunctionOnSet(worth, Accounts) <= T
    <3>1. SumFunctionOnSet(worth, Accounts) \in Int /\ T \in Int /\ U \in Nat \ {0}
      BY <1>2, <1>8, <1>10
    <3> QED BY <2>5, <3>1, ProductCancels
  <2>7. SumFunction(worth) <= T
    BY <1>7, <2>6
  <2> QED BY <2>7 DEF worth, T
<1> QED BY <1>9, <1>10

\* What the voters of a group can revoke never exceeds the group's pool, for any
\* rewards and whatever votesToUnits and unitsToVotes truncate.
THEOREM PoolsCoverVoters == Spec => []PoolCoversVoters
<1>1. IInv => PoolCoversVoters
  <2> SUFFICES ASSUME IInv PROVE PoolCoversVoters
    OBVIOUS
  <2>1. Counted(votes)
    BY DEF IInv, VotesSound
  <2>2. \A g \in Groups :
           SumFunction([a \in Accounts |-> getActiveVotesForGroupByAccount(votes, g, a)])
              <= votes.active.forGroup[g].total
    BY <2>1, WorthNoMoreThanPool
  <2>3. \A g \in Groups :
           votes.active.forGroup[g].total = 0 <=> votes.active.forGroup[g].totalUnits = 0
    BY <2>1 DEF Counted, Priced
  <2> QED BY <2>2, <2>3 DEF PoolCoversVoters
<1> QED BY <1>1, Invariance, PTL

\* forceDecrementVotes finds every value an account's votes amount to, however they
\* are spread over groups, pending and active votes: no slash can be blocked by that.
THEOREM SlashAlwaysFindsVotes == Spec => []SlashFindsVotes
<1>1. IInv => SlashFindsVotes
  <2> SUFFICES ASSUME IInv, NEW a \in Accounts,
                      NEW value \in 1..getTotalVotesByAccount(votes, a)
               PROVE  forceDecrementVotes(votes, a, value) # {}
    BY DEF SlashFindsVotes
  <2>1. getTotalVotesByAccount(votes, a) \in Nat
    BY Amounts
  <2>2. value \in Nat /\ value <= getTotalVotesByAccount(votes, a)
    BY <2>1
  <2>3. VotesSound(votes)
    BY DEF IInv
  <2> QED BY <2>2, <2>3, ForceDecrementVotes
<1> QED BY <1>1, Invariance, PTL

\* groupsVotedFor lists every group for which an account has pending votes, or units
\* that a new pool would sell for a vote, and lists it once: slashing goes through it.
THEOREM VotesAlwaysListed == Spec => []VotesAreListed
<1>1. IInv => VotesAreListed
  BY DEF IInv, VotesSound, Counted, ListsVotes, Lists, VotesAreListed,
         getPendingVotesForGroupByAccount
<1> QED BY <1>1, Invariance, PTL

-----------------------------------------------------------------------------
(***************************************************************************)
(* What a step costs those who do not take it                              *)
(***************************************************************************)

\* A price that is kept costs an account no more than a vote and the worth of a unit.
LEMMA LossInPool ==
    ASSUME NEW v, Counted(v), NEW w, Counted(w), NEW a \in Accounts, NEW g \in Groups,
           KeepsPrice(v.active.forGroup[g], w.active.forGroup[g]),
           w.active.forGroup[g].unitsByAccount[a] = v.active.forGroup[g].unitsByAccount[a]
    PROVE  getActiveVotesForGroupByAccount(w, g, a) + 1 + unitsToVotes(v, g, 1)
              >= getActiveVotesForGroupByAccount(v, g, a)
<1> DEFINE T == v.active.forGroup[g].total
           U == v.active.forGroup[g].totalUnits
           R == w.active.forGroup[g].total
           V == w.active.forGroup[g].totalUnits
           u == v.active.forGroup[g].unitsByAccount[a]
           before == getActiveVotesForGroupByAccount(v, g, a)
           after == getActiveVotesForGroupByAccount(w, g, a)
           q == unitsToVotes(v, g, 1)
<1>1. v \in Votes /\ w \in Votes /\ Summed(w)
  BY DEF Counted
<1>2. T \in Nat /\ U \in Nat /\ R \in Nat /\ V \in Nat /\ u \in Nat
  BY <1>1, PendingFields
<1>3. u <= V
  BY <1>1, Covered
<1>4. /\ before = IF U = 0 THEN 0 ELSE (u * T) \div U
      /\ after = IF V = 0 THEN 0 ELSE (u * R) \div V
      /\ q = IF U = 0 THEN 0 ELSE (1 * T) \div U
  BY DEF getActiveVotesForGroupByAccount, unitsToVotes
<1>5. U # 0 => T * V < R * U + T
  BY DEF KeepsPrice
<1>6. after \in Nat
  BY ActiveVotesTyped
<1> HIDE DEF T, U, R, V, u, before, after, q
<1>7. CASE U = 0
  BY <1>4, <1>6, <1>7 DEF before, after, q
<1>8. CASE U # 0
  <2>1. U \in Nat \ {0} /\ before = (u * T) \div U /\ 1 * T = T
    BY <1>2, <1>4, <1>8
  <2>2. q = T \div U
    BY <1>4, <1>8, <2>1
  <2>3. after + 1 + q >= before
    BY <1>2, <1>3, <1>4, <1>5, <1>8, <2>1, <2>2, LossByRounding
  <2> QED BY <2>3 DEF before, after, q
<1> QED BY <1>7, <1>8

\* Every step keeps the price of every pool.
LEMMA NextPrices == IInv /\ [Next]_vars => KeepsPrices(votes, votes')
<1> SUFFICES ASSUME IInv, [Next]_vars PROVE KeepsPrices(votes, votes')
  OBVIOUS
<1>0. /\ VotesSound(votes) /\ Counted(votes) /\ 1..MaxGold \subseteq Nat \ {0}
      /\ 1..MaxPenalty \subseteq Nat /\ 1..MaxReward \subseteq Nat
  BY LockedGoldAssumption DEF IInv, VotesSound
<1>1. ASSUME votes'.active = votes.active PROVE KeepsPrices(votes, votes')
  BY <1>0, <1>1, PriceStays DEF KeepsPrices
<1>2. CASE Tick \/ NextEpoch \/ UNCHANGED vars
  BY <1>1, <1>2 DEF Tick, NextEpoch, vars
<1>3. ASSUME NEW a \in Accounts, NEW value \in 0..MaxGold, Lock(a, value) \/ Unlock(a, value)
      PROVE  KeepsPrices(votes, votes')
  BY <1>1, <1>3 DEF Lock, Unlock
<1>4. ASSUME NEW a \in Accounts, NEW index \in DOMAIN pendingWithdrawals[a],
             \/ Withdraw(a, index)
             \/ \E value \in 0..MaxGold : Relock(a, index, value)
      PROVE  KeepsPrices(votes, votes')
  BY <1>1, <1>4 DEF Withdraw, Relock
<1>5. ASSUME NEW a \in Accounts, NEW reporter \in Accounts,
             NEW penalty \in 1..MaxPenalty, NEW reward \in 0..MaxPenalty,
             Slash(a, penalty, reporter, reward)
      PROVE  KeepsPrices(votes, votes')
  BY <1>0, <1>5, SlashStep
<1>6. ASSUME NEW a \in Accounts, NEW g \in Groups, Activate(a, g)
      PROVE  KeepsPrices(votes, votes')
  BY <1>6, ActivateStep
<1>7. ASSUME NEW a \in Accounts, NEW g \in Groups, NEW value \in 1..MaxGold, Vote(a, g, value)
      PROVE  KeepsPrices(votes, votes')
  BY <1>0, <1>7, VoteStep
<1>8. ASSUME NEW a \in Accounts, NEW g \in Groups, NEW value \in 1..MaxGold,
             RevokePending(a, g, value) \/ RevokeActive(a, g, value)
      PROVE  KeepsPrices(votes, votes')
  BY <1>0, <1>8, PendingRevoked, ActiveRevoked DEF RevokePending, RevokeActive
<1>9. ASSUME NEW g \in Groups, MarkGroupEligible(g) \/ MarkGroupIneligible(g)
      PROVE  KeepsPrices(votes, votes')
  <2>1. PICK q : votes' = [votes EXCEPT !.eligible = q]
    BY <1>9 DEF MarkGroupEligible, MarkGroupIneligible
  <2>2. votes'.active = votes.active
    BY <2>1
  <2> QED BY <1>1, <2>2
<1>10. ASSUME NEW g \in Groups, NEW value \in 1..MaxReward, DistributeEpochRewards(g, value)
       PROVE  KeepsPrices(votes, votes')
  <2>1. PICK y \in IF isEligible(votes, g) THEN resorted(votes, g, value) ELSE {votes} :
           votes' = AddReward(y, g, value)
    BY <1>10 DEF DistributeEpochRewards, AddReward
  <2>2. votes.active.forGroup[g].total > 0 /\ value \in Nat
    BY <1>0, <1>10 DEF DistributeEpochRewards
  <2> QED BY <1>0, <2>1, <2>2, Rewarded
<1> QED BY <1>2, <1>3, <1>4, <1>5, <1>6, <1>7, <1>8, <1>9, <1>10 DEF Next

\* What an account has for a group falls, in a step that is not about its own units, by
\* at most one vote and the worth of a unit, whoever activates, revokes or is slashed,
\* and whatever rewards have made of the pool.
THEOREM OthersLoseOnlyDust == Spec => OthersTakeOnlyDust
<1>1. IInv /\ IInv' /\ [Next]_vars =>
         [\A a \in Accounts, g \in Groups :
             votes'.active.forGroup[g].unitsByAccount[a] = votes.active.forGroup[g].unitsByAccount[a]
             => getActiveVotesForGroupByAccount(votes', g, a) + 1 + unitsToVotes(votes, g, 1)
                   >= getActiveVotesForGroupByAccount(votes, g, a)]_vars
  <2> SUFFICES ASSUME IInv, IInv', [Next]_vars, NEW a \in Accounts, NEW g \in Groups,
                      votes'.active.forGroup[g].unitsByAccount[a]
                         = votes.active.forGroup[g].unitsByAccount[a]
               PROVE  getActiveVotesForGroupByAccount(votes', g, a) + 1 + unitsToVotes(votes, g, 1)
                         >= getActiveVotesForGroupByAccount(votes, g, a)
    OBVIOUS
  <2>1. Counted(votes) /\ Counted(votes')
    BY DEF IInv, VotesSound
  <2>2. KeepsPrice(votes.active.forGroup[g], votes'.active.forGroup[g])
    BY NextPrices DEF KeepsPrices
  <2> QED BY <2>1, <2>2, LossInPool
<1> QED BY <1>1, Invariance, PTL DEF Spec, OthersTakeOnlyDust

=============================================================================
