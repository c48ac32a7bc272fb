----------------------------- MODULE Governance -----------------------------
(***************************************************************************)
(* The life of a governance proposal in Governance.sol and Proposals.sol:  *)
(* it is proposed with a deposit, waits in a queue sorted by upvotes, is   *)
(* dequeued into a slot of the array dequeued, where it passes through the *)
(* approval, referendum and execution stages by the clock alone, and is    *)
(* executed or deleted when somebody touches it after it expired.          *)
(*                                                                         *)
(* A transaction is atomic, so every external function is one action.      *)
(* Nearly all of them first call dequeueProposalsIfReady and go on with    *)
(* the state it leaves: the contract's proposals are one record, gov, and  *)
(* the internal functions are operators on it.  A reverted call changes    *)
(* nothing and is not a step.                                              *)
(*                                                                         *)
(* The weights come from LockedGold, modelled here as far as Governance    *)
(* sees it: what each account has locked, the total, and unlock's question *)
(* to isVoting.  A vote signer is taken for the account it signs for.      *)
(***************************************************************************)
EXTENDS SortedSeq, FixidityLib, FiniteSets

CONSTANTS
    Proposers,      \* the accounts that propose
    Voters,         \* the accounts that lock gold, upvote and vote
    Payloads,       \* the sequences of transactions a proposal may consist of
    ConstitutionKeys, \* the (destination, function) pairs with a threshold
    InitialParams,  \* the parameters initialize sets
    Deposits,       \* the amounts of gold a proposer may send along
    StartTime,      \* the block timestamp at which the contract is initialized
    MaxTime,        \* bound on the clock
    MaxProposals,   \* bound on proposalCount
    InitialGold,    \* what every account has locked when the contract is initialized
    MaxGold,        \* bound on the gold locked by all the accounts together
    GoldMoves       \* which of "lock", "unlock" and "slash" happen

Counts == {"concurrentProposals", "minDeposit", "queueExpiry", "dequeueFrequency",
           "approval", "referendum", "execution"}

Fractions == {"baseline", "baselineFloor", "baselineUpdateFactor", "baselineQuorumFactor"}

ParamNames == Counts \cup Fractions

(***************************************************************************)
(* A payload is a sequence of transactions that send gold away, call the   *)
(* setters of Governance itself (which owns itself, so a proposal is the   *)
(* way to change a parameter), or do something elsewhere that Governance   *)
(* does not see.  A transaction is [destination, functionId, value, set,   *)
(* key, to]: set names the parameter it sets to to, or is "constitution"   *)
(* (to set the threshold of key) or "nothing".  A payload sets a parameter *)
(* or a threshold at most once.                                            *)
(***************************************************************************)
IsPayload(txs) ==
    /\ IsFiniteSet(DOMAIN txs)
    /\ \A j \in DOMAIN txs : txs[j].value \in Nat /\ txs[j].to \in Nat
    /\ \A j, k \in DOMAIN txs :
          (/\ txs[j].set = txs[k].set /\ txs[j].set # "nothing"
           /\ txs[j].set = "constitution" => txs[j].key = txs[k].key)
          => j = k

\* Block timestamps are seconds since 1970, far above any proposal ID.
ASSUME GovernanceAssumption ==
    /\ IsFiniteSet(Voters) /\ IsFiniteSet(Proposers) /\ "nobody" \notin Proposers
    /\ StartTime \in Nat /\ MaxTime \in Nat /\ MaxProposals \in Nat
    /\ InitialGold \in Nat /\ MaxGold \in Nat
    /\ StartTime > MaxProposals
    /\ Deposits \subseteq Nat
    /\ DOMAIN InitialParams = ParamNames
    /\ \A name \in ParamNames : InitialParams[name] \in Nat
    /\ \A txs \in Payloads : IsPayload(txs)

\* initialize calls the setters, which refuse other values.
ASSUME InitialParamsAssumption ==
    /\ \A name \in Counts : InitialParams[name] > 0
    /\ \A name \in Fractions : isProperFraction(InitialParams[name])

VARIABLES
    now,              \* the timestamp of the current block
    gov,              \* the contract's proposals, queue and slots
    upvote,           \* the proposal each account upvotes, and with what weight
    referendumVotes,  \* the vote record of each account, for each slot it voted at
    mostRecentReferendumProposal, \* what isVoting looks at
    refundedDeposits, \* the deposits each proposer may withdraw
    params,           \* the contract's numeric parameters
    constitution,     \* the thresholds set for particular functions
    balance,          \* the gold the contract holds
    locked,           \* LockedGold: the gold each account has locked
    totalLocked,      \* LockedGold: the total it keeps
    executed,         \* history: the proposals executed so far
    spent,            \* history: the gold that executed proposals paid out
    slashed           \* history: the gold each account lost to slashing

voterVars == <<upvote, referendumVotes, mostRecentReferendumProposal>>
ruleVars  == <<params, constitution>>
goldVars  == <<locked, totalLocked, slashed>>
history   == <<executed, spent>>

vars == <<now, gov, voterVars, refundedDeposits, ruleVars, balance, goldVars, history>>

VoteValues == {"Abstain", "No", "Yes"}

NoProposal ==
    [proposer |-> "nobody", deposit |-> 0, timestamp |-> 0, approved |-> FALSE,
     votes |-> [v \in VoteValues |-> 0], networkWeight |-> 0, transactions |-> <<>>]

NoUpvote == [proposalId |-> 0, weight |-> 0]

NoVote == [value |-> "None", proposalId |-> 0, weight |-> 0]

-----------------------------------------------------------------------------
(***************************************************************************)
(* Proposals.sol                                                           *)
(***************************************************************************)
exists(proposal) == proposal.timestamp > 0

make(account, deposit, txs) ==
    [proposer |-> account, deposit |-> deposit, timestamp |-> now, approved |-> FALSE,
     votes |-> [v \in VoteValues |-> 0], networkWeight |-> 0, transactions |-> txs]

getDequeuedStage(proposal) ==
    LET referendumStart == proposal.timestamp + params["approval"]
        executionStart  == referendumStart + params["referendum"]
        expiration      == executionStart + params["execution"]
    IN  IF now >= expiration THEN "Expiration"
        ELSE IF now >= executionStart THEN "Execution"
        ELSE IF now >= referendumStart THEN "Referendum"
        ELSE "Approval"

totalVotes(proposal) ==
    proposal.votes["Yes"] + proposal.votes["No"] + proposal.votes["Abstain"]

\* "No" votes are added until the participation reaches the quorum.
getSupportWithQuorumPadding(proposal, quorum) ==
    LET yes      == proposal.votes["Yes"]
        required == fromFixed(multiply(quorum, newFixed(proposal.networkWeight)))
        missing  == required - totalVotes(proposal)
        no       == proposal.votes["No"] + (IF missing > 0 THEN missing ELSE 0)
    IN  IF yes = 0 THEN 0 ELSE newFixedFraction(yes, yes + no)

getParticipation(proposal) ==
    newFixedFraction(totalVotes(proposal), proposal.networkWeight)

updateVote(votes, previousWeight, weight, previous, value) ==
    LET cleared == IF previous = "None" THEN votes
                   ELSE [votes EXCEPT ![previous] = @ - previousWeight]
    IN  [cleared EXCEPT ![value] = @ + weight]

-----------------------------------------------------------------------------
(***************************************************************************)
(* Reading the state: the view functions of Governance.sol                 *)
(***************************************************************************)
\* The mapping proposals has an empty proposal at 0, where no ID points.
proposalAt(g, id) == IF id = 0 THEN NoProposal ELSE g.proposals[id]

inQueue(g, id) == id \in KeySet(g.queue)

isQueuedProposalExpired(proposal) == now >= proposal.timestamp + params["queueExpiry"]

isQueued(g, id) == inQueue(g, id) /\ ~isQueuedProposalExpired(proposalAt(g, id))

\* A threshold that is not set falls back to the destination's default, and
\* that to a simple majority.
getConstitution(tx) ==
    LET default == <<tx.destination, "default">>
        key     == <<tx.destination, tx.functionId>>
    IN  IF key \in ConstitutionKeys /\ constitution[key] # 0 THEN constitution[key]
        ELSE IF default \in ConstitutionKeys /\ constitution[default] # 0
        THEN constitution[default]
        ELSE FIXED1 \div 2

\* Mutant: a simple majority is enough, whatever the constitution says.
isProposalPassingByMajority(proposal) ==
    LET quorum  == multiply(params["baseline"], params["baselineQuorumFactor"])
    IN  \A j \in DOMAIN proposal.transactions :
            getSupportWithQuorumPadding(proposal, quorum) > FIXED1 \div 2

isProposalPassing(proposal) ==
    LET quorum  == multiply(params["baseline"], params["baselineQuorumFactor"])
        support == getSupportWithQuorumPadding(proposal, quorum)
    IN  \A j \in DOMAIN proposal.transactions :
            support > getConstitution(proposal.transactions[j])

isDequeuedProposal(g, id, index) ==
    /\ index \in DOMAIN g.dequeued
    /\ id \in DOMAIN g.proposals /\ exists(g.proposals[id])
    /\ g.dequeued[index] = id

isDequeuedProposalExpired(proposal) ==
    LET stage == getDequeuedStage(proposal)
    IN  \/ stage = "Expiration"
        \/ stage = "Execution" /\ ~isProposalPassing(proposal)
        \/ stage # "Approval" /\ ~proposal.approved

\* Mutants: isVoting looks at the referendum alone, or at the queue alone.
isVotingReferendumOnly(account) ==
    getDequeuedStage(proposalAt(gov, mostRecentReferendumProposal[account])) = "Referendum"

isVotingQueueOnly(account) ==
    upvote[account].proposalId # 0 /\ isQueued(gov, upvote[account].proposalId)

isVoting(account) ==
    LET upvoted    == upvote[account].proposalId
        mostRecent == proposalAt(gov, mostRecentReferendumProposal[account])
    IN  \/ upvoted # 0 /\ isQueued(gov, upvoted)
        \/ getDequeuedStage(mostRecent) = "Referendum"

voteRecord(account, index) ==
    IF index \in DOMAIN referendumVotes[account] THEN referendumVotes[account][index]
                                                 ELSE NoVote

-----------------------------------------------------------------------------
(***************************************************************************)
(* dequeueProposalsIfReady.  The proposals with the most upvotes leave the *)
(* queue.  Those that did not expire there get their deposit back, start   *)
(* their approval stage and take a slot of dequeued each: the last of      *)
(* emptyIndices first, a new slot at the end once there are none.          *)
(***************************************************************************)
dequeueReady(g) == now >= g.lastDequeue + params["dequeueFrequency"]

numToDequeue(g) ==
    IF params["concurrentProposals"] <= Len(g.queue) THEN params["concurrentProposals"]
                                                     ELSE Len(g.queue)

\* The places in the queue of the proposals that are popped and not expired.
fresh(g) ==
    {i \in 1..numToDequeue(g) : ~isQueuedProposalExpired(g.proposals[g.queue[i].key])}

freshIds(g) == {g.queue[i].key : i \in fresh(g)}

\* The proposal at place i of the queue is the rank-th one to get a slot.
rank(S, i) == Cardinality({j \in S : j <= i})

slotOf(g, i) ==
    LET r     == rank(fresh(g), i)
        empty == Len(g.emptyIndices)
    IN  IF r <= empty THEN g.emptyIndices[empty + 1 - r]
                      ELSE Len(g.dequeued) + r - empty

filledDequeued(g) ==
    LET appended == Cardinality(fresh(g)) - Len(g.emptyIndices)
        length   == Len(g.dequeued) + (IF appended > 0 THEN appended ELSE 0)
        newAt(s) == {i \in fresh(g) : slotOf(g, i) = s}
    IN  [s \in 1..length |-> IF newAt(s) # {} THEN g.queue[CHOOSE i \in newAt(s) : TRUE].key
                                              ELSE g.dequeued[s]]

\* Mutant: emptyIndices.length is not lowered.
remainingEmptyIndicesUnshrunk(g) == g.emptyIndices

remainingEmptyIndices(g) ==
    LET left == Len(g.emptyIndices) - Cardinality(fresh(g))
    IN  SubSeq(g.emptyIndices, 1, IF left > 0 THEN left ELSE 0)

\* Mutant: the head of the queue is read and not popped.
dequeueProposalsWithoutPop(g) ==
    IF ~dequeueReady(g) THEN g
    ELSE [g EXCEPT
            !.dequeued     = filledDequeued(g),
            !.emptyIndices = remainingEmptyIndices(g),
            !.proposals    = [id \in DOMAIN @ |->
                                IF id \in freshIds(g) THEN [@[id] EXCEPT !.timestamp = now]
                                                      ELSE @[id]],
            !.lastDequeue  = now]

dequeueProposalsIfReady(g) ==
    IF ~dequeueReady(g) THEN g
    ELSE [g EXCEPT
            !.queue        = SubSeq(@, numToDequeue(g) + 1, Len(@)),
            !.dequeued     = filledDequeued(g),
            !.emptyIndices = remainingEmptyIndices(g),
            !.proposals    = [id \in DOMAIN @ |->
                                IF id \in freshIds(g) THEN [@[id] EXCEPT !.timestamp = now]
                                                      ELSE @[id]],
            !.lastDequeue  = now]

\* Mutant: proposals that expired in the queue are refunded too.
refundsOfDequeueWithExpired(g) ==
    IF ~dequeueReady(g) THEN refundedDeposits
    ELSE [a \in Proposers |-> refundedDeposits[a] +
            MapThenSumSet(LAMBDA i : g.proposals[g.queue[i].key].deposit,
                          {i \in 1..numToDequeue(g) :
                              g.proposals[g.queue[i].key].proposer = a})]

depositsOf(g) == [id \in DOMAIN g.proposals |-> g.proposals[id].deposit]

\* What the same call adds to refundedDeposits.
refundsOfDequeue(g) ==
    IF ~dequeueReady(g) THEN refundedDeposits
    ELSE [a \in Proposers |-> refundedDeposits[a] +
            SumFunctionOnSet(depositsOf(g), {id \in freshIds(g) : g.proposals[id].proposer = a})]

-----------------------------------------------------------------------------
(***************************************************************************)
(* The other internal functions                                            *)
(***************************************************************************)
isQueuedAndExpired(g, id) == inQueue(g, id) /\ isQueuedProposalExpired(proposalAt(g, id))

removeIfQueuedAndExpired(g, id) ==
    IF isQueuedAndExpired(g, id) THEN [g EXCEPT !.queue = Without(@, id)] ELSE g

deleteDequeuedProposal(g, id, index) ==
    [g EXCEPT !.dequeued[index] = 0,
              !.emptyIndices    = Append(@, index),
              !.proposals[id]   = NoProposal]

\* Mutant: the new participation is not weighted by the update factor.
updatedBaselineUnweighted(ps, proposal) ==
    LET kept == multiply(ps["baseline"], FIXED1 - ps["baselineUpdateFactor"])
        new  == getParticipation(proposal) + kept
    IN  IF new < ps["baselineFloor"] THEN ps["baselineFloor"] ELSE new

updatedBaseline(ps, proposal) ==
    LET component == multiply(getParticipation(proposal), ps["baselineUpdateFactor"])
        kept      == multiply(ps["baseline"], FIXED1 - ps["baselineUpdateFactor"])
        new       == component + kept
    IN  IF new < ps["baselineFloor"] THEN ps["baselineFloor"] ELSE new

\* The parameters once the proposal has been deleted.
paramsAfterDelete(ps, proposal) ==
    IF proposal.approved /\ proposal.networkWeight > 0
    THEN [ps EXCEPT !["baseline"] = updatedBaseline(ps, proposal)]
    ELSE ps

(***************************************************************************)
(* Executing a payload.  Every setter has its require statements, and a    *)
(* transaction that fails reverts the whole execution.                     *)
(***************************************************************************)
\* Mutant: the setters of the fractions do not check the range.
setterSucceedsUnchecked(tx) ==
    /\ tx.set \in Counts => tx.to > 0
    /\ tx.set \in ParamNames => tx.to # params[tx.set]
    /\ tx.set = "constitution" => tx.to > FIXED1 \div 2 /\ tx.to <= FIXED1

setterSucceeds(tx) ==
    /\ tx.set \in Counts => tx.to > 0
    /\ tx.set \in Fractions => isProperFraction(tx.to)
    /\ tx.set \in ParamNames => tx.to # params[tx.set]
    /\ tx.set = "constitution" => tx.to > FIXED1 \div 2 /\ tx.to <= FIXED1

valueOf(txs) == SumFunction([j \in DOMAIN txs |-> txs[j].value])

\* The parameters, and the constitution, once all the setters have run.
executeTransactions(txs) ==
    [name \in ParamNames |->
        LET setters == {j \in DOMAIN txs : txs[j].set = name}
        IN  IF setters = {} THEN params[name] ELSE txs[CHOOSE j \in setters : TRUE].to]

amendConstitution(txs) ==
    [key \in ConstitutionKeys |->
        LET setters == {j \in DOMAIN txs : txs[j].set = "constitution" /\ txs[j].key = key}
        IN  IF setters = {} THEN constitution[key] ELSE txs[CHOOSE j \in setters : TRUE].to]

-----------------------------------------------------------------------------
(***************************************************************************)
(* The actions                                                             *)
(***************************************************************************)
Init ==
    /\ now = StartTime
    /\ gov = [proposals |-> <<>>, queue |-> <<>>, dequeued |-> <<>>, emptyIndices |-> <<>>,
              lastDequeue |-> StartTime]
    /\ upvote = [a \in Voters |-> NoUpvote]
    /\ referendumVotes = [a \in Voters |-> <<>>]
    /\ mostRecentReferendumProposal = [a \in Voters |-> 0]
    /\ refundedDeposits = [a \in Proposers |-> 0]
    /\ params = InitialParams
    /\ constitution = [key \in ConstitutionKeys |-> 0]
    /\ balance = 0
    /\ locked = [a \in Voters |-> InitialGold]
    /\ totalLocked = InitialGold * Cardinality(Voters)
    /\ slashed = [a \in Voters |-> 0]
    /\ executed = {}
    /\ spent = 0

Tick ==
    /\ now < MaxTime
    /\ now' = now + 1
    /\ UNCHANGED <<gov, voterVars, refundedDeposits, ruleVars, balance, goldVars, history>>

\* The proposal IDs are the places in the sequence proposals.
Propose(account, deposit, txs) ==
    LET g == dequeueProposalsIfReady(gov)
    IN  /\ Len(gov.proposals) < MaxProposals
        /\ deposit >= params["minDeposit"]
        /\ gov' = [g EXCEPT !.proposals = Append(@, make(account, deposit, txs)),
                            !.queue = Append(@, [key |-> Len(g.proposals) + 1, value |-> 0])]
        /\ refundedDeposits' = refundsOfDequeue(gov)
        /\ balance' = balance + deposit
        /\ UNCHANGED <<now, voterVars, ruleVars, goldVars, history>>

Dequeue ==
    /\ gov' = dequeueProposalsIfReady(gov)
    /\ refundedDeposits' = refundsOfDequeue(gov)
    /\ UNCHANGED <<now, voterVars, ruleVars, balance, goldVars, history>>

\* upvote on a proposal that has expired in the queue takes it out and returns.
UpvoteExpired(id) ==
    LET g == dequeueProposalsIfReady(gov)
    IN  /\ isQueuedAndExpired(g, id)
        /\ gov' = removeIfQueuedAndExpired(g, id)
        /\ refundedDeposits' = refundsOfDequeue(gov)
        /\ UNCHANGED <<now, voterVars, ruleVars, balance, goldVars, history>>

Upvote(account, id) ==
    LET g0     == dequeueProposalsIfReady(gov)
        g      == removeIfQueuedAndExpired(g0, upvote[account].proposalId)
        weight == locked[account]
    IN  /\ ~isQueuedAndExpired(g0, id)
        /\ weight > 0
        /\ inQueue(g, id)
        /\ ~inQueue(g, upvote[account].proposalId)
        /\ \E q \in Placements(Without(g.queue, id), id, getValue(g.queue, id) + weight) :
              gov' = [g EXCEPT !.queue = q]
        /\ upvote' = [upvote EXCEPT ![account] = [proposalId |-> id, weight |-> weight]]
        /\ refundedDeposits' = refundsOfDequeue(gov)
        /\ UNCHANGED <<now, referendumVotes, mostRecentReferendumProposal, ruleVars, balance,
                       goldVars, history>>

\* Mutant: the voter's record is not reset.
RevokeUpvoteKeepingRecord(account) ==
    LET id     == upvote[account].proposalId
        weight == upvote[account].weight
        g      == removeIfQueuedAndExpired(dequeueProposalsIfReady(gov), id)
    IN  /\ id # 0
        /\ inQueue(g, id)
        /\ getValue(g.queue, id) >= weight
        /\ \E q \in Placements(Without(g.queue, id), id, getValue(g.queue, id) - weight) :
              gov' = [g EXCEPT !.queue = q]
        /\ refundedDeposits' = refundsOfDequeue(gov)
        /\ UNCHANGED <<now, voterVars, ruleVars, balance, goldVars, history>>

\* The upvotes of the proposal may not fall below zero: the subtraction reverts.
RevokeUpvote(account) ==
    LET id     == upvote[account].proposalId
        weight == upvote[account].weight
        g      == removeIfQueuedAndExpired(dequeueProposalsIfReady(gov), id)
    IN  /\ id # 0
        /\ \/ /\ inQueue(g, id)
              /\ getValue(g.queue, id) >= weight
              /\ \E q \in Placements(Without(g.queue, id), id, getValue(g.queue, id) - weight) :
                    gov' = [g EXCEPT !.queue = q]
           \/ /\ ~inQueue(g, id)
              /\ gov' = g
        /\ upvote' = [upvote EXCEPT ![account] = NoUpvote]
        /\ refundedDeposits' = refundsOfDequeue(gov)
        /\ UNCHANGED <<now, referendumVotes, mostRecentReferendumProposal, ruleVars, balance,
                       goldVars, history>>

\* approve, vote and execute delete a dequeued proposal that has expired and
\* return false.
DeleteExpired(id, index) ==
    LET g == dequeueProposalsIfReady(gov)
    IN  /\ isDequeuedProposal(g, id, index)
        /\ isDequeuedProposalExpired(g.proposals[id])
        /\ gov' = deleteDequeuedProposal(g, id, index)
        /\ params' = paramsAfterDelete(params, g.proposals[id])
        /\ refundedDeposits' = refundsOfDequeue(gov)
        /\ UNCHANGED <<now, voterVars, constitution, balance, goldVars, history>>

Approve(id, index) ==
    LET g == dequeueProposalsIfReady(gov)
    IN  /\ isDequeuedProposal(g, id, index)
        /\ ~isDequeuedProposalExpired(g.proposals[id])
        /\ ~g.proposals[id].approved
        /\ getDequeuedStage(g.proposals[id]) = "Approval"
        /\ gov' = [g EXCEPT !.proposals[id].approved = TRUE,
                            !.proposals[id].networkWeight = totalLocked]
        /\ refundedDeposits' = refundsOfDequeue(gov)
        /\ UNCHANGED <<now, voterVars, ruleVars, balance, goldVars, history>>

\* Mutant: the record of the slot is taken for the proposal's.
previousValueOfSlot(record, id) == record.value

\* The vote record is kept per slot, so it may be about an earlier proposal.
previousValue(record, id) == IF record.proposalId = id THEN record.value ELSE "None"

\* What the code compares with the most recently voted proposal's ID is a timestamp.
Vote(account, id, index, value) ==
    LET g        == dequeueProposalsIfReady(gov)
        proposal == g.proposals[id]
        record   == voteRecord(account, index)
        previous == previousValue(record, id)
        weight   == locked[account]
        new      == [value |-> value, proposalId |-> id, weight |-> weight]
    IN  /\ isDequeuedProposal(g, id, index)
        /\ ~isDequeuedProposalExpired(proposal)
        /\ proposal.approved
        /\ getDequeuedStage(proposal) = "Referendum"
        /\ weight > 0
        /\ previous # "None" => proposal.votes[previous] >= record.weight
        /\ gov' = [g EXCEPT
              !.proposals[id].votes =
                  updateVote(proposal.votes, record.weight, weight, previous, value),
              !.proposals[id].networkWeight = totalLocked]
        /\ referendumVotes' =
              [referendumVotes EXCEPT ![account] =
                  [i \in DOMAIN @ \cup {index} |-> IF i = index THEN new ELSE @[i]]]
        /\ mostRecentReferendumProposal' =
              [mostRecentReferendumProposal EXCEPT ![account] =
                  IF proposal.timestamp > @ THEN id ELSE @]
        /\ refundedDeposits' = refundsOfDequeue(gov)
        /\ UNCHANGED <<now, upvote, ruleVars, balance, goldVars, history>>

Execute(id, index) ==
    LET g        == dequeueProposalsIfReady(gov)
        proposal == g.proposals[id]
        txs      == proposal.transactions
    IN  /\ isDequeuedProposal(g, id, index)
        /\ ~isDequeuedProposalExpired(proposal)
        /\ getDequeuedStage(proposal) = "Execution" /\ isProposalPassing(proposal)
        /\ \A j \in DOMAIN txs : setterSucceeds(txs[j])
        /\ valueOf(txs) <= balance
        /\ gov' = deleteDequeuedProposal(g, id, index)
        /\ params' = paramsAfterDelete(executeTransactions(txs), proposal)
        /\ constitution' = amendConstitution(txs)
        /\ balance' = balance - valueOf(txs)
        /\ spent' = spent + valueOf(txs)
        /\ executed' = executed \cup {id}
        /\ refundedDeposits' = refundsOfDequeue(gov)
        /\ UNCHANGED <<now, voterVars, goldVars>>

Withdraw(account) ==
    /\ refundedDeposits[account] > 0
    /\ refundedDeposits[account] <= balance
    /\ refundedDeposits' = [refundedDeposits EXCEPT ![account] = 0]
    /\ balance' = balance - refundedDeposits[account]
    /\ UNCHANGED <<now, gov, voterVars, ruleVars, goldVars, history>>

(***************************************************************************)
(* LockedGold, as far as Governance depends on it                          *)
(***************************************************************************)
Lock(account, value) ==
    /\ "lock" \in GoldMoves
    /\ totalLocked + value <= MaxGold
    /\ locked' = [locked EXCEPT ![account] = @ + value]
    /\ totalLocked' = totalLocked + value
    /\ UNCHANGED <<now, gov, voterVars, refundedDeposits, ruleVars, balance,
                   slashed, history>>

Unlock(account, value) ==
    /\ "unlock" \in GoldMoves
    /\ ~isVoting(account)
    /\ value <= locked[account] /\ value <= totalLocked
    /\ locked' = [locked EXCEPT ![account] = @ - value]
    /\ totalLocked' = totalLocked - value
    /\ UNCHANGED <<now, gov, voterVars, refundedDeposits, ruleVars, balance,
                   slashed, history>>

\* Slashing takes an account's gold whether or not it is voting.
Slash(account, value) ==
    /\ "slash" \in GoldMoves
    /\ value <= locked[account] /\ value <= totalLocked
    /\ slashed[account] + value <= MaxGold
    /\ locked' = [locked EXCEPT ![account] = @ - value]
    /\ totalLocked' = totalLocked - value
    /\ slashed' = [slashed EXCEPT ![account] = @ + value]
    /\ UNCHANGED <<now, gov, voterVars, refundedDeposits, ruleVars, balance, history>>

Next ==
    \/ Tick
    \/ Dequeue
    \/ \E a \in Proposers, d \in Deposits, txs \in Payloads : Propose(a, d, txs)
    \/ \E id \in DOMAIN gov.proposals :
          \/ UpvoteExpired(id)
          \/ \E a \in Voters : Upvote(a, id)
          \/ \E index \in 1..Len(gov.proposals) :
                \/ DeleteExpired(id, index)
                \/ Approve(id, index)
                \/ \E a \in Voters, v \in VoteValues : Vote(a, id, index, v)
                \/ Execute(id, index)
    \/ \E a \in Voters : RevokeUpvote(a)
    \/ \E a \in Proposers : Withdraw(a)
    \/ \E a \in Voters, v \in 1..MaxGold : Lock(a, v) \/ Unlock(a, v) \/ Slash(a, v)

Spec == Init /\ [][Next]_vars

-----------------------------------------------------------------------------
(***************************************************************************)
(* Properties                                                              *)
(***************************************************************************)
Proposal ==
    [proposer : Proposers \cup {"nobody"}, deposit : Nat, timestamp : Nat, approved : BOOLEAN,
     votes : [VoteValues -> Nat], networkWeight : Nat, transactions : Payloads \cup {<<>>}]

GovState ==
    [proposals : Seq(Proposal), queue : Seq([key : Nat, value : Nat]), dequeued : Seq(Nat),
     emptyIndices : Seq(Nat), lastDequeue : Nat]

ProposalIds == DOMAIN gov.proposals

SlotIds(g) == {g.dequeued[i] : i \in DOMAIN g.dequeued} \ {0}

SlotsConsistentIn(g) ==
    /\ \A j, k \in DOMAIN g.emptyIndices : g.emptyIndices[j] = g.emptyIndices[k] => j = k
    /\ \A k \in DOMAIN g.emptyIndices : g.emptyIndices[k] \in DOMAIN g.dequeued
    /\ \A i \in DOMAIN g.dequeued :
          g.dequeued[i] = 0 <=> \E k \in DOMAIN g.emptyIndices : g.emptyIndices[k] = i

\* emptyIndices lists exactly the slots of dequeued that hold no proposal, each
\* once, however slots were freed by deletions and reused by batches of
\* dequeueProposalsIfReady: no live proposal is ever overwritten.
SlotsConsistent == SlotsConsistentIn(gov)

InOnePlaceIn(g) ==
    /\ \A i, j \in DOMAIN g.queue : g.queue[i].key = g.queue[j].key => i = j
    /\ \A i, j \in DOMAIN g.dequeued : g.dequeued[i] = g.dequeued[j] /\ g.dequeued[i] # 0 => i = j
    /\ \A i \in DOMAIN g.queue, j \in DOMAIN g.dequeued : g.queue[i].key # g.dequeued[j]
    /\ \A i \in DOMAIN g.queue : /\ g.queue[i].key \in DOMAIN g.proposals
                                 /\ exists(g.proposals[g.queue[i].key])
    /\ \A i \in DOMAIN g.dequeued :
          g.dequeued[i] # 0 => /\ g.dequeued[i] \in DOMAIN g.proposals
                               /\ exists(g.proposals[g.dequeued[i]])

\* A proposal is in at most one place: once in the queue, or in one slot of
\* dequeued, so that its votes and its execution are settled in one place.
InOnePlace == InOnePlaceIn(gov)

\* A proposal that was executed exists no more, and so is neither in the queue nor
\* in a slot: it cannot be executed, voted on or refunded again.
ExecutedIsGone ==
    \A id \in executed : id \in ProposalIds /\ ~exists(gov.proposals[id])

\* The weight of the upvotes that name a proposal.
upvotesFor(id) ==
    SumFunction([a \in Voters |-> IF upvote[a].proposalId = id THEN upvote[a].weight ELSE 0])

\* The weight of the vote records of slot i for value v of a proposal.
votesAt(i, id, v) ==
    SumFunction([a \in Voters |->
                    IF voteRecord(a, i).proposalId = id /\ voteRecord(a, i).value = v
                    THEN voteRecord(a, i).weight ELSE 0])

\* The queue stays sorted by upvotes, so that a batch takes the proposals with the
\* most, and the upvotes of a queued proposal are the weights of the accounts whose
\* upvote record names it, whatever was revoked, dequeued or expired in between.
UpvotesMatchRecords ==
    /\ Sorted(gov.queue)
    /\ \A i \in DOMAIN gov.queue : gov.queue[i].value = upvotesFor(gov.queue[i].key)

\* The vote totals of a dequeued proposal are the weights of the vote records kept
\* for its slot that name it; records of the slot's earlier proposals do not count.
VoteTotalsMatchRecords ==
    \A i \in DOMAIN gov.dequeued : \A v \in VoteValues :
        gov.dequeued[i] # 0 =>
            gov.proposals[gov.dequeued[i]].votes[v] = votesAt(i, gov.dequeued[i], v)

\* Every deposit is in one of three places: refundable to its proposer, with a
\* proposal that still waits in the queue, or forfeited by one that expired there.
\* Nothing else is in the contract, but for what executed proposals paid out of it.
DepositsAccountedFor ==
    balance + spent =
        SumFunction(refundedDeposits)
        + SumFunctionOnSet(depositsOf(gov), ProposalIds \ SlotIds(gov))

\* A proposal that is executed had been approved, had been dequeued for a full
\* approval and referendum stage, and at that moment the share of yes among the yes
\* and no votes of the accounts whose records name it exceeds the threshold the
\* constitution sets for each of its transactions.
ExecutedHadSupport ==
    [][\A id \in executed' \ executed :
          \E i \in DOMAIN gov.dequeued :
             LET weightOf(v) == votesAt(i, id, v)
                 txs == gov.proposals[id].transactions
             IN  /\ gov.dequeued[i] = id
                 /\ gov.proposals[id].approved
                 /\ now >= gov.proposals[id].timestamp + params["approval"] + params["referendum"]
                 /\ \A j \in DOMAIN txs :
                       weightOf("Yes") * FIXED1 >
                          getConstitution(txs[j]) * (weightOf("Yes") + weightOf("No"))
      ]_vars

\* Gold that stands behind an upvote cannot be unlocked while the upvote counts:
\* isVoting must be right about the queue at every moment.
UpvotedGoldStaysLocked ==
    \A a \in Voters :
        isQueued(gov, upvote[a].proposalId) => upvote[a].weight <= locked[a] + slashed[a]

\* The comment in LockedGold.unlock: an account that votes in a referendum keeps its
\* gold locked "so that the gold cannot be used to vote more than once".
ReferendumGoldStaysLocked ==
    \A a \in Voters : \A i \in DOMAIN gov.dequeued :
        (/\ gov.dequeued[i] # 0
         /\ voteRecord(a, i).proposalId = gov.dequeued[i]
         /\ getDequeuedStage(gov.proposals[gov.dequeued[i]]) = "Referendum")
        => voteRecord(a, i).weight <= locked[a] + slashed[a]

\* Whatever proposals set, and however deletions move the baseline in between, every
\* count stays positive, every fraction proper, and every threshold that was set is
\* above one half and at most one.
ParamsInRange ==
    /\ \A name \in Counts : params[name] > 0
    /\ \A name \in Fractions : isProperFraction(params[name])
    /\ \A key \in ConstitutionKeys :
          constitution[key] # 0 => constitution[key] > FIXED1 \div 2 /\ constitution[key] <= FIXED1

=============================================================================
