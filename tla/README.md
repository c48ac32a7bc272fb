# Celo: a TLA+ development

The repository is a monorepo around the Celo blockchain. The protocol's own logic is
in the Solidity contracts under `packages/protocol/contracts`. Around it, the wallet
(`mobile`), the services for phone numbers (`attestation-service`,
`phone-number-privacy`) and the client library (`contractkit`) carry logic of their
own wherever they keep state across steps that others come in between: these parts
are modelled as well. The rest is user interface, deployment and tooling (see "Not modelled").

## 1. Inventory

**Contracts.** State is contract storage; an operation is a transaction, which the chain runs
atomically and in some total order. Concurrency is therefore the interleaving
of transactions of different accounts, of calls from one contract into another,
and of both with the clock (block timestamp, block number, epoch) and the client
(validator elections, epoch rewards). A call that reverts changes nothing.

| Component | State | Operations | Interacts with | What makes it correct |
|---|---|---|---|---|
| `Governance`, `Proposals` | proposals, queue sorted by upvotes, array `dequeued` with free list `emptyIndices`, upvote and vote records per account, refundable deposits, parameters, constitution | propose, upvote, revokeUpvote, dequeue, approve, vote, execute, withdraw, setters (through proposals) | weights from `LockedGold`; `isVoting` is called back by `unlock`; accounts from `Accounts` | no proposal is lost, doubled or overwritten; totals equal the sum of the records; deposits are returned once; only approved, supported proposals run |
| `Governance` hotfixes | record per hash: approved, executed, preparedEpoch, whitelisting addresses | approveHotfix, whitelistHotfix, prepareHotfix, executeHotfix | validator set and epoch from the precompiles | a quorum of the validators in office stands behind what is executed, once |
| `LinkedList`, `SortedLinkedList` | doubly linked elements, head, tail, count, values | insert, remove, update, push, popN with caller's hints | `Governance`, `Election`, `SortedOracles` | both directions agree, sorted, a right hint always suffices |
| `FixidityLib` | none | fixed point arithmetic | everywhere | truncation never leaves the range |
| `LockedGold` | nonvoting gold, pending withdrawals, total, slashers | lock, unlock, relock, withdraw, slash | `Governance.isVoting`, `Election`, `Validators` | gold is conserved; what votes cannot leave |
| `Election` | pending and active votes (in units) per group and account, sorted eligible groups | vote, activate, revokePending, revokeActive, forceDecrementVotes, distributeEpochRewards | `LockedGold`, `Validators` | totals equal the sums; units never give out more than the pool |
| `Validators` | validators, groups, members, membership history | register, affiliate, add/remove/reorder member, deregister, scores, slashing multiplier | `Election`, `LockedGold`, `Accounts` | membership is mutual; requirements outlive membership |
| `Accounts` | signers and metadata per account | createAccount, authorize*Signer, setters | all | a signer belongs to one account |
| `DowntimeSlasher`, `DoubleSigningSlasher`, `GovernanceSlasher` | what was slashed already | slash | `LockedGold`, `Validators` | a fault is punished once |
| `EpochRewards` | target voting yield, reserve and community fractions | updateTargetVotingYield, calculate* | `Election`, `Reserve` | rewards follow the supply schedule |
| `ReleaseGold` | released, withdrawn, revoked balances | withdraw, revoke, refundAndFinalize, expire, voting calls | `LockedGold`, `Election` | never more than was released leaves |
| `Attestations`, `Random`, `Escrow` | attestation requests, bounded history of randomness, payments per identifier | request, select, complete, revoke; revealAndCommit; transfer, withdraw, revoke | `Accounts`, tokens | one result per request; no payment paid twice |
| `SortedOracles` | reports sorted by value and by time with tracked median | report, removeExpiredReports, add/removeOracle | `Exchange`, `Reserve` | the median is the median of live reports |
| `Exchange`, `Reserve`, `StableToken`, `GoldToken` | buckets, spending limits, balances, demurrage factor | exchange, transferGold, mint, burn, transfer | `SortedOracles` | buckets follow the rate, limits hold |
| `MultiSig` | owners, requirement, transactions, confirmations | submit, confirm, revoke, execute, add/remove/replaceOwner | approver of `Governance`, spender of `Reserve` | only enough current owners execute, once |
| `Registry`, `Proxy`, `Freezer`, `GasPriceMinimum`, whitelists, `BlockchainParameters` | addresses and numbers | setters | all | - |

**Services and clients.** Here a step ends wherever the code awaits, yields or
hands over a callback; between two steps anything may come in - other sagas, other
requests, the user, the chain, the death of the process.

| Component | State | Operations | Interacts with | What makes it correct |
|---|---|---|---|---|
| Wallet: `identity/verification.ts`, `reducer.ts`, `transactions/send.ts` | codes, accepted codes, number of complete attestations, status; running sagas; transactions on their way | start, cancel, time out, revoke verification; receive a message | `Attestations`, attestation services, SMS | what it shows is on the chain; a code that arrives is used once, whenever it arrives |
| `attestation-service` | a record per attestation with its status | attestation request | `Attestations`, an SMS provider | one code per attestation, a retry after a failure |
| `phone-number-privacy/signer` | number of queries per account | query for a partial signature | the chain (balance, transactions, attestations) | no more queries than the quota |
| `phone-number-privacy/combiner` | nothing between requests | query for a salt | signers | a salt needs a threshold of them; each request gets its answer |
| Wallet: `identity/privateHashing.ts` | cache of salts, running sagas | fetch a salt, buy quota | combiner, chain | the quota that is bought is used; nothing is refused that was paid for |
| Wallet: `contactMapping.ts`, `secureSend.ts`, `send/saga.ts` | addresses per number, the address validated (Secure Send) | look up, validate, pay or invite | `Attestations`, salts | of several addresses the user chose the one that is paid |
| Wallet: `commentEncryption.ts` | nothing of its own; writes the addresses and salts of numbers | check the comments of payments received for the sender's number and salt | the two above, `Attestations` | what it adds does not undo what lookups and the user decided |
| `contractkit` wrappers | none | hints for the sorted lists, reads and transactions | contracts | what it computes from what it read is accepted |
| CLI, DAppKit, web, blockchain-api, notification-service, metadata-crawler, faucet, celotool | - | - | - | see "Not modelled" |

Hard behaviours, with their lines, are listed under `hazards` in `PROJECT.json`.
The ones this project aims at first: slots of `dequeued` freed and reused in any
order; vote records kept per slot that outlive the proposal; upvote records that
outlive the queue entry; deposits that are refunded in one place and forfeited in
another; `unlock` relying on `isVoting` at a single moment; rules changed by one
proposal while others are being decided; a hotfix checked against one validator
set and executed under another; pointer repair in a linked list driven by hints
from outside; a verification that is cancelled, timed out or killed with transactions
and messages on their way into the next one; a quota that is read, checked and counted
in three steps; a transfer for quota that fails and is reported as confirmed; and a mapping of
addresses that is cleared and refilled under a payment, with a second writer.

## 2. Modules

| Module | Models | State and actions |
|---|---|---|
| `SortedSeq` | helpers on sequences of `[key, value]` sorted by decreasing value | - |
| `SortedList` | what `SortedLinkedList.sol` promises (abstract) | `elements`; Insert, Delete, Update, Push, PopN |
| `SortedLinkedList` | `LinkedList.sol` and `SortedLinkedList.sol` (detailed) | `list`: head, tail, numElements, elements, values; one action per operation with the caller's hints |
| `SortedLinkedListWithMedian` | `SortedLinkedListWithMedian.sol` | the list, `median` and `relation` (the side of each key); the same operations with the median |
| `ListHints` | the neighbours that `Election.ts`, `Governance.ts` and `SortedOracles.ts` of ContractKit give for the list | operators on the list |
| `FixidityLib` | `FixidityLib.sol`, the operations governance uses | operators |
| `Governance` | `Governance.sol` without hotfixes, `Proposals.sol`, and `LockedGold` as Governance sees it | see below |
| `GovernanceHotfix` | hotfixes of `Governance.sol`, epochs of `UsingPrecompiles.sol` | `blockNumber`, `currentSet`, `hotfixes`; NextBlock, ApproveHotfix, WhitelistHotfix, PrepareHotfix, ExecuteHotfix |
| `Election` | the struct `Votes` of `Election.sol` and the functions that change it | operators on the record of votes |
| `LockedGold` | `LockedGold.sol` composed with `Election.sol` | `votes`, `nonvoting`, `totalNonvoting`, `pendingWithdrawals`, `balance`, epoch and clock; Lock, Unlock, Relock, Withdraw, Slash, Vote, Activate, RevokePending, RevokeActive, MarkGroupEligible, MarkGroupIneligible, DistributeEpochRewards |
| `ElectValidators` | `electNValidatorSigners` of `Election.sol`, `Heap.sol` | what the function reads, the heap and the seats; an action per branch of the loop |
| `MultiSig` | `MultiSig.sol` | `transactions`, `confirmations`, `wallet`; Submit-, Confirm-, ExecuteTransaction, RevokeConfirmation |
| `Attestations` | `Attestations.sol` for one identifier and account, and what `AttestationsWrapper` reads | operators on the record `chain`, one per transaction |
| `AttestationService` | the attestation request of `attestation-service` | `sent`, `inbox`; HandleAttestationRequest with the faults of commit and SMS |
| `Verification` | the wallet's verification, composed with both | `wallet`, `mempool`, `abandoned`; StartVerification, Cancel-, TimesOut, Restart, the steps of the flow, SendTransaction, MineTransaction, CheckAccount among them, RevealHandled/Answered/Lost, ReceiveAttestationMessage, AttestationCodeChecked |
| `SaltSigner` | `get-salt.ts` of the signers with quota and database | `standing`, `transactionCount`, `accounts`, `signing`; ReadQuota, Sign, getAccountExists, CountQuery and their failures |
| `SaltCombiner` | `get-threshold-salt.ts` of the combiner | `combiner`; ReceiveSignature, combinePartialBlindedSignatures, ReceiveError, Abort, handleMissingSignatures |
| `PrivateHashing` | the wallet's `privateHashing.ts` and the salts of `commentEncryption.ts`, composed with both | `saltCache`, `lookups`; FetchPhoneHashPrivate, Buy, TransferConfirmed/Failed/GivenUp, Retry, updatePhoneNumberMappings, ... |
| `AddressLookup` | the wallet's way from a phone number to the address paid | `numbers`, `secureSend`, `fetches`, `comments`, `screen`; Open, GetAddresses, UpdateAddresses, CheckValidationFails, verifyIdentityMetadata, updatePhoneNumberMappings, Continue, ValidateRecipientAddress, SendPaymentOrInvite, RestartApp |
| `GovernanceProofs`, `GovernanceHotfixProofs`, `SortedLinkedListProofs`, `LockedGoldProofs`, `MultiSigProofs`, `PrivateHashingProofs`, `WalletProofs` | theorems (section 4) | - |
| `DataTheorems` | lemmas on sums over finite sets, truncated quotients, sorted sequences, and deletion by moving the last element | - |
| `MC*` | instances for TLC | - |

`Governance` uses a sequence sorted by upvotes for its queue (`SortedSeq`): the
linked list that stores it is shown to implement the abstract list by
`SortedLinkedList`, and where the hints leave a choice among equal values the
model leaves it too (`Placements`).

**Governance.** `gov` is the record of `proposals` (a sequence: the ID is the
place), `queue`, `dequeued`, `emptyIndices` and `lastDequeue`. Nearly every
external function starts with `dequeueProposalsIfReady`, so that operator maps
the record to the one it leaves and each action continues with it. `dequeued`
counts from one where Solidity counts from zero; zero is still the mark of a free
slot. `upvote`, `referendumVotes` (by slot) and `mostRecentReferendumProposal`
are the parts of `Voter`. The loop of `dequeueProposalsIfReady` is written
without recursion: the i-th place of the queue is the `rank`-th of those that
have not expired and takes `slotOf` - the rank-th entry of `emptyIndices` from its
end or, when these are used up, a new slot. The call a transaction makes to a
deleted or expired proposal is an action of its own (`DeleteExpired`,
`UpvoteExpired`), because the code deletes and returns there. A payload is a
sequence of transactions that pay gold, call setters of Governance, or act
elsewhere; the setters' `require` statements are `setterSucceeds`, and one that
fails reverts the execution. `executed`, `spent` and `slashed` are history variables;
the last one tells gold that was unlocked from gold that was taken.

**GovernanceHotfix.** `currentSet` changes arbitrarily at epoch boundaries, as the
client's election may. Anybody may whitelist; only addresses of current signers,
or of the accounts behind them, count. Several signers may belong to one account.

**SortedLinkedList.** The library's functions are operators on the whole list;
`can...` is the conjunction of a function's `require` statements, and update is
the insert of the element into the list without it, with its own requirements.

**Election and LockedGold.** The two contracts call each other whenever gold starts
or stops voting, so one module has the actions of both; `Election` keeps the
functions on the votes, as operators on the record. Where a function sorts a
group anew, the operator gives the set of outcomes the caller's hints may lead
to. Active votes are units of a pool, with `UNIT_PRECISION_FACTOR` units for the
first vote; `votesToUnits` and `unitsToVotes` truncate as in the code.
`decrementVotes` takes pending votes first, then active ones, and
`forceDecrementVotes` goes through the account's groups from the last to the
first. Subtractions of votes are not guarded: that they never go below zero,
where `SafeMath` would revert, is part of `TypeOK`. Rewards are external: once in an epoch the
client mints some gold for a group with active votes. Validators is seen
through the gold it requires of an account and the groups it marks.

**ElectValidators.** `Init` chooses the votes and members of the groups and does
what the function does before its loop. An iteration elects a member of the
group at the top of the heap (`ElectMember`) or, when the group has no member left,
sets its votes to zero (`AllMembersElected`). `siftDown` is recursive, so this
module is for TLC only.

**MultiSig.** A transaction is a call, of something else or of one of the five
functions only the wallet may call; these are operators from a wallet to the
set of their outcomes, none when they revert. `confirmTransaction` executes when
its confirmation is the last one needed, in the same step. As `executed` is set
before the call and nothing is written after it, what a callee does with
the wallet meanwhile is the same as if it did it afterwards.

**SortedLinkedListWithMedian and ListHints.** The median extends the actions of the list;
`remove` moves the median before it takes the element out and `insert` after it has
put it in, so `medianOfRemove` and `medianOfInsert` work on different lists. The side of a
key that is not in the list is kept as it was, as in the code. The hints are evaluated
in every state the list can be in, for every change one could ask for. `SortedOracles.ts`
compares the value to report with rates that `fromFixed` has divided by 10^24; the division
keeps 20 decimals and rounds, so a rate is shown as a multiple of `ShownUnit` of its units (10^4
in the code), half rounded up. A value with more decimals than a rate has is not modelled.

**Verification.** A chain transaction is atomic, so `Attestations` is a set of operators
on one record, and MineTransaction takes the transactions in the order of their nonces.
The wallet is one record (`NewWallet` when it is installed): the reducer's fields and, as the local state of the sagas,
where doVerificationFlow is (`at`), what each attestation's call waits for (`reveal`), and
how many tasks handle a message with each code (`receiving`). A saga that is cancelled
leaves its transactions in the mempool, awaited by "nobody", and its request to an issuer in
`abandoned`, from where it may still be answered. A service that has worked off a request
(`RevealHandled`) has sent its SMS, and its answer comes in a step of its own or is lost.
Whether the account is set up is read at the start (`CheckAccount`), while the codes are
revealed, and that read may throw. sendTransaction estimates
the gas first: when the transaction would fail, that counts as sent and confirmed
(`shouldTxFailureRetry`). `failed` is what the catch at the end of the flow leaves: the forked
receiver goes on, so that the flow does not return. `Faults` names what may go wrong: "throw" (a read or a
confirmation fails), "slow" (120 seconds pass before the block), "kill", "lost" (a request
or its answer), "crash" (the commit after the SMS fails), "sms" (no SMS), "gas" (a transaction
runs out of gas).

**Salts.** A signer reads the quota from the chain, then the count from its database, signs,
looks whether the row is there, and inserts or increments: five steps, with other requests
in between. `raced` marks a signature given while another one of the account was not
counted yet. In the combiner a promise per signer is pending until its response is worked
off or its fetch aborted; combining is a step of its own, because it awaits. `MaxFaults`
bounds the errors of all parts together, but not aborts, which may always happen.
A transfer for quota may be confirmed or fail, and it may be given up: `wrapSendTransactionWithRetry`
(send.ts:193) returns normally after an error that it does not try again, and
`sendAndMonitorTransaction` (transactions/saga.ts:88) then reports the transfer as confirmed
(`TransferGivenUp`), so the lookup goes on with no quota bought. `paid` is the number of transactions
of the account when a request was posted. The comment of a payment brings the salt of its
sender's number (`updatePhoneNumberMappings`, commentEncryption.ts:274); the cache
is a record of where each salt is from, "service" or "comment".

**AddressLookup.** A lookup reads the known addresses and clears them, has its answer from the chain,
and decides on a validation and stores the addresses. Several may run at a time: each visit to
a screen starts one, or several, and none is cancelled. The comments of payments are the second writer:
`verifyIdentityMetadata` finds the sender among the addresses of the number it claims, and
`updatePhoneNumberMappings`, a step later, adds it to the addresses known, without asking for
Secure Send. A lookup of several addresses, none of them new, for which Secure Send has no entry
throws in `accidentallyBypassedValidation` (secureSend.ts:38, `CheckValidationFails`).
Addresses are numbers in the order in which the code sorts them. `payment`, `chosen`, `offered`,
`merged` and `overlapped` are history variables.

## 3. Runs

`tlc -config <cfg> <module>`; every run ends within four minutes on two cores.

| Run | Bounds | Shows |
|---|---|---|
| `votes` | 2 proposals, 2 voters, up to 2 gold locked step by step, a batch of 1 each tick, 5 ticks | `SlotsConsistent`, `InOnePlace`, `UpvotesMatchRecords`, `VoteTotalsMatchRecords`, `DepositsAccountedFor` |
| `rules` | 2 proposals among a payment, an amendment of threshold and stage duration, and a floor out of range; 1 voter who locks, unlocks and is slashed | `UpvotedGoldStaysLocked`, `ReferendumGoldStaysLocked`, `ParamsInRange`, `ExecutedHadSupport` |
| `unlock` | 1 voter, referendum of two ticks, a batch each tick | violation of `ReferendumGoldStaysLocked` |
| `hotfix` | 3 signers of 2 accounts, 3 epochs of 2 blocks | `PreparedMeansQuorum`, `ExecutionIsFinal` |
| `pool` | 2 accounts, 1 group, 6 gold, rewards up to 2, 3 epochs, 100 units for the first vote | `TotalsAreSums`, `PoolCoversVoters`, `VotesAreListed`, `OthersTakeOnlyDust` |
| `groups` | 1 account, 2 groups, 3 gold, 2 pending withdrawals, required gold of 1, slashing of up to 3, rewards of 1, 3 epochs | `TypeOK`, `EligibleShowsVotes`, `SlashFindsVotes`, `GoldAccountedFor` |
| `seats` | up to 5 groups with up to 4 votes and 2 members each, 4 seats, threshold of a tenth | `SeatsByDHondt`, `Terminates` |
| `multisig` | 3 addresses, 2 of them owners, 3 transactions with any call | `OwnersConsistent`, `ExecutionIsConfirmed`, `ExecutionIsFinal` |
| `list` | 5 keys, 3 values, every pair of hints, rates shown as multiples of 4 | `WalksAgree`, `OneCorrectHintSuffices`, `MedianIsMedian`, `UpvoteRefusedBetweenTies`, `HintsRefusedOnlyWhenOvertaken`, refinement of `SortedList` |
| `verify` | 2 issuers, 2 attestations required, 2 attempts, 2 blocks, every fault but "gas" | `VerifiedOnChain`, `ProgressOnChain`, `WaitedForCodeIsNew` |
| `salts` | 2 signers, both needed, 2 lookups of one number, 2 requests, no transaction or one at first, one query per transaction, 1 fault | `SaltHasThreshold`, `QuotaExceededOnlyByRaces`, `RefusedOnlyWhenSpent`, `NoneForgotten` |
| `addresses` | 3 addresses, 2 changes on chain, 3 lookups, 2 at a time, 1 comment | `PaidAddressWasChosen`, `ChosenAmongAllKnown`, `SeveralAreSecured` |

Why the bounds are enough for the cases in question. Two proposals in batches of one
share a slot when the first is deleted in time and have two when it is not. Stages last a tick
and batches come one a tick, so a slot is filled at 101 and voted on at 102, freed at 103 and
filled again at 104, and at 105, the last moment of `votes`, the second proposal is voted
on with the records of the first one in its slot. Longer histories of slots and larger batches are left to the
theorems, which hold for any number. Two voters give sums of two records and
votes changed with a different weight. Fractions are in quarters (`MulPrecision`
2), the coarsest scale at which products of fractions still truncate. The clock
starts at 100: block timestamps are far above proposal IDs, which matters (finding
below), and `StartTime > MaxProposals` is an assumption of the module. In a list
of five elements there are two groups of ties around another element, both sizes of middle,
and an element can move over several; keys are symmetric, as the list orders values only.
The clock, the number of proposals and the gold are bounded in the guards of
`Tick`, `Propose` and `Lock`; therefore these runs do not check deadlock, and neither do those of `LockedGold`,
`MultiSig` and `ElectValidators`, which stop at their bounds or when the election is
over, and those of the services, where nothing more happens when all requests were made. The list's run does.

Two attempts are one that leaves something behind and one that meets it; two
issuers let one attestation be complete while the other one is under way. Selecting takes
one block more than requesting, so two blocks see a request, its selection, and a request whose
block has left the window (`RetentionWindow` 1). In the run attestations do not
expire and transactions do not run out of gas: see the remarks below on what does not hold then.
In `salts` both lookups may be charged at both signers, race, and one of them may buy; an error, a bad signature, a lost count or
an unreadable database may hit any of them. Two requests are enough for a query that was bought to be refused:
one signer refuses the first request, the combiner gives up the other one, whose handler is slow; the
user buys; the slow handler then reads the quota just bought, signs and counts; and that signer refuses the
second request. This needs no fault. A third request with two signers is beyond a run of minutes; the
theorem holds for any number. In `addresses` two changes replace an address, a
third lookup meets what two overlapping ones left, and the comment comes before, between or under them.
With `ShownUnit` 4 a value of 1 is shown as 0 and one of 2 as 4, so rates are rounded past a value in
both directions.

In `pool` an account that activates after a reward pays a price of units that does
not divide evenly, and partial revocations follow; slashing is left to
`groups` to keep this one small. The factor of 100 (10^20 in the code)
stays above what the rewards of the run can multiply a pool by, as in reality; were
a unit worth more than a vote, `votesToUnits` could return zero, and an account would have
nothing for a vote it activates. The properties of the run do not depend on it (section 4). With two
groups a slash needs votes of both, a group can be struck off the list while the other
stays, and the sorted list has ties. With five groups and four seats one group is
cut off, and the heap has nodes with two children, with one and with none.
Two pending withdrawals make the deletion of the first move the last.
Three transactions of the wallet are enough for one to wait while another removes an
owner that confirmed it and a third one brings the owner back.

**The violation** is a disagreement between the code and its own statements.
`vote` updates `mostRecentReferendumProposal` if
`proposal.timestamp > voter.mostRecentReferendumProposal` (Governance.sol:636), a
timestamp against an ID, so always. It then names the proposal voted on last
and not, as documented at line 919, the one dequeued last. When referendums
overlap, an account that votes on the newer and then on the older proposal is
not `isVoting` once the older one's referendum is over, and may unlock gold whose
vote still counts, against the comment at LockedGold.sol:154. With one
referendum at a time (run `rules`) the property holds.

Further remarks, met while modelling, on what does not hold and is excluded by a
bound or stated weaker than one might expect:

- The network weight of a proposal is the total locked gold at its last
  vote. If gold that has voted is slashed before another account votes, the votes
  exceed the weight, and `updateParticipationBaseline` (Governance.sol:1162) stores a
  baseline above one, which `setParticipationBaseline` (:334) would reject. In `rules`
  one voter is alone, so this does not happen.
- An account may unlock once the proposal it upvotes has expired in the queue. If a proposal that is
  executed afterwards raises `queueExpiry` (`setQueueExpiry`, Governance.sol:273), the expired one
  is in time again, with its upvotes and without the gold. No payload of `rules` does this.
- ContractKit's hints for an upvote are neighbours in an array it sorts upwards
  and stably (Governance.ts:571), which is the opposite order among equal upvotes: a proposal that
  comes between two groups of ties is refused (`UpvoteRefusedBetweenTies` says
  exactly when). `Election.ts` revokes pending and active votes with hints that were both computed
  before the first transaction; the second is refused when another group lies in
  between (`HintsRefusedOnlyWhenOvertaken`). `SortedOracles.ts` compares a report with rates that
  are rounded: one that another oracle's rate is rounded past is refused, and
  no other (`reportsRefusedWhenRoundedPast`, the part of that property about reports).
- When a verification is cancelled or started again after a code was entered, the
  code stays among the accepted ones (reducer.ts:113-116; :45 says why they are kept): the next attempt
  waits for a code that the receiver refuses as already used, until an attempt fails.
- A transaction that runs out of gas, or whose attestation expires between check and
  sending, counts as confirmed (send.ts:210): the wallet is then ahead of the chain. This is why
  "gas" and expiry are not in `verify`.
- The flow reads which fraction of the requested attestations is complete only at its start
  (verification.ts:137-161); at its end it calls the number verified when enough are complete. With
  the constants of `verify` that is the same, because too few can be requested to matter; with
  `ThresholdInverse = 1` and `NumRequired = 1`, a request whose answers were lost and a second one leave the wallet
  verified and the contracts not. `RequestsCovered` excludes this.
- The combiner answers nothing when a threshold of signers succeeded but one signature does not
  verify (get-threshold-salt.ts:54); `NoneForgotten` excludes these requests.
- `newAddressesAdded` (secureSend.ts:10) sees nothing new when the last of the sorted
  addresses was revoked, so the validated address need not be a current one. Overlapping lookups may bring
  back an older answer, with addresses that the user did not choose among; `ChosenAmongAllKnown` excludes
  what overlaps a lookup. From a payment request one may
  get to the confirmation before the lookup has ended, which sends an invite to a
  verified number (send/saga.ts:156 takes undefined for null).
- A comment adds its sender to the addresses known and asks for nothing. Several addresses may so be known
  of which none was validated, nor the user asked to; contactMapping.ts:274-277 says that this cannot be
  ("they shouldn't have been able to get to this point"), and a payment then throws. The next lookup that
  finds these addresses finds none of them new, and `accidentallyBypassedValidation`, announced as the check
  for this case (secureSend.ts:30), reads `address` of an entry that is undefined just then: the lookup ends
  with an error instead of asking. So of `secured` (one address validated, or asked for) the runs
  claim only that lookups leave it so when they store several addresses (`SeveralAreSecured`), not that it holds
  whenever several are known. Nor was an address that a comment brings, or the only one that was known before,
  there to choose from (`merged` in `ChosenAmongAllKnown`).
  `PaidAddressWasChosen` holds in spite of all this.
- A salt that a comment brings was signed by no signer for this wallet. `SaltHasThreshold` is about
  the salts that the service gave.
- A transfer for quota that is given up after an error is reported as confirmed (transactions/saga.ts:88), and the
  lookup takes that for "quota purchase was successful" (privateHashing.ts:48). It may then be refused
  with nothing bought; what `RefusedOnlyWhenSpent` counts are therefore the transactions that the account had on the
  chain when it asked. With none, and so a quota of zero, a refusal needs no signature.

Three more disagreements were met while modelling that need no run. `revokeAllActive`
(Election.sol:334) and the `revokeActive` it calls are both `nonReentrant`; the guard
(ReentrancyGuard.sol:26) counts entries and compares on return, so the outer call always
reverts, and no test calls it. `numElementsGreaterThan` (AddressSortedLinkedList.sol:109)
is documented to count elements "> threshold" and counts those that equal it as well;
Election relies on the latter ("at least"). `executeTransaction` (MultiSig.sol:245)
"Allows anyone to execute a confirmed transaction", but requires an owner that has
confirmed it.

The one liveness property, `Terminates`, is about the loop of an election: the steps
are iterations of one function call, which the EVM goes on with until it ends, so weak
fairness of `Next` is what the code guarantees. Elsewhere nothing happens unless
an account sends a transaction, and the code justifies no fairness. In the services a request
or an SMS may be lost for good and the user may never act, and what ends a wait is a timeout
that is itself a step of the models; that nobody is left waiting is therefore stated as safety
(`NoneForgotten`, `WaitedForCodeIsNew`).

`VotesAreListed` is weaker than one would expect, and no stronger statement
holds of the groups that are not listed: an account that activates a single vote after a reward may get units that
round to no votes; when it then revokes pending votes for that group, the group is
struck off its list with the units left. They are less than `UNIT_PRECISION_FACTOR`,
the price of one vote in a new pool, so it is a matter of less than a vote until
rewards have multiplied the pool.

## 4. Proofs

Proved with TLAPS for all values of the constants:

- `GovernanceHotfixProofs`: `TypeCorrect`, `PreparationHasQuorum` and
  `ExecutionFinal`. The invariant is `TypeOK`, `PreparedMeansQuorum` and "no
  preparation is for a later epoch" (`PreparedNotLater`). The last one is needed
  for the step to a new epoch: a hotfix prepared for an earlier epoch must not
  count there. Whitelisting only adds addresses, so the tally of an unchanged
  validator set grows (`TallyMonotone`, from the cardinality theorems), and
  `EpochsGrow` says that epochs do not go back with the block number.
- `GovernanceProofs`: `SlotsAlwaysConsistent`, `AlwaysInOnePlace`,
  `ExecutedStaysGone` and `StateTyped`. The invariant `IInv` consists of
  `Sound(gov)` - types, `SlotsConsistentIn`, `InOnePlaceIn` - and `RecordsTyped`:
  executed proposals exist no more, and what the actions feed into the record
  (locked gold, upvote weights, the clock) are natural numbers. The argument goes
  through the operators: `DequeueSound` (a batch keeps a sound record sound) rests
  on `RankProperties`, `SlotProperties`, `FilledProperties` and
  `RemainingProperties`, which say that `rank` numbers the surviving proposals
  1..n, that different places get different slots, none of which holds a
  proposal, and which entries stay in `emptyIndices`. Every action is then a
  composition of operators that keep the record sound (`RemoveExpiredSound`,
  `UpdateUpvotesSound`, `ProposalChange`, `ProposeSound`, `DeleteSound`), and
  `NextInvariant` has one step per action.

- `MultiSigProofs`: `TypeCorrect`, `OwnersAlwaysConsistent`, `ExecutionsConfirmed` and
  `ExecutionsFinal`. `TypeOK` and `OwnersConsistent` are inductive together: each of the
  wallet's functions keeps a consistent wallet consistent (`CallConsistent`, with
  `WithoutOwner` and `ReplacedOwner` about the list). That a confirmed transaction has
  enough owners behind it (`ConfirmedByOwners`) needs this invariant: the loop
  counts places of the list, and only because nobody is listed twice are they as
  many owners.

- `GovernanceProofs`, on what the records add up to: `DepositsAlwaysAccountedFor`, `UpvotesAlwaysMatchRecords`,
  `VoteTotalsAlwaysMatchRecords`, `ExecutedAlwaysHadSupport`, `UpvotedGoldAlwaysLocked` and
  `ParamsAlwaysInRange`. The invariant
  `TotalsInv` adds to `IInv` that the money is typed and accounted for and that the records
  tally (`Tallied`). What makes the tallies inductive is that no record names a proposal too
  early: an upvote names a proposal that was made (`UpvotesKnown`), a vote record one that has
  left the queue (`RecordsKnown`), and a queued proposal has no votes and is not approved
  (`QueuedUntouched`); so a proposal that takes a slot starts from nothing, whatever the
  records of that slot's earlier proposals say. `DequeueEffect` says what a batch does to
  proposals and slots, `RefundsOfDequeue` that it refunds what it frees, `UpvoteChange` and
  `VoteChange` what one record does to a sum. Support is proved of the action: the
  parameters are integers (`ParamsTyped`), and `SupportIsShare` takes the fixed point
  comparison of `isProposalPassing` back to votes and weights.
  Two theorems hold of the behaviours in which something does not happen, for the reasons given
  in section 3. `UpvotedGoldAlwaysLocked` is about those in which no executed proposal raises
  `queueExpiry` (`QueueExpiryNotRaised`): then a proposal that is queued and not expired was so
  before (`NextQueueKept`, `QueuedBefore`), and `isVoting` refused to unlock what stands behind
  it. `ParamsAlwaysInRange` is about those in which the votes on an approved proposal
  stay within its network weight (`VotesWithinWeight`): then the participation is a proper
  fraction (`FractionProper`), and the baseline moves to a mean of two (`MultiplyProper`,
  `DeleteProper`), while everything else is set by setters that check.
- `SortedLinkedListProofs`, for any keys and values and any sequence of calls, whatever the
  hints: `WalksAlwaysAgree`, `OneCorrectHintAlwaysSuffices`,
  `LinkedListImplementsSortedList`, `MedianListIsList`, `MedianAlwaysMedian`,
  `ScanHintsRefusedOnlyWhenOvertaken` and `UpvotesRefusedBetweenTies`. The state is described by
  its walk, the keys from head to tail (`Walks`), and the inductive invariant `InOrder`
  says that there is one and that the values descend along it. The values belong to it, because it
  is they that make the place found from a hint a gap between neighbours (`FoundPlaceFits`,
  `LinkedPlace`); the `require` statements of `link` alone would let a list be
  torn apart. An insert opens the walk at a place (`InsertOpens`), a removal closes it
  (`RemoveCloses`), and `popN` drops its first keys, pass by pass (`PopNStep`, `PopNInOrder`).
  `headN` returns the walk (`HeadNIsWalk`).
  The refinement of `SortedList` goes through what the list reads out:
  `OpenReads`, `CloseReads` and `DropReads` turn each operation on the walk into one on the
  sequence, and `OperationsImplement` has a step per action.
  For the median, `Central` says that it stands at the middle of the walk with the
  sides on either hand. `InsertCentres` and `RemoveCentres` follow its moves by the parity
  of the count and the side of the element; in the middle of `popN` too the median stays
  central (`PopNCentral`).
  The hints of a scan are the last key above and the first one not above the new value among the
  others (`ScanStops`), so they enclose a place of the list without the moved
  element (`ScanPlace`); hints that are stale miss it only if a group lies in between
  (`StaleScanAccepted`). A report is scanned for as the greatest rate that is shown as no more than
  its value (`ShownAtMost`, `ReportScan`); that is the report's own place exactly if no rate is
  rounded past it (`ReportAccepted`). For an upvote, sorting is by rank: `Predecessor` and
  `Successor` say who stands next to the proposal in the array, `PredecessorPlace` and
  `SuccessorPlace` where these are in the list, at the far end of their ties
  (`LastBelow`, `FirstAbove`), and `LeadsUnlessTied` when the four ways of
  `getLesserAndGreater` lead from there to a place.
- `LockedGoldProofs`: `TypeCorrect`, `GoldIsAccountedFor`, `TotalsCorrect`,
  `EligibleVotesShown`, `PoolsCoverVoters`, `SlashAlwaysFindsVotes`, `VotesAlwaysListed`
  and `OthersLoseOnlyDust`. The invariant is `VotesSound` (types, sums, the price of
  every pool, `ListsVotes`, and that the sorted list shows the votes), the sum of the
  nonvoting gold, and that the gold held is the gold owed. The price is what it hangs on
  (`Priced`): a pool has units exactly when it has votes, and at most
  `UNIT_PRECISION_FACTOR` for a vote. Without it a revocation could leave units and no
  votes, and the next `votesToUnits` would divide by zero; and units that round to no votes
  would not be less than that factor. `UnitsBought` and `UnitsSold` show that buying and
  selling keep it. A pool covers its voters because
  floor(u T / U) U, summed over the accounts, is at most T U (`WorthNoMoreThanPool`). `KeepsPrice`
  bounds what the rounding of one step takes from each unit that stays, for every step, and
  `LossByRounding` turns that into votes. Between the steps of a function the list
  is off by the votes not yet counted in it (`HalfChanged`). The loop of
  `forceDecrementVotes` is followed pass by pass (`AfterPasses`, `OnePass`): the groups not
  yet reached are as they were, which needs that no group is listed twice.
- `PrivateHashingProofs`: `SaltsAreBacked`, `QuotaHoldsButForRaces`, `RefusalsAreFair` and
  `RequestsAreAnswered`, for any numbers of signers, lookups and requests, with salts from comments at any
  moment. The invariant says that a
  signer's count is the number of signatures that were counted, that those which neither
  raced nor lost their count are within the quota (`SignerInv`), what the combiner's
  sets and counters say of the signers (`Combined`), that a salt from the service is the answer to a
  lookup of that number (`Answered`), and that a handler refuses, or read
  from the chain, no less than the account's transactions allowed when the lookup was sent (`paid`, `Owes`). All
  actions of a signer are one of six steps (`Serves`), those of the combiner are `Combines`,
  and those of a lookup `Settles` or `Asks`, so that each part of the invariant is proved once for each.
- `WalletProofs`, on the verification of a number, for any numbers of issuers, attempts and
  blocks: `ArrivedCodesAreUsed`, `ProgressIsOnChain` and `VerifiedIsOnChain`. The invariant
  `VerificationInv` says who waits for what: calls are under way only while the flow reveals
  (`InFlow`), a transaction that is not "nobody"'s is awaited by the saga at the place where it sends it, which
  has no other one (`Awaited`), and only attestations that were drawn are revealed (`Drawn`). Giving up,
  for whichever reason, leaves transactions nobody waits for (`QuitSound`, `LeaveSound`). On it stands
  `ShownOnChain`: the wallet has counted no more than the attestations that are complete
  and whose call is not under way; what is complete and what remains make up what is required,
  and, while the flow reveals, so do what is complete and what is to be revealed. So when all calls have
  returned, enough are complete (`SettledSound`). A mined transaction is complete before its saga
  counts it (`ConfirmedSound`, `OutcomeSound`), and one that fails was completed before
  (`FailsWhenComplete`). That needs what section 3 says of gas and expiry: no "gas" among
  the faults, and behaviours in which no attestation expires while a call is about to complete it
  (`CompletedInTime`); for the last theorem also `RequestsCovered`. `ArrivedCodesAreUsed` needs none of these.
- `WalletProofs`, on Secure Send: `SecureSendAsked`, `PaymentsGoToChosen` and `NewAddressAsksAgain`.
  `SecureSendAsked` is about the step that stores: addresses none of which is new were asked about before, or
  the check of the bypass throws and nothing is stored. `ChosenAmongAllKnown` is not inductive: a lookup takes
  the known addresses out of the store, and what it held decides afterwards. For lookups that nothing overlaps
  `AloneOnClearedStore` and `HeldWereOffered` say that what they hold was on offer when the choice
  was made, or was there when a comment came since.

Sums over a set, the walks along a list and the passes of a loop need induction. The library's induction
theorems take a predicate, which the provers cannot instantiate; `DataTheorems` states induction
over a set instead (`FiniteInduction`, `UpTo`): the subsets, or numbers, of which
something holds are a set, and a set that has the first and with each the next has them all. From
this come the sums (`SumAdd`, `SumChange`, `SumMonotone`, `SumByGroups`), with `SumsExist` for the recursive
function in the definition of the fold.

`ExecutedIsGone` (of `Governance`) and the `TypeOK` of the modules whose invariant contains
it are in no run: the theorems cover them.

Assumptions are those named in the modules: finite sets of voters, proposers, accounts,
groups, owners, signers and addresses; natural numbers for parameters and bounds, positive ones for
the precisions and the threshold; proposal IDs below the timestamps
(`GovernanceAssumption`, with `IsPayload` for what transactions may be), and initial parameters
that the setters accept, since `initialize` calls them (`InitialParamsAssumption`); see also
`MulPrecisionAssumption`, `HotfixAssumption`, `MultiSigAssumption`, `ElectionAssumption`,
`LockedGoldAssumption`, `HintsAssumption`, `SignerAssumption`, `ThresholdAssumption`, `AddressesAssumption`, `AttestationsAssumption` and
`VerificationAssumption` (the reachable issuers are issuers, and the names of the other sagas and the
placeholder name no issuer). TLC evaluates each in every run of its module. But for the theorems on
behaviours named above (`UpvotedGoldAlwaysLocked`, `ParamsAlwaysInRange`, `ProgressIsOnChain`,
`VerifiedIsOnChain`), no theorem assumes anything else; to the theorems the bounds
in the guards (`MaxGold`, `MaxTime`, `MaxProposals`, ...) are numbers of any size.

Only model-checked:

- `ReferendumGoldStaysLocked`, which does not hold when referendums overlap (run `unlock`).
- `SeatsByDHondt`, whose heap is sifted by a RECURSIVE operator, and `Terminates`, which is
  liveness.

## 5. Left out of the modelled components

- `revokeAllActive`, which always reverts (above).
- Payloads do not call back into `propose`, `approve` or `executeHotfix`
  (reentrancy), and set each parameter at most once.
- `setApprover` and who the approver is; a vote signer is taken for its account.
- Gold sent to the contract other than as a deposit.
- 256-bit overflow: the quantities are far below the limits, and `SafeMath`
  reverts. Subtractions that may revert are guards.
- Events, and view functions that no other function uses.
- In `Governance`, `LockedGold` is reduced to the locked gold of an account, the total,
  and the three ways it changes; unlock's requirement for validators can only
  refuse more. In `LockedGold`, in turn, a refusal by `Governance.isVoting` is no step.
- The slasher whitelist and `setUnlockingPeriod` of `LockedGold`, the three setters of
  `Election`, the reward formula of `getGroupEpochRewards` beyond its zero cases; the required
  gold, the registered validators and the members of a group do not change in a run.
- In `Attestations`: `revoke`, fees and their withdrawal, other accounts and tokens; the random choice of issuers is
  any choice of the right number among the current validators. Lookups that fail for one issuer
  (`ReachableSets`) are possible in the module and not in the run.
- In the services: authentication and malformed input, purging of expired records (a record is
  purged only when the request is refused anyway), matchmaking, several providers of SMS. In the wallet: what a user types
  is a code or an address that exists, or changes nothing; the screens around these steps.
- In the comments of payments: a claim is checked on chain under the salt that the comment names, and
  senders whose claims are verified are taken to name the number's true salt; a comment whose salt differs from the cached one
  is passed over in the code, and never comes here. A transfer that is given up was mined by then or never is.
  The comment of a payment may make a number payable while a lookup of it is under way.
- `getTopGroupValidators`: an election ends with the number of seats of each group.
- The value of a `MultiSig` transaction and the gold the wallet holds.

## 6. Plan

1. (done) `SortedLinkedList`, `Governance`, `GovernanceHotfix`, their runs and first theorems.
2. (done) `Election` and `LockedGold` composed, `ElectValidators`, `MultiSig` with its theorems.
3. `Validators`: affiliation, members, membership history, the locked gold requirements that
   outlive membership; composed with `LockedGold`, whose requirement is a constant now.
   Abstract specification: membership is mutual.
4. (done) The list with median and ContractKit's hints; verification of a number from the
   wallet to the contracts; salts; the address that is paid.
5. `SortedOracles`' reports by time over the list with median; `ReleaseGold`, `Escrow`, `Random`, `Exchange` and
   `Reserve`, `DowntimeSlasher`, signer authorization of `Accounts`; the faucet's account pool
   (faucet/src/database-helper.ts:257 returns a promise without await, so its finally unlocks the account at once).
6. A model of `execute` and `executeHotfix` at the level of calls, for reentrancy.
7. (done) Proofs of the totals of governance, of locked gold and votes, of the linked list, its
   refinement, its median and its hints, of the salts, of the verification of a number and of the
   address that is paid.
8. More proofs: `ReferendumGoldStaysLocked` for accounts that vote in one referendum at a time.

## Not modelled

The packages without a module here - command line, DAppKit, web sites, blockchain API, notification
service, metadata crawler, faucet, celotool and the charts - build transactions, show data, or
deploy; `PROJECT.json` lists each with its reason. They are most of the repository's lines
and keep little state of their own. Of the contracts,
`EpochRewards`, `GasPriceMinimum` and `StableToken`'s demurrage are formulas on
long fixed point numbers; `Registry`, `Proxy`, `Freezer`, the whitelists and
`BlockchainParameters` are setters or EVM mechanics.
