-------------------------- MODULE GovernanceHotfix --------------------------
(***************************************************************************)
(* The hotfix path of Governance.sol, which executes transactions without  *)
(* a referendum: the approver approves a hash, validators whitelist it,    *)
(* anybody prepares it for the current epoch once a quorum of the current  *)
(* validator set has whitelisted it, and it can be executed until that     *)
(* epoch ends.  The validator set changes from epoch to epoch; it and the  *)
(* block number come from the client's precompiles, and signerToAccount    *)
(* from the Accounts contract.  What the transactions of a hotfix do is    *)
(* outside this module, and they do not call back into it.                 *)
(***************************************************************************)
EXTENDS Integers, FiniteSets

CONSTANTS Hashes,          \* the hashes of hotfixes
          Signers,         \* the validator signers that may be elected
          signerToAccount, \* the account each signer signs for
          EpochSize,       \* the number of blocks of an epoch
          MaxBlock         \* bound on the block number

Accounts == {signerToAccount[s] : s \in Signers}

ASSUME HotfixAssumption ==
    /\ IsFiniteSet(Signers) /\ DOMAIN signerToAccount = Signers
    /\ EpochSize \in Nat \ {0} /\ MaxBlock \in Nat

VARIABLES blockNumber,     \* the number of the current block
          currentSet,      \* the signers of the validator set of that block
          hotfixes         \* the record of each hash

vars == <<blockNumber, currentSet, hotfixes>>

-----------------------------------------------------------------------------

\* Mutant: the epochs are counted from zero.
epochNumberFromZero(b) == b \div EpochSize

epochNumberOfBlock(b) == IF b % EpochSize = 0 THEN b \div EpochSize
                                              ELSE b \div EpochSize + 1

getEpochNumber == epochNumberOfBlock(blockNumber)

minQuorumSizeInCurrentSet == (2 * Cardinality(currentSet) + 2) \div 3

\* The validators of the current set that whitelisted h, with the key they sign
\* with or as the account behind it.
whitelisters(h) ==
    {s \in currentSet : \/ s \in hotfixes[h].whitelisted
                        \/ signerToAccount[s] \in hotfixes[h].whitelisted}

hotfixWhitelistValidatorTally(h) == Cardinality(whitelisters(h))

isHotfixPassing(h) == hotfixWhitelistValidatorTally(h) >= minQuorumSizeInCurrentSet

NewHotfix == [approved |-> FALSE, executed |-> FALSE, preparedEpoch |-> 0, whitelisted |-> {}]

-----------------------------------------------------------------------------

Init ==
    /\ blockNumber = 1
    /\ currentSet \in (SUBSET Signers) \ {{}}
    /\ hotfixes = [h \in Hashes |-> NewHotfix]

\* The last block of an epoch elects the validator set of the next.
NextBlock ==
    /\ blockNumber < MaxBlock
    /\ blockNumber' = blockNumber + 1
    /\ \/ /\ epochNumberOfBlock(blockNumber') = getEpochNumber
          /\ currentSet' = currentSet
       \/ /\ epochNumberOfBlock(blockNumber') # getEpochNumber
          /\ currentSet' \in (SUBSET Signers) \ {{}}
    /\ UNCHANGED hotfixes

ApproveHotfix(h) ==
    /\ ~hotfixes[h].executed
    /\ hotfixes' = [hotfixes EXCEPT ![h].approved = TRUE]
    /\ UNCHANGED <<blockNumber, currentSet>>

\* Anybody may whitelist a hash; only the validators' addresses are counted.
WhitelistHotfix(h, sender) ==
    /\ ~hotfixes[h].executed
    /\ hotfixes' = [hotfixes EXCEPT ![h].whitelisted = @ \cup {sender}]
    /\ UNCHANGED <<blockNumber, currentSet>>

PrepareHotfix(h) ==
    /\ ~hotfixes[h].executed
    /\ isHotfixPassing(h)
    /\ hotfixes[h].preparedEpoch < getEpochNumber
    /\ hotfixes' = [hotfixes EXCEPT ![h].preparedEpoch = getEpochNumber]
    /\ UNCHANGED <<blockNumber, currentSet>>

\* Mutant: a preparation for any epoch will do.
ExecuteHotfixPreparedOnce(h) ==
    /\ ~hotfixes[h].executed
    /\ hotfixes[h].approved
    /\ hotfixes[h].preparedEpoch > 0
    /\ hotfixes' = [hotfixes EXCEPT ![h].executed = TRUE]
    /\ UNCHANGED <<blockNumber, currentSet>>

ExecuteHotfix(h) ==
    /\ ~hotfixes[h].executed
    /\ hotfixes[h].approved
    /\ hotfixes[h].preparedEpoch = getEpochNumber
    /\ hotfixes' = [hotfixes EXCEPT ![h].executed = TRUE]
    /\ UNCHANGED <<blockNumber, currentSet>>

Next ==
    \/ NextBlock
    \/ \E h \in Hashes : \/ ApproveHotfix(h)
                         \/ \E sender \in Signers \cup Accounts : WhitelistHotfix(h, sender)
                         \/ PrepareHotfix(h)
                         \/ ExecuteHotfix(h)

Spec == Init /\ [][Next]_vars

-----------------------------------------------------------------------------
(***************************************************************************)
(* Properties                                                              *)
(***************************************************************************)

\* The records of Governance.sol's mapping hotfixes are well typed.
TypeOK ==
    /\ blockNumber \in Nat \ {0}
    /\ currentSet \in SUBSET Signers
    /\ hotfixes \in [Hashes -> [approved : BOOLEAN, executed : BOOLEAN, preparedEpoch : Nat,
                                whitelisted : SUBSET (Signers \cup Accounts)]]

\* While a hotfix counts as prepared, a quorum of the validators in office stands
\* behind it: a preparation never outlives the validator set that supported it,
\* although it is checked against the set only when it is made.
PreparedMeansQuorum ==
    \A h \in Hashes : hotfixes[h].preparedEpoch = getEpochNumber => isHotfixPassing(h)

\* A hotfix is executed only when it was approved and, at that very block, a quorum
\* of the current validators had whitelisted it; and nothing touches its record,
\* not even another execution, afterwards.
ExecutionIsFinal ==
    [][\A h \in Hashes :
          /\ hotfixes[h].executed => hotfixes'[h] = hotfixes[h]
          /\ ~hotfixes[h].executed /\ hotfixes'[h].executed =>
                hotfixes[h].approved /\ isHotfixPassing(h)]_vars

=============================================================================
