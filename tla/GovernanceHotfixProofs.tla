----------------------- MODULE GovernanceHotfixProofs -----------------------
(***************************************************************************)
(* Proofs that the hotfix path of Governance.sol is safe for any number of *)
(* hotfixes and validators, any epoch size and any sequence of validator   *)
(* sets.  PreparedMeansQuorum is not inductive by itself: when the epoch   *)
(* number changes one must know that no preparation is for a later epoch.  *)
(***************************************************************************)
EXTENDS GovernanceHotfix, FiniteSetTheorems, TLAPS

PreparedNotLater == \A h \in Hashes : hotfixes[h].preparedEpoch <= getEpochNumber

IInv == TypeOK /\ PreparedNotLater /\ PreparedMeansQuorum

-----------------------------------------------------------------------------

\* Block 1 is in epoch 1, and no block is in an earlier epoch than the one before.
LEMMA EpochsGrow ==
    ASSUME NEW b \in Nat \ {0}
    PROVE  /\ epochNumberOfBlock(b) \in Nat \ {0}
           /\ epochNumberOfBlock(b) <= epochNumberOfBlock(b + 1)
<1> DEFINE q == b \div EpochSize
           r == b % EpochSize
           p == (b + 1) \div EpochSize
           t == (b + 1) % EpochSize
<1>1. /\ q \in Nat /\ r \in 0..EpochSize - 1 /\ b = EpochSize * q + r
      /\ p \in Nat /\ t \in 0..EpochSize - 1 /\ b + 1 = EpochSize * p + t
  BY HotfixAssumption
<1> HIDE DEF q, r, p, t
<1>2. q <= p
  <2> SUFFICES ASSUME p <= q - 1 PROVE FALSE
    BY <1>1
  <2>1. EpochSize * p <= EpochSize * (q - 1)
    BY <1>1, HotfixAssumption
  <2>2. EpochSize * (q - 1) = EpochSize * q - EpochSize
    BY <1>1, HotfixAssumption
  <2>3. /\ EpochSize * p \in Int /\ EpochSize * q \in Int
    BY <1>1, HotfixAssumption
  <2> QED BY <1>1, <2>1, <2>2, <2>3, HotfixAssumption
<1>3. p = q => t = r + 1
  <2> SUFFICES ASSUME p = q PROVE t = r + 1
    OBVIOUS
  <2>1. EpochSize * q \in Int
    BY <1>1, HotfixAssumption
  <2> QED BY <1>1, <2>1
<1>4. epochNumberOfBlock(b) = IF r = 0 THEN q ELSE q + 1
  BY DEF epochNumberOfBlock, q, r
<1>5. epochNumberOfBlock(b + 1) = IF t = 0 THEN p ELSE p + 1
  BY DEF epochNumberOfBlock, p, t
<1>6. r = 0 => q # 0
  BY <1>1, HotfixAssumption
<1> QED BY <1>1, <1>2, <1>3, <1>4, <1>5, <1>6

\* The tally is a number, and whitelisting can only raise it.
LEMMA TallyMonotone ==
    ASSUME NEW S \in SUBSET currentSet, NEW T \in SUBSET currentSet, S \subseteq T,
           currentSet \subseteq Signers
    PROVE  Cardinality(S) \in Nat /\ Cardinality(T) \in Nat /\ Cardinality(S) <= Cardinality(T)
<1>1. IsFiniteSet(currentSet)
  BY FS_Subset, HotfixAssumption
<1>2. IsFiniteSet(S) /\ IsFiniteSet(T)
  BY <1>1, FS_Subset
<1> QED BY <1>2, FS_Subset, FS_CardinalityType

\* minQuorumSize is a natural number, as the size of a finite validator set is.
LEMMA QuorumSize ==
    ASSUME currentSet \subseteq Signers
    PROVE  minQuorumSizeInCurrentSet \in Nat
<1>1. Cardinality(currentSet) \in Nat
  BY FS_Subset, FS_CardinalityType, HotfixAssumption
<1> QED BY <1>1 DEF minQuorumSizeInCurrentSet

-----------------------------------------------------------------------------

\* The invariant holds before any hotfix is known.
LEMMA InitInvariant == Init => IInv
<1> SUFFICES ASSUME Init PROVE IInv
  OBVIOUS
<1>1. TypeOK
  BY DEF Init, TypeOK, NewHotfix
<1>2. getEpochNumber \in Nat \ {0}
  BY <1>1, EpochsGrow DEF TypeOK, getEpochNumber
<1>3. \A h \in Hashes : hotfixes[h].preparedEpoch = 0
  BY DEF Init, NewHotfix
<1> QED BY <1>1, <1>2, <1>3 DEF IInv, PreparedNotLater, PreparedMeansQuorum

\* Every action preserves the invariant.
LEMMA NextInvariant == IInv /\ [Next]_vars => IInv'
<1> SUFFICES ASSUME IInv, [Next]_vars PROVE IInv'
  OBVIOUS
<1> USE DEF IInv
<1>0. /\ getEpochNumber \in Nat \ {0}
      /\ currentSet \subseteq Signers
  BY EpochsGrow DEF getEpochNumber, TypeOK
<1>1. CASE NextBlock
  <2>1. TypeOK'
    BY <1>1 DEF NextBlock, TypeOK
  <2>2. /\ getEpochNumber' \in Nat
        /\ getEpochNumber <= getEpochNumber'
    <3>1. blockNumber \in Nat \ {0} /\ blockNumber' = blockNumber + 1
      BY <1>1 DEF NextBlock, TypeOK
    <3>2. /\ getEpochNumber' = epochNumberOfBlock(blockNumber + 1)
          /\ blockNumber + 1 \in Nat \ {0}
      BY <3>1 DEF getEpochNumber, epochNumberOfBlock
    <3> QED BY <3>1, <3>2, EpochsGrow DEF getEpochNumber
  <2>3. hotfixes' = hotfixes
    BY <1>1 DEF NextBlock
  <2>4. \A h \in Hashes : hotfixes[h].preparedEpoch \in Nat
    BY DEF TypeOK
  <2>5. PreparedNotLater'
    BY <1>0, <2>2, <2>3, <2>4 DEF PreparedNotLater
  <2>6. CASE getEpochNumber' = getEpochNumber
    <3>1. currentSet' = currentSet
      BY <1>1, <2>6 DEF NextBlock, getEpochNumber, epochNumberOfBlock
    <3> QED BY <2>1, <2>3, <2>5, <2>6, <3>1
            DEF PreparedMeansQuorum, isHotfixPassing, hotfixWhitelistValidatorTally,
                whitelisters, minQuorumSizeInCurrentSet
  <2>7. CASE getEpochNumber' # getEpochNumber
    <3>1. \A h \in Hashes : hotfixes'[h].preparedEpoch # getEpochNumber'
      BY <1>0, <2>2, <2>3, <2>4, <2>7 DEF PreparedNotLater
    <3> QED BY <2>1, <2>5, <3>1 DEF PreparedMeansQuorum
  <2> QED BY <2>6, <2>7
<1>2. ASSUME NEW h \in Hashes,
             UNCHANGED <<blockNumber, currentSet>>,
             TypeOK',
             \A x \in Hashes : /\ hotfixes[x].whitelisted \subseteq hotfixes'[x].whitelisted
                               /\ hotfixes'[x].preparedEpoch = hotfixes[x].preparedEpoch
      PROVE  IInv'
  <2>1. getEpochNumber' = getEpochNumber
    BY <1>2 DEF getEpochNumber, epochNumberOfBlock
  <2>2. PreparedNotLater'
    BY <1>2, <2>1 DEF PreparedNotLater
  <2>3. ASSUME NEW x \in Hashes, isHotfixPassing(x) PROVE isHotfixPassing(x)'
    <3>1. /\ whitelisters(x) \in SUBSET currentSet
          /\ whitelisters(x)' \in SUBSET currentSet
          /\ whitelisters(x) \subseteq whitelisters(x)'
      BY <1>2 DEF whitelisters
    <3>2. /\ Cardinality(whitelisters(x)) \in Nat
          /\ Cardinality(whitelisters(x)') \in Nat
          /\ Cardinality(whitelisters(x)) <= Cardinality(whitelisters(x)')
      BY <1>0, <3>1, TallyMonotone
    <3>3. minQuorumSizeInCurrentSet' = minQuorumSizeInCurrentSet
      BY <1>2 DEF minQuorumSizeInCurrentSet
    <3> QED BY <1>0, <2>3, <3>2, <3>3, QuorumSize
            DEF isHotfixPassing, hotfixWhitelistValidatorTally
  <2> QED BY <1>2, <2>1, <2>2, <2>3 DEF PreparedMeansQuorum
<1>3. ASSUME NEW h \in Hashes, ApproveHotfix(h) PROVE IInv'
  <2>1. TypeOK'
    BY <1>3 DEF ApproveHotfix, TypeOK
  <2>2. \A x \in Hashes : /\ hotfixes[x].whitelisted \subseteq hotfixes'[x].whitelisted
                          /\ hotfixes'[x].preparedEpoch = hotfixes[x].preparedEpoch
    BY <1>3 DEF ApproveHotfix, TypeOK
  <2> QED BY <1>2, <1>3, <2>1, <2>2 DEF ApproveHotfix
<1>4. ASSUME NEW h \in Hashes, NEW sender \in Signers \cup Accounts, WhitelistHotfix(h, sender)
      PROVE  IInv'
  <2>1. TypeOK'
    BY <1>4 DEF WhitelistHotfix, TypeOK
  <2>2. \A x \in Hashes : /\ hotfixes[x].whitelisted \subseteq hotfixes'[x].whitelisted
                          /\ hotfixes'[x].preparedEpoch = hotfixes[x].preparedEpoch
    BY <1>4 DEF WhitelistHotfix, TypeOK
  <2> QED BY <1>2, <1>4, <2>1, <2>2 DEF WhitelistHotfix
<1>5. ASSUME NEW h \in Hashes, ExecuteHotfix(h) PROVE IInv'
  <2>1. TypeOK'
    BY <1>5 DEF ExecuteHotfix, TypeOK
  <2>2. \A x \in Hashes : /\ hotfixes[x].whitelisted \subseteq hotfixes'[x].whitelisted
                          /\ hotfixes'[x].preparedEpoch = hotfixes[x].preparedEpoch
    BY <1>5 DEF ExecuteHotfix, TypeOK
  <2> QED BY <1>2, <1>5, <2>1, <2>2 DEF ExecuteHotfix
<1>6. ASSUME NEW h \in Hashes, PrepareHotfix(h) PROVE IInv'
  <2>1. TypeOK'
    BY <1>0, <1>6 DEF PrepareHotfix, TypeOK
  <2>2. /\ getEpochNumber' = getEpochNumber
        /\ currentSet' = currentSet
    BY <1>6 DEF PrepareHotfix, getEpochNumber, epochNumberOfBlock
  <2>3. \A x \in Hashes :
          /\ hotfixes'[x].whitelisted = hotfixes[x].whitelisted
          /\ hotfixes'[x].preparedEpoch = IF x = h THEN getEpochNumber
                                                   ELSE hotfixes[x].preparedEpoch
    BY <1>6 DEF PrepareHotfix, TypeOK
  <2>4. \A x \in Hashes : isHotfixPassing(x)' <=> isHotfixPassing(x)
    BY <2>2, <2>3 DEF isHotfixPassing, hotfixWhitelistValidatorTally, whitelisters,
                      minQuorumSizeInCurrentSet
  <2>5. PreparedNotLater'
    BY <1>0, <2>2, <2>3 DEF PreparedNotLater
  <2>6. PreparedMeansQuorum'
    BY <1>6, <2>2, <2>3, <2>4 DEF PreparedMeansQuorum, PrepareHotfix
  <2> QED BY <2>1, <2>5, <2>6
<1>7. CASE UNCHANGED vars
  BY <1>7 DEF vars, TypeOK, PreparedNotLater, PreparedMeansQuorum, isHotfixPassing,
              hotfixWhitelistValidatorTally, whitelisters, minQuorumSizeInCurrentSet,
              getEpochNumber, epochNumberOfBlock
<1> QED BY <1>1, <1>3, <1>4, <1>5, <1>6, <1>7 DEF Next

\* The invariant holds in every reachable state.
LEMMA InvariantHolds == Spec => []IInv
<1> QED BY InitInvariant, NextInvariant, PTL DEF Spec

-----------------------------------------------------------------------------

\* The hotfix records are well typed in every reachable state.
THEOREM TypeCorrect == Spec => []TypeOK
<1>1. IInv => TypeOK
  BY DEF IInv
<1> QED BY <1>1, InvariantHolds, PTL

\* A hotfix that counts as prepared has a quorum of the validators in office behind
\* it: a preparation made by prepareHotfix does not survive the epoch, and so not the
\* validator set, it was made for.
THEOREM PreparationHasQuorum == Spec => []PreparedMeansQuorum
<1>1. IInv => PreparedMeansQuorum
  BY DEF IInv
<1> QED BY <1>1, InvariantHolds, PTL

\* executeHotfix needs the approval and a quorum of the validators in office, and it
\* happens once: no function of the hotfix path changes an executed record.
THEOREM ExecutionFinal == Spec => ExecutionIsFinal
<1> DEFINE Step == \A h \in Hashes :
                      /\ hotfixes[h].executed => hotfixes'[h] = hotfixes[h]
                      /\ ~hotfixes[h].executed /\ hotfixes'[h].executed =>
                            hotfixes[h].approved /\ isHotfixPassing(h)
<1>1. ASSUME IInv, [Next]_vars PROVE [Step]_vars
  <2> SUFFICES ASSUME Next PROVE Step
    BY <1>1
  <2>1. CASE NextBlock
    BY <2>1 DEF NextBlock
  <2>2. ASSUME NEW h \in Hashes, ApproveHotfix(h) PROVE Step
    BY <1>1, <2>2 DEF ApproveHotfix, IInv, TypeOK
  <2>3. ASSUME NEW h \in Hashes, NEW sender \in Signers \cup Accounts,
               WhitelistHotfix(h, sender)
        PROVE  Step
    BY <1>1, <2>3 DEF WhitelistHotfix, IInv, TypeOK
  <2>4. ASSUME NEW h \in Hashes, PrepareHotfix(h) PROVE Step
    BY <1>1, <2>4 DEF PrepareHotfix, IInv, TypeOK
  <2>5. ASSUME NEW h \in Hashes, ExecuteHotfix(h) PROVE Step
    <3>1. hotfixes[h].approved /\ isHotfixPassing(h)
      BY <1>1, <2>5 DEF ExecuteHotfix, IInv, PreparedMeansQuorum
    <3> QED BY <1>1, <2>5, <3>1 DEF ExecuteHotfix, IInv, TypeOK
  <2> QED BY <2>1, <2>2, <2>3, <2>4, <2>5 DEF Next
<1> QED BY <1>1, InvariantHolds, PTL DEF Spec, ExecutionIsFinal

=============================================================================
