---------------------------- MODULE Attestations ----------------------------
(***************************************************************************)
(* Attestations.sol for one identifier and one account, with the part of   *)
(* Accounts that verification sets: what a transaction of the account does *)
(* to the chain, and what contractkit's AttestationsWrapper reads from it. *)
(* The chain is one record, since a transaction is atomic.  There is one   *)
(* fee token and the fee of one attestation is one.                        *)
(***************************************************************************)
EXTENDS Integers, Sequences, FiniteSets

CONSTANTS
    Issuers,             \* the accounts of the current validators
    ExpiryBlocks,        \* attestationExpiryBlocks
    SelectWaitBlocks,    \* selectIssuersWaitBlocks
    RetentionWindow,     \* Random's randomnessBlockRetentionWindow
    MaxAttestations,     \* maxAttestations
    NumRequired,         \* NUM_ATTESTATIONS_REQUIRED
    ThresholdInverse     \* 1 / DEFAULT_ATTESTATION_THRESHOLD

ASSUME AttestationsAssumption ==
    /\ {ExpiryBlocks, SelectWaitBlocks, RetentionWindow} \subseteq Nat \ {0}
    /\ {MaxAttestations, NumRequired, ThresholdInverse} \subseteq Nat \ {0}

NoRequest == [blockNumber |-> 0, attestationsRequested |-> 0]

NewChain ==
    [block      |-> 1,
     allowance  |-> 0,               \* StableToken: approved for the contract
     unselected |-> NoRequest,
     requested  |-> 0,
     completed  |-> 0,
     issued     |-> [i \in Issuers |-> [status |-> "None", blockNumber |-> 0]],
     accountSet |-> FALSE]           \* Accounts: wallet address and key of the account

isAttestationExpired(chain, blockNumber) == chain.block >= blockNumber + ExpiryBlocks

isAttestationCompletable(chain, i) ==
    /\ chain.issued[i].status = "Incomplete"
    /\ ~isAttestationExpired(chain, chain.issued[i].blockNumber)

isAttestationRequestSelectable(chain) ==
    chain.block < chain.unselected.blockNumber + RetentionWindow

\* validateAttestationCode: a code is the issuer's signature of the identifier and the
\* account, so there is one per issuer and it is named by the issuer.
validateAttestationCode(chain, i) == isAttestationCompletable(chain, i)

(***************************************************************************)
(* Transactions                                                            *)
(***************************************************************************)
Approve(n)     == [fn |-> "approve", n |-> n]
Request(n)     == [fn |-> "request", n |-> n]
SelectIssuers  == [fn |-> "selectIssuers"]
Complete(i)    == [fn |-> "complete", issuer |-> i]
SetAccount     == [fn |-> "setAccount"]

\* Issuers are drawn from those that were never drawn for this account, from the
\* randomness of a block that must exist and must not have left the window.
canSelectIssuers(chain) ==
    LET randomnessBlock == chain.unselected.blockNumber + SelectWaitBlocks
    IN  /\ chain.unselected.blockNumber > 0
        /\ ~isAttestationExpired(chain, chain.unselected.blockNumber)
        /\ randomnessBlock <= chain.block
        /\ chain.block < randomnessBlock + RetentionWindow
        /\ chain.unselected.attestationsRequested <=
              Cardinality({i \in Issuers : chain.issued[i].status = "None"})

canRequest(chain, n) ==
    /\ n <= chain.allowance
    /\ n \in 1..MaxAttestations
    /\ \/ chain.unselected.blockNumber = 0
       \/ isAttestationExpired(chain, chain.unselected.blockNumber)
       \/ ~isAttestationRequestSelectable(chain)

\* Whether tx would go through now, which is what estimating its gas finds out.
succeeds(chain, tx) ==
    /\ tx.fn = "request"       => canRequest(chain, tx.n)
    /\ tx.fn = "selectIssuers" => canSelectIssuers(chain)
    /\ tx.fn = "complete"      => validateAttestationCode(chain, tx.issuer)

\* The fee is taken for requests only; a new request replaces a stale one, whose
\* attestations stay counted as requested.
request(chain, n) ==
    [chain EXCEPT !.allowance  = @ - n,
                  !.unselected = [blockNumber |-> chain.block, attestationsRequested |-> n],
                  !.requested  = @ + n]

\* The issuer's deadline counts from the block of the request.
selected(chain, drawn) ==
    [chain EXCEPT !.issued = [i \in Issuers |->
                                 IF i \in drawn
                                 THEN [status |-> "Incomplete",
                                       blockNumber |-> chain.unselected.blockNumber]
                                 ELSE @[i]],
                  !.unselected = NoRequest]

\* The block of the completion is stored as well; nothing reads it.
complete(chain, i) ==
    [chain EXCEPT !.issued[i] = [status |-> "Complete", blockNumber |-> 0],
                  !.completed = @ + 1]

\* The states a successful tx may lead to: which issuers are drawn is random.
outcomes(chain, tx) ==
    CASE tx.fn = "approve"       -> {[chain EXCEPT !.allowance = tx.n]}
      [] tx.fn = "request"       -> {request(chain, tx.n)}
      [] tx.fn = "selectIssuers" ->
            {selected(chain, drawn) :
                drawn \in {D \in SUBSET {i \in Issuers : chain.issued[i].status = "None"} :
                              Cardinality(D) = chain.unselected.attestationsRequested}}
      [] tx.fn = "complete"      -> {complete(chain, tx.issuer)}
      [] tx.fn = "setAccount"    -> {[chain EXCEPT !.accountSet = TRUE]}

(***************************************************************************)
(* What AttestationsWrapper reads                                          *)
(***************************************************************************)
numAttestationsRemaining(chain) == NumRequired - chain.completed

\* isAccountConsideredVerified: enough attestations, and a fraction of those requested.
isVerified(chain) ==
    /\ numAttestationsRemaining(chain) <= 0
    /\ chain.requested >= 1
    /\ chain.completed * ThresholdInverse >= chain.requested

\* getActionableAttestations drops the issuers whose metadata cannot be fetched or
\* names no attestation service, here those outside reachable.
getActionableAttestations(chain, reachable) ==
    {i \in reachable : isAttestationCompletable(chain, i)}

=============================================================================
