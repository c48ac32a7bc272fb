---------------------------- MODULE Verification ----------------------------
(***************************************************************************)
(* The wallet's verification saga with what it works on: the redux store   *)
(* of the wallet, its transactions on their way into the chain, and the    *)
(* attestation services.                                                   *)
(*                                                                         *)
(* The wallet is one record.  Its first fields are the identity reducer,   *)
(* the others the local state of the saga doVerificationFlow and of what   *)
(* it forks: a call per attestation (reveal), one to set the account, and  *)
(* a task per message received.  A code is named by its issuer.            *)
(***************************************************************************)
EXTENDS AttestationService, SequencesExt

CONSTANTS
    ReachableSets,   \* the sets of issuers whose metadata may be found
    MaxBlock,        \* bound: the chain stops there
    MaxAttempts,     \* bound: how often verification is started
    MaxReceivers     \* bound: tasks that handle a message with one code at a time

Placeholder == "ATTESTATION_CODE_PLACEHOLDER"

ASSUME VerificationAssumption ==
    /\ IsFiniteSet(Issuers) /\ ReachableSets \subseteq SUBSET Issuers
    /\ Issuers \cap {Placeholder, "main", "account", "nobody"} = {}

VARIABLES
    mempool,     \* transactions sent and not mined, by nonce: [tx, by]
    abandoned,   \* issuers that may still get a request nobody waits for
    wallet,
    attempts

vars == <<chain, serviceVars, mempool, abandoned, wallet, attempts>>

\* The store, and no attempt running.
NewWallet ==
    [status      |-> "Stopped",
     codes       |-> <<>>,
     accepted    |-> {},
     numComplete |-> 0,
     verified    |-> FALSE,
     at          |-> "idle",   \* where doVerificationFlow is
     remaining   |-> 0,        \* numAttestationsRemaining
     needed      |-> 0,        \* numAttestationsRequestsNeeded
     waitUntil   |-> 0,        \* the block waitForSelectingIssuers waits for
     reveal      |-> [i \in Issuers |-> "none"],
     account     |-> "none",
     receiving   |-> [i \in Issuers |-> 0]]

\* The store, with all sagas of an attempt cancelled.
ended(w) ==
    [NewWallet EXCEPT !.status = w.status, !.codes = w.codes, !.accepted = w.accepted,
                      !.numComplete = w.numComplete, !.verified = w.verified]

Init ==
    /\ chain = NewChain
    /\ sent = {}
    /\ inbox = {}
    /\ mempool = <<>>
    /\ abandoned = {}
    /\ wallet = NewWallet
    /\ attempts = 0

(***************************************************************************)
(* The reducer                                                             *)
(***************************************************************************)
\* Mutant: the count of the attempt before is kept.
resetVerificationKeepingCount(w) == [w EXCEPT !.codes = <<>>, !.status = "Stopped"]

resetVerification(w) ==
    [w EXCEPT !.codes = <<>>, !.numComplete = 0, !.status = "Stopped"]

setVerificationStatus(w, status) ==
    [w EXCEPT !.status = status, !.accepted = IF status = "Failed" THEN {} ELSE @]

\* As many codes as attestations are complete, with placeholders for those that were
\* entered in earlier attempts.
completeAttestationCode(w, n) ==
    [w EXCEPT !.numComplete = @ + n,
              !.codes = [k \in 1..(IF Len(@) > w.numComplete + n THEN Len(@)
                                   ELSE w.numComplete + n) |->
                            IF k <= Len(@) THEN @[k] ELSE Placeholder]]

inputAttestationCode(w, i) ==
    [w EXCEPT !.codes = Append(@, i), !.accepted = @ \cup {i}]

(***************************************************************************)
(* The saga                                                                *)
(***************************************************************************)
allIssuers(w) == {i \in Issuers : w.reveal[i] # "none"}

\* Nobody waits any longer for the transactions on their way.
unawaited(m) == [k \in DOMAIN m |-> [m[k] EXCEPT !.by = "nobody"]]

\* The requests that still reach an attestation service.
unanswered(w) == {i \in Issuers : w.reveal[i] = "revealing"}

\* doVerificationFlow catches what was thrown and returns false.  Once the receiver of
\* messages is forked that ends neither it nor the call, which waits for what it forked.
failed(w) ==
    LET f == setVerificationStatus(w, "Failed")
    IN  IF w.at = "revealing"
        THEN [f EXCEPT !.at = "receiving", !.account = "none",
                       !.reveal = [i \in Issuers |-> IF @[i] = "none" THEN "none" ELSE "cancelled"]]
        ELSE ended(f)

\* Mutant: the flow ends with the first attestation that is complete.
settledWithFirst(w) ==
    IF /\ w.at = "revealing" /\ w.account = "done"
       /\ \E i \in allIssuers(w) : w.reveal[i] = "done"
    THEN ended([setVerificationStatus(w, "Done") EXCEPT !.verified = TRUE])
    ELSE w

\* The end of doVerificationFlow, as soon as all calls have returned.
settled(w) ==
    IF /\ w.at = "revealing" /\ w.account = "done"
       /\ \A i \in allIssuers(w) : w.reveal[i] = "done"
    THEN ended([setVerificationStatus(w, "Done") EXCEPT !.verified = TRUE])
    ELSE w

\* Every way to leave the running attempt: w is the wallet afterwards.
Leave(w) ==
    /\ wallet' = w
    /\ mempool' = unawaited(mempool)
    /\ abandoned' = abandoned \cup unanswered(wallet)

StartVerification ==
    /\ attempts < MaxAttempts
    /\ attempts' = attempts + 1
    /\ Leave(setVerificationStatus([ended(resetVerification(wallet)) EXCEPT !.at = "prepping"],
                                   "Prepping"))
    /\ UNCHANGED <<chain, serviceVars>>

\* The race of startVerification is won by CANCEL_VERIFICATION, or by its timeout.
CancelVerification ==
    /\ wallet.at # "idle"
    /\ Leave(ended(wallet))
    /\ UNCHANGED <<chain, serviceVars, attempts>>

VerificationTimesOut ==
    /\ wallet.at # "idle"
    /\ Leave(ended(setVerificationStatus(wallet, "Failed")))
    /\ UNCHANGED <<chain, serviceVars, attempts>>

RevokeVerification ==
    /\ wallet' = [resetVerification(wallet) EXCEPT !.verified = FALSE]
    /\ UNCHANGED <<chain, serviceVars, mempool, abandoned, attempts>>

\* The app is killed and started again: the store is persisted but for the status.
Restart ==
    /\ "kill" \in Faults
    /\ Leave([ended(wallet) EXCEPT !.status = "Stopped"])
    /\ UNCHANGED <<chain, serviceVars, attempts>>

Moves(w) ==
    /\ wallet' = w
    /\ UNCHANGED <<chain, serviceVars, mempool, abandoned, attempts>>

Prepare ==
    /\ wallet.at = "prepping"
    /\ Moves([setVerificationStatus(wallet, "GettingStatus") EXCEPT !.at = "gettingStatus"])

GetStatus ==
    /\ wallet.at = "gettingStatus"
    /\ IF isVerified(chain)
       THEN Moves(ended([setVerificationStatus(wallet, "Done") EXCEPT !.verified = TRUE]))
       ELSE Moves([setVerificationStatus(completeAttestationCode(wallet, chain.completed),
                                         "RequestingAttestations")
                     EXCEPT !.at = "fetching", !.remaining = numAttestationsRemaining(chain)])

\* requestAndRetrieveAttestations: with enough attestations to reveal, listen for
\* messages, ask the issuers for the codes and set the account.
FetchAttestations ==
    /\ wallet.at = "fetching"
    /\ \E reachable \in ReachableSets :
          LET attestations == getActionableAttestations(chain, reachable)
              missing      == wallet.remaining - Cardinality(attestations)
          IN  IF missing > 0
              THEN Moves([wallet EXCEPT !.at = "needed", !.needed = missing])
              ELSE Moves(
                     [setVerificationStatus(wallet, "RevealingNumber") EXCEPT
                        !.at = "revealing", !.remaining = 0,
                        !.reveal = [i \in Issuers |->
                                       IF i \in attestations THEN "revealing" ELSE "none"],
                        !.account = "check"])

\* isAccountUpToDate.
CheckAccount ==
    /\ wallet.account = "check"
    /\ Moves(settled([wallet EXCEPT !.account = IF chain.accountSet THEN "done" ELSE "setAccount"]))

\* requestAttestations requests nothing while there is an unselected request.
CheckUnselectedRequest ==
    /\ wallet.at = "needed"
    /\ Moves([wallet EXCEPT !.at = IF chain.unselected.blockNumber = 0 THEN "approve" ELSE "toWait",
                              !.needed = IF chain.unselected.blockNumber = 0 THEN @ ELSE 0])

BeginWaiting ==
    /\ wallet.at = "toWait"
    /\ IF chain.unselected.blockNumber = 0
       THEN Moves(failed(wallet))
       ELSE Moves([wallet EXCEPT !.at = "waiting",
                                 !.waitUntil = chain.unselected.blockNumber + SelectWaitBlocks])

\* waitForSelectingIssuers returns when its 120 seconds are over as well.
FinishWaiting ==
    /\ wallet.at = "waiting"
    /\ chain.block >= wallet.waitUntil \/ "slow" \in Faults
    /\ Moves([wallet EXCEPT !.at = "select", !.waitUntil = 0])

\* A read from the chain, or the sending of a transaction, throws; or a transaction is
\* not confirmed in time, and stays on its way.
FlowThrows ==
    /\ "throw" \in Faults
    /\ wallet.at \notin {"idle", "receiving"}
    /\ wallet.at = "revealing" => \/ wallet.account \in {"check", "setAccount"}
                                  \/ \E i \in Issuers : wallet.reveal[i] = "completing"
    /\ Leave(failed(wallet))
    /\ UNCHANGED <<chain, serviceVars, attempts>>

(***************************************************************************)
(* sendTransaction.  by: the saga that waits for the confirmation.         *)
(***************************************************************************)
Sagas == {"main", "account"} \cup Issuers

\* The transaction that a saga is about to send or waits for.
transactionsOf(w, by) ==
    {txn \in {[at |-> "approve", tx |-> Approve(w.needed)],
              [at |-> "request", tx |-> Request(w.needed)],
              [at |-> "select",  tx |-> SelectIssuers]} : by = "main" /\ txn.at = w.at}
    \cup {txn \in {[at |-> "setAccount", tx |-> SetAccount]} : by = "account" /\ txn.at = w.account}
    \cup {[at |-> "completing", tx |-> Complete(i)] :
             i \in {j \in Issuers : by = j /\ w.reveal[j] = "completing"}}

\* The saga goes on after its transaction.
confirmed(w, by) ==
    settled(CASE w.at = "approve" -> [w EXCEPT !.at = "request"]
              [] w.at = "request" -> [w EXCEPT !.at = "toWait", !.needed = 0]
              [] w.at = "select"  -> [w EXCEPT !.at = "fetching"]
              [] by = "account" -> [w EXCEPT !.account = "done"]
              [] by \in Issuers -> [completeAttestationCode(w, 1) EXCEPT !.reveal[by] = "done"])

\* A transaction whose gas cannot be estimated since it would fail ("always failing"),
\* or that runs out of gas, counts as sent and confirmed.
SendTransaction(by) ==
    /\ \A k \in DOMAIN mempool : mempool[k].by # by
    /\ \E txn \in transactionsOf(wallet, by) :
          \/ /\ ~succeeds(chain, txn.tx) \/ "gas" \in Faults
             /\ wallet' = confirmed(wallet, by)
             /\ UNCHANGED mempool
          \/ /\ succeeds(chain, txn.tx)
             /\ mempool' = Append(mempool, [tx |-> txn.tx, by |-> by])
             /\ UNCHANGED wallet
    /\ UNCHANGED <<chain, serviceVars, abandoned, attempts>>

\* The next transaction is mined; one that is reverted is an error for who waits for it.
MineTransaction ==
    /\ mempool # <<>>
    /\ LET tx == Head(mempool).tx
           by == Head(mempool).by
       IN  IF succeeds(chain, tx)
           THEN /\ chain' \in outcomes(chain, tx)
                /\ mempool' = Tail(mempool)
                /\ wallet' = IF by = "nobody" THEN wallet ELSE confirmed(wallet, by)
                /\ UNCHANGED abandoned
           ELSE /\ IF by = "nobody"
                   THEN mempool' = Tail(mempool) /\ UNCHANGED <<wallet, abandoned>>
                   ELSE /\ wallet' = failed(wallet)
                        /\ mempool' = unawaited(Tail(mempool))
                        /\ abandoned' = abandoned \cup unanswered(wallet)
                /\ UNCHANGED chain
    /\ UNCHANGED <<serviceVars, attempts>>

NextBlock ==
    /\ chain.block < MaxBlock
    /\ chain' = [chain EXCEPT !.block = @ + 1]
    /\ UNCHANGED <<serviceVars, mempool, abandoned, wallet, attempts>>

(***************************************************************************)
(* Revealing and completing an attestation                                 *)
(***************************************************************************)
\* Mutant: codes that are in the store already are not looked at.
revealedWithoutLook(w, i, ok) ==
    LET r == IF ok THEN w ELSE setVerificationStatus(w, "RevealAttemptFailed")
    IN  [r EXCEPT !.reveal[i] = "waiting"]

\* waitForAttestationCode looks for the code in the store before it waits for one.
revealed(w, i, ok) ==
    LET r == IF ok THEN w ELSE setVerificationStatus(w, "RevealAttemptFailed")
    IN  [r EXCEPT !.reveal[i] = IF Contains(w.codes, i) THEN "completing" ELSE "waiting"]

\* The service has worked off the request, and its answer is on its way.
answers(ok) == IF ok THEN "sent" ELSE "refused"

RevealHandled(i) ==
    /\ wallet.reveal[i] = "revealing"
    /\ \E ok \in BOOLEAN :
          /\ HandleAttestationRequest(i, ok)
          /\ wallet' = [wallet EXCEPT !.reveal[i] = answers(ok)]
    /\ UNCHANGED <<chain, mempool, abandoned, attempts>>

RevealAnswered(i) ==
    \E ok \in BOOLEAN :
        /\ wallet.reveal[i] = answers(ok)
        /\ Moves(revealed(wallet, i, ok))

\* The request is lost, or late, or its answer is lost.
RevealLost(i) ==
    /\ "lost" \in Faults
    /\ wallet.reveal[i] \in {"revealing", "sent", "refused"}
    /\ wallet' = revealed(wallet, i, FALSE)
    /\ abandoned' = abandoned \cup ({i} \cap unanswered(wallet))
    /\ UNCHANGED <<chain, serviceVars, mempool, attempts>>

AbandonedRevealHandled(i) ==
    /\ i \in abandoned
    /\ abandoned' = abandoned \ {i}
    /\ \E ok \in BOOLEAN : HandleAttestationRequest(i, ok)
    /\ UNCHANGED <<chain, mempool, wallet, attempts>>

\* The user, the SMS retriever or a deep link hands over a code.  A code that was
\* accepted before is refused, and changes nothing.
ReceiveAttestationMessage(i) ==
    /\ wallet.at \in {"revealing", "receiving"}
    /\ i \in inbox
    /\ i \notin wallet.accepted
    /\ wallet.receiving[i] < MaxReceivers
    /\ Moves([wallet EXCEPT !.receiving[i] = @ + 1])

\* The issuer was found and the code validated on chain, or not.
AttestationCodeChecked(i) ==
    /\ wallet.receiving[i] > 0
    /\ LET w == [wallet EXCEPT !.receiving[i] = @ - 1]
       IN  IF i \in allIssuers(w) /\ validateAttestationCode(chain, i)
           THEN Moves([inputAttestationCode(w, i) EXCEPT
                          !.reveal[i] = IF @ = "waiting" THEN "completing" ELSE @])
           ELSE Moves(w)

Next ==
    \/ StartVerification \/ CancelVerification \/ VerificationTimesOut \/ RevokeVerification
    \/ Restart
    \/ Prepare \/ GetStatus \/ FetchAttestations \/ CheckAccount \/ CheckUnselectedRequest
    \/ BeginWaiting \/ FinishWaiting \/ FlowThrows
    \/ \E by \in Sagas : SendTransaction(by)
    \/ MineTransaction \/ NextBlock
    \/ \E i \in Issuers :
          \/ RevealHandled(i) \/ RevealAnswered(i) \/ RevealLost(i) \/ AbandonedRevealHandled(i)
          \/ ReceiveAttestationMessage(i) \/ AttestationCodeChecked(i)

Spec == Init /\ [][Next]_vars

(***************************************************************************)
(* Properties                                                              *)
(***************************************************************************)
\* The wallet calls the number verified only if the contracts agree.  Attempts may be
\* cancelled, killed or time out with transactions on their way, which are mined under
\* a later attempt that sends the same ones again, and some of those then fail in a way
\* that sendTransaction takes for success.
VerifiedOnChain == wallet.verified => isVerified(chain)

\* The progress that the wallet shows is never ahead of the contracts: an attestation is
\* counted once between what GetStatus found and what this attempt confirmed, and once
\* by the contracts, however often its transaction is sent.
ProgressOnChain ==
    wallet.numComplete <= Cardinality({i \in Issuers : chain.issued[i].status = "Complete"})

\* No call waits for a code that has arrived.  Messages are handled from the moment the
\* receiver is forked, while the requests to the issuers are still under way, so a code
\* may be in the store before anybody waits for it.
WaitedForCodeIsNew ==
    \A i \in Issuers : wallet.reveal[i] = "waiting" => ~Contains(wallet.codes, i)

=============================================================================
