--------------------------- MODULE PrivateHashing ---------------------------
(***************************************************************************)
(* The wallet's side of the phone number privacy service: sagas that each  *)
(* ask for the salt of a phone number, share a cache of salts, and offer   *)
(* to buy quota, with a transfer to oneself, when the quota is spent.  The *)
(* cache has a second writer, the comments of payments received.           *)
(***************************************************************************)
EXTENDS SaltCombiner

CONSTANTS
    Lookups,    \* the sagas
    Numbers     \* the phone numbers

VARIABLES
    saltCache,  \* e164NumberToSalt, by number: where the salt is from, "none" if there is none
    lookups,    \* by saga: its place, number, request, the transactions of the account when
                \* that was sent, and whether it has bought quota
    sent        \* requests sent so far

vars == <<signerVars, combinerVars, saltCache, lookups, sent>>

Idle(n) == [at |-> "idle", number |-> n, request |-> 0, paid |-> 0, bought |-> FALSE]

Init ==
    /\ SignerInit
    /\ CombinerInit
    /\ saltCache = [n \in Numbers |-> "none"]
    /\ lookups \in [Lookups -> {Idle(n) : n \in Numbers}]
    /\ sent = 0

\* Saga l, as lookup, takes the salt from the cache or asks the service.
doFetchPhoneHashPrivate(l, lookup) ==
    \/ /\ saltCache[lookup.number] # "none"
       /\ lookups' = [lookups EXCEPT ![l] = [lookup EXCEPT !.at = "done"]]
       /\ UNCHANGED <<combiner, signing, sent>>
    \/ /\ saltCache[lookup.number] = "none"
       /\ sent < MaxRequests
       /\ sent' = sent + 1
       /\ requestSignatures(sent')
       /\ lookups' = [lookups EXCEPT ![l] = [lookup EXCEPT !.at = "posted", !.request = sent',
                                                         !.paid = transactionCount]]

FetchPhoneHashPrivate(l) ==
    /\ lookups[l].at \in {"idle", "failed"}
    /\ doFetchPhoneHashPrivate(l, Idle(lookups[l].number))
    /\ UNCHANGED <<standing, transactionCount, accounts, faults, saltCache>>

answer(l) == combiner[lookups[l].request].answer

Moves(l, at) == lookups' = [lookups EXCEPT ![l].at = at]

ReceiveSalt(l) ==
    /\ lookups[l].at = "posted" /\ answer(l) = "salt"
    /\ saltCache' = [saltCache EXCEPT ![lookups[l].number] = "service"]
    /\ Moves(l, "done")
    /\ UNCHANGED <<signerVars, combinerVars, sent>>

\* The comment of a payment received brings the salt of the sender's number.  One that is
\* cached stays, as it is the same or the comment is passed over.
updatePhoneNumberMappings(n) ==
    /\ saltCache[n] = "none"
    /\ saltCache' = [saltCache EXCEPT ![n] = "comment"]
    /\ UNCHANGED <<signerVars, combinerVars, lookups, sent>>

\* The second time an exceeded quota is an error as any other.
ReceiveRefusal(l) ==
    /\ lookups[l].at = "posted" /\ answer(l) \in {"quota", "error"}
    /\ Moves(l, IF answer(l) = "quota" /\ ~lookups[l].bought THEN "screen" ELSE "failed")
    /\ UNCHANGED <<signerVars, combinerVars, saltCache, sent>>

\* The connection to the service breaks.
Disconnect(l) ==
    /\ lookups[l].at = "posted"
    /\ Fault
    /\ Moves(l, "failed")
    /\ UNCHANGED <<standing, transactionCount, accounts, signing, combinerVars, saltCache, sent>>

\* navigateToQuotaPurchaseScreen: the user skips, or buys with or without the balance to.
Skip(l) ==
    /\ lookups[l].at = "screen"
    /\ Moves(l, "failed")
    /\ UNCHANGED <<signerVars, combinerVars, saltCache, sent>>

Buy(l) ==
    /\ lookups[l].at = "screen"
    /\ Moves(l, "buying")
    /\ UNCHANGED <<signerVars, combinerVars, saltCache, sent>>

\* The transfer is confirmed.
TransferConfirmed(l) ==
    /\ lookups[l].at = "buying"
    /\ transactionCount' = transactionCount + 1
    /\ Moves(l, "bought")
    /\ UNCHANGED <<standing, accounts, signing, faults, combinerVars, saltCache, sent>>

\* The transfer fails, with its nonce used or not.
TransferFailed(l) ==
    /\ lookups[l].at = "buying"
    /\ Fault
    /\ transactionCount' \in {transactionCount, transactionCount + 1}
    /\ Moves(l, "failed")
    /\ UNCHANGED <<standing, accounts, signing, combinerVars, saltCache, sent>>

\* An error after which the transfer is not tried again (always failing, out of gas, known,
\* nonce too low) is swallowed: it counts as confirmed, with its nonce used or not.
TransferGivenUp(l) ==
    /\ lookups[l].at = "buying"
    /\ Fault
    /\ transactionCount' \in {transactionCount, transactionCount + 1}
    /\ Moves(l, "bought")
    /\ UNCHANGED <<standing, accounts, signing, combinerVars, saltCache, sent>>

\* A second lookup with the quota bought.
Retry(l) ==
    /\ lookups[l].at = "bought"
    /\ doFetchPhoneHashPrivate(l, [lookups[l] EXCEPT !.bought = TRUE])
    /\ UNCHANGED <<standing, transactionCount, accounts, faults, saltCache>>

Next ==
    \/ SignerNext /\ UNCHANGED <<combinerVars, saltCache, lookups, sent>>
    \/ CombinerNext /\ UNCHANGED <<saltCache, lookups, sent>>
    \/ \E l \in Lookups :
           \/ FetchPhoneHashPrivate(l) \/ ReceiveSalt(l) \/ ReceiveRefusal(l) \/ Disconnect(l)
           \/ Skip(l) \/ Buy(l) \/ TransferConfirmed(l) \/ TransferFailed(l) \/ TransferGivenUp(l)
           \/ Retry(l)
    \/ \E n \in Numbers : updatePhoneNumberMappings(n)

Spec == Init /\ [][Next]_vars

-----------------------------------------------------------------------------
\* A salt that the service gave was given to a lookup of that number, for whose request as
\* many signers as the threshold asks for have given good signatures (get-threshold-salt.ts,
\* bls-cryptography-client.ts).  Nothing is said of salts that comments brought.
SaltHasThreshold ==
    \A n \in Numbers : saltCache[n] = "service" => \E l \in Lookups :
        /\ lookups[l].number = n /\ lookups[l].at = "done"
        /\ Cardinality({s \in Signers : /\ lookups[l].request \in signed(s)
                                         /\ signing[lookups[l].request][s].valid}) >= Threshold

\* The quota is read, checked and counted in separate steps (get-salt.ts, account.ts).
\* Beyond its quota an account gets at most the signatures that overlapped another one that
\* was not counted yet or were given without the count, and those whose count was lost.
QuotaExceededOnlyByRaces ==
    \A s \in Signers :
        Cardinality(signed(s) \ (raced(s) \cup lost(s)))
          <= getQueryQuota(transactionCount)

\* An account whose lookup is refused for its quota had, at a signer, as many other
\* signatures as the transactions allow that it had sent by the time it asked: those bought
\* for this lookup, or for others, count too, and no query is charged twice
\* (get-salt.ts:39, account.ts, privateHashing.ts:48).
RefusedOnlyWhenSpent ==
    \A l \in Lookups :
        lookups[l].at \in {"posted", "screen"} /\ answer(l) = "quota" =>
            \E s \in Signers :
                /\ signing[lookups[l].request][s].at = "forbidden"
                /\ Cardinality(signed(s)) >= getQueryQuota(lookups[l].paid)

\* A request that nothing is pending for has its answer, or is given one for the signatures
\* missing, unless a signer has sent a signature that does not verify: then there are as
\* many successes as are needed, which the combiner takes for an answer sent
\* (get-threshold-salt.ts:54).
NoneForgotten ==
    \A r \in 1..sent :
        \/ combiner[r].answer # "none"
        \/ combiner[r].pending # {}
        \/ Cardinality(combiner[r].successes) < Threshold
        \/ \E s \in combiner[r].successes : ~signing[r][s].valid

=============================================================================
