----------------------------- MODULE SaltSigner -----------------------------
(***************************************************************************)
(* The signers of the phone number privacy service.  Each has a database   *)
(* with how many queries an account has performed, and answers a request   *)
(* with its partial signature as long as the account has quota left.  The  *)
(* model follows one account.                                              *)
(*                                                                         *)
(* A handler waits for the chain, then for its database three times: the   *)
(* handlers of one signer interleave at each of these places.              *)
(***************************************************************************)
EXTENDS Integers, FiniteSets

CONSTANTS
    Signers,
    UnverifiedQueryMax, AdditionalVerifiedQueryMax, QueryPerTransaction,
    Standings,      \* what the quota of the account may rest on
    Transactions,   \* how many transactions the account may have sent before
    MaxFaults,      \* bound: errors of chains, databases, signatures and connections
    MaxRequests     \* bound: requests to the service

ASSUME SignerAssumption ==
    /\ IsFiniteSet(Signers)
    /\ UnverifiedQueryMax \in Nat /\ AdditionalVerifiedQueryMax \in Nat
    /\ QueryPerTransaction \in Nat
    /\ Standings \subseteq {"verified", "balance", "neither"}
    /\ Transactions \subseteq Nat
    /\ MaxRequests \in Nat

Requests == 1..MaxRequests

VARIABLES
    standing,          \* what the quota of the account rests on
    transactionCount,  \* of the account, on the chain
    accounts,          \* by signer: whether the account has a row, and its numLookups
    signing,           \* by request and signer: the handler
    faults             \* errors so far

signerVars == <<standing, transactionCount, accounts, signing, faults>>

\* A handler: its place, the quota it has read, whether its signature is good and whether
\* it has been counted.  A handler has raced when it signed with another signature of the
\* signer still to be counted, or with the count unread.
NotSent == [at |-> "away", quota |-> 0, raced |-> FALSE, valid |-> TRUE, counted |-> FALSE]

SignerInit ==
    /\ standing \in Standings
    /\ transactionCount \in Transactions
    /\ faults = 0
    /\ accounts = [s \in Signers |-> [exists |-> FALSE, numLookups |-> 0]]
    /\ signing = [r \in Requests |-> [s \in Signers |-> NotSent]]

getQueryQuota(transactions) ==
    IF standing = "neither" THEN 0
    ELSE UnverifiedQueryMax + (IF standing = "verified" THEN AdditionalVerifiedQueryMax ELSE 0)
            + QueryPerTransaction * transactions

\* Mutant: the query itself is taken off before the comparison.
remainingAfterThis(quota, performed) == quota - performed - 1

\* Mutant: the quota may be used up and once more.
remainingOrOne(quota, performed) == quota - performed + 1

getRemainingQueryCount(quota, performed) == quota - performed

\* The handler of request r at s moves on.
Goes(r, s, handler) == signing' = [signing EXCEPT ![r][s] = handler]

\* An error, of those within the bound.
Fault == faults < MaxFaults /\ faults' = faults + 1

uncounted(r, s) == signing[r][s].at \in {"signed", "insert", "increment"}

ReadQuota(r, s) ==
    /\ signing[r][s].at = "sent"
    /\ Goes(r, s, [signing[r][s] EXCEPT !.at = "quota", !.quota = getQueryQuota(transactionCount)])
    /\ UNCHANGED <<standing, transactionCount, accounts, faults>>

Refuse(r, s) == Goes(r, s, [NotSent EXCEPT !.at = "forbidden"])

\* The count, as it was read, is compared with the quota, as it was read before.
CheckQuota(r, s, performed, signature) ==
    IF getRemainingQueryCount(signing[r][s].quota, performed) <= 0
    THEN Refuse(r, s)
    ELSE Goes(r, s, signature)

Signature(r, s) ==
    [NotSent EXCEPT !.at = "signed", !.raced = \E other \in Requests \ {r} : uncounted(other, s)]

Sign(r, s) ==
    /\ signing[r][s].at = "quota"
    /\ CheckQuota(r, s, accounts[s].numLookups, Signature(r, s))
    /\ UNCHANGED <<standing, transactionCount, accounts, faults>>

\* The signature is one that will not verify.
SignBadly(r, s) ==
    /\ signing[r][s].at = "quota"
    /\ Fault
    /\ CheckQuota(r, s, accounts[s].numLookups, [Signature(r, s) EXCEPT !.valid = FALSE])
    /\ UNCHANGED <<standing, transactionCount, accounts>>

\* A database that cannot be read counts as one with no queries.
SignUnread(r, s) ==
    /\ signing[r][s].at = "quota"
    /\ Fault
    /\ CheckQuota(r, s, 0, [Signature(r, s) EXCEPT !.raced = TRUE])
    /\ UNCHANGED <<standing, transactionCount, accounts>>

\* A read of the chain or the signature throws.
SignerFails(r, s) ==
    /\ signing[r][s].at \in {"sent", "quota"}
    /\ Fault
    /\ Goes(r, s, [NotSent EXCEPT !.at = "failed"])
    /\ UNCHANGED <<standing, transactionCount, accounts>>

getAccountExists(r, s) ==
    /\ signing[r][s].at = "signed"
    /\ Goes(r, s, [signing[r][s] EXCEPT !.at = IF accounts[s].exists THEN "increment" ELSE "insert"])
    /\ UNCHANGED <<standing, transactionCount, accounts, faults>>

\* An insert fails when the row is there by now, and is not tried again as an increment.
canCount(r, s) == signing[r][s].at = "insert" => ~accounts[s].exists

CountQuery(r, s) ==
    /\ signing[r][s].at \in {"insert", "increment"}
    /\ canCount(r, s)
    /\ accounts' = [accounts EXCEPT ![s] = [exists |-> TRUE, numLookups |-> @.numLookups + 1]]
    /\ Goes(r, s, [signing[r][s] EXCEPT !.at = "ok", !.counted = TRUE])
    /\ UNCHANGED <<standing, transactionCount, faults>>

\* The errors of incrementQueryCount are logged, and the signature is sent.
CountIsLost(r, s) ==
    /\ \/ signing[r][s].at = "insert" /\ ~canCount(r, s) /\ UNCHANGED faults
       \/ uncounted(r, s) /\ Fault
    /\ Goes(r, s, [signing[r][s] EXCEPT !.at = "ok"])
    /\ UNCHANGED <<standing, transactionCount, accounts>>

SignerNext ==
    \E r \in Requests, s \in Signers :
        \/ ReadQuota(r, s) \/ Sign(r, s) \/ SignBadly(r, s) \/ SignUnread(r, s) \/ SignerFails(r, s)
        \/ getAccountExists(r, s) \/ CountQuery(r, s) \/ CountIsLost(r, s)

\* The requests that s has signed.
signed(s) == {r \in Requests : signing[r][s].at \in {"signed", "insert", "increment", "ok"}}

lost(s) == {r \in signed(s) : signing[r][s].at = "ok" /\ ~signing[r][s].counted}

raced(s) == {r \in signed(s) : signing[r][s].raced}

=============================================================================
