---------------------------- MODULE WalletProofs ----------------------------
(***************************************************************************)
(* Proofs about the wallet, for any finite sets of issuers and addresses.  *)
(* The verification: a code that has arrived is used, and what the wallet  *)
(* shows of a verification is on the chain.  Neither is inductive: while   *)
(* calls and transactions are under way, only who waits for which of them  *)
(* says what the flow may count once they return.  Secure Send: the        *)
(* address that is paid is a validated one.  ChosenAmongAllKnown is not    *)
(* inductive either: a lookup takes the addresses known out of the store,  *)
(* and it alone knows, until it ends, which the user has had to choose of. *)
(***************************************************************************)
EXTENDS AddressLookup, Verification, FiniteSetTheorems, TLAPS

(***************************************************************************)
(* Verification                                                            *)
(***************************************************************************)
\* Where doVerificationFlow may be.
Places == {"idle", "prepping", "gettingStatus", "fetching", "needed", "approve", "request",
           "toWait", "waiting", "select", "revealing", "receiving"}

Statuses == {"Stopped", "Prepping", "GettingStatus", "RequestingAttestations",
             "RevealingNumber", "RevealAttemptFailed", "Failed", "Done"}

\* What the call that reveals and completes one attestation may be doing.
Calls == {"none", "revealing", "sent", "refused", "waiting", "completing", "done", "cancelled"}

Wallets ==
    [status : Statuses, codes : Seq(Issuers \cup {Placeholder}), accepted : SUBSET Issuers,
     numComplete : Nat, verified : BOOLEAN,
     at : Places, remaining : Int, needed : Int, waitUntil : Int,
     reveal : [Issuers -> Calls], account : {"none", "check", "setAccount", "done"},
     receiving : [Issuers -> Nat]]

Chains ==
    [block : Nat \ {0}, allowance : Int,
     unselected : [blockNumber : Nat, attestationsRequested : Int],
     requested : Nat, completed : Nat,
     issued : [Issuers -> [status : {"None", "Incomplete", "Complete"}, blockNumber : Nat]],
     accountSet : BOOLEAN]

Transactions ==
    {SelectIssuers, SetAccount} \cup {Approve(n) : n \in Int} \cup {Request(n) : n \in Int}
        \cup {Complete(i) : i \in Issuers}

Pending == [tx : Transactions, by : Sagas \cup {"nobody"}]

VerificationTyped ==
    /\ chain \in Chains /\ wallet \in Wallets /\ mempool \in Seq(Pending)

-----------------------------------------------------------------------------

\* The store of a new wallet is one of a wallet.
LEMMA NewWalletTyped == NewWallet \in Wallets
<1>1. <<>> \in Seq(Issuers \cup {Placeholder})
  OBVIOUS
<1> QED BY <1>1 DEF NewWallet, Wallets, Statuses, Places, Calls

\* An attempt that has ended leaves the codes, the count and what is shown as they were.
LEMMA EndedFields ==
    ASSUME NEW w \in Wallets
    PROVE  /\ ended(w) \in Wallets
           /\ ended(w).codes = w.codes /\ ended(w).numComplete = w.numComplete
           /\ ended(w).verified = w.verified
           /\ ended(w).at = "idle" /\ ended(w).account = "none"
           /\ \A i \in Issuers : ended(w).reveal[i] = "none"
  BY NewWalletTyped DEF ended, NewWallet, Wallets, Places, Calls

\* A status is all that setting the status changes.
LEMMA StatusFields ==
    ASSUME NEW w \in Wallets, NEW s \in Statuses
    PROVE  LET v == setVerificationStatus(w, s)
           IN  /\ v \in Wallets
               /\ v.codes = w.codes /\ v.numComplete = w.numComplete /\ v.verified = w.verified
               /\ v.at = w.at /\ v.account = w.account /\ v.reveal = w.reveal
               /\ v.remaining = w.remaining /\ v.receiving = w.receiving
  BY DEF setVerificationStatus, Wallets

\* Resetting forgets the codes and the count, and leaves the attempt that runs alone.
LEMMA ResetFields ==
    ASSUME NEW w \in Wallets
    PROVE  LET v == resetVerification(w)
           IN  /\ v \in Wallets
               /\ v.codes = <<>> /\ v.numComplete = 0 /\ v.verified = w.verified
               /\ v.at = w.at /\ v.account = w.account /\ v.reveal = w.reveal
               /\ v.remaining = w.remaining /\ v.receiving = w.receiving
<1>1. <<>> \in Seq(Issuers \cup {Placeholder})
  OBVIOUS
<1> QED BY <1>1 DEF resetVerification, Wallets, Statuses

\* Counting complete attestations fills up the list of codes, with no new code.
LEMMA CompletedFields ==
    ASSUME NEW w \in Wallets, NEW n \in Nat
    PROVE  LET v == completeAttestationCode(w, n)
           IN  /\ v \in Wallets
               /\ v.numComplete = w.numComplete + n /\ v.verified = w.verified
               /\ v.at = w.at /\ v.account = w.account /\ v.reveal = w.reveal
               /\ v.remaining = w.remaining /\ v.receiving = w.receiving
               /\ \A i \in Issuers : Contains(v.codes, i) => Contains(w.codes, i)
<1> DEFINE S == Issuers \cup {Placeholder}
           M == IF Len(w.codes) > w.numComplete + n THEN Len(w.codes) ELSE w.numComplete + n
           c == [k \in 1..M |-> IF k <= Len(w.codes) THEN w.codes[k] ELSE Placeholder]
           v == completeAttestationCode(w, n)
<1>1. w.codes \in Seq(S) /\ Len(w.codes) \in Nat /\ w.numComplete \in Nat
  BY DEF Wallets
<1>2. M \in Nat /\ \A k \in 1..Len(w.codes) : w.codes[k] \in S
  BY <1>1
<1>3. c \in Seq(S) /\ Len(c) = M
  <2>1. \A k \in 1..M : (IF k <= Len(w.codes) THEN w.codes[k] ELSE Placeholder) \in S
    BY <1>1, <1>2
  <2>2. c \in [1..M -> S]
    BY <2>1
  <2> QED BY <1>2, <2>2
<1>4. v = [w EXCEPT !.numComplete = w.numComplete + n, !.codes = c]
  BY DEF completeAttestationCode, Wallets
<1> HIDE DEF c, v
<1>5. /\ v \in Wallets /\ v.codes = c
      /\ v.numComplete = w.numComplete + n /\ v.verified = w.verified
      /\ v.at = w.at /\ v.account = w.account /\ v.reveal = w.reveal
      /\ v.remaining = w.remaining /\ v.receiving = w.receiving
  <2>1. c \in Seq(S) /\ w.numComplete + n \in Nat
    BY <1>1, <1>3
  <2> QED BY <2>1, <1>4 DEF Wallets
<1>6. ASSUME NEW i \in Issuers, Contains(v.codes, i) PROVE Contains(w.codes, i)
  <2>1. PICK k \in 1..M : c[k] = i
    BY <1>3, <1>5, <1>6 DEF Contains
  <2>2. k <= Len(w.codes) /\ w.codes[k] = i
    BY <1>1, <1>2, <2>1, VerificationAssumption DEF c
  <2> QED BY <1>1, <1>2, <2>1, <2>2 DEF Contains
<1> QED BY <1>5, <1>6 DEF v

\* A code that is entered is the only new one.
LEMMA InputFields ==
    ASSUME NEW w \in Wallets, NEW i \in Issuers
    PROVE  LET v == inputAttestationCode(w, i)
           IN  /\ v \in Wallets
               /\ v.numComplete = w.numComplete /\ v.verified = w.verified
               /\ v.at = w.at /\ v.account = w.account /\ v.reveal = w.reveal
               /\ v.remaining = w.remaining /\ v.receiving = w.receiving
               /\ \A j \in Issuers \ {i} : Contains(v.codes, j) => Contains(w.codes, j)
<1> DEFINE S == Issuers \cup {Placeholder}
           v == inputAttestationCode(w, i)
<1>1. w.codes \in Seq(S) /\ i \in S
  BY DEF Wallets
<1>2. Append(w.codes, i) \in Seq(S)
  BY <1>1
<1>3. /\ v \in Wallets /\ v.codes = Append(w.codes, i)
      /\ v.numComplete = w.numComplete /\ v.verified = w.verified
      /\ v.at = w.at /\ v.account = w.account /\ v.reveal = w.reveal
      /\ v.remaining = w.remaining /\ v.receiving = w.receiving
  BY <1>1, <1>2 DEF inputAttestationCode, Wallets
<1>4. ASSUME NEW j \in Issuers \ {i}, Contains(v.codes, j) PROVE Contains(w.codes, j)
  BY <1>1, <1>3, <1>4 DEF Contains
<1> QED BY <1>3, <1>4

\* A flow that throws cancels its calls, or ends when there are none.
LEMMA FailedFields ==
    ASSUME NEW w \in Wallets
    PROVE  LET v == failed(w)
           IN  /\ v \in Wallets
               /\ v.codes = w.codes /\ v.numComplete = w.numComplete /\ v.verified = w.verified
               /\ v.at = IF w.at = "revealing" THEN "receiving" ELSE "idle"
               /\ v.account = "none"
               /\ \A i \in Issuers :
                     v.reveal[i] = IF w.at = "revealing" /\ w.reveal[i] # "none"
                                   THEN "cancelled" ELSE "none"
<1> DEFINE f == setVerificationStatus(w, "Failed")
<1>1. /\ f \in Wallets
      /\ f.codes = w.codes /\ f.numComplete = w.numComplete /\ f.verified = w.verified
      /\ f.at = w.at /\ f.reveal = w.reveal
  BY StatusFields DEF Statuses
<1> HIDE DEF f
<1>2. CASE w.at = "revealing"
  <2> DEFINE v == [f EXCEPT !.at = "receiving", !.account = "none",
                     !.reveal = [i \in Issuers |-> IF f.reveal[i] = "none" THEN "none" ELSE "cancelled"]]
  <2>1. failed(w) = v
    BY <1>1, <1>2 DEF failed, f, Wallets
  <2>2. /\ v \in Wallets /\ v.codes = f.codes /\ v.numComplete = f.numComplete
        /\ v.verified = f.verified /\ v.at = "receiving" /\ v.account = "none"
        /\ \A i \in Issuers : v.reveal[i] = IF f.reveal[i] = "none" THEN "none" ELSE "cancelled"
    BY <1>1 DEF Wallets, Places, Calls
  <2> QED BY <1>1, <1>2, <2>1, <2>2
<1>3. CASE w.at # "revealing"
  <2>1. failed(w) = ended(f)
    BY <1>3 DEF failed, f
  <2> QED BY <1>1, <1>3, <2>1, EndedFields
<1> QED BY <1>2, <1>3

\* The end of doVerificationFlow: nothing has changed, or all calls have returned.
LEMMA SettledFields ==
    ASSUME NEW w \in Wallets
    PROVE  /\ settled(w) \in Wallets
           /\ settled(w).codes = w.codes /\ settled(w).numComplete = w.numComplete
           /\ \/ settled(w) = w
              \/ /\ w.at = "revealing" /\ w.account = "done"
                 /\ \A i \in allIssuers(w) : w.reveal[i] = "done"
                 /\ settled(w).at = "idle" /\ settled(w).account = "none"
                 /\ \A i \in Issuers : settled(w).reveal[i] = "none"
                 /\ settled(w).verified
<1> DEFINE s == setVerificationStatus(w, "Done")
           d == [s EXCEPT !.verified = TRUE]
<1>1. s \in Wallets /\ s.codes = w.codes /\ s.numComplete = w.numComplete
  BY StatusFields DEF Statuses
<1> HIDE DEF s
<1>2. d \in Wallets /\ d.codes = w.codes /\ d.numComplete = w.numComplete /\ d.verified
  BY <1>1 DEF Wallets
<1>3. settled(w) = w \/ /\ settled(w) = ended(d)
                        /\ w.at = "revealing" /\ w.account = "done"
                        /\ \A i \in allIssuers(w) : w.reveal[i] = "done"
  BY DEF settled, s
<1> HIDE DEF d
<1>4. /\ ended(d) \in Wallets /\ ended(d).codes = d.codes
      /\ ended(d).numComplete = d.numComplete /\ ended(d).verified = d.verified
      /\ ended(d).at = "idle" /\ ended(d).account = "none"
      /\ \A i \in Issuers : ended(d).reveal[i] = "none"
  BY <1>2, EndedFields
<1> QED BY <1>2, <1>3, <1>4

-----------------------------------------------------------------------------
(***************************************************************************)
(* What a transaction does to the chain                                    *)
(***************************************************************************)
CompleteIssuers(c) == {i \in Issuers : c.issued[i].status = "Complete"}

\* The contract counts what is complete, and nothing is drawn without a request.
Counted(c) ==
    /\ c.completed = Cardinality(CompleteIssuers(c))
    /\ c.unselected.blockNumber > 0 \/ (\E i \in Issuers : c.issued[i].status # "None")
           => c.requested >= 1

\* A transaction takes no attestation back.
Advances(c, d) ==
    /\ c.completed <= d.completed
    /\ CompleteIssuers(c) \subseteq CompleteIssuers(d)
    /\ \A i \in Issuers : c.issued[i].status # "None" => d.issued[i].status # "None"

\* Sets of issuers are finite, so that their sizes are numbers.
LEMMA SizeOfIssuers ==
    ASSUME NEW S \in SUBSET Issuers
    PROVE  IsFiniteSet(S) /\ Cardinality(S) \in Nat
  BY FS_Subset, FS_CardinalityType, VerificationAssumption

\* A set of issuers that lies within another is no larger.
LEMMA SizeGrows ==
    ASSUME NEW S \in SUBSET Issuers, NEW T \in SUBSET S
    PROVE  Cardinality(T) <= Cardinality(S)
  BY SizeOfIssuers, FS_Subset

\* Which transactions there are.
LEMMA TransactionFields ==
    ASSUME NEW tx \in Transactions
    PROVE  \/ tx.fn = "approve" /\ tx.n \in Int
           \/ tx.fn = "request" /\ tx.n \in Int
           \/ tx.fn = "selectIssuers"
           \/ tx.fn = "complete" /\ tx.issuer \in Issuers /\ tx = Complete(tx.issuer)
           \/ tx.fn = "setAccount"
<1>1. CASE tx = SelectIssuers
  BY <1>1 DEF SelectIssuers
<1>2. CASE tx = SetAccount
  BY <1>2 DEF SetAccount
<1>3. CASE \E n \in Int : tx = Approve(n)
  BY <1>3 DEF Approve
<1>4. CASE \E n \in Int : tx = Request(n)
  BY <1>4 DEF Request
<1>5. CASE \E i \in Issuers : tx = Complete(i)
  BY <1>5 DEF Complete
<1> QED BY <1>1, <1>2, <1>3, <1>4, <1>5 DEF Transactions

\* A transaction that succeeds keeps the contract sound and takes nothing back; one that
\* completes an attestation has it complete.
LEMMA OutcomeSound ==
    ASSUME NEW c \in Chains, Counted(c), NEW tx \in Transactions, succeeds(c, tx),
           NEW d \in outcomes(c, tx)
    PROVE  /\ d \in Chains /\ Counted(d) /\ Advances(c, d)
           /\ \A i \in Issuers : tx = Complete(i) => i \in CompleteIssuers(d)
<1>1. CASE tx.fn = "approve"
  <2>1. d = [c EXCEPT !.allowance = tx.n] /\ tx.n \in Int
    BY <1>1, TransactionFields DEF outcomes
  <2>2. d \in Chains /\ d.issued = c.issued /\ d.completed = c.completed
        /\ d.requested = c.requested /\ d.unselected = c.unselected
    BY <2>1 DEF Chains
  <2>3. \A i \in Issuers : tx # Complete(i)
    BY <1>1 DEF Complete
  <2> QED BY <2>2, <2>3 DEF Counted, Advances, CompleteIssuers, Chains
<1>2. CASE tx.fn = "request"
  <2>1. d = request(c, tx.n) /\ tx.n \in 1..MaxAttestations
    BY <1>2, TransactionFields DEF outcomes, succeeds, canRequest
  <2>2. d \in Chains /\ d.issued = c.issued /\ d.completed = c.completed /\ d.requested >= 1
    <3>1. tx.n \in Int /\ tx.n >= 1
      BY <2>1, AttestationsAssumption
    <3> DEFINE n == tx.n
    <3>2. n \in Int /\ n >= 1 /\ d = request(c, n)
      BY <2>1, <3>1
    <3> HIDE DEF n
    <3>3. c.requested + n \in Nat /\ c.requested + n >= 1 /\ c.allowance - n \in Int
      BY <3>2 DEF Chains
    <3> QED BY <3>2, <3>3 DEF Chains, request
  <2>3. \A i \in Issuers : tx # Complete(i)
    BY <1>2 DEF Complete
  <2> QED BY <2>2, <2>3 DEF Counted, Advances, CompleteIssuers, Chains
<1>3. CASE tx.fn = "selectIssuers"
  <2>1. PICK drawn \in SUBSET {i \in Issuers : c.issued[i].status = "None"} : d = selected(c, drawn)
    BY <1>3 DEF outcomes
  <2>2. d \in Chains /\ d.completed = c.completed /\ d.requested = c.requested
        /\ d.unselected.blockNumber = 0
        /\ \A i \in Issuers : d.issued[i].status = IF i \in drawn THEN "Incomplete"
                                                              ELSE c.issued[i].status
    <3> DEFINE f == [i \in Issuers |-> IF i \in drawn
                                      THEN [status |-> "Incomplete",
                                            blockNumber |-> c.unselected.blockNumber]
                                      ELSE c.issued[i]]
    <3>1. d = [c EXCEPT !.issued = f, !.unselected = NoRequest]
      BY <2>1 DEF selected, Chains
    <3>2. /\ f \in [Issuers -> [status : {"None", "Incomplete", "Complete"}, blockNumber : Nat]]
          /\ \A i \in Issuers : f[i].status = IF i \in drawn THEN "Incomplete"
                                                           ELSE c.issued[i].status
      BY DEF Chains
    <3> HIDE DEF f
    <3>3. NoRequest \in [blockNumber : Nat, attestationsRequested : Int] /\ NoRequest.blockNumber = 0
      BY DEF NoRequest
    <3>4. /\ d \in Chains /\ d.issued = f /\ d.unselected = NoRequest
          /\ d.completed = c.completed /\ d.requested = c.requested
      BY <3>1, <3>2, <3>3 DEF Chains
    <3> QED BY <3>2, <3>3, <3>4
  <2>3. CompleteIssuers(d) = CompleteIssuers(c)
    BY <2>1, <2>2 DEF CompleteIssuers
  <2>4. d.requested >= 1
    BY <1>3, <2>2 DEF succeeds, canSelectIssuers, Counted
  <2>5. \A i \in Issuers : tx # Complete(i)
    BY <1>3 DEF Complete
  <2> QED BY <2>2, <2>3, <2>4, <2>5 DEF Counted, Advances, Chains
<1>4. CASE tx.fn = "complete"
  <2> DEFINE i == tx.issuer
  <2>1. d = complete(c, i) /\ i \in Issuers /\ tx = Complete(i)
    BY <1>4, TransactionFields DEF outcomes
  <2>2. c.issued[i].status = "Incomplete"
    BY <1>4 DEF succeeds, validateAttestationCode, isAttestationCompletable
  <2>3. d \in Chains /\ d.completed = c.completed + 1 /\ d.requested = c.requested
        /\ d.unselected = c.unselected
        /\ \A j \in Issuers : d.issued[j].status = IF j = i THEN "Complete" ELSE c.issued[j].status
    <3> DEFINE f == [c.issued EXCEPT ![i] = [status |-> "Complete", blockNumber |-> 0]]
    <3>1. d = [c EXCEPT !.issued = f, !.completed = c.completed + 1]
      BY <2>1 DEF complete, Chains
    <3>2. /\ f \in [Issuers -> [status : {"None", "Incomplete", "Complete"}, blockNumber : Nat]]
          /\ \A j \in Issuers : f[j].status = IF j = i THEN "Complete" ELSE c.issued[j].status
      BY <2>1 DEF Chains
    <3> HIDE DEF f
    <3>3. c.completed + 1 \in Nat
      BY DEF Chains
    <3>4. /\ d \in Chains /\ d.issued = f /\ d.unselected = c.unselected
          /\ d.completed = c.completed + 1 /\ d.requested = c.requested
      BY <3>1, <3>2, <3>3 DEF Chains
    <3> QED BY <3>2, <3>4
  <2>4. CompleteIssuers(d) = CompleteIssuers(c) \cup {i} /\ i \notin CompleteIssuers(c)
    BY <2>1, <2>2, <2>3 DEF CompleteIssuers
  <2>5. Cardinality(CompleteIssuers(d)) = Cardinality(CompleteIssuers(c)) + 1
    BY <2>4, SizeOfIssuers, FS_AddElement DEF CompleteIssuers
  <2>6. c.requested >= 1
    BY <2>1, <2>2 DEF Counted
  <2>7. \A j \in Issuers : tx = Complete(j) => j = i
    BY DEF Complete
  <2> QED BY <2>3, <2>4, <2>5, <2>6, <2>7 DEF Counted, Advances, Chains
<1>5. CASE tx.fn = "setAccount"
  <2>1. d = [c EXCEPT !.accountSet = TRUE]
    BY <1>5 DEF outcomes
  <2>2. d \in Chains /\ d.issued = c.issued /\ d.completed = c.completed
        /\ d.requested = c.requested /\ d.unselected = c.unselected
    BY <2>1 DEF Chains
  <2>3. \A i \in Issuers : tx # Complete(i)
    BY <1>5 DEF Complete
  <2> QED BY <2>2, <2>3 DEF Counted, Advances, CompleteIssuers, Chains
<1> QED BY <1>1, <1>2, <1>3, <1>4, <1>5, TransactionFields

-----------------------------------------------------------------------------
(***************************************************************************)
(* The flow and what it waits for                                          *)
(***************************************************************************)
Forked == {"revealing", "receiving"}

\* Calls are under way only while the flow reveals, and cancelled ones only after it failed.
InFlow(w) ==
    /\ w.at \notin Forked => w.account = "none" /\ \A i \in Issuers : w.reveal[i] = "none"
    /\ w.at = "receiving" => /\ w.account = "none"
                             /\ \A i \in Issuers : w.reveal[i] \in {"none", "cancelled"}
    /\ w.at = "revealing" => \A i \in Issuers : w.reveal[i] # "cancelled"

\* The saga is where it sends a transaction, or waits for one.
Sends(w, by) ==
    \/ by = "main" /\ w.at \in {"approve", "request", "select"}
    \/ by = "account" /\ w.account = "setAccount"
    \/ by \in Issuers /\ w.reveal[by] = "completing"

\* Whoever waits for a transaction has not gone on, and has no other one under way.
Awaited(w, m) ==
    /\ \A k \in DOMAIN m : m[k].by # "nobody" =>
          Sends(w, m[k].by) /\ (m[k].by \in Issuers => m[k].tx = Complete(m[k].by))
    /\ \A k, l \in DOMAIN m : m[k].by = m[l].by /\ m[k].by # "nobody" => k = l

\* Only attestations that were drawn are revealed.
Drawn(c, w) == \A i \in Issuers : w.reveal[i] # "none" => c.issued[i].status # "None"

NewCodes(w) == \A i \in Issuers : w.reveal[i] = "waiting" => ~Contains(w.codes, i)

Sound(c, w, m) ==
    /\ c \in Chains /\ w \in Wallets /\ m \in Seq(Pending)
    /\ Counted(c) /\ InFlow(w) /\ Awaited(w, m) /\ Drawn(c, w) /\ NewCodes(w)

\* Complete attestations whose call is not under way: those that may have been counted.
Counts(c, w) ==
    {i \in CompleteIssuers(c) : w.reveal[i] \in {"none", "done", "cancelled"}}

\* What the wallet has counted, and what it relies on to be enough, is on the chain.
OnChain(c, w) ==
    /\ w.numComplete <= Cardinality(Counts(c, w))
    /\ w.at \in {"prepping", "gettingStatus"} => w.numComplete = 0
    /\ \A i \in Issuers : w.reveal[i] = "done" => i \in CompleteIssuers(c)
    /\ w.at \in {"fetching", "needed", "approve", "request", "toWait", "waiting", "select"}
           => c.completed + w.remaining >= NumRequired
    /\ w.at = "revealing" => Cardinality(CompleteIssuers(c) \cup allIssuers(w)) >= NumRequired
    /\ w.verified => c.completed >= NumRequired

-----------------------------------------------------------------------------

\* Transactions that nobody waits for, and fewer of them, are awaited as they should be.
LEMMA UnawaitedIs ==
    ASSUME NEW m \in Seq(Pending), NEW w
    PROVE  unawaited(m) \in Seq(Pending) /\ Awaited(w, unawaited(m))
<1> DEFINE u == unawaited(m)
<1>1. u = [k \in 1..Len(m) |-> [m[k] EXCEPT !.by = "nobody"]]
  BY DEF unawaited
<1>2. \A k \in 1..Len(m) : [m[k] EXCEPT !.by = "nobody"] \in Pending
  <2>1. \A k \in 1..Len(m) : m[k] \in Pending
    OBVIOUS
  <2>2. ASSUME NEW e \in Pending PROVE [e EXCEPT !.by = "nobody"] \in Pending
    BY DEF Pending
  <2> QED BY <2>1, <2>2
<1>3. u \in Seq(Pending)
  <2>1. u \in [1..Len(m) -> Pending]
    BY <1>1, <1>2
  <2> QED BY <2>1
<1>4. \A k \in DOMAIN u : u[k].by = "nobody"
  BY <1>1, <1>2 DEF Pending
<1> HIDE DEF u
<1>5. Awaited(w, u)
  BY <1>4 DEF Awaited
<1> QED BY <1>3, <1>5 DEF u

\* What is left of the attempt when it is given up, for whichever reason.
LEMMA QuitSound ==
    ASSUME NEW c, NEW w, NEW m, NEW v \in Wallets, NEW rest \in Seq(Pending),
           Sound(c, w, m), InFlow(v), v.at \in {"idle", "prepping", "receiving"},
           \A i \in Issuers : v.reveal[i] # "none" => w.reveal[i] # "none"
    PROVE  /\ Sound(c, v, unawaited(rest))
           /\ OnChain(c, w) /\ v.numComplete <= w.numComplete /\ (v.verified => w.verified)
                 /\ (v.at = "prepping" => v.numComplete = 0)
              => OnChain(c, v)
<1>1. \A i \in Issuers : v.reveal[i] \in {"none", "cancelled"}
  BY DEF InFlow, Forked
<1>2. Sound(c, v, unawaited(rest))
  BY <1>1, UnawaitedIs DEF Sound, Drawn, NewCodes
<1>3. ASSUME OnChain(c, w), v.numComplete <= w.numComplete, v.verified => w.verified,
             v.at = "prepping" => v.numComplete = 0
      PROVE  OnChain(c, v)
  <2>1. Counts(c, w) \subseteq Counts(c, v) /\ Counts(c, v) \subseteq Issuers
    BY <1>1 DEF Counts, CompleteIssuers
  <2>2. /\ Cardinality(Counts(c, w)) <= Cardinality(Counts(c, v))
        /\ Cardinality(Counts(c, w)) \in Nat /\ Cardinality(Counts(c, v)) \in Nat
    BY <2>1, SizeGrows, SizeOfIssuers
  <2>3. v.numComplete <= Cardinality(Counts(c, v))
    BY <1>3, <2>2 DEF OnChain, Sound, Wallets
  <2> QED BY <1>1, <1>3, <2>3 DEF OnChain
<1> QED BY <1>2, <1>3

\* The chain goes on, and the wallet waits.
LEMMA AdvanceSound ==
    ASSUME NEW c, NEW w, NEW m, NEW d \in Chains, NEW rest \in Seq(Pending),
           Sound(c, w, m), Counted(d), Advances(c, d), Awaited(w, rest)
    PROVE  Sound(d, w, rest) /\ (OnChain(c, w) => OnChain(d, w))
<1>1. Sound(d, w, rest)
  BY DEF Sound, Advances, Drawn
<1>2. ASSUME OnChain(c, w) PROVE OnChain(d, w)
  <2>1. /\ Counts(c, w) \subseteq Counts(d, w) /\ Counts(d, w) \subseteq Issuers
        /\ CompleteIssuers(c) \cup allIssuers(w) \subseteq CompleteIssuers(d) \cup allIssuers(w)
        /\ CompleteIssuers(d) \cup allIssuers(w) \subseteq Issuers
    BY DEF Advances, Counts, CompleteIssuers, allIssuers
  <2> HIDE DEF Advances, Counts, CompleteIssuers, allIssuers
  <2>2. /\ Cardinality(Counts(c, w)) <= Cardinality(Counts(d, w))
        /\ Cardinality(Counts(c, w)) \in Nat /\ Cardinality(Counts(d, w)) \in Nat
    BY <2>1, SizeGrows, SizeOfIssuers
  <2>3. /\ Cardinality(CompleteIssuers(c) \cup allIssuers(w))
              <= Cardinality(CompleteIssuers(d) \cup allIssuers(w))
        /\ Cardinality(CompleteIssuers(c) \cup allIssuers(w)) \in Nat
        /\ Cardinality(CompleteIssuers(d) \cup allIssuers(w)) \in Nat
    BY <2>1, SizeGrows, SizeOfIssuers
  <2>4. c.completed \in Nat /\ d.completed \in Nat /\ w.remaining \in Int /\ w.numComplete \in Nat
    BY DEF Sound, Chains, Wallets
  <2>5. c.completed <= d.completed /\ CompleteIssuers(c) \subseteq CompleteIssuers(d)
    BY DEF Advances
  <2>6. NumRequired \in Nat
    BY AttestationsAssumption
  <2>7. w.numComplete <= Cardinality(Counts(d, w))
    BY <1>2, <2>2, <2>4 DEF OnChain
  <2>8. /\ w.at \in {"prepping", "gettingStatus"} => w.numComplete = 0
        /\ w.at = "revealing" => Cardinality(CompleteIssuers(d) \cup allIssuers(w)) >= NumRequired
        /\ w.verified => d.completed >= NumRequired
    BY <1>2, <2>3, <2>4, <2>5, <2>6 DEF OnChain
  <2> QED BY <1>2, <2>4, <2>5, <2>6, <2>7, <2>8 DEF OnChain
<1> QED BY <1>1, <1>2

\* When all calls have returned, all that was to be revealed is complete, and the flow may end.
LEMMA SettledSound ==
    ASSUME NEW c, NEW x, NEW m, Sound(c, x, m)
    PROVE  /\ Sound(c, settled(x), m)
           /\ OnChain(c, x) => OnChain(c, settled(x))
<1> DEFINE v == settled(x)
<1> USE DEF Sound
<1>1. CASE v = x
  BY <1>1
<1>2. CASE v # x
  <2>1. /\ v \in Wallets /\ v.codes = x.codes /\ v.numComplete = x.numComplete
        /\ x.at = "revealing" /\ x.account = "done"
        /\ \A i \in allIssuers(x) : x.reveal[i] = "done"
        /\ v.at = "idle" /\ v.account = "none" /\ v.verified
        /\ \A i \in Issuers : v.reveal[i] = "none"
    BY <1>2, SettledFields
  <2> HIDE DEF v
  <2>2. \A k \in DOMAIN m : m[k].by = "nobody"
    <3>1. \A b \in Sagas : ~Sends(x, b)
      BY <2>1, VerificationAssumption DEF Sends, Sagas, allIssuers
    <3>2. \A k \in DOMAIN m : m[k] \in Pending
      OBVIOUS
    <3> QED BY <3>1, <3>2 DEF Awaited, Pending
  <2>3. Sound(c, v, m)
    <3>1. Awaited(v, m)
      BY <2>2 DEF Awaited
    <3> QED BY <2>1, <3>1 DEF InFlow, Forked, Drawn, NewCodes
  <2>4. ASSUME OnChain(c, x) PROVE OnChain(c, v)
    <3>1. allIssuers(x) \subseteq CompleteIssuers(c)
      BY <2>1, <2>4 DEF OnChain, allIssuers
    <3>2. CompleteIssuers(c) \cup allIssuers(x) = CompleteIssuers(c)
      BY <3>1
    <3>3. c.completed >= NumRequired
      BY <2>1, <2>4, <3>2 DEF OnChain, Counted
    <3>4. Counts(c, v) = Counts(c, x)
      BY <2>1 DEF Counts, CompleteIssuers, allIssuers
    <3> QED BY <2>1, <2>4, <3>3, <3>4 DEF OnChain
  <2> QED BY <2>3, <2>4 DEF v
<1> QED BY <1>1, <1>2

\* A saga goes on after its transaction; if it completed an attestation, this is complete.
LEMMA ConfirmedSound ==
    ASSUME NEW c, NEW w, NEW m, NEW by \in Sagas, NEW rest \in Seq(Pending),
           Sound(c, w, m), Sends(w, by), Awaited(w, rest), \A k \in DOMAIN rest : rest[k].by # by
    PROVE  LET v == confirmed(w, by)
           IN  /\ Sound(c, v, rest)
               /\ OnChain(c, w) /\ (by \in Issuers => by \in CompleteIssuers(c)) => OnChain(c, v)
<1> DEFINE v == confirmed(w, by)
<1> USE DEF Sound
<1>0. /\ Issuers \cap {"main", "account", "nobody"} = {}
      /\ by \in Issuers \/ by = "main" \/ by = "account"
  BY VerificationAssumption DEF Sagas
<1>00. w.at \notin Forked => by = "main" /\ by \notin Issuers
  BY <1>0 DEF InFlow, Sends
<1>01. \A k \in DOMAIN rest : rest[k].by \in Sagas \cup {"nobody"}
  <2>1. \A k \in DOMAIN rest : rest[k] \in Pending
    OBVIOUS
  <2> QED BY <2>1 DEF Pending
\* A step of the flow, before it forks.
<1>1. ASSUME w.at \notin Forked,
             NEW x \in Wallets, x.at \in {"request", "toWait", "fetching"}, v = settled(x),
             x.codes = w.codes, x.reveal = w.reveal, x.account = w.account,
             x.numComplete = w.numComplete, x.verified = w.verified, x.remaining = w.remaining
      PROVE  /\ Sound(c, v, rest)
             /\ OnChain(c, w) /\ w.at \in {"approve", "request", "select"} => OnChain(c, v)
  <2>1. v = x
    BY <1>1, SettledFields
  <2>2. by = "main"
    BY <1>0, <1>1 DEF InFlow, Sends
  <2>3. \A k \in DOMAIN rest : rest[k].by = "nobody"
    BY <1>1, <2>2 DEF Awaited, InFlow, Sends
  <2>4. Awaited(v, rest)
    BY <2>3 DEF Awaited
  <2>5. InFlow(v) /\ Drawn(c, v) /\ NewCodes(v)
    BY <1>1, <2>1 DEF InFlow, Forked, Drawn, NewCodes
  <2>6. ASSUME OnChain(c, w), w.at \in {"approve", "request", "select"} PROVE OnChain(c, v)
    <3>1. Counts(c, v) = Counts(c, w)
      BY <1>1, <2>1 DEF Counts
    <3> QED BY <1>1, <2>1, <2>6, <3>1 DEF OnChain
  <2> QED BY <1>1, <2>1, <2>4, <2>5, <2>6
<1>2. CASE w.at = "approve"
  <2> DEFINE x == [w EXCEPT !.at = "request"]
  <2>1. v = settled(x)
    BY <1>00, <1>2 DEF confirmed, Forked
  <2>2. /\ x \in Wallets /\ x.at = "request" /\ x.codes = w.codes /\ x.reveal = w.reveal
        /\ x.account = w.account /\ x.numComplete = w.numComplete
        /\ x.verified = w.verified /\ x.remaining = w.remaining
    BY DEF Wallets, Places
  <2> HIDE DEF x, v
  <2> QED BY <1>1, <1>2, <2>1, <2>2 DEF Forked, v
<1>3. CASE w.at = "request"
  <2> DEFINE y == [w EXCEPT !.at = "toWait"]
             x == [y EXCEPT !.needed = 0]
  <2>1. v = settled(x)
    BY <1>00, <1>3 DEF confirmed, Forked
  <2>2. /\ y \in Wallets /\ y.at = "toWait" /\ y.codes = w.codes /\ y.reveal = w.reveal
        /\ y.account = w.account /\ y.numComplete = w.numComplete
        /\ y.verified = w.verified /\ y.remaining = w.remaining
    BY DEF Wallets, Places
  <2> HIDE DEF y
  <2>3. /\ x \in Wallets /\ x.at = "toWait" /\ x.codes = w.codes /\ x.reveal = w.reveal
        /\ x.account = w.account /\ x.numComplete = w.numComplete
        /\ x.verified = w.verified /\ x.remaining = w.remaining
    <3>1. PICK n \in Int : n = 0
      OBVIOUS
    <3>2. x = [y EXCEPT !.needed = n]
      BY <3>1
    <3> HIDE DEF x
    <3> QED BY <2>2, <3>2 DEF Wallets
  <2> HIDE DEF x, v
  <2> QED BY <1>1, <1>3, <2>1, <2>3 DEF Forked, v
<1>4. CASE w.at = "select"
  <2> DEFINE x == [w EXCEPT !.at = "fetching"]
  <2>1. v = settled(x)
    BY <1>00, <1>4 DEF confirmed, Forked
  <2>2. /\ x \in Wallets /\ x.at = "fetching" /\ x.codes = w.codes /\ x.reveal = w.reveal
        /\ x.account = w.account /\ x.numComplete = w.numComplete
        /\ x.verified = w.verified /\ x.remaining = w.remaining
    BY DEF Wallets, Places
  <2> HIDE DEF x, v
  <2> QED BY <1>1, <1>4, <2>1, <2>2 DEF Forked, v
<1>5. CASE w.at \notin {"approve", "request", "select"}
  <2>1. w.at = "revealing" /\ (by = "account" \/ by \in Issuers)
    BY <1>0, <1>5 DEF Sends, InFlow, Forked
  \* A call has returned, and with it, maybe, the flow.
  <2>2. ASSUME NEW x \in Wallets, v = settled(x), x.at = "revealing", x.verified = w.verified,
               \A i \in Issuers : Contains(x.codes, i) => Contains(w.codes, i),
               \A i \in Issuers : x.reveal[i] = IF i = by THEN "done" ELSE w.reveal[i],
               x.account = IF by = "account" THEN "done" ELSE w.account,
               x.numComplete = IF by = "account" THEN w.numComplete ELSE w.numComplete + 1
        PROVE  /\ Sound(c, v, rest)
               /\ OnChain(c, w) /\ (by \in Issuers => by \in CompleteIssuers(c)) => OnChain(c, v)
    <3>1. \A b \in Sagas \ {by} : Sends(w, b) => Sends(x, b)
      BY <1>0, <2>1, <2>2 DEF Sends, Sagas
    <3>2. Awaited(x, rest)
      BY <1>01, <3>1 DEF Awaited
    <3>3. InFlow(x)
      BY <1>0, <2>1, <2>2 DEF InFlow, Forked
    <3>4. Drawn(c, x) /\ NewCodes(x)
      BY <1>0, <2>1, <2>2 DEF Drawn, NewCodes, Sends
    <3>5. Sound(c, x, rest)
      BY <2>2, <3>2, <3>3, <3>4
    <3>6. ASSUME OnChain(c, w), by \in Issuers => by \in CompleteIssuers(c)
          PROVE  OnChain(c, x)
      <4>1. allIssuers(x) = allIssuers(w)
        BY <1>0, <2>1, <2>2 DEF allIssuers, Sends
      <4>2. x.numComplete <= Cardinality(Counts(c, x))
        <5>1. CASE by = "account"
          <6>1. Counts(c, x) = Counts(c, w)
            BY <1>0, <2>2, <5>1 DEF Counts, CompleteIssuers
          <6> QED BY <2>2, <3>6, <5>1, <6>1 DEF OnChain
        <5>2. CASE by \in Issuers
          <6>1. Counts(c, x) = Counts(c, w) \cup {by} /\ by \notin Counts(c, w)
            BY <1>0, <2>1, <2>2, <3>6, <5>2 DEF Counts, CompleteIssuers, Sends
          <6>2. Counts(c, w) \subseteq Issuers
            BY DEF Counts, CompleteIssuers
          <6>3. /\ Cardinality(Counts(c, x)) = Cardinality(Counts(c, w)) + 1
                /\ Cardinality(Counts(c, w)) \in Nat
            BY <6>1, <6>2, SizeOfIssuers, FS_AddElement
          <6>4. x.numComplete = w.numComplete + 1 /\ w.numComplete \in Nat
            BY <1>0, <2>2, <5>2 DEF Wallets
          <6> QED BY <3>6, <6>3, <6>4 DEF OnChain
        <5> QED BY <2>1, <5>1, <5>2
      <4>3. \A i \in Issuers : x.reveal[i] = "done" => i \in CompleteIssuers(c)
        BY <2>2, <3>6 DEF OnChain
      <4> QED BY <2>1, <2>2, <3>6, <4>1, <4>2, <4>3 DEF OnChain
    <3> QED BY <2>2, <3>5, <3>6, SettledSound
  <2>3. CASE by = "account"
    <3> DEFINE x == [w EXCEPT !.account = "done"]
    <3>1. v = settled(x)
      BY <1>0, <1>5, <2>3 DEF confirmed
    <3>2. /\ x \in Wallets /\ x.at = w.at /\ x.codes = w.codes /\ x.reveal = w.reveal
          /\ x.account = "done" /\ x.numComplete = w.numComplete /\ x.verified = w.verified
      BY DEF Wallets
    <3> HIDE DEF x, v
    <3> QED BY <1>0, <2>1, <2>2, <2>3, <3>1, <3>2 DEF v
  <2>4. CASE by \in Issuers
    <3> DEFINE y == completeAttestationCode(w, 1)
               x == [y EXCEPT !.reveal[by] = "done"]
    <3>1. v = settled(x)
      BY <1>0, <1>5, <2>4 DEF confirmed
    <3>2. /\ y \in Wallets /\ y.at = w.at /\ y.reveal = w.reveal /\ y.account = w.account
          /\ y.numComplete = w.numComplete + 1 /\ y.verified = w.verified
          /\ \A i \in Issuers : Contains(y.codes, i) => Contains(w.codes, i)
      BY CompletedFields
    <3> HIDE DEF y
    <3>3. /\ x \in Wallets /\ x.at = y.at /\ x.codes = y.codes /\ x.account = y.account
          /\ x.numComplete = y.numComplete /\ x.verified = y.verified
          /\ \A i \in Issuers : x.reveal[i] = IF i = by THEN "done" ELSE y.reveal[i]
      BY <2>4, <3>2 DEF Wallets, Calls
    <3> HIDE DEF x, v
    <3> QED BY <1>0, <2>1, <2>2, <2>4, <3>1, <3>2, <3>3 DEF v
  <2> QED BY <2>1, <2>3, <2>4
<1> QED BY <1>2, <1>3, <1>4, <1>5

\* A step of the flow while nothing is under way.
LEMMA WalkSound ==
    ASSUME NEW c, NEW w, NEW m, NEW v \in Wallets, Sound(c, w, m),
           w.at \notin Forked \cup {"approve", "request", "select"}, v.at \notin Forked,
           v.account = "none", \A i \in Issuers : v.reveal[i] = "none"
    PROVE  /\ Sound(c, v, m)
           /\ /\ OnChain(c, w) /\ v.numComplete <= c.completed
              /\ v.at \in {"prepping", "gettingStatus"} => v.numComplete = 0
              /\ v.at \in Places \ {"idle", "prepping", "gettingStatus"}
                    => c.completed + v.remaining >= NumRequired
              /\ v.verified => c.completed >= NumRequired
              => OnChain(c, v)
<1>1. Sound(c, v, m)
  <2>1. \A b \in Sagas : ~Sends(w, b)
    BY VerificationAssumption DEF Sends, Sagas, Sound, InFlow
  <2>2. \A k \in DOMAIN m : m[k] \in Pending
    BY DEF Sound
  <2>3. \A k \in DOMAIN m : m[k].by = "nobody"
    BY <2>1, <2>2 DEF Sound, Awaited, Pending
  <2>4. Awaited(v, m)
    BY <2>3 DEF Awaited
  <2> QED BY <2>4 DEF Sound, InFlow, Forked, Drawn, NewCodes
<1>2. Counts(c, v) = CompleteIssuers(c)
  BY DEF Counts, CompleteIssuers
<1>3. c.completed = Cardinality(CompleteIssuers(c))
  BY DEF Sound, Counted
<1> QED BY <1>1, <1>2, <1>3 DEF OnChain, Places, Forked

\* What is on the chain bounds what the flow has counted.
LEMMA CountedIsComplete ==
    ASSUME NEW c, NEW w, NEW m, Sound(c, w, m), OnChain(c, w)
    PROVE  w.numComplete <= c.completed
<1>1. Counts(c, w) \subseteq CompleteIssuers(c) /\ CompleteIssuers(c) \subseteq Issuers
  BY DEF Counts, CompleteIssuers
<1>2. /\ Cardinality(Counts(c, w)) <= Cardinality(CompleteIssuers(c))
      /\ Cardinality(Counts(c, w)) \in Nat /\ Cardinality(CompleteIssuers(c)) \in Nat
  BY <1>1, SizeGrows, SizeOfIssuers
<1> QED BY <1>2 DEF Sound, Counted, OnChain, Wallets

\* An issuer has answered, a code has come, or the store has changed: the calls go on.
LEMMA CallSound ==
    ASSUME NEW c, NEW w, NEW m, NEW v \in Wallets, Sound(c, w, m),
           v.at = w.at, v.account = w.account, v.remaining = w.remaining, NewCodes(v),
           \A i \in Issuers : \/ v.reveal[i] = w.reveal[i]
                              \/ /\ w.reveal[i] \in {"revealing", "sent", "refused", "waiting"}
                                 /\ v.reveal[i] \in {"sent", "refused", "waiting", "completing"},
           v.numComplete = w.numComplete \/ v.numComplete = 0, v.verified => w.verified
    PROVE  Sound(c, v, m) /\ (OnChain(c, w) => OnChain(c, v))
<1>1. Sound(c, v, m)
  <2>1. \A b \in Sagas : Sends(w, b) => Sends(v, b)
    BY VerificationAssumption DEF Sends, Sagas
  <2>2. \A k \in DOMAIN m : m[k] \in Pending
    BY DEF Sound
  <2>3. Awaited(v, m)
    BY <2>1, <2>2 DEF Sound, Awaited, Pending
  <2>4. InFlow(v) /\ Drawn(c, v)
    BY DEF Sound, InFlow, Drawn
  <2> QED BY <2>3, <2>4 DEF Sound
<1>2. Counts(c, v) = Counts(c, w) /\ allIssuers(v) = allIssuers(w)
  BY DEF Counts, CompleteIssuers, allIssuers
<1>3. Cardinality(Counts(c, w)) \in Nat
  BY SizeOfIssuers DEF Counts, CompleteIssuers
<1>4. OnChain(c, w) => v.numComplete <= Cardinality(Counts(c, v))
  BY <1>2, <1>3 DEF OnChain
<1> QED BY <1>1, <1>2, <1>4 DEF OnChain

\* The first transaction to be mined is awaited by a saga that waits for no other.
LEMMA TailAwaited ==
    ASSUME NEW w, NEW m \in Seq(Pending), m # <<>>, Awaited(w, m)
    PROVE  /\ Head(m) \in Pending /\ Tail(m) \in Seq(Pending) /\ Awaited(w, Tail(m))
           /\ Head(m).by # "nobody" =>
                 /\ Sends(w, Head(m).by)
                 /\ Head(m).by \in Issuers => Head(m).tx = Complete(Head(m).by)
                 /\ \A k \in DOMAIN Tail(m) : Tail(m)[k].by # Head(m).by
<1>1. /\ Tail(m) \in Seq(Pending) /\ Head(m) = m[1] /\ 1 \in DOMAIN m /\ m[1] \in Pending
      /\ \A k \in DOMAIN Tail(m) : k \in Nat /\ k + 1 \in DOMAIN m /\ Tail(m)[k] = m[k + 1]
      /\ \A k \in DOMAIN Tail(m) : k + 1 # 1
  OBVIOUS
<1>2. \A k, l \in DOMAIN Tail(m) : k + 1 = l + 1 => k = l
  BY <1>1
<1> QED BY <1>1, <1>2 DEF Awaited

\* A transaction that a saga sends while none of its own is under way is awaited by it.
LEMMA SentAwaited ==
    ASSUME NEW w \in Wallets, NEW m \in Seq(Pending), Awaited(w, m), NEW by \in Sagas,
           \A k \in DOMAIN m : m[k].by # by, NEW txn \in transactionsOf(w, by)
    PROVE  /\ Sends(w, by)
           /\ by \in Issuers => txn.tx = Complete(by)
           /\ Append(m, [tx |-> txn.tx, by |-> by]) \in Seq(Pending)
           /\ Awaited(w, Append(m, [tx |-> txn.tx, by |-> by]))
<1> DEFINE e == [tx |-> txn.tx, by |-> by]
<1>1. Sends(w, by) /\ (by \in Issuers => txn.tx = Complete(by))
  BY VerificationAssumption DEF transactionsOf, Sends
<1>2. txn.tx \in Transactions
  <2>1. \/ txn.tx = SelectIssuers \/ txn.tx = SetAccount
        \/ txn.tx = Approve(w.needed) \/ txn.tx = Request(w.needed)
        \/ \E i \in Issuers : txn.tx = Complete(i)
    BY DEF transactionsOf
  <2>2. w.needed \in Int
    BY DEF Wallets
  <2> QED BY <2>1, <2>2 DEF Transactions
<1>3. e \in Pending /\ e.by = by /\ e.tx = txn.tx
  BY <1>2 DEF Pending
<1> HIDE DEF e
<1> DEFINE a == Append(m, e)
<1>4. /\ a \in Seq(Pending) /\ DOMAIN a = DOMAIN m \cup {Len(m) + 1}
      /\ a[Len(m) + 1] = e /\ \A k \in DOMAIN m : a[k] = m[k]
  BY <1>3
<1> HIDE DEF a
<1>5. by # "nobody"
  BY VerificationAssumption DEF Sagas
<1>6. Awaited(w, a)
  BY <1>1, <1>3, <1>4, <1>5 DEF Awaited
<1> QED BY <1>1, <1>4, <1>6 DEF a, e

-----------------------------------------------------------------------------
(***************************************************************************)
(* The steps                                                               *)
(***************************************************************************)
VerificationInv == Sound(chain, wallet, mempool)

ShownOnChain == OnChain(chain, wallet)

\* No attestation expires while a call is about to complete it.
CompletedInTime ==
    \A i \in Issuers : wallet.reveal[i] = "completing" /\ chain.issued[i].status = "Incomplete"
                          => isAttestationCompletable(chain, i)

\* The invariants hold for a new wallet.
LEMMA VerificationInit == Init => VerificationInv /\ ShownOnChain
<1> SUFFICES ASSUME Init PROVE VerificationInv /\ ShownOnChain
  OBVIOUS
<1>1. chain \in Chains
  BY DEF Init, NewChain, Chains, NoRequest
<1>2. /\ wallet \in Wallets /\ wallet.at = "idle" /\ wallet.account = "none"
      /\ \A i \in Issuers : wallet.reveal[i] = "none"
      /\ wallet.numComplete = 0 /\ ~wallet.verified
  BY NewWalletTyped DEF Init, NewWallet
<1>3. mempool \in Seq(Pending) /\ DOMAIN mempool = {}
  BY DEF Init
<1>4. /\ CompleteIssuers(chain) = {} /\ chain.completed = 0 /\ chain.unselected.blockNumber = 0
      /\ \A i \in Issuers : chain.issued[i].status = "None"
  BY DEF Init, NewChain, NoRequest, CompleteIssuers
<1>5. Cardinality({}) = 0
  BY FS_EmptySet
<1>6. Counted(chain)
  BY <1>4, <1>5 DEF Counted
<1>7. InFlow(wallet) /\ Awaited(wallet, mempool) /\ Drawn(chain, wallet) /\ NewCodes(wallet)
  BY <1>2, <1>3 DEF InFlow, Awaited, Drawn, NewCodes, Forked
<1>8. Counts(chain, wallet) = {}
  BY <1>4 DEF Counts
<1>9. OnChain(chain, wallet)
  BY <1>2, <1>5, <1>8 DEF OnChain
<1> QED BY <1>1, <1>2, <1>3, <1>6, <1>7, <1>9 DEF VerificationInv, ShownOnChain, Sound

\* An attempt that is given up, for whichever reason, keeps them.
LEMMA LeaveSound ==
    ASSUME VerificationInv, NEW v \in Wallets, Leave(v), UNCHANGED chain, InFlow(v),
           v.at \in {"idle", "prepping", "receiving"},
           \A i \in Issuers : v.reveal[i] # "none" => wallet.reveal[i] # "none",
           v.numComplete = IF v.at = "prepping" THEN 0 ELSE wallet.numComplete,
           v.verified = wallet.verified
    PROVE  VerificationInv' /\ (ShownOnChain => ShownOnChain')
<1>1. mempool \in Seq(Pending) /\ wallet \in Wallets /\ wallet.numComplete \in Nat
  BY DEF VerificationInv, Sound, Wallets
<1>2. v.numComplete <= wallet.numComplete /\ (v.at = "prepping" => v.numComplete = 0)
  BY <1>1
<1>3. wallet' = v /\ mempool' = unawaited(mempool) /\ chain' = chain
  BY DEF Leave
<1>4. /\ Sound(chain, v, unawaited(mempool))
      /\ OnChain(chain, wallet) => OnChain(chain, v)
  BY <1>1, <1>2, QuitSound DEF VerificationInv
<1> QED BY <1>3, <1>4 DEF VerificationInv, ShownOnChain

\* startVerification cancels what runs and begins anew.
LEMMA StartSound ==
    ASSUME VerificationInv, StartVerification
    PROVE  VerificationInv' /\ (ShownOnChain => ShownOnChain')
<1> DEFINE r == resetVerification(wallet)
           e == ended(r)
           p == [e EXCEPT !.at = "prepping"]
           v == setVerificationStatus(p, "Prepping")
<1>1. wallet \in Wallets
  BY DEF VerificationInv, Sound
<1>2. r \in Wallets /\ r.numComplete = 0 /\ r.verified = wallet.verified
  BY <1>1, ResetFields
<1> HIDE DEF r
<1>3. /\ e \in Wallets /\ e.numComplete = 0 /\ e.verified = wallet.verified /\ e.account = "none"
      /\ \A i \in Issuers : e.reveal[i] = "none"
  BY <1>2, EndedFields
<1> HIDE DEF e
<1>4. /\ p \in Wallets /\ p.numComplete = 0 /\ p.verified = wallet.verified /\ p.account = "none"
      /\ p.at = "prepping" /\ \A i \in Issuers : p.reveal[i] = "none"
  BY <1>3 DEF Wallets, Places
<1> HIDE DEF p
<1>5. /\ v \in Wallets /\ v.numComplete = 0 /\ v.verified = wallet.verified /\ v.account = "none"
      /\ v.at = "prepping" /\ \A i \in Issuers : v.reveal[i] = "none"
  BY <1>4, StatusFields DEF Statuses
<1>6. Leave(v) /\ UNCHANGED chain
  BY DEF StartVerification, v, p, e, r
<1> HIDE DEF v
<1>7. InFlow(v)
  BY <1>5 DEF InFlow, Forked
<1> QED BY <1>5, <1>6, <1>7, LeaveSound

\* The user cancels, the time is up, or the app is killed.
LEMMA CancelSound ==
    ASSUME VerificationInv, CancelVerification \/ VerificationTimesOut \/ Restart
    PROVE  VerificationInv' /\ (ShownOnChain => ShownOnChain')
<1> DEFINE e == ended(wallet)
           f == setVerificationStatus(wallet, "Failed")
<1>1. wallet \in Wallets
  BY DEF VerificationInv, Sound
<1>2. /\ e \in Wallets /\ e.numComplete = wallet.numComplete /\ e.verified = wallet.verified
      /\ e.at = "idle" /\ e.account = "none" /\ \A i \in Issuers : e.reveal[i] = "none"
  BY <1>1, EndedFields
<1> HIDE DEF e
<1>3. ASSUME NEW v \in Wallets, Leave(v), UNCHANGED chain, v.at = "idle", v.account = "none",
             \A i \in Issuers : v.reveal[i] = "none",
             v.numComplete = wallet.numComplete, v.verified = wallet.verified
      PROVE  VerificationInv' /\ (ShownOnChain => ShownOnChain')
  <2>1. InFlow(v)
    BY <1>3 DEF InFlow, Forked
  <2> QED BY <1>3, <2>1, LeaveSound
<1>4. CASE CancelVerification
  BY <1>2, <1>3, <1>4 DEF CancelVerification, e
<1>5. CASE VerificationTimesOut
  <2>1. /\ f \in Wallets /\ f.numComplete = wallet.numComplete /\ f.verified = wallet.verified
    BY <1>1, StatusFields DEF Statuses
  <2> DEFINE v == ended(f)
  <2>2. Leave(v) /\ UNCHANGED chain
    BY <1>5 DEF VerificationTimesOut
  <2> HIDE DEF f
  <2>3. /\ v \in Wallets /\ v.numComplete = f.numComplete /\ v.verified = f.verified
        /\ v.at = "idle" /\ v.account = "none" /\ \A i \in Issuers : v.reveal[i] = "none"
    BY <2>1, EndedFields
  <2> HIDE DEF v
  <2> QED BY <1>3, <2>1, <2>2, <2>3
<1>6. CASE Restart
  <2> DEFINE v == [e EXCEPT !.status = "Stopped"]
  <2>1. Leave(v) /\ UNCHANGED chain
    BY <1>6 DEF Restart, e
  <2>2. /\ v \in Wallets /\ v.numComplete = e.numComplete /\ v.verified = e.verified
        /\ v.at = "idle" /\ v.account = "none" /\ \A i \in Issuers : v.reveal[i] = "none"
    BY <1>2 DEF Wallets, Statuses
  <2> HIDE DEF v
  <2> QED BY <1>2, <1>3, <2>1, <2>2
<1> QED BY <1>4, <1>5, <1>6

\* What failing leaves is what giving up leaves.
LEMMA FailedQuits ==
    ASSUME NEW w \in Wallets
    PROVE  LET v == failed(w)
           IN  /\ v \in Wallets /\ InFlow(v) /\ v.at \in {"idle", "receiving"}
               /\ \A i \in Issuers : v.reveal[i] # "none" => w.reveal[i] # "none"
               /\ v.numComplete = w.numComplete /\ v.verified = w.verified
<1> QED BY FailedFields DEF InFlow, Forked

\* The flow throws and returns what its calls leave.
LEMMA FlowThrowsSound ==
    ASSUME VerificationInv, FlowThrows
    PROVE  VerificationInv' /\ (ShownOnChain => ShownOnChain')
<1> DEFINE v == failed(wallet)
<1>1. wallet \in Wallets
  BY DEF VerificationInv, Sound
<1>2. Leave(v) /\ UNCHANGED chain
  BY DEF FlowThrows
<1>3. /\ v \in Wallets /\ InFlow(v) /\ v.at \in {"idle", "receiving"}
      /\ \A i \in Issuers : v.reveal[i] # "none" => wallet.reveal[i] # "none"
      /\ v.numComplete = wallet.numComplete /\ v.verified = wallet.verified
  BY <1>1, FailedQuits
<1> HIDE DEF v
<1> QED BY <1>2, <1>3, LeaveSound

\* The user revokes the verification, whatever else goes on.
LEMMA RevokeSound ==
    ASSUME VerificationInv, RevokeVerification
    PROVE  VerificationInv' /\ (ShownOnChain => ShownOnChain')
<1> DEFINE r == resetVerification(wallet)
           v == [r EXCEPT !.verified = FALSE]
<1>1. wallet \in Wallets
  BY DEF VerificationInv, Sound
<1>2. /\ r \in Wallets /\ r.codes = <<>> /\ r.numComplete = 0
      /\ r.at = wallet.at /\ r.account = wallet.account /\ r.reveal = wallet.reveal
      /\ r.remaining = wallet.remaining
  BY <1>1, ResetFields
<1>3. wallet' = v /\ chain' = chain /\ mempool' = mempool
  BY DEF RevokeVerification
<1> HIDE DEF r
<1>4. /\ v \in Wallets /\ v.codes = r.codes /\ v.numComplete = 0 /\ ~v.verified
      /\ v.at = r.at /\ v.account = r.account /\ v.reveal = r.reveal
      /\ v.remaining = r.remaining
  BY <1>2 DEF Wallets
<1> HIDE DEF v
<1>5. NewCodes(v)
  BY <1>2, <1>4 DEF NewCodes, Contains
<1>6. Sound(chain, v, mempool) /\ (OnChain(chain, wallet) => OnChain(chain, v))
  BY <1>1, <1>2, <1>4, <1>5, CallSound DEF VerificationInv
<1> QED BY <1>3, <1>6 DEF VerificationInv, ShownOnChain

\* A step that takes the flow on before it forks.
LEMMA StepSound ==
    ASSUME VerificationInv, NEW v \in Wallets, Moves(v),
           wallet.at \notin Forked \cup {"approve", "request", "select"}, v.at \notin Forked,
           v.account = "none", \A i \in Issuers : v.reveal[i] = "none",
           v.numComplete = wallet.numComplete, v.verified = wallet.verified,
           v.at \in {"prepping", "gettingStatus"} => wallet.at \in {"prepping", "gettingStatus"},
           v.at \in Places \ {"idle", "prepping", "gettingStatus"} =>
              /\ v.remaining = wallet.remaining
              /\ wallet.at \in Places \ {"idle", "prepping", "gettingStatus"}
    PROVE  VerificationInv' /\ (ShownOnChain => ShownOnChain')
<1>1. wallet' = v /\ chain' = chain /\ mempool' = mempool
  BY DEF Moves
<1>2. Sound(chain, v, mempool)
  BY WalkSound DEF VerificationInv
<1>3. ASSUME ShownOnChain PROVE OnChain(chain, v)
  <2>1. v.numComplete <= chain.completed
    BY <1>3, CountedIsComplete DEF VerificationInv, ShownOnChain
  <2>2. /\ v.at \in {"prepping", "gettingStatus"} => v.numComplete = 0
        /\ v.at \in Places \ {"idle", "prepping", "gettingStatus"}
              => chain.completed + v.remaining >= NumRequired
        /\ v.verified => chain.completed >= NumRequired
    BY <1>3 DEF ShownOnChain, OnChain, Places, Forked
  <2> QED BY <1>3, <2>1, <2>2, WalkSound DEF VerificationInv, ShownOnChain
<1> QED BY <1>1, <1>2, <1>3 DEF VerificationInv, ShownOnChain

\* The flow goes on to look at the state of the attestations.
LEMMA PrepareSound ==
    ASSUME VerificationInv, Prepare
    PROVE  VerificationInv' /\ (ShownOnChain => ShownOnChain')
<1> DEFINE s == setVerificationStatus(wallet, "GettingStatus")
           v == [s EXCEPT !.at = "gettingStatus"]
<1>1. wallet \in Wallets /\ wallet.at = "prepping" /\ InFlow(wallet)
  BY DEF VerificationInv, Sound, Prepare
<1>2. /\ s \in Wallets /\ s.numComplete = wallet.numComplete /\ s.verified = wallet.verified
      /\ s.account = wallet.account /\ s.reveal = wallet.reveal /\ s.remaining = wallet.remaining
  BY <1>1, StatusFields DEF Statuses
<1>3. Moves(v)
  BY DEF Prepare
<1> HIDE DEF s
<1>4. /\ v \in Wallets /\ v.numComplete = s.numComplete /\ v.verified = s.verified
      /\ v.account = s.account /\ v.reveal = s.reveal /\ v.at = "gettingStatus"
  BY <1>2 DEF Wallets, Places
<1> HIDE DEF v
<1>5. v.account = "none" /\ \A i \in Issuers : v.reveal[i] = "none"
  BY <1>1, <1>2, <1>4 DEF InFlow, Forked
<1> QED BY <1>1, <1>2, <1>3, <1>4, <1>5, StepSound DEF Forked

\* The flow ends when the contracts call the number verified, or sets out to get what is
\* missing.
LEMMA GetStatusSound ==
    ASSUME VerificationInv, GetStatus
    PROVE  VerificationInv' /\ (ShownOnChain => ShownOnChain')
<1>1. /\ wallet \in Wallets /\ wallet.at = "gettingStatus" /\ InFlow(wallet)
      /\ chain.completed \in Nat /\ NumRequired \in Nat
  BY AttestationsAssumption DEF VerificationInv, Sound, GetStatus, Chains
<1>2. wallet.account = "none" /\ \A i \in Issuers : wallet.reveal[i] = "none"
  BY <1>1 DEF InFlow, Forked
<1>3. wallet.at \notin Forked \cup {"approve", "request", "select"}
  BY <1>1 DEF Forked
<1>4. CASE isVerified(chain)
  <2> DEFINE s == setVerificationStatus(wallet, "Done")
             d == [s EXCEPT !.verified = TRUE]
             v == ended(d)
  <2>1. wallet' = v /\ chain' = chain /\ mempool' = mempool
    BY <1>4 DEF GetStatus, Moves
  <2>2. s \in Wallets /\ s.numComplete = wallet.numComplete
    BY <1>1, StatusFields DEF Statuses
  <2> HIDE DEF s
  <2>3. d \in Wallets /\ d.numComplete = wallet.numComplete
    BY <2>2 DEF Wallets
  <2> HIDE DEF d
  <2>4. /\ v \in Wallets /\ v.numComplete = wallet.numComplete /\ v.at = "idle"
        /\ v.account = "none" /\ \A i \in Issuers : v.reveal[i] = "none"
    BY <2>3, EndedFields
  <2> HIDE DEF v
  <2>5. chain.completed >= NumRequired
    BY <1>1, <1>4 DEF isVerified, numAttestationsRemaining
  <2>6. Sound(chain, v, mempool)
    BY <1>3, <2>4, WalkSound DEF VerificationInv, Forked
  <2>7. ASSUME ShownOnChain PROVE OnChain(chain, v)
    <3>1. v.numComplete <= chain.completed
      BY <2>4, <2>7, CountedIsComplete DEF VerificationInv, ShownOnChain
    <3> QED BY <1>3, <2>4, <2>5, <2>7, <3>1, WalkSound DEF VerificationInv, ShownOnChain, Forked
  <2> QED BY <2>1, <2>6, <2>7 DEF VerificationInv, ShownOnChain
<1>5. CASE ~isVerified(chain)
  <2> DEFINE a == completeAttestationCode(wallet, chain.completed)
             s == setVerificationStatus(a, "RequestingAttestations")
             n == numAttestationsRemaining(chain)
             p == [s EXCEPT !.at = "fetching"]
             v == [p EXCEPT !.remaining = n]
  <2>1. wallet' = v /\ chain' = chain /\ mempool' = mempool
    BY <1>5 DEF GetStatus, Moves
  <2>2. /\ a \in Wallets /\ a.numComplete = wallet.numComplete + chain.completed
        /\ a.verified = wallet.verified /\ a.account = wallet.account /\ a.reveal = wallet.reveal
    BY <1>1, CompletedFields
  <2> HIDE DEF a
  <2>3. /\ s \in Wallets /\ s.numComplete = a.numComplete
        /\ s.verified = wallet.verified /\ s.account = wallet.account /\ s.reveal = wallet.reveal
    BY <2>2, StatusFields DEF Statuses
  <2> HIDE DEF s
  <2>4. n \in Int /\ chain.completed + n >= NumRequired
    BY <1>1 DEF numAttestationsRemaining
  <2> HIDE DEF n
  <2>5. /\ p \in Wallets /\ p.numComplete = a.numComplete /\ p.at = "fetching"
        /\ p.verified = wallet.verified /\ p.account = wallet.account /\ p.reveal = wallet.reveal
    BY <2>3 DEF Wallets, Places
  <2> HIDE DEF p
  <2>6. /\ v \in Wallets /\ v.numComplete = a.numComplete /\ v.at = "fetching" /\ v.remaining = n
        /\ v.verified = wallet.verified /\ v.account = wallet.account /\ v.reveal = wallet.reveal
    BY <2>4, <2>5 DEF Wallets
  <2> HIDE DEF v
  <2>7. Sound(chain, v, mempool)
    BY <1>2, <1>3, <2>6, WalkSound DEF VerificationInv, Forked
  <2>8. ASSUME ShownOnChain PROVE OnChain(chain, v)
    <3>1. v.numComplete <= chain.completed
      BY <1>1, <2>2, <2>6, <2>8 DEF ShownOnChain, OnChain
    <3>2. v.verified => chain.completed >= NumRequired
      BY <2>6, <2>8 DEF ShownOnChain, OnChain
    <3> QED BY <1>2, <1>3, <2>4, <2>6, <2>8, <3>1, <3>2, WalkSound
            DEF VerificationInv, ShownOnChain, Forked
  <2> QED BY <2>1, <2>7, <2>8 DEF VerificationInv, ShownOnChain
<1> QED BY <1>4, <1>5

\* A step that only moves the flow, and counts what it needs or waits for.
LEMMA PlaceSound ==
    ASSUME VerificationInv, NEW place \in {"needed", "approve", "toWait", "waiting", "select"},
           NEW n \in Int, NEW u \in Int,
           wallet.at \in {"fetching", "needed", "toWait", "waiting"},
           Moves([wallet EXCEPT !.at = place, !.needed = n, !.waitUntil = u])
    PROVE  VerificationInv' /\ (ShownOnChain => ShownOnChain')
<1> DEFINE v == [wallet EXCEPT !.at = place, !.needed = n, !.waitUntil = u]
<1>1. wallet \in Wallets /\ InFlow(wallet)
  BY DEF VerificationInv, Sound
<1>2. wallet.account = "none" /\ \A i \in Issuers : wallet.reveal[i] = "none"
  BY <1>1 DEF InFlow, Forked
<1>3. /\ v \in Wallets /\ v.at = place /\ v.numComplete = wallet.numComplete
      /\ v.verified = wallet.verified /\ v.account = wallet.account /\ v.reveal = wallet.reveal
      /\ v.remaining = wallet.remaining
  BY <1>1 DEF Wallets, Places
<1> HIDE DEF v
<1>4. Moves(v)
  BY DEF v
<1> QED BY <1>2, <1>3, <1>4, StepSound DEF Forked, Places

\* The flow takes up a request that is open, and waits for its block.
LEMMA WaitSound ==
    ASSUME VerificationInv, CheckUnselectedRequest \/ BeginWaiting \/ FinishWaiting
    PROVE  VerificationInv' /\ (ShownOnChain => ShownOnChain')
<1>1. wallet \in Wallets /\ wallet.needed \in Int /\ wallet.waitUntil \in Int
      /\ chain.unselected.blockNumber \in Int
  BY DEF VerificationInv, Sound, Wallets, Chains
<1>2. PICK zero \in Int : zero = 0
  OBVIOUS
<1>3. ASSUME CheckUnselectedRequest PROVE VerificationInv' /\ (ShownOnChain => ShownOnChain')
  <2> DEFINE place == IF chain.unselected.blockNumber = 0 THEN "approve" ELSE "toWait"
             n == IF chain.unselected.blockNumber = 0 THEN wallet.needed ELSE zero
             v == [wallet EXCEPT !.at = place, !.needed = n, !.waitUntil = wallet.waitUntil]
  <2>1. wallet.at = "needed" /\ Moves([wallet EXCEPT !.at = place, !.needed = n])
    BY <1>2, <1>3 DEF CheckUnselectedRequest
  <2>2. [wallet EXCEPT !.at = place, !.needed = n] = v
    BY <1>1 DEF Wallets
  <2>3. Moves(v)
    BY <2>1, <2>2
  <2>4. place \in {"approve", "toWait"} /\ n \in Int
    BY <1>1
  <2> QED BY <1>1, <2>1, <2>3, <2>4, PlaceSound
<1>4. ASSUME BeginWaiting PROVE VerificationInv' /\ (ShownOnChain => ShownOnChain')
  <2>0. wallet.at = "toWait"
    BY <1>4 DEF BeginWaiting
  <2>1. CASE chain.unselected.blockNumber = 0
    <3> DEFINE v == failed(wallet)
    <3>1. Moves(v)
      BY <1>4, <2>1 DEF BeginWaiting
    <3>2. /\ v \in Wallets /\ v.numComplete = wallet.numComplete /\ v.verified = wallet.verified
          /\ v.at = "idle" /\ v.account = "none" /\ \A i \in Issuers : v.reveal[i] = "none"
      BY <1>1, <2>0, FailedFields
    <3> HIDE DEF v
    <3> QED BY <2>0, <3>1, <3>2, StepSound DEF Forked
  <2>2. CASE chain.unselected.blockNumber # 0
    <3> DEFINE u == chain.unselected.blockNumber + SelectWaitBlocks
               v == [wallet EXCEPT !.at = "waiting", !.needed = wallet.needed, !.waitUntil = u]
    <3>1. Moves([wallet EXCEPT !.at = "waiting", !.waitUntil = u])
      BY <1>4, <2>2 DEF BeginWaiting
    <3>2. [wallet EXCEPT !.at = "waiting", !.waitUntil = u] = v
      BY <1>1 DEF Wallets
    <3>3. Moves(v)
      BY <3>1, <3>2
    <3>4. u \in Int
      BY <1>1, AttestationsAssumption
    <3> HIDE DEF u
    <3> QED BY <1>1, <2>0, <3>3, <3>4, PlaceSound
  <2> QED BY <2>1, <2>2
<1>5. ASSUME FinishWaiting PROVE VerificationInv' /\ (ShownOnChain => ShownOnChain')
  <2> DEFINE v == [wallet EXCEPT !.at = "select", !.needed = wallet.needed, !.waitUntil = zero]
  <2>1. wallet.at = "waiting" /\ Moves([wallet EXCEPT !.at = "select", !.waitUntil = zero])
    BY <1>2, <1>5 DEF FinishWaiting
  <2>2. [wallet EXCEPT !.at = "select", !.waitUntil = zero] = v
    BY <1>1 DEF Wallets
  <2>3. Moves(v)
    BY <2>1, <2>2
  <2> QED BY <1>1, <2>1, <2>3, PlaceSound
<1> QED BY <1>3, <1>4, <1>5

\* The flow asks for what is missing, or begins to reveal when enough is there.
LEMMA FetchSound ==
    ASSUME VerificationInv, FetchAttestations
    PROVE  VerificationInv' /\ (ShownOnChain => ShownOnChain')
<1>1. /\ wallet \in Wallets /\ wallet.at = "fetching" /\ InFlow(wallet)
      /\ wallet.remaining \in Int
  BY DEF VerificationInv, Sound, FetchAttestations, Wallets
<1>2. wallet.account = "none" /\ \A i \in Issuers : wallet.reveal[i] = "none"
  BY <1>1 DEF InFlow, Forked
<1>3. PICK reachable \in ReachableSets :
         LET attestations == getActionableAttestations(chain, reachable)
             missing      == wallet.remaining - Cardinality(attestations)
         IN  IF missing > 0
             THEN Moves([wallet EXCEPT !.at = "needed", !.needed = missing])
             ELSE Moves(
                    [setVerificationStatus(wallet, "RevealingNumber") EXCEPT
                       !.at = "revealing", !.remaining = 0,
                       !.reveal = [i \in Issuers |->
                                      IF i \in attestations THEN "revealing" ELSE "none"],
                       !.account = "check"])
  BY DEF FetchAttestations
<1> DEFINE A == getActionableAttestations(chain, reachable)
           missing == wallet.remaining - Cardinality(A)
<1>4. A \in SUBSET Issuers /\ \A i \in A : chain.issued[i].status = "Incomplete"
  BY <1>3, VerificationAssumption DEF getActionableAttestations, isAttestationCompletable
<1> HIDE DEF A
<1>5. Cardinality(A) \in Nat
  BY <1>4, SizeOfIssuers
<1>6. missing \in Int
  BY <1>1, <1>5
<1>7. CASE missing > 0
  <2> DEFINE v == [wallet EXCEPT !.at = "needed", !.needed = missing,
                                 !.waitUntil = wallet.waitUntil]
  <2>1. Moves([wallet EXCEPT !.at = "needed", !.needed = missing])
    BY <1>3, <1>7 DEF A
  <2>2. wallet.waitUntil \in Int
    BY <1>1 DEF Wallets
  <2>3. [wallet EXCEPT !.at = "needed", !.needed = missing] = v
    BY <1>1 DEF Wallets
  <2>4. Moves(v)
    BY <2>1, <2>3
  <2> HIDE DEF missing
  <2> QED BY <1>1, <1>6, <2>2, <2>4, PlaceSound
<1>8. CASE ~(missing > 0)
  <2>0. PICK zero \in Int : zero = 0
    OBVIOUS
  <2> DEFINE s == setVerificationStatus(wallet, "RevealingNumber")
             calls == [i \in Issuers |-> IF i \in A THEN "revealing" ELSE "none"]
             x == [s EXCEPT !.at = "revealing", !.remaining = zero, !.reveal = calls,
                            !.account = "check"]
  <2>1. wallet' = x /\ chain' = chain /\ mempool' = mempool
    BY <1>3, <1>8, <2>0 DEF Moves, A
  <2>2. /\ s \in Wallets /\ s.codes = wallet.codes /\ s.numComplete = wallet.numComplete
        /\ s.verified = wallet.verified
    BY <1>1, StatusFields DEF Statuses
  <2> HIDE DEF s
  <2>3. calls \in [Issuers -> {"none", "revealing"}]
    OBVIOUS
  <2>4. \A i \in Issuers : calls[i] = IF i \in A THEN "revealing" ELSE "none"
    OBVIOUS
  <2> HIDE DEF calls
  <2>5. calls \in [Issuers -> Calls]
    BY <2>3 DEF Calls
  <2>6. /\ x \in Wallets /\ x.at = "revealing" /\ x.reveal = calls
        /\ x.codes = wallet.codes /\ x.numComplete = wallet.numComplete
        /\ x.verified = wallet.verified
    BY <2>0, <2>2, <2>3, <2>5 DEF Wallets, Places
  <2> HIDE DEF x
  <2>7. Sound(chain, x, mempool)
    <3>1. \A b \in Sagas : ~Sends(wallet, b)
      BY <1>1, <1>2, VerificationAssumption DEF Sends, Sagas
    <3>2. \A k \in DOMAIN mempool : mempool[k] \in Pending
      BY DEF VerificationInv, Sound
    <3>3. \A k \in DOMAIN mempool : mempool[k].by = "nobody"
      BY <3>1, <3>2 DEF VerificationInv, Sound, Awaited, Pending
    <3>4. Awaited(x, mempool)
      BY <3>3 DEF Awaited
    <3>5. InFlow(x) /\ NewCodes(x)
      BY <2>3, <2>6 DEF InFlow, Forked, NewCodes
    <3>6. Drawn(chain, x)
      BY <1>4, <2>4, <2>6 DEF Drawn
    <3> QED BY <2>6, <3>4, <3>5, <3>6 DEF VerificationInv, Sound
  <2>8. ASSUME ShownOnChain PROVE OnChain(chain, x)
    <3>1. Counts(chain, x) = Counts(chain, wallet)
      BY <1>2, <1>4, <2>4, <2>6 DEF Counts, CompleteIssuers
    <3>2. allIssuers(x) = A
      BY <1>4, <2>4, <2>6 DEF allIssuers
    <3>3. Cardinality(CompleteIssuers(chain) \cup A) >= NumRequired
      <4>1. /\ IsFiniteSet(CompleteIssuers(chain)) /\ IsFiniteSet(A)
            /\ Cardinality(CompleteIssuers(chain)) \in Nat
        BY <1>4, SizeOfIssuers DEF CompleteIssuers
      <4>2. CompleteIssuers(chain) \cap A = {}
        BY <1>4 DEF CompleteIssuers
      <4>3. Cardinality(CompleteIssuers(chain) \cup A)
               = Cardinality(CompleteIssuers(chain)) + Cardinality(A)
        BY <4>1, <4>2, FS_Union, FS_EmptySet, <1>5
      <4>4. chain.completed = Cardinality(CompleteIssuers(chain))
        BY DEF VerificationInv, Sound, Counted
      <4>5. chain.completed + wallet.remaining >= NumRequired
        BY <1>1, <2>8 DEF ShownOnChain, OnChain
      <4>6. wallet.remaining <= Cardinality(A)
        BY <1>1, <1>5, <1>8
      <4>7. NumRequired \in Nat
        BY AttestationsAssumption
      <4> QED BY <1>1, <1>5, <4>1, <4>3, <4>4, <4>5, <4>6, <4>7
    <3> QED BY <2>3, <2>6, <2>8, <3>1, <3>2, <3>3 DEF ShownOnChain, OnChain
  <2> QED BY <2>1, <2>7, <2>8 DEF VerificationInv, ShownOnChain
<1> QED BY <1>7, <1>8

\* The account is found to be set, or not.
LEMMA CheckAccountSound ==
    ASSUME VerificationInv, CheckAccount
    PROVE  VerificationInv' /\ (ShownOnChain => ShownOnChain')
<1>1. wallet \in Wallets /\ wallet.account = "check"
  BY DEF VerificationInv, Sound, CheckAccount
<1>2. PICK account \in {"done", "setAccount"} :
         /\ wallet' = settled([wallet EXCEPT !.account = account])
         /\ chain' = chain /\ mempool' = mempool
  BY DEF CheckAccount, Moves
<1> DEFINE x == [wallet EXCEPT !.account = account]
<1>3. /\ x \in Wallets /\ x.at = wallet.at /\ x.codes = wallet.codes
      /\ x.reveal = wallet.reveal /\ x.remaining = wallet.remaining
      /\ x.numComplete = wallet.numComplete /\ x.verified = wallet.verified
      /\ x.account = account
  BY <1>1, <1>2 DEF Wallets
<1>4. wallet' = settled(x)
  BY <1>2
<1> HIDE DEF x
<1>5. wallet.at = "revealing"
  BY <1>1 DEF VerificationInv, Sound, InFlow, Forked
<1>6. Sound(chain, x, mempool)
  <2>1. \A b \in Sagas : Sends(wallet, b) => Sends(x, b)
    BY <1>1, <1>3, VerificationAssumption DEF Sends, Sagas
  <2>2. \A k \in DOMAIN mempool : mempool[k] \in Pending
    BY DEF VerificationInv, Sound
  <2>3. Awaited(x, mempool)
    BY <2>1, <2>2 DEF VerificationInv, Sound, Awaited, Pending
  <2>4. InFlow(x) /\ Drawn(chain, x) /\ NewCodes(x)
    BY <1>3, <1>5 DEF VerificationInv, Sound, InFlow, Forked, Drawn, NewCodes
  <2> QED BY <1>3, <2>3, <2>4 DEF VerificationInv, Sound
<1>7. ASSUME ShownOnChain PROVE OnChain(chain, x)
  <2>1. Counts(chain, x) = Counts(chain, wallet) /\ allIssuers(x) = allIssuers(wallet)
    BY <1>3 DEF Counts, allIssuers
  <2> QED BY <1>3, <1>5, <1>7, <2>1 DEF ShownOnChain, OnChain
<1> QED BY <1>2, <1>4, <1>6, <1>7, SettledSound DEF VerificationInv, ShownOnChain

\* Completing an attestation fails only when that has been done, as long as none expires.
LEMMA FailsWhenComplete ==
    ASSUME VerificationInv, CompletedInTime, NEW i \in Issuers,
           wallet.reveal[i] = "completing", ~succeeds(chain, Complete(i))
    PROVE  i \in CompleteIssuers(chain)
<1>1. chain.issued[i].status # "None" /\ chain.issued[i].status \in {"None", "Incomplete", "Complete"}
  BY DEF VerificationInv, Sound, Drawn, Chains
<1>2. ~isAttestationCompletable(chain, i)
  BY DEF succeeds, validateAttestationCode, Complete
<1> QED BY <1>1, <1>2 DEF CompletedInTime, CompleteIssuers

\* A saga sends its transaction, or goes on without one that fails.
LEMMA SendSound ==
    ASSUME VerificationInv, NEW by \in Sagas, SendTransaction(by)
    PROVE  /\ VerificationInv'
           /\ ShownOnChain /\ CompletedInTime /\ "gas" \notin Faults => ShownOnChain'
<1>1. wallet \in Wallets /\ mempool \in Seq(Pending) /\ Awaited(wallet, mempool)
  BY DEF VerificationInv, Sound
<1>2. \A k \in DOMAIN mempool : mempool[k].by # by
  BY DEF SendTransaction
<1>3. PICK txn \in transactionsOf(wallet, by) :
         \/ /\ ~succeeds(chain, txn.tx) \/ "gas" \in Faults
            /\ wallet' = confirmed(wallet, by)
            /\ UNCHANGED mempool
         \/ /\ succeeds(chain, txn.tx)
            /\ mempool' = Append(mempool, [tx |-> txn.tx, by |-> by])
            /\ UNCHANGED wallet
  BY DEF SendTransaction
<1>4. /\ Sends(wallet, by)
      /\ by \in Issuers => txn.tx = Complete(by)
      /\ Append(mempool, [tx |-> txn.tx, by |-> by]) \in Seq(Pending)
      /\ Awaited(wallet, Append(mempool, [tx |-> txn.tx, by |-> by]))
  BY <1>1, <1>2, SentAwaited
<1>5. chain' = chain
  BY DEF SendTransaction
<1>6. CASE /\ ~succeeds(chain, txn.tx) \/ "gas" \in Faults
           /\ wallet' = confirmed(wallet, by)
           /\ UNCHANGED mempool
  <2> DEFINE v == confirmed(wallet, by)
  <2>1. /\ Sound(chain, v, mempool)
        /\ OnChain(chain, wallet) /\ (by \in Issuers => by \in CompleteIssuers(chain))
              => OnChain(chain, v)
    BY <1>1, <1>2, <1>4, ConfirmedSound DEF VerificationInv
  <2>2. ASSUME CompletedInTime, "gas" \notin Faults, by \in Issuers
        PROVE  by \in CompleteIssuers(chain)
    <3>1. wallet.reveal[by] = "completing" /\ ~succeeds(chain, Complete(by))
      BY <1>4, <1>6, <2>2, VerificationAssumption DEF Sends
    <3> QED BY <2>2, <3>1, FailsWhenComplete
  <2> QED BY <1>5, <1>6, <2>1, <2>2 DEF VerificationInv, ShownOnChain
<1>7. CASE /\ succeeds(chain, txn.tx)
           /\ mempool' = Append(mempool, [tx |-> txn.tx, by |-> by])
           /\ UNCHANGED wallet
  <2>1. Sound(chain, wallet, mempool')
    BY <1>4, <1>7 DEF VerificationInv, Sound
  <2> QED BY <1>5, <1>7, <2>1 DEF VerificationInv, ShownOnChain
<1> QED BY <1>3, <1>6, <1>7

\* The oldest transaction is mined, and the saga that awaits it goes on.
LEMMA MineSound ==
    ASSUME VerificationInv, MineTransaction
    PROVE  VerificationInv' /\ (ShownOnChain => ShownOnChain')
<1> DEFINE tx == Head(mempool).tx
           by == Head(mempool).by
           rest == Tail(mempool)
<1>1. /\ wallet \in Wallets /\ mempool \in Seq(Pending) /\ Awaited(wallet, mempool)
      /\ mempool # <<>> /\ chain \in Chains /\ Counted(chain)
  BY DEF VerificationInv, Sound, MineTransaction
<1>2. /\ Head(mempool) \in Pending /\ rest \in Seq(Pending) /\ Awaited(wallet, rest)
      /\ by # "nobody" =>
            /\ Sends(wallet, by)
            /\ by \in Issuers => tx = Complete(by)
            /\ \A k \in DOMAIN rest : rest[k].by # by
  BY <1>1, TailAwaited
<1>3. tx \in Transactions /\ by \in Sagas \cup {"nobody"}
  BY <1>2 DEF Pending
<1>4. CASE succeeds(chain, tx)
  <2>1. /\ chain' \in outcomes(chain, tx) /\ mempool' = rest
        /\ wallet' = IF by = "nobody" THEN wallet ELSE confirmed(wallet, by)
    BY <1>4 DEF MineTransaction
  <2> HIDE DEF tx, by, rest
  <2>2. PICK d \in outcomes(chain, tx) : d = chain'
    BY <2>1
  <2>3. /\ d \in Chains /\ Counted(d) /\ Advances(chain, d)
        /\ \A i \in Issuers : tx = Complete(i) => i \in CompleteIssuers(d)
    BY <1>1, <1>3, <1>4, OutcomeSound
  <2>4. Sound(d, wallet, rest) /\ (OnChain(chain, wallet) => OnChain(d, wallet))
    BY <1>2, <2>3, AdvanceSound DEF VerificationInv
  <2>5. CASE by = "nobody"
    BY <2>1, <2>2, <2>4, <2>5 DEF VerificationInv, ShownOnChain
  <2>6. CASE by # "nobody"
    <3>1. by \in Sagas /\ (by \in Issuers => by \in CompleteIssuers(d))
      BY <1>2, <1>3, <2>3, <2>6
    <3> DEFINE v == confirmed(wallet, by)
    <3>2. Sound(d, v, rest) /\ (OnChain(d, wallet) => OnChain(d, v))
      BY <1>2, <2>4, <2>6, <3>1, ConfirmedSound
    <3> QED BY <2>1, <2>2, <2>4, <2>6, <3>2 DEF VerificationInv, ShownOnChain
  <2> QED BY <2>5, <2>6
<1>5. CASE ~succeeds(chain, tx) /\ by = "nobody"
  <2>1. wallet' = wallet /\ chain' = chain /\ mempool' = rest
    BY <1>5 DEF MineTransaction
  <2>2. Sound(chain, wallet, rest)
    BY <1>2 DEF VerificationInv, Sound
  <2> QED BY <2>1, <2>2 DEF VerificationInv, ShownOnChain
<1>6. CASE ~succeeds(chain, tx) /\ by # "nobody"
  <2> DEFINE v == failed(wallet)
  <2>1. wallet' = v /\ chain' = chain /\ mempool' = unawaited(rest)
    BY <1>6 DEF MineTransaction
  <2>2. /\ v \in Wallets /\ InFlow(v) /\ v.at \in {"idle", "receiving"}
        /\ \A i \in Issuers : v.reveal[i] # "none" => wallet.reveal[i] # "none"
        /\ v.numComplete = wallet.numComplete /\ v.verified = wallet.verified
    BY <1>1, FailedQuits
  <2> HIDE DEF v, rest
  <2>3. v.numComplete <= wallet.numComplete
    BY <1>1, <2>2 DEF Wallets
  <2>4. Sound(chain, v, unawaited(rest)) /\ (OnChain(chain, wallet) => OnChain(chain, v))
    BY <1>2, <2>2, <2>3, QuitSound DEF VerificationInv
  <2> QED BY <2>1, <2>4 DEF VerificationInv, ShownOnChain
<1> QED BY <1>4, <1>5, <1>6

\* Time passes on the chain.
LEMMA NextBlockSound ==
    ASSUME VerificationInv, NextBlock
    PROVE  VerificationInv' /\ (ShownOnChain => ShownOnChain')
<1> DEFINE d == [chain EXCEPT !.block = chain.block + 1]
<1>1. chain' = d /\ wallet' = wallet /\ mempool' = mempool
  BY DEF NextBlock
<1>2. chain \in Chains /\ Counted(chain) /\ chain.block + 1 \in Nat \ {0}
  BY DEF VerificationInv, Sound, Chains
<1>3. /\ d \in Chains /\ d.issued = chain.issued /\ d.completed = chain.completed
      /\ d.requested = chain.requested /\ d.unselected = chain.unselected
  BY <1>2 DEF Chains
<1> HIDE DEF d
<1>4. chain.completed \in Nat
  BY <1>2 DEF Chains
<1>5. Counted(d) /\ Advances(chain, d)
  BY <1>2, <1>3, <1>4 DEF Counted, Advances, CompleteIssuers
<1>6. Sound(d, wallet, mempool) /\ (OnChain(chain, wallet) => OnChain(d, wallet))
  BY <1>3, <1>5, AdvanceSound DEF VerificationInv, Sound
<1> QED BY <1>1, <1>6 DEF VerificationInv, ShownOnChain

\* An attestation service has worked off a request.
LEMMA HandledSound ==
    ASSUME VerificationInv, NEW i \in Issuers, RevealHandled(i)
    PROVE  VerificationInv' /\ (ShownOnChain => ShownOnChain')
<1>1. wallet \in Wallets /\ wallet.reveal[i] = "revealing" /\ NewCodes(wallet)
  BY DEF VerificationInv, Sound, RevealHandled
<1>2. PICK call \in {"sent", "refused"} : /\ wallet' = [wallet EXCEPT !.reveal[i] = call]
                                          /\ chain' = chain /\ mempool' = mempool
  BY DEF RevealHandled, answers
<1> DEFINE v == [wallet EXCEPT !.reveal[i] = call]
<1>3. /\ v \in Wallets /\ v.codes = wallet.codes /\ v.numComplete = wallet.numComplete
      /\ v.verified = wallet.verified /\ v.at = wallet.at /\ v.account = wallet.account
      /\ v.remaining = wallet.remaining
      /\ \A j \in Issuers : v.reveal[j] = IF j = i THEN call ELSE wallet.reveal[j]
  BY <1>1, <1>2 DEF Wallets, Calls
<1>4. wallet' = v
  BY <1>2
<1> HIDE DEF v
<1>5. NewCodes(v)
  BY <1>1, <1>3 DEF NewCodes
<1>6. Sound(chain, v, mempool) /\ (OnChain(chain, wallet) => OnChain(chain, v))
  BY <1>1, <1>3, <1>5, CallSound DEF VerificationInv
<1> QED BY <1>2, <1>4, <1>6 DEF VerificationInv, ShownOnChain

\* The answer of an attestation service has come, or is lost.
LEMMA RevealSound ==
    ASSUME VerificationInv, NEW i \in Issuers, RevealAnswered(i) \/ RevealLost(i)
    PROVE  VerificationInv' /\ (ShownOnChain => ShownOnChain')
<1>1. wallet \in Wallets /\ wallet.reveal[i] \in {"revealing", "sent", "refused"} /\ NewCodes(wallet)
  BY DEF VerificationInv, Sound, RevealAnswered, RevealLost, answers
<1>2. PICK ok \in BOOLEAN : /\ wallet' = revealed(wallet, i, ok)
                            /\ chain' = chain /\ mempool' = mempool
  BY DEF RevealAnswered, RevealLost, Moves
<1> DEFINE r == IF ok THEN wallet ELSE setVerificationStatus(wallet, "RevealAttemptFailed")
           call == IF Contains(wallet.codes, i) THEN "completing" ELSE "waiting"
           v == [r EXCEPT !.reveal[i] = call]
<1>3. wallet' = v
  BY <1>2 DEF revealed
<1>4. /\ r \in Wallets /\ r.codes = wallet.codes /\ r.numComplete = wallet.numComplete
      /\ r.verified = wallet.verified /\ r.at = wallet.at /\ r.account = wallet.account
      /\ r.reveal = wallet.reveal /\ r.remaining = wallet.remaining
  BY <1>1, StatusFields DEF Statuses
<1>5. /\ call \in {"completing", "waiting"}
      /\ call = "waiting" => ~Contains(wallet.codes, i)
  OBVIOUS
<1> HIDE DEF r, call
<1>6. /\ v \in Wallets /\ v.codes = r.codes /\ v.numComplete = r.numComplete
      /\ v.verified = r.verified /\ v.at = r.at /\ v.account = r.account
      /\ v.remaining = r.remaining
      /\ \A j \in Issuers : v.reveal[j] = IF j = i THEN call ELSE r.reveal[j]
  BY <1>4, <1>5 DEF Wallets, Calls
<1> HIDE DEF v
<1>7. NewCodes(v)
  BY <1>1, <1>4, <1>5, <1>6 DEF NewCodes
<1>8. Sound(chain, v, mempool) /\ (OnChain(chain, wallet) => OnChain(chain, v))
  BY <1>1, <1>4, <1>5, <1>6, <1>7, CallSound DEF VerificationInv
<1> QED BY <1>2, <1>3, <1>8 DEF VerificationInv, ShownOnChain

\* A message comes in.
LEMMA ReceiveSound ==
    ASSUME VerificationInv, NEW i \in Issuers, ReceiveAttestationMessage(i)
    PROVE  VerificationInv' /\ (ShownOnChain => ShownOnChain')
<1> DEFINE v == [wallet EXCEPT !.receiving[i] = wallet.receiving[i] + 1]
<1>1. wallet \in Wallets /\ NewCodes(wallet)
  BY DEF VerificationInv, Sound
<1>2. wallet' = v /\ chain' = chain /\ mempool' = mempool
  BY DEF ReceiveAttestationMessage, Moves
<1>3. wallet.receiving[i] + 1 \in Nat
  BY <1>1 DEF Wallets
<1>4. /\ v \in Wallets /\ v.codes = wallet.codes /\ v.numComplete = wallet.numComplete
      /\ v.verified = wallet.verified /\ v.at = wallet.at /\ v.account = wallet.account
      /\ v.remaining = wallet.remaining /\ v.reveal = wallet.reveal
  BY <1>1, <1>3 DEF Wallets
<1> HIDE DEF v
<1>5. NewCodes(v)
  BY <1>1, <1>4 DEF NewCodes
<1>6. Sound(chain, v, mempool) /\ (OnChain(chain, wallet) => OnChain(chain, v))
  BY <1>4, <1>5, CallSound DEF VerificationInv
<1> QED BY <1>2, <1>6 DEF VerificationInv, ShownOnChain

\* The code of a message is accepted, and the call that waits for it goes on.
LEMMA CheckedSound ==
    ASSUME VerificationInv, NEW i \in Issuers, AttestationCodeChecked(i)
    PROVE  VerificationInv' /\ (ShownOnChain => ShownOnChain')
<1> DEFINE w == [wallet EXCEPT !.receiving[i] = wallet.receiving[i] - 1]
           p == inputAttestationCode(w, i)
           call == IF p.reveal[i] = "waiting" THEN "completing" ELSE p.reveal[i]
           q == [p EXCEPT !.reveal[i] = call]
<1>1. wallet \in Wallets /\ NewCodes(wallet) /\ wallet.receiving[i] > 0
  BY DEF VerificationInv, Sound, AttestationCodeChecked
<1>2. wallet.receiving[i] - 1 \in Nat
  BY <1>1 DEF Wallets
<1>3. /\ w \in Wallets /\ w.codes = wallet.codes /\ w.numComplete = wallet.numComplete
      /\ w.verified = wallet.verified /\ w.at = wallet.at /\ w.account = wallet.account
      /\ w.remaining = wallet.remaining /\ w.reveal = wallet.reveal
  BY <1>1, <1>2 DEF Wallets
<1>4. chain' = chain /\ mempool' = mempool /\ (wallet' = q \/ wallet' = w)
  BY DEF AttestationCodeChecked, Moves
<1> HIDE DEF w
<1>5. /\ p \in Wallets /\ p.numComplete = wallet.numComplete
      /\ p.verified = wallet.verified /\ p.at = wallet.at /\ p.account = wallet.account
      /\ p.remaining = wallet.remaining /\ p.reveal = wallet.reveal
      /\ \A j \in Issuers \ {i} : Contains(p.codes, j) => Contains(wallet.codes, j)
  BY <1>3, InputFields
<1> HIDE DEF p
<1>6. call \in Calls /\ call = IF wallet.reveal[i] = "waiting" THEN "completing"
                                                               ELSE wallet.reveal[i]
  BY <1>1, <1>5 DEF Wallets, Calls
<1> HIDE DEF call
<1>7. /\ q \in Wallets /\ q.codes = p.codes /\ q.numComplete = p.numComplete
      /\ q.verified = p.verified /\ q.at = p.at /\ q.account = p.account
      /\ q.remaining = p.remaining
      /\ \A j \in Issuers : q.reveal[j] = IF j = i THEN call ELSE p.reveal[j]
  BY <1>5, <1>6 DEF Wallets
<1> HIDE DEF q
<1>8. NewCodes(q) /\ NewCodes(w)
  BY <1>1, <1>3, <1>5, <1>6, <1>7 DEF NewCodes
<1>9. Sound(chain, w, mempool) /\ (OnChain(chain, wallet) => OnChain(chain, w))
  BY <1>3, <1>8, CallSound DEF VerificationInv
<1>10. \A j \in Issuers : \/ q.reveal[j] = wallet.reveal[j]
                          \/ /\ wallet.reveal[j] = "waiting"
                             /\ q.reveal[j] = "completing"
  BY <1>5, <1>6, <1>7
<1>11. Sound(chain, q, mempool) /\ (OnChain(chain, wallet) => OnChain(chain, q))
  BY <1>5, <1>7, <1>8, <1>10, CallSound DEF VerificationInv
<1> QED BY <1>4, <1>9, <1>11 DEF VerificationInv, ShownOnChain

\* Every step keeps what is sound, and in time what is shown.
LEMMA VerificationStep ==
    VerificationInv /\ [Next]_vars
        => /\ VerificationInv'
           /\ ShownOnChain /\ CompletedInTime /\ "gas" \notin Faults => ShownOnChain'
<1> SUFFICES ASSUME VerificationInv, [Next]_vars
             PROVE  /\ VerificationInv'
                    /\ ShownOnChain /\ CompletedInTime /\ "gas" \notin Faults => ShownOnChain'
  OBVIOUS
<1>1. CASE UNCHANGED <<chain, wallet, mempool>>
  BY <1>1 DEF VerificationInv, ShownOnChain
<1>2. CASE UNCHANGED vars
  BY <1>1, <1>2 DEF vars
<1>3. CASE StartVerification
  BY <1>3, StartSound
<1>4. CASE CancelVerification \/ VerificationTimesOut \/ Restart
  BY <1>4, CancelSound
<1>5. CASE RevokeVerification
  BY <1>5, RevokeSound
<1>6. CASE Prepare
  BY <1>6, PrepareSound
<1>7. CASE GetStatus
  BY <1>7, GetStatusSound
<1>8. CASE FetchAttestations
  BY <1>8, FetchSound
<1>18. CASE CheckAccount
  BY <1>18, CheckAccountSound
<1>9. CASE CheckUnselectedRequest \/ BeginWaiting \/ FinishWaiting
  BY <1>9, WaitSound
<1>10. CASE FlowThrows
  BY <1>10, FlowThrowsSound
<1>11. CASE \E by \in Sagas : SendTransaction(by)
  BY <1>11, SendSound
<1>12. CASE MineTransaction
  BY <1>12, MineSound
<1>13. CASE NextBlock
  BY <1>13, NextBlockSound
<1>19. CASE \E i \in Issuers : RevealHandled(i)
  BY <1>19, HandledSound
<1>14. CASE \E i \in Issuers : RevealAnswered(i) \/ RevealLost(i)
  BY <1>14, RevealSound
<1>15. CASE \E i \in Issuers : AbandonedRevealHandled(i)
  BY <1>1, <1>15 DEF AbandonedRevealHandled
<1>16. CASE \E i \in Issuers : ReceiveAttestationMessage(i)
  BY <1>16, ReceiveSound
<1>17. CASE \E i \in Issuers : AttestationCodeChecked(i)
  BY <1>17, CheckedSound
<1> QED BY <1>2, <1>3, <1>4, <1>5, <1>6, <1>7, <1>8, <1>9, <1>10, <1>11, <1>12, <1>13, <1>14,
           <1>15, <1>16, <1>17, <1>18, <1>19 DEF Next

\* A code that has arrived is used: no call of the wallet waits for a code that is in the
\* store, whenever the code came and however attempts were given up (verification.ts,
\* attestationCodeReceiver and waitForAttestationCode).
THEOREM ArrivedCodesAreUsed == Spec => []WaitedForCodeIsNew
<1>1. Init => VerificationInv
  BY VerificationInit
<1>2. VerificationInv /\ [Next]_vars => VerificationInv'
  BY VerificationStep
<1>3. VerificationInv => WaitedForCodeIsNew
  BY DEF VerificationInv, Sound, NewCodes, WaitedForCodeIsNew
<1> QED BY <1>1, <1>2, <1>3, PTL DEF Spec

\* As long as no attestation expires on the way and no transaction runs out of gas, the
\* progress that the wallet shows is never ahead of the contracts, for any number of
\* issuers, attempts and blocks and whatever else fails (reducer.ts, COMPLETE_ATTESTATION_CODE).
THEOREM ProgressIsOnChain ==
    ASSUME "gas" \notin Faults
    PROVE  Spec /\ []CompletedInTime => []ProgressOnChain
<1>1. Init => VerificationInv /\ ShownOnChain
  BY VerificationInit
<1>2. VerificationInv /\ ShownOnChain /\ CompletedInTime /\ [Next]_vars
         => VerificationInv' /\ ShownOnChain'
  BY VerificationStep
<1>3. VerificationInv /\ ShownOnChain => ProgressOnChain
  <2> SUFFICES ASSUME VerificationInv, ShownOnChain PROVE ProgressOnChain
    OBVIOUS
  <2>1. wallet.numComplete <= chain.completed
    BY CountedIsComplete DEF VerificationInv, ShownOnChain
  <2>2. chain.completed = Cardinality(CompleteIssuers(chain))
    BY DEF VerificationInv, Sound, Counted
  <2> QED BY <2>1, <2>2 DEF ProgressOnChain, CompleteIssuers
<1> QED BY <1>1, <1>2, <1>3, PTL DEF Spec

\* So many requests that the attestations required are still the fraction of them that the
\* contracts ask for.
RequestsCovered == chain.requested <= NumRequired * ThresholdInverse

\* As long as besides no more attestations were requested than those required make up for,
\* a number that the wallet calls verified is so for the contracts: the flow itself does not
\* look at the fraction of the requested attestations that are complete (verification.ts,
\* doVerificationFlow).
THEOREM VerifiedIsOnChain ==
    ASSUME "gas" \notin Faults
    PROVE  Spec /\ []CompletedInTime /\ []RequestsCovered => []VerifiedOnChain
<1>1. Init => VerificationInv /\ ShownOnChain
  BY VerificationInit
<1>2. VerificationInv /\ ShownOnChain /\ CompletedInTime /\ [Next]_vars
         => VerificationInv' /\ ShownOnChain'
  BY VerificationStep
<1>3. VerificationInv /\ ShownOnChain /\ RequestsCovered => VerifiedOnChain
  <2> SUFFICES ASSUME VerificationInv, ShownOnChain, RequestsCovered, wallet.verified
               PROVE  isVerified(chain)
    BY DEF VerifiedOnChain
  <2>1. /\ chain.completed \in Nat /\ chain.requested \in Nat
        /\ NumRequired \in Nat \ {0} /\ ThresholdInverse \in Nat \ {0}
    BY AttestationsAssumption DEF VerificationInv, Sound, Chains
  <2>2. chain.completed >= NumRequired
    BY DEF ShownOnChain, OnChain
  <2>3. chain.requested >= 1
    <3>1. Cardinality(CompleteIssuers(chain)) # 0
      BY <2>1, <2>2 DEF VerificationInv, Sound, Counted
    <3>2. CompleteIssuers(chain) # {}
      BY <3>1, FS_EmptySet
    <3>3. \E i \in Issuers : chain.issued[i].status # "None"
      BY <3>2 DEF CompleteIssuers
    <3> QED BY <3>3 DEF VerificationInv, Sound, Counted
  <2>4. chain.completed * ThresholdInverse >= NumRequired * ThresholdInverse
    <3>1. PICK more \in Nat : chain.completed = NumRequired + more
      <4>1. chain.completed - NumRequired \in Nat
        BY <2>1, <2>2
      <4>2. chain.completed = NumRequired + (chain.completed - NumRequired)
        BY <2>1
      <4> QED BY <4>1, <4>2
    <3>2. chain.completed * ThresholdInverse
             = NumRequired * ThresholdInverse + more * ThresholdInverse
      BY <2>1, <3>1
    <3>3. more * ThresholdInverse \in Nat /\ NumRequired * ThresholdInverse \in Nat
      BY <2>1, <3>1
    <3> QED BY <3>2, <3>3
  <2>5. NumRequired * ThresholdInverse \in Nat /\ chain.completed * ThresholdInverse \in Nat
    BY <2>1
  <2>6. chain.completed * ThresholdInverse >= chain.requested
    BY <2>1, <2>4, <2>5 DEF RequestsCovered
  <2> QED BY <2>1, <2>2, <2>3, <2>6 DEF isVerified, numAttestationsRemaining
<1> QED BY <1>1, <1>2, <1>3, PTL DEF Spec

(***************************************************************************)
(* Secure Send                                                             *)
(***************************************************************************)
LookupTypeOK ==
    /\ onChain \subseteq Addresses
    /\ numbers \in [defined : BOOLEAN, addresses : SUBSET Addresses]
    /\ secureSend \in [address : Addresses \cup {0}, required : BOOLEAN]
    /\ fetches \in [Fetches -> [at : {"idle", "looking", "found"},
                                old : SUBSET Addresses, found : SUBSET Addresses]]
    /\ payment \in [to : Addresses \cup {0}, among : SUBSET Addresses]
    /\ chosen \subseteq Addresses
    /\ offered \subseteq Addresses
    /\ merged \subseteq Addresses
    /\ comments \subseteq Addresses
    /\ overlapped \in BOOLEAN

IdleKnowsNothing == \A f \in Fetches \ running : fetches[f] = Idle

ValidatedWasChosen == secureSend.address \in chosen \cup {0}

\* A lookup that nothing overlaps found the store cleared until it ends.
AloneOnClearedStore ==
    ~overlapped => \A f \in running : running = {f} /\ numbers.addresses = {}

\* What a lone lookup holds was all offered when the address that stands was validated, or
\* was there when a comment came since.
HeldWereOffered ==
    ~overlapped /\ secureSend.address # 0
        => \A f \in running : Cardinality(fetches[f].old) >= 2 => fetches[f].old \ merged \subseteq offered

LookupInv ==
    /\ LookupTypeOK /\ IdleKnowsNothing
    /\ ValidatedWasChosen /\ PaidAddressWasChosen
    /\ AloneOnClearedStore /\ HeldWereOffered /\ ChosenAmongAllKnown

-----------------------------------------------------------------------------

\* Sets of addresses are finite, so that their sizes are numbers.
LEMMA SizeOfKnown ==
    ASSUME NEW S \in SUBSET Addresses
    PROVE  /\ IsFiniteSet(S) /\ Cardinality(S) \in Nat
           /\ Cardinality(S) = 0 <=> S = {}
<1>1. IsFiniteSet(S)
  BY FS_Subset, AddressesAssumption
<1> QED BY <1>1, FS_CardinalityType, FS_EmptySet

\* A set of addresses that lies within another is no larger.
LEMMA SizeMonotone ==
    ASSUME NEW S \in SUBSET Addresses, NEW T \in SUBSET S
    PROVE  Cardinality(T) <= Cardinality(S)
<1>1. IsFiniteSet(S)
  BY SizeOfKnown
<1> QED BY <1>1, FS_Subset

\* A lookup that asks for no validation found nothing that was not known before.
LEMMA NothingNew ==
    ASSUME NEW old \in SUBSET Addresses, NEW new \in SUBSET Addresses,
           Cardinality(new) >= 2, ~checkIfValidationRequired(old, new)
    PROVE  new \subseteq old /\ Cardinality(old) >= 2
<1>1. new \subseteq old
  BY DEF checkIfValidationRequired, newAddressesAdded
<1> QED BY <1>1, SizeMonotone, SizeOfKnown

\* What is paid is an address or, for an invite, 0.
LEMMA AddressOfNumberType ==
    ASSUME LookupTypeOK
    PROVE  /\ addressOfNumber \in Addresses \cup {0}
           /\ Cardinality(numbers.addresses) >= 2 => addressOfNumber = secureSend.address
<1> DEFINE S == numbers.addresses
<1>1. S \in SUBSET Addresses /\ secureSend.address \in Addresses \cup {0}
  BY DEF LookupTypeOK
<1>2. Cardinality(S) \in Nat /\ (Cardinality(S) = 0 <=> S = {}) /\ IsFiniteSet(S)
  BY <1>1, SizeOfKnown
<1>3. CASE S = {}
  <2>1. addressOfNumber = 0
    BY <1>3 DEF addressOfNumber
  <2> QED BY <1>2, <1>3, <2>1
<1>4. CASE Cardinality(S) = 1
  <2>1. PICK x : S = {x}
    BY <1>2, <1>4, FS_Singleton
  <2>2. x \in Addresses /\ x \in Nat
    BY <1>1, <2>1, AddressesAssumption
  <2>3. minimum(S) \in S
    BY <2>1, <2>2 DEF minimum
  <2>4. addressOfNumber = minimum(S)
    BY <1>2, <1>4 DEF addressOfNumber
  <2> QED BY <1>1, <1>4, <2>3, <2>4
<1>5. CASE Cardinality(S) > 1
  <2>1. addressOfNumber = secureSend.address
    BY <1>2, <1>5 DEF addressOfNumber
  <2> QED BY <1>1, <2>1
<1> QED BY <1>2, <1>3, <1>4, <1>5

-----------------------------------------------------------------------------

\* The invariant holds when the wallet is installed.
LEMMA LookupInitInvariant == LookupInit => LookupInv
<1> SUFFICES ASSUME LookupInit PROVE LookupInv
  OBVIOUS
<1>1. Cardinality({}) = 0
  BY FS_EmptySet
<1>2. LookupTypeOK
  <2>1. Idle \in [at : {"idle", "looking", "found"}, old : SUBSET Addresses, found : SUBSET Addresses]
    BY DEF Idle
  <2> QED BY <2>1 DEF LookupInit, LookupTypeOK, Unchecked, NoPayment, NoMapping
<1>3. PaidAddressWasChosen /\ ChosenAmongAllKnown
  BY <1>1 DEF LookupInit, Unchecked, NoPayment, PaidAddressWasChosen, ChosenAmongAllKnown
<1>4. IdleKnowsNothing /\ ValidatedWasChosen /\ AloneOnClearedStore /\ HeldWereOffered
  BY DEF LookupInit, Idle, NoMapping, IdleKnowsNothing, ValidatedWasChosen, AloneOnClearedStore,
         HeldWereOffered, running
<1> QED BY <1>2, <1>3, <1>4 DEF LookupInv

\* Every step keeps it.
LEMMA LookupNextInvariant == LookupInv /\ [LookupNext]_lookupVars => LookupInv'
<1> SUFFICES ASSUME LookupInv, [LookupNext]_lookupVars PROVE LookupInv'
  OBVIOUS
<1> USE DEF LookupInv
<1>a. \A f \in Fetches : fetches[f].old \in SUBSET Addresses /\ fetches[f].found \in SUBSET Addresses
  BY DEF LookupTypeOK
<1>b. Cardinality({}) = 0
  BY FS_EmptySet
<1>1. CASE ChangeOnChain
  <2>1. LookupTypeOK'
    BY <1>1 DEF ChangeOnChain, LookupTypeOK, storeVars, sagaVars, commentVars, userVars
  <2>2. UNCHANGED <<numbers, secureSend, fetches, payment, chosen, offered, merged, overlapped>>
    BY <1>1 DEF ChangeOnChain, storeVars, sagaVars, userVars
  <2> QED BY <2>1, <2>2 DEF IdleKnowsNothing, ValidatedWasChosen, PaidAddressWasChosen,
          AloneOnClearedStore, HeldWereOffered, ChosenAmongAllKnown, running
<1>2. ASSUME NEW f \in Fetches, GetAddresses(f) PROVE LookupInv'
  <2>1. LookupTypeOK'
    <3>1. fetches' \in [Fetches -> [at : {"idle", "looking", "found"},
                                    old : SUBSET Addresses, found : SUBSET Addresses]]
      <4>1. fetches' = [fetches EXCEPT ![f].at = "found", ![f].found = onChain]
        BY <1>2 DEF GetAddresses
      <4>2. /\ onChain \subseteq Addresses
            /\ fetches \in [Fetches -> [at : {"idle", "looking", "found"},
                                       old : SUBSET Addresses, found : SUBSET Addresses]]
        BY DEF LookupTypeOK
      <4>3. [fetches[f] EXCEPT !.at = "found", !.found = onChain]
               \in [at : {"idle", "looking", "found"},
                    old : SUBSET Addresses, found : SUBSET Addresses]
        BY <4>2
      <4> QED BY <4>1, <4>2, <4>3
    <3>2. UNCHANGED <<onChain, numbers, secureSend, comments, payment, chosen, offered, merged,
                      overlapped>>
      BY <1>2 DEF GetAddresses, chainVars, storeVars, commentVars, userVars
    <3> QED BY <3>1, <3>2 DEF LookupTypeOK
  <2>2. UNCHANGED <<numbers, secureSend, payment, chosen, offered, merged, overlapped>>
    BY <1>2 DEF GetAddresses, storeVars, userVars
  <2>3. running' = running /\ \A g \in Fetches : fetches'[g].old = fetches[g].old
    BY <1>2 DEF GetAddresses, running, LookupTypeOK
  <2>4. IdleKnowsNothing'
    BY <1>2, <2>3 DEF GetAddresses, IdleKnowsNothing, running, LookupTypeOK
  <2>5. ValidatedWasChosen' /\ PaidAddressWasChosen'
    BY <2>2 DEF ValidatedWasChosen, PaidAddressWasChosen
  <2>6. AloneOnClearedStore' /\ HeldWereOffered' /\ ChosenAmongAllKnown'
    <3>1. running \subseteq Fetches
      BY DEF running
    <3> QED BY <2>2, <2>3, <3>1 DEF AloneOnClearedStore, HeldWereOffered, ChosenAmongAllKnown
  <2> QED BY <2>1, <2>4, <2>5, <2>6
<1>3. ASSUME NEW f \in Fetches, fetchThrows(f) PROVE LookupInv'
  <2>1. LookupTypeOK'
    BY <1>3 DEF fetchThrows, LookupTypeOK, Idle, chainVars, storeVars, commentVars, userVars
  <2>2. UNCHANGED <<numbers, secureSend, payment, chosen, offered, merged, overlapped>>
    BY <1>3 DEF fetchThrows, storeVars, userVars
  <2>3. /\ fetches' = [fetches EXCEPT ![f] = Idle]
        /\ running' = running \ {f}
    BY <1>3 DEF fetchThrows, running, LookupTypeOK, Idle
  <2>4. IdleKnowsNothing'
    BY <2>3 DEF IdleKnowsNothing, running, LookupTypeOK
  <2>5. ValidatedWasChosen' /\ PaidAddressWasChosen'
    BY <2>2 DEF ValidatedWasChosen, PaidAddressWasChosen
  <2>6. AloneOnClearedStore' /\ HeldWereOffered' /\ ChosenAmongAllKnown'
    <3>1. \A g \in running' : g \in running /\ fetches'[g] = fetches[g]
      BY <2>3 DEF running, LookupTypeOK
    <3>2. AloneOnClearedStore'
      BY <2>2, <2>3, <3>1 DEF AloneOnClearedStore
    <3> QED BY <2>2, <3>1, <3>2 DEF HeldWereOffered, ChosenAmongAllKnown
  <2> QED BY <2>1, <2>4, <2>5, <2>6
<1>4. ASSUME NEW f \in Fetches, UpdateAddresses(f) PROVE LookupInv'
  <2> DEFINE old == fetches[f].old
             new == fetches[f].found
  <2>0. old \in SUBSET Addresses /\ new \in SUBSET Addresses
    BY <1>a
  <2>1. /\ fetches' = [fetches EXCEPT ![f] = Idle]
        /\ running' = running \ {f}
        /\ f \in running
    BY <1>4 DEF UpdateAddresses, running, LookupTypeOK, Idle
  <2>2. /\ numbers' = [defined |-> TRUE, addresses |-> new]
        /\ secureSend' = IF checkIfValidationRequired(old, new) THEN requireSecureSend ELSE secureSend
        /\ merged' = merged \cap new
        /\ UNCHANGED <<onChain, comments, payment, chosen, offered, overlapped>>
    BY <1>4 DEF UpdateAddresses, chainVars, commentVars, userVars
  <2>3. requireSecureSend = [address |-> 0, required |-> TRUE]
    BY DEF requireSecureSend
  <2>4. Cardinality(new) >= 2 /\ ~checkIfValidationRequired(old, new)
        => new \subseteq old /\ Cardinality(old) >= 2
    BY <2>0, NothingNew
  <2> HIDE DEF old, new
  <2>5. LookupTypeOK'
    <3>1. fetches' \in [Fetches -> [at : {"idle", "looking", "found"},
                                    old : SUBSET Addresses, found : SUBSET Addresses]]
      BY <2>1 DEF LookupTypeOK, Idle
    <3>2. secureSend' \in [address : Addresses \cup {0}, required : BOOLEAN]
      BY <2>2, <2>3 DEF LookupTypeOK
    <3> QED BY <2>0, <2>2, <3>1, <3>2 DEF LookupTypeOK
  <2>8. IdleKnowsNothing'
    BY <2>1 DEF IdleKnowsNothing, running, LookupTypeOK
  <2>9. ValidatedWasChosen' /\ PaidAddressWasChosen'
    BY <2>2, <2>3 DEF ValidatedWasChosen, PaidAddressWasChosen
  <2>10. ~overlapped => running' = {}
    BY <2>1 DEF AloneOnClearedStore
  <2>11. AloneOnClearedStore' /\ HeldWereOffered'
    BY <2>2, <2>10 DEF AloneOnClearedStore, HeldWereOffered
  <2>12. ChosenAmongAllKnown'
    <3> SUFFICES ASSUME ~overlapped, secureSend'.address # 0, Cardinality(new) >= 2
                 PROVE  new \ merged' \subseteq offered
      BY <2>2 DEF ChosenAmongAllKnown
    <3>1. ~checkIfValidationRequired(old, new) /\ secureSend' = secureSend
      BY <2>2, <2>3
    <3>2. new \ merged' \subseteq old \ merged
      BY <2>2, <2>4, <3>1
    <3> QED BY <2>1, <2>4, <3>1, <3>2 DEF HeldWereOffered, old
  <2> QED BY <2>5, <2>8, <2>9, <2>11, <2>12
<1>5. ASSUME NEW s \in {"amount", "requests"}, Open(s) PROVE LookupInv'
  <2>1. PICK f \in Fetches \ running :
            fetches' = [fetches EXCEPT ![f] =
                            [at |-> "looking", old |-> numbers.addresses, found |-> {}]]
    BY <1>5 DEF Open, FetchAddresses
  <2>2. /\ numbers' = [defined |-> FALSE, addresses |-> {}]
        /\ overlapped' = (overlapped \/ running # {})
        /\ payment' = NoPayment
        /\ UNCHANGED <<onChain, secureSend, comments, chosen, offered, merged>>
    BY <1>5 DEF Open, FetchAddresses, chainVars, commentVars, Unchecked
  <2>3. running' = running \cup {f}
    BY <2>1 DEF running, LookupTypeOK
  <2>4. LookupTypeOK'
    BY <2>1, <2>2 DEF LookupTypeOK, NoPayment
  <2>6. IdleKnowsNothing'
    BY <2>1 DEF IdleKnowsNothing, running, LookupTypeOK
  <2>7. ValidatedWasChosen' /\ PaidAddressWasChosen' /\ ChosenAmongAllKnown'
    BY <2>2, <1>b DEF ValidatedWasChosen, PaidAddressWasChosen, ChosenAmongAllKnown, NoPayment
  <2>8. ~overlapped' => running' = {f} /\ fetches'[f].old = numbers.addresses
    BY <2>1, <2>2, <2>3 DEF LookupTypeOK
  <2>9. AloneOnClearedStore'
    BY <2>2, <2>8 DEF AloneOnClearedStore
  <2>10. HeldWereOffered'
    BY <2>2, <2>8 DEF HeldWereOffered, ChosenAmongAllKnown
  <2> QED BY <2>4, <2>6, <2>7, <2>9, <2>10
<1>6. CASE Continue \/ EditAddress
  <2>1. UNCHANGED <<onChain, numbers, secureSend, fetches, comments, payment, chosen, offered,
                    merged, overlapped>>
    BY <1>6 DEF Continue, EditAddress, chainVars, storeVars, sagaVars, commentVars, userVars
  <2> QED BY <2>1 DEF LookupTypeOK, IdleKnowsNothing, ValidatedWasChosen, PaidAddressWasChosen,
          AloneOnClearedStore, HeldWereOffered, ChosenAmongAllKnown, running
<1>7. CASE SendPaymentOrInvite
  <2>1. PICK to \in getAddressFromPhoneNumber :
            payment' = [to |-> to, among |-> numbers.addresses]
    BY <1>7 DEF SendPaymentOrInvite
  <2>2. UNCHANGED <<onChain, numbers, secureSend, fetches, comments, chosen, offered, merged,
                    overlapped>>
    BY <1>7 DEF SendPaymentOrInvite, chainVars, storeVars, sagaVars, commentVars
  <2>3. to = addressOfNumber
    BY <2>1 DEF getAddressFromPhoneNumber
  <2>4. LookupTypeOK'
    BY <2>1, <2>2, <2>3, AddressOfNumberType DEF LookupTypeOK
  <2>5. PaidAddressWasChosen'
    <3>1. Cardinality(numbers.addresses) >= 2 => to = secureSend.address
      BY <2>3, AddressOfNumberType
    <3>2. payment'.to = to /\ payment'.among = numbers.addresses
      BY <2>1
    <3> QED BY <2>2, <3>1, <3>2 DEF PaidAddressWasChosen, ValidatedWasChosen
  <2> QED BY <2>2, <2>4, <2>5 DEF IdleKnowsNothing, ValidatedWasChosen, AloneOnClearedStore,
          HeldWereOffered, ChosenAmongAllKnown, running
<1>8. CASE RestartApp
  <2>1. fetches' = [f \in Fetches |-> Idle] /\ running' = {}
    BY <1>8 DEF RestartApp, running, Idle
  <2>2. UNCHANGED <<onChain, numbers, secureSend, payment, chosen, offered, merged, overlapped>>
    BY <1>8 DEF RestartApp, chainVars, storeVars, userVars
  <2>3. LookupTypeOK'
    BY <1>8, <2>1, <2>2 DEF RestartApp, LookupTypeOK, Idle
  <2> QED BY <2>1, <2>2, <2>3 DEF IdleKnowsNothing, ValidatedWasChosen,
          PaidAddressWasChosen, AloneOnClearedStore, HeldWereOffered, ChosenAmongAllKnown
<1>9. ASSUME NEW a \in Addresses, ValidateRecipientAddress(a) PROVE LookupInv'
  <2>1. /\ a \in numbers.addresses
        /\ secureSend' = [address |-> a, required |-> FALSE]
        /\ chosen' = chosen \cup {a}
        /\ offered' = numbers.addresses
        /\ merged' = {}
        /\ UNCHANGED <<onChain, numbers, fetches, comments, payment, overlapped>>
    BY <1>9 DEF ValidateRecipientAddress, chainVars, sagaVars, commentVars
  <2>2. LookupTypeOK' /\ a # 0
    BY <2>1, AddressesAssumption DEF LookupTypeOK
  <2>3. IdleKnowsNothing'
    BY <2>1 DEF IdleKnowsNothing, running
  <2>4. ValidatedWasChosen' /\ PaidAddressWasChosen' /\ ChosenAmongAllKnown'
    BY <2>1 DEF ValidatedWasChosen, PaidAddressWasChosen, ChosenAmongAllKnown
  <2>5. ~overlapped => running = {}
    BY <2>1 DEF AloneOnClearedStore
  <2>6. AloneOnClearedStore' /\ HeldWereOffered'
    BY <2>1, <2>5 DEF AloneOnClearedStore, HeldWereOffered, running
  <2> QED BY <2>2, <2>3, <2>4, <2>6
<1>10. ASSUME NEW a \in Addresses, verifyIdentityMetadata(a) PROVE LookupInv'
  <2>1. /\ comments' \subseteq Addresses
        /\ UNCHANGED <<onChain, numbers, secureSend, fetches, payment, chosen, offered, merged,
                       overlapped>>
    BY <1>10 DEF verifyIdentityMetadata, chainVars, storeVars, userVars, LookupTypeOK
  <2> QED BY <2>1 DEF LookupTypeOK, IdleKnowsNothing, ValidatedWasChosen, PaidAddressWasChosen,
          AloneOnClearedStore, HeldWereOffered, ChosenAmongAllKnown, running
<1>11. ASSUME NEW a \in Addresses, updatePhoneNumberMappings(a) PROVE LookupInv'
  <2>1. /\ numbers' = [defined |-> TRUE, addresses |-> numbers.addresses \cup {a}]
        /\ comments' = comments \ {a} /\ merged' = numbers'.addresses
        /\ overlapped' = (overlapped \/ running # {})
        /\ UNCHANGED <<onChain, secureSend, fetches, payment, chosen, offered>>
    BY <1>11 DEF updatePhoneNumberMappings, chainVars, userVars
  <2>2. LookupTypeOK'
    BY <2>1 DEF LookupTypeOK
  <2>3. IdleKnowsNothing' /\ ValidatedWasChosen' /\ PaidAddressWasChosen' /\ ChosenAmongAllKnown'
    BY <2>1 DEF IdleKnowsNothing, ValidatedWasChosen, PaidAddressWasChosen, ChosenAmongAllKnown,
       running
  <2>4. ~overlapped' => running' = {}
    BY <2>1 DEF running
  <2> QED BY <2>2, <2>3, <2>4 DEF AloneOnClearedStore, HeldWereOffered
<1>12. CASE UNCHANGED lookupVars
  <2>1. UNCHANGED <<onChain, numbers, secureSend, fetches, comments, payment, chosen, offered,
                    merged, overlapped>>
    BY <1>12 DEF lookupVars, chainVars, storeVars, sagaVars, commentVars, userVars
  <2> QED BY <2>1 DEF LookupTypeOK, IdleKnowsNothing, ValidatedWasChosen, PaidAddressWasChosen,
          AloneOnClearedStore, HeldWereOffered, ChosenAmongAllKnown, running
<1>13. ASSUME NEW f \in Fetches, GetAddressesFails(f) \/ CheckValidationFails(f) PROVE LookupInv'
  BY <1>3, <1>13 DEF GetAddressesFails, CheckValidationFails
<1> QED BY <1>1, <1>2, <1>4, <1>5, <1>6, <1>7, <1>8, <1>9, <1>10, <1>11, <1>12, <1>13
        DEF LookupNext

\* So it holds in every behaviour.
THEOREM LookupInvariantHolds == LookupSpec => []LookupInv
<1> QED BY LookupInitInvariant, LookupNextInvariant, PTL DEF LookupSpec

-----------------------------------------------------------------------------

\* However lookups and comments overlap, fail or are cut off by a restart, a lookup that
\* stores several addresses leaves one of them validated or the user asked to: those that
\* are not new either were asked about or have it fail (secureSend.ts:32, 51-60).
THEOREM SecureSendAsked == LookupSpec => SeveralAreSecured
<1>1. ASSUME LookupTypeOK, NEW f \in Fetches,
             UpdateAddresses(f), Cardinality(numbers'.addresses) >= 2
      PROVE  secured'
  <2> DEFINE old == fetches[f].old
             new == fetches[f].found
  <2>1. /\ Cardinality(new) >= 2 /\ ~bypassCheckThrows(old, new)
        /\ secureSend' = IF checkIfValidationRequired(old, new) THEN requireSecureSend ELSE secureSend
    BY <1>1 DEF UpdateAddresses
  <2> HIDE DEF old, new
  <2>2. CASE checkIfValidationRequired(old, new)
    BY <2>1, <2>2 DEF requireSecureSend, secured
  <2>3. CASE ~checkIfValidationRequired(old, new)
    <3>1. secureSend' = secureSend /\ secureSend # NoMapping
      BY <2>1, <2>3 DEF checkIfValidationRequired, bypassCheckThrows
    <3> QED BY <1>1, <3>1 DEF LookupTypeOK, NoMapping, secured
  <2> QED BY <2>2, <2>3
<1>2. LookupInv => [\A f \in Fetches :
                       UpdateAddresses(f) /\ Cardinality(numbers'.addresses) >= 2
                         => secured']_lookupVars
  BY <1>1 DEF LookupInv
<1> QED BY <1>2, LookupInvariantHolds, PTL DEF SeveralAreSecured

\* Among several addresses a payment goes to one the user has validated.
THEOREM PaymentsGoToChosen == LookupSpec => []PaidAddressWasChosen
<1>1. LookupInv => PaidAddressWasChosen
  BY DEF LookupInv
<1> QED BY <1>1, LookupInvariantHolds, PTL

\* While nothing overlaps a lookup, the address that stands was chosen with all the known
\* ones in view, but those known by the merge of a comment: a new one that a lookup finds
\* takes it away.
THEOREM NewAddressAsksAgain == LookupSpec => []ChosenAmongAllKnown
<1>1. LookupInv => ChosenAmongAllKnown
  BY DEF LookupInv
<1> QED BY <1>1, LookupInvariantHolds, PTL

=============================================================================
