------------------------ MODULE PrivateHashingProofs ------------------------
(***************************************************************************)
(* Proofs about the phone number privacy service and the wallets that ask  *)
(* it, for any numbers of signers, lookups and requests and any threshold: *)
(* a salt is backed by a threshold of good signatures, an account gets no  *)
(* more signatures than its quota but by races and lost counts, a lookup   *)
(* is refused only when the quota is spent, and no request is forgotten.   *)
(*                                                                         *)
(* The handlers of a signer read the quota, check it and count the query   *)
(* in steps of their own.  What holds between these steps is that a count  *)
(* is the number of signatures counted, and that of the signatures still   *)
(* to be counted one at most was given with no other around.               *)
(***************************************************************************)
EXTENDS PrivateHashing, FiniteSetTheorems, TLAPS

SignedAt == {"signed", "insert", "increment", "ok"}

UncountedAt == {"signed", "insert", "increment"}

Handler ==
    [at : {"away", "sent", "quota", "forbidden", "failed"} \cup SignedAt, quota : Int,
     raced : BOOLEAN, valid : BOOLEAN, counted : BOOLEAN]

Reception ==
    [pending : SUBSET Signers, combining : SUBSET Signers, successes : SUBSET Signers,
     code403 : Nat, code500 : Nat, answer : {"none", "salt", "quota", "error"}]

Lookup ==
    [at : {"idle", "posted", "screen", "buying", "bought", "failed", "done"}, number : Numbers,
     request : Nat, paid : Nat, bought : BOOLEAN]

TypeInv ==
    /\ standing \in {"verified", "balance", "neither"}
    /\ transactionCount \in Nat
    /\ accounts \in [Signers -> [exists : BOOLEAN, numLookups : Nat]]
    /\ signing \in [Requests -> [Signers -> Handler]]
    /\ combiner \in [Requests -> Reception]
    /\ saltCache \in [Numbers -> {"none", "service", "comment"}]
    /\ lookups \in [Lookups -> Lookup]
    /\ sent \in 0..MaxRequests

\* The signatures of s that are counted, and those that count although nothing went wrong.
counted(s) == {r \in Requests : signing[r][s].counted}

clean(s) == signed(s) \ (raced(s) \cup lost(s))

SignerInv ==
    \A s \in Signers :
        /\ accounts[s].numLookups = Cardinality(counted(s))
        /\ Cardinality(clean(s)) <= getQueryQuota(transactionCount)
        /\ \A r \in Requests :
              /\ signing[r][s].counted => signing[r][s].at = "ok"
              /\ signing[r][s].at = "quota" =>
                    signing[r][s].quota <= getQueryQuota(transactionCount)

\* What the combiner has received, and what it makes of it.
good(r) == {s \in Signers : r \in signed(s) /\ signing[r][s].valid}

Combined(r, c) ==
    /\ c.combining \subseteq c.pending
    /\ \A s \in c.successes : signing[r][s].at = "ok"
    /\ c.code403 > 0 => \E s \in Signers : signing[r][s].at = "forbidden"
    /\ c.answer = "quota" => \E s \in Signers : signing[r][s].at = "forbidden"
    /\ c.answer = "salt" => Cardinality(good(r)) >= Threshold
    /\ \/ c.answer # "none" \/ c.combining # {}
       \/ Cardinality(c.successes) < Threshold
       \/ \E s \in c.successes : ~signing[r][s].valid

CombinerInv == \A r \in Requests : Combined(r, combiner[r])

\* A request that is not sent yet is nowhere; one that is sent has an answer or awaits one.
SentInv ==
    \A r \in Requests :
        r > sent => /\ combiner[r] = NotReceived
                    /\ signing[r] = [s \in Signers |-> NotSent]

\* A handler refuses only what is worth n queries.
Owes(r, s, n) ==
    /\ signing[r][s].at = "quota" => signing[r][s].quota >= n
    /\ signing[r][s].at = "forbidden" => Cardinality(signed(s)) >= n

\* What the account had paid for by the time a lookup was sent.
due(l) == getQueryQuota(lookups[l].paid)

LookupInv ==
    \A l \in Lookups :
        /\ lookups[l].paid <= transactionCount
        /\ lookups[l].at \in {"posted", "screen"} =>
              /\ lookups[l].request \in 1..sent
              /\ \A s \in Signers : Owes(lookups[l].request, s, due(l))

\* A lookup of the number has been answered with a salt.
Answered(n) ==
    \E l \in Lookups :
        /\ lookups[l].number = n /\ lookups[l].at = "done"
        /\ lookups[l].request \in 1..sent
        /\ combiner[lookups[l].request].answer = "salt"

SaltInv == \A n \in Numbers : saltCache[n] = "service" => Answered(n)

IInv == TypeInv /\ SignerInv /\ CombinerInv /\ SentInv /\ LookupInv /\ SaltInv

-----------------------------------------------------------------------------
(***************************************************************************)
(* Quotas and counts                                                       *)
(***************************************************************************)

\* The quota is a natural number and grows with the transactions.
LEMMA QuotaGrows ==
    ASSUME NEW a \in Nat, NEW b \in Nat, a <= b
    PROVE  /\ getQueryQuota(a) \in Nat /\ getQueryQuota(b) \in Nat
           /\ getQueryQuota(a) <= getQueryQuota(b)
<1>1. \A n \in Nat : QueryPerTransaction * n \in Nat
  BY SignerAssumption
<1>2. QueryPerTransaction * a <= QueryPerTransaction * b
  <2>1. \A p, d \in Nat : p * (a + d) = p * a + p * d
    OBVIOUS
  <2>2. b - a \in Nat
    OBVIOUS
  <2>3. a + (b - a) = b
    OBVIOUS
  <2>4. QueryPerTransaction \in Nat
    BY SignerAssumption
  <2>5. QueryPerTransaction * b = QueryPerTransaction * a + QueryPerTransaction * (b - a)
    BY <2>1, <2>2, <2>3, <2>4
  <2>6. QueryPerTransaction * a \in Nat /\ QueryPerTransaction * (b - a) \in Nat
    BY <1>1, <2>2
  <2> QED BY <2>5, <2>6
<1> QED BY <1>1, <1>2, SignerAssumption DEF getQueryQuota

\* Sets of requests, and of signers, are finite, and a smaller one has fewer elements.
LEMMA Counting ==
    /\ \A S \in SUBSET Requests : IsFiniteSet(S) /\ Cardinality(S) \in Nat
    /\ \A S \in SUBSET Requests : \A R \in SUBSET S : Cardinality(R) <= Cardinality(S)
    /\ \A S \in SUBSET Signers : IsFiniteSet(S) /\ Cardinality(S) \in Nat
    /\ \A S \in SUBSET Signers : \A R \in SUBSET S : Cardinality(R) <= Cardinality(S)
<1>1. IsFiniteSet(Requests) /\ IsFiniteSet(Signers)
  BY SignerAssumption, FS_Interval DEF Requests
<1>2. \A S \in SUBSET Requests : IsFiniteSet(S)
  BY <1>1, FS_Subset
<1>3. \A S \in SUBSET Signers : IsFiniteSet(S)
  BY <1>1, FS_Subset
<1> QED BY <1>2, <1>3, FS_CardinalityType, FS_Subset

\* One more.
LEMMA CountingOne ==
    ASSUME NEW S \in SUBSET Requests, NEW r
    PROVE  /\ Cardinality(S \cup {r}) <= Cardinality(S) + 1
           /\ r \notin S => Cardinality(S \cup {r}) = Cardinality(S) + 1
<1>1. IsFiniteSet(S) /\ Cardinality(S) \in Nat
  BY Counting
<1>2. Cardinality(S \cup {r}) = IF r \in S THEN Cardinality(S) ELSE Cardinality(S) + 1
  BY <1>1, FS_AddElement
<1> QED BY <1>1, <1>2

\* The requests sent so far are requests.
LEMMA SentRequests ==
    ASSUME TypeInv
    PROVE  1..sent \subseteq Requests
<1>1. sent \in Int /\ MaxRequests \in Int /\ sent <= MaxRequests
  BY SignerAssumption DEF TypeInv
<1> QED BY <1>1 DEF Requests

\* The sets of requests that the invariant is about.
LEMMA RequestSets ==
    ASSUME NEW s
    PROVE  /\ signed(s) \subseteq Requests /\ clean(s) \subseteq Requests
           /\ counted(s) \subseteq Requests /\ good(s) \subseteq Signers
BY DEF signed, clean, counted, good

-----------------------------------------------------------------------------
(***************************************************************************)
(* What a step of a signer does                                            *)
(***************************************************************************)

\* The handler of r at s becomes h.
Reads(r, s, h) ==
    /\ signing[r][s].at = "sent"
    /\ h.at = "quota" /\ h.quota = getQueryQuota(transactionCount) /\ ~h.counted
    /\ accounts' = accounts

Refuses(r, s, h) ==
    /\ signing[r][s].at = "quota" /\ signing[r][s].quota <= accounts[s].numLookups
    /\ h.at = "forbidden" /\ ~h.counted
    /\ accounts' = accounts

Fails(r, s, h) ==
    /\ signing[r][s].at \in {"sent", "quota"}
    /\ h.at = "failed" /\ ~h.counted
    /\ accounts' = accounts

Signs(r, s, h) ==
    /\ signing[r][s].at = "quota"
    /\ h.at = "signed" /\ ~h.counted
    /\ h.raced \/ /\ signing[r][s].quota > accounts[s].numLookups
                  /\ \A q \in Requests \ {r} : ~uncounted(q, s)
    /\ accounts' = accounts

Proceeds(r, s, h) ==
    /\ signing[r][s].at \in UncountedAt
    /\ h.at \in SignedAt /\ ~h.counted
    /\ h.raced = signing[r][s].raced /\ h.valid = signing[r][s].valid
    /\ accounts' = accounts

Counts(r, s, h) ==
    /\ signing[r][s].at \in UncountedAt
    /\ h.at = "ok" /\ h.counted
    /\ h.raced = signing[r][s].raced /\ h.valid = signing[r][s].valid
    /\ accounts' = [accounts EXCEPT ![s] = [exists |-> TRUE, numLookups |-> @.numLookups + 1]]

Serves(r, s, h) ==
    /\ signing' = [signing EXCEPT ![r][s] = h]
    /\ UNCHANGED <<standing, transactionCount>>
    /\ \/ Reads(r, s, h) \/ Refuses(r, s, h) \/ Fails(r, s, h)
       \/ Signs(r, s, h) \/ Proceeds(r, s, h) \/ Counts(r, s, h)

\* The handler h that a signature is given with, when the account has performed queries.
Tries(r, s, performed, h) ==
    /\ performed \in Nat /\ performed <= accounts[s].numLookups
    /\ h \in Handler /\ h.at = "signed" /\ ~h.counted
    /\ signing[r][s].at = "quota" /\ CheckQuota(r, s, performed, h)
    /\ UNCHANGED <<standing, transactionCount, accounts>>
    /\ h.raced \/ /\ performed = accounts[s].numLookups
                  /\ \A q \in Requests \ {r} : ~uncounted(q, s)

\* A handler that tries to serve a request serves it in the sense of Serves.
LEMMA TriesServes ==
    ASSUME TypeInv, NEW r \in Requests, NEW s \in Signers, NEW performed, NEW h,
           Tries(r, s, performed, h)
    PROVE  \E i \in Handler : Serves(r, s, i)
<1>1. /\ signing[r][s].quota \in Int /\ accounts[s].numLookups \in Nat /\ performed \in Nat
      /\ performed <= accounts[s].numLookups
  BY DEF TypeInv, Handler, Tries
<1>2. CASE signing[r][s].quota - performed <= 0
  <2> DEFINE i == [NotSent EXCEPT !.at = "forbidden"]
  <2>1. signing' = [signing EXCEPT ![r][s] = i]
    BY <1>2 DEF Tries, CheckQuota, getRemainingQueryCount, Refuse, Goes
  <2>2. i \in Handler /\ i.at = "forbidden" /\ ~i.counted
    <3>1. NotSent \in Handler /\ ~NotSent.counted
      BY DEF NotSent, Handler
    <3> QED BY <3>1 DEF Handler
  <2>3. signing[r][s].quota <= accounts[s].numLookups
    BY <1>1, <1>2
  <2> HIDE DEF i
  <2>4. Refuses(r, s, i)
    BY <2>2, <2>3 DEF Refuses, Tries
  <2> QED BY <2>1, <2>2, <2>4 DEF Serves, Tries
<1>3. CASE ~(signing[r][s].quota - performed <= 0)
  <2>1. signing' = [signing EXCEPT ![r][s] = h]
    BY <1>3 DEF Tries, CheckQuota, getRemainingQueryCount, Goes
  <2>2. signing[r][s].quota > performed
    BY <1>1, <1>3
  <2>3. Signs(r, s, h)
    BY <2>2 DEF Signs, Tries
  <2> QED BY <2>1, <2>3 DEF Serves, Tries
<1> QED BY <1>2, <1>3

\* Every step of a signer serves one request at one signer.
LEMMA SignerSteps ==
    ASSUME TypeInv, SignerInv, SignerNext
    PROVE  \E r \in Requests, s \in Signers : \E h \in Handler : Serves(r, s, h)
<1>1. PICK r \in Requests, s \in Signers :
         \/ ReadQuota(r, s) \/ Sign(r, s) \/ SignBadly(r, s) \/ SignUnread(r, s)
         \/ SignerFails(r, s) \/ getAccountExists(r, s) \/ CountQuery(r, s) \/ CountIsLost(r, s)
  BY DEF SignerNext
<1> DEFINE k == signing[r][s]
           n == accounts[s].numLookups
<1>2. /\ k \in Handler /\ n \in Nat
      /\ k.counted => k.at = "ok"
  BY DEF TypeInv, SignerInv
<1> HIDE DEF k, n
<1>3. NotSent \in Handler /\ ~NotSent.counted /\ NotSent.quota = 0
  BY DEF NotSent, Handler
<1>4. CASE ReadQuota(r, s)
  <2> DEFINE h == [k EXCEPT !.at = "quota", !.quota = getQueryQuota(transactionCount)]
  <2>1. getQueryQuota(transactionCount) \in Int
    BY QuotaGrows DEF TypeInv
  <2>2. k.at = "sent" /\ signing' = [signing EXCEPT ![r][s] = h]
    BY <1>4 DEF ReadQuota, Goes, k
  <2>3. h \in Handler /\ h.at = "quota" /\ h.quota = getQueryQuota(transactionCount) /\ ~h.counted
    BY <1>2, <2>1, <2>2 DEF Handler
  <2> HIDE DEF h
  <2>4. Serves(r, s, h)
    BY <1>4, <2>2, <2>3 DEF Serves, Reads, ReadQuota, k
  <2> QED BY <2>3, <2>4
<1>6. /\ Signature(r, s) \in Handler /\ Signature(r, s).at = "signed" /\ ~Signature(r, s).counted
      /\ Signature(r, s).raced \/ \A q \in Requests \ {r} : ~uncounted(q, s)
  <2> DEFINE race == \E q \in Requests \ {r} : uncounted(q, s)
  <2>1. Signature(r, s) = [NotSent EXCEPT !.at = "signed", !.raced = race]
    BY DEF Signature
  <2>2. race \in BOOLEAN
    OBVIOUS
  <2>3. race \/ \A q \in Requests \ {r} : ~uncounted(q, s)
    OBVIOUS
  <2> HIDE DEF race
  <2> QED BY <1>3, <2>1, <2>2, <2>3 DEF NotSent, Handler, SignedAt
<1>7. CASE Sign(r, s)
  <2>1. Tries(r, s, n, Signature(r, s))
    BY <1>2, <1>6, <1>7 DEF Sign, Tries, n
  <2> QED BY <2>1, TriesServes
<1>8. CASE SignBadly(r, s)
  <2> DEFINE h == [Signature(r, s) EXCEPT !.valid = FALSE]
  <2>1. CheckQuota(r, s, n, h)
    BY <1>8 DEF SignBadly, n
  <2>2. /\ h \in Handler /\ h.at = "signed" /\ ~h.counted
        /\ h.raced \/ \A q \in Requests \ {r} : ~uncounted(q, s)
    BY <1>6 DEF Handler
  <2> HIDE DEF h
  <2>3. Tries(r, s, n, h)
    BY <1>2, <1>8, <2>1, <2>2 DEF SignBadly, Tries, n
  <2> QED BY <2>3, TriesServes
<1>9. CASE SignUnread(r, s)
  <2> DEFINE h == [Signature(r, s) EXCEPT !.raced = TRUE]
  <2>1. CheckQuota(r, s, 0, h)
    BY <1>9 DEF SignUnread
  <2>2. h \in Handler /\ h.at = "signed" /\ ~h.counted /\ h.raced
    BY <1>6 DEF Handler
  <2> HIDE DEF h
  <2>3. Tries(r, s, 0, h)
    BY <1>2, <1>9, <2>1, <2>2 DEF SignUnread, Tries, n
  <2> QED BY <2>3, TriesServes
<1>10. CASE SignerFails(r, s)
  <2> DEFINE h == [NotSent EXCEPT !.at = "failed"]
  <2>1. h \in Handler /\ h.at = "failed" /\ ~h.counted
    BY <1>3 DEF NotSent, Handler
  <2>2. signing' = [signing EXCEPT ![r][s] = h]
    BY <1>10 DEF SignerFails, Goes
  <2> HIDE DEF h
  <2>3. Serves(r, s, h)
    BY <1>10, <2>1, <2>2 DEF Serves, Fails, SignerFails
  <2> QED BY <2>1, <2>3
<1>11. CASE getAccountExists(r, s)
  <2> DEFINE h == [k EXCEPT !.at = IF accounts[s].exists THEN "increment" ELSE "insert"]
  <2>1. k.at = "signed" /\ signing' = [signing EXCEPT ![r][s] = h]
    BY <1>11 DEF getAccountExists, Goes, k
  <2>2. /\ h \in Handler /\ h.at \in SignedAt /\ ~h.counted
        /\ h.raced = k.raced /\ h.valid = k.valid
    BY <1>2, <2>1 DEF Handler, SignedAt
  <2> HIDE DEF h
  <2>3. Serves(r, s, h)
    BY <1>11, <2>1, <2>2 DEF Serves, Proceeds, getAccountExists, UncountedAt, k
  <2> QED BY <2>2, <2>3
<1>12. CASE CountQuery(r, s)
  <2> DEFINE h == [k EXCEPT !.at = "ok", !.counted = TRUE]
  <2>1. k.at \in {"insert", "increment"} /\ signing' = [signing EXCEPT ![r][s] = h]
    BY <1>12 DEF CountQuery, Goes, k
  <2>2. /\ h \in Handler /\ h.at = "ok" /\ h.counted
        /\ h.raced = k.raced /\ h.valid = k.valid
    BY <1>2 DEF Handler, SignedAt
  <2> HIDE DEF h
  <2>3. Serves(r, s, h)
    BY <1>12, <2>1, <2>2 DEF Serves, Counts, CountQuery, UncountedAt, k
  <2> QED BY <2>2, <2>3
<1>13. CASE CountIsLost(r, s)
  <2> DEFINE h == [k EXCEPT !.at = "ok"]
  <2>1. k.at \in UncountedAt /\ signing' = [signing EXCEPT ![r][s] = h]
    BY <1>13 DEF CountIsLost, Goes, uncounted, UncountedAt, k
  <2>2. /\ h \in Handler /\ h.at \in SignedAt /\ ~h.counted
        /\ h.raced = k.raced /\ h.valid = k.valid
    BY <1>2, <2>1 DEF Handler, SignedAt, UncountedAt
  <2> HIDE DEF h
  <2>3. Serves(r, s, h)
    BY <1>13, <2>1, <2>2 DEF Serves, Proceeds, CountIsLost, k
  <2> QED BY <2>2, <2>3
<1> QED BY <1>1, <1>4, <1>7, <1>8, <1>9, <1>10, <1>11, <1>12, <1>13

-----------------------------------------------------------------------------
(***************************************************************************)
(* Signers                                                                 *)
(***************************************************************************)

\* Signatures stay, and a handler that has answered does not change.
Kept ==
    \A q \in Requests, t \in Signers :
        /\ signing[q][t].at \in SignedAt =>
              signing'[q][t].at \in SignedAt /\ signing'[q][t].valid = signing[q][t].valid
        /\ signing[q][t].at \in {"ok", "forbidden"} => signing'[q][t] = signing[q][t]

\* Serving changes the handler of that request at that signer alone.
LEMMA ServesCells ==
    ASSUME TypeInv, NEW r \in Requests, NEW s \in Signers, NEW h \in Handler, Serves(r, s, h)
    PROVE  /\ signing' \in [Requests -> [Signers -> Handler]]
           /\ \A q \in Requests, t \in Signers :
                 signing'[q][t] = IF q = r /\ t = s THEN h ELSE signing[q][t]
BY DEF TypeInv, Serves

\* Serving only adds to what the signers have counted and signed.
LEMMA ServesKeeps ==
    ASSUME TypeInv, NEW r \in Requests, NEW s \in Signers, NEW h \in Handler, Serves(r, s, h)
    PROVE  Kept
<1>1. \A q \in Requests, t \in Signers :
         signing'[q][t] = IF q = r /\ t = s THEN h ELSE signing[q][t]
  BY ServesCells
<1>2. signing[r][s].at \notin {"ok", "forbidden"}
  BY DEF Serves, Reads, Refuses, Fails, Signs, Proceeds, Counts, UncountedAt
<1>3. signing[r][s].at \in SignedAt => h.at \in SignedAt /\ h.valid = signing[r][s].valid
  BY DEF Serves, Reads, Refuses, Fails, Signs, Proceeds, Counts, UncountedAt, SignedAt
<1> QED BY <1>1, <1>2, <1>3 DEF Kept

\* Where no signature is withdrawn, the signatures only grow in number.
LEMMA KeptSets ==
    ASSUME Kept
    PROVE  /\ \A t \in Signers : signed(t) \subseteq signed(t)'
           /\ \A q \in Requests : good(q) \subseteq good(q)'
<1>1. \A t \in Signers : signed(t) \subseteq signed(t)'
  BY DEF Kept, signed, SignedAt
<1>2. \A q \in Requests : good(q) \subseteq good(q)'
  BY <1>1 DEF Kept, good, signed, SignedAt
<1> QED BY <1>1, <1>2

\* The count of a signer is the number of its signatures that are counted.
LEMMA ServesCounts ==
    ASSUME TypeInv, SignerInv, NEW r \in Requests, NEW s \in Signers, NEW h \in Handler,
           Serves(r, s, h), NEW t \in Signers
    PROVE  accounts'[t].numLookups = Cardinality(counted(t)')
<1>1. \A q \in Requests : signing'[q][t] = IF q = r /\ t = s THEN h ELSE signing[q][t]
  BY ServesCells
<1>2. accounts[t].numLookups = Cardinality(counted(t)) /\ counted(t) \in SUBSET Requests
  BY DEF SignerInv, counted
<1>3. signing[r][s].at # "ok" /\ ~signing[r][s].counted
  BY DEF Serves, Reads, Refuses, Fails, Signs, Proceeds, Counts, UncountedAt, SignerInv
<1>4. CASE t = s /\ Counts(r, s, h)
  <2>1. counted(t)' = counted(t) \cup {r} /\ r \notin counted(t)
    BY <1>1, <1>3, <1>4 DEF counted, Counts
  <2>2. accounts'[t].numLookups = accounts[t].numLookups + 1
    BY <1>4 DEF Counts, TypeInv
  <2> QED BY <1>2, <2>1, <2>2, CountingOne
<1>5. CASE ~(t = s /\ Counts(r, s, h))
  <2>1. t = s => ~h.counted
    BY <1>5 DEF Serves, Reads, Refuses, Fails, Signs, Proceeds
  <2>2. counted(t)' = counted(t)
    BY <1>1, <1>3, <2>1 DEF counted
  <2>3. accounts'[t] = accounts[t]
    BY <1>5 DEF Serves, Reads, Refuses, Fails, Signs, Proceeds, Counts, TypeInv
  <2> QED BY <1>2, <2>2, <2>3
<1> QED BY <1>4, <1>5

\* A signature given with no other around is within the quota; all others have raced.
LEMMA ServesWithinQuota ==
    ASSUME TypeInv, SignerInv, NEW r \in Requests, NEW s \in Signers, NEW h \in Handler,
           Serves(r, s, h), NEW t \in Signers
    PROVE  Cardinality(clean(t)') <= getQueryQuota(transactionCount)
<1>1. \A q \in Requests : signing'[q][t] = IF q = r /\ t = s THEN h ELSE signing[q][t]
  BY ServesCells
<1>2. /\ Cardinality(clean(t)) <= getQueryQuota(transactionCount)
      /\ getQueryQuota(transactionCount) \in Nat
  BY QuotaGrows DEF SignerInv, TypeInv
<1>3. clean(t) \in SUBSET Requests /\ clean(t)' \in SUBSET Requests
  BY DEF clean, signed
<1>4. CASE t = s /\ Signs(r, s, h) /\ ~h.raced
  <2>1. clean(t)' \subseteq counted(t) \cup {r}
    <3> SUFFICES ASSUME NEW q \in clean(t)', q # r
                 PROVE  q \in counted(t)
      OBVIOUS
    <3>1. q \in Requests /\ signing'[q][t] = signing[q][t]
      BY <1>1, <1>3
    <3>2. signing[q][t].at \in SignedAt /\ (signing[q][t].at = "ok" => signing[q][t].counted)
      BY <3>1 DEF clean, signed, lost, SignedAt
    <3>3. ~uncounted(q, t)
      BY <1>4, <3>1 DEF Signs
    <3> QED BY <3>1, <3>2, <3>3 DEF uncounted, counted, SignedAt
  <2>2. counted(t) \in SUBSET Requests /\ counted(t) \cup {r} \in SUBSET Requests
    BY DEF counted
  <2>3. Cardinality(counted(t) \cup {r}) <= accounts[t].numLookups + 1
    BY <2>2, CountingOne DEF SignerInv
  <2>4. Cardinality(clean(t)') <= Cardinality(counted(t) \cup {r})
    BY <2>1, <2>2, Counting
  <2>5. accounts[t].numLookups < signing[r][t].quota
        /\ signing[r][t].quota <= getQueryQuota(transactionCount)
    BY <1>4 DEF Signs, SignerInv
  <2>6. /\ signing[r][t].quota \in Int /\ accounts[t].numLookups \in Nat
        /\ Cardinality(clean(t)') \in Nat /\ Cardinality(counted(t) \cup {r}) \in Nat
    BY <1>3, <2>2, Counting DEF TypeInv, Handler
  <2> QED BY <1>2, <2>3, <2>4, <2>5, <2>6
<1>5. CASE ~(t = s /\ Signs(r, s, h) /\ ~h.raced)
  <2>1. clean(t)' \subseteq clean(t)
    <3> SUFFICES ASSUME NEW q \in clean(t)'
                 PROVE  q \in clean(t)
      OBVIOUS
    <3>1. /\ q \in Requests /\ signing'[q][t].at \in SignedAt /\ ~signing'[q][t].raced
          /\ signing'[q][t].at = "ok" => signing'[q][t].counted
      BY DEF clean, signed, raced, lost, SignedAt
    <3>2. CASE q = r /\ t = s
      <4>1. signing'[q][t] = h
        BY <1>1, <3>1, <3>2
      <4>2. Proceeds(r, s, h) \/ Counts(r, s, h)
        BY <1>5, <3>1, <3>2, <4>1 DEF Serves, Reads, Refuses, Fails, SignedAt
      <4>3. signing[q][t].at \in UncountedAt /\ ~signing[q][t].raced
        BY <3>1, <3>2, <4>1, <4>2 DEF Proceeds, Counts
      <4> QED BY <3>1, <4>3 DEF clean, signed, raced, lost, UncountedAt
    <3>3. CASE ~(q = r /\ t = s)
      <4>1. signing'[q][t] = signing[q][t]
        BY <1>1, <3>1, <3>3
      <4> QED BY <3>1, <4>1 DEF clean, signed, raced, lost, SignedAt
    <3> QED BY <3>2, <3>3
  <2>2. Cardinality(clean(t)') <= Cardinality(clean(t))
    BY <1>3, <2>1, Counting
  <2>3. Cardinality(clean(t)') \in Nat /\ Cardinality(clean(t)) \in Nat
    BY <1>3, Counting
  <2> QED BY <1>2, <2>2, <2>3
<1> QED BY <1>4, <1>5

\* Serving keeps the signers' invariant.
LEMMA ServesSignerInv ==
    ASSUME TypeInv, SignerInv, NEW r \in Requests, NEW s \in Signers, NEW h \in Handler,
           Serves(r, s, h)
    PROVE  SignerInv'
<1>1. getQueryQuota(transactionCount)' = getQueryQuota(transactionCount)
  BY DEF Serves, getQueryQuota
<1>2. getQueryQuota(transactionCount) \in Nat
  BY QuotaGrows DEF TypeInv
<1> SUFFICES ASSUME NEW t \in Signers
             PROVE  /\ accounts'[t].numLookups = Cardinality(counted(t)')
                    /\ Cardinality(clean(t)') <= getQueryQuota(transactionCount)
                    /\ \A q \in Requests :
                          /\ signing'[q][t].counted => signing'[q][t].at = "ok"
                          /\ signing'[q][t].at = "quota" =>
                                signing'[q][t].quota <= getQueryQuota(transactionCount)
  BY <1>1 DEF SignerInv
<1>3. ASSUME NEW q \in Requests
      PROVE  /\ signing'[q][t].counted => signing'[q][t].at = "ok"
             /\ signing'[q][t].at = "quota" =>
                   signing'[q][t].quota <= getQueryQuota(transactionCount)
  <2>1. signing'[q][t] = IF q = r /\ t = s THEN h ELSE signing[q][t]
    BY ServesCells
  <2>2. /\ signing[q][t].counted => signing[q][t].at = "ok"
        /\ signing[q][t].at = "quota" =>
              signing[q][t].quota <= getQueryQuota(transactionCount)
    BY DEF SignerInv
  <2>3. /\ h.counted => h.at = "ok"
        /\ h.at = "quota" => h.quota <= getQueryQuota(transactionCount)
    BY <1>2 DEF Serves, Reads, Refuses, Fails, Signs, Proceeds, Counts, SignedAt
  <2> QED BY <2>1, <2>2, <2>3
<1> QED BY <1>3, ServesCounts, ServesWithinQuota

-----------------------------------------------------------------------------
(***************************************************************************)
(* What a step of a signer leaves the combiner and the lookups             *)
(***************************************************************************)

\* What the combiner has put together stays justified when signatures are added.
LEMMA KeptCombined ==
    ASSUME Kept, NEW r \in Requests, NEW c \in Reception, Combined(r, c)
    PROVE  Combined(r, c)'
<1>1. \A s \in Signers :
         signing[r][s].at \in {"ok", "forbidden"} => signing'[r][s] = signing[r][s]
  BY DEF Kept
<1>2. Cardinality(good(r)) <= Cardinality(good(r)')
  <2>1. good(r)' \in SUBSET Signers
    BY DEF good
  <2> QED BY <2>1, KeptSets, Counting
<1>3. /\ Cardinality(good(r)) \in Nat /\ Cardinality(good(r)') \in Nat /\ Threshold \in Nat
  <2>1. good(r)' \in SUBSET Signers /\ good(r) \in SUBSET Signers
    BY DEF good
  <2> QED BY <2>1, Counting, ThresholdAssumption
<1>4. c.successes \subseteq Signers
  BY DEF Reception
<1>5. /\ \A s \in c.successes : signing'[r][s].at = "ok"
      /\ c.code403 > 0 => \E s \in Signers : signing'[r][s].at = "forbidden"
      /\ c.answer = "quota" => \E s \in Signers : signing'[r][s].at = "forbidden"
  BY <1>1, <1>4 DEF Combined
<1>6. (\E s \in c.successes : ~signing[r][s].valid) => \E s \in c.successes : ~signing'[r][s].valid
  BY <1>1, <1>4 DEF Combined
<1>7. c.answer = "salt" => Cardinality(good(r)') >= Threshold
  BY <1>2, <1>3 DEF Combined
<1> QED BY <1>5, <1>6, <1>7 DEF Combined

\* What an account has paid for is no more than its quota.
LEMMA DueWithinQuota ==
    ASSUME TypeInv, LookupInv, NEW l \in Lookups
    PROVE  /\ due(l) \in Nat /\ getQueryQuota(transactionCount) \in Nat
           /\ due(l) <= getQueryQuota(transactionCount)
<1>1. lookups[l].paid \in Nat /\ transactionCount \in Nat /\ lookups[l].paid <= transactionCount
  BY DEF TypeInv, LookupInv, Lookup
<1> QED BY <1>1, QuotaGrows DEF due

\* With no more signatures gone, what was owed before still is.
LEMMA SignaturesStay ==
    ASSUME Kept, NEW t \in Signers
    PROVE  /\ Cardinality(signed(t)) \in Nat /\ Cardinality(signed(t)') \in Nat
           /\ Cardinality(signed(t)) <= Cardinality(signed(t)')
<1>1. signed(t) \in SUBSET Requests /\ signed(t)' \in SUBSET Requests
  BY DEF signed
<1> QED BY <1>1, KeptSets, Counting

\* Serving leaves it true that a handler refuses only what is worth n queries.
LEMMA ServesOwes ==
    ASSUME TypeInv, SignerInv, NEW r \in Requests, NEW s \in Signers, NEW h \in Handler,
           Serves(r, s, h), NEW q \in Requests, NEW t \in Signers,
           NEW n \in Nat, n <= getQueryQuota(transactionCount), Owes(q, t, n)
    PROVE  Owes(q, t, n)'
<1>1. signing'[q][t] = IF q = r /\ t = s THEN h ELSE signing[q][t]
  BY ServesCells
<1>2. /\ Cardinality(signed(t)) \in Nat /\ Cardinality(signed(t)') \in Nat
      /\ Cardinality(signed(t)) <= Cardinality(signed(t)')
  BY ServesKeeps, SignaturesStay
<1>3. CASE q = r /\ t = s
  <2>1. CASE Reads(r, s, h)
    BY <1>1, <1>3, <2>1 DEF Reads, Owes
  <2>2. CASE Refuses(r, s, h)
    <3>1. signing[q][t].quota >= n /\ signing[q][t].quota <= accounts[t].numLookups
      BY <1>3, <2>2 DEF Refuses, Owes
    <3>2. accounts[t].numLookups = Cardinality(counted(t))
      BY DEF SignerInv
    <3>3. Cardinality(counted(t)) <= Cardinality(signed(t)) /\ Cardinality(counted(t)) \in Nat
      <4>1. signed(t) \in SUBSET Requests /\ counted(t) \in SUBSET signed(t)
        BY DEF signed, counted, SignerInv
      <4> QED BY <4>1, Counting
    <3>4. signing[q][t].quota \in Int
      BY DEF TypeInv, Handler
    <3>5. Cardinality(signed(t)') >= n
      BY <1>2, <3>1, <3>2, <3>3, <3>4
    <3> QED BY <1>1, <1>3, <2>2, <3>5 DEF Refuses, Owes
  <2>3. CASE ~Reads(r, s, h) /\ ~Refuses(r, s, h)
    BY <1>1, <1>3, <2>3 DEF Serves, Fails, Signs, Proceeds, Counts, Owes, SignedAt
  <2> QED BY <2>1, <2>2, <2>3
<1>4. CASE ~(q = r /\ t = s)
  BY <1>1, <1>2, <1>4 DEF Owes
<1> QED BY <1>3, <1>4

\* A step of a signer keeps the whole invariant.
LEMMA SignerKeepsInv ==
    ASSUME IInv, SignerNext, UNCHANGED <<combinerVars, saltCache, lookups, sent>>
    PROVE  IInv'
<1>1. PICK r \in Requests, s \in Signers : \E h \in Handler : Serves(r, s, h)
  BY SignerSteps DEF IInv
<1>2. PICK h \in Handler : Serves(r, s, h)
  BY <1>1
<1>3. Kept
  BY <1>2, ServesKeeps DEF IInv
<1>4. TypeInv'
  <2>1. accounts' \in [Signers -> [exists : BOOLEAN, numLookups : Nat]]
    <3>1. CASE accounts' = accounts
      BY <3>1 DEF IInv, TypeInv
    <3>2. CASE Counts(r, s, h)
      <4>1. [exists |-> TRUE, numLookups |-> accounts[s].numLookups + 1]
              \in [exists : BOOLEAN, numLookups : Nat]
        BY DEF IInv, TypeInv
      <4> QED BY <3>2, <4>1 DEF IInv, TypeInv, Counts
    <3> QED BY <1>2, <3>1, <3>2 DEF Serves, Reads, Refuses, Fails, Signs, Proceeds
  <2>2. signing' \in [Requests -> [Signers -> Handler]]
    BY <1>2, ServesCells DEF IInv
  <2>3. UNCHANGED <<standing, transactionCount>>
    BY <1>2 DEF Serves
  <2> QED BY <2>1, <2>2, <2>3 DEF IInv, TypeInv, combinerVars
<1>5. SignerInv'
  BY <1>2, ServesSignerInv DEF IInv
<1>6. CombinerInv'
  <2>1. ASSUME NEW q \in Requests
        PROVE  Combined(q, combiner[q])'
    <3>1. PICK c \in Reception : c = combiner[q] /\ c = combiner'[q]
      BY DEF IInv, TypeInv, combinerVars
    <3>2. Combined(q, c)
      BY <3>1 DEF IInv, CombinerInv
    <3>3. Combined(q, c)'
      BY <1>3, <3>2, KeptCombined
    <3> QED BY <3>1, <3>3 DEF Combined
  <2> QED BY <2>1 DEF CombinerInv
<1>7. SentInv'
  <2>1. r <= sent
    <3>1. signing[r][s].at # "away"
      BY <1>2 DEF Serves, Reads, Refuses, Fails, Signs, Proceeds, Counts, UncountedAt
    <3>2. ~(r > sent)
      BY <3>1 DEF IInv, SentInv, NotSent
    <3> QED BY <3>2 DEF IInv, TypeInv, Requests
  <2>2. \A q \in Requests : q # r => signing'[q] = signing[q]
    BY <1>2 DEF Serves, IInv, TypeInv
  <2> QED BY <2>1, <2>2 DEF IInv, SentInv, TypeInv, Requests, combinerVars
<1>8. LookupInv'
  <2> SUFFICES ASSUME NEW l \in Lookups
               PROVE  /\ lookups[l].paid <= transactionCount'
                      /\ lookups[l].at \in {"posted", "screen"} =>
                            /\ lookups[l].request \in 1..sent
                            /\ \A t \in Signers : Owes(lookups[l].request, t, due(l))'
    BY DEF LookupInv
  <2>1. due(l)' = due(l)
    BY <1>2 DEF Serves, due, getQueryQuota
  <2>2. due(l) \in Nat /\ due(l) <= getQueryQuota(transactionCount)
    BY DueWithinQuota DEF IInv
  <2>3. ASSUME lookups[l].at \in {"posted", "screen"}, NEW t \in Signers
        PROVE  Owes(lookups[l].request, t, due(l))'
    <3>1. PICK n \in Nat : n = due(l) /\ n = due(l)'
      BY <2>1, <2>2
    <3>2. PICK q \in Requests : q = lookups[l].request /\ q = lookups'[l].request
      <4>1. lookups[l].request \in 1..sent /\ lookups' = lookups
        BY <2>3 DEF IInv, LookupInv
      <4>2. lookups[l].request \in Requests
        BY <4>1, SentRequests DEF IInv
      <4> QED BY <4>1, <4>2
    <3>3. Owes(q, t, n)
      BY <2>3, <3>1, <3>2 DEF IInv, LookupInv
    <3>4. Owes(q, t, n)'
      BY <1>2, <2>2, <3>1, <3>3, ServesOwes DEF IInv
    <3> QED BY <3>1, <3>2, <3>4 DEF Owes
  <2> QED BY <1>2, <2>3 DEF IInv, LookupInv, Serves
<1>9. SaltInv'
  BY DEF IInv, SaltInv, Answered, combinerVars
<1> QED BY <1>4, <1>5, <1>6, <1>7, <1>8, <1>9 DEF IInv

-----------------------------------------------------------------------------
(***************************************************************************)
(* The combiner                                                            *)
(***************************************************************************)

\* What the combiner has of request r becomes c.
Combines(r, c) ==
    /\ combiner' = [combiner EXCEPT ![r] = c]
    /\ c \in Reception /\ Combined(r, c)
    /\ combiner[r].answer = "salt" => c.answer = "salt"
    /\ r <= sent

\* Nothing is received of a request that is not sent.
LEMMA AwaitsSent ==
    ASSUME TypeInv, SentInv, NEW r \in Requests,
           combiner[r].pending # {} \/ signing[r] # [s \in Signers |-> NotSent]
    PROVE  r <= sent
<1>1. ~(r > sent)
  BY DEF SentInv, NotReceived
<1> QED BY <1>1 DEF TypeInv, Requests

\* Receiving a signature is a step of the combiner for one request.
LEMMA ReceiveSignatureCombines ==
    ASSUME TypeInv, SentInv, CombinerInv, NEW r \in Requests, NEW s \in Signers,
           ReceiveSignature(r, s)
    PROVE  \E c \in Reception : Combines(r, c)
<1>1. PICK k \in Reception : k = combiner[r] /\ Combined(r, k)
  BY DEF TypeInv, CombinerInv
<1>2. s \in k.pending /\ s \notin k.combining /\ signing[r][s].at = "ok"
  BY <1>1 DEF ReceiveSignature, awaits
<1>3. r <= sent
  BY <1>1, <1>2, AwaitsSent
<1>4. PICK successes \in SUBSET Signers : successes = k.successes \cup {s}
  BY <1>1 DEF Reception
<1>5. \A t \in successes : signing[r][t].at = "ok"
  BY <1>1, <1>2, <1>4 DEF Combined
<1>6. CASE Cardinality(successes) >= Threshold
  <2>1. PICK c : c = [combiner[r] EXCEPT !.successes = successes, !.combining = @ \cup {s}]
    OBVIOUS
  <2>2. combiner' = [combiner EXCEPT ![r] = c]
    BY <1>1, <1>4, <1>6, <2>1 DEF ReceiveSignature, Records
  <2>3. /\ c \in Reception /\ c.successes = successes /\ c.combining = k.combining \cup {s}
        /\ c.pending = k.pending /\ c.code403 = k.code403 /\ c.answer = k.answer
    BY <1>1, <2>1 DEF Reception
  <2>4. c.combining \subseteq c.pending /\ c.combining # {}
    BY <1>1, <1>2, <2>3 DEF Combined
  <2>5. Combined(r, c)
    BY <1>1, <1>5, <2>3, <2>4 DEF Combined
  <2> QED BY <1>1, <1>3, <2>2, <2>3, <2>5 DEF Combines
<1>7. CASE ~(Cardinality(successes) >= Threshold)
  <2>1. PICK c : c = [combiner[r] EXCEPT !.successes = successes, !.pending = @ \ {s}]
    OBVIOUS
  <2>2. combiner' = [combiner EXCEPT ![r] = c]
    BY <1>1, <1>4, <1>7, <2>1 DEF ReceiveSignature, Records
  <2>3. /\ c \in Reception /\ c.successes = successes /\ c.combining = k.combining
        /\ c.pending = k.pending \ {s} /\ c.code403 = k.code403 /\ c.answer = k.answer
    BY <1>1, <2>1 DEF Reception
  <2>4. c.combining \subseteq c.pending
    BY <1>1, <1>2, <2>3 DEF Combined
  <2>5. Cardinality(c.successes) < Threshold
    BY <1>7, <2>3, Counting, ThresholdAssumption
  <2>6. Combined(r, c)
    BY <1>1, <1>5, <2>3, <2>4, <2>5 DEF Combined
  <2> QED BY <1>1, <1>3, <2>2, <2>3, <2>6 DEF Combines
<1> QED BY <1>6, <1>7

\* So is combining the partial signatures,
LEMMA combinePartialBlindedSignaturesCombines ==
    ASSUME TypeInv, SentInv, CombinerInv, NEW r \in Requests, NEW s \in Signers,
           combinePartialBlindedSignatures(r, s)
    PROVE  \E c \in Reception : Combines(r, c)
<1>1. PICK k \in Reception : k = combiner[r] /\ Combined(r, k)
  BY DEF TypeInv, CombinerInv
<1>2. s \in k.combining /\ s \in k.pending
  BY <1>1 DEF combinePartialBlindedSignatures, Combined
<1>3. r <= sent
  BY <1>1, <1>2, AwaitsSent
<1>4. PICK reply \in {"none", "salt", "quota", "error"} :
         reply = IF enough(r) THEN "salt" ELSE k.answer
  BY DEF Reception
<1>5. PICK c : c = [combiner[r] EXCEPT !.pending = @ \ {s}, !.combining = @ \ {s}, !.answer = reply]
  OBVIOUS
<1>6. combiner' = [combiner EXCEPT ![r] = c]
  BY <1>1, <1>4, <1>5 DEF combinePartialBlindedSignatures, Records
<1>7. /\ c \in Reception /\ c.successes = k.successes /\ c.combining = k.combining \ {s}
      /\ c.pending = k.pending \ {s} /\ c.code403 = k.code403 /\ c.answer = reply
  BY <1>1, <1>5 DEF Reception
<1>8. c.combining \subseteq c.pending
  BY <1>1, <1>7 DEF Combined
<1>9. /\ verified(r) \subseteq good(r) /\ good(r) \in SUBSET Signers
      /\ verified(r) = {t \in k.successes : signing[r][t].valid}
  BY <1>1 DEF verified, good, signed, Combined, Reception
<1>10. /\ Cardinality(verified(r)) <= Cardinality(good(r))
       /\ Cardinality(verified(r)) \in Nat /\ Cardinality(good(r)) \in Nat /\ Threshold \in Nat
  BY <1>9, Counting, ThresholdAssumption
<1>11. enough(r) => Cardinality(good(r)) >= Threshold
  BY <1>10 DEF enough
<1>12. ~enough(r) => \/ Cardinality(k.successes) < Threshold
                     \/ \E t \in k.successes : ~signing[r][t].valid
  <2>1. (\A t \in k.successes : signing[r][t].valid) => verified(r) = k.successes
    BY <1>9
  <2> QED BY <1>10, <2>1 DEF enough
<1>13. Combined(r, c)
  BY <1>1, <1>4, <1>7, <1>8, <1>11, <1>12 DEF Combined
<1> QED BY <1>1, <1>3, <1>4, <1>6, <1>7, <1>13 DEF Combines

\* receiving an error or aborting,
LEMMA ReceiveErrorCombines ==
    ASSUME TypeInv, SentInv, CombinerInv, NEW r \in Requests, NEW s \in Signers,
           ReceiveError(r, s) \/ Abort(r, s)
    PROVE  \E c \in Reception : Combines(r, c)
<1>1. PICK k \in Reception : k = combiner[r] /\ Combined(r, k)
  BY DEF TypeInv, CombinerInv
<1>2. s \in k.pending /\ s \notin k.combining
  BY <1>1 DEF ReceiveError, Abort, awaits
<1>3. r <= sent
  BY <1>1, <1>2, AwaitsSent
<1>4. k.combining \subseteq k.pending \ {s}
  BY <1>1, <1>2 DEF Combined
<1>0. k.code403 + 1 \in Nat /\ k.code500 + 1 \in Nat
  BY DEF Reception
<1>5. CASE ReceiveError(r, s) /\ signing[r][s].at = "forbidden"
  <2>1. PICK c : c = [combiner[r] EXCEPT !.pending = @ \ {s}, !.code403 = @ + 1]
    OBVIOUS
  <2>2. combiner' = [combiner EXCEPT ![r] = c]
    BY <1>1, <1>5, <2>1 DEF ReceiveError, Records
  <2>3. /\ c \in Reception /\ c.successes = k.successes /\ c.combining = k.combining
        /\ c.pending = k.pending \ {s} /\ c.answer = k.answer
    BY <1>0, <1>1, <2>1 DEF Reception
  <2>4. Combined(r, c)
    BY <1>1, <1>4, <1>5, <2>3 DEF Combined
  <2> QED BY <1>1, <1>3, <2>2, <2>3, <2>4 DEF Combines
<1>6. CASE ReceiveError(r, s) /\ signing[r][s].at = "failed"
  <2>1. PICK c : c = [combiner[r] EXCEPT !.pending = @ \ {s}, !.code500 = @ + 1]
    OBVIOUS
  <2>2. combiner' = [combiner EXCEPT ![r] = c]
    BY <1>1, <1>6, <2>1 DEF ReceiveError, Records
  <2>3. /\ c \in Reception /\ c.successes = k.successes /\ c.combining = k.combining
        /\ c.pending = k.pending \ {s} /\ c.answer = k.answer /\ c.code403 = k.code403
    BY <1>0, <1>1, <2>1 DEF Reception
  <2>4. Combined(r, c)
    BY <1>1, <1>4, <2>3 DEF Combined
  <2> QED BY <1>1, <1>3, <2>2, <2>3, <2>4 DEF Combines
<1>7. CASE Abort(r, s)
  <2>1. PICK c : c = [combiner[r] EXCEPT !.pending = @ \ {s}]
    OBVIOUS
  <2>2. combiner' = [combiner EXCEPT ![r] = c]
    BY <1>1, <1>7, <2>1 DEF Abort
  <2>3. /\ c \in Reception /\ c.successes = k.successes /\ c.combining = k.combining
        /\ c.pending = k.pending \ {s} /\ c.answer = k.answer /\ c.code403 = k.code403
    BY <1>1, <2>1 DEF Reception
  <2>4. Combined(r, c)
    BY <1>1, <1>4, <2>3 DEF Combined
  <2> QED BY <1>1, <1>3, <2>2, <2>3, <2>4 DEF Combines
<1> QED BY <1>5, <1>6, <1>7 DEF ReceiveError, Records

\* and giving up for missing signatures.
LEMMA handleMissingSignaturesCombines ==
    ASSUME TypeInv, SentInv, CombinerInv, NEW r \in Requests, handleMissingSignatures(r)
    PROVE  \E c \in Reception : Combines(r, c)
<1>1. PICK k \in Reception : k = combiner[r] /\ Combined(r, k)
  BY DEF TypeInv, CombinerInv
<1>2. r <= sent /\ k.answer = "none"
  BY <1>1, AwaitsSent DEF handleMissingSignatures
<1>3. PICK reply \in {"quota", "error"} : reply = answerOfMissing(getMajorityErrorCode(r))
  BY DEF answerOfMissing
<1>4. PICK c : c = [combiner[r] EXCEPT !.answer = reply]
  OBVIOUS
<1>5. combiner' = [combiner EXCEPT ![r] = c]
  BY <1>1, <1>3, <1>4 DEF handleMissingSignatures
<1>6. /\ c \in Reception /\ c.successes = k.successes /\ c.combining = k.combining
      /\ c.pending = k.pending /\ c.answer = reply /\ c.code403 = k.code403
  BY <1>1, <1>4 DEF Reception
<1>7. reply = "quota" => k.code403 > 0
  <2>1. k.code403 \in Nat /\ k.code500 \in Nat
    BY DEF Reception
  <2> QED BY <1>1, <1>3, <2>1 DEF answerOfMissing, getMajorityErrorCode
<1>8. Combined(r, c)
  BY <1>1, <1>6, <1>7 DEF Combined
<1> QED BY <1>1, <1>2, <1>5, <1>6, <1>8 DEF Combines

\* A step of the combiner keeps the whole invariant.
LEMMA CombinerKeepsInv ==
    ASSUME IInv, CombinerNext, UNCHANGED <<saltCache, lookups, sent>>
    PROVE  IInv'
<1>1. UNCHANGED signerVars
  BY DEF CombinerNext, handleMissingSignatures, ReceiveSignature,
         combinePartialBlindedSignatures, ReceiveError, Abort
<1>2. PICK r \in Requests : \E c \in Reception : Combines(r, c)
  <2>1. PICK r \in Requests :
           \/ handleMissingSignatures(r)
           \/ \E s \in Signers :
                  \/ ReceiveSignature(r, s) \/ combinePartialBlindedSignatures(r, s)
                  \/ ReceiveError(r, s) \/ Abort(r, s)
    BY DEF CombinerNext
  <2>2. ASSUME NEW s \in Signers, ReceiveSignature(r, s)
        PROVE  \E c \in Reception : Combines(r, c)
    BY <2>2, ReceiveSignatureCombines DEF IInv
  <2>3. ASSUME NEW s \in Signers, combinePartialBlindedSignatures(r, s)
        PROVE  \E c \in Reception : Combines(r, c)
    BY <2>3, combinePartialBlindedSignaturesCombines DEF IInv
  <2>4. ASSUME NEW s \in Signers, ReceiveError(r, s) \/ Abort(r, s)
        PROVE  \E c \in Reception : Combines(r, c)
    BY <2>4, ReceiveErrorCombines DEF IInv
  <2>5. ASSUME handleMissingSignatures(r)
        PROVE  \E c \in Reception : Combines(r, c)
    BY <2>5, handleMissingSignaturesCombines DEF IInv
  <2> QED BY <2>1, <2>2, <2>3, <2>4, <2>5
<1>3. PICK c \in Reception : Combines(r, c)
  BY <1>2
<1>4. \A q \in Requests : combiner'[q] = IF q = r THEN c ELSE combiner[q]
  BY <1>3 DEF Combines, IInv, TypeInv
<1>5. TypeInv'
  <2>1. combiner' \in [Requests -> Reception]
    BY <1>3 DEF Combines, IInv, TypeInv
  <2> QED BY <1>1, <2>1 DEF IInv, TypeInv, signerVars
<1>6. SignerInv'
  BY <1>1, ZenonT(30) DEF IInv, SignerInv, signerVars, counted, clean, signed, raced, lost, getQueryQuota
<1>7. CombinerInv'
  <2>1. ASSUME NEW q \in Requests
        PROVE  Combined(q, combiner[q])'
    <3>1. PICK k \in Reception : k = combiner'[q] /\ Combined(q, k)
      BY <1>3, <1>4 DEF Combines, IInv, TypeInv, CombinerInv
    <3>2. Combined(q, k)'
      BY <1>1, <3>1 DEF Combined, signerVars, good, signed
    <3> QED BY <3>1, <3>2 DEF Combined
  <2> QED BY <2>1 DEF CombinerInv
<1>8. SentInv'
  BY <1>1, <1>3, <1>4 DEF IInv, TypeInv, SentInv, signerVars, Combines, Requests
<1>9. LookupInv'
  BY <1>1 DEF IInv, LookupInv, signerVars, Owes, due, signed, getQueryQuota
<1>10. SaltInv'
  <2>1. ASSUME NEW q \in 1..sent, combiner[q].answer = "salt"
        PROVE  combiner'[q].answer = "salt"
    <3>1. q \in Requests
      BY SentRequests DEF IInv
    <3> QED BY <1>3, <1>4, <2>1, <3>1 DEF Combines
  <2> QED BY <2>1 DEF IInv, SaltInv, Answered
<1> QED BY <1>5, <1>6, <1>7, <1>8, <1>9, <1>10 DEF IInv

-----------------------------------------------------------------------------
(***************************************************************************)
(* The lookups                                                             *)
(***************************************************************************)

\* Lookup l goes on, as k, with what the service has.
Settles(l, k) ==
    /\ lookups' = [lookups EXCEPT ![l] = k]
    /\ transactionCount' \in {transactionCount, transactionCount + 1}
    /\ lookups[l].at # "done" /\ k.paid <= transactionCount
    /\ k.at \in {"posted", "screen"} =>
          /\ lookups[l].at = "posted"
          /\ k.request = lookups[l].request /\ k.paid = lookups[l].paid
    /\ \/ saltCache' = saltCache
       \/ /\ lookups[l].at = "posted" /\ answer(l) = "salt"
          /\ k.at = "done" /\ k.request = lookups[l].request
          /\ saltCache' = [saltCache EXCEPT ![k.number] = "service"]
    /\ UNCHANGED <<standing, accounts, signing, combinerVars, sent>>

\* Lookup l sends a request, and is k.
Asks(l, k) ==
    /\ lookups' = [lookups EXCEPT ![l] = k]
    /\ lookups[l].at # "done"
    /\ k.at = "posted" /\ k.request = sent + 1 /\ k.paid = transactionCount
    /\ sent < MaxRequests /\ sent' = sent + 1
    /\ requestSignatures(sent + 1)
    /\ UNCHANGED <<standing, transactionCount, accounts, saltCache>>

LookupNext(l) ==
    \/ FetchPhoneHashPrivate(l) \/ ReceiveSalt(l) \/ ReceiveRefusal(l) \/ Disconnect(l)
    \/ Skip(l) \/ Buy(l) \/ TransferConfirmed(l) \/ TransferFailed(l) \/ TransferGivenUp(l)
    \/ Retry(l)

\* A lookup asks the combiner or settles without it.
LEMMA FetchSteps ==
    ASSUME TypeInv, NEW l \in Lookups, NEW k \in Lookup, doFetchPhoneHashPrivate(l, k),
           k.paid <= transactionCount, lookups[l].at # "done",
           UNCHANGED <<standing, transactionCount, accounts, faults, saltCache>>
    PROVE  \E i \in Lookup : Settles(l, i) \/ Asks(l, i)
<1>1. CASE saltCache[k.number] # "none"
  <2>1. PICK i : i = [k EXCEPT !.at = "done"]
    OBVIOUS
  <2>2. i \in Lookup /\ i.at = "done" /\ i.paid = k.paid
    BY <2>1 DEF Lookup
  <2>3. lookups' = [lookups EXCEPT ![l] = i] /\ UNCHANGED <<combiner, signing, sent>>
    BY <1>1, <2>1 DEF doFetchPhoneHashPrivate
  <2> QED BY <2>2, <2>3 DEF Settles, combinerVars
<1>2. CASE saltCache[k.number] = "none"
  <2>1. PICK i : i = [k EXCEPT !.at = "posted", !.request = sent + 1, !.paid = transactionCount]
    OBVIOUS
  <2>2. sent + 1 \in Nat /\ transactionCount \in Nat
    BY DEF TypeInv
  <2>3. i \in Lookup /\ i.at = "posted" /\ i.request = sent + 1 /\ i.paid = transactionCount
    BY <2>1, <2>2 DEF Lookup
  <2>4. sent' = sent + 1 /\ sent < MaxRequests
    BY <1>2 DEF doFetchPhoneHashPrivate
  <2>5. lookups' = [lookups EXCEPT ![l] = i] /\ requestSignatures(sent + 1)
    BY <1>2, <2>1, <2>4 DEF doFetchPhoneHashPrivate, requestSignatures
  <2> QED BY <2>3, <2>4, <2>5 DEF Asks
<1> QED BY <1>1, <1>2

\* A lookup that moves keeps its number, its request and what was paid.
LEMMA MovesTo ==
    ASSUME TypeInv, NEW l \in Lookups,
           NEW at \in {"screen", "buying", "bought", "failed", "done"}, Moves(l, at)
    PROVE  \E k \in Lookup : /\ lookups' = [lookups EXCEPT ![l] = k]
                             /\ k.at = at /\ k.request = lookups[l].request
                             /\ k.number = lookups[l].number /\ k.paid = lookups[l].paid
<1>1. PICK k : k = [lookups[l] EXCEPT !.at = at]
  OBVIOUS
<1>2. lookups' = [lookups EXCEPT ![l] = k]
  BY <1>1 DEF Moves
<1>3. lookups[l] \in Lookup
  BY DEF TypeInv
<1>4. /\ k \in Lookup /\ k.at = at /\ k.request = lookups[l].request
      /\ k.number = lookups[l].number /\ k.paid = lookups[l].paid
  BY <1>1, <1>3 DEF Lookup
<1> QED BY <1>2, <1>4

\* Every step of a lookup asks the combiner or settles.
LEMMA LookupSteps ==
    ASSUME TypeInv, LookupInv, NEW l \in Lookups, LookupNext(l)
    PROVE  \E k \in Lookup : Settles(l, k) \/ Asks(l, k)
<1>1. /\ lookups[l] \in Lookup /\ transactionCount \in Nat
      /\ lookups[l].paid \in Nat /\ lookups[l].paid <= transactionCount
  BY DEF TypeInv, LookupInv, Lookup
<1>2. CASE FetchPhoneHashPrivate(l)
  <2>1. PICK k : k = Idle(lookups[l].number)
    OBVIOUS
  <2>2. k \in Lookup /\ k.paid = 0 /\ 0 <= transactionCount
    BY <1>1, <2>1 DEF Idle, Lookup
  <2> QED BY <1>2, <2>1, <2>2, FetchSteps DEF FetchPhoneHashPrivate
<1>3. CASE Retry(l)
  <2>1. PICK k : k = [lookups[l] EXCEPT !.bought = TRUE]
    OBVIOUS
  <2>2. k \in Lookup /\ k.paid = lookups[l].paid
    BY <1>1, <2>1 DEF Lookup
  <2> QED BY <1>1, <1>3, <2>1, <2>2, FetchSteps DEF Retry
<1>4. CASE ReceiveSalt(l)
  <2>1. PICK k \in Lookup : /\ lookups' = [lookups EXCEPT ![l] = k]
                            /\ k.at = "done" /\ k.request = lookups[l].request
                            /\ k.number = lookups[l].number /\ k.paid = lookups[l].paid
    BY <1>4, MovesTo DEF ReceiveSalt
  <2>2. saltCache' = [saltCache EXCEPT ![k.number] = "service"]
    BY <1>4, <2>1 DEF ReceiveSalt
  <2> QED BY <1>1, <1>4, <2>1, <2>2 DEF ReceiveSalt, Settles, signerVars
<1>5. CASE ReceiveRefusal(l)
  <2>1. PICK at \in {"screen", "failed"} :
           at = IF answer(l) = "quota" /\ ~lookups[l].bought THEN "screen" ELSE "failed"
    OBVIOUS
  <2>2. PICK k \in Lookup : /\ lookups' = [lookups EXCEPT ![l] = k]
                            /\ k.at = at /\ k.request = lookups[l].request
                            /\ k.paid = lookups[l].paid
    BY <1>5, <2>1, MovesTo DEF ReceiveRefusal
  <2> QED BY <1>1, <1>5, <2>1, <2>2 DEF ReceiveRefusal, Settles, signerVars
<1>6. CASE Disconnect(l) \/ Skip(l)
  <2>1. PICK k \in Lookup : /\ lookups' = [lookups EXCEPT ![l] = k]
                            /\ k.at = "failed" /\ k.paid = lookups[l].paid
    BY <1>6, MovesTo DEF Disconnect, Skip
  <2> QED BY <1>1, <1>6, <2>1 DEF Disconnect, Skip, Settles, signerVars
<1>7. CASE Buy(l)
  <2>1. PICK k \in Lookup : /\ lookups' = [lookups EXCEPT ![l] = k]
                            /\ k.at = "buying" /\ k.paid = lookups[l].paid
    BY <1>7, MovesTo DEF Buy
  <2> QED BY <1>1, <1>7, <2>1 DEF Buy, Settles, signerVars
<1>8. CASE TransferConfirmed(l) \/ TransferFailed(l) \/ TransferGivenUp(l)
  <2> USE DEF TransferConfirmed, TransferFailed, TransferGivenUp
  <2>1. PICK at \in {"bought", "failed"} : Moves(l, at)
    BY <1>8
  <2>2. PICK k \in Lookup : /\ lookups' = [lookups EXCEPT ![l] = k]
                            /\ k.at = at /\ k.paid = lookups[l].paid
    BY <2>1, MovesTo
  <2>3. transactionCount' \in {transactionCount, transactionCount + 1}
    BY <1>8
  <2>4. /\ lookups[l].at = "buying"
        /\ UNCHANGED <<standing, accounts, signing, combinerVars, saltCache, sent>>
    BY <1>8
  <2> QED BY <1>1, <2>2, <2>3, <2>4 DEF Settles
<1> QED BY <1>2, <1>3, <1>4, <1>5, <1>6, <1>7, <1>8 DEF LookupNext

\* The invariant of the signers only depends on their sets of requests and on the quota.
SameSignatures ==
    /\ UNCHANGED <<standing, accounts>>
    /\ transactionCount <= transactionCount'
    /\ \A t \in Signers : counted(t)' = counted(t) /\ clean(t)' = clean(t)
    /\ \A q \in Requests, t \in Signers :
          \/ signing'[q][t] = signing[q][t]
          \/ signing'[q][t].at = "sent" /\ ~signing'[q][t].counted

\* A step that leaves the signatures alone keeps the signers' invariant.
LEMMA SameSignaturesKeepSignerInv ==
    ASSUME SignerInv, TypeInv, TypeInv', SameSignatures
    PROVE  SignerInv'
<1>1. PICK n \in Nat : n = transactionCount' /\ transactionCount <= n
  BY DEF TypeInv, SameSignatures
<1>2. getQueryQuota(transactionCount)' = getQueryQuota(n)
  BY <1>1 DEF getQueryQuota, SameSignatures
<1>3. /\ getQueryQuota(transactionCount) \in Nat /\ getQueryQuota(n) \in Nat
      /\ getQueryQuota(transactionCount) <= getQueryQuota(n)
  BY <1>1, QuotaGrows DEF TypeInv
<1> SUFFICES ASSUME NEW t \in Signers
             PROVE  /\ accounts'[t].numLookups = Cardinality(counted(t)')
                    /\ Cardinality(clean(t)') <= getQueryQuota(n)
                    /\ \A q \in Requests :
                          /\ signing'[q][t].counted => signing'[q][t].at = "ok"
                          /\ signing'[q][t].at = "quota" => signing'[q][t].quota <= getQueryQuota(n)
  BY <1>2 DEF SignerInv
<1>4. accounts'[t].numLookups = Cardinality(counted(t)')
  BY DEF SignerInv, SameSignatures
<1>5. Cardinality(clean(t)') <= getQueryQuota(n)
  <2>1. Cardinality(clean(t)) <= getQueryQuota(transactionCount) /\ clean(t)' = clean(t)
    BY DEF SignerInv, SameSignatures
  <2>2. Cardinality(clean(t)) \in Nat
    <3>1. clean(t) \in SUBSET Requests
      BY DEF clean, signed
    <3> QED BY <3>1, Counting
  <2> QED BY <1>3, <2>1, <2>2
<1>6. ASSUME NEW q \in Requests
      PROVE  /\ signing'[q][t].counted => signing'[q][t].at = "ok"
             /\ signing'[q][t].at = "quota" => signing'[q][t].quota <= getQueryQuota(n)
  <2>1. signing[q][t].quota \in Int
    BY DEF TypeInv, Handler
  <2> QED BY <1>3, <2>1 DEF SignerInv, SameSignatures
<1> QED BY <1>4, <1>5, <1>6

\* A lookup that settles keeps the inductive invariant.
LEMMA SettlesKeepsInv ==
    ASSUME IInv, NEW l \in Lookups, NEW k \in Lookup, Settles(l, k)
    PROVE  IInv'
<1>1. UNCHANGED <<standing, accounts, signing, combiner, sent>>
  BY DEF Settles, combinerVars
<1>2. transactionCount \in Nat /\ transactionCount' \in Nat /\ transactionCount <= transactionCount'
  BY DEF IInv, TypeInv, Settles
<1>3. \A m \in Lookups : lookups'[m] = IF m = l THEN k ELSE lookups[m]
  BY DEF IInv, TypeInv, Settles
<1>4. TypeInv'
  BY <1>1, <1>2 DEF IInv, TypeInv, Settles
<1>5. SignerInv'
  <2>1. \A t \in Signers : counted(t)' = counted(t) /\ clean(t)' = clean(t)
    BY <1>1 DEF counted, clean, signed, raced, lost
  <2>2. SameSignatures
    BY <1>1, <1>2, <2>1 DEF SameSignatures
  <2> QED BY <1>4, <2>2, SameSignaturesKeepSignerInv DEF IInv
<1>6. CombinerInv'
  BY <1>1 DEF IInv, CombinerInv, Combined, good, signed
<1>7. SentInv'
  BY <1>1 DEF IInv, SentInv
<1>8. LookupInv'
  <2> SUFFICES ASSUME NEW m \in Lookups
               PROVE  /\ lookups'[m].paid <= transactionCount'
                      /\ lookups'[m].at \in {"posted", "screen"} =>
                            /\ lookups'[m].request \in 1..sent
                            /\ \A t \in Signers : Owes(lookups[m].request, t, due(m))'
    BY <1>1 DEF LookupInv
  <2>1. lookups'[m].paid <= transactionCount'
    <3>1. lookups'[m].paid <= transactionCount /\ lookups'[m].paid \in Nat
      BY <1>3, <1>4 DEF IInv, LookupInv, Settles, TypeInv, Lookup
    <3> QED BY <1>2, <3>1
  <2>2. lookups'[m].at \in {"posted", "screen"} =>
           /\ lookups[m].at \in {"posted", "screen"}
           /\ lookups'[m].request = lookups[m].request /\ lookups'[m].paid = lookups[m].paid
    BY <1>3 DEF Settles
  <2>3. ASSUME lookups'[m].at \in {"posted", "screen"}, NEW t \in Signers
        PROVE  Owes(lookups[m].request, t, due(m))'
    <3>1. due(m)' = due(m)
      BY <1>1, <2>2, <2>3 DEF due, getQueryQuota
    <3>2. Owes(lookups[m].request, t, due(m))
      BY <2>2, <2>3 DEF IInv, LookupInv
    <3>3. signed(t)' = signed(t)
      BY <1>1 DEF signed
    <3> QED BY <1>1, <2>2, <2>3, <3>1, <3>2, <3>3 DEF Owes
  <2> QED BY <2>1, <2>2, <2>3 DEF IInv, LookupInv
<1>9. SaltInv'
  <2>1. ASSUME NEW n \in Numbers, Answered(n)
        PROVE  Answered(n)'
    BY <1>1, <1>3, <2>1 DEF Answered, Settles
  <2>2. CASE saltCache' = saltCache
    BY <2>1, <2>2 DEF IInv, SaltInv
  <2>3. CASE saltCache' # saltCache
    <3>1. /\ lookups[l].at = "posted" /\ answer(l) = "salt"
          /\ k.at = "done" /\ k.request = lookups[l].request
          /\ saltCache' = [saltCache EXCEPT ![k.number] = "service"]
      BY <2>3 DEF Settles
    <3>2. lookups[l].request \in 1..sent
      BY <3>1 DEF IInv, LookupInv
    <3>3. Answered(k.number)'
      BY <1>1, <1>3, <3>1, <3>2 DEF Answered, answer
    <3> QED BY <2>1, <3>1, <3>3 DEF IInv, TypeInv, SaltInv
  <2> QED BY <2>2, <2>3
<1> QED BY <1>4, <1>5, <1>6, <1>7, <1>8, <1>9 DEF IInv

\* A lookup that asks keeps the inductive invariant.
LEMMA AsksKeepsInv ==
    ASSUME IInv, NEW l \in Lookups, NEW k \in Lookup, Asks(l, k)
    PROVE  IInv'
<1>1. PICK r \in Requests : r = sent + 1 /\ sent' = r
  BY SignerAssumption DEF IInv, TypeInv, Asks, Requests
<1>2. /\ combiner[r] = NotReceived
      /\ signing[r] = [s \in Signers |-> NotSent]
  BY <1>1 DEF IInv, SentInv, TypeInv
<1>3. PICK h : h = [NotSent EXCEPT !.at = "sent"]
  OBVIOUS
<1>4. h \in Handler /\ h.at = "sent" /\ ~h.counted
  <2>1. NotSent \in Handler /\ ~NotSent.counted
    BY DEF NotSent, Handler
  <2> QED BY <1>3, <2>1 DEF Handler
<1>5. signing' = [signing EXCEPT ![r] = [s \in Signers |-> h]]
  BY <1>1, <1>3 DEF Asks, requestSignatures
<1>6. \A q \in Requests, t \in Signers :
         signing'[q][t] = IF q = r THEN h ELSE signing[q][t]
  BY <1>5 DEF IInv, TypeInv
<1>7. PICK c : c = [combiner[r] EXCEPT !.pending = Signers]
  OBVIOUS
<1>8. combiner' = [combiner EXCEPT ![r] = c]
  BY <1>1, <1>7 DEF Asks, requestSignatures
<1>9. /\ c \in Reception /\ c.combining = {} /\ c.successes = {} /\ c.code403 = 0
      /\ c.answer = "none" /\ c.pending = Signers
  <2>1. NotReceived \in Reception
    BY DEF NotReceived, Reception
  <2> QED BY <1>2, <1>7, <2>1 DEF NotReceived, Reception
<1>10. UNCHANGED <<standing, transactionCount, accounts, saltCache>>
  BY DEF Asks
<1>11. \A m \in Lookups : lookups'[m] = IF m = l THEN k ELSE lookups[m]
  BY DEF IInv, TypeInv, Asks
<1>12. signing[r] = [s \in Signers |-> NotSent] /\ NotSent.at = "away" /\ ~NotSent.counted
  BY <1>2 DEF NotSent
<1>13. Kept
  BY <1>6, <1>12 DEF Kept, SignedAt
<1>14. TypeInv'
  <2>1. signing' \in [Requests -> [Signers -> Handler]]
    BY <1>4, <1>5 DEF IInv, TypeInv
  <2>2. combiner' \in [Requests -> Reception]
    BY <1>8, <1>9 DEF IInv, TypeInv
  <2>3. lookups' \in [Lookups -> Lookup]
    BY DEF Asks, IInv, TypeInv
  <2>4. sent' \in 0..MaxRequests
    BY <1>1, SignerAssumption DEF Requests
  <2> QED BY <1>10, <2>1, <2>2, <2>3, <2>4 DEF IInv, TypeInv
<1>15. \A t \in Signers :
          counted(t)' = counted(t) /\ clean(t)' = clean(t) /\ signed(t)' = signed(t)
  <2> SUFFICES ASSUME NEW t \in Signers
               PROVE  counted(t)' = counted(t) /\ clean(t)' = clean(t) /\ signed(t)' = signed(t)
    OBVIOUS
  <2>1. \A q \in Requests : q # r => signing'[q][t] = signing[q][t]
    BY <1>6
  <2>2. signing'[r][t].at = "sent" /\ ~signing'[r][t].counted
    BY <1>4, <1>6
  <2>3. signing[r][t].at = "away" /\ ~signing[r][t].counted
    BY <1>12
  <2>4. counted(t)' = counted(t)
    BY <2>1, <2>2, <2>3 DEF counted
  <2>5. signed(t)' = signed(t) /\ r \notin signed(t)
    BY <2>1, <2>2, <2>3 DEF signed
  <2>6. clean(t)' = clean(t)
    BY <2>1, <2>5 DEF clean, raced, lost, signed
  <2> QED BY <2>4, <2>5, <2>6
<1>16. SignerInv'
  <2>1. transactionCount <= transactionCount'
    BY <1>10 DEF IInv, TypeInv
  <2>2. SameSignatures
    BY <1>4, <1>6, <1>10, <1>15, <2>1 DEF SameSignatures
  <2> QED BY <1>14, <2>2, SameSignaturesKeepSignerInv DEF IInv
<1>17. CombinerInv'
  <2>1. ASSUME NEW q \in Requests
        PROVE  Combined(q, combiner[q])'
    <3>1. PICK i \in Reception : i = combiner'[q]
      BY <1>14 DEF TypeInv
    <3>2. Combined(q, i)'
      <4>1. CASE q = r
        <5>1. i = c
          BY <1>8, <3>1, <4>1 DEF IInv, TypeInv
        <5>2. Cardinality(c.successes) < Threshold
          BY <1>9, FS_EmptySet, ThresholdAssumption
        <5> QED BY <1>9, <5>1, <5>2 DEF Combined
      <4>2. CASE q # r
        <5>1. i = combiner[q]
          BY <1>8, <3>1, <4>2 DEF IInv, TypeInv
        <5>2. Combined(q, i)
          BY <5>1 DEF IInv, CombinerInv
        <5> QED BY <1>13, <5>2, KeptCombined
      <4> QED BY <4>1, <4>2
    <3> QED BY <3>1, <3>2 DEF Combined
  <2> QED BY <2>1 DEF CombinerInv
<1>18. SentInv'
  <2> SUFFICES ASSUME NEW q \in Requests, q > sent'
               PROVE  combiner'[q] = NotReceived /\ signing'[q] = [s \in Signers |-> NotSent]
    BY DEF SentInv
  <2>1. q # r /\ q > sent
    BY <1>1 DEF IInv, TypeInv, Requests
  <2> QED BY <1>5, <1>8, <2>1 DEF IInv, TypeInv, SentInv
<1>19. LookupInv'
  <2> SUFFICES ASSUME NEW m \in Lookups
               PROVE  /\ lookups'[m].paid <= transactionCount'
                      /\ lookups'[m].at \in {"posted", "screen"} =>
                            /\ lookups'[m].request \in 1..sent'
                            /\ \A t \in Signers : Owes(lookups[m].request, t, due(m))'
    BY DEF LookupInv
  <2>1. CASE m = l
    <3>1. lookups'[m] = k /\ k.request = r /\ k.at = "posted"
      BY <1>1, <1>11, <2>1 DEF Asks
    <3>2. k.paid <= transactionCount'
      BY <1>10 DEF Asks, IInv, TypeInv
    <3>3. r \in 1..sent'
      BY <1>1 DEF Requests
    <3>4. \A t \in Signers : Owes(lookups[m].request, t, due(m))'
      BY <1>4, <1>6, <3>1 DEF Owes
    <3> QED BY <3>1, <3>2, <3>3, <3>4
  <2>2. CASE m # l
    <3>1. lookups'[m] = lookups[m]
      BY <1>11, <2>2
    <3>2. due(m)' = due(m)
      BY <1>10, <3>1 DEF due, getQueryQuota
    <3>3. ASSUME lookups[m].at \in {"posted", "screen"}
          PROVE  /\ lookups[m].request \in 1..sent /\ lookups[m].request \in Requests
                 /\ lookups[m].request # r /\ lookups[m].request \in 1..sent'
      <4>1. lookups[m].request \in 1..sent /\ sent \in Int
        BY <3>3 DEF IInv, LookupInv, TypeInv
      <4>2. lookups[m].request \in Requests
        BY <4>1, SentRequests DEF IInv
      <4> QED BY <1>1, <4>1, <4>2
    <3>4. ASSUME lookups[m].at \in {"posted", "screen"}, NEW t \in Signers
          PROVE  Owes(lookups[m].request, t, due(m))'
      <4>1. Owes(lookups[m].request, t, due(m))
        BY <3>4 DEF IInv, LookupInv
      <4>2. signing'[lookups'[m].request][t] = signing[lookups[m].request][t]
        BY <1>6, <3>1, <3>3, <3>4
      <4> QED BY <1>15, <3>2, <4>1, <4>2 DEF Owes
    <3> QED BY <1>10, <3>1, <3>3, <3>4 DEF IInv, LookupInv
  <2> QED BY <2>1, <2>2
<1>20. SaltInv'
  <2>1. ASSUME NEW n \in Numbers, Answered(n)
        PROVE  Answered(n)'
    <3>1. PICK m \in Lookups :
             /\ lookups[m].number = n /\ lookups[m].at = "done"
             /\ lookups[m].request \in 1..sent
             /\ combiner[lookups[m].request].answer = "salt"
      BY <2>1 DEF Answered
    <3>2. lookups'[m] = lookups[m]
      BY <1>11, <3>1 DEF Asks
    <3>3. lookups[m].request \in 1..sent' /\ lookups[m].request # r
      BY <1>1, <3>1 DEF IInv, TypeInv
    <3>4. combiner'[lookups[m].request] = combiner[lookups[m].request]
      BY <1>8, <3>3 DEF IInv, TypeInv
    <3> QED BY <3>1, <3>2, <3>3, <3>4 DEF Answered
  <2> QED BY <1>10, <2>1 DEF IInv, SaltInv
<1> QED BY <1>14, <1>16, <1>17, <1>18, <1>19, <1>20 DEF IInv

\* So does a comment that brings a salt.
LEMMA CommentKeepsInv ==
    ASSUME IInv, NEW n \in Numbers, updatePhoneNumberMappings(n)
    PROVE  IInv'
<1>1. /\ UNCHANGED <<signerVars, combinerVars, lookups, sent>>
      /\ saltCache' = [saltCache EXCEPT ![n] = "comment"]
  BY DEF updatePhoneNumberMappings
<1>2. TypeInv'
  BY <1>1 DEF IInv, TypeInv, signerVars, combinerVars
<1>3. SignerInv'
  BY <1>1, ZenonT(30)
     DEF IInv, SignerInv, signerVars, counted, clean, signed, raced, lost, getQueryQuota
<1>4. CombinerInv'
  BY <1>1 DEF IInv, CombinerInv, Combined, good, signed, signerVars, combinerVars
<1>5. SentInv'
  BY <1>1 DEF IInv, SentInv, signerVars, combinerVars
<1>6. LookupInv'
  BY <1>1 DEF IInv, LookupInv, Owes, due, signed, getQueryQuota, signerVars
<1>7. SaltInv'
  <2>1. \A m \in Numbers : Answered(m) => Answered(m)'
    BY <1>1 DEF Answered, combinerVars
  <2>2. \A m \in Numbers : saltCache'[m] = "service" => saltCache[m] = "service"
    BY <1>1 DEF IInv, TypeInv
  <2> QED BY <2>1, <2>2 DEF IInv, SaltInv
<1> QED BY <1>2, <1>3, <1>4, <1>5, <1>6, <1>7 DEF IInv

-----------------------------------------------------------------------------
(***************************************************************************)
(* Theorems                                                                *)
(***************************************************************************)

\* The service starts in the inductive invariant.
LEMMA InitInv ==
    Init => IInv
<1> SUFFICES ASSUME Init
             PROVE  IInv
  OBVIOUS
<1> USE DEF Init, SignerInit, CombinerInit
<1>1. NotSent \in Handler /\ NotSent.at = "away" /\ ~NotSent.counted
  BY DEF NotSent, Handler
<1>2. \A q \in Requests, t \in Signers : signing[q][t] = NotSent
  OBVIOUS
<1>3. NotReceived \in Reception
  BY DEF NotReceived, Reception
<1>4. \A l \in Lookups : lookups[l] \in {Idle(n) : n \in Numbers}
  OBVIOUS
<1>5. \A l \in Lookups : lookups[l].at = "idle" /\ lookups[l].paid = 0
  BY <1>4 DEF Idle
<1>6. TypeInv
  <2>1. lookups \in [Lookups -> Lookup]
    <3>1. \A n \in Numbers : Idle(n) \in Lookup
      BY DEF Idle, Lookup
    <3>2. {Idle(n) : n \in Numbers} \subseteq Lookup
      BY <3>1
    <3>3. lookups \in [Lookups -> {Idle(n) : n \in Numbers}]
      OBVIOUS
    <3> HIDE DEF Init
    <3> QED BY <3>2, <3>3
  <2>2. accounts \in [Signers -> [exists : BOOLEAN, numLookups : Nat]]
    OBVIOUS
  <2>3. sent \in 0..MaxRequests
    BY SignerAssumption
  <2>4. standing \in {"verified", "balance", "neither"} /\ transactionCount \in Nat
    BY SignerAssumption
  <2>5. signing \in [Requests -> [Signers -> Handler]]
    BY <1>1
  <2>6. combiner \in [Requests -> Reception]
    BY <1>3
  <2>7. saltCache \in [Numbers -> {"none", "service", "comment"}]
    OBVIOUS
  <2> QED BY <2>1, <2>2, <2>3, <2>4, <2>5, <2>6, <2>7 DEF TypeInv
<1>7. SignerInv
  <2> SUFFICES ASSUME NEW t \in Signers
               PROVE  /\ accounts[t].numLookups = Cardinality(counted(t))
                      /\ Cardinality(clean(t)) <= getQueryQuota(transactionCount)
                      /\ \A q \in Requests :
                            /\ signing[q][t].counted => signing[q][t].at = "ok"
                            /\ signing[q][t].at = "quota" =>
                                  signing[q][t].quota <= getQueryQuota(transactionCount)
    BY DEF SignerInv
  <2>1. counted(t) = {} /\ clean(t) = {}
    BY <1>1, <1>2 DEF counted, clean, signed
  <2>2. accounts[t].numLookups = 0
    OBVIOUS
  <2>3. getQueryQuota(transactionCount) \in Nat
    BY <1>6, QuotaGrows DEF TypeInv
  <2> QED BY <1>1, <1>2, <2>1, <2>2, <2>3, FS_EmptySet
<1>8. CombinerInv
  <2>1. 0 < Threshold /\ Cardinality({}) = 0
    BY ThresholdAssumption, FS_EmptySet
  <2>2. \A q \in Requests : combiner[q] = NotReceived
    OBVIOUS
  <2>3. Threshold \in Nat
    BY ThresholdAssumption
  <2> HIDE DEF Init, SignerInit, CombinerInit
  <2>4. ASSUME NEW q \in Requests
        PROVE  Combined(q, combiner[q])
    <3>1. /\ combiner[q].combining = {} /\ combiner[q].successes = {}
          /\ combiner[q].code403 = 0 /\ combiner[q].answer = "none"
      BY <2>2 DEF NotReceived
    <3> QED BY <2>1, <2>3, <3>1 DEF Combined
  <2> QED BY <2>4 DEF CombinerInv
<1>9. SentInv
  BY DEF SentInv
<1>10. LookupInv
  BY <1>5, <1>6 DEF LookupInv, TypeInv
<1>11. SaltInv
  BY DEF SaltInv
<1> QED BY <1>6, <1>7, <1>8, <1>9, <1>10, <1>11 DEF IInv

\* Every step of lookups, combiner and signers keeps it.
LEMMA StepInv ==
    IInv /\ [Next]_vars => IInv'
<1> SUFFICES ASSUME IInv, [Next]_vars
             PROVE  IInv'
  OBVIOUS
<1>1. CASE SignerNext /\ UNCHANGED <<combinerVars, saltCache, lookups, sent>>
  BY <1>1, SignerKeepsInv
<1>2. CASE CombinerNext /\ UNCHANGED <<saltCache, lookups, sent>>
  BY <1>2, CombinerKeepsInv
<1>3. ASSUME NEW l \in Lookups, LookupNext(l)
      PROVE  IInv'
  <2>1. PICK k \in Lookup : Settles(l, k) \/ Asks(l, k)
    BY <1>3, LookupSteps DEF IInv
  <2> QED BY <2>1, SettlesKeepsInv, AsksKeepsInv
<1>4. CASE UNCHANGED vars
  <2> USE <1>4 DEF vars, signerVars, combinerVars
  <2>1. TypeInv'
    BY DEF IInv, TypeInv
  <2>2. SignerInv'
    BY ZenonT(30) DEF IInv, SignerInv, counted, clean, signed, raced, lost, getQueryQuota
  <2>3. CombinerInv'
    BY DEF IInv, CombinerInv, Combined, good, signed
  <2>4. SentInv'
    BY DEF IInv, SentInv
  <2>5. LookupInv'
    BY DEF IInv, LookupInv, Owes, due, signed, getQueryQuota
  <2>6. SaltInv'
    BY DEF IInv, SaltInv, Answered
  <2> QED BY <2>1, <2>2, <2>3, <2>4, <2>5, <2>6 DEF IInv
<1>5. ASSUME NEW n \in Numbers, updatePhoneNumberMappings(n)
      PROVE  IInv'
  BY <1>5, CommentKeepsInv
<1> QED BY <1>1, <1>2, <1>3, <1>4, <1>5 DEF Next, LookupNext

\* The inductive invariant, with the types of the state, holds in every state.
THEOREM ServiceInvariant == Spec => []IInv
BY InitInv, StepInv, PTL DEF Spec

\* A salt that the service gave a wallet was combined, for a request about that number, from
\* good signatures of as many signers as the threshold asks for, whatever signers send,
\* whichever fail and whatever comments bring.
THEOREM SaltsAreBacked == Spec => []SaltHasThreshold
<1>1. IInv => SaltHasThreshold
  <2> SUFFICES ASSUME IInv, NEW n \in Numbers, saltCache[n] = "service"
               PROVE  \E l \in Lookups :
                         /\ lookups[l].number = n /\ lookups[l].at = "done"
                         /\ Cardinality({s \in Signers :
                                           /\ lookups[l].request \in signed(s)
                                           /\ signing[lookups[l].request][s].valid}) >= Threshold
    BY DEF SaltHasThreshold
  <2>1. PICK l \in Lookups :
           /\ lookups[l].number = n /\ lookups[l].at = "done"
           /\ lookups[l].request \in 1..sent
           /\ combiner[lookups[l].request].answer = "salt"
    BY DEF IInv, SaltInv, Answered
  <2>2. PICK r \in Requests : r = lookups[l].request
    BY <2>1, SentRequests DEF IInv
  <2>3. Cardinality(good(r)) >= Threshold
    BY <2>1, <2>2 DEF IInv, CombinerInv, Combined
  <2> QED BY <2>1, <2>2, <2>3 DEF good
<1> QED BY <1>1, ServiceInvariant, PTL

\* Of the signatures a signer gives an account, those beyond its quota overlapped another
\* one or had their count lost.
THEOREM QuotaHoldsButForRaces == Spec => []QuotaExceededOnlyByRaces
<1>1. IInv => QuotaExceededOnlyByRaces
  BY DEF IInv, SignerInv, QuotaExceededOnlyByRaces, clean
<1> QED BY <1>1, ServiceInvariant, PTL

\* A lookup that is refused for its quota had all the signatures paid for by the time it was
\* sent, at one signer.
THEOREM RefusalsAreFair == Spec => []RefusedOnlyWhenSpent
<1>1. IInv => RefusedOnlyWhenSpent
  <2> SUFFICES ASSUME IInv, NEW l \in Lookups,
                      lookups[l].at \in {"posted", "screen"}, answer(l) = "quota"
               PROVE  \E s \in Signers :
                         /\ signing[lookups[l].request][s].at = "forbidden"
                         /\ Cardinality(signed(s)) >= getQueryQuota(lookups[l].paid)
    BY DEF RefusedOnlyWhenSpent
  <2>1. /\ lookups[l].request \in Requests
        /\ \A s \in Signers : Owes(lookups[l].request, s, due(l))
    BY SentRequests DEF IInv, LookupInv
  <2>2. PICK s \in Signers : signing[lookups[l].request][s].at = "forbidden"
    BY <2>1 DEF IInv, CombinerInv, Combined, answer
  <2> QED BY <2>1, <2>2 DEF Owes, due
<1> QED BY <1>1, ServiceInvariant, PTL

\* A request that nothing is pending for is answered, lacks signatures, or was sent a
\* signature that does not verify.
THEOREM RequestsAreAnswered == Spec => []NoneForgotten
<1>1. IInv => NoneForgotten
  <2> SUFFICES ASSUME IInv, NEW r \in 1..sent
               PROVE  \/ combiner[r].answer # "none"
                      \/ combiner[r].pending # {}
                      \/ Cardinality(combiner[r].successes) < Threshold
                      \/ \E s \in combiner[r].successes : ~signing[r][s].valid
    BY DEF NoneForgotten
  <2>1. r \in Requests
    BY SentRequests DEF IInv
  <2>2. Combined(r, combiner[r])
    BY <2>1 DEF IInv, CombinerInv
  <2> QED BY <2>2 DEF Combined
<1> QED BY <1>1, ServiceInvariant, PTL

=============================================================================
