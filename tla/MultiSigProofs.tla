--------------------------- MODULE MultiSigProofs ---------------------------
(***************************************************************************)
(* Proofs about the wallet of MultiSig.sol, for any number of addresses,   *)
(* transactions and calls.  OwnersConsistent and TypeOK are inductive      *)
(* together; what an execution requires follows from them, because the     *)
(* loop of isConfirmed counts positions of the list of owners and the      *)
(* property counts owners.                                                 *)
(***************************************************************************)
EXTENDS MultiSig, FiniteSetTheorems, TLAPS

Wallets == [owners : Seq(Addresses), isOwner : SUBSET Addresses,
            required : Nat, internalRequired : Nat]

Transaction == [call : Calls, executed : BOOLEAN]

Consistent(w) ==
    /\ w \in Wallets
    /\ w.isOwner = Range(w.owners)
    /\ IsInjective(w.owners)
    /\ validRequirement(Len(w.owners), w.required)
    /\ validRequirement(Len(w.owners), w.internalRequired)

IInv == TypeOK /\ OwnersConsistent

-----------------------------------------------------------------------------

\* addOwner keeps the list and the mapping of the owners in agreement.
LEMMA AddOwnerConsistent ==
    ASSUME NEW w, Consistent(w), NEW owner \in Addresses \cup {NullAddress},
           NEW v \in addOwner(w, owner)
    PROVE  Consistent(v)
<1>1. /\ owner \in Addresses /\ owner \notin w.isOwner
      /\ validRequirement(Len(w.owners) + 1, w.internalRequired)
      /\ v = [w EXCEPT !.isOwner = @ \cup {owner}, !.owners = Append(@, owner)]
  BY DEF addOwner
<1>2. w \in Wallets /\ Len(w.owners) \in Nat /\ w.owners \in Seq(Addresses)
  BY DEF Consistent, Wallets
<1>3. /\ v \in Wallets
      /\ v.owners = Append(w.owners, owner) /\ v.isOwner = w.isOwner \cup {owner}
      /\ v.required = w.required /\ v.internalRequired = w.internalRequired
  <2>1. /\ Append(w.owners, owner) \in Seq(Addresses)
        /\ w.isOwner \cup {owner} \in SUBSET Addresses
    BY <1>1, <1>2 DEF Wallets
  <2> DEFINE longer == Append(w.owners, owner)
             more   == w.isOwner \cup {owner}
  <2>2. v = [w EXCEPT !.isOwner = more, !.owners = longer]
    BY <1>1, <1>2 DEF Wallets
  <2>3. longer \in Seq(Addresses) /\ more \in SUBSET Addresses
    BY <2>1
  <2> HIDE DEF longer, more
  <2>4. /\ v \in Wallets /\ v.owners = longer /\ v.isOwner = more
        /\ v.required = w.required /\ v.internalRequired = w.internalRequired
    BY <1>2, <2>2, <2>3 DEF Wallets
  <2> QED BY <2>4 DEF longer, more
<1>4. v.isOwner = Range(v.owners)
  <2>1. \A x : x \in Range(v.owners) <=> x \in Range(w.owners) \/ x = owner
    BY <1>2, <1>3 DEF Range
  <2> QED BY <2>1, <1>3 DEF Consistent
<1>5. IsInjective(v.owners)
  BY <1>1, <1>2, <1>3 DEF Consistent, IsInjective, Range
<1>6. validRequirement(Len(v.owners), v.required)
  BY <1>1, <1>2, <1>3, MultiSigAssumption DEF Consistent, validRequirement, Wallets
<1>7. validRequirement(Len(v.owners), v.internalRequired)
  BY <1>1, <1>2, <1>3 DEF validRequirement
<1> QED BY <1>3, <1>4, <1>5, <1>6, <1>7 DEF Consistent

\* The position of an owner in the list.
LEMMA IndexOfOwner ==
    ASSUME NEW list \in Seq(Addresses), NEW owner \in Range(list)
    PROVE  /\ indexOf(list, owner) \in 1..Len(list)
           /\ list[indexOf(list, owner)] = owner
           /\ Len(list) \in Nat \ {0}
           /\ DOMAIN list = 1..Len(list)
           /\ \A i \in 1..Len(list) : list[i] \in Addresses
<1>1. \E i \in DOMAIN list : list[i] = owner
  BY DEF Range
<1>2. /\ indexOf(list, owner) \in DOMAIN list
      /\ list[indexOf(list, owner)] = owner
  BY <1>1 DEF indexOf
<1> QED BY <1>2

\* Moving the last owner into the gap loses nobody else and lists nobody twice.
LEMMA WithoutOwner ==
    ASSUME NEW list \in Seq(Addresses), IsInjective(list), NEW owner \in Range(list)
    PROVE  LET shorter == withoutOwner(list, owner)
           IN  /\ shorter \in Seq(Addresses)
               /\ Len(shorter) = Len(list) - 1
               /\ Range(shorter) = Range(list) \ {owner}
               /\ IsInjective(shorter)
<1> DEFINE n == Len(list)
           k == indexOf(list, owner)
           moved == [list EXCEPT ![k] = list[n]]
           shorter == withoutOwner(list, owner)
<1>1. /\ k \in 1..n /\ list[k] = owner /\ n \in Nat \ {0} /\ DOMAIN list = 1..n
      /\ \A i \in 1..n : list[i] \in Addresses
  BY IndexOfOwner
<1>2. shorter = SubSeq(moved, 1, n - 1)
  BY DEF withoutOwner
<1> HIDE DEF n, k, shorter
<1>3. moved \in Seq(Addresses) /\ Len(moved) = n
      /\ \A i \in 1..n : moved[i] = IF i = k THEN list[n] ELSE list[i]
  <2>1. moved \in [1..n -> Addresses]
    BY <1>1
  <2> QED BY <1>1, <2>1
<1> HIDE DEF moved
<1>4. /\ shorter \in Seq(Addresses) /\ Len(shorter) = n - 1 /\ DOMAIN shorter = 1..n - 1
      /\ \A i \in 1..n - 1 : shorter[i] = IF i = k THEN list[n] ELSE list[i]
  BY <1>1, <1>2, <1>3
<1>5. ASSUME NEW x \in Range(shorter) PROVE x \in Range(list) \ {owner}
  <2>1. PICK i \in 1..n - 1 : x = shorter[i]
    BY <1>4 DEF Range
  <2>2. PICK j \in 1..n : x = list[j] /\ j # k
    BY <1>1, <1>4, <2>1
  <2> QED BY <1>1, <2>2 DEF Range, IsInjective
<1>6. ASSUME NEW x \in Range(list) \ {owner} PROVE x \in Range(shorter)
  <2>1. PICK i \in 1..n : x = list[i] /\ i # k
    BY <1>1 DEF Range
  <2>2. PICK j \in 1..n - 1 : x = shorter[j]
    BY <1>1, <1>4, <2>1
  <2> QED BY <1>4, <2>2 DEF Range
<1>7. IsInjective(shorter)
  <2> SUFFICES ASSUME NEW i \in 1..n - 1, NEW j \in 1..n - 1, shorter[i] = shorter[j]
               PROVE  i = j
    BY <1>4 DEF IsInjective
  <2>1. \A a, b \in 1..n : list[a] = list[b] => a = b
    BY <1>1 DEF IsInjective
  <2> QED BY <1>1, <1>4, <2>1
<1> QED BY <1>4, <1>5, <1>6, <1>7 DEF n, shorter

\* removeOwner keeps list and mapping in agreement, and the requirements within reach.
LEMMA RemoveOwnerConsistent ==
    ASSUME NEW w, Consistent(w), NEW owner, NEW v \in removeOwner(w, owner)
    PROVE  Consistent(v)
<1> DEFINE list == w.owners
           n == Len(list)
           shorter == withoutOwner(list, owner)
<1>1. /\ owner \in w.isOwner
      /\ w.required > n - 1 \/ w.internalRequired > n - 1 => validRequirement(n - 1, n - 1)
      /\ v = [owners           |-> shorter,
              isOwner          |-> w.isOwner \ {owner},
              required         |-> lowered(w.required, n - 1),
              internalRequired |-> lowered(w.internalRequired, n - 1)]
  BY DEF removeOwner
<1>2. /\ list \in Seq(Addresses) /\ n \in Nat
      /\ w.required \in Nat /\ w.internalRequired \in Nat
      /\ w.isOwner \subseteq Addresses
      /\ w.isOwner = Range(list) /\ IsInjective(list)
      /\ validRequirement(n, w.required) /\ validRequirement(n, w.internalRequired)
  BY DEF Consistent, Wallets
<1> HIDE DEF list
<1>3. /\ shorter \in Seq(Addresses) /\ Len(shorter) = n - 1
      /\ Range(shorter) = Range(list) \ {owner} /\ IsInjective(shorter)
  BY <1>1, <1>2, WithoutOwner
<1> HIDE DEF shorter, n
<1>4. /\ v.owners = shorter /\ v.isOwner = w.isOwner \ {owner}
      /\ v.required = lowered(w.required, n - 1)
      /\ v.internalRequired = lowered(w.internalRequired, n - 1)
  BY <1>1
<1>5. /\ v.required \in Nat /\ v.internalRequired \in Nat
      /\ validRequirement(n - 1, v.required) /\ validRequirement(n - 1, v.internalRequired)
  BY <1>1, <1>2, <1>4, MultiSigAssumption DEF lowered, validRequirement
<1>6. v \in Wallets
  BY <1>1, <1>2, <1>3, <1>4, <1>5 DEF Wallets
<1> QED BY <1>2, <1>3, <1>4, <1>5, <1>6 DEF Consistent

\* Putting a new owner where an old one was changes only these two.
LEMMA ReplacedOwner ==
    ASSUME NEW list \in Seq(Addresses), IsInjective(list), NEW owner \in Range(list),
           NEW newOwner \in Addresses, newOwner \notin Range(list)
    PROVE  LET replaced == [list EXCEPT ![indexOf(list, owner)] = newOwner]
           IN  /\ replaced \in Seq(Addresses)
               /\ Len(replaced) = Len(list)
               /\ Range(replaced) = (Range(list) \ {owner}) \cup {newOwner}
               /\ IsInjective(replaced)
<1> DEFINE n == Len(list)
           k == indexOf(list, owner)
           replaced == [list EXCEPT ![k] = newOwner]
<1>1. /\ k \in 1..n /\ list[k] = owner /\ n \in Nat \ {0} /\ DOMAIN list = 1..n
      /\ \A i \in 1..n : list[i] \in Addresses
  BY IndexOfOwner
<1> HIDE DEF n, k
<1>2. /\ replaced \in Seq(Addresses) /\ Len(replaced) = n /\ DOMAIN replaced = 1..n
      /\ \A i \in 1..n : replaced[i] = IF i = k THEN newOwner ELSE list[i]
  <2>1. replaced \in [1..n -> Addresses]
    BY <1>1
  <2> QED BY <1>1, <2>1
<1> HIDE DEF replaced
<1>3. \A a, b \in 1..n : list[a] = list[b] => a = b
  BY <1>1 DEF IsInjective
<1>4. \A i \in 1..n : list[i] # newOwner
  BY <1>1 DEF Range
<1>5. ASSUME NEW x \in Range(replaced) PROVE x \in (Range(list) \ {owner}) \cup {newOwner}
  <2>1. PICK i \in 1..n : x = replaced[i]
    BY <1>2 DEF Range
  <2> QED BY <1>1, <1>2, <1>3, <2>1 DEF Range
<1>6. ASSUME NEW x \in (Range(list) \ {owner}) \cup {newOwner} PROVE x \in Range(replaced)
  <2>1. PICK j \in 1..n : x = replaced[j]
    BY <1>1, <1>2 DEF Range
  <2> QED BY <1>2, <2>1 DEF Range
<1>7. IsInjective(replaced)
  BY <1>2, <1>3, <1>4 DEF IsInjective
<1> QED BY <1>2, <1>5, <1>6, <1>7 DEF n, k, replaced

\* replaceOwner keeps list and mapping in agreement.
LEMMA ReplaceOwnerConsistent ==
    ASSUME NEW w, Consistent(w), NEW owner, NEW newOwner \in Addresses \cup {NullAddress},
           NEW v \in replaceOwner(w, owner, newOwner)
    PROVE  Consistent(v)
<1> DEFINE list == w.owners
           replaced == [list EXCEPT ![indexOf(list, owner)] = newOwner]
           others == (w.isOwner \ {owner}) \cup {newOwner}
<1>1. /\ w \in Wallets
      /\ list \in Seq(Addresses) /\ w.isOwner \subseteq Addresses
      /\ w.isOwner = Range(list) /\ IsInjective(list)
      /\ validRequirement(Len(list), w.required)
      /\ validRequirement(Len(list), w.internalRequired)
  BY DEF Consistent, Wallets
<1>2. /\ owner \in w.isOwner /\ newOwner \in Addresses /\ newOwner \notin w.isOwner
      /\ v = [w EXCEPT !.owners[indexOf(w.owners, owner)] = newOwner,
                       !.isOwner = (@ \ {owner}) \cup {newOwner}]
  BY DEF replaceOwner
<1>3. v = [w EXCEPT !.owners = replaced, !.isOwner = others]
  BY <1>1, <1>2 DEF Wallets
<1> HIDE DEF list
<1>4. /\ replaced \in Seq(Addresses) /\ Len(replaced) = Len(list)
      /\ Range(replaced) = others /\ IsInjective(replaced)
      /\ others \in SUBSET Addresses
  BY <1>1, <1>2, ReplacedOwner
<1> HIDE DEF replaced, others
<1>5. /\ v \in Wallets /\ v.owners = replaced /\ v.isOwner = others
      /\ v.required = w.required /\ v.internalRequired = w.internalRequired
  BY <1>1, <1>3, <1>4 DEF Wallets
<1> QED BY <1>1, <1>4, <1>5 DEF Consistent

\* No call that the wallet makes of its own functions disturbs the owners.
LEMMA CallConsistent ==
    ASSUME NEW w, Consistent(w), NEW call \in PossibleCalls, NEW v \in external_call(w, call)
    PROVE  Consistent(v)
<1>1. CASE call.fn = "external"
  BY <1>1 DEF external_call
<1>2. CASE call.fn = "addOwner"
  <2>1. v \in addOwner(w, call.owner) /\ call.owner \in Addresses \cup {NullAddress}
    BY <1>2 DEF external_call, PossibleCalls
  <2> QED BY <2>1, AddOwnerConsistent
<1>3. CASE call.fn = "removeOwner"
  <2>1. v \in removeOwner(w, call.owner)
    BY <1>3 DEF external_call
  <2> QED BY <2>1, RemoveOwnerConsistent
<1>4. CASE call.fn = "replaceOwner"
  <2>1. v \in replaceOwner(w, call.owner, call.newOwner)
        /\ call.newOwner \in Addresses \cup {NullAddress}
    BY <1>4 DEF external_call, PossibleCalls
  <2> QED BY <2>1, ReplaceOwnerConsistent
<1>5. CASE call.fn = "changeRequirement"
  <2>1. v \in changeRequirement(w, call.required) /\ call.required \in Nat
    BY <1>5 DEF external_call, PossibleCalls
  <2> QED BY <2>1 DEF changeRequirement, Consistent, Wallets
<1>6. CASE call.fn = "changeInternalRequirement"
  <2>1. v \in changeInternalRequirement(w, call.required) /\ call.required \in Nat
    BY <1>6 DEF external_call, PossibleCalls
  <2> QED BY <2>1 DEF changeInternalRequirement, Consistent, Wallets
<1>7. call.fn \in {"external", "addOwner", "removeOwner", "replaceOwner",
                   "changeRequirement", "changeInternalRequirement"}
  BY DEF PossibleCalls
<1> QED BY <1>1, <1>2, <1>3, <1>4, <1>5, <1>6, <1>7

-----------------------------------------------------------------------------

\* TypeOK and OwnersConsistent hold exactly when the wallet is consistent and the
\* transactions and confirmations have their types.
LEMMA WalletOfIInv ==
    IInv <=> /\ transactions \in Seq(Transaction)
             /\ confirmations \in [1..MaxTransactions -> SUBSET Addresses]
             /\ Consistent(wallet)
BY DEF IInv, TypeOK, OwnersConsistent, Consistent, Wallets, Transaction

\* Executing a transaction leaves a consistent wallet.
LEMMA ExecutesConsistent ==
    ASSUME NEW txs \in Seq(Transaction), NEW id \in DOMAIN txs,
           NEW confirmers, Consistent(wallet), executes(txs, id, confirmers)
    PROVE  /\ transactions' \in Seq(Transaction)
           /\ Consistent(wallet')
<1>1. /\ DOMAIN txs = 1..Len(txs) /\ Len(txs) \in Nat
      /\ \A i \in 1..Len(txs) : txs[i] \in Transaction
  OBVIOUS
<1>2. txs[id].call \in PossibleCalls
  BY <1>1, MultiSigAssumption DEF Transaction
<1>3. /\ transactions' = [txs EXCEPT ![id] = [@ EXCEPT !.executed = TRUE]]
      /\ wallet' \in external_call(wallet, txs[id].call)
  BY DEF executes
<1>4. Consistent(wallet')
  BY <1>2, <1>3, CallConsistent
<1>5. [txs[id] EXCEPT !.executed = TRUE] \in Transaction
  BY <1>1, Zenon DEF Transaction
<1>6. transactions' \in [1..Len(txs) -> Transaction]
  BY <1>1, <1>3, <1>5
<1> QED BY <1>1, <1>4, <1>6

\* Confirming a transaction, and executing it when that was enough, preserves IInv.
LEMMA ConfirmsConsistent ==
    ASSUME IInv, NEW owner \in Addresses, NEW txs \in Seq(Transaction),
           NEW id \in DOMAIN txs, id \in 1..MaxTransactions, confirms(owner, txs, id)
    PROVE  IInv'
<1> DEFINE confirmers == confirmations[id] \cup {owner}
<1>1. /\ confirmations \in [1..MaxTransactions -> SUBSET Addresses] /\ Consistent(wallet)
  BY WalletOfIInv
<1>2. /\ confirmations' = [confirmations EXCEPT ![id] = confirmers]
      /\ \/ executes(txs, id, confirmers)
         \/ transactions' = txs /\ UNCHANGED wallet
  BY DEF confirms
<1>3. confirmations' \in [1..MaxTransactions -> SUBSET Addresses]
  BY <1>1, <1>2
<1>4. transactions' \in Seq(Transaction) /\ Consistent(wallet')
  <2>1. CASE executes(txs, id, confirmers)
    BY <1>1, <2>1, ExecutesConsistent
  <2>2. CASE transactions' = txs /\ UNCHANGED wallet
    BY <1>1, <2>2 DEF Consistent
  <2> QED BY <1>2, <2>1, <2>2
<1> QED BY <1>3, <1>4 DEF IInv, TypeOK, OwnersConsistent, Consistent, Wallets, Transaction

\* There are never more transactions than MaxTransactions: the bound of the model.
Bounded == Len(transactions) <= MaxTransactions

\* Every step of MultiSig.sol preserves the consistency of the wallet.
LEMMA IInvPreserved ==
    ASSUME IInv, Bounded, [Next]_vars
    PROVE  IInv' /\ Bounded'
<1>1. /\ transactions \in Seq(Transaction)
      /\ confirmations \in [1..MaxTransactions -> SUBSET Addresses]
      /\ Consistent(wallet)
      /\ Len(transactions) \in Nat /\ DOMAIN transactions = 1..Len(transactions)
      /\ MaxTransactions \in Nat
  BY WalletOfIInv, MultiSigAssumption
<1>2. ASSUME NEW owner \in Addresses, NEW call \in Calls, SubmitTransaction(owner, call)
      PROVE  IInv' /\ Bounded'
  <2> DEFINE tx  == [call |-> call, executed |-> FALSE]
             txs == Append(transactions, tx)
             id  == Len(transactions) + 1
  <2>1. Len(transactions) < MaxTransactions /\ confirms(owner, txs, id)
    BY <1>2 DEF SubmitTransaction
  <2>2. /\ txs \in Seq(Transaction) /\ Len(txs) = id
        /\ id \in DOMAIN txs /\ id \in 1..MaxTransactions
    <3>1. tx \in Transaction
      BY DEF Transaction
    <3> HIDE DEF tx
    <3> QED BY <1>1, <2>1, <3>1
  <2> HIDE DEF txs, id
  <2>3. IInv'
    BY <2>1, <2>2, ConfirmsConsistent
  <2>4. Len(transactions') = Len(txs)
    <3>1. \/ transactions' = [txs EXCEPT ![id].executed = TRUE]
          \/ transactions' = txs
      BY <2>1 DEF confirms, executes
    <3> QED BY <2>2, <3>1
  <2> QED BY <1>1, <2>2, <2>3, <2>4 DEF Bounded
<1>3. ASSUME NEW owner \in Addresses, NEW id \in DOMAIN transactions, ConfirmTransaction(owner, id)
      PROVE  IInv' /\ Bounded'
  <2>1. confirms(owner, transactions, id) /\ id \in 1..MaxTransactions
    BY <1>1, <1>3 DEF ConfirmTransaction, Bounded
  <2>2. IInv'
    BY <1>1, <2>1, ConfirmsConsistent
  <2>3. \/ transactions' = [transactions EXCEPT ![id].executed = TRUE]
        \/ transactions' = transactions
    BY <2>1 DEF confirms, executes
  <2>4. Len(transactions') = Len(transactions)
    BY <1>1, <2>3
  <2> QED BY <2>2, <2>4 DEF Bounded
<1>4. ASSUME NEW owner \in Addresses, NEW id \in DOMAIN transactions, RevokeConfirmation(owner, id)
      PROVE  IInv' /\ Bounded'
  BY <1>1, <1>4 DEF RevokeConfirmation, IInv, TypeOK, OwnersConsistent, Bounded
<1>5. ASSUME NEW owner \in Addresses, NEW id \in DOMAIN transactions, ExecuteTransaction(owner, id)
      PROVE  IInv' /\ Bounded'
  <2>1. executes(transactions, id, confirmations[id]) /\ UNCHANGED confirmations
    BY <1>5 DEF ExecuteTransaction
  <2>2. /\ transactions' \in Seq(Transaction)
        /\ Consistent(wallet')
    BY <1>1, <2>1, ExecutesConsistent
  <2>3. transactions' = [transactions EXCEPT ![id].executed = TRUE]
    BY <2>1 DEF executes
  <2>4. Len(transactions') = Len(transactions)
    BY <1>1, <2>3
  <2> QED BY <1>1, <2>1, <2>2, <2>4 DEF IInv, TypeOK, OwnersConsistent, Consistent, Wallets, Transaction, Bounded
<1>6. CASE UNCHANGED vars
  BY <1>6 DEF vars, IInv, TypeOK, OwnersConsistent, Bounded
<1> QED BY <1>2, <1>3, <1>4, <1>5, <1>6 DEF Next

\* The initial owners are consistent by the requirements of initialize.
LEMMA IInvInitially == Init => IInv /\ Bounded
<1> SUFFICES ASSUME Init PROVE IInv /\ Bounded
  OBVIOUS
<1>1. Range(InitialOwners) \subseteq Addresses
  BY MultiSigAssumption DEF Range
<1> QED BY <1>1, MultiSigAssumption DEF Init, IInv, TypeOK, OwnersConsistent, Bounded

\* The wallet is consistent in every reachable state.
LEMMA AlwaysIInv == Spec => [](IInv /\ Bounded)
<1>1. IInv /\ Bounded /\ [Next]_vars => (IInv /\ Bounded)'
  BY IInvPreserved
<1> QED BY IInvInitially, <1>1, PTL DEF Spec

\* MultiSig.sol: the storage keeps its types, and no owner is the null address, for any
\* number of addresses and transactions.
THEOREM TypeCorrect == Spec => []TypeOK
<1>1. IInv /\ Bounded => TypeOK
  BY DEF IInv
<1> QED BY AlwaysIInv, <1>1, PTL

\* MultiSig.sol: list and mapping of the owners agree and both requirements can be met,
\* for any number of owners and whatever the wallet calls on itself.
THEOREM OwnersAlwaysConsistent == Spec => []OwnersConsistent
<1>1. IInv /\ Bounded => OwnersConsistent
  BY DEF IInv
<1> QED BY AlwaysIInv, <1>1, PTL

-----------------------------------------------------------------------------

\* How many confirmations the wallet requires for a call.
threshold(w, call) == IF call.fn = "external" THEN w.required ELSE w.internalRequired

\* The loop of isConfirmed counts positions of the list of owners; as nobody is listed
\* twice, as many owners have confirmed.
LEMMA ConfirmedByOwners ==
    ASSUME NEW w, Consistent(w), NEW call, NEW confirmers, isConfirmed(w, call, confirmers)
    PROVE  Cardinality(w.isOwner \cap confirmers) >= threshold(w, call)
<1> DEFINE list == w.owners
           S == w.isOwner \cap confirmers
<1>1. /\ list \in Seq(Addresses) /\ Len(list) \in Nat /\ DOMAIN list = 1..Len(list)
      /\ w.isOwner = Range(list) /\ IsInjective(list)
      /\ w.required \in Nat /\ w.internalRequired \in Nat
  BY DEF Consistent, Wallets
<1>2. PICK n \in DOMAIN list :
         Cardinality({i \in 1..n : list[i] \in confirmers}) = threshold(w, call)
  BY DEF isConfirmed, threshold
<1> DEFINE I == {i \in 1..n : list[i] \in confirmers}
<1> HIDE DEF list
<1>3. IsFiniteSet(Range(list))
  <2>1. list \in Surjection(1..Len(list), Range(list))
    BY <1>1 DEF Surjection, Range
  <2>2. IsFiniteSet(1..Len(list))
    BY <1>1, FS_Interval
  <2> QED BY <2>1, <2>2, FS_Surjection
<1>4. IsFiniteSet(S)
  BY <1>1, <1>3, FS_Subset
<1>5. [i \in I |-> list[i]] \in Injection(I, S)
  <2> DEFINE f == [i \in I |-> list[i]]
  <2>1. \A i \in I : i \in DOMAIN list /\ list[i] \in S
    BY <1>1, <1>2 DEF Range
  <2>2. f \in [I -> S]
    BY <2>1
  <2>3. \A a, b \in I : f[a] = f[b] => a = b
    BY <1>1, <2>1 DEF IsInjective
  <2>4. IsInjective(f)
    BY <2>3 DEF IsInjective
  <2> QED BY <2>2, <2>4 DEF Injection
<1>6. Cardinality(I) <= Cardinality(S)
  BY <1>4, <1>5, FS_Injection
<1>7. Cardinality(S) \in Nat
  BY <1>4, FS_CardinalityType
<1> QED BY <1>1, <1>2, <1>6, <1>7 DEF threshold

\* What a step requires.
ConfirmedStep ==
    /\ \A id \in newlyExecuted :
          Cardinality(wallet.isOwner \cap confirmations'[id])
             >= IF transactions'[id].call.fn = "external"
                THEN wallet.required ELSE wallet.internalRequired
    /\ wallet' # wallet => newlyExecuted # {}

FinalStep ==
    \A id \in DOMAIN transactions :
        transactions[id].executed
        => /\ transactions'[id] = transactions[id]
           /\ confirmations[id] \subseteq confirmations'[id]

\* An execution within txs, which are the transactions or have one more, is of one
\* transaction, which the owners confirm.
LEMMA ExecutesConfirmed ==
    ASSUME IInv, NEW txs \in Seq(Transaction), NEW id \in DOMAIN txs, NEW confirmers,
           DOMAIN transactions \subseteq DOMAIN txs,
           \A i \in DOMAIN transactions : txs[i] = transactions[i],
           \A i \in DOMAIN txs : i \notin DOMAIN transactions => ~txs[i].executed,
           executes(txs, id, confirmers), confirmations'[id] = confirmers
    PROVE  /\ ConfirmedStep
           /\ \A i \in DOMAIN transactions :
                 transactions[i].executed => i # id /\ transactions'[i] = transactions[i]
<1>1. /\ DOMAIN txs = 1..Len(txs) /\ \A i \in DOMAIN txs : txs[i] \in Transaction
  OBVIOUS
<1>2. /\ ~txs[id].executed /\ isConfirmed(wallet, txs[id].call, confirmers)
      /\ transactions' = [txs EXCEPT ![id] = [@ EXCEPT !.executed = TRUE]]
  BY DEF executes
<1>3. /\ DOMAIN transactions' = DOMAIN txs
      /\ transactions'[id] = [txs[id] EXCEPT !.executed = TRUE]
      /\ \A i \in DOMAIN txs : i # id => transactions'[i] = txs[i]
  BY <1>2
<1>4. transactions'[id].call = txs[id].call /\ transactions'[id].executed
  BY <1>1, <1>3 DEF Transaction
<1>5. newlyExecuted = {id}
  BY <1>2, <1>3, <1>4 DEF newlyExecuted
<1>6. Consistent(wallet)
  BY WalletOfIInv
<1>7. Cardinality(wallet.isOwner \cap confirmers) >= threshold(wallet, txs[id].call)
  BY <1>2, <1>6, ConfirmedByOwners
<1>8. ConfirmedStep
  BY <1>4, <1>5, <1>7 DEF ConfirmedStep, threshold
<1>9. \A i \in DOMAIN transactions :
         transactions[i].executed => i # id /\ transactions'[i] = transactions[i]
  BY <1>2, <1>3
<1> QED BY <1>8, <1>9

\* A step that executes nothing and leaves the wallet alone is a confirmed one.
LEMMA NothingExecuted ==
    ASSUME NEW txs, transactions' = txs, UNCHANGED wallet,
           \A i \in DOMAIN txs : txs[i].executed
               => i \in DOMAIN transactions /\ transactions[i].executed
    PROVE  ConfirmedStep
BY DEF ConfirmedStep, newlyExecuted

\* Every step of MultiSig.sol executes only what is confirmed, and for good.
LEMMA StepConfirmedAndFinal ==
    ASSUME IInv, Bounded, [Next]_vars
    PROVE  ConfirmedStep /\ FinalStep
<1>1. /\ transactions \in Seq(Transaction)
      /\ confirmations \in [1..MaxTransactions -> SUBSET Addresses]
      /\ Len(transactions) \in Nat /\ DOMAIN transactions = 1..Len(transactions)
      /\ MaxTransactions \in Nat
      /\ DOMAIN transactions \subseteq 1..MaxTransactions
  BY WalletOfIInv, MultiSigAssumption DEF Bounded
<1>2. ASSUME NEW owner \in Addresses, NEW txs \in Seq(Transaction), NEW id \in DOMAIN txs,
             id \in 1..MaxTransactions,
             DOMAIN transactions \subseteq DOMAIN txs,
             \A i \in DOMAIN transactions : txs[i] = transactions[i],
             \A i \in DOMAIN txs : i \notin DOMAIN transactions => ~txs[i].executed,
             confirms(owner, txs, id)
      PROVE  ConfirmedStep /\ FinalStep
  <2> DEFINE confirmers == confirmations[id] \cup {owner}
  <2>1. /\ confirmations' = [confirmations EXCEPT ![id] = confirmers]
        /\ \/ executes(txs, id, confirmers)
           \/ transactions' = txs /\ UNCHANGED wallet
    BY <1>2 DEF confirms
  <2>2. /\ confirmations'[id] = confirmers
        /\ \A i \in DOMAIN transactions : confirmations[i] \subseteq confirmations'[i]
    BY <1>1, <1>2, <2>1
  <2>3. CASE executes(txs, id, confirmers)
    <3> HIDE DEF confirmers
    <3>1. /\ ConfirmedStep
          /\ \A i \in DOMAIN transactions :
                transactions[i].executed => i # id /\ transactions'[i] = transactions[i]
      BY <1>2, <2>2, <2>3, ExecutesConfirmed
    <3> QED BY <2>2, <3>1 DEF FinalStep
  <2>4. CASE transactions' = txs /\ UNCHANGED wallet
    <3>1. ConfirmedStep
      BY <1>2, <2>4, NothingExecuted
    <3>2. FinalStep
      BY <1>2, <2>2, <2>4 DEF FinalStep
    <3> QED BY <3>1, <3>2
  <2> QED BY <2>1, <2>3, <2>4
<1>3. ASSUME NEW owner \in Addresses, NEW call \in Calls, SubmitTransaction(owner, call)
      PROVE  ConfirmedStep /\ FinalStep
  <2> DEFINE tx  == [call |-> call, executed |-> FALSE]
             txs == Append(transactions, tx)
             id  == Len(transactions) + 1
  <2>1. Len(transactions) < MaxTransactions /\ confirms(owner, txs, id)
    BY <1>3 DEF SubmitTransaction
  <2>2. tx \in Transaction /\ ~tx.executed
    BY DEF Transaction
  <2> HIDE DEF tx
  <2>3. /\ txs \in Seq(Transaction) /\ id \in DOMAIN txs /\ id \in 1..MaxTransactions
        /\ DOMAIN transactions \subseteq DOMAIN txs
        /\ \A i \in DOMAIN transactions : txs[i] = transactions[i]
        /\ \A i \in DOMAIN txs : i \notin DOMAIN transactions => txs[i] = tx
    BY <1>1, <2>1, <2>2
  <2> HIDE DEF txs, id
  <2> QED BY <1>2, <2>1, <2>2, <2>3
<1>4. ASSUME NEW owner \in Addresses, NEW id \in DOMAIN transactions, ConfirmTransaction(owner, id)
      PROVE  ConfirmedStep /\ FinalStep
  BY <1>1, <1>2, <1>4 DEF ConfirmTransaction
<1>5. ASSUME NEW owner \in Addresses, NEW id \in DOMAIN transactions, RevokeConfirmation(owner, id)
      PROVE  ConfirmedStep /\ FinalStep
  <2>1. /\ ~transactions[id].executed /\ UNCHANGED <<transactions, wallet>>
        /\ confirmations' = [confirmations EXCEPT ![id] = @ \ {owner}]
    BY <1>5 DEF RevokeConfirmation
  <2>2. ConfirmedStep
    BY <2>1, NothingExecuted
  <2>3. FinalStep
    BY <1>1, <2>1 DEF FinalStep
  <2> QED BY <2>2, <2>3
<1>6. ASSUME NEW owner \in Addresses, NEW id \in DOMAIN transactions, ExecuteTransaction(owner, id)
      PROVE  ConfirmedStep /\ FinalStep
  <2>1. executes(transactions, id, confirmations[id]) /\ UNCHANGED confirmations
    BY <1>6 DEF ExecuteTransaction
  <2>2. /\ ConfirmedStep
        /\ \A i \in DOMAIN transactions :
              transactions[i].executed => i # id /\ transactions'[i] = transactions[i]
    BY <1>1, <2>1, ExecutesConfirmed
  <2> QED BY <2>1, <2>2 DEF FinalStep
<1>7. CASE UNCHANGED vars
  <2>1. UNCHANGED <<transactions, confirmations, wallet>>
    BY <1>7 DEF vars
  <2>2. ConfirmedStep
    BY <2>1, NothingExecuted
  <2> QED BY <2>1, <2>2 DEF FinalStep
<1> QED BY <1>3, <1>4, <1>5, <1>6, <1>7 DEF Next

\* MultiSig.sol: for any number of owners and transactions, whatever is executed is
\* confirmed at that moment by as many owners as the wallet requires, and nothing else
\* changes the owners and the requirements.
THEOREM ExecutionsConfirmed == Spec => ExecutionIsConfirmed
<1>1. IInv /\ Bounded /\ [Next]_vars => [ConfirmedStep]_vars
  BY StepConfirmedAndFinal
<1>2. Spec => [][ConfirmedStep]_vars
  BY AlwaysIInv, <1>1, PTL DEF Spec
<1> QED BY <1>2 DEF ExecutionIsConfirmed, ConfirmedStep

\* MultiSig.sol: an executed transaction is never executed again, and keeps the
\* confirmations it was executed with.
THEOREM ExecutionsFinal == Spec => ExecutionIsFinal
<1>1. IInv /\ Bounded /\ [Next]_vars => [FinalStep]_vars
  BY StepConfirmedAndFinal
<1>2. Spec => [][FinalStep]_vars
  BY AlwaysIInv, <1>1, PTL DEF Spec
<1> QED BY <1>2 DEF ExecutionIsFinal, FinalStep

=============================================================================
