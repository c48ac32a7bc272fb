------------------------------ MODULE MultiSig ------------------------------
(***************************************************************************)
(* The wallet of MultiSig.sol: owners submit transactions, confirm them    *)
(* and revoke confirmations; a transaction is executed when enough of the  *)
(* owners of that moment have confirmed it.  A transaction to the wallet   *)
(* itself changes the owners or the number of confirmations that are       *)
(* required, and needs confirmations of its own number.  Confirmations are *)
(* kept by transaction and address, and outlive the ownership.             *)
(*                                                                         *)
(* The identifiers of transactions start at 1 here.  A call that fails     *)
(* reverts, with the confirmation that caused it: no step.  A transaction  *)
(* is marked executed before its call, and nothing is changed after it, so *)
(* what a callee does with the wallet is a later step.                     *)
(***************************************************************************)
EXTENDS SequencesExt, FiniteSets, Integers

CONSTANTS
    Addresses,       \* the addresses that may be owners
    NullAddress,
    InitialOwners,   \* the arguments of initialize
    InitialRequired,
    InitialInternalRequired,
    MAX_OWNER_COUNT,
    Calls,           \* the calls that are submitted
    MaxTransactions  \* bound on the number of transactions

\* What can be called: something else, or one of the wallet's own functions.
PossibleCalls ==
    [fn : {"external"}]
    \cup [fn : {"addOwner", "removeOwner"}, owner : Addresses \cup {NullAddress}]
    \cup [fn : {"replaceOwner"}, owner : Addresses, newOwner : Addresses \cup {NullAddress}]
    \cup [fn : {"changeRequirement", "changeInternalRequirement"}, required : Nat]

validRequirement(ownerCount, required) ==
    /\ ownerCount <= MAX_OWNER_COUNT
    /\ required <= ownerCount
    /\ required # 0
    /\ ownerCount # 0

ASSUME MultiSigAssumption ==
    /\ NullAddress \notin Addresses
    /\ InitialOwners \in Seq(Addresses) /\ IsInjective(InitialOwners)
    /\ InitialRequired \in Nat /\ InitialInternalRequired \in Nat /\ MAX_OWNER_COUNT \in Nat
    /\ validRequirement(Len(InitialOwners), InitialRequired)
    /\ validRequirement(Len(InitialOwners), InitialInternalRequired)
    /\ Calls \subseteq PossibleCalls
    /\ MaxTransactions \in Nat

VARIABLES
    transactions,  \* the calls and whether they were executed
    confirmations, \* for each transaction, the addresses that confirm it
    wallet         \* owners, isOwner, required and internalRequired

vars == <<transactions, confirmations, wallet>>

\* Mutant: whoever confirmed counts, owner or not.
isConfirmedByAnyone(w, call, confirmers) ==
    Cardinality(confirmers) >= IF call.fn = "external" THEN w.required ELSE w.internalRequired

\* The loop ends as soon as the count is met, and never when it is not met exactly.
isConfirmed(w, call, confirmers) ==
    LET threshold == IF call.fn = "external" THEN w.required ELSE w.internalRequired
    IN  \E n \in DOMAIN w.owners :
            Cardinality({i \in 1..n : w.owners[i] \in confirmers}) = threshold

-----------------------------------------------------------------------------
(***************************************************************************)
(* The functions that only the wallet may call, as operators on the wallet *)
(* to the set of their outcomes: none when they fail.                      *)
(***************************************************************************)
addOwner(w, owner) ==
    IF /\ owner \notin w.isOwner
       /\ owner # NullAddress
       /\ validRequirement(Len(w.owners) + 1, w.internalRequired)
    THEN {[w EXCEPT !.isOwner = @ \cup {owner}, !.owners = Append(@, owner)]}
    ELSE {}

indexOf(list, owner) == CHOOSE i \in DOMAIN list : list[i] = owner

\* The last owner takes the place of the removed one.
withoutOwner(list, owner) ==
    SubSeq([list EXCEPT ![indexOf(list, owner)] = list[Len(list)]], 1, Len(list) - 1)

\* Mutant: the requirement may stay out of the reach of the owners.
loweredNever(required, ownerCount) == required

\* A requirement that the remaining owners cannot meet is lowered to their number.
lowered(required, ownerCount) == IF required > ownerCount THEN ownerCount ELSE required

removeOwner(w, owner) ==
    LET ownerCount == Len(w.owners) - 1
    IN  IF /\ owner \in w.isOwner
           /\ w.required > ownerCount \/ w.internalRequired > ownerCount
                 => validRequirement(ownerCount, ownerCount)
        THEN {[owners           |-> withoutOwner(w.owners, owner),
               isOwner          |-> w.isOwner \ {owner},
               required         |-> lowered(w.required, ownerCount),
               internalRequired |-> lowered(w.internalRequired, ownerCount)]}
        ELSE {}

replaceOwner(w, owner, newOwner) ==
    IF owner \in w.isOwner /\ newOwner # NullAddress /\ newOwner \notin w.isOwner
    THEN {[w EXCEPT !.owners[indexOf(w.owners, owner)] = newOwner,
                    !.isOwner = (@ \ {owner}) \cup {newOwner}]}
    ELSE {}

changeRequirement(w, required) ==
    IF validRequirement(Len(w.owners), required) THEN {[w EXCEPT !.required = required]} ELSE {}

changeInternalRequirement(w, required) ==
    IF validRequirement(Len(w.owners), required)
    THEN {[w EXCEPT !.internalRequired = required]} ELSE {}

external_call(w, call) ==
    CASE call.fn = "external"                  -> {w}
      [] call.fn = "addOwner"                  -> addOwner(w, call.owner)
      [] call.fn = "removeOwner"               -> removeOwner(w, call.owner)
      [] call.fn = "replaceOwner"              -> replaceOwner(w, call.owner, call.newOwner)
      [] call.fn = "changeRequirement"         -> changeRequirement(w, call.required)
      [] call.fn = "changeInternalRequirement" -> changeInternalRequirement(w, call.required)

-----------------------------------------------------------------------------
(***************************************************************************)
(* Actions                                                                 *)
(***************************************************************************)
Init ==
    /\ transactions = <<>>
    /\ confirmations = [id \in 1..MaxTransactions |-> {}]
    /\ wallet = [owners |-> InitialOwners, isOwner |-> Range(InitialOwners),
                 required |-> InitialRequired, internalRequired |-> InitialInternalRequired]

\* The execution of transaction id of txs, confirmed by confirmers.
executes(txs, id, confirmers) ==
    /\ ~txs[id].executed
    /\ isConfirmed(wallet, txs[id].call, confirmers)
    /\ transactions' = [txs EXCEPT ![id].executed = TRUE]
    /\ wallet' \in external_call(wallet, txs[id].call)

\* owner confirms transaction id of txs, and executes it if that was enough.
confirms(owner, txs, id) ==
    LET confirmers == confirmations[id] \cup {owner}
    IN  /\ owner \in wallet.isOwner
        /\ owner \notin confirmations[id]
        /\ confirmations' = [confirmations EXCEPT ![id] = confirmers]
        /\ IF isConfirmed(wallet, txs[id].call, confirmers)
           THEN executes(txs, id, confirmers)
           ELSE transactions' = txs /\ UNCHANGED wallet

SubmitTransaction(owner, call) ==
    /\ Len(transactions) < MaxTransactions
    /\ confirms(owner, Append(transactions, [call |-> call, executed |-> FALSE]),
                Len(transactions) + 1)

ConfirmTransaction(owner, id) == confirms(owner, transactions, id)

\* Mutant: confirmations of an executed transaction can be revoked.
RevokeConfirmationAnytime(owner, id) ==
    /\ owner \in wallet.isOwner
    /\ owner \in confirmations[id]
    /\ confirmations' = [confirmations EXCEPT ![id] = @ \ {owner}]
    /\ UNCHANGED <<transactions, wallet>>

RevokeConfirmation(owner, id) ==
    /\ owner \in wallet.isOwner
    /\ owner \in confirmations[id]
    /\ ~transactions[id].executed
    /\ confirmations' = [confirmations EXCEPT ![id] = @ \ {owner}]
    /\ UNCHANGED <<transactions, wallet>>

canExecute(caller, id) ==
    /\ caller \in wallet.isOwner
    /\ caller \in confirmations[id]
    /\ ~transactions[id].executed
    /\ isConfirmed(wallet, transactions[id].call, confirmations[id])

ExecuteTransaction(caller, id) ==
    /\ canExecute(caller, id)
    /\ executes(transactions, id, confirmations[id])
    /\ UNCHANGED confirmations

Next ==
    \E owner \in Addresses :
        \/ \E call \in Calls : SubmitTransaction(owner, call)
        \/ \E id \in DOMAIN transactions : \/ ConfirmTransaction(owner, id)
                                           \/ RevokeConfirmation(owner, id)
                                           \/ ExecuteTransaction(owner, id)

Spec == Init /\ [][Next]_vars

-----------------------------------------------------------------------------
(***************************************************************************)
(* Properties                                                              *)
(***************************************************************************)
\* The storage of MultiSig.sol is well typed; in particular no owner is the null
\* address.
TypeOK ==
    /\ transactions \in Seq([call : Calls, executed : BOOLEAN])
    /\ confirmations \in [1..MaxTransactions -> SUBSET Addresses]
    /\ wallet \in [owners : Seq(Addresses), isOwner : SUBSET Addresses,
                   required : Nat, internalRequired : Nat]

\* owners and isOwner of MultiSig.sol agree whatever is added, removed and replaced,
\* no owner is counted twice, and there are always enough owners to meet both
\* requirements: no sequence of wallet transactions locks the wallet up.
OwnersConsistent ==
    /\ wallet.isOwner = Range(wallet.owners)
    /\ IsInjective(wallet.owners)
    /\ validRequirement(Len(wallet.owners), wallet.required)
    /\ validRequirement(Len(wallet.owners), wallet.internalRequired)

\* The transactions a step executes.
newlyExecuted == {id \in DOMAIN transactions' :
                     /\ transactions'[id].executed
                     /\ id \in DOMAIN transactions => ~transactions[id].executed}

\* executeTransaction and confirmTransaction execute only what as many of the owners of
\* that moment confirm as the wallet requires for it, although addresses that have
\* confirmed may have lost their ownership since; and the owners and the requirements
\* change only by such an execution.
ExecutionIsConfirmed ==
    [][/\ \A id \in newlyExecuted :
             Cardinality(wallet.isOwner \cap confirmations'[id])
                >= IF transactions'[id].call.fn = "external"
                   THEN wallet.required ELSE wallet.internalRequired
       /\ wallet' # wallet => newlyExecuted # {}]_vars

\* What MultiSig.sol has executed stays executed, and nobody can take a confirmation of
\* it back, also not by leaving and joining the owners again.
ExecutionIsFinal ==
    [][\A id \in DOMAIN transactions :
          transactions[id].executed
          => /\ transactions'[id] = transactions[id]
             /\ confirmations[id] \subseteq confirmations'[id]]_vars

=============================================================================
