--------------------------- MODULE AddressLookup ---------------------------
(***************************************************************************)
(* How the wallet finds the address to pay a phone number to: sagas that   *)
(* look up the verified addresses of the number, the identity reducer,     *)
(* which also keeps the address the user has validated among several       *)
(* (Secure Send), and the screens a payment goes through.  Payments        *)
(* received write the addresses too: in their comments senders name their  *)
(* number, and its salt, encrypted to the user.  The model follows one     *)
(* number; addresses are ordered as their strings are.                     *)
(***************************************************************************)
EXTENDS Integers, FiniteSets

CONSTANTS
    Addresses,    \* natural numbers above 0
    Fetches,      \* the sagas that may run at one time
    MaxFetches,   \* bound: lookups
    MaxComments,  \* bound: comments of payments received
    MaxChanges    \* bound: verifications and revocations of others

ASSUME AddressesAssumption == Addresses \subseteq Nat \ {0} /\ IsFiniteSet(Addresses)

VARIABLES
    onChain,      \* the addresses verified for the number
    changes,
    numbers,      \* e164NumberToAddress: whether it is defined, and the addresses, {} for null
    secureSend,   \* secureSendPhoneNumberMapping: address, 0 if undefined, and whether
                  \* addressValidationType is other than NONE
    fetches,      \* by saga: its place, the addresses known before, the addresses found
    fetched,      \* lookups so far
    received,     \* comments so far
    comments,     \* the senders whose comments have been checked and not been merged yet
    screen,
    payment,      \* made on the screens last opened: to (0 for an invite) and the addresses
                  \* known then
    chosen,       \* addresses the user has validated
    offered,      \* addresses known when the user last validated one
    merged,       \* addresses known since by the merge of a comment, not dropped by a lookup
    overlapped    \* a lookup or a comment has come while a lookup was under way

chainVars == <<onChain, changes>>
storeVars == <<numbers, secureSend>>
commentVars == <<received, comments>>
sagaVars == <<fetches, fetched, commentVars, overlapped>>
userVars == <<payment, chosen, offered>>
lookupVars == <<chainVars, storeVars, sagaVars, screen, userVars, merged>>

Idle == [at |-> "idle", old |-> {}, found |-> {}]

NoPayment == [to |-> 0, among |-> {}]

Unchecked == [defined |-> FALSE, addresses |-> {}]

\* secureSendPhoneNumberMapping has no entry for the number.
NoMapping == [address |-> 0, required |-> FALSE]

LookupInit ==
    /\ onChain \in SUBSET Addresses
    /\ changes = 0
    /\ numbers = Unchecked
    /\ secureSend = NoMapping
    /\ fetches = [f \in Fetches |-> Idle]
    /\ fetched = 0
    /\ received = 0
    /\ comments = {}
    /\ screen = "home"
    /\ payment = NoPayment
    /\ chosen = {}
    /\ offered = {}
    /\ merged = {}
    /\ overlapped = FALSE

\* An account verifies the number as its own, or revokes that.
ChangeOnChain ==
    /\ changes < MaxChanges
    /\ changes' = changes + 1
    /\ \E a \in Addresses : onChain' \in {onChain \cup {a}, onChain \ {a}} \ {onChain}
    /\ UNCHANGED <<storeVars, sagaVars, screen, userVars, merged>>

(***************************************************************************)
(* fetchAddressesAndValidateSaga                                           *)
(***************************************************************************)
running == {f \in Fetches : fetches[f].at # "idle"}

\* The addresses known are read and cleared.
FetchAddresses ==
    /\ fetched < MaxFetches
    /\ fetched' = fetched + 1
    /\ \E f \in Fetches \ running :
           fetches' = [fetches EXCEPT ![f] =
                           [at |-> "looking", old |-> numbers.addresses, found |-> {}]]
    /\ numbers' = Unchecked
    /\ overlapped' = (overlapped \/ running # {})
    /\ UNCHANGED commentVars

\* getAddresses, with the salt of the number from the cache or the service, has its answer.
GetAddresses(f) ==
    /\ fetches[f].at = "looking"
    /\ fetches' = [fetches EXCEPT ![f].at = "found", ![f].found = onChain]
    /\ UNCHANGED <<chainVars, storeVars, fetched, commentVars, overlapped, screen, userVars,
                   merged>>

\* An error ends the saga, with the addresses left as they are.
fetchThrows(f) ==
    /\ fetches' = [fetches EXCEPT ![f] = Idle]
    /\ UNCHANGED <<chainVars, storeVars, fetched, commentVars, overlapped, screen, userVars,
                   merged>>

GetAddressesFails(f) ==
    /\ fetches[f].at = "looking"
    /\ fetchThrows(f)

\* Mutant: a change is told from the number of addresses.
newAddressesAddedByLength(old, new) == Cardinality(new) > Cardinality(old)

\* The addresses are compared place by place in their order: none is new if they are the
\* first ones of the old.
newAddressesAdded(old, new) ==
    ~(new \subseteq old /\ \A a \in new, b \in old \ new : a < b)

\* Mutant: a mapping without an entry is read as one that bypasses nothing.
bypassGoesUnseen(old, new) == FALSE

\* accidentallyBypassedValidation, which only several addresses with none new get to, reads
\* mapping[number] || mapping[number].address.  With an entry that is never false, and
\* without one it throws.
bypassCheckThrows(old, new) ==
    Cardinality(new) >= 2 /\ ~newAddressesAdded(old, new) /\ secureSend = NoMapping

checkIfValidationRequired(old, new) == Cardinality(new) >= 2 /\ newAddressesAdded(old, new)

requireSecureSend == [address |-> 0, required |-> TRUE]

UpdateAddresses(f) ==
    /\ fetches[f].at = "found"
    /\ ~bypassCheckThrows(fetches[f].old, fetches[f].found)
    /\ secureSend' = IF checkIfValidationRequired(fetches[f].old, fetches[f].found)
                     THEN requireSecureSend ELSE secureSend
    /\ numbers' = [defined |-> TRUE, addresses |-> fetches[f].found]
    /\ merged' = merged \cap fetches[f].found
    /\ fetches' = [fetches EXCEPT ![f] = Idle]
    /\ UNCHANGED <<chainVars, fetched, commentVars, overlapped, screen, userVars>>

CheckValidationFails(f) ==
    /\ fetches[f].at = "found"
    /\ bypassCheckThrows(fetches[f].old, fetches[f].found)
    /\ fetchThrows(f)

(***************************************************************************)
(* checkTxsForIdentityMetadata                                             *)
(***************************************************************************)
\* Address a has paid the user, and its claim to the number is found to be verified.
verifyIdentityMetadata(a) ==
    /\ received < MaxComments
    /\ received' = received + 1
    /\ a \in onChain
    /\ comments' = comments \cup {a}
    /\ UNCHANGED <<chainVars, storeVars, fetches, fetched, overlapped, screen, userVars, merged>>

\* The sender is added to the addresses known, be they null or undefined.  Secure Send is not
\* asked for.
updatePhoneNumberMappings(a) ==
    /\ a \in comments
    /\ comments' = comments \ {a}
    /\ numbers' = [defined |-> TRUE, addresses |-> numbers.addresses \cup {a}]
    /\ merged' = numbers'.addresses
    /\ overlapped' = (overlapped \/ running # {})
    /\ UNCHANGED <<chainVars, secureSend, fetches, fetched, received, screen, userVars>>

(***************************************************************************)
(* The screens                                                             *)
(***************************************************************************)
\* SendAmount and IncomingPaymentRequestList start a lookup when they are mounted.
Open(s) ==
    /\ FetchAddresses
    /\ screen' = s
    /\ payment' = NoPayment
    /\ UNCHANGED <<chainVars, secureSend, chosen, offered, merged>>

\* SendAmount waits for the addresses, a payment request does not.
Continue ==
    /\ \/ screen = "amount" /\ numbers.defined
       \/ screen = "requests"
    /\ screen' = IF secureSend.required THEN "validate" ELSE "confirm"
    /\ UNCHANGED <<chainVars, storeVars, sagaVars, userVars, merged>>

\* From the confirmation the user may go back to choose another address.
EditAddress ==
    /\ screen = "confirm" /\ secureSend.address # 0
    /\ screen' = "validate"
    /\ UNCHANGED <<chainVars, storeVars, sagaVars, userVars, merged>>

\* The user's input, typed or scanned, names an address of those known.
ValidateRecipientAddress(a) ==
    /\ screen = "validate"
    /\ a \in numbers.addresses
    /\ secureSend' = [address |-> a, required |-> FALSE]
    /\ screen' = "confirm"
    /\ chosen' = chosen \cup {a}
    /\ offered' = numbers.addresses
    /\ merged' = {}
    /\ UNCHANGED <<chainVars, numbers, sagaVars, payment>>

minimum(S) == CHOOSE a \in S : \A b \in S : a <= b

\* The first and only address, or the one validated.  Null and undefined are 0.
addressOfNumber ==
    IF numbers.addresses = {} THEN 0
    ELSE IF Cardinality(numbers.addresses) = 1 THEN minimum(numbers.addresses)
    ELSE secureSend.address

\* Mutant: without a validated address the first one is taken.
getAddressFromPhoneNumberOrFirst ==
    IF addressOfNumber = 0 /\ numbers.addresses # {}
    THEN {minimum(numbers.addresses)} ELSE {addressOfNumber}

\* Throws, as the empty set, when there are several and none is validated.
getAddressFromPhoneNumber ==
    {addressOfNumber} \ (IF numbers.addresses # {} THEN {0} ELSE {})

\* With no address an invite is sent.
SendPaymentOrInvite ==
    /\ screen = "confirm"
    /\ \E to \in getAddressFromPhoneNumber :
           payment' = [to |-> to, among |-> numbers.addresses]
    /\ screen' = "home"
    /\ UNCHANGED <<chainVars, storeVars, sagaVars, chosen, offered, merged>>

\* The app is killed and started again: what the reducer holds is persisted.
RestartApp ==
    /\ fetches' = [f \in Fetches |-> Idle]
    /\ comments' = {}
    /\ screen' = "home"
    /\ UNCHANGED <<chainVars, storeVars, fetched, received, overlapped, userVars, merged>>

LookupNext ==
    \/ ChangeOnChain
    \/ \E f \in Fetches :
           \/ GetAddresses(f) \/ GetAddressesFails(f)
           \/ UpdateAddresses(f) \/ CheckValidationFails(f)
    \/ \E s \in {"amount", "requests"} : Open(s)
    \/ Continue \/ EditAddress \/ SendPaymentOrInvite \/ RestartApp
    \/ \E a \in Addresses :
           \/ verifyIdentityMetadata(a) \/ updatePhoneNumberMappings(a)
           \/ ValidateRecipientAddress(a)

LookupSpec == LookupInit /\ [][LookupNext]_lookupVars

-----------------------------------------------------------------------------
\* One of the addresses has been validated, or the user is asked to.
secured == secureSend.required \/ secureSend.address # 0

\* A lookup that stores several addresses leaves one of them validated or the user asked to,
\* whichever lookups and comments come in between, fail or end late: one that finds Secure
\* Send bypassed stores nothing (contactMapping.ts:171, secureSend.ts:38).
SeveralAreSecured ==
    [][\A f \in Fetches :
          UpdateAddresses(f) /\ Cardinality(numbers'.addresses) >= 2 => secured']_lookupVars

\* Of several addresses the one that is paid was validated by the user.
PaidAddressWasChosen ==
    payment.to # 0 /\ Cardinality(payment.among) >= 2 => payment.to \in chosen

\* When nothing overlaps a lookup, a validated address stands only as long as every address
\* known was there for the user to choose, or was known by the merge of a comment: among
\* several one that a lookup finds new asks for a new validation (secureSend.ts:8,
\* reducer.ts:206).  With comments neither the address that is brought nor one that was the
\* only one known before it does.
ChosenAmongAllKnown ==
    ~overlapped /\ secureSend.address # 0 /\ Cardinality(numbers.addresses) >= 2
        => numbers.addresses \ merged \subseteq offered

=============================================================================
