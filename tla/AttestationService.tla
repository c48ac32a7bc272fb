------------------------- MODULE AttestationService -------------------------
(***************************************************************************)
(* The attestation services of the issuers, for one phone number and one   *)
(* account: each keeps a record in its database and sends the code by SMS. *)
(* Handlers of one record run one after the other, since they lock the     *)
(* record for update.  A record is purged only after its attestation has   *)
(* expired, when the service refuses the request anyway, so that purging   *)
(* is left out.                                                            *)
(***************************************************************************)
EXTENDS Attestations

CONSTANT Faults    \* the faults that may happen, of those that the actions name

VARIABLES
    chain,    \* the contracts
    sent,     \* the issuers whose record says SENT
    inbox     \* the issuers whose code is on the phone

serviceVars == <<sent, inbox>>

\* AttestationModel.canSendSms: a record that is missing, FAILED or UNABLE_TO_SERVE lets
\* the service try again; DISPATCHING is never committed.
canSendSms(i) == i \notin sent

validAttestationRequest(i) ==
    /\ chain.issued[i].status = "Incomplete"
    /\ validateAttestationCode(chain, i)

SmsIsSent(i) ==
    /\ sent' = sent \cup {i}
    /\ inbox' = inbox \cup {i}

\* The SMS is sent before the record is committed.  When the commit fails, the answer
\* goes by the status of the object in memory, SENT or FAILED.
CommitFailsAfterSms(i) ==
    /\ "crash" \in Faults
    /\ inbox' = inbox \cup {i}
    /\ UNCHANGED sent

\* No provider serves the country, or the provider fails.
SmsIsNotSent ==
    /\ "sms" \in Faults
    /\ UNCHANGED serviceVars

\* ok: whether the wallet is told that the SMS was sent.
HandleAttestationRequest(i, ok) ==
    \/ /\ ~ok /\ ~(validAttestationRequest(i) /\ canSendSms(i))
       /\ UNCHANGED serviceVars
    \/ /\ validAttestationRequest(i) /\ canSendSms(i)
       /\ \/ ok /\ SmsIsSent(i)
          \/ CommitFailsAfterSms(i)
          \/ ~ok /\ SmsIsNotSent

=============================================================================
