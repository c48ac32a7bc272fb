---------------------------- MODULE SaltCombiner ----------------------------
(***************************************************************************)
(* The combiner of the phone number privacy service: it forwards a request *)
(* to all signers, and answers with the combined signature or with the     *)
(* error most of them gave.  For each signer a promise is pending until    *)
(* its response has been worked off, or a timer has aborted the fetch.     *)
(***************************************************************************)
EXTENDS SaltSigner

CONSTANT Threshold

ASSUME ThresholdAssumption == Threshold \in Nat \ {0}

VARIABLE combiner   \* by request

combinerVars == <<combiner>>

\* The signers whose promise is pending, those of them whose success reached the threshold
\* and is being combined, the signers that have sent a signature, the number of responses
\* per error code, and what was answered.
NotReceived ==
    [pending |-> {}, combining |-> {}, successes |-> {}, code403 |-> 0, code500 |-> 0,
     answer |-> "none"]

CombinerInit == combiner = [r \in Requests |-> NotReceived]

\* What the combiner has of request r becomes reception.
Records(r, reception) == combiner' = [combiner EXCEPT ![r] = reception]

requestSignatures(r) ==
    /\ combiner' = [combiner EXCEPT ![r].pending = Signers]
    /\ signing' = [signing EXCEPT ![r] = [s \in Signers |-> [NotSent EXCEPT !.at = "sent"]]]

awaits(r, s) == s \in combiner[r].pending \ combiner[r].combining

ReceiveSignature(r, s) ==
    LET successes == combiner[r].successes \cup {s}
    IN  /\ awaits(r, s)
        /\ signing[r][s].at = "ok"
        /\ IF Cardinality(successes) >= Threshold
           THEN Records(r, [combiner[r] EXCEPT !.successes = successes, !.combining = @ \cup {s}])
           ELSE Records(r, [combiner[r] EXCEPT !.successes = successes, !.pending = @ \ {s}])
        /\ UNCHANGED signerVars

\* Mutant: what was received is combined as it is.
verifiedOrNot(r) == combiner[r].successes

\* Signatures that do not verify are left out.
verified(r) == {s \in combiner[r].successes : signing[r][s].valid}

\* Mutant: one signature more than the threshold is asked for.
enoughAndOne(r) == Cardinality(verified(r)) > Threshold

enough(r) == Cardinality(verified(r)) >= Threshold

\* With too few signatures combinePartialBlindedSignatures throws, and the promise has
\* settled with nothing sent.  Of several answers the first is sent.
combinePartialBlindedSignatures(r, s) ==
    /\ s \in combiner[r].combining
    /\ Records(r, [combiner[r] EXCEPT !.pending = @ \ {s}, !.combining = @ \ {s},
                                      !.answer = IF enough(r) THEN "salt" ELSE @])
    /\ UNCHANGED signerVars

ReceiveError(r, s) ==
    /\ awaits(r, s)
    /\ \/ /\ signing[r][s].at = "forbidden"
          /\ Records(r, [combiner[r] EXCEPT !.pending = @ \ {s}, !.code403 = @ + 1])
       \/ /\ signing[r][s].at = "failed"
          /\ Records(r, [combiner[r] EXCEPT !.pending = @ \ {s}, !.code500 = @ + 1])
    /\ UNCHANGED signerVars

\* The fetch fails or its timer aborts it.  The signer goes on.
Abort(r, s) ==
    /\ awaits(r, s)
    /\ combiner' = [combiner EXCEPT ![r].pending = @ \ {s}]
    /\ UNCHANGED signerVars

\* In a tie the lower code has it.
getMajorityErrorCode(r) ==
    IF combiner[r].code403 + combiner[r].code500 = 0 THEN 0
    ELSE IF combiner[r].code403 >= combiner[r].code500 THEN 403 ELSE 500

answerOfMissing(code) == IF code = 403 THEN "quota" ELSE "error"

handleMissingSignatures(r) ==
    /\ combiner[r].pending = {} /\ signing[r] # [s \in Signers |-> NotSent]
    /\ combiner[r].answer = "none"
    /\ Cardinality(combiner[r].successes) < Threshold
    /\ combiner' = [combiner EXCEPT ![r].answer = answerOfMissing(getMajorityErrorCode(r))]
    /\ UNCHANGED signerVars

CombinerNext ==
    \E r \in Requests :
        \/ handleMissingSignatures(r)
        \/ \E s \in Signers :
               \/ ReceiveSignature(r, s) \/ combinePartialBlindedSignatures(r, s)
               \/ ReceiveError(r, s) \/ Abort(r, s)

=============================================================================
