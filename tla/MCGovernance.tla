---------------------------- MODULE MCGovernance ----------------------------
(***************************************************************************)
(* Instances of Governance for TLC: the parameters initialize sets and the *)
(* payloads of the proposals.  Fractions are in quarters (MulPrecision 2). *)
(***************************************************************************)
EXTENDS Governance

\* A transaction that pays out value.
Pay(value) == [destination |-> "elsewhere", functionId |-> "pay", value |-> value,
               set |-> "nothing", key |-> <<>>, to |-> 0]

\* A transaction that calls a setter of Governance.
SetParam(name, to) == [destination |-> "Governance", functionId |-> name, value |-> 0,
                       set |-> name, key |-> <<>>, to |-> to]

SetConstitution(key, to) == [destination |-> "Governance", functionId |-> "setConstitution",
                             value |-> 0, set |-> "constitution", key |-> key, to |-> to]

Keys == {<<"elsewhere", "default">>, <<"elsewhere", "pay">>}

Params(concurrent, expiry, frequency, approval, referendum, execution) ==
    [concurrentProposals |-> concurrent, minDeposit |-> 1, queueExpiry |-> expiry,
     dequeueFrequency |-> frequency, approval |-> approval, referendum |-> referendum,
     execution |-> execution, baseline |-> 2, baselineFloor |-> 1,
     baselineUpdateFactor |-> 2, baselineQuorumFactor |-> 2]

\* A batch is one proposal, and the stages of batches overlap.
OneByOne == Params(1, 2, 1, 1, 1, 1)

\* A batch is dequeued while the one before is still in its referendum stage.
Staggered == Params(1, 3, 1, 1, 2, 1)

NoKeys == {}

OnePayment == {<<Pay(1)>>}

\* Proposals that change the rules while others are being decided: one asks of every
\* payment a support of more than one, which none has; a baseline floor of 5/4 is one
\* that setParticipationFloor refuses.
Amendments ==
    {<<Pay(1)>>,
     <<SetConstitution(<<"elsewhere", "pay">>, 4), SetParam("execution", 2)>>,
     <<SetParam("baselineFloor", 5)>>}

Symmetry == Permutations(Voters)

=============================================================================
