---------------------------- MODULE SignalIntake ----------------------------
(***************************************************************************)
(* The settlement policy applied to a growing list of signals: whatever a  *)
(* verification run, a recovery or a fresh-evidence composition hands to   *)
(* evaluateSettlement is some such list.                                   *)
(***************************************************************************)
EXTENDS SettlementPolicy

CONSTANTS
    Required,   \* the required intents of the pact's policy pack
    Offered,    \* the signals that may arrive
    MaxSignals  \* bound on the length of the list

\* Every policy pack asks for fraud detection.
ASSUME IntakeAssumption ==
    /\ Required \subseteq VerificationIntent
    /\ "FRAUD_DETECTION" \in Required
    /\ Offered \subseteq VerificationSignal

VARIABLE signals

Decision(s) == EvaluateSettlement(s, Required)

Init == signals = <<>>

Arrive(s) == signals' = Append(signals, s)

Next == \E s \in Offered : Len(signals) < MaxSignals /\ Arrive(s)

Spec == Init /\ [][Next]_signals

-----------------------------------------------------------------------------
\* The first word of a miner on an intent.
FirstWord(i) ==
    ~\E j \in 1..(i - 1) :
        /\ signals[j].intent = signals[i].intent
        /\ Identity[signals[j].minerId] = Identity[signals[i].minerId]

Newest == signals[Len(signals)]

TypeOK == signals \in Seq(VerificationSignal)

\* Money is released only on evidence: every required intent was passed with
\* confidence by a miner who had said nothing else on it before, two such
\* answers come from different miners, and no first word is a confident FAIL
\* (evaluateSettlement's guards in their order).
ReleaseIsEarned ==
    Decision(signals) = "RELEASE" =>
        LET Good == {i \in DOMAIN signals : /\ FirstWord(i)
                                            /\ signals[i].verdict = "PASS"
                                            /\ signals[i].confident}
        IN  /\ \A intent \in Required : \E i \in Good : signals[i].intent = intent
            /\ \E i, j \in Good : Identity[signals[i].minerId] # Identity[signals[j].minerId]
            /\ ~\E i \in DOMAIN signals : /\ FirstWord(i)
                                          /\ signals[i].verdict = "FAIL"
                                          /\ signals[i].confident

\* A miner cannot change a decision by speaking again on the same intent, under
\* any spelling of its id (uniqueMinerSignals).
OneWordPerMiner ==
    [][(\E i \in DOMAIN signals :
            /\ signals[i].intent = Newest'.intent
            /\ Identity[signals[i].minerId] = Identity[Newest'.minerId])
       => Decision(signals') = Decision(signals)]_signals

NotSofter(before, after) ==
    /\ before = "REJECT" => after = "REJECT"
    /\ before = "HOLD" => after \in {"HOLD", "REJECT"}
    /\ before = "RELEASE" => after \in {"RELEASE", "HOLD"}

\* More evidence never softens a decision: REJECT is final, HOLD can only become
\* REJECT, and a RELEASE can only be held.
DecisionsNeverSoften == [][NotSofter(Decision(signals), Decision(signals'))]_signals

=============================================================================
