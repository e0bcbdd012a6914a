-------------------------- MODULE SettlementPolicy --------------------------
(***************************************************************************)
(* The pure policy that turns the signals of a verification into a         *)
(* decision (evaluate-settlement.ts, verification.ts, policy-pack.ts).     *)
(*                                                                         *)
(* Signals are a sequence: which of two signals came first matters to      *)
(* uniqueMinerSignals and to the search for the fraud signal.  A signal's  *)
(* confidence is reduced to whether it reaches MIN_CONFIDENCE.             *)
(***************************************************************************)
EXTENDS Naturals, Sequences

CONSTANTS
    MinerIds,   \* miner ids as miners report them
    Miners,     \* miner identities
    Identity    \* what trim and toLowerCase make of an id

ASSUME IdentityAssumption == Identity \in [MinerIds -> Miners]

VerificationIntent == {"FRAUD_DETECTION", "CVE_LOOKUP", "URL_SCAN", "SSL_VERIFICATION",
                       "FACT_CHECK", "WEB_SEARCH", "CONTENT_EXTRACTION", "AGENT_TASK"}

Verdict == {"PASS", "FAIL", "INCONCLUSIVE"}

VerificationSignal == [intent : VerificationIntent, minerId : MinerIds, verdict : Verdict,
                       confident : BOOLEAN]

\* The required intents of POLICY_PACKS, in order.
RequiredIntents ==
    [secureDelivery     |-> <<"FRAUD_DETECTION", "URL_SCAN", "SSL_VERIFICATION">>,
     research           |-> <<"FRAUD_DETECTION", "FACT_CHECK", "AGENT_TASK">>,
     dataWork           |-> <<"FRAUD_DETECTION", "FACT_CHECK", "AGENT_TASK">>,
     content            |-> <<"FRAUD_DETECTION", "FACT_CHECK", "AGENT_TASK">>,
     growth             |-> <<"FRAUD_DETECTION", "FACT_CHECK", "URL_SCAN">>,
     protocolOperations |-> <<"FRAUD_DETECTION", "FACT_CHECK", "URL_SCAN", "SSL_VERIFICATION">>,
     agentServices      |-> <<"FRAUD_DETECTION", "FACT_CHECK", "AGENT_TASK">>]

-----------------------------------------------------------------------------
\* Compares the ids as reported.
SameId(s, t) == s.intent = t.intent /\ s.minerId = t.minerId

SameVoice(s, t) == s.intent = t.intent /\ Identity[s.minerId] = Identity[t.minerId]

\* The first signal of each miner and intent, whatever it says.
UniqueMinerSignals(signals) ==
    {i \in DOMAIN signals : \A j \in 1..(i - 1) : ~SameVoice(signals[j], signals[i])}

\* Takes a verdict below the threshold for an answer.
AnswerGiven(s) == s.verdict # "INCONCLUSIVE"

IsConclusive(s) == s.verdict # "INCONCLUSIVE" /\ s.confident

Conclusive(signals) == {i \in UniqueMinerSignals(signals) : IsConclusive(signals[i])}

MissingIntents(signals, required) ==
    {intent \in required : \A i \in Conclusive(signals) : signals[i].intent # intent}

\* The last conclusive fraud signal decides.
LastFraudFails(signals) ==
    \E i \in Conclusive(signals) :
        /\ signals[i].intent = "FRAUD_DETECTION"
        /\ signals[i].verdict = "FAIL"
        /\ \A j \in Conclusive(signals) : j > i => signals[j].intent # "FRAUD_DETECTION"

\* The first conclusive fraud signal says FAIL.
FraudFails(signals) ==
    \E i \in Conclusive(signals) :
        /\ signals[i].intent = "FRAUD_DETECTION"
        /\ signals[i].verdict = "FAIL"
        /\ \A j \in Conclusive(signals) : j < i => signals[j].intent # "FRAUD_DETECTION"

SomeFails(signals) == \E i \in Conclusive(signals) : signals[i].verdict = "FAIL"

\* Two signals are enough, whoever sent them.
TwoSignals(signals) == \E i, j \in Conclusive(signals) : i # j

TwoMiners(signals) ==
    \E i, j \in Conclusive(signals) :
        Identity[signals[i].minerId] # Identity[signals[j].minerId]

EvaluateSettlement(signals, required) ==
    IF FraudFails(signals) THEN "REJECT"
    ELSE IF SomeFails(signals) THEN "HOLD"
    ELSE IF MissingIntents(signals, required) # {} THEN "RETRY"
    ELSE IF ~TwoMiners(signals) THEN "RETRY"
    ELSE "RELEASE"

=============================================================================
