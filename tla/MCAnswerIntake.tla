--------------------------- MODULE MCAnswerIntake ---------------------------
(***************************************************************************)
(* Protocol operations: four required intents, two miners, one of them     *)
(* under two spellings of its id.                                          *)
(***************************************************************************)
EXTENDS AnswerIntake

MCIdentity == [id \in {"alpha", "ALPHA", "beta"} |-> IF id = "beta" THEN "b" ELSE "a"]
MCMiners == {"a", "b"}
MCMinerIds == {"alpha", "ALPHA", "beta"}

MCRequired == {"FRAUD_DETECTION", "FACT_CHECK", "URL_SCAN", "SSL_VERIFICATION"}

Object(labels, numbers) == [labels |-> labels, numbers |-> numbers, endpoints |-> {}, text |-> FALSE]

Blank == Object(<<>>, <<>>)

Confidence(n) == [confidence |-> n]

Scan(status, endpoints) ==
    [Blank EXCEPT !.labels = [status |-> status], !.endpoints = endpoints]

Outer(object) == [outer |-> {object}, signal |-> {}, answer |-> {}, summary |-> {}, bare |-> FALSE]

Prose == [outer |-> {}, signal |-> {}, answer |-> {}, summary |-> {}, bare |-> TRUE]

Plain(intent, minerId, result) ==
    [intent |-> intent, minerId |-> minerId, result |-> result, mapping |-> {}]

\* A pass inside of an envelope, a bare verdict without confidence, a fraud, and
\* prose.
FraudAnswers ==
    {Plain("FRAUD_DETECTION", "alpha",
           [Outer(Object([status |-> "OTHER"], <<>>)) EXCEPT
                !.signal = {Object([fraudulent |-> "FALSE"], Confidence(90))}]),
     Plain("FRAUD_DETECTION", "ALPHA", Outer(Object([verdict |-> "PASS"], <<>>))),
     Plain("FRAUD_DETECTION", "beta",
           Outer(Object([fraudulent |-> "TRUE", risk_level |-> "FAIL"], Confidence(95)))),
     Plain("FRAUD_DETECTION", "beta", Prose)}

\* An answer whose text begins with an object, and one that only the catalog's
\* mapping explains.
FactAnswers ==
    {Plain("FACT_CHECK", "beta",
           [Outer(Object([verdict |-> "OTHER"], <<>>)) EXCEPT
                !.answer = {Object([verdict |-> "PASS"], Confidence(90))}]),
     [intent |-> "FACT_CHECK", minerId |-> "ALPHA",
      result |-> Outer(Object([judgement |-> "FAIL"], [score |-> 90])),
      mapping |-> {[label |-> "judgement", nested |-> FALSE, confidence |-> "score"]}],
     Plain("FACT_CHECK", "alpha", Outer(Object([supported |-> "TRUE"], Confidence(80))))}

\* A scan with a risk, an envelope that says PASS around a signal that says
\* FAIL, and a number that is none.
UrlAnswers ==
    {Plain("URL_SCAN", "alpha",
           [Outer(Blank) EXCEPT !.signal = {Object([malicious |-> "FALSE"], [risk |-> 10])}]),
     Plain("URL_SCAN", "beta",
           [Outer(Object([verdict |-> "PASS"], Confidence(90))) EXCEPT
                !.signal = {Object([malicious |-> "TRUE"], [risk |-> 95])}]),
     Plain("URL_SCAN", "alpha", Outer(Object([verdict |-> "PASS"], Confidence(950))))}

SslAnswers ==
    {Plain("SSL_VERIFICATION", "alpha", Outer(Scan("READY", {"A_TO_F", "MISSING"}))),
     Plain("SSL_VERIFICATION", "alpha", Outer(Scan("PENDING", {}))),
     Plain("SSL_VERIFICATION", "beta", Outer(Scan("READY", {"A_TO_F", "T_OR_M"}))),
     Plain("SSL_VERIFICATION", "beta", Outer(Object([valid |-> "TRUE"], Confidence(80))))}

MCAnswers == FraudAnswers \cup FactAnswers \cup UrlAnswers \cup SslAnswers

\* The last two are refused.
MCReplies ==
    {[verdict |-> "PASS", confidence |-> 80], [verdict |-> "INCONCLUSIVE", confidence |-> 0],
     [verdict |-> "PASS", confidence |-> 950], [verdict |-> "OTHER", confidence |-> 80]}

MCOffered == UNION {SignalsOf(a) : a \in MCAnswers}

=============================================================================
