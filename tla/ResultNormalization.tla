------------------------- MODULE ResultNormalization -------------------------
(***************************************************************************)
(* How a miner's JSON becomes a verdict with a confidence                  *)
(* (routed-result-normalizer.ts, prose-normalizer.ts, miner-signal-map.ts).*)
(*                                                                         *)
(* A result holds up to four objects: the outer one, its signal, and the   *)
(* objects that its answer and its summary begin with.  An object is       *)
(*   labels:    the verdict-like fields it has, with the class of each     *)
(*              value: TRUE, FALSE, a verdict for any label that stands    *)
(*              for it, NO_FRAUD, PENDING, READY, or OTHER text;           *)
(*   numbers:   its numeric fields, in hundredths;                         *)
(*   endpoints: the classes of the TLS grades in its list of endpoints;    *)
(*   text:      whether it has a field to read as prose.                   *)
(* What may be undefined in the code is a set of at most one element here. *)
(***************************************************************************)
EXTENDS SettlementPolicy

Affirming == {"valid", "safe", "clean", "fixed", "trusted", "legitimate", "completed",
              "supported", "accurate"}

Accusing == {"fraudulent", "malicious", "vulnerable", "unsafe", "phishing", "revoked",
             "expired"}

Grade == {"A_TO_F", "T_OR_M", "UNKNOWN", "MISSING"}

\* The first option that is defined.
FirstOf(options) ==
    UNION {options[i] : i \in {i \in DOMAIN options :
                                \A j \in 1..(i - 1) : options[j] = {}}}

-----------------------------------------------------------------------------
\* What a boolean says depends on the field.
LabelVerdict(intent, field, value) ==
    CASE value \in Verdict -> {value}
      [] value = "NO_FRAUD" /\ intent = "FRAUD_DETECTION" -> {"PASS"}
      [] value = "TRUE" /\ field \in Affirming -> {"PASS"}
      [] value = "FALSE" /\ field \in Affirming -> {"FAIL"}
      [] value = "TRUE" /\ field \in Accusing -> {"FAIL"}
      [] value = "FALSE" /\ field \in Accusing -> {"PASS"}
      [] OTHER -> {}

StrictFields(intent) ==
    CASE intent = "FRAUD_DETECTION" -> <<"fraudulent", "verdict", "gate_decision", "risk_level">>
      [] intent = "CVE_LOOKUP" -> <<"vulnerable", "vulnerability_status", "status", "verdict">>
      [] intent = "URL_SCAN" -> <<"malicious", "safety_status", "status", "verdict">>
      [] intent = "WEB_SEARCH" -> <<"verdict", "outcome", "supported", "accurate">>
      [] intent \in {"FACT_CHECK", "AGENT_TASK"} ->
            <<"verdict", "outcome", "completed", "supported", "accurate">>
      [] OTHER -> <<"valid", "certificate_status", "status", "verdict">>

\* unitInterval: a number outside of the interval is none.
UnitInterval(payload, name) ==
    {n \in {payload.numbers[x] : x \in {name} \cap DOMAIN payload.numbers} : n <= 100}

\* What nobody doubts is certain.
SilenceIsCertainty(intent, payload, verdict) ==
    FirstOf(<<UnitInterval(payload, "confidence"), {100}>>)

InferredConfidence(intent, payload, verdict) ==
    LET OfRisk(risk) == CASE verdict = "PASS" -> 100 - risk
                          [] verdict = "FAIL" -> risk
                          [] OTHER -> 0
    IN  FirstOf(<<UnitInterval(payload, "confidence"),
                  IF intent = "URL_SCAN"
                  THEN {OfRisk(risk) : risk \in UnitInterval(payload, "risk")} ELSE {},
                  {0}>>)

Normalized(verdict, confidence, normalization) ==
    [verdict |-> verdict, confidence |-> confidence, normalization |-> normalization]

-----------------------------------------------------------------------------
LabelOf(payload, field) == {payload.labels[x] : x \in {field} \cap DOMAIN payload.labels}

\* SSL Labs: a scan that is under way, or the grades of its endpoints.
NormalizeSslLabs(payload) ==
    LET status == LabelOf(payload, "status")
        grades == payload.endpoints \ {"MISSING"}
        Strict(verdict, confidence) == {Normalized(verdict, confidence, "STRICT_STRUCTURED")}
    IN  IF status = {"PENDING"} THEN Strict("INCONCLUSIVE", 0)
        ELSE IF status # {"READY"} \/ payload.endpoints = {} THEN {}
        ELSE IF "T_OR_M" \in grades THEN Strict("FAIL", 95)
        ELSE IF grades = {"A_TO_F"} THEN Strict("PASS", 90)
        ELSE Strict("INCONCLUSIVE", 0)

\* The first strict field that says something decides.
NormalizeStrict(intent, payload) ==
    LET fields == StrictFields(intent)
        Said(field) == UNION {LabelVerdict(intent, field, value) :
                                value \in LabelOf(payload, field)}
    IN  UNION {{Normalized(verdict, confidence, "STRICT_STRUCTURED") :
                    confidence \in InferredConfidence(intent, payload, verdict)} :
                verdict \in FirstOf([i \in DOMAIN fields |-> Said(fields[i])])}

\* The catalog's mapping names a field of the outer object or of its signal; the
\* chosen payload is the fallback.  mapping is a set of at most one
\* [label, nested, confidence].
Mapped(result, payload, nested, part, field) ==
    LET Read(object) == {object[part][x] : x \in {field} \cap DOMAIN object[part]}
    IN  FirstOf(<<UNION {Read(object) : object \in IF nested THEN result.signal
                                                             ELSE result.outer},
                  Read(payload)>>)

NormalizeDeclared(intent, result, payload, mapping) ==
    UNION {
      LET verdicts == UNION {LabelVerdict(intent, m.label, value) :
                        value \in Mapped(result, payload, m.nested, "labels", m.label)}
          stated == {n \in Mapped(result, payload, m.nested, "numbers", m.confidence) :
                        n <= 100}
      IN  UNION {{Normalized(verdict, confidence, "DECLARED_MAPPING") :
                    confidence \in FirstOf(<<stated,
                                             InferredConfidence(intent, payload, verdict)>>)} :
                  verdict \in verdicts}
      : m \in mapping}

\* Looks into the envelope before the signal.
EnvelopeFirst(intent, result) == FirstOf(<<result.outer, result.signal>>)

PayloadOf(intent, result) ==
    IF intent \in {"WEB_SEARCH", "FACT_CHECK"}
    THEN FirstOf(<<result.answer, result.summary, result.signal, result.outer>>)
    ELSE FirstOf(<<result.signal, result.outer>>)

\* normalizeRoutedResult, as a set of one result.
NormalizeRoutedResult(intent, result, mapping) ==
    FirstOf(<<UNION {FirstOf(<<
                        IF intent = "SSL_VERIFICATION" THEN NormalizeSslLabs(payload) ELSE {},
                        NormalizeStrict(intent, payload),
                        NormalizeDeclared(intent, result, payload, mapping),
                        {Normalized("INCONCLUSIVE", confidence, "ABSTAINED") :
                            confidence \in FirstOf(<<UnitInterval(payload, "confidence"), {0}>>)}
                     >>) : payload \in PayloadOf(intent, result)},
              {Normalized("INCONCLUSIVE", 0, "ABSTAINED")}>>)

\* proseFromResult: a bare string, a mapped label that is a string, or a field of prose.
HasProse(result, mapping) ==
    LET direct == FirstOf(<<result.signal, result.outer>>)
    IN  \/ result.bare
        \/ \E payload \in direct : payload.text
        \/ \E m \in mapping :
              \E object \in direct \cup IF m.nested THEN result.signal ELSE result.outer :
                LabelOf(object, m.label) \ {"TRUE", "FALSE"} # {}

\* normalizeMinerProse: a reply that is no verdict with a confidence is refused.
NormalizeMinerProse(replies) == {r \in replies : r.verdict \in Verdict /\ r.confidence <= 100}

\* normalizeRoutedResultWithProse: the model is asked only when the rules abstain,
\* and its reply, one of replies, may be missing or refused.
NormalizeRoutedResultWithProse(intent, result, mapping, replies) ==
    LET deterministic == NormalizeRoutedResult(intent, result, mapping)
    IN  deterministic \cup
        IF /\ \A n \in deterministic : n.normalization = "ABSTAINED"
           /\ HasProse(result, mapping)
        THEN {Normalized(r.verdict, r.confidence, "PROSE_MODEL") : r \in NormalizeMinerProse(replies)}
        ELSE {}

=============================================================================
