------------------------- MODULE AnswerIntakeProofs -------------------------
(***************************************************************************)
(* The settlement policy for every set of miners, every spelling of their  *)
(* ids, every required set and lists of any length; and whatever miners    *)
(* answer.                                                                 *)
(*                                                                         *)
(* About signals everything follows from one fact about Append: the        *)
(* conclusive signals of the longer list are those of the shorter one,     *)
(* plus the new signal when it is conclusive and its miner had not spoken  *)
(* on its intent.  Answers arrive as signals, so what is proved of every   *)
(* list of signals holds of every list of answers.  What an answer says    *)
(* reaches its signal: a confident PASS is stated somewhere in the answer, *)
(* and a failure stated plainly becomes a conclusive FAIL.                 *)
(***************************************************************************)
EXTENDS AnswerIntake, SequenceTheorems, WellFoundedInduction, TLAPS

-----------------------------------------------------------------------------
(* Lists of signals *)

\* The list only ever holds signals.
THEOREM TypeCorrect == Spec => []TypeOK
<1>1. Init => TypeOK
  BY DEF Init, TypeOK
<1>2. TypeOK /\ [Next]_signals => TypeOK'
  <2> SUFFICES ASSUME TypeOK, [Next]_signals PROVE TypeOK'
    OBVIOUS
  <2>1. CASE UNCHANGED signals
    BY <2>1 DEF TypeOK
  <2>2. CASE Next
    <3>1. PICK s \in Offered : Arrive(s)
      BY <2>2 DEF Next
    <3>2. s \in VerificationSignal
      BY <3>1, IntakeAssumption
    <3> QED
      BY <3>1, <3>2, AppendProperties DEF TypeOK, Arrive
  <2> QED
    BY <2>1, <2>2
<1> QED
  BY <1>1, <1>2, PTL DEF Spec

-----------------------------------------------------------------------------
\* A first word is one uniqueMinerSignals keeps.
LEMMA FirstWordsAreKept ==
    UniqueMinerSignals(signals) = {i \in DOMAIN signals : FirstWord(i)}
BY DEF UniqueMinerSignals, SameVoice, FirstWord

\* What RELEASE says about the signals it was decided on.
LEMMA ReleaseNeedsEvidence == TypeOK => ReleaseIsEarned
<1> SUFFICES ASSUME TypeOK, Decision(signals) = "RELEASE"
             PROVE  ReleaseIsEarned
  BY DEF ReleaseIsEarned
<1> DEFINE Good == {i \in DOMAIN signals : /\ FirstWord(i)
                                           /\ signals[i].verdict = "PASS"
                                           /\ signals[i].confident}
<1>1. /\ ~SomeFails(signals)
      /\ MissingIntents(signals, Required) = {}
      /\ TwoMiners(signals)
  BY DEF Decision, EvaluateSettlement
<1>2. \A i \in DOMAIN signals : signals[i].verdict \in Verdict
  <2>1. \A i \in DOMAIN signals : signals[i] \in VerificationSignal
    BY ElementOfSeq, LenProperties DEF TypeOK
  <2> QED
    BY <2>1 DEF VerificationSignal
<1>3. Conclusive(signals) =
        {i \in DOMAIN signals : FirstWord(i) /\ IsConclusive(signals[i])}
  BY FirstWordsAreKept DEF Conclusive
<1>4. Conclusive(signals) = Good
  BY <1>1, <1>2, <1>3 DEF SomeFails, IsConclusive, Verdict
<1>5. \A intent \in Required : \E i \in Good : signals[i].intent = intent
  BY <1>1, <1>4 DEF MissingIntents
<1>6. \E i, j \in Good : Identity[signals[i].minerId] # Identity[signals[j].minerId]
  BY <1>1, <1>4 DEF TwoMiners
<1>7. ~\E i \in DOMAIN signals : /\ FirstWord(i)
                                 /\ signals[i].verdict = "FAIL"
                                 /\ signals[i].confident
  BY <1>1, <1>3 DEF SomeFails, IsConclusive
<1> QED
  BY <1>5, <1>6, <1>7 DEF ReleaseIsEarned

\* Money is released only on evidence.
THEOREM ReleaseTheorem == Spec => []ReleaseIsEarned
BY TypeCorrect, ReleaseNeedsEvidence, PTL

-----------------------------------------------------------------------------
\* Whether some kept signal was sent by the voice of s.
HasSpoken(s) == \E i \in DOMAIN signals : SameVoice(signals[i], s)

\* The conclusive signals of a longer list.
LEMMA ConclusiveOfAppend ==
    ASSUME signals \in Seq(VerificationSignal), NEW s \in VerificationSignal
    PROVE  LET longer == Append(signals, s)
               n == Len(signals) + 1
           IN  /\ \A i \in DOMAIN signals : longer[i] = signals[i]
               /\ longer[n] = s
               /\ n \notin Conclusive(signals)
               /\ \A i \in Conclusive(signals) : i \in 1..Len(signals)
               /\ Conclusive(longer) =
                    Conclusive(signals)
                        \cup (IF ~HasSpoken(s) /\ IsConclusive(s) THEN {n} ELSE {})
<1> DEFINE longer == Append(signals, s)
           n == Len(signals) + 1
<1>1. /\ Len(signals) \in Nat
      /\ DOMAIN signals = 1..Len(signals)
      /\ DOMAIN longer = 1..n
      /\ longer[n] = s
      /\ \A i \in 1..Len(signals) : longer[i] = signals[i]
  BY AppendProperties, LenProperties
<1> HIDE DEF longer
<1>2. \A i \in 1..Len(signals) :
        i \in UniqueMinerSignals(longer) <=> i \in UniqueMinerSignals(signals)
  BY <1>1 DEF UniqueMinerSignals
<1>3. n \in UniqueMinerSignals(longer) <=> ~HasSpoken(s)
  BY <1>1 DEF UniqueMinerSignals, HasSpoken
<1>4. /\ UniqueMinerSignals(longer) \subseteq 1..n
      /\ UniqueMinerSignals(signals) \subseteq 1..Len(signals)
  BY <1>1 DEF UniqueMinerSignals
<1>5. \A i \in 1..Len(signals) : i \in Conclusive(longer) <=> i \in Conclusive(signals)
  BY <1>1, <1>2 DEF Conclusive
<1>6. n \in Conclusive(longer) <=> (~HasSpoken(s) /\ IsConclusive(s))
  BY <1>1, <1>3 DEF Conclusive
<1>7. /\ Conclusive(longer) \subseteq 1..n
      /\ Conclusive(signals) \subseteq 1..Len(signals)
  BY <1>4 DEF Conclusive
<1>8. 1..n = (1..Len(signals)) \cup {n}
  BY <1>1
<1>9. n \notin 1..Len(signals)
  BY <1>1
<1>10. Conclusive(longer) =
         Conclusive(signals) \cup (IF ~HasSpoken(s) /\ IsConclusive(s) THEN {n} ELSE {})
  BY <1>5, <1>6, <1>7, <1>8, <1>9
<1> QED
  BY <1>1, <1>7, <1>9, <1>10 DEF longer

\* A signal that is not kept or not conclusive leaves every part of the policy as it was.
LEMMA OnlyNewWordsCount ==
    ASSUME signals \in Seq(VerificationSignal), NEW s \in VerificationSignal,
           HasSpoken(s) \/ ~IsConclusive(s)
    PROVE  Decision(Append(signals, s)) = Decision(signals)
<1> DEFINE longer == Append(signals, s)
<1>1. /\ Conclusive(longer) = Conclusive(signals)
      /\ \A i \in Conclusive(signals) : longer[i] = signals[i]
  <2>1. Conclusive(signals) \subseteq DOMAIN signals
    BY DEF Conclusive, UniqueMinerSignals
  <2> QED
    BY <2>1, ConclusiveOfAppend
<1> HIDE DEF longer
<1>2. FraudFails(longer) <=> FraudFails(signals)
  BY <1>1 DEF FraudFails
<1>3. SomeFails(longer) <=> SomeFails(signals)
  BY <1>1 DEF SomeFails
<1>4. MissingIntents(longer, Required) = MissingIntents(signals, Required)
  BY <1>1 DEF MissingIntents
<1>5. TwoMiners(longer) <=> TwoMiners(signals)
  BY <1>1 DEF TwoMiners
<1>6. Decision(longer) = Decision(signals)
  BY <1>2, <1>3, <1>4, <1>5 DEF Decision, EvaluateSettlement
<1> QED
  BY <1>6 DEF longer

\* A miner cannot change a decision by speaking again on the same intent.
THEOREM OneWordTheorem == Spec => OneWordPerMiner
<1>1. ASSUME TypeOK, Next, NEW i \in DOMAIN signals,
             signals[i].intent = Newest'.intent,
             Identity[signals[i].minerId] = Identity[Newest'.minerId]
      PROVE  Decision(signals') = Decision(signals)
  <2>1. PICK s \in Offered : Arrive(s)
    BY <1>1 DEF Next
  <2>2. s \in VerificationSignal
    BY IntakeAssumption
  <2>3. Newest' = s
    BY <1>1, <2>1, <2>2, AppendProperties DEF TypeOK, Arrive, Newest
  <2>4. HasSpoken(s)
    BY <1>1, <2>3 DEF HasSpoken, SameVoice
  <2> QED
    BY <1>1, <2>1, <2>2, <2>4, OnlyNewWordsCount DEF TypeOK, Arrive
<1>2. TypeOK /\ [Next]_signals =>
        [(\E i \in DOMAIN signals :
            /\ signals[i].intent = Newest'.intent
            /\ Identity[signals[i].minerId] = Identity[Newest'.minerId])
         => Decision(signals') = Decision(signals)]_signals
  BY <1>1
<1> QED
  BY <1>2, TypeCorrect, PTL DEF Spec, OneWordPerMiner

-----------------------------------------------------------------------------
\* What one more signal can do to a decision.
LEMMA AppendNeverSoftens ==
    ASSUME signals \in Seq(VerificationSignal), NEW s \in VerificationSignal
    PROVE  NotSofter(Decision(signals), Decision(Append(signals, s)))
<1> DEFINE longer == Append(signals, s)
           n == Len(signals) + 1
           C == Conclusive(signals)
           D == Conclusive(longer)
<1>1. /\ Len(signals) \in Nat
      /\ C \subseteq 1..Len(signals)
      /\ \A i \in C : longer[i] = signals[i]
      /\ D = C \/ D = C \cup {n}
  <2>1. C \subseteq DOMAIN signals
    BY DEF Conclusive, UniqueMinerSignals
  <2> QED
    BY <2>1, ConclusiveOfAppend, LenProperties
<1> HIDE DEF longer
<1>2. FraudFails(signals) => FraudFails(longer)
  <2> SUFFICES ASSUME NEW i \in C,
                      signals[i].intent = "FRAUD_DETECTION",
                      signals[i].verdict = "FAIL",
                      \A j \in C : j < i => signals[j].intent # "FRAUD_DETECTION"
               PROVE  FraudFails(longer)
    BY DEF FraudFails
  <2>1. i \in D /\ longer[i] = signals[i]
    BY <1>1
  <2>2. \A j \in D : j < i => longer[j].intent # "FRAUD_DETECTION"
    <3> SUFFICES ASSUME NEW j \in D, j < i PROVE longer[j].intent # "FRAUD_DETECTION"
      OBVIOUS
    <3>1. j \in C
      BY <1>1
    <3> QED
      BY <1>1, <3>1
  <2> QED
    BY <2>1, <2>2 DEF FraudFails
<1>3. SomeFails(signals) => SomeFails(longer)
  BY <1>1 DEF SomeFails
<1>4. MissingIntents(signals, Required) = {} => MissingIntents(longer, Required) = {}
  BY <1>1 DEF MissingIntents
<1>5. TwoMiners(signals) => TwoMiners(longer)
  BY <1>1 DEF TwoMiners
<1>6. ASSUME MissingIntents(signals, Required) = {}, ~SomeFails(signals)
      PROVE  ~FraudFails(longer)
  <2>1. PICK f \in C : signals[f].intent = "FRAUD_DETECTION"
    BY <1>6, IntakeAssumption DEF MissingIntents
  <2>2. SUFFICES ASSUME NEW i \in D,
                        longer[i].intent = "FRAUD_DETECTION",
                        longer[i].verdict = "FAIL",
                        \A j \in D : j < i => longer[j].intent # "FRAUD_DETECTION"
                 PROVE  FALSE
    BY DEF FraudFails
  <2>3. i \notin C
    BY <1>1, <1>6, <2>2 DEF SomeFails
  <2>4. i = n
    BY <1>1, <2>3
  <2>5. f < i /\ f \in D /\ longer[f] = signals[f]
    BY <1>1, <2>4
  <2> QED
    BY <2>1, <2>2, <2>5
<1>7. Decision(signals) = "REJECT" => Decision(longer) = "REJECT"
  BY <1>2 DEF Decision, EvaluateSettlement
<1>8. Decision(signals) = "HOLD" => Decision(longer) \in {"HOLD", "REJECT"}
  BY <1>3 DEF Decision, EvaluateSettlement
<1>9. Decision(signals) = "RELEASE" => Decision(longer) \in {"RELEASE", "HOLD"}
  BY <1>4, <1>5, <1>6 DEF Decision, EvaluateSettlement
<1>10. NotSofter(Decision(signals), Decision(longer))
  BY <1>7, <1>8, <1>9 DEF NotSofter
<1> QED
  BY <1>10 DEF longer

\* More evidence never softens a decision.
THEOREM DecisionsTheorem == Spec => DecisionsNeverSoften
<1>1. ASSUME TypeOK, Next PROVE NotSofter(Decision(signals), Decision(signals'))
  <2>1. PICK s \in Offered : Arrive(s)
    BY <1>1 DEF Next
  <2>2. s \in VerificationSignal
    BY IntakeAssumption
  <2> QED
    BY <1>1, <2>1, <2>2, AppendNeverSoftens DEF TypeOK, Arrive
<1>2. TypeOK /\ [Next]_signals => [NotSofter(Decision(signals), Decision(signals'))]_signals
  BY <1>1
<1> QED
  BY <1>2, TypeCorrect, PTL DEF Spec, DecisionsNeverSoften

-----------------------------------------------------------------------------
(* Lists of answers *)

\* Every answer arrives as one of the signals offered: the intake of answers
\* implements the intake of signals.
THEOREM AnswersAreSignals == AnswerSpec => Spec
<1>1. ASSUME [AnswerNext]_signals PROVE [Next]_signals
  <2>1. CASE UNCHANGED signals
    BY <2>1
  <2>2. CASE AnswerNext
    <3>1. PICK a \in Answers : Receive(a)
      BY <2>2 DEF AnswerNext
    <3>2. PICK s \in SignalsFrom[a] : Arrive(s)
      BY <3>1 DEF Receive
    <3>3. s \in Offered
      BY <3>2, AnswersAssumption
    <3> QED
      BY <3>1, <3>2, <3>3 DEF Receive, Next
  <2> QED
    BY <1>1, <2>1, <2>2
<1> QED
  BY <1>1, PTL DEF AnswerSpec, Spec

\* A release of money rests on evidence, whatever form the answers had.
THEOREM AnsweredReleaseIsEarned == AnswerSpec => []ReleaseIsEarned
BY AnswersAreSignals, ReleaseTheorem, PTL

-----------------------------------------------------------------------------
\* What is defined first is one of the options.
LEMMA FirstIsAnOption ==
    ASSUME NEW options, NEW x \in FirstOf(options)
    PROVE  \E i \in DOMAIN options : x \in options[i]
BY DEF FirstOf

LEMMA FirstOfTwo ==
    ASSUME NEW p, NEW q, NEW x \in FirstOf(<<p, q>>)
    PROVE  x \in p \/ x \in q
<1>1. PICK i \in DOMAIN <<p, q>> : x \in <<p, q>>[i]
  BY FirstIsAnOption
<1> QED
  BY <1>1

LEMMA FirstOfThree ==
    ASSUME NEW p, NEW q, NEW r, NEW x \in FirstOf(<<p, q, r>>)
    PROVE  x \in p \/ x \in q \/ x \in r
<1>1. PICK i \in DOMAIN <<p, q, r>> : x \in <<p, q, r>>[i]
  BY FirstIsAnOption
<1> QED
  BY <1>1

LEMMA FirstOfFour ==
    ASSUME NEW p, NEW q, NEW r, NEW t, NEW x \in FirstOf(<<p, q, r, t>>)
    PROVE  x \in p \/ x \in q \/ x \in r \/ x \in t
<1>1. PICK i \in DOMAIN <<p, q, r, t>> : x \in <<p, q, r, t>>[i]
  BY FirstIsAnOption
<1> QED
  BY <1>1

\* No label is read as PASS that does not say so.
LEMMA PassIsSaid ==
    ASSUME NEW intent, NEW field, NEW value, "PASS" \in LabelVerdict(intent, field, value)
    PROVE  \/ value \in {"PASS", "NO_FRAUD"}
           \/ value = "TRUE" /\ field \notin Accusing
           \/ value = "FALSE" /\ field \notin Affirming
<1>1. field \in Affirming => field \notin Accusing
  BY DEF Affirming, Accusing
<1> QED
  BY <1>1 DEF LabelVerdict, Verdict

\* A payload whose numbers are numbers.
Numeric(object) == \A name \in DOMAIN object.numbers : object.numbers[name] \in Nat

\* Confidence in a PASS comes from a number the object has.
LEMMA ConfidenceIsStated ==
    ASSUME NEW intent, NEW payload, Numeric(payload),
           NEW n \in InferredConfidence(intent, payload, "PASS"), n >= MinConfidence
    PROVE  StatesConfidence(payload)
<1> DEFINE declared == UnitInterval(payload, "confidence")
           OfRisk(risk) == CASE "PASS" = "PASS" -> 100 - risk
                             [] "PASS" = "FAIL" -> risk
                             [] OTHER -> 0
           inferred == IF intent = "URL_SCAN"
                       THEN {OfRisk(risk) : risk \in UnitInterval(payload, "risk")} ELSE {}
<1>1. n \in declared \/ n \in inferred \/ n \in {0}
  <2> HIDE DEF declared
  <2>1. n \in FirstOf(<<UnitInterval(payload, "confidence"), inferred, {0}>>)
    BY DEF InferredConfidence
  <2> HIDE DEF inferred
  <2>2. n \in UnitInterval(payload, "confidence") \/ n \in inferred \/ n \in {0}
    BY <2>1, FirstOfThree
  <2> QED
    BY <2>2 DEF declared
<1>2. CASE n \in declared
  BY <1>2 DEF UnitInterval, Numeric, StatesConfidence, MinConfidence
<1>3. CASE n \in inferred
  <2>1. PICK risk \in UnitInterval(payload, "risk") : n = 100 - risk
    BY <1>3
  <2>2. /\ "risk" \in DOMAIN payload.numbers
        /\ risk = payload.numbers["risk"]
        /\ risk \in Nat
    BY <2>1 DEF UnitInterval, Numeric
  <2>3. risk <= 100 - MinConfidence
    BY <2>1, <2>2 DEF MinConfidence
  <2> QED
    BY <2>2, <2>3 DEF StatesConfidence
<1>4. CASE n \in {0}
  BY <1>4 DEF MinConfidence
<1> QED
  BY <1>1, <1>2, <1>3, <1>4

LEMMA LabelsSayPass ==
    ASSUME NEW intent, NEW object, NEW field, NEW value \in LabelOf(object, field),
           "PASS" \in LabelVerdict(intent, field, value)
    PROVE  SaysPass(object)
<1>1. field \in DOMAIN object.labels /\ value = object.labels[field]
  BY DEF LabelOf
<1> QED
  BY <1>1, PassIsSaid DEF SaysPass

LEMMA SslSaysPass ==
    ASSUME NEW payload, NEW x \in NormalizeSslLabs(payload), x.verdict = "PASS"
    PROVE  SaysPass(payload) /\ StatesConfidence(payload)
<1>1. "A_TO_F" \in payload.endpoints
  BY DEF NormalizeSslLabs, Normalized
<1> QED
  BY <1>1 DEF SaysPass, StatesConfidence

LEMMA StrictSaysPass ==
    ASSUME NEW intent, NEW payload, Numeric(payload),
           NEW x \in NormalizeStrict(intent, payload),
           x.verdict = "PASS", x.confidence >= MinConfidence
    PROVE  SaysPass(payload) /\ StatesConfidence(payload)
<1> DEFINE fields == StrictFields(intent)
           Said(field) == UNION {LabelVerdict(intent, field, value) :
                                    value \in LabelOf(payload, field)}
           said == [i \in DOMAIN fields |-> Said(fields[i])]
<1>1. PICK verdict \in FirstOf(said) :
        \E confidence \in InferredConfidence(intent, payload, verdict) :
            x = Normalized(verdict, confidence, "STRICT_STRUCTURED")
  BY DEF NormalizeStrict
<1>2. verdict = "PASS" /\ x.confidence \in InferredConfidence(intent, payload, "PASS")
  BY <1>1 DEF Normalized
<1>3. \E i \in DOMAIN said : "PASS" \in said[i]
  <2> HIDE DEF said
  <2> QED
    BY <1>1, <1>2, FirstIsAnOption
<1>4. PICK i \in DOMAIN fields : "PASS" \in Said(fields[i])
  BY <1>3
<1>5. PICK value \in LabelOf(payload, fields[i]) : "PASS" \in LabelVerdict(intent, fields[i], value)
  BY <1>4
<1> QED
  BY <1>2, <1>5, LabelsSayPass, ConfidenceIsStated

\* What a mapping reads stands in an object of the answer.
LEMMA MappedIsRead ==
    ASSUME NEW result, NEW payload \in ObjectsOf(result), NEW nested, NEW part, NEW field,
           NEW value \in Mapped(result, payload, nested, part, field)
    PROVE  \E object \in ObjectsOf(result) :
              field \in DOMAIN object[part] /\ value = object[part][field]
<1> DEFINE Read(object) == {object[part][x] : x \in {field} \cap DOMAIN object[part]}
           source == IF nested THEN result.signal ELSE result.outer
           direct == UNION {Read(object) : object \in source}
<1>1. value \in direct \/ value \in Read(payload)
  <2>1. value \in FirstOf(<<direct, Read(payload)>>)
    BY DEF Mapped
  <2> HIDE DEF direct, Read
  <2> QED
    BY <2>1, FirstOfTwo
<1>2. source \subseteq ObjectsOf(result)
  BY DEF ObjectsOf
<1>3. PICK object \in ObjectsOf(result) : value \in Read(object)
  BY <1>1, <1>2
<1> QED
  BY <1>3

LEMMA DeclaredSaysPass ==
    ASSUME NEW intent, NEW result, NEW payload \in ObjectsOf(result), NEW mapping,
           \A object \in ObjectsOf(result) : Numeric(object),
           NEW x \in NormalizeDeclared(intent, result, payload, mapping),
           x.verdict = "PASS", x.confidence >= MinConfidence
    PROVE  /\ \E object \in ObjectsOf(result) : SaysPass(object)
           /\ \E object \in ObjectsOf(result) : StatesConfidence(object)
<1> DEFINE Labels(m) == Mapped(result, payload, m.nested, "labels", m.label)
           Verdicts(m) == UNION {LabelVerdict(intent, m.label, value) : value \in Labels(m)}
           Stated(m) == {n \in Mapped(result, payload, m.nested, "numbers", m.confidence) :
                            n <= 100}
<1>0. PICK m \in mapping : \E verdict \in Verdicts(m) :
        \E confidence \in FirstOf(<<Stated(m), InferredConfidence(intent, payload, verdict)>>) :
            x = Normalized(verdict, confidence, "DECLARED_MAPPING")
  BY DEF NormalizeDeclared
<1>1. PICK verdict \in Verdicts(m) :
        \E confidence \in FirstOf(<<Stated(m), InferredConfidence(intent, payload, verdict)>>) :
            x = Normalized(verdict, confidence, "DECLARED_MAPPING")
  BY <1>0
<1>2. /\ verdict = "PASS"
      /\ x.confidence \in FirstOf(<<Stated(m), InferredConfidence(intent, payload, "PASS")>>)
  BY <1>1 DEF Normalized
<1>3. \E object \in ObjectsOf(result) : SaysPass(object)
  <2>1. PICK value \in Labels(m) : "PASS" \in LabelVerdict(intent, m.label, value)
    BY <1>1, <1>2
  <2>2. PICK object \in ObjectsOf(result) :
            m.label \in DOMAIN object.labels /\ value = object.labels[m.label]
    BY <2>1, MappedIsRead
  <2> QED
    BY <2>1, <2>2, PassIsSaid DEF SaysPass
<1>4. CASE x.confidence \in Stated(m)
  <2>1. PICK object \in ObjectsOf(result) :
            /\ m.confidence \in DOMAIN object.numbers
            /\ x.confidence = object.numbers[m.confidence]
    BY <1>4, MappedIsRead
  <2>2. x.confidence \in Nat /\ x.confidence <= 100
    BY <1>4, <2>1 DEF Numeric
  <2>3. StatesConfidence(object)
    BY <2>1, <2>2 DEF StatesConfidence, MinConfidence
  <2> QED
    BY <1>3, <2>3
<1>5. CASE x.confidence \in InferredConfidence(intent, payload, "PASS")
  BY <1>3, <1>5, ConfidenceIsStated
<1> QED
  <2> HIDE DEF Stated
  <2> QED
    BY <1>2, <1>4, <1>5, FirstOfTwo

\* The payload is one of the answer's objects.
LEMMA PayloadIsAnObject ==
    ASSUME NEW intent, NEW result, NEW payload \in PayloadOf(intent, result)
    PROVE  payload \in ObjectsOf(result)
<1>1. CASE intent \in {"WEB_SEARCH", "FACT_CHECK"}
  <2>1. payload \in FirstOf(<<result.answer, result.summary, result.signal, result.outer>>)
    BY <1>1 DEF PayloadOf
  <2> QED
    BY <2>1, FirstOfFour DEF ObjectsOf
<1>2. CASE intent \notin {"WEB_SEARCH", "FACT_CHECK"}
  <2>1. payload \in FirstOf(<<result.signal, result.outer>>)
    BY <1>2 DEF PayloadOf
  <2> QED
    BY <2>1, FirstOfTwo DEF ObjectsOf
<1> QED
  BY <1>1, <1>2

\* The rules read a confident PASS from an answer only when it states one.
LEMMA RulesNeedAStatedPass ==
    ASSUME NEW intent, NEW result, NEW mapping,
           \A object \in ObjectsOf(result) : Numeric(object),
           NEW x \in NormalizeRoutedResult(intent, result, mapping),
           x.verdict = "PASS", x.confidence >= MinConfidence
    PROVE  /\ \E object \in ObjectsOf(result) : SaysPass(object)
           /\ \E object \in ObjectsOf(result) : StatesConfidence(object)
<1> DEFINE Ssl(payload) ==
               IF intent = "SSL_VERIFICATION" THEN NormalizeSslLabs(payload) ELSE {}
           Abstained(payload) ==
               {Normalized("INCONCLUSIVE", confidence, "ABSTAINED") :
                   confidence \in FirstOf(<<UnitInterval(payload, "confidence"), {0}>>)}
           Rules(payload) == FirstOf(<<Ssl(payload), NormalizeStrict(intent, payload),
                                       NormalizeDeclared(intent, result, payload, mapping),
                                       Abstained(payload)>>)
           read == UNION {Rules(payload) : payload \in PayloadOf(intent, result)}
           nothing == {Normalized("INCONCLUSIVE", 0, "ABSTAINED")}
<1>1. x \in read \/ x \in nothing
  <2>1. x \in FirstOf(<<read, nothing>>)
    BY DEF NormalizeRoutedResult
  <2> HIDE DEF read, nothing
  <2> QED
    BY <2>1, FirstOfTwo
<1>2. x \notin nothing
  BY DEF Normalized
<1>3. PICK payload \in PayloadOf(intent, result) : x \in Rules(payload)
  <2> HIDE DEF Rules
  <2> QED
    BY <1>1, <1>2
<1>4. payload \in ObjectsOf(result)
  BY PayloadIsAnObject
<1>5. x \notin Abstained(payload)
  BY DEF Normalized
<1>6. \/ x \in Ssl(payload)
      \/ x \in NormalizeStrict(intent, payload)
      \/ x \in NormalizeDeclared(intent, result, payload, mapping)
  <2> HIDE DEF Ssl, Abstained
  <2> QED
    BY <1>3, <1>5, FirstOfFour
<1>7. CASE x \in Ssl(payload)
  BY <1>4, <1>7, SslSaysPass
<1>8. CASE x \in NormalizeStrict(intent, payload)
  BY <1>4, <1>8, StrictSaysPass
<1>9. CASE x \in NormalizeDeclared(intent, result, payload, mapping)
  BY <1>4, <1>9, DeclaredSaysPass
<1> QED
  BY <1>6, <1>7, <1>8, <1>9

\* A confident PASS is the signal of an answer that states it, or of prose.
LEMMA SignalsNeedAStatedPass ==
    ASSUME NEW a \in Answers, NEW s \in SignalsFrom[a], s.verdict = "PASS", s.confident
    PROVE  a \in Passes
<1>1. s \in SignalsOf(a)
  BY DEF SignalsFrom
<1>2. PICK mapping \in Catalog(a),
           n \in UNION {NormalizeRoutedResultWithProse(a.intent, a.result, c, Replies) :
                            c \in Catalog(a)} :
        /\ s = [intent |-> a.intent, minerId |-> a.minerId, verdict |-> n.verdict,
                confident |-> n.confidence >= MinConfidence]
        /\ n \in NormalizeRoutedResultWithProse(a.intent, a.result, mapping, Replies)
  BY <1>1 DEF SignalsOf, Signal
<1>3. n.verdict = "PASS" /\ n.confidence >= MinConfidence
  BY <1>2
<1>4. \A object \in ObjectsOf(a.result) : Numeric(object)
  BY AnswersAssumption DEF Numeric
<1>5. CASE n \in NormalizeRoutedResult(a.intent, a.result, mapping)
  BY <1>3, <1>4, <1>5, RulesNeedAStatedPass DEF Passes, StatesPass
<1>6. CASE HasProse(a.result, mapping)
  BY <1>6 DEF Passes
<1> QED
  BY <1>2, <1>5, <1>6 DEF NormalizeRoutedResultWithProse

\* Only a confident PASS can make a decision a RELEASE.
LEMMA ReleaseTakesAPass ==
    ASSUME TypeOK, NEW s \in VerificationSignal, Arrive(s),
           Decision(signals') = "RELEASE", Decision(signals) # "RELEASE"
    PROVE  s.verdict = "PASS" /\ s.confident
<1>1. signals \in Seq(VerificationSignal) /\ signals' = Append(signals, s)
  BY DEF TypeOK, Arrive
<1>2. ~HasSpoken(s) /\ IsConclusive(s)
  BY <1>1, OnlyNewWordsCount
<1> DEFINE n == Len(signals) + 1
<1>3. n \in Conclusive(signals') /\ signals'[n] = s
  BY <1>1, <1>2, ConclusiveOfAppend
<1>4. ~SomeFails(signals')
  BY DEF Decision, EvaluateSettlement
<1>5. s.verdict # "FAIL"
  BY <1>3, <1>4 DEF SomeFails
<1> QED
  BY <1>2, <1>5 DEF IsConclusive, VerificationSignal, Verdict

\* The answer that tips a decision to RELEASE states a pass, for any answers and
\* any catalog.
THEOREM StatedPassTheorem == AnswerSpec => ReleaseNeedsAStatedPass
<1>1. ASSUME TypeOK, Decision(signals') = "RELEASE", Decision(signals) # "RELEASE",
             NEW a \in Answers, Receive(a)
      PROVE  a \in Passes
  <2>1. PICK s \in SignalsFrom[a] : Arrive(s)
    BY <1>1 DEF Receive
  <2>2. s \in VerificationSignal
    BY <2>1, AnswersAssumption, IntakeAssumption
  <2> QED
    BY <1>1, <2>1, <2>2, ReleaseTakesAPass, SignalsNeedAStatedPass
<1>2. TypeOK => [Decision(signals') = "RELEASE" /\ Decision(signals) # "RELEASE" =>
                    \A a \in Answers : Receive(a) => a \in Passes]_signals
  BY <1>1
<1> QED
  BY <1>2, AnswersAreSignals, TypeCorrect, PTL DEF ReleaseNeedsAStatedPass

-----------------------------------------------------------------------------
\* Where some option is defined there is a first one.
LEMMA FirstIsThere ==
    ASSUME NEW options, NEW n \in Nat, DOMAIN options = 1..n,
           NEW i \in 1..n, options[i] # {}
    PROVE  FirstOf(options) # {}
<1> DEFINE T == {j \in 1..n : options[j] # {}}
           Less == {ss \in Nat \X Nat : ss[1] < ss[2]}
<1>1. IsWellFoundedOn(Less, Nat)
  BY NatLessThanWellFounded DEF OpToRel
<1>2. T \subseteq Nat /\ T # {}
  OBVIOUS
<1>3. PICK least \in T : \A j \in T : <<j, least>> \notin Less
  <2> HIDE DEF T, Less
  <2> QED
    BY <1>1, <1>2, WFMin
<1>4. ASSUME NEW j \in 1..(least - 1) PROVE options[j] = {}
  <2>1. j \in 1..n /\ j \in Nat /\ least \in Nat /\ j < least
    OBVIOUS
  <2>2. j \notin T
    BY <1>3, <2>1
  <2> QED
    BY <2>1, <2>2
<1> QED
  BY <1>3, <1>4 DEF FirstOf

\* The value of a short list of options.
LEMMA TwoOptions ==
    ASSUME NEW p, NEW q
    PROVE  FirstOf(<<p, q>>) = IF p # {} THEN p ELSE q
<1> DEFINE options == <<p, q>>
           first == {i \in DOMAIN options : \A j \in 1..(i - 1) : options[j] = {}}
<1>1. DOMAIN options = 1..2 /\ options[1] = p /\ options[2] = q
  OBVIOUS
<1>2. FirstOf(options) = UNION {options[i] : i \in first}
  BY DEF FirstOf
<1> HIDE DEF options
<1>3. first = IF p # {} THEN {1} ELSE {1, 2}
  BY <1>1
<1> HIDE DEF first
<1>4. FirstOf(options) = IF p # {} THEN p ELSE q
  BY <1>1, <1>2, <1>3
<1> QED
  BY <1>4 DEF options

LEMMA ThreeOptions ==
    ASSUME NEW p, NEW q, NEW r
    PROVE  FirstOf(<<p, q, r>>) = IF p # {} THEN p ELSE IF q # {} THEN q ELSE r
<1> DEFINE options == <<p, q, r>>
           first == {i \in DOMAIN options : \A j \in 1..(i - 1) : options[j] = {}}
<1>1. DOMAIN options = 1..3 /\ options[1] = p /\ options[2] = q /\ options[3] = r
  OBVIOUS
<1>2. FirstOf(options) = UNION {options[i] : i \in first}
  BY DEF FirstOf
<1> HIDE DEF options
<1>3. first = IF p # {} THEN {1} ELSE IF q # {} THEN {1, 2} ELSE {1, 2, 3}
  BY <1>1
<1> HIDE DEF first
<1>4. FirstOf(options) = IF p # {} THEN p ELSE IF q # {} THEN q ELSE r
  BY <1>1, <1>2, <1>3
<1> QED
  BY <1>4 DEF options

LEMMA FourOptions ==
    ASSUME NEW p, NEW q, NEW r, NEW t
    PROVE  FirstOf(<<p, q, r, t>>) =
              IF p # {} THEN p ELSE IF q # {} THEN q ELSE IF r # {} THEN r ELSE t
<1> DEFINE options == <<p, q, r, t>>
           first == {i \in DOMAIN options : \A j \in 1..(i - 1) : options[j] = {}}
<1>1. DOMAIN options = 1..4 /\ options[1] = p /\ options[2] = q /\ options[3] = r
      /\ options[4] = t
  OBVIOUS
<1>2. FirstOf(options) = UNION {options[i] : i \in first}
  BY DEF FirstOf
<1> HIDE DEF options
<1>3. first = IF p # {} THEN {1} ELSE IF q # {} THEN {1, 2}
              ELSE IF r # {} THEN {1, 2, 3} ELSE {1, 2, 3, 4}
  BY <1>1
<1> HIDE DEF first
<1>4. FirstOf(options) = IF p # {} THEN p ELSE IF q # {} THEN q ELSE IF r # {} THEN r ELSE t
  BY <1>1, <1>2, <1>3
<1> QED
  BY <1>4 DEF options

LEMMA LabelsSayFail ==
    ASSUME NEW intent, NEW object, FailsIn(intent, object), NEW field,
           NEW value \in LabelOf(object, field)
    PROVE  LabelVerdict(intent, field, value) = {"FAIL"}
<1>1. field \in DOMAIN object.labels /\ value = object.labels[field]
  BY DEF LabelOf
<1>2. \A f \in Accusing : f \notin Affirming
  BY DEF Affirming, Accusing
<1>3. \/ value = "FAIL"
      \/ value = "TRUE" /\ field \in Accusing
      \/ value = "FALSE" /\ field \in Affirming
  BY <1>1 DEF FailsIn
<1> QED
  BY <1>2, <1>3 DEF LabelVerdict, Verdict

\* An object that is sure of its failure is read with that confidence.
LEMMA FailureIsSure ==
    ASSUME NEW intent, NEW payload, SureOf(intent, payload)
    PROVE  /\ InferredConfidence(intent, payload, "FAIL") # {}
           /\ \A n \in InferredConfidence(intent, payload, "FAIL") : n >= MinConfidence
<1> DEFINE declared == UnitInterval(payload, "confidence")
           risks == IF intent = "URL_SCAN" THEN UnitInterval(payload, "risk") ELSE {}
<1>1. /\ \A n \in declared \cup risks : n >= MinConfidence
      /\ declared # {} \/ risks # {}
  BY DEF SureOf, UnitInterval, MinConfidence
<1>2. InferredConfidence(intent, payload, "FAIL") = FirstOf(<<declared, risks, {0}>>)
  <2> DEFINE OfRisk(risk) == CASE "FAIL" = "PASS" -> 100 - risk
                               [] "FAIL" = "FAIL" -> risk
                               [] OTHER -> 0
  <2>1. \A risk : OfRisk(risk) = risk
    OBVIOUS
  <2>2. {OfRisk(risk) : risk \in UnitInterval(payload, "risk")} = UnitInterval(payload, "risk")
    BY <2>1
  <2> QED
    BY <2>2 DEF InferredConfidence
<1> HIDE DEF declared, risks
<1>3. FirstOf(<<declared, risks, {0}>>) = IF declared # {} THEN declared ELSE risks
  BY <1>1, ThreeOptions
<1> QED
  BY <1>1, <1>2, <1>3

SureFailure(x) ==
    x.verdict = "FAIL" /\ x.confidence >= MinConfidence /\ x.normalization # "ABSTAINED"

LEMMA StrictReadsFailure ==
    ASSUME NEW intent, NEW payload, FailsIn(intent, payload), SureOf(intent, payload)
    PROVE  /\ NormalizeStrict(intent, payload) # {}
           /\ \A x \in NormalizeStrict(intent, payload) : SureFailure(x)
<1> DEFINE fields == StrictFields(intent)
           Said(field) == UNION {LabelVerdict(intent, field, value) :
                                    value \in LabelOf(payload, field)}
           said == [i \in DOMAIN fields |-> Said(fields[i])]
<1>1. PICK n \in Nat : DOMAIN fields = 1..n
  <2>1. DOMAIN fields \in {1..4, 1..5}
    BY DEF StrictFields
  <2> QED
    BY <2>1
<1>2. \A field : \A verdict \in Said(field) : verdict = "FAIL"
  BY LabelsSayFail
<1>3. PICK i \in DOMAIN fields : fields[i] \in DOMAIN payload.labels
  BY DEF FailsIn
<1>4. Said(fields[i]) # {}
  <2>1. payload.labels[fields[i]] \in LabelOf(payload, fields[i])
    BY <1>3 DEF LabelOf
  <2> QED
    BY <2>1, LabelsSayFail
<1>5. DOMAIN said = 1..n /\ i \in 1..n /\ said[i] # {} /\ \A j \in 1..n : \A v \in said[j] : v = "FAIL"
  BY <1>1, <1>2, <1>3, <1>4
<1>6. FirstOf(said) = {"FAIL"}
  <2> HIDE DEF said
  <2>1. FirstOf(said) # {}
    BY <1>5, FirstIsThere
  <2>2. \A v \in FirstOf(said) : v = "FAIL"
    BY <1>5, FirstIsAnOption
  <2> QED
    BY <2>1, <2>2
<1>7. NormalizeStrict(intent, payload) =
        UNION {{Normalized(verdict, confidence, "STRICT_STRUCTURED") :
                    confidence \in InferredConfidence(intent, payload, verdict)} :
                verdict \in FirstOf(said)}
  BY DEF NormalizeStrict
<1>8. NormalizeStrict(intent, payload) =
        {Normalized("FAIL", confidence, "STRICT_STRUCTURED") :
            confidence \in InferredConfidence(intent, payload, "FAIL")}
  <2> HIDE DEF said
  <2> QED
    BY <1>6, <1>7
<1>9. /\ InferredConfidence(intent, payload, "FAIL") # {}
      /\ \A c \in InferredConfidence(intent, payload, "FAIL") : c >= MinConfidence
  BY FailureIsSure
<1>10. \A c : c >= MinConfidence => SureFailure(Normalized("FAIL", c, "STRICT_STRUCTURED"))
  BY DEF SureFailure, Normalized
<1> HIDE DEF fields, Said, said
<1> QED
  BY <1>8, <1>9, <1>10

\* A label that says FAIL is no state of an SSL Labs scan.
LEMMA SslIsSilent ==
    ASSUME NEW intent, NEW payload, FailsIn(intent, payload)
    PROVE  NormalizeSslLabs(payload) = {}
<1>1. "status" \notin Accusing \cup Affirming
  BY DEF Accusing, Affirming
<1>2. \A value \in LabelOf(payload, "status") : value = "FAIL"
  BY <1>1 DEF LabelOf, FailsIn
<1>3. LabelOf(payload, "status") # {"PENDING"} /\ LabelOf(payload, "status") # {"READY"}
  BY <1>2
<1> QED
  BY <1>3 DEF NormalizeSslLabs

\* The rules read the object the question is about, and it says FAIL.
LEMMA RulesReadFailure ==
    ASSUME NEW intent, NEW result, NEW mapping, NEW object,
           result.answer \cup result.summary = {},
           (IF result.signal # {} THEN result.signal ELSE result.outer) = {object},
           FailsIn(intent, object), SureOf(intent, object)
    PROVE  NormalizeRoutedResult(intent, result, mapping) = NormalizeStrict(intent, object)
<1> DEFINE Ssl(payload) ==
               IF intent = "SSL_VERIFICATION" THEN NormalizeSslLabs(payload) ELSE {}
           Abstained(payload) ==
               {Normalized("INCONCLUSIVE", confidence, "ABSTAINED") :
                   confidence \in FirstOf(<<UnitInterval(payload, "confidence"), {0}>>)}
           Rules(payload) == FirstOf(<<Ssl(payload), NormalizeStrict(intent, payload),
                                       NormalizeDeclared(intent, result, payload, mapping),
                                       Abstained(payload)>>)
           read == UNION {Rules(payload) : payload \in PayloadOf(intent, result)}
           nothing == {Normalized("INCONCLUSIVE", 0, "ABSTAINED")}
<1>1. PayloadOf(intent, result) = {object}
  <2>1. CASE intent \in {"WEB_SEARCH", "FACT_CHECK"}
    <3>1. PayloadOf(intent, result) =
            FirstOf(<<result.answer, result.summary, result.signal, result.outer>>)
      BY <2>1 DEF PayloadOf
    <3>2. result.answer = {} /\ result.summary = {}
      OBVIOUS
    <3> QED
      BY <3>1, <3>2, FourOptions
  <2>2. CASE intent \notin {"WEB_SEARCH", "FACT_CHECK"}
    <3>1. PayloadOf(intent, result) = FirstOf(<<result.signal, result.outer>>)
      BY <2>2 DEF PayloadOf
    <3> QED
      BY <3>1, TwoOptions
  <2> QED
    BY <2>1, <2>2
<1>2. NormalizeStrict(intent, object) # {}
  BY StrictReadsFailure
<1>3. Ssl(object) = {}
  BY SslIsSilent
<1>4. Rules(object) = NormalizeStrict(intent, object)
  <2> HIDE DEF Ssl, Abstained
  <2> QED
    BY <1>2, <1>3, FourOptions
<1>5. read = NormalizeStrict(intent, object)
  <2> HIDE DEF Rules
  <2> QED
    BY <1>1, <1>4
<1>6. NormalizeRoutedResult(intent, result, mapping) = FirstOf(<<read, nothing>>)
  BY DEF NormalizeRoutedResult
<1> HIDE DEF read, nothing
<1> QED
  BY <1>2, <1>5, <1>6, TwoOptions

\* Every signal of a stated failure is a conclusive FAIL: the catalog and the
\* language model change nothing.
LEMMA FailuresAreSignalled ==
    ASSUME NEW a \in Failures, NEW s \in SignalsFrom[a]
    PROVE  /\ s.intent = a.intent /\ s.minerId = a.minerId
           /\ s.verdict = "FAIL" /\ IsConclusive(s)
<1>0. a \in Answers /\ StatesFailure(a)
  BY DEF Failures
<1> DEFINE direct == IF a.result.signal # {} THEN a.result.signal ELSE a.result.outer
<1>1. PICK object \in direct : FailsIn(a.intent, object) /\ SureOf(a.intent, object)
  BY <1>0 DEF StatesFailure
<1>2. direct = {object}
  <2>1. \A one, other \in a.result.signal : one = other
    BY <1>0, AnswersAssumption
  <2>2. \A one, other \in a.result.outer : one = other
    BY <1>0, AnswersAssumption
  <2> QED
    BY <1>1, <2>1, <2>2
<1>3. a.result.answer \cup a.result.summary = {}
  BY <1>0 DEF StatesFailure
<1>4. \A mapping : NormalizeRoutedResult(a.intent, a.result, mapping) = NormalizeStrict(a.intent, object)
  BY <1>1, <1>2, <1>3, RulesReadFailure
<1>5. /\ NormalizeStrict(a.intent, object) # {}
      /\ \A x \in NormalizeStrict(a.intent, object) : SureFailure(x)
  BY <1>1, StrictReadsFailure
<1>6. s \in SignalsOf(a)
  BY <1>0 DEF SignalsFrom
<1>7. PICK mapping \in Catalog(a),
           n \in UNION {NormalizeRoutedResultWithProse(a.intent, a.result, c, Replies) :
                            c \in Catalog(a)} :
        /\ s = [intent |-> a.intent, minerId |-> a.minerId, verdict |-> n.verdict,
                confident |-> n.confidence >= MinConfidence]
        /\ n \in NormalizeRoutedResultWithProse(a.intent, a.result, mapping, Replies)
  BY <1>6 DEF SignalsOf, Signal
<1>8. NormalizeRoutedResultWithProse(a.intent, a.result, mapping, Replies) =
        NormalizeStrict(a.intent, object)
  <2>1. PICK x \in NormalizeStrict(a.intent, object) : x.normalization # "ABSTAINED"
    BY <1>5 DEF SureFailure
  <2> QED
    BY <1>4, <2>1 DEF NormalizeRoutedResultWithProse
<1>9. SureFailure(n)
  BY <1>5, <1>7, <1>8
<1>10. /\ s.intent = a.intent /\ s.minerId = a.minerId
       /\ s.verdict = n.verdict /\ s.confident = (n.confidence >= MinConfidence)
  BY <1>7
<1> QED
  BY <1>9, <1>10 DEF SureFailure, IsConclusive

\* A first word that is a conclusive FAIL stops the release.
LEMMA FailureStopsRelease ==
    ASSUME TypeOK, NEW s \in VerificationSignal, Arrive(s),
           s.verdict = "FAIL", IsConclusive(s), ~HasSpoken(s)
    PROVE  Decision(signals') \in {"HOLD", "REJECT"}
<1>1. signals \in Seq(VerificationSignal) /\ signals' = Append(signals, s)
  BY DEF TypeOK, Arrive
<1> DEFINE n == Len(signals) + 1
<1>2. n \in Conclusive(signals') /\ signals'[n] = s
  BY <1>1, ConclusiveOfAppend
<1>3. SomeFails(signals')
  BY <1>2 DEF SomeFails
<1> QED
  BY <1>3 DEF Decision, EvaluateSettlement

\* A miner's plainly stated failure always reaches the decision, for any answers,
\* any envelope and any catalog.
THEOREM StatedFailureTheorem == AnswerSpec => StatedFailureStopsRelease
<1>1. ASSUME TypeOK, NEW a \in Failures, Receive(a),
             ~\E i \in DOMAIN signals : /\ signals[i].intent = a.intent
                                        /\ Identity[signals[i].minerId] = Identity[a.minerId]
      PROVE  Decision(signals') \in {"HOLD", "REJECT"}
  <2>1. PICK s \in SignalsFrom[a] : Arrive(s)
    BY <1>1 DEF Receive
  <2>2. s \in VerificationSignal
    BY <2>1, AnswersAssumption, IntakeAssumption DEF Failures
  <2>3. /\ s.intent = a.intent /\ s.minerId = a.minerId
        /\ s.verdict = "FAIL" /\ IsConclusive(s)
    BY <2>1, FailuresAreSignalled
  <2>4. ~HasSpoken(s)
    BY <1>1, <2>3 DEF HasSpoken, SameVoice
  <2> QED
    BY <1>1, <2>1, <2>2, <2>3, <2>4, FailureStopsRelease
<1>2. TypeOK => [\A a \in Failures :
                    /\ Receive(a)
                    /\ ~\E i \in DOMAIN signals :
                            /\ signals[i].intent = a.intent
                            /\ Identity[signals[i].minerId] = Identity[a.minerId]
                    => Decision(signals') \in {"HOLD", "REJECT"}]_signals
  BY <1>1
<1> QED
  BY <1>2, AnswersAreSignals, TypeCorrect, PTL DEF StatedFailureStopsRelease

=============================================================================
