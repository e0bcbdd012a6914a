---------------------------- MODULE AnswerIntake ----------------------------
(***************************************************************************)
(* From what a miner answers to what the pact is decided on: a verdict is  *)
(* read from the answer (normalizeRoutedResultWithProse), becomes a signal *)
(* of the run, and the policy decides on the signals so far.               *)
(***************************************************************************)
EXTENDS SignalIntake, ResultNormalization

CONSTANTS
    Answers,      \* the answers miners may give to the required intents
    Replies       \* what the language model may reply about prose

\* The catalog of mappings is empty when it could not be read (fetchMinerSignalMap).
Catalog(a) == {a.mapping, {}}

MinConfidence == 75

\* The record of the answer, as far as the policy sees it.
Signal(a, n) == [intent |-> a.intent, minerId |-> a.minerId, verdict |-> n.verdict,
                 confident |-> n.confidence >= MinConfidence]

\* The signals an answer may become, one for each catalog and reply.
SignalsOf(a) ==
    {Signal(a, n) :
        n \in UNION {NormalizeRoutedResultWithProse(a.intent, a.result, mapping, Replies) :
                        mapping \in Catalog(a)}}

SignalsFrom == [a \in Answers |-> SignalsOf(a)]

ObjectsOf(result) == result.outer \cup result.signal \cup result.answer \cup result.summary

\* An answer has at most one object of each kind, and its numbers are numbers.
ASSUME AnswersAssumption ==
    /\ \A a \in Answers :
        /\ a.intent \in Required
        /\ \A objects \in {a.result.outer, a.result.signal, a.result.answer, a.result.summary} :
            \A object, other \in objects : object = other
        /\ \A object \in ObjectsOf(a.result) :
            \A name \in DOMAIN object.numbers : object.numbers[name] \in Nat
    /\ Offered = UNION {SignalsFrom[a] : a \in Answers}

Receive(a) == Len(signals) < MaxSignals /\ \E s \in SignalsFrom[a] : Arrive(s)

AnswerNext == \E a \in Answers : Receive(a)

AnswerSpec == Init /\ [][AnswerNext]_signals

-----------------------------------------------------------------------------
\* The object says in some field that the check was passed.
SaysPass(object) ==
    \/ "A_TO_F" \in object.endpoints
    \/ \E field \in DOMAIN object.labels :
        \/ object.labels[field] \in {"PASS", "NO_FRAUD"}
        \/ object.labels[field] = "TRUE" /\ field \notin Accusing
        \/ object.labels[field] = "FALSE" /\ field \notin Affirming

\* Some number in the answer can be read as confidence in that.
StatesConfidence(object) ==
    \/ object.endpoints # {}
    \/ \E name \in DOMAIN object.numbers :
        \/ object.numbers[name] \in MinConfidence..100
        \/ name = "risk" /\ object.numbers[name] <= 100 - MinConfidence

StatesPass(a) ==
    /\ \E object \in ObjectsOf(a.result) : SaysPass(object)
    /\ \E object \in ObjectsOf(a.result) : StatesConfidence(object)

\* The object has strict fields for the question, and every field it has says FAIL.
FailsIn(intent, object) ==
    /\ \E i \in DOMAIN StrictFields(intent) : StrictFields(intent)[i] \in DOMAIN object.labels
    /\ \A field \in DOMAIN object.labels :
        \/ object.labels[field] = "FAIL"
        \/ object.labels[field] = "TRUE" /\ field \in Accusing
        \/ object.labels[field] = "FALSE" /\ field \in Affirming

\* It states how sure it is of that.
SureOf(intent, object) ==
    /\ \A name \in DOMAIN object.numbers : object.numbers[name] \in MinConfidence..100
    /\ \E name \in {"confidence"} \cup (IF intent = "URL_SCAN" THEN {"risk"} ELSE {}) :
            name \in DOMAIN object.numbers

\* The answer is one object, maybe in an envelope, that is sure of its failure.
StatesFailure(a) ==
    /\ a.result.answer \cup a.result.summary = {}
    /\ \E object \in IF a.result.signal # {} THEN a.result.signal ELSE a.result.outer :
        FailsIn(a.intent, object) /\ SureOf(a.intent, object)

Failures == {a \in Answers : StatesFailure(a)}

\* Prose counts: the model may be sure about it.
Passes == {a \in Answers : StatesPass(a) \/ \E mapping \in Catalog(a) : HasProse(a.result, mapping)}

\* The answer that tips a decision to RELEASE says somewhere that the check was
\* passed, and with what confidence, or is prose the model was sure about
\* (docs/telegraph-integration.md: unsupported or missing fields produce
\* INCONCLUSIVE, never PASS).
ReleaseNeedsAStatedPass ==
    [][Decision(signals') = "RELEASE" /\ Decision(signals) # "RELEASE" =>
        \A a \in Answers : Receive(a) => a \in Passes]_signals

\* A miner's failure, stated plainly in the object the question is about, is
\* never lost on its way to the decision, whatever the envelope around it says.
StatedFailureStopsRelease ==
    [][\A a \in Failures :
        /\ Receive(a)
        /\ ~\E i \in DOMAIN signals : /\ signals[i].intent = a.intent
                                      /\ Identity[signals[i].minerId] = Identity[a.minerId]
        => Decision(signals') \in {"HOLD", "REJECT"}]_signals

=============================================================================
