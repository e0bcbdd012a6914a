------------------------- MODULE StoreClientsProofs -------------------------
(***************************************************************************)
(* The clients of the store for every number of pacts, runs, compositions, *)
(* miners and answers, every order of the store's transactions, with and   *)
(* without failures.                                                       *)
(*                                                                         *)
(* That a release forgets no failure is not in any single step: the        *)
(* composer looks at passing answers only.  It rests on the store letting  *)
(* one attempt at a pact be in progress at a time, on a verdict other than *)
(* RETRY being the last of its delivery, and on where the signals of every *)
(* run come from; the invariant says all three.                            *)
(*                                                                         *)
(* Nor does a tab see enough to be right in one step: its poll is three    *)
(* reads, and it compares them with what its page and its own call told it *)
(* earlier.  The invariant says what each of these says about the rows as  *)
(* they are now.                                                           *)
(***************************************************************************)
EXTENDS StoreClients, PactStoreProofs, WellFoundedInduction

\* A bounded set of naturals has a greatest element.
LEMMA Greatest ==
    ASSUME NEW S \in SUBSET Nat, S # {}, NEW n \in Nat, \A s \in S : s <= n
    PROVE  \E m \in S : \A s \in S : s <= m
<1> DEFINE T == {n - s : s \in S}
           Less == {ss \in Nat \X Nat : ss[1] < ss[2]}
<1>1. T \subseteq Nat /\ T # {}
    <2>1. PICK s \in S : TRUE
        OBVIOUS
    <2>2. n - s \in T
        OBVIOUS
    <2>3. \A t \in S : n - t \in Nat
        OBVIOUS
    <2> QED BY <2>2, <2>3
<1>2. IsWellFoundedOn(Less, Nat)
    BY NatLessThanWellFounded DEF OpToRel
<1>3. PICK least \in T : \A t \in T : <<t, least>> \notin Less
    <2> HIDE DEF T, Less
    <2> QED BY <1>1, <1>2, WFMin
<1>4. PICK m \in S : least = n - m
    OBVIOUS
<1>5. ASSUME NEW s \in S PROVE s <= m
    <2>1. ~(n - s < n - m)
        BY <1>1, <1>3, <1>4
    <2>2. s \in Nat /\ m \in Nat
        OBVIOUS
    <2> QED BY <2>1, <2>2
<1> QED BY <1>5

-----------------------------------------------------------------------------
(* Compositions beside runs: the invariant *)

Ran == receipts \cup completions

Begun == {c \in composing : c.phase = "BEGUN"}

SamePact(a, b) == a.pact = b.pact

Composition == [pact : Pacts, submission : Nat, phase : {"READ", "BEGUN"},
                signals : Seq(Policy!VerificationSignal)]

Rows ==
    /\ pacts \in [Pacts -> PactRow]
    /\ submissions \in [Pacts -> Seq(Submission)]
    /\ now \in Nat
    /\ evidence \in [Runs -> Seq(Policy!VerificationSignal)]
    /\ \A r \in Ran : /\ r.pact \in Pacts /\ r.run \in Runs
                      /\ r.decision \in SettlementDecision
                      /\ r.submission \in DOMAIN submissions[r.pact]
    /\ \A v \in verifying : v.pact \in Pacts /\ v.run \in Runs
    /\ composing \subseteq Composition

\* An attempt that has begun has the pact to itself, for its latest delivery.
NowDecides(a) == pacts[a.pact].status = "VERIFYING" /\ a.submission = Latest(a.pact)

OneAttempt ==
    /\ \A a \in verifying \cup Begun \cup completions : NowDecides(a)
    /\ \A v \in verifying :
        /\ \A w \in verifying : SamePact(v, w) => v = w
        /\ \A c \in Begun \cup completions : ~SamePact(v, c)
    /\ \A c \in Begun :
        /\ \A d \in Begun : SamePact(c, d) => c = d
        /\ \A d \in completions : ~SamePact(c, d)
    /\ \A c, d \in completions : SamePact(c, d) => c = d

StartsDiffer ==
    /\ \A r \in Ran : r.startedAt \in 1..now
    /\ \A r, s \in Ran : r.startedAt = s.startedAt => r = s
    /\ \A r \in receipts, c \in completions : SamePact(r, c) => r.startedAt < c.startedAt

RunsDiffer ==
    /\ \A r, s \in Ran : r.run = s.run => r = s
    /\ \A v \in verifying :
        /\ \A r \in Ran : r.run # v.run
        /\ \A w \in verifying : v.run = w.run => v = w

Final(r) == r.decision # "RETRY"

\* A final verdict on the latest delivery is still the pact's status, and its
\* newest receipt.
FinalIsKept ==
    \A r \in receipts : Final(r) /\ r.submission = Latest(r.pact) =>
        /\ pacts[r.pact].status = StatusFor(r.decision)
        /\ \A s \in receipts : SamePact(r, s) => s.startedAt <= r.startedAt

FinalOnce ==
    \A r, s \in receipts :
        Final(r) /\ Final(s) /\ SamePact(r, s) /\ r.submission = s.submission => r = s

\* The signal was found by a verification run of the delivery.
IsHeard(p, n, signal) ==
    \E s \in receipts : /\ s.pact = p /\ s.submission = n /\ s.key \in Runs
                        /\ \E i \in DOMAIN evidence[s.run] : evidence[s.run][i] = signal

PaidFor(p, n, signals) ==
    /\ \A i \in DOMAIN signals : IsHeard(p, n, signals[i]) /\ IsPass(signals[i])
    /\ \A intent \in Required : \E i \in DOMAIN signals : signals[i].intent = intent
    /\ MinersDiffer(signals)

\* A verdict follows from what its run found, or from what earlier runs found.
FromRun(key, decision, shared, signals) ==
    key \in Runs /\ decision = Decision(signals) /\ shared = MinerTwice(signals)

FromEarlier(p, n, decision, signals) == decision = "RELEASE" /\ PaidFor(p, n, signals)

Origin(r) ==
    \/ FromRun(r.key, r.decision, r.sharedMiner, evidence[r.run])
    \/ FromEarlier(r.pact, r.submission, r.decision, evidence[r.run])

Traced ==
    /\ \A r \in Ran : Origin(r)
    /\ \A c \in composing : PaidFor(c.pact, c.submission, c.signals)
    /\ \A r \in receipts : ~r.sharedMiner

CompositionInv ==
    Rows /\ OneAttempt /\ StartsDiffer /\ RunsDiffer /\ FinalIsKept /\ FinalOnce /\ Traced

LEMMA CompositionStarts == CompositionInit => CompositionInv
<1> SUFFICES ASSUME CompositionInit PROVE CompositionInv
    OBVIOUS
<1>1. /\ receipts = {} /\ completions = {} /\ verifying = {} /\ composing = {}
      /\ now = 0 /\ Ran = {} /\ Begun = {}
    BY DEF CompositionInit, Init, Ran, Begun
<1>2. pacts \in [Pacts -> PactRow]
    BY DEF CompositionInit, Init, NoRow, PactRow
<1>3. /\ submissions \in [Pacts -> Seq(Submission)]
      /\ evidence \in [Runs -> Seq(Policy!VerificationSignal)]
    BY DEF CompositionInit, Init
<1> QED BY <1>1, <1>2, <1>3 DEF CompositionInv, Rows, OneAttempt, StartsDiffer, RunsDiffer,
                                FinalIsKept, FinalOnce, Traced

-----------------------------------------------------------------------------
(* Lemmas about its parts *)

LEMMA DecisionType == \A signals : Decision(signals) \in SettlementDecision
    BY DEF Decision, Policy!EvaluateSettlement, SettlementDecision

\* What was heard stays heard as long as recorded evidence stays.
LEMMA HeardStays ==
    ASSUME receipts \subseteq receipts', \A r \in receipts : evidence'[r.run] = evidence[r.run]
    PROVE  /\ \A p, n, signal : IsHeard(p, n, signal) => IsHeard(p, n, signal)'
           /\ \A p, n, signals : PaidFor(p, n, signals) => PaidFor(p, n, signals)'
<1>1. \A p, n, signal : IsHeard(p, n, signal) => IsHeard(p, n, signal)'
    BY DEF IsHeard
<1> QED BY <1>1 DEF PaidFor

LEMMA OriginStays ==
    ASSUME receipts \subseteq receipts', \A r \in receipts : evidence'[r.run] = evidence[r.run],
           NEW s, Origin(s), evidence'[s.run] = evidence[s.run]
    PROVE  Origin(s)'
    BY HeardStays DEF Origin, FromRun, FromEarlier

\* Steps that touch rows only: no delivery that awaits a verdict is replaced,
\* and no verdict of the latest delivery is overwritten.
LEMMA RowsMove ==
    ASSUME CompositionInv,
           pacts' \in [Pacts -> PactRow], submissions' \in [Pacts -> Seq(Submission)],
           UNCHANGED <<completions, receipts, now, evidence, verifying, composing>>,
           \A q \in Pacts :
               \/ pacts'[q].status = pacts[q].status /\ submissions'[q] = submissions[q]
               \/ /\ pacts[q].status # "VERIFYING"
                  /\ DOMAIN submissions[q] \subseteq DOMAIN submissions'[q]
                  /\ Latest(q)' \notin DOMAIN submissions[q]
               \/ /\ pacts[q].status \in {"NONE", "DRAFT", "SUBMITTED"}
                  /\ submissions'[q] = submissions[q]
    PROVE  CompositionInv'
<1>1. Ran' = Ran /\ Begun' = Begun
    BY DEF Ran, Begun
<1>2. \A q \in Pacts : DOMAIN submissions[q] \subseteq DOMAIN submissions'[q]
    OBVIOUS
<1>3. Rows'
    BY <1>1, <1>2 DEF CompositionInv, Rows
<1>4. \A a \in verifying \cup Begun \cup completions : a.pact \in Pacts
    BY DEF CompositionInv, Rows, Ran, Begun, Composition
<1>5. OneAttempt'
    <2>1. ASSUME NEW a \in verifying \cup Begun \cup completions
          PROVE  NowDecides(a)'
        <3>1. a.pact \in Pacts /\ pacts[a.pact].status = "VERIFYING" /\ a.submission = Latest(a.pact)
            BY <1>4 DEF CompositionInv, OneAttempt, NowDecides
        <3>2. pacts'[a.pact].status = "VERIFYING" /\ submissions'[a.pact] = submissions[a.pact]
            BY <3>1
        <3> QED BY <3>1, <3>2 DEF NowDecides, Latest
    <2> QED BY <1>1, <2>1 DEF CompositionInv, OneAttempt, SamePact
<1>6. FinalIsKept'
    <2> SUFFICES ASSUME NEW r \in receipts, Final(r), r.submission = Latest(r.pact)'
                 PROVE  /\ pacts'[r.pact].status = StatusFor(r.decision)
                        /\ \A s \in receipts : SamePact(r, s) => s.startedAt <= r.startedAt
        BY DEF FinalIsKept, Final, SamePact
    <2>1. /\ r.pact \in Pacts /\ r.submission \in DOMAIN submissions[r.pact]
          /\ r.decision \in SettlementDecision
        BY DEF CompositionInv, Rows, Ran
    <2>2. \/ pacts'[r.pact].status = pacts[r.pact].status
          \/ pacts[r.pact].status \in {"NONE", "DRAFT", "SUBMITTED"}
        BY <2>1
    <2>3. submissions'[r.pact] = submissions[r.pact]
        BY <2>1
    <2>4. /\ pacts[r.pact].status = StatusFor(r.decision)
          /\ \A s \in receipts : SamePact(r, s) => s.startedAt <= r.startedAt
        BY <2>3 DEF CompositionInv, FinalIsKept, Latest
    <2>5. StatusFor(r.decision) \in {"APPROVED", "REJECTED", "HELD"}
        BY <2>1, StatusTypes
    <2> QED BY <2>2, <2>4, <2>5
<1>7. StartsDiffer' /\ RunsDiffer' /\ FinalOnce'
    BY <1>1 DEF CompositionInv, StartsDiffer, RunsDiffer, FinalOnce, SamePact, Final
<1>8. Traced'
    BY <1>1, HeardStays, OriginStays DEF CompositionInv, Traced
<1> QED BY <1>3, <1>5, <1>6, <1>7, <1>8 DEF CompositionInv

\* Steps that only give something up.
LEMMA FewerKeep ==
    ASSUME CompositionInv,
           UNCHANGED <<pacts, submissions, receipts, now, evidence>>,
           completions' \subseteq completions, verifying' \subseteq verifying,
           composing' \subseteq composing
    PROVE  CompositionInv'
<1>1. Ran' \subseteq Ran /\ Begun' \subseteq Begun
    BY DEF Ran, Begun
<1>2. Rows'
    BY <1>1 DEF CompositionInv, Rows
<1>3. OneAttempt'
    BY <1>1 DEF CompositionInv, OneAttempt, NowDecides, SamePact, Latest
<1>4. StartsDiffer' /\ RunsDiffer' /\ FinalOnce' /\ FinalIsKept'
    BY <1>1 DEF CompositionInv, StartsDiffer, RunsDiffer, FinalOnce, FinalIsKept, SamePact,
                Final, Latest
<1>5. Traced'
    BY <1>1, HeardStays, OriginStays DEF CompositionInv, Traced
<1> QED BY <1>2, <1>3, <1>4, <1>5 DEF CompositionInv

-----------------------------------------------------------------------------
(* The script reads *)

LEMMA FreshestIsCandidate ==
    ASSUME CompositionInv, NEW p, NEW n, NEW intent, Candidates(p, n, intent) # {}
    PROVE  Freshest(Candidates(p, n, intent)) \in Candidates(p, n, intent)
<1> DEFINE C == Candidates(p, n, intent)
           Starts == {c[1].startedAt : c \in C}
<1>1. C # {} /\ \A c \in C : c[1] \in receipts
    BY DEF Candidates
<1>2. now \in Nat /\ \A r \in receipts : r.startedAt \in Nat /\ r.startedAt <= now
    BY DEF CompositionInv, Rows, StartsDiffer, Ran
<1> HIDE DEF C
<1>3. Starts \in SUBSET Nat /\ Starts # {} /\ \A t \in Starts : t <= now
    BY <1>1, <1>2
<1>4. PICK m \in Starts : \A t \in Starts : t <= m
    <2> HIDE DEF Starts
    <2> QED BY <1>2, <1>3, Greatest
<1>5. PICK c \in C : c[1].startedAt = m
    BY <1>4
<1>6. \A d \in C : d[1].startedAt <= c[1].startedAt
    BY <1>4, <1>5
<1>7. Freshest(C) \in C
    BY <1>6 DEF Freshest
<1> QED BY <1>7 DEF C

\* A passing answer in a receipt was found by a verification run of its delivery.
LEMMA AnswersAreHeard ==
    ASSUME CompositionInv, NEW r \in receipts, NEW i \in DOMAIN evidence[r.run]
    PROVE  IsHeard(r.pact, r.submission, evidence[r.run][i])
<1>1. Origin(r)
    BY DEF CompositionInv, Traced, Ran
<1>2. CASE r.key \in Runs
    BY <1>2 DEF IsHeard
<1>3. CASE FromEarlier(r.pact, r.submission, r.decision, evidence[r.run])
    BY <1>3 DEF FromEarlier, PaidFor
<1> QED BY <1>1, <1>2, <1>3 DEF Origin, FromRun

\* What the script puts together has been paid for.
LEMMA ComposedIsPaidFor ==
    ASSUME CompositionInv, NEW p \in Pacts, NEW n,
           \A intent \in Required : Candidates(p, n, intent) # {},
           MinersDiffer(Composed(p, n))
    PROVE  /\ Composed(p, n) \in Seq(Policy!VerificationSignal)
           /\ PaidFor(p, n, Composed(p, n))
<1> DEFINE signals == Composed(p, n)
<1>1. Intents \in Seq(Policy!VerificationIntent) /\ DOMAIN signals = DOMAIN Intents
    BY CompositionAssumption DEF Composed
<1>2. ASSUME NEW k \in DOMAIN Intents
      PROVE  /\ signals[k] \in Policy!VerificationSignal
             /\ IsHeard(p, n, signals[k]) /\ IsPass(signals[k]) /\ signals[k].intent = Intents[k]
    <2> DEFINE c == Freshest(Candidates(p, n, Intents[k]))
    <2>1. c \in Candidates(p, n, Intents[k])
        BY FreshestIsCandidate DEF Required
    <2>2. signals[k] = evidence[c[1].run][c[2]]
        BY <1>1 DEF Composed
    <2> HIDE DEF c, signals
    <2>3. /\ c[1] \in receipts /\ c[1].pact = p /\ c[1].submission = n
          /\ c[2] \in DOMAIN evidence[c[1].run] /\ signals[k].intent = Intents[k]
          /\ IsPass(signals[k])
        BY <2>1, <2>2 DEF Candidates, OfTheSubmission
    <2>4. evidence[c[1].run] \in Seq(Policy!VerificationSignal)
        BY <2>3 DEF CompositionInv, Rows, Ran
    <2>5. signals[k] \in Policy!VerificationSignal
        BY <2>2, <2>3, <2>4, ElementOfSeq
    <2> QED BY <2>2, <2>3, <2>5, AnswersAreHeard
<1>3. signals \in [1..Len(Intents) -> Policy!VerificationSignal]
    <2>1. DOMAIN Intents = 1..Len(Intents) /\ Len(Intents) \in Nat
        BY <1>1
    <2>2. signals = [k \in DOMAIN Intents |-> signals[k]]
        BY DEF Composed
    <2> HIDE DEF signals
    <2> QED BY <1>1, <1>2, <2>1, <2>2
<1>4. signals \in Seq(Policy!VerificationSignal)
    <2> HIDE DEF signals
    <2>1. Len(Intents) \in Nat
        BY <1>1
    <2> QED BY <1>3, <2>1, SeqDef
<1>5. PaidFor(p, n, signals)
    <2> HIDE DEF signals
    <2>1. MinersDiffer(signals)
        BY DEF signals
    <2> QED BY <1>1, <1>2, <2>1 DEF PaidFor, Required
<1> QED BY <1>4, <1>5

LEMMA ReadsKeep ==
    ASSUME CompositionInv, NEW p \in Pacts, ComposeReads(p)
    PROVE  CompositionInv'
<1> DEFINE signals == Composed(p, Latest(p))
           c == [pact |-> p, submission |-> Latest(p), phase |-> "READ", signals |-> signals]
<1>1. /\ composing' = composing \cup {c}
      /\ UNCHANGED <<pacts, submissions, completions, receipts, now, evidence, verifying>>
    BY DEF ComposeReads, storeVars
<1>2. /\ signals \in Seq(Policy!VerificationSignal)
      /\ PaidFor(p, Latest(p), signals)
    BY ComposedIsPaidFor DEF ComposeReads
<1>3. Latest(p) \in Nat
    BY DEF CompositionInv, Rows, Latest
<1> HIDE DEF signals
<1>4. c \in Composition /\ c.phase # "BEGUN" /\ PaidFor(c.pact, c.submission, c.signals)
    BY <1>2, <1>3 DEF Composition
<1> HIDE DEF c
<1>5. Ran' = Ran /\ Begun' = Begun
    BY <1>1, <1>4 DEF Ran, Begun
<1>6. Rows'
    BY <1>1, <1>4, <1>5 DEF CompositionInv, Rows
<1>7. OneAttempt' /\ StartsDiffer' /\ RunsDiffer' /\ FinalIsKept' /\ FinalOnce'
    BY <1>1, <1>5 DEF CompositionInv, OneAttempt, NowDecides, SamePact, Latest, StartsDiffer,
                      RunsDiffer, FinalIsKept, FinalOnce, Final
<1>8. Traced'
    BY <1>1, <1>4, <1>5, HeardStays, OriginStays DEF CompositionInv, Traced
<1> QED BY <1>6, <1>7, <1>8 DEF CompositionInv

-----------------------------------------------------------------------------
(* An attempt begins *)

\* What can be verified has no attempt in progress and no final verdict yet.
LEMMA VerifiableIsFree ==
    ASSUME CompositionInv, NEW p \in Pacts, Verifiable(p)
    PROVE  /\ \A a \in verifying \cup Begun \cup completions : a.pact # p
           /\ \A r \in receipts : ~(r.pact = p /\ r.submission = Latest(p) /\ Final(r))
<1>1. pacts[p].status \in {"SUBMITTED", "HELD"}
    BY DEF Verifiable
<1>2. ASSUME NEW r \in receipts, r.pact = p, r.submission = Latest(p), Final(r)
      PROVE  FALSE
    <2>1. /\ pacts[p].status = StatusFor(r.decision)
          /\ \A s \in receipts : s.pact = p => s.startedAt <= r.startedAt
        BY <1>2 DEF CompositionInv, FinalIsKept, SamePact
    <2>2. StatusFor(r.decision) \in {"APPROVED", "REJECTED", "HELD"}
        BY StatusTypes DEF CompositionInv, Rows, Ran
    <2>3. LatestDecisionIs(p, "RETRY")
        BY <2>1, <2>2 DEF Verifiable
    <2>4. PICK s \in receipts : /\ s.pact = p /\ s.decision = "RETRY"
                                /\ r.startedAt <= s.startedAt
        BY <1>2, <2>3 DEF LatestDecisionIs, LatestReceipts
    <2>5. s.startedAt \in Nat /\ r.startedAt \in Nat
        BY DEF CompositionInv, StartsDiffer, Ran, Rows
    <2>6. s = r
        BY <2>1, <2>4, <2>5 DEF CompositionInv, StartsDiffer, Ran
    <2> QED BY <1>2, <2>4, <2>6 DEF Final
<1> QED BY <1>1, <1>2 DEF CompositionInv, OneAttempt, NowDecides

LEMMA BeginKeeps ==
    ASSUME CompositionInv, NEW p \in Pacts, BeginVerification(p, Latest(p)),
           evidence' = evidence
    PROVE  /\ pacts' \in [Pacts -> PactRow] /\ pacts'[p].status = "VERIFYING"
           /\ \A a \in verifying \cup Begun \cup completions : a.pact # p /\ NowDecides(a)'
           /\ Ran' = Ran /\ StartsDiffer' /\ FinalIsKept' /\ FinalOnce'
           /\ UNCHANGED <<submissions, completions, receipts, now>>
<1>1. /\ pacts' = [pacts EXCEPT ![p] = WithStatus(pacts[p], "VERIFYING")]
      /\ UNCHANGED <<submissions, completions, receipts, now>>
      /\ Verifiable(p)
    BY DEF BeginVerification
<1>2. pacts \in [Pacts -> PactRow]
    BY DEF CompositionInv, Rows
<1>3. /\ pacts' \in [Pacts -> PactRow] /\ pacts'[p].status = "VERIFYING"
      /\ \A q \in Pacts : q # p => pacts'[q] = pacts[q]
    BY <1>1, <1>2, WithStatusRow DEF PactStatus
<1>4. \A a \in verifying \cup Begun \cup completions : a.pact # p /\ a.pact \in Pacts
    BY <1>1, VerifiableIsFree DEF CompositionInv, Rows, Ran, Begun, Composition
<1>5. \A a \in verifying \cup Begun \cup completions : NowDecides(a)'
    BY <1>1, <1>3, <1>4 DEF CompositionInv, OneAttempt, NowDecides, Latest
<1>6. Ran' = Ran /\ StartsDiffer' /\ FinalOnce'
    BY <1>1 DEF Ran, CompositionInv, StartsDiffer, FinalOnce, SamePact, Final
<1>7. FinalIsKept'
    <2> SUFFICES ASSUME NEW r \in receipts, Final(r), r.submission = Latest(r.pact)
                 PROVE  /\ pacts'[r.pact].status = StatusFor(r.decision)
                        /\ \A s \in receipts : SamePact(r, s) => s.startedAt <= r.startedAt
        BY <1>1 DEF FinalIsKept, Final, SamePact, Latest
    <2>1. r.pact # p /\ r.pact \in Pacts
        BY <1>1, VerifiableIsFree DEF CompositionInv, Rows, Ran
    <2> QED BY <1>3, <2>1 DEF CompositionInv, FinalIsKept
<1> QED BY <1>1, <1>3, <1>4, <1>5, <1>6, <1>7

LEMMA RunBeginsKeeps ==
    ASSUME CompositionInv, NEW p \in Pacts, NEW run \in Runs, RunBegins(p, run)
    PROVE  CompositionInv'
<1>0. PICK v : v = [pact |-> p, run |-> run, submission |-> Latest(p)]
    OBVIOUS
<1>1. /\ BeginVerification(p, Latest(p)) /\ FreshRun(run)
      /\ verifying' = verifying \cup {v}
      /\ UNCHANGED <<evidence, composing>>
    BY <1>0 DEF RunBegins
<1>2. v.pact = p /\ v.run = run /\ v.submission = Latest(p)
    BY <1>0
<1>3. /\ pacts' \in [Pacts -> PactRow] /\ pacts'[p].status = "VERIFYING"
      /\ \A a \in verifying \cup Begun \cup completions : a.pact # p /\ NowDecides(a)'
      /\ Ran' = Ran /\ StartsDiffer' /\ FinalIsKept' /\ FinalOnce'
      /\ UNCHANGED <<submissions, completions, receipts, now>>
    BY <1>1, BeginKeeps
<1>4. Begun' = Begun
    BY <1>1 DEF Begun
<1>5. Rows'
    BY <1>1, <1>2, <1>3 DEF CompositionInv, Rows
<1>6. OneAttempt'
    <2>1. NowDecides(v)'
        BY <1>2, <1>3 DEF NowDecides, Latest
    <2>2. \A a \in verifying' \cup Begun' \cup completions' : NowDecides(a)'
        BY <1>1, <1>3, <1>4, <2>1
    <2>3. \A a \in verifying \cup Begun \cup completions : ~SamePact(a, v) /\ ~SamePact(v, a)
        BY <1>2, <1>3 DEF SamePact
    <2> QED BY <1>1, <1>3, <1>4, <2>2, <2>3 DEF CompositionInv, OneAttempt, SamePact
<1>7. RunsDiffer'
    BY <1>1, <1>2, <1>3 DEF CompositionInv, RunsDiffer, FreshRun, Ran
<1>8. Traced'
    BY <1>1, <1>3, HeardStays, OriginStays DEF CompositionInv, Traced
<1> QED BY <1>3, <1>5, <1>6, <1>7, <1>8 DEF CompositionInv

LEMMA ComposeBeginsKeeps ==
    ASSUME CompositionInv, NEW c \in composing, ComposeBegins(c)
    PROVE  CompositionInv'
<1> DEFINE b == [c EXCEPT !.phase = "BEGUN"]
           p == c.pact
<1>1. /\ BeginVerification(p, c.submission) /\ c.phase = "READ"
      /\ composing' = (composing \ {c}) \cup {b}
      /\ UNCHANGED <<evidence, verifying>>
    BY DEF ComposeBegins
<1>2. c \in Composition
    BY DEF CompositionInv, Rows
<1>3. /\ b \in Composition /\ b.phase = "BEGUN" /\ b.pact = p
      /\ b.submission = c.submission /\ b.signals = c.signals
    BY <1>2 DEF Composition
<1>4. p \in Pacts /\ c.submission = Latest(p)
    BY <1>1, <1>2 DEF Composition, BeginVerification
<1> HIDE DEF b, p
<1>5. /\ pacts' \in [Pacts -> PactRow] /\ pacts'[p].status = "VERIFYING"
      /\ \A a \in verifying \cup Begun \cup completions : a.pact # p /\ NowDecides(a)'
      /\ Ran' = Ran /\ StartsDiffer' /\ FinalIsKept' /\ FinalOnce'
      /\ UNCHANGED <<submissions, completions, receipts, now>>
    BY <1>1, <1>4, BeginKeeps
<1>6. Begun' = Begun \cup {b}
    BY <1>1, <1>3 DEF Begun
<1>7. Rows'
    BY <1>1, <1>3, <1>5 DEF CompositionInv, Rows
<1>8. OneAttempt'
    <2>1. NowDecides(b)'
        BY <1>3, <1>4, <1>5 DEF NowDecides, Latest
    <2>2. \A a \in verifying' \cup Begun' \cup completions' : NowDecides(a)'
        BY <1>1, <1>5, <1>6, <2>1
    <2>3. \A a \in verifying \cup Begun \cup completions : ~SamePact(a, b) /\ ~SamePact(b, a)
        BY <1>3, <1>5 DEF SamePact
    <2> QED BY <1>1, <1>5, <1>6, <2>2, <2>3 DEF CompositionInv, OneAttempt, SamePact
<1>9. RunsDiffer'
    BY <1>1, <1>5 DEF CompositionInv, RunsDiffer
<1>10. Traced'
    BY <1>1, <1>3, <1>5, HeardStays, OriginStays DEF CompositionInv, Traced, p
<1> QED BY <1>5, <1>7, <1>8, <1>9, <1>10 DEF CompositionInv

-----------------------------------------------------------------------------
(* A completion starts and commits *)

LEMMA StartKeeps ==
    ASSUME CompositionInv, NEW p \in Pacts, NEW n, NEW run \in Runs, NEW key,
           NEW decision \in SettlementDecision, NEW shared,
           NEW signals \in Seq(Policy!VerificationSignal),
           StartCompletion(p, n, run, key, decision, shared),
           evidence' = [evidence EXCEPT ![run] = signals],
           verifying' \subseteq verifying, composing' \subseteq composing,
           pacts[p].status = "VERIFYING", n = Latest(p),
           \A r \in Ran : r.run # run, \A v \in verifying' : v.run # run,
           \A a \in verifying' \cup Begun' \cup completions : a.pact # p,
           FromRun(key, decision, shared, signals) \/ FromEarlier(p, n, decision, signals)
    PROVE  CompositionInv'
<1>1. PICK c : c = [pact |-> p, submission |-> n, run |-> run, key |-> key,
                    decision |-> decision, sharedMiner |-> shared, startedAt |-> now + 1]
    OBVIOUS
<1>2. /\ completions' = completions \cup {c}
      /\ now' = now + 1 /\ n \in DOMAIN submissions[p]
      /\ UNCHANGED <<pacts, submissions, receipts>>
    BY <1>1 DEF StartCompletion
<1>3. /\ c.pact = p /\ c.submission = n /\ c.run = run /\ c.key = key
      /\ c.decision = decision /\ c.sharedMiner = shared /\ c.startedAt = now + 1
    BY <1>1
<1>4. Ran' = Ran \cup {c} /\ Begun' \subseteq Begun
    BY <1>2 DEF Ran, Begun
<1>5. evidence \in [Runs -> Seq(Policy!VerificationSignal)] /\ now \in Nat
    BY DEF CompositionInv, Rows
<1>6. /\ evidence' \in [Runs -> Seq(Policy!VerificationSignal)]
      /\ evidence'[run] = signals
      /\ \A r \in Ran : evidence'[r.run] = evidence[r.run]
    BY <1>5 DEF CompositionInv, Rows
<1>7. Rows'
    BY <1>2, <1>3, <1>4, <1>5, <1>6 DEF CompositionInv, Rows
<1>8. OneAttempt'
    <2>1. NowDecides(c)'
        BY <1>2, <1>3 DEF NowDecides, Latest
    <2>2. \A a \in verifying' \cup Begun' \cup completions' : NowDecides(a)'
        BY <1>2, <1>4, <2>1 DEF CompositionInv, OneAttempt, NowDecides, Latest
    <2>3. \A a \in verifying' \cup Begun' \cup completions : ~SamePact(a, c) /\ ~SamePact(c, a)
        BY <1>3 DEF SamePact
    <2> QED BY <1>2, <1>4, <2>2, <2>3 DEF CompositionInv, OneAttempt, SamePact
<1>9. StartsDiffer'
    <2>1. \A r \in Ran : r.startedAt \in 1..now
        BY DEF CompositionInv, StartsDiffer
    <2>2. \A r \in receipts : r.startedAt < c.startedAt
        BY <1>3, <1>5, <2>1 DEF Ran
    <2> QED BY <1>2, <1>3, <1>4, <1>5, <2>1, <2>2 DEF CompositionInv, StartsDiffer, SamePact
<1>10. RunsDiffer'
    BY <1>2, <1>3, <1>4 DEF CompositionInv, RunsDiffer
<1>11. FinalIsKept' /\ FinalOnce'
    BY <1>2 DEF CompositionInv, FinalIsKept, FinalOnce, Final, SamePact, Latest
<1>12. Traced'
    <2>1. /\ \A r \in Ran : Origin(r)'
          /\ \A q, m, heard : PaidFor(q, m, heard) => PaidFor(q, m, heard)'
        BY <1>2, <1>6, HeardStays, OriginStays DEF CompositionInv, Traced, Ran
    <2>2. Origin(c)'
        BY <1>3, <1>6, <2>1 DEF Origin, FromRun, FromEarlier
    <2> QED BY <1>2, <1>4, <2>1, <2>2 DEF CompositionInv, Traced
<1> QED BY <1>7, <1>8, <1>9, <1>10, <1>11, <1>12 DEF CompositionInv

LEMMA RunDecidesKeeps ==
    ASSUME CompositionInv, NEW v \in verifying, NEW signals \in Outcomes, RunDecides(v, signals)
    PROVE  CompositionInv'
<1>1. v.pact \in Pacts /\ v.run \in Runs /\ signals \in Seq(Policy!VerificationSignal)
    BY CompositionAssumption DEF CompositionInv, Rows
<1>2. /\ pacts[v.pact].status = "VERIFYING" /\ v.submission = Latest(v.pact)
      /\ \A r \in Ran : r.run # v.run
    BY DEF CompositionInv, OneAttempt, NowDecides, RunsDiffer
<1>3. Begun' = Begun /\ verifying' = verifying \ {v}
    BY DEF Begun, RunDecides
<1>4. /\ \A w \in verifying' : w.run # v.run
      /\ \A a \in verifying' \cup Begun' \cup completions : a.pact # v.pact
    BY <1>3 DEF CompositionInv, OneAttempt, RunsDiffer, SamePact
<1>5. FromRun(v.run, Decision(signals), MinerTwice(signals), signals)
    BY <1>1 DEF FromRun
<1>6. Decision(signals) \in SettlementDecision
    BY DecisionType
<1>7. PICK decision, shared : decision = Decision(signals) /\ shared = MinerTwice(signals)
    OBVIOUS
<1>8. /\ StartCompletion(v.pact, v.submission, v.run, v.run, decision, shared)
      /\ evidence' = [evidence EXCEPT ![v.run] = signals] /\ composing' = composing
    BY <1>7 DEF RunDecides
<1> QED BY <1>1, <1>2, <1>3, <1>4, <1>5, <1>6, <1>7, <1>8, StartKeeps

LEMMA ComposeCompletesKeeps ==
    ASSUME CompositionInv, NEW c \in composing, NEW run \in Runs, ComposeCompletes(c, run)
    PROVE  CompositionInv'
<1>1. /\ c \in Composition /\ c \in Begun
      /\ FreshRun(run) /\ composing' = composing \ {c} /\ verifying' = verifying
      /\ evidence' = [evidence EXCEPT ![run] = c.signals]
    BY DEF CompositionInv, Rows, ComposeCompletes, Begun
<1>2. c.pact \in Pacts /\ c.signals \in Seq(Policy!VerificationSignal)
    BY <1>1 DEF Composition
<1>3. pacts[c.pact].status = "VERIFYING" /\ c.submission = Latest(c.pact)
    BY <1>1 DEF CompositionInv, OneAttempt, NowDecides
<1>4. Begun' = Begun \ {c}
    BY <1>1 DEF Begun
<1>5. \A a \in verifying' \cup Begun' \cup completions : a.pact # c.pact
    BY <1>1, <1>4 DEF CompositionInv, OneAttempt, SamePact
<1>6. (\A r \in Ran : r.run # run) /\ \A v \in verifying' : v.run # run
    BY <1>1 DEF FreshRun, Ran
<1>7. FromEarlier(c.pact, c.submission, "RELEASE", c.signals)
    BY DEF FromEarlier, CompositionInv, Traced
<1>8. PICK key, shared : key = Key(c.submission, c.signals) /\ shared = MinerTwice(c.signals)
    OBVIOUS
<1>9. StartCompletion(c.pact, c.submission, run, key, "RELEASE", shared)
    BY <1>8 DEF ComposeCompletes
<1>10. "RELEASE" \in SettlementDecision
    BY DEF SettlementDecision
<1> QED BY <1>1, <1>2, <1>3, <1>5, <1>6, <1>7, <1>9, <1>10, StartKeeps

LEMMA CommitKeeps ==
    ASSUME CompositionInv, NEW c \in completions, CompletionCommits(c)
    PROVE  CompositionInv'
<1> DEFINE p == c.pact
<1>1. /\ p \in Pacts /\ c.decision \in SettlementDecision /\ c \in Ran
      /\ pacts \in [Pacts -> PactRow]
    BY DEF CompositionInv, Rows, Ran
<1>2. /\ completions' = completions \ {c} /\ receipts' = receipts \cup {c} /\ ~c.sharedMiner
      /\ pacts' = [pacts EXCEPT ![p] = WithStatus(pacts[p], StatusFor(c.decision))]
      /\ UNCHANGED <<submissions, now, evidence, verifying, composing>>
    BY DEF CompletionCommits, CommitCompletion, scriptVars
<1>3. /\ pacts' \in [Pacts -> PactRow] /\ pacts'[p].status = StatusFor(c.decision)
      /\ \A q \in Pacts : q # p => pacts'[q] = pacts[q]
    BY <1>1, <1>2, StatusTypes, WithStatusRow DEF PactStatus
<1>4. pacts[p].status = "VERIFYING" /\ c.submission = Latest(p)
    BY DEF CompositionInv, OneAttempt, NowDecides
<1>5. \A r \in receipts : ~(r.pact = p /\ r.submission = Latest(p) /\ Final(r))
    <2> SUFFICES ASSUME NEW r \in receipts, r.pact = p, r.submission = Latest(p), Final(r)
                 PROVE  FALSE
        OBVIOUS
    <2>1. r.decision \in SettlementDecision
        BY DEF CompositionInv, Rows, Ran
    <2>2. pacts[p].status \in {"APPROVED", "REJECTED", "HELD"}
        BY <2>1, StatusTypes DEF CompositionInv, FinalIsKept
    <2> QED BY <1>4, <2>2
<1>6. \A a \in verifying' \cup Begun' \cup completions' : a.pact # p /\ a.pact \in Pacts
    BY <1>2 DEF CompositionInv, OneAttempt, SamePact, Rows, Ran, Begun, Composition
<1> HIDE DEF p
<1>7. Ran' = Ran /\ Begun' = Begun
    BY <1>2 DEF Ran, Begun
<1>8. Rows'
    BY <1>2, <1>3, <1>7 DEF CompositionInv, Rows
<1>9. OneAttempt'
    <2>1. \A a \in verifying' \cup Begun' \cup completions' : NowDecides(a)'
        BY <1>2, <1>3, <1>6, <1>7 DEF CompositionInv, OneAttempt, NowDecides, Latest
    <2> QED BY <1>2, <1>7, <2>1 DEF CompositionInv, OneAttempt, SamePact
<1>10. StartsDiffer' /\ RunsDiffer'
    <2>1. \A d \in completions' : ~SamePact(c, d)
        BY <1>6 DEF SamePact, p
    <2> QED BY <1>2, <1>7, <2>1 DEF CompositionInv, StartsDiffer, RunsDiffer, SamePact
<1>11. FinalIsKept'
    <2> SUFFICES ASSUME NEW r \in receipts', Final(r), r.submission = Latest(r.pact)
                 PROVE  /\ pacts'[r.pact].status = StatusFor(r.decision)
                        /\ \A s \in receipts' : SamePact(r, s) => s.startedAt <= r.startedAt
        BY <1>2 DEF FinalIsKept, Final, SamePact, Latest
    <2>1. CASE r = c
        <3>1. \A s \in receipts : SamePact(r, s) => s.startedAt < r.startedAt
            BY <2>1 DEF CompositionInv, StartsDiffer, SamePact
        <3>2. \A s \in Ran : s.startedAt \in Nat
            BY DEF CompositionInv, StartsDiffer, Rows
        <3> QED BY <1>1, <1>2, <1>3, <2>1, <3>1, <3>2 DEF p, Ran
    <2>2. CASE r # c
        <3>1. r \in receipts /\ r.pact \in Pacts
            BY <1>2, <2>2 DEF CompositionInv, Rows, Ran
        <3>2. r.pact # p
            BY <1>5, <3>1
        <3> QED BY <1>2, <1>3, <3>1, <3>2 DEF CompositionInv, FinalIsKept, SamePact, p
    <2> QED BY <2>1, <2>2
<1>12. FinalOnce'
    BY <1>2, <1>4, <1>5 DEF CompositionInv, FinalOnce, SamePact, Final, p
<1>13. Traced'
    BY <1>2, <1>7, HeardStays, OriginStays DEF CompositionInv, Traced, Ran
<1> QED BY <1>8, <1>9, <1>10, <1>11, <1>12, <1>13 DEF CompositionInv

-----------------------------------------------------------------------------
(* Every step of the composition *)

LEMMA DeliverKeeps ==
    ASSUME CompositionInv, NEW p \in Pacts, NEW by \in Parties, NEW key \in SubmissionKeys,
           NEW artifact \in Artifacts, Deliver(p, by, key, artifact)
    PROVE  CompositionInv'
<1> DEFINE e == [key |-> key, artifact |-> artifact]
<1>1. /\ pacts[p].status \in {"FUNDED", "HELD"}
      /\ submissions' = [submissions EXCEPT ![p] = Append(submissions[p], e)]
      /\ pacts' = [pacts EXCEPT ![p] = WithStatus(pacts[p], "SUBMITTED")]
      /\ UNCHANGED <<completions, receipts, now, evidence, verifying, composing>>
    BY DEF Deliver, CreateSubmission, TakesEvidence, scriptVars
<1>2. e \in Submission
    BY DEF Submission
<1> HIDE DEF e
<1>3. pacts \in [Pacts -> PactRow] /\ submissions \in [Pacts -> Seq(Submission)]
    BY DEF CompositionInv, Rows
<1>4. /\ pacts' \in [Pacts -> PactRow] /\ submissions' \in [Pacts -> Seq(Submission)]
      /\ DOMAIN submissions'[p] = DOMAIN submissions[p] \cup {Len(submissions[p]) + 1}
      /\ Len(submissions'[p]) = Len(submissions[p]) + 1
      /\ Len(submissions[p]) + 1 \notin DOMAIN submissions[p]
    BY <1>1, <1>2, <1>3, AppendKeeps, WithStatusRow DEF PactStatus
<1>5. \A q \in Pacts : q # p => pacts'[q] = pacts[q] /\ submissions'[q] = submissions[q]
    BY <1>1, <1>3
<1> QED BY <1>1, <1>4, <1>5, RowsMove DEF Latest

LEMMA CompositionStep == CompositionInv /\ CompositionNext => CompositionInv'
<1> SUFFICES ASSUME CompositionInv, CompositionNext PROVE CompositionInv'
    OBVIOUS
<1>0. pacts \in [Pacts -> PactRow] /\ submissions \in [Pacts -> Seq(Submission)]
    BY DEF CompositionInv, Rows
<1>1. ASSUME NEW p \in Pacts, NEW requester \in Parties, NEW worker \in Parties,
             CreatePact(p, requester, worker), UNCHANGED scriptVars
      PROVE  CompositionInv'
    <2>1. /\ pacts[p].status = "NONE"
          /\ pacts' \in [Pacts -> PactRow]
          /\ \A q \in Pacts : q # p => pacts'[q] = pacts[q]
          /\ UNCHANGED <<submissions, completions, receipts, now>>
        BY <1>0, <1>1 DEF CreatePact, PactRow, PactStatus
    <2> QED BY <1>0, <1>1, <2>1, RowsMove DEF scriptVars
<1>2. ASSUME NEW p \in Pacts, NEW funding \in FundingEvidence,
             ConfirmFunding(p, funding), UNCHANGED scriptVars
      PROVE  CompositionInv'
    <2>1. /\ pacts[p].status = "DRAFT"
          /\ pacts' \in [Pacts -> PactRow]
          /\ \A q \in Pacts : q # p => pacts'[q] = pacts[q]
          /\ UNCHANGED <<submissions, completions, receipts, now>>
        BY <1>0, <1>2, FundedRow DEF ConfirmFunding, Fundable
    <2> QED BY <1>0, <1>2, <2>1, RowsMove DEF scriptVars
<1>3. ASSUME NEW p \in Pacts, NEW by \in Parties, NEW key \in ChangeKeys,
             CreateChangeRequest(p, by, Latest(p), key), UNCHANGED scriptVars
      PROVE  CompositionInv'
    <2>1. /\ pacts[p].status = "SUBMITTED"
          /\ pacts' \in [Pacts -> PactRow]
          /\ \A q \in Pacts : q # p => pacts'[q] = pacts[q]
          /\ UNCHANGED <<submissions, completions, receipts, now>>
        BY <1>0, <1>3, WithStatusRow DEF CreateChangeRequest, PactStatus
    <2> QED BY <1>0, <1>3, <2>1, RowsMove DEF scriptVars
<1>4. ASSUME NEW v \in verifying, RunEnds(v)
      PROVE  CompositionInv'
    BY <1>4, FewerKeep DEF RunEnds, storeVars
<1>5. ASSUME NEW c \in composing, ComposeEnds(c)
      PROVE  CompositionInv'
    BY <1>5, FewerKeep DEF ComposeEnds, storeVars
<1>6. ASSUME NEW c \in completions, CompletionAborts(c)
      PROVE  CompositionInv'
    BY <1>6, FewerKeep DEF CompletionAborts, AbortCompletion, scriptVars
<1>7. ASSUME NEW r \in receipts, Ages(r)
      PROVE  CompositionInv'
    BY <1>7, FewerKeep DEF Ages, storeVars
<1> QED BY <1>1, <1>2, <1>3, <1>4, <1>5, <1>6, <1>7, DeliverKeeps, RunBeginsKeeps,
           RunDecidesKeeps, ReadsKeep, ComposeBeginsKeeps, ComposeCompletesKeeps, CommitKeeps
           DEF CompositionNext

LEMMA CompositionStutters == CompositionInv /\ UNCHANGED compositionVars => CompositionInv'
    BY FewerKeep DEF compositionVars, storeVars, scriptVars

-----------------------------------------------------------------------------
(* What the invariant says of verdicts *)

\* Without a miner of two signals every signal counts, and a conclusive FAIL
\* among them is a verdict against the worker.
LEMMA FailuresDecide ==
    ASSUME NEW signals \in Seq(Policy!VerificationSignal), ~MinerTwice(signals),
           NEW i \in DOMAIN signals, Fails(signals[i])
    PROVE  Decision(signals) \in {"HOLD", "REJECT"}
<1>1. \A j \in 1..(i - 1) : j \in DOMAIN signals /\ j # i
    OBVIOUS
<1>2. i \in Policy!UniqueMinerSignals(signals)
    BY <1>1 DEF Policy!UniqueMinerSignals, Policy!SameVoice, MinerTwice, SameMiner
<1>3. Policy!SomeFails(signals)
    BY <1>2 DEF Policy!SomeFails, Policy!Conclusive, Policy!IsConclusive, Fails
<1> QED BY <1>3 DEF Decision, Policy!EvaluateSettlement

\* A release has its required intents passed, by two miners.
LEMMA ReleasesPass ==
    ASSUME NEW signals \in Seq(Policy!VerificationSignal), Decision(signals) = "RELEASE"
    PROVE  /\ \A intent \in Required :
                \E i \in DOMAIN signals : signals[i].intent = intent /\ IsPass(signals[i])
           /\ \E i, j \in DOMAIN signals : ~SameMiner(signals, i, j)
<1>1. /\ ~Policy!SomeFails(signals) /\ Policy!MissingIntents(signals, Required) = {}
      /\ Policy!TwoMiners(signals)
    BY DEF Decision, Policy!EvaluateSettlement
<1>2. ASSUME NEW i \in Policy!Conclusive(signals)
      PROVE  i \in DOMAIN signals /\ IsPass(signals[i])
    <2>1. i \in DOMAIN signals /\ Policy!IsConclusive(signals[i])
        BY DEF Policy!Conclusive, Policy!UniqueMinerSignals
    <2>2. signals[i] \in Policy!VerificationSignal
        BY <2>1, ElementOfSeq
    <2>3. signals[i].verdict # "FAIL"
        BY <1>1 DEF Policy!SomeFails
    <2> QED BY <2>1, <2>2, <2>3 DEF Policy!IsConclusive, IsPass, Policy!VerificationSignal,
                                    Policy!Verdict
<1>3. \A intent \in Required :
        \E i \in DOMAIN signals : signals[i].intent = intent /\ IsPass(signals[i])
    BY <1>1, <1>2 DEF Policy!MissingIntents
<1> QED BY <1>1, <1>2, <1>3 DEF Policy!TwoMiners, SameMiner

LEMMA FailuresStay == CompositionInv => FailuresAreRemembered
<1> SUFFICES ASSUME CompositionInv, NEW r \in receipts, NEW s \in receipts,
                    r.decision = "RELEASE", s.pact = r.pact, s.submission = r.submission,
                    NEW i \in DOMAIN evidence[s.run], Fails(evidence[s.run][i])
             PROVE  FALSE
    BY DEF FailuresAreRemembered
<1>1. Origin(s) /\ ~s.sharedMiner /\ evidence[s.run] \in Seq(Policy!VerificationSignal)
    BY DEF CompositionInv, Traced, Rows, Ran
<1>2. ~FromEarlier(s.pact, s.submission, s.decision, evidence[s.run])
    BY DEF FromEarlier, PaidFor, IsPass, Fails
<1>3. s.decision \in {"HOLD", "REJECT"}
    BY <1>1, <1>2, FailuresDecide DEF Origin, FromRun
<1>4. r = s
    BY <1>3 DEF CompositionInv, FinalOnce, Final, SamePact
<1> QED BY <1>3, <1>4

LEMMA ReleasesArePaidFor == CompositionInv => ReleaseIsPaidFor
<1> SUFFICES ASSUME CompositionInv, NEW r \in receipts, r.decision = "RELEASE"
             PROVE  LET Heard == UNION {{evidence[s.run][i] : i \in DOMAIN evidence[s.run]} :
                                        s \in {s \in receipts : /\ s.pact = r.pact
                                                                /\ s.submission = r.submission
                                                                /\ s.key \in Runs}}
                    IN  /\ \A intent \in Required : \E h \in Heard : h.intent = intent /\ IsPass(h)
                        /\ \E g, h \in Heard : Identity[g.minerId] # Identity[h.minerId]
    BY DEF ReleaseIsPaidFor
<1> DEFINE Heard == UNION {{evidence[s.run][i] : i \in DOMAIN evidence[s.run]} :
                           s \in {s \in receipts : /\ s.pact = r.pact
                                                   /\ s.submission = r.submission
                                                   /\ s.key \in Runs}}
           signals == evidence[r.run]
<1>1. \A h : IsHeard(r.pact, r.submission, h) => h \in Heard
    BY DEF IsHeard
<1> HIDE DEF Heard
<1>2. Origin(r) /\ signals \in Seq(Policy!VerificationSignal)
    BY DEF CompositionInv, Traced, Rows, Ran
<1>3. \A i \in DOMAIN signals : signals[i] \in Heard
    BY <1>1, AnswersAreHeard
<1>4. /\ \A intent \in Required :
            \E i \in DOMAIN signals : signals[i].intent = intent /\ IsPass(signals[i])
      /\ \E i, j \in DOMAIN signals : ~SameMiner(signals, i, j)
    <2>1. CASE r.decision = Decision(signals)
        BY <1>2, <2>1, ReleasesPass
    <2>2. CASE FromEarlier(r.pact, r.submission, r.decision, signals)
        BY <2>2 DEF FromEarlier, PaidFor, MinersDiffer
    <2> QED BY <1>2, <2>1, <2>2 DEF Origin, FromRun
<1> HIDE DEF signals
<1>5. /\ \A intent \in Required : \E h \in Heard : h.intent = intent /\ IsPass(h)
      /\ \E g, h \in Heard : Identity[g.minerId] # Identity[h.minerId]
    BY <1>3, <1>4 DEF SameMiner
<1> QED BY <1>5 DEF Heard

-----------------------------------------------------------------------------
(* Theorems *)

ComposerInv == client = "COMPOSITION" => CompositionInv

LEMMA ComposerHolds == ClientSpec => []ComposerInv
<1>1. ClientInit => ComposerInv
    BY CompositionStarts DEF ClientInit, ComposerInv
<1>2. ComposerInv /\ [ClientNext]_clientVars => ComposerInv'
    <2> SUFFICES ASSUME ComposerInv, [ClientNext]_clientVars, client' = "COMPOSITION"
                 PROVE  CompositionInv'
        BY DEF ComposerInv
    <2>1. CASE client = "COMPOSITION" /\ CompositionNext
        BY <2>1, CompositionStep DEF ComposerInv
    <2>2. CASE UNCHANGED clientVars
        BY <2>2, CompositionStutters DEF ComposerInv, clientVars
    <2>3. CASE client = "TABS" /\ UNCHANGED client
        BY <2>3
    <2> QED BY <2>1, <2>2, <2>3 DEF ClientNext
<1> QED BY <1>1, <1>2, PTL DEF ClientSpec

\* No release forgets a failure, whatever the composer and the runs do at once.
THEOREM FailuresStopReleases == ClientSpec => []ComposerRemembersFailures
<1>1. ComposerInv => ComposerRemembersFailures
    BY FailuresStay DEF ComposerInv, ComposerRemembersFailures
<1> QED BY <1>1, ComposerHolds, PTL

\* Every release rests on answers verification runs of that delivery paid for.
THEOREM CompositionInventsNothing == ClientSpec => []ComposedReleaseIsPaidFor
<1>1. ComposerInv => ComposedReleaseIsPaidFor
    BY ReleasesArePaidFor DEF ComposerInv, ComposedReleaseIsPaidFor
<1> QED BY <1>1, ComposerHolds, PTL

-----------------------------------------------------------------------------
(* Tabs beside the server action: the invariant *)

RunOrNone == TabRuns \cup {None}

Snapshot == [status : PactStatus \cup {"NONE"}, submission : Nat, receipt : RunOrNone]

Tab == [phase : {"CLOSED", "RENDERING", "OFFERED", "WAITING", "READING", "REPLACED",
                 "OPENED", "STOPPED"},
        kind : {"page", "progress", "verify"}, submission : Nat, previous : RunOrNone,
        run : RunOrNone, snapshot : Snapshot, reads : 0..3, outcome : RunOrNone]

Call == [run : TabRuns, submission : Nat, begun : BOOLEAN]

TabTypes ==
    /\ pacts \in [Pacts -> PactRow]
    /\ submissions \in [Pacts -> Seq(Status!Submission)]
    /\ now \in Nat
    /\ \A r \in Ran : /\ r.pact = Shown /\ r.run \in TabRuns
                      /\ r.decision \in SettlementDecision /\ r.startedAt \in 1..now
    /\ tabs \in [Tabs -> Tab]
    /\ executing \subseteq Call

\* Work delivered is never undone, and the tabs settle nothing.
ShownStatus == pacts[Shown].status
NotDelivered == {"NONE", "DRAFT", "FUNDED"}

Delivered ==
    /\ ShownStatus # "RELEASED"
    /\ Latest(Shown) > 0 => ShownStatus \notin NotDelivered

\* A call that has begun has the pact to itself until its completion commits.
Working == {q \in executing : q.begun} \cup completions

OneCall ==
    /\ \A a \in Working : ShownStatus = "VERIFYING" /\ a.submission = Latest(Shown)
    /\ \A a, b \in Working : a = b

CallsDiffer ==
    /\ \A r, s \in Ran : r.run = s.run \/ r.startedAt = s.startedAt => r = s
    /\ \A q \in executing :
        /\ \A r \in Ran : r.run # q.run
        /\ \A other \in executing : other.run = q.run => other = q
    /\ \A r \in receipts, c \in completions : r.startedAt < c.startedAt

\* A verdict that ends the pact came with its newest receipt, on its latest delivery.
Settled == ShownStatus \in {"APPROVED", "REJECTED"}

IsNewest(r) == \A s \in receipts : s.startedAt <= r.startedAt

SettledByNewest ==
    Settled => \E r \in receipts : r.submission = Latest(Shown) /\ IsNewest(r)

NotOlder(run, previous) ==
    \E r, s \in receipts : /\ r.run = run /\ s.run = previous
                           /\ s.startedAt <= r.startedAt

\* A receipt a tab knows exists, and no read takes the tab back in time.
Knows(tab) ==
    /\ tab.previous # None => \E r \in receipts : r.run = tab.previous
    /\ tab.phase = "RENDERING" /\ tab.reads > 1 => tab.snapshot.submission <= Latest(Shown)
    /\ tab.phase \in {"OFFERED", "WAITING", "READING"} => tab.submission \in 1..Latest(Shown)
    /\ tab.phase \in {"RENDERING", "READING"} /\ tab.reads = 3 /\ tab.snapshot.receipt # None =>
        NotOlder(tab.snapshot.receipt, IF tab.previous = None THEN tab.snapshot.receipt
                                       ELSE tab.previous)

\* The run a tab has started is about the delivery it shows, and its receipt
\* newer than the one it shows.
Started(tab) ==
    /\ \A r \in Ran : r.run = tab.run =>
        /\ r.submission = tab.submission
        /\ \A s \in receipts : s.run = tab.previous => s.startedAt < r.startedAt
    /\ \A q \in executing : q.run = tab.run => q.submission = tab.submission

\* A poll that has read a final status reads the delivery and receipt that
\* belong to it.
Polled(tab) ==
    tab.phase = "READING" =>
        /\ tab.reads > 0 => tab.snapshot.status \notin NotDelivered \cup {"RELEASED"}
        /\ tab.reads > 0 /\ tab.snapshot.status \in {"APPROVED", "REJECTED"} =>
            /\ Settled
            /\ tab.reads > 1 => tab.snapshot.submission = Latest(Shown)
            /\ tab.reads > 2 => \E r \in receipts : r.run = tab.snapshot.receipt /\ IsNewest(r)

\* What a tab tells its user in the end is right.
Told(tab) ==
    /\ tab.phase = "STOPPED" => Settled /\ \E r \in receipts : r.run = tab.previous /\ IsNewest(r)
    /\ tab.phase = "OPENED" =>
        \E r \in receipts : /\ r.run = tab.outcome /\ r.submission = tab.submission
                            /\ \A s \in receipts : s.run = tab.previous => s.startedAt < r.startedAt

Fine(tab) == Knows(tab) /\ Started(tab) /\ Polled(tab) /\ Told(tab)

Open == {tabs[t] : t \in Tabs}

TabInv ==
    /\ TabTypes /\ Delivered /\ OneCall /\ CallsDiffer /\ SettledByNewest
    /\ \A tab \in Open : Fine(tab)

LEMMA ClosedIsFine == TabTypes => Status!Closed \in Tab /\ Fine(Status!Closed)
<1> SUFFICES ASSUME TabTypes PROVE Status!Closed \in Tab /\ Fine(Status!Closed)
    OBVIOUS
<1>1. Status!Closed \in Tab
    BY DEF Status!Closed, Status!Blank, Tab, Snapshot, RunOrNone
<1>2. \A r \in Ran \cup executing : r.run # None
    BY TabAssumption DEF TabTypes, Call
<1> QED BY <1>1, <1>2 DEF Status!Closed, Fine, Knows, Started, Polled, Told

LEMMA TabsStart == ClientInit => TabInv
<1> SUFFICES ASSUME ClientInit PROVE TabInv
    OBVIOUS
<1>1. /\ receipts = {} /\ completions = {} /\ now = 0 /\ executing = {}
      /\ pacts = [p \in Pacts |-> NoRow] /\ submissions = [p \in Pacts |-> <<>>]
      /\ tabs = [t \in Tabs |-> Status!Closed]
    BY DEF ClientInit, CompositionInit, Init, Status!StatusInit
<1>2. Ran = {} /\ Working = {}
    BY <1>1 DEF Ran, Working
<1>3. pacts \in [Pacts -> PactRow] /\ submissions \in [Pacts -> Seq(Status!Submission)]
    BY <1>1 DEF NoRow, PactRow
<1>4. Status!Closed \in Tab
    BY DEF Status!Closed, Status!Blank, Tab, Snapshot, RunOrNone
<1>5. TabTypes
    BY <1>1, <1>2, <1>3, <1>4 DEF TabTypes
<1>6. ShownStatus = "NONE" /\ Latest(Shown) = 0
    BY <1>1, TabAssumption DEF ShownStatus, NoRow, Latest
<1>7. \A tab \in Open : Fine(tab)
    BY <1>1, <1>5, ClosedIsFine DEF Open
<1> QED BY <1>1, <1>2, <1>5, <1>6, <1>7 DEF TabInv, Delivered, OneCall, CallsDiffer,
                                            SettledByNewest, Settled

-----------------------------------------------------------------------------
(* Steps of tabs *)

\* What a tab knows, and was told, holds on while deliveries and receipts are
\* added, none after a final verdict.
LEMMA FineStays ==
    ASSUME TabTypes, CallsDiffer,
           receipts \subseteq receipts', receipts' \subseteq Ran, Latest(Shown)' >= Latest(Shown),
           Latest(Shown) \in Nat, Latest(Shown)' \in Nat,
           Settled => Settled' /\ Latest(Shown)' = Latest(Shown) /\ receipts' = receipts,
           \A r \in Ran' \ Ran :
               /\ \E q \in executing : q.run = r.run /\ q.submission = r.submission
               /\ \A s \in receipts' : s.startedAt < r.startedAt,
           \A q \in executing' : \E p \in executing : p.run = q.run /\ p.submission = q.submission,
           NEW tab \in Tab, Fine(tab)
    PROVE  Fine(tab)'
<1>1. \A s \in receipts' : s.run = tab.previous /\ tab.previous # None => s \in receipts
    BY DEF CallsDiffer, Fine, Knows, Ran
<1>2. \A s \in Ran : s.run # None
    BY TabAssumption DEF TabTypes
<1>3. \A s \in receipts' : s.run = tab.previous => s \in receipts
    BY <1>1, <1>2
<1>4. Knows(tab)'
    <2>1. /\ tab.previous # None => \E r \in receipts' : r.run = tab.previous
          /\ tab.phase = "RENDERING" /\ tab.reads > 1 =>
                tab.snapshot.submission <= Latest(Shown)'
          /\ tab.phase \in {"OFFERED", "WAITING", "READING"} =>
                tab.submission \in 1..Latest(Shown)'
        BY DEF Fine, Knows, Tab, Snapshot
    <2>2. \A run, previous : NotOlder(run, previous) => NotOlder(run, previous)'
        BY DEF NotOlder
    <2> QED BY <2>1, <2>2 DEF Fine, Knows
<1>5. Started(tab)'
    <2>1. ASSUME NEW r \in Ran', r.run = tab.run
          PROVE  /\ r.submission = tab.submission
                 /\ \A s \in receipts' : s.run = tab.previous => s.startedAt < r.startedAt
        <3>1. CASE r \in Ran
            BY <1>3, <2>1, <3>1 DEF Fine, Started
        <3>2. CASE r \notin Ran
            BY <2>1, <3>2 DEF Fine, Started
        <3> QED BY <3>1, <3>2
    <2>2. \A q \in executing' : q.run = tab.run => q.submission = tab.submission
        BY DEF Fine, Started
    <2> QED BY <2>1, <2>2 DEF Started
<1>6. Polled(tab)'
    BY DEF Fine, Polled, IsNewest
<1>7. Told(tab)'
    BY <1>3 DEF Fine, Told, IsNewest
<1> QED BY <1>4, <1>5, <1>6, <1>7 DEF Fine

\* Tabs move, calls may end, the store is left alone.
LEMMA TabsMove ==
    ASSUME TabInv, UNCHANGED storeVars, executing' \subseteq executing, tabs' \in [Tabs -> Tab],
           \A tab \in Open' : tab \in Open \/ Fine(tab)
    PROVE  TabInv'
<1>1. /\ Ran' = Ran /\ Working' \subseteq Working /\ ShownStatus' = ShownStatus
      /\ Latest(Shown)' = Latest(Shown)
      /\ UNCHANGED <<pacts, submissions, receipts, completions, now>>
    BY DEF storeVars, Ran, Working, ShownStatus, Latest
<1>2. TabTypes' /\ Delivered'
    BY <1>1 DEF TabInv, TabTypes, Delivered
<1>3. OneCall' /\ CallsDiffer' /\ SettledByNewest'
    BY <1>1 DEF TabInv, OneCall, CallsDiffer, SettledByNewest, Settled, IsNewest
<1>4. Latest(Shown) \in Nat
    BY TabAssumption DEF TabInv, TabTypes, Latest
<1>5. \A tab \in Open' : tab \in Tab /\ Fine(tab)
    BY DEF TabInv, Open
<1>6. ASSUME NEW tab \in Open' PROVE Fine(tab)'
    <2>1. tab \in Tab /\ Fine(tab)
        BY <1>5
    <2>2. receipts' \subseteq Ran /\ (Settled => Settled')
        BY <1>1 DEF Ran, Settled
    <2> QED BY <1>1, <1>4, <2>1, <2>2, FineStays DEF TabInv
<1> QED BY <1>2, <1>3, <1>6 DEF TabInv

\* One tab moves.
LEMMA TabMoves ==
    ASSUME TabInv, NEW t \in Tabs, NEW new \in Tab, Fine(new),
           tabs' = [tabs EXCEPT ![t] = new], UNCHANGED <<storeVars, executing>>
    PROVE  TabInv'
<1>1. tabs' \in [Tabs -> Tab]
    BY DEF TabInv, TabTypes
<1>2. \A tab \in Open' : tab \in Open \/ tab = new
    BY DEF Open, TabInv, TabTypes
<1> QED BY <1>1, <1>2, TabsMove

LEMMA RenderingIsFine ==
    ASSUME TabTypes, NEW new, new = [Status!Closed EXCEPT !.phase = "RENDERING"]
    PROVE  new \in Tab /\ Fine(new)
<1>1. new \in Tab
    BY DEF Status!Closed, Status!Blank, Tab, Snapshot, RunOrNone
<1>2. \A r \in Ran \cup executing : r.run # None
    BY TabAssumption DEF TabTypes, Call
<1> QED BY <1>1, <1>2 DEF Status!Closed, Fine, Knows, Started, Polled, Told

LEMMA LoadKeeps ==
    ASSUME TabInv, NEW t \in Tabs, Status!Load(t)
    PROVE  TabInv'
<1>1. PICK new : new = [Status!Closed EXCEPT !.phase = "RENDERING"]
    OBVIOUS
<1>2. tabs' = [tabs EXCEPT ![t] = new] /\ UNCHANGED <<storeVars, executing>>
    BY <1>1 DEF Status!Load, Status!storeVars, storeVars
<1> QED BY <1>1, <1>2, RenderingIsFine, TabMoves DEF TabInv

LEMMA NewestRun ==
    ASSUME TabTypes, CallsDiffer, receipts # {}
    PROVE  /\ \E r \in receipts : IsNewest(r)
           /\ \A r \in receipts : IsNewest(r) => Status!LatestRun = r.run
<1> DEFINE Starts == {r.startedAt : r \in receipts}
<1>1. now \in Nat /\ Starts \in SUBSET Nat /\ Starts # {} /\ \A n \in Starts : n <= now
    BY DEF TabTypes, Ran
<1>2. PICK m \in Starts : \A n \in Starts : n <= m
    <2> HIDE DEF Starts
    <2> QED BY <1>1, Greatest
<1>3. PICK r \in receipts : IsNewest(r)
    BY <1>2 DEF IsNewest
<1>4. Status!LatestReceipts(Shown) = {s \in receipts : IsNewest(s)}
    BY DEF Status!LatestReceipts, IsNewest, TabTypes, Ran
<1>5. \A s \in receipts : IsNewest(s) => s = r
    <2> SUFFICES ASSUME NEW s \in receipts, IsNewest(s) PROVE s = r
        OBVIOUS
    <2>1. s.startedAt \in Nat /\ r.startedAt \in Nat
        BY DEF TabTypes, Ran
    <2>2. s.startedAt = r.startedAt
        BY <1>3, <2>1 DEF IsNewest
    <2> QED BY <2>2 DEF CallsDiffer, Ran
<1>6. Status!LatestReceipts(Shown) = {r}
    BY <1>3, <1>4, <1>5
<1>7. Status!LatestRun = r.run
    BY <1>6 DEF Status!LatestRun
<1> QED BY <1>3, <1>5, <1>7

AfterRead(tab, seen) == [tab EXCEPT !.snapshot = seen, !.reads = tab.reads + 1]

LEMMA ReadsMove ==
    ASSUME NEW old \in Tab, old.reads < 3, NEW seen \in Snapshot,
           NEW new, new = AfterRead(old, seen)
    PROVE  /\ new \in Tab
           /\ new.snapshot = seen /\ new.reads = old.reads + 1
           /\ new.phase = old.phase /\ new.submission = old.submission
           /\ new.previous = old.previous /\ new.run = old.run /\ new.outcome = old.outcome
<1>1. PICK n : n = old.reads + 1
    OBVIOUS
<1>2. n \in 0..3
    BY <1>1 DEF Tab
<1>3. new = [old EXCEPT !.snapshot = seen, !.reads = n]
    BY <1>1 DEF AfterRead
<1> QED BY <1>1, <1>2, <1>3 DEF Tab

LEMMA FieldIsRead ==
    ASSUME TabInv, NEW t \in Tabs, Status!Read(t), NEW old \in Tab, old = tabs[t],
           NEW field, field = Status!ReadOrder[old.reads + 1],
           NEW seen, seen = [old.snapshot EXCEPT ![field] = Status!Stored[field]]
    PROVE  tabs' = [tabs EXCEPT ![t] = AfterRead(old, seen)]
<1>1. tabs \in [Tabs -> Tab]
    BY DEF TabInv, TabTypes
<1>2. tabs' = [tabs EXCEPT ![t].snapshot[field] = Status!Stored[field],
                           ![t].reads = old.reads + 1]
    BY <1>1 DEF Status!Read, Tab
<1>3. /\ DOMAIN tabs' = Tabs
      /\ \A u \in Tabs : u # t => tabs'[u] = tabs[u]
    BY <1>1, <1>2
<1>4. tabs'[t] = [old EXCEPT !.snapshot[field] = Status!Stored[field], !.reads = old.reads + 1]
    BY <1>1, <1>2
<1>5. tabs'[t] = AfterRead(old, seen)
    BY <1>4 DEF Tab, AfterRead
<1> QED BY <1>1, <1>2, <1>3, <1>5

LEMMA ReadKeeps ==
    ASSUME TabInv, NEW t \in Tabs, Status!Read(t)
    PROVE  TabInv'
<1>1. PICK old : old = tabs[t]
    OBVIOUS
<1>2. /\ old \in Tab /\ Fine(old) /\ old.phase \in {"RENDERING", "READING"}
      /\ old.reads \in {0, 1, 2} /\ old.snapshot \in Snapshot
      /\ UNCHANGED <<storeVars, executing>>
    BY <1>1 DEF TabInv, TabTypes, Open, Tab, Status!Read, Status!storeVars, storeVars
<1>3. ShownStatus \in PactStatus \cup {"NONE"} /\ Latest(Shown) \in Nat
    BY TabAssumption DEF TabInv, TabTypes, PactRow, Latest, ShownStatus
<1>4. PICK field : field = Status!ReadOrder[old.reads + 1]
    OBVIOUS
<1>5. PICK seen : seen = [old.snapshot EXCEPT ![field] = Status!Stored[field]]
    OBVIOUS
<1>6. PICK new : new = AfterRead(old, seen)
    OBVIOUS
<1>7. tabs' = [tabs EXCEPT ![t] = new]
    BY <1>1, <1>2, <1>4, <1>5, <1>6, FieldIsRead
<1>8. CASE old.reads = 0
    <2>1. field = "status" /\ Status!Stored[field] = ShownStatus
        BY <1>4, <1>8 DEF Status!ReadOrder, Status!Stored, ShownStatus
    <2>2. seen \in Snapshot /\ seen.status = ShownStatus
        BY <1>2, <1>3, <1>5, <2>1 DEF Snapshot
    <2>3. /\ new \in Tab /\ new.snapshot = seen /\ new.reads = 1
          /\ new.phase = old.phase /\ new.submission = old.submission
          /\ new.previous = old.previous /\ new.run = old.run /\ new.outcome = old.outcome
        BY <1>2, <1>6, <1>8, <2>2, ReadsMove
    <2>4. Fine(new)
        <3>1. Knows(new) /\ Started(new) /\ Told(new)
            BY <1>2, <2>3 DEF Fine, Knows, Started, Told
        <3>2. new.phase = "READING" => ShownStatus \notin NotDelivered \cup {"RELEASED"}
            BY <1>2, <1>3, <2>3 DEF Fine, Knows, TabInv, Delivered
        <3> QED BY <2>2, <2>3, <3>1, <3>2 DEF Fine, Polled, Settled
    <2> QED BY <1>2, <1>7, <2>3, <2>4, TabMoves
<1>9. CASE old.reads = 1
    <2>1. field = "submission" /\ Status!Stored[field] = Latest(Shown)
        BY <1>4, <1>9 DEF Status!ReadOrder, Status!Stored, Status!Latest, Latest
    <2>2. /\ seen \in Snapshot /\ seen.submission = Latest(Shown)
          /\ seen.status = old.snapshot.status
        BY <1>2, <1>3, <1>5, <2>1 DEF Snapshot
    <2>3. /\ new \in Tab /\ new.snapshot = seen /\ new.reads = 2
          /\ new.phase = old.phase /\ new.submission = old.submission
          /\ new.previous = old.previous /\ new.run = old.run /\ new.outcome = old.outcome
        BY <1>2, <1>6, <1>9, <2>2, ReadsMove
    <2>4. Fine(new)
        BY <1>2, <1>3, <1>9, <2>2, <2>3 DEF Fine, Knows, Started, Polled, Told
    <2> QED BY <1>2, <1>7, <2>3, <2>4, TabMoves
<1>10. CASE old.reads = 2
    <2>1. field = "receipt" /\ Status!Stored[field] = Status!LatestRun
        BY <1>4, <1>10 DEF Status!ReadOrder, Status!Stored
    <2>2. \/ receipts = {} /\ Status!LatestRun = None
          \/ \E r \in receipts : IsNewest(r) /\ Status!LatestRun = r.run
        BY NewestRun DEF TabInv, Status!LatestRun, Status!LatestReceipts
    <2>3. Status!LatestRun \in RunOrNone
        BY <2>2 DEF RunOrNone, TabInv, TabTypes, Ran
    <2>4. /\ seen \in Snapshot /\ seen.receipt = Status!LatestRun
          /\ seen.status = old.snapshot.status /\ seen.submission = old.snapshot.submission
        BY <1>2, <1>5, <2>1, <2>3 DEF Snapshot
    <2>5. /\ new \in Tab /\ new.snapshot = seen /\ new.reads = 3
          /\ new.phase = old.phase /\ new.submission = old.submission
          /\ new.previous = old.previous /\ new.run = old.run /\ new.outcome = old.outcome
        BY <1>2, <1>6, <1>10, <2>4, ReadsMove
    <2>6. Knows(new)
        <3>1. ASSUME Status!LatestRun # None, old.previous # None
              PROVE  NotOlder(Status!LatestRun, old.previous)
            BY <1>2, <2>2, <3>1 DEF Fine, Knows, NotOlder, IsNewest
        <3>2. ASSUME Status!LatestRun # None
              PROVE  NotOlder(Status!LatestRun, Status!LatestRun)
            <4>1. PICK r \in receipts : IsNewest(r) /\ Status!LatestRun = r.run
                BY <2>2, <3>2
            <4> QED BY <4>1 DEF NotOlder, IsNewest
        <3> QED BY <1>2, <1>10, <2>4, <2>5, <3>1, <3>2 DEF Fine, Knows
    <2>7. Started(new) /\ Told(new)
        BY <1>2, <2>5 DEF Fine, Started, Told
    <2>8. Polled(new)
        <3>1. Settled => receipts # {}
            BY DEF TabInv, SettledByNewest
        <3> QED BY <1>2, <1>10, <2>2, <2>4, <2>5, <3>1 DEF Fine, Polled
    <2> QED BY <1>2, <1>7, <2>5, <2>6, <2>7, <2>8, TabMoves DEF Fine
<1> QED BY <1>2, <1>8, <1>9, <1>10

LEMMA RenderedKeeps ==
    ASSUME TabInv, NEW t \in Tabs, Status!Rendered(t)
    PROVE  TabInv'
<1>1. PICK old : old = tabs[t]
    OBVIOUS
<1>2. /\ old \in Tab /\ Fine(old) /\ old.phase = "RENDERING" /\ old.reads = 3
      /\ UNCHANGED <<storeVars, executing>>
    BY <1>1 DEF TabInv, TabTypes, Open, Status!Rendered, Status!storeVars, storeVars
<1>3. old.snapshot.submission \in Nat /\ old.snapshot.receipt \in RunOrNone
    BY <1>2 DEF Tab, Snapshot
<1>4. PICK watched : watched = [Status!Closed EXCEPT !.submission = old.snapshot.submission,
                                                     !.previous = old.snapshot.receipt]
    OBVIOUS
<1>5. \/ tabs' = [tabs EXCEPT ![t] = Status!Closed]
      \/ /\ old.snapshot.submission # 0
         /\ \/ tabs' = [tabs EXCEPT ![t] = [watched EXCEPT !.phase = "WAITING", !.kind = "progress"]]
            \/ tabs' = [tabs EXCEPT ![t] = [watched EXCEPT !.phase = "OFFERED", !.kind = "verify"]]
    BY <1>1, <1>4 DEF Status!Rendered
<1>6. CASE tabs' = [tabs EXCEPT ![t] = Status!Closed]
    BY <1>2, <1>6, ClosedIsFine, TabMoves DEF TabInv
<1>7. ASSUME NEW new, new \in {[watched EXCEPT !.phase = "WAITING", !.kind = "progress"],
                               [watched EXCEPT !.phase = "OFFERED", !.kind = "verify"]},
             old.snapshot.submission # 0
      PROVE  new \in Tab /\ Fine(new)
    <2>0. /\ watched \in Tab /\ watched.run = None
          /\ watched.submission = old.snapshot.submission
          /\ watched.previous = old.snapshot.receipt
        BY <1>2, <1>3, <1>4, ClosedIsFine DEF TabInv, Status!Closed, Tab
    <2>1. /\ new \in Tab /\ new.phase \in {"WAITING", "OFFERED"} /\ new.run = None
          /\ new.submission = old.snapshot.submission /\ new.previous = old.snapshot.receipt
        BY <1>7, <2>0 DEF Tab
    <2>2. new.submission \in 1..Latest(Shown)
        <3>1. Latest(Shown) \in Nat
            BY TabAssumption DEF TabInv, TabTypes, Latest
        <3> QED BY <1>2, <1>3, <1>7, <2>1, <3>1 DEF Fine, Knows
    <2>3. new.previous # None => \E r \in receipts : r.run = new.previous
        BY <1>2, <2>1 DEF Fine, Knows, NotOlder
    <2>4. \A r \in Ran \cup executing : r.run # None
        BY TabAssumption DEF TabInv, TabTypes, Call
    <2> QED BY <2>1, <2>2, <2>3, <2>4 DEF Fine, Knows, Started, Polled, Told
<1>8. ASSUME NEW new, new \in {[watched EXCEPT !.phase = "WAITING", !.kind = "progress"],
                               [watched EXCEPT !.phase = "OFFERED", !.kind = "verify"]},
             old.snapshot.submission # 0, tabs' = [tabs EXCEPT ![t] = new]
      PROVE  TabInv'
    BY <1>2, <1>7, <1>8, TabMoves
<1> QED BY <1>5, <1>6, <1>8

LEMMA PollKeeps ==
    ASSUME TabInv, NEW t \in Tabs, Status!Poll(t)
    PROVE  TabInv'
<1>1. PICK old : old = tabs[t]
    OBVIOUS
<1>2. /\ old \in Tab /\ Fine(old) /\ old.phase = "WAITING"
      /\ UNCHANGED <<storeVars, executing>>
    BY <1>1 DEF TabInv, TabTypes, Open, Status!Poll, Status!storeVars, storeVars
<1>3. PICK new : new = [old EXCEPT !.phase = "READING", !.snapshot = Status!Blank, !.reads = 0]
    OBVIOUS
<1>4. tabs' = [tabs EXCEPT ![t] = new]
    <2>1. tabs \in [Tabs -> Tab]
        BY DEF TabInv, TabTypes
    <2>2. tabs' = [tabs EXCEPT ![t].phase = "READING", ![t].snapshot = Status!Blank, ![t].reads = 0]
        BY DEF Status!Poll
    <2>3. tabs'[t] = new /\ DOMAIN tabs' = Tabs /\ \A u \in Tabs : u # t => tabs'[u] = tabs[u]
        BY <1>1, <1>3, <2>1, <2>2 DEF Tab
    <2> QED BY <2>1, <2>2, <2>3
<1>5. Status!Blank \in Snapshot
    BY DEF Status!Blank, Snapshot, RunOrNone
<1>6. /\ new \in Tab /\ new.phase = "READING" /\ new.reads = 0
      /\ new.submission = old.submission /\ new.previous = old.previous /\ new.run = old.run
    <2>1. PICK blank \in Snapshot, zero \in 0..3 : blank = Status!Blank /\ zero = 0
        BY <1>5
    <2>2. new = [old EXCEPT !.phase = "READING", !.snapshot = blank, !.reads = zero]
        BY <1>3, <2>1
    <2>3. old \in Tab
        BY <1>2
    <2> QED BY <2>1, <2>2, <2>3 DEF Tab
<1>7. Fine(new)
    BY <1>2, <1>6 DEF Fine, Knows, Started, Polled, Told
<1> QED BY <1>2, <1>4, <1>6, <1>7, TabMoves

\* A tab that leaves a poll for another phase keeps what it shows.
LEMMA PhaseMoves ==
    ASSUME NEW old \in Tab, Fine(old), old.phase \in {"WAITING", "READING"},
           NEW phase \in {"WAITING", "REPLACED", "STOPPED", "OPENED"}, NEW outcome \in RunOrNone,
           NEW new, new = [old EXCEPT !.phase = phase, !.outcome = outcome],
           phase = "STOPPED" => Settled /\ \E r \in receipts : r.run = old.previous /\ IsNewest(r),
           phase = "OPENED" =>
                \E r \in receipts :
                    /\ r.run = outcome /\ r.submission = old.submission
                    /\ \A s \in receipts : s.run = old.previous => s.startedAt < r.startedAt
    PROVE  new \in Tab /\ Fine(new)
<1>1. /\ new \in Tab /\ new.phase = phase /\ new.outcome = outcome
      /\ new.submission = old.submission /\ new.previous = old.previous /\ new.run = old.run
    BY DEF Tab
<1> QED BY <1>1 DEF Fine, Knows, Started, Polled, Told

LEMMA PollBreaksKeeps ==
    ASSUME TabInv, NEW t \in Tabs, Status!PollBreaks(t)
    PROVE  TabInv'
<1>1. PICK old : old = tabs[t]
    OBVIOUS
<1>2. /\ old \in Tab /\ Fine(old) /\ old.phase = "READING" /\ old.outcome \in RunOrNone
      /\ UNCHANGED <<storeVars, executing>>
    BY <1>1 DEF TabInv, TabTypes, Open, Tab, Status!PollBreaks, Status!storeVars, storeVars
<1>3. PICK new : new = [old EXCEPT !.phase = "WAITING", !.outcome = old.outcome]
    OBVIOUS
<1>4. new = [old EXCEPT !.phase = "WAITING"]
    BY <1>2, <1>3 DEF Tab
<1>5. tabs' = [tabs EXCEPT ![t] = new]
    BY <1>1, <1>4 DEF Status!PollBreaks
<1>6. new \in Tab /\ Fine(new)
    BY <1>2, <1>3, PhaseMoves
<1> QED BY <1>2, <1>5, <1>6, TabMoves

LEMMA TimesOutKeeps ==
    ASSUME TabInv, NEW t \in Tabs, Status!TimesOut(t)
    PROVE  TabInv'
<1>1. /\ tabs' = [tabs EXCEPT ![t] = Status!Closed]
      /\ UNCHANGED <<storeVars, executing>>
    BY DEF Status!TimesOut, Status!storeVars, storeVars
<1> QED BY <1>1, ClosedIsFine, TabMoves DEF TabInv

LEMMA ActionAnsweredKeeps ==
    ASSUME TabInv, NEW t \in Tabs, Status!ActionAnswered(t)
    PROVE  TabInv'
<1>1. PICK old : old = tabs[t]
    OBVIOUS
<1>2. /\ old \in Tab /\ Fine(old) /\ old.phase \in {"WAITING", "READING"}
      /\ old.run \in RunOrNone /\ UNCHANGED <<storeVars, executing>>
    BY <1>1 DEF TabInv, TabTypes, Open, Tab, Status!ActionAnswered, Status!Waits,
                Status!storeVars, storeVars
<1>3. PICK r \in receipts : r.run = old.run
    BY <1>1 DEF Status!ActionAnswered
<1>4. /\ r.submission = old.submission
      /\ \A s \in receipts : s.run = old.previous => s.startedAt < r.startedAt
    BY <1>2, <1>3 DEF Fine, Started, Ran
<1>5. PICK new : new = [old EXCEPT !.phase = "OPENED", !.outcome = old.run]
    OBVIOUS
<1>6. tabs' = [tabs EXCEPT ![t] = new]
    BY <1>1, <1>2, <1>5 DEF Status!ActionAnswered, TabInv, TabTypes
<1>7. new \in Tab /\ Fine(new)
    BY <1>2, <1>3, <1>4, <1>5, PhaseMoves
<1> QED BY <1>2, <1>6, <1>7, TabMoves

LEMMA UniqueReceipt ==
    ASSUME CallsDiffer, NEW r \in receipts
    PROVE  Status!ReceiptOf(r.run) = r
<1>1. \A s \in receipts : s.run = r.run => s = r
    BY DEF CallsDiffer, Ran
<1> QED BY <1>1 DEF Status!ReceiptOf

\* News is newer than what the tab showed.
LEMMA NewsIsNewer ==
    ASSUME TabInv, NEW old \in Open, old.phase = "READING", old.reads = 3, Status!News(old),
           old.snapshot.submission = old.submission
    PROVE  \E r \in receipts :
                /\ r.run = old.snapshot.receipt /\ r.submission = old.submission
                /\ \A s \in receipts : s.run = old.previous => s.startedAt < r.startedAt
<1> DEFINE run == old.snapshot.receipt
<1>1. /\ run # None /\ run # old.previous
      /\ Status!ReceiptOf(run).submission = old.snapshot.submission
    BY DEF Status!News, Status!CurrentReceipt
<1>2. NotOlder(run, IF old.previous = None THEN run ELSE old.previous)
    BY <1>1 DEF TabInv, Fine, Knows
<1>3. PICK r \in receipts : r.run = run
    BY <1>2 DEF NotOlder
<1>4. r.submission = old.submission
    BY <1>1, <1>3, UniqueReceipt DEF TabInv
<1>5. ASSUME NEW s \in receipts, s.run = old.previous
      PROVE  s.startedAt < r.startedAt
    <2>1. old.previous # None
        BY <1>5, TabAssumption DEF TabInv, TabTypes, Ran
    <2>2. PICK a \in receipts, b \in receipts :
                a.run = run /\ b.run = old.previous /\ b.startedAt <= a.startedAt
        BY <1>2, <2>1 DEF NotOlder
    <2>3. a = r /\ b = s /\ r # s
        BY <1>1, <1>3, <1>5, <2>2 DEF TabInv, CallsDiffer, Ran
    <2>4. r.startedAt \in Nat /\ s.startedAt \in Nat /\ r.startedAt # s.startedAt
        BY <2>3 DEF TabInv, TabTypes, CallsDiffer, Ran
    <2> QED BY <2>2, <2>3, <2>4
<1> QED BY <1>3, <1>4, <1>5

\* A poll that reads a final status and no news has read the receipt the tab showed.
LEMMA NoNewsIsFinal ==
    ASSUME TabInv, NEW old \in Open, old.phase = "READING", old.reads = 3, ~Status!News(old),
           old.kind = "verify", ~Status!GoesOn(old)
    PROVE  Settled /\ \E r \in receipts : r.run = old.previous /\ IsNewest(r)
<1>1. old.snapshot.status \in PactStatus \cup {"NONE"}
    BY DEF TabInv, TabTypes, Open, Tab, Snapshot
<1>2. old.snapshot.status \in {"APPROVED", "REJECTED"}
    BY <1>1 DEF Status!GoesOn, TabInv, Fine, Polled, PactStatus, NotDelivered
<1>3. /\ Settled /\ old.snapshot.submission = Latest(Shown)
      /\ \E r \in receipts : r.run = old.snapshot.receipt /\ IsNewest(r)
    BY <1>2 DEF TabInv, Fine, Polled
<1>4. PICK r \in receipts : r.run = old.snapshot.receipt /\ IsNewest(r)
    BY <1>3
<1>5. PICK s \in receipts : s.submission = Latest(Shown) /\ IsNewest(s)
    BY <1>3 DEF TabInv, SettledByNewest
<1>6. r = s
    <2>1. r.startedAt \in Nat /\ s.startedAt \in Nat
        BY DEF TabInv, TabTypes, Ran
    <2>2. r.startedAt = s.startedAt
        BY <1>4, <1>5, <2>1 DEF IsNewest
    <2> QED BY <2>2 DEF TabInv, CallsDiffer, Ran
<1>7. r.run # None
    BY TabAssumption DEF TabInv, TabTypes, Ran
<1>8. Status!CurrentReceipt(old.snapshot) = r.run
    BY <1>3, <1>4, <1>5, <1>6, <1>7, UniqueReceipt DEF TabInv, Status!CurrentReceipt
<1>9. r.run = old.previous
    BY <1>7, <1>8 DEF Status!News
<1> QED BY <1>3, <1>4, <1>9

LEMMA PollAnsweredKeeps ==
    ASSUME TabInv, NEW t \in Tabs, Status!PollAnswered(t)
    PROVE  TabInv'
<1>1. PICK old : old = tabs[t]
    OBVIOUS
<1>2. /\ old \in Tab /\ old \in Open /\ Fine(old) /\ old.phase = "READING" /\ old.reads = 3
      /\ old.outcome \in RunOrNone /\ old.snapshot.receipt \in RunOrNone
      /\ UNCHANGED <<storeVars, executing>>
    BY <1>1 DEF TabInv, TabTypes, Open, Tab, Snapshot, Status!PollAnswered,
                Status!storeVars, storeVars
<1>3. \/ \E phase \in {"REPLACED", "WAITING"} : tabs' = [tabs EXCEPT ![t] = [old EXCEPT !.phase = phase]]
      \/ /\ Status!News(old) /\ old.snapshot.submission = old.submission
         /\ tabs' = [tabs EXCEPT ![t] =
                        [old EXCEPT !.phase = "OPENED", !.outcome = old.snapshot.receipt]]
      \/ /\ ~Status!News(old) /\ ~Status!GoesOn(old)
         /\ tabs' = [tabs EXCEPT ![t] = Status!Stopped(old)]
    BY <1>1 DEF Status!PollAnswered
<1>4. ASSUME NEW phase \in {"REPLACED", "WAITING"},
             tabs' = [tabs EXCEPT ![t] = [old EXCEPT !.phase = phase]]
      PROVE  TabInv'
    <2>1. PICK new : new = [old EXCEPT !.phase = phase, !.outcome = old.outcome]
        OBVIOUS
    <2>2. new = [old EXCEPT !.phase = phase]
        BY <1>2, <2>1 DEF Tab
    <2>3. new \in Tab /\ Fine(new)
        BY <1>2, <2>1, PhaseMoves
    <2> QED BY <1>2, <1>4, <2>2, <2>3, TabMoves
<1>5. CASE /\ Status!News(old) /\ old.snapshot.submission = old.submission
           /\ tabs' = [tabs EXCEPT ![t] =
                          [old EXCEPT !.phase = "OPENED", !.outcome = old.snapshot.receipt]]
    <2>1. PICK new : new = [old EXCEPT !.phase = "OPENED", !.outcome = old.snapshot.receipt]
        OBVIOUS
    <2>2. new \in Tab /\ Fine(new)
        <3>1. \E r \in receipts :
                /\ r.run = old.snapshot.receipt /\ r.submission = old.submission
                /\ \A s \in receipts : s.run = old.previous => s.startedAt < r.startedAt
            BY <1>2, <1>5, NewsIsNewer
        <3> QED BY <1>2, <2>1, <3>1, PhaseMoves
    <2> QED BY <1>2, <1>5, <2>1, <2>2, TabMoves
<1>6. CASE /\ ~Status!News(old) /\ ~Status!GoesOn(old)
           /\ tabs' = [tabs EXCEPT ![t] = Status!Stopped(old)]
    <2>1. CASE old.kind = "verify"
        <3>1. PICK new : new = [old EXCEPT !.phase = "STOPPED", !.outcome = old.outcome]
            OBVIOUS
        <3>2. new = Status!Stopped(old)
            BY <1>2, <2>1, <3>1 DEF Tab, Status!Stopped
        <3>3. Settled /\ \E r \in receipts : r.run = old.previous /\ IsNewest(r)
            BY <1>2, <1>6, <2>1, NoNewsIsFinal
        <3>4. new \in Tab /\ Fine(new)
            BY <1>2, <3>1, <3>3, PhaseMoves
        <3> QED BY <1>2, <1>6, <3>2, <3>4, TabMoves
    <2>2. CASE old.kind # "verify"
        <3>1. PICK new : new = [Status!Closed EXCEPT !.phase = "RENDERING"]
            OBVIOUS
        <3>2. new = Status!Stopped(old)
            BY <2>2, <3>1 DEF Status!Stopped
        <3>3. new \in Tab /\ Fine(new)
            BY <3>1, RenderingIsFine DEF TabInv
        <3> QED BY <1>2, <1>6, <3>2, <3>3, TabMoves
    <2> QED BY <2>1, <2>2
<1> QED BY <1>3, <1>4, <1>5, <1>6

-----------------------------------------------------------------------------
(* Steps of the server action *)

LEMMA VerifyKeeps ==
    ASSUME TabInv, NEW t \in Tabs, NEW run \in TabRuns, Status!Verify(t, run)
    PROVE  TabInv'
<1>1. PICK old : old = tabs[t]
    OBVIOUS
<1>2. PICK new : new = [old EXCEPT !.phase = "WAITING", !.run = run]
    OBVIOUS
<1>3. PICK q : q = [run |-> run, submission |-> old.submission, begun |-> FALSE]
    OBVIOUS
<1>4. /\ old \in Tab /\ Fine(old) /\ old.phase = "OFFERED"
      /\ executing' = executing \cup {q} /\ Status!FreshRun(run)
      /\ UNCHANGED <<pacts, submissions, completions, receipts, now>>
    BY <1>1, <1>3 DEF TabInv, TabTypes, Open, Status!Verify, Status!storeVars
<1>5. tabs' = [tabs EXCEPT ![t] = new]
    BY <1>1, <1>2, <1>4 DEF Status!Verify, TabInv, TabTypes
<1>6. /\ new \in Tab /\ new.phase = "WAITING" /\ new.run = run
      /\ new.submission = old.submission /\ new.previous = old.previous
    BY <1>2, <1>4 DEF Tab, RunOrNone
<1>7. /\ \A r \in Ran : r.run # run
      /\ \A p \in executing : p.run # run
      /\ \A tab \in Open : tab.run # run
    BY <1>4 DEF Status!FreshRun, Ran, Open
<1>8. /\ q \in Call /\ q.run = run /\ q.submission = old.submission /\ ~q.begun
      /\ Ran' = Ran /\ Working' = Working
      /\ Latest(Shown)' = Latest(Shown) /\ ShownStatus' = ShownStatus
    BY <1>3, <1>4 DEF Call, Tab, Ran, Working, Latest, ShownStatus
<1>9. TabTypes' /\ Delivered' /\ OneCall' /\ SettledByNewest'
    <2>1. tabs' \in [Tabs -> Tab]
        BY <1>5, <1>6 DEF TabInv, TabTypes
    <2> QED BY <1>4, <1>8, <2>1 DEF TabInv, TabTypes, Delivered, OneCall, SettledByNewest,
                                    Settled, IsNewest
<1>10. CallsDiffer'
    BY <1>4, <1>7, <1>8 DEF TabInv, CallsDiffer
<1>11. ASSUME NEW tab \in Tab, Knows(tab), Polled(tab), Told(tab)
       PROVE  Knows(tab)' /\ Polled(tab)' /\ Told(tab)'
    BY <1>4, <1>8, <1>11 DEF Knows, Polled, Told, Settled, IsNewest, NotOlder
<1>12. ASSUME NEW tab \in Open PROVE tab \in Tab /\ Fine(tab)'
    <2>1. tab \in Tab /\ Fine(tab)
        BY DEF TabInv, TabTypes, Open
    <2>2. Started(tab)'
        BY <1>4, <1>7, <1>8, <2>1 DEF Fine, Started
    <2> QED BY <1>11, <2>1, <2>2 DEF Fine
<1>13. Fine(new)'
    <2>1. Knows(new) /\ Polled(new) /\ Told(new)
        BY <1>4, <1>6 DEF Fine, Knows, Polled, Told
    <2>2. Started(new)'
        BY <1>4, <1>6, <1>7, <1>8 DEF Started
    <2> QED BY <1>6, <1>11, <2>1, <2>2 DEF Fine
<1>14. \A tab \in Open' : tab \in Open \/ tab = new
    BY <1>5 DEF Open, TabInv, TabTypes
<1> QED BY <1>9, <1>10, <1>12, <1>13, <1>14 DEF TabInv

LEMMA ActionEnds ==
    ASSUME TabInv, NEW q \in executing, executing' = executing \ {q},
           Status!ErrorShown(q.run), UNCHANGED storeVars
    PROVE  TabInv'
<1>1. \A u \in Tabs : tabs'[u] \in {tabs[u], Status!Closed}
    BY DEF Status!ErrorShown
<1>2. DOMAIN tabs' = Tabs /\ tabs' = [u \in Tabs |-> tabs'[u]]
    BY DEF Status!ErrorShown, TabInv, TabTypes
<1>3. Status!Closed \in Tab /\ Fine(Status!Closed)
    BY ClosedIsFine DEF TabInv
<1>4. tabs' \in [Tabs -> Tab]
    BY <1>1, <1>2, <1>3 DEF TabInv, TabTypes
<1>5. \A tab \in Open' : tab \in Open \/ Fine(tab)
    BY <1>1, <1>3 DEF Open
<1> QED BY <1>4, <1>5, TabsMove

\* The row of the pact moves between statuses that end nothing, nothing is
\* completed, and calls keep what they are about.
LEMMA RowMovesOn ==
    ASSUME TabInv, UNCHANGED <<completions, receipts, now, tabs>>,
           pacts' \in [Pacts -> PactRow], submissions' \in [Pacts -> Seq(Status!Submission)],
           ~Settled, ~Settled', ShownStatus' # "RELEASED",
           Latest(Shown)' >= Latest(Shown),
           Latest(Shown)' > 0 => ShownStatus' \notin NotDelivered,
           executing' \subseteq Call, OneCall',
           \A q \in executing' : \E p \in executing : p.run = q.run /\ p.submission = q.submission,
           \A q, p \in executing' : q.run = p.run => q = p
    PROVE  TabInv'
<1>1. Ran' = Ran /\ Open' = Open
    BY DEF Ran, Open
<1>2. TabTypes' /\ Delivered' /\ SettledByNewest'
    BY <1>1 DEF TabInv, TabTypes, Delivered, SettledByNewest
<1>3. CallsDiffer'
    BY <1>1 DEF TabInv, CallsDiffer
<1>4. Latest(Shown) \in Nat /\ Latest(Shown)' \in Nat
    BY <1>2, TabAssumption DEF TabInv, TabTypes, Latest
<1>5. ASSUME NEW tab \in Open PROVE Fine(tab)'
    <2>1. tab \in Tab /\ Fine(tab)
        BY DEF TabInv, TabTypes, Open
    <2>2. receipts' \subseteq Ran
        BY DEF Ran
    <2> QED BY <1>1, <1>4, <2>1, <2>2, FineStays DEF TabInv
<1> QED BY <1>1, <1>2, <1>3, <1>5 DEF TabInv

LEMMA ActionBeginsKeeps ==
    ASSUME TabInv, NEW q \in executing, Status!ActionBegins(q)
    PROVE  TabInv'
<1>1. PICK b : b = [q EXCEPT !.begun = TRUE]
    OBVIOUS
<1>2. /\ Status!Verifiable(Shown) /\ q.submission = Latest(Shown)
      /\ pacts' = [pacts EXCEPT ![Shown] = Status!WithStatus(pacts[Shown], "VERIFYING")]
      /\ executing' = (executing \ {q}) \cup {b}
      /\ UNCHANGED <<submissions, completions, receipts, now, tabs>>
    BY <1>1 DEF Status!ActionBegins, Status!BeginVerification, Status!Latest, Latest
<1>3. q \in Call /\ b \in Call /\ b.run = q.run /\ b.submission = q.submission /\ b.begun
    BY <1>1 DEF TabInv, TabTypes, Call
<1>4. pacts' \in [Pacts -> PactRow] /\ ShownStatus' = "VERIFYING"
    BY <1>2, TabAssumption DEF TabInv, TabTypes, Status!WithStatus, PactRow, PactStatus,
                               ShownStatus
<1>5. ShownStatus \in {"SUBMITTED", "HELD"}
    BY <1>2 DEF Status!Verifiable, ShownStatus
<1>6. Working = {}
    BY <1>5 DEF TabInv, OneCall
<1>7. Working' = {b} /\ Latest(Shown)' = Latest(Shown)
    BY <1>2, <1>3, <1>6 DEF Working, Latest
<1>8. OneCall'
    BY <1>2, <1>3, <1>4, <1>7 DEF OneCall
<1>9. /\ executing' \subseteq Call
      /\ \A p \in executing' : \E o \in executing : o.run = p.run /\ o.submission = p.submission
      /\ \A p, o \in executing' : p.run = o.run => p = o
    BY <1>2, <1>3 DEF TabInv, TabTypes, CallsDiffer
<1>10. Latest(Shown)' >= Latest(Shown)
    BY <1>7, TabAssumption DEF TabInv, TabTypes, Latest
<1> QED BY <1>2, <1>4, <1>5, <1>8, <1>9, <1>10, RowMovesOn DEF TabInv, TabTypes, Settled,
                                                             NotDelivered

LEMMA ActionDecidesKeeps ==
    ASSUME TabInv, NEW q \in executing, NEW decision \in SettlementDecision,
           Status!ActionDecides(q, decision)
    PROVE  TabInv'
<1>1. PICK c : c = [pact |-> Shown, submission |-> q.submission, run |-> q.run, key |-> q.run,
                    decision |-> decision, sharedMiner |-> FALSE, startedAt |-> now + 1]
    OBVIOUS
<1>2. /\ q.begun /\ q \in Working /\ now' = now + 1 /\ completions' = completions \cup {c}
      /\ executing' = executing \ {q}
      /\ UNCHANGED <<pacts, submissions, receipts, tabs>>
    BY <1>1 DEF Status!ActionDecides, Status!StartCompletion, Working
<1>3. /\ c.pact = Shown /\ c.submission = q.submission /\ c.run = q.run
      /\ c.decision = decision /\ c.startedAt = now + 1
    BY <1>1
<1>4. q \in Call /\ now \in Nat /\ \A r \in Ran : r.startedAt \in 1..now
    BY DEF TabInv, TabTypes
<1>5. completions = {} /\ Working = {q}
    <2>1. \A d \in Working : d = q
        BY <1>2 DEF TabInv, OneCall
    <2>2. q \notin completions
        BY DEF TabInv, CallsDiffer, Ran
    <2> QED BY <1>2, <2>1, <2>2 DEF Working
<1>6. /\ Ran' = Ran \cup {c} /\ Working' = {c} /\ Open' = Open
      /\ Latest(Shown)' = Latest(Shown) /\ ShownStatus' = ShownStatus
    BY <1>2, <1>5 DEF Ran, Working, Open, Latest, ShownStatus
<1>7. TabTypes'
    BY <1>2, <1>3, <1>4, <1>6 DEF TabInv, TabTypes, Call
<1>8. OneCall'
    BY <1>2, <1>3, <1>6 DEF TabInv, OneCall
<1>9. CallsDiffer'
    BY <1>2, <1>3, <1>4, <1>5, <1>6 DEF TabInv, CallsDiffer, Ran
<1>10. Delivered' /\ SettledByNewest'
    BY <1>2, <1>6 DEF TabInv, Delivered, SettledByNewest, Settled, IsNewest
<1>11. ASSUME NEW tab \in Open PROVE Fine(tab)'
    <2>1. tab \in Tab /\ Fine(tab)
        BY DEF TabInv, TabTypes, Open
    <2>2. receipts' \subseteq Ran /\ receipts' = receipts
        BY <1>2 DEF Ran
    <2>3. \A r \in Ran' \ Ran :
            /\ \E p \in executing : p.run = r.run /\ p.submission = r.submission
            /\ \A s \in receipts' : s.startedAt < r.startedAt
        BY <1>2, <1>3, <1>4, <1>6 DEF Ran
    <2>4. Latest(Shown) \in Nat /\ Latest(Shown)' \in Nat /\ Latest(Shown)' >= Latest(Shown)
        BY <1>6, TabAssumption DEF TabInv, TabTypes, Latest
    <2>5. Settled => Settled' /\ Latest(Shown)' = Latest(Shown) /\ receipts' = receipts
        BY <1>6, <2>2 DEF Settled
    <2> QED BY <1>2, <2>1, <2>2, <2>3, <2>4, <2>5, FineStays DEF TabInv
<1> QED BY <1>6, <1>7, <1>8, <1>9, <1>10, <1>11 DEF TabInv

LEMMA CommitIsNews ==
    ASSUME TabInv, NEW c \in completions, Status!CompletionCommits(c)
    PROVE  TabInv'
<1>1. /\ completions' = completions \ {c} /\ receipts' = receipts \cup {c}
      /\ pacts' = [pacts EXCEPT ![c.pact] =
                        Status!WithStatus(pacts[c.pact], Status!StatusFor(c.decision))]
      /\ UNCHANGED <<submissions, now, tabs, executing>>
    BY DEF Status!CompletionCommits, Status!CommitCompletion
<1>2. /\ c.pact = Shown /\ c.decision \in SettlementDecision
      /\ ShownStatus = "VERIFYING" /\ c.submission = Latest(Shown) /\ Working = {c}
    BY DEF TabInv, TabTypes, OneCall, Ran, Working
<1>3. Status!StatusFor(c.decision) \in {"APPROVED", "REJECTED", "HELD"}
    BY <1>2 DEF Status!StatusFor, SettlementDecision
<1>4. pacts' \in [Pacts -> PactRow] /\ ShownStatus' \in {"APPROVED", "REJECTED", "HELD"}
    BY <1>1, <1>2, <1>3, TabAssumption DEF TabInv, TabTypes, Status!WithStatus, PactRow,
                                           PactStatus, ShownStatus
<1>5. c \notin executing
    BY DEF TabInv, CallsDiffer, Ran
<1>6. /\ Ran' = Ran /\ Working' = {} /\ completions' = {} /\ Open' = Open
      /\ Latest(Shown)' = Latest(Shown)
    BY <1>1, <1>2, <1>5 DEF Ran, Working, Open, Latest
<1>7. TabTypes' /\ Delivered' /\ OneCall' /\ CallsDiffer'
    BY <1>1, <1>4, <1>6 DEF TabInv, TabTypes, Delivered, NotDelivered, OneCall, CallsDiffer
<1>8. SettledByNewest'
    <2>1. \A s \in receipts : s.startedAt < c.startedAt
        BY DEF TabInv, CallsDiffer
    <2>2. \A s \in Ran : s.startedAt \in Nat
        BY DEF TabInv, TabTypes
    <2> QED BY <1>1, <1>2, <1>6, <2>1, <2>2 DEF SettledByNewest, IsNewest, Ran
<1>9. ASSUME NEW tab \in Open PROVE Fine(tab)'
    <2>1. tab \in Tab /\ Fine(tab)
        BY DEF TabInv, TabTypes, Open
    <2>2. receipts \subseteq receipts' /\ receipts' \subseteq Ran
        BY <1>1 DEF Ran
    <2>3. Latest(Shown) \in Nat /\ Latest(Shown)' \in Nat /\ Latest(Shown)' >= Latest(Shown)
        BY <1>6, TabAssumption DEF TabInv, TabTypes, Latest
    <2>4. ~Settled
        BY <1>2 DEF Settled
    <2> QED BY <1>1, <1>6, <2>1, <2>2, <2>3, <2>4, FineStays DEF TabInv
<1> QED BY <1>6, <1>7, <1>8, <1>9 DEF TabInv

-----------------------------------------------------------------------------
(* Every step of the tabs' client *)

LEMMA RowKeeps ==
    ASSUME TabInv, UNCHANGED <<completions, receipts, now, tabs, executing>>,
           ShownStatus \in {"NONE", "DRAFT", "FUNDED", "SUBMITTED", "HELD"},
           NEW row \in PactRow, pacts' = [pacts EXCEPT ![Shown] = row],
           row.status \in {"DRAFT", "FUNDED", "SUBMITTED", "HELD"},
           submissions' \in [Pacts -> Seq(Status!Submission)],
           Latest(Shown)' >= Latest(Shown),
           row.status \in NotDelivered => ShownStatus \in NotDelivered /\ submissions' = submissions
    PROVE  TabInv'
<1>1. pacts' \in [Pacts -> PactRow] /\ ShownStatus' = row.status
    BY TabAssumption DEF TabInv, TabTypes, ShownStatus
<1>2. Working = {} /\ Working' = {}
    BY DEF TabInv, OneCall, Working
<1>3. OneCall' /\ ~Settled /\ ~Settled' /\ ShownStatus' # "RELEASED"
    BY <1>1, <1>2 DEF OneCall, Settled
<1>4. Latest(Shown)' > 0 => ShownStatus' \notin NotDelivered
    BY <1>1 DEF TabInv, Delivered, Latest
<1>5. /\ executing' \subseteq Call
      /\ \A q \in executing' : \E p \in executing : p.run = q.run /\ p.submission = q.submission
      /\ \A q, p \in executing' : q.run = p.run => q = p
    BY DEF TabInv, TabTypes, CallsDiffer
<1> QED BY <1>1, <1>3, <1>4, <1>5, RowMovesOn

LEMMA TabStep == TabInv /\ Status!StatusNext => TabInv'
<1> SUFFICES ASSUME TabInv, Status!StatusNext PROVE TabInv'
    OBVIOUS
<1>0. /\ pacts \in [Pacts -> PactRow] /\ pacts[Shown] \in PactRow /\ Shown \in Pacts
      /\ submissions \in [Pacts -> Seq(Status!Submission)]
      /\ Latest(Shown) \in Nat
    BY TabAssumption DEF TabInv, TabTypes, Latest
<1>1. ASSUME NEW requester \in Parties, NEW worker \in Parties,
             Status!CreatePact(Shown, requester, worker), UNCHANGED <<tabs, executing>>
      PROVE  TabInv'
    <2>1. PICK row : row = [status |-> "DRAFT", requester |-> requester, worker |-> worker,
                            evidence |-> None]
        OBVIOUS
    <2>2. row \in PactRow /\ row.status = "DRAFT"
        BY <2>1 DEF PactRow, PactStatus
    <2>3. /\ ShownStatus = "NONE" /\ pacts' = [pacts EXCEPT ![Shown] = row]
          /\ UNCHANGED <<submissions, completions, receipts, now>>
        BY <1>1, <2>1 DEF Status!CreatePact, ShownStatus
    <2>4. submissions' = submissions /\ Latest(Shown)' >= Latest(Shown)
        BY <1>0, <2>3 DEF Latest
    <2> QED BY <1>0, <1>1, <2>2, <2>3, <2>4, RowKeeps DEF NotDelivered
<1>2. ASSUME NEW funding \in FundingEvidence, Status!ConfirmFunding(Shown, funding),
             UNCHANGED <<tabs, executing>>
      PROVE  TabInv'
    <2>1. PICK row : row = Status!Funded(pacts[Shown], funding)
        OBVIOUS
    <2>2. row \in PactRow /\ row.status = "FUNDED"
        BY <1>0, <2>1 DEF Status!Funded, PactRow, PactStatus
    <2>3. /\ ShownStatus = "DRAFT" /\ pacts' = [pacts EXCEPT ![Shown] = row]
          /\ UNCHANGED <<submissions, completions, receipts, now>>
        BY <1>2, <2>1 DEF Status!ConfirmFunding, Status!Fundable, ShownStatus
    <2>4. submissions' = submissions /\ Latest(Shown)' >= Latest(Shown)
        BY <1>0, <2>3 DEF Latest
    <2> QED BY <1>0, <1>2, <2>2, <2>3, <2>4, RowKeeps DEF NotDelivered
<1>3. ASSUME NEW by \in Parties, NEW key \in TabKeys, NEW artifact \in Artifacts,
             Status!CreateSubmission(Shown, by, key, artifact), UNCHANGED <<tabs, executing>>
      PROVE  TabInv'
    <2>1. PICK row : row = Status!WithStatus(pacts[Shown], "SUBMITTED")
        OBVIOUS
    <2>2. row \in PactRow /\ row.status = "SUBMITTED"
        BY <1>0, <2>1 DEF Status!WithStatus, PactRow, PactStatus
    <2>3. PICK e : e = [key |-> key, artifact |-> artifact]
        OBVIOUS
    <2>4. e \in Status!Submission
        BY <2>3 DEF Status!Submission
    <2>5. /\ ShownStatus \in {"FUNDED", "HELD"} /\ pacts' = [pacts EXCEPT ![Shown] = row]
          /\ submissions' = [submissions EXCEPT ![Shown] = Append(submissions[Shown], e)]
          /\ UNCHANGED <<completions, receipts, now>>
        BY <1>3, <2>1, <2>3 DEF Status!CreateSubmission, Status!TakesEvidence, ShownStatus
    <2>6. /\ Append(submissions[Shown], e) \in Seq(Status!Submission)
          /\ Len(Append(submissions[Shown], e)) = Len(submissions[Shown]) + 1
        BY <1>0, <2>4
    <2>7. submissions' \in [Pacts -> Seq(Status!Submission)]
        BY <1>0, <2>5, <2>6
    <2>8. Latest(Shown)' >= Latest(Shown)
        BY <1>0, <2>5, <2>6 DEF Latest
    <2> QED BY <1>3, <2>2, <2>5, <2>7, <2>8, RowKeeps DEF NotDelivered
<1>4. ASSUME NEW by \in Parties, NEW key \in ChangeKeys,
             Status!CreateChangeRequest(Shown, by, Status!Latest(Shown), key),
             UNCHANGED <<tabs, executing>>
      PROVE  TabInv'
    <2>1. PICK row : row = Status!WithStatus(pacts[Shown], "HELD")
        OBVIOUS
    <2>2. row \in PactRow /\ row.status = "HELD"
        BY <1>0, <2>1 DEF Status!WithStatus, PactRow, PactStatus
    <2>3. /\ ShownStatus = "SUBMITTED" /\ pacts' = [pacts EXCEPT ![Shown] = row]
          /\ UNCHANGED <<submissions, completions, receipts, now>>
        BY <1>4, <2>1 DEF Status!CreateChangeRequest, ShownStatus
    <2>4. submissions' = submissions /\ Latest(Shown)' >= Latest(Shown)
        BY <1>0, <2>3 DEF Latest
    <2> QED BY <1>0, <1>4, <2>2, <2>3, <2>4, RowKeeps DEF NotDelivered
<1>5. ASSUME NEW t \in Tabs,
             \/ Status!Load(t) \/ Status!Read(t) \/ Status!Rendered(t)
             \/ \E run \in TabRuns : Status!Verify(t, run)
             \/ Status!Poll(t) \/ Status!PollAnswered(t) \/ Status!PollBreaks(t)
             \/ Status!TimesOut(t) \/ Status!ActionAnswered(t)
      PROVE  TabInv'
    BY <1>5, LoadKeeps, ReadKeeps, RenderedKeeps, VerifyKeeps, PollKeeps, PollAnsweredKeeps,
       PollBreaksKeeps, TimesOutKeeps, ActionAnsweredKeeps
<1>6. ASSUME NEW q \in executing,
             \/ Status!ActionBegins(q) \/ Status!ActionRefused(q) \/ Status!ActionFails(q)
             \/ \E decision \in SettlementDecision : Status!ActionDecides(q, decision)
      PROVE  TabInv'
    BY <1>6, ActionEnds, ActionBeginsKeeps, ActionDecidesKeeps
       DEF Status!ActionRefused, Status!ActionFails, Status!storeVars, storeVars
<1>7. Status!SettlementDecision = SettlementDecision
      /\ Status!FundingEvidence = FundingEvidence
    BY DEF Status!SettlementDecision, SettlementDecision, Status!FundingEvidence, FundingEvidence
<1> QED BY <1>1, <1>2, <1>3, <1>4, <1>5, <1>6, <1>7, CommitIsNews DEF Status!StatusNext

\* Who composes opens no tabs.
TabsInv == IF client = "TABS" THEN TabInv
           ELSE client = "COMPOSITION" /\ \A t \in Tabs : tabs[t] = Status!Closed

LEMMA TabsHold == ClientSpec => []TabsInv
<1>1. ClientInit => TabsInv
    <2> SUFFICES ASSUME ClientInit PROVE TabsInv
        OBVIOUS
    <2>1. client \in {"COMPOSITION", "TABS"} /\ \A t \in Tabs : tabs[t] = Status!Closed
        BY DEF ClientInit, Status!StatusInit
    <2> QED BY <2>1, TabsStart DEF TabsInv
<1>2. TabsInv /\ [ClientNext]_clientVars => TabsInv'
    <2> SUFFICES ASSUME TabsInv, [ClientNext]_clientVars PROVE TabsInv'
        OBVIOUS
    <2>1. CASE client = "COMPOSITION" /\ UNCHANGED <<client, tabs>>
        BY <2>1 DEF TabsInv
    <2>2. CASE client = "TABS" /\ Status!StatusNext /\ UNCHANGED client
        BY <2>2, TabStep DEF TabsInv
    <2>3. CASE client = "TABS" /\ UNCHANGED clientVars
        <3>1. TabInv /\ UNCHANGED <<client, storeVars, tabs, executing>>
            BY <2>3 DEF TabsInv, clientVars, compositionVars
        <3>2. tabs' \in [Tabs -> Tab] /\ Open' = Open
            BY <3>1 DEF TabInv, TabTypes, Open
        <3>3. TabInv'
            BY <3>1, <3>2, TabsMove
        <3> QED BY <2>3, <3>1, <3>3 DEF TabsInv
    <2>4. client \in {"TABS", "COMPOSITION"}
        BY DEF TabsInv
    <2> QED BY <2>1, <2>2, <2>3, <2>4 DEF ClientNext, clientVars
<1> QED BY <1>1, <1>2, PTL DEF ClientSpec

\* A tab that says a verification stopped without a receipt is right.
THEOREM StoppedTabsAreRight == ClientSpec => []TabStopsWithoutReceipt
<1>1. TabsInv => TabStopsWithoutReceipt
    <2> SUFFICES ASSUME TabsInv, NEW t \in Tabs, tabs[t].phase = "STOPPED",
                        NEW s \in Status!NewReceipts(tabs[t])
                 PROVE  FALSE
        BY DEF TabStopsWithoutReceipt, Status!StoppedMeansNoReceipt
    <2>1. TabInv /\ tabs[t] \in Open
        BY DEF TabsInv, Open, Status!Closed
    <2>2. PICK r \in receipts : r.run = tabs[t].previous /\ IsNewest(r)
        BY <2>1 DEF TabInv, Fine, Told
    <2>3. r.run # None /\ Status!ReceiptOf(r.run) = r
        BY <2>1, UniqueReceipt, TabAssumption DEF TabInv, TabTypes, Ran
    <2>4. s \in receipts /\ s.startedAt > r.startedAt
        BY <2>2, <2>3 DEF Status!NewReceipts
    <2>5. s.startedAt <= r.startedAt /\ s.startedAt \in Nat /\ r.startedAt \in Nat
        BY <2>1, <2>2, <2>4 DEF IsNewest, TabInv, TabTypes, Ran
    <2> QED BY <2>4, <2>5
<1> QED BY <1>1, TabsHold, PTL

\* The outcome a tab opens is a newer receipt of the delivery it showed.
THEOREM OutcomesAreNews == ClientSpec => []TabOutcomeIsNews
<1>1. TabsInv => TabOutcomeIsNews
    <2> SUFFICES ASSUME TabsInv, NEW t \in Tabs, tabs[t].phase = "OPENED"
                 PROVE  \E r \in Status!NewReceipts(tabs[t]) : r.run = tabs[t].outcome
        BY DEF TabOutcomeIsNews, Status!OutcomeIsNews
    <2>1. TabInv /\ tabs[t] \in Open
        BY DEF TabsInv, Open, Status!Closed
    <2>2. PICK r \in receipts :
                /\ r.run = tabs[t].outcome /\ r.submission = tabs[t].submission
                /\ \A s \in receipts : s.run = tabs[t].previous => s.startedAt < r.startedAt
        BY <2>1 DEF TabInv, Fine, Told
    <2>3. ASSUME tabs[t].previous # None
          PROVE  r.startedAt > Status!ReceiptOf(tabs[t].previous).startedAt
        <3>1. PICK s \in receipts : s.run = tabs[t].previous
            BY <2>1, <2>3 DEF TabInv, Fine, Knows
        <3>2. Status!ReceiptOf(tabs[t].previous) = s
            BY <2>1, <3>1, UniqueReceipt DEF TabInv
        <3>3. s.startedAt \in Nat /\ r.startedAt \in Nat /\ s.startedAt < r.startedAt
            BY <2>1, <2>2, <3>1 DEF TabInv, TabTypes, Ran
        <3> QED BY <3>2, <3>3
    <2>4. r \in Status!NewReceipts(tabs[t])
        BY <2>2, <2>3 DEF Status!NewReceipts
    <2> QED BY <2>2, <2>4
<1> QED BY <1>1, TabsHold, PTL

=============================================================================
