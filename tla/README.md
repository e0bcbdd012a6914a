# Verification of ProofPact

ProofPact pays a worker for a delivery when independent verifiers, themselves
paid per question, agree that the delivery is good. Money is in two places (the
reward in an escrow contract on Base Sepolia, the verification budget in the
server's x402 wallet), the truth about a pact is in three (the contract, a
Postgres database, a browser tab), and several parties act on them without
waiting for each other. This directory holds TLA+ models of that system, TLC
runs that check them on small instances, and TLAPS proofs of the results that
matter most for instances of any size.

Paths below are relative to the repository. `tlc -config <cfg> <module>` repeats
a run, `tlapm <module>.tla` a proof; `PROJECT.json` lists runs, theorems,
hazards, and the source lines of every definition.

## 1. The system

### Components

**Escrow contract** (`contracts/src/ProofPactEscrow.sol`). State: owner, pending
owner, authorizer, one slot per pact id, nonces used per signer, the reentrancy
lock, token balances. Operations: `fundPact`, `settle` (an EIP-712 permit of the
authorizer), `refundExpired` (anyone, after the refund time), `setAuthorizer`,
`transferOwnership`, `acceptOwnership`. Hard: the token is called in the middle
of three functions and may call back; a token may deliver less than asked;
authorizers rotate while nonces are counted per signer; settle and refund race.
Correct when each deposit is paid once, in full, to the right party, deposits
are always covered, and no deposit is locked for ever.

**Pact store** (`infrastructure/persistence/postgres-pact-store.ts`,
`postgres-settlement-event-store.ts`, migrations 003-006). State: tables of pacts,
submissions, verification runs with receipts, change requests, settlement events.
Operations: create, confirm funding, submit, request changes, begin and complete
a verification, append and confirm a settlement. Submissions, change requests,
funding and the begin of a verification lock the pact row for their transaction;
`createPact` and the settlement events rest on one guarded insert, and
`completeVerification` looks for an earlier receipt before it locks anything. Hard:
concurrent calls with one idempotency key,
timestamps that order transactions by their begin and not their commit,
uniqueness across pacts. Correct when every status has its reason on record,
keys name one thing, and history never changes.

**Server actions** (`app/app/jobs/[jobId]/actions.ts`, `app/app/jobs/new/actions.ts`)
and **operator scripts** (`scripts/execute-secure-delivery-service.ts`,
`recover-stalled-verification.ts`, `reconcile-pact-funding.ts`). They keep no
state of their own but carry what they read across awaits: calls to the
database, to Base, to GitHub, to the paid engine. Hard: every write may rest on a
stale read; a process may die between begin and completion. Correct when money
moves only on a RELEASE of the newest delivery, and the books agree with Base.

**Settlement policy** (`features/settlement/domain/`). Pure: signals to RELEASE,
HOLD, RETRY or REJECT. Hard: the order of signals, repeated miners, doubtful
answers. Correct when a release is earned and more evidence never softens it.

**Paid verification run** and **paid fraud run**
(`features/verification/application/run-paid-*.ts`). State: the loops over
intents and attempts, records, authorized and settled units; every step is
appended to an attempt ledger. Hard: a payment may settle although its answer
was lost, an append may fail before or after it took effect, a miner may repeat
itself. Correct when spending stays under the ceiling whatever is lost, no
transfer happens without its authority on record, and no answer is dropped.

**x402 payment** (`infrastructure/x402/`). Challenge gate, signature, and the
reconciliation of a payment whose answer was lost: it looks for the transfer on
the chain and, once the authorization has expired, declares it unsettled. Hard:
three clocks (authorization, signature, block), payments told apart by amount
and time only, a challenge requested twice. Correct when a payment declared
unsettled never settles, since it is then paid again.

**Fresh-evidence composition** (`features/verification/application/fresh-evidence-composer.ts`,
`scripts/compose-fresh-secure-delivery.ts`). Puts together passing answers of
earlier receipts and completes a verification with them. Hard: it reads, works
for long, begins and completes, beside the application. Correct when it cannot
turn a failure into a payment.

**Verification status** (`app/api/pacts/[pactId]/verification-status/route.ts`,
`verify-delivery.tsx`, `verification-progress.tsx`). Tabs poll three unlocked
reads beside a long server action. Correct when a tab never mistakes an old
receipt for its outcome and never reports a stop that was a verdict.

**Telegraph engine client** (`infrastructure/telegraph/engine-client.ts`). No state:
`ask` turns every response into an answer or an error with a diagnosis of the
payment. Hard: two payment headers and a body that may be missing, oversized,
garbled or broken off, in every combination. Correct when silence about a
settlement is not taken for a denial, since a denied payment is paid again.

**Result normalisation** (`features/verification/application/routed-result-normalizer.ts`,
`prose-normalizer.ts`, `infrastructure/telegraph/miner-signal-map.ts`). Pure: a
miner's JSON, or its prose, to a verdict with a confidence. Hard: envelopes with
verdicts of their own, mappings that come from a catalog which may be unread,
confidences that are missing or out of range, a language model's reply. Correct
when no pass is made of an answer that states none, and no failure is lost.

**Signed authorizations** (`features/verification/domain/requester-verification-authorization.ts`,
`features/jobs/domain/`). The requester signs for one pact and one delivery; the
worker and the change request sign theirs. Hard: what is signed was read before
the action that uses it. Correct when a run is for the delivery that was signed.

**MCP server** (`mcp/application.ts`). Drafts a pact, prepares messages for
signature, reads. Its draft goes through the same `createPact`.

**Request building, source provenance, canonical JSON, deployment and audit
scripts, user interface**: section 7.

### How they interact

```
 wallets, tabs --calls--> server actions --SQL--> pact store <--SQL-- operator scripts
      |                        |                                         |
      | transactions           | permit (EIP-712)      composition ------+
      v                        v
   escrow on Base         paid run --append--> attempt ledger
      ^                     |   \--engine client, x402--> Telegraph, facilitator
      |                     v
   funding and release   answers --> normalisation --> signals
   confirmations            --> settlement policy --> receipt --> pact store
```

Calls are awaited; there are no queues. Concurrency comes from several requests,
tabs and scripts at once, from the chain moving on its own, and from payments
that settle after the call that made them has failed.

## 2. The modules

| Module | Models | State that corresponds |
| --- | --- | --- |
| `PactEscrowLedger` | abstract: what everyone relies on of the escrow | agreements, payout events |
| `ProofPactEscrow` | the Solidity contract | storage, `balance`, `frames` (calls inside the token), `now` |
| `PactStore` | the database | one variable per table, `completions` (open transactions), `now` |
| `PactWorkflow` | server actions, scripts, chain, over `PactStore` and an instance of `PactEscrowLedger` | `submitting`, `preparing`, `executors`, `recovering`: what an action holds across an await; `authorizations`, `permits`: signatures at large |
| `SettlementPolicy` | the pure policy and policy packs | none |
| `SignalIntake` | the policy over a growing list of signals | `signals` |
| `ResultNormalization` | from a miner's result to verdict and confidence | none |
| `AnswerIntake` | answers through `ResultNormalization` into `SignalIntake` | `signals` |
| `EngineClient` | every response of the engine and the error it becomes | none |
| `PaidVerificationRun` | `run-paid-secure-delivery.ts`, over `SettlementPolicy` and `EngineClient` | both loops, `records`, units, `trail` (ledger of this attempt), chain side |
| `PaidFraudRun` | `run-paid-fraud-verification.ts`, over `EngineClient` | the same for the fraud run |
| `X402Payment` | authorize, sign, settle, reconcile, in time | per payment: what was authorized, what was signed, and three times |
| `EvidenceComposition` | the composer and its script, over `PactStore` | `evidence`, `verifying`, `composing` |
| `VerificationStatus` | tabs and the status route, over `PactStore` | `tabs`, `executing` |
| `PaidRuns` | either paid run, or the payments behind both, for one TLC run | `program`: which of the three |
| `StoreClients` | either compositions or tabs beside the store | `client`: which of the two |
| `MC...` | TLC instances | |
| `...Proofs` | theorems | |

Conventions. A database transaction that locks the row it writes, or is decided by
one insert under a unique key, is one action. `completeVerification` is two: `StartCompletion` takes its timestamp and looks
for a receipt, `CommitCompletion` writes (or `AbortCompletion` gives up). A call that is refused, or returns
what is already there, changes nothing and is no step. A server action is one
step per read and write when what it read may be stale at its write
(`SubmitEvidenceReads` / `SubmitEvidenceWrites`, `PrepareReleaseReads` /
`PrepareReleaseSigns`, the four steps of an executor); it is one step when its
write checks again all that its reads checked. A contract function that calls
the token is two actions, with any other call allowed in between; a revert
restores the state saved in the frame. Names of the source are kept, with a
capital letter.

Abstractions that matter to what is shown:

- Hashes and signatures are values: injective, unforgeable. A signed message is a
  guard naming who signs what. Idempotency keys, runs and receipts are named by
  one value where the code derives one from the other.
- A signal's confidence is whether it reaches `MIN_CONFIDENCE`; before that, in
  `ResultNormalization`, it is in hundredths. A label's value is the class that
  `labelVerdict` puts it in, with one class for text that is in none. Amounts are
  integers of micro-USDC; `usdcUnits` and its floating-point product are not
  modelled.
- A response of the engine is its status, its two payment headers, how its body
  reads and whether its cost and fields are accepted; sizes and hashes are left
  out. The model that reads prose may reply anything, also what is refused.
- A signature of the requester names a pact, a delivery and a nonce; its deadline
  of fifteen minutes is not modelled, so it can be used at any time.
- The chain of `PactWorkflow` is the abstract ledger that the contract is proved
  to implement. Its Base reads are of confirmed events.
- A verification's outcome in `PactWorkflow` is any decision: what the run may
  decide is the matter of `PaidVerificationRun` and `SignalIntake`.
- An answer that is accepted reports as cost what was charged. The two paid runs
  take the challenge they authorize for the one that is signed, and the
  reconciler's verdict for right. `X402Payment` assumes neither: it shows both can
  fail, and when the second does. Server and chain share one clock there.
- `createPact` never receives a funding transaction hash: no caller passes one.
- The reconciler's `LOOKBACK_BLOCKS` and the composer's limit of 100 receipts are
  not modelled; "freshest" is the order in which completions began.
- In `VerificationStatus` the page's fourth query is taken with its rendering.

## 3. The plan

Written in this order, most important first: the escrow and its abstract ledger;
the store; the workflow that composes both; the policy; the paid run over the
policy; the payment underneath it; composition and status polling over the
store; the fraud run; then what lies between a miner and a signal, the engine
client and the normalisation of its answers, and the requester's signatures.
Abstract specifications: `PactEscrowLedger` (implemented by `ProofPactEscrow`,
used by `PactWorkflow`), `PactStore` (implemented by the workflow), and
`SignalIntake` (implemented by `AnswerIntake`); all three are proved. All modules
of this plan exist. What is left:

1. *Model*: the executor of `PactWorkflow` as an abstraction of
   `PaidVerificationRun`, with a refinement; the second stall of a submission,
   after which the fixed key of `recover-stalled-verification.ts:92` leaves no
   recovery; liveness of status polling; deadlines of signatures.
2. *Prove*: every safety and action property that a passing run checks is a
   theorem now. What is left goes with the new models: the refinement of the
   executor, and whatever is then stated of recovery.

## 4. The runs

No constraint cuts a state space: all bounds are constants in the guards. "May
stop" in the table means deadlock checking is off because the bounded model, or
the system itself, legitimately ends.

| Run | States | Instance |
| --- | --- | --- |
| `escrow_settlement` | 19 k | 2 pacts, 1 nonce, 1 amount, fees 0 and 1, 2 tokens, clock 0..2, a rotation of owner and authorizer |
| `store_history` | 437 k | 2 pacts, 2 of each key, run, funding transaction and escrow id, 2 completions; may stop |
| `workflow_web` | 358 k | 1 pact, 2 deliveries, 2 artifacts, 3 runs, 1 signature per delivery, failures and shared miners on; may stop |
| `workflow_operators` | 416 k | 1 pact, 2 deliveries, 2 runs, both scripts, failures on; may stop |
| `workflow_shared_miner` | violation | 2 runs, shared miners, no failures; may stop |
| `workflow_signature` | violation | 2 runs, 1 signature per delivery, no failures; may stop |
| `signal_intake` | 1.1 M | up to 5 of 14 answers to 4 required intents, 2 miners, one id in two spellings; may stop |
| `paid_runs` | 3.7 M | 3 intents with 2 attempts each, or 3 fraud attempts for 2 routes; ceiling 4, prices 1 to 3, every response and failure; or 2 overlapping payments, offers 1 and 2, maximum 1, timeouts 1 and 2, grace and slack 1, clock 0..4 |
| `paid_retry` | violation | as above, the ledger never fails |
| `x402_expiry` | violation | 2 payments one after the other, one offer, timeout 2, grace and slack 1, clock 0..7 |
| `x402_second_challenge` | violation | as above, offers 1 and 2, maximum 1 |
| `store_clients` | 631 k | 1 pact, 2 deliveries, 4 runs, 3 miners, failures on; or 2 tabs, 2 runs, 3 completions; may stop |

**`escrow_settlement`** shows that under reentrancy, short delivery, rotation and
racing refunds a call holds the lock alone and reverts only its own work
(`CallsConsistent`), a nonce of a signer is used once (`NonceConsumedOnce`),
payouts match statuses, the contract is `Solvent` even inside a callback, it
implements the ledger, and a reward never stays if its requester wants it back
(`RewardNeverStuck`). Two pacts share the balance and the one nonce, so that they
compete for both; a second amount or nonce adds no guard that can come out
otherwise. The worker is an account here; an escrow that is its own worker is
covered by the proofs.

**`store_history`** has two pacts compete for every unique column: funding
evidence is complete and never shared, keys are idempotent, each status is
explained by a row, and rows never change.

**`workflow_web`** is the application as deployed. `VerdictsFollowLatestReceipt`:
APPROVED, RELEASED and REJECTED agree with the newest receipt, of the newest
delivery, although receipts are ordered by begin. `MoneyFollowsVerdict`: no
verdict overtakes a permit between the read that approved it and the chain.
`VerifiesWhatWasSigned`: the delivery a run reads is the one its signature
names, although three reads lie between them. `OneRunAtATime`,
`TerminalVerdicts`, and `ReleaseStaysConfirmable`: a payment whose one
confirmation was lost (`release-pact.tsx:32`) is one that `confirmReleaseAction`
would still take, however late it is called and whatever the application has done
meanwhile. That somebody calls it is not shown: nothing in the code does. Two
deliveries and three runs contain a hold, a retry, a remediation and a release
after it.

**`workflow_operators`** adds the scripts, which may run beside the application
and each other. Verdicts can then be overwritten (section 6), and the run shows
what survives: a permit or payment always has a RELEASE receipt of its pact
(`MoneyNeedsReleaseReceipt`), and the books match the chain
(`BooksMatchChain`), also when the escrow is refunded behind the store's back.
Its runs are begun by a script, without a signature: what follows does not
depend on who began a run.

**`signal_intake`** decides on answers. Each of the 14 answers of
`MCAnswerIntake` stands for a form the code treats in a way of its own: a verdict
in an envelope that says nothing or the opposite, without confidence, with one out
of range, with a risk instead; an object at the beginning of a text; a field only
the catalog explains; prose; grades of TLS endpoints, a scan under way. The catalog
may be unread and the language model's reply missing or refused. A release is
earned by confident first words of two miners with no failure (`ReleaseIsEarned`);
a second word changes nothing (`OneWordPerMiner`); REJECT is final, HOLD can only
become REJECT, and a RELEASE can only be held (`DecisionsNeverSoften`); the answer
that tips a decision to RELEASE says somewhere that it passed, and how sure it is,
or is prose (`ReleaseNeedsAStatedPass`); a first word that states a failure
plainly stops a release whatever its envelope says (`StatedFailureStopsRelease`).
Five answers allow a full pack of four with a duplicate.

**`paid_runs`**, policy: what was or may yet be charged stays under the ceiling
(`SpendWithinCeiling`); until it throws, a run never reports less than what
the chain has charged for the payments it kept track of
(`CostIsNeverUnderstated`); no transfer without its authority on record
(`TransfersAreOnRecord`); until it throws, every accepted conclusive
answer is among the run's records (`NoAnswerIsLost`); a miner has one record per
intent and an intent one conclusive record (`RecordsAreIndependent`). A payment is *loose* when the run went on without it
after an explicit `success: false`; recognised or not, it may settle in the
model, and the ceiling holds nevertheless. The reconciler's double count of a
settled payment whose append failed errs on the safe side, so the report is
bounded from below only. Ceiling 4 with six attempts at 1 or 2 makes the ceiling
bind in the middle of an intent. Fraud: the same ceiling
(`FraudSpendWithinCeiling`), and the run asks again or hands over its result only
when the cost it reports is what the chain has charged (`FraudCostIsKnown`). Both
runs see every error `EngineClient` makes of a response that is no answer, and a
reconciler that is right. Payments: how far it is (`FalseExpiryIsExplained`). The
client signs any offer for any timeout and as late as it likes. When a payment
called `EXPIRED_UNSETTLED` is taken nevertheless, another amount was signed than
authorized, or the signature outlives the expiry the reconciler computes by more
than the second a block takes to pass it. Late blocks, slow searches and a second,
equal payment that overlaps the first do not matter.

**`x402_expiry`** and **`x402_second_challenge`** show those two cases happen.
In the first a payment, authorized at 0 with a timeout of 2, is signed after the
grace has been used up, called expired by the first block past the expiry, and
then taken. Nothing bounds the time between the authorization and the signature:
an append to the ledger and a round trip lie in between. In the second the repeated
request is asked a higher price and the client signs it.

**`store_clients`** chooses between two clients. Composition: no delivery is
released of which any run has ever recorded a confident FAIL
(`ComposerRemembersFailures`), and a release rests on answers paid for by runs of
that delivery (`ComposedReleaseIsPaidFor`). Four runs are two that supply evidence,
one that fails, and the composed one. Tabs: one that reports a stop had no receipt
to miss (`TabStopsWithoutReceipt`), and what it opens is a receipt the page did not
have (`TabOutcomeIsNews`). No state holds keys of both clients, so the symmetry
set lets one permutation act on both at once.

Every property of a passing run has a mutant in `PROJECT.json`: a change a bug in
the code might make (a guard dropped, an order swapped, a reset missing), under
which TLC finds that property violated with the run's own configuration. The
variants stand in the modules, each before the definition it replaces.

### Fairness

`LiveSpec` of the escrow: an included transaction runs to its end (weak fairness
of the second halves); blocks keep coming (strong fairness of `Tick`, because
each callback disables it for a moment); a requester who wants a refund gets the
call included (strong fairness of `RefundExpired`, disabled while the lock is
held). The last is the requester's interest, not the contract's doing: nothing
in the contract calls it. Nothing is assumed of owner, authorizer or worker.

`FairWorkflowSpec`: a run that has begun reads, pays, decides and commits unless
it fails, as awaited calls do. Only `workflow_shared_miner` uses it: its
counterexample has to be one in which the server does go on. No fairness is
assumed of wallets, tabs, the worker, the operator or a retry. A confirmation
that was lost is not repeated by the page, and clicking again prepares a permit
whose transaction reverts, so that no property says a payment is recorded in the
end.

## 5. The proofs

For all values of the constants that satisfy the `ASSUME`s of the modules, which
TLC evaluates in the runs.

**`ProofPactEscrowProofs`** proves `TypeOK`, `CallsConsistent`,
`PayoutMatchesStatus`, `NonceConsumedOnce` and `ImplementsLedger`. The payouts
are not inductive alone: a payout in progress has its effects but not its event,
so the invariant `Safe` counts the logs of open frames (`AllPayouts`) and needs
`CallsConsistent` to know that there is at most one, and that a revert of
`fundPact` restores a state in which nobody has touched a pact. `EnteredAlone`
is the key lemma. `StepOfLedger` maps each step to a step or a stutter of the
ledger. `Solvent` sums rewards over the funded pacts, a finite set that grows
and shrinks. `OwedSplits` and `OwedAgrees` say what adding, removing or changing
one pact does to the sum; where they need induction over the set, they take a
smallest subset without the property (`SubsetInduction`), which the well-founded
order of finite subsets provides. The invariant is `Backed`: while `fundPact` waits for the
token it is the balance read before the call that covers what is owed, and a
revert restores that balance.

**`PactStoreProofs`** proves `TypeOK` (which includes that rows refer to rows),
`StatusIsExplained`, `FundingEvidenceComplete`, `IdempotencyHolds` and
`HistoryIsImmutable`. Each is inductive with `TypeOK`; immutability of a pact's
funding evidence also uses `FundingEvidenceComplete`.

**`PactWorkflowProofs`** proves ten theorems about the system as a whole. First,
with scripts and every failure: `WorkflowUsesTheStore`, each step is a step of the
store or leaves it alone. This needs to know that what an action carries between
its reads and its write is about pacts, deliveries and receipts that exist, and of
one pact (`Requests`, `Bounded`, `Prepared`), and it makes every result about the
store one about the system. From it follow `WorkflowTypeOK`,
`MoneyNeedsReleaseReceipt` (each permit was once prepared from a RELEASE receipt,
each payout was once a permit) and `BooksMatchChain` (`RowSteps` lists the steps
that write to a pact's row, `Quiet` is what all but two of them do). Then, for
`OperatorScripts = {}`: `VerdictsFollowLatestReceipt`, `OneRunAtATime`,
`VerifiesWhatWasSigned`, `MoneyFollowsVerdict` and `TerminalVerdicts`, from one
invariant `WebInv`: a pact has one run or completion at most and is VERIFYING
meanwhile, the run is for the newest delivery, its transaction began after all
receipts of the pact, and a RELEASE was the last word. Steps that concern no
run are `Calm`. Last, `ReleaseStaysConfirmable` (`LostConfirmationsAreAccepted`):
`PaymentsMeet` says that a released slot has paid the reward to the row's worker
under the receipt of some run, and that only RELEASED pacts have a confirmed
settlement; `WebInv` that a pact paid under a receipt stays APPROVED until a
confirmation replaces that status. So the event, the unique index and the status
that a late confirmation must meet are as they were. The assumption is in the theorems
because the scripts break all six (section 6).

**`AnswerIntakeProofs`** first proves the three properties of the policy over
signals. The lemmas say what appending one signal does to first words and to the
conclusive ones (`FirstWordsAreKept`, `ConclusiveOfAppend`, `AppendNeverSoftens`),
so no induction over the list is needed. Then, for any answers, catalogs and
replies, that `AnswerIntake` implements `SignalIntake` (`AnswersAreSignals`), with
`ReleaseIsEarned` for it; `ReleaseNeedsAStatedPass`: a lemma for each way an
answer is read says that a PASS it yields was said (`LabelsSayPass`, `SslSaysPass`,
`StrictSaysPass`, `DeclaredSaysPass`), and one that its confidence was stated; and
`StatedFailureStopsRelease`: the rules come to the object the question is about
and read it strictly (`RulesReadFailure`), whatever is defined first among its
fields says FAIL (`StrictReadsFailure`), so the rules do not abstain and neither
catalog nor model is asked (`FailuresAreSignalled`). The assumption on answers is
that an answer has at most one object of each kind, as JSON has, and that its
numbers are numbers.

**`PaidVerificationRunProofs`** proves `TypeOK`, `SpendWithinCeiling`,
`TransfersAreOnRecord`, `CostIsNeverUnderstated`, `RecordsAreIndependent` and
`NoAnswerIsLost`. The ceiling needs `IInv`:
what has been charged plus what is still open never exceeds `authorizedUnits`
(`Covered`), which never exceeds the ceiling; where in the loops the run may be
with a price (`Phased`); and the authority in the ledger (`OnRecord`). The
arithmetic is in lemmas over plain numbers. The two properties of the records
need `Recorded`: no record is of an intent still ahead, and the intent being
asked about has no conclusive record yet. They rest on a pack naming each intent
once, which the code demands (`run-paid-secure-delivery.ts:55`) and `RunAssumption`
says: with an intent named twice the run would ask for it again. Four further
theorems say what the run's decision rests on. Whatever fails, a run halts over a
payment only at a question for which the ledger has accepted no conclusive answer
(`HaltedRunsAreOpen`), so that with a ledger that keeps every append a halted run
never has the records of a release (`HaltedRunsDoNotRelease`). A run has come to its last
intent before its records say RELEASE (`ReleaseComesLast`), and asking on never
takes a decision back (`DecisionsStand`): a conclusive record stays and is the only
one for its intent, so here, unlike in `SignalIntake`, RELEASE is final. TLC
confirms all four on the instance of `paid_runs`, the second of them without
ledger failures; they are no properties of that run.

**`PaidRunsProofs`** proves the fraud run's ceiling and the exactness of the cost
it reports (`FraudSpendWithinCeiling`, `FraudCostIsKnown`) from `FraudInv`. The
reported cost lags behind the chain while a payment is under way, so
`FraudAccounted` says by how much in each phase.

**`StoreClientsProofs`** proves the properties of both clients of the store, for
any number of pacts, runs, compositions, tabs and miners.

- `ComposerRemembersFailures` and `ComposedReleaseIsPaidFor` follow from
  `CompositionInv`. The composer looks at passing answers only, so nothing in its
  own steps keeps a failure from being forgotten. What does: one attempt at a pact
  is in progress at a time (`OneAttempt`), a verdict other than RETRY ends the
  verification of its delivery (`FinalIsKept`, `FinalOnce`), and the
  signals of every run were heard by it or by an earlier run of the same delivery
  (`Traced`). A confident FAIL makes a verdict other than RETRY, after which no
  composition of that delivery can begin.
- `TabStopsWithoutReceipt` and `TabOutcomeIsNews` follow from `TabInv`. A poll is
  three reads in an order, and each part of the invariant says what one of them
  still says about the rows now: an APPROVED or REJECTED once read is still the
  status, the delivery read after it is the latest and the receipt read last the
  newest (`Polled`), because a verdict that ends the pact came with its newest
  receipt (`SettledByNewest`) and the tabs' calls exclude each other (`OneCall`).
  No read takes a tab back behind what its page showed (`Knows`), and the run a
  tab has started is newer than that (`Started`). `TabAssumption` says that no
  run id is the absence of one, and that the pact shown is a pact.

**`X402PaymentProofs`** proves `FalseExpiryIsExplained` of `PaidRuns`
(`FalseExpiriesAreExplained`), for any payments, offers, timeouts, grace and slack,
from `PaymentInv`. Blocks are never ahead of the clock; a payment that was taken was
taken between its authorization and the end of its signature (`Timely`), so a search
after the expiry finds it; and once one has been called expired the clock is past
the expiry, so a transfer that still comes has one of the two explanations
(`Explained`).

Every safety and action property of the passing runs is proved. Only
model-checked: the liveness property, `RewardNeverStuck`, since fairness involves
ENABLED, which is out of the prover's reach; and the five disagreements of section
6, which are counterexamples. Six theorems about the workflow hold for
`OperatorScripts = {}`, as said above.

## 6. Where documents and code part

Five disagreements are shown by runs.

- **Shared miners.** `docs/decision-policy.md:23` promises "One accepted signal per
  Miner identity per intent, with at least two distinct Miner identities across
  the complete verification", and `docs/telegraph-integration.md:31` that a capable
  miner may answer two intents. `UNIQUE (run_id, miner_id)` of migration 003:63
  makes such a run's completion abort after it has been paid for; the pact
  stays VERIFYING (`workflow_shared_miner`).
- **Second challenge.** `docs/telegraph-integration.md:21` says limits are enforced
  before signing. `authorized-fetch.ts:55` checks the challenge of its first
  request, and the client then sends another and signs what that one asks
  (`x402_second_challenge`). It takes an engine that asks twice differently.
- **Late signatures.** `ARCHITECTURE.md:105` lets a retry follow "only after the signed
  authorization expires and an onchain scan proves that the exact USDC transfer did
  not settle". The reconciler counts the expiry from the authorization
  (`reconcile-authorized-payment.ts:65`), the signature's validity counts from the
  later signing; a signature later than the two seconds of grace is still good when its
  payment is called expired (`x402_expiry`).
- **Signatures used again.** `docs/telegraph-integration.md:21` gives one
  authorization a ceiling for the whole operation. Its nonce is not recorded
  (`actions.ts:214`): within its deadline, after a RETRY, the same signature
  starts a second run with a ceiling of its own (`workflow_signature`).
- **Retries.** `docs/telegraph-integration.md:23` allows a retry for a recognised,
  definitely unsettled error. The run takes any `success: false`
  (`run-paid-secure-delivery.ts:130`, `paid_retry`).

Others met while reading and modelling; the models follow the code.

- `README.md:182`: no payment before the worker resubmits. A HELD pact whose newest
  receipt says RETRY can be verified again even after a change request
  (`postgres-pact-store.ts:293`).
- `docs/telegraph-integration.md:64`: identical artifacts refused. The check
  (`actions.ts:256`) compares with the latest delivery only, as read before the write,
  and `createSubmission` does not repeat it.
- `docs/decision-policy.md:25`: a fraud FAIL is terminal. `completeVerification`
  (`:359`) overwrites any status, and the execute script joins a run that has
  begun, so a REJECT can be overwritten by an operator's second run.
- `README.md:103`: VERIFYING means inspectors are being paid. After a crash
  (`actions.ts:214`) nobody is.
- `README.md:106`: APPROVED means the money is locked. `refundExpired` may have
  taken it back (`ProofPactEscrow.sol:213`); it never becomes RELEASED.
- `docs/telegraph-integration.md:27`: exactly one terminal event. An append whose
  reply is lost is followed by a second (`:135`).
- `docs/telegraph-integration.md:31`: a composition with a shared miner begins and
  then cannot complete: the composer counts distinct miners of the whole verification
  (`fresh-evidence-composer.ts:106`), the constraint refuses one of two intents.
- `docs/telegraph-integration.md:66`: the tab discovers its receipt. It opens any
  receipt newer than its page, perhaps that of another tab's verification
  (`verify-delivery.tsx:36`).
- `tests/payment-reconciliation.test.ts:5`: never an older transfer. The window
  opens two seconds before the authorization (`:19` of the reconciler).
- `docs/decision-policy.md:24`: no required INCONCLUSIVE may coexist with RELEASE.
  The policy leaves inconclusive and low-confidence signals out before it decides
  (`evaluate-settlement.ts`), so one may stand beside the PASS of another miner.
- No document says what a scan's mixed answer means. Ungraded SSL endpoints are
  left out beside graded ones, grade F passes
  (`routed-result-normalizer.ts:129`), and the first recognised field of an answer
  wins over a later one that contradicts it (`:161`).
- A run that an append failure halts after its last answer returns all records
  of a release (`run-paid-secure-delivery.ts:153`); no document says whether it
  may. Without such a failure it never does (`HaltedRunsDoNotRelease`).

## 7. What is not modelled, and why

- *MCP application and server*: `createPactDraft` and the preparation of an
  authorization are actions of `PactWorkflow`; the transport, the reads and the
  prepared messages, which change nothing, are left out.
- *Request building and canonical JSON*: the questions, their context, hashes and
  captured evidence are text made from a submission without state; hashes are
  injective. So is the text a model is shown when an answer is prose.
- *CONTENT_EXTRACTION*: its own normaliser (`secure-delivery-intents.ts:118`); no
  policy pack requires that intent.
- *Deadlines of signatures*: a signature is valid in every step; an expiry only
  takes behaviours away.
- *Source provenance, DNS, GitHub, balance checks*: I/O that succeeds or throws;
  the throw is kept where it interrupts an action.
- *Deployment, migration, audit scripts*: run once, or read only.
- *User interface*: presentation; what a form sends is an input of the actions.
  The tabs that wait are modelled.
- *Database*: what row locks and unique constraints promise is assumed, as is that
  a confirmed Base event is final.

`PROJECT.json` lists, per component, what is left out of a partly modelled one,
and under hazards the places where this code can go wrong in ways a test would
hardly meet, with the properties that guard them.
