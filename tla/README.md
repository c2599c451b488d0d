# Payment control plane: TLA+ models and proofs

This directory specifies the payment integration control plane of this
repository: the Python package `src/payment_orchestration` (paths below are
relative to the repository's root). It prepares a payment of 1C, sends it to a
bank at most once, follows it through the bank's callbacks, and leaves what it
cannot know to a status lookup, a statement reconciliation or a person.

The modules are checked with TLC on small instances; what matters most is also
proved with TLAPS for every value of the constants.

## 1. The system

### Components

| Component | Source | State | Operations | Model |
|---|---|---|---|---|
| Payment domain | `domain.py` | none (values) | statuses, `TRANSITIONS`, fingerprint, validation, statement rows | `PaymentDomain` |
| SQLite repository | `repository.py` 127-534 | tables `payment_operations`, `callback_inbox`, `reconciliation_entries`, `schema_meta` | `register`, `get`, `save`, `transition`, `claim_send`, `recover_sending`, `apply_callback`, `persist_reconciliation`, `_migrate` | `IntegrationRepository`, `StatementLedger` (`persist_reconciliation`); not `_migrate` |
| Payment service | `service.py` | none of its own; a handler's local variables between two repository calls | constructor, `prepare`, `send`, `callback`, `reconcile_unknown`, `resolve_manual` | `PaymentService` |
| Bank adapters | `adapters.py` | `MockBankAdapter.sent`, files of `FileClientBankAdapter`, the attributes of `HTTPBankAdapter` | `send`, `lookup` | the HTTP adapter, in `PaymentService` and `PaymentSystem` |
| Bank emulator | `bank_emulator.py` | `bank_payments`, `bank_callback_attempts` | `commit_payment`, `get`, `set_status`, lookup, submissions in six test modes, callbacks | `BankEmulator`; any bank in `PaymentService` |
| HTTP runtime | `http_runtime.py` | one shared service and adapter; a thread pool | submit, callback, get, recover | `PaymentSystem` |
| Statement reconciliation | `reconciliation.py` | the ledger table | `_score`, `_calculate`, `match` | `MatchingPolicy`, `StatementMatching`, `StatementLedger`, `StatementDecision` |
| In-memory registry | `repository.py` 56-124 | a dictionary | `register`, `get`, `save`, `claim_send` | not modelled (test double) |
| 1C module | `bsl/PaymentIntegration.bsl` | an information register | state writer, callback handler | not modelled |
| Failure lab, local n8n stack, evidence scripts | `failure_lab/`, `real_run/` | report files | scripted scenarios | not modelled (I/O); read as evidence of intent |

### How they interact

A submission travels from n8n to the HTTP runtime, which calls
`PaymentService.send` in a pool thread. `send` registers the operation, moves
it to `ready_to_send`, claims it with a compare-and-set, calls the bank through
the adapter and writes the outcome. Each of these is a transaction of its own;
between two of them other threads and processes work on the same rows. The
bank's callbacks come through n8n to `PaymentService.callback`, at any time:
before the adapter's answer, twice, late, or with a reused event id. A process
that starts classifies every operation still in `sending` as `outcome_unknown`
(`PaymentService.__init__`), whoever holds it. `reconcile_unknown` and
`resolve_manual` close what is unknown or in manual review.

The bank emulator is an event loop over a ledger of its own. It writes the
payment first and then does what the submission's test mode says: answers,
loses the answer, delays it, or posts a callback before it. A callback goes to
an n8n webhook, which forwards it to the runtime's `/v1/callbacks`, and the
emulator records what it was answered. So the runtime may be waiting for the
emulator, which is waiting for the runtime. Nobody retries anything: the
adapter's call, the lookup, the webhook and the callback are each tried once,
with timeouts of 3 to 8 seconds.

Statements come in beside this: `Reconciler.match` scores each row against a
list of payments its caller has and records one decision per row identity in
the ledger table. It never changes an operation.

### What is hard here

- the claim must be granted once among threads and processes, and must survive
  a crash before, during and after the external call;
- a restart cannot tell a dead sender from a live one in another process;
- several handlers read a row, do something slow, and act on what they read
  (`send`'s error path, `send`'s answer, `reconcile_unknown`, `resolve_manual`);
- callbacks are redelivered, reordered, and may be illegal now and legal later;
- an event id that comes back with another payload;
- two callers that submit one operation with different payments;
- runtime and bank that wait for each other, in a pool of threads and an event
  loop that a blocking callback holds;
- callbacks that the bank believes lost and that arrive later, or overtake each
  other, or tell the state of a row that has changed since;
- attributes of the one adapter, written by every request and read by another;
- statement rows that come again, changed or regenerated, to matchers that know
  different payments.

`PROJECT.json` lists every such hazard with its line and the properties aimed
at it; one without a property says why.

### What makes each component correct

- *Repository.* The audit trail tells the status; history is only appended to;
  a claim is granted once; inbox and operations agree on what was processed;
  one event moves one operation at most once.
- *Service.* At most one external call per operation; a payment that may have
  left is never again waiting to be sent; what is sent is what was registered;
  an unknown outcome is resolved only by evidence; handlers end; stranded
  claims are classified.
- *Reconciliation.* A statement row has one durable decision, a replay is told
  it, a changed payload clears the match and stays a conflict; equal
  candidates are never matched automatically.
- *Bank emulator.* One payment per operation, committed before any injected
  fault; only that payment is acknowledged; callbacks tell what the ledger has
  shown; every request ends and frees the loop.
- *HTTP runtime.* Whoever is told success can rely on it: a client that its
  operation is under way, the bank that its callback was processed. Which
  payment goes to the bank does not depend on who else is submitting.

## 2. Modules

`PaymentDomain` — the values. A set of immutable payment fields is one
fingerprint of `Terms`; wording, timestamps and references are left out.
`Moved` and `TransitionRecord` are `transition_record`; a forbidden move has no
value, and callers guard it with `Permitted`, which is where the code raises
`TransitionError`.

`IntegrationRepository` — two tables and one operator per repository method.
Every method that decides something runs under `BEGIN IMMEDIATE`, so each is
one atomic step whoever runs it; a fault before the commit rolls back, hence is
no step. `RepositorySpec` lets any client call any method at any time, except
`save()`, whose effect depends on when its snapshot was read: that is the
service's affair.

| Variable | Code |
|---|---|
| `record[o]` | the row of `payment_operations`, or `NoRecord` |
| `inbox[e]` | the first payload of an event id in `callback_inbox`, or `NoCallback`; the record stands for its `payload_hash` |
| `conflicts` | event ids whose `conflict` column is 1 |

`PaymentService` — workers that run the service over one repository, and the
bank. `pc[w]` names the repository or adapter call the worker makes next, so
anything may happen between two calls. A read that only builds the caller's
answer is folded into the step before it. `request`, `seen` and `decision` are
the handler's local variables: the payment object, the row the error path read
and will save whole, and the transition that `reconcile_unknown` or
`resolve_manual` decided on. A person may decide for any status, also one the table
refuses (`Resolutions`). `wire` and `bank` are the network and the bank's
ledger, `calls` counts adapter calls and is only observed.

| Actions | Code |
|---|---|
| `Start`, `Crash` | `__init__` with `recover_sending`; death of a process |
| `Submit`, `MoveToReady`, `Reread` | `prepare`: `register`, `transition`, the re-read after `TransitionError` |
| `Claim`, `CallAdapter`, `AdapterReturns`, `AdapterRaises` | `send` up to the adapter's answer, timeout or error |
| `ReadAfterError`, `SaveError` | `send`'s `except` branch: `get`, then `save` of the whole row |
| `ReadAnswer`, `PersistSent` | `send` after an answer: `get`, the check for `sending`, `transition` |
| `Reconcile`, `Lookup`, `ApplyDecision` | `reconcile_unknown` |
| `Resolve`, `ApplyDecision` | `resolve_manual` |
| `ReceiveCallback` | `callback` over a durable repository |
| `GiveUp` | any repository call or lookup that raises |
| `BankCommit`, `LoseRequest`, `BankMoves` | external: the bank and the network |

A process is a set of workers: `Start(ws)` runs one constructor and its recovery
for all threads `ws` that will serve it, `Crash(ws)` ends them together. `Next`
takes any non-empty set, so a step may be the start or the death of a single
threaded process, of a pool, or of several processes at once.

`PaymentLifecycle` — what the control plane promises about an operation,
without saying how: waiting, working, review, closed, and an authorisation spent
on at most one call. `PaymentService!LifecycleSpec` instantiates it with
`Phase` and `Authorised` computed from the rows.

`BankEmulator` — the emulator by itself, with any clients, testers and webhook.
The endpoints are coroutines of one loop; `_callback` is a blocking call. Where
it is made from a coroutine (`callback_before_response`, `set_status`) the
handler is `blocking` and nothing else runs on the loop (`LoopFree`); elsewhere
it is a background task in a thread, and only its start needs the loop.

| Variable | Code |
|---|---|
| `ledger[o]` | the row of `bank_payments`: the payload (its hash is compared) and the status, or `NoRow` |
| `attempts[<<e, s>>]` | the row of `bank_callback_attempts` under that key; any code but 200, and none, are `failed` |
| `handler[h]` | a request the emulator has begun: where it is, the callbacks it still has to post, the answer it has heard, the response it owes |
| `posted` | callbacks that left, whether or not their handler still waits |
| `replies` | submissions answered with 200 |
| `had` | history: the statuses the ledger has shown of an operation |

| Actions | Code |
|---|---|
| `Submit`, `WakeUp` | `POST /payments` in each mode up to its first wait; after the `sleep` of `delayed_response` |
| `SetStatus` | `POST /testing/payments/{id}/status` |
| `PostCallback`, `CallbackAnswered`, `CallbackTimesOut` | `_callback` and `record_callback` |
| `Webhook` | external: the webhook answers, or callback or answer is lost |

`PaymentSystem` — the composition: a runtime with its pool (`Threads`), the
HTTP adapter, the emulator, and n8n between them. A thread's step is a step of
`PaymentService`, instantiated as `Service` with the emulator's ledger as its
bank (`bankView`), the requests on their way as its wire (`wireView`) and the
emulator's callbacks as its callbacks. What the module adds:

| Variable or action | Code |
|---|---|
| `requests[p]` | the mode and status a payment on its way was posted with: the adapter's attributes, which any other submission may have set |
| `told` | operations a client's submission of which was answered 200 |
| `StartRuntime`, `CrashRuntime` | `create_app`; death of the process with all its threads |
| `SubmitPayment`, `MayReturn`, `GoesOn`, `PostPayment`, `AdapterReturns`, `AdapterRaises` | `POST /v1/payments`: `send` in a pool thread, the answer to the client |
| `Recover`, `LookupPayment`, `ApplyLookup` | `POST .../recover`; a lookup needs the bank's loop |
| `ServeCallback`, `LoseCallback` | `POST /v1/callbacks` behind n8n, in a free thread; 409 and 422 reach the bank as an error |
| `BankReceives`, `LoseRequest`, `BankWorks`, `TesterSetsStatus` | the emulator's side |

`resolve_manual` is not exposed over HTTP and is not part of it. The emulator is
not restarted: its ledger is durable, and what a restart loses (answers,
callbacks) may be lost anyway.

`MatchingPolicy` — `_score` and `_calculate` under the default policy, as
operators of a row and a list. `StatementMatching` — one call of it, with
what the weights mean stated of the result.

`StatementLedger` — `match` over `persist_reconciliation`. Everything `match`
does with a row before the transaction is a pure function of the row and the
caller's list, so a row is one atomic step; a statement is a sequence of steps
that a crash may end early. A row's hash covers all its fields, so the row
stands for it. `presented` and `answers` are history variables.

| Variable or action | Code |
|---|---|
| `ledger[i]` | the row of `reconciliation_entries`, or `NoEntry` |
| `Identity` | `stable_identity`, and its counterpart for mappings in `_row` |
| `PersistNew`, `Replay`, `PayloadConflict` | the three outcomes of `persist_reconciliation` |
| `Calculated`, `StatusOf`, `Resolution` | `_calculate` and what `match` derives from it |
| `PublicResult` | `_public_result`: the stored status, and the payment of the caller's own list that has the stored operation, or none |

`OneDecision` is stated of these results: one caller decides and is given the
payment it matched; everybody else who is told no dispute is told that decision as
a replay, with that payment or, for want of it in its list, with none.

`StatementDecision` — the ledger's promise: one decision per identity, taken
back only by a dispute, for good.

`RepositoryProofs`, `RepositoryHistoryProofs`, `PaymentServiceProofs`,
`ServiceHistoryProofs`, `BankEmulatorProofs`, `PaymentSystemProofs`,
`MatchingProofs`, `StatementLedgerProofs` — the proofs.
`MCRepository`, `MCPaymentService`, `MCBankEmulator`, `MCPaymentSystem`,
`MCStatementMatching`, `MCStatementLedger` — the instances for TLC.

Operators named as mutants in a comment are not part of any specification. They
are the bugs the properties are meant to catch, kept beside what they change.

## 3. Runs

| Run | Question | Result |
|---|---|---|
| `repository` | do the tables stay consistent under any sequence of calls, and does no call rewrite history? | holds |
| `service` | do the safety properties survive three workers, crashes, timeouts, the stale save and a reused event id; does only that save lose history, and once at most? | holds |
| `answering_adapter` | with two operations that share an event id: is the service a well-behaved client of the repository, does it implement the lifecycle, is no conflict silent? | holds |
| `emulator` | with any clients and webhook: is only what is committed acknowledged, and no callback false or forgotten? | holds |
| `system` | do runtime, adapter and emulator implement the service, and are clients and bank told the truth? | holds |
| `liveness` | does everything that has begun end, although bank and runtime wait for each other; is a stranded claim classified, an unknown outcome resolved? | holds |
| `statement_matching` | what do the weights and the threshold mean together, and does the order of the list matter? | holds |
| `statement_ledger` | does every row identity get one decision, is a second payload never silent, and is no row told a match without evidence? | holds |
| `lost_update` | can the error path overwrite a callback? | **violated** |
| `stale_lookup` | does a lookup only resolve what is unknown? | **violated** |
| `same_envelope` | do two accepted submissions of one operation send the same envelope? | **violated** |
| `regenerated_row` | is a row that only has a new `row_id` a replay? | **violated** |

### What the violated runs show

1. *A callback is lost to the error path* (`service.py:100-103`). The worker
   whose adapter call raised reads the row, a callback commits `accepted`, and
   `save` writes the older row back. The operation is `sending` again, its
   audit event and callback id are gone, and the inbox answers every redelivery
   as a duplicate. The same window undoes a recovery: an operation that was
   `outcome_unknown` is `sending` again.
   The external call is still made only once: `attempts` and the
   status `sending` keep the operation out of the claim. Nothing else loses an
   answer, and an operation loses one at most once (`AnswersAreLostOnce`); over an
   adapter that always answers none is lost (`AnswersStayWithoutErrors`).
2. *A lookup resolves what is no longer unknown* (`service.py:178-198`). The
   check and the transition are separate and the table allows
   `manual_check -> executed`, so a lookup in flight closes an operation that a
   conflicting callback has meanwhile put under manual review.
3. *The fingerprint omits the recipient's BIK* (`domain.py:128-143`), which the
   envelope sends (`adapters.py:109`). It also compares the purpose with its
   blanks normalised, which the envelope sends as it is; the run shows the BIK.
4. *A regenerated statement row is a conflict* (`domain.py:216`). The identity
   leaves `row_id` out on purpose (`domain.py:191`), the payload hash does not:
   the same row under a new number clears the match of the old one.

Three more disagreements are stated here without a run.
A conflict about a closed operation is only marked in the inbox
(`repository.py:504`), where `docs/failure-model.md:11` promises `manual_check`;
`ConflictIsNeverSilent` states what does hold. After an adapter error the row's message says
"reconcile before retry" (`service.py:102`), but `reconcile_unknown` acts only
on `outcome_unknown`, which the row becomes at the next start
(`docs/payment-lifecycle.md` describes it so). And
`docs/reconciliation-policy.md:19` sends incomplete rows to `manual_check`,
while an operation id alone scores 95 and matches, as
`tests/test_payments.py:97` expects.

Two observations about matching that contradict no document. `match` looks a
stored match up in the list of the caller that asks (`reconciliation.py:159-163`):
one whose list lacks the payment is told `matched` with no payment, and nothing
of the result names the operation. And an empty document reference of a row
equals an empty one of a payment (`reconciliation.py:107`), which is worth 70
points and enough for a match.

### Bounds, and why they are enough

`TRANSITIONS` has no cycle, so audit trails are finite by themselves, and a claim
is granted once, so `attempts` is. Two bounds stand in guards: `Handlers`, the
requests the emulator works on at a time, and `MaxLate`, the callbacks that
travel on after their handler has given up (beyond it they are lost, which may
happen to any of them). Everything else that is chosen is a set:

- *Workers.* Three in `service`: a sender in its error path, a second one that
  restarts and recovers, and a third that re-submits, looks up or resolves. Two
  in the others, where the race is between a pair. Workers are interchangeable
  and the safety runs use symmetry; no liveness run does.
- *Threads and handlers.* `system` has two threads and one handler: a sender, and
  a thread for the callback that overtakes its answer. `liveness` has one thread,
  so that a sender leaves no thread for the callback its bank waits for, and two
  handlers, one of which may hold the loop against the other. `emulator` has two
  handlers: two requests for one operation.
- *Late callbacks.* Two in `system`, so that both callbacks of a conflict can
  arrive in the wrong order after both waits have ended.
- *Modes.* `system` has all six. `liveness` has the two that make somebody wait,
  `emulator` all but `duplicate_callback`, whose two event ids
  never meet in one row.
- *Operations.* Operations meet in two places: a recovery sweeps all of them,
  and an event id may name two. `answering_adapter` and `repository` have two.
  The emulator's event ids contain the operation id, so one is enough there.
- *Terms.* Two, so that a duplicate with other fields exists.
- *Callbacks.* An event id with two payloads, and a status that is legal only
  after another (`executed` after `accepted`), so that refused, repeated,
  reordered and conflicting deliveries all happen. They arrive in any order and
  number. A callback for a closed operation is refused or conflicts.
- *Bank statuses.* `accepted` and `rejected`; `rejected` is final and `accepted`
  is not. In `liveness` submissions ask for either, and one may send what another
  asked for, as they share the adapter; a tester may then set `executed`. `StatusesAssumption`: statuses the control plane does not know are
  not asked for; it would refuse them all.
- *Rows.* In `statement_matching` all rows over two values and an empty one per
  field, against lists of up to two payments and lists with one payment twice
  around another; one of the payments has no document reference. The score adds up per payment and candidates are compared in
  pairs. In `statement_ledger` six rows that meet: one transaction with two
  amounts, with an operation id and without, one row under two `row_id`s, and
  the same row as a mapping.

`repository` allows the transitions the service asks for, each at any moment.
Deadlock is checked in every passing run but `statement_matching`, where one
call returns once; a worker can always crash or start,
and the repository can always be asked to register.

### Fairness

`FairSystemSpec` has two assumptions. Weak fairness of `ThreadStep(w)`: what a
running handler does next by itself. The code justifies it: the adapter's call
has a timeout (`adapters.py:78`), SQLite waits at most its busy timeout and then
raises, and nothing else in a handler waits. `ThreadStep` includes giving up, so
no repository call is assumed to succeed, and `AdapterRaises`, so the bank is
never assumed to answer. Strong fairness of `BankWorks(h)`: a coroutine or task
that the emulator's loop could run again and again is run. asyncio runs what is
ready in order, and `httpx.post(..., timeout=3)` (`bank_emulator.py:184`) ends
every wait. It must be strong, as other requests keep taking the loop. Clients,
testers, n8n, callbacks and crashes have no fairness.

Two properties carry conditions of their own, which are assumptions about
operation and not about code:

- `StrandedClaimIsClassified`: somebody starts a dead runtime again.
  `compose.yml` gives the payment container no restart policy. The property
  speaks of a moment when no thread runs: while one does, it may still be the
  holder.
- `UnknownIsResolved`: besides that, somebody keeps asking for the recovery of
  operations, lookups are not always unlucky, and from some moment on no tester
  holds the loop. Without each of these TLC finds a behaviour in which the
  operation stays unknown, as nothing in the code retries a lookup.

## 4. Proofs

All theorems hold for any sets of workers, operations, payments, events and
callbacks, finite or not, under the named assumptions of the modules: the
constants have their types, the absent values (`NoRecord`, `NoPayment`, ...)
are none of the present ones, `Calls` contains `ServiceCalls`, and for the system
that its statuses are known ones, its pool has a thread, and that what the service
assumes of its constants holds of those the system gives it (`ServiceAssumption`:
the same facts, said of the bank's callbacks). Some theorems about
the service have a condition of their own:

- *calm*: `~AdapterMayRaise`, an adapter that always answers. With one that may
  raise the stale save is among the steps, which is no operation of the
  repository and loses what a callback has written (run `lost_update`). What it
  can lose, and how often, is proved without the condition.
- *honest*: `HonestCallbacks`, no callback carries the status `sending`. The code
  would apply one to an operation that is `ready_to_send`, and the row would
  then speak of a claim nobody was granted; a bank does not report it.

| Theorem | States |
|---|---|
| `RepositoryProofs!RepositoryTypeCorrect` | `RepositorySpec => []RepositoryTypeOK` |
| `RepositoryProofs!RepositoryClaimsOnce` | `RepositorySpec => []ClaimedOnce` |
| `RepositoryProofs!RepositoryInboxAgrees` | `RepositorySpec => []InboxAgrees` |
| `RepositoryHistoryProofs!RepositoryAuditTells` | `RepositorySpec => []AuditTellsStatus` |
| `RepositoryHistoryProofs!RepositoryEventMovesOnce` | `RepositorySpec => []EventMovesOnce` |
| `RepositoryHistoryProofs!RepositoryKeepsHistory` | `RepositorySpec => HistoryKept` |
| `RepositoryHistoryProofs!RepositoryConflictsAreSeen` | `RepositorySpec => []ConflictIsNeverSilent` |
| `PaymentServiceProofs!TypeCorrect` | `Spec => []TypeOK` |
| `PaymentServiceProofs!AtMostOnce` | `Spec => []AtMostOneExternalSend` |
| `PaymentServiceProofs!HoldersAreUnique` | `Spec => []OneHolder` |
| `PaymentServiceProofs!RegisteredTermsAreSent` | `Spec => []SentAsRegistered` |
| `ServiceHistoryProofs!SendsAreClaimed` | `Spec => []SentIsClaimed` |
| `ServiceHistoryProofs!ServiceAuditTells` | `Spec => []AuditTellsStatus` |
| `ServiceHistoryProofs!RefusalsMeanProgress` | `Spec => []RefusedIsNotPrepared` |
| `ServiceHistoryProofs!EvidenceIsEarned` | `Spec => []EvidenceNeedsSend` (honest) |
| `ServiceHistoryProofs!ServiceImplementsRepository` | `Spec => RepositorySpec` (calm) |
| `ServiceHistoryProofs!ServiceEventMovesOnce` | `Spec => []EventMovesOnce` |
| `ServiceHistoryProofs!StaleSaveIsTheOnlyLoss` | `Spec => HistoryLostOnce` |
| `ServiceHistoryProofs!AnswersAreLostOnce` | an operation goes back to `sending` only from a row without error to one with it |
| `ServiceHistoryProofs!AnswersStayWithoutErrors` | `Spec => EvidenceNotOverwritten` (calm) |
| `ServiceHistoryProofs!TrailsAreShort` | an audit trail has at most six events |
| `ServiceHistoryProofs!HandlersOnlyGoOn` | every step of a handler brings it nearer to its end, none takes it back |
| `ServiceHistoryProofs!ConflictsAreSeenOrLost` | an operation named by a conflict is under review, closed, or shows the error of its send |
| `ServiceHistoryProofs!ServiceConflictsAreSeen` | `Spec => []ConflictIsNeverSilent` (calm) |
| `ServiceHistoryProofs!ServiceKeepsLifecycle` | `Spec => LifecycleSpec` (calm, honest) |
| `ServiceHistoryProofs!DecisionsOnlyInReview` | `Spec => ManualDecisionOnlyInReview` (calm) |
| `ServiceHistoryProofs!ServiceInvariant` | `Spec => []ServiceInv`, what the system's proofs know of the service |
| `BankEmulatorProofs!EmulatorTypeCorrect` | `EmulatorSpec => []EmulatorTypeOK` |
| `BankEmulatorProofs!AnswersAreCommitted` | `EmulatorSpec => []AnsweredIsCommitted` |
| `BankEmulatorProofs!CallbacksTellTheLedger` | `EmulatorSpec => []CallbackTellsTheLedger` |
| `BankEmulatorProofs!TravellersAreRecorded` | `EmulatorSpec => []TravellerIsAccountedFor` |
| `BankEmulatorProofs!RequestsOnlyGoOn` | every step of a request brings it nearer to its end, none takes it back |
| `BankEmulatorProofs!SomebodyCanGoOn` | while a request is in progress, some request meets the conditions of its next step |
| `PaymentSystemProofs!SystemRunsEmulator` | `SystemSpec => EmulatorSpec` |
| `PaymentSystemProofs!SystemImplementsService` | `SystemSpec => ServiceSpec` |
| `PaymentSystemProofs!SystemTypeCorrect` | `SystemSpec => []SystemTypeOK` |
| `PaymentSystemProofs!SystemPaysOnce` | `SystemSpec => []Service!AtMostOneExternalSend` |
| `PaymentSystemProofs!SystemBankHoldsWhatWasSent` | `SystemSpec => []BankHoldsWhatWasSent` |
| `PaymentSystemProofs!SystemAnsweredIsUnderWay` | `SystemSpec => []AnsweredIsUnderWay` |
| `PaymentSystemProofs!SystemAcknowledgedIsProcessed` | `SystemSpec => []AcknowledgedIsProcessed` |
| `PaymentSystemProofs!SystemStatusCameFromBank` | `SystemSpec => []StatusCameFromBank` |
| `PaymentSystemProofs!SystemKeepsTheService` | `OneHolder`, `SentIsClaimed`, `SentAsRegistered`, `AuditTellsStatus` and `EventMovesOnce` of `Service` |
| `PaymentSystemProofs!SystemEvidenceIsEarned` | `SystemSpec => []Service!EvidenceNeedsSend`, if no client asks for `sending` |
| `PaymentSystemProofs!SystemLosesHistoryOnce` | `SystemSpec => Service!HistoryLostOnce` |
| `PaymentSystemProofs!SystemConflictsAreSeenOrLost` | as `ConflictsAreSeenOrLost`, of the system |
| `PaymentSystemProofs!SystemOnlyGoesOn` | as `HandlersOnlyGoOn` and `RequestsOnlyGoOn`, of threads and emulator together |
| `MatchingProofs!ContextIsAccountAndAmount` | `Spec => []ContextNeedsAccountAndAmount` |
| `MatchingProofs!IdentityWins` | `Spec => []ContextNeverBeatsIdentity` |
| `MatchingProofs!OrderIsIrrelevant` | `Spec => []OrderDoesNotMatter` |
| `StatementLedgerProofs!LedgerTypeCorrect` | `Spec => []LedgerTypeOK` |
| `StatementLedgerProofs!NothingAcceptedInSilence` | `Spec => []DisputedWhenTwoPayloads` |
| `StatementLedgerProofs!CallersAgree` | `Spec => []OneDecision` |
| `StatementLedgerProofs!MatchesAreEvidenced` | `Spec => []MatchesHaveEvidence` |
| `StatementLedgerProofs!LedgerImplementsDecisions` | `Spec => DecisionsSpec` |

*Repository.* Types and `ClaimedOnce` are inductive together: a row's `attempts`
changes only in `ClaimSend`, which needs `ready_to_send`, and `TRANSITIONS`
leads from no other status but `prepared` to it. The lemma `Table` states what
of the table the proofs need; `MovedFields` what `transition_record` leaves
alone. `InboxAgrees` is inductive with types.

*Repository, history.* Everything follows from one description of a step,
`RowsCarriedOn`: a call leaves a row alone, begins it, or carries it on by at
most one move that the table allows, with one audit event, and by at most one
event of the bank (`StepCarriesOn`). `HistoryInv` is `RInv`, `InboxAgrees` and
`RowsTell`, the story a single row tells: its trail is a path from `prepared` to
its status, and no event stands in it twice. That an event moves no second
operation comes from the inbox. `ConflictInv` adds that a disputed event id is in
the inbox; a conflict puts the operation under review, and from there only
final statuses are reachable, which nothing leaves.

*Service.* `AtMostOneExternalSend` alone is not inductive: nothing in it says
that a worker about to call the bank is the first. The invariant `IInv` adds
that a worker between its claim and the end of its send finds
`attempts = 1` and a status past `ready_to_send`; that `calls[o] = 1` needs a
claim; that a worker before its call finds `calls[o] = 0`; that holders are
unique; and that the row the error path holds (`seen`) is of a claimed
operation. The last part is what the stale save needs: it
overwrites the row with a snapshot, and the claim survives only because the
snapshot was read after it. Without it the proof fails at `SaveError`, as it
should: the lost update destroys evidence, but never the claim.
There is one lemma per action; `Invariant` combines them.

*Service, history.* `Told` says what a row, *or a snapshot of one*, tells of its
operation: the path to its status, that `attempts = 1` has a `send-claim` in the
trail, and that an answer or a lookup in the trail needs a call. `ToldInv` states
it of the rows and of `seen` in the error path, with the facts about workers
that make it inductive: who is past the call has called, who will re-read after
a refusal finds the row moved on, and a decision about to be written was asked
of the bank. The stale save then needs no exception: it replaces one told row
by an earlier one. A person's decision (`DecisionsOnlyInReview`) is checked in
one transaction and written in another; a pending decision finds its operation
under review or closed, and a closed one refuses it. The two refinements are
step simulations under `IInv`, `ToldInv` and `NeverRaised`: each action is one
call of the repository, and of the lifecycle a phase it allows or a stutter.
What the repository guarantees then holds in the service.

*Service, what the stale save loses.* The save is a step, so `RowsCarriedOn` is
false of the service, and `HistoryKept` with it. `EventsInv` says of rows and of
`seen` that an event stands in them once and that the inbox has it for this
operation: the save takes back an event and the move it made together, and the
inbox refuses to apply it again, so `EventMovesOnce` survives. `ErrorInv` is what
bounds the loss: a row whose operation is held between claim and save has no error
yet, an error stands only on a claimed row, and `seen` is of a raised call. As a
claim is granted once, the save that loses history is the first and last that
writes an error, and no step removes one. `ConflictsAreSeenOrLost` and
`AnswersAreLostOnce` follow: what is no longer told, an error explains.

*Variants.* Liveness needs fairness, which the prover does not handle; that
nothing goes round in circles does not. The height of a status in `TRANSITIONS` falls
with every move, also along the trail that a stale save restores, hence
`TrailsAreShort`. `Left` counts the steps a handler has before it, at most seven,
and `LeftOf` the sleeps, posts and waits of an emulator's request. Every step
of its own lowers the count and nobody else's raises it. `SomebodyCanGoOn` adds
that the emulator's loop never stops everybody: it is held only by a request that
waits, and a wait can end. With the fairness of section 3, TLC checks the rest.

*Emulator.* None of the three safety properties is inductive. A response is owed
long before it is given, so `AnsweredIsCommitted` is strengthened by: a
handler that owes a response to `p` finds `p` in the ledger, which no other
submission changes. `CallbackTellsTheLedger` speaks of the
callbacks still to be posted, and needs that `had` contains the present status,
and only grows. `TravellerIsAccountedFor` is kept by `CallbackTimesOut` only
because a handler posts its callbacks one at a time: what travels for a
handler that is posting is recorded, what its head is it has not posted yet.

*System.* `SystemRunsEmulator` is a step simulation that needs only the type of
`requests`: each action is an action of the emulator or leaves it alone.
It carries the invariants of the emulator over to the system. The refinement
`SystemImplementsService` uses them: `EmulatorTypeOK` to know that a committed
row has a status and hence the view is not `absent`, and an invariant of
`requests` to know that what leaves the wire was on it. The interesting case is
`BankReceives`: a repeated payment finds its row, which is the `BankCommit` of a
bank that already has it; a refused one is not received and only lost.

*System, end to end.* `Proved` is an instance of `ServiceHistoryProofs` with the
bank and the wire replaced by their views, as in `Service`; its theorems cost
their assumptions (`ServiceAssumptions`) and the remark that both instances have
one next-state relation (`SameNext`). So `Known` holds in every state of the system:
the emulator's types and ledger, the requests' types, and the service's
`ServiceInv`. `SystemPaysOnce` is one consequence. Each of the others needs its own
strengthening:

- `SystemBankHoldsWhatWasSent`: a payment on the wire is its thread's own and the
  first of its operation (`WireIsOwn`, `WireIsFirst`), and a row's terms survive
  every call and the stale save; so what arrives is what is registered
  (`AllHeldAsSent`).
- `SystemAnsweredIsUnderWay`: nothing leads back to a waiting status, not even the
  stale save, as a row read in the error path was past it (`ToldIsUnderWay`,
  `ClaimersMovedOn`).
- `SystemAcknowledgedIsProcessed`: also of an answer that has been heard and not
  been recorded yet (`HeardIsProcessed`).
- `SystemStatusCameFromBank`: also of the rows that are going to be saved back, of
  the lookups that are going to be applied and of the answers that are going to be
  persisted, however late (`FoundedRows`, `FoundedThreads`); it then holds since
  `had` only grows and the ledger drops nothing.

The other theorems of the service are carried over as they are
(`SystemKeepsTheService`, `SystemEvidenceIsEarned`, `SystemLosesHistoryOnce`,
`SystemConflictsAreSeenOrLost`). `SystemOnlyGoesOn` joins the two variants: a step of
the system is a step of the emulator and one of the service, or a stutter of either.

*Matching.* The result is `Matched(row, list)` (`ResultIsMatched`), which is a
single candidate with the best score (`MatchedIsBest`); the rest is arithmetic
on the weights: all context together is worth 75, and an external id or an
operation id at least 95. A permutation of the list permutes its candidates, with
their scores, and the result names the operation and not the position: no
induction over the list is needed (`OrderIsIrrelevant`).

*Ledger.* `OneDecision` needs to know where answers come from. `IInv` ties an
entry to a payload that was presented, and every other presented payload to a
dispute. While the entry is undisputed, its result was told by the one caller that
decided (`DecisionsWereTold`), and every undisputed answer is of the entry's payload,
has the result's status, and names its operation or none (`AnswersTellDecisions`).
`OneDecision` itself is carried along for the time after the dispute, when
the entry no longer knows what it was. That the decider is given its
payment rests on `MatchedIsListed`: what a list is matched to is in it. The refinement
maps an entry to its result. `MatchesAreEvidenced` needs the same of entries: a
replay answers from another caller's decision, and the row asked about has that
decision's payload.

## 5. Only model-checked

The four liveness properties: `HandlersEnd`, `EmulatorRequestsEnd`,
`StrandedClaimIsClassified` and `UnknownIsResolved`. Liveness under fairness and
`ENABLED` are out of the prover's reach; the safety halves of the first two
(`HandlersOnlyGoOn`, `RequestsOnlyGoOn`, `SomebodyCanGoOn`) are proved. Induction
over data and recursive operators are out of reach too; the proofs need neither,
and the modules have no recursive operator.

`RefusedIsNotPrepared` is the other way about: it is proved, and no run checks it.

## 6. Not modelled, and why

- Text similarity, reasons and metadata of a match; policies other than the
  default.
- Validation and the content of envelopes and fingerprints: pure functions of a
  payment. One consequence, what the fingerprint omits, is modelled by `bik`.
- `get` on its own: it changes nothing.
- Schema migration: all of it is one `BEGIN IMMEDIATE` transaction
  (`repository.py:136-222`); a crash rolls it back, a second opener waits. What
  could be wrong is which columns each version adds.
- The 1C module: BSL of another platform, with the same table, which the tests
  compare; it shares no state with the Python code.
- `get_payment`, `health` and `count` endpoints: they change nothing. The 500
  that replaces 502 when `register` itself fails (`http_runtime.py:142`).
- Restarts of the emulator, and clients that chose a `callback_url` of their own.
- The in-memory registry and the fallback path of `callback()` it needs: a test
  double, not durable, not shared between processes.
- The mock and file adapters' own state: the claim keeps a second call away.
- `capabilities` other than `status_lookup`: `recovery_contract` only words an
  advice.
- Failure lab, local stack and evidence scripts: I/O around the parts above.

## 7. Plan

1. Done: the core — domain, repository, service, lifecycle; their runs; types,
   the single claim, the single send, the inbox.
2. Done: the reconciliation ledger and the matching policy, with their proofs.
3. Done: `BankEmulator` with its six modes, event loop and callbacks, and its proofs.
4. Done: `PaymentSystem`: runtime, adapter and emulator composed, its refinement
   of `PaymentService` proved, and the end-to-end liveness properties.
5. Done: `RepositoryHistoryProofs` and `ServiceHistoryProofs`: what rows tell, the
   refinements of `RepositorySpec` and `LifecycleSpec`, manual decisions.
6. Done: the service's theorems carried over to the system through
   `SystemImplementsService`, and the system's own safety properties proved.
7. Done: the service with its stale save (what it loses, how often, and that
   nothing is lost without it), variants of handlers and requests, and the
   independence of the order of a list.
8. Left: the 1C state writer beside `RepositorySpec`; restarts of the emulator.
