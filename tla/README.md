# Verification of Support Overlay

TLA+ models of this repository, the TLC runs that check them on small instances,
and TLAPS proofs of what holds for every instance. Every definition is translated
from the source; `PROJECT.json` maps each to its lines. Paths below are relative to
the repository.

## The system

An agent clicks an action in the Zendesk sidebar; the API decides it, queues an
execution with its provider calls, and workers carry them out. Webhooks and provider
lookups keep evidence and a read model (the card) up to date.

| Component | State it keeps | Operations | What must hold |
|---|---|---|---|
| Outbox worker (`apps/api/src/workers/outboxWorker.ts`) | `outbox_messages` with the effects ledger, `action_executions.status` | claim, gate, dispatch, reconcile, retry, block, complete | one worker per row; bounded sends; no report of a refund that was not made; completion once, with all effects |
| Effects builder (`services/effects.ts`), enumerations (`packages/shared`) | none | build effects, retry class, target state | every action has a class, a plan and an effect key |
| Action service (`services/actionService.ts`) | `action_executions`, `approval_requests` | initiate, replay, create, apply transition | one execution per intent; issue moves only on completion |
| Approvals (`routes/approvals.ts`) | `approval_requests` | grant, deny, expire | at most one decision, one execution per approval |
| Operators (`routes/ops.ts`) | repairs of all of them | reconcile, sync ticket, rebuild card, replay, refresh | a repair does not revive a stopped effect |
| Webhooks (`routes/webhooks.ts`) | `inbound_events`, issues, tickets, `pendingIngestion` | deduplicate, route, queue evidence jobs | each event applied once; one issue per ticket; a job taken once; deadlocks of merges only |
| Evidence (`services/ingestion.ts`, `services/matching.ts`, `freshness.ts`) | `evidence_normalized`, `evidence_match_results`, `issue_messages`, `issue_context`, `issue_card_state` | read ticket and providers, store, match, rebuild the card; provider events; deletion | one row per source; annotations of the stored thread; no band that claims too much; a quiet refresh repairs |
| Matching (`packages/matching`) | none | score facts, choose band | what a high band establishes; what contradictions cost |
| Extraction (`packages/extraction`) | none | amounts, dates, identifiers, asks; leads by salience | specific rules win; unwritten years are past; corrections lead |
| Corpus (`services/corpus.ts`) | reads only | tie a span to the customer's records | no possible record is lost; the shown date follows the records |
| Policy (`packages/policy/src/engine.ts`) | none | evaluate rules | total; monotone; no approval when approvals are off |
| Card route, context, history (`routes/card.ts`, `services/context.ts`, `history.ts`) | reads only | assemble the card, check spans, name earlier refunds | marks stand on their words; refunds of the same subject are listed and announced |
| Sidebar (`apps/sidebar`) | open ticket, card, request version, retained keys | follow Zendesk, poll, click, retry, mark the thread | newest card of this ticket; key kept while the outcome is unknown |
| Connectors, database pool | simulator store; transactions | provider calls; commit, rollback | timeouts are told apart from failures |

They interact through PostgreSQL only: `createActionExecution` inserts the execution
and its rows in one transaction; workers find rows by polling; completing the last row
moves `issues.state` and rebuilds the card the sidebar polls. Providers are called
outside transactions, so every call has an outcome the database does not know yet.

Hard to test, and therefore the subject here: interleavings of workers between any two
statements, a crash or a database error between them, provider requests that time out and
land later, and the retry, gate and completion rules that are decided in different
functions; ingestions, events and completions that rebuild one card from rows of different
times; readings of a text that compete. The list, line by line, is under `hazards` in
`PROJECT.json`.

## Modules

| Module | Models |
|---|---|
| `Effects` | `services/effects.ts`, `ACTION_RETRY_CLASS`, `deriveTargetState`: pure definitions |
| `Outbox` | the worker, the tables it writes, the providers as it sees them, two operator routes |
| `ActionContract` | abstract: effects are queued together, settle once, and the action completes once with all of them, moving its issue |
| `OutboxContract` | the refinement mapping from `Outbox` to `ActionContract` |
| `OutboxProofs` | the inductive invariant of `Outbox`, the proof that it implements `ActionContract`, and the theorems that follow |
| `Policy` | `packages/policy/src/engine.ts`: the rule table and `evaluate`, pure definitions |
| `Actions` | the action service and the approval routes, with the components that change the facts of the policy |
| `SubmissionContract` | abstract: a key performs once what was submitted under it; an approval is decided once, and a grant performs in the same step what was asked |
| `ActionsContract` | the refinement mapping from `Actions` to `SubmissionContract` |
| `ActionsProofs` | what the table of `Policy` decides for every input, the inductive invariants of `Actions`, the proof that it implements `SubmissionContract`, and the theorems that follow |
| `Webhooks` | `routes/webhooks.ts` and two operator routes: deduplication, the ticket handlers, the shared queue of evidence jobs |
| `EventContract` | abstract: an event takes effect in one step, once or never |
| `WebhooksContract` | the refinement mapping from `Webhooks` to `EventContract` |
| `WebhooksProofs` | the inductive invariants of `Webhooks`, the proof that it implements `EventContract`, and the theorems that follow |
| `Matching` | `packages/matching/src/index.ts` and `buildFacts` of `services/matching.ts`: pure definitions |
| `Evidence` | ingestion, provider events, deletion, match and card of one issue; EXTENDS `Matching` |
| `EvidenceProofs` | what the bands of `Matching` mean for all facts, and the inductive invariants behind every property of `Evidence` |
| `Sidebar` | the client: `App.tsx`, `zaf.ts`, `useCardData.ts`, `ResolutionCard.tsx`, `ActionPanel.tsx`, `idempotency.ts` |
| `SidebarProofs` | the inductive invariant of `Sidebar` and the theorems that follow |
| `Arrays` | `slice`, `filter`, the stable `sort` and `overlaps` |
| `ArraysProofs` | induction over sets of numbers, and what folds, `filter`, `sort` and `flatMap` return, for every array |
| `Card` | the queries of a card, the earlier issues of the customer, the checks of spans and the marks of a message; EXTENDS `Arrays` |
| `CardProofs` | what the folds of `Card` compute, its inductive invariant and the theorems that follow |
| `Calendar` | days, months and years as `Date` has them, `inferYear`, `previousWeekday` |
| `Conversation` | `packages/extraction`, `services/corpus.ts` and their part of ingestion; EXTENDS `Calendar`, `Arrays` |
| `ConversationProofs` | the calendar, the extractors and the leads for every text, the inductive invariant of `Conversation` and the theorems that follow |
| `MCOutbox`, `MCActions`, `MCWebhooks`, `MCEvidence`, `MCSidebar`, `MCCard`, `MCConversation` | instances for TLC |

### How `Outbox` corresponds to the code

One TLA+ action per statement or transaction that commits on its own, and one per
provider call; `pc[w]` is the next one of worker `w`.

| Code | Actions |
|---|---|
| `createActionExecution` (one transaction) | `createActionExecution` |
| `claimBatch` (one UPDATE … SKIP LOCKED … RETURNING) | `claimBatch`; the returned rows are the snapshot in `batch` and `msg` |
| `processMessage` | `startMessage` (gate, on the snapshot), `markExecutionInProgress`, `appendIntended`, `executeExternalCall` |
| `handleSentUncertain` | `recordUncertain`, `reconcile`, `appendReconciledEntry`, then `markOutboxSent`, `blockForOperator` or `scheduleRetry` by class |
| `handleRetriableFailure`, `scheduleRetry`, `markTerminal` | `recordRetriable`, `scheduleRetry`, `markTerminal` |
| `handleSuccess` | `recordConfirmed`, `markOutboxSent`, then the three of `checkAndCompleteExecution` |
| `checkAndCompleteExecution` | `countPending` takes the issue row lock and counts; `completeExecution` commits |
| `rebuildCardState` (INSERT … SELECT … ON CONFLICT DO UPDATE) | `rebuildCardState` reads on the statement's snapshot, `upsertCardState` overwrites the card, however old what it read is by then; `refreshCard`, `upsertRefreshed` for ingestions and `ops/…/recompute-match` |
| `catch` around `handleSuccess` | `faultInHandleSuccess`: an error of any statement inside goes to the failure path |
| process death; an error that escapes `processMessage` | `abandonBatch`: transaction rolled back, claimed rows left as they are |
| a timed-out request takes effect afterwards | `landLate` |
| `ops/…/reconcile`, `ops/…/sync-zendesk` | `reconcileExecution`, `syncZendesk` |

Data is abstracted to what the properties tell apart: a row is named
`<<execution, operation>>` (the deterministic effect key), a ledger entry is its
outcome, time is whether a backoff has elapsed, a comment body is a constant. Audit
rows, logs and payload texts are left out. `updateEffectStatus` rewrites the last
entry of the ledger, as the code does. `applied` is what the provider has acted on: of its
answer the worker reads the id only, so whether a refund it made is still pending, or
failed or was canceled, makes no difference to any action. `raced` is history: issues
whose card was last written by a rebuild that had overlapped another.

### How `Actions` corresponds to the code

One request is one call of `POST /api/v1/actions`; `pc[q]` is the next query of its
handler, `facts[q]` what it has read. Each query is a step, because `initiateAction`
reads outside any transaction.

| Code | Actions |
|---|---|
| `initiateAction`, step 0 | `lookup` |
| steps 1 to 3 | `readConfig`, `readDegradedState`, `readAbuseSeverity` |
| evidence, `evaluate`, a denial | `readEvidenceAndEvaluate`, with the table of `Policy` |
| `createActionExecution`, and the unique violation | `createActionExecution`, `resolveUniqueViolation` |
| `createApprovalRequest` | `createApprovalRequest`; it stores no key |
| a failing statement, a dead process, a lost answer to COMMIT | `faultInHandler`, the faults of the writing steps, `LoseAnswer` |
| `routes/approvals.ts` | `beginDecision` (the toggle), `grant` (one transaction, row lock), `deny` |
| `expires_at` | `ApprovalExpires`; a grant then throws, and its update to EXPIRED is rolled back |
| `ops` tenant-config, webhooks, ingestion | `updateTenantConfig`, `recordReopen`, `routeStripeEvent`, `routeShopifyEvent`, `handleTicketDeleted`, `ingestTicketContext`: what they do to the facts |

A generated id is named by what generated it (request or manager's call), a missing
amount is 0 as in the rule, and of an age only whether it matters: a signal older than
30 days, an approval older than 24 hours. `newest` is the set of rows that share the
latest `fetched_at`: ingestion writes both sources with the time of one transaction, so
`ORDER BY fetched_at DESC LIMIT 1` may pick either. Who is a manager is fixed, because
nothing in the program writes `manager_grants`. `mildest` is history: no action reads it.

`Actions` and `Outbox` meet in `createActionExecution`: what `Actions` inserts,
`Outbox` finds queued. A client's idempotency key never equals `approval_<id>`, which
the server derives from a fresh id.

### How `Webhooks` corresponds to the code

One request is one delivery of a signed event; `pc[r]` is where `ingestEvent` is.
Requests of one process interleave at every `await`, and the transaction has a row lock
wherever PostgreSQL makes another one wait.

| Code | Actions |
|---|---|
| `queuedBeforeThisAttempt`, read before the transaction | `receive` |
| `INSERT … ON CONFLICT DO UPDATE`, waits for the row (`Locked`) | `insertEvent`, `commitDuplicate` |
| `routeEvent`, the handlers' reads and the push of a job | `routeEvent` |
| `UPDATE issue_tickets` of a deletion, and of a merge for each id in turn, waits (`Holds`) | `updateTicket` |
| `INSERT INTO issue_tickets`, waits (`Linking`), may violate UNIQUE | `linkTicket` |
| the database ends a circle of waits (`WaitsFor`, `Circle`) | `deadlockDetected` |
| COMMIT of what the handler wrote (`Apply`), whose answer may be lost | `commit` |
| any statement fails | `statementFails` |
| `catch`: `pendingIngestion.length = …` | `discardJobs`; a greater length appends holes |
| `drainPendingIngestion`, `ingestTicketContext` | `takeJob`, `endDrain`, `ingest` |
| process death | `restart`: the queue is gone, transactions are rolled back |
| `ops/inbound-events/…/replay`, `ops/issues/…/refresh-evidence` | `replayEvent`, `refreshEvidence` |

An issue is named by the request that inserts it. Of the evidence of an issue only
whether it was stored is kept; what deletions, reopens and provider events do to the
facts of the policy is in `Actions`, which takes each as one step. `routed` is history.
Left out: signatures, the fixture endpoint, the 30 days after which a reopen no longer
counts (fewer count then, so the bound of `SignalsAreEarned` stands), an event that
is a merge and a reopen at once, and the rows of `evidence_normalized`, for which
deletions and provider events may wait as well (`Evidence` has those waits). A drain that
meets a hole ends; no property promises that the jobs behind it are taken.

### How `Evidence` corresponds to the code

One process is one call of `ingestTicketContext`, from a drain or a refresh; `pc[p]` is
its next await. A provider's record may change at any time, which sends an event.

| Code | Actions |
|---|---|
| the ticket is read, or cannot be | `readTicket` |
| `lookupStripe`, `lookupShopify` | the same names; an archived order (404) is a tombstone |
| the transaction of `persistThread`, `upsertEvidence`, `persistContext` | `beginPersist` (what it sees and deletes, its keys), `commitPersist`, `persistAborted` |
| `recomputeMatchForIssue` | `selectEvidence`, `insertMatch` |
| `rebuildCardState`, one statement that may wait between its read and its write | `rebuild` and `upsert`, and `ActionCompletes` for the worker's call of it |
| `routeStripeEvent`, `routeShopifyEvent`, `recomputeAffected` (one transaction) | `routeEvent` (row locks), `commitEvent`; `missEvent` when the rows it waits for are gone |
| `handleTicketDeleted` | `handleTicketDeleted` |

A row is named by source and ingestion; its value is the refund's status or the order's
financial status, from which the other columns follow. `fetched_at` counts transactions.
Ties of `ORDER BY fetched_at DESC LIMIT 1` are resolved either way. A refund that was made
may fail later and be followed by another. An event has a kind: `refund.updated` carries
the refund's status, and `charge.refunded`, sent as soon as there is a refund, is stored
as succeeded whatever that status is (`StoredStatus`). `undisturbed` and `reported` (what
providers ever had or told) are history. Left out: `ops/…/recompute-match`, whose steps are
the last of an ingestion, and the ticket's id on the card.

### How `Sidebar` corresponds to the code

| Code | Actions |
|---|---|
| an agent opens a ticket | `switchTicket` |
| `getContext` of `zaf.ts` answers, or its timeout passes | `ContextArrives`, `ContextTimedOut` |
| the interval and `refetch` of `useCardData` | the poll; `CardServed` at the API, `CardArrives` at the client |
| `handleAction` of `ActionPanel` with `keyFor` | `handleAction` |
| `POST /api/v1/actions` with `idempotency_key` | `ActionServed`, then `ActionAnswered` or `ActionLost`; both orders, for a request that is given up may still arrive |
| an execution completes | `ExecutionCompletes`: a new version of the card |

The API is `Actions` seen from outside: a key it knows returns its execution. Intents
are history: a click means what the last unanswered one of its button meant, if there
is one. Left out: the standalone demo; that a refetch 500 or 600 ms after an answer is
one of the polls; React's StrictMode.

### How `Card` corresponds to the code

The statements of one GET are `readContext`, `readMessages`, `currentSubject` and
`assembleCustomerHistory`; between any two, `ingest` stores a new reading, `erase` drops a
body, and of other issues `persistContext` stores another subject or `rebuildCardState`
any refund status, also an empty one. The answer lists interactions
(`refundedSameSubject`) and its critical notice names the newest of them
(`priorRefundSameSubject`). `seen` is history: the rows each other issue has had since the
request began. What is computed from them are operators named as in the code, from
`validateSpans` to `toSegments`. A text is a sequence of characters of which only equality
matters. Copied columns, freshness, the notices about repeated contact and frequency, and
issues opened while the card is read are left out.

### How `Conversation` corresponds to the code

A text is what the regular expressions find in it: matches with rule, span and capture.
What the code then does with them is translated: the order in which rules are tried and
claim spans, which matches are rejected, how a date gets its year, `salience` and
`best`, the corpus, and `resolveSpan`. The first messages of a thread are the
ticket's subject and description, which `toTextSources` turns into texts of the customer
before the comments. The steps of an ingestion are `readTicket`
(extraction in it), `loadCorpusForIssue`, `lookup` and `persistContext`; messages are
written and records appear between them. Days are numbers; months and leap years are
exact from 1901 to 2099. Left out: the expressions themselves, the separators of amounts,
merchants, and highlights, which only the audit log receives.

## Runs

| Run | Instance | Shows |
|---|---|---|
| `outbox_refund` | a refund and its comment, 2 workers, 3 attempts, batch 1, 1 crash, 1 fault | claims exclude, budget, no report of a refund nobody made, gate sound, stopped rows stay stopped |
| `outbox_completion` | a close with a comment and an escalation of one issue, 2 workers, batch 2, 1 attempt, 1 other that rebuilds the card | types, one transition, no completion lost, card follows unless rebuilds overlap, `ActionContract` implemented |
| `outbox_settle` | a comment and a notification, 1 worker, 2 attempts, 1 fault, fair | effects settle, single-effect executions end |
| `actions` | 2 requests with 1 key for an action of any risk tier, 2 managers, 1 change of facts, 1 fault | one execution per key, decisions agree and are final, none is milder than the policy's for the mildest facts, `SubmissionContract` implemented |
| `webhooks` | 3 deliveries of 6 events about 2 tickets (2 merges list both, in opposite orders), 1 fault, 1 restart, 1 replay | events applied once, one issue per ticket, signals earned, jobs taken once, only merges that list tickets in no common order deadlock, `EventContract` implemented |
| `evidence` | 2 ingestions of a ticket that names a charge and an order, 1 change at a provider, deletion, 1 completion | one row per source, annotations of the stored thread, no high band that nobody reported, a quiet refresh repairs |
| `sidebar` | 2 tickets, 1 lookup, 2 requests for a card in flight, 2 clicks, fair | types, retries act once, new intents act, cards never go back, screens settle |
| `card` | a message in three versions, 3 other issues of which 2 are shown, 1 change of them | marks are true, the stronger reading shows, refunds are noticed |
| `conversation` | up to 3 of 6 messages, 4 records of two years | no reading is lost, shown dates follow records, unwritten years are past, corrections lead, specific rules win |
| `viol_crash` | a close, 1 crash, fair | a claimed row stays claimed |
| `viol_threshold` | a refund above the threshold, facts that do not change | it is executed without approval |
| `viol_key` | the instance of `sidebar` | one intent is executed twice |

Bounds. Three executions or three workers add no pairing that two lack: rows interact
through their execution (two effects), executions through their issue (two executions),
workers through rows and the issue lock (two workers). Three attempts give a first, a
middle and a last one. One crash and one fault suffice for every property here to meet a
failure before, between and after the steps it relates; the budget theorem holds for any
number. With a batch of one no message of the refund waits behind another; messages that
wait in a batch while their effect settles are covered by the theorem (`GateIsSound`). A
third that rebuilds a card, beside two workers, makes every overlap of an old read with a
newer write. Refund and completion instances differ because crossing all bounds exceeds
what TLC enumerates. Deadlock is not checked: an idle worker polls, which the model shows
as no step at all, and requests end. In `Actions` two requests and two managers give every
race for a key or an approval; amounts and thresholds matter only as below or above each
other; one change falls before, between or after any two of the handler's reads. In
`Webhooks` two deliveries race for an event, a ticket or a job while a third makes the
queue shorter or longer; with two redeliveries of one reopen and a gate of 2, counting one
of them twice shows. Two tickets make a circle of two merges, and three deliveries add one
that waits outside it. In `Evidence` two ingestions overlap in every way two can, and with
one event the order of arrival, its locks and the rows it misses are all met; a refund
begins absent or made, and one completion reads and writes the card between any steps of
the others; of change, completion and deletion two happen in one behaviour
(`MaxIncidents`), in any order, and all three are left to the theorems, which hold for any
bound. In `Sidebar` a poll overtakes another and a retry follows its click. In `Card` the
limit of two shown issues of three makes the cut and lets the notice name one of two;
`MaxRows` bounds the rows of other issues while a card is read, and the fourth is a
change. In `Conversation` three messages make a first, a middle and a last one for
recency, and the records hold one day of two years, a shared amount and a refund. One
ingestion is enough, because the next replaces all it stored. The theorems have no bounds.

Fairness. `FairSpec` assumes that a worker with a possible step takes one (the loop of
`startOutboxWorker` catches errors and goes on; provider calls end after 10 or 15
seconds) and that backoffs elapse. Nothing is assumed of clients, operators, crashes,
faults, or of requests that were given up on. Liveness is stated without crashes,
because a crash strands claimed rows (`viol_crash`).
`FairSpec` of `Sidebar` assumes that the timer of a lookup fires, and that the newest of
the polls is now and then answered before the next one replaces it (strong fairness: an
API that always takes longer than the interval of 3 s leaves the spinner for ever, since
each poll makes the one before it stale). Nothing is assumed of agents or of actions.

## Findings

Statements of the repository that the code does not keep, each with a run:

1. `viol_crash`: rows left IN_PROGRESS by a dead worker are never claimed again.
2. `viol_threshold`: the threshold for a manager's approval is compared with the refund
   that the newest evidence row already shows, or with 0, never with the amount the
   action asks for, which is the one sent to the provider.
3. `viol_key`: a poll that fails replaces the card by an error and unmounts the panel
   with its keys; the repeated click then has a new key and acts twice, although the
   panel had said it would not.

### Known behaviours

Seen while modelling; the models behave so, and no run states the opposite.

Worker. Of the provider's answer only the refund's id is read (`outboxWorker.ts:652-658`,
`684-688`): a refund that is `pending`, has `failed` or was `canceled` is recorded CONFIRMED
and completes its execution, so `RefundReportedOnlyIfMade` says that the provider has made
one and not that money moved. `SENT_UNCERTAIN` counts as settled (`outboxWorker.ts:49`), so the second claim
of a close whose update timed out completes it and moves the issue unconfirmed, although
`001_baseline.sql:424-426` says transitions are "written only after an execution confirms
- never on intent". The comment that announces a refund is not ordered after it
(`outboxWorker.ts:109`; `effects.ts:72-73` says "refund first"). The error path retries
refunds whatever their class (`outboxWorker.ts:175`; README.md:65-66 says "never
auto-retried"); the provider's idempotency key keeps the money from moving twice. A late
status update may put a ticket back behind a newer one. A sibling effect
that starts late sets a FAILED_TERMINAL execution to IN_PROGRESS (`outboxWorker.ts:151`); an execution parked
for an operator is set FAILED_TERMINAL although its request may have landed
(`blockForOperator`); a failed statement after the completing commit turns a COMPLETED
execution, whose issue has moved, into a failed one (`outboxWorker.ts:161-176`);
reconciliation accepts a status or a comment body somebody else wrote. A database error
inside `handleSuccess` rewrites the ledger entry CONFIRMED to FAILED_RETRIABLE, or
FAILED_TERMINAL, although the provider has answered; the properties bound the extra
requests only. Two rebuilds of one card that overlap may leave the older of their
snapshots, and nothing rebuilds the card then (`metrics.ts:168-178` counts such cards).

Actions. `reopen_issue` and `refresh_evidence` have no effects, so nothing ever completes
their executions; a submit that needs
approval stores no key, so a retry asks for a second approval, and both may be
granted (`actionService.ts:202`); an approval of a refund without a charge can be asked
for and never granted; approvals that are pending when the toggle is switched off can
be neither granted nor denied; `computeDegradedState` never reports a stale or an
unreachable source, so two rules of the table are not reached through the service.

Webhooks and evidence. A failed event cuts `pendingIngestion` to the length it had when
the attempt began, and with it jobs other requests queued since (`webhooks.ts:339`; the
comment at 270-272 says "exactly what this attempt added"). A drain may take the job of
an issue that another request has not committed, and the job is gone; an operator's
replay sets RECEIVED and nothing reads it; `ops/…/rebuild-card-state` names a conflict
target that no constraint has (`ops.ts:82`). Two merges that list the same tickets in
opposite orders wait for each other (`webhooks.ts:494-500`); the database fails one, whose
event is answered 200 and lost. A `charge.refunded` is stored as `succeeded` whatever the
refund's status is (`webhooks.ts:814`), a `canceled` refund of an event as `pending`
(`webhooks.ts:833`). Provider events update rows and match
without rebuilding the card, so it may show a refund that has failed since, with its high
band, until a refresh; overlapping rebuilds may also leave an older card; an event that
waits for an ingestion's transaction finds its rows gone and is lost; two events may each
compute the match from the other's old row. A refund status `canceled` violates a CHECK
and the ingestion throws. An archived order that is read again loses its last known
values. The card takes the newest row of a tie while the match hangs off the row of the
charge. A deleted ticket keeps match and card. `buildFacts` falls back to the order itself
for the ticket's reference, so that signal never disagrees.

Sidebar and card. The issue_refund button is never offered, because the API sends no
actions and the default ones lack it. Requests have no timeout of their own. Two lookups
of different tickets that resolve out of order show the wrong one until the next switch.
A key that is kept may swallow a later intent if the agent took the outcome from the card
and never retried. Nothing erases a body but the schema admits it, and a new ingestion
would store it again. The history reads the refund status of the card row of an earlier
issue, which is empty when its newest evidence is an order. Its critical notice names the
newest refund of the same subject only, for the route drops the list of issues
(`card.ts:176-180`); the others are in the list of interactions, where a refund without an
amount is not marked as refunded (`HistoryPanel.tsx:101-103`).

Conversation. "order #1001" is looked up under the id 1001, gets 404, and the tombstone
takes the place of the customer's own order of that name, although `ingestion.ts:564-565`
says "Key both so the span resolves whichever the text carried". A later public message
of an agent outranks the customer's (recency weighs 0.1, role 0.0075), although
`index.ts:142-143` says such notes "should not outrank the original". "On the 22nd" is
this month or a year ago, never last month; "the 31st" and "2/29" roll over. Years are
settled by records of any later time. Amounts are compared without their currency, so
¥500 matches 500 cents. "receipt #1001" is read by the weaker of two rules, which is
tried first. 13/14/2026 becomes a day of the next year.

## Proofs

`OutboxProofs` proves, for any executions, workers, batch size, number of attempts,
crashes and faults (assumption `ConstantsAssumption` of `Outbox`): `TypeOK`,
`ClaimExclusive`, `AttemptBudget`, `RefundReportedOnlyIfMade`, `NoDispatchOfSettled` and
`StoppedRowsStayStopped`. None is inductive alone. `IInv` says, for each row, how status,
attempts, requests and ledger bound each other (`RowOK`); for each worker, what is known
at the statement it is about to execute (`ProcessedOK`) and of the messages it has not
started (`ClaimedOK`); and that the effects of a COMPLETED refund have been acted on
(`CompletedOK`). The gate theorem needs it: the snapshot of a claim stays true because
only the worker that holds a row can settle it. The step proof has one lemma per group of
actions; `OwnStepKeeps` reduces a step to its own row, message and execution.

`OutboxProofs` also proves that `Outbox` implements `ActionContract` when
`MaxDbFaults = 0`, for any number of crashes. The assumption is needed: a fault in the
card rebuild fails an execution that has completed. The extra invariant `CInv` says a
COMPLETED execution has all rows SENT and the worker between count and commit still
sees them so, which holds because SENT is final. From the contract, in which a completed
execution stays completed, it follows that no execution writes two transitions
(`OneTransitionPerExecution`). Without crashes either (`MaxCrashes = 0`), every execution
whose effects are all SENT is completed or has a worker about to complete it
(`CompletionNotLost`), and a card differs from its issue only while a worker is about to
show the issue as it is, unless the rebuild that wrote it last had overlapped another
(`CardFollowsIssue`). For the latter `StatementsOK` says that of two statements under way
for one issue neither is alone, and that one which is alone has read the issue's state or
a worker follows that will. A crash between the commits breaks these two, as the
code keeps no record of what is left to do.

`ActionsProofs` first proves of `Policy` that the table of rules, in its order, decides
what a definition by risk tier says (`EvaluateIsRuling`), never asks for an approval when
approvals are disabled, and is monotone: worse facts never give a milder outcome.

It then proves every property of the runs of `Actions`, under
`ActionsAssumption`, for any requests, keys, managers, faults and changes. `AInv` joins
the unique key, what handlers that have not answered cannot have done (`HandlersOK`),
the link between an approval and the execution under its key (`ApprovalsOK`) and what
managers were told (`CallsOK`); two managers are told apart because a decision needs a
PENDING approval, which no earlier decision leaves. `FactsInv` says that what a handler
has read, and what it may still read, is no milder than `mildest`; with the
monotonicity of the policy this gives `TornReadsAreSafe`. The types of `Actions`, and
that EXPIRED is never stored, are a theorem only (`TypeCorrect`).

From `AInv` it also follows that `Actions` implements `SubmissionContract`
(`ServiceImplementsContract`). The mapping reads what was performed off the executions,
by key; the proof goes handler by handler. The unique key makes an insert the first
under its key (`CreatePerforms`); an answer names an execution that is there
(`ReplayTells`); and an approval that is still PENDING has no execution, so that a grant
adds exactly what its request had asked for, in the step that decides (`GrantGrants`).

`EvidenceProofs` first proves of `Matching`, for all facts, amounts, times and tolerances,
what the bands mean: a HIGH or EXACT band has an agreeing identifier, a refund that was
made and no missing source; EXACT leaves nothing open; a charge of another refund leaves
NO_MATCH and a failed refund at most LOW.

It then proves every property of the run of `Evidence` for any ingestions, providers'
changes and deletions, under `EvidenceAssumption` (`None` is none of the values it stands
beside). `OneRowPerSource` is not inductive, for a transaction deletes only the rows that
were committed when it began. `RowsInv` adds what saves it: only a transaction with a
thread inserts rows (`TextFirst`), the key of `issue_messages` admits one such at a time
(`OneThread`), so it has seen every row there is (`SeesAll`), and what an event writes
back is locked and still there (`RowsHeld`). For the bands, `RealInv` says that an answer,
an event, a row, a match computed and not yet stored, a card read and not yet written, and
the card claim a refund only if a provider once had it as made or told that its charge is
refunded (`reported`). Nothing is assumed of what becomes of refunds: what was reported
once has been, and a band over such rows is honest by what the bands mean, about the past.
It needs one row per source, for the match of two rows of one time could be of either.
`QuietRefreshRepairs` is an action property over the last step of a whole ingestion, so
its invariant says what each earlier step has achieved (`QuietInv`): who is undisturbed
runs alone and no event is half done (`Lonely`), what was read is still so (`Fresh`), all
rows and the thread are its own from its commit on (`Persisted`), the match is that of
these rows (`Matched`), and so is the card it has read and not yet written, which is why
what a completion wrote in between does not matter; one that writes later may still show
what it had read before. The commit replaces every row only because all of them have been
seen and belong to a source the text refers to, and the stored match counts as the newest
only because no other is of a later time; `LedInv` keeps these for whoever writes.

`WebhooksProofs` proves every property of the run of `Webhooks`, under
`WebhooksAssumption`, for any deliveries, events, tickets, gate, faults, restarts and
replays. `WInv` joins five parts: a row stands for one routing, and the transaction that
routes an event has it alone (`RowsOK`); a ticket's row that is about to be committed is
the only one (`TicketsOK`); what a transaction counts exceeds the distinct reopens by one
at most, its own (`SignalsOK`); a job is queued by the request whose issue it names, so no
job is queued twice (`JobsOK`); what a merge holds are tickets that come before its next
one in its list (`LocksOK`). Its types are a theorem only.

That `Webhooks` implements `EventContract` (`IngestionImplementsContract`) is proved
with a further invariant, `FoundOK`: a handler reads in one step and commits in another,
and what it knows by then may be old but not false. The issue it found is still the
ticket's, a ticket known from the beginning was found, and the reopens it counted, its
own included, are no more than there are when it commits. Of all
steps only a commit is one of the contract (`OnlyCommits`, `CommitTakes`); restarts,
duplicates, failures and replays map to stutters (`ContractStutters`). `DeadlocksAreMerges`
says who can wait in a circle (`OnlyMergesDeadlock`): the guards that hold a handler back
are just the waits of `WaitsFor` (`BlockedMeansWaits`); who is waited for holds something,
so everyone in a circle is a merge between two of its tickets (`CirclesUpdate`); and if one
order agreed with all their lists, whoever waits for the ticket that is least in it would
be waited for, hence hold a ticket that is still less (`Descent`).

`SidebarProofs` proves every safety property of the run of `Sidebar`, for any tickets,
lookups, buttons, clicks and requests, under `SidebarAssumption`. In `SInv` a key and an
intent are named by the click that minted them and every other click that carries them is
compared with that one (`FamiliesOK`), so that no claim ranges over two clicks of the same
family at once; the panel holds the key of an intent exactly while it is waited for or
unknown (`HeldOK`, `UnknownHeld`), and executions are what the API made of the keys it was
sent (`ExecutionsOK`). For `CardNeverGoesBack`, `LoadsOK` and `ShownOK` order the versions
of a request: what was shown when it was sent, what it is answered with, what is there now.

`ArraysProofs` holds what `Card` and `Conversation` need of arrays. The induction
theorems of the library take a predicate as a parameter, which the provers cannot
instantiate. Here induction is over a set in its place (`Induction`, from the library's
fact that < on the numbers is well-founded), which is enough to prove for sequences of any
length that a fold runs step by step (`FoldSteps`), that `filter` keeps the
elements in order, that `sort` is an ordered permutation (`InOrder`) and what
`FlattenSeq` contains.

`CardProofs` proves every property of the run of `Card`, for any extractions, other issues
and limit. `CardAssumption` says of an extraction what `provenanceOf` ensures, that an
excerpt is the text at its offsets (`IsExtraction`), and that a customer has finitely many
issues. First come the folds: of overlapping spans one of the highest priority is kept,
the kept ones do not overlap, and the segments cut by them put the text together
(`KeptAfter`, `Cut`). `CInv` says that what is stored and what a request has read are of
extractions, although not of the same one, and that each row it has read is one that this
issue has had since the request began (`seen`). Nothing is assumed of how rows change: a
refund that is there all the time is what was read, and one that was read was there at
some time.

`ConversationProofs` proves every property of the run of `Conversation`, for any texts,
records and number of messages. `ConversationAssumption` says what a match of the regular
expressions is (`IsMessage`): captures of one or two digits, a match that is not empty, one
match per rule and place but for asks. It proves of `Calendar` that a day lies in
exactly one month of one year, and of `inferYear` that the year puts a month and day on
or before the message and is the latest that does. Each extractor is a fold over the
matches by rule and place, and what it leaves out was refused or overlaps what
a rule tried no later had claimed; `best` returns a signal of the greatest salience, and a
later message of the customer with no less confidence weighs more, whatever the
length of the conversation. `ConversationInv` then says what of this an ingestion has done
at each step, and that what is stored is made of the messages and the records it read.
The expressions for month names admit a day such as 45 (it becomes a day of a later
month, perhaps after the message), so `UnwrittenDatesArePast` is about days up to 31.

Only model-checked: the liveness properties
(`EffectsSettle`, `SingleEffectExecutionsEnd`, `ScreensSettle`), which are about fairness
and out of the prover's reach.

## Plan

Everything planned is modelled, and every safety property the runs check is proved.

Not modelled, and why: authentication, CORS, logging, audit and metrics keep no state
others depend on; scripts and demo data are outside the running system; the simulator
behind the connectors stands in for the providers, which the modules model as their
callers see them; regular expressions and wording are what the models abstract from.
