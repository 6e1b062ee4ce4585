# Verification of Solana Whale Intelligence

TLA+ models of the service's own logic, the TLC runs that check them on small
instances and TLAPS proofs of what they establish for every instance. The
service is a Rust monolith over PostgreSQL: a set of endless loops
(`src/workers.rs`, started by `run_workers` and `main.rs`), a command line, an
HTTP API, and a database that is shared by every process of a deployment and is
the only place where they meet. Nothing holds a lock across statements except
where the code says so, so almost every hard question is of the same shape: one
process has read something, another one writes, and the first one acts on what
it read.

## 1. Inventory

| Component | State | Operations | Interacts through | Hard behaviour |
|---|---|---|---|---|
| Alert outbox (`signals.rs`, `alerts.rs`, `workers.rs`) | `alerts` rows: state, attempt count, claim token, lease, next attempt | `claim_alert`, `mark_alert_sent`, `mark_alert_failed`, the due selection, `dispatch_alerts`, the radar producer | the row; the Telegram Bot API | two dispatchers on one row, a crash or a slow send that outlives the lease, an answer nobody received, the attempt cap |
| Signal evaluation (`workers.rs`, `signals.rs`) | `signal_eval_claims`, `signal_evaluations` | `evaluate_due_signals`, `evaluate_token_fenced`, `release_eval_claim` | the claim row; the evaluations the next selection looks at | a batch read once per pass, a lease that runs out inside a transaction whose `now()` is frozen, a release by a worker that lost its claim |
| Funding radar (`funding_radar.rs`, `workers.rs`, `main.rs`) | `funding_radar_cases`, `funding_radar_events` | `ingest_funding_event`, `record_case_evidence`, `link_deployment`, `evaluate_radar_case`, `evaluate_radar_cases`, `pending_funding_alerts` | the case row; the outbox | reads and update are separate statements, two evaluators, transfers delivered twice, a batch limit, a crash between promotion and alert |
| Block polling (`workers.rs`, `db.rs`) | `chain_sync_state.cursor` | `robinhood_funding_loop`, `get_sync_cursor`, `set_sync_cursor` | the cursor row; the radar | failed fetches, dropped errors, two processes on one cursor |
| Helius pool (`helius.rs`) | per key: token bucket, cooldown, circuit breaker | `rpc_request` and its retries | shared by all loops of a process | who waits, who retries, when a key comes back |
| Migrations (`db.rs`, `migrations/`) | `public._migrations`, the advisory lock, the schema | `run_migrations`, the baseline consent, three preflight repairs, the schema check of a starting service | the ledger | migrators that start together, a run that dies between statements, digests nobody verified |
| Queue backpressure (`queues.rs`, `workers.rs`, `admin.rs`) | `queue_state`, in-memory pauses and lags | `queue_allowed`, `set_queue_pause`, `pause_bottom_up`, `resume_all` | gates every loop | read before a round, an authority that cannot be read, order of pausing |
| Retention (`maintenance.rs`) | the raw tables, the state `health` reads | bounded deletion cycles, the prune command | the raw tables; health | ceilings and backlog, a task that dies silently |
| Wallet policy (`filter.rs`, `db.rs`) | `wallet_labels` | label, revoke, expire, classify automatically, read the disposition | scoring, sync and evaluation ask it | a label between read and write, two tenants on one wallet |
| Wallet graph (`graph.rs`) | funding edges, cluster memberships | `update_funding_edges`, `record_edge_evidence`, `rebuild_cluster_for` | the gate counts clusters as buyers | edges read before the transaction that folds clusters |
| Admin panel (`auth.rs`, `admin.rs`) | `admin_sessions`, login attempts, settings | login, logout, expiry, write authorisation, settings batches | every panel request | the failure window, a store that fails in the middle, lost answers |
| Ingest and wallet sync (`ingest.rs`, `helius.rs`, `db.rs`) | raw events, transfers and trades, edges; the `before` cursor of one sync | `ingest_webhook`, `ingest_transaction`, `sync_wallet` | the raw-event store, the graph | redelivery after an error or a crash, when is a history complete |
| Telegram (`telegram_client.rs`, `telegram_ingest.rs`) | `telegram_channels`, messages by version, mentions | the poll loop, `ingest_message`, the allowlist | replay reads mentions | removal during a poll, dropped errors, edits |
| GMGN client (`gmgn.rs`) | token bucket with a pause | `query` and its loop | the discovery worker | pauses that follow each other |
| Recent intelligence (`sf/recent*.rs`, `workers.rs`) | append-only `recent_events` | `run_for_anchor`, `append_recent_event`, retractions, two projections | the API | two workers on one anchor, rows of earlier releases, disclosures of missing evidence |
| Scoring and cost basis (`scoring.rs`, `sf/cost_basis.rs`), replay (`replay.rs`) | none | FIFO matching, scores, as-of reads, paper metrics | evaluation reads scores | order of input, boundaries |
| Decision rules (`sf/intent.rs`, `sf/execution*.rs`, `sf/autonomy*.rs`, `sf/source*.rs`, `sf/strategy_runtime.rs`, `sf/revival_runtime.rs`, `sf/signal_gate.rs`, `sf/decision_runtime.rs`, `sf/portfolio_runtime.rs`) | none of their own | one decision each | each other: what one calls allowed another must not forbid | illegal sequences of legal calls, disagreement between two rules |
| Adapters, text, reporting (`chains.rs`, `telegram_parse.rs`, `narrative.rs`, `api.rs`, `health.rs`, `config.rs`) | none that other parts rely on | - | - | - |

What makes the components correct is what the properties of section 4 say; the
hazards in `PROJECT.json` name, line by line, what could break each of them.

## 2. How the project is organised

One module per component, each with its own prefix where components are checked
side by side (`mg`, `qg`, `rt`, `wp`, `wg`, `ap`, `in`, `tg`, `gm`, `rc`). The
components with the hardest concurrency and the deepest failures have runs of
their own: outbox, evaluation, radar, pool. The others share three runs. They
share no state (different tables, or none), so instead of a product of state
spaces each of these runs has a variable `mode` that chooses, in the initial
state, which component runs; the others stay in an initial state and each
fairness condition is that of the component that runs. A property of a component
is then checked over all behaviours of that component and is trivial elsewhere.

| Run's module | Composes |
|---|---|
| `MCService` | `Migrations`, `BlockCursor`, `QueueGate`, `Retention` |
| `MCStores` | `WalletPolicy`, `WalletGraph`, `AdminPanel`, `Ingest`, `TelegramIngest`, `GmgnBucket` |
| `MCIntelligence` | `RecentPipeline` (through `MCRecentPipeline`), and through `MCAlgorithms` `Algorithms`, which extends `RecentResolver`, `CaseRepair`, `Scoring`, `Replay`, `ForgeRules` |
| `MCAlertOutbox`, `MCSignalEval`, `MCFundingRadar`, `MCHeliusPool`, `MCBlockCursor` | one component each |

The proofs are in modules of their own, which extend the components they are about
and nothing of the instances, but for the radar's, which take the variable `solo` from
`MCFundingRadar` because a property of the run speaks of it:

| Proofs | About |
|---|---|
| `AlertOutboxProofs`, `SignalEvalProofs`, `FundingRadarProofs`, `HeliusPoolProofs` | one component each |
| `ServiceProofs` | `QueueGate`, `Migrations`, `BlockCursor` |
| `StoresProofs` | `WalletGraph`, `AdminPanel`, `WalletPolicy`, `GmgnBucket`, `TelegramIngest`, `Ingest` |
| `RecentProofs` | `RecentPipeline` |
| `AlgorithmProofs` | `RecentResolver`, `CaseRepair`, `Scoring`, `Replay`, `ForgeRules`, as `Algorithms` gives them their inputs |

Worth doing next: a composition of `FundingRadar` and `AlertOutbox` in which the row
that `Emit` and `Drain` create is the outbox's row; the exit criteria beside the entry
gate; and the parts of section 7 once the service calls them.

## 3. The modules

Every module keeps the control of the code: one action per statement that
another process can come between, guards from its conditions, errors and crashes
as actions of their own. Data is abstracted to what the properties tell apart.
A timestamp column is kept as the time left or the time since where the SQL only
compares it with `now()`. Constants named `...MaxAborts`, `...MaxFaults`,
`...MaxFails` bound the crashes and errors of a behaviour, and a definition that
follows the word Mutant in a comment, or a comment on faulty variants, is a
deliberately wrong version of the one after it, kept to show that the properties
notice it.

### AlertOutbox, AlertDelivery

`alerts` is the table, one row per delivery identity (`alert_dedup_key`). A
claimant is a dispatcher (`dispatch_alerts`: `Select`, then for each key
`Terminalize`, `Claim` or `ClaimLost`, `Send`, `MarkSent` or `MarkFailed`) or the
radar's producer, which claims the row of the case it has just promoted
(`Offer`). `claim_alert` is two statements, the terminalization of an exhausted
row and the upsert that claims, and so two actions. `Send` is the call of the Bot
API: the provider accepts or not, and what the claimant learns may differ from
it. `Abort` is a crash or a propagated error anywhere, `Tick` lets leases and
backoffs run down. A claim token is a UUID in the code; it is only compared
within one row and each successful claim mints one, so the n-th claim of a row
carries n.

`AlertDelivery` is the promise without the machinery: tries up to the cap,
acceptances and refusals by the provider, one final status.

### SignalEval

`claims` is `signal_eval_claims`, `age` the time since a token's latest
evaluation. A worker selects a batch (`Select`), claims a token (`Claim`, or
`Skip` when it is taken), reads its facts outside any transaction, and then runs
the write transaction: `Begin` freezes `now()`, `Verify` takes the row lock and
tests ownership and lease against the frozen clock, `Commit` writes the
evaluation and deletes the claim. `Fail`, `Release`, `LoseRelease` and `Abort`
are the error paths. `ClaimIds` are the UUIDs in existence at one time.

### FundingRadar

`cases` and `events` are the tables; `older` is the order of `updated_at`, which
decides the batch. `Arrive`, `Create`, `RecordFirst`, `RecordMore` and
`UpdateFanout` are the statements of `ingest_funding_event`; `RecordEvidence` is
`record_case_evidence` and `link_deployment`. An evaluator is a worker loop
(`StartPass`) or an operator's command (`Ask`); both run `evaluate_radar_case`,
which is `Fetch`, `ReadEvidence` and `Write`. The loop then claims the alert
(`Emit`); `Drain` is the dispatcher's derived intent. Only transfers that
qualify appear. As `robinhood_funding_loop` calls it today, without a native
price and without a percentile, no native transfer qualifies, and
`record_case_evidence` and `link_deployment` have no caller outside the tests:
the model is of what these functions do once they are fed.

### BlockCursor

One loop is `Begin` (or `BeginUnread`, when the cursor cannot be read and counts
as 0) and then, block by block, `Fetch`, `Ingest` and `Save`, with their failing
forms. `tried` and `stored` are history variables: the blocks some loop asked
for, and the blocks whose transfers were all ingested.

### HeliusPool

A task's request is `Pick` (the round-robin cursor), then `Look` (`is_available`)
and `Take` (`try_acquire`) for each key in turn, and then either the answer, a
sleep on the best key (`Wake` ends it), or `Drain`, the search for the shortest
wait after which the request fails. The answers are `Success` with `Close`, an
`ApplicationError`, `RateLimited`, `ClientError` and `ServerError`; `record_failure`
is the count (`Fault`), `Open` and `Reset`, because three separate cells of the key
are written. One unit of time earns one token. `load` is a monitor for the metering
property `KeyIsMetered` (section 6), with its own bound. Today the pool is used by
one command at a time (`wallet sync`); it is written to be shared (`&self`, locks,
atomics), and `pool_requests` and the proofs take it at that.

### Migrations, CaseRepair

`Migrations` is `db migrate` statement by statement: the advisory lock, the
creation of the ledger, the verification of recorded digests, the three preflight
repairs, and each pending file in its transaction with its ledger row. The repair of
`alerts.sent_at` returns early where `alerts` has no `state` (`StateExists`, a database
from before migration 1033); the run goes on and remembers it (`early`). A migrator
may die anywhere (`MigDies`), which releases its session lock; `SvcRead` and
`SvcDecide` are the schema check of a service that starts meanwhile. The databases
it starts from are a fresh one, those that earlier releases left, one of them from
before 1033, with the data a shipped file aborts on, and ones whose ledger someone
tampered with. Only migrators write them while the model runs. What is assumed of them (`MgAssumption`) is that a
row of their ledger stands for a file that was executed once, with the recorded
digest where it was recorded by a migrator: an old ledger that lies is not
something a later run could find out. `CaseRepair` is the largest of the repairs, the
merging of duplicate funding cases before migration 1037, as one operator on a
store of cases, events and alerts: it runs in one transaction, so its inputs, not
its interleavings, are what can go wrong.

### QueueGate, Retention

`QueueGate` has the durable pause that operators write, the in-memory override of
a process, and workers that ask before each round and then work (`Worker`).
`qgRounds` counts the rounds a worker has begun since its queue was paused.
`pause_bottom_up` (`Pressure`) and `resume_all` are actions although only tests
call them today. `Retention` is the task (`TaskWake`, batches by `TaskStep`,
`TaskRecord`), its failure and its death, the prune command beside it, and the
age of the last success that health judges by.

### WalletPolicy, WalletGraph

`WalletPolicy` is `wallet_labels` of several workspaces, `Better` the order by
which the one answer is chosen, and the readers that read first and act later:
automatic classification, scoring, and the filter of buyers. `Scan` is the loop of
`active_disposition` over the rows of the query, as a recursive function of the
position; a blocklist is any list of addresses, repeats included, as
`import_blocklist_tx` takes it. `Observe` records what a moment allowed, which the
property about buyers compares with.
`WalletGraph` is the edges with their confidence, `RebuildRead` the component read
outside the transaction, `Rebuild` the fold and the revocation. `WgEvidence` is the
sets of components an evidence edge may be recorded with. Outside the tests
nothing calls `rebuild_cluster_for` and `record_edge_evidence`: the model is of
what they do once they are called.

### AdminPanel

`Request` is a request of a client with its handler in steps: the limiter is read,
the password is checked, the failure or the session is recorded; a write is
authorised first and done in later statements. Every statement may fail and every
answer may be lost. Passwords and tokens are whether they match. Failed attempts
are rows with their time; a body without settings is refused by `ValidateBatch`
like one with a bad pair (`admin.rs:1150`).

### Ingest

`IngestStep` is `ingest_transaction` by statements, for the webhook's transactions
and the sync's alike: raw row, normalisation, wallets, event, edge, each of them
its own commit. `Deliver` and `Acknowledge` are the webhook with its repetition
until 200; `SyncStart`, `SyncFetch` and `SyncEndPage` the paging of a history.

### TelegramIngest

`PollTick` reads the channels of a pass once, `NextChannel` takes one,
`ResolveUsername` and `IterNext` are the calls of the library, which may fail
(`ResolveFails`, `IterFails`) with the four errors the code distinguishes.
`Allowed`, `InsertMessage` and `InsertMention` are the statements of
`ingest_message`, whose error is dropped (`IngestFails`); `Finish` is the status
and cursor written at the end, `StatusLost` their failure. `AddChannel` and
`RemoveChannel` are the panel's and the command line's, `Post` and `Edit` the
channel at Telegram. A message is the set of values it mentions. `tgLate` counts
what was stored after a removal.

### GmgnBucket

`Query`, `TryAcquire` with `Refill`, `Answered` and `TooManyRequests` are the loop
of `GmgnClient::query` for its one caller, the discovery worker; a tick is the time
in which the bucket earns `GmRate` tokens. `gmCredit` is what a bucket of the same
capacity and rate that never pauses would have left. Costs are assumed to fit the
capacity, which the configuration does not check: a route that costs more than
`bucket_capacity` waits for ever.

### RecentPipeline, RecentResolver

`RecentPipeline` is `run_for_anchor`: a pass reads the evidence, appends the
relation and the disclosure of what is missing, and each append looks for the keys
of the current and of earlier releases before it inserts. `ChangeEvidence` changes
the world between statements, `AppendRetraction` is an operator's, and the two
projections the API serves are operators on the rows. A string is a sequence of
pieces split at the old delimiter, so that the ambiguity of the keys of earlier
releases is in the model. `RecentResolver` is the pure part: identity
normalisation, which edges corroborate, the candidate relations, dependency groups.
The four loops of `resolve_candidates` are one set of places, each a loop and the node
or identity and the edge it stands at (`EmitsAt`), with the order in which they are
visited (`Earlier`), so that "the first emission is kept" is a condition on a place
(`Kept`) and not a fold. A row carries the time its pass began (`at`), as `occurred_at`
does, and not the time it was written; `alone` says that no other pass of the
workspace has written since this one began. `RecentTick` moves the clock, which
decides the refresh bucket of a coverage key.

### Scoring, Replay, ForgeRules, Algorithms

Operators and recursive functions. `Scoring` has both FIFO matchers and the scores,
in integers every amount in use divides: `ConsumeLots` is the loop of a sell over the
open lots, `InOrder` the stable sort of one wallet's swaps of one token by time. An
amount that does not parse is zero, in the code and here, so a buy of no tokens opens
a lot whose dollars are not the cost of anything and go when the lot is passed:
`CostIsConserved` is an equation unless there is such a buy, and an upper bound
always. `Replay` has the as-of reads and the paper metrics, which the code computes in
one pass over at most fifty snapshots (`Read`, `Measured`). `ForgeRules` has the
decision rules of `src/sf`: the intent table, the union-find of the portfolio with its
parents as a function (`JoinKey`, `JoinLine`, `Find`), and the entry gate as the list
of its gates and what passes each.

Nothing in the service calls the actions, switches and autonomy of `ForgeRules`; they
are modelled as they stand. `action_permitted` takes trades only, so the switches gate
trades only, and `autonomous_action_permitted` reads no switch. `RiskClassesAgree`
says of trades that an exit-only switch lets through what `classify_action` calls
claim/close, two tables written in two files.

`Algorithms` turns them into a specification: one action gives an input to an
algorithm, and an invariant states the property of that input. The inputs are
constants, about which the module assumes what the code's types, keys and queries
guarantee; `MCAlgorithms` gives them the families of the runs.

## 4. The runs

A run lists few properties. Where several statements are about one promise of a
component, a run checks their conjunction under one name, and the table gives the
parts in parentheses; each part is a definition of its own, with its comment, in
the component's module.

| Run | Checks | Shows |
|---|---|---|
| `outbox` | `OneHolder`, `LiveClaimEndsByItsHolder`, `ImplementsDelivery`, `EventuallySettled` | holds with a dispatcher and a producer on two alerts, a crash included |
| `eval_claims` | `WriterOwnsItsClaim`, `LiveClaimIsRespected`, `EligibleIsEvaluated` | holds with two workers, two tokens and two faults |
| `eval_duplicate` | `EvaluationsAreSpaced` | **violated** with two workers: the second one claims after the first one's commit deleted the claim, and does not look again whether the token is due |
| `radar` | `PreparationIsEvidenced`, `FundedWindowEnds`, `SoloTerminalIsFinal`, `SoloPromotionIsAlerted` | the first two hold with an operator beside the worker loop and with two ingesters and a crash; `TerminalIsFinal` and `PromotionIsAlerted` hold in the behaviours where the loop is the only evaluator (`solo`), while the batch holds every open case |
| `radar_race` | `TerminalIsFinal` | **violated** with two evaluators: updates by id, whatever the stage is |
| `cursor_skip` | `CursorCoversStored` | **violated**: the cursor is set to the block that failed |
| `pool_requests` | `StreakTripsBreaker`, `PoolRecovers` (`RequestsEnd`, `KeysComeBack`) | holds with two tasks on two keys |
| `service`: migrations | `MigLedgerIsTrue` (`MigExactlyOnce`, `MigAppliedIsWhatRan`, `MigKeepsProvenance`, types), `MigUpgradesSucceed` (`MigNoRaceFailure`, `MigKnownLanesUpgrade`, `SvcRunsOnItsSchema`), `MigWaiterEnds` | holds with two migrators, a service and every death between statements; `MigKnownLanesUpgrade` excuses one run, the first over a database from before 1033 (section 6) |
| `service`: cursor | `NoBlockUnseen`, `EveryBlockTried` | holds with two polling processes and three faults |
| `service`: queues | `PausesAreObeyed` (`PauseTakesHold`, `PressureFromTheBottom`), `ResumedQueuesAreServed` | holds with two workers under pauses and an unreadable gate |
| `service`: retention | `RetentionIsKept` (`BacklogDrains`, `DeathIsReported`) | holds with the task beside the prune command |
| `stores`: policy | `PolicyIsRespected` (`ManualIsAuthoritative`, `ContributorsWereAllowed`), `LabelsAreSafe` (`TenantsKeepTheirPolicy`, `LabelsKeepTheirHistory`) | holds with two workspaces |
| `stores`: graph | `ClustersAreSound` (`OneActiveCluster`, `ClustersNeedEvidence`, `ClusteredStaysClustered`) | holds with four wallets |
| `stores`: panel | `PanelIsHonest` (`LimiterBound`, `LoginsAreAudited`, `LogoutIsHonest`, `RejectedBatchWritesNothing`, types), `PanelIsGuarded` (`RefusalsAreReal`, `WritesHeldASession`) | holds with two clients and a store that fails |
| `stores`: ingest | `IngestIsDurable` (`RawFirst`, `AcknowledgedReachesGraph`) | holds with the webhook beside a sync |
| `stores`: Telegram | `StoredIsEvidence` (`MentionsAreEvidenced`, `RemovalTakesHold`), `RecentMessagesAreStored` | holds with removals, edits and failing statements during a poll |
| `stores`: GMGN | `GmRateIsBounded` (`GmWithinBudget`, `PausedSpendIsBounded`), `QueryEnds` | holds with three answers 429 |
| `intelligence`: pipeline | `FactsAreStoredOnce` (`OneRowPerFact`, `ResolvedIsPublished`, `OneCurrentRowPerTarget`, `TimelineStatesCoverage`, types), `ViewsAreHonest` (`QuietPassDecidesCoverage`, `OnlyValidRetractionsHide`), `CoverageConverges` | holds with two workers on one anchor in an upgraded database |
| `coverage_swallowed` | `ChangedIsPublishedAtOnce` | **violated** with two workers: a late pass takes the key of a transition that it does not bring into force, and the pass that should publish it appends nothing |
| `intelligence`: rules | `ResolverIsSound`, `RepairLosesNothing`, `ScoringIsExact`, `ReplayIsHonest`, `ExecutionIsBounded`, `DoubtIsRefused`: their 24 parts are in `Algorithms` | holds over every input of the families |
| `skill_reach` | `SkillIsReachable` | **violated**: a wallet that wins all of sixty trades does not reach the skill an entry asks for |

The violated properties quote a comment of the repository; the entry under
`findings` in `PROJECT.json` gives the line and the behaviour. What the models
show beyond these five is in section 6.

**Bounds.** Two actors of each kind are enough for the races the code is exposed
to, since each of them is between one that has read and one that writes; the
outbox has one claimant of each kind, a dispatcher and a producer, because the two
take different paths to the same row. Leases, cadences, windows and retentions of
one or two units let every expiry fall before, inside and after the steps it can
meet. Two attempts give a first and a last one; the proofs have no such bound. One
or two keys, tokens or recipients suffice for safety because no
statement relates two rows; where rows meet there are more: two in a batch with a
limit of one or two, four wallets so that two clusters can be folded, three
migration files so that a run can die between two, two pages of history, two
messages in a poll. Four blocks and a span of two give two full windows. Two Helius
keys let a request go round the pool; `AuthThreshold` and `MaxRetries` differ, as
they may by configuration. A GMGN capacity of five with costs of one and three
leaves remainders, and three 429 answers let pauses follow each other. The inputs
of the algorithms are every sequence up to two to four elements over a family that
contains the boundary cases: equal times, missing times, amounts of zero, aliases of
one chain, expired and disputed edges, ties in a ranking, snapshots at both edges of
every horizon and about the limit of fifty. In the recent pipeline a refresh
interval of two and a clock up to two give passes of one bucket that began at
different times, and a bucket after it; with an interval of one, late passes never
share a bucket with the ones they are late for. Identical workers and claim ids
(`eval_duplicate`) are permuted by symmetry; runs with liveness use none.

**Fairness.** Loops tick for ever on an interval and every statement of them
ends, with a result or an error, so a loop that can step does: weak fairness of
its working steps, which are the ones that remain after faults and inputs are
taken out. That is the dispatchers, evaluation workers, the radar loop, the
polling loops, the gated workers, the retention task, passes of the recent
pipeline, the Telegram poll loop, and a migrator that is not killed. An HTTP call
ends by the client's timeout, so a request under way goes on (`HeliusPool`,
`GmgnBucket`). Time passes. No fairness is assumed of crashes, of providers'
answers, of arriving transfers, messages or evidence, of an ingester or of
operators' commands. The liveness runs bound the number of faults, and `QueryEnds`
and `RequestsEnd` (in `PoolRecovers`) that of refusing answers where the code has no cap on retries: a
process that crashes for ever settles nothing, and a GMGN that answers 429 for
ever holds its query for ever.

**Deadlock** is checked for the outbox, the evaluation, the radar and the pool. It
is not where an instance has an end that the system may reach: the chain stops at
`MaxBlock`, every migrator has started `MgMaxStarts` times, an algorithm has been
given its one input, an operator has made all changes the bound allows.

## 5. The proofs

| Theorem | Says | Rests on |
|---|---|---|
| `AlertOutboxProofs!TypeCorrect`, `ExclusiveClaims`, `CappedDeliveries`, `EarnedOutcomes` | one holder per live claim; deliveries within the cap; `sent` was delivered and `dead` was refused or out of attempts; for any keys, claimants, lease, backoff and cap | `IndInv` |
| `AlertOutboxProofs!LiveClaims` | a running lease is ended by its holder only | `IndInv` |
| `AlertOutboxProofs!Refinement` | the outbox implements `AlertDelivery` | `IndInv` in both states of a step |
| `SignalEvalProofs!TypeCorrect`, `FencedWrites`, `LiveClaims` | the safety properties of `eval_claims`, for any tokens, workers, lease and cadence | `IndInv` |
| `SignalEvalProofs!SoloSpacing` | one worker keeps the cadence | `BatchIsDue` in addition |
| `FundingRadarProofs!TypeCorrect`, `EvidencedPreparation` | the invariant of `radar`, for any recipients, transfers, evaluators and thresholds | `IInv` |
| `FundingRadarProofs!SoloTerminal` | while no two evaluators are under way together, terminal stages are final | `FetchedIsOpen` in addition |
| `FundingRadarProofs!SoloWorkerTerminal` | `SoloTerminalIsFinal`, for one worker process and any recipients, transfers, ingesters and crashes | `SoloInv` in addition |
| `HeliusPoolProofs!TypeCorrect`, `StreaksTrip` | the invariant of `pool_requests`, for any keys, classes, tasks, rates and thresholds | `IndInv` |
| `ServiceProofs!TypeCorrect`, `NothingUnseen` | the cursor's invariant of `service`, for any chain, window and number of processes | `IInv` |
| `ServiceProofs!ObeyedPauses` | `PausesAreObeyed`, for any queues, workers, requests and unreadable reads | `QgIndInv` |
| `ServiceProofs!UpgradesSucceed`, `LedgerIsTrue` | `MigUpgradesSucceed` and `MigLedgerIsTrue`, for any bundles, old databases, migrators, services and number of deaths | `MgIndInv`, `StateStays` |
| `StoresProofs!BoundedRate` | `GmRateIsBounded`, for any capacity, rate, costs and answers | `GmIndInv` |
| `StoresProofs!EvidencedMentions` | `StoredIsEvidence`, for any channels, texts, limits, edits, removals, failures and restarts | `TgIndInv` |
| `StoresProofs!DurableIngest` | `IngestIsDurable`, for any overlapping deliveries, bodies, history and page size | `InIndInv` |
| `StoresProofs!SoundClusters` | `ClustersAreSound`, for any wallets, evidence and order of reads and rebuilds | `WgIndInv` |
| `StoresProofs!HonestPanel`, `GuardedPanel` | `PanelIsHonest` and `PanelIsGuarded`, for any clients, keys, bodies, thresholds and number of sessions | `ApIndInv` |
| `StoresProofs!PolicyRespected`, `SafeLabels` | `PolicyIsRespected` and `LabelsAreSafe`, for any workspaces, wallets, tables of labels and readers | `WpIndInv`, `ScanDecides` |
| `RecentProofs!StoredOnce`, `HonestViews` | `FactsAreStoredOnce` and `ViewsAreHonest`, for any workers, workspaces, relations, legacy rows, retractions and refresh interval | `RecentIndInv` |
| `AlgorithmProofs!BoundedExecution` | `ExecutionIsBounded`, for any switches, thresholds and evidence | `ReachedIsClosed` |
| `AlgorithmProofs!RefusedDoubt` | `DoubtIsRefused`, for any histories, pools, gate inputs, bundles and portfolios | `HealthRuns`, `KeysAreOrdered`, `JoinLineJoins`, `AllJoined` |
| `AlgorithmProofs!HonestReplay` | `ReplayIsHonest`, for any rows, versions and snapshots | `MetricRuns`, `MetricIsFirst` |
| `AlgorithmProofs!LosslessRepair` | `RepairLosesNothing`, for any cases, events and alerts | `KeepIs`, `MergedCaseIs`, `RekeyedIs` |
| `AlgorithmProofs!SoundResolver` | `ResolverIsSound`, for any anchor, graph, bindings and time | `SameEmission`, `StrongEdgesSuffice`, `RootIsShared` |
| `AlgorithmProofs!ExactScoring` | `ScoringIsExact`, for any swaps and rates | `BasisRuns`, `OrderIs`, `TotalIsOrderFree` |

The type invariants, `DeliveriesCapped`, `SentWasDelivered` and `DeadIsJustified` are
proved and in no run by name: the proof covers every instance, and `ImplementsDelivery` has TLC
check the same promises as steps of `AlertDelivery`. `SoloTerminal` says under which
condition the property that `radar_race` finds violated does hold: two evaluators may
exist as long as one is idle when the other works. `SoloWorkerTerminal` is the property
of the run, whose behaviours with `solo` meet that condition.

**Assumptions.** They are those the modules name on their constants, and TLC
evaluates them in every run. Bounds are naturals; leases, windows, rates and limits
are positive, as the configuration's defaults are; evidence kinds and panel clients
are finitely many. Beyond that: a Helius task has a class; a GMGN cost fits the
capacity (section 3); login attempts are kept at least as long as the window that
counts them (`auth.rs` keeps a day and counts minutes); `live_watch` is the first of
the queues and none is listed twice (`ALL_QUEUES`); a webhook body has a transaction
and the sync is not a webhook; a relation's text is what its pieces spell
(`Saying`), since the database stores the text and not the pieces; old ledgers do
not lie (`MgAssumption`, section 3).

Of the inputs of the algorithms `Algorithms` assumes the types the code reads them
with, and what their sources guarantee: source ids are the registry's primary key and
an exposure without a group declares no keys (`RulesAssumption`); ids and dedup keys
are unique, there are finitely many cases, and events and alerts are of cases that
exist (`StoreAssumption`); snapshots come in the order of `observed_at`, ties in any
order (`ReplayAssumption`); quantities and dollars are not negative
(`ScoringAssumption`); and no ref is upstream of itself, directly or not
(`ResolverAssumption`, `WalksEnd`), since on a cycle `dependency_roots` does not return
(section 6). Nothing is assumed about the order, the number or the spelling of anything.

**Inductive invariants.** None of the properties is inductive as it stands.

- *Outbox*: that a token identifies a claim needs every claim in flight to be
  counted on its row (`ClaimsAreCounted`), a row's token to be its latest claim's
  (`RowsAreConsistent`) and no two claims in flight to share one
  (`TokensAreUnique`); that `sent` was delivered needs the answer a claimant is
  about to record to be the provider's (`OutcomesAreReal`).
- *Evaluation*: that the writer owns its claim needs claimant strings to be unique
  to a worker and to the row of the token it is on (`WorkIsTracked`, `IdsAreUnique`),
  so that nobody else's release or commit hits it.
- *Radar*: the promotion is decided in one statement and written in another, so the
  invariant says it of the decision (`PlansAreEvidenced`) and the proof rests on
  evidence only ever being added: a superset of events has at least as many kinds
  (`EvidenceGrows`).
- *Cursor*: what may be saved is what an active loop has behind it (`Behind`), which
  holds of each loop by itself, whoever has moved the cursor meanwhile.
- *Pool*: that a streak trips the breaker needs every request past its search to be
  on a key of the pool (`KeyIsKnown`), so that its count, opening and reset hit the
  same key.
- *Queues*: the one round a paused queue may still begin is one whose gate was
  passed before (`RoundWasPassed`); that pressure comes from the bottom rests on
  `pause_bottom_up` taking a suffix of what still runs, by the order of positions.
- *Migrations*: one lock. Past it a run holds it (`LockIsHeld`), so what it has
  looked at is still so (`LooksAreFresh`); past a preflight the shape is gone or
  the file that aborts on it has run, unless the run found no `alerts.state`
  (`PreflightsHold`). A run that is at a file has passed the ones before it, which are
  recorded (`PassedIsRecorded`), so one that fails at 1034 leaves 1033 behind, and
  rows are never deleted (`StateStays`). A service, which takes no lock, has read
  provenance that only gets better (`ReadsAreSafe`).
- *GMGN*: the gap between the client and a bucket that never pauses is what time it
  has not yet been credited for leaves of a bucket (`AheadByOneBucket`).
- *Telegram*: the mentions still to be inserted are in the text stored for them
  (`LeftIsStored`), and a removal can be overtaken only by the message whose check
  had passed (`LateIsInFlight`).
- *Ingest*: a handler stands at one of its transactions with everything of the
  earlier ones in the graph (`HookLeavesNothing`) and the current one's raw row
  written under its own source (`JobIsRawFirst`).
- *Graph*: what a rebuild read before its transaction is still evidenced, because
  edges are only added (`ReadIsEvidenced`), and memberships are disjoint between
  rebuilds (`ActiveOnce`), which is what lets the next fold keep them so.
- *Panel*: tokens are issued in order and never again, so one that was logged out
  stays so (`SessionsAreIssued`); what a handler has established still holds of its
  request (`RequestIsSound`); the limiter's count includes those already past its
  read, which is the inductive form of the overshoot (`LimiterBound`).
- *Policy*: that the scan answers with the deciding row is an induction over the
  rows (`ScanRuns`, `ScanDecides`), done as a minimal counterexample over positions
  because the library's induction rules are out of the provers' reach. `Decides` is
  a total preorder whose equal rows have equal dispositions (`DecidesIsAnOrder`),
  so the answer depends on the set of active rows alone (`SameRowsSamePolicy`):
  that is why no order of concurrent inserts and no other tenant's statement
  changes it. For readers, only one that reads buyers has collected any
  (`ReaderIsSound`).
- *Recent*: a row's key is derived from what the row says under one of the three
  encodings (`KeyIsDerived`), so that a key that is taken is taken by the same fact
  or is not trusted; and a pass nobody disturbed is the newest of its workspace and
  decides on the coverage that is still in force (`QuietIsCurrent`).

**Recursion.** The algorithms are loops, so each proof has a lemma that gives a
recursive function by its first value and its step (`Recursion`, from which follow
`HealthRuns`, `MetricRuns`, `LotsRun`, `BasisRuns`, `WalkRuns` and the others) and
an invariant of the loop, proved by a least counterexample (`LeastNatural`):

- *Portfolio*: the parents are a forest at every point (`FindIsRoot`), a union makes
  two trees one and no other (`UnionMerges`), and after the lines up to i two of them
  have one root exactly when keys of these lines connect them (`AllJoined`).
- *Provider selection*: the keys are a strict total order on different ids
  (`KeysAreOrdered`), so the winner depends on the set of candidates alone.
- *Paper metrics*: after n snapshots a metric is the first known value among those
  read within its horizon (`MetricIsFirst`).
- *Case repair*: the row a group keeps is one of its own and is not merged away
  (`KeepIs`), evidence only gains keys (`EvidenceKeepsKeys`), and an alert that is folded leaves
  `sent` on the row that stays (`SentIsKept`).
- *Resolver*: inputs that differ in the spelling of chains only visit the same places
  and emit the same (`SameEmission`), because each join compares canonical keys; a
  relation better than insufficient has an authoritative edge, and the places of the
  authoritative edges alone contain it (`StrongEdgesSuffice`); a walk up the copies
  that has reached a root stays there, and two that meet go on together
  (`RootIsShared`).
- *Cost basis*: matched cost and open dollars are worth what was bought so far, at
  every lot and at every swap (`ConsumeLotsIs`, `BasisRuns`); the place of a swap is the
  number of swaps sooner than it, so the order depends on the group and not on how it
  was delivered (`OrderIs`, `SameInOrder`); and sums do not depend on the order of their
  terms (`TotalIsOrderFree`).

Three proof attempts showed more than they proved. `QuietPassDecidesCoverage` as it
stood had no proof, because it did not hold once two passes of one refresh bucket
begin at different times; that is the run `coverage_swallowed`, and the property
now names the exception (`SaidTooEarly`). `PanelIsHonest` could not be proved of a
settings request without settings, which the model let through and the code refuses.
And conservation of cost failed on a buy of zero tokens, an amount the parser produces
for an absent or malformed string; the property now says what becomes of its dollars.

**Only model-checked**, and why: the liveness properties (`EventuallySettled`,
`EligibleIsEvaluated`, `FundedWindowEnds`, `SoloPromotionIsAlerted`,
`MigWaiterEnds`, `EveryBlockTried`, `ResumedQueuesAreServed`, `RetentionIsKept`,
`PoolRecovers`, `RecentMessagesAreStored`, `QueryEnds`, `CoverageConverges`), since
the prover does neither fairness nor ENABLED. Every other property of a passing run is
a theorem.

## 6. Known divergences

What the models show the code to do against what a comment, a document or the
shape of the code leads one to expect, besides the violated runs above. A name in
this list is a property in the module; it is not part of a run because it does not
hold.

*Outbox, evaluation, radar*

- A completion of an alert that matches no row was not always "expired and
  re-claimed by someone else" (`signals.rs:649`): on the last attempt another
  dispatcher may have terminalized the row, and a delivered alert stays `dead`.
- A qualifying transfer to a recipient whose case was dismissed takes the branch
  "Create a new funded case" (`funding_radar.rs:155`) and is refused by the unique
  index, so it opens no case and leaves no event (`Create` with `Refused`).
- `FundedWindowEnds` holds only while the batch holds every open case: a case in
  preparation is never touched again, so `PassLimit` of them (100 in
  `evaluate_radar_cases`) keep an expired funded case from being dismissed,
  against "Expired windows dismiss" (`funding_radar.rs:319`). In the same way
  `EligibleIsEvaluated` assumes that twenty tokens a minute in `first_seen` order
  (`workers.rs:1258`) are enough for the cadence: past a hundred they are not.
- With two evaluators `PromotionIsAlerted` fails: an operator's command promotes
  a case at 70 and claims no alert, the loop, which read less evidence, writes 55
  over it, and the intent `pending_funding_alerts` would derive is gone.
- `EvidenceIsIndependent`: one transfer delivered twice is two kinds of evidence,
  because the answer of the idempotent insert is ignored (`funding_radar.rs:113`).

*Providers and ingest*

- `KeyIsMetered`: a request that slept for a token does not take it
  (`helius.rs:356`), so a key is used beyond its rate even with one task.
- `SyncPagesOn`: the second page of a history indexes a JSON string and panics
  (`helius.rs:434`); and the `before` cursor is the first signature of a page, the
  newest, under a comment that calls it the oldest (`ingest.rs:191`).
- `AcknowledgedIsStored`: `.is_ok()` on the store of the event (`ingest.rs:57`)
  swallows its error, so a delivery answered 200 may lack its transfer or trade,
  though not its raw row and its edge.
- `ChannelErrorsStick`: an error during the iteration writes the channel's status
  and breaks (`telegram_client.rs:122`), and the poll then sets the channel active
  again (line 155), against "auth/ban errors disable it" (line 90). Conversely
  a flood wait at the resolution of the name is never lifted, since the loop
  selects active channels only. The cursor is written and never read, against
  "Uses the channel cursor" (line 89), which is why `RecentMessagesAreStored`
  holds; it is 0 after a poll that saw nothing. When a mention cannot be inserted
  after its message was, the duplicate check keeps it out for good; a second
  edit carries version 1 like the first and is dropped.
- `PauseIsHard`: while tokens remain the GMGN client sends during its "hard pause"
  (`gmgn.rs:57`), up to a whole bucket in steps of 100 ms, against "pause prevents
  tight-looping" (line 252); and as a pause keeps `last_refill`, the time of the
  pause is credited on top of what was spent in it: the client can be ahead of
  its rate by one capacity, which `GmWithinBudget` shows to be the most.

*Stores and panel*

- `RepairComplete` (in `Algorithms`): two stale alert keys that map to one new
  key make the repair's update collide (`db.rs:919`), so the upgrade aborts and
  the duplicates stay.
- The repair of `alerts.sent_at` skips a database from before migration 1033
  (`db.rs:399`). If one alert of it failed to be delivered, 1033, in the same run,
  marks that row `dead` with its `sent_at` still set (`1033`, lines 117-120), 1034
  clears `sent_at` before it drops NOT NULL (line 65), and the upgrade aborts; the
  second `db migrate` finds 1033 recorded, repairs and succeeds. The test that says "a
  pre-1033 lane with legacy keys must upgrade unassisted"
  (`rev087_migration_integrity_pg_tests.rs:474`) seeds no failed delivery. The run
  `service` starts from such a database; without the exception that
  `MigKnownLanesUpgrade` makes for this run, the property is violated there.
- A re-declared baseline without provenance is not compared with the file.
- The settings batch is validated as a whole and written pair by pair: a store
  error in the middle leaves the first pairs, against the comment at
  `admin.rs:1153`. `prune_sessions` has no caller, and `workspace_for_session`
  does not look at whether the workspace is active.
- The documents speak of accumulated confidence and of revocation of edges in the
  graph; edges are only inserted and the membership alone is revoked.
  `first_seen` depends on the order of ingestion.
- `pause_bottom_up`, `resume_all` and `backfill_allowed` are called by tests only.

*Intelligence and rules*

- `RelationsShowTheLatestPass` (`sf/recent_pipeline.rs:96`): a relation that
  returns to an earlier version keeps the row of the later one in the current
  view, since the earlier version's key is already there.
- `FifoCostIsPaid` (in `Algorithms`): the matcher of `scoring.rs` shrinks a
  lot's amount and not its cost, so a lot sold in parts is charged its whole cost
  each time; `sf/cost_basis.rs`, written against that, conserves it
  (`BasisConserved`).
- `dependency_roots` does not end on cyclic dependencies; the conviction cap never
  applies, since completeness is always one.
- Kill switches stop no autonomous action: `action_permitted` has no caller outside
  its tests, `autonomous_action_permitted` (`sf/autonomy_runtime.rs:95`) reads no
  switch, and `is_lp_risk_reducing` is called only by the test that compares the SQL
  enumeration with the code (`tests/schema_enum_alignment.rs`), so no switch is asked
  about an LP action; it is not modelled.
- A disabled source comes up again by signals, although its state is documented as
  terminal (`sf/source_health_runtime.rs:44`); provider weights above one tie in
  `rank_key`; the portfolio comment says that only the first line of a correlation
  group is counted where the code sums them; cancelling an intent whose outcome is
  unknown releases its reservation; an unknown halt input passes in
  `sf/decision_runtime.rs`.

## 7. Not modelled

- **Narrative classification, text parsing, formatting, reports.** Text in, text
  out; no other component decides on what they keep.
- **Chain adapters** (`chains.rs`, `sf/ingest_runtime.rs`): decoding of provider
  payloads. `BlockCursor`, `FundingRadar` and `Ingest` take the result, or the
  failure, as an input.
- **Read handlers of the API and the panel**: single queries. Their authorisation
  is in `AdminPanel`, the two projections of recent intelligence in
  `RecentPipeline`.
- **The transition guard of the intents in SQL** (migrations 1016 and 1022 to
  1024) has no caller in the service; the table in `sf/intent.rs` is modelled.
- **Dashboard, callers, liquidity pools, browser tasks, token lifecycle**: pure
  functions on one record without a caller in the service.
- **Clock skew** between the hosts and the database; the SQL uses the database's
  clock except for the `now` of a radar pass, which is the host's. The outbox model
  has one workspace and one destination: the dedup key embeds both. The radar
  model takes the thresholds' verdict on a transfer as given.

`PROJECT.json` lists every component with its status, and every hazard with the
properties that would catch it or the reason why none does.
