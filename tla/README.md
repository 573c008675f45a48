# Verification of the Soulon wallet

TLA+ models of the stateful parts of this repository, TLC configurations that
check them on small instances, and theorems that TLAPS has checked for every
value of the constants.

Contents:
[1 Parts of the system](#1-parts-of-the-system) ·
[2 Modules](#2-modules) ·
[3 Runs](#3-runs) ·
[4 Fairness](#4-fairness) ·
[5 Proofs](#5-proofs) ·
[6 Disagreements found](#6-disagreements-found) ·
[7 What is abstracted or left out](#7-what-is-abstracted-or-left-out) ·
[8 Plan](#8-plan) ·
[9 How to run it](#9-how-to-run-it)

`PROJECT.json` lists the components, the source lines behind every definition
(`map`), the hazards each property is meant for, and a faulty variant of the
code for each property (`mutants`; in the modules they are the definitions with
the comment "Faulty variant"). No specification uses a faulty
variant; putting one in place of the definition it varies makes the run fail,
which shows that the property is about the code.

## 1 Parts of the system

The repository holds five programs that meet over HTTP and over one file.

```
 wallet-app-flutter ─┐                      ┌── gateway ── chain nodes
 wallet-app ─────────┼── HTTP ── API server ┤
 wallet-extension ───┘             │        └── notification hub ◄─┐ webhook
 soulon-wallet (SDK)               │ reads                         │
                               events file ◄── store ◄── worker ───┘
                                               (indexer process)
 soulon-deep-chain (soulond): the chain application
```

### Indexer process (`soulon-backend/internal/indexer`, `cmd/indexer`)

| component | state | operations | interaction |
|---|---|---|---|
| `FileEventStore` | an append-only JSON-lines file; `seen`, `eventsByHeight`, tip, `reorgs` in memory | open and load, `Upsert` of a block or a rollback, `State` | called by the worker; its file is read by the API server |
| `PostgresStore` | blocks, events, a log, archives, a state row | transactional `Upsert`, retention and archiving, schema set-up | the same interface; the API server reads its log |
| `MemoryQueue` / `KafkaQueue` | a buffered channel / a topic with offsets, pauses, dead letters | `Publish`, `Consume`, pause, dead letter | between the worker's two goroutines |
| `Worker` | next height, hashes by height, the event in hand, attempts | a tick of `Run`, `consumeLoop`, `persistWithRetry` | publishes, upserts, notifies |
| `WebhookNotifier` | — | POST with retries | to the API server's notification hub |

Hard here: `Upsert` writes up to two lines and each write may fail; the process
may die between or in them; a restart begins at height 1, so everything is
delivered again; forks arrive out of height order; the producer blocks on a
full queue while its consumer may be gone; a retry repeats a half-done call.

Correct means: the index in memory is what the file says, after any history;
the file is a history of one stack of blocks, extended and cut at the top;
redelivery changes nothing; neighbouring blocks are linked; only what was stored
is announced; the API server, with code of its own, reads the same state from
the file; the policy `skip` keeps the pipeline moving and `stop` ends the
process.

### API server and gateway (`soulon-backend/internal/api`, `internal/gateway`)

| component | state | operations | hard |
|---|---|---|---|
| index state, event queries | none (reads the file) | `rebuildState`, filter, cursor, limit | reads while the store is between two writes |
| notification hub | a ring of messages, subscriber channels of 16 | webhook, list, SSE stream | the lock is released before sending: order, duplicates, drops |
| signature challenges | a map from ID to challenge | issue, confirm, expire | two confirmations race; single use |
| chain proxy | none | forward, map errors | — |
| gateway router | nodes with health, round-robin position | pick, health check | lock held during HTTP requests |

Correct means: subscribers get every message that was not dropped, once and in
order; a challenge is used once and not after it expired; a healthy node is
picked whenever there is one.

### Chain application (`soulon-deep-chain`)

State: four keepers (bank balances; validators and delegations; rewards;
proposals and votes). Operations: `InitFromGenesis`, then `ExecuteTx` with
eight transaction types. Sequential, but with no rollback of a failed
transaction and with unchecked int64 arithmetic. Correct means: coins are
neither made nor lost, capacity holds, votes count once and a quorum is reported if it was cast,
rewards are paid once, a failed transaction changes nothing.

### Clients

| component | state | operations | hard |
|---|---|---|---|
| Flutter multisig workbench | tasks, signer lists, status, `processing` | approve, reject, import, submit | each reads a copy, waits, and writes it back; exceptions half way; lost answers |
| Flutter transaction store | draft, challenge, history, loading flags | build, confirm, broadcast, refresh | a refresh races with a transfer |
| Flutter staking/governance, DApp, IBC, WalletConnect, security, notification, search, identity stores | lists and flow states | one flow per button | as above; PIN lock-out; sessions |
| Flutter `ChainApiClient` | — | request with timeout and one retry | repeats a POST that may have been executed |
| `soulon-wallet` SDK | next nonce; attempts of a call | reserve, sync, reset; ten services over `broadcastWithRetry`; making a signer | concurrent reservations; retry after an unknown outcome; execution after the client gave up |
| `wallet-app` API client | attempts of a request | request with timeout, retries and life-cycle reports | an answer that breaks off; a POST that must not be repeated |
| `wallet-app` session | session in the app and in the tab's storage; challenge, flags and redirect of the login page | sign in and out, expiry, guarded routes, reload | late answers to a page or a session that is gone |
| `wallet-app` event pages | filter, offset, rows; exports; the event shown | load, page, filter, export, cancel, open one event | a log that grows; answers in any order |
| `wallet-app` notifications page | a list | fetch and event stream | both write the list |
| `wallet-extension` popup | a stack of routes, tab, wallet, lock, send draft, one timer | clicks, keys, the timer | long sequences of legal steps |

Correct means: no status that stands for a quorum without one; no signature
lost; nothing known to be confirmed is broadcast again; what a call reports is
what happened; nonces repeat only for a known reason; a session stands for a
signature the server accepted; rows, exports and pages show what was asked for;
a locked or covered screen stays out of reach; a flow that ends, however it
ends, lets the next one begin.

## 2 Modules

| module | models | |
|---|---|---|
| `IndexerEvents` | `event.go`; the defaults of `Upsert`; `rebuildState` of `api/server.go` | what both stores share |
| `BlockChainIndex` | what an index promises | abstract specification |
| `FileEventStore` | `store.go` | extends `IndexerEvents`, implements `BlockChainIndex` |
| `IndexerPipeline` | `worker.go`, `queue.go` (memory queue), `notifier.go`, `cmd/indexer/main.go` | composes worker, queue, notifier and `FileEventStore`, whose actions it uses |
| `PostgresStore` | `postgres_store.go` | extends `IndexerEvents` |
| `NotificationHub` | webhook, list and stream handlers of `api/server.go` | |
| `SignatureChallenge` | the challenge handlers of `api/server.go` | |
| `TransferFlow` | `transaction_store.dart`, the button of `transaction_flow_page.dart`, the retry of `chain_api_client.dart`, the broadcast handler of `api/server.go` | composes the wallet with `SignatureChallenge` |
| `MultisigWorkbench` | `multisig_store.dart`, its two pages, the retry of `chain_api_client.dart` | |
| `Float64` | the floating-point numbers of `x/gov` (the language's, external) | |
| `ChainApp` | `app/tx.go`, `app/modules.go`, `x/bank`, `x/staking`, `x/distribution`, `x/gov` | extends `Float64` |
| `NonceManager` | `core/nonce.ts` of the SDK | |
| `WalletSigner` | `core/identity.ts`, `core/wallet.ts`, `core/client.ts` | |
| `WalletBroadcast` | `services/*.ts`, `core/broadcast.ts`, `core/errors.ts`, `core/tx.ts`; the chain as external | extends `NonceManager` and `WalletSigner`: one account |
| `ApiClient` | `wallet-app` `api/client.ts`, `api/errors.ts` | a call as a value, for the pages to keep |
| `WebSession` | `auth/*.tsx`, `router.tsx`, `LoginPage.tsx`, `HomePage.tsx`, `StatePage.tsx` | composes `ApiClient` with the server's `SignatureChallenge` |
| `EventsApi` | the event queries of `api/server.go` | |
| `EventsPage` | `EventsPage.tsx`, `lib/eventExport.ts` | extends `EventsApi` |
| `EventDetail` | `EventDetailPage.tsx` | extends `EventsApi` |
| `Popup` | `wallet-extension` `popup_store.ts`, `popup_controller.ts`, `popup_screens.ts` | |
| `IndexerEventsProofs`, `IndexerProofs`, `PostgresProofs`, `ApiServerProofs`, `ChainAppProofs`, `MultisigProofs`, `SdkProofs`, `BrowserProofs` | theorems and proofs | |
| `MC...` | the instances that TLC checks | |

**FileEventStore.** `log` is the file, line by line; `torn` says that it holds
a partly written line; `mem` is the record of the store's fields, with
`eventsByHeight` as the set `chain`; `loaded` counts the lines the index
accounts for, so that `loadSeen` is one step per line; `pending` is what the
`Upsert` in progress has yet to write. The store's mutex means one `Upsert` at
a time, so `pending` is one record; its steps are the check (`UpsertBlock`,
`UpsertRollback`), the write of the rollback line with the rollback, and the
write of the block line with the block. Each write ends in one of three ways:
written, failed, short. `Crash` may come at any step.

**IndexerPipeline.** `Run` holds the events of a tick in `outbox` while it
waits in `Publish`; `queue` is the buffered channel and `hand` the one event
that the goroutine of `Consume` has taken out of it; `phase`, `current` and
`attempt` say where `consumeLoop` is. `RunReturns` is the case of `Run`'s
select that takes the consumer's error: it needs `outbox = <<>>`, because
`Publish` is called outside of the select. `policy` is
`INDEXER_PERSIST_FAILURE_POLICY`, chosen once and for all at the start.

**PostgresStore.** `db` is the record of the tables. Each statement of a
transaction is an operator from tables to tables, and `UpsertBlock`,
`UpsertRollback` and `RunMaintenance` apply them in the order of the code and
install the result: a transaction that fails anywhere commits nothing and is a
stuttering step. `connection` is `sync.Once` with the error it remembers;
`Restart` starts a new process, possibly with another retention.

**NotificationHub.** Each webhook and each stream request is a goroutine: its
record says how far it is. The server's mutex is never held across two steps.
`Push` is what `pushNotification` does under the lock; the copied list of
channels becomes `targets`, served one by one by `Send`, which drops the message
at a full channel. A stream joins (`Join`) and reads the buffer (`Replay`) under
two locks. `pushed`, `after`, `joinedAt`, `replayedAt` and `dropped` are history.

**SignatureChallenge and TransferFlow.** A challenge's ID comes from a clock
read before the lock, so that IDs may repeat and may be stored out of order.
`TransferFlow` is the wallet's side: `submitTransfer` as three POSTs, each tried
up to `MaxRetries + 1` times; `inFlight` holds the requests that the server has
not yet served, also those the client has given up, and the server serves them
in any order. `Answer` reaches the client only if it still waits for that very
attempt. A node refuses a transaction with an error status or with a success
whose `tx_response` has another code than 0 (`declined`), which the server passes
on unchanged; `Finish` lists both successes, under the status that the code gives
them. `loading` is the one flag shared by transfers and refreshes.

**MultisigWorkbench.** Dart runs one thing at a time, so flows interleave only
where they wait: an action is the code between two waits. A flow is a record
with the operation, its task, the copy of the task it has taken and will write
back, the lines it has left to import, and the attempt of its broadcast. The
guards are the page's and the store's together: what a page does not offer
cannot be started. `posts` is history: how each broadcast was answered.

**ChainApp.** One action per transaction type; each keeper's operation is an
operator that returns the keeper as it leaves it and whether it reported an
error, and the action installs that keeper either way, since nothing is rolled
back. `Wrap` is int64 arithmetic for an int64 whose largest value is `MaxInt`.
`Tally` divides and compares as the code does, in floating-point numbers:
`Float64` has them as fractions, rounded to nearest and to even with a significand
of `Half` to `2 * Half` (2^52 for a float64), and `NaN`. The quorum is rounded when
it is parsed; `gov.params` keeps what the genesis file said.
`ledger` is history in unbounded integers: the supply of the genesis file, the
votes cast, the rewards earned and paid.

**NonceManager, WalletSigner, WalletBroadcast.** `reserver` says at which of
its two suspension points a call of `reserve` is: waiting for the node, or
resumed by the promise of `sync` with the counter open to change in between. A
call of a service is a record whose `pc` is where `broadcastWithRetry` waits:
for the sequence (`Sign`), for the node (`Send`), for the block (`Answer`), for
the delay (`Wake`), for `waitForTx`. `tx` is the chain's view, one transaction
per attempt, so that an attempt the client has given up may still be executed
(`Execute`) while the next is under way; the chain accepts a transaction whose
sequence is the account's and uses it up. An input is the set of the checks it
fails, and a log the set of keyword groups it contains; `mapTxError` and
`mapBroadcastError` go through the groups in the order of the code. `lost` and
`overwritten` are history.

**ApiClient and WebSession.** A call is a record with its attempt, the fetches
sent and the stages reported to `onLifecycle`; `Answered` and `Threw` say what
becomes of it. `WebSession` keeps up to `MaxCalls` of them: `mine` says whether
the page that made it is still shown, since nothing cancels a call and its
handler runs all the same. `Render` is what React does after every change of
session or location: `RequireAuth`, the redirect effect of the login page, the
load of the state page and the loss of the state of a page that is left.
`strays` are redirect timers of login pages that are gone. `Close` and `Open`
are reloads; only `stored` survives.

**EventsApi, EventsPage, EventDetail.** Events are known by their place in the
log. Rows and loads are "current" or "stale", that is, for the query and offset
shown or for others; an export is a record of the pages collected so far;
`file` is what the last step downloaded, judged against the log at the start of
the export. `EventDetail` keeps the `mounted` flag of each effect with the call
that the effect made.

**Popup.** One action per handler. Its guard is that a rendered screen offers
the control: `renderAppShell` is the base, the topmost modal and the topmost
search overlay, and `Controls` says what each screen holds. Masks stop the
pointer, not the keyboard, so buttons of covered layers may be pressed.
`timers` counts submissions whose timer has not fired.

## 3 Runs

| run | configuration | result |
|---|---|---|
| `file_store` | `MCFileEventStore.cfg` | pass, about 280 000 states |
| `pipeline` | `MCIndexerPipeline.cfg` | pass, with liveness, about 240 000 states |
| `postgres_store` | `MCPostgresStore.cfg` | pass, about 460 000 states |
| `postgres_idempotent` | `MCPostgresIdempotent.cfg` | `IdempotentUpsert` is violated |
| `notification_hub` | `MCNotificationHub.cfg` | pass, with liveness, about 130 000 states |
| `transfer_flow` | `MCTransferFlow.cfg` | pass, about 3 000 000 states (one minute) |
| `multisig` | `MCMultisigWorkbench.cfg` | pass, about 480 000 states |
| `chain_app` | `MCChainApp.cfg` | pass, about 155 000 states |
| `popup` | `MCPopup.cfg` | pass, about 350 000 states |
| `wallet_sdk` | `MCWalletSdk.cfg` | pass, with liveness, about 310 000 states |
| `web_session` | `MCWebSession.cfg` | pass, with liveness, about 290 000 states |
| `events_page` | `MCEventsPage.cfg` | pass, with liveness, about 300 000 states |

A run checks the parts of one question together: `StoreSafe`, `PipelineSafe`,
`DatabaseSafe`, `BufferSafe`, `StreamExactlyOnce`, `TransfersAuthorised`,
`WorkbenchSafe`, `KeepersAccounted`, `InputsHonoured`, `RequestsSafe`,
`ListSafe`, `ExportFaithful`, `DetailSafe`, `ScreensConsistent`, `CoversHold`
and `SessionMovesOn` are conjunctions of the named properties below.

What they show, and why the bounds are enough:

* **file_store.** `StoreSafe` is the types and the next three.
  `IndexIsLiveLog`: the index is sound (one block per height and ID, `seen` and
  the tip agree with the blocks) and holds what the lines read so far leave
  standing, where "leaves standing" is defined on the file directly and not by
  replaying it. `LogAscends`: each block line was appended
  above everything standing at that point. `RedeliveryWritesNothing`:
  idempotence across restarts. `ApiAgrees`: `rebuildState` and `State` report
  the same tip, total and reorg count whenever the file can be read.
  `ImplementsIndex`: refinement of `BlockChainIndex`. Three heights with a fork
  at height 2 reach every branch of `requiresRollback`: a different block at
  its own height, a block below the tip, and a child whose parent is not the
  tip. Events without ID, and without ID and hash, reach the defaults. Five
  lines hold a chain of three, a rollback and what comes after it; two crashes
  allow a crash during the history and one during recovery from it; one failed
  write is enough for each half of `Upsert` to fail.
* **pipeline.** `PipelineSafe` is the types, `ChainLinked` and `TipPinned`.
  `ChainLinked` needs the order of the worker's events: `Upsert`
  alone accepts a fork block whatever lies below it. `AnnouncesTip`: only the
  current tip is announced. `TipPinned`: the index never grows past the first
  height at which a reorg is simulated. That is a property of the simulated
  event source (the check is made again each time the height is reached) worth
  knowing to anyone who runs it with `INDEXER_REORG_INTERVAL` set. Four heights
  with a reorg at height 3 leave one height above the reorg that would be
  reached if the worker got past it. A queue of one makes the producer wait;
  two attempts and three failures use up the retries of one event and hit
  another; one crash forces a restart from height 1 over a file with history.
  `MaxLog` is larger than the file ever gets within these bounds.
  `PublishGetsThrough` and `ReorgConverges` speak of policy `skip`: the producer
  never waits for ever, and, unless the process is down, the fork block and its
  child are in the index for good in the end, although an event was given up or
  a crash came between. The other properties hold under both policies.
* **postgres_store.** `DatabaseSafe` is the types and the next three.
  `TablesAgree`: blocks, event rows and state row fit together after every
  transaction. `ArchivePaired` and `PrunedIsArchived`:
  blocks and events are archived together and no height is lost, through forks
  below the window, redelivery of archived blocks and a change of the retention.
  `WindowKept`: a transaction that stores a block leaves a window of the
  configured size. `LogReplays`: the API server's replay of the log gives the
  state row, as long as nothing was archived. Four heights and retentions 0
  (keep everything), 1 and 2 let the window move past a block, a fork at height
  2 reach below the window, and a restart enlarge or shrink it; seven log rows
  hold a chain of four, a rollback and two more blocks.
* **notification_hub.** `ListingIsNewest`: paging with any page size lists the
  newest messages, each once. `StreamHasNoGap` and `DuplicatesOnlyAtJoin`: a
  stream misses nothing but what a full channel dropped, and repeats only what
  was pushed between its joining and its replay. `InOrderPerSender`: messages
  of a sender that waits for the answers are buffered and delivered in order.
  `WebhooksAnswered`: a stream that does not read delays nobody. With three
  messages, a buffer of two and a channel of one, the buffer overflows, the
  channel fills and two sends race; streams interact with nothing but their
  own channel, so one is enough.
* **transfer_flow.** `TransfersAuthorised` is the types and the next three.
  `SingleUse`: no account has more confirmations accepted
  under an ID than challenges issued under it. `CoveredByConfirmations`: what
  the chain gets is authorised by a confirmation, one per transfer, and repeated
  at most `MaxRetries` times. `ShownAsItWent`: the chain took what the wallet
  shows as confirmed, and declined at least once what it shows as awaiting its
  confirmation. `LoadingExplained`: the button comes back after every
  end of a flow but one (section 6). Two transfers and a second refresh let one
  of each overlap; one retry lets a first try be served after the second; three
  challenges allow a repeated request and one of another wallet to share an ID;
  three requests in flight are both tries of one transfer and one of the other.
  The properties hold without this bound as well (6 300 000 states, three minutes).
* **multisig.** `WorkbenchSafe` is the types and `QuorumBacked`. `QuorumBacked`: every task and every copy about to be written
  back passes `_assertTaskModel` and has its threshold of signatures if its
  status says so. `SignaturesKept`: no flow overwrites a signature with an old
  copy. `ConfirmedIsLast`: no broadcast after a confirmation that the workbench
  knows of, even after a rejection has overwritten the status. A 2-of-3 task
  can have signers left when it is ready, so that it can be rejected or signed
  again later; a 2-of-2 task cannot. Two lines per package allow one to be
  refused and one merged, or one signer twice. `MaxFlows` is 2, one more than
  the lock should ever allow.
* **chain_app.** `KeepersAccounted` (`SupplyKept`, `VotesCounted`,
  `QuorumWasCast`, `RewardsPaidOnce` and the types), `ValidatorsCapped`,
  `FailureIsClean`. `QuorumWasCast` has two sides: a quorum that is reported was
  cast, and one that was cast is reported, unless the counts overflowed; both up
  to the rounding of two conversions, a division and a parsed quorum
  (`AboutAtLeast`), and never one of `NaN`. Without that allowance the run finds
  it violated. With `MaxInt` 11 and amounts of 1, 3 and 8, balances, votes and
  rewards overflow within four transactions; with `Half` 4 the numbers 9 and 11
  are rounded, the one down and the other up, so that a quorum of all votes is
  met by 8 of 9 and a ratio is rounded again; three
  validators compete for one or two places; the ten genesis files include one
  whose supply does not fit, one with a quorum of `NaN` and one refused at each
  of the checks. The
  validators are interchangeable (no genesis and no property names one), so
  their symmetry is sound; all properties of this run are safety properties.
* **popup.** `StackShape`: the root, at most one detail screen, then overlays
  with at most one search and every step of a wizard above the one before it.
  `DetailShowsOpened`: an uncovered detail screen shows the item that was
  opened. `OneSubmission`: one timer at a time, however the wizard is left.
  `ConfirmShownIsValid`: no way of closing leads back to a confirmation whose
  draft was spoilt meanwhile. `LockedIsInert` and `BaseLeftAlone`: no step
  reaches past the lock, and none loses the screen below an overlay. Seven
  routes hold a complete wizard with one panel and the search above it, or a
  wizard and a second one opened above it at its third step.
* **wallet_sdk.** `InvalidNeverSent` and `SignerPathHonoured`: what a check
  refuses goes nowhere, and a signer sits on the path that was asked for.
  `NonceDuplicatesExplained`: two reservations get the same nonce only after
  an answer set the counter back or a reset forgot it. `RepeatOnlyIfLost`: a
  transaction that was executed is sent again only if its answer was lost.
  `OutcomeHonest`: a reported success was executed; a reported failure was
  not, unless an answer was lost or the confirmation query failed.
  `CallSettles`: every call ends. Two calls compete for a sequence, and two
  attempts allow the first to be executed during the second; three reservers
  let one overtake two that wait. The nonce manager and the services share
  nothing but the account's sequence (no service uses the manager), so a
  behaviour explores one or the other.
* **web_session.** `NoRepeatedPost`: the server issues no more challenges than
  were asked for. `CallsReport`: the life-cycle reports fit the fetches.
  `SessionAuthorised`: a session is for an account whose signature the server
  accepted. `StorageAgrees`: a reload finds the session the app had.
  `LoginLeft`, `ExpiredEnds`: no signed-in user stays on the login page and no
  expired session stays. `PagesUnblock`: the buttons come back. Two accounts
  let the field be edited while a confirmation is under way, two challenges let
  the second overtake the first, two calls let one outlive its page while
  another is made, and one retry lets a GET be repeated.
* **events_page.** `ShownMatchesQuery`: rows answer the page and filter above
  them, but for a failed load and loads that a change of the session made
  overlap. `ExportInReach`: the cancel button reaches the one export that runs.
  `ExportComplete`, `ExportRepeatsExplained`, `CancelledNotSaved`: a saved
  export has every event that was there at its start, repeats one only newest
  first and while events arrived, and was not cancelled. `DetailShowsTarget`,
  `DetailWaitsForCall`: an event's page shows no other event and waits with
  reason. `ExportEnds`. Three events, pages of one and two, and exports of one
  event per page give three pages that shift under the reader; two loads and
  two exports overlap. The page size, page and record limits of the exports are
  scaled down with their ratio kept (`EventsAssumption`).

Deadlock is not checked in any run: all of these systems may stop. The bounds
end every behaviour, a process that is down need not be restarted, a file with
a torn line is never opened again, and a user need not do anything.

## 4 Fairness

`IndexerPipeline` and `NotificationHub` have a `FairSpec`, and the
specifications of `WalletBroadcast`, `WebSession` and `MCEventsPage` state
fairness; the other properties are safety properties. In `IndexerPipeline`: weak fairness of loading, of
`Run`, of `Consume`'s goroutine and of `consumeLoop`: Go runs every goroutine
that can run, and the ticker fires. Strong fairness of `RunReturns`: `Run`'s
select chooses at random among the cases that are ready, so a waiting error is
taken in the end although ticks keep coming. None for `Start` (nobody is obliged
to restart the process) nor for `Crash`. Failed writes are bounded by
`MaxFailures`: a disk that fails for ever would let nothing be stored, under
either policy. `MaxLog` is never reached in the pipeline runs (`Len(log) <
MaxLog` holds in every state): once the fork block and its child are stored,
every event of the worker is a duplicate, so the bound cuts nothing off and
cannot block the consumer.

In `NotificationHub`: weak fairness of the steps of each webhook's goroutine,
none of which waits for anybody (the mutex is free between steps, and the send
has a `default`). None for the streams: a client may stop reading at any time.

In `WalletBroadcast`: weak fairness of the steps of each call. A promise of the
signing client is settled, by its own time limit if by nothing else, and a due
timer fires. None for the chain: it may never execute a transaction.

In `WebSession`: weak fairness of the session's timer, of the redirect of the
page that is shown, and of the timeout or the pause of each call: the browser
runs due timers, and the timeout's `AbortController` ends every fetch. None for
answers, for the user, or for the server. In `MCEventsPage`: each page of an
export is answered or fails, for the same reason. The popup's properties are
safety properties; its one timer is under no fairness.

## 5 Proofs

Every invariant and every action property that a passing run checks is the
statement of a theorem; so is the refinement. The theorems hold for every set of
heights, names, events, tasks, signers, accounts, validators, callers, messages,
streams, calls and screens, every capacity, page size, number of retries and
bound, that satisfies the named assumptions of the modules
(`HeightsAssumption`, `NamesAssumption`, `HeightsClosed`, `PipelineAssumption`,
`RetentionsAssumption`, `TasksAssumption`, `ChainSets`, `BroadcastAssumption`,
`HubSets`, `WalletAssumption`, `WebAssumption`, `LogAssumption`,
`PopupAssumption`, ...). The assumptions say what the constants are (a height is
positive, a retry count is a natural number, the set of accounts is finite) and
TLC evaluates the same ones in the runs. Where a run checks one property that
combines several, the theorems about the parts come first.

Each inductive invariant was checked by TLC on the run's instance before it was
proved. Each proof has a lemma per action (or per group of actions that disturb
the same conjuncts), a lemma that the invariant holds initially and one that it
implies the properties.

Some operators are recursive functions over data: `Rebuilt` (the API's reading
of a log), `Filtered` (`filterEvents`), the pages of the notification list, the
sums over accounts and votes. What they compute is proved by induction all the
same: the lemma `UpTo` (and `Induction`, and for sums the cardinality of the
set) says that a *set* of numbers that contains the first one, and the next one
of each, contains all of them; it follows from the least counterexample and
needs no operator as a parameter. The lemmas `...Unfolds` give one turn of the
loop.

### Indexer and API

**IndexerEventsProofs** has the facts that both stores need: what one more line
does to `LiveBlocks` (`LiveExtend`, `LiveTruncate`, `LivePrefix`), and
`RebuiltIsLive`: on an ascending log, `rebuildState` ends with exactly the
heights and hashes of the live blocks, by induction over the lines.

**IndexerProofs**, about the file store: `TypeCorrect`, `IndexCorrect`
(`IndexIsLiveLog`), `HistoryCorrect` (`LogAscends`), `UpsertIdempotent`
(`RedeliveryWritesNothing`), together `StoreCorrect` (`StoreSafe`); `Refinement`
(`ImplementsIndex`); `ApiCorrect` (`ApiAgrees`). The inductive invariant is

    StoreInv == StoreTypeOK /\ IndexIsLiveLog /\ LogAscends /\ PendingFits

`IndexIsLiveLog` is not inductive alone. While reading the file, `applyBlock`
replaces whatever is at the block's height: that this is nothing at all follows
from `LogAscends`. While writing, it follows from `PendingFits`: the block in
hand has an ID that is not in the index, and each indexed block lies below it or
is about to be rolled back; which in turn is what the branches of
`requiresRollback` give. The lemmas about `LiveBlocks` and about `ApplyBlock`
and `ApplyRollback` (they preserve `Sound`) carry the steps, and give the
refinement: a block line is an `Extend`, a rollback line a `Truncate`,
everything else stutters. `ApiCorrect` adds `ReorgsCounted` (the index has
counted the rollback lines it accounts for) and `RebuiltIsLive`.

About the worker over this store: `PipelineCorrect` (`PipelineSafe`) and
`AnnouncementsCorrect` (`AnnouncesTip`), from

    PipelineInv == StoreInv /\ PipelineTypeOK /\ HashesMade /\ EventsMade /\ LogMade
                     /\ Stages /\ PendingLinks /\ ChainLinked

`ChainLinked` is about neighbours in the file, and the store alone does not keep
it. `Made` describes the only events `generateTickEvents` ever makes: it returns
to the first reorg height for good, so these are the main blocks up to that
height and the one fork block below it (`TickMakes`, from what Run remembers,
`HashesMade`). Everything in `outbox`, `queue`, `hand` and `current`, and every
block on file, is one of those (`EventsMade`, `LogMade`), also after a restart,
since a new worker makes the same blocks again. `PendingLinks` then says that
the block to be written is a child of what its rollback will leave right below
it, and `BeginLinks` is the case analysis over `requiresRollback`: the only
block on the fork cannot be rolled back to its own height, because what stands
at the reorg's height has its ID and would have made it a duplicate. No
assumption on the names is needed, and none on the order in which the events
arrive. `Stages` relates the consumer's phase to the call in progress, and gives
that a block to be announced is the tip.

**PostgresProofs**: `PostgresTypeCorrect`, `TablesCorrect` (`TablesAgree`),
`ArchiveCorrect` (`ArchivePaired`), `NoHeightLost` (`PrunedIsArchived`), together
`DatabaseCorrect` (`DatabaseSafe`); `WindowCorrect` (`WindowKept`); `LogCorrect`
(`LogReplays`). The inductive invariant is

    PostgresInv == PostgresTypeOK /\ Good(db) /\ TipOK(db)

where `Good` holds between the statements of a transaction as well (keys are
unique, events are those of the blocks, the archive is paired, every live block
of the log is stored or archived at its height, and, as long as nothing is
archived, the log replays to the stored blocks), and `TipOK` only once
`refreshStateTx` has run. One lemma per statement shows that it preserves `Good`
(`InsertGood`, `RollbackGood`, `CleanupGood`, `RefreshGood`), and the theorems
follow the order of the statements.

**ApiServerProofs**, about the notification hub: `BufferCorrect`
(`BufferSafe`), `StreamsCorrect` (`StreamExactlyOnce`), `SendersInOrder`
(`InOrderPerSender`), from

    HubInv == HubTypeOK /\ WebhooksFit /\ \A s \in Streams : StreamFits(s)

A handler stamps, pushes and sends in separate steps, so that the invariant has
to account for what is between them: `NothingLost` says that what was pushed
since a stream joined went through its channel, was dropped there or *is still
among the targets of its handler*; `SentOnce` is the other direction;
`ReplayIsTail` says what the replay is relative to the moment it was made;
`Ordered` speaks of the order of acceptance. That paging gives the whole buffer
is an induction over the pages (`PagesGiveAll`).

About the transfers over `SignatureChallenge`: `TransfersCorrect`
(`TransfersAuthorised`) and `LoadingCorrect` (`LoadingExplained`), from
`TransferInv`. Its counting parts are what is needed: a challenge that is still
in the map has not been used (`ChallengesCounted`); the chain's executions plus
the broadcasts on their way are no more than the attempts made
(`TriesCounted`), where a request counts from the moment it is sent since the
server may handle it after the client has given up; one less if an attempt was
declined (`DeclinedCounted`); what is shown as pending has ended that way
(`ShownKept`); and the confirmations accepted are at least as many as the
transfers past that point (`PastCounted`, `Confirmed`).

### Chain

**ChainAppProofs**: `CapacityCorrect` (`ValidatorsCapped`) from `StakingInv`
(a finite set of validators within capacity, and every non-zero delegation
among them; lemmas for `Delegate` and `Redelegate`, including the failing half
of the latter); `FailuresClean` (`FailureIsClean`) from `FreshResponse`: the
response is not a failure before the first transaction; and `AccountsCorrect`
(`KeepersAccounted`) from

    AccountInv == ledger \in Ledger /\ BankPart /\ GovPart /\ RewardPart /\ Untouched /\ Rest

where `ledger` is the model's record of what was put in, in unbounded integers.
Each count of a proposal is the wrapped sum of the weights that were cast for it
(`CastKept`), which is inductive although the counts themselves overflow; a
reward is exact, and neither it nor what was paid is negative, as long as what
was earned fits (`EarnedKept`); nothing was cast or earned before the genesis
(`Untouched`). Below are lemmas about arithmetic that wraps around (`WrapAdd`,
`WrapSame`, ...) and about sums over finite sets: their value does not depend on
the order of summation (`SumRemove`), one changed balance changes the sum by the
difference (`SumExcept`), and the sums of the genesis accounts by owner add up to
the sum of all (`SumByOwner`). For the quorum, `QuorumParsed` keeps the parsed
number together with its text, and the lemmas from `PowersUnfold` to `FloatNear`
show for every precision that a number is off its fraction by at most one part
in `Exact` (2^53); `RoundedOrder` follows the errors of both sides through the
division and the comparison, and `MeetsRounded` states the result for `Tally`.

### Wallets

**MultisigProofs**: `MultisigTypeCorrect` and `QuorumCorrect` (`QuorumBacked`),
together `WorkbenchCorrect` (`WorkbenchSafe`); `ConfirmedOnce`
(`ConfirmedIsLast`); `NoLostSignature` (`SignaturesKept`). The inductive invariant
adds three facts to the type and to `QuorumBacked`:

* `Exclusive`: a flow in progress implies `processing`, there is at most one
  flow, and its copy has at least the signatures of the task. This is what
  makes writing back a copy harmless.
* `FlowsEntitled`: what was checked before the wait still holds of the copy: the
  signer to approve is pending in it, and a task to submit has its quorum.
* `ConfirmedSettled`: a task with a confirmed broadcast is confirmed or
  rejected, is not being submitted, and a flow working on it holds such a
  copy; neither status leads back to ready, since neither can be merged into.

**SdkProofs**: `NoncesCorrect` (`NonceDuplicatesExplained`) from `NonceInv`: as
long as nothing was overwritten, the counter is past every nonce taken
(`CounterAhead`), which makes the next one different from all of them.
`RetriesCorrect` (`RepeatOnlyIfLost`) and `OutcomesCorrect` (`OutcomeHonest`)
from `BroadcastInv`. `RepeatOnlyIfLost` is not inductive: a transaction left
behind while it is pending may be executed later. `LeftBehind` therefore speaks
of what was executed or still may be, and adds the attempt a call has just given
up; `SentBefore` says that an attempt that was not sent has no transaction. The
proofs do not look into the error mappings: whatever code they return, the call
sleeps or fails. `InputsCorrect` (`InputsHonoured`) from `InputInv`, whose core is
`ValidOrUnsent`: a call with an invalid input is idle or failed and none of its
attempts has a transaction. Here the lists of checks are looked into
(`PassedIsValid`, service by service: the check of each part is in the list).

**BrowserProofs** has the web wallet and the popup.

* Session: `SessionsAuthorised` (`SessionAuthorised`), `StorageCorrect`
  (`StorageAgrees`), `RequestsCorrect` (`RequestsSafe`), from `WebInv`. A session
  is authorised because the *answer on its way* was (`ConfirmationBacked`: a
  confirmation that was answered with success is of an account among the accepted
  ones), and the calls are few because a POST is not retried (`PostOnce`) and the
  requests the server has not seen are counted with those it has
  (`PostsCounted`).
* Event detail: `DetailCorrect` (`DetailSafe`) for `DetailSpec`, the page over a
  log that grows. The invariant adds `OneEffect`: a call whose `mounted` flag
  stands is for the event in the address. This is what the effect's clean-up
  gives, and why late answers are harmless.
* Event list: `ListCorrect` (`ListSafe`) and `ExportCorrect` (`ExportFaithful`)
  for `ListSpec`, from `EventsInv`. `ExportFits` describes what a running export
  has collected while the log grows under it: from the oldest on, the pages are
  the beginning of what matches now; from the newest on, pages shift, and what is
  kept is all but the beginning of what matched at first.
* The run's `EventsSpec` stays in one view: in the views "list" and "export" its
  steps are steps of `ListSpec`, in the view "detail" of `DetailSpec`.
* Popup: `ScreensCorrect` (`ScreensConsistent`), `SubmissionsCorrect`
  (`OneSubmission`), `ConfirmCorrect` (`ConfirmShownIsValid`) and the action
  property `CoversCorrect` (`CoversHold`), from `PopupInv`. `Shaped` says which
  stacks there are: each step of the wizard lies above the one before it, with no
  other step between. `DraftChecked` carries the validity of the draft from the
  check to the confirmation, through whatever is opened and closed over it.

### Only model-checked

The liveness properties, which are out of the proof system's reach:
`PublishGetsThrough`, `ReorgConverges`, `WebhooksAnswered`, `CallSettles`,
`SessionMovesOn`, `PagesUnblock`, `ExportEnds`. And `IdempotentUpsert`, which does
not hold (section 6).

## 6 Disagreements found

One run states what the repository says of its own code, and TLC finds a
behaviour of the code that does otherwise (`PROJECT.json`, `findings`, quotes
the line): `IdempotentUpsert`. A block that has moved to the Postgres archive
and is delivered again, as after every restart, is written again and rolls back
the whole window.

Seen while modelling, and not given a run of their own. Indexer, chain and
Flutter wallet:

* Under policy `stop`, a consumer that gives up while `Run` waits in `Publish`
  on a full queue leaves the process hanging (`worker.go:125`);
  `PublishGetsThrough` therefore speaks of policy `skip`.
* A refresh that ends during a transfer clears `loading`
  (`transaction_store.dart:600`): the button is offered again and a second
  transfer may start beside the first.
* Importing an acceptable signature into a task that is rejected, submitted or
  confirmed throws, and `processing` stays set (`multisig_store.dart:376`): all
  flows are refused from then on.
* A redelegation to a new validator at full capacity fails after the stake was
  taken from the old one (`x/staking/module.go:84`); `FailureIsClean` leaves
  this transaction out.
* The API client's retry is meant for 5xx and 429 (`REPAIR_PLAN.md:15`), but it
  also repeats a POST after a timeout or a broken connection
  (`chain_api_client.dart:68`), when the first may have been executed. The
  model does what the code does.
* A successful answer whose body is no JSON object is a `FormatException`
  (`chain_api_client.dart:137`), which `runTransferFlow` does not catch: `loading`
  stays set until the next refresh ends. `LoadingExplained` states exactly this.
* A transaction that the node declines is answered with a success whose
  `tx_response.code` is not 0, and the wallet lists the transfer as broadcast and
  awaiting confirmation (`transaction_store.dart:168`, `:181`) although it will
  never be confirmed. A code of 0 in `BROADCAST_MODE_SYNC` says that the node's
  check accepted the transaction, and is shown as confirmed; `executed` in the
  model means no more than that the node took it.
* A quorum of "NaN" passes the range check of `InitGenesis`
  (`x/gov/module.go:67`), and then no proposal is ever accepted.
* Quorums are compared in float64 (`x/gov/module.go:131`): with a quorum of 1,
  2^53 votes meet it against a voting power of 2^53 + 1. `QuorumWasCast` states
  how far this can go.
* The notification list is in the order of appending. The time of receipt is
  taken before the lock (`server.go:220`), so of two concurrent webhooks the one
  stamped first may be listed as the newer one, although
  `soulon-backend/README.md:112` says the list is ordered by that time.
* After a fork below the retention window the archive keeps the block of the old
  branch at that height (`PrunedIsArchived` speaks of heights for that reason).
* `server.go:756` selects a column `id` of `indexer_events_log`, which
  `initSchema` does not create there: with the Postgres backend those queries
  fail. `LogReplays` is about the content of the log.
* Challenges that are never confirmed stay in the map (`server.go:433`).
* A first contact with the database that fails is remembered for the rest of the
  process (`postgres_store.go:268`); a torn last line keeps the file store from
  ever opening again (`store.go:144`).

SDK (`soulon-wallet`):

* Every attempt signs with a new sequence, so a transfer whose answer was lost
  can be executed twice (`broadcast.ts:31`); `RepeatOnlyIfLost` states the limit.
* `sendNativeTokenAndConfirm` throws if the confirmation query fails, after the
  transfer was accepted (`transfer.ts:51`); `OutcomeHonest` says so.
* Concurrent reservations on an unset counter may get one nonce twice
  (`nonce.ts:20`), and one that a reset overtakes starts at 0 (`nextNonce ?? 0`).
* A result is retried by its numeric code (11, 32) but thrown by its meaning;
  "signature verification failed" with code 4 and a sequence in its text is
  reported as an invalid sequence and not retried; a Chinese "gas 不足" counts
  as missing funds in `mapTxError` and as gas in `mapBroadcastError`.

Web wallet (`wallet-app`):

* A late 401 of a call made in an earlier session signs the new session out
  (`HomePage.tsx`, `StatePage.tsx`).
* A confirmation that is answered after the login page was left still signs the
  user in, and its redirect timer is started after the page's clean-up and moves
  them 800 ms later (`LoginPage.tsx:98`; `strays`).
* `abort('timeout')` rejects the fetch with a string where the runtime honours
  the reason, and `client.ts:285` then reports NETWORK and not TIMEOUT. A body
  that stalls until the timeout is a PARSE_ERROR and not retried.
* The server sends `retryable: false` with its 500s, so that GETs are retried
  only after answers of something else on the way and broken connections.
* The list's refresh button does nothing at offset 0; a failed load leaves the
  old rows under the new offset, and a successful export clears its message.
* Leaving the list does not stop an export, which then cannot be cancelled. An
  export newest first repeats events that shift meanwhile. The cut at
  `maxPages` is never reached, since 500 pages of 200 exceed the record limit.
* The message about one event may stay above another that a link carried along.

Popup (`wallet-extension`):

* With the search open, a detail screen shows the first item of its list
  (`popup_screens.ts:284`, `:307`), since it looks at the topmost route.
* The search key works on the lock screen; a click on the search's mask closes
  the topmost route, which may be a modal opened later.
* The success message of an old submission appears in a wizard opened since; an
  error of a field that was corrected may come back one step later (`goSendNext`).

## 7 What is abstracted or left out

* **Heights, names, hashes.** IDs and hashes are drawn from one set, since the
  code uses one for the other when it is missing. Payloads and times are left
  out: nothing depends on them. Metrics are left out
  of the worker.
* **Heights are positive**, since the only producer starts at 1; the branches for
  others (`store.go:154`, `server.go:806`) are not reached. **Announcements** that
  a crash loses are not made up for by the code, and no property asks for them.
* **Short writes.** "Short" is a write that left part of a line that does not
  parse. The case in which exactly the final newline is missing, so that the
  line still parses, is not covered. A torn file is never opened again: in the
  code, `loadSeen` returns the decoder's error and the process exits. After a
  short write the running process may go on appending, and so does the model.
* **`requiresRollback`** lifts a rollback height below 1 to 1. The model keeps
  this; no reachable state needs it, since a block at height 1 above a tip
  does not exist.
* **Memory queue only.** Its dead letters and pauses do nothing, as in the
  code. The maintenance ticker does nothing with the file store.
* **Postgres.** A statement that fails is the transaction that fails. Rows of
  rollbacks in `indexer_events` are left out (nothing reads them; the clean-up
  deletes them by height and never archives them); payloads, times and the metrics of maintenance too. Two processes on
  one database are not modelled: the store's mutex is per process.
* **Hub.** Tokens, decoding of requests, times and pings are left out. The `select` of a
  stream's loop between its channel, the ping and the client's leaving is
  `Deliver` or `Leave` at any time.
* **Transfers.** Amounts, fees, signatures and texts are left out; a signature
  is always the one for the challenge at hand, since the wallet makes no other.
  An amount is finite: `double.tryParse` also takes "NaN" and "Infinity", whose
  fee then throws past the catch, as a body that is no JSON object does. A
  success of the node has a `tx_response`; one without it would count as code 0.
  The request for the indexer's state, a GET, succeeds or fails as a whole. A
  body that stops half way is awaited for ever by the code
  (`chain_api_client.dart:29` limits the headers only); the model delivers
  answers as a whole.
* **Multisig.** Logs, notices, progress and the digest's text are left out; a
  refused line is one model value, since all refusals have the same effect. An
  answer without `tx_response` counts as confirmed, as in `_toInt`.
* **ChainApp.** A refused balance entry of a genesis file is a negative amount
  (an empty address has the same effect). Titles and voting times are left out;
  no operation looks at them; so is the pass rate, which is only reported. The
  exponents of `Float64` have no limits: a quorum so small that it is parsed as
  zero or as a subnormal number (below 2^-1022) is not covered, nor is a quorum
  below zero or infinite, which is refused. `soulond` ends when the
  genesis is refused; the model then stays in phase "failed".
* **Cryptography** (key derivation, signing, address codecs) and **layout**
  (pages, widgets, themes) are not modelled: the former is out of TLC's reach
  and the latter has no state of its own. A page is modelled where its buttons
  guard a store's operation.
* **SDK.** Amounts, messages, gas and fees are left out. One part of an input is
  wrong at a time. An answer of the node about the sequence is any value the
  sequence had since the question.
* **Web wallet.** `VITE_API_RETRY_COUNT` is an integer; with a fraction, which
  `env.ts:3` accepts, `request` runs out of attempts and ends with UNKNOWN. A
  confirmation is answered by 200 with `success` set or by an error, as the
  server does, so the branch for a 200 without it (`LoginPage.tsx:91`) is left
  out. Render and effects are one step: the one frame in which the page of an
  event shows the last one under a new address, before `setEvent(null)`
  (`EventDetailPage.tsx:51-69`), is outside of `DetailSafe`. React's second run of effects in development (StrictMode) is
  left out. A POST the server handles after the client has given up is handled
  first and then given up here, which leaves the same state behind. Half an
  hour passes for app and storage at once. The event pages' reaction to a
  rejected session is a departure from the page. The export of the rows on the
  screen (`EventsPage.tsx:177-195`) is left out.
* **Popup.** The texts of the draft are whether `validateSendDraft` accepts
  them. Closing the popup's window, which loses all of its state, is left out:
  it is the initial state again. `MaxPanels` bounds how many panels are stacked.
* **Configuration** is read once at start; the values are constants here.

## 8 Plan

In this order; each step adds a module, its properties in an existing or a new
run, its mutants and, where the last column says so, theorems.

| step | module | source | properties to state | theorems |
|---|---|---|---|---|
| 1 | `KafkaPipeline` | `kafka_queue.go`, `backend.go`, over either store | no persisted gap, duplicates, pause and resume | — |
| 2 | `Gateway` | `gateway/router.go`, `server.go` | a healthy node is found; round robin is even | position stays in range |
| 3 | `NotificationsPage` | `NotificationsPage.tsx` over `NotificationHub` | which messages the page may lack or repeat | — |
| 4 | `StakingGovernanceFlow` | Flutter staking and governance store | balances after partial failures | conservation |
| 5 | `InteropSessions` | DApp, IBC, WalletConnect stores (WalletConnect on `SignatureChallenge`) | session and request life cycles | life cycle |
| 6 | `SecurityConfirm` | Flutter security confirm store | PIN attempts, lock-out | lock-out |
| 7 | `Onboarding`, `Navigation` | Flutter create, import and onboarding pages, `identity_demo_store.dart`, routers | no page behind a guard without what the guard asks for; late answers to a page that was left | guards |
| 8 | `Settings`, `Search` | Flutter settings, search and notification stores | timers against answers; active wallet exists | — |

Small components share an MC module and a run where their questions go together,
so that the number of runs stays small.

Then, for the modules that exist: that what a run composes is also proved of the
composition (`EventsSpec` implements `ListSpec` or `DetailSpec` in each of its
views; the server that `TransferFlow` and `WebSession` use behaves as
`SignatureChallenge` does alone), and the parts of the liveness arguments that
are safety properties (a queue that is full has a consumer at work under policy
`skip`; a call that waits has a timer).

## 9 How to run it

    tlc -workers 2 -config MCFileEventStore.cfg MCFileEventStore
    tlapm IndexerProofs.tla

and likewise for the other configurations and proof modules; the table in
section 3 and `runs` in `PROJECT.json` give the pairs.
