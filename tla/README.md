# ChronosTrade: TLA+ models, model-checking runs and proofs

ChronosTrade takes candles from an MT5 terminal, runs signal plugins on them
and acts on the signals: it places orders on paper accounts through an MT5
bridge, and it sends messages to external destinations.  A TypeScript server
and three BullMQ workers share one PostgreSQL database and one Redis; two
Python services talk to the MT5 terminal.

Almost all of the difficulty is in rows that several processes move through a
life cycle: a status is read, something is awaited, a status is written.  The
models are about those life cycles.

## 1. Inventory

| Part | State it keeps | Operations | Talks to |
|---|---|---|---|
| Candle ingestion (`server.ts`) and market-data service (`mt5-service/`: `main.py`, `pusher.py`, `gap_filler.py`, `historical_fetcher.py`) | `candles`; the pusher's bounded deque | startup sync, live job, push with retries, flush, upsert | triggers the live runner |
| Signal plugins (`ComposedSignalPlugin`, `songTrap/runtime.ts`) | condition window, signal area, closed trades, the stop of a trade, cycle and position | `onBar`, `finalize` | called by the live runner and by backtests |
| Live runner (`IndicatorLiveRunner`) | `indicator_instances` (checkpoint, plugin state), `signal_events`, set of instances in progress | `runTick` | intent capture, external actions, webhooks |
| Intent capture (`TradingTradeIntentService`) | `trading_trade_intents` | `captureAutoExecuteEntryIntents` | auto-execution queue |
| Auto-execution queue (BullMQ) | jobs, locks, attempts | add, run, retry, stalled check | processor |
| Auto-execution processor (`TradingAutoExecutionProcessor`) | claim on the intent; per-process guardrails cache | `process`, `checkGuardrails` | command boundary, bindings, bridge |
| Command boundary (`TradingExecutionService`) | `trading_execution_commands` and their events | `createCommand`, `executeCommand` | bridge, reconciliation queue, workspace |
| MT5 bridge (`MT5BridgeClient`, `mt5-service`) | the broker's orders and positions | open, close, modify, fetch | MT5 |
| Automation bindings (`TradingAutomationBindingService`) | `trading_automation_bindings` (status, kill switch) | create, updateBindingStatus | read by capture and processor |
| Reconciliation (queue, `TradingReconciliationProcessor`, `TradingWorkspaceService.forceSync`) | sync runs, mirrored positions, orders, deals, snapshots | enqueue, process, forceSync | bridge |
| External actions (`externalAction/*`) | deployments, actionable events, delivery attempts, replays | capture, deliver, replay, enable/pause/archive | Telegram |
| Sessions and users (`services/auth`) | refresh sessions, users, roles | login, refresh, logout, admin operations | all routes |
| Backtests (`SignalBacktestRunService`, queue) | runs and their artifacts | queue, run, fail | candles |
| Alerts (`AlertEngine`, `SyncAlertService`) | cooldowns | trigger | Telegram, sockets |
| Read side (audit, discrepancy, export, monitoring) | none of its own | queries | database |

### What is hard in each part, and what makes it correct

* **Live runner.** Every request that ingests candles starts `runTick`
  without waiting for it, so calls for one instance overlap; the marker
  `processingInstances` is checked before an `await` and set after it.  One
  checkpoint at the end of a tick makes everything before it repeatable.
  Correct: the checkpoint is always a consistent fold of bars, nothing behind
  it is missing, the marker is never left behind, an entry event reaches both
  lanes, every bar that comes in order is evaluated.
* **Intent capture, auto-execution queue, processor, command boundary, bridge**
  (the *lane*).  Jobs are retried, and run again while their first handler is
  alive; a worker dies between any two statements; the answer of the bridge
  gets lost.  Correct: one owner at a time, one order per intent, EXECUTED means
  an order, a verdict is final and true, every intent is closed.
* **Automation bindings.** Status and kill switch are read long before they are
  used, and `updateBindingStatus` writes back a switch it read before.  Correct:
  an activated switch stays active and bounds what is still placed.
* **Reconciliation.** Deduplication by a job id that is the account's, with
  completed jobs retained; concurrent `forceSync` with three fetches and six
  separate writes.  Correct: a sync that ran alone leaves what it fetched, a run
  is settled, a waiting job brings in the trade that was filled.
* **Guardrails.** Intents of one account share a cached count whose age is measured
  from the end of a call, and fall back to the mirror when the bridge is silent.
  Correct: whoever the broker's count lets through, there was room for not long ago.
* **External actions.** A replay is a second job for the same event; Telegram
  may take a message whose call times out; operators pause deployments while
  jobs run.  Correct: SENT and COMPLETED are only reported of messages that went
  out, rows account for messages, duplicates and messages after a pause are
  bounded, events and replays are settled.
* **Sessions and users.** Refresh token rotation and the last-administrator check
  are read-then-write; the tabs of one browser share a cookie that every response
  overwrites.  Correct: a browser at rest holds a live cookie or none, rotation
  makes no sessions of its own, an active administrator remains.
* **Backtests.** Nothing keeps the executions of a run from overlapping each other
  or its deletion; status and artifacts are written apart.  Correct: a run has the
  artifacts of one execution, a finished one has them, a deleted one leaves none.
* **Candle ingestion.** A bounded buffer of failed payloads, flushed by a thread
  beside the live job; a startup that only asks for the latest candle, and asks for
  the range since in another clock than the broker's.  Correct: payloads are written
  in the order of their fetches, retries and restarts leave no hole between stored
  candles.
* **Signal plugins.** Long rules over one stop, one window or one cycle, in two
  passes that have to agree.  Correct: secured profit is not given up, a cluster of
  signals is capped, a halt ends or does not as intended, a completed cycle has no
  position left.
* **Alerts, read side, routes.** No life cycle worth a model: notifications
  and queries.

## 2. Plan

| # | Module | Models | State |
|---|---|---|---|
| 1 | `IntentExecution` | the lane, capture to broker | modelled, checked, proved (all safety) |
| 1a | `TradePromise` | what the lane promises, seen from outside | abstract specification; that 1 implements it is checked and proved |
| 2 | `LiveRunner` | `runTick` and its checkpoint | modelled, checked, proved (all safety) |
| 3 | `ExternalAction` | events, replays, deliveries | modelled, checked, proved (all safety) |
| 4 | `Reconciliation` | job per account, `forceSync`, the mirror, the gate of commands | modelled, checked, proved (safety) |
| 5 | `Guardrails` | cached counts, limit of open positions, mirror fallback, kill switch | modelled, checked, proved (safety) |
| 6 | `AuthSession`, `UserAdmin` | refresh rotation in a browser of several tabs; administrators | modelled, checked, proved (safety) |
| 7 | `BacktestRun` | run, its executions, its deletion | modelled, checked, proved (safety) |
| 8 | `PusherBuffer` | market-data service: startup sync, live job, buffer, flush | modelled, checked, proved (safety) |
| 9 | `SignalMatch`, `TradeGuards`, `TradeExit` | the composed plugin: matching, guards, trade management | modelled, checked, proved (safety) |
| 10 | `SongTrap` | the cycle of songTrap and the replay of its positions | modelled, checked, proved (safety) |

What the plan has left: the refinement and `ClosedWithoutOrder` under `db`, as
far as they hold (a statement that fails behind the bridge call belies the
verdict); the lemmas about the steps of a slot that `IntentExecution_proofs` and
`IntentPromise_proofs` each have in their own form; a composition of 4 and 5
with the claim and dispatch of 1 (several intents of one account that see one
cache and one mirror).

Module graph (EXTENDS unless said otherwise):

    IntentExecution --INSTANCE--> TradePromise            (refinement mapping)
    MCIntentExecution, IntentExecution_proofs  -->  IntentExecution
    IntentPromise_proofs                       -->  IntentExecution_proofs
    MCLiveRunner,      LiveRunner_proofs       -->  LiveRunner
    MCExternalAction,  ExternalAction_proofs   -->  ExternalAction
    MCReconciliation,  Reconciliation_proofs   -->  Reconciliation
    MCPlatform  -->  AuthSession, UserAdmin, TradeExit, TradeGuards, SignalMatch,
                     Guardrails, BacktestRun, PusherBuffer, SongTrap
    MCTradeGuards    -->  TradeGuards
    Access_proofs    -->  AuthSession, UserAdmin
    Backtest_proofs  -->  TradeGuards, TradeExit, SignalMatch, SongTrap, BacktestRun
    Platform_proofs  -->  MCPlatform, Access_proofs, Backtest_proofs

`MC*` modules hold the model values, the constant functions and the symmetry
sets; `*_proofs` the theorems.  `MCPlatform` checks nine components that share
no state in one run: its variable `subject` is chosen in the initial state,
only the subject's component takes steps, and the others rest in one initial
state, so the run explores the union of their state spaces and not the product.
An operator commented "Variant:" stands before the definition it deviates from.
It is that definition with a plausible bug, is part of no specification, and
shows which property notices the bug.

## 3. Conventions

* One action is the code between two `await`s.  JavaScript does not interleave
  there; everything else does.
* A handler (worker slot, request) is a record with a program counter.  The name
  of a program point is that of the statement that comes next.
* Rows are records of the columns the code reads back.  Columns nobody reads
  (timestamps, reasons, audit events) are left out.
* What may go wrong is the constant `Faults`, so that each property names the
  faults it survives: `db` (a statement throws and changes nothing), `crash`,
  `stall` (a live handler loses the lock of its job and the job is run again),
  `ambiguous` (a call to the outside fails although it took effect), `enqueue`
  (`queue.add` throws; in `IntentExecution` always after it stored the job),
  `gap` and `pause` (bars left out, an operator's status changes).  The later
  modules have sets of their own (`SyncFaults`, `SessionFaults`,
  `BacktestFaults`, `PushFaults`), explained at their CONSTANTS.
* A history variable records what a property excuses or compares with (`alone`,
  `overlapped`, `beside`, `crossed`, `torn`, `reached`, `givenUp`, `locked`,
  `sinceRoom`, `phantoms`); no guard of the
  code's actions reads one.
* BullMQ and the outside (MT5, Telegram) are modelled from how the code uses
  them.  In BullMQ 5 `moveToFailed` counts an attempt, a stalled run does not;
  a handler that lost its lock can no longer move its job.  `MaxAttempts` is
  the queue option `attempts`; `MaxStalled` is `maxStalledCount`, which the code
  leaves at its default of 1.

## 4. Modules

### IntentExecution

| State | Code |
|---|---|
| `cap` | where `createIntentForBinding` is, one call per (binding, signal event) |
| `intent` | `trading_trade_intents`: status, and whether `completedAt` is set |
| `cmd` | `trading_execution_commands`, found by idempotency key |
| `job` | the BullMQ job whose id is the intent's |
| `h` | the worker slots |
| `binding` | status and kill switch |
| `expired` | intents older than `MAX_INTENT_AGE_MS` |
| `broker` | orders placed; history: orders reported, calls sent, orders placed while killed |

`SelectBinding`, `CreateIntent`, `Enqueue`, `MarkEnqueueFailed` are the capture.
`Claim` is the conditional `updateMany`; `Load`, `Guard`, `RejectIntent` are the
checks; `FindCommand`, `CreateCommand` are `createCommand` with its reuse of a
command row; `ValidateCommand`, `DispatchCommand`, `BridgeCall`, `RecordReply`,
`DeferReconciliation`, `ConcealReply` are `executeCommand` (the last is its
catch); `LoadResult`, `SettleIntent`, `RequeueIntent`, `CatchError` end
`process()`.  `JobReturns`, `JobThrows`, `RecoverStalled` are the queue.
`UpdateBinding` writes any status and switch at any time, which includes every
way `updateBindingStatus` may lose an update.

`TradePromise` is the view from outside: an intent is opened, at most one order
is placed while it is open, and it is closed with a verdict that tells which
happened.  `failed` can be opened again, because the code keeps FAILED intents
claimable.

### LiveRunner

| State | Code |
|---|---|
| `candles` | the last upserted form of each bar: absent, forming, final |
| `row` | `indicator_instances`: active, `startedAt`, checkpoint time, plugin state |
| `events` | `signal_events`, unique by bar and key |
| `handed` | what each lane was given |
| `traces` | `signal_logic_traces` with the event each is linked to |
| `running` | `processingInstances` holds the instance |
| `tick` | the running calls of `runTick` |

`Ingest` is the upsert with the start of a tick.  `Enter`, `GetInstance`,
`Mark` are the guard with the await in its middle; `QueryBars`, `OnBar`,
`SaveEvent`, `CaptureIntents`, `CaptureActions`, `SaveTraces`,
`SaveCheckpoint` are the loop; `TickFails` is any awaited call that throws, with
or without the `finally`.  The plugin is the constant `Emits`; its state is the
sequence of (bar, form) it consumed, so that a bar folded twice, left out or out
of order shows.

### ExternalAction

| State | Code |
|---|---|
| `active` | the deployment is ACTIVE |
| `event`, `replay` | `external_action_events`, `external_action_replay_jobs`: status |
| `caller` | where the API process is with each job it adds, and the status a replay read |
| `job`, `h` | the delivery queue and the worker slots |
| `rows`, `sentRows` | `external_action_deliveries` of each job, and those that say SENT |
| `telegram`, `late` | messages that went out; those since the deployment was last active |

`FindDeployment`, `CreateEvent` are the capture, `ReadEvent`, `CreateReplay`,
`MarkReady` the replay, `Enqueue`, `UndoEnqueue`, `MarkReplayFailed` what both
do about the queue.  `StartReplay` to `FailReplay` are `process()`: the check
of the deployment, the row of the attempt, `Deliver`, and the try and catch
around it.  `DbError` says which statements reach that catch: a failed write
after a successful delivery turns the row that says SENT into FAILED.  An answer
with a 2xx status is taken for a message that went out, as the code does without a
look at the body (`TelegramExternalActionDeliveryService.ts:78`).

### Reconciliation

| State | Code |
|---|---|
| `broker` | what became of each order: pending, open, closed, cancelled |
| `cmd` | `trading_execution_commands` with the reconciliation event |
| `rows` | mirrored positions, orders and deals: absent, live, gone |
| `run`, `latest` | `trading_sync_runs`: status of each syncer's run, the last started |
| `job` | the one BullMQ job whose id is the account's |
| `pc`, `for`, `answer`, `got` | where each `forceSync` is, the command it ends, its three calls and what they returned |

`Gate` is `deriveSyncHealth` in front of a command, `Dispatch` and
`DeferReconciliation` the end of `executeCommand`; `CreateRun`, `FetchSummary`,
`Fetch`, the four `Persist*`, `FinishRun` and `FailRun` are `forceSync`;
`Request` is the operator's button, `TakeJob` to `RecoverStalled` the queue.
`PersistPositions` and `PersistOrders` close what was not listed and then upsert
what was, in two statements.

### Guardrails

`StartCheck` uses `guardrailsCache` while it is younger than its time to live.
Otherwise the two calls to the bridge are awaited: `BrokerCounts` is the moment the
broker counts, `BridgeAnswers` the moment both have answered, when the entry is
stamped and the intent decided; any time may pass in between, and `lag` records it.
`BridgeFails` turns to the mirror, `MirrorAnswers` uses it if its snapshot is young
enough, without caching it.  `ActivateKillSwitch` and `PlaceOrder` are what follows.
The account is moved by `PositionsMove`, the binding by `OperatorWrites`; `Tick` is
time passing at any point.  Of the mirror only the age of its latest snapshot is
kept (`SyncMirror`): what its rows say beside that snapshot is the subject of
`Reconciliation`, and anything here.  `IntentExecution.Guard` abstracts all of this
to "may block, pass or kill".

### AuthSession, UserAdmin

`AuthSession` has the refresh tokens in Redis (`store`), the cookie the tabs share,
and the requests under way.  `SendRefresh` is the timer of `Providers.tsx` or the
retry of `authFetch.ts`; `ReadToken` to `IssueSession` are `refreshSession`;
`Authenticated`, `Anonymous` and `ResponseLost` are how the browser takes a
response, whose `Set-Cookie` applies whenever it arrives.  Tokens are numbered in
the order they are issued.

`UserAdmin` has the rows of `users` and up to two updates: `RequireAdmin`,
`LoadUser`, `AssertLastActiveAdminPreserved`, `UpdateRow` are the statements of
`updateUser`; `CountUsers` and `CreateBoss` are `ensureBootstrapAdmin`.

### BacktestRun

The row of a run, its artifacts (one item per execution), the executions and the
deletion.  `DeleteArtifacts`, `InsertArtifacts`, `CommitArtifacts` are the
transaction of `executeRun`, `MarkFailed` its catch, `DispatchWebhooks` what
follows the commit, whose errors are swallowed; `CheckDeletable`, `DeleteRows`, `DropRun` are
`deleteGeneratedBacktest`.  PostgreSQL at READ COMMITTED is modelled from how the
two use it: a statement sees what is committed when it begins, and an insert holds
the row it refers to.

### PusherBuffer

The clock of the market, the stored candles (each by the tick it shows), and of
the service the startup sync, the live job, the flush job and the deque.  A payload
is a set of bars as they stood at one tick.  `Start` asks for the last candle,
decides what to fetch (`SyncRange`) and gets all of it or, under the fault `fetch`,
only some or none; `FetchLatest`, `PushSucceeds`, `PushFails` are `push_batch` with
its retries; `FlushTakes`, `FlushSucceeds`, `FlushFails` are `flush_failed_buffer`.
A failed request may have been carried out, in part, or later.

The range of a startup fetch is in UTC, the bars it selects are stamped in the
broker's local time (`historical_fetcher.py:65`, `mt5_connector.py:117`), and
`_to_utc_iso` takes them back to UTC when they are pushed: the fetch returns the bars
that opened `Lag` earlier than asked for (`LaggedRange`).  `Lag` is the three hours of
`broker_timezone` in bars of the timeframe.  The latest candle is in UTC and the live
job asks by count, so both are exact.

### SignalMatch, TradeGuards, TradeExit

Three parts of `ComposedSignalPlugin`.  `SignalMatch` is `onBar`: the condition
window, the match mode, the signature and the signal area.  `TradeGuards` is the
loop of `finalize` over the signals, with `resolveTradeGuardState` as the
predicates `Cooling`, `Capped`, `BelowCurve`, `Halted`, `TooSoon`, `Bursting` over
the closed trades, and the phantom trades a halt records.  The average of the equity
is rounded in each step, as doubles are, on a coarser grid (`Precision`): on a curve
that stays flat it reaches the curve, which exact fractions never do.  `TradeExit` is
the loop over the bars of one trade.  A price there is the distance from the entry in units
of the initial risk, in the direction of the trade; fractions are halves.

### SongTrap

One bar takes a cycle through its phases (`Pulled`, `WasReset`, `Reclaimed`,
`Dipped`, `Entered`, `Confirmed`) and each position through `Manage`.  The code
does this in two passes, `onBar` for all bars and then `finalize`; they share
nothing but the signals, so the model takes each bar in both.

## 5. Runs

| Run | Instance | States | Shows |
|---|---|---|---|
| `faults` | 1 intent, 2 slots, 3 attempts, 1 stall; ambiguous, db, crash, stall | 1.5 M | `ReportedIsLast`, `ClaimExclusive`, `ExecutedMeansOrder`, `KillSwitchBound`, `CallBudget`, `VerdictIsFinal`, `JobsDrain` |
| `promise` | the same; crash, stall | 46 k | `PromiseKept` (refinement), `ClosedWithoutOrder` |
| `live` | 2 intents on 1 slot, 2 attempts; enqueue | 0.4 M | `IntentsSettle` |
| `double` | 1 slot; ambiguous | violation | `AtMostOneOrder` fails, finding 1 |
| `tick_faults` | 2 ticks, 2 bars; db, crash, gap, pause | 3.8 M | `CheckpointIsFold`, `CheckpointCoversEvents`, `MarkerReleased`, `LinksFresh` |
| `tick_overlap` | 2 ticks, 3 bars; gap | 0.4 M | `EntriesReachLanes`, `BarsEvaluated` |
| `tick_dropped` | 1 tick; crash | violation | `NoEntryDropped` fails, finding 2 |
| `external_faults` | 1 event, 1 replay, 2 slots, 2 attempts, 1 stall; ambiguous, db, crash | 2.3 M | `ReportsAreTrue`, `RowsAccountForMessages`, `DuplicatesBounded`, `PauseBound` |
| `external_live` | the same; ambiguous, enqueue | 0.3 M | `DeliveriesSettle` |
| `mirror` | 1 trade, 1 request, the worker, 2 attempts, 1 stall, 2 failures; bridge, db, enqueue, crash | 0.4 M | `CleanSyncIsExact`, `RunsSettle`, `JobMirrorsTrade` |
| `platform` | nine components, see below | 2.1 M | `CookieIsLive`, `SessionsNeedLogins`, `AdminRemains`, `LockedProfit`, `ClusterBound`, `DrawdownHaltIsFinal`, `RunIsWhole`, `NoHole`, `CompletionCloses`, `RoomWasRecent`, `FlushInOrder` |
| `phantom` | 6 signals, a drawdown halt only | violation | `PhantomsUnblock` fails, finding 3 |

Each run also checks the type invariant of its modules where it is the first to
use them.  Of the states of `platform` 1.4 M are the sessions', most of the rest
the guardrails', the pusher's and the trade guards'; the others have 3 k to 40 k.
Each subject starts in initial states of its own, so the states add up.
It is the one run with deadlock checking off: its subjects are bounded (bars of a
trade, ticks of a market, logins) and stop.  In the others an operator's update,
the feed or a variable that has run its course (`job`, `tick`, `Quiet`) always
leaves a step.

**Bounds and why they are enough.**

* *Lane, external actions.* Two slots are what a race of two handlers for one
  intent or event needs; a third adds no pair.  Intents meet only in a binding,
  which any step may rewrite, and in the slots, so one intent suffices for safety
  and two on one slot for liveness, where one can starve the other.  Three
  attempts (the queue's option) give a first, a middle and a last one; where two
  are used, the middle one differs from the first in nothing the code looks at.
  One stall is the default of `maxStalledCount`.  One replay meets the first job
  of its event; two replays meet each other no differently.
* *Live runner.* Two bars make a step that overlaps another's checkpoint, three let
  a bar fall behind one that was evaluated.  A bar that arrives behind the checkpoint
  is filtered out (`IndicatorLiveRunner.ts:99`) and never folded in; `BarsEvaluated`
  is about the bars that arrive ahead of it (`Ahead`).  The plugin of the runs emits two
  events on one bar, differs between the forming and the final bar, and stays
  silent on others.
* *Mirror.* One job and one request make two overlapping syncs.  `MaxFaults` = 2
  lets the worker and the request fail, or a failure meet the handling of another.
  `Moves` leaves out fills, which differ from an order filled at once only in the
  surface that lists it first.
* *Sessions.* `MaxTokens` = 3 are a login and two rotations of its token, which is
  what a race between two refreshes makes; `MaxCalls` = 2 requests at a time of two
  tabs.  *Users:* two accounts, two updates, two first logins.
* *Guardrails.* Two intents on a limit of one position; both lifetimes are one tick,
  so that younger, as old and older occur.  Two calls under way at a time are what it
  takes for an older count to replace a newer one in the cache.  Ages end at `Oldest`,
  past both lifetimes; the proof is for all of them.
* *Backtest run.* Three executions: one that is repeated after each outcome.
* *Pusher.* Four bars, two of which fit into the live fetch and into the history, and
  a lag of one: a startup can be behind by more than it leaves to the live job.  A
  buffer of two is full after two failures and holds an order.  A bar is one tick
  here (`BarTicks` = 1), so a candle does not change while it forms; `FlushInOrder`
  compares the ticks of the fetches instead.
* *Phantom.* Six signals: two that bring a loss of 20 %, and phantoms enough to see
  that nothing moves (`Patience` = 3; any number fails).
* *Plugins.* Nine exit profiles, each with a different combination of the rules, four
  bars, prices from the stop to one R past the last stage; four guard
  configurations over five signals, with an average in quarters; matches over six
  bars with a reset distance of two; one cycle of songTrap with three order plans.

Symmetry is used for safety runs only.

**Fairness and why the code justifies it.**  `IntentExecution`, `ExternalAction` and
`Reconciliation`: a process that is not killed runs on (weak fairness of each
capture, slot or sync), BullMQ hands out waiting jobs to idle slots, and its
stalled check, on a timer in every worker, recovers a job whose worker is gone.
`JobsDrain` holds under crashes with that alone, since crashes are bounded by the
attempts and stalls of the job.  `LiveRunner`: a tick that started runs on, and
the feed pushes its latest bars every `LIVE_INTERVAL` seconds.  Without the
feed a bar whose request met the marker would wait for ever: the code has no
other retry.  Operators, time and faults are under no obligation.

## 6. Proofs

All theorems hold for every value of the constants: any sets of intents,
bindings, events, replays, slots, ticks, tabs, users and executions (finite where
they are counted), any plugin, every `MaxAttempts` and `MaxStalled`, and every set
of faults but those a theorem excludes.  They assume the named assumption of their
module (`ConstantsAssumption`, `SyncAssumption`, `SessionAssumption`,
`UserAssumption`, `BacktestAssumption`, `TradeAssumption`, `GuardsAssumption`,
`MatchAssumption`, `TrapAssumption`, `GuardrailsAssumption`, `PusherAssumption`),
which the runs evaluate.

`IntentExecution_proofs`:

| Theorem | Assumes | Inductive invariant |
|---|---|---|
| `TypeCorrect` | | `TypeOK` |
| `ClaimIsExclusive` | no `enqueue` | `ClaimInv` |
| `OneOrderPerIntent` | no `enqueue`, no `ambiguous` | `OrderInv` |
| `ReportedOrderIsLast` | no `enqueue` | `OrderInv` |
| `ExecutedHasOrder` | no `enqueue` | `VerdictInv` |
| `VerdictsAreFinal` | no `enqueue` | `FinalInv` |

`ClaimExclusive` alone is not inductive: the capture writes FAILED without a
claim, which is harmless only because nobody knows of the intent before its job
exists (`CapturePrivate`, `JobAbsentUnknown`).  That is also why `enqueue` is
excluded: a `queue.add` that throws after storing the job breaks the lock.
`OrderInv` adds what the owner of the claim knows of its command at each point
(`OwnerKnows`): until the bridge call the command is one of which no order was
reported; and it ties orders to reports, which are equal unless answers are lost
(`Reports`).  `VerdictInv` follows the evidence in the other direction: order, then
COMPLETED, then EXECUTED.

`IntentPromise_proofs`, on top of them:

| Theorem | Assumes | Inductive invariant |
|---|---|---|
| `KillSwitchBounds` | no `enqueue` | `KillInv`: `ClaimInv`, `KillHolds` |
| `CallsAreBudgeted` | | `CallInv`: types, `QueueOf`, `CallsOf` |
| `ClosedIntentsHaveNoOrder` | no `enqueue`, `ambiguous`, `db` | `ToldInv`: `OrderInv`, `CaptureRow`, `ToldHolds` |
| `LaneKeepsPromise` | no `enqueue`, `ambiguous`, `db` | `PromiseInv`: `ToldInv`, `VerdictInv` |
| `NoIntentIsForgotten` | no `crash`, `db`, `stall` | `HeldInv`: `CallInv`, `SlotHolds`, `RowHolds` |

`KillHolds`: whoever is between the reading of the switch and the bridge does so for
an intent that has not ordered since the activation; the claim leaves one such
handler at most, and a later one reads the switch again.  `CallsOf` counts: calls
made and handlers that may still make one are at most the runs of the job begun so
far, which the queue bounds.  It holds under every fault, because it does not rest
on the claim.  `OrderTold`: an intent with an order is EXECUTED, or PROCESSING with an
owner that knows of the order (`Told`), or PROCESSING for good because its owner
died; while the database works nothing throws between the order and the verdict.
`LaneKeepsPromise` maps each action to the step of `TradePromise` it is, or to a
stutter.  Three writes move the outcome a row shows: the claim or the creation
(`Opens`), the bridge call (`Places`), the settlement (`Closes`); `Says` and
`OutcomeIs` tell the outcome from the row, `Stutters` treats all other actions.
`ambiguous` and `db` are excluded because the promise is not kept under them
(finding 1; and an error behind the bridge call makes `ConcealReply`, the catch of
`executeCommand`, write REJECTED over an order).

`NoIntentIsForgotten` is the safety core of the liveness property `IntentsSettle`:
`OpenIsHeld`, an intent that is not closed is with its capture, waits in the queue,
or is worked on by the slot that holds the lock of its job.  It allows `ambiguous`
and `enqueue`; the run `live` has the second.  `SlotHolds` says that a
slot's count of attempts is the queue's, so that it throws only while another
attempt is left, and that it returns from a closed intent only; `RowHolds` that an
active job has its slot and a PROCESSING row its owner.  A job whose live handler
lost its lock breaks both (the model checker finds it with `stall`), as does a
process that dies.

`ExternalAction_proofs`:

| Theorem | Assumes | Inductive invariant |
|---|---|---|
| `TypeCorrect`, `RowsAccount` | | `RowsInv` |
| `ReportsWereTrue` (`SentWasDelivered`, `ReplayWasResent`) | | `WitnessInv` |
| `PauseIsBounded` | | `PauseInv` |
| `DuplicatesAreBounded` | | `BudgetInv` |
| `NoReplayIsForgotten` | no `crash`, `db`, `stall` | `HeldInv`, `ReplaysAreHeld` |
| `NoEventIsForgotten` | no `crash`, `db`, `stall`, `enqueue` | `HeldInv`, `NobodyUndoes`, `EventsAreHeld` |

All but the last two are counting arguments and hold under every fault.  The bound
of a property is what has happened; the invariant adds what the slots still hold.  `RowsInv`: messages plus slots about to
send are at most the rows; rows that say SENT plus slots about to say so are at
most the messages; slots whose own row says SENT are at most such rows.  Type
correctness needs it too, as a failing handler takes its claim back and the
number of SENT rows must not fall below zero.  `PauseInv`: messages since the
pause plus slots past the check are at most the slots.  `BudgetInv`: messages plus
slots that have not sent yet are at most the runs of the job begun so far, and
those are bounded by the queue.  `WitnessInv`: whoever reports SENT, or remembers
it in order to write it back, has a message.  The lemma `CountMove` does the
arithmetic once: two sets of slots that differ in one.  The proofs cover `stall`
with replays, where several live handlers share a job and the state space is out
of the model checker's reach.

The last two are the safety cores of `ReplaysSettle` and `EventsSettle`: a replay
without an answer, and an event that is READY, has a caller about to add a job, a
job that waits or will be repeated, or a handler that has yet to write the answer
(`InHand`).  `HeldInv` adds to `BudgetInv` that slots and locks know of each other;
`WorkLeads` says of all steps of a handler at once where they may lead before the
statuses are written.  For events `enqueue` has to be excluded as well: a replay
that cannot be enqueued writes back the READY it read at its beginning, and the
job that stood behind that READY may be over, or may never have been added.  This
is why `EventsSettle` speaks of events with a waiting job only.

`LiveRunner_proofs`:

| Theorem | Assumes | Inductive invariant |
|---|---|---|
| `TypeCorrect` | | `TypeInv` |
| `MarkerIsReleased` | | `MarkerInv` |
| `CheckpointStaysFold` | | `FoldInv` |
| `CheckpointStaysCovered` | | `CoverInv` |
| `LinksStayFresh` | | `LinkInv` |
| `EntriesArrive` | no `db`, no `crash` | `EntryInv` |

The marker is no lock, so two ticks may hold different copies of the state at the
same time, and the invariants are about every copy.  `TypeInv` adds to the types
that a tick which stores an event has one left to store, and that behind `onBar`
there is a bar.  `FoldInv` says of each copy that it is ordered, that the tick
starts behind it, and that the bars left are later and distinct; whichever copy is
written last is then a fold.  `CoverInv` says that each copy's events are stored
but those of the step being stored, and of that step all before the next; the
checkpoint is only written outside such a step.  `LinkInv` and `EntryInv` rest on
one notion, the events a tick has stored and not let go of (`Own`): an event has at
most one owner, and no trace while it has; and an entry a lane lacks is owned by a
tick in front of that lane.  The lemma `StepRests` says once for all actions which
of them touch ownership.  That there is a newest bar at all (`NewestType`) needs
the well-foundedness of `<` on the naturals.

`Reconciliation_proofs`, under every fault:

| Theorem | Inductive invariant |
|---|---|
| `MirrorTypeCorrect` | `MirrorTyped`: types, `JobCounts` |
| `CleanSyncLeavesWhatItGot` | `MirrorInv`: `MirrorTyped`, `LonelySync`, `MirroredHolds` |
| `RunningMeansUnderWay` | `MirrorTyped`, `RunningIsUnderWay` |

The types need that an active job has attempts left (`JobCounts`).  A sync that has
been alone so far excludes every other (`LonelySync`), so nobody else writes rows
while it does; `Mirrored` says of each surface what its two statements have
achieved: after the first no live row is unlisted, after the second the live rows
are the listed ones.  Nothing is assumed of the rows a sync finds, which is why it
repairs what a sync that died between its writes has left.
`RunningIsUnderWay`, the safety core of `RunsSettle`: a run that was not lost says
RUNNING exactly while its sync is between the statement that opens it and the one
that settles it, so RUNNING outlives a sync only if the run was lost.

`Access_proofs` (`AuthSession`, `UserAdmin`):

| Theorem | Inductive invariant |
|---|---|
| `AnAdminRemains` | `UserInv`: types, `TargetsKnown`, `Governed` unless updates overlapped |
| `CookieStaysLive` | `SessionInv`: types, `Unseen`, `Kept` |
| `RotationNeedsLogins` | `RotationInv`: types, `Unseen`, `Rotates` unless refreshes overlapped |

`Governed` says that an administrator remains, that at most one update is under way,
and that it knows the row it is about to write and has seen another administrator
if it removes one.  For the cookie it has to be said of every token on its way what
will become of it: `Unseen` that a token a response is bringing is in no cookie, no
request and no other response, `Kept` that the tokens being brought are in the
store, and that the cookie's token is live or some request under way is about to
replace or clear it.  `Rotates` counts: the sessions without the token a refresh
carries, and one for the refresh, are at most the logins.

`Backtest_proofs`:

| Theorem | Inductive invariant |
|---|---|
| `BacktestTypeCorrect`, `RunStaysWhole` | `BacktestInv`: types, `Quiet` unless executions overlapped |
| `CompletedIsClosed` (`SongTrap`) | `TrapInv`: types, `CompletionCloses`, `ActiveOK` |
| `ProfitStaysLocked` (`TradeExit`) | `ExitInv`: types, `LockedProfit`, what the stop would bring now |
| `ClustersAreBounded` (`SignalMatch`) | `MatchInv`: types, some assignment of signals to areas |
| `DrawdownHaltsAreFinal` (`TradeGuards`) | `StuckInv`: types, a drawdown halt that met no open trade halts the last signal |

`Quiet` says for each step of the one execution under way which artifacts are
committed and which its transaction has deleted.  `ActiveOK` ties the two passes
of songTrap together: the signal of the active cycle has its target at the trap,
so the bar that completes the cycle is a bar that meets the target.  `ExitInv`: an
open trade has what its stop had secured, were it hit now; the stop, and the swing
it may follow, are below every target still to be met, so nothing that closes the
trade or a part of it brings less; and before break-even the stop is the initial
one.  The model of `SignalMatch` remembers one area, as the code does; `MatchInv`
says there is a function from signals to the signals that began their areas
(`AreaStarts`).  The lemma `AreasBound` concludes that a cluster lies in two areas
at most: where the area of its last signal began inside the cluster, the area before
it began outside, since nothing within a cluster begins one.  So the cluster has at
most `cap` signals of the second and fewer of the first.

`StuckInv`: since a drawdown halt blocked a signal while no trade was open, every
trade is closed and the halt would meet another signal at the same time.  The step
that matters is the phantom trade of a blocked signal (`PhantomKeepsHalt`): it gains
nothing and is the last to close, so the curve gets its last point once more
(`CurveAppends`), and peak and drawdown stay (`DrawdownStays`).  Of the equity curve
filter nothing of the kind holds: the phantoms bring the rounded average down to the
curve, and then it no longer halts.  The facts about the sums are inductions over the
trades.  They are carried out on the smallest counterexample, a set of naturals that
has a minimum (`HasMin`, from the well-foundedness of `<`): `ComputesExists` gives a
recursive function its values, `AlikeAgree` says that two which start alike and take
the same steps agree.

`Platform_proofs`:

| Theorem | Inductive invariant |
|---|---|
| `RoomIsRecent` (`Guardrails`) | `RoomInv` |
| `FlushesAreInOrder` (`PusherBuffer`) | `PusherInv`: types, `FetchOrder` |
| `HistoryHasNoHole` (`PusherBuffer`), where `Lag <= FetchBars` | `HoleInv`: `PusherInv`, `NothingLost` unless given up |
| `PlatformRunsComponents`, `PlatformTypeCorrect` | those of the nine components |

`RoomInv` compares ages: a count that leaves room was true when the broker made it,
so there has been room within the lag of every such count on its way, and within the
age and the lag of every such entry of the cache, whichever call wrote it last.
`FetchOrder` orders what the service holds by fetch: last flush, payload
being flushed, buffer from left to right, live payload, clock.  For holes it has to
be said what is on its way: a bar is *covered* if it is stored or held, and while
the service runs (`ServiceRuns`) covered bars are gapless up to the last fetch, a
late request brings covered bars only, and the live job is still in time.  While
it is down (`ServiceDown`) stored bars are gapless, and what is late prolongs them.
`StartLosesNothing` is the case the code is about: what is stored, what the start
fetches and what it leaves to the live job meet, unless the start itself gave bars up
(`Overlooks`, which the property excuses: a weekend, a fetch that fails or comes in
part, a history that does not join what is stored).  The fetch ends `Lag` bars before
now, so the live job's newest bars join it only if `Lag` is at most `FetchBars`.  That
is the assumption of the theorem: the three hours are at most three bars from H1 up.
On M1 to M30 the property fails, see the observations.
It rests on `HasMin` and `HasMax` of `Backtest_proofs`.

`PlatformRunsComponents` says that each behaviour of the composition is one of every
component, since a step is a step of the subject and leaves the others alone; so
what is proved of a component holds of the composition; `PlatformTypeCorrect` is the
type invariant of all nine.

Model-checked only:

Every safety property of a passing run has a theorem (`NoHole` where `Lag` is at most
`FetchBars`, as in the run).  Left to the runs are:

* every liveness property (`JobsDrain`, `IntentsSettle`, `BarsEvaluated`,
  `DeliveriesSettle`, `RunsSettle`, `JobMirrorsTrade`): the proof system has no rules
  for fairness.  Of `IntentsSettle`, `DeliveriesSettle` and `RunsSettle` the safety
  core is proved, that nothing unfinished is without somebody to go on with it
  (`NoIntentIsForgotten`, `NoReplayIsForgotten`, `NoEventIsForgotten`,
  `RunningMeansUnderWay`);
* that the three documented expectations of section 7 fail.

## 7. Findings

1. *A lost answer places a second order* (run `double`).  The idempotency key names
   the command row and is not sent to the bridge.  `docs/trading-worker.md:446`
   considers double execution handled.
2. *An entry is dropped by a crash* (run `tick_dropped`).  The replay takes the stored
   event for a duplicate and hands over only what it inserted itself, against
   `docs/external-action-signal-architecture.md:587`.
3. *Phantom trades do not end a drawdown halt* (run `phantom`).  The comment at
   `ComposedSignalPlugin.ts:1181` records them "so ECF/DD_HALT can eventually unblock".
   They have no gain, so equity and peak stay, and a drawdown halt that meets no open
   trade blocks every later signal of the run.  For the equity curve filter the comment
   is right, after a few dozen phantoms in doubles.

### Observations

Met while modelling.  The properties state what holds beside them; none has a run of
its own.

* *Live runner.* The reentrancy guard has an await between check and `add`, so two
  ticks may process one instance (`docs/06-realtime-workers.md:665`); the proofs
  show that the checkpoint survives it.
* *External actions.* SENT is not terminal: the last attempt of the first job may
  write FAILED after a replay delivered
  (`docs/external-action-signal-architecture.md:460`).
* *Reconciliation.* The three lists of a sync are not of one moment.  A PARTIAL run is
  not repeated.  A crashed run stays RUNNING, which the gate takes for good.  The
  rejection of `getWorkspace` is not caught.  `docs/06-realtime-workers.md:254`
  speaks of no retry, the queue has five attempts.  While a job of the account is
  retained a later trade is reported deferred without a job
  (`docs/06-realtime-workers.md:378`).
* *Guardrails.* Several intents pass on one cached count.  Its age is measured from the
  end of two calls without a time limit (`TradingAutoExecutionProcessor.ts:377`), so
  the count is older by the time of the call, and a slow call may replace a newer
  count.  The mirror's rows are not dated by its snapshot: a partial sync renews the
  snapshot without the positions, `capturedAt` is stamped after the fetches, and
  overlapping syncs may leave older rows beside it.  `RoomWasRecent` says nothing of
  intents the mirror lets through.
* *Sessions.* Refresh tokens are called single-use (`docs/05-auth-security.md:441`);
  two overlapping refreshes make two sessions of one.  The refreshes of the timer
  and of a failed request are not deduplicated, and the loser's 401 clears both
  cookies.  *Users:* overlapping updates may remove the last administrator; an update
  of the modules alone writes back the role it read.
* *Backtests.* Overlapping executions double the artifacts
  (`docs/06-realtime-workers.md:295` calls them idempotent).  A commit that throws
  although it took place leaves FAILED over its artifacts.  A crash leaves RUNNING,
  which cannot be deleted.  A deletion that races an execution leaves orphans.
* *Market data.* A flush writes older values over a newer candle
  (`docs/07-mt5-bridge.md:380`).  A hole before the latest candle is not found again
  by the service; one opens when it is started on a weekend, when three timeouts of
  an M1 run outlast the bars of a fetch, when the question for the latest candle is
  not answered after a long outage, and when a fetch at the start fails or skips a
  chunk, which is logged only (`main.py:67`, `historical_fetcher.py:71`).
* *Market data, clocks.* `docs/07-mt5-bridge.md:396` says that a gap is filled with the
  range `(last_known_time, now)`.  The range is naive UTC (`gap_filler.py:140`), the
  rows are selected by the broker's local time (`historical_fetcher.py:65`), which is
  three hours ahead (`pusher.py:52`), so the fetch ends three hours before now.  On M1
  to M30, where that is more than the three bars of the live job, a restart after an
  outage of more than two bars leaves a hole that is never asked for again.  With
  `Lag` = 3, `FetchBars` = 2 and restarts as the only fault `NoHole` is violated within
  a few hundred states; with `Lag` at most `FetchBars` it is proved.
* *Composed plugin.* A stop fills at its price even if the bar opened past it.  A
  partial exit that closes everything leaves no result.  The time stop also fires at
  the end of the data.  Prices that alternate between two areas bypass
  the cap, though not by twice.
* *songTrap.* An entry at the close may lie above the trap price, its target.  With
  entries at the next open a position may be opened after its cycle completed.  A
  trade closed in part may end with `isOpen` false and an exit price that is not
  normalised.  The failure of a cycle does not close its position.

## 8. Not modelled, and why

* Creation and validation of bindings, deployments, accounts, runs and catalogue
  entries, passwords and signatures: edits by one operator, in one statement or
  transaction, or checks without state.
* Commands given by hand use the same `createCommand` and `executeCommand`; they
  share no row with an intent.
* Indicator series, blocks, stop and target prices, position sizes, optimisation:
  deterministic functions over floating-point series.  Definitions of the composed
  plugin without an area guard, and overrides of a profile that its rules
  contradict, are left out of the runs.
* Remote ingestion and the repair scripts push history on an operator's demand.  The
  broker's clock is a constant ahead of UTC; that it changes with the season
  (`config.yaml:5`) is left out.
* Webhooks: one attempt per call, and nobody reads the row back.
* Alerts and monitoring: a duplicate notification is all that can follow.
* Read side, routes, the rest of the web client, scripts: they change no life cycle.
  They are most of the repository's lines, which is why the models cover few of them.
