# Formal models of kxypto_bot

TLA+ modules for the parts of kxypto_bot whose correctness depends on the order
of events: the pump.fun trading bot, the fleet of bots a process runs, the sale
that follows a doubtful purchase, the backtests that a worker executes, strategy
by strategy and mint by mint, and that a server may cancel, and the live view of
them that the WebSocket API gives its clients, down to the bytes of the messages.
TLC checks them on small instances, and TLAPS
proves the safety properties of the bot's run, the fleet, the sale, the backtest, the
simulated trades and their statistics, the cancellation, the live feed and the walk
through a table for every value of the constants.

Paths below are relative to the repository root; its code is in `src/`.

## How to run it

```
tlc -workers 2 -config BotFleet.cfg BotFleet           # one run of PROJECT.json
tlapm BotFleet_proofs.tla                              # the proofs
```

`PROJECT.json` lists every run with its properties, every mutant (a plausible bug
in one definition, which some property must detect), the lines of code each
definition models, the findings, the hazards and the theorems. A definition
called `D_Something` is the mutant of `D`; nothing else uses it. Some `.cfg` files
belong to no listed run: section 6 says what each of them reproduces.

## 1. Inventory

### 1.1 Trading on pump.fun (one process, `src/scripts/pumpfun/bot.ts`)

| Component | Code | State | Operations | Interacts with |
|---|---|---|---|---|
| Bot run | `trading/bots/blockchains/solana/PumpfunBot.ts` | `isRunning`, the locals of `run()` (results of the strategy, `buyInProgress`, `sellInProgress`, `result`, `fatalError`, retries), the strategy's position | the monitoring loop, `buy`/`sell` and their promise callbacks, stop event | strategy (await), trading client (fire and forget), event bus (emit and listen), positions repository (not awaited) |
| Strategies | `trading/strategies/launchpads/*` | position, limit orders, prediction confirmations | `shouldBuy`, `shouldSell`, `shouldExit`, `afterBuy`, `afterSell`, `resetState` | called by the bot and by the backtests |
| Event bus | `PumpfunBotEventBus.ts` | listeners | `tradeExecuted`, `botTradeResponse`, `stopBot` - emitted synchronously | bots, trade manager |
| Trade manager | `PumpfunBotTradeManager.ts` | open positions, full trades, whether it asked to stop listening | handlers of the two trade events; balance check | stops all bots, resumes listening |
| Queued listener | `dex/pumpfun/PumpfunQueuedListener.ts` | listening, forced stop, tasks in progress | start, stop, new token, end of a task, `isDone` | websocket listener; the main loop polls it |
| Websocket listener | `dex/pumpfun/PumpfunListener.ts` | socket, reconnection flags and timer | listen, stop, open / message / close / error | PumpPortal; awaits the mint's account before it delivers a token |
| Bot process | `scripts/pumpfun/bot.ts` | the objects above | `handlePumpToken`, `stopBot`, resume, main loop, end | database |
| Trading client | `dex/pumpfun/Pumpfun.ts` | none | `buy`, `sell`, coin data | Solana RPC, Jito; the transaction may land although the call reports an error |
| Fallback sale | `dex/pumpfun/utils/sellPumpfunTokens.ts` | retries | passes over the wallet's tokens | `SolanaAdapter.getAccountTokens`, trading client |
| apm | `apm/apm.ts` | buffered transactions | `measureExecutionTime`, flush timer | database; a success is stored before the caller gets it |
| Positions repository | `db/repositories/positions.ts` | the `positions` table | insert, close | database |

### 1.2 Backtests (an API process and worker processes)

| Component | Code | State | Operations | Interacts with |
|---|---|---|---|---|
| Engine | `trading/backtesting/runBacktest.ts`, `runStrategy.ts` | paused / aborted flags, index of the strategy, the champion of each ranking metric and its row | the loop over strategies and mints, commands, checkpoints, final status | pub/sub (commands in, progress out), database |
| Backtester | `bots/blockchains/solana/PumpfunBacktester.ts` | index in the history, balance, holdings, trades and events of one mint | `run`: look at an entry, buy, exit, sell, step on by the latency | called by `runStrategy`; awaits the strategy |
| Limit orders | `trading/orders/*`, `strategies/launchpads/LimitsBasedStrategy.ts` | trailing extreme, trigger prices | placed after a purchase, shown each price | engine and live strategies |
| Predictions | `strategies/launchpads/prediction-common.ts`, `*PredictionStrategy.ts`, `strategies/predictors/*` | confirmations of purchases and sales, cached answers | single and ensemble requests, confirmations, sale policies | prediction services over HTTP, cache |
| Worker, queue | `workers/`, `queues/` | jobs | enqueue, process, retry | Redis |
| Repository | `db/repositories/backtests.ts` | backtests, runs, strategy results | create, status, abort, delete | database transactions |
| Pub/sub | `pubsub/*` | handlers of each channel and pattern | publish, subscribe, unsubscribe | Redis or memory |
| WebSocket API | `ws-api/*` | subscriptions of each connection | route a message, snapshot then updates, fetch more, fetch, RPC, close | pub/sub, repository |
| Wire format | `protos/*` | none | rows to messages to bytes and back | WebSocket API and its client |
| Inter-process requests | `ws-api/ipc/*`, `ws-api/handlers/rpc/*` | pending requests | request, answer, timeout | pub/sub |
| HTTP API | `http-api/*`, `services/auth.ts` | none of its own | request handlers | repository |

### 1.3 Left aside

Scripts over files (`scripts/data`, `analyze-mint-results`, `migrate-stats`),
database migrations and seeds, examples.

### 1.4 What is hard

* **Interleaving inside a run.** `run()` starts `pumpfun.buy` and
  `pumpfun.sell` without awaiting them. The loop turns while they are pending and
  their callbacks change its variables at each of its awaits. What keeps the two
  apart is a snapshot taken at the head of a turn.
* **Interleaving of runs.** A stop event is emitted synchronously but a run
  looks at `isRunning` only at the head of a turn, and a bot constructed after the
  event never sees it.
* **Partial failure.** A call that reports an error may have sent a transaction
  that lands later; every awaited call may reject and end the run with what it
  holds; some rejections are handled by nobody and end the process.
* **Ordering.** A sale puts two events on the bus, and the first may resume
  listening that the second stops. A token announced while listening arrives
  after the listener stopped. A task's end restarts a listener, unless it was
  stopped by force.
* **Rows shared by champions.** With `best_only` one row may hold the champion of
  several metrics; it is recycled, branched or deleted as metrics are won one by
  one, in up to four writes, with a crash, a rejection or a command between any two.
* **Two writers of a status.** A worker and the server that gave up waiting for it
  both write a run's status.
* **Time inside a simulation.** A simulated transaction takes time, so a purchase
  or a sale moves the index on inside a turn: a trade may be made at an entry that
  has not been reached, twice, or beyond the end.
* **A strategy that is used again.** One instance tries all mints of a backtest; an
  error that is swallowed leaves its position, orders and confirmations behind.
* **Partial answers.** An ensemble asks several services at once; some fail, time
  out or answer with nonsense.
* **A map beside Redis.** `RedisPubSub` keeps a map of handlers that has to agree
  with what Redis delivers, and changes it after an await.
* **Pages over a changing table.** Rows of the same second are inserted and deleted
  under a client that walks through them.
* **Five representations of a row.** Columns, object, message, bytes, JSON: a null, a
  default or a date may change on each of the ways.
* **Liveness.** A held token must be sold or given up; a stopped run, a full
  fleet, a fallback sale and a backtest that is not paused must come to an end.

What makes each component correct is stated by the properties of section 4; the
`hazards` of `PROJECT.json` list each danger at its line, also those that no
property covers yet.

## 2. Plan

| # | Module | About | State |
|---|---|---|---|
| 1 | `TokenTrade` | abstract: what a run promises | done |
| 2 | `PumpfunBot` | detailed run, implements `TokenTrade` | done |
| 3 | `PumpfunQueuedListener`, `PumpfunBotTradeManager` | the two passive objects, as functions on their state | done |
| 4 | `BotFleet` | composes 3 with the bots and the main loop | done |
| 5 | `FallbackSale` | `sellPumpfunTokensWithRetries` | done |
| 6 | `BotFleet_proofs` | safety of the fleet for all constants | done |
| 7 | `BacktestRun` | `runBacktest` and its job: rows, champions, checkpoints, commands, failures | done |
| 8 | `BacktestCancel` | the cancellation of a run over pub/sub, extends 7 | done |
| 9 | `RedisPubSub` | the two pub/sub backends, one pattern | done |
| 10 | `WsFeed` | extends 9: connections, subscriptions, snapshots and updates of the server | done |
| 11 | `ProtoWire`, `WsPayloads` | the coding of messages; what the API and its client make of a payload | done |
| 12 | `BacktestRows`, `WsPages` | rows and cursors; a client's walk through the pages, with deletions | done |
| 13 | `LiveRuns` | composes 11 and 12 with the worker: a run watched from its creation to its end | done |
| 14 | `LimitOrders`, `Predictions` | orders and prediction strategies as operators | done |
| 15 | `TradeSession` | abstract: what the simulation of a mint does to the balance | done |
| 16 | `BacktestMints` | `runStrategy` and `PumpfunBacktester.run` over 14, implements 15 | done |
| 17 | `PumpfunBot_proofs`, `FallbackSale_proofs` | safety of a run and of the sale; `PumpfunBot` implements `TokenTrade` | done |
| 18 | `BacktestRun_proofs`, `BacktestCancel_proofs` | rows, champions, checkpoints; settled and answered runs | done |
| 19 | `WsFeed_proofs` | handlers and subscriptions, updates that arrive | done |
| 20 | `BacktestMints_proofs` | that each step of `BacktestMints` is one of `TradeSession`; `TradesWaitForTheLast`, `HeldWithinLimits`, `BoughtOnEvidence`, `ResultDescribesCurve` | done |
| 21 | `Pages`, `PageWalk`, `PageWalk_proofs` | the order and the cursors of 12 apart from the coding of messages; an abstract walk over a table that changes, which `WsPages` implements; that it repeats nothing and misses nothing | done |
| 22 | websocket life cycle | `PumpfunListener`: one live socket, reconnection against stop | planned |

## 3. Modules and code

### `TokenTrade` (abstract)

Three variables: the trade events on the bus, whether the full trade was
reported, how the run ended. A token is bought at most once and sold at most
once, the report comes with the sale, a run returns only while it holds nothing.
Events may still come after a run has thrown: the callbacks of its calls live on.
One promise is weaker than one would expect: a run may return "migrated" although
it has traded, because a null price after the sale returns before the result is
looked at. The provider never returns a null price today; its type and the tests
of the bot do, so the model has it.

### `PumpfunBot`

One run. JavaScript runs to completion, so an action is all the code from one
`await` to the next. `pc` names the await the loop is suspended at; the head of a
turn (`pc = "loop"`) needs no await and callbacks cannot run there (`Suspended`).
`buyCall` and `sellCall` are the positions in the two promise chains, `then`/`catch`
being one action and `finally` a later one. The chain is part of the environment:
`buyTx`, `flyingSells` and `soldBy` say what really happened to a transaction,
which the call's answer need not tell.

Abstracted: prices (a strategy answers arbitrarily, within what
`shouldExitLaunchpadToken` can answer), histories, fees, reports. A market context
is one of four kinds. `"drained"` is a migrated token as the provider shows it: the
reserves are 0, so the price is 0/0, which is not a number and not null.

Time is abstract: a loop interval is a turn and the auto-sell timeout a flag that
the environment raises.

### `PumpfunQueuedListener`, `PumpfunBotTradeManager`

Their methods run without an await and are called several at a time in one
synchronous step, so they are functions from state to state (`Start(l, force)`,
`OnTaskDone(l)`, `OnTradeExecuted(m, type)`), which `BotFleet` composes.
`sockets` counts subscriptions opened and not closed.

### `BotFleet`

The process. A bot is reduced to a phase: where a stop event finds it (before it is
constructed, at the head of a turn, past the stop check, with a call in flight),
whether its task counts and whether its token is held. The moves between phases
are what `PumpfunBot` does between them. An event is emitted synchronously, so one
action changes the trading bot, the manager, all other bots and the listener. A
sale emits two events and both are in the action `SellSucceeds`, in order.

A run that throws leaves its calls behind (`lateBuy`, `lateSale`): they may still
emit events when the task has long ended. `main` follows `start()`: it polls
`isDone`, then asks for the balance, then closes the database. The process lives
on, since a timer of the apm keeps it, but from then on no call succeeds, because
its execution time cannot be stored. Storing a bot's report before the task
ends is part of the phase that ends.

### `FallbackSale`

`sellPumpfunTokensWithRetries` with its passes over the wallet while purchases and
sales are landing. `Mints` are split by what the code can tell: whether they are
of pump.fun, whether their accounts belong to the old token program (the only one
`getAccountTokens` asks for), whether they are wanted. `error` is never cleared, as in
the code, so what is said of a pass is said of each pass as it ends: one that does not
fail, the first or a retry, has left nothing of what the wallet held when it was listed
(`CleanPassSellsListed`), although sales of the failed passes before it may land at any time.

### `BacktestRun`

One backtest. Its runs follow one another, and each resumes from the checkpoint
of the last one, which an operator copies into the next configuration if the
schema accepts it. (The scheduling itself accepts any configuration of the schema: that a
run resumes from the latest checkpoint is what the model assumes of its operator.) The worker's job
begins by reading its run (`Fetch`) and marks it as running, one await later and by
that copy (`found`, `Begin`), so that the server can abort it in between. `pc` is the awaited call the job is at, so that a command, a
rejection (`Throw`) or a crash falls between any two calls. A crash may have BullMQ
deliver the job again.

The variables `champions`, `championsRows`, `sr`, `base`, `current` and `index` are
the locals `champions`, `championsRows`, the result, `baseObject`,
`currentStrategyResultId` and `tested` of `runBacktest`. `rows` and `runs` are the
two tables; a strategy has one row per backtest, and a mint result is unique in its row.
`CreateRow` to `Update` are one turn of the loop: the row of a strategy without a
place, the test, the metrics it wins, the row it recycles or branches, the rows
it makes superfluous. `settings` chooses between `best_only` and `all`.

Abstracted: the trading over the mints is one result, complete
(`FinishStrategy`) or cut short by an abort (`AbortStrategy`). A metric's value
is a number up to `MaxScore`, 0 standing for all that is not positive; above
`ScoreLimit`, which stands for the schema's 100, a checkpoint is refused. The
strategies and the data are the same in every run, there is a mint to replay, and
no second process works on the same run. `tested` remembers which strategies were
tested through; the code does not keep it.

### `BacktestCancel`

`cancelBacktestRun` beside the worker. A command is lost if the job it is for does
not listen (`heard`), the answer comes with `Respond`, and the timer of 10 s may
fire at any time. `Timeout` then aborts the run in the database, whatever became
of its job: it may be queued, between two calls, ended or succeeded by another run.
If the job has read the run as pending and is still to mark it (`overtaken`), the mark
comes after the abort, and the run shows as running for as long as the job works.

### `RedisPubSub`, `WsFeed`

One pattern, one process. `RedisPubSub` asks Redis for a pattern with the first
handler and adds the others at once; what follows an `await` runs when the reply is
read. Commands travel one way and replies and messages the other, in order, and
`Read` takes any number of what has arrived: the messages of a chunk are dispatched
while it is parsed, the callers of its replies go on afterwards, which is how a
promise works. `Reconnect` loses what was in flight; that the client library then
restores what it saw confirmed and repeats commands without an answer is external.
Any command may be refused, by Redis or by the
library that gives it up (`RedisRefuses`): nobody catches the rejection of a
psubscribe, which ends the process; that of a punsubscribe is logged, and the entry and
its handlers stay. `MemoryPubSub` is the other value of `backend`.

`WsFeed` adds the connections. A subscription of the strategy results first waits
for the rows of its snapshot (`Subscribe`, `SnapshotRead`); the other two
channels have none. A handler that rejects after its first await has nobody who
catches it and ends the process (`Crash`). `orphaned` remembers who left while a
subscribe handler was waiting: its handler is registered all the same, with nobody to
remove it; `kept` remembers whose punsubscribe was refused. `due` has the updates that
an open client with a handler is to get: those published while Redis delivers the
pattern and no removal of it is on its way back. An update leaves it only by being sent
or with the connection. With two updates one may be read with, before or after another and the
replies between them.

### `ProtoWire`, `WsPayloads`

The generated code is one encoder and one decoder, written out for every class;
`ProtoWire` has them once, with a table of the fields of each class: kinds,
numbers, optional fields, defaults that are not written, wrappers, the dynamic
`ProtoStruct` values and `ProtoAny`. `Encode` is `Thrown` where the generated code
throws, on a missing message or a value of another kind. `WsPayloads` adds the mappers,
the two forms of a frame, the JSON an update travels through and the reviver of
dates. `Meant` says, independently of the coder, what a client should read.

### `Pages`, `PageWalk` (abstract), `BacktestRows`, `WsPages`

`Pages` has the query alone: the order of the rows (`OrderBy`, by time, then by id), the
cursor (`CursorAt`, the last row's date and id), the filter that goes on behind it
(`AfterCursor`) and the page with its cursor (`PageOf`, one row more than the limit is
asked for). `BacktestRows` has what the repository stores and returns, in the form in
which it is sent, over `Pages`.

`PageWalk` is a walk whatever carries the pages: a request, a page of ids with a
cursor, the ids that were seen; anybody inserts rows with growing ids, at any time of
creation, and deletes any of them, at any moment. `WsPages` is a walk over one table, while rows are inserted (also with a time before that of earlier ones) and
deleted by an RPC of the same client. A handler is two steps, its query and its answer.
Frames carry what was sent, what was read and, for the check, what was asked; the
instance `Walk` maps them to the request and the page of `PageWalk`. The strategy
results are walked by the repository's test client, with `subscribe` and `fetchMore`
(`FetchMore`). The mint results can only be walked by repeating a `fetch` with the cursor
of its answer (`FetchAgain`), which no client of the repository does: the server's half
of this walk is the repository's, the client's is external.

### `LiveRuns`

A run from its creation over its notifications to its end: what the worker stores
(`run`, `results`) and what it has in hand (`held`, `heldRows`), which are not the
same objects, the JSON on the channel, the frame, and what the client makes of it
(`shown`, the last word on each row). The abort, a failure and both storage modes
are there; what `BacktestRun` has in several steps is here one step
per strategy. An abort in `best_only` without stored mints ends with the rows of the
champions being written again (`StoreChampion`), an aborted one as completed, and nothing
is published: `LiveResultsMatchStored` excepts just this status (`RewrittenSince`). The
server's own abort in the database is in `BacktestCancel` and not here; it
tells nobody but the client that asked.

### `LimitOrders`, `Predictions`

Pure operators: the four orders and the way `LimitsBasedStrategy` places and asks
them; the rules, the requests to one source or an ensemble with the ways to aggregate its answers,
the confirmations, the downside predictor and the two sale policies of the
prediction strategies. They take the replies of the services as arguments. A
confidence that is null counts as 0. A request is made to an endpoint or rejects
(`HasEndpoint`): a local ensemble has one at its members, and only one of several members is
asked member by member; a remote one has a single endpoint of its own, and with several members
is taken for a local one. The recency weights are a table of exp(-age/2) in whole percents. A level
is a price times a whole percentage, so that it is exact.

### `BacktestMints`, `TradeSession`

`runStrategy` over a sequence of recorded mints with one instance of the strategy, and
inside it the loop of `PumpfunBacktester.run`. An entry is up to three steps,
separated where the code awaits `shouldBuy` and `shouldSell`: a request of the
strategy that has lost a `Promise.all` may come back in between and count its
confirmation then. `run` has the locals of a mint, `strat` the fields of the
strategy, `ls` the statistics. `TradeSession` is what the account looks like from
outside: sessions of purchases and sales in turn, each booked as a whole or discarded;
`Session` instantiates it with the balance of the run that is on, or of the
strategy when none is. A history without an entry is simulated without a turn and throws
at its end, where the price of its last entry is read (`NoEntryThrows`).

Left out: the lists of events and the metadata of transactions; a cached
answer is a reply with status 200; the price 0; the priority fee, which is one number
here. A quarter of the latency is an integer division.

`RecordsAssumption` says what a recorded history is: its timestamps never go back, and a
price is missing or positive and at most the amount of a purchase, so that a purchase
buys something. `SettingsAssumption` says that limits and slippages are natural
numbers and the slippage of a sale at most 100 percent. The schema asks only that it is
positive; above 100 a simulated sale would cost money. `SourcesAssumption` says what the
schemas say of predictions: an ensemble has a member, weights are not negative,
thresholds are positive.

The replies of all members are functions on the members (`BuyReplies`,
`DownsideReplies`), sums are recursive functions and the median is the value with as
many values on either side (`Sorted`), so that what they yield can be proved. `Curve`
and the counts of `ResultDescribesCurve` are computed from `results`, the list of what
each mint came to, and not from the statistics they are compared with.

## 4. Runs

| Run | Shows | Bounds |
|---|---|---|
| `bot` | the two fire-and-forget calls of a run never overlap nor repeat; the strategy's position agrees with the events; it gives up after exactly `maxSellRetries` retries; the run implements `TokenTrade`, so that a run that returns holds nothing and a trade's result is not replaced; with an auto-sell timeout a held token is sold or the run ends; a stopped run ends | 2 retries, 2 intervals after the result: a first, a middle and a last one of each |
| `fleet` | the limit of parallel tokens, one subscription, never silently deaf, pause exactly at the limit of positions, stop at the limit of trades, what lifts a stop, database given up when idle; after `maxFullTrades` the process closes its database or crashes | 3 bots with every limit at 2, so that limits are reached while another bot is at every other phase |
| `fallback` | all retries are made after an error; a pass, the first or a retry, that ends without a new fault leaves nothing it listed, although purchases and sales of earlier passes land meanwhile; the sale ends | 3 mints of two token programs, 2 retries, so that a retry follows a retry |
| `backtest` | each champion's row is there and holds it; no tested strategy beats a champion; no orphan row; one row per strategy with `all`; after a crash no row is worse than its checkpoint | 2 metrics; 3 strategies (two that lead on one metric each, a third that beats one, both or none); results that are nothing, better on either metric, best on both (4, above the `ScoreLimit` of 3, so that a checkpoint is refused); partial results that are nothing or good; 2 runs; 1 crash or rejected call at any step |
| `cancel` | a run that was aborted in the database never shows as pending, and as running only if its job had read it before the abort and was still to mark it; an answer means that the run is over; a job that is not paused ends | 2 strategies, 2 runs, so that a timeout may concern the run before the last; scores and `ScoreLimit` of 1, since here only the statuses matter; 1 fault |
| `feed` | the map of handlers is backed by a Redis subscription; a client that has left keeps no handler, unless it left under a waiting subscribe handler or its own punsubscribe was refused; what Redis delivers for an open client with a handler is sent to it, nothing newer first | 2 clients, which are alike, 3 subscribe messages (so that one client subscribes twice, and one between the other's unsubscribe and its answer), 2 updates, 1 lost connection, 1 refused command, all channels, both backends |
| `pages` | the walk is one of `PageWalk`: it gets every row that stays, none twice; every frame is read as it was meant | 3 rows in 2 different seconds, so that two share one, 2 backtests that are alike, pages of 1 and 2 rows, 1 deletion |
| `live` | a client that followed a run holds what is stored, but for the status of an aborted champion that was written again; an ended run stays ended | 2 strategies that score 0 or 1 on all figures, both modes, 2 messages and 2 frames on their way |
| `mints` | limits, latency, evidence of purchases, statistics and account of a simulated strategy | 2 mints, for each strategy several histories of 4 to 6 entries with a missing price among them, a latency below and above two entries, a balance for two purchases but not for three, replies that are good, impossible, errors or missing; configurations that use every strategy, limit and aggregation, among them one with an ensemble on either side of a purchase, one of three members, a local ensemble of one member and a remote one of two, which have no endpoint; an empty history |

The other three runs each show one disagreement (section 6). The type invariants
`TypeOK` of `PumpfunBot`, `FallbackSale` and `BacktestRun`, `CTypeOK` and
`FeedTypeOK` hold in the instances of their runs too and can be added to
their `.cfg`.

**Implementation of the abstract modules.** `KeepsTradePromises` is `TokenTrade!Spec`
over the variables of `PumpfunBot`; `OneSessionPerMint` is `TradeSession!SessionSpec`
with a mapping of the money of `BacktestMints` (`INSTANCE ... WITH`); `WalksThePages` is
`PageWalk!Spec` with the request and the page taken out of the messages of `WsPages`,
and `EachRowOnce` is `PageWalk`'s property under that mapping.

Runs turn deadlock checking off where the program really stops: a run that has
ended, a process that is done or dead, a rejected sale, a backtest whose last run
has ended, a client that has walked to the end.

**Fairness.** Awaited calls settle, timers fire and promise callbacks run: weak
fairness of the loop, strong fairness of a callback, which is disabled whenever the
loop's synchronous code runs and which the event loop serves in between. A
provider that is asked for ever does not answer null for ever. Nothing
is assumed of the chain (a transaction may never land), of the strategy (it may
never ask for a sale), of a stop event or of new tokens. In `BotFleet` that a
monitored token is bought or given up, and a held one sold or abandoned, is strong
fairness of those two steps: it stands for what a run does over many turns, the
second being `AutoSellEndsHolding` of `bot`. In `BacktestCancel` the job's next call
returns or rejects and a strategy that is not paused is tested through; nothing is
assumed of commands and timers. The runs `feed`, `pages`, `live` and `mints` assume
none and check safety: what arrives, not that it does. A database that hangs for ever
is outside these assumptions.

## 5. What is proved

Each `M_proofs` proves theorems `Spec => []Property` of `M`, for every value of the
constants. They rest on the named assumptions of the modules alone (limits and
bounds are natural numbers, sets of bots and metrics are finite, the scores of
the outcomes are numbers, histories, settings and sources are as section 3 says), which TLC
evaluates in the runs; those of `PageWalk_proofs` state theirs as a hypothesis.

| Module | Theorem | Property |
|---|---|---|
| `BotFleet_proofs` | `TypesHold` | `TypeOK` |
| | `BoundedConcurrency` | `ConcurrencyBounded` |
| | `OneSubscription` | `OneSocket` |
| | `NoSilentDeafness` | `NeverDeaf` |
| | `PauseMatchesPositions` | `PausedWhileFull` |
| | `FullTradesStop` | `FullTradesStopListening` |
| | `StopLiftedBySale` | `StopLiftedOnlyBySale` |
| | `DatabaseGivenUpIdle` | `DoneWhenIdle` |
| `PumpfunBot_proofs` | `TypesHold` | `TypeOK` |
| | `PositionsMatchEvents` | `PositionMatchesEvents` |
| | `RetriesExhausted` | `GivesUpAfterRetries` |
| | `CallsNeverOverlap` | `NoOverlap` |
| | `RunImplementsTokenTrade` | `KeepsTradePromises` |
| `FallbackSale_proofs` | `RetriesMade` | `AllRetriesMade` |
| | `CleanPassSells` | `CleanPassSellsListed` |
| `BacktestRun_proofs` | `TypesHold` | `TypeOK` |
| | `RowsOfChampions` | `RowsHoldChampions` |
| | `RowsSurviveFaults` | `RowsNeverWorse` |
| | `ChampionsBeatAll` | `ChampionsAreBest` |
| | `OnlyChampionsKept` | `NoOrphanRows` |
| | `RowPerStrategy` | `OneRowPerStrategy` |
| `BacktestCancel_proofs` | `CancelledStaySettled` | `CancelledRunsSettled` |
| | `AnswersComeLast` | `AnswerMeansOver` |
| `WsFeed_proofs` | `EntriesBacked` | `EntryIsBacked` |
| | `LeaversUnregistered` | `ClosedClientsUnregistered` |
| | `UpdatesReachClients` | `UpdatesArrive` |
| `BacktestMints_proofs` | `MintsInvariant` | (the inductive invariant) |
| | `SessionsAreKept` | `OneSessionPerMint` |
| | `TradesWait` | `TradesWaitForTheLast` |
| | `LimitsHold` | `HeldWithinLimits` |
| | `AggregatesDecide` | (what an aggregate of answers says of them) |
| | `PurchasesHaveEvidence` | `BoughtOnEvidence` |
| | `ResultsDescribe` | `ResultDescribesCurve` |
| `PageWalk_proofs` | `PageSplitsTable` | (what a page does to a table) |
| | `WalkInvariant` | (the inductive invariant) |
| | `BringsEachRowOnce` | `EachRowOnce` of `PageWalk` |

None of the properties is inductive alone. Each proof has an invariant `IInv` (TLC
has checked each on the instance of its run, that of `PageWalk` with the bounds of `pages`), a lemma per action, and the property
from the invariant, or for an action property from the invariant and the step.

**`BotFleet`.** A task's end keeps `inProgress` a natural number
only because the counter equals the number of tasks; a resumption opens a single
socket only because the manager's pause implies a listener that is off; that
implication survives a late token only because an off listener ignores it.
`IInv` joins the types, the listener's own invariant (`ListenerOK`), the
exactness of both counters (`CountersExact`) and what the limits enforce
(`LimitsEnforced`). `CountMove` says that a count changes by the one bot that
changes its phase.

**`PumpfunBot`.** What keeps the calls of a run apart is the snapshot of a turn:
callbacks may clear the flags while the turn is suspended, but nobody sets them, so
a snapshot without a call is still true when the turn acts on it (`SnapshotTrue`).
`CallsFlagged` and `ResultMatchesEvents` relate the two promise chains to the
events, `EndedWell` says what a run that has ended leaves. The refinement maps
every step to a step of `TokenTrade` or a stutter.

**`FallbackSale`.** The passes made are the retries made and one. What a pass listed
and the wallet still holds is what the pass has not come to yet (`PassKeepsCount`): nothing
returns to the wallet after it was listed, since a purchase lands once
(`PurchasesLandOnce`), and whatever else lands only takes away.

**`BacktestRun`.** Three things are kept in step: the champions in memory, the rows
of the database and the checkpoint that the next run would resume from (`Saved`).
`Board` says of the memory alone that two metrics share a row only if they share
the champion; `Straight` that memory, rows and `Saved` agree in what they
know, after any faults; `Faultless` that without faults the rows are those of
the champions and the row of this turn, which is new or needed by no other
metric. `FirstRunOfAll` does the same for the mode that keeps everything.
The attempt to prove `RowsNeverWorse` showed that it was false beyond the
instance of its run: a stalled job that is taken again resumes from its
configuration's checkpoint and not from the one it has saved, and then pairs old
scores with rows that it has recycled since. The property and `ChampionsAreBest`
now except such jobs (`rewound`).

**`BacktestCancel`.** Its steps are steps of `BacktestRun`, or of nobody, except the
timer's (`WorkerOrTimer`). `IInv` of `BacktestRun` says nothing that turning
"running" into "aborted" could break, so it is kept; what is added is where
the worker still may write a status (`Server`, `LeftIsOver`), and that a job which is about to mark
a run that was aborted had read it before (`ReadBefore`).

**`WsFeed`.** The invariant looks at the two queues of the connection. An entry that
Redis does not serve has a psubscribe on its way or refused, or its removal is unread
(`Backed`); what the client library restores when the connection is lost is at
least what the map then needs (`Restored`). A client that has left, and is none of the two
exceptions, has a removal of its own ahead: of its handlers, and of those that its pending
psubscribes will still register (`Leaving`). A removal of somebody else will not do, for it
may be refused. Of the updates, those on the wire come in their order and are newer
than what was sent (`Flight`), and each that is due is on the wire before
every accepted removal (`Due`): the replies that are read with it or before it
leave the handler where it is. The lemmas about `Resumed` and `RepeatedCommands`, which are recursive
functions over a sequence, are inductions made by hand from the least element of a set
of numbers (`Upwards`).

**`BacktestMints`.** Two accounts are kept, the run's and the strategy's, and the
position is a third place that knows of the tokens. That they agree is false: an error in
the middle of a mint leaves the position to the next one. `IInv` needs only one
direction, tokens come with a position (`Holding`), and that nobody who has one is
asked to buy; then every step is one of `TradeSession` (`SessionStep`). `Waiting` says of
the loop what `TradesWaitForTheLast` says of trades: its index is past the completion of
the last one. `OrdersFollow` tells from the recorded prices alone what each order has
stored: the fixed ones their level at the price paid, the trailing stop the highest
price shown, the trailing profit the price paid until some price reached its
level, and the highest price from then on. That a price that reaches the level is
also the highest so far (`ProfitIsAbove`) is what makes the trailing profit right although it
ignores the prices before. While a sale is being asked about, the orders are
behind by the entry in hand (`ShownUntil`). `LimitsHeld` then turns each order that did not trigger into the
limit it stands for.

That a purchase has its evidence is a fact about sums. `SumOf` is a recursive function;
that it is defined is shown by hand, from a table of partial sums (`SumTableExists`), and
gives the two lemmas the rest needs: a longer sum is the shorter one and its last
term (`SumGrows`), and terms that are nowhere above (below) a multiple of the weights have
a sum that is not above (below) that multiple of their sum (`SumScaled`).
Weighted means follow, the median from its ranks, and
`AggregatesDecide` says for each mode that an aggregate which reaches a
threshold has a value that reaches it, and one which misses it and is not 0 a value
that misses it. The exception is real: all weights may be 0, the code then answers 0,
and 0 is below a downside threshold. It does no harm, since `Protected` takes 0 for no
answer, as the code does, which takes over a confidence only if it is truthy
(`prediction-common.ts:663`). `EnsembleAnswers` then needs that one failed member fails the whole, and `PurchaseEvidence` follows the decision of each strategy.

That the statistics describe the curve needs more than they say (`Describes`): the code
keeps the current peak and the trough since then, and compares the
drawdown with the fall between these two only. What makes this right is that the trough
starts anew at each peak, and that a fall from a lower peak to the same trough is
smaller: `FallsFurther` is this monotony for the integer division the percentage is
rounded by. `CurveContinues` adds one mint. The counts (`Counts`) are sums over mints, moved by the
cardinality of one member (`OneMore`); that a mint left with tokens
has one purchase more than sales is an invariant of the mint that is on
(`Traceable`), not of the results.

**`PageWalk`.** The order of a query is a strict order of the rows (`BeforeOrders`); the
number of rows before a row is then its place, different for different rows
(`RankIsBijective`), so `OrderBy`, which chooses the row of each place, sorts
(`QuerySorts`). A row is behind a cursor exactly if it comes after the row the cursor
was made from (`AfterIsBefore`), so that a page splits what was ahead into what it
brings and what is ahead of the next cursor (`PageSplitsTable`). `IInv` says that what was seen is behind the
cursor (`Behind`), that a page on its way brings new rows and leaves them behind
its own (`Fresh`), and that each row of the start is seen, gone or ahead
(`Pending`). Rows inserted in between have new ids and may fall on
either side. The theorems have `WalkParameters` as a hypothesis, that
limits are positive and times are numbers; `PagesAssumption` of `WsPages` implies it. That
`WsPages` implements `PageWalk` is checked by TLC.

**Only model-checked.**

* All liveness: TLAPS does not reason about fairness.
  These are `AutoSellEndsHolding`, `StoppedRunEnds`, `FullTradesEndFleet`,
  `SaleEnds` and `RunEnds`.
* `ProtoWire`, `WsPayloads` and what extends them, `BacktestRows`, `WsPages`
  and `LiveRuns`: recursive operators over nested values. These are
  `FramesSayWhatWasSent`, `WalksThePages`, `LiveRunMatchesStored`, `LiveResultsMatchStored`
  and `EndIsFinal`.
* That no subscribe message registers its handler twice (in `FeedTypeOK`), which
  counts the commands and replies of a queue.

## 6. Findings

Each is a run that TLC must find violated.

| Run | Code | Says otherwise |
|---|---|---|
| `mints_unclosed` | a position is closed at the end only by a turn at the last index, and at its price (`PumpfunBacktester.ts:326`): after a recorded purchase the loop steps by two and may pass the last index, and a missing price skips the sale | `bots/blockchains/solana/types.ts:237`, "This ensures that all trades are closed by the end of the backtest" |
| `backtest_overwrite` | with `best_only` and `storeMintResults` the recycled row keeps the mint results of its former champion, and inserting the new ones violates a unique key: the run fails | `runBacktest.ts:494`, "It is safe to overwrite this row" |
| `cancel_revived` | a queued run hears no command and is aborted in the database; its job stays queued, is executed and marks it completed (or the job has just read the run as pending, and marks it as running over the abort) | `handlers/rpc/backtestRuns.ts:34`, "process is not running anymore" |

Twelve more disagreements are reproduced by a `.cfg` that is not among the listed runs,
each with one property that TLC finds violated
(`tlc -config BotFleet_done.cfg BotFleet`):

| Configuration, module, property | Code | Says otherwise |
|---|---|---|
| `PumpfunBot_migrated`, `PumpfunBot`, `MigratedTokenEndsRun` | the price of a migrated token is NaN, and `price === null` is false (`PumpfunBot.ts:220`): the run goes on and may ask the strategy to buy | the log of that branch, "Will stop monitoring further" |
| `BotFleet_maxopen`, `BotFleet`, `MaxOpenPositionsHeld` | the stop event is not seen by turns past the check and by bots constructed later | `bots/types.ts:76`, "Maximum number of open positions the bot can hold simultaneously" |
| `BotFleet_done`, `BotFleet`, `DoneForGood` | a run that rejects ends its task with its sale in flight; the sale's event resumes listening after the process said it was done | `bot.ts:253`, "We are done" |
| `FallbackSale_reattempt`, `FallbackSale`, `RejectsOnlyOnError` | the throw after the retry loop is reached after a success too, so the second call is never made | `PumpfunBot.ts:163`, "with a re-attempt in 250ms to ensure completion" |
| `BacktestRun_crash`, `MCBacktestRun`, `CheckpointResumes` | the rows of beaten champions are deleted before the checkpoint that no longer names them is written (`runBacktest.ts:525`); after a crash in between the checkpoint cannot be resumed | `trading/backtesting/types.ts:41`, "fed back in to resume an interrupted process" |
| `WsFeed_silenced`, `WsFeed`, `ActiveSubscriptionHears` | `punsubscribe` removes the handlers of all connections (`RedisPubSub.ts:136`): one client that leaves silences the others | `ws-api/types.ts:43`, "Represents a single active subscription for a WebSocket client" |
| `WsFeed_leftover`, `WsFeed`, `ListenersAreFreed` | a subscribe handler that waits for its rows registers its listener although the connection was closed meanwhile (`strategyResultsHandler.ts:52`), and a refused punsubscribe keeps the listeners (`RedisPubSub.ts:138`) | `RedisPubSub.ts:29`, "memory-safe listener management" |
| `BacktestCancel_overtaken`, `MCBacktestCancel`, `AbortedRunsRest` | the worker marks a run as running by the copy it read before the abort (`backtestRun.processor.ts:39`, `runBacktest.ts:172`) | `repositories/backtests.ts:468`, which stores the run as aborted with a time at which it finished |
| `LiveRuns_rewritten`, `LiveRuns`, `LiveStatusesMatchStored` | after an abort the row of an aborted champion is written again as completed (`runBacktest.ts:690`), and no update says so | the same code, which at 543-579 has stored and announced the row as aborted |
| `LiveRuns_pending`, `LiveRuns`, `AnnouncedPendingMeansNotStarted` | the worker publishes its copy of the run, with the status it had when it was fetched: checkpoints of a running run are announced as pending | `db/types.ts:60`, "The database record was created, but execution has not started yet" |
| `LiveRuns_started`, `LiveRuns`, `StartedRunsHaveTheirStart` | nobody sets `started_at` of a scheduled run | `scheduleBacktestRun.ts:36`, "this will be set once started and updated status to RUNNING" |
| `MCBacktestMints_leak`, `MCBacktestMints`, `EachMintStartsClean` | an error inside a mint is swallowed (`runStrategy.ts:316`) before `resetState`, so the next mint starts with the position and confirmations of the last | `LaunchpadBotStrategy.ts:57`, "This must be always called in order to reuse the strategy with a new asset" |

What the models also show, without a run of its own:

* `maxFullTrades` is overrun the way `maxOpenPositions` is (`types.ts:85`).
* `getAccountTokens` lists one token program only, so the fallback sale leaves the
  tokens of the other (`SolanaAdapter.ts:80`); `CleanPassSellsListed` is stated
  for those it lists.
* `createCheckpoint` stores what its schema refuses: a champion whose value is not
  positive or above 100 (`types.ts:81`). `SchemaAccepts` is the guard of `Schedule`.
* An abort in the middle of a strategy counts it as tested (`runBacktest.ts:581`), so
  a resumed run skips it; `ChampionsAreBest` is therefore about `tested` only.
* An aborted run saves its champions' mints, so a resumed run that recycles such a
  row fails at its end (`SaveMints`, after the run was marked completed).
* A resumed run of `all` starts anew, and the row of its first strategy is a
  duplicate.
* A cancellation that comes after the end of a run makes a completed run an aborted
  one (`abortBacktestRunById` looks at no status).
* A stalled job that is taken again starts from the checkpoint of its configuration, not
  from the one the run has saved since: champions are compared by scores that their
  rows no longer have (`Crash`, `rewound`).
* The queue makes one attempt, although `src/README.md:309` speaks of retries.
* A run is stored before its job is queued; without the job it stays pending until
  it is cancelled (`Schedule`).
* A failing balance request of the trade manager is handled by nobody and ends the
  process with open positions (`Crash`).
* A subscription that was opened with ascending order goes on in descending order
  when more is fetched, and `fetchMore` of a mint subscription rejects
  (`FetchMoreRejects`), which ends the process.
* The configuration of a champion's row is garbled by a conversion made twice
  (`repositories/backtests.ts:271`), and the time of a failure, revived from JSON as a date,
  reaches the client as an empty structure; `LiveResultsMatchStored` and
  `LiveRunMatchesStored` leave both out.
* A deletion is answered to its caller and published to nobody.
* With `best_only` the live mint results carry the row of the champion of the
  first metric; the run is marked running only when updates of runs are notified.
* `getClosestEntryIndex` speaks of the previous or next entry, whichever is closer, and
  returns the first later one; an exit returns without the trades that were completed
  on that mint (`PumpfunBacktester.ts:280`); the funds are checked without the base
  fee (`PumpfunBacktester.ts:157`), so a purchase may take the balance below zero by it.
* A local ensemble with one member has no endpoint, nor has a remote one with several
  (`HasEndpoint`, `strategies/types.ts:121`): their requests reject; the key of a cached prediction
  names the number of features and not the features (`prediction-common.ts:219`).

## 7. Not modelled, and why

The HTTP API and its sessions: request handlers over the database, one query or
transaction each. The socket of `PumpfunListener` with its reconnection timer: in
the plan. The deletion of a run under its working job: the code promises
nothing about it. The status RPC and the serving of recorded mints: they change no state.
The feature vectors of the predictions are reduced to whether a request can be made,
and the copy of traders is not modelled. The arithmetic of fees, slippage and bonding curves has no interleaving and
is tested directly; `BacktestMints` has what a backtest charges. For the bot's run a
strategy answers arbitrarily. Scripts over files and migrations keep no state.
