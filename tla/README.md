# TLA+ models of the EMA bot

The repository is a small trading system: a market-data process stores closed
candles in Redis, a bot polls them, computes the crossing of two moving averages
and trades it on a futures venue, recording orders and fills in PostgreSQL. This
directory holds TLA+ models of its decisive parts, the TLC runs that check them
and the TLAPS proofs of what holds for every configuration.

    tlc -config EmaExecutor_longonly.cfg EmaExecutor   # any run of PROJECT.json
    tlapm EmaExecutorProofs.tla                        # any module ...Proofs

## 1. Inventory

| Component | State | Operations | What is hard |
|---|---|---|---|
| Order executor, `ema/executor.py` | `position`, database connection | `on_candle_close`, `_ensure_long`, `_ensure_short`, `_close_position`, inserts | its position is a belief: a stop executes by itself, calls fail after their effect, a restart forgets everything |
| `place_order`, `common/exchange.py` | none between calls | request under a retry decorator, `_is_transient`, `cancel_order` | an answer lost after execution, a request that arrives late, which exception ends the retries |
| Warm-up and account calls, `common/exchange.py` | cached `exchangeInfo` | `_warmup`, `get_step_size`, `set_position_mode` | runs in the background while orders are sent; hedge mode without `positionSide` |
| Strategy, `ema/strategy.py` | two averages, previous difference | `generate_signal`, `update`, `reset` | boundaries of the comparison, rounding, stale difference |
| Database writer, `storage/writer.py` | queue, two tasks, one connection | `enqueue`, `emit_*`, consumer, backlog loop, `start`, `close` | full queue, failed writes, aborted transaction, crash |
| Disk backlog, `storage/backlog.py` | a file of JSON lines | `append`, `drain` | crash inside a pass, failed compaction, lines that never succeed |
| EMA runner, `runner/ema.py` | last candle seen, run row | poll loop, database bootstrap, shutdown | repeated, missed or stale candle, restart, a call that outlives its handler |
| Market stream, `datafeed/market_ws.py` | backoff; keys in Redis with TTL | connect, route messages | reconnection, candles lost meanwhile, a SET that fails |
| Market runner, `runner/marketdata.py`, `datafeed/funding.py` | five tasks | start, stop | a task that ends unnoticed |
| Capital lock, `common/locks.py`, repeated in `control/api.py` | a Redis key with TTL | acquire, renew, release | expiry under a holder that does not know, a command that executes after its call failed |
| Legacy storage, `storage/db.py`, `models.py`, `schemas.sql` | positions, ledger, metrics | insert, close, daily PnL | no caller in this branch; closes both sides |
| Control API, metrics server, `ws_sink.py`, `ema/config.py` | none or gauges | | no control flow of their own |

Interactions: stream → Redis key → poll loop → `on_candle_close` → strategy and
executor → `place_order` / `cancel_order` → venue; executor → PostgreSQL,
synchronously. The writer is an asynchronous alternative to those inserts that
no runner of this branch starts yet.

What makes each modelled component correct: the executor's belief agrees with
the venue, exposure stays bounded, exits never open, signals are honoured,
entries protected by a stop and executions recorded; one call of `place_order` is one
order; a signal is a crossing; an emitted event is not lost and is written in
the end; a candle is handled at most once per process, in order, while it is the
last one, and is missed for a known reason only; a finished run has stopped and a
stopped one is finished; the lock never leaves a holder that may rely on it.

## 2. Plan

1. `EmaExecutor`, `EmaExecutorProofs` — done.
2. `OrderOnce` (abstract), `PlaceOrder`, `PlaceOrderProofs` — done.
3. `EmaStrategy`, `EmaStrategyProofs` — done.
4. `Outbox` (abstract), `DbWriter`, `MCDbWriter`, `DbWriterProofs` — done.
5. `CandleKey`, `MarketStream`, `EmaRunner`, composed in `CandleFeed`, and
   `CandleFeedProofs` — done.
6. `Lease` (abstract), `CapitalLock`, `CapitalLockProofs` — done.
7. The other tasks of the market runner, in `MarketStream`; warm-up and hedge
   mode; `LegacyDb`.
8. A composition of `CandleFeed` with `EmaStrategy` and `EmaExecutor`.

## 3. Modules

### EmaExecutor

The poll loop awaits one handler at a time, so the handler is one program
counter, `pc`, that stops at every await:

| `pc` | await |
|---|---|
| `idle` | the next candle |
| `cancel` | `cancel_order` of the old stop in `_close_position` |
| `exit` | the reduce-only market order of `_close_position` |
| `size` | `get_step_size` in `_qty_from_alloc` |
| `enter` | the market order of `_ensure_long` / `_ensure_short` |
| `stop` | the `STOP_MARKET` order that follows it |

`position` is the executor's field (side and stop id; 0 is no stop). `goal` is
the side of the signal being handled; `SizeZero` clears it, since a signal that
affords not even one step asks for nothing. `rows` and `fills` are the two
tables; inserts are synchronous, and as every database error is swallowed their
outcome is a choice: nothing committed, the order only, or both.

The venue is external: `net`, `stops`, the ids it executed, and `delayed`, the
requests whose caller gave up. It nets one unit per entry in a one-way account, so
the model assumes `BINANCE_DUAL_SIDE=false`; the default is `true`
(`common/exchange.py:114`, see section 6). A reduce-only order with nothing to reduce is refused, a reduce-only stop in that
situation expires. A failing call never had its effect, had it, or will have it
later (`Lost`). Only orders are delayed; a failed cancellation takes effect at
once or never. `place_order` is one atomic call with at most one execution, which
is what `PlaceOrder` shows of it.

Quantities and prices are left out: every entry is one unit, and the price of a
reply matters only where it decides whether there is a stop. A reply has the average
price and the fills (`"result"`), neither (`"bare"`: the close of the candle stands
in for the price), or is an acknowledgement, status NEW and average price `"0.00"`
(`"ack"`). The last is what the venue sends when the request does not ask for more,
and this one does not (`newOrderRespType` is never set).

### PlaceOrder and OrderOnce

`OrderOnce` says what the executor relies on: the venue executes an order at most
once, a returned call was executed, and a call that raised may have been or may
still be. `PlaceOrder` has attempts, the requests on the wire, the answers and
the exceptions. Every attempt of a call carries the same client order id; whether
the venue refuses an id that is no longer open is the constant `UniqueAmong`.
`PlaceOrder` implements `OrderOnce` (`OneOrderPerCall`) when it does.

### EmaStrategy

Averages are exact fractions (numerator and denominator of the recursion), the
previous difference is its sign, which is all the code compares. `trail` is a
history of the candles, against which the properties recompute averages and
crossings from their definitions: `Mean` weighs all closes at once, without the
recursion over the candles that `Updated` is. `Rounded` holds the signs the program
computes for two averages that are exactly equal. Which ones they are depends on
periods and closes: a constant close of 1 or 2 keeps them equal, one of 3 with the
periods 9 and 21 puts the fast one above from the second candle on. With
`{"equal"}` the properties are about the exact averages. Rounding that changes the
sign of a difference other than zero is left out: it needs averages equal to sixteen
digits.

### DbWriter and Outbox

Events are numbers into `Feed`. `queue` is `_q`, `file` the backlog as sequences
of these numbers; `written` holds the events whose statement was committed, `row`
the event that gave each order's row its status, and `spilled`, a history, what was
ever put into the backlog. The other columns are left out. The backlog reorders: an
event that finds the queue full overtakes the ones in it, and a pass whose compaction
failed is repeated. `RowsUpToDate` is therefore about orders none of whose
events was in it.
Consumer and pass never await while they write, so their steps exclude each
other (`line = 0`), and a pass is one step per line since a crash, and only a
crash, can come between two. `conn` goes from `open` to `aborted` (refused
statement) or `broken` and nothing takes it back. One step has at most one fault,
and an append is whole or absent. An event's `flaw` says whether its statement
can be bound (`emit_order` drops columns that are None, the SQL names them all)
and whether the table takes the row. `MCDbWriter` holds the feeds. A pass writes what
it could not process back in front of what it did not get to, so the unwritable
lines gather at the front; `Crowded` says that they fill a whole batch.

`Outbox` is what a bot may rely on: events wait in the order they were emitted
and leave it at its head, one that was put in safety leaves only by being done,
and done is only what was emitted. Its `safe` set is `ToSet(file) \ written`: a
line whose event is in the database but whose compaction did not happen is done
already, and the pass that writes it again does nothing (`IsOutbox`). What only
waits may be lost, alone (an append that fails) or with the rest (a crash, a
close).

### CandleKey, MarketStream, EmaRunner and CandleFeed

Two processes that share a key. `CandleKey` has what is shared: the venue's clock
(`closed` candles, `elapsed` ticks since the last) and `candle:last:…` with the
time it has left. Candles are numbers, so *older* and *newer* are `<` and `>`;
the code only compares them for equality. `MarketStream` is `start()`
(`off`, `connecting`, `open`, `waiting`), the message under way (`wire`) and the
one `_route_message` is storing (`routing`). `EmaRunner` is `main()` (`bot`):

| `bot` | where |
|---|---|
| `down` | no process |
| `starting` | after the transaction that records the run, before the `try` around `gather` |
| `up` | awaiting `gather` |
| `closing`, `closed` | in its `finally`, before and after `finished_at` is set |

the poll loop:

| `poll` | where |
|---|---|
| `look` | before or in the `GET` |
| `got` | the reply is there, `last_t` not compared yet |
| `handle` | awaiting `on_closed_candle` |
| `rest`, `erred` | the sleep, after a reply or after an exception of `GET` |

and the run's row (`run` is the executor's `run_id`, `runs` and `finished` are the
table). A run is named by the number of its process, `life`. The handler is any
number of calls; each runs in a thread (`asyncio.to_thread`), which a cancelled
handler leaves running and the interpreter waits for (`Exit`). A start that fails
after the run was committed (`AssemblyFails`: an URL Redis does not understand, a
period that is not positive) ends the process outside that `try`, and the run stays
unfinished.

`CandleFeed` joins them and adds time. `Tick` may not pass while a message has
been under way for `Lag` ticks, nor while an idle bot has not polled (`Prompt`):
a tick is much longer than the 0.2 s between two polls. Handlers, failing GETs,
reconnections and processes that are down take any number of ticks. `missed`
is a history of the candles that something kept from the bot, set where that
happens: not connected at the close, connection lost with the message, SET
failed, either process ended with it, or it was replaced or expired unseen while
the bot was away, busy or without an answer.

Reductions: one symbol and interval; a failed SET took effect at once or never;
only closed candles; the messages between them, the publications and the price
keys have no reader in the bot. SIGTERM ends uvicorn, after which the bot is killed
or goes on without HTTP: `Kill`, or nothing that the model sees. `Interrupt` is
every end of `gather` by cancellation.

### CapitalLock and Lease

A call is sent (`Call`), executes at Redis (`Execute`) and returns; it may raise
at any time before (`Raise`), and if it had not executed, its command stays in
`late` and may still do so. `Restart` is a process that dies with its call and
starts under its old name: the holder is the bot's id, so a command of its
previous life speaks for it. No runner of this branch uses the lock; the holders
make any calls in any order. The two copies of the protocol do the same
(`locks.py` counts every non-zero answer of the script, `api.py` only 1, and the
script answers 0 or 1).

`belief` is what the code leaves to the caller: when the call was sent that last
answered True. `Sure(h)` says when a bot may rely on it: less than `Ttl` after
that moment, and no release of its own, given up on, was around when it was
sent. The second condition is needed: without it a release that executes late
deletes the lock taken again by the same bot, another takes it, and both act.
`Lease` says what remains: the lock changes hands only through being free, and
never from a holder that is sure of it.

## 4. Runs

| Run | Question | Bounds and why they are enough |
|---|---|---|
| `executor_reversals` | belief, exposure, exits and tables at every await; handlers return, closes reach flat | a signal starts until 3 order ids are used, so a trade with its stop is closed by a reversal that enters and protects the other side; 2 faults, so both may hit one close, or one leaves a late order behind the other; of the two inserts none, the first or both commit |
| `executor_longonly` | without shorts and with a stop: signals honoured, which entries have no stop, executions recorded | every kind of reply; the order's insert commits with its fills or alone; 8 ids, three complete trades; 1 fault |
| `placeorder_retries` | one order per call, refusals are final, calls end | 2 concurrent calls, 3 attempts each: an attempt that executed late, one that is refused as duplicate, one more |
| `strategy_exact` | averages and signals against their definitions | periods 3 and 7, whose weights are exact in binary, prices 3, 4 and 8, 5 candles: the averages meet exactly after a crossing and part again |
| `writer_faults` | what may be lost, what a pass keeps, that queue and backlog are an outbox, which status a row has, what is written in the end | 6 events, among them an order with a fill and a second status; a queue of 1 so that it is often full, a batch of 2 and two events that can never be bound, so that a pass gets on with one of them and not with both; one refused row, one fault of each kind |
| `feed_restarts` | candles from close to handler, and the run's row, with every failure and end of either process | 3 candles of 3 ticks, time to live 2, lag 1: a candle stays stored to the end of its period at most, and may be replaced, expire or be skipped between two others; 2 lives of the bot, so one starts on what another left, or after a start that failed; any number of lives of the stream |
| `lock_two` | exclusion, the lease, and that ownership ends | 2 holders and 4 calls: acquire, release that is given up on, acquire again, and the rival's acquire; `Ttl` 2, so that a lock can be half spent |

The code stops after five attempts and a pass takes 500 lines; both are constants.
`MaxOrders` stops only the start of a new signal, so a handler always runs to its
end; `MaxFaults` bounds failed calls and restarts, `MaxCandles` the candles since
a reset. The executor is checked for deadlock, as a quiet candle is always
possible when it is idle; calls of `place_order` and the feed of the writer end,
so these runs do not check it. The feed and the lock are checked for deadlock: a
process can always end or start, and time passes.

`feed_restarts` has `Ttl + Lag = Period`, the least room `ActsOnLatest` needs. The
defaults, 900 s for candles of one hour, have more. Where the bot's timeframe is
shorter than the time to live (5m with the default, say), a restarted bot does act on
a candle older than the last.

Fairness: `EmaExecutor` assumes that an awaited call returns or raises. That is
the SDK's doing: `UMFutures` is built without a timeout (`common/exchange.py:88`),
so a peer that never answers is outside the assumption. `PlaceOrder` assumes the
same of an attempt and that the wait between two (at most eight seconds) ends.
`DbWriter` assumes that a pass goes on and that between two passes the event loop
gives the consumer its turn: strong fairness, since a pass disables the consumer
while it lasts. `CandleFeed` assumes that an attempt to connect ends (timeouts of
20 s, `market_ws.py:55`) and so does a wait (at most 60 s); `CapitalLock` that time
passes. Nothing is assumed of the venue, the network or the disk.

Some properties hold under conditions that the code does not enforce:

- `AtMostOnce` on a venue that never forgets a client order id; the run
  `placeorder_openids` has one that does.
- `EventuallyWritten` until as many events that can never be written are in the
  backlog as a pass has lines (`Crowded`) or the writer is impaired. In the first
  case the compaction puts the same lines in front again (`backlog.py:44-61`) and no
  later line is ever tried, against the docstring ("intenta procesar cada evento",
  `backlog.py:10-11`); of the second the run `writer_aborted` is an example.
- `SignalIsCrossing`, `SignalsAlternate` and `SignalFollowsPrice` where equal averages
  are computed as equal. They are not always: the program answers LONG to the second
  of two closes of 3 with periods 9 and 21, and TLC shows the same with `Fast = 9`,
  `Slow = 21`, `Prices = {3}`, `Rounded = {"above"}`, against "'NONE' si no hay cruce"
  (`strategy.py:32`).
- `ActsOnLatest` for timeframes longer than the time to live.

`UnprotectedIsAcknowledged` is what remains of "every entry has its stop"
(`EntryProtected`, which `executor_acknowledged` violates): an entry has its stop
unless it was only acknowledged, and then its row says NEW.

### Where the code does something else

Each run violates one statement of the repository (quoted in `PROJECT.json`):

| Run | What happens |
|---|---|
| `executor_acknowledged` | a market order that is only acknowledged has the average price `"0.00"`, and its entry gets no stop although nothing failed |
| `executor_unplacedstop` | a stop order that fails raises the SDK's exception, not `ExchangeError`: the executor forgets the entry it holds |
| `executor_stoppedout` | after a stop-out the exit is refused, the exception escapes, and the SHORT is not opened |
| `placeorder_openids` | ids unique among open orders only: a retried market order executes twice |
| `writer_aborted` | a refused statement aborts the transaction for ever |

## 5. Proofs

`EmaExecutorProofs` holds for any number of orders and failures, all settings of
shorts and stops, all replies and database outcomes. `ExposureBounded` is not
inductive: the exposure during the `stop` phase belongs to a position that is not
recorded yet, and a delayed entry executes long after its failure was counted.
`IInv` adds `Control` (an exit has a position, an entry a goal and none, only a
position has a stop), `Bounds` (per direction, exposure plus late entries is at
most what the handler accounts for plus the faults) and `NothingDelayed`. From
`Inductive` follow `TypeCorrect`, `EntersFlat` and `ExposureIsBounded`, and with
further step lemmas `BeliefIsRight`, `AuditIsFounded` and `ExitsOnlyReduce`.
Two properties need a hypothesis, the one under which the runs check them:

- `ExecutionsAreRecorded`: the orders table takes every insert
  (`"none" \notin DbOutcomes`). `UnrecordedPaid` adds the market orders that are
  still late to the executions without a row: each was paid for by a fault when
  its call gave up, and may execute long after.
- `SignalsAreHonoured`: `~AllowShorts`. With shorts it is false, and
  the run `executor_stoppedout` shows how. `LongOnly` says which goals the phases
  can have.

`UnprotectedAreAcknowledged` needs none. `BareIsAcknowledged` says of the remembered
position that it has no stop only if the last executed order has no row or one that
says NEW; `IdsAscend` and `AuditTrail` make the order just executed the newest of all
recorded ones, and `BeliefMatchesVenue` ties the position to the exposure.

`PlaceOrderProofs` holds for any calls and attempts; `TypeCorrect` on any venue,
the rest assuming `UniqueAmong = "ever"`. `Traced` adds to `AtMostOnce` what a
call knows: until an attempt went unanswered only the current attempt can be on
the wire, and an execution is known to the caller or on its way. It gives
`OneExecution`, `RefusalsAreFinal` and `Refinement`.

`EmaStrategyProofs` holds for any periods, any prices and any number of candles.
The averages are defined by recursion over a sequence, and the library's
induction theorems cannot be used here (they take an operator); instead `Smallest`
takes a least counterexample, which exists because the intervals `0 .. k` are
well-founded by inclusion, and `Recurrence` gets from it that the recursive
functions in `Mean` and `Power` satisfy their equations. `MeanStable` says that
a later candle does not change an older mean and `MeanNext` that `Updated` is how
the mean goes on; `Started` (there is an average from the first candle on) then
makes `AveragesAreMeans` inductive, whatever `Rounded` is
(`AveragesAreRight`): the averages are exact in the model. What is said of
signals assumes `Rounded = {"equal"}`, since otherwise a constant price may seem to
cross (section 4). `XInv` adds `KeptSign`, that `prev` is the sign of the
last candle that was kept, which `SignalIsCrossing` alone does not say, and
`Unasked`. `SignalsDoAlternate` follows from `XInv` without a further step of
the system: from the last candle above to the next crossing from below, some
question must have found the averages equal. `SignalsFollowThePrice` needs
`Fast < Slow` as well: the arithmetic is that the fast average moves further
towards the close than the slow one.

`DbWriterProofs` holds for any feed, capacity, batch and number of faults.
`NothingLost` and `RowsUpToDate` are not inductive. In the middle of a pass a
line that was tried must be in the database or in `keep` (`LinesTried`), or the
compaction would drop it; `CompactionKeeps` is that step. For the rows,
`QueueOrdered` and `WrittenFirst` say that what was written without a detour is
older than all that waits, so the upsert of a later event is a later status.
`BacklogIsSafe` is an action property from the same invariant. `Refinement` needs
two parts more, since `Outbox` tells the places of an event apart: what waits
never was in the backlog (`Apart`), and what a pass keeps is still on disk
(`KeptThere`), so that neither finishing a line nor a compaction makes an event
come back.

`CandleFeedProofs` holds for any period, time to live and lag (shorter than the
period), any number of candles and lives. `IInv` adds to the properties what the
path of a candle looks like: a message under way is the last close and nothing
else is (`InFlight`), whatever is stored or was just read is not older than what
was handled, and `last_t` is the last of what this process handled (`Ordered`), a
stored candle that was seen is handled or about to be (`SeenIsSafe`), and which
process a row belongs to (`RunShape`). `OrderlyEnd` names every end of a process that
may leave its row unfinished: killed, failed at its start, or without its database. `StreamEffect`, `BotEffect` and
`TickEffect` reduce the steps to what they do to candles. `ActsOnTheLatest` needs one
invariant more, `Fresh`, and `Ttl + Lag <= Period` as a hypothesis.

`CapitalLockProofs` holds for any holders, time to live and calls. `NeverBothSure` is not
inductive: a renewal that was answered but whose answer has not arrived must be
worth what the belief it will become is worth. `Tracked` says so: belief and
answer, each with its age, are backed by the time the key has left, and neither
can be clean while a release of the same holder is late. `CommandKeeps` is the
heart: no command takes the key from a holder except its own release. With this
invariant every step is a grant, a confirmation or a fading of `Lease`
(`Refinement`).

Only model-checked: liveness (`HandlerReturns`, `CloseReachesFlat`, `CallsEnd`,
`EventuallyWritten`, `StreamTriesAgain`, `LockLapses`), which the proof system does
not reach. Every invariant, action property and refinement that a passing run
checks is also a theorem.

## 6. Not modelled

- Warm-up and hedge mode of the exchange adapter: what the venue does with an order
  without `positionSide` in hedge mode is not visible in this code; `EmaExecutor`
  assumes `BINANCE_DUAL_SIDE=false`. The other account calls have no caller.
- The market runner's other tasks. The heartbeat ends at its first exception and
  is not restarted, and writes a key that only a metric reads; the funding task ends
  at once, because `schedule_funding_updates` gets the exchange for its symbols;
  the percentiles are off by default.
- Legacy storage and Control API have no caller in this branch; metrics,
  configuration and `ws_sink.py` have no control flow of their own.

Inside modelled components: partial fills, rounding of quantities, two executors on one
account, corrupt or torn lines of the backlog, `db_url` unset (the writer then
never starts), and several symbols or intervals on one stream.
