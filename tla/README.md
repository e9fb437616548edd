# Verification of athenas-pallas

TLA+ specifications, TLC configurations and TLAPS proofs for the backtesting
engine in `athenas-pallas/` and the programs around it. Paths without a
directory are below `athenas-pallas/src/`.

Everything is written from the Rust source. Where the documents say something
that the code does not do, the model follows the code; section 6 lists the
differences.

## Running

    tlc -workers 2 -config MCOrderStore.cfg MCOrderStore
    tlc -workers 2 -config MCSpot.cfg MCSpot      # likewise MCMargin, MCCache,
                                                  # MCFeed, MCBars, MCReport
    tlc -workers 2 -config MCExternal.cfg ExternalStrategy
    tlc -workers 2 -config MCSweep.cfg SweepPool
    tlapm OrderStoreProofs.tla                    # likewise each *Proofs.tla

The configurations `MCShortSale` (of `MCSpot`), `MCFunding` (of `MCMargin`) and
`MCSharedCache` (of `MCCache`) are meant to end with a counterexample.

## 1. Inventory

### Components, their state and their operations

| component | source | state | operations |
|---|---|---|---|
| order store | `oms.rs`, `types.rs` | id map; four price books per instrument | insert or replace, remove, poll by snapshot |
| fill engine | `execution/fills.rs`, `execution/mod.rs`, `execution/sync_paper.rs` | none: reads the global state, emits events | place an order, poll resting orders, cancel |
| engine | `engine/sync.rs`, `engine/commands.rs`, `engine/replay.rs` | intents of the callback, fill and rejection logs | dispatch an event, submit intents, apply controls, final callback |
| global state | `state/*.rs` | market rows, positions, average entries, balances, daily anchor, pause and trading state | apply market, fill, balance and order events |
| risk | `risk.rs` | none | validate an intent |
| lifecycle | `backtest/lifecycle.rs`, `instrument/pricing.rs` | none | liquidation, funding, coupon, exercise |
| runner | `backtest/runner.rs` | deferred intents, equity curve, cancel flag | the two replay loops, the report |
| external strategy | `strategy/external.rs`, `strategy/protocol.rs`, `backtest/session.rs` | child process, reader thread, request number, positions in the fill and rejection logs, first error | handshake, request, receive, finish, drop |
| strategy SDKs | `trading/_sdk/` | a user's object | the loop that reads a request and writes an answer |
| source merge | `backtest/merge.rs`, `source.rs` | a heap with one event per source | next event |
| calendar | `calendar.rs` | none | session filters, holidays |
| sweep | `pallas-sweep.rs` | job counter, result channel | draw a job, send, collect, write |
| Databento cache | `data/databento.rs` | data files, manifests, definitions, factors | validate, fetch, adjust, rename |
| metrics | `metrics/` | open lots, running figures | apply a fill, record a sample, summarize |
| report | `backtest/report.rs` | none | project the final state |
| bar data | `bar.rs`, `backtest/pbar.rs`, `pallas-resample.rs`, `interval.rs` | csv and sidecar files, buckets | read, write, resample |
| configuration | `backtest/config*.rs`, `bin/pallas-backtest.rs`, `backtest/cpp_build.rs` | none | parse, resolve, build |

### Interactions

The runner pulls events from the merge, drops those outside the session and
calls the engine for each of the others. The engine applies the event to the
global state, polls the fill engine, calls the strategy and submits its answer;
the fill engine answers with events (accepted, fill, balance, cancelled,
rejected), which the engine applies to the state one by one. The order store is
part of the state. An external strategy is reached through two pipes; a thread
of its own moves lines from the child's stdout into a channel. After each bar
the runner calls the lifecycle, which rewrites the state directly, and takes an
equity sample; at the end the report is made from the samples and the fill log.
A library caller may feed the same engine a recorded stream with an operator's
commands in it (`replay_events_sync`) instead. A sweep runs whole backtests in
parallel threads that share a counter, a channel and, in the file system, the
sidecars of their bar files. Nothing of a run is persisted; the files that
outlive a process and are trusted by the next are the Databento cache, the
sidecars and built strategies.

### What is hard here

* *Stale reads inside one step.* A poll decides all of its fills against the
  state at its start and emits absolute balances; the events are applied later.
* *Two phases of one order.* An intent that answers a bar is deferred, validated
  again at the next update of its instrument and filled against other prices
  than the strategy saw.
* *A second copy of a rule.* The price books prune by ranges in `oms.rs` that
  must agree with the trigger conditions in `execution/fills.rs`; the summary
  of an equity curve exists twice, streamed and kept.
* *Books kept apart.* Positions follow fill events, base balances follow balance
  events, attributed positions and the trade ledger follow fills, and the
  lifecycle rewrites some of them by hand.
* *Real concurrency* in three places: the three parties of an external strategy,
  the sweep's workers, and programs that share files; and *crashes* in two, the
  Databento cache and the sidecars.

The `hazards` of `PROJECT.json` give each of them its line and the property that
watches it.

## 2. Plan

Modules in the order in which they were written, each with what it builds on.

1. **Order store** - `OrderRules`, `WorkingOrders`, `OrderStore`,
   `MCOrderStore`, `OrderStoreProofs`. Abstract specification: a set of working
   orders whose poll scans everything.
2. **Replay engine** - `FillRules` and `LifecycleRules` (what an order and a
   settlement do at given prices and account) under `ReplayEngine` (the loop),
   extended by `LiveSession` (the live dispatcher); instances `MCSpot` and
   `MCMargin`; `ReplayEngineProofs`.
3. **External strategy** - `ExternalStrategy`, with fairness;
   `ExternalStrategyProofs`.
4. **Sweep** - `SweepPool`, `SweepPoolProofs`.
5. **Databento cache** - `DatabentoCache`, `MCCache`, `DatabentoCacheProofs`.
6. **Feed** - `EventTapes`, `StableStream` (abstract), `MergeSources`,
   `Calendar`, `TradingDays` (reference), composed in `ReplayFeed`; `MCFeed`,
   `ReplayFeedProofs`.
7. **Bar files** - `Resample` and `BarFiles`; `MCBars`, `BarFilesProofs`.
8. **Report** - `TradeLedger` and `Performance`, composed with the rules of 2 in
   `RunReport`; `MCReport`, `RunReportProofs`.

What would come next: orders against an L2 snapshot and the fill models that read
it; the C++ build directory that jobs of one sweep share; account events that a
recorded stream carries.

## 3. Modules and the code they model

`PROJECT.json` maps every definition to its lines.

**OrderRules** holds what `types.rs` and `oms.rs` say of one order: its trigger
price, the book it stands in, the prices a snapshot reaches in each book.

**WorkingOrders** is the abstract store: working orders by id, insert, remove,
and a poll that returns every order whose trigger price the snapshot reaches.

**OrderStore** is `OrderStore`. `working` is the id map, `index` the four price
books (a function from instrument to book to price to set of ids, with absent
keys where the code's maps have none). `Insert` is `insert_order` with the
removal of the replaced order's entry, `Remove` is `remove_order` with the
removal of emptied levels and emptied instruments, `Poll` is
`pollable_ids_into`. It implements `WorkingOrders` with the
identity on `working` and `polled`.

**FillRules** is the pure half of the engine: normalization to lot and tick,
effective bid and ask, slippage, crossing, the price at which a resting order
fills, margin, fees, the account after a fill. **LifecycleRules** is that of the
lifecycle: when a margined position must be liquidated, what liquidation,
funding and exercise pay.

**ReplayEngine** is the loop. `phase` is the place in the code:

    idle -> place -> poll -> strategy -> control -> submit -> [settle] -> idle
    idle -> submit -> control -> done                    (the final callback)

An action is one order placed, one resting order evaluated, one control, one
instrument settled: the smallest step whose effect another step can see.
`Bar`/`Tick`/`Timer` take an event; `PlaceFills`, `PlaceRests`, `PlaceRejected`
and `Defer` are the outcomes of an intent; `PollFills`, `PollRejects` and
`PollSkips` those of a candidate, in the order of its book, price and id;
`Cancel` to `EndFlatten` are the controls; `Liquidate` to `SettleNothing` the
lifecycle. `poll` keeps the account and the orders of the poll's start because
the code computes from them while the events change the state.

Data is abstracted where no property tells it apart. `Decimal` is an integer,
and the constants are chosen so that the divisions of the fee and slippage rules
are exact. The queue of deferred intents that are ready is the map `pending`
restricted to an instrument. A bar always has a bid and ask row, so the code's
fallback to the close is not reached. `ghost` holds history: the cash that fill
events report, the last fill (with the bar whose range it used, and whether the event
in hand had brought a price), whether one poll has filled two orders, the fundings of
the present timestamp. No guard reads it.

**LiveSession** is the other way into the engine, `replay_events_sync`: the same
dispatcher with an operator's commands among the events. `Switch` pauses,
resumes, disables and enables; `Intervene` cancels or flattens; `SkipStrategy`
is the early return of `dispatch_strategy_sync`; `RejectBlocked` is the risk
engine's refusal. `mode` is chosen at the start, and in the mode "replay" the
steps are those of `ReplayEngine`.

**ExternalStrategy** has three processes. The engine's thread: `SendInit`,
`OnEvent` or `OnFinish` write a request (`Written` ends a write that had to
wait), then `Check` (`try_wait`), `Receive`, `Timeout` or `Disconnected`; a line
is accepted (`Accept`) or the callback fails (`Fail`); `Drain` of the controls;
`TakeError`, `Shutdown` and `Wait` at the end. `Fill` lets the log grow between
callbacks and `Abort` ends the run early. The reader thread, `reader_loop`, is
`Forward` and `EndOfFile`. The child: a module that is loaded (`ChildStarts`) and the
loop of `pallas_strategy.py` around callbacks that answer, print, answer twice, raise
or hang, as code at the top of the module may. Pipes are sequences; `LongLines` lets a request exceed the pipe's
capacity, so that writing it waits for the child. A request carries the interval
of the fill log it reports; the rejection log works alike and is left out, as
are diagnostics.

**SweepPool** is `pallas-sweep`. A worker draws (`fetch_add` and the look-up in
the job list), runs and sends; the main thread starts the scope, joins it,
collects and sorts, and writes row by row. A backtest ends with a report, an
error or a panic; `Join` raises the panic of any worker, as `thread::scope`
does. The counter's relaxed ordering needs no weaker model: a read-modify-write
of one atomic is totally ordered, and the reports travel through the channel.

**DatabentoCache** is `ensure_cached_csv`. `files` are the published files of one
cache name, `temps` the temporary ones, `proc` the invocations. `Validate` decides
what is reused, `Inspect` is the estimate and the consent; then each file is made
in the same five steps: the value is prepared (`FetchRaw` to `AdjustedManifest`),
`Open`, `Fill`, `Unlink`, `Publish`. `End` is a crash, an I/O error, a failed
request, a declined cost, or the end of a backtest; it may come at every step. A
checksum is the file itself: two files have one checksum exactly when they hold
the same data to the same point. With several invocations, an open handle
follows its file through a rename and is lost with an unlink or a truncation;
their validation is one step, which is exact for one invocation. Two writers of
one truncated file are modelled for equal content only (`Versions` has one
element in `MCSharedCache`). One of the two adjustment modes stands for both:
they differ in the names of their files.

**EventTapes** is what a replay reads: one tape of stamps per source, and the
order of the heap. **StableStream** is the abstract specification of a merge,
without a heap: an event falls due at the latest instant its own source has
reached; events come as they fall due, ties in source order. **MergeSources** is
`merge.rs`: `MergeInit` draws the first event of every source, `NextEvent` pops
the least pending event and draws its successor. The refinement maps `left` to
what is pending or unread and `stream` to what was returned.

**Calendar** is `calendar.rs` with the date arithmetic of the `time` crate that
it uses. **TradingDays** is not a model of code but the reference: the hours by New
York's clock, with the daylight time of the United States since 2007, each holiday
by the rule it is known by, Easter by the paschal full moon. `Behind` is what the
code's fixed offset of five hours is behind that clock.

**ReplayFeed** is the runner as the loop that feeds the engine: `Skip` and
`Accept` are `ReplayRun::accept` (the session filter, the count, the look at the
cancel flag every 64th time, the tracked range), `Process` is the engine with
`record_equity`, `Finish` is `finish_strategy`, `SetCancel` the other thread. An
event without an instant is merged at the epoch and processed at the wall clock,
as `event_ts` of the merge and of the runner have it.

**Resample** is `pallas-resample`: the rows of a tape of trades and their
aggregation row by row (`AddRow`, `aggregate_rows`), beside `AreBarsOf`, which
states the bars bucket by bucket. **BarFiles** is
`from_csv_path_or_pbar` and what changes a csv: `Stat`, `ReadSidecar`,
`ParseCsv`, `CreateSidecar` and `WriteBlock` of any number of loads;
`StartRewrite` and `WriteRow` (a resampling in place) and `Replace` (a rename).
A load may stop anywhere (`Leave`) or give up on the sidecar (`ReturnSeries`).
A write past the end of a truncated file leaves a `Hole`.

**TradeLedger** is `metrics/ledger.rs`, **Performance** is
`metrics/performance.rs`. A return and a drawdown are fractions of integers; the
ratios are functions of the returns and are represented by those. **RunReport**
composes them with the account: fills of several strategies and settlements at
any price, and the report that could be made after each of them.

## 4. What the runs check

| run | distinct states | question |
|---|---|---|
| `order_store` | 11 thousand | does the index stay exact, and do polls answer like a scan? |
| `spot` | 1.5 million | are the books of a cash equity consistent under every short dialogue of market, limit, stop, OCO, cancel and flatten requests, replayed or live, with an operator who pauses, disables and intervenes? |
| `margin` | 2.0 million | the same for a perpetual, an option and a bond with liquidation, funding, coupon and exercise |
| `external` | 48 thousand | what does a run accept, tell and report when the child misbehaves, and does it come back? |
| `sweep` | 26 thousand | does each job run once and the table list them all, whichever fail? |
| `cache` | 2.0 million | is what is reused and served complete, wherever earlier invocations ended? |
| `feed` | 3.1 million | which events reach the engine, in what order, and what range is reported? |
| `bars` | 1.6 million | is a resampled file exact, and does a load return what its csv holds? |
| `report` | 806 thousand | do account, ledgers, attributed positions and metrics agree? |

`order_store`: `IndexExact` (each order stands once, in the level of its trigger
price), `NoEmptyLevels` and `EveryBookListed` (levels and instruments are freed
and found), `Implements` (the refinement).

`spot` and `margin`: `CashFollowsFills` (no cash of a fill is lost or
counted twice), `NoOverdraft` (orders affordable one by one do not overdraw
together when they fill later), `NoPastRangeAfterMove` (an event that brings a price
fills nothing on the range of a bar that was over when the order was submitted),
`HeldToNextUpdate` (no intent is held too long),
`OcoCancelsSiblings` and `OnlyWorkingOrdersFill` (one fill per group, also
within a poll), `PruningIsSound` (the books never hide an order that the rules
would fill), `FlattenCloses`, `HaltPlacesNothingNew` (with both halting rules
installed, a paused or disabled engine fills nothing that was not working when
it was halted), `EntryIffMarginedPosition`, `OnlyPollsExceedLimit` (accepted intents,
closes and settlements keep to the position limit; only resting orders may pass it),
`LiquidationConservesEquity`.

`NoPastRangeAfterMove` is as much of the promise of `trading/protocol.md:138-142` as
the code keeps. It covers bars, trades and quotes, released and resting orders. Four
kinds of event poll or place orders and bring no price of the instrument: a status
record, a timer, an event of another instrument and the final callback. After these
the range of the last bar is still in the row, and the model lets orders fill on it,
as the code does; section 6 says what comes of it.

`CashFollowsFills`, `NoOverdraft` and the second half of `FlattenCloses` are
stated for runs in which no single poll has filled two orders (`~ghost.lost`).
When one does, the code loses an update; `short_sale` shows it.

`external`: `AnswersBelongToTheirRequest`, `LogIsToldOnce` (each fill reported to
the child once and in order, also after an answer that failed),
`ReportMeansAnswered` (a run that ends with a report has had every callback
answered), `ControlsRunInTheirCallback`, and the liveness property `RunReturns`. Its
second disjunct names where the code itself may hang: in the write of a long line
to a child that has stopped reading, and in the wait of `drop` for a child that hangs
and never reads the shutdown line. The second needs an unasked line: it ended the
engine's last wait for this child early, so that no timeout has killed it. Neither has
a timeout of its own. In every other case a hung child is killed.

`sweep`: `EachJobRunsOnce`, `EveryJobReports` (no job skipped when the scope ends
without a panic), `TableIsManifest` (one row per job in the order of the file,
failures included, and the exit status), and the liveness property `SweepEnds`.

`cache`: `PublishedIsWhole` (no end of an invocation leaves a half-written file
under a final name), `ReuseIsComplete` (what manifest and checksum vouch for was
fetched to its end for this request), `ServedIsOurs` (what the backtest gets, the
adjusted data and the definitions included). `ServedIsOurs` does not say that
factors and definitions were fetched for this request: the code reuses them
because their files are there, also for a request that only shares the name.

`feed`: `Implements` (the merge refines the stable stream), `SessionIsReplayed`
(every dated event within trading hours is processed and no other: New York's hours
in standard time, an hour later in daylight time),
`ReportInOrder` (samples and range are in time order where every tape is dated
and sorted), `CancelIsHeeded` (less than one stride of events after the flag).

`bars`: `ResampleIsExact` (bucket by bucket, before the epoch too, and in two
steps as in one), `LoadIsCurrent` (a load returns the rows of its csv whatever
earlier loads left behind, as long as no writers have met: `~clash`).

`report`: `LedgerExplainsEquity` (realized and open profit and funding are the
change of the equity until a liquidation or an exercise, but for what the ledger
overstates of a share with a multiplier: `Overstated`),
`AttributionIsComplete` (ledgers, attributed positions and account agree),
`MetricsAgree` (streamed and kept summaries agree).

Every property has a mutant of the code under it that breaks it
(`PROJECT.json`); the mutated operators stand beside the originals.

### Bounds, and why they are enough

* `order_store`: two ids, two instruments, two prices. Two ids share a level or
  not, two prices put an order on either side of a snapshot, two instruments let
  a replacement move an order between books; the code has no rule about three of
  anything. Ids and instruments are symmetric: nothing orders or names them. The
  proofs remove the bound.
* `spot`: four events, three answered callbacks or commands. An order needs one
  event to be submitted, one to be released and one to fill, and the fourth lets
  another order, a cancellation or a halt come between. Two bars (rising and
  falling), a trade, a quote and a status record reach every trigger from both
  sides.
* `margin`: four events, two answered callbacks. A callback buys the perpetual
  twice at once, or the perpetual and the bond together with a limit and a stop
  of one OCO group on the option, whose bar falls through both; or it sells,
  cancels by client id or flattens. The option's bar falls by a fifth, the perpetual's
  prices double and halve, which is enough for liquidation, the bond is marked by
  a quote, and the calendar has a funding time, a coupon date and an expiry;
  `Gaps = {0, 1}` lets several events share a timestamp. One of the callbacks leaves
  a limit resting on the primary instrument beside a market order, and another
  sends two orders that exceed the limit of two together, so that
  `OnlyPollsExceedLimit` meets both.
* `external`: two callbacks after the handshake and the final one, two fills,
  one line of noise. Two callbacks are what a late answer needs to be taken for
  another's. The proofs remove the bound for all but `RunReturns`.
* `sweep`: up to three jobs and four requested workers: fewer, as many and more
  workers than jobs, and a third worker that overtakes while two are in the
  middle of something. The proofs remove the bound for all but `SweepEnds`.
* `cache`: three invocations, so that one can leave a mixture of files, a second
  can build on it and a third can be served from it; two requests and two
  answers, so that a stale file can be another request's or an older one's.
  Requests and versions are only compared for equality and are symmetric. The
  proofs are for any number of each, as long as invocations do not overlap.
* `feed`: two sources of up to two events, and of three and one, in every order,
  with ties and undated events; both sides of every edge of the sessions, by New
  York's clock in standard and in daylight time, on every day of a leap
  year whose holidays fall on a Saturday (2020) and of the first year of
  Juneteenth (2022); and the weeks of Easter from 1975 to 2035. The stride is 2
  here and 64 in the code; the proofs are for any stride, tapes and filter, and
  for every day of 1900 to 2199.
* `bars`: every tape of up to three events around the epoch, intervals of 1, 2
  and 4 seconds; two loads, two changes of the csv, three instants of the file
  system's clock. Two loads are what a clash needs; the proofs are for any
  number of loads, and for tapes of any length.
* `report`: a perpetual, an option and a share, all with a multiplier other than one;
  four fills and one settlement: open, add, reverse and close, with a
  funding, a liquidation or an exercise in between; curves of up to four samples
  from -1 to 3. Prices are multiples of all that averages and fees divide by. The
  proofs are for any fills, settlements and curves.
* In general `MaxRuns`, `MaxEvents`, `MaxResponses`, `MaxCalls`, `MaxFills`,
  `MaxNoise`, `MaxSettlements`, `MaxTick` and `MaxEdits` bound otherwise endless
  runs; no other guard is added.

Deadlock is checked in the runs of the engine, the external strategy, the sweep,
the cache and the order store: a stutter after the end (`Ended`, `Rest`,
`Elsewhere`) is the only step that goes nowhere. `feed`, `bars` and `report` stop when their tape, clock or
bound is used up, and do not check it.

### Fairness

`ExternalStrategy` and `SweepPool` state liveness properties. In `SweepPool` weak
fairness is assumed of the main thread and of each worker: the operating system
runs every thread, and each backtest ends (`RunReturns` is about an external one
that does). In `ExternalStrategy` it is assumed of the engine's thread, of the
reader thread and of the child, each as one action: the operating system
schedules runnable threads, `recv_timeout` returns, and a callback ends by
answering, by raising or by hanging for ever. Nothing assumes that a child
answers. A hung child is a state from which it makes no step of its own, until
the engine kills it. Fairness of the whole program is not assumed of single
branches such as `Receive` before `Timeout`.

## 5. What is proved

All theorems hold for every value of the constants, under the assumptions that
the modules name. Where a theorem has a hypothesis of its own, it is named below
with what in the code stands for it; TLC has evaluated each on the constants of the
runs.

Several theorems are about what is computed from data of any size: a sum over
instruments, a ledger of a log, a calendar, the bars of a tape. The library's
induction rules take an operator and cannot be used, so the induction is made by
hand. Among the elements for which a claim fails there is a least one
(`WFMin` of the library, of the numbers or of the finite subsets of a set), and
the claim is shown for it from those before it. Definitions that are proved about
are recursive functions or folds: a fold over a set is a function of its subsets
(`Folds`), one over a sequence is a path, what it comes to after each prefix.

**`OrderStoreProofs`**, under the assumptions of `WorkingOrders`:

* `IndexAlwaysExact` - the inductive invariant;
* `TypeCorrect`, `EachOrderIndexedOnce`, `LevelsAreFreed`, `BooksStayListed` -
  its parts, the invariants of the run `order_store`;
* `IndexedStoreImplementsScan` - `Spec => Implements`.

The argument. `IndexExact` alone is not inductive: removing an order deletes its
id from the level named by its trigger price, and only if the level and the
book are there, hold no other instrument's order and are never empty does the
deletion leave the index exact. The invariant `IndexInv` therefore joins type
correctness, exactness, no empty level and no unlisted book. `Holds(os, ix)`
states exactness of an index against a set of orders, so that it can be stated
of the intermediate index of an insert, which is exact for the orders without
the inserted id. The lemmas follow the code's steps: `UnindexClears` (removing an
entry makes the index exact for the others), `InsertAdds` (adding makes it exact
for one more), `SetIndexInstalls` (an emptied instrument leaves the outer map),
`RemoveClears`; `StepPreserves` has one case per action. `PollIsScan` uses
exactness in both directions: what the ranges reach are the working orders whose
trigger price is reached. The refinement follows, with a poll the only step for
which the mapping is not immediate.

**`ReplayEngineProofs`**, under the assumptions of `FillRules` and
`ReplayEngine` (a run starts flat, instruments do not share a base asset, bars
are well-formed):

* `InvHolds` - the inductive invariant;
* `ReplayTypes`, `IntentsAreHeld` (`HeldToNextUpdate`), `CashIsExplained`
  (`CashFollowsFills`), `EntriesFollowPositions` (`EntryIffMarginedPosition`),
  `FillsLookForward` (`NoPastRangeAfterMove`);
* the action properties `SiblingsAreCancelled` (`OcoCancelsSiblings`),
  `PollFillsWorkingOrders` (`OnlyWorkingOrdersFill`), `PruningLosesNoFill`
  (`PruningIsSound`), `HaltedFillsNothingNew` (`HaltPlacesNothingNew`),
  `LiquidationIsNeutral` (`LiquidationConservesEquity`);
* under hypotheses on the inputs, `NothingIsOverdrawn` (`NoOverdraft`) and
  `FlattenClosesEverything` (`FlattenCloses`), which rest on `PositionsAreHoldings`,
  and `LimitIsKept` (`OnlyPollsExceedLimit`).

Each is stated of `Spec` and of `LiveSpec`: the steps that a live stream adds keep
every invariant, and a live stream has no daily anchor (`LiveInit`).

The argument. Most of what can go wrong happens in a poll, between the moment
its candidates are taken and the moment the last is evaluated. `PollSound` says
what stays true of the candidates in between: the working orders are among the
orders of the start, a candidate that no longer works is a sibling of one that
this poll has filled, and as long as nothing has filled, the account is the one
of the start. The last part is why the cash follows the fills until a poll fills
two orders; the second is why a candidate that is evaluated still works, and why
a group fills once. `Born` dates every order before the range it may fill on,
and `InHand` says where in the dispatch of a bar its range is cleared and where
it is set, and that a trade or a quote clears it; together they give
`FillsLookForward`. `RowsCoherent` (the touch lies
within the range) is what `PruningLosesNoFill` needs of the market, and holds
because the close of a bar lies within its range: `BarsAssumption`.
`IdsDrawn` keeps a new id apart from all others, which the order maps need. The
proof is laid out by parts of the state: frame lemmas (`MarketFrame`,
`OpenFrame`, `PendingFrame`, `PollFrame`, `BooksFrame`, `PhaseFrame` ...) say
which actions change a part and how, and each conjunct of `Inv` is then
preserved by a lemma of its own.

The properties of funds need more than `Inv`. `Holdings`: quantities rest and are
held in lots, what is held has a price, and what is held without margin is the
base balance as long as no poll has filled two orders. `Funds` joins to it that no
order and no market is below zero, and that holdings are long; then a fill is
admitted only if its cost with fee is covered, and so is the next of another
callback. `FlattenPending` says that what a flatten has still to close is in the
rows that it has still to visit: it closes a row whole because a position is a
number of lots, so that rounding its order to the lot loses nothing. `HaltedBeforeNew` says that what
works in a halted engine has an id drawn before the halt. `LiquidationIsNeutral`
compares two sums over the instruments that differ in one. `LimitIsKept` needs no
more than `Inv` and that quantities are not negative: an intent is checked with the
quantity it has then, rounding to the lot only lowers it, and a close, a liquidation
and an exercise bring the position nearer to nothing. Resting orders are part of the
statement: it is the poll that it excepts, which checks funds and not the limit.

The hypotheses are `SoundInputs`, four conditions. `SoundBalances` and
`SoundTicks`: no initial balance and no price is negative, which `config_file.rs`
checks of the initial balances and recorded data meet. `SoundAnswers`: no intent
has a negative quantity or price. `strategy/protocol.rs:242` rejects such a
quantity in an answer of an external strategy; an in-process strategy must keep to
it, and so must both for the price, whose sign nothing checks. `SoundRates`: fees
and slippage are at most the whole of a price; the code sets no upper limit.
`SoundLimit` is again what `config_file.rs` lets through. `LimitIsKept` asks for
`SoundQuantities` alone, the part of `SoundAnswers` about quantities.

**`ExternalStrategyProofs`**, for any number of callbacks, fills and stray lines:

* `ExtInvHolds` - the inductive invariant;
* `NoAnswerIsMistaken` (`AnswersBelongToTheirRequest`), `FillsAreToldOnce`
  (`LogIsToldOnce`), `NoSilentFailure` (`ReportMeansAnswered`), `ControlsAreTimely`
  (`ControlsRunInTheirCallback`).

The argument is about one request at a time. Until the child has read it, no
line that is or will be on its way can be taken for its answer (`Unread`); once
it has, the child has heard of the whole fill log (`Waiting`). An answer that is
accepted therefore leaves engine and child with the same idea of what has been
told (`Ready`), and after an error nothing is asked any more.

**`ReplayFeedProofs`**, for any sources, tapes, stride and wall clock:

* `MergeInvHolds`, `OrderInvHolds` - the inductive invariants;
* `FeedImplementsStableStream` - `Spec => Implements`;
* `SortedTapesMergeInOrder`, `NothingIsLost`;
* `CancelIsNoticed` (`CancelIsHeeded`), `ReportIsInOrder` (`ReportInOrder`);
* `SessionHoursLag`, for every instant of 1900 to 2199: the code's session is the
  published one in standard time and the published one an hour late in daylight
  time; and `SessionIsComplete` (`SessionIsReplayed`) for tapes dated within these
  years (`InComputus`).

The argument. The heap is the frontier of the tapes: one pending event for each
source that has any left. What its source holds before a pending event has been
returned, so it came before something the other sources hold up to their own
pending events (`Passed`). That is all the least pending event needs to precede
everything that is still to come, in sorted and in unsorted tapes alike.

The session filter is compared with the published hours in three steps. The
arithmetic of `calendar.rs` from days to years, months and week days is shown to
invert the count of days, for every day; then each holiday of the code is the
published one: fixed dates with their observed days, n-th week days, and Easter:
in 1900 to 2199 the code's divisions by the century come to the age of the moon that
gives the full moon of the reference, and what it adds is the number of days to the
Sunday after it (`EasterSunday`). Other centuries have other tables. Last, the
code's clock is New York's of an hour before while daylight time lasts
(`HoursByFixedClock`, `ClockOfDay`): at the change in March that hour before is
itself in standard time, but on a Sunday morning, when both sessions are closed
(`FirstHourOfDaylight`, `ClosedOnSundayMorning`). `SessionInv` then says, of every event that the merge has
returned, that it was processed exactly if the filter let it through (`Taken`); at
the end the heap is empty, so that these are all.

**`BarFilesProofs`**, for any loads and contents:

* `BarInvHolds` and `LoadsAreCurrent` (`LoadIsCurrent`);
* `ResampledExactly` (`ResampleIsExact`), for any recordings that satisfy
  `RecordingsAssumption` (times and sizes are numbers, and bars to aggregate are
  well-formed).

The argument. As long as no writers have met, a sidecar that looks fresh is a
prefix of the csv's rows, and its count is that of all of them, so that it is read
as whole only when it is. For resampling, `AreBarsOf` states bucket by bucket what
the bars of a tape are; it is shown of the running aggregation for every prefix of
the tape, one row more at a time: the row falls into the last bucket or opens a
new one. Sequences that are both the bars of one tape are equal, and the bars of a
tape's bars are the bars of the tape, since the bucket of a multiple of the
interval holds whole buckets, before the epoch too.

**`SweepPoolProofs`**, for any number of jobs and any `--jobs`, under
`CountsAssumption`: `PoolInvHolds`, `PoolTypes`, `NoJobTwice`
(`EachJobRunsOnce`), `NoJobSkipped` (`EveryJobReports`). A job below the counter
is with exactly one worker or in the channel (`BelowCounter`,
`EachJobRunsOnce`, `Accounted`), and a worker leaves its loop only when the
counter has passed the last job (`LeftAtEnd`). After the join nobody holds a
job, so all are in the channel. `EveryJobReports` alone says nothing of the time
before the join and is not inductive. `TableInManifestOrder` (`TableIsManifest`)
goes on from there: after the sort there are as many results as jobs and the
result in place i is job i's (`Sorted`), which needs that each job has reported once
and that indices are distinct; the rows written are a prefix of the results
(`Prefix`), and a failed write ends the table and the exit status with it.

**`DatabentoCacheProofs`**, for any requests, answers and command lines, under
`ConfigsAssumption`:

* `CacheTypes` - type correctness, with any number of overlapping invocations;
* `CacheInvHolds`, `ServeInvHolds`, `NothingHalfWritten` (`PublishedIsWhole`),
  `ReusedIsComplete` (`ReuseIsComplete`) and `ServedIsOwn` (`ServedIsOurs`) - under `Alone`, that is, with one
  invocation at a time, each of which may end anywhere. Without `Alone` they are
  false, as the run `shared_cache` shows.

The argument. A temporary file is complete when its renaming is due
(`FilledFirst`), so that what is published is whole. A manifest is made from data
that the same invocation has published just before (`OwnWork`), so that every
manifest on disk tells the truth of what it was made from (`ManifestsTruthful`),
whatever lies beside it now; and the checksum ties it to what does lie there.
`ServedIsOwn` follows an invocation to its end. From each of its steps on, what it
will serve is there (`Ready`, one part for the raw data, the definitions and the
adjusted data): either it has found it complete or made it. The adjusted data is of
its own raw data because the manifest beside it binds both, and was written of
adjusted data that was made from the raw data it names (`BindingsTruthful`).

**`RunReportProofs`**, for any number of instruments, strategies, fills and
settlements (`InstrumentsAssumption`, `TagsAssumption`: both sets are finite, and
no strategy has the name of an untagged order):

* `BooksAgree` (`AttributionIsComplete`), under `SoundFills`: every order that
  fills has a positive quantity (`execution/fills.rs:125` refuses zero,
  `strategy/protocol.rs:242` the rest) and every instrument a positive multiplier;
  the ledger skips any other fill (`metrics/ledger.rs:102`);
* `EquityIsAccounted` (`LedgerExplainsEquity`), under `SoundFills` and
  `AveragesAreExact`, for any multipliers;
* `FiguresAgree` (`MetricsAgree`), for equity curves of any length
  (`Curves \subseteq Seq(Int)`).

The argument. Appending a fill to the log is one more entry in the ledger
(`LedgerGrows`), in that of its strategy and in no other's (`FillsOfGrows`); so the
position of a ledger moves with the account's and the attributed one, and the
average cost of a margined position is the account's entry (`EntryIsAverage`). The
sum of the attributed positions changes in one summand (`SumChanges`).

`EquityIsAccounted` adds an account of the cash (`CashAdds`): the quote balance and
what the open positions have cost are the initial cash, the realized profit and the
fundings. That a fill keeps it is one equation with a case for opening, adding,
reducing, closing and reversing, with margin and without (`FillAddsUp`); the fees
shared out over later closes are part of the cost until they are. What the
positions are worth is their cost and the open profit (`WorthLessCost`).
Fill records carry a multiplier for equities, crypto, forex and hybrids too, which
the account ignores (`Excess` is the difference). What the ledger makes of it is
exactly that many times what the position is worth beyond what its fills have cost
(`SpentOn`): the theorem says by how much the report does not add up (`Overstated`),
for any multiplier, and that nothing else is missing. `AveragesAreExact` says of a run that the average of an unmargined position
that is added to divides exactly. The model divides whole numbers, the code
decimals, which drop a digit far behind the last that a report shows; the account
of an unmargined position has no average, so that what is dropped is
missing on one side. Margined positions need no such condition: account and
ledger drop the same.

`FiguresAgree` compares two folds over one curve sample by sample: the streamed
figures after k samples are those of the curve's first k samples (`Alike`).

Refinements, checked and proved: `OrderStore` implements `WorkingOrders`;
`MergeSources` within `ReplayFeed` implements `StableStream`.

Only model-checked: `RunReturns` and `SweepEnds`. They are liveness properties
under fairness, which are out of the prover's reach. Every other property of the
passing runs has a theorem.

## 6. Where the code and its documents differ

Three are runs that end with a counterexample to what a document or comment says.

* `short_sale` - two sells of one poll are each checked against the same account
  and leave an equity position short, with one sale's cash overwritten.
* `funding` - funding is settled after each bar of any instrument at a funding
  time, not once.
* `shared_cache` - two invocations that fetch one request share a temporary file;
  a partial file is published with a matching checksum and accepted ever after.

The others were met while modelling; the model does what the code does.

* `calendar.rs:11` says "09:30-16:00 America/New_York"; the code uses a fixed
  offset of five hours (`calendar.rs:43`, `154`), as does `forex_245`, so that from
  March to November each session opens and closes an hour late: at 13:35 UTC of a
  summer's weekday the exchange is open and the events are dropped, at 20:30 UTC it
  is closed and they are replayed. `data/README.md:51` promises "US regular hours", and
  `calendar.rs:13` New York's for forex. `SessionIsReplayed` and `SessionHoursLag` state the lag.
* `types.rs:57` says that a stop-limit "triggers at stop price, then rests as
  limit". That it has triggered is not recorded: both its conditions must hold
  at one poll (`execution/fills.rs:707-716`).
* A resting stop looks at the ranges of bars only (`execution/fills.rs:693`),
  which every trade and quote clears, so that a stop order of a tick replay
  never fills.
* `trading/protocol.md:138-142` says that orders are held until the next market
  update of their instrument and, without one, stay pending rather than fill against
  their submission bar; so does `docs/ALGO_TESTING.md:48-49`. A status record of a
  tick replay breaks this. It releases the deferred intents of its instrument
  (`backtest/runner.rs:362-375`) and polls, and leaves the high and low of the
  submission bar in the row (`state/market.rs:154-156`): a stop that was deferred, or a
  limit, is placed and filled against the bar that its strategy had seen whole. The
  other events without a price do less: a timer and an event of another instrument
  release nothing of this one, and a stop of the final callback is placed at once and
  fills on the range of the last bar (`engine/sync.rs:268-294`).
* `DATABENTO_ENGINE_LIMITS.md:19` promises an estimate before every paid
  request; with the raw data cached, definitions are fetched without one
  (`data/databento.rs:590`, `614-626`).
* The comments at `backtest/runner.rs:103` and `130` say that the cancel flag is
  looked at every 1024 bars; it is every 64 (424).
* `metrics/performance.rs:134` says that streamed figures match those of the
  curve; a return on an equity of zero counts as zero in one (218) and not at
  all in the other (80). `MetricsAgree` states what does match.

Behaviour that no document speaks of, and that a reader should know:

* Two loads that write one sidecar at once can leave a hole of zeros in a file of
  the right length, which is then read as bars; so can a csv that is changed
  within the resolution of the clock, or replaced by an older file, leave a
  sidecar that looks fresh. `LoadIsCurrent` excludes these cases (`clash`).
* No reader checks that the close of a bar lies within its range. A bar for which
  it does not can hide an order from the poll that the fill rules would fill.
* Liquidation and exercise emit no fill: the trade ledger and the positions of
  the strategies stay open. The profit of a report is measured from the first
  equity sample, not from the initial balance.
* Fill records use the contract multiplier of every instrument
  (`state/account.rs:97-110`), while cash and valuation ignore it for equities,
  crypto, forex and hybrids. The configuration lets one through for any class
  (`backtest/config.rs:349-353`, `370-387`), and the realized profit of a report is
  then overstated by it; `LedgerExplainsEquity` says by how much.
* `MaxPositionCheck` looks at the position when an intent is accepted. Two orders that
  rest may fill later and exceed the limit together, as `OnlyPollsExceedLimit` allows.
* Cancel-all and flatten leave the deferred intents of earlier bars; and intents
  that were deferred before a pause are still placed if the risk engine lacks
  `PauseCheck`.
* An L2 snapshot is never cleared by newer trades and quotes.
* `pallas-resample` does not check that bars it is given are in time order; a
  default margin rate of the configuration does not reach extra instruments.

## 7. What is not modelled

* *In modelled components*: orders against an L2 snapshot and fill models other
  than the touch-cross one; account events that a data file or a recorded stream
  carries, and a daily loss limit on a live stream (`LiveInit` starts without an anchor);
  instruments that share a base asset and forex crosses (`BasesAssumption`
  excludes them); the full-book poll and the counts of the order store; the
  rejection log; what the inspection file says and how records are converted in
  the Databento cache; what a row of the sweep's table says of a report;
  progress hooks; rounding of `f64` and of `Decimal` divisions.
* *Out of scope*: parsing of rows, time stamps and configuration, file layout,
  report layout, command lines and the CMake call have no state that later steps
  change. That jobs of one sweep may build one C++ strategy in a shared directory
  is a hazard of CMake's behaviour and not of this code alone.
* *Out of reach*: the Sharpe and Sortino ratios and the inference of periods per
  year are floating-point statistics; what they are functions of is compared
  instead.
