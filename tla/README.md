# A TLA+ model of the Steam market pipeline

The repository polls Steam's community market within a request budget, keeps every
answer in Kafka, derives price changes from the answers, lands both streams in an
object store, and computes marts, anomalies, alerts and a dashboard from the lake. This
directory holds TLA+ modules for the parts of it whose correctness depends on order,
failure and interleaving, the TLC configurations that check them on small instances,
and proofs that hold for every instance.

All paths below are relative to the repository's root.

## 1. The system

| Component | State it keeps | Operations | Modelled in |
|---|---|---|---|
| Token bucket (`ingest/ratelimit.py` 42-92) | tokens, instant of the last refill, current rate, hour of a reduction | `_refill`, `acquire`, `reduce_for_rest_of_hour` | `TokenBucket`, `RateBudget`, `SteamMeter` |
| Circuit breaker (`ingest/ratelimit.py` 95-153) | consecutive 429s, end of the halt, manual-restart flag | `check`, `record_success`, `record_429`, `record_403`, `record_ban_shaped_response` | `CircuitBreaker` |
| Steam client (`ingest/client.py`) | per call: attempt | `get_json` | `SteamClient`, `MarketClient` |
| Lake writers (`streaming/bronze_writer.py`, `silver_writer.py`) | buffers per partition, time of the last flush, consumer position and committed offset | `run_forever`, `_flush_all`, `_flush_partition`, `start`, `stop` | `LakeWriter`, `AckedStore` |
| CDC job (`streaming/cdc_job.py`) | per key: last value of each field, money domain, time; checkpoint | `normalize*`, `detect_changes`, `build_change_stream`, `run` | `CdcJob` |
| Money and depth arithmetic (`streaming/money.py`, `depth.py`, and their ports in `dbt/macros`) | none | price and volume parsing, spread, depth within a percentage | `Money`, `Depth` |
| Tiered scheduler (`ingest/scheduler.py`) | priority queue, sweep's item list | tier loops, `_enqueue`, `_dispatch_loop` | `Scheduler` |
| Envelope publisher (`ingest/kafka_producer.py`, `schemas.py`, `endpoints/*`) | the producer | `publish` | as `Produce`, `Publish` and the stages of a job in `Scheduler` |
| Bucket-id resolver (`ingest/nameid_resolver.py`) | cache and its file | `resolve`, `seed_from_search_render_result` | `Resolver` |
| FX rates and the poll in four currencies (`ingest/fx_rates.py`, `scripts/fx_poll.py`) | cache by date and its file; position in the watchlist | `fetch` (nothing in the repository calls it), the script's loop, the ASOF baseline of its polls | `FxRates`, `FxPoll` |
| Batch DAG, alerts, dashboard export (`airflow/dags/…`, `analytics/export_to_grafana.py`, `quality/alerting.py`) | task states, marts, dashboard tables | task chain, retries, trigger rules | `BatchDag` |
| Quality gates (`quality/expectations/…`) | none | pass or fail | a guard of `BatchDag` |
| Anomaly detectors (`analytics/anomaly.py`) | none | four detectors over the daily and the book marts; `main` writes `mart_anomaly` | `Anomaly`; `main` in `BatchDag` |
| dbt models, macros and tests | tables | SQL | what a mart is built from, the referential and the grain tests, in `BatchDag` and `Pipeline`; two macros in `Money` and `Depth`; the FX join in `FxPoll` |
| The lake between writer and batch | Bronze | files land while runs read | `Pipeline` |
| One-off scripts, Grafana and compose files | none | | no |

How they interact. The scheduler's dispatcher (and its Tier C loop, around the queue)
calls the endpoint functions, which call `get_json` and then publish an envelope to
`market.raw.v1`. The Bronze writer and the CDC job both read that topic; the CDC job
writes `market.changes.v1`, which the Silver writer reads. dbt reads Bronze and
Silver; the batch DAG runs dbt, the gates, the detectors and the export. Coroutines
of the scheduler share one bucket and one breaker; separate processes (such as
`scripts/fx_poll.py`) share nothing but Steam's patience.

What is hard about it:

* `get_json` suspends between its check of the breaker and its request, and again
  between retries; whatever it checked may have changed when it wakes.
* The bucket is lazy: time turns into credit only when somebody refills, at the rate
  of that moment, which 429s and the top of the hour change.
* A lake writer flushes several partitions and then commits the *consumer's*
  position; kills and failing puts fall between any two of those steps, and `stop()`
  runs after every exception.
* The CDC job keeps its money domain per key and its values per field, diffs rows in
  the order frames bring them, and publishes events before its state is committed.
* The scheduler's dispatcher swallows every exception, the breaker's among them, while
  Tier C's loop calls the client around the queue and dies of the same exception; the
  resolver rewrites its file in place after every change.
* The batch replaces marts before it tests them, retries tasks that were half done,
  goes on after failures where a trigger rule says so, reads a Bronze that grows
  meanwhile, and may be triggered again before it is over.
* The detectors run over the whole history every day, while its last day is still
  being polled and rows of days that are over still land; a baseline that took in its own
  day, another currency or another weekday would still look like one.
* Warnings take the place of errors: a read that raises is logged and its table skipped,
  an answer that cannot be used is a row that some models drop, and the run goes on to
  report a success.
* Prices, books and rates are read in two languages, with separators that mean
  different things in different currencies and arrays that begin at 0 and at 1.

What makes each component correct, in a sentence: the bucket never lets through more
than a full bucket and the configured rate pay for; an open breaker stops traffic and
ends when it should; nothing is committed that is not in the lake; events compare prices
of one currency wherever rows have their prices, and what the feed of changes says agrees with the state it
was computed from; nothing that was learnt is asked for twice, and the watchlist goes
first; the dashboard never shows parts that contradict each other but for tables that a run
skipped, and every run of the batch is reported as it went; what was acknowledged is on
the dashboard once a run says so, as far as the warehouse makes anything of it, and no
record counts twice there unnoticed; a verdict on a day depends on that day and on what
lay before it. `PROJECT.json` lists the hazards behind these, line by line.

## 2. Modules

### 2.1 Requests to Steam

`TokenBucket` and `CircuitBreaker` hold the steps of the two classes in
`ratelimit.py`; `SteamClient` EXTENDS both and adds the coroutines.

* **Time** is relative. The code reads two clocks; `elapsed` is the ticks since
  `_last_refill`, `hourLeft` the ticks to the top of the wall-clock hour, `halt` the
  ticks left of `_halt_until` (−1 for `None`, 0 for "over, but nobody has checked").
  `reducedUntil` says whether a reduction is of this hour or of one past. Credit is
  counted in units, `Unit` of them to a token, so that fractions of a token exist.
* **Actions.** asyncio switches coroutines only where `get_json` suspends: asleep for
  a token (`tokenWait`), waiting for the response (`sent`), asleep before a retry
  (`backoff`). Each action is the code from one suspension to the next: `Call` and
  `WakeForRetry` run `check` and one pass of `acquire`; `WakeForToken` runs `acquire`
  alone, which is the interesting part; `Respond` classifies an answer in the order of
  the code. The bucket's lock is never held across a suspension that another
  coroutine could meet, so it does not appear.
* `Tick` waits until nothing is due: the loop runs a timer that has expired before it
  lets time pass, and httpx's timeout bounds `sent`.
* `leaked` is a history variable that counts each caller's requests since the breaker
  opened.

`RateBudget` is the abstract account: it earns at most `BaseRate` a tick, may lose
credit, and pays `Unit` a request. `SteamMeter` adds a meter to the client (two
history variables, and windows that open anywhere) and states that client and meter
implement `RateBudget` with `level <- Credit`, the credit that a refill would find.

`MarketClient` is what is left of the client for those who call it: who waits for an
answer (`asking`), and whether the breaker is closed, halted or banned. `SteamClient`
is shown to implement it (`KeepsContract`), and the scheduler is built on it.

### 2.2 The scheduler

`Scheduler` EXTENDS `MarketClient` and `Resolver`. The client has two callers in this
program, the dispatcher and Tier C's loop (`_catalog_total_count`), which are
`Dispatcher` and `TierCLoop` here. `queue` holds the jobs of each tier in order: heap
order with a sequence number is a queue per tier, and `IsNext` takes the first tier
that has a job. `stage` says where the job in hand is: waiting for the bucket page, for
the endpoint's answer, or for the producer. Tiers are untimed: a sweep may begin
whenever the loop could be past its sleep, which contains every choice of intervals.
With the breaker open each `Take` ends at once; that the code drains the queue without
suspending in between is one of the interleavings. A raise in a tier loop ends the
process (`CountRaises`), as `run` gathers the loops; `Kill` and `Restart` do the same
from outside. A restarted process has a new breaker, an empty queue and what the file
holds.

`Resolver` keeps the ids as the set of items that are known, in memory (`cache`) and in
the file (`file`, `torn` when a kill left it cut). `learnt` in `Scheduler` is a history
variable: what any run of the process has learnt since the file was last lost.

### 2.3 The lake

`LakeWriter` models Bronze and Silver writers alike: they differ only in partition
key and columns. A record is its offset; `buffers`, `position`, `committed` are the
code's, `copies` counts the files that hold a record. `Consume` is one turn of
`run_forever`; the timer's comparison is a choice in it, because that is the only
place where the code reads the clock. A flush is one action per file and one for the
commit. `PutFails` is an exception in `_flush_partition`, with or without the object
stored; `CommitFails` and `Interrupt` are the other ways into `main`'s `finally`,
which runs `stop()` (a flush with `stopping` set). `Kill` loses memory; `Restart`
resumes at the committed offset. `AckedStore` is the promise: what is acknowledged
has landed or was in a file that the lake refused, and none of the three is taken
back.

### 2.4 Changes

`CdcJob` models one key, as keys share nothing. `Rows` is the set of rows that
`normalize` can make: which endpoint carries which field, where the currency comes
from, and that an error page yields a row without values. `Conflict`, `Moves` and
`NextState` are the three decisions of `detect_changes`. The engine around it is
external: a batch is a range of offsets recorded before it runs (`PlanBatch`), its
rows arrive in frames cut anywhere (`TakeFrame`), rows of a frame are sorted by
`observed_at` (`DetectRow`), events are written one by one (`WriteEvent`) before
batch and state are committed (`CommitBatch`), and a batch that was not committed
runs again over the same offsets (`Restart`). `LoseCheckpoint` takes offsets and state
away while the job is down, as a new container does: the topic is then read from its
beginning, beside the events that are already out. Two components of the state, `origin`
and `told`, are history.

### 2.5 The batch

`BatchDag` models runs of the DAG from their trigger to `publish_alerts`. The tasks are
a chain, so a run is a place in `Chain`; `retried`, `failed` and `NextAllDone` are
Airflow's retries and trigger rules. Bronze is a sequence of rows that only grows, by the
rows of a whole file at a time (`Land`); staging and intermediate models are views of it,
so a table is described by the run that built it, by how much of Bronze it covers, and by
whether a `dbt_test_marts` has passed it since (`Contents`).

A row stands for an answer of Steam. It has its endpoint; the items of the facts that the
models make of it (`items`, empty where staging drops the row, `stg_orderbook.sql:40`, or
where no bucket map has its order book, `int_item_resolved.sql:6-9`); whether there is a
price in it; and the gates that reject it (`flaws`). `Feeds` says which tables get anything
of a row: all facts are price observations, but `dim_item` is built from search pages only
(`stg_item_attributes.sql:8`) and `mart_item_daily` from rows with a price. So a price of an
item that no search page has listed is an orphan, and `dbt_test_marts` rejects it
(`FactsHaveItems`, `Listed`) however long its gate has known it.

dbt builds the marts one by one, in any order that respects their references, each from
the Bronze of its moment (`BuildMart`). `sync_dashboard` reads all tables and skips those
whose read raises, for whatever reason (`ReadMarts`: any set of them may be skipped, and
the task still succeeds; `unsynced` is what it holds), and then replaces the dashboard's
one by one (`WriteTable`); a task can die between any two of these. An attempt fails if the
data is such that it must (`Accepts`) or if the warehouse is locked (`Opens`: DuckDB lets
one process write or several read), and it may fail for any other reason (`Fault`).
`dim_item` is built from the snapshot, so it covers the search pages in the Bronze of
`dbt_snapshot` and not those of its own building. Two marts that behave like
`fct_orderbook_snapshot` and that nothing reads are left out. `skipped` and `aside` are
history: the tables that a run's syncs skipped, and whether the anomalies on the dashboard
come from a run that had skipped the daily mart.

`BatchDag` has no fairness and no liveness: that every run is reported is the invariant
`RunsAreReported`, about runs that are over.

### 2.6 From the topic to the dashboard

`Pipeline` puts a `LakeWriter` and a `BatchDag` around the lake that they share. Both are
instances over the same variables: the writer's put of a file and the batch's `Land` are
one step (`LandFile`, and `PutFails` when the object was stored all the same), and every
other step is of one of the two while the other waits. `origin` says of which record each
row of Bronze is, and `acked` is the committed offset when a run passed its gate. `Content`
is the row that each record makes, any row of `BatchDag`: that includes order books without
a bucket map and error texts, of which the warehouse makes nothing. No model removes second
copies: what a record gives the marts its copy gives them again, and where that breaks the
grain of one of them (`RowOf`) a test, `assert_no_duplicate_grain_fct_*.sql` among those of
`dbt_test_marts`, rejects it. A record that feeds no mart breaks no grain and may be in
Bronze any number of times unnoticed; `SuccessIsExact` is about the others.

### 2.7 Reading, detecting, converting

Four parts around the analysis keep next to no state; their modules have variables for
what comes in and properties over everything that can.

* `Money` is `parse_price_string` and `parse_volume_string` beside their SQL ports. A
  text is a sequence of digits, separators and one sign for everything else;
  `CURRENCY_NUMBER_FORMATS` is the table `Formats`. `Displays` is how the answers in
  `tests/fixtures/currency_probe_extended.json` write an amount: grouped or not, and with
  decimals or, of whole amounts, without, in every currency, those among them that the table
  has no decimal separator for.
* `Depth` is spread and depth beside the macro, on every side of a book of up to three
  levels, as the flat arrays in which books arrive. The mid price is kept doubled, so
  that half cents need no fractions.
* `Anomaly` is the four detectors over sets of rows. A price is an integer logarithm, and
  a z-score is compared by squares, so the statistics are exact and nothing is rounded.
  A day's row is made, or made anew, by whatever lands of that day, at any time: while it
  is polled, when the writer flushes what it held past midnight, when a replay or a backlog
  comes in days later (`Observe`); snapshots land in any order (`Snapshot`). The mart is a
  function of the history (`MartAnomaly`), as `main` recomputes it.
* `FxRates` is the cache with its file: a rate is named by the date on which it was
  published, requests may come before publication, kills may fall in the rewrite of the
  file. `FxPoll` is the script, item by item and currency by currency, with refusals,
  exceptions, kills, resumes and midnights, and what the ASOF join of
  `mart_cross_currency_dislocation.sql` pairs in its polls.

`MCAnalysis` is one instance of the five, which share nothing: its next-state relation
lets one move only while the others are at their beginning, so TLC visits the sum of
their states. `MCBatchDag` and `MCPipeline` choose
the rows of their instances; the other `MC*` modules only add a symmetry set.

## 3. What TLC checks

Passing runs:

| Run | Properties | Shows |
|---|---|---|
| `client_shared` | `TypeOK`, `LeakBound`, `TripIsHeld`, `ReductionIsTemporary`, `WindowBound`, `HaltNotCutShort`, `KeepsContract`, `KeepsBudget` | Three coroutines under a meter, every interleaving of their suspensions: an open breaker lets at most one request per caller through, and none of the caller that opened it; a counter at the threshold always has its halt; a reduced rate always has its restoration pending; no late answer shortens a halt; a window's requests cost at most a full bucket and what the window earns; and the client implements `MarketClient` and `RateBudget`. |
| `client_live` | `HaltEnds`, `BanIsFinal`, `CallReturns` | The leaks through an open breaker cannot renew a halt for ever; a ban ends traffic for good although its window elapses; a call returns unless others keep taking the tokens that it waits for. |
| `scheduler` | `TypeOK`, `NeverAskedTwice`, `WatchlistIsServed` | Through open breakers, failing jobs, kills and restarts, no bucket page is asked for an item whose id was ever learnt, and while the process runs the dispatcher comes back to the watchlist. |
| `writer` | `TypeOK`, `OnlyRefusedFilesAreLost`, `OneCopyPerStart`, `KeepsPromise`, `FullBuffersLand` | No kill, interrupt or failed commit loses a record, and a put that raises loses only the records of its file; a record has at most as many copies as the process had starts; a record followed by enough others of its partition is put. |
| `cdc_steady` | `TypeOK`, `MixesNeedGaps`, `FeedAgreesAtCommit` | Rows that may lack any price: an event mixes money domains only if a row of the later domain lacked the field; after any crash and rerun in any frame order, and after a rebuild from an empty checkpoint, the feed agrees with the committed state. |
| `batch` | `TypeOK`, `ShownIsGated`, `GatedFactsResolve`, `AnomaliesAreTested`, `DashboardIsCoherent`, `SuccessIsShown`, `RunsAreReported` | Two runs that may overlap, tasks that die halfway, syncs that skip tables, rows that land in between: only marts of gated runs are shown; an orphan in the referential test is never of an item that a search page lists which the gate had seen; anomalies come from tested marts if runs do not overlap; the dashboard has no anomalies of days that its daily mart lacks, unless their run had skipped the daily mart; a run reported as successful has brought the tables it did not skip up to its gate, and no other run takes them back; a run that is over has been reported as it went. |
| `pipeline` | `SuccessIsComplete`, `SuccessIsExact` | A writer that is killed, interrupted or refused anywhere, beside a run of the batch: what was acknowledged when a successful run passed its gate is in every table of the dashboard that it feeds and that the run did not skip, unless its file was refused; and no record of which the warehouse makes anything is twice among the rows of a successful run's gate. |
| `analysis` | `PricesReadBack`, `ParsersAgree`, `DepthFollowsSpread`, `PortAgrees`, `VerdictsLookBack`, `GroupsStandAlone`, `JumpsAreFound`, `OwnBaseline`, `RatesHoldOnTheirDate` | Displayed prices are read back, in the three currencies on record without decimals a hundredfold when they have some, and stream and warehouse read any text alike; spread and depth tell of the same book, in Python and in SQL; whatever lands, and however late, a verdict changes only with its own row or an earlier one of its series, it depends on its own group only, and a rise beyond everything before it is found; a price is compared with the dollar price of its own pass; and a rate filed under a date is the one that held on it, but for the documented fallback. |

Runs that are expected to fail. Each states something that a document or a comment
says of the program, and TLC finds a behaviour of the code that contradicts it:

| Run | Property | What the counterexample shows |
|---|---|---|
| `scheduler_halt` | `HaltPausesSweeps` | The dispatcher swallows `CircuitOpenError` with every other exception and takes the next job, so an open breaker empties the queue without a request (against `client.py:61-62`). |
| `writer_lost` | `CommittedIsDurable` | The buffer is popped before the put; the put raises; `stop()` commits past the lost records (against docs/DECISIONS.md:346-347). |
| `cdc_gap` | `PricesAreComparable` | A row of another domain without a price moves the domain and keeps the old price; the next row is diffed across currencies (against docs/DECISIONS.md:770-771). |
| `batch_untested` | `UntestedStaysHidden` | `dbt_run_marts` replaces the marts, `dbt_test_marts` rejects them twice, and `sync_dashboard`, which runs whatever failed, copies them (against `steam_market_batch.py:8,34-36`). |

More of what the code does is in the models and is worth knowing:

* A caller that has passed its check and sleeps for a token sends although another has
  opened the breaker meanwhile, so a halt does not stop all traffic at once as
  README.md:121 reads; `LeakBound` is what the code guarantees instead.
* The flush timer is compared only when a message arrives, so the last records of a topic
  that goes quiet stay in memory (against `bronze_writer.py:4`); that is why
  `FullBuffersLand` speaks of records that are followed by others.
* With a configured rate below 0.01 a 429 raises the rate (`ratelimit.py:76`).
* Prices in JPY, IDR and UAH do come with decimals
  (`tests/fixtures/currency_probe_extended.json:69,79,99`), for which
  `CURRENCY_NUMBER_FORMATS` has no separator: both parsers drop it and read a hundred times
  the price, where `money.py:5-6` says "never silently misparse a price".
  `PricesReadBack` states exactly that.
* `read_marts` skips a table that cannot be read for any reason, where its docstring
  (`export_to_grafana.py:72-75`) speaks of tables that do not exist yet. The sync succeeds,
  the run is reported "completed with no failed tasks", and the dashboard keeps the old
  table, perhaps an old daily mart under new anomalies. `SuccessIsShown` and
  `DashboardIsCoherent` except the skipped tables for that reason.
* A price or an order book of an item that no search page has listed is an orphan:
  `dbt_test_marts` fails on it in every run until a page lists the item, and the
  watchlist and `fx_poll` poll items whether one has or not.
* A kill between a file and its commit lands records twice. No model of the warehouse
  drops second copies, so from then on `dbt_test_marts` fails in every run, unless the
  record feeds no mart: `SuccessIsExact` holds because there is no further success.
* A rerun and a lost checkpoint emit events again, which `fct_price_change.sql:2` calls
  "Already deduplicated".
* A row that comes a batch late emits an event that goes back in time.
* A rate that was asked for before the day's rates were published stays under that day.
* `schemas.py:105` calls the second number of each pair of a book `cum_qty`; `depth.py`,
  the macro and `Depth` take it as what rests at that price.
* Where no level lies in a band, `depth_within_pct` gives 0 in Python and NULL in SQL;
  `PortAgrees` has this as its one exception.

Every property of a passing run has a mutant beside the definition it alters (its
comment begins with "Mutant"): a plausible slip in that code, with which TLC finds the
property violated. No specification uses the mutants.

### Bounds

* *Requests.* Three callers are enough for one to be asleep for a token, one in flight
  and one between retries at once. A token takes two ticks to earn at the base rate
  and four at the reduced one, so both roundings of the wait occur; halts outlast
  every sleep and an hour is shorter than a halt, so reductions end inside halts.
  `client_live` has two callers and the deployed thresholds (three 429s, three
  retries). `MaxRetries`, `Threshold`, the delays and the windows bound every counter;
  the model needs no bound of its own except `WindowLen` in `SteamMeter`.
* *Scheduler.* Two items of which one is watched, two apps, a Tier B sweep of one page
  and catalogues of up to two (`MaxPages`), and a queue of two jobs per tier
  (`MaxQueue`): a watched item that a sweep teaches, one that
  only its page teaches, a Tier A job that arrives behind sweeps, and a count that
  fails between two apps.
* *Writer.* Two partitions, a threshold of two, four records (`MaxLog`) and three
  starts (`MaxStarts`): a flush with two files, a record that is lost, landed or both
  on either side of a kill, and a second kill during the replay. `MaxStarts` also
  bounds failures, which each end in a restart.
* *CDC.* Three rows of a key (`MaxRows`), two instants (`MaxTime`), two fields either of
  which a row may lack (`Lackable`), two values, one requested and one reported currency,
  one crash (`MaxCrashes`). Three rows are what
  it takes to set a baseline, disturb it and diff against it.
* *Pipeline.* Two partitions, a threshold of two, three records (`MaxLog`: a search page,
  an order book that no bucket map has, a price), two starts of
  the writer (`MaxStarts`) and a run of the batch without failures of its own
  (`MaxFails` = 0): a flush that is cut between two files, the copy that lands before the
  gate, between gate and marts, or after the run, and a refused file. Section 4 proves
  both properties for any bounds and any number of runs.
* *Analysis.* Amounts up to 12.00 and seven large ones that reach two thousands
  separators; texts of up to five characters (`MaxText`) over two digits, the three
  separators and a sign; books of up to three levels (`MaxLevels`) with prices on, just
  inside and outside the three bands. Five days (`MaxDays`) whose rows land in any order,
  one domain each, with a window of two and a week of two days: a row leaves the window,
  each weekday has its baseline, and a day lands behind days that have their verdict; five
  snapshots (`MaxSnapshots`). Two items, three days of which one has no
  rate, two starts of the script and one answer without a price (`MaxUnpriced`); four
  dates (`MaxDate`) for the cache, so that weekends, late publications and fallbacks
  meet.
* *Batch.* Two runs, and two rows (`MaxRows`) of three of one item, no row twice
  (`DistinctRows`): a search page that lists it, a price of it, a price that the staging
  tests reject; and one failure of an attempt that could have succeeded, or one sync that
  skips tables (`MaxFails`), beside any number of failures on rejected data or a locked
  warehouse. A row that a gate has seen and one that lands behind it, a price before and
  after its page, and an attempt that dies halfway with the other run in the gap before the
  retry are what the properties tell apart. Nothing here depends on the bounds: section 4
  proves each of the run's properties without them.

`CHECK_DEADLOCK FALSE` is given for the writer, the CDC job, the batch, the pipeline and
the analysis only: their topics are bounded, and a consumer that has read everything
rightly waits; when Bronze is full and all runs are over the batch is done; and a
history, a script or a book ends at its bound. The client's and the
scheduler's runs check for deadlock.

### Fairness

* `SteamClient!FairSpec`: time passes, and a caller that is due is resumed, answered
  or timed out. That is the event loop plus httpx's timeout. Nothing obliges anybody
  to call, and nothing is assumed about which of several sleepers wakes first; that
  is why `CallReturns` promises a return only if the other callers are, from some
  moment on, idle.
* `Scheduler!FairSpec`: the loop resumes the dispatcher, and each of its awaits ends:
  a request by `CallReturns`, a publication by the producer's own timeout. No fairness
  for sweeps, kills, restarts, or the end of a halt.
* `LakeWriter!FairSpec`: the loop runs while the process does, and a dead process is
  started again. No fairness for the producer, for failures, or for the timer.

## 4. What is proved

The proofs hold for all values of the constants that satisfy the named assumptions:
any number of callers, rates, thresholds and delays, any partitions, topics, fields
and currencies, any number of runs and length of Bronze, any history of prices, any
amount, text and order book.

| Theorem | Says | Further assumption |
|---|---|---|
| `RateBudget!WindowIsBounded` | the account bounds every window | `BudgetConstants` |
| `SteamClientProofs!TypeCorrect` | `[]TypeOK` | |
| `SteamClientProofs!LeakIsBounded` | `[]LeakBound` | |
| `SteamClientProofs!TripIsAlwaysHeld` | `[]TripIsHeld` | |
| `SteamClientProofs!ReductionsEnd` | `[]ReductionIsTemporary` | |
| `SteamClientProofs!HaltRunsItsCourse` | `HaltNotCutShort` | the 429 and 403 windows are of one length (as configured) |
| `SteamClientProofs!ClientKeepsContract` | the client implements `MarketClient` | |
| `SteamClientProofs!ClientKeepsBudget` | the client implements `RateBudget` | `FloorBelowCeiling` |
| `SteamClientProofs!TrafficIsBounded` | `[]WindowBound` | `FloorBelowCeiling` |
| `LakeWriterProofs!TypeCorrect` | `[]TypeOK` | |
| `LakeWriterProofs!OnlyRefusedLost` | `[]OnlyRefusedFilesAreLost` | |
| `LakeWriterProofs!CommitsAreDurable` | `[](dropped = {} => CommittedIsDurable)` | |
| `LakeWriterProofs!WriterKeepsPromise` | the writer implements `AckedStore` | |
| `LakeWriterProofs!DuplicatesNeedRestarts` | `[]OneCopyPerStart` | |
| `CdcJobProofs!TypeCorrect` | `[]TypeOK` | |
| `CdcJobProofs!MixesAlwaysNeedGaps` | `[]MixesNeedGaps` | |
| `CdcJobProofs!FeedAgrees` | `[]FeedAgreesAtCommit` | |
| `SchedulerProofs!TypeCorrect` | `[]TypeOK` | |
| `SchedulerProofs!PagesAreAskedOnce` | `[]NeverAskedTwice` | |
| `BatchDagProofs!TypeCorrect` | `[]TypeOK` | |
| `BatchDagProofs!DashboardStaysCoherent` | `[]DashboardIsCoherent` | |
| `BatchDagProofs!OnlyGatedIsShown` | `[]ShownIsGated` | |
| `BatchDagProofs!SuccessStaysShown` | `[]SuccessIsShown` | |
| `BatchDagProofs!GatedFactsAlwaysResolve` | `[]GatedFactsResolve` | |
| `BatchDagProofs!AnomaliesStayTested` | `[]AnomaliesAreTested` | |
| `BatchDagProofs!EveryRunIsReported` | `[]RunsAreReported` | |
| `BatchDagProofs!SuccessStaysClean` | `[]SuccessIsClean`: no row that `dbt_test_marts` rejects is in the gate of a successful run | |
| `PipelineProofs!WriterIsItself`, `BatchIsItself` | every behaviour of `Pipeline` is one of `LakeWriter` and one of `BatchDag` | |
| `PipelineProofs!AcknowledgedIsShown` | `[]SuccessIsComplete` | |
| `PipelineProofs!CopiesAreReported` | `[]SuccessIsExact` | |
| `AnalysisProofs!TypeCorrect` | `[]TypeOK`: one row per day and domain | |
| `AnalysisProofs!VerdictsAlwaysLookBack` | `VerdictsLookBack` | |
| `AnalysisProofs!GroupsAlwaysStandAlone` | `[]GroupsStandAlone` | |
| `AnalysisProofs!JumpsAlwaysFound` | `[]JumpsAreFound` | |
| `AnalysisProofs!PricesAlwaysReadBack` | `[]PricesReadBack` | |
| `AnalysisProofs!ParsersAlwaysAgree` | `[]ParsersAgree` | |
| `AnalysisProofs!PortAlwaysAgrees` | `[]PortAgrees` | |
| `AnalysisProofs!DepthAlwaysFollowsSpread` | `[]DepthFollowsSpread` | |
| `AnalysisProofs!RatesAlwaysHold` | `[]RatesHoldOnTheirDate` | |
| `AnalysisProofs!BaselineIsOwn` | `[]OwnBaseline` | |

The extra assumptions are of the configuration, and the code needs them. What is excepted
is in the properties themselves: a file that the lake refused (`writer_lost` shows what it
does), a row that lacks a price (`cdc_gap`), a table that a sync skipped, a record of which
the warehouse makes nothing, a price with decimals that its currency has none for.

The inductive invariants:

* *Leaks.* A request through an open breaker needs a caller that passed its check
  before. So the invariant (`LeakInv`) says where a caller with a leak may be: it has
  sent, or it is out, or it sleeps before a retry that will check again. It is not
  asleep for a token, and that is what bounds the leak by one.
* *Budget.* Credit is spent once: `spent + level <= Capacity + ticks * BaseRate`, and
  the rate in force is never above the configured one, which needs the floor to be
  below it.
* *Loss.* `LossInv`: every record before the consumer's position is in the lake, in a
  buffer or dropped; while a flush runs, every non-empty buffer is still to be
  visited; and outside a running process the position is irrelevant. The commit takes
  the position when nothing is pending, hence when every buffer is empty.
* *Copies.* `CopyInv`: a buffered record has fewer copies than starts, no record is
  buffered twice, and nothing at or beyond the position is buffered.
* *Domains.* `DomainInv`: for each field that has a value, the domain from which the value
  was read is the key's current domain, or the topic has a row of the current domain that
  lacks the field (`Coherent`); this is so in the committed state and in the running one,
  and every event waiting or written is explained in the same way. The row that moves the
  domain without the field is the gap itself, and rows are never taken back, so no rerun
  loses an explanation. It needs no assumption about the source, and with it
  `PricesAreComparable` follows wherever rows have their prices.
* *Pages.* `OnceInv`: in a running process memory and file agree and hold everything
  that was learnt (`FileKeepsUp`), and a page that is being waited for is of an item
  that memory lacks (`PageIsNeeded`). Saving after every change, before the handler
  suspends, is what keeps the first; the single dispatcher keeps the second.
* *Feed.* `FeedInv` relates the committed state to the topic of events through a batch
  that may have died anywhere: if no row of the batch in hand differs from the saved value
  of a field that an event has brought there, the field's last event has that value, and
  the batch emits nothing for it; if one does, the batch will emit again, and its last
  event will have the value of the working state. It rests on a batch running again over
  the same offsets.
* *Dashboard.* `DashInv`: tables of the warehouse never go back to less of Bronze;
  nobody changes one while a run synchronises, so what the run has read is what is there;
  and its daily mart is written before its anomalies. That is where DuckDB's lock and the
  order of `MART_TABLES` are needed.
* *Gate.* `GateInv`: only a run past its staging tests builds, so every table, in the
  warehouse or the dashboard, is of a run whose gate has seen some Bronze.
* *Success.* `Progress(r)`: as long as nothing of the run failed, each task it has passed
  has left tables that cover the Bronze of its gate. Other runs cannot take that back,
  because tables, snapshot and dashboard only grow. `FailedAreLate` says that whoever is
  at `dbt_test_marts` is such a run.
* *Alone.* `AloneInv`: without overlap one run is active at a time, and at
  `detect_anomalies` it finds the marts as its tests left them.

* *Clean.* `CleanInv`: a run that has passed `dbt_test_marts` with nothing failed had
  tables that cover its gate (by `Progress`) and no row that the tests reject in them. A
  sync that skips tables is a task that succeeds, so `Progress` has to except `skipped` as
  well, from the sync on.

* *Rates.* `RatesInv`: a date that is filed without being early is over or published, in
  memory and in the file; only the current date can still be published, so its answer is
  final. Every date so far has an answer (`HasAnswers`), because the first has.
* *Poll.* `PollInv`: the topic is in the order of the script (by item, then start, dollars
  only first), and the script is past what is there. A start begins at the item it ended
  at and never before it, and that is where the order of the currencies is needed.

*Verdicts* need no invariant but the types (one row per day and domain): the baseline of
a row is a set of rows before it in its own group, those rows are the same in every mart
that differs in no earlier row of that group, and a detector sees nothing else. The proof shows this for the baselines
(`Prior`, `Trailing`, `SameWeekday`, `Before`) and takes the statistics over them as they
are, whatever they compute.

*Folds.* The other theorems of `AnalysisProofs` are about what folds over a window, a book
or a text compute, for windows, books and texts of any size. The library's induction
theorems take an operator and cannot be instantiated here, so `AnalysisProofs` begins
with an induction of its own: a set of naturals has a least element (`LeastNatural`, from
the library's well-founded relations), so a set that contains 0 and is closed under
successor up to `n` contains all of `0..n` (`ByCounting`), and what holds of the empty
set and survives the element that a choice function puts back holds of every finite set
(`ByRemoving`). With these a fold has the recursive equation it is defined by
(`FoldExists`), a sum is linear (`SumIsLinear`) and not below its terms (`SumDominates`),
and a text can be followed character by character (`KeepUnfolds`, `IntegralUnfolds`).

* *Jumps.* For a sample between `lo` and `hi`, with sum `s` and sum of squares `q`, the
  sum of `(hi - x) * (x - lo)` is not negative, which bounds `n * q - s * s` by
  `(n * hi - s) * (s - n * lo)`; the sum of `(n * x - s)` squared makes it positive unless
  the sample is constant (`Spreading`). A value `Threshold` ranges beyond `hi` is at
  least `Threshold` times the sum of the two factors from the mean, and the product of
  two numbers is at most a quarter of the square of their sum (`FarBeyond`). That is
  enough for the sample variance with its `n - 1`, because a sample that is not constant
  has two elements. `ReturnIsNumber` and `PriorIsFinite` see to it that the window is a
  sample: each of its rows has a row before it, and no two are of one day.
* *Prices.* Filtering commutes with concatenation (`KeepAll`) and composes (`KeepTwice`),
  so what the parser sees of a displayed price is its digits and its decimals, with the
  sign and the separators gone (`ThousandsGo`, `DisplayKept`, `GroupsAreDigits`); the
  digits of a number are read back as the number (`DigitsAreOf`, by induction over it); and
  the one decimal separator becomes the one point (`DecimalAmount`). This rests on the
  thousands' separator of a currency being another than its decimal one (`FormatFacts`),
  which is what the table `CURRENCY_NUMBER_FORMATS` must keep. Without a decimal separator
  the decimals join the digits before them (`DecimalsJoined`), and the amount is read as a
  hundred times itself.
* *Parsers.* With a decimal separator the macro and the function are the same expression,
  except for the empty text. Without one, what is left of a text after filtering is digits
  only, and has no point to be divided by (`WholeAmount`, `SameReading`).
* *Depth.* An order book holds whole levels (`OrdersInv`), finitely many and at least one,
  so there is a best price on a side (`Greatest`, `Least`); a band that holds any level
  holds the best one. A band without a level sums to 0 in one and is NULL in the other.

*Composition.* `PipelineProofs` does not prove writer and batch again. It instantiates
`LakeWriterProofs` and `BatchDagProofs` over the variables of `Pipeline`, shows that
every behaviour of `Pipeline` satisfies both specifications (`WriterIsItself`,
`BatchIsItself`; for the second, that a buffer's file is one of `BatchDag`'s `Files`,
which needs the writer's types and a bijection from places to records), and so has the
theorems of both. What it adds is the lake between them. `OriginInv`: the rows of Bronze
are of exactly the records that landed, each with the items of its record, and every row
but the first of a record that has any breaks a grain. `AckedInv`: what was acknowledged
when a run passed its gate was dropped, or is among the rows of that gate. At the gate
this is `OnlyRefusedFilesAreLost` and `OriginInv`; afterwards it stays, because rows
keep their place. `SuccessIsComplete` follows with `SuccessIsShown`, `SuccessIsExact`
with `SuccessIsClean`.

Only model-checked: liveness (`HaltEnds`, `BanIsFinal`, `CallReturns`,
`WatchlistIsServed`, `FullBuffersLand`), which the prover cannot reach. Every other
property of a passing run is a theorem.

## 5. What is not modelled

* The tiers' intervals and the rates at which jobs arrive: that Tier B asks for more in
  an hour than the bucket earns is arithmetic, not order.
* In `BatchDag` a row is what its answer gives the marts; SCD2 history, the values in a
  mart and the filter by app (`DASHBOARD_APP_IDS`) are left out, and dbt tests are taken at
  one moment each. The bucket map is a seed, of one checkout: that a later checkout
  resolves more order books is left out.
* Redirects: the client follows them (`client.py:39`), so one token may pay for two
  requests on the wire. `Attempt`, and with it `WindowBound` and `KeepsBudget`, count what
  the client asks for, not what a redirect adds.
* httpx's timeout is one per operation; that every request ends, which the liveness
  properties of the client use, takes it as one for the request.
* Malformed envelopes in a writer (`observed_at` that does not parse): the producer's
  model excludes them.
* Kafka itself: topics do not lose or duplicate what was published. The producer's
  retries are the library's. A rebalance of the consumer group, which sets the position
  back to the committed offset while the writer's buffers stay, is left out: with one,
  records would be in the lake twice without a restart, so `OneCopyPerStart` holds of a
  writer that is alone in its group and keeps its session.
* Rounding: prices have at most two decimals in `Money`, statistics are exact in
  `Anomaly`. Severity, explanation and rank of an anomaly are left out, and so are the
  values of exchange rates and with them the size of a dislocation.
* `total_volume` in `mart_item_daily.sql` adds up a volume that is already a count over 24
  hours, once per poll, so it grows with the number of polls; `Anomaly` takes a day's
  volume as given.
* Base and symbols of a request for exchange rates are not part of the cache's key
  (`fx_rates.py:51-54`), so a second caller with others would get the first one's rates.
  Nothing in the repository calls `fetch`; `FxRates` has one base and one set of symbols.
* Other writers of polls than one instance of `fx_poll.py` at a time (a second instance,
  the poll in dollars of `smoke_test.py`) in `OwnBaseline`.
* Two processes with a client each (`fx_poll` beside the scheduler): each keeps its own
  budget, so together they may spend two. No document says otherwise.
* The Silver writer's stream in `Pipeline`: it lands beside Bronze and feeds
  `fct_price_change`, which nothing downstream reads.
* Expectations of columns in `bronze_suite.py` and the freshness check; the remaining
  columns of the dbt models; `kafka_producer.py` and `schemas.py` but for the order of
  fetch and publish; dashboards and compose files: libraries, declarations and
  configuration.
* The scripts `recon.py`, `ratelimit.py`, `query_tuning.py` and `smoke_test.py`: sequential
  programs that are run by hand and keep no state.

## 6. How the modules build on each other

1. `TokenBucket`, `CircuitBreaker`, then `SteamClient` over both; `SteamMeter` adds a
   meter. `RateBudget` and `MarketClient` are what they implement.
2. `Resolver`, and `Scheduler` over it and `MarketClient`.
3. `LakeWriter` and `AckedStore`; `CdcJob`; `BatchDag`; and `Pipeline` over the writer and
   the batch.
4. `Money`, `Depth`, `Anomaly`, `FxPoll`, `FxRates`, which stand alone.

What could be added next: two clients under one meter, and an abstract specification of the
batch (a run publishes one version of all tables, or reports an error) and how far
`BatchDag` implements it.
