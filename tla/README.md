# A TLA+ model of ServicePortScanner

ServicePortScanner is a service-aware TCP port scanner in C++20: coroutines on
Boost.Asio do the scanning, a Qt 6 window and a command line drive it. This
directory holds its specifications: modules in TLA+, TLC configurations that
check them on small instances, and proofs that TLAPS checks for every instance.
Paths are relative to the repository (`src/` is its source directory); the
module comments and `PROJECT.json` name the lines each definition stands for,
with one more `src/` in front.

## 1. The system

### Components

| Component | Source | State | Operations |
|---|---|---|---|
| Async pool | `net/async_pool` | `running_`, work guard, one `io_context`, worker threads | `start`, `stop(force)`, destructor, `spawn` |
| Rate limiter, bucket | `net/rate_limiter` | `tokens_`, `last_refill_`, `rate_`, a strand, one timer per waiting coroutine | `acquire`, `refill_locked`, `set_rate` |
| Rate limiter, adaptive | `net/rate_limiter` | `srtt_ms_`, `rttvar_ms_`, `sample_count_`, `loss_count_`, `rate_`, all atomics | `on_response`, `loss_ratio` |
| Connect scan | `core/scanner` | a resolver, a socket, a timer | `connect_scan` |
| Scan pipeline | `scan/scan_pipeline` | the result of one port, a second socket, the current probe | `scan_one` |
| Banner I/O | `probes/banner_io` | the banner read so far | `write_all`, `read_until_quiet` |
| Probes | `probes/probe_engine`, `tls_probe`, `registry` | the rule database, OpenSSL's handshake | `identify`, `parse`, `load`, `default_probes` |
| Scan controller | `gui/views/scan_controller` | `running_`, `cancel_`, `rate_`, `timeout_`, worker thread, databases | `startScan`, `cancelScan`, setters, destructor, `runScan` |
| Qt bridge | `net/qt_bridge` | events on their way to the UI thread | `postResult`, `postProgress`, `postFinished` |
| Main window, result model, charts, details | `gui/views` | rows, their order on screen, the selection, chart points, details, status bar | slots of the controller's signals, menus, clicks |
| Dialogs and exports | `gui/views` | scan request, settings on disk and in force, files | `accept`, `request`, `load_settings`, `save_settings`, `exportResults` |
| Command line | `main.cpp`, `cli/` | arguments, databases, futures, results | `main`, `run`, `parse`, `expand_port_spec`, `top_n_ports`, `check_scope` |
| Lookups | `fp/cve_lookup`, `epss_lookup`, `cdn_lookup` | tables | `load`, `lookup` |
| Rows | `core/result.hpp`, `gui/views/dummy_data.hpp` | a `ScanResult` | `max_cvss`, `max_epss`, `max_risk`, `verified_cve_count` |
| Fingerprints | `fp/ja4_server`, `ja4_x509` | none | `parse_server_hello`, `compute_ja4s`, `compute_ja4x` |
| Reports | `report/` | none | `to_json`, `to_csv`, `to_html`, `write_to_file`; `JsonWriter`, `CsvWriter`, `HtmlWriter` |

### How they interact

* The UI thread owns a `ScanController`. `startScan` makes a worker thread; its
  `runScan` builds a pool and a limiter on its own stack, spawns one `scan_one`
  coroutine a port, collects the futures in order and posts results and progress
  through the bridge; the events reach the UI thread in the order posted.
* `scan_one` takes a token (`acquire`), does the connect scan, reports its
  outcome to the limiter (`on_response`), and for an open port connects again
  and runs the probes whose hints fit the port, with a new connection after each
  probe that does not match.
* All coroutines run on the pool's threads and share the limiter: `acquire`
  through a strand, `on_response` through atomics and nothing else.
* The command line does what `runScan` does, on its main thread, and writes a
  report.
* The main window hears the bridge's events in its event loop, and in the loops
  that its dialogs and message boxes run while they are up. It adds a row for
  each result, behind a proxy that keeps the table sorted; the chart is drawn
  anew when a scan finishes and keeps indices of the rows of that moment.

### What is hard about it

* *Interleaving.* Coroutines hop between strand and pool; `on_response` runs on
  several threads at once; settings are read on one thread and written on
  another. A test can hardly produce a given order.
* *Timeouts and late answers.* A connection that completes as its timer
  expires; a resolver that cannot be cancelled; reads that race no timer.
* *Ends.* A graceful `stop` while tasks are spawned, a hard one with tasks
  waiting, an exception in the middle of `runScan`, a window closed in a scan.
* *Ordering.* Events of one scan heard while the next has already been
  accepted; the completion of futures in any order and their collection in one.
* *Dialogs.* What was checked before a dialog is used after it; the rows an
  export writes are those of the moment the dialog is closed.
* *Stale indices.* A position in the sorted table, a row of the model and a
  point of the chart are three things.
* *Texts from strangers.* Banners go into reports of four formats.
* *Numeric edges.* Waits that truncate to zero, clamps of the rate, the window
  and adjustment counters, the banner's cap, the bounds of the parsers.

`PROJECT.json` lists each of these hazards at its line, with the properties that
would notice it going wrong.

### What makes each component correct

* bucket: never more tokens than capacity plus elapsed time allows; nobody waits
  for a token for ever;
* adaptive rate: the rate stays in its range and the statistics in step with the
  responses, whatever updates are lost;
* pool: `stop` returns and drains, nothing runs after it, no task is lost or run
  twice, a stopped pool can be started again;
* pipeline: every scan ends within a bounded number of timeouts, leaves no
  connection behind and never lets one probe see another's conversation;
* controller: listeners hear each scan completely, in order and to its end, no
  coroutine outlives what it refers to, and the UI thread never blocks for good;
* main window: chart, table, details, status bar and files tell of the same
  rows, and no scan starts that is out of scope or will be refused;
* command line: it scans what it was asked to and may scan, labels and scores
  what it finds as the databases say, and reports all of it.

## 2. The modules

| Module | Models | Checked by | Proved in |
|---|---|---|---|
| `RateLimiter` | `acquire()` and the strand, timers and workers it runs on | `MCRateLimiter` | `RateLimiterProofs` |
| `TokenBucket` | abstract: what a token bucket promises | implemented by `RateLimiter` | `RateLimiterProofs` |
| `AdaptiveRate` | `on_response()` and `set_rate()` | `MCAdaptiveRate` | `AdaptiveRateProofs` |
| `AsyncPool` | the pool, its owner, its threads and tasks | `MCAsyncPool` | `AsyncPoolProofs` |
| `ScanPipeline` | `scan_one()` with connect scan, banner I/O and probes | `MCScanPipeline` | `ScanPipelineProofs` |
| `ScanController` | the controller, the bridge, the worker thread | `MCScanController` | `ScanControllerProofs` |
| `ScanSession` | abstract: what the controller's listeners hear | implemented by `ScanController`, used by `MainWindow` | `ScanControllerProofs` |
| `MainWindow` | the window with its table, chart, details, dialogs and exports | `MCMainWindow` | `MainWindowProofs` |
| `CommandLine` | a run of `spscan` | `MCCommandLine` | `CommandLineProofs` |
| `ScanResult`, `DummyData` | the rows and their maxima; the demonstration rows | with `MainWindow` | |
| `PortSpec`, `ScopeGuard` | port specifications; which targets need consent | with both | `OperatorProofs` |
| `CdnLookup`, `VulnLookup` | the CDN, CVE and EPSS databases | with `CommandLine` | `CommandLineProofs` |
| `ProbeRules` | rule files, templates, the choice of probes | with `CommandLine` | `CommandLineProofs` |
| `TlsFingerprint` | the capture and parsing of ServerHellos, JA4S, JA4X | with `CommandLine` | `OperatorProofs`, `CommandLineProofs` |
| `Reports` | the reports of the command line, and readers of CSV and HTML | with both | `OperatorProofs`, `CommandLineProofs` |
| `ReportWriters` | the exports of the window | with `MainWindow` | |

They meet as the code does, through what a component promises the next:
`ScanController` takes a graceful stop to return when every coroutine has ended
(`AsyncPool`: `GracefulStopDrains`, `StopReturns`) and a coroutine to end
(`ScanPipeline`: `ScanEnds`); `ScanPipeline` takes `acquire` to return
(`RateLimiter`: `EveryAcquireReturns`); `RateLimiter` takes the rate to be
positive (`AdaptiveRate`: `RateInRange`) and the workers to be as many as
the pool has; `MainWindow` hears a `ScanSession` and no more than that; a
coroutine of `CommandLine` ends with one of the rows `ScanPipeline` can give.

**RateLimiter.** `loc` is the program point of each coroutine. A step is one
access to shared state or one suspension: the reading of the clock, the load and
the store in `refill_locked`, the store of `last_refill_`, the test, the load
and the store of `tokens_ -= 1.0`, the wait. `dispatch(bind_executor(strand_,
use_awaitable))` runs the first pass on the strand; the timer's handler is bound
to the executor of `co_spawn`, so `Resume` needs an idle worker and no strand
(`offStrand`). Amounts are integers: `TokenQ` quanta make a token. Absolute
times are replaced by ages that stop at `Horizon`, by when any rate has filled
the bucket. `rate_` may change at any moment.

**TokenBucket** has a level, unpaid time and the clients granted: time is paid
into the bucket at most once, a grant takes a whole token. `MCRateLimiter` maps
`tokens_` and the clock reading of the refill in progress to it.

**AdaptiveRate.** Every atomic load, store and fetch_add of `on_response` is a
step, so two workers lose each other's updates and straddle each other's
window reset. Averages are whole milliseconds, rates fractions of a packet a
second, and the batches (100 and 1000 samples) are 2 and 4 in the run. The
constructor and `set_rate` clamp from below only, so nothing is assumed of the
arguments of `set_rate`, and `max_rate_` may be below 0.1: the window loads its
rate unchecked (`settings_dialog.cpp:102`). `asked` keeps the greatest rate a
caller has asked for, which `RateInRange` needs for its upper bound.

**AsyncPool.** The owner's `start`, `stop` and destructor are split where they
wait (`join`). The `io_context` is modelled as the code uses it: outstanding
work is the guard and every unfinished task, and the last of it stops the
context. Any thread may spawn at any time.

**ScanPipeline.** One coroutine; the resolver, the kernel, the timers and the
peer end each `co_await` in every way they can. Bytes are abstracted to reads,
the banner's cap to a number of reads, a probe to whether it is hinted for the
port, sends first, or is the TLS probe. `attempt` and `winner` keep what the
connect does after the timer has won.

**ScanController.** The UI thread calls, the worker steps through `runScan`,
coroutines are futures that are set at any time, and the bridge is a queue. The
reads of `rate_` and `timeout_` are steps of their own, as is each test of
`cancel_` before the spawn or the `get` it guards. A port's result and the
progress that counts it are posted one after the other (`Collect`,
`PostProgress`). An exception can leave the `try` block at every point before
the orderly stop, between these two as well; the futures and the limiter
are gone then while coroutines go on, until the pool's destructor ends them
(`Unwind`, `Catch`). `asked`, `used`, `limiter`
and `cut` record what the properties compare.

**ScanSession** says what listeners may count on: scans in the order accepted,
ports in their order, a result only before the progress that counts it, one
`scanFinished` a scan, after the progress of the last port unless it was cut
short: then a result may be heard whose progress never comes.

**MainWindow.** `session` is the `ScanSession` heard, `scanning` the
controller's `running_`, which the worker clears after its last event is posted:
the two disagree while events are on their way. `modal` is the stack of dialogs
and boxes: the user acts on the innermost, events arrive whatever is up. `table`
has the rows in the order of the model, `order` the rows as the proxy shows them
(stable sort, a new row behind its equals), the sorting and the current row.
Scores are integers: CVSS in tenths, EPSS and percentile in units of 0.00001 (as
the EPSS files have them), so risk is in millionths. The writers print them each
in its way (`ReportWriters`): JSON to six digits (`SixDigits`), the columns of
the CSV file to two decimals (`InUnits`) and its list of CVEs to six, HTML with
EPSS and percentile cut to whole percents (`Percent`). What an export writes
(`Written`) is a function of the rows
at that moment; it goes to a file nobody reads back, so it is not kept. Settings
are on disk, in the dialog's ranges and in the controller; `Quit` and `Relaunch`
leave only what is on disk. The stable sort is a definition by ranks, not a
recursive one: a row goes to the place that as many rows precede; `points` is a
function from the rows that are on the chart. The rows, forms and settings of an
instance are constants, of which the module assumes what their types are
(`FoundAssumption`, `FormsAssumption`, `SavedAssumption`, `ChosenAssumption`).

**CommandLine.** `pc` is where `main` is: the arguments, the scope, the
databases, the spawning, the collecting, the report. A coroutine may end as soon
as it is spawned, in any order, with any row its port can give: bare, recognised
by a rule, or by a TLS handshake; or with an exception. An exception nobody
catches ends the run with `Aborted`. The databases are files of records as their
parsers leave them; `Junk` is a field that is not a number.
`InvocationsAssumption` has the types of the options and of the files,
`ServicesAssumption` says that what services answer is text and that a
handshake that succeeds has a ServerHello, whose lengths fit their fields and
which negotiates TLS 1.2 or 1.3 (`tls_probe.cpp:149` refuses less), and
`NumbersAssumption` that a number is written with digits.
`ScansWhatWasAsked` finds a coroutine's row by counting the coroutines before it
that gave one, so that no row can be lost, doubled or moved without notice.

**The algorithms** are operators on sequences, in the source's names: an address
is its octets, a specification the sequence of its pieces, a ServerHello its
octets, a text a sequence of words and of the characters that mean something to
a format. Those characters are words of their own, so no other word spells an
entity of HTML (`Word`). A hash is the data it is computed from. Masks are built
by shifts, as in the code, since the width of the shift is what may be wrong.
Properties compare them with definitions written independently: sets of ports, address
bits, the occurrence of one text in another, RFC 4180.

## 3. The runs

| Run | Expect | Shows |
|---|---|---|
| `rate_limiter` | pass | with 3 coroutines on 1 or 2 workers: `TypeOK`; `SerializedBudget` (while the strand serialises: one coroutine inside, no tick credited twice); `NeverOverfull` always; `IsTokenBucket` (refinement); `EveryAcquireReturns` on one worker |
| `rate_overspend` | violation | `WithinBudget` fails with two workers: see findings |
| `adaptive_rate` | pass | `RateInRange`, `SrttWithinSamples`, `LossesAccounted`, `AdjustmentsSpaced` with two workers inside `on_response` and `set_rate` from outside, with 0 and with a rate above `max_rate_` |
| `async_pool` | pass | `TypeOK`, `QuietAfterStop`, `GracefulStopDrains`, `OneHandlerPerTask`, `StopReturns`, `SpawnedTasksFinish` over start, stop, restart, destruction, spawns at any time and a throwing handler |
| `pool_hard_stop` | violation | `HardStopCancels` |
| `scan_pipeline` | pass | `TypeOK`, `ConnectionsClosed`, `ProbesDoNotMix`, `TimeoutBudget`, `ScanEnds` for four shapes of probe |
| `tls_no_timeout` | violation | `ScanEnds` without a helpful TLS peer |
| `scan_controller` | pass | `TypeOK`, `NoneLeftBehind`, `StartNeverWaits`, `IsScanSession` (refinement), `ScanFinishes`, `CallsReturn` |
| `late_options` | violation | `OptionsSetBeforeStart` |
| `command_line` | pass | `ScansWhatWasAsked` (ports, scope, order of the rows), `CdnLabelled`, `FindingsScored`, `FingerprintsOfHandshake`, `ReportFaithful` (a reader of the report gets the rows) |
| `json_report_lost` | violation | `OutputAsJson`: a banner that is not UTF-8 |
| `main_window` | pass | `TypeOK`, `ChartShowsRows`, `DetailsOfSelection`, `StatusSettles`, `RiskiestFirst`, `SettingsInForce`, `ScansInScope`, `StartsAreAccepted`, `ExportFaithful` |

### Bounds

* `rate_limiter`: three coroutines are one that passes on the strand, one that
  waits, and one that arrives between; a token of 2 quanta and a capacity of 3
  leave fractions behind; `Horizon` 4 exceeds the time to fill the bucket at
  the lowest rate. `rate_overspend` needs two workers and one refill each.
* `adaptive_rate`: seven calls of `on_response` or `set_rate` complete a window
  of four samples and a batch of the next one, with two responders anywhere in
  between. The thresholds are scaled (1/2 and 1/4) so that a batch of two can be
  below, between and above them. A negative round-trip time is among the inputs,
  since the interface allows it; `set_rate` is called with 0 and with a rate
  above `max_rate_`.
* `async_pool`: two workers, so that one can throw while the other drains; three
  tasks, one of which throws; unbounded starts and stops.
* `scan_pipeline`: the list has a probe to pass over, one that sends, one that
  listens, and the TLS probe; a banner of two reads and two flights reach every
  loop twice.
* `scan_controller`: two scans, so that the second can be accepted while the
  first is being heard; two ports, so that futures are set out of order; a zero
  among the settings for the setters' guards.
* `command_line`: up to three ports, so that coroutines end in any order and a
  failed one is between others; specifications that are reversed, overlapping,
  at the last port, malformed in each way; CIDR prefixes of 0, 9, 32, 33 bits,
  with the target in several; CVEs whose versions match as a whole, in part, or
  not, in two spellings; EPSS lines repeated and broken; a rule file whose rules
  are malformed in each way; banners with the special characters of every
  format; TLS servers with and without extensions and with a HelloRetryRequest.
* `main_window`: the ten demonstration rows and two scans of a port. One of the
  two rows to be found has its highest scores in different CVEs, scores that no
  format writes in full, and a banner of special characters; the other coincides
  with a demonstration row, so that points, keys and details have equals, but
  for an octet in its banner that is not UTF-8. Settings on disk that cannot be
  used, or that the dialog does not hold. The user sorts by one column, both
  ways, and clicks on one position: which row is there depends on everything before.

### Fairness

* `RateLimiter`: time passes and every coroutine that can run does. The
  scheduler of a pool guarantees this with one worker; with two, unlucky
  preemptions can undo refills for ever, so liveness is claimed for one.
* `AsyncPool`: threads run, a timer or socket a task waits for fires, and a task
  ends after finitely many waits (strong fairness of `Finish` and `Complete`):
  what `ScanEnds` gives. Calls of the owner are never assumed.
* `ScanPipeline`: the coroutine runs, timers expire, resolver and kernel answer.
  `FairPeerSpec` adds a peer that answers a TLS client or closes;
  `tls_no_timeout` shows what is lost without it.
* `ScanController`: both threads run, the event loop delivers, coroutines end.
  No call, cancellation or exception is assumed to come.
* `MainWindow` and `CommandLine` have safety properties only: that a scan ends
  and is heard to end is `ScanEnds` and `ScanFinishes` of the modules below.

### Deadlock checking

It is off where the system may stop: a pool that was destroyed, a scan that has
returned, a bounded number of calls made, a controller that is gone, a program
that has exited. The main window never stops: it is checked there.

## 4. Findings

1. `rate_limiter.cpp:131`: a coroutine resumed by its timer is off the strand;
   with two workers elapsed time is credited twice. `rate_limiter.hpp:15` and
   `rate_limiter.cpp:113` say that the strand serialises all of `acquire`.
2. `async_pool.cpp:74`: a hard stop does not cancel what waits, as
   `async_pool.hpp:10` says; `restart()` and `start()` revive it.
3. `tls_probe.cpp:87`: the handshake reads without a timer; `--timeout-ms` is
   documented as the per-port I/O timeout (`args.cpp:93`).
4. `scan_controller.cpp:101`: options changed during a scan reach the running
   scan (`main_window.cpp:232` changes them); `scan_controller.hpp:42` says they
   are set before `startScan`.
5. `writers.cpp:89`: a banner that is not UTF-8 makes `to_json` throw; nobody
   catches, and the program aborts with the whole scan unreported, which
   `writers.hpp:3` says is output in several formats.

Met while modelling, without a run of their own:

* `rate_limiter.cpp:53`: `set_rate` with a rate below 0.1 stores 0.1 (`SetRate`;
  the run calls it with 0); `rate_limiter.hpp:43` says that it is ignored, as
  does `rate_limiter_test.cpp:70`, whose assertion holds of both.
* `rate_limiter.cpp:85`: a negative rtt without the loss flag is a sample that
  was not lost; `rate_limiter.hpp:40` calls it a loss. No caller does that.
* `rate_limiter.cpp:97`: a slow-down stores 1.0 at least. A rate below 1.0 is
  raised by it, above `max_rate_` if need be; `rate_limiter.hpp:9` says 0.7
  times the rate. `rate_limiter.cpp:53`: `set_rate` has no upper bound, and the
  next speed-up takes the rate down to `max_rate_`.
* `scan_controller.cpp:90`: on the exception path the limiter is destroyed
  before the pool, while coroutines that refer to it may run (`Unwind` has the
  interval).
* `scan_pipeline.cpp:85` looks CVEs up by the service ("ssh"), the database that
  comes with the program keys them by product ("openssh").
* `html_writer.cpp:106`: the risk in the table of the HTML export is the product
  of the highest scores; everywhere else it is that of the riskiest CVE.
* `csv_writer.cpp:74`: the columns have two decimals, so a risk below 0.005, and
  an EPSS below 0.005, as most are, reads 0.00; the list of CVEs in the last
  column has six. `html_writer.cpp:117`: EPSS is cut to whole percents, and
  0.29, 0.57 and 0.58 come out one lower, the doubles being just short of them.
* `json_writer.cpp:41`: an octet that is not UTF-8 is copied, so one such banner
  makes the whole file of the window's export no JSON; `ExportFaithful` claims
  nothing of that file then. (On the command line it is finding 5.)
* `args.cpp:118`: `--help` ends with 2, since `main` takes 0 for "not set".
* `cve_lookup.cpp:49`: an entry of a wrong type throws out of `main`
  (`LoadFails`).
* `writers.cpp:159`: what is lost when the stream is flushed goes unreported
  (`WriteReport`, "lost"); the writers of the window check nothing after
  opening.
* `scan_dialog.cpp:25` offers a host name, `check_scope` refuses every one.
* `scope_guard.cpp:17`: the unspecified address and, of IPv6, site-local
  ones need no consent; `docs/ETHICS.md` does not list them.
* `probe_engine.cpp`: a rule all of whose ports are out of range is one for
  every port.
* `ja4_server.cpp:77`: a ServerHello without extensions is shorter than the
  parser demands, and its fingerprint has the version "00".
* A column without a sort key leaves the order as it was; of chart points that
  coincide a click always takes the first; the end of a scan may be announced
  after the next one has started.

## 5. The proofs

TLAPS checks the theorems for every value of the constants that meets the
`ASSUME`s of the modules, which TLC evaluates in every run. In the order of
the system, from the bucket to the programs:

| Theorem | Of | States |
|---|---|---|
| `TypeCorrect`, `CapacityKept`, `BudgetKept` | `RateLimiter` | `TypeOK`, `NeverOverfull`, `SerializedBudget` |
| `LimiterRefinesBucket` | `RateLimiter` | `IsTokenBucket`: it implements `TokenBucket` |
| `RateKept`, `SrttKept`, `LossesKept`, `SpacingKept` | `AdaptiveRate` | `RateInRange`, `SrttWithinSamples`, `LossesAccounted`, `AdjustmentsSpaced` |
| `PoolTypes`, `PoolQuiet`, `PoolDrains`, `PoolHandlers` | `AsyncPool` | `TypeOK`, `QuietAfterStop`, `GracefulStopDrains`, `OneHandlerPerTask` |
| `PipelineTypes`, `PipelineCloses`, `PipelineSeparates`, `PipelinePrice` | `ScanPipeline` | `TypeOK`, `ConnectionsClosed`, `ProbesDoNotMix`, `TimeoutBudget` |
| `ControllerTypes`, `NoCoroutineLeft`, `StartsAtOnce` | `ScanController` | `TypeOK`, `NoneLeftBehind`, `StartNeverWaits` |
| `ControllerRefinesSession` | `ScanController` | `IsScanSession`: it implements `ScanSession` |
| `WindowTypes`, `ChartTruthful`, `DetailsFollow`, `StatusSettled`, `RiskOrder`, `SettingsApplied`, `ScopeHeld`, `StartsTaken`, `ExportsAreFaithful` | `MainWindow` | `TypeOK`, `ChartShowsRows`, `DetailsOfSelection`, `StatusSettles`, `RiskiestFirst`, `SettingsInForce`, `ScansInScope`, `StartsAreAccepted`, `ExportFaithful` |
| `AskedIsScanned`, `TargetIsLabelled`, `FindingsAreScored`, `FingerprintsAreThose`, `ReportIsFaithful` | `CommandLine` | `ScansWhatWasAsked`, `CdnLabelled`, `FindingsScored`, `FingerprintsOfHandshake`, `ReportFaithful` |
| `PortsExpanded`, `ScopeJudged` | `PortSpec`, `ScopeGuard` | what `expand_port_spec()` and `check_scope()` give for every input |

### The arguments

**RateLimiterProofs** holds for any finite set of coroutines, any numbers of
workers, any rates and capacity.

* `TypeCorrect`. Nonlinear facts about quanta and ticks are lemmas of their own
  (`EarnedType`, `RefillBound`, ...).
* `CapacityKept`. The invariant has to say that what a coroutine is about to
  store is not above the capacity either; it needs no serialisation.
* `BudgetKept`. The budget alone is not inductive: between the store of
  `tokens_` and the store of `last_refill_` the time just credited is still
  owed. `BudgetInv` says for each program point which of `dt`, the coroutine's
  own clock reading and `sinceRefill` covers it, and that no other coroutine is
  inside while the strand serialises. There is one lemma per kind of step: the
  tick, the refill, the grant, the entry.
* `LimiterRefinesBucket`. A step is one of the bucket's or a stutter under the
  mapping of `MCRateLimiter`. It rests on `HandsInv`, which says what the
  coroutine inside holds in its hands: a credit for time that `last_refill_`
  still owes, a token that is in the bucket. The refinement claims
  nothing once two workers have met off the strand: there `rate_overspend` shows
  that it fails.

**AdaptiveRateProofs** holds for any finite set of responders, any thresholds,
any sizes of batch and window, any arguments of `set_rate` and any `max_rate_`.
Each property needs what is in flight:

* `RateInv`: the rate a responder is about to store is in range as well, and
  the range only widens while he waits (`AskingWidens`);
* `SrttInv`: so are the old average and the round-trip time he averages with;
* `LossInv`: losses, with those about to be counted, exceed samples by fewer
  than there are responders. `LossesAccounted` alone is not inductive, because
  whoever has counted his sample may not have counted his loss;
* `SpacingInv`: `calls` pays for what has been adjusted and for the adjustment
  that is due, with the samples of the batch begun and the responders who have
  not counted theirs. Its product is kept linear in lemmas on one moving element.

**AsyncPoolProofs** holds for any workers and tasks, throwing or not. `PoolInv`
has five parts that need each other: types (a worker is busy exactly while it
has a job) need that no thread survives a stop, or `start` would give a busy
worker's place away; `ReadyOnce` (the queue holds each ready task once) and
`BusyOnce` (each running task has one worker) carry the handlers through the
steps of the workers; `StopInv` says that a thread leaves `run` only when the
context has stopped, and that this cannot come from running out of work while
something owed is unfinished. `GracefulStopDrains` follows: if one worker has
left and the stop was not hard, the context ran out of work.

**ScanPipelineProofs** holds for any list of probes, any cap of the banner and
any number of TLS flights. `ConnInv` says where each connection may be open,
`ScanInv` that nothing is reported before the connect scan is over, `ProbeInv`
that the probe begun is one for this port, and `BudgetInv` that the timeouts so
far are no more than the hinted probes that are through with their peer, which
needs the cardinality of an initial part of the list.

**ScanControllerProofs** holds for any number of ports and scans. `ControlInv`
ties the two threads (`running_` is what the program counters say), `CountsInv`
the futures and the progress. `EventsInOrder` carries the refinement: there is a
run of the abstract session, one legal step an event, from what has been heard
through everything in the queue to what the worker has posted: perhaps with a
result whose progress is still to come, or never will (`Uncounted`). A post
extends
the run by a step, a delivery takes its first; that the delivered event is a
step of `ScanSession` is then immediate (`DeliverRefines`).

**OperatorProofs** has what the operators give for every input, and the lemmas
that take the place of induction. In a finite set under a strict order the
number of elements below an element is its place, and every place is taken
(`RankOnto`): so an ascending list of ports, a greatest score and a sorted table
exist. A set of numbers that has 0, and with a number the next one up to a
bound, has all up to the bound (`UpTo`); applied to the numbers up to which a
recursive function has a solution, it gives a function that satisfies the
recursion, and applied again that there is no other. In this way

* `PortsExpanded` and `ScopeJudged` say what `expand_port_spec()` and
  `check_scope()` give; the second compares the octet tests of the code with the
  ranges of `docs/ETHICS.md` (and the three the code adds);
* `SeqConcat` says that the lines of a file are a text if each is, `Flattened`
  unfolds a concatenation, and `ReadBack` the readers of CSV and HTML, word by
  word. `FieldReads` and `CellReads` say that a text is read back
  as another, wherever in a file it stands; `EscapedField` and `EscapedCell`
  that escaped texts are, `LineReads` and `RowReads` that their lines are, and
  `TableRead` that a whole report is;
* `TopCveIsGreatest` says what the search for the highest score finds;
* `HelloRead` says what `parse_server_hello()` finds in a ServerHello a server
  composes. `StandsAt` says where in the octets a part stands: what is put
  together of parts is read part by part (`PlacedParts`, `FlattenedPlaced`). The
  loop over the extensions is a recursion towards the end of their list, so its
  induction goes downward (`DownTo`, `ExtensionsWalk`), and what it finds behind
  the n-th extension is what was sent behind it (`ExtensionsRead`).

**MainWindowProofs** holds for any rows, forms and settings of their types and
any number of scans. `WindowInv` has a part for the session, the dialogs (the
scan dialog is only open while nothing is being scanned), the status bar, the
requests, the settings, the table, the chart and the details, and there is a
lemma for each. Three are not properties in themselves: `DialogsOK`, without
which `StartsAreAccepted` has no reason; `RequestsOK`, which keeps the form
typed while its dialog is up; and `IsTable`, which says that the order has each
row and that no row precedes one the sorting puts first. `SortedSorts` shows
that the stable sort gives such an order and `PlacedSorts` that putting a row
behind those it does not come before keeps it.

`ExportsAreFaithful` is about what is in the table, so it follows from
`WindowInv` and from what the formats do with any such rows (`FilesTellRows`).

* `CsvTold` and `HtmlTold` say what a reader finds in the files, `RecordsRead`
  carries them from one line to a file, `JsonRead` undoes the escapes of JSON;
  `Summed` adds up the three states and `HighestRisk` finds the riskiest CVE.
  `DummyWritable` shows that the demonstration rows are such rows.
* Numbers: `Rounding` says that what is printed is half a unit off at most,
  `InHundredths` and `SixDigitsTell` what that makes of a risk in CSV and JSON,
  for any scores in their scales (`InScale`: CVSS up to 10.0, EPSS up to 1).
* Octets that are not UTF-8: `JsonAccepted` says that what `json_escape()` gives
  is JSON if the text has none. The file as a whole is only claimed to be read
  if no row has any; a banner is claimed of HTML if its row has none, and of CSV,
  which is octets, always.
* Texts are `Legible`: a word that stands for a stretch without special
  characters is none that is written for such a character. Control characters
  without an escape are in the texts, and in JSON the property asks for a space
  in their place (`Blanked`), as `json_escape()` does.
* The theorem has a hypothesis, `ValuesWritten`: a number or a truth value is
  printed as a word that no format takes for anything else. `ToString` has no
  definition the prover could use, and TLC cannot go through all numbers.

**CommandLineProofs** holds for any arguments, files, TLS servers and captures.
`StageInv` says what is settled when `main` is at each stage, and `RowsInv`
relates futures and rows: the n-th row is that of the n-th coroutine, among
those collected, that ended with a value. A coroutine ends with a row of its own
port (`FoundType`), whichever probe found it. `ScansWhatWasAsked` follows with
`PortsExpanded`, `ScopeJudged` and `TopPorts`. `FindingsInv` follows a row from
what was found to what is reported: while futures are collected the tables are
those of the files named, a future's row has the CVEs that the look-up gives for
its service and version, and a row of the results their scores and its label.

* `TargetIsLabelled`: two octets behind a mask of `k` ones agree when their
  first `k` bits do (`OctetBits`, by the eight values of `k`), two addresses
  behind a mask when the bits of the prefix do (`MaskedBits`), and the ranges
  that survive parsing keep their order (`ParsedRanges`).
* `FindingsAreScored`: `LookupFinds` says that a look-up has an entry exactly
  for the items that fit, `FirstLineScores` that of the lines that name a CVE
  the first is used.
* `FingerprintsAreThose`: `PrintsInv` says that a coroutine that has talked to a
  TLS server has the fingerprints the probe makes of that server, and no other
  has any; `PrintsRead` says what these are.
* `ReportIsFaithful`: whatever a rule expands is text (`TemplateIsText`,
  `RulesParsed`), so every row is `Reportable`; such rows are read back as they
  were (`ReportTold`), and `WrittenInv` says that the file has the report of
  these very rows and that the run is over.

### What stays with TLC

* Liveness under fairness and ENABLED are beyond the prover:
  `EveryAcquireReturns`, `StopReturns`, `SpawnedTasksFinish`, `ScanEnds`,
  `ScanFinishes`, `CallsReturn`.

Every other property of a passing run is stated by a theorem.

## 6. Not modelled

Left out for good: OpenSSL, Boost.Asio and Qt themselves (external, modelled as
the code uses them); regular expressions, JSON parsing, hashing and X.509;
widgets, styles, layout and the painting of cells (`cvss_delegate`,
`epss_delegate`, `risk_delegate`); logging; `ja4.cpp`, which only tests call;
what a coroutine does with a limiter that has been destroyed; the databases the
window's constructor hands to its controller before the first scan; memory
exhaustion except where the code catches it.
