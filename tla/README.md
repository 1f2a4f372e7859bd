# Verification of market-signal-lab

TLA+ models of the parts of market-signal-lab that keep state across runs, sessions
and processes, the TLC configurations that check them, and TLAPS proofs of what
matters most.  The program is a Python application on one host (a Mac, or a
Raspberry Pi) that collects market data into PostgreSQL, analyses it and keeps
virtual accounts whose daily results must never be revised afterwards.

Every definition that models code is traced to its lines by `map` in
`PROJECT.json`.

## 1. Inventory

### Components

| Component | State it keeps | Operations | Modelled in |
|---|---|---|---|
| Host-local job locks (`core/job_lock.py`) | a flock and an owner file per lock name | take all names in sorted order, reject, announce, release | `JobLocks` |
| Audit chain (`services/audit_integrity.py`) | chain file, head file, chain lock | verify, record an export | `AuditChain` |
| Standard daily forward job (`jobs/run_forward_shadow.py`) | `job_runs` | preflight, verify, audit of the day's exports, analyse, persist, export, record, report | `ForwardLedger`, without `--demo` |
| Forward account ledger (`services/forward_account_ledger.py`) | daily states and events, one export per account and day | persist without replacement, write the audit copy, audit a copy | `ForwardLedger`; a row stands for state and events |
| Audit verification command (`jobs/verify_audit_integrity.py`) | none of its own | verify, register existing exports | `ForwardLedger` |
| Launch schedule and host wrapper (`docker/macos`) | a log file | start the daily job | the calendar in `ForwardLedger`, error lines in `ForwardMonitor` |
| Forward job monitor (`services/forward_account_monitor.py`) | none | what an operator is shown | `ForwardMonitor` |
| J-Quants price collector (`jobs/collect_jquants_all_prices.py`, `services/market_service.py`) | assets, daily prices, targets and items | refresh the master, choose a session, fetch a batch, mark what is unavailable | `PriceCollector` |
| Other J-Quants collectors | the same tables | one-off batches | no |
| Selected-universe forward accounts (`services/selected_forward_activation_service.py`, `jobs/run_selected_universe_forward.py`) | activation events, account rows of each version | enable, disable, daily run, replay | `SelectedForward` (no exports, no chain) |
| User asset selections | versions of selections, their analyses | create a version, deactivate, save an analysis | `SelectedForward`, `ResearchRecords` |
| Cash account engine (`backtest/ohlc.py`, `corporate_actions.py`, `asset_universe.py`) | positions, cash, receivables, blocks, halt | one session: lifecycle, actions, entries, exits, dividends, valuation | `CashAccount` |
| Margin positions and risk (`backtest/margin_position.py`, `margin_portfolio.py`, `analysis/margin_risk.py`, `mode_selection.py`) | margin positions, entitlements | decide, open, finance, liquidate, close, settle | `MarginRisk`, `MarginAccount`, `MarginTrading` |
| Validation windows (`backtest/validation_registry.py`, `validation.py`, `jobs/run_backtest.py`) | a JSON registry, a table of formal claims | claim a window, evaluate it, claim the forward period | `ValidationWindows`, `ResearchRecords` |
| Simulation review (`backtest/simulation_review.py`, `services/simulation_review_service.py`) | append-only reviews | review a trade or an order that was not executed | `SimulationReview`, `ResearchRecords` |
| Backtests and their evaluation | runs and series keyed by the hash of their inputs | save once, answer later calls | `ResearchRecords`; metrics not |
| Fundamentals, SEC and ETF collection (`services/phase3_collection_service.py`) | snapshots, `job_runs`, `api_fetch_logs` | fetch, normalize, insert, report | `CollectedSnapshots`, `ResearchRecords` |
| FX and FRED collection | upserted rows | one request and one upsert | no |
| Accounting policies | none | corporate actions, lifecycle, exchange rates, tax | in `CashAccount`, without tax |
| Market analysis | the stored analysis of all assets | indicators, scores | the stored run in `ResearchRecords`, the trade modes in `MarginRisk`; statistics not |
| Database schema and sessions | tables | unique keys, transactions | where a module relies on them |
| Dashboards, backups, operations check | none | presentation, a dump, queries | no |

### How they interact

* launchd, or a person, starts `run_forward_shadow --daily`.  The host wrapper
  runs it in a container; `prevent_concurrent_runs` takes `forward-standard` and
  `analysis-heavy` or ends the attempt with exit code 75.
* The job verifies the audit chain, audits the two exports of the day against
  PostgreSQL, and then either stops (already frozen), repairs missing copies, or
  analyses, persists both accounts in one transaction, writes each export and
  records it in the chain.
* The operator's `verify_audit_integrity --initialize-existing` records exports
  too.  It takes no job lock; the two meet at the chain lock only.
* The monitor reads rows, exports, `job_runs` and the wrapper's log, and decides
  what an operator gets to see of all this.
* The daily job and the backtests run the cash engine over sessions that the price
  collector has stored; the automatic margin series runs the decision, the margin
  account and the cash mode together.
* The selected-universe job reads in the evening the activation events and the
  selections that users write during the day.
* Backtests claim validation windows in a JSON registry before they look at them;
  formal validations of selections claim their period in PostgreSQL.
* Research services look for a record, insert it and leave the commit to their
  caller; the collections commit on their own and log their failures.

### Which behaviours are hard

* Two files (chain and head) and two stores (PostgreSQL and exports) are updated
  one after the other; a process can die, or a statement raise, in between.
* Retries: three attempts an evening for the forward job, a loop without an end
  for the collector, three attempts of a request.  A retry must not repeat what was
  done, and a failure must not be taken for an answer.
* Several jobs start together and need more than one lock.
* The job and the operator write one chain, under a blocking lock.
* What is checked first and used later: the chain at the start of an attempt,
  the existence of an export before its hash, the latest session of a run.
* Read-check-insert in the selection, activation, validation and record services.
* A file that is read, extended and replaced as a whole.
* The engines: five loops in a session that all change the positions they walk
  over, and limits that each order of a session moves for the next one.
* Hindsight: margin terms, reviews, validation windows and formal periods are
  sound only if nothing is used before it was known.

`hazards` in `PROJECT.json` lists all of these at their lines, the ones no
property covers yet included.

### What makes each component correct

* **Job locks**: jobs with a common lock exclude each other; the owner file of a
  held lock names its holder; jobs started together never turn each other away
  in a circle.
* **Audit chain**: no gap, no repeated path; the head is the chain or lags by
  the record that is being written; a published head is never taken back; a
  broken chain is not built upon.
* **Forward ledger, job and monitor**: the first committed result of a day decides, for
  both accounts at once; copies and records only ever follow a commit; a
  reported success is audited; an attempt that starts with a damaged history
  records nothing, and nobody begins a record on one; attempts end, and one that is
  left alone completes a committed day; a missed session stays on the monitor, and a
  healthy state raises no warning.
* **Price collector**: sessions are worked on in the documented order; nothing is
  asked twice; only an answer without data ends a pair; a session with prices is
  not set aside; probes keep their distance; in the end every pair is collected.
* **Selected-universe forward**: version numbers are dense and in the order of their
  commits; a request has one event; only a version that was enabled by 18:30 gets a
  row, only the latest version takes new signals, and its rows neither change nor
  lose a position.
* **Cash engine**: cash and the cost of what is held always equal the initial cash and
  the realized result; blocks follow positions; no exit is passed over, and no payable
  dividend that could be paid; the open risk stays near its limit; a halt is final.
* **Margin**: cash, entry margins, costs and dividends reconcile; an entry keeps
  every limit; a breach liquidates all; each calendar day is financed once; an opened
  candidate rests on facts that were known and in force when it was decided.
* **Validation windows**: nothing is looked at before it is claimed; a window has one
  rule; the forward period stays unseen.
* **Records**: what belongs together is saved together; an answer is the record that
  was asked for; a period is claimed formally once; a collection reports exactly what
  it stored; a review knows nothing from later and its trades add up.

## 2. Modules

| Module | Role |
|---|---|
| `JobLocks` | the wrapper of `app/core/job_lock.py` |
| `AuditChain` | `app/services/audit_integrity.py` |
| `DailyAudit` | what ledger and chain promise together (abstract) |
| `ForwardLedger` | extends `AuditChain` with ledger, job, operator and calendar; implements `DailyAudit` |
| `ForwardMonitor` | extends `ForwardLedger` with what the monitor shows of it |
| `PriceCollector` | the collector's runs over its tables |
| `SelectedForward` | versions of a selection, their activation and the daily run of their accounts |
| `CashAccount` | a run of the cash engine |
| `MarginRisk` | eligibility, risk card and mode selection (functions) |
| `MarginAccount` | a run of the margin account and its portfolio runner |
| `MarginTrading` | `MarginAccount` fed by the decisions of `MarginRisk` |
| `ValidationWindows` | runs of the backtest over the window registry |
| `SimulationReview` | what a review makes of its inputs (functions) |
| `CollectedSnapshots` | what a collection makes of an answer (functions) |
| `ResearchRecords` | the concurrent callers that store all records of the research side |
| `MC*` | instances for TLC |
| `*_proofs` | the theorems, one module per component |

Definitions whose comment begins with "A faulty variant" are plausible bugs;
each property is shown to be violated by one of them (`mutants` in
`PROJECT.json`).  No specification uses them.

### `JobLocks`

`pc[p]` is the place of process `p` in `prevent_concurrent_runs` /
`exclusive_job_lock`, `holder[l]` the process whose flock is granted, `owner[l]`
the content of the lock file.  `Flock`, `Reject`, `Announce`, `Finish`,
`AnnounceRelease`, `Unlock` are the calls in their order, `Exit` the end of the
unwinding `ExitStack`.  `Crash` drops the flocks and leaves the files.
`blockedBy` is a ghost that remembers at which lock and by whom an attempt was
turned away, until either of the two has ended.  Locks are positions in the
sorted order of their names.

### `AuditChain`

`files`, `chain` and `head` are the exports, the JSON-lines file and the head
file; `call[c]` is the `record_audit_export` that process `c` is in, with its
local `records`.  `BeginRecord` is the granted lock, the verification, the
reading of the records and of the file's hash (one step, since all other users
of the chain wait for the same lock); `AppendRecord` and `WriteHead` are the two
writes.  `TearAppend` leaves part of a line (a full disk), `DropCall` is an
exception or the end of the process between the writes.  `PutFile` is the
environment: exports are written and edited without the chain lock.

A hash stands for the data it digests: a record carries its file's content, and
the head is the sequence of records it covers.  The `previous_record_hash` is a
function of the sequence and is left out.  A forged chain, that is an edit of the
chain file or of the head by hand, is not modelled.

### `ForwardLedger`

`clock` is the session and how many of the evening's start times (18:30, 20:30, 22:30
JST) have passed; `ledger` the rows of
`virtual_account_daily_states`; `pc`, `todo` and `attempt` the local state of the
job and of the operator's command; `runs` how the attempts for a day ended.

| Actions | Code |
|---|---|
| `LaunchdStarts`, `NobodyStarts`, `StartLost` | the next start time (`Tick`): launchd starts the job; it has no entry for the day, or a job runs still; the host sleeps, or the wrapper gives up (a fault).  Each uses the start time up |
| `NextDay` | after the last start time |
| `StartDaily`, `StartManual` | `main` up to the preflight, at a login or by hand; before 18:30 a daily attempt ends as skipped and changes nothing |
| `ChainAccepted`, `ChainRefused` | the verification at the start, untracked exports included |
| `AlreadyFrozen`, `ExportModified`, `RepairExports`, `NothingFrozen` | the statuses of the day's pair and the branch taken |
| `Persist`, `PersistConflict` | the analysis and the one transaction: insert, equal rows again, or a conflict that rolls back |
| `Export`, `ExportDiffers` | the audit copy of the row, replaced in one step, or `FileExistsError` |
| `RecordKnown`, `RecordBegins`, `RecordAppends`, `RecordEnds`, `RecordRefused` | `record_audit_export` in the loops of both processes |
| `Succeed`, `ReportFailure` | the final `job_runs` row, or its loss |
| `OperatorStart`, `OperatorEnd` | `--initialize-existing`; discovery and validation against PostgreSQL in one step |
| `StepRaises`, `Crash`, `Damage` | an exception, a kill, an edit or deletion of an export |

Abstractions: what an analysis computes, the state and the events of an account
together, is one of `Results`; a day is an XTKS session; the skipped rows of
`job_runs`, `--demo`, and verification without `--initialize-existing` change no state
that a property reads.  One job process
is enough because `JobLocks!MutualExclusion` holds for its locks.  `ExportRank`
gives the order in which the job (short term first) and the operator (sorted
paths, mid term first) work.  An export that a power loss takes back after its
rename is not modelled.

### `ForwardMonitor`

A module of functions of the state of `ForwardLedger`.  What that state does not hold is a
parameter: whether PostgreSQL answers, the days with an error line in the wrapper's log, an
attempt that never ended, a full volume.  The warning for three failed retries and the
categories of the host's state, which add to the list of warnings only, are left out.
`FirstDay` is the session the monitor counts
from, `MissingDays` and `ExportProblems` what it lists, `Warnings` and `Status` its
verdict.  `MissedDaysStay` is an action property over the steps of the composed system,
`QuietWhileHealthy` relates the verdict to the rows, the copies and the chain.

### `PriceCollector`

Sessions are numbered, `Window` and `Place` are the queue of
`candidate_date_phases`, `master` and `etf` the assets and their types, `price`,
`noData`, `target` and `cooling` the rows of prices, items and targets with
`checked_at` reduced to whether the probe interval has passed.  `run` is the local
state of one run: its latest session, the sessions its selection has passed, and
a batch with its answers.  One `Fetch` is one request with its two commits;
`FinishBatch` is the last transaction; a `Crash` may fall between any of them.

Abstractions: what the provider has for a pair (`Traded`) does not change; the
statuses error and retry_pending of an answer are both `failed`; waits between
requests, `api_fetch_logs` and the collector's `job_runs` are left out; there is
one collector, as docs/08 demands, and no one-off batch beside it; the window is
counted in sessions.

### `SelectedForward`

Phase `2d-1` is the time up to 18:30 of the session day `d`, phase `2d` the time after
it.  `selections[v]` is the row of version `v` of the one selection of the model, with
the phase of its commit in `saved`; `events` are the activation events in the order of
their commits, where `at` gives the order of their `requested_at`; `rows[v][d]` is the
account state of `v` on `d`.  `call[u]` is what the call of user `u` has read, `job` the
run that is under way.

| Actions | Code |
|---|---|
| `BeginCreate`, `BeginDeactivate`, `ReadNumber`, `InsertVersion` | `create_lite_selection_version`, `deactivate_selection_version`: read the highest number, insert the next, one of two equal numbers is refused by the constraint |
| `Request`, `CheckLog`, `CheckExposure`, `InsertEvent` | `set_selected_forward_activation`: the version and its events are read in one step (no event of a version comes before it), the account rows in another (only to disable), the insert and commit are a third |
| `Return` | a refusal, an exception or a lost session |
| `StartRun`, `SkipRun` | the selections that are enabled as of 18:30, read once |
| `Advance` | one selection of the loop: the restored state, the merged signals, the row's conflict check |
| `CommitRun`, `GiveUpRun` | the one transaction of `record_job`, or its rollback |
| `Tick` | the time; it passes during calls and runs too |

Abstractions: the two accounts of a version are advanced by the same signals in the same
transaction and are one account here.  Its state is the set of days whose signals it
took, from which the engine recomputes positions; `NoRow` is no state.  `Closes` says
when the positions of a day's signals end.  A run may start for any day whose 18:30 has
passed, as `--observed-at` allows, and a repeated run may find signals where the first
found none.  `effective_from` and `requested_at` are the time of the call; a call may
commit later.  A composition is always unlike the latest one.  The same request once
more is answered from its event and changes nothing, so every call comes with a
`requested_at` of its own.  Users are sessions under READ COMMITTED; the job is one
process because it holds its lock.  At this commit only tests call
`set_selected_forward_activation`; docs/26:90 leaves the call to a screen that is planned.

### `CashAccount`

One run of the engine: `known` is the last session of the price frame, `actions` the
corporate actions it was given, `day` what bars, lifecycle, rate and signals say of
the session.  `positions` and `receivables` are lists in the order of the dictionaries,
`at` the place of the loop, `book` cash, realized result, losses in a row, cooldown and
halt, `blocked` the symbols an action or a suspension keeps from being evaluated.

| Actions | Code |
|---|---|
| `OpenSession` | the next date of the frame, its signals and its actions |
| `WriteOff`, `KeepListed`, `EndLifecycle` | `lifecycle_record_on` for each position: delisted at zero, suspended or absent blocked, else unblocked |
| `PassAction`, `BlockOnAction`, `ApplySplit`, `RecordDividend`, `EndActions` | the actions of the date in the order of their kind |
| `Reject`, `Enter`, `EndEntries` | the gates and the sizing of one signal, and its execution |
| `HoldOn`, `Close`, `EndExits` | one position: not evaluated, nothing met, a stop, a profit or the last day |
| `DeferDividend`, `PayDividend`, `EndDividends` | the dividends that are payable |
| `Value` | the marks, the equity and the drawdown halt |

Amounts are whole numbers: a rate is a part of `Base`, money is counted in 1/Base^4
yen, and only lots are rounded, as in the code, and the prices of a split position, which
the code divides without rounding.  Tax is zero (a tax rate would add one
factor to `Sold` and `NetDividend`); beta, the records of trades and the older engine of
`portfolio.py` are left out.  What a session brings is any element of `Days`.  A
signal stands for one that passed the score filter; its order in `entries` is the order
of the scores.

### `MarginRisk`, `MarginAccount`, `MarginTrading`

`MarginRisk` has functions only: `Eligibility` (`trade_modes.py`), `Card`
(`margin_risk.py`, with its hard and late reasons and its level) and `SelectedMode`
(`mode_selection.py`).  `Unknown` is a value of its own that no threshold accepts.

`MarginAccount` is the runner.  `account` is what the night before left, `entered` and
`advanced` are the two copies that a session works on, `entitled` the dividends
positions have a right to.

| Actions | Code |
|---|---|
| `OpenSession` | the next session; days between sessions are in `calendar` |
| `Enter`, `Refuse`, `EndEntries` | `open_margin_position`: terms, card, limits, lots, cash |
| `Fail` | no bar of a position, or an update in another mode: the run ends with an error |
| `ClosePending`, `DeferPending` | an expired or called position at the open, unless its exit is blocked |
| `CloseByRule`, `DeferExit`, `Hold` | stop, profit, or another day with its financing |
| `Settle` | the merge of the copies, dividends of those held before, maintenance of all |

`MarginTrading` extends both: each candidate carries the options that were compared, its
card and its snapshot, and `SelectedAssumption` says that the candidate is the one the
decision selected, the calendar's lag before the session it is opened in.  The terms it
carries have the validity of its record (`TermsOf`).  `OpenedOnFacts` states what that
chain promises at the decision.  The check of `open_margin_position` is about that moment
too (`margin_position.py:775`), so a record that ends, or is superseded, between the
decision and the open is used.  What a session may bring is a set per session (`Days`),
since a decision is of one date.  An earlier form of it
asked for a review whenever the record calls the inventory for shorts limited; its proof
failed for a long position, for which `margin_risk.py` does not look at that inventory.  The
property now says so of shorts only.

### `ValidationWindows`

`market` is what the price table holds, `rules` the hash of each track's rule,
`registry` the JSON list and `temporary` its `.tmp` file, `evaluated` (a ghost) every
window a simulator has seen.  `run[r]` is the local state of one backtest process.

| Actions | Code |
|---|---|
| `Begin`, `End`, `Crash` | the job lock, the load of the prices, the end in any way |
| `StartTrack` | the walk-forward windows of a track, those cut that reach a frozen forward period |
| `ClaimWindow`, `Replace` | `claim_validation_window`: read, compare, append, write and rename; a registered window with other data or another rule ends the run |
| `Evaluate` | the simulator on the window |
| `ReadActivation`, `ClaimForward` | `claim_forward_period` with its own read and replace |
| `NewSession`, `Revise`, `Requalify`, `ChangeRule` | the data and the code change at any time |

A hash stands for what it is taken of; metrics are left out.  `InOrder` has the checks of
`claim_forward_period` on the dates of its claim.  The sessions of the data are one
stretch; the code takes the union of the sessions of the symbols, which may have gaps.

### `SimulationReview`, `CollectedSnapshots`, `ResearchRecords`

The first two have functions only.  `SimulationReview` has the validators of a frozen
decision, its outcome, benchmark and factors, and the review: results, excess over the
benchmark, factor groups and the excursions with the conservative order inside a bar.
`CollectedSnapshots` has the checks of a target, the attempts of the clients, the three
normalizations, the key of a snapshot and the report.

`ResearchRecords` runs them from concurrent sessions over one table of `rows` (`commit`
0 is an open transaction).  `call[u]` is the call a session is in.

| Actions | Code |
|---|---|
| `Call` | a service is called, in the transaction of the calls before it |
| `Look` | the lookup by hash: exact is an answer, unlike is an error |
| `Reuse` | the check of a formal period |
| `Write` | one insert; it waits for an open insert of the same key |
| `Deadlock` | two inserts that wait for each other |
| `Commit`, `Abort` | the caller's transaction |
| `Load`, `LoadNext`, `Restore` | the three statements of `load_margin_snapshot_as_of` |
| `Collect`, `CollectFails`, `RecordResult`, `RecordFailure` | a collection: fetch, any statement raises, the report with its rows, or the rollback and the error row |
| `SaveVersion`, `NewPrices` | the environment: a new version of the selection, new prices |

`Admitted` puts the checks of the functions that build a record into the step that stores
it: `persist_simulation_review` looks at hashes only, and gets what `SimulationReview`
let through.  `Look` compares contents for every kind; the services of analyses,
backtests, assets and claims do not, and need not, for there the key covers the content.

Tables hold a key and a content; rows of one record (a run and its decisions, trades and
equity points) are written one after the other.  A commit whose confirmation is lost is
not modelled.

## 3. Runs

| Run | Instance | Shows |
|---|---|---|
| `job_locks` | two standard jobs, a selected one, a heavy analysis; the three real lock names | exclusion, truthful owner files, no circular rejection, crashes anywhere |
| `forward_ledger` | two sessions from a Monday on with one start time each, two results, one fault, one manual run, one damage | safety of the composed system, its chain and its monitor |
| `forward_ledger_live` | one Tuesday with its three start times, two faults, one manual run, no damage, with fairness | refinement of `DailyAudit`, attempts end, undisturbed runs complete what is committed |
| `forward_ledger_monday` (violated) | one Monday with its three start times, no fault, no manual run | finding 1 |
| `price_collector` | five symbols of which one always fails, three sessions, batches of three, two faults, one expiry of the master | safety of the collector |
| `price_collector_live` | two symbols, three sessions, batches of one, two faults, one expiry, with fairness | everything is collected |
| `selected_forward` | two users, two requests, two versions, two days, four calls | versions, events and rows under concurrent calls, runs, reruns and replays |
| `cash_account` | two assets in one sector, one quoted in USD, three sessions, one incident | the books, blocks, exits, payments and the open risk of the cash engine |
| `margin_account` | two assets, three modes, three calendars, decisions two days before, one incident | the merge of entries and exits, limits, maintenance, financing; what a decision rests on |
| `validation_windows` | two processes, two tracks, windows of two sessions in five, two changes | claims before looks, one rule per window, an unseen forward period |
| `research_records` | two sessions, two calls of eight kinds and the loads, two versions of the prices | whole records, exact answers, true reports, reviews without hindsight |
| `formal_period_reuse` (violated) | the same with formal claims only | finding 2 |

### Why the bounds are enough

* Job locks: the lock names and their combinations are the real ones; two
  processes of the same job add the case of a run beside itself.
* Ledger and chain: faults strike at any step of any attempt; one fault suffices to
  leave every intermediate state behind.  Attempts at a login or by hand are unlimited in
  every run, so one start time is enough for safety: others would add a start that
  `StartDaily` makes anyway.  Two results make a retry with later data visible.  Two
  sessions let damage and lag of one day meet the attempts of the next; a Monday gives
  the monitor a missed session.  Four paths and two callers give a head that is behind
  another's record.  The liveness run has the three start times: two faults let an
  attempt leave a half-done day, and the next one fail, before the third.
* Collector: `should_mark_target_unavailable` needs three answers without data,
  so batches have three symbols and a fourth one brings the price that an earlier
  batch left; with three sessions and `Recent = 2` the queue has its latest,
  recent and historical part.  The liveness run uses the deployed `--limit 1`.
* Selected forward: create, enable, supersede or disable, and one more call: all orders
  of two calls at once, of a call and a run, and of a call and 18:30.  Two days let a
  row be carried on, replayed and preceded.
* Cash: a position opened in the first session meets an event in the second and is paid
  or closed in the third.  Two positions are what a loop over a changing list needs to
  pass one over, and two orders what a limit needs to be used twice.  `MaxIncidents = 1`
  puts one gap, halt, missing bar or rate, change of lifecycle or thin day into any
  session beside any bars of the others.
* Margin: the calendars have a weekend before or after the second session, and every
  decision is two days old when it is opened; one incident is a missing bar or new terms.  Odd records and inputs are tried one at a time.
* Validation: five sessions hold windows of both tracks that overlap when they are cut
  anew, and a forward period with a window behind it.  Two changes let a rule and the
  data, or two stretches of data, change between and during two runs.
* Records: two calls are what a race needs, or a repetition; every kind meets every
  other.  One path of a short (`Squeezed`) gains first and then owes more than it began with.  Users are symmetric, and so are
  processes, requests and the results of an analysis in the runs above, which is sound as none of these runs has a liveness property.

All bounds are constants: `MaxFaults`, `MaxManual`, `MaxDamage`, `LastDay`, `StartTimes`, `MaxExpiries`,
`LastSession`, `MaxVersion`, `MaxCalls`, `MaxIncidents`, `MaxChanges`, `MaxPrices`, and the
sets of the instances.  The proofs have none of them fixed.  Deadlock is checked except in
the runs of `CashAccount`, `MarginAccount` and `ResearchRecords`, which end after their last
session, or when their calls are used up.

### Fairness

* `ForwardLedger`: a process that is not killed takes its next step
  (`JobNext`, `OperatorNext`), and the evening's start times come one after the other
  (`StartTime`).  There are exactly three of them, each starts the job once at most, and
  each is used up by a job that still runs, by a host that sleeps, and by the refusal or
  the failure of what it started: nothing has the job started again and again.
  `UndisturbedRunsComplete` therefore promises completion at the next start time, if
  there is one, and only while no fault, damage or manual run comes between.  No
  fairness is assumed for `NextDay`, faults, damage, starts at a login or by hand, and
  the operator's start.
* `PriceCollector`: the loop of `--continuous` and `restart: unless-stopped` of
  the compose file (`RunNext`), and the passing of hours (`ProbeIntervalPasses`).
  New sessions, expiries, faults and crashes are not fair; the last three are
  bounded.

The other modules have no liveness property: an engine is a loop over a finite frame, and
a service call ends when its caller does.

### Findings

1. `com.arts1996.market-signal-lab-forward-shadow.plist:16` names the weekdays 2
   to 6, which launchd counts from Sunday = 0 or 7: Tuesday to Saturday.
   docs/08:34 says weekdays.  On Mondays no evening attempt is started.
   The trace is a Monday on which the three start times pass and nobody attempts the day.
2. `selected_universe_validation_service.py:60`: docs/07:187 says that the reuse of a
   formal period is refused by a unique constraint and by the service.  The constraint
   (`models.py:664`) names the id of the version, so it never meets two versions; the
   service refuses with a query before its insert.  Two calls that both query before
   either commits are both stored as `precommitted_unseen`.  `FormalReuseNeedsARace`
   holds: without such an overlap the reuse is refused.

### Other things the models made visible

They are allowed by the code; no run is kept for them.

* Forward job: a process that dies between the replacement of an export and its record
  leaves an untracked export, which every later attempt refuses until the operator
  registers it; a death between record and head stops the chain.  An edit of an export
  between replacement and record enters the chain as if it were the original.  A manual
  run before 18:30 freezes the day early.  A verification while the other process is
  between two records reports `untracked_export`.
* Ledger events: `build_virtual_account_events` keeps the records of the observed day
  only, so what a later run simulates for a missed session is in the state but never an
  event.
* Monitor: without earlier evidence it counts from the expected session, so the first
  missed session is forgotten the next day; an attempt that never ended, or an error
  line older than the last 100, is no evidence.  A log that cannot be read gives an entry
  without `observed_at`, which the warning for a failed attempt reads (`:172`, `:342`).
* Collector: the same missing symbols come first in every run, so with `--limit 1` one
  symbol that always fails keeps the others waiting.  With `--limit 3` or more, a session
  without data is marked, reopened and fetched again by every run.  Each request upserts
  the asset as a stock (`market_service.py:166`), so an ETF of the master loses its type.
* Selected forward: a version that is disabled after 18:30 is still advanced by the run of
  that evening and may get orders that no later run closes.
* Cash engine: the search for unsupported actions ahead is cut at the last known session
  (`ohlc.py:1001`); a split does not change `last_verified_close`, so a position that is
  blocked after a 2:1 split is valued at twice its worth (`:734`); fee and slippage of an order are
  not part of its planned risk, hence `OpenRiskStaysNear`; a position without a bar is
  valued at its entry price; an action dated on a day without a session is never applied.
* Margin: a missing bar of a position ends the run; a short whose reverse fee or minimum
  is unknown is still a candidate; `expected_holding_days` closes nothing; of several
  records in force the last published one counts, not the last that took effect.
* Validation: after a run that died, the forward period may start before windows that run
  has looked at, if the symbols it used lose their qualification.  A newly qualified symbol
  changes the hash of the training data, and the next run of the same rule is refused.
* Records: `review_id` covers `reviewed_at`, so one trade can be reviewed twice.  A
  supportive factor that was only a counterargument falls into no group.  A value that is
  revised under the same disclosure time and period is dropped and reported as a replay.
  The J-Quants client repeats failed connections only, the SEC client busy answers too.
  The drawdown of a short that loses more than it began with is a fall of more than
  everything, relative to its peak: an earlier gain makes it look smaller, so it is not
  below the adverse excursion (`ExcursionsAreConservative` promises what is left).
  Reviews, formal claims and margin snapshots are stored by services that only tests call.

## 4. Proofs

TLAPS checks the following for every value of the constants that meets the named
assumptions (`*Assumption` in the modules): any jobs and decorators, any paths,
contents and recorders, any number of sessions, results, faults, manual runs and
damages, any symbols, windows and batch sizes, any users, requests, versions and ends of
positions, any prices, rates, costs, limits, signals and corporate actions, any tracks and
window sizes, any margin terms, records, calendars and dividends, any calls, contents and
answers of the providers.  TLC evaluates the assumptions on every run.  They say

* that null values are no real values, sizes and bounds are numbers, every job names a lock,
  and orders are strict;
* of the cash engine, that the inputs of a session are of the form the engine accepts;
* of the margin engine, that the dates of a calendar are increasing numbers, prices positive,
  dividends finite in number and not negative, thresholds and rates in the ranges that the
  policies validate, and that a record is of the form the provider's adapter accepts;
* of the records, that a request is of one of the modelled kinds, and that its times, prices
  and quantities are whole numbers (that they are positive is checked by the code, and by
  `IsTrade` and `IsObservation`).

* `JobLocks_proofs`: `JobsExclude`, `OwnerFileCorrect`, `NoCircularRejection`.
  The properties speak of running bodies and of rejections; `IInv` adds what holds on
  the way there.  `HoldsWhatItNeeds`: an idle job holds nothing, a running one all it
  needs.  `AscendingOrder`: a job holds an initial part of its sorted names.
  `OwnerFilesCurrent`: the owner file of every lock it holds names it, the one it is
  about to write excepted.  `BlockerIsAlive` and `HeldBeforeBlock` place a rejected
  job: it holds only locks before the one it was refused, by a job not yet finished.
* `ForwardLedger_proofs`, of the chain: `ChainIsWellFormed`, `HeadIsChainOrItsPrefix`,
  `HeadOnlyGrows`, `NoWayBack`.  `ChainInv` adds that at most one call is past its lock
  (`OneHolder`) and what its local `records` are: the chain and one new record before the
  append, when the head equals the chain (`LockedCall`), the chain itself after it
  (`AppendedCall`).  Of the system: `TypeCorrect`, `PairIsAtomic`, `ExportsAreBacked`,
  `SuccessIsAudited`, `LedgerIsFrozen`, `DamageStops`, `SystemRespectsChain`,
  `SystemImplementsAudit`.  `LedgerInv` takes `ChainInv` over and adds that a call under
  way is about a committed row and about the file its caller is at (`CallsBelong`),
  that the job exports a committed pair and has recorded what it ticked off
  (`ExportsCommitted`), that no copy appears behind the job's back after its
  verification (`AuditedFilesTracked`), and that an attempt which met a damaged copy
  gets no further than the verification (`DamageSeen`).  The second part of `DamageStops`,
  that nobody begins a record while a registered copy is not what was registered, needs no
  invariant: each record verifies the chain again under the lock.  `SystemRespectsChain` shows that
  every step is a step of `ChainSpec` or leaves the chain alone, so the chain's theorems
  carry over.  `SystemImplementsAudit` maps `Persist` to `Freeze`, `RecordAppends` to
  `Log` and all else to stutters.  It assumes `MaxDamage = 0`: an export that is edited
  before its record is written is recorded with its edit.
  Of the monitor: `MissedDaysAreKept` and `HealthyIsQuiet`.  The first day the monitor counts
  from never moves forward as long as there is evidence, since rows, attempts and days are
  only added; a quiet verdict follows from `LedgerInv`, because without faults and damage
  every row has its copies and every copy its record.
* `PriceCollector_proofs`: `TypeCorrect`, `OrderIsKept`, `NothingIsAskedTwice`,
  `FailureIsNotNoData`, `PricedIsAvailable`, `ProbesWait`.  `IInv` adds that a run has done
  nothing before its selection (`NothingYet`), that the sessions it has passed are
  covered or waiting (`PassedIsDone`), that a batch belongs to a session which is not set
  aside (`FetchesActive`), and that what is stored, or about to be, is what the
  provider has (`StoresAnswers`).
* `SelectedForward_proofs`: `TypeCorrect`, `NumbersAreInOrder`, `RequestsAreIdempotent`,
  `NoRowWithoutActivation`, `SupersededOnlyCloses`, `HistoryIsKept`, `RowsStay`.  `IInv`
  adds that nothing was requested, saved or run in the future (`NothingFromTheFuture`,
  from which it follows that no event known on a day is missing in its run), that all
  numbers before one that a call read are taken (`CallsAreSound`), that the selections of a
  run under way are activated (`JobFollowsActivation`), and that its results continue
  the rows they will be added to (`ResultsContinue`).

* `CashAccount_proofs`: `TypeCorrect`, `BooksAgree`, `BlocksFollowPositions`,
  `HaltIsKept`, `NoExitIsMissed`, `DividendsArePaid`, `RiskStaysNear`.  `IInv` adds that no position is of a
  session still to come (`OpenedSoFar`), that nothing is due behind the place the loop of
  the exits has reached (`ExitsSoFar`), and the same for the dividends (`PaymentsSoFar`):
  what is payable and left behind is in USD, and the day has no usable rate.
  A sum over the positions is a recursive function of the place; that it changes by what a
  step adds, removes or replaces is shown by the least place at which it would not; this is
  stated for any field of a position, and used for the cost and for the planned loss.
  `RiskStaysNear`: the part of an order's planned loss that the sizing counts fits what is
  left of the limit (`LotsFitTheRisk`), the rest is the fee and slippage at a rate that is
  never negative (`RatesOfOrders`), and no other step raises the sum.
* `ValidationWindows_proofs`: `TypeCorrect`, `NothingIsSeenUnclaimed`,
  `RulesDoNotShareWindows`, `ForwardPeriodIsUnseen`.  `IInv` adds that only the holder of
  the lock is at work (`LockIsHeld`), that its windows lie inside the prices it loaded and
  the file it is about to rename is the present registry and one claim that no entry
  refuses (`RunsAreSound`), and that all claims, simulated or not, have one rule per
  session (`RegistryIsSound`).  `ForwardPeriodIsUnseen` has two parts: no later claim of
  the track reaches into the frozen period, and the period that a run is about to freeze begins
  behind every session that run has loaded.

* `MarginTrading_proofs`: `BooksReconcile`, `EntriesWithinLimits`, `BreachesForceAll`,
  `FinancingIsOncePerDay`, `EntriesRestOnFacts`.  They rest on `AccountInvariant`: the books
  hold for the account of the night before and for each of the two copies; every position of
  the copy `advanced` is what its original comes to after the turns so far (`Comes`, `IsOf`),
  so the merge takes each position from exactly one copy and adds each change of cash once;
  the entries so far are within the limits of leverage, sector and group of the equity the
  session began with; and after a breach of the maintenance margin no margin position is
  left unscheduled.  The sums over positions and dividends are
  folds of the community modules; what they are after an element is added, removed or
  replaced is derived from the definition of `FoldFunction`, by the least cardinality at
  which it would fail.  `EntriesRestOnFacts` goes through the record, the card, the
  comparison and the entry; it needs `SelectedAssumption`, and dates what it says to the
  decision.
* `ResearchRecords_proofs`: `Invariance`, `AnswersExact`, `RecordsWhole`, `ChecksInvariance`,
  `FormalReuse`, `NoHindsight`, `CollectionsCounted`, `Conservative`.  `RowsInv` says that a
  table has one row of a key, open ones included, and that an open row belongs to a call that
  is under way.  `WholeInv` says that a committed row has all rows of its record beside it,
  that an open one has them for its session but for the inserts still to come
  (`OpenRowsAreWhole`), that every insert so far is in the tables with the content that was
  asked for (`InsertsSoFar`), and that a load has found parts of one record
  (`LoadsInOrder`).  `ChecksInv` adds that a stored review passed every check (from which
  `ReviewableIsPast` has decision, outcome, benchmark and factors known in time, and
  `ReviewableTradeAddsUp` the entry behind the decision, the prices on the way known in
  time, and the reported profit), and that a
  formal claim knows those of its period that were committed before its check.  `CollectionsCounted` needs that a commit with
  snapshots brings exactly one run.  `Conservative` is about `SimulationReview` alone: the
  deepest of the falls exists (`FirstAmong`, `DeepestFall`), a fall from the peak so far is at
  least one from any lower peak (`FallsFromPeaks`), and the places of the best and the worst
  price of an interval in the order of the prices (`PlacesOfUnits`, `ExtremesOfInterval`).

With these, every invariant and every action property of the passing runs is a theorem.
Only model-checked: the liveness properties (`AttemptsEnd`, `UndisturbedRunsComplete`,
`EveryPairIsCollected`), since temporal reasoning with `ENABLED` is out of the prover's
reach, and the two violations (`BusinessDaysAreAttempted`, `FormalPeriodOnce`).  What a recursive definition computes for every input is by
induction and cannot be stated with these provers; the proofs use the least place, or the
least size, at which a claim would fail instead.
`HaltIsFinal`, `OneEventPerRequest`, the type invariants and `FailureIsNotNoData` are
theorems that no run repeats.

Each proof of an invariant has one step per action; the theorems of the form
`Spec => []P` combine initial states, steps and implication with `PTL`.

## 5. Not modelled, and what comes next

* The content of an account's daily state and of its events, beyond "the same or not the
  same"; `--demo`; skipped rows of `job_runs`; the rotation of the log.
* The one-off J-Quants collectors: docs/08 allows one collector at a time, and each is a
  loop of the requests that `PriceCollector` models.  The HTTP clients are I/O.
* Tax, beta, indicators, scores and the metrics of finished simulations: functions of
  floating-point numbers without state.  What they may return is an input of the models.
* FX and FRED collection (one request, one upsert), dashboards, the backup (a dump into a
  temporary file that replaces the last one) and the operations check.

In this order:

1. An abstract account that `MarginAccount` implements: one session is one step, without
   copies.
2. The exports of the selected accounts, which go through the same chain, and an abstract
   log of activations that `SelectedForward` implements.
3. An abstract store that `ResearchRecords` implements: a set of records, each saved once.
4. The one-off collectors as an environment of `PriceCollector`, and its liveness for
   larger `--limit`.
5. Detection of edits of the chain file itself in `AuditChain`.
