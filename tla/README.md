# PolySignal in TLA+

PolySignal (`src/app`) is a FastAPI application that watches Polymarket wallets:
it fetches their trades, stores them (SQLite by default, PostgreSQL in
production), sends Telegram alerts, scores trades, and serves pages and exports
that aggregate the stored data. This directory holds TLA+ models of its core,
the TLC configurations that check them on small instances, and TLAPS proofs of
the safety properties for every instance.

    tlc -workers 2 -config RefreshPostgres.cfg MCWalletRefresh   # one run
    tlapm WalletRefreshProofs.tla                                # the proofs

Paths below are relative to `src/`.

## 1. The system

Route handlers declared with `def` run in FastAPI's thread pool, `async def`
handlers on the event loop, the auto-refresh job in a thread of its own; every
one of them has its own SQLAlchemy session (`autocommit=False`,
`autoflush=False`), so their *statements* interleave and only the database keeps
them apart. Some deployments run several server processes.

| component | state | operations | interacts with | hard | what makes it correct |
|---|---|---|---|---|---|
| **Trade ledger** `app/ingest.py`, `app/models.py`, `app/db.py` | tables `wallets`, `trades`, `sync_events` | `refresh_wallet`, `cleanup_duplicate_trades`, `delete_wallet` | Polymarket API (HTTP), both databases, cache | interleaved transactions, two databases with different rules, errors in the middle, detached objects | a trade is stored once, under a tracked wallet, visible together with the event that counts it; every refresh ends |
| **Telegram alerts** `app/alerts.py` | `trades.alert_sent`, `app_settings` | `seed_telegram_settings`, `save_settings`, `fire_alerts_for_new_trades` | refresh routes, Telegram (HTTP) | network sends inside a transaction, lost answers, crashes, deletions | at most once, never silently dropped, no backlog flood |
| **Query cache** `app/cache.py` | `_store` per process, `time.monotonic()` | `cached`, `invalidate` | pages read through it, refreshes invalidate it | results stored after an invalidation | bounded staleness, freshness after a refresh |
| **Auto-refresh** `app/main.py` | scheduler job, `wallets.last_checked_at` | `_auto_refresh_wallets` | `refresh_wallet`, archive routes | limited batch, detached objects | every active wallet is served |
| **Market resolutions** `app/ingest.py`, `scripts/backfill_resolutions.py` | `market_resolutions`, a lock file | `refresh_resolutions_for_wallet`, `upsert_market_resolution`, backfill | CLOB API, ledger, PnL | concurrent upserts, stale overwrites, starvation, stale lock files | results are never made up, nor lost but to a job that saw them; one backfill at a time |
| **Retention events** `app/retention.py`, `scripts/backfill_retention.py` | bounded `asyncio.Queue`, `event_log`, `retention_daily`, `retention_weekly` | `emit`, `_drain_loop`, `start_drain`, `stop_drain`, `backfill`, live figures | every page, the dashboard | full queue, threads, cancellation, failed batches; sliding windows | in order and at most once; figures are those of the days they name |
| **Models** `app/ml/*` | weights file, a cached singleton, `notable_score` | `get_signal_model`, `reset_signal_model_cache`, features, labels, training, scoring | refresh, signal pages, AI analysis | lazy load against reset, overlapping runs, look-ahead, ties | features know only the past; what is used is what was exported last |
| **Analytics** `app/analytics.py`, `app/queries.py` | none | realized PnL, spikes, new markets, activity, heatmap | ledger, resolutions | partly sold, oversold and untokened positions; window edges | the accounting identity of positions; notices agree with the trades |
| **Startup** `app/main.py`, `app/db.py` | `app.state.ready`, the schema, `schema_migrations` | lifespan, `init_db`, migrations, retries, maintenance, readiness gate | everything | several workers migrate at once, deaths half-way, requests before readiness | the schema is what it claims; nothing is served without it; a worker gets up |
| **Wallet management** `app/routes/wallets.py`, `app/watchlist_seed.py` | `wallets` | add, edit, pin, archive, delete, seed | ledger | seeding against rows that are there | one row per address |
| **Seed and backup** `app/seed_trades.py`, `app/backup.py`, `scripts/` | files, tables | export, import, migrate, seed | tables | tables read one by one, seeded targets, number collisions | a copy that reports success is whole |
| **AI analysis** `app/ai_analysis.py` | `trade_analyses`, `wallets.ai_summary(_at)` | cached analysis, local model, providers, context, panel | models, providers (HTTP) | retraining during an analysis, boundaries of thresholds | an analysis is of one model; its texts tell one story |
| **Login, CSRF, limits** `app/auth.py`, `app/routes/auth.py`, `app/csrf.py` | session cookie, failure window | login, logout, middleware | every request | window boundaries | lock-out after the limit, and its end |
| **Pages and exports** `app/routes/*`, templates | none | rendering | all of the above | - | - |

`PROJECT.json` lists the same components with their status, and the hazards -
what in this code is hard to test - each at the line where it bites.

## 2. Modules

| module | what it is |
|---|---|
| `TradeLedger` | abstract: what trade storage promises, without threads, ids, transactions |
| `WalletRefresh` | detailed: every writer of the trades table as a concurrent transaction; implements `TradeLedger` |
| `Alerts` | the alert subsystem around one wallet's trades |
| `QueryCache` | the page cache, its readers and the writers around it |
| `AutoRefresh` | the scheduler's job and its turn-taking |
| `Paging` | the fetch of a wallet's trades by offset, while the wallet trades |
| `RunLock` | the lock file of the backfill script |
| `Resolutions` | the table of market results and the jobs that fill it; extends `RunLock` |
| `LossyFifo` | abstract: what usage events may rely on |
| `RetentionQueue` | the event queue, its emitters and its drain task; implements `LossyFifo` |
| `Startup` | workers that initialise one database, and the readiness gate |
| `RetentionReports` | snapshots and live figures computed from the events |
| `Performance`, `Activity` | realized profit; spikes, new markets, activity, heatmap |
| `NotableFeatures`, `OutcomeFeatures` | rows and labels of the two models' training data |
| `Scores` | threshold selection and ROC-AUC |
| `SignalModel` | the model singleton, the weights file and the training runs |
| `Analyses` | stored analyses of a trade; extends `SignalModel` |
| `Explanations` | context, panel, local signal and prompt of a trade |
| `Copies` | backup, import, migration, seeding |
| `MCProcess` | composes `AutoRefresh`, `Paging`, `RetentionQueue`, `Startup` for TLC |
| `MCData` | composes the modules about stored data for TLC |
| other `MC*` | constants for TLC |
| `Facts` | lemmas about extremes, finite sets, sums and loops, used by the proofs |
| `WalletRefreshProofs`, `AlertsProofs`, `QueryCacheProofs`, `ResolutionsProofs` | theorems about the module of that name |
| `ProcessProofs` | theorems about the parts of `MCProcess` |
| `LearningProofs` | theorems about `SignalModel` and `Analyses`, `OutcomeFeatures`, `NotableFeatures`, `Scores` |
| `DataProofs` | theorems about the other parts of `MCData` |

Each mutant (a definition that starts with the comment "Mutant:") is a plausible
bug of the definition that follows it. Put in its place, it makes TLC refute the
property that `PROJECT.json` names with it.

### 2.1 TradeLedger and WalletRefresh

`WalletRefresh` models a database and three kinds of threads.

*Database.* `rows` are the rows of `trades`; a row carries the worker whose open
transaction inserted it (`by`), `None` once committed. `tracked`, `status` and
`events` are the other tables. `Backend` selects the rules:

* SQLite: one writer (`writer`), taken by the first statement that writes and
  kept to the end of the transaction, with a busy timeout (`LockTimeout`,
  `Raise`, `CleanupTimeout`); row ids are 1 + the largest present, so they are
  reused; a failed statement leaves its transaction open; foreign keys are
  declared and never enforced, since nothing issues `PRAGMA foreign_keys`.
* PostgreSQL: a unique index makes an INSERT wait for an uncommitted row with
  its `trade_id`; cycles are broken (`BreakDeadlock`); a failed statement aborts
  the transaction, and the commit that the error handler tries then raises too
  (`Raise`); ids come from a sequence; foreign keys hold and cascade.

*refresh_wallet.* The program counter follows the function: `fetch` (HTTP),
`read` (SELECT of existing ids), `insert` (one row of the executemany at a time,
then the outcome-token UPDATE), `flush` (the commit), `post` (scoring,
resolutions, cache, stats), `handle` (`_handle_refresh_error`), `aborted`. The
payload of the API is any subset of the wallet's feed; parsing and
normalisation are inside that choice. `Detached` workers are the auto-refresh
job: their Wallet object has no session any more, so the flush neither checks
nor updates the wallet row.

*cleanup_duplicate_trades* finds the groups, loads them one at a time and
deletes by id at the commit. *delete_wallet* is one transaction.

`TradeLedger` states the promise: a trade enters together with the sync event
that counts it and the wallet's status; a failing refresh leaves an event and
nothing else; a trade leaves with its wallet or for a twin that stays. The
refinement maps committed rows to `stored` and leaves out everything pending.

### 2.2 Alerts

The trades of one wallet, with `alert_sent` as the set `marked`. A call of
`fire_alerts_for_new_trades` is: `MarkStale` (settings read, UPDATE of stale
rows), `Select` (the candidates as committed now, the `Cap` best to send, the
others marked on the objects), one `Send` per trade (delivered, failed, or
delivered with a lost answer), `Commit` (all marks, or none if a marked row is
gone). On SQLite the UPDATE takes the write lock even when it matches no row,
and keeps it while messages are sent: calls exclude each other, and everybody
else who writes waits. On PostgreSQL they overlap. `Import`, `Delete`, `Age`,
`Seed` and `SaveSettings` are the other writers. `enabled` stands for
`alerts_enabled` together with a chat id, which `save_settings` may clear.
`Mishaps` selects what can go wrong; the history variable `hit` records what has
gone wrong so far, so that properties say "until an answer was lost" rather than
leave the case out.

### 2.3 QueryCache

Trade data is a version number. `cached` is `Call` (the clock is read), `Hit` or
`Miss`, `Compute` (outside the lock; it may raise), `Save`, `Return`. All callers
are `async` handlers, so one process runs one call at a time, while refreshes run
in threads: they commit (`CommitChange`) and later `Invalidate` the cache of
their own process. `SilentChange` is `delete_wallet`, which never invalidates.

### 2.4 AutoRefresh

`order` is the wallets sorted by `last_checked_at`. The job takes the first
`MaxWallets` active ones (`Due`) and refreshes them one by one, errors caught.
Its objects are detached, so `order` moves only with manual refreshes, which put
the wallet last (`CheckedNow`).

### 2.5 RunLock and Resolutions

`RunLock` follows `_acquire_run_lock` and `_release_run_lock` one call of the
operating system at a time, since processes share nothing but the file: `file`
is the process that created the file there is now, `signed` those that have
written their pid, `stage` where each is. `unlink` removes whatever file is
there; the history variable `stolen` records that it was another live process's.

`Resolutions` has two kinds of jobs. A refresh selects its `MaxAsked` most
recently traded unresolved markets and commits at the end; a script that holds
the lock selects the `Limit` most traded ones and commits after every `Batch`-th.
Between, each is a loop of `Ask` (an HTTP call that may give nothing) and `Store`
(the row is read as committed now, the answer is set on the object). `unit` is
the session: what the row held when it was read (`found`) and what was set. At
the flush SQLAlchemy writes a column only where the two differ (`Written`), which
is why an old UNRESOLVED does not overwrite a result that came in between, and
a row that another job has added first makes the flush fail (`Abort`).
`Close` is Polymarket; a market that has closed does not change. `Die` kills a
script anywhere.

### 2.6 Paging

A fetch asks for pages newest first, `limit` trades each, at offsets `0, limit,
...`; `Page` is the API's answer at the moment it is given, and `MakeTrade`
between two pages moves every older trade up. `Receive` keeps the page and goes
on, or ends with a short page (`end`), at the offset cap (`cap`) or after the
only page (`page`); `TryAgain` is a transport error or a 429 before the last
attempt, `GiveUp` an exception, which throws the earlier pages away;
`ReceiveOdd` is a payload that is no list, which the code takes for an empty
page. Duplicates between pages vanish, since `got` is a set; that the code drops
them is `WalletRefresh`'s `ReadExisting`.

### 2.7 RetentionQueue and LossyFifo

Events are numbered as they are put. `Emit` is a handler on the event loop, which
never runs while the drain task saves; `CheckFull` and `PutUnchecked` are the two
halves of `put_nowait` in a handler that runs in a thread, for which
`asyncio.Queue` promises nothing. `TakeBatch` and `SaveBatch` are one turn of
`_drain_loop`; an error loses the batch and the loop goes on. `StopDrain`
cancels; the cancellation ends the loop (`Cancelled`), or is forgotten by
Python 3.11's `wait_for` when an event arrives in the same moment
(`CancelForgotten`), and then `stop_drain` waits for a loop that goes on.
`EndProcess` may come at any time. The refinement maps the batch and the queue
together to `pending`.

### 2.8 Startup

Several gunicorn workers, one database, no lock between them. Each worker is a
record: its step in `init_db`, the attempt, what is left to do (`todo`), the
migrations it has seen as applied, and what it did in its open transaction
(`own`, `ownVersions`). `Deploy` finds an empty database, one of an older
release, or one from before migrations were tracked. On SQLite the tracked
migrations run (`ListVersions`, `LookUp`, `Alter`, `Record`): the driver opens a
transaction only at the first INSERT, so the first pending migration's ALTERs
are committed one by one, the later ones with the versions. On PostgreSQL the
compatibility columns are added (`Compat`, `CompatAdd`), where ALTER waits for
the lock on the table. Two tables and three columns stand for the schema: columns
of a migration with several, a table created if it does not exist, a column of a
later version. `Fail` is any error: rollback, and a new attempt up to
`MaxAttempts`, then `degraded`. `Kill` and `Unreachable` are the mishaps. The
middleware is `Arrive` and `Wait`.

### 2.9 Reports, profit, notices

`RetentionReports` has a clock in half days, since the dashboard counts from the
hour and the snapshots from midnight. `Backfill` recomputes the rows of its
window from the events in it, in one transaction, and leaves the other rows.

`Performance` and `Activity` are functions of the stored trades: the actions
store trades late and out of order, settle markets, let time pass. In
`Performance` a trade is of one share and prices are in units of `1/Unit`; rows
without a token and sales without purchases are there. In `Activity` the recent
list is cut at `RecentLimit`, and equal times are allowed.

### 2.10 Models

`NotableFeatures` has one wallet's history by time and id, with means and
deviations compared without division. `OutcomeFeatures` has the sweep over all
wallets and markets, with the announced end of each market apart from the
moment its result is stored. `Scores` has the threshold and ROC-AUC of any list
of scores and labels. `SignalModel` has the lock and the two looks of
`get_signal_model`, the reset, and training runs that open the weights file
(which empties it), write it, set the status and only then reload: a second run
may begin in between (`overlapped`).

### 2.11 Analyses and Explanations

`Analyses` is one request at a time through the code: the stored row and its
version (`LookUpRow`, `CompareVersion`), the model, the score and the threshold,
each from a `get_signal_model` of its own (`TakeModel`, `TakeScore`,
`TakeLimit`), and the save (`SaveLooks`, `SaveCommits`), while training runs
exchange the model, the row expires or is invalidated, and `score_all_trades`
writes scores from another process. A model is the number of its training run,
so a score, a threshold and a version can be compared by where they came from.

`Explanations` computes the market's and the wallet's statistics around a trade
from the stored trades, and from them the panel, the local signal with its risk,
and the stance in the prompt. Percentages are rounded as Python does, a half to
the even neighbour.

### 2.12 Copies

Two databases with wallets, trades and sync events, each row with its number and
its natural key. `ReadTable` reads table after table while the old application
goes on; `Import` keeps the numbers, `Migrate` leaves those of wallets and trades
to the new database; both are one transaction of `INSERT ... ON CONFLICT DO
NOTHING`. The new database may have seeded wallets and trades and written events
of its own.

## 3. Runs

| run | instance | shows |
|---|---|---|
| `refresh_postgres` | 2 wallets, 3 trades (one in both feeds, two of them twins), 2 refreshes, 2 cleanups | type, pending rows, implementation of the ledger (which has no orphans), every refresh ends |
| `refresh_sqlite` | as above on SQLite, workers attached | pending rows, no orphans |
| `orphan_detached` | SQLite, one worker detached | **violated**: orphans after a deletion |
| `alerts_sqlite` | 2 trades, cap 1, 2 callers with 2 calls each, every mishap | at most once until a mishap, silent backlog, nothing silenced |
| `alerts_postgres` | overlapping calls, deletions, one trade below the threshold | delivered trades end up marked, nothing silenced, calls end |
| `alert_twice_overlap` | PostgreSQL, no mishap | **violated**: one trade alerts twice |
| `cache_staleness` | 2 processes, 1 refresher, silent writers, TTL of 2 ticks | bounded staleness; only races are stale |
| `cache_stale` | 1 process, 2 refreshers, every writer invalidates | **violated**: a page after the refresh shows the data before it |
| `process` | job: 3 wallets, limit 3; pages: 6 trades, pages of 1 or 2, offset cap 2; queue of 2 with 2 threads and 5 events; 2 workers, 2 attempts, 1 mishap | every active wallet is served for ever; no trade is skipped; events in order, overfull only by threads, and they leave; truthful schema, complete when served, a worker gets up |
| `auto_refresh_few` | 3 wallets, limit 2 | **violated**: a wallet starves |
| `resolutions` | 2 markets, one without a clear winner; 1 refresh that asks for one, 2 scripts that ask for both | no made-up result; results lost only if seen; backfills overlap only if a live file was removed; nobody is locked out |
| `data` | the instances of `Data.cfg` | `ReportsExact`, `PnlAddsUp`, `NoticedRightly`, `RowsAreHonest`, `LaterChangesNothing`, `JudgedRightly`, `ScoredByOneModel`, `ExplainedAlike`, `CopiedWhole` |

`process` and `data` check several systems side by side: `part` says which one
runs, and the others stay in an initial state. Nothing is lost by that, since no
action of one part reads or writes a variable of another, and each property
speaks of one part only; a product of the parts would only multiply the states.

What the properties of `data` say:

* `ReportsExact`: whatever windows were run before and after, a daily row is
  right about every day it depends on that was over when it was computed and that
  the run has read; the weekly and the daily table agree on the week; the live
  figures count all of the trailing days and at most one day more.
* `PnlAddsUp`: realized profit is the cash of the known trades settled one by
  one, plus one unit for each oversold winning share, and nothing else, so a
  missing purchase can only flatter; a hedged position earns the same whichever
  side wins; a profit needs a won market and a loss a lost one.
* `NoticedRightly`: comparing neighbours of the sorted list finds a spike exactly
  when some `SpikeCount` trades lie in a window; an announced new market is the
  wallet's first trade there unless the limit cuts the day; the three views agree.
* `RowsAreHonest`: a row does not carry its own value, nothing later reaches a row,
  a label or a score, a wallet that repeats one value is never notable, and the
  split is by time.
* `LaterChangesNothing`: an outcome stored later changes an earlier row only
  through a market whose announced end had passed.
* `JudgedRightly`: the threshold has the best F-beta among those allowed, the
  highest of equals, and flags few rows if any can; rank sums count pairs.
* `ScoredByOneModel`: an analysis that passes for the loaded model's was scored
  and flagged by it, unless runs overlapped; with no run in flight the loaded
  model is the one in the file.
* `ExplainedAlike`: panel, signal and prompt agree on novelty, flag and crowd; YES
  and NO are treated alike, checked at every percentage.
* `CopiedWhole`: a copy that succeeds has everything it read and took nothing
  away; a copy into an empty database fails only for a trade read after its wallet
  was missed; both databases stay consistent throughout.

*Bounds.* `MaxRefreshes`, `MaxFires`, `MaxSends`, `MaxClock` and `MaxVersion` cap
what would grow without end; each guards the action that starts something new,
never one that finishes it, except `MaxSends`, which lets a message fail once
the cap is reached. Two actors of a kind are enough for the
races: each property speaks of a pair (two rows, two calls, a call and an
invalidation). Two wallets with a shared trade are needed because `trade_id` is
unique over all wallets, and twins for the cleanup. Three ticks with a TTL of two
let an entry expire, be replaced and expire again. Three pages of a fetch reach
the cap and pass it; a queue of two is filled by the loop and overfilled by both
threads; two workers and one mishap meet at every statement of a migration, and a
third could only repeat what the second does. In `data`, three trades are a
position with a purchase, a sale and a sale too many or a hedge; five fills hold
two windows of three; weeks have two days, so that five days hold a day,
the week after its next one and a run after that; five trades leave four rows to
be split by time; two training runs and a reader hold every
order of file, cache and row. The theorems remove the bounds for the safety
properties of the modules they are about.

*Deadlock* is not checked where a system may stop because its bounds are used up
(`CHECK_DEADLOCK FALSE`); `auto_refresh_few` and `process` check it.

*Fairness.* A refresh that has begun goes on (`WF` of its steps): HTTP calls
have timeouts, lock waits too, PostgreSQL breaks deadlocks, and threads are
scheduled. A call that alerts likewise. Nobody has to start a refresh, a call, a
cleanup or a deletion. For the scheduler: startup ends, the interval trigger
keeps firing (`WF(StartJob)`), and a job that runs goes on. A backfill process
that is in the lock's code goes on unless it is killed; nothing is assumed of its
work. The drain task is a task of the event loop, which runs its tasks
(`QueueFairness`); the startup task of a worker goes on (`StartupFairness`), each
of its statements with a timeout. In `process` the actions of the job carry their
part in the fairness, because `Ready` could be taken in the job's initial state
while another part runs.

## 4. What the violated properties say

* `orphan_detached`: `_auto_refresh_wallets` closes the session it loaded the
  wallets with (`app/main.py:310`). A wallet deleted meanwhile gets its trades
  back on SQLite; on PostgreSQL the foreign key refuses them. `delete_wallet`
  says that the trades are gone.
* `alert_twice_overlap`: on PostgreSQL nothing keeps two calls from selecting
  the same trade. README and docstring promise at most once. A lost answer, a
  crash before the commit and a duplicate fetched again after a cleanup have the
  same effect on either database; `OnceUnlessHit` excludes them by `hit`.
* `cache_stale`: `invalidate()` does not reach a value that is being computed.
* `auto_refresh_few`: for the same detached objects `last_checked_at` is never
  written, so the job's order never changes.

* The docstring of `_acquire_run_lock` ("so two backfills do not hit the DB/API
  at once") has no run of its own, `OneUnlessStolen` says when it fails: a file
  is created empty and the pid written later, so a second starter in between
  reads pid 0, removes it and goes on; and of two starters that read the same
  stale pid, the slower one removes the file the faster has just created.
  `OneBackfill` as an invariant of `Resolutions.cfg` gives the trace of the first;
  the second needs a third process, the dead one.

Behaviours that are in the models and have no run of their own: on SQLite an
INSERT that fails half-way is committed with its first rows by the error handler,
under an event that says `error` and 0 inserted (`RejectRow`, `HandleError`; the
ledger is therefore refined on PostgreSQL only); an exception in the stats
snapshot makes a successful refresh write a second event `error` (`Post`); on
PostgreSQL a refresh whose INSERT fails leaves no event (`Raise`); two cleanups
on SQLite can remove both twins, because an id freed by the first is reused for
a trade the second has already condemned (`NextId`, `CleanupCommit`); a startup
whose maintenance failed, followed by a token saved by hand, sends the backlog
(`hit` contains `seed_fails`).

Observed while modelling the later modules, where a property states how far the
code goes rather than what a text promises:

* *Fetch.* A refresh of everything is called the complete history, but the offset
  cap ends it (`cap` in `NothingSkipped`: trades made meanwhile count against the
  cap), and a payload that is no list ends it as if complete (`odd`).
* *Usage events.* Events queued at shutdown are lost (`stop_drain` cancels, nothing
  flushes), and threads can overfill the queue by one event each. Requests that
  the readiness gate, the login redirect or CSRF turn away never reach the
  middleware that emits and adds headers.
* *Reports.* A run with a window of `n` days overwrites its oldest `Week - 1` daily
  rows with trailing figures that miss the days before the window, also where an
  earlier, longer run had them right.
* *Startup.* A worker whose attempts are used up answers 503 until it is restarted;
  at shutdown the startup task is cancelled but its thread goes on. The first
  session of a script or of a process that skips the lifespan runs `init_db`
  itself: another worker of `Startup` without a gate.
* *Models.* Two training runs may overlap between "done" and the reload, and then
  the templates may keep the older threshold; a half-written file is cached as no
  model until the next reset; training in another process resets nobody's cache; a
  reader between reset and reload may get none. `overlapped` marks the first.
* *Outcome data.* `resolved_at` is the announced end (`app/ingest.py:416`), not
  the moment of the result, so a market that was decided late counts as known from
  its announced end on (`LaterChangesNothing`).
* *Copies.* The import keeps ids, so a target whose seeded wallets have the same
  ids under other addresses makes it fail as a whole, and sync events with a taken
  id are skipped as duplicates; sequences are not advanced by either copy, so the
  next insert may find its number taken; the migration leaves out `outcome_token`,
  `notable_score` and `ai_summary`, and neither copy has `market_resolutions`,
  though the README of the repository speaks of a full backup; a trade stored
  between the reading of wallets and of trades, for a wallet added in between, makes
  the copy fail. The watchlist seeding overwrites labels, tags and notes of its
  wallets at every start.

## 5. Proofs

Every invariant and every action property that a passing run checks, and both
refinements, are theorems: they hold for every value of the constants that
satisfies the named assumption of its module. The assumptions say that the sets
of wallets, users, markets or prices are finite, that bounds and limits are
natural numbers (a positive page, week, unit or number of wallets), that a
percentage is one, and that the value for "nobody" is nobody:
`RefreshAssumption`, `AlertsAssumption`, `CacheAssumption`, `RunLockAssumption`,
`ResolutionsAssumption`, `PagingAssumption`, `QueueAssumption`,
`StartupAssumption`, `AutoRefreshAssumption`, `ReportsAssumption`,
`PerformanceAssumption`, `ActivityAssumption`, `NotableAssumption`,
`OutcomeAssumption`, `ScoresAssumption`, `SignalAssumption`,
`ExplanationsAssumption`, `CopiesAssumption`. TLC evaluates each of them.

### 5.1 Ledger, alerts, cache, resolutions

* `WalletRefreshProofs`. `TypeCorrect`. `PendingCorrect`: `PendingIsMine`, by an
  invariant over program counters - a transaction can be open only in `insert`,
  `flush` and then `handle` (SQLite) or `aborted` (PostgreSQL) - and, on SQLite,
  over the write lock. `NoOrphanTrades` is conditional on PostgreSQL or no
  detached wallet; its invariant also says that on PostgreSQL a *pending* row's
  wallet is tracked (the foreign key makes the deletion wait), which `NoOrphans`
  alone does not carry through the commit. `ImplementsLedger`: initial states and
  steps map to `TradeLedger`; its invariant adds `UniqueRows`, that sync events
  are never repeated, and that cleanup never condemns the lowest id of a group
  (ids only grow on PostgreSQL).
* `AlertsProofs`. `TypeCorrect`, `SilencedCorrect` (what a call marks it has
  delivered, outranked or found old), `BacklogCorrect`, `DeliveredCorrect`,
  `OnceCorrect`. `hit` only grows, so a claim "until a mishap" is proved
  assuming that nothing has happened *after* the step. `OnceCorrect` rests on
  the lock: on SQLite at most one call is past its UPDATE.
* `QueryCacheProofs`. `TypeCorrect`, `StalenessIsBounded` (a stored entry was
  current at some time not more than TTL before it expires), `OnlyRacesAreStale`.
* `ResolutionsProofs`. `TypeCorrect`. `ResultsCorrect` (`NeverFabricated`): the
  invariant `Truth` follows a result from the API through answers and sessions
  into the table. `LostCorrect`: from `Truth`, a row that was written over a
  result can only carry UNRESOLVED, and the flush wrote it because the row had
  been read with the result. `OneCorrect`: as long as nothing was stolen, the
  file is that of every process between its creation and its release.

### 5.2 ProcessProofs

* *Paging.* `PagingTypeCorrect`, with `ClampBounds`: any limit becomes one of
  `1..MaxPage`. `NothingSkippedCorrect`: `NothingSkipped` speaks of what was
  fetched and of how a fetch ends, and is not inductive; `BehindIsFetched` adds
  that while it asks, every trade whose position has moved behind the next offset
  is there. Trades made meanwhile only raise positions, so that stays true.
* *RetentionQueue.* `QueueTypeCorrect`, `OverfullCorrect` and `KeepsOrderCorrect`,
  the refinement of `LossyFifo`. The invariant `QueueInv` bounds the puts with
  those still to come and says that a cancellation is pending only at the await.
  Taking a batch is a stutter of the FIFO (the front of `batch \o queue` is
  unchanged), saving stores or loses a prefix, the end of the process loses all.
* *Startup.* `StartupTypeCorrect`, `MigratedCorrect`, `ServedCorrect`. What a
  recorded version promises holds of the committed schema (`StartInv`); for each
  worker, `Local` says what it has secured at its step: every migration it has
  passed is in what it sees, what it is at is seen or still to do, and the versions
  of its open transaction are of what it sees. One lemma for each action; objects
  are never removed, so what one worker does keeps the others' facts. The theorems
  hold for any number of workers, attempts and mishaps, for the schema of the
  module.
* *AutoRefresh.* `JobTypeCorrect`: a check keeps the order a permutation of the
  wallets (`CheckedNowSorted`), and a batch is of active wallets, at most
  `MaxWallets` of them: every rank up to its size is taken (`RankTaken`).
* `ProcessTypeCorrect`: the types of all four parts at once, for `MCProcess`.

### 5.3 LearningProofs

* *Analyses and SignalModel.* `OneModelCorrect` (`ScoredByOneModel`), in three
  layers. `CacheInv`: what the lock protects, and that the cache can differ from
  the file only while a run is between its export and its reset. `AloneInv`: while
  no runs have overlapped, the cache is empty only until the run has reloaded; this
  gives `ModelIsCurrent`. `AnalysesInv`: every model number in use - cached, read,
  in a draft or a row - is older than an exported one still to be loaded, so the
  cache never comes back to a number it has left, and parts of a draft that carry
  the cached number were taken from that model.
* *OutcomeFeatures.* `LaterChangesCorrect`: a row is a function of the trades before
  it and of the outcomes known to it (`SameRow`), a new trade comes after all others
  (`BetsArePast`), and an outcome is known to a row only if the market's announced
  end was over before.
* *NotableFeatures.* `RowsCorrect`, of five lemmas: the order by time survives
  every insertion (`ByTime`), the statistics of a row are sums over the rows before
  it, and a row of a constant history has no deviation to exceed.
* *Scores.* `JudgementCorrect`. The threshold loop keeps the best of the candidates
  it has seen (`BestOf`, with fractions compared by cross multiplication, which is
  transitive as denominators are positive: `FractionOrder`). The rank sum counts,
  for each positive, all rows below it; the pairs among the positives add up to a
  constant (`PositivePairs`), which is what the code subtracts.

### 5.4 DataProofs

* *RetentionReports.* `ReportsCorrect`: each stored row is right about the days it
  depends on that were over and read (`RowsRight`). New events are of today,
  so they leave it right, and a run reads whole days from its first one.
* *Performance.* `PnlCorrect`. Cash is summed trade by trade, profit position by
  position: grouping a sum by the market and the token of its trades connects them,
  and the difference is the unit for each oversold winner, which is nonnegative.
  Verdicts come from the sign of a sum, the hedge from the two tokens of a market
  paying one unit together.
* *Explanations.* `ExplainedCorrect`. That panel, signal and prompt agree follows
  from the inclusions between the sets they are drawn from, the thresholds from
  their order. `SidesAreAlike` is a symmetry: turning every trade round (side, and
  price from 100) is one to one on every set involved, so counts and sums are
  kept, shares become what is missing to 100, and rounding half to even respects
  that (`RoundOpposite`); then each mood, leaning and stance turns into its
  opposite.
* *Activity.* `NoticedCorrect`. The sorted times are given by ranks; the i-th is no
  earlier than `t` exactly when at least i trades are (`NewestFirstOrder`), and so
  neighbours `SpikeCount - 1` apart bound the trades of a window, both ways.
* *Copies.* `CopiedCorrect`. The loop over a table's rows is followed by an
  invariant (`Filled`): the table only grows, stays consistent, has what came or
  something in its place, keeps its numbers below its sequence, and, begun empty,
  fails only for a trade whose wallet is missing. The inductive invariant
  `CopiesInv` adds that the rows that were read have different numbers.
* `DataTypeCorrect`: the types of all nine parts at once, for `MCData`.

### 5.5 How data is reasoned about, and what is not proved

Sums, sorted lists and loops call for induction over data, which the provers
cannot instantiate from the library (its theorems take an operator). `Facts` goes
round that: where a statement about all finite sets or numbers fails, there is a
smallest counterexample (`SmallestSet`, `LeastNat`), and its smaller neighbour
gives the contradiction. In this way it derives that a sum takes its elements in
any order, splits over disjoint sets and groups, respects order and renaming, and
that a loop over a list exists with its recursion (`LoopsExist`).

Model-checked only: what is temporal beyond safety (`RefreshEnds`, `FireEnds`,
`EveryWalletServed`, `NeverLockedOut`, `EventsLeave`, `SomeWorkerStarts`), since
fairness and `ENABLED` are out of TLAPS's reach; and the properties that the code
does not have (section 4), where there is nothing to prove.

## 6. What is left out

Data that no property tells apart: prices, sides, titles, messages, log lines.
SQLAlchemy's identity map beyond detached objects. Reads that need several
SELECTs are one step in `QueryCache.Compute`; a page that mixes two versions is
not distinguished from the older of them. Of `refresh_wallet`, scoring and
resolution fetching after the commit are one step that may fail; what the
latter does is in `Resolutions`, the former in `Analyses.ScoreAll` and
`NotableFeatures.ScoreRow`. A pid that the operating system gives to another
program would make a dead lock look alive; Windows refuses to remove an open file.

Not modelled:

* *Login, sessions, CSRF, rate limits.* Every request is judged alone, by a handler
  that awaits nothing between reading and writing its state; what is left is a
  window of failures per address, which a test reaches.
* *Pages, exports, templates.* Read-only rendering without a state of its own.
* *Add, edit, pin a wallet; discovery; alerts test button.* Single-row updates,
  and the ranking of an outside service's answers.
* *Gradient training, sigmoid, early stopping.* Floating-point arithmetic; the
  models of training are about which rows go in and which file comes out.
* *The outcome model's singleton.* The same code as `SignalModel`'s.
* *AI providers.* Their answers are outcomes; prompts and parsing are wording.
  Wallet summaries are cached by age, like a row of `Analyses` without versions.
* *Indexes, type upgrades, pruning of sync events* in `app/db.py`: idempotent
  statements under the same retries.

## 7. Plan

The modules are split as the code is; what comes next goes into the compositions
that are there.

1. `Startup`: the shutdown while the startup task still runs, and a script as a
   worker without a gate.
2. `Copies`: the sequences of the new database after a copy, with the inserts of
   an application that goes on there, and the tables that are left out.
3. The early stopping of the training loop, as a function of the losses.
