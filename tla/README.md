# Formal models of the Kalshi predictive bot

TLA+ modules, TLC configurations and TLAPS proofs for the parts of this
repository in which several actors share state, or one actor keeps state that
outlives its failures: the watch service and its orderbook stream, the staging
directory between it and the database, the decision refresh with its gate to
paper orders, the paper-trading ledger and the risk reservations.
Paths are relative to the repository, `K/` stands for
`src/kalshi_predictor/`.

    tlc -config OrderbookStream_one.cfg OrderbookStreamMC     # any run below
    tlapm OrderbookStreamProofs.tla                           # any *Proofs module

## 1. Inventory

The bot watches Kalshi markets, stores what it sees, forecasts outcomes, places
*simulated* orders on its forecasts and learns from how they settle. Nothing in
the scheduled services trades for real.

    exchange --WebSocket/REST--> watch service --files--> drain / refresh --SQL--> database
                                      ^                        |                     |
                                      +---- candidate manifest-+                     v
                       paper runs, decision UI, activation, learning cycles, paper-pnl

| part | code | state | operations | what is hard |
|---|---|---|---|---|
| Orderbook stream | `K/kalshi/orderbook.py`, `K/ingest/websocket_orderbooks.py` 57-250 | one `LocalOrderbook` per ticker (levels, sequence), delta counter of the run | snapshot, delta, gap recovery over REST, staging, run start and end | lost, repeated, late messages; REST and the wire show different moments; half-parsed snapshots; failing writes |
| Staging directory and drains | same file 251-320, `K/data/locks.py`, `scripts/cloud/kalshi-gh1-drain.sh`, `scripts/cloud/kalshi-gh2-decision-refresh.sh` | files, archive, `market_snapshots`, `markets` | stage, list, insert, commit, archive | half-written files, deaths between commit and archive, drains with and without the flock, a monitor that sees only some writers |
| Paper ledger | `K/paper/ledger.py`, `simulator.py`, `strategy.py`, `pnl.py` | orders, fills, positions, settlements, realized P&L | paper-run, UI order, paper-pnl, settlement sync, paper-reset | sessions that read before they lock, read-modify-write of sums, two databases with different isolation |
| Position sizing, learning duplicates | `K/position_sizing/`, `K/learning/duplicates.py` | none of their own | size within what is left of a cap, cooldown | eight caps, three modes and two fallbacks; values read before the lock and used after it |
| GH-1 watch loop | `K/ingest/websocket_watch.py` | cached tickers, next discovery, backoff, catalog file | discover, stream, back off, die, restart | stale caches, a catalog and a cache that disagree, a manifest nobody rewrites, retry times set by different lines |
| GH-2 decision refresh | `K/phase_gh2.py`, `K/gh2_weather_identity_shadow.py`, the cloud's refresh script | session, manifest, soak history, report | drain, import, commit, publish, archive, record, report, append diagnostics | deaths between commit, publish and archive; a refresh by hand beside the service's; a report read, held and written back; a history read and replaced without a lock |
| Local fixed-rate loop | `scripts/local/kalshi-fixed-rate-refresh.sh`, `K/research/fixed_rate_health.py` | health file: status, count of healthy cycles | start a cycle, note a stage, finish a cycle | it goes on after a stage that failed; a kill leaves the file as it is |
| Crypto quote staging | `K/single_writer_coordinator.py` | one file per source and symbol | stage, drain, archive | names that are used again, files rewritten in place |
| GH-4 activation gate | `K/phase_gh4.py` | none of its own | open or closed by the health file, where there is none by the report | a report that has outlived what it says; a health file of any age |
| Advanced risk | `K/advanced_risk/` | reservations | decide, reserve, attach, fill | a lock per process that is let go before the commit, old reservations met again, reservations no one gives back |
| Autopilot | `K/autopilot/` | runs, cycles, risk events | cycle, guardrails, order | caps per cycle |
| Activation, learning cycles, settlement reports, REST client, forecasters, UI, memory | see `PROJECT.json` | | | |

How they touch each other: the stream hands over only files; drains hand over
only committed rows; every trading session reads committed rows and competes for
one write lock (SQLite) or for rows (Postgres). The refresh's manifest comes back
to the watch, which streams what it names; the refresh's report is what an operator's
activation is gated on, except beside a local loop, whose health file goes before it. Section 6 says what is not modelled and why.

What makes each part correct:

- *Stream*: a numbered book is the exchange's book of that number; a staged file
  misses no more changes than the checkpoint interval and the failures since explain; damage does not outlive a run.
- *Drain*: nothing staged is lost, nothing is stored twice without a reason, the
  book with the last name wins, every book gets in eventually.
- *Ledger*: positions are the sum of their fills; caps, cooldowns and one order per
  forecast survive races; realized P&L is the settlement's, and becomes so.
- *Watch*: discoveries keep coming whatever fails, the catalog soon names what is
  streamed, a ranked candidate and a series with quotes in its first page get streamed in the end.
- *Refresh*: the gate is open only for what the history was given; quotes are neither lost
  nor imported twice unless something went wrong; manifest, history and commit agree.
- *Risk*: open risk stays within its limit, and no risk counts twice.

## 2. Modules

| module | models | uses |
|---|---|---|
| `OrderbookStream` | exchange, wire and adapter, one message handler per action | |
| `StageDrain` | watch service's files, drains, flock, writer monitor, deaths | `SnapshotLog` by `INSTANCE ... WITH` |
| `SnapshotLog` | abstract: books stored in batches that leave nothing older behind, then leave the directory; stored again only after a fault | |
| `PaperLedger` | trading, P&L, settlement and reset sessions on SQLite and Postgres | `PositionSizer`, `PaperTrades` by `INSTANCE ... WITH` |
| `PositionSizer` | no state: the sizes `DynamicPositionSizer.decide` and the risk engine let through | |
| `PaperTrades` | abstract: a book of positions in which a commit changes each market by at most one whole trade within the cap, or wiped | |
| `WatchLoop` | the watch service around the stream: discovery, cache, catalog, backoff, deaths | |
| `DecisionRefresh` | quote staging, the refresh by the cloud's timer or the local loop and by hand, its outputs, the health file, the gate | |
| `RiskReservations` | reservations of trading sessions under the limit on open risk | |
| `*MC` | the instances TLC checks | the module of that name |
| `*Proofs` | theorems | the module and `TLAPS` |
| `FiniteSums` | no part of the system: lemmas about sums over finite sets, for the proofs | `TLAPS` |

### OrderbookStream

`run` handles one message without an `await`, so receiving, applying, recovering
and staging it is one action (`Receive`). The exchange is free between any two
messages, and a REST read inside a handler returns its book of that moment.
`books` is `adapter.books`; `wire` is what the socket holds. `Connect` builds a
new adapter as every watch cycle does, with empty books and a snapshot per
ticker in any order; `EndRun` is the deadline or a closed connection.
`SnapshotArrives`, `DeltaApplied` and `GapRecovered` are the branches of `run`,
`Rejected` its `except`. A snapshot whose *no* side cannot be parsed has already
replaced the *yes* side (`LoadYesOnly`), one whose number cannot be parsed both; the
handler raises then, as it does when staging fails, and no file is written (`Unstaged`).
Sequences are per ticker because that
is what `LocalOrderbook` compares. `origin`, `unstaged` and `stageFailures`
are history variables that state the properties and decide nothing. Mistakes such
as `AcceptsSkips` are not part of any specification: they are plausible bugs kept
beside the definition they alter, to see the properties fail.

### StageDrain

Files of one ticker: other tickers add files, not behaviour. `BeginStage` and
`FinishStage` are `write_text` creating and filling a file, `Tear` the service
dying in between. A file's number is whatever the book has: deltas count it up, but a
snapshot, a recovered gap and a new connection set it lower or higher. A drain is `Start` (script and flock), `Gate` (the monitor),
`List` (the sorted glob), `Insert` per file, `Commit`, `Archive` per file,
`Finish`; `Unreadable`, `LockTimeout` and `ArchiveGone` are the places where
it raises and `Kill` may hit it anywhere. The flock is held until the process
ends; a refresher keeps it for the rest of its cycle, one step here. The monitor is
asked by the script, the command and the drain: the last answer decides and the
earlier ones are merged into it. A session holds SQLite's write lock from its
first insert to its commit (`Writing`).

### PaperLedger

One transaction orders, fills and updates the position. `Size` makes all reads
that precede the first write; `Insert` takes the write lock (SQLite) or only
inserts (Postgres) and, for paper runs, looks again at market, duplicates and
cap as `generate_paper_decisions` and `create_paper_order` do. `ReadPosition`
and `WritePosition` are the two halves of `update_position_for_fill`; `Commit`
makes them visible; `Abandon` is every early return, exception or death.
`AuditRead`, `AuditPrice` and `AuditCommit` are `calculate_and_store_pnl`: rows
first, then fees and settlements, then the columns that differ. On Postgres every
statement reads the last commit (`make_engine` picks READ COMMITTED); on SQLite
the write lock is global. Runners are sessions of `run_paper_trading`, desks the
callers of `create_paper_order` that do not look at the cap again.

A session handles one candidate. A paper run in the code handles one candidate per
ticker (`get_latest_forecast_per_ticker`) and commits them together, which touches each
ticker as one candidate does; what is promised is therefore per market: `PaperTrades` lets
one commit trade in several. Duplicates in learning mode are looked up by market, model
and side (`candidate_key`), so `TickerOf` and `ModelOf` give each forecast its own. A
settlement pays a yes contract anything from nothing to a dollar (`Payouts`), and may have
no value to work with (`Unvalued`). Sizes are those that `PositionSizer` lets through for what
is left of the position cap (`Remaining`); prices are whole units, so an average price is
carried as its cost. Left out: `paper_pnl` history
rows, unrealized P&L, choice among candidates by edge and score, daily and open-order
caps, paper-reset on Postgres.

### PositionSizer

`Executed` is `decide` with its fallbacks, `Caps` its eight caps, `Candidate` what live
mode executes, `AfterRisk` what the advanced risk engine may leave. An input
(`Inputs`) carries the tier and the caps that scores, drawdown and history amount to, not
these numbers; the high tier goes only with a history that lifts the history cap. Settings
are one constant record `Sizing`. Left out: the weighted score, the historical
evidence and its cache, reason codes and the decision log.

### WatchLoop

One cycle of `run_reconnecting_websocket_watch` at a time: `Discover` or `StreamAgain`, then
`Prefer` per manifest ticker (each request may fail by itself), `Fallback` per series
up to `Room` from the one page of open markets it asks for (`Listings`), and `Discovered`, which replaces `cached` before it writes the catalog
(`WritesCatalog`), as the code does; `DiscoveryFails` and `FindsNothing` are its two
other ends, which set the next discovery differently or not at all. `BacksOff` is
the `except` of the cycle. Time is units of `StreamGoesOn` and `SleepGoesOn`; `left`
is what `next_discovery_at` still has to run, so a discovery itself takes no
time. `Die` and `Restart` are the process and systemd. `Unrest` lets exchange and
manifest change and everything fail until `calm`, which only the liveness properties ask
about. The stream inside is `OrderbookStream`, the manifest's writer `DecisionRefresh`.

### DecisionRefresh

`Service` is the service of the host: the cloud's script or, where `local` is set, the
local loop. `StageBegins` and `StageEnds` rewrite the quote file
in place, `Locks` or `Defers` are the flock and, in the cloud, the monitor. From `gate` on
it takes the same steps as an operator's run, each named for the function it stands for:
`Drain` reads the file inside the cycle's transaction, then `Commit`, `Publish` (manifest),
`Archive` (whatever has the name by then), `ReadHistory` and `Replace` (soak history),
`Report`. The cloud's script goes on with `Diagnose` and `AppendShadow`, which read the
report, ask the network and write the report back without the lock. `Die` may hit every
step, and ends the cloud's script with it; the local loop goes on (`GoesOn`), to the refresh
after a staging that failed, notes the failure in the health file (`Fails`) and closes the
cycle with `Finishes`. Its other stages are the choice `Finishes` has. `LoopDies` kills the
loop itself. A run is seen by the monitor only once it has opened the database (`Core`), so
two may pass together.

`rows` are all rows refreshes ever put in the soak history, `history` those the file has.
`Replace` writes what the run read and its own row, whatever came between. Runs beside each
other share one temporary file: one may move the other's into place, or part of it, and the
other's replace then raises (`Beaten`), so after a row put beside another run the next
reading finds any part of the rows (`Spoiled`). `HealthGate` and `ReportGate` are the two branches of the GH-4
preflight: `gh4-paper-activation-preflight` believes the health file where it finds one
beside the default paths. `rows`, `alone`, `settled`, `byHand`, `repeats`, `mishaps` and
`since` are history variables.

Left out: the books (they are `StageDrain`'s), links, forecasts and rankings inside the
transaction, `has_candidate` and the switches of the gate, which only close it more often,
updates of the health file that fail, which the loop ignores, staging by hand, the moment
between reading the clock and writing the row, which are one step, and the temporary files of
manifest and report, which two refreshes share as well.

### RiskReservations

A run sizes all its candidates and then orders the ones it kept, in one
transaction. `Size` is `ensure_paper_decision_sized` with the advanced risk check in
live mode: it sees what is committed and its own writes, and `Reserved` is
`reserve_advanced_risk`, which returns an existing reservation as it is. `Order` attaches
the decision and spends the reservation, whoever made it (`Spends`); `Refuse` is
`create_paper_order` returning `None`; a candidate dropped or refused keeps its
reservation. The first write takes SQLite's lock (`LockFree`); on Postgres only
the unique trade intent orders sessions (`IntentFree`). The lock of `reservation_lock`
is let go before the commit and per process, so it orders nothing here. `Reset` deletes
orders and positions and keeps reservations.

Left out: equity changes, the caps other than the one on open risk, per-contract
cost (a contract risks 1), shadow and disabled mode, which reserve nothing.

## 3. Runs

| run | asks | result |
|---|---|---|
| `stream_one` | Types; `DriftConfined`: a level of a numbered book is the exchange's, unless it changed between the number the side was loaded at and the update it showed; `CheckpointBound`: the last file of a run misses fewer changes of the book than the interval times one plus the handlers that raised since after changing it; `DriftEndsWithRun`: a book REST may have falsified is thrown away | hold |
| `stream_twice` | `NoDeltaAppliedTwice`: a delta the REST book includes is not applied again, as a comment in `_recover_from_gap` asks | **violated**: deltas in flight behind the one that exposed the gap are |
| `drain_services` | both services under the flock: `KeepsLog` (refinement of `SnapshotLog`), `DuplicatesOnlyFromKills` (stored again at most once per death), `BehindByNumberOnly` (a stored file newer than the one the markets row shows has a lower number in its name) | hold |
| `drain_operators` | an operator's drain without the flock: still `NothingLost` (a file leaves the directory only after its snapshot is committed), and `DrainedUnlessTorn`: every whole file is drained in the end, unless a torn file stops all drains | hold |
| `drain_single` | `SingleWriter`: never two sessions with files to insert, as the README promises | **violated**: the monitor does not know the drain's command line |
| `ledger_runs` | two paper runs with forecasts of two models, a paper-pnl and a reset on SQLite: `PositionMatchesFills`, `WithinCap`, `OnceInCooldown`, `SettledPnlExact` (P&L stored by a session nothing overtook is the settlement's), and refinement of `PaperTrades` (`MarketsTradeWhole`) | hold |
| `ledger_pnl` | a paper run, the UI, two paper-pnl, changing settlements: `DesksOverdrawOnce` (a market exceeds the cap by at most one full position per desk), `SettledPnlExact`, `ForecastOrderedOnce`, and `PnlConverges`: once trading and settling stop, every settled position has its realized P&L | hold |
| `ledger_lost` | `PositionMatchesFills` on Postgres | **violated**: two sessions read one row and each writes its sum |
| `ledger_cap` | `WithinCap` with a desk | **violated**: a desk's size comes from a position read before the lock |
| `watch_loop` | any failure in any order: `DiscoveryInTime` (the next discovery starts within a cycle of its time), `CatalogSoonRight` (a catalog not written is tried again after a retry interval); in the end, `CandidatesStreamed` and `SeriesServed` | hold |
| `refresh` | either service and an operator, deaths anywhere: `GateEarned` (by the report the gate is open only for a cycle recorded as healthy at most `MaxAge` ago, at the end of healthy rows unless one of these was put beside another refresh; by the health file only when as many cycles of the loop were recorded since one failed), `QuotesLostOnlyByHand`, `QuotesRepeatOnlyAfterMishaps`, `ServiceReadsWhole` (the cloud's script), `OutputsAgree` | hold |
| `reservations` | a paper run and a learning run on SQLite, a reset: `WithinLimit` (open risk exceeds the limit only by what orders on old reservations brought), `CountedOnce` (an ordered forecast has no reserved risk left), `SpentOnlyByOrders` (a reservation, once made, changes only by being spent) | hold |

The four violations are the findings of `PROJECT.json`; each quotes the line the
code departs from. Every property of a passing run is also seen to fail under a
mistake: the `Mistake:` operators of the modules.

**Bounds.** Each is a constant in a guard. Stream: one ticker, one price, two quantities,
four updates, two faults, so a checkpoint every second delta happens twice, a gap can
be followed by late deltas, and a repeated one can follow a recovery. One ticker
is enough for the books, which share only the delta counter; the theorem has
any number. Drain: four files with numbers 0, 1 or 2, one torn file and two deaths
let a batch be committed, half archived, drained again by the other service and
interrupted once more; with an operator, two files and one death. Ledger: one ticker
and two forecasts make every pair of sessions collide; `ledger_runs` has a third forecast,
of another model, whose orders are no duplicates, and three orders
of 1 or 3 contracts under a cap of 4, so that each pair of sessions may exceed it together
(sizing as in the second rollout stage of `docs/PHASE_3M.md`); `ledger_pnl` has a cap of 1, which
a run and a desk exceed together, and which a desk whose size ignored the cap would exceed
by more; two settlement changes let a result be corrected after P&L was stored
from it, from a dollar to a part of one or back; `ledger_runs` has the worthless contract too. The violated ledger runs use the default settings, one contract an order. Watch: two markets of one series and one of another, a page and a quota of one, so a
market can be behind the page and a manifest ticker can crowd another out; the refresh interval is three units, the retry one, the
backoff at most two, so an interval may end inside a stream, a sleep or a backoff.
Refresh: three cycles, two fetches and a streak of two, so that a streak is earned, by report
and by health file, and ages past `MaxAge` in one tick, while an operator's run lies across
two of the service's and drops a row of theirs; 10.5 million states, in under two minutes. Reservations: three forecasts, a limit of 4 and
quantities 1 and 3, so two fit and three may not; three sessions and a reset let the
third meet what the first reserved and the second ordered. Deadlock is not checked where
bounds simply run out (`ledger_runs`, `refresh`, `reservations` and the violated
`ledger_*` runs); everywhere else it is.

**Fairness.** `OrderbookStream!FairSpec`: weak fairness of `EndRun`, because
the deadline is tested before every read, and of `Connect`, because the watch
always opens the next cycle. `StageDrain!FairSpec`: the watch service finishes or
dies in a write, a started worker runs on, and some timer keeps starting some
service; nothing is assumed of operators. `PaperLedger!FairSpec`: a begun session
runs on; paper-pnl is run again and again, and (strong fairness of its last two
steps) not every run fails, which is what a schedule with a finite rate of errors
gives. No fairness makes anyone trade. `WatchLoop!FairSpec`: weak fairness of the
service's own steps, since the loop never ends and systemd restarts it; that
requests, writes and streams succeed is not assumed but asked for by the
properties' premise that the world is `calm` from some time on.

## 4. Proofs

TLC checks small instances; these hold for every value of the constants that the
named `ASSUME` of the module allows.

- `PositionSizerProofs`: `ExecutedWithinPosition` (what executes is 0, 1, 3 or 5 and
  fits what is left of the position cap, in every mode and with every setting, also when
  the input is invalid and no other cap is looked at); `CandidateIsDocumented` (the
  live candidate is the bucket of the least raw cap, as `docs/PHASE_3M.md` writes it,
  although the code buckets each cap first and blocks on zero); `LargestSizeWithin`
  (what `bucket_down` returns), `OneUnlessLive`, and `SizedWithinPosition`, which the
  ledger's proofs cite.

- `OrderbookStreamProofs`: `TypeCorrect` and `BooksDriftOnlyFromRest`
  (`Spec => []DriftConfined`). `DriftConfined` alone is not inductive, as an arriving
  delta could name an update that never was. `Inv` adds that every message on
  the wire and every number in a book or its origin is one the exchange has
  published (`WirePublished`, `BooksPublished`). Then an in-order delta keeps the
  two sides of `LevelRight` in step, a load makes them equal by `Steady`, and the
  exchange only appends. `CheckpointsBoundLag` (`CheckpointBound`, one ticker, any
  interval) rests on `Counted`: what is unstaged is at most the deltas since the last
  multiple of the interval, plus one interval per handler that raised since the file.
- `StageDrainProofs`: `TypeCorrect`; `NothingIsLost` for any workers, flocked or
  not, by `LostInv`: a session in its archive phase has stored what it holds, and
  what it holds was whole (`SessionOK`); `DuplicatesNeedDeaths` when every worker
  is under the flock, by `OnceInv`: at most one worker is on (`Alone`), it holds only
  files still in the directory (`Listed`), and a file still there was stored at
  most once per death (`Counted`); `MarketFollowsNumbers` (`BehindByNumberOnly`, under
  the flock) by `Orderly`: a session leaves no older whole file out (`Batches`), one that
  still reads has every file stored before, by one that died (`StoredListed`), and a
  file leaves before an older one only by its lower number (`LeaveByNumber`);
  `DrainsKeepLog` (`KeepsLog`, under the flock) from `Batches` and `Counted`.
- `PaperLedgerProofs`: `TypeCorrect`; `SqlitePositionsMatch`
  (`PositionMatchesFills` on SQLite, with any runs, desks, P&L sessions and
  resets); `ForecastCarriedOnce` (both databases); `RunsKeepCap` (`WithinCap`),
  `RunsKeepCooldown` (`OnceInCooldown`) and `RunsTradeWhole` (refinement of
  `PaperTrades`) when only paper runs trade on SQLite. All from one `IInv`: a session
  past its insert holds the write lock (`LockHeld`), so the row it has read is still the
  row there is (`Fresh`) and its order still fits (`Room`); uncommitted orders have
  reserved their forecast (`Reserved`). `Fresh` is what fails on Postgres, and what
  `ledger_lost` exploits. `SqlitePnlExact` (`SettledPnlExact` on SQLite) adds
  `PnlInv`: what a P&L session read of a ticker it has heard no news about is what
  there still is (`AuditsFresh`). `DesksOverdraw` (`DesksOverdrawOnce` on SQLite, with any
  desks) rests on `Overdraft`: a position plus what the desks have in hand for it
  (`UnderWay`, a sum over the desks) stays within the bound (`Ceiling`), because an order
  is sized only where it fits, a paper run commits only under the cap (`Room`), and
  a commit moves an amount from one term to the other. From it and `Fresh` follows
  `SessionsTradeWhole`: with any sessions the ledger on SQLite refines `PaperTrades` with
  that ceiling as its cap (`Overdrawn`), so that races stretch the cap and never split a
  trade. On Postgres no such bound
  holds: a stale commit takes a position back and makes room again. What holds there too
  is `RacesOnlyLoseFills`: no position shows more than its fills (`NothingInvented`), since a
  row a session has read never was more than the fills (`Behind`).
- `WatchLoopProofs`: `TypeCorrect`, `DiscoveriesKeepComing` (`DiscoveryInTime`) and
  `CatalogIsRetried` (`CatalogSoonRight`), for any intervals, from `Timed`: time since
  the last discovery plus the time to the next, and after that the rest of the stream and
  sleep then running, stays within the bound (`InTime`), which the times set by the
  different ends of a discovery respect (`Scheduled`, `Retried`).
- `DecisionRefreshProofs`, for any operators, cycles and fetches: `TypeCorrect`;
  `GateIsEarned` (`GateEarned`) from three invariants: `LastKept`, the rows up to the last that were
  put beside no other refresh are in the file; `Credited`, which says of every report, on the
  disk or in some run's memory, that its row ends a streak, or one that is excused, and holds
  because a run that is alone counts the rows `LastKept` says are there; and `Tallied`, the health
  file counts no cycle that put nothing in the history since one failed. `WholeFilesRead` (`ServiceReadsWhole`); `OutputsFollow`
  (`OutputsAgree`) from `Followed`: a run that was alone at its opening is still
  the only one there (`OnlyOne`), its outputs so far are of its own cycle
  (`Carried`), and nobody is halfway when they are settled (`Quiet`);
  `LossesAreByHand` (`QuotesLostOnlyByHand`) from `Paid`: losses so far, plus refreshes by
  hand that may still move a file, plus one for a staging whose file was moved
  away under it, are at most the refreshes by hand, since what the service itself
  moves is what it has imported (`OwnFile`); `RepeatsNeedMishaps`
  (`QuotesRepeatOnlyAfterMishaps`) from `Budget`: repeats so far, plus those under way
  (`AtRisk`), are at most the mishaps. Each refresh that has yet to commit may be one,
  but the first only when stored quotes are in the file, are about to be committed,
  or in a file that another refresh has imported and has yet to move; one writes at a
  time (`OneWrites`), and what is fetched next is new (`Numbered`).
- `RiskReservationsProofs`: on both databases `TypeCorrect` (an order always finds a
  reservation), `RiskCountedOnce` (`CountedOnce`) from `IInv`: a session's
  orders have spent their reservation (`Spent`), what it reserved nobody else has
  (`Fresh`, `Alone`), and what it keeps is reserved (`Backed`); and
  `ReservationsOnlySpent` (`SpentOnlyByOrders`), as what a session writes follows what is
  committed (`Follows`). On SQLite, for any limit, sessions and forecasts,
  `OpenRiskLimited` (`WithinLimit`): what a session sees is within the limit plus the excess
  it has caused (`InLimit`), a sizing adds at most what is left, and an order moves
  risk from the reservations to the open positions or, on an old reservation, is counted
  as excess.
- `FiniteSums`: a sum over a finite set is a natural number, changes with one summand by
  that summand's change, and is at most the number of summands times a bound on each. Each is
  an induction over subsets in the form of sets rather than predicates: the set of the
  subsets that have the property has the empty set, has a set if it has that set less one
  element, hence has every finite set, as a smallest one that was missing would
  contradict the least element of a set of naturals.

Only model-checked: the liveness properties (`DriftEndsWithRun`, `DrainedUnlessTorn`,
`PnlConverges`, `CandidatesStreamed`, `SeriesServed`), since fairness and `ENABLED` are
outside the prover's reach. Every invariant and action property a run checks is also a
theorem, under the hypotheses its entry names.

## 5. Limits of what is claimed

- `DriftConfined` says what REST may break, not that it breaks nothing: after a
  gap, a level that changed while the REST answer ran ahead of the wire stays
  wrong until the next run.
- `BehindByNumberOnly` does not say that the markets row shows the newest book. Numbers
  start over with a connection, a recovered gap takes its message's and a book without
  one counts as 0, so of one batch an older file with a higher number is inserted last.
  Equal numbers are ordered by `time_ns`, taken to grow.
- `CheckpointBound` counts messages that changed the book, not exchange updates: a gap
  that is recovered is one change, however many deltas the wire lost, and a message
  that is lost or rejected is none. It is for one subscribed ticker: the counter is
  shared, and with several a ticker may never be the one that hits a multiple.
- `WithinCap` is for paper runs; with a desk it is refuted, and `DesksOverdrawOnce` says by
  how much on SQLite. On Postgres nothing bounds a position; it may also shrink.
- An invalid sizing input executes one contract and reaches no cap but the position's,
  so neither the drawdown kill switch nor an external cap of zero stops it; nothing above
  claims that they do.
- `GateEarned` excuses streaks that a race touched: a refresh that replaces the history with
  what it read before drops the row another put there meanwhile, and an unhealthy row lost
  so lets the streak go on. Nothing in the code prevents it once two refreshes have passed
  the monitor together.
- By the health file the gate has no age: `phase_gh4.py` 192-203 and 330-388 compare its time
  with nothing, so a loop that stopped after a healthy cycle leaves it open. What it counts
  is stages that exited 0 and quotes that came, so that `GateEarned` can say that these cycles
  were recorded, but not that they were recorded as healthy.
- `ServiceReadsWhole` is for the cloud's script. The local loop goes on after a staging that
  failed or timed out (`kalshi-fixed-rate-refresh.sh` 33-48, 173-189), its refresh can meet the
  torn file and then raises; of that loop only staging, refresh and health file are modelled.
- `QuotesLostOnlyByHand` and `ServiceReadsWhole` are for quotes staged by the service
  only: an operator who stages while it drains can tear the file under it. A fetch that
  failed replaces quotes staged before it and never drained; they are not counted as lost.
- `WithinLimit` excuses what `excess` counts: an order on an old reservation that was
  spent, or smaller. On Postgres nothing serializes two sizings, and it is not claimed.
- Reservations of refused or dropped candidates stand until someone deletes
  them: they only make what is left of the limit smaller, and by `SpentOnlyByOrders` no
  session ever does anything else with them.
- `CandidatesStreamed` and `SeriesServed` are about tickers subscribed to; what is staged
  of them is `OrderbookStream`'s. A discovery reads the first 40 tickers of the manifest and
  looks at one page of 30 open markets of a series, so a candidate after the 40th, and a
  quoted market behind a page of empty ones, need never be streamed. A manifest with tickers of closed markets may use up
  a series' quota, which `SeriesServed` excludes by its premise.
- Several candidates in one session lock several position rows on Postgres and can
  deadlock; the ledger model has one candidate a session, and `MarketsTradeWhole` is about
  each market by itself.

## 6. Plan, and what is not modelled

Done, most important first: stream, ledger, drain, watch loop, refresh, reservations,
and the safety proofs about them. What would come next:

1. `PaperLedger` with several candidates a session: lock order on Postgres, and a learning
   cycle that swallows a step's error and commits what is left of it.
2. `AdvancedRiskEngine.decide` with its caps by category, model and instrument, for which
   `RiskReservations` has one.
3. `DecisionRefresh` with staging by hand and with `StageDrain`'s drain as its first stage.

Not modelled, and why:

- *Learning cycles*: orders, cooldown and P&L are in `PaperLedger`; their steps write
  disjoint tables, except for the swallowed errors of item 1.
- *Autopilot*: it submits nothing (`demo_execute` ends in
  `DEMO_EXECUTION_NOT_IMPLEMENTED` at best), so the orders its caps count are always
  none; the rest is one process that records forecasts, dry runs and refusals.
- *Activation*: its order is a desk of `PaperLedger`, the gate it starts from is in
  `DecisionRefresh`; the rest is one call that only refuses.
- *Forecasters, rankings, scoring*: numeric, one row each; which forecast wins is left
  open.
- *Settlement reconciliation, report writers, pages, offline `phase3*` and `phase4*`
  audits*: they read committed rows and write reports. They are most of the
  repository's lines, and have no protocol to model.
- *REST client*: its retries end in a value or an exception, which the models choose
  freely.
- *Memory rows, lanes, attribution*: appended beside an order, read by nothing modelled.
- *Snapshot-cycle handoff*: one writer, one reader, an atomic rename.
