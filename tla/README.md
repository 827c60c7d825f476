# Formal models of the chartering desk

The desk prices dry-bulk fixtures into eastern India, tells the chartering
manager whether to lock a rate or wait, plans a season of voyages, keeps a ledger
of what it advised and watches the market for him. The service is one FastAPI
process (`backend/main.py`) over Python packages in `src/`, two SQLite databases,
a few append-only files, snapshot files and one parquet table that background
loops keep current; scripts run by hand or by a scheduler fill the rest of the
data. These modules model the parts that keep state and the ways threads,
background loops, other processes and kills meet in that state, and the
computations of a request as far as whole numbers carry their decisions.

Paths are relative to the repository's Python packages; `ledger.py:310` means
line 310. Section 1 is the inventory, 2 the modules, 3 the runs, 4 the
statements of the code that do not hold, 5 the proofs, 6 what is not modelled,
7 the plan.

## 1. Inventory

### Components

| component | state | operations | who calls it |
|---|---|---|---|
| decision ledger, `opt/ledger.py` | two JSONL files | record, report an outcome, reset, list, summarise | `/quote`, `/ledger/*`, an alert condition |
| standing alerts, `alerts/` | SQLite: watches, firings | create, pause, delete, mark read; a pass over the active watches | `/alerts/*`, two background loops |
| accounts and sessions, `auth/` | SQLite: users, sessions | bootstrap, create, patch, login, logout, purge | `/auth/*`, every route's dependency |
| routes, `backend/main.py` | none of its own | sign-in middleware, role dependency, handlers | browsers |
| class-average harvester, `harvest_handybulk.py` | a CSV, nine series of the master | harvest with backfill, fold | the refresh loop, its `main()` |
| lane and port refresh, `harvest_route_rates.py`, `harvest_portwatch.py` | two more sources, the rest of the master | append what is new, fold | the refresh loop |
| quote, `opt/quote.py`, `api.py`, `ceiling.py`, `stopping.py`, `monte_carlo.py`, `ml/live_forecast.py` | a cached basis table | price a lot, lock or wait, entry window, moves, savings | `/quote`, its stream, fragility |
| envelope, `opt/fleetmix.py`, `feasibility.py` | none | which classes can move a lot, bent once or twice if none can | `/quote` |
| season plan, `opt/voyage.py`, `period_cover.py` | none | a constraint model, its solution read back per ship | `/season-plan` |
| backhaul and moves, `opt/backhaul.py`, `repositioning.py` | a cached log of calls | rank what a discharged ship could load | `/backhaul`, quotes |
| routes at sea, `opt/route_trace.py`, `chokepoints.py`, `war_risk.py`, `fracture.py`, `risk.py` | cached lines, files the harvesters replace | the passages and areas on a line, their indices and alerts | `/fracture`, quotes |
| port outlook, `opt/weather_window.py`, `congestion.py` | forecast files shared by requests, a cache of waits | fetch, read, price a delay; read a growing file | quotes, plans |
| costs, `opt/landed_cost.py`, `basis.py`, `portfolio.py` | none | a landed cost, a route's basis, a mix and its frontier | `/landed-cost`, `/portfolio`, quotes |
| snapshots, `opt/replay.py`, `tonnage/field.py`, `ml/frozen_test.py` | memory, a file per key, a permission | compute once under a lock, keep, write, read back | replay and tonnage screens, the warm-up, a builder process |
| streams, `backend/main.py` | a queue per request | a thread feeds it, a generator drains it | `/quote/stream`, `/fragility/stream` |
| berth register, `berth_truth/resolver.py`, `service.py` | rows of limits by document and date | does a berth clear a vessel on a day | quotes, plans, fragility, ports |
| port record, `berth_truth/` | raw pages, snapshots, a log, a file of calls | archive a page, take in a report, waits, handling, verdicts | a scheduled archiver, `/ports/*` |
| anchorages, `harvest_sentinel1.py`, `anchorage/` | scene files, notes, a log of censuses, pictures | search, resume a download, count, record, draw, compare | scripts, `/anchorage/*` |
| vintages, `pit_archive.py`, `harvest_gdelt.py` | snapshots with a manifest, a weekly series | archive, answer as of a day, add the weeks that are over | scripts |
| history, `build_master.py`, `ml/units.py`, `opt/backtest.py`, `calibration.py` | the rebuilt master | merge sources, fit an index to dollars, compare strategies, tune | scripts, quotes |
| fragility sweep, `fragility/` | the report of one request | search each variable for the value that changes the decision | `/fragility` and its stream |

`PROJECT.json` lists these and the parts left out (section 6).

### How they interact

A quote reads the master three times (as-of date, forecast, cached basis), asks
the register which classes can berth, the outlook for a delay and the routes for
a line, is priced, and is appended to the ledger with the version of the data on
disk at that moment. The refresh loop harvests once a day, folds into the master
and, when that added a row, runs a pass of the alerts in a worker thread. The
alert loop runs the same pass every few minutes, `POST /alerts/evaluate` on
demand; the overdue-outcome watch reads the ledger's two files one after the
other. Streams, snapshot requests
and plain requests share one pool of threads. Nothing locks across these: the
isolation there is comes from single SQLite transactions, from one lock around
each snapshot and from moving finished files into place.

### What is hard here

* Threads: every route handler is a plain `def`, so requests overlap in a pool,
  and both loops put their work there as well.
* Several accesses that belong together and are not atomic: lookup then append
  (ledger), list then fire then record (alerts), read then count then update
  (accounts), middleware then dependency (routes), read then replace (harvest).
* Two reads that belong together with a reset between them: entries and outcomes
  (alerts). Two tests of what is new that differ: by day for the CSV, by figure
  for the master (harvest).
* Kills between two writes or in the middle of one: firing and state, two unlinks
  of a reset, CSV and master, a page and its snapshot, a download, half an append.
* Files that grow or are replaced while they are read: forecasts written with
  `write_text`, call files behind a cache, a temporary file with two writers.
* Sources that fail for one page of several, are silent for weeks, print a day
  without its figure, print another figure for a stored day, answer with nothing
  usable, or return to an old content.
* Computations that agree by convention only: a dozen calls that name one chosen
  class, three engines that set one threshold, solver variables with bounds, a
  ranking that mixes zeros with negative money, a fit that crosses a rebasing.

`PROJECT.json` lists forty hazards, each at its line, with the properties aimed
at it. Hazards we know of beyond those forty, none with a property: `store.py`
of the alerts patches a watch in three transactions around a concurrent delete
(241) and marks read what the caller has not seen (313); a watch paused after a
pass listed it still fires in that pass (`run.py:36`); the count of one active
administrator does not say which account it is (`auth/store.py:266`); a PATCH
applies password, role and `is_active` as three calls of which the last may be
refused (`main.py:1066`); two harvesters read before either replaces
(`harvest_handybulk.py:408`) and share one `.tmp` name (319).

### What makes each component correct

* Ledger: nothing acknowledged is lost, nothing is dropped selectively, an
  outcome belongs to an entry, a summary scores what was reported.
* Alerts: one firing per edge, none without an edge, every watch gets its turn.
* Accounts and routes: there is always an administrator who can sign in, nobody
  is signed out for nothing, what is done is done by who may do it.
* Harvests, records, vintages: a stored figure stays, a gap is closed, a row
  appears once, what a log names is on disk, an answer as of a day never changes.
* Requests: what is shown agrees with itself, and with the data of its day.
* Snapshots and streams: half a file is never believed, a lock is never left
  behind, a stream tells one verdict and ends.

## 2. Modules

| module | models | run by |
|---|---|---|
| `DecisionLedger` (`_proofs`) | `opt/ledger.py`, every call on it | `MCDecisionLedger` |
| `AlertPromise` | what alerts promise, without threads or database | through `StandingAlerts` |
| `StandingAlerts` (`_proofs`) | `alerts/*` and the three places that run a pass; implements `AlertPromise` | `MCStandingAlerts` |
| `AccountStore` (`_proofs`) | `auth/store.py`, the account routes | `MCAccountStore` |
| `RateHarvest` | `harvest_handybulk.py` and the loop that runs it | `MCRateHarvest` |
| `MarketRefresh` | `_refresh_rates_once`, the lane and port harvesters | `MCQuoteVintage` |
| `QuoteVintage` | what a quote reads and when, composed with `MarketRefresh` | `MCQuoteVintage` |
| `FlipSearch`, `BerthRegister` (`_proofs`), `FragilitySweep` (`_proofs`) | `fragility/search.py`; the register; `engine.py`, `tiers.py`, `ranking.py` over both | `MCFragilitySweep` |
| `SnapshotCache` | `replay.py`, `field.py`, `frozen_test.py`, warm-up, builder | `MCDeskProcess` |
| `StreamDesk` | both streams, extends `SnapshotCache` with the shared pool | `MCDeskProcess` |
| `VoyageSchedule`, `FleetMix` | the season plan; the envelope; both ask `BerthRegister` | `MCDeskRequests` |
| `Backhaul`, `RouteRisk`, `QuoteDesk`, `PortOutlook`, `CostDesk` | the other requests that compute | `MCDeskRequests` |
| `HindsightDesk` | `build_master.py`, `units.py`, `backtest.py`, `calibration.py` | `MCHindsightDesk`, `MCDeskRequests` |
| `DeskRoutes` | middleware, role dependency and the handlers behind them | `MCDeskRecords` |
| `PortArchive`, `PortCalls` | the archiver's store and log; reports, calls, waits, verdicts | `MCDeskRecords` |
| `SceneHarvest`, `AnchorageCensus` | `harvest_sentinel1.py`; detector, log, pictures, comparison | `MCDeskRecords` |
| `VintageStore` | `pit_archive.py`, `harvest_gdelt.py` | `MCDeskRecords` |

`MCDeskRequests` and `MCDeskRecords` put several modules that share no variable
into one run. A variable (`desk`, `record`) chosen at the start says which of
them a behaviour is about; the others stand still. Where components do share
state they are composed properly: `QuoteVintage` over `MarketRefresh`,
`StreamDesk` over `SnapshotCache`, `FragilitySweep` over `FlipSearch` and
`BerthRegister`.

The proofs about a component are in the module with its name and `_proofs`, those
of the smaller components together: `DeskProcess_proofs` (`SnapshotCache`,
`StreamDesk`, `RateHarvest`), `DeskRecords_proofs` (`PortArchive`, `PortCalls`,
`DeskRoutes`, `SceneHarvest`, `VintageStore`, `AnchorageCensus`) and `DeskRequests_proofs`
(`QuoteVintage`, `FleetMix`, `Backhaul`, `RouteRisk`, `QuoteDesk`, `CostDesk`,
`PortOutlook`).
`BerthRegister_proofs` holds what several of them need: the lemmas on least and
greatest members, on the members of a set in an order, on sums over a set, and on
the register.

Operators named `Bad...` stand before the definition they spoil. Each is a
plausible mistake in the code it models. `PROJECT.json` names one for every
property of a passing run; where a property is a conjunction of named parts, the
others are the mistakes that break the parts the listed one leaves alone.

### DecisionLedger

A file is a record: does the name exist, which incarnation of the file it names,
its lines. `unlink` ends an incarnation, and a handle opened before it goes on
writing to the dead one, as on the POSIX hosts the service is deployed to
(`render.yaml`). `call[w]` says which access thread `w` makes next, so each open,
write, read, count and unlink is a step. `uuid4` and the timestamp are drawn by
one statement: one stamp of an increasing clock stands for both. The histories
`acked`, `written`, and the fields `owed`, `gens` of a summary are not in the
code: they remember what a property compares with.

### StandingAlerts and AlertPromise

Each store call is one transaction and one step. What a watch asks for is a
function of its id; `last_state` is a number. A pass holds the rows it listed at
its start, as the code does, evaluates one row at a time, commits the firing,
commits the state. A rate watch reads one file; an overdue watch takes the time
and reads the entries in one step and the outcomes in another, and a reset of the
ledger unlinks one file in one step and the other in another, so that it may fall
between. The history `torn` is set when outcomes go while a pass has only the
entries read; the promises are stated for behaviours without it, and
section 4 says what one such reset does. `AlertPromise` has one step `Look` for all that, whose firing
is a function of the level seen last and the level seen now. The refinement
takes the level of a committed firing as seen before its state is recorded.

### AccountStore and DeskRoutes

One SQLite transaction a step: reading an account, counting administrators and
updating are three. A password is the number of times it was set, and a session
remembers which one it was issued against (in the model only). `PATCH` applies
password, role and `is_active` in that order.

`DeskRoutes` is the other half: the middleware looks the session up, the
dependency looks it up again and ranks the role, the handler runs. Between those
steps another request changes accounts or signs someone out. A handler is one
step here, since `AccountStore`, `StandingAlerts` and `DecisionLedger` take it
apart; a browser is a person, with one session at a time.

### RateHarvest, MarketRefresh and QuoteVintage

A page, the CSV and the master are functions from days to figures; one of nine
series stands for all. A page or the CSV may have a row for a day with this
series' cell empty (`Blank`), as the parser leaves it when the text has other
figures only; the master has no such rows. The CSV takes a day it has no row for
and the master a figure it lacks, so a figure printed late reaches the master
alone. Both files are moved into place, so writing is a step of its own after
reading. The source publishes a day with its figure or without, and may print the
missing figure, or another, for a published day. `late` and `outrun` are
histories: the days first printed without the figure, and whether a run had more
months to close than it may fetch. `MarketRefresh` is one pass of `_refresh_rates_once`: class
averages, lanes, one port file after the other, the folds; every request may
fail, an answer of the port service that is no JSON ends the pass, a kill may
fall between any two steps. A quote of `QuoteVintage` resolves its day, then
solves up to three times; each solve resolves the day again, reads the master
and takes the basis table the first quote of the process built. What a solve
computes is `QuoteDesk`'s and `FleetMix`'s subject and a choice here.

### FlipSearch, BerthRegister, FragilitySweep

`FlipSearch` has one step per evaluation. A value is an integer in half
tolerances; what an evaluation answers is the function `ask.at`, chosen when the
search starts. `BerthRegister` is a set of operators: rows in force on a day in
the order of the resolver's stable sort, the first that clears. A limit is
`Unpublished` where no document states one. `check_vessel_against_register`
hands in no declarations, so the draft of a berth declared day by day is never
known there. `FragilitySweep` asks one search after the other in the order of
`analyze_fragility`. The class of a cargo and the call at a port are computed; a
fleet mix or a whole quote answers anything with one boundary on each side of
the base, which is what `search.py` assumes of it.

### SnapshotCache and StreamDesk

The inputs of a snapshot (model files, master, frozen test) are one version. A
thread waits for the lock, looks in memory, on disk, computes, writes the
temporary file in two steps and moves it; the builder does the same in a process
of its own, with the same temporary name. Computations fail, processes are
killed. A stream is a thread that hands stages to the event loop, a coroutine
that adds the verdict, a generator that writes, a client that may leave. A stage
may raise: `opt/api.py` tells its end in a `finally`, while the stages of a sweep
and the first of a quote are two bare calls, of which only the first is made then.

### VoyageSchedule and FleetMix

The constraint model is a predicate on assignments (which ship carries which
piece, in which order, at which hours) and the solver chooses any that satisfies
it, the best one unless its time ran out. The plan is then read from the
variables as the code does. Hours, tonnes and money are whole numbers, as the
code truncates them; the cap on a lot's contribution is a constant.

`FleetMix` computes which class can call where, strictly, part-loaded or through
the hub, and the three solves of `quote_envelope` with their status. Widening the
laycan alone never rescues a request: the fleet mix does not depend on it, so
the second solve repeats the first, and the envelope goes on to the third. A
price is reduced to whether a class can be priced. `_can_call` hands on no day,
so the register is asked as of today (`today` of a lift) whatever the charter
day (`day`) is; a request is taken to be answered within one day.

### Backhaul, RouteRisk, QuoteDesk, PortOutlook, CostDesk

`Backhaul`: the log of calls is read once and kept until it is forgotten, while
calls are appended; pairs of calls are the evidence, vetoes and scores follow.

`RouteRisk`: the sphere is a plane of whole points where every comparison of
lengths and angles is one of whole numbers; a standard deviation is replaced by
the spread of its window, both being 0 exactly for a flat one.

`QuoteDesk`: rates are whole numbers of dollars, at least 100 (in the runs
multiples of it, so that percentages are exact); the simulated
paths are a choice of the boundary they lead to, the samples of the savings the
three quantiles of their one shock, the trained models a choice of fans. A fan
none of whose horizons weighs anything in the term is the `ValueError` of
`compute_ceiling`, a 422. Two ports of one score count as two scores.

`PortOutlook`: the forecast files are written in two steps (`write_text` empties
before it fills) and read by other requests meanwhile. One day is priced, so
there is one file a port. A call may fail, or bring a forecast, or a reply without
a usable hour, which is kept like a forecast; the directory of the cache may not
be there to be made. The clock stands while requests run: an answer is
judged by the age its forecast had when it was taken. The waits come from a file
the harvester appends to, through a cache that lives as long as the process.

`CostDesk`: a landed cost is that of the whole cargo, where the code divides each
part by the tonnage; the shares of a mix are counted in steps of the grid; the
chance of a stockout is a datum. `LandedCostApiRequest` defaults the running cost
to 0.0, so the waits of a plain `/landed-cost` are free, while a quote leaves the
wait out because it has no basis for it (`main.py:1663-1667`).

### PortArchive and PortCalls

A page is named by its content, so a hash is the content itself. A file is
written in two steps and a pass may be killed between any two. A line of a
traffic report is a ship's, a further cargo's of the ship above, or one whose
cells ran together; a time is printed without its year. Only a December time in
a January report is put into the year before (`pdf_report.py:121-126`). A line
whose cells ran together is kept without its ship, and the lines of cargo under
it inherit the ship above it (`pdf_report.py:206-245`). `archiver.py:113-115` says
a port "Never raises for a network or parse failure"; only the network's errors
are caught, so a page that cannot be parsed ends a pass as a kill does.

### SceneHarvest and AnchorageCensus

A scene is its day, a page of the catalogue the set of scenes it lists, a file
so many chunks, each sound or not. A download resumes where the file ends, or starts over when the server sends the whole. The
detector runs on small rasters: the threshold test, the joining of cells (a blob
is a smallest part of the mask that leaves out no cell beside it), the
merging of fragments, the water box and the least area. `count_vessels` discards
the pixel spacing it measured (`detect.py:757`) and uses the parameters'; a scene
counted twice counts twice toward `MIN_N` of the comparison; `main` of the
harvester catches the two errors it names and no other. We model these as they are.

### VintageStore

A content is a version of its source that may come back; a run of the archive
hashes, writes the file if the content is new, and appends to the manifest,
with a kill between any two steps. A kill leaves a half-written file that every
later run takes for whole (`pit_archive.py:109`); `cutShort` remembers which. An
answer as of a day reads the file its entry names: there is none
(`NoSnapshot`), or it is torn (`Unreadable`), or it is the content. `retrieved_at` is stamped before
the source is read. Of the weekly series, a week is the set of days counted.
One script runs at a time.

### HindsightDesk

A day's index and time-charter average is a point, and all that is kept of it is
the line it lies on: two points always lie on one line, three only if printed
under one relation. The test for a spike, the window, the start of the current
relation and the segments are the code's, with minimums of 3, 3, 3, 4 and 7 for
5, 4, 10, 40 and 120. Fits within half a tolerance and the choice between a
scalar and an affine fit are below this abstraction. The ceiling of a backtest
row is a datum, since `QuoteDesk` computes it. A particle comes anywhere within
the bounds; which point that is depends on its velocity, and nothing else does.

### Overlap as a history

`DecisionLedger`, `StandingAlerts` and `AccountStore` carry a history variable
`overlapped`, set when a call or a pass begins while another is in progress, and
by a kill. Some promises hold as long as calls come one at a time and not
otherwise; the parts named `...WhenAlone` and `SerialPromises` state them under
`~overlapped`, so that one run covers both the serial promises and what remains
of them under concurrency.

## 3. Runs

Each bound is chosen so that the case in question occurs: two actors for a race,
two entries where one would hide an order, a day more than a lookback.

| run | asks | bounds |
|---|---|---|
| `ledger_calls` | what is never lost, what a summary still guarantees, what is exact while calls come one at a time | 2 threads, 3 stamps, rates below and above the quote, 1 date filter, kills; 3.2 million states |
| `alerts_loop` | the passes implement `AlertPromise`; what a watch last saw catches up | a threshold and a moves watch, 3 days, 2 levels, one fair loop, one request; 0.3 million |
| `alerts_threads` | what survives overlapping passes, deletes, unreadable data, a kill, a reset between two reads | an overdue-outcome watch, 2 entries, 4 days, 2 passes, 1 request, 1 reset or an overlap; 1.1 million |
| `accounts_calls` | one first account, no sign-out without a reason; administrator and sessions while requests do not overlap | 2 accounts, 2 requests, 2 sessions, 1 expiry, 1 new password, at most 2 changes outstanding; 1.1 million |
| `harvest_loop` | stored figures stay, the CSV has what a rebuild needs, files agree until a kill, every day arrives if nothing fails and no gap outruns the cap | 5 days of 2-day months under a cap of 2, so that an outage may be longer, empty cells, 1 failed archive, 1 figure printed later or changed, 1 kill; 0.4 million |
| `market_desk` | folds leave nothing behind, one day per answer, nothing newer than the stamp | rates of 2 days and a third, a port 2 days behind, 1 failed request, 1 kill, 1 quote at a time; 2.5 million |
| `fragility_sweep` | a flip is one, and near; a clear range is clear; the report is whole | draft 24 on a grid of 0 to 50 half tolerances; registers of up to 2 rows; caps of 14, 9 and 6; 85 thousand |
| `desk_process` | half files are not believed, the permission ends with its report, askers and streams come to an end | 1 thread of requests, warm-up, builder, 1 stream of up to 2 stages of either kind, a pool of 1, 1 move or kill; 120 thousand |
| `desk_requests` | eight families of requests, each over every answer its solver, models or network may give | below; 0.88 million |
| `desk_records` | six records, each with its kills, repeats and late arrivals | below; 460 thousand |

`desk_process` has two named bounds. `Room`: at most two askers are at work at
once, enough for one to hold the lock and one to wait. `Cold`: a stream opens on
a cold desk and the builder rests until it is forgotten; what a stream shares
with the caches is the pool, and the one thread of it may be computing.

`desk_requests`, by desk. *season*: five jobs of 1 or 2 ships and up to 2 lots
over 3 ports, a queue, a storm, a depth that bars a ship, a lot above the cap.
*fleet*: 2 classes, 4 ports, one of them a hub and one no way to is on record,
registers of none or two rows with unknown, daily and unpublished limits, and
registers redrawn between the charter day and today; lots of one ship, of two and
of more than any class may load. Offers through the hub, strict and part-loaded,
offers of two ships and offers that the charter day's register would refuse all
occur. *backhaul*: 2 hulls and every log a small set of calls gives; of the
candidates one may be worth less than nothing, one is barred, one is too far. *route*: 3 ports, lines trimmed at both ends, passages on
and beside them, a line that begins in a circle and one that leaves it astern, files flat, absent and garbled. *quote*: 2 classes, fans with
crossed quantiles and holes, two boundaries. *outlook*: 2 requests, 3 ports (one
without a coordinate), a horizon of 2 days, forecasts that live 2 ticks, replies
of no use, a directory that fails.
*cost*: every combination of known and unknown parts; rates and benchmarks on
the same and on other days; mixes in sixths. *hindsight*: 72 sets of raw files, prints
of a fortnight on two or three lines, trials of 2 and of 12 decisions, a swarm
of 2 for 2 rounds.

`desk_records`, by record. *accounts*: 2 people, one request for any route and
one that changes accounts, together on a closed desk only. *pages*: 2 ports,
2 contents, 2 lines of log.
*calls*: 3 reports of 2 ships with late and repeated rows. *scenes*: 2 boxes
with a scene in common, products of 3 chunks, 3 runs. *census*: rasters of
3 by 8, 2 censuses. *vintage*: 2 versions that alternate and of which a write may be cut short, weeks
of 3 days.

### Properties that are conjunctions

A run checks at most a handful of properties, so the parts of one component are
conjoined under one name; each part has its own comment in its module. Listed
after each part is the mistake that breaks it.

| property | parts |
|---|---|
| `PlansAreSound` | `BooksBalance` (`BadLinkProfit`), `PlanCanBeSailed` (`BadBallast`), `AlwaysAPlan` (`BadOneShipPerLot`) |
| `EnvelopeIsSound` | `OffersCanBerth` (`BadCanCall`, `BadPartLoaded`), `LooseningLosesNobody` |
| `SearchIsSound` | `UnusableOutranksOnlyLosses` (`BadWorth`), `VetoIsEvidenced` (`BadVetoes`) |
| `RouteIsReadWhole` | `NothingOnTheWayIsMissed` (`BadHits`), `TwoReadersAgree` (`BadUpTo`) |
| `QuoteAgreesWithItself` | `PricedAsShown` (`BadPricedAs`), `AdviceFollowsItsFigures` (`BadFuse`), `WindowBeforeLoading` (`BadSearchDays`), `QuantilesInOrder` (`BadRepaired`), `RecommendedMoveIsDrawn` (`BadDrawn`) |
| `OutlookIsOfItsTime` | `SeaIsRecent` (`BadFresh`), `NoForecastIsMislaid` (`BadLook`), `NothingAfterItsDay` (`BadKnownBy`) |
| `CostsAreExplained` | `TotalIsOfItsParts` (`BadDemurrage`), `BasisIsThePremium` (`BadBenchmark`), `AversionBuysCertainty` (`BadMixObjective`) |
| `HistoryIsWellRead` | `MasterIsAgreed` (`BadDisagree`, `BadBestOf`), `MapIsOfItsDay` (`BadRegimeStart`), `StretchesAreFound` (`BadSpike`, `BadEmit`), `BacktestAddsUp` (`BadLocks`), `BestTriedIsKept` (`BadBetter`) |
| `ActionsAreTheirActors` | `OutcomesNameTheirWriter` (`BadAttributed`), `RankIsReadAfresh` (`BadAdmits`) |
| `CallsAreOfShips` | `ReportsAreWholeAndOnce` (`BadIsNewRow`), `WaitsAreOfShips` (`BadIsLast`), `PagesAddUp` (`BadPageOf`), `ClearedMeansTested` (`BadDraftUntested`), `EvidenceMovesNoVerdict` (`BadDeclaredLimits`) |
| `ScenesAreWhole` | `ScenesFoundOnce` (`BadNew`), `ResumedFilesAreWhole` (`BadPlace`) |
| `CensusIsOfItsScene` | `VesselsAreApart` (`BadJoins`), `NewestSceneIsServed` (`BadLatestCensus`), `CorrelationHasItsPairs` (`BadPaired`) |
| `VintagesStand` | `ReobservationsCount` (`BadRecorded`), `AnswersStand` (`BadSeenBy`), `WeeksStand` (`BadWorthwhile`) |
| `SnapshotsAreSound` | `HalfFilesAreNotBelieved` (`BadReadable`), `PermissionEndsWithReport` (`BadFail`) |
| `NothingIsPassedOver` | `RangeIsClear` (`BadProbeUp`), `NearestWithinARung` (`BadLadderGoesOn`) |
| `ReportTellsAll` | `ReportIsComplete` (`BadEscalate`, `BadRankFindings`), `ClearsIffSomeBerthFits` (`BadInForce`) |

The older components have the same form: `LinesAreSound` (types with
`BadRecordOutcomeRate`, `OutcomesNameWrittenEntries` with `BadRecordOutcome`),
`SummaryAddsUp` and `SerialPromises` (ledger), `BellIsHonest` (alerts),
`StoreIsSound` and `SerialPromises` (accounts), `FilesAgree` (harvest),
`StoresAreSound` (market).

### Fairness

`_alert_loop` and `_rate_refresh_loop` are `while True` around a pass, catch
every exception but cancellation and sleep a fixed time (main.py:170-190,
302-325). A pass runs in a worker thread to its end. So a loop's next pass, and
each step of a pass begun, is weakly fair, as long as the process lives.

A thread inside the lock of a snapshot is weakly fair step by step. Taking the
lock is strongly fair: others release it again and again, and the operating
system does not pass one waiter over for ever. Likewise a stream's thread gets a
place in the pool, which is free again and again; the event loop runs the
callbacks it was handed and the generators that have something to read. No
request has to arrive, no client has to stay, the source need not publish, a day
need not pass; failures and kills are bounded by the constants named for them.

## 4. Statements of the code that do not hold

Two are runs that TLC must refute:

* `accounts_race`: two demotions at once leave no administrator, against "it
  holds for every caller" (`main.py:1062-1065`).
* `map_lookahead`: "Only observations on or before asof are used"
  (`units.py:334`). A print is compared with its neighbours before those after
  the day are left out, so the map of a day depends on when it is asked for.

The others are stated in their modules and refuted by TLC on the instances of
the passing runs, but are no runs of their own. To see one, put its name in the
`.cfg` of the run that has its module.

| statement | where the code says it | why it fails |
|---|---|---|
| `OutcomesLinked` | `ledger.py:247` | a reset between lookup and append, or a kill between its unlinks |
| `NoFalseAlarm` | `alerts/models.py:36`: a firing is of "a condition [that] was true at a moment" | the ledger is reset between the entries (`conditions.py:208`) and the outcomes (213) of one pass: what was settled is counted as unsettled |
| `OneFiringPerEpisode` under overlap | `alerts/models.py`, `run.py:36` | two passes see one edge; a kill between firing and state |
| `GapsAreClosed` | `harvest_handybulk.py:87-88`: "a longer outage is closed by running the harvester again" | the run that fetched what the cap allows has stored the newest day, and no later run asks for more (345); so too after an archive page that failed |
| `StagesComeInPairs` | `main.py:1980-1981`, 2092-2093: a stage event "as it starts and finishes" | a step told of by two bare calls (`engine.py:336-347`, `quote.py:222-226`) has no end when it raises |
| `ArchivedCanBeRead` | `pit_archive.py:169`: "the frame as it was archived at the LATEST retrieval" | a kill in mid-write leaves a file that later runs take for the content and record (109); reading it raises (181) |
| `LanesNotHostage` | `main.py:245`, 258-261 | a failed class-average fetch ends the pass |
| `PairsAreTurnarounds` | `backhaul.py:164`, 202 | at one and the same port a load pairs with a later discharge too |
| `NeverServedOnceMoved` | `replay.py:303-306`, 314 | what is in memory is served whatever its inputs did since |
| `MissingDataIsNoMistake` | `quote.py:94-100`, 200-202 | a class with a rate and no map yet has no fan, and ends as a mistake of the caller (`live_forecast.py:188`) |
| `EveryPassageMetIsNamed` | `chokepoints.py:223-226` | a port of departure within a circle whose centre lies astern is measured from the far end of the segment when that is nearer (252) |
| `OnlyPassagesOnTheWay` | `chokepoints.py:252` | the arc cosine is never negative, so a point behind the start of a segment is measured across it |
| `WaitIsTheFilesOwn` | `congestion.py:111` | the cache outlives the rows it was computed from |
| `SnapshotsAreOfTheirPage` | `berth_truth/store.py:72-77` | half a page, left by a kill, is taken for whole |
| `HandlingIsOnlyGated` | `reality.py:241-242` | a question that names a commodity filters by a column no reader fills |
| `FilesAreTheirProducts` | `harvest_sentinel1.py:456-462` | a server that ignores the range has its whole answer appended to the part on disk |
| `PictureMatchesCensus` | `render.py:38-42` | a scene counted again is drawn afresh while its first count is still served |
| `WeeksAreOver` | `harvest_gdelt.py:263-313` | a week in progress is written and never looked at again |
| `OnlyPortsAndLaycansExclude` | `voyage.py:26`, 591, `main.py:1888` | a lot above the bound of its revenue variable is in no plan |

Of the fragility search three promises hold with an exception: of two flips
found in one round the upper is taken, so within the first rung the nearer one
below may be passed over (`NearestWithinARung`, which speaks of the values the
bounds allow, as a search goes no further); the search over the permissible
draft compares with "it can call" also when the port already refuses the vessel
(`FlipStraddles` allows the base as the value beside the flip); the ranking
compares a percentage with an absolute distance when a base is zero, which
`ranking.py:58` says no variable normally has and the default risk tolerance has.

A figure printed after its day is in the master and never in the CSV, whose row
of that day keeps its empty cell (`harvest_handybulk.py:293-298` against 524), so
a rebuild of the master from the CSV loses it: `MasterIsRebuildable` allows for
such days. Advice on an idle ship's position and the plan of a season ask for the
wait of a port without a day (`repositioning.py:223`, `voyage.py:633`), so they
rest on the newest rows whatever day the quote beside them is of.

Smaller remarks from reading: `units.py:192-194` abstains rather than take a
break for a glitch, but not for the first print of a new relation at the end of a
series; `backtest.py:375-384` calls a lock on any of the first seven days of a
month the calendar strategy; `build_master.py:57` says chunked exports are picked
up by name, which its table of names does not match for all; `borrowed` in
`units.py:390` is implied by the test beside it; `supplycurve.py:297-298` and 335
describe the sign of the lag opposite to line 339.

## 5. Proofs

Every theorem holds for all values of the constants that satisfy the named
assumptions of the modules, which only type them, unless a hypothesis is given
here; the hypotheses are satisfied by the instances the runs check, or by a
deployment described with them.

### DecisionLedger_proofs

For any set of threads, quotes, rates and date filters, any number of stamps,
with and without kills:

* `TypeCorrect`: files hold well-formed lines, a call carries what its next step
  needs. It is inductive as it stands.
* `OutcomesNameEntries`: an outcome names an entry that reached the entries file.
  Not inductive alone: an outcome is checked against the file in one step and
  written in another. `LinksKnown` adds that whatever a call in progress carries
  was checked, and that ids in the file were written; `written` only grows, so
  the check cannot be undone by a reset. `LinesStaySound` draws the two together.
* `AcknowledgedStays`: an acknowledged line is in the file unless its incarnation
  was unlinked. `NoHandleFromTheFuture` adds that no handle or acknowledgement is
  newer than its file, so a line of incarnation g cannot turn up as current again.
* `NoCherryPicking`: each step appends to a file or empties it, from type
  correctness only, action by action.
* `SerialCallsKeepPromises`: `SerialPromises`. `Serial` adds that only one call
  is at work, what it read is still so (`CallFits`), a free name holds no line,
  and outcomes are linked but in the middle of a reset.
* `RegretIsExplained`: `RegretExplained`. A summary is made in one step of what
  it read, so `ScoreInv` adds only that this is finite. The sums are told one pair
  at a time. That a fold over a finite set has a value for every subset of it
  comes from the least size for which it has none (`SomeTable`). No regret is
  negative, and where fewer locks were right than made, one was too dear.
* `SummariesAddUp`: `SummaryAddsUp`, however calls overlap. `SummaryInv` adds
  that stamps tell outcomes apart wherever they are, on file, about to be written
  or read (`StampsTell`), and what a summary has read so far (`ReadsFit`): a pair
  for an entry has the latest report owed, and one pair an entry, so no more
  pairs than entries as long as the incarnation is the same.

### StandingAlerts_proofs

* `BellStaysHonest`: `BellIsHonest` for any evaluators, requests, watches, days
  and kills. The invariant `AlertInv` counts, per watch, the firings there are,
  the one a pass is about to record and the one the next look would bring, and
  holds the sum below the episodes (`Accounted`). That is true while passes keep
  apart (`KeptApart`), since only then a row a pass holds still has the state
  of the table (`PassIsCurrent`). What needs no such condition: a firing has its
  watch, an undrawn id is in nobody's hands, and, until a reset tears the two
  reads of a pass apart, a pass that saw the condition hold is in an episode
  (`RisesAreNoted`, `FiringsAreNoted`). Between the two reads, the entries
  a pass has in hand are old today as well (`ReadsAreOld`), and what it will count
  of them falls only as the watch's own count falls (`WorldUnderRead`).
* `OneRingPerRise`: `OneFiringPerEpisode` as long as no reset falls between a
  pass's two reads (`~torn`), and
* `LoopKeepsThePromise`: the refinement `KeepsThePromise`, both under
  `OnlyTheLoop`: one evaluator and no kill. That is the desk nobody presses
  "evaluate" on, whose refresh loop has not met the alert loop. Section 4 lists
  what an overlap breaks, so the hypothesis cannot be dropped. Each step of the
  service is mapped to `Create`, `Delete`, `MarkAllRead` or `Look` of the promise,
  or leaves its variables alone.

### AccountStore_proofs

For any number of accounts, requests and sessions: `StoreStaysSound` (types, one
first account), `PromisesKeptAlone` (`SerialPromises`) and `NobodySignedOutIdly`
(the action property). `AccountInv` adds that whoever a session or a request names
is an account (`OfAccounts`) and, until requests overlap, that the password a
login compared is still the account's and the administrators a PATCH counted are
still there (`Serial`). A PATCH holds a sequence of at most three changes; the
lemmas on `Part` say what is left of one when its first change is written.

### FragilitySweep_proofs

* `FlipsAreReal`: `FlipStraddles`. `SearchInv` has four parts: `Footholds` (what
  the ladder passed over is the base or unchanged, what it found changes the
  decision), `BudgetLeft` (an evaluation is only made while the cap is not
  reached), `Straddles` (the rung being halved keeps a changed end and an
  unchanged one) and `EndsHalved` (the search ends when the rung is as short as
  the tolerance or the budget is gone).
* `SearchesPassNothingOver`: `NothingIsPassedOver`, which is about values the
  search never tried. `LadderInv` relates footholds and step: footholds and finds
  are no further than a step (`StepBounds`); after the first round each side is
  clear for half a step, or to its bound (`HalfAStepIsClear`); a side is given up
  at its bound or at a find (`HitsAreEnds`); what a round has done and not yet done
  (`Rounds`); where the ladder ended (`LadderEnded`). `ChangesOnward` carries a
  change outward along a ray, by the least counterexample. It is under
  `GridReaches`: the values of the model have no holes and reach the bounds. The
  code evaluates any number; `Grid` is the finite piece TLC works on, and that
  piece satisfies `GridReaches` too.
* `ReportsTellAll`: `ReportTellsAll`. `ReportInv` says what the report is made of
  at each point of the sweep (`ReportTyped`), that every variable wanted is either
  answered or still to answer (`WantedAnswered`), which search is at work for which
  of them (`TurnKept`), that every evaluation is in the report, in the search at
  work or in the one given up for it (`EvaluationsCounted`), and that the ranking
  is the report in order, made when nothing is left (`RankedLast`).

They assume `SweepAssumption`, which types a request and the bounds of its
variables, and `UnboundedAssumption` ("no bound" is no integer).

### BerthRegister_proofs

A finite set in a strict total order is numbered by how many members lead each
one (`RanksNumber`), so `InOrder`, which the model uses where the code sorts, gives
every member one place and follows the order (`InOrderIs`). A stable sort by a
key is such an order of the places of a sequence (`StableIsStrict`), whatever the
key. From this follow what the resolver returns, `CandidatesAre` (the rows of the
berth that are in force, none after one it comes before), and what a vessel is
told, `VerdictIs`: she may call exactly if some row in force, or without any the
plain limits, fits her, and the berth named is a best one. The lemmas on
least and greatest members, on sums and on whole division are here as well.

### DeskProcess_proofs

The first two are proved of `AnyDesk`, which is the desk of `MCDeskProcess`
without the bounds `Room` and `Cold` and without fairness; `RunsAreOfTheDesk` says
the run's specification implies it, and `DeskStaysSound` draws the conclusion.

* `CachesStaySound`: `SnapshotsAreSound`. `CacheInv` adds what a thread holds in
  each phase, and that what is in memory was whole when it was read.
* `StreamsTellOneVerdict`: `StreamTellsOneVerdict`. What was told, what is
  queued and what was handed to the loop are one line (`Line`) that items only
  enter at one end; `InLine` says which lines there are: stages, each a start
  and a "done", perhaps a start that raised, then the end mark or, in its place,
  the verdict and the end. As many starts as "done"s, or one more right before the
  error, then follow from a bijection between odd and even places.
* `FilesStayInStep` (`FilesAgree`) and `FiguresStayStored` (`StoredFiguresStay`),
  for any number of days, months, failures, restated figures and kills, under
  `OneHarvester`: one process harvests at a time. The code does not enforce it; it
  is how the service is deployed, one loop and no second `main()`. With two, one
  may replace the file with what it read before the other's write, which section 1
  lists as a hazard without a property. `HarvestInv` says that what the run holds
  is still right when it writes (`HoldsGood`) and, without a kill, how far master
  and CSV are apart in each phase (`KeepsPace`). `HarvestIsWellFormed` needs no
  hypothesis.

### DeskRecords_proofs

* `LogIsOfTheDisk`: `LogMatchesDisk`, for any finite set of ports (they are
  visited in some order). Beside the types the invariant says what a pass has in
  hand: the page it works on is on disk (`PageInHand`), while it saves, its
  snapshot is the torn one and was not there before (`Saving`), before it logs,
  the snapshot is there, and ended if new (`Saved`), and no line has a key called
  new before (`FirstOfItsKey`).
* `CallsAreOfShipsAlways`: `CallsAreOfShips`. `CallsInv` says that no row is in
  the file twice (`RecordOnce`), that what an append has still to write is in
  nobody's file yet (`PendingFresh`) and is all that a report lacks
  (`PendingCompletes`), that a report an append returned for is there whole
  (`IngestedWhole`), that a client has the first so many rows, however the file
  grew since (`PagesSoFar`; the rows kept of a longer file begin with those kept
  of a shorter), and that a cached answer is the answer of some file
  (`AnsweredFrom`). `WaitsAreOfShips` needs no invariant: it holds of any file. A
  line whose ship could not be read counts for itself; of the others, the calls
  every latest row of which has a wait are counted, and none without one. Of a
  report `ReportsAssumption` says only that it has a date and lines.
* `ActionsStayTheirActors`: `ActionsAreTheirActors`, and `AccountsAreTheAdmins`:
  `OnlyAdminsChangeAccounts`. `RequestsFit` says what a request past the
  dependency knows: an account of enough rank, and the rank that account has now,
  unless something moved since.
* `ScenesStayWhole`: `ScenesAreWhole`. `ListedOnce` says a search's list has each
  scene once (as many as the set of them has members), `AtTheEnd` that the next
  bytes go where the file ends.
* `VintagesAreKept`: the action property `VintagesStand`. No line of the
  manifest is later than the run at work, and a run that is done wrote the last
  one (`ManifestInv`), so an answer as of a past day is fixed. What an entry names
  has a file, and the file is whole unless a kill cut its writing short
  (`FilesInv`), so a run that is done is answered with what it read or, there
  only, with nothing readable. The weeks written since the
  harvest looked are behind it (`WeeksInv`), so none is written twice.
* `CensusesAreOfTheirScenes`: `CensusIsOfItsScene`, for rasters of any size and
  whole figures, any radius and spacing. Blobs share no cell (a common part would
  be a smaller one), so fragments are told apart by their first cell and the order
  by peak is total (`StrongerIs`). After the first k fragments (`Clustered`) each
  of them is in one cluster only, a cluster begins with its strongest, is near to
  it, and begins near no other; `Absorb` keeps that, and the last k has all of
  them. `CensusInv` carries a count so made through recording, drawing and the
  routes. That the closeness of fragments is mutual (`NearIs`) is needed, that it
  is transitive is not: it is not.

### DeskRequests_proofs

* `RefreshLeavesStoresSound`, `AnswersHaveOneDay` and `StampsCoverTheirData`, for
  any ports, days, number of quotes and any failures and kills.
  `DeskInv` is `StoreFacts` (no store has a day after today), `Behind` (the master
  has nothing the files lack, a port file has no hole), `PassFacts` (the day a pass
  is about to fold is in the lanes' file) and `QuoteFacts` (no quote and no basis
  table rests on a version newer than the master's; the solves of a question
  that named a day with data are all of that day). It runs over the refresh and
  the quotes together: the stamp is read last, from a version that only grows.
* `EnvelopesAreSound`: `EnvelopeIsSound`, of the register in force today, which is
  what the code asks. `FleetInv` says that the offers are the
  fleet mix of the lift in hand, at the slack of the attempt. `FleetMixAssumption`
  and `LiftsAssumption` type the tables and the requests; a class without a
  deadweight would divide by zero in the code too (`fleetmix.py:267`).
* `CostsAreExplainedAlways`: `CostsAreExplained`. `CostInv` says that the answer
  in hand is that of the request in hand; the rest is about the operators. The API
  bounds most fields from below by zero, yet not the handling and the demurrage
  rate (`main.py:649-651`), so `TotalIsOfItsParts` says that only such a declared
  rate lowers a total. Where the premium was the same at every observation, the sum
  of the ratios is their number times that premium (`BasisIsThePremium`).
  For `AversionBuysCertainty` two optima are exchanged: each is no worse
  than the other at its own aversion, so the difference of the two inequalities is
  the claim. Without aversion the spend is linear, so an end of the grid is
  an optimum, the one the order of the search takes first. `TableAssumption`: a
  series has one figure a day, and a price of a commodity is not negative.
* `QuotesAgree`: `QuoteAgreesWithItself`, for any classes, fans, routes, lots,
  boundaries and moves. `QuoteInv` says that the decision in the making is one of
  the class chosen, on the fan and rate of that class (`DecidedFor`), and that the
  answer is that decision with its window, savings and moves. The rest is about
  the operators, and each is a lemma on every fan: three figures put in order are
  in order (`RepairedIs`), a basis keeps that order (`AdjustIs`, which is where
  division by 100 needs to be monotone), a mean by weights lies between the least
  and the greatest (`CeilingIsMean`), interpolation between horizons keeps the
  order of the quantiles on every day (`Interpolated`), and so does a sum over
  days (`SavingsAre`). `QuoteDeskAssumption` types lots and tables. A forecast is
  positive, which its validator insists on (`types.py:48`), and a route's premium,
  a quotient of such rates less one, is above -100 percent. It is taken as 100 or
  more: of a rate of some cents the percentage may leave a median under the
  floor of 1.0 that `_apply_basis` puts under the lowest quantile.
* `OutlooksAreOfTheirTime`: `OutlookIsOfItsTime`, from `SeaInv` (a reply on disk
  or in a request's hands was fetched by now, and what is kept for an answer was
  young when it was taken, `Keeps`) and `WaitInv` (a wait of a past day was
  computed from no more rows than there are up to it, `OfItsDay`). A file only
  grows at its end, so a part of it stays what it was. `AskedAssumption`: a voyage
  is between two of the ports.
* `SearchesAreSound`: `SearchIsSound`. `BackhaulInv` says that a search is answered
  from the calls kept and that its ranking is its candidates by worth. The sort
  is the stable order of `BerthRegister_proofs`; then one viable place behind one
  that is not can be worth no more than nothing.
* `RoutesAreReadWhole`: `RouteIsReadWhole`. `RouteInv` says that a pair of ports
  has one leg, which runs from the one to the other (`RunsTo`, whatever was
  trimmed), and that a finding is right while its request is in hand. The geometry
  rests on Lagrange's identity (`CrossIsBounded`): who is
  within a distance of an end of a segment is within it across the segment. A
  circle met by a segment is one the code finds, unless the segment only leaves
  it; and then the segment before ended in it and hit it, so only the first segment
  of a line can lose a passage (`LeftBehind`, section 4). For the two readers:
  both take the same rows in the same order; the score of the last day is negative
  only if some day of the window was above it, as a sum of figures none of which
  is above the last is no more than their number times the last (`SumIsBounded`).
  `RouteAssumption` types the tables and the files.

Where a proof wants induction over a sequence or a set, it takes the least
counterexample instead (`WellFoundedInduction` for the naturals). A sort of the
code is `InOrder` in the model, a numbering by an order, rather than `SortSeq`,
about whose recursion nothing can be proved here.

### Only model-checked

* Liveness (`StateCatchesUp`, `EveryAskIsAnswered`, `EveryStreamEnds`,
  `CatchesUpUndisturbed`): fairness and `ENABLED` are out of this prover's reach.
* `HistoryIsWellRead` rests on folds over a series (a median, a fit, a drawdown),
  each with a recursion of its own.
* `PlansAreSound` rests on paths through a relation, and for constants at which
  a round of moves takes no time the model has plans the solver would not give.
  The instances cover every branch of both.

## 6. Not modelled, and why

* Text: pages, PDF layout, spreadsheets, JSON shapes, logging, cookies, hashing,
  rate limits. Two processes sharing one `.tmp` are modelled for the snapshots
  and not for the harvester.
* `GET /alerts` reads its list and its unread count in two transactions; nothing
  relies on their agreement.
* Real-valued models: training and features of the forecasts (`ml/`), tonnage
  reconstruction and identification, the flow simulation of `network.py`,
  emissions, market impact. How their results are used is modelled as a choice.
* Of the anchorages: the geolocation fit, the clutter proxy with its confidence
  and the written calibration files. Of the ports: the confidence score, the
  register's berth listing and the layout of the pages.
* One-shot builders whose output is committed; the first pull of ports; the
  React client; developer scripts.

## 7. Plan

1. The parts of `HistoryIsWellRead` that are no fold: no figure of a day later
   than the day it is given for.
2. The envelope of `FleetMix` in place of the open answers of `FragilitySweep`.
3. `QuoteDesk` beside `QuoteVintage`: what a solve computes, of which vintage.
