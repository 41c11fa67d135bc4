# Formal model of the BİST risk spine

TLA+ modules, TLC configurations and TLAPS proofs about `src/` (the package `src/src/tmkg`, the
runners in `src/scripts`). The system is a point-in-time research store: network jobs land market
data in a local DuckDB/Parquet store, derived series are rebuilt from it, and everything downstream
reads as of a day. What can be wrong here is seldom one formula. It is two jobs in the wrong order,
a rebuild that stops half-way, a row that knows the future, a correction that never lands. The
models are about those.

## The system

| Component | State it keeps | Operations | Hard because | Correct when |
|---|---|---|---|---|
| **L2 store** (`l2/store.py`, `l2/schema.sql`) | DuckDB tables, Parquet part files, one exclusive file lock | `write_parquet` (connect, COPY, INSERT … ON CONFLICT DO NOTHING, close), `read_table`, DELETE sessions of callers | several OS processes; statements commit one by one; a process dies between two | one row per key, history append-only, Parquet never behind the table |
| **Point-in-time access** (`pit/access.py`) | none | `series(latest_by)`, `universe(u)` as of a day | every read must be what could be known that day | new knowledge changes no earlier read |
| **Universe membership** (`ingest/survivorship.py`, `ingest/universe.py`, `scripts/ingest_universe.py`) | spans with a knowledge date | `ingest_delisting`, `ingest_universe_class`, batch and single-name onboarding | three writers, two key conventions, corrections by re-statement | survivorship-free, no delisting foresight |
| **Returns engine** (`returns/`, `build_total_returns`) | `total_returns` | rebuild: read, DELETE, INSERT in three sessions | stops between DELETE and INSERT; FX later than prices | one row per bar but the first, in dollars when FX is there |
| **Factor fit** (`factors/`, `run_m2_factor_model`, `refit_factor_model.py`, `run_m3_gate.py`) | `betas`, `residuals` | validate, clear, build panel, per name read/write twice | inputs move under it; two scripts at once; abort after a clear | no stranded fit, no row on incomplete data, both tables of one vintage |
| **Daily refresh chain** (`refresh_all.py`, `daily_update.py`, `ingest_factors.py`, `ingest/incremental.py`) | exit codes, plan | factors → top-up of stale names → refit | partial failure, rate limits, late and revised bars, kills | `ok` means rebuilt and served; stale names catch up |
| **Network adapters** (`ingest/matriks.py`, `evds.py`, `fred.py`, `worldgovbonds.py`, `gdelt.py`) | none | fetch, parse | 429, no data, unreachable | never fabricate |
| **Onboarding** (`ingest/onboarding.py`, `onboarding_queue.py`, `new_listings.py`, `keep_current.py`) | derived from the graph and the store | detect, seed, steps, status, queue | a name half onboarded over several runs, renamed or delisted meanwhile | a leg found is kept, and right |
| **Identity graph** (`loaders/`, `adapters/`, `schema/`) | Kuzu nodes and edges | KAP seed, GLEIF LEI and parents, ISIN, sectors, inheritance, ownership | re-runs, several sources for one edge, stale edges | idempotent re-runs, no overwrite of better evidence |
| **Id bridge and its monitor** (`pit/idbridge.py`, `monitor/idbridge_health.py`) | none | resolve, round-trip checks | ambiguous tickers | a resolved id comes back to itself |
| **Control-graph integrity** (`schema/integrity.py`) | none | SCC, cycle check | iterative Tarjan | reports exactly the cycles |
| **Signal evaluation** (`signals/promotion.py`, `registry.py`, `gate.py`, `stability.py`, `monitor/registry_hygiene.py`) | `signal_registry`, `residual_corr` | evaluate, land snapshot, land verdict, hygiene | undefined statistics; a second verdict the same day; a death between two writes | promoted only when every leg passed, and its evidence is there |
| **Walk-forward backtester** (`signals/backtest.py`, `statarb.py`, `run_statarb.py`) | none | splits, purge, embargo, weights, books | off-by-one at window borders; positions carried over locked rows | no decision uses what it earns; feasible books are feasible |
| **Statistics, correlation, diagnostics** (`signals/stats.py`, `correlation.py`, `factors/diagnostics.py`) | none | numerics, step-up test, edge choice | floating point; ties and ranks | the edges are the ones the test allows |
| **Risk spine** (`risk/`) | none | linkage propagation, hop search, re-pricing, scenarios | cycles, parallel stakes, hop bound | every ownership chain counts once |
| **Events** (`ingest/gdelt.py`, `scripts/ingest_gdelt.py`, `events/`) | `events`, `event_targets` | crawl, land, event signal | late and missing files, retries, two writes a day; publication date vs event date | what is reported landed is landed, in both tables |
| **Monitors, probes, exposure views** (`monitor/smoke_drift.py`, `analytics/`, `scripts/probe_*`) | none | read-only checks | – | – |

The jobs interact only through the two stores: whoever has the DuckDB file open excludes the others
for one session, and between two sessions anybody may run. `refresh_all` starts its steps as
subprocesses, records their exit codes and never stops at a failed one.

## Modules

| Module | Models | State ↔ code | Actions ↔ code |
|---|---|---|---|
| `AppendOnlyLedger` | the contract of a bitemporal table (`l2/store.py` docstring: append-only, idempotent per key) | `ledger`: key → value or `Empty` | `Append`: fill empty keys |
| `L2Store` | `l2/store.py` | `table`, `parquet`, `holder` (open connection), per process `pc`, `frame` | `Connect`, `CopyToParquet`, `Insert`, `Close` are the statements of `write_parquet`; `DeleteSession` is a rebuild's DELETE |
| `Membership` | `universe_membership`, its writers and both reads | `rows`, `today`, `sectors` (IN_SECTOR edges), `last`/`announced` (the world's delistings) | `IngestDelisting`, `OnboardSymbol`, `IngestUniverse`, `LinkSector`; `Announce`, `Tick` are the world |
| `FactorFit` | `refit_factor_model.py` and `run_m3_gate.py` over `pipeline.py` | `returns`, `facTo`, `betas`, `residuals`; per script `pc`, `asof`, `todo`, `cur`, `panel`, `buf`, `rc` | one action per DuckDB session: `Launch`, `Validate`, `ClearFit`, `BuildPanel`, `ReadForBetas`, `WriteBetas`, `ReadForResiduals`, `WriteResiduals`, `Finish`, `FitterDies`; `LandFactor`, `EraseReturns`, `LandReturns` are the other jobs |
| `RefreshChain` (EXTENDS `FactorFit`) | `refresh_all.py`, `ingest_factors.py`, `daily_update.py` with `incremental.py` | adds `vendor`, `prices`, `at`, `day`, `plan`, `pulls`, `pulling`, `attempt`, `fresh`, `missed`, `codes` | `IngestFactors`, `Scan`, `Pick`, `Fetch`, `RateLimited`, `GiveUp`, `ReadInputs`, `DeleteSpan`, `InsertFresh`, `PullFails`, `EndOfPlan`, `DailyDies`, `StartRefit`, `RefitRuns`, `EndChain`; `NextDay`, `Post`, `Revise` are the world |
| `ControlGraph` | the Kuzu graph of companies: `kap_ingest`, `gleif_backfill`, `gleif_l2_backfill`, `kap_subsidiary_backfill`, `bist_isin_backfill` (classification), `sector_backfill`, and the gate of `schema/integrity.py` | `nodes`, `lei`, `status`, `controls`, `subsidiaryOf`, `stakes`, `inSector` are the graph; `stages`, `todo`, `queue`, `uuidOf`, `leafOf` the running script | `Start`, `Open`, `Close`, `Die` run a script's stages; one `Take…` per stage is its loop body, one `Write…` per statement; `Gate` is `check_no_controls_cycles` with Tarjan's search (`SearchStep`) |
| `Onboarding` | the onboarding of listings: `onboarding.py`, `new_listings.py`, the KAP seed, the LEI stage and both ISIN stages (`gleif_backfill`, `bist_isin_backfill`) with the GLEIF caches | `kap`, `members`/`recent` (the exchange's list and its cached copy), `company`, `security`, `l2`; `disk`/`warm` (the GLEIF cache files), `mem` (the process's); `phases`, `todo` the running process, `plan`, `ents` the orchestrator | `Run`, `Execute`, `NextEntity`, `NextStep` start processes; `Fetch`, `Seed`, `MatchName`, `FindIsin`, `TakeReference`, `LinkSectors`, `PullUniverse`, `Refit`, `OnboardSymbol` are what they do; `Through`, `Refuse`, `Die`, `DieInLookup` end a stage; `Relist`, `Age` are the world |
| `EventsCrawl` | `scripts/ingest_gdelt.py`, `GdeltAdapter.fetch`, `_land_gdelt_records` | `published` (the source), `events`, `targets`; of the crawl `crawl` (window, flag), `day`, `slot`, `attempt`, `batch`, `fails`, `missed`, `code` | `Start`, `SkipDay`, `BeginDay`, `Get`, `Retry`, `Unreachable`, `Collected`, `LandEvents`, `SeedTargets`, `EndOfWindow`, `Die`; `NextDay`, `Publish` are the world |
| `WalkForward` | `purged_walk_forward_splits` and what the runners take from it | – | operators: `TestRows`, `Banned`, `TrainRows`, `OutOfSample`, `FoldOf` |
| `SignalRegistry` (EXTENDS `WalkForward`) | the runners of the stat-arb and the event signal, the three books, `evaluate_candidate`, the writes of `residual_corr` and `signal_registry`, the hygiene rules | `fitTo` (the residual fit), `registry`, `corr`; of the running script `sig`, `asof`, `n`, `row`, `held`, `before`, `locked`, `verdict` | `Launch`, `ChooseVariants`, `WalkRow`, `CloseBooks`, `Judge`, `LandCorr`, `LandRegistry`, `Report`, `Die`; `NextDay`, `Refit` are the world |
| `ResidualNetwork` | the edge sets of `correlation.py` and the stability gate (`gate.py`, `stability.py`) | `rows`, `lo` the panel and the window's place in it, `measure` its p-values, `sets` the edge sets found so far, `decision` | `MeasureWindow`, `FilterWindow` for each window, then `DecideGate`; the specification is `GateSpec` |
| `Linkage` | `run_linkage_shock`: `propagate_ownership_shock` with its stack, then `control_blast_radius` with its queue | `stakes`, `controls` are the graph read; `stack`, `found` the chains; `queue`, `seen` the search; `shock` the origin in hand | `Read`, `Extend` (one pop of the stack), `NextOrigin`; `Visit` (one pop of the queue), `NextSearch` |
| `L2StoreProofs`, `MembershipProofs`, `RefreshChainProofs` (with `FactorFit`), `ControlGraphProofs`, `EventsCrawlProofs`, `SignalRegistryProofs` (with `WalkForward` and `ResidualNetwork`), `OnboardingProofs`, `LinkageProofs` | the theorems | | |
| `MC…` | constants for TLC | | |

`PROJECT.json` maps every definition to its lines. Abstractions worth knowing:

- A **row** is what the key and the guards tell apart. A price bar is a day and a version, a return
  is its day, the held bar before it, and whether it has a dollar value, so "the same return" means
  "computed over the same bars with the same FX". A fitted row is its day and the returns its window
  came down to.
- **Fitting**: the returns are joined with the days the factor panel has, the window of a day is the last
  `FitWindow` joined rows (`lo = max(0, i - window + 1)`, `betas.py:158`), rows a factor is missing
  from are dropped from it, and `MinObs` must be left. A beta needs nothing else, so it is served on a
  day whose own row is incomplete; a residual needs its day in the window (`neutralize.py:173`).
  A window is in one regime here (the code also drops the rows of another), and what the regression
  and the strip ladder make of it is left out.
- **Factors** are landed in day order, so a series is its last day. A weekly factor is forward-filled
  onto the daily grid by the code; `facTo` stands for the extent after that alignment.
- A return without FX has **no dollar value** in the model. The code reaches this through
  `pct_change` on the FX series, whose treatment of a gap depends on the pandas version (the
  requirement is not pinned); the model takes "no FX of the day, no dollar return".
- **FX and prices in one rebuild** are read in one session and may move before the write: the model
  keeps `fresh` apart from the store.
- A **company** is an issuer or the node minted for a parent's LEI, named by that LEI. The name
  matchers are oracles: `Matches` says which LEIs an issuer may be given (or none, or an HTTP
  error), `Relations` whom KAP's related parties resolve to when the node exists.
- A **loader** is alone on the graph (Kuzu locks the directory) and commits every `execute` by
  itself. Items are taken in a fixed order, as the queries order them; `--limit` is left out (it
  stops a stage early, as a death does), `--include-unlisted` too. The ISIN stages are in
  `Onboarding`, where `--all` of the identity stages is left out: it replaces legs on purpose.
- **What GLEIF and the reference say** is constant during a run of `Onboarding`: the name match, the
  ISIN lists, the page cap, the reference file and a human's rulings. What varies is when they are
  asked, by whom, what is cached and what dies.
- **A record of the event stream** is the file it is in and whether it is a typed event about
  Turkey. A write of the crawl is one step; `L2Store` is about what happens inside one.
- **Signals**: of a weight its sign, of a Sharpe ratio a level, of DSR and PBO the side of their
  threshold; each may be undefined where the sample is too short. Row `i` of a panel is the bar of
  day `i + 1`, and what a weight is decided on is the set of rows it reads.
- **p-values** are a few ordered levels and "untested"; the sort of the step-up and the medians are defined
  by what they give (a listing in ascending order, the value of a rank), so ties fall in any order; shrinkage, bootstrap and partial
  correlations are not modelled.
- **Edge provenance** is the basis alone; `as_of`, confidence and method go with it.
- **Vendor**: a bar is posted on its day or later and may be revised once; every answer may be late,
  empty, rate limited or missing.

## Runs

Passing runs. Every property has a mutant in `PROJECT.json`: a plausible bug in a mapped
definition under which the run fails.

| Run | Question | Instance and why it is enough |
|---|---|---|
| `l2_store` | Does the store keep its contract when two processes race and die between statements? | 2 processes, a bitemporal and a derived table, 2 keys, 2 values: a race on one key, a frame that repeats a key with two values, a partial overlap with rows that are held, a DELETE between a COPY and an INSERT. 420 thousand states. |
| `membership` | What can a read as of a day know? | 2 names (one listed on day 1, one on day 2), 3 days, 2 classes, windows that start on day 1 or 2, 4 rows: enough for the two delisting rows of one name beside spans of another writer or of the other name, before and after it. 243 thousand states. |
| `factor_fit` | Can concurrent fits and moving inputs spoil what is served? | Both scripts, 1 name, 2 factors, 3 days, windows of 2 rows of which 1 must be complete, 1 fault: a beta of a day a factor is missing from, a window that has moved past its first row. A name's fit touches no other name's rows. 1.20 million states. |
| `refresh_chain` | What does `ok` mean, and does a stale name catch up? | 2 names, 2 factors, 3 days, 1 fault, 1 retry, 1 revision, freshness budget 0, overlap 1: a bar can be late, the FX of a day missing, a pull fail between any two sessions, then the next day's chain repair it; the fit's window as in `factor_fit`. 1.03 million states. |
| `control_graph` | Do re-runs, deaths and two sources keep the control graph right? | 2 issuers, an outside parent, 3 LEIs, 2 sectors, 5 KAP relations, one direct and one ultimate parent from GLEIF, 4 scripts of which one may die: a seed, two loaders in either order and a re-run; two nodes with one LEI; control cycles of two and of three. 881 thousand states. |
| `signals` | Can a decision use what it earns, a feasible book hold what it could not trade, a verdict stand on nothing? And, in a part of its own, which edges does the residual test reject, and what does a GO rest on? | Panels of six to eight rows, 3 folds, purge and embargo 1, an edge window of 3 rows redone every 2, look-back 3, one event, two runs of either script: a short panel with undefined statistics, an empty edge set, a same-day re-evaluation, a lost fit, several locked rows in a row. The gate, which neither reads nor writes what the scripts do, has 3 pairs, 4 levels and "untested", up to 4 windows: ties, a p-value above its own line below a later one, empty sets. A behaviour is about one or the other. 772 thousand states together. |
| `onboarding` | Do re-runs, caches, errors, deaths, renamings and delistings lose a leg, or let the two ISIN sources contradict each other? | 2 companies, one listed later; 2 codes; one instrument list of three equity codes that runs past the page cap, so that two readings of it may differ, with two candidates kept of a reading, so that the code that spells a ticker may be outside them; a reference row at odds with it and a ruling; 1 change of the list, 1 fault. 3.20 million states. |
| `events_crawl` | What does an ok crawl promise, and does it end? | 2 days of 2 files, 4 records of which one is noise, 1 retry, burst 2, 2 crawls: a file that appears late, a failed day, a death between the two writes and the crawl that repairs it. 57 thousand states. |
| `linkage` | Is every chain counted once and every hop number the fewest? | 4 companies, every subset of 8 stakes (a parallel one, cycles of two and three) and of 6 control edges, one stake no fraction and one of little confidence, hop bound 1 for the stakes, so that chains of three stakes are cut, and 2 for the control edges. 194 thousand states. |

What they establish:

- `OneRowPerKey`, `ParquetBacksTable`, `LandedOnReturn`, `HistoryIsAppendOnly` – the store is safe
  statement by statement although nothing is transactional: the order COPY then INSERT and the
  exclusive file carry it.
- `NoLookAhead`, `NoDelistingForesight`, `DeadNamesRetained`,
  `DelistedNameLeaves` – the bitemporal table answers as a survivorship-free one. `NoLookAhead` is
  about the class a fit reads as well as about the members. `DelistedNameLeaves` has a precondition,
  that the name's spans in `listed` came from its delisting file alone; without it the property
  fails, because `onboard_symbol` opens a span under another key.
- `RefitNeverStrandsFit` – the daily refit's check still holds when it clears and when it builds
  the panel again, because levels are only ever added. `FitWithinFactors` – the windows of what is served
  hold complete rows only, `min_obs` of them, and a residual's its own day, whatever the two scripts interleave.
- `OkMeansRebuilt` – after `daily_update` exits 0 every planned name has exactly the returns of its
  held bars and the current FX, so late bars and late dollars are healed. `OkMeansFitServed` – after
  a chain that reports ok, betas and residuals are those of the returns and factors now held, each on
  the days its own rule admits. This is about
  the chain alone; run beside the gate it does not hold, and nothing in the code excludes it.
- `StaleHeals` – under fairness a name that still has some returns ends up fresh or at the
  vendor's last bar.
- `SubsidiaryControlled` – the two edges of a pair are written by two statements; a death between
  them leaves a control edge without a subsidiary edge, never the reverse.
- `GleifKept`, `KapSectorKept` – the weaker evidence never replaces the stronger.
- `InheritedFromAbove` – a re-run of the inheritance starts also from companies whose sector was
  inherited, against the docstring's "never chained"; still each inherited sector is the KAP sector
  of a company above.
- `GateExact` – the gate says "cycle" exactly when some company is reachable from itself. A script
  without the gate (`discover_kap_subsidiaries.py`) may leave a cycle until the next gated one.

- `DecidedOnThePast` – the variant that trades a row was chosen more than the purge before its fold,
  and stat-arb weights read earlier rows only, through edge sets that are themselves estimated on a
  window. `BooksTradable` – over any sequence of locks the venue-feasible and the stress book hold
  what they held, and a carried position never makes the stress book short.
- `LedgerCoherent` – undefined statistics never promote; `SnapshotBehindVerdict` – the edge snapshot
  a stat-arb verdict rests on is landed first, so it is there wherever the script died, also when the
  verdict's own key was taken.
- `RejectsLargestSet` – the step-up rejects exactly the union of all self-consistent sets, ties and
  untested pairs included. `GoMeansRecurring` – a GO needs an edge seen in more than one window, so
  the vacuous agreement of empty sets (`stability.py:73`) does not reach it.
- `IsinVouched` – when the cached answer for a company's LEI, matched to it alone, has any code, the
  company's ISIN is one GLEIF lists for that LEI, over both stages in either order and whatever the
  caches held. It need not be among the cached codes: only ten are kept of an undecided list, of a list
  past the page cap each reading sees a part, an answer is cached before it is written, and a killed
  process may save it or not; all of these are steps of the model. `LegsKept` – no script takes
  a found leg away.
- `TargetsHaveEvent`, `OkMeansLanded`, `CrawlEnds` – a plain crawl that exits 0 without a failed day
  has landed every event of its window in both tables, also those a killed crawl left half
  done; retries and failed days cannot keep it busy for ever.
- `EveryChainOnce`, `NearestHops` – the propagation counts each simple ownership chain once, around
  cycles and over parallel stakes, up to the length the code lets through and none beyond it; the hop numbers are
  the fewest. That this length is one more than the docstring's is the run `truncated`.

Violation runs: places where the code does something else than a comment of the repository says.

| Run | The words | What the code does |
|---|---|---|
| `erased` | "a name we hold nothing for returns the **full** window … so the same path serves onboarding and daily top-up" (`incremental.py:12-13`) | only stale names are planned; a name caught between DELETE and INSERT is missing for good |
| `peeks` | weights "decided with info ≤ that date", returns "over the period that starts at ``t``" … "the backtester never peeks" (`backtest.py:207-209`) | the event runner passes returns that end on the row, and its weight of the entry row is decided by an event of that row's day |
| `truncated` | "chains longer than ``max_hops`` are truncated" (`linkage_propagation.py:74-75`) | the test at `:100` is made on a chain before it is extended, so chains of `max_hops + 1` stakes are counted |

Deadlock is checked in every run but the two of `Linkage`: there one computation runs to its
end and stops. No other model may get stuck; the gate of `signals` stutters on its decision.

### Other places where words and code part

Met while modelling and kept here as notes for a reader of the code, without a run:

- `onboard_symbol` keys its open span by its price window, the delisting closes the one keyed by the
  listing date: a later read still contains the delisted name, although
  `tests/invariants/test_survivorship.py:4-6` says it is excluded (`onboarding.py:239`).
- `ingest_universe.py:140` dates its knowledge to the window start: a name listed later is in earlier
  reads (`test_survivorship.py:60`).
- `pipeline.py:648`: "as known at the PIT vintage" is the first class in scan order among all vintages
  and universes of the latest `valid_from`.
- `sector_backfill.py:135-136` skips `EXTERNAL_*` nodes by a mark that `bist_isin_backfill.py:229`
  overwrites for every company.
- `incremental.py:9-10`: a revised bar has the held bar's key and is ignored (`store.py:71`).
- `ingest_gdelt.py:53`: `--skip-existing` passes over a day with any event, so a half-landed or
  half-published day is not resumed.
- `registry.py:4-5` says every candidate writes a row; `run_statarb.py:244` lands nothing when the
  latest edge snapshot is empty, and a second verdict of the same day is ignored by the key.
- `run_m5_statarb.py:63` looks up a verdict that an empty report does not have.
- `idbridge_health.py:10-12` speaks of ambiguity on every leg; a ticker two companies share is
  listed, not counted a failure.
- `backtest.py:76`: the embargo band "trailing the previous test block" lies before that block.
- `gleif_adapter.py:442` caches a failed ISIN lookup, which then reads as a list without candidates;
  the reference stage reads that file whatever its age.
- `gleif_adapter.py:455` caches the first ten equity codes of an undecided list, and
  `bist_isin_backfill.py:150-159` takes them for all: for an issuer with more, a right reference code
  past the tenth is refused as a conflict.
- `rolling_factor_betas` dates betas on days a factor is missing from, as of the complete rows before
  (`betas.py:157-167`); `rolling_residuals` does not (`neutralize.py:173`). A reader who joins the two
  tables by day loses those betas.
- `gleif_adapter.py:213-216` calls a code confident when "exactly one equity-class (TRA/TRE) ISIN exists";
  what is counted is the codes on the pages read (`:424-440`, `exhausted` is recorded and not
  consulted), so the first code of a longer list can be written as the only one.
- A renamed company gets a second Security that no stage gives the ISIN, because `only_missing` looks
  at the Company; two names matched to one LEI share an ISIN.
- The event runner passes neither a limit-lock nor a short-eligibility panel.

### Bounds

`LastDay`, `MaxRows`, `MaxFaults`, `MaxRevised`, `MaxRuns`, `MaxDeaths`, `MaxChanges`, `MaxCrawls` are the only bounds
that the code does not have (`MaxRetries`, `BurstAbort` and the hop bound are the code's). They are constants, named in the guards they bound. `MaxFaults` counts crashes, failed
statements and unreachable sources; rate limits that are retried cost nothing, the one that gives a
name up does. `MaxChanges` counts listings, delistings and renamings, `MaxCrawls` crawls; `MaxRuns` and `MaxDeaths` count the scripts of `ControlGraph`. With four runs
there is a seed, a loader, a second source and a re-run of either; inheritance over
two rounds of new control edges would need five runs and is out of this instance.

### Fairness

`ChainFairness` is weak fairness of "the chain starts or goes on" as one action. It is what the
launchd schedule (`refresh_all.py:14`) and the blocking `subprocess.run` (`refresh_all.py:48`)
give: a started step ends, and the chain is run again. Neither the calendar, nor the vendor, nor any
single name is fair, so progress of one name among several is the plan's doing. Faults are finite
because of `MaxFaults`; that is the assumption under which a retry can be expected to succeed.
`FairSpec` of `EventsCrawl` is weak fairness of the crawl's own steps as one action: each request has
a timeout (`gdelt.py`), so a running crawl goes on. The source is not fair, neither is an error
excluded; that the crawl ends is the doing of the retry bound and of failed days being passed over.
No other specification states fairness.

## Proofs

TLAPS checks these for every value of the constants; assumptions are those named in the modules
(the two signals and the empty markers differ from the rest, lists of instruments are finite, `LastDay` a positive number, listing days among the days, markers outside the value sets, `FX` one
of the factors, derived tables among the tables, companies, stakes, control edges and names finitely many, windows
and their steps positive, the lift a GO needs positive, as `GATE_MIN_LIFT` is).

- **`L2StoreProofs`**: `Spec => []Consistent`, by one lemma per action. The safety properties are
  not inductive alone. That a row is in Parquet when it is inserted needs `CopiedBeforeInsert`; that
  the keys of a frame stay held until the writer returns needs `OnlyHolderWrites`, the exclusive
  connection that keeps another process's DELETE out. `StoreIsAppendOnly` is the refinement to
  `AppendOnlyLedger`: an insert is an append of the keys it fills, a DELETE of a derived table a
  stutter; `HistoryOfRow` and `HistoryUnchanged` carry the mapping.
- **`MembershipProofs`**: `Spec => []Sourced`. `DeadNamesRetained` needs that an open version stands
  beside a closed one (`OpenBesideClosed`) and that a closed row is the announced one
  (`ClosedIsSourced`); a read picks the latest visible version, which exists because days are
  natural numbers (`LeastExists`, `LatestExists`). `MembershipNoLookAhead` is the action property,
  from `RowsGrow` (no step removes a row) and the fact that reads of day `a` look only at rows
  known by `a`.
- **`RefreshChainProofs`**, first the fit alone: `Spec => []FitSound`. `FitWithinFactors` and `OneFitPerDay` are about what
  is in the tables; the strengthening says the same of what a script holds in its buffer
  (`BufferedFitSound`), that the returns it read have one row per day (`OneReturnPerDay`, lemma
  `ReturnsSound`) and that its panel is still within the store's levels (`PanelWithinLevels`).
  Then the chain: `ChainSpec => []ChainInv`, on top of the lemmas about `FitSound`. `OkMeansRebuilt`
  and `OkMeansFitServed` say something only when a chain has ended; the strengthening says how far it
  is. What is held was posted and what is posted is not of the future (`BarsSound`). While names are
  pulled nothing is held past `as_of`, and each planned name is still to pull, in hand with its deleted
  or fresh span, or rebuilt, unless a name was missed and the step will not exit 0 (`DailySound`); the
  window asked for takes in the last held bar, so the answer is never empty and the rebuild, which an
  empty answer would skip, runs. A step that has not run has no exit code (`CodesSound`). To the refit a name is served, untouched since the
  clearing, or the one in hand (`RefitSound`).
  The budget, the overlap and the retries are any natural numbers.
- **`ControlGraphProofs`**: `Spec => []GraphInv`. The properties speak of the graph, the
  strengthening of the statements still queued: a SUBSIDIARY_OF statement has its CONTROLS edge
  written or queued before it (`Ordered`), no queued control edge is a loop and one that may
  overwrite is GLEIF's (`Proper`), a sector statement is alone in its queue and an inherited one is
  for a company without a sector (`Staged`, `TargetsUnsectored`). That GLEIF never makes a company
  its own parent needs what `lei2uuid` still means while LEIs and minted nodes are written
  (`UuidsHold`, `ExternalLei`). `GleifIsKept` and `KapSectorIsKept` are the action properties that
  follow. `InheritedFromAbove` needs that the leaf map of the running stage is of sectors held
  (`LeafsHeld`) and that a queued inheritance is traced (`Traced`); it stays traced because control
  edges and KAP's sectors only grow (`BelowGrows`, `SourceStays`), and an inherited sector passed on is
  traced through the company it was inherited by (`BelowTransitive`). What the walk by levels finds is
  above (`AboveIsAbove`): the levels are a recursive function, which exists and has the property by a
  least counterexample, since induction over the levels is not to be had from the prover.
  `MaxRuns` is any natural number, so the results hold for any number of runs and deaths.

  `GateIsExact` is the correctness of Tarjan's search, frame by frame, on any finite graph. `SearchInv`:
  the stack and the path of frames are in the order of the visits and what lies above a node of the path
  is below it in the graph (`StackOrdered`, `PathOnStack`, `StackBelow`); a low link names an earlier node
  of the stack that is reached, and only a node of the path may keep its own index (`LowReached`); the
  node being explored has the least low link of those left since its visit (`LowLeast`); every edge of a
  node on the stack is still to be given by its iterator, leads to a node popped, or is in its low link
  (`EdgesCounted`); no popped node controls one that is not popped, and a popped node that is below itself is in a component of
  several nodes or controls itself (`PoppedClosed`, `OutRight`). So a root that is closed with nodes above it has a
  cycle through it, and one without has none. That the search ends is a
  count: the nodes not visited, the nodes not left and the edges not given are fewer after
  every step (`StepLeavesLess`), so it is over within `Steps`. The verdict tells of the graph only when edges join nodes the
  query reads: `EdgesOfNodes`, with `Grounded` and `NodesRead` for the statements still queued.

- **`EventsCrawlProofs`**: `Spec => []CrawlInv`. That an ok crawl has landed its window needs what
  holds half-way: the days behind it are landed in both tables (`Behind`), what was fetched of the
  current day covers what was known of it up to the current file (`Fetching`), and the day's events
  are landed before its targets.
- **`SignalRegistryProofs`**: first the folds, as facts of arithmetic for every number of rows
  (`FoldsInOrder`, `ChosenBeforeTraded`), and least and greatest elements by well-foundedness of the
  naturals; then `Spec => []RegistryInv`: a script at work has rows and walks out-of-sample ones
  (`OnPanel`), the stress book is never short also before its first row (`Feasibly`), a reached
  verdict is sound and its snapshot lands before it (`Judged`). The five properties of the run follow.
- **`OnboardingProofs`**: `Spec => []OnboardingInv`: every company a stage has still to do lacks the
  leg the stage writes (`Ready`), whatever the other steps did since the stage read its targets.
  `FoundLegsKept` is the action property from it. `IsinVouched` needs `VouchInv` beside it: what the
  cache files and the running process's caches hold is an answer GLEIF gave for that LEI, that is, of
  its codes; and, if one company only was matched to it, that company carries the LEI and, unless the
  answer is empty, no ISIN but one GLEIF lists (`CacheSound`); an LEI is the one the name was matched to
  (`Matched`). That an answer may be cached without being written, or saved by a dying process, costs
  nothing: a company without an ISIN agrees with every answer (`StaysSound`).
- **`LinkageProofs`**: `Spec => []LinkageInv`, in two parts. `ChainsInv`: while an origin is in hand, the chains
  of it not yet found are exactly those some chain on the stack leads to, and no chain on the stack
  leads to another there (`InHand`). A pop replaces a chain by its extensions, which keeps both; an empty
  stack leaves nothing unfound, and an extension of a chain on the stack is never one found before. `SearchInv`: the queue holds whom the search has met in
  the order of their hops, which differ by at most one, and whoever waits no longer has met its
  neighbours (`Searching`); what is reported is a distance (`HopsRight`). When the queue is empty, whoever is
  within the bound is known, by a least counterexample over the levels of `Within`.
- **The residual gate**, at the end of `SignalRegistryProofs`: `GateSpec => []NetworkInv`, that the
  edge sets are pairs under one sector and a GO is the decision on the windows compared. `StepUpIsLargest`: a
  finite set has a listing in the order of its p-values (`SortedExists`, again a least counterexample);
  the rejected pairs are the first `r` of it, within the share `r` earns because the listing ascends, and a
  self-consistent set of `k` pairs has its last one at rank `k` or later, a rank below its threshold
  (`RejectedLargest`). `GoRecurs`: windows that share no edge have a lift of 0 or, both
  empty, an infinite one that is left out; a median of zeroes clears no positive threshold
  (`MedianOfZeroes`), and neither does a median of nothing.

Only model-checked: liveness (`StaleHeals`, `CrawlEnds`), which is out of the prover's reach, and the
violations. Every invariant and every action property of the passing runs is a theorem.
Proved and no longer run: `OneVersionPerVintage`, `OneFitPerDay`, `NoSelfControl`.

## Not modelled

Floating-point numerics (statistics beyond the step-up test, regressions, costs and P&L, re-pricing,
scenarios), parsing and name matching, downloads, research probes and read-only views: they keep no
state, and a bounded model would tell nothing apart that a unit test does not. `PROJECT.json` lists each
with its reason. `--all` of the identity stages, `--limit`, `--include-unlisted`, the ownership
fixtures and disclosures are left out of the loaders. The onboarding queue, the id bridge with its monitor and
the heartbeat of `keep_current.py` read one state and change nothing: what they say is a formula over the records,
which no sequence of steps makes false. How a limit-lock flag, a dividend or a deflator
is computed is arithmetic on one row and its neighbour. The Parquet files are never read back by the
code, so a rebuild from them is not modelled.

## Plan

The components with control worth modelling are modelled and the invariants of their runs proved. What
is left: the hazards of `PROJECT.json` that no property covers, each with its note; and facts the proofs would
now carry at little cost, such as `FitWithinFactors` with a chain and a gate that run beside each other
(`RefitAssumption` lets the chain have the refit only).
