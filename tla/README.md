# Bandbox: specifications

TLA+ specifications of Bandbox, the Philadelphia property-intelligence service:
a nightly TypeScript worker that copies the city's open data into Postgres,
diffs it into histories, derives scores, views and metrics, builds the map and
mails alert digests; a Next.js application with market scan, leads, parcel pages,
accounts, alerts, billing, comparable sales and skip tracing on top. TLC checks
every module on small instances; TLAPS proves the safety properties of the passing
runs for all instances.

    tlc -config keyset_serial.cfg MCKeysetIngest      # a run
    tlapm KeysetIngestProofs.tla                      # the proofs

`PROJECT.json` lists components, runs, source lines of every definition,
hazards, findings and theorems.

## 1. Inventory

### Worker and operations

| part | state | operations | hard behaviour |
|---|---|---|---|
| keyset source (`run`, `pipeline`, `fetchers`, `adapters/carto`, `joinRate`, `loaders/upsert`, `normParcel`, `ingestRun`, `backfill`) | canonical table, `ops.source_cursor`, `ops.ingest_run`, `ops.parcel_key_quarantine` | read cursor, fetch pages, audit, gate, promote, diff, close run, write cursor; streaming backfill | the cursor row is shared without a lock by nightly, weekly and backfill; a failure at every await; a batch is retried from an older cursor |
| OPA spine (`adapters/opaBulk`, `steps`, `loaders/changeLog`) | `public.parcel`, `parcel_change_log`, watermark | HEAD, freshness gate, GET, row-count band, chunked upsert, soft-retire, diff per field, write watermark | promoted outside a transaction; the object changes between HEAD and GET; truncated downloads |
| event histories (`loaders/changeLog`) | `violation_event`, `delinquency_event` | append (re)appearances, append clears | the diff after the commit may fail; it must be idempotent and alternate |
| derived finalize (`finalize`, `loaders/geo*`) | `geo_boundary`, stamped ids, two matviews, `geo_metric` | lazy load, (forced) stamp, refresh, recompute trailing months, snapshot | partial runs; late records; a window that is not aligned to months |
| alerts (`alerts`, `email`) | `alert_subscription.last_sent_at`, `alert_event` | select due, compose, insert feed rows, mail, advance | a day-granular window against a clock; failures between statements; subscriptions changing meanwhile |
| orchestration (`run`, `nightly.yml`, `keepalive.mjs`) and sheriff scrape | parcel-key index, reports, exit code, heartbeat commit, ping | sources in order, finalize, tiles, alerts; heartbeat; ping | a failure must stop neither the other sources nor the schedule, and must be heard |
| tiles (`packages/tiles`) | served archives | pump features into tippecanoe, upload | the endings of pump and child race; a short archive with exit code 0 |
| migrations (`packages/db`) | `ops.schema_migration`, the schema | read ledger, apply each pending file in a transaction | overlapping runners of different releases, dying anywhere |

### Application (`apps/web`) and shared packages

| part | state | operations | hard behaviour |
|---|---|---|---|
| billing | `app.subscription`; Stripe's customers, subscriptions, events | checkout, webhook | at-least-once, unordered events; two checkouts at once; handlers that die half-way |
| skip trace and keys (`lib/skiptrace`, migration 0014) | `app.skiptrace_usage`, `app.skiptrace_key`, Vault | lookup, set key, delete key | check-then-count; READ COMMITTED key calls |
| areas, subscriptions, unsubscribe | `app.saved_area`, `app.alert_subscription` | create, delete, unsubscribe | race with a running digest and with each other |
| market scan (`MarketScan`, `ScanMap`) | selection, lens, period, map sources | effects, each with a fetch, that re-run and cancel | answers of earlier choices arriving after later ones |
| leads (`LeadsView`, `leads-query`) | filter, pages, counts, saved leads | debounced fetch, Load more, export, save | generations of requests; data replaced between two pages |
| account and login (`AccountView`, `LoginForm`) | the account, as shown and as stored | handlers: call, refresh, enable | overlapping handlers and refreshes; fetches that throw |
| distress, transfers, adapter (`packages/core`, `parcel-query`, `DeepDive`) | rows under natural keys, `distress_signal` | load, score in SQL, score again in TypeScript | two implementations; nulls, text numbers, caps, staleness |
| comps (`core/comps`, `comps-query`, the card) | none | pool, ladder, trim, estimate, curate | minimum sample, radius clamp, percentiles of few values, pinned sales |
| email, geo pages, search | none of their own | rendering and reads | little that several steps can break |

The parts meet in the database. The worker runs its sources one after the
other, then finalize, tiles and alerts; a source's failure is caught per source.
`weekly.yml` starts the same worker in another concurrency group than
`nightly.yml` (its `--task` argument is read nowhere), so two workers may overlap.

## 2. Modules

One module a component; `MC*` modules give the constants their values. Where
several small components share a run, the MC module is their sum: a variable
says which part an instance is about, and the other parts do not move. In every
module an action is one statement, request or await of the code (what the code
does in one SQL statement or transaction is one action), and a definition that is
named as a *slip* is a mistake the code does not make, used only to show that the
properties can tell.

| module | models | state and how it stands for the code |
|---|---|---|
| `KeysetIngest` | one keyset source | `source`: rows the city shows, numbered by `cartodb_id`; `table`: conflict key -> the row last upserted for it; `cursor`, `committed`: the `ops.source_cursor` row; `audited`: quarantine records; `run`: ledger status; a `pc`, `batch`, `pos` per process for the locals of `runWorker` or `backfillSource` |
| `ResumableCopy` | the abstract contract of the above | rows appear, rows are copied, the cursor is set only over a copied prefix |
| `KeysetIngestProofs`, `DerivedProofs`, `OpsProofs`, `AlertProofs`, `BillingProofs`, `SkipTraceProofs`, `ParcelProofs`, `WebProofs` | proofs | the theorems of section 5, each about the module or the sum of modules it extends |
| `SpineIngest` | OPA -> `public.parcel` | `object`: the version the city shows; `parcel`: the version each row was written from; `active`; `log`: change log per (parcel, field); `watermark` |
| `EventHistory` | violation and delinquency events | `city`: row versions in keyset order; `row`: canonical status; `log`: events per subject |
| `DerivedFinalize` | the end of a nightly run | `boundary`, `geo`: polygons and stamped ids; `comp`, `distress`, `metric`, `share`: the set of events each derived value was computed from |
| `NightlyJob` | the workflow around the worker | per source the version promoted (`have`) and passed (`cursor`); `index`: the parcel-key index; `reports`, `exitCode`, `ping`, `quiet` (nights without a commit) |
| `TileBuild` | pump, tippecanoe, upload | `piped`, `pump`, `child`, `archive`, `settled` (the promise); `served`: the object the map reads |
| `Migrate` | migration runners | `ledger`, `schema` (how often each file was applied); per runner its release's `files`, the ledger as it `known` it, its transaction |
| `AlertDigest` | digests and the requests around them | `area`, `sub`, `channel`, `last`: the rows; `feed`, `emails`: what was delivered; per worker its snapshot, pending and digest items |
| `Billing` | checkout, Stripe, webhook | `row`: `app.subscription`; `stripe`, `period`, `sent`: Stripe's side; a program counter per request and per handler |
| `SkipTrace` | lookups and key calls of one user | `usage` per UTC day; `rows`, `vault`; a transaction record per key call |
| `CompsLadder` | comps of one subject | `market`, `area`: the input; `pool`, `matched`, `fs`: candidates, matches, filter state; `result`; `shown`: the card. Distances are in quarters of a mile |
| `ParcelRecord` | one parcel's filings, score and page | the rows under their natural keys; `row`: its row of `distress_signal`; `fresh`; `page`: what the page computed of both |
| `MarketScan` | the scan page | the React state; `asked`: the request of each effect, at most one and cancelled with it; `flight`: the requests no effect cancels, paints and saves, in the order sent; `painted`: what the map shows, `late` if it was answered after a paint asked later (a history mark, read by no action) |
| `LeadsPage` | the Leads page of one user | `filter`, `reqId`, `rows`, `total`, `facets`; `flight`; `version` of the data; `saved` leads |
| `AccountPage` | account page and login form | `server`; `shown`; `busy` per card; `calls`: handlers with their stage and the reads they hold |
| `MCDerived`, `MCOps`, `MCParcel`, `MCWeb` | sums | spine + histories + finalize; nightly job + tiles + migrations + billing; comps + record; scan + leads + account |

Abstractions worth knowing. A join key column is the set of rows that join; a
payload is the number of the row or version it came from; a derived value is the
set of events it counts, so that "stale" and "partial" are visible without
arithmetic; days, months, ticks and years are small numbers. In `ParcelRecord`
scores are integers, in millionths, so that every weight is a whole number of
times its cap, and the last bit of a sum of doubles is a
choice where it decides. In `NightlyJob` a source holds a version of the city's
data, and a batch joins for certain only if the index is as new. Crashes are
actions (`Crash`, `Fail`, `Throw`, `Die`, `RunnerLost`, ...), bounded by
`MaxFaults`, `MaxLost` or `MaxStarts`.

## 3. Runs

| run | question | bounds and why they suffice |
|---|---|---|
| `keyset_serial` | Nightly and backfill taking turns (`Overlap = FALSE`): is anything stale, miscounted or called a success too early? | 4 rows, 3 keys with one shared, one unusable and two malformed rows, pages of 2, chunks of 1, one fault: every branch (empty page, full page, page budget, quarantine, commit interval) occurs, and a retry meets a newer row of the same key |
| `keyset_workflows` | Nightly and weekly overlapping freely: is the cursor sound, is the contract implemented, does the backlog drain? | 3 rows, pages of 1, one fault; two positions of two workers and a third row are enough for a slow worker to move the cursor back across a faster one |
| `derived` | Does the watermark ever overtake table or log, are histories chains of real changes, is a finished run complete, and does each settle? | spine: 4 versions, one truncated below the band, 3 parcels, 2 fields, 2 faults; histories: a violation, one without a parcel, a delinquent, 4 moves, batches of 2, 2 faults (open, close and reopen with a failed diff in between); finalize: 2 kinds, 3 polygons, 2 parcels, 3 events, 5 days in months of 2, a window of one month, one fault |
| `months` | (violated) does a month keep the events it has counted? | the finalize part of `derived` |
| `nightly` | Are sources measured against tonight's parcels, does the monitor hear the truth, does the schedule survive, does all catch up; are only whole tiles served; is a migration applied once, in order; under ordered delivery with redelivery and failed handlers, is nobody granted what was not paid, is the period kept, does the row converge? | one source of each kind, two city versions with pages of one (a batch can be refused and pass later), two faults and a lost runner, two idle nights; two layers of two batches over two table versions; two runners, two releases of two and three files, four starts; two racing checkouts, one paid, 2 periods, one redelivery, one fault |
| `parcel` | Where does the ladder stop, what is the estimate, what does the card keep; does the page agree with the matview; what raises a score? | every market of four sales from the twelve profiles of `MCParcel` (one for each rung and gate, without coordinates, without price, a parcel sold twice), minimum sample 3 so that 2, 3 and 4 matches occur, a card of two; the code has 5 and 8. Every history of three filings over three years: each signal depends on one or two kinds of filing, so a third lets an unrelated one come between. $625 of debt makes the half point |
| `sheriff_sold` | (violated) does a sale that is over stop counting? | one writ, four steps |
| `web` | Do map, rail, list, counts, export and cards settle on the last choice, whatever the order of the answers (the map but for values that were overtaken)? | scan: two geographies, two lenses with different periods, two ids, two clicks; leads: two nights of data, pages of one, a cap of two rows, three clicks; account: two clicks; one failed request each. A race needs two requests in flight, a third click makes the first answer two generations old |
| `overtaken` | (violated) does the map show what the page names once everything is answered? | the scan of `web`, one click, no fault |
| `alerts` | Is anything delivered twice, or lost by the day-granular window? | 2 areas and subscriptions of one user, one parcel hot, 2 records dated on arrival, days 0..3, 2 requests, one fault |
| `billing_order` | (violated) convergence under reordering | the billing part of `nightly` without redelivery or faults |
| `skiptrace` | Cap, charging and key consistency under all interleavings | cap 1, 2 lookups in flight of 3, 2 key calls of 3 keys, one midnight; the lookups are interchangeable and so are the calls (symmetry, safety only) |

Every property of a passing run has a mutant in `PROJECT.json`, a plausible slip
in one definition under which the run fails. The type invariants of the smaller
modules are conjuncts of their first safety invariant.

### What they show

* Keyset ingest: whatever the interleaving, a restart from the cursor skips no
  usable row. Freshness, counts and a monotone cursor hold without overlap only;
  with two workflows the cursor may move back and an older row of a shared key
  may be written last.
* Spine: values are never ahead of their log, the watermark never ahead of the
  table, a truncated file retires nobody, a crash between promote and diff costs
  nothing in the end.
* Histories of violations catch up with the table after failed diffs, because the
  diff compares whole tables and not the batch. Delinquencies never clear.
* Finalize is complete for what was there when it began; the oldest month of the
  window is not (`months`).
* Nightly job: a batch refused for parcels not yet loaded passes once they are;
  any failure is heard, and only runners lost two nights in a row (in the
  instance) could idle the schedule out.
* Tiles: the first ending settles the promise, so that the exit code 0 of a child
  whose input broke off cannot upload its archive. Migrations: the ledger's key
  decides between two runners, file by file.
* Scores: SQL and TypeScript agree but for half points. Only adverse filings raise
  a score; a sale that went to `sold` does not lower it (`sheriff_sold`).
* The pages settle on the last choice in whatever order answers arrive, except
  for the values of the map, the only requests no guard protects: when those of an
  earlier choice are answered last they stay painted (`overtaken`). `PaintSettles`
  says that this is the only way: no choice is left unpainted, and values are never
  joined into another geography.
* Digests: under one attempt a day, nothing is repeated or lost through the window.
* Billing converges if Stripe's events are handled in the order sent.
* The skip-trace cap may be passed by the lookups in flight less one, as the
  comment in the code concedes. Keys are whole until two key calls overlap.

### Findings

The disagreements between code and documentation are in `PROJECT.json`, with file
and line. Four have a run that exhibits them (`months`, `sheriff_sold`,
`billing_order`, `overtaken`); the others were met while reading. Three deserve
attention first: `--task` is ignored, so the weekly workflow runs the whole worker twice and
heals no pagination gap; a delinquency is never cleared; and a sold writ keeps its
earlier listing and its points.

## 4. Fairness and assumptions

* `KeysetIngest`: weak fairness of each process's steps. The workflows are
  scheduled daily and every await is bounded (statement timeout, source budget,
  job limit). Faults are finite. The city's table is append-only and finite
  (`LateRows = {}`); rows that become visible below the cursor are lost for good.
* `MCDerived`: weak fairness of the worker's steps, for the same reason, and one
  worker at a time. The city and failures are under no fairness. `StampsSettle`
  and `SpineCatchesUp` promise something about the last state of the inputs only:
  polygons that are loaded, an object inside the band.
* `NightlyJob`: weak fairness of the whole job: the cron fires every night and
  a run goes on until it ends. Faults and lost runners are finite and the city
  stops; a lost runner that idles the schedule out would be the end (`MaxLost`
  is below `IdleLimit`).
* `MarketScan`: weak fairness of the answers: a fetch of the browser is answered
  or fails. Clicks are under no fairness. `LeadsPage` and `AccountPage` are safety
  only.
* `Migrate`: releases only append files, each with a higher number than those before.
* `AlertDigest` (safety only): `Schedule`, a digest is started every day and once
  a day. Two workers selecting subscriptions at the same moment would deliver
  twice; the 20-hour guard only helps when they follow each other.
* `Billing`: weak fairness of each handler: Stripe retries until 200. `Ordered`
  says that events are handled one at a time in the order sent; Stripe promises
  no such thing, which is what `billing_order` is about.
* `CHECK_DEADLOCK FALSE` where a behaviour may end: the days, requests, clicks,
  starts or events of a bounded instance run out.

## 5. Proofs

`KeysetIngestProofs`, from the assumptions `KeysetIngest` declares on its constants:

* `TypeCorrect`: `Spec => []TypeOK`.
* `Resumable`: `Spec => []CursorSound`, if `LateRows = {}`. `CursorSound` alone is
  not inductive: a worker writes a position it read long before. The invariant
  `CopyInv` says of every process that each usable row up to its position is in the
  table or in its batch, that the batch is empty at every program point from which
  the position can be written, and that every position is bounded by a row already
  visible, so that rows published later lie above it. `LocalStep` reduces a step of
  one process to that process, because the table only gains keys; `PageFact`,
  `MappedFact` and `UpsertedFact` carry the facts about pages, last-wins
  deduplication and upserts.
* `Implements`: `Spec => CopySpec`. Each action is a publish, a copy of rows, a
  cursor move over a copied prefix or a stutter of `ResumableCopy`, by `CopyInv`.
* `NothingUnaudited`: `Spec => []MalformedAudited`, if no backfill runs, the source
  is not spatial and `LateRows = {}`: a worker past the gate has audited every row
  up to its position, one before it has the others in its batch (`Heard`).

Where the schedule keeps the processes apart (`Overlap = FALSE`) and
`LateRows = {}`:

* `NoStaleKey`, `Forward`: `Spec => []FreshBelowCursor` and `Spec =>
  CursorNeverRegresses`. A promote overwrites keys, so neither follows from
  `CopyInv`. `SerialInv` adds that a worker's batch is exactly what is visible
  between the cursor and its position (`Gathered`), so that what it writes is newer
  than what the cursor has passed, also when the batch is fetched again after a
  crash; that no row up to a backfill's position is newer than one that waits in its
  page (`Upserting`); and that every position that may be written to the cursor is
  `Current`.
* `BooksBalance`: `Spec => []BooksAreTrue`. `rows_committed` is what the cursor has
  passed: no row twice, no key missed, and a ledger entry of success stands for rows
  that are in the table. `BooksInv` adds to `SerialInv` which rows each program
  point has counted and not yet passed. The counter is capped at `CountCap`, so the
  theorem takes `MaxId <= CountCap`.

`DerivedProofs`, from the constants' assumptions of the three parts, one
invariant a part:

* `WatermarkNeverAhead`: `Spec => []WatermarkSound`, if one workflow runs
  (`OneWorkflow`). The watermark is written two statements after the diff, so
  `SpineInv` follows a run through them: what it knows is a version the city showed
  (`Knows`), which rows are of that version and active once it retires (`Tabled`),
  and of which fields the log already ends in the table's value (`Diffed`). With two
  overlapping runs TLC finds `WatermarkSound` violated: an older object is promoted
  under the newer run's watermark. The assumption is needed.
* `HistoriesHold`: `Spec => []HistoriesAreChains`, if one workflow runs: the change
  log by `SpineInv` (an entry waiting to be inserted has the log's last value as its
  old one), events of violations by `HistoryInv`, which reads the number of events
  as a parity (a subject is standing after an odd number) and bounds them by how
  often the row was opened and closed.
* `DerivedIsFresh`: `Spec => []DerivedFresh`, without an assumption. `DerivedInv`
  carries what was there when the run began through the steps of `finalize`: stamped
  after the stamps, in the views after the refresh, in the months after the
  recompute.

`OpsProofs`, three parts:

* `MigrationsExactlyOnce`: `Spec => []ExactlyOnce`, for any runners and starts of
  releases that are a chain under inclusion and append. The invariant `Inv` adds
  what the ledger's key gives: at most one open transaction holds a file's row, and
  then the file is not in the ledger (`OneHolder`, `Transaction`), so that its
  commit counts it once; and that every smaller file of its release is known to be
  applied, which `NextInOrder` lifts from that release to the order of all. One
  lemma an action.
* `PingIsHonest`, `ScheduleSurvives`, `MeasuredFresh`: `Spec => []HonestPing`,
  `[]StaysScheduled` and `[]MeasuredAgainstTonight`, for any list of distinct
  sources, one of them the spine, by one invariant of three parts beside typing.
  `Told` carries the night's outcome from source to source: every source gone past
  was reported, as failed or with its run closed, so that an exit code of 0
  afterwards means that all went well, which is what the ping reads. `Counted`
  allows one night more without a commit than runners lost while a run is under way,
  because the heartbeat runs whatever failed. `Indexed` says that the index in
  memory is the spine's except between its promote and the reload.
* `TilesWhole`: `Spec => []ServedWhole`. `ServedWhole` is not inductive, because the
  child's exit decides from what the pump did before: `Endings` adds that a feed
  that ended was complete, that a broken one has settled the promise, and that a
  resolved build's child is done.

`AlertProofs`, where one digest runs at a time (`OneWorkflow`) and is started once a
day (`Schedule`). `DatesInv` says how far the watermark of a subscription may lag
behind today: by the failures so far, one day more while today's digest is still to
come.

* `ToldOnlyOnce`: `Spec => []ToldOnce`, if the dedup query reaches back as far as
  the windows do (`DedupReaches`; 9 days against 7 in the code). `OnceInv` adds what
  a worker has composed but not yet written: nothing of it is in the feed under the
  key of another, nothing of its digest is in an e-mail.
* `NothingMissed`: `Spec => []WindowLosesNothing`, if the first window looks back
  over the failed days and the query's limit does not cut (`WindowsReach`).
  `LossInv` says of a worker past its query that every record that matches and
  arrived before is told or pending (`Heard`), as long as area and subscription are
  live.

`WebProofs`, four invariants for the three pages of `MCWeb`:

* `RailAlwaysFollows`: `Spec => []RailFollows`. A detail asked for is the
  selection's (`RailInv`), because the effect that re-runs cancels its request.
* `PaintAlwaysSettles`: `Spec => []PaintSettles`, for answers in any order. No
  guard protects a paint, so `PaintInv` speaks of the paint asked last: it is for
  what the page names, and either it is in flight, or it has been answered, all
  paints still in flight are late, and the map shows the choice or a late paint.
* `ListIsAlwaysTheFilter`, `ExportIsAlwaysTheList`: `[]ListIsTheFilter` and
  `[]ExportIsTheList`. `LeadsInv` allows one request of the current generation
  (`Awaited`), which is for the filter shown and, when it is a page to append, goes
  on where the list ends; an answer of an earlier generation changes nothing.
* `AlwaysAtWork`: `Spec => []AtWork`; a list is dimmed and a card is disabled only
  while a request or a handler that undoes it is at work.
* `OwnWritesAreRead`: `Spec => ReadsOwnWrites`. Another handler may write between a
  call and its refresh, so `AccountInv` gives every handler an effect of its own
  that the others cannot undo: rows carry fresh ids (`Fresh`), a kind of call is
  made by one handler at a time (`OneOfEach`), and what a read brings back already
  has the effect (`Own`).

`BillingProofs`, about the billing part of `MCOps`, from the assumption on its constants:

* `PaidBeforeGranted`: `Spec => []GrantOnlyIfPaid`, which includes `TypeOK`. The
  invariant `Earned` traces a grant back: a handler at work has an event of the log,
  the log is empty before a payment, and Stripe has no subscription then.
* `PeriodNeverLost`: `Spec => PeriodKept`; every upsert coalesces.

`SkipTraceProofs`:

* `Typed`: `Spec => []TypeOK`. No run lists this invariant; the theorem covers it.
* `CapNearlyHolds`: `Spec => []CapHolds` for any cap, lookups and days. The
  invariant `CapInv` counts the lookups in flight into today's usage: a check passes
  only below the cap, and at most the other lookups are in flight then.
* `KeysStayWhole`: `Spec => []KeysWhole`. Secrets are numbered as they are created,
  so a row that a key call has listed and that is still there was there at its
  deletion too (`Listed`); without overlap what the open call saw is what there is
  (`Undisturbed`).
* `AnswersAlwaysCharged`: `Spec => []AnswersAreCharged`. The usage of all days is a
  recursive function of the days; that it exists and grows by one with a record
  (`SumsExist`, `SumsGrow`, `TotalMoves`) is shown by the least day that would refute
  it, in place of induction. With `TypeOK` the property is inductive as it stands:
  one step per handler says how it moves the lookups recorded but not answered.

`ParcelProofs`, from `ConstantsOK` of the two parts of `MCParcel`:

* `LadderStops`: `Spec => []StopsAtFirstRung`. `LadderInv` says that every filter
  state before the current one in the documented order has been evaluated and had
  too few sales (`Tried`). A step must then go to the next state of that order: for
  the radii, the least set closed under doubling up to the largest, `NextRing`
  shows that there is none between a radius and its double.
* `EstimateIsSound`: `Spec => []EstimateSound`, for any number of sales.
  `NthFact` is what sorting gives (fewer than i prices below the i-th, at least i up
  to it), `PercentileFact` places an interpolated percentile between two neighbors,
  `MedianFact` and `TrimFact` follow. That the trim leaves a sale needs three;
  the minimum sample is at least that (`MinSample >= 3`; 5 in the code).
* `CardStaysCurated`: `Spec => []CardIsCurated`, for any card and any pinned sales.
  In a strict order of a finite set those with fewer than n before them are n
  (`FirstAreMany`), so that cutting the list after the repeats fills the card.
* `PageAlwaysAgrees`: `Spec => []PageAgrees`. `RecordInv` adds that a row is scored
  as the matview scores its signals and that a fresh row's signals are the record's;
  `TermsFact` is the equality of the two implementations, term by term, which needs
  each number to be there and not negative (`Scored`).
* `OnlyFilingsRaiseScore`: `Spec => OnlyFilingsRaise`. No signal rises in such a
  step (`SignalsFall`), and the composite is monotone in each (`ScoreGrows`).

Only model-checked: liveness (`BacklogDrains`, `SpineCatchesUp`, `HistoryCatchesUp`,
`StampsSettle`, `CatchesUp`, `RailWakes`, `Converges`), which is out of the
prover's reach here.

## 6. Not modelled, and further work

* Two workers at once in `SpineIngest` (older object promoted under a newer
  watermark) and in `AlertDigest` (double digests); rows visible late in
  `KeysetIngest` as a run.
* Geometries that move: incremental stamps touch null ids only. A neighborhood
  price that moves with other parcels' sales, and with it a score without a filing:
  `Expected` is a constant of `ParcelRecord`.
* The reconciliation of counts after a backfill closed its run, which may throw
  (`CloseBackfill`), and the `limit 3000` of the candidate query (`LoadPool`): what
  is claimed of the comps is claimed of whatever pool was loaded.
* `email`: an HTTP call and a template. Vendor payloads of skip traces and their
  parsing, HTML of the sheriff's pages, the encoding of tile features.
* The neighborhood pages (`geo-query`, `/neighborhood`), search and the layout of
  views: reads of one version of the data, without state of their own.
* Field renames and text cleaning of the column maps; row-level security; the
  land branch of comps, which no query reaches; HTTP retries inside one fetch.
* Abstract specifications worth stating next: an entitlement register that
  `Billing` implements under ordered delivery, a deliver-once log for
  `AlertDigest`.
