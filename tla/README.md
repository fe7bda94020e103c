# Quantra: TLA+ verification project

Quantra prices interest-rate products. A FastAPI **orchestrator** stores users'
trades, curves and indices, resolves market quotes and calls a C++ pricing engine
over gRPC; a **market_data** service serves quotes and named snapshots read-only; an
**md_ingester** (cron, CLI and library) writes them; one PostgreSQL database holds the
schemas `app.*` and `md.*`. This directory models the parts of that system that keep
state or run concurrently, checks them with TLC on small instances and proves the
central ones for every instance with TLAPS.

`PROJECT.json` lists the components, the runs, the mutants, the hazards, the
findings, the theorems and, per definition, the source lines it stands for.

## 1. Inventory

| Component | State | Operations | Hard behaviour |
|---|---|---|---|
| Entity store: `data/repository.py`, `data/routers.py`, tables of schema `app`, `app.entity_versions` | head rows, numbered version rows | create, patch, soft delete with wrapper cascade, restore, get, list, versions | transactions of several statements interleave under READ COMMITTED; row locks, unique-index waits, deadlocks, crashes, lost answers |
| Curve roll: `md_ingester/roll.py` | the `reference_date` of marked demo curves | nightly and at start-up | a second writer of rows users edit |
| Pricing routes: `pricing/swap_ir/api.py`, `pricing/history.py`, `errors.py` | the call's working set, `app.pricing_history` | load trade, curve set, references, quotes, engine call, audit row | store changes between the stages, every stage can fail, audit write may fail or lose its acknowledgement |
| Assemblers: `pricing/<product>/assembler.py` | none of their own | which rows a product reads, in which order, for which role | eight products with rules of their own for pins, sets, lists and role markers |
| Engine fan-out: `pricing/concurrency.py`, `engine_client/client.py`, `engine/grpc_backend.py` | tasks of one request | plan batches, gather, retry, flatten | out-of-order completion, retries, one failure among siblings |
| Market-data client: `md_client/client.py`, `md_client/cache.py`, `md/cache.py` | TTL-bounded LRU cache of quotes, also negative ones | `resolve_quotes`, retries | late responses, pins superseded by rebuilds, expiry, eviction |
| Market-data writers: `pipeline.py`, `writer.py`, `series.py`, `user_import.py`, `api/market_data_series.py`, the triggers of `md/0004_snapshots.py` | series, quotes, named snapshots with an etag | ingest, import, create / patch / delete a series, build a snapshot | lock orders that differ from job to job, foreign keys, cascades, triggers |
| Vendor connectors, ingest windows: `md_ingester/connectors`, `cli.py` | none of their own | download, parse | partial days |
| Document importer: `importer.py`, `api/import_doc.py` | the batch of names it has taken | map a document, look each name up, create each entity, dry run | one transaction per entity, names taken in between, partial failure |
| Lifecycle, readiness: `app.py`, `api/ready.py` | pools, clients, tracing recorder | start, stop, probe | partial start-up and shutdown |
| Tracing, metrics | buffered stages | flush | best effort only |
| Authentication | none | principal of a request | stateless |
| Payload translation, FlatBuffers bindings | none | pure conversion | - |
| Market-data read service | none | single reads | - |
| Portal, saving (`lib/api/*SaveGraph.ts`, `lib/storage`, product pages) | the wrapper cache of a tab, the page's remembered graph | save, re-save, open, duplicate, delete, reload | up to six requests per save, stale tabs, duplicates that keep the original's row ids, two languages that must agree on the roles |
| Portal, the rest | browser state | forms, charts, backup | - |
| Migrations, deploy scripts, CI | schema version | upgrade, backup | operator procedures |

How they interact: the portal calls the orchestrator over HTTP. A pricing route reads
the entity store, asks the market-data client for quotes (which asks the market_data
service), calls the engine through the fan-out and writes `app.pricing_history`. The
market-data routes of the orchestrator and the ingester write `md.*` with the same
library functions. The roll job reads `md.*` and writes `app.curves`. All coordination
between writers is PostgreSQL's: row locks, unique indexes, foreign keys, triggers.

What makes each component correct:

- *Entity store*: the audit trail is gapless, faithful and agrees with the head rows;
  live names are unique per owner; a wrapper and its save graph die together; nobody
  changes another owner's rows; nobody waits for ever.
- *Roll*: it neither loses nor is lost under a user's edit, and leaves an audit trail.
- *Pricing*: the inputs belong to the call, every curve role is filled from a row the call
  read, the audit row says what the client was told, and a failing audit write does not cost
  the client its price.
- *Importer*: the report says what the store says, the dry run says what the import will.
- *Portal*: a saved trade prices, by reference, from exactly the rows its save wrote; only
  duplicates share rows; the stamp forgets no row.
- *Fan-out*: results line up with trades, all or nothing, every task ends.
- *Quote client*: staleness bounded by the TTL and the request's own duration, exact pins,
  bounded cache and retries.
- *Market writers*: no orphans, contents never change under an etag, batches are never
  mixed, user texts survive, reports are exact, nobody waits for ever.

## 2. Modules

| Module | Models | Composed with |
|---|---|---|
| `EntityStore` | one entity table, its versions, any number of request slots | instantiates `AuditLedger` |
| `AuditLedger` | what the store promises: a commit changes some rows and appends one truthful trail entry to each, in one step | abstract specification of `EntityStore` |
| `RollJob` | the roll as a second writer | extends `EntityStore` |
| `Assembly` | what each product reads and which curve gets which role, as pure operators | used by `PricingCall` and `SaveGraph` |
| `PricingCall` | one route call of any product, stage by stage, over rows and trails | extends `Assembly`; `AuditLedger`'s step is the changing store |
| `SaveGraph` | the portal's pages saving, re-saving, duplicating and deleting trades | extends `Assembly`: what a page saves is priced by the orchestrator's rules |
| `ImportDoc` | the document importer next to a user's edits | `AuditLedger` is the store it writes |
| `EngineFanout` | the tasks of one request and their retries | - |
| `QuoteResolution` | client, cache and service as the client sees it | `Rebuild` is what `MarketStore`'s EtagTracksContents licenses |
| `MarketStore` | all writers of schema `md` | - |
| `Subsequences` | the elements of a list at a set of places, in order (what a Python comprehension with a condition keeps), as a CHOOSE of the ascending list of places, so that it can be reasoned about | used by `Assembly`, `ImportDoc`, `QuoteResolution` and `MarketStore` |
| `EntityStoreProofs` (of `EntityStore` and `RollJob`), `PricingCallProofs` (with `Assembly`), `QuoteResolutionProofs`, `EngineFanoutProofs`, `MarketStoreProofs`, `ImportDocProofs`, `SaveGraphProofs`, `SubsequencesProofs` | theorems | extend the module they name, and `TLAPS` |
| `MC*` | instances for TLC | extend the module they name |

### EntityStore

State: `head` and `versions` are committed rows; `draft[c]` and `vdraft[c]` are the
uncommitted rows of the transaction of slot `c`, and a draft row *is* the row lock. `pc`
is the next statement, `req` the request, `cur` the row whose version is still owed.
A request is `Arrive`, then the statements of its method in source order:

| Action | Code |
|---|---|
| `Get` | `get()`, also the answer of a PATCH that names no column |
| `ReadForRestore` | `restore()`'s first read, with its two early returns |
| `InsertHead`, `UpdateHead`, `MissHead` | the INSERT / UPDATE ... RETURNING of `create`, `patch`, `soft_delete`, `restore` |
| `ClaimName` | the partial unique index `(owner_uid, name) WHERE deleted_at IS NULL` and `_maybe_translate_name_conflict` |
| `WriteVersion` | `_write_version`, numbered MAX + 1 by the statement itself |
| `Cascade` | `_cascade_wrapper_graph` |
| `Commit` | the end of `rw_engine.begin()`; the answer may be lost |
| `Refetch` | the re-read after an UPDATE that matched nothing |
| `Crash`, `DeadlockAbort` | rollback by PostgreSQL |

`Init` is a store of any of the tables `Inherited`: empty, or older than the audit trail, in which case
migration 0013 has given each row a version 1 of change type `create` (`Backfilled`), the rows already
deleted included. `AuditLedger` and `ImportDoc` start from such tables too.

A statement that would wait is disabled; READ COMMITTED's re-evaluation after the wait is
the evaluation of the WHERE clause when the action fires. The unique constraint on
version numbers is left out of `WriteVersion` and `BackstopIdle` shows that it never acts.

### RollJob

`RollCurves` is `_bump_curve`: one UPDATE that waits for the rows' locks and commits
alone. Which date it writes is left open.

### Assembly

A trade's pricing block and the request's overrides are records of references: an id, `Literal`
(an inline definition) or `NoId`. `Curves` is the pair of curves a product is priced with, merged
from overrides, pins, curve set and list by the rules of its own assembler (`Split`, `Fill`,
`FloatingCurves` for floating bonds; `Bucket` for equity options and inflation swaps; `ByPlace`;
`OneCurve`). A request without a block (`present` FALSE) gets no pins, so a floating bond with one
curve overridden and no block raises. `NeedsSet` says whether the curve set's row is read, `Reads` which rows are read
after it, in the order of the code, with `NoId` where a missing reference raises.

### PricingCall

`LoadTrade`, `LoadSet`, `LoadNext` (one row of `Reads` per statement), `ResolveQuotes`,
`CallEngine`, `Record`. `StoreStep` changes the store between any two of them. `Unexpected` is an
exception other than HTTPException, which by-passes the audit hook; `Crash` is the death of the
process. `begun` and `loaded` are history variables that only the properties read.

### SaveGraph

State: server rows and wrapper entries, the cache each tab loaded once, the page (entry and
remembered graph) and the save a tab is running. `StartSave`, then `Persist` once per request of
`persist<Product>Graph` in its order (curves, set, leaves, trade), then `Store`, the wrapper.
`PersistFails` and `StoreFails` may or may not have had their effect. `Open`, `New`, `Reload`,
`Delete` are the page's buttons, `DeleteRow` the market-data page. `Duplicate` is the list pages'
button: the bond pages store a deep copy of the entry, its graph included, the others save the request anew,
without a graph. A save is known by its number, a row by the last save that wrote it. `origin`, read by the properties only, is the entry
a copy was first made from.

### ImportDoc

`Arrive` maps and validates the whole document (`Maps`, one operator per section of
`importer.py`); then per entry `Precheck` (look-up) and `Create`, or `Conflict` at either, `DryRun`,
or `Fails`, which may have committed. `Edit` is the user meanwhile, `Crash` the process. `start`,
`seen` and `quiet` are read by the properties only.

### EngineFanout

`Batches` come from a policy's `plan`: `Sizes` says how many trades each holds, `Planned` where it ends
in the request. Each is a task that calls, is answered, is found unavailable and backs off, or fails. A task's answer is a price
for each of its trades, any prices, kept in the task's slot of `gather`'s list, whatever the order in which tasks
end; the request returns the slots joined once all are filled, or the first exception while its siblings run on.
`priced` remembers what the engine answered for each trade. That the engine answers the trades of one
request in their order is its contract; a list of another length is refused, as the products' decoders do.

### QuoteResolution

`Resolve` is everything up to the first `await` (the cache does not suspend);
`Serve` / `Receive` / `Fail` / `Reject` / `Resend` are the HTTP exchange and its retry loop;
`Change` and `Rebuild` are the outside world; `Tick` is the monotonic clock, which nothing holds
back: httpx applies its `timeout` to each phase (connecting, each read, each write, the pool), so a
request whose response keeps coming has no deadline; `Restart` loses the process. A value is the number
of times an id's answer has changed, so ages can be compared; 0 is the cached "not found".

### MarketStore

A job is a transaction: *ingest* (upsert the series, upsert the quote, per row), *import*
(read the known ids, drop the others, upsert quotes), *create*, *describe*, *delete* (quotes,
series, cascade, snapshot rows, etag trigger) and *build* (lock the snapshot, read the prior
contents, clear, fill by one INSERT ... SELECT, foreign-key checks). `Blocks(u, j)` is the lock
table: row locks, and the shared lock a foreign-key check takes on the series. One as_of
date and one named snapshot stand for all: the statements never relate two of either.

## 3. Runs

The stores are run with two concurrent transactions (`pricing_audit` with one call against a
changing store), the smallest number at which every lock wait, deadlock and lost-update pattern of
these programs occurs. Bounds are in the cfgs, and each is a guard on the *start* of new work, so
what has started always ends.

| Run | Checks | Bounds |
|---|---|---|
| `store` | types, `BackstopIdle`, `VersionsContiguous`, `HeadIsLastVersion`, `HistoryReplays`, `LiveNamesUnique`, `CascadeComplete`, `PatchKeepsOtherColumns`, `LedgerSpec` (the store implements `AuditLedger`), `EveryRequestEnds` | 2 clients, wrapper and graph row, 2 names, no new write once 3 versions exist: create both, then delete with cascade against a rename (the only deadlock), PATCH against PATCH, delete and restore; from an empty store, or from one older than the audit trail with a live wrapper whose graph was deleted alone |
| `roll_unversioned` | finding: a roll leaves no version | 1 marked curve, 2 names, 2 dates |
| `pricing_audit` | types, `VersionWithinCall`, `InputsCurrentDuringCall`, `AuditMatchesAnswer`, `PriceSurvivesAuditFailure`, `RolesWereRead` | 1 call of any of the 8 products by reference, with overrides, inline, or inline without a block; trade, curve set, curve and a fourth row; two store changes at any moment (`MaxEntries` = 6, of which 4 exist at the start) |
| `pricing_version` | finding: the recorded version may not be the priced one | as above |
| `pricing_pinned` | finding: an untagged curve displaces a pinned one | one equity option with three curves |
| `quotes` | types, `CacheBounded`, `PinnedExact`, `StaleBounded` | 2 callers, 2 quotes, a one-entry cache (every store evicts), TTL 1 tick, 3 instants: a quote cached at 0 is served at 1 and expires at 2, and a request may be under way for all three; 2 snapshot versions; a history lets time pass or takes snapshots, not both (`TimeOrSnapshots`) |
| `fanout_results` | types, `ResultsInInputOrder`, `AllOrNothing`, `EveryTaskEnds` | 4 trades in batches of 1, 2 and 1, each answered with any of 2 prices; 1 retry |
| `market_safety` | types, `NoOrphans`, `EtagTracksContents`, `UserTextKept`, `QuotesChangedExact` | 2 jobs of all kinds, 2 series, a full and a partial batch, 2 etag renewals before the last start; the job slots are symmetric |
| `market_ends` | `BatchesWhole`, `EveryJobEnds` | ingests of two batches in opposite orders, deletions and rebuilds |
| `import_report` | types, `ImportedIsCreated`, `OkMeansThere`, `ReportAsPredicted`, `CurvesFindIndices` | 6 documents of up to 4 entries that meet every section, every way not to map and a repeated id; 2 imports (a retry), any dry runs, 1 edit; an empty account, or one with a deleted index of a document's name |
| `portal_save` | types, `PricesAsSaved`, `GraphsDisjoint`, `NothingForgotten` | each of the 7 pages that persist a graph, the fixed bond's in two tabs; 2 saves, 1 deleted row, 2 entries: a trade and its duplicate, or two trades |
| `portal_duplicate` | finding: a re-save of a duplicate writes the original's rows | as above |

Every property has a mutant (in `PROJECT.json`, defined next to the operator it replaces and
marked `Mutant`) that a plausible slip in the code would produce and that violates it.

Some properties deserve a word:

- `BatchesWhole` is checked with ingests only: an import drops the quotes of unknown series
  by design, so it can store part of a batch.
- `CascadeComplete` excepts a graph row that a restore has brought back (`BroughtBack`): the cascade's UPDATE may
  meet it dead and another transaction restore it before the COMMIT.
- `NoOrphans` does not say that a snapshot row has a *quote*: a series deleted and created again
  between the rebuild's SELECT and its foreign-key check leaves a snapshot row whose quote is gone
  until the next rebuild. TLC found this interleaving; the schema promises no more.
- `PricesAsSaved` composes two programs: the TypeScript that writes sets, pins and lists, and the Python
  that resolves them. It speaks of trades whose rows nobody touched since the save that stamped them.
- `RolesWereRead` is about `CurveReads` and `Curves` being two functions of the same inputs, evaluated
  at different moments of a call over rows that change.
- `ReportAsPredicted` and `CurvesFindIndices` speak of undisturbed imports (`quiet`); `ImportedIsCreated`
  and `OkMeansThere` of all.
- `StaleBounded`'s bound is the TTL and the time the request that fetched the quote was under way (`took`): the
  response may have left the service just after the request and just before the change, and be stored when
  it has arrived. The code bounds each phase of a request, not the request, so no constant bounds `took`.
- `HistoryReplays` lets a trail open with the row migration 0013 found, also a deleted one; every later version fits
  its change type.
- `GraphsDisjoint` excepts duplicates (`origin`), which share their rows by what the bond list pages do; that
  this contradicts the save graph's own comment is the last finding.
- `CurvesFindIndices` needs `quiet`: when the create of an index fails, the loop goes on to the curves that name it
  and stores them. The model has that step; the code promises nothing of it, and no property is stated.

### Findings

1. `roll_unversioned`: `roll.py` updates `app.curves` without a row in
   `app.entity_versions`, which migration 0013 promises for every amend.
2. `pricing_version`: `history.py` records MAX(version_no) at the time of the INSERT;
   the migration and a comment say it is the version that was priced.
3. `pricing_pinned`: `equity_options/assembler.py` gives every curve without a role one by its place
   before the split looks at roles, and the split keeps the last curve of a role, so an untagged curve
   displaces the one pinned to that role; the docstring of the split says pins are honoured.
   `swaps_inflation/assembler.py` has the same lines.
4. `portal_duplicate`: `handleDuplicate` of `FixedRateBondList.tsx` and `FloatingRateBondList.tsx` (67-79) copies an
   entry with its `appId` and `appGraph`, so original and copy name the same curves, set and trade, and a save of
   either patches both (a delete of either deletes the trade of both); `saveGraphNaming.ts:18-21` says a re-save "can
   only ever touch the product's own rows".

### Fairness

- `EntityStore`, `MarketStore`: strong fairness of a slot's statements and weak fairness of
  `DeadlockAbort`. PostgreSQL queues lock waiters in arrival order, so a statement that can run again and
  again does run, and its deadlock detector breaks every waiting cycle. Arrival and crashes are not fair.
- `EngineFanout`: weak fairness of each task's step: every call has a deadline, every
  back-off a timer.

The other modules are checked for safety only.

## 4. Proofs

Eight modules hold theorems; each extends the module it is about, and `tlapm` checks them to the last
leaf for all values of the constants that satisfy the named assumptions. "Run" is the run that checks the
same property on a small instance.

| Module | Theorem | States | Run |
|---|---|---|---|
| `EntityStoreProofs` | `TypeCorrect` | `Spec => []TypeOK` | `store` |
| | `BackstopNeverActs` | `Spec => []BackstopIdle` | `store` |
| | `VersionsAreContiguous` | `Spec => []VersionsContiguous` | `store` |
| | `TenantsApart` | `Spec => OnlyOwnerChanges`: a committed row changes only by a commit of its own owner | none |
| | `NamesAreUnique` | `Spec => []LiveNamesUnique` | `store` |
| | `HeadSnapshot` | `Spec => []HeadIsLastVersion` | `store` |
| | `HistoryIsALife` | `Spec => []HistoryReplays` | `store` |
| | `StoreImplementsLedger` | `Spec => LedgerSpec`: the SQL transactions refine `AuditLedger` | `store` |
| | `CascadeReachesGraph` | `Spec => CascadeComplete` | `store` |
| | `NoLostWrite` | `RollSpec => PatchKeepsOtherColumns` | `store`, without the roll |
| `PricingCallProofs` | `TypeCorrect` | `Spec => []TypeOK` | `pricing_audit` |
| | `InputsAreCurrent` | `Spec => []InputsCurrentDuringCall` | `pricing_audit` |
| | `RolesAreRead` | `Spec => []RolesWereRead` | `pricing_audit` |
| | `AuditIsTrue` | `Spec => []AuditMatchesAnswer` | `pricing_audit` |
| | `PriceSurvives` | `Spec => []PriceSurvivesAuditFailure` | `pricing_audit` |
| | `VersionIsWithinCall` | `Spec => []VersionWithinCall` | `pricing_audit` |
| `QuoteResolutionProofs` | `TypeCorrect` | `Spec => []TypeOK` | `quotes` |
| | `CacheIsBounded` | `Spec => []CacheBounded` | `quotes` |
| | `PinsAreExact` | `Spec => []PinnedExact` | `quotes` |
| | `StalenessIsBounded` | `Spec => []StaleBounded` | `quotes` |
| `EngineFanoutProofs` | `TypeCorrect` | `Spec => []TypeOK` | `fanout_results` |
| | `ListsLineUp` | `Spec => []ResultsInInputOrder` | `fanout_results` |
| | `NeverAPart` | `Spec => []AllOrNothing` | `fanout_results` |
| `MarketStoreProofs` | `TypeCorrect` | `Spec => []TypeOK` | `market_safety` |
| | `NothingIsOrphaned` | `Spec => []NoOrphans` | `market_safety` |
| | `EtagsTrackContents` | `Spec => EtagTracksContents` | `market_safety` |
| | `TextsAreKept` | `Spec => UserTextKept` | `market_safety` |
| | `ReportsAreExact` | `Spec => QuotesChangedExact` | `market_safety` |
| | `BatchesStayWhole` | `Spec => []BatchesWhole` | `market_ends` |
| `ImportDocProofs` | `TypeCorrect` | `Spec => []TypeOK` | `import_report` |
| | `ImportsAreCreated` | `Spec => []ImportedIsCreated` | `import_report` |
| | `OkIsEarned` | `Spec => []OkMeansThere` | `import_report` |
| | `ReportIsPredicted` | `Spec => []ReportAsPredicted` | `import_report` |
| | `CurveIndicesStored` | `Spec => []CurvesFindIndices` | `import_report` |
| `SaveGraphProofs` | `TradesShareNoRow` | `Spec => []GraphsDisjoint` | `portal_save` |
| | `StampsAreWhole` | `Spec => []NothingForgotten` | `portal_save` |
| | `TypeCorrect` | `Spec => []TypeOK` | `portal_save` |
| | `PricesByReference` | `Spec => []PricesAsSaved` | `portal_save` |

### Assumptions

- Sentinels differ from the values they stand beside (`SentinelAssumption`, `ReferenceAssumption`,
  `NoGraphAssumption`, parts of `MarketAssumption` and `ImportAssumption`), requests and marked curves are of the
  declared kinds (`RequestAssumption`, `RollAssumption`, `PricingAssumption`), ids are positive numbers where the
  program counts with them (`PortalAssumption`).
- `TableAssumption` (`PricingCall`): trades and curve sets have tables of their own, and no reference in a
  block, a set or an override leads from one table into another, as the columns of `app.*` and their look-ups
  say. Without it one id could be a trade and a curve, and a row read as the one would count as the other.
- `FanoutAssumption`: a plan's batches are not empty and hold the request's trades, all of them: what the two
  `plan` methods in `concurrency.py` build.
- `InheritedAssumption` (`EntityStore`, `ImportDoc`): what a store starts with obeys the unique index on live names, and its
  wrappers name rows that exist, as the requests that made them did.
- Sets of ids are finite where the program lists or counts them (`MarketAssumption`, `PricingAssumption`,
  `ImportAssumption`). The importer has ids enough for every import and edit, so that the INSERT of a new row
  never lacks one: PostgreSQL's ids are generated.
- `Uniform` is not an assumption but the hypothesis of `BatchesWhole`: jobs that write batches of one value
  each over the same ids, and no import (it drops unknown series by design).

Nothing is assumed about the number of clients, rows, calls, jobs, tabs, retries or saves. TLC evaluates each
assumption in the runs of its module.

### Lists

Half the code decides by filtering a list: the quotes of a batch whose series exist, the sections of a document, the
cache entries that survive an eviction, the curves of a role. `Subsequences.Picked` is that filter,
and `SubsequencesProofs` says what it returns: as many elements as places (`ListingLength`), in order,
each of them from the list (`PickedElements`). The library's induction theorems take an operator, which the
installed provers cannot instantiate; `SetInduction` states the hypothesis as a set instead, and carries the
inductions here: over a plan's batches (`JoinedIsWhole`) and over the size of a set (`Listable`).

### Entity store: five layers

None of the invariants is inductive alone.

They are parts I to V of `EntityStoreProofs`.

1. *Locks and version numbers.* `IInv` adds what each transaction holds at each statement (`Holding`: which rows are
   drafted, which have their version, which still owes one), what a create may assume about its fresh id
   (`Creating`), that inserted versions copy the drafts and are numbered `NextNo` over the *committed* versions
   (`Pending`), that transactions touch disjoint rows (`Apart`), and that committed versions of an id are 1..k
   (`Recorded`). The row lock keeps `Apart`; by `Apart` nobody else can commit a version of a row I have
   drafted, so `NextNo` does not move between my version insert and my commit; hence the commit extends 1..k by
   exactly k + 1.
2. *What transactions write.* `Derived`: a drafted row is the *committed* one with the request's changes, however long
   the transaction has been open. `TenantsApart` follows, the cascade to an id chosen by the client included.
3. *Names, and the ledger.* `NInv`: live names are unique among the committed rows, the rows each
   transaction has entered in the index, and between two transactions. `HInv`: the trail of a row, read in
   order, is a life that ends in the row. With these a commit is one step of `AuditLedger` and every other
   statement is a stutter (`StoreImplementsLedger`).
4. *The cascade.* The cascade and the commit are two moments. `CInv`: at the commit the graph row is in the
   transaction's drafts, or dead, or another owner's, or has been brought back by a restore; `RInv` says that
   wrapper rows name only rows that exist, so the graph row cannot come into being in between.
5. *The roll.* `IInv` and `Derived` are weak enough to survive it: a roll is to every open transaction one more
   client that leaves locked rows alone.

### Pricing call

`IInv` is `LedgerOK` (a row is the last entry of its trail), `CallTypes`, `HistoryOK` (audit rows are of calls that
are done, one each), and per call `ReadsOK` (what was loaded was in the trail at or after `begun`),
`AnswersOK` (what the outcome, the audit row and the answer say of one another at each stage) and
`TradeOK` (versions only grow, so the one found at the INSERT is at least the priced one). The store between two
stages is any `AuditLedger` step, which is what `StoreImplementsLedger` proves the store to be.

`RolesAreRead` needs more, since `Reads` (which rows a product reads) and `Curves` (which of them plays which role) are
two functions of the same references, written apart in the code. One half is about `Assembly` alone: whatever the
product, each of the two curves is an inline definition, missing, or in the list of reads, and a missing one puts
`NoId` in it, which ends the call. The other half is the call's: what it has still to read and what it has read
are together what `Reads` said, though the trade's row and the set's may change in the store while it does.

### Quote client

`EntryOK`, `CallOK`: each quote on its way, in the cache, in a response, among a call's hits, is *genuine* (under a
pin what that snapshot version holds or "not found", otherwise some value the series had) and *valid* up to a
known instant: a fetched one at the moment its request was sent, which is `took` before
it was stored; a cached one no more than `TTL` after that, for an entry's age counts from when it was stored and a hit
keeps both. `StaleBounded` adds the two up.

### Fan-out

A slot that is filled holds what `priced` has for the trades of its batch (`Filled`), and stays so because batches
share no trade (`BatchesApart`, the ends of the batches being ascending sums of their sizes). When the last one is
filled, joining the slots gives back `priced` place by place (`JoinedIsWhole`, by induction over the
batches); and the route gets a list only then.

### Importer

Entries are settled in the order of the mapped document (`InOrder`); one that is imported or in conflict was live
under its name when that was said (`Earned`); the row reported for an entry began as that entry and as no other
(`Created`), which needs that the trail of a row only grows. While nobody else writes and nothing fails, the names taken are those
live at the start and those of the entries settled so far (`Foreseen`), which is what the dry run counts with;
indices come before the curves that name them, and so are stored by then.

### Market data

`IInv` is `Shaped`, per job `Local` (at each statement: what the transaction has written and locked), `Apart` (row locks
exclude each other, and a deletion the shared locks of foreign-key checks), and `NoOrphans` itself. Every
statement but the commit leaves the tables alone, so the step that matters is a deletion's commit: by `Apart` no
other job holds the series, so nobody is about to commit a quote or snapshot row of it; and its
cascade has taken those that were there. `EtagsTrackContents` needs that whoever changes the contents holds the
snapshot row and has renewed the etag by its commit.

Two further invariants stand on it. `RInv`, for the rebuild's report and the types: one transaction at a time holds
the snapshot's row (`Sole`), so what a rebuild read several statements ago is still what it replaces, and
what it has drafted covers every row of that (`Rebuilding`); `Touching` says which rows each kind of job writes,
`Counting` that what an ingest counts stays below the number of series. `WInv`, for whole batches: what an ingest has
drafted and what it still has to write are one value over the ids every batch covers (`Carrying`), no other ids
are ever stored, and the stored quotes have one value (`OneValue`). So a commit of an ingest replaces every stored
quote, and a rebuild, which reads the quotes in one statement, copies one batch.

### Portal

A graph is held *for* someone: for an entry and its duplicates, known by the entry they come from (by the server, a tab's cache, a page that shows it or its running
save), or for a tab whose trade has no entry yet. `Apart` says that what two claimants hold names disjoint rows,
`HeldOK` that each held graph is whole: it names every row its save was the last to write. What makes this
inductive is `Sole` (the number of a running save is on no graph but the one it builds, so what a failed save
wrote is on none and stays out of everybody's way) and `JobOK` (a save writes each part once, the trade last). When a
new trade is stored its rows pass from the tab to the entry (`StowedHeld`); a duplicate joins the claimant of its
original (`CopyHeld`); in every other step a
claimant keeps what it had (`Copied`), or gains one row that was its own or is new (`PersistKeeps`).

`PricesByReference` puts two programs together, and its proof has a half for each. The portal's half is `FInv`, on
top of `IInv`: the rows a held graph names are of the parts it names them for (`Sorted`); its set and its trade, while
still of the graph's save, refer to what else it names (`Agrees`); a running save has sent a prefix of
its requests (`Progress`). A set is written after its curves and a trade last, so no id written later is missing from
an earlier row; and a request leaves the other graphs' rows alone (`Spared`), or makes them rows of another save, of
which `Agrees` says nothing. The assemblers' half, `AllFit`, is about operators only: for the list and the block a page
writes, product by product and for every choice of curves the page allows, `Reads` are the rows the graph
names and `Curves` the ones it means. `PortalAssumption` says which products have such a page; tabs, entries, rows and saves are arbitrary.

### Only model-checked

- Liveness (`EveryRequestEnds`, `EveryTaskEnds`, `EveryJobEnds`): fairness and ENABLED are beyond TLAPS.

Every safety invariant and action property of the passing runs is a theorem.

## 5. Left out, and why

- About 45,000 of the implementation's 95,500 lines are generated FlatBuffers bindings, and the largest
  hand-written files (`_translator.py`, the products' `models.py`, the volatility tools) validate and
  convert payloads: pure functions without state whose results no modelled decision depends on. The map
  covers the code that keeps state, interleaves, or decides what is read and written.
- List and version reads, cache statistics: they change nothing and are single statements.
- Timestamps, texts, JSONB payloads: a name is a model value, the other columns are one `body`. So
  the order of `changed_at` (the start of a transaction, `repository.py:25`) is not modelled.
- Which HTTP status a failure gets, beyond the distinctions the properties make.
- `md.vendor_mappings` and `version_etag_before`: no modelled statement reads them. `run_pipeline`'s two
  transactions are two jobs of `MarketStore`, so a crash between them is a state it explores; no property
  says that a snapshot follows its quotes.
- An exception other than HTTPException leaves a pricing request without its audit row, and
  a quote committed between the two statements of a series deletion is missing from the count it reports.
  Both steps are in the models (`Unexpected`; the `cascade` step of `DeletePoint`); no property
  is stated of them.
- `bonds/assembler.py:550-551` says an override that does not cover both roles of a floating bond fails; the
  code fills the missing role from the pins, the set or the list. `Assembly` follows the code; no run states it.
- Wrapper entries read from a file: the list pages' import and the backup's restore store entries that may bring a
  graph along, like a bond's duplicate. `SaveGraph` leaves them out; what it says of entries holds of those the pages made.
- Parts of an imported document that `importer.py:217-237` drops without a word: values that are no objects, and a
  legacy flat section that a nested one shadows. `OkMeansThere` speaks of the entries the parser kept.
- `concurrency.py:171-176` says that after the first failure the remaining tasks are cancelled; `asyncio.gather` lets
  them run on, retries included. `EngineFanout` follows the code (`Raise`), and `EveryTaskEnds` speaks of those tasks too; no
  run states the difference, and the routes of today plan one batch each.
- Start-up and shutdown (`app.py`), tracing, authentication, the portal's backup, migrations and the
  deployment scripts: sequential, or operator procedures. Their status in `PROJECT.json` says so.
- The other products' route modules repeat `swap_ir/api.py` statement by statement; the map names that one.

## 6. What could follow

`RollJob` with the ingested dates of `MarketStore` (a roll reads and writes in two transactions), start-up and
shutdown with a failure at each step.
