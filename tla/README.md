# Verification of dashboard-template-api

TLA+ models of the API server under `src/`, the TLC runs that check them and the
theorems TLAPS proves about them. The server is one Node process per pod: a
GraphQL endpoint and a few REST routes in front of DuckDB, which attaches
DuckLake catalogs; the pods share a Redis cache. Paths below are relative to the
`src/src/` directory unless they begin with another one.

What makes the system hard is not any one request but what runs beside it: an
updater commits new data at any time, every pod replaces its DuckDB instance
under the requests it serves, results outlive the instance they were read from in
a cache other pods read, and clients, timers and administrators interrupt
anything between two `await`s. And where nothing runs beside it, what a client
wrote has to mean, in SQL and page after page, what the client meant.

## 1. The system and its parts

| Part | Code | State | Operations | Talks to |
|---|---|---|---|---|
| Connection pool | `db/pool.ts`, `db/interrupt.ts` | live instance, pooled connections, reserved slots, FIFO of acquisitions, connections being drained | acquire, release, open, lazy build, reload (build, swap, drain), reloadOne, close | DuckDB; called by loaders, exports, the manager |
| Database manager | `db/database-manager.ts`, `db/schema-version.ts`, `db/schema-reconciliation.ts` | schemas of each catalog, data version and verdict of each schema | initSchemas, reloadCatalogs, reloadCatalog | pool, freshness monitor, loaders (versions in keys) |
| Freshness monitor | `db/catalog-freshness.ts`, `db/catalog-routes.ts` | queue of probes, last results | tick, probeNow, runProbe, recordResult | throw-away instances, manager |
| Loaders | `loaders/*.ts` (`base-loader.ts`) | a lazy connection per batch, deadline | loadWithCache, createLoader, one query builder each | pool, cache |
| Query construction | `utils/filter-tree.ts`, `aggregate-query.ts`, `default-sort.ts`, `pagination.ts`, `loaders/cross-database.ts`, `loaders/select-options.ts` | none | from arguments to a statement, or to a refusal | metadata, loaders |
| Cache and its flush | `utils/cache.ts`, `cache/*.ts` | the entries of Redis | get, set, SCAN and DEL by pattern, flush routes | Redis |
| Query admission | `security/complexity-analyzer.ts`, `depth-limit.ts`, `column-counter.ts`, `request-limits.ts` | none | depth, price, sizes | GraphQL |
| Access control | `server.ts`, `security/admin-auth.ts`, `metrics-auth.ts`, `cors.ts`, `trusted-proxies.ts` | none | the chain of middlewares | limiter, shutdown |
| Rate limiter | `security/rate-limiter*.ts` | timestamps and burst counter of each client | checkLimit, cleanup | HTTP front |
| Exports | `export/*.ts` | gate counters, temporary directories, one handler per request | validate, slot, probe, copy or stream, cleanup, startup purge | pool, disk, client |
| Keyset paging | `export/after-cursor.ts`, `export/build-export-query.ts`, `utils/default-sort.ts` | none on the server: the cursor is the client's | total order, cursor, resume predicate | export probe |
| Configuration | `utils/config-loader.ts`, constructor of `db/database-manager.ts`, `schema/resolvers/scope.ts` | read once | merge, variables, branches, lists, validation; discovery; routing | everything |
| Start and shutdown | `server.ts`, `shutdown.ts` | readiness, step list, watchdog | startServer, drain, close in order | everything |
| Logging, conversions, encodings, generated types | `utils/logger.ts`, `db/json-conversion.ts`, `export/arrow-writer.ts` ... | none | pure functions or output | |

The behaviours that are hard, and what must hold of each part in spite of them:

- **Pool.** `acquire` checks the size before an `await`; openings fail or find
  their instance replaced; three pieces of code serve the queue; a reload empties
  the pool under its users and has a deadline. It must never exceed
  `MAX_CONNECTIONS` on the live instance, never leave a waiter beside a free slot,
  never give a connection twice, never offer one of a retired instance, and end
  every reload.
- **Refresh.** Probe, build, swap, drain, and publication of the version are
  separate steps; loaders compute their key before they have a connection and
  write their result long after. No entry may hold data older than its key says;
  the last commit must reach every pod.
- **Schemas.** Schemas come and go between the list of a probe and the markers it
  reads, some cannot be read, some are not supported. An unchanged lakehouse must
  never cause a reload, a changed one must be followed, and list, verdict and
  version must switch together.
- **Batches.** Several keys share one lazy connection, one deadline, and one fate;
  a cross-database step runs two statements at once, one of which may fail first.
  No batch may step on, or interrupt, another's connection, nor keep its own.
- **Queries.** A flat list of criteria is regrouped by SQL's precedences; JSON
  numbers are doubles; NULLs are one group here and none there; pages are separate
  statements over a parallel scan. What comes back must be what was asked.
- **Admission.** A document is priced before it runs from its text and variables
  alone; the price must bound what it then does. Limiters, keys and addresses are
  only as good as the order of the chain that checks them.
- **Cache flush.** The scan of Redis runs while loaders write. A flush must remove
  what was there, and nothing of another catalog or schema.
- **Rate limiter.** Two windows with boundaries of their own and a cleanup. The
  limits must hold over every window of time, and the announced delay be enough.
- **Exports.** Six outcomes (success, refusal, error, timeout, client gone, crash)
  at each of a dozen points. Slots, connections and directories must come back on
  each of them, in the right order relative to the client's view.
- **Paging.** Ties, NULLs, tables without key, updates between pages. The pages
  must be the export, and a client must get to its end.
- **Configuration.** A list of schemas passes six transformations before it
  restricts anything. An empty value must not be taken for an empty list, nor the
  other way round: one closes what should be open, the other opens it.
- **Shutdown.** Drain, closing steps and watchdog share a budget; probes and
  handlers go on meanwhile. Who was accepted must be served or have had its time,
  and the process must leave.

The list of hazards in `PROJECT.json` has each of these at its line.

## 2. The modules

`MC*.tla` modules hold only the values the configurations need. Four of them put
several small instances, of the same module or of different ones, side by side in
one run: a behaviour is that of one instance, chosen by the initial state (`mode`),
while the others keep their first state. Nothing is composed by that; the
properties are those of the modules, under the names the run gives them.

| MC module | Instances |
|---|---|
| `MCConnectionPool`, `MCExportRequest`, `MCCatalogRefresh`, `MCCacheInvalidation`, `MCDataQueries`, `MCShutdown` | one of the module they are named for |
| `MCRefresh` | `CatalogRefresh` on a backend with pinned reads, and on one with live reads and reattachments |
| `MCQueries` (values in `MCDataQueries`) | `DataQueries` and `KeysetPaging` |
| `MCLifecycle` (values in `MCSettings`) | `Configuration`, `FreshnessMonitor`, `PodProcess` (`LoaderBatch` and `Shutdown`) |
| `MCRequests` (values in `MCDocuments`) | `CacheInvalidation`, `RequestBudgets` (`RateLimiter`, and `Admission` with two requests), `Admission` with one request and every document |

`PodProcess` and `RequestBudgets` put two modules beside each other as one process
has them, give the constants their assumptions and state the property of the two
that the run checks and the theorem proves.

### ConnectionPool and ServerQueue (`db/pool.ts`)

One pod's pool. `instance`, `pool`, `creating`, `waiters`, `draining` are the
fields of `DuckDBPool`; `inUse` and `boundTo` are fields of the wrappers;
`openConns` and `openInsts` record what has been closed in DuckDB; `pc`, `target`
and `held` are where each caller stands. Node runs one callback at a time, so an
action is everything from one native completion, timer or call to the next:
`ReuseIdle`, `ReserveSlot`, `JoinQueue` are the three ways through `acquire`,
`Connected`, `Reconnect`, `OpenFailed` the three completions of `connect()`, with
the `dispatch()` that ends them inside the action. `ReloadStarts` .. `DrainForced`
are `reload` and `drainAndClose`, `Close` is `close()`. A client may keep its
connection for ever; a timer may fire at any time. Identities of wrappers are
reused, those of instances are not: the number of `Instances` bounds the builds.

`ServerQueue` is what the pool promises: `MaxConnections` servers, one FIFO queue,
a request waits only while all servers are taken, servers may be retired under
their clients. `ConnectionPool` implements it with `waiters` for the queue, the
opening clients and the holders of pooled connections for the active ones.

### CatalogRefresh (`db/catalog-freshness.ts`, `db/database-manager.ts`, `db/pool.ts`, `loaders/base-loader.ts`, `utils/cache.ts`)

One schema, several pods and the Redis they share. `head` is the last commit,
`cache[v]` the version of the data stored under the key of version `v`. Each pod
has the version it puts in its keys (`served`, the manager's `dataVersions`), the
version its live and its draining instance attached (`snap`, `old`), and the
state of its monitor and of an administrator's reattachment. Loaders go through
`loadWithCache`: key, miss, connection, query, write. The pool appears as the
binding of a loader to the live instance, the one being drained, or one closed
under it; the drain waits for what the code waits for. `LiveReads` says whether
the catalog's backend lets an attached catalog see later commits
(`docs-site/.../data-refresh.md` states it for SQLite and expects it of
PostgreSQL; DuckDB files show what was attached). `AdminReattach` says whether
`POST /api/catalog/reload/:catalog` is used. Every call to storage or DuckDB may
fail, and versions are compared for equality as in the code.

### FreshnessMonitor (`db/catalog-freshness.ts`, `db/schema-reconciliation.ts`, `db/schema-version.ts`, `initSchemas`)

One pod, several catalogs with several schemas each: what `CatalogRefresh` leaves
out. `lake` is what the writers left in each catalog; they create, rewrite and drop
schemas between any two reads of a probe. `ListSchemas`, `ReadMarker`, `ListAgain`
and `CatalogFails` are the reads of a probe, one catalog after the other; `Differs` is
`recordResult`: the list is compared once reconciled as it would be served, the
markers with the versions served. A reload reads list, verdicts and versions again
on the new instance (`Discover`, `Publish`), and fails as a whole when one catalog
cannot be attached. Forced probes queue behind the one that runs.

### LoaderBatch (`base-loader.ts`: `withLazyConnection`, `createLoader`; `db/interrupt.ts`)

The keys of DataLoader batches. The first key that misses Redis asks for the
connection, the others share it and its failure; each is a step of one or several
statements; the body of the batch ends when the last key has settled, and gives the
connection back. The call for the connection is queued in the pool (`"pending"`) or has
a slot in which one is being opened (`"opening"`: `Asked` at once, `Opens` from the
queue). Only the queue listens to the deadline and has a timer: a connection that
comes late (`Comes`) finds its keys with nothing left but to fail. A connection runs one statement at a time (`exec`) and holds the
others (`issued`); the deadline interrupts the one that runs. Cross-database
batches (`Together`) start two statements per step at once, so that a step can fail
while its other statement is still queued.

### DataQueries and what it is built from

`RowOrder` (`ORDER BY`, NULLS LAST, `LIMIT`/`OFFSET` over sets of rows whose ties
come in any order; a sorted set is the sequence in which each element has for place
the number of elements up to it, so that nothing recursive is needed), `DefaultSort` (`utils/default-sort.ts`), `SqlText` (a condition
as tokens, and how DuckDB reads it: precedences and three-valued logic),
`FilterTree` (`utils/filter-tree.ts`, the whole compiler), `SqlTypes` (the families of
types it and the aggregates tell apart), `AggregateQuery`
(`utils/aggregate-query.ts`, `aggregations.ts`), `Comparison`
(`loaders/cross-database.ts`, `schema/resolvers/cross-database.ts`) and
`SelectOptions` (`loaders/select-options.ts`, `field-stats.ts`) are operators.
`DataQueries` is the machine over them: `Check`, `LoadColumns` or `LoadFails`,
`Resolve`, then `Page` or `Answer`; `NextPage` is the client's next request.

Whether a filter is refused, what it compiles to, which rows pass and what an answer
that is not paged holds are operators among the constants of `DataQueries`
(`FilterMalformed`, `FilterRefused`, `Compiled`, `Passes`, `UnpagedAnswer`): paging
and comparing do not depend on them, and `FilterTree`, `SqlText` and `SelectOptions`
are recursive. `QueryMeaning` puts them together, with what a filter means, and the
configurations bind those constants to its `Malformed`, `TreeRefused`, `TreeToSQL`,
`PassesWhere` and `SingleAnswer`. In a run, then, a filter is compiled to text
and the text is evaluated, so that what the properties compare with the tree is what
DuckDB would compute, not what the compiler meant. The options of a column are ordered,
and cut by the limit, as the column is, or as texts where it has labels, since the code is
then selected as text (`OptionBefore`); `Spelling` gives the text of a value and
`Alphabet` the order of characters (that of their bytes).

### KeysetPaging (`export/after-cursor.ts`, `export/build-export-query.ts`, `utils/default-sort.ts`, probe of `export-runner.ts`)

Rows are functions from columns to values. `EffectiveSort` and `TotalOrder` give
the order, `IsAfter` the resume predicate exactly as it is built (NULLS LAST, the
term of a NULL left out), `Count`, `Boundary` and `Send` the three statements of
a page, and `step` is where the page stands. `Update` replaces the data, and the
order it is clustered in, between any two of them. The total order is that of the
code, so a table may be without key and without `cluster_by`; what `PagingAssumption`
asks of a table with a key is that its key tells its rows apart. `sent` remembers the
last `MaxSent` rows, more than any table has, so that a client that would never come to an
end goes round in finitely many states.

### CacheInvalidation (`cache/cache-keys.ts`, `cache/cache-invalidation.ts`)

Several catalogs and schemas. A key is the sequence of targets a loader reads with
the version of each; `Matches` is the glob of `allCatalog`, over the segments of
the key. `Start`, `ScanBatch`, `ScanEnds`, `Delete`, `Answer` are a flush route;
`stay` is the guarantee of Redis' SCAN (a key there from the start to the end of a
scan is returned; others may be). Loads are three steps, so that entries are
written in the middle of a scan.

### RateLimiter (`security/rate-limiter.ts`)

`checkLimit` has no `await`: `Allow` and `Refuse` are one step each, with the
filtering of the sliding window and the reset of the burst counter inside.
`granted` and `told` are history: the instants at which each client was let through,
in order, and until when a refused client was asked to wait.

### QueryComplexity and Admission (`security/*.ts`, the chain of `server.ts`)

`QueryComplexity` is two functions of a document and its variables: what
`QueryComplexityAnalyzer`, `createColumnCounter` and `createDepthLimitRule` make of
it before it runs, and what the resolvers then execute: rows, columns, statistics,
root fields. `Admission` takes requests through the Express chain in the order of
its `app.use`: guard of the shutdown, CORS, body and its bounds, metrics access,
limiter, key, validation of the document, price, handler. Requests interleave
wherever the chain awaits. Which documents are too deep or too expensive is a
parameter of `Admission` (`TooDeep`, `TooExpensive`), so that what it promises does not
hang on the price list; `MCRequests` binds them to `QueryComplexity`. A limiter is
its budget for one window; `RateLimiter` says what that means. `ClientIp` is Express' `req.ip` under the trusted proxies.

### ExportRequest (`export/export-routes.ts`, `export-runner.ts`, `concurrency-gate.ts`, `db/interrupt.ts`)

One action per stretch of the handler between two `await`s, for csv and parquet
(temporary directory, `COPY`, send) and arrow (streamed result). The client may
leave and the timer may fire anywhere. `dir` is what is on the disk. A directory stays
there when its removal fails (`RemoveFails`: the handler then answers an error and gives
back the rest) or when the process crashes; `left` marks such a directory with its age,
and a later start removes any of the old ones (`purgeStaleExports` passes over those it
cannot remove). The pool is a number of free connections here. A response is `"part"` once bytes went out and `"complete"` when
its end did, which is after the cleanup (`finish()`).

### Configuration (`utils/config-loader.ts`, constructor of `db/database-manager.ts`, `schema/resolvers/scope.ts`)

Settings are trees; a leaf says whether it is a text, a number, a list or a variable
to be filled in. `LoadConfig` is `ConfigLoader.loadConfig` in its order (merge of
the files, variables, branches of the environments, coercion, normalised lists,
validation), `BuildManager` the manager's constructor, `Discover` the first
`initSchemas`, and `ContextScope` the routing of a request. `meant` is history: what the
operator wanted to say in the way `MCSettings` writes it down.

### Shutdown (`shutdown.ts`, wiring of `server.ts`)

Requests, the monitor's probe and reload, the signal, the drain with its share of
the budget, the closing steps in order, the watchdog. A closing step, a handler and
the drain may each hang; a second signal changes nothing. The pool is open or
closed here, with the set of those who hold a connection of it.

## 3. The runs

Each has its name, module and configuration in `PROJECT.json`; sizes are distinct
states. Every property of a passing run is broken, in that run, by a faulty variant
of a modelled definition (the `Faulty...` operators beside them).

| Run | Instance | Shows |
|---|---|---|
| `pool_safety` (111 k) | 3 clients, 2 connections, 2 successful reloads, close at any time | `CapacityRespected`, `QueuedOnlyWhenSaturated`, `InUseMeansHeld`, `SlotsAreOpenings`, `PoolIsLive` |
| `pool_progress` (150 k) | 4 clients, 2 connections, one reload, no close, under fairness | the refinement `ImplementsServerQueue`, with two clients in the queue so that its order matters; a queued acquisition is served if clients give back, reloads end |
| `refresh` (331 k) | pinned reads: 1 pod, 2 loaders, 3 versions, under fairness; live reads: 1 loader, 2 versions, reattachments | `NoStaleUnderNewKey` in both (`LiveReadsStayFresh` is its name in the second), `ServedIsShown`, and the last commit reaches the pod (`UpdatesArrive`) |
| `refresh_reattach` (violation) | pinned reads with reattachments | a reattachment during a rebuild makes stale data reach a newer key |
| `flush_all` (violation) | 3 schemas in 2 catalogs | an invalidate-all misses the entries over several catalogs |
| `export_safety` (160 k) | 3 exports of 2 clients, 1 slot each, 2 in all, 1 connection, both clients with a directory, under fairness | `NothingLeaks`, `ConnectionIsClean`, `CompleteMeansReleased`, `SlotsBoundTheDisk`, `EveryExportEnds` |
| `export_gone` (violation) | 1 export | a client that leaves before the listener is installed is not noticed |
| `queries` (81 k) | 11 k requests: filters of up to 4 criteria over rows of 0, 1 and NULL, every operation, every type against values of every kind, 1110 patterns, facts, groups, comparisons, menus; exports of tables of 3 rows, keyed (with ties) or not, clustered or not, 1 update, both kinds of backend | `FilterMeansTree`, `RefusedForAReason`, `PagesAreTheResult`, `ComparedLikeWithLike`, `MenuIsComplete`; `ExportIsWhole`, `ExportEnds` |
| `queries_default_sort` (violation) | facts clustered by a column with ties, no `sort` | a row comes on two pages, another on none |
| `requests` (374 k) | flushes: 3 schemas in 2 catalogs, one schema name a prefix of another, a comparison over two; a limiter: 2 clients, 3 requests per 7 ms, 1 per burst window of 1 ms, 9 ms; the chain: 2 requests of 11 kinds of route, address and key; 8076 documents | `NoStaleAnswer`, `FlushReachesItsScope`, `FlushIsLocal`; `BudgetsAreKept`; `PriceBoundsTheWork` |
| `lifecycle` (124 k) | a thousand configurations; 2 catalogs with 2 schema names, 2 commits, 1 failure; 2 batches of 2 keys over 1 connection, opened before or after their deadlines; a shutdown with 2 requests and a probe | `ServedAsConfigured`; `UnchangedIsLeftAlone`; `BatchesAreSound`; `AcceptedAreServed`; `AllComesToAnEnd` for the last three |
| `shutdown_holds` (violation) | 1 request, the monitor | a shutdown that cut nobody closes the pool under a running probe |

`StatesAreTyped` is the conjunction of the type invariants of the modules of a run.

**What some properties say.** `FilterMeansTree`: the text sent to DuckDB, read by
its precedences with the n-th placeholder bound to the n-th value, is true of the
rows of which the tree is, by a definition of the tree's meaning that knows
neither text nor placeholders. `RefusedForAReason`: a refused request has something
wrong in it by an independent reading, and no integer, date or pattern passes that
DuckDB would change silently or fail on. `PagesAreTheResult`: whatever order ties come in, in every
statement anew, a client that goes on while there is a next page has each row
of the answer once and in order. `PriceBoundsTheWork`: rows and column statistics
of an executed operation fit together into `MAX_ALLOWED`. `BudgetsAreKept`: the
sliding and the burst limit of the limiter, that waiting longer than announced is
enough, and in the chain that one client tries no more keys, and runs no more
operations and exports, than one budget has, whatever addresses it claims.
`ServedAsConfigured`: however a setting is written, the process serves the
catalogs and restricts the schemas as the operator meant, or refuses to start;
requests are routed within that. `AcceptedAreServed`: who was accepted before the
signal keeps connection and pool until answered or until its time is over, and exit
code 0 means that this, and every closing step, went well. `MenuIsComplete`: none of the
options kept comes after one that the limit left out, and a tree is never a part of one.
`CompleteMeansReleased` and `SlotsBoundTheDisk`: a client that has the end of a response finds
slot, connection and directory given back; after an error that is so of the directory unless
its removal failed, and beyond the slots the disk holds only such directories and those
of a crash.

**Why the bounds are enough.** Pool: with 3 clients over 2 connections one
client waits while a reload drains, and a second reload can start with clients of
the first one still about; with 4, two wait and their order can be wrong. 5
identities suffice for 2 pooled connections, 2 being drained and one being opened.
Refresh: a stale write needs a loader, a reload and a later reader of the key;
three versions give two reloads in a row and entries of two generations. The
theorems of section 5 cover every number of pods, loaders, clients and commits.
Flush: the prefix of a name, the two catalogs of one comparison and a write in the
middle of a scan are all there. Limiter: the window is seven times the burst
window, the clock runs for more than one window of each, and the cleanup comes at
every instant at which it can. Export: two exports of one client and one of
another contend for the gate and for the one connection; both clients have a copy, hence a
directory, and one a stream. An export has one directory: while it is left behind that
export is not asked for again, the other two are. Paging: three rows and
limits 1 and 2 give pages that end on a tie, on a NULL and at the end exactly; one
update suffices to fall between any two statements. Menus: the codes are 2, 10, 11 and 20,
whose texts have another order, and limits 1, 2 and 4 cut between them. Filters: a connector changes
the reach of its neighbours only, so four criteria in a row, or two levels of
three, show every pair of the eight connectors with and without negation, and every
pair before a third; 27 rows give each
criterion each truth value. Schemas: two names, one configured and one not,
with and without `SCHEMAS`, two commits in the course of a probe. Batches: two
keys make one wait for the other, two batches over one connection make one inherit
it from the other, or queue behind its opening. Documents: every root field with a price of its own, its
limit omitted, null, literal, in a variable and above the maximum, statistics below
every list of columns, directly and through fragments, one level deep and repeated
under aliases. Settings: every way to write a list, in every environment, with
each thing wrong once.

`CHECK_DEADLOCK FALSE` stands where the system really stops: a closed pool, a
clock at its bound, answered requests, a paged export at its end, a pod that
serves or has left, and exports whose queries hang without fairness.

**Fairness.** Only what the code or its platform provides. Pool: a native call
completes, a drain polls and has a deadline; nothing is asked of clients, and
`QueuedIsServed` says itself that clients give back. Refresh: the interval timer
ticks (weak), storage that is tried for ever answers at last (strong, for
reading the marker, building and reading the version). Schemas: the timer ticks and
every call of a probe or a reload returns, well or not; writers and failures stop
because both are bounded. Batches: Redis answers or fails, a statement ends, DuckDB
opens a connection or refuses to, the deadline fires; nothing of the queue of the pool,
which may never serve them. Exports: the timer
fires, an aborted statement ends, validation, pool and cleanup answer; neither
DuckDB nor the client is asked to get on by itself. Paging: the client asks for the
next page, statements end. Shutdown: its two timers fire; handlers, drain and
closing steps may hang.

## 4. What the code does otherwise than it says

Five runs end in a counterexample (`findings` in `PROJECT.json` quotes the lines):

1. `refresh_reattach`. `reloadOne` does not exclude a reload. If it reattaches the
   live instance after the rebuild attached an older commit, it publishes the newer
   version; the swap then brings the older data under it, and a loader stores that
   data under the newer key. If the publication that ends the reload fails too, the
   pod itself keeps serving old data under the new version until the next commit.
2. `flush_all`. Keys over several catalogs have `a+b` as their catalog segment,
   which no per-catalog pattern matches: invalidate-all leaves them.
3. `export_gone`. A client that disconnects during the awaits before
   `onClose` is installed is never noticed; its export runs to the timeout or to
   its end.
4. `queries_default_sort`. Without `sort`, facts are ordered by `cluster_by` alone;
   where that leaves ties, the pages are not disjoint.
5. `shutdown_holds`. Stopping the monitor stops its timer only: a probe that runs
   goes on to its reload, and the pool is closed under it.

Met while modelling, and stated here without a run of their own.

*Refresh and cache.*

- Between the swap and the publication of the version, new data is stored under
  the old key, so pods do mix versions under one key for a while
  (`data-refresh.md:47` has it that they never do). The data is newer than the key,
  never older; `NoStaleUnderNewKey` is therefore stated with `>=`.
- A catalog that was detached and could not be attached again stays detached until
  the next *commit* or an explicit reload, not until "the next successful probe"
  (`data-refresh.md:160`): the probe compares the marker with the version served,
  and that has not changed (`db/catalog-freshness.ts:643`).
- A schema that cannot be read when it is first listed is refused. If its
  `updated_at` is NULL once it can be read, it does not look changed, and it is not
  admitted until something else reloads. A schema whose `dataset_metadata`
  disappears keeps its last version.
- When `initSchemas` fails after the swap, the new instance is served under the old
  lists and verdicts until the next probe.
- One catalog that cannot be attached keeps the updates of all the others away.
- invalidate-all answers success also when the flush of a catalog failed.
- `close()` during a reload leaves the instance open that is swapped in afterwards.

*Batches and queries.*

- The deadline of a batch interrupts the statement that runs; those queued behind
  it run to their end, and a step of two statements may start its second one after
  the deadline. Of a cross-database step that failed, the other statement may still
  be queued on the connection when it is given back.
- The deadline of a batch covers the wait in the queue of the pool and the queries, as
  `loaders/base-loader.ts:153` says, and so not the opening of a connection: neither the
  abort nor a timer reaches it (`db/pool.ts:897`), and the batch waits for it past its
  deadline. The connection that comes is given back unused, and `EveryBatchEnds` holds
  as far as openings end.
- `compareFacts` and `compareAggregatedFacts` join on text: the same number is not
  the same text in an `INTEGER` and in a `DOUBLE` column (`1`, `1.0`), nor a date in a
  `DATE` and a `TIMESTAMP` one. The `key` of a row of `compareFacts` joins values with
  `::` and is not injective.
- A filter value on a `DECIMAL` column is rounded to its scale.
- `getSelectOptionsTree` reads up to `TREE_MAX_NODES` rows however few are asked for,
  and its bound on rows relies on the writer's NULLs being below NULLs.
- Aggregates in `LONG` give up to limit times the number of aggregates rows per page;
  the `label` of an option is not always its `value` (`queries.md:697`).
- `createBatchLoader` has no caller.

*Limits.*

- The burst window is over when *more* than `BURST_WINDOW_MS` have passed; the delay
  announced is the difference to exactly that much. A client that waits exactly as
  told may be refused at that millisecond: `WaitingLongerIsEnough`.
- The burst limit is a counter that is reset, not a sliding window
  (`api-guide/overview.md:21`): twice the limit fits around a reset. `BurstLimit`
  states the bound that does hold.
- `column-counter.ts` says of a failure to count that "its resolver fails with the
  same error": not so for `getFactTableWithMetadata` after a transient failure, nor
  when the verdict of a schema changes between pricing and execution.

*Exports.*

- The startup purge leaves directories younger than any export may run
  (`export.md:406` reads as if it left none).
- The temporary file is removed "on every exit path" (`export.md:405`), but not when the
  removal itself fails: the client gets an error, the slot is free again, and the directory
  stays until a startup purges it, so that the slots do not bound the disk then.
- An update between two pages gives a concatenation that is the export of no
  version (`export.md:304` calls it the export at its version). Where the backend
  shows an attached catalog later commits, the cursor and the rows of one page may
  come from two states and a row may come twice (`export.md:327`).
  `PagesAscend` is stated for the other backends.

*Configuration.*

- A setting with branches is only reduced to its environment when one of them is
  truthy (`utils/config-loader.ts:558`; the comment above says any object with those
  keys is): `{development: false, production: false}` stays an object, which is
  true.
- A section that an earlier file leaves empty hides that of a later file.
- A branch for production alone leaves nothing that is a list in development; the
  process refuses to start.
- A variable set to the empty text is set: its default is not taken, unlike the
  shell's `:-`.
- A text of digits becomes a number: a catalog named `2024` is not found, a password
  of digits loses its leading zeros, a YAML list of such names is refused where
  the same list as JSON in a variable passes.
- `ALLOWED_CATALOGS` may name a catalog that is not configured, and leave out
  `DEFAULT_CATALOG`; neither is refused at the start, requests fail later.

## 5. The proofs

| Theorem | Module | States, for every value of the constants |
|---|---|---|
| `TypeCorrect` | `ConnectionPoolProofs` | the types of the pool |
| `CapacityIsRespected` | | `CapacityRespected` |
| `NoLostWakeUp` | | `QueuedOnlyWhenSaturated` |
| `SlotsAreAccounted` | | `SlotsAreOpenings` |
| `HeldByOne` | | `InUseMeansHeld` |
| `OnlyTheLiveInstance` | | `PoolIsLive` |
| `PoolRefinesServerQueue` | | `ImplementsServerQueue`: the pool implements `ServerQueue` |
| `RefreshTypeCorrect` | `CatalogRefreshProofs` | the types of the refresh |
| `NoStaleData` | | `NoStaleUnderNewKey`, without reattachments or with live reads (`LiveReadsStayFresh` in the run) |
| `PublishedIsShown` | | `ServedIsShown` |
| `TypeCorrect` | `ExportRequestProofs` | the types of the exports, with the ceilings of the gate |
| `NothingIsLeaked` | | `NothingLeaks` |
| `ConnectionStaysClean` | | `ConnectionIsClean` |
| `DiskIsBounded` | | `SlotsBoundTheDisk` |
| `ReleasedBeforeTheEnd` | | `CompleteMeansReleased` |
| `TypeCorrect` | `CacheInvalidationProofs` | the types of the cache and the flushes |
| `AnswersAreFresh` | | `NoStaleAnswer` |
| `FlushesReachTheirScope` | | `FlushReachesItsScope` |
| `FlushesAreLocal` | | `FlushIsLocal` |
| `WhatIsServedIsRead` | `LifecycleProofs` | `FreshInv`: what a probe compares is what is served, and was read |
| `QuietPodStays` | | `UnchangedIsLeftAlone` |
| `BatchesKeepToThemselves` | | `BatchesAreSound` |
| `ShutdownServesTheAccepted` | | `AcceptedAreServed` |
| `ClientsAreRationed` | `RequestBudgetsProofs` | `BudgetsAreKept`: three facts of a limiter, two of the chain |
| `ResumedExportIsWhole` | `KeysetPagingProofs` | `ExportIsWhole`: no row comes twice, and without an update none is missing |
| `PagesHoldTheResult` | `DataQueriesProofs` | `PagesAreTheResult`: the pages of facts, aggregates and comparisons hold each row of the result once, in its order |
| `ComparisonsCompare` | | `ComparedLikeWithLike`: a row for each common group, the same aggregate of each side's facts of that group beside each other |

*Assumptions.* Each is named, in the module that declares the constants, and TLC
evaluates it in the runs.

| Assumption | Says | Because |
|---|---|---|
| `PoolAssumption` | finitely many clients, at least one connection, null values outside their sets | `MAX_CONNECTIONS` is validated |
| `RefreshAssumption` | each loader has a pod | it runs in one |
| `ExportAssumption` | finitely many exports, each with a client, and positive limits | the limits are validated |
| `CacheAssumption` | a namespace is a sequence of the targets served | `scope.ts` refuses others |
| `CatalogsAssumption` | the catalogs of a probe are a list | it is an array |
| `ConnectionsAssumption`, `NoneAssumption`, `MonitorAssumption` | names that must differ do | they are of different types in the code |
| `WindowAssumption` | limits and windows are positive, the window is not shorter than the burst window | every configuration of `config/security.yaml` is so |
| `BudgetsAssumption` | finitely many requests, a budget is a number | |
| `HopsAssumption` | `x-forwarded-for`, read from its end, has trusted proxies and then the address of the sender, which is none | each proxy appends whom it heard; the claims of a client stand before that |
| `NullAssumption`, `NameAssumption` | NULL is no integer and no name of a column | the values of cells stand for anything with an order |
| `ColumnsAssumption` | the columns are a non-empty list, "all columns" is none of them | a fact table has columns; `AllColumns` is `ORDER BY ALL` |
| `PagingAssumption` | limits are positive, sorts over known columns, each dataset a fact table: cells numbers or NULL, and keys tell rows apart; `MaxSent` exceeds every table | `assertColumns` in `export/build-export-query.ts` refuses unknown columns; `primary_keys` is what the writer declares to be a key |
| `AggregateAssumption` | bounds are numbers | the limits are validated |
| `QueryAssumption` | of a paged request: its sort names columns, what it reads is a fact table, or has the columns its metadata names; to compare, a text stands for one value of its column, and is a number (its place among texts); of `compareFacts`: one measure, keys without a grain, no column named `_compared_value` | GraphQL types the arguments, the resolver of `compareFacts` builds its groups itself; `CAST` to text is one-to-one within one type; the last is needed, since `cross-database.ts` gives the measure that alias |

*Pool.* The inductive invariant is `TypeOK` with the three counting properties,
which need each other: that a failed opening gives back a slot that was really
taken (`creating - 1` a natural number) is `SlotsAreOpenings`, which in turn
needs that the queue holds exactly the waiting clients, each once, so that
`dispatch` moves as many clients to `"opening"` as it reserves slots;
and that nobody waits beside a free slot follows, for each action, from what
`Dispatch` leaves: the queue is empty or the capacity used up
(one lemma on `Dispatch` serves every action that ends in it).

*Pool: who holds what.* `InUseMeansHeld` is inductive with the fact that a client
holds a connection exactly between `acquire()` and `release()` (`HeldInv`): a wrapper
is given out when it is idle, or when it has just been made and is no one's. For
`PoolIsLive` it is not enough to look at the pool, since a connection comes back to it
from a client: `LiveInv` says of all that is open where it belongs. Every open
instance is the live one or the one being drained, and an open connection held by a
client is in the pool or in the list the drain will close, never in both.

*Pool: the refinement.* A request of the abstract server is active when its client
opens or holds a connection of the pool, retired when the reload took the connection
out of it. The number of active ones is `creating` plus the connections in use
(`ActiveSize`, from the two invariants above), so the code's capacity test is the
abstract one. Each action is then a step of `ServerQueue` or a stutter: `acquire`
asks, what ends with `dispatch()` finishes and serves from the front of the queue
(`DispatchServes`), a swap retires, and opening, draining and rebuilding are hidden.

*Refresh.* `NoStaleUnderNewKey` alone is not inductive: what a loader will store
depends on its key and on the instance it is bound to. The invariant adds that
what a loader carries, and what its instance will show it, is not older than its
key; that a pod's served version is not newer than its live instance (nor than the one
being built, nor than what the publication has read); and that nothing is newer
than the last commit. It needs the drain
only through the fact that a loader bound to the old instance has a key from
before the publication. With reattachments on a snapshot backend the second part
fails, which is `refresh_reattach`; `Sound` is the hypothesis that excludes it.

*Exports.* What an export holds is a function of where its handler stands
(`Holds`): no slot before `TakeSlot`, no connection before `Connect`, both while
DuckDB works, a directory only between its creation and its removal, or once it was
left behind. That is inductive by itself, since a step changes one export, and gives the three properties
about each export. The counters come from it: `TakeSlot` and `Connect` run only
where nothing is held, the two releases count only what was held, so the gate and
the pool agree with the sets of holders (cardinalities of finite sets), and the
ceilings follow from the guard of `TakeSlot`.

*Cache.* The type invariant is not inductive alone: that `Store` writes one version
for each schema of the key needs what the loader read, which `Held` adds, with the
fact that the versions it was asked for are those of its key and not newer than what
it read. `Entries` carries this into Redis, so a hit, which finds an entry under the
versions served now, is as fresh as a load. `Scans` is about the flushes: each
has found only what its pattern matches, and an entry that it must reach is still to
be returned while it scans, found while it deletes, gone once it is done. Entries
only leave the set a flush must reach (they expire, are rewritten or are deleted by
another flush), which one lemma (`ScannedOfOthers`) uses for every step of the others.

*Schemas.* `QuietPodStays` is about steps: while the lake stays as it is, no probe ends
in a reload that nobody asked for, whatever it fails to read. Its invariant has a part that always holds (the
probe goes through the catalogs in order and reads markers of schemas that are
served) and one for a pod that has been quiet since its last publication (`clean`):
what it serves is the lake, reconciled and judged by the same functions, and what the
probe has read so far is the lake too. `NothingDiffers` then says that comparing a
reading with what is served finds nothing: reconciling the list read gives the list
served, and an unreadable schema is compared with nothing.

*Batches.* `ConnectionsAreKept` and `OnlyTheLateAreInterrupted` need each other's
reasons: a batch gives its connection back when its last key has settled, so what
remains to be shown is that a key that waits has its batch's request in the queue of
the pool or being opened (`AcquisitionsAreAwaited`: else it would never settle or settle for
another), that a request that fails, queued or opening, fails all who wait (`AwaitedFails`), that a
connection that comes, late or not, was nobody's (`ComesKeeps`), that no connection held
is free, and that every statement not yet ended belongs to a key that has had a step, on the connection of its batch as long as the step goes on
(`StatementsAreOfSteps`). Of a cross-database step that failed, the other statement may
run on; the invariant says no more of it, and the property does not either.

*Shutdown.* `StopInv` orders the stages: timers are stopped first, the pool is open
until the closing step that closes it, and closing begins only when no request is
accepted any more, or something failed. Whoever was cut had the grace period.

*Budgets.* For a limiter, what the code keeps is related to what it granted
(`LimitsInv`): the timestamps kept are the last ones granted, all that are in the
window among them, and the burst counter counts the grants since its reset; whose
entry the cleanup has removed has no grant that still counts. The limits over every
window follow by the place of a grant among those before it. That the entries kept
are the last of a sequence needs a least index, which is had from finite sets having
no infinite descent (`LeastNatural`, through the well-foundedness of the strict subset
order) where one would otherwise use induction. For the chain, the invariant follows a
request along its places (`Placed`: where it stands says what its route is and what it has
passed) and counts them (`Accounted`): those of a client that have passed a limiter
are at most what it has used up and the checks that failed and were let through. That
the client is its sender whatever it claims is `ClientIsTheSender`.

*Paging.* The heart are facts about orders, proved of any finite set and any total
order on it: the set sorted is ascending (`RankedIsSorted`), no other sequence of its
elements is (`RankedIsUnique`), and what follows the n-th element, sorted, is what
follows in the sequence (`RankedAfter`). `Before` is such an order on rows when the items tell
rows apart (`TellsIsTotal`, `BeforeIsTransitive`, with NULL above all numbers and a
direction for each item), and `TotalOrder` always gives items that do (`OrderIsComplete`:
with the key, or all columns where there is none; an explicit sort is completed).
`AfterTheCursor` is what the code is about: the resume predicate, built from
equalities and strict comparisons with the term of a NULL left out, holds of exactly
the rows that come after the row of the cursor. The machine's invariant says that the
cursor is the key of the last row sent (`CursorInv`), what the request has read
(`ReadInv`), that what was sent ascends (`OrderInv`), and, as long as there was no
update, that it is the beginning of the whole export (`PrefixInv`). Where the backend
shows later commits within a request nothing is claimed after an update, in accordance
with section 4.

*Queries.* For `PagesAreTheResult`, `AnswerIsOrdered` shows of facts, aggregates and the
two comparisons alike that their `ORDER BY` tells the rows of the answer apart, refines
what the client asked for, and that `total` is the number of these rows. For facts that is
the completion of a `sort` by the keys (a `cluster_by` alone gives no such order, which
is `queries_default_sort`, and is left out by `Clustered`). For aggregates, groups are told
apart by the columns grouped by (`GroupedRows`), all of which the resolved sort names, and
no aggregate or label hides one of these (`NamesAreApart`, from the refusal of duplicate
names); for comparisons, the join pairs a row with one other at most (`JoinedPairs`) because
a text tells the values of its column, and the key columns as text end the order. With
such an order there is one ordering of the rows only, and the facts of
`KeysetPagingProofs` apply: each page is a segment of it. `QueryInv` says then that the page was
accepted by what the resolver checks (`Examined`), what it was resolved against (`Resolved`), and
that what was received are the first rows of the whole (`Progress`), shaped; a next page
exists as long as rows are left. In the `LONG` format, where a row of the result is as many
as there are aggregates, `CellsAreMelted` counts them by division. The strengthening is needed since
the property speaks of the last page, the code only ever of one.

*Comparisons.* A row of a side stands for the facts whose group columns read the same text
(`SideIsShown`); a pair of the join stands for the same text on each side and every
common text has its pair (`JoinIsShown`), NULL being a text where groups are compared
(`IS NOT DISTINCT FROM`) and none where keys are (`=`). The row made of a pair shows both
aggregates under names that neither a group column nor another aggregate takes
(`AcceptedIsApart`, `ComparedNames`, `MeasureIsApart`), and the default aggregations of
both sides are the same or the request was refused (`SidesAgree`).

*Left to TLC.* What the prover cannot reach: liveness under fairness (`QueuedIsServed`,
`ReloadEnds`, `UpdatesArrive`, `EveryExportEnds`, `ExportEnds`, `AllComesToAnEnd`), and
what recursive operators compute, since induction over data is beyond the provers
installed: what a filter means and when it is refused, what a menu holds, what a configuration
becomes, what a document costs (`FilterMeansTree`, `RefusedForAReason`,
`MenuIsComplete`, `ServedAsConfigured`, `PriceBoundsTheWork`). Recursive operators are
declared only in modules that the modules with theorems do not use. The type
invariants of the modules proved about are parts of the invariants above;
`StatesAreTyped` joins them with those of the others. `LiveReadsStayFresh` is
`NoStaleUnderNewKey` of the second instance of `MCRefresh`, which `NoStaleData` covers.

## 6. What is not modelled

- Row conversion, metadata mapping, encodings of exports, previews: no shared
  state; where a failure matters it is an outcome of an action. Of SQL text, the
  conditions are modelled token by token; the rest by what a statement returns.
- The description of output columns (units, formats, extents), the partition of a
  row into keys and measures, the ARRAYS format, the order of siblings in a tree,
  locales and collations of texts.
- Aggregated exports (the same cursor over the group columns), the free-space check
  (a floor, as the code says, and no reservation), and the mapping of errors to
  status codes.
- Redis' own reconnection and the size of its memory: calls answer or fail, and
  any entry may vanish (`Expire`).
- A start-up that fails ends the process before any of `Shutdown`; `ConfigLoader.get`,
  placeholders inside longer texts, paths of catalogs.
- In `Admission`, the parsing of address lists and CIDR blocks, the entry `*` of the
  trusted proxies, response headers; the schemas it counts columns of are fixed, and
  `DEFAULT_LIMIT` is at least the limits the schema declares.
- `reloadOne` is in `CatalogRefresh`, not in `ConnectionPool`; two flushes at once and
  `invalidateCacheType`, which no route calls.
- Generated types, logging, charts, scripts and the documentation site.

## 7. What would add to it

Every safety property and action property of a run is proved, except where section 5
says that the prover cannot follow.

1. `PriceBoundsTheWork` for every price list, with the document as a flat relation of
   fields and parents instead of a tree, so that the price is a fold and not a
   recursion.
2. The transformations of a list in `Configuration` (`ServedAsConfigured` for the lists
   alone), which recurse over settings but not over lists.
3. The menus without their trees (`getSelectOptions`, `getCommonOptions`): the one
   recursion of `SelectOptions` climbs a tree of labels.
4. A composition of `LoaderBatch` with `ConnectionPool`, whose queue would decide
   which batch is served; it would show `Granted` to be what `Dispatch` does.
