# Verification of CQAR, the crypto asset registry

TLA+ modules of the registry in `src/`, TLC configurations that check them on
small instances, and TLAPS proofs that hold for all of them. Paths below are
relative to the repository; `manager/asset.go` stands for
`src/internal/manager/asset.go`, and so on.

## 1. Inventory

CQAR is a gRPC service. A request passes `server/server.go` (shape of the
request), a manager in `manager/` (rules that need other rows), the
`CachedRepository` (`repository/cache.go`, copies in Redis) and the
`PostgresRepository` (one SQL statement per call). All state that outlives a
request is in Postgres and Redis; several handlers, of several instances of the
service, work on it at once. No request holds a transaction or a lock across
two statements, so that everything a handler has read may be out of date when
it writes. Constraints and foreign keys of the schema (`migrations/`) are the
only thing that is checked together with a write.

| Component | State | Operations | What makes it correct |
|---|---|---|---|
| Asset relationships (`manager/asset.go`, `repository/relationship.go`) | `assets`, `relationships`; locals of the running searches | CreateAssetRelationship, DeleteAsset's cascade | rows join existing assets; no cycle per type; a refusal is right; every search ends |
| Cache-aside repository (`repository/cache.go`) | rows and their copies in Redis | Get / Create / Update / Delete of assets; Get / Create of chains, venues, venue assets | copies agree with rows, or soon will; no write resurrects a row |
| Quality flags (`manager/quality.go`, `repository/quality_flag.go`) | `quality_flags` | Raise, Resolve, List, IsAssetTradeable | no orphan flags; a flag is resolved once; a critical flag blocks trading |
| Service lifecycle (`service/service.go`, `manager/events.go`) | connections, servers, requests in flight, publishing goroutines | Start, Stop, Publish | requests in flight find their connections, and their events the bus; Stop ends; nothing runs after it |
| Instruments (`manager/instrument.go`, `repository/instrument.go`) | `instruments` and six subtype tables | CreateInstrument, the creates of spot, perpetual, future, option, deposit, borrow | a subtype has its base and its assets; an instrument is of one kind; what a failed create leaves behind has a named cause |
| Deployments, markets, identifiers (`manager/asset.go`, `manager/market.go`, `repository/deployment.go`, `market.go`, `identifier.go`) | `deployments`, `markets`, `identifiers` | CreateAssetDeployment, CreateMarket, CreateIdentifier, ResolveMarket, ResolveIdentifierByExternalID | references exist; a name has one owner; what it resolves to is stable |
| Asset groups (`manager/asset.go`, `repository/asset_group.go`) | `asset_groups`, `group_members`, the connection pool | CreateAssetGroup, AddAssetToGroup, RemoveAssetFromGroup, GetAssetGroup, ListAssetGroups | members exist; listings show what was there; connections come back |
| Transactions (`repository/postgres.go`) | a connection | WithTransaction | all of its statements or none (the code's does not: section 6) |
| Bootstrap seeding (`internal/bootstrap`, `cmd/bootstrap`) | progress of a run; rows made through gRPC | seed chains, assets, deployments | a run makes nothing twice, a repeated run adds nothing |
| Venues, venue assets | their tables | create, list | references exist |
| Validation, configuration, health endpoints | none | - | - |

Interaction. Managers call one another and the repository synchronously. Writes
end with the deletion of one Redis key. A create hands an event to a goroutine
that publishes it to NATS JetStream and that nobody waits for. Foreign keys tie
the tables: deleting an asset deletes its deployments, relationships, flags,
memberships, venue assets and identifiers, empties `chains.native_asset_id`, and
is refused while an instrument subtype or a market refers to it.

What is hard. Check-then-act across statements (relationships, flags, groups,
markets); the race between a cache fill and a write; partial failure between the
row and its copy, and between a base instrument and its subtype; queries whose
error is ignored; limits (one page of 100 edges, one page of 50 assets, the
connections of the pool); a connection kept while another is asked for;
goroutines that outlive their request; shutdown with requests in flight; seeding
that is repeated, interrupted or run twice at once. `PROJECT.json` lists each of
these under `hazards`, at its line, with the properties that would catch it.

## 2. Plan

Done, most important first:

1. `TypedGraphs`, `AssetGraph`, `RelationshipGraph`: the relationship graph, the
   abstract registry it should implement, and the refinement between them.
2. `CachedRepository`: rows and copies.
3. `QualityFlags`, with `IsAssetTradeable` while flags come and go.
4. `ServiceLifecycle`.
5. `InstrumentRegistry`, `Instruments`: base row, then validation, then subtype
   row, and the registry they implement.
6. `Listings`: deployments, markets and identifiers.
7. `AssetGroups`: memberships, listings, `WithTransaction` and the pool.
8. `Seeding`: runs of the bootstrap tool, repeated, overlapping, interrupted.

Every safety property that a passing run checks is also proved (section 5).

Left, in this order:

9. Venues and venue assets, once their tables and their code agree (section 6).
10. Field semantics of UpdateAsset (every column is written).

## 3. Modules

Every SQL statement and every Redis call is an action of its own, because other
handlers can run in between. A handler is a process with a program counter `pc`
that names the next call; its guards are the conditions and early returns of the
code. A statement may fail when the constants say so (`DatabaseFails`,
`Faults`), and a committed statement may be reported as failed when its
acknowledgement is lost. Asset ids are UUIDs, so a deleted id never comes back;
`retired` keeps the deleted ids because Redis may still serve their copies.

**`TypedGraphs`** defines successors, reachability, closed sets and acyclicity of
the edges of one type, without recursion; the lemmas about them are in
`RelationshipGraphProofs`.

**`AssetGraph`** is what the registry promises, without handlers: `Register`,
`Retire` (takes its edges along), `Relate` (only where it closes no cycle).

**`RelationshipGraph`** is `CreateAssetRelationship` statement by statement.

| Code | Model |
|---|---|
| `GetAsset` of both assets, through the cache | `GetFrom`, `NotFound`, `RefuseSelf`, `StartSearch`; `Findable`, `Missable` |
| loop of `detectRelationshipCycle` | `Expand` (one query), `RefuseCycle`, `EndSearch`, `AbandonSearch` (`break` on error) |
| `Limit: 100`, `ORDER BY created_at` | `Pages`: a page of `PageLimit` edges, any of them (`created_at` is stamped by clocks of different handlers) |
| two EXISTS queries | `CheckRows` |
| INSERT and its constraints | `Insert`, `InsertFails`, `Insertable` |
| DELETE of an asset and its cascades | `DeleteAsset` |

The two EXISTS queries are one action: assets never come back, so that only what
still exists at the INSERT matters, which the foreign keys check again. The
queue is a set: the order in which it is served does not change the verdict.
The edges that are not `unchecked` (below) are the refinement mapping to
`AssetGraph`.
The history variables `gap` (the search failed, was cut, or another handler
inserted an edge of its type meanwhile), `lost` (an edge was deleted meanwhile)
and `unchecked` (rows inserted with a gap) restrict no action.

**`CachedRepository`** is `cacheGetOrLoad` (`CacheHit`, `CacheMiss`, `Load`,
`NotFound`, `Fill`, `FillFails`) and the writes (`Insert`, `Update`, `Delete`,
`WriteFails`, then `Invalidate` or `InvalidateFails`), with the time to live
(`Expire`) and handlers that die (`Die`, at any point). A row is the number of
the write that last changed it: a copy is stale when the numbers differ.
`Delete` includes the SET NULL in table `chains`. The history variables are
`overtaken` (the row changed after the handler loaded it) and `tainted` (the
copy's deletion is lost). Chains stand for venues and venue assets too, which the
same code caches.

**`QualityFlags`** is `RaiseQualityFlag` (`GetAsset`, `CheckAsset`, `Insert`) and
`ResolveQualityFlag` (`GetFlag`, `Update ... WHERE resolved_at IS NULL`, and the
server's second read, `Reread`), with the cascade of `DeleteAsset` and the two
queries `IsAssetTradeable` and `ListQualityFlags` as operators. Flag types,
sources and reasons are left out: nothing depends on them but one CHECK, which
`Admitted` stands for.

**`ServiceLifecycle`** is `Service.Start`, `Service.Stop`, the requests between
them and the goroutine of each event, up to the end of the process (`Exit`).

| Code | Model |
|---|---|
| a create reaches its manager | `Accept` |
| its INSERT gets a connection of the pool, and gives it back | `Acquire`, `Write`, `WriteFails` |
| `go func()` of the publisher | `Announce`, with the request still in flight |
| the answer, after which the request's context is cancelled | `Respond` |
| the goroutine's `Publish`, before the answer or after it | `Publish`, `PublishFails` (bus or context), `PublishRefused` (bus closed) |
| `dbPool.Close()` | `CloseDatabase` (no more connections), then `AwaitConnections` (those in use are waited for) |

The requests stand for any create; those outside `Announced` have a publisher
that only logs (instruments, markets). The gRPC and HTTP wrappers come from
another repository and pgxpool from a library; they are modelled as the code
here uses them. pgxpool's `Close` has no timeout, so that `Stop` may wait for a
request on which the drain gave up.

**`InstrumentRegistry`** is what the registry promises about instruments,
without handlers: `List` shows an instrument at once, with its code, kind and
assets; `Retire` spares assets it is written on. `RegistryInv` and
`ListedForGood` are what follows from that for a client.

**`Instruments`** is the creates of `manager/instrument.go`, all of which call
`CreateInstrument` first.

| Code | Model |
|---|---|
| INSERT of the base row, its primary key and UNIQUE code | `CreateBase`, `BaseFails`, `Unlisted` |
| the manager's lookups of assets, then the checks of the kind's fields | `CheckAssets`, `AssetsRefused`, `Valid` (`PerpValid`, ...) |
| EXISTS queries of the repository | `CheckRows` |
| INSERT into the kind's table and its constraints | `InsertSubtype`, `SubtypeFails`, `Storable` (`SpotStorable`, ...) |
| DELETE of an asset, refused by RESTRICT | `DeleteAsset` |

A request names its assets and what is wrong with its fields (`Flaws`); a `Die`
ends a create between any two statements. `Listed`, the join of base and subtype
rows on their id, is the refinement mapping. `bare` and `abandoned` are history
variables. Two things the model shows by what it leaves apart: the `type` column
of a base row constrains no subtype, and ids may be given by the caller.

**`Listings`** gives deployments, markets and identifiers one shape, since they
have it in the code: a row refers to other rows (`refs`), occupies unique keys
(`keys`) and may be referred to itself (`makes`). `LookUpMarket` and
`LookUpDeployment` are the manager's lookups, `CheckRows` the EXISTS queries,
`Insert` and `Insertable` the INSERT with its constraints. Identifiers have no
lookup. `Deployment`, `Market` and `Identifier` say what each table refers to and
what is unique in it. `DeleteAsset` cascades to deployments and identifiers and
is refused by markets. What a request gets wrong about values rather than
references is its `fits`: `LookUpDeployment` refuses such a row after it has read
asset and chain (address format, decimals).
`ValidateMarketSpecs` (`manager/validation.go:256`) returns nil on every path, so
that a market gets as far as the CHECKs of its table. `stored` is a history
variable.

**`AssetGroups`** is the five operations on groups and `WithTransaction`, on a
pool of `PoolSize` connections. `held` is the handlers that keep a connection
between statements: `ListAssetGroups`, which queries the members of a group while
the rows of its first query are open, and a transaction, whose repository has its
methods from the embedded `PostgresRepository` and so runs them on the pool
(`repository/postgres.go:57`). Every statement needs a connection (`Connected`).
`TimeOut` is the deadline of a request's context; `Patient` callers have none.
No code calls `WithTransaction`, and no gRPC handler reaches `ListAssetGroups`; the
function of the transaction here adds a member to a group. `scope`, `seen` and `kept` are history variables.

**`Seeding`** is runs of the bootstrap tool against the service, in their phases
chains, assets and deployments. A run of kind `file` is `FileBasedSeeder`, which
`cmd/bootstrap` starts; a run of kind `search` is `ChainSeeder`, `AssetSeeder`
and `DeploymentSeeder`, which search before they create and which main does not
start. Lists and searches return the newest `PageSize` assets (`Page`, which may
be cut: `IsCut`), and
`Matching` says which symbols a search for a symbol meets (it is an ILIKE on
symbol, name and description). `CreateAsset` is two steps, so that two runs can
both find an asset missing. `ListDeployments` is the list the search seeder asks
for before it creates a deployment, in a call of its own (`missing` is what it did
not show); a `file` run asks for the deployment at once. A search run's searches
for assets to deploy on come before its deployments here and alternate with them
in the code; deployments change nothing that a search returns. The history variables `before` (the assets there
were when a run began) and `troubled` (its search failed, or an answer was cut
to a page) restrict no action.

Operators whose comment begins with "Fault:" are not used by any specification.
Each is a plausible mistake in the definition that follows it, and `PROJECT.json`
pairs it with the property that finds it (`mutants`).

`MC*` modules hold the values for TLC; `*Proofs` modules hold the proofs.

## 4. Runs

| Run | Instance | Shows |
|---|---|---|
| `relationship_race` | 3 assets, 1 type, 2 handlers, page of 1, failures | `ReferentialIntegrity`, `SearchInv`, `CyclesNeedAGap`, `RefusalsJustified`, `ImplementsCheckedGraph` |
| `relationship_answers` | 3 assets, 2 types of which the table admits one, 1 handler, failures | `RequestsAreAnswered` |
| `cache_race` | 2 handlers, an asset and the chain it is native to, every fault | `StaleCopiesExplained`, `DeletedStaysDeleted`, `Converges` |
| `flags_race` | 3 handlers, 2 assets, 2 flags, failures | `FlagsHaveAssets`, `ResolvedOnce`, `ResolutionFinal`, `CriticalUntilResolved` |
| `start_stop` | 3 requests, one without an event, faults | `RequestsAreDrained`, `BusOutlivesRequests`, `NothingRunsAfterStop`, `StopEnds` |
| `instruments` | 2 creates of any kind, 2 assets, 2 ids, 2 codes, every fault | `SubtypesHaveParents`, `OneSubtype`, `BasesExplained`, `ImplementsRegistry` |
| `listings` | 2 creates over all three tables, 2 assets, failures | `ReferencesExist`, `RowsStay`, `NamesPassOnWithAssets`, `ResolutionStable` |
| `groups` | 2 handlers, 2 groups, a pool of 2, one caller without a deadline | `MembersExist`, `ListingsHonest`, `MembershipsLast`, `RequestsAreAnswered` |
| `seeding` | a `file` and a `search` run, 2 symbols, a page of 2, failing calls | `OncePerRun`, `RerunsSkip`, `DeploymentsFindHome` |

Every race run, and every run of the modules with one, also checks its module's
`TypeOK`. Three runs end in a counterexample and show where the code does not do
what its documentation or comments say (`findings`):

| Run | Counterexample |
|---|---|
| `overlap_cycle` | two handlers search before either inserts, and close a cycle together (in a schema that admits the label, see below) |
| `stale_fill` | a reader stores a row that was updated after it had loaded it |
| `refused_create` | a create of a subtype that is refused as invalid has stored its base instrument, whose code refuses the corrected retry |

The same modules show more under other constants, or by reading:

- With one handler and no overlap, a cycle still closes when a query of the
  search fails (the error ends the search with "no cycle",
  `manager/asset.go:306`) or when an edge lies beyond the page. `CyclesNeedAGap`
  names all three causes.
- One handler without faults on the asset and chain of `cache_race` leaves a copy
  of the chain that names a deleted asset.
- With `Admitted = {}`, the shipped schema, no relationship and no flag is ever
  stored: the labels the code writes are none that `chk_relationship_type` and
  its sibling of `quality_flags` admit, although `test/integration/asset_test.go:142`
  asks a create to succeed.
- `min_severity` is an equality (`ListQualityFlags`), where
  `server/server.go:533` says "minimum severity level".
- An option whose labels are in another case passes the manager and is refused by
  the CHECK of its table, after its base row.
- With `Patient = {c1, c2}` the two handlers of `groups` each keep one of the two
  connections and wait for another, for ever: `RequestsAreAnswered` fails. The
  shipped pools have 25 and 100 connections, and a caller that sets no deadline
  has none.
- `CreateAssetGroup` looks up the members it is given and stores none of them.
- A repeated `file` run creates every asset again (`RerunsSkip` is about `search`
  runs only), where `docs/ROADMAP.md:780` says "Safe to re-run bootstrap without
  duplicates" and `docs/API.md:1183` "Create operations are idempotent". After
  enough runs the page of 50 assets no longer holds the oldest ones, and
  deployments go to others.

Because the shipped constraints refuse every label the code writes, `Admitted`
decides what a run is about: `{}` is the shipped schema, and everything else is
checked for a schema that admits the labels, where the code gets further. That
goes for `overlap_cycle` too: as shipped there is no cycle because there is no
relationship, and correcting the label (or the CHECK) brings the race to light.

Bounds. Three assets make the shortest cycle that no single edge shows and
leave an edge a page can hide; two overlapping handlers suffice for every race
on one row or one cycle; a page of one edge is the smallest that cuts. Two
handlers on an asset and its chain meet every combination of read, write and
deletion on one copy, and `MaxWrites = 2` lets a copy be two versions old; the
bound only stops new updates, which is also what `Converges` needs ("once no
more updates are requested"). A third handler in `flags_race` resolves a flag
while another has resolved it and not read it back. `QualityFlags` has as many
ids as `Flags`; no raise starts without one. Two creates suffice for every race on
one id, code, key or asset, and in `Instruments` and `Listings` a finished create
starts again, so that the tables fill up over time. Two connections and two
handlers are the smallest pool on which one handler can wait for the other and
still hold what it waits for. A page of 2 is exceeded by the 4 assets two runs
over 2 symbols make, in lists and in searches; `clock` is bounded by the number of creates. Symmetry is
used in safety runs only. `CHECK_DEADLOCK FALSE` appears in `start_stop`, where
the service stops for good, and in `seeding`, where every run ends.

Fairness. `RelationshipGraph` and `CachedRepository`: weak fairness of each
handler's steps - Go runs a handler that has a statement to execute, and each
statement returns. Requests themselves are not fair. `Expire` is weakly fair
because every copy is stored with a time to live (`service.go:79`).
`ServiceLifecycle`: weak fairness of `Stop` alone; each of its calls returns, the
drain by its timeout and the pool's `Close` once no connection is in use. It is
the premise of `StopEnds`, not fairness, that every request gives back the
connections it takes (`ConnectionsComeBack`); requests may hang anywhere else.
Without the premise `Stop` need not end. `AssetGroups`:
strong fairness of each handler, because connections become free and are taken
again while it waits, and the pool (pgxpool, external) serves its waiters in
turn; weak fairness of `TimeOut`, because a context's deadline passes.
`Instruments`, `Listings` and `Seeding` have no liveness property: each of their
handlers and runs goes through finitely many calls and none of them waits.

## 5. Proofs

All are for any sets of handlers, assets, types, chains, flags, ids, codes and
requests.

**Relationships.** `AcyclicAdd` is the heart: if a search from the edge's target
has collected a closed set without meeting its source, the edge closes no cycle.
`SearchInv` is what a search knows while rows come and go under it: unless it has
a gap, the assets it has expanded lead only to assets it has visited, and unless
edges were lost, what it visited is reachable. `IInv` joins it with `TypeOK`,
`ReferentialIntegrity` and `CyclesNeedAGap`; none of these is inductive alone
(inserting a row is safe only because of what the search knows). From it follow
`RowsJoinAssets`, `CheckedRowsAcyclic` and the action property `NoFalseAlarm`.
`SerialNoCycles` and `SerialRefinement` assume `Serial` (one handler at a time,
no failing statement, no asset with more edges than a page) and show that then no
search has a gap and each `Insert` is a `Relate` of `AssetGraph`, each other step
a stutter or a `Register` or `Retire`. `CheckedRefinement` needs none of these
assumptions: whatever overlaps, fails and is cut, the rows that are not
`unchecked` implement `AssetGraph` among themselves, because a search without a
gap saw a closed set of all rows and hence of the checked ones (`ClosedSubset`).
`ImplementsCheckedGraph`, which it proves, is checked in `relationship_race`; the
serial theorems are not run. `GraphCorrect` is the abstract registry's own invariant.

**Cache.** `ReadInv` (a reader about to store a copy that was not overtaken holds
the current row) and `CreateInv` (a created asset is created once, under a new id)
strengthen `StaleCopiesExplained`. `StalenessHasACause` and `DeletionIsFinal`
follow; the latter because an UPDATE changes no row that is gone and a create
never draws an old id. `AloneReadsCurrent` assumes one handler and no faults, and any
chains: a read of an asset returns its current row, and a read of a chain does
unless the chain's native asset has been deleted. The exception is needed (TLC
finds a counterexample without it): `Orphaned` chains are then all that is ever
tainted, and stay what they are because a deleted asset is never written again.

**Flags.** `NoOrphanFlags` rests on the foreign key alone, `OneResolution` and
`ResolutionsAreFinal` on the `resolved_at IS NULL` of the UPDATE, `StopsLast` on
that an INSERT replaces no flag and a flag goes only with its asset.

**Instruments.** `OwnBase` is the strengthening: a create past its base row has a
row under its id, without a subtype, that no other create works on. It is
inductive with `KeysUnique` (both keys of the table are unique), `BasesExplained`
and `LeftoversStand` (what a failed create leaves is still there, without a
subtype), and not without them: that an instrument is of one
kind says nothing of the next `InsertSubtype` unless its base row is known to be
the create's own. `RegistryRefinement` rests on it too: an `InsertSubtype` adds
exactly one instrument to the join, and every other step adds none, because a
base row that is new has no subtype yet. `RegistryCorrect` is the registry's own
invariant (no id or code twice, assets registered), and `ListedInstrumentsSound`
and `ListedInstrumentsStay` carry it and the permanence of what is listed over to
the creates, through the refinement alone.

**Listings.** `RowsStay` (a row is in its table unless one of its assets is
deleted) carries the others: with `ReferencesExist` and the unique keys of the
rows in the tables it is inductive, and `NamesHaveOneOwner` follows, because of
two rows with a common key at least one has left. `ResolutionsLast` is the action
property from the same invariant.

**Groups.** `OnRoute` (a handler is at a stage its operation goes through) and
`ReadersKnow` (what a reader remembers: a membership that was there all the time
is there now, one that is there now has been seen, and nobody else remembers any)
make `TypeOK`, `MembersExist` and `ListingsHonest` inductive. `TypeOK` holds the
argument about the pool: `held` is exactly the handlers at a stage that keeps a
connection (`Keeps`), which needs `OnRoute`, and no more than `PoolSize`, because
a handler enters `held` only while a connection is free. `ListingsInBounds` is
the one that says most: a listing of many queries lies between the memberships
that were there throughout and those that were there at some time.
`MembershipsEndOnPurpose` is the action property from the same invariant.

**Seeding.** A run uses at most one call for a symbol (`IsTaken`), so that the
clock counts no more than the pairs in `Used` (`ClockCountsCalls`: a call that
begins adds a new pair to a finite set), which is the bound in `TypeOK`.
`AssetsAreTaken` says that an asset of a run is one whose call is used and is not
the one about to be inserted: without it `OncePerRun` says nothing of the next
`InsertAsset`. `InsertsAreNeeded` carries what a search has found over to the
insert, which other runs may precede: if the symbol was there before the run, the
answer that missed it was cut or failed. `HomesFit` does the same from the list of
a `file` run to its deployments. These hold because rows are only added and a run's
history is fixed at its start. `Symbols` and `Runs` are finite; the page size, the
matches of a search and the order of the runs are arbitrary. `AssetsBounded`
turns `OncePerRun` into an injection of the assets into runs and symbols, so that
a page as large as that is never cut, and `RoomyReruns` is what then holds without
exception: with `Roomy` (such a page, no failing call) runs that search repeat
nothing and `file` runs deploy on the oldest asset, although runs overlap and are
interrupted. Neither half of `Roomy` can be left out (on the instance of `seeding`
TLC finds a counterexample without either), and the shipped page of 50 is small
for it.

**Lifecycle.** `OpenAt` (what is open at each step) and `Quiet` (no request is in
flight before the gRPC server starts, nor after it is drained) make
`RequestsAreDrained` inductive: that a request finds everything open says nothing
about the next step unless it is known where Start or Stop is. `Published`
(an event belongs to a request that is past its write) adds what
`RefusedEventsOutlive` needs: after `CloseBus` only requests that were answered,
or given up, have an event left. `StoppedForGood` rests on `OpenAt`: no statement
gets a connection of a closed pool, so that none runs after `AwaitConnections`.

The proofs assume the `ASSUME`s of the modules (relations between constants,
which TLC evaluates in every run) and the conditions named in a theorem.

`SearchesKnow` states `SearchInv` itself.

**Only model-checked**: the liveness properties `RequestsAreAnswered` (of
relationships and of groups), `Converges` and `StopEnds`, because the prover
handles neither fairness nor ENABLED; and `InvalidatedByUpdates`, `NoCycles` and
`RefusedCreatesNothing`, where they fail.

## 6. Not modelled

- Venues and venue assets. `CreateVenue` of the server sets no id
  (`server/server.go:670`) and the manager requires one
  (`manager/venue.go:147`); the INSERT of a venue asset names columns that
  migration 11 does not create (`repository/venue_asset.go:76`). Neither
  operation gets as far as a row; a model of what they would do then is
  `Listings`, and of their copies `CachedRepository`.
- Which columns an UpdateAsset writes. Rows are versions. By reading: it writes
  every column, although nil fields "are not updated" (`server/server.go:128`).
- Checks of a request's shape (`manager/validation.go`), which refuse before any
  state is read, except those of instruments, which run after a write.
- Listings and searches, except those a modelled decision rests on: plain SELECTs.
- The CoinGecko and Coinbase clients and the conversion of their data, the contents
  of the seed files (`bootstrap_data/deployments.json` names a chain `dogecoin` that
  is not in `chains.json`; `SeedDeployment` skips it), dry runs.
- Metrics, logging, health endpoints, configuration, migrations as such.
- Duplicate delivery by JetStream and its consumers, which are not in this
  repository.

Further disagreements between documentation and code. No run asserts either side
of these; the properties are stated so that they hold whichever is put right.

- `Stop` closes the bus without waiting for the goroutines that publish, where
  `service/service.go:191` says "flush pending events". Besides, a publisher uses
  the context of its request, which is cancelled with the answer
  (`manager/events.go:52`). `BusOutlivesRequests` says how far events are safe;
  no property says that they are published.
- A rollback of `WithTransaction` undoes nothing, where `repository/postgres.go:24`
  says "the transaction is rolled back". `MembershipsLast` excepts what a failed
  transaction made.
- A `search` run takes the first result for the asset to deploy on, whatever its
  symbol, where `bootstrap/seeder/deployment.go:110` says "should be exact symbol
  match": a search for ETH ends on the newest asset that mentions it.
  `DeploymentsFindHome` is about `file` runs only.
- DeleteAsset is documented as a soft delete that keeps foreign key relationships
  intact (`docs/API.md:170`, `185`, `186`, `server/server.go:156`), and
  `test/integration/asset_test.go:210` expects it to fail for an asset with
  deployments and relationships. It is a DELETE, which the schema cascades to both
  and which only markets and instruments refuse. `RowsStay` and `MembershipsLast`
  are about rows whose assets are still there.
- Critical flags are documented to block trading (`docs/API.md:963`), and nothing
  calls `IsAssetTradeable`.
