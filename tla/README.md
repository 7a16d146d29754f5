# memgw in TLA+

A verification project for memgw: a gateway that puts one API in front of several
AI memory providers (pgvector, Mem0, Zep), pins each end-user to one of them, and
keeps a catalog of which memory is where.  Paths below are relative to the
repository; `core.py` stands for `src/memgw/core.py`, and so on.

Run a model with `tlc -config <run>.cfg <module>.tla`, a proof with
`tlapm <module>.tla`; the runs are listed in `PROJECT.json` and below.

## 1. The system

### Components

| Component | Code | State it keeps | Operations | Model |
|---|---|---|---|---|
| MemoryCore | `core.py` | none of its own; the locals of a verb across its awaits | ingest, upsert, update, search, list_scope, get, delete, delete_scope, rebind | `Gateway` |
| Catalog, ids | `catalog.py` `_map`, `new_id` | `memory_index`: (tenant, provider, native id) → gateway id, scope, deleted or not; the last id minted | record_many, ensure_many, resolve_gateway_id | `CatalogMap`, `IdMap`, `Ids` |
| Catalog, the rest | `catalog.py` | `scope_binding`: end-user → provider; `episode_journal`: raw episodes; deletion marks | bind, rebind, live_count, mark_deleted, mark_scope_deleted, journal, delete_journal | `Gateway`; the row locks of the deletion marks in `CatalogMap` |
| Schema | `catalog.py`, `migrations/`, `cli.py`, `settings.py` | the tables, the revision | init, upgrade, schema_state as run by serve, doctor, migrate, the embedded client | `Schema` |
| Provider resolution | `router.py` | none | binding, else default; a named provider is an assertion | `Gateway!Resolved`, `Asserts` |
| Scopes | `types.py` | none | a scope, its tenant stamp, the filters made of it | `Scopes` |
| Degradation | `degrade.py`, `capabilities.py` | none | capability guards; how well a search is served | guards in `Gateway`; the mode matrix is not modelled |
| Adapters | `adapters/*.py` | the provider's store; Zep: `_known_users` | store, serve, remove | as one provider in `Gateway`; what changes something in `Mem0` and `Zep` |
| HTTP server | `server/*.py` | none | endpoints = verbs; tenant = the credential's | requests of `Gateway`, the second read of the binding (`NameProvider`) |
| Client library | `client.py` | a lazily built core and its lock | the same verbs; start, close | `Client`; start order in `Schema` |
| Command line, settings | `cli.py`, `settings.py` | none | serve, doctor, migrate | `Schema`; the default provider is a constant of `Gateway` |
| Embedders, observability, errors, registry | | none that matters | | not modelled |

### How they interact

A request enters through the HTTP server or the client library with the tenant of
its credential.  The core resolves the end-user's provider (a read of
`scope_binding`), calls **one** adapter, and brings the catalog up to date in one or
more transactions of its own.  Nothing spans the two stores: no lock, no common
transaction, no compensation.  Every await is a point where other requests run; any
number of processes may serve the same catalog, each with its own settings.  The
catalog's unique key on (tenant, provider, native id) and its primary keys are the
only arbiters of concurrency.

### What is hard here

- **Two stores, no transaction.** A write stores at the provider, then maps, then
  binds, then journals; an erasure removes at the provider, then marks, then erases
  the journal.  Each may fail or die between any two steps, and each may be
  interleaved with the others.
- **Optimistic mapping.** `_map` reads, inserts and retries against concurrent
  writers; it must converge on one id for each memory, and reads must not revive
  what writes do.
- **Stale decisions.** The provider is resolved before the provider call and bound
  after it; `rebind` counts in one transaction and swaps in another.
- **Providers that are not stores.** They lag (serve what they deleted), deduplicate
  (answer a write with an old id), and fail after having done part of the work.
- **Unsynchronised starts.** Every process initialises the schema; several do so at
  once, and the adapter's table may share the database.
- **Verbs that are many calls.** An erasure at Mem0 lists and deletes page by page and
  an upsert adds fact by fact, while other requests write and delete.
- **Memories of another system's state.** Each process remembers which Zep users exist,
  and other processes delete them.
- **A lazy start in the callers' hands.** First calls race for one lock, may fail or be
  cancelled at any await, and `close`, which may fail as well, does not take the lock.

The hazards are listed in `PROJECT.json`, each at its line.

### What makes each component correct

- *Ids*: creation order is id order, and no id is given out twice, as far as the clock allows.
- *Mapping*: a memory has one gateway id for ever; an id that was answered is the id
  that is stored; only writes revive; a lost race is retried inside;
  every call ends.
- *Verbs*: an acknowledged write can be read, its end-user is bound, and to the
  provider it went to; an acknowledged erasure leaves no memory, row or transcript in
  its scope; tombstones stand for memories that are gone; a row is filed no narrower
  than its memory; no request reaches another tenant.
- *Binding*: moved by rebind only, and rebind says how much it strands.  Where requests
  overlap, a write that goes astray, a response that names the wrong provider and a wrong
  count each have a cause in flight beside them.
- *Schema*: whoever serves does so over the tables the code expects; a half-done
  start locks nobody out.
- *Mem0*: an erasure that answers leaves nothing it was asked to erase, counts nothing
  that did not go, and ends; an answered update was applied.
- *Zep*: what a process remembers of users is true, a write fails for a reason, a probe
  leaves nothing behind and ends.
- *Client*: one core between two closes, no engine lost, no verb stuck at the lock.

## 2. The modules

```
Ids          IdsProofs           MCIds
IdMap  <=refines=  CatalogMap    MCCatalogMap   CatalogMapProofs
       <=refines=  Gateway       MCGateway      GatewayProofs <-extends- VerbProofs
Scopes <-extends-  Gateway
       <-extends-  Mem0          MCMem0         Mem0Proofs
Zep          ZepProofs           MCZep
Schema       SchemaProofs        MCSchema
Client       ClientProofs        (Client.cfg)
```

**`Ids`** — `new_id`.  The two module globals are `last_ms` and `last_rand`; a call
is one action because `_id_lock` is held throughout.  An id is the pair the string
encodes; `_b32` keeps the low digits of what it prints, so `Printed` reduces the
random part modulo its range.  The clock is the operating system's: `Tick` moves it
forward and back by any amount.

**`IdMap`** — what the catalog promises of ids, one step per effect (`Publish`,
`Bury`).  It is the joint of the two models of the catalog: `CatalogMap` shows that
`_map` keeps the promise statement by statement, and `Gateway` (`Rows`) that the
verbs ask nothing of the rows but what was promised.

**`CatalogMap`** — `Catalog._map` statement by statement.  A call goes through
`Find` (`_find_by_native`), `InsertRow` for each missing native (`_insert`),
`ReviveRow` for each deleted one (`_revive`), `Commit`; `LoseRace` is the
`IntegrityError` and the retry, `Abort` the death of the request.  Uncommitted rows
are in `mine` and `revived`.  What the database does is external and modelled from
PostgreSQL's rules at READ COMMITTED: an insert waits for the transaction that holds
the same key (`WaitsFor`), and a cycle of waits is broken by aborting one
(`BreakDeadlock`).  `gated` is the in-memory catalog, whose transactions hold
`_gate`.  Two deletions run beside the calls: `MarkDeleted`, one update of one row, and
`mark_scope_deleted`, one update of many.  The latter is as many steps as it has rows:
`FindScope` is what the statement finds, `SweepRow` reaches one of them, in any order, waits for
whoever holds it and looks at it again, `CommitSweep` ends the transaction and `AbortSweep` is the death of
the request or the database's choice of a victim.

**`Scopes`** — a scope and the two filters made from it: the catalog's, which knows
nothing of labels (`SelectsRow`), and the provider's (`Selects`, from pgvector).
`agent` and `session` are treated alike everywhere and are one dimension here.

**`Gateway`** — the verbs over catalog and providers.  A worker's `pc` is the await
it is suspended at and `req` the locals that survive it:

| `pc` | await in `core.py` | action |
|---|---|---|
| `idle` | — | `Prepare` (`_prepare`), `FetchRow` (`_row`), `RebindRead` |
| `call` | the adapter | `WriteCall`, `UpdateCall`, `ReadCall`, `GetCall`, `DeleteCall`, `CallFails` |
| `record` | `record_many`, `record` | `Record` |
| `bind` | `bind` | `Bind` |
| `journal` | `journal` | `Journal` |
| `map` | `ensure_many` | `MapHits` |
| `mark` | `mark_deleted`, `mark_scope_deleted` | `Mark` |
| `erase` | `delete_journal` | `EraseJournal` |
| `name` | the routes' read of the binding for the response of list and delete | `NameProvider` |
| `count`, `swap` | the second and third transaction of `rebind` | `CountOrphans`, `SwapBinding` |
| `done` | the response | `Reply` |

`CallFails` covers timeouts, refusals and partly done work; `Abort` the death of the
request at any await.  `held`, `gone` and `memScope` are the providers' stores.

`beside` is history: for each request, the verbs that were in flight beside it and may change
what it read (`Disturbs`) -- rebinds of its end-user, writes of them under another default, and
for a rebind also whatever files or hides their rows.  Three properties of `Spec` say that a
write that went astray, a response that names the wrong provider and a wrong count have
such a cause.

`Spec` lets requests overlap in any way.  What erasures and writes promise of each other's
memories holds only where certain requests about one end-user do not overlap, which the code
leaves to its callers.  `ErasuresApartSpec` says which, by pairs of verbs (`Apart`): `delete_scope`
from writes, `update`, `search` and `list_scope`; `delete` from writes and `update`.  Other
verbs, other end-users, failures and deaths are as in `Spec`.

Abstractions a reader should know of:

- A memory is (provider, native id); the catalog's key also has the tenant.  They
  agree because no provider answers one tenant with another's memories, which is
  `RequestsStayInTheirTenant`.
- A catalog transaction is atomic here; for the largest, `_map`, `CatalogMap` is the
  justification: it refines `IdMap`, whose steps are the atomic ones.
- `bind` and the last transaction of `rebind` are each one transaction in the code; an `IntegrityError` between two rebinds ends the request
  like `Abort`.
- A page with the same native twice is one memory of the set; such a page makes
  `_insert` conflict with itself, is retried and finally raised in the code, and is
  left out.
- pgvector reads the labelled rows and then deletes them by id in a second
  transaction; the pair is one step.
- An adapter that `update`s under a new native id does not exist in `src/`.

**`Schema`** — a database (`tables`, `stamped`, and `foreign`: the adapter's table)
and the processes started on it.  `Plan`/`CreateAll`/`CreateOne` are `create_all`
and the migration, `IsVersioned`/`Stamp`/`InsertRevision` the adoption and stamping
of a database, `Check` what doctor and serve decide, `BuildAdapter` and `CreateAdapter` how the
pgvector adapter looks for its table and makes it, or loses the race for it.  `transactional` is PostgreSQL; without it (SQLite) each table is a
step.  There is one revision at this commit, so a database is at it or at none.

**`Mem0`** — what `WriteCall`, `UpdateCall` and `DeleteCall` of `Gateway` are at the
Mem0 adapter, one step per call of the service: `AddFact` for each fact of an upsert,
`Update` and the `GetBack` that verifies it, and for `delete_scope` a `List` of at
most `PAGE` and a `DeleteNext` for each memory on it.  `Fail` is a call that is refused,
or whose answer is lost, between any two.  `eventual` says whether the listing lags,
as the adapter declares of the hosted service; `Settle` lets it catch up.  A memory may
have no text (`blank`), and `_to_memories` drops those from a page.  `began`, `passed`,
`hidden` and `applied` are history for the properties.

**`Zep`** — the adapter's `_known_users` in each of several processes over one service.
A write is `Upsert`, then `UserAdd`/`UserAdded` if the process does not know the user, then
an `Add` for each fact; an erasure `UserDelete`/`UserDeleted`.  Where what is
remembered depends on the answer, the call's effect and its answer are two
steps, so that others come in between and the answer can be lost.  `user.add` creates the
user (`Create`) or is refused (`RefuseUser`), and `IsConflict` decides what a refusal
means: any 400, and any message with "exist" in it, passes for "it is there already".
`graph.add` is refused for want of a user (`Refused`), or carried out and answered (`Stored`),
or carried out and not answered, or answered without an id (`Unanswered`).  `SelfTest` is
`doctor --probe`: a user of its own, a write, `Poll` until processed or the `Deadline`, and
`Cleanup` on every path.  `builds` says whether Zep ever processes an episode.
`outdated` (who may know a user that was deleted), `mistaken` (who took a refusal for a user),
`lost`, `overlapped` and `stranded` record the causes the properties name; the first two
are cleared as soon as somebody creates the user, so they excuse nothing after that.

**`Client`** — `_started` and `close` of the embedded client as coroutines of one event
loop, one step between two awaits.  The lock is asyncio's: FIFO, and taken at once when
it is free and nobody waits.  An engine (adapter, catalog, core) is named by the call that built
it; `openAdapters` and `openCatalogs` are those with connections, `epoch` counts the times
`close` forgot the core.  `FailStart` is a failing or cancelled start, `GiveUp` a
coroutine cancelled while it waits, `FailClose` a close that is cancelled, or whose catalog or
adapter raises, with the connections closed or not; `unclosed` are the adapters this happened to.

## 3. The runs

| Run | Instance | Shows |
|---|---|---|
| `ids` | a clock to 4 that moves forward and back, a low and a high seed, 5 ids, the random part modulo 9 | ids sort in the order they were minted, inside and across milliseconds, unless the clock was set back between them |
| `map` | 3 calls, 2 natives, deletions of a row and of a scope, pages ranked alike (`Alike`) and crossed (`Crossed`), gate on and off, fair | `CatalogMap` implements `IdMap`; answers are stored ids; only writes revive; short pages get through; pages ranked alike do not deadlock unless with an erasure by scope, as whoever waits waits for somebody who can go on; a lost attempt is paid for by a committed row; none is lost behind the gate; every call ends |
| `sequential` | all nine verbs, 1 worker, deaths and failures anywhere; of the 2 providers one lags, the other answers writes with ids it had deleted | erasure complete, no transcript outlives it, tombstones honest, writes live and where reads look, rows back only with their memories |
| `concurrent` | 2 workers, 2 tenants with one end-user name, broad and narrow scopes, a lagging provider | row scopes cover memories, tombstones honest, tenants apart, reads revive nothing, rows appear, hide and return as `IdMap` says |
| `binding` | 2 workers with different defaults, 2 providers of different capabilities; `ingest`, `upsert`, `list_scope`, `delete`, `rebind` | acknowledged writes are bound, only rebind moves a binding; writes go astray, responses misname and rebinds miscount only beside a request that can cause it |
| `schema` | a server, an unchecked one and a migration, 2 tables, 2 deaths, fair | nobody serves without the schema; both servers end up serving, whatever race they lose |
| `client` | 3 first calls and 2 closes of one client, all failing and cancelled anywhere, fair | one core between two closes, no engine lost unless a close overlaps a verb, a start fails or an adapter does not close, no verb waits for ever |
| `mem0` | 4 natives of which a full page of 2 is stored, with and without a session; an erasure beside any other verb or a second erasure; the listing immediate or lagging, fair | erasures drain, count only what went, and end; answered updates were applied |
| `zep` | 1 end-user, 2 episodes, 2 processes, 3 workers that write, erase and probe, 2 facts, every kind of refusal, fair | what a process knows is true or misled by a named cause, until somebody creates the user; writes fail for a reason; a probe leaves nothing and ends |

The type invariants of `Ids`, `Schema`, `Client`, `Mem0` and `Zep` are proved (section 4)
and not run.  `sequential` is `Spec` with one worker, hence an instance of `ErasuresApartSpec`
as well: with nothing to overlap they are the same.

What two workers do under `ErasuresApartSpec` is proved (section 4); TLC agreed before, with
one end-user, all capabilities and up to the symmetry of workers and natives, of
`AckedWriteIsLive`, `ErasureIsComplete`, `NoTranscriptOutlivesErasure`, `TombstoneMeansGone` and
`RevivedMeansBack` under `ingest`, `search`, `update`, `delete` and `delete_scope`, with a session
or none: 1,042,736 states over one provider that lags with 2 natives, 97,189 with 1 native that is
reused.  And no pair of verbs can be left out: on instances of this size with the verbs of the pair,
TLC refutes `ErasureIsComplete` without any one pair of `ErasuresApart`.

Violations, each a disagreement between the code and something it says of itself:

| Run | What happens | Against |
|---|---|---|
| `labels` | `delete_scope` with a label removes the labelled memories, then marks *every* row of the scope deleted: the others are held and hidden for good | `_GONE` "marks a native id the gateway has seen and deleted" (`catalog.py:95`) |
| `transcript` | an erasure between the provider call and the journal entry of an ingest leaves the raw episode | "the raw transcript outlived the erasure it was supposed to honour" (`tests/test_audit_fixes.py:130`) |
| `rolling_deploy` | two first writes of an end-user on workers with different defaults; the second to bind is acknowledged where no read looks | README, "the nastiest failure in this system" |

### Why the bounds are enough

- *One native per provider* in `sequential`, *two* elsewhere: the properties relate a
  memory to its row, and two rows only through a scope.  Two natives give a row
  inside and one outside a filter.  Natives are interchangeable, so they are a
  symmetry set in the safety runs with two of them.
- *Two workers*: every race named in the hazards is between two requests.  A rebind in
  `binding` meets a write, a listing, a deletion or another rebind between any two of its transactions.
- *Three calls, two natives* in `CatalogMap`: a call can lose to two different writers,
  and wait for one while it holds what the other waits for.  An attempt is lost only
  to a row somebody committed (`LostOnlyToCommittedRows`), so a page of two natives
  cannot exhaust three attempts; that is a fact about short pages and not about the
  code, and `RaceStaysInside` says so.  One erasure by scope is under way at a time; that two of
  them may wait for each other is no matter of `_map`.
- *Pages that rank memories alike* (`Alike`, three of two natives: one inserts,
  one revives what was deleted since, and an erasure by scope meets the third) and crosswise (`Crossed`): the first are
  what one provider returns for one end-user, the second what two searches may; they
  deadlock, so `RaceStaysInside` forbids it for the first only.
- *`PAGE = 2` and two of it stored* in `mem0`: a full page is followed by a second listing,
  which is empty, or not where somebody wrote meanwhile; two more natives to be written.
  Every worker serves one verb, so two of them give each pair of verbs every interleaving.
  `CountCap = 4` is above what can be deleted.
- *Three workers, two processes* in `zep`: one writes or erases, one beside it in the same
  process writes or probes, one erases from the other.  Workers serve any number of
  verbs one after the other, so a write can come after the erasure that misled its process.
  A probe has a user of its own, hence one for each worker.
- *Three calls, two closes* in `client`: one builds, one waits, one comes when the lock is
  being handed over; the second close meets the first.
- *Deaths* are unbounded in `Gateway` and `CatalogMap` and bounded by two in `Schema`,
  where a process can be started again after each.

### Fairness

- `Gateway`: none.  Whether a request is answered is up to the provider, whose calls the core
  awaits without a timeout (`core.py:439`).
- `CatalogMap`: strong fairness of each call's `Step`, which includes the database's
  deadlock detector, and weak fairness of an erasure's `Sweep`.  Strong, because erasures may take and release the row a
  call waits for again and again: PostgreSQL queues those who wait for a row, so a call whose
  turn it is gets it.
- `Schema`: weak fairness of every process that has been started, and of `Launch` for
  servers, whose supervisor restarts them.  Migrations are run by hand and owe nothing.
- `Mem0`: weak fairness of each worker's `Step` (calls return or fail) and of `Settle` (a
  listing catches up with what is no longer changed).  Writers beside an erasure are finitely
  many, as each worker serves one verb: against endless writes it need not end.
- `Zep`: weak fairness of each worker's `Step` and `Deadline`: calls are answered and time
  passes.  Nothing says that Zep processes an episode.
- `Client`: weak fairness of each coroutine's own steps.  Inits and disposals succeed or raise, since
  a database or provider that does not answer is given up, and the lock's queue is FIFO.  Nobody has to
  call, close or cancel.

### Known to fail without a run

Met while modelling.  Those of a run are reproducible by changing one constant
or one property of it:

- `ids` without `NotSetBack`: after the clock is set back, ids sort before
  older ones, though `new_id` speaks of a stable chronology.
- `map` with a property that no call ends in `"deadlock"`: two pages that rank
  the same two unseen memories in opposite orders deadlock in PostgreSQL.  The error is
  not an `IntegrityError`, so `_map` does not retry it and the caller gets a 500, which
  its docstring rules out (`catalog.py:423-424`).
- `map` without `WaitsForSweep` in `RaceStaysInside`: the same with pages that agree.  Two writes
  are answered with the deleted memories *a* and *b*; the first revives both and commits, an
  erasure by scope marks *b* and goes for *a*, which the second has updated before it goes for *b*.
  Neither the erasure nor the write is retried.
- `map` with four calls, three natives and a property that no call ends in
  `"conflict"`: a page of three unseen natives loses its three attempts to three
  writers that commit one of them each.
- `concurrent` with `RevivedMeansBack`: update calls the provider, a delete removes
  and marks the memory, update records through the reviving path: a live row for a
  memory that is gone.
- `concurrent` with `delete_scope` in `Verbs`: an upsert stores after the provider's part of
  an erasure and is recorded before `mark_scope_deleted`, which buries the row of a memory
  that is held; the caller of the write was told it succeeded.
- `binding` without `Met` in any of the three properties that speak of it: a write recorded between
  the count and the swap of a rebind is stranded and not counted, one deleted there is counted and not stranded; a rebind between
  a deletion by scope or a listing and the second read of the binding makes the response name a provider
  nothing was asked of; a write resolved before a rebind goes where no read looks.
- `schema` with a migration that must succeed: on a catalog older than migrations, or
  one whose first start died between `create_all` and the stamp, `memgw migrate` runs
  the first migration over existing tables and fails, although `init` says that it
  "resolves it" (`catalog.py:258-259`).  Starting a server or `memgw doctor` repairs it —
  the latter although the README says doctor "reads, never writes".
- `schema` with the commands `"serve"` and `"probe"`: a `doctor --probe` that cannot open the
  catalog goes on to build the adapter's table in the shared database; the next init takes
  that for a catalog older than migrations ("They match the first revision",
  `catalog.py:267`) and stamps it, so servers run without tables ever after.
- `mem0` without `~eventual` in `ErasureDrains`: a listing that lags shows a short page, the
  erasure is acknowledged and memories remain, although `delete_scope` "drains and then
  verifies" (`mem0.py:193`); nothing is verified.
- `mem0` without `~hidden[w]`: a memory updated to no text is dropped from its page, is not
  erased, and makes a full page look short, so the pages after it are not erased either.
- The filters of the Mem0 adapter leave labels out (`mem0.py:50-56`) while it declares
  `supports_labels=True` (`mem0.py:95`): an erasure by label removes all of the scope.
- `zep` without `outdated` in either property: a process that knows a user another process
  erased, or whose own erasure was overtaken by an answer or lost one, skips `user.add`
  from then on, and every write of it for that user fails until some other process creates
  the user again or it restarts.
- `zep` without `mistaken` in either property: Zep refuses `user.add` with a 400, or a message
  that says the project does not exist; `_is_conflict` (`zep.py:318-319`) takes that for a user
  that is there already, the process remembers it, and every write it serves for that user fails at
  `graph.add` from then on.
- `sequential` with two workers and a search that overlaps an erasure by scope: the search
  has a hit whose write died before it was recorded, the erasure removes the memory and
  marks the rows there are, and the search then files a live row for it.
- An erasure at Zep that is retried after its answer was lost meets no user and raises, so
  the core never gets to mark the rows and erase the journal.
- Zep answers writes with the id of the episode, while get and delete look ids up among
  the edges: an id from a write is not found by them.
- `client` without `overlapped` in `NoEngineIsLost`: `close` awaits the catalog of one
  engine and then clears what a start has set meanwhile; an engine being built when
  `close` runs is never disposed of.  Without `failed`: a start whose catalog does not come up
  leaves the adapter's engine open, and the next builds another.  Without `unclosed`: the catalog
  is closed, `adapter.close` raises or is cancelled (`client.py:250`), and the next start
  overwrites the adapter (`client.py:272`) with its connections open.  No overlap, no failed start.
- `schema` on SQLite (`~transactional`): a process that dies between two tables leaves a
  part of the schema, and the next start stamps it as head.  The property therefore
  asks for all tables only where DDL is transactional.

## 4. The proofs

All theorems hold for every value of the constants that satisfies the module's
assumption; none is by induction over data.  Each is the usual argument: a named
invariant holds initially, is preserved by every action (a lemma or a step for each), and
implies the property.

**`IdsProofs`** — `IdsAreChronological`, however the clock moves.
`Chronological` is not inductive: it says nothing of the globals the next id is made
from.  The invariant adds that the globals are the parts of the last id, and that `last_rand` leaves
room for the ids still to be minted, which with `IdsAssumption` (a burst does not run past the
random part) makes `Printed` the identity where it matters: what is printed is what was minted.  A new
id is then after the last one unless the clock is behind it, and after all those before it by
transitivity.

**`CatalogMapProofs`** — seven invariants, most on top of an earlier one.
- `Typed`: the types, that `todo` is made of positions of the page, and that attempts are
  bounded.  Part of `TypeOK` is that no two open transactions hold one key, which is what
  makes a commit overwrite nothing.  Gives `TypeCorrect`.
- `Known`: an id a transaction knows is stored or was minted for an uncommitted row of its
  own (`Reads`), what it minted nobody else has, and answers are stored.  Gives `AnswersAreStored`.
- `Revivals`: only writes have revived rows, and of their own page.  Gives `ReadsReviveNothing`
  and, with `MarkedAreLive` (what an erasure by scope has marked was live and is locked), the
  refinement `ImplementsIdMap`: `Commit` maps to `IdMap!Publish`, `MarkDeleted` and `CommitSweep` to
  `Bury`, every other step to a stutter.
- `Losses`: a call that has lost *n* attempts has at least *n* committed rows on its page, its
  next transaction has read as many, and it still inserts only what it has not read.  Gives `LossesArePaidFor`, and by counting
  `ShortPagesGetThrough`: a page shorter than the number of attempts never raises the race.
- `Gate`: behind the gate there is one transaction at a time, none was lost, and nobody has
  committed what it is to insert.
  Gives `NothingIsLostBehindTheGate`.
- `OrderInv`: a transaction works off its page from the front (`InPageOrder`), so the rows it
  holds stand before the one it is at (`StandBefore`).  Where pages rank what they share alike, ranks therefore go up along the waits
  (`WaitsGoUp`), no update waits for an insert, and a finite set has no endless ascent
  (`NoEndlessAscent`, by the library's minimum of a well-founded relation and not by
  induction).  Hence no calls wait for each other in a circle, and `WaitsEnd`: unless somebody waits for an erasure by scope, whoever
  waits for a row waits in the end for a transaction that can go on.  With
  `ShortPagesGetThrough` that gives `RacesStayInside`, for any number of calls.

**`GatewayProofs`**
- `TypeCorrect` — `Spec ⇒ □TypeOK`, one step for each action; disjointness of `live`
  and `buried`, of `held` and `gone` is part of it.
- `AckedWritesAreBound` — `Spec ⇒ □AckedWriteIsBound`.  By itself it is not inductive, since it
  speaks only of requests that are done.  `BindingInv` adds `VerbsAreAtTheirAwaits` (which verbs can be at
  which await) and `WritesAreBound` (a write past `Bind` has its end-user bound, and
  bindings are never cleared).
- `BindingsMoveOnlyByRebind` — the action property, from the same invariant.
- `RowsImplementIdMap` — `Spec ⇒ RowsFollowIdMap`, the refinement: `MapRows` of a set of
  memories is `Publish` of them, `Mark` is `Bury`, all else a stutter.  What it needs of the
  state is the type invariant and that a write records what is a memory.

**`VerbProofs`** — over the same module.  The first part holds whatever is in flight.
`TenancyInv`: whatever a request has in its hands or a row stands for was issued by a
provider, and its scope *fits* that of the request or the row: one owner, and, where the
provider reuses no ids, the latter is no narrower.
- `TenantsStayApart` — no request holds a memory of another tenant.
- `RowsCoverTheirMemories` — if no provider reuses ids, rows are filed no narrower than
  their memories.  With reuse a memory can move to a wider scope than its row's.
- `TombstonesMeanGone` — without `delete_scope`, and with any number of requests. A
  request on its way to mark rows has had its memories removed.
- `ReadsReviveNothing` — `Spec ⇒ OnlyWritesRevive`.

The second part is about what writes and erasures promise, for any number of
workers and end-users.  An invariant says of each await what the verb has achieved so far.
The worker that takes a step achieves the next thing (one lemma for each conjunct:
`WriteSoFarStep`, `ErasureSoFarStep`).  Everybody
else keeps what they have, by non-interference, and this is what `ErasuresApart`
is for: a step of one end-user's request leaves the binding, rows, memories and
episodes of every other end-user as they were (`OthersUntouched`, from `TenancyInv`);
beside the same end-user's requests only deletions take anything away
(`OnlyDeletionsTakeAway`), only writes and updates put memories back (`OnlyWritesRestore`),
and what is neither a write nor files hits adds nothing (`TheRestAddsNothing`).

Under `ErasuresApartSpec`, `ErasureInv`: `WriteSoFar` (what a write stored is held, then
live, and not erased since) and `ErasureSoFar` (the provider's part is gone, then the rows', then
the journal's); of the journal that an episode is filed where its memories were written
(`EpisodesFit`), which is why an erasure by scope finds both or neither; and that an id a
caller has was given out with a row (`IdsHaveRows`).  The others keep it by `WriteStays`,
`DeletionStays` and `ErasureStays`.
- `WritesAreLive`, `RowsComeBackWithMemories`.
- `ErasuresAreComplete`, labels or not, and `TranscriptsGoWithTheirMemories`.
- `TombstonesMeanGoneWithoutLabels` — with `delete_scope`, if no scope names a label: the
  rows of a scope are then those of memories the provider's filter selected too, since rows
  fit their memories.  With labels it is false (run `labels`).

The third part is about bindings, and holds of `Spec`, whatever overlaps.  Its invariants say
what is so *or was disturbed by a verb this request has met*.  `Accompanied`: two requests in flight that
may disturb each other have met (`DisturbersAreMet`), and what was met stays met.  `Looking`: a request
that found its end-user unbound used its worker's default (`UnboundByDefault`), and the provider it has
is the one its worker would resolve now, unless it has met a binder (`WhereReadsLook`).  A step that
moves the binding belongs to a rebind or to a write of an unbound end-user; a write of the
same default binds what everybody else had resolved and disturbs nobody.
- `WritesAreWhereReadsLook`, `ResponsesNameTheProvider`.

`Counting` adds `RebindSoFar`: what a rebind read and counted is what there is, unless it has met
a binder; fewer rows than it counted only if it met a deletion, more only if it met what files rows
(`RowsComeAndGo`, over the cardinalities).
- `RebindsCountTheStranded`.

The causes are needed: a rebind beside a write refutes either of the first two without them, and the run
`rolling_deploy` does so with two writes under two defaults.

**`SchemaProofs`** — `TypeCorrect`, and `ServersFindTheSchema`: if no process builds an
adapter before it opens the catalog (`CatalogFirst`: neither the client library nor
`doctor --probe`), then `Spec ⇒ □ServesOnlyOverTheSchema`.  The invariant says that a process past
`Catalog.init` has seen the stamp, and that where DDL is transactional there are all
tables or none, and none only while nobody has stamped, built an adapter or found the
database not empty.  The premise is needed (section 3, known to fail).

**`ClientProofs`** — `TypeCorrect` (it holds the mutual exclusion: who builds holds the lock),
`OneCore`, whose invariant ties the core there is to the epoch of the verbs that took
it, and `NoEngineLost`, whose invariant says that until something overlaps a close, core and
adapter belong together except while a close is between the two or after one that failed there; an
adapter that is open and not the client's own was then left by a failed start or a failed close.

**`Mem0Proofs`** — `TypeCorrect`, `AnsweredUpdatesWereApplied`, `ErasuresDrain` and
`CountsAreOfWhatWent`, for any page size and any number of requests.  The invariant
says of an erasure at work, where the listing does not lag: what it began with and is still
held is on the page, or the page is full and there will be another listing; and what it has
counted, with the part of the page that is gone, was of its scope and is gone.

**`ZepProofs`** — `TypeCorrect`; `CacheIsTrue` and `WritesFailForAReason` from one invariant
that follows a user through the two halves of each call and a write through the erasures
that overlap it, and ties `outdated` and `mistaken` to users there are none of; the second then looks at each step
that can fail a write; `ProbesLeaveNothing` needs little more than that nobody else acts for a
probe's user.

**Only model-checked**: liveness (`EveryCallEnds`,
`EveryServerStarts`, `EveryVerbGoesOn`, `EveryErasureEnds`, `EveryProbeEnds`), which the
prover does not do.  Every other property of a passing run is a theorem.  There are no
recursive operators in the project.

## 5. Not modelled, and why

- The error envelope and authentication: responses only.  What the tenant of a
  credential is for is in `Gateway`.
- `resolve_mode` and `assert_as_of_supported`: how well a search is served; a table without
  state, which a module would repeat.
- That a request is answered at all: the steps of a verb follow one another and none waits for
  another verb's, so it is up to the provider and the database.
- The refusal of pgvector to start over a table of another dimension (`pgvector.py:174-186`): a
  configuration no start gets past; it races with nothing.
- Ranking, scores, limits: `ReadCall` returns any subset of what can be found.
- Searches, listings and health checks of Mem0 and Zep, and Zep's get and delete of an edge: one
  call each, nothing remembered.
- What Mem0's extraction does to memories there are already (it may merge or delete): it is
  up to Mem0, and `ingest` only adds here.
- A user id of Zep is a string of tenant and subject; here it is a name of the two.
- A call of Zep that times out and takes effect only after the probe has cleaned up: calls
  take effect when they are made.
- The part of an upsert at pgvector and Zep that was stored before a fact failed is
  `CallFails` in `Gateway`: stored, and recorded nowhere.
- Proxy mode of the client library: an HTTP request for each verb.
- `downgrade` of the migration: nothing in `src/` runs it.
- Embedders, logging, error codes, the registry: no state of the system depends on them.

## 6. The plan

Done, in this order: `Ids`, `IdMap` and `CatalogMap` (the ids everything else relies
on), `Scopes` and `Gateway` (the verbs), `Schema` (the starts), and their first proofs; then
`NameProvider` in `Gateway`, `Client`, `Mem0`, `Zep`, the refinement of `IdMap` and
the theorems about tenants, tombstones, adapters and verbs; then `RowsFollowIdMap`, the
deadlock and retry theorems of `CatalogMap`, and the theorems about verbs where no
more is kept apart than has to be; then erasures by scope beside `_map`, causes in place of
premises in the theorems about bindings, and the failures of `close`, of `user.add` and of the
adapter's start.

What could follow:

1. `Mem0` and `Zep` as refinements of one abstract provider whose steps are the adapter
   steps of `Gateway`; today the correspondence is stated in section 2 and the properties
   are each module's own.
2. A property of `Schema` for `memgw migrate` alone, once the migration copes with tables
   that are there.
