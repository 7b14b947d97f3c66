# uwu_database in TLA+

A formal model of `uwu_database`, a Rust library that gives an application one
handle on an SQL pool, a cache, schema migrations, tenants, feature gates and a
vector store. The modules are translated from the code under `src/src/`; line
numbers below are those of these files.

## The system

| Component | State | Operations | What makes it correct |
|---|---|---|---|
| Single-flight registry (`repo.rs:150-216`) | process-wide map key → broadcast sender | `run` | one loader per key; nobody misses the broadcast; followers get what their leader loaded |
| Cache-aside (`repo.rs:91-148`) | the cache of a `Database`, the table of the application | `cache_aside`, `cache_invalidate`, `cache_invalidate_many` | nothing older than an invalidation comes back; every request returns |
| Cache backends (`cache.rs`) | entries with an expiry (moka), or Redis, or nothing | `get`, `set`, `del`, `del_many` | an expired entry is never returned |
| Schema migrator (`migrate/mod.rs`) | the version table, the schema | `up`, `up_to`, `down`, `status`, `load_dir` | the version table tells the truth about the schema, also after an interrupted call; each version gets its own files |
| SQL pool (`sql.rs`) | connections and the transactions left open on them | `exec`, `split_sql`, the version-table statements, `build_pool`, `close` | the server executes the statements that stand in the script, in order, and what is recorded is in effect |
| Qdrant edge store (`vector/qdrant_edge_store.rs`) | map name → shard entry (ids, metadata), segments and state file on disk | `ensure_collection`, `drop_collection`, `upsert`, `delete`, `search` | a record and its number stay together through failures, restarts and other threads |
| Memory store (`vector/memory.rs`) | map name → collection | the same | the reference behaviour of a store; the bounded heap keeps the best `top_k` |
| pgvector, LanceDB (`vector/pgvector_store.rs`, `vector/lancedb_store.rs`) | tables, and a map name → distance in the process | the same | the distance used is that of the table; batches are whole; search misses nothing it should find |
| Qdrant server store (`vector/qdrant_store.rs`) | none; the collection is on the server | the same | an `ensure` that looks and then creates never replaces a collection |
| Repository, paging (`repo.rs:7-89`) | none | `has_next`, `insert_many`, `delete_many` | |
| Tenants (`tenant.rs`) | none | `cache_prefix` | tenants do not meet on a key |
| Database, features, configuration (`lib.rs`, `features.rs`, `config.rs`) | shared handles | `connect`, `close` | |

How they interact: `cache_aside` reads and writes the cache of its `Database` and
goes through the registry, which is a `static` of the process and therefore
shared by all `Database`s. `Migrator` runs scripts and keeps its version table
through `DbPool::exec`, which splits a script and gives every statement to whichever
connection of the pool is idle. `PgVectorStore` uses the same pool. The edge store is called by any
thread of the runtime and is the only component that persists anything itself.
All five vector stores implement one trait, are chosen by the configuration and
are therefore expected to answer alike.

What is hard: calls are futures that can be dropped at every await (the leader
of a flight, a fill, a migration); a cache is filled with what was read some
time ago; several instances migrate one database; scripts, the version table,
the segments and the state file are written in separate steps with a crash
possible between them; entries of the edge store outlive their collection.
PROJECT.json lists each of these hazards at its line.

## The modules

**`LoadOnce`** is what `single_flight::run` promises, without registry, channels
and lock: the calls of a key that meet form a group around one loader, whose
outcome reaches all of them at one instant. A loader that goes away takes the
promise with it.

**`SingleFlight`** is the code. A call is `out`, then `loading` and `publishing`
(leader) or `waiting` (follower), then `returned` or `dropped`. `Enter` and
`Publish` are the two critical sections of the registry mutex; `LoaderReturns`
and `Receive` end the awaits (the error of `recv`, `repo.rs:212`, cannot occur: a
sender is dropped after its message only); `Abandon` drops the future there (or the loader
panics). A channel is named by the call that made it. `Payload` and `Decoded`
are the JSON round trip: values that do not serialize, or do not read back,
reach the followers as an error. `Abstract == INSTANCE LoadOnce` gives the
refinement mapping: a follower counts as answered when its leader publishes.

**`CacheAside`** composes `SingleFlight` (`Flight == INSTANCE ...`, same
variables) with a cache per `Database`, a table whose rows only get newer, and
the requests. Every cache operation is a step; `backend` and `coalesce` choose
the cache and the feature flag at the start. An expired memory entry stays in
the map until someone looks (`Expire`, `GetExpired`, `Purge`); `Vanish` is
eviction and the time-to-live of moka or Redis; a request that is dropped in its
`set` becomes an `orphan` whose set lands later or never. `floor` and `due` are
history: the version at the last invalidation during which no request of the
key was under way, and that value when a request looked.

**`Migrator`** has runners that each hold the migrations of their release. A
call fetches the version table once and then works through `todo`: `Start`,
`Exec` per statement, `Record`; `Stop` ends it anywhere. The schema is the set
of statements in effect; statement i of a down script undoes the matching
statement of the up script, and only `Rerunnable` scripts tolerate that there is
nothing to do. `regime` says how calls are used: `rolling` (concurrent up calls,
as when instances start together) or `exclusive` (up and down, one at a time).
The code has no lock that would make other uses meaningful.

**`EdgeStore`** is one collection of the Qdrant edge store: the entry in the
map, the entries threads still hold, the directory (`segs` and `state`), the
threads. `Ensure`, `Upsert`, `Delete`, `Drop` are the first lookups; `Find`,
`MakeFound`, `MakeFails`, `Make` are `get_or_create`; `ApplyUpsert`,
`ApplyDelete` and `Persist` run under the lock of the entry; `DropDir` removes
the directory after the name is free; `Restart` is a crash. `live` are the
entries whose shard still has its files in the directory. `want` is history: the
contents a record may have by the answers given so far. The shard
(`qdrant_edge`) is external: its update either succeeds or fails as a whole,
and fails for a vector of another dimension.

**`VectorStore`** is what a vector store promises of the records of a collection,
without any of this. The `truth` of a record is what the answers leave possible:
`Try` (an upsert or a delete is executed, or fails) adds a content, `Confirm` (it
is acknowledged) leaves one. What is `found` is one of these, and
changes only for the record that is tried (`Try`), or for records in doubt when
calls are `Interrupted` by a crash or a half-deleted directory. `Store ==
INSTANCE VectorStore` in `EdgeStore` gives the refinement mapping: `truth` is `want`,
`found` is what `lookup_id` and `lookup_meta` make of the points of the open
entry, or, while none is open, of the segments and the state file (`Shown`), and
the collection is `open` while the map has an entry. It covers the calm regime;
in the racing one, where drops overlap other calls, nothing is promised of
records and the mapping is constant. Points that a crash left without a record
id are hits under their number, and records of neither module.

**`TableStore`** is one collection of the stores that keep it in a table. The
tables of pgvector, LanceDB and the Qdrant server are shared by all processes;
the map of distances of the first two is each process's own. pgvector changes
the table first and the map afterwards (`PgCreate`, `PgNote`, `PgDrop`,
`PgForget`), LanceDB the other way round (`LanceNote`, `LanceList`,
`LanceCreate`, `LanceForget`, `LanceDrop`); the server store looks and then
creates (`QdrantExists`, `QdrantCreate`), also when it could not find out. An
upsert of pgvector is a transaction of several inserts whose rows other
transactions wait for (`Ready`); LanceDB opens the table and merges the batch as
a whole; the server applies a request as a whole; the memory store works under
its lock and stops at the first record that does not fit. `Fail` ends a call at
any await, `Restart` a process. PostgreSQL's locks, LanceDB's atomic merge and
the server's one request at a time are external. `clean`, `known` and `acked`
are history: during which ensure calls no drop of the same process began, which
processes have had an Ok from such an ensure and since then begun and ended no
drop, and the batch that was last written and not deleted since.

**`VectorSearch`** is one search of each of the five stores on a collection at
rest. A vector is only its similarity to the query; metadata and filter are
functions from keys to values, of which some are scalars and some contain
others (`Within`). The memory store goes record by record (`MemoryScan`,
`MemoryPush`, `MemorySort`, with the heap's order `NoBetter`); the others ask an
engine (`PgQuery`, `LanceQuery`, `EdgeQuery`, `QdrantQuery`) and go through its
rows (`ReadRow`, `Enough`, `Answer`). The engines are external: an exact
nearest-neighbour query (`Rankings`) over the rows the store lets through, and a
reported number (`Reported`), which for LanceDB and Qdrant is either what the
code expects or what other versions report (`reports`).

**`SqlScript`** is `split_sql` over tokens (`SplitChar`, `Push`, `SplitSql`) and,
as the reference, how PostgreSQL and SQLite read a script (`LexChar`,
`Statements`). A script is *tame* if it has no quote or semicolon in a comment, no
backslash in a string, and closes its strings; it is *plain* if besides no statement
has a comment before it, or begins with `#`. **`Scripts`**
takes a migration from its files to the database: `ListEntry` and `ReadScripts`
are `load_dir`; `Up`, `Apply`, `Acquire`, `Execute` are a call to `up` whose
statements, the record last, run on connections of the pool; `Grow`, `Reap` and
`Close` open and close connections; `AppWrites` is another user of the pool.
The `open` connections have a transaction, which survives the call that opened it and may
be aborted. `Migrator` abstracts from all of this: there a statement takes
effect when it is executed.

**`Tenancy`** has the full names that `cache_prefix` makes; it has no state.

**`SingleFlightProofs`**, **`CacheAsideProofs`**, **`MigratorProofs`**,
**`EdgeStoreProofs`**, **`TableStoreProofs`**, **`VectorSearchProofs`**,
**`ScriptsProofs`**, **`TenancyProofs`** hold the proofs; **`MC*`** the model values. Operators
introduced by "A mistake" are wrong variants of the action they precede, used to
see that the properties notice.

## What is checked

| Run | Instance | Shows |
|---|---|---|
| `single_flight` | three calls of one key, one of another; a good, an unserializable and an undecodable value | types, `OneLoaderPerKey`, `NoLostWakeup`, `FollowersAgree`, refinement of `LoadOnce`, `FollowersReleased` |
| `single_flight_answered` | two calls of one key, one of another | **violated**: a dropped leader leaves its sender behind, and the key is stuck |
| `cache_aside` | three requests, all backends, with and without coalescing, two writes | types, `EntriesFresh`, `AnswersFresh` |
| `cache_aside_live` | two Databases that share the registry, without writes | `RequestsReturn` |
| `migrator` | three runners of two releases, three versions of two statements of which two can be run again, both regimes | types, `TornExplained`, `RecordedIsApplied`, `Gapless`, `Fulfilled`, `Converges` |
| `scripts` | all texts of up to four of eight tokens and of five of six; five directories, one with a script that leaves a transaction open; pools of one and two connections, disturbed or not; PostgreSQL and SQLite | types, `DirectoryLoaded`, `SplitAsRead`, `RecordedInEffect`, `BracketsHold` |
| `scripts_atomic` | two connections that nobody else uses | **violated**: half of a script between BEGIN and COMMIT is in effect |
| `scripts_executed` | one script with a comment line above its first statement | **violated**: the version is recorded, and that statement was never executed |
| `edge_store` | two threads, two records, both regimes | types, `NumbersSound`, `AckedFound`, `AckedDurable`, refinement of `VectorStore` |
| `edge_store_ensure` | two threads that ensure, with two dimensions, and drop | **violated**: both ensures of a new collection return Ok, one for the other's dimension |
| `table_store` | two threads of one process, one of another, two records, the four stores | types, `BatchesWhole`, `AckedKept`, `SearchesAsEnsured` |
| `vector_search` | five records with every metadata, two orders of similarity (one with ties, one with both signs where the distance is not l2), three filters, `top_k` of 0 to 2, the five stores | types, `HeapBest`, `HitsMatch`, `HitsBest`, `ScoresComparable` |

Bounds. Three calls on one key are the least with two followers of one leader,
and let a follower of a first leader meet a second leader; the fourth call shows
that keys do not disturb each other. `MaxVer = 2` gives a row that is older than
an invalidation and one that is newer. Three versions and two statements give
scripts with a middle, an unknown version between two known ones and a gap; the
older release lacks version 2. Two numbers (`MaxNum`) are enough for a number
that is handed out again after a delete or a crash; two contents tell an old
record from a new one; two entries let an orphan of a dropped collection live
beside its successor. In `table_store` the processes name different shapes, and
two records per batch give a transaction a middle. In `vector_search` five
records are one more than LanceDB fetches for one filtered hit, so that it can
miss one; the filters are none, a compound value and two scalars. Four tokens
are enough for a statement behind a comment, a semicolon in a string and in a
comment, and an escaped quote. Symmetry sets are model values the specifications compare
for equality only, and no run with symmetry checks liveness; of
`ImplementsVectorStore`, which has no fairness, TLC checks the initial states and
every step.
Deadlock is not checked, because calls, rows and versions run out.

Fairness. `SingleFlight` assumes that loaders return and that the runtime polls
a future that can proceed; `CacheAside` the same of every step of a request.
Nothing is assumed of new calls, of drops, expiry or writes. `Migrator` assumes
that a call proceeds and that the operator, whatever else is called, again and
again calls `up` for all there is while something is pending (`UpAll`, strong
fairness: other calls may come in between). `Converges` has the premise that
interruptions stop. It is about the migrations before the first one whose script
cannot be run again, which an interruption may leave stuck, and about
`rolling` use: where down calls are made, nothing need stay applied.

What the safety of the cache does *not* say is part of the model: a load that
began before a write and an invalidation may fill the cache after them, so
`EntriesFresh` and `AnswersFresh` are relative to the last invalidation that no
request of the key overlapped. A request that missed before a leader published
and enters the registry afterwards loads once more.

`AckedFound` and `AckedDurable` are stated for the calm regime. A drop that
overlaps other calls frees the name before it deletes the directory, and can
delete the files of the collection that was made in between; only
`NumbersSound` holds there. A delete counts as acknowledged when it had found
the record: on a collection that was not opened since the restart, `delete`
returns Ok and does nothing.

`SearchesAsEnsured` says that a process searches with the distance it asked for
once an ensure has returned Ok during which it began no drop, until a drop of its
own begins or ends, or it restarts: drops and creates of other processes and
failing ensures of other threads do not disturb it. At all other times it searches
by that distance or by cosine, never by what another process asked for. Three
things are excluded because the code is wrong there: a process that restarted and
did not ensure the collection again; one whose drop failed after LanceDB's map
forgot the distance; and an ensure that overlaps a drop of its own process, of
which both races are in the model and end with a table that is searched by cosine
(see below). Threads of one process are assumed to name one shape for the
collection.

`AckedKept` says that a batch written to a shared table is there until a delete
or a drop: no second create of a thread that found no table may replace it.

`RecordedInEffect` claims scripts without BEGIN for every pool and user, and
all scripts, also those that leave a transaction open, where there is one
connection that nobody else uses during a call; `BracketsHold` is about the
latter. On more connections, or with other users, both are false: an error of
another caller in a transaction left open turns COMMIT into ROLLBACK, and the
version is recorded all the same. A record is one of a version; the next call
sees those of the transaction it reads in, too. `SplitAsRead`, `RecordedInEffect`
and `BracketsHold` are about plain scripts. `StatementsExecuted` asks of all tame ones
what the comment on `exec` promises, that a recorded version had its statements
executed, and is violated for a statement behind a comment line. Of other scripts
nothing is said; dollar quotes, block comments and the bodies of triggers, which
`split_sql` does not know, are not in the tokens, so "tame" and "plain" are of
scripts without them. `ScoresComparable` asks of every
store that better hits come first and are scored higher, and of all but LanceDB
that they score as the memory store does; `Inverted` names the exceptions below.

What the code does against its documentation, or surprisingly, and no run shows
(a run shows one disagreement; these are excluded by the properties, constants of
the model or outside it):

* A request that follows the leader of another `Database` with the same key
  answers with that Database's row (`repo.rs:163`).
* `up` stopped inside a script leaves what was executed, against `README.md:93`
  ("事务化执行与回滚"); `TornExplained` says where that may be.
* Behind a connection whose transaction failed, COMMIT rolls back and succeeds,
  and `exec` goes on to record the version (`sql.rs:78`).
* Of two files with one version one is dropped silently (`migrate/mod.rs:198`).
* An ensure that returns Ok beside a drop of the same process may leave a collection
  whose distance is forgotten, so that searches are by cosine. pgvector: DROP TABLE,
  the ensure creates the table and notes the distance, the drop removes the entry
  (`pgvector_store.rs:138`, 128-131, 139). LanceDB: the ensure notes, the drop forgets
  and drops, the ensure creates (`lancedb_store.rs:151`, 174-180, 162-170).
* The statements on the version table are not MySQL (`sql.rs:155`).
* After a crash a point of the edge store may have no record id; search then
  returns its number (`qdrant_edge_store.rs:223`, against the comment at line 8).
* Larger scores are worse hits in the server store for l2, and for the cosine in
  one of the two Qdrant stores, against `vector/mod.rs:60` and
  the test at `qdrant_store.rs:533`: the two read the same number differently.
* The server keeps the distance of the first `ensure`, as LanceDB and pgvector
  keep the dimension (`qdrant_store.rs:78`).
* A `top_k` of zero gives one hit in the memory store and none elsewhere
  (`memory.rs:84`).

## What is proved

TLAPS proves, for any number of calls, keys, values, runners, versions, statements,
threads and records, from the `ASSUME`s of the modules and, for two theorems of
`CacheAsideProofs` and two of `ScriptsProofs`, hypotheses they state:

* `SingleFlightProofs`: `TypeOK`, `OneLoaderPerKey`, `NoLostWakeup`,
  `FollowersAgree`, and `Spec => Abstract!Spec` (`Refinement`). The inductive
  invariant `IInv` adds `LeaderRegistered` (the entry of a key is its leader, or
  one that was dropped: without it `Publish` might remove another leader's
  sender) and `InboxFromLeader` (a message that waits is the payload of a leader
  that returned: without it `FollowersAgree` says nothing about the next
  `Receive`). The refinement takes each step to `Join`, `Finish`, `Leave` or a
  stutter.
* `MigratorProofs`: `TypeOK`, `TornExplained`, `RecordedIsApplied`, `Gapless`,
  `Fulfilled`. `IInv` adds `Usage` (what the regimes exclude), `Progress` (the
  statements a script has executed are in effect, or undone), `UpOrder` and
  `DownOrder` (what is left of a snapshot against the table it was taken from:
  concurrent up calls only ever add versions, so what a runner does not have to
  do stays recorded).
* `CacheAsideProofs`: `TypeOK`, `EntriesFresh`, `AnswersFresh`. The last two
  assume `OneDbPerKey`: where loads are coalesced, the requests of one full key
  belong to one `Database`. They are false without it, because the registry is
  keyed by the full key alone and a follower fills its own cache with the row
  of its leader's `Database`. `IInv` adds `Staged` (where a request is against its
  place in the registry), `OwnKeys` (senders and subscriptions are of the
  request's own key) and `FloorsReached`; `FreshInv` adds `HandsFresh`: a value
  on its way (in a leader's hands, in a broadcast that waits, before a `set`,
  also that of a dropped request) is no older than the last undisturbed
  invalidation, because `Invalidate` moves `floor` only when nothing is on its way.
  `UsesRegistry` proves that every behaviour of the requests is one of the
  registry (`Spec => Registry!Spec`), and `OneLoader` takes the theorem of
  `SingleFlightProofs` over from there instead of proving it again.
* `EdgeStoreProofs`: `TypeOK`, `NumbersSound` (in both regimes), `AckedFound`,
  `AckedDurable`. `IInv` adds, beside where a call stands (`CallsUnderWay`), what
  holds of the calm regime: `DropsAlone`, `OpenOnDisk` (every thread holds the
  entry of the map, whose points are on the disk), `StateIsOlder` and
  `PersistsWritten`. `StateIsOlder` is the heart of the durability: the state file
  lags behind the entry, but a number below its counter means one record in
  both, so what a crash brings back never gives the number of an acknowledged
  record to another one. `SeenWasTried` is the converse of `AckedFound`: what is
  found, now or by the next process, was asked for and not replaced since. With
  the two, `ShownIsFindable` bounds what a search finds from both sides, and
  `Implementation` proves `Spec => Store!Spec`: `OthersFound` (an applied call
  touches the number of its own record only) gives the frame of `Try`, `MakeOpens`
  that opening shows exactly what is on the disk, `PersistConfirms` that what is
  acknowledged is what is found; the other steps are `DropBegins`, `DropEnds`,
  `Interrupted` or stutters. In the racing regime all steps are.
* `TableStoreProofs`: `TypeOK`, `BatchesWhole`, `AckedKept`, `SearchesAsEnsured`,
  for any batches, threads and processes. `IInv` adds `Located` (a call is where
  its store's methods go), `Asked` (a process notes only the distance it asked
  for), `CleanEnsure` (while no drop of its process has begun during an ensure of
  LanceDB, what it noted is there) and `KnownNoted` (where an ensure has returned Ok
  and no drop has begun or ended since, the distance is noted). The last two
  carry `SearchesAsEnsured` through both orders in which the stores change table
  and map.
* `VectorSearchProofs`: `TypeOK`, `HeapBest`, `HitsMatch`, `HitsBest`,
  `ScoresComparable`, for any
  collection, metadata, filter, `top_k` and whatever the engines report. `IInv`
  (in `VectorSearch`) adds `HeapSound` (before the answer the heap and the
  records still to push hold nothing but matches) and `RowsSound` (the rows are
  a ranking of what the store asked for, the hits are those read so far that
  match). The lemma `RankingFacts` says that a ranking leaves nothing out unless
  it is full, by counting; `AnswerIInv` counts the rows of LanceDB the same way.
  For the scores `HitsScored` is inductive beside it: the hits are in the order
  of similarity, each with the score its store makes of the row. It rests on
  `Possible`: an l2 similarity, a distance negated (`memory.rs:177`), is never
  positive; LanceDB may report its square, and squaring would turn the order of
  positive ones round.
* `ScriptsProofs`: `TypeOK`, of which the hard part is that the runner and the
  rest of the application never hold one connection, for a pool of any size
  whose connections are opened and closed, and `DirectoryLoaded`, for any
  directory listed in any order. `IInv` adds `Listed`, `ReadAsSeen` and
  `NothingRead`, the progress of `load_dir` through its two passes.
  `RecordsInEffect` proves `RecordedInEffect` from two hypotheses on the scripts:
  `SplitFaithful`, that `split_sql` cuts them into what SQL reads in them (which
  is what `SplitAsRead` checks of every script the run loads; the rest of it,
  `SplitShape`, unfolds `Sent` chunk by chunk, in order), and `NoneRecords`, that none
  writes to the version table. TLC evaluates `SplitShape`, `NoneRecords` and
  `Apart` of all scripts of the run, by an `ASSUME` of `MCScripts`.
  `PoolInv` is the inductive invariant: of the script that is executed each
  chunk is still to be sent or had its effects, if only in a transaction
  (`AtWork`; a pool closed under the call may take them back, but then sends
  nothing more); whatever a connection sees of the version table it sees the
  effects of, too (`RecordsFollow`: a record left in an open transaction has its
  script in the same one, or committed, so they are committed or rolled back
  together); there are no transactions without BEGIN (`NoTransaction`), and
  during a call on an undisturbed connection none is aborted (`Alone`).
  `HoldsBrackets` proves `BracketsHold` with a third hypothesis: `Apart`, that no two
  versions share a statement other than BEGIN and COMMIT, since otherwise one
  would have "half" of the other. `BracketInv` is inductive beside `PoolInv`: a
  script of which a part is there, if only in a transaction, is the first that
  is pending (`PartialFirst`); a call works through what is pending in order,
  and between a script's BEGIN and COMMIT the transaction is open (`InOrder`).
  Without the first a call might commit, with another script's COMMIT, the part
  that an earlier call left in the transaction; with it `CommitsWhole` shows
  that this COMMIT is the script's own, behind all its chunks.
* `TenancyProofs`: `PrefixInjective`, tenants whose ids have no colon never
  share a full name, and `ColonsMeet`, ids with one do.

Only model-checked:

* The liveness properties `FollowersReleased`, `RequestsReturn` and `Converges`:
  fairness and `ENABLED` are beyond the prover.
* `SplitAsRead`: `split_sql` and the way SQL reads a script are folds over the
  text, and what a fold computes for every text needs induction over data. The
  run has all texts of up to four of eight tokens and of five of six.

## What is not modelled

* Time spans and capacities of the caches, the pool of Redis.
* The text of SQL, MySQL, and the index statements of pgvector and LanceDB, which
  change the precision of an answer.
* Floating-point numbers: a similarity is an integer, and NaN, which the heap
  takes for equal to everything, does not occur. Allocation: a huge `top_k` ends
  in the capacity of the heap (`memory.rs:113`).
* Searches during changes of the collection, panics that poison the mutex of an
  edge-store entry (`qdrant_edge_store.rs:275`), and upserts that the Qdrant
  server acknowledges before it applies them.
* Up and down calls that overlap: nothing in the code orders them.
* Paging and the batch operations of a repository (`repo.rs:7-93`): one
  comparison, and loops over operations the application supplies.
* `Database`, features, configuration and errors: construction, read-only flags
  and data types. `close` is in `Scripts`.

## Plan

Done: the registry, cache-aside, the migrator with its scripts and pool, the edge
store, the table stores, search and tenants, modelled and checked; every safety
invariant of the runs proved but `SplitAsRead`, and both refinements (`LoadOnce`,
`VectorStore`).

Left: `TableStore` shown to implement `VectorStore` too, which first needs a batch
to be several records there; action properties from the invariants there are,
such as that a version leaves the version table only by a `down` of a release
that knows it.
