# A verification project for NooBaa core

NooBaa core is an S3 object store in front of other storage.  Its object server
keeps the metadata of buckets, objects, parts, chunks and blocks in MongoDB or
PostgreSQL; agents keep the blocks; background workers scrub, move, mirror and
reclaim them.  This directory holds TLA+ modules of its protocol logic, TLC
configurations that check them on small instances, and proofs checked by TLAPS
of theorems about the same modules for all values of their constants.

Paths below are relative to the repository's `src/` (`server/...` is
`src/server/...` there).  `PROJECT.json` is the index: components, runs, the
source lines of every definition, hazards, findings, mutants and theorems.

1. Inventory   2. Plan   3. Modules   4. Runs and bounds   5. Fairness
6. Proofs   7. Findings   8. What is not modelled   9. Running the checks

## 1. Inventory

How the parts interact: an endpoint (or any client) uses `sdk/object_io.js`,
which calls the object server by RPC: `create_object_upload`, then
`get_mapping` and `put_mapping` per batch of chunks with block writes to agents
in between, then `complete_object_upload` or `abort_object_upload`.  Handlers are
coroutines of a few node processes; they share caches and semaphores inside a
process and the database between processes.  Deleted metadata is only marked;
workers follow the marks (objects, then parts, chunks, blocks, then rows).
Configuration lives in the system store, a copy of which every process reloads.

| Component | State | Operations | What is hard | What makes it correct |
|---|---|---|---|---|
| Object server, versions of a key (`object_services/object_server.js`, `md_store.js`) | `objectmds` documents, the version sequence, `object_md_cache`, `bucket.versioning` | create, complete, abort an upload; delete by key, by version | read-then-bulk between awaits, bulks of several operations, stale cached MD, crashes, changes of versioning | unique version numbers; deletes are final; a key with versions has a latest one; sequential requests act on an ordered list of versions with one latest and one null version, without the help of the indexes |
| Database clients (`util/mongo_client.js`, `postgres_client.js`) | collections, unique partial indexes | find, update, ordered bulk | ordered bulk against transaction; nulls in unique indexes; matched and modified counts | what the object server assumes of them |
| Semaphore (`util/semaphore.js`, `wait_queue.js`) | count, queue, timer | wait, release, submit_background, timeout | timeouts among wakeups of different sizes | count conserved, first come first served, nobody forgotten |
| Semaphores by key (`util/keys_semaphore.js`) | map of semaphores | surround_key | entry dropped after an await | no drop while in use, everyone runs |
| Locks on batches (`util/keys_lock.js`) | locked keys, wait list | surround_keys | partial overlap of batches | exclusion, no lost wakeup, order |
| Caches (`util/lru.js`, `lru_cache.js`) | list, map, usage | get, put, invalidate | late loads, eviction while loading | usage is the sum of what is linked; no older value after a newer one |
| Mapping (`object_services/map_server.js`, `map_builder.js`, `map_deleter.js`, `mapper.js`) | parts, chunks, blocks | get/put mapping, build, delete | dedup against deletion, parallel inserts, retries of allocation | a part of a live object has its chunk; an unreferenced chunk goes at last |
| Object I/O (`sdk/object_io.js`) | uploads of a client | upload, multipart, read | failures in the middle of an upload | what is completed is complete |
| Reclaimers, cleaner (`bg_services/objects_reclaimer.js`, `agent_blocks_reclaimer.js`, `db_cleaner.js`, `buckets_reclaimer.js`, `lifecycle.js`) | marks deleted and reclaimed, iteration markers | batches | crash between two marks, races with uploads | nothing live is removed, all garbage is |
| Mirror writer (`mirror_writer.js`, `bucket_chunks_builder.js`, `util/multi_marker.js`) | two scan markers, a range of errors, what of them is stored | batches, stores | failed reads, builds and writes; restarts from old markers | a chunk that failed stays ahead of a scanner until it is mirrored |
| Scrubbing and tiering (`scrubber.js`, `tier_*_worker.js`) | scan markers | batches | restart | a chunk is looked at again and again |
| Accounting (`md_aggregator.js`, `usage_aggregator.js`) | last update times, counters, in memory and stored | aggregate a time range, reset | late inserts, writes that fail in part, memory that differs from the store, clocks set back | every object counted once |
| Cluster and health (`cluster_hb.js`, `server_monitor.js`, `bg_workers.js`) | deployment state | polls | platform | -- |
| System store (`system_store.js`, `redirector.js`, `server_inter_process.js`) | a copy of the configuration in every process, its last update time | load, refresh, make_changes, publication | clocks that differ, loads that overtake changes, publications that are missed, restarts | who changed sees it everywhere, copies converge and never go back, a copy that is behind is yet to hear of it |
| System, bucket, account, tier, pool servers | configuration | handlers | quotas, deletion of non-empty things | references stay valid |
| Master keys | key hierarchy | wrap, rotate | -- | data stays readable |
| Node services (`nodes_monitor.js`, `nodes_store.js`, `node_allocator.js`) | nodes in memory and in the store, data activities in memory only | heartbeats, decommission, recommission, delete, rebuild, save | blocks put while a drive is emptied, failed batches, builds that skip chunks, timers, saves of differences that race changes, restarts | no drive is emptied or deleted with data on it; a deletion ends |
| Notifications | alerts, events | alert, activity | duplicate alerts | one unread alert |
| Namespaces (`namespace_cache.js`, `namespace_merge.js`, ...) | a cached copy of a hub | read, upload, delete | coherence with the hub | no stale read after its time |
| RPC (`rpc/`) | connections, requests | connect, request, close | timeouts and late replies | each request ends once |
| Agents, block stores (`agent/block_store_services/`) | blocks on disk or cloud, a cache, the usage | read, write, preallocate, delete | reads that race deletes, retries, failing files, restarts | the cache holds what is stored; usage is what is stored |
| Endpoint, functions, upgrade, API, tools, native, frontend | -- | translation of requests, scripts, data coding | -- | -- |

## 2. Plan

The order follows what is lost if it goes wrong and how far tests reach.

1. **Versions of a key** (done): `ObjectVersions`, the abstract `VersionedKey`,
   the refinement `ObjectVersionsSerial`, the proofs `ObjectVersionsProofs` and
   `ObjectVersionsSerialProofs`.
2. **Concurrency utilities** (done): `Semaphore`, `KeysSemaphore`, `KeysLock`,
   `LRUCache`.
3. **Parts, chunks and blocks** (done, first part): `Chunks`, these three
   collections with uploads on one side and the reclaimers, the scrubber and the
   cleaner on the other.  To come: multiparts (`_complete_object_multiparts`),
   surplus blocks and eviction in the builder; an abstract specification, a set of
   objects whose data is readable from their completion to their deletion, once
   those are in.
4. **System store** (done): `SystemStore`.
5. **Background workers** (done): `MirrorWriter`, `MdAggregator`.
6. **A drive and its agent** (done): `NodesMonitor`, the drive seen by the server;
   `BlockStore` over `LRUCache`, its blocks seen by the agent.
7. Then, as far as it goes: object lock (legal hold and retention as attributes of
   a version), bucket deletion, RPC requests, `namespace_cache`.

The number of runs is kept small: a new component shares the run of others, with
a variable `who` that says which of them moves (`MCWorkers`, `MCStores`).  A state of
such a run is a state of one component next to initial states of the others, so
sharing adds the numbers of states and does not multiply them.

Section 6 has the theorems that are proved.

## 3. Modules

**`ObjectVersions`** models one key of one bucket: every query of these
handlers names bucket and key, so keys do not interfere.  `objs` maps an `_id` to
its document, reduced to the fields the handlers branch on; `seq` is the number in the
sequence document, `unseen` who looked for it before it was there, `forked` that there
are two; `cache` is `object_md_cache`; `versioning` is the bucket's
current mode and `mode[r]` the one request `r` captured in `load_bucket()`.  A
request is a coroutine with a program counter `pc[r]`; each stretch between two
`await`s is one action, and what it read before stays in `obj`, `other`, `vseq`.

| Actions | Code |
|---|---|
| `CreateUpload`, `CreateComplete` | `create_object_upload`, with and without `complete_upload` |
| `Complete`, `FindUpload`, `AllocVersion`, `PutRead`, `PutLatest`, `Write`, `Reply` | `complete_object_upload` and every branch of `_put_object_handle_latest` |
| `Abort`, `AbortFind`, `Write` | `abort_object_upload` |
| `DeleteVersion`, `VersionRead`, `VersionPrev`, `Write` | `delete_object` with a version id, `_delete_object_version` |
| `DeleteKey`, `KeyRead`, `KeyLatest`, `MakeMarker`, `Write` | `delete_object` without one, `_delete_object_only_key` |
| `NextNumber`, `FirstNumber`, `NoSequence`, `TwoSequences` | `alloc_object_version_seq` in `AllocVersion` and `MakeMarker`: one atomic step on MongoDB; on PostgreSQL an update and, if there was nothing to update, the insert of the first document under a lock taken after the look |
| `Fail`, `Expire`, `SetVersioning` | a request dies, a cached MD goes, `update_bucket` |

A bulk is a sequence of database operations.  On MongoDB (`WriteMongo`) they are
executed one action each, so other requests and crashes come in between, and a
duplicate key ends the bulk where it is.  On PostgreSQL (`WritePostgres`) they
are one transaction: all or nothing.  `Collide` states the unique indexes of
`object_md_indexes.js`; PostgreSQL takes nulls as distinct, so `Conflicts` keeps
there only the index on `version_seq`, the one without a null field.  What counts
as a success is what the callers look at (`Counted`).  `Ops` selects what an
instance does; an operation left out only removes behaviours.

**`VersionedKey`** is what the object server promises to requests that do not
overlap: numbered versions, at most one of them null, the newest one current.
**`ObjectVersionsSerial`** states that `ObjectVersions` with one request at a time
implements it.  The commit point of a request is the issue of its bulk: the
mapping shows the collection as the whole bulk will leave it.  `NeverRefused` says of the
same requests that no operation of a bulk runs into a unique index: that there is one
latest and one null version is the work of the handlers, in the order they put the
operations, and not of the indexes, which are there for requests that overlap.

**`Semaphore`**: each method runs to completion, so it is one action.  `wq` is
the queue, `Grants` the number of waiters the loop of `release()` wakes,
`OnTimeout(n)` the timer that finds the `n` oldest waiters expired.

**`KeysSemaphore`**: `surround_key`, the release at the end of the function, and
the `finally` that follows some microtasks later.  `before[p]` holds the
cleanups queued before the function of `p` can end: they are microtasks queued by a
release, and a function that begins after that release needs several turns of
the queue.

**`KeysLock`**: `surround_keys` and the release that wakes, in list order,
every waiter whose keys are all free.

**`Chunks`** models the data of objects of one content in one bucket, so that every
upload may dedup against every other; contents do not interfere.  `obj`, `part`,
`chunk` and `block` are the documents, each with the marks `deleted`,
`reclaimed` and gone from the database (`removed`); `onNode` is what the agents
store.  `up[o]` is the upload of object `o`: what it was given by `get_mapping` and
the inserts of `put_mapping` still under way.  `job[a]` is a background
coroutine: `pending` are the calls it awaits, several under one `Promise.all`, and
`chunks`, `blocks`, `build` what it will do next with what it read before.

| Actions | Code |
|---|---|
| `CreateUpload`, `GetMapping`, `PutMapping`, `InsertBlocks`, `InsertChunks`, `InsertParts`, `InsertFails`, `CompleteUpload` | `ObjectIO.upload_object` over `MapClient`: `GetMapping.find_dups`, the block write, `PutMapping.update_db` with its parallel inserts, `_complete_object_parts` |
| `CopyMapping` | `copy_object_mapping` |
| `DeleteObject` | the delete or abort of the object, seen from its data |
| `ReclaimObjects`, `ObjectsReclaimed`, `DatabaseError` | `ObjectsReclaimer.run_batch` and its list of failures |
| `FindPartsChunks`, `DeleteParts`, `FindUnreferenced`, `LoadChunks`, `DeleteChunks`, `DeleteBlocks`, `DeleteFromNodes`, `MarkReclaimed` | `map_deleter.js` |
| `ReclaimBlocks` | `AgentBlocksReclaimer`, whose batch throws in `prepare_blocks_from_db` when the chunk of one of its blocks was cleaned (`Unprepared`) |
| `ScrubberBatch`, `ReloadChunks`, `BuildChunks`, `InsertBuilt` | `scrubber.js`, `MapBuilder` |
| `CleanObjects`, `CleanBlocks`, `CleanChunks` | `clean_md_store` |
| `GetsOld`, `Crash` | an hour passes; the process of the workers restarts |

An object has one part and a chunk is one fragment with one replica, or more when
the builder adds some (`MaxBuilds`).  Two time limits are modelled by what they are
for: a `put_mapping` takes less than the hour after which the builder deletes an
unused chunk (`GetsOld`), and the DB cleaner removes documents deleted three
months ago, so no coroutine is still at work on them (`Quiet`).  The builder lock
excludes two builders on a chunk, so one builder is enough.  `Enabled` selects the
workers of an instance, as `config.js` does.

**`SystemStore`**: processes with a copy `data[p]` of the documents, the time of
its last update, and a connection to the redirector.  `load` and `make_changes` of
a process wait for each other on `_load_serial`: `queue[p]` is that semaphore's
queue with the call inside at its head, and the `stage` of a call says what it
awaits.  A publication `u` of `pubs` is a call of `publish_to_cluster`: to whom it
was sent and who has not answered.

| Actions | Code |
|---|---|
| `Register`, `Read`, `Apply` | `load()`: the since that lowers the last update time, the query by stamps, the merge into a copy |
| `LoadFails`, `LoadDrops`, `LoadThrows` | `load()` throws before the time moved on, after that and before the merge (`read_server_secret`), or after the merge |
| `Refresh` | `refresh()` of an old copy in the background |
| `MakeChanges`, `Prepare`, `Write`, `WriteFails` | `make_changes`: `check_indexes` on this copy, the stamp, the bulk |
| `Publish` | `redirector.publish_to_cluster`, and the answers it waits for |
| `Disconnect`, `Reconnect`, `Restart`, `Tick`, `Ages` | a connection is lost and registered again, with a load; a process restarts; time |

`lost` is history: who was not told of the last change of a document, since the
connection was away, or dropped what a load had read of it.  Left out: changes without a
stamp (`dont_change_last_update`, which `MdAggregator` has), `db_delete`,
`make_changes_in_background` and the standalone mode.

**`MirrorWriter`**: `run_batch` as its two parts, the scan (`ScanBatch`,
`ScanUnread`) and the retry of the range of errors (`RetryBatch`, `RetryUnread`),
then `StoreMarkers` or `SkipStore`; `RestartWriter` goes on from what is stored.
`BuildSucceeds` and `BuildFails` are `build_chunks` seen from the worker: a build that
succeeds may have skipped chunks, and one that fails may have built some.
Chunk ids are numbers and a chunk may be inserted after later ones.

**`MdAggregator`**: `stats` are the statistics of buckets in the database, `loaded_stats`
what the last load of the system store read and `memory` the objects the code
changes in place before it writes them.  `StartRun`, `Aggregate`, `WriteBuckets`,
`WriteGlobal`, `Reset`, `EndRun` are the steps of a run between its writes,
`ChangeFailed` a write that did or did not reach the database, `OtherChange` a change
of the configuration by someone else, after which memory is loaded again.  Time is in
units of the aggregation interval and may be set back.  `trail` remembers that a change
failed and that a run went on from what the failure left in memory.

**`NodesMonitor`** is one drive: `item` is what the monitor has in memory,
`stored` what is in the nodes store, `known` what the monitor takes it to be
(`node_from_store`), `saving` what a bulk on its way copied of the item.  Two histories record
what the code misses: `left` the blocks the wiping scan does not see, `misjudged` that a
failed update left `stored` and `known` apart.  Every handler of the code ends in `_update_status`, so every action ends in `UpdateStatus`, a
function of the item: online or not, ready to be removed or not, and the data
activity with its stage.

| Actions | Code |
|---|---|
| `Connect`, `DisconnectNode`, `Age`, `RunNode`, `TestNode` | `_add_node_connection`, `_disconnect_node`, time, `_run_node`, I/O errors and their detention |
| `DecommissionNode`, `RecommissionNode`, `DeleteNode` | the calls of users |
| `RebuildTimer`, `RebuildWorker`, `BatchFound`, `BatchBuilt`, `BatchFails` | `_schedule_next_run` of an activity, `_rebuild_node` with its scan, its errors and their second pass |
| `PutBlock` | `put_mapping` of a block on the drive, at any time: the allocator's list is up to 10 s old, a write is tried for minutes and nothing is checked in the end |
| `StartSave`, `EndSave`, `SaveFails` | `_update_nodes_store` and `bulk_update`, which writes differences (`Patches`); a failed one may have been done, or mark another node |
| `HideNode`, `UninstallNode`, `RestartMonitor` | `_remove_hideable_nodes`, the uninstall of the agent, a restart |

**`LRUCache`** states the cache as a value and its operations as functions from a
cache to a cache; an item has an identity, so that one which was evicted while it
loads lives on next to a new item of the same key.  **`BlockStore`** is the block
store of an agent over it: `disk` the files of each block, `request[p]` a write or
a delete (waiting for the lock, or with the files it has still to touch),
`usage`, `file` and `saver` the usage and its saves.  The lock is abstracted to
what `KeysLock` shows of it: whoever holds a block excludes the others.

| Actions | Code |
|---|---|
| `ReadBlock`, `ReadFiles`, `EndRead`, `ReadThrows` | `read_block`, `get_with_cache`, `_load_item`, `_read_block_and_verify` |
| `WriteBlock`, `Lock`, `WriteFile`, `EndWrite`, `WriteThrows` | `write_block_internal`, `_write_block` |
| `DeleteStored`, `Lock`, `DeleteFile`, `DeleteThrows`, `EndDelete` | `delete_blocks`, `_delete_blocks`, `_delete_block` |
| `PreallocateBlock`, `StartCount`, `EndCount`, `CountWritten`, `CountNotWritten` | `preallocate_block`, whatever is known of the block; `_count_usage`, which sets the usage and then writes the file |
| `StartSaveUsage`, `EndSaveUsage`, `SaveUsageThrows`, `RestartAgent` | `_write_usage`, `init` |

`MC...` modules give constants their values; `MCWorkers` and `MCStores` put the
components of a run side by side; the `...Proofs` modules hold the theorems, and
`FoldLemmas` what several of them need to know about sums and sequences.  Next to a definition stands its mutant, the same code with a plausible
bug (a dropped filter, a missing reset, an `if` for a `while`); nothing refers to
a mutant, and each shows that some property would notice.

## 4. Runs and bounds

| Run | Shows |
|---|---|
| `versions_mongo` | MongoDB, DISABLED or ENABLED and then SUSPENDED: two requests at a time of every kind, retried and late completions, objects of caching buckets, and requests that die between two operations of a bulk: unique numbers, acknowledged deletes stay |
| `versions_postgres` | PostgreSQL, ENABLED and SUSPENDED in turn: a key with versions always has a latest one and a completion never deletes or hides its own object, with crashes, completions that died and are tried again, expiring cache entries, and two first allocations of a number at once |
| `versions_serial_mongo` | on MongoDB, requests one at a time implement `VersionedKey` through all changes of versioning, and no operation of theirs runs into a unique index |
| `versions_two_latest`, `versions_no_latest` | findings, section 7 |
| `chunks_shared` | two objects share a chunk by dedup or copy, inserts fail, an operation of the database fails or the workers restart, the builder adds a block: stored objects are readable, reclaimed ones leave nothing |
| `chunks_reclaim` | every worker, a fault, a block of the builder, agents that do not answer: deleted blocks leave their agent, unless the chunk of one of them was cleaned first; unused chunks are found |
| `chunks_cleaned` | finding |
| `stores` | two processes whose clocks differ, two documents of one name, two changes and a fault between any two steps: a change that succeeded is seen by all it was told to, copies never go back and converge, a copy that is behind is yet to hear of it.  On an agent, reads, writes, deletes and preallocations of two blocks: the cache agrees with itself and with the disk, the usage with the files, the usage file with the usage.  The aggregation of two buckets, a batch each, with a failed write, a restart or a clock set back: every object is counted once unless a run went on from what a failed write left, and without failures no run does |
| `system_store_refresh` | finding |
| `workers` | five components: a semaphore with timeouts (counts 0, 1, 2 and one that never fits under 3); four callers of two semaphores by key; four batches {a}, {a,b}, {b,c}, {a,b,c} of keys to lock; the mirror writer with three faults; a drive with two events and a fault.  The two histories that except something the code does not provide (`passed`, `left`) grow only by a fault or a late block |
| `nodes_hidden` | finding |

Bounds.  In `versions_*`, `Objs` has three documents: the latest version, the one
that was or becomes the latest, and a third to race with, or a delete marker.  Two
requests (`MaxInFlight`) make every pairwise race.  `MaxSeq` numbers the versions
that race; with `MaxSeq = 2` the third document is an upload still in progress.
`versions_postgres` has `MaxSeq = 4`, so that completions that died after they
took a number can be tried again.
The theorems of section 6 remove these bounds for what they state.  Four coroutines
give the semaphore and the lock a holder, two waiters that exclude or pass each
other, and a newcomer; four semaphore objects are as many as can be
referenced at once.  In `chunks_*` one chunk id is enough because chunks share
nothing with each other: what is shared is a chunk, by two objects, and a second
block is the one the builder adds, or that of a second upload.  One fault
(`MaxFaults`) falls between any two steps.  Liveness is checked with one object, and with a
second block, which the builder adds, since one block can keep another from being
reclaimed.  The blocks of an agent are one that leaves room in the cache
and one that fills it, with an item more than there are blocks for a load outside of
the list; two requests overlap in every way.  They are explored in two slices
(`ReadsSlice`, `UsageSlice` of `MCStores`), since the cache and the usage have nothing
to do with each other but the requests that change both; the slice with usage goes on
no further once the usage is off, and preallocates one of the two blocks.  No request comes
before the first count of the files is written, in the slice with reads.

In `stores` two changes race, or the second follows the first while a
publication of the first is under way.  What would only repeat a behavior under other names or in another
order is left out: documents are interchangeable, so the first to be there or to be inserted is `d1`;
the clock matters only to a call that is about to read it, so it advances while one waits
(`SystemSlice`); the processes of an agent are interchangeable, so the second one begins while the first is busy
(`OneAfterTheOther`).  One object of the aggregator and two
buckets make ranges that differ by bucket, and times 2 to 4 leave a run after a reset; the
fault is a clock set back or a failed write, after which a run goes on from what it left in memory.
Alone, the aggregator was also checked with two faults and up to time 5 (2.1 million states;
the clock only set back before other faults).  In `workers` three chunk ids make a range of
errors with something inside and outside of it, and three faults a failed scan, a
failed retry and a restart; two blocks make the one
that is there and one that comes while the drive is emptied, two events a decommission
or deletion and a disconnection.  Every run sets `CHECK_DEADLOCK FALSE`: a finite number
of documents or a server nobody calls may stop.

The runs of PostgreSQL leave out what the findings show to break their
properties: buckets without versioning, and late completions (`"recomplete"`), the
subject of `versions_no_latest`, which can also delete or hide the object they
complete (section 7).  `LatestExists` also fails there when a request that
captured DISABLED deletes a version after versioning was enabled.

## 5. Fairness

`ObjectVersions` and `BlockStore` claim safety only.  In the utilities the only
fairness is that what was started ends: the function a semaphore or lock surrounds
(`WF(Release(p))`), since every function passed has its own time limits and
`finally` releases on any outcome; a microtask that was queued (`WF(Cleanup(p))`),
which the event loop guarantees; and the clock (`WF` of a timeout of at least
the oldest waiter), since node fires a timer that is set.  Nothing makes a caller
arrive.  `KeysLock` admits starvation by its own comment, so its liveness property
(`ServedOnceQuiet`) assumes that arrivals stop.

In `SystemStore` calls go on (loads, changes, publications: their steps end or
fail), a lost connection is registered again, as the client retries, and an old copy is
refreshed at the next access.  The mirror writer runs batch after batch.  For a drive,
the timer of a rebuild fires, the worker takes what is queued and its batches end, the
monitor runs every few minutes, and the store is updated when something is to be saved.  Of the runs (`RunNode`) fairness only counts on
those that are due (`RunDue`): the agent stopped answering, or the activity is done, out of its
grace or not the one the flags ask for; and on what removes drives that are ready.  Nothing makes a drive
connect or a fault stop but their bounds.  In `MCStores` fairness speaks of `SystemStore` alone,
and asks nothing of it in the behaviors where it stays as it began.  In `MCWorkers`, `who` never changes,
so a weak fairness of a disjunction of actions of several components is the weak
fairness of each, with fewer conditions for TLC to check.  Liveness is stated as
`[]<>Q`, with `Q` the state in which nothing is owed; this is as strong as `P ~> Q`
when `P` is the negation of `Q`.

In `Chunks` (`FairSpec`, for the run `chunks_reclaim`) the background scheduler runs
every worker again and again and every call it awaits ends: weak fairness of their
steps.  Time passes (`WF(GetsOld(c))`), and inserts under way end.  An agent that is
asked to delete again and again answers in the end: strong fairness of one full
answer to the agent blocks reclaimer, without which blocks stay on an agent
that is away for ever.  No client has to go on, and crashes and database
errors are bounded by `MaxFaults`.

## 6. Proofs

TLC shows the properties on the instances of section 4; the theorems below show them
for every value of the constants: any number of requests, objects, keys, blocks and
any bounds.  Each property named here is also checked by a run.

| Theorem | Property | Holds when |
|---|---|---|
| `ObjectVersionsProofs!TypeCorrect` | `TypeOK` | always |
| `ObjectVersionsProofs!VersionIdsUniqueOnMongo` | `UniqueVersionSeq` | MongoDB |
| `ObjectVersionsProofs!VersionIdsUnique` | `UniqueVersionSeq` | until the sequence has two documents (`forked`) |
| `ObjectVersionsProofs!DeletionsStay` | `DeletedStaysDeleted` | always |
| `ObjectVersionsProofs!CompletionsKeep` | `CompletionKeepsObject` | no late completions |
| `ObjectVersionsProofs!LatestKept` | `LatestExists` | PostgreSQL, puts and deletes by key, a bucket that is versioned |
| `ObjectVersionsSerialProofs!SerialRefinement` | `ImplementsVersionedKey` | one request at a time; no late completions, completed creations, null-version deletes or failures |
| `ObjectVersionsSerialProofs!SerialNeverRefused` | `NeverRefused` | as for `SerialRefinement` |
| `ChunksProofs!TypeCorrect`, `DataKept`, `ReclaimedGone`, `PartsGone` | `TypeOK`, `StoredReadable`, `ReclaimedOffNode`, `NoPartOfReclaimed` | always |
| `ChunksProofs!NoOrphans` | `NoOrphanBlocks` | always; the property itself says: no faults, no builds, uploads acknowledged, workers idle |
| `LocksProofs!SemTypeCorrect`, `CountConserved`, `Fair` | `SemTypeOK`, `Conserved`, `NoOvertaking` | always |
| `LocksProofs!KeyTypeCorrect` | `KeyTypeOK` | always |
| `LocksProofs!KeptWhileInUse` | `InMapWhileInUse` | an initial count of 1 |
| `LocksProofs!LockTypeCorrect`, `MutualExclusion`, `WakeupsKept` | `LockTypeOK`, `Exclusion`, `NoLostWakeup` | always |
| `BlockStoreProofs!StoreTypeCorrect`, `CacheCounts`, `CachedStays`, `UsageExact`, `SavesFollow` | `StoreTypeOK`, `BlockCacheAgrees`, `CachedIsStored`, `UsageCounted`, `UsageSaved` | always |
| `BackgroundProofs!NodeTypeCorrect`, `Evacuated`, `ChangesSaved` | `NodeTypeOK`, `EvacuatedWhenDone`, `StoreInSync` | always |
| `BackgroundProofs!MirrorTypeCorrect`, `FailedAhead` | `MirrorTypeOK`, `FailedStayAhead` | always |
| `BackgroundProofs!AggregatorTypeCorrect`, `EachCountedOnce`, `RunsBeginFromStore` | `AggregatorTypeOK`, `CountedOnce`, `RunsFollowStore` | always |
| `SystemStoreProofs!SystemTypeCorrect`, `CopiesHear`, `LoadsGoForward`, `SuccessSeen` | `TypeOK`, `StaleIsDue`, `NeverOlder`, `SuccessMeansSeen` | always |

"Always" means for all constants; what a property itself excepts it excepts here too, and a
reader should know of it: parts inserted once a worker had given up their chunk (`late` in
`StoredReadable`), aborted uploads (`NoPartOfReclaimed`), blocks that raced their deletion
(`raced` in `CachedIsStored`), events the usage does not account for (`drift`), a count that
failed to write the file (`misfiled`), blocks the wiping scan misses (`left`), failed updates that were
done (`misjudged`), chunks the mirror writer passes (`passed`), failed aggregations (`trail`) and
what a process was not told or dropped (`lost`).  Section 7 says what the code does there.

No run checks `TypeOK` of `ObjectVersions` and `AggregatorTypeOK`, as they are proved.

Assumptions are those the modules name.  Most say that a bound is a number or that a
value stands for nothing.  Some are about finiteness: the coroutines of a
semaphore, the keys of a cache and its items, the buckets and objects of the aggregator are
finite sets, as sums over them are taken.  `KeysSemaphore` assumes a key.

**`ObjectVersions`.**  `TypeOK` is not inductive: that a write always finds an operation
in its bulk, and that the objects a request writes back exist as values, depends on
where the request stands.  `IInv` adds `ReqInv(r)`, which says for each value of
`pc[r]` what its locals hold.  A step of one request is proved once for each action
(`StepOf`, `Issues`, `Proceeds`, `Ends`, `Replies`), and the rest of the
requests keep theirs because their locals do not change (`SharedOnly`).

`VersionsInv` gives the numbers and the deletions on both databases.  Each request is
`Sound`: a number it holds, in `vseq` or in an operation of its bulk that stamps a document, is at
most `seq` and carried by no document; what it is deleting is deleted already or will be
by its bulk; inserts are of new documents; the operation that stamps
is the last one.  Two requests hold different numbers and insert different
documents (`Apart`).  All that is said of numbers is said until the sequence is `forked`; on MongoDB it
never is, as no request is ever `unseen` (`OneSequence`).  What a bulk does is summed up once (`Writes`), for
one operation and for a transaction (`StagesWrite`), so that no step looks into
a bulk again.

`OwnInv` gives `CompletionKeepsObject`: the object of a completion is still an upload,
no two requests complete the same object (`OwnApart`), so what a completion
finds as the version to hide or delete, a stored one, is not its own.  Both
fail with a late completion, whose object may be stored by then; hence the
hypothesis.  `LatestInv` gives `LatestExists`: every bulk of a put or of a delete by key
ends in an operation that makes a document the latest, and the operations
before it are about stored documents, so a transaction leaves a latest one behind.  The hypotheses
are needed: on MongoDB the bulk may stop, or its process die, between hiding one version and
stamping the next; a late completion hides and then matches nothing; a
delete by version id or of a request that captured DISABLED removes a
document and puts forward another that may be gone.

**`ObjectVersionsSerial` implements `VersionedKey`.**  The step that issues a bulk is the
commit point: `View` shows the documents as they will be when the bulk under way has run.
That step is then the abstract put or delete, and the execution of the bulk, one
operation at a time on MongoDB and one transaction on PostgreSQL, must be a stutter
(`WriteImplements`).  `SerialInv` is the inductive invariant.  At most one request is
busy; what it has read still holds and no stage of its bulk collides with another
document (`Ready`, `Steady`, `Distinct`, `Tidy`), so nothing of the bulk is refused
(`NoConflict`); and what is in view has distinct numbers below the sequence, one null version
and one latest, the newest (`Seen`).  Each bulk then adds a version (`BulkAdds`) or drops
one, which is a past version, the last one or the latest with an heir (`BulkDropsPast`,
`BulkDropsLast`, `BulkDropsLatest`); an abort drops what is not in view (`BulkAborts`).  That no stage collides is also
`SerialNeverRefused` (`HeadAdmitted`); and a single request that finds no sequence inserts the only
one (`OneDocument`).  Both theorems hold on both databases.  Their hypotheses
are those under which the abstraction is true: several requests at once give two
latest versions or none (section 7).

**`Chunks`.**  `IInv` says how far each upload is (`UploadInv`: what is inserted, what is
to be, and that what it was given by dedup has a block), that uploads make
different chunks and blocks (`Reserved`), what documents mean (`DocInv`), and what
entitles a worker to its next step (`JobInv`): the blocks it is to delete are of
chunks it is deleting or that are deleted, those it sends to agents are deleted,
and those it marks as reclaimed have left their agents.  `PartsKept` is the heart: no live part, save
the `late` ones, refers to a chunk that a worker has given up; together with
`GivenUpKnown` (a worker only gives up a chunk that had a part, or an old one) and the
hour of `GetsOld` this covers the chunk that an upload is still making.

`NoOrphanBlocks` speaks of a moment when all is quiet, so its invariant says what is true on
the way there: `Smooth => Tidy`.  `Smooth` is that nothing has failed, the builder
has added nothing and no upload is stuck or overtaken by the deletion of its object; once false it
stays false, so the hypothesis of the property implies that it was true all along.  `Tidy` has three
parts.  While an upload still inserts the blocks or the document of a chunk, the chunk is its
`Own`: no other upload was given it, no part refers to it, and no worker but the
scrubber has found it.  A worker that is to delete chunks has all of their live
blocks on its list (`Whole`), although it listed them earlier: a block inserted since would be of an
upload that still owns its chunk.  Every live block is `Covered`: its chunk is live, or will be
inserted by its upload, or a worker is about to delete the block.  When workers are idle and uploads done only
the first is left.

**`Semaphore`, `KeysSemaphore`, `KeysLock`.**  `Conserved` and the type invariant are inductive
together: the sum over the waiters is taken apart by the order of the
queue (`FoldLemmas`).  `NoOvertaking` is an action property of the same
invariant, as a release wakes a prefix of the queue.  `KeptWhileInUse` needs
`InMapUntilCleaned`: whoever is not idle has the semaphore that the map has for its
key; at most one cleanup of a key is due; it is due before whoever runs can end
(`before`), and one runs at a time.  With a larger initial count two cleanups
can be due, and the property fails (section 7).  For the lock, `TakenFrom` is a
recursive function over the wait list: a waiter that is passed over shares a key with what was
locked, or with what the waiters before it took.

**`BlockStore`.**  `StoreIInv` has five parts.  `RequestsInv`: the lock admits one request for
a block, and a write has on disk what it is through with.  `SaverInv`: an idle saver
means that the file is not behind, unless a count is writing it or was the last to (`misfiled`), and
a save that is not to be followed by another writes the usage as it is.  `CountInv`: as long as there is no `drift` the usage
is the length of the `Counted` blocks and of the reserved ones, where a block that a
write puts on disk counts when that write ends, and one that is being deleted counts until its last file is
gone; `FilesWhole` says how far each request is with the files of its blocks.
`HeldInv`: the cache is well formed (`Shape`), its usage is the sum of what is
linked and within the limit, and what a read would find, now or when a load that has read
ends, is on disk and not being deleted, unless `raced`.  An
eviction takes items from the back and stops as soon as the rest fits (`Dropped`), so an
item that was just added, whose size is 1, stays for the load or the write that
wants it.

**`NodesMonitor`.**  `NodeIInv` speaks of the item and of the blocks on its drive, and
`_update_status` is shown once to keep it and to move only what it says
(`UpdateActivityKeeps`, `UpdateActivityMoves`), since nearly every action ends in it.
All of it is about the blocks that the wiping scan is to see (`Scanned`, those not in `left`): a block
that is put too late and one of a chunk the builder skips join `left` in the same step.
`WipeInv` gives `EvacuatedWhenDone`: while a drive is wiped no scanned block comes, so every
one that is there is before the marker of the scan, was in a batch that failed and so is
before `error_marker`, or is in the batch under way; a scan that ended with errors goes back
to `error_marker`, and one that ended without leaves nothing.  `RemovalInv` keeps a drive
that is ready for removal in its ended stage, or without an activity.  `StoreInv` says of
what is stored, or being stored, what `EmptyInv` says of the item: once it is decommissioned
or deleted the drive is empty, so a restart finds it empty.  For that it has to say what an
update makes of the store: the difference it writes leads to what it copied, unless the store was not
as the monitor took it (`PatchesAre`).  Whoever changes the flags marks the item for update, whence
`StoreInSync` with its exception.

**`MirrorWriter`.**  `FailedStayAhead` becomes inductive with three facts: what is owed (seen, not mirrored, not passed) is also
ahead of the stored markers, where a restart goes on (`StoredAhead`); a stored marker beyond the
scan is one of the present, whose ids are passed (`StoredInv`); and the first id of a failed
scan is passed (`FailedInv`).  A batch takes the lowest ids (`NextInIs`), so what it leaves is
above the new marker; a joined range has the ids of both (`JoinedIs`); and one lemma covers every
outcome of a retry (`RetryStep`).

**`MdAggregator`.**  The database says the same of a bucket whether it is read at its
`last_update` or at `global_last_update`, if that is later (`Sound`), which is what lets a
period in which nothing changed go unstamped.  `AggInv` relates the four places
that have statistics.  `RangeInv` says of the run that in the middle of a range each bucket is at
its beginning, as the database has it, or beyond its end; when the batches are done all are
beyond, so that `global_last_update` may follow (`RangeDone`).  `Kept` says of memory that as
long as no change failed it is, read at `global_last_update`, what the database has, and in the
middle of a range that it will be at its end; hence `RunsFollowStore`.  `RunInv` says of
buckets created during a run that nothing happened in them before its target, so the run
may pass them over.  A range adds what lies between its ends (`CountSplits`), and what a bucket
counts up to a time beyond the grace no step changes (`PastKept`): a record that is dated but
not written yet is recent.  The clock may be set back as long as no run sees a date
that is beyond its target before it is reset (`ClockStep`).

**`SystemStore`.**  `NeverOlder` rests on `QueueSound`: only the first call of a queue has begun,
so nothing changes a copy between the read of a load and its merge, and what was read is no
older than the copy (`GotNewer`), as documents only become newer and a deleted one stays
deleted.  Who changes a document without inserting it must have found it
(`CallSound`), so a deleted one stays so.  That publications wait for nobody who forgot them (`PubSound`) needs the same
queues.

`SuccessMeansSeen` is about one step, the answer of `make_changes`, but depends on all loads before it:
a load asks for what is later than the stamp of the last one, so a copy is current only as long
as that stamp is not ahead of what it has not seen.  `SeenInv` says of each process and document that the
copy has the last version, or that the process is yet to hear of it, or that the next load reads it as its
`last_update_time` is not beyond that version (`UpToDate`); what a load has read and not merged yet is
that version, or the process is yet to hear of it (`WillBe`).  Yet to hear (`Coming`) is a
publication that is not sent yet, a call of load that waits, or a document of `lost`.  `StaleIsDue` is what
`UpToDate` says of a copy that differs.  The same is said of the version that was
published, for each process that answered (`Heard`) and for one that is about to (`WillHear`).  `Numbered`
ties a call of load to its publication, by id and stamp.  When the call is answered, what is left besides `Seen` are a
publication with an earlier stamp that is yet to come (`GoesBack`), a later version whose stamp the next load reads (`Newer`) and
`lost`: exactly the exceptions of the property.  The proof goes by what a step does to one process: nothing
(`Calm`), lowers the stamp (`Lowers`), begins anew (`Fresh`), reads (`Reads`),
ends a load (`Ends`) or drops what it read (`Drops`), and each of these keeps each part (`Kinds`, `CopyKept`, `AnswersKept`).

Three kinds of definitions are written so that they can be reasoned about: what is left of a list
without some items is a recursive function (`KeysLock!Left`, `LRUCache!Without`), since
the provers know nothing of `SelectSeq`; `BlockStore!Unknown` is a constant outside of
the integers; and the choices of `NodesMonitor` that overlap are chains of `IF`, in the order
of the code, as the arms of a `CASE` have none.

Every safety property of a passing run is proved, under the hypotheses of the table.  The type invariants of the
composed runs (`StoresTypeOK`, `MCWorkers!TypeOK`) are conjunctions of type invariants, each proved for its
component on its own; that a component keeps its own while another moves is left to TLC.
Out of the prover's reach: liveness under fairness and `ENABLED`, so every
liveness property (`ServedOnceQuiet` and the like) stays with TLC; and induction over data,
since the library's induction theorems take an operator as a parameter.  What is needed
of sums and of filtered sequences `FoldLemmas` takes from well-founded
induction over the size of a finite set or the length of a sequence, stated with sets.  No
module declares `RECURSIVE` operators.

## 7. Findings

- **Two latest versions on PostgreSQL** (`versions_two_latest`).  Two completions
  read the same latest version; each hides it and makes its own object the latest.
  On MongoDB the second violates `latest_version_index`.  That index includes
  `version_past`, null in all documents it covers, and PostgreSQL takes nulls as
  distinct.  `md_store.js:225` relies on its uniqueness.
- **A failed completion hides the latest version** (`versions_no_latest`).  An
  upload aborted less than a second ago is still in `object_md_cache`.  Its late
  completion hides the latest version, then matches no upload and fails; nothing
  undoes the first operation.  A later delete in a suspended bucket reaches the
  case `object_server.js:1827` calls "Should not happen".
- **The DB cleaner's filter keeps nothing back** (`chunks_cleaned`).  The deleted
  chunks are filtered with an async function, whose promise is always truthy:
  chunks that still have parts or blocks in the database are removed too, although the
  log calls them "chunks with no blocks and no parts" (`db_cleaner.js:74`).
- **A change that waits for itself** (`system_store_refresh`).  `make_changes` holds
  `_load_serial` and awaits `refresh()` at `system_store.js:651`; when the copy is more than an
  hour old, `refresh()` awaits a load, which waits for `_load_serial`.  The comment on
  publication says that reloading must be done outside of that lock.
- **A drive hidden before its data is safe** (`nodes_hidden`).  A deletion announces
  that the node will be deleted "once all stored data is secured".  The activity
  that keeps a deleted drive visible is in memory only; the first run after a restart
  removes hideable nodes (`nodes_monitor.js:877`) before it sets activities up (line 882),
  and a drive that is away is hidden with its data still on it.  Its rebuild goes
  on later.

What follows is part of the modules but not a disagreement with a text of the
repository, so no run is about it; the conditions of the properties leave it out.

- `ObjectVersions`, the first version number on PostgreSQL.  `findOneAndUpdate` with upsert updates, and if
  there was no document to update takes a lock, inserts one and updates it
  (`postgres_client.js:1081-1120`).  Two first allocations that both looked before there was one both insert and return 1;
  from then on an update meets two documents and throws at the assert of
  `postgres_client.js:666`, for every allocation of the system.  An insert whose update never
  comes, as its process died, is left out.  `VersionIdsUnique` holds up to there (`forked`).
- `ObjectVersions`, completions repeated by a client.  On PostgreSQL a bulk is committed even
  when one of its operations matched no row, and the caller then throws
  (`"recomplete"`).  The client tries again, `find_cached_object_upload` still gives the
  upload as it was, and the completion finds its own object as the stored version to hide or,
  if it is a null version, to delete.  Late completions are therefore left out of
  `CompletionKeepsObject` and `LatestExists`.
- `Semaphore`: when a timeout rejects a large request, smaller ones behind it that
  fit are not woken until the next release, or their own timeout.
- `KeysSemaphore` with an initial count above 1 (the semaphores per agent of
  `sdk/map_client.js:28-31`): two releases may be waiting for their cleanup; a caller
  between the cleanups makes a new semaphore, and the second cleanup drops that one
  from the map while it is in use.
- `Chunks`, `StoredReadable` without its exception for `late`: between the moment a
  worker finds a chunk unreferenced and the moment it marks it deleted, an upload may
  still be given that chunk by dedup or copy.  The object is stored and its chunk is
  deleted.
- `NoPartOfReclaimed` for all objects: `put_mapping` does not look at the object, so
  after an abort it may insert a part that nobody deletes, and the chunk of this part
  counts as referenced for ever.
- `NoOrphanBlocks` with faults or with the builder adding blocks: a crash between the
  marks of a chunk and of its blocks, or a block inserted for a chunk that
  was deleted meanwhile, leaves a live block of a deleted chunk.  The scrubber only
  goes over live chunks.
- `DeletedBlocksReclaimed` when a block outlives its chunk: `prepare_blocks_from_db`
  (`agent_blocks_reclaimer.js:72`, `map_server.js:601-614`) reads the fragments of the chunk of every
  block of the batch and throws on one that the cleaner removed, so the batch fails as a whole, and again
  in every round; the handling of orphans after it (lines 74-83) is not reached.  A block whose
  node is gone has the same effect (`map_server.js:589`); nodes are never removed in the module.
- `SystemStore`: stamps may go back (the clocks of processes differ), and a load asks for
  what is later than the last update.  A process that missed a publication and
  then loads for one with a later stamp keeps its stale document (`lost`); the load
  after a reconnection has no `since`.  A load that throws after it took its time
  (`system_store.js:524`) and before the merge (`read_server_secret`, line 432) has dropped what it had read,
  which the next load does not ask for (`lost`, too).  On PostgreSQL, `BulkOp.execute` reports an
  operation that failed as `ok: false` where the MongoDB driver throws, and
  `make_changes` only logs it (`system_store.js:758`), so such a change is reported as done.
- `MirrorWriter`: the range of errors starts at the first chunk of the failed batch
  and the query excludes its start, so that chunk is not retried; an undefined marker
  is stored as a new `ObjectId`, later than every id so far, so a restart skips what
  was there.  A build that succeeds may have skipped chunks that have no part yet and are
  younger than an hour (`map_builder.js:140-143`), or whose master keys it could not handle
  (lines 150-152, logged only): they are not mirrored and both scanners go past them.
  `FailedStayAhead` and `SeenGetMirrored` leave all three out (`passed`).
- `MdAggregator`: statistics are put into memory before they are written
  (`md_aggregator.js:296`).  When the write fails, the next run goes on from what memory has.
  If nothing changed in its first range it writes these statistics without a stamp, the load that
  follows `global_last_update` gives memory those of before the failure, and the next change
  writes a count that lacks the period of the failed write for good.  A reset of which only the
  statistics were written, and not `global_last_update`, skips what comes before that.
  `CountedOnce` leaves out what follows (`trail`).
- `NodesMonitor`: the stage of an activity may change from its grace to rebuilding, or
  back, while a batch is under way, which then ends in the new one; a pending
  `rebuild_timeout` is not cleared when its stage is over; a failing `_get_agent_info`
  ends a run before `_update_status`.
- `NodesMonitor`, blocks left on a drive (`left`).  A block that a client was given before may be put
  when the drive is being wiped, or was: the list of the allocator is up to 10 s old
  (`node_allocator.js:18`), the write is tried for up to two minutes, and `put_mapping` asks nobody.
  The scan goes from the latest block back, so it does not see it.  The blocks of chunks that the
  builder skips (see `MirrorWriter`) also stay when the scan ends.  `EvacuatedWhenDone` is about the others.
- `NodesMonitor`, a wrong store (`misjudged`).  An update writes the difference to what the monitor takes
  the store to have (`nodes_store.js:89-91`).  If it throws (line 143) but was done, and the change is taken back
  before the retry, the difference is empty and the store stays wrong, unmarked.  And on PostgreSQL
  line 125 maps the indexes of errors to items although items without a difference were left out of the
  bulk, so another node is marked.  `StoreInSync` and `DeletionEnds` are about the rest.
- `BlockStore`: `delete_blocks` drops blocks from the cache before it waits for their
  lock, so a read, or a write that ends meanwhile, puts a deleted block back, which
  is then served until it is evicted (`CachedIsStored` without `raced`).
- `BlockStore`, usage: a preallocated block that is written again, as after a timeout of
  the write, subtracts the length of the data it overwrites and adds only that of its
  meta file (`block_store_fs.js:150`; the same in `block_store_mem.js`), so the
  usage loses the block.  An allocation that is tried again preallocates its
  blocks again (`map_server.js:115-131`, `:197-218`), and `preallocate_block`
  (`block_store_base.js:261-271`) counts them again.  A write that failed half way is not counted, and its retry
  counts nothing as it finds the file it overwrites.  A change that was not saved
  when the agent stops is lost, as the usage is counted again only without a usage file;
  that count takes every file for a block, its meta file included.  `UsageCounted` is about runs
  without these (`drift`).
- `BlockStore`, the file of the usage: a count sets the usage and then writes the file
  (`block_store_fs.js:216-226`).  If that fails no save is due, and if the usage changes and is saved
  meanwhile the older number may be written last; the file is then wrong until the next change
  (`misfiled`, which `UsageSaved` leaves out).
- `LRUCache`: a forced `cache_miss` joins a load that is under way already, so it may
  return what was read before it was asked for; and `put_in_cache` into an item that is
  being loaded is overwritten by that load.

## 8. What is not modelled

In `ObjectVersions`: `md_conditions` (a request they stop is one that fails),
the content of objects, tags and encryption, listings, `delete_multiple_objects`
(a loop over these deletes), object lock (`WORM_ENABLED` is FALSE by default) and
multipart uploads, whose completion ends in the same writes.  Part of the
database clients is external: modelled from how the code uses MongoDB and PostgreSQL.
Statements of a PostgreSQL transaction are taken as one step, as its rows are
locked and re-read in order of the updates.

In `Chunks`: multiparts, several fragments and replicas, where `mapper.js` puts
blocks (an added block is a choice of the builder), allocation and its retries, the
deletion of surplus blocks, eviction from caching buckets, reads, and the bucket and node
documents the cleaner also removes.  A deleted block's agent is an agent that
deletes, or not, and whose answer arrives, or not.  Agents whose node document is gone (`AgentBlocksReclaimer` marks their
blocks reclaimed without asking) are left out.

In `Semaphore`, counts are integers (`to_sem_count` rounds down) and time is its
order.  Printing and debugging are left out everywhere.

In `NodesMonitor`: trust and the tests it rests on, maintenance, drives of a cloud or a
database, several drives of a host, the modes shown to users, and batches of an
activity that was replaced.  In `MdAggregator`: pools, which go through the same steps, and
histograms.  In `MirrorWriter`: deletions of chunks, and which chunks the buckets'
tiers select.  In `BlockStore`: expiry and validation of the cache (the block cache uses
neither), the number of blocks in the usage, two counts at once, an unlink that goes on after its
block was given up, block stores in a cloud, replication, verification.

What remains of the repository is mostly not protocol: of its 196 thousand lines
a large part is a browser application with bundled libraries, API declarations and
schemas, upgrade scripts, tools and adapters of external services, whose handlers read and write one
document.  The modules cover the parts that keep state over several steps with others
in between.

Components without a module are listed in `PROJECT.json` with the reason or the
plan; hazards without a property carry a note.

## 9. Running the checks

    tlc -workers 2 -config Workers.cfg MCWorkers.tla
    tlc -workers 2 -config ChunksReclaim.cfg Chunks.tla
    tlapm FoldLemmas.tla
    tlapm ObjectVersionsProofs.tla        # and the other ...Proofs modules

`PROJECT.json` names the module and configuration of every run.  Each run takes less
than four minutes with two workers, the
proofs of a module a few.
