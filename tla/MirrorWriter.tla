---------------------------- MODULE MirrorWriter ----------------------------
(***************************************************************************)
(* The worker that mirrors the chunks of buckets whose tiers have more     *)
(* than one mirror set (mirror_writer.js, bucket_chunks_builder.js and     *)
(* multi_marker.js).                                                       *)
(*                                                                         *)
(* A batch takes the next chunk ids after the main marker and has them     *)
(* built, then does the same with a range of ids whose builds failed in    *)
(* earlier batches.  The markers are written to the system store every ten *)
(* minutes; a restart goes on from what was written last.                  *)
(*                                                                         *)
(* Ids are numbers.  They are given by the clocks of several processes and *)
(* a chunk is inserted some time after it got its id, so that a chunk may  *)
(* appear below ids that are there already.  Chunks are not deleted here.  *)
(***************************************************************************)
EXTENDS Naturals, FiniteSets, FiniteSetsExt

CONSTANTS
    MaxChunkId,     \* chunk ids are 1..MaxChunkId
    BuildBatch,     \* MIRROR_WRITER_BATCH_SIZE
    MaxMirrorFaults \* failed reads and builds, builds that skip chunks, and restarts

ASSUME MirrorAssumption ==
    /\ MaxChunkId \in Nat \ {0}
    /\ BuildBatch \in Nat \ {0}
    /\ MaxMirrorFaults \in Nat

VARIABLES
    chunks,         \* ids of the chunks of mirrored buckets in the database
    mirrored,       \* those that are built in all their mirrors
    marker,         \* mirror_scanner.marker, 0 when undefined
    retry_scanner,  \* a range whose start is the marker, or none
    errors_marker,  \* a range, or none
    failed,         \* the chunks of the main scan of this batch if it failed
    batch,          \* where run_batch is
    saved,          \* bg_workers_info.mirror_writer_info in the system store
    seen,           \* history: chunks the main scanner took in a batch
    passed,         \* history: ids the worker left behind, see below
    mirror_faults

mirrorVars == <<chunks, mirrored, marker, retry_scanner, errors_marker, failed,
                batch, saved, seen, passed, mirror_faults>>
-----------------------------------------------------------------------------
ChunkIds == 1..MaxChunkId

\* Ranges exclude their start, as the query they are made into does.  A range
\* with both ends 0 stands for none.
NoRange == [start |-> 0, end |-> 0]
Within(range) == {c \in ChunkIds : range.start < c /\ c <= range.end}

\* mutant: the newer range in place of the older one
Replaced(a, b) == IF b = NoRange THEN a ELSE b
\* MultiMarker.push_range: one range over both.
Joined(a, b) ==
    IF a = NoRange THEN b
    ELSE IF b = NoRange THEN a
    ELSE [start |-> Min({a.start, b.start}), end |-> Max({a.end, b.end})]

\* _handle_build_errors: from the first id of the batch to the last one.
RangeOf(ids) == IF ids = {} THEN NoRange ELSE [start |-> Min(ids), end |-> Max(ids)]

\* iterate_all_chunks_in_buckets: the lowest ids of a range.
NextIn(ids) == {c \in ids : Cardinality({d \in ids : d <= c}) <= BuildBatch}

MirrorInit ==
    /\ chunks = {} /\ mirrored = {} /\ seen = {} /\ passed = {}
    /\ marker = 0 /\ retry_scanner = NoRange /\ errors_marker = NoRange
    /\ failed = {} /\ batch = "scan"
    /\ saved = [start_marker |-> 0, retry_range |-> NoRange]
    /\ mirror_faults = MaxMirrorFaults

\* Put mapping inserts a chunk.
InsertChunk(c) ==
    /\ c \notin chunks
    /\ chunks' = chunks \cup {c}
    /\ UNCHANGED <<mirrored, marker, retry_scanner, errors_marker, failed, batch,
                   saved, seen, passed, mirror_faults>>

\* The build of a batch succeeds.  The builder may still skip chunks without a
\* word: those that have no part yet and those whose keys it cannot handle.
BuildSucceeds(ids) == \E skipped \in SUBSET ids :
    /\ mirrored' = mirrored \cup (ids \ skipped)
    /\ passed' = passed \cup skipped
    /\ skipped # {} => mirror_faults > 0
    /\ mirror_faults' = IF skipped = {} THEN mirror_faults ELSE mirror_faults - 1

\* The build of a batch fails.  Some of the chunks may be built all the same.
BuildFails(ids) ==
    /\ ids # {} /\ mirror_faults > 0
    /\ mirror_faults' = mirror_faults - 1
    /\ \E built \in SUBSET ids : mirrored' = mirrored \cup built
    /\ passed' = passed \cup {Min(ids)}

\* MirrorWriter.run_batch: the main scanner takes a batch and has it built.  Its
\* marker moves whether the build succeeds or not.
ScanBatch ==
    /\ batch = "scan"
    /\ batch' = "retry"
    /\ LET ids == NextIn({c \in chunks : c > marker})
       IN  /\ marker' = IF ids = {} THEN marker ELSE Max(ids)
           /\ seen' = seen \cup ids
           /\ \/ BuildSucceeds(ids) /\ failed' = {}
              \/ BuildFails(ids)    /\ failed' = ids
    /\ UNCHANGED <<chunks, retry_scanner, errors_marker, saved>>

\* The read of the main scan fails: the marker stays and no chunk is reported.
ScanUnread ==
    /\ batch = "scan" /\ mirror_faults > 0
    /\ mirror_faults' = mirror_faults - 1
    /\ batch' = "retry"
    /\ failed' = {}
    /\ UNCHANGED <<chunks, mirrored, marker, retry_scanner, errors_marker, saved,
                   seen, passed>>

\* mutant: the range of errors is only looked at by a scanner there is already
RetriedIfAny == retry_scanner
\* _retry_mirror: the scanner of an earlier batch, or one for the range of errors.
Retried == IF retry_scanner = NoRange THEN errors_marker ELSE retry_scanner
ErrorsLeft == IF retry_scanner = NoRange THEN NoRange ELSE errors_marker

\* MirrorWriter.run_batch: the retry scanner takes a batch, then the chunks of the
\* builds that failed are put in the range of errors, those of the scan first.
RetryBatch ==
    /\ batch = "retry"
    /\ batch' = "store"
    /\ failed' = {}
    /\ LET ids  == NextIn(chunks \cap Within(Retried))
           scan == Joined(ErrorsLeft, RangeOf(failed))
           next == [Retried EXCEPT !.start = Max(ids)]
       IN  \/ /\ ids = {}              \* done, or nothing to retry
              /\ retry_scanner' = NoRange
              /\ errors_marker' = scan
              /\ UNCHANGED <<mirrored, passed, mirror_faults>>
           \/ /\ ids # {}
              /\ BuildSucceeds(ids)
              /\ retry_scanner' = next
              /\ errors_marker' = scan
           \/ /\ BuildFails(ids)
              /\ retry_scanner' = next
              /\ errors_marker' = Joined(scan, RangeOf(ids))
    /\ UNCHANGED <<chunks, marker, saved, seen>>

\* The read of the retry fails: the scanner stays as it was made.
RetryUnread ==
    /\ batch = "retry" /\ mirror_faults > 0 /\ Retried # NoRange
    /\ mirror_faults' = mirror_faults - 1
    /\ batch' = "store"
    /\ failed' = {}
    /\ retry_scanner' = Retried
    /\ errors_marker' = Joined(ErrorsLeft, RangeOf(failed))
    /\ UNCHANGED <<chunks, mirrored, marker, saved, seen, passed>>

\* _store_markers when ten minutes have passed.  An undefined marker is made into
\* a new ObjectId, which is later than all ids given so far.
StoreMarkers ==
    /\ batch = "store"
    /\ batch' = "scan"
    /\ \E start \in (IF marker # 0 THEN {marker}
                     ELSE {n \in ChunkIds : \A c \in chunks : c <= n}) :
         /\ saved' = [start_marker |-> start,
                      retry_range  |-> Joined(errors_marker, retry_scanner)]
         /\ passed' = IF marker = 0 THEN passed \cup 1..start ELSE passed
    /\ UNCHANGED <<chunks, mirrored, marker, retry_scanner, errors_marker, failed,
                   seen, mirror_faults>>

\* It is not time yet, or the write fails and waits for another ten minutes.
SkipStore ==
    /\ batch = "store"
    /\ batch' = "scan"
    /\ UNCHANGED <<chunks, mirrored, marker, retry_scanner, errors_marker, failed,
                   saved, seen, passed, mirror_faults>>

\* The process restarts; _init reads the markers that were stored.
RestartWriter ==
    /\ mirror_faults > 0
    /\ mirror_faults' = mirror_faults - 1
    /\ marker' = saved.start_marker
    /\ errors_marker' = saved.retry_range
    /\ retry_scanner' = NoRange
    /\ failed' = {}
    /\ batch' = "scan"
    /\ UNCHANGED <<chunks, mirrored, saved, seen, passed>>

RunBatch == ScanBatch \/ ScanUnread \/ RetryBatch \/ RetryUnread
                \/ StoreMarkers \/ SkipStore

MirrorNext ==
    \/ \E c \in ChunkIds : InsertChunk(c)
    \/ RunBatch
    \/ RestartWriter

\* The background worker is scheduled again after each batch; nothing forces a
\* chunk to come or a fault to happen.
MirrorFairness == WF_mirrorVars(RunBatch)
MirrorSpec == MirrorInit /\ [][MirrorNext]_mirrorVars /\ MirrorFairness
-----------------------------------------------------------------------------
Ranges == [start : 0..MaxChunkId, end : 0..MaxChunkId]

MirrorTypeOK ==
    /\ chunks \subseteq ChunkIds /\ mirrored \subseteq chunks
    /\ seen \subseteq chunks /\ passed \subseteq ChunkIds /\ failed \subseteq chunks
    /\ marker \in 0..MaxChunkId
    /\ retry_scanner \in Ranges /\ errors_marker \in Ranges
    /\ batch \in {"scan", "retry", "store"}
    /\ saved \in [start_marker : 0..MaxChunkId, retry_range : Ranges]
    /\ mirror_faults \in 0..MaxMirrorFaults

\* Where the worker still has a chunk to do.
Ahead(c) ==
    \/ c > marker
    \/ c \in Within(errors_marker) \cup Within(retry_scanner) \cup failed

\* A chunk the main scanner took and that is not mirrored yet is still ahead of
\* one of the scanners, through failed reads, failed builds of a scan and of its
\* retry at once, and restarts from markers stored batches ago.  Three kinds of ids
\* are left out since the code does lose them, and `passed` records them: the first
\* of a batch that failed, at which the range starts that excludes its start, the
\* ids there are when an undefined marker is stored as the present
\* (mirror_writer.js 161-232), and the chunks the builder skipped in a batch that
\* it reported as built (map_builder.js 140-152).
FailedStayAhead == \A c \in seen \ (mirrored \cup passed) : Ahead(c)

\* So all the others are mirrored in the end, once faults stop: the range of errors
\* is retried although new chunks keep coming and new errors widen it.  Skips of
\* the builder count among the faults.
SeenGetMirrored == \A c \in ChunkIds : []<>(c \in seen => c \in mirrored \cup passed)
=============================================================================
