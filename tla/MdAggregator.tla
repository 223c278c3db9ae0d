---------------------------- MODULE MdAggregator ----------------------------
(***************************************************************************)
(* The worker that keeps the storage statistics of buckets                 *)
(* (md_aggregator.js): it adds what was created and subtracts what was     *)
(* deleted since storage_stats.last_update, a range of time after the      *)
(* other, and writes the result to the system store.                       *)
(*                                                                         *)
(* The statistics are changed in the objects of the system store's memory  *)
(* too, until the next load replaces these objects.  Statistics that came  *)
(* out the same are written without the stamp that loads look for, so that *)
(* memory may go on with an older last_update; this is what                *)
(* global_last_update makes up for.  When a change fails, memory keeps what *)
(* was to be written: a run that starts from it takes these statistics for *)
(* stored, and `trail` says so.                                            *)
(*                                                                         *)
(* Times are in units of MD_AGGREGATOR_INTERVAL, 0 is NOOBAA_EPOCH (and    *)
(* what an unset time is taken for).  One counter stands for the counts    *)
(* and sizes of a bucket; pools go through the same steps with the sizes   *)
(* of blocks and are left out.  A record gets its date before it is in the *)
(* database, but not by more than MD_GRACE_IN_MILLISECONDS (config.js      *)
(* 129-132).  The clock may be set back while the worker sleeps, and a run *)
(* then finds dates beyond its target before time has passed them: the     *)
(* worker is scheduled every MD_AGGREGATOR_INTERVAL.                       *)
(***************************************************************************)
EXTENDS Integers, FiniteSets, FiniteSetsExt

CONSTANTS
    AggBuckets,     \* buckets, numbers in the order of system_store.data.buckets
    AggObjects,     \* objects
    Grace,          \* MD_GRACE_IN_MILLISECONDS
    MaxCycles,      \* MD_AGGREGATOR_MAX_CYCLES
    AggBatch,       \* MD_AGGREGATOR_BATCH
    FirstTime,      \* the clock at the beginning
    LastTime,       \* a bound on the clock
    MaxAggFaults    \* failed writes and loads, restarts, clocks set back

ASSUME AggregatorAssumption ==
    /\ AggBuckets \subseteq Nat /\ IsFiniteSet(AggBuckets) /\ IsFiniteSet(AggObjects)
    /\ Grace \in Nat /\ MaxCycles \in Nat \ {0} /\ AggBatch \in Nat \ {0}
    /\ FirstTime \in Nat /\ FirstTime >= 2 * Grace
    /\ LastTime \in Nat /\ FirstTime <= LastTime
    /\ MaxAggFaults \in Nat

VARIABLES
    agg_clock,
    objects,        \* [AggObjects -> [bucket, created, deleted, inserted]]
    stats,          \* storage_stats of the buckets in the database
    stamped,        \* buckets the next load reads
    loaded_stats,   \* storage_stats as last loaded (old_db_data)
    memory,         \* storage_stats in system_store.data
    global,         \* systems[0].global_last_update in the database
    global_loaded,  \* the same in system_store.data
    run,            \* run_md_aggregator: where it is, and its variables
    slept,          \* the worker's delay has passed
    agg_faults,
    trail           \* "failed": a change failed since the last restart or reset; "astray":
                    \* a run began from other statistics than those of the database

store == <<stats, stamped, loaded_stats, memory, global, global_loaded>>
aggregatorVars == <<agg_clock, objects, store, run, slept, agg_faults, trail>>
-----------------------------------------------------------------------------
AggTimes == 0..LastTime
Unset == -1         \* an object without a date, a bucket that is not there

NoObject == [bucket |-> Unset, created |-> Unset, deleted |-> Unset, inserted |-> FALSE]
NoStats  == [count |-> 0, last_update |-> Unset]
NoneYet  == [b \in AggBuckets |-> NoStats]
NoRun    == [at |-> "idle", target |-> 0, global |-> 0, scope |-> {}, local |-> NoneYet,
             shared |-> FALSE, fresh |-> TRUE, from |-> 0, till |-> 0, batch |-> {},
             changed |-> {}, more |-> FALSE]

Exists(b) == stats[b] # NoStats

AggregatorInit ==
    /\ agg_clock = FirstTime
    /\ objects = [o \in AggObjects |-> NoObject]
    /\ stats = NoneYet /\ loaded_stats = NoneYet /\ memory = NoneYet /\ stamped = {}
    /\ global = 0 /\ global_loaded = 0
    /\ run = NoRun /\ slept = TRUE
    /\ agg_faults = MaxAggFaults /\ trail = "kept"

\* mutant: of the buckets only
LoadBuckets(read) ==
    /\ loaded_stats' = [b \in AggBuckets |-> IF b \in read THEN stats'[b] ELSE loaded_stats[b]]
    /\ memory' = loaded_stats'
    /\ stamped' = {}
    /\ UNCHANGED global_loaded
\* A load of the system store: what was stamped since the last one is read, and the
\* data is replaced by a copy of what was read.
LoadStats(read) ==
    /\ loaded_stats' = [b \in AggBuckets |-> IF b \in read THEN stats'[b] ELSE loaded_stats[b]]
    /\ memory' = loaded_stats'
    /\ global_loaded' = global'
    /\ stamped' = {}
-----------------------------------------------------------------------------
(* Buckets, objects and time *)

\* new_bucket_defaults: a new bucket is aggregated from a while before its creation
CreateBucket(b) ==
    /\ ~Exists(b)
    /\ stats' = [stats EXCEPT ![b] = [count |-> 0, last_update |-> agg_clock - 2 * Grace]]
    /\ global' = global
    /\ LoadStats(stamped \cup {b})
    /\ run' = [run EXCEPT !.shared = FALSE]
    /\ UNCHANGED <<agg_clock, objects, slept, agg_faults, trail>>

\* any other change of the system store, of some buckets perhaps, is published
OtherChange(touched) ==
    /\ \A b \in touched : Exists(b)
    /\ UNCHANGED <<stats, global>>
    /\ LoadStats(stamped \cup touched)
    /\ run' = [run EXCEPT !.shared = FALSE]
    /\ UNCHANGED <<agg_clock, objects, slept, agg_faults, trail>>

\* an upload completes: create_time is set, then written
ObjectCompleted(o, b) ==
    /\ objects[o] = NoObject /\ Exists(b)
    /\ objects' = [objects EXCEPT ![o].bucket = b, ![o].created = agg_clock]
    /\ UNCHANGED <<agg_clock, store, run, slept, agg_faults, trail>>

\* the upload reaches the database
Lands(o) ==
    /\ objects[o].created # Unset /\ ~objects[o].inserted
    /\ objects' = [objects EXCEPT ![o].inserted = TRUE]
    /\ UNCHANGED <<agg_clock, store, run, slept, agg_faults, trail>>

ObjectDeleted(o) ==
    /\ objects[o].inserted /\ objects[o].deleted = Unset
    /\ objects' = [objects EXCEPT ![o].deleted = agg_clock]
    /\ UNCHANGED <<agg_clock, store, run, slept, agg_faults, trail>>

Flying == {o \in AggObjects : objects[o].created # Unset /\ ~objects[o].inserted}

\* The dates a run compares with its target, the present less the grace.
Dates == {global, global_loaded}
            \cup {s[b].last_update : s \in {stats, loaded_stats, memory}, b \in AggBuckets}

AggTick ==
    /\ agg_clock < LastTime
    /\ \A o \in Flying : agg_clock < objects[o].created + Grace
    /\ agg_clock + 1 - Grace \notin Dates   \* or a run would not find it beyond its target
    /\ agg_clock' = agg_clock + 1
    /\ slept' = (slept \/ run.at = "idle")
    /\ UNCHANGED <<objects, store, run, agg_faults, trail>>

Fault == agg_faults > 0 /\ agg_faults' = agg_faults - 1

SetBack ==
    /\ Fault /\ run.at = "idle"
    /\ \E t \in FirstTime .. agg_clock - 1 : agg_clock' = t
    /\ UNCHANGED <<objects, store, run, slept, trail>>
-----------------------------------------------------------------------------
(* run_md_aggregator *)

Later(a, b) == IF a > b THEN a ELSE b
\* What a run that finds the statistics x and the global_last_update g goes on from.
AsRead(x, g) == [count |-> x.count, last_update |-> Later(g, x.last_update)]

\* The buckets there are, the target and global_last_update are read once per run.
StartRun ==
    /\ run.at = "idle" /\ slept
    /\ run' = [NoRun EXCEPT !.at = "range", !.target = agg_clock - Grace, !.global = global_loaded,
                           !.scope = {b \in AggBuckets : memory[b] # NoStats},
                           !.local = memory, !.shared = TRUE]
    /\ trail' = IF \A b \in run'.scope : AsRead(memory[b], global_loaded) = AsRead(stats[b], global)
                THEN trail ELSE "astray"
    /\ slept' = FALSE
    /\ UNCHANGED <<agg_clock, objects, store, agg_faults>>

LastUpdate(b) == Later(run.global, run.local[b].last_update)
Updates       == {LastUpdate(b) : b \in run.scope}

\* find_minimal_range: from the oldest update to the one after it
Skewed     == \E t \in Updates : t > run.target
From       == Min(Updates \cup {run.target})
NextUpdate == Min({t \in Updates : t > From} \cup {run.target})
\* find_next_range: long gaps are cut
Interval   == Later((NextUpdate - From) \div MaxCycles, 1)
Till       == IF From + Interval < NextUpdate THEN From + Interval ELSE NextUpdate
NoMore     == From >= run.target \/ From >= Till

\* mutant: both ends
BetweenOrAt(t, from, till) == from <= t /\ t <= till
Between(t, from, till) == from <= t /\ t < till
\* aggregate_objects_by_create_dates less aggregate_objects_by_delete_dates
Delta(b, from, till) ==
    Cardinality({o \in AggObjects : /\ objects[o].inserted /\ objects[o].bucket = b
                                    /\ Between(objects[o].created, from, till)})
  - Cardinality({o \in AggObjects : /\ objects[o].bucket = b
                                    /\ Between(objects[o].deleted, from, till)})

\* range_md_aggregator: the buckets that are not beyond the range, a batch at a time
Behind(from) == {b \in run.scope : run.local[b].last_update <= from}
Slice(bs)    == {b \in bs : Cardinality({c \in bs : c <= b}) <= AggBatch}

Aggregate ==
    /\ run.at = "range"
    /\ run.fresh => ~Skewed /\ ~NoMore
    /\ LET from  == IF run.fresh THEN From ELSE run.from
           till  == IF run.fresh THEN Till ELSE run.till
           batch == Slice(Behind(from))
           sum   == [b \in batch |-> [count |-> run.local[b].count + Delta(b, from, till),
                                      last_update |-> till]]
       IN  /\ run' = [run EXCEPT !.at = "write", !.from = from, !.till = till, !.batch = batch,
                                 !.local = [b \in AggBuckets |-> IF b \in batch THEN sum[b] ELSE @[b]],
                                 !.changed = {b \in batch : sum[b].count # run.local[b].count},
                                 !.more = Cardinality(Behind(from)) > AggBatch]
           /\ memory' = IF run.shared THEN run'.local ELSE memory
    /\ UNCHANGED <<agg_clock, objects, stats, stamped, loaded_stats, global, global_loaded,
                   slept, agg_faults, trail>>

\* no more work
EndRun ==
    /\ run.at = "range" /\ run.fresh /\ ~Skewed /\ NoMore
    /\ run' = NoRun
    /\ UNCHANGED <<agg_clock, objects, store, slept, agg_faults, trail>>

\* find_next_range: a date is beyond the target, everything starts again
Zeroed(bs) == [b \in AggBuckets |-> IF b \in bs THEN [count |-> 0, last_update |-> 0] ELSE stats[b]]

Reset ==
    /\ run.at = "range" /\ run.fresh /\ Skewed
    /\ stats' = Zeroed(run.scope)
    /\ global' = 0
    /\ LoadStats(stamped \cup run.scope)
    /\ run' = NoRun /\ trail' = "kept"
    /\ UNCHANGED <<agg_clock, objects, slept, agg_faults>>

\* make_changes of the statistics of a batch, published if any of them changed
WriteBuckets ==
    /\ run.at = "write"
    /\ stats' = [b \in AggBuckets |-> IF b \in run.batch THEN run.local[b] ELSE stats[b]]
    /\ global' = global
    /\ IF run.changed = {} THEN UNCHANGED <<stamped, loaded_stats, memory, global_loaded>>
                           ELSE LoadStats(stamped \cup run.changed)
    /\ run' = [run EXCEPT !.at = IF run.more THEN "range" ELSE "global", !.fresh = ~run.more,
                          !.shared = @ /\ run.changed = {}]
    /\ UNCHANGED <<agg_clock, objects, slept, agg_faults, trail>>

\* make_changes of global_last_update, once all batches of the range are written
WriteGlobal ==
    /\ run.at = "global"
    /\ global' = run.till
    /\ stats' = stats
    /\ LoadStats(stamped)
    /\ run' = [run EXCEPT !.at = "range", !.fresh = TRUE, !.shared = FALSE]
    /\ UNCHANGED <<agg_clock, objects, slept, agg_faults, trail>>

\* make_changes fails before or after the database wrote; nothing is published.  Of
\* the two bulks of a reset one may be written and the other not.
ChangeFailed ==
    /\ Fault
    /\ run' = NoRun
    /\ \/ /\ run.at \in {"write", "global"} \/ (run.at = "range" /\ run.fresh /\ Skewed)
          /\ UNCHANGED <<stats, global, stamped>>
       \/ /\ run.at = "write"
          /\ stats' = [b \in AggBuckets |-> IF b \in run.batch THEN run.local[b] ELSE stats[b]]
          /\ stamped' = stamped \cup run.changed
          /\ UNCHANGED global
       \/ /\ run.at = "global"
          /\ global' = run.till
          /\ UNCHANGED <<stats, stamped>>
       \/ /\ run.at = "range" /\ run.fresh /\ Skewed
          /\ stats' = Zeroed(run.scope)
          /\ stamped' = stamped \cup run.scope
          /\ global' \in {0, global}
       \/ /\ run.at = "range" /\ run.fresh /\ Skewed
          /\ global' = 0
          /\ UNCHANGED <<stats, stamped>>
    /\ trail' = IF trail = "astray" \/ (stats' # stats /\ run.at = "range" /\ global' # 0)
                THEN "astray" ELSE "failed"
    /\ UNCHANGED <<agg_clock, objects, loaded_stats, memory, global_loaded, slept>>

\* The process restarts and loads everything.
RestartAggregator ==
    /\ Fault
    /\ UNCHANGED <<stats, global>>
    /\ LoadStats(AggBuckets)
    /\ run' = NoRun
    /\ slept' = TRUE
    /\ trail' = IF trail = "astray" THEN "astray" ELSE "kept"
    /\ UNCHANGED <<agg_clock, objects>>

RunAggregator == StartRun \/ Aggregate \/ EndRun \/ Reset \/ WriteBuckets \/ WriteGlobal

AggregatorNext ==
    \/ \E b \in AggBuckets : CreateBucket(b) \/ \E o \in AggObjects : ObjectCompleted(o, b)
    \/ \E o \in AggObjects : Lands(o) \/ ObjectDeleted(o)
    \/ \E touched \in SUBSET AggBuckets : OtherChange(touched)
    \/ AggTick \/ SetBack
    \/ RunAggregator \/ ChangeFailed \/ RestartAggregator

AggregatorSpec == AggregatorInit /\ [][AggregatorNext]_aggregatorVars
-----------------------------------------------------------------------------
Stats == [count : Int, last_update : AggTimes \cup {Unset}]

AggregatorTypeOK ==
    /\ agg_clock \in AggTimes /\ {global, global_loaded} \subseteq AggTimes
    /\ \A b \in AggBuckets : {stats[b], loaded_stats[b], memory[b], run.local[b]} \subseteq Stats
    /\ run.at \in {"idle", "range", "write", "global"}
    /\ run.batch \subseteq run.scope /\ run.scope \subseteq AggBuckets
    /\ stamped \subseteq AggBuckets
    /\ agg_faults \in 0..MaxAggFaults /\ trail \in {"kept", "failed", "astray"}

\* What the database says of a bucket is what was created in it less what was deleted
\* up to its last_update, each exactly once, as far as that is in the past: through ranges
\* cut in several batches, failed writes and restarts between the writes of the batches and of
\* global_last_update, buckets that are created during a run, records that get
\* their date before they are written, loads that replace what is in memory by older
\* statistics, and clocks that are set back (md_aggregator.js 33-90, 252-345).  It no longer
\* holds once a run has gone on from statistics that a failed write left in memory, or the
\* statistics were reset and global_last_update was not, until the next complete reset.
CountedOnce ==
    trail # "astray" =>
        \A b \in AggBuckets : Exists(b) /\ stats[b].last_update <= agg_clock - Grace =>
            stats[b].count = Delta(b, 0, stats[b].last_update)

\* As long as no change fails, a run begins from what the database has, although memory has
\* the last_update of an earlier run for statistics that came out the same: counting on from
\* the later of that and of global_last_update leaves nothing out (md_aggregator.js 46,
\* 100-105; system_store.js 439-440).
RunsFollowStore == [][StartRun /\ trail = "kept" => trail' = "kept"]_aggregatorVars
=============================================================================
