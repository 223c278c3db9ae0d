----------------------------- MODULE BlockStore -----------------------------
(***************************************************************************)
(* The blocks an agent keeps in its file system:                           *)
(* agent/block_store_services/block_store_base.js and block_store_fs.js    *)
(* over the cache of LRUCache and the lock of KeysLock.                    *)
(*                                                                         *)
(* A block is a data file and a meta file; the usage of the store is kept  *)
(* in memory (its size; the number of blocks is left out), corrected by    *)
(* every write and delete, and saved to a file seconds after it changed.   *)
(* The content of a block never changes, so     *)
(* the model tells a written block from a missing one.  Clients retry, so  *)
(* a block may be written and deleted again, by requests that overlap.     *)
(* The lock is abstracted to what KeysLock shows of it.                    *)
(***************************************************************************)
EXTENDS LRUCache

CONSTANTS
    StoreProcs,     \* requests that write or delete, in progress
    UsageLimit,     \* usage_limit
    Spare,          \* the spare space _check_write_space asks for
    Unknown,        \* this._usage is not set, or there is no usage file
    MaxRequests,    \* bound on write and delete requests
    MaxStoreFaults  \* bound on failing files, failing saves and crashes

ASSUME UnknownAssumption == Unknown \notin Int
ASSUME SpaceAssumption   == UsageLimit \in Nat /\ Spare \in Nat
ASSUME BoundsAssumption  == MaxRequests \in Nat /\ MaxStoreFaults \in Nat

BlockIds   == CacheKeys
Files      == {"data", "meta"}
MetaLength == 1

VARIABLES
    disk,      \* the files of each block
    cache,     \* block_cache
    request,   \* the request of each process
    usage,     \* _usage
    file,      \* what the usage file holds
    saver,     \* update_usage_work_item: "idle", "timer" or "writing"
    needed,    \* update_usage_needed
    saving,    \* the usage that is being written
    counting,  \* the usage that _count_usage found, until it is set
    recount,   \* the usage that _count_usage set and is writing to the file
    misfiled,  \* history: the last write of the file was a count's, that failed or came late
    reserved,  \* blocks that were preallocated and are not written yet
    prealloc,  \* blocks that were preallocated: the block_md of a write says so
    raced,     \* history: blocks that got in the cache while they were deleted
    drift,     \* history: something the usage does not account for happened
    requests,  \* requests so far
    store_faults

storeVars == <<disk, cache, request, usage, file, saver, needed, saving, counting,
               recount, misfiled, reserved, prealloc, raced, drift, requests, store_faults>>
countVars == <<counting, recount, misfiled>>
usageVars == <<usage, file, saver, needed, saving, countVars, reserved, prealloc, drift>>

NoRequest == [kind |-> "none", blocks |-> {}, is_preallocated |-> FALSE,
              stage |-> "idle", todo |-> {}, found |-> {}]
Running(p)     == request[p].stage = "running"
NobodyRuns     == \A p \in StoreProcs : ~Running(p)
Deleting(b)    == \E p \in StoreProcs : request[p].kind = "delete" /\ b \in request[p].blocks
FileLength(b, f) == IF f = "data" THEN Length[b] ELSE MetaLength
LengthOf(F)    == SumFunctionOnSet([x \in BlockIds \X Files |-> FileLength(x[1], x[2])], F)
FilesOnDisk    == {x \in BlockIds \X Files : x[2] \in disk[x[1]]}
DiskUsage      == LengthOf(FilesOnDisk)

StoreInit ==
    /\ \E B \in {{}, BlockIds} : disk = [b \in BlockIds |-> IF b \in B THEN Files ELSE {}]
    /\ cache = EmptyCache
    /\ request = [p \in StoreProcs |-> NoRequest]
    /\ usage = Unknown /\ file = Unknown
    /\ saver = "idle" /\ needed = FALSE /\ saving = Unknown /\ counting = Unknown
    /\ recount = Unknown /\ misfiled = FALSE
    /\ reserved = {} /\ prealloc = {}
    /\ raced = {} /\ drift = FALSE
    /\ requests = 0 /\ store_faults = 0

\* _check_write_space; it throws as well while the usage is not known
HasSpace(length) == usage # Unknown /\ UsageLimit - usage >= length + Spare

\* _update_usage: the change is counted and a save is due, also while one runs
AddUsage(size) ==
    IF usage = Unknown \/ size = 0
    THEN UNCHANGED <<usage, needed, saver>>
    ELSE /\ usage' = usage + size
         /\ needed' = TRUE
         /\ saver' = IF saver = "idle" THEN "timer" ELSE saver

-----------------------------------------------------------------------------
(* Reads *)

\* read_block: from the cache, or by a load that concurrent reads share
ReadBlock(b) ==
    /\ cache.map[b] = NoItem => VacantItems(cache) # {}
    /\ cache' = Get(cache, b)
    /\ UNCHANGED <<disk, request, usageVars, raced, requests, store_faults>>

\* _read_block_and_verify: both files are read and the digest matches
ReadFiles(i) ==
    LET b == cache.item[i].id
    IN  /\ cache.item[i].load = "reading"
        /\ disk[b] = Files
        /\ cache' = [cache EXCEPT !.item[i].load = "read"]
        /\ raced' = IF Deleting(b) /\ cache.map[b] = i THEN raced \cup {b} ELSE raced
        /\ UNCHANGED <<disk, request, usageVars, requests, store_faults>>

\* the block gets in the cache
EndRead(i) ==
    /\ cache.item[i].load = "read"
    /\ cache' = Loaded(cache, i)
    /\ UNCHANGED <<disk, request, usageVars, raced, requests, store_faults>>

\* a file is missing, or it was read while it was being overwritten
ReadThrows(i) ==
    LET b == cache.item[i].id
    IN  /\ cache.item[i].load = "reading"
        /\ disk[b] # Files \/ \E p \in StoreProcs : Running(p) /\ b \in request[p].blocks
        /\ cache' = LoadThrew(cache, i)
        /\ UNCHANGED <<disk, request, usageVars, raced, requests, store_faults>>

-----------------------------------------------------------------------------
(* Writes and deletes *)

\* a request arrives: the blocks leave the cache, then it waits for the lock
Arrive(p, kind, B) ==
    /\ request[p].kind = "none"
    /\ requests < MaxRequests
    /\ cache' = Invalidate(cache, B)
    /\ raced' = raced \ B
    /\ request' = [request EXCEPT ![p] = [NoRequest EXCEPT !.kind = kind, !.blocks = B,
                                                !.is_preallocated = kind = "write" /\ B \subseteq prealloc, !.stage = "waiting"]]
    /\ requests' = requests + 1
    /\ UNCHANGED <<disk, usageVars, store_faults>>

\* write_block_internal: no need to verify space for a preallocated block
WriteBlock(p, b) ==
    /\ b \in prealloc \/ HasSpace(Length[b])
    /\ Arrive(p, "write", {b})

DeleteStored(p, B) == B # {} /\ Arrive(p, "delete", B)

\* block_modify_lock is granted; _write_block looks for the file it overwrites
Lock(p) ==
    LET B == request[p].blocks
    IN  /\ request[p].stage = "waiting"
        /\ \A q \in StoreProcs : Running(q) => request[q].blocks \cap B = {}
        /\ request' = [request EXCEPT
               ![p].stage = "running",
               ![p].todo  = B \X Files,
               ![p].found = IF request[p].kind = "write" THEN FilesOnDisk \cap (B \X {"data"}) ELSE {}]
        /\ drift' = (drift \/ counting # Unknown)
        /\ UNCHANGED <<disk, cache, usage, file, saver, needed, saving, countVars,
                       reserved, prealloc, raced, requests, store_faults>>

\* _write_block: the two files are written at the same time
WriteFile(p, x) ==
    /\ request[p].kind = "write" /\ x \in request[p].todo
    /\ disk' = [disk EXCEPT ![x[1]] = @ \cup {x[2]}]
    /\ request' = [request EXCEPT ![p].todo = @ \ {x}]
    /\ UNCHANGED <<cache, usageVars, raced, requests, store_faults>>

\* mutant: what is overwritten is not subtracted
WrittenLengthOnly(p, b) == IF request[p].is_preallocated THEN MetaLength ELSE Length[b] + MetaLength
\* what a write adds to the usage: the data of a preallocated block is counted already
WrittenLength(p, b) ==
    (IF request[p].is_preallocated THEN MetaLength ELSE Length[b] + MetaLength)
        - (IF request[p].found # {} THEN Length[b] + MetaLength ELSE 0)

\* both files are written: usage, cache, unlock
EndWrite(p) ==
    \E b \in request[p].blocks :
        /\ request[p].kind = "write" /\ Running(p) /\ request[p].todo = {}
        /\ cache.map[b] = NoItem => VacantItems(cache) # {}
        /\ AddUsage(WrittenLength(p, b))
        /\ cache' = PutInCache(cache, b)
        /\ raced' = IF Deleting(b) THEN raced \cup {b} ELSE raced
        /\ reserved' = IF request[p].is_preallocated THEN reserved \ {b} ELSE reserved
        /\ drift' = (drift \/ (usage # Unknown /\ request[p].is_preallocated /\ b \notin reserved))
        /\ request' = [request EXCEPT ![p] = NoRequest]
        /\ UNCHANGED <<disk, file, saving, countVars, prealloc, requests, store_faults>>

\* a file cannot be written: the request ends, and what it wrote stays, not counted
WriteThrows(p) ==
    /\ request[p].kind = "write" /\ request[p].todo # {}
    /\ store_faults < MaxStoreFaults
    /\ request' = [request EXCEPT ![p] = NoRequest]
    /\ drift' = TRUE
    /\ store_faults' = store_faults + 1
    /\ UNCHANGED <<disk, cache, usage, file, saver, needed, saving, countVars,
                   reserved, prealloc, raced, requests>>

\* _delete_block: what was on disk is gone and, after the last file, not counted
DeleteFile(p, x) ==
    LET b     == x[1]
        todo  == request[p].todo \ {x}
        found == request[p].found \cup (FilesOnDisk \cap {x})
        ended == {y \in todo : y[1] = b} = {} /\ <<b, "data">> \in found /\ <<b, "failed">> \notin found
    IN  /\ request[p].kind = "delete" /\ x \in request[p].todo
        /\ disk' = [disk EXCEPT ![b] = @ \ {x[2]}]
        /\ request' = [request EXCEPT ![p].todo = todo, ![p].found = found]
        /\ IF ended
           THEN AddUsage(-LengthOf({y \in found : y[1] = b}))
           ELSE UNCHANGED <<usage, needed, saver>>
        /\ UNCHANGED <<cache, file, saving, countVars, reserved, prealloc, raced, drift,
                       requests, store_faults>>

\* a file cannot be removed: its block is reported as failed and stays counted
DeleteThrows(p, x) ==
    /\ request[p].kind = "delete" /\ x \in request[p].todo
    /\ store_faults < MaxStoreFaults
    /\ request' = [request EXCEPT ![p].todo = @ \ {x}, ![p].found = @ \cup {<<x[1], "failed">>}]
    /\ drift' = TRUE
    /\ store_faults' = store_faults + 1
    /\ UNCHANGED <<disk, cache, usage, file, saver, needed, saving, countVars,
                   reserved, prealloc, raced, requests>>

\* _delete_blocks answered: unlock
EndDelete(p) ==
    /\ request[p].kind = "delete" /\ Running(p) /\ request[p].todo = {}
    /\ request' = [request EXCEPT ![p] = NoRequest]
    /\ UNCHANGED <<disk, cache, usageVars, raced, requests, store_faults>>

-----------------------------------------------------------------------------
(* The usage of the store *)

\* preallocate_block asks for space and counts the length, whatever it knows of the block:
\* an allocation that is tried again preallocates its blocks again
PreallocateBlock(b) ==
    /\ HasSpace(Length[b])
    /\ AddUsage(Length[b])
    /\ prealloc' = prealloc \cup {b}
    /\ reserved' = reserved \cup {b}
    /\ drift' = (drift \/ b \in reserved)
    /\ UNCHANGED <<disk, cache, request, file, saving, countVars, raced, requests, store_faults>>

\* get_storage_info -> _count_usage, when the usage is not known: the files are listed
StartCount ==
    /\ usage = Unknown /\ counting = Unknown
    /\ counting' = DiskUsage
    /\ drift' = (drift \/ ~NobodyRuns)
    /\ UNCHANGED <<disk, cache, request, usage, file, saver, needed, saving, recount, misfiled,
                   reserved, prealloc, raced, requests, store_faults>>

\* the listing ended: the usage is known, and its file is being written
EndCount ==
    /\ counting # Unknown
    /\ usage' = counting /\ recount' = counting
    /\ counting' = Unknown
    /\ drift' = (drift \/ reserved # {})
    /\ UNCHANGED <<disk, cache, request, file, saver, needed, saving, misfiled,
                   reserved, prealloc, raced, requests, store_faults>>

\* the file has what was counted, though the usage may have changed, and been saved, since
CountWritten ==
    /\ recount # Unknown
    /\ file' = recount /\ recount' = Unknown
    /\ misfiled' = (recount # usage)
    /\ UNCHANGED <<disk, cache, request, usage, saver, needed, saving, counting,
                   reserved, prealloc, raced, drift, requests, store_faults>>

\* the file could not be written, or not to its end: get_storage_info throws, the usage
\* stays set and no save is due
CountNotWritten ==
    /\ recount # Unknown /\ store_faults < MaxStoreFaults
    /\ file' \in {file, Unknown} /\ recount' = Unknown
    /\ misfiled' = TRUE
    /\ store_faults' = store_faults + 1
    /\ UNCHANGED <<disk, cache, request, usage, saver, needed, saving, counting,
                   reserved, prealloc, raced, drift, requests>>

\* _write_usage: the usage is taken, and changes from now on need another save
StartSaveUsage ==
    /\ saver = "timer"
    /\ saver' = "writing" /\ needed' = FALSE /\ saving' = usage
    /\ UNCHANGED <<disk, cache, request, usage, file, countVars, reserved, prealloc,
                   raced, drift, requests, store_faults>>

\* mutant: no look at the changes made while the file was written
EndSaveUsageOnce ==
    /\ saver = "writing"
    /\ file' = saving /\ saving' = Unknown /\ misfiled' = FALSE
    /\ saver' = "idle"
    /\ UNCHANGED <<disk, cache, request, usage, needed, counting, recount, reserved, prealloc,
                   raced, drift, requests, store_faults>>
\* the file was replaced; another save is due if the usage changed meanwhile
EndSaveUsage ==
    /\ saver = "writing"
    /\ file' = saving /\ saving' = Unknown /\ misfiled' = FALSE
    /\ saver' = IF needed THEN "timer" ELSE "idle"
    /\ UNCHANGED <<disk, cache, request, usage, needed, counting, recount, reserved, prealloc,
                   raced, drift, requests, store_faults>>

\* the file could not be replaced: the save is tried again
SaveUsageThrows ==
    /\ saver = "writing" /\ store_faults < MaxStoreFaults
    /\ saver' = "timer" /\ needed' = TRUE /\ saving' = Unknown
    /\ store_faults' = store_faults + 1
    /\ UNCHANGED <<disk, cache, request, usage, file, countVars, reserved, prealloc,
                   raced, drift, requests>>

\* the agent stops and starts again: init() recovers the usage from the file, if it can
\* be read: a count may have been writing it
RestartAgent ==
    /\ store_faults < MaxStoreFaults
    /\ cache' = EmptyCache
    /\ request' = [p \in StoreProcs |-> NoRequest]
    /\ \/ file' = file
       \/ recount # Unknown /\ file' = Unknown
    /\ usage' = file'
    /\ saver' = "idle" /\ needed' = FALSE /\ saving' = Unknown /\ counting' = Unknown
    /\ recount' = Unknown /\ misfiled' = FALSE
    /\ drift' = (drift \/ (file' # Unknown /\ file' # usage) \/ ~NobodyRuns)
    /\ store_faults' = store_faults + 1
    /\ UNCHANGED <<disk, reserved, prealloc, raced, requests>>

StoreNext ==
    \/ \E b \in BlockIds : ReadBlock(b) \/ PreallocateBlock(b)
    \/ \E i \in Items : ReadFiles(i) \/ EndRead(i) \/ ReadThrows(i)
    \/ \E p \in StoreProcs :
          \/ \E b \in BlockIds : WriteBlock(p, b)
          \/ \E B \in SUBSET BlockIds : DeleteStored(p, B)
          \/ Lock(p) \/ EndWrite(p) \/ WriteThrows(p) \/ EndDelete(p)
          \/ \E x \in BlockIds \X Files : WriteFile(p, x) \/ DeleteFile(p, x) \/ DeleteThrows(p, x)
    \/ StartCount \/ EndCount \/ CountWritten \/ CountNotWritten
    \/ StartSaveUsage \/ EndSaveUsage \/ SaveUsageThrows
    \/ RestartAgent

StoreSpec == StoreInit /\ [][StoreNext]_storeVars

-----------------------------------------------------------------------------
(* Properties *)

StoreTypeOK ==
    /\ disk \in [BlockIds -> SUBSET Files]
    /\ cache.map \in [BlockIds -> Items \cup {NoItem}] /\ cache.list \in Seq(Items)
    /\ \A p \in StoreProcs : request[p].blocks \subseteq BlockIds
    /\ {usage, file, saving, counting, recount} \subseteq Int \cup {Unknown} /\ misfiled \in BOOLEAN
    /\ saver \in {"idle", "timer", "writing"} /\ needed \in BOOLEAN
    /\ reserved \subseteq prealloc /\ prealloc \subseteq BlockIds /\ raced \subseteq BlockIds
    /\ drift \in BOOLEAN /\ requests \in 0..MaxRequests /\ store_faults \in 0..MaxStoreFaults

\* The cache counts what it holds and stays within its limit, whatever was evicted or
\* invalidated while it was being loaded (lru.js `_sanity`).
BlockCacheAgrees == CacheAgrees(cache)

\* A block that a read would find in the cache is on disk, and a load that will put it
\* there read what is on disk, unless it was read or written while being deleted:
\* what was cached or read before the delete came does not outlive it.
CachedIsStored ==
    \A b \in BlockIds :
        LET i == cache.map[b]
        IN  i # NoItem /\ (cache.item[i].data \/ cache.item[i].load = "read") /\ b \notin raced
                => disk[b] = Files

\* When no request is changing files, the usage is the length of the files and of what
\* was preallocated, unless a file operation failed, the agent lost a change that was
\* not saved yet, or a block was preallocated twice before it was written (a retry of
\* map_server.js, after which the usage stays too large) or written twice after.
UsageCounted ==
    ~drift /\ usage # Unknown /\ NobodyRuns =>
        usage = DiskUsage + SumFunctionOnSet(Length, reserved)

\* While the usage file is behind, another save is due or on its way, or a count is
\* writing the file: unless the last to write it was a count, that failed or overtook
\* a save, which nothing makes up for until the usage changes again.
UsageSaved ==
    usage # file =>
        \/ saver = "timer"
        \/ saver = "writing" /\ (needed \/ saving = usage)
        \/ recount # Unknown
        \/ misfiled
=============================================================================
