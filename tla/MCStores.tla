------------------------------ MODULE MCStores ------------------------------
(***************************************************************************)
(* What a process keeps beside a store: the copy of the configuration      *)
(* (SystemStore), the statistics that it adds up in there (MdAggregator),  *)
(* the cache and the usage of an agent's blocks (BlockStore).  Each is on  *)
(* its small instance: a behavior is one of the module that `who` names,   *)
(* while the others stay where they began.                                 *)
(*                                                                         *)
(* BlockStore is explored in two slices, as its cache and its usage have   *)
(* nothing to do with each other but the requests that change both.        *)
(***************************************************************************)
EXTENDS MCSystemStore, BlockStore, MdAggregator

\* the larger block fills the cache
SomeLengths == [b \in CacheKeys |-> IF b = "small" THEN 1 ELSE 2]

VARIABLE who

\* processes are interchangeable: the second one begins while the first is busy
First == CHOOSE p \in StoreProcs : TRUE
OneAfterTheOther ==
    request[First].kind = "none" => \A p \in StoreProcs \ {First} :
        request[p].kind = "none" => request'[p].kind = "none"

\* reads race writes and deletes, of one block at a time; the usage was counted before,
\* and the save of what changed is still to come
ReadsSlice ==
    /\ StoreNext /\ OneAfterTheOther
    /\ usage = Unknown \/ recount # Unknown => requests' = 0 /\ cache' = EmptyCache
    /\ \A p \in StoreProcs : request'[p].blocks # CacheKeys
    /\ store_faults' = 0 /\ saver' # "writing" /\ prealloc' = {}

\* writes, deletes, counts, saves, faults and restarts without reads, one block
\* being preallocated, as long as the usage is to be what it should
UsageSlice ==
    /\ StoreNext /\ OneAfterTheOther
    /\ ~drift /\ prealloc' \subseteq {"small"}
    /\ \A i \in Items : cache'.item[i].load = "none"

\* documents are interchangeable: the first one to come is d1; time passes when a call is
\* there to read the clock
SystemSlice ==
    /\ Next
    /\ d2 \in Pending' \ Pending => d1 \in Pending \/ db[d1].ver # 0
    /\ clock' # clock => \E p \in Procs : queue[p] # <<>> /\ Head1(p).stage = "wait"

StoresInit ==
    /\ who \in {"system_store", "md_aggregator", "block_reads", "block_usage"}
    /\ Init /\ StoreInit /\ AggregatorInit
    /\ who = "block_reads" => DiskUsage > 0
    /\ who \in {"system_store", "md_aggregator"} => DiskUsage = 0
    /\ ~Live(d2)     \* if one is there, it is d1
    /\ who # "system_store" => \A d \in Docs : ~Live(d)

StoresNext ==
    /\ UNCHANGED who
    /\ \/ who = "system_store"  /\ SystemSlice     /\ UNCHANGED <<storeVars, aggregatorVars>>
       \/ who = "md_aggregator" /\ AggregatorNext  /\ UNCHANGED <<vars, storeVars>>
       \/ who = "block_reads"   /\ ReadsSlice      /\ UNCHANGED <<vars, aggregatorVars>>
       \/ who = "block_usage"   /\ UsageSlice      /\ UNCHANGED <<vars, aggregatorVars>>

\* Fairness asks nothing of a system store that stays where it began
StoresSpec == StoresInit /\ [][StoresNext]_<<who, vars, storeVars, aggregatorVars>> /\ Fairness

StoresTypeOK == TypeOK /\ StoreTypeOK
=============================================================================
