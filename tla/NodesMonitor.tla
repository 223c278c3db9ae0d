---------------------------- MODULE NodesMonitor ----------------------------
(***************************************************************************)
(* The life of one drive in nodes_monitor.js: whether it is online, the    *)
(* activity that rebuilds its data elsewhere when it is away, deactivated  *)
(* or deleted, and what of its state is in the nodes store.                *)
(*                                                                         *)
(* The monitor is one process whose handlers run to completion between     *)
(* awaits.  Every handler ends in _update_status, a function of the item   *)
(* of the node: UpdateStatus below.  The activity is in memory only.       *)
(*                                                                         *)
(* Time is abstracted to what it decides: how old the last heartbeat and   *)
(* the first I/O error are.  A batch that was started for an activity      *)
(* which was replaced since has no effect on the new one and is left out.  *)
(***************************************************************************)
EXTENDS Naturals, FiniteSets, FiniteSetsExt

CONSTANTS
    FirstBlocks,    \* the drive begins with the blocks 1..FirstBlocks
    MaxBlock,       \* the ids of the blocks ever put on it are 1..MaxBlock
    RebuildBatch,   \* REBUILD_NODE_BATCH_SIZE
    Detentions,     \* TRUE \in Detentions: I/O errors may put the drive in detention
    MaxNodeEvents,  \* connections, disconnections, calls of users, detentions
    MaxNodeFaults   \* failed builds and writes, builds that skip chunks, restarts

ASSUME NodesAssumption ==
    /\ MaxBlock \in Nat /\ FirstBlocks \in 0..MaxBlock /\ RebuildBatch \in Nat \ {0}
    /\ Detentions \subseteq BOOLEAN
    /\ MaxNodeEvents \in Nat /\ MaxNodeFaults \in Nat

VARIABLES
    item,           \* the item of the node in the maps of the monitor
    stored,         \* the flags of the node in the nodes store
    known,          \* item.node_from_store: those the monitor takes it to have
    saving,         \* the flags a bulk update copied to write, or NoSave
    misjudged,      \* history: a failed update left stored and known apart
    on_node,        \* the blocks on the drive, by the database
    last_block,     \* the id of the latest block ever put on it
    left,           \* history: blocks that the scan of the wiping stage misses
    node_events,
    node_faults

nodeVars == <<item, stored, known, saving, misjudged, on_node, last_block, left,
              node_events, node_faults>>
-----------------------------------------------------------------------------
NoSave == {"none"}

\* The activity of a drive and its stage.  A marker is the last block that was
\* scanned, 0 when undefined; the scan goes from the latest block back.
Stage(name) == [name |-> name, marker |-> 0, error |-> FALSE, error_marker |-> 0,
                done |-> FALSE]
NoStage     == Stage("none")
Act(reason) == [reason |-> reason, stage |-> NoStage, done |-> FALSE]
NoAct       == Act("")

\* act.running: a batch being looked up or built, and where its scan began
NoBatch == [phase |-> "none", start |-> 0, blocks |-> {}]
Running(i) == i.running.phase # "none"

\* _add_existing_node: what the monitor knows of a node it loaded
Loaded(flags, beat) ==
    [flags |-> flags,        \* decommissioning, decommissioned, deleting, ...
     connected |-> FALSE,    \* item.connection
     beat |-> beat,          \* item.node.heartbeat: "fresh", beyond the grace
                             \* of a rebuild ("old") or of a connection ("dead")
     detained |-> "no",      \* io_detention: "no", "recent", beyond the grace
     online |-> FALSE, act |-> NoAct, running |-> NoBatch,
     timer |-> FALSE,        \* rebuild_timeout
     queued |-> FALSE,       \* in _set_need_rebuild
     dirty |-> FALSE,        \* in _set_need_update
     removal |-> "no"]       \* ready_to_uninstall, ready_to_be_deleted

\* A node that was deleted in the store is not in the maps.
Present == "deleted" \notin known

NodeInit ==
    /\ item = Loaded({}, "fresh")
    /\ stored = {} /\ known = {}
    /\ saving = NoSave /\ misjudged = FALSE
    /\ on_node = 1..FirstBlocks /\ last_block = FirstBlocks /\ left = {}
    /\ node_events = 0 /\ node_faults = 0
-----------------------------------------------------------------------------
(* _update_status *)

\* _get_data_activity_reason
Reason(i) ==
    IF "deleted" \in i.flags THEN ""
    ELSE IF "deleting" \in i.flags THEN "DELETING"
    ELSE IF "decommissioned" \in i.flags THEN ""
    ELSE IF "decommissioning" \in i.flags THEN "DECOMMISSIONING"
    ELSE IF ~i.online \/ i.detained # "no" THEN "RESTORING"
    ELSE ""

\* the grace runs from the first I/O error, or else from the last heartbeat
InGrace(i) == IF i.detained # "no" THEN i.detained = "recent" ELSE i.beat = "fresh"

\* a drive that was wiped is deactivated, or ready to be removed
Wiped(i) ==
    [i EXCEPT !.flags = IF "decommissioning" \in @ THEN @ \cup {"decommissioned"} ELSE @,
              !.removal = IF "deleting" \in i.flags /\ @ = "no" THEN "uninstall" ELSE @,
              !.act.done = TRUE]

\* _update_data_activity_stage
Staged(i) ==
    LET stage == IF ~InGrace(i) /\ i.act.stage.name = "OFFLINE_GRACE"
                 THEN NoStage ELSE i.act.stage
    IN  IF InGrace(i) /\ i.act.reason = "RESTORING"
        THEN [i EXCEPT !.act.stage = Stage("OFFLINE_GRACE")]
        ELSE IF stage.name = "none" THEN [i EXCEPT !.act.stage = Stage("REBUILDING")]
        ELSE IF ~stage.done \/ stage.name = "OFFLINE_GRACE" THEN i
        ELSE IF stage.name = "WIPING" THEN Wiped(i)
        ELSE IF i.act.reason = "RESTORING" THEN [i EXCEPT !.act.done = TRUE]
        ELSE [i EXCEPT !.act.stage = Stage("WIPING")]

\* _schedule_rebuild
Schedule(i) == IF Running(i) THEN i ELSE [i EXCEPT !.timer = TRUE]

\* mutant: an activity that is done does not mark the node for update
ScheduledQuietly(i) ==
    IF i.act.done \/ (i.act.stage.name = "WIPING" /\ ~i.online) THEN [i EXCEPT !.queued = FALSE]
    ELSE IF i.act.stage.name = "OFFLINE_GRACE" THEN i
    ELSE Schedule(i)
\* _update_data_activity_schedule; what is queued is taken back, a timer is not
Scheduled(i) ==
    IF i.act.done THEN [i EXCEPT !.queued = FALSE, !.dirty = TRUE]
    ELSE IF i.act.stage.name = "WIPING" /\ ~i.online THEN [i EXCEPT !.queued = FALSE]
    ELSE IF i.act.stage.name = "OFFLINE_GRACE" THEN i
    ELSE Schedule(i)

\* _update_data_activity: another reason is another activity
UpdateActivity(i) ==
    IF Reason(i) = "" THEN [i EXCEPT !.act = NoAct, !.running = NoBatch, !.queued = FALSE]
    ELSE Scheduled(Staged(IF i.act.reason = Reason(i) THEN i
                          ELSE [i EXCEPT !.act = Act(Reason(i)), !.running = NoBatch]))

\* _update_status: a connection without a heartbeat for too long is closed
UpdateStatus(i) ==
    LET online == i.connected /\ i.beat # "dead"
    IN  UpdateActivity([i EXCEPT !.online = online, !.connected = online,
                                 !.dirty = @ \/ (i.connected /\ ~online)])
-----------------------------------------------------------------------------
(* Connections, the periodic run, and the calls of users *)

Event == node_events < MaxNodeEvents /\ node_events' = node_events + 1
NodeFault == node_faults < MaxNodeFaults /\ node_faults' = node_faults + 1

StoreUnmoved == UNCHANGED <<stored, known, saving, misjudged>>
NodeUnmoved  == StoreUnmoved /\ UNCHANGED <<on_node, last_block, left>>

\* heartbeat, _set_connection
Connect ==
    /\ Present /\ ~item.connected
    /\ Event
    /\ item' = UpdateStatus([item EXCEPT !.connected = TRUE, !.beat = "fresh", !.dirty = TRUE])
    /\ NodeUnmoved /\ UNCHANGED node_faults

\* _on_connection_close, _disconnect_node
DisconnectNode ==
    /\ Present /\ item.connected
    /\ Event
    /\ item' = UpdateStatus([item EXCEPT !.connected = FALSE, !.dirty = TRUE])
    /\ NodeUnmoved /\ UNCHANGED node_faults

\* The clock goes on while the agent gives no information.
Age ==
    /\ Present
    /\ \/ item.beat = "fresh" /\ item' = [item EXCEPT !.beat = "old"]
       \/ item.beat = "old" /\ item.connected /\ item' = [item EXCEPT !.beat = "dead"]
       \/ item.detained = "recent" /\ item' = [item EXCEPT !.detained = "old"]
    /\ NodeUnmoved /\ UNCHANGED <<node_events, node_faults>>

\* _run_node: an agent that answers _get_agent_info gives a heartbeat; one that is
\* connected and does not answer ends the run, unless its node is deleted.
RunNode ==
    /\ Present /\ "deleted" \notin item.flags
    /\ \/ /\ item.connected
          /\ item' = UpdateStatus([item EXCEPT !.beat = "fresh", !.dirty = TRUE])
       \/ /\ ~item.connected \/ "deleting" \in item.flags
          /\ item' = UpdateStatus(item)
    /\ NodeUnmoved /\ UNCHANGED <<node_events, node_faults>>

\* _test_nodes_validity in a run: I/O errors begin or end
TestNode ==
    /\ Present /\ "deleted" \notin item.flags
    /\ TRUE \in Detentions
    /\ Event
    /\ item' = UpdateStatus([item EXCEPT !.detained = IF @ = "no" THEN "recent" ELSE "no"])
    /\ NodeUnmoved /\ UNCHANGED node_faults

SetFlag(flag) ==
    /\ item' = UpdateStatus([item EXCEPT !.flags = @ \cup {flag}, !.dirty = TRUE])
    /\ NodeUnmoved /\ UNCHANGED node_faults

\* decommission_node, _set_decommission
DecommissionNode ==
    /\ Present
    /\ item.flags \cap {"decommissioning", "decommissioned"} = {}
    /\ Event
    /\ SetFlag("decommissioning")

\* recommission_node, _clear_decommission
RecommissionNode ==
    /\ Present
    /\ item.flags \cap {"decommissioning", "decommissioned"} # {}
    /\ Event
    /\ item' = UpdateStatus([item EXCEPT !.flags = @ \ {"decommissioning", "decommissioned"},
                                         !.dirty = TRUE])
    /\ NodeUnmoved /\ UNCHANGED node_faults

\* delete_node, _delete_node
DeleteNode ==
    /\ Present
    /\ "deleting" \notin item.flags
    /\ Event
    /\ SetFlag("deleting")

\* _remove_hideable_nodes, _hide_node: a deleted drive that is away, once its
\* activity is neither in its grace nor rebuilding
HideNode ==
    /\ Present /\ "deleted" \notin item.flags
    /\ "hidden" \notin item.flags
    /\ "deleting" \in item.flags
    /\ ~item.online
    /\ item.act.stage.name \notin {"OFFLINE_GRACE", "REBUILDING"}
    /\ item' = UpdateStatus([item EXCEPT !.flags = @ \cup {"hidden"}, !.dirty = TRUE])
    /\ NodeUnmoved /\ UNCHANGED <<node_events, node_faults>>

\* _uninstall_deleting_node: nothing to uninstall for the drive of an agent
UninstallNode ==
    /\ Present
    /\ item.removal = "uninstall"
    /\ item' = [item EXCEPT !.removal = "deleted"]
    /\ NodeUnmoved /\ UNCHANGED <<node_events, node_faults>>
-----------------------------------------------------------------------------
(* Rebuilding *)

\* the timer of _schedule_rebuild
RebuildTimer ==
    /\ Present /\ item.timer
    /\ item' = [item EXCEPT !.timer = FALSE, !.queued = TRUE]
    /\ NodeUnmoved /\ UNCHANGED <<node_events, node_faults>>

\* _rebuild_worker, _rebuild_node up to its first await
RebuildWorker ==
    /\ Present /\ item.queued
    /\ item' = IF item.act = NoAct \/ Running(item) THEN [item EXCEPT !.queued = FALSE]
               ELSE [item EXCEPT !.queued = FALSE,
                                 !.running = [phase |-> "query",
                                              start |-> item.act.stage.marker,
                                              blocks |-> {}]]
    /\ NodeUnmoved /\ UNCHANGED <<node_events, node_faults>>

\* iterate_node_chunks: the latest blocks before the marker
NextBlocks(marker) ==
    LET before == {b \in on_node : marker = 0 \/ b < marker}
    IN  {b \in before : Cardinality({d \in before : d >= b}) <= RebuildBatch}

\* the marker is updated "even if failed to advance the scan"
BatchFound ==
    /\ Present /\ item.running.phase = "query"
    /\ LET found == NextBlocks(item.running.start)
       IN  item' = [item EXCEPT !.running.phase = "build", !.running.blocks = found,
                                !.act.stage.marker = IF found = {} THEN 0 ELSE Min(found)]
    /\ NodeUnmoved /\ UNCHANGED <<node_events, node_faults>>

\* mutants: the end of the scan is the end of the stage, errors or not; a scan with
\* errors is not begun again
EndOfScanAnyway(act) == [act EXCEPT !.stage.done = TRUE]
EndOfScanForgets(act) ==
    IF act.stage.error THEN [act EXCEPT !.done = TRUE]
    ELSE [act EXCEPT !.stage.done = TRUE]
\* the scan came to its end: done, or again from the first batch that failed
EndOfScan(act) ==
    IF act.stage.error
    THEN [act EXCEPT !.stage.marker = act.stage.error_marker, !.stage.error = FALSE,
                     !.stage.error_marker = 0]
    ELSE [act EXCEPT !.stage.done = TRUE]

\* build_chunks succeeded: it put the data elsewhere and deleted the blocks, as it
\* does with those of a drive that is not writable.  It succeeds as well when the
\* builder skipped chunks, those without parts yet or whose keys it cannot handle;
\* a stage that wipes does not come back to them.
BatchBuilt ==
    /\ Present /\ item.running.phase = "build"
    /\ \E skipped \in SUBSET item.running.blocks :
         /\ on_node' = on_node \ (item.running.blocks \ skipped)
         /\ left' = IF item.act.stage.name = "WIPING" THEN left \cup skipped ELSE left
         /\ IF skipped = {} THEN UNCHANGED node_faults ELSE NodeFault
    /\ item' = UpdateActivity([item EXCEPT !.running = NoBatch,
                   !.act = IF @.stage.marker # 0 THEN @ ELSE EndOfScan(@)])
    /\ StoreUnmoved /\ UNCHANGED <<last_block, node_events>>

\* the first error of a scan is where it will begin again
FailedAt(act, start) ==
    [act EXCEPT !.stage.error = TRUE,
                !.stage.error_marker = IF act.stage.error THEN @ ELSE start]

\* the lookup or the build failed
BatchFails ==
    /\ Present /\ Running(item)
    /\ NodeFault
    /\ item' = UpdateActivity([item EXCEPT !.running = NoBatch,
                   !.act = FailedAt(@, item.running.start)])
    /\ NodeUnmoved /\ UNCHANGED node_events

\* The drive is being wiped, or was, or will be taken for it after a restart.
TooLate ==
    \/ item.act.stage.name = "WIPING" \/ item.removal # "no"
    \/ item.flags \cap {"decommissioned", "deleted"} # {}
    \/ "decommissioned" \in stored \cup saving

\* put_mapping of a client's block.  The allocator took the drive for writable when it
\* last looked, the write went on for minutes, and nothing is checked in the end: it
\* may come at any time, and too late for the wiping scan, which goes from the latest
\* block back.
PutBlock ==
    /\ last_block < MaxBlock
    /\ last_block' = last_block + 1
    /\ on_node' = on_node \cup {last_block + 1}
    /\ left' = IF TooLate THEN left \cup {last_block + 1} ELSE left
    /\ StoreUnmoved /\ UNCHANGED <<item, node_events, node_faults>>
-----------------------------------------------------------------------------
(* The nodes store *)

SaveTaken == [item EXCEPT !.dirty = FALSE,
                 !.flags = IF item.removal = "deleted" THEN @ \cup {"deleted"} ELSE @]

\* _update_nodes_store, one at a time; bulk_update copies what it writes
StartSave ==
    /\ Present /\ item.dirty /\ saving = NoSave
    /\ item' = SaveTaken
    /\ saving' = item'.flags
    /\ UNCHANGED <<stored, known, misjudged, on_node, last_block, left, node_events, node_faults>>

\* make_object_diff: only what differs from node_from_store is written.  A flag is a
\* time, and that of a deactivation which was taken back and called again differs.
Patches ==
    {(stored \cup (saving \ known) \cup again) \ (known \ saving) :
        again \in SUBSET (saving \cap known \cap {"decommissioning", "decommissioned"})}

EndSave ==
    /\ saving # NoSave
    /\ saving' = NoSave
    /\ known' = saving
    /\ stored' \in Patches
    /\ misjudged' = (misjudged /\ stored' # saving)
    /\ UNCHANGED <<item, on_node, last_block, left, node_events, node_faults>>

\* mutant: a failed update is not marked to retry
UnsavedForgotten == item
Unsaved == [item EXCEPT !.dirty = TRUE]
\* The bulk failed and the node is marked again, or it was done all the same, or
\* another node is marked: the indexes of the errors are those of the updates and not
\* of the items, of which a bulk without deletions leaves out the unchanged ones.
SaveFails ==
    /\ saving # NoSave
    /\ NodeFault
    /\ saving' = NoSave
    /\ \/ item' = Unsaved
          /\ UNCHANGED <<stored, known, misjudged>>
       \/ item' = Unsaved
          /\ stored' \in Patches /\ misjudged' = TRUE /\ UNCHANGED known
       \/ "deleted" \notin saving
          /\ known' = saving /\ misjudged' = TRUE /\ UNCHANGED <<item, stored>>
    /\ UNCHANGED <<on_node, last_block, left, node_events>>

\* The process restarts, before or after the database did a pending update.
RestartMonitor ==
    /\ Present
    /\ NodeFault
    /\ stored' \in IF saving = NoSave THEN {stored} ELSE {stored} \cup Patches
    /\ known' = stored' /\ misjudged' = FALSE
    /\ saving' = NoSave
    /\ item' = Loaded(stored', item.beat)
    /\ UNCHANGED <<on_node, last_block, left, node_events>>
-----------------------------------------------------------------------------
NodeNext ==
    \/ Connect \/ DisconnectNode \/ Age \/ RunNode \/ TestNode
    \/ DecommissionNode \/ RecommissionNode \/ DeleteNode \/ HideNode \/ UninstallNode
    \/ RebuildTimer \/ RebuildWorker \/ BatchFound \/ BatchBuilt \/ BatchFails \/ PutBlock
    \/ StartSave \/ EndSave \/ SaveFails \/ RestartMonitor

\* A run has more to do than to take a heartbeat.
RunDue ==
    \/ item.connected /\ item.beat = "dead"
    \/ item.act.reason # Reason(item) \/ item.act.done
    \/ item.act.stage.name = "OFFLINE_GRACE" /\ ~InGrace(item)

(* Timers fire, calls end, and the monitor runs every minute: it is enough to count *)
(* on the runs that are due.                                                       *)
NodeFairness ==
    /\ WF_nodeVars(RebuildTimer) /\ WF_nodeVars(RebuildWorker)
    /\ WF_nodeVars(BatchFound \/ BatchBuilt)
    /\ WF_nodeVars(RunDue /\ RunNode) /\ WF_nodeVars(HideNode \/ UninstallNode)
    /\ WF_nodeVars(StartSave \/ EndSave)

NodeSpec == NodeInit /\ [][NodeNext]_nodeVars /\ NodeFairness
-----------------------------------------------------------------------------
(* Properties *)

Flags == {"decommissioning", "decommissioned", "deleting", "hidden", "deleted"}

\* A batch runs only for an activity, and it has no blocks before it looked them up.
NodeTypeOK ==
    /\ item.flags \subseteq Flags /\ stored \subseteq Flags /\ known \subseteq Flags
    /\ saving \subseteq Flags \/ saving = NoSave
    /\ misjudged \in BOOLEAN
    /\ on_node \subseteq 1..last_block /\ left \subseteq Nat
    /\ Running(item) => item.act # NoAct
    /\ item.running.phase # "build" => item.running.blocks = {}

\* "The node will be deleted once all stored data is secured": a drive becomes
\* deactivated or is deleted only when no block is left on it, whatever builds failed,
\* whatever was still written to it before the wiping began and wherever the monitor
\* restarted.  The code does leave two kinds of blocks, and `left` records them: those
\* put on the drive when its wiping had begun (node_allocator.js 157-180) and those of
\* chunks that the builder skipped while it was wiped (map_builder.js 140-152).
EvacuatedWhenDone ==
    (item.flags \cap {"decommissioned", "deleted"} # {} \/ item.removal # "no")
        => on_node \subseteq left

\* What is not marked for update is what the store has, or is being given: no
\* change made while an update is under way is lost, although updates write only
\* what differs from what the monitor takes the store to have.  It is lost when an
\* update that failed was done all the same and the change is taken back before the
\* retry, or when the errors of a bulk mark another node (nodes_store.js 89-148).
StoreInSync ==
    Present /\ ~item.dirty => IF saving = NoSave THEN stored = item.flags \/ misjudged
                             ELSE saving = item.flags

\* The same of a drive that is away and is hidden from the users as deleted.
HiddenOnceSecured == "hidden" \in item.flags => on_node \subseteq left

\* A deactivation ends, unless it is taken back or the drive is away.
DecommissionEnds ==
    []<>(\/ "decommissioned" \in item.flags \/ "decommissioning" \notin item.flags
         \/ "deleting" \in item.flags \/ ~item.online)

\* A deletion ends: the drive is gone from the store, or hidden, unless a failed update
\* left the monitor with a wrong idea of the store.
DeletionEnds ==
    []<>("deleting" \in stored => stored \cap {"deleted", "hidden"} # {} \/ misjudged)
=============================================================================
