------------------------------- MODULE Chunks -------------------------------
(***************************************************************************)
(* The data of objects: parts refer to chunks, chunks to blocks, blocks    *)
(* are stored on agents.  Uploads of one content to one bucket (GetMapping *)
(* with dedup, PutMapping, copy_object_mapping) race with the background   *)
(* workers that take data away: the objects reclaimer over map_deleter,    *)
(* the scrubber over MapBuilder, the agent blocks reclaimer and the DB     *)
(* cleaner.                                                                *)
(*                                                                         *)
(* Every object has one part.  Operations under one Promise.all are        *)
(* pending together and finish in any order.  Chunk ids are numbers in the *)
(* order they are made.  A run of MapBuilder on a chunk excludes others by *)
(* builder_lock (module KeysLock), so one builder is enough.               *)
(***************************************************************************)
EXTENDS Integers, FiniteSets

CONSTANTS
    Objs,        \* objects that may be uploaded
    Chunks,      \* bound: ids of chunks
    Blocks,      \* bound: ids of blocks
    MaxFaults,   \* bound: crashes of the background workers and database errors
    MaxBuilds,   \* bound: blocks the builder adds
    Enabled      \* the background workers that config enables

ASSUME ChunksAssumption   == Chunks \subseteq Nat \ {0}
ASSUME BlocksAssumption   == Blocks \subseteq Nat \ {0}
ASSUME BoundsAssumption   == MaxFaults \in Nat /\ MaxBuilds \in Nat
ASSUME EnabledAssumption  ==
    Enabled \subseteq {"object_reclaimer", "scrubber", "agent_blocks_reclaimer", "db_cleaner"}

VARIABLES
    obj,      \* object MDs
    part,     \* the part of each object: [chunk, state]
    chunk,    \* datachunks
    old,      \* chunks created more than an hour ago
    block,    \* datablocks: [chunk, state]
    onNode,   \* blocks stored on their agent
    up,       \* upload of each object: [pc, chunk, block, todo]
    job,      \* what each background coroutine waits for and works on
    batch,    \* objects the objects reclaimer is working on
    failed,   \* those of them whose mappings could not be deleted
    phase,    \* the collection the DB cleaner looks at next
    faults,   \* number of faults so far
    builds,   \* number of blocks added by the builder
    late      \* history: parts inserted when their chunk was already given up

db   == <<obj, part, chunk, old, block, onNode>>
vars == <<obj, part, chunk, old, block, onNode, up, job, batch, failed, phase,
          faults, builds, late>>

Scrubber       == "scrubber"
AgentReclaimer == "agent_blocks_reclaimer"
Workers        == Objs \cup {Scrubber, AgentReclaimer}
ASSUME WorkersAssumption == Objs \cap {Scrubber, AgentReclaimer} = {}

Steps   == {"find", "parts", "unref", "load", "chunks", "blocks", "nodes",
            "mark", "reload", "build", "insert"}
Inserts == {"blocks", "chunks", "parts"}
NoUpload == [pc |-> "none", chunk |-> 0, block |-> 0, todo |-> {}]
IdleJob == [pending |-> {}, chunks |-> {}, blocks |-> {}, build |-> {}]
Idle(a) == job[a].pending = {}

-----------------------------------------------------------------------------
(* Queries of md_store.js.                                                 *)

Referenced(c)   == \E o \in Objs : part[o] = [chunk |-> c, state |-> "live"]
InDB(c)         == chunk[c] \in {"live", "deleted"}
LiveBlocks(C)   == {b \in Blocks : block[b].state = "live" /\ block[b].chunk \in C}
\* mutant: every chunk of a deleted object is taken for unreferenced
AnyChunk(C)     == C
Unreferenced(C) == {c \in C : ~Referenced(c)}
\* mutant: only the deleted blocks of chunks that still exist
DeletedOfLiveChunks == {b \in Blocks : /\ block[b].state = "deleted"
                                       /\ chunk[block[b].chunk] = "live"}
DeletedNotReclaimed == {b \in Blocks : block[b].state = "deleted"}
\* blocks that prepare_blocks_from_db throws on: their chunk was cleaned
Unprepared == {b \in DeletedNotReclaimed : ~InDB(block[b].chunk)}

\* blocks whose id GetMapping or the builder may still give out
FreshBlocks == {b \in Blocks \ onNode : block[b].state = "none" /\ \A o \in Objs : up[o].block # b}
FreshChunks == {c \in Chunks : /\ chunk[c] = "none"
                               /\ \A o \in Objs : up[o].chunk # c /\ part[o].chunk # c
                               /\ \A b \in Blocks : block[b].chunk # c}
Smallest(S) == CHOOSE x \in S : \A y \in S : x <= y

\* find_dups: a live chunk whose data is accessible; of several the oldest
\* remains, being the last that find_chunks_by_dedup_key returns
Dups == {c \in Chunks : chunk[c] = "live" /\ LiveBlocks({c}) # {}}

\* a coroutine has decided to delete c, or did
GivenUp(c) ==
    \/ chunk[c] \in {"deleted", "removed"}
    \/ \E a \in Workers : /\ c \in job[a].chunks
                          /\ job[a].pending \cap {"load", "chunks", "blocks"} # {}
    \/ \E b \in Blocks : block[b].chunk = c /\ block[b].state # "live"

-----------------------------------------------------------------------------
Init ==
    /\ obj = [o \in Objs |-> "none"]
    /\ part = [o \in Objs |-> [chunk |-> 0, state |-> "none"]]
    /\ chunk = [c \in Chunks |-> "none"]
    /\ old = {}
    /\ block = [b \in Blocks |-> [chunk |-> 0, state |-> "none"]]
    /\ onNode = {}
    /\ up = [o \in Objs |-> NoUpload]
    /\ job = [a \in Workers |-> IdleJob]
    /\ batch = {}
    /\ failed = {}
    /\ phase = "objects"
    /\ faults = 0
    /\ builds = 0
    /\ late = {}

-----------------------------------------------------------------------------
(* Uploads: ObjectIO in the endpoint, get_mapping and put_mapping in the   *)
(* object server.  Neither looks at the object again.                      *)

workers == <<job, batch, failed, phase, faults, builds>>

CreateUpload(o) ==
    /\ obj[o] = "none"
    /\ obj' = [obj EXCEPT ![o] = "uploading"]
    /\ up' = [up EXCEPT ![o].pc = "mapping"]
    /\ UNCHANGED <<part, chunk, old, block, onNode, workers, late>>

\* GetMapping: a duplicate to refer to, or else a new block to write
GetMapping(o) ==
    /\ up[o].pc = "mapping"
    /\ IF Dups # {}
         THEN up' = [up EXCEPT ![o].pc = "mapped", ![o].chunk = Smallest(Dups)]
         ELSE /\ FreshBlocks # {}
              /\ up' = [up EXCEPT ![o].pc = "mapped", ![o].block = Smallest(FreshBlocks)]
    /\ UNCHANGED <<db, workers, late>>

\* process_mapping stored the block on its agent, PutMapping makes the
\* chunk's id and inserts blocks, chunks and parts at the same time
PutMapping(o) ==
    /\ up[o].pc = "mapped"
    /\ IF up[o].block = 0
         THEN /\ up' = [up EXCEPT ![o].pc = "putting", ![o].todo = {"parts"}]
              /\ UNCHANGED onNode
         ELSE /\ FreshChunks # {}
              /\ up' = [up EXCEPT ![o].pc = "putting", ![o].todo = Inserts,
                                  ![o].chunk = Smallest(FreshChunks)]
              /\ onNode' = onNode \cup {up[o].block}
    /\ UNCHANGED <<obj, part, chunk, old, block, workers, late>>

\* copy_object_mapping read the live parts of the source, an object that was
\* stored when the endpoint read it, and inserts copies; with no part to copy
\* the completion fails on the size
CopyMapping(o, source) ==
    /\ up[o].pc = "mapping"
    /\ up[source].pc = "stored"
    /\ obj[source] # "removed"
    /\ IF part[source].state = "live"
         THEN up' = [up EXCEPT ![o].pc = "putting", ![o].todo = {"parts"},
                               ![o].chunk = part[source].chunk]
         ELSE up' = [up EXCEPT ![o].pc = "failed"]
    /\ UNCHANGED <<db, workers, late>>

\* one insert of the three is done, or has failed while the others go on
Without(o, x, pc) ==
    IF up[o].todo = {x} THEN [NoUpload EXCEPT !.pc = pc]
                        ELSE [up[o] EXCEPT !.todo = @ \ {x}, !.pc = pc]
Finished(o, x) ==
    Without(o, x, IF up[o].pc = "putting" /\ up[o].todo = {x} THEN "done" ELSE up[o].pc)

InsertBlocks(o) ==
    /\ "blocks" \in up[o].todo
    /\ block' = [block EXCEPT ![up[o].block] = [chunk |-> up[o].chunk, state |-> "live"]]
    /\ up' = [up EXCEPT ![o] = Finished(o, "blocks")]
    /\ UNCHANGED <<obj, part, chunk, old, onNode, workers, late>>

InsertChunks(o) ==
    /\ "chunks" \in up[o].todo
    /\ chunk' = [chunk EXCEPT ![up[o].chunk] = "live"]
    /\ up' = [up EXCEPT ![o] = Finished(o, "chunks")]
    /\ UNCHANGED <<obj, part, old, block, onNode, workers, late>>

\* the part is late if its chunk is given up, unless the upload made the
\* chunk and no other part ever referred to it
InsertParts(o) ==
    LET c      == up[o].chunk
        shared == \E p \in Objs \ {o} : part[p].chunk = c
    IN  /\ "parts" \in up[o].todo
        /\ part' = [part EXCEPT ![o] = [chunk |-> c, state |-> "live"]]
        /\ up' = [up EXCEPT ![o] = Finished(o, "parts")]
        /\ late' = IF GivenUp(c) /\ (up[o].block = 0 \/ shared)
                     THEN late \cup {o} ELSE late
        /\ UNCHANGED <<obj, chunk, old, block, onNode, workers>>

InsertFails(o) ==
    /\ \E x \in up[o].todo :
          up' = [up EXCEPT ![o] = Without(o, x, "failed")]
    /\ UNCHANGED <<db, workers, late>>

\* complete_object_upload, once every put_mapping was answered: the size of
\* the parts it finds must be that of the upload
CompleteUpload(o) ==
    /\ up[o].pc = "done"
    /\ obj[o] = "uploading"
    /\ part[o].state = "live"
    /\ obj' = [obj EXCEPT ![o] = "stored"]
    /\ up' = [up EXCEPT ![o].pc = "stored"]
    /\ UNCHANGED <<part, chunk, old, block, onNode, workers, late>>

\* abort_object_upload by whoever knows the upload, or a delete of the object
DeleteObject(o) ==
    /\ obj[o] \in {"uploading", "stored"}
    /\ obj' = [obj EXCEPT ![o] = "deleted"]
    /\ UNCHANGED <<part, chunk, old, block, onNode, up, workers, late>>

\* An hour passed since the chunk was made.  A put_mapping takes less.
GetsOld(c) ==
    /\ chunk[c] = "live"
    /\ c \notin old
    /\ \A o \in Objs : up[o].todo # {} => up[o].chunk # c
    /\ old' = old \cup {c}
    /\ UNCHANGED <<obj, part, chunk, block, onNode, up, workers, late>>

-----------------------------------------------------------------------------
(* map_deleter.js, called by coroutine a.  A step takes itself off         *)
(* job.pending and adds what the code awaits next.                         *)

others == <<batch, failed, phase, faults, builds, up, late>>

After(a, x, more, C, B) ==
    LET rest == (job[a].pending \ {x}) \cup more
    IN  IF rest # {}
          THEN [job EXCEPT ![a] = [pending |-> rest, chunks |-> C, blocks |-> B,
                                   build |-> @.build]]
        ELSE IF job[a].build # {}
          THEN [job EXCEPT ![a] = [IdleJob EXCEPT !.pending = {"build"},
                                                  !.build = job[a].build]]
          ELSE [job EXCEPT ![a] = IdleJob]

\* delete_object_mappings goes on when both of its operations are done
AfterBoth(o, x, C) ==
    After(o, x, IF job[o].pending = {x} /\ C # {} /\ o \notin failed
                  THEN {"unref"} ELSE {}, C, {})

FindPartsChunks(o) ==
    /\ "find" \in job[o].pending
    /\ job' = AfterBoth(o, "find",
                        IF part[o].state = "live" THEN {part[o].chunk} ELSE {})
    /\ UNCHANGED <<db, others>>

DeleteParts(o) ==
    /\ "parts" \in job[o].pending
    /\ part' = IF part[o].state = "live"
                 THEN [part EXCEPT ![o].state = "deleted"] ELSE part
    /\ job' = AfterBoth(o, "parts", job[o].chunks)
    /\ UNCHANGED <<obj, chunk, old, block, onNode, others>>

FindUnreferenced(a) ==
    LET C == Unreferenced(job[a].chunks)
    IN  /\ "unref" \in job[a].pending
        /\ job' = After(a, "unref", IF C = {} THEN {} ELSE {"load"}, C, {})
        /\ UNCHANGED <<db, others>>

\* mutant: the blocks of a deleted chunk are left alone
DeletionsOfChunks(C, B) == IF C = {} THEN {} ELSE {"chunks"}
\* delete_chunks marks the chunks and delete_blocks their blocks, if any
Deletions(C, B) == (IF C = {} THEN {} ELSE {"chunks"}) \cup
                   (IF B = {} THEN {} ELSE {"blocks"})

LoadChunks(a) ==
    LET C == {c \in job[a].chunks : InDB(c)}
        B == LiveBlocks(C)
    IN  /\ "load" \in job[a].pending
        /\ job' = After(a, "load", Deletions(C, B), C, B)
        /\ UNCHANGED <<db, others>>

DeleteChunks(a) ==
    /\ "chunks" \in job[a].pending
    /\ chunk' = [c \in Chunks |-> IF c \in job[a].chunks /\ chunk[c] = "live"
                                    THEN "deleted" ELSE chunk[c]]
    /\ job' = After(a, "chunks", {}, job[a].chunks, job[a].blocks)
    /\ UNCHANGED <<obj, part, old, block, onNode, others>>

SetBlocks(B, from, to) ==
    [b \in Blocks |-> IF b \in B /\ block[b].state \in from
                        THEN [block[b] EXCEPT !.state = to] ELSE block[b]]

DeleteBlocks(a) ==
    /\ "blocks" \in job[a].pending
    /\ block' = SetBlocks(job[a].blocks, {"live"}, "deleted")
    /\ job' = After(a, "blocks", {"nodes"}, job[a].chunks, job[a].blocks)
    /\ UNCHANGED <<obj, part, chunk, old, onNode, others>>

\* mutant: blocks are marked reclaimed whether or not their agent answered
AllAsked(a, answered) == job[a].blocks
Succeeded(a, answered) == answered
\* delete_blocks_from_nodes: the agents delete some of the blocks and their
\* answers, some of which get lost, name those that may be marked
DeleteFromNodes(a, gone, answered) ==
    /\ "nodes" \in job[a].pending
    /\ gone \subseteq job[a].blocks
    /\ answered \subseteq gone
    /\ onNode' = onNode \ gone
    /\ LET B == Succeeded(a, answered)
       IN  job' = After(a, "nodes", IF B = {} THEN {} ELSE {"mark"}, job[a].chunks, B)
    /\ UNCHANGED <<obj, part, chunk, old, block, others>>

MarkReclaimed(a) ==
    /\ "mark" \in job[a].pending
    /\ block' = SetBlocks(job[a].blocks, {"live", "deleted"}, "reclaimed")
    /\ job' = After(a, "mark", {}, job[a].chunks, {})
    /\ UNCHANGED <<obj, part, chunk, old, onNode, others>>

-----------------------------------------------------------------------------
(* objects_reclaimer.js: the mappings of a batch of deleted objects.       *)

ReclaimObjects ==
    /\ "object_reclaimer" \in Enabled
    /\ batch = {}
    /\ batch' = {o \in Objs : obj[o] = "deleted"}
    /\ batch' # {}
    /\ job' = [a \in Workers |-> IF a \in batch'
                 THEN [IdleJob EXCEPT !.pending = {"find", "parts"}] ELSE job[a]]
    /\ UNCHANGED <<db, up, failed, phase, faults, builds, late>>

\* mutant: objects whose mappings were not deleted are marked as well
Batch     == batch
Reclaimed == batch \ failed

\* mutant: the list of failed objects outlives its batch
ObjectsReclaimedKeepingFailed ==
    /\ batch # {}
    /\ \A o \in batch : Idle(o)
    /\ obj' = [o \in Objs |-> IF o \in Reclaimed /\ obj[o] = "deleted"
                                THEN "reclaimed" ELSE obj[o]]
    /\ batch' = {}
    /\ UNCHANGED <<part, chunk, old, block, onNode, up, job, failed, phase, faults, builds, late>>
ObjectsReclaimed ==
    /\ batch # {}
    /\ \A o \in batch : Idle(o)
    /\ obj' = [o \in Objs |-> IF o \in Reclaimed /\ obj[o] = "deleted"
                                THEN "reclaimed" ELSE obj[o]]
    /\ batch' = {}
    /\ failed' = {}
    /\ UNCHANGED <<part, chunk, old, block, onNode, up, job, phase, faults, builds, late>>

\* an operation on the database fails, or prepare_blocks, which asks for the
\* nodes of the blocks: what it was to lead to is not done
DatabaseError(o) ==
    /\ faults < MaxFaults
    /\ \E x \in job[o].pending \ {"mark"} :
          job' = After(o, x, {}, job[o].chunks, job[o].blocks)
    /\ failed' = failed \cup {o}
    /\ faults' = faults + 1
    /\ UNCHANGED <<db, up, batch, phase, builds, late>>

-----------------------------------------------------------------------------
(* agent_blocks_reclaimer.js: deleted blocks that were not reclaimed.  The *)
(* batch holds them all, and one whose chunk the DB cleaner took away      *)
(* makes the whole round fail before an agent is asked.                    *)

ReclaimBlocks ==
    /\ AgentReclaimer \in Enabled
    /\ Idle(AgentReclaimer)
    /\ DeletedNotReclaimed # {}
    /\ Unprepared = {}
    /\ job' = [job EXCEPT ![AgentReclaimer].pending = {"nodes"},
                          ![AgentReclaimer].blocks = DeletedNotReclaimed]
    /\ UNCHANGED <<db, others>>

-----------------------------------------------------------------------------
(* scrubber.js and map_builder.js.                                         *)

ScrubberBatch ==
    LET C == {c \in Chunks : chunk[c] = "live"}
    IN  /\ Scrubber \in Enabled
        /\ Idle(Scrubber)
        /\ C # {}
        /\ job' = [job EXCEPT ![Scrubber].pending = {"reload"}, ![Scrubber].chunks = C]
        /\ UNCHANGED <<db, others>>

\* mutant: chunks without blocks are not looked at
UnusedWithBlocks(C) == {c \in Unreferenced(C) \cap old : LiveBlocks({c}) # {}}
\* "chunks that were created in the last hour will not be deleted"
Unused(C) == Unreferenced(C) \cap old

\* the unused chunks go, and what is left of chunks deleted meanwhile; then
\* those with parts are built
ReloadChunks ==
    LET C    == job[Scrubber].chunks
        Live == {c \in C : chunk[c] = "live"}
        Dead == {c \in C : chunk[c] = "deleted"}
        Gone == Unused(Live)
        B    == LiveBlocks(Dead \cup Gone)
        Keep == IF builds < MaxBuilds THEN Live \ Unreferenced(Live) ELSE {}
        More == Deletions(Gone, B)
    IN  /\ "reload" \in job[Scrubber].pending
        /\ job' = [job EXCEPT ![Scrubber] =
                     [pending |-> IF More = {} /\ Keep # {} THEN {"build"} ELSE More,
                      chunks  |-> IF More = {} THEN {} ELSE Gone,
                      blocks  |-> IF More = {} THEN {} ELSE B,
                      build   |-> Keep]]
        /\ UNCHANGED <<db, others>>

\* build_chunks: get_mapping finds nothing missing, or the placement of one
\* chunk has changed and a block is written for it
BuildChunks ==
    /\ "build" \in job[Scrubber].pending
    /\ \/ /\ job' = [job EXCEPT ![Scrubber] = IdleJob]
          /\ UNCHANGED <<onNode, builds>>
       \/ \E c \in job[Scrubber].build :
             /\ FreshBlocks # {}
             /\ LET b == Smallest(FreshBlocks)
                IN  /\ onNode' = onNode \cup {b}
                    /\ job' = [job EXCEPT ![Scrubber] =
                                 [IdleJob EXCEPT !.pending = {"insert"}, !.blocks = {b},
                                                 !.chunks = {c}]]
             /\ builds' = builds + 1
    /\ UNCHANGED <<obj, part, chunk, old, block, batch, failed, phase, faults, up, late>>

\* PutMapping of an existing chunk, which does not look whether it still exists
InsertBuilt ==
    /\ "insert" \in job[Scrubber].pending
    /\ block' = [b \in Blocks |-> IF b \in job[Scrubber].blocks
                   THEN [chunk |-> CHOOSE c \in job[Scrubber].chunks : TRUE,
                         state |-> "live"]
                   ELSE block[b]]
    /\ job' = [job EXCEPT ![Scrubber] = IdleJob]
    /\ UNCHANGED <<obj, part, chunk, old, onNode, others>>

\* The process of the background workers stops and is started again.
Crash ==
    /\ faults < MaxFaults
    /\ \E a \in Workers : ~Idle(a)
    /\ job' = [a \in Workers |-> IdleJob]
    /\ batch' = {}
    /\ failed' = {}
    /\ phase' = "objects"
    /\ faults' = faults + 1
    /\ UNCHANGED <<db, up, builds, late>>

-----------------------------------------------------------------------------
(* db_cleaner.js removes documents deleted three months ago: no coroutine  *)
(* can still be at work on them.  What DOCS_LIMIT and BACK_TIME leave for  *)
(* a later cycle is any of them.                                           *)

Quiet == /\ "db_cleaner" \in Enabled
         /\ batch = {}
         /\ \A a \in Workers : Idle(a)
         /\ \A o \in Objs : up[o].todo = {} /\ up[o].pc # "mapped"

rest == <<old, onNode, up, job, batch, failed, faults, builds, late>>

\* db_delete_object_parts gets an id where it expects an object, so the query
\* has no object: with ignoreUndefined (MongoDB) it matches every deleted
\* part, whosever it is, and otherwise none
CleanObjects ==
    /\ Quiet
    /\ phase = "objects"
    /\ \E S \in SUBSET {o \in Objs : obj[o] \in {"deleted", "reclaimed"}} :
          /\ obj' = [o \in Objs |-> IF o \in S THEN "removed" ELSE obj[o]]
          /\ \/ /\ S # {}
                /\ part' = [o \in Objs |-> IF part[o].state = "deleted"
                              THEN [part[o] EXCEPT !.state = "removed"] ELSE part[o]]
             \/ UNCHANGED part
    /\ phase' = "blocks"
    /\ UNCHANGED <<chunk, block, rest>>

CleanBlocks ==
    /\ Quiet
    /\ phase = "blocks"
    /\ \E S \in SUBSET {b \in Blocks : block[b].state \in {"deleted", "reclaimed"}} :
          block' = SetBlocks(S, {"deleted", "reclaimed"}, "removed")
    /\ phase' = "chunks"
    /\ UNCHANGED <<obj, part, chunk, rest>>

\* the filter for chunks without blocks and parts is given an async function,
\* whose promise is always true
CleanChunks ==
    /\ Quiet
    /\ phase = "chunks"
    /\ \E S \in SUBSET {c \in Chunks : chunk[c] = "deleted"} :
          chunk' = [c \in Chunks |-> IF c \in S THEN "removed" ELSE chunk[c]]
    /\ phase' = "objects"
    /\ UNCHANGED <<obj, part, block, rest>>

-----------------------------------------------------------------------------
Deleter(a) ==
    \/ FindUnreferenced(a) \/ LoadChunks(a) \/ DeleteChunks(a) \/ DeleteBlocks(a)
    \/ \E gone, answered \in SUBSET job[a].blocks : DeleteFromNodes(a, gone, answered)
    \/ MarkReclaimed(a)

Upload(o) ==
    \/ CreateUpload(o) \/ GetMapping(o) \/ PutMapping(o)
    \/ \E s \in Objs : CopyMapping(o, s)
    \/ InsertBlocks(o) \/ InsertChunks(o) \/ InsertParts(o) \/ InsertFails(o)
    \/ CompleteUpload(o) \/ DeleteObject(o)

Cleaner == CleanObjects \/ CleanBlocks \/ CleanChunks

Next ==
    \/ \E o \in Objs : Upload(o)
    \/ \E c \in Chunks : GetsOld(c)
    \/ \E o \in Objs : FindPartsChunks(o) \/ DeleteParts(o) \/ DatabaseError(o)
    \/ \E a \in Workers : Deleter(a)
    \/ ReclaimObjects \/ ObjectsReclaimed \/ ReclaimBlocks
    \/ ScrubberBatch \/ ReloadChunks \/ BuildChunks \/ InsertBuilt
    \/ Crash \/ Cleaner

(* Workers are rescheduled for ever, every RPC ends, an hour passes, and   *)
(* an agent that is asked again and again answers.                         *)
Fairness ==
    /\ \A o \in Objs : /\ WF_vars(InsertBlocks(o) \/ InsertChunks(o) \/ InsertParts(o)
                                  \/ InsertFails(o))
                       /\ WF_vars(FindPartsChunks(o) \/ DeleteParts(o))
    /\ \A c \in Chunks : WF_vars(GetsOld(c))
    /\ \A a \in Workers : WF_vars(Deleter(a))
    /\ SF_vars(DeleteFromNodes(AgentReclaimer, job[AgentReclaimer].blocks,
                               job[AgentReclaimer].blocks))
    /\ WF_vars(ReclaimObjects) /\ WF_vars(ObjectsReclaimed) /\ WF_vars(ReclaimBlocks)
    /\ WF_vars(ScrubberBatch) /\ WF_vars(ReloadChunks) /\ WF_vars(BuildChunks)
    /\ WF_vars(InsertBuilt)

Spec     == Init /\ [][Next]_vars
FairSpec == Spec /\ Fairness

-----------------------------------------------------------------------------
(* Types. *)
ObjectType == {"none", "uploading", "stored", "deleted", "reclaimed", "removed"}
PartType   == [chunk : Chunks \cup {0}, state : {"none", "live", "deleted", "removed"}]
ChunkType  == {"none", "live", "deleted", "removed"}
BlockType  == [chunk : Chunks \cup {0},
               state : {"none", "live", "deleted", "reclaimed", "removed"}]
UploadPc   == {"none", "mapping", "mapped", "putting", "failed", "done", "stored"}
UploadType == [pc : UploadPc, chunk : Chunks \cup {0}, block : Blocks \cup {0},
               todo : SUBSET Inserts]
JobType    == [pending : SUBSET Steps, chunks : SUBSET Chunks,
               blocks : SUBSET Blocks, build : SUBSET Chunks]
TypeOK ==
    /\ obj \in [Objs -> ObjectType]
    /\ part \in [Objs -> PartType]
    /\ chunk \in [Chunks -> ChunkType]
    /\ old \subseteq Chunks
    /\ block \in [Blocks -> BlockType]
    /\ onNode \subseteq Blocks
    /\ up \in [Objs -> UploadType]
    /\ job \in [Workers -> JobType]
    /\ batch \subseteq Objs
    /\ failed \subseteq batch
    /\ phase \in {"objects", "blocks", "chunks"}
    /\ faults \in 0..MaxFaults
    /\ builds \in 0..MaxBuilds
    /\ late \subseteq Objs

(* The data of a stored object is there: its chunk is not deleted and has  *)
(* a block on an agent, whoever else referred to the chunk and whichever   *)
(* worker deleted what.  Excepted are parts that were inserted when a      *)
(* worker had already found their chunk unreferenced.                      *)
StoredReadable ==
    \A o \in Objs : obj[o] = "stored" /\ o \notin late =>
        /\ chunk[part[o].chunk] = "live"
        /\ LiveBlocks({part[o].chunk}) \cap onNode # {}

(* What is marked reclaimed is gone from its agent: nothing would ever ask *)
(* the agent again.                                                        *)
ReclaimedOffNode == \A b \in Blocks : block[b].state = "reclaimed" => b \notin onNode

(* An object whose upload was acknowledged leaves no part when it is       *)
(* reclaimed: a part left would keep its chunk for ever.                   *)
NoPartOfReclaimed ==
    \A o \in Objs : obj[o] = "reclaimed" /\ up[o].pc = "stored" => part[o].state # "live"

(* Blocks go with their chunk: when every upload was acknowledged and      *)
(* nothing failed, a deleted chunk leaves no live block, which no worker   *)
(* would look for (the scrubber only goes over live chunks).               *)
NoOrphanBlocks ==
    (/\ faults = 0 /\ builds = 0
     /\ \A a \in Workers : Idle(a)
     /\ \A o \in Objs : up[o].pc \in {"none", "stored"})
        => \A b \in Blocks : block[b].state = "live" => chunk[block[b].chunk] = "live"

(* A deleted block is taken off its agent in the end, although the process *)
(* may stop or the agent be away between the mark and the deletion         *)
(* (map_deleter: "we can assume that the reclaimer will handle"), until    *)
(* the DB cleaner removes the chunk of some such block before the block,   *)
(* on which every round of the agent blocks reclaimer then fails.          *)
DeletedBlocksReclaimed ==
    \A b \in Blocks : block[b].state = "deleted" ~>
                          \/ block[b].state \in {"reclaimed", "removed"}
                          \/ Unprepared # {}

(* A chunk that no part refers to, because its upload failed or because    *)
(* the reclaimer stopped half way, is found by the scrubber.               *)
UnusedChunksDeleted ==
    \A c \in Chunks : (chunk[c] = "live" /\ ~Referenced(c)) ~>
                          (chunk[c] # "live" \/ Referenced(c))

(* db_cleaner.js logs "chunks with no blocks and no parts to be removed":  *)
(* a chunk is only removed when no document of a block or a part is left.  *)
CleanedChunkUnused ==
    \A c \in Chunks : chunk[c] = "removed" =>
        /\ \A o \in Objs : part[o].chunk = c => part[o].state = "removed"
        /\ \A b \in Blocks : block[b].chunk = c => block[b].state = "removed"
=============================================================================
