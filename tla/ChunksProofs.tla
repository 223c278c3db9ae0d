---------------------------- MODULE ChunksProofs ----------------------------
(* Theorems about Chunks, for every number of objects, chunks and blocks,  *)
(* and whichever background workers run.                                   *)
EXTENDS Chunks, WellFoundedInduction, TLAPS

-----------------------------------------------------------------------------
(* The inductive invariant, besides the types.                             *)

Nothing    == [chunk |-> 0, state |-> "none"]
Parted(c)  == \E o \in Objs : part[o].chunk = c
Formed(c)  == c # 0 /\ chunk[c] # "none" /\ \E b \in Blocks : block[b].chunk = c
Making(o)  == up[o].block # 0 /\ up[o].todo # {}
Gone(b)    == block[b].state \notin {"none", "live"}

\* What an upload has inserted and what it has yet to insert.
UploadInv(o) ==
    LET u == up[o]
    IN  /\ u.todo # {} => u.chunk # 0 /\ u.pc \in {"putting", "failed"}
        /\ u.pc = "putting" => u.todo # {}
        /\ u.pc \in {"none", "mapping", "mapped"} \/ "parts" \in u.todo => part[o] = Nothing
        /\ u.pc \in {"none", "mapping"} => u.block = 0
        /\ u.block = 0 => u.todo \subseteq {"parts"}
        /\ u.block # 0 /\ (u.pc = "mapped" \/ "blocks" \in u.todo) => block[u.block] = Nothing
        /\ Making(o) => /\ u.chunk \notin old
                        /\ "blocks" \in u.todo => u.block \in onNode
                        /\ "chunks" \in u.todo => chunk[u.chunk] = "none"
        /\ u.pc \in {"mapped", "putting"} /\ u.block = 0 => Formed(u.chunk)
        /\ u.pc = "putting" /\ u.block # 0 =>
              /\ "chunks" \notin u.todo => chunk[u.chunk] # "none"
              /\ "blocks" \notin u.todo => block[u.block].chunk = u.chunk
        /\ u.pc = "putting" /\ "parts" \notin u.todo => part[o].chunk = u.chunk
        /\ u.pc \in {"done", "stored"} => Formed(part[o].chunk)

\* Two uploads make different chunks and write different blocks.
Reserved == \A o, p \in Objs : o # p =>
    /\ up[o].block # 0 => up[p].block # up[o].block
    /\ Making(o) /\ Making(p) => up[o].chunk # up[p].chunk

\* Documents: a live block is on its agent, a reclaimed one is not.
DocInv ==
    /\ \A b \in Blocks : /\ block[b].state = "none" <=> block[b].chunk = 0
                         /\ block[b].state = "live" => b \in onNode
                         /\ block[b].state = "reclaimed" => b \notin onNode
    /\ \A o \in Objs : part[o].state = "none" <=> part[o].chunk = 0
    /\ \A c \in old : chunk[c] # "none"

\* A worker that is to change blocks was entitled to it when it read them.
JobInv(a) ==
    LET j == job[a]
    IN  /\ \/ j.pending \subseteq {"find", "parts"}
           \/ \E x \in {"unref", "load", "reload", "build", "insert"} : j.pending = {x}
           \/ \E x \in {"blocks", "nodes", "mark"} : j.pending \subseteq {"chunks", x}
        /\ a \in Objs /\ j.pending # {} => a \in batch
        /\ a = Scrubber /\ j.build # {} => builds < MaxBuilds
        /\ j.pending \cap {"find", "parts", "unref"} # {} => \A c \in j.chunks : Parted(c)
        /\ "blocks" \in j.pending => \A b \in j.blocks :
              /\ block[b].state # "none"
              /\ block[b].chunk \in j.chunks \/ chunk[block[b].chunk] \in {"deleted", "removed"}
        /\ "nodes" \in j.pending => \A b \in j.blocks : Gone(b)
        /\ "mark" \in j.pending => \A b \in j.blocks : Gone(b) /\ b \notin onNode
        /\ "insert" \in j.pending =>
              /\ a = Scrubber /\ j.chunks # {}
              /\ \A b \in j.blocks : /\ block[b] = Nothing /\ b \in onNode
                                     /\ \A o \in Objs : up[o].block # b

\* Objects: deleted once and for ever, and the reclaimer works on deleted ones.
ObjInv(o) ==
    /\ obj[o] = "none" => up[o] = NoUpload
    /\ obj[o] = "stored" => up[o].pc = "stored" /\ part[o].state = "live"
    /\ up[o].pc = "stored" => obj[o] # "uploading"
    /\ o \in batch => obj[o] = "deleted"
    /\ o \in batch \ failed /\ up[o].pc = "stored" /\ part[o].state = "live" => "parts" \in job[o].pending
    /\ obj[o] = "reclaimed" /\ up[o].pc = "stored" => part[o].state # "live"

\* A chunk is only given up when it is old or was referred to, ...
GivenUpKnown == \A c \in Chunks : GivenUp(c) => c \in old \/ Parted(c)
\* ... and not while a part refers to it that is not late.
PartsKept == \A o \in Objs : part[o].state = "live" /\ o \notin late => ~GivenUp(part[o].chunk)

IInv ==
    /\ TypeOK
    /\ \A o \in Objs : UploadInv(o) /\ ObjInv(o)
    /\ Reserved
    /\ DocInv
    /\ \A a \in Workers : JobInv(a)
    /\ GivenUpKnown
    /\ PartsKept
-----------------------------------------------------------------------------
(* Types.                                                                  *)

\* The least of some numbers is one of them.
LEMMA SmallestIn ==
    ASSUME NEW S, S \subseteq Nat, S # {}
    PROVE  Smallest(S) \in S
  <1> DEFINE Less == {s \in Nat \X Nat : s[1] < s[2]}
  <1>1. IsWellFoundedOn(Less, Nat)
    BY NatLessThanWellFounded DEF OpToRel
  <1>2. PICK x \in S : \A y \in S : ~(<<y, x>> \in Less)
    <2> HIDE DEF Less
    <2> QED  BY <1>1, WFMin
  <1>3. ASSUME NEW y \in S PROVE x <= y
    <2>1. <<y, x>> \in Nat \X Nat /\ <<y, x>>[1] = y /\ <<y, x>>[2] = x
      OBVIOUS
    <2> QED  BY <1>2, <2>1
  <1> QED  BY <1>3 DEF Smallest

\* What map_deleter goes on with is a job again.
LEMMA AfterType ==
    ASSUME job \in [Workers -> JobType], NEW a \in Workers, NEW x, NEW more \in SUBSET Steps,
           NEW C \in SUBSET Chunks, NEW B \in SUBSET Blocks
    PROVE  After(a, x, more, C, B) \in [Workers -> JobType]
  <1>1. IdleJob \in JobType
    BY DEF IdleJob, JobType
  <1>2. /\ job[a].pending \subseteq Steps
        /\ [pending |-> (job[a].pending \ {x}) \cup more, chunks |-> C, blocks |-> B,
            build |-> job[a].build] \in JobType
    BY DEF JobType
  <1>3. [IdleJob EXCEPT !.pending = {"build"}, !.build = job[a].build] \in JobType
    BY DEF JobType, IdleJob, Steps
  <1> QED  BY <1>1, <1>2, <1>3 DEF After

\* What one insert less leaves is an upload again.
LEMMA WithoutType ==
    ASSUME up \in [Objs -> UploadType], NEW o \in Objs, NEW x, NEW pc \in UploadPc
    PROVE  Without(o, x, pc) \in UploadType
  <1>1. NoUpload \in UploadType
    BY DEF NoUpload, UploadType, UploadPc
  <1>2. \A u \in UploadType : [u EXCEPT !.pc = pc] \in UploadType
    BY DEF UploadType
  <1>3. \A u \in UploadType : [u EXCEPT !.todo = @ \ {x}, !.pc = pc] \in UploadType
    BY DEF UploadType
  <1> QED  BY <1>1, <1>2, <1>3 DEF Without

\* An upload that finished an insert is still an upload.
LEMMA FinishedType ==
    ASSUME up \in [Objs -> UploadType], NEW o \in Objs, NEW x
    PROVE  Finished(o, x) \in UploadType
  <1>1. up[o].pc \in UploadPc
    BY DEF UploadType
  <1>2. "done" \in UploadPc
    BY DEF UploadPc
  <1> QED  BY <1>1, <1>2, WithoutType DEF Finished

\* Marking blocks keeps their type.
LEMMA SetBlocksType ==
    ASSUME block \in [Blocks -> BlockType], NEW B, NEW from, NEW to \in {"deleted", "reclaimed", "removed"}
    PROVE  SetBlocks(B, from, to) \in [Blocks -> BlockType]
  BY DEF SetBlocks, BlockType

\* Every upload step keeps the types.
LEMMA UploadTypes ==
    ASSUME IInv, NEW o \in Objs, Upload(o)
    PROVE  TypeOK'
  <1> USE DEF workers
  <1>0. TypeOK
    BY DEF IInv
  <1>1. CASE CreateUpload(o)
    <2>1. up' \in [Objs -> UploadType]
      BY <1>0, <1>1 DEF TypeOK, CreateUpload, UploadType, UploadPc
    <2>2. obj' \in [Objs -> ObjectType]
      BY <1>0, <1>1 DEF TypeOK, CreateUpload, ObjectType
    <2> QED  BY <1>0, <1>1, <2>1, <2>2 DEF TypeOK, CreateUpload
  <1>2. CASE GetMapping(o)
    <2>1. Dups \subseteq Chunks /\ FreshBlocks \subseteq Blocks
      BY DEF Dups, FreshBlocks
    <2>2. /\ Dups # {} => Smallest(Dups) \in Chunks
          /\ FreshBlocks # {} => Smallest(FreshBlocks) \in Blocks
      BY <2>1, SmallestIn, ChunksAssumption, BlocksAssumption
    <2>3. up' \in [Objs -> UploadType]
      BY <1>0, <1>2, <2>2 DEF TypeOK, GetMapping, UploadType, UploadPc
    <2> QED  BY <1>0, <1>2, <2>3 DEF TypeOK, GetMapping, db
  <1>3. CASE PutMapping(o)
    <2>1. FreshChunks # {} => Smallest(FreshChunks) \in Chunks
      BY SmallestIn, ChunksAssumption DEF FreshChunks
    <2>2. up' \in [Objs -> UploadType]
      BY <1>0, <1>3, <2>1 DEF TypeOK, PutMapping, UploadType, UploadPc, Inserts
    <2>3. onNode' \subseteq Blocks
      BY <1>0, <1>3 DEF TypeOK, PutMapping, UploadType
    <2> QED  BY <1>0, <1>3, <2>2, <2>3 DEF TypeOK, PutMapping
  <1>4. CASE \E s \in Objs : CopyMapping(o, s)
    <2>1. PICK s \in Objs : CopyMapping(o, s)
      BY <1>4
    <2>2. part[s].chunk \in Chunks \cup {0}
      BY <1>0 DEF TypeOK, PartType
    <2>3. CASE part[s].state = "live"
      <3> DEFINE c == part[s].chunk
      <3>1. c \in Chunks \cup {0}
        BY <2>2
      <3>2. /\ up' = [up EXCEPT ![o].pc = "putting", ![o].todo = {"parts"}, ![o].chunk = c]
            /\ UNCHANGED <<db, workers, late>>
        BY <2>1, <2>3 DEF CopyMapping
      <3> HIDE DEF c
      <3>3. up'[o] \in UploadType
        BY <1>0, <3>1, <3>2 DEF TypeOK, UploadType, UploadPc, Inserts
      <3>4. up' \in [Objs -> UploadType]
        BY <1>0, <3>2, <3>3 DEF TypeOK
      <3> QED  BY <1>0, <3>2, <3>4 DEF TypeOK, db
    <2>4. CASE part[s].state # "live"
      BY <1>0, <2>1, <2>4 DEF TypeOK, CopyMapping, UploadType, UploadPc, db
    <2> QED  BY <2>3, <2>4
  <1>5. CASE InsertBlocks(o)
    <2>1. up' \in [Objs -> UploadType]
      BY <1>0, <1>5, FinishedType DEF TypeOK, InsertBlocks
    <2>2. block' \in [Blocks -> BlockType]
      <3>1. up[o].chunk \in Chunks \cup {0}
        BY <1>0 DEF TypeOK, UploadType
      <3>2. [chunk |-> up[o].chunk, state |-> "live"] \in BlockType
        BY <3>1 DEF BlockType
      <3> QED  BY <1>0, <1>5, <3>2 DEF TypeOK, InsertBlocks
    <2> QED  BY <1>0, <1>5, <2>1, <2>2 DEF TypeOK, InsertBlocks
  <1>6. CASE InsertChunks(o)
    <2>1. up' \in [Objs -> UploadType]
      BY <1>0, <1>6, FinishedType DEF TypeOK, InsertChunks
    <2>2. chunk' \in [Chunks -> ChunkType]
      BY <1>0, <1>6 DEF TypeOK, InsertChunks, ChunkType
    <2> QED  BY <1>0, <1>6, <2>1, <2>2 DEF TypeOK, InsertChunks
  <1>7. CASE InsertParts(o)
    <2>1. up' \in [Objs -> UploadType]
      BY <1>0, <1>7, FinishedType DEF TypeOK, InsertParts
    <2>2. part' \in [Objs -> PartType]
      <3>1. up[o].chunk \in Chunks \cup {0}
        BY <1>0 DEF TypeOK, UploadType
      <3>2. [chunk |-> up[o].chunk, state |-> "live"] \in PartType
        BY <3>1 DEF PartType
      <3> QED  BY <1>0, <1>7, <3>2 DEF TypeOK, InsertParts
    <2> QED  BY <1>0, <1>7, <2>1, <2>2 DEF TypeOK, InsertParts
  <1>8. CASE InsertFails(o)
    <2>1. up' \in [Objs -> UploadType]
      BY <1>0, <1>8, WithoutType DEF TypeOK, InsertFails, UploadPc
    <2> QED  BY <1>0, <1>8, <2>1 DEF TypeOK, InsertFails, db
  <1>9. CASE CompleteUpload(o)
    <2>1. up' \in [Objs -> UploadType]
      BY <1>0, <1>9 DEF TypeOK, CompleteUpload, UploadType, UploadPc
    <2>2. obj' \in [Objs -> ObjectType]
      BY <1>0, <1>9 DEF TypeOK, CompleteUpload, ObjectType
    <2> QED  BY <1>0, <1>9, <2>1, <2>2 DEF TypeOK, CompleteUpload
  <1>10. CASE DeleteObject(o)
    <2>1. obj' \in [Objs -> ObjectType]
      BY <1>0, <1>10 DEF TypeOK, DeleteObject, ObjectType
    <2> QED  BY <1>0, <1>10, <2>1 DEF TypeOK, DeleteObject
  <1> QED
    BY <1>1, <1>2, <1>3, <1>4, <1>5, <1>6, <1>7, <1>8, <1>9, <1>10 DEF Upload

\* ... and so does every other step.
LEMMA WorkerTypes ==
    ASSUME IInv, NEW a \in Workers, Deleter(a)
    PROVE  TypeOK'
  <1> USE DEF others
  <1>0. TypeOK
    BY DEF IInv
  <1>a. job[a].chunks \subseteq Chunks /\ job[a].blocks \subseteq Blocks
    BY <1>0 DEF TypeOK, JobType
  <1>1. CASE FindUnreferenced(a)
    <2>1. Unreferenced(job[a].chunks) \subseteq Chunks
      BY <1>a DEF Unreferenced
    <2>2. job' \in [Workers -> JobType]
      BY <1>0, <1>1, <2>1, AfterType DEF TypeOK, FindUnreferenced, Steps
    <2> QED  BY <1>0, <1>1, <2>2 DEF TypeOK, FindUnreferenced, db
  <1>2. CASE LoadChunks(a)
    <2> DEFINE C == {c \in job[a].chunks : InDB(c)}
    <2>1. C \subseteq Chunks /\ LiveBlocks(C) \subseteq Blocks /\ Deletions(C, LiveBlocks(C)) \subseteq Steps
      BY <1>a DEF LiveBlocks, Deletions, Steps
    <2>2. job' = After(a, "load", Deletions(C, LiveBlocks(C)), C, LiveBlocks(C))
      BY <1>2 DEF LoadChunks
    <2> HIDE DEF C
    <2>3. job' \in [Workers -> JobType]
      BY <1>0, <2>1, <2>2, AfterType DEF TypeOK
    <2> QED  BY <1>0, <1>2, <2>3 DEF TypeOK, LoadChunks, db
  <1>3. CASE DeleteChunks(a)
    <2>1. job' \in [Workers -> JobType]
      BY <1>0, <1>3, <1>a, AfterType DEF TypeOK, DeleteChunks
    <2>2. chunk' \in [Chunks -> ChunkType]
      BY <1>0, <1>3 DEF TypeOK, DeleteChunks, ChunkType
    <2> QED  BY <1>0, <1>3, <2>1, <2>2 DEF TypeOK, DeleteChunks
  <1>4. CASE DeleteBlocks(a)
    <2>1. job' \in [Workers -> JobType]
      BY <1>0, <1>4, <1>a, AfterType DEF TypeOK, DeleteBlocks, Steps
    <2>2. block' \in [Blocks -> BlockType]
      BY <1>0, <1>4, SetBlocksType DEF TypeOK, DeleteBlocks
    <2> QED  BY <1>0, <1>4, <2>1, <2>2 DEF TypeOK, DeleteBlocks
  <1>5. ASSUME NEW gone \in SUBSET job[a].blocks, NEW answered \in SUBSET job[a].blocks,
               DeleteFromNodes(a, gone, answered)
        PROVE  TypeOK'
    <2>1. job' \in [Workers -> JobType]
      BY <1>0, <1>5, <1>a, AfterType DEF TypeOK, DeleteFromNodes, Succeeded, Steps
    <2> QED  BY <1>0, <1>5, <2>1 DEF TypeOK, DeleteFromNodes
  <1>6. CASE MarkReclaimed(a)
    <2>1. job' \in [Workers -> JobType]
      BY <1>0, <1>6, <1>a, AfterType DEF TypeOK, MarkReclaimed
    <2>2. block' \in [Blocks -> BlockType]
      BY <1>0, <1>6, SetBlocksType DEF TypeOK, MarkReclaimed
    <2> QED  BY <1>0, <1>6, <2>1, <2>2 DEF TypeOK, MarkReclaimed
  <1> QED
    BY <1>1, <1>2, <1>3, <1>4, <1>5, <1>6 DEF Deleter

\* The objects and agent blocks reclaimers keep every type.
LEMMA ReclaimerTypes ==
    ASSUME IInv,
           \/ \E o \in Objs : FindPartsChunks(o) \/ DeleteParts(o) \/ DatabaseError(o)
           \/ ReclaimObjects \/ ObjectsReclaimed \/ ReclaimBlocks
    PROVE  TypeOK'
  <1> USE DEF others
  <1>0. TypeOK
    BY DEF IInv
  <1>1. ASSUME NEW o \in Objs, NEW x, NEW C \in SUBSET Chunks
        PROVE  AfterBoth(o, x, C) \in [Workers -> JobType]
    BY <1>0, AfterType DEF AfterBoth, TypeOK, Workers, Steps
  <1>2. ASSUME NEW o \in Objs, FindPartsChunks(o)
        PROVE  TypeOK'
    <2>1. part[o].state = "live" => part[o].chunk \in Chunks
      BY <1>0 DEF IInv, DocInv, TypeOK, PartType
    <2>2. job' \in [Workers -> JobType]
      BY <1>1, <1>2, <2>1 DEF FindPartsChunks
    <2> QED  BY <1>0, <1>2, <2>2 DEF TypeOK, FindPartsChunks, db
  <1>3. ASSUME NEW o \in Objs, DeleteParts(o)
        PROVE  TypeOK'
    <2>1. job[o].chunks \subseteq Chunks
      BY <1>0 DEF TypeOK, JobType, Workers
    <2>2. job' \in [Workers -> JobType]
      BY <1>1, <1>3, <2>1 DEF DeleteParts
    <2>3. part' \in [Objs -> PartType]
      <3>1. [part[o] EXCEPT !.state = "deleted"] \in PartType
        BY <1>0 DEF TypeOK, PartType
      <3> QED  BY <1>0, <1>3, <3>1 DEF TypeOK, DeleteParts
    <2> QED  BY <1>0, <1>3, <2>2, <2>3 DEF TypeOK, DeleteParts
  <1>4. ASSUME NEW o \in Objs, DatabaseError(o)
        PROVE  TypeOK'
    <2>1. job[o].chunks \subseteq Chunks /\ job[o].blocks \subseteq Blocks
      BY <1>0 DEF TypeOK, JobType, Workers
    <2>2. job' \in [Workers -> JobType]
      <3>1. PICK x \in job[o].pending \ {"mark"} :
                    job' = After(o, x, {}, job[o].chunks, job[o].blocks)
        BY <1>4 DEF DatabaseError
      <3> QED  BY <1>0, <2>1, <3>1, AfterType DEF TypeOK, Workers
    <2>3. o \in batch
      BY <1>4 DEF DatabaseError, IInv, JobInv, Workers
    <2>4. faults' \in 0..MaxFaults
      BY <1>0, <1>4, BoundsAssumption DEF DatabaseError, TypeOK
    <2> QED  BY <1>0, <1>4, <2>2, <2>3, <2>4 DEF TypeOK, DatabaseError, db
  <1>5. [IdleJob EXCEPT !.pending = {"find", "parts"}] \in JobType
    BY DEF IdleJob, JobType, Steps
  <1>6. CASE ReclaimObjects
    <2>1. job' \in [Workers -> JobType]
      BY <1>0, <1>5, <1>6 DEF TypeOK, ReclaimObjects
    <2> QED  BY <1>0, <1>6, <2>1 DEF TypeOK, ReclaimObjects, db
  <1>7. CASE ObjectsReclaimed
    <2>1. obj' \in [Objs -> ObjectType]
      BY <1>0, <1>7 DEF TypeOK, ObjectsReclaimed, ObjectType
    <2> QED  BY <1>0, <1>7, <2>1 DEF TypeOK, ObjectsReclaimed
  <1>8. CASE ReclaimBlocks
    <2>1. DeletedNotReclaimed \subseteq Blocks
      BY DEF DeletedNotReclaimed
    <2>2. job' \in [Workers -> JobType]
      <3>1. AgentReclaimer \in Workers /\ {"nodes"} \in SUBSET Steps
        BY DEF Workers, Steps
      <3> QED  BY <1>0, <1>8, <2>1, <3>1 DEF TypeOK, ReclaimBlocks, JobType
    <2> QED  BY <1>0, <1>8, <2>2 DEF TypeOK, ReclaimBlocks, db
  <1> QED  BY <1>2, <1>3, <1>4, <1>6, <1>7, <1>8

\* The scrubber and its builder keep every type.
LEMMA ScrubberTypes ==
    ASSUME IInv, ScrubberBatch \/ ReloadChunks \/ BuildChunks \/ InsertBuilt
    PROVE  TypeOK'
  <1> USE DEF others
  <1>0. TypeOK /\ Scrubber \in Workers
    BY DEF IInv, Workers
  <1>a. job[Scrubber] \in JobType
    BY <1>0 DEF TypeOK
  <1>b. IdleJob \in JobType
    BY DEF IdleJob, JobType
  <1>1. CASE ScrubberBatch
    <2>1. job' \in [Workers -> JobType]
      BY <1>0, <1>a, <1>1 DEF TypeOK, ScrubberBatch, JobType, Steps
    <2> QED  BY <1>0, <1>1, <2>1 DEF TypeOK, ScrubberBatch, db
  <1>2. CASE ReloadChunks
    <2> DEFINE C    == job[Scrubber].chunks
               Live == {c \in C : chunk[c] = "live"}
               Dead == {c \in C : chunk[c] = "deleted"}
               Left == Unused(Live)
               B    == LiveBlocks(Dead \cup Left)
               Keep == IF builds < MaxBuilds THEN Live \ Unreferenced(Live) ELSE {}
               More == Deletions(Left, B)
    <2>1. job' = [job EXCEPT ![Scrubber] =
                     [pending |-> IF More = {} /\ Keep # {} THEN {"build"} ELSE More,
                      chunks  |-> IF More = {} THEN {} ELSE Left,
                      blocks  |-> IF More = {} THEN {} ELSE B,
                      build   |-> Keep]]
      BY <1>2 DEF ReloadChunks
    <2>2. C \subseteq Chunks /\ Live \subseteq C /\ Dead \subseteq C
      BY <1>a DEF JobType
    <2>3. Left \subseteq Chunks /\ Keep \subseteq Chunks /\ B \subseteq Blocks /\ More \subseteq Steps
      BY <2>2 DEF Unused, Unreferenced, LiveBlocks, Deletions, Steps
    <2> HIDE DEF C, Live, Dead, Left, B, Keep, More
    <2>4. [pending |-> IF More = {} /\ Keep # {} THEN {"build"} ELSE More,
           chunks  |-> IF More = {} THEN {} ELSE Left,
           blocks  |-> IF More = {} THEN {} ELSE B,
           build   |-> Keep] \in JobType
      BY <2>3 DEF JobType, Steps
    <2>5. job' \in [Workers -> JobType]
      BY <1>0, <2>1, <2>4 DEF TypeOK
    <2> QED  BY <1>0, <1>2, <2>5 DEF TypeOK, ReloadChunks, db
  <1>3. CASE BuildChunks
    <2>1. CASE job' = [job EXCEPT ![Scrubber] = IdleJob] /\ UNCHANGED <<onNode, builds>>
      BY <1>0, <1>b, <1>3, <2>1 DEF TypeOK, BuildChunks
    <2>2. ASSUME NEW c \in job[Scrubber].build,
                 FreshBlocks # {},
                 onNode' = onNode \cup {Smallest(FreshBlocks)},
                 job' = [job EXCEPT ![Scrubber] = [IdleJob EXCEPT !.pending = {"insert"},
                                  !.blocks = {Smallest(FreshBlocks)}, !.chunks = {c}]],
                 builds' = builds + 1
          PROVE  TypeOK'
      <3>1. Smallest(FreshBlocks) \in Blocks
        BY <2>2, SmallestIn, BlocksAssumption DEF FreshBlocks
      <3>2. [IdleJob EXCEPT !.pending = {"insert"}, !.blocks = {Smallest(FreshBlocks)},
                            !.chunks = {c}] \in JobType
        BY <1>a, <3>1 DEF JobType, IdleJob, Steps
      <3>3. job' \in [Workers -> JobType]
        BY <1>0, <2>2, <3>2 DEF TypeOK
      <3>4. builds < MaxBuilds
        BY <1>0 DEF IInv, JobInv
      <3>5. builds' \in 0..MaxBuilds
        BY <1>0, <2>2, <3>4, BoundsAssumption DEF TypeOK
      <3> QED  BY <1>0, <1>3, <2>2, <3>1, <3>3, <3>5 DEF TypeOK, BuildChunks
    <2> QED  BY <1>3, <2>1, <2>2 DEF BuildChunks
  <1>4. CASE InsertBuilt
    <2>1. \A b \in job[Scrubber].blocks :
              [chunk |-> CHOOSE c \in job[Scrubber].chunks : TRUE, state |-> "live"] \in BlockType
      BY <1>0, <1>a, <1>4 DEF InsertBuilt, IInv, JobInv, JobType, BlockType
    <2>2. block' \in [Blocks -> BlockType]
      BY <1>0, <1>4, <2>1 DEF TypeOK, InsertBuilt
    <2>3. job' \in [Workers -> JobType]
      BY <1>0, <1>b, <1>4 DEF TypeOK, InsertBuilt
    <2> QED  BY <1>0, <1>4, <2>2, <2>3 DEF TypeOK, InsertBuilt
  <1> QED  BY <1>1, <1>2, <1>3, <1>4

\* Time, a crash and the DB cleaner keep every type.
LEMMA OtherTypes ==
    ASSUME IInv, (\E c \in Chunks : GetsOld(c)) \/ Crash \/ Cleaner
    PROVE  TypeOK'
  <1> USE DEF rest
  <1>0. TypeOK
    BY DEF IInv
  <1>1. ASSUME NEW c \in Chunks, GetsOld(c)
        PROVE  TypeOK'
    BY <1>0, <1>1 DEF TypeOK, GetsOld, workers
  <1>2. CASE Crash
    <2>1. job' \in [Workers -> JobType]
      BY <1>0, <1>2 DEF Crash, IdleJob, JobType
    <2>2. faults' \in 0..MaxFaults
      BY <1>0, <1>2, BoundsAssumption DEF Crash, TypeOK
    <2> QED  BY <1>0, <1>2, <2>1, <2>2 DEF TypeOK, Crash, db
  <1>3. CASE CleanObjects
    <2>1. obj' \in [Objs -> ObjectType]
      BY <1>0, <1>3 DEF TypeOK, CleanObjects, ObjectType
    <2>2. part' \in [Objs -> PartType]
      <3>1. \A o \in Objs : [part[o] EXCEPT !.state = "removed"] \in PartType
        BY <1>0 DEF TypeOK, PartType
      <3> QED  BY <1>0, <1>3, <3>1 DEF TypeOK, CleanObjects
    <2> QED  BY <1>0, <1>3, <2>1, <2>2 DEF TypeOK, CleanObjects
  <1>4. CASE CleanBlocks
    <2>1. block' \in [Blocks -> BlockType]
      BY <1>0, <1>4, SetBlocksType DEF TypeOK, CleanBlocks
    <2> QED  BY <1>0, <1>4, <2>1 DEF TypeOK, CleanBlocks
  <1>5. CASE CleanChunks
    <2>1. chunk' \in [Chunks -> ChunkType]
      BY <1>0, <1>5 DEF TypeOK, CleanChunks, ChunkType
    <2> QED  BY <1>0, <1>5, <2>1 DEF TypeOK, CleanChunks
  <1> QED  BY <1>1, <1>2, <1>3, <1>4, <1>5 DEF Cleaner

-----------------------------------------------------------------------------
(* What is true of every step, and what the invariant gains from it.       *)

\* Documents are not unmade, what is deleted stays so, and a deleted block that is off
\* its agent does not come back.
Monotone ==
    /\ \A c \in Chunks : /\ chunk[c] # "none" => chunk'[c] # "none"
                         /\ chunk[c] \in {"deleted", "removed"} => chunk'[c] \in {"deleted", "removed"}
    /\ \A b \in Blocks : /\ block[b].chunk # 0 => block'[b].chunk = block[b].chunk
                         /\ block[b].state # "none" => block'[b].state # "none"
                         /\ Gone(b) => Gone(b)' /\ (b \notin onNode => b \notin onNode')
    /\ \A o \in Objs : part[o].chunk # 0 => part'[o].chunk = part[o].chunk
    /\ old \subseteq old'

\* What a worker leaves alone of the uploads.
UploadsAlone ==
    /\ up' = up
    /\ \A c \in Chunks : chunk[c] = "none" => chunk'[c] = "none"
    /\ \A b \in Blocks : block[b] = Nothing /\ b \in onNode => b \in onNode'
    /\ \A o \in Objs : /\ part[o] = Nothing => part'[o] = Nothing
                       /\ up[o].block # 0 /\ block[up[o].block] = Nothing
                             => block'[up[o].block] = Nothing
                       /\ Making(o) => up[o].chunk \notin old'

\* A chunk that was stored with a block stays so, in whatever state.
LEMMA FormedStays ==
    ASSUME TypeOK, TypeOK', Monotone, NEW c \in Chunks \cup {0}, Formed(c)
    PROVE  Formed(c)'
  BY DEF Formed, Monotone, TypeOK, BlockType

\* What a part refers to once its upload is done was stored.
LEMMA FormedPart ==
    ASSUME TypeOK, TypeOK', Monotone, NEW o \in Objs, Formed(part[o].chunk)
    PROVE  Formed(part[o].chunk)'
  <1>1. PICK c \in Chunks : c = part[o].chunk
    BY DEF TypeOK, PartType, Formed
  <1>2. Formed(c)' /\ part'[o].chunk = c
    BY <1>1, FormedStays DEF Monotone, Formed
  <1> QED  BY <1>2 DEF Formed

\* So was what an upload refers to that does not make its chunk.
LEMMA FormedUpload ==
    ASSUME TypeOK, TypeOK', Monotone, NEW o \in Objs, Formed(up[o].chunk), up'[o].chunk = up[o].chunk
    PROVE  Formed(up[o].chunk)'
  <1>1. PICK c \in Chunks : c = up[o].chunk
    BY DEF TypeOK, UploadType, Formed
  <1>2. Formed(c)'
    BY <1>1, FormedStays
  <1> QED  BY <1>1, <1>2 DEF Formed

\* The chunk an upload or a part names.
LEMMA Named ==
    ASSUME TypeOK, NEW o \in Objs
    PROVE  up[o] \in UploadType /\ part[o] \in PartType
           /\ up[o].chunk \in Chunks \cup {0} /\ part[o].chunk \in Chunks \cup {0}
           /\ up[o].block \in Blocks \cup {0} /\ up[o].todo \subseteq Inserts /\ up[o].pc \in UploadPc
           /\ part[o].state \in {"none", "live", "deleted", "removed"}
  BY DEF TypeOK, UploadType, PartType

\* A worker does not disturb uploads.
LEMMA UploadsKept ==
    ASSUME IInv, TypeOK', Monotone, UploadsAlone
    PROVE  (\A o \in Objs : UploadInv(o)') /\ Reserved'
  <1>1. TypeOK /\ Reserved
    BY DEF IInv
  <1>2. Reserved'
    BY <1>1 DEF Reserved, Making, UploadsAlone
  <1>3. ASSUME NEW o \in Objs
        PROVE  UploadInv(o)'
    <2>1. UploadInv(o)
      BY DEF IInv
    <2>2. up'[o] = up[o]
      BY DEF UploadsAlone
    <2>3. up[o].chunk \in Chunks \cup {0} /\ part[o].chunk \in Chunks \cup {0} /\ up[o].block \in Blocks \cup {0}
      BY <1>1, Named
    <2>4. /\ Formed(up[o].chunk) => Formed(up[o].chunk)'
          /\ Formed(part[o].chunk) => Formed(part[o].chunk)'
      BY <1>1, <2>3, FormedPart, FormedUpload DEF UploadsAlone
    <2> QED
      BY <2>1, <2>2, <2>3, <2>4 DEF UploadInv, Making, UploadsAlone, Monotone, Nothing
  <1> QED  BY <1>2, <1>3

\* A job that goes on as it was.
LEMMA JobKept ==
    ASSUME IInv, TypeOK', Monotone, NEW w \in Workers, job'[w] = job[w],
           w \in batch => w \in batch', w = Scrubber => builds' = builds,
           "insert" \in job[w].pending => \A b \in job[w].blocks :
               block'[b] = block[b] /\ b \in onNode' /\ \A o \in Objs : up'[o].block # b
    PROVE  JobInv(w)'
  <1>1. TypeOK /\ JobInv(w) /\ DocInv
    BY DEF IInv
  <1>2. job[w].chunks \subseteq Chunks /\ job[w].blocks \subseteq Blocks
    BY <1>1 DEF TypeOK, JobType
  <1>3. \A c \in Chunks : Parted(c) => Parted(c)'
    BY ChunksAssumption DEF Monotone, Parted
  <1>4. ASSUME NEW b \in Blocks, block[b].state # "none"
        PROVE  block'[b].state # "none" /\ block'[b].chunk = block[b].chunk /\ block[b].chunk \in Chunks
    BY <1>1, <1>4 DEF Monotone, DocInv, TypeOK, BlockType
  <1>5. ASSUME NEW b \in job[w].blocks, block[b].state # "none",
               block[b].chunk \in job[w].chunks \/ chunk[block[b].chunk] \in {"deleted", "removed"}
        PROVE  block'[b].chunk \in job'[w].chunks \/ chunk'[block'[b].chunk] \in {"deleted", "removed"}
    BY <1>2, <1>4, <1>5 DEF Monotone
  <1>6. \A b \in job[w].blocks : Gone(b) => Gone(b)' /\ (b \notin onNode => b \notin onNode')
    BY <1>2 DEF Monotone
  <1> QED
    BY <1>1, <1>2, <1>3, <1>4, <1>5, <1>6 DEF JobInv, Nothing

\* An object that nothing happens to.
LEMMA ObjKept ==
    ASSUME IInv, NEW q \in Objs, obj'[q] = obj[q], up'[q] = up[q], part'[q].state = part[q].state,
           q \in batch' => q \in batch, q \in batch' /\ q \in failed => q \in failed',
           q \in batch' /\ "parts" \in job[q].pending => "parts" \in job'[q].pending
    PROVE  ObjInv(q)'
  BY DEF IInv, ObjInv

\* Only chunks without a part are given up.
LEMMA PartsKeep ==
    ASSUME IInv, TypeOK', Monotone, late' = late,
           \A o \in Objs : part'[o].state = "live" => part[o].state = "live",
           \A c \in Chunks : GivenUp(c)' => GivenUp(c) \/ (~Referenced(c) /\ (c \in old \/ Parted(c)))
    PROVE  GivenUpKnown' /\ PartsKept'
  <1>1. TypeOK /\ DocInv /\ GivenUpKnown /\ PartsKept
    BY DEF IInv
  <1>2. \A c \in Chunks : Parted(c) => Parted(c)'
    BY ChunksAssumption DEF Monotone, Parted
  <1>3. GivenUpKnown'
    BY <1>1, <1>2 DEF GivenUpKnown, Monotone
  <1>4. ASSUME NEW o \in Objs, part'[o].state = "live", o \notin late
        PROVE  ~GivenUp(part[o].chunk)'
    <2>1. part[o].state = "live"
      BY <1>4
    <2>2. PICK c \in Chunks : c = part[o].chunk /\ c # 0
      BY <1>1, <2>1 DEF DocInv, TypeOK, PartType
    <2>3. part[o] = [chunk |-> c, state |-> "live"] /\ part'[o].chunk = c
      BY <1>1, <2>1, <2>2 DEF Monotone, TypeOK, PartType
    <2>4. Referenced(c)
      BY <2>3 DEF Referenced
    <2>5. ~GivenUp(c)
      BY <1>1, <1>4, <2>1, <2>2 DEF PartsKept
    <2>6. ~GivenUp(c)'
      BY <2>4, <2>5
    <2> QED  BY <2>3, <2>6 DEF GivenUp
  <1> QED  BY <1>1, <1>3, <1>4 DEF PartsKept

-----------------------------------------------------------------------------
(* Uploads.                                                                *)

\* An upload only inserts what is its own, and only takes what is fresh.
LEMMA UploadStep ==
    ASSUME IInv, TypeOK', Monotone, NEW o \in Objs,
           UNCHANGED <<old, job, batch, failed, builds>>, onNode \subseteq onNode',
           \A q \in Objs \ {o} : obj'[q] = obj[q] /\ up'[q] = up[q] /\ part'[q] = part[q],
           \A b \in Blocks : block'[b] # block[b] => b = up[o].block,
           \A c \in Chunks : chunk'[c] # chunk[c] => c = up[o].chunk /\ Making(o),
           up'[o].block \in {0, up[o].block} \cup FreshBlocks,
           Making(o)' => up'[o].chunk \in FreshChunks \/ (Making(o) /\ up'[o].chunk = up[o].chunk),
           UploadInv(o)', ObjInv(o)', DocInv', GivenUpKnown', PartsKept'
    PROVE  IInv'
  <1>1. TypeOK /\ Reserved /\ DocInv
    BY DEF IInv
  <1>2. ASSUME NEW q \in Objs, q # o
        PROVE  UploadInv(q)' /\ ObjInv(q)'
    <2>1. UploadInv(q)
      BY DEF IInv
    <2>2. up'[q] = up[q] /\ part'[q] = part[q] /\ obj'[q] = obj[q] /\ old' = old
      BY <1>2
    <2>3. up[q].chunk \in Chunks \cup {0} /\ part[q].chunk \in Chunks \cup {0}
          /\ up[q].block \in Blocks \cup {0}
      BY <1>1, Named
    <2>4. /\ Formed(up[q].chunk) => Formed(up[q].chunk)'
          /\ Formed(part[q].chunk) => Formed(part[q].chunk)'
      BY <1>1, <2>2, FormedPart, FormedUpload
    <2>5. up[q].block # 0 => block'[up[q].block] = block[up[q].block]
      BY <1>1, <1>2, <2>3 DEF Reserved
    <2>6. Making(q) /\ up[q].chunk # 0 => chunk'[up[q].chunk] = chunk[up[q].chunk]
      BY <1>1, <1>2, <2>3 DEF Reserved
    <2>7. UploadInv(q)'
      BY <2>1, <2>2, <2>3, <2>4, <2>5, <2>6 DEF UploadInv, Making, Monotone, Nothing
    <2>8. ObjInv(q)'
      BY <2>2, ObjKept
    <2> QED  BY <2>7, <2>8
  <1>3. Reserved'
    <2>1. ASSUME NEW q \in Objs, q # o
          PROVE  /\ up'[o].block # 0 => up'[q].block # up'[o].block
                 /\ Making(o)' /\ Making(q)' => up'[o].chunk # up'[q].chunk
      BY <1>1, <2>1 DEF Reserved, Making, FreshBlocks, FreshChunks
    <2>2. \A p, q \in Objs \ {o} : Making(p)' = Making(p) /\ Making(q)' = Making(q)
      BY DEF Making
    <2>3. ASSUME NEW p \in Objs, NEW q \in Objs, p # q
          PROVE  /\ up'[p].block # 0 => up'[q].block # up'[p].block
                 /\ Making(p)' /\ Making(q)' => up'[p].chunk # up'[q].chunk
      <3>1. CASE p = o
        BY <2>1, <2>3, <3>1
      <3>2. CASE q = o
        BY <2>1, <2>3, <3>2
      <3>3. CASE p # o /\ q # o
        BY <1>1, <2>2, <2>3, <3>3 DEF Reserved
      <3> QED  BY <3>1, <3>2, <3>3
    <2> QED  BY <2>3 DEF Reserved
  <1>4. ASSUME NEW w \in Workers
        PROVE  JobInv(w)'
    <2>1. JobInv(w) /\ job[w].blocks \subseteq Blocks
      BY <1>1 DEF IInv, TypeOK, JobType
    <2>2. ASSUME "insert" \in job[w].pending, NEW b \in job[w].blocks
          PROVE  block'[b] = block[b] /\ b \in onNode' /\ \A q \in Objs : up'[q].block # b
      <3>1. b \in Blocks /\ b \in onNode /\ \A q \in Objs : up[q].block # b
        BY <2>1, <2>2 DEF JobInv
      <3>2. b # 0
        BY <3>1, BlocksAssumption
      <3> QED  BY <3>1, <3>2 DEF FreshBlocks
    <2> QED  BY <2>2, JobKept
  <1> QED  BY <1>2, <1>3, <1>4 DEF IInv

\* What an upload is after one insert less.
LEMMA WithoutIs ==
    ASSUME TypeOK, NEW o \in Objs, NEW x \in up[o].todo, NEW pc
    PROVE  LET u == Without(o, x, pc)
           IN  /\ u.pc = pc /\ u.todo = up[o].todo \ {x}
               /\ up[o].todo = {x}  => u.block = 0 /\ u.chunk = 0
               /\ up[o].todo # {x} => u.block = up[o].block /\ u.chunk = up[o].chunk
  <1>1. up[o] \in UploadType
    BY DEF TypeOK
  <1> QED  BY <1>1 DEF Without, NoUpload, UploadType

\* An upload after one of its inserts (Finished).
LEMMA FinishedIs ==
    ASSUME TypeOK, NEW o \in Objs, NEW x \in up[o].todo
    PROVE  LET u == Finished(o, x)
           IN  /\ u.todo = up[o].todo \ {x}
               /\ up[o].todo = {x}  => /\ u.block = 0 /\ u.chunk = 0
                                       /\ u.pc = IF up[o].pc = "putting" THEN "done" ELSE up[o].pc
               /\ up[o].todo # {x} => u.block = up[o].block /\ u.chunk = up[o].chunk /\ u.pc = up[o].pc
  BY WithoutIs DEF Finished


\* The steps that insert nothing: an upload begins, is mapped, fails, completes, and its
\* object is deleted.
LEMMA UploadWaits ==
    ASSUME IInv, TypeOK', NEW o \in Objs, UNCHANGED <<part, chunk, old, block, workers, late>>,
           onNode' = onNode \/ (up[o].block \in Blocks /\ block[up[o].block] = Nothing
                                /\ onNode' = onNode \cup {up[o].block}),
           \A q \in Objs \ {o} : obj'[q] = obj[q] /\ up'[q] = up[q],
           up'[o].block \in {0, up[o].block} \cup FreshBlocks,
           Making(o)' => up'[o].chunk \in FreshChunks \/ (Making(o) /\ up'[o].chunk = up[o].chunk),
           UploadInv(o)', ObjInv(o)'
    PROVE  IInv'
  <1>1. TypeOK /\ DocInv
    BY DEF IInv
  <1>2. Monotone
    BY <1>1 DEF Monotone, Gone, Nothing
  <1>3. DocInv'
    BY <1>1 DEF DocInv, Nothing
  <1>4. \A c \in Chunks : GivenUp(c)' <=> GivenUp(c)
    BY DEF GivenUp, workers
  <1>5. GivenUpKnown' /\ PartsKept'
    BY <1>2, <1>4, PartsKeep
  <1> QED  BY <1>2, <1>3, <1>5, UploadStep DEF workers

\* create_object_upload.
LEMMA CreateUploadStep ==
    ASSUME IInv, TypeOK', NEW o \in Objs, CreateUpload(o)
    PROVE  IInv'
  <1>1. TypeOK /\ DocInv /\ UploadInv(o) /\ ObjInv(o) /\ up[o] \in UploadType
    BY Named DEF IInv
  <1>2. /\ \A q \in Objs \ {o} : obj'[q] = obj[q] /\ up'[q] = up[q]
        /\ up'[o].pc = "mapping" /\ up'[o].block = 0 /\ up'[o].chunk = 0 /\ up'[o].todo = {}
        /\ obj'[o] = "uploading" /\ obj[o] = "none" /\ up[o].pc = "none"
    BY <1>1 DEF CreateUpload, TypeOK, UploadType, ObjInv, NoUpload
  <1>3. UploadInv(o)'
    BY <1>1, <1>2 DEF UploadInv, Making, CreateUpload
  <1>4. ObjInv(o)'
    BY <1>1, <1>2 DEF ObjInv, CreateUpload, workers
  <1> QED  BY <1>2, <1>3, <1>4, UploadWaits DEF CreateUpload, Making

\* GetMapping: a chunk it finds is stored, a block it takes is nobody's.
LEMMA GetMappingStep ==
    ASSUME IInv, TypeOK', NEW o \in Objs, GetMapping(o)
    PROVE  IInv'
  <1>1. TypeOK /\ DocInv /\ UploadInv(o) /\ ObjInv(o) /\ up[o] \in UploadType /\ obj[o] # "none"
    BY Named DEF IInv, ObjInv, NoUpload, GetMapping
  <1>2. up[o].todo = {}
    BY <1>1 DEF UploadInv, GetMapping
  <1>3. CASE Dups # {}
    <2>1. Smallest(Dups) \in Dups
      BY <1>3, SmallestIn, ChunksAssumption DEF Dups
    <2>2. PICK c \in Dups : c = Smallest(Dups)
      BY <2>1
    <2>3. Formed(c) /\ c \in Chunks
      BY <2>2, ChunksAssumption DEF Dups, LiveBlocks, Formed
    <2>4. /\ \A q \in Objs \ {o} : up'[q] = up[q]
          /\ up'[o].pc = "mapped" /\ up'[o].block = up[o].block /\ up'[o].chunk = c /\ up'[o].todo = {}
      BY <1>1, <1>2, <1>3, <2>2 DEF GetMapping, TypeOK, UploadType
    <2>5. UploadInv(o)'
      BY <1>1, <2>3, <2>4 DEF UploadInv, Making, GetMapping, db, Formed
    <2>6. ObjInv(o)'
      BY <1>1, <2>4 DEF ObjInv, GetMapping, db, workers
    <2> QED  BY <2>4, <2>5, <2>6, UploadWaits DEF GetMapping, Making, db
  <1>4. CASE Dups = {}
    <2>1. PICK b \in FreshBlocks : b = Smallest(FreshBlocks)
      BY <1>4, SmallestIn, BlocksAssumption DEF GetMapping, FreshBlocks
    <2>2. b \in Blocks /\ block[b] = Nothing
      BY <1>1, <2>1 DEF FreshBlocks, DocInv, TypeOK, BlockType, Nothing
    <2>3. /\ \A q \in Objs \ {o} : up'[q] = up[q]
          /\ up'[o].pc = "mapped" /\ up'[o].block = b /\ up'[o].chunk = up[o].chunk /\ up'[o].todo = {}
      BY <1>1, <1>2, <1>4, <2>1 DEF GetMapping, TypeOK, UploadType
    <2>4. UploadInv(o)'
      BY <1>1, <2>2, <2>3, BlocksAssumption DEF UploadInv, Making, GetMapping, db
    <2>5. ObjInv(o)'
      BY <1>1, <2>3 DEF ObjInv, GetMapping, db, workers
    <2> QED  BY <2>1, <2>3, <2>4, <2>5, UploadWaits DEF GetMapping, Making, db
  <1> QED  BY <1>3, <1>4

\* PutMapping: the chunk it makes is nobody's.
LEMMA PutMappingStep ==
    ASSUME IInv, TypeOK', NEW o \in Objs, PutMapping(o)
    PROVE  IInv'
  <1>1. TypeOK /\ DocInv /\ UploadInv(o) /\ ObjInv(o) /\ up[o] \in UploadType /\ obj[o] # "none"
    BY Named DEF IInv, ObjInv, NoUpload, PutMapping
  <1>2. up[o].todo = {} /\ part[o] = Nothing
    BY <1>1 DEF UploadInv, PutMapping
  <1>3. CASE up[o].block = 0
    <2>1. /\ \A q \in Objs \ {o} : up'[q] = up[q]
          /\ up'[o].pc = "putting" /\ up'[o].block = 0 /\ up'[o].chunk = up[o].chunk
          /\ up'[o].todo = {"parts"}
      BY <1>1, <1>3 DEF PutMapping, TypeOK, UploadType
    <2>2. Formed(up[o].chunk)
      BY <1>1, <1>3 DEF UploadInv, PutMapping
    <2>3. UploadInv(o)'
      BY <1>1, <1>2, <2>1, <2>2 DEF UploadInv, Making, PutMapping, Formed
    <2>4. ObjInv(o)'
      BY <1>1, <2>1 DEF ObjInv, PutMapping, workers
    <2> QED  BY <1>3, <2>1, <2>3, <2>4, UploadWaits DEF PutMapping, Making
  <1>4. CASE up[o].block # 0
    <2>1. PICK c \in FreshChunks : c = Smallest(FreshChunks)
      BY <1>4, SmallestIn, ChunksAssumption DEF PutMapping, FreshChunks
    <2>2. c \in Chunks /\ c # 0 /\ chunk[c] = "none" /\ c \notin old
      BY <1>1, <2>1, ChunksAssumption DEF FreshChunks, DocInv
    <2>3. /\ \A q \in Objs \ {o} : up'[q] = up[q]
          /\ up'[o].pc = "putting" /\ up'[o].block = up[o].block /\ up'[o].chunk = c
          /\ up'[o].todo = Inserts
      BY <1>1, <1>4, <2>1 DEF PutMapping, TypeOK, UploadType
    <2>4. up[o].block \in Blocks /\ block[up[o].block] = Nothing
      BY <1>1, <1>4 DEF UploadInv, PutMapping, UploadType
    <2>5. UploadInv(o)'
      BY <1>1, <1>2, <1>4, <2>2, <2>3, <2>4 DEF UploadInv, Making, PutMapping, Inserts
    <2>6. ObjInv(o)'
      BY <1>1, <2>3 DEF ObjInv, PutMapping, workers
    <2>7. onNode' = onNode \cup {up[o].block}
      BY <1>4 DEF PutMapping
    <2> QED  BY <2>1, <2>3, <2>4, <2>5, <2>6, <2>7, UploadWaits DEF PutMapping
  <1> QED  BY <1>3, <1>4

\* copy_object_mapping: the chunk of its source was stored.
LEMMA CopyMappingStep ==
    ASSUME IInv, TypeOK', NEW o \in Objs, NEW s \in Objs, CopyMapping(o, s)
    PROVE  IInv'
  <1>1. TypeOK /\ DocInv /\ UploadInv(o) /\ UploadInv(s) /\ ObjInv(o) /\ up[o] \in UploadType
        /\ obj[o] # "none"
    BY Named DEF IInv, ObjInv, NoUpload, CopyMapping
  <1>2. up[o].todo = {} /\ part[o] = Nothing /\ up[o].block = 0
    BY <1>1 DEF UploadInv, CopyMapping
  <1>3. CASE part[s].state = "live"
    <2>1. PICK c \in Chunks : c = part[s].chunk /\ Formed(c)
      BY <1>1 DEF UploadInv, CopyMapping, Formed, TypeOK, PartType
    <2>2. /\ \A q \in Objs \ {o} : up'[q] = up[q]
          /\ up'[o].pc = "putting" /\ up'[o].block = up[o].block /\ up'[o].chunk = c
          /\ up'[o].todo = {"parts"}
      BY <1>1, <1>3, <2>1 DEF CopyMapping, TypeOK, UploadType
    <2>3. UploadInv(o)'
      BY <1>1, <1>2, <2>1, <2>2 DEF UploadInv, Making, CopyMapping, Formed, db
    <2>4. ObjInv(o)'
      BY <1>1, <2>2 DEF ObjInv, CopyMapping, db, workers
    <2>5. ~Making(o)' /\ up'[o].block = 0
      BY <1>2, <2>2 DEF Making
    <2>6. UNCHANGED <<obj, part, chunk, old, block, onNode, workers, late>>
      BY <1>3 DEF CopyMapping, db
    <2> QED  BY <2>2, <2>3, <2>4, <2>5, <2>6, UploadWaits
  <1>4. CASE part[s].state # "live"
    <2>1. /\ \A q \in Objs \ {o} : up'[q] = up[q]
          /\ up'[o].pc = "failed" /\ up'[o].block = up[o].block /\ up'[o].chunk = up[o].chunk
          /\ up'[o].todo = {}
      BY <1>1, <1>2, <1>4 DEF CopyMapping, TypeOK, UploadType
    <2>2. UploadInv(o)'
      BY <1>1, <1>2, <2>1 DEF UploadInv, Making, CopyMapping, db
    <2>3. ObjInv(o)'
      BY <1>1, <2>1 DEF ObjInv, CopyMapping, db, workers
    <2> QED  BY <2>1, <2>2, <2>3, UploadWaits DEF CopyMapping, Making, db
  <1> QED  BY <1>3, <1>4

\* An insert of PutMapping fails.
LEMMA InsertFailsStep ==
    ASSUME IInv, TypeOK', NEW o \in Objs, InsertFails(o)
    PROVE  IInv'
  <1>1. TypeOK /\ DocInv /\ UploadInv(o) /\ ObjInv(o) /\ up[o] \in UploadType
    BY Named DEF IInv
  <1>2. PICK x \in up[o].todo : up' = [up EXCEPT ![o] = Without(o, x, "failed")]
    BY DEF InsertFails
  <1>3. /\ \A q \in Objs \ {o} : up'[q] = up[q]
        /\ up'[o].pc = "failed" /\ up'[o].todo = up[o].todo \ {x}
        /\ up[o].todo = {x}  => up'[o].block = 0 /\ up'[o].chunk = 0
        /\ up[o].todo # {x} => up'[o].block = up[o].block /\ up'[o].chunk = up[o].chunk
    BY <1>1, <1>2, WithoutIs DEF TypeOK
  <1>4. up[o].pc \in {"putting", "failed"} /\ obj[o] # "none"
    BY <1>1, <1>2 DEF UploadInv, ObjInv, NoUpload
  <1>5. UNCHANGED <<obj, part, chunk, old, block, onNode, workers, late>>
    BY DEF InsertFails, db
  <1>6. UploadInv(o)'
    BY <1>1, <1>3, <1>5 DEF UploadInv, Making
  <1>7. ObjInv(o)'
    BY <1>1, <1>3, <1>4, <1>5 DEF ObjInv, workers
  <1>8. Making(o)' => Making(o) /\ up'[o].chunk = up[o].chunk
    BY <1>3 DEF Making
  <1> QED  BY <1>3, <1>5, <1>6, <1>7, <1>8, UploadWaits

\* complete_object_upload: the part it found keeps the chunk.
LEMMA CompleteUploadStep ==
    ASSUME IInv, TypeOK', NEW o \in Objs, CompleteUpload(o)
    PROVE  IInv'
  <1>1. TypeOK /\ DocInv /\ UploadInv(o) /\ ObjInv(o) /\ up[o] \in UploadType
    BY Named DEF IInv
  <1>2. /\ \A q \in Objs \ {o} : obj'[q] = obj[q] /\ up'[q] = up[q]
        /\ up'[o].pc = "stored" /\ up'[o].todo = up[o].todo
        /\ up'[o].block = up[o].block /\ up'[o].chunk = up[o].chunk /\ obj'[o] = "stored"
    BY <1>1 DEF CompleteUpload, TypeOK, UploadType
  <1>3. UNCHANGED <<part, chunk, old, block, onNode, workers, late>>
    BY DEF CompleteUpload
  <1>4. UploadInv(o)'
    BY <1>1, <1>2, <1>3 DEF UploadInv, CompleteUpload, Making, Formed
  <1>5. ObjInv(o)'
    BY <1>1, <1>2, <1>3 DEF ObjInv, CompleteUpload, workers
  <1>6. Making(o)' => Making(o) /\ up'[o].chunk = up[o].chunk
    BY <1>2 DEF Making
  <1> QED  BY <1>2, <1>3, <1>4, <1>5, <1>6, UploadWaits

\* An object is deleted.
LEMMA DeleteObjectStep ==
    ASSUME IInv, TypeOK', NEW o \in Objs, DeleteObject(o)
    PROVE  IInv'
  <1>1. TypeOK /\ UploadInv(o) /\ ObjInv(o)
    BY DEF IInv
  <1>2. /\ \A q \in Objs \ {o} : obj'[q] = obj[q] /\ up'[q] = up[q]
        /\ obj'[o] = "deleted" /\ UNCHANGED <<part, chunk, old, block, onNode, up, workers, late>>
    BY <1>1 DEF DeleteObject, TypeOK
  <1>3. UploadInv(o)'
    BY <1>1, <1>2 DEF UploadInv, Making, Formed
  <1>4. ObjInv(o)'
    BY <1>1, <1>2 DEF ObjInv, DeleteObject, workers
  <1>5. Making(o)' => Making(o) /\ up'[o].chunk = up[o].chunk
    BY <1>2 DEF Making
  <1> QED  BY <1>2, <1>3, <1>4, <1>5, UploadWaits

\* The inserts: a block ...
LEMMA InsertBlocksStep ==
    ASSUME IInv, TypeOK', NEW o \in Objs, InsertBlocks(o)
    PROVE  IInv'
  <1>1. TypeOK /\ DocInv /\ UploadInv(o) /\ ObjInv(o) /\ up[o] \in UploadType
    BY Named DEF IInv
  <1>2. /\ \A q \in Objs \ {o} : up'[q] = up[q]
        /\ up'[o].todo = up[o].todo \ {"blocks"}
        /\ up[o].todo = {"blocks"} => /\ up'[o].block = 0 /\ up'[o].chunk = 0
                                      /\ up'[o].pc = IF up[o].pc = "putting" THEN "done" ELSE up[o].pc
        /\ up[o].todo # {"blocks"} => up'[o].block = up[o].block /\ up'[o].chunk = up[o].chunk
                                      /\ up'[o].pc = up[o].pc
    BY <1>1, FinishedIs DEF InsertBlocks, TypeOK
  <1>3. PICK b \in Blocks, c \in Chunks :
            /\ b = up[o].block /\ c = up[o].chunk /\ b # 0 /\ c # 0
            /\ block[b] = Nothing /\ b \in onNode
            /\ up[o].pc \in {"putting", "failed"} /\ obj[o] # "none"
    BY <1>1 DEF UploadInv, InsertBlocks, UploadType, Making, ObjInv, NoUpload
  <1>4. /\ block'[b] = [chunk |-> c, state |-> "live"]
        /\ \A d \in Blocks \ {b} : block'[d] = block[d]
        /\ UNCHANGED <<obj, part, chunk, old, onNode, workers, late>>
    BY <1>1, <1>3 DEF InsertBlocks, TypeOK
  <1>5. block'[b].chunk = c /\ block'[b].state = "live" /\ block[b].chunk = 0 /\ block[b].state = "none"
    BY <1>3, <1>4 DEF Nothing
  <1>6. Monotone
    BY <1>4, <1>5 DEF Monotone, Gone
  <1>7. DocInv'
    BY <1>1, <1>3, <1>4, <1>5 DEF DocInv
  <1>8. \A d \in Chunks : GivenUp(d)' => GivenUp(d)
    BY <1>4, <1>5 DEF GivenUp, workers
  <1>9. GivenUpKnown' /\ PartsKept'
    BY <1>4, <1>6, <1>8, PartsKeep
  <1>10. up[o].pc = "putting" /\ up[o].todo = {"blocks"} => Formed(part[o].chunk)'
    BY <1>1, <1>3, <1>4, <1>5 DEF UploadInv, Formed
  <1>11. UploadInv(o)'
    BY <1>1, <1>2, <1>3, <1>4, <1>5, <1>10 DEF UploadInv, Making
  <1>12. ObjInv(o)'
    BY <1>1, <1>2, <1>3, <1>4 DEF ObjInv, workers
  <1>13. Making(o)' => Making(o) /\ up'[o].chunk = up[o].chunk
    BY <1>2 DEF Making
  <1>14. up'[o].block \in {0, up[o].block}
    BY <1>2
  <1> QED  BY <1>2, <1>3, <1>4, <1>6, <1>7, <1>9, <1>11, <1>12, <1>13, <1>14, UploadStep DEF workers

\* ... a chunk ...
LEMMA InsertChunksStep ==
    ASSUME IInv, TypeOK', NEW o \in Objs, InsertChunks(o)
    PROVE  IInv'
  <1>1. TypeOK /\ DocInv /\ UploadInv(o) /\ ObjInv(o) /\ up[o] \in UploadType
    BY Named DEF IInv
  <1>2. /\ \A q \in Objs \ {o} : up'[q] = up[q]
        /\ up'[o].todo = up[o].todo \ {"chunks"}
        /\ up[o].todo = {"chunks"} => /\ up'[o].block = 0 /\ up'[o].chunk = 0
                                      /\ up'[o].pc = IF up[o].pc = "putting" THEN "done" ELSE up[o].pc
        /\ up[o].todo # {"chunks"} => up'[o].block = up[o].block /\ up'[o].chunk = up[o].chunk
                                      /\ up'[o].pc = up[o].pc
    BY <1>1, FinishedIs DEF InsertChunks, TypeOK
  <1>3. PICK c \in Chunks :
            /\ c = up[o].chunk /\ c # 0 /\ chunk[c] = "none" /\ Making(o)
            /\ up[o].pc \in {"putting", "failed"} /\ obj[o] # "none"
    BY <1>1 DEF UploadInv, InsertChunks, UploadType, Making, ObjInv, NoUpload
  <1>4. /\ chunk'[c] = "live"
        /\ \A d \in Chunks \ {c} : chunk'[d] = chunk[d]
        /\ UNCHANGED <<obj, part, block, old, onNode, workers, late>>
    BY <1>1, <1>3 DEF InsertChunks, TypeOK
  <1>6. Monotone
    BY <1>3, <1>4 DEF Monotone, Gone
  <1>7. DocInv'
    BY <1>1, <1>3, <1>4 DEF DocInv, TypeOK
  <1>8. \A d \in Chunks : GivenUp(d)' => GivenUp(d)
    BY <1>4 DEF GivenUp, workers
  <1>9. GivenUpKnown' /\ PartsKept'
    BY <1>4, <1>6, <1>8, PartsKeep
  <1>10. up[o].pc = "putting" /\ up[o].todo = {"chunks"} => Formed(part[o].chunk)'
    BY <1>1, <1>3, <1>4 DEF UploadInv, Formed, Making, UploadType
  <1>11. UploadInv(o)'
    BY <1>1, <1>2, <1>3, <1>4, <1>10 DEF UploadInv, Making
  <1>12. ObjInv(o)'
    BY <1>1, <1>2, <1>3, <1>4 DEF ObjInv, workers
  <1>13. Making(o)' => Making(o) /\ up'[o].chunk = up[o].chunk
    BY <1>2 DEF Making
  <1>14. up'[o].block \in {0, up[o].block}
    BY <1>2
  <1> QED  BY <1>2, <1>3, <1>4, <1>6, <1>7, <1>9, <1>11, <1>12, <1>13, <1>14, UploadStep DEF workers

\* ... and a part, which is late if its chunk is given up: who makes a chunk that nobody
\* else referred to finds that nobody gave it up.
LEMMA InsertPartsStep ==
    ASSUME IInv, TypeOK', NEW o \in Objs, InsertParts(o)
    PROVE  IInv'
  <1>1. TypeOK /\ DocInv /\ UploadInv(o) /\ ObjInv(o) /\ up[o] \in UploadType
        /\ GivenUpKnown /\ PartsKept
    BY Named DEF IInv
  <1>2. /\ \A q \in Objs \ {o} : up'[q] = up[q]
        /\ up'[o].todo = up[o].todo \ {"parts"}
        /\ up[o].todo = {"parts"} => /\ up'[o].block = 0 /\ up'[o].chunk = 0
                                     /\ up'[o].pc = IF up[o].pc = "putting" THEN "done" ELSE up[o].pc
        /\ up[o].todo # {"parts"} => up'[o].block = up[o].block /\ up'[o].chunk = up[o].chunk
                                     /\ up'[o].pc = up[o].pc
    BY <1>1, FinishedIs DEF InsertParts, TypeOK
  <1>3. PICK c \in Chunks :
            /\ c = up[o].chunk /\ c # 0 /\ part[o] = Nothing
            /\ up[o].pc \in {"putting", "failed"} /\ obj[o] # "none"
    BY <1>1 DEF UploadInv, InsertParts, UploadType, ObjInv, NoUpload
  <1>4. /\ part'[o] = [chunk |-> c, state |-> "live"]
        /\ \A q \in Objs \ {o} : part'[q] = part[q]
        /\ UNCHANGED <<obj, chunk, block, old, onNode, workers>>
        /\ late' = IF GivenUp(c) /\ (up[o].block = 0 \/ \E p \in Objs \ {o} : part[p].chunk = c)
                   THEN late \cup {o} ELSE late
    BY <1>1, <1>3 DEF InsertParts, TypeOK
  <1>5. part'[o].chunk = c /\ part'[o].state = "live" /\ part[o].chunk = 0 /\ part[o].state = "none"
    BY <1>3, <1>4 DEF Nothing
  <1>6. Monotone
    BY <1>4, <1>5 DEF Monotone, Gone
  <1>7. DocInv'
    BY <1>1, <1>3, <1>4, <1>5 DEF DocInv
  <1>8. \A d \in Chunks : GivenUp(d)' <=> GivenUp(d)
    BY <1>4 DEF GivenUp, workers
  <1>9. \A d \in Chunks : Parted(d) => Parted(d)'
    BY <1>6, ChunksAssumption DEF Monotone, Parted
  <1>10. GivenUpKnown'
    BY <1>1, <1>4, <1>8, <1>9 DEF GivenUpKnown
  <1>11. o \notin late' => ~GivenUp(c)
    <2>1. SUFFICES ASSUME GivenUp(c), up[o].block # 0, ~\E p \in Objs \ {o} : part[p].chunk = c
                   PROVE  FALSE
      BY <1>4
    <2>2. c \notin old
      BY <1>1, <1>3, <2>1 DEF UploadInv, InsertParts, Making
    <2>3. ~Parted(c)
      BY <1>3, <1>5, <2>1 DEF Parted
    <2> QED  BY <1>1, <2>1, <2>2, <2>3 DEF GivenUpKnown
  <1>12. PartsKept'
    <2>1. ASSUME NEW q \in Objs, part'[q].state = "live", q \notin late'
          PROVE  ~GivenUp(part[q].chunk)'
      <3>1. CASE q = o
        BY <1>5, <1>8, <1>11, <2>1, <3>1 DEF GivenUp
      <3>2. CASE q # o
        <4>1. PICK d \in Chunks : d = part[q].chunk /\ part'[q] = part[q]
          BY <1>1, <1>4, <2>1, <3>2 DEF DocInv, TypeOK, PartType
        <4>2. ~GivenUp(d)'
          BY <1>1, <1>4, <1>8, <2>1, <4>1 DEF PartsKept
        <4> QED  BY <4>1, <4>2 DEF GivenUp
      <3> QED  BY <3>1, <3>2
    <2> QED  BY <2>1 DEF PartsKept
  <1>13. up[o].pc = "putting" /\ up[o].todo = {"parts"} => Formed(part[o].chunk)'
    BY <1>1, <1>3, <1>4, <1>5 DEF UploadInv, Formed, Making, UploadType
  <1>14. UploadInv(o)'
    BY <1>1, <1>2, <1>3, <1>4, <1>5, <1>13 DEF UploadInv, Making, Formed
  <1>15. ObjInv(o)'
    BY <1>1, <1>2, <1>3, <1>4, <1>5 DEF ObjInv, workers
  <1>16. Making(o)' => Making(o) /\ up'[o].chunk = up[o].chunk
    BY <1>2 DEF Making
  <1>17. up'[o].block \in {0, up[o].block}
    BY <1>2
  <1> QED  BY <1>2, <1>4, <1>6, <1>7, <1>10, <1>12, <1>14, <1>15, <1>16, <1>17, UploadStep DEF workers

\* No step of an upload breaks the invariant.
LEMMA UploadKeeps == ASSUME IInv, NEW o \in Objs, Upload(o) PROVE IInv'
  <1>1. TypeOK'
    BY UploadTypes
  <1> QED
    BY <1>1, CreateUploadStep, GetMappingStep, PutMappingStep, CopyMappingStep, InsertBlocksStep,
       InsertChunksStep, InsertPartsStep, InsertFailsStep, CompleteUploadStep, DeleteObjectStep
       DEF Upload

-----------------------------------------------------------------------------
(* Background workers.                                                     *)

\* A step of one worker leaves the jobs of the others alone.
LEMMA WorkerStep ==
    ASSUME IInv, TypeOK', Monotone, UploadsAlone, NEW a \in Workers,
           \A w \in Workers \ {a} : job'[w] = job[w],
           UNCHANGED <<obj, batch, late>>, failed \subseteq failed',
           a # Scrubber => /\ builds' = builds
                           /\ \A b \in Blocks : block[b] = Nothing => block'[b] = Nothing,
           \A q \in Objs : q # a => part'[q].state = part[q].state,
           \A q \in Objs : part'[q].state = "live" => part[q].state = "live",
           \A c \in Chunks : GivenUp(c)' => GivenUp(c) \/ (~Referenced(c) /\ (c \in old \/ Parted(c))),
           DocInv', JobInv(a)', a \in Objs => ObjInv(a)'
    PROVE  IInv'
  <1>1. TypeOK
    BY DEF IInv
  <1>2. GivenUpKnown' /\ PartsKept'
    BY PartsKeep
  <1>3. ASSUME NEW w \in Workers, w # a
        PROVE  JobInv(w)'
    <2>1. JobInv(w) /\ job[w].blocks \subseteq Blocks
      BY <1>1 DEF IInv, TypeOK, JobType
    <2>2. ASSUME "insert" \in job[w].pending, NEW b \in job[w].blocks
          PROVE  block'[b] = block[b] /\ b \in onNode' /\ \A q \in Objs : up'[q].block # b
      <3>1. w = Scrubber /\ a # Scrubber /\ block[b] = Nothing /\ b \in onNode /\ b \in Blocks
            /\ \A q \in Objs : up[q].block # b
        BY <1>3, <2>1, <2>2 DEF JobInv
      <3> QED  BY <3>1 DEF UploadsAlone
    <2> QED  BY <1>3, <2>2, JobKept
  <1>4. ASSUME NEW q \in Objs, q # a
        PROVE  ObjInv(q)'
    BY <1>4, ObjKept DEF UploadsAlone, Workers
  <1> QED  BY <1>2, <1>3, <1>4, UploadsKept DEF IInv

\* What a worker goes on with.
LEMMA AfterIs ==
    ASSUME TypeOK, NEW a \in Workers, NEW x, NEW more, NEW C, NEW B, job' = After(a, x, more, C, B)
    PROVE  LET rest_ == (job[a].pending \ {x}) \cup more
               j     == job'[a]
           IN  /\ \A w \in Workers \ {a} : job'[w] = job[w]
               /\ rest_ # {} => j.pending = rest_ /\ j.chunks = C /\ j.blocks = B
               /\ rest_ = {} => j.pending \subseteq {"build"} /\ j.chunks = {} /\ j.blocks = {}
               /\ j.build = {} \/ j.build = job[a].build
  <1>1. job \in [Workers -> JobType] /\ job[a] \in JobType
    BY DEF TypeOK
  <1> QED  BY <1>1 DEF After, IdleJob, JobType

\* The steps that change nothing but the job of one worker.
LEMMA JobStep ==
    ASSUME IInv, TypeOK', NEW a \in Workers, \A w \in Workers \ {a} : job'[w] = job[w],
           UNCHANGED <<db, batch, up, late, builds>>, failed \subseteq failed',
           \A c \in job'[a].chunks : GivenUp(c) \/ (~Referenced(c) /\ (c \in old \/ Parted(c)))
                                     \/ job'[a].pending \cap {"load", "chunks", "blocks"} = {},
           JobInv(a)', a \in Objs => ObjInv(a)'
    PROVE  IInv'
  <1>1. TypeOK /\ DocInv /\ \A o \in Objs : UploadInv(o)
    BY DEF IInv
  <1>2. Monotone
    BY <1>1 DEF Monotone, db, Gone
  <1>3. UploadsAlone
    BY <1>1 DEF UploadsAlone, db, UploadInv
  <1>4. DocInv'
    BY <1>1 DEF DocInv, db
  <1>5. \A c \in Chunks : GivenUp(c)' => GivenUp(c) \/ (~Referenced(c) /\ (c \in old \/ Parted(c)))
    BY DEF GivenUp, db
  <1> QED  BY <1>2, <1>3, <1>4, <1>5, WorkerStep DEF db

\* map_deleter: the parts of an object and their chunks, ...
LEMMA FindPartsChunksStep ==
    ASSUME IInv, TypeOK', NEW o \in Objs, FindPartsChunks(o)
    PROVE  IInv'
  <1> DEFINE C == IF part[o].state = "live" THEN {part[o].chunk} ELSE {}
             more == IF job[o].pending = {"find"} /\ C # {} /\ o \notin failed THEN {"unref"} ELSE {}
  <1>1. TypeOK /\ JobInv(o) /\ ObjInv(o) /\ o \in Workers /\ o \in batch /\ "find" \in job[o].pending
    BY DEF IInv, Workers, JobInv, FindPartsChunks
  <1>2. job' = After(o, "find", more, C, {}) /\ UNCHANGED <<db, others>>
    BY DEF FindPartsChunks, AfterBoth
  <1>3. \A c \in C : Parted(c)
    BY DEF Parted
  <1>4. job[o].pending \subseteq {"find", "parts"} /\ more \subseteq {"unref"}
        /\ (more # {} => job[o].pending = {"find"})
    BY <1>1 DEF JobInv
  <1> HIDE DEF C, more
  <1>5. /\ \A w \in Workers \ {o} : job'[w] = job[w]
        /\ job'[o].pending \subseteq {"parts"} \/ job'[o].pending \in {{"unref"}, {"build"}}
        /\ "parts" \in job[o].pending => "parts" \in job'[o].pending
        /\ job'[o].chunks \in {C, {}} /\ job'[o].blocks = {}
        /\ job'[o].build = {} \/ job'[o].build = job[o].build
    <2> DEFINE left == (job[o].pending \ {"find"}) \cup more
    <2>1. /\ \A w \in Workers \ {o} : job'[w] = job[w]
          /\ left # {} => job'[o].pending = left /\ job'[o].chunks = C /\ job'[o].blocks = {}
          /\ left = {} => job'[o].pending \subseteq {"build"} /\ job'[o].chunks = {} /\ job'[o].blocks = {}
          /\ job'[o].build = {} \/ job'[o].build = job[o].build
      BY <1>1, <1>2, AfterIs
    <2>2. left \subseteq {"parts"} \/ left = {"unref"}
      BY <1>4
    <2>3. "parts" \in job[o].pending => "parts" \in left
      OBVIOUS
    <2>4. \A S : S \subseteq {"build"} => S \subseteq {"parts"} \/ S = {"build"}
      OBVIOUS
    <2> HIDE DEF left
    <2> QED  BY <2>1, <2>2, <2>3, <2>4
  <1>6. JobInv(o)'
    BY <1>1, <1>2, <1>3, <1>5 DEF JobInv, Parted, db, others
  <1>7. ObjInv(o)'
    BY <1>1, <1>2, <1>5, ObjKept DEF db, others
  <1> QED  BY <1>1, <1>2, <1>5, <1>6, <1>7, JobStep DEF others

\* delete_parts_of_object: the part refers to its chunk no more.
LEMMA DeletePartsStep ==
    ASSUME IInv, TypeOK', NEW o \in Objs, DeleteParts(o)
    PROVE  IInv'
  <1> DEFINE more == IF job[o].pending = {"parts"} /\ job[o].chunks # {} /\ o \notin failed
                     THEN {"unref"} ELSE {}
             left == (job[o].pending \ {"parts"}) \cup more
  <1>1. TypeOK /\ DocInv /\ JobInv(o) /\ ObjInv(o) /\ o \in Workers /\ o \in batch
        /\ "parts" \in job[o].pending /\ obj[o] = "deleted" /\ \A q \in Objs : UploadInv(q)
    BY DEF IInv, Workers, JobInv, DeleteParts, ObjInv
  <1>2. job' = After(o, "parts", more, job[o].chunks, {})
        /\ UNCHANGED <<obj, chunk, old, block, onNode, others>>
    BY DEF DeleteParts, AfterBoth
  <1>3. \A c \in job[o].chunks : Parted(c)
    BY <1>1 DEF JobInv
  <1>4. left \subseteq {"find"} \/ left = {"unref"}
    BY <1>1 DEF JobInv
  <1>5. /\ \A w \in Workers \ {o} : job'[w] = job[w]
        /\ left # {} => job'[o].pending = left /\ job'[o].chunks = job[o].chunks /\ job'[o].blocks = {}
        /\ left = {} => job'[o].pending \subseteq {"build"} /\ job'[o].chunks = {} /\ job'[o].blocks = {}
        /\ job'[o].build = {} \/ job'[o].build = job[o].build
    BY <1>1, <1>2, AfterIs
  <1> HIDE DEF left, more
  <1>6. job'[o].pending \subseteq {"find"} \/ job'[o].pending = {"unref"} \/ job'[o].pending = {"build"}
    <2>1. \A S : S \subseteq {"build"} => S \subseteq {"find"} \/ S = {"build"}
      OBVIOUS
    <2> QED  BY <1>4, <1>5, <2>1
  <1>7. /\ \A q \in Objs \ {o} : part'[q] = part[q]
        /\ part'[o].chunk = part[o].chunk
        /\ part'[o].state = IF part[o].state = "live" THEN "deleted" ELSE part[o].state
        /\ part[o] = Nothing => part'[o] = Nothing
    BY <1>1 DEF DeleteParts, TypeOK, PartType, Nothing
  <1>8. Monotone
    BY <1>2, <1>7 DEF Monotone, Gone
  <1>9. UploadsAlone
    BY <1>1, <1>2, <1>7 DEF UploadsAlone, UploadInv, others
  <1>10. DocInv'
    BY <1>1, <1>2, <1>7 DEF DocInv, TypeOK, PartType
  <1>11. \A c \in Chunks : Parted(c) => Parted(c)'
    BY <1>8, ChunksAssumption DEF Monotone, Parted
  <1>12. job[o].chunks \subseteq Chunks
    BY <1>1 DEF TypeOK, JobType
  <1>13. JobInv(o)'
    BY <1>1, <1>2, <1>3, <1>5, <1>6, <1>11, <1>12 DEF JobInv, others
  <1>14. ObjInv(o)'
    BY <1>1, <1>2, <1>7 DEF ObjInv, others
  <1>15. \A c \in Chunks : GivenUp(c)' => GivenUp(c)
    BY <1>2, <1>5, <1>6 DEF GivenUp
  <1> QED
    BY <1>1, <1>2, <1>5, <1>7, <1>8, <1>9, <1>10, <1>13, <1>14, <1>15, WorkerStep DEF others

\* ... those of them without a part, ...
LEMMA FindUnreferencedStep ==
    ASSUME IInv, TypeOK', NEW a \in Workers, FindUnreferenced(a)
    PROVE  IInv'
  <1> DEFINE C == Unreferenced(job[a].chunks)
             more == IF C = {} THEN {} ELSE {"load"}
  <1>1. TypeOK /\ JobInv(a) /\ (a \in Objs => a \in batch) /\ "unref" \in job[a].pending
    BY DEF IInv, JobInv, FindUnreferenced
  <1>2. job' = After(a, "unref", more, C, {}) /\ UNCHANGED <<db, others>>
    BY DEF FindUnreferenced
  <1>3. \A c \in C : Parted(c) /\ ~Referenced(c)
    BY <1>1 DEF JobInv, Unreferenced
  <1>4. job[a].pending = {"unref"}
    BY <1>1 DEF JobInv
  <1>5. /\ \A w \in Workers \ {a} : job'[w] = job[w]
        /\ more # {} => job'[a].pending = {"load"} /\ job'[a].chunks = C /\ job'[a].blocks = {}
        /\ more = {} => job'[a].pending \subseteq {"build"} /\ job'[a].chunks = {} /\ job'[a].blocks = {}
        /\ job'[a].build = {} \/ job'[a].build = job[a].build
    BY <1>1, <1>2, <1>4, AfterIs
  <1> HIDE DEF C, more
  <1>6. job'[a].pending \in {{}, {"load"}, {"build"}} /\ job'[a].blocks = {}
        /\ \A c \in job'[a].chunks : Parted(c) /\ ~Referenced(c)
    <2>1. \A S : S \subseteq {"build"} => S = {} \/ S = {"build"}
      OBVIOUS
    <2> QED  BY <1>3, <1>5, <2>1
  <1>7. JobInv(a)'
    BY <1>1, <1>2, <1>5, <1>6 DEF JobInv, Parted, db, others
  <1>8. a \in Objs => ObjInv(a)'
    BY <1>1, <1>2, <1>4, ObjKept DEF db, others
  <1> QED  BY <1>2, <1>5, <1>6, <1>7, <1>8, JobStep DEF others

\* ... and their blocks, ...
LEMMA LoadChunksStep ==
    ASSUME IInv, TypeOK', NEW a \in Workers, LoadChunks(a)
    PROVE  IInv'
  <1> DEFINE C == {c \in job[a].chunks : InDB(c)}
             B == LiveBlocks(C)
             more == Deletions(C, B)
  <1>1. TypeOK /\ JobInv(a) /\ (a \in Objs => a \in batch) /\ "load" \in job[a].pending
    BY DEF IInv, JobInv, LoadChunks
  <1>2. job' = After(a, "load", more, C, B) /\ UNCHANGED <<db, others>>
    BY DEF LoadChunks
  <1>3. \A c \in C : c \in Chunks /\ GivenUp(c)
    BY <1>1 DEF GivenUp, TypeOK, JobType
  <1>4. job[a].pending = {"load"}
    BY <1>1 DEF JobInv
  <1>5. more \subseteq {"chunks", "blocks"} /\ \A b \in B : block[b].state = "live" /\ block[b].chunk \in C
    BY DEF Deletions, LiveBlocks
  <1>6. /\ \A w \in Workers \ {a} : job'[w] = job[w]
        /\ more # {} => job'[a].pending = more /\ job'[a].chunks = C /\ job'[a].blocks = B
        /\ more = {} => job'[a].pending \subseteq {"build"} /\ job'[a].chunks = {} /\ job'[a].blocks = {}
        /\ job'[a].build = {} \/ job'[a].build = job[a].build
    <2> HIDE DEF more, B, C
    <2> QED  BY <1>1, <1>2, <1>4, <1>5, AfterIs
  <1> HIDE DEF C, B, more
  <1>7. /\ job'[a].pending \subseteq {"chunks", "blocks"} \/ job'[a].pending = {"build"}
        /\ \A c \in job'[a].chunks : GivenUp(c)
        /\ \A b \in job'[a].blocks : block[b].state # "none" /\ block[b].chunk \in job'[a].chunks
    <2>1. \A S : S \subseteq {"build"} => S \subseteq {"chunks", "blocks"} \/ S = {"build"}
      OBVIOUS
    <2> QED  BY <1>3, <1>5, <1>6, <2>1
  <1>8. JobInv(a)'
    BY <1>1, <1>2, <1>6, <1>7 DEF JobInv, db, others
  <1>9. a \in Objs => ObjInv(a)'
    BY <1>1, <1>2, <1>4, ObjKept DEF db, others
  <1> QED  BY <1>2, <1>6, <1>7, <1>8, <1>9, JobStep DEF others

\* ... which are deleted ...
LEMMA DeleteChunksStep ==
    ASSUME IInv, TypeOK', NEW a \in Workers, DeleteChunks(a)
    PROVE  IInv'
  <1> DEFINE left == job[a].pending \ {"chunks"}
  <1>1. TypeOK /\ DocInv /\ JobInv(a) /\ (a \in Objs => a \in batch) /\ "chunks" \in job[a].pending
        /\ job[a].chunks \subseteq Chunks /\ job[a].blocks \subseteq Blocks /\ \A q \in Objs : UploadInv(q)
    BY DEF IInv, JobInv, DeleteChunks, TypeOK, JobType
  <1>2. /\ job' = After(a, "chunks", {}, job[a].chunks, job[a].blocks)
        /\ UNCHANGED <<obj, part, old, block, onNode, others>>
        /\ \A c \in Chunks : chunk'[c] = IF c \in job[a].chunks /\ chunk[c] = "live"
                                         THEN "deleted" ELSE chunk[c]
    BY <1>1 DEF DeleteChunks, TypeOK
  <1>3. left = {} \/ \E x \in {"blocks", "nodes", "mark"} : left = {x} /\ x \in job[a].pending
    BY <1>1 DEF JobInv
  <1>4. /\ \A w \in Workers \ {a} : job'[w] = job[w]
        /\ left # {} => job'[a].pending = left /\ job'[a].chunks = job[a].chunks
                        /\ job'[a].blocks = job[a].blocks
        /\ left = {} => job'[a].pending \subseteq {"build"} /\ job'[a].chunks = {} /\ job'[a].blocks = {}
        /\ job'[a].build = {} \/ job'[a].build = job[a].build
    BY <1>1, <1>2, AfterIs
  <1>5. Monotone
    BY <1>2 DEF Monotone, Gone
  <1>6. UploadsAlone
    BY <1>1, <1>2 DEF UploadsAlone, UploadInv, others
  <1>7. DocInv'
    BY <1>1, <1>2 DEF DocInv, TypeOK
  <1>8. \A c \in Chunks : GivenUp(c)' => GivenUp(c)
    <2>1. \A c \in job[a].chunks : GivenUp(c)
      BY <1>1 DEF GivenUp
    <2> QED  BY <1>1, <1>2, <1>3, <1>4, <2>1 DEF GivenUp
  <1>9. JobInv(a)'
    <2>1. \A S : S \subseteq {"build"} => S = {} \/ S = {"build"}
      OBVIOUS
    <2>2. CASE left = {}
      BY <1>1, <1>2, <1>4, <2>1, <2>2 DEF JobInv, others
    <2>3. CASE left # {}
      <3>1. PICK x \in {"blocks", "nodes", "mark"} : job'[a].pending = {x} /\ x \in job[a].pending
        BY <1>3, <1>4, <2>3
      <3>2. job'[a].chunks = job[a].chunks /\ job'[a].blocks = job[a].blocks
        BY <1>4, <2>3
      <3> HIDE DEF left
      <3>3. \A b \in job[a].blocks : Gone(b)' = Gone(b) /\ block'[b] = block[b]
        BY <1>2 DEF Gone
      <3>4. ASSUME x = "blocks", NEW b \in job[a].blocks
            PROVE  /\ block[b].state # "none"
                   /\ block[b].chunk \in job[a].chunks \/ chunk'[block[b].chunk] \in {"deleted", "removed"}
        <4>1. /\ block[b].state # "none"
              /\ block[b].chunk \in job[a].chunks \/ chunk[block[b].chunk] \in {"deleted", "removed"}
          BY <1>1, <3>1, <3>4 DEF JobInv
        <4>2. block[b].chunk \in Chunks
          BY <1>1, <4>1 DEF DocInv, TypeOK, BlockType
        <4> QED  BY <1>2, <4>1, <4>2
      <3> QED  BY <1>1, <1>2, <1>4, <3>1, <3>2, <3>3, <3>4 DEF JobInv, others
    <2> QED  BY <2>2, <2>3
  <1>10. a \in Objs => ObjInv(a)'
    <2>1. "parts" \notin job[a].pending
      BY <1>1 DEF JobInv
    <2> QED  BY <1>2, <2>1, ObjKept DEF others
  <1> QED
    BY <1>2, <1>4, <1>5, <1>6, <1>7, <1>8, <1>9, <1>10, WorkerStep DEF others

\* Marking blocks changes their state only.
LEMMA SetBlocksIs ==
    ASSUME TypeOK, NEW B, NEW from \in SUBSET {"live", "deleted", "reclaimed"},
           NEW to \in {"deleted", "reclaimed", "removed"}, block' = SetBlocks(B, from, to)
    PROVE  \A b \in Blocks :
               /\ block'[b].chunk = block[b].chunk
               /\ block'[b].state = IF b \in B /\ block[b].state \in from THEN to ELSE block[b].state
               /\ block[b] = Nothing => block'[b] = Nothing
  BY DEF SetBlocks, TypeOK, BlockType, Nothing

\* delete_blocks: the chunks of these blocks were given up before.
LEMMA DeleteBlocksStep ==
    ASSUME IInv, TypeOK', NEW a \in Workers, DeleteBlocks(a)
    PROVE  IInv'
  <1>1. TypeOK /\ DocInv /\ JobInv(a) /\ (a \in Objs => a \in batch) /\ "blocks" \in job[a].pending
        /\ job[a].chunks \subseteq Chunks /\ job[a].blocks \subseteq Blocks /\ \A q \in Objs : UploadInv(q)
    BY DEF IInv, JobInv, DeleteBlocks, TypeOK, JobType
  <1>2. /\ job' = After(a, "blocks", {"nodes"}, job[a].chunks, job[a].blocks)
        /\ UNCHANGED <<obj, part, chunk, old, onNode, others>>
        /\ \A b \in Blocks :
               /\ block'[b].chunk = block[b].chunk
               /\ block'[b].state = IF b \in job[a].blocks /\ block[b].state = "live"
                                    THEN "deleted" ELSE block[b].state
               /\ block[b] = Nothing => block'[b] = Nothing
    BY <1>1, SetBlocksIs DEF DeleteBlocks
  <1>3. job[a].pending \subseteq {"chunks", "blocks"}
    BY <1>1 DEF JobInv
  <1>4. /\ \A w \in Workers \ {a} : job'[w] = job[w]
        /\ job'[a].pending \subseteq {"chunks", "nodes"} /\ job'[a].chunks = job[a].chunks
        /\ job'[a].blocks = job[a].blocks
        /\ job'[a].build = {} \/ job'[a].build = job[a].build
    <2> DEFINE left == (job[a].pending \ {"blocks"}) \cup {"nodes"}
    <2>1. left \subseteq {"chunks", "nodes"} /\ left # {}
      BY <1>3
    <2>2. /\ \A w \in Workers \ {a} : job'[w] = job[w]
          /\ left # {} => job'[a].pending = left /\ job'[a].chunks = job[a].chunks
                          /\ job'[a].blocks = job[a].blocks
          /\ job'[a].build = {} \/ job'[a].build = job[a].build
      BY <1>1, <1>2, AfterIs
    <2> HIDE DEF left
    <2> QED  BY <2>1, <2>2
  <1>5. Monotone
    BY <1>2 DEF Monotone, Gone
  <1>6. UploadsAlone
    BY <1>1, <1>2 DEF UploadsAlone, UploadInv, others, TypeOK, UploadType
  <1>7. DocInv'
    BY <1>1, <1>2 DEF DocInv
  <1>8. ASSUME NEW b \in job[a].blocks
        PROVE  block[b].state # "none" /\ Gone(b)' /\ GivenUp(block[b].chunk)
    <2>1. /\ block[b].state # "none"
          /\ block[b].chunk \in job[a].chunks \/ chunk[block[b].chunk] \in {"deleted", "removed"}
      BY <1>1 DEF JobInv
    <2>2. GivenUp(block[b].chunk)
      BY <1>1, <2>1 DEF GivenUp
    <2> QED  BY <1>1, <1>2, <2>1, <2>2 DEF Gone
  <1>9. \A c \in Chunks : GivenUp(c)' => GivenUp(c)
    <2>1. ASSUME NEW c \in Chunks, NEW b \in Blocks, block'[b].chunk = c, block'[b].state # "live"
          PROVE  GivenUp(c)
      <3>1. CASE b \in job[a].blocks
        BY <1>2, <1>8, <2>1, <3>1
      <3>2. CASE b \notin job[a].blocks
        BY <1>2, <2>1, <3>2 DEF GivenUp
      <3> QED  BY <3>1, <3>2
    <2>2. ASSUME NEW c \in Chunks, NEW w \in Workers, c \in job'[w].chunks,
                 job'[w].pending \cap {"load", "chunks", "blocks"} # {}
          PROVE  GivenUp(c)
      BY <1>1, <1>4, <2>2 DEF GivenUp
    <2> QED  BY <1>2, <2>1, <2>2 DEF GivenUp
  <1>10. JobInv(a)'
    <2>1. \A b \in job[a].blocks : Gone(b)'
      BY <1>8
    <2> QED  BY <1>1, <1>2, <1>4, <2>1 DEF JobInv, others, Gone
  <1>11. a \in Objs => ObjInv(a)'
    <2>1. "parts" \notin job[a].pending
      BY <1>3
    <2> QED  BY <1>2, <2>1, ObjKept DEF others
  <1> QED
    BY <1>2, <1>4, <1>5, <1>6, <1>7, <1>9, <1>10, <1>11, WorkerStep DEF others

\* ... and taken off the agents, ...
LEMMA DeleteFromNodesStep ==
    ASSUME IInv, TypeOK', NEW a \in Workers, NEW gone, NEW answered, DeleteFromNodes(a, gone, answered)
    PROVE  IInv'
  <1> DEFINE more == IF answered = {} THEN {} ELSE {"mark"}
             left == (job[a].pending \ {"nodes"}) \cup more
  <1>1. TypeOK /\ DocInv /\ JobInv(a) /\ (a \in Objs => a \in batch) /\ "nodes" \in job[a].pending
        /\ job[a].chunks \subseteq Chunks /\ job[a].blocks \subseteq Blocks /\ \A q \in Objs : UploadInv(q)
    BY DEF IInv, JobInv, DeleteFromNodes, TypeOK, JobType
  <1>2. /\ job' = After(a, "nodes", more, job[a].chunks, answered)
        /\ UNCHANGED <<obj, part, chunk, old, block, others>>
        /\ onNode' = onNode \ gone /\ gone \subseteq job[a].blocks /\ answered \subseteq gone
    BY DEF DeleteFromNodes, Succeeded
  <1>3. left \subseteq {"chunks", "mark"} /\ job[a].pending \subseteq {"chunks", "nodes"}
    BY <1>1 DEF JobInv
  <1>4. /\ \A w \in Workers \ {a} : job'[w] = job[w]
        /\ left # {} => job'[a].pending = left /\ job'[a].chunks = job[a].chunks
                        /\ job'[a].blocks = answered
        /\ left = {} => job'[a].pending \subseteq {"build"} /\ job'[a].chunks = {} /\ job'[a].blocks = {}
        /\ job'[a].build = {} \/ job'[a].build = job[a].build
    BY <1>1, <1>2, AfterIs
  <1>5. "chunks" \in left => "chunks" \in job[a].pending
    OBVIOUS
  <1> HIDE DEF more, left
  <1>6. /\ job'[a].pending \subseteq {"chunks", "mark"} \/ job'[a].pending = {"build"}
        /\ job'[a].chunks \in {{}, job[a].chunks}
        /\ "chunks" \in job'[a].pending => "chunks" \in job[a].pending
        /\ job'[a].blocks \subseteq answered
    <2>1. \A S : S \subseteq {"build"} => S \subseteq {"chunks", "mark"} \/ S = {"build"}
      OBVIOUS
    <2>2. CASE left = {}
      BY <1>4, <2>1, <2>2
    <2>3. CASE left # {}
      BY <1>3, <1>4, <1>5, <2>3
    <2> QED  BY <2>2, <2>3
  <1>7. \A b \in gone : Gone(b) /\ b \in Blocks
    BY <1>1, <1>2 DEF JobInv
  <1>8. Monotone
    BY <1>2 DEF Monotone, Gone
  <1>9. UploadsAlone
    BY <1>1, <1>2, <1>7 DEF UploadsAlone, UploadInv, others, Gone, Nothing
  <1>10. DocInv'
    BY <1>1, <1>2, <1>7 DEF DocInv, Gone
  <1>11. \A c \in Chunks : GivenUp(c)' => GivenUp(c)
    BY <1>2, <1>4, <1>6 DEF GivenUp
  <1>12. JobInv(a)'
    BY <1>1, <1>2, <1>4, <1>6, <1>7 DEF JobInv, others, Gone
  <1>13. a \in Objs => ObjInv(a)'
    <2>1. "parts" \notin job[a].pending
      BY <1>3
    <2> QED  BY <1>2, <2>1, ObjKept DEF others
  <1> QED
    BY <1>2, <1>4, <1>8, <1>9, <1>10, <1>11, <1>12, <1>13, WorkerStep DEF others

\* ... and then marked.
LEMMA MarkReclaimedStep ==
    ASSUME IInv, TypeOK', NEW a \in Workers, MarkReclaimed(a)
    PROVE  IInv'
  <1> DEFINE left == job[a].pending \ {"mark"}
  <1>1. TypeOK /\ DocInv /\ JobInv(a) /\ (a \in Objs => a \in batch) /\ "mark" \in job[a].pending
        /\ job[a].chunks \subseteq Chunks /\ job[a].blocks \subseteq Blocks /\ \A q \in Objs : UploadInv(q)
    BY DEF IInv, JobInv, MarkReclaimed, TypeOK, JobType
  <1>2. /\ job' = After(a, "mark", {}, job[a].chunks, {})
        /\ UNCHANGED <<obj, part, chunk, old, onNode, others>>
        /\ \A b \in Blocks :
               /\ block'[b].chunk = block[b].chunk
               /\ block'[b].state = IF b \in job[a].blocks /\ block[b].state \in {"live", "deleted"}
                                    THEN "reclaimed" ELSE block[b].state
               /\ block[b] = Nothing => block'[b] = Nothing
    BY <1>1, SetBlocksIs DEF MarkReclaimed
  <1>3. left \subseteq {"chunks"} /\ job[a].pending \subseteq {"chunks", "mark"}
    BY <1>1 DEF JobInv
  <1>4. /\ \A w \in Workers \ {a} : job'[w] = job[w]
        /\ left # {} => job'[a].pending = left /\ job'[a].chunks = job[a].chunks /\ job'[a].blocks = {}
        /\ left = {} => job'[a].pending \subseteq {"build"} /\ job'[a].chunks = {} /\ job'[a].blocks = {}
        /\ job'[a].build = {} \/ job'[a].build = job[a].build
    BY <1>1, <1>2, AfterIs
  <1>5. "chunks" \in left => "chunks" \in job[a].pending
    OBVIOUS
  <1> HIDE DEF left
  <1>6. /\ job'[a].pending \subseteq {"chunks"} \/ job'[a].pending = {"build"}
        /\ job'[a].chunks \in {{}, job[a].chunks}
        /\ "chunks" \in job'[a].pending => "chunks" \in job[a].pending
        /\ job'[a].blocks = {}
    <2>1. \A S : S \subseteq {"build"} => S \subseteq {"chunks"} \/ S = {"build"}
      OBVIOUS
    <2>2. CASE left = {}
      BY <1>4, <2>1, <2>2
    <2>3. CASE left # {}
      BY <1>3, <1>4, <1>5, <2>3
    <2> QED  BY <2>2, <2>3
  <1>7. \A b \in job[a].blocks : Gone(b) /\ b \notin onNode
    BY <1>1 DEF JobInv
  <1>8. Monotone
    BY <1>2 DEF Monotone, Gone
  <1>9. UploadsAlone
    BY <1>1, <1>2 DEF UploadsAlone, UploadInv, others, TypeOK, UploadType
  <1>10. DocInv'
    BY <1>1, <1>2, <1>7 DEF DocInv, Gone
  <1>11. \A c \in Chunks : GivenUp(c)' => GivenUp(c)
    BY <1>1, <1>2, <1>4, <1>6, <1>7 DEF GivenUp, Gone
  <1>12. JobInv(a)'
    BY <1>1, <1>2, <1>4, <1>6 DEF JobInv, others
  <1>13. a \in Objs => ObjInv(a)'
    <2>1. "parts" \notin job[a].pending
      BY <1>3
    <2> QED  BY <1>2, <2>1, ObjKept DEF others
  <1> QED
    BY <1>2, <1>4, <1>8, <1>9, <1>10, <1>11, <1>12, <1>13, WorkerStep DEF others

\* No step of map_deleter breaks the invariant.
LEMMA DeleterKeeps == ASSUME IInv, NEW a \in Workers, Deleter(a) PROVE IInv'
  <1>1. TypeOK'
    BY WorkerTypes
  <1> QED
    BY <1>1, FindUnreferencedStep, LoadChunksStep, DeleteChunksStep, DeleteBlocksStep,
       DeleteFromNodesStep, MarkReclaimedStep DEF Deleter

\* The objects reclaimer takes a batch of deleted objects, ...
LEMMA ReclaimObjectsStep ==
    ASSUME IInv, TypeOK', ReclaimObjects
    PROVE  IInv'
  <1>1. TypeOK /\ DocInv /\ \A o \in Objs : UploadInv(o) /\ ObjInv(o)
    BY DEF IInv
  <1>2. /\ batch = {} /\ batch' = {o \in Objs : obj[o] = "deleted"}
        /\ UNCHANGED <<db, up, failed, builds, late>>
        /\ \A a \in Workers : a \notin batch' => job'[a] = job[a]
        /\ \A a \in Workers : a \in batch' => job'[a].pending = {"find", "parts"} /\ job'[a].chunks = {}
                               /\ job'[a].blocks = {} /\ job'[a].build = {}
    BY DEF ReclaimObjects, IdleJob
  <1>3. Monotone
    BY <1>1, <1>2 DEF Monotone, db, Gone
  <1>4. UploadsAlone
    BY <1>1, <1>2 DEF UploadsAlone, db, UploadInv
  <1>5. DocInv'
    BY <1>1, <1>2 DEF DocInv, db
  <1>6. \A c \in Chunks : GivenUp(c)' => GivenUp(c)
    BY <1>2 DEF GivenUp, db
  <1>7. GivenUpKnown' /\ PartsKept'
    BY <1>2, <1>3, <1>6, PartsKeep DEF db
  <1>8. ASSUME NEW a \in Workers
        PROVE  JobInv(a)'
    <2>1. CASE a \in batch'
      BY <1>2, <2>1 DEF JobInv
    <2>2. CASE a \notin batch'
      <3>1. JobInv(a) /\ job[a].blocks \subseteq Blocks
        BY <1>1 DEF IInv, TypeOK, JobType
      <3>2. \A b \in job[a].blocks : "insert" \in job[a].pending =>
                block'[b] = block[b] /\ b \in onNode' /\ \A o \in Objs : up'[o].block # b
        BY <1>2, <3>1 DEF JobInv, db
      <3> QED  BY <1>2, <1>3, <2>2, <3>2, JobKept DEF db
    <2> QED  BY <2>1, <2>2
  <1>9. ASSUME NEW o \in Objs
        PROVE  ObjInv(o)'
    BY <1>1, <1>2 DEF ObjInv, db, Workers
  <1> QED  BY <1>3, <1>4, <1>7, <1>8, <1>9, <1>5, UploadsKept DEF IInv

\* ... goes on when an operation of one of them failed, ...
LEMMA DatabaseErrorStep ==
    ASSUME IInv, TypeOK', NEW o \in Objs, DatabaseError(o)
    PROVE  IInv'
  <1>1. PICK x \in job[o].pending \ {"mark"} :
            job' = After(o, x, {}, job[o].chunks, job[o].blocks)
    BY DEF DatabaseError
  <1>2. TypeOK /\ JobInv(o) /\ o \in Workers /\ o \in batch /\ ObjInv(o)
        /\ job[o].pending # {} /\ UNCHANGED <<db, up, batch, builds, late>> /\ failed' = failed \cup {o}
    BY <1>1 DEF IInv, Workers, JobInv, DatabaseError
  <1> DEFINE left == job[o].pending \ {x}
  <1>3. /\ \A w \in Workers \ {o} : job'[w] = job[w]
        /\ left # {} => job'[o].pending = left /\ job'[o].chunks = job[o].chunks
                        /\ job'[o].blocks = job[o].blocks
        /\ left = {} => job'[o].pending \subseteq {"build"} /\ job'[o].chunks = {} /\ job'[o].blocks = {}
        /\ job'[o].build = {} \/ job'[o].build = job[o].build
    BY <1>1, <1>2, AfterIs
  <1>4. CASE left = {}
    <2>1. \A S : S \subseteq {"build"} => S = {} \/ S = {"build"}
      OBVIOUS
    <2>2. JobInv(o)'
      BY <1>2, <1>3, <1>4, <2>1 DEF JobInv, db
    <2>3. ObjInv(o)'
      BY <1>2 DEF ObjInv, db
    <2> QED  BY <1>2, <1>3, <1>4, <2>2, <2>3, JobStep
  <1>5. CASE left # {}
    <2>1. job'[o].pending \subseteq job[o].pending /\ job'[o].chunks = job[o].chunks
          /\ job'[o].blocks = job[o].blocks
      BY <1>3, <1>5
    <2>2. \/ job'[o].pending \subseteq {"find", "parts"}
          \/ \E y \in {"blocks", "nodes", "mark"} : job'[o].pending \subseteq {"chunks", y}
          \/ \E y \in {"unref", "load", "reload", "build", "insert"} : job'[o].pending = {y}
      BY <1>2, <1>3, <1>5 DEF JobInv
    <2> HIDE DEF left
    <2>3. JobInv(o)'
      BY <1>2, <1>3, <2>1, <2>2 DEF JobInv, db, Gone, Parted
    <2>4. ObjInv(o)'
      BY <1>2 DEF ObjInv, db
    <2>5. job'[o].pending \cap {"load", "chunks", "blocks"} # {} => \A c \in job'[o].chunks : GivenUp(c)
      BY <1>2, <2>1 DEF GivenUp
    <2> QED  BY <1>2, <1>3, <2>3, <2>4, <2>5, JobStep
  <1> QED  BY <1>4, <1>5

\* ... and marks those whose parts are deleted.
LEMMA ObjectsReclaimedStep ==
    ASSUME IInv, TypeOK', ObjectsReclaimed
    PROVE  IInv'
  <1>1. TypeOK /\ DocInv /\ \A o \in Objs : UploadInv(o) /\ ObjInv(o)
    BY DEF IInv
  <1>2. /\ batch' = {} /\ \A o \in batch : job[o].pending = {}
        /\ UNCHANGED <<part, chunk, old, block, onNode, up, job, builds, late>>
        /\ \A o \in Objs : obj'[o] = IF o \in batch \ failed /\ obj[o] = "deleted"
                                     THEN "reclaimed" ELSE obj[o]
    BY DEF ObjectsReclaimed, Reclaimed, Idle
  <1>3. Monotone
    BY <1>1, <1>2 DEF Monotone, Gone
  <1>4. UploadsAlone
    BY <1>1, <1>2 DEF UploadsAlone, UploadInv
  <1>5. DocInv'
    BY <1>1, <1>2 DEF DocInv
  <1>6. \A c \in Chunks : GivenUp(c)' => GivenUp(c)
    BY <1>2 DEF GivenUp
  <1>7. GivenUpKnown' /\ PartsKept'
    BY <1>2, <1>3, <1>6, PartsKeep
  <1>8. ASSUME NEW a \in Workers
        PROVE  JobInv(a)'
    <2>1. JobInv(a) /\ (a \in batch => job[a].pending = {})
      BY <1>2 DEF IInv
    <2> QED  BY <1>2, <2>1 DEF JobInv, Gone, Parted
  <1>9. ASSUME NEW o \in Objs
        PROVE  ObjInv(o)'
    <2>1. ObjInv(o) /\ (o \in batch => "parts" \notin job[o].pending)
      BY <1>1, <1>2
    <2> QED  BY <1>2, <2>1 DEF ObjInv
  <1> QED  BY <1>3, <1>4, <1>5, <1>7, <1>8, <1>9, UploadsKept DEF IInv

\* The agent blocks reclaimer takes deleted blocks.
LEMMA ReclaimBlocksStep ==
    ASSUME IInv, TypeOK', ReclaimBlocks
    PROVE  IInv'
  <1> DEFINE a == AgentReclaimer
  <1>1. TypeOK /\ JobInv(a) /\ a \in Workers /\ a # Scrubber /\ a \notin Objs
    BY WorkersAssumption DEF IInv, Workers, AgentReclaimer, Scrubber
  <1>2. job[a] \in JobType /\ UNCHANGED <<db, others>>
    BY <1>1 DEF TypeOK, ReclaimBlocks
  <1>3. /\ \A w \in Workers \ {a} : job'[w] = job[w]
        /\ job'[a].pending = {"nodes"} /\ job'[a].blocks = DeletedNotReclaimed
        /\ job'[a].chunks = job[a].chunks /\ job'[a].build = job[a].build
    BY <1>1, <1>2 DEF ReclaimBlocks, TypeOK, JobType
  <1>4. JobInv(a)'
    BY <1>1, <1>2, <1>3 DEF JobInv, Gone, db, DeletedNotReclaimed
  <1> QED  BY <1>1, <1>2, <1>3, <1>4, JobStep DEF others

-----------------------------------------------------------------------------
(* The scrubber.                                                           *)

\* The scrubber is a worker and no object.
LEMMA TheScrubber == Scrubber \in Workers /\ Scrubber \notin Objs
  BY WorkersAssumption DEF Workers

\* The scrubber takes its batch.
LEMMA ScrubberBatchStep ==
    ASSUME IInv, TypeOK', ScrubberBatch
    PROVE  IInv'
  <1> DEFINE a == Scrubber
  <1>1. TypeOK /\ JobInv(a) /\ a \in Workers /\ a \notin Objs
    BY TheScrubber DEF IInv
  <1>2. job[a] \in JobType /\ UNCHANGED <<db, others>>
    BY <1>1 DEF TypeOK, ScrubberBatch
  <1>3. /\ \A w \in Workers \ {a} : job'[w] = job[w]
        /\ job'[a].pending = {"reload"} /\ job'[a].blocks = job[a].blocks
        /\ job'[a].build = job[a].build
    BY <1>1, <1>2 DEF ScrubberBatch, TypeOK, JobType
  <1>4. JobInv(a)'
    BY <1>1, <1>2, <1>3 DEF JobInv, db, others
  <1> QED  BY <1>1, <1>2, <1>3, <1>4, JobStep DEF others

\* Unreferenced and old chunks go, and the blocks of deleted ones.
LEMMA ReloadChunksStep ==
    ASSUME IInv, TypeOK', ReloadChunks
    PROVE  IInv'
  <1> DEFINE a    == Scrubber
             C    == job[Scrubber].chunks
             Live == {c \in C : chunk[c] = "live"}
             Dead == {c \in C : chunk[c] = "deleted"}
             Left == Unused(Live)
             B    == LiveBlocks(Dead \cup Left)
             Keep == IF builds < MaxBuilds THEN Live \ Unreferenced(Live) ELSE {}
             More == Deletions(Left, B)
  <1>1. TypeOK /\ DocInv /\ JobInv(a) /\ a \in Workers /\ a \notin Objs
    BY TheScrubber DEF IInv
  <1>2. UNCHANGED <<db, others>> /\ "reload" \in job[a].pending
    BY DEF ReloadChunks
  <1>3. /\ \A w \in Workers \ {a} : job'[w] = job[w]
        /\ job'[a].pending = IF More = {} /\ Keep # {} THEN {"build"} ELSE More
        /\ job'[a].chunks  = IF More = {} THEN {} ELSE Left
        /\ job'[a].blocks  = IF More = {} THEN {} ELSE B
        /\ job'[a].build   = Keep
    BY <1>1 DEF ReloadChunks, TypeOK
  <1>4. \A c \in Left : ~Referenced(c) /\ c \in old
    BY DEF Unused, Unreferenced
  <1>5. \A b \in B : /\ block[b].state = "live"
                     /\ block[b].chunk \in Left \/ chunk[block[b].chunk] = "deleted"
    BY DEF LiveBlocks
  <1>6. More \subseteq {"chunks", "blocks"} /\ (Keep # {} => builds < MaxBuilds)
    BY DEF Deletions
  <1>7. "blocks" \in job'[a].pending => job'[a].chunks = Left /\ job'[a].blocks = B
    <2> HIDE DEF More, Keep, Left, B
    <2> QED  BY <1>3
  <1> HIDE DEF Left, B, Keep, More
  <1>8. JobInv(a)'
    <2>1. \/ job'[a].pending = {"build"} /\ builds < MaxBuilds
          \/ job'[a].pending \subseteq {"chunks", "blocks"}
      BY <1>3, <1>6
    <2>2. a = Scrubber /\ a \notin Objs /\ block' = block /\ chunk' = chunk /\ builds' = builds
      BY <1>1, <1>2 DEF db, others
    <2>3. job'[a].build # {} => builds < MaxBuilds
      BY <1>3, <1>6
    <2>4. "blocks" \in job'[a].pending => \A b \in job'[a].blocks :
              /\ block'[b].state # "none"
              /\ block'[b].chunk \in job'[a].chunks \/ chunk'[block'[b].chunk] \in {"deleted", "removed"}
      BY <1>5, <1>7, <2>2
    <2> HIDE DEF a
    <2> QED  BY <2>1, <2>2, <2>3, <2>4 DEF JobInv
  <1>9. \A c \in job'[a].chunks : ~Referenced(c) /\ c \in old
    BY <1>3, <1>4
  <1> QED  BY <1>1, <1>2, <1>3, <1>8, <1>9, JobStep DEF others

\* MapBuilder writes a block: it is nobody's.
LEMMA BuildChunksStep ==
    ASSUME IInv, TypeOK', BuildChunks
    PROVE  IInv'
  <1> DEFINE a == Scrubber
  <1>1. TypeOK /\ DocInv /\ JobInv(a) /\ a \in Workers /\ a \notin Objs /\ \A q \in Objs : UploadInv(q)
    BY TheScrubber DEF IInv
  <1>u. /\ obj' = obj /\ part' = part /\ chunk' = chunk /\ old' = old /\ block' = block
        /\ batch' = batch /\ failed' = failed /\ up' = up /\ late' = late
    BY DEF BuildChunks
  <1>2. CASE job' = [job EXCEPT ![Scrubber] = IdleJob] /\ UNCHANGED <<onNode, builds>>
    <2>1. /\ \A w \in Workers \ {a} : job'[w] = job[w]
          /\ job'[a].pending = {} /\ job'[a].chunks = {} /\ job'[a].blocks = {} /\ job'[a].build = {}
      BY <1>1, <1>2 DEF TypeOK, IdleJob
    <2>2. JobInv(a)'
      BY <2>1 DEF JobInv
    <2>3. UNCHANGED <<db, batch, up, late, builds>> /\ failed' = failed
      BY <1>2, <1>u DEF db
    <2>4. a \in Objs => ObjInv(a)'
      BY <1>1
    <2>5. \A c \in job'[a].chunks : FALSE
      BY <2>1
    <2> HIDE DEF a
    <2> QED  BY <1>1, <2>1, <2>2, <2>3, <2>4, <2>5, JobStep
  <1>3. ASSUME NEW c \in job[Scrubber].build, FreshBlocks # {},
               onNode' = onNode \cup {Smallest(FreshBlocks)},
               job' = [job EXCEPT ![Scrubber] = [IdleJob EXCEPT !.pending = {"insert"},
                                !.blocks = {Smallest(FreshBlocks)}, !.chunks = {c}]]
        PROVE  IInv'
    <2>1. PICK b \in FreshBlocks : b = Smallest(FreshBlocks)
      BY <1>3, SmallestIn, BlocksAssumption DEF FreshBlocks
    <2>2. b \in Blocks /\ block[b] = Nothing /\ \A q \in Objs : up[q].block # b
      BY <1>1, <2>1 DEF FreshBlocks, DocInv, TypeOK, BlockType, Nothing
    <2>3. /\ \A w \in Workers \ {a} : job'[w] = job[w]
          /\ job'[a].pending = {"insert"} /\ job'[a].chunks = {c} /\ job'[a].blocks = {b}
          /\ job'[a].build = {}
      BY <1>1, <1>3, <2>1 DEF TypeOK, IdleJob
    <2>4. JobInv(a)'
      BY <1>1, <1>3, <1>u, <2>1, <2>2, <2>3 DEF JobInv, Nothing
    <2>5. Monotone
      BY <1>1, <1>3, <1>u, <2>1, <2>2 DEF Monotone, Gone, Nothing
    <2>6. UploadsAlone
      BY <1>1, <1>3, <1>u DEF UploadsAlone, UploadInv
    <2>7. DocInv'
      BY <1>1, <1>3, <1>u, <2>1, <2>2 DEF DocInv, Nothing
    <2>8. \A d \in Chunks : GivenUp(d)' => GivenUp(d)
      BY <1>1, <1>u, <2>3 DEF GivenUp
    <2> QED  BY <1>1, <1>u, <2>3, <2>4, <2>5, <2>6, <2>7, <2>8, WorkerStep
  <1> QED  BY <1>2, <1>3 DEF BuildChunks

\* MapBuilder inserts the block it wrote.
LEMMA InsertBuiltStep ==
    ASSUME IInv, TypeOK', InsertBuilt
    PROVE  IInv'
  <1> DEFINE a == Scrubber
  <1>1. /\ TypeOK /\ DocInv /\ JobInv(a) /\ a \in Workers /\ a \notin Objs
        /\ \A q \in Objs : UploadInv(q)
        /\ "insert" \in job[a].pending
        /\ job[a].blocks \subseteq Blocks /\ job[a].chunks \subseteq Chunks
    BY TheScrubber DEF IInv, InsertBuilt, TypeOK, JobType
  <1>u. /\ obj' = obj /\ part' = part /\ chunk' = chunk /\ old' = old /\ onNode' = onNode
        /\ batch' = batch /\ failed' = failed /\ up' = up /\ late' = late
    BY DEF InsertBuilt, others
  <1> DEFINE c == CHOOSE d \in job[a].chunks : TRUE
  <1>2. c \in job[a].chunks /\ c \in Chunks
    <2>1. job[a].chunks # {}
      BY <1>1 DEF JobInv
    <2> QED  BY <1>1, <2>1
  <1>3. /\ \A b \in job[a].blocks : /\ block'[b].chunk = c /\ block'[b].state = "live"
                                    /\ block[b].chunk = 0 /\ block[b].state = "none" /\ b \in onNode
                                    /\ \A o \in Objs : up[o].block # b
        /\ \A b \in Blocks \ job[a].blocks : block'[b] = block[b]
    <2>1. block' = [b \in Blocks |-> IF b \in job[a].blocks THEN [chunk |-> c, state |-> "live"]
                                                            ELSE block[b]]
      BY DEF InsertBuilt
    <2>2. \A b \in job[a].blocks : block[b] = Nothing /\ b \in onNode /\ \A o \in Objs : up[o].block # b
      BY <1>1 DEF JobInv
    <2> HIDE DEF c, a
    <2> QED  BY <1>1, <2>1, <2>2 DEF Nothing
  <1> HIDE DEF c
  <1>4. /\ \A w \in Workers \ {a} : job'[w] = job[w]
        /\ job'[a].pending = {} /\ job'[a].chunks = {} /\ job'[a].blocks = {} /\ job'[a].build = {}
    BY <1>1 DEF TypeOK, IdleJob, InsertBuilt
  <1>5. Monotone
    BY <1>1, <1>3, <1>u DEF Monotone, Gone
  <1>6. UploadsAlone
    BY <1>1, <1>3, <1>u DEF UploadsAlone, UploadInv, TypeOK, UploadType
  <1>7. DocInv'
    BY <1>1, <1>2, <1>3, <1>u, ChunksAssumption DEF DocInv
  <1>8. \A d \in Chunks : GivenUp(d)' => GivenUp(d)
    BY <1>1, <1>3, <1>4, <1>u DEF GivenUp
  <1>9. JobInv(a)'
    BY <1>4 DEF JobInv
  <1> QED  BY <1>1, <1>u, <1>4, <1>5, <1>6, <1>7, <1>8, <1>9, WorkerStep

\* No step of the scrubber breaks the invariant.
LEMMA ScrubberKeeps ==
    ASSUME IInv, ScrubberBatch \/ ReloadChunks \/ BuildChunks \/ InsertBuilt
    PROVE  IInv'
  BY ScrubberTypes, ScrubberBatchStep, ReloadChunksStep, BuildChunksStep, InsertBuiltStep

-----------------------------------------------------------------------------
(* Time, crashes and the DB cleaner.                                       *)

\* A chunk gets old: no upload is still making it.
LEMMA GetsOldStep ==
    ASSUME IInv, TypeOK', NEW c \in Chunks, GetsOld(c)
    PROVE  IInv'
  <1>1. TypeOK /\ DocInv /\ \A o \in Objs : UploadInv(o) /\ ObjInv(o)
    BY DEF IInv
  <1>u. /\ obj' = obj /\ part' = part /\ chunk' = chunk /\ block' = block /\ onNode' = onNode
        /\ up' = up /\ late' = late /\ old' = old \cup {c} /\ UNCHANGED workers
    BY DEF GetsOld
  <1>v. job' = job /\ batch' = batch /\ failed' = failed /\ builds' = builds
    BY <1>u DEF workers
  <1>2. Monotone
    BY <1>1, <1>u, <1>v DEF Monotone, Gone
  <1>3. UploadsAlone
    BY <1>1, <1>u, <1>v DEF UploadsAlone, UploadInv, GetsOld, Making
  <1>4. DocInv'
    BY <1>1, <1>u, <1>v DEF DocInv, GetsOld
  <1>5. \A d \in Chunks : GivenUp(d)' => GivenUp(d)
    BY <1>1, <1>u, <1>v DEF GivenUp
  <1>6. GivenUpKnown' /\ PartsKept'
    BY <1>1, <1>u, <1>v, <1>2, <1>5, PartsKeep
  <1>7. ASSUME NEW a \in Workers
        PROVE  JobInv(a)'
    BY <1>1, <1>u, <1>v DEF IInv, JobInv, Gone, Parted
  <1>8. ASSUME NEW o \in Objs
        PROVE  ObjInv(o)'
    BY <1>1, <1>u, <1>v DEF ObjInv
  <1> QED  BY <1>2, <1>3, <1>4, <1>6, <1>7, <1>8, UploadsKept DEF IInv

\* The workers crash: what they had decided is forgotten, documents stay.
LEMMA CrashStep ==
    ASSUME IInv, TypeOK', Crash
    PROVE  IInv'
  <1>1. TypeOK /\ DocInv /\ \A o \in Objs : UploadInv(o) /\ ObjInv(o)
    BY DEF IInv
  <1>2. /\ UNCHANGED <<db, up, builds, late>> /\ batch' = {}
        /\ \A a \in Workers : /\ job'[a].pending = {} /\ job'[a].chunks = {}
                              /\ job'[a].blocks = {} /\ job'[a].build = {}
    BY DEF Crash, IdleJob
  <1>3. Monotone
    BY <1>1, <1>2 DEF Monotone, db, Gone
  <1>4. UploadsAlone
    BY <1>1, <1>2 DEF UploadsAlone, db, UploadInv
  <1>5. DocInv'
    BY <1>1, <1>2 DEF DocInv, db
  <1>6. \A c \in Chunks : GivenUp(c)' => GivenUp(c)
    BY <1>2 DEF GivenUp, db
  <1>7. GivenUpKnown' /\ PartsKept'
    BY <1>2, <1>3, <1>6, PartsKeep DEF db
  <1>8. \A a \in Workers : JobInv(a)'
    BY <1>2 DEF JobInv
  <1>9. \A o \in Objs : ObjInv(o)'
    BY <1>1, <1>2 DEF ObjInv, db
  <1> QED  BY <1>3, <1>4, <1>5, <1>7, <1>8, <1>9, UploadsKept DEF IInv

\* The DB cleaner works while nobody else does.
LEMMA CleanerStep ==
    ASSUME IInv, TypeOK', Monotone, UploadsAlone, DocInv', Quiet, UNCHANGED rest,
           \A o \in Objs : /\ obj'[o] = obj[o] \/ (obj[o] \in {"deleted", "reclaimed"} /\ obj'[o] = "removed")
                           /\ part'[o].state = part[o].state
                              \/ (part[o].state = "deleted" /\ part'[o].state = "removed"),
           \A c \in Chunks : GivenUp(c)' => GivenUp(c)
    PROVE  IInv'
  <1>1. GivenUpKnown' /\ PartsKept'
    BY PartsKeep DEF rest
  <1>2. \A a \in Workers : JobInv(a)'
    BY DEF IInv, JobInv, Quiet, Idle, rest
  <1>3. \A o \in Objs : ObjInv(o)'
    BY DEF IInv, ObjInv, Quiet, rest
  <1> QED  BY <1>1, <1>2, <1>3, UploadsKept DEF IInv

\* No step of the DB cleaner breaks the invariant.
LEMMA CleanerKeeps ==
    ASSUME IInv, TypeOK', Cleaner
    PROVE  IInv'
  <1>1. TypeOK /\ DocInv /\ \A o \in Objs : UploadInv(o) /\ ObjInv(o)
    BY DEF IInv
  <1>2. CASE CleanObjects
    <2>1. /\ UNCHANGED <<chunk, block, rest>>
          /\ \A o \in Objs : /\ obj'[o] = obj[o] \/ (obj[o] \in {"deleted", "reclaimed"} /\ obj'[o] = "removed")
                             /\ part'[o].chunk = part[o].chunk
                             /\ part'[o].state = part[o].state
                                  \/ (part[o].state = "deleted" /\ part'[o].state = "removed")
                             /\ part[o] = Nothing => part'[o] = Nothing
      BY <1>1, <1>2 DEF CleanObjects, TypeOK, PartType, Nothing
    <2>2. Monotone
      BY <2>1 DEF Monotone, Gone, rest
    <2>3. UploadsAlone
      BY <1>1, <2>1 DEF UploadsAlone, UploadInv, rest
    <2>4. DocInv'
      BY <1>1, <2>1 DEF DocInv, rest
    <2>5. \A c \in Chunks : GivenUp(c)' => GivenUp(c)
      BY <2>1 DEF GivenUp, rest
    <2> QED  BY <1>2, <2>1, <2>2, <2>3, <2>4, <2>5, CleanerStep DEF CleanObjects
  <1>3. CASE CleanBlocks
    <2>1. PICK S \in SUBSET {b \in Blocks : block[b].state \in {"deleted", "reclaimed"}} :
              block' = SetBlocks(S, {"deleted", "reclaimed"}, "removed")
      BY <1>3 DEF CleanBlocks
    <2>2. /\ UNCHANGED <<obj, part, chunk, rest>>
          /\ \A b \in Blocks : /\ block'[b].chunk = block[b].chunk
                               /\ block'[b].state = block[b].state
                                  \/ (block[b].state \in {"deleted", "reclaimed"}
                                      /\ block'[b].state = "removed")
                               /\ block[b] = Nothing => block'[b] = Nothing
      BY <1>1, <1>3, <2>1, SetBlocksIs DEF CleanBlocks
    <2>3. Monotone
      BY <2>2 DEF Monotone, Gone, rest
    <2>4. UploadsAlone
      BY <1>1, <2>2 DEF UploadsAlone, UploadInv, rest, TypeOK, UploadType
    <2>5. DocInv'
      BY <1>1, <2>2 DEF DocInv, rest
    <2>6. \A c \in Chunks : GivenUp(c)' => GivenUp(c)
      BY <2>2 DEF GivenUp, rest
    <2> QED  BY <1>3, <2>2, <2>3, <2>4, <2>5, <2>6, CleanerStep DEF CleanBlocks
  <1>4. CASE CleanChunks
    <2>1. /\ UNCHANGED <<obj, part, block, rest>>
          /\ \A c \in Chunks : chunk'[c] = chunk[c] \/ (chunk[c] = "deleted" /\ chunk'[c] = "removed")
      BY <1>1, <1>4 DEF CleanChunks
    <2>2. Monotone
      BY <2>1 DEF Monotone, Gone, rest
    <2>3. UploadsAlone
      BY <1>1, <2>1 DEF UploadsAlone, UploadInv, rest
    <2>4. DocInv'
      BY <1>1, <2>1 DEF DocInv, rest, TypeOK
    <2>5. \A c \in Chunks : GivenUp(c)' => GivenUp(c)
      BY <2>1 DEF GivenUp, rest
    <2> QED  BY <1>4, <2>1, <2>2, <2>3, <2>4, <2>5, CleanerStep DEF CleanChunks
  <1> QED  BY <1>2, <1>3, <1>4 DEF Cleaner

-----------------------------------------------------------------------------
(* The theorems.                                                           *)

\* The invariant holds at first ...
LEMMA InitIInv == Init => IInv
  <1> SUFFICES ASSUME Init PROVE IInv
    OBVIOUS
  <1> USE DEF Init
  <1>1. NoUpload \in UploadType /\ IdleJob \in JobType
    BY DEF NoUpload, IdleJob, UploadType, UploadPc, JobType
  <1>2. TypeOK
    BY <1>1, BoundsAssumption DEF TypeOK, ObjectType, PartType, ChunkType, BlockType
  <1>3. \A o \in Objs : UploadInv(o)
    BY DEF UploadInv, NoUpload, Nothing, Making
  <1>4. \A o \in Objs : ObjInv(o)
    BY DEF ObjInv, NoUpload
  <1>5. Reserved
    BY DEF Reserved, NoUpload, Making
  <1>6. DocInv
    BY DEF DocInv
  <1>7. \A a \in Workers : JobInv(a)
    BY DEF JobInv, IdleJob
  <1>8. \A c \in Chunks : ~GivenUp(c)
    BY ChunksAssumption DEF GivenUp, IdleJob
  <1>9. GivenUpKnown /\ PartsKept
    BY <1>8 DEF GivenUpKnown, PartsKept
  <1> QED  BY <1>2, <1>3, <1>4, <1>5, <1>6, <1>7, <1>9 DEF IInv

\* ... and after every step, ...
LEMMA NextIInv == IInv /\ [Next]_vars => IInv'
  <1> SUFFICES ASSUME IInv, [Next]_vars PROVE IInv'
    OBVIOUS
  <1>1. ASSUME NEW o \in Objs, FindPartsChunks(o) \/ DeleteParts(o) \/ DatabaseError(o)
        PROVE  IInv'
    BY <1>1, ReclaimerTypes, FindPartsChunksStep, DeletePartsStep, DatabaseErrorStep
  <1>2. CASE ReclaimObjects \/ ObjectsReclaimed \/ ReclaimBlocks
    BY <1>2, ReclaimerTypes, ReclaimObjectsStep, ObjectsReclaimedStep, ReclaimBlocksStep
  <1>3. CASE (\E c \in Chunks : GetsOld(c)) \/ Crash \/ Cleaner
    BY <1>3, OtherTypes, GetsOldStep, CrashStep, CleanerKeeps
  <1>4. CASE UNCHANGED vars
    BY <1>4 DEF vars, IInv, TypeOK, UploadInv, ObjInv, Reserved, DocInv, JobInv, GivenUpKnown, PartsKept,
                Formed, Making, Gone, Parted, GivenUp
  <1> QED
    BY <1>1, <1>2, <1>3, <1>4, UploadKeeps, DeleterKeeps, ScrubberKeeps DEF Next

\* ... hence always.
THEOREM Invariance == Spec => []IInv
  BY InitIInv, NextIInv, PTL DEF Spec

\* Every variable keeps its type.
THEOREM TypeCorrect == Spec => []TypeOK
  <1>1. IInv => TypeOK
    BY DEF IInv
  <1> QED  BY Invariance, <1>1, PTL

\* The data of a stored object is there, whoever deleted what it shares (map_deleter.js,
\* scrubber.js), provided that its part was inserted before a worker had decided to delete
\* the chunk: find_dups and copy_object_mapping do not exclude the other order.
THEOREM DataKept == Spec => []StoredReadable
  <1>1. IInv => StoredReadable
    <2> SUFFICES ASSUME IInv, NEW o \in Objs, obj[o] = "stored", o \notin late
                 PROVE  /\ chunk[part[o].chunk] = "live"
                        /\ LiveBlocks({part[o].chunk}) \cap onNode # {}
      BY DEF StoredReadable
    <2>1. TypeOK /\ DocInv /\ up[o].pc = "stored" /\ part[o].state = "live"
      BY DEF IInv, ObjInv
    <2>2. Formed(part[o].chunk)
      BY <2>1 DEF IInv, UploadInv
    <2>3. PICK b \in Blocks : block[b].chunk = part[o].chunk
      BY <2>2 DEF Formed
    <2>4. ~GivenUp(part[o].chunk)
      BY <2>1 DEF IInv, PartsKept
    <2>5. chunk[part[o].chunk] = "live" /\ block[b].state = "live"
      BY <2>1, <2>2, <2>3, <2>4 DEF GivenUp, Formed, TypeOK, PartType, ChunkType
    <2> QED  BY <2>1, <2>3, <2>5 DEF LiveBlocks, DocInv
  <1> QED  BY Invariance, <1>1, PTL

\* A block is marked reclaimed only once its agent deleted it (delete_blocks_from_nodes).
THEOREM ReclaimedGone == Spec => []ReclaimedOffNode
  <1>1. IInv => ReclaimedOffNode
    BY DEF IInv, DocInv, ReclaimedOffNode
  <1> QED  BY Invariance, <1>1, PTL

\* An object whose upload was acknowledged is marked reclaimed only once its part is deleted
\* (objects_reclaimer.js).  Nothing is said of an aborted upload: put_mapping may still
\* insert its part afterwards.
THEOREM PartsGone == Spec => []NoPartOfReclaimed
  <1>1. IInv => NoPartOfReclaimed
    BY DEF IInv, ObjInv, NoPartOfReclaimed
  <1> QED  BY Invariance, <1>1, PTL

-----------------------------------------------------------------------------
(* No orphans.                                                             *)

\* An upload that failed, or whose object was deleted before it was completed.
Stuck(o) == \/ up[o].pc = "failed"
            \/ obj[o] \notin {"none", "uploading", "stored"} /\ up[o].pc \notin {"none", "stored"}
Smooth   == faults = 0 /\ builds = 0 /\ \A o \in Objs : ~Stuck(o)

\* The chunk that an upload is still inserting is its own: nobody else refers to it, and
\* nobody but the scrubber has found it, which will let it be.
Unborn(o) == "blocks" \in up[o].todo \/ "chunks" \in up[o].todo
Own(o) ==
    LET c == up[o].chunk
    IN  /\ chunk[c] \in {"none", "live"}
        /\ \A p \in Objs \ {o} : part[p].chunk # c /\ up[p].chunk # c
        /\ \A a \in Workers : c \in job[a].chunks => job[a].pending = {"reload"}
        /\ "blocks" \in up[o].todo => \A b \in Blocks : block[b].chunk # c

\* A worker works on chunks that were referred to, and when it is to delete chunks it is
\* to delete all of their blocks too.
Known(a) == \A c \in job[a].chunks : Parted(c) \/ chunk[c] # "none"
Whole(a) == "chunks" \in job[a].pending => \A b \in Blocks :
                block[b].state = "live" /\ block[b].chunk \in job[a].chunks
                    => "blocks" \in job[a].pending /\ b \in job[a].blocks

\* A live block has its chunk, or will have, or a worker is about to delete it.
Doomed(b)  == \E a \in Workers : "blocks" \in job[a].pending /\ b \in job[a].blocks
Awaited(c) == \E o \in Objs : "chunks" \in up[o].todo /\ up[o].chunk = c
Covered(b) == block[b].state = "live" =>
    \/ chunk[block[b].chunk] = "live"
    \/ chunk[block[b].chunk] = "none" /\ Awaited(block[b].chunk)
    \/ Doomed(b)

Tidy ==
    /\ \A o \in Objs : Unborn(o) => Own(o)
    /\ \A a \in Workers : Known(a) /\ Whole(a) /\ "insert" \notin job[a].pending
    /\ \A b \in Blocks : Covered(b)

\* What is true of an upload that is inserting.
LEMMA UnbornIs ==
    ASSUME IInv, NEW o \in Objs, Unborn(o)
    PROVE  /\ up[o].todo # {} /\ up[o].block # 0 /\ Making(o) /\ up[o].chunk \in Chunks
           /\ up[o].chunk # 0 /\ up[o].pc \in {"putting", "failed"} /\ up[o].chunk \notin old
           /\ up[o].block \in Blocks
           /\ "chunks" \in up[o].todo => chunk[up[o].chunk] = "none"
  <1>1. TypeOK /\ UploadInv(o)
    BY DEF IInv
  <1>2. up[o].chunk \in Chunks \cup {0} /\ up[o].block \in Blocks \cup {0}
    BY <1>1, Named
  <1>3. up[o].todo # {} /\ up[o].block # 0
    BY <1>1 DEF Unborn, UploadInv
  <1> QED  BY <1>1, <1>2, <1>3 DEF UploadInv, Making

\* The chunk of a live block.
LEMMA BlockOf ==
    ASSUME IInv, NEW b \in Blocks, block[b].state # "none"
    PROVE  block[b].chunk \in Chunks
  BY DEF IInv, DocInv, TypeOK, BlockType

-----------------------------------------------------------------------------
(* Steps of uploads.                                                       *)

\* An upload that only changes its own state.
LEMMA TidyUpload ==
    ASSUME IInv, TypeOK', Tidy, NEW o \in Objs,
           UNCHANGED <<part, chunk, block, job>>,
           \A p \in Objs \ {o} : up'[p] = up[p],
           Unborn(o)' => Own(o)',
           \A p \in Objs \ {o} : Unborn(p) => up'[o].chunk # up[p].chunk,
           "chunks" \in up[o].todo => "chunks" \in up'[o].todo /\ up'[o].chunk = up[o].chunk
    PROVE  Tidy'
  <1>1. ASSUME NEW p \in Objs, Unborn(p)', p # o
        PROVE  Own(p)'
    <2>1. Unborn(p) /\ Own(p) /\ up'[p] = up[p]
      BY <1>1 DEF Tidy, Unborn
    <2>2. \A q \in Objs \ {p} : up'[q].chunk # up[p].chunk
      BY <2>1 DEF Own
    <2> QED  BY <2>1, <2>2 DEF Own
  <1>2. ASSUME NEW a \in Workers
        PROVE  Known(a)' /\ Whole(a)' /\ "insert" \notin job'[a].pending
    BY DEF Tidy, Known, Whole, Parted
  <1>3. \A c \in Chunks : Awaited(c) => Awaited(c)'
    BY DEF Awaited
  <1>4. ASSUME NEW b \in Blocks
        PROVE  Covered(b)'
    <2>1. Covered(b) /\ (block[b].state = "live" => block[b].chunk \in Chunks)
      BY BlockOf DEF Tidy
    <2>2. Doomed(b)' = Doomed(b)
      BY DEF Doomed
    <2> QED  BY <1>3, <2>1, <2>2 DEF Covered
  <1> QED  BY <1>1, <1>2, <1>4 DEF Tidy

\* Uploads that do not insert.
LEMMA TidyCreate ==
    ASSUME IInv, TypeOK', Tidy, NEW o \in Objs, CreateUpload(o)
    PROVE  Tidy'
  <1>1. TypeOK /\ ObjInv(o) /\ up[o] = NoUpload
    BY DEF IInv, ObjInv, CreateUpload
  <1>2. /\ UNCHANGED <<part, chunk, block, job>> /\ \A p \in Objs \ {o} : up'[p] = up[p]
        /\ up'[o].todo = {} /\ up'[o].chunk = 0 /\ up[o].todo = {}
    BY <1>1 DEF CreateUpload, workers, NoUpload, TypeOK
  <1>3. \A p \in Objs : Unborn(p) => up[p].chunk # 0
    BY UnbornIs
  <1> QED  BY <1>2, <1>3, TidyUpload DEF Unborn

\* An upload that learns the mapping may take up a chunk that is there, then it inserts none.
LEMMA TidyGetMapping ==
    ASSUME IInv, TypeOK', Tidy, NEW o \in Objs, GetMapping(o)
    PROVE  Tidy'
  <1>1. TypeOK /\ UploadInv(o) /\ up[o].pc = "mapping" /\ up[o] \in UploadType
    BY Named DEF IInv, GetMapping
  <1>2. up[o].todo = {}
    BY <1>1 DEF UploadInv
  <1>3. /\ UNCHANGED <<part, chunk, block, job>> /\ \A p \in Objs \ {o} : up'[p] = up[p]
        /\ up'[o].todo = {}
        /\ up'[o].chunk = IF Dups # {} THEN Smallest(Dups) ELSE up[o].chunk
    BY <1>1, <1>2 DEF GetMapping, workers, db, TypeOK, UploadType
  <1>4. ASSUME NEW p \in Objs \ {o}, Unborn(p)
        PROVE  up'[o].chunk # up[p].chunk
    <2>1. Own(p)
      BY <1>4 DEF Tidy
    <2>2. CASE Dups # {}
      <3>1. Smallest(Dups) \in Dups
        BY <2>2, SmallestIn, ChunksAssumption DEF Dups
      <3>2. PICK c \in Dups : c = up'[o].chunk
        BY <1>3, <2>2, <3>1
      <3>3. c \in Chunks /\ chunk[c] = "live" /\ \E b \in Blocks : block[b].chunk = c
        BY <3>2 DEF Dups, LiveBlocks
      <3> QED  BY <1>4, <2>1, <3>2, <3>3, UnbornIs DEF Own, Unborn
    <2>3. CASE Dups = {}
      BY <1>3, <2>1, <2>3 DEF Own
    <2> QED  BY <2>2, <2>3
  <1> QED  BY <1>2, <1>3, <1>4, TidyUpload DEF Unborn

\* The chunk and the block that an upload decides to insert are new: nobody refers to them yet.
LEMMA TidyPutMapping ==
    ASSUME IInv, TypeOK', Tidy, NEW o \in Objs, PutMapping(o)
    PROVE  Tidy'
  <1>1. TypeOK /\ UploadInv(o) /\ up[o].pc = "mapped" /\ up[o] \in UploadType
    BY Named DEF IInv, PutMapping
  <1>2. up[o].todo = {}
    BY <1>1 DEF UploadInv
  <1>3. UNCHANGED <<part, chunk, block, job>> /\ \A p \in Objs \ {o} : up'[p] = up[p]
    BY <1>1 DEF PutMapping, workers, TypeOK
  <1>4. CASE up[o].block = 0
    <2>1. up'[o].todo = {"parts"} /\ up'[o].chunk = up[o].chunk
      BY <1>1, <1>4 DEF PutMapping, TypeOK, UploadType
    <2>2. \A p \in Objs \ {o} : Unborn(p) => up'[o].chunk # up[p].chunk
      BY <2>1 DEF Tidy, Own
    <2> QED  BY <1>2, <1>3, <2>1, <2>2, TidyUpload DEF Unborn
  <1>5. CASE up[o].block # 0
    <2>1. Smallest(FreshChunks) \in FreshChunks
      BY <1>5, SmallestIn, ChunksAssumption DEF FreshChunks, PutMapping
    <2>2. PICK c \in FreshChunks : up'[o].chunk = c
      BY <1>1, <1>5, <2>1 DEF PutMapping, TypeOK, UploadType
    <2>3. /\ c \in Chunks /\ chunk[c] = "none" /\ \A b \in Blocks : block[b].chunk # c
          /\ \A p \in Objs : up[p].chunk # c /\ part[p].chunk # c
      BY <2>2 DEF FreshChunks
    <2>4. \A a \in Workers : c \notin job[a].chunks
      BY <2>3 DEF Tidy, Known, Parted
    <2>5. Own(o)'
      BY <1>3, <2>2, <2>3, <2>4 DEF Own
    <2> QED  BY <1>2, <1>3, <2>2, <2>3, <2>5, TidyUpload
  <1> QED  BY <1>4, <1>5

\* A copy refers to the chunks of its source and inserts only its part.
LEMMA TidyCopyMapping ==
    ASSUME IInv, TypeOK', Tidy, NEW o \in Objs, NEW s \in Objs, CopyMapping(o, s)
    PROVE  Tidy'
  <1>1. TypeOK /\ UploadInv(o) /\ up[o].pc = "mapping" /\ up[o] \in UploadType /\ up[s].pc = "stored"
    BY Named DEF IInv, CopyMapping
  <1>2. up[o].todo = {}
    BY <1>1 DEF UploadInv
  <1>3. /\ UNCHANGED <<part, chunk, block, job>> /\ \A p \in Objs \ {o} : up'[p] = up[p]
        /\ up'[o].todo \subseteq {"parts"} /\ up'[o].chunk \in {part[s].chunk, up[o].chunk}
    <2>1. UNCHANGED <<part, chunk, block, job>> /\ \A p \in Objs \ {o} : up'[p] = up[p]
      BY <1>1 DEF CopyMapping, workers, db, TypeOK
    <2>2. CASE part[s].state = "live"
      BY <1>1, <2>1, <2>2 DEF CopyMapping, TypeOK, UploadType
    <2>3. CASE part[s].state # "live"
      BY <1>1, <1>2, <2>1, <2>3 DEF CopyMapping, TypeOK, UploadType
    <2> QED  BY <2>1, <2>2, <2>3
  <1>4. ASSUME NEW p \in Objs \ {o}, Unborn(p)
        PROVE  up'[o].chunk # up[p].chunk
    <2>1. Own(p) /\ p # s
      BY <1>1, <1>4, UnbornIs DEF Tidy
    <2> QED  BY <1>3, <1>4, <2>1 DEF Own
  <1> QED  BY <1>2, <1>3, <1>4, TidyUpload DEF Unborn

\* An upload is completed once it has nothing more to insert.
LEMMA TidyComplete ==
    ASSUME IInv, TypeOK', Tidy, NEW o \in Objs, CompleteUpload(o) \/ DeleteObject(o)
    PROVE  Tidy'
  <1>1. TypeOK /\ up[o] \in UploadType
    BY Named DEF IInv
  <1>2. /\ UNCHANGED <<part, chunk, block, job>> /\ \A p \in Objs \ {o} : up'[p] = up[p]
        /\ up'[o].todo = up[o].todo /\ up'[o].chunk = up[o].chunk
    BY <1>1 DEF CompleteUpload, DeleteObject, workers, TypeOK, UploadType
  <1>3. Unborn(o)' => Own(o)'
    BY <1>2 DEF Tidy, Unborn, Own
  <1>4. \A p \in Objs \ {o} : Unborn(p) => up'[o].chunk # up[p].chunk
    BY <1>2 DEF Tidy, Own
  <1> QED  BY <1>2, <1>3, <1>4, TidyUpload

\* What one of the three inserts leaves.
LEMMA InsertedIs ==
    ASSUME IInv, NEW o \in Objs, NEW x \in up[o].todo, up' = [up EXCEPT ![o] = Finished(o, x)]
    PROVE  /\ \A q \in Objs \ {o} : up'[q] = up[q]
           /\ up'[o].todo = up[o].todo \ {x}
           /\ up'[o].chunk = IF up[o].todo = {x} THEN 0 ELSE up[o].chunk
           /\ Unborn(o)' => Unborn(o) /\ up'[o].chunk = up[o].chunk
           /\ \A p \in Objs \ {o} : Unborn(p) /\ up[o].chunk # up[p].chunk => up'[o].chunk # up[p].chunk
  <1>1. TypeOK
    BY DEF IInv
  <1>2. /\ \A q \in Objs \ {o} : up'[q] = up[q]
        /\ up'[o].todo = up[o].todo \ {x}
        /\ up[o].todo = {x}  => up'[o].chunk = 0
        /\ up[o].todo # {x} => up'[o].chunk = up[o].chunk
    BY <1>1, FinishedIs DEF TypeOK
  <1>3. \A p \in Objs : Unborn(p) => up[p].chunk # 0
    BY UnbornIs
  <1> QED  BY <1>2, <1>3 DEF Unborn

\* A block that is inserted before its chunk waits for that chunk, which comes from the same upload.
LEMMA TidyInsertBlocks ==
    ASSUME IInv, TypeOK', Tidy, Smooth, NEW o \in Objs, InsertBlocks(o)
    PROVE  Tidy'
  <1>1. TypeOK /\ UploadInv(o) /\ up[o] \in UploadType /\ "blocks" \in up[o].todo /\ Unborn(o) /\ Own(o)
    BY Named DEF IInv, InsertBlocks, Unborn, Tidy
  <1>2. /\ \A q \in Objs \ {o} : up'[q] = up[q]
        /\ up'[o].todo = up[o].todo \ {"blocks"}
        /\ up'[o].chunk = IF up[o].todo = {"blocks"} THEN 0 ELSE up[o].chunk
        /\ Unborn(o)' => Unborn(o) /\ up'[o].chunk = up[o].chunk
        /\ \A p \in Objs \ {o} : Unborn(p) /\ up[o].chunk # up[p].chunk => up'[o].chunk # up[p].chunk
    BY <1>1, InsertedIs DEF InsertBlocks
  <1>3. PICK b \in Blocks, c \in Chunks :
            /\ b = up[o].block /\ c = up[o].chunk
            /\ up[o].pc = "putting" /\ ("chunks" \in up[o].todo => chunk[c] = "none")
    BY <1>1, UnbornIs DEF Smooth, Stuck
  <1>4. /\ block'[b].chunk = c /\ block'[b].state = "live"
        /\ \A d \in Blocks \ {b} : block'[d] = block[d]
        /\ UNCHANGED <<part, chunk, job>>
    BY <1>1, <1>3 DEF InsertBlocks, TypeOK, workers
  <1>5. ASSUME NEW p \in Objs, Unborn(p)'
        PROVE  Own(p)'
    <2>1. CASE p = o
      <3>1. /\ up'[o].chunk = c /\ "blocks" \notin up'[o].todo /\ Own(o)
            /\ \A q \in Objs \ {o} : up'[q] = up[q]
        BY <1>1, <1>2, <1>3, <1>5, <2>1
      <3>2. Own(o)'
        BY <1>3, <1>4, <3>1 DEF Own
      <3> QED  BY <2>1, <3>2
    <2>2. CASE p # o
      <3>1. Unborn(p) /\ Own(p) /\ up'[p] = up[p]
        BY <1>2, <1>5, <2>2 DEF Unborn, Tidy
      <3>2. c # up[p].chunk /\ \A q \in Objs \ {p} : up'[q].chunk # up[p].chunk
        BY <1>2, <1>3, <2>2, <3>1 DEF Own
      <3>3. "blocks" \in up[p].todo => \A d \in Blocks : block'[d].chunk # up[p].chunk
        BY <1>4, <3>1, <3>2 DEF Own
      <3> QED  BY <1>4, <3>1, <3>2, <3>3 DEF Own
    <2> QED  BY <2>1, <2>2
  <1>6. ASSUME NEW a \in Workers
        PROVE  Known(a)' /\ Whole(a)' /\ "insert" \notin job'[a].pending
    <2>1. Known(a) /\ Whole(a) /\ "insert" \notin job[a].pending
      BY DEF Tidy
    <2>2. c \in job[a].chunks => "chunks" \notin job[a].pending
      BY <1>1, <1>3 DEF Own
    <2> QED  BY <1>4, <2>1, <2>2 DEF Known, Whole, Parted
  <1>7. \A d \in Chunks : Awaited(d) => Awaited(d)'
    <2>1. ASSUME NEW d \in Chunks, NEW q \in Objs, "chunks" \in up[q].todo, up[q].chunk = d
          PROVE  "chunks" \in up'[q].todo /\ up'[q].chunk = d
      BY <1>2, <2>1
    <2> QED  BY <2>1 DEF Awaited
  <1>8. ASSUME NEW d \in Blocks
        PROVE  Covered(d)'
    <2>1. CASE d = b
      <3>1. CASE "chunks" \in up[o].todo
        BY <1>2, <1>3, <1>4, <1>7, <2>1, <3>1 DEF Covered, Awaited
      <3>2. CASE "chunks" \notin up[o].todo
        <4>1. chunk[c] # "none"
          BY <1>1, <1>3, <3>2, UnbornIs DEF UploadInv
        <4> QED  BY <1>1, <1>3, <1>4, <2>1, <4>1 DEF Covered, Own
      <3> QED  BY <3>1, <3>2
    <2>2. CASE d # b
      <3>1. Covered(d) /\ (block[d].state = "live" => block[d].chunk \in Chunks) /\ block'[d] = block[d]
        BY <1>4, <2>2, BlockOf DEF Tidy
      <3> QED  BY <1>4, <1>7, <3>1 DEF Covered, Doomed
    <2> QED  BY <2>1, <2>2
  <1> QED  BY <1>5, <1>6, <1>8 DEF Tidy

\* A chunk that is inserted before its blocks belongs to nobody else yet.
LEMMA TidyInsertChunks ==
    ASSUME IInv, TypeOK', Tidy, NEW o \in Objs, InsertChunks(o)
    PROVE  Tidy'
  <1>1. TypeOK /\ up[o] \in UploadType /\ "chunks" \in up[o].todo /\ Unborn(o) /\ Own(o)
    BY Named DEF IInv, InsertChunks, Unborn, Tidy
  <1>2. /\ \A q \in Objs \ {o} : up'[q] = up[q]
        /\ up'[o].todo = up[o].todo \ {"chunks"}
        /\ up'[o].chunk = IF up[o].todo = {"chunks"} THEN 0 ELSE up[o].chunk
        /\ Unborn(o)' => Unborn(o) /\ up'[o].chunk = up[o].chunk
        /\ \A p \in Objs \ {o} : Unborn(p) /\ up[o].chunk # up[p].chunk => up'[o].chunk # up[p].chunk
    BY <1>1, InsertedIs DEF InsertChunks
  <1>3. PICK c \in Chunks : c = up[o].chunk /\ chunk[c] = "none"
    BY <1>1, UnbornIs
  <1>4. /\ chunk'[c] = "live" /\ \A d \in Chunks \ {c} : chunk'[d] = chunk[d]
        /\ UNCHANGED <<part, block, job>>
    BY <1>1, <1>3 DEF InsertChunks, TypeOK, workers
  <1>5. ASSUME NEW p \in Objs, Unborn(p)'
        PROVE  Own(p)'
    <2>1. CASE p = o
      <3>1. /\ up'[o].chunk = c /\ up'[o].todo \subseteq up[o].todo /\ Own(o)
            /\ \A q \in Objs \ {o} : up'[q] = up[q]
        BY <1>1, <1>2, <1>3, <1>5, <2>1
      <3>2. Own(o)'
        BY <1>3, <1>4, <3>1 DEF Own
      <3> QED  BY <2>1, <3>2
    <2>2. CASE p # o
      <3>1. Unborn(p) /\ Own(p) /\ up'[p] = up[p] /\ up[p].chunk \in Chunks
        BY <1>2, <1>5, <2>2, UnbornIs DEF Unborn, Tidy
      <3>2. c # up[p].chunk /\ \A q \in Objs \ {p} : up'[q].chunk # up[p].chunk
        BY <1>2, <1>3, <2>2, <3>1 DEF Own
      <3> QED  BY <1>4, <3>1, <3>2 DEF Own
    <2> QED  BY <2>1, <2>2
  <1>6. ASSUME NEW a \in Workers
        PROVE  Known(a)' /\ Whole(a)' /\ "insert" \notin job'[a].pending
    <2>1. Known(a) /\ Whole(a) /\ "insert" \notin job[a].pending /\ job[a].chunks \subseteq Chunks
      BY <1>1 DEF Tidy, TypeOK, JobType
    <2> QED  BY <1>4, <2>1 DEF Known, Whole, Parted
  <1>7. ASSUME NEW d \in Blocks
        PROVE  Covered(d)'
    <2>1. Covered(d) /\ (block[d].state = "live" => block[d].chunk \in Chunks)
      BY BlockOf DEF Tidy
    <2>2. CASE block[d].chunk = c
      BY <1>4, <2>2 DEF Covered
    <2>3. CASE block[d].chunk # c
      <3>1. Awaited(block[d].chunk) => Awaited(block[d].chunk)'
        <4>1. ASSUME NEW q \in Objs, "chunks" \in up[q].todo, up[q].chunk = block[d].chunk
              PROVE  "chunks" \in up'[q].todo /\ up'[q].chunk = block[d].chunk
          BY <1>2, <1>3, <2>3, <4>1
        <4> QED  BY <1>4, <4>1 DEF Awaited
      <3> QED  BY <1>4, <2>1, <2>3, <3>1 DEF Covered, Doomed
    <2> QED  BY <2>2, <2>3
  <1> QED  BY <1>5, <1>6, <1>7 DEF Tidy

\* A part makes its chunk known to the workers, which the upload then owns no longer alone.
LEMMA TidyInsertParts ==
    ASSUME IInv, TypeOK', Tidy, NEW o \in Objs, InsertParts(o)
    PROVE  Tidy'
  <1>1. TypeOK /\ UploadInv(o) /\ up[o] \in UploadType /\ "parts" \in up[o].todo
    BY Named DEF IInv, InsertParts
  <1>2. /\ \A q \in Objs \ {o} : up'[q] = up[q]
        /\ up'[o].todo = up[o].todo \ {"parts"}
        /\ up'[o].chunk = IF up[o].todo = {"parts"} THEN 0 ELSE up[o].chunk
        /\ Unborn(o)' => Unborn(o) /\ up'[o].chunk = up[o].chunk
        /\ \A p \in Objs \ {o} : Unborn(p) /\ up[o].chunk # up[p].chunk => up'[o].chunk # up[p].chunk
    BY <1>1, InsertedIs DEF InsertParts
  <1>3. /\ part'[o].chunk = up[o].chunk /\ \A q \in Objs \ {o} : part'[q] = part[q]
        /\ UNCHANGED <<block, chunk, job>>
    BY <1>1 DEF InsertParts, TypeOK, workers
  <1>4. ASSUME NEW p \in Objs, Unborn(p)'
        PROVE  Own(p)'
    <2>1. CASE p = o
      BY <1>2, <1>3, <1>4, <2>1 DEF Own, Tidy
    <2>2. CASE p # o
      <3>1. Unborn(p) /\ Own(p) /\ up'[p] = up[p]
        BY <1>2, <1>4, <2>2 DEF Unborn, Tidy
      <3>2. \A q \in Objs \ {p} : up'[q].chunk # up[p].chunk /\ part'[q].chunk # up[p].chunk
        BY <1>2, <1>3, <2>2, <3>1 DEF Own
      <3> QED  BY <1>3, <3>1, <3>2 DEF Own
    <2> QED  BY <2>1, <2>2
  <1>5. \A c \in Chunks : Parted(c) => Parted(c)'
    <2>1. part[o].chunk = 0
      BY <1>1 DEF UploadInv, Nothing
    <2> QED  BY <1>3, <2>1, ChunksAssumption DEF Parted
  <1>6. ASSUME NEW a \in Workers
        PROVE  Known(a)' /\ Whole(a)' /\ "insert" \notin job'[a].pending
    <2>1. Known(a) /\ Whole(a) /\ "insert" \notin job[a].pending /\ job[a].chunks \subseteq Chunks
      BY <1>1 DEF Tidy, TypeOK, JobType
    <2> QED  BY <1>3, <1>5, <2>1 DEF Known, Whole
  <1>7. \A c \in Chunks : Awaited(c) => Awaited(c)'
    <2>1. ASSUME NEW q \in Objs, "chunks" \in up[q].todo
          PROVE  "chunks" \in up'[q].todo /\ up'[q].chunk = up[q].chunk
      BY <1>1, <1>2, <2>1
    <2> QED  BY <2>1 DEF Awaited
  <1>8. ASSUME NEW d \in Blocks
        PROVE  Covered(d)'
    <2>1. Covered(d) /\ (block[d].state = "live" => block[d].chunk \in Chunks)
      BY BlockOf DEF Tidy
    <2> QED  BY <1>3, <1>7, <2>1 DEF Covered, Doomed
  <1> QED  BY <1>4, <1>6, <1>8 DEF Tidy

\* An upload only gets stuck for good.
LEMMA SmoothUpload ==
    ASSUME IInv, NEW o \in Objs, Upload(o), Smooth'
    PROVE  Smooth /\ ~InsertFails(o)
  <1>1. TypeOK /\ UploadInv(o) /\ ObjInv(o) /\ up[o] \in UploadType
    BY Named DEF IInv
  <1>2. UNCHANGED workers /\ \A p \in Objs \ {o} : up'[p] = up[p] /\ obj'[p] = obj[p]
    BY <1>1 DEF Upload, CreateUpload, GetMapping, PutMapping, CopyMapping, InsertBlocks, InsertChunks,
                InsertParts, InsertFails, CompleteUpload, DeleteObject, db, workers, TypeOK
  <1>3. ~Stuck(o)'
    BY DEF Smooth
  <1>4. ~InsertFails(o)
    <2>1. ASSUME NEW x \in up[o].todo, up' = [up EXCEPT ![o] = Without(o, x, "failed")]
          PROVE  up'[o].pc = "failed"
      BY <1>1, <2>1, WithoutIs DEF TypeOK
    <2> QED  BY <1>3, <2>1 DEF InsertFails, Stuck
  <1>5. ~Stuck(o)
    <2>1. ASSUME NEW x \in up[o].todo, up' = [up EXCEPT ![o] = Finished(o, x)], UNCHANGED obj
          PROVE  ~Stuck(o)
      <3>1. up'[o].pc = IF up[o].todo = {x} /\ up[o].pc = "putting" THEN "done" ELSE up[o].pc
        BY <1>1, <2>1, FinishedIs DEF TypeOK
      <3>2. up[o].pc \in {"putting", "failed"}
        BY <1>1, <2>1 DEF UploadInv
      <3> QED  BY <1>3, <2>1, <3>1, <3>2 DEF Stuck
    <2>2. CASE InsertBlocks(o) \/ InsertChunks(o) \/ InsertParts(o)
      BY <2>1, <2>2 DEF InsertBlocks, InsertChunks, InsertParts
    <2>3. CASE CreateUpload(o)
      BY <1>1, <2>3 DEF CreateUpload, ObjInv, Stuck, NoUpload
    <2>4. CASE GetMapping(o)
      BY <1>1, <1>3, <2>4 DEF GetMapping, Stuck, TypeOK, UploadType, db
    <2>5. CASE PutMapping(o)
      BY <1>1, <1>3, <2>5 DEF PutMapping, Stuck, TypeOK, UploadType
    <2>6. ASSUME NEW s \in Objs, CopyMapping(o, s)
          PROVE  ~Stuck(o)
      <3>1. up[o].pc = "mapping" /\ obj' = obj /\ up'[o].pc \in {"putting", "failed"}
        BY <1>1, <2>6 DEF CopyMapping, TypeOK, UploadType, db
      <3> QED  BY <1>3, <3>1 DEF Stuck
    <2>7. CASE CompleteUpload(o)
      BY <1>1, <1>3, <2>7 DEF CompleteUpload, Stuck, TypeOK, UploadType
    <2>8. CASE DeleteObject(o)
      BY <1>1, <1>3, <2>8 DEF DeleteObject, Stuck, TypeOK
    <2> QED  BY <1>4, <2>2, <2>3, <2>4, <2>5, <2>6, <2>7, <2>8 DEF Upload
  <1> QED  BY <1>2, <1>3, <1>4, <1>5 DEF Smooth, Stuck, workers

\* No step of an upload leaves a block without a chunk to come.
LEMMA TidyUploads ==
    ASSUME IInv, Tidy, Smooth, NEW o \in Objs, Upload(o), ~InsertFails(o)
    PROVE  Tidy'
  <1>1. TypeOK'
    BY UploadTypes
  <1> QED
    BY <1>1, TidyCreate, TidyGetMapping, TidyPutMapping, TidyCopyMapping, TidyComplete, TidyInsertBlocks,
       TidyInsertChunks, TidyInsertParts DEF Upload

-----------------------------------------------------------------------------
(* Steps of workers.                                                       *)

\* A worker only gets hold of chunks that exist, of none that is being inserted except to
\* look at it, and it still deletes the blocks that it was to delete.
Lawful(w) ==
    /\ "insert" \notin job'[w].pending
    /\ \A c \in job'[w].chunks :
          /\ Parted(c) \/ chunk[c] # "none"
          /\ \A o \in Objs : Unborn(o) /\ up[o].chunk = c => job'[w].pending = {"reload"}
Going(w) == "blocks" \in job[w].pending => \A b \in job[w].blocks :
                block'[b].state = "live" => "blocks" \in job'[w].pending /\ b \in job'[w].blocks
Moved(w) == Lawful(w) /\ Whole(w)' /\ Going(w)

\* No document is made, and a chunk is only changed when nobody is still inserting it and
\* the live blocks that it leaves are to be deleted.
Trimmed ==
    /\ up' = up
    /\ \A p \in Objs : part'[p].chunk = part[p].chunk
    /\ \A b \in Blocks : /\ block'[b].chunk = block[b].chunk
                         /\ block'[b].state = "live" => block[b].state = "live"
    /\ \A c \in Chunks : chunk'[c] # chunk[c] => /\ chunk[c] # "none" /\ chunk'[c] # "none"
                                                 /\ \A o \in Objs : Unborn(o) => up[o].chunk # c
    /\ \A b \in Blocks : block'[b].state = "live" /\ chunk'[block[b].chunk] # chunk[block[b].chunk]
                             => Doomed(b)'

\* A step of a worker that is lawful and goes on with what it was to delete, for blocks that stay covered.
LEMMA TidyWork ==
    ASSUME IInv, TypeOK', Tidy, Trimmed, \A w \in Workers : job'[w] = job[w] \/ Moved(w)
    PROVE  Tidy'
  <1>1. /\ up' = up
        /\ \A p \in Objs : part'[p].chunk = part[p].chunk
        /\ \A b \in Blocks : /\ block'[b].chunk = block[b].chunk
                             /\ block'[b].state = "live" => block[b].state = "live"
        /\ \A c \in Chunks : chunk'[c] # chunk[c] => /\ chunk[c] # "none" /\ chunk'[c] # "none"
                                                     /\ \A o \in Objs : Unborn(o) => up[o].chunk # c
    BY DEF Trimmed
  <1>2. ASSUME NEW o \in Objs, Unborn(o)'
        PROVE  Own(o)'
    <2>1. Unborn(o) /\ Own(o) /\ up[o].chunk \in Chunks
      BY <1>1, <1>2, UnbornIs DEF Unborn, Tidy
    <2>2. chunk'[up[o].chunk] = chunk[up[o].chunk]
      BY <1>1, <2>1
    <2>3. ASSUME NEW a \in Workers, up[o].chunk \in job'[a].chunks
          PROVE  job'[a].pending = {"reload"}
      BY <2>1, <2>3 DEF Own, Moved, Lawful
    <2> QED  BY <1>1, <2>1, <2>2, <2>3 DEF Own
  <1>3. ASSUME NEW a \in Workers
        PROVE  Known(a)' /\ Whole(a)' /\ "insert" \notin job'[a].pending
    <2>1. TypeOK /\ job[a].chunks \subseteq Chunks
      BY DEF IInv, TypeOK, JobType
    <2>2. ASSUME NEW c \in Chunks
          PROVE  (Parted(c) => Parted(c)') /\ (chunk[c] # "none" => chunk'[c] # "none")
      BY <1>1 DEF Parted
    <2>3. CASE job'[a] = job[a]
      <3>1. Known(a) /\ Whole(a) /\ "insert" \notin job[a].pending
        BY DEF Tidy
      <3> QED  BY <1>1, <2>1, <2>2, <2>3, <3>1 DEF Known, Whole
    <2>4. CASE Moved(a)
      <3>1. ASSUME NEW c \in job'[a].chunks
            PROVE  Parted(c)' \/ chunk'[c] # "none"
        <4>1. Parted(c) \/ chunk[c] # "none"
          BY <2>4, <3>1 DEF Moved, Lawful
        <4>2. c \in Chunks
          BY <3>1 DEF TypeOK, JobType
        <4> QED  BY <2>2, <4>1, <4>2
      <3> QED  BY <2>4, <3>1 DEF Moved, Lawful, Known
    <2> QED  BY <2>3, <2>4
  <1>4. ASSUME NEW b \in Blocks
        PROVE  Covered(b)'
    <2>1. SUFFICES ASSUME block'[b].state = "live"
                   PROVE  \/ chunk'[block[b].chunk] = "live"
                          \/ chunk'[block[b].chunk] = "none" /\ Awaited(block[b].chunk)
                          \/ Doomed(b)'
      BY <1>1 DEF Covered, Awaited
    <2>2. CASE chunk'[block[b].chunk] # chunk[block[b].chunk]
      BY <2>1, <2>2 DEF Trimmed
    <2>3. CASE Doomed(b)
      <3>1. PICK a \in Workers : "blocks" \in job[a].pending /\ b \in job[a].blocks
        BY <2>3 DEF Doomed
      <3>2. "blocks" \in job'[a].pending /\ b \in job'[a].blocks
        BY <2>1, <3>1 DEF Moved, Going
      <3> QED  BY <3>2 DEF Doomed
    <2>4. CASE chunk'[block[b].chunk] = chunk[block[b].chunk] /\ ~Doomed(b)
      BY <1>1, <2>1, <2>4 DEF Tidy, Covered
    <2> QED  BY <2>2, <2>3, <2>4
  <1> QED  BY <1>2, <1>3, <1>4 DEF Tidy

\* What map_deleter goes on with is lawful.
LEMMA AfterLawful ==
    ASSUME IInv, TypeOK', Tidy, NEW a \in Workers, NEW x \in job[a].pending \ {"reload"}, NEW more, NEW B,
           NEW C \in SUBSET job[a].chunks, job' = After(a, x, more, C, B), "insert" \notin more
    PROVE  Lawful(a) /\ \A w \in Workers \ {a} : job'[w] = job[w]
  <1>1. /\ \A w \in Workers \ {a} : job'[w] = job[w]
        /\ job'[a].chunks \subseteq C
        /\ job'[a].pending \subseteq job[a].pending \cup more \cup {"build"}
    BY AfterIs DEF IInv
  <1>2. Known(a) /\ "insert" \notin job[a].pending
    BY DEF Tidy
  <1>3. \A o \in Objs : Unborn(o) => up[o].chunk \notin job[a].chunks
    BY DEF Tidy, Own
  <1> QED  BY <1>1, <1>2, <1>3 DEF Lawful, Known

\* Nothing is deleted.
LEMMA TrimmedDb ==
    ASSUME UNCHANGED <<up, chunk, block>>, \A p \in Objs : part'[p].chunk = part[p].chunk
    PROVE  Trimmed
  BY DEF Trimmed

\* The object that the reclaimer works on is not being inserted.
LEMMA ReclaimedIs ==
    ASSUME IInv, Smooth, NEW o \in Objs, job[o].pending # {}
    PROVE  ~Unborn(o)
  <1>1. o \in Workers /\ UploadInv(o) /\ ObjInv(o) /\ JobInv(o)
    BY DEF IInv, Workers
  <1>2. obj[o] = "deleted"
    BY <1>1 DEF ObjInv, JobInv
  <1>3. up[o].pc \in {"none", "stored"}
    BY <1>2 DEF Smooth, Stuck
  <1> QED  BY <1>1, <1>3 DEF UploadInv, Unborn

\* The reclaimer finds the parts of its objects and the chunks that they name.
LEMMA TidyFindParts ==
    ASSUME IInv, TypeOK', Tidy, Smooth, NEW o \in Objs, FindPartsChunks(o)
    PROVE  Tidy'
  <1> DEFINE C == IF part[o].state = "live" THEN {part[o].chunk} ELSE {}
             more == IF job[o].pending = {"find"} /\ C # {} /\ o \notin failed THEN {"unref"} ELSE {}
  <1>1. o \in Workers /\ TypeOK /\ JobInv(o) /\ ~Unborn(o)
    BY ReclaimedIs DEF IInv, Workers, FindPartsChunks
  <1>2. job' = After(o, "find", more, C, {}) /\ UNCHANGED <<db, others>> /\ "find" \in job[o].pending
    BY DEF FindPartsChunks, AfterBoth
  <1>3. \A c \in C : Parted(c) /\ \A p \in Objs : Unborn(p) => up[p].chunk # c
    BY <1>1 DEF Parted, Tidy, Own
  <1>4. more \subseteq {"unref"}
    OBVIOUS
  <1> HIDE DEF C, more
  <1>5. /\ \A w \in Workers \ {o} : job'[w] = job[w]
        /\ job'[o].chunks \subseteq C
        /\ job'[o].pending \subseteq job[o].pending \cup more \cup {"build"}
    BY <1>1, <1>2, AfterIs
  <1>6. job[o].pending \subseteq {"find", "parts"}
    BY <1>1, <1>2 DEF JobInv
  <1>7. Moved(o)
    BY <1>3, <1>4, <1>5, <1>6 DEF Moved, Lawful, Whole, Going
  <1>8. Trimmed
    BY <1>2, TrimmedDb DEF db, others
  <1> QED  BY <1>5, <1>7, <1>8, TidyWork

\* The parts go; their chunks are still known, as they are there.
LEMMA TidyDeleteParts ==
    ASSUME IInv, TypeOK', Tidy, NEW o \in Objs, DeleteParts(o)
    PROVE  Tidy'
  <1> DEFINE more == IF job[o].pending = {"parts"} /\ job[o].chunks # {} /\ o \notin failed
                       THEN {"unref"} ELSE {}
  <1>1. o \in Workers /\ TypeOK /\ JobInv(o)
    BY DEF IInv, Workers
  <1>2. /\ job' = After(o, "parts", more, job[o].chunks, {}) /\ "parts" \in job[o].pending
        /\ UNCHANGED <<chunk, block, others>>
    BY DEF DeleteParts, AfterBoth
  <1>3. more \subseteq {"unref"}
    OBVIOUS
  <1> HIDE DEF more
  <1>4. Lawful(o) /\ \A w \in Workers \ {o} : job'[w] = job[w]
    BY <1>1, <1>2, <1>3, AfterLawful
  <1>5. job'[o].pending \subseteq job[o].pending \cup more \cup {"build"}
    BY <1>1, <1>2, AfterIs
  <1>6. job[o].pending \subseteq {"find", "parts"}
    BY <1>1, <1>2 DEF JobInv
  <1>7. Moved(o)
    BY <1>3, <1>4, <1>5, <1>6 DEF Moved, Whole, Going
  <1>8. \A p \in Objs : part'[p].chunk = part[p].chunk
    BY <1>1 DEF DeleteParts, TypeOK, PartType
  <1>9. Trimmed
    BY <1>2, <1>8, TrimmedDb DEF others
  <1> QED  BY <1>4, <1>7, <1>9, TidyWork

\* A chunk without parts is to be deleted together with the blocks found for it.
LEMMA TidyFindUnreferenced ==
    ASSUME IInv, TypeOK', Tidy, NEW a \in Workers, FindUnreferenced(a)
    PROVE  Tidy'
  <1> DEFINE C == Unreferenced(job[a].chunks)
             more == IF C = {} THEN {} ELSE {"load"}
  <1>1. TypeOK /\ JobInv(a) /\ C \subseteq job[a].chunks /\ more \subseteq {"load"}
    BY DEF IInv, Unreferenced
  <1>2. /\ job' = After(a, "unref", more, C, {}) /\ "unref" \in job[a].pending
        /\ UNCHANGED <<db, others>>
    BY DEF FindUnreferenced
  <1> HIDE DEF C, more
  <1>3. Lawful(a) /\ \A w \in Workers \ {a} : job'[w] = job[w]
    BY <1>1, <1>2, AfterLawful
  <1>4. job'[a].pending \subseteq (job[a].pending \ {"unref"}) \cup more \cup {"build"}
    BY <1>1, <1>2, AfterIs
  <1>5. job[a].pending = {"unref"}
    BY <1>1, <1>2 DEF JobInv
  <1>6. Moved(a)
    BY <1>1, <1>3, <1>4, <1>5 DEF Moved, Whole, Going
  <1>7. Trimmed
    BY <1>2, TrimmedDb DEF db, others
  <1> QED  BY <1>3, <1>6, <1>7, TidyWork

\* All of the live blocks of the chunks are to be deleted with them.
LEMMA TidyLoadChunks ==
    ASSUME IInv, TypeOK', Tidy, NEW a \in Workers, LoadChunks(a)
    PROVE  Tidy'
  <1> DEFINE C == {c \in job[a].chunks : InDB(c)}
             B == LiveBlocks(C)
             more == Deletions(C, B)
  <1>1. TypeOK /\ JobInv(a) /\ C \subseteq job[a].chunks /\ more \subseteq {"chunks", "blocks"}
    BY DEF IInv, Deletions
  <1>2. /\ job' = After(a, "load", more, C, B) /\ "load" \in job[a].pending
        /\ UNCHANGED <<db, others>>
    BY DEF LoadChunks
  <1>3. \A b \in Blocks : block[b].state = "live" /\ block[b].chunk \in C => b \in B /\ "blocks" \in more
    BY DEF LiveBlocks, Deletions
  <1> HIDE DEF C, B, more
  <1>4. Lawful(a) /\ \A w \in Workers \ {a} : job'[w] = job[w]
    BY <1>1, <1>2, AfterLawful
  <1>5. job[a].pending = {"load"}
    BY <1>1, <1>2 DEF JobInv
  <1>6. /\ more # {} => job'[a].pending = more /\ job'[a].chunks = C /\ job'[a].blocks = B
        /\ more = {} => job'[a].pending \subseteq {"build"}
    <2>1. (job[a].pending \ {"load"}) \cup more = more
      BY <1>5
    <2>2. LET left == (job[a].pending \ {"load"}) \cup more
          IN  /\ left # {} => job'[a].pending = left /\ job'[a].chunks = C /\ job'[a].blocks = B
              /\ left = {} => job'[a].pending \subseteq {"build"}
      BY <1>1, <1>2, AfterIs
    <2> QED  BY <2>1, <2>2
  <1>7. Whole(a)'
    <2>1. block' = block
      BY <1>2 DEF db
    <2> QED  BY <1>3, <1>6, <2>1 DEF Whole
  <1>8. Moved(a)
    BY <1>4, <1>5, <1>7 DEF Moved, Going
  <1>9. Trimmed
    BY <1>2, TrimmedDb DEF db, others
  <1> QED  BY <1>4, <1>8, <1>9, TidyWork

\* A chunk goes while its live blocks are to be deleted.
LEMMA TidyDeleteChunks ==
    ASSUME IInv, TypeOK', Tidy, NEW a \in Workers, DeleteChunks(a)
    PROVE  Tidy'
  <1>1. TypeOK /\ JobInv(a) /\ Whole(a) /\ job[a].chunks \subseteq Chunks
    BY DEF IInv, Tidy, TypeOK, JobType
  <1>2. /\ job' = After(a, "chunks", {}, job[a].chunks, job[a].blocks) /\ "chunks" \in job[a].pending
        /\ up' = up /\ part' = part /\ block' = block
    BY DEF DeleteChunks, others
  <1>3. /\ Lawful(a) /\ \A w \in Workers \ {a} : job'[w] = job[w]
    BY <1>1, <1>2, AfterLawful
  <1>4. LET left == job[a].pending \ {"chunks"}
        IN  /\ left # {} => job'[a].pending = left /\ job'[a].blocks = job[a].blocks
            /\ left = {} => job'[a].pending \subseteq {"build"}
    BY <1>1, <1>2, AfterIs
  <1>5. "blocks" \in job[a].pending => "blocks" \in job'[a].pending /\ job'[a].blocks = job[a].blocks
    BY <1>4
  <1>6. Moved(a)
    BY <1>3, <1>4, <1>5 DEF Moved, Whole, Going
  <1>7. \A c \in Chunks : chunk'[c] # chunk[c] => c \in job[a].chunks /\ chunk[c] = "live" /\ chunk'[c] = "deleted"
    BY <1>1 DEF DeleteChunks, TypeOK
  <1>8. \A o \in Objs : Unborn(o) => up[o].chunk \notin job[a].chunks
    BY <1>2 DEF Tidy, Own
  <1>9. ASSUME NEW b \in Blocks, block'[b].state = "live", chunk'[block[b].chunk] # chunk[block[b].chunk]
        PROVE  Doomed(b)'
    <2>1. block[b].state = "live" /\ block[b].chunk \in Chunks
      BY <1>2, <1>9, BlockOf
    <2>2. "blocks" \in job[a].pending /\ b \in job[a].blocks
      BY <1>1, <1>2, <1>7, <1>9, <2>1 DEF Whole
    <2> QED  BY <1>5, <2>2 DEF Doomed
  <1>10. Trimmed
    BY <1>2, <1>7, <1>8, <1>9 DEF Trimmed
  <1> QED  BY <1>3, <1>6, <1>10, TidyWork

\* Blocks that are no longer live need no chunk.
LEMMA TidyDeleteBlocks ==
    ASSUME IInv, TypeOK', Tidy, NEW a \in Workers, DeleteBlocks(a)
    PROVE  Tidy'
  <1>1. TypeOK /\ JobInv(a) /\ Whole(a)
    BY DEF IInv, Tidy
  <1>2. /\ job' = After(a, "blocks", {"nodes"}, job[a].chunks, job[a].blocks)
        /\ "blocks" \in job[a].pending
        /\ up' = up /\ part' = part /\ chunk' = chunk
        /\ block' = SetBlocks(job[a].blocks, {"live"}, "deleted")
    BY DEF DeleteBlocks, others
  <1>3. Lawful(a) /\ \A w \in Workers \ {a} : job'[w] = job[w]
    BY <1>1, <1>2, AfterLawful
  <1>4. /\ job'[a].pending = (job[a].pending \ {"blocks"}) \cup {"nodes"}
        /\ job'[a].chunks = job[a].chunks
    BY <1>1, <1>2, AfterIs
  <1>5. \A b \in Blocks : /\ block'[b].chunk = block[b].chunk
                          /\ block'[b].state = "live" => block[b].state = "live" /\ b \notin job[a].blocks
    BY <1>1, <1>2, SetBlocksIs
  <1>6. Whole(a)'
    BY <1>1, <1>4, <1>5 DEF Whole
  <1>7. Going(a)
    <2>1. job[a].blocks \subseteq Blocks
      BY <1>1 DEF TypeOK, JobType
    <2> QED  BY <1>5, <2>1 DEF Going
  <1>8. Trimmed
    BY <1>2, <1>5 DEF Trimmed
  <1> QED  BY <1>3, <1>6, <1>7, <1>8, TidyWork DEF Moved

\* What comes after the blocks are deleted.
LEMMA TidyAfterBlocks ==
    ASSUME IInv, TypeOK', Tidy, NEW a \in Workers, NEW x \in {"nodes", "mark"} \cap job[a].pending,
           NEW more \in SUBSET {"mark"}, NEW B, job' = After(a, x, more, job[a].chunks, B),
           UNCHANGED <<up, part, chunk>>,
           \A b \in Blocks : /\ block'[b].chunk = block[b].chunk
                             /\ block'[b].state = "live" => block[b].state = "live"
    PROVE  Tidy'
  <1>1. TypeOK /\ JobInv(a) /\ Whole(a)
    BY DEF IInv, Tidy
  <1>2. Lawful(a) /\ \A w \in Workers \ {a} : job'[w] = job[w]
    BY <1>1, AfterLawful
  <1>3. job[a].pending \subseteq {"chunks", "nodes"} \/ job[a].pending \subseteq {"chunks", "mark"}
    BY <1>1 DEF JobInv
  <1>4. LET left == (job[a].pending \ {x}) \cup more
        IN  /\ left # {} => job'[a].pending = left /\ job'[a].chunks = job[a].chunks
            /\ left = {} => job'[a].pending \subseteq {"build"}
    BY <1>1, AfterIs
  <1>5. Whole(a)'
    <2>1. "chunks" \in job'[a].pending => "chunks" \in job[a].pending /\ job'[a].chunks = job[a].chunks
      BY <1>4
    <2>2. "blocks" \notin job[a].pending
      BY <1>3
    <2> QED  BY <1>1, <2>1, <2>2 DEF Whole
  <1>6. Moved(a)
    BY <1>2, <1>3, <1>5 DEF Moved, Going
  <1>7. Trimmed
    BY DEF Trimmed
  <1> QED  BY <1>2, <1>6, <1>7, TidyWork

\* No step of map_deleter leaves a live block behind that nobody deletes.
LEMMA TidyDeleter ==
    ASSUME IInv, TypeOK', Tidy, NEW a \in Workers, Deleter(a)
    PROVE  Tidy'
  <1>1. ASSUME NEW gone \in SUBSET job[a].blocks, NEW answered \in SUBSET job[a].blocks,
               DeleteFromNodes(a, gone, answered)
        PROVE  Tidy'
    <2> DEFINE more == IF answered = {} THEN {} ELSE {"mark"}
    <2>1. /\ job' = After(a, "nodes", more, job[a].chunks, answered) /\ "nodes" \in job[a].pending
          /\ UNCHANGED <<up, part, chunk, block>>
      BY <1>1 DEF DeleteFromNodes, Succeeded, others
    <2>2. more \in SUBSET {"mark"} /\ "nodes" \in {"nodes", "mark"} \cap job[a].pending
      BY <2>1
    <2> HIDE DEF more
    <2> QED  BY <2>1, <2>2, TidyAfterBlocks
  <1>2. CASE MarkReclaimed(a)
    <2>1. /\ job' = After(a, "mark", {}, job[a].chunks, {}) /\ "mark" \in job[a].pending
          /\ UNCHANGED <<up, part, chunk>>
          /\ block' = SetBlocks(job[a].blocks, {"live", "deleted"}, "reclaimed")
      BY <1>2 DEF MarkReclaimed, others
    <2>2. \A b \in Blocks : /\ block'[b].chunk = block[b].chunk
                            /\ block'[b].state = "live" => block[b].state = "live"
      BY <2>1, SetBlocksIs DEF IInv
    <2>3. {} \in SUBSET {"mark"} /\ "mark" \in {"nodes", "mark"} \cap job[a].pending
      BY <2>1
    <2> QED  BY <2>1, <2>2, <2>3, TidyAfterBlocks
  <1> QED
    BY <1>1, <1>2, TidyFindUnreferenced, TidyLoadChunks, TidyDeleteChunks, TidyDeleteBlocks DEF Deleter

\* The reclaimers take their batches.
LEMMA TidyReclaim ==
    ASSUME IInv, TypeOK', Tidy, ReclaimObjects \/ ReclaimBlocks
    PROVE  Tidy'
  <1>1. TypeOK
    BY DEF IInv
  <1>2. UNCHANGED db /\ up' = up
    BY DEF ReclaimObjects, ReclaimBlocks, others
  <1>3. CASE ReclaimObjects
    <2>1. ASSUME NEW w \in Workers
          PROVE  job'[w] = job[w] \/ Moved(w)
      <3>1. CASE w \in batch'
        <4>1. w \in Objs /\ JobInv(w) /\ batch = {}
          BY <1>3, <3>1 DEF IInv, ReclaimObjects
        <4>2. job[w].pending = {}
          BY <4>1 DEF JobInv
        <4>3. job'[w].pending = {"find", "parts"} /\ job'[w].chunks = {}
          BY <1>3, <3>1 DEF ReclaimObjects, IdleJob
        <4> QED  BY <4>2, <4>3 DEF Moved, Lawful, Whole, Going
      <3>2. CASE w \notin batch'
        BY <1>3, <3>2 DEF ReclaimObjects
      <3> QED  BY <3>1, <3>2
    <2> QED  BY <1>2, <2>1, TrimmedDb, TidyWork DEF db
  <1>4. CASE ReclaimBlocks
    <2> DEFINE a == AgentReclaimer
    <2>1. a \in Workers /\ job[a].pending = {}
      BY <1>4 DEF ReclaimBlocks, Idle, Workers
    <2>2. /\ \A w \in Workers \ {a} : job'[w] = job[w]
          /\ job'[a].pending = {"nodes"} /\ job'[a].chunks = job[a].chunks
      BY <1>1, <1>4, <2>1 DEF ReclaimBlocks, TypeOK, JobType
    <2>3. Known(a) /\ \A o \in Objs : Unborn(o) => up[o].chunk \notin job[a].chunks
      BY <2>1 DEF Tidy, Own
    <2>4. Moved(a)
      BY <2>1, <2>2, <2>3 DEF Moved, Lawful, Known, Whole, Going
    <2> QED  BY <1>2, <2>2, <2>4, TrimmedDb, TidyWork DEF db
  <1> QED  BY <1>3, <1>4

\* The scrubber only deletes old chunks, and with them their live blocks.
LEMMA TidyReload ==
    ASSUME IInv, TypeOK', Tidy, ReloadChunks
    PROVE  Tidy'
  <1> DEFINE a    == Scrubber
             C    == job[Scrubber].chunks
             Live == {c \in C : chunk[c] = "live"}
             Dead == {c \in C : chunk[c] = "deleted"}
             Left == Unused(Live)
             B    == LiveBlocks(Dead \cup Left)
             Keep == IF builds < MaxBuilds THEN Live \ Unreferenced(Live) ELSE {}
             More == Deletions(Left, B)
  <1>1. TypeOK /\ JobInv(a) /\ a \in Workers
    BY TheScrubber DEF IInv
  <1>2. UNCHANGED <<db, others>> /\ "reload" \in job[a].pending
    BY DEF ReloadChunks
  <1>3. /\ \A w \in Workers \ {a} : job'[w] = job[w]
        /\ job'[a].pending = IF More = {} /\ Keep # {} THEN {"build"} ELSE More
        /\ job'[a].chunks  = IF More = {} THEN {} ELSE Left
        /\ job'[a].blocks  = IF More = {} THEN {} ELSE B
    BY <1>1 DEF ReloadChunks, TypeOK
  <1>4. \A c \in Left : chunk[c] = "live" /\ c \in old
    BY DEF Unused, Unreferenced
  <1>5. More \subseteq {"chunks", "blocks"} /\ (B # {} => "blocks" \in More)
    BY DEF Deletions
  <1>6. \A b \in Blocks : block[b].state = "live" /\ block[b].chunk \in Left => b \in B
    BY DEF LiveBlocks
  <1> HIDE DEF Left, B, Keep, More
  <1>7. job[a].pending = {"reload"}
    BY <1>1, <1>2 DEF JobInv
  <1>8. Lawful(a)
    <2>1. \A o \in Objs : Unborn(o) => up[o].chunk \notin old
      BY UnbornIs
    <2> HIDE DEF a
    <2> QED  BY <1>3, <1>4, <1>5, <2>1 DEF Lawful
  <1>9. Whole(a)'
    <2>1. block' = block
      BY <1>2 DEF db
    <2>2. "chunks" \in job'[a].pending => job'[a].pending = More /\ job'[a].chunks = Left /\ job'[a].blocks = B
      BY <1>3
    <2> HIDE DEF a
    <2> QED  BY <1>5, <1>6, <2>1, <2>2 DEF Whole
  <1>10. Moved(a)
    BY <1>7, <1>8, <1>9 DEF Moved, Going
  <1>11. Trimmed
    BY <1>2, TrimmedDb DEF db, others
  <1> QED  BY <1>3, <1>10, <1>11, TidyWork

\* The scrubber takes its batch, and finds that nothing is missing.
LEMMA TidyScrubber ==
    ASSUME IInv, TypeOK', Tidy, ScrubberBatch \/ ReloadChunks \/ (BuildChunks /\ builds' = 0)
    PROVE  Tidy'
  <1> DEFINE a == Scrubber
  <1>1. TypeOK /\ JobInv(a) /\ a \in Workers
    BY TheScrubber DEF IInv
  <1>2. CASE ScrubberBatch
    <2>1. job[a].pending = {} /\ UNCHANGED <<db, others>>
      BY <1>2 DEF ScrubberBatch, Idle
    <2>2. /\ \A w \in Workers \ {a} : job'[w] = job[w]
          /\ job'[a].pending = {"reload"} /\ \A c \in job'[a].chunks : chunk[c] = "live"
      BY <1>1, <1>2 DEF ScrubberBatch, TypeOK, JobType
    <2>3. Moved(a)
      BY <2>1, <2>2 DEF Moved, Lawful, Whole, Going
    <2> QED  BY <2>1, <2>2, <2>3, TrimmedDb, TidyWork DEF db, others
  <1>3. CASE BuildChunks /\ builds' = 0
    <2>1. builds \in Nat
      BY <1>1, BoundsAssumption DEF TypeOK
    <2>2. builds' # builds + 1
      BY <1>3, <2>1
    <2>3. job' = [job EXCEPT ![Scrubber] = IdleJob]
      BY <1>3, <2>2 DEF BuildChunks
    <2>4. job[a].pending = {"build"} /\ UNCHANGED <<up, part, chunk, block>>
      BY <1>1, <1>3 DEF BuildChunks, JobInv
    <2>5. /\ \A w \in Workers \ {a} : job'[w] = job[w]
          /\ job'[a].pending = {} /\ job'[a].chunks = {}
      BY <1>1, <2>3 DEF TypeOK, IdleJob
    <2>6. Moved(a)
      BY <2>4, <2>5 DEF Moved, Lawful, Whole, Going
    <2> QED  BY <2>4, <2>5, <2>6, TrimmedDb, TidyWork
  <1> QED  BY <1>2, <1>3, TidyReload

\* The DB cleaner only removes what is deleted, and a live block of a deleted chunk would
\* be waited for.
LEMMA TidyCleaner ==
    ASSUME IInv, TypeOK', Tidy, Cleaner
    PROVE  Tidy'
  <1>1. TypeOK
    BY DEF IInv
  <1>2. up' = up /\ job' = job /\ Quiet
    BY DEF Cleaner, CleanObjects, CleanBlocks, CleanChunks, rest
  <1>3. CASE CleanObjects
    <2>1. \A p \in Objs : part'[p].chunk = part[p].chunk
      BY <1>1, <1>3 DEF CleanObjects, TypeOK, PartType
    <2>2. chunk' = chunk /\ block' = block
      BY <1>3 DEF CleanObjects
    <2> QED  BY <1>2, <2>1, <2>2, TrimmedDb, TidyWork
  <1>4. CASE CleanBlocks
    <2>1. PICK S \in SUBSET {b \in Blocks : block[b].state \in {"deleted", "reclaimed"}} :
              block' = SetBlocks(S, {"deleted", "reclaimed"}, "removed")
      BY <1>4 DEF CleanBlocks
    <2>2. \A b \in Blocks : /\ block'[b].chunk = block[b].chunk
                            /\ block'[b].state = "live" => block[b].state = "live"
      BY <1>1, <2>1, SetBlocksIs
    <2>3. Trimmed
      BY <1>2, <1>4, <2>2 DEF Trimmed, CleanBlocks
    <2> QED  BY <1>2, <2>3, TidyWork
  <1>5. CASE CleanChunks
    <2>1. /\ \A c \in Chunks : chunk'[c] # chunk[c] => chunk[c] = "deleted" /\ chunk'[c] = "removed"
          /\ part' = part /\ block' = block
      BY <1>1, <1>5 DEF CleanChunks, TypeOK
    <2>2. ASSUME NEW o \in Objs, Unborn(o)
          PROVE  FALSE
      BY <1>2, <2>2 DEF Quiet, Unborn
    <2>3. ASSUME NEW b \in Blocks, block[b].state = "live"
          PROVE  chunk'[block[b].chunk] = chunk[block[b].chunk]
      <3>1. ~Doomed(b) /\ block[b].chunk \in Chunks
        BY <1>2, <2>3, BlockOf DEF Doomed, Quiet, Idle
      <3>2. chunk[block[b].chunk] # "deleted"
        BY <2>3, <3>1 DEF Tidy, Covered
      <3> QED  BY <2>1, <3>1, <3>2
    <2>4. Trimmed
      BY <1>2, <2>1, <2>2, <2>3 DEF Trimmed
    <2> QED  BY <1>2, <2>4, TidyWork
  <1> QED  BY <1>3, <1>4, <1>5 DEF Cleaner

\* A worker does not get an upload going again.
LEMMA SmoothWork ==
    ASSUME IInv, up' = up, Smooth',
           \A o \in Objs : obj'[o] = obj[o] \/ obj'[o] \in {"reclaimed", "removed"},
           faults' = faults \/ faults' = faults + 1, builds' = builds \/ builds' = builds + 1
    PROVE  Smooth /\ faults' = faults /\ builds' = builds
  <1>1. faults \in Nat /\ builds \in Nat
    BY BoundsAssumption DEF IInv, TypeOK
  <1>2. faults' = 0 /\ builds' = 0
    BY DEF Smooth
  <1>3. faults = 0 /\ builds = 0
    BY <1>1, <1>2
  <1>4. ASSUME NEW o \in Objs, Stuck(o)
        PROVE  FALSE
    <2>1. ~Stuck(o)'
      BY DEF Smooth
    <2> QED  BY <1>4, <2>1 DEF Stuck
  <1> QED  BY <1>2, <1>3, <1>4 DEF Smooth

\* Until something goes wrong documents are tidy.
OInv == Smooth => Tidy

\* There is nothing to be untidy in the beginning.
LEMMA InitOInv == Init => OInv
  <1> SUFFICES ASSUME Init PROVE Tidy
    BY DEF OInv
  <1> USE DEF Init
  <1>1. \A o \in Objs : ~Unborn(o)
    BY DEF Unborn, NoUpload
  <1>2. \A a \in Workers : Known(a) /\ Whole(a) /\ "insert" \notin job[a].pending
    BY DEF Known, Whole, IdleJob
  <1>3. \A b \in Blocks : Covered(b)
    BY DEF Covered
  <1> QED  BY <1>1, <1>2, <1>3 DEF Tidy

\* The inductive step: what goes wrong stays wrong, and what is smooth stays tidy.
LEMMA NextOInv == IInv /\ OInv /\ [Next]_vars => OInv'
  <1> SUFFICES ASSUME IInv, Smooth => Tidy, [Next]_vars, Smooth' PROVE Tidy'
    BY DEF OInv
  <1>0. TypeOK /\ TypeOK' /\ faults \in Nat /\ builds \in Nat /\ faults' # faults + 1 /\ builds' = 0
    <2>1. TypeOK /\ TypeOK' /\ faults \in Nat /\ builds \in Nat
      BY NextIInv, BoundsAssumption DEF IInv, TypeOK
    <2>2. faults' = 0 /\ builds' = 0
      BY DEF Smooth
    <2> QED  BY <2>1, <2>2
  <1>1. ASSUME NEW o \in Objs, Upload(o)
        PROVE  Tidy'
    BY <1>1, SmoothUpload, TidyUploads
  <1>2. ASSUME NEW c \in Chunks, GetsOld(c)
        PROVE  Tidy'
    <2>1. UNCHANGED <<obj, part, chunk, block, up, job, faults, builds>>
      BY <1>2 DEF GetsOld, workers
    <2> QED  BY <1>0, <2>1, SmoothWork, TrimmedDb, TidyWork
  <1>3. ASSUME NEW o \in Objs, FindPartsChunks(o) \/ DeleteParts(o) \/ DatabaseError(o)
        PROVE  Tidy'
    <2>1. ~DatabaseError(o)
      BY <1>0 DEF DatabaseError
    <2>2. UNCHANGED <<obj, up, faults, builds>>
      BY <1>3, <2>1 DEF FindPartsChunks, DeleteParts, others, db
    <2> QED  BY <1>0, <1>3, <2>1, <2>2, SmoothWork, TidyFindParts, TidyDeleteParts
  <1>4. ASSUME NEW a \in Workers, Deleter(a)
        PROVE  Tidy'
    <2>1. UNCHANGED <<obj, up, faults, builds>>
      BY <1>4 DEF Deleter, FindUnreferenced, LoadChunks, DeleteChunks, DeleteBlocks, DeleteFromNodes,
                  MarkReclaimed, others, db
    <2> QED  BY <1>0, <1>4, <2>1, SmoothWork, TidyDeleter
  <1>5. CASE ReclaimObjects \/ ReclaimBlocks
    <2>1. UNCHANGED <<obj, up, faults, builds>>
      BY <1>5 DEF ReclaimObjects, ReclaimBlocks, others, db
    <2> QED  BY <1>0, <1>5, <2>1, SmoothWork, TidyReclaim
  <1>6. CASE ObjectsReclaimed
    <2>1. /\ UNCHANGED <<part, chunk, block, up, job, faults, builds>>
          /\ \A o \in Objs : obj'[o] = obj[o] \/ obj'[o] \in {"reclaimed", "removed"}
      BY <1>0, <1>6 DEF ObjectsReclaimed, TypeOK
    <2> QED  BY <1>0, <2>1, SmoothWork, TrimmedDb, TidyWork
  <1>7. CASE ScrubberBatch \/ ReloadChunks \/ BuildChunks \/ InsertBuilt
    <2>1. /\ UNCHANGED <<obj, up, faults>>
          /\ builds' = builds \/ builds' = builds + 1
      BY <1>7 DEF ScrubberBatch, ReloadChunks, BuildChunks, InsertBuilt, others, db
    <2>2. Tidy
      BY <2>1, SmoothWork
    <2>3. ~InsertBuilt
      BY <2>2, TheScrubber DEF Tidy, InsertBuilt
    <2> QED  BY <1>0, <1>7, <2>2, <2>3, TidyScrubber
  <1>8. CASE Crash
    BY <1>0, <1>8 DEF Crash
  <1>9. CASE Cleaner
    <2>1. /\ UNCHANGED <<up, faults, builds>>
          /\ \A o \in Objs : obj'[o] = obj[o] \/ obj'[o] \in {"reclaimed", "removed"}
      BY <1>0, <1>9 DEF Cleaner, CleanObjects, CleanBlocks, CleanChunks, rest, TypeOK
    <2> QED  BY <1>0, <1>9, <2>1, SmoothWork, TidyCleaner
  <1>10. CASE UNCHANGED vars
    <2>1. UNCHANGED <<obj, part, chunk, block, up, job, faults, builds>>
      BY <1>10 DEF vars
    <2> QED  BY <1>0, <2>1, SmoothWork, TrimmedDb, TidyWork
  <1> QED
    BY <1>1, <1>2, <1>3, <1>4, <1>5, <1>6, <1>7, <1>8, <1>9, <1>10 DEF Next

\* When every upload was acknowledged, nothing failed and all workers are idle, every live
\* block has its chunk (map_deleter.js deletes the blocks of a chunk with it).
THEOREM NoOrphans == Spec => []NoOrphanBlocks
  <1>1. IInv /\ OInv => NoOrphanBlocks
    <2> SUFFICES ASSUME IInv, OInv, faults = 0, builds = 0, \A a \in Workers : Idle(a),
                        \A o \in Objs : up[o].pc \in {"none", "stored"},
                        NEW b \in Blocks, block[b].state = "live"
                 PROVE  chunk[block[b].chunk] = "live"
      BY DEF NoOrphanBlocks
    <2>1. Smooth
      BY DEF Smooth, Stuck
    <2>2. ~Doomed(b)
      BY DEF Doomed, Idle
    <2>3. ~Awaited(block[b].chunk)
      BY DEF IInv, UploadInv, Awaited
    <2> QED  BY <2>1, <2>2, <2>3 DEF OInv, Tidy, Covered
  <1>2. Spec => [](IInv /\ OInv)
    BY InitIInv, NextIInv, InitOInv, NextOInv, PTL DEF Spec
  <1> QED  BY <1>1, <1>2, PTL

=============================================================================
