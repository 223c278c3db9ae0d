-------------------------- MODULE BlockStoreProofs --------------------------
(***************************************************************************)
(* What holds of the blocks of an agent for every set of blocks, lengths,  *)
(* requests, faults and cache sizes.                                       *)
(***************************************************************************)
EXTENDS BlockStore, FoldLemmas, FunctionTheorems, SequenceTheorems

-----------------------------------------------------------------------------
(* The requests *)

Kinds  == {"none", "write", "delete"}
Stages == {"idle", "waiting", "running"}
Marks  == Files \cup {"failed"}
RequestType == [kind : Kinds, blocks : SUBSET BlockIds, is_preallocated : BOOLEAN, stage : Stages,
                todo : SUBSET (BlockIds \X Files), found : SUBSET (BlockIds \X Marks)]

\* What a request has on its mind: it changes files only while it runs, and only those
\* of its blocks; a write is of one block.
RequestSound(r) ==
    /\ r.kind = "none" => r.stage = "idle" /\ r.blocks = {}
    /\ r.stage # "running" => r.todo = {} /\ r.found = {}
    /\ r.kind = "write" => \E b \in BlockIds : r.blocks = {b}
    /\ r.todo \subseteq r.blocks \X Files
    /\ r.found \subseteq r.blocks \X Marks

\* The lock admits one request for a block
Exclusive == \A p, q \in StoreProcs : p # q /\ Running(p) /\ Running(q) => request[p].blocks \cap request[q].blocks = {}

\* What a write is through with is on disk
WrittenOnDisk ==
    \A p \in StoreProcs : request[p].kind = "write" /\ Running(p) =>
        \A b \in request[p].blocks, f \in Files : <<b, f>> \notin request[p].todo => f \in disk[b]

RequestsInv ==
    /\ disk \in [BlockIds -> SUBSET Files]
    /\ request \in [StoreProcs -> RequestType]
    /\ \A p \in StoreProcs : RequestSound(request[p])
    /\ Exclusive
    /\ WrittenOnDisk

-----------------------------------------------------------------------------
(* The save of the usage *)

Ints == Int \cup {Unknown}

\* While the saver is idle the file is not behind, or a count writes it or was the last to;
\* a save that is not to be followed by another one writes the usage as it is.
SaverInv ==
    /\ usage \in Ints /\ file \in Ints /\ saving \in Ints /\ counting \in Ints /\ recount \in Ints
    /\ misfiled \in BOOLEAN
    /\ saver \in {"idle", "timer", "writing"}
    /\ needed \in BOOLEAN
    /\ usage = Unknown => saver = "idle"
    /\ counting # Unknown => usage = Unknown
    /\ saver = "idle" => usage = file \/ recount # Unknown \/ misfiled
    /\ saver = "writing" => needed \/ saving = usage

-----------------------------------------------------------------------------
(* Lengths of files *)

AllFiles == BlockIds \X Files
AllLengths == [x \in AllFiles |-> FileLength(x[1], x[2])]

\* There are finitely many files, and each has a length.
LEMMA FilesFinite ==
    /\ IsFiniteSet(AllFiles)
    /\ AllLengths \in [AllFiles -> Nat]
    /\ \A F \in SUBSET AllFiles : IsFiniteSet(F) /\ \A x \in F : AllLengths[x] \in Nat /\ AllLengths[x] \in Int
  <1>1. IsFiniteSet(BlockIds)
    BY CacheKeysAssumption DEF BlockIds
  <1>2. IsFiniteSet({"data", "meta"})
    <2>1. IsFiniteSet({"data"}) /\ IsFiniteSet({"meta"})
      BY FS_Singleton
    <2>2. {"data", "meta"} = {"data"} \cup {"meta"}
      OBVIOUS
    <2>. QED BY <2>1, <2>2, FS_Union
  <1>3. IsFiniteSet(AllFiles)
    BY <1>1, <1>2, FS_Product DEF AllFiles, Files
  <1>4. AllLengths \in [AllFiles -> Nat]
    BY LengthAssumption DEF AllLengths, FileLength, MetaLength, BlockIds, AllFiles
  <1>5. Nat \subseteq Int
    OBVIOUS
  <1>6. \A F \in SUBSET AllFiles : IsFiniteSet(F)
    BY <1>3, FS_Subset
  <1>. QED BY <1>3, <1>4, <1>5, <1>6

\* The usage of any files is a natural number.
LEMMA LengthOfNat == \A F \in SUBSET AllFiles : LengthOf(F) \in Nat
  BY FilesFinite, SumNat DEF LengthOf, AllLengths, AllFiles

\* The usage of the two files of a block.
LEMMA LengthOfBlock ==
    ASSUME NEW b \in BlockIds
    PROVE  LengthOf({b} \X Files) = Length[b] + MetaLength
  <1>1. {b} \X Files = {<<b, "meta">>} \cup {<<b, "data">>}
    BY DEF Files
  <1>2. <<b, "data">> \in AllFiles /\ <<b, "meta">> \in AllFiles
    BY DEF AllFiles, Files
  <1>3. AllLengths[<<b, "data">>] = Length[b] /\ AllLengths[<<b, "meta">>] = MetaLength
    BY <1>2 DEF AllLengths, FileLength
  <1>4. {<<b, "meta">>} \in SUBSET AllFiles /\ {} \in SUBSET AllFiles
    BY <1>2
  <1>5. \A x \in {<<b, "meta">>} \cup {<<b, "data">>} : AllLengths[x] \in Int
    BY <1>2, FilesFinite
  <1>6. SumFunctionOnSet(AllLengths, {<<b, "meta">>} \cup {<<b, "data">>})
            = AllLengths[<<b, "data">>] + SumFunctionOnSet(AllLengths, {<<b, "meta">>})
    BY <1>4, <1>5, FilesFinite, SumAdd
  <1>7. SumFunctionOnSet(AllLengths, {} \cup {<<b, "meta">>})
            = AllLengths[<<b, "meta">>] + SumFunctionOnSet(AllLengths, {})
    BY <1>4, <1>5, FilesFinite, SumAdd
  <1>8. {} \cup {<<b, "meta">>} = {<<b, "meta">>} /\ SumFunctionOnSet(AllLengths, {}) = 0
    BY SumEmpty
  <1>9. MetaLength \in Int /\ Length[b] \in Int
    BY LengthAssumption DEF MetaLength, BlockIds
  <1>10. LengthOf({b} \X Files) = SumFunctionOnSet(AllLengths, {<<b, "meta">>} \cup {<<b, "data">>})
    BY <1>1 DEF LengthOf, AllLengths, AllFiles
  <1>11. SumFunctionOnSet(AllLengths, {<<b, "meta">>}) = MetaLength + 0
    BY <1>3, <1>7, <1>8
  <1>12. LengthOf({b} \X Files) = Length[b] + (MetaLength + 0)
    BY <1>3, <1>6, <1>10, <1>11
  <1>. QED BY <1>9, <1>12

\* The usage of the blocks of K and of one more.
LEMMA LengthOfMore ==
    ASSUME NEW K \in SUBSET BlockIds, NEW b \in BlockIds \ K
    PROVE  LengthOf((K \cup {b}) \X Files) = LengthOf(K \X Files) + Length[b] + MetaLength
  <1>1. (K \cup {b}) \X Files = (K \X Files) \cup ({b} \X Files) /\ (K \X Files) \cap ({b} \X Files) = {}
    OBVIOUS
  <1>2. K \X Files \in SUBSET AllFiles /\ {b} \X Files \in SUBSET AllFiles
    BY DEF AllFiles
  <1>3. \A x \in (K \X Files) \cup ({b} \X Files) : AllLengths[x] \in Int
    BY <1>2, FilesFinite
  <1>4. IsFiniteSet(K \X Files) /\ IsFiniteSet({b} \X Files)
    BY <1>2, FilesFinite
  <1>5. SumFunctionOnSet(AllLengths, (K \X Files) \cup ({b} \X Files))
            = SumFunctionOnSet(AllLengths, K \X Files) + SumFunctionOnSet(AllLengths, {b} \X Files)
    BY <1>1, <1>3, <1>4, SumUnion
  <1>6. LengthOf((K \cup {b}) \X Files) = LengthOf(K \X Files) + LengthOf({b} \X Files)
    BY <1>1, <1>5 DEF LengthOf, AllLengths, AllFiles
  <1>7. LengthOf(K \X Files) \in Nat /\ MetaLength \in Nat /\ Length[b] \in Nat
    BY <1>2, LengthOfNat, LengthAssumption DEF MetaLength, BlockIds
  <1>8. LengthOf({b} \X Files) = Length[b] + MetaLength
    BY LengthOfBlock
  <1>9. LengthOf((K \cup {b}) \X Files) = LengthOf(K \X Files) + (Length[b] + MetaLength)
    BY <1>6, <1>8
  <1>. QED BY <1>7, <1>9

\* What is reserved: the data of preallocated blocks.
ReservedLength(R) == SumFunctionOnSet(Length, R)

\* The reserved length is a number, and grows by that of a block that is added.
LEMMA ReservedMore ==
    ASSUME NEW R \in SUBSET BlockIds
    PROVE  /\ ReservedLength(R) \in Nat
           /\ \A b \in BlockIds \ R : ReservedLength(R \cup {b}) = Length[b] + ReservedLength(R)
  <1>1. IsFiniteSet(R)
    BY CacheKeysAssumption, FS_Subset DEF BlockIds
  <1>2. \A b \in BlockIds : Length[b] \in Nat /\ Length[b] \in Int
    BY LengthAssumption DEF BlockIds
  <1>3. ReservedLength(R) \in Nat
    BY <1>1, <1>2, SumNat DEF ReservedLength
  <1>4. ASSUME NEW b \in BlockIds \ R
        PROVE  ReservedLength(R \cup {b}) = Length[b] + ReservedLength(R)
    <2>1. \A x \in R \cup {b} : Length[x] \in Int
      BY <1>2
    <2>. QED BY <2>1, <1>1, <1>4, SumAdd DEF ReservedLength
  <1>. QED BY <1>3, <1>4

-----------------------------------------------------------------------------
(* The invariant of the saver *)

\* _update_usage keeps it: a change of the usage makes a save due, whatever the saver does.
LEMMA AddUsageSaver ==
    ASSUME SaverInv, NEW size \in Int, AddUsage(size),
           file' = file, saving' = saving, UNCHANGED countVars
    PROVE  SaverInv'
  <1>. USE DEF countVars
  <1>1. CASE UNCHANGED <<usage, needed, saver>>
    BY <1>1 DEF SaverInv
  <1>2. CASE ~UNCHANGED <<usage, needed, saver>>
    <2>1. /\ usage # Unknown
          /\ usage' = usage + size
          /\ needed' = TRUE
          /\ saver' = IF saver = "idle" THEN "timer" ELSE saver
      BY <1>2 DEF AddUsage
    <2>2. usage' \in Ints /\ usage' # Unknown
      BY <2>1, UnknownAssumption DEF SaverInv, Ints
    <2>3. saver' \in {"timer", "writing"}
      BY <2>1 DEF SaverInv
    <2>4. needed' \in BOOLEAN /\ needed'
      BY <2>1
    <2>5. counting' = Unknown
      BY <2>1 DEF SaverInv
    <2>. QED BY <2>2, <2>3, <2>4, <2>5 DEF SaverInv
  <1>. QED BY <1>1, <1>2

\* Each step keeps it.
LEMMA StepSaverInv == SaverInv /\ RequestsInv /\ [StoreNext]_storeVars => SaverInv'
  <1>. SUFFICES ASSUME SaverInv, RequestsInv, [StoreNext]_storeVars PROVE SaverInv'
    OBVIOUS
  <1>. USE DEF countVars
  <1>1. ASSUME UNCHANGED <<usage, file, saver, needed, saving, countVars>>
        PROVE  SaverInv'
    BY <1>1 DEF SaverInv
  <1>2. ASSUME NEW b \in BlockIds, PreallocateBlock(b) PROVE SaverInv'
    BY <1>2, AddUsageSaver, LengthAssumption DEF PreallocateBlock, BlockIds
  <1>3. ASSUME NEW p \in StoreProcs, EndWrite(p) PROVE SaverInv'
    <2>1. PICK b \in request[p].blocks : AddUsage(WrittenLength(p, b))
      BY <1>3 DEF EndWrite
    <2>2. b \in BlockIds
      BY DEF RequestsInv, RequestType
    <2>3. WrittenLength(p, b) \in Int
      BY <2>2, LengthAssumption DEF WrittenLength, MetaLength, BlockIds
    <2>. QED BY <1>3, <2>1, <2>3, AddUsageSaver DEF EndWrite
  <1>4. ASSUME NEW p \in StoreProcs, NEW x \in BlockIds \X Files, DeleteFile(p, x) PROVE SaverInv'
    <2> DEFINE found == request[p].found \cup (FilesOnDisk \cap {x})
               Gone  == {y \in found : y[1] = x[1]}
    <2>1. CASE UNCHANGED <<usage, needed, saver>>
      BY <2>1, <1>1, <1>4 DEF DeleteFile
    <2>2. CASE <<x[1], "failed">> \notin found /\ AddUsage(-LengthOf(Gone))
      <3>1. found \subseteq BlockIds \X Marks
        BY DEF RequestsInv, RequestType, FilesOnDisk, Marks
      <3>2. Gone \in SUBSET AllFiles
        BY <2>2, <3>1 DEF AllFiles, Marks
      <3>3. -LengthOf(Gone) \in Int
        BY <3>2, LengthOfNat
      <3>. HIDE DEF Gone
      <3>. QED BY <3>3, <2>2, <1>4, AddUsageSaver DEF DeleteFile
    <2>. QED BY <2>1, <2>2, <1>4 DEF DeleteFile
  <1>5. CASE StartCount
    <2>1. FilesOnDisk \in SUBSET AllFiles
      BY DEF FilesOnDisk, AllFiles
    <2>. QED BY <1>5, <2>1, LengthOfNat DEF StartCount, SaverInv, DiskUsage, Ints
  <1>6. CASE EndCount
    BY <1>6 DEF EndCount, SaverInv
  <1>16. CASE CountWritten
    BY <1>16, UnknownAssumption DEF CountWritten, SaverInv, Ints
  <1>17. CASE CountNotWritten
    BY <1>17 DEF CountNotWritten, SaverInv, Ints
  <1>7. CASE StartSaveUsage \/ EndSaveUsage \/ SaveUsageThrows
    BY <1>7 DEF StartSaveUsage, EndSaveUsage, SaveUsageThrows, SaverInv, Ints
  <1>8. CASE RestartAgent
    BY <1>8 DEF RestartAgent, SaverInv, Ints
  <1>9. ASSUME NEW b \in BlockIds, ReadBlock(b) PROVE SaverInv'
    BY <1>1, <1>9 DEF ReadBlock, usageVars
  <1>10. ASSUME NEW i \in Items, ReadFiles(i) \/ EndRead(i) \/ ReadThrows(i) PROVE SaverInv'
    BY <1>1, <1>10 DEF ReadFiles, EndRead, ReadThrows, usageVars
  <1>11. ASSUME NEW p \in StoreProcs, NEW b \in BlockIds, WriteBlock(p, b) PROVE SaverInv'
    BY <1>1, <1>11 DEF WriteBlock, Arrive, usageVars
  <1>12. ASSUME NEW p \in StoreProcs, NEW B \in SUBSET BlockIds, DeleteStored(p, B) PROVE SaverInv'
    BY <1>1, <1>12 DEF DeleteStored, Arrive, usageVars
  <1>13. ASSUME NEW p \in StoreProcs, Lock(p) \/ WriteThrows(p) \/ EndDelete(p) PROVE SaverInv'
    BY <1>1, <1>13 DEF Lock, WriteThrows, EndDelete, usageVars
  <1>14. ASSUME NEW p \in StoreProcs, NEW x \in BlockIds \X Files, WriteFile(p, x) \/ DeleteThrows(p, x) PROVE SaverInv'
    BY <1>1, <1>14 DEF WriteFile, DeleteThrows, usageVars
  <1>15. CASE UNCHANGED storeVars
    BY <1>1, <1>15 DEF storeVars
  <1>. QED BY <1>2, <1>3, <1>4, <1>5, <1>6, <1>7, <1>8, <1>9, <1>10, <1>11, <1>12, <1>13, <1>14, <1>15, <1>16, <1>17 DEF StoreNext

-----------------------------------------------------------------------------
(* The invariant of the requests *)

\* A process that is through with its request, or was never given one, has none.
LEMMA NoRequestSound == NoRequest \in RequestType /\ RequestSound(NoRequest) /\ NoRequest.stage # "running"
  BY DEF NoRequest, RequestType, RequestSound, Kinds, Stages

\* A step that ends requests, or starts one that waits for the lock, and leaves the files alone.
LEMMA FilesAloneRequests ==
    ASSUME RequestsInv, disk' = disk, request' \in [StoreProcs -> RequestType],
           \A q \in StoreProcs : RequestSound(request'[q]),
           \A q \in StoreProcs : request'[q].stage = "running" => request'[q] = request[q]
    PROVE  RequestsInv'
  <1>1. disk' \in [BlockIds -> SUBSET Files]
    BY DEF RequestsInv
  <1>2. \A q \in StoreProcs : Running(q)' => Running(q) /\ request'[q] = request[q]
    BY DEF Running
  <1>3. Exclusive'
    BY <1>2 DEF RequestsInv, Exclusive
  <1>4. WrittenOnDisk'
    BY <1>2 DEF RequestsInv, WrittenOnDisk
  <1>. QED BY <1>1, <1>3, <1>4 DEF RequestsInv

\* Each step keeps it.
LEMMA StepRequestsInv == RequestsInv /\ [StoreNext]_storeVars => RequestsInv'
  <1>. SUFFICES ASSUME RequestsInv, [StoreNext]_storeVars PROVE RequestsInv'
    OBVIOUS
  <1>1. ASSUME UNCHANGED <<disk, request>> PROVE RequestsInv'
    BY <1>1 DEF RequestsInv, Exclusive, WrittenOnDisk, Running
  <1>2. ASSUME NEW p \in StoreProcs, request' = [request EXCEPT ![p] = NoRequest], disk' = disk
        PROVE  RequestsInv'
    <2>1. request' \in [StoreProcs -> RequestType]
      BY <1>2, NoRequestSound DEF RequestsInv
    <2>2. \A q \in StoreProcs : request'[q] = IF q = p THEN NoRequest ELSE request[q]
      BY <1>2 DEF RequestsInv
    <2>3. \A q \in StoreProcs : RequestSound(request'[q])
      BY <2>2, NoRequestSound DEF RequestsInv
    <2>4. \A q \in StoreProcs : request'[q].stage = "running" => request'[q] = request[q]
      BY <2>2, NoRequestSound
    <2>. QED BY <1>2, <2>1, <2>3, <2>4, FilesAloneRequests
  <1>3. ASSUME NEW p \in StoreProcs, NEW kind \in {"write", "delete"}, NEW B \in SUBSET BlockIds,
               kind = "write" => \E b \in BlockIds : B = {b}, Arrive(p, kind, B)
        PROVE  RequestsInv'
    <2> DEFINE pre == kind = "write" /\ B \subseteq prealloc
               new == [NoRequest EXCEPT !.kind = kind, !.blocks = B, !.is_preallocated = pre, !.stage = "waiting"]
    <2>0. /\ new \in RequestType
          /\ new.kind = kind /\ new.blocks = B /\ new.stage = "waiting" /\ new.todo = {} /\ new.found = {}
      BY NoRequestSound DEF NoRequest, RequestType, Kinds, Stages
    <2>1. new \in RequestType /\ RequestSound(new) /\ new.stage # "running"
      BY <1>3, <2>0 DEF RequestSound
    <2>2. request' = [request EXCEPT ![p] = new] /\ disk' = disk
      BY <1>3 DEF Arrive
    <2>. HIDE DEF new
    <2>3. request' \in [StoreProcs -> RequestType]
      BY <2>1, <2>2 DEF RequestsInv
    <2>4. \A q \in StoreProcs : request'[q] = IF q = p THEN new ELSE request[q]
      BY <2>2 DEF RequestsInv
    <2>5. \A q \in StoreProcs : RequestSound(request'[q])
      BY <2>1, <2>4 DEF RequestsInv
    <2>6. \A q \in StoreProcs : request'[q].stage = "running" => request'[q] = request[q]
      BY <2>1, <2>4
    <2>. QED BY <2>2, <2>3, <2>5, <2>6, FilesAloneRequests
  <1>4. ASSUME NEW p \in StoreProcs, Lock(p) PROVE RequestsInv'
    <2> DEFINE B   == request[p].blocks
               looked == IF request[p].kind = "write" THEN FilesOnDisk \cap (B \X {"data"}) ELSE {}
               new == [request[p] EXCEPT !.stage = "running", !.todo = B \X Files, !.found = looked]
    <2>0. request[p] \in RequestType /\ RequestSound(request[p]) /\ request[p].stage = "waiting"
      BY <1>4 DEF RequestsInv, Lock
    <2>1. /\ new \in RequestType
          /\ new.kind = request[p].kind /\ new.blocks = B /\ new.stage = "running"
          /\ new.todo = B \X Files /\ new.found = looked
      BY <2>0 DEF RequestType, Stages, Marks, Files
    <2>2. looked \subseteq B \X Marks
      BY DEF Marks, Files
    <2>3. request' = [request EXCEPT ![p] = new] /\ disk' = disk
      BY <1>4 DEF Lock, RequestsInv
    <2>. HIDE DEF new, looked
    <2>4. RequestSound(new)
      BY <2>0, <2>1, <2>2 DEF RequestSound
    <2>5. request' \in [StoreProcs -> RequestType]
      BY <2>1, <2>3 DEF RequestsInv
    <2>6. \A q \in StoreProcs : request'[q] = IF q = p THEN new ELSE request[q]
      BY <2>3 DEF RequestsInv
    <2>7. \A q \in StoreProcs : RequestSound(request'[q])
      BY <2>4, <2>6 DEF RequestsInv
    <2>8. \A q \in StoreProcs : Running(q) => request[q].blocks \cap B = {}
      BY <1>4 DEF Lock
    <2>9. Exclusive'
      <3>. SUFFICES ASSUME NEW q \in StoreProcs, NEW r \in StoreProcs, q # r,
                           request'[q].stage = "running", request'[r].stage = "running"
                    PROVE  request'[q].blocks \cap request'[r].blocks = {}
        BY DEF Exclusive, Running
      <3>1. CASE q = p
        BY <3>1, <2>1, <2>6, <2>8 DEF Running
      <3>2. CASE r = p
        BY <3>2, <2>1, <2>6, <2>8 DEF Running
      <3>3. CASE q # p /\ r # p
        BY <3>3, <2>6 DEF RequestsInv, Exclusive, Running
      <3>. QED BY <3>1, <3>2, <3>3
    <2>10. WrittenOnDisk'
      <3>. SUFFICES ASSUME NEW q \in StoreProcs, request'[q].kind = "write", request'[q].stage = "running",
                           NEW b \in request'[q].blocks, NEW f \in Files, <<b, f>> \notin request'[q].todo
                    PROVE  f \in disk'[b]
        BY DEF WrittenOnDisk, Running
      <3>1. q # p
        BY <2>1, <2>6
      <3>. QED BY <3>1, <2>3, <2>6 DEF RequestsInv, WrittenOnDisk, Running
    <2>. QED BY <2>3, <2>5, <2>7, <2>9, <2>10 DEF RequestsInv
  <1>5. ASSUME NEW p \in StoreProcs, NEW x \in BlockIds \X Files, x \in request[p].todo,
               NEW more \in SUBSET (BlockIds \X Marks), more \subseteq request[p].blocks \X Marks,
               request' = [request EXCEPT ![p].todo = @ \ {x}, ![p].found = @ \cup more],
               disk' \in [BlockIds -> SUBSET Files],
               \A b \in BlockIds : disk'[b] # disk[b] => b = x[1],
               request[p].kind = "write" => \A b \in BlockIds, f \in Files : f \in disk'[b] <=> f \in disk[b] \/ (b = x[1] /\ f = x[2])
        PROVE  RequestsInv'
    <2> DEFINE new == [request[p] EXCEPT !.todo = @ \ {x}, !.found = @ \cup more]
    <2>0. request[p] \in RequestType /\ RequestSound(request[p]) /\ request[p].stage = "running"
      BY <1>5 DEF RequestsInv, RequestSound
    <2>1. /\ new \in RequestType
          /\ new.kind = request[p].kind /\ new.blocks = request[p].blocks /\ new.stage = "running"
          /\ new.todo = request[p].todo \ {x} /\ new.found = request[p].found \cup more
      BY <2>0 DEF RequestType
    <2>2. request' = [request EXCEPT ![p] = new]
      BY <1>5 DEF RequestsInv
    <2>. HIDE DEF new
    <2>3. RequestSound(new)
      BY <2>0, <2>1, <1>5 DEF RequestSound
    <2>4. request' \in [StoreProcs -> RequestType]
      BY <2>1, <2>2 DEF RequestsInv
    <2>5. \A q \in StoreProcs : request'[q] = IF q = p THEN new ELSE request[q]
      BY <2>2 DEF RequestsInv
    <2>6. \A q \in StoreProcs : RequestSound(request'[q])
      BY <2>3, <2>5 DEF RequestsInv
    <2>7. \A q \in StoreProcs : /\ request'[q].stage = request[q].stage
                                /\ request'[q].blocks = request[q].blocks
                                /\ request'[q].kind = request[q].kind
      BY <2>0, <2>1, <2>5
    <2>8. Exclusive'
      BY <2>7 DEF RequestsInv, Exclusive, Running
    <2>9. x[1] \in request[p].blocks
      BY <2>0, <1>5 DEF RequestSound
    <2>10. WrittenOnDisk'
      <3>. SUFFICES ASSUME NEW q \in StoreProcs, request'[q].kind = "write", request'[q].stage = "running",
                           NEW b \in request'[q].blocks, NEW f \in Files, <<b, f>> \notin request'[q].todo
                    PROVE  f \in disk'[b]
        BY DEF WrittenOnDisk, Running
      <3>0. b \in BlockIds
        BY <2>7 DEF RequestsInv, RequestType
      <3>1. CASE q = p
        <4>1. <<b, f>> = x \/ f \in disk[b]
          BY <3>1, <2>0, <2>1, <2>5, <2>7 DEF RequestsInv, WrittenOnDisk, Running
        <4>2. <<b, f>> = x => b = x[1] /\ f = x[2]
          OBVIOUS
        <4>. QED BY <4>1, <4>2, <3>0, <3>1, <2>7, <1>5
      <3>2. CASE q # p
        <4>1. f \in disk[b]
          BY <3>2, <2>5, <2>7 DEF RequestsInv, WrittenOnDisk, Running
        <4>2. b # x[1]
          BY <3>2, <2>0, <2>7, <2>9 DEF RequestsInv, Exclusive, Running
        <4>. QED BY <4>1, <4>2, <3>0, <1>5
      <3>. QED BY <3>1, <3>2
    <2>. QED BY <1>5, <2>4, <2>6, <2>8, <2>10 DEF RequestsInv
  <1>6. ASSUME NEW p \in StoreProcs, NEW x \in BlockIds \X Files, WriteFile(p, x) PROVE RequestsInv'
    <2>1. disk' \in [BlockIds -> SUBSET Files]
      BY <1>6 DEF WriteFile, RequestsInv
    <2>2. \A b \in BlockIds : disk'[b] = IF b = x[1] THEN disk[b] \cup {x[2]} ELSE disk[b]
      BY <1>6 DEF WriteFile, RequestsInv
    <2>3. \A b \in BlockIds, f \in Files : f \in disk'[b] <=> f \in disk[b] \/ (b = x[1] /\ f = x[2])
      BY <2>2
    <2>4. request[p] \in RequestType
      BY DEF RequestsInv
    <2>5. [request EXCEPT ![p].todo = @ \ {x}] = [request EXCEPT ![p].todo = @ \ {x}, ![p].found = @ \cup {}]
      BY <2>4 DEF RequestsInv, RequestType
    <2>6. request' = [request EXCEPT ![p].todo = @ \ {x}, ![p].found = @ \cup {}] /\ x \in request[p].todo
      BY <1>6, <2>5 DEF WriteFile
    <2>7. \A b \in BlockIds : disk'[b] # disk[b] => b = x[1]
      BY <2>2
    <2>8. {} \in SUBSET (BlockIds \X Marks) /\ {} \subseteq request[p].blocks \X Marks
      OBVIOUS
    <2>. QED BY <2>1, <2>3, <2>6, <2>7, <2>8, <1>5
  <1>7. ASSUME NEW p \in StoreProcs, NEW x \in BlockIds \X Files, DeleteFile(p, x) PROVE RequestsInv'
    <2>1. disk' \in [BlockIds -> SUBSET Files]
      BY <1>7 DEF DeleteFile, RequestsInv
    <2>2. \A b \in BlockIds : disk'[b] # disk[b] => b = x[1]
      BY <1>7 DEF DeleteFile, RequestsInv
    <2>3. x[1] \in request[p].blocks /\ x \in request[p].todo /\ request[p].kind # "write"
      BY <1>7 DEF DeleteFile, RequestsInv, RequestSound
    <2>4. FilesOnDisk \cap {x} \in SUBSET (BlockIds \X Marks) /\ FilesOnDisk \cap {x} \subseteq request[p].blocks \X Marks
      BY <2>3 DEF Marks
    <2>5. request' = [request EXCEPT ![p].todo = @ \ {x}, ![p].found = @ \cup (FilesOnDisk \cap {x})]
      BY <1>7 DEF DeleteFile, RequestsInv
    <2>. QED BY <2>1, <2>2, <2>3, <2>4, <2>5, <1>5
  <1>8. ASSUME NEW p \in StoreProcs, NEW x \in BlockIds \X Files, DeleteThrows(p, x) PROVE RequestsInv'
    <2>1. disk' \in [BlockIds -> SUBSET Files] /\ disk' = disk
      BY <1>8 DEF DeleteThrows, RequestsInv
    <2>2. \A b \in BlockIds : disk'[b] # disk[b] => b = x[1]
      BY <2>1
    <2>3. x[1] \in request[p].blocks /\ x \in request[p].todo /\ request[p].kind # "write"
      BY <1>8 DEF DeleteThrows, RequestsInv, RequestSound
    <2>4. {<<x[1], "failed">>} \in SUBSET (BlockIds \X Marks) /\ {<<x[1], "failed">>} \subseteq request[p].blocks \X Marks
      BY <2>3 DEF Marks
    <2>5. request' = [request EXCEPT ![p].todo = @ \ {x}, ![p].found = @ \cup {<<x[1], "failed">>}]
      BY <1>8 DEF DeleteThrows
    <2>. QED BY <2>1, <2>2, <2>3, <2>4, <2>5, <1>5
  <1>9. CASE RestartAgent
    <2>1. disk' = disk /\ \A q \in StoreProcs : request'[q] = NoRequest
      BY <1>9 DEF RestartAgent
    <2>2. request' \in [StoreProcs -> RequestType]
      BY <1>9, NoRequestSound DEF RestartAgent
    <2>. QED BY <2>1, <2>2, NoRequestSound, FilesAloneRequests
  <1>10. ASSUME NEW b \in BlockIds, ReadBlock(b) \/ PreallocateBlock(b) PROVE RequestsInv'
    BY <1>1, <1>10 DEF ReadBlock, PreallocateBlock
  <1>11. ASSUME NEW i \in Items, ReadFiles(i) \/ EndRead(i) \/ ReadThrows(i) PROVE RequestsInv'
    BY <1>1, <1>11 DEF ReadFiles, EndRead, ReadThrows
  <1>12. ASSUME NEW p \in StoreProcs, NEW b \in BlockIds, WriteBlock(p, b) PROVE RequestsInv'
    BY <1>3, <1>12 DEF WriteBlock
  <1>13. ASSUME NEW p \in StoreProcs, NEW B \in SUBSET BlockIds, DeleteStored(p, B) PROVE RequestsInv'
    BY <1>3, <1>13 DEF DeleteStored
  <1>14. ASSUME NEW p \in StoreProcs, EndWrite(p) \/ WriteThrows(p) \/ EndDelete(p) PROVE RequestsInv'
    BY <1>2, <1>14 DEF EndWrite, WriteThrows, EndDelete
  <1>15. CASE StartCount \/ EndCount \/ CountWritten \/ CountNotWritten
    BY <1>1, <1>15 DEF StartCount, EndCount, CountWritten, CountNotWritten
  <1>17. CASE StartSaveUsage \/ EndSaveUsage \/ SaveUsageThrows
    BY <1>1, <1>17 DEF StartSaveUsage, EndSaveUsage, SaveUsageThrows
  <1>16. CASE UNCHANGED storeVars
    BY <1>1, <1>16 DEF storeVars
  <1>. QED BY <1>4, <1>6, <1>7, <1>8, <1>9, <1>10, <1>11, <1>12, <1>13, <1>14, <1>15, <1>16, <1>17 DEF StoreNext

-----------------------------------------------------------------------------
(* What the usage counts *)

\* What a request that runs has done to a block it began to write or to delete when
\* the block was either there, with both its files, or not.
Progress(r, b, d) ==
    IF r.kind = "write"
    THEN \/ r.found # {} /\ d = Files
         \/ r.found = {} /\ \A f \in Files : f \in d <=> <<b, f>> \notin r.todo
    ELSE /\ <<b, "failed">> \notin r.found
         /\ \/ d = {} /\ \A f \in Files : <<b, f>> \notin r.found
            \/ \A f \in Files : (f \in d <=> <<b, f>> \in r.todo) /\ (<<b, f>> \in r.found <=> <<b, f>> \notin r.todo)

FilesWhole ==
    /\ \A b \in BlockIds : (\A p \in StoreProcs : Running(p) => b \notin request[p].blocks) => disk[b] \in {{}, Files}
    /\ \A p \in StoreProcs : Running(p) => \A b \in request[p].blocks : Progress(request[p], b, disk[b])

\* A block that a write in progress puts on disk is counted when the write ends, one
\* that is being deleted until its last file is gone.
Fresh(p, b) == Running(p) /\ request[p].kind = "write" /\ b \in request[p].blocks /\ request[p].found = {}
Counted     == {b \in BlockIds : disk[b] # {} /\ \A p \in StoreProcs : ~Fresh(p, b)}

CountInv ==
    /\ reserved \subseteq prealloc /\ prealloc \subseteq BlockIds
    /\ drift \in BOOLEAN
    /\ ~drift =>
          /\ FilesWhole
          /\ counting # Unknown => NobodyRuns /\ counting = LengthOf(Counted \X Files)
          /\ usage # Unknown => usage = LengthOf(Counted \X Files) + ReservedLength(reserved)

\* Steps that end no request that runs, begin none and change no file leave it alone.
LEMMA FilesAloneCounts ==
    ASSUME RequestsInv, FilesWhole, disk' = disk,
           \A q \in StoreProcs : request'[q].stage = "running" <=> request[q].stage = "running",
           \A q \in StoreProcs : request[q].stage = "running" => request'[q] = request[q]
    PROVE  FilesWhole' /\ Counted' = Counted /\ (NobodyRuns => NobodyRuns')
  <1>1. \A q \in StoreProcs : (Running(q)' => Running(q)) /\ (Running(q) => Running(q)')
    BY DEF Running
  <1>2. \A q \in StoreProcs : Running(q) => request'[q] = request[q]
    BY DEF Running
  <1>3. \A b \in BlockIds : (\A p \in StoreProcs : Running(p)' => b \notin request'[p].blocks) => disk'[b] \in {{}, Files}
    BY <1>1, <1>2 DEF FilesWhole
  <1>4. \A p \in StoreProcs : Running(p)' => \A b \in request'[p].blocks : Progress(request'[p], b, disk'[b])
    BY <1>1, <1>2 DEF FilesWhole
  <1>5. FilesWhole'
    BY <1>3, <1>4 DEF FilesWhole
  <1>6. \A q \in StoreProcs, b \in BlockIds : (Fresh(q, b)' => Fresh(q, b)) /\ (Fresh(q, b) => Fresh(q, b)')
    BY <1>1, <1>2 DEF Fresh
  <1>7. Counted' = Counted
    BY <1>6 DEF Counted
  <1>8. NobodyRuns => NobodyRuns'
    BY <1>1 DEF NobodyRuns
  <1>. QED BY <1>5, <1>7, <1>8

\* Nothing a step does not touch.
LEMMA CountInvKept ==
    ASSUME CountInv, reserved' \subseteq prealloc', prealloc' \subseteq BlockIds, drift' \in BOOLEAN,
           ~drift' => /\ ~drift
                      /\ FilesWhole'
                      /\ Counted' = Counted
                      /\ (counting' # Unknown => counting' = counting /\ NobodyRuns')
                      /\ usage' = usage
                      /\ reserved' = reserved
    PROVE  CountInv'
  <1>1. ~drift' => /\ FilesWhole'
                   /\ counting' # Unknown => NobodyRuns' /\ counting' = LengthOf(Counted' \X Files)
                   /\ usage' # Unknown => usage' = LengthOf(Counted' \X Files) + ReservedLength(reserved')
    BY DEF CountInv
  <1>. QED BY <1>1 DEF CountInv

\* With nobody at work the files are those of the counted blocks.
LEMMA CountedOnDisk ==
    ASSUME RequestsInv, FilesWhole, NobodyRuns
    PROVE  FilesOnDisk = Counted \X Files
  <1>1. \A b \in BlockIds : disk[b] \in {{}, Files}
    BY DEF FilesWhole, NobodyRuns
  <1>2. Counted = {b \in BlockIds : disk[b] # {}}
    BY DEF Counted, Fresh, NobodyRuns
  <1>3. \A x \in BlockIds \X Files : x[2] \in disk[x[1]] <=> x[1] \in Counted
    BY <1>1, <1>2 DEF Files
  <1>4. FilesOnDisk \subseteq Counted \X Files
    BY <1>3 DEF FilesOnDisk
  <1>5. Counted \subseteq BlockIds
    BY <1>2
  <1>6. Counted \X Files \subseteq FilesOnDisk
    BY <1>3, <1>5 DEF FilesOnDisk
  <1>. QED BY <1>4, <1>6

\* Lock(p): a request begins on blocks that are there or not, and nothing is counted yet.
LEMMA LockCounts ==
    ASSUME RequestsInv, CountInv, NEW p \in StoreProcs, Lock(p)
    PROVE  CountInv'
  <1> DEFINE B == request[p].blocks
             looked == IF request[p].kind = "write" THEN FilesOnDisk \cap (B \X {"data"}) ELSE {}
  <1>0. request[p] \in RequestType /\ RequestSound(request[p]) /\ request[p].stage = "waiting"
    BY DEF RequestsInv, Lock
  <1>1. /\ request'[p].kind = request[p].kind /\ request'[p].blocks = B /\ request'[p].stage = "running"
        /\ request'[p].todo = B \X Files /\ request'[p].found = looked
    BY <1>0 DEF Lock, RequestsInv, RequestType
  <1>2. \A q \in StoreProcs : q # p => request'[q] = request[q]
    BY DEF Lock, RequestsInv
  <1>3. disk' = disk /\ usage' = usage /\ counting' = counting /\ reserved' = reserved /\ prealloc' = prealloc
    BY DEF Lock, countVars
  <1>4. ~drift' => ~drift /\ counting = Unknown
    BY DEF Lock
  <1>5. drift' \in BOOLEAN
    BY DEF Lock
  <1>6. \A q \in StoreProcs : Running(q) => q # p /\ request[q].blocks \cap B = {}
    BY <1>0 DEF Lock, Running
  <1>7. ASSUME ~drift' PROVE FilesWhole' /\ Counted' = Counted
    <2>. USE DEF Running
    <2>1. FilesWhole
      BY <1>4, <1>7 DEF CountInv
    <2>2. \A b \in B : b \in BlockIds /\ disk[b] \in {{}, Files}
      BY <2>1, <1>0, <1>6 DEF FilesWhole, RequestType
    <2>3. \A b \in BlockIds : (\A q \in StoreProcs : Running(q)' => b \notin request'[q].blocks) => disk'[b] \in {{}, Files}
      BY <2>1, <1>0, <1>1, <1>2, <1>3 DEF FilesWhole
    <2>4. \A b \in B : looked = {} /\ request[p].kind = "write" => disk[b] = {}
      <3>. SUFFICES ASSUME NEW b \in B, looked = {}, request[p].kind = "write", disk[b] = Files PROVE FALSE
        BY <2>2
      <3>1. <<b, "data">> \in FilesOnDisk
        BY <2>2 DEF FilesOnDisk, Files
      <3>. QED BY <3>1
    <2>5. ASSUME NEW b \in B PROVE Progress(request'[p], b, disk'[b])
      <3>1. disk'[b] \in {{}, Files}
        BY <2>2, <2>5, <1>3
      <3>2. CASE request[p].kind = "write" /\ looked # {}
        <4>1. \E c \in BlockIds : B = {c}
          BY <3>2, <1>0 DEF RequestSound
        <4>2. \E x \in FilesOnDisk : x[1] = b
          BY <3>2, <4>1, <2>5
        <4>3. disk[b] # {}
          BY <4>2 DEF FilesOnDisk
        <4>. HIDE DEF looked
        <4>. QED BY <3>1, <3>2, <4>3, <1>1, <1>3 DEF Progress
      <3>3. CASE request[p].kind = "write" /\ looked = {}
        <4>1. disk'[b] = {}
          BY <2>4, <2>5, <3>3, <1>3
        <4>2. \A f \in Files : <<b, f>> \in request'[p].todo
          BY <1>1, <2>5
        <4>. HIDE DEF looked
        <4>. QED BY <3>3, <4>1, <4>2, <1>1 DEF Progress
      <3>4. CASE request[p].kind # "write"
        <4>1. request'[p].found = {} /\ request'[p].kind # "write"
          BY <1>1, <3>4
        <4>2. \A f \in Files : <<b, f>> \in request'[p].todo
          BY <1>1, <2>5
        <4>. QED BY <3>1, <4>1, <4>2 DEF Progress
      <3>. QED BY <3>2, <3>3, <3>4
    <2>6. ASSUME NEW q \in StoreProcs, request'[q].stage = "running", NEW b \in request'[q].blocks
          PROVE  Progress(request'[q], b, disk'[b])
      <3>1. CASE q = p
        BY <3>1, <2>5, <2>6, <1>1
      <3>2. CASE q # p
        BY <3>2, <2>1, <2>6, <1>2, <1>3 DEF FilesWhole
      <3>. QED BY <3>1, <3>2
    <2>7. FilesWhole'
      BY <2>3, <2>6 DEF FilesWhole
    <2>8. \A b \in BlockIds : disk[b] # {} => \A q \in StoreProcs : Fresh(q, b)' <=> Fresh(q, b)
      <3>. SUFFICES ASSUME NEW b \in BlockIds, disk[b] # {}, NEW q \in StoreProcs PROVE Fresh(q, b)' <=> Fresh(q, b)
        OBVIOUS
      <3>1. CASE q # p
        BY <3>1, <1>2 DEF Fresh
      <3>2. CASE q = p
        <4>1. ~Fresh(q, b)
          BY <3>2, <1>0 DEF Fresh
        <4>2. ~Fresh(q, b)'
          BY <3>2, <1>1, <2>4 DEF Fresh
        <4>. QED BY <4>1, <4>2
      <3>. QED BY <3>1, <3>2
    <2>9. Counted' = Counted
      BY <2>8, <1>3 DEF Counted
    <2>. QED BY <2>7, <2>9
  <1>. QED BY <1>3, <1>4, <1>5, <1>7, CountInvKept DEF CountInv

\* WriteFile(p, x): a new block counts when its write ends, one that is overwritten is whole.
LEMMA WriteFileCounts ==
    ASSUME RequestsInv, CountInv, NEW p \in StoreProcs, NEW x \in BlockIds \X Files, WriteFile(p, x)
    PROVE  CountInv'
  <1>. USE DEF Running
  <1>0. request[p] \in RequestType /\ RequestSound(request[p]) /\ request[p].stage = "running" /\ request[p].kind = "write"
    BY DEF RequestsInv, RequestSound, WriteFile
  <1>1. /\ request'[p].kind = request[p].kind /\ request'[p].blocks = request[p].blocks /\ request'[p].stage = "running"
        /\ request'[p].todo = request[p].todo \ {x} /\ request'[p].found = request[p].found
    BY <1>0 DEF WriteFile, RequestsInv, RequestType
  <1>2. \A q \in StoreProcs : q # p => request'[q] = request[q]
    BY DEF WriteFile, RequestsInv
  <1>3. usage' = usage /\ counting' = counting /\ reserved' = reserved /\ prealloc' = prealloc /\ drift' = drift
    BY DEF WriteFile, usageVars, countVars
  <1>4. \A b \in BlockIds : disk'[b] = IF b = x[1] THEN disk[b] \cup {x[2]} ELSE disk[b]
    BY DEF WriteFile, RequestsInv
  <1>5. x \in request[p].todo /\ request[p].blocks = {x[1]}
    BY <1>0 DEF WriteFile, RequestSound
  <1>6. \A q \in StoreProcs : q # p /\ request[q].stage = "running" => x[1] \notin request[q].blocks
    BY <1>0, <1>5 DEF RequestsInv, Exclusive
  <1>7. ASSUME ~drift' PROVE ~drift /\ FilesWhole' /\ Counted' = Counted /\ counting = Unknown
    <2>0. ~drift /\ FilesWhole
      BY <1>3, <1>7 DEF CountInv
    <2>1. Progress(request[p], x[1], disk[x[1]])
      BY <2>0, <1>0, <1>5 DEF FilesWhole
    <2>2. \/ request[p].found # {} /\ disk[x[1]] = Files
          \/ request[p].found = {} /\ \A f \in Files : f \in disk[x[1]] <=> <<x[1], f>> \notin request[p].todo
      BY <2>1, <1>0 DEF Progress
    <2>3. Progress(request'[p], x[1], disk'[x[1]])
      <3>1. disk'[x[1]] = disk[x[1]] \cup {x[2]}
        BY <1>4
      <3>2. CASE request[p].found # {} /\ disk[x[1]] = Files
        <4>1. disk'[x[1]] = Files
          BY <3>1, <3>2
        <4>. QED BY <4>1, <3>2, <1>0, <1>1 DEF Progress
      <3>3. CASE request[p].found = {} /\ \A f \in Files : f \in disk[x[1]] <=> <<x[1], f>> \notin request[p].todo
        <4>1. \A f \in Files : <<x[1], f>> = x <=> f = x[2]
          OBVIOUS
        <4>2. \A f \in Files : f \in disk'[x[1]] <=> <<x[1], f>> \notin request'[p].todo
          BY <3>1, <3>3, <4>1, <1>1
        <4>. QED BY <4>2, <3>3, <1>0, <1>1 DEF Progress
      <3>. QED BY <2>2, <3>2, <3>3
    <2>4. ASSUME NEW b \in BlockIds, \A q \in StoreProcs : Running(q)' => b \notin request'[q].blocks
          PROVE  disk'[b] \in {{}, Files}
      <3>1. b # x[1]
        BY <2>4, <1>1, <1>5
      <3>2. \A q \in StoreProcs : request[q].stage = "running" => b \notin request[q].blocks
        BY <2>4, <1>0, <1>1, <1>2
      <3>. QED BY <3>1, <3>2, <2>0, <1>4 DEF FilesWhole
    <2>5. ASSUME NEW q \in StoreProcs, request'[q].stage = "running", NEW b \in request'[q].blocks
          PROVE  Progress(request'[q], b, disk'[b])
      <3>1. CASE q = p
        BY <3>1, <2>3, <2>5, <1>1, <1>5
      <3>2. CASE q # p
        <4>1. b # x[1] /\ b \in BlockIds
          BY <3>2, <2>5, <1>2, <1>6 DEF RequestsInv, RequestType
        <4>. QED BY <3>2, <4>1, <2>0, <2>5, <1>2, <1>4 DEF FilesWhole
      <3>. QED BY <3>1, <3>2
    <2>6. FilesWhole'
      BY <2>4, <2>5 DEF FilesWhole
    <2>7. \A q \in StoreProcs, b \in BlockIds : Fresh(q, b)' <=> Fresh(q, b)
      <3>. SUFFICES ASSUME NEW q \in StoreProcs, NEW b \in BlockIds PROVE Fresh(q, b)' <=> Fresh(q, b)
        OBVIOUS
      <3>1. CASE q = p
        BY <3>1, <1>0, <1>1 DEF Fresh
      <3>2. CASE q # p
        BY <3>2, <1>2 DEF Fresh
      <3>. QED BY <3>1, <3>2
    <2>8. \A b \in BlockIds : b \in Counted' <=> b \in Counted
      <3>. SUFFICES ASSUME NEW b \in BlockIds PROVE b \in Counted' <=> b \in Counted
        OBVIOUS
      <3>1. CASE b # x[1]
        BY <3>1, <2>7, <1>4 DEF Counted
      <3>2. CASE b = x[1] /\ request[p].found = {}
        BY <3>2, <2>7, <1>0, <1>5 DEF Counted, Fresh
      <3>3. CASE b = x[1] /\ disk[x[1]] = Files
        BY <3>3, <2>7, <1>4 DEF Counted, Files
      <3>. QED BY <3>1, <3>2, <3>3, <2>2
    <2>9. Counted' = Counted
      BY <2>8 DEF Counted
    <2>10. counting = Unknown
      BY <2>0, <1>0 DEF CountInv, NobodyRuns
    <2>. QED BY <2>0, <2>6, <2>9, <2>10
  <1>8. reserved' \subseteq prealloc' /\ prealloc' \subseteq BlockIds /\ drift' \in BOOLEAN
    BY <1>3 DEF CountInv
  <1>. QED BY <1>3, <1>7, <1>8, CountInvKept

\* EndWrite(p): the block is counted now, with what was reserved for it replaced.
LEMMA EndWriteCounts ==
    ASSUME RequestsInv, SaverInv, CountInv, NEW p \in StoreProcs, EndWrite(p)
    PROVE  CountInv'
  <1>. USE DEF Running
  <1>0. request[p] \in RequestType /\ RequestSound(request[p]) /\ request[p].stage = "running"
        /\ request[p].kind = "write" /\ request[p].todo = {}
    BY DEF RequestsInv, EndWrite
  <1>1. PICK b \in request[p].blocks :
            /\ AddUsage(WrittenLength(p, b))
            /\ reserved' = IF request[p].is_preallocated THEN reserved \ {b} ELSE reserved
            /\ drift' = (drift \/ (usage # Unknown /\ request[p].is_preallocated /\ b \notin reserved))
    BY DEF EndWrite
  <1>2. b \in BlockIds /\ request[p].blocks = {b}
    BY <1>0 DEF RequestType, RequestSound
  <1>3. request'[p] = NoRequest /\ \A q \in StoreProcs : q # p => request'[q] = request[q]
    BY DEF EndWrite, RequestsInv
  <1>4. disk' = disk /\ counting' = counting /\ prealloc' = prealloc
    BY DEF EndWrite, countVars
  <1>5. \A q \in StoreProcs : q # p /\ request[q].stage = "running" => b \notin request[q].blocks
    BY <1>0, <1>2 DEF RequestsInv, Exclusive
  <1>6. disk[b] = Files
    <2>1. \A f \in Files : <<b, f>> \notin request[p].todo
      BY <1>0
    <2>. QED BY <2>1, <1>0, <1>2 DEF RequestsInv, WrittenOnDisk
  <1>7. reserved' \subseteq prealloc' /\ prealloc' \subseteq BlockIds /\ drift' \in BOOLEAN
    BY <1>1, <1>4 DEF CountInv
  <1>8. ASSUME ~drift' PROVE FilesWhole'
    <2>0. ~drift /\ FilesWhole
      BY <1>1, <1>8 DEF CountInv
    <2>1. ASSUME NEW c \in BlockIds, \A q \in StoreProcs : Running(q)' => c \notin request'[q].blocks
          PROVE  disk'[c] \in {{}, Files}
      <3>1. CASE c = b
        BY <3>1, <1>4, <1>6
      <3>2. CASE c # b
        BY <3>2, <2>0, <2>1, <1>2, <1>3, <1>4 DEF FilesWhole
      <3>. QED BY <3>1, <3>2
    <2>2. ASSUME NEW q \in StoreProcs, request'[q].stage = "running", NEW c \in request'[q].blocks
          PROVE  Progress(request'[q], c, disk'[c])
      <3>1. q # p
        BY <2>2, <1>3, NoRequestSound
      <3>. QED BY <3>1, <2>0, <2>2, <1>3, <1>4 DEF FilesWhole
    <2>. QED BY <2>1, <2>2 DEF FilesWhole
  <1>9. Counted' = Counted \cup {b} /\ (b \in Counted <=> request[p].found # {})
    <2>1. \A q \in StoreProcs, c \in BlockIds : Fresh(q, c)' <=> Fresh(q, c) /\ q # p
      <3>. SUFFICES ASSUME NEW q \in StoreProcs, NEW c \in BlockIds PROVE Fresh(q, c)' <=> Fresh(q, c) /\ q # p
        OBVIOUS
      <3>1. CASE q = p
        BY <3>1, <1>3, NoRequestSound DEF Fresh
      <3>2. CASE q # p
        BY <3>2, <1>3 DEF Fresh
      <3>. QED BY <3>1, <3>2
    <2>2. \A c \in BlockIds : Fresh(p, c) <=> c = b /\ request[p].found = {}
      BY <1>0, <1>2 DEF Fresh
    <2>3. \A q \in StoreProcs : q # p => ~Fresh(q, b)
      BY <1>5 DEF Fresh
    <2>4. \A c \in BlockIds : c # b => (c \in Counted' <=> c \in Counted)
      BY <2>1, <2>2, <1>4 DEF Counted
    <2>5. b \in Counted'
      BY <2>1, <2>3, <1>2, <1>4, <1>6 DEF Counted, Files
    <2>6. b \in Counted <=> request[p].found # {}
      BY <2>2, <2>3, <1>2, <1>6 DEF Counted, Files
    <2>7. Counted \subseteq BlockIds /\ Counted' \subseteq BlockIds
      BY DEF Counted
    <2>. QED BY <2>4, <2>5, <2>6, <2>7, <1>2
  <1>10. ASSUME ~drift' PROVE counting' = Unknown
    <2>1. ~drift
      BY <1>1, <1>10 DEF CountInv
    <2>. QED BY <2>1, <1>0, <1>4 DEF CountInv, NobodyRuns
  <1>11. ASSUME ~drift', usage' # Unknown
         PROVE  usage' = LengthOf(Counted' \X Files) + ReservedLength(reserved')
    <2>0. usage # Unknown /\ usage' = usage + WrittenLength(p, b)
      <3>1. CASE usage = Unknown
        BY <3>1, <1>1, <1>11 DEF AddUsage
      <3>2. CASE usage # Unknown /\ WrittenLength(p, b) = 0
        BY <3>2, <1>1 DEF AddUsage, SaverInv, Ints
      <3>3. CASE usage # Unknown /\ WrittenLength(p, b) # 0
        BY <3>3, <1>1 DEF AddUsage
      <3>. QED BY <3>1, <3>2, <3>3
    <2>1. ~drift /\ (request[p].is_preallocated => b \in reserved)
      BY <2>0, <1>1, <1>11 DEF CountInv
    <2> DEFINE pre     == request[p].is_preallocated
               counted == LengthOf(Counted \X Files)
               length  == Length[b]
               kept    == ReservedLength(reserved \ {b})
    <2>2. usage = counted + ReservedLength(reserved)
      BY <2>0, <2>1 DEF CountInv
    <2>3. Counted \in SUBSET BlockIds /\ counted \in Nat /\ length \in Nat /\ MetaLength = 1
      <3>1. Counted \in SUBSET BlockIds
        BY DEF Counted
      <3>2. Counted \X Files \in SUBSET AllFiles
        BY <3>1 DEF AllFiles
      <3>. QED BY <3>1, <3>2, <1>2, LengthOfNat, LengthAssumption DEF BlockIds, MetaLength
    <2>4. LengthOf(Counted' \X Files) = IF request[p].found # {} THEN counted ELSE counted + (length + MetaLength)
      <3>1. CASE request[p].found # {}
        <4>1. Counted' = Counted
          BY <3>1, <1>9
        <4>. QED BY <3>1, <4>1
      <3>2. CASE request[p].found = {}
        <4>1. b \in BlockIds \ Counted /\ Counted' = Counted \cup {b}
          BY <3>2, <1>2, <1>9
        <4>2. LengthOf((Counted \cup {b}) \X Files) = counted + length + MetaLength
          BY <4>1, <2>3, LengthOfMore
        <4>3. LengthOf((Counted \cup {b}) \X Files) = counted + (length + MetaLength)
          BY <4>2, <2>3
        <4>. QED BY <3>2, <4>1, <4>3
      <3>. QED BY <3>1, <3>2
    <2>5. kept \in Nat /\ ReservedLength(reserved) = IF b \in reserved THEN length + kept ELSE kept
      <3>1. reserved \ {b} \in SUBSET BlockIds /\ b \in BlockIds \ (reserved \ {b})
        BY <1>2 DEF CountInv
      <3>2. CASE b \in reserved
        <4>1. (reserved \ {b}) \cup {b} = reserved
          BY <3>2
        <4>. QED BY <3>1, <3>2, <4>1, ReservedMore
      <3>3. CASE b \notin reserved
        <4>1. reserved \ {b} = reserved
          BY <3>3
        <4>. QED BY <3>1, <3>3, <4>1, ReservedMore
      <3>. QED BY <3>2, <3>3
    <2>6. WrittenLength(p, b) = (IF pre THEN MetaLength ELSE length + MetaLength)
                                   - (IF request[p].found # {} THEN length + MetaLength ELSE 0)
      BY DEF WrittenLength
    <2>7. ReservedLength(reserved') = IF pre THEN kept ELSE ReservedLength(reserved)
      BY <1>1
    <2>8. pre => b \in reserved
      BY <2>1
    <2>. HIDE DEF counted, length, kept, pre
    <2>9. CASE pre
      <3>1. ReservedLength(reserved) = length + kept /\ ReservedLength(reserved') = kept /\ kept \in Nat
        BY <2>9, <2>5, <2>7, <2>8
      <3>2. WrittenLength(p, b) = MetaLength - (IF request[p].found # {} THEN length + MetaLength ELSE 0)
        BY <2>9, <2>6
      <3>. QED BY <3>1, <3>2, <2>0, <2>2, <2>3, <2>4
    <2>10. CASE ~pre
      BY <2>10, <2>0, <2>2, <2>3, <2>4, <2>5, <2>6, <2>7
    <2>. QED BY <2>9, <2>10
  <1>. QED BY <1>7, <1>8, <1>10, <1>11 DEF CountInv

\* DeleteFile(p, x): a block is counted until its last file is gone.
LEMMA DeleteFileCounts ==
    ASSUME RequestsInv, SaverInv, CountInv, NEW p \in StoreProcs, NEW x \in BlockIds \X Files, DeleteFile(p, x)
    PROVE  CountInv'
  <1>. USE DEF Running
  <1> DEFINE b     == x[1]
             todo  == request[p].todo \ {x}
             found == request[p].found \cup (FilesOnDisk \cap {x})
             gone  == {y \in found : y[1] = b}
             ended == {y \in todo : y[1] = b} = {} /\ <<b, "data">> \in found /\ <<b, "failed">> \notin found
  <1>0. /\ request[p] \in RequestType /\ RequestSound(request[p]) /\ request[p].stage = "running"
        /\ request[p].kind = "delete" /\ x \in request[p].todo
    BY DEF RequestsInv, RequestSound, DeleteFile
  <1>1. /\ request'[p].kind = request[p].kind /\ request'[p].blocks = request[p].blocks /\ request'[p].stage = "running"
        /\ request'[p].todo = todo /\ request'[p].found = found
    BY <1>0 DEF DeleteFile, RequestsInv, RequestType
  <1>2. \A q \in StoreProcs : q # p => request'[q] = request[q]
    BY DEF DeleteFile, RequestsInv
  <1>3. counting' = counting /\ reserved' = reserved /\ prealloc' = prealloc /\ drift' = drift
    BY DEF DeleteFile, countVars
  <1>4. IF ended THEN AddUsage(-LengthOf(gone)) ELSE usage' = usage
    BY DEF DeleteFile
  <1>5. \A c \in BlockIds : disk'[c] = IF c = b THEN disk[c] \ {x[2]} ELSE disk[c]
    BY DEF DeleteFile, RequestsInv
  <1>6. b \in request[p].blocks /\ b \in BlockIds /\ x[2] \in Files
    BY <1>0 DEF RequestSound
  <1>7. \A q \in StoreProcs : q # p /\ request[q].stage = "running" => b \notin request[q].blocks
    BY <1>0, <1>6 DEF RequestsInv, Exclusive
  <1>8. \A f \in Files : <<b, f>> = x <=> f = x[2]
    OBVIOUS
  <1>9. x \in FilesOnDisk <=> x[2] \in disk[b]
    BY DEF FilesOnDisk
  <1>10. reserved' \subseteq prealloc' /\ prealloc' \subseteq BlockIds /\ drift' \in BOOLEAN
    BY <1>3 DEF CountInv
  <1>11. ASSUME ~drift
         PROVE  /\ <<b, "failed">> \notin found
                /\ \/ disk[b] = {} /\ disk'[b] = {} /\ \A f \in Files : <<b, f>> \notin found
                   \/ /\ \A f \in Files : (f \in disk[b] <=> <<b, f>> \in request[p].todo)
                      /\ \A f \in Files : (f \in disk'[b] <=> <<b, f>> \in todo) /\ (<<b, f>> \in found <=> <<b, f>> \notin todo)
    <2>1. Progress(request[p], b, disk[b])
      BY <1>0, <1>6, <1>11 DEF CountInv, FilesWhole
    <2>2. <<b, "failed">> # x
      BY DEF Files
    <2>3. /\ <<b, "failed">> \notin request[p].found
          /\ \/ disk[b] = {} /\ \A f \in Files : <<b, f>> \notin request[p].found
             \/ \A f \in Files : (f \in disk[b] <=> <<b, f>> \in request[p].todo)
                                 /\ (<<b, f>> \in request[p].found <=> <<b, f>> \notin request[p].todo)
      BY <2>1, <1>0 DEF Progress
    <2>4. disk'[b] = disk[b] \ {x[2]}
      BY <1>5, <1>6
    <2>5. CASE disk[b] = {} /\ \A f \in Files : <<b, f>> \notin request[p].found
      BY <2>2, <2>3, <2>4, <2>5, <1>9
    <2>6. CASE \A f \in Files : (f \in disk[b] <=> <<b, f>> \in request[p].todo)
                                /\ (<<b, f>> \in request[p].found <=> <<b, f>> \notin request[p].todo)
      <3>1. x \in FilesOnDisk
        BY <2>6, <1>0, <1>6, <1>8, <1>9
      <3>2. \A f \in Files : f \in disk'[b] <=> <<b, f>> \in todo
        BY <2>4, <2>6, <1>8
      <3>3. \A f \in Files : <<b, f>> \in found <=> <<b, f>> \notin todo
        BY <2>6, <3>1, <1>8
      <3>4. <<b, "failed">> \notin found
        BY <2>2, <2>3
      <3>. HIDE DEF found, todo
      <3>. QED BY <3>2, <3>3, <3>4, <2>6
    <2>. QED BY <2>3, <2>5, <2>6
  <1>. HIDE DEF todo, found
  <1>12. ASSUME ~drift PROVE FilesWhole'
    <2>0. FilesWhole
      BY <1>12 DEF CountInv
    <2>1. Progress(request'[p], b, disk'[b])
      BY <1>0, <1>1, <1>11, <1>12 DEF Progress
    <2>2. ASSUME NEW c \in BlockIds, \A q \in StoreProcs : Running(q)' => c \notin request'[q].blocks
          PROVE  disk'[c] \in {{}, Files}
      <3>1. c # b
        BY <2>2, <1>1, <1>6
      <3>2. \A q \in StoreProcs : request[q].stage = "running" => c \notin request[q].blocks
        BY <2>2, <1>0, <1>1, <1>2
      <3>. QED BY <3>1, <3>2, <2>0, <1>5 DEF FilesWhole
    <2>3. ASSUME NEW q \in StoreProcs, request'[q].stage = "running", NEW c \in request'[q].blocks
          PROVE  Progress(request'[q], c, disk'[c])
      <3>0. c \in BlockIds
        BY <2>3, <1>0, <1>1, <1>2 DEF RequestsInv, RequestType
      <3>1. CASE c = b
        <4>1. q = p
          BY <2>3, <3>1, <1>2, <1>7
        <4>. QED BY <3>1, <4>1, <2>1
      <3>2. CASE c # b /\ q = p
        <4>1. Progress(request[p], c, disk[c])
          BY <3>2, <2>0, <2>3, <1>0, <1>1 DEF FilesWhole
        <4>2. \A f \in Marks : <<c, f>> # x
          BY <3>2
        <4>3. \A f \in Marks : (<<c, f>> \in todo <=> <<c, f>> \in request[p].todo)
                               /\ (<<c, f>> \in found <=> <<c, f>> \in request[p].found)
          BY <4>2 DEF todo, found
        <4>4. disk'[c] = disk[c]
          BY <3>0, <3>2, <1>5
        <4>5. "failed" \in Marks /\ \A f \in Files : f \in Marks
          BY DEF Marks
        <4>6. Progress(request'[p], c, disk[c])
          BY <4>1, <4>3, <4>5, <1>0, <1>1 DEF Progress
        <4>. QED BY <3>2, <4>4, <4>6
      <3>3. CASE c # b /\ q # p
        BY <3>0, <3>3, <2>0, <2>3, <1>2, <1>5 DEF FilesWhole
      <3>. QED BY <3>1, <3>2, <3>3
    <2>. QED BY <2>2, <2>3 DEF FilesWhole
  <1>13. \A q \in StoreProcs, c \in BlockIds : Fresh(q, c)' <=> Fresh(q, c)
    <2>. SUFFICES ASSUME NEW q \in StoreProcs, NEW c \in BlockIds PROVE Fresh(q, c)' <=> Fresh(q, c)
      OBVIOUS
    <2>1. CASE q = p
      BY <2>1, <1>0, <1>1 DEF Fresh
    <2>2. CASE q # p
      BY <2>2, <1>2 DEF Fresh
    <2>. QED BY <2>1, <2>2
  <1>14. \A c \in BlockIds : c # b => (c \in Counted' <=> c \in Counted)
    BY <1>5, <1>13 DEF Counted
  <1>15. (b \in Counted <=> disk[b] # {}) /\ (b \in Counted' <=> disk'[b] # {})
    <2>1. \A q \in StoreProcs : ~Fresh(q, b)
      BY <1>0, <1>7 DEF Fresh
    <2>. QED BY <2>1, <1>6, <1>13 DEF Counted
  <1>16. Counted \subseteq BlockIds /\ Counted' \subseteq BlockIds
    BY DEF Counted
  <1>17. ASSUME ~drift PROVE counting' = Unknown
    BY <1>17, <1>0, <1>3 DEF CountInv, NobodyRuns
  <1>18. ASSUME ~drift, usage' # Unknown
         PROVE  usage' = LengthOf(Counted' \X Files) + ReservedLength(reserved')
    <2>1. CASE ended
      <3>1. \A f \in Files : <<b, f>> \notin todo
        BY <2>1
      <3>2. <<b, "data">> \in found /\ "data" \in Files
        BY <2>1 DEF Files
      <3>3. /\ \A f \in Files : f \in disk[b] <=> <<b, f>> \in request[p].todo
            /\ \A f \in Files : f \notin disk'[b] /\ <<b, f>> \in found
        BY <3>1, <3>2, <1>11, <1>18
      <3>4. x[2] \in disk[b]
        BY <3>3, <1>0, <1>6, <1>8
      <3>5. disk'[b] = {}
        <4>1. disk'[b] \subseteq Files
          BY <1>5, <1>6 DEF RequestsInv
        <4>. QED BY <3>3, <4>1
      <3>6. b \in Counted /\ b \notin Counted'
        BY <3>4, <3>5, <1>15
      <3>7. gone = {b} \X Files
        <4>1. found \subseteq BlockIds \X Marks
          BY <1>0 DEF found, RequestType, FilesOnDisk, Marks
        <4>2. \A y \in gone : y \in {b} \X Files
          <5>. SUFFICES ASSUME NEW y \in gone PROVE y \in {b} \X Files
            OBVIOUS
          <5>1. y \in BlockIds \X Marks /\ y[1] = b /\ y # <<b, "failed">>
            BY <4>1, <2>1
          <5>2. y = <<b, y[2]>> /\ y[2] \in Marks
            BY <5>1
          <5>. QED BY <5>1, <5>2 DEF Marks
        <4>3. \A y \in {b} \X Files : y \in gone
          BY <3>3
        <4>. QED BY <4>2, <4>3
      <3>8. LengthOf(gone) = Length[b] + MetaLength
        BY <3>7, <1>6, LengthOfBlock
      <3>9. LengthOf(Counted \X Files) = LengthOf(Counted' \X Files) + Length[b] + MetaLength
        <4>1. Counted' \in SUBSET BlockIds /\ b \in BlockIds \ Counted'
          BY <3>6, <1>6, <1>16
        <4>2. Counted' \cup {b} = Counted
          BY <3>6, <1>14, <1>16
        <4>. HIDE DEF b
        <4>. QED BY <4>1, <4>2, LengthOfMore
      <3>10. /\ LengthOf(Counted' \X Files) \in Nat /\ Length[b] \in Nat /\ MetaLength = 1
             /\ ReservedLength(reserved) \in Nat
        <4>1. Counted' \X Files \in SUBSET AllFiles
          BY <1>16 DEF AllFiles
        <4>2. reserved \in SUBSET BlockIds
          BY DEF CountInv
        <4>. QED BY <4>1, <4>2, <1>6, LengthOfNat, ReservedMore, LengthAssumption DEF BlockIds, MetaLength
      <3> DEFINE length  == Length[b]
                 after   == LengthOf(Counted' \X Files)
                 before  == LengthOf(Counted \X Files)
                 freed   == LengthOf(gone)
                 kept    == ReservedLength(reserved)
      <3>11. AddUsage(-freed)
        BY <2>1, <1>4
      <3>. HIDE DEF length, after, before, freed, kept
      <3>12. -freed # 0 /\ -freed \in Int
        BY <3>8, <3>10 DEF length, freed
      <3>13. usage # Unknown /\ usage' = usage + (-freed)
        BY <3>11, <3>12, <1>18 DEF AddUsage
      <3>14. usage = before + kept
        BY <3>13, <1>18 DEF CountInv, before, kept
      <3>15. usage' = after + kept
        BY <3>8, <3>9, <3>10, <3>13, <3>14 DEF length, after, before, freed, kept
      <3>. QED BY <3>15, <1>3 DEF after, kept
    <2>2. CASE ~ended
      <3>1. usage' = usage /\ usage = LengthOf(Counted \X Files) + ReservedLength(reserved)
        BY <2>2, <1>4, <1>18 DEF CountInv
      <3>2. b \in Counted <=> b \in Counted'
        <4>1. CASE disk[b] = {} /\ disk'[b] = {}
          BY <4>1, <1>15
        <4>2. CASE /\ \A f \in Files : (f \in disk[b] <=> <<b, f>> \in request[p].todo)
                   /\ \A f \in Files : (f \in disk'[b] <=> <<b, f>> \in todo) /\ (<<b, f>> \in found <=> <<b, f>> \notin todo)
          <5>1. x[2] \in disk[b]
            BY <4>2, <1>0, <1>6, <1>8
          <5>2. <<b, "failed">> \notin found
            BY <1>11, <1>18
          <5>3. \E f \in Files : <<b, f>> \in todo
            <6>1. CASE <<b, "data">> \notin found
              BY <4>2, <6>1 DEF Files
            <6>2. CASE <<b, "data">> \in found
              <7>1. PICK y \in todo : y[1] = b
                BY <2>2, <5>2, <6>2
              <7>2. y \in BlockIds \X Files
                BY <1>0 DEF todo, RequestType
              <7>3. y = <<b, y[2]>> /\ y[2] \in Files
                BY <7>1, <7>2
              <7>. QED BY <7>1, <7>3
            <6>. QED BY <6>1, <6>2
          <5>4. disk'[b] # {}
            BY <4>2, <5>3
          <5>. QED BY <5>1, <5>4, <1>15
        <4>. QED BY <4>1, <4>2, <1>11, <1>18
      <3>3. Counted' = Counted
        BY <3>2, <1>14, <1>16
      <3>. QED BY <3>1, <3>3, <1>3
    <2>. QED BY <2>1, <2>2
  <1>. QED BY <1>3, <1>10, <1>12, <1>17, <1>18 DEF CountInv

\* EndDelete(p): nothing is left of its blocks.
LEMMA EndDeleteCounts ==
    ASSUME RequestsInv, CountInv, NEW p \in StoreProcs, EndDelete(p)
    PROVE  CountInv'
  <1>. USE DEF Running
  <1>0. /\ request[p] \in RequestType /\ RequestSound(request[p]) /\ request[p].stage = "running"
        /\ request[p].kind = "delete" /\ request[p].todo = {}
    BY DEF RequestsInv, EndDelete
  <1>1. request'[p] = NoRequest /\ \A q \in StoreProcs : q # p => request'[q] = request[q]
    BY DEF EndDelete, RequestsInv
  <1>2. /\ disk' = disk /\ counting' = counting /\ prealloc' = prealloc /\ reserved' = reserved
        /\ drift' = drift /\ usage' = usage
    BY DEF EndDelete, usageVars, countVars
  <1>3. ASSUME ~drift PROVE FilesWhole' /\ counting = Unknown
    <2>0. FilesWhole
      BY <1>3 DEF CountInv
    <2>1. ASSUME NEW b \in request[p].blocks PROVE disk[b] = {}
      <3>1. Progress(request[p], b, disk[b]) /\ disk[b] \subseteq Files
        BY <2>0, <1>0 DEF FilesWhole, RequestsInv, RequestType
      <3>2. \A f \in Files : f \notin disk[b]
        BY <3>1, <1>0 DEF Progress
      <3>. QED BY <3>1, <3>2
    <2>2. ASSUME NEW b \in BlockIds, \A q \in StoreProcs : Running(q)' => b \notin request'[q].blocks
          PROVE  disk'[b] \in {{}, Files}
      <3>1. CASE b \in request[p].blocks
        BY <3>1, <2>1, <1>2
      <3>2. CASE b \notin request[p].blocks
        BY <3>2, <2>0, <2>2, <1>1, <1>2 DEF FilesWhole
      <3>. QED BY <3>1, <3>2
    <2>3. ASSUME NEW q \in StoreProcs, request'[q].stage = "running", NEW b \in request'[q].blocks
          PROVE  Progress(request'[q], b, disk'[b])
      <3>1. q # p
        BY <2>3, <1>1, NoRequestSound
      <3>. QED BY <3>1, <2>0, <2>3, <1>1, <1>2 DEF FilesWhole
    <2>4. FilesWhole'
      BY <2>2, <2>3 DEF FilesWhole
    <2>5. counting = Unknown
      BY <1>0, <1>3 DEF CountInv, NobodyRuns
    <2>. QED BY <2>4, <2>5
  <1>4. \A q \in StoreProcs, b \in BlockIds : Fresh(q, b)' <=> Fresh(q, b)
    <2>. SUFFICES ASSUME NEW q \in StoreProcs, NEW b \in BlockIds PROVE Fresh(q, b)' <=> Fresh(q, b)
      OBVIOUS
    <2>1. CASE q = p
      BY <2>1, <1>0, <1>1, NoRequestSound DEF Fresh
    <2>2. CASE q # p
      BY <2>2, <1>1 DEF Fresh
    <2>. QED BY <2>1, <2>2
  <1>5. Counted' = Counted
    BY <1>2, <1>4 DEF Counted
  <1>6. reserved' \subseteq prealloc' /\ prealloc' \subseteq BlockIds /\ drift' \in BOOLEAN
    BY <1>2 DEF CountInv
  <1>. QED BY <1>2, <1>3, <1>5, <1>6, CountInvKept

\* PreallocateBlock(b): the length of the block is counted and reserved.
LEMMA PreallocateCounts ==
    ASSUME RequestsInv, SaverInv, CountInv, NEW b \in BlockIds, PreallocateBlock(b)
    PROVE  CountInv'
  <1>0. disk' = disk /\ request' = request /\ counting' = counting
    BY DEF PreallocateBlock, countVars
  <1>1. prealloc' = prealloc \cup {b} /\ reserved' = reserved \cup {b} /\ drift' = (drift \/ b \in reserved)
    BY DEF PreallocateBlock
  <1>2. reserved' \subseteq prealloc' /\ prealloc' \subseteq BlockIds /\ drift' \in BOOLEAN
    BY <1>0, <1>1 DEF CountInv
  <1>3. usage \in Int /\ counting = Unknown
    BY DEF PreallocateBlock, HasSpace, SaverInv, Ints
  <1>4. Length[b] \in Nat
    BY LengthAssumption DEF BlockIds
  <1>5. usage' = usage + Length[b]
    <2>1. AddUsage(Length[b]) /\ usage # Unknown
      BY DEF PreallocateBlock, HasSpace
    <2>2. CASE Length[b] = 0
      BY <2>1, <2>2, <1>3 DEF AddUsage
    <2>3. CASE Length[b] # 0
      BY <2>1, <2>3 DEF AddUsage
    <2>. QED BY <2>2, <2>3
  <1>6. ASSUME ~drift'
        PROVE  ReservedLength(reserved') = Length[b] + ReservedLength(reserved) /\ ReservedLength(reserved) \in Nat
    <2>1. reserved \in SUBSET BlockIds /\ b \in BlockIds \ reserved
      BY <1>1, <1>6 DEF CountInv
    <2>. QED BY <2>1, <1>1, ReservedMore
  <1>7. ASSUME ~drift PROVE FilesWhole' /\ Counted' = Counted
    <2>1. FilesWhole
      BY <1>7 DEF CountInv
    <2>. QED BY <2>1, <1>0, FilesAloneCounts
  <1>8. ASSUME ~drift' PROVE usage' = LengthOf(Counted \X Files) + ReservedLength(reserved')
    <2>1. usage = LengthOf(Counted \X Files) + ReservedLength(reserved)
      BY <1>1, <1>8 DEF CountInv, PreallocateBlock, HasSpace
    <2>2. Counted \X Files \in SUBSET AllFiles
      BY DEF Counted, AllFiles
    <2>3. LengthOf(Counted \X Files) \in Nat
      BY <2>2, LengthOfNat
    <2>. QED BY <2>1, <2>3, <1>4, <1>5, <1>6, <1>8
  <1>. QED BY <1>0, <1>1, <1>2, <1>3, <1>7, <1>8 DEF CountInv

\* Each step keeps the count.
LEMMA StepCountInv == RequestsInv /\ SaverInv /\ CountInv /\ [StoreNext]_storeVars => CountInv'
  <1>. SUFFICES ASSUME RequestsInv, SaverInv, CountInv, [StoreNext]_storeVars PROVE CountInv'
    OBVIOUS
  <1>. USE DEF countVars
  <1>1. ASSUME UNCHANGED <<disk, request, usage, counting, reserved, prealloc, drift>> PROVE CountInv'
    <2>1. ~drift => FilesWhole' /\ Counted' = Counted /\ (NobodyRuns => NobodyRuns')
      BY <1>1, FilesAloneCounts DEF CountInv
    <2>2. reserved' \subseteq prealloc' /\ prealloc' \subseteq BlockIds /\ drift' \in BOOLEAN
      BY <1>1 DEF CountInv
    <2>3. ~drift /\ counting # Unknown => NobodyRuns
      BY DEF CountInv
    <2>. QED BY <1>1, <2>1, <2>2, <2>3, CountInvKept
  <1>2. ASSUME NEW p \in StoreProcs, NEW kind \in {"write", "delete"}, NEW B, Arrive(p, kind, B)
        PROVE  CountInv'
    <2>1. request[p].stage # "running" /\ request[p].kind = "none" /\ request'[p].stage # "running"
      <3>1. request'[p].stage = "waiting"
        BY <1>2 DEF Arrive, NoRequest, RequestsInv
      <3>. QED BY <1>2, <3>1 DEF Arrive, RequestsInv, RequestSound
    <2>2. \A q \in StoreProcs : q # p => request'[q] = request[q]
      BY <1>2 DEF Arrive, RequestsInv
    <2>3. /\ disk' = disk /\ usage' = usage /\ counting' = counting /\ reserved' = reserved
          /\ prealloc' = prealloc /\ drift' = drift
      BY <1>2 DEF Arrive, usageVars
    <2>4. \A q \in StoreProcs : request'[q].stage = "running" <=> request[q].stage = "running"
      BY <2>1, <2>2
    <2>5. \A q \in StoreProcs : request[q].stage = "running" => request'[q] = request[q]
      BY <2>1, <2>2
    <2>6. ~drift => FilesWhole' /\ Counted' = Counted /\ (NobodyRuns => NobodyRuns')
      BY <2>3, <2>4, <2>5, FilesAloneCounts DEF CountInv
    <2>7. reserved' \subseteq prealloc' /\ prealloc' \subseteq BlockIds /\ drift' \in BOOLEAN
      BY <2>3 DEF CountInv
    <2>8. ~drift /\ counting # Unknown => NobodyRuns
      BY DEF CountInv
    <2>. QED BY <2>3, <2>6, <2>7, <2>8, CountInvKept
  <1>3. ASSUME drift', UNCHANGED <<reserved, prealloc>>, drift' = TRUE PROVE CountInv'
    BY <1>3 DEF CountInv
  <1>4. CASE StartCount
    <2>1. /\ disk' = disk /\ request' = request /\ usage' = usage /\ reserved' = reserved /\ prealloc' = prealloc
          /\ usage = Unknown /\ counting' = DiskUsage
      BY <1>4 DEF StartCount
    <2>2. (~drift' => ~drift /\ NobodyRuns) /\ drift' \in BOOLEAN
      BY <1>4 DEF StartCount
    <2>3. ASSUME ~drift' PROVE FilesWhole' /\ NobodyRuns' /\ Counted' = Counted
      BY <2>1, <2>2, <2>3, FilesAloneCounts DEF CountInv
    <2>4. ASSUME ~drift' PROVE counting' = LengthOf(Counted \X Files)
      <3>1. FilesOnDisk = Counted \X Files
        BY <2>2, <2>4, CountedOnDisk DEF CountInv
      <3>. QED BY <2>1, <3>1 DEF DiskUsage
    <2>. QED BY <2>1, <2>2, <2>3, <2>4 DEF CountInv
  <1>5. CASE EndCount
    <2>1. /\ disk' = disk /\ request' = request /\ usage' = counting /\ reserved' = reserved /\ prealloc' = prealloc
          /\ counting # Unknown /\ counting' = Unknown
      BY <1>5 DEF EndCount
    <2>2. (~drift' => ~drift /\ reserved = {}) /\ drift' \in BOOLEAN
      BY <1>5 DEF EndCount
    <2>3. ASSUME ~drift' PROVE FilesWhole' /\ Counted' = Counted
      BY <2>1, <2>2, <2>3, FilesAloneCounts DEF CountInv
    <2>4. ASSUME ~drift' PROVE usage' = LengthOf(Counted \X Files) + ReservedLength(reserved')
      <3>1. usage' = LengthOf(Counted \X Files)
        BY <2>1, <2>2, <2>4 DEF CountInv
      <3>2. ReservedLength(reserved') = 0
        BY <2>1, <2>2, <2>4, SumEmpty DEF ReservedLength
      <3>3. Counted \X Files \in SUBSET AllFiles
        BY DEF Counted, AllFiles
      <3>4. LengthOf(Counted \X Files) \in Nat
        BY <3>3, LengthOfNat
      <3>. QED BY <3>1, <3>2, <3>4
    <2>. QED BY <2>1, <2>2, <2>3, <2>4 DEF CountInv
  <1>6. CASE RestartAgent
    <2>1. /\ disk' = disk /\ usage' = file' /\ counting' = Unknown /\ reserved' = reserved /\ prealloc' = prealloc
          /\ \A q \in StoreProcs : request'[q] = NoRequest
      BY <1>6 DEF RestartAgent
    <2>2. (~drift' => ~drift /\ NobodyRuns /\ (file' = Unknown \/ file' = usage)) /\ drift' \in BOOLEAN
      BY <1>6 DEF RestartAgent
    <2>3. ASSUME ~drift' PROVE FilesWhole' /\ Counted' = Counted
      <3>1. \A q \in StoreProcs : request[q].stage # "running"
        BY <2>2, <2>3 DEF NobodyRuns, Running
      <3>. QED BY <2>1, <2>2, <2>3, <3>1, NoRequestSound, FilesAloneCounts DEF CountInv
    <2>. QED BY <2>1, <2>2, <2>3 DEF CountInv
  <1>7. ASSUME NEW b \in BlockIds, ReadBlock(b) PROVE CountInv'
    BY <1>1, <1>7 DEF ReadBlock, usageVars
  <1>8. ASSUME NEW i \in Items, ReadFiles(i) \/ EndRead(i) \/ ReadThrows(i) PROVE CountInv'
    BY <1>1, <1>8 DEF ReadFiles, EndRead, ReadThrows, usageVars
  <1>9. ASSUME NEW p \in StoreProcs, NEW b \in BlockIds, WriteBlock(p, b) PROVE CountInv'
    BY <1>2, <1>9 DEF WriteBlock
  <1>10. ASSUME NEW p \in StoreProcs, NEW B \in SUBSET BlockIds, DeleteStored(p, B) PROVE CountInv'
    BY <1>2, <1>10 DEF DeleteStored
  <1>11. ASSUME NEW p \in StoreProcs, WriteThrows(p) PROVE CountInv'
    BY <1>3, <1>11 DEF WriteThrows
  <1>12. ASSUME NEW p \in StoreProcs, NEW x \in BlockIds \X Files, DeleteThrows(p, x) PROVE CountInv'
    BY <1>3, <1>12 DEF DeleteThrows
  <1>13. CASE StartSaveUsage \/ EndSaveUsage \/ SaveUsageThrows
    BY <1>1, <1>13 DEF StartSaveUsage, EndSaveUsage, SaveUsageThrows
  <1>14. CASE UNCHANGED storeVars
    BY <1>1, <1>14 DEF storeVars
  <1>15. CASE CountWritten \/ CountNotWritten
    BY <1>1, <1>15 DEF CountWritten, CountNotWritten
  <1>. QED BY <1>4, <1>5, <1>6, <1>7, <1>8, <1>9, <1>10, <1>11, <1>12, <1>13, <1>14, <1>15, LockCounts, WriteFileCounts,
              EndWriteCounts, DeleteFileCounts, EndDeleteCounts, PreallocateCounts DEF StoreNext

-----------------------------------------------------------------------------
(* The operations of the cache *)

ItemType  == [id : CacheKeys \cup {"none"}, size : Nat, data : BOOLEAN, load : {"none", "reading", "read"}]
CacheType == [map : [CacheKeys -> Items \cup {NoItem}], list : Seq(Items), usage : Int, item : [Items -> ItemType]]

\* The list and the map hold the same items, each under its key; an item in the list has
\* a value or the size it was added with.
Shape(c) ==
    /\ c \in CacheType
    /\ IsInjective(c.list)
    /\ \A i \in Linked(c) : c.item[i].id \in CacheKeys /\ c.map[c.item[i].id] = i
    /\ \A i \in Linked(c) : c.item[i].data = TRUE \/ c.item[i].size = 1
    /\ \A k \in CacheKeys : c.map[k] # NoItem => c.map[k] \in Linked(c) /\ c.item[c.map[k]].id = k
    /\ \A i \in Items : c.item[i].load # "none" => c.item[i].id \in CacheKeys

Accounted(c) == c.usage = UsageOf(c, Linked(c))
CacheInv(c)  == Shape(c) /\ Accounted(c) /\ c.usage <= MaxUsage

\* What a read would find, now or when the load that read it ends
HeldItem(c, i) == c.item[i].data = TRUE \/ c.item[i].load = "read"
Held(c, b)     == c.map[b] # NoItem /\ HeldItem(c, c.map[b])
\* nothing is in d that was not in c
NoMore(c, d)   == \A b \in CacheKeys : Held(d, b) => Held(c, b)

\* The invariant is at least what _sanity asserts.
LEMMA InvAgrees == \A c : CacheInv(c) => CacheAgrees(c)
  BY DEF CacheInv, Shape, Accounted, CacheAgrees

LEMMA NoItemFact == NoItem \notin Items
  BY ItemsAssumption DEF NoItem

\* An item in the list is one of Items
LEMMA LinkedItems == ASSUME NEW c \in CacheType PROVE Linked(c) \in SUBSET Items
  <1>1. c.list \in Seq(Items)
    BY DEF CacheType
  <1>. QED BY <1>1 DEF Linked, ToSet

\* The usage of items is a number; it is that of their sizes alone, and adds up.
LEMMA UsageOfNat ==
    ASSUME NEW c \in CacheType, NEW S \in SUBSET Items
    PROVE  UsageOf(c, S) \in Nat
  <1>1. IsFiniteSet(S)
    BY ItemsAssumption, FS_Subset
  <1>2. \A i \in S : [j \in Items |-> c.item[j].size][i] \in Nat
    BY DEF CacheType, ItemType
  <1>. QED BY <1>1, <1>2, SumNat DEF UsageOf

LEMMA UsageOfSame ==
    ASSUME NEW c \in CacheType, NEW d \in CacheType, NEW S \in SUBSET Items,
           \A i \in S : d.item[i].size = c.item[i].size
    PROVE  UsageOf(d, S) = UsageOf(c, S)
  <1> DEFINE f == [j \in Items |-> c.item[j].size]
             g == [j \in Items |-> d.item[j].size]
  <1>1. IsFiniteSet(S)
    BY ItemsAssumption, FS_Subset
  <1>2. \A i \in S : f[i] \in Int /\ g[i] = f[i]
    BY DEF CacheType, ItemType
  <1>. HIDE DEF f, g
  <1>3. SumFunctionOnSet(g, S) = SumFunctionOnSet(f, S)
    BY <1>1, <1>2, SumSame
  <1>. QED BY <1>3 DEF UsageOf, f, g

LEMMA UsageOfParts ==
    ASSUME NEW c \in CacheType, NEW S \in SUBSET Items, NEW R \in SUBSET S
    PROVE  UsageOf(c, S) = UsageOf(c, S \ R) + UsageOf(c, R)
  <1> DEFINE f == [j \in Items |-> c.item[j].size]
  <1>1. IsFiniteSet(S \ R) /\ IsFiniteSet(R) /\ (S \ R) \cap R = {} /\ (S \ R) \cup R = S
    BY ItemsAssumption, FS_Subset
  <1>2. \A i \in (S \ R) \cup R : f[i] \in Int
    BY DEF CacheType, ItemType
  <1>. HIDE DEF f
  <1>3. SumFunctionOnSet(f, (S \ R) \cup R) = SumFunctionOnSet(f, S \ R) + SumFunctionOnSet(f, R)
    BY <1>1, <1>2, SumUnion
  <1>. QED BY <1>1, <1>3 DEF UsageOf, f

LEMMA UsageOfOne ==
    ASSUME NEW c \in CacheType, NEW i \in Items
    PROVE  UsageOf(c, {i}) = c.item[i].size /\ UsageOf(c, {}) = 0
  <1> DEFINE f == [j \in Items |-> c.item[j].size]
  <1>1. f[i] \in Int /\ f[i] = c.item[i].size
    BY DEF CacheType, ItemType
  <1>. HIDE DEF f
  <1>2. SumFunctionOnSet(f, {i}) = f[i] + SumFunctionOnSet(f, {i} \ {i})
    BY <1>1, FS_Singleton, SumPick
  <1>3. {i} \ {i} = {} /\ SumFunctionOnSet(f, {}) = 0
    BY SumEmpty
  <1>4. SumFunctionOnSet(f, {i}) = f[i] + 0
    BY <1>2, <1>3
  <1>. QED BY <1>1, <1>3, <1>4 DEF UsageOf, f

\* Collect only forgets items outside of the list.
LEMMA CollectIs ==
    ASSUME NEW c \in CacheType
    PROVE  /\ Collect(c) \in CacheType
           /\ Collect(c).map = c.map /\ Collect(c).list = c.list /\ Collect(c).usage = c.usage
           /\ \A i \in Items : Collect(c).item[i] = IF i \in Linked(c) \/ c.item[i].load # "none"
                                                    THEN c.item[i] ELSE Vacant
  <1> DEFINE items == [i \in Items |-> IF i \in Linked(c) \/ c.item[i].load # "none" THEN c.item[i] ELSE Vacant]
  <1>1. Vacant \in ItemType
    BY DEF Vacant, ItemType
  <1>2. items \in [Items -> ItemType]
    BY <1>1 DEF CacheType
  <1>3. Collect(c) = [c EXCEPT !.item = items]
    BY DEF Collect
  <1>. HIDE DEF items
  <1>4. Collect(c) \in CacheType /\ Collect(c).item = items
        /\ Collect(c).map = c.map /\ Collect(c).list = c.list /\ Collect(c).usage = c.usage
    BY <1>2, <1>3 DEF CacheType
  <1>. QED BY <1>4 DEF items

\* Without is what KeptOf is.
LEMMA WithoutIs ==
    ASSUME NEW A, NEW list \in Seq(A), IsInjective(list), NEW S
    PROVE  /\ Without(list, S) \in Seq(A) /\ IsInjective(Without(list, S))
           /\ ToSet(Without(list, S)) = ToSet(list) \ S
  <1>1. Without(list, S) = KeptOf(list, S)
    BY DEF Without, KeptOf
  <1>. QED BY <1>1, KeptIs

\* Unlink takes the items of S off the list and the map.
LEMMA UnlinkIs ==
    ASSUME NEW c \in CacheType, IsInjective(c.list), NEW S
    PROVE  /\ Unlink(c, S) \in CacheType /\ IsInjective(Unlink(c, S).list)
           /\ Linked(Unlink(c, S)) = Linked(c) \ S
           /\ Unlink(c, S).usage = c.usage
           /\ \A k \in CacheKeys : Unlink(c, S).map[k] = IF \E i \in S : c.item[i].id = k THEN NoItem ELSE c.map[k]
           /\ \A i \in Items : Unlink(c, S).item[i] = IF i \in Linked(c) \ S \/ c.item[i].load # "none"
                                                      THEN c.item[i] ELSE Vacant
  <1> DEFINE map  == [k \in CacheKeys |-> IF \E i \in S : c.item[i].id = k THEN NoItem ELSE c.map[k]]
             list == Without(c.list, S)
             d    == [c EXCEPT !.list = list, !.map = map]
  <1>1. map \in [CacheKeys -> Items \cup {NoItem}] /\ c.list \in Seq(Items)
    BY DEF CacheType
  <1>2. list \in Seq(Items) /\ IsInjective(list) /\ ToSet(list) = Linked(c) \ S
    BY <1>1, WithoutIs DEF Linked
  <1>3. Unlink(c, S) = Collect(d)
    BY DEF Unlink
  <1>. HIDE DEF map, list
  <1>4. d \in CacheType /\ d.map = map /\ d.list = list /\ d.usage = c.usage /\ d.item = c.item
    BY <1>1, <1>2 DEF CacheType
  <1>. HIDE DEF d
  <1>5. Linked(d) = Linked(c) \ S
    BY <1>2, <1>4 DEF Linked
  <1>6. /\ Collect(d) \in CacheType
        /\ Collect(d).map = map /\ Collect(d).list = list /\ Collect(d).usage = c.usage
        /\ \A i \in Items : Collect(d).item[i] = IF i \in Linked(d) \/ c.item[i].load # "none" THEN c.item[i] ELSE Vacant
    BY <1>4, CollectIs
  <1>7. Linked(Collect(d)) = Linked(c) \ S
    BY <1>2, <1>6 DEF Linked
  <1>8. \A k \in CacheKeys : map[k] = IF \E i \in S : c.item[i].id = k THEN NoItem ELSE c.map[k]
    BY DEF map
  <1>. QED BY <1>2, <1>3, <1>5, <1>6, <1>7, <1>8

\* The last n items of a list.
LEMMA BackIs ==
    ASSUME NEW A, NEW list \in Seq(A), NEW n \in 0..Len(list)
    PROVE  ToSet(SubSeq(list, Len(list) - n + 1, Len(list))) = {list[i] : i \in (Len(list) - n + 1)..Len(list)}
  <1> DEFINE m == Len(list) - n + 1
             s == SubSeq(list, m, Len(list))
  <1>1. Len(list) \in Nat /\ m \in 1..(Len(list) + 1) /\ Len(list) - m + 1 = n
    OBVIOUS
  <1>2. \A i \in m..Len(list) : list[i] \in A
    BY <1>1
  <1>3. s \in Seq(A) /\ Len(s) = (IF m <= Len(list) THEN Len(list) - m + 1 ELSE 0)
        /\ \A i \in 1..(Len(list) - m + 1) : s[i] = list[m + i - 1]
    BY <1>1, <1>2, SubSeqProperties
  <1>4. Len(s) = n /\ DOMAIN s = 1..n /\ \A i \in 1..n : s[i] = list[m + i - 1]
    BY <1>1, <1>3
  <1>. HIDE DEF m, s
  <1>5. \A i \in 1..n : m + i - 1 \in m..Len(list)
    BY <1>1
  <1>6. \A i \in m..Len(list) : i - m + 1 \in 1..n /\ m + (i - m + 1) - 1 = i
    BY <1>1
  <1>7. {s[i] : i \in 1..n} = {list[i] : i \in m..Len(list)}
    BY <1>4, <1>5, <1>6
  <1>. QED BY <1>4, <1>7 DEF m, s, ToSet

\* What _update_usage drops: enough, and not the first item if it fits alone.
Dropped(c, diff, S) ==
    /\ S \subseteq Linked(c)
    /\ UpdateUsage(c, diff) = [Unlink(c, S) EXCEPT !.usage = c.usage + diff - UsageOf(c, S)]
    /\ c.usage + diff - UsageOf(c, S) <= MaxUsage \/ S = Linked(c)
    /\ Len(c.list) # 0 /\ c.usage + diff - UsageOf(c, Linked(c) \ {c.list[1]}) <= MaxUsage => c.list[1] \notin S

LEMMA UpdateUsageDrops ==
    ASSUME NEW c \in CacheType, IsInjective(c.list), NEW diff \in Int
    PROVE  \E S \in SUBSET Linked(c) : Dropped(c, diff, S)
  <1> DEFINE len     == Len(c.list)
             Back(n) == ToSet(SubSeq(c.list, len - n + 1, len))
             Rest(n) == c.usage + diff - UsageOf(c, Back(n))
             Ok(n)   == (Rest(n) <= MaxUsage \/ n = len) /\ \A m \in 0..(n - 1) : Rest(m) > MaxUsage
             n       == CHOOSE n \in 0..len : Ok(n)
             Fit     == {k \in 0..len : Rest(k) <= MaxUsage \/ k = len}
  <1>1. c.list \in Seq(Items) /\ len \in Nat /\ DOMAIN c.list = 1..len /\ c.usage \in Int /\ MaxUsage \in Int
    BY MaxUsageAssumption DEF CacheType
  <1>2. \A k \in 0..len : Back(k) = {c.list[i] : i \in (len - k + 1)..len}
    BY <1>1, BackIs
  <1>3. \A k \in 0..len : Back(k) \subseteq Linked(c)
    <2>1. ASSUME NEW k \in 0..len, NEW i \in (len - k + 1)..len PROVE i \in 1..len
      BY <1>1
    <2>. QED BY <1>1, <1>2, <2>1 DEF Linked, ToSet
  <1>4. \A k \in 0..len : Back(k) \in SUBSET Items
    BY <1>3, LinkedItems
  <1>. HIDE DEF Back
  <1>5. \A k \in 0..len : Rest(k) \in Int
    <2>1. \A k \in 0..len : UsageOf(c, Back(k)) \in Nat
      BY <1>4, UsageOfNat
    <2>. QED BY <1>1, <2>1
  <1>. HIDE DEF Rest
  <1>6. PICK k \in Fit : \A j \in Fit : k <= j
    <2>1. Fit \subseteq Nat /\ len \in Fit
      BY <1>1
    <2>. HIDE DEF Fit
    <2>. QED BY <2>1, NatMin
  <1>7. k \in 0..len /\ Ok(k)
    <2>1. k \in 0..len /\ (Rest(k) <= MaxUsage \/ k = len)
      BY <1>6
    <2>2. ASSUME NEW m \in 0..(k - 1) PROVE Rest(m) > MaxUsage
      <3>1. m \in 0..len /\ m # len /\ ~(k <= m) /\ len \in Nat
        BY <1>1, <2>1
      <3>2. m \notin Fit
        BY <1>6, <3>1
      <3>. QED BY <3>1, <3>2, <1>1, <1>5
    <2>. QED BY <2>1, <2>2
  <1>8. n \in 0..len /\ Ok(n)
    <2>. HIDE DEF Ok
    <2>. QED BY <1>7
  <1>9. UpdateUsage(c, diff) = [Unlink(c, Back(n)) EXCEPT !.usage = Rest(n)]
    BY DEF UpdateUsage, Back, Rest
  <1>. HIDE DEF n
  <1>10. n = len => Back(n) = Linked(c)
    <2>1. Linked(c) = {c.list[i] : i \in 1..len}
      BY <1>1 DEF Linked, ToSet
    <2>2. len - len + 1 = 1 /\ len \in 0..len
      BY <1>1
    <2>. QED BY <1>2, <2>1, <2>2
  <1>11. ASSUME len # 0, c.usage + diff - UsageOf(c, Linked(c) \ {c.list[1]}) <= MaxUsage
         PROVE  c.list[1] \notin Back(n)
    <2>1. len - 1 \in 0..len /\ len - (len - 1) + 1 = 2
      BY <1>1, <1>11
    <2>2. Back(len - 1) = {c.list[i] : i \in 2..len}
      BY <1>2, <2>1
    <2>3. {c.list[i] : i \in 2..len} = Linked(c) \ {c.list[1]}
      <3>1. Linked(c) = {c.list[i] : i \in 1..len}
        BY <1>1 DEF Linked, ToSet
      <3>2. \A i \in 1..len : i = 1 \/ i \in 2..len
        BY <1>1
      <3>3. \A i \in 2..len : i \in 1..len /\ i # 1 /\ 1 \in 1..len
        BY <1>1
      <3>4. \A i \in 2..len : c.list[i] # c.list[1]
        BY <1>1, <3>3 DEF IsInjective
      <3>. QED BY <3>1, <3>2, <3>3, <3>4
    <2>4. Rest(len - 1) <= MaxUsage
      BY <1>11, <2>2, <2>3 DEF Rest
    <2>5. n <= len - 1
      <3>1. n \in 0..len /\ len \in Nat
        BY <1>1, <1>8
      <3>2. ASSUME n = len PROVE FALSE
        <4>1. len - 1 \in 0..(n - 1)
          BY <3>1, <3>2, <1>11
        <4>2. Rest(len - 1) > MaxUsage
          BY <4>1, <1>8
        <4>3. Rest(len - 1) \in Int
          BY <1>5, <2>1
        <4>. QED BY <4>2, <4>3, <2>4, <1>1
      <3>. QED BY <3>1, <3>2
    <2>6. \A i \in (len - n + 1)..len : i \in 1..len /\ i # 1
      BY <1>1, <1>8, <2>5
    <2>7. \A i \in (len - n + 1)..len : c.list[i] # c.list[1]
      <3>1. 1 \in 1..len
        BY <1>1, <1>11
      <3>. QED BY <1>1, <2>6, <3>1 DEF IsInjective
    <2>. QED BY <1>2, <1>8, <2>7
  <1>12. Dropped(c, diff, Back(n))
    <2>1. Back(n) \subseteq Linked(c)
      BY <1>3, <1>8
    <2>2. c.usage + diff - UsageOf(c, Back(n)) <= MaxUsage \/ Back(n) = Linked(c)
      BY <1>8, <1>10 DEF Rest
    <2>. QED BY <1>9, <1>11, <2>1, <2>2 DEF Dropped, Rest
  <1>. QED BY <1>3, <1>8, <1>12

\* A cache that loses items of its list keeps its shape, and gains nothing.
LEMMA UnlinkShape ==
    ASSUME NEW c, Shape(c), NEW S \in SUBSET Linked(c)
    PROVE  /\ Shape(Unlink(c, S)) /\ NoMore(c, Unlink(c, S))
           /\ Linked(Unlink(c, S)) = Linked(c) \ S
           /\ UsageOf(Unlink(c, S), Linked(c) \ S) = UsageOf(c, Linked(c)) - UsageOf(c, S)
           /\ Unlink(c, S).usage = c.usage
           /\ \A k \in CacheKeys : c.map[k] \in Linked(c) \ S => Unlink(c, S).map[k] = c.map[k]
           /\ \A k \in CacheKeys : Unlink(c, S).map[k] # NoItem => Unlink(c, S).map[k] = c.map[k] /\ c.map[k] \notin S
           /\ \A i \in Linked(c) \ S : Unlink(c, S).item[i] = c.item[i]
  <1> DEFINE d == Unlink(c, S)
  <1>0. c \in CacheType /\ IsInjective(c.list)
    BY DEF Shape
  <1>1. /\ d \in CacheType /\ IsInjective(d.list) /\ d.usage = c.usage
        /\ Linked(d) = Linked(c) \ S
        /\ \A k \in CacheKeys : d.map[k] = IF \E i \in S : c.item[i].id = k THEN NoItem ELSE c.map[k]
        /\ \A i \in Items : d.item[i] = IF i \in Linked(c) \ S \/ c.item[i].load # "none" THEN c.item[i] ELSE Vacant
    BY <1>0, UnlinkIs
  <1>. HIDE DEF d
  <1>2. Linked(c) \in SUBSET Items
    BY <1>0, LinkedItems
  <1>3. \A i \in Linked(c) \ S : d.item[i] = c.item[i]
    BY <1>1, <1>2
  <1>4. ASSUME NEW k \in CacheKeys, d.map[k] # NoItem
        PROVE  d.map[k] = c.map[k] /\ c.map[k] \in Linked(c) \ S /\ c.item[c.map[k]].id = k
    <2>1. d.map[k] = c.map[k] /\ ~\E i \in S : c.item[i].id = k
      BY <1>1, <1>4
    <2>2. c.map[k] \in Linked(c) /\ c.item[c.map[k]].id = k
      BY <2>1, <1>4 DEF Shape
    <2>. QED BY <2>1, <2>2
  <1>5. \A k \in CacheKeys : c.map[k] \in Linked(c) \ S => d.map[k] = c.map[k]
    <2>. SUFFICES ASSUME NEW k \in CacheKeys, c.map[k] \in Linked(c) \ S, NEW i \in S, c.item[i].id = k PROVE FALSE
      BY <1>1
    <2>1. c.map[k] = i
      BY DEF Shape
    <2>. QED BY <2>1
  <1>6. \A i \in Linked(d) : d.item[i].id \in CacheKeys /\ d.map[d.item[i].id] = i
    <2>. SUFFICES ASSUME NEW i \in Linked(d) PROVE d.item[i].id \in CacheKeys /\ d.map[d.item[i].id] = i
      OBVIOUS
    <2>1. i \in Linked(c) \ S /\ d.item[i] = c.item[i]
      BY <1>1, <1>3
    <2>2. c.item[i].id \in CacheKeys /\ c.map[c.item[i].id] = i
      BY <2>1 DEF Shape
    <2>. QED BY <2>1, <2>2, <1>5
  <1>7. \A i \in Linked(d) : d.item[i].data = TRUE \/ d.item[i].size = 1
    BY <1>1, <1>3 DEF Shape
  <1>8. \A k \in CacheKeys : d.map[k] # NoItem => d.map[k] \in Linked(d) /\ d.item[d.map[k]].id = k
    BY <1>1, <1>3, <1>4
  <1>9. \A i \in Items : d.item[i].load # "none" => d.item[i].id \in CacheKeys
    <2>. SUFFICES ASSUME NEW i \in Items, d.item[i].load # "none" PROVE d.item[i].id \in CacheKeys
      OBVIOUS
    <2>1. Vacant.load = "none"
      BY DEF Vacant
    <2>2. d.item[i] = c.item[i]
      BY <1>1, <2>1
    <2>. QED BY <2>2 DEF Shape
  <1>10. Shape(d)
    BY <1>1, <1>6, <1>7, <1>8, <1>9 DEF Shape
  <1>11. NoMore(c, d)
    <2>. SUFFICES ASSUME NEW b \in CacheKeys, Held(d, b) PROVE Held(c, b)
      BY DEF NoMore
    <2>1. d.map[b] # NoItem
      BY DEF Held
    <2>2. d.map[b] = c.map[b] /\ d.item[d.map[b]] = c.item[c.map[b]]
      BY <2>1, <1>3, <1>4
    <2>. QED BY <2>2 DEF Held, HeldItem
  <1>12. UsageOf(d, Linked(c) \ S) = UsageOf(c, Linked(c)) - UsageOf(c, S)
    <2>1. UsageOf(d, Linked(c) \ S) = UsageOf(c, Linked(c) \ S)
      BY <1>0, <1>1, <1>2, <1>3, UsageOfSame
    <2>2. UsageOf(c, Linked(c)) = UsageOf(c, Linked(c) \ S) + UsageOf(c, S)
      BY <1>0, <1>2, UsageOfParts
    <2>3. UsageOf(c, Linked(c) \ S) \in Nat /\ UsageOf(c, S) \in Nat
      <3>1. Linked(c) \ S \in SUBSET Items /\ S \in SUBSET Items
        BY <1>2
      <3>. QED BY <1>0, <3>1, UsageOfNat
    <2>. QED BY <2>1, <2>2, <2>3
  <1>. QED BY <1>1, <1>3, <1>4, <1>5, <1>10, <1>11, <1>12 DEF d

\* The usage alone says nothing of the shape.
LEMMA UsageShape ==
    ASSUME NEW c, Shape(c), NEW u \in Int
    PROVE  /\ Shape([c EXCEPT !.usage = u]) /\ NoMore(c, [c EXCEPT !.usage = u])
           /\ [c EXCEPT !.usage = u].map = c.map /\ [c EXCEPT !.usage = u].item = c.item
           /\ [c EXCEPT !.usage = u].list = c.list /\ [c EXCEPT !.usage = u].usage = u
           /\ Linked([c EXCEPT !.usage = u]) = Linked(c)
           /\ \A S \in SUBSET Items : UsageOf([c EXCEPT !.usage = u], S) = UsageOf(c, S)
  <1> DEFINE d == [c EXCEPT !.usage = u]
  <1>1. c \in CacheType
    BY DEF Shape
  <1>2. d \in CacheType /\ d.map = c.map /\ d.item = c.item /\ d.list = c.list /\ d.usage = u
    BY <1>1 DEF CacheType
  <1>. HIDE DEF d
  <1>3. Linked(d) = Linked(c)
    BY <1>2 DEF Linked
  <1>4. Shape(d)
    BY <1>2, <1>3 DEF Shape
  <1>5. NoMore(c, d)
    BY <1>2 DEF NoMore, Held, HeldItem
  <1>6. \A S \in SUBSET Items : UsageOf(d, S) = UsageOf(c, S)
    BY <1>2 DEF UsageOf
  <1>. QED BY <1>2, <1>3, <1>4, <1>5, <1>6 DEF d

\* _update_usage: with the change accounted the cache agrees again, within its limit; it
\* gains nothing, and keeps its first item if that fits alone.
LEMMA UpdateUsageKeeps ==
    ASSUME NEW c, Shape(c), NEW diff \in Int, c.usage + diff = UsageOf(c, Linked(c))
    PROVE  /\ CacheInv(UpdateUsage(c, diff)) /\ NoMore(c, UpdateUsage(c, diff))
           /\ \A k \in CacheKeys : UpdateUsage(c, diff).map[k] # NoItem => UpdateUsage(c, diff).map[k] = c.map[k]
           /\ \A i \in Linked(UpdateUsage(c, diff)) : i \in Linked(c) /\ UpdateUsage(c, diff).item[i] = c.item[i]
           /\ \A k \in CacheKeys : Len(c.list) # 0 /\ c.map[k] = c.list[1] /\ c.item[c.list[1]].size <= MaxUsage
                                      => UpdateUsage(c, diff).map[k] = c.list[1]
  <1>0. c \in CacheType /\ IsInjective(c.list) /\ Linked(c) \in SUBSET Items /\ MaxUsage \in Nat
    BY LinkedItems, MaxUsageAssumption DEF Shape
  <1>1. PICK S \in SUBSET Linked(c) : Dropped(c, diff, S)
    BY <1>0, UpdateUsageDrops
  <1> DEFINE u == c.usage + diff - UsageOf(c, S)
             e == Unlink(c, S)
             d == [e EXCEPT !.usage = u]
  <1>2. UpdateUsage(c, diff) = d
    BY <1>1 DEF Dropped
  <1>3. u \in Int /\ u = UsageOf(c, Linked(c)) - UsageOf(c, S)
    <2>1. UsageOf(c, S) \in Nat /\ c.usage \in Int
      BY <1>0, UsageOfNat DEF CacheType
    <2>. QED BY <2>1
  <1>4. /\ Shape(e) /\ NoMore(c, e)
        /\ Linked(e) = Linked(c) \ S
        /\ UsageOf(e, Linked(c) \ S) = UsageOf(c, Linked(c)) - UsageOf(c, S)
        /\ \A k \in CacheKeys : c.map[k] \in Linked(c) \ S => e.map[k] = c.map[k]
        /\ \A k \in CacheKeys : e.map[k] # NoItem => e.map[k] = c.map[k] /\ c.map[k] \notin S
        /\ \A i \in Linked(c) \ S : e.item[i] = c.item[i]
    BY UnlinkShape
  <1>5. u <= MaxUsage
    <2>1. CASE u <= MaxUsage
      BY <2>1
    <2>2. CASE S = Linked(c)
      <3>1. u = 0
        <4>1. UsageOf(c, Linked(c)) \in Nat
          BY <1>0, UsageOfNat
        <4>. QED BY <4>1, <2>2, <1>3
      <3>. QED BY <3>1, <1>0
    <2>. QED BY <2>1, <2>2, <1>1 DEF Dropped
  <1>6. ASSUME NEW k \in CacheKeys, Len(c.list) # 0, c.map[k] = c.list[1], c.item[c.list[1]].size <= MaxUsage
        PROVE  c.list[1] \in Linked(c) \ S
    <2>1. c.list[1] \in Linked(c)
      <3>1. c.list \in Seq(Items)
        BY <1>0 DEF CacheType
      <3>. QED BY <3>1, <1>6 DEF Linked, ToSet
    <2> DEFINE i == c.list[1]
    <2>2. UsageOf(c, Linked(c)) = UsageOf(c, Linked(c) \ {i}) + UsageOf(c, {i})
      BY <1>0, <2>1, UsageOfParts
    <2>3. UsageOf(c, {i}) = c.item[i].size
      BY <1>0, <2>1, UsageOfOne
    <2>4. UsageOf(c, Linked(c) \ {i}) \in Nat /\ c.item[i].size \in Nat
      <3>1. i \in Items
        BY <1>0, <2>1
      <3>. QED BY <1>0, <3>1, UsageOfNat DEF CacheType, ItemType
    <2>5. c.usage + diff - UsageOf(c, Linked(c) \ {i}) <= MaxUsage
      <3> DEFINE all  == c.usage + diff
                 rest == UsageOf(c, Linked(c) \ {i})
                 own  == c.item[i].size
      <3>1. all = rest + own /\ rest \in Nat /\ own \in Nat /\ own <= MaxUsage
        BY <2>2, <2>3, <2>4, <1>6
      <3>2. c.usage \in Int /\ diff \in Int /\ all = c.usage + diff
        BY <1>0 DEF CacheType
      <3>. HIDE DEF all, rest, own
      <3>3. c.usage + diff - rest <= MaxUsage
        BY <3>1, <3>2, <1>0
      <3>. QED BY <3>3 DEF rest
    <2>6. i \notin S
      BY <2>5, <1>1, <1>6 DEF Dropped
    <2>. QED BY <2>1, <2>6
  <1>. HIDE DEF u, e
  <1>7. /\ Shape(d) /\ NoMore(e, d) /\ d.map = e.map /\ d.item = e.item /\ d.usage = u
        /\ Linked(d) = Linked(e)
        /\ \A R \in SUBSET Items : UsageOf(d, R) = UsageOf(e, R)
    BY <1>3, <1>4, UsageShape
  <1>. HIDE DEF d
  <1>8. Accounted(d)
    <2>1. Linked(c) \ S \in SUBSET Items
      BY <1>0
    <2>. QED BY <1>3, <1>4, <1>7, <2>1 DEF Accounted
  <1>9. CacheInv(d)
    BY <1>5, <1>7, <1>8 DEF CacheInv
  <1>10. NoMore(c, d)
    BY <1>4, <1>7 DEF NoMore
  <1>11. \A k \in CacheKeys : d.map[k] # NoItem => d.map[k] = c.map[k]
    BY <1>4, <1>7
  <1>12. \A i \in Linked(d) : i \in Linked(c) /\ d.item[i] = c.item[i]
    BY <1>4, <1>7
  <1>13. \A k \in CacheKeys : Len(c.list) # 0 /\ c.map[k] = c.list[1] /\ c.item[c.list[1]].size <= MaxUsage
                                 => d.map[k] = c.list[1]
    BY <1>4, <1>6, <1>7
  <1>. QED BY <1>2, <1>9, <1>10, <1>11, <1>12, <1>13

\* An item gets another state and, by set_usage, another size.
LEMMA ItemShape ==
    ASSUME NEW c, Shape(c), NEW i \in Items, NEW t \in ItemType,
           t.id = c.item[i].id,
           i \in Linked(c) => t.data = TRUE \/ t.size = 1,
           t.load # "none" => t.id \in CacheKeys
    PROVE  /\ Shape([c EXCEPT !.item[i] = t])
           /\ [c EXCEPT !.item[i] = t].map = c.map /\ [c EXCEPT !.item[i] = t].list = c.list
           /\ [c EXCEPT !.item[i] = t].usage = c.usage
           /\ Linked([c EXCEPT !.item[i] = t]) = Linked(c)
           /\ \A j \in Items : [c EXCEPT !.item[i] = t].item[j] = IF j = i THEN t ELSE c.item[j]
  <1> DEFINE d == [c EXCEPT !.item[i] = t]
  <1>1. c \in CacheType
    BY DEF Shape
  <1>2. /\ d \in CacheType /\ d.map = c.map /\ d.list = c.list /\ d.usage = c.usage
        /\ \A j \in Items : d.item[j] = IF j = i THEN t ELSE c.item[j]
    BY <1>1 DEF CacheType
  <1>. HIDE DEF d
  <1>3. Linked(d) = Linked(c) /\ Linked(c) \in SUBSET Items
    BY <1>1, <1>2, LinkedItems DEF Linked
  <1>4. \A j \in Items : d.item[j].id = c.item[j].id
    BY <1>2
  <1>5. \A j \in Linked(d) : d.item[j].id \in CacheKeys /\ d.map[d.item[j].id] = j
    BY <1>2, <1>3, <1>4 DEF Shape
  <1>6. \A j \in Linked(d) : d.item[j].data = TRUE \/ d.item[j].size = 1
    BY <1>2, <1>3 DEF Shape
  <1>7. \A k \in CacheKeys : d.map[k] # NoItem => d.map[k] \in Linked(d) /\ d.item[d.map[k]].id = k
    BY <1>2, <1>3, <1>4 DEF Shape
  <1>8. \A j \in Items : d.item[j].load # "none" => d.item[j].id \in CacheKeys
    BY <1>2 DEF Shape
  <1>9. Shape(d)
    BY <1>2, <1>3, <1>5, <1>6, <1>7, <1>8 DEF Shape
  <1>. QED BY <1>2, <1>3, <1>9 DEF d

\* ... of the same size: the usage is what it was.
LEMMA ItemKeeps ==
    ASSUME NEW c, CacheInv(c), NEW i \in Items, NEW t \in ItemType,
           t.id = c.item[i].id, t.size = c.item[i].size,
           i \in Linked(c) => t.data = TRUE \/ t.size = 1,
           t.load # "none" => t.id \in CacheKeys
    PROVE  CacheInv([c EXCEPT !.item[i] = t])
  <1> DEFINE d == [c EXCEPT !.item[i] = t]
  <1>0. Shape(c) /\ c \in CacheType /\ Linked(c) \in SUBSET Items
    BY LinkedItems DEF CacheInv, Shape
  <1>1. /\ Shape(d) /\ d.map = c.map /\ d.list = c.list /\ d.usage = c.usage /\ Linked(d) = Linked(c)
        /\ \A j \in Items : d.item[j] = IF j = i THEN t ELSE c.item[j]
    BY <1>0, ItemShape
  <1>. HIDE DEF d
  <1>2. d \in CacheType /\ \A j \in Linked(c) : d.item[j].size = c.item[j].size
    BY <1>0, <1>1 DEF Shape
  <1>3. UsageOf(d, Linked(c)) = UsageOf(c, Linked(c))
    BY <1>0, <1>2, UsageOfSame
  <1>4. CacheInv(d)
    BY <1>1, <1>3 DEF CacheInv, Accounted
  <1>. QED BY <1>4 DEF d

\* set_usage keeps the agreement, and gains nothing. The cache may hold no more than
\* before, but for the item.
LEMMA SetUsageKeeps ==
    ASSUME NEW c, CacheInv(c), NEW i \in Items, NEW size \in Nat,
           i \in Linked(c) => c.item[i].data = TRUE
    PROVE  CacheInv(SetUsage(c, i, size)) /\ NoMore(c, SetUsage(c, i, size))
           /\ (i \notin Linked(c) => i \notin Linked(SetUsage(c, i, size)))
           /\ \A k \in CacheKeys : SetUsage(c, i, size).map[k] # NoItem => SetUsage(c, i, size).map[k] = c.map[k]
  <1> DEFINE t == [c.item[i] EXCEPT !.size = size]
             d == [c EXCEPT !.item[i].size = size]
  <1>0. Shape(c) /\ c \in CacheType /\ Linked(c) \in SUBSET Items /\ c.item[i] \in ItemType
    BY LinkedItems DEF CacheInv, Shape, CacheType
  <1>1. t \in ItemType /\ t.id = c.item[i].id /\ t.load = c.item[i].load /\ t.data = c.item[i].data /\ t.size = size
    BY <1>0 DEF ItemType
  <1>2. d = [c EXCEPT !.item[i] = t]
    OBVIOUS
  <1>. HIDE DEF t, d
  <1>3. t.load # "none" => t.id \in CacheKeys
    BY <1>0, <1>1 DEF Shape
  <1>4. i \in Linked(c) => t.data = TRUE \/ t.size = 1
    BY <1>1
  <1>5. /\ Shape(d) /\ d.map = c.map /\ d.list = c.list /\ d.usage = c.usage /\ Linked(d) = Linked(c)
        /\ \A j \in Items : d.item[j] = IF j = i THEN t ELSE c.item[j]
    BY <1>0, <1>1, <1>2, <1>3, <1>4, ItemShape
  <1>6. NoMore(c, d)
    <2>. SUFFICES ASSUME NEW b \in CacheKeys, Held(d, b) PROVE Held(c, b)
      BY DEF NoMore
    <2>1. c.map[b] # NoItem /\ d.map[b] = c.map[b] /\ c.map[b] \in Items
      BY <1>0, <1>5 DEF Held, CacheType
    <2>2. d.item[c.map[b]].data = c.item[c.map[b]].data /\ d.item[c.map[b]].load = c.item[c.map[b]].load
      BY <2>1, <1>1, <1>5
    <2>. QED BY <2>1, <2>2 DEF Held, HeldItem
  <1>7. d \in CacheType
    BY <1>5 DEF Shape
  <1>8. CASE i \in Linked(c)
    <2> DEFINE diff == size - c.item[i].size
    <2>1. SetUsage(c, i, size) = UpdateUsage(d, diff)
      BY <1>8 DEF SetUsage, d
    <2>2. c.item[i].size \in Nat /\ diff \in Int
      BY <1>0 DEF ItemType
    <2>3. UsageOf(c, Linked(c)) = UsageOf(c, Linked(c) \ {i}) + c.item[i].size
      <3>1. UsageOf(c, Linked(c)) = UsageOf(c, Linked(c) \ {i}) + UsageOf(c, {i})
        BY <1>0, <1>8, UsageOfParts
      <3>2. UsageOf(c, {i}) = c.item[i].size
        BY <1>0, UsageOfOne
      <3>. QED BY <3>1, <3>2
    <2>4. UsageOf(d, Linked(c)) = UsageOf(d, Linked(c) \ {i}) + size
      <3>1. UsageOf(d, Linked(c)) = UsageOf(d, Linked(c) \ {i}) + UsageOf(d, {i})
        BY <1>0, <1>7, <1>8, UsageOfParts
      <3>2. UsageOf(d, {i}) = size
        BY <1>1, <1>5, <1>7, UsageOfOne
      <3>. QED BY <3>1, <3>2
    <2>5. UsageOf(d, Linked(c) \ {i}) = UsageOf(c, Linked(c) \ {i})
      <3>1. Linked(c) \ {i} \in SUBSET Items /\ \A j \in Linked(c) \ {i} : d.item[j].size = c.item[j].size
        BY <1>0, <1>5
      <3>. QED BY <1>0, <1>7, <3>1, UsageOfSame
    <2>6. UsageOf(c, Linked(c) \ {i}) \in Nat
      BY <1>0, UsageOfNat
    <2>7. d.usage + diff = UsageOf(d, Linked(d))
      <3>1. d.usage = UsageOf(c, Linked(c))
        BY <1>5 DEF CacheInv, Accounted
      <3>. QED BY <3>1, <2>2, <2>3, <2>4, <2>5, <2>6, <1>5
    <2>. HIDE DEF diff
    <2>8. /\ CacheInv(UpdateUsage(d, diff)) /\ NoMore(d, UpdateUsage(d, diff))
          /\ \A k \in CacheKeys : UpdateUsage(d, diff).map[k] # NoItem => UpdateUsage(d, diff).map[k] = d.map[k]
      BY <1>5, <2>2, <2>7, UpdateUsageKeeps
    <2>. QED BY <2>1, <2>8, <1>5, <1>6, <1>8 DEF NoMore
  <1>9. CASE i \notin Linked(c)
    <2>1. SetUsage(c, i, size) = d
      BY <1>9 DEF SetUsage, d
    <2>2. UsageOf(d, Linked(c)) = UsageOf(c, Linked(c))
      <3>1. \A j \in Linked(c) : d.item[j].size = c.item[j].size
        BY <1>0, <1>5, <1>9
      <3>. QED BY <1>0, <1>7, <3>1, UsageOfSame
    <2>3. CacheInv(d)
      BY <2>2, <1>5 DEF CacheInv, Accounted
    <2>. QED BY <2>1, <2>3, <1>5, <1>6, <1>9
  <1>. QED BY <1>8, <1>9

\* Collect keeps the agreement.
LEMMA CollectKeeps ==
    ASSUME NEW c, CacheInv(c)
    PROVE  CacheInv(Collect(c)) /\ NoMore(c, Collect(c))
  <1> DEFINE d == Collect(c)
  <1>0. Shape(c) /\ c \in CacheType /\ Linked(c) \in SUBSET Items
    BY LinkedItems DEF CacheInv, Shape
  <1>1. /\ d \in CacheType /\ d.map = c.map /\ d.list = c.list /\ d.usage = c.usage
        /\ \A i \in Items : d.item[i] = IF i \in Linked(c) \/ c.item[i].load # "none" THEN c.item[i] ELSE Vacant
    BY <1>0, CollectIs
  <1>. HIDE DEF d
  <1>2. Linked(d) = Linked(c) /\ \A i \in Linked(c) : d.item[i] = c.item[i]
    BY <1>0, <1>1 DEF Linked
  <1>3. \A i \in Items : d.item[i].load # "none" => d.item[i].id \in CacheKeys
    <2>. SUFFICES ASSUME NEW i \in Items, d.item[i].load # "none" PROVE d.item[i].id \in CacheKeys
      OBVIOUS
    <2>1. Vacant.load = "none"
      BY DEF Vacant
    <2>2. d.item[i] = c.item[i]
      BY <1>1, <2>1
    <2>. QED BY <2>2, <1>0 DEF Shape
  <1>4. IsInjective(d.list)
    BY <1>0, <1>1 DEF Shape
  <1>5. \A i \in Linked(d) : d.item[i].id \in CacheKeys /\ d.map[d.item[i].id] = i
    BY <1>0, <1>1, <1>2 DEF Shape
  <1>6. \A i \in Linked(d) : d.item[i].data = TRUE \/ d.item[i].size = 1
    BY <1>0, <1>2 DEF Shape
  <1>7. \A k \in CacheKeys : d.map[k] # NoItem => d.map[k] = c.map[k] /\ d.map[k] \in Linked(d) /\ d.item[d.map[k]] = c.item[c.map[k]]
                                                  /\ d.item[d.map[k]].id = k
    BY <1>0, <1>1, <1>2 DEF Shape
  <1>8. Shape(d)
    BY <1>1, <1>3, <1>4, <1>5, <1>6, <1>7 DEF Shape
  <1>9. UsageOf(d, Linked(c)) = UsageOf(c, Linked(c))
    BY <1>0, <1>1, <1>2, UsageOfSame
  <1>10. CacheInv(d)
    BY <1>1, <1>2, <1>8, <1>9 DEF CacheInv, Accounted
  <1>11. NoMore(c, d)
    BY <1>7 DEF NoMore, Held, HeldItem
  <1>. QED BY <1>10, <1>11 DEF d

\* The item that moves, or comes, to the front of a list.
LEMMA FrontIs ==
    ASSUME NEW A, NEW list \in Seq(A), IsInjective(list), NEW x \in A, x \notin ToSet(list)
    PROVE  /\ <<x>> \o list \in Seq(A) /\ IsInjective(<<x>> \o list)
           /\ ToSet(<<x>> \o list) = ToSet(list) \cup {x}
           /\ Len(<<x>> \o list) # 0 /\ (<<x>> \o list)[1] = x
  <1> DEFINE l == <<x>> \o list
  <1>1. <<x>> \in Seq(A) /\ Len(<<x>>) = 1 /\ <<x>>[1] = x /\ Len(list) \in Nat /\ DOMAIN list = 1..Len(list)
    OBVIOUS
  <1>2. /\ l \in Seq(A) /\ Len(l) = 1 + Len(list)
        /\ \A i \in 1..(1 + Len(list)) : l[i] = IF i <= 1 THEN x ELSE list[i - 1]
    BY <1>1, ConcatProperties
  <1>. HIDE DEF l
  <1>3. DOMAIN l = 1..(1 + Len(list)) /\ l[1] = x
    BY <1>1, <1>2
  <1>4. \A i \in 2..(1 + Len(list)) : l[i] = list[i - 1] /\ i - 1 \in 1..Len(list) /\ l[i] # x
    <2>. SUFFICES ASSUME NEW i \in 2..(1 + Len(list)) PROVE l[i] = list[i - 1] /\ i - 1 \in 1..Len(list) /\ l[i] # x
      OBVIOUS
    <2>1. l[i] = list[i - 1] /\ i - 1 \in 1..Len(list)
      BY <1>1, <1>2
    <2>. QED BY <2>1, <1>1 DEF ToSet
  <1>5. \A i \in 1..(1 + Len(list)) : i = 1 \/ i \in 2..(1 + Len(list))
    BY <1>1
  <1>6. IsInjective(l)
    <2>. SUFFICES ASSUME NEW i \in DOMAIN l, NEW j \in DOMAIN l, l[i] = l[j] PROVE i = j
      BY DEF IsInjective
    <2>1. CASE i = 1
      BY <2>1, <1>3, <1>4, <1>5
    <2>2. CASE j = 1
      BY <2>2, <1>3, <1>4, <1>5
    <2>3. CASE i # 1 /\ j # 1
      <3>1. i \in 2..(1 + Len(list)) /\ j \in 2..(1 + Len(list))
        BY <2>3, <1>3, <1>5
      <3>2. list[i - 1] = list[j - 1] /\ i - 1 \in 1..Len(list) /\ j - 1 \in 1..Len(list)
        BY <3>1, <1>4
      <3>3. i - 1 = j - 1
        BY <3>2, <1>1 DEF IsInjective
      <3>. QED BY <3>1, <3>3, <1>1
    <2>. QED BY <2>1, <2>2, <2>3
  <1>7. ToSet(l) = ToSet(list) \cup {x}
    <2>1. \A i \in DOMAIN l : l[i] \in ToSet(list) \cup {x}
      BY <1>1, <1>3, <1>4, <1>5 DEF ToSet
    <2>2. \A i \in 1..Len(list) : i + 1 \in 2..(1 + Len(list)) /\ (i + 1) - 1 = i
      BY <1>1
    <2>3. \A i \in 1..Len(list) : list[i] \in ToSet(l)
      <3>. SUFFICES ASSUME NEW i \in 1..Len(list) PROVE list[i] \in ToSet(l)
        OBVIOUS
      <3>1. l[i + 1] = list[i] /\ i + 1 \in DOMAIN l
        BY <2>2, <1>1, <1>3, <1>4
      <3>. QED BY <3>1 DEF ToSet
    <2>4. x \in ToSet(l)
      <3>1. 1 \in DOMAIN l
        BY <1>1, <1>3
      <3>. QED BY <3>1, <1>3 DEF ToSet
    <2>. QED BY <2>1, <2>3, <2>4, <1>1 DEF ToSet
  <1>8. Len(l) # 0
    BY <1>1, <1>2
  <1>. QED BY <1>2, <1>3, <1>6, <1>7, <1>8 DEF l

\* find_or_add_item: the key has an item in the list then, and what a read would find for
\* any key it would have found before.
LEMMA FindOrAddKeeps ==
    ASSUME NEW c, CacheInv(c), NEW k \in CacheKeys, c.map[k] = NoItem => VacantItems(c) # {}
    PROVE  /\ CacheInv(FindOrAdd(c, k)) /\ NoMore(c, FindOrAdd(c, k))
           /\ FindOrAdd(c, k).map[k] \in Linked(FindOrAdd(c, k))
           /\ FindOrAdd(c, k).item[FindOrAdd(c, k).map[k]].id = k
  <1>0. Shape(c) /\ c \in CacheType /\ Linked(c) \in SUBSET Items /\ IsInjective(c.list) /\ c.list \in Seq(Items)
    BY LinkedItems DEF CacheInv, Shape, CacheType
  <1>1. CASE c.map[k] # NoItem
    <2> DEFINE hit  == c.map[k]
               rest == Without(c.list, {hit})
               list == <<hit>> \o rest
               d    == [c EXCEPT !.list = list]
    <2>1. FindOrAdd(c, k) = d
      BY <1>1 DEF FindOrAdd
    <2>2. hit \in Linked(c) /\ hit \in Items /\ c.item[hit].id = k
      BY <1>0, <1>1 DEF Shape
    <2>3. rest \in Seq(Items) /\ IsInjective(rest) /\ ToSet(rest) = Linked(c) \ {hit}
      BY <1>0, WithoutIs DEF Linked
    <2>. HIDE DEF hit, rest
    <2>4. hit \notin ToSet(rest)
      BY <2>3
    <2>5. list \in Seq(Items) /\ IsInjective(list) /\ ToSet(list) = (Linked(c) \ {hit}) \cup {hit}
      BY <2>2, <2>3, <2>4, FrontIs
    <2>. HIDE DEF list
    <2>6. d \in CacheType /\ d.list = list /\ d.map = c.map /\ d.item = c.item /\ d.usage = c.usage
      BY <1>0, <2>5 DEF CacheType
    <2>. HIDE DEF d
    <2>7. Linked(d) = Linked(c)
      BY <2>2, <2>5, <2>6 DEF Linked
    <2>8. Shape(d)
      BY <1>0, <2>5, <2>6, <2>7 DEF Shape
    <2>9. UsageOf(d, Linked(d)) = UsageOf(c, Linked(c))
      BY <2>6, <2>7 DEF UsageOf
    <2>10. CacheInv(d)
      BY <2>6, <2>8, <2>9 DEF CacheInv, Accounted
    <2>11. NoMore(c, d)
      BY <2>6 DEF NoMore, Held, HeldItem
    <2>12. d.map[k] \in Linked(d) /\ d.item[d.map[k]].id = k
      BY <2>2, <2>6, <2>7 DEF hit
    <2>. QED BY <2>1, <2>10, <2>11, <2>12
  <1>2. CASE c.map[k] = NoItem
    <2> DEFINE new  == CHOOSE i \in VacantItems(c) : \A j \in VacantItems(c) : i <= j
               t    == [Vacant EXCEPT !.id = k, !.size = 1]
               list == <<new>> \o c.list
               e    == [c EXCEPT !.map[k] = new, !.list = list, !.item[new] = t]
               d    == UpdateUsage(e, 1)
    <2>1. FindOrAdd(c, k) = d
      BY <1>2 DEF FindOrAdd
    <2>2. new \in VacantItems(c)
      <3>1. VacantItems(c) \subseteq Nat /\ VacantItems(c) # {}
        BY <1>2, ItemsAssumption DEF VacantItems
      <3>2. \E i \in VacantItems(c) : \A j \in VacantItems(c) : i <= j
        BY <3>1, NatMin
      <3>. QED BY <3>2
    <2>. HIDE DEF new, d
    <2>3. new \in Items /\ c.item[new] = Vacant
      BY <2>2 DEF VacantItems
    <2>4. new \notin Linked(c)
      BY <2>3, <1>0 DEF Shape, Vacant
    <2>5. t \in ItemType /\ t.id = k /\ t.size = 1 /\ t.data = FALSE /\ t.load = "none"
      BY DEF Vacant, ItemType
    <2>6. list \in Seq(Items) /\ IsInjective(list) /\ ToSet(list) = Linked(c) \cup {new} /\ Len(list) # 0 /\ list[1] = new
      BY <1>0, <2>3, <2>4, FrontIs DEF Linked
    <2>. HIDE DEF t, list
    <2>7. /\ e \in CacheType /\ e.list = list /\ e.usage = c.usage
          /\ \A b \in CacheKeys : e.map[b] = IF b = k THEN new ELSE c.map[b]
          /\ \A i \in Items : e.item[i] = IF i = new THEN t ELSE c.item[i]
      BY <1>0, <2>3, <2>5, <2>6 DEF CacheType
    <2>. HIDE DEF e
    <2>8. Linked(e) = Linked(c) \cup {new}
      BY <2>6, <2>7 DEF Linked
    <2>9. \A i \in Linked(e) : e.item[i].id \in CacheKeys /\ e.map[e.item[i].id] = i
      <3>. SUFFICES ASSUME NEW i \in Linked(e) PROVE e.item[i].id \in CacheKeys /\ e.map[e.item[i].id] = i
        OBVIOUS
      <3>1. CASE i = new
        BY <3>1, <2>3, <2>5, <2>7
      <3>2. CASE i # new
        <4>1. i \in Linked(c) /\ i \in Items /\ e.item[i] = c.item[i]
          BY <3>2, <2>7, <2>8, <1>0
        <4>2. c.item[i].id \in CacheKeys /\ c.map[c.item[i].id] = i
          BY <4>1, <1>0 DEF Shape
        <4>3. c.item[i].id # k
          BY <4>1, <4>2, <1>2, NoItemFact
        <4>. QED BY <4>1, <4>2, <4>3, <2>7
      <3>. QED BY <3>1, <3>2
    <2>10. \A i \in Linked(e) : e.item[i].data = TRUE \/ e.item[i].size = 1
      <3>. SUFFICES ASSUME NEW i \in Linked(e) PROVE e.item[i].data = TRUE \/ e.item[i].size = 1
        OBVIOUS
      <3>1. CASE i = new
        BY <3>1, <2>3, <2>5, <2>7
      <3>2. CASE i # new
        <4>1. i \in Linked(c) /\ e.item[i] = c.item[i]
          BY <3>2, <2>7, <2>8, <1>0
        <4>. QED BY <4>1, <1>0 DEF Shape
      <3>. QED BY <3>1, <3>2
    <2>11. \A b \in CacheKeys : e.map[b] # NoItem => e.map[b] \in Linked(e) /\ e.item[e.map[b]].id = b
      <3>. SUFFICES ASSUME NEW b \in CacheKeys, e.map[b] # NoItem PROVE e.map[b] \in Linked(e) /\ e.item[e.map[b]].id = b
        OBVIOUS
      <3>1. CASE b = k
        BY <3>1, <2>3, <2>5, <2>7, <2>8
      <3>2. CASE b # k
        <4>1. e.map[b] = c.map[b] /\ c.map[b] \in Linked(c) /\ c.item[c.map[b]].id = b
          BY <3>2, <2>7, <1>0 DEF Shape
        <4>2. e.item[c.map[b]] = c.item[c.map[b]]
          BY <4>1, <2>4, <2>7, <1>0
        <4>. QED BY <4>1, <4>2, <2>8
      <3>. QED BY <3>1, <3>2
    <2>12. \A i \in Items : e.item[i].load # "none" => e.item[i].id \in CacheKeys
      BY <1>0, <2>5, <2>7 DEF Shape
    <2>13. Shape(e)
      BY <2>6, <2>7, <2>9, <2>10, <2>11, <2>12 DEF Shape
    <2>14. e.usage + 1 = UsageOf(e, Linked(e))
      <3>1. Linked(e) \in SUBSET Items /\ {new} \in SUBSET Linked(e) /\ Linked(e) \ {new} = Linked(c)
        BY <2>3, <2>4, <2>8, <1>0
      <3>2. UsageOf(e, Linked(e)) = UsageOf(e, Linked(c)) + UsageOf(e, {new})
        BY <3>1, <2>7, UsageOfParts
      <3>3. UsageOf(e, {new}) = 1
        <4>1. UsageOf(e, {new}) = e.item[new].size
          BY <2>3, <2>7, UsageOfOne
        <4>. QED BY <4>1, <2>3, <2>5, <2>7
      <3>4. UsageOf(e, Linked(c)) = UsageOf(c, Linked(c))
        <4>1. \A i \in Linked(c) : e.item[i].size = c.item[i].size
          BY <2>4, <2>7, <1>0
        <4>. QED BY <4>1, <2>7, <1>0, UsageOfSame
      <3>. QED BY <3>2, <3>3, <3>4, <2>7 DEF CacheInv, Accounted
    <2>15. /\ CacheInv(d) /\ NoMore(e, d)
           /\ \A i \in Linked(d) : i \in Linked(e) /\ d.item[i] = e.item[i]
           /\ e.map[k] = e.list[1] /\ e.item[e.list[1]].size <= MaxUsage /\ Len(e.list) # 0 => d.map[k] = e.list[1]
      BY <2>13, <2>14, UpdateUsageKeeps DEF d
    <2>16. d.map[k] = new
      <3>1. e.map[k] = new /\ e.list[1] = new /\ e.item[new].size = 1 /\ Len(e.list) # 0
        BY <2>3, <2>5, <2>6, <2>7
      <3>2. 1 <= MaxUsage
        BY MaxUsageAssumption
      <3>. QED BY <2>15, <3>1, <3>2
    <2>17. d.map[k] \in Linked(d) /\ d.item[d.map[k]].id = k
      <3>1. new # NoItem
        BY <2>3, NoItemFact
      <3>. QED BY <2>15, <2>16, <3>1 DEF CacheInv, Shape
    <2>18. NoMore(c, e)
      <3>. SUFFICES ASSUME NEW b \in CacheKeys, Held(e, b) PROVE Held(c, b)
        BY DEF NoMore
      <3>1. CASE b = k
        <4>1. e.map[b] = new /\ e.item[new] = t
          BY <3>1, <2>3, <2>7
        <4>. QED BY <4>1, <2>5 DEF Held, HeldItem
      <3>2. CASE b # k
        <4>1. e.map[b] = c.map[b] /\ c.map[b] # NoItem
          BY <3>2, <2>7 DEF Held
        <4>2. e.item[c.map[b]] = c.item[c.map[b]]
          BY <4>1, <2>4, <2>7, <1>0 DEF Shape
        <4>. QED BY <4>1, <4>2 DEF Held, HeldItem
      <3>. QED BY <3>1, <3>2
    <2>19. NoMore(c, d)
      BY <2>15, <2>18 DEF NoMore
    <2>. QED BY <2>1, <2>15, <2>17, <2>19
  <1>. QED BY <1>1, <1>2

\* An item whose load goes on to another stage: a read finds more only if the load is
\* through with reading.
LEMMA LoadStage ==
    ASSUME NEW c, CacheInv(c), NEW i \in Items, c.item[i].id \in CacheKeys, NEW stage \in {"none", "reading", "read"}
    PROVE  /\ CacheInv([c EXCEPT !.item[i].load = stage])
           /\ [c EXCEPT !.item[i].load = stage].map = c.map
           /\ \A b \in CacheKeys : Held([c EXCEPT !.item[i].load = stage], b) =>
                  Held(c, b) \/ (stage = "read" /\ c.map[b] = i)
  <1> DEFINE t == [c.item[i] EXCEPT !.load = stage]
             d == [c EXCEPT !.item[i].load = stage]
  <1>0. Shape(c) /\ c \in CacheType /\ c.item[i] \in ItemType
    BY DEF CacheInv, Shape, CacheType
  <1>1. t \in ItemType /\ t.id = c.item[i].id /\ t.load = stage /\ t.data = c.item[i].data /\ t.size = c.item[i].size
    BY <1>0 DEF ItemType
  <1>2. d = [c EXCEPT !.item[i] = t]
    OBVIOUS
  <1>. HIDE DEF t, d
  <1>3. i \in Linked(c) => t.data = TRUE \/ t.size = 1
    BY <1>0, <1>1 DEF Shape
  <1>4. CacheInv(d)
    BY <1>1, <1>2, <1>3, ItemKeeps
  <1>5. d.map = c.map /\ \A j \in Items : d.item[j] = IF j = i THEN t ELSE c.item[j]
    BY <1>0, <1>1, <1>2, <1>3, ItemShape
  <1>6. ASSUME NEW b \in CacheKeys, Held(d, b) PROVE Held(c, b) \/ (stage = "read" /\ c.map[b] = i)
    <2>1. c.map[b] # NoItem /\ d.map[b] = c.map[b] /\ c.map[b] \in Items
      BY <1>0, <1>5, <1>6 DEF Held, CacheType
    <2>2. CASE c.map[b] = i
      <3>1. HeldItem(d, i) /\ d.item[i] = t
        BY <2>1, <2>2, <1>5, <1>6 DEF Held
      <3>. QED BY <3>1, <2>1, <2>2, <1>1 DEF Held, HeldItem
    <2>3. CASE c.map[b] # i
      <3>1. d.item[c.map[b]] = c.item[c.map[b]]
        BY <2>1, <2>3, <1>5
      <3>. QED BY <3>1, <2>1, <1>6 DEF Held, HeldItem
    <2>. QED BY <2>2, <2>3
  <1>. QED BY <1>4, <1>5, <1>6 DEF d

\* get_with_cache
LEMMA GetKeeps ==
    ASSUME NEW c, CacheInv(c), NEW k \in CacheKeys, c.map[k] = NoItem => VacantItems(c) # {}
    PROVE  CacheInv(Get(c, k)) /\ NoMore(c, Get(c, k))
  <1> DEFINE found == FindOrAdd(c, k)
             i     == found.map[k]
             d     == [found EXCEPT !.item[i].load = "reading"]
  <1>1. CacheInv(found) /\ NoMore(c, found) /\ i \in Linked(found) /\ found.item[i].id = k
    BY FindOrAddKeeps
  <1>2. Get(c, k) = found \/ Get(c, k) = d
    BY DEF Get
  <1>. HIDE DEF found
  <1>3. i \in Items
    <2>1. found \in CacheType
      BY <1>1 DEF CacheInv, Shape
    <2>. QED BY <1>1, <2>1, LinkedItems
  <1>. HIDE DEF i
  <1>4. CacheInv(d) /\ \A b \in CacheKeys : Held(d, b) => Held(found, b) \/ ("reading" = "read" /\ found.map[b] = i)
    BY <1>1, <1>3, LoadStage
  <1>5. NoMore(c, d)
    BY <1>1, <1>4 DEF NoMore
  <1>. QED BY <1>1, <1>2, <1>4, <1>5

\* _load_item, when the load threw
LEMMA LoadThrewKeeps ==
    ASSUME NEW c, CacheInv(c), NEW i \in Items, c.item[i].id \in CacheKeys
    PROVE  CacheInv(LoadThrew(c, i)) /\ NoMore(c, LoadThrew(c, i))
  <1> DEFINE d == [c EXCEPT !.item[i].load = "none"]
  <1>1. CacheInv(d) /\ \A b \in CacheKeys : Held(d, b) => Held(c, b) \/ ("none" = "read" /\ c.map[b] = i)
    BY LoadStage
  <1>2. LoadThrew(c, i) = Collect(d)
    BY DEF LoadThrew
  <1>. HIDE DEF d
  <1>3. CacheInv(Collect(d)) /\ NoMore(d, Collect(d))
    BY <1>1, CollectKeeps
  <1>. QED BY <1>1, <1>2, <1>3 DEF NoMore

\* An item gets its value: whatever it loaded, its size is that of the value.
LEMMA ValueKeeps ==
    ASSUME NEW c, CacheInv(c), NEW i \in Items, c.item[i].id \in CacheKeys, NEW t \in ItemType,
           t.id = c.item[i].id, t.size = c.item[i].size, t.data = TRUE
    PROVE  /\ CacheInv(SetUsage([c EXCEPT !.item[i] = t], i, Length[c.item[i].id]))
           /\ \A b \in CacheKeys : Held(SetUsage([c EXCEPT !.item[i] = t], i, Length[c.item[i].id]), b)
                  => Held(c, b) \/ c.map[b] = i
  <1> DEFINE d == [c EXCEPT !.item[i] = t]
             length == Length[c.item[i].id]
             e == SetUsage(d, i, length)
  <1>0. Shape(c) /\ c \in CacheType
    BY DEF CacheInv, Shape
  <1>1. CacheInv(d)
    BY ItemKeeps
  <1>2. d.map = c.map /\ \A j \in Items : d.item[j] = IF j = i THEN t ELSE c.item[j]
    BY <1>0, ItemShape
  <1>3. length \in Nat
    BY LengthAssumption
  <1>. HIDE DEF d, length
  <1>4. CacheInv(e) /\ NoMore(d, e)
    BY <1>1, <1>2, <1>3, SetUsageKeeps
  <1>. HIDE DEF e
  <1>5. ASSUME NEW b \in CacheKeys, Held(e, b) PROVE Held(c, b) \/ c.map[b] = i
    <2>1. Held(d, b)
      BY <1>4, <1>5 DEF NoMore
    <2>2. c.map[b] # NoItem /\ d.map[b] = c.map[b] /\ c.map[b] \in Items
      BY <1>0, <1>2, <2>1 DEF Held, CacheType
    <2>3. CASE c.map[b] # i
      <3>1. d.item[c.map[b]] = c.item[c.map[b]]
        BY <2>2, <2>3, <1>2
      <3>. QED BY <3>1, <2>1, <2>2 DEF Held, HeldItem
    <2>. QED BY <2>3
  <1>. QED BY <1>4, <1>5 DEF d, e, length

\* _load_item, when the load answered: a read finds what the load has read.
LEMMA LoadedKeeps ==
    ASSUME NEW c, CacheInv(c), NEW i \in Items, c.item[i].load = "read"
    PROVE  CacheInv(Loaded(c, i)) /\ NoMore(c, Loaded(c, i))
  <1> DEFINE t == [c.item[i] EXCEPT !.data = TRUE, !.load = "none"]
             d == [c EXCEPT !.item[i] = t]
             e == SetUsage(d, i, Length[c.item[i].id])
  <1>0. c.item[i] \in ItemType /\ c.item[i].id \in CacheKeys
    BY DEF CacheInv, Shape, CacheType
  <1>1. t \in ItemType /\ t.id = c.item[i].id /\ t.size = c.item[i].size /\ t.data = TRUE
    BY <1>0 DEF ItemType
  <1>2. [c EXCEPT !.item[i].data = TRUE, !.item[i].load = "none"] = d
    <2>1. c \in CacheType
      BY DEF CacheInv, Shape
    <2>. QED BY <2>1, <1>0 DEF CacheType, ItemType
  <1>3. Loaded(c, i) = Collect(e)
    BY <1>2 DEF Loaded
  <1>. HIDE DEF t
  <1>4. CacheInv(e) /\ \A b \in CacheKeys : Held(e, b) => Held(c, b) \/ c.map[b] = i
    BY <1>0, <1>1, ValueKeeps
  <1>. HIDE DEF e
  <1>5. CacheInv(Collect(e)) /\ NoMore(e, Collect(e))
    BY <1>4, CollectKeeps
  <1>6. \A b \in CacheKeys : c.map[b] = i => Held(c, b)
    BY NoItemFact DEF Held, HeldItem
  <1>. QED BY <1>3, <1>4, <1>5, <1>6 DEF NoMore

\* put_in_cache: a read finds the key that was put, and nothing else it did not find.
LEMMA PutKeeps ==
    ASSUME NEW c, CacheInv(c), NEW k \in CacheKeys, c.map[k] = NoItem => VacantItems(c) # {}
    PROVE  /\ CacheInv(PutInCache(c, k))
           /\ \A b \in CacheKeys : Held(PutInCache(c, k), b) => Held(c, b) \/ b = k
  <1> DEFINE found == FindOrAdd(c, k)
             i     == found.map[k]
             t     == [found.item[i] EXCEPT !.data = TRUE]
             d     == [found EXCEPT !.item[i] = t]
             e     == SetUsage(d, i, Length[found.item[i].id])
  <1>1. CacheInv(found) /\ NoMore(c, found) /\ i \in Linked(found) /\ found.item[i].id = k
    BY FindOrAddKeeps
  <1>2. [found EXCEPT !.item[i].data = TRUE] = d
    OBVIOUS
  <1>3. PutInCache(c, k) = e
    BY <1>1, <1>2 DEF PutInCache
  <1>. HIDE DEF found
  <1>4. Shape(found) /\ found \in CacheType
    BY <1>1 DEF CacheInv, Shape
  <1>5. i \in Items
    BY <1>1, <1>4, LinkedItems
  <1>. HIDE DEF i
  <1>6. found.item[i] \in ItemType
    BY <1>4, <1>5 DEF CacheType
  <1>7. t \in ItemType /\ t.id = found.item[i].id /\ t.size = found.item[i].size /\ t.data = TRUE
    BY <1>6 DEF ItemType
  <1>. HIDE DEF t
  <1>8. CacheInv(e) /\ \A b \in CacheKeys : Held(e, b) => Held(found, b) \/ found.map[b] = i
    BY <1>1, <1>5, <1>7, ValueKeeps
  <1>9. \A b \in CacheKeys : found.map[b] = i => b = k
    BY <1>1, <1>4, <1>5, NoItemFact DEF Shape
  <1>. QED BY <1>1, <1>3, <1>8, <1>9 DEF NoMore

\* multi_invalidate_keys: a read finds none of the keys, and nothing it did not find.
LEMMA InvalidateKeeps ==
    ASSUME NEW c, CacheInv(c), NEW K \in SUBSET CacheKeys
    PROVE  /\ CacheInv(Invalidate(c, K)) /\ NoMore(c, Invalidate(c, K))
           /\ \A b \in K : Invalidate(c, K).map[b] = NoItem
  <1> DEFINE S == {c.map[k] : k \in K} \ {NoItem}
             d == Unlink(c, S)
             e == UpdateUsage(d, -UsageOf(c, S))
  <1>0. Shape(c) /\ c \in CacheType /\ Linked(c) \in SUBSET Items
    BY LinkedItems DEF CacheInv, Shape
  <1>1. Invalidate(c, K) = e
    BY DEF Invalidate
  <1>2. S \in SUBSET Linked(c)
    BY <1>0 DEF Shape
  <1>3. \A b \in K : c.map[b] = NoItem \/ c.map[b] \in S
    OBVIOUS
  <1>. HIDE DEF S
  <1>4. /\ Shape(d) /\ NoMore(c, d) /\ Linked(d) = Linked(c) \ S
        /\ UsageOf(d, Linked(c) \ S) = UsageOf(c, Linked(c)) - UsageOf(c, S)
        /\ d.usage = c.usage
        /\ \A k \in CacheKeys : d.map[k] # NoItem => d.map[k] = c.map[k] /\ c.map[k] \notin S
    BY <1>0, <1>2, UnlinkShape
  <1>5. UsageOf(c, S) \in Nat /\ -UsageOf(c, S) \in Int /\ UsageOf(c, Linked(c)) \in Nat
    BY <1>0, <1>2, UsageOfNat
  <1>6. d.usage + (-UsageOf(c, S)) = UsageOf(d, Linked(d))
    BY <1>4, <1>5 DEF CacheInv, Accounted
  <1>. HIDE DEF d
  <1>7. /\ CacheInv(e) /\ NoMore(d, e)
        /\ \A k \in CacheKeys : e.map[k] # NoItem => e.map[k] = d.map[k]
    BY <1>4, <1>5, <1>6, UpdateUsageKeeps
  <1>. HIDE DEF e
  <1>8. NoMore(c, e)
    BY <1>4, <1>7 DEF NoMore
  <1>9. \A b \in K : e.map[b] = NoItem
    BY <1>3, <1>4, <1>7
  <1>. QED BY <1>1, <1>7, <1>8, <1>9

\* The cache an agent starts with
LEMMA EmptyCacheInv == CacheInv(EmptyCache) /\ \A b \in CacheKeys : ~Held(EmptyCache, b)
  <1> DEFINE e == EmptyCache
  <1>1. Vacant \in ItemType /\ Vacant.load = "none"
    BY DEF Vacant, ItemType
  <1>2. /\ e \in CacheType /\ e.list = <<>> /\ e.usage = 0
        /\ \A k \in CacheKeys : e.map[k] = NoItem
        /\ \A i \in Items : e.item[i] = Vacant
    BY <1>1 DEF EmptyCache, CacheType
  <1>. HIDE DEF e
  <1>3. DOMAIN <<>> = {}
    OBVIOUS
  <1>4. Linked(e) = {} /\ IsInjective(e.list)
    BY <1>2, <1>3 DEF Linked, ToSet, IsInjective
  <1>5. Shape(e)
    BY <1>1, <1>2, <1>4 DEF Shape
  <1>6. UsageOf(e, {}) = 0
    BY SumEmpty DEF UsageOf
  <1>7. CacheInv(e)
    BY <1>2, <1>4, <1>5, <1>6, MaxUsageAssumption DEF CacheInv, Accounted
  <1>. QED BY <1>2, <1>7 DEF e, Held

-----------------------------------------------------------------------------
(* The cache beside the files *)

\* What a read would find is on disk and not being deleted, unless it got there while it
\* was being deleted.
HeldInv ==
    /\ CacheInv(cache)
    /\ raced \subseteq BlockIds
    /\ \A b \in BlockIds : Held(cache, b) /\ b \notin raced => disk[b] = Files /\ ~Deleting(b)

\* A step after which a read finds no more, that removes no file of a block nobody
\* deletes, and after which nobody deletes more.
LEMMA HeldKept ==
    ASSUME RequestsInv, HeldInv, CacheInv(cache'), NoMore(cache, cache'),
           raced' = raced, disk' \in [BlockIds -> SUBSET Files],
           \A b \in BlockIds : disk[b] = Files => disk'[b] = Files \/ Deleting(b),
           \A q \in StoreProcs : request'[q].kind = "delete" =>
                request[q].kind = "delete" /\ request'[q].blocks = request[q].blocks
    PROVE  HeldInv'
  <1>1. \A b \in BlockIds : Deleting(b)' => Deleting(b)
    BY DEF Deleting
  <1>2. \A b \in BlockIds : Held(cache', b) => Held(cache, b)
    BY DEF NoMore, BlockIds
  <1>3. \A b \in BlockIds : Held(cache', b) /\ b \notin raced' => disk'[b] = Files /\ ~Deleting(b)'
    BY <1>1, <1>2 DEF HeldInv
  <1>4. raced' \subseteq BlockIds
    BY DEF HeldInv
  <1>. QED BY <1>3, <1>4 DEF HeldInv

\* Each step keeps it.
LEMMA StepHeldInv == RequestsInv /\ HeldInv /\ [StoreNext]_storeVars => HeldInv'
  <1>. SUFFICES ASSUME RequestsInv, HeldInv, [StoreNext]_storeVars PROVE HeldInv'
    OBVIOUS
  <1>0. CacheInv(cache) /\ cache \in CacheType /\ BlockIds = CacheKeys /\ disk \in [BlockIds -> SUBSET Files]
    BY DEF HeldInv, CacheInv, Shape, BlockIds, RequestsInv
  <1>1. ASSUME UNCHANGED <<disk, request, raced>>, CacheInv(cache'), NoMore(cache, cache') PROVE HeldInv'
    BY <1>0, <1>1, HeldKept
  <1>2. ASSUME UNCHANGED <<cache, raced>>, disk' \in [BlockIds -> SUBSET Files],
               \A b \in BlockIds : disk[b] = Files => disk'[b] = Files \/ Deleting(b),
               \A q \in StoreProcs : request'[q].kind = "delete" =>
                    request[q].kind = "delete" /\ request'[q].blocks = request[q].blocks
        PROVE  HeldInv'
    <2>1. CacheInv(cache') /\ NoMore(cache, cache') /\ raced' = raced
      BY <1>0, <1>2 DEF NoMore
    <2>. QED BY <1>2, <2>1, HeldKept
  <1>3. ASSUME NEW p \in StoreProcs, NEW kind, NEW B \in SUBSET BlockIds, Arrive(p, kind, B) PROVE HeldInv'
    <2>1. /\ cache' = Invalidate(cache, B) /\ raced' = raced \ B /\ disk' = disk
          /\ \A q \in StoreProcs : q # p => request'[q] = request[q]
          /\ request'[p].blocks = B
      BY <1>3 DEF Arrive, RequestsInv, NoRequest
    <2>2. CacheInv(cache') /\ NoMore(cache, cache') /\ \A b \in B : cache'.map[b] = NoItem
      BY <1>0, <2>1, InvalidateKeeps
    <2>3. ASSUME NEW b \in BlockIds, Held(cache', b), b \notin raced' PROVE disk'[b] = Files /\ ~Deleting(b)'
      <3>1. b \notin B
        BY <2>2, <2>3 DEF Held
      <3>2. Held(cache, b) /\ b \notin raced
        BY <3>1, <2>1, <2>2, <2>3, <1>0 DEF NoMore
      <3>3. disk[b] = Files /\ ~Deleting(b)
        BY <3>2 DEF HeldInv
      <3>. QED BY <3>1, <3>3, <2>1 DEF Deleting
    <2>4. raced' \subseteq BlockIds
      BY <2>1 DEF HeldInv
    <2>. QED BY <2>2, <2>3, <2>4 DEF HeldInv
  <1>4. ASSUME NEW b \in BlockIds, ReadBlock(b) PROVE HeldInv'
    <2>1. cache' = Get(cache, b) /\ (cache.map[b] = NoItem => VacantItems(cache) # {})
      BY <1>4 DEF ReadBlock
    <2>2. CacheInv(cache') /\ NoMore(cache, cache')
      BY <1>0, <2>1, GetKeeps
    <2>. QED BY <1>1, <1>4, <2>2 DEF ReadBlock
  <1>5. ASSUME NEW i \in Items, EndRead(i) PROVE HeldInv'
    <2>1. cache' = Loaded(cache, i) /\ cache.item[i].load = "read"
      BY <1>5 DEF EndRead
    <2>2. CacheInv(cache') /\ NoMore(cache, cache')
      BY <1>0, <2>1, LoadedKeeps
    <2>. QED BY <1>1, <1>5, <2>2 DEF EndRead
  <1>6. ASSUME NEW i \in Items, cache.item[i].load = "reading" PROVE cache.item[i].id \in CacheKeys
    BY <1>0, <1>6 DEF CacheInv, Shape
  <1>7. ASSUME NEW i \in Items, ReadThrows(i) PROVE HeldInv'
    <2>1. cache' = LoadThrew(cache, i) /\ cache.item[i].id \in CacheKeys
      BY <1>6, <1>7 DEF ReadThrows
    <2>2. CacheInv(cache') /\ NoMore(cache, cache')
      BY <1>0, <2>1, LoadThrewKeeps
    <2>. QED BY <1>1, <1>7, <2>2 DEF ReadThrows
  <1>8. ASSUME NEW i \in Items, ReadFiles(i) PROVE HeldInv'
    <2> DEFINE b == cache.item[i].id
    <2>1. /\ cache' = [cache EXCEPT !.item[i].load = "read"] /\ b \in CacheKeys
          /\ disk' = disk /\ request' = request /\ disk[b] = Files
          /\ raced' = IF Deleting(b) /\ cache.map[b] = i THEN raced \cup {b} ELSE raced
      BY <1>6, <1>8 DEF ReadFiles
    <2>2. CacheInv(cache') /\ \A c \in CacheKeys : Held(cache', c) => Held(cache, c) \/ ("read" = "read" /\ cache.map[c] = i)
      BY <1>0, <2>1, LoadStage
    <2>3. \A c \in CacheKeys : cache.map[c] = i => c = b
      BY <1>0, NoItemFact DEF CacheInv, Shape
    <2>. HIDE DEF b
    <2>4. raced \subseteq raced' /\ raced' \subseteq BlockIds
      BY <1>0, <2>1 DEF HeldInv
    <2>5. \A c \in BlockIds : Deleting(c)' <=> Deleting(c)
      BY <2>1 DEF Deleting
    <2>6. ASSUME NEW c \in BlockIds, Held(cache', c), c \notin raced' PROVE disk'[c] = Files /\ ~Deleting(c)'
      <3>1. CASE Held(cache, c)
        BY <3>1, <2>1, <2>4, <2>5, <2>6 DEF HeldInv
      <3>2. CASE cache.map[c] = i
        <4>1. c = b /\ ~Deleting(b)
          BY <3>2, <2>1, <2>3, <2>6, <1>0
        <4>. QED BY <4>1, <2>1, <2>5, <2>6
      <3>. QED BY <3>1, <3>2, <2>2, <2>6, <1>0
    <2>. QED BY <2>2, <2>4, <2>6 DEF HeldInv
  <1>9. ASSUME NEW p \in StoreProcs, EndWrite(p) PROVE HeldInv'
    <2>1. PICK b \in request[p].blocks :
              /\ cache.map[b] = NoItem => VacantItems(cache) # {}
              /\ cache' = PutInCache(cache, b)
              /\ raced' = IF Deleting(b) THEN raced \cup {b} ELSE raced
      BY <1>9 DEF EndWrite
    <2>2. /\ disk' = disk /\ request'[p] = NoRequest /\ \A q \in StoreProcs : q # p => request'[q] = request[q]
          /\ request[p].kind = "write" /\ request[p].todo = {} /\ Running(p)
      BY <1>9 DEF EndWrite, RequestsInv
    <2>3. b \in BlockIds /\ disk[b] = Files
      <3>1. b \in BlockIds
        BY DEF RequestsInv, RequestType
      <3>2. \A f \in Files : f \in disk[b]
        BY <2>2 DEF RequestsInv, WrittenOnDisk
      <3>. QED BY <3>1, <3>2, <1>0
    <2>4. CacheInv(cache') /\ \A c \in CacheKeys : Held(cache', c) => Held(cache, c) \/ c = b
      BY <1>0, <2>1, <2>3, PutKeeps
    <2>5. \A c \in BlockIds : Deleting(c)' => Deleting(c)
      BY <2>2 DEF Deleting, NoRequest
    <2>6. raced \subseteq raced' /\ raced' \subseteq BlockIds
      BY <2>1, <2>3 DEF HeldInv
    <2>7. ASSUME NEW c \in BlockIds, Held(cache', c), c \notin raced' PROVE disk'[c] = Files /\ ~Deleting(c)'
      <3>1. CASE Held(cache, c)
        BY <3>1, <2>2, <2>5, <2>6, <2>7 DEF HeldInv
      <3>2. CASE c = b
        <4>1. ~Deleting(b)
          BY <3>2, <2>1, <2>7
        <4>. QED BY <4>1, <3>2, <2>2, <2>3, <2>5
      <3>. QED BY <3>1, <3>2, <2>4, <2>7, <1>0
    <2>. QED BY <2>4, <2>6, <2>7 DEF HeldInv
  <1>10. ASSUME NEW p \in StoreProcs, NEW x \in BlockIds \X Files, WriteFile(p, x) PROVE HeldInv'
    <2>1. cache' = cache /\ raced' = raced /\ disk' \in [BlockIds -> SUBSET Files]
      BY <1>0, <1>10 DEF WriteFile
    <2>2. \A b \in BlockIds : disk'[b] = IF b = x[1] THEN disk[b] \cup {x[2]} ELSE disk[b]
      BY <1>0, <1>10 DEF WriteFile
    <2>3. \A b \in BlockIds : disk[b] = Files => disk'[b] = Files
      BY <2>2
    <2>4. \A q \in StoreProcs : request'[q].kind = request[q].kind /\ request'[q].blocks = request[q].blocks
      BY <1>10 DEF WriteFile, RequestsInv, RequestType
    <2>. QED BY <1>2, <2>1, <2>3, <2>4
  <1>11. ASSUME NEW p \in StoreProcs, NEW x \in BlockIds \X Files, DeleteFile(p, x) PROVE HeldInv'
    <2>1. cache' = cache /\ raced' = raced /\ disk' \in [BlockIds -> SUBSET Files]
      BY <1>0, <1>11 DEF DeleteFile
    <2>2. \A b \in BlockIds : b # x[1] => disk'[b] = disk[b]
      BY <1>0, <1>11 DEF DeleteFile
    <2>3. Deleting(x[1])
      BY <1>11 DEF DeleteFile, Deleting, RequestsInv, RequestSound
    <2>4. \A q \in StoreProcs : request'[q].kind = request[q].kind /\ request'[q].blocks = request[q].blocks
      BY <1>11 DEF DeleteFile, RequestsInv, RequestType
    <2>. QED BY <1>2, <2>1, <2>2, <2>3, <2>4
  <1>12. ASSUME NEW p \in StoreProcs, UNCHANGED <<cache, raced, disk>>,
                \A q \in StoreProcs : q # p => request'[q] = request[q],
                request'[p] = NoRequest \/ (request'[p].kind = request[p].kind /\ request'[p].blocks = request[p].blocks)
         PROVE  HeldInv'
    <2>1. NoRequest.kind # "delete"
      BY DEF NoRequest
    <2>2. \A q \in StoreProcs : request'[q].kind = "delete" =>
                request[q].kind = "delete" /\ request'[q].blocks = request[q].blocks
      BY <1>12, <2>1
    <2>. QED BY <1>0, <1>2, <1>12, <2>2
  <1>13. ASSUME NEW p \in StoreProcs, Lock(p) PROVE HeldInv'
    BY <1>12, <1>13 DEF Lock, RequestsInv, RequestType
  <1>14. ASSUME NEW p \in StoreProcs, WriteThrows(p) \/ EndDelete(p) PROVE HeldInv'
    BY <1>12, <1>14 DEF WriteThrows, EndDelete, RequestsInv
  <1>15. ASSUME NEW p \in StoreProcs, NEW x \in BlockIds \X Files, DeleteThrows(p, x) PROVE HeldInv'
    BY <1>12, <1>15 DEF DeleteThrows, RequestsInv, RequestType
  <1>16. CASE RestartAgent
    <2>1. cache' = EmptyCache /\ raced' = raced
      BY <1>16 DEF RestartAgent
    <2>2. CacheInv(cache') /\ \A b \in BlockIds : ~Held(cache', b)
      BY <1>0, <2>1, EmptyCacheInv
    <2>. QED BY <2>1, <2>2 DEF HeldInv
  <1>17. CASE UNCHANGED <<cache, raced, disk, request>>
    <2>1. CacheInv(cache') /\ NoMore(cache, cache')
      BY <1>0, <1>17 DEF NoMore
    <2>. QED BY <1>1, <1>17, <2>1
  <1>18. ASSUME NEW b \in BlockIds, PreallocateBlock(b) PROVE HeldInv'
    BY <1>17, <1>18 DEF PreallocateBlock
  <1>19. CASE StartCount \/ EndCount \/ CountWritten \/ CountNotWritten
    BY <1>17, <1>19 DEF StartCount, EndCount, CountWritten, CountNotWritten
  <1>23. CASE StartSaveUsage \/ EndSaveUsage \/ SaveUsageThrows
    BY <1>17, <1>23 DEF StartSaveUsage, EndSaveUsage, SaveUsageThrows
  <1>20. ASSUME NEW p \in StoreProcs, NEW b \in BlockIds, WriteBlock(p, b) PROVE HeldInv'
    BY <1>3, <1>20 DEF WriteBlock
  <1>21. ASSUME NEW p \in StoreProcs, NEW B \in SUBSET BlockIds, DeleteStored(p, B) PROVE HeldInv'
    BY <1>3, <1>21 DEF DeleteStored
  <1>22. CASE UNCHANGED storeVars
    BY <1>17, <1>22 DEF storeVars
  <1>. QED BY <1>4, <1>5, <1>7, <1>8, <1>9, <1>10, <1>11, <1>13, <1>14, <1>15, <1>16, <1>18, <1>19, <1>20, <1>21, <1>22,
              <1>23 DEF StoreNext

-----------------------------------------------------------------------------
(* The theorems *)

\* The counters stay within their bounds.
Bounds == requests \in 0..MaxRequests /\ store_faults \in 0..MaxStoreFaults

\* Each step keeps them.
LEMMA StepBounds == Bounds /\ [StoreNext]_storeVars => Bounds'
  <1>. SUFFICES ASSUME Bounds, [StoreNext]_storeVars PROVE Bounds'
    OBVIOUS
  <1>. USE BoundsAssumption DEF Bounds
  <1>1. CASE requests' = requests /\ store_faults' = store_faults
    BY <1>1
  <1>2. CASE requests' = requests /\ store_faults < MaxStoreFaults /\ store_faults' = store_faults + 1
    BY <1>2
  <1>3. CASE requests < MaxRequests /\ requests' = requests + 1 /\ store_faults' = store_faults
    BY <1>3
  <1>4. ASSUME NEW p \in StoreProcs, WriteThrows(p) PROVE Bounds'
    BY <1>2, <1>4 DEF WriteThrows
  <1>5. ASSUME NEW p \in StoreProcs, NEW x \in BlockIds \X Files, DeleteThrows(p, x) PROVE Bounds'
    BY <1>2, <1>5 DEF DeleteThrows
  <1>6. CASE SaveUsageThrows \/ RestartAgent \/ CountNotWritten
    BY <1>2, <1>6 DEF SaveUsageThrows, RestartAgent, CountNotWritten
  <1>7. ASSUME NEW p \in StoreProcs, NEW b \in BlockIds, WriteBlock(p, b) PROVE Bounds'
    BY <1>3, <1>7 DEF WriteBlock, Arrive
  <1>8. ASSUME NEW p \in StoreProcs, NEW B \in SUBSET BlockIds, DeleteStored(p, B) PROVE Bounds'
    BY <1>3, <1>8 DEF DeleteStored, Arrive
  <1>9. ASSUME NEW b \in BlockIds, ReadBlock(b) \/ PreallocateBlock(b) PROVE Bounds'
    BY <1>1, <1>9 DEF ReadBlock, PreallocateBlock
  <1>10. ASSUME NEW i \in Items, ReadFiles(i) \/ EndRead(i) \/ ReadThrows(i) PROVE Bounds'
    BY <1>1, <1>10 DEF ReadFiles, EndRead, ReadThrows
  <1>11. ASSUME NEW p \in StoreProcs, Lock(p) \/ EndWrite(p) \/ EndDelete(p) PROVE Bounds'
    BY <1>1, <1>11 DEF Lock, EndWrite, EndDelete
  <1>12. ASSUME NEW p \in StoreProcs, NEW x \in BlockIds \X Files, WriteFile(p, x) \/ DeleteFile(p, x) PROVE Bounds'
    BY <1>1, <1>12 DEF WriteFile, DeleteFile
  <1>13. CASE StartCount \/ EndCount \/ CountWritten \/ StartSaveUsage \/ EndSaveUsage
    BY <1>1, <1>13 DEF StartCount, EndCount, CountWritten, StartSaveUsage, EndSaveUsage
  <1>14. CASE UNCHANGED storeVars
    BY <1>1, <1>14 DEF storeVars
  <1>. QED BY <1>4, <1>5, <1>6, <1>7, <1>8, <1>9, <1>10, <1>11, <1>12, <1>13, <1>14 DEF StoreNext

StoreIInv == RequestsInv /\ SaverInv /\ CountInv /\ HeldInv /\ Bounds

\* The invariant of the store.
LEMMA StoreInvariance == StoreSpec => []StoreIInv
  <1>1. ASSUME StoreInit PROVE StoreIInv
    <2>. USE <1>1 DEF StoreInit
    <2>1. \A p \in StoreProcs : request[p] = NoRequest /\ ~Running(p)
      BY NoRequestSound DEF Running
    <2>2. disk \in [BlockIds -> SUBSET Files] /\ \A b \in BlockIds : disk[b] \in {{}, Files}
      <3>1. PICK B \in {{}, BlockIds} : disk = [b \in BlockIds |-> IF b \in B THEN Files ELSE {}]
        BY <1>1
      <3>. QED BY <3>1
    <2>3. RequestsInv
      BY <2>1, <2>2, NoRequestSound DEF RequestsInv, Exclusive, WrittenOnDisk
    <2>4. SaverInv
      BY DEF SaverInv, Ints
    <2>5. FilesWhole
      BY <2>1, <2>2 DEF FilesWhole
    <2>6. CountInv
      BY <2>5 DEF CountInv
    <2>7. CacheInv(cache) /\ \A b \in BlockIds : ~Held(cache, b)
      BY EmptyCacheInv DEF BlockIds
    <2>8. HeldInv
      BY <2>7 DEF HeldInv
    <2>9. Bounds
      BY BoundsAssumption DEF Bounds
    <2>. QED BY <2>3, <2>4, <2>6, <2>8, <2>9 DEF StoreIInv
  <1>2. StoreIInv /\ [StoreNext]_storeVars => StoreIInv'
    BY StepRequestsInv, StepSaverInv, StepCountInv, StepHeldInv, StepBounds DEF StoreIInv
  <1>. QED BY <1>1, <1>2, PTL DEF StoreSpec

\* Files, cache, requests and usage are well formed, for any constants.
THEOREM StoreTypeCorrect == StoreSpec => []StoreTypeOK
  <1>1. StoreIInv => StoreTypeOK
    <2>. SUFFICES ASSUME StoreIInv PROVE StoreTypeOK
      OBVIOUS
    <2>1. disk \in [BlockIds -> SUBSET Files] /\ \A p \in StoreProcs : request[p].blocks \subseteq BlockIds
      BY DEF StoreIInv, RequestsInv, RequestType
    <2>2. cache.map \in [BlockIds -> Items \cup {NoItem}] /\ cache.list \in Seq(Items)
      BY DEF StoreIInv, HeldInv, CacheInv, Shape, CacheType, BlockIds
    <2>3. {usage, file, saving, counting, recount} \subseteq Int \cup {Unknown} /\ misfiled \in BOOLEAN /\ saver \in {"idle", "timer", "writing"} /\ needed \in BOOLEAN
      BY DEF StoreIInv, SaverInv, Ints
    <2>4. reserved \subseteq prealloc /\ prealloc \subseteq BlockIds /\ raced \subseteq BlockIds /\ drift \in BOOLEAN
      BY DEF StoreIInv, CountInv, HeldInv
    <2>. QED BY <2>1, <2>2, <2>3, <2>4 DEF StoreIInv, Bounds, StoreTypeOK
  <1>. QED BY StoreInvariance, <1>1, PTL

\* lru.js: the assertions of _sanity hold after every operation of the cache, with loads
\* that end after their item was evicted or invalidated.
THEOREM CacheCounts == StoreSpec => []BlockCacheAgrees
  <1>1. StoreIInv => BlockCacheAgrees
    BY InvAgrees DEF StoreIInv, HeldInv, BlockCacheAgrees
  <1>. QED BY StoreInvariance, <1>1, PTL

\* block_store_base.js: whatever the order of reads, writes and deletes, a read finds no
\* block that was deleted, unless the read or a write ran beside the delete.
THEOREM CachedStays == StoreSpec => []CachedIsStored
  <1>1. StoreIInv => CachedIsStored
    <2>. SUFFICES ASSUME StoreIInv, NEW b \in BlockIds,
                         cache.map[b] # NoItem,
                         cache.item[cache.map[b]].data \/ cache.item[cache.map[b]].load = "read",
                         b \notin raced
                  PROVE  disk[b] = Files
      BY Zenon DEF CachedIsStored
    <2>1. cache.item[cache.map[b]] \in ItemType
      BY DEF StoreIInv, HeldInv, CacheInv, Shape, CacheType, BlockIds
    <2>2. cache.item[cache.map[b]].data \in BOOLEAN
      BY <2>1 DEF ItemType
    <2>3. HeldItem(cache, cache.map[b])
      BY <2>2, Zenon DEF HeldItem
    <2>4. Held(cache, b)
      BY <2>3 DEF Held
    <2>. QED BY <2>4 DEF StoreIInv, HeldInv
  <1>. QED BY StoreInvariance, <1>1, PTL

\* _update_usage: the usage in memory is exactly the length of the files and of what was
\* preallocated, whenever no request changes files and nothing failed on the way.
THEOREM UsageExact == StoreSpec => []UsageCounted
  <1>1. StoreIInv => UsageCounted
    <2>. SUFFICES ASSUME StoreIInv, ~drift, usage # Unknown, NobodyRuns
                  PROVE  usage = DiskUsage + SumFunctionOnSet(Length, reserved)
      BY DEF UsageCounted
    <2>1. FilesOnDisk = Counted \X Files
      BY CountedOnDisk DEF StoreIInv, CountInv
    <2>. QED BY <2>1 DEF StoreIInv, CountInv, DiskUsage, ReservedLength
  <1>. QED BY StoreInvariance, <1>1, PTL

\* _write_usage: no change of the usage is forgotten by the saver.
THEOREM SavesFollow == StoreSpec => []UsageSaved
  <1>1. StoreIInv => UsageSaved
    BY DEF StoreIInv, SaverInv, UsageSaved
  <1>. QED BY StoreInvariance, <1>1, PTL
=============================================================================
