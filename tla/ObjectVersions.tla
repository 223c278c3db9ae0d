--------------------------- MODULE ObjectVersions ---------------------------
(***************************************************************************)
(* The object server's handling of the versions of ONE key of one bucket:  *)
(* uploads, their completion and abort, and the two delete paths           *)
(* (object_server.js), over the "objectmds" collection (md_store.js) in    *)
(* one of the two databases the product runs on.                           *)
(*                                                                         *)
(* A request is a coroutine: everything between two `await`s of the        *)
(* handler is one action, so requests interleave exactly where the code    *)
(* yields.  What a request read earlier is a snapshot it keeps using.      *)
(* Every query of these handlers carries bucket and key, so the objects    *)
(* of other keys cannot interfere and one key is enough.                   *)
(*                                                                         *)
(* config.WORM_ENABLED is FALSE, its default: no object lock.              *)
(***************************************************************************)
EXTENDS Integers, FiniteSets, Sequences

CONSTANTS
    Objs,         \* _id's of the object MDs that may be created
    Reqs,         \* coroutines serving RPC requests
    Null,         \* "no object"
    Backend,      \* config.DB_TYPE: "mongodb" or "postgres"
    Ops,          \* what clients and the environment do in this instance
    InitModes,    \* values bucket.versioning starts from
    SwitchTo,     \* values update_bucket sets it to
    MaxInFlight,  \* bound: requests served at the same time
    MaxSeq        \* bound: version_seq numbers allocated

Completions == {"complete", "recomplete"}
Deletes     == {"delete_key", "delete_version", "delete_null", "abort"}
AllOps      == Completions \cup Deletes \cup
               {"create", "create_complete", "fail", "expire"}

ASSUME NullAssumption    == Null \notin Objs
ASSUME BackendAssumption == Backend \in {"mongodb", "postgres"}
ASSUME OpsAssumption     == Ops \subseteq AllOps
ASSUME ModesAssumption   == /\ InitModes \subseteq {"DISABLED", "ENABLED", "SUSPENDED"}
                            /\ SwitchTo \subseteq {"ENABLED", "SUSPENDED"}
ASSUME BoundsAssumption  == MaxInFlight \in Nat /\ MaxSeq \in Nat

VARIABLES
    objs,        \* the objectmds collection: _id -> document
    seq,         \* the number in the (first) document of the sequences collection
    forked,      \* the collection has got a second document
    versioning,  \* bucket.versioning in the system store
    cache,       \* object_md_cache of the server process
    pc,          \* where a request stands
    op,          \* what it was asked to do
    mode,        \* bucket.versioning it captured in load_bucket()
    obj,         \* the object it completes, or replies to have deleted
    other,       \* the null version found by its first read
    unseen,      \* requests that found no document of the sequence to update
    vseq,        \* version_seq it allocated, or that its version_id names
    bulk,        \* database operations it has still to execute
    full,        \* every operation so far matched and modified a document
    completed,   \* history: objects whose completion was acknowledged
    removed      \* history: objects whose deletion was acknowledged

db   == <<objs, seq, forked>>
hist == <<completed, removed>>
requests == <<pc, op, mode, obj, other, unseen, vseq, bulk, full>>
vars == <<objs, seq, forked, versioning, cache, pc, op, mode, obj, other, unseen,
          vseq, bulk, full, completed, removed>>

-----------------------------------------------------------------------------
(* Documents.  A field that is null or missing in the database is FALSE    *)
(* here, and a missing version_seq is 0 (the sequence starts at 1).        *)

Doc == [exists : BOOLEAN, deleted : BOOLEAN, upload_started : BOOLEAN,
        version_past : BOOLEAN, version_enabled : BOOLEAN,
        delete_marker : BOOLEAN, version_seq : Nat]

NoDoc == [exists |-> FALSE, deleted |-> FALSE, upload_started |-> FALSE,
          version_past |-> FALSE, version_enabled |-> FALSE,
          delete_marker |-> FALSE, version_seq |-> 0]

UploadDoc == [NoDoc EXCEPT !.exists = TRUE, !.upload_started = TRUE]
CachedObjectDoc == [NoDoc EXCEPT !.exists = TRUE]
\* mutant: a marker that copies version_past from the object it hides
DeleteMarkerDocPast(n, enabled) ==
    [NoDoc EXCEPT !.exists = TRUE, !.delete_marker = TRUE, !.version_past = TRUE,
                  !.version_seq = n, !.version_enabled = enabled]
DeleteMarkerDoc(n, enabled) ==
    [NoDoc EXCEPT !.exists = TRUE, !.delete_marker = TRUE,
                  !.version_seq = n, !.version_enabled = enabled]

IsLive(d)   == d.exists /\ ~d.deleted
IsStored(d) == IsLive(d) /\ ~d.upload_started

Stored == {o \in Objs : IsStored(objs[o])}

\* make_md_id() never returns an _id twice: neither that of a document nor
\* that of a delete marker a request is about to insert
Reserved == {o \in Objs : \E r \in Reqs : \E i \in DOMAIN bulk[r] : bulk[r][i].id = o}
Fresh    == {o \in Objs : ~objs[o].exists} \ Reserved
Uploads  == {o \in Objs : objs[o].exists /\ ~objs[o].delete_marker}

(* What the queries of md_store.js may return: a sort on equal fields      *)
(* leaves the choice between several matches to the database.              *)
FindOne(S) == IF S = {} THEN {Null} ELSE S

Latest       == {o \in Stored : ~objs[o].version_past}
\* mutant: the query forgets `upload_started: null`
NullVersionsAndUploads == {o \in Objs : IsLive(objs[o]) /\ ~objs[o].version_enabled}
NullVersions == {o \in Stored : ~objs[o].version_enabled}
NullVersionsOrUploads ==
    {o \in Objs : IsLive(objs[o]) /\ ~objs[o].version_enabled}
ByVersion(n) == {o \in Stored : objs[o].version_seq = n}
PrevVersions ==
    {o \in Stored : /\ objs[o].version_past
                    /\ \A p \in Stored : objs[p].version_past
                            => objs[p].version_seq <= objs[o].version_seq}

-----------------------------------------------------------------------------
(* Database operations.  Those of a bulk filter on `deleted: null`;        *)
(* update_object_by_id ("put_by_id") filters on _id only, and the result   *)
(* of delete_object_by_id is not looked at.                                *)

Kinds == {"delete_and_unset_latest", "delete", "delete_by_id", "unset_latest",
          "set_latest", "put", "put_by_id", "insert_enabled", "insert_null"}
DbOp == [kind : Kinds, id : Objs]
Do(k, o) == [kind |-> k, id |-> o]

IsInsert(w) == w.kind \in {"insert_enabled", "insert_null"}

Matches(w, d) ==
    IF w.kind = "put_by_id" THEN d.exists ELSE IsInsert(w) \/ IsLive(d)

\* the document after operation w of a request with version n in mode m
\* mutant: completing an upload clears `deleted`
EffectUndeleting(w, d, n, m) ==
    CASE w.kind = "delete_and_unset_latest" ->
            [d EXCEPT !.deleted = TRUE, !.version_past = TRUE]
      [] w.kind \in {"delete", "delete_by_id"} -> [d EXCEPT !.deleted = TRUE]
      [] w.kind = "unset_latest" -> [d EXCEPT !.version_past = TRUE]
      [] w.kind = "set_latest"   -> [d EXCEPT !.version_past = FALSE]
      [] w.kind \in {"put", "put_by_id"} ->
            [d EXCEPT !.upload_started = FALSE, !.version_seq = n, !.deleted = FALSE,
                      !.version_enabled = @ \/ m = "ENABLED"]
      [] OTHER -> DeleteMarkerDoc(n, w.kind = "insert_enabled")
Effect(w, d, n, m) ==
    CASE w.kind = "delete_and_unset_latest" ->
            [d EXCEPT !.deleted = TRUE, !.version_past = TRUE]
      [] w.kind \in {"delete", "delete_by_id"} -> [d EXCEPT !.deleted = TRUE]
      [] w.kind = "unset_latest" -> [d EXCEPT !.version_past = TRUE]
      [] w.kind = "set_latest"   -> [d EXCEPT !.version_past = FALSE]
      [] w.kind \in {"put", "put_by_id"} ->
            [d EXCEPT !.upload_started = FALSE, !.version_seq = n,
                      !.version_enabled = @ \/ m = "ENABLED"]
      [] OTHER -> DeleteMarkerDoc(n, w.kind = "insert_enabled")

(* The unique indexes of object_md_indexes.js.  MongoDB treats a missing   *)
(* field as an equal value; PostgreSQL treats NULL keys as distinct, so    *)
(* there only version_seq_index constrains, and only where it is set.      *)
Collide(d, e) ==
    /\ IsStored(d) /\ IsStored(e)
    /\ \/ d.version_seq = e.version_seq
          /\ (Backend = "mongodb" \/ d.version_seq # 0)
       \/ /\ Backend = "mongodb"
          /\ \/ ~d.version_past /\ ~e.version_past
             \/ ~d.version_enabled /\ ~e.version_enabled

Conflicts(o, d, M) == \E p \in Objs \ {o} : Collide(d, M[p])

Run(w, M, n, m) ==
    IF Matches(w, M[w.id])
    THEN [M EXCEPT ![w.id] = Effect(w, M[w.id], n, m)] ELSE M

\* nMatched and nModified both count the operation; Mongo does not count as
\* modified an update to the value already there, PostgreSQL does
Counted(w, M) ==
    \/ w.kind = "delete_by_id"
    \/ /\ Matches(w, M[w.id])
       /\ Backend = "mongodb" =>
            /\ w.kind = "unset_latest" => ~M[w.id].version_past
            /\ w.kind = "set_latest"   => M[w.id].version_past

-----------------------------------------------------------------------------
Idle == {r \in Reqs : pc[r] = "idle"}

Init ==
    /\ objs = [o \in Objs |-> NoDoc]
    /\ seq = 0
    /\ forked = FALSE
    /\ versioning \in InitModes
    /\ cache = [o \in Objs |-> NoDoc]
    /\ pc = [r \in Reqs |-> "idle"]
    /\ op = [r \in Reqs |-> "none"]
    /\ mode = [r \in Reqs |-> "DISABLED"]
    /\ obj = [r \in Reqs |-> Null]
    /\ other = [r \in Reqs |-> Null]
    /\ unseen = {}
    /\ vseq = [r \in Reqs |-> 0]
    /\ bulk = [r \in Reqs |-> <<>>]
    /\ full = [r \in Reqs |-> TRUE]
    /\ completed = {}
    /\ removed = {}

\* a request starts at label l: load_bucket() captures the bucket
Begin(r, name, l, o, n) ==
    /\ name \in Ops
    /\ pc[r] = "idle"
    /\ Cardinality(Reqs \ Idle) < MaxInFlight
    /\ pc' = [pc EXCEPT ![r] = l]
    /\ op' = [op EXCEPT ![r] = name]
    /\ mode' = [mode EXCEPT ![r] = versioning]
    /\ obj' = [obj EXCEPT ![r] = o]
    /\ vseq' = [vseq EXCEPT ![r] = n]
    /\ UNCHANGED <<db, versioning, cache, other, unseen, bulk, full, hist>>

\* a request is over: its locals are reset so that equal states meet
End(r) ==
    /\ pc' = [pc EXCEPT ![r] = "idle"]
    /\ op' = [op EXCEPT ![r] = "none"]
    /\ mode' = [mode EXCEPT ![r] = "DISABLED"]
    /\ obj' = [obj EXCEPT ![r] = Null]
    /\ other' = [other EXCEPT ![r] = Null]
    /\ unseen' = unseen \ {r}
    /\ vseq' = [vseq EXCEPT ![r] = 0]
    /\ bulk' = [bulk EXCEPT ![r] = <<>>]
    /\ full' = [full EXCEPT ![r] = TRUE]

Goto(r, l) ==
    /\ pc' = [pc EXCEPT ![r] = l]
    /\ unseen' = unseen \ {r}
    /\ UNCHANGED <<op, mode, full, versioning, hist>>

\* the request issues the operations b
Issue(r, b) ==
    /\ Goto(r, "write")
    /\ bulk' = [bulk EXCEPT ![r] = b]

-----------------------------------------------------------------------------
(* create_object_upload: the MD is inserted in upload mode and put in the  *)
(* cache.  With complete_upload (caching namespace buckets) it is inserted *)
(* as a stored object without a version_seq.                               *)

CreateUpload ==
    /\ "create" \in Ops
    /\ \E o \in Fresh :
        /\ objs' = [objs EXCEPT ![o] = UploadDoc]
        /\ cache' = [cache EXCEPT ![o] = UploadDoc]
    /\ UNCHANGED <<seq, forked, versioning, requests, hist>>

CreateComplete ==
    /\ "create_complete" \in Ops
    /\ versioning = "DISABLED"
    /\ \E o \in Fresh :
        /\ ~Conflicts(o, CachedObjectDoc, objs)
        /\ objs' = [objs EXCEPT ![o] = CachedObjectDoc]
        /\ cache' = [cache EXCEPT ![o] = CachedObjectDoc]
    /\ UNCHANGED <<seq, forked, versioning, requests, hist>>

-----------------------------------------------------------------------------
(* alloc_object_version_seq: $inc of the one document of a collection, by  *)
(* a query that names none, with upsert.  PostgreSQL's findOneAndUpdate    *)
(* updates, and only if that finds no document takes a lock, inserts one   *)
(* and updates it: the lock keeps out who holds it meanwhile (who then     *)
(* updates again), not who looked before.  Once there are two documents,   *)
(* an update meets both and throws.                                        *)

Allocates(r) == pc[r] \in {"alloc_version", "make_marker"}

\* mutant: the new number is not stored
NextNumberUnstored(r) ==
    /\ Backend = "mongodb" \/ seq # 0
    /\ ~forked
    /\ seq < MaxSeq
    /\ vseq' = [vseq EXCEPT ![r] = seq + 1]
    /\ UNCHANGED <<seq, forked>>
NextNumber(r) ==
    /\ Backend = "mongodb" \/ seq # 0
    /\ ~forked
    /\ seq < MaxSeq
    /\ seq' = seq + 1
    /\ vseq' = [vseq EXCEPT ![r] = seq + 1]
    /\ UNCHANGED forked

FirstNumber(r) ==
    /\ r \in unseen
    /\ MaxSeq > 0
    /\ seq' = IF seq = 0 THEN 1 ELSE seq
    /\ forked' = (forked \/ seq # 0)
    /\ vseq' = [vseq EXCEPT ![r] = 1]

Alloc(r) == NextNumber(r) \/ FirstNumber(r)

NoSequence(r) ==
    /\ Backend = "postgres"
    /\ Allocates(r)
    /\ seq = 0
    /\ unseen' = unseen \cup {r}
    /\ UNCHANGED <<db, versioning, cache, pc, op, mode, obj, other, vseq, bulk, full, hist>>

TwoSequences(r) ==
    /\ Allocates(r)
    /\ forked
    /\ r \notin unseen
    /\ End(r)
    /\ UNCHANGED <<db, versioning, cache, hist>>

-----------------------------------------------------------------------------
(* complete_object_upload *)

\* a client completes an upload; a completion is late ("recomplete") when
\* another one is in flight or has written, acknowledged or not, or the
\* upload was aborted
Late(o) == \/ o \in removed \/ ~objs[o].upload_started
           \/ \E r \in Reqs : obj[r] = o /\ op[r] \in Completions
Complete(r) ==
    \E o \in Uploads :
        Begin(r, IF Late(o) THEN "recomplete" ELSE "complete", "find_upload", o, 0)

\* find_cached_object_upload: the cached MD if there is one, else the stored
FindUpload(r) ==
    LET o == obj[r]
        md == IF cache[o].exists THEN cache[o] ELSE objs[o]
    IN  /\ pc[r] = "find_upload"
        /\ cache' = [cache EXCEPT ![o] = md]
        /\ \/ /\ IsLive(md) /\ md.upload_started
              /\ Goto(r, "alloc_version")
              /\ UNCHANGED <<db, obj, other, vseq, bulk>>
           \/ /\ ~(IsLive(md) /\ md.upload_started)
              /\ End(r)
              /\ UNCHANGED <<db, versioning, hist>>

AllocVersion(r) ==
    /\ pc[r] = "alloc_version"
    /\ Alloc(r)
    /\ Goto(r, "put_read")
    /\ UNCHANGED <<objs, cache, obj, other, bulk>>

\* _put_object_handle_latest: the first read
PutRead(r) ==
    /\ pc[r] = "put_read"
    /\ \E f \in FindOne(IF mode[r] = "ENABLED" THEN Latest ELSE NullVersions) :
        \/ /\ f = Null /\ mode[r] # "SUSPENDED"
           /\ Issue(r, <<Do("put_by_id", obj[r])>>)
           /\ UNCHANGED other
        \/ /\ f # Null /\ mode[r] = "ENABLED"
           /\ Issue(r, <<Do("unset_latest", f), Do("put", obj[r])>>)
           /\ UNCHANGED other
        \/ /\ f # Null /\ mode[r] # "ENABLED"
           /\ mode[r] = "SUSPENDED" => ~objs[f].version_past
           /\ Issue(r, <<Do("delete_and_unset_latest", f), Do("put", obj[r])>>)
           /\ UNCHANGED other
        \/ /\ mode[r] = "SUSPENDED"
           /\ f # Null => objs[f].version_past
           /\ Goto(r, "put_latest")
           /\ other' = [other EXCEPT ![r] = f]
           /\ UNCHANGED bulk
    /\ UNCHANGED <<db, cache, obj, vseq>>

\* ... and the second one, in a suspended bucket
\* mutant: the old null version is kept
PutLatestKeepingNull(r) ==
    /\ pc[r] = "put_latest"
    /\ \E f \in FindOne(Latest) :
        Issue(r, IF f = Null THEN <<Do("put_by_id", obj[r])>>
                 ELSE <<Do("unset_latest", f), Do("put", obj[r])>>)
    /\ UNCHANGED <<db, cache, obj, other, vseq>>
PutLatest(r) ==
    /\ pc[r] = "put_latest"
    /\ \E f \in FindOne(Latest) :
        Issue(r, CASE f = Null -> <<Do("put_by_id", obj[r])>>
                   [] f # Null /\ other[r] = Null ->
                        <<Do("unset_latest", f), Do("put", obj[r])>>
                   [] OTHER ->
                        <<Do("delete", other[r]), Do("unset_latest", f), Do("put", obj[r])>>)
    /\ UNCHANGED <<db, cache, obj, other, vseq>>

-----------------------------------------------------------------------------
(* abort_object_upload: find_object_upload, then delete_object_by_id       *)

Abort(r) == \E o \in Uploads : Begin(r, "abort", "abort_find", o, 0)

AbortFind(r) ==
    LET md == objs[obj[r]]
    IN  /\ pc[r] = "abort_find"
        /\ \/ /\ IsLive(md) /\ md.upload_started
              /\ Issue(r, <<Do("delete_by_id", obj[r])>>)
              /\ UNCHANGED <<db, cache, obj, other, vseq>>
           \/ /\ ~(IsLive(md) /\ md.upload_started)
              /\ End(r)
              /\ UNCHANGED <<db, cache, versioning, hist>>

-----------------------------------------------------------------------------
(* delete_object of a version: _delete_object_version *)

DeleteVersion(r) ==
    \/ \E o \in {p \in Objs : objs[p].version_seq # 0} :
          Begin(r, "delete_version", "version_read", Null, objs[o].version_seq)
    \/ Begin(r, "delete_null", "version_read", Null, 0)

VersionRead(r) ==
    /\ pc[r] = "version_read"
    /\ \E f \in IF vseq[r] = 0 THEN FindOne(NullVersionsOrUploads)
                ELSE IF mode[r] = "DISABLED" THEN {Null}
                ELSE FindOne(ByVersion(vseq[r])) :
        \/ /\ f = Null
           /\ End(r)
           /\ UNCHANGED <<db, cache, versioning, hist>>
        \/ /\ f # Null
           /\ obj' = [obj EXCEPT ![r] = f]
           /\ \/ mode[r] = "DISABLED"
                 /\ Issue(r, <<Do("delete_and_unset_latest", f)>>)
              \/ mode[r] # "DISABLED" /\ objs[f].version_past
                 /\ Issue(r, <<Do("delete_by_id", f)>>)
              \/ mode[r] # "DISABLED" /\ ~objs[f].version_past
                 /\ Goto(r, "version_prev")
                 /\ UNCHANGED bulk
           /\ UNCHANGED <<db, cache, other, vseq>>

\* deleting the latest: the previous version becomes the latest
VersionPrev(r) ==
    /\ pc[r] = "version_prev"
    /\ \E f \in FindOne(PrevVersions) :
        Issue(r, IF f = Null
                 THEN <<Do("delete_and_unset_latest", obj[r])>>
                 ELSE <<Do("delete_and_unset_latest", obj[r]), Do("set_latest", f)>>)
    /\ UNCHANGED <<db, cache, obj, other, vseq>>

-----------------------------------------------------------------------------
(* delete_object of a key: _delete_object_only_key *)

DeleteKey(r) == Begin(r, "delete_key", "key_read", Null, 0)

KeyRead(r) ==
    /\ pc[r] = "key_read"
    /\ \E f \in FindOne(IF mode[r] = "SUSPENDED" THEN NullVersions ELSE Latest) :
        \/ /\ mode[r] = "DISABLED" /\ f = Null
           /\ End(r)
           /\ UNCHANGED <<db, cache, versioning, hist>>
        \/ /\ mode[r] = "DISABLED" /\ f # Null
           /\ obj' = [obj EXCEPT ![r] = f]
           /\ Issue(r, <<Do("delete_and_unset_latest", f)>>)
           /\ UNCHANGED <<db, cache, other, vseq>>
        \/ /\ mode[r] = "ENABLED"
           /\ bulk' = [bulk EXCEPT ![r] =
                IF f = Null THEN <<>> ELSE <<Do("unset_latest", f)>>]
           /\ Goto(r, "make_marker")
           /\ UNCHANGED <<db, cache, obj, other, vseq>>
        \/ /\ mode[r] = "SUSPENDED" /\ f # Null /\ ~objs[f].version_past
           /\ obj' = [obj EXCEPT ![r] = f]
           /\ bulk' = [bulk EXCEPT ![r] = <<Do("delete_and_unset_latest", f)>>]
           /\ Goto(r, "make_marker")
           /\ UNCHANGED <<db, cache, other, vseq>>
        \/ /\ mode[r] = "SUSPENDED"
           /\ f # Null => objs[f].version_past
           /\ other' = [other EXCEPT ![r] = f]
           /\ Goto(r, "key_latest")
           /\ UNCHANGED <<db, cache, obj, vseq, bulk>>

\* the second read, in a suspended bucket.  The null version is a past one
\* and there is no latest: the handler throws
NoLatestToDelete(r) ==
    pc[r] = "key_latest" /\ other[r] # Null /\ Latest = {}

KeyLatest(r) ==
    /\ pc[r] = "key_latest"
    /\ \/ /\ NoLatestToDelete(r)
          /\ End(r)
          /\ UNCHANGED <<db, cache, versioning, hist>>
       \/ /\ ~NoLatestToDelete(r)
          /\ \E f \in FindOne(Latest) :
                bulk' = [bulk EXCEPT ![r] =
                    CASE f = Null -> <<>>
                      [] f # Null /\ other[r] = Null -> <<Do("unset_latest", f)>>
                      [] OTHER -> <<Do("unset_latest", f), Do("delete", other[r])>>]
          /\ obj' = [obj EXCEPT ![r] = other[r]]
          /\ Goto(r, "make_marker")
          /\ UNCHANGED <<db, cache, other, vseq>>

\* _delete_marker_from_obj allocates the marker's version; its insert is
\* the last operation of the bulk
MakeMarker(r) ==
    /\ pc[r] = "make_marker"
    /\ Alloc(r)
    /\ \E o \in Fresh : bulk' = [bulk EXCEPT ![r] = Append(@,
          Do(IF mode[r] = "ENABLED" THEN "insert_enabled" ELSE "insert_null", o))]
    /\ Goto(r, "write")
    /\ UNCHANGED <<objs, cache, obj, other>>

-----------------------------------------------------------------------------
(* Executing a bulk.  MongoDB runs an ordered bulk one operation at a      *)
(* time, other requests in between, and stops at an error; PostgreSQL runs *)
(* it in one transaction, which is rolled back on an error but committed   *)
(* when an UPDATE matched no row.  Only afterwards does the handler count  *)
(* the matches and fail the request when one is missing.                   *)

Reply(r, ok) ==
    /\ completed' = IF ok /\ op[r] \in Completions
                    THEN completed \cup {obj[r]} ELSE completed
    /\ removed' = IF ok /\ op[r] \in Deletes /\ obj[r] # Null
                  THEN removed \cup {obj[r]} ELSE removed
    /\ End(r)

WriteMongo(r) ==
    LET w    == Head(bulk[r])
        M    == Run(w, objs, vseq[r], mode[r])
        good == full[r] /\ Counted(w, objs)
    IN  /\ Backend = "mongodb"
        /\ pc[r] = "write"
        /\ \/ /\ Conflicts(w.id, M[w.id], objs)
              /\ Reply(r, FALSE)
              /\ UNCHANGED objs
           \/ /\ ~Conflicts(w.id, M[w.id], objs)
              /\ objs' = M
              /\ Len(bulk[r]) = 1
              /\ Reply(r, good)
           \/ /\ ~Conflicts(w.id, M[w.id], objs)
              /\ objs' = M
              /\ Len(bulk[r]) > 1
              /\ bulk' = [bulk EXCEPT ![r] = Tail(@)]
              /\ full' = [full EXCEPT ![r] = good]
              /\ UNCHANGED <<pc, op, mode, obj, other, unseen, vseq, hist>>
        /\ UNCHANGED <<seq, forked, versioning, cache>>

\* the collection before and after each operation of bulk b (at most three)
Stages(b, n, m) ==
    LET s1 == Run(b[1], objs, n, m)
        s2 == IF Len(b) > 1 THEN Run(b[2], s1, n, m) ELSE s1
        s3 == IF Len(b) > 2 THEN Run(b[3], s2, n, m) ELSE s2
    IN  <<objs, s1, s2, s3>>

WritePostgres(r) ==
    LET b  == bulk[r]
        st == Stages(b, vseq[r], mode[r])
        conflict == \E i \in 1..Len(b) :
                        Conflicts(b[i].id, st[i + 1][b[i].id], st[i])
    IN  /\ Backend = "postgres"
        /\ pc[r] = "write"
        /\ \/ conflict /\ Reply(r, FALSE) /\ UNCHANGED objs
           \/ /\ ~conflict
              /\ objs' = st[4]
              /\ Reply(r, \A i \in 1..Len(b) : Counted(b[i], st[i]))
        /\ UNCHANGED <<seq, forked, versioning, cache>>

Write(r) == WriteMongo(r) \/ WritePostgres(r)

-----------------------------------------------------------------------------
(* The environment *)

\* a request dies: a crash of the server process, a lost connection to the
\* database, or md_conditions that do not hold.  What it wrote stays
Fail(r) ==
    /\ "fail" \in Ops
    /\ pc[r] # "idle"
    /\ End(r)
    /\ UNCHANGED <<db, versioning, cache, hist>>

\* a cached MD is dropped: its second is over, the cache is full, the
\* process restarted
Expire(o) ==
    /\ "expire" \in Ops
    /\ cache[o].exists
    /\ cache' = [cache EXCEPT ![o] = NoDoc]
    /\ UNCHANGED <<db, versioning, requests, hist>>

\* update_bucket: versioning is never set back to DISABLED
SetVersioning ==
    /\ \E m \in SwitchTo \ {versioning} : versioning' = m
    /\ UNCHANGED <<db, cache, requests, hist>>

Start(r) == Complete(r) \/ Abort(r) \/ DeleteVersion(r) \/ DeleteKey(r)

Advance(r) ==
    \/ FindUpload(r) \/ AllocVersion(r) \/ PutRead(r) \/ PutLatest(r)
    \/ NoSequence(r) \/ TwoSequences(r)
    \/ AbortFind(r)
    \/ VersionRead(r) \/ VersionPrev(r)
    \/ KeyRead(r) \/ KeyLatest(r) \/ MakeMarker(r)
    \/ Write(r)

Next ==
    \/ CreateUpload \/ CreateComplete \/ SetVersioning
    \/ \E o \in Objs : Expire(o)
    \/ \E r \in Reqs : Start(r) \/ Advance(r) \/ Fail(r)

Spec == Init /\ [][Next]_vars

-----------------------------------------------------------------------------
(* Properties *)

\* Every variable keeps to the values the code can give it: in particular a
\* bulk is a sequence of at most three operations, and a version_seq was
\* allocated by alloc_object_version_seq().
SharedTypes ==
    /\ objs \in [Objs -> Doc]
    /\ seq \in Nat
    /\ versioning \in {"DISABLED", "ENABLED", "SUSPENDED"}
    /\ cache \in [Objs -> Doc]
    /\ completed \subseteq Objs
    /\ removed \subseteq Objs
RequestTypes ==
    /\ pc \in [Reqs -> {"idle", "find_upload", "alloc_version", "put_read",
                        "put_latest", "abort_find", "version_read",
                        "version_prev", "key_read", "key_latest",
                        "make_marker", "write"}]
    /\ op \in [Reqs -> AllOps \cup {"none"}]
    /\ mode \in [Reqs -> {"DISABLED", "ENABLED", "SUSPENDED"}]
    /\ obj \in [Reqs -> Objs \cup {Null}]
    /\ other \in [Reqs -> Objs \cup {Null}]
    /\ vseq \in [Reqs -> Nat]
    /\ bulk \in [Reqs -> Seq(DbOp)]
    /\ full \in [Reqs -> BOOLEAN]
SequenceTypes == forked \in BOOLEAN /\ unseen \subseteq Reqs
TypeOK ==
    /\ SharedTypes /\ SequenceTypes
    /\ RequestTypes
    /\ \A r \in Reqs : Len(bulk[r]) <= 3 /\ (pc[r] = "write" => bulk[r] # <<>>)

\* A key has one latest version (find_object_latest), whatever requests race.
UniqueLatest == \A o, p \in Latest : o = p

\* A version id names one version: no two documents of the key ever carry the
\* same version_seq, deleted ones included, so a version id is not reused (on
\* PostgreSQL, as long as the sequence has one document).
UniqueVersionSeq ==
    \A o, p \in Objs : objs[o].version_seq = objs[p].version_seq
                         => o = p \/ objs[o].version_seq = 0

\* What delete_object or abort_object_upload replied to have deleted stays
\* deleted, whatever stale snapshot another request writes back later.
DeletedStaysDeleted == \A o \in removed : objs[o].deleted

\* While the key has versions one of them is the latest: a GET of a key
\* whose versions exist does not answer NO_SUCH_OBJECT.
LatestExists == Stored # {} => Latest # {}

\* The handler of delete_object for a suspended bucket never finds a past null
\* version without a latest ("Should not happen", object_server.js).
NeverWithoutLatest == \A r \in Reqs : ~NoLatestToDelete(r)

\* complete_object_upload never deletes or hides the object it completes.
CompletionKeepsObject ==
    \A r \in Reqs : op[r] \in Completions =>
        \A i \in DOMAIN bulk[r] :
            bulk[r][i].kind \notin {"put", "put_by_id"} => bulk[r][i].id # obj[r]
=============================================================================
