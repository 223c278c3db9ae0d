------------------------ MODULE ObjectVersionsProofs ------------------------
(* Theorems about ObjectVersions, for every number of objects and requests. *)
EXTENDS ObjectVersions, SequenceTheorems, TLAPS

-----------------------------------------------------------------------------
(* The inductive invariant: besides the types, a request that works on an  *)
(* object has one, completions and deletes keep to their own handlers, and *)
(* a delete leaves room in its bulk for a delete marker.                   *)

HasObject == {"find_upload", "alloc_version", "put_read", "put_latest",
              "abort_find", "version_prev"}
DeletePath == {"version_read", "version_prev", "key_read", "key_latest", "make_marker"}

IsBulk(b, n) == b \in Seq(DbOp) /\ Len(b) <= n

ReqInv(r) ==
    /\ pc[r] \in HasObject \/ op[r] \in Completions => obj[r] \in Objs
    /\ pc[r] \in DeletePath => op[r] \notin Completions
    /\ IF pc[r] = "write" THEN IsBulk(bulk[r], 3) /\ bulk[r] # <<>> ELSE IsBulk(bulk[r], 2)

IInv == SharedTypes /\ RequestTypes /\ \A r \in Reqs : ReqInv(r)

\* The invariant gives the type invariant.
LEMMA IInvTypeOK == IInv /\ SequenceTypes => TypeOK
  BY DEF IInv, TypeOK, ReqInv, IsBulk, RequestTypes

-----------------------------------------------------------------------------
(* Lemmas about documents and database operations                          *)

\* Every operation of md_store.js leaves a well-formed document.
LEMMA EffectType ==
    ASSUME NEW w \in DbOp, NEW d \in Doc, NEW n \in Nat, NEW m
    PROVE  Effect(w, d, n, m) \in Doc
  <1>1. ASSUME NEW a \in BOOLEAN, NEW b \in BOOLEAN
        PROVE  /\ [d EXCEPT !.deleted = a, !.version_past = b] \in Doc
               /\ [d EXCEPT !.deleted = a] \in Doc
               /\ [d EXCEPT !.version_past = a] \in Doc
               /\ [d EXCEPT !.upload_started = a, !.version_seq = n, !.version_enabled = b] \in Doc
               /\ DeleteMarkerDoc(n, a) \in Doc
    BY DEF Doc, DeleteMarkerDoc, NoDoc
  <1>2. (d.version_enabled \/ m = "ENABLED") \in BOOLEAN /\ (w.kind = "insert_enabled") \in BOOLEAN
    OBVIOUS
  <1> QED
    BY <1>1, <1>2, Zenon DEF Effect

\* ... and a well-formed collection.
LEMMA RunType ==
    ASSUME NEW w \in DbOp, NEW M \in [Objs -> Doc], NEW n \in Nat, NEW m
    PROVE  Run(w, M, n, m) \in [Objs -> Doc]
  BY EffectType DEF Run, DbOp

\* Queries return an object of the key or nothing.
LEMMA FindOneType ==
    ASSUME NEW S, S \subseteq Objs, NEW f \in FindOne(S)
    PROVE  f \in Objs \cup {Null} /\ (f # Null => f \in S)
  BY DEF FindOne

\* A transaction leaves a well-formed collection.
LEMMA StagesType ==
    ASSUME NEW b \in Seq(DbOp), b # <<>>, objs \in [Objs -> Doc], NEW n \in Nat, NEW m
    PROVE  \A i \in 1..4 : Stages(b, n, m)[i] \in [Objs -> Doc]
  <1> DEFINE s1 == Run(b[1], objs, n, m)
             s2 == IF Len(b) > 1 THEN Run(b[2], s1, n, m) ELSE s1
             s3 == IF Len(b) > 2 THEN Run(b[3], s2, n, m) ELSE s2
  <1>1. s1 \in [Objs -> Doc]
    <2>1. b[1] \in DbOp
      OBVIOUS
    <2> QED  BY <2>1, RunType
  <1>2. s2 \in [Objs -> Doc]
    <2>1. Len(b) > 1 => b[2] \in DbOp
      OBVIOUS
    <2> HIDE DEF s1
    <2> QED  BY <1>1, <2>1, RunType
  <1>3. s3 \in [Objs -> Doc]
    <2>1. Len(b) > 2 => b[3] \in DbOp
      OBVIOUS
    <2> HIDE DEF s2
    <2> QED  BY <1>2, <2>1, RunType
  <1>4. Stages(b, n, m) = <<objs, s1, s2, s3>>
    BY DEF Stages
  <1> HIDE DEF s1, s2, s3
  <1> QED  BY <1>1, <1>2, <1>3, <1>4

-----------------------------------------------------------------------------
(* A step of one request *)

\* What a step of request r leaves alone: the locals of the other requests.
Only(r) == \A q \in Reqs \ {r} :
    pc'[q] = pc[q] /\ op'[q] = op[q] /\ obj'[q] = obj[q] /\ bulk'[q] = bulk[q]

\* A step that keeps the types and leaves its own request in order keeps the
\* invariant.
LEMMA StepOf ==
    ASSUME IInv, SharedTypes', RequestTypes', NEW r \in Reqs, Only(r), ReqInv(r)'
    PROVE  IInv'
  <1>1. ASSUME NEW q \in Reqs PROVE ReqInv(q)'
    <2>1. CASE q = r
      BY <2>1
    <2>2. CASE q # r
      <3>1. pc'[q] = pc[q] /\ op'[q] = op[q] /\ obj'[q] = obj[q] /\ bulk'[q] = bulk[q]
        BY <2>2 DEF Only
      <3>2. ReqInv(q)
        BY DEF IInv
      <3> QED  BY <3>1, <3>2 DEF ReqInv
    <2> QED  BY <2>1, <2>2
  <1> QED  BY <1>1 DEF IInv

\* A request that ends, with or without an acknowledgement.
LEMMA Ends ==
    ASSUME IInv, SharedTypes', NEW r \in Reqs, End(r)
    PROVE  IInv'
  <1>1. RequestTypes'
    BY DEF IInv, RequestTypes, End
  <1>2. Only(r)
    BY DEF IInv, RequestTypes, End, Only
  <1>3. /\ pc'[r] = "idle" /\ op'[r] = "none" /\ bulk'[r] = <<>>
    BY DEF IInv, RequestTypes, End
  <1>4. ReqInv(r)'
    BY <1>3 DEF ReqInv, IsBulk, HasObject, DeletePath, Completions
  <1> QED  BY <1>1, <1>2, <1>4, StepOf

\* A request that finds nothing to do, or fails.
LEMMA EndsUnacknowledged ==
    ASSUME IInv, NEW r \in Reqs, End(r), UNCHANGED <<db, cache, versioning, hist>>
    PROVE  IInv'
  <1>1. SharedTypes'
    BY DEF SharedTypes, IInv, db, hist
  <1> QED  BY <1>1, Ends

\* A request that replies after its last operation.
LEMMA Replies ==
    ASSUME IInv, NEW r \in Reqs, NEW ok, Reply(r, ok), NEW M \in [Objs -> Doc],
           objs' = M, UNCHANGED <<seq, versioning, cache>>
    PROVE  IInv'
  <1>1. ReqInv(r) /\ obj[r] \in Objs \cup {Null}
    BY DEF IInv, RequestTypes
  <1>2. completed' \subseteq Objs
    BY <1>1 DEF Reply, IInv, SharedTypes, ReqInv
  <1>3. removed' \subseteq Objs
    BY <1>1 DEF Reply, IInv, SharedTypes
  <1>4. SharedTypes'
    BY <1>2, <1>3 DEF IInv, SharedTypes
  <1> QED  BY <1>4, Ends DEF Reply

\* A request that keeps its object, or picks one, which only deletes do.
KeepsOrPicks(r) ==
    \/ obj' = obj
    \/ op[r] \notin Completions /\ \E o \in Objs \cup {Null} : obj' = [obj EXCEPT ![r] = o]

LEMMA ObjTypes ==
    ASSUME IInv, NEW r \in Reqs, KeepsOrPicks(r)
    PROVE  /\ obj' \in [Reqs -> Objs \cup {Null}]
           /\ \A q \in Reqs \ {r} : obj'[q] = obj[q]
           /\ op[r] \in Completions => obj'[r] \in Objs
  <1>1. ReqInv(r) /\ obj \in [Reqs -> Objs \cup {Null}]
    BY DEF IInv, RequestTypes
  <1>2. op[r] \in Completions => obj[r] \in Objs
    BY <1>1 DEF ReqInv
  <1> QED  BY <1>1, <1>2 DEF KeepsOrPicks

\* A request that issues the operations b.
LEMMA Issues ==
    ASSUME IInv, NEW r \in Reqs, NEW b, IsBulk(b, 3), b # <<>>, Issue(r, b),
           KeepsOrPicks(r), UNCHANGED <<db, cache, other, vseq>>
    PROVE  IInv'
  <1>1. SharedTypes'
    BY DEF IInv, SharedTypes, Issue, Goto, db, hist
  <1>2. RequestTypes'
    BY ObjTypes DEF IInv, RequestTypes, Issue, Goto, IsBulk
  <1>3. /\ pc'[r] = "write" /\ op'[r] = op[r] /\ bulk'[r] = b
        /\ \A q \in Reqs \ {r} : pc'[q] = pc[q] /\ op'[q] = op[q] /\ bulk'[q] = bulk[q]
    BY DEF IInv, RequestTypes, Issue, Goto
  <1>4. Only(r)
    BY <1>3, ObjTypes DEF Only
  <1>5. ReqInv(r)'
    BY <1>3, ObjTypes DEF ReqInv, HasObject, DeletePath
  <1> QED  BY <1>1, <1>2, <1>4, <1>5, StepOf

\* A delete that goes on, reading or making its marker, with the bulk b.
LEMMA Proceeds ==
    ASSUME IInv, NEW r \in Reqs, NEW l \in DeletePath, Goto(r, l),
           op[r] \notin Completions, l = "version_prev" => obj'[r] \in Objs,
           NEW b, IsBulk(b, 2), bulk' = [bulk EXCEPT ![r] = b],
           KeepsOrPicks(r), other' \in [Reqs -> Objs \cup {Null}],
           UNCHANGED <<db, cache, vseq>>
    PROVE  IInv'
  <1>1. SharedTypes'
    BY DEF IInv, SharedTypes, Goto, db, hist
  <1>2. RequestTypes'
    BY ObjTypes DEF IInv, RequestTypes, Goto, IsBulk, DeletePath
  <1>3. /\ pc'[r] = l /\ op'[r] = op[r] /\ bulk'[r] = b
        /\ \A q \in Reqs \ {r} : pc'[q] = pc[q] /\ op'[q] = op[q] /\ bulk'[q] = bulk[q]
    BY DEF IInv, RequestTypes, Goto
  <1>4. Only(r)
    BY <1>3, ObjTypes DEF Only
  <1>5. ReqInv(r)'
    BY <1>3 DEF ReqInv, HasObject, DeletePath
  <1> QED  BY <1>1, <1>2, <1>4, <1>5, StepOf

\* Bulks of one, two and three operations on objects of the key.
LEMMA Bulk1 ==
    ASSUME NEW k \in Kinds, NEW o \in Objs
    PROVE  IsBulk(<<Do(k, o)>>, 2) /\ IsBulk(<<Do(k, o)>>, 3) /\ <<Do(k, o)>> # <<>>
  BY DEF Do, DbOp, IsBulk
LEMMA Bulk2 ==
    ASSUME NEW k \in Kinds, NEW o \in Objs, NEW l \in Kinds, NEW p \in Objs
    PROVE  /\ IsBulk(<<Do(k, o), Do(l, p)>>, 2) /\ IsBulk(<<Do(k, o), Do(l, p)>>, 3)
           /\ <<Do(k, o), Do(l, p)>> # <<>>
  BY DEF Do, DbOp, IsBulk
LEMMA Bulk3 ==
    ASSUME NEW k \in Kinds, NEW o \in Objs, NEW l \in Kinds, NEW p \in Objs,
           NEW m \in Kinds, NEW q \in Objs
    PROVE  /\ IsBulk(<<Do(k, o), Do(l, p), Do(m, q)>>, 3)
           /\ <<Do(k, o), Do(l, p), Do(m, q)>> # <<>>
  BY DEF Do, DbOp, IsBulk

\* What is left of a bulk of at least two operations once its first is executed.
LEMMA TailBulk ==
    ASSUME NEW b, IsBulk(b, 3), Len(b) > 1
    PROVE  IsBulk(Tail(b), 3) /\ Tail(b) # <<>>
  <1>1. b \in Seq(DbOp) /\ Len(b) <= 3
    BY DEF IsBulk
  <1>2. Len(b) \in Nat
    BY <1>1, LenProperties
  <1>3. b # <<>>
    BY <1>1, EmptySeq
  <1>4. Tail(b) \in Seq(DbOp) /\ Len(Tail(b)) = Len(b) - 1
    BY <1>1, <1>3, HeadTailProperties
  <1> DEFINE n == Len(b)
             t == Tail(b)
  <1>5. Len(t) # 0 /\ Len(t) <= 3
    <2>1. n \in Nat /\ n <= 3 /\ n > 1 /\ Len(t) = n - 1
      BY <1>1, <1>2, <1>4
    <2> HIDE DEF n, t
    <2> QED  BY <2>1
  <1>6. Len(<<>>) = 0
    BY EmptySeq
  <1> QED  BY <1>4, <1>5, <1>6, Zenon DEF IsBulk

-----------------------------------------------------------------------------
(* The invariant is inductive: one step per action                         *)

\* An empty collection and idle requests are in order.
LEMMA InitIInv == Init => IInv
  BY ModesAssumption
     DEF Init, IInv, SharedTypes, RequestTypes, ReqInv, IsBulk, HasObject, DeletePath,
         NoDoc, Doc, AllOps, Completions

\* A request starts with load_bucket(), before the first query of its handler.
LEMMA BeginIInv ==
    ASSUME IInv, NEW r \in Reqs, NEW name \in AllOps,
           NEW l \in {"find_upload", "abort_find", "version_read", "key_read"},
           NEW o \in Objs \cup {Null},
           l \in {"find_upload", "abort_find"} => o \in Objs,
           name \in Completions <=> l = "find_upload",
           NEW n \in Nat, Begin(r, name, l, o, n)
    PROVE  IInv'
  <1>1. SharedTypes'
    BY DEF IInv, SharedTypes, Begin, db, hist
  <1>2. RequestTypes'
    BY DEF IInv, RequestTypes, Begin, IInv, SharedTypes
  <1>3. /\ pc'[r] = l /\ op'[r] = name /\ obj'[r] = o /\ bulk'[r] = bulk[r]
        /\ \A q \in Reqs \ {r} :
              pc'[q] = pc[q] /\ op'[q] = op[q] /\ obj'[q] = obj[q] /\ bulk'[q] = bulk[q]
    BY DEF IInv, RequestTypes, Begin
  <1>4. Only(r)
    BY <1>3 DEF Only
  <1>5. IsBulk(bulk[r], 2)
    BY DEF IInv, ReqInv, Begin
  <1>6. ReqInv(r)'
    BY <1>3, <1>5 DEF ReqInv, HasObject, DeletePath
  <1> QED  BY <1>1, <1>2, <1>4, <1>6, StepOf

\* Steps that touch no request: only the types have to be checked.
LEMMA SharedOnly ==
    ASSUME IInv, SharedTypes', UNCHANGED <<pc, op, mode, obj, other, vseq, bulk, full>>
    PROVE  IInv'
  <1>1. RequestTypes'
    BY DEF IInv, RequestTypes
  <1>2. \A r \in Reqs : ReqInv(r)'
    BY DEF IInv, ReqInv
  <1> QED  BY <1>1, <1>2 DEF IInv

\* A number that was allocated is a number, and so is the sequence.
LEMMA AllocTypes ==
    ASSUME seq \in Nat, vseq \in [Reqs -> Nat], NEW r \in Reqs, Alloc(r)
    PROVE  seq' \in Nat /\ vseq' \in [Reqs -> Nat] /\ \A q \in Reqs \ {r} : vseq'[q] = vseq[q]
  BY DEF Alloc, NextNumber, FirstNumber

\* Every step keeps the invariant.
LEMMA StepIInv == IInv /\ [Next]_vars => IInv'
  <1> SUFFICES ASSUME IInv, [Next]_vars PROVE IInv'
    OBVIOUS
  <1>0. /\ objs \in [Objs -> Doc] /\ vseq \in [Reqs -> Nat] /\ full \in [Reqs -> BOOLEAN]
        /\ other \in [Reqs -> Objs \cup {Null}] /\ bulk \in [Reqs -> Seq(DbOp)]
        /\ \A r \in Reqs : /\ pc[r] \in HasObject => obj[r] \in Objs
                           /\ pc[r] \in DeletePath => op[r] \notin Completions
                           /\ IF pc[r] = "write" THEN IsBulk(bulk[r], 3) /\ bulk[r] # <<>>
                              ELSE IsBulk(bulk[r], 2)
    BY DEF IInv, ReqInv, SharedTypes, RequestTypes
  <1>1. CASE CreateUpload
    <2>1. UploadDoc \in Doc
      BY DEF UploadDoc, NoDoc, Doc
    <2>2. SharedTypes'
      BY <1>1, <2>1 DEF CreateUpload, IInv, SharedTypes, Fresh, hist
    <2> QED  BY <1>1, <2>2, SharedOnly DEF CreateUpload, requests
  <1>2. CASE CreateComplete
    <2>1. CachedObjectDoc \in Doc
      BY DEF CachedObjectDoc, NoDoc, Doc
    <2>2. SharedTypes'
      BY <1>2, <2>1 DEF CreateComplete, IInv, SharedTypes, Fresh, hist
    <2> QED  BY <1>2, <2>2, SharedOnly DEF CreateComplete, requests
  <1>3. CASE SetVersioning
    <2>1. SharedTypes'
      BY <1>3, ModesAssumption DEF SetVersioning, IInv, SharedTypes, db, hist
    <2> QED  BY <1>3, <2>1, SharedOnly DEF SetVersioning, requests
  <1>4. ASSUME NEW o \in Objs, Expire(o) PROVE IInv'
    <2>1. NoDoc \in Doc
      BY DEF NoDoc, Doc
    <2>2. SharedTypes'
      BY <1>4, <2>1 DEF Expire, IInv, SharedTypes, db, hist
    <2> QED  BY <1>4, <2>2, SharedOnly DEF Expire, requests
  <1>5. ASSUME NEW r \in Reqs, Complete(r) PROVE IInv'
    <2>1. PICK o \in Objs, name \in Completions : Begin(r, name, "find_upload", o, 0)
      BY <1>5 DEF Complete, Completions, Uploads
    <2> QED  BY <2>1, BeginIInv DEF AllOps
  <1>6. ASSUME NEW r \in Reqs, Abort(r) PROVE IInv'
    <2>1. PICK o \in Objs : Begin(r, "abort", "abort_find", o, 0)
      BY <1>6 DEF Abort, Uploads
    <2> QED  BY <2>1, BeginIInv DEF AllOps, Deletes, Completions
  <1>7. ASSUME NEW r \in Reqs, DeleteVersion(r) PROVE IInv'
    <2>1. PICK name \in {"delete_version", "delete_null"}, n \in Nat :
            Begin(r, name, "version_read", Null, n)
      BY <1>7, <1>0 DEF DeleteVersion, Doc
    <2> QED  BY <2>1, BeginIInv DEF AllOps, Deletes, Completions
  <1>8. ASSUME NEW r \in Reqs, DeleteKey(r) PROVE IInv'
    BY <1>8, BeginIInv DEF DeleteKey, AllOps, Deletes, Completions
  <1>9. ASSUME NEW r \in Reqs, FindUpload(r) PROVE IInv'
    <2>1. SharedTypes'
      BY <1>9 DEF FindUpload, Goto, End, IInv, SharedTypes, db, hist
    <2>2. CASE Goto(r, "alloc_version") /\ UNCHANGED <<obj, other, vseq, bulk>>
      <3>1. obj[r] \in Objs /\ IsBulk(bulk[r], 2)
        BY <1>0, <1>9 DEF FindUpload, HasObject
      <3>2. pc'[r] = "alloc_version" /\ RequestTypes' /\ Only(r)
        BY <2>2 DEF Goto, Only, IInv, RequestTypes
      <3>3. ReqInv(r)'
        BY <2>2, <3>1, <3>2 DEF ReqInv, HasObject, DeletePath
      <3> QED  BY <2>1, <3>2, <3>3, StepOf
    <2> QED  BY <1>9, <2>1, <2>2, Ends DEF FindUpload
  <1>10. ASSUME NEW r \in Reqs, AllocVersion(r) PROVE IInv'
    <2>0. seq' \in Nat /\ vseq' \in [Reqs -> Nat]
      BY <1>10, AllocTypes DEF AllocVersion, IInv, SharedTypes, RequestTypes
    <2>1. SharedTypes'
      BY <1>10, <2>0 DEF AllocVersion, Goto, IInv, SharedTypes, hist
    <2>2. obj[r] \in Objs /\ IsBulk(bulk[r], 2)
      BY <1>0, <1>10 DEF AllocVersion, HasObject
    <2>3. pc'[r] = "put_read" /\ RequestTypes' /\ Only(r)
      BY <1>10, <2>0 DEF AllocVersion, Goto, Only, IInv, SharedTypes, RequestTypes
    <2>4. ReqInv(r)'
      BY <1>10, <2>2, <2>3 DEF AllocVersion, ReqInv, HasObject, DeletePath
    <2> QED  BY <2>1, <2>3, <2>4, StepOf
  <1>11. ASSUME NEW r \in Reqs, PutRead(r) PROVE IInv'
    <2>1. obj[r] \in Objs /\ IsBulk(bulk[r], 2)
      BY <1>0, <1>11 DEF PutRead, HasObject
    <2>2. PICK f \in Objs \cup {Null} :
            \/ /\ UNCHANGED <<db, cache, obj, other, vseq>>
               /\ \/ Issue(r, <<Do("put_by_id", obj[r])>>)
                  \/ \E k \in Kinds : f \in Objs /\ Issue(r, <<Do(k, f), Do("put", obj[r])>>)
            \/ /\ Goto(r, "put_latest") /\ other' = [other EXCEPT ![r] = f]
               /\ UNCHANGED <<db, cache, obj, vseq, bulk>>
      BY <1>11 DEF PutRead, FindOne, Latest, NullVersions, Stored, Kinds
    <2>3. CASE Issue(r, <<Do("put_by_id", obj[r])>>) /\ UNCHANGED <<db, cache, obj, other, vseq>>
      BY <2>1, <2>3, Bulk1, Issues DEF Kinds, KeepsOrPicks
    <2>4. ASSUME NEW k \in Kinds, f \in Objs, Issue(r, <<Do(k, f), Do("put", obj[r])>>),
                 UNCHANGED <<db, cache, obj, other, vseq>>
          PROVE  IInv'
      <3> DEFINE b == <<Do(k, f), Do("put", obj[r])>>
      <3>1. IsBulk(b, 3) /\ b # <<>>
        BY <2>1, <2>4, Bulk2, Zenon DEF Kinds
      <3> HIDE DEF b
      <3>2. Issue(r, b) /\ KeepsOrPicks(r)
        BY <2>4, Zenon DEF b, KeepsOrPicks
      <3> QED  BY <2>4, <3>1, <3>2, Issues
    <2>5. CASE /\ Goto(r, "put_latest") /\ other' = [other EXCEPT ![r] = f]
               /\ UNCHANGED <<db, cache, obj, vseq, bulk>>
      <3>1. SharedTypes'
        BY <2>5 DEF Goto, IInv, SharedTypes, db, hist
      <3>2. pc'[r] = "put_latest" /\ RequestTypes' /\ Only(r)
        BY <2>5 DEF Goto, Only, IInv, RequestTypes
      <3>3. ReqInv(r)'
        BY <2>1, <2>5, <3>2 DEF ReqInv, HasObject, DeletePath
      <3> QED  BY <3>1, <3>2, <3>3, StepOf
    <2> QED  BY <2>2, <2>3, <2>4, <2>5
  <1>12. ASSUME NEW r \in Reqs, PutLatest(r) PROVE IInv'
    <2>1. obj[r] \in Objs /\ other[r] \in Objs \cup {Null}
      BY <1>0, <1>12 DEF PutLatest, HasObject
    <2>2. PICK f \in Objs \cup {Null} :
            \/ Issue(r, <<Do("put_by_id", obj[r])>>)
            \/ f \in Objs /\ Issue(r, <<Do("unset_latest", f), Do("put", obj[r])>>)
            \/ /\ f \in Objs /\ other[r] \in Objs
               /\ Issue(r, <<Do("delete", other[r]), Do("unset_latest", f), Do("put", obj[r])>>)
      BY <1>12, <2>1 DEF PutLatest, FindOne, Latest, Stored
    <2>3. UNCHANGED <<db, cache, obj, other, vseq>>
      BY <1>12 DEF PutLatest
    <2>4. CASE Issue(r, <<Do("put_by_id", obj[r])>>)
      BY <2>1, <2>3, <2>4, Bulk1, Issues DEF Kinds, KeepsOrPicks
    <2>5. CASE f \in Objs /\ Issue(r, <<Do("unset_latest", f), Do("put", obj[r])>>)
      <3> DEFINE b == <<Do("unset_latest", f), Do("put", obj[r])>>
      <3>1. IsBulk(b, 3) /\ b # <<>>
        BY <2>1, <2>5, Bulk2, Zenon DEF Kinds
      <3> HIDE DEF b
      <3>2. Issue(r, b) /\ KeepsOrPicks(r)
        BY <2>3, <2>5 DEF b, KeepsOrPicks
      <3> QED  BY <2>3, <3>1, <3>2, Issues
    <2>6. CASE /\ f \in Objs /\ other[r] \in Objs
               /\ Issue(r, <<Do("delete", other[r]), Do("unset_latest", f), Do("put", obj[r])>>)
      <3> DEFINE b == <<Do("delete", other[r]), Do("unset_latest", f), Do("put", obj[r])>>
      <3>1. IsBulk(b, 3) /\ b # <<>>
        BY <2>1, <2>6, Bulk3, Zenon DEF Kinds
      <3> HIDE DEF b
      <3>2. Issue(r, b) /\ KeepsOrPicks(r)
        BY <2>3, <2>6 DEF b, KeepsOrPicks
      <3> QED  BY <2>3, <3>1, <3>2, Issues
    <2> QED  BY <2>2, <2>4, <2>5, <2>6
  <1>13. ASSUME NEW r \in Reqs, AbortFind(r) PROVE IInv'
    <2>1. obj[r] \in Objs
      BY <1>0, <1>13 DEF AbortFind, HasObject
    <2>2. CASE /\ Issue(r, <<Do("delete_by_id", obj[r])>>)
               /\ UNCHANGED <<db, cache, obj, other, vseq>>
      BY <2>1, <2>2, Bulk1, Issues DEF Kinds, KeepsOrPicks
    <2> QED  BY <1>13, <2>2, EndsUnacknowledged DEF AbortFind
  <1>14. ASSUME NEW r \in Reqs, VersionRead(r) PROVE IInv'
    <2>1. op[r] \notin Completions /\ IsBulk(bulk[r], 2) /\ bulk = [bulk EXCEPT ![r] = bulk[r]]
      BY <1>0, <1>14 DEF VersionRead, DeletePath
    <2>2. PICK f \in Objs \cup {Null} :
            \/ End(r) /\ UNCHANGED <<db, cache, versioning, hist>>
            \/ /\ f \in Objs /\ obj' = [obj EXCEPT ![r] = f]
               /\ UNCHANGED <<db, cache, other, vseq>>
               /\ \/ \E k \in Kinds : Issue(r, <<Do(k, f)>>)
                  \/ Goto(r, "version_prev") /\ UNCHANGED bulk
      BY <1>14 DEF VersionRead, ByVersion, NullVersionsOrUploads, Stored, FindOne, Kinds
    <2>3. ASSUME f \in Objs, obj' = [obj EXCEPT ![r] = f], UNCHANGED <<db, cache, other, vseq>>
          PROVE  KeepsOrPicks(r) /\ obj'[r] = f /\ other' \in [Reqs -> Objs \cup {Null}]
      BY <1>0, <2>1, <2>3 DEF KeepsOrPicks, IInv, RequestTypes
    <2>4. ASSUME f \in Objs, obj' = [obj EXCEPT ![r] = f], UNCHANGED <<db, cache, other, vseq>>,
                 NEW k \in Kinds, Issue(r, <<Do(k, f)>>)
          PROVE  IInv'
      BY <2>3, <2>4, Bulk1, Issues
    <2>5. ASSUME f \in Objs, obj' = [obj EXCEPT ![r] = f], UNCHANGED <<db, cache, other, vseq>>,
                 Goto(r, "version_prev"), UNCHANGED bulk
          PROVE  IInv'
      BY <2>1, <2>3, <2>5, Proceeds DEF DeletePath
    <2> QED  BY <2>2, <2>4, <2>5, EndsUnacknowledged
  <1>15. ASSUME NEW r \in Reqs, VersionPrev(r) PROVE IInv'
    <2>1. obj[r] \in Objs
      BY <1>0, <1>15 DEF VersionPrev, HasObject
    <2>2. PICK f \in Objs \cup {Null} :
            \/ Issue(r, <<Do("delete_and_unset_latest", obj[r])>>)
            \/ /\ f \in Objs
               /\ Issue(r, <<Do("delete_and_unset_latest", obj[r]), Do("set_latest", f)>>)
      BY <1>15 DEF VersionPrev, FindOne, PrevVersions, Stored
    <2>3. UNCHANGED <<db, cache, obj, other, vseq>>
      BY <1>15 DEF VersionPrev
    <2>4. CASE Issue(r, <<Do("delete_and_unset_latest", obj[r])>>)
      BY <2>1, <2>3, <2>4, Bulk1, Issues DEF Kinds, KeepsOrPicks
    <2>5. CASE /\ f \in Objs
               /\ Issue(r, <<Do("delete_and_unset_latest", obj[r]), Do("set_latest", f)>>)
      <3> DEFINE b == <<Do("delete_and_unset_latest", obj[r]), Do("set_latest", f)>>
      <3>1. IsBulk(b, 3) /\ b # <<>>
        BY <2>1, <2>5, Bulk2, Zenon DEF Kinds
      <3> HIDE DEF b
      <3>2. Issue(r, b) /\ KeepsOrPicks(r)
        BY <2>3, <2>5 DEF b, KeepsOrPicks
      <3> QED  BY <2>3, <3>1, <3>2, Issues
    <2> QED  BY <2>2, <2>4, <2>5
  <1>16. ASSUME NEW r \in Reqs, KeyRead(r) PROVE IInv'
    <2>1. op[r] \notin Completions /\ IsBulk(bulk[r], 2) /\ bulk = [bulk EXCEPT ![r] = bulk[r]]
      BY <1>0, <1>16 DEF KeyRead, DeletePath
    <2>2. PICK f \in Objs \cup {Null} :
            \/ End(r) /\ UNCHANGED <<db, cache, versioning, hist>>
            \/ /\ f \in Objs /\ obj' = [obj EXCEPT ![r] = f]
               /\ UNCHANGED <<db, cache, other, vseq>>
               /\ Issue(r, <<Do("delete_and_unset_latest", f)>>)
            \/ /\ Goto(r, "make_marker")
               /\ obj' = obj \/ obj' = [obj EXCEPT ![r] = f]
               /\ UNCHANGED <<db, cache, other, vseq>>
               /\ \/ bulk' = [bulk EXCEPT ![r] = <<>>]
                  \/ \E k \in Kinds : f \in Objs /\ bulk' = [bulk EXCEPT ![r] = <<Do(k, f)>>]
            \/ /\ Goto(r, "key_latest")
               /\ other' = [other EXCEPT ![r] = f]
               /\ UNCHANGED <<db, cache, obj, vseq, bulk>>
      BY <1>16 DEF KeyRead, Latest, NullVersions, Stored, FindOne, Kinds
    <2>3. CASE /\ f \in Objs /\ obj' = [obj EXCEPT ![r] = f]
               /\ UNCHANGED <<db, cache, other, vseq>>
               /\ Issue(r, <<Do("delete_and_unset_latest", f)>>)
      <3>1. KeepsOrPicks(r)
        BY <2>1, <2>3 DEF KeepsOrPicks
      <3> QED  BY <2>3, <3>1, Bulk1, Issues DEF Kinds
    <2>4. ASSUME NEW b, IsBulk(b, 2), bulk' = [bulk EXCEPT ![r] = b], Goto(r, "make_marker"),
                 obj' = obj \/ obj' = [obj EXCEPT ![r] = f],
                 UNCHANGED <<db, cache, other, vseq>>
          PROVE  IInv'
      <3>1. KeepsOrPicks(r) /\ other' \in [Reqs -> Objs \cup {Null}]
        BY <1>0, <2>1, <2>4 DEF KeepsOrPicks
      <3> QED  BY <2>1, <2>4, <3>1, Proceeds DEF DeletePath
    <2>5. CASE /\ Goto(r, "key_latest")
               /\ other' = [other EXCEPT ![r] = f]
               /\ UNCHANGED <<db, cache, obj, vseq, bulk>>
      <3>1. KeepsOrPicks(r) /\ other' \in [Reqs -> Objs \cup {Null}]
        BY <1>0, <2>5 DEF KeepsOrPicks
      <3> QED  BY <2>1, <2>5, <3>1, Proceeds DEF DeletePath
    <2>6. IsBulk(<<>>, 2)
      BY DEF IsBulk
    <2> QED  BY <2>2, <2>3, <2>4, <2>5, <2>6, Bulk1, EndsUnacknowledged
  <1>17. ASSUME NEW r \in Reqs, KeyLatest(r) PROVE IInv'
    <2>1. op[r] \notin Completions /\ other[r] \in Objs \cup {Null}
      BY <1>0, <1>17 DEF KeyLatest, DeletePath
    <2>2. CASE NoLatestToDelete(r)
      BY <1>17, <2>2, EndsUnacknowledged DEF KeyLatest
    <2>3. CASE ~NoLatestToDelete(r)
      <3>1. PICK f \in Objs \cup {Null} :
              \/ bulk' = [bulk EXCEPT ![r] = <<>>]
              \/ f \in Objs /\ bulk' = [bulk EXCEPT ![r] = <<Do("unset_latest", f)>>]
              \/ /\ f \in Objs /\ other[r] \in Objs
                 /\ bulk' = [bulk EXCEPT ![r] = <<Do("unset_latest", f), Do("delete", other[r])>>]
        BY <1>17, <2>1, <2>3 DEF KeyLatest, FindOne, Latest, Stored
      <3>2. PICK b : IsBulk(b, 2) /\ bulk' = [bulk EXCEPT ![r] = b]
        <4>1. IsBulk(<<>>, 2)
          BY DEF IsBulk
        <4> QED  BY <3>1, <4>1, Bulk1, Bulk2, Zenon DEF Kinds
      <3>3. /\ Goto(r, "make_marker") /\ obj' = [obj EXCEPT ![r] = other[r]]
            /\ UNCHANGED <<db, cache, other, vseq>>
        BY <1>17, <2>3 DEF KeyLatest
      <3>4. KeepsOrPicks(r) /\ other' \in [Reqs -> Objs \cup {Null}]
        BY <1>0, <2>1, <3>3 DEF KeepsOrPicks
      <3> QED  BY <2>1, <3>2, <3>3, <3>4, Proceeds DEF DeletePath
    <2> QED  BY <2>2, <2>3
  <1>18. ASSUME NEW r \in Reqs, MakeMarker(r) PROVE IInv'
    <2>1. op[r] \notin Completions /\ IsBulk(bulk[r], 2)
      BY <1>0, <1>18 DEF MakeMarker, DeletePath
    <2>2. PICK w \in DbOp : bulk' = [bulk EXCEPT ![r] = Append(bulk[r], w)]
      <3>1. PICK o \in Objs : bulk' = [bulk EXCEPT ![r] = Append(@,
              Do(IF mode[r] = "ENABLED" THEN "insert_enabled" ELSE "insert_null", o))]
        BY <1>18 DEF MakeMarker, Fresh
      <3>2. Do(IF mode[r] = "ENABLED" THEN "insert_enabled" ELSE "insert_null", o) \in DbOp
        BY DEF Do, DbOp, Kinds
      <3> QED  BY <1>0, <3>1, <3>2
    <2>3. IsBulk(Append(bulk[r], w), 3) /\ Append(bulk[r], w) # <<>>
      BY <2>1 DEF IsBulk
    <2>0. seq' \in Nat /\ vseq' \in [Reqs -> Nat]
      BY <1>18, AllocTypes DEF MakeMarker, IInv, SharedTypes, RequestTypes
    <2>4. SharedTypes'
      BY <1>18, <2>0 DEF MakeMarker, Goto, SharedTypes, IInv, hist
    <2>5. /\ pc'[r] = "write" /\ op'[r] = op[r] /\ bulk'[r] = Append(bulk[r], w)
          /\ \A q \in Reqs \ {r} : pc'[q] = pc[q] /\ op'[q] = op[q] /\ bulk'[q] = bulk[q]
      BY <1>0, <1>18, <2>2 DEF MakeMarker, Goto, IInv, RequestTypes
    <2>6. RequestTypes'
      <3>1. bulk' \in [Reqs -> Seq(DbOp)]
        BY <1>0, <2>2, <2>3 DEF IsBulk
      <3> QED  BY <1>18, <2>0, <3>1 DEF MakeMarker, Goto, IInv, SharedTypes, RequestTypes
    <2>7. Only(r)
      BY <1>18, <2>5 DEF MakeMarker, Only
    <2>8. ReqInv(r)'
      BY <2>1, <2>3, <2>5 DEF ReqInv, HasObject, DeletePath
    <2> QED  BY <2>4, <2>6, <2>7, <2>8, StepOf
  <1>19. ASSUME NEW r \in Reqs, WriteMongo(r) PROVE IInv'
    <2> DEFINE w == Head(bulk[r])
               M == Run(w, objs, vseq[r], mode[r])
               good == full[r] /\ Counted(w, objs)
    <2>1. /\ IsBulk(bulk[r], 3) /\ bulk[r] # <<>> /\ vseq[r] \in Nat /\ pc[r] = "write"
      BY <1>0, <1>19 DEF WriteMongo
    <2>2. w \in DbOp
      BY <2>1 DEF IsBulk
    <2>3. M \in [Objs -> Doc]
      <3> HIDE DEF w
      <3> QED  BY <1>0, <2>1, <2>2, RunType
    <2>4. good \in BOOLEAN
      BY <1>0 DEF Counted, Matches, IsInsert
    <2>5. /\ objs' = objs \/ objs' = M
          /\ UNCHANGED <<seq, versioning, cache>>
          /\ \/ Reply(r, FALSE) \/ Reply(r, good)
             \/ /\ Len(bulk[r]) > 1 /\ bulk' = [bulk EXCEPT ![r] = Tail(bulk[r])]
                /\ full' = [full EXCEPT ![r] = good]
                /\ UNCHANGED <<pc, op, mode, obj, other, vseq, hist>>
      BY <1>0, <1>19 DEF WriteMongo
    <2> HIDE DEF M, good, w
    <2>6. ASSUME NEW ok \in BOOLEAN, Reply(r, ok) PROVE IInv'
      BY <1>0, <2>3, <2>5, <2>6, Replies
    <2>7. CASE /\ Len(bulk[r]) > 1 /\ bulk' = [bulk EXCEPT ![r] = Tail(bulk[r])]
               /\ full' = [full EXCEPT ![r] = good]
               /\ UNCHANGED <<pc, op, mode, obj, other, vseq, hist>>
      <3>1. IsBulk(Tail(bulk[r]), 3) /\ Tail(bulk[r]) # <<>>
        BY <2>1, <2>7, TailBulk
      <3>2. SharedTypes'
        BY <1>0, <2>3, <2>5, <2>7 DEF IInv, SharedTypes, hist
      <3>3. RequestTypes'
        BY <2>4, <2>7, <3>1 DEF IInv, RequestTypes, IsBulk
      <3>4. bulk'[r] = Tail(bulk[r]) /\ Only(r)
        BY <1>0, <2>7 DEF Only
      <3>5. ReqInv(r) /\ pc'[r] = "write" /\ op'[r] = op[r] /\ obj'[r] = obj[r]
        BY <2>1, <2>7 DEF IInv
      <3>6. ReqInv(r)'
        BY <3>1, <3>4, <3>5 DEF ReqInv, HasObject, DeletePath
      <3> QED  BY <3>2, <3>3, <3>4, <3>6, StepOf
    <2> QED  BY <2>4, <2>5, <2>6, <2>7
  <1>20. ASSUME NEW r \in Reqs, WritePostgres(r) PROVE IInv'
    <2>1. bulk[r] \in Seq(DbOp) /\ bulk[r] # <<>> /\ vseq[r] \in Nat
      BY <1>0, <1>20 DEF WritePostgres
    <2>2. \A i \in 1..4 : Stages(bulk[r], vseq[r], mode[r])[i] \in [Objs -> Doc]
      BY <1>0, <2>1, StagesType
    <2>3. PICK M \in [Objs -> Doc] : objs' = M
      <3>1. objs' = objs \/ objs' = Stages(bulk[r], vseq[r], mode[r])[4]
        BY <1>20, Zenon DEF WritePostgres
      <3> QED  BY <1>0, <2>2, <3>1
    <2>4. PICK ok : Reply(r, ok)
      BY <1>20 DEF WritePostgres
    <2>5. UNCHANGED <<seq, versioning, cache>>
      BY <1>20 DEF WritePostgres
    <2> QED  BY <2>3, <2>4, <2>5, Replies
  <1>21. ASSUME NEW r \in Reqs, Fail(r) PROVE IInv'
    BY <1>21, EndsUnacknowledged DEF Fail
  <1>21a. ASSUME NEW r \in Reqs, NoSequence(r) PROVE IInv'
    <2>1. SharedTypes' /\ UNCHANGED <<pc, op, mode, obj, other, vseq, bulk, full>>
      BY <1>21a DEF NoSequence, IInv, SharedTypes, db, hist
    <2> QED  BY <2>1, SharedOnly
  <1>21b. ASSUME NEW r \in Reqs, TwoSequences(r) PROVE IInv'
    BY <1>21b, EndsUnacknowledged DEF TwoSequences
  <1>22. CASE UNCHANGED vars
    <2>1. SharedTypes' /\ UNCHANGED <<pc, op, mode, obj, other, vseq, bulk, full>>
      BY <1>22 DEF IInv, SharedTypes, vars
    <2> QED  BY <2>1, SharedOnly
  <1> QED
    BY <1>1, <1>2, <1>3, <1>4, <1>5, <1>6, <1>7, <1>8, <1>9, <1>10, <1>11, <1>12,
       <1>13, <1>14, <1>15, <1>16, <1>17, <1>18, <1>19, <1>20, <1>21, <1>21a, <1>21b, <1>22
       DEF Next, Start, Advance, Write

\* The steps of the sequence: its documents do not get fewer.
LEMMA SequenceStep ==
    SequenceTypes /\ [Next]_vars => SequenceTypes' /\ (forked => forked')
  <1> SUFFICES ASSUME SequenceTypes, [Next]_vars PROVE SequenceTypes' /\ (forked => forked')
    OBVIOUS
  <1>1. CASE CreateUpload \/ CreateComplete \/ SetVersioning \/ (\E o \in Objs : Expire(o)) \/ UNCHANGED vars
    BY <1>1 DEF CreateUpload, CreateComplete, SetVersioning, Expire, SequenceTypes, db, requests, vars
  <1>2. ASSUME NEW r \in Reqs, Start(r) PROVE SequenceTypes' /\ (forked => forked')
    BY <1>2 DEF Start, Complete, Abort, DeleteVersion, DeleteKey, Begin, SequenceTypes, db
  <1>3. ASSUME NEW r \in Reqs, FindUpload(r) \/ PutRead(r) \/ PutLatest(r) \/ AbortFind(r)
                               \/ VersionRead(r) \/ VersionPrev(r) \/ KeyRead(r) \/ KeyLatest(r)
        PROVE  SequenceTypes' /\ (forked => forked')
    BY <1>3 DEF FindUpload, PutRead, PutLatest, AbortFind, VersionRead, VersionPrev, KeyRead,
         KeyLatest, Issue, Goto, End, SequenceTypes, db
  <1>4. ASSUME NEW r \in Reqs, NoSequence(r) \/ TwoSequences(r) \/ Fail(r)
        PROVE  SequenceTypes' /\ (forked => forked')
    BY <1>4 DEF NoSequence, TwoSequences, Fail, End, SequenceTypes, db
  <1>5. ASSUME NEW r \in Reqs, AllocVersion(r) \/ MakeMarker(r)
        PROVE  SequenceTypes' /\ (forked => forked')
    <2>1. forked' \in BOOLEAN /\ (forked => forked')
      BY <1>5 DEF AllocVersion, MakeMarker, Alloc, NextNumber, FirstNumber, SequenceTypes
    <2>2. unseen' \subseteq Reqs
      BY <1>5 DEF AllocVersion, MakeMarker, Goto, SequenceTypes
    <2> QED  BY <2>1, <2>2 DEF SequenceTypes
  <1>6. ASSUME NEW r \in Reqs, Write(r) PROVE SequenceTypes' /\ (forked => forked')
    <2>1. forked' = forked
      BY <1>6 DEF Write, WriteMongo, WritePostgres
    <2>2. unseen' \in {unseen, unseen \ {r}}
      BY <1>6 DEF Write, WriteMongo, WritePostgres, Reply, End
    <2> QED  BY <2>1, <2>2 DEF SequenceTypes
  <1> QED  BY <1>1, <1>2, <1>3, <1>4, <1>5, <1>6 DEF Next, Advance

\* Whatever requests interleave, every variable keeps to the values the code can
\* give it: bulks never exceed three operations, a version_seq is a number.
THEOREM TypeCorrect == Spec => []TypeOK
  <1>1. Init => IInv /\ SequenceTypes
    BY InitIInv DEF Init, SequenceTypes
  <1>2. IInv /\ SequenceTypes /\ [Next]_vars => (IInv /\ SequenceTypes)'
    BY StepIInv, SequenceStep
  <1>3. IInv /\ SequenceTypes => TypeOK
    BY IInvTypeOK
  <1> QED  BY <1>1, <1>2, <1>3, PTL DEF Spec

-----------------------------------------------------------------------------
(* The numbers of the versions, and what was deleted.  A bulk is followed  *)
(* as the set of its operations: what a set of operations that were        *)
(* executed, one by one or in one transaction, did to the collection.      *)

Puts    == {"put", "put_by_id"}
Inserts == {"insert_enabled", "insert_null"}
Stamps  == Puts \cup Inserts         \* the operations that write a version_seq
Removes == {"delete_and_unset_latest", "delete", "delete_by_id"}

In(b) == {b[i] : i \in DOMAIN b}

Writes(W, M, N, n) ==
    /\ \A o \in Objs : M[o].exists => N[o].exists
    /\ \A o \in Objs : N[o].exists =>
            M[o].exists \/ \E w \in W : IsInsert(w) /\ w.id = o
    /\ \A o \in Objs : M[o].exists /\ M[o].deleted => N[o].deleted
    /\ \A w \in W : w.kind \in Removes /\ M[w.id].exists => N[w.id].deleted
    /\ \A o \in Objs : \/ N[o].version_seq = M[o].version_seq
                       \/ N[o].version_seq = n /\ \E w \in W : w.kind \in Stamps /\ w.id = o
    /\ \A o \in Objs : M[o].exists =>
            \/ N[o].upload_started = M[o].upload_started
            \/ \E w \in W : w.kind \in Puts /\ w.id = o
    /\ \A o \in Objs : N[o] = M[o] \/ \E w \in W : w.id = o

\* What one operation makes of a document.
LEMMA EffectFacts ==
    ASSUME NEW w \in DbOp, NEW d \in Doc, NEW n \in Nat, NEW m, NEW e, e = Effect(w, d, n, m)
    PROVE  /\ w.kind \notin Inserts => e.exists = d.exists /\ (d.deleted => e.deleted)
           /\ w.kind \in Removes => e.deleted
           /\ w.kind \notin Stamps =>
                e.version_seq = d.version_seq /\ e.upload_started = d.upload_started
           /\ w.kind \in Stamps => e.version_seq = n
  <1>1. ASSUME NEW a, NEW b
        PROVE  LET x == [d EXCEPT !.deleted = a, !.version_past = b]
                   y == [d EXCEPT !.deleted = a]
                   z == [d EXCEPT !.version_past = a]
                   u == [d EXCEPT !.upload_started = a, !.version_seq = n, !.version_enabled = b]
               IN  /\ x.exists = d.exists /\ x.deleted = a /\ x.version_seq = d.version_seq
                   /\ x.upload_started = d.upload_started
                   /\ y.exists = d.exists /\ y.deleted = a /\ y.version_seq = d.version_seq
                   /\ y.upload_started = d.upload_started
                   /\ z.exists = d.exists /\ z.deleted = d.deleted
                   /\ z.version_seq = d.version_seq /\ z.upload_started = d.upload_started
                   /\ u.exists = d.exists /\ u.deleted = d.deleted /\ u.version_seq = n
    BY DEF Doc
  <1>2. \A a : DeleteMarkerDoc(n, a).version_seq = n
    BY DEF DeleteMarkerDoc, NoDoc
  <1>3. CASE w.kind = "delete_and_unset_latest"
    <2>1. e = [d EXCEPT !.deleted = TRUE, !.version_past = TRUE]
      BY <1>3 DEF Effect
    <2> QED  BY <1>1, <1>3, <2>1 DEF Inserts, Removes, Stamps, Puts
  <1>4. CASE w.kind \in {"delete", "delete_by_id"}
    BY <1>1, <1>4 DEF Effect, Inserts, Removes, Stamps, Puts
  <1>5. CASE w.kind \in {"unset_latest", "set_latest"}
    BY <1>1, <1>5 DEF Effect, Inserts, Removes, Stamps, Puts
  <1>6. CASE w.kind \in Puts
    <2>1. PICK b : e = [d EXCEPT !.upload_started = FALSE, !.version_seq = n,
                                 !.version_enabled = b]
      <3>1. e = [d EXCEPT !.upload_started = FALSE, !.version_seq = n,
                          !.version_enabled = @ \/ m = "ENABLED"]
        BY <1>6 DEF Effect, Puts
      <3> QED  BY <3>1, Zenon
    <2>2. e.exists = d.exists /\ e.deleted = d.deleted /\ e.version_seq = n
      BY <2>1 DEF Doc
    <2> QED  BY <1>6, <2>2 DEF Inserts, Removes, Stamps, Puts
  <1>7. CASE w.kind \in Inserts
    BY <1>2, <1>7 DEF Effect, Inserts, Removes, Stamps, Puts
  <1> QED  BY <1>3, <1>4, <1>5, <1>6, <1>7 DEF DbOp, Kinds, Puts, Inserts

\* One operation of a bulk; a delete marker is inserted under a new _id.
LEMMA RunWrites ==
    ASSUME NEW w \in DbOp, NEW M \in [Objs -> Doc], NEW n \in Nat, NEW m,
           IsInsert(w) => ~M[w.id].exists
    PROVE  Writes({w}, M, Run(w, M, n, m), n)
  <1> DEFINE e == Effect(w, M[w.id], n, m)
             N == Run(w, M, n, m)
  <1>1. w.id \in Objs /\ M[w.id] \in Doc
    BY DEF DbOp
  <1>2. CASE ~Matches(w, M[w.id])
    <2>1. N = M
      BY <1>2 DEF Run
    <2>2. w.kind \in Removes /\ M[w.id].exists => M[w.id].deleted
      BY <1>2 DEF Matches, Removes, IsLive
    <2>3. Writes({w}, M, M, n)
      BY <2>2, Zenon DEF Writes
    <2> QED  BY <2>1, <2>3
  <1>3. CASE Matches(w, M[w.id])
    <2>1. N[w.id] = e /\ \A o \in Objs : o # w.id => N[o] = M[o]
      BY <1>1, <1>3 DEF Run
    <2>2. /\ w.kind \notin Inserts => e.exists = M[w.id].exists /\ (M[w.id].deleted => e.deleted)
          /\ w.kind \in Removes => e.deleted
          /\ w.kind \notin Stamps => /\ e.version_seq = M[w.id].version_seq
                                     /\ e.upload_started = M[w.id].upload_started
          /\ w.kind \in Stamps => e.version_seq = n
      BY <1>1, EffectFacts
    <2>3. IsInsert(w) <=> w.kind \in Inserts
      BY DEF IsInsert, Inserts
    <2> HIDE DEF N, e
    <2>4. ASSUME NEW o \in Objs
          PROVE  /\ M[o].exists => N[o].exists
                 /\ N[o].exists => M[o].exists \/ (IsInsert(w) /\ w.id = o)
                 /\ M[o].exists /\ M[o].deleted => N[o].deleted
                 /\ M[o].exists => \/ N[o].upload_started = M[o].upload_started
                                   \/ (w.kind \in Puts /\ w.id = o)
      <3>1. CASE o = w.id
        BY <2>1, <2>2, <2>3, <3>1, Zenon DEF Stamps
      <3>2. CASE o # w.id
        BY <2>1, <3>2, Zenon
      <3> QED  BY <3>1, <3>2
    <2>5. w.kind \in Removes => N[w.id].deleted
      BY <2>1, <2>2
    <2>6. \A o \in Objs : N[o] = M[o] \/ w.id = o
      BY <2>1
    <2>7. ASSUME NEW o \in Objs
          PROVE  \/ N[o].version_seq = M[o].version_seq
                 \/ N[o].version_seq = n /\ w.kind \in Stamps /\ w.id = o
      <3>1. CASE o = w.id
        BY <2>1, <2>2, <3>1, Zenon
      <3>2. CASE o # w.id
        BY <2>1, <3>2, Zenon
      <3> QED  BY <3>1, <3>2
    <2>8. /\ \A o \in Objs : N[o].exists =>
               M[o].exists \/ \E x \in {w} : IsInsert(x) /\ x.id = o
          /\ \A o \in Objs : M[o].exists => \/ N[o].upload_started = M[o].upload_started
                                           \/ \E x \in {w} : x.kind \in Puts /\ x.id = o
      BY <2>4
    <2>9. \A o \in Objs : \/ N[o].version_seq = M[o].version_seq
                          \/ /\ N[o].version_seq = n
                             /\ \E x \in {w} : x.kind \in Stamps /\ x.id = o
      BY <2>7, Zenon
    <2>10. \A o \in Objs : N[o] = M[o] \/ \E x \in {w} : x.id = o
      BY <2>6
    <2>11. \A x \in {w} : x.kind \in Removes /\ M[x.id].exists => N[x.id].deleted
      BY <2>5
    <2>12. /\ \A o \in Objs : M[o].exists => N[o].exists
           /\ \A o \in Objs : M[o].exists /\ M[o].deleted => N[o].deleted
      BY <2>4
    <2>13. Writes({w}, M, N, n)
      BY <2>8, <2>9, <2>10, <2>11, <2>12, Zenon DEF Writes
    <2> QED  BY <2>13 DEF N
  <1> QED  BY <1>2, <1>3

\* No operation at all.
LEMMA NothingWritten ==
    ASSUME NEW M, NEW n
    PROVE  Writes({}, M, M, n)
  BY DEF Writes

\* One after the other.
LEMMA WritesTwice ==
    ASSUME NEW V, NEW W, NEW L, NEW M, NEW N, NEW n, Writes(V, L, M, n), Writes(W, M, N, n),
           \A w \in V \cup W : w.id \in Objs
    PROVE  Writes(V \cup W, L, N, n)
  BY DEF Writes

\* What is known of a request, its locals being l (pc), k (op), o (obj), p (other),
\* n (vseq) and b (bulk), of the collection M and the sequence s.
Stamping(b)   == \E w \in In(b) : w.kind \in Stamps
Holding(l, b) == l \in {"put_read", "put_latest"} \/ Stamping(b)
PutPath       == {"find_upload", "alloc_version", "put_read", "put_latest"}
StampsLast(b) == \A i \in DOMAIN b : b[i].kind \in Stamps => i = Len(b)
InsertsNew(b, M)  == \A w \in In(b) : IsInsert(w) => ~M[w.id].exists
NumberNew(n, M, s, f) == f \/ (n \in 1..s /\ \A x \in Objs : M[x].version_seq # n)
Deletion(o, b, M) == M[o].deleted \/ \E w \in In(b) : w.kind \in Removes /\ w.id = o

InOrder(l, k, o, p, n, b, M, s, f) ==
    /\ o # Null => M[o].exists
    /\ p # Null => M[p].exists
    /\ InsertsNew(b, M) /\ StampsLast(b)
    /\ l \notin {"make_marker", "write"} => b = <<>>
    /\ l = "make_marker" => ~Stamping(b)
    /\ Holding(l, b) => NumberNew(n, M, s, f)
    /\ l = "key_read" => o = Null
    /\ l \in PutPath => k \in Completions
    /\ k \in Deletes /\ o # Null /\ l \in {"make_marker", "write"} => Deletion(o, b, M)

Sound(q) == InOrder(pc[q], op[q], obj[q], other[q], vseq[q], bulk[q], objs, seq, forked)

Holds(q) == Holding(pc[q], bulk[q])
NoInsertTwice(b, c) ==
    \A w \in In(b), x \in In(c) : IsInsert(w) /\ IsInsert(x) => w.id # x.id
Apart(p, q) ==
    /\ Holds(p) /\ Holds(q) => forked \/ vseq[p] # vseq[q]
    /\ NoInsertTwice(bulk[p], bulk[q])

DocsSound ==
    /\ ~forked => (\A o \in Objs : objs[o].version_seq <= seq) /\ UniqueVersionSeq
    /\ \A o \in removed : objs[o].exists /\ objs[o].deleted

VersionsInv ==
    /\ IInv
    /\ DocsSound
    /\ \A q \in Reqs : Sound(q)
    /\ \A p \in Reqs : \A q \in Reqs \ {p} : Apart(p, q)

-----------------------------------------------------------------------------
(* Executing a bulk                                                        *)

\* A transaction executes all its operations.
LEMMA StagesWrite ==
    ASSUME NEW b, IsBulk(b, 3), b # <<>>, objs \in [Objs -> Doc], NEW n \in Nat, NEW m,
           InsertsNew(b, objs), StampsLast(b)
    PROVE  Writes(In(b), objs, Stages(b, n, m)[4], n)
  <1> DEFINE s1 == Run(b[1], objs, n, m)
             s2 == IF Len(b) > 1 THEN Run(b[2], s1, n, m) ELSE s1
             s3 == IF Len(b) > 2 THEN Run(b[3], s2, n, m) ELSE s2
             V1 == {b[1]}
             V2 == V1 \cup IF Len(b) > 1 THEN {b[2]} ELSE {}
             V3 == V2 \cup IF Len(b) > 2 THEN {b[3]} ELSE {}
  <1>0. Stages(b, n, m) = <<objs, s1, s2, s3>>
    BY DEF Stages
  <1>1. b \in Seq(DbOp) /\ Len(b) \in 1..3 /\ DOMAIN b = 1..Len(b)
    <2>1. b \in Seq(DbOp) /\ Len(b) \in Nat /\ Len(b) # 0 /\ Len(b) <= 3
      BY EmptySeq, LenProperties DEF IsBulk
    <2>2. DOMAIN b = 1..Len(b)
      BY <2>1
    <2> DEFINE k == Len(b)
    <2>3. k \in Nat /\ k # 0 /\ k <= 3
      BY <2>1
    <2> HIDE DEF k
    <2>4. k \in 1..3
      BY <2>3
    <2> QED  BY <2>1, <2>2, <2>4 DEF k
  <1>2. \A i \in 1..Len(b) : b[i] \in DbOp /\ b[i].id \in Objs /\ b[i] \in In(b)
    <2>1. \A i \in 1..Len(b) : b[i] \in DbOp
      BY <1>1
    <2>2. \A i \in 1..Len(b) : b[i] \in In(b)
      BY <1>1 DEF In
    <2>3. \A x \in DbOp : x.id \in Objs
      BY DEF DbOp
    <2> QED  BY <2>1, <2>2, <2>3
  <1>3. In(b) = V3
    <2>1. CASE Len(b) = 1
      BY <1>1, <2>1 DEF In
    <2>2. CASE Len(b) = 2
      BY <1>1, <2>2 DEF In
    <2>3. CASE Len(b) = 3
      BY <1>1, <2>3 DEF In
    <2> QED  BY <1>1, <2>1, <2>2, <2>3
  <1>4. \A i \in 1..4 : Stages(b, n, m)[i] \in [Objs -> Doc]
    BY <1>1, StagesType
  <1>5. s1 \in [Objs -> Doc] /\ s2 \in [Objs -> Doc]
    BY <1>0, <1>4
  <1>6. \A i \in 1..Len(b) : IsInsert(b[i]) => ~objs[b[i].id].exists /\ i = Len(b)
    BY <1>1, <1>2 DEF InsertsNew, StampsLast, IsInsert, Stamps, Inserts
  <1>7. Writes(V1, objs, s1, n)
    <2>1. 1 \in 1..Len(b)
      BY <1>1
    <2> QED  BY <1>2, <1>6, <2>1, RunWrites
  <1>8. Writes(V2, objs, s2, n)
    <2>1. CASE Len(b) > 1
      <3>1. 1 \in 1..Len(b) /\ 2 \in 1..Len(b)
        BY <1>1, <2>1
      <3>2. ~IsInsert(b[1])
        BY <1>6, <2>1, <3>1
      <3> HIDE DEF s1
      <3>3. IsInsert(b[2]) => ~s1[b[2].id].exists
        BY <1>2, <1>6, <1>7, <3>1, <3>2 DEF Writes
      <3>4. Writes({b[2]}, s1, Run(b[2], s1, n, m), n)
        BY <1>2, <1>5, <3>1, <3>3, RunWrites
      <3>5. Writes({b[2]}, s1, s2, n) /\ V2 = V1 \cup {b[2]}
        BY <2>1, <3>4
      <3>6. \A w \in V1 \cup {b[2]} : w.id \in Objs
        BY <1>2, <3>1
      <3> HIDE DEF s2, V2, V1
      <3>7. Writes(V1 \cup {b[2]}, objs, s2, n)
        BY <1>7, <3>5, <3>6, WritesTwice
      <3> QED  BY <3>5, <3>7
    <2>2. CASE ~(Len(b) > 1)
      <3>1. s2 = s1 /\ V2 = V1
        BY <2>2
      <3> QED  BY <1>7, <3>1
    <2> QED  BY <2>1, <2>2
  <1>9. Writes(V3, objs, s3, n)
    <2>1. CASE Len(b) > 2
      <3>1. 1 \in 1..Len(b) /\ 2 \in 1..Len(b) /\ 3 \in 1..Len(b) /\ Len(b) = 3
        BY <1>1, <2>1
      <3>2. ~IsInsert(b[1]) /\ ~IsInsert(b[2])
        BY <1>6, <3>1
      <3>3. V2 = {b[1], b[2]} /\ V3 = V2 \cup {b[3]}
        BY <3>1
      <3> HIDE DEF s1, s2
      <3>4. IsInsert(b[3]) => ~s2[b[3].id].exists
        BY <1>2, <1>6, <1>8, <3>1, <3>2, <3>3 DEF Writes
      <3>5. Writes({b[3]}, s2, Run(b[3], s2, n, m), n)
        BY <1>2, <1>5, <3>1, <3>4, RunWrites
      <3>6. Writes({b[3]}, s2, s3, n)
        BY <2>1, <3>5
      <3>7. \A w \in V2 \cup {b[3]} : w.id \in Objs
        BY <1>2, <3>1, <3>3
      <3> HIDE DEF s3, V2, V3
      <3>8. Writes(V2 \cup {b[3]}, objs, s3, n)
        BY <1>8, <3>6, <3>7, WritesTwice
      <3> QED  BY <3>3, <3>8
    <2>2. CASE ~(Len(b) > 2)
      <3>1. s3 = s2 /\ V3 = V2
        BY <2>2
      <3> QED  BY <1>8, <3>1
    <2> QED  BY <2>1, <2>2
  <1> HIDE DEF s1, s2, s3, V3
  <1>10. Stages(b, n, m)[4] = s3
    BY <1>0
  <1> QED  BY <1>3, <1>9, <1>10

\* What a write of request r does: it executes the operations W of its bulk, and
\* the request ends, acknowledging at most what W deleted, or has the others left.
Executes(r, W) ==
    /\ pc[r] = "write" /\ W \subseteq In(bulk[r])
    /\ Writes(W, objs, objs', vseq[r])
    /\ UNCHANGED <<seq, forked>>
    /\ \/ /\ End(r)
          /\ \/ UNCHANGED removed
             \/ /\ W = In(bulk[r]) /\ op[r] \in Deletes /\ obj[r] # Null
                /\ removed' = removed \cup {obj[r]}
       \/ /\ Len(bulk[r]) > 1 /\ W = {Head(bulk[r])}
          /\ bulk' = [bulk EXCEPT ![r] = Tail(bulk[r])]
          /\ UNCHANGED <<pc, op, mode, obj, other, vseq, removed>>

LEMMA WriteExecutes ==
    ASSUME VersionsInv, NEW r \in Reqs, Write(r)
    PROVE  \E W : Executes(r, W)
  <1>1. /\ IsBulk(bulk[r], 3) /\ bulk[r] # <<>> /\ objs \in [Objs -> Doc]
        /\ vseq[r] \in Nat /\ Sound(r) /\ pc[r] = "write"
    BY DEF VersionsInv, IInv, ReqInv, SharedTypes, RequestTypes, Write, WriteMongo, WritePostgres
  <1>2. InsertsNew(bulk[r], objs) /\ StampsLast(bulk[r])
    BY <1>1 DEF Sound, InOrder
  <1>3. CASE WriteMongo(r)
    <2> DEFINE w == Head(bulk[r])
               M == Run(w, objs, vseq[r], mode[r])
    <2>1. w \in DbOp /\ w \in In(bulk[r]) /\ (Len(bulk[r]) = 1 => In(bulk[r]) = {w})
      <3>1. /\ bulk[r] \in Seq(DbOp) /\ Len(bulk[r]) \in Nat /\ Len(bulk[r]) # 0
            /\ DOMAIN bulk[r] = 1..Len(bulk[r])
        BY <1>1, EmptySeq, LenProperties DEF IsBulk
      <3>2. w = bulk[r][1] /\ 1 \in DOMAIN bulk[r]
        BY <3>1
      <3>3. bulk[r][1] \in DbOp
        BY <3>1, <3>2
      <3>4. Len(bulk[r]) = 1 => DOMAIN bulk[r] = {1}
        BY <3>1
      <3> HIDE DEF w
      <3> QED  BY <3>2, <3>3, <3>4 DEF In
    <2>2. IsInsert(w) => ~objs[w.id].exists
      BY <1>2, <2>1 DEF InsertsNew
    <2> HIDE DEF w
    <2>3. Writes({w}, objs, M, vseq[r])
      BY <1>1, <2>1, <2>2, RunWrites
    <2>4. Writes({}, objs, objs, vseq[r])
      BY NothingWritten
    <2> HIDE DEF M
    <2>5. CASE Reply(r, FALSE) /\ UNCHANGED <<objs, seq, forked>>
      <3>1. End(r) /\ UNCHANGED <<removed, objs, seq, forked>>
        BY <2>5 DEF Reply
      <3>2. Executes(r, {})
        BY <1>1, <2>4, <3>1 DEF Executes
      <3> QED  BY <3>2
    <2>6. ASSUME objs' = M, Len(bulk[r]) = 1, NEW ok, Reply(r, ok), UNCHANGED <<seq, forked>>
          PROVE  \E W : Executes(r, W)
      <3>1. /\ End(r)
            /\ \/ UNCHANGED removed
               \/ op[r] \in Deletes /\ obj[r] # Null /\ removed' = removed \cup {obj[r]}
        BY <2>6 DEF Reply
      <3>2. Executes(r, {w})
        BY <1>1, <2>1, <2>3, <2>6, <3>1 DEF Executes
      <3> QED  BY <3>2
    <2>7. CASE /\ objs' = M /\ Len(bulk[r]) > 1 /\ bulk' = [bulk EXCEPT ![r] = Tail(bulk[r])]
               /\ UNCHANGED <<seq, forked, pc, op, mode, obj, other, vseq, removed>>
      <3>1. Executes(r, {w})
        BY <1>1, <2>1, <2>3, <2>7 DEF Executes, w
      <3> QED  BY <3>1
    <2> QED  BY <1>3, <2>5, <2>6, <2>7 DEF WriteMongo, w, M, hist
  <1>4. CASE WritePostgres(r)
    <2>1. UNCHANGED <<seq, forked>>
      BY <1>4 DEF WritePostgres
    <2>2. \/ Reply(r, FALSE) /\ UNCHANGED objs
          \/ objs' = Stages(bulk[r], vseq[r], mode[r])[4] /\ \E ok : Reply(r, ok)
      BY <1>4, Zenon DEF WritePostgres
    <2>3. CASE Reply(r, FALSE) /\ UNCHANGED objs
      <3>1. End(r) /\ UNCHANGED removed
        BY <2>3 DEF Reply
      <3>2. Executes(r, {})
        BY <1>1, <2>1, <2>3, <3>1, NothingWritten DEF Executes
      <3> QED  BY <3>2
    <2>4. ASSUME objs' = Stages(bulk[r], vseq[r], mode[r])[4], NEW ok, Reply(r, ok)
          PROVE  \E W : Executes(r, W)
      <3>1. Writes(In(bulk[r]), objs, objs', vseq[r])
        BY <1>1, <1>2, <2>4, StagesWrite
      <3>2. /\ End(r)
            /\ \/ UNCHANGED removed
               \/ op[r] \in Deletes /\ obj[r] # Null /\ removed' = removed \cup {obj[r]}
        BY <2>4 DEF Reply
      <3>3. Executes(r, In(bulk[r]))
        BY <1>1, <2>1, <3>1, <3>2 DEF Executes
      <3> QED  BY <3>3
    <2> QED  BY <2>2, <2>3, <2>4
  <1> QED  BY <1>3, <1>4 DEF Write

-----------------------------------------------------------------------------
(* The invariant is inductive                                              *)

\* What a step of request r leaves alone: all that the invariant says of the others.
Same(q)    == /\ pc'[q] = pc[q] /\ op'[q] = op[q] /\ obj'[q] = obj[q]
              /\ other'[q] = other[q] /\ vseq'[q] = vseq[q] /\ bulk'[q] = bulk[q]
Others(r)  == \A q \in Reqs \ {r} : Same(q)

\* Documents neither disappear nor come back: then what is known of a request that
\* does not move stays true, if nobody takes its number or its new _id.
LEMMA SoundKept ==
    ASSUME NEW q \in Reqs, Sound(q), Same(q), obj[q] \in Objs \cup {Null},
           other[q] \in Objs \cup {Null},
           \A o \in Objs : objs[o].exists => /\ objs'[o].exists
                                             /\ objs[o].deleted => objs'[o].deleted,
           InsertsNew(bulk[q], objs'),
           Holds(q) => NumberNew(vseq[q], objs', seq', forked')
    PROVE  Sound(q)'
  <1>1. obj[q] # Null => objs[obj[q]].exists /\ objs'[obj[q]].exists
    BY DEF Sound, InOrder
  <1>2. other[q] # Null => objs'[other[q]].exists
    BY DEF Sound, InOrder
  <1>3. obj[q] # Null /\ Deletion(obj[q], bulk[q], objs) => Deletion(obj[q], bulk[q], objs')
    BY <1>1 DEF Deletion
  <1>4. InOrder(pc[q], op[q], obj[q], other[q], vseq[q], bulk[q], objs', seq', forked')
    BY <1>1, <1>2, <1>3 DEF Sound, InOrder, Holds
  <1> QED  BY <1>4 DEF Sound, Same

\* Requests apart stay apart while they do not move.
LEMMA ApartKept ==
    ASSUME NEW p \in Reqs, NEW q \in Reqs, Apart(p, q), Same(p), Same(q), forked => forked'
    PROVE  Apart(p, q)'
  BY DEF Apart, Same, Holds

\* The operations of a bulk.
LEMMA InType ==
    ASSUME NEW b \in Seq(DbOp), NEW w \in In(b)
    PROVE  w \in DbOp /\ w.id \in Objs
  <1>1. PICK i \in DOMAIN b : w = b[i]
    BY DEF In
  <1>2. b[i] \in DbOp
    BY <1>1
  <1> QED  BY <1>1, <1>2 DEF DbOp

\* A step of one request that only reads the collection, or allocates a number.
LEMMA RequestStep ==
    ASSUME VersionsInv, IInv', NEW r \in Reqs, Others(r), UNCHANGED <<objs, removed>>,
           forked => forked', ~forked' => seq' \in {seq, seq + 1}, Sound(r)',
           Holding(pc'[r], bulk'[r]) /\ ~forked' =>
                vseq'[r] = seq + 1 \/ (Holds(r) /\ vseq'[r] = vseq[r]),
           \A w \in In(bulk'[r]) : IsInsert(w) => w \in In(bulk[r]) \/ w.id \in Fresh
    PROVE  VersionsInv'
  <1>0. /\ seq \in Nat /\ seq' \in Nat /\ (~forked' => seq <= seq') /\ vseq \in [Reqs -> Nat]
        /\ \A o \in Objs : objs[o].version_seq \in Nat
        /\ \A q \in Reqs : /\ obj[q] \in Objs \cup {Null} /\ other[q] \in Objs \cup {Null}
                           /\ bulk[q] \in Seq(DbOp)
    <2>1. objs \in [Objs -> Doc]
      BY DEF VersionsInv, IInv, SharedTypes
    <2>2. \A o \in Objs : objs[o].version_seq \in Nat
      BY <2>1 DEF Doc
    <2> QED  BY <2>2 DEF VersionsInv, IInv, SharedTypes, RequestTypes
  <1>1. DocsSound'
    <2>1. ~forked' => \A o \in Objs : objs'[o].version_seq <= seq'
      BY <1>0 DEF VersionsInv, DocsSound
    <2> QED  BY <2>1 DEF VersionsInv, DocsSound, UniqueVersionSeq
  <1>2. ASSUME NEW q \in Reqs \ {r} PROVE Sound(q)'
    <2>1. Sound(q) /\ Same(q)
      BY DEF VersionsInv, Others
    <2>2. InsertsNew(bulk[q], objs)
      BY <2>1 DEF Sound, InOrder
    <2>3. Holds(q) => NumberNew(vseq[q], objs, seq, forked)
      BY <2>1 DEF Sound, InOrder, Holds
    <2>4. Holds(q) => NumberNew(vseq[q], objs', seq', forked')
      BY <1>0, <2>3 DEF NumberNew
    <2> QED  BY <1>0, <2>1, <2>2, <2>4, SoundKept
  <1>3. ASSUME NEW q \in Reqs \ {r} PROVE Apart(r, q)'
    <2>1. Sound(q) /\ Same(q) /\ Apart(r, q)
      BY DEF VersionsInv, Others
    <2>2. Holds(q) /\ ~forked' => vseq[q] \in 1..seq
      BY <2>1 DEF Sound, InOrder, Holds, NumberNew
    <2>3. Holding(pc'[r], bulk'[r]) /\ Holding(pc'[q], bulk'[q]) =>
             forked' \/ vseq'[r] # vseq'[q]
      BY <1>0, <2>1, <2>2 DEF Apart, Same, Holds
    <2>4. NoInsertTwice(bulk'[r], bulk'[q])
      <3> SUFFICES ASSUME NEW w \in In(bulk'[r]), NEW x \in In(bulk'[q]),
                          IsInsert(w), IsInsert(x)
                   PROVE  w.id # x.id
        BY DEF NoInsertTwice
      <3>1. x \in In(bulk[q])
        BY <2>1 DEF Same
      <3>2. CASE w \in In(bulk[r])
        BY <2>1, <3>1, <3>2 DEF Apart, NoInsertTwice
      <3>3. CASE w.id \in Fresh
        BY <3>1, <3>3 DEF Fresh, Reserved, In
      <3> QED  BY <3>2, <3>3
    <2> QED  BY <2>3, <2>4 DEF Apart, Holds
  <1>4. ASSUME NEW p \in Reqs, NEW q \in Reqs \ {p} PROVE Apart(p, q)'
    <2>1. CASE p = r
      BY <1>3, <2>1
    <2>2. CASE q = r
      <3>1. Apart(r, p)'
        BY <1>3, <2>2
      <3> QED  BY <2>2, <3>1 DEF Apart, NoInsertTwice
    <2>3. CASE p # r /\ q # r
      BY <2>3, ApartKept DEF Others, VersionsInv
    <2> QED  BY <2>1, <2>2, <2>3
  <1>5. \A q \in Reqs : Sound(q)'
    BY <1>2
  <1> QED  BY <1>1, <1>4, <1>5 DEF VersionsInv

\* A step of no request that leaves the collection alone.
LEMMA NothingMoves ==
    ASSUME VersionsInv, IInv',
           UNCHANGED <<objs, seq, forked, removed, pc, op, obj, other, vseq, bulk>>
    PROVE  VersionsInv'
  BY DEF VersionsInv, DocsSound, UniqueVersionSeq, Sound, Apart, Holds

\* create_object_upload inserts a document under an _id nobody uses.
LEMMA DocumentCreated ==
    ASSUME VersionsInv, IInv', NEW o \in Fresh, NEW d \in Doc, d.exists, d.version_seq = 0,
           objs' = [objs EXCEPT ![o] = d],
           UNCHANGED <<seq, forked, removed, pc, op, obj, other, vseq, bulk>>
    PROVE  VersionsInv'
  <1>0. /\ objs \in [Objs -> Doc] /\ seq \in Nat /\ o \in Objs /\ ~objs[o].exists
        /\ vseq \in [Reqs -> Nat] /\ removed \subseteq Objs
        /\ \A q \in Reqs : /\ obj[q] \in Objs \cup {Null} /\ other[q] \in Objs \cup {Null}
                           /\ Sound(q) /\ Same(q)
    BY DEF VersionsInv, IInv, SharedTypes, RequestTypes, Fresh, Same
  <1>1. objs'[o] = d /\ \A p \in Objs \ {o} : objs'[p] = objs[p]
    BY <1>0
  <1>2. \A p \in Objs : objs'[p].version_seq = objs[p].version_seq \/ objs'[p].version_seq = 0
    BY <1>1
  <1>3. DocsSound'
    <2>1. ~forked => \A p \in Objs : objs'[p].version_seq <= seq
      BY <1>0, <1>1 DEF VersionsInv, DocsSound
    <2>2. ~forked => UniqueVersionSeq'
      BY <1>1, <1>2 DEF VersionsInv, DocsSound, UniqueVersionSeq
    <2>3. \A p \in removed : objs'[p].exists /\ objs'[p].deleted
      BY <1>0, <1>1 DEF VersionsInv, DocsSound
    <2> QED  BY <2>1, <2>2, <2>3 DEF DocsSound
  <1>4. ASSUME NEW q \in Reqs PROVE Sound(q)'
    <2>1. InsertsNew(bulk[q], objs) /\ (Holds(q) => NumberNew(vseq[q], objs, seq, forked))
      BY <1>0 DEF Sound, InOrder, Holds
    <2>2. \A w \in In(bulk[q]) : w.id # o
      BY DEF Fresh, Reserved, In
    <2>3. \A w \in In(bulk[q]) : w.id \in Objs
      <3>1. bulk[q] \in Seq(DbOp)
        BY DEF VersionsInv, IInv, RequestTypes
      <3> QED  BY <3>1, InType
    <2>4. InsertsNew(bulk[q], objs')
      BY <1>1, <2>1, <2>2, <2>3 DEF InsertsNew
    <2>5. Holds(q) => NumberNew(vseq[q], objs', seq', forked')
      BY <1>2, <2>1 DEF NumberNew
    <2>6. \A p \in Objs : objs[p].exists => /\ objs'[p].exists
                                            /\ objs[p].deleted => objs'[p].deleted
      BY <1>0, <1>1
    <2> QED  BY <1>0, <2>4, <2>5, <2>6, SoundKept
  <1>5. ASSUME NEW p \in Reqs, NEW q \in Reqs \ {p} PROVE Apart(p, q)'
    BY <1>0, ApartKept DEF VersionsInv
  <1> QED  BY <1>3, <1>4, <1>5 DEF VersionsInv

\* A request that ended has nothing left to keep.
LEMMA EndSound ==
    ASSUME IInv, NEW r \in Reqs, End(r)
    PROVE  Sound(r)' /\ ~Holding(pc'[r], bulk'[r]) /\ In(bulk'[r]) = {} /\ Others(r)
  <1>1. /\ pc'[r] = "idle" /\ obj'[r] = Null /\ other'[r] = Null /\ op'[r] = "none"
        /\ bulk'[r] = <<>> /\ Others(r)
    BY DEF IInv, RequestTypes, End, Others, Same
  <1>2. In(<<>>) = {} /\ DOMAIN <<>> = {}
    BY DEF In
  <1>3. ~Holding("idle", <<>>)
    BY <1>2 DEF Holding, Stamping
  <1>4. InOrder("idle", "none", Null, Null, vseq'[r], <<>>, objs', seq', forked')
    BY <1>2, <1>3 DEF InOrder, InsertsNew, StampsLast, PutPath, Deletes
  <1> QED  BY <1>1, <1>2, <1>3, <1>4 DEF Sound

\* A request that ends without an acknowledgement.
LEMMA EndStep ==
    ASSUME VersionsInv, IInv', NEW r \in Reqs, End(r), UNCHANGED <<objs, seq, forked, removed>>
    PROVE  VersionsInv'
  BY EndSound, RequestStep DEF VersionsInv

\* What is left of a bulk of at least two operations once its first is executed.
LEMMA TailFacts ==
    ASSUME NEW b \in Seq(DbOp), Len(b) > 1, StampsLast(b)
    PROVE  /\ Head(b) \in In(b) /\ Head(b).kind \notin Stamps
           /\ In(b) = {Head(b)} \cup In(Tail(b))
           /\ StampsLast(Tail(b))
  <1> DEFINE n == Len(b)
             t == Tail(b)
  <1>1. n \in Nat /\ DOMAIN b = 1..n
    OBVIOUS
  <1>2. b # <<>>
    BY EmptySeq
  <1>3. t \in Seq(DbOp) /\ Len(t) = n - 1 /\ \A i \in 1..Len(t) : t[i] = b[i + 1]
    BY <1>2, HeadTailProperties
  <1>4. DOMAIN t = 1..(n - 1)
    BY <1>3
  <1>5. Head(b) = b[1]
    OBVIOUS
  <1>6. n > 1
    OBVIOUS
  <1> HIDE DEF n, t
  <1>7. 1 \in DOMAIN b /\ 1 # n
    BY <1>1, <1>6
  <1>8. Head(b) \in In(b) /\ Head(b).kind \notin Stamps
    BY <1>5, <1>7 DEF In, StampsLast, n
  <1>9. \A i \in DOMAIN t : i + 1 \in DOMAIN b /\ t[i] = b[i + 1]
    BY <1>1, <1>3, <1>4
  <1>10. \A i \in DOMAIN b : i = 1 \/ (i - 1 \in DOMAIN t /\ t[i - 1] = b[i])
    <2> TAKE i \in DOMAIN b
    <2>1. CASE i # 1
      <3>1. i \in Int /\ i - 1 \in DOMAIN t
        BY <1>1, <1>4, <1>6, <2>1
      <3>2. t[i - 1] = b[(i - 1) + 1]
        BY <1>9, <3>1
      <3>3. (i - 1) + 1 = i
        BY <3>1
      <3> QED  BY <3>1, <3>2, <3>3
    <2> QED  BY <2>1
  <1>11. In(b) = {Head(b)} \cup In(t)
    <2>1. In(t) \subseteq In(b)
      BY <1>9 DEF In
    <2>2. In(b) \subseteq {Head(b)} \cup In(t)
      <3> SUFFICES ASSUME NEW i \in DOMAIN b PROVE b[i] \in {Head(b)} \cup In(t)
        BY DEF In
      <3>1. CASE i = 1
        BY <1>5, <3>1
      <3>2. CASE i # 1
        BY <1>10, <3>2 DEF In
      <3> QED  BY <3>1, <3>2
    <2> QED  BY <1>8, <2>1, <2>2
  <1>12. StampsLast(t)
    <2> SUFFICES ASSUME NEW i \in DOMAIN t, t[i].kind \in Stamps PROVE i = Len(t)
      BY DEF StampsLast
    <2>1. i + 1 = n
      BY <1>9 DEF StampsLast, n
    <2> QED  BY <1>1, <1>3, <1>4, <2>1
  <1> QED  BY <1>8, <1>11, <1>12 DEF t

\* Two operations of a bulk that write a version_seq are the same one.
LEMMA OneStamp ==
    ASSUME NEW b, StampsLast(b), NEW w \in In(b), NEW x \in In(b),
           w.kind \in Stamps, x.kind \in Stamps
    PROVE  w = x
  BY DEF StampsLast, In

\* Executing operations of a bulk, on MongoDB or PostgreSQL.
LEMMA ExecutesStep ==
    ASSUME VersionsInv, IInv', NEW r \in Reqs, NEW W, Executes(r, W)
    PROVE  VersionsInv'
  <1>0. /\ objs \in [Objs -> Doc] /\ seq \in Nat /\ removed \subseteq Objs
        /\ vseq \in [Reqs -> Nat] /\ objs' \in [Objs -> Doc]
        /\ \A q \in Reqs : /\ obj[q] \in Objs \cup {Null} /\ other[q] \in Objs \cup {Null}
                           /\ bulk[q] \in Seq(DbOp) /\ Sound(q)
    BY DEF VersionsInv, IInv, SharedTypes, RequestTypes
  <1> DEFINE n == vseq[r]
  <1>1. /\ W \subseteq In(bulk[r]) /\ Writes(W, objs, objs', n) /\ pc[r] = "write"
        /\ seq' = seq /\ forked' = forked
    BY DEF Executes
  <1>2. StampsLast(bulk[r]) /\ InsertsNew(bulk[r], objs)
    BY <1>0 DEF Sound, InOrder
  <1>3. \A o \in Objs : objs[o].exists => /\ objs'[o].exists
                                          /\ objs[o].deleted => objs'[o].deleted
    BY <1>1 DEF Writes
  <1>4. \A w \in W : w.kind \in Stamps => Holds(r) /\ NumberNew(n, objs, seq, forked)
    <2>1. \A w \in W : w.kind \in Stamps => Holds(r)
      BY <1>1 DEF Holds, Holding, Stamping
    <2>2. Holds(r) => NumberNew(n, objs, seq, forked)
      BY <1>0 DEF Sound, InOrder, Holds
    <2> QED  BY <2>1, <2>2
  <1>5. \A o \in Objs : \/ objs'[o].version_seq = objs[o].version_seq
                        \/ /\ objs'[o].version_seq = n
                           /\ \E w \in W : w.kind \in Stamps /\ w.id = o
    BY <1>1 DEF Writes
  <1> HIDE DEF n
  <1>6. \A w \in W, x \in W : w.kind \in Stamps /\ x.kind \in Stamps => w.id = x.id
    BY <1>1, <1>2, OneStamp
  <1>7. ASSUME ~forked, NEW o \in Objs PROVE objs'[o].version_seq <= seq
    <2>1. CASE objs'[o].version_seq = objs[o].version_seq
      BY <1>7, <2>1 DEF VersionsInv, DocsSound
    <2>2. CASE objs'[o].version_seq = n /\ \E w \in W : w.kind \in Stamps
      <3>1. n \in 1..seq
        BY <1>4, <1>7, <2>2 DEF NumberNew
      <3> QED  BY <1>0, <2>2, <3>1
    <2> QED  BY <1>5, <2>1, <2>2
  <1>8. ASSUME ~forked PROVE UniqueVersionSeq'
    <2> SUFFICES ASSUME NEW o \in Objs, NEW p \in Objs,
                        objs'[o].version_seq = objs'[p].version_seq
                 PROVE  o = p \/ objs'[o].version_seq = 0
      BY DEF UniqueVersionSeq
    <2>1. \A x \in Objs : objs'[x].version_seq = objs[x].version_seq \/
                          (objs[x].version_seq # n /\ objs'[x].version_seq = n)
      BY <1>4, <1>5, <1>8 DEF NumberNew
    <2>2. CASE /\ objs'[o].version_seq = objs[o].version_seq
               /\ objs'[p].version_seq = objs[p].version_seq
      BY <1>8, <2>2 DEF VersionsInv, DocsSound, UniqueVersionSeq
    <2>3. CASE /\ objs'[o].version_seq # objs[o].version_seq
               /\ objs'[p].version_seq # objs[p].version_seq
      BY <1>5, <1>6, <2>3
    <2>4. ASSUME NEW x \in Objs, NEW y \in Objs, objs'[x].version_seq = objs'[y].version_seq,
                 objs'[x].version_seq # objs[x].version_seq,
                 objs'[y].version_seq = objs[y].version_seq
          PROVE  FALSE
      <3>1. \E w \in W : w.kind \in Stamps
        BY <1>5, <2>4
      <3>2. objs[y].version_seq # n
        BY <1>4, <1>8, <3>1 DEF NumberNew
      <3> QED  BY <1>5, <2>4, <3>2
    <2> QED  BY <2>2, <2>3, <2>4
  <1>9. \A o \in removed' : objs'[o].exists /\ objs'[o].deleted
    <2>1. \A o \in removed : objs'[o].exists /\ objs'[o].deleted
      BY <1>0, <1>3 DEF VersionsInv, DocsSound
    <2>2. CASE /\ W = In(bulk[r]) /\ op[r] \in Deletes /\ obj[r] # Null
               /\ removed' = removed \cup {obj[r]}
      <3>1. /\ obj[r] \in Objs /\ objs[obj[r]].exists /\ Deletion(obj[r], bulk[r], objs)
        BY <1>0, <1>1, <2>2 DEF Sound, InOrder
      <3>2. objs'[obj[r]].exists /\ objs'[obj[r]].deleted
        <4>1. CASE objs[obj[r]].deleted
          BY <1>3, <3>1, <4>1
        <4>2. CASE \E w \in W : w.kind \in Removes /\ w.id = obj[r]
          BY <1>1, <1>3, <3>1, <4>2 DEF Writes
        <4> QED  BY <2>2, <3>1, <4>1, <4>2 DEF Deletion
      <3> QED  BY <2>1, <2>2, <3>2
    <2> QED  BY <2>1, <2>2 DEF Executes
  <1>10. DocsSound'
    BY <1>1, <1>7, <1>8, <1>9 DEF DocsSound
  <1>11. \/ End(r)
         \/ /\ Len(bulk[r]) > 1 /\ W = {Head(bulk[r])}
            /\ bulk' = [bulk EXCEPT ![r] = Tail(bulk[r])]
            /\ UNCHANGED <<pc, op, obj, other, vseq>>
    BY DEF Executes
  <1>12. Others(r) /\ In(bulk'[r]) \subseteq In(bulk[r])
         /\ (Holds(r)' => Holds(r) /\ vseq'[r] = n)
         /\ Sound(r)'
    <2>1. CASE End(r)
      BY <2>1, EndSound DEF VersionsInv, Holds
    <2>2. CASE /\ Len(bulk[r]) > 1 /\ W = {Head(bulk[r])}
               /\ bulk' = [bulk EXCEPT ![r] = Tail(bulk[r])]
               /\ UNCHANGED <<pc, op, obj, other, vseq>>
      <3> DEFINE b == bulk[r]
                 t == Tail(bulk[r])
      <3>1. bulk'[r] = t /\ Others(r)
        <4>1. bulk \in [Reqs -> Seq(DbOp)]
          BY DEF VersionsInv, IInv, RequestTypes
        <4> QED  BY <2>2, <4>1 DEF Others, Same
      <3>2. /\ Head(b) \in In(b) /\ Head(b).kind \notin Stamps
            /\ In(b) = {Head(b)} \cup In(t) /\ StampsLast(t)
        BY <1>0, <1>2, <2>2, TailFacts
      <3> HIDE DEF b, t
      <3>3. W = {Head(b)} /\ bulk[r] = b
        BY <2>2 DEF b
      <3>4. Stamping(t) <=> Stamping(b)
        BY <3>2 DEF Stamping
      <3>5. \A o \in Objs : objs'[o].version_seq = objs[o].version_seq
        BY <1>5, <3>2, <3>3
      <3>6. Stamping(b) => NumberNew(n, objs', seq, forked)
        <4>1. Stamping(b) => NumberNew(n, objs, seq, forked)
          BY <1>0, <3>3 DEF Sound, InOrder, Holding, n
        <4> QED  BY <3>5, <4>1 DEF NumberNew
      <3>7. InsertsNew(t, objs')
        <4> SUFFICES ASSUME NEW w \in In(t), IsInsert(w), objs'[w.id].exists PROVE FALSE
          BY DEF InsertsNew
        <4>1. w \in In(b) /\ w.id \in Objs /\ ~objs[w.id].exists
          BY <1>0, <1>2, <3>2, <3>3, InType DEF InsertsNew
        <4>2. IsInsert(Head(b))
          BY <1>1, <3>3, <4>1 DEF Writes
        <4> QED  BY <3>2, <4>2 DEF IsInsert, Stamps, Inserts
      <3>8. obj[r] # Null => objs'[obj[r]].exists
        BY <1>0, <1>3 DEF Sound, InOrder
      <3>9. other[r] # Null => objs'[other[r]].exists
        BY <1>0, <1>3 DEF Sound, InOrder
      <3>10. op[r] \in Deletes /\ obj[r] # Null => Deletion(obj[r], t, objs')
        <4> SUFFICES ASSUME op[r] \in Deletes, obj[r] # Null PROVE Deletion(obj[r], t, objs')
          OBVIOUS
        <4>1. obj[r] \in Objs /\ objs[obj[r]].exists /\ Deletion(obj[r], b, objs)
          BY <1>0, <1>1, <3>3 DEF Sound, InOrder
        <4>2. CASE objs[obj[r]].deleted
          BY <1>3, <4>1, <4>2 DEF Deletion
        <4>3. ASSUME NEW w \in In(b), w.kind \in Removes, w.id = obj[r]
              PROVE  Deletion(obj[r], t, objs')
          <5>1. CASE w = Head(b)
            BY <1>1, <3>3, <4>1, <4>3, <5>1 DEF Writes, Deletion
          <5>2. CASE w \in In(t)
            BY <4>3, <5>2 DEF Deletion
          <5> QED  BY <3>2, <5>1, <5>2
        <4> QED  BY <4>1, <4>2, <4>3 DEF Deletion
      <3>11. InOrder("write", op[r], obj[r], other[r], n, t, objs', seq, forked)
        BY <3>2, <3>4, <3>6, <3>7, <3>8, <3>9, <3>10 DEF InOrder, PutPath, Holding
      <3>12. Sound(r)'
        BY <1>1, <2>2, <3>1, <3>11 DEF Sound, n
      <3>13. Holds(r)' => Holds(r)
        BY <1>1, <2>2, <3>1, <3>3, <3>4 DEF Holds, Holding
      <3> QED  BY <2>2, <3>1, <3>2, <3>3, <3>12, <3>13 DEF n
    <2> QED  BY <1>11, <2>1, <2>2
  <1>13. ASSUME NEW q \in Reqs \ {r} PROVE Sound(q)' /\ Apart(r, q)'
    <2>1. Sound(q) /\ Same(q) /\ Apart(r, q)
      BY <1>12 DEF VersionsInv, Others
    <2>2. InsertsNew(bulk[q], objs')
      <3> SUFFICES ASSUME NEW w \in In(bulk[q]), IsInsert(w), objs'[w.id].exists PROVE FALSE
        BY DEF InsertsNew
      <3>1. w.id \in Objs /\ ~objs[w.id].exists
        BY <1>0, <2>1, InType DEF Sound, InOrder, InsertsNew
      <3>2. \E x \in W : IsInsert(x) /\ x.id = w.id
        BY <1>1, <3>1 DEF Writes
      <3> QED  BY <1>1, <2>1, <3>2 DEF Apart, NoInsertTwice
    <2>3. Holds(q) => NumberNew(vseq[q], objs', seq', forked')
      <3>1. Holds(q) => NumberNew(vseq[q], objs, seq, forked)
        BY <2>1 DEF Sound, InOrder, Holds
      <3>2. Holds(q) /\ (\E w \in W : w.kind \in Stamps) => forked \/ vseq[q] # n
        BY <1>4, <2>1 DEF Apart, n
      <3> QED  BY <1>1, <1>5, <3>1, <3>2 DEF NumberNew
    <2>4. Sound(q)'
      BY <1>0, <1>3, <2>1, <2>2, <2>3, SoundKept
    <2>5. Apart(r, q)'
      <3>1. Holds(r)' /\ Holds(q)' => forked' \/ vseq'[r] # vseq'[q]
        BY <1>1, <1>12, <2>1 DEF Apart, Same, Holds, n
      <3>2. NoInsertTwice(bulk'[r], bulk'[q])
        BY <1>12, <2>1 DEF Apart, NoInsertTwice, Same
      <3> QED  BY <3>1, <3>2 DEF Apart
    <2> QED  BY <2>4, <2>5
  <1>14. ASSUME NEW p \in Reqs, NEW q \in Reqs \ {p} PROVE Apart(p, q)'
    <2>1. CASE p = r
      BY <1>13, <2>1
    <2>2. CASE q = r
      <3>1. Apart(r, p)'
        BY <1>13, <2>2
      <3> QED  BY <2>2, <3>1 DEF Apart, NoInsertTwice
    <2>3. CASE p # r /\ q # r
      BY <1>1, <1>12, <2>3, ApartKept DEF Others, VersionsInv
    <2> QED  BY <2>1, <2>2, <2>3
  <1>15. \A q \in Reqs : Sound(q)'
    BY <1>12, <1>13
  <1> QED  BY <1>10, <1>14, <1>15 DEF VersionsInv

\* The operations of the bulks the handlers build.
LEMMA InTuples ==
    /\ In(<<>>) = {} /\ StampsLast(<<>>)
    /\ \A a : In(<<a>>) = {a} /\ StampsLast(<<a>>)
    /\ \A a, b : In(<<a, b>>) = {a, b} /\ (a.kind \notin Stamps => StampsLast(<<a, b>>))
    /\ \A a, b, c : /\ In(<<a, b, c>>) = {a, b, c}
                    /\ a.kind \notin Stamps /\ b.kind \notin Stamps => StampsLast(<<a, b, c>>)
  <1>1. In(<<>>) = {} /\ StampsLast(<<>>)
    BY DEF In, StampsLast
  <1>2. \A a : In(<<a>>) = {a} /\ StampsLast(<<a>>)
    BY DEF In, StampsLast
  <1>3. \A a, b : In(<<a, b>>) = {a, b} /\ (a.kind \notin Stamps => StampsLast(<<a, b>>))
    BY DEF In, StampsLast
  <1>4. \A a, b, c : /\ In(<<a, b, c>>) = {a, b, c}
                     /\ a.kind \notin Stamps /\ b.kind \notin Stamps => StampsLast(<<a, b, c>>)
    BY DEF In, StampsLast
  <1> QED  BY <1>1, <1>2, <1>3, <1>4

\* The locals of request r after its step, those of the others unchanged.
Locals(r, l, k, o, p, n, b) ==
    /\ pc'[r] = l /\ op'[r] = k /\ obj'[r] = o /\ other'[r] = p
    /\ vseq'[r] = n /\ bulk'[r] = b /\ Others(r)

\* A step of one request that only reads the collection.
LEMMA ReadStep ==
    ASSUME VersionsInv, IInv', NEW r \in Reqs, UNCHANGED <<objs, seq, forked, removed>>,
           NEW l, NEW k, NEW o, NEW p, NEW n, NEW b, Locals(r, l, k, o, p, n, b),
           InOrder(l, k, o, p, n, b, objs, seq, forked),
           Holding(l, b) => Holds(r) /\ n = vseq[r],
           \A w \in In(b) : ~IsInsert(w)
    PROVE  VersionsInv'
  <1>1. Sound(r)'
    BY DEF Sound, Locals
  <1>2. Holding(pc'[r], bulk'[r]) => Holds(r) /\ vseq'[r] = vseq[r]
    BY DEF Locals
  <1>3. \A w \in In(bulk'[r]) : ~IsInsert(w)
    BY DEF Locals
  <1>4. seq' \in {seq, seq + 1} /\ forked' = forked /\ Others(r)
    BY DEF Locals
  <1> QED  BY <1>1, <1>2, <1>3, <1>4, RequestStep

\* A request that has issued nothing yet and goes on.
LEMMA GoesOn ==
    ASSUME VersionsInv, IInv', NEW r \in Reqs, UNCHANGED <<objs, seq, forked, removed>>,
           NEW l \in {"find_upload", "alloc_version", "put_latest", "abort_find",
                      "version_read", "version_prev", "key_read", "key_latest"},
           NEW k, NEW o, NEW p, NEW n, Locals(r, l, k, o, p, n, <<>>),
           o # Null => objs[o].exists, p # Null => objs[p].exists,
           l = "key_read" => o = Null, l \in PutPath => k \in Completions,
           l = "put_latest" => Holds(r) /\ n = vseq[r]
    PROVE  VersionsInv'
  <1>1. In(<<>>) = {} /\ StampsLast(<<>>)
    BY InTuples
  <1>2. Holding(l, <<>>) => l = "put_latest"
    BY <1>1 DEF Holding, Stamping
  <1>3. Holds(r) => NumberNew(vseq[r], objs, seq, forked)
    BY DEF VersionsInv, Sound, InOrder, Holds
  <1>4. InOrder(l, k, o, p, n, <<>>, objs, seq, forked)
    BY <1>1, <1>2, <1>3 DEF InOrder, InsertsNew
  <1> QED  BY <1>1, <1>2, <1>4, ReadStep

\* A request that issues a bulk without a delete marker, or keeps it for the marker.
LEMMA Issued ==
    ASSUME VersionsInv, IInv', NEW r \in Reqs, UNCHANGED <<objs, seq, forked, removed>>,
           NEW l \in {"make_marker", "write"},
           NEW k, NEW o, NEW p, NEW n, NEW b, Locals(r, l, k, o, p, n, b),
           o # Null => objs[o].exists, p # Null => objs[p].exists,
           \A w \in In(b) : w.kind \notin Inserts, StampsLast(b),
           Stamping(b) => l = "write" /\ Holds(r) /\ n = vseq[r],
           k \in Deletes /\ o # Null => Deletion(o, b, objs)
    PROVE  VersionsInv'
  <1>1. \A w \in In(b) : ~IsInsert(w)
    BY DEF IsInsert, Inserts
  <1>2. Holding(l, b) <=> Stamping(b)
    BY DEF Holding
  <1>3. Holds(r) => NumberNew(vseq[r], objs, seq, forked)
    BY DEF VersionsInv, Sound, InOrder, Holds
  <1>4. InOrder(l, k, o, p, n, b, objs, seq, forked)
    BY <1>1, <1>2, <1>3 DEF InOrder, InsertsNew, PutPath
  <1> QED  BY <1>1, <1>2, <1>4, ReadStep

\* load_bucket(): a request starts.
LEMMA BeginStep ==
    ASSUME VersionsInv, IInv', NEW r \in Reqs,
           NEW name, NEW l \in {"find_upload", "abort_find", "version_read", "key_read"},
           NEW o, NEW n, Begin(r, name, l, o, n),
           o # Null => objs[o].exists, l = "key_read" => o = Null,
           l = "find_upload" => name \in Completions
    PROVE  VersionsInv'
  <1>1. bulk[r] = <<>> /\ (other[r] # Null => objs[other[r]].exists)
    BY DEF VersionsInv, Sound, InOrder, Begin
  <1>2. Locals(r, l, name, o, other[r], n, <<>>) /\ UNCHANGED <<objs, seq, forked, removed>>
    BY <1>1 DEF Begin, Locals, Others, Same, VersionsInv, IInv, RequestTypes, db, hist
  <1> QED  BY <1>1, <1>2, GoesOn DEF PutPath

\* An empty collection and idle requests are in order.
LEMMA InitVersionsInv == Init => VersionsInv
  <1> SUFFICES ASSUME Init PROVE VersionsInv
    OBVIOUS
  <1>1. IInv
    BY InitIInv
  <1>2. In(<<>>) = {} /\ StampsLast(<<>>)
    BY InTuples
  <1>3. \A o \in Objs : objs[o].version_seq = 0
    BY DEF Init, NoDoc
  <1>4. DocsSound
    BY <1>3 DEF Init, DocsSound, UniqueVersionSeq
  <1>5. ~Holding("idle", <<>>)
    BY <1>2 DEF Holding, Stamping
  <1>6. InOrder("idle", "none", Null, Null, 0, <<>>, objs, seq, forked)
    BY <1>2, <1>5 DEF InOrder, InsertsNew, PutPath
  <1>7. \A q \in Reqs : Sound(q) /\ ~Holds(q) /\ In(bulk[q]) = {}
    BY <1>2, <1>5, <1>6 DEF Init, Sound, Holds
  <1> QED  BY <1>1, <1>4, <1>7 DEF VersionsInv, Apart, NoInsertTwice

\* Every step keeps the numbers unique and the deletions in force.
LEMMA StepVersionsInv == VersionsInv /\ [Next]_vars => VersionsInv'
  <1> SUFFICES ASSUME VersionsInv, [Next]_vars PROVE VersionsInv'
    OBVIOUS
  <1>i. IInv /\ IInv'
    BY StepIInv DEF VersionsInv
  <1>0. /\ objs \in [Objs -> Doc] /\ seq \in Nat
        /\ pc = [q \in Reqs |-> pc[q]] /\ op = [q \in Reqs |-> op[q]]
        /\ obj \in [Reqs -> Objs \cup {Null}] /\ other \in [Reqs -> Objs \cup {Null}]
        /\ vseq \in [Reqs -> Nat] /\ bulk \in [Reqs -> Seq(DbOp)]
    BY <1>i DEF IInv, SharedTypes, RequestTypes
  <1>s. \A r \in Reqs :
          /\ InOrder(pc[r], op[r], obj[r], other[r], vseq[r], bulk[r], objs, seq, forked)
          /\ pc[r] \notin {"make_marker", "write"} => bulk[r] = <<>>
          /\ pc[r] \in PutPath => op[r] \in Completions /\ op[r] \notin Deletes
          /\ obj[r] # Null => objs[obj[r]].exists
          /\ other[r] # Null => objs[other[r]].exists
          /\ pc[r] \in {"put_read", "put_latest"} => Holds(r)
          /\ pc[r] = "key_read" => obj[r] = Null
    BY DEF VersionsInv, Sound, InOrder, Holds, Holding, Completions, Deletes
  <1>k. /\ \A k \in Kinds : \A o : Do(k, o).kind = k /\ Do(k, o).id = o
        /\ Null \notin Objs
    BY NullAssumption DEF Do
  <1>1. CASE CreateUpload
    <2>1. PICK o \in Fresh : objs' = [objs EXCEPT ![o] = UploadDoc]
      BY <1>1 DEF CreateUpload
    <2>2. UploadDoc \in Doc /\ UploadDoc.exists /\ UploadDoc.version_seq = 0
      BY DEF UploadDoc, NoDoc, Doc
    <2>3. UNCHANGED <<seq, forked, removed, pc, op, obj, other, vseq, bulk>>
      BY <1>1 DEF CreateUpload, requests, hist
    <2> QED  BY <1>i, <2>1, <2>2, <2>3, DocumentCreated
  <1>2. CASE CreateComplete
    <2>1. PICK o \in Fresh : objs' = [objs EXCEPT ![o] = CachedObjectDoc]
      BY <1>2 DEF CreateComplete
    <2>2. CachedObjectDoc \in Doc /\ CachedObjectDoc.exists /\ CachedObjectDoc.version_seq = 0
      BY DEF CachedObjectDoc, NoDoc, Doc
    <2>3. UNCHANGED <<seq, forked, removed, pc, op, obj, other, vseq, bulk>>
      BY <1>2 DEF CreateComplete, requests, hist
    <2> QED  BY <1>i, <2>1, <2>2, <2>3, DocumentCreated
  <1>3. CASE SetVersioning \/ (\E o \in Objs : Expire(o)) \/ UNCHANGED vars
    <2>1. UNCHANGED <<objs, seq, forked, removed, pc, op, obj, other, vseq, bulk>>
      BY <1>3 DEF SetVersioning, Expire, vars, requests, db, hist
    <2> QED  BY <1>i, <2>1, NothingMoves
  <1>4. ASSUME NEW r \in Reqs, Start(r) PROVE VersionsInv'
    <2>1. PICK name \in AllOps, l \in {"find_upload", "abort_find", "version_read", "key_read"},
               o \in Objs \cup {Null}, n \in Nat :
            /\ Begin(r, name, l, o, n)
            /\ o # Null => objs[o].exists
            /\ l = "key_read" => o = Null
            /\ l = "find_upload" => name \in Completions
      <3>1. CASE Complete(r)
        BY <1>k, <3>1, Zenon DEF Complete, Uploads, AllOps, Completions
      <3>2. CASE Abort(r)
        BY <1>k, <3>2, Zenon DEF Abort, Uploads, AllOps, Deletes
      <3>3. CASE DeleteVersion(r)
        <4>1. \A o \in Objs : objs[o].version_seq \in Nat
          BY <1>0 DEF Doc
        <4> QED  BY <3>3, <4>1 DEF DeleteVersion, AllOps, Deletes
      <3>4. CASE DeleteKey(r)
        BY <3>4 DEF DeleteKey, AllOps, Deletes
      <3> QED  BY <1>4, <3>1, <3>2, <3>3, <3>4 DEF Start
    <2> QED  BY <1>i, <2>1, BeginStep
  <1>5. ASSUME NEW r \in Reqs, End(r), UNCHANGED <<db, hist>> PROVE VersionsInv'
    <2>1. UNCHANGED <<objs, seq, forked, removed>>
      BY <1>5 DEF db, hist
    <2> QED  BY <1>5, <1>i, <2>1, EndStep
  <1>6. ASSUME NEW r \in Reqs, FindUpload(r) PROVE VersionsInv'
    <2>1. CASE Goto(r, "alloc_version") /\ UNCHANGED <<db, obj, other, vseq, bulk>>
      <3>1. pc[r] = "find_upload" /\ bulk[r] = <<>> /\ op[r] \in Completions
        BY <1>6, <1>s DEF FindUpload, PutPath
      <3>2. /\ Locals(r, "alloc_version", op[r], obj[r], other[r], vseq[r], <<>>)
            /\ UNCHANGED <<objs, seq, forked, removed>>
        BY <1>0, <2>1, <3>1 DEF Goto, Locals, Others, Same, db, hist
      <3> QED  BY <1>i, <1>s, <3>1, <3>2, GoesOn
    <2> QED  BY <1>5, <1>6, <2>1 DEF FindUpload
  <1>a. ASSUME NEW r \in Reqs, Alloc(r)
        PROVE  /\ vseq' = [vseq EXCEPT ![r] = vseq'[r]] /\ (forked => forked')
               /\ ~forked' => seq' = seq + 1 /\ vseq'[r] = seq'
    <2>1. CASE NextNumber(r)
      BY <1>0, <2>1 DEF NextNumber
    <2>2. CASE FirstNumber(r)
      <3>1. vseq' = [vseq EXCEPT ![r] = 1] /\ (forked => forked')
        BY <2>2 DEF FirstNumber
      <3>2. vseq'[r] = 1
        BY <1>0, <3>1
      <3>3. vseq' = [vseq EXCEPT ![r] = vseq'[r]]
        BY <3>1, <3>2
      <3>4. ~forked' => seq = 0
        BY <2>2, Zenon DEF FirstNumber
      <3>5. seq = 0 => seq' = 1
        BY <2>2 DEF FirstNumber
      <3>6. ~forked' => seq' = seq + 1 /\ seq' = 1
        BY <3>4, <3>5
      <3> QED  BY <3>1, <3>2, <3>3, <3>6
    <2> QED  BY <1>a, <2>1, <2>2 DEF Alloc
  <1>n. ~forked /\ seq' = seq + 1 => NumberNew(seq', objs, seq', forked')
    <2> HAVE ~forked /\ seq' = seq + 1
    <2>1. \A x \in Objs : objs[x].version_seq \in Nat /\ objs[x].version_seq <= seq
      BY <1>0 DEF VersionsInv, DocsSound, Doc
    <2>2. seq' \in 1..seq' /\ \A x \in Objs : objs[x].version_seq # seq'
      BY <1>0, <2>1
    <2> QED  BY <2>2 DEF NumberNew
  <1>7. ASSUME NEW r \in Reqs, AllocVersion(r) PROVE VersionsInv'
    <2> DEFINE n == vseq'[r]
    <2>1. pc[r] = "alloc_version" /\ bulk[r] = <<>> /\ op[r] \in Completions
      BY <1>7, <1>s DEF AllocVersion, PutPath
    <2>2. /\ vseq' = [vseq EXCEPT ![r] = n] /\ (forked => forked')
          /\ ~forked' => seq' = seq + 1 /\ n = seq'
      BY <1>7, <1>a DEF AllocVersion
    <2>3. NumberNew(n, objs, seq', forked')
      BY <1>n, <2>2 DEF NumberNew
    <2> HIDE DEF n
    <2>4. In(<<>>) = {} /\ StampsLast(<<>>)
      BY InTuples
    <2>5. /\ Locals(r, "put_read", op[r], obj[r], other[r], n, <<>>)
          /\ UNCHANGED <<objs, removed>>
      BY <1>0, <1>7, <2>1, <2>2 DEF AllocVersion, Goto, Locals, Others, Same, hist
    <2>6. InOrder("put_read", op[r], obj[r], other[r], n, <<>>, objs, seq', forked')
      BY <1>s, <2>1, <2>3, <2>4 DEF InOrder, InsertsNew, Stamping
    <2>7. Sound(r)' /\ Others(r) /\ vseq'[r] = n /\ In(bulk'[r]) = {}
      BY <2>4, <2>5, <2>6 DEF Sound, Locals
    <2> QED  BY <1>i, <2>2, <2>5, <2>7, RequestStep
  <1>8. ASSUME NEW r \in Reqs, PutRead(r) PROVE VersionsInv'
    <2>1. pc[r] = "put_read" /\ bulk[r] = <<>> /\ op[r] \notin Deletes /\ op[r] \in Completions
          /\ Holds(r)
      BY <1>8, <1>s DEF PutRead, PutPath
    <2>2. PICK f \in FindOne(IF mode[r] = "ENABLED" THEN Latest ELSE NullVersions) :
            \/ /\ UNCHANGED other
               /\ \/ Issue(r, <<Do("put_by_id", obj[r])>>)
                  \/ \E k \in {"unset_latest", "delete_and_unset_latest"} :
                        Issue(r, <<Do(k, f), Do("put", obj[r])>>)
            \/ Goto(r, "put_latest") /\ other' = [other EXCEPT ![r] = f] /\ UNCHANGED bulk
      BY <1>8 DEF PutRead
    <2>3. f \in Objs \cup {Null} /\ (f # Null => objs[f].exists)
      BY FindOneType DEF Latest, NullVersions, Stored, IsStored, IsLive
    <2>4. UNCHANGED <<objs, seq, forked, obj, vseq>>
      BY <1>8 DEF PutRead, db
    <2>5. ASSUME NEW b, Issue(r, b), UNCHANGED other, StampsLast(b),
                 \A w \in In(b) : w.kind \notin Inserts
          PROVE  VersionsInv'
      <3>1. /\ Locals(r, "write", op[r], obj[r], other[r], vseq[r], b)
            /\ UNCHANGED <<objs, seq, forked, removed>>
        BY <1>0, <2>4, <2>5 DEF Issue, Goto, Locals, Others, Same, hist
      <3> QED  BY <1>i, <1>s, <2>1, <2>5, <3>1, Issued
    <2>6. CASE Issue(r, <<Do("put_by_id", obj[r])>>) /\ UNCHANGED other
      BY <1>k, <2>5, <2>6, InTuples DEF Kinds, Inserts
    <2>7. ASSUME NEW k \in {"unset_latest", "delete_and_unset_latest"},
                 Issue(r, <<Do(k, f), Do("put", obj[r])>>), UNCHANGED other
          PROVE  VersionsInv'
      BY <1>k, <2>5, <2>7, InTuples DEF Kinds, Inserts, Stamps, Puts
    <2>8. CASE Goto(r, "put_latest") /\ other' = [other EXCEPT ![r] = f] /\ UNCHANGED bulk
      <3>1. UNCHANGED <<op, removed>> /\ pc' = [pc EXCEPT ![r] = "put_latest"]
        BY <2>8 DEF Goto, hist
      <3>2. Locals(r, "put_latest", op[r], obj[r], f, vseq[r], <<>>)
        BY <1>0, <2>1, <2>4, <2>8, <3>1 DEF Locals, Others, Same
      <3>3. UNCHANGED <<objs, seq, forked, removed>> /\ (obj[r] # Null => objs[obj[r]].exists)
        BY <1>s, <2>4, <3>1
      <3> QED  BY <1>i, <2>1, <2>3, <3>2, <3>3, GoesOn
    <2> QED  BY <2>2, <2>6, <2>7, <2>8
  <1>9. ASSUME NEW r \in Reqs, PutLatest(r) PROVE VersionsInv'
    <2>1. pc[r] = "put_latest" /\ op[r] \notin Deletes /\ Holds(r)
      BY <1>9, <1>s DEF PutLatest, PutPath
    <2>2. PICK f :
            \/ Issue(r, <<Do("put_by_id", obj[r])>>)
            \/ Issue(r, <<Do("unset_latest", f), Do("put", obj[r])>>)
            \/ Issue(r, <<Do("delete", other[r]), Do("unset_latest", f), Do("put", obj[r])>>)
      BY <1>9 DEF PutLatest
    <2>3. PICK b : Issue(r, b) /\ StampsLast(b) /\ \A w \in In(b) : w.kind \notin Inserts
      BY <1>k, <2>2, InTuples DEF Kinds, Inserts, Stamps, Puts
    <2>4. /\ Locals(r, "write", op[r], obj[r], other[r], vseq[r], b)
          /\ UNCHANGED <<objs, seq, forked, removed>>
      BY <1>0, <1>9, <2>3 DEF PutLatest, Issue, Goto, Locals, Others, Same, db, hist
    <2> QED  BY <1>i, <1>s, <2>1, <2>3, <2>4, Issued
  <1>10. ASSUME NEW r \in Reqs, AbortFind(r) PROVE VersionsInv'
    <2>1. CASE Issue(r, <<Do("delete_by_id", obj[r])>>) /\ UNCHANGED <<db, obj, other, vseq>>
      <3> DEFINE b == <<Do("delete_by_id", obj[r])>>
      <3>1. /\ Locals(r, "write", op[r], obj[r], other[r], vseq[r], b)
            /\ UNCHANGED <<objs, seq, forked, removed>>
        BY <1>0, <2>1 DEF Issue, Goto, Locals, Others, Same, db, hist
      <3>2. /\ StampsLast(b) /\ ~Stamping(b)
            /\ \A w \in In(b) : w.kind \notin Inserts
            /\ Deletion(obj[r], b, objs)
        BY <1>k, InTuples DEF Stamping, Kinds, Inserts, Stamps, Puts, Deletion, Removes
      <3> HIDE DEF b
      <3> QED  BY <1>i, <1>s, <3>1, <3>2, Issued
    <2> QED  BY <1>5, <1>10, <2>1 DEF AbortFind
  <1>11. ASSUME NEW r \in Reqs, NEW l \in {"make_marker", "write"}, NEW o, NEW p, NEW b,
                Locals(r, l, op[r], o, p, vseq[r], b), UNCHANGED <<objs, seq, forked, removed>>,
                o # Null => objs[o].exists, p # Null => objs[p].exists,
                StampsLast(b), \A w \in In(b) : w.kind \notin Stamps,
                o # Null => \E w \in In(b) : w.kind \in Removes /\ w.id = o
         PROVE  VersionsInv'
    <2>1. ~Stamping(b) /\ \A w \in In(b) : w.kind \notin Inserts
      BY <1>11 DEF Stamping, Stamps
    <2>2. o # Null => Deletion(o, b, objs)
      BY <1>11 DEF Deletion
    <2> QED  BY <1>i, <1>11, <2>1, <2>2, Issued
  <1>12. ASSUME NEW r \in Reqs, VersionRead(r) PROVE VersionsInv'
    <2>1. pc[r] = "version_read" /\ bulk[r] = <<>>
      BY <1>12, <1>s DEF VersionRead
    <2>2. \/ End(r) /\ UNCHANGED <<db, hist>>
          \/ \E f \in Objs : /\ objs[f].exists
                             /\ obj' = [obj EXCEPT ![r] = f]
                             /\ UNCHANGED <<db, other, vseq>>
                             /\ \/ \E k \in {"delete_and_unset_latest", "delete_by_id"} :
                                      Issue(r, <<Do(k, f)>>)
                                \/ Goto(r, "version_prev") /\ UNCHANGED bulk
      <3>1. PICK f \in IF vseq[r] = 0 THEN FindOne(NullVersionsOrUploads)
                       ELSE IF mode[r] = "DISABLED" THEN {Null}
                       ELSE FindOne(ByVersion(vseq[r])) :
              \/ End(r) /\ UNCHANGED <<db, hist>>
              \/ /\ f # Null
                 /\ obj' = [obj EXCEPT ![r] = f]
                 /\ UNCHANGED <<db, other, vseq>>
                 /\ \/ \E k \in {"delete_and_unset_latest", "delete_by_id"} :
                          Issue(r, <<Do(k, f)>>)
                    \/ Goto(r, "version_prev") /\ UNCHANGED bulk
        BY <1>12 DEF VersionRead
      <3>2. f # Null => f \in Objs /\ objs[f].exists
        BY FindOneType DEF NullVersionsOrUploads, ByVersion, Stored, IsStored, IsLive
      <3> QED  BY <3>1, <3>2
    <2>3. ASSUME NEW f \in Objs, objs[f].exists, obj' = [obj EXCEPT ![r] = f],
                 UNCHANGED <<db, other, vseq>>,
                 NEW k \in {"delete_and_unset_latest", "delete_by_id"},
                 Issue(r, <<Do(k, f)>>)
          PROVE  VersionsInv'
      <3> DEFINE b == <<Do(k, f)>>
      <3>1. /\ Locals(r, "write", op[r], f, other[r], vseq[r], b)
            /\ UNCHANGED <<objs, seq, forked, removed>>
        BY <1>0, <2>3 DEF Issue, Goto, Locals, Others, Same, db, hist
      <3>2. /\ StampsLast(b) /\ \A w \in In(b) : w.kind \notin Stamps
            /\ \E w \in In(b) : w.kind \in Removes /\ w.id = f
        BY <1>k, InTuples DEF Kinds, Inserts, Stamps, Puts, Removes
      <3> HIDE DEF b
      <3> QED  BY <1>11, <1>s, <2>3, <3>1, <3>2
    <2>4. ASSUME NEW f \in Objs, objs[f].exists, obj' = [obj EXCEPT ![r] = f],
                 UNCHANGED <<db, other, vseq, bulk>>, Goto(r, "version_prev")
          PROVE  VersionsInv'
      <3>1. /\ Locals(r, "version_prev", op[r], f, other[r], vseq[r], <<>>)
            /\ UNCHANGED <<objs, seq, forked, removed>>
        BY <1>0, <2>1, <2>4 DEF Goto, Locals, Others, Same, db, hist
      <3> QED  BY <1>i, <1>s, <2>4, <3>1, GoesOn DEF PutPath
    <2> QED  BY <1>5, <2>2, <2>3, <2>4
  <1>13. ASSUME NEW r \in Reqs, VersionPrev(r) PROVE VersionsInv'
    <2>1. PICK f :
            \/ Issue(r, <<Do("delete_and_unset_latest", obj[r])>>)
            \/ Issue(r, <<Do("delete_and_unset_latest", obj[r]), Do("set_latest", f)>>)
      BY <1>13 DEF VersionPrev
    <2>2. PICK b : /\ Issue(r, b)
                   /\ StampsLast(b) /\ \A w \in In(b) : w.kind \notin Stamps
                   /\ \E w \in In(b) : w.kind \in Removes /\ w.id = obj[r]
      BY <1>k, <2>1, InTuples DEF Kinds, Inserts, Stamps, Puts, Removes
    <2>3. /\ Locals(r, "write", op[r], obj[r], other[r], vseq[r], b)
          /\ UNCHANGED <<objs, seq, forked, removed>>
      BY <1>0, <1>13, <2>2 DEF VersionPrev, Issue, Goto, Locals, Others, Same, db, hist
    <2> QED  BY <1>11, <1>s, <2>2, <2>3
  <1>14. ASSUME NEW r \in Reqs, KeyRead(r) PROVE VersionsInv'
    <2>1. pc[r] = "key_read" /\ bulk[r] = <<>> /\ obj[r] = Null
      BY <1>14, <1>s DEF KeyRead
    <2>2. PICK f \in FindOne(IF mode[r] = "SUSPENDED" THEN NullVersions ELSE Latest) :
            \/ End(r) /\ UNCHANGED <<db, hist>>
            \/ /\ f # Null
               /\ obj' = [obj EXCEPT ![r] = f]
               /\ UNCHANGED <<db, other, vseq>>
               /\ bulk' = [bulk EXCEPT ![r] = <<Do("delete_and_unset_latest", f)>>]
               /\ \E l \in {"make_marker", "write"} : Goto(r, l)
            \/ /\ Goto(r, "make_marker")
               /\ UNCHANGED <<db, obj, other, vseq>>
               /\ \/ bulk' = [bulk EXCEPT ![r] = <<>>]
                  \/ bulk' = [bulk EXCEPT ![r] = <<Do("unset_latest", f)>>]
            \/ /\ other' = [other EXCEPT ![r] = f]
               /\ Goto(r, "key_latest")
               /\ UNCHANGED <<db, obj, vseq, bulk>>
      BY <1>14 DEF KeyRead, Issue
    <2>3. f \in Objs \cup {Null} /\ (f # Null => objs[f].exists)
      BY FindOneType DEF Latest, NullVersions, Stored, IsStored, IsLive
    <2>4. ASSUME f # Null, obj' = [obj EXCEPT ![r] = f], UNCHANGED <<db, other, vseq>>,
                 bulk' = [bulk EXCEPT ![r] = <<Do("delete_and_unset_latest", f)>>],
                 NEW l \in {"make_marker", "write"}, Goto(r, l)
          PROVE  VersionsInv'
      <3> DEFINE b == <<Do("delete_and_unset_latest", f)>>
      <3>1. /\ Locals(r, l, op[r], f, other[r], vseq[r], b)
            /\ UNCHANGED <<objs, seq, forked, removed>>
        BY <1>0, <2>3, <2>4 DEF Goto, Locals, Others, Same, db, hist
      <3>2. /\ StampsLast(b) /\ \A w \in In(b) : w.kind \notin Stamps
            /\ \E w \in In(b) : w.kind \in Removes /\ w.id = f
        BY <1>k, InTuples DEF Kinds, Inserts, Stamps, Puts, Removes
      <3> HIDE DEF b
      <3> QED  BY <1>11, <1>s, <2>3, <2>4, <3>1, <3>2
    <2>5. ASSUME NEW b, StampsLast(b), \A w \in In(b) : w.kind \notin Stamps,
                 bulk' = [bulk EXCEPT ![r] = b], Goto(r, "make_marker"),
                 UNCHANGED <<db, obj, other, vseq>>
          PROVE  VersionsInv'
      <3>1. /\ Locals(r, "make_marker", op[r], Null, other[r], vseq[r], b)
            /\ UNCHANGED <<objs, seq, forked, removed>>
        BY <1>0, <2>1, <2>5 DEF Goto, Locals, Others, Same, db, hist
      <3> QED  BY <1>11, <1>s, <2>5, <3>1
    <2>6. CASE /\ other' = [other EXCEPT ![r] = f]
               /\ Goto(r, "key_latest")
               /\ UNCHANGED <<db, obj, vseq, bulk>>
      <3>1. /\ Locals(r, "key_latest", op[r], Null, f, vseq[r], <<>>)
            /\ UNCHANGED <<objs, seq, forked, removed>>
        BY <1>0, <2>1, <2>3, <2>6 DEF Goto, Locals, Others, Same, db, hist
      <3> QED  BY <1>i, <1>s, <2>3, <3>1, GoesOn DEF PutPath
    <2>7. /\ StampsLast(<<>>) /\ In(<<>>) = {}
          /\ StampsLast(<<Do("unset_latest", f)>>)
          /\ \A w \in In(<<Do("unset_latest", f)>>) : w.kind \notin Stamps
      BY <1>k, InTuples DEF Kinds, Inserts, Stamps, Puts
    <2>8. CASE /\ Goto(r, "make_marker") /\ UNCHANGED <<db, obj, other, vseq>>
               /\ \/ bulk' = [bulk EXCEPT ![r] = <<>>]
                  \/ bulk' = [bulk EXCEPT ![r] = <<Do("unset_latest", f)>>]
      BY <2>5, <2>7, <2>8
    <2> QED  BY <1>5, <2>2, <2>4, <2>6, <2>8
  <1>15. ASSUME NEW r \in Reqs, KeyLatest(r) PROVE VersionsInv'
    <2>1. CASE End(r) /\ UNCHANGED <<db, hist>>
      BY <1>5, <2>1
    <2>2. CASE ~NoLatestToDelete(r)
      <3>1. PICK f \in FindOne(Latest) :
              bulk' = [bulk EXCEPT ![r] =
                  CASE f = Null -> <<>>
                    [] f # Null /\ other[r] = Null -> <<Do("unset_latest", f)>>
                    [] OTHER -> <<Do("unset_latest", f), Do("delete", other[r])>>]
        BY <1>15, <2>2 DEF KeyLatest, NoLatestToDelete
      <3>2. /\ pc[r] = "key_latest" /\ obj' = [obj EXCEPT ![r] = other[r]]
            /\ Goto(r, "make_marker") /\ UNCHANGED <<db, other, vseq>>
        BY <1>15, <2>2 DEF KeyLatest, NoLatestToDelete
      <3>3. f = Null => other[r] = Null
        BY <1>k, <2>2, <3>2 DEF FindOne, NoLatestToDelete, Latest, Stored
      <3>4. PICK b : /\ bulk' = [bulk EXCEPT ![r] = b]
                     /\ StampsLast(b) /\ \A w \in In(b) : w.kind \notin Stamps
                     /\ other[r] # Null => \E w \in In(b) : w.kind \in Removes /\ w.id = other[r]
        <4>1. CASE f = Null
          BY <3>1, <3>3, <4>1, InTuples
        <4>2. CASE f # Null /\ other[r] = Null
          <5> DEFINE b == <<Do("unset_latest", f)>>
          <5>1. bulk' = [bulk EXCEPT ![r] = b]
            BY <3>1, <4>2
          <5>2. StampsLast(b) /\ \A w \in In(b) : w.kind \notin Stamps
            BY <1>k, InTuples DEF Kinds, Inserts, Stamps, Puts
          <5> HIDE DEF b
          <5> QED  BY <4>2, <5>1, <5>2
        <4>3. CASE f # Null /\ other[r] # Null
          <5> DEFINE b == <<Do("unset_latest", f), Do("delete", other[r])>>
          <5>1. bulk' = [bulk EXCEPT ![r] = b]
            BY <3>1, <4>3
          <5>2. /\ StampsLast(b) /\ \A w \in In(b) : w.kind \notin Stamps
                /\ \E w \in In(b) : w.kind \in Removes /\ w.id = other[r]
            BY <1>k, InTuples DEF Kinds, Inserts, Stamps, Puts, Removes
          <5> HIDE DEF b
          <5> QED  BY <5>1, <5>2
        <4> QED  BY <4>1, <4>2, <4>3
      <3>5. /\ Locals(r, "make_marker", op[r], other[r], other[r], vseq[r], b)
            /\ UNCHANGED <<objs, seq, forked, removed>>
        BY <1>0, <3>2, <3>4 DEF Goto, Locals, Others, Same, db, hist
      <3> QED  BY <1>11, <1>s, <3>4, <3>5
    <2> QED  BY <1>15, <2>1, <2>2 DEF KeyLatest
  <1>16. ASSUME NEW r \in Reqs, MakeMarker(r) PROVE VersionsInv'
    <2> DEFINE n == vseq'[r]
    <2>0. /\ vseq' = [vseq EXCEPT ![r] = n] /\ (forked => forked')
          /\ ~forked' => seq' = seq + 1 /\ n = seq'
      BY <1>16, <1>a DEF MakeMarker
    <2>6. NumberNew(n, objs, seq', forked')
      BY <1>n, <2>0 DEF NumberNew
    <2> HIDE DEF n
    <2>1. PICK o \in Fresh, k \in Inserts : bulk' = [bulk EXCEPT ![r] = Append(bulk[r], Do(k, o))]
      BY <1>16 DEF MakeMarker, Inserts
    <2> DEFINE b == bulk[r]
               w == Do(k, o)
               c == Append(b, w)
    <2>2. o \in Objs /\ ~objs[o].exists /\ w.kind \in Inserts /\ w.id = o
      BY <1>k DEF Fresh, Inserts, Kinds
    <2>3. /\ Locals(r, "write", op[r], obj[r], other[r], n, c)
          /\ UNCHANGED <<objs, removed>>
      BY <1>0, <1>16, <2>0, <2>1 DEF MakeMarker, Goto, Locals, Others, Same, hist
    <2>4. /\ InsertsNew(b, objs) /\ pc[r] = "make_marker" /\ ~Stamping(b)
          /\ op[r] \in Deletes /\ obj[r] # Null => Deletion(obj[r], b, objs)
      BY <1>16, <1>s DEF InOrder, MakeMarker
    <2>5. In(c) = In(b) \cup {w} /\ StampsLast(c)
      <3>1. /\ Len(b) \in Nat /\ DOMAIN b = 1..Len(b) /\ Len(c) = Len(b) + 1
            /\ DOMAIN c = 1..(Len(b) + 1) /\ c[Len(b) + 1] = w
            /\ \A i \in 1..Len(b) : c[i] = b[i]
        <4>1. b \in Seq(DbOp)
          BY <1>0
        <4> HIDE DEF w, b
        <4> QED  BY <4>1
      <3> HIDE DEF c, w
      <3>2. In(c) = In(b) \cup {w}
        BY <3>1 DEF In
      <3>3. \A i \in DOMAIN b : b[i].kind \notin Stamps
        BY <2>4 DEF Stamping, In
      <3> HIDE DEF b
      <3>4. StampsLast(c)
        BY <3>1, <3>3 DEF StampsLast
      <3> QED  BY <3>2, <3>4
    <2> HIDE DEF c
    <2>7. InsertsNew(c, objs)
      BY <2>2, <2>4, <2>5 DEF InsertsNew
    <2>8. op[r] \in Deletes /\ obj[r] # Null => Deletion(obj[r], c, objs)
      BY <2>4, <2>5 DEF Deletion
    <2>9. InOrder("write", op[r], obj[r], other[r], n, c, objs, seq', forked')
      BY <1>s, <2>5, <2>6, <2>7, <2>8 DEF InOrder, PutPath
    <2>10. Sound(r)' /\ Others(r) /\ vseq'[r] = n
      BY <2>3, <2>9 DEF Sound, Locals
    <2>11. \A x \in In(bulk'[r]) : IsInsert(x) => x \in In(bulk[r]) \/ x.id \in Fresh
      BY <2>1, <2>2, <2>3, <2>5 DEF Locals
    <2> QED  BY <1>i, <2>0, <2>3, <2>10, <2>11, RequestStep
  <1>17. ASSUME NEW r \in Reqs, Write(r) PROVE VersionsInv'
    BY <1>i, <1>17, WriteExecutes, ExecutesStep
  <1>18. ASSUME NEW r \in Reqs, Fail(r) PROVE VersionsInv'
    BY <1>5, <1>18 DEF Fail
  <1>19. ASSUME NEW r \in Reqs, NoSequence(r) PROVE VersionsInv'
    <2>1. UNCHANGED <<objs, seq, forked, removed, pc, op, obj, other, vseq, bulk>>
      BY <1>19 DEF NoSequence, db, hist
    <2> QED  BY <1>i, <2>1, NothingMoves
  <1>20. ASSUME NEW r \in Reqs, TwoSequences(r) PROVE VersionsInv'
    BY <1>5, <1>20 DEF TwoSequences
  <1> QED
    BY <1>1, <1>2, <1>3, <1>4, <1>6, <1>7, <1>8, <1>9, <1>10, <1>12, <1>13, <1>14, <1>15,
       <1>16, <1>17, <1>18, <1>19, <1>20 DEF Next, Advance

\* A version id names one version of the key, deleted ones included, as long as the
\* collection of alloc_object_version_seq() has one document.
THEOREM VersionIdsUnique == Spec => [](forked \/ UniqueVersionSeq)
  <1>1. Init => VersionsInv
    BY InitVersionsInv
  <1>2. VersionsInv /\ [Next]_vars => VersionsInv'
    BY StepVersionsInv
  <1>3. VersionsInv => forked \/ UniqueVersionSeq
    BY DEF VersionsInv, DocsSound
  <1> QED  BY <1>1, <1>2, <1>3, PTL DEF Spec

\* On MongoDB, whose upsert is atomic, no request goes on to insert a second one.
OneSequence == unseen = {} /\ ~forked

LEMMA OneSequenceStep ==
    ASSUME Backend = "mongodb", OneSequence, [Next]_vars
    PROVE  OneSequence'
  <1>g. \A r \in Reqs : \A l : Goto(r, l) => unseen' = {}
    BY DEF Goto, OneSequence
  <1>e. \A r \in Reqs : End(r) => unseen' = {}
    BY DEF End, OneSequence
  <1>b. \A r \in Reqs : \A name, l, o, n : Begin(r, name, l, o, n) =>
            UNCHANGED <<unseen, forked>>
    BY DEF Begin, db
  <1>a. \A r \in Reqs : Alloc(r) => UNCHANGED forked
    BY DEF Alloc, NextNumber, FirstNumber, OneSequence
  <1>1. CASE UNCHANGED <<unseen, forked>>
    BY <1>1 DEF OneSequence
  <1>2. ASSUME UNCHANGED forked, unseen' = {} PROVE OneSequence'
    BY <1>2 DEF OneSequence
  <1>3. CASE CreateUpload \/ CreateComplete \/ SetVersioning \/ (\E o \in Objs : Expire(o)) \/ UNCHANGED vars
    <2>1. UNCHANGED <<unseen, forked>>
      BY <1>3 DEF CreateUpload, CreateComplete, SetVersioning, Expire, vars, requests, db
    <2> QED  BY <1>1, <2>1
  <1>4. ASSUME NEW r \in Reqs, Start(r) PROVE OneSequence'
    BY <1>1, <1>4, <1>b DEF Start, Complete, Abort, DeleteVersion, DeleteKey
  <1>5. ASSUME NEW r \in Reqs, FindUpload(r) PROVE OneSequence'
    BY <1>2, <1>5, <1>g, <1>e DEF FindUpload, db
  <1>6. ASSUME NEW r \in Reqs, AllocVersion(r) PROVE OneSequence'
    BY <1>2, <1>6, <1>g, <1>a DEF AllocVersion
  <1>7. ASSUME NEW r \in Reqs, PutRead(r) \/ PutLatest(r) \/ VersionPrev(r) PROVE OneSequence'
    BY <1>2, <1>7, <1>g DEF PutRead, PutLatest, VersionPrev, Issue, db
  <1>8. ASSUME NEW r \in Reqs, AbortFind(r) \/ VersionRead(r) PROVE OneSequence'
    BY <1>2, <1>8, <1>g, <1>e DEF AbortFind, VersionRead, Issue, db
  <1>9. ASSUME NEW r \in Reqs, KeyRead(r) \/ KeyLatest(r) PROVE OneSequence'
    BY <1>2, <1>9, <1>g, <1>e DEF KeyRead, KeyLatest, Issue, db
  <1>10. ASSUME NEW r \in Reqs, MakeMarker(r) PROVE OneSequence'
    BY <1>2, <1>10, <1>g, <1>a DEF MakeMarker
  <1>11. ASSUME NEW r \in Reqs, Write(r) PROVE OneSequence'
    <2>1. UNCHANGED forked /\ (UNCHANGED unseen \/ End(r))
      BY <1>11 DEF Write, WriteMongo, WritePostgres, Reply
    <2> QED  BY <1>1, <1>2, <1>e, <2>1
  <1>12. ASSUME NEW r \in Reqs, Fail(r) \/ TwoSequences(r) PROVE OneSequence'
    BY <1>2, <1>12, <1>e DEF Fail, TwoSequences, db
  <1>13. ASSUME NEW r \in Reqs PROVE ~NoSequence(r)
    BY DEF NoSequence
  <1> QED  BY <1>3, <1>4, <1>5, <1>6, <1>7, <1>8, <1>9, <1>10, <1>11, <1>12, <1>13 DEF Next, Advance

\* On MongoDB version ids are unique without an exception: requests that allocate, write
\* and fail in any order never let two documents carry the same number.
THEOREM VersionIdsUniqueOnMongo == Backend = "mongodb" => (Spec => []UniqueVersionSeq)
  <1> SUFFICES ASSUME Backend = "mongodb" PROVE Spec => []UniqueVersionSeq
    OBVIOUS
  <1>1. Init => VersionsInv /\ OneSequence
    BY InitVersionsInv DEF Init, OneSequence
  <1>2. VersionsInv /\ OneSequence /\ [Next]_vars => (VersionsInv /\ OneSequence)'
    BY StepVersionsInv, OneSequenceStep
  <1>3. VersionsInv /\ OneSequence => UniqueVersionSeq
    BY DEF VersionsInv, DocsSound, OneSequence
  <1> QED  BY <1>1, <1>2, <1>3, PTL DEF Spec

\* What delete_object or abort_object_upload replied to have deleted stays deleted,
\* whatever another request that read it before writes to it later.
THEOREM DeletionsStay == Spec => []DeletedStaysDeleted
  <1>1. Init => VersionsInv
    BY InitVersionsInv
  <1>2. VersionsInv /\ [Next]_vars => VersionsInv'
    BY StepVersionsInv
  <1>3. VersionsInv => DeletedStaysDeleted
    BY DEF VersionsInv, DocsSound, DeletedStaysDeleted
  <1> QED  BY <1>1, <1>2, <1>3, PTL DEF Spec

-----------------------------------------------------------------------------
(* A completion and its own object.  Without late completions an upload is *)
(* completed by one request at a time, and the object it completes is still *)
(* an upload when it looks for the version to hide or to delete.           *)

Own(q) ==
    /\ op[q] \in Completions =>
         /\ objs[obj[q]].upload_started
         /\ pc[q] = "put_latest" => other[q] # obj[q]
         /\ pc[q] # "abort_find"
         /\ \A w \in In(bulk[q]) : w.kind \notin Puts => w.id # obj[q]
    /\ \A w \in In(bulk[q]) : w.kind \in Puts => op[q] \in Completions /\ w.id = obj[q]
OwnApart(p, q) == {op[p], op[q]} \subseteq Completions => obj[p] # obj[q]

OwnInv ==
    /\ VersionsInv
    /\ \A q \in Reqs : Own(q)
    /\ \A p \in Reqs : \A q \in Reqs \ {p} : OwnApart(p, q)

\* A step of one request that leaves the documents alone.
LEMMA OwnRequestStep ==
    ASSUME OwnInv, VersionsInv', NEW r \in Reqs, Others(r), UNCHANGED objs, Own(r)',
           op'[r] \in Completions =>
              \A q \in Reqs \ {r} : op[q] \in Completions => obj[q] # obj'[r]
    PROVE  OwnInv'
  <1>1. ASSUME NEW q \in Reqs \ {r} PROVE Own(q)'
    BY DEF OwnInv, Own, Others, Same
  <1>2. ASSUME NEW p \in Reqs, NEW q \in Reqs \ {p} PROVE OwnApart(p, q)'
    BY DEF OwnInv, OwnApart, Others, Same
  <1> QED  BY <1>1, <1>2 DEF OwnInv

\* Every step keeps completions to their own objects.
LEMMA StepOwnInv ==
    ASSUME "recomplete" \notin Ops, OwnInv, [Next]_vars
    PROVE  OwnInv'
  <1>v. VersionsInv /\ VersionsInv' /\ IInv
    BY StepVersionsInv DEF OwnInv, VersionsInv
  <1>0. /\ objs \in [Objs -> Doc] /\ seq \in Nat
        /\ pc = [q \in Reqs |-> pc[q]] /\ op = [q \in Reqs |-> op[q]]
        /\ obj \in [Reqs -> Objs \cup {Null}] /\ other \in [Reqs -> Objs \cup {Null}]
        /\ vseq \in [Reqs -> Nat] /\ bulk \in [Reqs -> Seq(DbOp)]
        /\ \A q \in Reqs : op[q] \in Completions => obj[q] \in Objs
    BY <1>v DEF IInv, SharedTypes, RequestTypes, ReqInv
  <1>s. \A r \in Reqs :
          /\ pc[r] \notin {"make_marker", "write"} => bulk[r] = <<>>
          /\ pc[r] \in PutPath => op[r] \in Completions
          /\ pc[r] \in DeletePath => op[r] \notin Completions
          /\ obj[r] # Null => objs[obj[r]].exists
    BY <1>v DEF VersionsInv, Sound, InOrder, IInv, ReqInv
  <1>k. /\ \A k \in Kinds : \A o : Do(k, o).kind = k /\ Do(k, o).id = o
        /\ Null \notin Objs
    BY NullAssumption DEF Do
  <1>1. ASSUME NEW o \in Fresh, NEW d, objs' = [objs EXCEPT ![o] = d],
               UNCHANGED <<pc, op, obj, other, bulk>>
        PROVE  OwnInv'
    <2>1. \A q \in Reqs : op[q] \in Completions => objs'[obj[q]] = objs[obj[q]]
      BY <1>0, <1>1, <1>k, <1>s DEF Fresh
    <2>2. \A q \in Reqs : Own(q)'
      BY <1>1, <2>1 DEF OwnInv, Own
    <2>3. \A p \in Reqs : \A q \in Reqs \ {p} : OwnApart(p, q)'
      BY <1>1 DEF OwnInv, OwnApart
    <2> QED  BY <1>v, <2>2, <2>3 DEF OwnInv
  <1>2. CASE CreateUpload \/ CreateComplete
    <2>1. PICK o \in Fresh, d \in {UploadDoc, CachedObjectDoc} : objs' = [objs EXCEPT ![o] = d]
      BY <1>2 DEF CreateUpload, CreateComplete
    <2>2. UNCHANGED <<pc, op, obj, other, bulk>>
      BY <1>2 DEF CreateUpload, CreateComplete, requests
    <2> QED  BY <1>1, <2>1, <2>2
  <1>3. CASE SetVersioning \/ (\E o \in Objs : Expire(o)) \/ UNCHANGED vars
    <2>1. UNCHANGED <<objs, pc, op, obj, other, bulk>>
      BY <1>3 DEF SetVersioning, Expire, vars, requests, db
    <2> QED  BY <1>v, <2>1 DEF OwnInv, Own, OwnApart
  <1>4. ASSUME NEW r \in Reqs, Others(r), UNCHANGED objs, op'[r] \notin Completions,
               \A w \in In(bulk'[r]) : w.kind \notin Puts
        PROVE  OwnInv'
    <2>1. Own(r)'
      BY <1>4 DEF Own
    <2> QED  BY <1>4, <1>v, <2>1, OwnRequestStep
  <1>5. ASSUME NEW r \in Reqs, End(r), UNCHANGED objs PROVE OwnInv'
    <2>1. Others(r) /\ op'[r] \notin Completions /\ In(bulk'[r]) = {}
      BY <1>0, <1>5, <1>v, EndSound DEF End, Completions
    <2> QED  BY <1>4, <1>5, <2>1
  <1>6. ASSUME NEW r \in Reqs, Complete(r) PROVE OwnInv'
    <2>1. PICK o \in Uploads : Begin(r, IF Late(o) THEN "recomplete" ELSE "complete",
                                     "find_upload", o, 0)
      BY <1>6 DEF Complete
    <2>2. ~Late(o) /\ Begin(r, "complete", "find_upload", o, 0) /\ o \in Objs
      BY <2>1 DEF Begin, Uploads
    <2>3. /\ objs[o].upload_started
          /\ \A q \in Reqs : op[q] \in Completions => obj[q] # o
      BY <2>2 DEF Late
    <2>4. /\ op'[r] = "complete" /\ obj'[r] = o /\ pc'[r] = "find_upload" /\ bulk'[r] = <<>>
          /\ Others(r) /\ UNCHANGED objs
      BY <1>0, <1>s, <2>2 DEF Begin, Others, Same, db
    <2>5. Own(r)'
      BY <2>3, <2>4, InTuples DEF Own, Completions
    <2> QED  BY <1>v, <2>3, <2>4, <2>5, OwnRequestStep
  <1>7. ASSUME NEW r \in Reqs, Abort(r) \/ DeleteVersion(r) \/ DeleteKey(r) PROVE OwnInv'
    <2>1. PICK name \in Deletes : \E l, o, n : Begin(r, name, l, o, n)
      BY <1>7 DEF Abort, DeleteVersion, DeleteKey, Deletes
    <2>2. /\ op'[r] \notin Completions /\ In(bulk'[r]) = {} /\ Others(r) /\ UNCHANGED objs
      BY <1>0, <1>s, <2>1, InTuples DEF Begin, Others, Same, db, Completions, Deletes
    <2> QED  BY <1>4, <2>2
  <1>8. ASSUME NEW r \in Reqs, Others(r), UNCHANGED objs, op[r] \in Completions,
               op'[r] = op[r], obj'[r] = obj[r], pc'[r] # "abort_find",
               pc'[r] = "put_latest" => other'[r] # obj[r],
               \A w \in In(bulk'[r]) : IF w.kind \in Puts THEN w.id = obj[r] ELSE w.id # obj[r]
        PROVE  OwnInv'
    <2>1. Own(r)'
      BY <1>8 DEF OwnInv, Own
    <2>2. \A q \in Reqs \ {r} : op[q] \in Completions => obj[q] # obj'[r]
      BY <1>8 DEF OwnInv, OwnApart
    <2> QED  BY <1>8, <1>v, <2>1, <2>2, OwnRequestStep
  <1>9. ASSUME NEW r \in Reqs, FindUpload(r) PROVE OwnInv'
    <2>1. CASE Goto(r, "alloc_version") /\ UNCHANGED <<db, obj, other, vseq, bulk>>
      <3>1. op[r] \in Completions /\ bulk[r] = <<>>
        BY <1>9, <1>s DEF FindUpload, PutPath
      <3>2. /\ Others(r) /\ UNCHANGED objs /\ op'[r] = op[r] /\ obj'[r] = obj[r]
            /\ pc'[r] = "alloc_version" /\ In(bulk'[r]) = {}
        BY <1>0, <2>1, <3>1, InTuples DEF Goto, Others, Same, db
      <3> QED  BY <1>8, <3>1, <3>2
    <2> QED  BY <1>5, <1>9, <2>1 DEF FindUpload, db
  <1>10. ASSUME NEW r \in Reqs, AllocVersion(r) PROVE OwnInv'
    <2>1. op[r] \in Completions /\ bulk[r] = <<>>
      BY <1>10, <1>s DEF AllocVersion, PutPath
    <2>2. /\ Others(r) /\ UNCHANGED objs /\ op'[r] = op[r] /\ obj'[r] = obj[r]
          /\ pc'[r] = "put_read" /\ In(bulk'[r]) = {}
      BY <1>0, <1>10, <2>1, InTuples, AllocTypes DEF AllocVersion, Goto, Others, Same
    <2> QED  BY <1>8, <2>1, <2>2
  <1>11. ASSUME NEW r \in Reqs, PutRead(r) PROVE OwnInv'
    <2>1. op[r] \in Completions /\ bulk[r] = <<>> /\ objs[obj[r]].upload_started
      BY <1>11, <1>s DEF PutRead, PutPath, OwnInv, Own
    <2>2. PICK f \in FindOne(IF mode[r] = "ENABLED" THEN Latest ELSE NullVersions) :
            \/ Issue(r, <<Do("put_by_id", obj[r])>>)
            \/ \E k \in {"unset_latest", "delete_and_unset_latest"} :
                  f # Null /\ Issue(r, <<Do(k, f), Do("put", obj[r])>>)
            \/ Goto(r, "put_latest") /\ other' = [other EXCEPT ![r] = f] /\ UNCHANGED bulk
      BY <1>11 DEF PutRead
    <2>3. f # obj[r]
      <3>1. f # Null => ~objs[f].upload_started
        BY FindOneType DEF Latest, NullVersions, Stored, IsStored
      <3>2. obj[r] # Null
        BY <1>0, <1>k, <2>1
      <3> QED  BY <2>1, <3>1, <3>2
    <2>4. UNCHANGED <<objs, obj, vseq>> /\ (pc'[r] # "put_latest" => UNCHANGED other)
      BY <1>0, <1>11 DEF PutRead, Issue, Goto, db
    <2>5. ASSUME NEW b, Issue(r, b),
                 \A w \in In(b) : IF w.kind \in Puts THEN w.id = obj[r] ELSE w.id # obj[r]
          PROVE  OwnInv'
      <3>1. pc'[r] = "write" /\ bulk'[r] = b /\ op'[r] = op[r] /\ obj'[r] = obj[r]
        BY <1>0, <2>4, <2>5 DEF Issue, Goto
      <3>2. Others(r)
        BY <1>0, <2>4, <2>5, <3>1 DEF Issue, Goto, Others, Same
      <3> QED  BY <1>8, <2>1, <2>4, <2>5, <3>1, <3>2
    <2>6. CASE Issue(r, <<Do("put_by_id", obj[r])>>)
      BY <1>k, <2>5, <2>6, InTuples DEF Kinds, Puts
    <2>7. ASSUME NEW k \in {"unset_latest", "delete_and_unset_latest"},
                 Issue(r, <<Do(k, f), Do("put", obj[r])>>)
          PROVE  OwnInv'
      BY <1>k, <2>3, <2>5, <2>7, InTuples DEF Kinds, Puts
    <2>8. CASE Goto(r, "put_latest") /\ other' = [other EXCEPT ![r] = f] /\ UNCHANGED bulk
      <3>1. /\ Others(r) /\ UNCHANGED objs /\ op'[r] = op[r] /\ obj'[r] = obj[r]
            /\ pc'[r] = "put_latest" /\ other'[r] = f
        BY <1>0, <2>4, <2>8 DEF Goto, Others, Same
      <3>2. In(bulk'[r]) = {}
        BY <2>1, <2>8, InTuples
      <3> QED  BY <1>8, <2>1, <2>3, <3>1, <3>2
    <2> QED  BY <2>2, <2>6, <2>7, <2>8
  <1>12. ASSUME NEW r \in Reqs, PutLatest(r) PROVE OwnInv'
    <2>1. /\ op[r] \in Completions /\ objs[obj[r]].upload_started /\ obj[r] # Null
          /\ other[r] # obj[r]
      BY <1>0, <1>12, <1>k, <1>s DEF PutLatest, PutPath, OwnInv, Own
    <2>2. PICK f \in FindOne(Latest) :
            \/ Issue(r, <<Do("put_by_id", obj[r])>>)
            \/ f # Null /\ Issue(r, <<Do("unset_latest", f), Do("put", obj[r])>>)
            \/ f # Null /\ Issue(r, <<Do("delete", other[r]), Do("unset_latest", f),
                                      Do("put", obj[r])>>)
      BY <1>12 DEF PutLatest
    <2>3. f # Null => f # obj[r]
      <3>1. f # Null => ~objs[f].upload_started
        BY FindOneType DEF Latest, Stored, IsStored
      <3> QED  BY <2>1, <3>1
    <2>4. PICK b : /\ Issue(r, b)
                   /\ \A w \in In(b) : IF w.kind \in Puts THEN w.id = obj[r] ELSE w.id # obj[r]
      BY <1>k, <2>1, <2>2, <2>3, InTuples DEF Kinds, Puts
    <2>5. /\ Others(r) /\ UNCHANGED objs /\ op'[r] = op[r] /\ obj'[r] = obj[r]
          /\ pc'[r] = "write" /\ bulk'[r] = b
      BY <1>0, <1>12, <2>4 DEF PutLatest, Issue, Goto, Others, Same, db
    <2> QED  BY <1>8, <2>1, <2>4, <2>5
  <1>13. ASSUME NEW r \in Reqs, NEW l, NEW b, op[r] \notin Completions, Goto(r, l),
                bulk' = [bulk EXCEPT ![r] = b], \A w \in In(b) : w.kind \notin Puts,
                UNCHANGED db,
                \A q \in Reqs \ {r} : obj'[q] = obj[q] /\ other'[q] = other[q] /\ vseq'[q] = vseq[q]
         PROVE  OwnInv'
    <2>1. Others(r) /\ UNCHANGED objs /\ op'[r] = op[r] /\ bulk'[r] = b
      BY <1>0, <1>13 DEF Goto, Others, Same, db
    <2> QED  BY <1>4, <1>13, <2>1
  <1>14. ASSUME NEW r \in Reqs, AbortFind(r) PROVE OwnInv'
    <2>1. op[r] \notin Completions
      BY <1>14 DEF AbortFind, OwnInv, Own
    <2>2. CASE Issue(r, <<Do("delete_by_id", obj[r])>>) /\ UNCHANGED <<db, obj, other, vseq>>
      <3>1. \A w \in In(<<Do("delete_by_id", obj[r])>>) : w.kind \notin Puts
        BY <1>k, InTuples DEF Kinds, Puts
      <3> QED  BY <1>13, <2>1, <2>2, <3>1 DEF Issue
    <2> QED  BY <1>5, <1>14, <2>2 DEF AbortFind, db
  <1>15. ASSUME NEW r \in Reqs, VersionRead(r) PROVE OwnInv'
    <2>1. op[r] \notin Completions /\ bulk[r] = <<>> /\ bulk = [bulk EXCEPT ![r] = bulk[r]]
      BY <1>0, <1>15, <1>s DEF VersionRead, DeletePath
    <2>2. PICK f :
            \/ End(r) /\ UNCHANGED db
            \/ /\ obj' = [obj EXCEPT ![r] = f] /\ UNCHANGED <<db, other, vseq>>
               /\ \/ \E k \in {"delete_and_unset_latest", "delete_by_id"} :
                        Issue(r, <<Do(k, f)>>)
                  \/ Goto(r, "version_prev") /\ UNCHANGED bulk
      BY <1>15 DEF VersionRead
    <2>3. ASSUME obj' = [obj EXCEPT ![r] = f], UNCHANGED <<db, other, vseq>>,
                 NEW l, NEW b, Goto(r, l), bulk' = [bulk EXCEPT ![r] = b],
                 \A w \in In(b) : w.kind \notin Puts
          PROVE  OwnInv'
      BY <1>0, <1>13, <2>1, <2>3
    <2>4. ASSUME obj' = [obj EXCEPT ![r] = f], UNCHANGED <<db, other, vseq>>,
                 NEW k \in {"delete_and_unset_latest", "delete_by_id"}, Issue(r, <<Do(k, f)>>)
          PROVE  OwnInv'
      <3>1. \A w \in In(<<Do(k, f)>>) : w.kind \notin Puts
        BY <1>k, InTuples DEF Kinds, Puts
      <3> QED  BY <2>3, <2>4, <3>1 DEF Issue
    <2>5. CASE /\ obj' = [obj EXCEPT ![r] = f] /\ UNCHANGED <<db, other, vseq>>
               /\ Goto(r, "version_prev") /\ UNCHANGED bulk
      BY <2>1, <2>3, <2>5, InTuples
    <2> QED  BY <1>5, <2>2, <2>4, <2>5 DEF db
  <1>16. ASSUME NEW r \in Reqs, VersionPrev(r) PROVE OwnInv'
    <2>1. op[r] \notin Completions
      BY <1>16, <1>s DEF VersionPrev, DeletePath
    <2>2. PICK f :
            \/ Issue(r, <<Do("delete_and_unset_latest", obj[r])>>)
            \/ Issue(r, <<Do("delete_and_unset_latest", obj[r]), Do("set_latest", f)>>)
      BY <1>16 DEF VersionPrev
    <2>3. PICK b : Issue(r, b) /\ \A w \in In(b) : w.kind \notin Puts
      BY <1>k, <2>2, InTuples DEF Kinds, Puts
    <2>4. Goto(r, "write") /\ bulk' = [bulk EXCEPT ![r] = b] /\ UNCHANGED <<db, obj, other, vseq>>
      BY <1>16, <2>3 DEF VersionPrev, Issue
    <2> QED  BY <1>13, <2>1, <2>3, <2>4
  <1>17. ASSUME NEW r \in Reqs, KeyRead(r) PROVE OwnInv'
    <2>1. op[r] \notin Completions /\ bulk[r] = <<>> /\ bulk = [bulk EXCEPT ![r] = bulk[r]]
      BY <1>0, <1>17, <1>s DEF KeyRead, DeletePath
    <2>2. PICK f :
            \/ End(r) /\ UNCHANGED db
            \/ /\ UNCHANGED <<db, vseq>>
               /\ obj' = obj \/ obj' = [obj EXCEPT ![r] = f]
               /\ other' = other \/ other' = [other EXCEPT ![r] = f]
               /\ \E l : Goto(r, l)
               /\ \/ UNCHANGED bulk
                  \/ bulk' = [bulk EXCEPT ![r] = <<>>]
                  \/ \E k \in {"unset_latest", "delete_and_unset_latest"} :
                        bulk' = [bulk EXCEPT ![r] = <<Do(k, f)>>]
      BY <1>17 DEF KeyRead, Issue
    <2>3. CASE End(r) /\ UNCHANGED db
      BY <1>5, <2>3 DEF db
    <2>4. CASE /\ UNCHANGED <<db, vseq>>
               /\ obj' = obj \/ obj' = [obj EXCEPT ![r] = f]
               /\ other' = other \/ other' = [other EXCEPT ![r] = f]
               /\ \E l : Goto(r, l)
               /\ \/ UNCHANGED bulk
                  \/ bulk' = [bulk EXCEPT ![r] = <<>>]
                  \/ \E k \in {"unset_latest", "delete_and_unset_latest"} :
                        bulk' = [bulk EXCEPT ![r] = <<Do(k, f)>>]
      <3>1. PICK b : bulk' = [bulk EXCEPT ![r] = b] /\ \A w \in In(b) : w.kind \notin Puts
        <4>1. \A k \in {"unset_latest", "delete_and_unset_latest"} :
                \A w \in In(<<Do(k, f)>>) : w.kind \notin Puts
          BY <1>k, InTuples DEF Kinds, Puts
        <4> QED  BY <2>1, <2>4, <4>1, InTuples
      <3>2. \A q \in Reqs \ {r} : obj'[q] = obj[q] /\ other'[q] = other[q] /\ vseq'[q] = vseq[q]
        BY <1>0, <2>4
      <3> QED  BY <1>13, <2>1, <2>4, <3>1, <3>2
    <2> QED  BY <2>2, <2>3, <2>4
  <1>18. ASSUME NEW r \in Reqs, KeyLatest(r) PROVE OwnInv'
    <2>1. op[r] \notin Completions
      BY <1>18, <1>s DEF KeyLatest, DeletePath
    <2>2. CASE End(r) /\ UNCHANGED db
      BY <1>5, <2>2 DEF db
    <2>3. CASE ~NoLatestToDelete(r)
      <3>1. PICK f \in FindOne(Latest) :
              bulk' = [bulk EXCEPT ![r] =
                  CASE f = Null -> <<>>
                    [] f # Null /\ other[r] = Null -> <<Do("unset_latest", f)>>
                    [] OTHER -> <<Do("unset_latest", f), Do("delete", other[r])>>]
        BY <1>18, <2>3 DEF KeyLatest, NoLatestToDelete
      <3>2. PICK b : bulk' = [bulk EXCEPT ![r] = b] /\ \A w \in In(b) : w.kind \notin Puts
        <4>1. \A w \in In(<<Do("unset_latest", f)>>) : w.kind \notin Puts
          BY <1>k, InTuples DEF Kinds, Puts
        <4>2. \A w \in In(<<Do("unset_latest", f), Do("delete", other[r])>>) : w.kind \notin Puts
          BY <1>k, InTuples DEF Kinds, Puts
        <4>3. \/ bulk' = [bulk EXCEPT ![r] = <<>>]
              \/ bulk' = [bulk EXCEPT ![r] = <<Do("unset_latest", f)>>]
              \/ bulk' = [bulk EXCEPT ![r] = <<Do("unset_latest", f), Do("delete", other[r])>>]
          BY <3>1
        <4> QED  BY <4>1, <4>2, <4>3, InTuples
      <3>3. /\ obj' = [obj EXCEPT ![r] = other[r]]
            /\ Goto(r, "make_marker") /\ UNCHANGED <<db, other, vseq>>
        BY <1>18, <2>3 DEF KeyLatest, NoLatestToDelete
      <3>4. \A q \in Reqs \ {r} : obj'[q] = obj[q] /\ other'[q] = other[q] /\ vseq'[q] = vseq[q]
        BY <1>0, <3>3
      <3> QED  BY <1>13, <2>1, <3>2, <3>3, <3>4
    <2> QED  BY <1>18, <2>2, <2>3 DEF KeyLatest
  <1>19. ASSUME NEW r \in Reqs, MakeMarker(r) PROVE OwnInv'
    <2>1. op[r] \notin Completions /\ Own(r)
      BY <1>19, <1>s DEF MakeMarker, DeletePath, OwnInv
    <2>2. PICK o \in Fresh, k \in Inserts : bulk' = [bulk EXCEPT ![r] = Append(bulk[r], Do(k, o))]
      BY <1>19 DEF MakeMarker, Inserts
    <2> DEFINE b == bulk[r]
               w == Do(k, o)
    <2>3. b \in Seq(DbOp) /\ bulk'[r] = Append(b, w)
      BY <1>0, <2>2
    <2>4. w.kind \notin Puts
      BY <1>k DEF Inserts, Puts, Kinds
    <2> HIDE DEF w
    <2>5. In(Append(b, w)) \subseteq In(b) \cup {w}
      <3> HIDE DEF b
      <3> QED  BY <2>3 DEF In
    <2>6. \A x \in In(bulk'[r]) : x.kind \notin Puts
      BY <2>1, <2>3, <2>4, <2>5 DEF Own
    <2>7. Others(r) /\ UNCHANGED objs /\ op'[r] = op[r]
      BY <1>0, <1>19, <2>2, AllocTypes DEF MakeMarker, Goto, Others, Same
    <2> QED  BY <1>4, <2>1, <2>6, <2>7
  <1>20. ASSUME NEW r \in Reqs, Write(r) PROVE OwnInv'
    <2>1. PICK W : Executes(r, W)
      BY <1>20, <1>v, WriteExecutes
    <2>2. /\ W \subseteq In(bulk[r]) /\ Writes(W, objs, objs', vseq[r])
          /\ \/ End(r)
             \/ /\ Len(bulk[r]) > 1 /\ W = {Head(bulk[r])}
                /\ bulk' = [bulk EXCEPT ![r] = Tail(bulk[r])]
                /\ UNCHANGED <<pc, op, obj, other, vseq>>
      BY <2>1 DEF Executes
    <2>3. \A q \in Reqs \ {r} : op[q] \in Completions => objs'[obj[q]].upload_started
      <3> SUFFICES ASSUME NEW q \in Reqs \ {r}, op[q] \in Completions
                   PROVE  objs'[obj[q]].upload_started
        OBVIOUS
      <3>1. obj[q] \in Objs /\ objs[obj[q]].exists /\ objs[obj[q]].upload_started
        BY <1>0, <1>k, <1>s DEF OwnInv, Own
      <3>2. ASSUME NEW w \in W, w.kind \in Puts, w.id = obj[q] PROVE FALSE
        BY <2>2, <3>2 DEF OwnInv, Own, OwnApart
      <3> QED  BY <2>2, <3>1, <3>2 DEF Writes
    <2>4. Others(r)
      BY <1>0, <1>v, <2>2, EndSound DEF Others, Same
    <2>5. \A q \in Reqs \ {r} : Own(q)'
      BY <2>3, <2>4 DEF OwnInv, Own, Others, Same
    <2>6. Own(r)' /\ (op'[r] \in Completions => op[r] \in Completions /\ obj'[r] = obj[r])
      <3>1. CASE End(r)
        <4>1. op'[r] \notin Completions /\ In(bulk'[r]) = {}
          BY <1>0, <1>v, <3>1, EndSound DEF End, Completions
        <4> QED  BY <4>1 DEF Own
      <3>2. CASE /\ Len(bulk[r]) > 1 /\ W = {Head(bulk[r])}
                 /\ bulk' = [bulk EXCEPT ![r] = Tail(bulk[r])]
                 /\ UNCHANGED <<pc, op, obj, other, vseq>>
        <4>1. bulk[r] \in Seq(DbOp) /\ StampsLast(bulk[r])
          BY <1>0, <1>v DEF VersionsInv, Sound, InOrder
        <4>2. Head(bulk[r]).kind \notin Puts /\ In(Tail(bulk[r])) \subseteq In(bulk[r])
          BY <3>2, <4>1, TailFacts DEF Stamps
        <4>3. op[r] \in Completions => objs'[obj[r]].upload_started
          <5>1. op[r] \in Completions => obj[r] \in Objs /\ objs[obj[r]].exists
                                          /\ objs[obj[r]].upload_started
            BY <1>0, <1>k, <1>s DEF OwnInv, Own
          <5> QED  BY <2>2, <3>2, <4>2, <5>1 DEF Writes
        <4>4. bulk'[r] = Tail(bulk[r])
          BY <1>0, <3>2
        <4>5. Own(r)
          BY DEF OwnInv
        <4> QED  BY <3>2, <4>2, <4>3, <4>4, <4>5 DEF Own
      <3> QED  BY <2>2, <3>1, <3>2
    <2>7. ASSUME NEW p \in Reqs, NEW q \in Reqs \ {p} PROVE OwnApart(p, q)'
      BY <2>4, <2>6 DEF OwnInv, OwnApart, Others, Same
    <2> QED  BY <1>v, <2>5, <2>6, <2>7 DEF OwnInv
  <1>21. ASSUME NEW r \in Reqs, Fail(r) PROVE OwnInv'
    BY <1>5, <1>21 DEF Fail, db
  <1>22. ASSUME NEW r \in Reqs, NoSequence(r) PROVE OwnInv'
    <2>1. UNCHANGED <<objs, pc, op, obj, other, bulk>>
      BY <1>22 DEF NoSequence, db
    <2> QED  BY <1>v, <2>1 DEF OwnInv, Own, OwnApart
  <1>23. ASSUME NEW r \in Reqs, TwoSequences(r) PROVE OwnInv'
    BY <1>5, <1>23 DEF TwoSequences, db
  <1> QED
    BY <1>2, <1>3, <1>6, <1>7, <1>9, <1>10, <1>11, <1>12, <1>14, <1>15, <1>16, <1>17,
       <1>18, <1>19, <1>20, <1>21, <1>22, <1>23 DEF Next, Start, Advance

\* complete_object_upload never hides or deletes the object it completes, on either
\* database: where no completion comes late, it works on snapshots without its object.
THEOREM CompletionsKeep == "recomplete" \notin Ops => (Spec => []CompletionKeepsObject)
  <1> SUFFICES ASSUME "recomplete" \notin Ops PROVE Spec => []CompletionKeepsObject
    OBVIOUS
  <1>1. Init => OwnInv
    <2>1. Init => \A q \in Reqs : op[q] \notin Completions /\ In(bulk[q]) = {}
      BY InTuples DEF Init, Completions
    <2> QED  BY <2>1, InitVersionsInv DEF OwnInv, Own, OwnApart
  <1>2. OwnInv /\ [Next]_vars => OwnInv'
    BY StepOwnInv
  <1>3. OwnInv => CompletionKeepsObject
    BY DEF OwnInv, Own, CompletionKeepsObject, In, Puts
  <1> QED  BY <1>1, <1>2, <1>3, PTL DEF Spec

-----------------------------------------------------------------------------
(* The latest version.  On PostgreSQL a transaction of a put, or of a      *)
(* delete by key, of a versioned bucket ends with a document that is the   *)
(* latest: an upload nobody has hidden or deleted, or a new delete marker. *)

PutsAndKeyDeletes == {"create", "create_complete", "complete", "delete_key", "fail", "expire"}

Settled(o) == objs[o].exists /\ ~objs[o].upload_started

Versioned(q) ==
    /\ pc[q] # "idle" => mode[q] # "DISABLED"
    /\ pc[q] \in PutPath \cup {"idle", "key_read", "key_latest", "make_marker", "write"}
    /\ pc[q] = "write" => Stamping(bulk[q])
    /\ \A w \in In(bulk[q]) : w.kind \notin Stamps => Settled(w.id)
    /\ other[q] # Null => Settled(other[q])

LatestInv ==
    /\ OwnInv
    /\ versioning # "DISABLED"
    /\ \A o \in Objs : objs[o].exists /\ objs[o].upload_started
                          => ~objs[o].deleted /\ ~objs[o].version_past
    /\ \A q \in Reqs : Versioned(q)
    /\ LatestExists

\* Running one operation changes its document only, and depends on it only.
LEMMA RunLocal ==
    ASSUME NEW w \in DbOp, NEW M \in [Objs -> Doc], NEW N \in [Objs -> Doc],
           NEW n \in Nat, NEW m, N[w.id] = M[w.id]
    PROVE  /\ Run(w, N, n, m)[w.id] = Run(w, M, n, m)[w.id]
           /\ \A o \in Objs : o # w.id => Run(w, M, n, m)[o] = M[o]
  BY DEF Run, DbOp

\* The document of the last operation of a transaction, when no other touches it.
LEMMA StagesLast ==
    ASSUME NEW b, IsBulk(b, 3), b # <<>>, objs \in [Objs -> Doc], NEW n \in Nat, NEW m,
           \A i \in DOMAIN b : i # Len(b) => b[i].id # b[Len(b)].id
    PROVE  Stages(b, n, m)[4][b[Len(b)].id] = Run(b[Len(b)], objs, n, m)[b[Len(b)].id]
  <1> DEFINE s1 == Run(b[1], objs, n, m)
             s2 == IF Len(b) > 1 THEN Run(b[2], s1, n, m) ELSE s1
             s3 == IF Len(b) > 2 THEN Run(b[3], s2, n, m) ELSE s2
  <1>0. Stages(b, n, m) = <<objs, s1, s2, s3>>
    BY DEF Stages
  <1>1. b \in Seq(DbOp) /\ Len(b) \in 1..3 /\ DOMAIN b = 1..Len(b)
    <2>1. b \in Seq(DbOp) /\ Len(b) \in Nat /\ Len(b) # 0 /\ Len(b) <= 3
      BY EmptySeq, LenProperties DEF IsBulk
    <2>2. DOMAIN b = 1..Len(b)
      BY <2>1
    <2> DEFINE k == Len(b)
    <2>3. k \in Nat /\ k # 0 /\ k <= 3
      BY <2>1
    <2> HIDE DEF k
    <2>4. k \in 1..3
      BY <2>3
    <2> QED  BY <2>1, <2>2, <2>4 DEF k
  <1>2. \A i \in 1..Len(b) : b[i] \in DbOp /\ b[i].id \in Objs
    <2>1. \A i \in 1..Len(b) : b[i] \in DbOp
      BY <1>1
    <2>2. \A x \in DbOp : x.id \in Objs
      BY DEF DbOp
    <2> QED  BY <2>1, <2>2
  <1>3. \A i \in 1..4 : Stages(b, n, m)[i] \in [Objs -> Doc]
    BY <1>1, StagesType
  <1>4. s1 \in [Objs -> Doc] /\ s2 \in [Objs -> Doc] /\ Stages(b, n, m)[4] = s3
    BY <1>0, <1>3
  <1>5. CASE Len(b) = 1
    <2>1. s3 = s1
      BY <1>5
    <2> HIDE DEF s3, s2
    <2> QED  BY <1>4, <1>5, <2>1
  <1>6. CASE Len(b) = 2
    <2>1. s3 = Run(b[2], s1, n, m)
      BY <1>6
    <2>2. 1 \in 1..Len(b) /\ 2 \in 1..Len(b) /\ b[1].id # b[2].id
      BY <1>1, <1>6
    <2> HIDE DEF s3, s2
    <2>3. s1[b[2].id] = objs[b[2].id]
      BY <1>2, <2>2, RunLocal
    <2> HIDE DEF s1
    <2>4. Run(b[2], s1, n, m)[b[2].id] = Run(b[2], objs, n, m)[b[2].id]
      BY <1>2, <1>4, <2>2, <2>3, RunLocal
    <2> QED  BY <1>4, <1>6, <2>1, <2>4
  <1>7. CASE Len(b) = 3
    <2>1. s3 = Run(b[3], s2, n, m) /\ s2 = Run(b[2], s1, n, m)
      BY <1>7
    <2>2. /\ 1 \in 1..Len(b) /\ 2 \in 1..Len(b) /\ 3 \in 1..Len(b)
          /\ b[1].id # b[3].id /\ b[2].id # b[3].id
      BY <1>1, <1>7
    <2> HIDE DEF s3, s2
    <2>3. s1[b[3].id] = objs[b[3].id]
      BY <1>2, <2>2, RunLocal
    <2> HIDE DEF s1
    <2>4. Run(b[2], s1, n, m)[b[3].id] = s1[b[3].id]
      BY <1>2, <1>4, <2>2, RunLocal
    <2>5. s2[b[3].id] = objs[b[3].id]
      BY <2>1, <2>3, <2>4
    <2>6. Run(b[3], s2, n, m)[b[3].id] = Run(b[3], objs, n, m)[b[3].id]
      BY <1>2, <1>4, <2>2, <2>5, RunLocal
    <2> QED  BY <1>4, <1>7, <2>1, <2>6
  <1> QED  BY <1>1, <1>5, <1>6, <1>7

\* A transaction of a put or of a delete by key leaves a latest version, and touches
\* no upload but the one it completes.
LEMMA TransactionLeavesLatest ==
    ASSUME LatestInv, NEW r \in Reqs, pc[r] = "write",
           objs' = Stages(bulk[r], vseq[r], mode[r])[4]
    PROVE  /\ \A o \in Objs : objs'[o].exists /\ objs'[o].upload_started
                                => objs'[o] = objs[o]
           /\ \E o \in Objs : IsStored(objs'[o]) /\ ~objs'[o].version_past
  <1> DEFINE b == bulk[r]
             w == b[Len(b)]
             d == objs[w.id]
             e == objs'[w.id]
  <1>1. /\ IsBulk(b, 3) /\ b # <<>> /\ objs \in [Objs -> Doc] /\ vseq[r] \in Nat
        /\ b \in Seq(DbOp) /\ StampsLast(b) /\ InsertsNew(b, objs) /\ Stamping(b)
        /\ Own(r) /\ Versioned(r)
        /\ op[r] \in Completions => obj[r] \in Objs /\ objs[obj[r]].exists
    <2>1. IInv /\ Sound(r)
      BY DEF LatestInv, OwnInv, VersionsInv
    <2>2. op[r] \in Completions => obj[r] \in Objs /\ objs[obj[r]].exists
      BY <2>1, NullAssumption DEF IInv, ReqInv, Sound, InOrder
    <2> QED  BY <2>1, <2>2 DEF LatestInv, OwnInv, IInv, ReqInv, SharedTypes, RequestTypes,
                Sound, InOrder, Versioned
  <1>2. w \in In(b) /\ w.kind \in Stamps /\ w \in DbOp /\ w.id \in Objs
    <2>1. PICK i \in DOMAIN b : b[i].kind \in Stamps
      BY <1>1 DEF Stamping, In
    <2>2. i = Len(b)
      BY <1>1, <2>1 DEF StampsLast
    <2>3. w \in In(b) /\ w.kind \in Stamps
      BY <2>1, <2>2 DEF In
    <2> HIDE DEF w, b
    <2> QED  BY <1>1, <2>3, InType
  <1>3. \A x \in In(b) : x = w \/ (x.kind \notin Stamps /\ x.id # w.id)
    <2> SUFFICES ASSUME NEW x \in In(b), x # w PROVE x.kind \notin Stamps /\ x.id # w.id
      OBVIOUS
    <2> HIDE DEF w, b
    <2>1. x.kind \notin Stamps
      BY <1>1, <1>2, OneStamp
    <2>2. objs[x.id].exists /\ ~objs[x.id].upload_started
      BY <1>1, <2>1 DEF Versioned, Settled, b
    <2>3. CASE w.kind \in Puts
      <3>1. op[r] \in Completions /\ w.id = obj[r] /\ x.id # obj[r]
        BY <1>1, <1>2, <2>1, <2>3 DEF Own, Stamps, b
      <3> QED  BY <2>1, <3>1
    <2>4. CASE w.kind \in Inserts
      BY <1>1, <1>2, <2>1, <2>2, <2>4 DEF InsertsNew, IsInsert, Inserts
    <2> QED  BY <1>2, <2>3, <2>4 DEF Stamps
  <1>4. \A i \in DOMAIN b : i # Len(b) => b[i].id # w.id
    BY <1>1, <1>2, <1>3 DEF In, StampsLast
  <1>5. e = Run(w, objs, vseq[r], mode[r])[w.id]
    BY <1>1, <1>4, StagesLast
  <1>6. Writes(In(b), objs, objs', vseq[r])
    BY <1>1, StagesWrite
  <1> HIDE DEF w, b, d, e
  <1>7. IsStored(e) /\ ~e.version_past
    <2>1. CASE w.kind \in Puts
      <3>1. op[r] \in Completions /\ w.id = obj[r]
        BY <1>1, <1>2, <2>1 DEF Own, b
      <3>2. d \in Doc /\ d.exists /\ d.upload_started
        BY <1>1, <1>2, <3>1 DEF Own, d
      <3>3. ~d.deleted /\ ~d.version_past
        BY <1>2, <3>2 DEF LatestInv, d
      <3>4. e = Effect(w, d, vseq[r], mode[r])
        BY <1>1, <1>2, <1>5, <2>1, <3>2, <3>3 DEF Run, Matches, IsLive, IsInsert, Puts, d
      <3>5. PICK x : e = [d EXCEPT !.upload_started = FALSE, !.version_seq = vseq[r],
                                   !.version_enabled = x]
        <4>1. e = [d EXCEPT !.upload_started = FALSE, !.version_seq = vseq[r],
                            !.version_enabled = @ \/ mode[r] = "ENABLED"]
          BY <2>1, <3>4 DEF Effect, Puts
        <4> QED  BY <4>1, Zenon
      <3>6. /\ e.exists = d.exists /\ e.deleted = d.deleted
            /\ e.upload_started = FALSE /\ e.version_past = d.version_past
        BY <3>2, <3>5 DEF Doc
      <3> QED  BY <3>2, <3>3, <3>6 DEF IsStored, IsLive
    <2>2. CASE w.kind \in Inserts
      <3>1. e = DeleteMarkerDoc(vseq[r], w.kind = "insert_enabled")
        BY <1>1, <1>2, <1>5, <2>2 DEF Run, Matches, IsInsert, Effect, Inserts
      <3> QED  BY <3>1 DEF DeleteMarkerDoc, NoDoc, IsStored, IsLive
    <2> QED  BY <1>2, <2>1, <2>2 DEF Stamps
  <1>8. ASSUME NEW o \in Objs, objs'[o].exists, objs'[o].upload_started
        PROVE  objs'[o] = objs[o]
    <2>1. o # w.id
      BY <1>7, <1>8 DEF IsStored, e
    <2>2. ASSUME NEW x \in In(b), x.id = o PROVE FALSE
      <3>1. x.kind \notin Stamps
        BY <1>3, <2>1, <2>2
      <3>2. objs[o].exists /\ ~objs[o].upload_started
        BY <1>1, <2>2, <3>1 DEF Versioned, Settled, b
      <3>3. PICK y \in In(b) : y.kind \in Puts /\ y.id = o
        BY <1>6, <1>8, <3>2 DEF Writes
      <3>4. y.kind \in Stamps
        BY <3>3 DEF Stamps
      <3> QED  BY <1>3, <2>1, <3>3, <3>4
    <2> QED  BY <1>6, <2>2 DEF Writes
  <1> QED  BY <1>2, <1>7, <1>8 DEF e

\* A step of one request that leaves the documents alone.
LEMMA LatestRequestStep ==
    ASSUME LatestInv, OwnInv', NEW r \in Reqs, Others(r), UNCHANGED <<objs, versioning>>,
           \A q \in Reqs \ {r} : mode'[q] = mode[q], Versioned(r)'
    PROVE  LatestInv'
  <1>1. \A q \in Reqs \ {r} : Versioned(q)'
    BY DEF LatestInv, Versioned, Settled, Others, Same
  <1>2. LatestExists'
    BY DEF LatestInv, LatestExists, Latest, Stored
  <1> QED  BY <1>1, <1>2 DEF LatestInv

\* Every step of puts and of deletes by key keeps a latest version.
LEMMA StepLatestInv ==
    ASSUME Backend = "postgres", Ops \subseteq PutsAndKeyDeletes, LatestInv, [Next]_vars
    PROVE  LatestInv'
  <1>v. OwnInv /\ OwnInv' /\ VersionsInv /\ IInv
    <2>1. "recomplete" \notin Ops
      BY DEF PutsAndKeyDeletes
    <2> QED  BY <2>1, StepOwnInv DEF LatestInv, OwnInv, VersionsInv
  <1>0. /\ objs \in [Objs -> Doc] /\ seq \in Nat
        /\ pc = [q \in Reqs |-> pc[q]] /\ op = [q \in Reqs |-> op[q]]
        /\ mode = [q \in Reqs |-> mode[q]]
        /\ obj \in [Reqs -> Objs \cup {Null}] /\ other \in [Reqs -> Objs \cup {Null}]
        /\ vseq \in [Reqs -> Nat] /\ bulk \in [Reqs -> Seq(DbOp)]
    BY <1>v DEF IInv, SharedTypes, RequestTypes
  <1>s. \A r \in Reqs :
          /\ pc[r] \notin {"make_marker", "write"} => bulk[r] = <<>>
          /\ pc[r] # "idle" => mode[r] # "DISABLED"
          /\ pc[r] \in PutPath \cup {"idle", "key_read", "key_latest", "make_marker", "write"}
          /\ other[r] # Null => Settled(other[r])
    BY <1>v DEF VersionsInv, Sound, InOrder, LatestInv, Versioned
  <1>k. /\ \A k \in Kinds : \A o : Do(k, o).kind = k /\ Do(k, o).id = o
        /\ Null \notin Objs
    BY NullAssumption DEF Do
  <1>f. /\ \A f \in FindOne(Latest) : f # Null => Settled(f)
        /\ \A f \in FindOne(NullVersions) : f # Null => Settled(f)
    BY DEF FindOne, Latest, NullVersions, Stored, IsStored, IsLive, Settled
  <1>1. CASE CreateUpload
    <2>1. PICK o \in Fresh : objs' = [objs EXCEPT ![o] = UploadDoc]
      BY <1>1 DEF CreateUpload
    <2>2. /\ o \in Objs /\ ~objs[o].exists /\ objs'[o] = UploadDoc
          /\ \A p \in Objs \ {o} : objs'[p] = objs[p]
          /\ UNCHANGED <<versioning, pc, mode, other, bulk>>
      BY <1>0, <1>1, <2>1 DEF CreateUpload, requests, Fresh
    <2>3. \A p \in Objs : Settled(p) => Settled(p)'
      BY <2>2 DEF Settled
    <2>4. \A q \in Reqs : Versioned(q)'
      <3> TAKE q \in Reqs
      <3>1. \A w \in In(bulk[q]) : w.kind \notin Stamps => Settled(w.id)'
        BY <1>0, <2>3, InType DEF LatestInv, Versioned
      <3>2. other[q] # Null => Settled(other[q])'
        BY <1>0, <1>s, <2>2, <2>3 DEF Settled
      <3>3. Versioned(q)
        BY DEF LatestInv
      <3> QED  BY <2>2, <3>1, <3>2, <3>3 DEF Versioned, Settled
    <2>5. LatestExists'
      <3>1. Stored' = Stored
        BY <2>2 DEF Stored, IsStored, IsLive, UploadDoc, NoDoc
      <3>2. Latest' = Latest
        BY <2>2, <3>1 DEF Latest, Stored, IsStored, IsLive
      <3> QED  BY <3>1, <3>2 DEF LatestInv, LatestExists
    <2>6. \A p \in Objs : objs'[p].exists /\ objs'[p].upload_started
                             => ~objs'[p].deleted /\ ~objs'[p].version_past
      BY <2>2 DEF LatestInv, UploadDoc, NoDoc
    <2>7. versioning' # "DISABLED"
      BY <2>2 DEF LatestInv
    <2> QED  BY <1>v, <2>4, <2>5, <2>6, <2>7 DEF LatestInv
  <1>2. CASE CreateComplete
    BY <1>2 DEF CreateComplete, LatestInv
  <1>3. CASE SetVersioning \/ (\E o \in Objs : Expire(o)) \/ UNCHANGED vars
    <2>1. UNCHANGED <<objs, pc, mode, other, bulk>> /\ versioning' # "DISABLED"
      BY <1>3, ModesAssumption DEF SetVersioning, Expire, vars, requests, db, LatestInv
    <2>2. \A q \in Reqs : Versioned(q)'
      BY <2>1 DEF LatestInv, Versioned, Settled
    <2>3. LatestExists'
      BY <2>1 DEF LatestInv, LatestExists, Latest, Stored
    <2> QED  BY <1>v, <2>1, <2>2, <2>3 DEF LatestInv
  <1>4. ASSUME NEW r \in Reqs, End(r), UNCHANGED <<objs, versioning>> PROVE LatestInv'
    <2>1. /\ Others(r) /\ pc'[r] = "idle" /\ other'[r] = Null /\ In(bulk'[r]) = {}
          /\ \A q \in Reqs \ {r} : mode'[q] = mode[q]
      BY <1>0, <1>4, <1>v, EndSound DEF End
    <2>2. Versioned(r)'
      BY <2>1 DEF Versioned
    <2> QED  BY <1>4, <1>v, <2>1, <2>2, LatestRequestStep
  <1>5. ASSUME NEW r \in Reqs, Others(r), UNCHANGED <<objs, versioning, mode>>,
               pc[r] # "idle",
               pc'[r] \in PutPath \cup {"key_latest", "make_marker", "write"},
               pc'[r] = "write" => Stamping(bulk'[r]),
               \A w \in In(bulk'[r]) : w.kind \notin Stamps => Settled(w.id),
               other'[r] # Null => Settled(other'[r])
        PROVE  LatestInv'
    <2>1. Versioned(r)'
      BY <1>5, <1>s DEF Versioned, Settled
    <2> QED  BY <1>5, <1>v, <2>1, LatestRequestStep
  <1>6. ASSUME NEW r \in Reqs, Start(r) PROVE LatestInv'
    <2>1. PICK name \in Ops, l \in {"find_upload", "key_read"} : \E o, n : Begin(r, name, l, o, n)
      <3>1. CASE Complete(r)
        BY <3>1 DEF Complete, Begin
      <3>2. CASE Abort(r) \/ DeleteVersion(r)
        BY <3>2 DEF Abort, DeleteVersion, Begin, PutsAndKeyDeletes
      <3>3. CASE DeleteKey(r)
        BY <3>3 DEF DeleteKey, Begin
      <3> QED  BY <1>6, <3>1, <3>2, <3>3 DEF Start
    <2>2. /\ Others(r) /\ UNCHANGED <<objs, versioning, other>> /\ pc'[r] = l
          /\ mode'[r] = versioning /\ In(bulk'[r]) = {}
          /\ \A q \in Reqs \ {r} : mode'[q] = mode[q]
      BY <1>0, <1>s, <2>1, InTuples DEF Begin, Others, Same, db
    <2>3. Versioned(r)'
      BY <1>s, <2>2 DEF Versioned, Settled, PutPath, LatestInv
    <2> QED  BY <1>v, <2>2, <2>3, LatestRequestStep
  <1>7. ASSUME NEW r \in Reqs, FindUpload(r) PROVE LatestInv'
    <2>1. CASE Goto(r, "alloc_version") /\ UNCHANGED <<db, obj, other, vseq, bulk>>
      <3>1. bulk[r] = <<>> /\ pc[r] # "idle"
        BY <1>7, <1>s DEF FindUpload
      <3>2. /\ Others(r) /\ UNCHANGED <<objs, versioning, mode, other>>
            /\ pc'[r] = "alloc_version" /\ In(bulk'[r]) = {}
        BY <1>0, <2>1, <3>1, InTuples DEF Goto, Others, Same, db
      <3> QED  BY <1>5, <1>s, <3>1, <3>2 DEF PutPath
    <2> QED  BY <1>4, <1>7, <2>1 DEF FindUpload, db
  <1>8. ASSUME NEW r \in Reqs, AllocVersion(r) PROVE LatestInv'
    <2>1. bulk[r] = <<>> /\ pc[r] # "idle"
      BY <1>8, <1>s DEF AllocVersion
    <2>2. /\ Others(r) /\ UNCHANGED <<objs, versioning, mode, other>>
          /\ pc'[r] = "put_read" /\ In(bulk'[r]) = {}
      BY <1>0, <1>8, <2>1, InTuples, AllocTypes DEF AllocVersion, Goto, Others, Same
    <2> QED  BY <1>5, <1>s, <2>1, <2>2 DEF PutPath
  <1>9. ASSUME NEW r \in Reqs, NEW b, Issue(r, b), UNCHANGED <<objs, obj, other, vseq>>,
               pc[r] # "idle", Stamping(b),
               \A w \in In(b) : w.kind \notin Stamps => Settled(w.id)
        PROVE  LatestInv'
    <2>1. /\ Others(r) /\ UNCHANGED <<versioning, mode>> /\ pc'[r] = "write" /\ bulk'[r] = b
      BY <1>0, <1>9 DEF Issue, Goto, Others, Same
    <2> QED  BY <1>5, <1>9, <1>s, <2>1
  <1>10. ASSUME NEW r \in Reqs, PutRead(r) PROVE LatestInv'
    <2>1. pc[r] # "idle" /\ bulk[r] = <<>>
      BY <1>10, <1>s DEF PutRead
    <2>2. PICK f \in FindOne(IF mode[r] = "ENABLED" THEN Latest ELSE NullVersions) :
            \/ Issue(r, <<Do("put_by_id", obj[r])>>) /\ UNCHANGED other
            \/ \E k \in {"unset_latest", "delete_and_unset_latest"} :
                  f # Null /\ Issue(r, <<Do(k, f), Do("put", obj[r])>>) /\ UNCHANGED other
            \/ Goto(r, "put_latest") /\ other' = [other EXCEPT ![r] = f] /\ UNCHANGED bulk
      BY <1>10 DEF PutRead
    <2>3. (f # Null => Settled(f)) /\ UNCHANGED <<objs, obj, vseq>>
      BY <1>10, <1>f DEF PutRead, db
    <2>4. CASE Issue(r, <<Do("put_by_id", obj[r])>>) /\ UNCHANGED other
      <3> DEFINE b == <<Do("put_by_id", obj[r])>>
      <3>1. Stamping(b) /\ \A w \in In(b) : w.kind \notin Stamps => Settled(w.id)
        BY <1>k, InTuples DEF Kinds, Stamping, Stamps, Puts
      <3> HIDE DEF b
      <3> QED  BY <1>9, <2>1, <2>3, <2>4, <3>1 DEF b
    <2>5. ASSUME NEW k \in {"unset_latest", "delete_and_unset_latest"}, f # Null,
                 Issue(r, <<Do(k, f), Do("put", obj[r])>>), UNCHANGED other
          PROVE  LatestInv'
      <3> DEFINE b == <<Do(k, f), Do("put", obj[r])>>
      <3>1. Stamping(b) /\ \A w \in In(b) : w.kind \notin Stamps => Settled(w.id)
        BY <1>k, <2>3, <2>5, InTuples DEF Kinds, Stamping, Stamps, Puts
      <3> HIDE DEF b
      <3> QED  BY <1>9, <2>1, <2>3, <2>5, <3>1 DEF b
    <2>6. CASE Goto(r, "put_latest") /\ other' = [other EXCEPT ![r] = f] /\ UNCHANGED bulk
      <3>1. /\ Others(r) /\ UNCHANGED <<objs, versioning, mode>> /\ other'[r] = f
            /\ pc'[r] = "put_latest"
        BY <1>0, <2>3, <2>6 DEF Goto, Others, Same
      <3>2. In(bulk'[r]) = {}
        BY <2>1, <2>6, InTuples
      <3> QED  BY <1>5, <2>1, <2>3, <3>1, <3>2 DEF PutPath
    <2> QED  BY <2>2, <2>4, <2>5, <2>6
  <1>11. ASSUME NEW r \in Reqs, PutLatest(r) PROVE LatestInv'
    <2>1. pc[r] # "idle" /\ UNCHANGED <<objs, obj, other, vseq>>
      BY <1>11 DEF PutLatest, db
    <2>2. PICK f \in FindOne(Latest) :
            \/ Issue(r, <<Do("put_by_id", obj[r])>>)
            \/ f # Null /\ Issue(r, <<Do("unset_latest", f), Do("put", obj[r])>>)
            \/ f # Null /\ other[r] # Null
               /\ Issue(r, <<Do("delete", other[r]), Do("unset_latest", f), Do("put", obj[r])>>)
      BY <1>11 DEF PutLatest
    <2>3. (f # Null => Settled(f)) /\ (other[r] # Null => Settled(other[r]))
      BY <1>f, <1>s
    <2>4. PICK b : /\ Issue(r, b) /\ Stamping(b)
                   /\ \A w \in In(b) : w.kind \notin Stamps => Settled(w.id)
      BY <1>k, <2>2, <2>3, InTuples DEF Kinds, Stamping, Stamps, Puts
    <2> QED  BY <1>9, <2>1, <2>4
  <1>12. ASSUME NEW r \in Reqs, pc[r] # "idle", UNCHANGED <<objs, vseq>>, NEW b,
                bulk' = [bulk EXCEPT ![r] = b], \A w \in In(b) : Settled(w.id),
                NEW l \in {"key_latest", "make_marker"}, Goto(r, l),
                \A q \in Reqs \ {r} : obj'[q] = obj[q] /\ other'[q] = other[q],
                other'[r] # Null => Settled(other'[r])
         PROVE  LatestInv'
    <2>1. Others(r) /\ UNCHANGED <<versioning, mode>> /\ pc'[r] = l /\ bulk'[r] = b
      BY <1>0, <1>12 DEF Goto, Others, Same
    <2> QED  BY <1>5, <1>12, <2>1
  <1>13. ASSUME NEW r \in Reqs, KeyRead(r) PROVE LatestInv'
    <2>1. /\ pc[r] # "idle" /\ bulk[r] = <<>> /\ bulk = [bulk EXCEPT ![r] = bulk[r]]
          /\ mode[r] # "DISABLED"
      BY <1>0, <1>13, <1>s DEF KeyRead
    <2>2. PICK f \in FindOne(IF mode[r] = "SUSPENDED" THEN NullVersions ELSE Latest) :
            /\ UNCHANGED <<db, vseq>>
            /\ obj' = obj \/ obj' = [obj EXCEPT ![r] = f]
            /\ other' = other \/ other' = [other EXCEPT ![r] = f]
            /\ \E l \in {"key_latest", "make_marker"} : Goto(r, l)
            /\ \/ UNCHANGED bulk
               \/ bulk' = [bulk EXCEPT ![r] = <<>>]
               \/ \E k \in {"unset_latest", "delete_and_unset_latest"} :
                     f # Null /\ bulk' = [bulk EXCEPT ![r] = <<Do(k, f)>>]
      BY <1>13, <2>1 DEF KeyRead
    <2>3. f # Null => Settled(f)
      BY <1>f
    <2>4. PICK b : bulk' = [bulk EXCEPT ![r] = b] /\ \A w \in In(b) : Settled(w.id)
      <3>1. \A k \in {"unset_latest", "delete_and_unset_latest"} :
              f # Null => \A w \in In(<<Do(k, f)>>) : Settled(w.id)
        BY <1>k, <2>3, InTuples DEF Kinds
      <3> QED  BY <2>1, <2>2, <3>1, InTuples
    <2>5. /\ \A q \in Reqs \ {r} : obj'[q] = obj[q] /\ other'[q] = other[q]
          /\ other'[r] # Null => Settled(other'[r])
      BY <1>0, <1>s, <2>2, <2>3
    <2>6. UNCHANGED <<objs, vseq>>
      BY <2>2 DEF db
    <2> QED  BY <1>12, <2>1, <2>2, <2>4, <2>5, <2>6
  <1>14. ASSUME NEW r \in Reqs, KeyLatest(r) PROVE LatestInv'
    <2>1. CASE End(r) /\ UNCHANGED <<db, versioning>>
      BY <1>4, <2>1 DEF db
    <2>2. CASE ~NoLatestToDelete(r)
      <3>1. PICK f \in FindOne(Latest) :
              \/ bulk' = [bulk EXCEPT ![r] = <<>>]
              \/ f # Null /\ bulk' = [bulk EXCEPT ![r] = <<Do("unset_latest", f)>>]
              \/ /\ f # Null /\ other[r] # Null
                 /\ bulk' = [bulk EXCEPT ![r] = <<Do("unset_latest", f), Do("delete", other[r])>>]
        BY <1>14, <2>2 DEF KeyLatest, NoLatestToDelete
      <3>2. (f # Null => Settled(f)) /\ (other[r] # Null => Settled(other[r]))
        BY <1>f, <1>s
      <3>3. PICK b : bulk' = [bulk EXCEPT ![r] = b] /\ \A w \in In(b) : Settled(w.id)
        <4>1. f # Null => \A w \in In(<<Do("unset_latest", f)>>) : Settled(w.id)
          BY <1>k, <3>2, InTuples DEF Kinds
        <4>2. f # Null /\ other[r] # Null =>
                \A w \in In(<<Do("unset_latest", f), Do("delete", other[r])>>) : Settled(w.id)
          BY <1>k, <3>2, InTuples DEF Kinds
        <4> QED  BY <3>1, <4>1, <4>2, InTuples
      <3>4. /\ pc[r] # "idle" /\ obj' = [obj EXCEPT ![r] = other[r]]
            /\ Goto(r, "make_marker") /\ UNCHANGED <<objs, other, vseq>>
        BY <1>14, <2>2 DEF KeyLatest, NoLatestToDelete, db
      <3>5. /\ \A q \in Reqs \ {r} : obj'[q] = obj[q] /\ other'[q] = other[q]
            /\ other'[r] # Null => Settled(other'[r])
        BY <1>0, <3>2, <3>4
      <3> QED  BY <1>12, <3>3, <3>4, <3>5
    <2> QED  BY <1>14, <2>1, <2>2 DEF KeyLatest
  <1>15. ASSUME NEW r \in Reqs, MakeMarker(r) PROVE LatestInv'
    <2>1. pc[r] # "idle" /\ Versioned(r)
      BY <1>15 DEF MakeMarker, LatestInv
    <2>2. PICK o \in Fresh, k \in Inserts : bulk' = [bulk EXCEPT ![r] = Append(bulk[r], Do(k, o))]
      BY <1>15 DEF MakeMarker, Inserts
    <2> DEFINE b == bulk[r]
               w == Do(k, o)
    <2>3. b \in Seq(DbOp) /\ bulk'[r] = Append(b, w)
      BY <1>0, <2>2
    <2>4. w.kind \in Stamps
      BY <1>k DEF Inserts, Stamps, Kinds
    <2> HIDE DEF w
    <2>5. In(Append(b, w)) = In(b) \cup {w}
      <3>1. /\ Len(b) \in Nat /\ DOMAIN b = 1..Len(b)
            /\ DOMAIN Append(b, w) = 1..(Len(b) + 1) /\ Append(b, w)[Len(b) + 1] = w
            /\ \A i \in 1..Len(b) : Append(b, w)[i] = b[i]
        <4> HIDE DEF b
        <4> QED  BY <2>3
      <3> DEFINE c == Append(b, w)
      <3> HIDE DEF c
      <3>2. In(c) = In(b) \cup {w}
        BY <3>1 DEF In, c
      <3> QED  BY <3>2 DEF c
    <2>6. /\ Stamping(bulk'[r])
          /\ \A x \in In(bulk'[r]) : x.kind \notin Stamps => Settled(x.id)
      BY <2>1, <2>3, <2>4, <2>5 DEF Stamping, Versioned
    <2>7. Others(r) /\ UNCHANGED <<objs, versioning, mode, other>> /\ pc'[r] = "write"
      BY <1>0, <1>15, <2>2, AllocTypes DEF MakeMarker, Goto, Others, Same
    <2> QED  BY <1>5, <1>s, <2>1, <2>6, <2>7
  <1>16. ASSUME NEW r \in Reqs, Write(r) PROVE LatestInv'
    <2>1. /\ pc[r] = "write" /\ UNCHANGED versioning /\ End(r)
          /\ \/ UNCHANGED objs
             \/ objs' = Stages(bulk[r], vseq[r], mode[r])[4]
      BY <1>16, Zenon DEF Write, WriteMongo, WritePostgres, Reply
    <2>2. CASE UNCHANGED objs
      BY <1>4, <2>1, <2>2
    <2>3. CASE objs' = Stages(bulk[r], vseq[r], mode[r])[4]
      <3>1. /\ \A o \in Objs : objs'[o].exists /\ objs'[o].upload_started
                                 => objs'[o] = objs[o]
            /\ \E o \in Objs : IsStored(objs'[o]) /\ ~objs'[o].version_past
        BY <2>1, <2>3, TransactionLeavesLatest
      <3>2. \A o \in Objs : objs[o].exists => objs'[o].exists
        <4>1. PICK W : Executes(r, W)
          BY <1>16, <1>v, WriteExecutes
        <4> QED  BY <4>1 DEF Executes, Writes
      <3>3. \A o \in Objs : Settled(o) => Settled(o)'
        BY <3>1, <3>2 DEF Settled
      <3>4. /\ Others(r) /\ pc'[r] = "idle" /\ other'[r] = Null /\ In(bulk'[r]) = {}
            /\ \A q \in Reqs \ {r} : mode'[q] = mode[q]
        BY <1>0, <1>v, <2>1, EndSound DEF End
      <3>5. ASSUME NEW q \in Reqs PROVE Versioned(q)'
        <4>1. CASE q = r
          BY <3>4, <4>1 DEF Versioned
        <4>2. CASE q # r
          <5>1. Same(q) /\ mode'[q] = mode[q] /\ Versioned(q)
            BY <3>4, <4>2 DEF Others, LatestInv
          <5>2. \A w \in In(bulk[q]) : w.kind \notin Stamps => Settled(w.id)'
            BY <1>0, <3>3, <5>1, InType DEF Versioned
          <5>3. other[q] # Null => Settled(other[q])'
            BY <1>0, <1>s, <3>3, <5>1 DEF Same, Settled
          <5> QED  BY <5>1, <5>2, <5>3 DEF Versioned, Settled, Same
        <4> QED  BY <4>1, <4>2
      <3>6. LatestExists'
        BY <3>1 DEF LatestExists, Latest, Stored
      <3>7. \A o \in Objs : objs'[o].exists /\ objs'[o].upload_started
                               => ~objs'[o].deleted /\ ~objs'[o].version_past
        BY <3>1 DEF LatestInv
      <3>8. versioning' # "DISABLED"
        BY <2>1 DEF LatestInv
      <3> QED  BY <1>v, <3>5, <3>6, <3>7, <3>8 DEF LatestInv
    <2> QED  BY <2>1, <2>2, <2>3
  <1>17. ASSUME NEW r \in Reqs, Fail(r) PROVE LatestInv'
    BY <1>4, <1>17 DEF Fail, db
  <1>19. ASSUME NEW r \in Reqs, NoSequence(r) PROVE LatestInv'
    <2>1. UNCHANGED <<objs, versioning, pc, mode, other, bulk>>
      BY <1>19 DEF NoSequence, db
    <2>2. \A q \in Reqs : Versioned(q)'
      BY <2>1 DEF LatestInv, Versioned, Settled
    <2>3. LatestExists'
      BY <2>1 DEF LatestInv, LatestExists, Latest, Stored
    <2> QED  BY <1>v, <2>1, <2>2, <2>3 DEF LatestInv
  <1>20. ASSUME NEW r \in Reqs, TwoSequences(r) PROVE LatestInv'
    BY <1>4, <1>20 DEF TwoSequences, db
  <1>18. ASSUME NEW r \in Reqs, AbortFind(r) \/ VersionRead(r) \/ VersionPrev(r) PROVE FALSE
    BY <1>18, <1>s DEF AbortFind, VersionRead, VersionPrev, PutPath
  <1> QED
    BY <1>1, <1>2, <1>3, <1>6, <1>7, <1>8, <1>10, <1>11, <1>13, <1>14, <1>15, <1>16,
       <1>17, <1>18, <1>19, <1>20 DEF Next, Advance

\* On PostgreSQL puts and deletes by key of a versioned bucket never leave a key whose
\* versions exist without a latest one: a GET does not answer NO_SUCH_OBJECT for it.
THEOREM LatestKept ==
    ASSUME Backend = "postgres", Ops \subseteq PutsAndKeyDeletes, "DISABLED" \notin InitModes
    PROVE  Spec => []LatestExists
  <1>1. Init => LatestInv
    <2> SUFFICES ASSUME Init PROVE LatestInv
      OBVIOUS
    <2>1. OwnInv
      <3>1. \A q \in Reqs : op[q] \notin Completions /\ In(bulk[q]) = {}
        BY InTuples DEF Init, Completions
      <3> QED  BY <3>1, InitVersionsInv DEF OwnInv, Own, OwnApart
    <2>2. \A o \in Objs : ~objs[o].exists
      BY DEF Init, NoDoc
    <2>3. \A q \in Reqs : Versioned(q)
      BY InTuples DEF Init, Versioned
    <2>4. LatestExists
      BY <2>2 DEF LatestExists, Stored, IsStored, IsLive
    <2> QED  BY <2>1, <2>2, <2>3, <2>4 DEF Init, LatestInv
  <1>2. LatestInv /\ [Next]_vars => LatestInv'
    BY StepLatestInv
  <1>3. LatestInv => LatestExists
    BY DEF LatestInv
  <1> QED  BY <1>1, <1>2, <1>3, PTL DEF Spec
=============================================================================
