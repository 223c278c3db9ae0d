-------------------- MODULE ObjectVersionsSerialProofs --------------------
(* Requests that do not overlap see the object server as a VersionedKey, on *)
(* either database and for every number of objects: ObjectVersionsSerial    *)
(* implements it, step by step.                                             *)
EXTENDS ObjectVersionsSerial, ObjectVersionsProofs, FoldLemmas

-----------------------------------------------------------------------------
(* The invariant.  With one request at a time what it has read is still so *)
(* when it writes; before and after each operation of its bulk the key has *)
(* no two latest or null versions, so that no operation fails, and what    *)
(* the whole bulk leaves is a key whose latest version is the newest.      *)

\* What clients do: not "recomplete", "delete_null" and "create_complete", which the
\* runs versions_two_latest and versions_no_latest show to break the promise, nor "fail".
SerialOps == {"create", "complete", "abort", "delete_key", "delete_version", "expire"}

\* The versions, the latest and the null ones of a collection M.
StoredIn(M) == {o \in Objs : IsStored(M[o])}
LatestIn(M) == {o \in StoredIn(M) : ~M[o].version_past}
NullsIn(M)  == {o \in StoredIn(M) : ~M[o].version_enabled}

Distinct(M) ==
    \A o, p \in StoredIn(M) :
        \/ M[o].version_seq = M[p].version_seq
        \/ ~M[o].version_past /\ ~M[p].version_past
        \/ ~M[o].version_enabled /\ ~M[p].version_enabled
        => o = p

\* Uploads are as they were created, or aborted: these are the objects X.
Tidy(M, X) ==
    \A o \in Objs : M[o].exists /\ M[o].upload_started =>
        /\ ~M[o].version_past /\ ~M[o].version_enabled /\ ~M[o].delete_marker
        /\ M[o].deleted => o \in X

Steady(M, X) == Distinct(M) /\ Tidy(M, X)

NewestLatest(M) ==
    /\ \A o \in LatestIn(M) : \A p \in StoredIn(M) : M[p].version_seq <= M[o].version_seq
    /\ StoredIn(M) # {} => LatestIn(M) # {}

Before(M, n) == \A o \in StoredIn(M) : M[o].version_seq < n

\* Stages, of any collection.
StagesOf(b, M, n, m) ==
    LET s1 == Run(b[1], M, n, m)
        s2 == IF Len(b) > 1 THEN Run(b[2], s1, n, m) ELSE s1
        s3 == IF Len(b) > 2 THEN Run(b[3], s2, n, m) ELSE s2
    IN  <<M, s1, s2, s3>>

Busy == {r \in Reqs : pc[r] # "idle"}

Upload(o) == o \in Objs /\ IsLive(objs[o]) /\ objs[o].upload_started

NullKnown(x) == IF x = Null THEN NullVersions = {}
                ELSE x \in NullVersions /\ objs[x].version_past

\* The operations b take the latest mark away, and the null version unless the newcomer
\* is listed (e).
Prepares(b, e, M) ==
    \/ b = <<>> /\ LatestIn(M) = {} /\ (~e => NullsIn(M) = {})
    \/ \E f \in LatestIn(M) : b = <<Do("unset_latest", f)>> /\ (~e => NullsIn(M) = {})
    \/ \E f \in LatestIn(M) \cap NullsIn(M) : ~e /\ b = <<Do("delete_and_unset_latest", f)>>
    \/ \E f \in LatestIn(M), x \in NullsIn(M) :
          /\ ~e /\ x # f
          /\ \/ b = <<Do("unset_latest", f), Do("delete", x)>>
             \/ b = <<Do("delete", x), Do("unset_latest", f)>>

Removing(r) == IF op[r] = "abort" THEN removed \cup {obj[r]} ELSE removed

Ready(r) ==
    /\ pc[r] # "write" \/ op[r] = "abort" => full[r]
    /\ pc[r] \notin {"make_marker", "write"} => bulk[r] = <<>>
    /\ mode[r] # "DISABLED" => versioning # "DISABLED"
    /\ pc[r] \notin {"idle", "write"} /\ mode[r] = "DISABLED" => Stored \subseteq NullVersions
    /\ pc[r] \in PutPath => op[r] = "complete" /\ Upload(obj[r])
    /\ pc[r] \in {"put_read", "put_latest"} => vseq[r] = seq /\ Before(objs, seq)
    /\ pc[r] \in {"put_latest", "key_latest"} => mode[r] = "SUSPENDED" /\ NullKnown(other[r])
    /\ pc[r] = "abort_find" => op[r] = "abort"
    /\ pc[r] \in DeletePath => op[r] \in {"delete_key", "delete_version"}
    /\ pc[r] = "version_read" => vseq[r] # 0
    /\ pc[r] = "version_prev" => obj[r] \in Latest /\ mode[r] # "DISABLED"
    /\ pc[r] = "make_marker" => /\ mode[r] # "DISABLED"
                                /\ Prepares(bulk[r], mode[r] = "ENABLED", objs)
    /\ pc[r] = "write" =>
          /\ \A i \in 2..4 : Steady(StagesOf(bulk[r], objs, vseq[r], mode[r])[i], Removing(r))
          /\ op[r] = "abort" => bulk[r] = <<Do("delete_by_id", obj[r])>>

Seen(M, s, v) ==
    /\ Distinct(M) /\ NewestLatest(M) /\ Before(M, s + 1)
    /\ v = "DISABLED" => StoredIn(M) \subseteq NullsIn(M)

SerialInv ==
    /\ IInv
    /\ \A q, r \in Busy : q = r
    /\ \A r \in Reqs : Ready(r)
    /\ Steady(objs, removed)
    /\ Seen(View, seq, versioning)

-----------------------------------------------------------------------------
(* The versioned key that a collection shows.                              *)

Entry(M, o) == [id |-> o, number |-> M[o].version_seq, null |-> ~M[o].version_enabled,
                marker |-> M[o].delete_marker]
Entries(M)  == {Entry(M, o) : o \in StoredIn(M)}
Pick(S)     == IF S = {} THEN Null ELSE CHOOSE o \in S : TRUE
Current(M)  == Pick(LatestIn(M))

\* The mapping, by the collection in view.
LEMMA ViewShows == ViewVersions = Entries(View) /\ ViewLatest = Current(View)
  <1>1. ViewVersions = Entries(View)
    BY DEF ViewVersions, Entries, Entry, StoredIn
  <1>2. ViewLatest = Current(View)
    <2>1. {o \in Objs : IsStored(View[o]) /\ ~View[o].version_past} = LatestIn(View)
      BY DEF StoredIn, LatestIn
    <2>2. ViewLatest = Pick({o \in Objs : IsStored(View[o]) /\ ~View[o].version_past})
      BY DEF ViewLatest, Pick
    <2> QED  BY <2>1, <2>2 DEF Current
  <1> QED  BY <1>1, <1>2

\* The same versions to those who read the key.
Keeps(M, N, S) == \A o \in S : /\ N[o].version_seq = M[o].version_seq
                               /\ N[o].version_enabled = M[o].version_enabled
                               /\ N[o].delete_marker = M[o].delete_marker
Alike(M, N) ==
    /\ StoredIn(N) = StoredIn(M) /\ Keeps(M, N, StoredIn(M))
    /\ \A o \in StoredIn(M) : N[o].version_past = M[o].version_past

\* The version v of number n comes in, listed or (~e) in the place of the null version.
Added(M, N, n, e, v) ==
    /\ v \in Objs \ StoredIn(M) /\ Before(M, n)
    /\ StoredIn(N) = (IF e THEN StoredIn(M) ELSE StoredIn(M) \ NullsIn(M)) \cup {v}
    /\ Keeps(M, N, StoredIn(N) \ {v})
    /\ N[v].version_seq = n /\ N[v].version_enabled = e
    /\ LatestIn(N) = {v}

\* The version v is taken away.
Dropped(M, N, v) ==
    /\ v \in StoredIn(M) /\ StoredIn(N) = StoredIn(M) \ {v}
    /\ Keeps(M, N, StoredIn(N))

\* A key that shows the same.
LEMMA AlikeShows ==
    ASSUME NEW M, NEW N, Alike(M, N)
    PROVE  /\ Entries(N) = Entries(M) /\ Current(N) = Current(M)
           /\ \A s, v : Seen(M, s, v) => Seen(N, s, v)
  <1>1. StoredIn(N) = StoredIn(M) /\ LatestIn(N) = LatestIn(M) /\ NullsIn(N) = NullsIn(M)
    BY DEF Alike, Keeps, LatestIn, NullsIn
  <1>2. \A o \in StoredIn(M) : Entry(N, o) = Entry(M, o)
    BY DEF Alike, Keeps, Entry
  <1>3. Entries(N) = Entries(M)
    BY <1>1, <1>2 DEF Entries
  <1>4. Current(N) = Current(M)
    BY <1>1 DEF Current
  <1>5. ASSUME NEW s, NEW v, Seen(M, s, v) PROVE Seen(N, s, v)
    <2>1. Distinct(N)
      BY <1>1, <1>5 DEF Seen, Distinct, Alike, Keeps
    <2>2. NewestLatest(N)
      BY <1>1, <1>5 DEF Seen, NewestLatest, Alike, Keeps, LatestIn
    <2>3. Before(N, s + 1)
      BY <1>1, <1>5 DEF Seen, Before, Alike, Keeps
    <2> QED  BY <1>1, <1>5, <2>1, <2>2, <2>3 DEF Seen
  <1> QED  BY <1>3, <1>4, <1>5

\* A set of versions, and which of them is current, as VersionedKey has it.
Becomes(S, c) ==
    \/ S = {} /\ c = Null
    \/ \E v \in S : (\A w \in S : w.number <= v.number) /\ c = v.id
AddTo(S, T, c) ==
    \E v \in T \ S :
        /\ v.id \in Objs
        /\ \A w \in S : w.number < v.number /\ w.id # v.id
        /\ T = (IF v.null THEN {w \in S : ~w.null} ELSE S) \cup {v}
        /\ Becomes((IF v.null THEN {w \in S : ~w.null} ELSE S) \cup {v}, c)
RemoveFrom(S, T, c) == \E v \in S : T = S \ {v} /\ Becomes(S \ {v}, c)

\* A latest version that is the newest is the current one.
LEMMA CurrentIsNewest ==
    ASSUME NEW M, NewestLatest(M)
    PROVE  Becomes(Entries(M), Current(M))
  <1>1. CASE StoredIn(M) = {}
    <2>1. Entries(M) = {} /\ LatestIn(M) = {}
      BY <1>1 DEF Entries, LatestIn
    <2> QED  BY <2>1 DEF Becomes, Current, Pick
  <1>2. CASE StoredIn(M) # {}
    <2> DEFINE c == Current(M)
    <2>1. c \in LatestIn(M)
      BY <1>2, Zenon DEF NewestLatest, Current, Pick
    <2>2. c \in StoredIn(M) /\ \A p \in StoredIn(M) : M[p].version_seq <= M[c].version_seq
      BY <2>1 DEF NewestLatest, LatestIn
    <2> HIDE DEF c
    <2>3. Entry(M, c) \in Entries(M) /\ Entry(M, c).id = c
      BY <2>2 DEF Entries, Entry
    <2>4. \A w \in Entries(M) : w.number <= Entry(M, c).number
      BY <2>2 DEF Entries, Entry
    <2> QED  BY <2>3, <2>4 DEF Becomes, c
  <1> QED  BY <1>1, <1>2

\* A newcomer is an addition, and is seen as the latest version.
LEMMA AddedShows ==
    ASSUME NEW M \in [Objs -> Doc], NEW N \in [Objs -> Doc], NEW n \in Nat, NEW e \in BOOLEAN,
           NEW v, Added(M, N, n, e, v), Distinct(N)
    PROVE  /\ AddTo(Entries(M), Entries(N), Current(N))
           /\ \A u \in {"DISABLED", "ENABLED", "SUSPENDED"} :
                 (u = "DISABLED" => ~e /\ StoredIn(M) \subseteq NullsIn(M)) => Seen(N, n, u)
  <1>0. /\ v \in Objs /\ v \notin StoredIn(M) /\ v \in StoredIn(N)
        /\ StoredIn(M) \subseteq Objs /\ StoredIn(N) \subseteq Objs
    BY DEF Added, StoredIn
  <1>n. \A o \in Objs : M[o].version_seq \in Nat /\ N[o].version_seq \in Nat
    BY DEF Doc
  <1>1. \A o \in StoredIn(N) \ {v} : o \in StoredIn(M) /\ Entry(N, o) = Entry(M, o)
    BY DEF Added, Keeps, Entry
  <1>2. Before(N, n + 1)
    <2> SUFFICES ASSUME NEW o \in StoredIn(N) PROVE N[o].version_seq < n + 1
      BY DEF Before
    <2>1. CASE o = v
      BY <2>1 DEF Added
    <2>2. CASE o # v
      <3>1. o \in StoredIn(M) /\ N[o].version_seq = M[o].version_seq /\ M[o].version_seq < n
        BY <1>1, <2>2 DEF Added, Keeps, Before
      <3> QED  BY <1>0, <1>n, <3>1
    <2> QED  BY <2>1, <2>2
  <1>3. NewestLatest(N)
    <2>1. \A p \in StoredIn(N) : N[p].version_seq <= N[v].version_seq
      BY <1>0, <1>2, <1>n DEF Before, Added
    <2> QED  BY <2>1 DEF NewestLatest, Added
  <1>4. Becomes(Entries(N), Current(N))
    BY <1>3, CurrentIsNewest
  <1> DEFINE y == Entry(N, v)
             S == Entries(M)
  <1>5. y.id = v /\ y.number = n /\ y.null = ~e
    BY DEF Entry, Added
  <1>6. Entries(N) = (IF y.null THEN {w \in S : ~w.null} ELSE S) \cup {y}
    <2>1. \A o \in StoredIn(M) : Entry(M, o).null = ~M[o].version_enabled
      BY DEF Entry
    <2>2. CASE e
      <3>1. StoredIn(N) = StoredIn(M) \cup {v}
        BY <2>2 DEF Added
      <3> QED  BY <1>0, <1>1, <1>5, <2>2, <3>1 DEF Entries
    <2>3. CASE ~e
      <3>1. StoredIn(N) = (StoredIn(M) \ NullsIn(M)) \cup {v}
        BY <2>3 DEF Added
      <3>2. {w \in S : ~w.null} = {Entry(M, o) : o \in StoredIn(M) \ NullsIn(M)}
        BY <2>1 DEF Entries, NullsIn
      <3>3. Entries(N) = {Entry(M, o) : o \in StoredIn(M) \ NullsIn(M)} \cup {y}
        BY <1>0, <1>1, <3>1 DEF Entries
      <3> QED  BY <1>5, <2>3, <3>2, <3>3
    <2> QED  BY <2>2, <2>3
  <1>7. \A w \in S : w.number < y.number /\ w.id # y.id
    BY <1>0, <1>5 DEF Entries, Entry, Added, Before
  <1>8. y \in Entries(N) \ S
    BY <1>0, <1>5 DEF Entries, Entry
  <1> HIDE DEF y, S
  <1>9. AddTo(S, Entries(N), Current(N))
    BY <1>0, <1>4, <1>5, <1>6, <1>7, <1>8 DEF AddTo
  <1>10. ASSUME NEW u, u = "DISABLED" => ~e /\ StoredIn(M) \subseteq NullsIn(M) PROVE Seen(N, n, u)
    <2>1. ASSUME ~e, StoredIn(M) \subseteq NullsIn(M) PROVE StoredIn(N) \subseteq NullsIn(N)
      BY <2>1, <1>0 DEF Added, NullsIn
    <2> QED  BY <1>2, <1>3, <1>10, <2>1 DEF Seen
  <1> QED  BY <1>9, <1>10 DEF S

\* A version less is a removal.
LEMMA DroppedShows ==
    ASSUME NEW M \in [Objs -> Doc], NEW N \in [Objs -> Doc], NEW s \in Nat, NEW u, NEW v,
           Dropped(M, N, v), Distinct(N), NewestLatest(N), Seen(M, s, u)
    PROVE  RemoveFrom(Entries(M), Entries(N), Current(N)) /\ Seen(N, s, u)
  <1>1. \A o \in StoredIn(N) : o \in StoredIn(M) /\ o # v /\ Entry(N, o) = Entry(M, o)
    BY DEF Dropped, Keeps, Entry
  <1>2. \A o : Entry(M, o).id = o
    BY DEF Entry
  <1>3. Entries(N) = Entries(M) \ {Entry(M, v)} /\ Entry(M, v) \in Entries(M)
    BY <1>1, <1>2 DEF Entries, Dropped
  <1>4. Becomes(Entries(N), Current(N))
    BY CurrentIsNewest
  <1>5. RemoveFrom(Entries(M), Entries(N), Current(N))
    BY <1>3, <1>4 DEF RemoveFrom
  <1>6. Before(N, s + 1)
    BY <1>1 DEF Seen, Before, Dropped, Keeps
  <1>7. u = "DISABLED" => StoredIn(N) \subseteq NullsIn(N)
    BY <1>1 DEF Seen, NullsIn, Dropped, Keeps
  <1> QED  BY <1>5, <1>6, <1>7 DEF Seen

-----------------------------------------------------------------------------
(* Single operations.                                                      *)

\* What an operation on a document that it matches does, field by field.
OneRun(k, o, M, N, n, m) ==
    /\ N \in [Objs -> Doc] /\ \A p \in Objs \ {o} : N[p] = M[p]
    /\ N[o].exists /\ N[o].delete_marker = M[o].delete_marker
    /\ IF k \in Removes THEN N[o].deleted = TRUE ELSE N[o].deleted = FALSE
    /\ k \notin {"put", "put_by_id"} =>
         /\ N[o].upload_started = M[o].upload_started
         /\ N[o].version_seq = M[o].version_seq
         /\ N[o].version_enabled = M[o].version_enabled
         /\ k = "unset_latest" => N[o].version_past = TRUE
         /\ k = "set_latest" => N[o].version_past = FALSE
    /\ k \in {"put", "put_by_id"} =>
         /\ N[o].upload_started = FALSE /\ N[o].version_seq = n
         /\ m = "ENABLED" => N[o].version_enabled = TRUE
         /\ m # "ENABLED" => N[o].version_enabled = M[o].version_enabled
         /\ N[o].version_past = M[o].version_past

\* A live document is matched by every operation but an insert.
LEMMA RunOnLive ==
    ASSUME NEW M \in [Objs -> Doc], NEW o \in Objs, IsLive(M[o]), NEW n \in Nat, NEW m,
           NEW k \in {"delete_and_unset_latest", "delete", "delete_by_id", "unset_latest",
                      "set_latest", "put", "put_by_id"},
           NEW N, N = Run(Do(k, o), M, n, m)
    PROVE  OneRun(k, o, M, N, n, m)
  <1> DEFINE w == Do(k, o)
             d == M[o]
             f == Effect(w, d, n, m)
  <1>1. w \in DbOp /\ w.kind = k /\ w.id = o
    BY DEF Do, DbOp, Kinds
  <1>2. d \in Doc /\ IsLive(d)
    OBVIOUS
  <1>3. Matches(w, d)
    BY <1>1, <1>2 DEF Matches, IsLive
  <1>4. N = [M EXCEPT ![o] = f]
    BY <1>1, <1>3 DEF Run
  <1>5. f \in Doc
    BY <1>1, <1>2, EffectType
  <1> HIDE DEF w, d
  <1>6. /\ f.exists = d.exists /\ f.delete_marker = d.delete_marker
        /\ IF k \in Removes THEN f.deleted = TRUE ELSE f.deleted = d.deleted
        /\ k \notin {"put", "put_by_id"} =>
             /\ f.upload_started = d.upload_started
             /\ f.version_seq = d.version_seq /\ f.version_enabled = d.version_enabled
             /\ k = "unset_latest" => f.version_past = TRUE
             /\ k = "set_latest" => f.version_past = FALSE
        /\ k \in {"put", "put_by_id"} =>
             /\ f.upload_started = FALSE /\ f.version_seq = n
             /\ f.version_enabled = (d.version_enabled \/ m = "ENABLED")
             /\ f.version_past = d.version_past
    <2>1. CASE k = "delete_and_unset_latest"
      <3>1. f = [d EXCEPT !.deleted = TRUE, !.version_past = TRUE]
        BY <1>1, <2>1 DEF Effect
      <3> HIDE DEF f
      <3> QED  BY <1>2, <2>1, <3>1 DEF Doc, Removes
    <2>2. CASE k \in {"delete", "delete_by_id"}
      <3>1. f = [d EXCEPT !.deleted = TRUE]
        BY <1>1, <2>2 DEF Effect
      <3> HIDE DEF f
      <3> QED  BY <1>2, <2>2, <3>1 DEF Doc, Removes
    <2>3. CASE k = "unset_latest"
      <3>1. f = [d EXCEPT !.version_past = TRUE]
        BY <1>1, <2>3 DEF Effect
      <3> HIDE DEF f
      <3> QED  BY <1>2, <2>3, <3>1 DEF Doc, Removes
    <2>4. CASE k = "set_latest"
      <3>1. f = [d EXCEPT !.version_past = FALSE]
        BY <1>1, <2>4 DEF Effect
      <3> HIDE DEF f
      <3> QED  BY <1>2, <2>4, <3>1 DEF Doc, Removes
    <2>5. CASE k \in {"put", "put_by_id"}
      <3> DEFINE e == d.version_enabled \/ m = "ENABLED"
      <3>1. f = [d EXCEPT !.upload_started = FALSE, !.version_seq = n, !.version_enabled = e]
        <4>1. f = [d EXCEPT !.upload_started = FALSE, !.version_seq = n,
                            !.version_enabled = @ \/ m = "ENABLED"]
          BY <1>1, <2>5 DEF Effect
        <4> QED  BY <4>1, Zenon
      <3> HIDE DEF f, e
      <3>2. /\ f.exists = d.exists /\ f.delete_marker = d.delete_marker /\ f.deleted = d.deleted
            /\ f.upload_started = FALSE /\ f.version_seq = n /\ f.version_enabled = e
            /\ f.version_past = d.version_past
        BY <1>2, <3>1 DEF Doc
      <3>3. IF k \in Removes THEN f.deleted = TRUE ELSE f.deleted = d.deleted
        BY <2>5, <3>2 DEF Removes
      <3> QED  BY <2>5, <3>2, <3>3, Zenon DEF e
    <2> QED  BY <2>1, <2>2, <2>3, <2>4, <2>5
  <1> HIDE DEF f
  <1>7. N[o] = f /\ N \in [Objs -> Doc] /\ \A p \in Objs \ {o} : N[p] = M[p]
    BY <1>4, <1>5
  <1>8. d.deleted = FALSE /\ d.exists
    BY <1>2 DEF IsLive, Doc
  <1>9. IF k \in Removes THEN f.deleted = TRUE ELSE f.deleted = FALSE
    BY <1>6, <1>8
  <1>10. /\ m = "ENABLED" /\ k \in {"put", "put_by_id"} => f.version_enabled = TRUE
         /\ m # "ENABLED" /\ k \in {"put", "put_by_id"} => f.version_enabled = d.version_enabled
    BY <1>2, <1>6 DEF Doc
  <1> QED  BY <1>6, <1>7, <1>8, <1>9, <1>10 DEF d, OneRun

\* A version is deleted, or made a past one.
TakenAway(k, o, M, N, X) ==
    /\ N \in [Objs -> Doc] /\ Steady(N, X)
    /\ \A p \in Objs \ {o} : N[p] = M[p]
    /\ Keeps(M, N, StoredIn(M))
    /\ k = "unset_latest" => StoredIn(N) = StoredIn(M) /\ NullsIn(N) = NullsIn(M)
    /\ k # "unset_latest" => StoredIn(N) = StoredIn(M) \ {o} /\ NullsIn(N) = NullsIn(M) \ {o}
    /\ LatestIn(N) = LatestIn(M) \ {o}

\* The key stays steady without it.
LEMMA TakeAway ==
    ASSUME NEW M \in [Objs -> Doc], NEW X, Steady(M, X), NEW o \in StoredIn(M), NEW n \in Nat, NEW m,
           NEW k \in {"delete_and_unset_latest", "delete", "delete_by_id", "unset_latest"},
           NEW N, N = Run(Do(k, o), M, n, m)
    PROVE  TakenAway(k, o, M, N, X)
  <1>1. o \in Objs /\ IsLive(M[o]) /\ ~M[o].upload_started
    BY DEF StoredIn, IsStored
  <1>2. /\ N \in [Objs -> Doc] /\ \A p \in Objs \ {o} : N[p] = M[p]
        /\ N[o].exists /\ N[o].delete_marker = M[o].delete_marker
        /\ k # "unset_latest" => N[o].deleted = TRUE
        /\ k = "unset_latest" => N[o].deleted = FALSE
        /\ N[o].upload_started = M[o].upload_started
        /\ N[o].version_seq = M[o].version_seq
        /\ N[o].version_enabled = M[o].version_enabled
        /\ k = "unset_latest" => N[o].version_past = TRUE
    <2>1. OneRun(k, o, M, N, n, m)
      BY <1>1, RunOnLive
    <2> QED  BY <2>1 DEF OneRun, Removes
  <1>3. Keeps(M, N, StoredIn(M))
    BY <1>2 DEF Keeps, StoredIn
  <1>4. k = "unset_latest" => /\ StoredIn(N) = StoredIn(M) /\ NullsIn(N) = NullsIn(M)
                              /\ LatestIn(N) = LatestIn(M) \ {o}
    BY <1>1, <1>2 DEF StoredIn, NullsIn, LatestIn, IsStored, IsLive
  <1>5. k # "unset_latest" => /\ StoredIn(N) = StoredIn(M) \ {o} /\ NullsIn(N) = NullsIn(M) \ {o}
                              /\ LatestIn(N) = LatestIn(M) \ {o}
    BY <1>1, <1>2 DEF StoredIn, NullsIn, LatestIn, IsStored, IsLive
  <1>6. StoredIn(N) \subseteq StoredIn(M) /\ LatestIn(N) \subseteq LatestIn(M)
    BY <1>4, <1>5
  <1>7. Distinct(N)
    BY <1>3, <1>6 DEF Steady, Distinct, Keeps, LatestIn
  <1>8. Tidy(N, X)
    BY <1>1, <1>2 DEF Steady, Tidy
  <1> QED  BY <1>2, <1>3, <1>4, <1>5, <1>7, <1>8 DEF Steady, TakenAway

\* The version before the deleted one becomes the latest.
Promoted(o, M, N, X) ==
    /\ N \in [Objs -> Doc] /\ Steady(N, X)
    /\ StoredIn(N) = StoredIn(M) /\ Keeps(M, N, StoredIn(M)) /\ LatestIn(N) = {o}

\* ... where no other one is.
LEMMA Promote ==
    ASSUME NEW M \in [Objs -> Doc], NEW X, Steady(M, X), NEW o \in StoredIn(M), NEW n \in Nat, NEW m,
           LatestIn(M) = {}, NEW N, N = Run(Do("set_latest", o), M, n, m)
    PROVE  Promoted(o, M, N, X)
  <1>1. o \in Objs /\ IsLive(M[o]) /\ ~M[o].upload_started
    BY DEF StoredIn, IsStored
  <1>2. /\ N \in [Objs -> Doc] /\ \A p \in Objs \ {o} : N[p] = M[p]
        /\ N[o].exists /\ N[o].delete_marker = M[o].delete_marker /\ ~N[o].deleted
        /\ N[o].upload_started = M[o].upload_started
        /\ N[o].version_seq = M[o].version_seq
        /\ N[o].version_enabled = M[o].version_enabled /\ N[o].version_past = FALSE
    <2>1. OneRun("set_latest", o, M, N, n, m)
      BY <1>1, RunOnLive
    <2> QED  BY <2>1 DEF OneRun, Removes
  <1>3. Keeps(M, N, StoredIn(M))
    BY <1>2 DEF Keeps, StoredIn
  <1>4. StoredIn(N) = StoredIn(M) /\ LatestIn(N) = {o}
    BY <1>1, <1>2 DEF StoredIn, LatestIn, IsStored, IsLive
  <1>5. Distinct(N)
    BY <1>3, <1>4 DEF Steady, Distinct, Keeps, LatestIn
  <1>6. Tidy(N, X)
    BY <1>1, <1>2 DEF Steady, Tidy
  <1> QED  BY <1>2, <1>3, <1>4, <1>5, <1>6 DEF Steady, Promoted

\* The operation w brings a new version, listed or not (e): an upload that completes, or
\* a delete marker.
Newcomer(w, e, M, m) ==
    /\ w = Do(w.kind, w.id) /\ w.id \in Objs
    /\ \/ w.kind \in Puts /\ e = (m = "ENABLED") /\ IsLive(M[w.id]) /\ M[w.id].upload_started
       \/ w.kind \in Inserts /\ e = (w.kind = "insert_enabled") /\ ~M[w.id].exists

Brought(w, n, e, M, N, X) ==
    /\ N \in [Objs -> Doc] /\ Steady(N, X)
    /\ w.id \notin StoredIn(M) /\ StoredIn(N) = StoredIn(M) \cup {w.id}
    /\ \A p \in Objs \ {w.id} : N[p] = M[p]
    /\ N[w.id].version_seq = n /\ N[w.id].version_enabled = e /\ LatestIn(N) = {w.id}

\* It is the only latest version, and the only null one if it is null.
LEMMA Bring ==
    ASSUME NEW M \in [Objs -> Doc], NEW X, Steady(M, X), NEW n \in Nat, NEW m, NEW e \in BOOLEAN,
           NEW w, Newcomer(w, e, M, m), LatestIn(M) = {}, ~e => NullsIn(M) = {}, Before(M, n),
           NEW N, N = Run(w, M, n, m)
    PROVE  Brought(w, n, e, M, N, X)
  <1> DEFINE v == w.id
  <1>1. v \in Objs /\ M[v] \in Doc /\ v \notin StoredIn(M)
    BY DEF Newcomer, StoredIn, IsStored, IsLive
  <1>2. /\ N \in [Objs -> Doc] /\ \A p \in Objs \ {v} : N[p] = M[p]
        /\ N[v].exists /\ ~N[v].deleted /\ ~N[v].upload_started /\ ~N[v].version_past
        /\ N[v].version_seq = n /\ N[v].version_enabled = e
    <2>1. CASE w.kind \in Puts
      <3>1. /\ e = (m = "ENABLED") /\ IsLive(M[v]) /\ M[v].upload_started /\ N = Run(Do(w.kind, v), M, n, m)
            /\ w.kind \in {"put", "put_by_id"}
        BY <2>1 DEF Newcomer, Puts, Inserts
      <3> HIDE DEF v
      <3>2. /\ N \in [Objs -> Doc] /\ \A p \in Objs \ {v} : N[p] = M[p]
            /\ N[v].exists
            /\ N[v].deleted = FALSE
            /\ N[v].upload_started = FALSE /\ N[v].version_seq = n
            /\ m = "ENABLED" => N[v].version_enabled = TRUE
            /\ m # "ENABLED" => N[v].version_enabled = M[v].version_enabled
            /\ N[v].version_past = M[v].version_past
        <4>1. OneRun(w.kind, v, M, N, n, m)
          BY <1>1, <3>1, RunOnLive
        <4> QED  BY <3>1, <4>1 DEF OneRun, Removes
      <3>3. ~M[v].version_past /\ ~M[v].version_enabled
        BY <1>1, <3>1 DEF Steady, Tidy, IsLive
      <3>4. N[v].version_enabled = e
        BY <1>1, <3>1, <3>2, <3>3 DEF Doc
      <3> QED  BY <3>1, <3>2, <3>3, <3>4
    <2>2. CASE w.kind \in Inserts
      <3>1. e = (w.kind = "insert_enabled") /\ w \in DbOp /\ IsInsert(w)
        BY <2>2 DEF Newcomer, Puts, Inserts, IsInsert, Do, DbOp, Kinds
      <3>2. N = [M EXCEPT ![v] = Effect(w, M[v], n, m)]
        BY <3>1 DEF Run, Matches, IsInsert
      <3>3. Effect(w, M[v], n, m) = DeleteMarkerDoc(n, e)
        BY <2>2, <3>1 DEF Effect, Inserts
      <3>4. Effect(w, M[v], n, m) \in Doc
        BY <1>1, <3>1, EffectType
      <3> HIDE DEF v
      <3>5. N[v] = DeleteMarkerDoc(n, e) /\ N \in [Objs -> Doc] /\ \A p \in Objs \ {v} : N[p] = M[p]
        BY <1>1, <3>2, <3>3, <3>4
      <3> QED  BY <3>5 DEF DeleteMarkerDoc, NoDoc
    <2> QED  BY <2>1, <2>2 DEF Newcomer
  <1> HIDE DEF v
  <1>3. StoredIn(N) = StoredIn(M) \cup {v}
    BY <1>1, <1>2 DEF StoredIn, IsStored, IsLive
  <1>4. LatestIn(N) = {v} /\ \A p \in StoredIn(M) : p # v /\ p \in Objs /\ N[p] = M[p]
    BY <1>1, <1>2, <1>3 DEF LatestIn, StoredIn
  <1>5. \A p \in StoredIn(M) : /\ N[p].version_seq # n
                               /\ N[p].version_past
                               /\ ~e => N[p].version_enabled
    <2> TAKE p \in StoredIn(M)
    <2>1. M[p].version_seq < n /\ M[p].version_seq \in Nat
      BY <1>4 DEF Before, Doc
    <2> QED  BY <1>4, <2>1 DEF LatestIn, NullsIn
  <1>6. Distinct(N)
    <2> SUFFICES ASSUME NEW o \in StoredIn(N), NEW p \in StoredIn(N), o # p,
                        \/ N[o].version_seq = N[p].version_seq
                        \/ ~N[o].version_past /\ ~N[p].version_past
                        \/ ~N[o].version_enabled /\ ~N[p].version_enabled
                 PROVE  FALSE
      BY DEF Distinct
    <2>1. CASE o # v /\ p # v
      <3>1. o \in StoredIn(M) /\ p \in StoredIn(M) /\ N[o] = M[o] /\ N[p] = M[p]
        BY <1>3, <1>4, <2>1
      <3> QED  BY <3>1 DEF Steady, Distinct
    <2>2. CASE o = v
      <3>1. p \in StoredIn(M)
        BY <1>3, <2>2
      <3> QED  BY <1>2, <1>5, <2>2, <3>1
    <2>3. CASE p = v
      <3>1. o \in StoredIn(M)
        BY <1>3, <2>3
      <3> QED  BY <1>2, <1>5, <2>3, <3>1
    <2> QED  BY <2>1, <2>2, <2>3
  <1>7. Tidy(N, X)
    BY <1>1, <1>2 DEF Steady, Tidy
  <1> QED  BY <1>1, <1>2, <1>3, <1>4, <1>6, <1>7 DEF Steady, Brought, v

-----------------------------------------------------------------------------
(* Whole bulks.                                                            *)

\* The stages of bulks of one, two and three operations.
LEMMA StagesOfTuples ==
    ASSUME NEW M, NEW n, NEW m, NEW u, NEW v, NEW w, NEW N, NEW P, NEW Q,
           N = Run(u, M, n, m), P = Run(v, N, n, m), Q = Run(w, P, n, m)
    PROVE  /\ StagesOf(<<u>>, M, n, m) = <<M, N, N, N>>
           /\ StagesOf(<<u, v>>, M, n, m) = <<M, N, P, P>>
           /\ StagesOf(<<u, v, w>>, M, n, m) = <<M, N, P, Q>>
  BY DEF StagesOf

\* An operation more at the end of a bulk.
LEMMA AppendTuples ==
    ASSUME NEW u, NEW v, NEW w
    PROVE  /\ Append(<<>>, w) = <<w>> /\ Append(<<u>>, w) = <<u, w>>
           /\ Append(<<u, v>>, w) = <<u, v, w>>
  <1> DEFINE S == {u, v, w}
  <1>1. ASSUME NEW b \in Seq(S), NEW c \in Seq(S), Len(c) = Len(b) + 1, c[Len(c)] = w,
               \A i \in 1..Len(b) : c[i] = b[i]
        PROVE  Append(b, w) = c
    <2>1. /\ Append(b, w) \in Seq(S) /\ Len(Append(b, w)) = Len(b) + 1
          /\ Append(b, w)[Len(b) + 1] = w /\ \A i \in 1..Len(b) : Append(b, w)[i] = b[i]
      BY AppendProperties
    <2>2. \A i \in 1..(Len(b) + 1) : i \in 1..Len(b) \/ i = Len(b) + 1
      BY LenProperties
    <2> QED  BY <1>1, <2>1, <2>2, SeqEqual
  <1>2. <<>> \in Seq(S) /\ <<u>> \in Seq(S) /\ <<u, v>> \in Seq(S)
    OBVIOUS
  <1>3. <<w>> \in Seq(S) /\ <<u, w>> \in Seq(S) /\ <<u, v, w>> \in Seq(S)
    OBVIOUS
  <1> HIDE DEF S
  <1>4. /\ Len(<<>>) = 0 /\ Len(<<u>>) = 1 /\ Len(<<u, v>>) = 2
        /\ Len(<<w>>) = 1 /\ Len(<<u, w>>) = 2 /\ Len(<<u, v, w>>) = 3
    OBVIOUS
  <1>5. /\ \A i \in 1..1 : <<u, w>>[i] = <<u>>[i]
        /\ \A i \in 1..2 : <<u, v, w>>[i] = <<u, v>>[i]
        /\ <<u, w>>[2] = w /\ <<u, v, w>>[3] = w
    OBVIOUS
  <1>6. Append(<<>>, w) = <<w>>
    BY <1>1, <1>2, <1>3, <1>4
  <1>7. Append(<<u>>, w) = <<u, w>>
    <2> DEFINE b == <<u>>
               c == <<u, w>>
    <2>1. /\ b \in Seq(S) /\ c \in Seq(S) /\ Len(c) = Len(b) + 1 /\ c[Len(c)] = w
          /\ \A i \in 1..Len(b) : c[i] = b[i]
      BY <1>2, <1>3, <1>4, <1>5
    <2> HIDE DEF b, c
    <2>2. Append(b, w) = c
      BY <1>1, <2>1
    <2> QED  BY <2>2 DEF b, c
  <1>8. Append(<<u, v>>, w) = <<u, v, w>>
    <2> DEFINE b == <<u, v>>
               c == <<u, v, w>>
    <2>1. /\ b \in Seq(S) /\ c \in Seq(S) /\ Len(c) = Len(b) + 1 /\ c[Len(c)] = w
          /\ \A i \in 1..Len(b) : c[i] = b[i]
      BY <1>2, <1>3, <1>4, <1>5
    <2> HIDE DEF b, c
    <2>2. Append(b, w) = c
      BY <1>1, <2>1
    <2> QED  BY <2>2 DEF b, c
  <1> QED  BY <1>6, <1>7, <1>8

\* Every operation of the bulk b leaves a steady collection, and all of them N.
Leads(b, M, N, n, m, X) ==
    /\ N \in [Objs -> Doc] /\ StagesOf(b, M, n, m)[4] = N
    /\ \A i \in 2..4 : Steady(StagesOf(b, M, n, m)[i], X)

\* ... shown operation by operation.
LEMMA LeadsTuples ==
    ASSUME NEW M, NEW n, NEW m, NEW X, NEW u, NEW v, NEW w, NEW N, NEW P, NEW Q,
           N = Run(u, M, n, m), P = Run(v, N, n, m), Q = Run(w, P, n, m)
    PROVE  /\ Steady(N, X) /\ N \in [Objs -> Doc] => Leads(<<u>>, M, N, n, m, X)
           /\ Steady(N, X) /\ Steady(P, X) /\ P \in [Objs -> Doc] => Leads(<<u, v>>, M, P, n, m, X)
           /\ Steady(N, X) /\ Steady(P, X) /\ Steady(Q, X) /\ Q \in [Objs -> Doc]
                 => Leads(<<u, v, w>>, M, Q, n, m, X)
  <1>1. ASSUME NEW b, NEW A, NEW B, NEW C, StagesOf(b, M, n, m) = <<M, A, B, C>>,
               Steady(A, X), Steady(B, X), Steady(C, X), C \in [Objs -> Doc]
        PROVE  Leads(b, M, C, n, m, X)
    <2>1. \A i \in 2..4 : i = 2 \/ i = 3 \/ i = 4
      OBVIOUS
    <2>2. StagesOf(b, M, n, m)[2] = A /\ StagesOf(b, M, n, m)[3] = B /\ StagesOf(b, M, n, m)[4] = C
      BY <1>1
    <2> QED  BY <1>1, <2>1, <2>2 DEF Leads
  <1>2. /\ StagesOf(<<u>>, M, n, m) = <<M, N, N, N>>
        /\ StagesOf(<<u, v>>, M, n, m) = <<M, N, P, P>>
        /\ StagesOf(<<u, v, w>>, M, n, m) = <<M, N, P, Q>>
    BY StagesOfTuples
  <1> QED  BY <1>1, <1>2

\* The collection P, ready for the newcomer.
Prepared(P, e, M) ==
    /\ P \in [Objs -> Doc] /\ LatestIn(P) = {} /\ (~e => NullsIn(P) = {})
    /\ StoredIn(P) = (IF e THEN StoredIn(M) ELSE StoredIn(M) \ NullsIn(M))
    /\ Keeps(M, P, StoredIn(M))
    /\ \A p \in Objs \ StoredIn(M) : P[p] = M[p]

\* The newcomer, after the operations before it, is added to the collection M.
LEMMA BringPrepared ==
    ASSUME NEW M \in [Objs -> Doc], NEW X, NEW n \in Nat, NEW m, NEW e \in BOOLEAN,
           NEW w, Newcomer(w, e, M, m), Before(M, n), NEW P, Prepared(P, e, M), Steady(P, X),
           NEW N, N = Run(w, P, n, m)
    PROVE  N \in [Objs -> Doc] /\ Steady(N, X) /\ Added(M, N, n, e, w.id)
  <1> DEFINE v == w.id
  <1>1. v \in Objs /\ v \notin StoredIn(M)
    BY DEF Newcomer, StoredIn, IsStored, IsLive
  <1>2. P[v] = M[v]
    BY <1>1 DEF Prepared
  <1>3. Newcomer(w, e, P, m)
    BY <1>2 DEF Newcomer
  <1>4. StoredIn(P) \subseteq StoredIn(M)
    BY DEF Prepared
  <1>5. Before(P, n)
    BY <1>4 DEF Before, Prepared, Keeps
  <1>6. Brought(w, n, e, P, N, X)
    BY <1>3, <1>5, Bring DEF Prepared
  <1> HIDE DEF v
  <1>7. N \in [Objs -> Doc] /\ Steady(N, X) /\ StoredIn(N) = StoredIn(P) \cup {v}
        /\ (\A p \in Objs \ {v} : N[p] = P[p])
        /\ N[v].version_seq = n /\ N[v].version_enabled = e /\ LatestIn(N) = {v}
    BY <1>6 DEF Brought, v
  <1>8. \A p \in StoredIn(N) \ {v} : p \in Objs \ {v} /\ p \in StoredIn(M)
    BY <1>4, <1>7 DEF StoredIn
  <1>9. Keeps(M, N, StoredIn(N) \ {v})
    <2>1. \A p \in StoredIn(N) \ {v} : N[p] = P[p] /\ p \in StoredIn(M)
      BY <1>7, <1>8
    <2> QED  BY <2>1 DEF Keeps, Prepared
  <1>10. StoredIn(N) = (IF e THEN StoredIn(M) ELSE StoredIn(M) \ NullsIn(M)) \cup {v}
    BY <1>7 DEF Prepared
  <1>11. Added(M, N, n, e, v)
    BY <1>1, <1>7, <1>9, <1>10, Zenon DEF Added
  <1> QED  BY <1>7, <1>11 DEF v

\* A put, or a delete marker: the version of number n is added.
LEMMA BulkAdds ==
    ASSUME NEW M \in [Objs -> Doc], NEW X, Steady(M, X), NEW n \in Nat, NEW m, NEW e \in BOOLEAN,
           NEW w, Newcomer(w, e, M, m), Before(M, n), NEW b, Prepares(b, e, M)
    PROVE  \E N : Leads(Append(b, w), M, N, n, m, X) /\ Added(M, N, n, e, w.id)
  <1>1. ASSUME NEW f \in LatestIn(M) PROVE f \in StoredIn(M) /\ LatestIn(M) = {f}
    BY DEF Steady, Distinct, LatestIn
  <1>2. ASSUME NEW x \in NullsIn(M) PROVE x \in StoredIn(M) /\ NullsIn(M) = {x}
    BY DEF Steady, Distinct, NullsIn
  <1>3. ASSUME NEW P, Prepared(P, e, M), Steady(P, X)
        PROVE  /\ Run(w, P, n, m) \in [Objs -> Doc] /\ Steady(Run(w, P, n, m), X)
               /\ Added(M, Run(w, P, n, m), n, e, w.id)
    BY <1>3, BringPrepared
  <1>4. CASE b = <<>> /\ LatestIn(M) = {} /\ (~e => NullsIn(M) = {})
    <2>1. Prepared(M, e, M)
      BY <1>4 DEF Prepared, Keeps
    <2> DEFINE N == Run(w, M, n, m)
    <2>2. N \in [Objs -> Doc] /\ Steady(N, X) /\ Added(M, N, n, e, w.id)
      BY <1>3, <2>1
    <2>3. Append(b, w) = <<w>>
      BY <1>4
    <2>4. Leads(<<w>>, M, N, n, m, X)
      BY <2>2, LeadsTuples
    <2> QED  BY <2>2, <2>3, <2>4
  <1>5. ASSUME NEW f \in LatestIn(M), NEW k \in {"unset_latest", "delete_and_unset_latest"},
               b = <<Do(k, f)>>,
               IF k = "unset_latest" THEN ~e => NullsIn(M) = {} ELSE ~e /\ f \in NullsIn(M)
        PROVE  \E N : Leads(Append(b, w), M, N, n, m, X) /\ Added(M, N, n, e, w.id)
    <2> DEFINE P == Run(Do(k, f), M, n, m)
               N == Run(w, P, n, m)
    <2>1. TakenAway(k, f, M, P, X)
      BY <1>1, <1>5, TakeAway
    <2>2. Prepared(P, e, M) /\ Steady(P, X)
      <3> HIDE DEF P
      <3>1. LatestIn(P) = {}
        BY <1>1, <2>1 DEF TakenAway
      <3>2. CASE k = "unset_latest"
        BY <1>1, <1>5, <2>1, <3>1, <3>2 DEF TakenAway, Prepared
      <3>3. CASE k = "delete_and_unset_latest"
        <4>1. NullsIn(M) = {f} /\ NullsIn(P) = {}
          BY <1>2, <1>5, <2>1, <3>3 DEF TakenAway
        <4> QED  BY <1>1, <1>5, <2>1, <3>1, <3>3, <4>1 DEF TakenAway, Prepared
      <3> QED  BY <1>5, <3>2, <3>3
    <2> HIDE DEF P
    <2>3. N \in [Objs -> Doc] /\ Steady(N, X) /\ Added(M, N, n, e, w.id)
      BY <1>3, <2>2
    <2>4. Append(b, w) = <<Do(k, f), w>>
      BY <1>5, AppendTuples
    <2>5. Leads(<<Do(k, f), w>>, M, N, n, m, X)
      BY <2>2, <2>3, LeadsTuples DEF P
    <2> QED  BY <2>3, <2>4, <2>5
  <1>6. ASSUME NEW f \in LatestIn(M), NEW x \in NullsIn(M), ~e, x # f, NEW y, NEW z,
               \/ y = Do("unset_latest", f) /\ z = Do("delete", x)
               \/ y = Do("delete", x) /\ z = Do("unset_latest", f),
               b = <<y, z>>
        PROVE  \E N : Leads(Append(b, w), M, N, n, m, X) /\ Added(M, N, n, e, w.id)
    <2> DEFINE O == Run(y, M, n, m)
               P == Run(z, O, n, m)
               N == Run(w, P, n, m)
    <2>0. f \in StoredIn(M) /\ LatestIn(M) = {f} /\ x \in StoredIn(M) /\ NullsIn(M) = {x}
      BY <1>1, <1>2, <1>6
    <2>1. Steady(O, X) /\ Prepared(P, e, M) /\ Steady(P, X)
      <3>1. CASE y = Do("unset_latest", f) /\ z = Do("delete", x)
        <4>1. TakenAway("unset_latest", f, M, O, X)
          BY <2>0, <3>1, TakeAway
        <4> HIDE DEF O
        <4>2. x \in StoredIn(O) /\ O \in [Objs -> Doc] /\ Steady(O, X)
          BY <2>0, <4>1 DEF TakenAway
        <4>3. TakenAway("delete", x, O, P, X)
          BY <3>1, <4>2, TakeAway
        <4> HIDE DEF P
        <4>4. Keeps(M, P, StoredIn(M)) /\ \A p \in Objs \ StoredIn(M) : P[p] = M[p]
          BY <2>0, <4>1, <4>3 DEF TakenAway, Keeps
        <4> QED  BY <1>6, <2>0, <4>1, <4>2, <4>3, <4>4 DEF TakenAway, Prepared
      <3>2. CASE y = Do("delete", x) /\ z = Do("unset_latest", f)
        <4>1. TakenAway("delete", x, M, O, X)
          BY <2>0, <3>2, TakeAway
        <4> HIDE DEF O
        <4>2. f \in StoredIn(O) /\ O \in [Objs -> Doc] /\ Steady(O, X)
          BY <1>6, <2>0, <4>1 DEF TakenAway
        <4>3. TakenAway("unset_latest", f, O, P, X)
          BY <3>2, <4>2, TakeAway
        <4> HIDE DEF P
        <4>4. Keeps(M, P, StoredIn(M)) /\ \A p \in Objs \ StoredIn(M) : P[p] = M[p]
          <5>1. ASSUME NEW p \in StoredIn(M), p # x
                PROVE  p \in StoredIn(O)
            BY <4>1, <5>1 DEF TakenAway
          <5>2. x \in Objs \ {f} /\ P[x] = O[x]
            BY <1>6, <2>0, <4>3 DEF TakenAway, StoredIn
          <5> QED  BY <2>0, <4>1, <4>3, <5>1, <5>2 DEF TakenAway, Keeps
        <4> QED  BY <1>6, <2>0, <4>1, <4>2, <4>3, <4>4 DEF TakenAway, Prepared
      <3> QED  BY <1>6, <3>1, <3>2
    <2> HIDE DEF P, O
    <2>2. N \in [Objs -> Doc] /\ Steady(N, X) /\ Added(M, N, n, e, w.id)
      BY <1>3, <2>1
    <2>3. Append(b, w) = <<y, z, w>>
      BY <1>6, AppendTuples
    <2>4. Leads(<<y, z, w>>, M, N, n, m, X)
      BY <2>1, <2>2, LeadsTuples DEF P, O
    <2> QED  BY <2>2, <2>3, <2>4
  <1>7. CASE \E f \in LatestIn(M) : b = <<Do("unset_latest", f)>> /\ (~e => NullsIn(M) = {})
    BY <1>5, <1>7
  <1>8. CASE \E f \in LatestIn(M) \cap NullsIn(M) : ~e /\ b = <<Do("delete_and_unset_latest", f)>>
    BY <1>5, <1>8
  <1>9. CASE \E f \in LatestIn(M), x \in NullsIn(M) :
                /\ ~e /\ x # f
                /\ \/ b = <<Do("unset_latest", f), Do("delete", x)>>
                   \/ b = <<Do("delete", x), Do("unset_latest", f)>>
    BY <1>6, <1>9
  <1> QED  BY <1>4, <1>7, <1>8, <1>9 DEF Prepares

\* Deleting a past version.
LEMMA BulkDropsPast ==
    ASSUME NEW M \in [Objs -> Doc], NEW X, Steady(M, X), NewestLatest(M), NEW n \in Nat, NEW m,
           NEW f \in StoredIn(M), f \notin LatestIn(M)
    PROVE  \E N : /\ Leads(<<Do("delete_by_id", f)>>, M, N, n, m, X)
                  /\ Dropped(M, N, f) /\ NewestLatest(N)
  <1> DEFINE N == Run(Do("delete_by_id", f), M, n, m)
  <1>1. TakenAway("delete_by_id", f, M, N, X)
    BY TakeAway
  <1>2. N \in [Objs -> Doc] /\ Steady(N, X)
    BY <1>1 DEF TakenAway
  <1>3. Leads(<<Do("delete_by_id", f)>>, M, N, n, m, X)
    BY <1>2, LeadsTuples
  <1> HIDE DEF N
  <1>4. Dropped(M, N, f)
    BY <1>1 DEF TakenAway, Dropped, Keeps
  <1>5. LatestIn(N) = LatestIn(M) /\ LatestIn(M) # {}
    BY <1>1 DEF TakenAway, NewestLatest
  <1>6. NewestLatest(N)
    BY <1>4, <1>5 DEF NewestLatest, Dropped, Keeps, LatestIn
  <1> QED  BY <1>3, <1>4, <1>6

\* Deleting the only version.
LEMMA BulkDropsLast ==
    ASSUME NEW M \in [Objs -> Doc], NEW X, Steady(M, X), NEW n \in Nat, NEW m,
           NEW f, StoredIn(M) = {f}
    PROVE  \E N : /\ Leads(<<Do("delete_and_unset_latest", f)>>, M, N, n, m, X)
                  /\ Dropped(M, N, f) /\ NewestLatest(N)
  <1> DEFINE N == Run(Do("delete_and_unset_latest", f), M, n, m)
  <1>1. TakenAway("delete_and_unset_latest", f, M, N, X)
    BY TakeAway
  <1>2. N \in [Objs -> Doc] /\ Steady(N, X)
    BY <1>1 DEF TakenAway
  <1>3. Leads(<<Do("delete_and_unset_latest", f)>>, M, N, n, m, X)
    BY <1>2, LeadsTuples
  <1> HIDE DEF N
  <1>4. StoredIn(N) = {} /\ LatestIn(N) = {}
    BY <1>1 DEF TakenAway, LatestIn
  <1>5. Dropped(M, N, f)
    BY <1>4 DEF Dropped, Keeps
  <1>6. NewestLatest(N)
    BY <1>4 DEF NewestLatest
  <1> QED  BY <1>3, <1>5, <1>6

\* Deleting the latest version: the newest of the past ones follows.
LEMMA BulkDropsLatest ==
    ASSUME NEW M \in [Objs -> Doc], NEW X, Steady(M, X), NEW n \in Nat, NEW m,
           NEW f \in LatestIn(M), NEW g \in StoredIn(M), g # f,
           \A p \in StoredIn(M) \ {f} : M[p].version_seq <= M[g].version_seq
    PROVE  \E N : /\ Leads(<<Do("delete_and_unset_latest", f), Do("set_latest", g)>>, M, N, n, m, X)
                  /\ Dropped(M, N, f) /\ NewestLatest(N)
  <1> DEFINE P == Run(Do("delete_and_unset_latest", f), M, n, m)
             N == Run(Do("set_latest", g), P, n, m)
  <1>0. f \in StoredIn(M) /\ LatestIn(M) = {f}
    BY DEF LatestIn, Steady, Distinct
  <1>1. TakenAway("delete_and_unset_latest", f, M, P, X)
    BY <1>0, TakeAway
  <1>2. /\ P \in [Objs -> Doc] /\ Steady(P, X) /\ LatestIn(P) = {} /\ Keeps(M, P, StoredIn(M))
        /\ StoredIn(P) = StoredIn(M) \ {f}
    <2> HIDE DEF P
    <2> QED  BY <1>0, <1>1 DEF TakenAway
  <1>3. g \in StoredIn(P)
    BY <1>2
  <1> HIDE DEF P
  <1>4. Promoted(g, P, N, X)
    BY <1>2, <1>3, Promote
  <1>5. N \in [Objs -> Doc] /\ Steady(N, X)
    BY <1>4 DEF Promoted
  <1>6. Leads(<<Do("delete_and_unset_latest", f), Do("set_latest", g)>>, M, N, n, m, X)
    BY <1>2, <1>5, LeadsTuples DEF P
  <1> HIDE DEF N
  <1>7. Dropped(M, N, f)
    BY <1>0, <1>2, <1>4 DEF Promoted, Dropped, Keeps
  <1>8. NewestLatest(N)
    <2>1. LatestIn(N) = {g} /\ StoredIn(N) = StoredIn(M) \ {f}
      BY <1>2, <1>4 DEF Promoted
    <2>2. \A p \in StoredIn(N) : N[p].version_seq = M[p].version_seq
      BY <1>7 DEF Dropped, Keeps
    <2> QED  BY <2>1, <2>2 DEF NewestLatest
  <1> QED  BY <1>6, <1>7, <1>8

\* Aborting an upload, which nobody sees.
LEMMA BulkAborts ==
    ASSUME NEW M \in [Objs -> Doc], NEW X, Steady(M, X), NEW n \in Nat, NEW m,
           NEW o \in Objs, IsLive(M[o]), M[o].upload_started
    PROVE  \E N : /\ Leads(<<Do("delete_by_id", o)>>, M, N, n, m, X \cup {o})
                  /\ Alike(M, N)
  <1> DEFINE N == Run(Do("delete_by_id", o), M, n, m)
             Y == X \cup {o}
  <1>1. OneRun("delete_by_id", o, M, N, n, m)
    BY RunOnLive
  <1> HIDE DEF N
  <1>2. /\ N \in [Objs -> Doc] /\ \A p \in Objs \ {o} : N[p] = M[p]
        /\ N[o].upload_started = TRUE /\ N[o].version_enabled = M[o].version_enabled
        /\ N[o].version_seq = M[o].version_seq /\ N[o].delete_marker = M[o].delete_marker
        /\ N[o].deleted = TRUE
    BY <1>1 DEF OneRun, Doc, Removes
  <1>3. o \notin StoredIn(M) /\ o \notin StoredIn(N)
    BY <1>2 DEF StoredIn, IsStored
  <1>4. StoredIn(N) = StoredIn(M) /\ \A p \in StoredIn(M) : N[p] = M[p]
    BY <1>2, <1>3 DEF StoredIn
  <1>5. Alike(M, N) /\ Distinct(N)
    BY <1>4 DEF Alike, Keeps, Steady, Distinct
  <1>6. ~N[o].version_past
    <2>1. N = [M EXCEPT ![o] = [M[o] EXCEPT !.deleted = TRUE]]
      BY DEF N, Run, Matches, Effect, Do, IsInsert
    <2>2. N[o] = [M[o] EXCEPT !.deleted = TRUE] /\ M[o] \in Doc
      BY <2>1
    <2>3. N[o].version_past = M[o].version_past
      BY <2>2 DEF Doc
    <2> QED  BY <2>3 DEF Steady, Tidy, IsLive
  <1>7. Tidy(N, Y)
    BY <1>2, <1>6 DEF Steady, Tidy, IsLive
  <1>8. Steady(N, Y)
    BY <1>5, <1>7 DEF Steady
  <1> HIDE DEF Y
  <1>9. Leads(<<Do("delete_by_id", o)>>, M, N, n, m, Y)
    BY <1>2, <1>8, LeadsTuples DEF N
  <1> QED  BY <1>5, <1>9 DEF Y

-----------------------------------------------------------------------------
(* An upload that is created while a bulk is executed.                     *)

WithUpload(M, o) == [M EXCEPT ![o] = UploadDoc]

\* A document that no operation of the bulk is on stays beside it.
LEMMA RunElsewhere ==
    ASSUME NEW M \in [Objs -> Doc], NEW w \in DbOp, NEW n \in Nat, NEW m, NEW o \in Objs, o # w.id,
           NEW N, N = WithUpload(M, o)
    PROVE  /\ Run(w, M, n, m) \in [Objs -> Doc] /\ Run(w, M, n, m)[o] = M[o]
           /\ Run(w, N, n, m) = WithUpload(Run(w, M, n, m), o)
  <1>0. Run(w, M, n, m) \in [Objs -> Doc]
    BY RunType
  <1>1. w.id \in Objs /\ N[w.id] = M[w.id]
    BY DEF DbOp, WithUpload
  <1>2. CASE Matches(w, M[w.id])
    <2>1. Run(w, N, n, m) = [N EXCEPT ![w.id] = Effect(w, M[w.id], n, m)]
      BY <1>1, <1>2 DEF Run
    <2>2. Run(w, M, n, m) = [M EXCEPT ![w.id] = Effect(w, M[w.id], n, m)]
      BY <1>2 DEF Run
    <2> QED  BY <1>0, <1>1, <2>1, <2>2 DEF WithUpload
  <1>3. CASE ~Matches(w, M[w.id])
    BY <1>0, <1>1, <1>3 DEF Run, WithUpload
  <1> QED  BY <1>2, <1>3

\* A new upload is no version.
LEMMA UploadAside ==
    ASSUME NEW M \in [Objs -> Doc], NEW o \in Objs, ~M[o].exists, NEW X, Steady(M, X),
           NEW N, N = WithUpload(M, o)
    PROVE  Steady(N, X) /\ Alike(M, N)
  <1>1. N[o] = UploadDoc /\ \A p \in Objs \ {o} : N[p] = M[p]
    BY DEF WithUpload
  <1>2. /\ UploadDoc.upload_started /\ ~UploadDoc.deleted /\ ~UploadDoc.version_past
        /\ ~UploadDoc.version_enabled /\ ~UploadDoc.delete_marker
    BY DEF UploadDoc, NoDoc
  <1>3. StoredIn(N) = StoredIn(M) /\ \A p \in StoredIn(M) : N[p] = M[p]
    BY <1>1, <1>2 DEF StoredIn, IsStored, IsLive
  <1>4. Alike(M, N) /\ Distinct(N)
    BY <1>3 DEF Alike, Keeps, Steady, Distinct
  <1>5. Tidy(N, X)
    BY <1>1, <1>2 DEF Steady, Tidy
  <1> QED  BY <1>4, <1>5 DEF Steady

\* ... at no stage of a bulk.
LEMMA StagesElsewhere ==
    ASSUME NEW M \in [Objs -> Doc], NEW b, IsBulk(b, 3), b # <<>>, NEW n \in Nat, NEW m,
           NEW o \in Objs, ~M[o].exists, \A w \in In(b) : w.id # o, NEW N, NEW X,
           N = WithUpload(M, o), \A i \in 2..4 : Steady(StagesOf(b, M, n, m)[i], X)
    PROVE  /\ \A i \in 2..4 : Steady(StagesOf(b, N, n, m)[i], X)
           /\ Alike(StagesOf(b, M, n, m)[4], StagesOf(b, N, n, m)[4])
  <1> DEFINE s1 == Run(b[1], M, n, m)
             s2 == IF Len(b) > 1 THEN Run(b[2], s1, n, m) ELSE s1
             s3 == IF Len(b) > 2 THEN Run(b[3], s2, n, m) ELSE s2
             t1 == Run(b[1], N, n, m)
             t2 == IF Len(b) > 1 THEN Run(b[2], t1, n, m) ELSE t1
             t3 == IF Len(b) > 2 THEN Run(b[3], t2, n, m) ELSE t2
  <1>1. StagesOf(b, M, n, m) = <<M, s1, s2, s3>> /\ StagesOf(b, N, n, m) = <<N, t1, t2, t3>>
    BY DEF StagesOf
  <1>2. /\ b[1] \in DbOp /\ b[1].id # o
        /\ Len(b) > 1 => b[2] \in DbOp /\ b[2].id # o
        /\ Len(b) > 2 => b[3] \in DbOp /\ b[3].id # o
    <2>1. b \in Seq(DbOp) /\ Len(b) \in Nat /\ Len(b) # 0 /\ DOMAIN b = 1..Len(b)
      BY EmptySeq, LenProperties DEF IsBulk
    <2>2. \A i \in 1..Len(b) : b[i] \in DbOp /\ b[i] \in In(b)
      BY <2>1 DEF In
    <2> DEFINE l == Len(b)
    <2>3. 1 \in 1..l /\ (l > 1 => 2 \in 1..l) /\ (l > 2 => 3 \in 1..l)
      <3>1. l \in Nat /\ l # 0
        BY <2>1
      <3> HIDE DEF l
      <3> QED  BY <3>1
    <2> QED  BY <2>2, <2>3
  <1>3. ASSUME NEW w \in DbOp, w.id # o, NEW P \in [Objs -> Doc], P[o] = M[o],
               NEW Q, Q = WithUpload(P, o)
        PROVE  /\ Run(w, P, n, m) \in [Objs -> Doc] /\ Run(w, P, n, m)[o] = M[o]
               /\ Run(w, Q, n, m) = WithUpload(Run(w, P, n, m), o)
    BY <1>3, RunElsewhere
  <1>4. s1 \in [Objs -> Doc] /\ s1[o] = M[o] /\ t1 = WithUpload(s1, o)
    BY <1>2, <1>3
  <1> HIDE DEF s1, t1
  <1>5. s2 \in [Objs -> Doc] /\ s2[o] = M[o] /\ t2 = WithUpload(s2, o)
    BY <1>2, <1>3, <1>4
  <1> HIDE DEF s2, t2
  <1>6. s3 \in [Objs -> Doc] /\ s3[o] = M[o] /\ t3 = WithUpload(s3, o)
    BY <1>2, <1>3, <1>5
  <1> HIDE DEF s3, t3
  <1>7. Steady(s1, X) /\ Steady(s2, X) /\ Steady(s3, X)
    <2>1. 2 \in 2..4 /\ 3 \in 2..4 /\ 4 \in 2..4
      OBVIOUS
    <2> QED  BY <1>1, <2>1
  <1>8. Steady(t1, X) /\ Steady(t2, X) /\ Steady(t3, X) /\ Alike(s3, t3)
    BY <1>4, <1>5, <1>6, <1>7, UploadAside
  <1>9. ASSUME NEW i \in 2..4 PROVE Steady(<<N, t1, t2, t3>>[i], X)
    <2>1. i = 2 \/ i = 3 \/ i = 4
      OBVIOUS
    <2> QED  BY <1>8, <2>1
  <1> QED  BY <1>1, <1>8, <1>9

\* What is left of a bulk when its first operation is executed has the other stages.
LEMMA StagesTail ==
    ASSUME NEW b, IsBulk(b, 3), Len(b) > 1, NEW M, NEW n, NEW m, NEW N, N = Run(Head(b), M, n, m)
    PROVE  LET S == StagesOf(b, M, n, m) IN StagesOf(Tail(b), N, n, m) = <<S[2], S[3], S[4], S[4]>>
  <1>1. b \in Seq(DbOp) /\ Len(b) \in {2, 3}
    <2>1. b \in Seq(DbOp) /\ Len(b) \in Nat /\ Len(b) <= 3
      BY LenProperties DEF IsBulk
    <2> DEFINE l == Len(b)
    <2>2. l \in Nat /\ l <= 3 /\ l > 1
      BY <2>1
    <2> HIDE DEF l
    <2>3. l \in {2, 3}
      BY <2>2
    <2> QED  BY <2>1, <2>3 DEF l
  <1> DEFINE t == Tail(b)
             s1 == Run(b[1], M, n, m)
             s2 == Run(b[2], s1, n, m)
             s3 == IF Len(b) > 2 THEN Run(b[3], s2, n, m) ELSE s2
  <1>2. Len(t) = Len(b) - 1 /\ t[1] = b[2] /\ (Len(b) = 3 => t[2] = b[3]) /\ N = s1
    BY <1>1
  <1>3. StagesOf(b, M, n, m) = <<M, s1, s2, s3>>
    BY <1>1 DEF StagesOf
  <1>4. StagesOf(t, s1, n, m) = <<s1, s2, s3, s3>>
    <2> HIDE DEF t, s1
    <2>1. CASE Len(b) = 2
      <3>1. Len(t) = 1 /\ s3 = s2
        BY <1>2, <2>1
      <3>2. ~(Len(t) > 1) /\ ~(Len(t) > 2)
        BY <3>1
      <3> HIDE DEF s3
      <3> DEFINE q == Len(t) > 1
                 u == Len(t) > 2
      <3>3. StagesOf(t, s1, n, m) =
              <<s1, Run(t[1], s1, n, m), IF q THEN Run(t[2], Run(t[1], s1, n, m), n, m)
                                              ELSE Run(t[1], s1, n, m),
                IF u THEN Run(t[3], IF q THEN Run(t[2], Run(t[1], s1, n, m), n, m)
                                         ELSE Run(t[1], s1, n, m), n, m)
                     ELSE IF q THEN Run(t[2], Run(t[1], s1, n, m), n, m) ELSE Run(t[1], s1, n, m)>>
        BY DEF StagesOf
      <3>4. ~q /\ ~u
        BY <3>2
      <3> HIDE DEF q, u
      <3> QED  BY <1>2, <3>1, <3>3, <3>4
    <2>2. CASE Len(b) = 3
      <3>1. Len(t) = 2
        BY <1>2, <2>2
      <3> QED  BY <1>2, <2>2, <3>1 DEF StagesOf
    <2> QED  BY <1>1, <2>1, <2>2
  <1> HIDE DEF t, s1, s2, s3
  <1> QED  BY <1>2, <1>3, <1>4 DEF t

-----------------------------------------------------------------------------
(* Steps, by what they do to the collection in view.                       *)

StepImplements == SerialInv' /\ [VK!Next]_(VK!vars)

\* Additions and removals are the steps of the versioned key.
LEMMA StepsOfVersionedKey ==
    \/ AddTo(ViewVersions, ViewVersions', ViewLatest')
    \/ RemoveFrom(ViewVersions, ViewVersions', ViewLatest')
    \/ ViewVersions' = ViewVersions /\ ViewLatest' = ViewLatest
    => [VK!Next]_(VK!vars)
  <1>1. AddTo(ViewVersions, ViewVersions', ViewLatest') => VK!Add
    BY DEF AddTo, Becomes, VK!Add, VK!Become, VK!IsNewest
  <1>2. RemoveFrom(ViewVersions, ViewVersions', ViewLatest') => VK!Remove
    BY DEF RemoveFrom, Becomes, VK!Remove, VK!Become, VK!IsNewest
  <1>3. ViewVersions' = ViewVersions /\ ViewLatest' = ViewLatest => UNCHANGED VK!vars
    BY DEF VK!vars
  <1> QED  BY <1>1, <1>2, <1>3 DEF VK!Next

\* The collection in view: with no bulk to execute the database itself.
LEMMA Views ==
    ASSUME NEW r
    PROVE  /\ Writers = {} => View = objs
           /\ Writers = {r} => View = StagesOf(bulk[r], objs, vseq[r], mode[r])[4]
           /\ Writers' = {} => View' = objs'
           /\ Writers' = {r} => View' = StagesOf(bulk'[r], objs', vseq'[r], mode'[r])[4]
           /\ ViewVersions' = Entries(View') /\ ViewLatest' = Current(View')
  <1>1. (CHOOSE w \in {r} : TRUE) = r
    OBVIOUS
  <1>2. /\ \A b, n, m : Stages(b, n, m) = StagesOf(b, objs, n, m)
        /\ \A b, n, m : Stages(b, n, m)' = StagesOf(b, objs', n, m)
    BY DEF Stages, StagesOf
  <1>3. Writers = {} => View = objs
    BY DEF View
  <1>4. Writers' = {} => View' = objs'
    BY DEF View
  <1>5. ASSUME Writers = {r} PROVE View = StagesOf(bulk[r], objs, vseq[r], mode[r])[4]
    <2>1. View = Stages(bulk[r], vseq[r], mode[r])[4]
      BY <1>1, <1>5 DEF View
    <2> QED  BY <1>2, <2>1
  <1>6. ASSUME Writers' = {r} PROVE View' = StagesOf(bulk'[r], objs', vseq'[r], mode'[r])[4]
    <2>1. View' = (Stages(bulk[r], vseq[r], mode[r])[4])'
      BY <1>1, <1>6 DEF View
    <2> QED  BY <2>1 DEF Stages, StagesOf
  <1>7. (ViewVersions = Entries(View) /\ ViewLatest = Current(View))'
    BY ViewShows, PTL
  <1>8. ViewVersions' = Entries(View') /\ ViewLatest' = Current(View')
    BY <1>7 DEF Entries, Entry, StoredIn, LatestIn, Current, Pick
  <1> QED  BY <1>3, <1>4, <1>5, <1>6, <1>8

\* What request r leaves alone.
Frame(r) == \A q \in Reqs \ {r} :
    /\ pc'[q] = pc[q] /\ op'[q] = op[q] /\ mode'[q] = mode[q] /\ bulk'[q] = bulk[q]
    /\ full'[q] = full[q]

VersioningGoesOn == versioning' = versioning \/ versioning' # "DISABLED"

\* Idle requests stay in order.
LEMMA OthersReady ==
    ASSUME SerialInv, NEW r \in Reqs, Frame(r), Busy \subseteq {r}, VersioningGoesOn, Ready(r)'
    PROVE  (\A q, s \in Busy : q = s)' /\ (\A q \in Reqs : Ready(q))'
  <1>1. ASSUME NEW q \in Reqs, q # r PROVE Ready(q)' /\ pc'[q] = "idle"
    <2>1. pc[q] = "idle"
      BY <1>1 DEF Busy
    <2>2. Ready(q)
      BY DEF SerialInv
    <2>3. full[q] /\ bulk[q] = <<>> /\ (mode[q] # "DISABLED" => versioning # "DISABLED")
      BY <2>1, <2>2 DEF Ready
    <2>4. /\ pc'[q] = "idle" /\ full'[q] /\ bulk'[q] = <<>>
          /\ (mode'[q] # "DISABLED" => versioning' # "DISABLED")
      BY <1>1, <2>1, <2>3 DEF Frame, VersioningGoesOn
    <2> QED  BY <2>4 DEF Ready, PutPath, DeletePath
  <1> QED  BY <1>1 DEF Busy

\* A step after which the key shows the same.
LEMMA SameShown ==
    ASSUME SerialInv, IInv', (\A q, r \in Busy : q = r)', (\A r \in Reqs : Ready(r))',
           Steady(objs, removed)', Alike(View, View'), seq' = seq, VersioningGoesOn
    PROVE  StepImplements
  <1>1. ViewVersions' = Entries(View') /\ ViewLatest' = Current(View')
    BY Views
  <1>2. ViewVersions' = ViewVersions /\ ViewLatest' = ViewLatest
    BY <1>1, AlikeShows, ViewShows
  <1>3. Seen(View', seq, versioning)
    BY AlikeShows DEF SerialInv
  <1>4. Seen(View', seq', versioning')
    BY <1>3 DEF Seen, VersioningGoesOn
  <1>5. Seen(View, seq, versioning)'
    BY <1>4 DEF Seen, Distinct, NewestLatest, Before, StoredIn, LatestIn, NullsIn
  <1> QED  BY <1>2, <1>5, StepsOfVersionedKey DEF StepImplements, SerialInv

\* A collection is like itself.
LEMMA AlikeItself == \A M : Alike(M, M)
  BY DEF Alike, Keeps

\* A step of request r before it issues its bulk, or without one.
LEMMA QuietStep ==
    ASSUME SerialInv, IInv', NEW r \in Reqs, Frame(r), Busy \subseteq {r},
           pc[r] # "write", pc'[r] # "write", Ready(r)', UNCHANGED <<objs, removed>>,
           seq' \in {seq, seq + 1}, VersioningGoesOn
    PROVE  StepImplements
  <1>1. Writers = {} /\ Writers' = {}
    BY DEF Writers, Busy, Frame
  <1>2. View = objs /\ View' = objs
    BY <1>1, Views
  <1>3. ViewVersions' = ViewVersions /\ ViewLatest' = ViewLatest
    BY <1>2, ViewShows, Views
  <1>4. \A o \in Objs : objs[o].version_seq \in Nat
    BY DEF SerialInv, IInv, SharedTypes, Doc
  <1>5. seq \in Nat
    BY DEF SerialInv, IInv, SharedTypes
  <1>6. Seen(objs, seq', versioning')
    <2>1. Seen(objs, seq, versioning)
      BY <1>2 DEF SerialInv
    <2>2. Before(objs, seq' + 1)
      BY <1>4, <1>5, <2>1 DEF Seen, Before, StoredIn
    <2> QED  BY <2>1, <2>2 DEF Seen, VersioningGoesOn
  <1>7. Seen(View, seq, versioning)'
    BY <1>2, <1>6 DEF Seen, Distinct, NewestLatest, Before, StoredIn, LatestIn, NullsIn
  <1>8. Steady(objs, removed)'
    BY DEF SerialInv, Steady, Distinct, Tidy, StoredIn
  <1>9. (\A q, s \in Busy : q = s)' /\ (\A q \in Reqs : Ready(q))'
    BY OthersReady
  <1> QED  BY <1>3, <1>7, <1>8, <1>9, StepsOfVersionedKey DEF StepImplements, SerialInv

\* A request ends without a bulk.
LEMMA QuietEnd ==
    ASSUME SerialInv, IInv', NEW r \in Reqs, Busy \subseteq {r}, pc[r] # "write", End(r),
           UNCHANGED <<objs, seq, removed, versioning>>
    PROVE  StepImplements
  <1>1. /\ Frame(r) /\ pc'[r] = "idle" /\ mode'[r] = "DISABLED" /\ bulk'[r] = <<>>
        /\ full'[r] = TRUE
    BY DEF SerialInv, IInv, RequestTypes, End, Frame
  <1>2. Ready(r)'
    BY <1>1 DEF Ready, PutPath, DeletePath
  <1> QED  BY <1>1, <1>2, QuietStep DEF VersioningGoesOn

\* The bulk of a request is issued: the commit point.
LEMMA IssueStep ==
    ASSUME SerialInv, IInv', NEW r \in Reqs, Frame(r), Busy \subseteq {r},
           pc[r] \notin {"idle", "write"}, pc'[r] = "write",
           UNCHANGED <<objs, removed, versioning>>, seq' \in {seq, seq + 1},
           op'[r] = op[r], mode'[r] = mode[r], full'[r] = full[r],
           op[r] = "abort" => /\ obj'[r] = obj[r]
                              /\ bulk'[r] = <<Do("delete_by_id", obj[r])>>,
           NEW N, Leads(bulk'[r], objs, N, vseq'[r], mode[r], Removing(r)),
           \/ seq' = seq /\ Alike(objs, N)
           \/ seq' = seq /\ \E v : Dropped(objs, N, v) /\ NewestLatest(N)
           \/ \E v : Added(objs, N, seq', mode[r] = "ENABLED", v)
    PROVE  StepImplements
  <1>1. Writers = {} /\ Writers' = {r}
    BY DEF Writers, Busy, Frame
  <1>2. View = objs /\ View' = N
    BY <1>1, Views DEF Leads
  <1>3. /\ objs \in [Objs -> Doc] /\ N \in [Objs -> Doc] /\ Distinct(N) /\ seq \in Nat
        /\ Seen(objs, seq, versioning)
    <2>1. 4 \in 2..4
      OBVIOUS
    <2> QED  BY <1>2, <2>1 DEF SerialInv, IInv, SharedTypes, Leads, Steady
  <1>4. Ready(r)
    BY DEF SerialInv
  <1>5. Ready(r)'
    <2>1. op'[r] = "abort" => full'[r]
      BY <1>4 DEF Ready
    <2>2. mode'[r] # "DISABLED" => versioning' # "DISABLED"
      BY <1>4 DEF Ready
    <2>3. Removing(r)' = Removing(r)
      BY DEF Removing
    <2>4. \A i \in 2..4 : Steady(StagesOf(bulk'[r], objs', vseq'[r], mode'[r])[i], Removing(r)')
      BY <2>3 DEF Leads
    <2>5. (\A i \in 2..4 : Steady(StagesOf(bulk[r], objs, vseq[r], mode[r])[i], Removing(r)))'
      BY <2>4 DEF Steady, Distinct, Tidy, StoredIn, StagesOf, Run
    <2>6. op'[r] = "abort" => bulk'[r] = <<Do("delete_by_id", obj'[r])>>
      OBVIOUS
    <2> QED  BY <2>1, <2>2, <2>5, <2>6 DEF Ready, PutPath, DeletePath
  <1>6. (\A q, s \in Busy : q = s)' /\ (\A q \in Reqs : Ready(q))'
    BY <1>5, OthersReady DEF VersioningGoesOn
  <1>7. Steady(objs, removed)'
    BY DEF SerialInv, Steady, Distinct, Tidy, StoredIn
  <1>8. CASE seq' = seq /\ Alike(objs, N)
    BY <1>2, <1>6, <1>7, <1>8, SameShown DEF VersioningGoesOn
  <1>9. ASSUME Seen(N, seq', versioning),
               \/ AddTo(Entries(objs), Entries(N), Current(N))
               \/ RemoveFrom(Entries(objs), Entries(N), Current(N))
        PROVE  StepImplements
    <2>1. Seen(View, seq, versioning)'
      BY <1>2, <1>9 DEF Seen, Distinct, NewestLatest, Before, StoredIn, LatestIn, NullsIn
    <2>2. /\ ViewVersions = Entries(objs) /\ ViewVersions' = Entries(N)
          /\ ViewLatest' = Current(N)
      BY <1>2, ViewShows, Views
    <2>3. [VK!Next]_(VK!vars)
      BY <1>9, <2>2, StepsOfVersionedKey
    <2> QED  BY <1>6, <1>7, <2>1, <2>3 DEF StepImplements, SerialInv
  <1>10. CASE seq' = seq /\ \E v : Dropped(objs, N, v) /\ NewestLatest(N)
    BY <1>3, <1>9, <1>10, DroppedShows
  <1>11. ASSUME NEW v, Added(objs, N, seq', mode[r] = "ENABLED", v) PROVE StepImplements
    <2> DEFINE e == mode[r] = "ENABLED"
    <2>1. versioning = "DISABLED" => ~e /\ StoredIn(objs) \subseteq NullsIn(objs)
      <3>1. versioning = "DISABLED" => mode[r] = "DISABLED"
        BY <1>4 DEF Ready
      <3> QED  BY <1>3, <3>1 DEF Seen
    <2>2. e \in BOOLEAN /\ Added(objs, N, seq', e, v)
      BY <1>11
    <2>3. seq' \in Nat /\ versioning \in {"DISABLED", "ENABLED", "SUSPENDED"}
      BY <1>3 DEF SerialInv, IInv, SharedTypes
    <2> HIDE DEF e
    <2>4. AddTo(Entries(objs), Entries(N), Current(N)) /\ Seen(N, seq', versioning)
      BY <1>3, <2>1, <2>2, <2>3, AddedShows
    <2> QED  BY <1>9, <2>4
  <1> QED  BY <1>8, <1>10, <1>11

-----------------------------------------------------------------------------
(* The operations of a bulk are executed.                                  *)

\* No index stands in the way of an operation that leaves a steady collection.
LEMMA NoConflict ==
    ASSUME NEW M \in [Objs -> Doc], NEW w \in DbOp, NEW n \in Nat, NEW m,
           NEW N, N = Run(w, M, n, m), Distinct(N)
    PROVE  ~Conflicts(w.id, N[w.id], M)
  <1>1. w.id \in Objs /\ \A p \in Objs \ {w.id} : N[p] = M[p]
    BY DEF DbOp, Run
  <1>2. SUFFICES ASSUME NEW p \in Objs \ {w.id}, Collide(N[w.id], M[p]) PROVE FALSE
    BY DEF Conflicts
  <1>3. N[p] = M[p] /\ w.id \in StoredIn(N) /\ p \in StoredIn(N)
    BY <1>1, <1>2 DEF Collide, StoredIn
  <1> QED  BY <1>2, <1>3 DEF Collide, Distinct

\* From stage to stage of a bulk.
LEMMA StageRuns ==
    ASSUME NEW b, IsBulk(b, 3), b # <<>>, NEW M \in [Objs -> Doc], NEW n \in Nat, NEW m,
           NEW i \in 1..Len(b)
    PROVE  /\ i + 1 \in 2..4 /\ b[i] \in DbOp /\ StagesOf(b, M, n, m)[i] \in [Objs -> Doc]
           /\ StagesOf(b, M, n, m)[i + 1] = Run(b[i], StagesOf(b, M, n, m)[i], n, m)
  <1> DEFINE l == Len(b)
             s1 == Run(b[1], M, n, m)
             s2 == IF l > 1 THEN Run(b[2], s1, n, m) ELSE s1
             s3 == IF l > 2 THEN Run(b[3], s2, n, m) ELSE s2
  <1>1. l \in Nat /\ l <= 3 /\ b \in Seq(DbOp) /\ i \in 1..l
    BY LenProperties DEF IsBulk
  <1>2. \A j \in 1..l : b[j] \in DbOp
    BY <1>1
  <1>3. StagesOf(b, M, n, m) = <<M, s1, s2, s3>>
    BY DEF StagesOf
  <1> HIDE DEF l
  <1>4. i = 1 \/ (i = 2 /\ l > 1) \/ (i = 3 /\ l > 2)
    BY <1>1
  <1>5. 1 \in 1..l /\ (l > 1 => 2 \in 1..l) /\ (l > 2 => 3 \in 1..l)
    BY <1>1
  <1>6. s1 \in [Objs -> Doc]
    BY <1>2, <1>5, RunType
  <1>7. l > 1 => s2 = Run(b[2], s1, n, m) /\ s2 \in [Objs -> Doc]
    BY <1>2, <1>5, <1>6, RunType
  <1>8. l > 2 => s3 = Run(b[3], s2, n, m)
    BY Zenon
  <1>9. i + 1 \in 2..4 /\ b[i] \in DbOp
    BY <1>1, <1>2, <1>4
  <1>10. s1 = Run(b[1], M, n, m)
    OBVIOUS
  <1> HIDE DEF s1, s2, s3
  <1>11. CASE i = 1
    BY <1>3, <1>9, <1>10, <1>11
  <1>12. CASE i = 2 /\ l > 1
    BY <1>3, <1>6, <1>7, <1>9, <1>12
  <1>13. CASE i = 3 /\ l > 2
    <2>1. l > 1
      BY <1>1, <1>13
    <2> QED  BY <1>3, <1>7, <1>8, <1>9, <1>13, <2>1
  <1> QED  BY <1>4, <1>11, <1>12, <1>13

\* What is known of a request that executes its bulk.
LEMMA Writing ==
    ASSUME SerialInv, NEW r \in Reqs, pc[r] = "write"
    PROVE  /\ Busy \subseteq {r} /\ Writers = {r} /\ Ready(r)
           /\ IsBulk(bulk[r], 3) /\ bulk[r] # <<>> /\ objs \in [Objs -> Doc]
           /\ vseq[r] \in Nat
           /\ View = StagesOf(bulk[r], objs, vseq[r], mode[r])[4]
           /\ \A i \in 2..4 : Steady(StagesOf(bulk[r], objs, vseq[r], mode[r])[i], Removing(r))
  <1>1. Busy \subseteq {r} /\ Writers = {r}
    BY DEF SerialInv, Busy, Writers
  <1>2. Ready(r) /\ ReqInv(r) /\ objs \in [Objs -> Doc] /\ vseq[r] \in Nat
    BY DEF SerialInv, IInv, SharedTypes, RequestTypes
  <1>3. IsBulk(bulk[r], 3) /\ bulk[r] # <<>>
    BY <1>2 DEF ReqInv
  <1>4. \A i \in 2..4 : Steady(StagesOf(bulk[r], objs, vseq[r], mode[r])[i], Removing(r))
    BY <1>2 DEF Ready
  <1> QED  BY <1>1, <1>2, <1>3, <1>4, Views

\* The last operation is executed, or the transaction committed, and the reply sent.
LEMMA WriteEnds ==
    ASSUME SerialInv, IInv', NEW r \in Reqs, pc[r] = "write", NEW ok, Reply(r, ok),
           objs' = View, UNCHANGED <<seq, versioning>>, op[r] = "abort" => ok
    PROVE  StepImplements
  <1>1. /\ Busy \subseteq {r} /\ Ready(r) /\ View = StagesOf(bulk[r], objs, vseq[r], mode[r])[4]
        /\ Steady(View, Removing(r))
    <2>1. 4 \in 2..4
      OBVIOUS
    <2> QED  BY <2>1, Writing
  <1>2. /\ Frame(r) /\ pc'[r] = "idle" /\ mode'[r] = "DISABLED" /\ bulk'[r] = <<>>
        /\ full'[r] = TRUE
    BY DEF SerialInv, IInv, RequestTypes, Reply, End, Frame
  <1>3. Ready(r)'
    BY <1>2 DEF Ready, PutPath, DeletePath
  <1>4. (\A q, s \in Busy : q = s)' /\ (\A q \in Reqs : Ready(q))'
    BY <1>1, <1>2, <1>3, OthersReady DEF VersioningGoesOn
  <1>5. Writers' = {}
    BY <1>1, <1>2 DEF Writers, Busy, Frame
  <1>6. View' = View
    BY <1>5, Views
  <1>7. Removing(r) \subseteq removed'
    <2>1. CASE op[r] = "abort"
      <3>1. bulk[r] = <<Do("delete_by_id", obj[r])>>
        BY <1>1, <2>1 DEF Ready
      <3>2. bulk[r][1] \in DbOp
        <4>1. bulk[r] \in Seq(DbOp) /\ Len(bulk[r]) = 1
          BY <3>1, Writing DEF IsBulk
        <4> QED  BY <4>1
      <3>3. obj[r] \in Objs
        BY <3>1, <3>2 DEF Do, DbOp
      <3>4. obj[r] # Null
        BY <3>3, NullAssumption
      <3> QED  BY <2>1, <3>4 DEF Reply, Removing, Deletes
    <2>2. CASE op[r] # "abort"
      BY <2>2 DEF Reply, Removing
    <2> QED  BY <2>1, <2>2
  <1>8. Steady(objs', removed')
    BY <1>1, <1>7 DEF Steady, Tidy
  <1>9. Steady(objs, removed)'
    BY <1>8 DEF Steady, Distinct, Tidy, StoredIn
  <1> QED  BY <1>4, <1>6, <1>9, AlikeItself, SameShown DEF VersioningGoesOn

\* MongoDB executes the first of several operations.
LEMMA WriteGoesOn ==
    ASSUME SerialInv, IInv', NEW r \in Reqs, pc[r] = "write", Len(bulk[r]) > 1,
           objs' = Run(Head(bulk[r]), objs, vseq[r], mode[r]),
           bulk' = [bulk EXCEPT ![r] = Tail(@)], NEW k, full' = [full EXCEPT ![r] = k],
           UNCHANGED <<pc, op, mode, obj, vseq, removed, seq, versioning>>
    PROVE  StepImplements
  <1> DEFINE S == StagesOf(bulk[r], objs, vseq[r], mode[r])
  <1>1. /\ Busy \subseteq {r} /\ Writers = {r} /\ Ready(r)
        /\ IsBulk(bulk[r], 3) /\ View = S[4]
        /\ Steady(S[2], Removing(r)) /\ Steady(S[3], Removing(r)) /\ Steady(S[4], Removing(r))
    <2>1. 2 \in 2..4 /\ 3 \in 2..4 /\ 4 \in 2..4
      OBVIOUS
    <2> QED  BY <2>1, Writing
  <1>2. /\ Frame(r) /\ bulk'[r] = Tail(bulk[r])
        /\ pc'[r] = "write" /\ op'[r] = op[r] /\ mode'[r] = mode[r] /\ vseq'[r] = vseq[r]
    BY DEF SerialInv, IInv, RequestTypes, Frame
  <1>3. op[r] # "abort"
    <2>1. \A o : Len(<<Do("delete_by_id", o)>>) = 1
      OBVIOUS
    <2>2. op[r] = "abort" => bulk[r] = <<Do("delete_by_id", obj[r])>>
      BY <1>1 DEF Ready
    <2>3. ~(1 > 1)
      OBVIOUS
    <2> QED  BY <2>1, <2>2, <2>3
  <1>4. StagesOf(bulk'[r], objs', vseq'[r], mode'[r]) = <<S[2], S[3], S[4], S[4]>>
    BY <1>1, <1>2, StagesTail
  <1>5. Steady(objs', removed')
    <2>1. objs' = S[2]
      <3>1. StagesOf(bulk'[r], objs', vseq'[r], mode'[r])[1] = objs'
        BY DEF StagesOf
      <3> HIDE DEF S
      <3> QED  BY <1>4, <3>1
    <2> QED  BY <1>1, <1>3, <2>1 DEF Removing
  <1>6. Removing(r)' = Removing(r)
    BY <1>2 DEF Removing
  <1> HIDE DEF S
  <1>7. \A i \in 2..4 : Steady(StagesOf(bulk'[r], objs', vseq'[r], mode'[r])[i], Removing(r)')
    <2>1. \A i \in 2..4 : i = 2 \/ i = 3 \/ i = 4
      OBVIOUS
    <2> QED  BY <1>1, <1>4, <1>6, <2>1
  <1>8. (\A i \in 2..4 : Steady(StagesOf(bulk[r], objs, vseq[r], mode[r])[i], Removing(r)))'
    BY <1>7 DEF Steady, Distinct, Tidy, StoredIn, StagesOf, Run
  <1>9. Ready(r)'
    <2>1. mode'[r] # "DISABLED" => versioning' # "DISABLED"
      BY <1>1, <1>2 DEF Ready
    <2> QED  BY <1>2, <1>3, <1>8, <2>1 DEF Ready, PutPath, DeletePath
  <1>10. (\A q, s \in Busy : q = s)' /\ (\A q \in Reqs : Ready(q))'
    BY <1>1, <1>2, <1>9, OthersReady DEF VersioningGoesOn
  <1>11. View' = View
    <2>1. Writers' = {r}
      BY <1>1 DEF Writers
    <2>2. View' = StagesOf(bulk'[r], objs', vseq'[r], mode'[r])[4]
      BY <2>1, Views
    <2> QED  BY <1>1, <1>4, <2>2
  <1>12. Steady(objs, removed)'
    BY <1>5 DEF Steady, Distinct, Tidy, StoredIn
  <1> QED  BY <1>10, <1>11, <1>12, AlikeItself, SameShown DEF VersioningGoesOn

\* Execution is invisible: the collection in view was what it leads to.
LEMMA WriteImplements ==
    ASSUME SerialInv, IInv', NEW r \in Reqs, Write(r)
    PROVE  StepImplements
  <1> DEFINE b == bulk[r]
             S == StagesOf(b, objs, vseq[r], mode[r])
  <1>0. pc[r] = "write" /\ UNCHANGED <<seq, versioning>>
    BY DEF Write, WriteMongo, WritePostgres
  <1>1. /\ IsBulk(b, 3) /\ b # <<>> /\ objs \in [Objs -> Doc] /\ vseq[r] \in Nat
        /\ View = S[4] /\ Ready(r)
        /\ \A i \in 2..4 : Distinct(S[i])
    BY <1>0, Writing DEF Steady
  <1>2. op[r] = "abort" => full[r] /\ b = <<Do("delete_by_id", obj[r])>>
    BY <1>0, <1>1 DEF Ready
  <1>3. ASSUME NEW i \in 1..Len(b)
        PROVE  /\ i + 1 \in 2..4 /\ S[i + 1] = Run(b[i], S[i], vseq[r], mode[r])
               /\ ~Conflicts(b[i].id, S[i + 1][b[i].id], S[i])
    <2>1. /\ i + 1 \in 2..4 /\ b[i] \in DbOp /\ S[i] \in [Objs -> Doc]
          /\ S[i + 1] = Run(b[i], S[i], vseq[r], mode[r])
      BY <1>1, StageRuns
    <2>2. Distinct(S[i + 1])
      BY <1>1, <2>1
    <2> HIDE DEF S, b
    <2> QED  BY <1>1, <2>1, <2>2, NoConflict
  <1>4. Len(b) \in 1..3 /\ Head(b) = b[1]
    <2>1. b \in Seq(DbOp) /\ Len(b) \in Nat /\ Len(b) <= 3 /\ Len(b) # 0 /\ Head(b) = b[1]
      BY <1>1, EmptySeq, LenProperties DEF IsBulk
    <2> DEFINE l == Len(b)
    <2>2. l \in Nat /\ l <= 3 /\ l # 0
      BY <2>1
    <2> HIDE DEF l
    <2>3. l \in 1..3
      BY <2>2
    <2> QED  BY <2>1, <2>3 DEF l
  <1>5. CASE WriteMongo(r)
    <2> DEFINE w == Head(b)
               M == Run(w, objs, vseq[r], mode[r])
               good == full[r] /\ Counted(w, objs)
    <2>1. S[1] = objs /\ S[2] = M
      <3>1. S[1] = objs
        BY DEF StagesOf
      <3>2. S[1 + 1] = Run(b[1], S[1], vseq[r], mode[r])
        BY <1>3, <1>4
      <3> QED  BY <1>4, <3>1, <3>2
    <2>2. ~Conflicts(w.id, M[w.id], objs)
      <3>1. ~Conflicts(b[1].id, S[1 + 1][b[1].id], S[1])
        BY <1>3, <1>4
      <3> HIDE DEF S, M
      <3> QED  BY <1>4, <2>1, <3>1
    <2>3. \/ objs' = M /\ Len(b) = 1 /\ Reply(r, good)
          \/ /\ objs' = M /\ Len(b) > 1 /\ bulk' = [bulk EXCEPT ![r] = Tail(@)]
             /\ full' = [full EXCEPT ![r] = good]
             /\ UNCHANGED <<pc, op, mode, obj, other, vseq, hist>>
      BY <1>5, <2>2, Zenon DEF WriteMongo
    <2>4. CASE objs' = M /\ Len(b) = 1 /\ Reply(r, good)
      <3>1. S[4] = M
        <4>1. ~(Len(b) > 1) /\ ~(Len(b) > 2)
          BY <2>4
        <4> DEFINE p == Len(b) > 1
                   q == Len(b) > 2
                   s1 == Run(b[1], objs, vseq[r], mode[r])
                   s2 == IF p THEN Run(b[2], s1, vseq[r], mode[r]) ELSE s1
                   s3 == IF q THEN Run(b[3], s2, vseq[r], mode[r]) ELSE s2
        <4>2. S = <<objs, s1, s2, s3>>
          BY DEF StagesOf
        <4>3. ~p /\ ~q
          BY <4>1
        <4> HIDE DEF p, q
        <4>4. s3 = s1
          BY <4>3
        <4>5. s1 = M
          BY <1>4
        <4> HIDE DEF S, s1, s2, s3
        <4> QED  BY <4>2, <4>4, <4>5
      <3>2. op[r] = "abort" => good
        <4>1. \A o : Head(<<Do("delete_by_id", o)>>).kind = "delete_by_id"
          BY DEF Do
        <4>2. op[r] = "abort" => w.kind = "delete_by_id"
          BY <1>2, <4>1
        <4> QED  BY <1>2, <4>2, Zenon DEF Counted
      <3> HIDE DEF good, M
      <3> QED  BY <1>0, <1>1, <2>4, <3>1, <3>2, WriteEnds
    <2>5. CASE /\ objs' = M /\ Len(b) > 1 /\ bulk' = [bulk EXCEPT ![r] = Tail(@)]
               /\ full' = [full EXCEPT ![r] = good]
               /\ UNCHANGED <<pc, op, mode, obj, other, vseq, hist>>
      <3> HIDE DEF good
      <3> QED  BY <1>0, <2>5, WriteGoesOn DEF hist
    <2> QED  BY <2>3, <2>4, <2>5
  <1>6. CASE WritePostgres(r)
    <2> DEFINE st == Stages(b, vseq[r], mode[r])
               conflict == \E i \in 1..Len(b) : Conflicts(b[i].id, st[i + 1][b[i].id], st[i])
               good == \A i \in 1..Len(b) : Counted(b[i], st[i])
    <2>1. st = S
      BY DEF Stages, StagesOf
    <2> HIDE DEF S
    <2>2. ~conflict
      BY <1>3, <2>1
    <2>3. objs' = st[4] /\ Reply(r, good)
      <3>1. \/ conflict /\ Reply(r, FALSE) /\ UNCHANGED objs
            \/ ~conflict /\ objs' = st[4] /\ Reply(r, good)
        BY <1>6, Zenon DEF WritePostgres
      <3> QED  BY <2>2, <3>1
    <2>4. op[r] = "abort" => good
      <3>1. ASSUME op[r] = "abort", NEW i \in 1..Len(b) PROVE Counted(b[i], st[i])
        <4>1. b = <<Do("delete_by_id", obj[r])>>
          BY <1>2, <3>1
        <4>2. i = 1
          BY <3>1, <4>1
        <4>3. b[i].kind = "delete_by_id"
          BY <4>1, <4>2 DEF Do
        <4> QED  BY <4>3, Zenon DEF Counted
      <3> QED  BY <3>1
    <2> HIDE DEF good, st
    <2> QED  BY <1>0, <1>1, <2>1, <2>3, <2>4, WriteEnds
  <1> QED  BY <1>5, <1>6 DEF Write

-----------------------------------------------------------------------------
(* Requests begin, read and issue their operations.                        *)

\* A request begins when no other is served.
LEMMA BeginsAlone ==
    ASSUME SerialInv, MaxInFlight <= 1, NEW r, NEW name, NEW l, NEW o, NEW n,
           Begin(r, name, l, o, n)
    PROVE  Busy = {}
  <1>1. Reqs \ Idle = Busy
    BY DEF Idle, Busy
  <1>2. SUFFICES ASSUME NEW q \in Busy PROVE FALSE
    OBVIOUS
  <1>3. Busy = {q}
    BY <1>2 DEF SerialInv
  <1>4. Cardinality(Busy) = 1
    BY <1>3, FS_Singleton
  <1> QED  BY <1>1, <1>4, BoundsAssumption DEF Begin

\* ... and then knows the bucket's versioning.
LEMMA BeginImplements ==
    ASSUME SerialInv, IInv', MaxInFlight <= 1, NEW r \in Reqs, NEW o, NEW n,
           NEW l \in {"find_upload", "abort_find", "version_read", "key_read"},
           NEW name, Begin(r, name, l, o, n),
           l = "find_upload" => name = "complete" /\ Upload(o),
           l = "abort_find" => name = "abort",
           l \in {"version_read", "key_read"} => name \in {"delete_key", "delete_version"},
           l = "version_read" => n # 0
    PROVE  StepImplements
  <1>1. Busy = {} /\ pc[r] = "idle" /\ Writers = {}
    BY BeginsAlone DEF Begin, Busy, Writers
  <1>2. View = objs
    BY <1>1, Views
  <1>3. /\ Frame(r) /\ pc'[r] = l /\ op'[r] = name /\ mode'[r] = versioning
        /\ obj'[r] = o /\ vseq'[r] = n /\ bulk'[r] = bulk[r] /\ full'[r] = full[r]
        /\ UNCHANGED <<objs, seq, removed, versioning>>
    BY DEF SerialInv, IInv, RequestTypes, Begin, Frame, db, hist
  <1>4. full[r] /\ bulk[r] = <<>>
    <2>1. Ready(r)
      BY DEF SerialInv
    <2> QED  BY <1>1, <2>1 DEF Ready
  <1>5. versioning = "DISABLED" => Stored \subseteq NullVersions
    BY <1>2 DEF SerialInv, Seen, StoredIn, NullsIn, Stored, NullVersions
  <1>6. (mode[r] = "DISABLED" => Stored \subseteq NullVersions)'
    BY <1>3, <1>5 DEF Stored, NullVersions
  <1>7. l = "find_upload" => Upload(obj[r])'
    BY <1>3 DEF Upload
  <1>8. Ready(r)'
    BY <1>3, <1>4, <1>6, <1>7 DEF Ready, PutPath, DeletePath
  <1> QED  BY <1>1, <1>3, <1>8, QuietStep DEF VersioningGoesOn

\* What a request knows before it issues its bulk.
LEMMA Reading ==
    ASSUME SerialInv, NEW r \in Reqs, pc[r] \notin {"idle", "write"}
    PROVE  /\ Busy \subseteq {r} /\ Ready(r) /\ objs \in [Objs -> Doc] /\ seq \in Nat
           /\ vseq[r] \in Nat /\ mode[r] \in {"DISABLED", "ENABLED", "SUSPENDED"}
           /\ Steady(objs, removed) /\ Seen(objs, seq, versioning)
           /\ Stored = StoredIn(objs) /\ Latest = LatestIn(objs) /\ NullVersions = NullsIn(objs)
           /\ \A f, g \in Latest : f = g
           /\ \A f, g \in NullVersions : f = g
           /\ Stored # {} => Latest # {}
           /\ Latest \subseteq Stored /\ NullVersions \subseteq Stored /\ Stored \subseteq Objs
  <1>1. Busy \subseteq {r} /\ Writers = {}
    BY DEF SerialInv, Busy, Writers
  <1>2. Seen(objs, seq, versioning)
    BY <1>1, Views DEF SerialInv
  <1>3. Stored = StoredIn(objs) /\ Latest = LatestIn(objs) /\ NullVersions = NullsIn(objs)
    BY DEF Stored, Latest, NullVersions, StoredIn, LatestIn, NullsIn
  <1>4. /\ \A f, g \in Latest : f = g
        /\ \A f, g \in NullVersions : f = g
        /\ Stored # {} => Latest # {}
    BY <1>2, <1>3 DEF Seen, Distinct, NewestLatest, LatestIn, NullsIn
  <1>5. Latest \subseteq Stored /\ NullVersions \subseteq Stored /\ Stored \subseteq Objs
    BY DEF Latest, NullVersions, Stored
  <1>6. /\ Ready(r) /\ objs \in [Objs -> Doc] /\ seq \in Nat /\ Steady(objs, removed)
        /\ vseq[r] \in Nat /\ mode[r] \in {"DISABLED", "ENABLED", "SUSPENDED"}
    BY DEF SerialInv, IInv, SharedTypes, RequestTypes
  <1> QED  BY <1>1, <1>2, <1>3, <1>4, <1>5, <1>6

\* The locals of a request that goes on, to l, with the bulk b.
LEMMA GotoFrame ==
    ASSUME SerialInv, NEW r \in Reqs, NEW l, Goto(r, l), NEW b,
           \/ bulk' = bulk /\ b = bulk[r]
           \/ bulk' = [bulk EXCEPT ![r] = b]
    PROVE  /\ Frame(r) /\ pc'[r] = l /\ op'[r] = op[r] /\ mode'[r] = mode[r]
           /\ full'[r] = full[r] /\ bulk'[r] = b /\ UNCHANGED <<removed, versioning>>
  BY DEF SerialInv, IInv, RequestTypes, Goto, Frame, hist

\* What a query returns.
LEMMA Found ==
    ASSUME NEW S, S \subseteq Objs, NEW f \in FindOne(S)
    PROVE  (f = Null => S = {}) /\ (f # Null => f \in S)
  BY NullAssumption DEF FindOne

\* The upload is still there: there is one request at a time.
LEMMA FindUploadImplements ==
    ASSUME SerialInv, IInv', NEW r \in Reqs, FindUpload(r)
    PROVE  StepImplements
  <1> DEFINE o == obj[r]
             md == IF cache[o].exists THEN cache[o] ELSE objs[o]
  <1>1. pc[r] = "find_upload" /\ Busy \subseteq {r} /\ Ready(r)
    BY Reading DEF FindUpload
  <1>2. CASE IsLive(md) /\ md.upload_started
    <2>1. Goto(r, "alloc_version") /\ UNCHANGED <<db, obj, other, vseq, bulk>>
      BY <1>2 DEF FindUpload
    <2>2. /\ Frame(r) /\ pc'[r] = "alloc_version" /\ op'[r] = op[r] /\ mode'[r] = mode[r]
          /\ full'[r] = full[r] /\ bulk'[r] = bulk[r] /\ UNCHANGED <<removed, versioning>>
      BY <2>1, GotoFrame
    <2>3. Upload(obj[r])' /\ (mode[r] = "DISABLED" => Stored \subseteq NullVersions)'
      BY <1>1, <2>1, <2>2 DEF Ready, PutPath, Upload, Stored, NullVersions, db
    <2>4. Ready(r)'
      BY <1>1, <2>2, <2>3 DEF Ready, PutPath, DeletePath
    <2> QED  BY <1>1, <2>1, <2>2, <2>4, QuietStep DEF VersioningGoesOn, db
  <1>3. CASE ~(IsLive(md) /\ md.upload_started)
    <2>1. End(r) /\ UNCHANGED <<db, versioning, hist>>
      BY <1>3 DEF FindUpload
    <2> QED  BY <1>1, <2>1, QuietEnd DEF db, hist
  <1> QED  BY <1>2, <1>3

\* A request that finds no document of the sequence inserts the first one.
OneDocument == ~forked /\ \A q \in unseen : q \in Busy /\ seq = 0

LEMMA AllocNumber ==
    ASSUME SerialInv, OneDocument, NEW r \in Reqs, Alloc(r)
    PROVE  seq' = seq + 1 /\ vseq'[r] = seq + 1 /\ ~forked'
  <1>1. vseq \in [Reqs -> Nat]
    BY DEF SerialInv, IInv, RequestTypes
  <1>2. CASE NextNumber(r)
    BY <1>1, <1>2 DEF NextNumber, OneDocument
  <1>3. CASE FirstNumber(r)
    <2>1. seq = 0 /\ ~forked
      BY <1>3 DEF FirstNumber, OneDocument
    <2>2. seq' = 1 /\ vseq'[r] = 1
      BY <1>1, <1>3, <2>1 DEF FirstNumber
    <2>3. ~forked'
      BY <1>3, <2>1, Zenon DEF FirstNumber
    <2> QED  BY <2>1, <2>2, <2>3
  <1> QED  BY <1>2, <1>3 DEF Alloc

\* A number above those of the versions.
LEMMA AllocVersionImplements ==
    ASSUME SerialInv, OneDocument, IInv', NEW r \in Reqs, AllocVersion(r)
    PROVE  StepImplements
  <1>1. /\ pc[r] = "alloc_version" /\ Busy \subseteq {r} /\ Ready(r) /\ Seen(objs, seq, versioning)
        /\ objs \in [Objs -> Doc] /\ seq \in Nat
    BY Reading DEF AllocVersion
  <1>2. seq' = seq + 1 /\ vseq'[r] = seq + 1 /\ UNCHANGED <<objs, obj, bulk>>
    BY AllocNumber DEF AllocVersion
  <1>3. /\ Frame(r) /\ pc'[r] = "put_read" /\ op'[r] = op[r] /\ mode'[r] = mode[r]
        /\ full'[r] = full[r] /\ bulk'[r] = bulk[r] /\ UNCHANGED <<removed, versioning>>
    BY <1>2, GotoFrame DEF AllocVersion
  <1>4. Upload(obj[r])' /\ (mode[r] = "DISABLED" => Stored \subseteq NullVersions)'
    BY <1>1, <1>2, <1>3 DEF Ready, PutPath, Upload, Stored, NullVersions
  <1>5. Before(objs, seq)'
    BY <1>1, <1>2 DEF Seen, Before, StoredIn
  <1>6. Ready(r)'
    BY <1>1, <1>2, <1>3, <1>4, <1>5 DEF Ready, PutPath, DeletePath
  <1> QED  BY <1>1, <1>2, <1>3, <1>6, QuietStep DEF VersioningGoesOn

\* A put issues its operations, the last of which completes the upload.
LEMMA PutIssues ==
    ASSUME SerialInv, IInv', NEW r \in Reqs, pc[r] \in {"put_read", "put_latest"},
           NEW k \in Puts, NEW b, Prepares(b, mode[r] = "ENABLED", objs),
           Issue(r, Append(b, Do(k, obj[r]))), UNCHANGED <<objs, seq, vseq>>
    PROVE  StepImplements
  <1> DEFINE w == Do(k, obj[r])
             e == mode[r] = "ENABLED"
  <1>1. /\ Busy \subseteq {r} /\ Ready(r) /\ objs \in [Objs -> Doc] /\ seq \in Nat
        /\ Steady(objs, removed)
    BY Reading
  <1>2. /\ op[r] = "complete" /\ Upload(obj[r]) /\ vseq[r] = seq /\ Before(objs, seq)
    BY <1>1 DEF Ready, PutPath
  <1>3. Newcomer(w, e, objs, mode[r])
    BY <1>2 DEF Newcomer, Do, Upload
  <1>4. e \in BOOLEAN /\ Removing(r) = removed
    BY <1>2 DEF Removing
  <1>5. bulk' = [bulk EXCEPT ![r] = Append(b, w)] /\ Goto(r, "write")
    BY DEF Issue
  <1> HIDE DEF w
  <1>6. /\ Frame(r) /\ pc'[r] = "write" /\ op'[r] = op[r] /\ mode'[r] = mode[r]
        /\ full'[r] = full[r] /\ bulk'[r] = Append(b, w) /\ UNCHANGED <<removed, versioning>>
    BY <1>5, GotoFrame
  <1> HIDE DEF e
  <1>7. Prepares(b, e, objs)
    BY DEF e
  <1>8. PICK N : Leads(Append(b, w), objs, N, seq, mode[r], removed) /\ Added(objs, N, seq, e, w.id)
    BY <1>1, <1>2, <1>3, <1>4, <1>7, BulkAdds
  <1>9. Leads(bulk'[r], objs, N, vseq'[r], mode[r], Removing(r))
    BY <1>2, <1>4, <1>6, <1>8
  <1>10. \E v : Added(objs, N, seq', mode[r] = "ENABLED", v)
    BY <1>8 DEF e
  <1> QED  BY <1>1, <1>2, <1>6, <1>9, <1>10, IssueStep

\* The first read of a put.
LEMMA PutReadImplements ==
    ASSUME SerialInv, IInv', NEW r \in Reqs, PutRead(r)
    PROVE  StepImplements
  <1> DEFINE S == IF mode[r] = "ENABLED" THEN Latest ELSE NullVersions
             e == mode[r] = "ENABLED"
  <1>1. /\ pc[r] = "put_read" /\ Busy \subseteq {r} /\ Ready(r)
        /\ mode[r] \in {"DISABLED", "ENABLED", "SUSPENDED"}
        /\ Latest = LatestIn(objs) /\ NullVersions = NullsIn(objs)
        /\ \A f, g \in NullVersions : f = g
        /\ Stored # {} => Latest # {}
        /\ Latest \subseteq Stored /\ NullVersions \subseteq Stored /\ Stored \subseteq Objs
    BY Reading DEF PutRead
  <1>2. mode[r] = "DISABLED" => Stored \subseteq NullVersions
    BY <1>1 DEF Ready
  <1>3. UNCHANGED <<objs, seq, obj, vseq>>
    BY DEF PutRead, db
  <1>4. PICK f \in FindOne(S) :
        \/ /\ f = Null /\ mode[r] # "SUSPENDED"
           /\ Issue(r, <<Do("put_by_id", obj[r])>>)
        \/ /\ f # Null /\ mode[r] = "ENABLED"
           /\ Issue(r, <<Do("unset_latest", f), Do("put", obj[r])>>)
        \/ /\ f # Null /\ mode[r] # "ENABLED"
           /\ mode[r] = "SUSPENDED" => ~objs[f].version_past
           /\ Issue(r, <<Do("delete_and_unset_latest", f), Do("put", obj[r])>>)
        \/ /\ mode[r] = "SUSPENDED"
           /\ f # Null => objs[f].version_past
           /\ Goto(r, "put_latest")
           /\ other' = [other EXCEPT ![r] = f]
           /\ UNCHANGED bulk
    BY DEF PutRead
  <1>5. (f = Null => S = {}) /\ (f # Null => f \in S)
    BY <1>1, Found
  <1>6. ASSUME NEW k \in Puts, NEW b, Prepares(b, e, objs), Issue(r, Append(b, Do(k, obj[r])))
        PROVE  StepImplements
    BY <1>1, <1>3, <1>6, PutIssues
  <1>7. CASE f = Null /\ mode[r] # "SUSPENDED" /\ Issue(r, <<Do("put_by_id", obj[r])>>)
    <2>1. Latest = {} /\ (~e => NullVersions = {})
      BY <1>1, <1>2, <1>5, <1>7
    <2>2. Prepares(<<>>, e, objs)
      BY <1>1, <2>1 DEF Prepares
    <2>3. Append(<<>>, Do("put_by_id", obj[r])) = <<Do("put_by_id", obj[r])>>
      BY AppendTuples
    <2> HIDE DEF e
    <2> QED  BY <1>6, <1>7, <2>2, <2>3 DEF Puts
  <1>8. CASE /\ f # Null /\ mode[r] = "ENABLED"
             /\ Issue(r, <<Do("unset_latest", f), Do("put", obj[r])>>)
    <2>1. Prepares(<<Do("unset_latest", f)>>, e, objs)
      BY <1>1, <1>5, <1>8 DEF Prepares
    <2>2. Append(<<Do("unset_latest", f)>>, Do("put", obj[r]))
            = <<Do("unset_latest", f), Do("put", obj[r])>>
      BY AppendTuples
    <2> HIDE DEF e
    <2> QED  BY <1>6, <1>8, <2>1, <2>2 DEF Puts
  <1>9. CASE /\ f # Null /\ mode[r] # "ENABLED"
             /\ mode[r] = "SUSPENDED" => ~objs[f].version_past
             /\ Issue(r, <<Do("delete_and_unset_latest", f), Do("put", obj[r])>>)
    <2>1. f \in NullVersions /\ f \in Stored
      BY <1>1, <1>5, <1>9
    <2>2. f \in Latest
      <3>1. CASE mode[r] = "DISABLED"
        BY <1>1, <1>2, <2>1, <3>1
      <3>2. CASE mode[r] = "SUSPENDED"
        BY <1>9, <2>1, <3>2 DEF Latest
      <3> QED  BY <1>1, <1>9, <3>1, <3>2
    <2>3. Prepares(<<Do("delete_and_unset_latest", f)>>, e, objs)
      BY <1>1, <1>9, <2>1, <2>2 DEF Prepares
    <2>4. Append(<<Do("delete_and_unset_latest", f)>>, Do("put", obj[r]))
            = <<Do("delete_and_unset_latest", f), Do("put", obj[r])>>
      BY AppendTuples
    <2> HIDE DEF e
    <2> QED  BY <1>6, <1>9, <2>3, <2>4 DEF Puts
  <1>10. CASE /\ mode[r] = "SUSPENDED" /\ (f # Null => objs[f].version_past)
              /\ Goto(r, "put_latest") /\ other' = [other EXCEPT ![r] = f] /\ UNCHANGED bulk
    <2>1. /\ Frame(r) /\ pc'[r] = "put_latest" /\ op'[r] = op[r] /\ mode'[r] = mode[r]
          /\ full'[r] = full[r] /\ bulk'[r] = bulk[r] /\ UNCHANGED <<removed, versioning>>
      BY <1>10, GotoFrame
    <2>2. other'[r] = f
      BY <1>10 DEF SerialInv, IInv, RequestTypes
    <2>3. NullKnown(f)
      BY <1>5, <1>10 DEF NullKnown
    <2>4. NullKnown(other[r])'
      BY <1>3, <2>2, <2>3 DEF NullKnown, NullVersions, Stored
    <2>5. Upload(obj[r])' /\ Before(objs, seq)'
      BY <1>1, <1>3 DEF Ready, PutPath, Upload, Before, StoredIn
    <2>6. Ready(r)'
      BY <1>1, <1>3, <1>10, <2>1, <2>4, <2>5 DEF Ready, PutPath, DeletePath
    <2> QED  BY <1>1, <1>3, <2>1, <2>6, QuietStep DEF VersioningGoesOn
  <1> QED  BY <1>4, <1>7, <1>8, <1>9, <1>10

\* The second read, in a suspended bucket.
LEMMA PutLatestImplements ==
    ASSUME SerialInv, IInv', NEW r \in Reqs, PutLatest(r)
    PROVE  StepImplements
  <1> DEFINE e == mode[r] = "ENABLED"
             x == other[r]
  <1>1. /\ pc[r] = "put_latest" /\ Ready(r)
        /\ Latest = LatestIn(objs) /\ NullVersions = NullsIn(objs)
        /\ Stored # {} => Latest # {}
        /\ Latest \subseteq Stored /\ NullVersions \subseteq Stored /\ Stored \subseteq Objs
    BY Reading DEF PutLatest
  <1>2. mode[r] = "SUSPENDED" /\ NullKnown(x)
    BY <1>1 DEF Ready
  <1>3. UNCHANGED <<objs, seq, obj, vseq>>
    BY DEF PutLatest, db
  <1>4. PICK f \in FindOne(Latest) :
          Issue(r, CASE f = Null -> <<Do("put_by_id", obj[r])>>
                     [] f # Null /\ x = Null -> <<Do("unset_latest", f), Do("put", obj[r])>>
                     [] OTHER -> <<Do("delete", x), Do("unset_latest", f), Do("put", obj[r])>>)
    BY DEF PutLatest
  <1>5. (f = Null => Latest = {}) /\ (f # Null => f \in Latest)
    BY <1>1, Found
  <1>6. ASSUME NEW k \in Puts, NEW b, Prepares(b, e, objs), Issue(r, Append(b, Do(k, obj[r])))
        PROVE  StepImplements
    BY <1>1, <1>3, <1>6, PutIssues
  <1>7. CASE f = Null
    <2>1. Prepares(<<>>, e, objs)
      BY <1>1, <1>5, <1>7 DEF Prepares
    <2>2. Append(<<>>, Do("put_by_id", obj[r])) = <<Do("put_by_id", obj[r])>>
      BY AppendTuples
    <2>3. Issue(r, <<Do("put_by_id", obj[r])>>)
      BY <1>4, <1>7
    <2> HIDE DEF e
    <2> QED  BY <1>6, <2>1, <2>2, <2>3 DEF Puts
  <1>8. CASE f # Null /\ x = Null
    <2>1. Prepares(<<Do("unset_latest", f)>>, e, objs)
      BY <1>1, <1>2, <1>5, <1>8 DEF Prepares, NullKnown
    <2>2. Append(<<Do("unset_latest", f)>>, Do("put", obj[r]))
            = <<Do("unset_latest", f), Do("put", obj[r])>>
      BY AppendTuples
    <2>3. Issue(r, <<Do("unset_latest", f), Do("put", obj[r])>>)
      BY <1>4, <1>8
    <2> HIDE DEF e
    <2> QED  BY <1>6, <2>1, <2>2, <2>3 DEF Puts
  <1>9. CASE f # Null /\ x # Null
    <2>1. x \in NullVersions /\ x # f /\ ~e
      BY <1>2, <1>5, <1>9 DEF NullKnown, Latest
    <2>2. Prepares(<<Do("delete", x), Do("unset_latest", f)>>, e, objs)
      <3> HIDE DEF e, x
      <3> QED  BY <1>1, <1>5, <1>9, <2>1 DEF Prepares
    <2>3. Append(<<Do("delete", x), Do("unset_latest", f)>>, Do("put", obj[r]))
            = <<Do("delete", x), Do("unset_latest", f), Do("put", obj[r])>>
      BY AppendTuples
    <2>4. Issue(r, <<Do("delete", x), Do("unset_latest", f), Do("put", obj[r])>>)
      BY <1>4, <1>9
    <2> HIDE DEF e
    <2> QED  BY <1>6, <2>2, <2>3, <2>4 DEF Puts
  <1> QED  BY <1>7, <1>8, <1>9

\* abort_object_upload
LEMMA AbortFindImplements ==
    ASSUME SerialInv, IInv', NEW r \in Reqs, AbortFind(r)
    PROVE  StepImplements
  <1> DEFINE o == obj[r]
             b == <<Do("delete_by_id", o)>>
  <1>1. /\ pc[r] = "abort_find" /\ Busy \subseteq {r} /\ Ready(r) /\ objs \in [Objs -> Doc]
        /\ vseq[r] \in Nat /\ Steady(objs, removed)
    BY Reading DEF AbortFind
  <1>2. op[r] = "abort" /\ o \in Objs
    BY <1>1 DEF Ready, SerialInv, IInv, ReqInv, HasObject
  <1>3. CASE IsLive(objs[o]) /\ objs[o].upload_started
    <2>1. Issue(r, b) /\ UNCHANGED <<db, cache, obj, other, vseq>>
      BY <1>3 DEF AbortFind
    <2>2. bulk' = [bulk EXCEPT ![r] = b] /\ Goto(r, "write")
      BY <2>1 DEF Issue
    <2>3. PICK N : Leads(b, objs, N, vseq[r], mode[r], removed \cup {o}) /\ Alike(objs, N)
      BY <1>1, <1>2, <1>3, BulkAborts
    <2>4. b = <<Do("delete_by_id", obj[r])>>
      OBVIOUS
    <2> HIDE DEF b
    <2>5. /\ Frame(r) /\ pc'[r] = "write" /\ op'[r] = op[r] /\ mode'[r] = mode[r]
          /\ full'[r] = full[r] /\ bulk'[r] = b /\ UNCHANGED <<removed, versioning>>
      BY <2>2, GotoFrame
    <2>6. Leads(bulk'[r], objs, N, vseq'[r], mode[r], Removing(r))
      BY <1>2, <2>1, <2>3, <2>5 DEF Removing
    <2>7. obj'[r] = obj[r] /\ UNCHANGED <<objs, seq>>
      BY <2>1 DEF db
    <2>8. bulk'[r] = <<Do("delete_by_id", obj[r])>>
      BY <2>4, <2>5
    <2> QED  BY <1>1, <2>3, <2>5, <2>6, <2>7, <2>8, IssueStep
  <1>4. CASE ~(IsLive(objs[o]) /\ objs[o].upload_started)
    <2>1. End(r) /\ UNCHANGED <<db, cache, versioning, hist>>
      BY <1>4 DEF AbortFind
    <2> QED  BY <1>1, <2>1, QuietEnd DEF db, hist
  <1> QED  BY <1>3, <1>4

\* A deletion issues its operations.
LEMMA DropIssues ==
    ASSUME SerialInv, IInv', NEW r \in Reqs, pc[r] \in DeletePath,
           NEW b, Issue(r, b), UNCHANGED <<objs, seq, vseq>>,
           NEW N, NEW f, Leads(b, objs, N, vseq[r], mode[r], removed),
           Dropped(objs, N, f), NewestLatest(N)
    PROVE  StepImplements
  <1>1. Busy \subseteq {r} /\ Ready(r) /\ pc[r] \notin {"idle", "write"}
    BY Reading DEF DeletePath
  <1>2. op[r] # "abort" /\ Removing(r) = removed
    BY <1>1 DEF Ready, Removing
  <1>3. /\ Frame(r) /\ pc'[r] = "write" /\ op'[r] = op[r] /\ mode'[r] = mode[r]
        /\ full'[r] = full[r] /\ bulk'[r] = b /\ UNCHANGED <<removed, versioning>>
    BY GotoFrame DEF Issue
  <1>4. Leads(bulk'[r], objs, N, vseq'[r], mode[r], Removing(r))
    BY <1>2, <1>3
  <1> QED  BY <1>1, <1>2, <1>3, <1>4, IssueStep

\* The version a delete names.
LEMMA VersionReadImplements ==
    ASSUME SerialInv, IInv', NEW r \in Reqs, VersionRead(r)
    PROVE  StepImplements
  <1>1. /\ pc[r] = "version_read" /\ Busy \subseteq {r} /\ Ready(r) /\ objs \in [Objs -> Doc]
        /\ vseq[r] \in Nat /\ Steady(objs, removed) /\ NewestLatest(objs)
        /\ Stored = StoredIn(objs) /\ Latest = LatestIn(objs)
    BY Reading DEF VersionRead, Seen
  <1>2. vseq[r] # 0
    BY <1>1 DEF Ready
  <1>3. PICK f \in IF mode[r] = "DISABLED" THEN {Null} ELSE FindOne(ByVersion(vseq[r])) :
        \/ /\ f = Null
           /\ End(r)
           /\ UNCHANGED <<db, cache, versioning, hist>>
        \/ /\ f # Null
           /\ obj' = [obj EXCEPT ![r] = f]
           /\ \/ mode[r] = "DISABLED"
                 /\ Issue(r, <<Do("delete_and_unset_latest", f)>>)
              \/ mode[r] # "DISABLED" /\ objs[f].version_past
                 /\ Issue(r, <<Do("delete_by_id", f)>>)
              \/ mode[r] # "DISABLED" /\ ~objs[f].version_past
                 /\ Goto(r, "version_prev")
                 /\ UNCHANGED bulk
           /\ UNCHANGED <<db, cache, other, vseq>>
    BY <1>2 DEF VersionRead
  <1>4. CASE f = Null
    <2>1. End(r) /\ UNCHANGED <<db, cache, versioning, hist>>
      BY <1>3, <1>4
    <2> QED  BY <1>1, <2>1, QuietEnd DEF db, hist
  <1>5. CASE f # Null
    <2>1. mode[r] # "DISABLED" /\ f \in Stored
      <3>1. ByVersion(vseq[r]) \subseteq Objs /\ ByVersion(vseq[r]) \subseteq Stored
        BY DEF ByVersion, Stored
      <3>2. mode[r] # "DISABLED"
        BY <1>3, <1>5
      <3> QED  BY <1>3, <1>5, <3>1, <3>2, Found
    <2>2. obj' = [obj EXCEPT ![r] = f] /\ UNCHANGED <<objs, seq, vseq>>
      BY <1>3, <1>5 DEF db
    <2>3. CASE objs[f].version_past
      <3>1. Issue(r, <<Do("delete_by_id", f)>>)
        BY <1>3, <1>5, <2>1, <2>3
      <3>2. f \in StoredIn(objs) /\ f \notin LatestIn(objs)
        BY <1>1, <2>1, <2>3 DEF LatestIn
      <3>3. PICK N : /\ Leads(<<Do("delete_by_id", f)>>, objs, N, vseq[r], mode[r], removed)
                     /\ Dropped(objs, N, f) /\ NewestLatest(N)
        BY <1>1, <3>2, BulkDropsPast
      <3> QED  BY <1>1, <2>2, <3>1, <3>3, DropIssues DEF DeletePath
    <2>4. CASE ~objs[f].version_past
      <3>1. Goto(r, "version_prev") /\ UNCHANGED bulk
        BY <1>3, <1>5, <2>1, <2>4
      <3>2. /\ Frame(r) /\ pc'[r] = "version_prev" /\ op'[r] = op[r] /\ mode'[r] = mode[r]
            /\ full'[r] = full[r] /\ bulk'[r] = bulk[r] /\ UNCHANGED <<removed, versioning>>
        BY <3>1, GotoFrame
      <3>3. obj'[r] = f /\ f \in Latest
        BY <2>1, <2>2, <2>4 DEF Latest, SerialInv, IInv, RequestTypes
      <3>4. (obj[r] \in Latest)'
        BY <2>2, <3>3 DEF Latest, Stored
      <3>5. Ready(r)'
        BY <1>1, <2>1, <3>2, <3>4 DEF Ready, PutPath, DeletePath
      <3> QED  BY <1>1, <2>2, <3>2, <3>5, QuietStep DEF VersioningGoesOn
    <2> QED  BY <2>3, <2>4
  <1> QED  BY <1>4, <1>5

\* The previous version becomes the latest: it is there when there are past versions.
LEMMA PreviousExists ==
    ASSUME objs \in [Objs -> Doc], seq \in Nat, Before(objs, seq + 1), PrevVersions = {}
    PROVE  \A o \in Stored : ~objs[o].version_past
  <1> DEFINE past == {o \in Stored : objs[o].version_past}
             S == {objs[o].version_seq + 1 : o \in past}
  <1>1. SUFFICES ASSUME past # {} PROVE FALSE
    OBVIOUS
  <1>2. S \subseteq 1..(seq + 1) /\ S # {}
    <2>1. ASSUME NEW o \in past PROVE objs[o].version_seq + 1 \in 1..(seq + 1)
      <3>1. objs[o].version_seq \in Nat /\ objs[o].version_seq < seq + 1
        BY DEF Stored, StoredIn, Before, Doc
      <3> QED  BY <3>1
    <2> HIDE DEF past
    <2> QED  BY <1>1, <2>1
  <1>3. seq + 1 \in Nat
    OBVIOUS
  <1> HIDE DEF S
  <1>4. PICK m \in S : \A x \in S : x <= m
    BY <1>2, <1>3, Greatest
  <1>5. PICK o \in past : m = objs[o].version_seq + 1
    BY DEF S
  <1>6. ASSUME NEW p \in past PROVE objs[p].version_seq <= objs[o].version_seq
    <2>1. objs[p].version_seq + 1 \in S
      BY DEF S
    <2>2. objs[p].version_seq + 1 <= objs[o].version_seq + 1
      BY <1>4, <1>5, <2>1
    <2>3. objs[p].version_seq \in Nat /\ objs[o].version_seq \in Nat
      BY DEF Stored, Doc
    <2> QED  BY <2>2, <2>3
  <1>7. o \in PrevVersions
    BY <1>6 DEF PrevVersions
  <1> QED  BY <1>7

\* Deleting the latest version.
LEMMA VersionPrevImplements ==
    ASSUME SerialInv, IInv', NEW r \in Reqs, VersionPrev(r)
    PROVE  StepImplements
  <1> DEFINE o == obj[r]
  <1>1. /\ pc[r] = "version_prev" /\ Ready(r) /\ objs \in [Objs -> Doc] /\ seq \in Nat
        /\ vseq[r] \in Nat /\ Steady(objs, removed) /\ Before(objs, seq + 1)
        /\ Stored = StoredIn(objs) /\ Latest = LatestIn(objs)
        /\ \A f, g \in Latest : f = g
        /\ Latest \subseteq Stored /\ Stored \subseteq Objs
    BY Reading DEF VersionPrev, Seen
  <1>2. o \in Latest
    BY <1>1 DEF Ready
  <1>3. PICK f \in FindOne(PrevVersions) :
          Issue(r, IF f = Null THEN <<Do("delete_and_unset_latest", o)>>
                   ELSE <<Do("delete_and_unset_latest", o), Do("set_latest", f)>>)
    BY DEF VersionPrev
  <1>4. UNCHANGED <<objs, seq, vseq>>
    BY DEF VersionPrev, db
  <1>5. (f = Null => PrevVersions = {}) /\ (f # Null => f \in PrevVersions)
    <2>1. PrevVersions \subseteq Objs
      BY <1>1 DEF PrevVersions
    <2> QED  BY <2>1, Found
  <1> HIDE DEF o
  <1>6. ASSUME NEW b, Issue(r, b), NEW N, Leads(b, objs, N, vseq[r], mode[r], removed),
               Dropped(objs, N, o), NewestLatest(N)
        PROVE  StepImplements
    BY <1>1, <1>4, <1>6, DropIssues DEF DeletePath
  <1>7. CASE f = Null
    <2>1. \A p \in Stored : p \in Latest
      BY <1>1, <1>5, <1>7, PreviousExists DEF Latest
    <2>2. StoredIn(objs) = {o}
      BY <1>1, <1>2, <2>1
    <2>3. PICK N : /\ Leads(<<Do("delete_and_unset_latest", o)>>, objs, N, vseq[r], mode[r], removed)
                   /\ Dropped(objs, N, o) /\ NewestLatest(N)
      BY <1>1, <2>2, BulkDropsLast
    <2> QED  BY <1>3, <1>6, <1>7, <2>3
  <1>8. CASE f # Null
    <2>1. f \in Stored /\ objs[f].version_past /\ f # o
      BY <1>2, <1>5, <1>8 DEF PrevVersions, Latest
    <2>2. \A p \in Stored \ {o} : objs[p].version_past
      BY <1>1, <1>2 DEF Latest
    <2>3. \A p \in StoredIn(objs) \ {o} : objs[p].version_seq <= objs[f].version_seq
      BY <1>1, <1>5, <1>8, <2>2 DEF PrevVersions
    <2>4. PICK N : /\ Leads(<<Do("delete_and_unset_latest", o), Do("set_latest", f)>>,
                            objs, N, vseq[r], mode[r], removed)
                   /\ Dropped(objs, N, o) /\ NewestLatest(N)
      BY <1>1, <1>2, <2>1, <2>3, BulkDropsLatest
    <2> QED  BY <1>3, <1>6, <1>8, <2>4
  <1> QED  BY <1>7, <1>8

\* A deletion by key goes on to make its delete marker.
LEMMA MarkerPrepared ==
    ASSUME SerialInv, IInv', NEW r \in Reqs, pc[r] \in {"key_read", "key_latest"},
           NEW b, bulk' = [bulk EXCEPT ![r] = b], Goto(r, "make_marker"),
           mode[r] # "DISABLED", Prepares(b, mode[r] = "ENABLED", objs), UNCHANGED <<objs, seq>>
    PROVE  StepImplements
  <1>1. Busy \subseteq {r} /\ Ready(r) /\ pc[r] \notin {"idle", "write"}
    BY Reading
  <1>2. /\ Frame(r) /\ pc'[r] = "make_marker" /\ op'[r] = op[r] /\ mode'[r] = mode[r]
        /\ full'[r] = full[r] /\ bulk'[r] = b /\ UNCHANGED <<removed, versioning>>
    BY GotoFrame
  <1>3. Prepares(bulk'[r], mode'[r] = "ENABLED", objs')
    BY <1>2
  <1>4. Prepares(bulk[r], mode[r] = "ENABLED", objs)'
    BY <1>3 DEF Prepares, LatestIn, NullsIn, StoredIn
  <1>5. op[r] \in {"delete_key", "delete_version"}
    BY <1>1 DEF Ready, DeletePath
  <1>6. Ready(r)'
    BY <1>1, <1>2, <1>4, <1>5 DEF Ready, PutPath, DeletePath
  <1> QED  BY <1>1, <1>2, <1>6, QuietStep DEF VersioningGoesOn

\* The first read of a deletion by key.
LEMMA KeyReadImplements ==
    ASSUME SerialInv, IInv', NEW r \in Reqs, KeyRead(r)
    PROVE  StepImplements
  <1> DEFINE S == IF mode[r] = "SUSPENDED" THEN NullVersions ELSE Latest
             e == mode[r] = "ENABLED"
  <1>1. /\ pc[r] = "key_read" /\ Busy \subseteq {r} /\ Ready(r) /\ objs \in [Objs -> Doc]
        /\ vseq[r] \in Nat /\ Steady(objs, removed)
        /\ Stored = StoredIn(objs) /\ Latest = LatestIn(objs) /\ NullVersions = NullsIn(objs)
        /\ \A f, g \in NullVersions : f = g
        /\ Latest \subseteq Stored /\ NullVersions \subseteq Stored /\ Stored \subseteq Objs
    BY Reading DEF KeyRead
  <1>2. UNCHANGED <<objs, seq>>
    BY DEF KeyRead, End, db
  <1>3. PICK f \in FindOne(S) :
        \/ /\ mode[r] = "DISABLED" /\ f = Null
           /\ End(r)
           /\ UNCHANGED <<db, cache, versioning, hist>>
        \/ /\ mode[r] = "DISABLED" /\ f # Null
           /\ Issue(r, <<Do("delete_and_unset_latest", f)>>)
           /\ UNCHANGED <<db, cache, other, vseq>>
        \/ /\ mode[r] = "ENABLED"
           /\ bulk' = [bulk EXCEPT ![r] = IF f = Null THEN <<>> ELSE <<Do("unset_latest", f)>>]
           /\ Goto(r, "make_marker")
        \/ /\ mode[r] = "SUSPENDED" /\ f # Null /\ ~objs[f].version_past
           /\ bulk' = [bulk EXCEPT ![r] = <<Do("delete_and_unset_latest", f)>>]
           /\ Goto(r, "make_marker")
        \/ /\ mode[r] = "SUSPENDED"
           /\ f # Null => objs[f].version_past
           /\ other' = [other EXCEPT ![r] = f]
           /\ Goto(r, "key_latest")
           /\ UNCHANGED bulk
    BY DEF KeyRead
  <1>4. (f = Null => S = {}) /\ (f # Null => f \in S)
    BY <1>1, Found
  <1>5. ASSUME NEW b, bulk' = [bulk EXCEPT ![r] = b], Goto(r, "make_marker"),
               mode[r] # "DISABLED", Prepares(b, e, objs)
        PROVE  StepImplements
    BY <1>1, <1>2, <1>5, MarkerPrepared
  <1>6. CASE mode[r] = "DISABLED" /\ f = Null /\ End(r) /\ UNCHANGED <<db, cache, versioning, hist>>
    BY <1>1, <1>6, QuietEnd DEF db, hist
  <1>7. CASE /\ mode[r] = "DISABLED" /\ f # Null
             /\ Issue(r, <<Do("delete_and_unset_latest", f)>>)
             /\ UNCHANGED <<db, cache, other, vseq>>
    <2>1. Stored \subseteq NullVersions
      BY <1>1, <1>7 DEF Ready
    <2>2. StoredIn(objs) = {f}
      BY <1>1, <1>4, <1>7, <2>1
    <2>3. PICK N : /\ Leads(<<Do("delete_and_unset_latest", f)>>, objs, N, vseq[r], mode[r], removed)
                   /\ Dropped(objs, N, f) /\ NewestLatest(N)
      BY <1>1, <2>2, BulkDropsLast
    <2> QED  BY <1>1, <1>2, <1>7, <2>3, DropIssues DEF DeletePath
  <1>8. CASE /\ mode[r] = "ENABLED"
             /\ bulk' = [bulk EXCEPT ![r] = IF f = Null THEN <<>> ELSE <<Do("unset_latest", f)>>]
             /\ Goto(r, "make_marker")
    <2>1. Prepares(IF f = Null THEN <<>> ELSE <<Do("unset_latest", f)>>, e, objs)
      <3>1. CASE f = Null
        BY <1>1, <1>4, <1>8, <3>1 DEF Prepares
      <3>2. CASE f # Null
        BY <1>1, <1>4, <1>8, <3>2 DEF Prepares
      <3> QED  BY <3>1, <3>2
    <2> HIDE DEF e
    <2> QED  BY <1>5, <1>8, <2>1
  <1>9. CASE /\ mode[r] = "SUSPENDED" /\ f # Null /\ ~objs[f].version_past
             /\ bulk' = [bulk EXCEPT ![r] = <<Do("delete_and_unset_latest", f)>>]
             /\ Goto(r, "make_marker")
    <2>1. f \in NullVersions /\ f \in Latest
      BY <1>1, <1>4, <1>9 DEF Latest
    <2>2. Prepares(<<Do("delete_and_unset_latest", f)>>, e, objs)
      BY <1>1, <1>9, <2>1 DEF Prepares
    <2> HIDE DEF e
    <2> QED  BY <1>5, <1>9, <2>2
  <1>10. CASE /\ mode[r] = "SUSPENDED" /\ (f # Null => objs[f].version_past)
              /\ other' = [other EXCEPT ![r] = f] /\ Goto(r, "key_latest") /\ UNCHANGED bulk
    <2>1. /\ Frame(r) /\ pc'[r] = "key_latest" /\ op'[r] = op[r] /\ mode'[r] = mode[r]
          /\ full'[r] = full[r] /\ bulk'[r] = bulk[r] /\ UNCHANGED <<removed, versioning>>
      BY <1>10, GotoFrame
    <2>2. other'[r] = f
      BY <1>10 DEF SerialInv, IInv, RequestTypes
    <2>3. NullKnown(f)
      BY <1>4, <1>10 DEF NullKnown
    <2>4. NullKnown(other[r])'
      BY <1>2, <2>2, <2>3 DEF NullKnown, NullVersions, Stored
    <2>5. Ready(r)'
      BY <1>1, <1>10, <2>1, <2>4 DEF Ready, PutPath, DeletePath
    <2> QED  BY <1>1, <1>2, <2>1, <2>5, QuietStep DEF VersioningGoesOn
  <1> QED  BY <1>3, <1>6, <1>7, <1>8, <1>9, <1>10

\* The second one, in a suspended bucket.
LEMMA KeyLatestImplements ==
    ASSUME SerialInv, IInv', NEW r \in Reqs, KeyLatest(r)
    PROVE  StepImplements
  <1> DEFINE e == mode[r] = "ENABLED"
             x == other[r]
  <1>1. /\ pc[r] = "key_latest" /\ Busy \subseteq {r} /\ Ready(r)
        /\ Latest = LatestIn(objs) /\ NullVersions = NullsIn(objs)
        /\ Stored # {} => Latest # {}
        /\ Latest \subseteq Stored /\ NullVersions \subseteq Stored /\ Stored \subseteq Objs
    BY Reading DEF KeyLatest
  <1>2. mode[r] = "SUSPENDED" /\ NullKnown(x) /\ ~e
    BY <1>1 DEF Ready
  <1>3. CASE NoLatestToDelete(r)
    <2>1. End(r) /\ UNCHANGED <<db, cache, versioning, hist>>
      BY <1>3 DEF KeyLatest
    <2> QED  BY <1>1, <2>1, QuietEnd DEF db, hist
  <1>4. CASE ~NoLatestToDelete(r)
    <2>1. PICK f \in FindOne(Latest) :
            bulk' = [bulk EXCEPT ![r] =
                CASE f = Null -> <<>>
                  [] f # Null /\ x = Null -> <<Do("unset_latest", f)>>
                  [] OTHER -> <<Do("unset_latest", f), Do("delete", x)>>]
      BY <1>4 DEF KeyLatest
    <2>2. Goto(r, "make_marker") /\ UNCHANGED <<objs, seq>>
      BY <1>4 DEF KeyLatest, db
    <2>3. (f = Null => Latest = {}) /\ (f # Null => f \in Latest)
      BY <1>1, Found
    <2>4. PICK b : bulk' = [bulk EXCEPT ![r] = b] /\ Prepares(b, e, objs)
      <3>1. CASE f = Null
        <4>1. bulk' = [bulk EXCEPT ![r] = <<>>]
          BY <2>1, <3>1
        <4>2. Prepares(<<>>, e, objs)
          BY <1>1, <2>3, <3>1 DEF Prepares
        <4> HIDE DEF e
        <4> QED  BY <4>1, <4>2
      <3>2. CASE f # Null /\ x = Null
        <4>1. bulk' = [bulk EXCEPT ![r] = <<Do("unset_latest", f)>>]
          BY <2>1, <3>2
        <4>2. Prepares(<<Do("unset_latest", f)>>, e, objs)
          BY <1>1, <1>2, <2>3, <3>2 DEF Prepares, NullKnown
        <4> HIDE DEF e
        <4> QED  BY <4>1, <4>2
      <3>3. CASE f # Null /\ x # Null
        <4>1. bulk' = [bulk EXCEPT ![r] = <<Do("unset_latest", f), Do("delete", x)>>]
          BY <2>1, <3>3
        <4>2. x \in NullVersions /\ x # f
          BY <1>2, <2>3, <3>3 DEF NullKnown, Latest
        <4>3. Prepares(<<Do("unset_latest", f), Do("delete", x)>>, e, objs)
          <5>1. ~e
            BY <1>2
          <5> HIDE DEF e, x
          <5> QED  BY <1>1, <2>3, <3>3, <4>2, <5>1 DEF Prepares
        <4> HIDE DEF e
        <4> QED  BY <4>1, <4>3
      <3> QED  BY <3>1, <3>2, <3>3
    <2> QED  BY <1>1, <1>2, <2>2, <2>4, MarkerPrepared
  <1> QED  BY <1>3, <1>4

\* The delete marker is numbered, and the operations issued.
LEMMA MakeMarkerImplements ==
    ASSUME SerialInv, OneDocument, IInv', NEW r \in Reqs, MakeMarker(r)
    PROVE  StepImplements
  <1> DEFINE e == mode[r] = "ENABLED"
             k == IF e THEN "insert_enabled" ELSE "insert_null"
             n == seq + 1
  <1>1. /\ pc[r] = "make_marker" /\ Busy \subseteq {r} /\ Ready(r) /\ objs \in [Objs -> Doc]
        /\ seq \in Nat /\ Steady(objs, removed) /\ Before(objs, n)
    BY Reading DEF MakeMarker, Seen
  <1>2. Prepares(bulk[r], e, objs) /\ op[r] # "abort" /\ Removing(r) = removed
    BY <1>1 DEF Ready, DeletePath, Removing
  <1>3. PICK o \in Fresh : bulk' = [bulk EXCEPT ![r] = Append(bulk[r], Do(k, o))]
    BY DEF MakeMarker
  <1>4. seq' = n /\ vseq'[r] = n /\ Goto(r, "write") /\ UNCHANGED objs
    BY AllocNumber DEF MakeMarker
  <1> DEFINE w == Do(k, o)
  <1>5. Newcomer(w, e, objs, mode[r])
    BY DEF Newcomer, Do, Fresh, Inserts
  <1>6. e \in BOOLEAN /\ n \in Nat
    BY <1>1
  <1>7. bulk' = [bulk EXCEPT ![r] = Append(bulk[r], w)]
    BY <1>3
  <1> HIDE DEF w
  <1>8. /\ Frame(r) /\ pc'[r] = "write" /\ op'[r] = op[r] /\ mode'[r] = mode[r]
        /\ full'[r] = full[r] /\ bulk'[r] = Append(bulk[r], w) /\ UNCHANGED <<removed, versioning>>
    BY <1>4, <1>7, GotoFrame
  <1> HIDE DEF e, n, k
  <1>9. PICK N : Leads(Append(bulk[r], w), objs, N, n, mode[r], removed) /\ Added(objs, N, n, e, w.id)
    BY <1>1, <1>2, <1>5, <1>6, BulkAdds
  <1>10. Leads(bulk'[r], objs, N, vseq'[r], mode[r], Removing(r))
    BY <1>2, <1>4, <1>8, <1>9
  <1>11. \E v : Added(objs, N, seq', mode[r] = "ENABLED", v)
    BY <1>4, <1>9 DEF e
  <1>12. seq' \in {seq, seq + 1}
    BY <1>4 DEF n
  <1> QED  BY <1>1, <1>2, <1>4, <1>8, <1>10, <1>11, <1>12, IssueStep

-----------------------------------------------------------------------------
(* The other steps, and the refinement.                                    *)

\* An upload is created: no request, and nobody who reads the key, sees it.
LEMMA CreateImplements ==
    ASSUME SerialInv, IInv', CreateUpload
    PROVE  StepImplements
  <1>1. PICK o \in Fresh : objs' = WithUpload(objs, o)
    BY DEF CreateUpload, WithUpload
  <1>2. UNCHANGED <<seq, versioning, pc, op, mode, obj, other, vseq, bulk, full, removed>>
    BY DEF CreateUpload, requests, hist
  <1>3. o \in Objs /\ ~objs[o].exists /\ \A r \in Reqs : \A w \in In(bulk[r]) : w.id # o
    BY DEF Fresh, Reserved, In
  <1>4. objs \in [Objs -> Doc] /\ Steady(objs, removed) /\ \A r \in Reqs : Ready(r)
    BY DEF SerialInv, IInv, SharedTypes
  <1>5. Steady(objs', removed) /\ Alike(objs, objs')
    BY <1>1, <1>3, <1>4, UploadAside
  <1>6. \A p \in Objs : objs[p].exists => objs'[p] = objs[p]
    BY <1>1, <1>3, <1>4 DEF WithUpload
  <1>7. /\ StoredIn(objs') = StoredIn(objs) /\ LatestIn(objs') = LatestIn(objs)
        /\ NullsIn(objs') = NullsIn(objs)
    BY <1>5 DEF Alike, Keeps, LatestIn, NullsIn
  <1>8. /\ Stored = StoredIn(objs) /\ Stored' = StoredIn(objs')
        /\ Latest = LatestIn(objs) /\ Latest' = LatestIn(objs')
        /\ NullVersions = NullsIn(objs) /\ NullVersions' = NullsIn(objs')
    BY DEF Stored, Latest, NullVersions, StoredIn, LatestIn, NullsIn
  <1>9. ASSUME NEW r \in Reqs, pc[r] = "write"
        PROVE  /\ \A i \in 2..4 : Steady(StagesOf(bulk[r], objs', vseq[r], mode[r])[i], Removing(r))
               /\ Alike(StagesOf(bulk[r], objs, vseq[r], mode[r])[4],
                        StagesOf(bulk[r], objs', vseq[r], mode[r])[4])
    <2> DEFINE N == objs'
    <2>1. /\ IsBulk(bulk[r], 3) /\ bulk[r] # <<>> /\ vseq[r] \in Nat
          /\ \A i \in 2..4 : Steady(StagesOf(bulk[r], objs, vseq[r], mode[r])[i], Removing(r))
      BY <1>9, Writing
    <2>2. N = WithUpload(objs, o)
      BY <1>1
    <2> HIDE DEF N
    <2>3. /\ \A i \in 2..4 : Steady(StagesOf(bulk[r], N, vseq[r], mode[r])[i], Removing(r))
          /\ Alike(StagesOf(bulk[r], objs, vseq[r], mode[r])[4],
                   StagesOf(bulk[r], N, vseq[r], mode[r])[4])
      BY <1>3, <1>4, <2>1, <2>2, StagesElsewhere
    <2> QED  BY <2>3 DEF N
  <1>10. ASSUME NEW r \in Reqs PROVE Ready(r)'
    <2>1. Ready(r)
      BY <1>4
    <2>2. pc[r] = "write" =>
            (\A i \in 2..4 : Steady(StagesOf(bulk[r], objs, vseq[r], mode[r])[i], Removing(r)))'
      <3>1. Removing(r)' = Removing(r)
        BY <1>2 DEF Removing
      <3>2. pc[r] = "write" =>
              \A i \in 2..4 : Steady(StagesOf(bulk'[r], objs', vseq'[r], mode'[r])[i], Removing(r)')
        BY <1>2, <1>9, <3>1
      <3> QED  BY <3>2 DEF Steady, Distinct, Tidy, StoredIn, StagesOf, Run
    <2>3. Upload(obj[r]) => Upload(obj[r])'
      BY <1>2, <1>6 DEF Upload, IsLive
    <2>4. (Stored \subseteq NullVersions) => (Stored \subseteq NullVersions)'
      BY <1>7, <1>8
    <2>5. Before(objs, seq) => Before(objs, seq)'
      BY <1>2, <1>5, <1>7 DEF Before, Alike, Keeps, StoredIn
    <2>6. NullKnown(other[r]) => NullKnown(other[r])'
      <3>1. \A p \in NullVersions : objs'[p] = objs[p]
        BY <1>6 DEF NullVersions, Stored, IsStored, IsLive
      <3>2. NullVersions' = NullVersions /\ other' = other
        BY <1>2, <1>7, <1>8
      <3> QED  BY <3>1, <3>2 DEF NullKnown
    <2>7. (obj[r] \in Latest) => (obj[r] \in Latest)'
      BY <1>2, <1>7, <1>8
    <2>8. Prepares(bulk[r], mode[r] = "ENABLED", objs) => Prepares(bulk[r], mode[r] = "ENABLED", objs)'
      <3>1. Prepares(bulk[r], mode[r] = "ENABLED", objs) => Prepares(bulk'[r], mode'[r] = "ENABLED", objs')
        BY <1>2, <1>7 DEF Prepares
      <3> QED  BY <3>1 DEF Prepares, LatestIn, NullsIn, StoredIn
    <2> QED  BY <1>2, <2>1, <2>2, <2>3, <2>4, <2>5, <2>6, <2>7, <2>8 DEF Ready
  <1>11. Alike(View, View')
    <2>1. Writers' = Writers
      BY <1>2 DEF Writers
    <2>2. CASE Writers = {}
      BY <1>5, <2>1, <2>2, Views
    <2>3. CASE Writers # {}
      <3>1. PICK r \in Reqs : pc[r] = "write"
        BY <2>3 DEF Writers
      <3>2. Writers = {r}
        BY <3>1, Writing
      <3> QED  BY <1>2, <1>9, <2>1, <3>1, <3>2, Views
    <2> QED  BY <2>2, <2>3
  <1>12. (\A q, r \in Busy : q = r)' /\ (\A r \in Reqs : Ready(r))'
    BY <1>2, <1>10 DEF SerialInv, Busy
  <1>13. Steady(objs, removed)'
    BY <1>2, <1>5 DEF Steady, Distinct, Tidy, StoredIn
  <1> QED  BY <1>2, <1>11, <1>12, <1>13, SameShown DEF VersioningGoesOn

\* Steps that the documents and the requests take no part in.
LEMMA AsideImplements ==
    ASSUME SerialInv, IInv', VersioningGoesOn,
           UNCHANGED <<objs, seq, removed, pc, op, mode, obj, other, vseq, bulk, full>>
    PROVE  StepImplements
  <1>1. ASSUME NEW r \in Reqs PROVE Ready(r)'
    <2>1. Ready(r)
      BY DEF SerialInv
    <2>2. mode[r] # "DISABLED" => versioning' # "DISABLED"
      BY <2>1 DEF Ready, VersioningGoesOn
    <2>3. pc[r] = "write" =>
            (\A i \in 2..4 : Steady(StagesOf(bulk[r], objs, vseq[r], mode[r])[i], Removing(r)))'
      <3>1. Removing(r)' = Removing(r)
        BY DEF Removing
      <3>2. pc[r] = "write" =>
              \A i \in 2..4 : Steady(StagesOf(bulk'[r], objs', vseq'[r], mode'[r])[i], Removing(r)')
        BY <2>1, <3>1 DEF Ready
      <3> QED  BY <3>2 DEF Steady, Distinct, Tidy, StoredIn, StagesOf, Run
    <2>4. /\ Upload(obj[r]) => Upload(obj[r])'
          /\ (Stored \subseteq NullVersions) => (Stored \subseteq NullVersions)'
          /\ Before(objs, seq) => Before(objs, seq)'
          /\ NullKnown(other[r]) => NullKnown(other[r])'
          /\ (obj[r] \in Latest) => (obj[r] \in Latest)'
      BY DEF Upload, Stored, NullVersions, Before, StoredIn, NullKnown, Latest
    <2>5. Prepares(bulk[r], mode[r] = "ENABLED", objs) => Prepares(bulk[r], mode[r] = "ENABLED", objs)'
      <3>1. Prepares(bulk[r], mode[r] = "ENABLED", objs) => Prepares(bulk'[r], mode'[r] = "ENABLED", objs')
        OBVIOUS
      <3> QED  BY <3>1 DEF Prepares, LatestIn, NullsIn, StoredIn
    <2> QED  BY <2>1, <2>2, <2>3, <2>4, <2>5 DEF Ready
  <1>2. (\A q, r \in Busy : q = r)' /\ (\A r \in Reqs : Ready(r))'
    BY <1>1 DEF SerialInv, Busy
  <1>3. Steady(objs, removed)'
    BY DEF SerialInv, Steady, Distinct, Tidy, StoredIn
  <1>4. View' = View
    BY DEF View, Writers, Stages, Run
  <1> QED  BY <1>2, <1>3, <1>4, AlikeItself, SameShown

\* Every step keeps the invariant, and is one of the versioned key or invisible to it.
LEMMA StepSerial ==
    ASSUME Ops \subseteq SerialOps, MaxInFlight <= 1, SerialInv, OneDocument, [Next]_vars
    PROVE  StepImplements
  <1>0. IInv'
    BY StepIInv DEF SerialInv
  <1>1. CASE CreateUpload
    BY <1>0, <1>1, CreateImplements
  <1>2. CASE CreateComplete
    BY <1>2 DEF CreateComplete, SerialOps
  <1>3. CASE SetVersioning
    <2>1. versioning' \in SwitchTo
      BY <1>3 DEF SetVersioning
    <2>2. VersioningGoesOn
      BY <2>1, ModesAssumption DEF VersioningGoesOn
    <2> QED  BY <1>0, <1>3, <2>2, AsideImplements DEF SetVersioning, requests, db, hist
  <1>4. ASSUME NEW o \in Objs, Expire(o) PROVE StepImplements
    BY <1>0, <1>4, AsideImplements DEF Expire, requests, db, hist, VersioningGoesOn
  <1>5. ASSUME NEW r \in Reqs, Complete(r) PROVE StepImplements
    <2>1. PICK o \in Uploads :
            Begin(r, IF Late(o) THEN "recomplete" ELSE "complete", "find_upload", o, 0)
      BY <1>5 DEF Complete
    <2>2. ~Late(o)
      BY <2>1 DEF Begin, SerialOps
    <2>3. Begin(r, "complete", "find_upload", o, 0)
      BY <2>1, <2>2
    <2>4. Upload(o)
      BY <2>2 DEF Late, Uploads, SerialInv, Steady, Tidy, Upload, IsLive
    <2> QED  BY <1>0, <2>3, <2>4, BeginImplements
  <1>6. ASSUME NEW r \in Reqs, Abort(r) PROVE StepImplements
    BY <1>0, <1>6, BeginImplements DEF Abort
  <1>7. ASSUME NEW r \in Reqs, DeleteVersion(r) PROVE StepImplements
    <2>1. ~Begin(r, "delete_null", "version_read", Null, 0)
      BY DEF Begin, SerialOps
    <2>2. PICK o \in {p \in Objs : objs[p].version_seq # 0} :
            Begin(r, "delete_version", "version_read", Null, objs[o].version_seq)
      BY <1>7, <2>1 DEF DeleteVersion
    <2> QED  BY <1>0, <2>2, BeginImplements
  <1>8. ASSUME NEW r \in Reqs, DeleteKey(r) PROVE StepImplements
    BY <1>0, <1>8, BeginImplements DEF DeleteKey
  <1>12. ASSUME NEW r \in Reqs, NoSequence(r) PROVE StepImplements
    BY <1>0, <1>12, AsideImplements DEF NoSequence, db, hist, VersioningGoesOn
  <1>13. ASSUME NEW r \in Reqs PROVE ~TwoSequences(r)
    BY DEF TwoSequences, OneDocument
  <1>9. ASSUME NEW r \in Reqs, Advance(r) PROVE StepImplements
    BY <1>0, <1>12, <1>13, <1>9, FindUploadImplements, AllocVersionImplements, PutReadImplements,
       PutLatestImplements, AbortFindImplements, VersionReadImplements, VersionPrevImplements,
       KeyReadImplements, KeyLatestImplements, MakeMarkerImplements, WriteImplements DEF Advance
  <1>10. ASSUME NEW r \in Reqs, Fail(r) PROVE StepImplements
    BY <1>10 DEF Fail, SerialOps
  <1>11. CASE UNCHANGED vars
    BY <1>0, <1>11, AsideImplements DEF vars, VersioningGoesOn
  <1> QED  BY <1>1, <1>2, <1>3, <1>4, <1>5, <1>6, <1>7, <1>8, <1>9, <1>10, <1>11 DEF Next, Start

\* With one request at a time nobody looks for the sequence while another inserts it.
LEMMA OneDocumentStep ==
    ASSUME SerialInv, OneDocument, [Next]_vars
    PROVE  OneDocument'
  <1>0. pc = [q \in Reqs |-> pc[q]] /\ unseen \subseteq Busy /\ ~forked
    BY DEF SerialInv, IInv, RequestTypes, OneDocument
  <1>1. \A r \in Busy : unseen \subseteq {r}
    BY <1>0 DEF SerialInv
  <1>2. CASE UNCHANGED <<pc, unseen, seq, forked>>
    BY <1>2 DEF OneDocument, Busy
  <1>3. ASSUME ~forked', NEW r \in Busy, unseen' = unseen \ {r} PROVE OneDocument'
    BY <1>1, <1>3 DEF OneDocument
  <1>g. \A r \in Reqs : \A l : Goto(r, l) => unseen' = unseen \ {r}
    BY DEF Goto
  <1>e. \A r \in Reqs : End(r) => unseen' = unseen \ {r}
    BY DEF End
  <1>4. CASE \/ CreateUpload \/ CreateComplete \/ SetVersioning \/ UNCHANGED vars
             \/ \E o \in Objs : Expire(o)
    <2>1. UNCHANGED <<pc, unseen, seq, forked>>
      BY <1>4 DEF CreateUpload, CreateComplete, SetVersioning, Expire, vars, requests, db
    <2> QED  BY <1>2, <2>1
  <1>5. ASSUME NEW r \in Reqs, Start(r) PROVE OneDocument'
    <2>1. pc[r] = "idle" /\ UNCHANGED <<unseen, seq, forked>>
          /\ \E l : pc' = [pc EXCEPT ![r] = l]
      BY <1>5 DEF Start, Complete, Abort, DeleteVersion, DeleteKey, Begin, db
    <2>2. \A q \in unseen : q \in Reqs /\ pc[q] # "idle" /\ pc'[q] = pc[q]
      BY <1>0, <2>1 DEF Busy
    <2> QED  BY <2>1, <2>2 DEF OneDocument, Busy
  <1>6. ASSUME NEW r \in Reqs, \/ FindUpload(r) \/ PutRead(r) \/ PutLatest(r) \/ VersionPrev(r)
                               \/ AbortFind(r) \/ VersionRead(r) \/ KeyRead(r) \/ KeyLatest(r)
                               \/ TwoSequences(r) \/ Fail(r)
        PROVE  OneDocument'
    <2>1. pc[r] # "idle" /\ UNCHANGED forked
      BY <1>6 DEF FindUpload, PutRead, PutLatest, VersionPrev, AbortFind, VersionRead,
                  KeyRead, KeyLatest, TwoSequences, Allocates, Fail, db
    <2>2. End(r) \/ \E l : Goto(r, l)
      BY <1>6 DEF FindUpload, PutRead, PutLatest, VersionPrev, AbortFind, VersionRead,
                  KeyRead, KeyLatest, TwoSequences, Fail, Issue
    <2>3. unseen' = unseen \ {r} /\ r \in Busy /\ ~forked'
      BY <1>0, <1>g, <1>e, <2>1, <2>2 DEF Busy
    <2> QED  BY <1>3, <2>3
  <1>7. ASSUME NEW r \in Reqs, AllocVersion(r) \/ MakeMarker(r) PROVE OneDocument'
    <2>1. pc[r] # "idle" /\ Alloc(r) /\ \E l : Goto(r, l)
      BY <1>7 DEF AllocVersion, MakeMarker
    <2>2. unseen' = unseen \ {r} /\ r \in Busy /\ ~forked'
      BY <1>g, <2>1, AllocNumber DEF Busy
    <2> QED  BY <1>3, <2>2
  <1>8. ASSUME NEW r \in Reqs, Write(r) PROVE OneDocument'
    <2>1. pc[r] = "write" /\ UNCHANGED <<seq, forked>> /\ (UNCHANGED <<pc, unseen>> \/ End(r))
      BY <1>8 DEF Write, WriteMongo, WritePostgres, Reply
    <2>2. CASE End(r)
      BY <1>0, <1>3, <1>e, <2>1, <2>2 DEF Busy
    <2> QED  BY <1>2, <2>1, <2>2
  <1>9. ASSUME NEW r \in Reqs, NoSequence(r) PROVE OneDocument'
    BY <1>9 DEF NoSequence, Allocates, OneDocument, Busy, db
  <1> QED  BY <1>4, <1>5, <1>6, <1>7, <1>8, <1>9 DEF Next, Advance

\* At first the key has no versions.
LEMMA InitSerial == Init => SerialInv /\ VK!Init
  <1> SUFFICES ASSUME Init PROVE SerialInv /\ VK!Init
    OBVIOUS
  <1>1. IInv
    BY InitIInv
  <1>2. Writers = {} /\ Busy = {}
    BY DEF Init, Writers, Busy
  <1>3. View = objs
    BY <1>2, Views
  <1>4. \A o \in Objs : ~objs[o].exists
    BY DEF Init, NoDoc
  <1>5. StoredIn(objs) = {} /\ LatestIn(objs) = {}
    BY <1>4 DEF StoredIn, LatestIn, IsStored, IsLive
  <1>6. Steady(objs, removed) /\ Seen(objs, seq, versioning)
    BY <1>4, <1>5 DEF Steady, Distinct, Tidy, Seen, NewestLatest, Before
  <1>7. \A r \in Reqs : Ready(r)
    BY DEF Init, Ready, PutPath, DeletePath
  <1>8. VK!Init
    BY <1>3, <1>5, ViewShows DEF VK!Init, Entries, Current, Pick
  <1> QED  BY <1>1, <1>2, <1>3, <1>6, <1>7, <1>8 DEF SerialInv

\* On either database, and for every number of objects, versions and switches of the
\* bucket's versioning: requests that do not overlap see a set of numbered versions of
\* which the newest is current.
THEOREM SerialRefinement ==
    Ops \subseteq SerialOps /\ MaxInFlight <= 1 => (Spec => ImplementsVersionedKey)
  <1> SUFFICES ASSUME Ops \subseteq SerialOps, MaxInFlight <= 1
               PROVE  Spec => ImplementsVersionedKey
    OBVIOUS
  <1>1. Init => SerialInv /\ OneDocument /\ VK!Init
    BY InitSerial DEF Init, OneDocument
  <1>2. SerialInv /\ OneDocument /\ [Next]_vars =>
           SerialInv' /\ OneDocument' /\ [VK!Next]_(VK!vars)
    BY StepSerial, OneDocumentStep DEF StepImplements
  <1> QED  BY <1>1, <1>2, PTL DEF Spec, ImplementsVersionedKey, VK!Spec

\* The first operation of a bulk, and with it every one in its turn, is admitted.
LEMMA HeadAdmitted == SerialInv => NeverRefused
  <1> SUFFICES ASSUME SerialInv, NEW r \in Reqs, pc[r] = "write",
                      NEW w, w = Head(bulk[r]), NEW N, N = Run(w, objs, vseq[r], mode[r])
               PROVE  ~Conflicts(w.id, N[w.id], objs)
    BY DEF NeverRefused, Writers
  <1> DEFINE b == bulk[r]
             S == StagesOf(b, objs, vseq[r], mode[r])
  <1>1. /\ IsBulk(b, 3) /\ b # <<>> /\ objs \in [Objs -> Doc] /\ vseq[r] \in Nat
        /\ \A i \in 2..4 : Steady(S[i], Removing(r))
    BY Writing
  <1>2. 1 \in 1..Len(b) /\ w = b[1]
    <2>1. b \in Seq(DbOp) /\ Len(b) \in Nat /\ Len(b) # 0
      BY <1>1, EmptySeq, LenProperties DEF IsBulk
    <2>2. Head(b) = b[1]
      BY <2>1
    <2> DEFINE l == Len(b)
    <2>3. l \in Nat /\ l # 0
      BY <2>1
    <2> HIDE DEF l
    <2>4. 1 \in 1..l
      BY <2>3
    <2> QED  BY <2>2, <2>4 DEF l
  <1>3. S[1] = objs /\ 1 + 1 = 2
    BY DEF StagesOf
  <1>4. b[1] \in DbOp /\ S[1 + 1] = Run(b[1], S[1], vseq[r], mode[r])
    BY <1>1, <1>2, StageRuns
  <1>5. N = S[2] /\ w \in DbOp
    BY <1>2, <1>3, <1>4
  <1>6. Distinct(N)
    BY <1>1, <1>5 DEF Steady
  <1> QED  BY <1>1, <1>5, <1>6, NoConflict

\* The handlers need the unique indexes only where requests overlap: one at a time, they
\* take the latest mark and the null version away before they set them, and number anew.
THEOREM SerialNeverRefused ==
    Ops \subseteq SerialOps /\ MaxInFlight <= 1 => (Spec => []NeverRefused)
  <1> SUFFICES ASSUME Ops \subseteq SerialOps, MaxInFlight <= 1
               PROVE  Spec => []NeverRefused
    OBVIOUS
  <1>1. Init => SerialInv /\ OneDocument
    BY InitSerial DEF Init, OneDocument
  <1>2. SerialInv /\ OneDocument /\ [Next]_vars => SerialInv' /\ OneDocument'
    BY StepSerial, OneDocumentStep DEF StepImplements
  <1>3. SerialInv => NeverRefused
    BY HeadAdmitted
  <1> QED  BY <1>1, <1>2, <1>3, PTL DEF Spec
=============================================================================
