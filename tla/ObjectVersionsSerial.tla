------------------------ MODULE ObjectVersionsSerial ------------------------
(***************************************************************************)
(* Requests that do not overlap (MaxInFlight = 1) see the object server as *)
(* the VersionedKey it is meant to be, on either database.                 *)
(*                                                                         *)
(* The commit point of a request is the issue of its bulk: from then on    *)
(* the mapping shows the collection as the whole bulk leaves it, so that   *)
(* MongoDB's operation-by-operation execution is a stutter.                *)
(***************************************************************************)
EXTENDS ObjectVersions

Writers == {r \in Reqs : pc[r] = "write"}

View == IF Writers = {} THEN objs
        ELSE LET r == CHOOSE w \in Writers : TRUE
             IN  Stages(bulk[r], vseq[r], mode[r])[4]

ViewVersions ==
    LET V == View
    IN  {[id |-> o, number |-> V[o].version_seq, null |-> ~V[o].version_enabled,
          marker |-> V[o].delete_marker] : o \in {p \in Objs : IsStored(V[p])}}

ViewLatest ==
    LET V == View
        L == {o \in Objs : IsStored(V[o]) /\ ~V[o].version_past}
    IN  IF L = {} THEN Null ELSE CHOOSE o \in L : TRUE

VK == INSTANCE VersionedKey WITH
        Ids <- Objs, None <- Null, versions <- ViewVersions, current <- ViewLatest

\* Every step of the object server is a step of the versioned key or invisible
\* to it: a put adds the newest version, a delete by key adds a marker or
\* removes the null version, and when the latest version is deleted the one
\* before it becomes the latest again.
ImplementsVersionedKey == VK!Spec

\* The handlers themselves keep one latest, one null version and fresh numbers:
\* when requests do not overlap no operation of a bulk is ever refused by a
\* unique index, which is there for those that do.
NeverRefused ==
    \A r \in Writers : LET w == Head(bulk[r])
                       IN  ~Conflicts(w.id, Run(w, objs, vseq[r], mode[r])[w.id], objs)
=============================================================================
