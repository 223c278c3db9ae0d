---------------------------- MODULE VersionedKey ----------------------------
(***************************************************************************)
(* What the object server promises for one key of a bucket to requests     *)
(* that do not overlap: a set of numbered versions, of which at most one   *)
(* is the null version, and a current version that is always the newest.   *)
(***************************************************************************)
EXTENDS Integers

CONSTANTS Ids, None

VARIABLES
    versions,  \* the versions of the key: [id, number, null, marker], numbered in
               \* the order of creation
    current    \* id of the version a GET of the key reads, or None

vars == <<versions, current>>

IsNewest(v, S) == \A w \in S : w.number <= v.number

\* S becomes the versions of the key, and its newest the current one
Become(S) ==
    /\ versions' = S
    /\ \/ S = {} /\ current' = None
       \/ \E v \in S : IsNewest(v, S) /\ current' = v.id

Init == versions = {} /\ current = None

\* a put or a delete marker: a listed version is added, a null one replaces
\* the null version
Add ==
    \E v \in versions' \ versions :
        /\ v.id \in Ids
        /\ \A w \in versions : w.number < v.number /\ w.id # v.id
        /\ Become((IF v.null THEN {w \in versions : ~w.null} ELSE versions) \cup {v})

Remove == \E v \in versions : Become(versions \ {v})

Next == Add \/ Remove

Spec == Init /\ [][Next]_vars
=============================================================================
