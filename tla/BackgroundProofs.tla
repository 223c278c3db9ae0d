-------------------------- MODULE BackgroundProofs --------------------------
(* Theorems about background workers: the mirror writer, for any number of  *)
(* chunks, the monitor of the nodes, for any number of blocks, and the      *)
(* aggregator of statistics, for any buckets, objects and batches.          *)
EXTENDS MirrorWriter, NodesMonitor, MdAggregator, FoldLemmas

-----------------------------------------------------------------------------
(* The inductive invariant of the mirror writer.                           *)

\* The chunks the writer owes: taken, not mirrored, and not among those it leaves behind.
Owed == seen \ (mirrored \cup passed)

\* Only a scan that failed leaves chunks for the retry of its batch, the first of which is passed.
FailedInv == failed # {} => batch = "retry" /\ Min(failed) \in passed

\* A stored marker that is ahead of the scan is one of the present, its ids are passed.
StoredInv == saved.start_marker <= marker \/ 1..saved.start_marker \subseteq passed

\* A restart finds what is owed ahead of the stored markers.
StoredAhead == \A c \in Owed : c > saved.start_marker \/ c \in Within(saved.retry_range)

MirrorIInv == MirrorTypeOK /\ FailedInv /\ StoredInv /\ FailedStayAhead /\ StoredAhead

-----------------------------------------------------------------------------
(* Ranges and batches                                                      *)

\* The ends of a set of ids.
LEMMA Ends ==
    ASSUME NEW S, S \subseteq ChunkIds, S # {}
    PROVE  /\ Min(S) \in S /\ \A c \in S : Min(S) <= c
           /\ Max(S) \in S /\ \A c \in S : c <= Max(S)
  <1>1. S \subseteq Nat /\ S \subseteq 1..MaxChunkId /\ MaxChunkId \in Nat
    BY MirrorAssumption DEF ChunkIds
  <1>2. \E m \in S : \A c \in S : m <= c
    BY <1>1, NatMin
  <1>3. \E m \in S : \A c \in S : c <= m
    BY <1>1, Greatest
  <1>4. \E m \in S : \A c \in S : m >= c
    BY <1>1, <1>3
  <1>5. Min(S) \in S /\ \A c \in S : Min(S) <= c
    BY <1>2 DEF Min
  <1>6. Max(S) \in S /\ \A c \in S : Max(S) >= c
    BY <1>4 DEF Max
  <1> QED  BY <1>1, <1>5, <1>6

\* A batch takes ids unless there are none, and those it leaves are above it.
LEMMA NextInIs ==
    ASSUME NEW S, S \subseteq ChunkIds
    PROVE  /\ NextIn(S) \subseteq S
           /\ NextIn(S) = {} => S = {}
           /\ \A c \in S \ NextIn(S) : c > Max(NextIn(S))
  <1> DEFINE upto(c) == {d \in S : d <= c}
             ids == NextIn(S)
  <1>0. BuildBatch \in Nat \ {0} /\ S \subseteq Nat
    BY MirrorAssumption DEF ChunkIds
  <1>1. ids = {c \in S : Cardinality(upto(c)) <= BuildBatch}
    BY DEF NextIn
  <1>2. \A c \in S : IsFiniteSet(upto(c)) /\ Cardinality(upto(c)) \in Nat
    <2>1. IsFiniteSet(ChunkIds)
      BY MirrorAssumption, FS_Interval DEF ChunkIds
    <2>2. \A c : upto(c) \subseteq ChunkIds
      OBVIOUS
    <2> HIDE DEF upto
    <2> QED  BY <2>1, <2>2, FS_Subset, FS_CardinalityType
  <1> HIDE DEF ids
  <1>3. ids \subseteq S
    <2> HIDE DEF upto
    <2> QED  BY <1>1
  <1>4. ASSUME S # {} PROVE ids # {}
    <2>1. Min(S) \in S /\ \A c \in S : Min(S) <= c
      BY <1>4, Ends
    <2> DEFINE m == Min(S)
    <2>2. m \in S /\ \A c \in S : m <= c
      BY <2>1
    <2> HIDE DEF m
    <2>3. upto(m) = {m}
      <3>1. \A d \in S : d <= m <=> d = m
        BY <1>0, <2>2
      <3> QED  BY <2>2, <3>1
    <2> HIDE DEF upto
    <2>4. Cardinality(upto(m)) = 1
      BY <2>3, FS_Singleton
    <2> QED  BY <1>0, <1>1, <2>2, <2>4
  <1>5. ASSUME NEW c \in S \ ids PROVE c > Max(ids)
    <2>1. ids # {} /\ ids \subseteq ChunkIds
      BY <1>3, <1>4
    <2> DEFINE m == Max(ids)
    <2>2. m \in ids
      BY <2>1, Ends
    <2> HIDE DEF m
    <2>3. m \in S /\ Cardinality(upto(m)) <= BuildBatch /\ c \in Nat /\ m \in Nat
      <3> HIDE DEF upto
      <3> QED  BY <1>0, <1>1, <2>2
    <2>4. ASSUME c <= m PROVE FALSE
      <3>1. upto(c) \subseteq upto(m)
        <4>1. \A d \in S : d <= c => d <= m
          BY <1>0, <2>3, <2>4
        <4> QED  BY <4>1
      <3> HIDE DEF upto
      <3>2. Cardinality(upto(c)) <= Cardinality(upto(m))
        BY <1>2, <2>3, <3>1, FS_Subset
      <3>3. c \in ids
        BY <1>0, <1>1, <1>2, <2>3, <3>2
      <3> QED  BY <3>3
    <2> QED  BY <2>3, <2>4 DEF m
  <1> QED  BY <1>3, <1>4, <1>5 DEF ids

\* No id is in no range, and a joined range has the ids of both.
LEMMA JoinedIs ==
    ASSUME NEW a \in Ranges, NEW b \in Ranges
    PROVE  /\ NoRange \in Ranges /\ Within(NoRange) = {}
           /\ Joined(a, b) \in Ranges
           /\ Within(a) \cup Within(b) \subseteq Within(Joined(a, b))
  <1>0. MaxChunkId \in Nat /\ a.start \in Nat /\ a.end \in Nat /\ b.start \in Nat /\ b.end \in Nat
    BY MirrorAssumption DEF Ranges
  <1>1. NoRange \in Ranges /\ Within(NoRange) = {}
    BY <1>0 DEF NoRange, Ranges, Within, ChunkIds
  <1> DEFINE s == Min({a.start, b.start})
             e == Max({a.end, b.end})
  <1>2. s \in {a.start, b.start} /\ s <= a.start /\ s <= b.start
    BY <1>0 DEF Min
  <1>3. e \in {a.end, b.end} /\ e >= a.end /\ e >= b.end
    BY <1>0 DEF Max
  <1> HIDE DEF s, e
  <1>4. CASE a = NoRange
    BY <1>1, <1>4 DEF Joined
  <1>5. CASE a # NoRange /\ b = NoRange
    BY <1>1, <1>5 DEF Joined
  <1>6. CASE a # NoRange /\ b # NoRange
    <2>1. Joined(a, b) = [start |-> s, end |-> e]
      BY <1>6 DEF Joined, s, e
    <2>2. [start |-> s, end |-> e] \in Ranges
      BY <1>2, <1>3 DEF Ranges
    <2>3. Within(a) \cup Within(b) \subseteq Within([start |-> s, end |-> e])
      BY <1>0, <1>2, <1>3 DEF Within, ChunkIds
    <2> QED  BY <1>1, <2>1, <2>2, <2>3
  <1> QED  BY <1>4, <1>5, <1>6

\* A range of errors has all of its batch but the first.
LEMMA RangeOfIs ==
    ASSUME NEW ids, ids \subseteq ChunkIds
    PROVE  /\ RangeOf(ids) \in Ranges
           /\ ids \ {Min(ids)} \subseteq Within(RangeOf(ids))
  <1>1. CASE ids = {}
    BY <1>1, MirrorAssumption DEF RangeOf, NoRange, Ranges
  <1>2. CASE ids # {}
    <2> DEFINE s == Min(ids)
               e == Max(ids)
    <2>1. s \in ids /\ e \in ids /\ \A c \in ids : s <= c /\ c <= e
      BY <1>2, Ends
    <2>2. RangeOf(ids) = [start |-> s, end |-> e]
      BY <1>2 DEF RangeOf
    <2> HIDE DEF s, e
    <2>3. s \in 0..MaxChunkId /\ e \in 0..MaxChunkId
      BY <2>1, MirrorAssumption DEF ChunkIds
    <2>4. [start |-> s, end |-> e] \in Ranges
      BY <2>3 DEF Ranges
    <2>5. \A c \in ids \ {s} : s < c /\ c <= e
      BY <2>1, MirrorAssumption DEF ChunkIds
    <2>6. ids \ {s} \subseteq Within([start |-> s, end |-> e])
      BY <2>5 DEF Within
    <2> QED  BY <2>2, <2>4, <2>6 DEF s
  <1> QED  BY <1>1, <1>2

-----------------------------------------------------------------------------
(* Steps of the mirror writer                                              *)

\* The first state.
LEMMA InitMirrorIInv == MirrorInit => MirrorIInv
  <1>1. NoRange \in Ranges /\ 0 \in 0..MaxChunkId /\ MaxMirrorFaults \in 0..MaxMirrorFaults
    BY MirrorAssumption DEF NoRange, Ranges
  <1> QED  BY <1>1 DEF MirrorInit, MirrorIInv, MirrorTypeOK, FailedInv, StoredInv, FailedStayAhead,
                       StoredAhead, Owed

\* The types of the variables, and of what is computed from them.
LEMMA MirrorTypes ==
    ASSUME MirrorIInv
    PROVE  /\ MaxChunkId \in Nat /\ ChunkIds = 1..MaxChunkId
           /\ chunks \subseteq ChunkIds /\ mirrored \subseteq chunks /\ seen \subseteq chunks
           /\ passed \subseteq ChunkIds /\ failed \subseteq chunks
           /\ marker \in 0..MaxChunkId
           /\ Retried \in Ranges /\ ErrorsLeft \in Ranges /\ NoRange \in Ranges
           /\ errors_marker \in Ranges /\ retry_scanner \in Ranges
           /\ Within(Retried) \cup Within(ErrorsLeft)
                 = Within(retry_scanner) \cup Within(errors_marker)
  <1>1. NoRange \in Ranges /\ Within(NoRange) = {}
    BY JoinedIs DEF MirrorIInv, MirrorTypeOK
  <1> QED  BY <1>1, MirrorAssumption DEF MirrorIInv, MirrorTypeOK, ChunkIds, Retried, ErrorsLeft

\* A chunk of a retried range that is above an id of it is in what is left after that id.
LEMMA RestIs ==
    ASSUME NEW r \in Ranges, NEW m \in Within(r)
    PROVE  /\ [r EXCEPT !.start = m] \in Ranges
           /\ \A c \in Within(r) : c > m => c \in Within([r EXCEPT !.start = m])
  <1> DEFINE n == [r EXCEPT !.start = m]
  <1>1. n.start = m /\ n.end = r.end /\ n = [start |-> m, end |-> r.end]
    BY DEF Ranges
  <1> HIDE DEF n
  <1>2. m \in 0..MaxChunkId /\ r.end \in 0..MaxChunkId
    BY MirrorAssumption DEF Within, ChunkIds, Ranges
  <1>3. n \in Ranges
    BY <1>1, <1>2 DEF Ranges
  <1>4. \A c \in Within(r) : c > m => c \in Within(n)
    BY <1>1, <1>2 DEF Within, ChunkIds
  <1> QED  BY <1>3, <1>4 DEF n

\* A build that succeeds costs a fault only when it skips chunks, one that fails always.
LEMMA BuildTypes ==
    ASSUME MirrorIInv, NEW ids \in SUBSET chunks, BuildSucceeds(ids) \/ BuildFails(ids)
    PROVE  /\ mirrored' \subseteq chunks /\ mirrored \subseteq mirrored'
           /\ passed' \subseteq ChunkIds /\ passed \subseteq passed'
           /\ mirror_faults' \in 0..MaxMirrorFaults
  <1>1. mirror_faults \in 0..MaxMirrorFaults /\ MaxMirrorFaults \in Nat
    BY MirrorAssumption DEF MirrorIInv, MirrorTypeOK
  <1>2. mirrored \subseteq chunks /\ passed \subseteq ChunkIds /\ ids \subseteq ChunkIds
    BY MirrorTypes
  <1>3. CASE BuildSucceeds(ids)
    BY <1>1, <1>2, <1>3 DEF BuildSucceeds
  <1>4. CASE BuildFails(ids)
    <2>1. Min(ids) \in ids
      BY <1>2, <1>4, Ends DEF BuildFails
    <2> QED  BY <1>1, <1>2, <1>4, <2>1 DEF BuildFails
  <1> QED  BY <1>3, <1>4

\* A batch of the scan.
LEMMA ScanBatchStep == ASSUME MirrorIInv, ScanBatch PROVE MirrorIInv'
  <1> DEFINE ids == NextIn({c \in chunks : c > marker})
             above == {c \in chunks : c > marker}
  <1>1. /\ batch = "scan" /\ batch' = "retry" /\ marker' = IF ids = {} THEN marker ELSE Max(ids)
        /\ seen' = seen \cup ids
        /\ UNCHANGED <<chunks, retry_scanner, errors_marker, saved>>
    BY DEF ScanBatch
  <1>2. \/ BuildSucceeds(ids) /\ failed' = {}
        \/ BuildFails(ids) /\ failed' = ids
    BY DEF ScanBatch
  <1>3. above \subseteq ChunkIds
    BY MirrorTypes
  <1>4. /\ ids \subseteq above /\ (ids = {} => above = {})
        /\ \A c \in above \ ids : c > Max(ids)
    <2> HIDE DEF above
    <2> QED  BY <1>3, NextInIs DEF above
  <1>5. ids # {} => Min(ids) \in ids /\ Max(ids) \in ids
    <2> HIDE DEF ids, above
    <2> QED  BY <1>3, <1>4, Ends
  <1> DEFINE m == Max(ids)
             l == Min(ids)
  <1>6. /\ marker' = IF ids = {} THEN marker ELSE m
        /\ ids # {} => m \in ids /\ l \in ids
        /\ \A c \in above \ ids : c > m
    BY <1>1, <1>4, <1>5
  <1>7. \/ ids \subseteq mirrored' \cup passed' /\ failed' = {}
        \/ ids # {} /\ failed' = ids /\ passed' = passed \cup {l}
    BY <1>2 DEF BuildSucceeds, BuildFails
  <1>16. /\ mirrored' \subseteq mirrored \cup ids /\ mirrored' \subseteq chunks
         /\ mirrored \subseteq mirrored'
         /\ passed' \subseteq ChunkIds /\ passed \subseteq passed'
         /\ mirror_faults' \in 0..MaxMirrorFaults
    <2>1. ids \in SUBSET chunks
      BY <1>4
    <2>2. mirrored' \subseteq mirrored \cup ids
      BY <1>2 DEF BuildSucceeds, BuildFails
    <2> HIDE DEF ids, above
    <2> QED  BY <1>2, <2>1, <2>2, BuildTypes
  <1> HIDE DEF m, l, ids
  <1>8. ids \subseteq chunks /\ \A c \in ids : c > marker
    BY <1>4
  <1>9. MirrorTypeOK'
    <2>1. marker' \in 0..MaxChunkId
      BY <1>6, <1>8, MirrorTypes
    <2>2. failed' \subseteq chunks
      BY <1>7, <1>8
    <2> QED  BY <1>1, <1>8, <1>16, <2>1, <2>2 DEF MirrorIInv, MirrorTypeOK
  <1>10. FailedInv'
    BY <1>1, <1>7 DEF FailedInv, l
  <1>11. StoredInv'
    <2>1. marker <= marker'
      BY <1>6, <1>8, MirrorTypes
    <2>2. saved.start_marker \in Nat /\ marker \in Nat /\ marker' \in Nat
      BY <1>1, <1>9 DEF MirrorIInv, MirrorTypeOK
    <2> QED  BY <1>1, <1>16, <2>1, <2>2 DEF MirrorIInv, StoredInv
  <1>12. ASSUME NEW c \in seen', c \notin mirrored', c \notin passed' PROVE Ahead(c)'
    <2>1. CASE c \in ids
      BY <1>7, <1>12, <2>1 DEF Ahead
    <2>2. CASE c \notin ids
      <3>1. c \in seen \ (mirrored \cup passed) /\ c \in chunks
        BY <1>1, <1>12, <1>16, <2>2, MirrorTypes
      <3>2. Ahead(c) /\ failed = {}
        BY <1>1, <3>1 DEF MirrorIInv, FailedInv, FailedStayAhead
      <3>3. CASE c > marker
        BY <1>4, <1>6, <2>2, <3>1, <3>3 DEF Ahead
      <3>4. CASE c \in Within(errors_marker) \cup Within(retry_scanner)
        BY <1>1, <3>4 DEF Ahead, Within
      <3> QED  BY <3>2, <3>3, <3>4 DEF Ahead
    <2> QED  BY <2>1, <2>2
  <1>13. ASSUME NEW c \in Owed' PROVE c > saved.start_marker \/ c \in Within(saved.retry_range)
    <2>1. CASE c \in seen
      <3>1. c \in Owed
        BY <1>13, <1>16, <2>1 DEF Owed
      <3> QED  BY <3>1 DEF MirrorIInv, StoredAhead
    <2>2. CASE c \notin seen
      <3>1. c \in ids /\ c \notin passed /\ c \in ChunkIds
        BY <1>1, <1>8, <1>13, <1>16, <2>2, MirrorTypes DEF Owed
      <3>2. c > marker /\ saved.start_marker \in Nat
        BY <1>8, <3>1 DEF MirrorIInv, MirrorTypeOK
      <3> QED  BY <3>1, <3>2, MirrorTypes DEF MirrorIInv, StoredInv
    <2> QED  BY <2>1, <2>2
  <1>14. StoredAhead'
    BY <1>1, <1>13 DEF StoredAhead, Within
  <1>15. FailedStayAhead'
    BY <1>12 DEF FailedStayAhead
  <1> QED  BY <1>9, <1>10, <1>11, <1>14, <1>15 DEF MirrorIInv

\* What the retry of a batch does: the errors of the scan go in the range of errors.
LEMMA RetryStep ==
    ASSUME MirrorIInv, batch = "retry", batch' = "store", failed' = {},
           UNCHANGED <<chunks, marker, saved, seen>>,
           NEW r \in Ranges, NEW e \in Ranges, NEW built \in SUBSET chunks, NEW gone \in SUBSET ChunkIds,
           mirror_faults' \in 0..MaxMirrorFaults,
           retry_scanner' = r, mirrored' = mirrored \cup built, passed' = passed \cup gone,
           errors_marker' = e,
           \* what was in the retried range is done, passed, or in one of the new ranges
           \A c \in chunks \cap Within(Retried) : c \in built \cup gone \cup Within(r) \cup Within(e),
           Within(Joined(ErrorsLeft, RangeOf(failed))) \subseteq Within(e)
    PROVE  MirrorIInv'
  <1>1. MirrorTypeOK'
    <2>1. mirrored' \subseteq chunks /\ passed' \subseteq ChunkIds
      BY MirrorTypes
    <2> QED  BY <2>1 DEF MirrorIInv, MirrorTypeOK
  <1>2. FailedInv'
    BY DEF FailedInv
  <1>3. StoredInv'
    BY DEF MirrorIInv, StoredInv
  <1>4. Within(ErrorsLeft) \cup (failed \ {Min(failed)}) \subseteq Within(e)
    <2>1. RangeOf(failed) \in Ranges /\ failed \ {Min(failed)} \subseteq Within(RangeOf(failed))
      BY RangeOfIs, MirrorTypes
    <2> QED  BY <2>1, JoinedIs, MirrorTypes
  <1>5. ASSUME NEW c \in seen', c \notin mirrored', c \notin passed' PROVE Ahead(c)'
    <2>1. c \in Owed /\ c \in chunks /\ c \notin built /\ c \notin gone
      BY <1>5, MirrorTypes DEF Owed
    <2>2. Ahead(c)
      BY <2>1 DEF MirrorIInv, FailedStayAhead, Owed
    <2>3. CASE c > marker
      BY <2>3 DEF Ahead
    <2>4. CASE c \in Within(errors_marker) \cup Within(retry_scanner)
      <3>1. c \in Within(Retried) \cup Within(ErrorsLeft)
        BY <2>4, MirrorTypes
      <3>2. c \in Within(r) \cup Within(e)
        BY <1>4, <2>1, <3>1
      <3> QED  BY <3>2 DEF Ahead, Within
    <2>5. CASE c \in failed
      <3>1. c # Min(failed)
        BY <2>1, <2>5 DEF MirrorIInv, FailedInv, Owed
      <3>2. c \in Within(e)
        BY <1>4, <2>5, <3>1
      <3> QED  BY <3>2 DEF Ahead, Within
    <2> QED  BY <2>2, <2>3, <2>4, <2>5 DEF Ahead
  <1>6. FailedStayAhead'
    BY <1>5 DEF FailedStayAhead
  <1>7. StoredAhead'
    <2>1. Owed' \subseteq Owed
      BY DEF Owed
    <2> QED  BY <2>1 DEF MirrorIInv, StoredAhead, Within
  <1> QED  BY <1>1, <1>2, <1>3, <1>6, <1>7 DEF MirrorIInv

\* A batch of the retry, and the end of a retry.
LEMMA RetryBatchStep == ASSUME MirrorIInv, RetryBatch PROVE MirrorIInv'
  <1> DEFINE todo == chunks \cap Within(Retried)
             ids  == NextIn(chunks \cap Within(Retried))
             scan == Joined(ErrorsLeft, RangeOf(failed))
             next == [Retried EXCEPT !.start = Max(ids)]
  <1>1. /\ batch = "retry" /\ batch' = "store" /\ failed' = {}
        /\ UNCHANGED <<chunks, marker, saved, seen>>
    BY DEF RetryBatch
  <1>2. \/ /\ ids = {} /\ retry_scanner' = NoRange /\ errors_marker' = scan
           /\ UNCHANGED <<mirrored, passed, mirror_faults>>
        \/ ids # {} /\ BuildSucceeds(ids) /\ retry_scanner' = next /\ errors_marker' = scan
        \/ BuildFails(ids) /\ retry_scanner' = next /\ errors_marker' = Joined(scan, RangeOf(ids))
    BY DEF RetryBatch
  <1>3. todo \subseteq ChunkIds /\ Retried \in Ranges
    BY MirrorTypes
  <1>4. /\ ids \subseteq todo /\ (ids = {} => todo = {})
        /\ \A c \in todo \ ids : c > Max(ids)
    <2> HIDE DEF todo
    <2> QED  BY <1>3, NextInIs DEF todo
  <1>5. ids # {} => Min(ids) \in ids /\ Max(ids) \in ids
    <2> HIDE DEF ids, todo
    <2> QED  BY <1>3, <1>4, Ends
  <1>6. scan \in Ranges
    <2>1. RangeOf(failed) \in Ranges
      BY RangeOfIs, MirrorTypes
    <2> QED  BY <2>1, JoinedIs, MirrorTypes
  <1>7. ids # {} => next \in Ranges /\ \A c \in todo \ ids : c \in Within(next)
    <2> DEFINE m == Max(ids)
    <2>1. ids # {} => m \in ids /\ \A c \in todo \ ids : c > m
      BY <1>4, <1>5
    <2>2. m \in ids => m \in Within(Retried)
      BY <1>4
    <2> HIDE DEF m, ids
    <2>3. \A c \in todo : c \in Within(Retried)
      OBVIOUS
    <2> HIDE DEF todo
    <2> QED  BY <1>3, <2>1, <2>2, <2>3, RestIs DEF m
  <1>8. RangeOf(ids) \in Ranges /\ ids \ {Min(ids)} \subseteq Within(RangeOf(ids))
    <2> HIDE DEF ids, todo
    <2> QED  BY <1>3, <1>4, RangeOfIs
  <1>9. /\ Joined(scan, RangeOf(ids)) \in Ranges
        /\ Within(scan) \cup Within(RangeOf(ids)) \subseteq Within(Joined(scan, RangeOf(ids)))
    <2> HIDE DEF ids, todo, scan
    <2> QED  BY <1>6, <1>8, JoinedIs
  <1>10. NoRange \in Ranges /\ mirror_faults \in 0..MaxMirrorFaults /\ MaxMirrorFaults \in Nat
    BY MirrorTypes, MirrorAssumption DEF MirrorIInv, MirrorTypeOK
  <1>11. ids \subseteq chunks /\ ids \subseteq ChunkIds /\ \A c \in todo : c \in chunks \cap Within(Retried)
    BY <1>3, <1>4
  <1> DEFINE wider == Joined(scan, RangeOf(ids))
  <1>12. Within(scan) \subseteq Within(wider) /\ ids \ {Min(ids)} \subseteq Within(wider)
    BY <1>8, <1>9
  <1>13. wider \in Ranges
    BY <1>9
  <1>14. todo = chunks \cap Within(Retried)
    OBVIOUS
  <1>15. scan = Joined(ErrorsLeft, RangeOf(failed))
    OBVIOUS
  <1>16. \/ /\ ids = {} /\ retry_scanner' = NoRange /\ errors_marker' = scan
            /\ UNCHANGED <<mirrored, passed, mirror_faults>>
         \/ ids # {} /\ BuildSucceeds(ids) /\ retry_scanner' = next /\ errors_marker' = scan
         \/ BuildFails(ids) /\ retry_scanner' = next /\ errors_marker' = wider
    BY <1>2
  <1> HIDE DEF wider, next, scan, ids, todo
  <1>17. CASE ids = {}
    <2>1. /\ retry_scanner' = NoRange /\ errors_marker' = scan
          /\ UNCHANGED <<mirrored, passed, mirror_faults>>
      BY <1>16, <1>17 DEF BuildFails
    <2>2. mirrored' = mirrored \cup {} /\ passed' = passed \cup {} /\ todo = {}
      BY <1>4, <1>17, <2>1
    <2> QED  BY <1>1, <1>6, <1>10, <1>14, <1>15, <2>1, <2>2, RetryStep
  <1>18. CASE ids # {} /\ BuildSucceeds(ids) /\ retry_scanner' = next /\ errors_marker' = scan
    <2>1. PICK skipped \in SUBSET ids :
             mirrored' = mirrored \cup (ids \ skipped) /\ passed' = passed \cup skipped
      BY <1>18 DEF BuildSucceeds
    <2>2. ids \ skipped \in SUBSET chunks /\ skipped \in SUBSET ChunkIds
      BY <1>11
    <2>3. \A c \in todo : c \in (ids \ skipped) \cup skipped \cup Within(next) \cup Within(scan)
      BY <1>7, <1>18
    <2>4. mirror_faults' \in 0..MaxMirrorFaults
      BY <1>11, <1>18, BuildTypes
    <2> QED  BY <1>1, <1>6, <1>7, <1>14, <1>15, <1>18, <2>1, <2>2, <2>3, <2>4, RetryStep
  <1>19. CASE BuildFails(ids) /\ retry_scanner' = next /\ errors_marker' = wider
    <2>1. PICK built \in SUBSET ids : mirrored' = mirrored \cup built
      BY <1>19 DEF BuildFails
    <2>2. ids # {} /\ passed' = passed \cup {Min(ids)}
      BY <1>19 DEF BuildFails
    <2>3. built \in SUBSET chunks /\ {Min(ids)} \in SUBSET ChunkIds
      BY <1>5, <1>11, <2>2
    <2>4. \A c \in todo : c \in built \cup {Min(ids)} \cup Within(next) \cup Within(wider)
      BY <1>7, <1>12, <2>2
    <2>5. mirror_faults' \in 0..MaxMirrorFaults
      BY <1>11, <1>19, BuildTypes
    <2> QED  BY <1>1, <1>7, <1>12, <1>13, <1>14, <1>15, <1>19, <2>1, <2>2, <2>3, <2>4, <2>5, RetryStep
  <1> QED  BY <1>16, <1>17, <1>18, <1>19

\* The read of the retry fails.
LEMMA RetryUnreadStep == ASSUME MirrorIInv, RetryUnread PROVE MirrorIInv'
  <1> DEFINE scan == Joined(ErrorsLeft, RangeOf(failed))
  <1>1. /\ batch = "retry" /\ batch' = "store" /\ failed' = {} /\ mirror_faults > 0
        /\ mirror_faults' = mirror_faults - 1 /\ retry_scanner' = Retried
        /\ errors_marker' = scan /\ UNCHANGED <<chunks, mirrored, marker, saved, seen, passed>>
    BY DEF RetryUnread
  <1>2. scan \in Ranges /\ Retried \in Ranges
    <2>1. RangeOf(failed) \in Ranges
      BY RangeOfIs, MirrorTypes
    <2> QED  BY <2>1, JoinedIs, MirrorTypes
  <1>3. mirror_faults' \in 0..MaxMirrorFaults
    BY <1>1, MirrorAssumption DEF MirrorIInv, MirrorTypeOK
  <1>4. mirrored' = mirrored \cup {} /\ passed' = passed \cup {}
    BY <1>1
  <1>5. scan = Joined(ErrorsLeft, RangeOf(failed))
    OBVIOUS
  <1> HIDE DEF scan
  <1> QED  BY <1>1, <1>2, <1>3, <1>4, <1>5, RetryStep

\* The markers are stored: what is owed is ahead of them.
LEMMA StoreMarkersStep == ASSUME MirrorIInv, StoreMarkers PROVE MirrorIInv'
  <1> DEFINE range == Joined(errors_marker, retry_scanner)
             starts == IF marker # 0 THEN {marker}
                       ELSE {n \in ChunkIds : \A c \in chunks : c <= n}
  <1>1. /\ batch = "store" /\ batch' = "scan"
        /\ UNCHANGED <<chunks, mirrored, marker, retry_scanner, errors_marker, failed,
                       seen, mirror_faults>>
    BY DEF StoreMarkers
  <1>2. PICK start \in starts :
           /\ saved' = [start_marker |-> start, retry_range |-> range]
           /\ passed' = IF marker = 0 THEN passed \cup 1..start ELSE passed
    BY DEF StoreMarkers
  <1>3. range \in Ranges /\ Within(errors_marker) \cup Within(retry_scanner) \subseteq Within(range)
    BY JoinedIs, MirrorTypes
  <1> HIDE DEF range
  <1>4. start \in 0..MaxChunkId /\ marker \in 0..MaxChunkId /\ MaxChunkId \in Nat
    BY MirrorTypes
  <1>5. passed \subseteq passed' /\ passed' \subseteq ChunkIds
    BY <1>2, <1>4, MirrorTypes
  <1>6. saved'.start_marker = start /\ saved'.retry_range = range
    BY <1>2
  <1>7. MirrorTypeOK'
    <2>1. saved' \in [start_marker : 0..MaxChunkId, retry_range : Ranges]
      BY <1>2, <1>3, <1>4
    <2> QED  BY <1>1, <1>5, <2>1 DEF MirrorIInv, MirrorTypeOK
  <1>8. failed = {} /\ FailedInv'
    BY <1>1 DEF MirrorIInv, FailedInv
  <1>9. StoredInv'
    <2>1. CASE marker = 0
      BY <1>2, <1>6, <2>1 DEF StoredInv
    <2>2. CASE marker # 0
      BY <1>1, <1>4, <1>6, <2>2 DEF StoredInv
    <2> QED  BY <2>1, <2>2
  <1>10. Owed' \subseteq Owed /\ \A c \in Owed' : c \notin passed'
    BY <1>1, <1>5 DEF Owed
  <1>11. \A c \in Owed : Ahead(c)
    BY DEF Owed, MirrorIInv, FailedStayAhead
  <1>12. \A c : Ahead(c)' <=> Ahead(c)
    BY <1>1 DEF Ahead, Within
  <1>13. FailedStayAhead'
    BY <1>10, <1>11, <1>12 DEF FailedStayAhead, Owed
  <1>14. ASSUME NEW c \in Owed' PROVE c > start \/ c \in Within(range)
    <2>1. c \in Owed /\ c \notin passed' /\ c \in ChunkIds /\ c \in chunks
      BY <1>10, <1>14, MirrorTypes DEF Owed
    <2>2. c > marker \/ c \in Within(errors_marker) \cup Within(retry_scanner)
      BY <1>8, <1>11, <2>1 DEF Ahead
    <2>3. CASE marker = 0
      BY <1>2, <1>4, <2>1, <2>3 DEF ChunkIds
    <2>4. CASE marker # 0
      BY <1>2, <1>3, <2>2, <2>4
    <2> QED  BY <2>3, <2>4
  <1>15. StoredAhead'
    BY <1>6, <1>14 DEF StoredAhead, Within
  <1> QED  BY <1>7, <1>8, <1>9, <1>13, <1>15 DEF MirrorIInv

\* Steps that leave chunks where they are: an insertion, a scan that read nothing, a store
\* that is skipped, and a restart from what was stored.
LEMMA OtherMirrorSteps ==
    ASSUME MirrorIInv,
           (\E c \in ChunkIds : InsertChunk(c)) \/ ScanUnread \/ SkipStore \/ RestartWriter
              \/ UNCHANGED mirrorVars
    PROVE  MirrorIInv'
  <1>0. /\ mirror_faults \in 0..MaxMirrorFaults /\ MaxMirrorFaults \in Nat
        /\ saved.start_marker \in 0..MaxChunkId /\ saved.retry_range \in Ranges
        /\ MaxChunkId \in Nat
    BY MirrorAssumption DEF MirrorIInv, MirrorTypeOK
  <1>1. CASE (\E c \in ChunkIds : InsertChunk(c)) \/ UNCHANGED mirrorVars
    BY <1>1 DEF InsertChunk, mirrorVars, MirrorIInv, MirrorTypeOK, FailedInv, StoredInv,
                FailedStayAhead, StoredAhead, Owed, Ahead, Within
  <1>2. CASE ScanUnread \/ SkipStore
    <2>1. failed = {} /\ failed' = {} /\ mirror_faults' \in 0..MaxMirrorFaults
      BY <1>0, <1>2 DEF ScanUnread, SkipStore, MirrorIInv, FailedInv
    <2> QED  BY <1>2, <2>1 DEF ScanUnread, SkipStore, MirrorIInv, MirrorTypeOK, FailedInv,
                StoredInv, FailedStayAhead, StoredAhead, Owed, Ahead, Within
  <1>3. CASE RestartWriter
    <2>1. /\ mirror_faults' \in 0..MaxMirrorFaults /\ marker' = saved.start_marker
          /\ errors_marker' = saved.retry_range /\ retry_scanner' = NoRange
          /\ failed' = {} /\ batch' = "scan" /\ UNCHANGED <<chunks, mirrored, saved, seen, passed>>
      BY <1>0, <1>3 DEF RestartWriter
    <2>2. MirrorTypeOK'
      BY <1>0, <2>1, MirrorTypes DEF MirrorIInv, MirrorTypeOK
    <2>3. StoredInv' /\ FailedInv'
      BY <1>0, <2>1 DEF StoredInv, FailedInv
    <2>4. StoredAhead' /\ Owed' = Owed
      BY <2>1 DEF MirrorIInv, StoredAhead, Owed, Within
    <2>5. FailedStayAhead'
      BY <2>1, <2>4 DEF MirrorIInv, StoredAhead, FailedStayAhead, Owed, Ahead, Within
    <2> QED  BY <2>2, <2>3, <2>4, <2>5 DEF MirrorIInv
  <1> QED  BY <1>1, <1>2, <1>3

\* The invariant is inductive.
LEMMA MirrorInvariance == MirrorSpec => []MirrorIInv
  <1>1. MirrorIInv /\ [MirrorNext]_mirrorVars => MirrorIInv'
    BY ScanBatchStep, RetryBatchStep, RetryUnreadStep, StoreMarkersStep, OtherMirrorSteps
       DEF MirrorNext, RunBatch
  <1> QED  BY <1>1, InitMirrorIInv, PTL DEF MirrorSpec

\* Markers, ranges and sets of chunks are well formed: for any number of ids, any size of
\* a batch and any number of faults of MirrorWriter.run_batch.
THEOREM MirrorTypeCorrect == MirrorSpec => []MirrorTypeOK
  <1>1. MirrorIInv => MirrorTypeOK
    BY DEF MirrorIInv
  <1> QED  BY <1>1, MirrorInvariance, PTL

\* A chunk that the scan of MirrorWriter took and that is not mirrored stays ahead of one of
\* its scanners, whatever fails and wherever it restarts, unless it was passed: skipped by the
\* builder, the first of a batch that failed, or below a marker stored before there was one.
THEOREM FailedAhead == MirrorSpec => []FailedStayAhead
  <1>1. MirrorIInv => FailedStayAhead
    BY DEF MirrorIInv
  <1> QED  BY <1>1, MirrorInvariance, PTL

-----------------------------------------------------------------------------
(* The inductive invariant of the nodes monitor: of an item i and the blocks *)
(* S on its drive...                                                       *)

StageNames == {"none", "OFFLINE_GRACE", "REBUILDING", "WIPING"}
Reasons    == {"", "DELETING", "DECOMMISSIONING", "RESTORING"}
StageType  == [name : StageNames, marker : Nat, error : BOOLEAN, error_marker : Nat,
               done : BOOLEAN]
ActType    == [reason : Reasons, stage : StageType, done : BOOLEAN]
BatchType  == [phase : {"none", "query", "build"}, start : Nat, blocks : SUBSET Nat]
ItemType   == [flags : SUBSET Flags, connected : BOOLEAN, beat : {"fresh", "old", "dead"},
               detained : {"no", "recent", "old"}, online : BOOLEAN, act : ActType,
               running : BatchType, timer : BOOLEAN, queued : BOOLEAN, dirty : BOOLEAN,
               removal : {"no", "uninstall", "deleted"}]

\* a batch runs for an activity, and it has no blocks before it looked them up
BatchInv(i) ==
    /\ Running(i) => i.act # NoAct
    /\ i.act.reason = "" => i.act = NoAct
    /\ i.running.phase # "build" => i.running.blocks = {}

\* Only a drive to be restored is in a grace or through with its stage while it rebuilds.
StageInv(act) ==
    /\ act.stage.name = "OFFLINE_GRACE" => act.reason = "RESTORING"
    /\ act.stage.name = "WIPING" => act.reason # "RESTORING"
RestoredInv(act) ==
    act.stage.name = "REBUILDING" /\ act.stage.done = TRUE => act.reason = "RESTORING"

\* a scan goes on before its marker
Beyond(b, mark) == mark = 0 \/ b < mark

\* What is left on the drive while it is wiped: nothing in the end, what a failed batch
\* began with, or else what the scan has still to go over.
WipeInv(stage, work, S) ==
    stage.name = "WIPING" =>
        /\ stage.done = TRUE => S = {}
        /\ stage.error = TRUE => \A x \in S : Beyond(x, stage.error_marker)
        /\ stage.error = FALSE =>
              /\ \A x \in S : Beyond(x, IF work.phase = "none" THEN stage.marker ELSE work.start)
              /\ work.phase = "build" =>
                    \A x \in S : x \in work.blocks \/ (stage.marker # 0 /\ x < stage.marker)

\* A drive that is about to be removed was wiped, and stays so.
RemovalInv(i) ==
    i.removal # "no" =>
        /\ "deleting" \in i.flags
        /\ \/ i.act.reason = "DELETING" /\ i.act.stage.name = "WIPING" /\ i.act.stage.done = TRUE
           \/ "deleted" \in i.flags /\ i.act = NoAct

EmptyInv(i, S) ==
    "decommissioned" \in i.flags \/ "deleted" \in i.flags \/ i.removal # "no" => S = {}

ItemFound(i, S) ==
    /\ i \in ItemType
    /\ BatchInv(i)
    /\ StageInv(i.act)
    /\ WipeInv(i.act.stage, i.running, S)
    /\ RemovalInv(i)
    /\ EmptyInv(i, S)
ItemInv(i, S) == ItemFound(i, S) /\ RestoredInv(i.act)

\* ... which are those that the scan of a wiping stage does not miss...
Scanned == on_node \ left

\* ... and of the monitor and the store, which has what the monitor takes it to have
\* unless an update failed in another way than the monitor took it for.
StoreInv ==
    /\ stored \subseteq Flags /\ known \subseteq Flags
    /\ saving \subseteq Flags \/ saving = NoSave
    /\ misjudged \in BOOLEAN
    /\ misjudged = FALSE => known = stored
    /\ saving # NoSave => Present
    /\ last_block \in Nat /\ on_node \subseteq 1..last_block /\ left \subseteq Nat
    /\ "decommissioned" \in stored \cup saving => Scanned = {}
    /\ "deleted" \in stored \cup saving => "deleted" \in item.flags
    /\ "deleted" \in item.flags /\ Present => item.removal # "no"

NodeIInv == ItemInv(item, Scanned) /\ StoreInv /\ StoreInSync

-----------------------------------------------------------------------------
(* Items: what a handler changes, field by field                           *)

\* An item is a record of its fields.
LEMMA ItemFields ==
    ASSUME NEW i \in ItemType
    PROVE  /\ i.flags \subseteq Flags /\ i.connected \in BOOLEAN /\ i.beat \in {"fresh", "old", "dead"}
           /\ i.detained \in {"no", "recent", "old"} /\ i.online \in BOOLEAN /\ i.act \in ActType
           /\ i.running \in BatchType /\ i.timer \in BOOLEAN /\ i.queued \in BOOLEAN
           /\ i.dirty \in BOOLEAN /\ i.removal \in {"no", "uninstall", "deleted"}
  BY DEF ItemType

\* The records that the handlers begin with.
LEMMA Records ==
    /\ \A name \in StageNames : Stage(name) \in StageType
    /\ NoStage \in StageType
    /\ \A reason \in Reasons : Act(reason) \in ActType
    /\ NoAct \in ActType /\ NoBatch \in BatchType
  <1>1. \A name \in StageNames : Stage(name) \in StageType
    BY DEF Stage, StageType
  <1>2. NoStage \in StageType
    BY <1>1 DEF NoStage, StageNames
  <1>3. \A reason \in Reasons : Act(reason) \in ActType
    BY <1>2 DEF Act, ActType
  <1>4. NoAct \in ActType
    BY <1>3 DEF NoAct, Reasons
  <1>5. NoBatch \in BatchType
    BY DEF NoBatch, BatchType
  <1> QED  BY <1>1, <1>2, <1>3, <1>4, <1>5

\* Another stage, and nothing else.
LEMMA SetStage ==
    ASSUME NEW i \in ItemType, NEW s \in StageType
    PROVE  LET j == [i EXCEPT !.act.stage = s]
           IN  /\ j \in ItemType
               /\ j.act.stage = s /\ j.act.reason = i.act.reason
               /\ j.flags = i.flags /\ j.removal = i.removal /\ j.running = i.running
               /\ j.dirty = i.dirty
  <1>1. i.act \in ActType
    BY ItemFields
  <1>2. [i.act EXCEPT !.stage = s] \in ActType
    BY <1>1 DEF ActType
  <1>3. [i.act EXCEPT !.stage = s].stage = s /\ [i.act EXCEPT !.stage = s].reason = i.act.reason
    BY <1>1 DEF ActType
  <1>4. [i EXCEPT !.act.stage = s] = [i EXCEPT !.act = [i.act EXCEPT !.stage = s]]
    BY DEF ItemType
  <1> QED  BY <1>2, <1>3, <1>4 DEF ItemType

\* Another activity, with or without a batch under way.
LEMMA SetAct ==
    ASSUME NEW i \in ItemType, NEW x \in ActType, NEW r \in BatchType
    PROVE  LET j == [i EXCEPT !.act = x, !.running = r]
           IN  /\ j \in ItemType
               /\ j.act = x /\ j.running = r
               /\ j.flags = i.flags /\ j.removal = i.removal /\ j.dirty = i.dirty
  BY DEF ItemType

-----------------------------------------------------------------------------
(* Every handler ends in _update_status.                                   *)

\* What _update_data_activity_stage makes of an item, and when.
LEMMA StagedIs ==
    ASSUME NEW i \in ItemType, StageInv(i.act)
    PROVE  \/ i.act.reason = "RESTORING" /\ Staged(i) = [i EXCEPT !.act.stage = Stage("OFFLINE_GRACE")]
           \/ i.act.stage.name \in {"none", "OFFLINE_GRACE"} /\ Staged(i) = [i EXCEPT !.act.stage = Stage("REBUILDING")]
           \/ Staged(i) = i /\ i.act.stage.done = FALSE
           \/ i.act.stage.name = "REBUILDING" /\ i.act.reason = "RESTORING" /\ Staged(i) = [i EXCEPT !.act.done = TRUE]
           \/ /\ i.act.stage.name = "REBUILDING" /\ i.act.stage.done = TRUE
              /\ i.act.reason # "RESTORING" /\ Staged(i) = [i EXCEPT !.act.stage = Stage("WIPING")]
           \/ i.act.stage.name = "WIPING" /\ i.act.stage.done = TRUE /\ Staged(i) = Wiped(i)
  <1> DEFINE stage == IF ~InGrace(i) /\ i.act.stage.name = "OFFLINE_GRACE" THEN NoStage ELSE i.act.stage
  <1>0. i.act.stage.name \in StageNames /\ i.act.stage.done \in BOOLEAN
    BY ItemFields DEF ActType, StageType
  <1>n. NoStage.name = "none"
    BY DEF NoStage, Stage
  <1>1. CASE InGrace(i) /\ i.act.reason = "RESTORING"
    <2>1. Staged(i) = [i EXCEPT !.act.stage = Stage("OFFLINE_GRACE")]
      BY <1>1, <1>n DEF Staged
    <2> QED  BY <1>1, <2>1
  <1>2. CASE ~(InGrace(i) /\ i.act.reason = "RESTORING") /\ stage.name = "none"
    <2>1. Staged(i) = [i EXCEPT !.act.stage = Stage("REBUILDING")]
      BY <1>2 DEF Staged
    <2>2. i.act.stage.name \in {"none", "OFFLINE_GRACE"}
      BY <1>2
    <2> QED  BY <2>1, <2>2
  <1>3. CASE ~(InGrace(i) /\ i.act.reason = "RESTORING") /\ stage.name # "none"
    <2>1. stage = i.act.stage /\ i.act.stage.name \in {"REBUILDING", "WIPING"}
      BY <1>0, <1>3, <1>n DEF StageNames, StageInv
    <2> HIDE DEF stage
    <2>2. CASE i.act.stage.done = FALSE
      BY <1>3, <2>1, <2>2 DEF Staged, stage
    <2>3. CASE i.act.stage.done = TRUE
      BY <1>3, <2>1, <2>3 DEF Staged, stage
    <2> QED  BY <1>0, <2>2, <2>3
  <1> QED  BY <1>1, <1>2, <1>3

\* A stage that begins has not come to its end and has had no error.
LEMMA NewStage ==
    ASSUME NEW name \in StageNames
    PROVE  /\ Stage(name) \in StageType
           /\ Stage(name).name = name /\ Stage(name).done = FALSE /\ Stage(name).error = FALSE
           /\ Stage(name).marker = 0
  BY DEF Stage, StageType

\* What the invariant says of an item does not depend on its other fields.
LEMMA SameItem ==
    ASSUME NEW i, NEW S, ItemFound(i, S), NEW j \in ItemType,
           j.act = i.act, j.running = i.running, j.flags = i.flags, j.removal = i.removal
    PROVE  /\ ItemFound(j, S)
           /\ RestoredInv(i.act) => ItemInv(j, S)
  <1>1. BatchInv(j)
    BY DEF ItemFound, BatchInv, Running
  <1>2. StageInv(j.act) /\ WipeInv(j.act.stage, j.running, S)
    BY DEF ItemFound
  <1>3. RemovalInv(j) /\ EmptyInv(j, S)
    BY DEF ItemFound, RemovalInv, EmptyInv
  <1> QED  BY <1>1, <1>2, <1>3 DEF ItemFound, ItemInv

\* A stage that begins keeps the invariant.  One that wipes begins between two batches.
LEMMA StageBegins ==
    ASSUME NEW i, NEW S, ItemFound(i, S), i.act.reason # "", NEW name \in StageNames \ {"none"},
           i.act.stage.name # "WIPING" \/ i.act.reason # "DELETING",
           name = "OFFLINE_GRACE" => i.act.reason = "RESTORING",
           name = "WIPING" => i.act.reason # "RESTORING" /\ i.running = NoBatch /\ i.act.stage.done = TRUE
    PROVE  ItemInv([i EXCEPT !.act.stage = Stage(name)], S)
  <1> DEFINE j == [i EXCEPT !.act.stage = Stage(name)]
  <1>0. i \in ItemType /\ i.act \in ActType /\ i.running \in BatchType
    BY ItemFields DEF ItemFound
  <1>s. /\ Stage(name) \in StageType
        /\ Stage(name).name = name /\ Stage(name).done = FALSE /\ Stage(name).error = FALSE
        /\ Stage(name).marker = 0
    BY NewStage
  <1>1. /\ j \in ItemType
        /\ j.act.stage = Stage(name) /\ j.act.reason = i.act.reason
        /\ j.flags = i.flags /\ j.removal = i.removal /\ j.running = i.running
    BY <1>0, <1>s, SetStage
  <1> HIDE DEF j
  <1>n. NoAct.reason = ""
    BY DEF NoAct, Act
  <1>2. BatchInv(j)
    <2>1. j.act # NoAct
      BY <1>1, <1>n
    <2> QED  BY <1>1, <2>1 DEF ItemFound, BatchInv, Running
  <1>3. StageInv(j.act) /\ RestoredInv(j.act)
    BY <1>1, <1>s DEF StageInv, RestoredInv
  <1>4. WipeInv(j.act.stage, j.running, S)
    <2>1. name = "WIPING" => j.running.phase = "none" /\ j.running.phase # "build"
      <3>1. NoBatch.phase = "none"
        BY DEF NoBatch
      <3> QED  BY <1>1, <3>1
    <2> QED  BY <1>1, <1>s, <2>1 DEF WipeInv, Beyond
  <1>5. i.removal = "no"
    BY <1>n DEF ItemFound, RemovalInv
  <1>6. RemovalInv(j) /\ EmptyInv(j, S)
    BY <1>1, <1>5 DEF ItemFound, RemovalInv, EmptyInv
  <1> QED  BY <1>1, <1>2, <1>3, <1>4, <1>6 DEF ItemFound, ItemInv, j

\* A stage that ended and is the last one of its activity.
LEMMA ActivityEnds ==
    ASSUME NEW i, NEW S, ItemFound(i, S)
    PROVE  /\ i.act.stage.name = "REBUILDING" /\ i.act.reason = "RESTORING" =>
                /\ ItemInv([i EXCEPT !.act.done = TRUE], S)
                /\ [i EXCEPT !.act.done = TRUE].flags = i.flags
                /\ [i EXCEPT !.act.done = TRUE].dirty = i.dirty
           /\ i.act.stage.name = "WIPING" /\ i.act.stage.done = TRUE /\ i.act.reason # "" /\ Reason(i) = i.act.reason =>
                /\ ItemInv(Wiped(i), S)
                /\ Wiped(i).act.done = TRUE
                /\ Wiped(i).dirty = i.dirty
  <1>0. /\ i \in ItemType /\ i.act \in ActType /\ i.running \in BatchType
        /\ i.flags \subseteq Flags /\ i.removal \in {"no", "uninstall", "deleted"}
    BY ItemFields DEF ItemFound
  <1> DEFINE ended == [i.act EXCEPT !.done = TRUE]
  <1>1. /\ ended \in ActType
        /\ ended.stage = i.act.stage /\ ended.reason = i.act.reason /\ ended.done = TRUE
    BY <1>0 DEF ActType
  <1>n. NoAct.reason = "" /\ NoAct.stage.name = "none"
    BY DEF NoAct, Act, NoStage, Stage
  <1>2. ASSUME i.act.stage.name = "REBUILDING", i.act.reason = "RESTORING"
        PROVE  /\ ItemInv([i EXCEPT !.act.done = TRUE], S)
               /\ [i EXCEPT !.act.done = TRUE].flags = i.flags
               /\ [i EXCEPT !.act.done = TRUE].dirty = i.dirty
    <2> DEFINE j == [i EXCEPT !.act.done = TRUE]
    <2>1. /\ j \in ItemType /\ j.act = ended
          /\ j.flags = i.flags /\ j.removal = i.removal /\ j.running = i.running /\ j.dirty = i.dirty
      <3> HIDE DEF ended
      <3>1. j = [i EXCEPT !.act = ended]
        BY DEF ended
      <3> HIDE DEF j
      <3> QED  BY <1>0, <1>1, <3>1 DEF ItemType
    <2> HIDE DEF j, ended
    <2>2. BatchInv(j)
      <3>1. j.act # NoAct /\ j.act.reason # ""
        BY <1>1, <1>2, <1>n, <2>1
      <3> QED  BY <2>1, <3>1 DEF ItemFound, BatchInv, Running
    <2>3. StageInv(j.act) /\ RestoredInv(j.act) /\ WipeInv(j.act.stage, j.running, S)
      BY <1>1, <1>2, <2>1 DEF ItemFound, StageInv, RestoredInv
    <2>4. RemovalInv(j) /\ EmptyInv(j, S)
      BY <1>2, <1>n, <2>1 DEF ItemFound, RemovalInv, EmptyInv
    <2> QED  BY <2>1, <2>2, <2>3, <2>4 DEF ItemFound, ItemInv, j
  <1>3. ASSUME i.act.stage.name = "WIPING", i.act.stage.done = TRUE, i.act.reason # "",
               Reason(i) = i.act.reason
        PROVE  ItemInv(Wiped(i), S) /\ Wiped(i).act.done = TRUE /\ Wiped(i).dirty = i.dirty
    <2> DEFINE j == Wiped(i)
               f == IF "decommissioning" \in i.flags THEN i.flags \cup {"decommissioned"} ELSE i.flags
               m == IF "deleting" \in i.flags /\ i.removal = "no" THEN "uninstall" ELSE i.removal
    <2>0. f \subseteq Flags /\ m \in {"no", "uninstall", "deleted"}
      BY <1>0 DEF Flags
    <2>1. /\ j \in ItemType /\ j.act = ended
          /\ j.flags = f /\ j.removal = m /\ j.running = i.running /\ j.dirty = i.dirty
      <3> HIDE DEF ended
      <3>1. j = [i EXCEPT !.flags = f, !.removal = m, !.act = ended]
        BY <1>0 DEF ended, Wiped, ItemType
      <3> HIDE DEF j, f, m
      <3> QED  BY <1>0, <1>1, <2>0, <3>1 DEF ItemType
    <2> HIDE DEF j, ended
    <2>2. BatchInv(j)
      <3>1. j.act # NoAct /\ j.act.reason # ""
        BY <1>1, <1>3, <1>n, <2>1
      <3> QED  BY <2>1, <3>1 DEF ItemFound, BatchInv, Running
    <2>3. StageInv(j.act) /\ RestoredInv(j.act) /\ WipeInv(j.act.stage, j.running, S)
      BY <1>1, <1>3, <2>1 DEF ItemFound, StageInv, RestoredInv
    <2>4. S = {}
      BY <1>3 DEF ItemFound, WipeInv
    <2>5. "deleted" \notin i.flags /\ ("deleting" \in i.flags => i.act.reason = "DELETING")
      BY <1>3 DEF Reason
    <2>7. RemovalInv(j)
      <3>1. m # "no" => "deleting" \in i.flags
        BY DEF ItemFound, RemovalInv
      <3> HIDE DEF m
      <3> QED  BY <1>1, <1>3, <2>1, <2>5, <3>1 DEF RemovalInv
    <2>8. EmptyInv(j, S)
      BY <2>4 DEF EmptyInv
    <2> QED  BY <1>1, <2>1, <2>2, <2>3, <2>7, <2>8 DEF ItemFound, ItemInv, j
  <1> QED  BY <1>2, <1>3

\* _update_data_activity_stage keeps the invariant, also when a batch that ended brought
\* a stage to its end.  Flags it adds come with an activity that is done.
LEMMA StagedKeeps ==
    ASSUME NEW i, NEW S, ItemFound(i, S), RestoredInv(i.act) \/ i.running = NoBatch,
           i.act.reason # "", Reason(i) = i.act.reason
    PROVE  /\ ItemInv(Staged(i), S)
           /\ Staged(i).flags # i.flags => Staged(i).act.done = TRUE
           /\ Staged(i).dirty = i.dirty
  <1>0. i \in ItemType /\ StageInv(i.act) /\ NoStage.name = "none"
    BY DEF ItemFound, NoStage, Stage
  <1>r. i.act.reason = "DELETING" => i.act.reason # "RESTORING"
    OBVIOUS
  <1>s. ASSUME NEW name \in {"OFFLINE_GRACE", "REBUILDING", "WIPING"}
        PROVE  LET j == [i EXCEPT !.act.stage = Stage(name)] IN j.flags = i.flags /\ j.dirty = i.dirty
    BY <1>0, NewStage, SetStage DEF StageNames
  <1>1. CASE i.act.reason = "RESTORING" /\ Staged(i) = [i EXCEPT !.act.stage = Stage("OFFLINE_GRACE")]
    <2>1. ItemInv([i EXCEPT !.act.stage = Stage("OFFLINE_GRACE")], S)
      BY <1>1, StageBegins DEF StageNames
    <2> QED  BY <1>1, <1>s, <2>1
  <1>2. CASE i.act.stage.name \in {"none", "OFFLINE_GRACE"} /\ Staged(i) = [i EXCEPT !.act.stage = Stage("REBUILDING")]
    <2>1. ItemInv([i EXCEPT !.act.stage = Stage("REBUILDING")], S)
      BY <1>2, StageBegins DEF StageNames
    <2> QED  BY <1>2, <1>s, <2>1
  <1>3. CASE Staged(i) = i /\ i.act.stage.done = FALSE
    BY <1>3 DEF ItemInv, RestoredInv
  <1>4. CASE i.act.stage.name = "REBUILDING" /\ i.act.reason = "RESTORING" /\ Staged(i) = [i EXCEPT !.act.done = TRUE]
    BY <1>4, ActivityEnds
  <1>5. CASE /\ i.act.stage.name = "REBUILDING" /\ i.act.stage.done = TRUE
             /\ i.act.reason # "RESTORING" /\ Staged(i) = [i EXCEPT !.act.stage = Stage("WIPING")]
    <2>1. i.running = NoBatch
      BY <1>5 DEF RestoredInv
    <2>2. ItemInv([i EXCEPT !.act.stage = Stage("WIPING")], S)
      BY <1>5, <2>1, StageBegins DEF StageNames
    <2> QED  BY <1>5, <1>s, <2>2
  <1>6. CASE i.act.stage.name = "WIPING" /\ i.act.stage.done = TRUE /\ Staged(i) = Wiped(i)
    BY <1>6, ActivityEnds
  <1> QED  BY <1>0, <1>1, <1>2, <1>3, <1>4, <1>5, <1>6, StagedIs

\* _update_data_activity_schedule changes neither activity nor flags, and marks a node
\* whose activity is done for update.
LEMMA ScheduledIs ==
    ASSUME NEW i \in ItemType
    PROVE  /\ Scheduled(i) \in ItemType
           /\ Scheduled(i).act = i.act /\ Scheduled(i).running = i.running
           /\ Scheduled(i).flags = i.flags /\ Scheduled(i).removal = i.removal
           /\ i.dirty = TRUE \/ i.act.done = TRUE => Scheduled(i).dirty = TRUE
  <1> DEFINE both   == [i EXCEPT !.queued = FALSE, !.dirty = TRUE]
             taken  == [i EXCEPT !.queued = FALSE]
             timed  == [i EXCEPT !.timer = TRUE]
  <1>1. /\ both \in ItemType /\ both.act = i.act /\ both.running = i.running /\ both.flags = i.flags
        /\ both.removal = i.removal /\ both.dirty = TRUE
    BY DEF ItemType
  <1>2. /\ taken \in ItemType /\ taken.act = i.act /\ taken.running = i.running /\ taken.flags = i.flags
        /\ taken.removal = i.removal /\ taken.dirty = i.dirty
    BY DEF ItemType
  <1>3. /\ timed \in ItemType /\ timed.act = i.act /\ timed.running = i.running /\ timed.flags = i.flags
        /\ timed.removal = i.removal /\ timed.dirty = i.dirty
    BY DEF ItemType
  <1>4. i.act.done = TRUE => Scheduled(i) = both
    BY DEF Scheduled
  <1>5. i.act.done \in BOOLEAN
    BY ItemFields DEF ActType
  <1>6. i.act.done = FALSE => Scheduled(i) \in {taken, i, timed}
    BY DEF Scheduled, Schedule
  <1> HIDE DEF both, taken, timed
  <1>7. CASE i.act.done = TRUE
    BY <1>1, <1>4, <1>7
  <1>8. CASE i.act.done = FALSE
    BY <1>2, <1>3, <1>6, <1>8
  <1> QED  BY <1>5, <1>7, <1>8

\* _update_data_activity: so does the rest.
LEMMA UpdateActivityKeeps ==
    ASSUME NEW i, NEW S, ItemFound(i, S), RestoredInv(i.act) \/ i.running = NoBatch
    PROVE  /\ ItemInv(UpdateActivity(i), S)
           /\ i.dirty = TRUE => UpdateActivity(i).dirty = TRUE
           /\ UpdateActivity(i).flags # i.flags => UpdateActivity(i).dirty = TRUE
  <1>0. i \in ItemType
    BY DEF ItemFound
  <1>n. /\ NoAct.reason = "" /\ NoAct.stage.name = "none" /\ NoBatch.phase = "none" /\ NoBatch.blocks = {}
    BY DEF NoAct, Act, NoStage, Stage, NoBatch
  <1>1. CASE Reason(i) = ""
    <2> DEFINE j == [i EXCEPT !.act = NoAct, !.running = NoBatch]
               k == [i EXCEPT !.act = NoAct, !.running = NoBatch, !.queued = FALSE]
    <2>1. /\ k \in ItemType /\ k.act = NoAct /\ k.running = NoBatch
          /\ k.flags = i.flags /\ k.removal = i.removal /\ k.dirty = i.dirty
      BY <1>0, Records DEF ItemType
    <2>2. UpdateActivity(i) = k
      BY <1>1 DEF UpdateActivity
    <2> HIDE DEF k
    <2>3. BatchInv(k) /\ StageInv(k.act) /\ RestoredInv(k.act) /\ WipeInv(k.act.stage, k.running, S)
      BY <1>n, <2>1 DEF BatchInv, Running, StageInv, RestoredInv, WipeInv
    <2>4. "deleting" \in i.flags => "deleted" \in i.flags
      BY <1>1 DEF Reason
    <2>5. RemovalInv(k) /\ EmptyInv(k, S)
      BY <2>1, <2>4 DEF ItemFound, RemovalInv, EmptyInv
    <2> QED  BY <2>1, <2>2, <2>3, <2>5 DEF ItemFound, ItemInv
  <1>2. CASE Reason(i) # ""
    <2> DEFINE j == [i EXCEPT !.act = Act(Reason(i)), !.running = NoBatch]
               k == IF i.act.reason = Reason(i) THEN i ELSE j
    <2>r. Reason(i) \in Reasons
      BY DEF Reason, Reasons
    <2>a. Act(Reason(i)).reason = Reason(i) /\ Act(Reason(i)).stage.name = "none"
      BY DEF Act, NoStage, Stage
    <2>s. "deleted" \notin i.flags /\ ("deleting" \in i.flags => Reason(i) = "DELETING")
      BY <1>2 DEF Reason
    <2>1. UpdateActivity(i) = Scheduled(Staged(k))
      BY <1>2 DEF UpdateActivity
    <2>2. /\ ItemFound(k, S) /\ k.act.reason = Reason(i) /\ Reason(k) = Reason(i)
          /\ RestoredInv(k.act) \/ k.running = NoBatch
          /\ k.flags = i.flags /\ k.dirty = i.dirty
      <3>1. CASE i.act.reason = Reason(i)
        BY <3>1
      <3>2. CASE i.act.reason # Reason(i)
        <4>1. /\ j \in ItemType /\ j.act = Act(Reason(i)) /\ j.running = NoBatch
              /\ j.flags = i.flags /\ j.removal = i.removal /\ j.dirty = i.dirty
              /\ j.online = i.online /\ j.detained = i.detained
          BY <1>0, <2>r, Records DEF ItemType
        <4> HIDE DEF j
        <4>2. Reason(j) = Reason(i)
          BY <4>1 DEF Reason
        <4>3. BatchInv(j) /\ StageInv(j.act) /\ RestoredInv(j.act) /\ WipeInv(j.act.stage, j.running, S)
          BY <1>2, <1>n, <2>a, <4>1 DEF BatchInv, Running, StageInv, RestoredInv, WipeInv
        <4>4. i.removal = "no"
          BY <1>2, <2>s, <3>2 DEF ItemFound, RemovalInv
        <4>5. RemovalInv(j) /\ EmptyInv(j, S)
          BY <4>1, <4>4 DEF ItemFound, RemovalInv, EmptyInv
        <4>6. k = j
          BY <3>2
        <4> QED  BY <2>a, <4>1, <4>2, <4>3, <4>5, <4>6 DEF ItemFound
      <3> QED  BY <3>1, <3>2
    <2> HIDE DEF k
    <2>3. /\ ItemInv(Staged(k), S)
          /\ Staged(k).flags # k.flags => Staged(k).act.done = TRUE
          /\ Staged(k).dirty = k.dirty
      BY <1>2, <2>2, StagedKeeps
    <2> DEFINE m == Staged(k)
    <2> HIDE DEF m
    <2>4. m \in ItemType /\ ItemFound(m, S) /\ RestoredInv(m.act)
      BY <2>3 DEF ItemInv, ItemFound, m
    <2>5. /\ Scheduled(m) \in ItemType
          /\ Scheduled(m).act = m.act /\ Scheduled(m).running = m.running
          /\ Scheduled(m).flags = m.flags /\ Scheduled(m).removal = m.removal
          /\ m.dirty = TRUE \/ m.act.done = TRUE => Scheduled(m).dirty = TRUE
      BY <2>4, ScheduledIs
    <2>6. ItemInv(Scheduled(m), S)
      BY <2>4, <2>5, SameItem
    <2> QED  BY <2>1, <2>2, <2>3, <2>5, <2>6 DEF m
  <1> QED  BY <1>1, <1>2

\* No flag is taken back there, none but that of a deactivation is set, and a drive that
\* is ready to be removed stays so.
Moves(i, j) ==
    /\ j.flags = i.flags \/ j.flags = i.flags \cup {"decommissioned"}
    /\ i.removal # "no" => j.removal = i.removal

LEMMA UpdateActivityMoves ==
    ASSUME NEW i \in ItemType, StageInv(i.act)
    PROVE  Moves(i, UpdateActivity(i))
  <1>1. ASSUME NEW k \in ItemType, StageInv(k.act) PROVE Moves(k, Staged(k)) /\ Staged(k) \in ItemType
    <2>1. ASSUME NEW name \in StageNames
          PROVE  Moves(k, [k EXCEPT !.act.stage = Stage(name)]) /\ [k EXCEPT !.act.stage = Stage(name)] \in ItemType
      BY NewStage, SetStage DEF Moves
    <2>2. CASE Staged(k) = [k EXCEPT !.act.done = TRUE]
      <3> DEFINE ended == [k.act EXCEPT !.done = TRUE]
      <3>1. ended \in ActType
        BY ItemFields DEF ActType
      <3>2. Staged(k) = [k EXCEPT !.act = ended]
        BY <2>2
      <3> HIDE DEF ended
      <3> QED  BY <3>1, <3>2 DEF Moves, ItemType
    <2>3. CASE Staged(k) = Wiped(k)
      <3> DEFINE ended == [k.act EXCEPT !.done = TRUE]
                 f == IF "decommissioning" \in k.flags THEN k.flags \cup {"decommissioned"} ELSE k.flags
                 m == IF "deleting" \in k.flags /\ k.removal = "no" THEN "uninstall" ELSE k.removal
      <3>1. ended \in ActType /\ f \subseteq Flags /\ m \in {"no", "uninstall", "deleted"}
        BY ItemFields DEF ActType, Flags
      <3>2. (f = k.flags \/ f = k.flags \cup {"decommissioned"}) /\ (k.removal # "no" => m = k.removal)
        OBVIOUS
      <3>3. Staged(k) = [k EXCEPT !.flags = f, !.removal = m, !.act = ended]
        BY <2>3 DEF Wiped, ItemType
      <3> HIDE DEF ended, f, m
      <3> QED  BY <3>1, <3>2, <3>3 DEF Moves, ItemType
    <2>4. CASE Staged(k) = k
      BY <2>4 DEF Moves
    <2> QED  BY <1>1, <2>1, <2>2, <2>3, <2>4, StagedIs DEF StageNames
  <1>2. CASE Reason(i) = ""
    <2> DEFINE k == [i EXCEPT !.act = NoAct, !.running = NoBatch, !.queued = FALSE]
    <2>1. k.flags = i.flags /\ k.removal = i.removal
      BY DEF ItemType
    <2>2. UpdateActivity(i) = k
      BY <1>2 DEF UpdateActivity
    <2> HIDE DEF k
    <2> QED  BY <2>1, <2>2 DEF Moves
  <1>3. CASE Reason(i) # ""
    <2> DEFINE j == [i EXCEPT !.act = Act(Reason(i)), !.running = NoBatch]
               k == IF i.act.reason = Reason(i) THEN i ELSE j
    <2>1. j \in ItemType /\ j.flags = i.flags /\ j.removal = i.removal /\ j.act = Act(Reason(i))
      <3>1. Act(Reason(i)) \in ActType
        BY Records DEF Reason, Reasons
      <3> QED  BY <3>1, Records DEF ItemType
    <2>2. StageInv(j.act)
      BY <2>1 DEF StageInv, Act, NoStage, Stage
    <2> HIDE DEF j
    <2>3. k \in ItemType /\ StageInv(k.act) /\ k.flags = i.flags /\ k.removal = i.removal
      BY <2>1, <2>2
    <2>4. UpdateActivity(i) = Scheduled(Staged(k))
      BY <1>3 DEF UpdateActivity, j
    <2> HIDE DEF k
    <2>5. Moves(k, Staged(k)) /\ Staged(k) \in ItemType
      BY <1>1, <2>3
    <2>6. Scheduled(Staged(k)).flags = Staged(k).flags /\ Scheduled(Staged(k)).removal = Staged(k).removal
      BY <2>5, ScheduledIs
    <2> QED  BY <2>3, <2>4, <2>5, <2>6 DEF Moves
  <1> QED  BY <1>2, <1>3

\* What every handler makes of an item: the invariant holds, and flags that changed are
\* marked for update.
Settles(i, j, S) ==
    /\ ItemInv(j, S)
    /\ i.dirty = TRUE => j.dirty = TRUE
    /\ j.flags # i.flags => j.dirty = TRUE
    /\ Moves(i, j)

LEMMA UpdateSettles ==
    ASSUME NEW i, NEW S, ItemFound(i, S), RestoredInv(i.act) \/ i.running = NoBatch
    PROVE  Settles(i, UpdateActivity(i), S)
  BY UpdateActivityKeeps, UpdateActivityMoves DEF Settles, ItemFound

LEMMA StatusSettles ==
    ASSUME NEW i, NEW S, ItemInv(i, S)
    PROVE  Settles(i, UpdateStatus(i), S)
  <1> DEFINE online == i.connected /\ i.beat # "dead"
             gone   == i.connected /\ ~online
             dirty  == i.dirty \/ gone
             j      == [i EXCEPT !.online = online, !.connected = online, !.dirty = dirty]
  <1>0. i \in ItemType /\ ItemFound(i, S) /\ RestoredInv(i.act)
    BY DEF ItemInv, ItemFound
  <1>1. online \in BOOLEAN /\ dirty \in BOOLEAN /\ (i.dirty = TRUE => dirty = TRUE)
    BY <1>0, ItemFields
  <1>2. UpdateStatus(i) = UpdateActivity(j)
    BY DEF UpdateStatus
  <1> HIDE DEF online, dirty
  <1>3. /\ j \in ItemType /\ j.act = i.act /\ j.running = i.running /\ j.flags = i.flags
        /\ j.removal = i.removal /\ j.dirty = dirty
    BY <1>0, <1>1 DEF ItemType
  <1> HIDE DEF j
  <1>4. ItemFound(j, S) /\ RestoredInv(j.act)
    BY <1>0, <1>3, SameItem
  <1>5. Settles(j, UpdateActivity(j), S)
    BY <1>4, UpdateSettles
  <1> QED  BY <1>1, <1>2, <1>3, <1>5 DEF Settles, Moves

-----------------------------------------------------------------------------
(* Steps of the monitor                                                    *)

\* A step of the monitor that puts nothing on the drive and leaves the store alone, and
\* marks the flags it changed for update.
LEMMA DriveStep ==
    ASSUME NodeIInv, StoreUnmoved, last_block' = last_block, on_node' \subseteq on_node,
           left \subseteq left', left' \subseteq Nat, ItemInv(item', Scanned'),
           item'.dirty = FALSE => item.dirty = FALSE /\ item'.flags = item.flags,
           "deleted" \in item'.flags <=> "deleted" \in item.flags,
           item.removal # "no" => item'.removal # "no"
    PROVE  NodeIInv'
  <1>1. ItemInv(item, Scanned)'
    OBVIOUS
  <1>2. (Present' <=> Present) /\ UNCHANGED <<stored, known, saving, misjudged>>
    BY DEF Present, StoreUnmoved
  <1>3. Scanned' \subseteq Scanned
    BY DEF Scanned
  <1>4. StoreInv'
    BY <1>2, <1>3 DEF NodeIInv, StoreInv
  <1>5. item.dirty \in BOOLEAN /\ item'.dirty \in BOOLEAN
    BY ItemFields DEF NodeIInv, ItemInv, ItemFound
  <1>6. StoreInSync'
    BY <1>2, <1>5 DEF NodeIInv, StoreInSync
  <1> QED  BY <1>1, <1>4, <1>6 DEF NodeIInv

\* The same of a step that leaves the blocks alone as well.
LEMMA StoreStep ==
    ASSUME NodeIInv, NodeUnmoved, ItemInv(item', Scanned),
           item'.dirty = FALSE => item.dirty = FALSE /\ item'.flags = item.flags,
           "deleted" \in item'.flags <=> "deleted" \in item.flags,
           item.removal # "no" => item'.removal # "no"
    PROVE  NodeIInv'
  <1>1. /\ StoreUnmoved /\ last_block' = last_block /\ on_node' \subseteq on_node
        /\ left \subseteq left' /\ left' \subseteq Nat
    BY DEF NodeUnmoved, NodeIInv, StoreInv
  <1>2. Scanned' = Scanned
    BY DEF NodeUnmoved, Scanned
  <1> QED  BY <1>1, <1>2, DriveStep

\* A handler changes the item, and ends in _update_status.
LEMMA HandlerStep ==
    ASSUME NodeIInv, NodeUnmoved, NEW i, Settles(i, item', Scanned),
           i.dirty = TRUE \/ (i.dirty = item.dirty /\ i.flags = item.flags),
           "deleted" \in i.flags <=> "deleted" \in item.flags,
           i.removal = item.removal
    PROVE  NodeIInv'
  <1>1. ItemInv(item', Scanned)
    BY DEF Settles
  <1>2. item.dirty \in BOOLEAN /\ item'.dirty \in BOOLEAN
    BY <1>1, ItemFields DEF NodeIInv, ItemInv, ItemFound
  <1>3. item'.dirty = FALSE => item.dirty = FALSE /\ item'.flags = item.flags
    BY <1>2 DEF Settles
  <1>4. "deleted" \in item'.flags <=> "deleted" \in item.flags
    BY DEF Settles, Moves
  <1>5. item.removal # "no" => item'.removal # "no"
    BY DEF Settles, Moves
  <1> QED  BY <1>1, <1>3, <1>4, <1>5, StoreStep

\* What the invariant needs of an item before the handler ends: other flags.
LEMMA OtherFlags ==
    ASSUME NodeIInv, NEW i \in ItemType, i.act = item.act, i.running = item.running,
           i.removal = item.removal,
           "decommissioned" \in i.flags => "decommissioned" \in item.flags,
           "deleted" \in i.flags <=> "deleted" \in item.flags,
           "deleting" \in item.flags => "deleting" \in i.flags
    PROVE  ItemInv(i, Scanned)
  <1>1. ItemFound(item, Scanned) /\ RestoredInv(item.act)
    BY DEF NodeIInv, ItemInv
  <1>2. BatchInv(i) /\ StageInv(i.act) /\ WipeInv(i.act.stage, i.running, Scanned)
    BY <1>1 DEF ItemFound, BatchInv, Running
  <1>3. RemovalInv(i) /\ EmptyInv(i, Scanned)
    BY <1>1 DEF ItemFound, RemovalInv, EmptyInv
  <1> QED  BY <1>1, <1>2, <1>3 DEF ItemInv, ItemFound

\* Connections, heartbeats and the periodic run.
LEMMA ConnectionStep ==
    ASSUME NodeIInv, Connect \/ DisconnectNode \/ Age \/ RunNode \/ TestNode
    PROVE  NodeIInv'
  <1>0. item \in ItemType
    BY DEF NodeIInv, ItemInv, ItemFound
  <1>a. ASSUME NEW i \in ItemType, i.act = item.act, i.running = item.running,
               i.removal = item.removal, i.flags = item.flags
        PROVE  ItemInv(i, Scanned)
    BY <1>a, OtherFlags
  <1>1. CASE Connect
    <2> DEFINE i == [item EXCEPT !.connected = TRUE, !.beat = "fresh", !.dirty = TRUE]
    <2>1. /\ i \in ItemType /\ i.act = item.act /\ i.running = item.running
          /\ i.removal = item.removal /\ i.flags = item.flags /\ i.dirty = TRUE
      BY <1>0 DEF ItemType
    <2>2. item' = UpdateStatus(i) /\ NodeUnmoved
      BY <1>1 DEF Connect
    <2> HIDE DEF i
    <2> QED  BY <1>a, <2>1, <2>2, StatusSettles, HandlerStep
  <1>2. CASE DisconnectNode
    <2> DEFINE i == [item EXCEPT !.connected = FALSE, !.dirty = TRUE]
    <2>1. /\ i \in ItemType /\ i.act = item.act /\ i.running = item.running
          /\ i.removal = item.removal /\ i.flags = item.flags /\ i.dirty = TRUE
      BY <1>0 DEF ItemType
    <2>2. item' = UpdateStatus(i) /\ NodeUnmoved
      BY <1>2 DEF DisconnectNode
    <2> HIDE DEF i
    <2> QED  BY <1>a, <2>1, <2>2, StatusSettles, HandlerStep
  <1>3. CASE Age
    <2>1. /\ item' \in ItemType /\ item'.act = item.act /\ item'.running = item.running
          /\ item'.removal = item.removal /\ item'.flags = item.flags /\ item'.dirty = item.dirty
      BY <1>0, <1>3 DEF Age, ItemType
    <2>2. NodeUnmoved
      BY <1>3 DEF Age
    <2> QED  BY <1>a, <2>1, <2>2, StoreStep
  <1>4. CASE RunNode
    <2> DEFINE i == [item EXCEPT !.beat = "fresh", !.dirty = TRUE]
    <2>1. /\ i \in ItemType /\ i.act = item.act /\ i.running = item.running
          /\ i.removal = item.removal /\ i.flags = item.flags /\ i.dirty = TRUE
      BY <1>0 DEF ItemType
    <2>2. (item' = UpdateStatus(i) \/ item' = UpdateStatus(item)) /\ NodeUnmoved
      BY <1>4 DEF RunNode
    <2> HIDE DEF i
    <2>3. CASE item' = UpdateStatus(i)
      BY <1>a, <2>1, <2>2, <2>3, StatusSettles, HandlerStep
    <2>4. CASE item' = UpdateStatus(item)
      <3>1. ItemInv(item, Scanned)
        BY DEF NodeIInv
      <3> QED  BY <2>2, <2>4, <3>1, StatusSettles, HandlerStep
    <2> QED  BY <2>2, <2>3, <2>4
  <1>5. CASE TestNode
    <2> DEFINE d == IF item.detained = "no" THEN "recent" ELSE "no"
               i == [item EXCEPT !.detained = d]
    <2>1. /\ i \in ItemType /\ i.act = item.act /\ i.running = item.running
          /\ i.removal = item.removal /\ i.flags = item.flags /\ i.dirty = item.dirty
      BY <1>0 DEF ItemType
    <2>2. item' = UpdateStatus(i) /\ NodeUnmoved
      BY <1>5 DEF TestNode
    <2> HIDE DEF i
    <2> QED  BY <1>a, <2>1, <2>2, StatusSettles, HandlerStep
  <1> QED  BY <1>1, <1>2, <1>3, <1>4, <1>5

\* The calls of users, and a drive that is hidden.
LEMMA UserStep ==
    ASSUME NodeIInv, DecommissionNode \/ RecommissionNode \/ DeleteNode \/ HideNode
    PROVE  NodeIInv'
  <1>0. item \in ItemType /\ item.flags \subseteq Flags
    BY ItemFields DEF NodeIInv, ItemInv, ItemFound
  <1>1. ASSUME NEW f, f \subseteq Flags, NodeUnmoved,
               item' = UpdateStatus([item EXCEPT !.flags = f, !.dirty = TRUE]),
               "decommissioned" \in f => "decommissioned" \in item.flags,
               "deleted" \in f <=> "deleted" \in item.flags,
               "deleting" \in item.flags => "deleting" \in f
        PROVE  NodeIInv'
    <2> DEFINE i == [item EXCEPT !.flags = f, !.dirty = TRUE]
    <2>1. /\ i \in ItemType /\ i.act = item.act /\ i.running = item.running
          /\ i.removal = item.removal /\ i.flags = f /\ i.dirty = TRUE
      BY <1>0, <1>1 DEF ItemType
    <2>2. item' = UpdateStatus(i) /\ NodeUnmoved
      BY <1>1
    <2> HIDE DEF i
    <2>3. ItemInv(i, Scanned)
      BY <1>1, <2>1, OtherFlags
    <2> QED  BY <1>1, <2>1, <2>2, <2>3, StatusSettles, HandlerStep
  <1>2. ASSUME NEW flag \in {"decommissioning", "deleting", "hidden"}, NodeUnmoved,
               item' = UpdateStatus([item EXCEPT !.flags = @ \cup {flag}, !.dirty = TRUE])
        PROVE  NodeIInv'
    <2>1. [item EXCEPT !.flags = @ \cup {flag}, !.dirty = TRUE]
            = [item EXCEPT !.flags = item.flags \cup {flag}, !.dirty = TRUE]
      OBVIOUS
    <2>2. item.flags \cup {flag} \subseteq Flags
      BY <1>0 DEF Flags
    <2> QED  BY <1>1, <1>2, <2>1, <2>2
  <1>3. CASE DecommissionNode
    BY <1>2, <1>3 DEF DecommissionNode, SetFlag
  <1>4. CASE DeleteNode
    BY <1>2, <1>4 DEF DeleteNode, SetFlag
  <1>5. CASE HideNode
    BY <1>2, <1>5 DEF HideNode
  <1>6. CASE RecommissionNode
    <2> DEFINE f == item.flags \ {"decommissioning", "decommissioned"}
    <2>1. item' = UpdateStatus([item EXCEPT !.flags = f, !.dirty = TRUE]) /\ NodeUnmoved
      BY <1>6 DEF RecommissionNode
    <2>2. /\ f \subseteq Flags
          /\ "decommissioned" \in f => "decommissioned" \in item.flags
          /\ "deleted" \in f <=> "deleted" \in item.flags
          /\ "deleting" \in item.flags => "deleting" \in f
      BY <1>0
    <2> HIDE DEF f
    <2> QED  BY <1>1, <2>1, <2>2
  <1> QED  BY <1>3, <1>4, <1>5, <1>6

\* An agent is uninstalled, a timer fires, and the worker takes what is queued.
LEMMA WorkerStep ==
    ASSUME NodeIInv, UninstallNode \/ RebuildTimer \/ RebuildWorker
    PROVE  NodeIInv'
  <1>0. item \in ItemType /\ ItemInv(item, Scanned)
    BY DEF NodeIInv, ItemInv, ItemFound
  <1>1. CASE UninstallNode
    <2>1. item.removal = "uninstall" /\ NodeUnmoved /\ item' = [item EXCEPT !.removal = "deleted"]
      BY <1>1 DEF UninstallNode
    <2>2. /\ item' \in ItemType /\ item'.act = item.act /\ item'.running = item.running
          /\ item'.removal = "deleted" /\ item'.flags = item.flags /\ item'.dirty = item.dirty
      BY <1>0, <2>1 DEF ItemType
    <2>3. ItemInv(item', Scanned)
      BY <1>0, <2>1, <2>2 DEF ItemInv, ItemFound, BatchInv, Running, RemovalInv, EmptyInv
    <2> QED  BY <2>1, <2>2, <2>3, StoreStep
  <1>2. CASE RebuildTimer \/ (RebuildWorker /\ item' = [item EXCEPT !.queued = FALSE])
    <2>1. /\ item' \in ItemType /\ item'.act = item.act /\ item'.running = item.running
          /\ item'.removal = item.removal /\ item'.flags = item.flags /\ item'.dirty = item.dirty
      BY <1>0, <1>2 DEF RebuildTimer, ItemType
    <2>2. NodeUnmoved
      BY <1>2 DEF RebuildTimer, RebuildWorker
    <2> QED  BY <2>1, <2>2, OtherFlags, StoreStep
  <1>3. CASE RebuildWorker /\ item' # [item EXCEPT !.queued = FALSE]
    <2> DEFINE work == [phase |-> "query", start |-> item.act.stage.marker, blocks |-> {}]
    <2>0. item.act.stage.marker \in Nat
      BY <1>0, ItemFields DEF ActType, StageType
    <2>1. work \in BatchType /\ work.phase = "query" /\ work.start = item.act.stage.marker /\ work.blocks = {}
      BY <2>0 DEF BatchType
    <2>2. item.act # NoAct /\ ~Running(item) /\ NodeUnmoved /\ item' = [item EXCEPT !.queued = FALSE, !.running = work]
      BY <1>3 DEF RebuildWorker
    <2> HIDE DEF work
    <2>3. /\ item' \in ItemType /\ item'.act = item.act /\ item'.running = work
          /\ item'.removal = item.removal /\ item'.flags = item.flags /\ item'.dirty = item.dirty
      BY <1>0, <2>1, <2>2 DEF ItemType
    <2>4. WipeInv(item.act.stage, work, Scanned)
      BY <1>0, <2>1, <2>2 DEF ItemInv, ItemFound, WipeInv, Running
    <2>5. ItemInv(item', Scanned)
      BY <1>0, <2>1, <2>2, <2>3, <2>4 DEF ItemInv, ItemFound, BatchInv, RemovalInv, EmptyInv
    <2> QED  BY <2>2, <2>3, <2>5, StoreStep
  <1> QED  BY <1>1, <1>2, <1>3

-----------------------------------------------------------------------------
(* Rebuilding                                                              *)

\* A batch takes the latest blocks that the scan has still to go over: when it is empty
\* nothing is left before the marker, and otherwise what is left is before its first block.
LEMMA NextBlocksAre ==
    ASSUME NEW mark \in Nat, last_block \in Nat, on_node \subseteq 1..last_block
    PROVE  LET found == NextBlocks(mark)
           IN  /\ found \subseteq on_node
               /\ found = {} => \A x \in on_node : ~Beyond(x, mark)
               /\ found # {} =>
                     /\ Min(found) \in Nat \ {0}
                     /\ \A x \in on_node : Beyond(x, mark) => x \in found \/ x < Min(found)
  <1> DEFINE before == {x \in on_node : mark = 0 \/ x < mark}
             from(x) == {d \in before : d >= x}
             found == NextBlocks(mark)
  <1>0. RebuildBatch \in Nat \ {0}
    BY NodesAssumption
  <1>1. found = {x \in before : Cardinality(from(x)) <= RebuildBatch}
    BY DEF NextBlocks
  <1>2. before \subseteq on_node /\ before \subseteq 1..last_block /\ before \subseteq Nat \ {0}
    <2>1. before \subseteq on_node /\ before \subseteq 1..last_block
      OBVIOUS
    <2>2. 1..last_block \subseteq Nat \ {0}
      OBVIOUS
    <2> HIDE DEF before
    <2> QED  BY <2>1, <2>2
  <1>3. IsFiniteSet(before) /\ \A x \in before : IsFiniteSet(from(x)) /\ Cardinality(from(x)) \in Nat
    <2>1. IsFiniteSet(1..last_block)
      BY FS_Interval
    <2>2. IsFiniteSet(before)
      BY <1>2, <2>1, FS_Subset
    <2>3. \A x : from(x) \subseteq before
      OBVIOUS
    <2> HIDE DEF before, from
    <2> QED  BY <2>2, <2>3, FS_Subset, FS_CardinalityType
  <1>4. \A x \in on_node : Beyond(x, mark) <=> x \in before
    BY DEF Beyond
  <1> HIDE DEF found
  <1>5. ASSUME found = {}, NEW x \in on_node, Beyond(x, mark) PROVE FALSE
    <2>1. before # {}
      BY <1>4, <1>5
    <2>2. PICK m \in before : \A y \in before : y <= m
      <3> HIDE DEF before
      <3> QED  BY <1>2, <2>1, Greatest
    <2>3. from(m) = {m}
      BY <1>2, <2>2
    <2>4. Cardinality(from(m)) = 1
      <3> HIDE DEF from
      <3> QED  BY <2>3, FS_Singleton
    <2>5. m \in found
      <3> HIDE DEF from, before
      <3> QED  BY <1>0, <1>1, <2>2, <2>4
    <2> QED  BY <1>5, <2>5
  <1>6. ASSUME found # {} PROVE Min(found) \in found /\ \A y \in found : Min(found) <= y
    <2>1. found \subseteq Nat
      <3> HIDE DEF from, before
      <3> QED  BY <1>1, <1>2
    <2>2. \E y \in found : \A z \in found : y <= z
      BY <1>6, <2>1, NatMin
    <2> QED  BY <2>2 DEF Min
  <1>7. ASSUME found # {}, NEW x \in on_node, Beyond(x, mark), x \notin found PROVE x < Min(found)
    <2>1. x \in before
      BY <1>4, <1>7
    <2> DEFINE m == Min(found)
    <2>2. m \in before /\ Cardinality(from(m)) <= RebuildBatch
      <3> HIDE DEF from, before
      <3> QED  BY <1>1, <1>6, <1>7
    <2>3. ASSUME x >= m PROVE FALSE
      <3>1. from(x) \subseteq from(m)
        <4> HIDE DEF m
        <4> QED  BY <1>2, <2>1, <2>2, <2>3
      <3>2. Cardinality(from(x)) <= Cardinality(from(m))
        <4> HIDE DEF from, before, m
        <4> QED  BY <1>3, <2>2, <3>1, FS_Subset
      <3>3. Cardinality(from(x)) \in Nat /\ Cardinality(from(m)) \in Nat
        <4> HIDE DEF from, before, m
        <4> QED  BY <1>3, <2>1, <2>2
      <3>4. x \in found
        <4> HIDE DEF from, before, m
        <4> QED  BY <1>0, <1>1, <2>1, <2>2, <3>2, <3>3
      <3> QED  BY <1>7, <3>4
    <2>4. m \in Nat /\ x \in Nat
      <3> HIDE DEF m
      <3> QED  BY <1>2, <2>1, <2>2
    <2> HIDE DEF m
    <2> QED  BY <2>3, <2>4 DEF m
  <1>8. found \subseteq on_node
    <2> HIDE DEF from, before
    <2> QED  BY <1>1, <1>2
  <1>9. found # {} => Min(found) \in Nat \ {0}
    <2> HIDE DEF from, before
    <2> QED  BY <1>1, <1>2, <1>6
  <1> QED  BY <1>5, <1>7, <1>8, <1>9 DEF found

\* A batch was looked up.
LEMMA BatchFoundStep ==
    ASSUME NodeIInv, BatchFound
    PROVE  NodeIInv'
  <1>0. /\ item \in ItemType /\ item.act \in ActType /\ item.running \in BatchType
        /\ item.act.stage \in StageType /\ item.act.reason \in Reasons
        /\ ItemInv(item, Scanned) /\ last_block \in Nat /\ on_node \subseteq 1..last_block
    BY ItemFields DEF NodeIInv, ItemInv, ItemFound, StoreInv, ActType
  <1>1. item.running.start \in Nat
    BY <1>0 DEF BatchType
  <1> DEFINE found == NextBlocks(item.running.start)
             m     == IF found = {} THEN 0 ELSE Min(found)
             stage == [item.act.stage EXCEPT !.marker = m]
             act   == [item.act EXCEPT !.stage = stage]
             work == [item.running EXCEPT !.phase = "build", !.blocks = found]
  <1>2. /\ found \subseteq on_node
        /\ found = {} => \A x \in on_node : ~Beyond(x, item.running.start)
        /\ found # {} =>
              /\ Min(found) \in Nat \ {0}
              /\ \A x \in on_node : Beyond(x, item.running.start) => x \in found \/ x < Min(found)
    BY <1>0, <1>1, NextBlocksAre
  <1>3. item.running.phase = "query" /\ NodeUnmoved /\ item' = [item EXCEPT !.act = act, !.running = work]
    <2>1. /\ item.running.phase = "query" /\ NodeUnmoved
          /\ item' = [item EXCEPT !.running.phase = "build", !.running.blocks = found, !.act.stage.marker = m]
      BY DEF BatchFound
    <2> HIDE DEF found, m
    <2> QED  BY <1>0, <2>1 DEF ItemType, ActType, BatchType
  <1> HIDE DEF found
  <1>4. m \in Nat
    BY <1>2
  <1>5. /\ m = 0 => \A x \in Scanned : ~Beyond(x, item.running.start)
        /\ \A x \in Scanned : Beyond(x, item.running.start) => x \in found \/ (m # 0 /\ x < m)
    BY <1>2 DEF Scanned
  <1> HIDE DEF m
  <1>6. /\ stage \in StageType /\ stage.name = item.act.stage.name /\ stage.done = item.act.stage.done
        /\ stage.error = item.act.stage.error /\ stage.error_marker = item.act.stage.error_marker
        /\ stage.marker = m
    BY <1>0, <1>4 DEF StageType
  <1> HIDE DEF stage
  <1>7. act \in ActType /\ act.stage = stage /\ act.reason = item.act.reason
    BY <1>0, <1>6 DEF ActType
  <1>8. /\ work \in BatchType /\ work.phase = "build" /\ work.blocks = found
        /\ work.start = item.running.start
    <2>1. found \subseteq Nat
      BY <1>0, <1>2
    <2> QED  BY <1>0, <2>1 DEF BatchType
  <1> HIDE DEF act, work
  <1>9. /\ item' \in ItemType /\ item'.act = act /\ item'.running = work
        /\ item'.removal = item.removal /\ item'.flags = item.flags /\ item'.dirty = item.dirty
    BY <1>0, <1>3, <1>7, <1>8 DEF ItemType
  <1>10. item.act # NoAct /\ item.act.reason # ""
    BY <1>0, <1>3 DEF ItemInv, ItemFound, BatchInv, Running
  <1>11. BatchInv(item')
    <2>1. NoAct.reason = ""
      BY DEF NoAct, Act
    <2>2. item'.act # NoAct /\ item'.act.reason # "" /\ item'.running.phase = "build"
      BY <1>7, <1>8, <1>9, <1>10, <2>1
    <2> QED  BY <2>2 DEF BatchInv
  <1>12. StageInv(act) /\ RestoredInv(act)
    BY <1>0, <1>6, <1>7 DEF ItemInv, ItemFound, StageInv, RestoredInv
  <1>13. WipeInv(stage, work, Scanned)
    BY <1>0, <1>3, <1>5, <1>6, <1>8 DEF ItemInv, ItemFound, WipeInv
  <1>14. RemovalInv(item') /\ EmptyInv(item', Scanned)
    BY <1>0, <1>6, <1>7, <1>9, <1>10 DEF ItemInv, ItemFound, RemovalInv, EmptyInv
  <1>15. ItemInv(item', Scanned)
    BY <1>7, <1>9, <1>11, <1>12, <1>13, <1>14 DEF ItemInv, ItemFound
  <1> QED  BY <1>3, <1>9, <1>15, StoreStep

\* A batch that ends, with what its end makes of the activity.
BatchEnded(act) == [item EXCEPT !.running = NoBatch, !.act = act]

LEMMA BatchEndedIs ==
    ASSUME NodeIInv, Running(item), NEW act \in ActType,
           act.reason = item.act.reason, act.stage.name = item.act.stage.name,
           item.act.stage.done = TRUE => act.stage.done = TRUE,
           NEW S, S \subseteq Scanned, WipeInv(act.stage, NoBatch, S)
    PROVE  /\ ItemFound(BatchEnded(act), S) /\ BatchEnded(act).running = NoBatch
           /\ BatchEnded(act).flags = item.flags /\ BatchEnded(act).dirty = item.dirty
           /\ BatchEnded(act).removal = item.removal
  <1> DEFINE i == BatchEnded(act)
  <1>0. item \in ItemType /\ ItemFound(item, Scanned)
    BY DEF NodeIInv, ItemInv, ItemFound
  <1>1. /\ i \in ItemType /\ i.act = act /\ i.running = NoBatch
        /\ i.flags = item.flags /\ i.removal = item.removal /\ i.dirty = item.dirty
    BY <1>0, Records DEF BatchEnded, ItemType
  <1> HIDE DEF i
  <1>2. item.act # NoAct /\ item.act.reason # ""
    BY <1>0 DEF ItemFound, BatchInv
  <1>3. BatchInv(i)
    <2>1. NoBatch.phase = "none" /\ NoBatch.blocks = {}
      BY DEF NoBatch
    <2>2. i.running.phase = "none" /\ i.running.blocks = {} /\ i.act.reason # ""
      BY <1>1, <1>2, <2>1
    <2> QED  BY <2>2 DEF BatchInv, Running
  <1>4. StageInv(i.act)
    BY <1>0, <1>1 DEF ItemFound, StageInv
  <1>5. RemovalInv(i) /\ EmptyInv(i, S)
    BY <1>0, <1>1, <1>2 DEF ItemFound, RemovalInv, EmptyInv
  <1> QED  BY <1>1, <1>3, <1>4, <1>5 DEF ItemFound, i

\* Its blocks are elsewhere, and the scan goes on, ends or begins again.
LEMMA BatchBuiltStep ==
    ASSUME NodeIInv, BatchBuilt
    PROVE  NodeIInv'
  <1> DEFINE S     == on_node' \ left'
             act   == IF item.act.stage.marker # 0 THEN item.act ELSE EndOfScan(item.act)
  <1>0. /\ item \in ItemType /\ item.act \in ActType /\ item.running \in BatchType
        /\ item.act.stage \in StageType /\ ItemFound(item, Scanned)
    BY ItemFields DEF NodeIInv, ItemInv, ItemFound, ActType
  <1>1. /\ item.running.phase = "build"
        /\ item' = UpdateActivity([item EXCEPT !.running = NoBatch, !.act = act])
        /\ StoreUnmoved /\ last_block' = last_block
    BY DEF BatchBuilt
  <1>s. PICK skipped \in SUBSET item.running.blocks :
           /\ on_node' = on_node \ (item.running.blocks \ skipped)
           /\ left' = IF item.act.stage.name = "WIPING" THEN left \cup skipped ELSE left
    BY DEF BatchBuilt
  <1>2. Running(item)
    BY <1>1 DEF Running
  <1>3. WipeInv(item.act.stage, item.running, Scanned)
    BY <1>0 DEF ItemFound
  <1>4. /\ act \in ActType /\ act.reason = item.act.reason /\ act.stage.name = item.act.stage.name
        /\ item.act.stage.done = TRUE => act.stage.done = TRUE
        /\ WipeInv(act.stage, NoBatch, S)
    <2>n. NoBatch.phase = "none"
      BY DEF NoBatch
    <2>b. /\ S \subseteq Scanned
          /\ item.act.stage.name = "WIPING" => \A x \in S : x \notin item.running.blocks
      BY <1>s DEF Scanned
    <2> HIDE DEF S
    <2>1. CASE item.act.stage.marker # 0
      <3>1. act = item.act
        BY <2>1
      <3>2. WipeInv(item.act.stage, NoBatch, S)
        BY <1>1, <1>3, <2>1, <2>b, <2>n DEF WipeInv, Beyond
      <3> QED  BY <1>0, <3>1, <3>2
    <2>2. CASE item.act.stage.marker = 0 /\ item.act.stage.error = TRUE
      <3> DEFINE stage == [item.act.stage EXCEPT !.marker = item.act.stage.error_marker, !.error = FALSE,
                                                 !.error_marker = 0]
      <3>1. /\ stage \in StageType /\ stage.name = item.act.stage.name /\ stage.done = item.act.stage.done
            /\ stage.error = FALSE /\ stage.marker = item.act.stage.error_marker
        BY <1>0 DEF StageType
      <3>2. act = [item.act EXCEPT !.stage = stage]
        BY <1>0, <2>2 DEF EndOfScan, ActType, StageType
      <3> HIDE DEF stage, act
      <3>3. act \in ActType /\ act.stage = stage /\ act.reason = item.act.reason
        BY <1>0, <3>1, <3>2 DEF ActType
      <3>4. WipeInv(stage, NoBatch, S)
        BY <1>3, <2>2, <2>b, <2>n, <3>1 DEF WipeInv
      <3> QED  BY <3>1, <3>3, <3>4
    <2>3. CASE item.act.stage.marker = 0 /\ item.act.stage.error = FALSE
      <3> DEFINE stage == [item.act.stage EXCEPT !.done = TRUE]
      <3>1. /\ stage \in StageType /\ stage.name = item.act.stage.name /\ stage.done = TRUE
            /\ stage.error = FALSE
        BY <1>0, <2>3 DEF StageType
      <3>2. act = [item.act EXCEPT !.stage = stage]
        BY <1>0, <2>3 DEF EndOfScan, ActType
      <3> HIDE DEF stage, act
      <3>3. act \in ActType /\ act.stage = stage /\ act.reason = item.act.reason
        BY <1>0, <3>1, <3>2 DEF ActType
      <3>4. item.act.stage.name = "WIPING" => S = {}
        BY <1>1, <1>3, <2>3, <2>b DEF WipeInv
      <3>5. WipeInv(stage, NoBatch, S)
        BY <3>1, <3>4 DEF WipeInv
      <3> QED  BY <3>1, <3>3, <3>5
    <2>4. item.act.stage.error \in BOOLEAN
      BY <1>0 DEF StageType
    <2> QED  BY <2>1, <2>2, <2>3, <2>4
  <1>5. S \subseteq Scanned
    BY <1>s DEF Scanned
  <1>l. /\ on_node' \subseteq on_node /\ left \subseteq left' /\ S = Scanned'
        /\ left' \subseteq Nat
    <2>1. left \subseteq Nat /\ item.running.blocks \subseteq Nat
      BY <1>0 DEF NodeIInv, StoreInv, BatchType
    <2> QED  BY <1>s, <2>1 DEF Scanned
  <1> HIDE DEF S, act
  <1> DEFINE i == BatchEnded(act)
  <1>6. /\ ItemFound(i, S) /\ i.running = NoBatch
        /\ i.flags = item.flags /\ i.dirty = item.dirty /\ i.removal = item.removal
    BY <1>2, <1>4, <1>5, BatchEndedIs
  <1>7. item' = UpdateActivity(i)
    BY <1>1 DEF BatchEnded
  <1> HIDE DEF i
  <1>8. Settles(i, item', S)
    BY <1>6, <1>7, UpdateSettles
  <1>9. ItemInv(item', S) /\ item'.dirty \in BOOLEAN /\ item.dirty \in BOOLEAN
    BY <1>0, <1>1, <1>8, ItemFields DEF Settles, ItemInv, ItemFound
  <1>10. item'.dirty = FALSE => item.dirty = FALSE /\ item'.flags = item.flags
    BY <1>6, <1>8, <1>9 DEF Settles
  <1>11. /\ "deleted" \in item'.flags <=> "deleted" \in item.flags
         /\ item.removal # "no" => item'.removal # "no"
    BY <1>6, <1>8 DEF Settles, Moves
  <1> QED  BY <1>1, <1>l, <1>9, <1>10, <1>11, DriveStep

\* A batch that failed is where the scan will begin again.
LEMMA BatchFailsStep ==
    ASSUME NodeIInv, BatchFails
    PROVE  NodeIInv'
  <1> DEFINE m     == IF item.act.stage.error THEN item.act.stage.error_marker ELSE item.running.start
             stage == [item.act.stage EXCEPT !.error = TRUE, !.error_marker = m]
             act   == FailedAt(item.act, item.running.start)
  <1>0. /\ item \in ItemType /\ item.act \in ActType /\ item.running \in BatchType
        /\ item.act.stage \in StageType /\ ItemFound(item, Scanned)
    BY ItemFields DEF NodeIInv, ItemInv, ItemFound, ActType
  <1>1. /\ Running(item) /\ NodeUnmoved
        /\ item' = UpdateActivity([item EXCEPT !.running = NoBatch, !.act = act])
    BY DEF BatchFails
  <1>2. item.act.stage.error \in BOOLEAN /\ m \in Nat
    BY <1>0 DEF StageType, BatchType
  <1>3. act = [item.act EXCEPT !.stage = stage]
    BY <1>0 DEF FailedAt, ActType, StageType
  <1>4. /\ item.act.stage.error = TRUE => m = item.act.stage.error_marker
        /\ item.act.stage.error = FALSE => m = item.running.start
    OBVIOUS
  <1> HIDE DEF m, act
  <1>5. /\ stage \in StageType /\ stage.name = item.act.stage.name /\ stage.done = item.act.stage.done
        /\ stage.error = TRUE /\ stage.error_marker = m
    BY <1>0, <1>2 DEF StageType
  <1> HIDE DEF stage
  <1>6. act \in ActType /\ act.stage = stage /\ act.reason = item.act.reason
    BY <1>0, <1>3, <1>5 DEF ActType
  <1>7. WipeInv(stage, NoBatch, Scanned)
    BY <1>0, <1>1, <1>2, <1>4, <1>5 DEF ItemFound, WipeInv, Running
  <1> DEFINE i == BatchEnded(act)
  <1>8. /\ ItemFound(i, Scanned) /\ i.running = NoBatch
        /\ i.flags = item.flags /\ i.dirty = item.dirty /\ i.removal = item.removal
    BY <1>1, <1>5, <1>6, <1>7, BatchEndedIs
  <1>9. item' = UpdateActivity(i)
    BY <1>1 DEF BatchEnded
  <1> HIDE DEF i
  <1>10. Settles(i, item', Scanned)
    BY <1>8, <1>9, UpdateSettles
  <1> QED  BY <1>1, <1>8, <1>10, HandlerStep

\* A block is put on the drive at any time: too late, or before it is wiped, deactivated
\* or removed.
LEMMA PutBlockStep ==
    ASSUME NodeIInv, PutBlock
    PROVE  NodeIInv'
  <1> DEFINE n == last_block + 1
  <1>0. /\ ItemInv(item, Scanned) /\ last_block \in Nat /\ on_node \subseteq 1..last_block /\ left \subseteq Nat
        /\ last_block' = n /\ on_node' = on_node \cup {n}
        /\ left' = IF TooLate THEN left \cup {n} ELSE left
        /\ item' = item /\ StoreUnmoved
    BY DEF NodeIInv, StoreInv, PutBlock
  <1>1. last_block' \in Nat /\ on_node' \subseteq 1..last_block' /\ left' \subseteq Nat
    <2>1. \A x \in 1..last_block : x \in 1..n
      BY <1>0
    <2>2. n \in 1..n /\ n \in Nat
      BY <1>0
    <2>3. \A x \in on_node \cup {n} : x \in 1..n
      BY <1>0, <2>1, <2>2
    <2> HIDE DEF n
    <2> QED  BY <1>0, <2>2, <2>3
  <1> HIDE DEF n
  <1>2. /\ ItemInv(item, Scanned')
        /\ "decommissioned" \in stored \cup saving => Scanned' = {}
    <2>1. CASE TooLate
      <3>1. Scanned' \subseteq Scanned
        BY <1>0, <2>1 DEF Scanned
      <3>2. "decommissioned" \in stored \cup saving => Scanned' = {}
        BY <3>1 DEF NodeIInv, StoreInv
      <3>3. WipeInv(item.act.stage, item.running, Scanned') /\ EmptyInv(item, Scanned')
        BY <1>0, <3>1 DEF ItemInv, ItemFound, WipeInv, EmptyInv
      <3> QED  BY <1>0, <3>2, <3>3 DEF ItemInv, ItemFound
    <2>2. CASE ~TooLate
      <3>1. WipeInv(item.act.stage, item.running, Scanned') /\ EmptyInv(item, Scanned')
        BY <2>2 DEF TooLate, WipeInv, EmptyInv
      <3> QED  BY <1>0, <2>2, <3>1 DEF ItemInv, ItemFound, TooLate
    <2> QED  BY <2>1, <2>2
  <1>3. UNCHANGED <<item, stored, known, saving, misjudged>> /\ (Present' <=> Present)
    BY <1>0 DEF StoreUnmoved, Present
  <1>4. ItemInv(item, Scanned)'
    BY <1>2, <1>3
  <1>5. StoreInv'
    BY <1>1, <1>2, <1>3 DEF NodeIInv, StoreInv
  <1>6. StoreInSync'
    BY <1>3 DEF NodeIInv, StoreInSync
  <1> QED  BY <1>4, <1>5, <1>6 DEF NodeIInv

-----------------------------------------------------------------------------
(* The nodes store, and the theorems                                       *)

\* NoSave stands for no flags.
LEMMA NoSaveIsNone == ~(NoSave \subseteq Flags) /\ "deleted" \notin NoSave /\ "decommissioned" \notin NoSave
  BY DEF NoSave, Flags

\* A node that was loaded: nothing is known of it but its flags and its heartbeat.
LEMMA LoadedIs ==
    ASSUME NEW f, f \subseteq Flags, NEW beat \in {"fresh", "old", "dead"}, NEW S,
           "decommissioned" \in f \/ "deleted" \in f => S = {}
    PROVE  ItemInv(Loaded(f, beat), S) /\ Loaded(f, beat).flags = f /\ Loaded(f, beat).removal = "no"
  <1> DEFINE i == Loaded(f, beat)
  <1>1. /\ i.flags = f /\ i.act = NoAct /\ i.running = NoBatch /\ i.removal = "no"
    BY DEF Loaded
  <1>2. i \in ItemType
    BY Records DEF Loaded, ItemType
  <1> HIDE DEF i
  <1>3. /\ NoAct.reason = "" /\ NoAct.stage.name = "none" /\ NoBatch.phase = "none" /\ NoBatch.blocks = {}
    BY DEF NoAct, Act, NoStage, Stage, NoBatch
  <1>4. BatchInv(i) /\ StageInv(i.act) /\ RestoredInv(i.act) /\ WipeInv(i.act.stage, i.running, S)
    BY <1>1, <1>3 DEF BatchInv, Running, StageInv, RestoredInv, WipeInv
  <1>5. RemovalInv(i) /\ EmptyInv(i, S)
    BY <1>1 DEF RemovalInv, EmptyInv
  <1> QED  BY <1>1, <1>2, <1>4, <1>5 DEF ItemInv, ItemFound, i

\* A drive that was just added.
LEMMA InitNodeIInv == NodeInit => NodeIInv
  <1> SUFFICES ASSUME NodeInit PROVE NodeIInv
    OBVIOUS
  <1>1. /\ item = Loaded({}, "fresh") /\ stored = {} /\ known = {} /\ saving = NoSave
        /\ misjudged = FALSE
        /\ on_node = 1..FirstBlocks /\ last_block = FirstBlocks /\ left = {}
    BY DEF NodeInit
  <1>2. ItemInv(item, Scanned) /\ item.flags = {} /\ item.removal = "no"
    BY <1>1, LoadedIs
  <1>3. FirstBlocks \in Nat
    BY NodesAssumption
  <1>4. StoreInv
    BY <1>1, <1>2, <1>3, NoSaveIsNone DEF StoreInv
  <1>5. StoreInSync
    BY <1>1, <1>2 DEF StoreInSync
  <1> QED  BY <1>2, <1>4, <1>5 DEF NodeIInv

\* An update of the store begins, with the deletion of a drive that is ready for it.
LEMMA StartSaveStep ==
    ASSUME NodeIInv, StartSave
    PROVE  NodeIInv'
  <1> DEFINE f == IF item.removal = "deleted" THEN item.flags \cup {"deleted"} ELSE item.flags
  <1>0. item \in ItemType /\ ItemInv(item, Scanned) /\ item.flags \subseteq Flags
    BY ItemFields DEF NodeIInv, ItemInv, ItemFound
  <1>1. /\ Present /\ item' = [item EXCEPT !.dirty = FALSE, !.flags = f] /\ saving' = item'.flags
        /\ UNCHANGED <<stored, known, misjudged, on_node, last_block, left>>
    BY DEF StartSave, SaveTaken
  <1>2. /\ f \subseteq Flags /\ item.flags \subseteq f
        /\ "deleted" \in f => "deleted" \in item.flags \/ item.removal # "no"
        /\ "decommissioned" \in f => "decommissioned" \in item.flags
    BY <1>0 DEF Flags
  <1> HIDE DEF f
  <1>3. /\ item' \in ItemType /\ item'.act = item.act /\ item'.running = item.running
        /\ item'.removal = item.removal /\ item'.flags = f
    BY <1>0, <1>1, <1>2 DEF ItemType
  <1>4. BatchInv(item') /\ RemovalInv(item') /\ EmptyInv(item', Scanned)
    BY <1>0, <1>2, <1>3 DEF ItemInv, ItemFound, BatchInv, Running, RemovalInv, EmptyInv
  <1>5. ItemInv(item', Scanned)
    BY <1>0, <1>3, <1>4 DEF ItemInv, ItemFound
  <1>6. Present' /\ Scanned' = Scanned
    BY <1>1 DEF Present, Scanned
  <1>7. saving' = f /\ saving' # NoSave
    BY <1>1, <1>2, <1>3, NoSaveIsNone
  <1>8. "decommissioned" \in f => Scanned = {}
    BY <1>3, <1>4 DEF EmptyInv, ItemInv, ItemFound
  <1>9. StoreInv'
    BY <1>1, <1>2, <1>3, <1>6, <1>7, <1>8 DEF NodeIInv, StoreInv
  <1>10. StoreInSync'
    BY <1>3, <1>7 DEF StoreInSync
  <1>11. ItemInv(item, Scanned)'
    BY <1>5, <1>6
  <1> QED  BY <1>9, <1>10, <1>11 DEF NodeIInv

\* What an update makes of the store is what it was to write, unless the store was not
\* as the monitor took it.
LEMMA PatchesAre ==
    ASSUME NodeIInv, saving # NoSave, NEW p \in Patches
    PROVE  /\ p \subseteq Flags /\ p \subseteq stored \cup saving
           /\ misjudged = FALSE => p = saving
  <1>1. saving \subseteq Flags /\ stored \subseteq Flags
    BY DEF NodeIInv, StoreInv
  <1>2. PICK again \in SUBSET (saving \cap known \cap {"decommissioning", "decommissioned"}) :
           p = (stored \cup (saving \ known) \cup again) \ (known \ saving)
    BY DEF Patches
  <1>3. misjudged = FALSE => known = stored
    BY DEF NodeIInv, StoreInv
  <1> QED  BY <1>1, <1>2, <1>3

\* It ends: the store has the flags that were taken, and what has changed since is
\* marked for another update.
LEMMA EndSaveStep ==
    ASSUME NodeIInv, EndSave
    PROVE  NodeIInv'
  <1>1. /\ saving # NoSave /\ stored' \in Patches /\ saving' = NoSave /\ known' = saving
        /\ misjudged' = (misjudged /\ stored' # saving)
        /\ UNCHANGED <<item, on_node, last_block, left>>
    BY DEF EndSave
  <1>2. /\ Present /\ ItemInv(item, Scanned) /\ misjudged \in BOOLEAN
        /\ saving \subseteq Flags /\ "deleted" \notin NoSave /\ "decommissioned" \notin NoSave
    BY <1>1, NoSaveIsNone DEF NodeIInv, StoreInv
  <1>3. /\ stored' \subseteq Flags /\ stored' \subseteq stored \cup saving
        /\ misjudged = FALSE => stored' = saving
    BY <1>1, PatchesAre
  <1>4. Scanned' = Scanned
    BY <1>1 DEF Scanned
  <1>5. misjudged' \in BOOLEAN /\ (misjudged' = FALSE => stored' = saving)
    BY <1>1, <1>2, <1>3
  <1>6. Present' => Present
    BY <1>2
  <1>7. StoreInv'
    BY <1>1, <1>2, <1>3, <1>4, <1>5, <1>6 DEF NodeIInv, StoreInv
  <1>8. StoreInSync'
    BY <1>1, <1>2, <1>5 DEF NodeIInv, StoreInSync
  <1>9. ItemInv(item, Scanned)'
    BY <1>1, <1>2, <1>4
  <1> QED  BY <1>7, <1>8, <1>9 DEF NodeIInv

\* It fails: the node is marked again, or is taken for updated.
LEMMA SaveFailsStep ==
    ASSUME NodeIInv, SaveFails
    PROVE  NodeIInv'
  <1>1. saving # NoSave /\ saving' = NoSave /\ UNCHANGED <<on_node, last_block, left>>
    BY DEF SaveFails
  <1>2. /\ Present /\ ItemInv(item, Scanned) /\ item \in ItemType
        /\ saving \subseteq Flags /\ "deleted" \notin NoSave /\ "decommissioned" \notin NoSave
    BY <1>1, NoSaveIsNone DEF NodeIInv, StoreInv, ItemInv, ItemFound
  <1>3. Scanned' = Scanned
    BY <1>1 DEF Scanned
  <1>4. CASE item' = [item EXCEPT !.dirty = TRUE] /\ known' = known
                /\ \/ UNCHANGED <<stored, misjudged>>
                   \/ stored' \in Patches /\ misjudged' = TRUE
    <2>1. /\ item' \in ItemType /\ item'.act = item.act /\ item'.running = item.running
          /\ item'.removal = item.removal /\ item'.flags = item.flags /\ item'.dirty = TRUE
      BY <1>2, <1>4 DEF ItemType
    <2>2. ItemInv(item', Scanned)
      BY <2>1, OtherFlags
    <2>3. /\ stored' \subseteq Flags /\ stored' \subseteq stored \cup saving
          /\ misjudged' \in BOOLEAN /\ (misjudged' = FALSE => known' = stored')
      <3>1. CASE UNCHANGED <<stored, misjudged>>
        BY <1>4, <3>1 DEF NodeIInv, StoreInv
      <3>2. CASE stored' \in Patches /\ misjudged' = TRUE
        BY <1>1, <3>2, PatchesAre
      <3> QED  BY <1>4, <3>1, <3>2
    <2>4. Present' <=> Present
      BY <1>4 DEF Present
    <2>5. StoreInv'
      BY <1>1, <1>2, <1>3, <1>4, <2>1, <2>3, <2>4 DEF NodeIInv, StoreInv
    <2>6. StoreInSync'
      BY <2>1 DEF StoreInSync
    <2>7. ItemInv(item, Scanned)'
      BY <1>3, <2>2
    <2> QED  BY <2>5, <2>6, <2>7 DEF NodeIInv
  <1>5. CASE "deleted" \notin saving /\ known' = saving /\ misjudged' = TRUE /\ UNCHANGED <<item, stored>>
    <2>1. StoreInv'
      BY <1>1, <1>2, <1>3, <1>5 DEF NodeIInv, StoreInv
    <2>2. StoreInSync'
      BY <1>1, <1>5 DEF StoreInSync
    <2>3. ItemInv(item, Scanned)'
      BY <1>2, <1>3, <1>5
    <2> QED  BY <2>1, <2>2, <2>3 DEF NodeIInv
  <1> QED  BY <1>4, <1>5 DEF SaveFails, Unsaved

\* The process restarts, with what the store has.
LEMMA RestartStep ==
    ASSUME NodeIInv, RestartMonitor
    PROVE  NodeIInv'
  <1>1. /\ stored' = stored \/ (saving # NoSave /\ stored' \in Patches)
        /\ known' = stored' /\ misjudged' = FALSE
        /\ saving' = NoSave /\ item' = Loaded(stored', item.beat)
        /\ UNCHANGED <<on_node, last_block, left>>
    BY DEF RestartMonitor
  <1>2. Scanned' = Scanned
    BY <1>1 DEF Scanned
  <1>3. /\ stored' \subseteq Flags
        /\ "decommissioned" \in stored' \/ "deleted" \in stored' => Scanned = {}
    <2>1. stored' \subseteq Flags /\ stored' \subseteq stored \cup saving
      BY <1>1, PatchesAre DEF NodeIInv, StoreInv
    <2>2. "deleted" \in stored \cup saving => Scanned = {}
      BY DEF NodeIInv, StoreInv, ItemInv, ItemFound, EmptyInv
    <2> QED  BY <2>1, <2>2 DEF NodeIInv, StoreInv
  <1>4. item.beat \in {"fresh", "old", "dead"}
    BY ItemFields DEF NodeIInv, ItemInv, ItemFound
  <1>5. ItemInv(item', Scanned) /\ item'.flags = stored' /\ item'.removal = "no"
    BY <1>1, <1>3, <1>4, LoadedIs
  <1>6. StoreInv'
    BY <1>1, <1>2, <1>3, <1>5, NoSaveIsNone DEF NodeIInv, StoreInv, Present
  <1>7. StoreInSync'
    BY <1>1, <1>5 DEF StoreInSync
  <1>8. ItemInv(item, Scanned)'
    BY <1>2, <1>5
  <1> QED  BY <1>6, <1>7, <1>8 DEF NodeIInv

\* The invariant of the drive.
THEOREM NodeInvariance == NodeSpec => []NodeIInv
  <1>1. NodeIInv /\ [NodeNext]_nodeVars => NodeIInv'
    <2> SUFFICES ASSUME NodeIInv, [NodeNext]_nodeVars PROVE NodeIInv'
      OBVIOUS
    <2>1. CASE UNCHANGED nodeVars
      BY <2>1 DEF nodeVars, NodeIInv, StoreInv, StoreInSync, Present, Scanned
    <2>2. CASE NodeNext
      BY <2>2, ConnectionStep, UserStep, WorkerStep, BatchFoundStep, BatchBuiltStep, BatchFailsStep,
         PutBlockStep, StartSaveStep, EndSaveStep, SaveFailsStep, RestartStep DEF NodeNext
    <2> QED  BY <2>1, <2>2
  <1> QED  BY <1>1, InitNodeIInv, PTL DEF NodeSpec

\* The monitor, its batches and the store are well formed.
THEOREM NodeTypeCorrect == NodeSpec => []NodeTypeOK
  <1>1. NodeIInv => NodeTypeOK
    <2> SUFFICES ASSUME NodeIInv PROVE NodeTypeOK
      OBVIOUS
    <2>1. item.flags \subseteq Flags /\ BatchInv(item)
      BY ItemFields DEF NodeIInv, ItemInv, ItemFound
    <2> QED  BY <2>1 DEF NodeIInv, StoreInv, NodeTypeOK, BatchInv
  <1> QED  BY <1>1, NodeInvariance, PTL

\* A drive is deactivated or removed only when no block is left on it, whatever builds
\* failed, whatever was written to it before its wiping began and wherever the monitor
\* restarted.  Blocks put too late and those the builder skipped are in `left`.
THEOREM Evacuated == NodeSpec => []EvacuatedWhenDone
  <1>1. NodeIInv => EvacuatedWhenDone
    <2> SUFFICES ASSUME NodeIInv,
                        item.flags \cap {"decommissioned", "deleted"} # {} \/ item.removal # "no"
                 PROVE  on_node \subseteq left
      BY DEF EvacuatedWhenDone
    <2> QED  BY DEF NodeIInv, ItemInv, ItemFound, EmptyInv, Scanned
  <1> QED  BY <1>1, NodeInvariance, PTL

\* No change of a node's flags is lost by an update of the store that is under way, though
\* updates write differences only and may fail.  An update that failed and was done all the
\* same, and errors that mark another node, are in `misjudged`.
THEOREM ChangesSaved == NodeSpec => []StoreInSync
  <1>1. NodeIInv => StoreInSync
    BY DEF NodeIInv
  <1> QED  BY <1>1, NodeInvariance, PTL

-----------------------------------------------------------------------------
(* The inductive invariant of the aggregator of statistics.               *)

\* An object of the database, as the aggregator sees it.
ObjectRec == [bucket : AggBuckets \cup {Unset}, created : AggTimes \cup {Unset},
              deleted : AggTimes \cup {Unset}, inserted : BOOLEAN]

\* Where a run is and its variables.
RunRec == [at : {"idle", "range", "write", "global"}, target : AggTimes, global : AggTimes,
           scope : SUBSET AggBuckets, local : [AggBuckets -> Stats], shared : BOOLEAN,
           fresh : BOOLEAN, from : AggTimes, till : AggTimes, batch : SUBSET AggBuckets,
           changed : SUBSET AggBuckets, more : BOOLEAN]

\* The types of the variables.
AggTypes ==
    /\ agg_clock \in AggTimes /\ FirstTime <= agg_clock
    /\ objects \in [AggObjects -> ObjectRec]
    /\ stats \in [AggBuckets -> Stats] /\ loaded_stats \in [AggBuckets -> Stats]
    /\ memory \in [AggBuckets -> Stats] /\ stamped \subseteq AggBuckets
    /\ global \in AggTimes /\ global_loaded \in AggTimes
    /\ run \in RunRec /\ run.batch \subseteq run.scope
    /\ slept \in BOOLEAN /\ agg_faults \in 0..MaxAggFaults
    /\ trail \in {"kept", "failed", "astray"}

\* A bucket is in the database, in what was loaded and in memory, or nowhere.
Known ==
    \A b \in AggBuckets :
        /\ stats[b].last_update = Unset => stats[b] = NoStats
        /\ loaded_stats[b].last_update = Unset => loaded_stats[b] = NoStats
        /\ memory[b].last_update = Unset => memory[b] = NoStats
        /\ loaded_stats[b].last_update = Unset <=> stats[b].last_update = Unset
        /\ memory[b].last_update = Unset <=> stats[b].last_update = Unset

\* Objects are of buckets there are, and what is not in the database yet is recent.
Recent ==
    \A o \in AggObjects :
        /\ \A b \in AggBuckets : objects[o].bucket = b => Exists(b)
        /\ objects[o].created # Unset /\ objects[o].inserted = FALSE
            => objects[o].created >= agg_clock - Grace

Created(objs, b, from, till) ==
    {o \in AggObjects : /\ objs[o].inserted /\ objs[o].bucket = b
                        /\ Between(objs[o].created, from, till)}
Deleted(objs, b, from, till) ==
    {o \in AggObjects : /\ objs[o].bucket = b /\ Between(objs[o].deleted, from, till)}
\* What Delta is for the objects objs.
CountOf(objs, b, from, till) ==
    Cardinality(Created(objs, b, from, till)) - Cardinality(Deleted(objs, b, from, till))

\* The count of a bucket is what it was at t, if t is in the past.
SoundAt(b, t) == t <= agg_clock - Grace => stats[b].count = CountOf(objects, b, 0, t)

\* The counts hold up to last_update, and on to the later of it and global_last_update.
Sound ==
    trail # "astray" => \A b \in AggBuckets : Exists(b) =>
        /\ SoundAt(b, stats[b].last_update)
        /\ SoundAt(b, Later(global, stats[b].last_update))

\* Not in the middle of a range.
Settled == run.at = "idle" \/ (run.at = "range" /\ run.fresh = TRUE)

\* Nothing has happened in a bucket that was created during the run before the run's target.
NewBucket(b) ==
    /\ stats[b].count = 0 /\ loaded_stats[b] = stats[b] /\ stats[b].last_update <= agg_clock
    /\ \A o \in AggObjects : objects[o].bucket = b =>
        /\ objects[o].created >= run.target /\ objects[o].created >= stats[b].last_update
        /\ objects[o].deleted # Unset =>
            objects[o].deleted >= run.target /\ objects[o].deleted >= stats[b].last_update

\* A run is about buckets that are there, and the others are new.
RunInv ==
    run.at # "idle" =>
        /\ run.target <= agg_clock - Grace
        /\ run.shared = TRUE => memory = run.local
        /\ \A b \in run.scope : Exists(b) /\ run.local[b].last_update >= 0
        /\ \A b \in AggBuckets : Exists(b) /\ b \notin run.scope => NewBucket(b)

\* The run goes on from what the database has of a bucket.
Same(b) == AsRead(run.local[b], run.global) = AsRead(stats[b], global)

\* The batch whose statistics are not written yet.
Pending == IF run.at = "write" THEN run.batch ELSE {}

\* In the middle of a range the buckets of the run are at its beginning or beyond its end.
RangeInv ==
    /\ run.at = "range" /\ run.fresh = TRUE /\ trail # "astray" => \A b \in run.scope : Same(b)
    /\ ~Settled =>
        /\ run.global <= run.from /\ run.from < run.till /\ run.till <= run.target
        /\ \A b \in run.scope : \/ Later(run.global, run.local[b].last_update) = run.from
                                \/ run.local[b].last_update >= run.till
        /\ \A b \in Pending : run.local[b].last_update = run.till
        /\ (run.at = "write" /\ run.more = FALSE) \/ run.at = "global" =>
            \A b \in run.scope : run.local[b].last_update >= run.till
        /\ trail # "astray" =>
            /\ global <= run.from
            /\ \A b \in run.scope \ Pending : Same(b)
            /\ \A b \in Pending :
                /\ run.local[b].count = CountOf(objects, b, 0, run.till)
                /\ stats[b].last_update <= run.from
                /\ b \notin run.changed => run.local[b].count = stats[b].count

\* As long as no change fails a load gives what the database has, as a run reads it.
Kept ==
    trail = "kept" =>
        /\ global_loaded = global /\ stamped = {}
        /\ Settled => \A b \in AggBuckets :
            /\ AsRead(loaded_stats[b], global) = AsRead(stats[b], global)
            /\ AsRead(memory[b], global) = AsRead(stats[b], global)
        /\ ~Settled => \A b \in AggBuckets :
            AsRead(loaded_stats[b], run.till) = AsRead(stats[b], run.till)

\* The inductive invariant of the aggregator.
AggInv == AggTypes /\ Known /\ Recent /\ Sound /\ RunInv /\ RangeInv /\ Kept

-----------------------------------------------------------------------------
\* Delta counts the objects as they are.
LEMMA DeltaIs ==
    ASSUME NEW b, NEW from, NEW till
    PROVE  Delta(b, from, till) = CountOf(objects, b, from, till)
  BY DEF Delta, CountOf, Created, Deleted

\* Objects are counted in finite sets, and the count is an integer.
LEMMA CountIs ==
    ASSUME NEW objs, NEW b, NEW from, NEW till
    PROVE  /\ IsFiniteSet(Created(objs, b, from, till)) /\ IsFiniteSet(Deleted(objs, b, from, till))
           /\ Cardinality(Created(objs, b, from, till)) \in Nat
           /\ Cardinality(Deleted(objs, b, from, till)) \in Nat
           /\ CountOf(objs, b, from, till) \in Int
  <1>1. /\ Created(objs, b, from, till) \in SUBSET AggObjects
        /\ Deleted(objs, b, from, till) \in SUBSET AggObjects
    BY DEF Created, Deleted
  <1>2. IsFiniteSet(Created(objs, b, from, till)) /\ IsFiniteSet(Deleted(objs, b, from, till))
    BY <1>1, FS_Subset, AggregatorAssumption
  <1>3. /\ Cardinality(Created(objs, b, from, till)) \in Nat
        /\ Cardinality(Deleted(objs, b, from, till)) \in Nat
    BY <1>2, FS_CardinalityType
  <1> QED  BY <1>2, <1>3 DEF CountOf

\* Two finite sets with nothing in common have the elements of the one and of the other.
LEMMA Disjoint ==
    ASSUME NEW S, NEW T, IsFiniteSet(S), IsFiniteSet(T), S \cap T = {}
    PROVE  Cardinality(S \cup T) = Cardinality(S) + Cardinality(T)
  <1>1. Cardinality(S \cup T) = Cardinality(S) + Cardinality(T) - Cardinality(S \cap T)
    BY FS_Union
  <1>2. Cardinality(S) \in Nat /\ Cardinality(T) \in Nat
    BY FS_CardinalityType
  <1> QED  BY <1>1, <1>2, FS_EmptySet

\* What a bucket counts up to till is what it counts up to from and what comes then.
LEMMA CountSplits ==
    ASSUME NEW objs \in [AggObjects -> ObjectRec], NEW b, NEW from \in Nat, NEW till \in Nat, from <= till
    PROVE  CountOf(objs, b, 0, till) = CountOf(objs, b, 0, from) + CountOf(objs, b, from, till)
  <1>1. \A o \in AggObjects : objs[o].created \in Int /\ objs[o].deleted \in Int
    BY AggregatorAssumption DEF ObjectRec, AggTimes, Unset
  <1>2. /\ Created(objs, b, 0, till) = Created(objs, b, 0, from) \cup Created(objs, b, from, till)
        /\ Created(objs, b, 0, from) \cap Created(objs, b, from, till) = {}
    BY <1>1 DEF Created, Between
  <1>3. /\ Deleted(objs, b, 0, till) = Deleted(objs, b, 0, from) \cup Deleted(objs, b, from, till)
        /\ Deleted(objs, b, 0, from) \cap Deleted(objs, b, from, till) = {}
    BY <1>1 DEF Deleted, Between
  <1>4. /\ Cardinality(Created(objs, b, 0, till))
              = Cardinality(Created(objs, b, 0, from)) + Cardinality(Created(objs, b, from, till))
        /\ Cardinality(Deleted(objs, b, 0, till))
              = Cardinality(Deleted(objs, b, 0, from)) + Cardinality(Deleted(objs, b, from, till))
    BY <1>2, <1>3, CountIs, Disjoint
  <1> QED  BY <1>4, CountIs DEF CountOf

\* A bucket counts nothing up to a date that nothing in it is before.
LEMMA CountNothing ==
    ASSUME NEW objs \in [AggObjects -> ObjectRec], NEW b, NEW t \in Int,
           \A o \in AggObjects : objs[o].bucket = b =>
               /\ objs[o].created >= t
               /\ objs[o].deleted # Unset => objs[o].deleted >= t
    PROVE  CountOf(objs, b, 0, t) = 0
  <1>1. \A o \in AggObjects : objs[o].created \in Int /\ objs[o].deleted \in Int
    BY AggregatorAssumption DEF ObjectRec, AggTimes, Unset
  <1>2. Created(objs, b, 0, t) = {} /\ Deleted(objs, b, 0, t) = {}
    BY <1>1 DEF Created, Deleted, Between, Unset
  <1> QED  BY <1>2, FS_EmptySet DEF CountOf

\* The types of the variables of a run.
LEMMA RunFields ==
    ASSUME run \in RunRec
    PROVE  /\ run.at \in {"idle", "range", "write", "global"} /\ run.fresh \in BOOLEAN
           /\ run.more \in BOOLEAN /\ run.shared \in BOOLEAN
           /\ run.target \in AggTimes /\ run.global \in AggTimes /\ run.from \in AggTimes /\ run.till \in AggTimes
           /\ run.scope \subseteq AggBuckets /\ run.batch \subseteq AggBuckets
           /\ run.changed \subseteq AggBuckets
           /\ run.local \in [AggBuckets -> Stats]
  BY DEF RunRec

\* Times and the bounds of time are natural numbers.
LEMMA TimesAre ==
    (\A t \in AggTimes : t \in Nat /\ t \in Int) /\ LastTime \in Nat /\ Grace \in Nat /\ FirstTime \in Nat
  BY AggregatorAssumption DEF AggTimes

\* Which integers are times.
LEMMA TimesIn == ASSUME NEW t \in Int PROVE t \in AggTimes <=> 0 <= t /\ t <= LastTime
  BY AggregatorAssumption DEF AggTimes

\* A clock that is set back has passed less.
LEMMA Earlier ==
    ASSUME NEW s \in Int, NEW t \in Int, NEW g \in Int, NEW u \in Int, s < t, u <= s - g
    PROVE  u <= t - g
  OBVIOUS

\* What statistics are made of: a bucket that is there has a time.
LEMMA StatsAre ==
    ASSUME NEW x \in Stats
    PROVE  /\ x.count \in Int /\ x.last_update \in Int
           /\ x.last_update = Unset \/ x.last_update \in AggTimes
           /\ x.last_update # Unset <=> x.last_update >= 0
           /\ x = [count |-> x.count, last_update |-> x.last_update]
  <1>1. x \in [count : Int, last_update : AggTimes \cup {Unset}]
    BY DEF Stats
  <1>2. x = [count |-> x.count, last_update |-> x.last_update]
    BY <1>1
  <1>3. x.count \in Int /\ (x.last_update = Unset \/ x.last_update \in AggTimes)
    BY <1>1
  <1> QED  BY <1>2, <1>3, TimesAre DEF Unset

\* Two readings are the same when their counts and the later of their times are.
LEMMA AsReadIs ==
    ASSUME NEW x, NEW y, NEW g, NEW h
    PROVE  AsRead(x, g) = AsRead(y, h) <=>
             x.count = y.count /\ Later(g, x.last_update) = Later(h, y.last_update)
  BY DEF AsRead

-----------------------------------------------------------------------------
(* Objects and time *)

\* Everything but the objects and the clock.
Elsewhere == <<stats, stamped, loaded_stats, memory, global, global_loaded, run, trail>>

\* What an object may turn into in a step.
ObjectMoves(o) ==
    \/ objects'[o] = objects[o]
    \/ /\ objects[o] = NoObject /\ objects'[o].inserted = FALSE /\ objects'[o].deleted = Unset
       /\ objects'[o].created = agg_clock
       /\ \A b \in AggBuckets : objects'[o].bucket = b => Exists(b)
    \/ /\ objects[o].inserted = FALSE /\ objects[o].created # Unset /\ objects'[o].inserted = TRUE
       /\ objects'[o].created = objects[o].created /\ objects'[o].bucket = objects[o].bucket
       /\ objects'[o].deleted = objects[o].deleted
    \/ /\ objects[o].deleted = Unset /\ objects'[o].deleted = agg_clock
       /\ objects'[o].created = objects[o].created /\ objects'[o].bucket = objects[o].bucket
       /\ objects'[o].inserted = objects[o].inserted

\* No step changes what a bucket counts up to a time in the past: a record that is not
\* written yet is recent, and what is created or deleted is so at the present.
LEMMA PastKept ==
    ASSUME AggTypes, AggTypes', Recent, \A o \in AggObjects : ObjectMoves(o),
           NEW b \in AggBuckets, NEW t \in Int, t <= agg_clock - Grace
    PROVE  CountOf(objects', b, 0, t) = CountOf(objects, b, 0, t)
  <1>1. agg_clock \in Int /\ Grace \in Nat
    BY TimesAre DEF AggTypes
  <1>2. ASSUME NEW o \in AggObjects
        PROVE  /\ (/\ objects[o].inserted /\ objects[o].bucket = b
                   /\ Between(objects[o].created, 0, t))
                  <=> (/\ objects'[o].inserted /\ objects'[o].bucket = b
                       /\ Between(objects'[o].created, 0, t))
               /\ (objects[o].bucket = b /\ Between(objects[o].deleted, 0, t))
                  <=> (objects'[o].bucket = b /\ Between(objects'[o].deleted, 0, t))
    <2>1. /\ objects[o].created \in Int /\ objects[o].deleted \in Int
          /\ objects'[o].created \in Int /\ objects'[o].deleted \in Int
          /\ objects[o].inserted \in BOOLEAN /\ objects'[o].inserted \in BOOLEAN
      BY TimesAre DEF AggTypes, ObjectRec, Unset
    <2>2. objects[o].created # Unset /\ objects[o].inserted = FALSE
            => objects[o].created >= agg_clock - Grace
      BY DEF Recent
    <2>3. ObjectMoves(o)
      OBVIOUS
    <2> QED  BY <1>1, <2>1, <2>2, <2>3 DEF ObjectMoves, Between, NoObject, Unset
  <1>3. Created(objects', b, 0, t) = Created(objects, b, 0, t)
    BY <1>2 DEF Created
  <1>4. Deleted(objects', b, 0, t) = Deleted(objects, b, 0, t)
    BY <1>2 DEF Deleted
  <1> QED  BY <1>3, <1>4 DEF CountOf

\* The parts that a step of objects or time leaves alone.
LEMMA ElsewhereKept ==
    ASSUME AggInv, UNCHANGED Elsewhere
    PROVE  /\ Known' /\ Kept'
           /\ Settled' = Settled /\ Pending' = Pending
           /\ \A b \in AggBuckets : Exists(b)' = Exists(b) /\ Same(b)' = Same(b)
  <1>. USE DEF Elsewhere
  <1>1. Known'
    BY DEF AggInv, Known, NoStats
  <1>2. Settled' = Settled /\ Pending' = Pending
    BY DEF Settled, Pending
  <1>3. Kept'
    BY <1>2 DEF AggInv, Kept
  <1> QED  BY <1>1, <1>2, <1>3 DEF Exists, Same

\* A step of the objects alone keeps the invariant.
LEMMA ObjectStep ==
    ASSUME AggInv, AggTypes', UNCHANGED <<agg_clock, Elsewhere>>, \A o \in AggObjects : ObjectMoves(o)
    PROVE  AggInv'
  <1>1. UNCHANGED Elsewhere /\ agg_clock' = agg_clock
    OBVIOUS
  <1>2. /\ Known' /\ Kept' /\ Settled' = Settled /\ Pending' = Pending
        /\ \A b \in AggBuckets : Exists(b)' = Exists(b) /\ Same(b)' = Same(b)
    BY <1>1, ElsewhereKept
  <1>3. /\ stats' = stats /\ loaded_stats' = loaded_stats /\ memory' = memory
        /\ global' = global /\ run' = run /\ trail' = trail
    BY <1>1 DEF Elsewhere
  <1>4. AggTypes /\ Recent /\ Sound /\ RunInv /\ RangeInv
    BY DEF AggInv
  <1>5. agg_clock \in Nat /\ Grace \in Nat /\ global \in Nat
    BY <1>4, TimesAre DEF AggTypes
  <1>6. \A b \in AggBuckets : stats[b].last_update \in Int
    BY <1>4, StatsAre DEF AggTypes
  <1>7. /\ run.till \in AggTimes /\ run.target \in AggTimes /\ run.scope \subseteq AggBuckets
         /\ run.batch \subseteq run.scope
    BY <1>4, RunFields DEF AggTypes
  <1>8. \A b \in AggBuckets : \A t \in Int : t <= agg_clock - Grace =>
           CountOf(objects', b, 0, t) = CountOf(objects, b, 0, t)
    BY <1>4, PastKept
  <1>9. Recent'
    <2> SUFFICES ASSUME NEW o \in AggObjects
                 PROVE  (/\ \A b \in AggBuckets : objects[o].bucket = b => Exists(b)
                         /\ objects[o].created # Unset /\ objects[o].inserted = FALSE
                             => objects[o].created >= agg_clock - Grace)'
      BY DEF Recent
    <2>1. ObjectMoves(o)
      OBVIOUS
    <2>2. /\ \A b \in AggBuckets : objects[o].bucket = b => Exists(b)
          /\ objects[o].created # Unset /\ objects[o].inserted = FALSE
            => objects[o].created >= agg_clock - Grace
      BY <1>4 DEF Recent
    <2>3. \A b \in AggBuckets : objects'[o].bucket = b => Exists(b)
      BY <2>1, <2>2 DEF ObjectMoves
    <2>4. objects'[o].created # Unset /\ objects'[o].inserted = FALSE
            => objects'[o].created >= agg_clock - Grace
      BY <1>5, <2>1, <2>2 DEF ObjectMoves
    <2> QED  BY <1>1, <1>2, <2>3, <2>4
  <1>10. Sound'
    <2>1. \A b \in AggBuckets : Later(global, stats[b].last_update) \in Int
      BY <1>5, <1>6 DEF Later
    <2> QED  BY <1>1, <1>2, <1>3, <1>4, <1>6, <1>8, <2>1 DEF Sound, SoundAt
  <1>11. RunInv'
    <2>1. \A b \in AggBuckets : run.at # "idle" /\ NewBucket(b) => NewBucket(b)'
      <3> SUFFICES ASSUME NEW b \in AggBuckets, run.at # "idle", NewBucket(b), NEW o \in AggObjects,
                          objects'[o].bucket = b
                   PROVE  /\ objects'[o].created >= run.target /\ objects'[o].created >= stats[b].last_update
                          /\ objects'[o].deleted # Unset =>
                              objects'[o].deleted >= run.target /\ objects'[o].deleted >= stats[b].last_update
        BY <1>1, <1>3 DEF NewBucket
      <3>1. ObjectMoves(o)
        OBVIOUS
      <3>2. agg_clock >= run.target /\ agg_clock >= stats[b].last_update
        BY <1>4, <1>5, <1>6, TimesAre, RunFields DEF RunInv, NewBucket, AggTypes
      <3>3. objects[o].bucket = b =>
              /\ objects[o].created >= run.target /\ objects[o].created >= stats[b].last_update
              /\ objects[o].deleted # Unset =>
                  objects[o].deleted >= run.target /\ objects[o].deleted >= stats[b].last_update
        BY DEF NewBucket
      <3>4. CASE objects'[o] = objects[o]
        BY <3>3, <3>4
      <3>5. CASE objects'[o].deleted = Unset /\ objects'[o].created = agg_clock
        BY <3>2, <3>5
      <3>6. CASE /\ objects'[o].created = objects[o].created /\ objects'[o].bucket = objects[o].bucket
                 /\ objects'[o].deleted = objects[o].deleted \/ objects'[o].deleted = agg_clock
        BY <3>2, <3>3, <3>6
      <3> QED  BY <3>1, <3>4, <3>5, <3>6 DEF ObjectMoves
    <2> QED  BY <1>1, <1>2, <1>3, <1>4, <1>7, <2>1 DEF RunInv
  <1>12. RangeInv'
    <2>1. ~Settled /\ trail # "astray" => \A b \in Pending :
            CountOf(objects', b, 0, run.till) = CountOf(objects, b, 0, run.till)
      <3> SUFFICES ASSUME ~Settled, NEW b \in Pending
                   PROVE  CountOf(objects', b, 0, run.till) = CountOf(objects, b, 0, run.till)
        OBVIOUS
      <3>1. run.till \in Int /\ run.target \in Int /\ b \in AggBuckets /\ run.at # "idle"
        BY <1>4, <1>7, TimesAre DEF AggTypes, Settled, Pending
      <3>2. run.till <= run.target /\ run.target <= agg_clock - Grace
        BY <1>4, <3>1 DEF RangeInv, RunInv
      <3>3. run.till <= agg_clock - Grace
        BY <1>5, <3>1, <3>2
      <3> QED  BY <1>8, <3>1, <3>3
    <2> QED  BY <1>2, <1>3, <1>4, <1>7, <2>1 DEF RangeInv, Pending
  <1> QED  BY <1>2, <1>9, <1>10, <1>11, <1>12 DEF AggInv

\* Uploads that complete, uploads that reach the database, and deletions.
LEMMA ObjectSteps ==
    ASSUME AggInv,
           \/ \E b \in AggBuckets, o \in AggObjects : ObjectCompleted(o, b)
           \/ \E o \in AggObjects : Lands(o) \/ ObjectDeleted(o)
    PROVE  AggInv'
  <1>1. PICK o \in AggObjects : \/ \E b \in AggBuckets : ObjectCompleted(o, b)
                                \/ Lands(o) \/ ObjectDeleted(o)
    OBVIOUS
  <1>2. UNCHANGED <<agg_clock, Elsewhere>> /\ slept' = slept /\ agg_faults' = agg_faults
    BY <1>1 DEF ObjectCompleted, Lands, ObjectDeleted, Elsewhere, store
  <1>3. AggTypes /\ objects \in [AggObjects -> ObjectRec] /\ agg_clock \in AggTimes
    BY DEF AggInv, AggTypes
  <1>4. /\ objects' \in [AggObjects -> ObjectRec] /\ ObjectMoves(o)
        /\ \A p \in AggObjects : p # o => objects'[p] = objects[p]
    <2>1. CASE \E b \in AggBuckets : ObjectCompleted(o, b)
      <3>1. PICK b \in AggBuckets : ObjectCompleted(o, b)
        BY <2>1
      <3>2. /\ objects[o] = NoObject /\ Exists(b)
            /\ objects' = [objects EXCEPT ![o] = [[@ EXCEPT !.bucket = b] EXCEPT !.created = agg_clock]]
        BY <1>3, <3>1 DEF ObjectCompleted, ObjectRec
      <3>3. objects'[o] = [bucket |-> b, created |-> agg_clock, deleted |-> Unset, inserted |-> FALSE]
        <4>1. objects'[o] = [[objects[o] EXCEPT !.bucket = b] EXCEPT !.created = agg_clock]
          BY <1>3, <3>2
        <4>2. objects'[o] = [[NoObject EXCEPT !.bucket = b] EXCEPT !.created = agg_clock]
          BY <3>2, <4>1
        <4> QED  BY <4>2 DEF NoObject
      <3>4. objects'[o] \in ObjectRec
        BY <1>3, <3>3 DEF ObjectRec
      <3> QED  BY <1>3, <3>2, <3>3, <3>4 DEF ObjectMoves
    <2>2. CASE Lands(o)
      <3>1. /\ objects[o].created # Unset /\ ~objects[o].inserted
            /\ objects' = [objects EXCEPT ![o] = [@ EXCEPT !.inserted = TRUE]]
        BY <2>2 DEF Lands
      <3>2. objects[o] \in ObjectRec /\ objects[o].inserted = FALSE
        BY <1>3, <3>1 DEF ObjectRec
      <3>3. objects'[o] = [objects[o] EXCEPT !.inserted = TRUE]
        BY <1>3, <3>1
      <3>4. objects'[o] \in ObjectRec
        BY <3>2, <3>3 DEF ObjectRec
      <3> QED  BY <1>3, <3>1, <3>2, <3>3, <3>4 DEF ObjectMoves, ObjectRec
    <2>3. CASE ObjectDeleted(o)
      <3>1. /\ objects[o].inserted /\ objects[o].deleted = Unset
            /\ objects' = [objects EXCEPT ![o] = [@ EXCEPT !.deleted = agg_clock]]
        BY <2>3 DEF ObjectDeleted
      <3>2. objects[o] \in ObjectRec
        BY <1>3
      <3>3. objects'[o] = [objects[o] EXCEPT !.deleted = agg_clock]
        BY <1>3, <3>1
      <3>4. objects'[o] \in ObjectRec
        BY <1>3, <3>2, <3>3 DEF ObjectRec
      <3> QED  BY <1>3, <3>1, <3>2, <3>3, <3>4 DEF ObjectMoves, ObjectRec
    <2> QED  BY <1>1, <2>1, <2>2, <2>3
  <1>5. AggTypes'
    BY <1>2, <1>3, <1>4 DEF AggTypes, Elsewhere
  <1>6. \A p \in AggObjects : ObjectMoves(p)
    BY <1>4 DEF ObjectMoves
  <1> QED  BY <1>2, <1>5, <1>6, ObjectStep

\* The clock goes on, or back between two runs.
ClockMoves ==
    \/ /\ agg_clock' = agg_clock + 1 /\ agg_clock + 1 - Grace \notin Dates
       /\ \A o \in Flying : agg_clock < objects[o].created + Grace
    \/ agg_clock' < agg_clock /\ run.at = "idle"

\* A step of the clock alone keeps the invariant: it passes no date that a run may go on
\* from without counting up to it first.
LEMMA ClockStep ==
    ASSUME AggInv, AggTypes', UNCHANGED <<objects, Elsewhere>>,
           ClockMoves
    PROVE  AggInv'
  <1>1. UNCHANGED Elsewhere /\ objects' = objects
    OBVIOUS
  <1>2. /\ Known' /\ Kept' /\ Settled' = Settled /\ Pending' = Pending
        /\ \A b \in AggBuckets : Exists(b)' = Exists(b) /\ Same(b)' = Same(b)
    BY <1>1, ElsewhereKept
  <1>3. /\ stats' = stats /\ loaded_stats' = loaded_stats /\ memory' = memory
        /\ global' = global /\ run' = run /\ trail' = trail
    BY <1>1 DEF Elsewhere
  <1>4. AggTypes /\ Recent /\ Sound /\ RunInv /\ RangeInv
    BY DEF AggInv
  <1>5. agg_clock \in Nat /\ agg_clock' \in Nat /\ Grace \in Nat /\ global \in Nat
    BY <1>4, TimesAre DEF AggTypes
  <1>6. \A b \in AggBuckets : stats[b].last_update \in Int
    BY <1>4, StatsAre DEF AggTypes
  <1>7. /\ run.till \in AggTimes /\ run.target \in AggTimes /\ run.scope \subseteq AggBuckets
         /\ run.batch \subseteq run.scope
    BY <1>4, RunFields DEF AggTypes
  <1>8. /\ run.till \in Int /\ run.target \in Int /\ run.scope \subseteq AggBuckets
        /\ run.batch \subseteq run.scope
    BY <1>7, TimesAre
  <1>9. Recent'
    <2> SUFFICES ASSUME NEW o \in AggObjects
                 PROVE  (/\ \A b \in AggBuckets : objects[o].bucket = b => Exists(b)
                         /\ objects[o].created # Unset /\ objects[o].inserted = FALSE
                             => objects[o].created >= agg_clock - Grace)'
      BY DEF Recent
    <2>1. /\ \A b \in AggBuckets : objects[o].bucket = b => Exists(b)
          /\ objects[o].created # Unset /\ objects[o].inserted = FALSE
            => objects[o].created >= agg_clock - Grace
      BY <1>4 DEF Recent
    <2>2. objects[o].created \in Int
      <3>1. objects[o] \in ObjectRec
        BY <1>4 DEF AggTypes
      <3> QED  BY <3>1, TimesAre DEF ObjectRec, Unset
    <2>3. objects[o].created # Unset /\ objects[o].inserted = FALSE => objects[o].created >= agg_clock' - Grace
      BY <1>5, <2>1, <2>2 DEF Flying, ClockMoves
    <2> QED  BY <1>1, <1>2, <2>1, <2>3
  <1>10. Sound'
    <2>0. \A t \in Int : agg_clock' < agg_clock /\ t <= agg_clock' - Grace => t <= agg_clock - Grace
      <3> SUFFICES ASSUME NEW t \in Int, agg_clock' < agg_clock, t <= agg_clock' - Grace PROVE t <= agg_clock - Grace
        OBVIOUS
      <3>1. agg_clock \in Int /\ agg_clock' \in Int /\ Grace \in Int
        BY <1>5
      <3> QED  BY <3>1, Earlier
    <2>1. \A b \in AggBuckets :
            /\ stats[b].last_update \in Int /\ Later(global, stats[b].last_update) \in Int
            /\ stats[b].last_update \in Dates /\ Later(global, stats[b].last_update) \in Dates
      BY <1>5, <1>6 DEF Later, Dates
    <2>2. \A b \in AggBuckets : \A t \in Int : SoundAt(b, t) /\ t \in Dates =>
            (t <= agg_clock' - Grace => stats[b].count = CountOf(objects, b, 0, t))
      <3> SUFFICES ASSUME NEW b \in AggBuckets, NEW t \in Int, SoundAt(b, t), t \in Dates,
                          t <= agg_clock' - Grace
                   PROVE  stats[b].count = CountOf(objects, b, 0, t)
        OBVIOUS
      <3>1. CASE agg_clock' = agg_clock + 1 /\ agg_clock + 1 - Grace \notin Dates
        <4>1. t # agg_clock + 1 - Grace
          BY <3>1
        <4> QED  BY <1>5, <3>1, <4>1 DEF SoundAt
      <3>2. CASE agg_clock' < agg_clock
        <4>1. t <= agg_clock - Grace
          BY <2>0, <3>2
        <4> QED  BY <4>1 DEF SoundAt
      <3> QED  BY <3>1, <3>2 DEF ClockMoves
    <2> QED  BY <1>1, <1>2, <1>3, <1>4, <2>1, <2>2 DEF Sound, SoundAt
  <1>11. RunInv'
    <2>1. run.at # "idle" => \A b \in AggBuckets : NewBucket(b) => NewBucket(b)'
      BY <1>1, <1>3, <1>5, <1>6 DEF NewBucket, ClockMoves
    <2>2. run.at # "idle" /\ run.target <= agg_clock - Grace => run.target <= agg_clock' - Grace
      BY <1>5, <1>8 DEF ClockMoves
    <2> QED  BY <1>1, <1>2, <1>3, <1>4, <1>8, <2>1, <2>2 DEF RunInv
  <1>12. RangeInv'
    BY <1>1, <1>2, <1>3, <1>4, <1>8 DEF RangeInv, Pending
  <1> QED  BY <1>2, <1>9, <1>10, <1>11, <1>12 DEF AggInv

\* Time passes, or is set back between two runs.
LEMMA ClockSteps == ASSUME AggInv, AggTick \/ SetBack PROVE AggInv'
  <1>1. AggTypes
    BY DEF AggInv
  <1>2. CASE AggTick
    <2>1. AggTypes'
      <3>1. agg_clock \in Int /\ LastTime \in Int /\ FirstTime \in Int /\ agg_clock < LastTime /\ agg_clock' = agg_clock + 1
            /\ 0 <= agg_clock /\ FirstTime <= agg_clock
        BY <1>1, <1>2, TimesAre DEF AggTypes, AggTick
      <3>2. agg_clock' \in AggTimes /\ FirstTime <= agg_clock'
        BY <3>1, TimesIn
      <3> QED  BY <1>1, <1>2, <3>2 DEF AggTypes, AggTick, store
    <2>2. ClockMoves /\ UNCHANGED <<objects, Elsewhere>>
      BY <1>2 DEF ClockMoves, AggTick, store, Elsewhere
    <2> QED  BY <2>1, <2>2, ClockStep
  <1>3. CASE SetBack
    <2>1. PICK t \in FirstTime .. agg_clock - 1 : agg_clock' = t
      BY <1>3 DEF SetBack
    <2>2. t \in AggTimes /\ FirstTime <= t /\ t < agg_clock
      BY <1>1, TimesAre, AggregatorAssumption DEF AggTypes, AggTimes
    <2>3. agg_faults' \in 0..MaxAggFaults
      BY <1>1, <1>3, AggregatorAssumption DEF SetBack, Fault, AggTypes
    <2>4. AggTypes'
      BY <1>1, <1>3, <2>1, <2>2, <2>3 DEF AggTypes, SetBack, store
    <2>5. run.at = "idle" /\ UNCHANGED <<objects, Elsewhere>>
      BY <1>3 DEF SetBack, store, Elsewhere
    <2>6. ClockMoves
      BY <2>1, <2>2, <2>5 DEF ClockMoves
    <2> QED  BY <2>4, <2>5, <2>6, ClockStep
  <1> QED  BY <1>2, <1>3

-----------------------------------------------------------------------------
(* Loads *)

\* A bucket that is there has a time.
LEMMA ExistsIs == Known => \A b \in AggBuckets : Exists(b) <=> stats[b].last_update # Unset
  BY DEF Known, Exists, NoStats, Unset

\* What a load does to memory.
LEMMA LoadIs ==
    ASSUME NEW read, LoadStats(read)
    PROVE  /\ \A b \in AggBuckets : /\ loaded_stats'[b] = (IF b \in read THEN stats'[b] ELSE loaded_stats[b])
                                    /\ memory'[b] = loaded_stats'[b]
           /\ global_loaded' = global' /\ stamped' = {}
  BY DEF LoadStats

\* A load keeps the types.
LEMMA LoadTypes ==
    ASSUME AggTypes, stats' \in [AggBuckets -> Stats], NEW read, LoadStats(read)
    PROVE  loaded_stats' \in [AggBuckets -> Stats] /\ memory' \in [AggBuckets -> Stats]
  BY DEF LoadStats, AggTypes

\* A load of what was created knows the buckets of the database.
LEMMA LoadKnown ==
    ASSUME Known, NEW read, LoadStats(read),
           \A b \in AggBuckets : \/ stats'[b] = stats[b]
                                 \/ /\ stats'[b].last_update # Unset
                                    /\ b \in read \/ stats[b].last_update # Unset
    PROVE  Known'
  <1> SUFFICES ASSUME NEW b \in AggBuckets
               PROVE  (/\ stats[b].last_update = Unset => stats[b] = NoStats
                       /\ loaded_stats[b].last_update = Unset => loaded_stats[b] = NoStats
                       /\ memory[b].last_update = Unset => memory[b] = NoStats
                       /\ loaded_stats[b].last_update = Unset <=> stats[b].last_update = Unset
                       /\ memory[b].last_update = Unset <=> stats[b].last_update = Unset)'
    BY DEF Known
  <1>1. /\ loaded_stats'[b] = (IF b \in read THEN stats'[b] ELSE loaded_stats[b])
        /\ memory'[b] = loaded_stats'[b]
    BY LoadIs
  <1>2. /\ stats[b].last_update = Unset => stats[b] = NoStats
        /\ loaded_stats[b].last_update = Unset => loaded_stats[b] = NoStats
        /\ loaded_stats[b].last_update = Unset <=> stats[b].last_update = Unset
    BY DEF Known
  <1>3. stats'[b].last_update = Unset => stats'[b] = NoStats
    BY <1>2
  <1>4. CASE b \in read
    BY <1>1, <1>3, <1>4 DEF NoStats, Unset
  <1>5. CASE b \notin read
    BY <1>1, <1>2, <1>3, <1>5 DEF NoStats, Unset
  <1> QED  BY <1>4, <1>5

\* The statistics of a new bucket.
NewStats == [count |-> 0, last_update |-> agg_clock - 2 * Grace]

\* Buckets are created or their other attributes are changed.
LEMMA OtherStep ==
    ASSUME AggInv, AggTypes', NEW read, LoadStats(stamped \cup read),
           agg_clock' = agg_clock, objects' = objects, global' = global, trail' = trail,
           run' = [run EXCEPT !.shared = FALSE],
           \A b \in AggBuckets : stats'[b] = stats[b]
                                 \/ (b \in read /\ ~Exists(b) /\ stats'[b] = NewStats)
    PROVE  AggInv'
  <1>1. AggTypes /\ Known /\ Recent /\ Sound /\ RunInv /\ RangeInv /\ Kept
    BY DEF AggInv
  <1>2. /\ run'.at = run.at /\ run'.fresh = run.fresh /\ run'.more = run.more /\ run'.target = run.target
        /\ run'.global = run.global /\ run'.from = run.from /\ run'.till = run.till
        /\ run'.scope = run.scope /\ run'.batch = run.batch /\ run'.changed = run.changed
        /\ run'.local = run.local /\ run'.shared = FALSE
        /\ run.scope \subseteq AggBuckets /\ run.batch \subseteq run.scope
    BY <1>1 DEF AggTypes, RunRec
  <1>3. /\ \A b \in AggBuckets :
             /\ loaded_stats'[b] = (IF b \in stamped \cup read THEN stats'[b] ELSE loaded_stats[b])
             /\ memory'[b] = loaded_stats'[b]
        /\ global_loaded' = global /\ stamped' = {}
    BY LoadIs
  <1>4. agg_clock - 2 * Grace \in AggTimes /\ agg_clock - 2 * Grace <= agg_clock /\ agg_clock \in Int /\ Grace \in Nat
    <2>1. agg_clock \in Int /\ Grace \in Nat /\ FirstTime \in Nat /\ FirstTime <= agg_clock /\ agg_clock <= LastTime
          /\ LastTime \in Int /\ FirstTime >= 2 * Grace
      BY <1>1, TimesAre, TimesIn, AggregatorAssumption DEF AggTypes
    <2>2. agg_clock - 2 * Grace \in Int /\ 0 <= agg_clock - 2 * Grace /\ agg_clock - 2 * Grace <= LastTime
          /\ agg_clock - 2 * Grace <= agg_clock
      BY <2>1
    <2> QED  BY <2>1, <2>2, TimesIn
  <1>5. NewStats.last_update # Unset /\ NewStats.last_update = agg_clock - 2 * Grace /\ NewStats.count = 0
    BY <1>4, TimesAre DEF NewStats, Unset
  <1>6. Known'
    <2>1. \A b \in AggBuckets : \/ stats'[b] = stats[b]
                                \/ /\ stats'[b].last_update # Unset
                                   /\ b \in stamped \cup read \/ stats[b].last_update # Unset
      BY <1>5
    <2> QED  BY <1>1, <2>1, LoadKnown
  <1>7. \A b \in AggBuckets : /\ Exists(b) => Exists(b)' /\ stats'[b] = stats[b]
                              /\ Exists(b)' /\ ~Exists(b) => stats'[b] = NewStats /\ b \in read
    BY <1>5 DEF Exists, NoStats, Unset
  <1>8. Recent'
    BY <1>1, <1>7 DEF Recent
  <1>9. \A b \in AggBuckets : ~Exists(b) => \A o \in AggObjects : objects[o].bucket # b
    BY <1>1 DEF Recent
  <1>10. Sound'
    <2>1. \A b \in AggBuckets : ~Exists(b) => \A t \in Int : CountOf(objects, b, 0, t) = 0
      BY <1>1, <1>9, CountNothing DEF AggTypes
    <2>2. Later(global, agg_clock - 2 * Grace) \in Int /\ agg_clock - 2 * Grace \in Int
      BY <1>1, <1>4, TimesAre DEF AggTypes, Later
    <2>3. \A b \in AggBuckets : Exists(b)' =>
            \/ Exists(b) /\ stats'[b] = stats[b]
            \/ /\ stats'[b].last_update = agg_clock - 2 * Grace /\ stats'[b].count = 0
               /\ \A t \in Int : CountOf(objects, b, 0, t) = 0
      BY <1>5, <1>7, <2>1
    <2> QED  BY <1>1, <2>2, <2>3 DEF Sound, SoundAt
  <1>11. Settled' = Settled /\ Pending' = Pending /\ \A b \in run.scope : Exists(b) => Same(b)' = Same(b)
    BY <1>2, <1>7 DEF Settled, Pending, Same
  <1>12. RunInv'
    <2> SUFFICES ASSUME run.at # "idle", NEW b \in AggBuckets, Exists(b)', b \notin run.scope
                 PROVE  NewBucket(b)'
      BY <1>1, <1>2, <1>7 DEF RunInv
    <2>1. CASE Exists(b)
      <3>1. NewBucket(b) /\ stats'[b] = stats[b]
        BY <1>1, <1>7, <2>1 DEF RunInv
      <3> QED  BY <1>2, <1>3, <3>1 DEF NewBucket
    <2>2. CASE ~Exists(b)
      BY <1>2, <1>3, <1>4, <1>5, <1>7, <1>9, <2>2 DEF NewBucket
    <2> QED  BY <2>1, <2>2
  <1>13. RangeInv'
    <2>1. ~Settled => \A b \in run.scope : Exists(b) /\ stats'[b] = stats[b]
      BY <1>1, <1>2, <1>7 DEF RunInv, Settled
    <2>2. run.at = "range" => \A b \in run.scope : Exists(b) /\ stats'[b] = stats[b]
      BY <1>1, <1>2, <1>7 DEF RunInv
    <2>3. Pending \subseteq run.scope
      BY <1>2 DEF Pending
    <2> QED  BY <1>1, <1>2, <1>11, <2>1, <2>2, <2>3 DEF RangeInv
  <1>14. Kept'
    <2> SUFFICES ASSUME trail = "kept"
                 PROVE  /\ Settled => \A b \in AggBuckets :
                            /\ AsRead(loaded_stats'[b], global) = AsRead(stats'[b], global)
                            /\ AsRead(memory'[b], global) = AsRead(stats'[b], global)
                        /\ ~Settled => \A b \in AggBuckets :
                            AsRead(loaded_stats'[b], run.till) = AsRead(stats'[b], run.till)
      BY <1>2, <1>3, <1>11 DEF Kept
    <2>1. \A b \in AggBuckets : loaded_stats'[b] = stats'[b] \/ (loaded_stats'[b] = loaded_stats[b] /\ stats'[b] = stats[b])
      BY <1>3
    <2> QED  BY <1>1, <1>3, <2>1 DEF Kept
  <1> QED  BY <1>6, <1>8, <1>10, <1>12, <1>13, <1>14 DEF AggInv

\* Buckets that are created, and other changes of the system store.
LEMMA OtherSteps ==
    ASSUME AggInv, \/ \E b \in AggBuckets : CreateBucket(b)
                   \/ \E touched \in SUBSET AggBuckets : OtherChange(touched)
    PROVE  AggInv'
  <1>1. AggTypes
    BY DEF AggInv
  <1>2. ASSUME run' = [run EXCEPT !.shared = FALSE]
        PROVE  run' \in RunRec /\ run'.batch \subseteq run'.scope
    BY <1>1, <1>2 DEF AggTypes, RunRec
  <1>3. ASSUME NEW b \in AggBuckets, CreateBucket(b) PROVE AggInv'
    <2>1. /\ ~Exists(b) /\ stats' = [stats EXCEPT ![b] = NewStats] /\ global' = global
          /\ LoadStats(stamped \cup {b}) /\ run' = [run EXCEPT !.shared = FALSE]
          /\ UNCHANGED <<agg_clock, objects, slept, agg_faults, trail>>
      BY <1>3 DEF CreateBucket, NewStats
    <2>2. NewStats \in Stats
      <3>1. agg_clock \in Int /\ Grace \in Nat /\ FirstTime \in Nat /\ FirstTime <= agg_clock /\ agg_clock <= LastTime
            /\ LastTime \in Int /\ FirstTime >= 2 * Grace
        BY <1>1, TimesAre, TimesIn, AggregatorAssumption DEF AggTypes
      <3>2. agg_clock - 2 * Grace \in Int /\ 0 <= agg_clock - 2 * Grace /\ agg_clock - 2 * Grace <= LastTime
        BY <3>1
      <3>3. agg_clock - 2 * Grace \in AggTimes
        BY <3>2, TimesIn
      <3> QED  BY <3>3 DEF NewStats, Stats
    <2>3. /\ stats' \in [AggBuckets -> Stats]
          /\ \A c \in AggBuckets : stats'[c] = (IF c = b THEN NewStats ELSE stats[c])
      BY <1>1, <2>1, <2>2 DEF AggTypes
    <2>4. loaded_stats' \in [AggBuckets -> Stats] /\ memory' \in [AggBuckets -> Stats] /\ stamped' = {}
          /\ global_loaded' = global
      BY <1>1, <2>1, <2>3, LoadTypes, LoadIs
    <2>5. AggTypes'
      BY <1>1, <1>2, <2>1, <2>3, <2>4 DEF AggTypes
    <2>6. \A c \in AggBuckets : stats'[c] = stats[c] \/ (c \in {b} /\ ~Exists(c) /\ stats'[c] = NewStats)
      BY <2>1, <2>3
    <2> QED  BY <2>1, <2>5, <2>6, OtherStep
  <1>4. ASSUME NEW touched \in SUBSET AggBuckets, OtherChange(touched) PROVE AggInv'
    <2>1. /\ stats' = stats /\ global' = global
          /\ LoadStats(stamped \cup touched) /\ run' = [run EXCEPT !.shared = FALSE]
          /\ UNCHANGED <<agg_clock, objects, slept, agg_faults, trail>>
      BY <1>4 DEF OtherChange
    <2>2. stats' \in [AggBuckets -> Stats]
      BY <1>1, <2>1 DEF AggTypes
    <2>4. loaded_stats' \in [AggBuckets -> Stats] /\ memory' \in [AggBuckets -> Stats] /\ stamped' = {}
          /\ global_loaded' = global
      BY <1>1, <2>1, <2>2, LoadTypes, LoadIs
    <2>5. AggTypes'
      BY <1>1, <1>2, <2>1, <2>2, <2>4 DEF AggTypes
    <2> QED  BY <2>1, <2>5, OtherStep
  <1> QED  BY <1>3, <1>4

-----------------------------------------------------------------------------
(* Runs *)

\* What the state is made of before and between runs.
LEMMA IdleIs ==
    /\ NoRun \in RunRec /\ NoRun.batch \subseteq NoRun.scope /\ NoRun.at = "idle" /\ NoStats \in Stats
    /\ NoneYet \in [AggBuckets -> Stats] /\ 0 \in AggTimes
  <1>1. 0 \in AggTimes
    BY TimesIn, TimesAre
  <1>2. NoStats \in Stats
    BY DEF NoStats, Stats, Unset
  <1>3. NoneYet \in [AggBuckets -> Stats]
    BY <1>2 DEF NoneYet
  <1> QED  BY <1>1, <1>2, <1>3 DEF NoRun, RunRec

\* Nothing is asked of a run that is over.
LEMMA RunEnds ==
    ASSUME run' = NoRun
    PROVE  RunInv' /\ RangeInv' /\ Settled' /\ run'.at = "idle"
  BY IdleIs DEF RunInv, RangeInv, Settled

\* The invariant holds at the beginning.
LEMMA AggregatorBegins == AggregatorInit => AggInv
  <1> SUFFICES ASSUME AggregatorInit PROVE AggInv
    OBVIOUS
  <1>1. /\ agg_clock = FirstTime /\ objects = [o \in AggObjects |-> NoObject]
        /\ stats = NoneYet /\ loaded_stats = NoneYet /\ memory = NoneYet /\ stamped = {}
        /\ global = 0 /\ global_loaded = 0 /\ run = NoRun /\ slept = TRUE
        /\ agg_faults = MaxAggFaults /\ trail = "kept"
    BY DEF AggregatorInit
  <1>2. FirstTime \in AggTimes
    BY TimesIn, TimesAre, AggregatorAssumption
  <1>3. NoObject \in ObjectRec
    BY DEF NoObject, ObjectRec, Unset
  <1>4. MaxAggFaults \in 0..MaxAggFaults
    BY AggregatorAssumption
  <1>5. AggTypes
    BY <1>1, <1>2, <1>3, <1>4, IdleIs, TimesAre DEF AggTypes
  <1>6. \A b \in AggBuckets : stats[b] = NoStats /\ loaded_stats[b] = NoStats /\ memory[b] = NoStats /\ ~Exists(b)
    BY <1>1 DEF NoneYet, Exists
  <1>7. \A o \in AggObjects : objects[o].bucket = -1 /\ objects[o].created = -1
    BY <1>1 DEF NoObject, Unset
  <1>8. Known
    BY <1>6 DEF Known
  <1>9. Recent
    BY <1>7, AggregatorAssumption DEF Recent, Unset
  <1>10. Sound
    BY <1>6 DEF Sound
  <1>11. RunInv /\ RangeInv
    BY <1>1, IdleIs DEF RunInv, RangeInv, Settled
  <1>12. Kept
    BY <1>1, <1>6, IdleIs DEF Kept, Settled
  <1> QED  BY <1>5, <1>8, <1>9, <1>10, <1>11, <1>12 DEF AggInv

\* A run that finds no more to do keeps the invariant.
LEMMA EndRunStep == ASSUME AggInv, EndRun PROVE AggInv'
  <1>1. /\ run' = NoRun /\ UNCHANGED <<agg_clock, objects, stats, stamped, loaded_stats, memory, global, global_loaded,
                                     slept, agg_faults, trail>>
        /\ Settled
    BY DEF EndRun, store, Settled, AggInv, AggTypes, RunRec
  <1>2. AggTypes /\ Known /\ Recent /\ Sound /\ Kept
    BY DEF AggInv
  <1>3. AggTypes'
    BY <1>1, <1>2, IdleIs DEF AggTypes
  <1>4. Known' /\ Recent' /\ Sound'
    BY <1>1, <1>2 DEF Known, Recent, Sound, SoundAt, Exists
  <1>5. Kept'
    BY <1>1, <1>2, RunEnds DEF Kept
  <1> QED  BY <1>1, <1>3, <1>4, <1>5, RunEnds DEF AggInv

\* A run that begins keeps the invariant, and if no change failed it has in memory what
\* the database has, as it reads it.
LEMMA StartRunStep == ASSUME AggInv, StartRun PROVE AggInv' /\ (trail = "kept" => trail' = "kept")
  <1>1. /\ run.at = "idle"
        /\ run' = [NoRun EXCEPT !.at = "range", !.target = agg_clock - Grace, !.global = global_loaded,
                               !.scope = {b \in AggBuckets : memory[b] # NoStats},
                               !.local = memory, !.shared = TRUE]
        /\ trail' = IF \A b \in run'.scope : AsRead(memory[b], global_loaded) = AsRead(stats[b], global)
                    THEN trail ELSE "astray"
        /\ slept' = FALSE
        /\ UNCHANGED <<agg_clock, objects, stats, stamped, loaded_stats, memory, global, global_loaded, agg_faults>>
    BY DEF StartRun, store
  <1>2. AggTypes /\ Known /\ Recent /\ Sound /\ Kept
    BY DEF AggInv
  <1>3. /\ run'.at = "range" /\ run'.target = agg_clock - Grace /\ run'.global = global_loaded
        /\ run'.scope = {b \in AggBuckets : memory[b] # NoStats} /\ run'.local = memory
        /\ run'.fresh = TRUE /\ run'.batch = {} /\ run'.shared = TRUE
    BY <1>1, IdleIs DEF NoRun
  <1>4. agg_clock - Grace \in AggTimes /\ agg_clock - Grace <= agg_clock
    <2>1. agg_clock \in Int /\ Grace \in Int /\ Grace >= 0 /\ FirstTime <= agg_clock /\ agg_clock <= LastTime
          /\ FirstTime \in Int /\ LastTime \in Int /\ FirstTime >= 2 * Grace
      BY <1>2, TimesAre, TimesIn, AggregatorAssumption DEF AggTypes
    <2>2. agg_clock - Grace \in Int /\ 0 <= agg_clock - Grace /\ agg_clock - Grace <= LastTime /\ agg_clock - Grace <= agg_clock
      BY <2>1
    <2> QED  BY <2>2, TimesIn
  <1>5. run' \in RunRec /\ run'.batch \subseteq run'.scope
    <2>1. agg_clock - Grace \in AggTimes /\ global_loaded \in AggTimes /\ memory \in [AggBuckets -> Stats]
      BY <1>2, <1>4 DEF AggTypes
    <2> HIDE DEF NoRun
    <2>2. run' \in RunRec
      BY <1>1, <2>1, IdleIs DEF RunRec
    <2> QED  BY <1>3, <2>2
  <1>6. trail' \in {trail, "astray"}
    BY <1>1
  <1>7. AggTypes'
    BY <1>1, <1>2, <1>5, <1>6 DEF AggTypes
  <1>8. Known' /\ Recent' /\ Sound'
    BY <1>1, <1>2, <1>6 DEF Known, Recent, Sound, SoundAt, Exists
  <1>9. \A b \in AggBuckets : Exists(b)' = Exists(b) /\ (Exists(b) <=> memory[b] # NoStats)
                              /\ (Exists(b) => memory[b].last_update >= 0)
    BY <1>1, <1>2, StatsAre DEF Known, Exists, AggTypes, NoStats, Unset
  <1>10. RunInv'
    <2>1. run'.target <= agg_clock' - Grace'
      BY <1>1, <1>2, <1>3, <1>4, TimesAre DEF AggTypes
    <2> QED  BY <1>1, <1>3, <1>9, <2>1 DEF RunInv
  <1>11. Settled' /\ Settled
    BY <1>1, <1>3 DEF Settled
  <1>12. RangeInv'
    BY <1>1, <1>3, <1>11 DEF RangeInv, Same
  <1>13. trail = "kept" => trail' = "kept"
    BY <1>1, <1>2, <1>3, <1>11 DEF Kept
  <1>14. Kept'
    BY <1>1, <1>2, <1>11 DEF Kept
  <1> QED  BY <1>7, <1>8, <1>10, <1>12, <1>13, <1>14 DEF AggInv

\* A restart loads everything.
LEMMA RestartAggregatorStep == ASSUME AggInv, RestartAggregator PROVE AggInv'
  <1>1. /\ Fault /\ stats' = stats /\ global' = global /\ LoadStats(AggBuckets) /\ run' = NoRun
        /\ slept' = TRUE /\ trail' = IF trail = "astray" THEN "astray" ELSE "kept"
        /\ agg_clock' = agg_clock /\ objects' = objects
    BY DEF RestartAggregator
  <1>2. AggTypes /\ Known /\ Recent /\ Sound /\ Kept
    BY DEF AggInv
  <1>3. /\ \A b \in AggBuckets : loaded_stats'[b] = stats[b] /\ memory'[b] = stats[b]
        /\ global_loaded' = global /\ stamped' = {}
    BY <1>1, LoadIs
  <1>4. loaded_stats' \in [AggBuckets -> Stats] /\ memory' \in [AggBuckets -> Stats]
    <2>1. stats' \in [AggBuckets -> Stats]
      BY <1>1, <1>2 DEF AggTypes
    <2> QED  BY <1>1, <1>2, <2>1, LoadTypes
  <1>5. agg_faults' \in 0..MaxAggFaults
    BY <1>1, <1>2, AggregatorAssumption DEF Fault, AggTypes
  <1>6. AggTypes'
    BY <1>1, <1>2, <1>3, <1>4, <1>5, IdleIs DEF AggTypes
  <1>7. Known'
    BY <1>1, <1>2, LoadKnown
  <1>8. Recent' /\ Sound'
    BY <1>1, <1>2 DEF Recent, Sound, SoundAt, Exists
  <1>9. Kept'
    BY <1>1, <1>3, RunEnds DEF Kept
  <1> QED  BY <1>1, <1>6, <1>7, <1>8, <1>9, RunEnds DEF AggInv

\* The least of some natural numbers.
LEMMA MinIs ==
    ASSUME NEW S, S \subseteq Nat, S # {}
    PROVE  Min(S) \in S /\ \A t \in S : Min(S) <= t
  BY NatMin DEF Min

\* A range goes from the oldest update to the next one at most.
LEMMA RangeIs ==
    ASSUME AggInv, run.at = "range", ~Skewed, ~NoMore
    PROVE  /\ From \in AggTimes /\ Till \in AggTimes /\ run.global <= From /\ From < Till /\ Till <= run.target
           /\ \A b \in run.scope : LastUpdate(b) = From \/ run.local[b].last_update >= Till
           /\ \E b \in run.scope : LastUpdate(b) = From
  <1>1. AggTypes /\ run \in RunRec
    BY DEF AggInv, AggTypes
  <1>2. /\ run.target \in AggTimes /\ run.global \in AggTimes /\ run.scope \subseteq AggBuckets
        /\ \A b \in AggBuckets : run.local[b] \in Stats
    BY <1>1, RunFields
  <1>3. run.target \in Nat /\ run.global \in Nat
    BY <1>2, TimesAre
  <1>4. \A b \in run.scope : run.local[b].last_update \in Nat
    BY <1>2, StatsAre, TimesAre DEF AggInv, RunInv, Unset
  <1>5. \A b \in run.scope : /\ LastUpdate(b) \in Nat /\ LastUpdate(b) >= run.global
                             /\ LastUpdate(b) = run.global \/ LastUpdate(b) = run.local[b].last_update
    BY <1>3, <1>4 DEF LastUpdate, Later
  <1>6. Updates \subseteq Nat /\ \A t \in Updates : t <= run.target
    BY <1>3, <1>5 DEF Updates, Skewed
  <1>7. From \in Updates \cup {run.target} /\ \A t \in Updates \cup {run.target} : From <= t
    BY <1>3, <1>6, MinIs DEF From
  <1>8. From \in Nat /\ From < run.target /\ From \in Updates
    BY <1>3, <1>6, <1>7 DEF NoMore
  <1>9. PICK b \in run.scope : LastUpdate(b) = From
    BY <1>8 DEF Updates
  <1>10. run.global <= From
    BY <1>3, <1>5, <1>9
  <1>11. /\ NextUpdate \in {t \in Updates : t > From} \cup {run.target}
         /\ \A t \in {u \in Updates : u > From} \cup {run.target} : NextUpdate <= t
    BY <1>3, <1>6, MinIs DEF NextUpdate
  <1>12. NextUpdate \in Nat /\ NextUpdate <= run.target
    BY <1>3, <1>6, <1>11
  <1>13. Interval \in Nat
    <2>1. MaxCycles \in Nat \ {0} /\ NextUpdate - From \in Int
      BY <1>8, <1>12, AggregatorAssumption
    <2>2. (NextUpdate - From) \div MaxCycles \in Int
      BY <2>1
    <2> QED  BY <2>2 DEF Interval, Later
  <1>14. Till \in Nat /\ Till <= NextUpdate /\ From < Till
    BY <1>8, <1>12, <1>13 DEF Till, NoMore
  <1>15. \A c \in run.scope : LastUpdate(c) = From \/ run.local[c].last_update >= Till
    <2> SUFFICES ASSUME NEW c \in run.scope, LastUpdate(c) # From
                 PROVE  run.local[c].last_update >= Till
      OBVIOUS
    <2>1. LastUpdate(c) \in Updates
      BY DEF Updates
    <2>2. LastUpdate(c) > From /\ LastUpdate(c) \in Nat
      BY <1>5, <1>7, <1>8, <2>1
    <2>3. NextUpdate <= LastUpdate(c)
      BY <1>11, <2>1, <2>2
    <2>4. LastUpdate(c) = run.local[c].last_update
      BY <1>3, <1>5, <1>8, <1>10, <2>2
    <2> QED  BY <1>12, <1>14, <2>2, <2>3, <2>4
  <1>16. From \in AggTimes /\ Till \in AggTimes /\ Till <= run.target
    <2>1. run.target <= LastTime /\ LastTime \in Nat
      BY <1>2, <1>3, TimesIn, TimesAre
    <2> QED  BY <1>3, <1>8, <1>12, <1>14, <2>1, TimesIn
  <1> QED  BY <1>9, <1>10, <1>14, <1>15, <1>16

\* A batch that is not followed by another one has all the buckets of the range.
LEMMA SliceIs ==
    ASSUME NEW S, S \subseteq AggBuckets
    PROVE  Slice(S) \subseteq S /\ (~(Cardinality(S) > AggBatch) => Slice(S) = S)
  <1>1. IsFiniteSet(S) /\ Cardinality(S) \in Nat /\ AggBatch \in Nat
    BY FS_Subset, FS_CardinalityType, AggregatorAssumption
  <1>2. ASSUME NEW b \in S, ~(Cardinality(S) > AggBatch)
        PROVE  Cardinality({c \in S : c <= b}) <= AggBatch
    <2>1. {c \in S : c <= b} \in SUBSET S
      OBVIOUS
    <2>2. IsFiniteSet({c \in S : c <= b}) /\ Cardinality({c \in S : c <= b}) <= Cardinality(S)
      BY <1>1, <2>1, FS_Subset
    <2>3. Cardinality({c \in S : c <= b}) \in Nat
      BY <2>2, FS_CardinalityType
    <2> QED  BY <1>1, <1>2, <2>2, <2>3
  <1> QED  BY <1>2 DEF Slice

\* The batch of a range, what is summed up for a bucket of it, and the statistics after it.
Batch(from) == Slice(Behind(from))
Summed(b, from, till) ==
    [count |-> run.local[b].count + Delta(b, from, till), last_update |-> till]
NewLocal(from, till) ==
    [b \in AggBuckets |-> IF b \in Batch(from) THEN Summed(b, from, till) ELSE run.local[b]]

\* What the aggregation of a range does to the run.
Aggregates(from, till) ==
    /\ run' \in RunRec
    /\ run'.at = "write" /\ run'.from = from /\ run'.till = till /\ run'.batch = Batch(from)
    /\ run'.local = NewLocal(from, till)
    /\ run'.changed = {b \in Batch(from) : Summed(b, from, till).count # run.local[b].count}
    /\ run'.more = (Cardinality(Behind(from)) > AggBatch)
    /\ run'.target = run.target /\ run'.global = run.global /\ run'.scope = run.scope
    /\ run'.shared = run.shared /\ run'.fresh = run.fresh

\* What the range is of.
InRange(from, till) ==
    /\ from \in AggTimes /\ till \in AggTimes /\ from < till /\ till <= run.target /\ run.global <= from
    /\ \A b \in run.scope : LastUpdate(b) = from \/ run.local[b].last_update >= till
    /\ trail # "astray" => global <= from /\ \A b \in run.scope : Same(b)
    /\ run.fresh = FALSE => till = run.till

\* What the aggregation makes of the statistics of the run.
LEMMA SumsAre ==
    ASSUME AggInv, run.at = "range", NEW from \in AggTimes, NEW till \in AggTimes
    PROVE  /\ Batch(from) \subseteq run.scope /\ run.scope \subseteq AggBuckets
           /\ NewLocal(from, till) \in [AggBuckets -> Stats]
           /\ \A b \in AggBuckets : NewLocal(from, till)[b]
                = (IF b \in Batch(from) THEN Summed(b, from, till) ELSE run.local[b])
  <1>1. run \in RunRec
    BY DEF AggInv, AggTypes
  <1>2. run.scope \subseteq AggBuckets /\ \A b \in AggBuckets : run.local[b] \in Stats
    BY <1>1, RunFields
  <1>3. Batch(from) \subseteq run.scope
    BY <1>2, SliceIs DEF Batch, Behind
  <1>4. \A b \in AggBuckets : Summed(b, from, till) \in Stats
    <2> SUFFICES ASSUME NEW b \in AggBuckets PROVE Summed(b, from, till) \in Stats
      OBVIOUS
    <2>1. Delta(b, from, till) \in Int /\ run.local[b].count \in Int
      BY <1>2, DeltaIs, CountIs, StatsAre
    <2> QED  BY <2>1 DEF Summed, Stats
  <1>5. \A b \in AggBuckets : (IF b \in Batch(from) THEN Summed(b, from, till) ELSE run.local[b]) \in Stats
    BY <1>2, <1>4
  <1> QED  BY <1>2, <1>3, <1>5 DEF NewLocal

\* An aggregation is of a range, a new one or the one whose batches are not all done.
LEMMA AggregateIs ==
    ASSUME AggInv, Aggregate
    PROVE  /\ run.at = "range"
           /\ memory' = IF run.shared THEN run'.local ELSE memory
           /\ UNCHANGED <<agg_clock, objects, stats, stamped, loaded_stats, global, global_loaded,
                          slept, agg_faults, trail>>
           /\ \E from, till \in AggTimes : InRange(from, till) /\ Aggregates(from, till)
  <1>1. /\ run.at = "range" /\ (run.fresh => ~Skewed /\ ~NoMore)
        /\ memory' = IF run.shared THEN run'.local ELSE memory
        /\ UNCHANGED <<agg_clock, objects, stats, stamped, loaded_stats, global, global_loaded,
                          slept, agg_faults, trail>>
    BY DEF Aggregate
  <1>2. AggTypes /\ run \in RunRec /\ run.fresh \in BOOLEAN
    BY RunFields DEF AggInv, AggTypes
  <1> DEFINE from == IF run.fresh THEN From ELSE run.from
             till == IF run.fresh THEN Till ELSE run.till
  <1>3. InRange(from, till)
    <2>1. CASE run.fresh = TRUE
      <3>1. /\ From \in AggTimes /\ Till \in AggTimes /\ run.global <= From /\ From < Till /\ Till <= run.target
            /\ \A b \in run.scope : LastUpdate(b) = From \/ run.local[b].last_update >= Till
            /\ \E b \in run.scope : LastUpdate(b) = From
        BY <1>1, <2>1, RangeIs
      <3>2. trail # "astray" => \A b \in run.scope : Same(b)
        BY <1>1, <2>1 DEF AggInv, RangeInv
      <3>3. trail # "astray" => global <= From
        <4>1. PICK b \in run.scope : LastUpdate(b) = From
          BY <3>1
        <4>2. b \in AggBuckets /\ stats[b].last_update \in Int /\ global \in Nat
          BY <1>2, RunFields, StatsAre, TimesAre DEF AggTypes
        <4>3. Later(global, stats[b].last_update) >= global
          BY <4>2 DEF Later
        <4>4. Same(b) => LastUpdate(b) = Later(global, stats[b].last_update)
          BY AsReadIs DEF Same, LastUpdate
        <4> QED  BY <3>2, <4>1, <4>3, <4>4
      <3> QED  BY <2>1, <3>1, <3>2, <3>3 DEF InRange
    <2>2. CASE run.fresh = FALSE
      <3>1. ~Settled /\ Pending = {}
        BY <1>1, <2>2 DEF Settled, Pending
      <3>2. run.from \in AggTimes /\ run.till \in AggTimes
        BY <1>2, RunFields
      <3> QED  BY <2>2, <3>1, <3>2 DEF AggInv, RangeInv, InRange, LastUpdate
    <2> QED  BY <1>2, <2>1, <2>2
  <1>4. from \in AggTimes /\ till \in AggTimes
    BY <1>3 DEF InRange
  <1>5. run' = [run EXCEPT !.at = "write", !.from = from, !.till = till, !.batch = Batch(from),
                           !.local = NewLocal(from, till),
                           !.changed = {b \in Batch(from) : Summed(b, from, till).count # run.local[b].count},
                           !.more = Cardinality(Behind(from)) > AggBatch]
    <2> HIDE DEF from, till
    <2>1. run' = [run EXCEPT !.at = "write", !.from = from, !.till = till, !.batch = Batch(from),
                     !.local = [b \in AggBuckets |-> IF b \in Batch(from)
                                  THEN [c \in Batch(from) |-> Summed(c, from, till)][b] ELSE @[b]],
                     !.changed = {b \in Batch(from) :
                          [c \in Batch(from) |-> Summed(c, from, till)][b].count # run.local[b].count},
                     !.more = Cardinality(Behind(from)) > AggBatch]
      BY DEF Aggregate, from, till, Batch, Summed
    <2>2. [b \in AggBuckets |-> IF b \in Batch(from)
             THEN [c \in Batch(from) |-> Summed(c, from, till)][b] ELSE run.local[b]] = NewLocal(from, till)
      BY DEF NewLocal
    <2>3. {b \in Batch(from) : [c \in Batch(from) |-> Summed(c, from, till)][b].count # run.local[b].count}
            = {b \in Batch(from) : Summed(b, from, till).count # run.local[b].count}
      OBVIOUS
    <2> QED  BY <2>1, <2>2, <2>3
  <1> HIDE DEF from, till
  <1>6. Aggregates(from, till)
    <2> DEFINE M == Cardinality(Behind(from)) > AggBatch
               C == {b \in Batch(from) : Summed(b, from, till).count # run.local[b].count}
               B == Batch(from)
               L == NewLocal(from, till)
    <2>1. /\ M \in BOOLEAN /\ C \subseteq AggBuckets /\ B \subseteq AggBuckets
          /\ L \in [AggBuckets -> Stats]
      BY <1>1, <1>4, SumsAre
    <2>2. run' = [run EXCEPT !.at = "write", !.from = from, !.till = till, !.batch = B,
                             !.local = L, !.changed = C, !.more = M]
      BY <1>5
    <2> HIDE DEF M, C, B, L
    <2>3. /\ run' \in RunRec /\ run'.at = "write" /\ run'.from = from /\ run'.till = till /\ run'.batch = B
          /\ run'.local = L /\ run'.changed = C /\ run'.more = M
          /\ run'.target = run.target /\ run'.global = run.global /\ run'.scope = run.scope
          /\ run'.shared = run.shared /\ run'.fresh = run.fresh
      BY <1>2, <1>4, <2>1, <2>2 DEF RunRec
    <2> QED  BY <2>3 DEF Aggregates, M, C, B, L
  <1> QED  BY <1>1, <1>3, <1>4, <1>6

\* Two dates that are read the same from g on are read the same from any later date on.
LEMMA LaterKept ==
    ASSUME NEW x \in Int, NEW y \in Int, NEW g \in Int, NEW t \in Int, g <= t,
           Later(g, x) = Later(g, y)
    PROVE  Later(t, x) = Later(t, y)
  BY DEF Later

\* What is summed up for a bucket of the batch.
LEMMA SummedIs ==
    ASSUME AggInv, run.at = "range", NEW from, NEW till, InRange(from, till),
           NEW b \in Batch(from)
    PROVE  /\ b \in run.scope /\ b \in AggBuckets
           /\ trail # "astray" =>
                /\ Summed(b, from, till).count = CountOf(objects, b, 0, till)
                /\ stats[b].last_update <= from /\ run.local[b].count = stats[b].count
  <1>1. AggTypes /\ Known /\ Sound /\ RunInv
    BY DEF AggInv
  <1>2. /\ run.scope \subseteq AggBuckets /\ run.target \in AggTimes /\ run.global \in AggTimes
        /\ \A c \in AggBuckets : run.local[c] \in Stats /\ stats[c] \in Stats
        /\ objects \in [AggObjects -> ObjectRec]
    BY <1>1, RunFields DEF AggTypes
  <1>3. /\ from \in AggTimes /\ till \in AggTimes /\ from < till /\ till <= run.target
        /\ \A c \in run.scope : LastUpdate(c) = from \/ run.local[c].last_update >= till
        /\ trail # "astray" => global <= from /\ Same(b)
        /\ b \in run.scope /\ b \in AggBuckets /\ run.local[b].last_update <= from
    <2>1. Batch(from) \subseteq Behind(from) /\ Behind(from) \subseteq run.scope
      BY <1>2, SliceIs DEF Batch, Behind
    <2>2. b \in run.scope /\ run.local[b].last_update <= from
      BY <2>1 DEF Behind
    <2> QED  BY <1>2, <2>2 DEF InRange
  <1>4. /\ from \in Nat /\ till \in Nat /\ run.target \in Nat /\ agg_clock \in Nat
        /\ Grace \in Nat /\ global \in Nat
        /\ run.local[b].last_update \in Int /\ stats[b].last_update \in Int /\ stats[b].count \in Int
        /\ run.local[b].count \in Int
    BY <1>1, <1>2, <1>3, TimesAre, StatsAre DEF AggTypes
  <1>5. LastUpdate(b) = from
    BY <1>3, <1>4
  <1>6. ASSUME trail # "astray"
        PROVE  /\ Summed(b, from, till).count = CountOf(objects, b, 0, till)
               /\ stats[b].last_update <= from /\ run.local[b].count = stats[b].count
    <2>1. run.local[b].count = stats[b].count /\ Later(global, stats[b].last_update) = from
      BY <1>3, <1>5, <1>6, AsReadIs DEF Same, LastUpdate
    <2>2. stats[b].last_update <= from
      BY <1>4, <2>1 DEF Later
    <2>3. from <= agg_clock - Grace
      BY <1>1, <1>3, <1>4 DEF RunInv
    <2>4. stats[b].count = CountOf(objects, b, 0, from)
      BY <1>1, <1>3, <1>6, <2>1, <2>3 DEF Sound, SoundAt, RunInv
    <2>5. CountOf(objects, b, 0, till) = CountOf(objects, b, 0, from) + CountOf(objects, b, from, till)
      BY <1>2, <1>3, <1>4, CountSplits
    <2>6. Summed(b, from, till).count = run.local[b].count + CountOf(objects, b, from, till)
      BY DeltaIs DEF Summed
    <2> QED  BY <2>1, <2>2, <2>4, <2>5, <2>6
  <1> QED  BY <1>3, <1>6

\* An aggregation counts up to the end of the range what was counted up to its beginning.
LEMMA AggregateStep == ASSUME AggInv, Aggregate PROVE AggInv'
  <1>1. /\ run.at = "range"
        /\ memory' = IF run.shared THEN run'.local ELSE memory
        /\ UNCHANGED <<agg_clock, objects, stats, stamped, loaded_stats, global, global_loaded,
                       slept, agg_faults, trail>>
    BY AggregateIs
  <1>2. PICK from \in AggTimes, till \in AggTimes : InRange(from, till) /\ Aggregates(from, till)
    BY AggregateIs
  <1>3. AggTypes /\ Known /\ Recent /\ Sound /\ RunInv /\ RangeInv /\ Kept
    BY DEF AggInv
  <1>4. /\ run' \in RunRec /\ run'.at = "write" /\ run'.from = from /\ run'.till = till
        /\ run'.batch = Batch(from) /\ run'.local = NewLocal(from, till)
        /\ run'.changed = {b \in Batch(from) : Summed(b, from, till).count # run.local[b].count}
        /\ run'.more = (Cardinality(Behind(from)) > AggBatch)
        /\ run'.target = run.target /\ run'.global = run.global /\ run'.scope = run.scope
        /\ run'.shared = run.shared /\ run'.fresh = run.fresh
    BY <1>2 DEF Aggregates
  <1>5. /\ from < till /\ till <= run.target /\ run.global <= from
        /\ \A b \in run.scope : LastUpdate(b) = from \/ run.local[b].last_update >= till
        /\ trail # "astray" => global <= from /\ \A b \in run.scope : Same(b)
        /\ run.fresh = FALSE => till = run.till
    BY <1>2 DEF InRange
  <1>6. /\ Batch(from) \subseteq run.scope /\ run.scope \subseteq AggBuckets
        /\ NewLocal(from, till) \in [AggBuckets -> Stats]
        /\ \A b \in AggBuckets : NewLocal(from, till)[b]
             = (IF b \in Batch(from) THEN Summed(b, from, till) ELSE run.local[b])
    BY <1>1, <1>2, <1>3, SumsAre
  <1>7. \A b \in Batch(from) : Summed(b, from, till).last_update = till
    BY DEF Summed
  <1>8. from \in Nat /\ till \in Nat /\ global \in Nat /\ run.global \in Nat /\ run.shared \in BOOLEAN
        /\ run.fresh \in BOOLEAN
    BY <1>3, TimesAre, RunFields DEF AggTypes
  <1>9. \A b \in AggBuckets : /\ run.local[b].last_update \in Int /\ stats[b].last_update \in Int
                              /\ loaded_stats[b].last_update \in Int
    BY <1>3, StatsAre, RunFields DEF AggTypes
  <1>10. memory' \in [AggBuckets -> Stats]
    BY <1>1, <1>3, <1>4, <1>6 DEF AggTypes
  <1>11. AggTypes'
    BY <1>1, <1>3, <1>4, <1>6, <1>10 DEF AggTypes
  <1>12. Recent' /\ Sound' /\ \A b : Exists(b)' = Exists(b)
    BY <1>1, <1>3 DEF Recent, Sound, SoundAt, Exists
  <1>13. Known'
    <2>1. \A b \in AggBuckets : memory'[b] = memory[b]
                              \/ (memory'[b].last_update = till /\ b \in run.scope)
      <3>1. CASE run.shared = TRUE
        BY <1>1, <1>3, <1>4, <1>6, <1>7, <3>1 DEF RunInv
      <3>2. CASE run.shared = FALSE
        BY <1>1, <3>2
      <3> QED  BY <1>8, <3>1, <3>2
    <2>2. till # Unset /\ \A b \in run.scope : stats[b].last_update # Unset
      BY <1>1, <1>3, <1>6, <1>8, ExistsIs DEF RunInv, Unset
    <2> QED  BY <1>1, <1>3, <2>1, <2>2 DEF Known
  <1>14. RunInv'
    <2>1. \A b \in run.scope : NewLocal(from, till)[b].last_update >= 0
      BY <1>1, <1>3, <1>6, <1>7, <1>8 DEF RunInv
    <2>2. \A b \in AggBuckets : NewBucket(b)' = NewBucket(b)
      BY <1>1, <1>4 DEF NewBucket
    <2> QED  BY <1>1, <1>3, <1>4, <1>6, <1>12, <2>1, <2>2 DEF RunInv
  <1>15. ~Settled' /\ Pending' = Batch(from)
    BY <1>4 DEF Settled, Pending
  <1>16. RangeInv'
    <2>1. \A b \in run.scope : \/ Later(run.global, NewLocal(from, till)[b].last_update) = from
                              \/ NewLocal(from, till)[b].last_update >= till
      BY <1>5, <1>6, <1>7, <1>8 DEF LastUpdate
    <2>2. ~(Cardinality(Behind(from)) > AggBatch) =>
             \A b \in run.scope : NewLocal(from, till)[b].last_update >= till
      <3> SUFFICES ASSUME ~(Cardinality(Behind(from)) > AggBatch), NEW b \in run.scope
                   PROVE  NewLocal(from, till)[b].last_update >= till
        OBVIOUS
      <3>1. Batch(from) = Behind(from)
        BY <1>6, SliceIs DEF Batch, Behind
      <3>2. CASE b \in Batch(from)
        BY <1>6, <1>7, <1>8, <3>2
      <3>3. CASE b \notin Batch(from)
        <4>1. run.local[b].last_update > from /\ NewLocal(from, till)[b] = run.local[b]
          BY <1>6, <1>8, <1>9, <3>1, <3>3 DEF Behind
        <4>2. LastUpdate(b) # from
          BY <1>6, <1>8, <1>9, <4>1 DEF LastUpdate, Later
        <4> QED  BY <1>5, <4>1, <4>2
      <3> QED  BY <3>2, <3>3
    <2>3. \A b \in run.scope \ Batch(from) : Same(b)' = Same(b)
      BY <1>1, <1>4, <1>6 DEF Same
    <2>4. trail # "astray" => \A b \in Batch(from) :
            /\ Summed(b, from, till).count = CountOf(objects, b, 0, till)
            /\ stats[b].last_update <= from /\ run.local[b].count = stats[b].count
      BY <1>1, <1>2, SummedIs
    <2>5. \A b \in Batch(from) : NewLocal(from, till)[b] = Summed(b, from, till)
      BY <1>6
    <2> DEFINE L == NewLocal(from, till)
               B == Batch(from)
    <2>6. \A b \in B : /\ L[b].last_update = till
                       /\ L[b].count = Summed(b, from, till).count
                       /\ b \notin run'.changed => L[b].count = run.local[b].count
      BY <1>4, <1>7, <2>5
    <2>7. \A b \in run.scope : Later(run.global, L[b].last_update) = from \/ L[b].last_update >= till
      BY <2>1
    <2>8. run'.more = FALSE => \A b \in run.scope : L[b].last_update >= till
      BY <1>4, <2>2
    <2>9. run'.local = L /\ Pending' = B /\ run'.scope = run.scope /\ run'.at = "write"
      BY <1>4, <1>15
    <2> HIDE DEF L, B
    <2>10. trail # "astray" => \A b \in B :
             /\ L[b].count = CountOf(objects, b, 0, till) /\ stats[b].last_update <= from
             /\ b \notin run'.changed => L[b].count = stats[b].count
      BY <2>4, <2>6 DEF B
    <2>11. \A b \in run.scope \ B : Same(b)' = Same(b)
      BY <2>3 DEF B
    <2>12. (~Settled => /\ run.global <= run.from /\ run.from < run.till /\ run.till <= run.target
                        /\ \A b \in run.scope : \/ Later(run.global, run.local[b].last_update) = run.from
                                                \/ run.local[b].last_update >= run.till
                        /\ \A b \in Pending : run.local[b].last_update = run.till)'
      BY <1>4, <1>5, <2>6, <2>7, <2>9
    <2>13. ((run.at = "write" /\ run.more = FALSE) \/ run.at = "global" =>
               \A b \in run.scope : run.local[b].last_update >= run.till)'
      BY <1>4, <2>8, <2>9
    <2>14. (trail # "astray" =>
            /\ global <= run.from
            /\ \A b \in run.scope \ Pending : Same(b)
            /\ \A b \in Pending :
                /\ run.local[b].count = CountOf(objects, b, 0, run.till)
                /\ stats[b].last_update <= run.from
                /\ b \notin run.changed => run.local[b].count = stats[b].count)'
      BY <1>1, <1>4, <1>5, <2>9, <2>10, <2>11
    <2> QED  BY <2>9, <2>12, <2>13, <2>14 DEF RangeInv
  <1>17. Kept'
    <2> SUFFICES ASSUME trail = "kept", NEW b \in AggBuckets
                 PROVE  AsRead(loaded_stats[b], till) = AsRead(stats[b], till)
      BY <1>1, <1>3, <1>4, <1>15 DEF Kept
    <2>1. CASE run.fresh = TRUE
      <3>1. AsRead(loaded_stats[b], global) = AsRead(stats[b], global)
        BY <1>1, <1>3, <2>1 DEF Kept, Settled
      <3>2. global <= till
        BY <1>5, <1>8
      <3> QED  BY <1>8, <1>9, <3>1, <3>2, AsReadIs, LaterKept
    <2>2. CASE run.fresh = FALSE
      BY <1>1, <1>3, <1>5, <2>2 DEF Kept, Settled
    <2> QED  BY <1>8, <2>1, <2>2
  <1> QED  BY <1>11, <1>12, <1>13, <1>14, <1>16, <1>17 DEF AggInv

-----------------------------------------------------------------------------
(* Changes of the system store *)

\* A change leaves the buckets that there are.
Changes ==
    /\ stats' \in [AggBuckets -> Stats] /\ global' \in AggTimes
    /\ \A b \in AggBuckets : \/ stats'[b] = stats[b]
                             \/ stats[b].last_update # Unset /\ stats'[b].last_update # Unset

\* Objects are still of buckets there are.
LEMMA ChangesKeep ==
    ASSUME AggInv, Changes, objects' = objects, agg_clock' = agg_clock
    PROVE  Recent' /\ \A b \in AggBuckets : Exists(b)' = Exists(b)
  <1>1. Known /\ Recent
    BY DEF AggInv
  <1>2. \A b \in AggBuckets : stats'[b].last_update = Unset <=> stats[b].last_update = Unset
    BY DEF Changes
  <1>3. \A b \in AggBuckets : Exists(b)' = Exists(b)
    BY <1>1, <1>2 DEF Changes, Known, Exists, NoStats, Unset
  <1> QED  BY <1>1, <1>3 DEF Recent

\* The statistics of a batch are written.
LEMMA BucketsWritten ==
    ASSUME AggInv, run.at = "write", objects' = objects, agg_clock' = agg_clock, global' = global,
           stats' = [b \in AggBuckets |-> IF b \in run.batch THEN run.local[b] ELSE stats[b]],
           trail' # "astray" => trail # "astray"
    PROVE  Changes /\ Sound'
  <1>1. AggTypes /\ Known /\ Recent /\ Sound /\ RunInv /\ RangeInv
    BY DEF AggInv
  <1>2. /\ run.batch \subseteq run.scope /\ run.scope \subseteq AggBuckets
        /\ run.local \in [AggBuckets -> Stats] /\ stats \in [AggBuckets -> Stats]
        /\ global \in Nat /\ run.from \in Nat /\ run.till \in Nat /\ run.target \in Nat
        /\ agg_clock \in Nat /\ Grace \in Nat /\ global \in AggTimes
    BY <1>1, RunFields, TimesAre DEF AggTypes
  <1>3. stats' \in [AggBuckets -> Stats]
    BY <1>2
  <1>4. \A b \in AggBuckets : stats'[b] = (IF b \in run.batch THEN run.local[b] ELSE stats[b])
    OBVIOUS
  <1>5. ~Settled /\ Pending = run.batch
    BY DEF Settled, Pending
  <1>6. /\ run.from < run.till /\ run.till <= run.target /\ run.target <= agg_clock - Grace
        /\ \A b \in run.batch : run.local[b].last_update = run.till /\ Exists(b)
        /\ trail # "astray" => /\ global <= run.from
                              /\ \A b \in run.batch : run.local[b].count = CountOf(objects, b, 0, run.till)
    BY <1>1, <1>2, <1>5 DEF RangeInv, RunInv
  <1>7. \A b \in run.batch : stats[b].last_update # Unset /\ run.local[b].last_update # Unset
    BY <1>1, <1>2, <1>6, ExistsIs DEF Unset
  <1>8. Changes
    BY <1>2, <1>3, <1>4, <1>7 DEF Changes
  <1>9. \A b \in AggBuckets : Exists(b)' = Exists(b)
    BY <1>8, ChangesKeep
  <1>10. Sound'
    <2> SUFFICES ASSUME trail # "astray", NEW b \in AggBuckets, Exists(b)
                 PROVE  /\ SoundAt(b, stats[b].last_update)'
                        /\ SoundAt(b, Later(global, stats[b].last_update))'
      BY <1>9 DEF Sound
    <2>1. CASE b \in run.batch
      <3>1. stats'[b].last_update = run.till /\ stats'[b].count = CountOf(objects, b, 0, run.till)
        BY <1>4, <1>6, <2>1
      <3>2. Later(global, run.till) = run.till
        BY <1>2, <1>6 DEF Later
      <3> QED  BY <3>1, <3>2 DEF SoundAt
    <2>2. CASE b \notin run.batch
      BY <1>1, <1>4, <2>2 DEF Sound, SoundAt
    <2> QED  BY <2>1, <2>2
  <1> QED  BY <1>8, <1>10

\* After the batches of a range the database has of every bucket what the run has of it.
LEMMA RangeDone ==
    ASSUME AggInv, run.at = "global"
    PROVE  /\ run.from \in Nat /\ run.till \in Nat /\ run.target \in Nat /\ run.global \in Nat
           /\ run.global < run.till /\ run.till <= run.target /\ run.target <= agg_clock - Grace
           /\ run.till \in AggTimes
           /\ trail # "astray" => \A b \in run.scope :
                /\ stats[b].count = run.local[b].count /\ b \in AggBuckets
                /\ stats[b].last_update = run.local[b].last_update
                /\ stats[b].last_update >= run.till
                /\ stats[b].last_update \in Int
  <1>1. AggTypes /\ RunInv /\ RangeInv
    BY DEF AggInv
  <1>2. /\ run.scope \subseteq AggBuckets /\ run.till \in AggTimes
        /\ global \in Nat /\ run.from \in Nat /\ run.till \in Nat /\ run.target \in Nat
        /\ run.global \in Nat
        /\ \A b \in AggBuckets : stats[b].last_update \in Int /\ run.local[b].last_update \in Int
    BY <1>1, RunFields, TimesAre, StatsAre DEF AggTypes
  <1>3. ~Settled /\ Pending = {}
    BY DEF Settled, Pending
  <1>4. /\ run.global <= run.from /\ run.from < run.till /\ run.till <= run.target
        /\ run.target <= agg_clock - Grace
        /\ \A b \in run.scope : run.local[b].last_update >= run.till
        /\ trail # "astray" => global <= run.from /\ \A b \in run.scope : Same(b)
    BY <1>1, <1>3 DEF RangeInv, RunInv
  <1>5. ASSUME trail # "astray", NEW b \in run.scope
        PROVE  /\ stats[b].count = run.local[b].count /\ b \in AggBuckets
               /\ stats[b].last_update = run.local[b].last_update
               /\ stats[b].last_update >= run.till
               /\ stats[b].last_update \in Int
    <2>1. /\ stats[b].count = run.local[b].count
          /\ Later(run.global, run.local[b].last_update) = Later(global, stats[b].last_update)
      BY <1>4, <1>5, AsReadIs DEF Same
    <2>2. b \in AggBuckets /\ stats[b].last_update \in Int /\ run.local[b].last_update \in Int
          /\ global <= run.from /\ run.local[b].last_update >= run.till
      BY <1>2, <1>4, <1>5
    <2> QED  BY <1>2, <1>4, <2>1, <2>2 DEF Later
  <1> QED  BY <1>2, <1>4, <1>5

\* The end of a range is written to the database.
LEMMA GlobalWritten ==
    ASSUME AggInv, run.at = "global", objects' = objects, agg_clock' = agg_clock, global' = run.till,
           stats' = stats, trail' # "astray" => trail # "astray"
    PROVE  Changes /\ Sound'
  <1>1. AggTypes /\ Known /\ Recent /\ Sound /\ RunInv
    BY DEF AggInv
  <1>2. /\ run.till \in Nat /\ run.target \in Nat /\ run.till <= run.target /\ run.till \in AggTimes
        /\ trail # "astray" => \A b \in run.scope :
             stats[b].last_update >= run.till /\ stats[b].last_update \in Int
    BY RangeDone
  <1>3. Changes
    BY <1>1, <1>2 DEF Changes, AggTypes
  <1>4. \A b \in AggBuckets : Exists(b)' = Exists(b)
    BY <1>3, ChangesKeep
  <1>5. Sound'
    <2> SUFFICES ASSUME trail # "astray", NEW b \in AggBuckets, Exists(b)
                 PROVE  /\ SoundAt(b, stats[b].last_update)'
                        /\ SoundAt(b, Later(global, stats[b].last_update))'
      BY <1>4 DEF Sound
    <2>1. SoundAt(b, stats[b].last_update)'
      BY <1>1 DEF Sound, SoundAt
    <2>2. stats[b].last_update \in Int
      BY <1>1, StatsAre DEF AggTypes
    <2>3. CASE b \in run.scope
      <3>1. Later(run.till, stats[b].last_update) = stats[b].last_update
        BY <1>2, <2>3 DEF Later
      <3> QED  BY <2>1, <3>1
    <2>4. CASE b \notin run.scope
      <3>1. NewBucket(b)
        BY <1>1, <2>4 DEF RunInv
      <3>2. stats[b].count = 0 /\ CountOf(objects, b, 0, run.till) = 0
        <4>1. \A o \in AggObjects : objects[o].created \in Int /\ objects[o].deleted \in Int
          BY <1>1, TimesAre DEF AggTypes, ObjectRec, Unset
        <4>2. \A o \in AggObjects : objects[o].bucket = b =>
                 /\ objects[o].created >= run.till
                 /\ objects[o].deleted # Unset => objects[o].deleted >= run.till
          BY <1>2, <3>1, <4>1 DEF NewBucket
        <4> QED  BY <1>1, <1>2, <3>1, <4>2, CountNothing DEF NewBucket, AggTypes
      <3>3. Later(run.till, stats[b].last_update) \in {run.till, stats[b].last_update}
        BY DEF Later
      <3> QED  BY <2>1, <3>2, <3>3 DEF SoundAt
    <2> QED  BY <2>1, <2>3, <2>4
  <1> QED  BY <1>3, <1>5

\* The statistics are reset, or global_last_update only is.
LEMMA ResetWritten ==
    ASSUME AggInv, run.at = "range", objects' = objects, agg_clock' = agg_clock, global' = 0,
           stats' = Zeroed(run.scope) \/ (stats' = stats /\ trail # "astray")
    PROVE  Changes /\ Sound'
  <1>1. AggTypes /\ Known /\ Recent /\ Sound /\ RunInv
    BY DEF AggInv
  <1>2. \A b \in AggBuckets : \/ b \in run.scope /\ stats'[b] = [count |-> 0, last_update |-> 0]
                              \/ stats'[b] = stats[b] /\ (b \notin run.scope \/ trail # "astray")
    <2>1. CASE stats' = Zeroed(run.scope)
      BY <2>1 DEF Zeroed
    <2>2. CASE stats' = stats /\ trail # "astray"
      BY <2>2
    <2> QED  BY <2>1, <2>2
  <1>3. stats' \in [AggBuckets -> Stats] /\ 0 \in AggTimes
    <2>1. [count |-> 0, last_update |-> 0] \in Stats
      BY IdleIs DEF Stats
    <2>2. stats \in [AggBuckets -> Stats]
      BY <1>1 DEF AggTypes
    <2> QED  BY <2>1, <2>2, IdleIs DEF Zeroed
  <1>4. \A b \in run.scope : stats[b].last_update # Unset /\ b \in AggBuckets
    BY <1>1, RunFields, ExistsIs DEF RunInv, AggTypes
  <1>5. Changes
    BY <1>2, <1>3, <1>4 DEF Changes, Unset
  <1>6. \A b \in AggBuckets : Exists(b)' = Exists(b)
    BY <1>5, ChangesKeep
  <1>7. Sound'
    <2> SUFFICES ASSUME NEW b \in AggBuckets, Exists(b)
                 PROVE  /\ SoundAt(b, stats[b].last_update)'
                        /\ SoundAt(b, Later(global, stats[b].last_update))'
      BY <1>6 DEF Sound
    <2>1. stats[b].last_update \in Nat
      <3>1. stats[b] \in Stats /\ stats[b].last_update # Unset
        BY <1>1, ExistsIs DEF AggTypes
      <3> QED  BY <3>1, StatsAre, TimesAre
    <2>2. Later(0, stats[b].last_update) = stats[b].last_update /\ Later(0, 0) = 0
      BY <2>1 DEF Later
    <2>3. CASE b \in run.scope /\ stats'[b] = [count |-> 0, last_update |-> 0]
      <3>1. Created(objects, b, 0, 0) = {} /\ Deleted(objects, b, 0, 0) = {}
        <4>1. \A o \in AggObjects : objects[o].created \in Int /\ objects[o].deleted \in Int
          BY <1>1, TimesAre DEF AggTypes, ObjectRec, Unset
        <4> QED  BY <4>1 DEF Created, Deleted, Between
      <3>2. CountOf(objects, b, 0, 0) = 0
        BY <3>1, FS_EmptySet DEF CountOf
      <3> QED  BY <2>2, <2>3, <3>2 DEF SoundAt
    <2>4. CASE stats'[b] = stats[b] /\ trail # "astray"
      BY <1>1, <2>2, <2>4 DEF Sound, SoundAt
    <2>5. CASE stats'[b] = stats[b] /\ b \notin run.scope
      <3>1. NewBucket(b)
        BY <1>1, <2>5 DEF RunInv
      <3>2. stats[b].count = 0 /\ CountOf(objects, b, 0, stats[b].last_update) = 0
        BY <1>1, <2>1, <3>1, CountNothing DEF NewBucket, AggTypes
      <3> QED  BY <2>2, <2>5, <3>2 DEF SoundAt
    <2> QED  BY <1>2, <2>3, <2>4, <2>5
  <1> QED  BY <1>5, <1>7

\* The statistics of a batch are written; those that came out the same are not loaded
\* again, and are the same read at the end of the range.
LEMMA WriteBucketsStep == ASSUME AggInv, WriteBuckets PROVE AggInv'
  <1>1. /\ run.at = "write" /\ global' = global
        /\ stats' = [b \in AggBuckets |-> IF b \in run.batch THEN run.local[b] ELSE stats[b]]
        /\ \/ run.changed = {} /\ UNCHANGED <<stamped, loaded_stats, memory, global_loaded>>
           \/ run.changed # {} /\ LoadStats(stamped \cup run.changed)
        /\ run' = [run EXCEPT !.at = IF run.more THEN "range" ELSE "global", !.fresh = ~run.more,
                              !.shared = @ /\ run.changed = {}]
        /\ agg_clock' = agg_clock /\ objects' = objects /\ slept' = slept /\ agg_faults' = agg_faults
        /\ trail' = trail
    BY DEF WriteBuckets
  <1>2. AggTypes /\ Known /\ RunInv /\ RangeInv /\ Kept
    BY DEF AggInv
  <1>3. /\ run.batch \subseteq run.scope /\ run.scope \subseteq AggBuckets
        /\ run.changed \subseteq AggBuckets /\ run.more \in BOOLEAN /\ run.shared \in BOOLEAN
        /\ global \in Nat /\ run.global \in Nat /\ run.from \in Nat /\ run.till \in Nat
        /\ \A b \in AggBuckets : stats[b].last_update \in Int
    BY <1>2, RunFields, TimesAre, StatsAre DEF AggTypes
  <1>4. Changes /\ Sound'
    BY <1>1, BucketsWritten
  <1>5. Recent' /\ \A b \in AggBuckets : Exists(b)' = Exists(b)
    BY <1>1, <1>4, ChangesKeep
  <1>6. \A b \in AggBuckets : stats'[b] = (IF b \in run.batch THEN run.local[b] ELSE stats[b])
    BY <1>1
  <1>7. /\ run' \in RunRec /\ run'.at = (IF run.more = TRUE THEN "range" ELSE "global")
        /\ (run'.fresh = TRUE <=> run.more = FALSE)
        /\ (run'.shared = TRUE => run.shared = TRUE /\ run.changed = {})
        /\ run'.more = run.more /\ run'.target = run.target /\ run'.global = run.global
        /\ run'.scope = run.scope /\ run'.local = run.local /\ run'.from = run.from
        /\ run'.till = run.till /\ run'.batch = run.batch /\ run'.changed = run.changed
    <2> DEFINE at == IF run.more THEN "range" ELSE "global"
               shared == run.shared /\ run.changed = {}
               fresh == ~run.more
    <2>1. /\ run \in RunRec /\ at \in {"idle", "range", "write", "global"}
          /\ at = (IF run.more = TRUE THEN "range" ELSE "global")
      BY <1>2, <1>3 DEF AggTypes
    <2>2. fresh \in BOOLEAN /\ (fresh = TRUE <=> run.more = FALSE)
      BY <1>3
    <2>3. shared \in BOOLEAN /\ (shared = TRUE => run.shared = TRUE /\ run.changed = {})
      BY <1>3
    <2>4. run' = [run EXCEPT !.at = at, !.fresh = fresh, !.shared = shared]
      BY <1>1
    <2> HIDE DEF at, fresh, shared
    <2> QED  BY <2>1, <2>2, <2>3, <2>4 DEF RunRec
  <1>8. /\ \A b \in AggBuckets : /\ loaded_stats'[b] \in {loaded_stats[b], stats'[b]}
                                 /\ b \notin stamped \cup run.changed => loaded_stats'[b] = loaded_stats[b]
                                 /\ b \in run.changed => loaded_stats'[b] = stats'[b]
        /\ global_loaded' \in {global_loaded, global} /\ stamped' \in {{}, stamped}
        /\ run'.shared = TRUE => memory' = memory
    BY <1>1, <1>7, LoadIs
  <1>9. loaded_stats' \in [AggBuckets -> Stats] /\ memory' \in [AggBuckets -> Stats] /\ Known'
    <2>1. CASE run.changed = {} /\ UNCHANGED <<stamped, loaded_stats, memory, global_loaded>>
      BY <1>2, <1>4, <2>1 DEF AggTypes, Known, Changes
    <2>2. CASE LoadStats(stamped \cup run.changed)
      BY <1>2, <1>4, <2>2, LoadTypes, LoadKnown DEF Changes
    <2> QED  BY <1>1, <2>1, <2>2
  <1>10. AggTypes'
    BY <1>1, <1>2, <1>3, <1>4, <1>7, <1>8, <1>9 DEF AggTypes, Changes
  <1>11. RunInv'
    <2>1. run'.shared = TRUE => memory' = run'.local
      BY <1>1, <1>2, <1>7, <1>8 DEF RunInv
    <2>2. \A b \in AggBuckets : Exists(b) /\ b \notin run.scope => NewBucket(b)'
      BY <1>1, <1>2, <1>3, <1>6, <1>7, <1>8 DEF RunInv, NewBucket
    <2> QED  BY <1>1, <1>2, <1>3, <1>5, <1>7, <2>1, <2>2 DEF RunInv
  <1>12. ~Settled /\ ~Settled' /\ Pending = run.batch /\ Pending' = {}
    BY <1>1, <1>3, <1>7 DEF Settled, Pending
  <1>13. /\ run.global <= run.from /\ run.from < run.till
         /\ \A b \in run.batch : run.local[b].last_update = run.till
         /\ trail # "astray" =>
              /\ global <= run.from /\ \A b \in run.scope \ run.batch : Same(b)
              /\ \A b \in run.batch :
                   /\ stats[b].last_update <= run.from
                   /\ b \notin run.changed => run.local[b].count = stats[b].count
    BY <1>2, <1>12 DEF RangeInv
  <1>14. RangeInv'
    <2>1. trail # "astray" => \A b \in run.scope : Same(b)'
      <3> SUFFICES ASSUME trail # "astray", NEW b \in run.scope PROVE Same(b)'
        OBVIOUS
      <3>1. CASE b \in run.batch
        <4>1. stats'[b] = run.local[b] /\ run.local[b].last_update = run.till
          BY <1>3, <1>6, <1>13, <3>1
        <4>2. Later(run.global, run.till) = run.till /\ Later(global, run.till) = run.till
          BY <1>3, <1>13 DEF Later
        <4> QED  BY <1>1, <1>7, <4>1, <4>2 DEF Same, AsRead
      <3>2. CASE b \notin run.batch
        BY <1>1, <1>3, <1>6, <1>7, <1>13, <3>2 DEF Same
      <3> QED  BY <3>1, <3>2
    <2> QED  BY <1>1, <1>2, <1>3, <1>7, <1>12, <1>13, <2>1 DEF RangeInv
  <1>15. Kept'
    <2> SUFFICES ASSUME trail = "kept"
                 PROVE  /\ global_loaded' = global /\ stamped' = {}
                        /\ \A b \in AggBuckets : AsRead(loaded_stats'[b], run.till) = AsRead(stats'[b], run.till)
      BY <1>1, <1>7, <1>12 DEF Kept
    <2>1. global_loaded' = global /\ stamped' = {} /\ stamped = {}
      BY <1>2, <1>8 DEF Kept
    <2> SUFFICES ASSUME NEW b \in AggBuckets
                 PROVE  AsRead(loaded_stats'[b], run.till) = AsRead(stats'[b], run.till)
      BY <2>1
    <2>2. AsRead(loaded_stats[b], run.till) = AsRead(stats[b], run.till)
      BY <1>2, <1>12 DEF Kept
    <2>3. CASE b \in run.changed
      BY <1>8, <2>3
    <2>4. CASE b \notin run.changed /\ b \in run.batch
      <3>1. loaded_stats'[b] = loaded_stats[b] /\ stats'[b] = run.local[b]
        BY <1>6, <1>8, <2>1, <2>4
      <3>2. /\ run.local[b].count = stats[b].count /\ run.local[b].last_update = run.till
            /\ stats[b].last_update <= run.from
        BY <1>13, <2>4
      <3>3. Later(run.till, stats[b].last_update) = run.till /\ Later(run.till, run.till) = run.till
        BY <1>3, <1>13, <3>2 DEF Later
      <3> QED  BY <2>2, <3>1, <3>2, <3>3 DEF AsRead
    <2>5. CASE b \notin run.changed /\ b \notin run.batch
      BY <1>6, <1>8, <2>1, <2>2, <2>5
    <2> QED  BY <2>3, <2>4, <2>5
  <1> QED  BY <1>4, <1>5, <1>9, <1>10, <1>11, <1>14, <1>15 DEF AggInv

\* The end of the range is written, which is what makes up for the statistics in memory
\* that are older than those of the database.
LEMMA WriteGlobalStep == ASSUME AggInv, WriteGlobal PROVE AggInv'
  <1>1. /\ run.at = "global" /\ global' = run.till /\ stats' = stats /\ LoadStats(stamped)
        /\ run' = [run EXCEPT !.at = "range", !.fresh = TRUE, !.shared = FALSE]
        /\ agg_clock' = agg_clock /\ objects' = objects /\ slept' = slept /\ agg_faults' = agg_faults
        /\ trail' = trail
    BY DEF WriteGlobal
  <1>2. AggTypes /\ Known /\ RunInv /\ RangeInv /\ Kept
    BY DEF AggInv
  <1>3. Changes /\ Sound'
    BY <1>1, GlobalWritten
  <1>4. Recent' /\ \A b \in AggBuckets : Exists(b)' = Exists(b)
    BY <1>1, <1>3, ChangesKeep
  <1>5. /\ \A b \in AggBuckets : /\ loaded_stats'[b] = (IF b \in stamped THEN stats[b] ELSE loaded_stats[b])
                                 /\ memory'[b] = loaded_stats'[b]
        /\ global_loaded' = run.till /\ stamped' = {}
    BY <1>1, LoadIs
  <1>6. loaded_stats' \in [AggBuckets -> Stats] /\ memory' \in [AggBuckets -> Stats]
    BY <1>1, <1>2, <1>3, LoadTypes DEF Changes
  <1>7. Known'
    BY <1>1, <1>2, LoadKnown
  <1>8. /\ run' \in RunRec /\ run'.at = "range" /\ run'.fresh = TRUE /\ run'.shared = FALSE
        /\ run'.target = run.target /\ run'.global = run.global
        /\ run'.scope = run.scope /\ run'.local = run.local /\ run'.batch = run.batch
    BY <1>1, <1>2 DEF AggTypes, RunRec
  <1>9. /\ run.from \in Nat /\ run.till \in Nat /\ run.global \in Nat /\ run.till \in AggTimes
        /\ run.global < run.till
        /\ trail # "astray" => \A b \in run.scope :
                /\ stats[b].count = run.local[b].count
                /\ stats[b].last_update = run.local[b].last_update
                /\ stats[b].last_update >= run.till
                /\ stats[b].last_update \in Int
    BY <1>1, RangeDone
  <1>10. AggTypes'
    BY <1>1, <1>2, <1>5, <1>6, <1>8, <1>9 DEF AggTypes
  <1>11. RunInv'
    <2>1. \A b \in AggBuckets : Exists(b) /\ b \notin run.scope => NewBucket(b)'
      BY <1>1, <1>2, <1>5, <1>8 DEF RunInv, NewBucket
    <2>2. run.scope \subseteq AggBuckets
      BY <1>2, RunFields DEF AggTypes
    <2> QED  BY <1>1, <1>2, <1>4, <1>8, <2>1, <2>2 DEF RunInv
  <1>12. Settled' /\ ~Settled
    BY <1>1, <1>8 DEF Settled
  <1>13. RangeInv'
    <2>1. trail # "astray" => \A b \in run.scope : Same(b)'
      <3> SUFFICES ASSUME trail # "astray", NEW b \in run.scope PROVE Same(b)'
        OBVIOUS
      <3>1. Later(run.global, run.local[b].last_update) = Later(run.till, stats[b].last_update)
        BY <1>9 DEF Later
      <3> QED  BY <1>1, <1>8, <1>9, <3>1 DEF Same, AsRead
    <2> QED  BY <1>1, <1>8, <1>12, <2>1 DEF RangeInv
  <1>14. Kept'
    BY <1>1, <1>2, <1>5, <1>12 DEF Kept
  <1> QED  BY <1>3, <1>4, <1>7, <1>10, <1>11, <1>13, <1>14 DEF AggInv

\* A reset begins again at the epoch, in memory too.
LEMMA ResetStep == ASSUME AggInv, Reset PROVE AggInv'
  <1>1. /\ run.at = "range" /\ stats' = Zeroed(run.scope) /\ global' = 0
        /\ LoadStats(stamped \cup run.scope) /\ run' = NoRun /\ trail' = "kept"
        /\ agg_clock' = agg_clock /\ objects' = objects /\ slept' = slept /\ agg_faults' = agg_faults
    BY DEF Reset
  <1>2. AggTypes /\ Known /\ RunInv
    BY DEF AggInv
  <1>3. Changes /\ Sound'
    BY <1>1, ResetWritten
  <1>4. Recent' /\ \A b \in AggBuckets : Exists(b)' = Exists(b)
    BY <1>1, <1>3, ChangesKeep
  <1>5. /\ \A b \in AggBuckets :
             /\ loaded_stats'[b] = (IF b \in stamped \cup run.scope THEN stats'[b] ELSE loaded_stats[b])
             /\ memory'[b] = loaded_stats'[b]
        /\ global_loaded' = 0 /\ stamped' = {}
    BY <1>1, LoadIs
  <1>6. loaded_stats' \in [AggBuckets -> Stats] /\ memory' \in [AggBuckets -> Stats]
    BY <1>1, <1>2, <1>3, LoadTypes DEF Changes
  <1>7. Known'
    BY <1>1, <1>2, <1>3, LoadKnown DEF Changes
  <1>8. AggTypes'
    BY <1>1, <1>2, <1>3, <1>5, <1>6, IdleIs DEF AggTypes, Changes
  <1>9. \A b \in AggBuckets : loaded_stats'[b] = stats'[b]
    <2> SUFFICES ASSUME NEW b \in AggBuckets, b \notin stamped \cup run.scope
                 PROVE  loaded_stats[b] = stats'[b]
      BY <1>5
    <2>1. stats'[b] = stats[b]
      BY <1>1 DEF Zeroed
    <2>2. Exists(b) => loaded_stats[b] = stats[b]
      BY <1>1, <1>2 DEF RunInv, NewBucket
    <2>3. ~Exists(b) => loaded_stats[b] = stats[b]
      BY <1>2 DEF Known, Exists, NoStats
    <2> QED  BY <2>1, <2>2, <2>3
  <1>10. Kept'
    BY <1>1, <1>5, <1>9, RunEnds DEF Kept
  <1> QED  BY <1>1, <1>3, <1>4, <1>7, <1>8, <1>10, RunEnds DEF AggInv

\* Zeroed statistics are statistics of buckets there are.
LEMMA ZeroedChanges ==
    ASSUME AggInv, run.at = "range", stats' = Zeroed(run.scope), global' = global
    PROVE  Changes
  <1>1. AggTypes /\ Known /\ RunInv
    BY DEF AggInv
  <1>2. stats' \in [AggBuckets -> Stats]
    <2>1. [count |-> 0, last_update |-> 0] \in Stats
      BY IdleIs DEF Stats
    <2>2. stats \in [AggBuckets -> Stats]
      BY <1>1 DEF AggTypes
    <2> QED  BY <2>1, <2>2 DEF Zeroed
  <1>3. \A b \in run.scope : stats[b].last_update # Unset /\ b \in AggBuckets
    BY <1>1, RunFields, ExistsIs DEF RunInv, AggTypes
  <1>4. \A b \in AggBuckets : \/ stats'[b] = stats[b]
                              \/ stats[b].last_update # Unset /\ stats'[b].last_update # Unset
    BY <1>3 DEF Zeroed, Unset
  <1> QED  BY <1>1, <1>2, <1>4 DEF Changes, AggTypes

\* Nothing is loaded, and what runs go on from no longer is what the database has.
LEMMA ChangeFailedStep == ASSUME AggInv, ChangeFailed PROVE AggInv'
  <1>1. /\ Fault /\ run' = NoRun /\ agg_clock' = agg_clock /\ objects' = objects /\ loaded_stats' = loaded_stats
        /\ memory' = memory /\ global_loaded' = global_loaded /\ slept' = slept
        /\ trail' = IF trail = "astray" \/ (stats' # stats /\ run.at = "range" /\ global' # 0)
                    THEN "astray" ELSE "failed"
    BY DEF ChangeFailed
  <1>2. AggTypes /\ Known /\ Sound
    BY DEF AggInv
  <1>3. trail' \in {"astray", "failed"} /\ (trail' # "astray" => trail # "astray")
    BY <1>1
  <1>4. stamped' \subseteq AggBuckets
    <2>1. stamped \subseteq AggBuckets /\ run.changed \subseteq AggBuckets /\ run.scope \subseteq AggBuckets
      BY <1>2, RunFields DEF AggTypes
    <2> QED  BY <2>1 DEF ChangeFailed
  <1>5. Changes /\ Sound'
    <2>1. CASE stats' = stats /\ global' = global
      BY <1>1, <1>2, <1>3, <2>1 DEF Changes, Sound, SoundAt, Exists, AggTypes
    <2>2. CASE /\ run.at = "write" /\ global' = global
               /\ stats' = [b \in AggBuckets |-> IF b \in run.batch THEN run.local[b] ELSE stats[b]]
      BY <1>1, <1>3, <2>2, BucketsWritten
    <2>3. CASE run.at = "global" /\ global' = run.till /\ stats' = stats
      BY <1>1, <1>3, <2>3, GlobalWritten
    <2>4. CASE run.at = "range" /\ stats' = Zeroed(run.scope) /\ global' = 0
      BY <1>1, <2>4, ResetWritten
    <2>5. CASE run.at = "range" /\ stats' = Zeroed(run.scope) /\ global' = global
               /\ stats' # stats /\ global' # 0
      <3>1. trail' = "astray"
        BY <1>1, <2>5
      <3>2. Changes
        BY <1>1, <2>5, ZeroedChanges
      <3> QED  BY <3>1, <3>2 DEF Sound
    <2>6. CASE run.at = "range" /\ stats' = stats /\ global' = 0
      <3>1. CASE trail # "astray"
        BY <1>1, <2>6, <3>1, ResetWritten
      <3>2. CASE trail = "astray"
        BY <1>1, <1>2, <2>6, <3>2, IdleIs DEF Changes, Sound, AggTypes
      <3> QED  BY <3>1, <3>2
    <2> QED  BY <2>1, <2>2, <2>3, <2>4, <2>5, <2>6 DEF ChangeFailed
  <1>6. Recent'
    BY <1>1, <1>5, ChangesKeep
  <1>7. Known'
    BY <1>1, <1>2, <1>5 DEF Known, Changes
  <1>8. agg_faults' \in 0..MaxAggFaults
    BY <1>1, <1>2, AggregatorAssumption DEF Fault, AggTypes
  <1>9. AggTypes'
    BY <1>1, <1>2, <1>3, <1>4, <1>5, <1>8, IdleIs DEF AggTypes, Changes
  <1>10. Kept'
    BY <1>3 DEF Kept
  <1> QED  BY <1>1, <1>5, <1>6, <1>7, <1>9, <1>10, RunEnds DEF AggInv

\* Whatever the buckets, objects, grace, batches and faults, the invariant holds from the
\* beginning of the worker on (md_aggregator.js 33-345).
THEOREM AggregatorInvariance == AggregatorSpec => []AggInv
  <1>1. AggregatorInit => AggInv
    BY AggregatorBegins
  <1>2. AggInv /\ [AggregatorNext]_aggregatorVars => AggInv'
    <2> SUFFICES ASSUME AggInv, [AggregatorNext]_aggregatorVars PROVE AggInv'
      OBVIOUS
    <2>1. CASE UNCHANGED aggregatorVars
      BY <2>1 DEF aggregatorVars, store, AggInv, AggTypes, Known, Recent, Sound, SoundAt, RunInv,
                  NewBucket, RangeInv, Settled, Pending, Same, Kept, Exists
    <2>2. CASE \/ \E b \in AggBuckets, o \in AggObjects : ObjectCompleted(o, b)
               \/ \E o \in AggObjects : Lands(o) \/ ObjectDeleted(o)
      BY <2>2, ObjectSteps
    <2>3. CASE \/ \E b \in AggBuckets : CreateBucket(b)
               \/ \E touched \in SUBSET AggBuckets : OtherChange(touched)
      BY <2>3, OtherSteps
    <2>4. CASE AggTick \/ SetBack
      BY <2>4, ClockSteps
    <2>5. CASE RunAggregator
      BY <2>5, StartRunStep, AggregateStep, EndRunStep, ResetStep, WriteBucketsStep, WriteGlobalStep
         DEF RunAggregator
    <2>6. CASE ChangeFailed \/ RestartAggregator
      BY <2>6, ChangeFailedStep, RestartAggregatorStep
    <2> QED  BY <2>1, <2>2, <2>3, <2>4, <2>5, <2>6 DEF AggregatorNext
  <1> QED  BY <1>1, <1>2, PTL DEF AggregatorSpec

\* The variables of the aggregator stay what they are, and a batch is of the run's buckets.
THEOREM AggregatorTypeCorrect == AggregatorSpec => []AggregatorTypeOK
  <1>1. AggInv => AggregatorTypeOK
    <2> SUFFICES ASSUME AggInv PROVE AggregatorTypeOK
      OBVIOUS
    <2>1. AggTypes
      BY DEF AggInv
    <2>2. /\ run.at \in {"idle", "range", "write", "global"} /\ run.scope \subseteq AggBuckets
          /\ \A b \in AggBuckets : /\ stats[b] \in Stats /\ loaded_stats[b] \in Stats
                                   /\ memory[b] \in Stats /\ run.local[b] \in Stats
      BY <2>1, RunFields DEF AggTypes
    <2> QED  BY <2>1, <2>2 DEF AggTypes, AggregatorTypeOK
  <1> QED  BY <1>1, AggregatorInvariance, PTL

\* The statistics of a bucket are what was created in it less what was deleted up to their
\* last_update, each exactly once, whatever the ranges, the batches they are cut in, the buckets
\* created meanwhile, the loads that bring older statistics back to memory, the failed writes,
\* and the clocks that are set back, as long as no run goes on from statistics that a failed
\* write left in memory (md_aggregator.js 33-90, 252-345).
THEOREM EachCountedOnce == AggregatorSpec => []CountedOnce
  <1>1. AggInv => CountedOnce
    BY DeltaIs DEF AggInv, Sound, SoundAt, CountedOnce
  <1> QED  BY <1>1, AggregatorInvariance, PTL

\* A run begins from what the database has unless a change failed before, although statistics
\* that came out the same are not loaded (md_aggregator.js 46, 100-105).
THEOREM RunsBeginFromStore == AggregatorSpec => RunsFollowStore
  <1>1. AggInv /\ [AggregatorNext]_aggregatorVars
          => [StartRun /\ trail = "kept" => trail' = "kept"]_aggregatorVars
    BY StartRunStep
  <1>2. RunsFollowStore <=> [][StartRun /\ trail = "kept" => trail' = "kept"]_aggregatorVars
    BY PTL DEF RunsFollowStore
  <1> QED  BY <1>1, <1>2, AggregatorInvariance, PTL DEF AggregatorSpec
=============================================================================
