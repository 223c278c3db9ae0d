----------------------------- MODULE LocksProofs -----------------------------
(* Theorems about Semaphore, KeysSemaphore and KeysLock, for every number  *)
(* of coroutines, every count and every key.                               *)
EXTENDS Semaphore, KeysSemaphore, KeysLock, SequenceTheorems, FoldLemmas

-----------------------------------------------------------------------------
(* Counting semaphore: sums of counts, and the queue.                      *)

\* Sums of counts are natural numbers.
LEMMA TotalNat ==
    ASSUME SemTypeOK, NEW S \in SUBSET SemProcs
    PROVE  IsFiniteSet(S) /\ Total(S) \in Nat /\ Total({}) = 0
  <1>1. IsFiniteSet(S)
    BY SemProcsAssumption, FS_Subset
  <1>2. \A p \in S : count[p] \in Nat
    BY DEF SemTypeOK
  <1>3. SumFunctionOnSet(count, S) \in Nat
    BY <1>1, <1>2, SumNat
  <1>4. SumFunctionOnSet(count, {}) = 0
    BY SumEmpty
  <1> QED  BY <1>1, <1>3, <1>4 DEF Total

\* The counts of two groups of coroutines add up.
LEMMA TotalUnion ==
    ASSUME SemTypeOK, NEW S \in SUBSET SemProcs, NEW R \in SUBSET SemProcs, S \cap R = {}
    PROVE  Total(S \cup R) = Total(S) + Total(R)
  <1>1. IsFiniteSet(S) /\ IsFiniteSet(R)
    BY TotalNat
  <1>2. \A p \in S \cup R : count[p] \in Int
    BY DEF SemTypeOK
  <1> QED  BY <1>1, <1>2, SumUnion DEF Total

\* ... one by one.
LEMMA TotalAdd ==
    ASSUME SemTypeOK, NEW S \in SUBSET SemProcs, NEW p \in SemProcs \ S
    PROVE  Total(S \cup {p}) = count[p] + Total(S)
  <1>1. IsFiniteSet(S) /\ p \notin S
    BY TotalNat
  <1>2. \A q \in S \cup {p} : count[q] \in Int
    BY DEF SemTypeOK
  <1> QED  BY <1>1, <1>2, SumAdd DEF Total

\* A step that leaves the counts of a group alone leaves their sum alone.
LEMMA TotalSame ==
    ASSUME SemTypeOK, NEW S \in SUBSET SemProcs, NEW f, \A p \in S : f[p] = count[p]
    PROVE  SumFunctionOnSet(f, S) = Total(S)
  <1>1. IsFiniteSet(S)
    BY TotalNat
  <1>2. \A p \in S : count[p] \in Int /\ f[p] = count[p]
    BY DEF SemTypeOK
  <1> QED  BY <1>1, <1>2, SumSame DEF Total

\* The first n of the queue are waiting; what stays in the queue after them is the
\* other ones, each once.
LEMMA QueueSplit ==
    ASSUME SemTypeOK, NEW n \in 0..Len(wq)
    PROVE  LET rest == SubSeq(wq, n + 1, Len(wq))
           IN  /\ Len(wq) \in Nat /\ First(n) \in SUBSET Waiting /\ First(0) = {}
               /\ rest \in Seq(SemProcs) /\ IsInjective(rest)
               /\ ToSet(rest) = Waiting \ First(n)
  <1> DEFINE rest == SubSeq(wq, n + 1, Len(wq))
             len  == Len(wq)
  <1>1. /\ len \in Nat /\ DOMAIN wq = 1..len
        /\ \A i \in 1..len : wq[i] \in SemProcs
        /\ \A i, j \in 1..len : wq[i] = wq[j] => i = j
        /\ Waiting = {wq[i] : i \in 1..len}
    <2>1. wq \in Seq(SemProcs) /\ len \in Nat /\ DOMAIN wq = 1..len
      BY DEF SemTypeOK
    <2>2. \A i \in 1..len : wq[i] \in SemProcs
      BY <2>1
    <2> HIDE DEF len
    <2>3. \A i, j \in 1..len : wq[i] = wq[j] => i = j
      BY <2>1 DEF SemTypeOK, IsInjective
    <2>4. ToSet(wq) = {wq[i] : i \in 1..len}
      BY <2>1 DEF ToSet
    <2>5. Waiting = ToSet(wq)
      BY DEF SemTypeOK
    <2> QED  BY <2>1, <2>2, <2>3, <2>4, <2>5
  <1>2. /\ rest \in Seq(SemProcs)
        /\ Len(rest) = len - n
        /\ \A i \in 1..(len - n) : rest[i] = wq[i + n]
    <2>1. n + 1 \in Int /\ len \in Int /\ \A i \in (n + 1)..len : wq[i] \in SemProcs
      BY <1>1
    <2>2. /\ rest \in Seq(SemProcs)
          /\ Len(rest) = IF n + 1 <= len THEN len - (n + 1) + 1 ELSE 0
          /\ \A i \in 1..(len - (n + 1) + 1) : rest[i] = wq[n + 1 + i - 1]
      <3> HIDE DEF len
      <3>1. SubSeq(wq, n + 1, len) \in Seq(SemProcs)
        BY <2>1, SubSeqProperties
      <3>2. /\ Len(SubSeq(wq, n + 1, len)) = IF n + 1 <= len THEN len - (n + 1) + 1 ELSE 0
            /\ \A i \in 1..(len - (n + 1) + 1) : SubSeq(wq, n + 1, len)[i] = wq[n + 1 + i - 1]
        BY <2>1, SubSeqProperties
      <3> QED  BY <3>1, <3>2 DEF len
    <2>3. len - (n + 1) + 1 = len - n /\ \A i \in 1..(len - n) : n + 1 + i - 1 = i + n
      BY <1>1
    <2>4. Len(rest) = len - n
      <3> HIDE DEF rest
      <3>0. len \in Nat /\ n \in 0..len
        BY <1>1
      <3> HIDE DEF len
      <3>1. n + 1 <= len => len - (n + 1) + 1 = len - n
        BY <3>0
      <3>2. ~(n + 1 <= len) => 0 = len - n
        BY <3>0
      <3> QED  BY <2>2, <3>1, <3>2
    <2> HIDE DEF rest
    <2> QED  BY <2>2, <2>3, <2>4
  <1> HIDE DEF rest, len
  <1>3. DOMAIN rest = 1..(len - n)
    BY <1>2
  <1>4. \A i \in 1..(len - n) : i + n \in 1..len /\ i + n \notin 1..n
    BY <1>1 DEF len
  <1>5. IsInjective(rest)
    <2>1. ASSUME NEW i \in 1..(len - n), NEW j \in 1..(len - n), rest[i] = rest[j] PROVE i = j
      <3>1. i + n = j + n
        BY <1>1, <1>2, <1>4, <2>1
      <3> QED  BY <1>1, <3>1 DEF len
    <2> QED  BY <1>3, <2>1 DEF IsInjective
  <1>6. \A i \in 1..n : i \in 1..len
    BY <1>1 DEF len
  <1>7. First(n) \subseteq Waiting /\ First(0) = {}
    BY <1>1, <1>6 DEF First
  <1>8. ToSet(rest) = Waiting \ First(n)
    <2>1. ASSUME NEW x \in ToSet(rest) PROVE x \in Waiting \ First(n)
      <3>1. PICK i \in 1..(len - n) : x = wq[i + n]
        BY <1>2, <1>3, <2>1 DEF ToSet
      <3>2. x \in Waiting
        BY <1>1, <1>4, <3>1
      <3>3. ASSUME NEW j \in 1..n, wq[j] = x PROVE FALSE
        BY <1>1, <1>4, <1>6, <3>1, <3>3
      <3> QED  BY <3>2, <3>3 DEF First
    <2>2. ASSUME NEW x \in Waiting \ First(n) PROVE x \in ToSet(rest)
      <3>1. PICK j \in 1..len : x = wq[j]
        BY <1>1, <2>2
      <3>2. j \notin 1..n
        BY <2>2, <3>1 DEF First
      <3>3. j - n \in 1..(len - n) /\ (j - n) + n = j
        BY <1>1, <3>2 DEF len
      <3>4. rest[j - n] = x
        BY <1>2, <3>1, <3>3
      <3> QED  BY <1>3, <3>3, <3>4 DEF ToSet
    <2> QED  BY <2>1, <2>2
  <1> QED  BY <1>1, <1>2, <1>5, <1>7, <1>8 DEF rest, len

\* The loop of release() stops, and what it grants is no more than there is.
LEMMA GrantsFit ==
    ASSUME SemTypeOK, NEW v \in Nat
    PROVE  Grants(v) \in 0..Len(wq) /\ Total(First(Grants(v))) <= v
  <1> DEFINE len     == Len(wq)
             Fits(i) == Total(First(i - 1)) < v /\ Total(First(i)) <= v
             Stops(n) == (\A i \in 1..n : Fits(i)) /\ (n < len => ~Fits(n + 1))
             Stop == {n \in 0..len : n < len => ~Fits(n + 1)}
  <1>1. len \in Nat
    BY DEF SemTypeOK
  <1>2. Stop \subseteq Nat /\ len \in Stop
    BY <1>1
  <1>3. PICK m \in Stop : \A k \in Stop : m <= k
    <2> HIDE DEF Stop
    <2> QED  BY <1>2, NatMin
  <1>4. ASSUME NEW i \in 1..m PROVE Fits(i)
    <2>1. i - 1 \in 0..len /\ i - 1 \in Nat /\ i - 1 < m /\ i - 1 < len /\ (i - 1) + 1 = i
      BY <1>1, <1>3
    <2>2. i - 1 \notin Stop
      BY <1>2, <1>3, <2>1
    <2> HIDE DEF Fits
    <2> QED  BY <2>1, <2>2
  <1>5. m \in 0..len /\ Stops(m)
    BY <1>3, <1>4
  <1> DEFINE n == Grants(v)
  <1>6. n = CHOOSE k \in 0..len : Stops(k)
    BY DEF Grants
  <1> HIDE DEF n
  <1>7. n \in 0..len /\ Stops(n)
    <2> HIDE DEF Stops, len
    <2> QED  BY <1>5, <1>6
  <1>8. Total(First(n)) <= v
    <2>1. CASE n = 0
      <3>1. First(n) = {}
        BY <2>1, <1>1, QueueSplit
      <3>2. Total(First(n)) = 0
        BY <3>1, TotalNat
      <3> QED  BY <3>2
    <2>2. CASE n # 0
      <3>1. n \in 1..n
        BY <1>1, <1>7, <2>2
      <3> QED  BY <1>7, <3>1
    <2> QED  BY <2>1, <2>2
  <1> QED  BY <1>7, <1>8 DEF n

-----------------------------------------------------------------------------
(* Counting semaphore: the invariant.                                      *)

SemIInv == SemTypeOK /\ Conserved

\* It holds in a new semaphore.
LEMMA SemInitHolds == SemInit => SemIInv
  <1> SUFFICES ASSUME SemInit PROVE SemIInv
    OBVIOUS
  <1>1. Waiting = {} /\ Holding = {}
    BY DEF SemInit, Waiting, Holding
  <1>2. Total({}) = 0
    BY SumEmpty DEF Total
  <1>3. IsInjective(wq) /\ ToSet(wq) = {} /\ wq \in Seq(SemProcs)
    <2>1. wq = <<>> /\ DOMAIN <<>> = {}
      BY DEF SemInit
    <2> QED  BY <2>1 DEF IsInjective, ToSet
  <1>4. value = Initial /\ waiting = 0 /\ timer = FALSE
    BY DEF SemInit
  <1>5. /\ sem_pc \in [SemProcs -> {"idle", "waiting", "holding"}]
        /\ count \in [SemProcs -> Nat]
        /\ \A p \in SemProcs : sem_pc[p] = "idle" => count[p] = 0
    BY DEF SemInit
  <1>6. Conserved
    BY <1>1, <1>2, <1>4, InitialAssumption DEF Conserved
  <1> QED  BY <1>1, <1>2, <1>3, <1>4, <1>5, <1>6, InitialAssumption DEF SemTypeOK, SemIInv

\* What a caller takes is a natural number.
LEMMA CountNat == \A c \in Args : ToSemCount(c) \in Nat
  BY ArgsAssumption DEF ToSemCount

\* A caller that takes its count at once.
LEMMA AcquireHolds ==
    ASSUME SemIInv, NEW p \in SemProcs, NEW c \in Args, Acquire(p, c)
    PROVE  SemIInv'
  <1> DEFINE n == ToSemCount(c)
  <1>1. n \in Nat
    BY CountNat
  <1> HIDE DEF n
  <1>2. /\ sem_pc[p] = "idle" /\ n <= value /\ value' = value - n
        /\ sem_pc' = [sem_pc EXCEPT ![p] = "holding"]
        /\ count' = [count EXCEPT ![p] = n]
        /\ waiting' = waiting /\ wq' = wq /\ timer' = timer
    BY DEF Acquire, FitsNow, n
  <1>3. /\ sem_pc \in [SemProcs -> {"idle", "waiting", "holding"}]
        /\ count \in [SemProcs -> Nat] /\ SemTypeOK /\ value \in Nat
    BY DEF SemIInv, SemTypeOK
  <1>4. /\ sem_pc' \in [SemProcs -> {"idle", "waiting", "holding"}]
        /\ count' \in [SemProcs -> Nat]
        /\ \A q \in SemProcs : sem_pc'[q] = "idle" => count'[q] = 0
    BY <1>1, <1>2, <1>3 DEF SemTypeOK
  <1>5. /\ Waiting' = Waiting /\ Holding' = Holding \cup {p}
        /\ p \notin Holding /\ p \notin Waiting
    BY <1>2, <1>3 DEF Waiting, Holding
  <1>6. /\ Waiting \in SUBSET SemProcs /\ Holding \in SUBSET SemProcs
        /\ \A q \in Waiting \cup Holding : count'[q] = count[q]
    BY <1>2, <1>3, <1>5 DEF Waiting, Holding
  <1>7. Total(Waiting)' = Total(Waiting)
    BY <1>3, <1>5, <1>6, TotalSame DEF Total
  <1>8. Total(Holding)' = n + Total(Holding)
    <2>1. IsFiniteSet(Holding) /\ Total(Holding) \in Nat
      BY <1>3, <1>6, TotalNat
    <2>2. \A q \in Holding \cup {p} : count'[q] \in Int
      BY <1>4, <1>6
    <2>3. SumFunctionOnSet(count', Holding \cup {p}) = count'[p] + SumFunctionOnSet(count', Holding)
      BY <1>5, <2>1, <2>2, SumAdd
    <2>4. SumFunctionOnSet(count', Holding) = Total(Holding)
      BY <1>3, <1>6, TotalSame
    <2>5. count'[p] = n
      BY <1>2, <1>3
    <2> QED  BY <1>5, <2>3, <2>4, <2>5 DEF Total
  <1>9. Total(Holding) \in Nat
    BY <1>3, <1>6, TotalNat
  <1>10. value' \in Nat /\ Conserved'
    BY <1>1, <1>2, <1>3, <1>8, <1>9, InitialAssumption DEF Conserved, SemIInv
  <1>11. /\ waiting' = Total(Waiting)' /\ timer' \in BOOLEAN
         /\ wq' \in Seq(SemProcs) /\ IsInjective(wq') /\ ToSet(wq') = Waiting'
    <2> HIDE DEF Waiting
    <2>1. /\ waiting = Total(Waiting) /\ timer \in BOOLEAN
          /\ wq \in Seq(SemProcs) /\ IsInjective(wq) /\ ToSet(wq) = Waiting
      BY <1>3 DEF SemTypeOK
    <2> QED  BY <1>2, <1>5, <1>7, <2>1
  <1> QED  BY <1>4, <1>10, <1>11 DEF SemIInv, SemTypeOK

\* A caller that waits in the back of the line.
LEMMA EnqueueHolds ==
    ASSUME SemIInv, NEW p \in SemProcs, NEW c \in Args, Enqueue(p, c)
    PROVE  SemIInv'
  <1> DEFINE n == ToSemCount(c)
  <1>1. n \in Nat
    BY CountNat
  <1> HIDE DEF n
  <1>2. /\ sem_pc[p] = "idle" /\ value' = value /\ waiting' = waiting + n
        /\ sem_pc' = [sem_pc EXCEPT ![p] = "waiting"]
        /\ count' = [count EXCEPT ![p] = n]
        /\ wq' = Append(wq, p) /\ timer' = (timer \/ Timed)
    BY DEF Enqueue, n
  <1>3. /\ sem_pc \in [SemProcs -> {"idle", "waiting", "holding"}]
        /\ count \in [SemProcs -> Nat] /\ SemTypeOK /\ value \in Nat
        /\ wq \in Seq(SemProcs) /\ IsInjective(wq) /\ ToSet(wq) = Waiting /\ timer \in BOOLEAN
    BY DEF SemIInv, SemTypeOK
  <1>4. /\ sem_pc' \in [SemProcs -> {"idle", "waiting", "holding"}]
        /\ count' \in [SemProcs -> Nat]
        /\ \A q \in SemProcs : sem_pc'[q] = "idle" => count'[q] = 0
    BY <1>1, <1>2, <1>3 DEF SemTypeOK
  <1>5. /\ Holding' = Holding /\ Waiting' = Waiting \cup {p}
        /\ p \notin Holding /\ p \notin Waiting
    BY <1>2, <1>3 DEF Waiting, Holding
  <1>6. /\ Waiting \in SUBSET SemProcs /\ Holding \in SUBSET SemProcs
        /\ \A q \in Waiting \cup Holding : count'[q] = count[q]
    BY <1>2, <1>3, <1>5 DEF Waiting, Holding
  <1>7. Total(Holding)' = Total(Holding)
    BY <1>3, <1>5, <1>6, TotalSame DEF Total
  <1>8. Total(Waiting)' = n + Total(Waiting)
    <2>1. IsFiniteSet(Waiting) /\ Total(Waiting) \in Nat
      BY <1>3, <1>6, TotalNat
    <2>2. \A q \in Waiting \cup {p} : count'[q] \in Int
      BY <1>4, <1>6
    <2>3. SumFunctionOnSet(count', Waiting \cup {p}) = count'[p] + SumFunctionOnSet(count', Waiting)
      BY <1>5, <2>1, <2>2, SumAdd
    <2>4. SumFunctionOnSet(count', Waiting) = Total(Waiting)
      BY <1>3, <1>6, TotalSame
    <2>5. count'[p] = n
      BY <1>2, <1>3
    <2> QED  BY <1>5, <2>3, <2>4, <2>5 DEF Total
  <1>9. waiting' = Total(Waiting)'
    <2>1. waiting = Total(Waiting) /\ Total(Waiting) \in Nat
      BY <1>3, <1>6, TotalNat DEF SemTypeOK
    <2> QED  BY <1>1, <1>2, <1>8, <2>1
  <1>10. value' \in Nat /\ Conserved'
    BY <1>2, <1>3, <1>7 DEF Conserved, SemIInv
  <1>11. timer' \in BOOLEAN
    BY <1>2
  <1>12. wq' \in Seq(SemProcs) /\ IsInjective(wq') /\ ToSet(wq') = Waiting'
    <2> DEFINE len == Len(wq)
    <2>1. /\ wq' \in Seq(SemProcs) /\ len \in Nat /\ DOMAIN wq = 1..len
          /\ DOMAIN wq' = 1..(len + 1) /\ wq'[len + 1] = p
          /\ \A i \in 1..len : wq'[i] = wq[i]
      BY <1>2, <1>3
    <2> HIDE DEF len
    <2>2. \A i \in 1..(len + 1) : i \in 1..len \/ i = len + 1
      BY <2>1
    <2>3. \A i \in 1..len : wq[i] \in Waiting
      BY <1>3, <2>1 DEF ToSet
    <2>4. IsInjective(wq')
      <3>1. ASSUME NEW i \in 1..(len + 1), NEW j \in 1..(len + 1), wq'[i] = wq'[j] PROVE i = j
        <4>1. CASE i \in 1..len /\ j \in 1..len
          BY <1>3, <2>1, <3>1, <4>1 DEF IsInjective
        <4>2. CASE i \in 1..len /\ j = len + 1
          BY <1>5, <2>1, <2>3, <3>1, <4>2
        <4>3. CASE i = len + 1 /\ j \in 1..len
          BY <1>5, <2>1, <2>3, <3>1, <4>3
        <4> QED  BY <2>2, <4>1, <4>2, <4>3
      <3> QED  BY <2>1, <3>1 DEF IsInjective
    <2>5. ToSet(wq') = Waiting \cup {p}
      <3>1. \A x \in Waiting : \E i \in 1..len : wq[i] = x
        BY <1>3, <2>1 DEF ToSet
      <3>2. len + 1 \in 1..(len + 1) /\ \A i \in 1..len : i \in 1..(len + 1)
        BY <2>1
      <3>3. ASSUME NEW x \in Waiting \cup {p} PROVE \E i \in 1..(len + 1) : wq'[i] = x
        BY <2>1, <3>1, <3>2
      <3>4. ASSUME NEW i \in 1..(len + 1) PROVE wq'[i] \in Waiting \cup {p}
        BY <2>1, <2>2, <2>3
      <3>5. ToSet(wq') = {wq'[i] : i \in 1..(len + 1)}
        BY <2>1 DEF ToSet
      <3> QED  BY <3>3, <3>4, <3>5
    <2> QED  BY <1>5, <2>1, <2>4, <2>5
  <1> QED  BY <1>4, <1>9, <1>10, <1>11, <1>12 DEF SemIInv, SemTypeOK

\* The n oldest of the queue leave it, for what they hold now or for nothing.
LEMMA QueueAfter ==
    ASSUME SemTypeOK, NEW n \in 0..Len(wq), wq' = SubSeq(wq, n + 1, Len(wq)),
           Waiting' = Waiting \ First(n), waiting' = waiting - Total(First(n)),
           \A q \in Waiting' : count'[q] = count[q]
    PROVE  /\ wq' \in Seq(SemProcs) /\ IsInjective(wq') /\ ToSet(wq') = Waiting'
           /\ waiting' = Total(Waiting)'
  <1>1. /\ First(n) \in SUBSET Waiting
        /\ wq' \in Seq(SemProcs) /\ IsInjective(wq') /\ ToSet(wq') = Waiting \ First(n)
    BY QueueSplit
  <1> DEFINE rest == Waiting \ First(n)
  <1>2. /\ First(n) \in SUBSET SemProcs /\ rest \in SUBSET SemProcs
        /\ First(n) \cap rest = {} /\ First(n) \cup rest = Waiting
    BY <1>1 DEF Waiting
  <1>3. waiting = Total(Waiting)
    BY DEF SemTypeOK
  <1> HIDE DEF rest
  <1>4. Total(Waiting) = Total(First(n)) + Total(rest)
    BY <1>2, TotalUnion
  <1>5. Total(First(n)) \in Nat /\ Total(rest) \in Nat
    BY <1>2, TotalNat
  <1>6. SumFunctionOnSet(count', rest) = Total(rest)
    BY <1>2, TotalSame DEF rest
  <1>7. Total(Waiting)' = Total(rest)
    BY <1>6 DEF Total, rest
  <1> QED  BY <1>1, <1>3, <1>4, <1>5, <1>7

\* A release hands its count to the first waiters that fit.
LEMMA ReleaseHolds ==
    ASSUME SemIInv, NEW p \in SemProcs, Release(p)
    PROVE  SemIInv'
  <1> DEFINE v == value + count[p]
             n == Grants(v)
             granted == First(n)
  <1>1. /\ sem_pc \in [SemProcs -> {"idle", "waiting", "holding"}]
        /\ count \in [SemProcs -> Nat] /\ SemTypeOK /\ value \in Nat /\ timer \in BOOLEAN
    BY DEF SemIInv, SemTypeOK
  <1>2. v \in Nat
    BY <1>1
  <1>3. /\ sem_pc[p] = "holding" /\ value' = v - Total(granted)
        /\ waiting' = waiting - Total(granted) /\ wq' = SubSeq(wq, n + 1, Len(wq))
        /\ sem_pc' = [q \in SemProcs |-> CASE q = p -> "idle"
                                    [] q \in granted -> "holding"
                                    [] OTHER -> sem_pc[q]]
        /\ count' = [count EXCEPT ![p] = 0] /\ timer' = timer
    BY DEF Release
  <1>4. n \in 0..Len(wq) /\ Total(granted) <= v
    <2> HIDE DEF v
    <2> QED  BY <1>1, <1>2, GrantsFit
  <1> HIDE DEF n
  <1>5. granted \in SUBSET Waiting
    BY <1>1, <1>4, QueueSplit
  <1> HIDE DEF granted
  <1>6. \A q \in granted : q \in SemProcs /\ sem_pc[q] = "waiting" /\ q # p
    BY <1>3, <1>5 DEF Waiting
  <1>7. /\ \A q \in SemProcs : q # p /\ q \notin granted => sem_pc'[q] = sem_pc[q]
        /\ \A q \in granted : sem_pc'[q] = "holding"
        /\ sem_pc'[p] = "idle"
    BY <1>3, <1>6
  <1>8. sem_pc' \in [SemProcs -> {"idle", "waiting", "holding"}]
    BY <1>1, <1>3
  <1>9. /\ count' \in [SemProcs -> Nat]
        /\ \A q \in SemProcs \ {p} : count'[q] = count[q]
        /\ count'[p] = 0
    BY <1>1, <1>3
  <1>10. \A q \in SemProcs : sem_pc'[q] = "idle" => count'[q] = 0
    BY <1>1, <1>6, <1>7, <1>9 DEF SemTypeOK
  <1> DEFINE others == Holding \ {p}
  <1>11. /\ Waiting' = Waiting \ granted
         /\ Holding' = others \cup granted
         /\ Holding = others \cup {p} /\ p \notin others /\ others \cap granted = {}
    <2>1. p \in Holding
      BY <1>3 DEF Holding
    <2>2. others \cap granted = {}
      BY <1>6 DEF Holding
    <2>3. ASSUME NEW q PROVE q \in Waiting' <=> q \in Waiting \ granted
      BY <1>3, <1>6, <1>7 DEF Waiting
    <2>4. ASSUME NEW q PROVE q \in Holding' <=> q \in others \cup granted
      BY <1>6, <1>7 DEF Holding
    <2> QED  BY <2>1, <2>2, <2>3, <2>4
  <1>12. others \in SUBSET SemProcs /\ granted \in SUBSET SemProcs /\ p \in SemProcs \ others
    BY <1>6, <1>11 DEF Holding
  <1>13. \A q \in others \cup granted : count'[q] = count[q]
    BY <1>6, <1>9, <1>11, <1>12
  <1> HIDE DEF others
  <1>14. Total(Holding)' = Total(others) + Total(granted)
    <2>1. SumFunctionOnSet(count', others \cup granted) = Total(others \cup granted)
      BY <1>1, <1>12, <1>13, TotalSame
    <2>2. Total(others \cup granted) = Total(others) + Total(granted)
      BY <1>1, <1>11, <1>12, TotalUnion
    <2> QED  BY <1>11, <2>1, <2>2 DEF Total
  <1>15. Total(Holding) = count[p] + Total(others)
    BY <1>1, <1>11, <1>12, TotalAdd
  <1>16. Total(others) \in Nat /\ Total(granted) \in Nat
    BY <1>1, <1>12, TotalNat
  <1>17. value + Total(Holding) = Initial
    BY DEF SemIInv, Conserved
  <1>18. value' \in Nat /\ Conserved'
    <2>1. value' \in Nat
      BY <1>2, <1>3, <1>4, <1>16
    <2>2. value' + Total(Holding)' = Initial
      BY <1>1, <1>3, <1>14, <1>15, <1>16, <1>17
    <2> QED  BY <2>1, <2>2 DEF Conserved
  <1>19. \A q \in Waiting' : count'[q] = count[q]
    BY <1>3, <1>9, <1>11 DEF Waiting
  <1>20. /\ wq' \in Seq(SemProcs) /\ IsInjective(wq') /\ ToSet(wq') = Waiting'
         /\ waiting' = Total(Waiting)'
    BY <1>1, <1>3, <1>4, <1>11, <1>19, QueueAfter DEF granted
  <1>21. timer' \in BOOLEAN
    BY <1>1, <1>3
  <1> QED  BY <1>8, <1>9, <1>10, <1>18, <1>20, <1>21 DEF SemIInv, SemTypeOK

\* A timeout rejects the n oldest: it neither takes nor returns a count.
LEMMA TimeoutHolds ==
    ASSUME SemIInv, NEW n \in 0..Len(wq), OnTimeout(n)
    PROVE  SemIInv'
  <1> DEFINE rejected == First(n)
  <1>1. /\ sem_pc \in [SemProcs -> {"idle", "waiting", "holding"}]
        /\ count \in [SemProcs -> Nat] /\ SemTypeOK /\ value \in Nat
    BY DEF SemIInv, SemTypeOK
  <1>2. /\ value' = value /\ waiting' = waiting - Total(rejected)
        /\ wq' = SubSeq(wq, n + 1, Len(wq)) /\ timer' = (n < Len(wq))
        /\ sem_pc' = [q \in SemProcs |-> IF q \in rejected THEN "idle" ELSE sem_pc[q]]
        /\ count' = [q \in SemProcs |-> IF q \in rejected THEN 0 ELSE count[q]]
    BY DEF OnTimeout, Reject
  <1>3. rejected \in SUBSET Waiting
    BY <1>1, QueueSplit
  <1> HIDE DEF rejected
  <1>4. \A q \in rejected : q \in SemProcs /\ sem_pc[q] = "waiting"
    BY <1>3 DEF Waiting
  <1>5. /\ sem_pc' \in [SemProcs -> {"idle", "waiting", "holding"}]
        /\ count' \in [SemProcs -> Nat] /\ timer' \in BOOLEAN
        /\ \A q \in SemProcs : sem_pc'[q] = "idle" => count'[q] = 0
    BY <1>1, <1>2 DEF SemTypeOK
  <1>6. Waiting' = Waiting \ rejected
    BY <1>2 DEF Waiting
  <1>7. Holding' = Holding /\ \A q \in Holding : count'[q] = count[q]
    BY <1>2, <1>4 DEF Holding
  <1>8. Total(Holding)' = Total(Holding)
    <2>1. Holding \in SUBSET SemProcs
      BY DEF Holding
    <2>2. SumFunctionOnSet(count', Holding) = Total(Holding)
      BY <1>1, <1>7, <2>1, TotalSame
    <2> QED  BY <1>7, <2>2 DEF Total
  <1>9. Conserved' /\ value' \in Nat
    BY <1>1, <1>2, <1>8 DEF SemIInv, Conserved
  <1>10. \A q \in Waiting' : count'[q] = count[q]
    BY <1>2, <1>6 DEF Waiting
  <1>11. /\ wq' \in Seq(SemProcs) /\ IsInjective(wq') /\ ToSet(wq') = Waiting'
         /\ waiting' = Total(Waiting)'
    BY <1>1, <1>2, <1>6, <1>10, QueueAfter DEF rejected
  <1> QED  BY <1>5, <1>9, <1>11 DEF SemIInv, SemTypeOK

\* Every step of the semaphore preserves the invariant.
THEOREM SemInvariance == SemSpec => []SemIInv
  <1>1. SemIInv /\ [SemNext]_semVars => SemIInv'
    <2> SUFFICES ASSUME SemIInv, [SemNext]_semVars PROVE SemIInv'
      OBVIOUS
    <2>1. ASSUME NEW p \in SemProcs, NEW c \in Args, Acquire(p, c) PROVE SemIInv'
      BY <2>1, AcquireHolds
    <2>2. ASSUME NEW p \in SemProcs, NEW c \in Args, Enqueue(p, c) PROVE SemIInv'
      BY <2>2, EnqueueHolds
    <2>3. ASSUME NEW p \in SemProcs, Release(p) PROVE SemIInv'
      BY <2>3, ReleaseHolds
    <2>4. ASSUME NEW n \in 0..Len(wq), OnTimeout(n) PROVE SemIInv'
      BY <2>4, TimeoutHolds
    <2>5. CASE UNCHANGED semVars
      <3>1. Waiting' = Waiting /\ Holding' = Holding
        BY <2>5 DEF semVars, Waiting, Holding
      <3>2. /\ value' = value /\ waiting' = waiting /\ wq' = wq /\ timer' = timer
            /\ sem_pc' = sem_pc /\ count' = count
        BY <2>5 DEF semVars
      <3> QED  BY <3>1, <3>2 DEF SemIInv, SemTypeOK, Conserved, Total
    <2> QED  BY <2>1, <2>2, <2>3, <2>4, <2>5 DEF SemNext
  <1> QED  BY <1>1, SemInitHolds, PTL DEF SemSpec

\* The queue holds exactly the waiting coroutines, each once, and the sums of the
\* semaphore are right.
THEOREM SemTypeCorrect == SemSpec => []SemTypeOK
  <1>1. SemIInv => SemTypeOK
    BY DEF SemIInv
  <1> QED  BY <1>1, SemInvariance, PTL

\* What was taken and what is left add up to the initial count, whatever times out.
THEOREM CountConserved == SemSpec => []Conserved
  <1>1. SemIInv => Conserved
    BY DEF SemIInv
  <1> QED  BY <1>1, SemInvariance, PTL

\* A coroutine gets its count before one that keeps waiting only if it was ahead of it
\* in the queue: nobody acquires while the queue is not empty, and release() serves the
\* queue from its front.
THEOREM Fair == SemSpec => NoOvertaking
  <1> DEFINE Step == \A p \in SemProcs, q \in SemProcs :
         (sem_pc[p] # "holding" /\ sem_pc'[p] = "holding" /\ sem_pc[q] = "waiting" /\ sem_pc'[q] = "waiting")
            => \E i, j \in 1..Len(wq) : wq[i] = p /\ wq[j] = q /\ i < j
  <1>1. SemIInv /\ [SemNext]_semVars => [Step]_semVars
    <2> SUFFICES ASSUME SemIInv, SemNext, NEW p \in SemProcs, NEW q \in SemProcs,
                        sem_pc[p] # "holding", sem_pc'[p] = "holding",
                        sem_pc[q] = "waiting", sem_pc'[q] = "waiting"
                 PROVE  \E i, j \in 1..Len(wq) : wq[i] = p /\ wq[j] = q /\ i < j
      OBVIOUS
    <2>1. /\ sem_pc \in [SemProcs -> {"idle", "waiting", "holding"}]
          /\ SemTypeOK /\ value \in Nat /\ count \in [SemProcs -> Nat] /\ Len(wq) \in Nat
          /\ DOMAIN wq = 1..Len(wq)
      BY DEF SemIInv, SemTypeOK
    <2>2. PICK j \in 1..Len(wq) : wq[j] = q
      <3>1. q \in ToSet(wq)
        BY <2>1 DEF SemTypeOK, Waiting
      <3> QED  BY <2>1, <3>1 DEF ToSet
    <2>3. ASSUME NEW r \in SemProcs, NEW c \in Args, Acquire(r, c) PROVE FALSE
      <3>1. wq = <<>>
        BY <2>3 DEF Acquire, FitsNow
      <3>2. Len(wq) = 0
        BY <3>1
      <3> QED  BY <2>2, <3>2
    <2>4. ASSUME NEW r \in SemProcs, NEW c \in Args, Enqueue(r, c) PROVE FALSE
      BY <2>1, <2>4 DEF Enqueue
    <2>5. ASSUME NEW n \in 0..Len(wq), OnTimeout(n) PROVE FALSE
      BY <2>1, <2>5 DEF OnTimeout, Reject
    <2>6. ASSUME NEW r \in SemProcs, Release(r)
          PROVE  \E i \in 1..Len(wq) : wq[i] = p /\ i < j
      <3> DEFINE n == Grants(value + count[r])
      <3>1. n \in 0..Len(wq)
        <4>1. value + count[r] \in Nat
          BY <2>1
        <4> QED  BY <2>1, <4>1, GrantsFit
      <3>2. sem_pc' = [x \in SemProcs |-> CASE x = r -> "idle"
                                    [] x \in First(n) -> "holding"
                                    [] OTHER -> sem_pc[x]]
        BY <2>6 DEF Release
      <3> HIDE DEF n
      <3>3. p \in First(n) /\ q \notin First(n)
        BY <3>2
      <3>4. PICK i \in 1..n : wq[i] = p
        BY <3>3 DEF First
      <3>5. j \notin 1..n
        BY <2>2, <3>3 DEF First
      <3> QED  BY <2>1, <3>1, <3>4, <3>5
    <2> QED  BY <2>2, <2>3, <2>4, <2>5, <2>6 DEF SemNext
  <1>2. NoOvertaking <=> [][Step]_semVars
    BY PTL DEF NoOvertaking
  <1> QED  BY <1>1, <1>2, SemInvariance, PTL DEF SemSpec

-----------------------------------------------------------------------------
(* Semaphores by key: what each of them accounts for.                      *)

Under(s) == {p \in KeyRunning : sem[p] = s}
Waits(s) == {p \in KeyProcs : key_pc[p] = "waiting" /\ sem[p] = s}
Place(s) == 1..Len(key_wq[s])

KeyBase ==
    /\ KeyTypeOK
    /\ key_value \in [Sems -> Int] /\ DOMAIN key_wq = Sems
    /\ \A p \in KeyProcs : key_pc[p] # "idle" => sem[p] \in Sems
    /\ \A s \in Sems : \A i, j \in Place(s) : key_wq[s][i] = key_wq[s][j] => i = j

\* How many run under a semaphore when one starts or ends.
LEMMA CountOneMore ==
    ASSUME NEW S \in SUBSET KeyProcs, NEW p \in KeyProcs
    PROVE  /\ IsFiniteSet(S) /\ Cardinality(S) \in Nat
           /\ p \notin S => Cardinality(S \cup {p}) = Cardinality(S) + 1
           /\ p \in S => Cardinality(S \ {p}) = Cardinality(S) - 1
  <1>1. IsFiniteSet(S)
    BY KeyProcsAssumption, FS_Subset
  <1> QED  BY <1>1, FS_CardinalityType, FS_AddElement, FS_RemoveElement

\* What the invariant says, conjunct by conjunct.
LEMMA KeyParts ==
    ASSUME KeyBase
    PROVE  /\ keys_map \in [Keys -> Sems \cup {NoSem}]
           /\ key_pc \in [KeyProcs -> {"idle", "waiting", "running", "cleanup"}]
           /\ key \in [KeyProcs -> Keys]
           /\ sem \in [KeyProcs -> Sems \cup {NoSem}]
           /\ before \in [KeyProcs -> SUBSET KeyProcs]
           /\ key_value \in [Sems -> Int] /\ DOMAIN key_wq = Sems
           /\ \A p \in KeyProcs : key_pc[p] # "idle" => sem[p] \in Sems
           /\ \A s \in Sems : key_wq[s] \in Seq(Waits(s))
           /\ \A s \in Sems : key_value[s] = KeyInitial - Cardinality(Under(s))
           /\ \A s \in Sems : \A i, j \in Place(s) : key_wq[s][i] = key_wq[s][j] => i = j
  BY DEF KeyBase, KeyTypeOK, Waits, Under

\* A new map is empty, and its semaphores are free.
LEMMA KeyInitHolds == KeyInit => KeyBase
  <1> SUFFICES ASSUME KeyInit PROVE KeyBase
    OBVIOUS
  <1>1. \A s \in Sems : Under(s) = {}
    BY DEF KeyInit, Under, KeyRunning
  <1>2. \A s \in Sems : key_value[s] = KeyInitial - Cardinality(Under(s))
    <2>1. Cardinality({}) = 0
      BY FS_EmptySet
    <2>2. ASSUME NEW s \in Sems PROVE key_value[s] = KeyInitial
      BY DEF KeyInit
    <2>3. ASSUME NEW s \in Sems PROVE Cardinality(Under(s)) = 0
      BY <1>1, <2>1
    <2>4. KeyInitial = KeyInitial - 0
      BY KeyInitialAssumption
    <2> QED  BY <2>2, <2>3, <2>4
  <1>3. \A s \in Sems : key_wq[s] \in Seq(Waits(s))
    BY DEF KeyInit
  <1>4. key \in [KeyProcs -> Keys]
    BY KeysAssumption DEF KeyInit
  <1>5. /\ keys_map \in [Keys -> Sems \cup {NoSem}]
        /\ key_pc \in [KeyProcs -> {"idle", "waiting", "running", "cleanup"}]
        /\ sem \in [KeyProcs -> Sems \cup {NoSem}]
        /\ before \in [KeyProcs -> SUBSET KeyProcs]
        /\ key_value \in [Sems -> Int] /\ DOMAIN key_wq = Sems
        /\ \A p \in KeyProcs : key_pc[p] # "idle" => sem[p] \in Sems
    BY KeyInitialAssumption DEF KeyInit
  <1>6. \A s \in Sems : Place(s) = {}
    BY DEF KeyInit, Place
  <1> QED  BY <1>2, <1>3, <1>4, <1>5, <1>6 DEF KeyBase, KeyTypeOK, Waits, Under

\* surround_key finds a semaphore or makes one.
LEMMA Found ==
    ASSUME KeyBase, NEW k \in Keys,
           NEW s \in IF keys_map[k] # NoSem THEN {keys_map[k]} ELSE Unused
    PROVE  s \in Sems
  BY KeyParts DEF Unused

\* ... and runs or waits under it.
LEMMA SurroundKeyHolds ==
    ASSUME KeyBase, NEW p \in KeyProcs, NEW k \in Keys, SurroundKey(p, k)
    PROVE  KeyBase'
  <1>1. key_pc[p] = "idle" /\ key' = [key EXCEPT ![p] = k]
    BY DEF SurroundKey
  <1>2. PICK s \in IF keys_map[k] # NoSem THEN {keys_map[k]} ELSE Unused :
          /\ keys_map' = [keys_map EXCEPT ![k] = s]
          /\ sem' = [sem EXCEPT ![p] = s]
          /\ \/ /\ key_wq[s] = <<>> /\ key_value[s] > 0
                /\ key_value' = [key_value EXCEPT ![s] = @ - 1]
                /\ key_pc' = [key_pc EXCEPT ![p] = "running"]
                /\ before' = [before EXCEPT ![p] = Cleaning]
                /\ key_wq' = key_wq
             \/ /\ key_wq' = [key_wq EXCEPT ![s] = Append(@, p)]
                /\ key_pc' = [key_pc EXCEPT ![p] = "waiting"]
                /\ key_value' = key_value /\ before' = before
    BY DEF SurroundKey
  <1>3. s \in Sems
    BY Found
  <1>4. /\ keys_map' \in [Keys -> Sems \cup {NoSem}]
        /\ key' \in [KeyProcs -> Keys]
        /\ sem' \in [KeyProcs -> Sems \cup {NoSem}]
        /\ sem'[p] = s /\ \A q \in KeyProcs \ {p} : sem'[q] = sem[q]
    BY <1>1, <1>2, <1>3, KeyParts
  <1>5. CASE /\ key_value' = [key_value EXCEPT ![s] = @ - 1]
             /\ key_pc' = [key_pc EXCEPT ![p] = "running"]
             /\ before' = [before EXCEPT ![p] = Cleaning]
             /\ key_wq' = key_wq
    <2>1. /\ key_pc' \in [KeyProcs -> {"idle", "waiting", "running", "cleanup"}]
          /\ before' \in [KeyProcs -> SUBSET KeyProcs]
          /\ key_value' \in [Sems -> Int]
          /\ \A q \in KeyProcs : key_pc'[q] # "idle" => sem'[q] \in Sems
      BY <1>3, <1>4, <1>5, KeyParts DEF Cleaning
    <2>2. \A t \in Sems : Waits(t)' = Waits(t)
      BY <1>1, <1>4, <1>5, KeyParts DEF Waits
    <2>3. \A t \in Sems \ {s} : Under(t)' = Under(t) /\ key_value'[t] = key_value[t]
      BY <1>1, <1>4, <1>5, KeyParts DEF Under, KeyRunning
    <2>4. Under(s)' = Under(s) \cup {p} /\ p \notin Under(s) /\ key_value'[s] = key_value[s] - 1
      BY <1>1, <1>3, <1>4, <1>5, KeyParts DEF Under, KeyRunning
    <2>5. key_value'[s] = KeyInitial - Cardinality(Under(s)')
      <3>1. Under(s) \in SUBSET KeyProcs
        BY DEF Under, KeyRunning
      <3>2. Cardinality(Under(s)') = Cardinality(Under(s)) + 1 /\ Cardinality(Under(s)) \in Nat
        BY <2>4, <3>1, CountOneMore
      <3> QED  BY <1>3, <2>4, <3>2, KeyParts, KeyInitialAssumption
    <2>6. \A t \in Sems : /\ key_wq'[t] \in Seq(Waits(t)')
                          /\ key_value'[t] = KeyInitial - Cardinality(Under(t)')
      BY <1>5, <2>2, <2>3, <2>5, KeyParts
    <2>7. DOMAIN key_wq' = Sems /\ \A t \in Sems : Place(t)' = Place(t)
      BY <1>5, KeyParts DEF Place
    <2>8. \A t \in Sems : \A i, j \in Place(t)' : key_wq'[t][i] = key_wq'[t][j] => i = j
      BY <1>5, <2>7, KeyParts
    <2> QED  BY <1>4, <2>1, <2>6, <2>7, <2>8 DEF KeyBase, KeyTypeOK, Waits, Under
  <1>6. CASE /\ key_wq' = [key_wq EXCEPT ![s] = Append(@, p)]
             /\ key_pc' = [key_pc EXCEPT ![p] = "waiting"]
             /\ key_value' = key_value /\ before' = before
    <2>1. /\ key_pc' \in [KeyProcs -> {"idle", "waiting", "running", "cleanup"}]
          /\ before' \in [KeyProcs -> SUBSET KeyProcs]
          /\ key_value' \in [Sems -> Int] /\ DOMAIN key_wq' = Sems
          /\ \A q \in KeyProcs : key_pc'[q] # "idle" => sem'[q] \in Sems
      BY <1>3, <1>4, <1>6, KeyParts
    <2>2. \A t \in Sems : Under(t)' = Under(t)
      BY <1>1, <1>4, <1>6, KeyParts DEF Under, KeyRunning
    <2>3. \A t \in Sems \ {s} : Waits(t)' = Waits(t) /\ key_wq'[t] = key_wq[t]
      BY <1>1, <1>4, <1>6, KeyParts DEF Waits
    <2>4. Waits(s)' = Waits(s) \cup {p} /\ p \notin Waits(s)
      BY <1>1, <1>4, <1>6, KeyParts DEF Waits
    <2> DEFINE w == key_wq[s]
    <2>5. w \in Seq(Waits(s)) /\ key_wq'[s] = Append(w, p)
      BY <1>3, <1>6, KeyParts
    <2> DEFINE W == Waits(s)
    <2> HIDE DEF w, W
    <2>6. Append(w, p) \in Seq(W \cup {p})
      <3>1. w \in Seq(W \cup {p})
        BY <2>5 DEF W
      <3> QED  BY <3>1
    <2>7. ASSUME NEW t \in Sems
          PROVE  \A i, j \in Place(t)' : key_wq'[t][i] = key_wq'[t][j] => i = j
      <3>1. CASE t # s
        BY <2>3, <3>1, KeyParts DEF Place
      <3>2. CASE t = s
        <4>1. /\ Len(w) \in Nat /\ Place(s)' = 1..(Len(w) + 1) /\ Append(w, p)[Len(w) + 1] = p
              /\ \A i \in 1..Len(w) : Append(w, p)[i] = w[i] /\ w[i] \in W
          BY <2>5 DEF Place, W
        <4>2. \A i, j \in 1..Len(w) : w[i] = w[j] => i = j
          BY <1>3, KeyParts DEF Place, w
        <4>3. p \notin W
          BY <2>4 DEF W
        <4>4. \A i \in 1..(Len(w) + 1) : i \in 1..Len(w) \/ i = Len(w) + 1
          BY <4>1
        <4>5. \A i, j \in Place(s)' : Append(w, p)[i] = Append(w, p)[j] => i = j
          BY <4>1, <4>2, <4>3, <4>4
        <4> QED  BY <2>5, <3>2, <4>5
      <3> QED  BY <3>1, <3>2
    <2>8. \A t \in Sems : /\ key_wq'[t] \in Seq(Waits(t)')
                          /\ key_value'[t] = KeyInitial - Cardinality(Under(t)')
      <3>1. key_wq'[s] \in Seq(Waits(s)')
        BY <2>4, <2>5, <2>6 DEF W
      <3> QED  BY <1>6, <2>2, <2>3, <3>1, KeyParts
    <2> QED  BY <1>4, <2>1, <2>7, <2>8 DEF KeyBase, KeyTypeOK, Waits, Under
  <1> QED  BY <1>2, <1>5, <1>6

\* The end of a function wakes the first of the queue of its semaphore.
LEMMA KeyReleaseHolds ==
    ASSUME KeyBase, NEW p \in KeyProcs, KeyRelease(p)
    PROVE  KeyBase'
  <1>0. PICK s : s = sem[p]
    OBVIOUS
  <1> DEFINE w == key_wq[s]
             h == Head(w)
  <1>1. /\ key_pc[p] = "running" /\ keys_map' = keys_map /\ key' = key /\ sem' = sem
        /\ \/ /\ w = <<>> /\ key_value' = [key_value EXCEPT ![s] = @ + 1]
              /\ key_pc' = [key_pc EXCEPT ![p] = "cleanup"]
              /\ key_wq' = key_wq /\ before' = before
           \/ /\ w # <<>> /\ key_wq' = [key_wq EXCEPT ![s] = Tail(@)]
              /\ key_pc' = [key_pc EXCEPT ![p] = "cleanup", ![h] = "running"]
              /\ before' = [before EXCEPT ![h] = Cleaning \cup {p}]
              /\ key_value' = key_value
    BY <1>0 DEF KeyRelease
  <1>2. s \in Sems /\ w \in Seq(Waits(s)) /\ p \in Under(s)
    BY <1>0, <1>1, KeyParts DEF Under, KeyRunning
  <1>3. /\ keys_map' \in [Keys -> Sems \cup {NoSem}]
        /\ key' \in [KeyProcs -> Keys]
        /\ sem' \in [KeyProcs -> Sems \cup {NoSem}]
    BY <1>1, KeyParts
  <1>4. Under(s) \in SUBSET KeyProcs
    BY DEF Under, KeyRunning
  <1>5. CASE /\ key_value' = [key_value EXCEPT ![s] = @ + 1]
             /\ key_pc' = [key_pc EXCEPT ![p] = "cleanup"]
             /\ key_wq' = key_wq /\ before' = before
    <2> HIDE DEF w, h
    <2>1. /\ key_pc' \in [KeyProcs -> {"idle", "waiting", "running", "cleanup"}]
          /\ before' \in [KeyProcs -> SUBSET KeyProcs]
          /\ key_value' \in [Sems -> Int] /\ DOMAIN key_wq' = Sems
          /\ \A q \in KeyProcs : key_pc'[q] # "idle" => sem'[q] \in Sems
      BY <1>1, <1>2, <1>5, KeyParts
    <2>2. \A t \in Sems : Waits(t)' = Waits(t)
      BY <1>1, <1>5, KeyParts DEF Waits
    <2>3. \A t \in Sems \ {s} : Under(t)' = Under(t) /\ key_value'[t] = key_value[t]
      BY <1>0, <1>1, <1>5, KeyParts DEF Under, KeyRunning
    <2>4. Under(s)' = Under(s) \ {p} /\ key_value'[s] = key_value[s] + 1
      BY <1>1, <1>2, <1>5, KeyParts DEF Under, KeyRunning
    <2>5. key_value'[s] = KeyInitial - Cardinality(Under(s)')
      <3>1. Cardinality(Under(s)') = Cardinality(Under(s)) - 1 /\ Cardinality(Under(s)) \in Nat
        BY <1>2, <1>4, <2>4, CountOneMore
      <3> QED  BY <1>2, <2>4, <3>1, KeyParts, KeyInitialAssumption
    <2>6. ASSUME NEW t \in Sems
          PROVE  /\ key_wq'[t] \in Seq(Waits(t)')
                 /\ key_value'[t] = KeyInitial - Cardinality(Under(t)')
      <3>1. key_wq'[t] \in Seq(Waits(t)')
        BY <1>5, <2>2, KeyParts
      <3>2. CASE t = s
        BY <2>5, <3>1, <3>2
      <3>3. CASE t # s
        BY <2>3, <3>1, <3>3, KeyParts
      <3> QED  BY <3>2, <3>3
    <2>7. \A t \in Sems : Place(t)' = Place(t)
      BY <1>5 DEF Place
    <2>8. \A t \in Sems : \A i, j \in Place(t)' : key_wq'[t][i] = key_wq'[t][j] => i = j
      BY <1>5, <2>7, KeyParts
    <2> QED  BY <1>3, <2>1, <2>6, <2>8 DEF KeyBase, KeyTypeOK, Waits, Under
  <1>6. CASE /\ w # <<>> /\ key_wq' = [key_wq EXCEPT ![s] = Tail(@)]
             /\ key_pc' = [key_pc EXCEPT ![p] = "cleanup", ![h] = "running"]
             /\ before' = [before EXCEPT ![h] = Cleaning \cup {p}]
             /\ key_value' = key_value
    <2> DEFINE W == Waits(s)
    <2>0. w \in Seq(W)
      BY <1>2
    <2> HIDE DEF w, W
    <2>1. /\ h \in W /\ Len(w) \in Nat /\ w[1] = h /\ Len(w) > 0
          /\ Len(Tail(w)) = Len(w) - 1
          /\ \A i \in 1..(Len(w) - 1) : Tail(w)[i] = w[i + 1]
          /\ Tail(w) \in Seq(W)
      BY <1>6, <2>0
    <2> HIDE DEF h
    <2>2. h \in KeyProcs /\ key_pc[h] = "waiting" /\ sem[h] = s /\ h # p
      BY <1>1, <2>1 DEF Waits, W
    <2>3. /\ key_pc' \in [KeyProcs -> {"idle", "waiting", "running", "cleanup"}]
          /\ key_pc'[h] = "running" /\ key_pc'[p] = "cleanup"
          /\ \A q \in KeyProcs \ {h, p} : key_pc'[q] = key_pc[q]
      BY <1>6, <2>2, KeyParts
    <2>4. /\ before' \in [KeyProcs -> SUBSET KeyProcs]
          /\ key_value' \in [Sems -> Int] /\ DOMAIN key_wq' = Sems
          /\ \A q \in KeyProcs : key_pc'[q] # "idle" => sem'[q] \in Sems
      BY <1>1, <1>2, <1>6, <2>2, <2>3, KeyParts DEF Cleaning
    <2>5. \A t \in Sems \ {s} : /\ Waits(t)' = Waits(t) /\ Under(t)' = Under(t)
                                /\ key_wq'[t] = key_wq[t]
      BY <1>0, <1>1, <1>6, <2>2, <2>3, KeyParts DEF Waits, Under, KeyRunning
    <2>6. Waits(s)' = W \ {h}
      BY <1>1, <2>2, <2>3 DEF Waits, W
    <2>7. Under(s)' = (Under(s) \ {p}) \cup {h} /\ h \notin Under(s) \ {p}
      BY <1>1, <2>2, <2>3 DEF Under, KeyRunning
    <2>8. Cardinality(Under(s)') = Cardinality(Under(s))
      <3>1. Under(s) \ {p} \in SUBSET KeyProcs
        BY <1>4
      <3>2. Cardinality(Under(s) \ {p}) = Cardinality(Under(s)) - 1 /\ Cardinality(Under(s)) \in Nat
        BY <1>2, <1>4, CountOneMore
      <3>3. Cardinality(Under(s)') = Cardinality(Under(s) \ {p}) + 1
        BY <2>2, <2>7, <3>1, CountOneMore
      <3> QED  BY <3>2, <3>3
    <2>9. key_wq'[s] = Tail(w)
      BY <1>2, <1>6, KeyParts DEF w
    <2>10. \A i, j \in 1..Len(w) : w[i] = w[j] => i = j
      BY <1>2, KeyParts DEF Place, w
    <2>11. Tail(w) \in Seq(W \ {h})
      <3>1. \A i \in 1..(Len(w) - 1) : i + 1 \in 1..Len(w) /\ i + 1 # 1 /\ 1 \in 1..Len(w)
        BY <2>1
      <3>2. \A i \in 1..Len(Tail(w)) : Tail(w)[i] \in W /\ Tail(w)[i] # h
        BY <2>0, <2>1, <2>10, <3>1
      <3> DEFINE u == Tail(w)
      <3>3. u \in Seq(W) /\ \A i \in 1..Len(u) : u[i] \in W \ {h}
        BY <2>1, <3>2
      <3> HIDE DEF u
      <3>4. u \in Seq(W \ {h})
        BY <3>3
      <3> QED  BY <3>4 DEF u
    <2>12. ASSUME NEW t \in Sems
           PROVE  \A i, j \in Place(t)' : key_wq'[t][i] = key_wq'[t][j] => i = j
      <3>1. CASE t # s
        BY <2>5, <3>1, KeyParts DEF Place
      <3>2. CASE t = s
        <4>1. Place(s)' = 1..(Len(w) - 1)
          <5>1. Len(key_wq'[s]) = Len(w) - 1
            BY <2>1, <2>9
          <5> QED  BY <5>1 DEF Place
        <4>2. ASSUME NEW i \in 1..(Len(w) - 1), NEW j \in 1..(Len(w) - 1),
                     Tail(w)[i] = Tail(w)[j]
              PROVE  i = j
          <5>1. i + 1 \in 1..Len(w) /\ j + 1 \in 1..Len(w)
            BY <2>1
          <5>2. i + 1 = j + 1
            BY <2>1, <2>10, <4>2, <5>1
          <5> QED  BY <5>2
        <4>3. \A i, j \in Place(s)' : key_wq'[s][i] = key_wq'[s][j] => i = j
          <5> HIDE DEF w
          <5> QED  BY <2>9, <4>1, <4>2
        <4> QED  BY <3>2, <4>3
      <3> QED  BY <3>1, <3>2
    <2>13. ASSUME NEW t \in Sems
           PROVE  /\ key_wq'[t] \in Seq(Waits(t)')
                  /\ key_value'[t] = KeyInitial - Cardinality(Under(t)')
      <3>1. key_wq'[s] \in Seq(Waits(s)') /\ key_value'[s] = KeyInitial - Cardinality(Under(s)')
        BY <1>2, <1>6, <2>6, <2>8, <2>9, <2>11, KeyParts
      <3>2. CASE t = s
        BY <3>1, <3>2
      <3>3. CASE t # s
        BY <1>6, <2>5, <3>3, KeyParts
      <3> QED  BY <3>2, <3>3
    <2> QED  BY <1>3, <2>3, <2>4, <2>12, <2>13 DEF KeyBase, KeyTypeOK, Waits, Under
  <1> QED  BY <1>1, <1>5, <1>6

\* The cleanup of the map changes nothing that a semaphore accounts for.
LEMMA CleanupHolds ==
    ASSUME KeyBase, NEW p \in KeyProcs, Cleanup(p)
    PROVE  KeyBase'
  <1>1. /\ key_pc[p] = "cleanup"
        /\ keys_map' = keys_map \/ keys_map' = [keys_map EXCEPT ![key[p]] = NoSem]
        /\ key_pc' = [key_pc EXCEPT ![p] = "idle"]
        /\ sem' = [sem EXCEPT ![p] = NoSem]
        /\ before' = [q \in KeyProcs |-> before[q] \ {p}]
        /\ key_value' = key_value /\ key_wq' = key_wq /\ key' = key
    BY DEF Cleanup
  <1>2. keys_map' \in [Keys -> Sems \cup {NoSem}]
    <2>1. key[p] \in Keys /\ keys_map \in [Keys -> Sems \cup {NoSem}]
      BY KeyParts
    <2> QED  BY <1>1, <2>1
  <1>3. /\ key_pc' \in [KeyProcs -> {"idle", "waiting", "running", "cleanup"}]
        /\ key' \in [KeyProcs -> Keys]
        /\ sem' \in [KeyProcs -> Sems \cup {NoSem}]
        /\ before' \in [KeyProcs -> SUBSET KeyProcs]
        /\ key_value' \in [Sems -> Int] /\ DOMAIN key_wq' = Sems
    BY <1>1, KeyParts
  <1>4. \A q \in KeyProcs : key_pc'[q] # "idle" => sem'[q] \in Sems
    BY <1>1, KeyParts
  <1>5. \A t \in Sems : Waits(t)' = Waits(t) /\ Under(t)' = Under(t) /\ Place(t)' = Place(t)
    BY <1>1, KeyParts DEF Waits, Under, KeyRunning, Place
  <1>6. \A t \in Sems : /\ key_wq'[t] \in Seq(Waits(t)')
                        /\ key_value'[t] = KeyInitial - Cardinality(Under(t)')
    BY <1>1, <1>5, KeyParts
  <1>7. \A t \in Sems : \A i, j \in Place(t)' : key_wq'[t][i] = key_wq'[t][j] => i = j
    BY <1>1, <1>5, KeyParts
  <1> QED  BY <1>2, <1>3, <1>4, <1>6, <1>7 DEF KeyBase, KeyTypeOK, Waits, Under

\* Every step preserves this part of the invariant, for every initial count.
LEMMA KeyBaseStep == KeyBase /\ [KeyNext]_keyVars => KeyBase'
  <1> SUFFICES ASSUME KeyBase, [KeyNext]_keyVars PROVE KeyBase'
    OBVIOUS
  <1>1. ASSUME NEW p \in KeyProcs, NEW k \in Keys, SurroundKey(p, k) PROVE KeyBase'
    BY <1>1, SurroundKeyHolds
  <1>2. ASSUME NEW p \in KeyProcs, KeyRelease(p) PROVE KeyBase'
    BY <1>2, KeyReleaseHolds
  <1>3. ASSUME NEW p \in KeyProcs, Cleanup(p) PROVE KeyBase'
    BY <1>3, CleanupHolds
  <1>4. CASE UNCHANGED keyVars
    <2>1. /\ keys_map' = keys_map /\ key_value' = key_value /\ key_wq' = key_wq
          /\ key_pc' = key_pc /\ key' = key /\ sem' = sem /\ before' = before
      BY <1>4 DEF keyVars
    <2>2. KeyTypeOK'
      BY <2>1 DEF KeyBase, KeyTypeOK, KeyRunning
    <2> QED  BY <2>1, <2>2 DEF KeyBase, Place
  <1> QED  BY <1>1, <1>2, <1>3, <1>4 DEF KeyNext

-----------------------------------------------------------------------------
(* Semaphores by key, one function at a time for a key: the map.           *)

\* What surround_key does for a key goes on under the semaphore of the map, from the
\* call to the end of its cleanup.  The part that makes this true is the order of the
\* microtasks: nobody ends its function between a release and the cleanup it queued,
\* so there is one cleanup of a key at a time.
InMapUntilCleaned ==
    /\ \A p \in KeyProcs : key_pc[p] # "idle" => keys_map[key[p]] = sem[p]
    /\ \A p, q \in Cleaning : key[p] = key[q] => p = q
    /\ \A p \in Cleaning, q \in KeyRunning : key[p] = key[q] => p \in before[q]
    /\ \A p, q \in KeyRunning : sem[p] = sem[q] => p = q
    /\ \A p \in KeyProcs :
           key_pc[p] = "waiting" => \E i \in Place(sem[p]) : key_wq[sem[p]][i] = p

KeyIInv == KeyBase /\ InMapUntilCleaned

\* A call finds the semaphore of the map, and runs only if nobody does.
LEMMA SurroundKeyInMap ==
    ASSUME KeyInitial = 1, KeyIInv, NEW p \in KeyProcs, NEW k \in Keys, SurroundKey(p, k)
    PROVE  InMapUntilCleaned'
  <1>1. key_pc[p] = "idle" /\ key' = [key EXCEPT ![p] = k] /\ KeyBase /\ InMapUntilCleaned
    BY DEF SurroundKey, KeyIInv
  <1>2. PICK s \in IF keys_map[k] # NoSem THEN {keys_map[k]} ELSE Unused :
          /\ keys_map' = [keys_map EXCEPT ![k] = s]
          /\ sem' = [sem EXCEPT ![p] = s]
          /\ \/ /\ key_wq[s] = <<>> /\ key_value[s] > 0
                /\ key_value' = [key_value EXCEPT ![s] = @ - 1]
                /\ key_pc' = [key_pc EXCEPT ![p] = "running"]
                /\ before' = [before EXCEPT ![p] = Cleaning]
                /\ key_wq' = key_wq
             \/ /\ key_wq' = [key_wq EXCEPT ![s] = Append(@, p)]
                /\ key_pc' = [key_pc EXCEPT ![p] = "waiting"]
                /\ key_value' = key_value /\ before' = before
    BY DEF SurroundKey
  <1>3. s \in Sems
    BY <1>1, Found
  <1>4. /\ keys_map'[k] = s /\ \A j \in Keys \ {k} : keys_map'[j] = keys_map[j]
        /\ sem'[p] = s /\ key'[p] = k
        /\ \A q \in KeyProcs \ {p} : sem'[q] = sem[q] /\ key'[q] = key[q] /\ key_pc'[q] = key_pc[q]
        /\ key_pc'[p] \in {"running", "waiting"}
    BY <1>1, <1>2, KeyParts
  <1>5. \A q \in KeyProcs : key_pc'[q] # "idle" => keys_map'[key'[q]] = sem'[q]
    <2>1. ASSUME NEW q \in KeyProcs \ {p}, key_pc'[q] # "idle" PROVE keys_map'[key'[q]] = sem'[q]
      <3>1. keys_map[key[q]] = sem[q] /\ sem[q] \in Sems /\ sem[q] # NoSem /\ key[q] \in Keys
        BY <1>1, <1>4, <2>1, KeyParts, NoSemAssumption DEF InMapUntilCleaned
      <3>2. key[q] = k => s = sem[q]
        BY <1>2, <3>1
      <3> QED  BY <1>4, <3>1, <3>2
    <2> QED  BY <1>4, <2>1
  <1>6. Cleaning' = Cleaning /\ p \notin Cleaning
    BY <1>1, <1>4 DEF Cleaning
  <1>7. \A q, r \in Cleaning' : key'[q] = key'[r] => q = r
    BY <1>1, <1>4, <1>6 DEF InMapUntilCleaned, Cleaning
  <1>8. \A q \in KeyRunning \ {p} : q \in KeyRunning
    OBVIOUS
  <1>9. \A q \in KeyRunning' : q # p => q \in KeyRunning
    BY <1>4 DEF KeyRunning
  <1>10. \A q \in Cleaning', r \in KeyRunning' : key'[q] = key'[r] => q \in before'[r]
    <2> SUFFICES ASSUME NEW q \in Cleaning, NEW r \in KeyRunning', key'[q] = key'[r]
                 PROVE  q \in before'[r]
      BY <1>6
    <2>1. CASE r = p
      <3>1. key_pc'[p] = "running"
        BY <2>1 DEF KeyRunning
      <3>2. before' = [before EXCEPT ![p] = Cleaning]
        BY <1>1, <1>2, <3>1, KeyParts
      <3> QED  BY <1>1, <2>1, <3>2, KeyParts
    <2>2. CASE r # p
      <3>1. r \in KeyRunning /\ r \in KeyProcs /\ q \in KeyProcs /\ q # p
        BY <1>6, <1>9, <2>2 DEF KeyRunning, Cleaning
      <3>2. q \in before[r]
        BY <1>1, <1>4, <2>2, <3>1 DEF InMapUntilCleaned
      <3>3. before'[r] = before[r]
        BY <1>1, <1>2, <2>2, <3>1, KeyParts
      <3> QED  BY <3>2, <3>3
    <2> QED  BY <2>1, <2>2
  <1>11. \A q, r \in KeyRunning' : sem'[q] = sem'[r] => q = r
    <2>1. ASSUME NEW q \in KeyRunning, key_pc'[p] = "running", sem[q] = s PROVE FALSE
      <3>1. key_value[s] > 0
        BY <1>1, <1>2, <2>1, KeyParts
      <3>2. q \in Under(s) /\ Under(s) \in SUBSET KeyProcs
        BY <2>1 DEF Under, KeyRunning
      <3>3. Cardinality(Under(s)) \in Nat /\ Cardinality(Under(s) \ {q}) = Cardinality(Under(s)) - 1
        BY <3>2, CountOneMore
      <3>4. Under(s) \ {q} \in SUBSET KeyProcs
        BY <3>2
      <3>5. Cardinality(Under(s) \ {q}) \in Nat
        BY <3>2, <3>4, CountOneMore
      <3>6. key_value[s] = 1 - Cardinality(Under(s))
        BY <1>1, <1>3, KeyParts
      <3> QED  BY <3>1, <3>3, <3>5, <3>6
    <2>2. \A q \in KeyRunning' : q # p => q \in KeyRunning /\ q \in KeyProcs /\ sem'[q] = sem[q]
      BY <1>4, <1>9 DEF KeyRunning
    <2>3. p \in KeyRunning' => key_pc'[p] = "running"
      BY DEF KeyRunning
    <2> QED  BY <1>1, <1>4, <2>1, <2>2, <2>3 DEF InMapUntilCleaned
  <1>12. \A q \in KeyProcs :
            key_pc'[q] = "waiting" => \E i \in 1..Len(key_wq'[sem'[q]]) : key_wq'[sem'[q]][i] = q
    <2>1. DOMAIN key_wq = Sems /\ \A t \in Sems : key_wq[t] \in Seq(Waits(t))
      BY <1>1, KeyParts
    <2>2. \A t \in Sems : \/ key_wq'[t] = key_wq[t]
                          \/ t = s /\ key_wq'[t] = Append(key_wq[t], p)
      BY <1>2, <1>3, <2>1
    <2>3. ASSUME NEW t \in Sems, NEW i \in Place(t)
          PROVE  i \in Place(t)' /\ key_wq'[t][i] = key_wq[t][i]
      <3> DEFINE w == key_wq[t]
                 W == Waits(t)
      <3>1. w \in Seq(W) /\ i \in 1..Len(w)
        BY <2>1, <2>3 DEF Place
      <3>2. w' = w \/ w' = Append(w, p)
        BY <2>2
      <3> HIDE DEF w, W
      <3>3. i \in 1..Len(w') /\ w'[i] = w[i]
        <4>1. CASE w' = w
          BY <3>1, <4>1
        <4>2. CASE w' = Append(w, p)
          BY <3>1, <4>2
        <4> QED  BY <3>2, <4>1, <4>2
      <3> QED  BY <3>3 DEF w, Place
    <2>4. ASSUME NEW q \in KeyProcs, q # p, key_pc'[q] = "waiting"
          PROVE  \E i \in 1..Len(key_wq'[sem'[q]]) : key_wq'[sem'[q]][i] = q
      <3>1. sem[q] \in Sems /\ \E i \in Place(sem[q]) : key_wq[sem[q]][i] = q
        BY <1>1, <1>4, <2>4, KeyParts DEF InMapUntilCleaned
      <3>2. \E i \in 1..Len(key_wq'[sem[q]]) : key_wq'[sem[q]][i] = q
        <4>1. PICK t \in Sems : t = sem[q]
          BY <3>1
        <4>2. PICK i \in Place(t) : key_wq[t][i] = q
          BY <3>1, <4>1
        <4>3. i \in Place(t)' /\ key_wq'[t][i] = q
          BY <2>3, <4>2
        <4>4. i \in 1..Len(key_wq'[sem[q]]) /\ key_wq'[sem[q]][i] = q
          BY <4>1, <4>3 DEF Place
        <4> QED  BY <4>4
      <3> QED  BY <1>4, <2>4, <3>2
    <2>5. ASSUME key_pc'[p] = "waiting"
          PROVE  \E i \in 1..Len(key_wq'[sem'[p]]) : key_wq'[sem'[p]][i] = p
      <3> DEFINE w == key_wq[s]
                 W == Waits(s)
      <3>1. w' = Append(w, p) /\ w \in Seq(W)
        BY <1>1, <1>2, <1>3, <2>1, <2>5, KeyParts
      <3> HIDE DEF w, W
      <3>2. Len(w) + 1 \in 1..Len(w') /\ w'[Len(w) + 1] = p
        BY <3>1
      <3> QED  BY <1>4, <3>2 DEF w
    <2> QED  BY <2>4, <2>5
  <1> QED  BY <1>5, <1>7, <1>10, <1>11, <1>12 DEF InMapUntilCleaned, Place

\* A function ends when no cleanup of its key is pending, so its own is the only one.
LEMMA KeyReleaseInMap ==
    ASSUME KeyIInv, NEW p \in KeyProcs, KeyRelease(p)
    PROVE  InMapUntilCleaned'
  <1>0. PICK s : s = sem[p]
    OBVIOUS
  <1>1. /\ key_pc[p] = "running" /\ before[p] = {}
        /\ keys_map' = keys_map /\ key' = key /\ sem' = sem
        /\ \/ /\ key_wq' = key_wq /\ before' = before
              /\ key_pc' = [key_pc EXCEPT ![p] = "cleanup"]
           \/ /\ key_wq[s] # <<>> /\ key_wq' = [key_wq EXCEPT ![s] = Tail(@)]
              /\ key_pc' = [key_pc EXCEPT ![p] = "cleanup", ![Head(key_wq[s])] = "running"]
              /\ before' = [before EXCEPT ![Head(key_wq[s])] = Cleaning \cup {p}]
    BY <1>0 DEF KeyRelease
  <1>2. KeyBase /\ InMapUntilCleaned
    BY DEF KeyIInv
  <1>3. p \in KeyRunning /\ s \in Sems /\ key_wq[s] \in Seq(Waits(s))
    BY <1>0, <1>1, <1>2, KeyParts DEF KeyRunning
  <1>4. \A q \in Cleaning : key[q] # key[p]
    BY <1>1, <1>2, <1>3 DEF InMapUntilCleaned
  <1>5. CASE /\ key_wq' = key_wq /\ before' = before
             /\ key_pc' = [key_pc EXCEPT ![p] = "cleanup"]
    <2>1. /\ key_pc'[p] = "cleanup" /\ \A q \in KeyProcs \ {p} : key_pc'[q] = key_pc[q]
          /\ Cleaning' = Cleaning \cup {p} /\ KeyRunning' = KeyRunning \ {p}
      BY <1>2, <1>5, KeyParts DEF Cleaning, KeyRunning
    <2>2. \A q \in KeyProcs : key_pc'[q] # "idle" => keys_map'[key'[q]] = sem'[q]
      BY <1>1, <1>2, <2>1 DEF InMapUntilCleaned
    <2>3. \A q, r \in Cleaning' : key'[q] = key'[r] => q = r
      BY <1>1, <1>2, <1>4, <2>1 DEF InMapUntilCleaned
    <2>4. \A q \in Cleaning', r \in KeyRunning' : key'[q] = key'[r] => q \in before'[r]
      <3> SUFFICES ASSUME NEW q \in Cleaning', NEW r \in KeyRunning', key[q] = key[r]
                   PROVE  q \in before[r]
        BY <1>1, <1>5
      <3>1. r \in KeyRunning /\ r # p
        BY <2>1
      <3>2. q # p
        <4>1. q = p => sem[r] = sem[p]
          BY <1>1, <1>2, <1>3, <3>1 DEF InMapUntilCleaned, KeyRunning
        <4> QED  BY <1>2, <1>3, <3>1, <4>1 DEF InMapUntilCleaned
      <3> QED  BY <1>2, <2>1, <3>1, <3>2 DEF InMapUntilCleaned
    <2>5. \A q, r \in KeyRunning' : sem'[q] = sem'[r] => q = r
      BY <1>1, <1>2, <2>1 DEF InMapUntilCleaned
    <2>6. \A q \in KeyProcs : key_pc'[q] = "waiting" =>
              \E i \in 1..Len(key_wq'[sem'[q]]) : key_wq'[sem'[q]][i] = q
      BY <1>1, <1>2, <1>5, <2>1 DEF InMapUntilCleaned, Place
    <2> QED  BY <2>2, <2>3, <2>4, <2>5, <2>6 DEF InMapUntilCleaned, Place
  <1>6. CASE /\ key_wq[s] # <<>> /\ key_wq' = [key_wq EXCEPT ![s] = Tail(@)]
             /\ key_pc' = [key_pc EXCEPT ![p] = "cleanup", ![Head(key_wq[s])] = "running"]
             /\ before' = [before EXCEPT ![Head(key_wq[s])] = Cleaning \cup {p}]
    <2>0. PICK w : w = key_wq[s]
      OBVIOUS
    <2> DEFINE W == Waits(s)
    <2>1. PICK h \in W : /\ h = Head(w) /\ w[1] = h /\ Len(w) \in Nat
                         /\ Len(Tail(w)) = Len(w) - 1
                         /\ \A i \in 1..(Len(w) - 1) : Tail(w)[i] = w[i + 1]
      <3>1. w \in Seq(W) /\ w # <<>>
        BY <1>3, <1>6, <2>0
      <3> HIDE DEF W
      <3>2. /\ Head(w) \in W /\ w[1] = Head(w) /\ Len(w) \in Nat
            /\ Len(Tail(w)) = Len(w) - 1
            /\ \A i \in 1..(Len(w) - 1) : Tail(w)[i] = w[i + 1]
        BY <3>1
      <3> QED  BY <3>2
    <2>2. h \in KeyProcs /\ key_pc[h] = "waiting" /\ sem[h] = s /\ h # p
      BY <1>1, <2>1 DEF Waits
    <2>3. /\ key_pc'[p] = "cleanup" /\ key_pc'[h] = "running"
          /\ \A q \in KeyProcs \ {p, h} : key_pc'[q] = key_pc[q]
          /\ before'[h] = Cleaning \cup {p} /\ \A q \in KeyProcs \ {h} : before'[q] = before[q]
          /\ key_wq'[s] = Tail(w) /\ \A t \in Sems \ {s} : key_wq'[t] = key_wq[t]
      BY <1>2, <1>3, <1>6, <2>0, <2>1, <2>2, KeyParts
    <2>4. Cleaning' = Cleaning \cup {p} /\ KeyRunning' = (KeyRunning \ {p}) \cup {h}
      BY <1>2, <2>2, <2>3, KeyParts DEF Cleaning, KeyRunning
    <2>5. \A q \in KeyProcs : key_pc'[q] # "idle" => keys_map'[key'[q]] = sem'[q]
      BY <1>1, <1>2, <2>2, <2>3 DEF InMapUntilCleaned
    <2>6. \A q, r \in Cleaning' : key'[q] = key'[r] => q = r
      BY <1>1, <1>2, <1>4, <2>4 DEF InMapUntilCleaned
    <2>7. \A q \in Cleaning', r \in KeyRunning' : key'[q] = key'[r] => q \in before'[r]
      <3> SUFFICES ASSUME NEW q \in Cleaning', NEW r \in KeyRunning', key[q] = key[r]
                   PROVE  q \in before'[r]
        BY <1>1
      <3>1. CASE r = h
        BY <2>3, <2>4, <3>1
      <3>2. CASE r # h
        <4>1. r \in KeyRunning /\ r # p /\ r \in KeyProcs
          BY <2>4, <3>2 DEF KeyRunning
        <4>2. q # p
          <5>1. q = p => sem[r] = sem[p]
            BY <1>1, <1>2, <1>3, <4>1 DEF InMapUntilCleaned, KeyRunning
          <5> QED  BY <1>2, <1>3, <4>1, <5>1 DEF InMapUntilCleaned
        <4>3. q \in before[r]
          BY <1>2, <2>4, <4>1, <4>2 DEF InMapUntilCleaned
        <4> QED  BY <2>3, <3>2, <4>1, <4>3
      <3> QED  BY <3>1, <3>2
    <2>8. \A q, r \in KeyRunning' : sem'[q] = sem'[r] => q = r
      <3>1. \A q \in KeyRunning \ {p} : sem[q] # s
        BY <1>0, <1>2, <1>3 DEF InMapUntilCleaned
      <3> QED  BY <1>1, <1>2, <2>2, <2>4, <3>1 DEF InMapUntilCleaned
    <2>9. ASSUME NEW q \in KeyProcs, key_pc'[q] = "waiting"
          PROVE  \E i \in 1..Len(key_wq'[sem'[q]]) : key_wq'[sem'[q]][i] = q
      <3>1. key_pc[q] = "waiting" /\ q # h /\ sem[q] \in Sems /\ sem'[q] = sem[q]
        BY <1>1, <1>2, <2>2, <2>3, <2>9, KeyParts
      <3>2. PICK i \in 1..Len(key_wq[sem[q]]) : key_wq[sem[q]][i] = q
        BY <1>2, <3>1 DEF InMapUntilCleaned, Place
      <3>3. CASE sem[q] # s
        BY <2>3, <3>1, <3>2, <3>3
      <3>4. CASE sem[q] = s
        <4>1. i \in 1..Len(w) /\ w[i] = q
          BY <2>0, <3>2, <3>4
        <4>2. i # 1
          BY <2>1, <3>1, <4>1
        <4>3. i - 1 \in 1..(Len(w) - 1) /\ (i - 1) + 1 = i
          BY <2>1, <4>1, <4>2
        <4>4. i - 1 \in 1..Len(Tail(w)) /\ Tail(w)[i - 1] = q
          BY <2>1, <4>1, <4>3
        <4> QED  BY <2>3, <3>1, <3>4, <4>4
      <3> QED  BY <3>3, <3>4
    <2> QED  BY <2>5, <2>6, <2>7, <2>8, <2>9 DEF InMapUntilCleaned, Place
  <1> QED  BY <1>1, <1>5, <1>6

\* The cleanup finds nobody else at its key if it drops the semaphore.
LEMMA CleanupInMap ==
    ASSUME KeyInitial = 1, KeyIInv, NEW p \in KeyProcs, Cleanup(p)
    PROVE  InMapUntilCleaned'
  <1>1. /\ key_pc[p] = "cleanup"
        /\ keys_map' = IF InUse(sem[p]) THEN keys_map ELSE [keys_map EXCEPT ![key[p]] = NoSem]
        /\ key_pc' = [key_pc EXCEPT ![p] = "idle"]
        /\ sem' = [sem EXCEPT ![p] = NoSem]
        /\ before' = [q \in KeyProcs |-> before[q] \ {p}]
        /\ key_value' = key_value /\ key_wq' = key_wq /\ key' = key
    BY DEF Cleanup
  <1>2. KeyBase /\ InMapUntilCleaned
    BY DEF KeyIInv
  <1>3. /\ key_pc'[p] = "idle"
        /\ \A q \in KeyProcs \ {p} : key_pc'[q] = key_pc[q] /\ sem'[q] = sem[q]
        /\ \A q \in KeyProcs : before'[q] = before[q] \ {p}
    BY <1>1, <1>2, KeyParts
  <1>4. Cleaning' = Cleaning \ {p} /\ KeyRunning' = KeyRunning /\ p \in Cleaning /\ p \notin KeyRunning
    BY <1>1, <1>3 DEF Cleaning, KeyRunning
  <1>5. ASSUME NEW q \in KeyProcs, q # p, key_pc[q] # "idle", key[q] = key[p]
        PROVE  InUse(sem[p])
    <2>1. sem[q] = sem[p] /\ sem[p] \in Sems
      BY <1>1, <1>2, <1>5, KeyParts DEF InMapUntilCleaned
    <2>2. CASE key_pc[q] = "running"
      <3> DEFINE U == Under(sem[p])
      <3>1. q \in U /\ U \in SUBSET KeyProcs
        BY <2>1, <2>2 DEF Under, KeyRunning
      <3>2. key_value[sem[p]] = KeyInitial - Cardinality(U)
        BY <1>2, <2>1, KeyParts
      <3> HIDE DEF U
      <3>3. Cardinality(U) \in Nat /\ Cardinality(U \ {q}) = Cardinality(U) - 1
        BY <3>1, CountOneMore
      <3>4. U \ {q} \in SUBSET KeyProcs
        BY <3>1
      <3>5. Cardinality(U \ {q}) \in Nat
        BY <3>4, CountOneMore
      <3>6. key_value[sem[p]] # KeyInitial
        BY <3>2, <3>3, <3>5
      <3> QED  BY <3>6 DEF InUse
    <2>3. CASE key_pc[q] = "waiting"
      <3>1. PICK i \in 1..Len(key_wq[sem[p]]) : TRUE
        BY <1>2, <2>1, <2>3 DEF InMapUntilCleaned, Place
      <3>2. key_wq[sem[p]] # <<>>
        BY <3>1
      <3> QED  BY <3>2 DEF InUse
    <2>4. CASE key_pc[q] = "cleanup"
      BY <1>2, <1>4, <1>5, <2>4 DEF InMapUntilCleaned, Cleaning
    <2> QED  BY <1>2, <1>5, <2>2, <2>3, <2>4, KeyParts
  <1>6. \A q \in KeyProcs : key_pc'[q] # "idle" => keys_map'[key'[q]] = sem'[q]
    <2> SUFFICES ASSUME NEW q \in KeyProcs, key_pc'[q] # "idle" PROVE keys_map'[key[q]] = sem[q]
      BY <1>1, <1>3
    <2>1. q # p /\ key_pc[q] # "idle" /\ keys_map[key[q]] = sem[q]
      BY <1>2, <1>3 DEF InMapUntilCleaned
    <2>2. CASE key[q] = key[p]
      BY <1>1, <1>5, <2>1, <2>2
    <2>3. CASE key[q] # key[p]
      <3>1. key[q] \in Keys /\ keys_map \in [Keys -> Sems \cup {NoSem}]
        BY <1>2, KeyParts
      <3>2. keys_map'[key[q]] = keys_map[key[q]]
        BY <1>1, <2>3, <3>1
      <3> QED  BY <2>1, <3>2
    <2> QED  BY <2>2, <2>3
  <1>7. \A q, r \in Cleaning' : key'[q] = key'[r] => q = r
    BY <1>1, <1>2, <1>4 DEF InMapUntilCleaned
  <1>8. \A q \in Cleaning', r \in KeyRunning' : key'[q] = key'[r] => q \in before'[r]
    <2>1. \A q \in Cleaning', r \in KeyRunning' : q \in Cleaning /\ q # p /\ r \in KeyRunning /\ r \in KeyProcs
      BY <1>4 DEF KeyRunning
    <2> QED  BY <1>1, <1>2, <1>3, <2>1 DEF InMapUntilCleaned
  <1>9. \A q, r \in KeyRunning' : sem'[q] = sem'[r] => q = r
    <2>1. \A q \in KeyRunning : sem'[q] = sem[q]
      BY <1>3, <1>4 DEF KeyRunning
    <2> QED  BY <1>2, <1>4, <2>1 DEF InMapUntilCleaned
  <1>10. \A q \in KeyProcs : key_pc'[q] = "waiting" =>
            \E i \in 1..Len(key_wq'[sem'[q]]) : key_wq'[sem'[q]][i] = q
    BY <1>1, <1>2, <1>3 DEF InMapUntilCleaned, Place
  <1> QED  BY <1>6, <1>7, <1>8, <1>9, <1>10 DEF InMapUntilCleaned, Place

\* Who waits is in the queue of the semaphore it found, and every semaphore accounts
\* for what runs under it, whatever the initial count.
THEOREM KeyTypeCorrect == KeySpec => []KeyTypeOK
  <1>1. KeyBase => KeyTypeOK
    BY DEF KeyBase
  <1> QED  BY <1>1, KeyInitHolds, KeyBaseStep, PTL DEF KeySpec

\* With an initial count of 1 (the semaphores of bucket_server.js and map_server.js),
\* surround_key drops the semaphore of a key only if it is not in use.
THEOREM KeptWhileInUse ==
    ASSUME KeyInitial = 1
    PROVE  KeySpec => []InMapWhileInUse
  <1>1. KeyInit => KeyIInv
    <2> SUFFICES ASSUME KeyInit PROVE InMapUntilCleaned
      BY KeyInitHolds DEF KeyIInv
    <2>1. \A p \in KeyProcs : key_pc[p] = "idle"
      BY DEF KeyInit
    <2> QED  BY <2>1 DEF InMapUntilCleaned, Cleaning, KeyRunning
  <1>2. KeyIInv /\ [KeyNext]_keyVars => KeyIInv'
    <2> SUFFICES ASSUME KeyIInv, [KeyNext]_keyVars PROVE InMapUntilCleaned'
      BY KeyBaseStep DEF KeyIInv
    <2>1. ASSUME NEW p \in KeyProcs, NEW k \in Keys, SurroundKey(p, k) PROVE InMapUntilCleaned'
      BY <2>1, SurroundKeyInMap
    <2>2. ASSUME NEW p \in KeyProcs, KeyRelease(p) PROVE InMapUntilCleaned'
      BY <2>2, KeyReleaseInMap
    <2>3. ASSUME NEW p \in KeyProcs, Cleanup(p) PROVE InMapUntilCleaned'
      BY <2>3, CleanupInMap
    <2>4. CASE UNCHANGED keyVars
      BY <2>4 DEF keyVars, KeyIInv, InMapUntilCleaned, Cleaning, KeyRunning, Place
    <2> QED  BY <2>1, <2>2, <2>3, <2>4 DEF KeyNext
  <1>3. KeyIInv => InMapWhileInUse
    <2> SUFFICES ASSUME KeyIInv, NEW p \in KeyProcs, key_pc[p] \in {"running", "waiting"}
                 PROVE  keys_map[key[p]] = sem[p]
      BY DEF InMapWhileInUse
    <2> QED  BY DEF KeyIInv, InMapUntilCleaned
  <1> QED  BY <1>1, <1>2, <1>3, PTL DEF KeySpec

-----------------------------------------------------------------------------
(* The loop of _wakeup_waiters.                                            *)

Waiters  == 1..Len(wait_list)
Asked(i) == lock_batch[wait_list[i]]

\* The recursive function TakenFrom(start) exists: what is taken before and after each
\* waiter.
LEMMA TakenIs ==
    ASSUME LockTypeOK, NEW start \in SUBSET LockKeys
    PROVE  /\ TakenFrom(start) \in [0..Len(wait_list) -> SUBSET LockKeys]
           /\ TakenFrom(start)[0] = start
           /\ \A i \in Waiters : TakenFrom(start)[i] =
                  IF CanLock(Asked(i), TakenFrom(start)[i - 1])
                  THEN TakenFrom(start)[i - 1] \cup Asked(i) ELSE TakenFrom(start)[i - 1]
  <1> DEFINE n     == Len(wait_list)
             S     == SUBSET LockKeys
             Eq(f) == f = [i \in 0..n |->
                              IF i = 0 THEN start
                              ELSE IF CanLock(lock_batch[wait_list[i]], f[i - 1])
                                   THEN f[i - 1] \cup lock_batch[wait_list[i]] ELSE f[i - 1]]
             step  == [x \in (1..n) \X S |-> IF CanLock(Asked(x[1]), x[2])
                                             THEN x[2] \cup Asked(x[1]) ELSE x[2]]
  <1>1. n \in Nat /\ \A i \in 1..n : wait_list[i] \in LockProcs /\ Asked(i) \in S
    BY DEF LockTypeOK, Asked
  <1>2. step \in [(1..n) \X S -> S]
    BY <1>1
  <1>3. PICK f : f \in [0..n -> S] /\ Unfolds(f, n, start, step)
    <2> HIDE DEF step, n, S
    <2>1. start \in S
      BY DEF S
    <2> QED  BY <1>1, <1>2, <2>1, Recursion
  <1>4. Eq(f)
    <2>1. \A i \in 0..n : i = 0 \/ (i \in 1..n /\ i - 1 \in 0..n)
      BY <1>1
    <2>2. \A i \in 0..n : f[i] = IF i = 0 THEN start
                                 ELSE IF CanLock(lock_batch[wait_list[i]], f[i - 1])
                                      THEN f[i - 1] \cup lock_batch[wait_list[i]] ELSE f[i - 1]
      <3>1. \A i \in 1..n : f[i - 1] \in S
        BY <1>3, <2>1
      <3> QED  BY <1>3, <2>1, <3>1 DEF Unfolds, Asked
    <2> QED  BY <1>3, <2>2
  <1>5. Eq(TakenFrom(start))
    <2>1. TakenFrom(start) = CHOOSE g : Eq(g)
      BY DEF TakenFrom
    <2> HIDE DEF Eq
    <2> QED  BY <1>4, <2>1
  <1> DEFINE T == TakenFrom(start)
             U == {i \in 0..n : T[i] \in S}
  <1> HIDE DEF T
  <1>6. Eq(T)
    BY <1>5 DEF T
  <1>7. T[0] = start /\ \A i \in 1..n : T[i] = IF CanLock(Asked(i), T[i - 1])
                                             THEN T[i - 1] \cup Asked(i) ELSE T[i - 1]
    <2>1. n \in Nat
      BY <1>1
    <2> HIDE DEF n
    <2>2. \A i \in 1..n : i \in 0..n /\ i # 0
      BY <2>1
    <2>3. 0 \in 0..n
      BY <2>1
    <2> QED  BY <1>6, <2>2, <2>3 DEF Asked
  <1>8. 0..n \subseteq U
    <2>1. 0 \in U
      BY <1>1, <1>7
    <2>2. ASSUME NEW i \in 1..n, i - 1 \in U PROVE i \in U
      <3>1. T[i - 1] \in S /\ Asked(i) \in S /\ i \in 0..n
        BY <1>1, <2>2
      <3>2. T[i] \in S
        BY <1>7, <3>1
      <3> QED  BY <3>1, <3>2
    <2> HIDE DEF U, n
    <2> QED  BY <1>1, <2>1, <2>2, IntervalSet
  <1>9. T \in [0..n -> S]
    BY <1>6, <1>8
  <1> QED  BY <1>7, <1>9 DEF Waiters, T
\* No key is given back in the loop.
LEMMA TakenGrows ==
    ASSUME LockTypeOK, NEW start \in SUBSET LockKeys,
           NEW i \in 0..Len(wait_list), NEW j \in 0..Len(wait_list), i <= j
    PROVE  TakenFrom(start)[i] \subseteq TakenFrom(start)[j]
  <1> DEFINE n == Len(wait_list)
             T == TakenFrom(start)
             U == {k \in 0..n : i <= k => T[i] \subseteq T[k]}
  <1>1. n \in Nat
    BY DEF LockTypeOK
  <1>2. \A k \in 1..n : T[k - 1] \subseteq T[k]
    BY TakenIs DEF Waiters
  <1> HIDE DEF T
  <1>3. 0 \in U
    <2>1. i <= 0 => i = 0
      OBVIOUS
    <2> QED  BY <1>1, <2>1
  <1>4. ASSUME NEW k \in 1..n, k - 1 \in U PROVE k \in U
    <2>1. CASE i = k
      BY <2>1
    <2>2. CASE i <= k - 1
      <3>1. T[i] \subseteq T[k - 1] /\ T[k - 1] \subseteq T[k]
        BY <1>2, <1>4, <2>2
      <3> QED  BY <3>1
    <2> QED  BY <2>1, <2>2
  <1>5. 0..n \subseteq U
    <2> HIDE DEF U, n
    <2> QED  BY <1>1, <1>3, <1>4, IntervalSet
  <1> QED  BY <1>5 DEF T

\* What is taken is what was at the start, and the keys of those woken.
LEMMA TakenByWoken ==
    ASSUME LockTypeOK, NEW start \in SUBSET LockKeys, NEW j \in 0..Len(wait_list)
    PROVE  TakenFrom(start)[j] \subseteq start \cup UNION {lock_batch[q] : q \in Woken(start)}
  <1> DEFINE n == Len(wait_list)
             T == TakenFrom(start)
             K == start \cup UNION {lock_batch[q] : q \in Woken(start)}
             U == {k \in 0..n : T[k] \subseteq K}
  <1>1. n \in Nat
    BY DEF LockTypeOK
  <1>2. 0 \in U
    BY <1>1, TakenIs
  <1>3. ASSUME NEW k \in 1..n, k - 1 \in U PROVE k \in U
    <2>1. CASE CanLock(Asked(k), T[k - 1])
      <3>1. wait_list[k] \in Woken(start)
        BY <2>1 DEF Woken, Asked
      <3>2. Asked(k) \subseteq K
        BY <3>1 DEF Asked
      <3>3. T[k] = T[k - 1] \cup Asked(k)
        BY <2>1, TakenIs DEF Waiters
      <3> QED  BY <1>3, <3>2, <3>3
    <2>2. CASE ~CanLock(Asked(k), T[k - 1])
      <3>1. T[k] = T[k - 1]
        BY <2>2, TakenIs DEF Waiters
      <3> QED  BY <1>3, <3>1
    <2> QED  BY <2>1, <2>2
  <1>4. 0..n \subseteq U
    <2> HIDE DEF U, n
    <2> QED  BY <1>1, <1>2, <1>3, IntervalSet
  <1> QED  BY <1>4

\* The list loses the woken coroutines and no other.
LEMMA LeftIs ==
    ASSUME LockTypeOK, NEW W
    PROVE  /\ Left(W) \in Seq(LockProcs) /\ IsInjective(Left(W))
           /\ ToSet(Left(W)) = ToSet(wait_list) \ W
  <1>1. Left(W) = KeptOf(wait_list, W)
    BY DEF Left, KeptOf
  <1> QED  BY <1>1, KeptIs DEF LockTypeOK

-----------------------------------------------------------------------------
(* The invariant: the three properties together.                           *)

LockIInv == LockTypeOK /\ Exclusion /\ NoLostWakeup

\* surround_key: who finds a key locked gets in the list, with a key that is locked.
LEMMA SurroundStep ==
    ASSUME LockIInv, NEW p \in LockProcs, NEW keys \in Batches, Surround(p, keys)
    PROVE  LockIInv'
  <1> USE DEF LockIInv
  <1>0. /\ LockTypeOK /\ Exclusion /\ NoLostWakeup /\ lock_pc[p] = "idle" /\ keys \subseteq LockKeys
        /\ lock_batch'[p] = keys /\ \A q \in LockProcs \ {p} : lock_batch'[q] = lock_batch[q]
        /\ lock_batch' \in [LockProcs -> SUBSET LockKeys]
    BY BatchesAssumption DEF Surround, LockTypeOK
  <1>1. CASE keys \cap locked = {}
    <2>1. /\ locked' = locked \cup keys /\ wait_list' = wait_list
          /\ lock_pc'[p] = "running" /\ \A q \in LockProcs \ {p} : lock_pc'[q] = lock_pc[q]
          /\ lock_pc' \in [LockProcs -> {"idle", "waiting", "running"}]
      BY <1>0, <1>1 DEF Surround, CanLock, LockTypeOK
    <2>2. LockRunning' = LockRunning \cup {p} /\ LockWaiting' = LockWaiting /\ p \notin LockRunning
      BY <1>0, <2>1 DEF LockRunning, LockWaiting
    <2>3. locked' = UNION {lock_batch'[q] : q \in LockRunning'}
      <3>1. \A q \in LockRunning : lock_batch'[q] = lock_batch[q]
        BY <1>0, <2>2 DEF LockRunning
      <3> QED  BY <1>0, <2>1, <2>2, <3>1 DEF LockTypeOK
    <2>4. LockTypeOK'
      BY <1>0, <2>1, <2>2, <2>3 DEF LockTypeOK
    <2>5. Exclusion'
      <3>1. \A q \in LockRunning : lock_batch'[q] = lock_batch[q] /\ lock_batch[q] \subseteq locked
        BY <1>0, <2>2 DEF LockRunning, LockTypeOK
      <3> QED  BY <1>0, <1>1, <2>2, <3>1 DEF Exclusion
    <2>6. NoLostWakeup'
      BY <1>0, <2>1, <2>2 DEF NoLostWakeup, LockWaiting
    <2> QED  BY <2>4, <2>5, <2>6
  <1>2. CASE keys \cap locked # {}
    <2>1. /\ locked' = locked /\ wait_list' = Append(wait_list, p)
          /\ lock_pc'[p] = "waiting" /\ \A q \in LockProcs \ {p} : lock_pc'[q] = lock_pc[q]
          /\ lock_pc' \in [LockProcs -> {"idle", "waiting", "running"}]
      BY <1>0, <1>2 DEF Surround, CanLock, LockTypeOK
    <2>2. LockRunning' = LockRunning /\ LockWaiting' = LockWaiting \cup {p} /\ p \notin LockWaiting
      BY <1>0, <2>1 DEF LockRunning, LockWaiting
    <2>3. /\ wait_list' \in Seq(LockProcs) /\ IsInjective(wait_list')
          /\ ToSet(wait_list') = ToSet(wait_list) \cup {p}
      <3>1. wait_list \in Seq(LockProcs) /\ IsInjective(wait_list) /\ p \notin ToSet(wait_list)
        BY <1>0, <2>2 DEF LockTypeOK
      <3> QED  BY <2>1, <3>1, AppendKeeps
    <2>4. LockTypeOK'
      <3>1. \A q \in LockRunning : lock_batch'[q] = lock_batch[q]
        BY <1>0 DEF LockRunning
      <3> QED  BY <1>0, <2>1, <2>2, <2>3, <3>1 DEF LockTypeOK
    <2>5. Exclusion'
      BY <1>0, <2>2 DEF Exclusion, LockRunning
    <2>6. NoLostWakeup'
      BY <1>0, <1>2, <2>1, <2>2 DEF NoLostWakeup, LockWaiting
    <2> QED  BY <2>4, <2>5, <2>6
  <1> QED  BY <1>1, <1>2

\* _release: the woken ask for disjoint keys, none of which is locked; those passed over
\* ask for one that is.
LEMMA ReleaseStep ==
    ASSUME LockIInv, NEW p \in LockProcs, LockRelease(p)
    PROVE  LockIInv'
  <1> DEFINE start == locked \ lock_batch[p]
             W     == Woken(start)
             T     == TakenFrom(start)
             n     == Len(wait_list)
             B     == UNION {lock_batch[q] : q \in W}
  <1>0. /\ LockTypeOK /\ Exclusion /\ NoLostWakeup /\ lock_pc[p] = "running"
        /\ locked' = start \cup B /\ wait_list' = Left(W)
        /\ lock_pc' = [q \in LockProcs |-> CASE q = p -> "idle" [] q \in W -> "running"
                                            [] OTHER -> lock_pc[q]]
        /\ lock_batch' = [lock_batch EXCEPT ![p] = {}]
    BY DEF LockIInv, LockRelease
  <1>1. start \in SUBSET LockKeys /\ n \in Nat /\ p \in LockRunning
    BY <1>0 DEF LockTypeOK, LockRunning
  <1>2. W \subseteq LockWaiting /\ p \notin W
    <2>1. W \subseteq ToSet(wait_list)
      <3>1. DOMAIN wait_list = 1..n
        BY <1>0 DEF LockTypeOK
      <3> QED  BY <3>1 DEF Woken, ToSet
    <2> HIDE DEF W
    <2> QED  BY <1>0, <2>1 DEF LockTypeOK, LockWaiting
  <1>3. \A q \in W : \E i \in 1..n : /\ wait_list[i] = q /\ lock_batch[q] \cap T[i - 1] = {}
                                     /\ lock_batch[q] \subseteq T[i] /\ start \subseteq T[i - 1]
    <2>1. ASSUME NEW q \in W
          PROVE  \E i \in 1..n : /\ wait_list[i] = q /\ lock_batch[q] \cap T[i - 1] = {}
                                 /\ lock_batch[q] \subseteq T[i] /\ start \subseteq T[i - 1]
      <3>1. PICK i \in 1..n : wait_list[i] = q /\ CanLock(lock_batch[q], T[i - 1])
        BY DEF Woken
      <3>2. T[i] = T[i - 1] \cup lock_batch[q]
        BY <1>0, <1>1, <3>1, TakenIs DEF Waiters, Asked
      <3>3. T[0] \subseteq T[i - 1] /\ T[0] = start
        <4>1. 0 \in 0..n /\ i - 1 \in 0..n /\ 0 <= i - 1
          BY <1>1
        <4> QED  BY <1>0, <1>1, <4>1, TakenGrows, TakenIs
      <3> QED  BY <3>1, <3>2, <3>3 DEF CanLock
    <2> QED  BY <2>1
  <1>4. \A q, r \in W : q # r => lock_batch[q] \cap lock_batch[r] = {}
    <2>1. ASSUME NEW i \in 1..n, NEW j \in 1..n, i < j PROVE T[i] \subseteq T[j - 1]
      <3>1. i \in 0..n /\ j - 1 \in 0..n /\ i <= j - 1
        BY <1>1, <2>1
      <3> QED  BY <1>0, <1>1, <3>1, TakenGrows
    <2> SUFFICES ASSUME NEW q \in W, NEW r \in W, q # r
                 PROVE  lock_batch[q] \cap lock_batch[r] = {}
      OBVIOUS
    <2>2. PICK i \in 1..n : /\ wait_list[i] = q /\ lock_batch[q] \cap T[i - 1] = {}
                            /\ lock_batch[q] \subseteq T[i]
      BY <1>3
    <2>3. PICK j \in 1..n : /\ wait_list[j] = r /\ lock_batch[r] \cap T[j - 1] = {}
                            /\ lock_batch[r] \subseteq T[j]
      BY <1>3
    <2>4. i < j \/ j < i
      BY <2>2, <2>3
    <2> HIDE DEF T, W
    <2> QED  BY <2>1, <2>2, <2>3, <2>4
  <1>5. \A q \in W : lock_batch[q] \cap start = {}
    <2> HIDE DEF W, T, start
    <2> QED  BY <1>3
  <1>6. \A q \in LockWaiting \ W : lock_batch[q] \cap (start \cup B) # {}
    <2> SUFFICES ASSUME NEW q \in LockWaiting \ W PROVE lock_batch[q] \cap (start \cup B) # {}
      OBVIOUS
    <2>1. PICK i \in 1..n : wait_list[i] = q
      BY <1>0 DEF LockTypeOK, ToSet
    <2>2. lock_batch[q] \cap T[i - 1] # {}
      BY <2>1 DEF Woken, CanLock
    <2>3. T[i - 1] \subseteq start \cup B
      <3>1. i - 1 \in 0..n
        BY <1>1
      <3> QED  BY <1>0, <1>1, <3>1, TakenByWoken
    <2> QED  BY <2>2, <2>3
  <1> HIDE DEF T, W
  <1>7. LockRunning' = (LockRunning \ {p}) \cup W /\ LockWaiting' = LockWaiting \ W
    BY <1>0, <1>2 DEF LockRunning, LockWaiting
  <1>8. \A q \in LockProcs \ {p} : lock_batch'[q] = lock_batch[q]
    BY <1>0 DEF LockTypeOK
  <1>9. start = UNION {lock_batch[q] : q \in LockRunning \ {p}}
    <2>1. locked = UNION {lock_batch[q] : q \in LockRunning}
      BY <1>0 DEF LockTypeOK
    <2> QED  BY <1>0, <1>1, <2>1 DEF Exclusion
  <1>10. LockTypeOK'
    <2>1. locked' = UNION {lock_batch'[q] : q \in LockRunning'}
      <3>1. \A q \in (LockRunning \ {p}) \cup W : lock_batch'[q] = lock_batch[q]
        BY <1>2, <1>8 DEF LockRunning, LockWaiting
      <3> QED  BY <1>0, <1>7, <1>9, <3>1
    <2>2. /\ wait_list' \in Seq(LockProcs) /\ IsInjective(wait_list')
          /\ ToSet(wait_list') = LockWaiting'
      <3>1. ToSet(wait_list) = LockWaiting
        BY <1>0 DEF LockTypeOK
      <3> QED  BY <1>0, <1>7, <3>1, LeftIs
    <2>3. /\ lock_pc' \in [LockProcs -> {"idle", "waiting", "running"}]
          /\ lock_batch' \in [LockProcs -> SUBSET LockKeys]
      BY <1>0 DEF LockTypeOK
    <2> QED  BY <2>1, <2>2, <2>3 DEF LockTypeOK
  <1>11. Exclusion'
    <2>1. \A q \in LockRunning \ {p} : lock_batch'[q] = lock_batch[q] /\ lock_batch[q] \subseteq start
      BY <1>8, <1>9 DEF LockRunning
    <2>2. \A q \in W : lock_batch'[q] = lock_batch[q]
      BY <1>2, <1>8 DEF LockWaiting
    <2> HIDE DEF start
    <2> QED  BY <1>0, <1>4, <1>5, <1>7, <2>1, <2>2 DEF Exclusion
  <1>12. NoLostWakeup'
    <2>1. \A q \in LockWaiting : lock_batch'[q] = lock_batch[q]
      BY <1>0, <1>8 DEF LockWaiting
    <2> QED  BY <1>0, <1>6, <1>7, <2>1 DEF NoLostWakeup
  <1> QED  BY <1>10, <1>11, <1>12 DEF LockIInv

LEMMA LockInvariance == LockSpec => []LockIInv
  <1>1. LockInit => LockIInv
    BY DEF LockInit, LockIInv, LockTypeOK, Exclusion, NoLostWakeup, LockRunning, LockWaiting,
           IsInjective, ToSet
  <1>2. LockIInv /\ [LockNext]_lockVars => LockIInv'
    <2> SUFFICES ASSUME LockIInv, [LockNext]_lockVars PROVE LockIInv'
      OBVIOUS
    <2>1. CASE UNCHANGED lockVars
      BY <2>1 DEF lockVars, LockIInv, LockTypeOK, Exclusion, NoLostWakeup, LockRunning, LockWaiting
    <2> QED  BY <2>1, SurroundStep, ReleaseStep DEF LockNext
  <1> QED  BY <1>1, <1>2, PTL DEF LockSpec

\* The list holds exactly who waits, the map exactly the keys of who runs.
THEOREM LockTypeCorrect == LockSpec => []LockTypeOK
  <1>1. LockIInv => LockTypeOK
    BY DEF LockIInv
  <1> QED  BY LockInvariance, <1>1, PTL

\* surround_keys: functions with a common key never run at the same time, whatever the
\* order in which the loop of _wakeup_waiters locks.
THEOREM MutualExclusion == LockSpec => []Exclusion
  <1>1. LockIInv => Exclusion
    BY DEF LockIInv
  <1> QED  BY LockInvariance, <1>1, PTL

\* Whoever _wakeup_waiters passes over waits for a key that is locked now.
THEOREM WakeupsKept == LockSpec => []NoLostWakeup
  <1>1. LockIInv => NoLostWakeup
    BY DEF LockIInv
  <1> QED  BY LockInvariance, <1>1, PTL
=============================================================================
