----------------------------- MODULE FoldLemmas -----------------------------
(* What the proofs need of recursive functions: induction stated with sets *)
(* (a property is the set of what has it), recursion over 0..n, and what   *)
(* the sum of a function over a finite set is.                             *)
EXTENDS Integers, FiniteSets, Functions, SequencesExt, FiniteSetTheorems, WellFoundedInduction, TLAPS

-----------------------------------------------------------------------------
(* Induction.                                                              *)

\* A set of numbers has a smallest one.
LEMMA NatMin ==
    ASSUME NEW S, S \subseteq Nat, S # {}
    PROVE  \E x \in S : \A y \in S : x <= y
  <1> DEFINE Less == {s \in Nat \X Nat : s[1] < s[2]}
  <1>1. IsWellFoundedOn(Less, Nat)
    BY NatLessThanWellFounded DEF OpToRel
  <1>2. PICK x \in S : \A y \in S : ~(<<y, x>> \in Less)
    <2> HIDE DEF Less
    <2> QED  BY <1>1, WFMin
  <1>3. ASSUME NEW y \in S PROVE x <= y
    <2>1. <<y, x>> \in Nat \X Nat /\ <<y, x>>[1] = y /\ <<y, x>>[2] = x
      OBVIOUS
    <2> QED  BY <1>2, <2>1
  <1> QED  BY <1>3

\* A set of numbers up to a bound has a greatest one.
LEMMA Greatest ==
    ASSUME NEW n \in Nat, NEW S, S \subseteq 1..n, S # {}
    PROVE  \E m \in S : \A x \in S : x <= m
  <1> DEFINE T == {n - x : x \in S}
  <1>1. T \subseteq Nat /\ T # {}
    <2>1. \A x \in S : n - x \in Nat
      OBVIOUS
    <2> QED  BY <2>1
  <1>2. PICK t \in T : \A u \in T : t <= u
    <2> HIDE DEF T
    <2> QED  BY <1>1, NatMin
  <1>3. PICK m \in S : t = n - m
    OBVIOUS
  <1>4. ASSUME NEW x \in S PROVE x <= m
    <2>1. n - x \in T
      OBVIOUS
    <2>2. n - m <= n - x /\ x \in Nat /\ m \in Nat
      BY <1>2, <1>3, <2>1
    <2> QED  BY <2>2
  <1> QED  BY <1>4

\* What holds of 0, and of i + 1 if of i, holds of every number.
LEMMA NatSet ==
    ASSUME NEW T, 0 \in T, \A i \in Nat : i \in T => i + 1 \in T
    PROVE  Nat \subseteq T
  <1> SUFFICES ASSUME Nat \ T # {} PROVE FALSE
    OBVIOUS
  <1>1. PICK x \in Nat \ T : \A y \in Nat \ T : x <= y
    BY NatMin
  <1>2. x - 1 \in Nat /\ x - 1 \in T
    BY <1>1
  <1> QED  BY <1>1, <1>2

\* The same up to a bound.
LEMMA IntervalSet ==
    ASSUME NEW n \in Nat, NEW T, 0 \in T, \A i \in 1..n : i - 1 \in T => i \in T
    PROVE  0..n \subseteq T
  <1> DEFINE U == T \cup {i \in Nat : i > n}
  <1>1. 0 \in U
    OBVIOUS
  <1>2. ASSUME NEW i \in Nat, i \in U PROVE i + 1 \in U
    <2>1. CASE i + 1 > n
      BY <2>1
    <2>2. CASE i + 1 <= n
      <3>1. i \in T /\ i + 1 \in 1..n /\ (i + 1) - 1 = i
        BY <1>2, <2>2
      <3> QED  BY <3>1
    <2> QED  BY <2>1, <2>2
  <1>3. Nat \subseteq U
    <2> HIDE DEF U
    <2> QED  BY <1>1, <1>2, NatSet
  <1> QED  BY <1>3

\* Of some subsets of a finite set, one has no other of them as a part.
LEMMA SubsetMin ==
    ASSUME NEW S, IsFiniteSet(S), NEW T, T \subseteq SUBSET S, T # {}
    PROVE  \E A \in T : \A B \in T : B \subseteq A => B = A
  <1> DEFINE N == {Cardinality(A) : A \in T}
  <1>1. \A A \in T : IsFiniteSet(A) /\ Cardinality(A) \in Nat
    BY FS_Subset, FS_CardinalityType
  <1>2. N \subseteq Nat /\ N # {}
    BY <1>1
  <1>3. PICK n \in N : \A m \in N : n <= m
    BY <1>2, NatMin
  <1>4. PICK A \in T : n = Cardinality(A)
    BY <1>3
  <1>5. ASSUME NEW B \in T, B \subseteq A PROVE B = A
    <2>1. Cardinality(A) <= Cardinality(B) /\ Cardinality(B) <= Cardinality(A)
      BY <1>1, <1>3, <1>4, <1>5, FS_Subset
    <2>2. Cardinality(B) = Cardinality(A)
      BY <1>1, <2>1
    <2> QED  BY <1>1, <1>5, <2>2, FS_Subset
  <1> QED  BY <1>5

\* What holds of the empty set, and of a subset of S with one element more, holds of S.
LEMMA FiniteSet ==
    ASSUME NEW S, IsFiniteSet(S), NEW T, {} \in T,
           \A A \in SUBSET S : \A x \in S \ A : A \in T => A \cup {x} \in T
    PROVE  S \in T
  <1> DEFINE Bad == {A \in SUBSET S : A \notin T}
  <1> SUFFICES ASSUME Bad # {} PROVE FALSE
    OBVIOUS
  <1>1. PICK A \in Bad : \A B \in Bad : B \subseteq A => B = A
    <2>1. Bad \subseteq SUBSET S
      OBVIOUS
    <2> HIDE DEF Bad
    <2> QED  BY <2>1, SubsetMin
  <1>2. PICK x : x \in A
    BY <1>1
  <1>3. A \ {x} \notin Bad /\ A \ {x} \in SUBSET S
    BY <1>1, <1>2
  <1>4. A = (A \ {x}) \cup {x} /\ x \in S \ (A \ {x})
    BY <1>1, <1>2
  <1> QED  BY <1>1, <1>3, <1>4

-----------------------------------------------------------------------------
(* Recursion over 0..n, its step given as a function.                      *)

Unfolds(f, n, x, step) == f[0] = x /\ \A i \in 1..n : f[i] = step[<<i, f[i - 1]>>]

\* The function exists.
LEMMA Recursion ==
    ASSUME NEW n \in Nat, NEW S, NEW x \in S, NEW step \in [(1..n) \X S -> S]
    PROVE  \E f : f \in [0..n -> S] /\ Unfolds(f, n, x, step)
  <1> DEFINE Ok(m, f) == f[0] = x /\ \A i \in 1..m : f[i] = step[<<i, f[i - 1]>>]
             T == {m \in 0..n : \E f \in [0..m -> S] : Ok(m, f)}
  <1>1. 0 \in T
    <2> DEFINE f == [i \in 0..0 |-> x]
    <2>1. f \in [0..0 -> S] /\ f[0] = x /\ 1..0 = {}
      OBVIOUS
    <2> HIDE DEF f
    <2>2. Ok(0, f)
      BY <2>1
    <2> QED  BY <2>1, <2>2
  <1>2. ASSUME NEW m \in 1..n, m - 1 \in T PROVE m \in T
    <2>1. PICK f \in [0..(m - 1) -> S] : Ok(m - 1, f)
      BY <1>2
    <2> DEFINE g == [i \in 0..m |-> IF i = m THEN step[<<m, f[m - 1]>>] ELSE f[i]]
    <2>2. m - 1 \in 0..(m - 1) /\ 0 \in 0..(m - 1) /\ m # 0
      OBVIOUS
    <2>3. f[m - 1] \in S
      BY <2>1, <2>2
    <2>4. step[<<m, f[m - 1]>>] \in S
      BY <2>3
    <2>5. g \in [0..m -> S]
      BY <2>1, <2>4
    <2>6. \A i \in 0..(m - 1) : g[i] = f[i]
      OBVIOUS
    <2>7. g[m] = step[<<m, g[m - 1]>>]
      BY <2>2, <2>6
    <2>8. ASSUME NEW i \in 1..(m - 1) PROVE g[i] = step[<<i, g[i - 1]>>]
      <3>1. i \in 0..(m - 1) /\ i - 1 \in 0..(m - 1)
        OBVIOUS
      <3>2. g[i] = f[i] /\ g[i - 1] = f[i - 1]
        BY <2>6, <3>1
      <3> QED  BY <2>1, <3>2
    <2>9. g[0] = x
      BY <2>1, <2>2, <2>6
    <2> HIDE DEF g
    <2>10. Ok(m, g)
      <3>1. \A i \in 1..m : i = m \/ i \in 1..(m - 1)
        OBVIOUS
      <3> QED  BY <2>7, <2>8, <2>9, <3>1
    <2> QED  BY <2>5, <2>10
  <1>3. 0..n \subseteq T
    <2> HIDE DEF T
    <2> QED  BY <1>1, <1>2, IntervalSet
  <1>4. n \in T
    BY <1>3
  <1> QED  BY <1>4 DEF Unfolds
-----------------------------------------------------------------------------
(* Lists without repetitions.                                              *)

\* A sequence without repetitions that gets one more element.
LEMMA AppendKeeps ==
    ASSUME NEW S, NEW s \in Seq(S), NEW x \in S, IsInjective(s), x \notin ToSet(s)
    PROVE  /\ Append(s, x) \in Seq(S) /\ IsInjective(Append(s, x))
           /\ ToSet(Append(s, x)) = ToSet(s) \cup {x}
  <1>1. /\ Append(s, x) \in Seq(S) /\ Len(Append(s, x)) = Len(s) + 1 /\ Len(s) \in Nat
        /\ Append(s, x)[Len(s) + 1] = x /\ \A i \in 1..Len(s) : Append(s, x)[i] = s[i]
    OBVIOUS
  <1>2. IsInjective(Append(s, x))
    BY <1>1 DEF IsInjective, ToSet
  <1>3. ToSet(Append(s, x)) = ToSet(s) \cup {x}
    BY <1>1 DEF ToSet
  <1> QED  BY <1>1, <1>2, <1>3

\* What is left of a list, gone through from the front, without the elements of W.
KeptOf(list, W) ==
    LET kept[i \in 0..Len(list)] ==
            IF i = 0 THEN <<>>
            ELSE IF list[i] \in W THEN kept[i - 1] ELSE Append(kept[i - 1], list[i])
    IN  kept[Len(list)]

\* It loses those elements and no other.
LEMMA KeptIs ==
    ASSUME NEW A, NEW list \in Seq(A), IsInjective(list), NEW W
    PROVE  /\ KeptOf(list, W) \in Seq(A) /\ IsInjective(KeptOf(list, W))
           /\ ToSet(KeptOf(list, W)) = ToSet(list) \ W
  <1> DEFINE n     == Len(list)
             S     == Seq(A)
             Eq(f) == f = [i \in 0..n |->
                             IF i = 0 THEN <<>>
                             ELSE IF list[i] \in W THEN f[i - 1]
                                  ELSE Append(f[i - 1], list[i])]
             step  == [x \in (1..n) \X S |-> IF list[x[1]] \in W THEN x[2]
                                             ELSE Append(x[2], list[x[1]])]
             T     == CHOOSE f : Eq(f)
  <1>1. n \in Nat /\ \A i \in 1..n : list[i] \in A
    OBVIOUS
  <1>2. step \in [(1..n) \X S -> S]
    BY <1>1
  <1>3. PICK f : f \in [0..n -> S] /\ Unfolds(f, n, <<>>, step)
    <2>1. <<>> \in S
      OBVIOUS
    <2> HIDE DEF step, n, S
    <2> QED  BY <1>1, <1>2, <2>1, Recursion
  <1>4. Eq(f)
    <2>1. \A i \in 0..n : i = 0 \/ (i \in 1..n /\ i - 1 \in 0..n)
      BY <1>1
    <2>2. \A i \in 0..n : f[i] = IF i = 0 THEN <<>>
                                 ELSE IF list[i] \in W THEN f[i - 1]
                                      ELSE Append(f[i - 1], list[i])
      <3>1. \A i \in 1..n : f[i - 1] \in S
        BY <1>3, <2>1
      <3> QED  BY <1>3, <2>1, <3>1 DEF Unfolds
    <2> QED  BY <1>3, <2>2
  <1>5. Eq(T) /\ KeptOf(list, W) = T[n]
    <2>1. KeptOf(list, W) = T[n]
      BY DEF KeptOf
    <2> HIDE DEF Eq
    <2> QED  BY <1>4, <2>1
  <1> HIDE DEF T
  <1>6. T[0] = <<>> /\ \A i \in 1..n : T[i] = IF list[i] \in W THEN T[i - 1]
                                            ELSE Append(T[i - 1], list[i])
    <2>1. n \in Nat
      BY <1>1
    <2> HIDE DEF n
    <2>2. (\A i \in 1..n : i \in 0..n /\ i # 0) /\ 0 \in 0..n
      BY <2>1
    <2> QED  BY <1>5, <2>2
  <1> DEFINE Good(k) == /\ T[k] \in S /\ IsInjective(T[k])
                        /\ ToSet(T[k]) = {list[i] : i \in 1..k} \ W
             U == {k \in 0..n : Good(k)}
  <1>7. 0 \in U
    <2>1. <<>> \in S /\ DOMAIN <<>> = {} /\ 1..0 = {}
      OBVIOUS
    <2>2. IsInjective(<<>>) /\ ToSet(<<>>) = {}
      BY <2>1 DEF ToSet, IsInjective
    <2>3. {list[i] : i \in 1..0} \ W = {}
      BY <2>1
    <2>4. Good(0)
      BY <1>6, <2>1, <2>2, <2>3
    <2> HIDE DEF Good
    <2> QED  BY <1>1, <2>4
  <1>8. ASSUME NEW k \in 1..n, k - 1 \in U PROVE k \in U
    <2>1. {list[i] : i \in 1..k} = {list[i] : i \in 1..(k - 1)} \cup {list[k]}
      <3>1. \A i \in 1..k : i \in 1..(k - 1) \/ i = k
        OBVIOUS
      <3>2. k \in 1..k /\ \A i \in 1..(k - 1) : i \in 1..k
        OBVIOUS
      <3> QED  BY <3>1, <3>2
    <2>2. CASE list[k] \in W
      <3>1. T[k] = T[k - 1]
        BY <1>6, <2>2
      <3> QED  BY <1>8, <2>1, <2>2, <3>1
    <2>3. CASE list[k] \notin W
      <3> DEFINE s == T[k - 1]
                 x == list[k]
      <3>1. T[k] = Append(s, x)
        BY <1>6, <2>3
      <3>2. s \in S /\ IsInjective(s) /\ ToSet(s) = {list[i] : i \in 1..(k - 1)} \ W
        BY <1>8
      <3>3. x \in A /\ \A i \in 1..(k - 1) : list[i] # x
        BY <1>1 DEF IsInjective
      <3>4. x \notin ToSet(s)
        BY <3>2, <3>3
      <3> HIDE DEF s, x
      <3>5. /\ Append(s, x) \in S /\ IsInjective(Append(s, x))
            /\ ToSet(Append(s, x)) = ToSet(s) \cup {x}
        BY <3>2, <3>3, <3>4, AppendKeeps
      <3>8. ToSet(Append(s, x)) = {list[i] : i \in 1..k} \ W
        BY <2>1, <2>3, <3>2, <3>5 DEF x
      <3>9. Good(k)
        BY <3>1, <3>5, <3>8
      <3> HIDE DEF Good
      <3> QED  BY <1>1, <3>9
    <2> QED  BY <2>2, <2>3
  <1>9. 0..n \subseteq U
    <2> HIDE DEF U, n
    <2> QED  BY <1>1, <1>7, <1>8, IntervalSet
  <1>10. Good(n) /\ ToSet(list) = {list[i] : i \in 1..n}
    <2>1. n \in 0..n /\ DOMAIN list = 1..n
      BY <1>1
    <2>2. n \in U
      BY <1>9, <2>1
    <2> QED  BY <2>1, <2>2 DEF ToSet
  <1> QED  BY <1>5, <1>10

-----------------------------------------------------------------------------
(* Sums: SumFunctionOnSet(f, S) for a finite S.                            *)

AnElement(s) == CHOOSE x \in s : TRUE

\* g[s] is the sum of f over s, for every s that is part of S
Sums(g, f, S) ==
    /\ g \in [SUBSET S -> Int]
    /\ \A s \in SUBSET S : g[s] = IF s = {} THEN 0 ELSE f[AnElement(s)] + g[s \ {AnElement(s)}]

\* The equation that defines a sum over S has a solution.
LEMMA SumExists ==
    ASSUME NEW S, IsFiniteSet(S), NEW f, \A x \in S : f[x] \in Int
    PROVE  \E g : Sums(g, f, S)
  <1> DEFINE D(n) == {s \in SUBSET S : Cardinality(s) <= n}
             Ok(n, g) == \A s \in D(n) : g[s] = IF s = {} THEN 0 ELSE f[AnElement(s)] + g[s \ {AnElement(s)}]
             T == {n \in Nat : \E g \in [D(n) -> Int] : Ok(n, g)}
  <1>0. \A s \in SUBSET S : IsFiniteSet(s) /\ Cardinality(s) \in Nat
    BY FS_Subset, FS_CardinalityType
  <1>1. \A s \in SUBSET S : s # {} => /\ AnElement(s) \in s
                                      /\ s \ {AnElement(s)} \in SUBSET S
                                      /\ Cardinality(s \ {AnElement(s)}) = Cardinality(s) - 1
    <2>1. \A s : s # {} => AnElement(s) \in s
      BY DEF AnElement
    <2> QED  BY <1>0, <2>1, FS_RemoveElement
  <1>2. 0 \in T
    <2> DEFINE g == [s \in D(0) |-> 0]
    <2>1. \A s \in D(0) : s = {}
      BY <1>0, FS_EmptySet
    <2>2. g \in [D(0) -> Int] /\ Ok(0, g)
      BY <2>1
    <2> QED  BY <2>2
  <1>3. ASSUME NEW n \in Nat, n \in T PROVE n + 1 \in T
    <2>1. PICK g \in [D(n) -> Int] : Ok(n, g)
      BY <1>3
    <2> DEFINE h == [s \in D(n + 1) |-> IF s = {} THEN 0 ELSE f[AnElement(s)] + g[s \ {AnElement(s)}]]
    <2>2. \A s \in D(n + 1) : s # {} => s \ {AnElement(s)} \in D(n)
      BY <1>0, <1>1
    <2>3. h \in [D(n + 1) -> Int]
      <3>1. ASSUME NEW s \in D(n + 1), s # {} PROVE f[AnElement(s)] + g[s \ {AnElement(s)}] \in Int
        BY <1>1, <2>1, <2>2, <3>1
      <3> QED  BY <3>1
    <2>4. \A s \in D(n) : s \in D(n + 1) /\ h[s] = g[s]
      BY <1>0, <2>1
    <2>5. \A s \in D(n + 1) : h[s] = IF s = {} THEN 0 ELSE f[AnElement(s)] + h[s \ {AnElement(s)}]
      <3> HIDE DEF D
      <3> QED  BY <2>2, <2>4
    <2>6. Ok(n + 1, h)
      BY <2>5
    <2> HIDE DEF h, D, Ok
    <2> QED  BY <2>3, <2>6
  <1>4. Nat \subseteq T
    <2> HIDE DEF T
    <2> QED  BY <1>2, <1>3, NatSet
  <1>5. D(Cardinality(S)) = SUBSET S
    BY FS_Subset
  <1>6. PICK g \in [D(Cardinality(S)) -> Int] : Ok(Cardinality(S), g)
    BY <1>0, <1>4
  <1> QED  BY <1>5, <1>6 DEF Sums

\* So a sum over S is the value that its equation gives to S.
LEMMA SumOf ==
    ASSUME NEW S, IsFiniteSet(S), NEW f, \A x \in S : f[x] \in Int
    PROVE  \E g : Sums(g, f, S) /\ SumFunctionOnSet(f, S) = g[S]
  <1> DEFINE Eq(g) == g = [s \in SUBSET S |-> IF s = {} THEN 0 ELSE f[AnElement(s)] + g[s \ {AnElement(s)}]]
             iter  == CHOOSE g : Eq(g)
  <1>0. PICK g : Sums(g, f, S)
    BY SumExists
  <1>1. /\ g \in [SUBSET S -> Int]
        /\ \A s \in SUBSET S : g[s] = IF s = {} THEN 0 ELSE f[AnElement(s)] + g[s \ {AnElement(s)}]
    BY <1>0 DEF Sums
  <1>2. Eq(g)
    BY <1>1
  <1>3. Eq(iter)
    <2> HIDE DEF Eq
    <2> QED  BY <1>2
  <1>4. SumFunctionOnSet(f, S) = iter[S]
    BY DEF SumFunctionOnSet, FoldFunctionOnSet, MapThenFoldSet, AnElement
  <1>5. \A s \in SUBSET S : iter[s] = IF s = {} THEN 0 ELSE f[AnElement(s)] + iter[s \ {AnElement(s)}]
    <2> HIDE DEF iter
    <2> QED  BY <1>3
  <1>6. \A s \in SUBSET S : iter[s] = g[s]
    <2> DEFINE Bad == {s \in SUBSET S : iter[s] # g[s]}
    <2> HIDE DEF iter
    <2> SUFFICES ASSUME Bad # {} PROVE FALSE
      OBVIOUS
    <2>1. PICK A \in Bad : \A B \in Bad : B \subseteq A => B = A
      <3>1. Bad \subseteq SUBSET S
        OBVIOUS
      <3> HIDE DEF Bad
      <3> QED  BY <3>1, SubsetMin
    <2>2. A # {}
      BY <1>1, <1>5, <2>1
    <2>3. AnElement(A) \in A /\ A \in SUBSET S
      BY <2>1, <2>2 DEF AnElement
    <2>4. A \ {AnElement(A)} \in SUBSET S /\ iter[A \ {AnElement(A)}] = g[A \ {AnElement(A)}]
      BY <2>1, <2>3
    <2> QED  BY <1>1, <1>5, <2>1, <2>2, <2>4
  <1> HIDE DEF iter
  <1> QED  BY <1>0, <1>4, <1>6

\* Functions that agree have the same sums.
LEMMA SumsAgree ==
    ASSUME NEW S, IsFiniteSet(S), NEW R \in SUBSET S, NEW f, NEW g, NEW F, NEW G,
           Sums(F, f, S), Sums(G, g, R), \A x \in R : g[x] = f[x]
    PROVE  \A A \in SUBSET R : F[A] = G[A]
  <1> DEFINE Bad == {s \in SUBSET R : F[s] # G[s]}
  <1> SUFFICES ASSUME Bad # {} PROVE FALSE
    OBVIOUS
  <1>0. IsFiniteSet(R)
    BY FS_Subset
  <1>1. PICK A \in Bad : \A B \in Bad : B \subseteq A => B = A
    <2>1. Bad \subseteq SUBSET R
      OBVIOUS
    <2> HIDE DEF Bad
    <2> QED  BY <1>0, <2>1, SubsetMin
  <1>2. A \in SUBSET S /\ A \in SUBSET R /\ A # {}
    BY <1>1 DEF Sums
  <1>3. AnElement(A) \in A
    BY <1>2 DEF AnElement
  <1>4. A \ {AnElement(A)} \in SUBSET R /\ F[A \ {AnElement(A)}] = G[A \ {AnElement(A)}]
    BY <1>1, <1>3
  <1> QED  BY <1>1, <1>2, <1>3, <1>4 DEF Sums

\* The sum over nothing, ...
LEMMA SumEmpty == \A f : SumFunctionOnSet(f, {}) = 0
  <1> TAKE f
  <1>1. PICK g : Sums(g, f, {}) /\ SumFunctionOnSet(f, {}) = g[{}]
    BY FS_EmptySet, SumOf
  <1> QED  BY <1>1 DEF Sums

\* ... of functions that agree, ...
LEMMA SumSame ==
    ASSUME NEW S, IsFiniteSet(S), NEW f, NEW g, \A x \in S : f[x] \in Int /\ g[x] = f[x]
    PROVE  SumFunctionOnSet(g, S) = SumFunctionOnSet(f, S)
  <1>1. PICK F : Sums(F, f, S) /\ SumFunctionOnSet(f, S) = F[S]
    BY SumOf
  <1>2. PICK G : Sums(G, g, S) /\ SumFunctionOnSet(g, S) = G[S]
    BY SumOf
  <1>3. \A A \in SUBSET S : F[A] = G[A]
    BY <1>1, <1>2, SumsAgree
  <1> QED  BY <1>1, <1>2, <1>3

\* ... of integers, ...
LEMMA SumInt ==
    ASSUME NEW S, IsFiniteSet(S), NEW f, \A x \in S : f[x] \in Int
    PROVE  SumFunctionOnSet(f, S) \in Int
  <1>1. PICK F : Sums(F, f, S) /\ SumFunctionOnSet(f, S) = F[S]
    BY SumOf
  <1> QED  BY <1>1 DEF Sums

\* ... and over a set, element by element, whichever is taken first.
LEMMA SumPick ==
    ASSUME NEW S, IsFiniteSet(S), NEW f, \A x \in S : f[x] \in Int, NEW a \in S
    PROVE  /\ SumFunctionOnSet(f, S) \in Int
           /\ SumFunctionOnSet(f, S) = f[a] + SumFunctionOnSet(f, S \ {a})
  <1>1. PICK F : Sums(F, f, S) /\ SumFunctionOnSet(f, S) = F[S]
    BY SumOf
  <1>2. IsFiniteSet(S \ {a})
    BY FS_Subset
  <1>3. PICK G : Sums(G, f, S \ {a}) /\ SumFunctionOnSet(f, S \ {a}) = G[S \ {a}]
    BY <1>2, SumOf
  <1>4. F[S \ {a}] = G[S \ {a}]
    BY <1>1, <1>2, <1>3, SumsAgree
  <1> DEFINE Bad == {A \in SUBSET S : \E x \in A : F[A] # f[x] + F[A \ {x}]}
  <1>5. ASSUME Bad # {} PROVE FALSE
    <2>1. PICK A \in Bad : \A B \in Bad : B \subseteq A => B = A
      <3>1. Bad \subseteq SUBSET S
        OBVIOUS
      <3> HIDE DEF Bad
      <3> QED  BY <1>5, <3>1, SubsetMin
    <2>2. PICK x \in A : F[A] # f[x] + F[A \ {x}]
      BY <2>1
    <2> DEFINE c == AnElement(A)
    <2>3. A \in SUBSET S /\ c \in A
      BY <2>1, <2>2 DEF AnElement
    <2>4. F[A] = f[c] + F[A \ {c}] /\ c # x
      BY <1>1, <2>2, <2>3 DEF Sums
    <2> HIDE DEF c
    <2> DEFINE R == A \ {c, x}
    <2>5. /\ A \ {c} \in SUBSET S /\ A \ {c} \notin Bad /\ x \in A \ {c} /\ (A \ {c}) \ {x} = R
          /\ A \ {x} \in SUBSET S /\ A \ {x} \notin Bad /\ c \in A \ {x} /\ (A \ {x}) \ {c} = R
      BY <2>1, <2>2, <2>3, <2>4
    <2>6. F[A \ {c}] = f[x] + F[R] /\ F[A \ {x}] = f[c] + F[R]
      <3> HIDE DEF R
      <3> QED  BY <2>5
    <2>7. F[R] \in Int /\ f[x] \in Int /\ f[c] \in Int
      BY <1>1, <2>2, <2>3 DEF Sums
    <2> HIDE DEF R
    <2> QED  BY <2>2, <2>4, <2>6, <2>7
  <1>6. F[S] = f[a] + F[S \ {a}]
    BY <1>5
  <1> QED  BY <1>1, <1>3, <1>4, <1>6 DEF Sums

\* The sum over a set and one more element.
LEMMA SumAdd ==
    ASSUME NEW S, IsFiniteSet(S), NEW f, NEW a, a \notin S, \A x \in S \cup {a} : f[x] \in Int
    PROVE  SumFunctionOnSet(f, S \cup {a}) = f[a] + SumFunctionOnSet(f, S)
  <1>1. IsFiniteSet(S \cup {a}) /\ (S \cup {a}) \ {a} = S
    BY FS_AddElement
  <1> QED  BY <1>1, SumPick

\* A sum of natural numbers.
LEMMA SumNat ==
    ASSUME NEW S, IsFiniteSet(S), NEW f, \A x \in S : f[x] \in Nat
    PROVE  SumFunctionOnSet(f, S) \in Nat
  <1> DEFINE T == {A \in SUBSET S : SumFunctionOnSet(f, A) \in Nat}
  <1>1. \A A \in SUBSET S : IsFiniteSet(A)
    BY FS_Subset
  <1>2. {} \in T
    BY SumEmpty
  <1>3. ASSUME NEW A \in SUBSET S, NEW x \in S \ A, A \in T PROVE A \cup {x} \in T
    <2>1. IsFiniteSet(A) /\ x \notin A /\ \A y \in A \cup {x} : f[y] \in Int
      BY <1>1
    <2>2. SumFunctionOnSet(f, A \cup {x}) = f[x] + SumFunctionOnSet(f, A)
      BY <2>1, SumAdd
    <2> QED  BY <1>3, <2>2
  <1>4. S \in T
    <2> HIDE DEF T
    <2> QED  BY <1>2, <1>3, FiniteSet
  <1> QED  BY <1>4

\* The sum over two sets without a common element.
LEMMA SumUnion ==
    ASSUME NEW S, NEW R, IsFiniteSet(S), IsFiniteSet(R), S \cap R = {}, NEW f,
           \A x \in S \cup R : f[x] \in Int
    PROVE  SumFunctionOnSet(f, S \cup R) = SumFunctionOnSet(f, S) + SumFunctionOnSet(f, R)
  <1> DEFINE Sum(A) == SumFunctionOnSet(f, A)
             T == {A \in SUBSET R : Sum(S \cup A) = Sum(S) + Sum(A)}
  <1>1. \A A \in SUBSET R : IsFiniteSet(A) /\ IsFiniteSet(S \cup A)
    BY FS_Subset, FS_Union
  <1>2. Sum(S) \in Int /\ \A A \in SUBSET R : Sum(A) \in Int
    BY <1>1, SumInt
  <1>3. {} \in T
    BY <1>2, SumEmpty
  <1>4. ASSUME NEW A \in SUBSET R, NEW x \in R \ A, A \in T PROVE A \cup {x} \in T
    <2>1. Sum(A \cup {x}) = f[x] + Sum(A)
      BY <1>1, SumAdd
    <2>2. (S \cup A) \cup {x} = S \cup (A \cup {x}) /\ x \notin S \cup A
      OBVIOUS
    <2>3. Sum(S \cup (A \cup {x})) = f[x] + Sum(S \cup A)
      BY <1>1, <2>2, SumAdd
    <2>4. f[x] \in Int /\ Sum(S) \in Int /\ Sum(A) \in Int /\ Sum(S \cup A) = Sum(S) + Sum(A)
      BY <1>2, <1>4
    <2> HIDE DEF Sum
    <2> QED  BY <2>1, <2>3, <2>4
  <1>5. R \in T
    <2> HIDE DEF T
    <2> QED  BY <1>3, <1>4, FiniteSet
  <1> QED  BY <1>5
=============================================================================
