---------------------------- MODULE ListsAndSums ----------------------------
(***************************************************************************)
(* Induction in first-order form, lists and sums over finite sets: the     *)
(* lemmas that the proofs about several components share.                  *)
(***************************************************************************)
EXTENDS Lists, FiniteSetsExt, FiniteSetTheorems, SequenceTheorems, WellFoundedInduction, TLAPS

(* Concatenation is associative, for sequences over one set.               *)
Regroups(S) == \A s, t, u \in Seq(S) : (s \o t) \o u = s \o (t \o u)
LEMMA Regroup ==
    ASSUME NEW S
    PROVE  Regroups(S)
  BY ConcatAssociative DEF Regroups

(* Induction, over sets instead of operators: a set of natural numbers has *)
(* a least one ...                                                         *)
LEMMA LeastNat ==
    ASSUME NEW T \in SUBSET Nat, T # {}
    PROVE  \E n \in T : \A m \in T : n <= m
  <1> DEFINE R == {ss \in Nat \X Nat : ss[1] < ss[2]}
  <1>1. IsWellFoundedOn(R, Nat)
    BY NatLessThanWellFounded DEF OpToRel
  <1>2. PICK n \in T : \A m \in T : <<m, n>> \notin R
    <2> HIDE DEF R
    <2> QED  BY <1>1, WFMin
  <1>3. ASSUME NEW m \in T PROVE n <= m
    <2>1. <<m, n>> \notin R /\ m \in Nat /\ n \in Nat
      BY <1>2
    <2> QED  BY <2>1
  <1> QED  BY <1>3

(* ... so one that has 0 and every successor has them all.                 *)
LEMMA Upwards ==
    ASSUME NEW T \in SUBSET Nat, 0 \in T, \A n \in T : n + 1 \in T
    PROVE  T = Nat
  <1> SUFFICES ASSUME Nat \ T # {} PROVE FALSE
    OBVIOUS
  <1>1. PICK n \in Nat \ T : \A m \in Nat \ T : n <= m
    BY LeastNat, Nat \ T \in SUBSET Nat
  <1>2. n # 0 /\ n - 1 \in Nat /\ ~(n <= n - 1)
    BY <1>1
  <1>3. n - 1 \in T
    BY <1>1, <1>2
  <1> QED  BY <1>1, <1>3

(* Of the subsets of a finite set that have some defect, one loses it with *)
(* any of its elements.                                                    *)
LEMMA SmallestSet ==
    ASSUME NEW S, IsFiniteSet(S), NEW Bad \in SUBSET (SUBSET S), Bad # {}
    PROVE  \E s \in Bad : \A x \in s : s \ {x} \notin Bad
  <1>1. \A s \in SUBSET S : IsFiniteSet(s) /\ Cardinality(s) \in Nat
    BY FS_Subset, FS_CardinalityType
  <1> DEFINE T == {n \in Nat : \E s \in Bad : n = Cardinality(s)}
  <1>2. T # {} /\ T \in SUBSET Nat
    BY <1>1
  <1>3. PICK n \in T : \A m \in T : n <= m
    <2> HIDE DEF T
    <2> QED  BY <1>2, LeastNat
  <1>4. PICK s \in Bad : n = Cardinality(s)
    BY <1>3
  <1>5. ASSUME NEW x \in s, s \ {x} \in Bad PROVE FALSE
    <2>1. Cardinality(s \ {x}) = Cardinality(s) - 1
      BY <1>1, FS_RemoveElement
    <2>2. Cardinality(s \ {x}) \in T
      <3>1. Cardinality(s \ {x}) \in Nat
        BY <1>1, <1>5
      <3> QED  BY <1>5, <3>1
    <2>3. n <= Cardinality(s \ {x}) /\ Cardinality(s) \in Nat
      <3> HIDE DEF T
      <3> QED  BY <1>1, <1>3, <2>2
    <2> QED  BY <1>4, <2>1, <2>3
  <1> QED  BY <1>5

(* Bounded numbers have a greatest one.                                    *)
LEMMA MaxIn ==
    ASSUME NEW n \in Nat, NEW T \in SUBSET (1..n), T # {}
    PROVE  Max(T) \in T /\ \A m \in T : m <= Max(T)
  <1> DEFINE B == {b \in Nat : \A m \in T : m <= b}
  <1>1. B # {} /\ B \in SUBSET Nat
    <2>1. n \in B
      OBVIOUS
    <2> QED  BY <2>1
  <1>2. PICK b \in B : \A c \in B : b <= c
    <2> HIDE DEF B
    <2> QED  BY <1>1, LeastNat
  <1>3. b \in T
    <2> SUFFICES ASSUME b \notin T PROVE FALSE
      OBVIOUS
    <2>1. b \in Nat /\ (\A m \in T : m <= b /\ m \in Nat /\ m # b /\ m >= 1)
      BY <1>2
    <2>2. PICK x \in T : TRUE
      OBVIOUS
    <2>4. b - 1 \in Nat
      BY <2>1, <2>2
    <2>5. ASSUME NEW m \in T PROVE m <= b - 1
      BY <2>1
    <2>3. b - 1 \in B /\ ~(b <= b - 1)
      BY <2>1, <2>4, <2>5
    <2> HIDE DEF B
    <2> QED  BY <1>2, <2>3
  <1>4. \E x \in T : \A y \in T : x >= y
    BY <1>2, <1>3
  <1>5. Max(T) \in T /\ \A y \in T : Max(T) >= y
    BY <1>4 DEF Max
  <1> QED  BY <1>5

(* The last place is the greatest.                                         *)
LEMMA LastPlace ==
    ASSUME NEW n \in Nat
    PROVE  Max(1..n + 1) = n + 1 /\ (1..n + 1) \ {n + 1} = 1..n /\ 1..n + 1 # {}
  <1>1. n + 1 \in Nat /\ n + 1 \in 1..n + 1 /\ (1..n + 1) \ {n + 1} = 1..n
    OBVIOUS
  <1>2. Max(1..n + 1) \in 1..n + 1 /\ n + 1 <= Max(1..n + 1)
    BY <1>1, MaxIn
  <1> QED  BY <1>1, <1>2

-----------------------------------------------------------------------------
(* Lists that a loop builds by appending (Keep).                           *)

(* The loop that appends, as a function of how far it has come.            *)
KeptStep(txs, T, f, n) ==
    IF n = 0 THEN <<>> ELSE IF n \in T THEN Append(f[n - 1], txs[n]) ELSE f[n - 1]
IsKept(txs, T, f) == f = [n \in 0..Len(txs) |-> KeptStep(txs, T, f, n)]
KeptOf(txs, T) == CHOOSE f : IsKept(txs, T, f)

(* Keep is what the loop has at the end.                                   *)
LEMMA KeepIsKept ==
    ASSUME NEW txs, NEW T
    PROVE  Keep(txs, T) = KeptOf(txs, T)[Len(txs)]
  BY DEF Keep, KeptOf, IsKept, KeptStep

(* The loop defines a list for every place.                                *)
LEMMA KeptExists ==
    ASSUME NEW txs, Len(txs) \in Nat, NEW T
    PROVE  IsKept(txs, T, KeptOf(txs, T))
  <1> DEFINE Upto(n, f) == \A m \in 0..n : f[m] = KeptStep(txs, T, f, m)
             Good == {n \in Nat : \E f : Upto(n, f)}
  <1>1. 0 \in Good
    <2>1. Upto(0, [m \in {0} |-> <<>>])
      BY DEF KeptStep
    <2> QED  BY <2>1
  <1>2. ASSUME NEW n \in Good PROVE n + 1 \in Good
    <2>1. PICK f : Upto(n, f)
      OBVIOUS
    <2> DEFINE g == [m \in 0..n + 1 |-> IF m <= n THEN f[m] ELSE KeptStep(txs, T, f, m)]
    <2>2. ASSUME NEW m \in 0..n + 1 PROVE g[m] = KeptStep(txs, T, g, m)
      <3>1. m # 0 => m - 1 \in 0..n + 1 /\ m - 1 <= n
        OBVIOUS
      <3>2. m # 0 => g[m - 1] = f[m - 1]
        BY <3>1
      <3>3. g[m] = KeptStep(txs, T, f, m)
        <4>1. m <= n => m \in 0..n
          OBVIOUS
        <4> QED  BY <2>1, <4>1
      <3> HIDE DEF g
      <3> QED  BY <3>2, <3>3 DEF KeptStep
    <2>3. n + 1 \in Nat /\ Upto(n + 1, g)
      <3> HIDE DEF g
      <3> QED  BY <2>2
    <2> HIDE DEF g, Upto
    <2> QED  BY <2>3
  <1>3. PICK f : Upto(Len(txs), f)
    <2> HIDE DEF Upto
    <2>1. Good \in SUBSET Nat
      OBVIOUS
    <2>2. Good = Nat
      <3> HIDE DEF Good
      <3> QED  BY <1>1, <1>2, <2>1, Upwards
    <2> QED  BY <2>2
  <1> DEFINE g == [n \in 0..Len(txs) |-> f[n]]
  <1>4. ASSUME NEW n \in 0..Len(txs) PROVE g[n] = KeptStep(txs, T, g, n)
    <2>1. n # 0 => n - 1 \in 0..Len(txs)
      OBVIOUS
    <2> QED  BY <1>3, <2>1 DEF KeptStep
  <1>5. g = [n \in 0..Len(txs) |-> g[n]]
    OBVIOUS
  <1>6. IsKept(txs, T, g)
    <2> HIDE DEF g
    <2> QED  BY <1>4, <1>5 DEF IsKept
  <1> HIDE DEF g
  <1> QED  BY <1>6 DEF KeptOf

(* What the loop has after n places.                                       *)
Enumerates(p, s, txs, S) ==
    /\ p \in [DOMAIN s -> S]
    /\ \A i, j \in DOMAIN s : i < j => p[i] < p[j]
    /\ \A k \in S : \E i \in DOMAIN s : p[i] = k
    /\ \A i \in DOMAIN s : s[i] = txs[p[i]]

(* The kept transactions are those at the places T, each once, in their    *)
(* order.                             *)
LEMMA KeepPlaces ==
    ASSUME NEW X, NEW txs \in Seq(X), NEW T \in SUBSET (DOMAIN txs)
    PROVE  /\ Keep(txs, T) \in Seq(X)
           /\ \E p : Enumerates(p, Keep(txs, T), txs, T)
  <1> DEFINE f == KeptOf(txs, T)
             Done(n) == /\ f[n] \in Seq(X)
                        /\ \E p : Enumerates(p, f[n], txs, T \cap 1..n)
             Good == {n \in Nat : n <= Len(txs) => Done(n)}
  <1>1. /\ Len(txs) \in Nat /\ DOMAIN txs = 1..Len(txs)
        /\ \A n \in 1..Len(txs) : txs[n] \in X
    OBVIOUS
  <1>2. \A n \in 0..Len(txs) : f[n] = KeptStep(txs, T, f, n)
    <2>1. IsKept(txs, T, f)
      BY <1>1, KeptExists
    <2> HIDE DEF f
    <2> QED  BY <2>1 DEF IsKept
  <1> HIDE DEF f
  <1>3. 0 \in Good
    <2>1. f[0] = <<>>
      BY <1>1, <1>2 DEF KeptStep
    <2>2. T \cap 1..0 = {} /\ DOMAIN <<>> = {}
      OBVIOUS
    <2> DEFINE e == [i \in {} |-> 0]
    <2>3. e \in [{} -> {}]
      OBVIOUS
    <2> HIDE DEF e
    <2>4. Enumerates(e, <<>>, txs, T \cap 1..0)
      BY <2>2, <2>3, Zenon DEF Enumerates
    <2>5. Done(0)
      BY <2>1, <2>4
    <2> HIDE DEF Done
    <2> QED  BY <2>5
  <1>4. ASSUME NEW n \in Good PROVE n + 1 \in Good
    <2>0. n \in Nat /\ n + 1 \in Nat
      OBVIOUS
    <2>1. SUFFICES ASSUME n + 1 <= Len(txs) PROVE Done(n + 1)
      <3> HIDE DEF Done
      <3> QED  BY <2>0
    <2>2. n \in Nat /\ n <= Len(txs) /\ n + 1 \in 0..Len(txs) /\ n + 1 # 0 /\ (n + 1) - 1 = n
      BY <1>1, <2>1
    <2>3. f[n] \in Seq(X) /\ txs[n + 1] \in X
      BY <1>1, <2>1, <2>2
    <2>4. PICK p : Enumerates(p, f[n], txs, T \cap 1..n)
      BY <2>2
    <2>5. f[n + 1] = IF n + 1 \in T THEN Append(f[n], txs[n + 1]) ELSE f[n]
      BY <1>2, <2>2 DEF KeptStep
    <2>6. CASE n + 1 \notin T
      <3>1. T \cap 1..n + 1 = T \cap 1..n
        BY <2>2, <2>6
      <3> QED  BY <2>3, <2>4, <2>5, <2>6, <3>1
    <2>7. CASE n + 1 \in T
      <3> DEFINE m == Len(f[n])
                 q == [i \in 1..m + 1 |-> IF i = m + 1 THEN n + 1 ELSE p[i]]
      <3>1. /\ m \in Nat /\ DOMAIN f[n] = 1..m
            /\ f[n + 1] \in Seq(X) /\ DOMAIN f[n + 1] = 1..m + 1
            /\ \A i \in 1..m : f[n + 1][i] = f[n][i]
            /\ f[n + 1][m + 1] = txs[n + 1]
        BY <2>3, <2>5, <2>7, AppendProperties
      <3>2. /\ p \in [1..m -> T \cap 1..n]
            /\ \A i, j \in 1..m : i < j => p[i] < p[j]
            /\ \A k \in T \cap 1..n : \E i \in 1..m : p[i] = k
            /\ \A i \in 1..m : f[n][i] = txs[p[i]]
        BY <2>4, <3>1 DEF Enumerates
      <3> HIDE DEF m
      <3>3. q \in [1..m + 1 -> T \cap 1..n + 1]
        <4>1. n + 1 \in T \cap 1..n + 1 /\ T \cap 1..n \subseteq T \cap 1..n + 1
          BY <2>2, <2>7
        <4>2. ASSUME NEW i \in 1..m + 1, i # m + 1 PROVE i \in 1..m
          BY ONLY <3>1, <4>2
        <4>3. ASSUME NEW i \in 1..m + 1 PROVE (IF i = m + 1 THEN n + 1 ELSE p[i]) \in T \cap 1..n + 1
          BY <3>2, <4>1, <4>2
        <4> QED  BY ONLY <4>3, Zenon
      <3>4. ASSUME NEW i \in 1..m + 1, NEW j \in 1..m + 1, i < j PROVE q[i] < q[j]
        <4>0. i \in 1..m /\ i # m + 1
          BY ONLY <3>1, <3>4
        <4>1. i \in 1..m /\ q[i] = p[i] /\ p[i] \in 1..n
          BY <3>2, <4>0
        <4>2. CASE j = m + 1
          BY <2>2, <4>1, <4>2
        <4>3. CASE j # m + 1
          BY <3>1, <3>2, <3>4, <4>1, <4>3
        <4> QED  BY <4>2, <4>3
      <3>5. ASSUME NEW k \in T \cap 1..n + 1 PROVE \E i \in 1..m + 1 : q[i] = k
        <4>1. CASE k = n + 1
          BY <3>1, <4>1
        <4>2. CASE k # n + 1
          <5>1. k \in T \cap 1..n
            BY <2>2, <4>2
          <5>2. PICK i \in 1..m : p[i] = k
            BY <3>2, <5>1
          <5> QED  BY <3>1, <5>2
        <4> QED  BY <4>1, <4>2
      <3>6. ASSUME NEW i \in 1..m + 1 PROVE f[n + 1][i] = txs[q[i]]
        BY <3>1, <3>2
      <3> HIDE DEF q
      <3>7. Enumerates(q, f[n + 1], txs, T \cap 1..n + 1)
        BY <3>1, <3>3, <3>4, <3>5, <3>6 DEF Enumerates
      <3> QED  BY <3>1, <3>7
    <2> QED  BY <2>6, <2>7
  <1>5. Good = Nat
    <2>1. Good \in SUBSET Nat
      OBVIOUS
    <2> HIDE DEF Good
    <2> QED  BY <1>3, <1>4, <2>1, Upwards
  <1>6. Len(txs) \in Good
    BY <1>1, <1>5
  <1>8. Done(Len(txs))
    <2> HIDE DEF Done
    <2> QED  BY <1>1, <1>6
  <1>7. T \cap 1..Len(txs) = T
    BY <1>1
  <1> QED  BY <1>7, <1>8, KeepIsKept DEF f

-----------------------------------------------------------------------------
(* What transactions are worth together, and the recursion it stands for.  *)
Amounts(txs, S) == MapThenSumSet(LAMBDA i : txs[i].amount, S)
FirstOf(s) == CHOOSE x \in s : TRUE
SumStep(txs, g, s) == IF s = {} THEN 0 ELSE txs[FirstOf(s)].amount + g[s \ {FirstOf(s)}]
IsSum(txs, S, g) == g = [s \in SUBSET S |-> SumStep(txs, g, s)]

(* The sum is what the function at the end of the recursion returns.       *)
LEMMA FoldIsSum ==
    ASSUME NEW txs, NEW S
    PROVE  Amounts(txs, S) = (CHOOSE g : IsSum(txs, S, g))[S]
  BY DEF Amounts, MapThenSumSet, MapThenFoldSet, IsSum, SumStep, FirstOf

(* The element that the sum takes next is one that is left.                *)
LEMMA FirstOfIn ==
    ASSUME NEW s, s # {}
    PROVE  FirstOf(s) \in s
  BY DEF FirstOf

(* There is at most one such function, whatever set it starts from ...     *)
LEMMA SumUnique ==
    ASSUME NEW txs, NEW S, IsFiniteSet(S), NEW T \in SUBSET S, NEW g, NEW h,
           IsSum(txs, S, g), IsSum(txs, T, h)
    PROVE  \A s \in SUBSET T : g[s] = h[s]
  <1> DEFINE Bad == {s \in SUBSET T : g[s] # h[s]}
  <1>1. SUFFICES ASSUME Bad # {} PROVE FALSE
    OBVIOUS
  <1>2. PICK s \in Bad : \A x \in s : s \ {x} \notin Bad
    <2>1. IsFiniteSet(T) /\ Bad \in SUBSET (SUBSET T)
      BY FS_Subset
    <2> HIDE DEF Bad
    <2> QED  BY <1>1, <2>1, SmallestSet
  <1>3. g[s] = SumStep(txs, g, s) /\ h[s] = SumStep(txs, h, s)
    BY <1>2 DEF IsSum
  <1>4. s # {} => s \ {FirstOf(s)} \in SUBSET T /\ s \ {FirstOf(s)} \notin Bad
    BY <1>2, FirstOfIn
  <1> QED  BY <1>2, <1>3, <1>4 DEF SumStep

(* ... and there is one for every finite set.                              *)
LEMMA SumExists ==
    ASSUME NEW txs, NEW S, IsFiniteSet(S)
    PROVE  \E g : IsSum(txs, S, g)
  <1> DEFINE Upto(n, g) == \A s \in SUBSET S : Cardinality(s) <= n => g[s] = SumStep(txs, g, s)
             Bad == {n \in Nat : ~\E g : Upto(n, g)}
  <1>1. \A s \in SUBSET S : /\ IsFiniteSet(s) /\ Cardinality(s) \in Nat
                            /\ Cardinality(s) <= Cardinality(S)
                            /\ Cardinality(s) = 0 <=> s = {}
    BY FS_Subset, FS_CardinalityType, FS_EmptySet
  <1>2. Bad = {}
    <2> SUFFICES ASSUME Bad # {} PROVE FALSE
      OBVIOUS
    <2>1. PICK n \in Bad : \A m \in Bad : n <= m
      <3>1. Bad \in SUBSET Nat
        OBVIOUS
      <3> HIDE DEF Bad
      <3> QED  BY <3>1, LeastNat
    <2>2. CASE n = 0
      <3>1. Upto(0, [s \in SUBSET S |-> 0])
        BY <1>1 DEF SumStep
      <3> QED  BY <2>1, <2>2, <3>1
    <2>3. CASE n # 0
      <3>1. n - 1 \in Nat /\ n - 1 \notin Bad
        BY <2>1, <2>3
      <3>2. PICK g : Upto(n - 1, g)
        BY <3>1
      <3> DEFINE h == [s \in SUBSET S |-> IF Cardinality(s) < n THEN g[s] ELSE SumStep(txs, g, s)]
      <3>3. ASSUME NEW s \in SUBSET S, Cardinality(s) <= n PROVE h[s] = SumStep(txs, h, s)
        <4>1. h[s] = SumStep(txs, g, s)
          BY <1>1, <2>1, <3>2, <3>3
        <4>2. CASE s = {}
          BY <4>1, <4>2 DEF SumStep
        <4>3. CASE s # {}
          <5>1. /\ s \ {FirstOf(s)} \in SUBSET S
                /\ Cardinality(s \ {FirstOf(s)}) = Cardinality(s) - 1
            BY <1>1, <4>3, FirstOfIn, FS_RemoveElement
          <5>2. Cardinality(s \ {FirstOf(s)}) < n
            BY <1>1, <2>1, <3>3, <5>1
          <5>3. h[s \ {FirstOf(s)}] = g[s \ {FirstOf(s)}]
            BY <5>1, <5>2
          <5> QED  BY <4>1, <4>3, <5>3 DEF SumStep
        <4> QED  BY <4>2, <4>3
      <3>4. Upto(n, h)
        <4> HIDE DEF h
        <4> QED  BY <3>3
      <3>5. \E f : Upto(n, f)
        <4> HIDE DEF h, Upto
        <4> QED  BY <3>4
      <3> QED  BY <2>1, <3>5
    <2> QED  BY <2>2, <2>3
  <1>3. PICK g : Upto(Cardinality(S), g)
    BY <1>1, <1>2
  <1> DEFINE h == [s \in SUBSET S |-> g[s]]
  <1>4. ASSUME NEW s \in SUBSET S PROVE h[s] = SumStep(txs, h, s)
    <2>1. g[s] = SumStep(txs, g, s)
      BY <1>1, <1>3
    <2>2. s # {} => s \ {FirstOf(s)} \in SUBSET S
      OBVIOUS
    <2> QED  BY <2>1, <2>2 DEF SumStep
  <1>5. h = [s \in SUBSET S |-> h[s]]
    OBVIOUS
  <1>6. IsSum(txs, S, h)
    <2> HIDE DEF h
    <2> QED  BY <1>4, <1>5 DEF IsSum
  <1> QED  BY <1>6

(* So the amounts add up one after the other, ...                          *)
LEMMA AmountsFirst ==
    ASSUME NEW txs, NEW S, IsFiniteSet(S)
    PROVE  /\ Amounts(txs, {}) = 0
           /\ S # {} => Amounts(txs, S) = txs[FirstOf(S)].amount + Amounts(txs, S \ {FirstOf(S)})
  <1> DEFINE G(T) == CHOOSE g : IsSum(txs, T, g)
  <1>1. \A T : IsFiniteSet(T) => IsSum(txs, T, G(T))
    BY SumExists
  <1>2. \A T : Amounts(txs, T) = G(T)[T]
    BY FoldIsSum
  <1>3. G({})[{}] = 0
    <2>1. IsSum(txs, {}, G({}))
      BY <1>1, FS_EmptySet
    <2> HIDE DEF G
    <2> QED  BY <2>1 DEF IsSum, SumStep
  <1>4. ASSUME S # {} PROVE G(S)[S] = txs[FirstOf(S)].amount + G(S \ {FirstOf(S)})[S \ {FirstOf(S)}]
    <2>1. IsFiniteSet(S \ {FirstOf(S)})
      BY FS_RemoveElement
    <2>2. IsSum(txs, S, G(S)) /\ IsSum(txs, S \ {FirstOf(S)}, G(S \ {FirstOf(S)}))
      BY <1>1, <2>1
    <2> HIDE DEF G
    <2>3. G(S)[S \ {FirstOf(S)}] = G(S \ {FirstOf(S)})[S \ {FirstOf(S)}]
      <3> DEFINE T == S \ {FirstOf(S)}
      <3>1. T \in SUBSET S /\ T \in SUBSET T
        OBVIOUS
      <3> HIDE DEF T
      <3>2. IsSum(txs, T, G(T))
        BY <2>2 DEF T
      <3>3. G(S)[T] = G(T)[T]
        BY <2>2, <3>1, <3>2, SumUnique
      <3> QED  BY <3>3 DEF T
    <2> QED  BY <1>4, <2>2, <2>3 DEF IsSum, SumStep
  <1> HIDE DEF G
  <1> QED  BY <1>2, <1>3, <1>4

(* ... to an integer, or to a natural number, if all of them are, ...      *)
LEMMA AmountsIn ==
    ASSUME NEW D, 0 \in D, \A v, w \in D : v + w \in D,
           NEW txs, NEW S, IsFiniteSet(S), \A i \in S : txs[i].amount \in D
    PROVE  Amounts(txs, S) \in D
  <1> DEFINE Bad == {s \in SUBSET S : Amounts(txs, s) \notin D}
  <1> SUFFICES ASSUME Bad # {} PROVE FALSE
    OBVIOUS
  <1>1. PICK s \in Bad : \A x \in s : s \ {x} \notin Bad
    <2>1. Bad \in SUBSET (SUBSET S)
      OBVIOUS
    <2> HIDE DEF Bad
    <2> QED  BY <2>1, SmallestSet
  <1>2. IsFiniteSet(s) /\ Amounts(txs, s) \notin D
    BY <1>1, FS_Subset
  <1>3. s # {}
    BY <1>2, AmountsFirst
  <1>4. FirstOf(s) \in s /\ Amounts(txs, s \ {FirstOf(s)}) \in D
    BY <1>1, <1>3, FirstOfIn
  <1> QED  BY <1>1, <1>2, <1>3, <1>4, AmountsFirst

(* ... and the order does not matter: any of them can be the last one, as  *)
(* records arrive in any order on accountStateModifyChan.                  *)
LEMMA AmountsRemove ==
    ASSUME NEW txs, NEW S, IsFiniteSet(S), \A i \in S : txs[i].amount \in Int
    PROVE  \A i \in S : Amounts(txs, S) = txs[i].amount + Amounts(txs, S \ {i})
  <1> DEFINE Good(s) == \A i \in s : Amounts(txs, s) = txs[i].amount + Amounts(txs, s \ {i})
             Bad == {s \in SUBSET S : ~Good(s)}
  <1> SUFFICES ASSUME Bad # {} PROVE FALSE
    OBVIOUS
  <1>1. PICK s \in Bad : \A x \in s : s \ {x} \notin Bad
    <2>1. Bad \in SUBSET (SUBSET S)
      OBVIOUS
    <2> HIDE DEF Bad
    <2> QED  BY <2>1, SmallestSet
  <1>2. IsFiniteSet(s) /\ ~Good(s) /\ \A x \in s : Good(s \ {x})
    <2>1. s \in SUBSET S
      BY <1>1
    <2>2. \A x \in s : s \ {x} \in SUBSET S
      BY <2>1
    <2> HIDE DEF Good
    <2> QED  BY <1>1, <2>1, <2>2, FS_Subset
  <1>3. PICK i \in s : Amounts(txs, s) # txs[i].amount + Amounts(txs, s \ {i})
    BY <1>2
  <1>4. PICK c \in s : Amounts(txs, s) = txs[c].amount + Amounts(txs, s \ {c})
    <2>1. s # {}
      BY <1>3
    <2>2. FirstOf(s) \in s
      BY <2>1, FirstOfIn
    <2>3. Amounts(txs, s) = txs[FirstOf(s)].amount + Amounts(txs, s \ {FirstOf(s)})
      BY <1>2, <2>1, AmountsFirst
    <2> QED  BY <2>2, <2>3
  <1>5. /\ i # c /\ i \in s \ {c} /\ c \in s \ {i} /\ (s \ {c}) \ {i} = (s \ {i}) \ {c}
        /\ txs[i].amount \in Int /\ txs[c].amount \in Int
    BY <1>1, <1>3, <1>4
  <1>6. /\ Amounts(txs, s \ {c}) = txs[i].amount + Amounts(txs, (s \ {c}) \ {i})
        /\ Amounts(txs, s \ {i}) = txs[c].amount + Amounts(txs, (s \ {c}) \ {i})
    BY <1>2, <1>5
  <1>7. Amounts(txs, (s \ {c}) \ {i}) \in Int
    <2>1. (s \ {c}) \ {i} \in SUBSET S
      BY <1>1
    <2>2. IsFiniteSet((s \ {c}) \ {i}) /\ \A j \in (s \ {c}) \ {i} : txs[j].amount \in Int
      BY <2>1, FS_Subset
    <2> QED  BY <2>2, AmountsIn
  <1> QED  BY <1>3, <1>4, <1>5, <1>6, <1>7

(* The way the lemma is used: one more record.                             *)
LEMMA AmountsAdd ==
    ASSUME NEW txs, NEW S, IsFiniteSet(S), \A j \in S : txs[j].amount \in Int,
           NEW i, i \notin S, txs[i].amount \in Int
    PROVE  Amounts(txs, S \cup {i}) = txs[i].amount + Amounts(txs, S)
  <1>1. IsFiniteSet(S \cup {i}) /\ (S \cup {i}) \ {i} = S
    BY FS_AddElement
  <1> QED  BY <1>1, AmountsRemove
(* The sum does not depend on which transactions stand where: a set of     *)
(* others with the same amounts, one for each, is worth as much.           *)
LEMMA AmountsMoved ==
    ASSUME NEW txs, NEW S, IsFiniteSet(S), NEW others, NEW p,
           \A i, j \in S : p[i] = p[j] => i = j,
           \A i \in S : txs[i].amount \in Int /\ others[p[i]].amount = txs[i].amount
    PROVE  Amounts(others, {p[i] : i \in S}) = Amounts(txs, S)
  <1> DEFINE Image(s) == {p[i] : i \in s}
             Good(s) == IsFiniteSet(Image(s)) /\ Amounts(others, Image(s)) = Amounts(txs, s)
             Bad == {s \in SUBSET S : ~Good(s)}
  <1> SUFFICES ASSUME Bad # {} PROVE FALSE
    OBVIOUS
  <1>1. PICK s \in Bad : \A x \in s : s \ {x} \notin Bad
    <2>1. Bad \in SUBSET (SUBSET S)
      OBVIOUS
    <2> HIDE DEF Bad
    <2> QED  BY <2>1, SmallestSet
  <1>2. s \in SUBSET S /\ IsFiniteSet(s) /\ ~Good(s)
    BY <1>1, FS_Subset
  <1>3. CASE s = {}
    <2>1. Image(s) = {}
      BY <1>3
    <2>2. Good(s)
      <3> HIDE DEF Image
      <3> QED  BY <1>3, <2>1, AmountsFirst, FS_EmptySet
    <2> QED  BY <1>2, <2>2
  <1>4. CASE s # {}
    <2>1. PICK x \in s : TRUE
      BY <1>4
    <2>2. Good(s \ {x})
      <3>1. s \ {x} \in SUBSET S
        BY <1>2
      <3> HIDE DEF Good
      <3> QED  BY <1>1, <2>1, <3>1
    <2>3. /\ Image(s) \ {p[x]} = Image(s \ {x}) /\ p[x] \in Image(s)
          /\ Image(s) = Image(s \ {x}) \cup {p[x]}
      BY <1>2, <2>1
    <2>4. Amounts(txs, s) = txs[x].amount + Amounts(txs, s \ {x})
      BY <1>2, <2>1, AmountsRemove
    <2>5. \A y \in Image(s) : others[y].amount \in Int
      BY <1>2
    <2>6. others[p[x]].amount = txs[x].amount
      BY <1>2, <2>1
    <2> HIDE DEF Image
    <2>7. IsFiniteSet(Image(s))
      <3> DEFINE I == Image(s \ {x})
      <3>1. IsFiniteSet(I) /\ Image(s) = I \cup {p[x]}
        BY <2>2, <2>3
      <3> HIDE DEF I
      <3>2. IsFiniteSet(I \cup {p[x]})
        BY <3>1, FS_AddElement
      <3> QED  BY <3>1, <3>2
    <2>8. Amounts(others, Image(s)) = others[p[x]].amount + Amounts(others, Image(s) \ {p[x]})
      <3> DEFINE I == Image(s)
      <3>1. IsFiniteSet(I) /\ p[x] \in I /\ \A y \in I : others[y].amount \in Int
        BY <2>3, <2>5, <2>7
      <3> HIDE DEF I
      <3>2. \A y \in I : Amounts(others, I) = others[y].amount + Amounts(others, I \ {y})
        BY <3>1, AmountsRemove
      <3> QED  BY <3>1, <3>2 DEF I
    <2> QED  BY <1>2, <2>2, <2>3, <2>4, <2>6, <2>7, <2>8
  <1> QED  BY <1>3, <1>4
=============================================================================
