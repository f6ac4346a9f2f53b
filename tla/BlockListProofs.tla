-------------------------- MODULE BlockListProofs ---------------------------
(***************************************************************************)
(* What the lists of modified blocks are, for lists of any length: the     *)
(* order in which GetModifiedBlocks writes them and the merge loop of      *)
(* OnScreenModified.                                                       *)
(*                                                                         *)
(* The library's induction theorems have an operator as parameter, which   *)
(* the provers cannot instantiate.  The same induction is stated here for  *)
(* sets; a property of numbers becomes the set of the numbers that have it. *)
(***************************************************************************)
EXTENDS BlockList, FiniteSetTheorems, TLAPS

\* Every set of natural numbers but the empty one has a least element.
LEMMA Least ==
    ASSUME NEW T, T \subseteq Nat, T # {}
    PROVE  \E x \in T : \A y \in T : x <= y
<1> DEFINE R == OpToRel(<, Nat)
<1>1. IsWellFoundedOn(R, Nat)
  BY NatLessThanWellFounded, Zenon
<1> HIDE DEF R
<1>2. PICK x \in T : \A y \in T : ~(<<y, x>> \in R)
  BY <1>1, WFMin, Zenon
<1>3. \A y \in T : ~(<<y, x>> \in R) => x <= y
  BY DEF R, OpToRel
<1> QED
  BY <1>2, <1>3

\* Induction: a set that has 0 and, with a number, the next one, has all.
LEMMA Induction ==
    ASSUME NEW S, 0 \in S, \A n \in Nat : n \in S => n + 1 \in S
    PROVE  \A n \in Nat : n \in S
<1> SUFFICES ASSUME NEW m \in Nat, m \notin S PROVE FALSE
  OBVIOUS
<1> DEFINE T == {n \in Nat : n \notin S}
<1>1. PICK x \in T : \A y \in T : x <= y
  <2>1. T \subseteq Nat /\ T # {}
    OBVIOUS
  <2> HIDE DEF T
  <2> QED
    BY <2>1, Least
<1>2. x \in Nat \ {0} /\ x - 1 \in Nat /\ x - 1 \notin T
  BY <1>1
<1>3. x - 1 \in S
  BY <1>2
<1>4. (x - 1) + 1 \in S
  BY <1>2, <1>3
<1> QED
  BY <1>2, <1>4

\* A list of members of a set is one of members of a larger set.
LEMMA SeqSubset ==
    ASSUME NEW A, NEW B, A \subseteq B, NEW s \in Seq(A)
    PROVE  s \in Seq(B)
<1>1. Len(s) \in Nat /\ s = [i \in 1..Len(s) |-> s[i]] /\ \A i \in 1..Len(s) : s[i] \in A
  OBVIOUS
<1>2. \A i \in 1..Len(s) : s[i] \in B
  BY <1>1
<1>3. s \in [1..Len(s) -> B]
  BY <1>1, <1>2
<1> QED
  BY <1>1, <1>3

-----------------------------------------------------------------------------
(* The order of GetModifiedBlocks.                                         *)

\* There is a list of the elements of a finite set of numbers in ascending order: each
\* stands where as many smaller ones go before it.
LEMMA AscendingExists ==
    ASSUME NEW S, S \subseteq Nat, IsFiniteSet(S)
    PROVE  \E list \in [1..Cardinality(S) -> S] :
              \A i, j \in 1..Cardinality(S) : i < j => list[i] < list[j]
<1> DEFINE n == Cardinality(S)
           Below(b) == {a \in S : a < b}
           rank == [b \in S |-> Cardinality(Below(b)) + 1]
<1>1. n \in Nat
  BY FS_CardinalityType
<1>2. \A b \in S : IsFiniteSet(Below(b)) /\ Cardinality(Below(b)) \in Nat
  <2> TAKE b \in S
  <2>1. IsFiniteSet(Below(b))
    BY FS_Subset
  <2> QED
    BY <2>1, FS_CardinalityType
<1>3. \A a, b \in S : a < b => Cardinality(Below(a)) < Cardinality(Below(b))
  <2> SUFFICES ASSUME NEW a \in S, NEW b \in S, a < b
               PROVE  Cardinality(Below(a)) < Cardinality(Below(b))
    OBVIOUS
  <2>0. ~(a < a) /\ \A x \in S : x < a => x < b
    <3>1. a \in Nat /\ b \in Nat /\ \A x \in S : x \in Nat
      OBVIOUS
    <3> QED
      BY <3>1
  <2>1. Below(a) \subseteq Below(b) /\ a \in Below(b) /\ a \notin Below(a)
    BY <2>0, Zenon
  <2>2. Cardinality(Below(a)) <= Cardinality(Below(b))
        /\ (Cardinality(Below(b)) = Cardinality(Below(a)) => Below(b) = Below(a))
    BY <1>2, <2>1, FS_Subset
  <2> QED
    BY <1>2, <2>1, <2>2
<1>4. \A b \in S : Cardinality(Below(b)) < n
  <2> TAKE b \in S
  <2>1. Below(b) \subseteq S /\ b \notin Below(b)
    OBVIOUS
  <2>2. Cardinality(Below(b)) <= n /\ (n = Cardinality(Below(b)) => S = Below(b))
    BY <2>1, FS_Subset
  <2> QED
    BY <1>1, <1>2, <2>1, <2>2
<1> HIDE DEF n, Below
<1>5. rank \in [S -> 1..n]
  BY <1>1, <1>2, <1>4
<1>6. \A a, b \in S : a < b => rank[a] < rank[b]
  BY <1>2, <1>3
<1>7. \A a, b \in S : rank[a] = rank[b] => a = b
  <2> SUFFICES ASSUME NEW a \in S, NEW b \in S, rank[a] = rank[b], a # b PROVE FALSE
    OBVIOUS
  <2>1. a < b \/ b < a
    OBVIOUS
  <2>2. rank[a] \in Nat
    BY <1>2
  <2> QED
    BY <1>6, <2>1, <2>2
<1> HIDE DEF rank
<1>8. rank \in Injection(S, 1..n)
  BY <1>5, <1>7 DEF Injection, IsInjective
<1>9. IsFiniteSet(1..n) /\ Cardinality(1..n) = n
  BY <1>1, FS_Interval
<1>10. rank \in Surjection(S, 1..n)
  BY <1>8, <1>9, FS_Injection DEF n
<1> DEFINE list == [i \in 1..n |-> CHOOSE b \in S : rank[b] = i]
<1>11. \A i \in 1..n : list[i] \in S /\ rank[list[i]] = i
  BY <1>10 DEF Surjection
<1>12. list \in [1..n -> S]
  BY <1>11
<1>13. \A i, j \in 1..n : i < j => list[i] < list[j]
  <2> SUFFICES ASSUME NEW i \in 1..n, NEW j \in 1..n, i < j, ~(list[i] < list[j]) PROVE FALSE
    OBVIOUS
  <2> DEFINE x == list[i]
             y == list[j]
  <2>2. x \in S /\ y \in S /\ rank[x] = i /\ rank[y] = j /\ ~(x < y)
    BY <1>11
  <2>3. i \in Nat /\ j \in Nat
    BY <1>1
  <2> HIDE DEF list, x, y
  <2>4. x \in Nat /\ y \in Nat
    BY <2>2
  <2>5. y = x \/ y < x
    BY <2>2, <2>4
  <2> QED
    BY <1>6, <2>2, <2>3, <2>5
<1> QED
  BY <1>12, <1>13 DEF n

\* GetModifiedBlocks writes every modified block once, and no other.
LEMMA AscendingIsList ==
    ASSUME NEW S, S \subseteq Nat, IsFiniteSet(S)
    PROVE  /\ Ascending(S) \in Seq(S) /\ Len(Ascending(S)) = Cardinality(S)
           /\ \A i, j \in 1..Cardinality(S) : i < j => Ascending(S)[i] < Ascending(S)[j]
           /\ ToSet(Ascending(S)) = S
<1> DEFINE n == Cardinality(S)
           list == Ascending(S)
<1>1. n \in Nat
  BY FS_CardinalityType
<1>2. list \in [1..n -> S] /\ \A i, j \in 1..n : i < j => list[i] < list[j]
  BY AscendingExists DEF Ascending
<1> HIDE DEF list, n
<1>3. list \in Seq(S) /\ Len(list) = n
  BY <1>1, <1>2
<1>4. \A i, j \in 1..n : list[i] = list[j] => i = j
  <2> SUFFICES ASSUME NEW i \in 1..n, NEW j \in 1..n, list[i] = list[j], i # j PROVE FALSE
    OBVIOUS
  <2>1. i < j \/ j < i
    BY <1>1
  <2>2. list[i] \in Nat
    BY <1>2
  <2> QED
    BY <1>2, <2>1, <2>2
<1>5. list \in Injection(1..n, S)
  BY <1>2, <1>4 DEF Injection, IsInjective
<1>6. IsFiniteSet(1..n) /\ Cardinality(1..n) = n
  BY <1>1, FS_Interval
<1>7. list \in Surjection(1..n, S)
  BY <1>5, <1>6, FS_Injection DEF n
<1>8. ToSet(list) = S
  BY <1>2, <1>7 DEF ToSet, Surjection
<1> QED
  BY <1>2, <1>3, <1>8 DEF list, n
-----------------------------------------------------------------------------
(* The merge loop of OnScreenModified.                                     *)

\* What one iteration makes of nOldIndex.
AfterStep(old, new, i, o) == IF TakesOld(old, new, o, i - o) THEN o + 1 ELSE o

\* f is nOldIndex through the first m iterations.
Follows(old, new, m, f) ==
    /\ f \in [0..m -> Nat] /\ f[0] = 0
    /\ \A i \in 1..m : f[i] = AfterStep(old, new, i - 1, f[i - 1])

\* The loop can go on for any number of iterations.
LEMMA FollowsExists ==
    ASSUME NEW old, NEW new, NEW n \in Nat
    PROVE  \E f : Follows(old, new, n, f)
<1> DEFINE S == {m \in Nat : \E f : Follows(old, new, m, f)}
<1>1. 0 \in S
  <2> DEFINE f == [i \in 0..0 |-> 0]
  <2>1. Follows(old, new, 0, f)
    BY DEF Follows
  <2> QED
    BY <2>1
<1>2. ASSUME NEW m \in Nat, m \in S PROVE m + 1 \in S
  <2>1. PICK f : Follows(old, new, m, f)
    BY <1>2
  <2> DEFINE g == [i \in 0..m + 1 |-> IF i <= m THEN f[i] ELSE AfterStep(old, new, m, f[m])]
  <2>2. f \in [0..m -> Nat] /\ f[0] = 0 /\ f[m] \in Nat
        /\ \A i \in 1..m : f[i] = AfterStep(old, new, i - 1, f[i - 1])
    BY <2>1 DEF Follows
  <2>3. AfterStep(old, new, m, f[m]) \in Nat
    BY <2>2 DEF AfterStep
  <2>4. g \in [0..m + 1 -> Nat] /\ g[0] = 0
    BY <2>2, <2>3
  <2>5. \A i \in 1..m : g[i] = AfterStep(old, new, i - 1, g[i - 1])
    BY <2>2
  <2>6. g[m + 1] = AfterStep(old, new, m, g[m])
    OBVIOUS
  <2> HIDE DEF g
  <2>7. \A i \in 1..m + 1 : g[i] = AfterStep(old, new, i - 1, g[i - 1])
    <3> TAKE i \in 1..m + 1
    <3>1. CASE i = m + 1
      <4>1. i - 1 = m
        BY <3>1
      <4> QED
        BY <2>6, <3>1, <4>1
    <3>2. CASE i # m + 1
      BY <2>5, <3>2
    <3> QED
      BY <3>1, <3>2
  <2>8. Follows(old, new, m + 1, g)
    BY <2>4, <2>7 DEF Follows
  <2> QED
    BY <2>8
<1> HIDE DEF S
<1>3. \A m \in Nat : m \in S
  BY <1>1, <1>2, Induction
<1> QED
  BY <1>3 DEF S

\* Taken is what the loop does.
LEMMA TakenFollows ==
    ASSUME NEW old, NEW new, NEW n \in Nat
    PROVE  Follows(old, new, n, Taken(old, new, n))
<1> DEFINE Body(f) == [i \in 0..n |->
                        IF i = 0 THEN 0
                        ELSE IF TakesOld(old, new, f[i - 1], (i - 1) - f[i - 1])
                        THEN f[i - 1] + 1 ELSE f[i - 1]]
<1>1. PICK g : Follows(old, new, n, g)
  BY FollowsExists
<1>2. g = Body(g)
  <2>1. g = [i \in 0..n |-> g[i]]
    BY <1>1 DEF Follows
  <2>2. \A i \in 0..n : g[i] = Body(g)[i]
    BY <1>1 DEF Follows, AfterStep
  <2> QED
    BY <2>1, <2>2
<1>3. Taken(old, new, n) = CHOOSE f : f = Body(f)
  BY DEF Taken
<1> DEFINE t == Taken(old, new, n)
<1>4. t = Body(t)
  <2>1. \E f : f = Body(f)
    BY <1>2
  <2> HIDE DEF Body
  <2> QED
    BY <1>3, <2>1
<1> HIDE DEF t
<1>5. t[0] = 0 /\ \A i \in 1..n : t[i] = AfterStep(old, new, i - 1, t[i - 1])
  <2>1. 0 \in 0..n /\ \A i \in 1..n : i \in 0..n /\ i # 0
    OBVIOUS
  <2> QED
    BY <1>4, <2>1 DEF AfterStep
<1>6. \A i \in 0..n : t[i] \in Nat
  <2> DEFINE S == {i \in Nat : i <= n => t[i] \in Nat}
  <2>1. 0 \in S
    BY <1>5
  <2>2. ASSUME NEW i \in Nat, i \in S PROVE i + 1 \in S
    <3> SUFFICES ASSUME i + 1 <= n PROVE t[i + 1] \in Nat
      OBVIOUS
    <3>1. t[i] \in Nat /\ i + 1 \in 1..n /\ (i + 1) - 1 = i
      BY <2>2
    <3>2. t[i + 1] = AfterStep(old, new, i, t[i])
      BY <1>5, <3>1
    <3> QED
      BY <3>1, <3>2 DEF AfterStep
  <2> HIDE DEF S
  <2>3. \A i \in Nat : i \in S
    BY <2>1, <2>2, Induction
  <2> QED
    BY <2>3 DEF S
<1>7. t \in [0..n -> Nat]
  BY <1>4, <1>6
<1>8. Follows(old, new, n, t)
  BY <1>5, <1>7 DEF Follows
<1> QED
  BY <1>8 DEF t

\* nOldIndex and nNewIndex stay within their lists: the loop never reads past the end of
\* either, as long as there is something left to take.
LEMMA TakenWithin ==
    ASSUME NEW old \in Seq(Nat), NEW new \in Seq(Nat), NEW n \in Nat, NEW f,
           Follows(old, new, n, f)
    PROVE  \A i \in 0..n : i <= Len(old) + Len(new) =>
              f[i] <= Len(old) /\ f[i] <= i /\ i - f[i] <= Len(new)
<1> DEFINE Within(i) == f[i] <= Len(old) /\ f[i] <= i /\ i - f[i] <= Len(new)
           S == {i \in Nat : i <= n /\ i <= Len(old) + Len(new) => Within(i)}
<1>0. Len(old) \in Nat /\ Len(new) \in Nat
  OBVIOUS
<1>1. 0 \in S
  BY <1>0 DEF Follows
<1>2. ASSUME NEW i \in Nat, i \in S PROVE i + 1 \in S
  <2> SUFFICES ASSUME i + 1 <= n, i + 1 <= Len(old) + Len(new) PROVE Within(i + 1)
    OBVIOUS
  <2>1. Within(i) /\ f[i] \in Nat /\ i + 1 \in 1..n /\ (i + 1) - 1 = i
    BY <1>0, <1>2 DEF Follows
  <2>2. f[i + 1] = AfterStep(old, new, i, f[i])
    BY <2>1 DEF Follows
  <2>3. CASE TakesOld(old, new, f[i], i - f[i])
    BY <1>0, <2>1, <2>2, <2>3 DEF AfterStep, TakesOld
  <2>4. CASE ~TakesOld(old, new, f[i], i - f[i])
    <3>1. f[i + 1] = f[i]
      BY <2>2, <2>4 DEF AfterStep
    <3>2. f[i] = Len(old) \/ i - f[i] < Len(new)
      BY <1>0, <2>1, <2>4 DEF TakesOld
    <3> QED
      BY <1>0, <2>1, <3>1, <3>2
  <2> QED
    BY <2>3, <2>4
<1> HIDE DEF S
<1>3. \A i \in Nat : i \in S
  BY <1>1, <1>2, Induction
<1> QED
  BY <1>0, <1>3 DEF S
\* The merged list is a list of the same blocks, as long as both together but no longer
\* than the array.
LEMMA MergeType ==
    ASSUME NEW B, B \subseteq Nat, NEW old \in Seq(B), NEW new \in Seq(B), NEW n \in Nat
    PROVE  /\ MergeSteps(old, new, n) \in Seq(B)
           /\ Len(MergeSteps(old, new, n)) = Shorter(n, Len(old) + Len(new))
<1> DEFINE f == Taken(old, new, n)
           len == Shorter(n, Len(old) + Len(new))
           merged == MergeSteps(old, new, n)
<1>1. old \in Seq(Nat) /\ new \in Seq(Nat) /\ Len(old) \in Nat /\ Len(new) \in Nat
  <2>1. old \in Seq(Nat) /\ new \in Seq(Nat)
    BY SeqSubset, Zenon
  <2> QED
    BY <2>1
<1>2. Follows(old, new, n, f)
  BY TakenFollows
<1> HIDE DEF f
<1>3. \A i \in 0..n : i <= Len(old) + Len(new) =>
         f[i] \in Nat /\ f[i] <= Len(old) /\ f[i] <= i /\ i - f[i] <= Len(new)
  BY <1>1, <1>2, TakenWithin DEF Follows
<1>4. len \in Nat /\ len <= n /\ len <= Len(old) + Len(new)
  BY <1>1 DEF Shorter
<1>5. merged = [i \in 1..len |-> IF f[i] > f[i - 1] THEN old[f[i]] ELSE new[i - f[i]]]
  BY DEF MergeSteps, f
<1> HIDE DEF merged, len
<1>6. \A i \in 1..len : merged[i] \in B
  <2> TAKE i \in 1..len
  <2>1. i \in 0..n /\ i - 1 \in 0..n /\ i <= Len(old) + Len(new)
    BY <1>4
  <2>2. f[i] \in Nat /\ f[i - 1] \in Nat /\ f[i] <= Len(old) /\ f[i] <= i /\ i - f[i] <= Len(new)
        /\ f[i - 1] <= i - 1
    BY <1>1, <1>3, <2>1
  <2>3. CASE f[i] > f[i - 1]
    <3>1. f[i] \in 1..Len(old) /\ merged[i] = old[f[i]]
      BY <1>1, <1>5, <2>2, <2>3
    <3> QED
      BY <3>1
  <2>4. CASE ~(f[i] > f[i - 1])
    <3>1. i - f[i] \in 1..Len(new) /\ merged[i] = new[i - f[i]]
      BY <1>1, <1>5, <2>1, <2>2, <2>4
    <3> QED
      BY <3>1
  <2> QED
    BY <2>3, <2>4
<1>7. merged \in [1..len -> B]
  BY <1>5, <1>6
<1>8. merged \in Seq(B) /\ Len(merged) = len
  BY <1>4, <1>7
<1> QED
  BY <1>8 DEF merged, len

\* When the array has room for both lists the merge drops nothing.
LEMMA MergeKeepsAll ==
    ASSUME NEW B, B \subseteq Nat, NEW old \in Seq(B), NEW new \in Seq(B), NEW n \in Nat,
           Len(old) + Len(new) <= n
    PROVE  ToSet(old) \cup ToSet(new) \subseteq ToSet(MergeSteps(old, new, n))
<1> DEFINE f == Taken(old, new, n)
           len == Len(old) + Len(new)
           merged == MergeSteps(old, new, n)
<1>1. old \in Seq(Nat) /\ new \in Seq(Nat) /\ Len(old) \in Nat /\ Len(new) \in Nat
  <2>1. old \in Seq(Nat) /\ new \in Seq(Nat)
    BY SeqSubset, Zenon
  <2> QED
    BY <2>1
<1>2. Follows(old, new, n, f)
  BY TakenFollows
<1>3. Shorter(n, Len(old) + Len(new)) = len
  BY <1>1 DEF Shorter
<1>4. merged = [i \in 1..len |-> IF f[i] > f[i - 1] THEN old[f[i]] ELSE new[i - f[i]]]
  BY <1>3 DEF MergeSteps
<1> HIDE DEF f, merged
<1>5. \A i \in 0..len :
         i \in 0..n /\ f[i] \in Nat /\ f[i] <= Len(old) /\ f[i] <= i /\ i - f[i] <= Len(new)
  <2> TAKE i \in 0..len
  <2>1. i \in 0..n /\ i <= Len(old) + Len(new)
    BY <1>1
  <2>2. f[i] \in Nat
    BY <1>2, <2>1 DEF Follows
  <2> QED
    BY <1>1, <1>2, <2>1, <2>2, TakenWithin
<1>6. \A i \in 1..len : i - 1 \in 0..len /\ (f[i] = f[i - 1] \/ f[i] = f[i - 1] + 1)
  <2> TAKE i \in 1..len
  <2>1. i \in 1..n /\ i - 1 \in 0..len
    BY <1>1
  <2>2. f[i] = AfterStep(old, new, i - 1, f[i - 1])
    BY <1>2, <2>1 DEF Follows
  <2> QED
    BY <2>1, <2>2 DEF AfterStep
<1>7. f[0] = 0 /\ f[len] = Len(old)
  <2>1. len \in 0..len
    BY <1>1
  <2>2. f[len] \in Nat /\ f[len] <= Len(old) /\ len - f[len] <= Len(new)
    BY <1>5, <2>1
  <2>3. f[0] = 0
    BY <1>2 DEF Follows
  <2> QED
    BY <1>1, <2>2, <2>3
<1>8. DOMAIN merged = 1..len
  BY <1>4
<1>9. \A j \in 1..Len(old) : old[j] \in ToSet(merged)
  <2> TAKE j \in 1..Len(old)
  <2> DEFINE T == {i \in 0..len : f[i] >= j}
  <2>1. len \in T /\ T \subseteq Nat
    BY <1>1, <1>7
  <2>2. PICK i \in T : \A y \in T : i <= y
    <3> HIDE DEF T
    <3> QED
      BY <2>1, Least
  <2>3. i \in 1..len /\ f[i] >= j
    BY <1>1, <1>7, <2>2
  <2>4. f[i - 1] < j
    BY <1>5, <1>6, <2>2, <2>3
  <2>5. f[i] = j /\ f[i] > f[i - 1]
    <3>1. f[i] \in Nat /\ f[i - 1] \in Nat /\ (f[i] = f[i - 1] \/ f[i] = f[i - 1] + 1)
      BY <1>1, <1>5, <1>6, <2>3
    <3> QED
      BY <2>3, <2>4, <3>1
  <2>6. merged[i] = old[j]
    BY <1>4, <2>3, <2>5
  <2> QED
    BY <1>8, <2>3, <2>6 DEF ToSet
<1>10. \A j \in 1..Len(new) : new[j] \in ToSet(merged)
  <2> TAKE j \in 1..Len(new)
  <2> DEFINE T == {i \in 0..len : i - f[i] >= j}
  <2>1. len \in T /\ T \subseteq Nat
    BY <1>1, <1>7
  <2>2. PICK i \in T : \A y \in T : i <= y
    <3> HIDE DEF T
    <3> QED
      BY <2>1, Least
  <2>3. i \in 1..len /\ i - f[i] >= j
    BY <1>1, <1>7, <2>2
  <2>4. (i - 1) - f[i - 1] < j
    BY <1>5, <1>6, <2>2, <2>3
  <2>5. i - f[i] = j /\ ~(f[i] > f[i - 1])
    <3>1. f[i] \in Nat /\ f[i - 1] \in Nat /\ (f[i] = f[i - 1] \/ f[i] = f[i - 1] + 1)
      BY <1>1, <1>5, <1>6, <2>3
    <3> QED
      BY <2>3, <2>4, <3>1
  <2>6. merged[i] = new[j]
    BY <1>4, <2>3, <2>5
  <2> QED
    BY <1>8, <2>3, <2>6 DEF ToSet
<1>11. DOMAIN old = 1..Len(old) /\ DOMAIN new = 1..Len(new)
  OBVIOUS
<1>12. ToSet(old) \cup ToSet(new) \subseteq ToSet(merged)
  <2>1. \A x \in ToSet(old) : x \in ToSet(merged)
    BY <1>9, <1>11, Zenon DEF ToSet
  <2>2. \A x \in ToSet(new) : x \in ToSet(merged)
    BY <1>10, <1>11, Zenon DEF ToSet
  <2> QED
    BY <2>1, <2>2
<1> QED
  BY <1>12 DEF merged

\* The list of a connection after OnScreenModified: blocks of the screen, no more of
\* them than the array has room for, and none dropped as long as there is room.
LEMMA AddedBlocks ==
    ASSUME NEW cap \in Nat, NEW old \in Seq(0..cap - 1), Len(old) <= cap,
           NEW blocks \in SUBSET (0..cap - 1)
    PROVE  LET list == AddModifiedBlocks(old, Ascending(blocks), cap)
           IN  /\ list \in Seq(0..cap - 1) /\ Len(list) <= cap
               /\ Len(list) = cap \/ ToSet(old) \cup blocks \subseteq ToSet(list)
<1> DEFINE B == 0..cap - 1
           new == Ascending(blocks)
           list == AddModifiedBlocks(old, new, cap)
<1>1. IsFiniteSet(B) /\ Cardinality(B) = cap
  BY FS_Interval
<1>2. IsFiniteSet(blocks) /\ Cardinality(blocks) <= cap /\ Cardinality(blocks) \in Nat
  BY <1>1, FS_Subset, FS_CardinalityType
<1>3. new \in Seq(blocks) /\ Len(new) <= cap /\ ToSet(new) = blocks /\ Len(new) \in Nat
  <2>1. blocks \subseteq Nat
    OBVIOUS
  <2> QED
    BY <1>2, <2>1, AscendingIsList
<1>4. new \in Seq(B) /\ B \subseteq Nat /\ Len(old) \in Nat
  <2>1. blocks \subseteq B /\ B \subseteq Nat /\ Len(old) \in Nat
    OBVIOUS
  <2> QED
    BY <1>3, <2>1, SeqSubset
<1> HIDE DEF new
<1>5. CASE old = <<>>
  <2>1. list = new
    BY <1>5 DEF AddModifiedBlocks
  <2>2. ToSet(old) = {}
    BY <1>5 DEF ToSet
  <2> QED
    BY <1>3, <1>4, <2>1, <2>2 DEF new
<1>6. CASE old # <<>>
  <2>1. list = MergeSteps(old, new, cap)
    BY <1>6 DEF AddModifiedBlocks, MergeModifiedBlocks
  <2> HIDE DEF list, B
  <2>2. list \in Seq(B) /\ Len(list) = Shorter(cap, Len(old) + Len(new))
    BY <1>4, <2>1, MergeType DEF B
  <2>3. Len(list) <= cap /\ (Len(list) = cap \/ Len(old) + Len(new) <= cap)
    BY <1>3, <1>4, <2>2 DEF Shorter
  <2>4. Len(old) + Len(new) <= cap => ToSet(old) \cup blocks \subseteq ToSet(list)
    <3> SUFFICES ASSUME Len(old) + Len(new) <= cap
                 PROVE  ToSet(old) \cup ToSet(new) \subseteq ToSet(list)
      BY <1>3
    <3> QED
      BY <1>4, <2>1, MergeKeepsAll DEF B
  <2> QED
    BY <2>2, <2>3, <2>4 DEF list, new, B
<1> QED
  BY <1>5, <1>6
-----------------------------------------------------------------------------
(* The list stays in ascending order.                                      *)

\* For a list to be in ascending order it is enough that neighbours are.
LEMMA Neighbours ==
    ASSUME NEW list \in Seq(Nat), \A i \in 1..Len(list) - 1 : list[i] <= list[i + 1]
    PROVE  IsAscending(list)
<1> SUFFICES ASSUME NEW i \in 1..Len(list) PROVE \A j \in 1..Len(list) : i < j => list[i] <= list[j]
  BY DEF IsAscending
<1>0. Len(list) \in Nat /\ \A k \in 1..Len(list) : list[k] \in Nat
  OBVIOUS
<1> DEFINE S == {k \in Nat : i + k <= Len(list) => list[i] <= list[i + k]}
<1>1. 0 \in S
  BY <1>0
<1>2. ASSUME NEW k \in Nat, k \in S PROVE k + 1 \in S
  <2> SUFFICES ASSUME i + (k + 1) <= Len(list) PROVE list[i] <= list[i + (k + 1)]
    OBVIOUS
  <2>1. i + k \in 1..Len(list) - 1 /\ (i + k) + 1 = i + (k + 1) /\ i + (k + 1) \in 1..Len(list)
    BY <1>0
  <2>2. list[i] <= list[i + k]
    BY <1>0, <1>2, <2>1
  <2>3. list[i + k] <= list[i + (k + 1)]
    BY <2>1
  <2>4. list[i] \in Nat /\ list[i + k] \in Nat /\ list[i + (k + 1)] \in Nat
    BY <1>0, <2>1
  <2> QED
    BY <2>2, <2>3, <2>4
<1> HIDE DEF S
<1>3. \A k \in Nat : k \in S
  BY <1>1, <1>2, Induction
<1>4. ASSUME NEW j \in 1..Len(list), i < j PROVE list[i] <= list[j]
  <2>1. j - i \in Nat /\ i + (j - i) = j
    BY <1>0, <1>4
  <2>2. j - i \in S
    BY <1>3, <2>1
  <2> QED
    BY <1>0, <2>1, <2>2 DEF S
<1> QED
  BY <1>4

\* The comment over the merge loop of OnScreenModified asks for the two lists in order:
\* out of two ascending lists of any length the loop makes an ascending one, also where
\* the array is too short for both.
THEOREM MergeIsAscending ==
    ASSUME NEW old \in Seq(Nat), NEW new \in Seq(Nat), NEW n \in Nat,
           IsAscending(old), IsAscending(new)
    PROVE  IsAscending(MergeSteps(old, new, n))
<1> DEFINE f == Taken(old, new, n)
           len == Shorter(n, Len(old) + Len(new))
           merged == MergeSteps(old, new, n)
<1>0. Len(old) \in Nat /\ Len(new) \in Nat
  OBVIOUS
<1>1. Follows(old, new, n, f)
  BY TakenFollows
<1>2. merged = [i \in 1..len |-> IF f[i] > f[i - 1] THEN old[f[i]] ELSE new[i - f[i]]]
  BY DEF MergeSteps
<1>3. merged \in Seq(Nat) /\ Len(merged) = len
  BY MergeType
<1>4. len \in Nat /\ len <= n /\ len <= Len(old) + Len(new)
  BY <1>0 DEF Shorter
<1> HIDE DEF f, merged, len
<1>5. \A i \in 0..len : f[i] \in Nat /\ f[i] <= Len(old) /\ f[i] <= i /\ i - f[i] <= Len(new)
  <2> TAKE i \in 0..len
  <2>1. i \in 0..n /\ i <= Len(old) + Len(new)
    BY <1>0, <1>4
  <2>2. f[i] \in Nat
    BY <1>1, <2>1 DEF Follows
  <2> QED
    BY <1>0, <1>1, <2>1, <2>2, TakenWithin
<1>6. \A i \in 1..len : f[i] = AfterStep(old, new, i - 1, f[i - 1]) /\ i - 1 \in 0..len /\ i \in 0..len
  BY <1>1, <1>4 DEF Follows
\* What is taken is not larger than anything left in either list.
<1>7. ASSUME NEW i \in 1..len
      PROVE  /\ \A j \in 1..Len(old) : j > f[i] => merged[i] <= old[j]
             /\ \A j \in 1..Len(new) : j > i - f[i] => merged[i] <= new[j]
  <2> DEFINE o == f[i - 1]
             k == (i - 1) - o
  <2>1. o \in Nat /\ o <= Len(old) /\ k \in Nat /\ k <= Len(new) /\ f[i] \in Nat /\ i - f[i] <= Len(new)
        /\ f[i] <= Len(old) /\ i \in Nat
    BY <1>4, <1>5, <1>6
  <2>s. /\ f[i] = IF TakesOld(old, new, o, k) THEN o + 1 ELSE o
        /\ merged[i] = IF f[i] > o THEN old[f[i]] ELSE new[i - f[i]]
        /\ i = k + o + 1
    BY <1>2, <1>6, <2>1 DEF AfterStep
  <2> HIDE DEF o, k
  <2>o. \A j \in 1..Len(old) : old[j] \in Nat
    OBVIOUS
  <2>n. \A j \in 1..Len(new) : new[j] \in Nat
    OBVIOUS
  <2>2. CASE TakesOld(old, new, o, k)
    <3>1. f[i] = o + 1 /\ merged[i] = old[o + 1] /\ o + 1 \in 1..Len(old) /\ i - f[i] = k
      BY <1>0, <2>s, <2>1, <2>2 DEF TakesOld
    <3>2. \A j \in 1..Len(old) : j > f[i] => merged[i] <= old[j]
      BY <3>1 DEF IsAscending
    <3>3. ASSUME NEW j \in 1..Len(new), j > k PROVE old[o + 1] <= new[j]
      <4>1. k + 1 \in 1..Len(new) /\ new[k + 1] >= old[o + 1]
        BY <1>0, <2>1, <2>2, <3>3 DEF TakesOld
      <4>2. new[k + 1] <= new[j]
        <5>1. CASE j = k + 1
          BY <2>n, <5>1
        <5>2. CASE j # k + 1
          <6>1. k + 1 < j
            BY <1>0, <2>1, <3>3, <5>2
          <6> QED
            BY <4>1, <6>1 DEF IsAscending
        <5> QED
          BY <5>1, <5>2
      <4>3. old[o + 1] \in Nat /\ new[k + 1] \in Nat /\ new[j] \in Nat
        BY <2>o, <2>n, <3>1, <4>1
      <4> QED
        BY <4>1, <4>2, <4>3
    <3> QED
      BY <3>1, <3>2, <3>3
  <2>3. CASE ~TakesOld(old, new, o, k)
    <3>0. f[i] = o
      BY <2>s, <2>3
    <3>1. merged[i] = new[k + 1] /\ k + 1 \in 1..Len(new) /\ i - f[i] = k + 1
      BY <1>0, <2>s, <2>1, <3>0
    <3>2. \A j \in 1..Len(new) : j > i - f[i] => merged[i] <= new[j]
      BY <3>1 DEF IsAscending
    <3>3. ASSUME NEW j \in 1..Len(old), j > o PROVE new[k + 1] <= old[j]
      <4>1. o + 1 \in 1..Len(old) /\ ~(k >= Len(new)) /\ ~(new[k + 1] >= old[o + 1])
        BY <1>0, <2>1, <2>3, <3>1, <3>3 DEF TakesOld
      <4>2. old[o + 1] <= old[j]
        <5>1. CASE j = o + 1
          BY <2>o, <5>1
        <5>2. CASE j # o + 1
          <6>1. o + 1 < j
            BY <1>0, <2>1, <3>3, <5>2
          <6> QED
            BY <4>1, <6>1 DEF IsAscending
        <5> QED
          BY <5>1, <5>2
      <4> QED
        BY <2>o, <2>n, <3>1, <4>1, <4>2
    <3> QED
      BY <3>0, <3>1, <3>2, <3>3
  <2> QED
    BY <2>2, <2>3
<1>8. ASSUME NEW i \in 1..len - 1 PROVE merged[i] <= merged[i + 1]
  <2>1. i \in 1..len /\ i + 1 \in 1..len /\ (i + 1) - 1 = i /\ i \in 0..len /\ i + 1 \in 0..len
    BY <1>4
  <2>2. f[i] \in Nat /\ f[i + 1] \in Nat /\ f[i + 1] <= Len(old) /\ (i + 1) - f[i + 1] <= Len(new)
        /\ f[i] <= i /\ f[i + 1] <= i + 1 /\ i - f[i] <= Len(new)
    BY <1>5, <2>1
  <2>3. f[i + 1] = f[i] \/ f[i + 1] = f[i] + 1
    BY <1>6, <2>1 DEF AfterStep
  <2>4. CASE f[i + 1] > f[i]
    <3>1. merged[i + 1] = old[f[i + 1]] /\ f[i + 1] \in 1..Len(old)
      BY <1>0, <1>2, <2>1, <2>2, <2>4
    <3> QED
      BY <1>7, <2>1, <2>4, <3>1
  <2>5. CASE ~(f[i + 1] > f[i])
    <3>1. f[i + 1] = f[i]
      BY <2>2, <2>3, <2>5
    <3>2. merged[i + 1] = new[(i + 1) - f[i + 1]] /\ (i + 1) - f[i + 1] \in 1..Len(new)
          /\ (i + 1) - f[i + 1] > i - f[i]
      BY <1>0, <1>2, <2>1, <2>2, <2>5, <3>1
    <3> QED
      BY <1>7, <2>1, <3>2
  <2> QED
    BY <2>4, <2>5
<1>9. IsAscending(merged)
  BY <1>3, <1>8, Neighbours
<1> QED
  BY <1>9 DEF merged

-----------------------------------------------------------------------------
(* What is in the merged list.                                             *)

\* The entries of an ascending list up to block b are its first ones.
LEMMA FirstEntries ==
    ASSUME NEW list \in Seq(Nat), IsAscending(list), NEW b \in Nat
    PROVE  \E x \in 0..Len(list) : UpTo(list, b) = 1..x /\ Cardinality(UpTo(list, b)) = x
<1> DEFINE n == Len(list)
           T == {m \in Nat : \A i \in 1..n : list[i] <= b => i <= m}
<1>0. n \in Nat /\ \A i \in 1..n : list[i] \in Nat
  OBVIOUS
<1>1. n \in T
  BY <1>0
<1>2. PICK x \in T : \A y \in T : x <= y
  <2>1. T \subseteq Nat /\ T # {}
    BY <1>1
  <2> HIDE DEF T
  <2> QED
    BY <2>1, Least
<1>3. x \in 0..n /\ \A i \in 1..n : list[i] <= b => i <= x
  BY <1>0, <1>1, <1>2
<1>4. ASSUME NEW i \in 1..x PROVE i \in 1..n /\ list[i] <= b
  <2>1. x - 1 \in Nat /\ x - 1 \notin T
    <3>1. x \in Nat /\ x - 1 \in Nat /\ ~(x <= x - 1)
      BY <1>0, <1>3
    <3> HIDE DEF T
    <3> QED
      BY <1>2, <3>1
  <2>2. x \in 1..n /\ list[x] <= b
    BY <1>0, <1>3, <2>1
  <2>3. i \in 1..n /\ i \in Nat /\ x \in Nat
    BY <1>0, <1>3
  <2>4. CASE i = x
    BY <2>2, <2>4
  <2>5. CASE i # x
    <3>1. list[i] <= list[x]
      BY <2>2, <2>3, <2>5 DEF IsAscending
    <3> QED
      BY <1>0, <2>2, <2>3, <3>1
  <2> QED
    BY <2>4, <2>5
<1>5. UpTo(list, b) = 1..x
  <2>1. \A i \in UpTo(list, b) : i \in 1..x
    BY <1>0, <1>3 DEF UpTo
  <2>2. \A i \in 1..x : i \in UpTo(list, b)
    BY <1>4 DEF UpTo
  <2> QED
    BY <2>1, <2>2
<1>6. Cardinality(1..x) = x
  <2>1. x \in Int /\ 1 \in Int /\ x >= 0
    BY <1>0, <1>3
  <2>2. Cardinality(1..x) = IF 1 > x THEN 0 ELSE x - 1 + 1
    BY <2>1, FS_Interval
  <2> QED
    BY <2>1, <2>2
<1> QED
  BY <1>3, <1>5, <1>6

\* The merge loop leaves nothing out before its array is full, and writes nothing twice: up
\* to each block the merged list has as many entries as both lists together, or is full.
\* In particular what falls off the end are the largest block numbers.
THEOREM MergeCountsAll ==
    ASSUME NEW old \in Seq(Nat), NEW new \in Seq(Nat), NEW n \in Nat, NEW b \in Nat,
           IsAscending(old), IsAscending(new)
    PROVE  Cardinality(UpTo(MergeSteps(old, new, n), b))
              = Shorter(n, Cardinality(UpTo(old, b)) + Cardinality(UpTo(new, b)))
<1> DEFINE f == Taken(old, new, n)
           len == Shorter(n, Len(old) + Len(new))
           merged == MergeSteps(old, new, n)
<1>0. Len(old) \in Nat /\ Len(new) \in Nat
      /\ (\A j \in 1..Len(old) : old[j] \in Nat) /\ \A j \in 1..Len(new) : new[j] \in Nat
  OBVIOUS
<1>1. Follows(old, new, n, f)
  BY TakenFollows
<1>2. merged = [i \in 1..len |-> IF f[i] > f[i - 1] THEN old[f[i]] ELSE new[i - f[i]]]
  BY DEF MergeSteps
<1>3. merged \in Seq(Nat) /\ Len(merged) = len
  BY MergeType
<1>4. len \in Nat /\ len <= n /\ len <= Len(old) + Len(new)
  BY <1>0 DEF Shorter
<1>x. PICK x \in 0..Len(old) : UpTo(old, b) = 1..x /\ Cardinality(UpTo(old, b)) = x
  BY FirstEntries
<1>y. PICK y \in 0..Len(new) : UpTo(new, b) = 1..y /\ Cardinality(UpTo(new, b)) = y
  BY FirstEntries
<1> DEFINE m == Shorter(n, x + y)
<1> HIDE DEF f, merged, len
<1>5. \A i \in 0..len : f[i] \in Nat /\ f[i] <= Len(old) /\ f[i] <= i /\ i - f[i] <= Len(new)
  <2> TAKE i \in 0..len
  <2>1. i \in 0..n /\ i <= Len(old) + Len(new)
    BY <1>0, <1>4
  <2>2. f[i] \in Nat
    BY <1>1, <2>1 DEF Follows
  <2> QED
    BY <1>0, <1>1, <2>1, <2>2, TakenWithin
<1>6. \A i \in 1..len : f[i] = AfterStep(old, new, i - 1, f[i - 1]) /\ i - 1 \in 0..len /\ i \in 0..len
  BY <1>1, <1>4 DEF Follows
<1>7. /\ \A j \in 1..Len(old) : old[j] <= b <=> j <= x
      /\ \A j \in 1..Len(new) : new[j] <= b <=> j <= y
  <2>1. ASSUME NEW j \in 1..Len(old) PROVE old[j] <= b <=> j <= x
    <3>1. j \in UpTo(old, b) <=> old[j] <= b
      BY DEF UpTo
    <3>2. j \in 1..x <=> j <= x
      BY <1>0, <1>x
    <3> QED
      BY <1>x, <3>1, <3>2
  <2>2. ASSUME NEW j \in 1..Len(new) PROVE new[j] <= b <=> j <= y
    <3>1. j \in UpTo(new, b) <=> new[j] <= b
      BY DEF UpTo
    <3>2. j \in 1..y <=> j <= y
      BY <1>0, <1>y
    <3> QED
      BY <1>y, <3>1, <3>2
  <2> QED
    BY <2>1, <2>2
<1>8. x \in Nat /\ y \in Nat /\ x <= Len(old) /\ y <= Len(new) /\ m \in Nat /\ m <= len /\ m <= x + y
      /\ (m = x + y \/ (m = n /\ m = len))
  BY <1>0, <1>4, <1>x, <1>y DEF Shorter, len
<1> HIDE DEF m
\* Up to m, only entries up to b are taken ...
<1>9. \A i \in 0..m : f[i] <= x /\ i - f[i] <= y
  <2> DEFINE S == {i \in Nat : i <= m => f[i] <= x /\ i - f[i] <= y}
  <2>1. 0 \in S
    BY <1>1, <1>8 DEF Follows
  <2>2. ASSUME NEW i \in Nat, i \in S PROVE i + 1 \in S
    <3> SUFFICES ASSUME i + 1 <= m PROVE f[i + 1] <= x /\ (i + 1) - f[i + 1] <= y
      OBVIOUS
    <3> DEFINE o == f[i]
               k == i - o
    <3>1. o \in Nat /\ k \in Nat /\ o <= x /\ k <= y /\ o + k = i /\ i + 1 \in 1..len /\ i < x + y
      BY <1>4, <1>5, <1>8, <2>2
    <3>2. f[i + 1] = IF TakesOld(old, new, o, k) THEN o + 1 ELSE o
      <4>1. (i + 1) - 1 = i
        OBVIOUS
      <4> QED
        BY <1>6, <3>1, <4>1 DEF AfterStep
    <3> HIDE DEF o, k
    <3>3. CASE o < x /\ k < y
      BY <3>1, <3>2, <3>3
    <3>4. CASE o = x
      <4>1. k < y /\ k + 1 \in 1..Len(new) /\ new[k + 1] <= b
        BY <1>0, <1>7, <1>8, <3>1, <3>4
      <4>2. ~TakesOld(old, new, o, k)
        <5> SUFFICES ASSUME o < Len(old), k >= Len(new) \/ new[k + 1] >= old[o + 1] PROVE FALSE
          BY DEF TakesOld
        <5>1. o + 1 \in 1..Len(old)
          BY <1>0, <3>1
        <5>2. ~(old[o + 1] <= b)
          BY <1>7, <1>8, <3>4, <5>1
        <5>3. ~(k >= Len(new)) /\ new[k + 1] \in Nat /\ old[o + 1] \in Nat
          BY <1>0, <3>1, <4>1, <5>1
        <5> QED
          BY <4>1, <5>2, <5>3
      <4> QED
        BY <1>8, <3>1, <3>2, <3>4, <4>1, <4>2
    <3>5. CASE k = y /\ o < x
      <4>1. o + 1 \in 1..Len(old) /\ old[o + 1] <= b
        BY <1>0, <1>7, <1>8, <3>1, <3>5
      <4>2. TakesOld(old, new, o, k)
        <5>1. CASE k >= Len(new)
          BY <1>0, <3>1, <4>1, <5>1 DEF TakesOld
        <5>2. CASE ~(k >= Len(new))
          <6>1. k + 1 \in 1..Len(new)
            BY <1>0, <3>1, <5>2
          <6>2. ~(new[k + 1] <= b)
            BY <1>7, <1>8, <3>5, <6>1
          <6>3. new[k + 1] >= old[o + 1]
            BY <1>0, <4>1, <6>1, <6>2
          <6>4. o < Len(old)
            BY <1>0, <3>1, <4>1
          <6> QED
            BY <6>3, <6>4 DEF TakesOld
        <5> QED
          BY <5>1, <5>2
      <4> QED
        BY <1>8, <3>1, <3>2, <3>5, <4>2
    <3> QED
      BY <1>8, <3>1, <3>3, <3>4, <3>5
  <2> HIDE DEF S
  <2>3. \A i \in Nat : i \in S
    BY <2>1, <2>2, Induction
  <2> QED
    BY <1>8, <2>3 DEF S
\* ... and after it only larger ones are left.
<1>10. \A i \in 0..len : i >= x + y => f[i] >= x /\ i - f[i] >= y
  <2> DEFINE S == {i \in Nat : (x + y) + i <= len => f[(x + y) + i] >= x /\ ((x + y) + i) - f[(x + y) + i] >= y}
  <2>1. 0 \in S
    <3> SUFFICES ASSUME x + y <= len PROVE f[x + y] >= x /\ (x + y) - f[x + y] >= y
      BY <1>8
    <3>1. m = x + y
      BY <1>4, <1>8
    <3>2. x + y \in 0..m /\ x + y \in 0..len
      BY <1>8, <3>1
    <3>3. f[x + y] <= x /\ (x + y) - f[x + y] <= y /\ f[x + y] \in Nat
      BY <1>5, <1>9, <3>2
    <3> QED
      BY <1>8, <3>3
  <2>2. ASSUME NEW i \in Nat, i \in S PROVE i + 1 \in S
    <3> DEFINE j == (x + y) + i
    <3>1. j \in Nat /\ (x + y) + (i + 1) = j + 1
      BY <1>8
    <3> SUFFICES ASSUME j + 1 <= len PROVE f[j + 1] >= x /\ (j + 1) - f[j + 1] >= y
      BY <3>1
    <3>2. f[j] >= x /\ j - f[j] >= y
      BY <1>4, <2>2, <3>1
    <3> HIDE DEF j
    <3>3. j + 1 \in 1..len /\ (j + 1) - 1 = j /\ f[j] \in Nat
      BY <1>4, <1>5, <3>1
    <3>4. f[j + 1] = f[j] \/ f[j + 1] = f[j] + 1
      BY <1>6, <3>3 DEF AfterStep
    <3> QED
      BY <1>8, <3>1, <3>2, <3>3, <3>4
  <2> HIDE DEF S
  <2>3. \A i \in Nat : i \in S
    BY <2>1, <2>2, Induction
  <2>4. ASSUME NEW i \in 0..len, i >= x + y PROVE f[i] >= x /\ i - f[i] >= y
    <3>1. i - (x + y) \in Nat /\ (x + y) + (i - (x + y)) = i /\ i <= len
      BY <1>4, <1>8, <2>4
    <3>2. i - (x + y) \in S
      BY <2>3, <3>1
    <3> QED
      BY <3>1, <3>2 DEF S
  <2> QED
    BY <2>4
<1>11. ASSUME NEW i \in 1..len PROVE merged[i] <= b <=> i <= m
  <2>1. i \in 0..len /\ i - 1 \in 0..len /\ i \in Nat
    BY <1>4
  <2>2. f[i] \in Nat /\ f[i - 1] \in Nat /\ f[i] <= Len(old) /\ f[i] <= i /\ i - f[i] <= Len(new)
        /\ f[i - 1] <= i - 1 /\ (i - 1) - f[i - 1] <= Len(new)
    BY <1>5, <2>1
  <2>3. f[i] = f[i - 1] \/ f[i] = f[i - 1] + 1
    BY <1>6 DEF AfterStep
  <2>4. CASE f[i] = f[i - 1] + 1
    <3>1. merged[i] = old[f[i]] /\ f[i] \in 1..Len(old)
      BY <1>0, <1>2, <2>2, <2>4
    <3>2. i <= m => f[i] <= x
      BY <1>8, <1>9, <2>1
    <3>3. i > m => f[i] > x
      <4> SUFFICES ASSUME i > m PROVE f[i] > x
        OBVIOUS
      <4>1. m = x + y /\ i - 1 >= x + y
        BY <1>4, <1>8, <2>1
      <4>2. f[i - 1] >= x
        BY <1>10, <2>1, <4>1
      <4> QED
        BY <1>8, <2>2, <2>4, <4>2
    <3> QED
      BY <1>7, <1>8, <2>1, <2>2, <3>1, <3>2, <3>3
  <2>5. CASE f[i] = f[i - 1]
    <3>1. merged[i] = new[i - f[i]] /\ i - f[i] \in 1..Len(new)
      BY <1>0, <1>2, <2>1, <2>2, <2>5
    <3>2. i <= m => i - f[i] <= y
      BY <1>8, <1>9, <2>1
    <3>3. i > m => i - f[i] > y
      <4> SUFFICES ASSUME i > m PROVE i - f[i] > y
        OBVIOUS
      <4>1. m = x + y /\ i - 1 >= x + y
        BY <1>4, <1>8, <2>1
      <4>2. (i - 1) - f[i - 1] >= y
        BY <1>10, <2>1, <4>1
      <4> QED
        BY <1>8, <2>1, <2>2, <2>5, <4>2
    <3> QED
      BY <1>7, <1>8, <2>1, <2>2, <3>1, <3>2, <3>3
  <2> QED
    BY <2>3, <2>4, <2>5
<1>12. UpTo(merged, b) = 1..m
  BY <1>3, <1>4, <1>8, <1>11 DEF UpTo
<1>13. Cardinality(1..m) = m
  <2>1. m \in Int /\ 1 \in Int /\ m >= 0
    BY <1>8
  <2>2. Cardinality(1..m) = IF 1 > m THEN 0 ELSE m - 1 + 1
    BY <2>1, FS_Interval
  <2> QED
    BY <2>1, <2>2
<1> QED
  BY <1>12, <1>13, <1>x, <1>y DEF merged, m
=============================================================================
