------------------------------ MODULE Counting ------------------------------
(***************************************************************************)
(* Lemmas on the number of tasks in a set, when a step changes the place   *)
(* of one of them, and on the least and the greatest of some numbers: an   *)
(* argument by induction looks at the least counterexample.                *)
(***************************************************************************)
EXTENDS Integers, FiniteSets, FiniteSetTheorems, WellFoundedInduction, TLAPS

\* How often x is in a set: what it adds to the number of its members.
In(x, S) == IF x \in S THEN 1 ELSE 0

\* A part of a finite set has a size.
LEMMA SizeType ==
  ASSUME NEW T, IsFiniteSet(T), NEW A, A \subseteq T
  PROVE  IsFiniteSet(A) /\ Cardinality(A) \in Nat
BY FS_Subset, FS_CardinalityType

\* Two sets that agree but for x have sizes that differ by x.
LEMMA SizeMoves ==
  ASSUME NEW T, IsFiniteSet(T), NEW A, A \subseteq T, NEW B, B \subseteq T,
         NEW x, \A y \in T \ {x} : y \in A <=> y \in B
  PROVE  Cardinality(B) = Cardinality(A) + In(x, B) - In(x, A)
<1>1. IsFiniteSet(A) /\ Cardinality(A) \in Nat /\ IsFiniteSet(B) /\ Cardinality(B) \in Nat
  BY SizeType
<1>2. A \ {x} = B \ {x}
  OBVIOUS
<1>3. /\ Cardinality(A \ {x}) = IF x \in A THEN Cardinality(A) - 1 ELSE Cardinality(A)
      /\ Cardinality(B \ {x}) = IF x \in B THEN Cardinality(B) - 1 ELSE Cardinality(B)
  BY <1>1, FS_RemoveElement
<1> QED BY <1>1, <1>2, <1>3 DEF In

\* A set with a member is not of size 0.
LEMMA SizePositive ==
  ASSUME NEW T, IsFiniteSet(T), NEW A, A \subseteq T
  PROVE  Cardinality(A) = 0 <=> A = {}
BY SizeType, FS_EmptySet

\* A set of at most one member has no other.
LEMMA SizeOne ==
  ASSUME NEW T, IsFiniteSet(T), NEW A, A \subseteq T, Cardinality(A) <= 1, NEW x \in A
  PROVE  A = {x}
<1>1. IsFiniteSet(A) /\ Cardinality(A) \in Nat
  BY SizeType
<1>2. IsFiniteSet(A \ {x}) /\ Cardinality(A \ {x}) = Cardinality(A) - 1
  BY <1>1, FS_RemoveElement
<1>3. Cardinality(A \ {x}) = 0
  <2>1. Cardinality(A \ {x}) \in Nat
    BY <1>2, FS_CardinalityType
  <2> QED BY <1>1, <1>2, <2>1
<1>4. A \ {x} = {}
  BY <1>2, <1>3, FS_EmptySet
<1> QED BY <1>4

LEMMA LeastNat ==
  ASSUME NEW S \in SUBSET Nat, S # {}
  PROVE  \E x \in S : \A y \in S : x <= y
<1> DEFINE R == OpToRel(<, Nat)
<1>1. \E x \in S : \A y \in S : ~(<<y, x>> \in R)
  <2>1. IsWellFoundedOn(R, Nat)
    BY NatLessThanWellFounded, Zenon
  <2> HIDE DEF R
  <2> QED BY <2>1, WFMin, Zenon
<1>2. PICK x \in S : \A y \in S : ~(<<y, x>> \in R)
  BY <1>1, Zenon
<1>3. \A y \in S : ~(y < x)
  BY <1>2 DEF OpToRel
<1> QED BY <1>3

LEMMA GreatestNat ==
  ASSUME NEW S \in SUBSET Nat, S # {}, NEW bound \in Nat, \A y \in S : y <= bound
  PROVE  \E x \in S : \A y \in S : y <= x
<1> DEFINE T == {bound - y : y \in S}
<1>1. \A y \in S : y \in Nat /\ bound - y \in Nat
  OBVIOUS
<1>2. T \in SUBSET Nat /\ T # {}
  BY <1>1
<1>3. PICK d \in T : \A e \in T : d <= e
  BY <1>2, LeastNat
<1>4. PICK x \in S : d = bound - x
  OBVIOUS
<1>5. \A y \in S : bound - x <= bound - y
  BY <1>3, <1>4
<1> QED BY <1>1, <1>5

-----------------------------------------------------------------------------
(* Sums over finite sets.                                                  *)

Some(s) == CHOOSE x \in s : TRUE

\* g[s] is what a fold over s, which takes one member after another, makes of f.
Sums(f, g, S) ==
  g = [s \in SUBSET S |-> IF s = {} THEN 0 ELSE f[Some(s)] + g[s \ {Some(s)}]]

LEMMA SomeIn ==
  ASSUME NEW S, IsFiniteSet(S), NEW s \in SUBSET S, s # {}
  PROVE  /\ Some(s) \in s /\ IsFiniteSet(s) /\ Cardinality(s) \in Nat
         /\ \A x \in s : Cardinality(s \ {x}) = Cardinality(s) - 1 /\ s \ {x} \in SUBSET S
<1>1. Some(s) \in s
  BY DEF Some
<1>2. IsFiniteSet(s) /\ Cardinality(s) \in Nat
  BY FS_Subset, FS_CardinalityType
<1> QED BY <1>1, <1>2, FS_RemoveElement

LEMMA SumsExist ==
  ASSUME NEW S, IsFiniteSet(S), NEW f \in [S -> Nat]
  PROVE  \E g \in [SUBSET S -> Nat] : Sums(f, g, S)
<1> DEFINE Rhs(g, s) == IF s = {} THEN 0 ELSE f[Some(s)] + g[s \ {Some(s)}]
           Upto(g, n) == \A s \in SUBSET S : Cardinality(s) <= n => g[s] = Rhs(g, s)
           Without == {n \in Nat : ~ \E g \in [SUBSET S -> Nat] : Upto(g, n)}
<1>1. \A s \in SUBSET S : IsFiniteSet(s) /\ Cardinality(s) \in Nat /\ Cardinality(s) <= Cardinality(S)
  BY FS_Subset, FS_CardinalityType
<1>2. \A s \in SUBSET S : s # {} => /\ Some(s) \in s /\ Some(s) \in S
                                   /\ Cardinality(s \ {Some(s)}) = Cardinality(s) - 1
                                   /\ s \ {Some(s)} \in SUBSET S
  BY SomeIn
<1>3. \A s \in SUBSET S : Cardinality(s) = 0 => s = {}
  BY <1>1, FS_EmptySet
<1>4. Without = {}
  <2> SUFFICES ASSUME Without # {} PROVE FALSE
    OBVIOUS
  <2>1. PICK n \in Without : \A m \in Without : n <= m
    <3>1. Without \in SUBSET Nat
      OBVIOUS
    <3> HIDE DEF Without
    <3> QED BY <3>1, LeastNat
  <2>2. n \in Nat /\ ~ \E g \in [SUBSET S -> Nat] : Upto(g, n)
    OBVIOUS
  <2>3. CASE n = 0
    <3>1. [s \in SUBSET S |-> 0] \in [SUBSET S -> Nat] /\ Upto([s \in SUBSET S |-> 0], 0)
      BY <1>1, <1>3
    <3> QED BY <2>2, <2>3, <3>1
  <2>4. CASE n # 0
    <3>1. n - 1 \in Nat /\ ~(n <= n - 1)
      BY <2>2, <2>4
    <3>2. n - 1 \notin Without
      <4> HIDE DEF Without
      <4> QED BY <2>1, <3>1
    <3>3. PICK h \in [SUBSET S -> Nat] : Upto(h, n - 1)
      BY <3>1, <3>2
    <3> DEFINE g == [s \in SUBSET S |-> Rhs(h, s)]
    <3>4. g \in [SUBSET S -> Nat]
      <4>1. \A s \in SUBSET S : Rhs(h, s) \in Nat
        <5> SUFFICES ASSUME NEW s \in SUBSET S, s # {} PROVE f[Some(s)] + h[s \ {Some(s)}] \in Nat
          OBVIOUS
        <5>1. f[Some(s)] \in Nat /\ h[s \ {Some(s)}] \in Nat
          BY <1>2
        <5> QED BY <5>1
      <4> QED BY <4>1
    <3>5. ASSUME NEW s \in SUBSET S, Cardinality(s) <= n PROVE g[s] = Rhs(g, s)
      <4>1. CASE s = {}
        BY <4>1
      <4>2. CASE s # {}
        <5> DEFINE r == s \ {Some(s)}
        <5>1. r \in SUBSET S /\ Cardinality(r) <= n - 1
          BY <1>1, <1>2, <2>2, <3>5, <4>2
        <5>2. h[r] = Rhs(h, r) /\ g[r] = Rhs(h, r)
          BY <3>3, <5>1
        <5>3. g[s] = f[Some(s)] + h[r]
          BY <4>2
        <5> QED BY <4>2, <5>2, <5>3
      <4> QED BY <4>1, <4>2
    <3> HIDE DEF g, Rhs
    <3>6. Upto(g, n)
      BY <3>5
    <3> QED BY <2>2, <3>4, <3>6
  <2> QED BY <2>3, <2>4
<1>5. PICK g \in [SUBSET S -> Nat] : Upto(g, Cardinality(S))
  BY <1>1, <1>4
<1>6. \A s \in SUBSET S : g[s] = Rhs(g, s)
  BY <1>1, <1>5
<1>7. g = [s \in SUBSET S |-> g[s]]
  OBVIOUS
<1> QED BY <1>6, <1>7 DEF Sums

LEMMA SumsType ==
  ASSUME NEW S, IsFiniteSet(S), NEW f \in [S -> Nat], NEW g, Sums(f, g, S)
  PROVE  g \in [SUBSET S -> Nat] /\ g[{}] = 0
<1> DEFINE Sizes == {Cardinality(s) : s \in {s \in SUBSET S : g[s] \notin Nat}}
<1>1. \A s \in SUBSET S : IsFiniteSet(s) /\ Cardinality(s) \in Nat
  BY FS_Subset, FS_CardinalityType
<1>2. g[{}] = 0 /\ \A s \in SUBSET S : s # {} => g[s] = f[Some(s)] + g[s \ {Some(s)}]
  BY DEF Sums
<1>3. Sizes = {}
  <2> SUFFICES ASSUME Sizes # {} PROVE FALSE
    OBVIOUS
  <2>1. Sizes \in SUBSET Nat
    BY <1>1
  <2>2. PICK n \in Sizes : \A m \in Sizes : n <= m
    <3> HIDE DEF Sizes
    <3> QED BY <2>1, LeastNat
  <2>3. PICK s \in SUBSET S : g[s] \notin Nat /\ n = Cardinality(s)
    OBVIOUS
  <2>4. s # {}
    <3>1. g[{}] \in Nat
      BY <1>2
    <3> HIDE DEF Sizes
    <3> QED BY <2>3, <3>1, Zenon
  <2>5. /\ Some(s) \in s /\ s \ {Some(s)} \in SUBSET S
        /\ Cardinality(s \ {Some(s)}) = Cardinality(s) - 1 /\ Cardinality(s) \in Nat
    BY <2>4, SomeIn
  <2>6. Cardinality(s \ {Some(s)}) \notin Sizes
    <3> HIDE DEF Sizes
    <3> QED BY <2>2, <2>3, <2>5
  <2>7. g[s \ {Some(s)}] \in Nat
    BY <2>5, <2>6
  <2>8. f[Some(s)] \in Nat
    BY <2>5
  <2> QED BY <1>2, <2>3, <2>4, <2>7, <2>8
<1>4. \A s \in SUBSET S : g[s] \in Nat
  BY <1>3
<1>5. g = [s \in SUBSET S |-> g[s]]
  BY DEF Sums
<1> QED BY <1>2, <1>4, <1>5

\* The order in which the fold takes the members does not matter.
Additive(f, g, S) == \A s \in SUBSET S : \A x \in S \ s : g[s \cup {x}] = g[s] + f[x]

LEMMA SumsAdditive ==
  ASSUME NEW S, IsFiniteSet(S), NEW f \in [S -> Nat], NEW g, Sums(f, g, S)
  PROVE  g \in [SUBSET S -> Nat] /\ g[{}] = 0 /\ Additive(f, g, S)
<1> DEFINE Fails == {s \in SUBSET S : \E x \in S \ s : g[s \cup {x}] # g[s] + f[x]}
           Sizes == {Cardinality(s) : s \in Fails}
<1>0. g \in [SUBSET S -> Nat] /\ g[{}] = 0
  BY SumsType
<1> SUFFICES ASSUME Fails # {} PROVE FALSE
  BY <1>0 DEF Additive
<1>1. \A s \in SUBSET S : IsFiniteSet(s) /\ Cardinality(s) \in Nat
  BY FS_Subset, FS_CardinalityType
<1>2. \A s \in SUBSET S : s # {} => g[s] = f[Some(s)] + g[s \ {Some(s)}]
  BY DEF Sums
<1>3. PICK s \in Fails : \A r \in Fails : Cardinality(s) <= Cardinality(r)
  <2>1. \A r \in Fails : Cardinality(r) \in Nat
    BY <1>1
  <2> HIDE DEF Fails
  <2>2. Sizes \in SUBSET Nat /\ Sizes # {}
    BY <2>1
  <2>3. PICK n \in Sizes : \A m \in Sizes : n <= m
    <3> HIDE DEF Sizes
    <3> QED BY <2>2, LeastNat
  <2> QED BY <2>3
<1>4. s \in SUBSET S /\ \E x \in S \ s : g[s \cup {x}] # g[s] + f[x]
  OBVIOUS
<1>5. PICK x \in S \ s : g[s \cup {x}] # g[s] + f[x]
  BY <1>4
<1>6. PICK T, y : T = s \cup {x} /\ y = Some(T)
  OBVIOUS
<1>7. y \in T /\ T \in SUBSET S /\ g[T] = f[y] + g[T \ {y}]
  <2>1. T \in SUBSET S /\ T # {}
    BY <1>4, <1>6
  <2> HIDE DEF Fails
  <2>2. Some(T) \in T
    BY <2>1, SomeIn
  <2>3. g[T] = f[Some(T)] + g[T \ {Some(T)}]
    BY <1>2, <2>1
  <2> QED BY <1>6, <2>1, <2>2, <2>3
<1>8. \A r \in SUBSET S : Cardinality(r) < Cardinality(s) =>
        \A z \in S \ r : g[r \cup {z}] = g[r] + f[z]
  <2> SUFFICES ASSUME NEW r \in SUBSET S, Cardinality(r) < Cardinality(s)
               PROVE  r \notin Fails
    OBVIOUS
  <2>1. ~(Cardinality(s) <= Cardinality(r))
    BY <1>1, <1>4
  <2> HIDE DEF Fails
  <2> QED BY <1>3, <2>1
<1> HIDE DEF Fails, Sizes
<1>9. CASE y = x
  <2>1. T \ {y} = s
    BY <1>6, <1>9
  <2>2. f[x] \in Nat /\ g[s] \in Nat
    BY <1>0, <1>4
  <2>3. g[T] = f[x] + g[s]
    BY <1>7, <1>9, <2>1
  <2>4. g[T] # g[s] + f[x]
    BY <1>5, <1>6
  <2> QED BY <2>2, <2>3, <2>4
<1>10. CASE y # x
  <2>1. y \in s /\ s # {}
    BY <1>6, <1>7, <1>10
  <2>2. PICK r : r = s \ {y}
    OBVIOUS
  <2>3. Cardinality(r) = Cardinality(s) - 1 /\ r \in SUBSET S
    BY <1>4, <2>1, <2>2, SomeIn
  <2>4. T \ {y} = r \cup {x} /\ r \cup {y} = s /\ x \in S \ r /\ y \in S \ r
    BY <1>4, <1>6, <1>10, <2>1, <2>2
  <2>5. Cardinality(r) < Cardinality(s)
    BY <1>1, <1>4, <2>3
  <2>6. g[r \cup {x}] = g[r] + f[x] /\ g[r \cup {y}] = g[r] + f[y]
    BY <1>8, <2>3, <2>4, <2>5
  <2>7. g[r] \in Nat /\ f[x] \in Nat /\ f[y] \in Nat
    BY <1>0, <2>3, <2>4
  <2>8. g[s] = g[r] + f[y] /\ g[T] = f[y] + (g[r] + f[x]) /\ g[T] # g[s] + f[x]
    BY <1>5, <1>6, <1>7, <2>4, <2>6
  <2> QED BY <2>7, <2>8
<1> QED BY <1>9, <1>10

-----------------------------------------------------------------------------
(* Folds over sequences.                                                   *)

\* Induction from 0 to n, for a set.
LEMMA Upwards ==
  ASSUME NEW n \in Nat, NEW A, 0 \in A, \A k \in 1 .. n : k - 1 \in A => k \in A
  PROVE  \A k \in 0 .. n : k \in A
<1> DEFINE Out == {k \in 0 .. n : k \notin A}
<1> SUFFICES ASSUME Out # {} PROVE FALSE
  OBVIOUS
<1>1. PICK k \in Out : \A i \in Out : k <= i
  <2>1. Out \in SUBSET Nat
    OBVIOUS
  <2> HIDE DEF Out
  <2> QED BY <2>1, LeastNat
<1>2. k \in 1 .. n /\ k - 1 \in 0 .. n /\ ~(k <= k - 1) /\ k \notin A
  OBVIOUS
<1>3. k - 1 \in A
  BY <1>1, <1>2
<1> QED BY <1>2, <1>3

Top(s) == CHOOSE x \in s : \A y \in s : x >= y

\* The last of the first k places.
LEMMA Prefix ==
  /\ 1 .. 0 = {}
  /\ \A k \in Nat \ {0} : /\ 1 .. k # {} /\ Top(1 .. k) = k
                          /\ (1 .. k) \ {k} = 1 .. (k - 1)
<1>1. 1 .. 0 = {}
  OBVIOUS
<1>2. ASSUME NEW k \in Nat \ {0}
      PROVE  1 .. k # {} /\ Top(1 .. k) = k /\ (1 .. k) \ {k} = 1 .. (k - 1)
  <2>1. k \in 1 .. k /\ \A y \in 1 .. k : k >= y
    OBVIOUS
  <2>2. \A x \in 1 .. k : (\A y \in 1 .. k : x >= y) => x = k
    BY <2>1
  <2>3. Top(1 .. k) = k
    BY <2>1, <2>2 DEF Top
  <2> QED BY <2>1, <2>3
<1> QED BY <1>1, <1>2

LEMMA TopIn ==
  ASSUME NEW n \in Nat, NEW s \in SUBSET (1 .. n), s # {}
  PROVE  Top(s) \in s
<1>1. s \in SUBSET Nat /\ \A y \in s : y <= n
  OBVIOUS
<1>2. \E x \in s : \A y \in s : y <= x
  BY <1>1, GreatestNat
<1>3. \E x \in s : \A y \in s : x >= y
  BY <1>1, <1>2
<1> QED BY <1>3 DEF Top

\* g[u] is what a fold from the left over the places u makes of base, by op for each place.
FoldsTo(op, base, g, n) ==
  \A u \in SUBSET (1 .. n) :
    g[u] = IF u = {} THEN base ELSE op[<<g[u \ {Top(u)}], Top(u)>>]

LEMMA FoldExists ==
  ASSUME NEW n \in Nat, NEW V, NEW base \in V, NEW op \in [V \X (1 .. n) -> V]
  PROVE  \E g \in [SUBSET (1 .. n) -> V] : FoldsTo(op, base, g, n)
<1> DEFINE S == 1 .. n
           Rhs(g, s) == IF s = {} THEN base ELSE op[<<g[s \ {Top(s)}], Top(s)>>]
           Upto(g, m) == \A s \in SUBSET S : Cardinality(s) <= m => g[s] = Rhs(g, s)
           With == {m \in Nat : \E g \in [SUBSET S -> V] : Upto(g, m)}
<1>0. IsFiniteSet(S)
  BY FS_Interval
<1>1. \A s \in SUBSET S : IsFiniteSet(s) /\ Cardinality(s) \in Nat /\ Cardinality(s) <= Cardinality(S)
  BY <1>0, FS_Subset, FS_CardinalityType
<1>2. ASSUME NEW s \in SUBSET S, s # {}
      PROVE  /\ Top(s) \in s /\ Top(s) \in S
             /\ Cardinality(s \ {Top(s)}) = Cardinality(s) - 1 /\ s \ {Top(s)} \in SUBSET S
  <2>1. Top(s) \in s
    BY <1>2, TopIn
  <2> QED BY <1>1, <2>1, FS_RemoveElement
<1>3. \A s \in SUBSET S : Cardinality(s) = 0 => s = {}
  BY <1>1, FS_EmptySet
<1>4. 0 \in With
  <2> DEFINE g == [s \in SUBSET S |-> base]
  <2>1. g \in [SUBSET S -> V] /\ Upto(g, 0)
    BY <1>1, <1>3
  <2> HIDE DEF g, Upto
  <2> QED BY <2>1
<1>5. ASSUME NEW m \in 1 .. Cardinality(S), m - 1 \in With
      PROVE  m \in With
  <2>1. PICK h \in [SUBSET S -> V] : Upto(h, m - 1)
    BY <1>5
  <2> DEFINE g == [s \in SUBSET S |-> Rhs(h, s)]
  <2>2. g \in [SUBSET S -> V]
    <3>1. ASSUME NEW s \in SUBSET S PROVE Rhs(h, s) \in V
      <4>1. CASE s = {}
        BY <4>1
      <4>2. CASE s # {}
        <5>1. h[s \ {Top(s)}] \in V /\ Top(s) \in S
          BY <1>2, <4>2
        <5> QED BY <4>2, <5>1
      <4> QED BY <4>1, <4>2
    <3> QED BY <3>1
  <2>3. ASSUME NEW s \in SUBSET S, Cardinality(s) <= m PROVE g[s] = Rhs(g, s)
    <3>1. CASE s = {}
      BY <3>1
    <3>2. CASE s # {}
      <4> DEFINE r == s \ {Top(s)}
      <4>1. r \in SUBSET S /\ Cardinality(r) <= m - 1
        <5>1. Cardinality(r) = Cardinality(s) - 1 /\ r \in SUBSET S /\ Cardinality(s) \in Nat
          BY <1>1, <1>2, <3>2
        <5> QED BY <2>3, <5>1
      <4>2. h[r] = Rhs(h, r) /\ g[r] = Rhs(h, r)
        BY <2>1, <4>1
      <4>3. g[s] = op[<<h[r], Top(s)>>]
        BY <3>2
      <4> QED BY <3>2, <4>2, <4>3
    <3> QED BY <3>1, <3>2
  <2>4. m \in Nat
    BY <1>1
  <2> HIDE DEF g, Rhs
  <2>5. Upto(g, m)
    BY <2>3
  <2> QED BY <2>2, <2>4, <2>5
<1>6. Cardinality(S) \in With
  <2>1. Cardinality(S) \in Nat
    BY <1>1
  <2> HIDE DEF With
  <2>2. \A k \in 0 .. Cardinality(S) : k \in With
    BY <1>4, <1>5, <2>1, Upwards
  <2> QED BY <2>1, <2>2
<1>7. PICK g \in [SUBSET S -> V] : Upto(g, Cardinality(S))
  BY <1>6
<1>8. \A s \in SUBSET S : g[s] = Rhs(g, s)
  BY <1>1, <1>7
<1> QED BY <1>8 DEF FoldsTo

-----------------------------------------------------------------------------
(* Products and quotients.                                                 *)

\* Products grow with their factors.
LEMMA Grows ==
  ASSUME NEW x \in Nat, NEW y \in Nat, NEW z \in Nat, x <= y
  PROVE  x * z <= y * z /\ z * x <= z * y /\ x * z \in Nat
<1>1. (y - x) * z >= 0
  BY SMT
<1> QED BY <1>1, SMT

\* The quotient is the number of times that the divisor fits.
LEMMA Quotient ==
  ASSUME NEW x \in Nat, NEW d \in Nat \ {0}
  PROVE  x \div d \in Nat /\ (x \div d) * d <= x /\ x < ((x \div d) + 1) * d
BY SMT

\* What is below the divisor is its own remainder.
LEMMA Remainder ==
  ASSUME NEW x \in Nat, NEW d \in Nat \ {0}, x < d
  PROVE  x % d = x
BY SMT

\* A quotient grows with what is divided.
LEMMA QuotientGrows ==
  ASSUME NEW x \in Nat, NEW y \in Nat, NEW d \in Nat \ {0}, x <= y
  PROVE  x \div d <= y \div d
<1>1. x \div d \in Nat /\ (x \div d) * d <= x /\ y \div d \in Nat /\ y < ((y \div d) + 1) * d
  BY Quotient
<1> SUFFICES ASSUME (y \div d) + 1 <= x \div d PROVE FALSE
  BY <1>1
<1>2. ((y \div d) + 1) * d <= (x \div d) * d
  BY <1>1, Grows
<1> QED BY <1>1, <1>2

=============================================================================
