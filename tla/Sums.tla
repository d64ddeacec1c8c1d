-------------------------------- MODULE Sums --------------------------------
(***************************************************************************)
(* Facts about SumFunctionOnSet, by which Fishing and FishingPrices count  *)
(* contracts: the recursion behind it, its range, and how sums compare.    *)
(* The induction principles of the library take an operator as parameter;  *)
(* here the property to be proved is a set of sets instead.                *)
(***************************************************************************)
EXTENDS Integers, FiniteSets, FiniteSetsExt, Functions, FiniteSetTheorems, TLAPS

-----------------------------------------------------------------------------
(* Induction *)

Less == {ss \in Nat \X Nat : ss[1] < ss[2]}

\* Every set of naturals has a least member.
LEMMA LeastExists ==
  ASSUME NEW S \in SUBSET Nat, S # {}
  PROVE  \E x \in S : \A y \in S : x <= y
<1>1. IsWellFoundedOn(Less, Nat)
  BY NatLessThanWellFounded DEF OpToRel, Less
<1>2. PICK x \in S : \A y \in S : ~(<<y, x>> \in Less)
  BY <1>1, WFMin
<1>3. \A m, n \in Nat : m < n => <<m, n>> \in Less
  BY DEF Less
<1>4. ASSUME NEW y \in S PROVE x <= y
  <2>1. x \in Nat /\ y \in Nat
    OBVIOUS
  <2>2. ~(y < x)
    BY <1>2, <1>3, <2>1
  <2> QED
    BY <2>1, <2>2
<1> QED
  BY <1>4

\* Induction.
LEMMA SetInduction ==
  ASSUME NEW S, 0 \in S, \A n \in Nat : n \in S => n + 1 \in S
  PROVE  \A n \in Nat : n \in S
<1> DEFINE Bad == {n \in Nat : n \notin S}
<1> SUFFICES ASSUME Bad # {} PROVE FALSE
  OBVIOUS
<1>1. PICK x \in Bad : \A y \in Bad : x <= y
  <2> HIDE DEF Bad
  <2>1. Bad \in SUBSET Nat
    BY DEF Bad
  <2> QED
    BY <2>1, LeastExists
<1>2. x # 0 /\ x - 1 \in Nat /\ ~(x <= x - 1)
  OBVIOUS
<1>3. x - 1 \in S
  BY <1>1, <1>2
<1>4. x - 1 + 1 = x
  BY <1>1
<1> QED
  BY <1>2, <1>3, <1>4

LEMMA MinOfNats ==
  ASSUME NEW S \in SUBSET Nat, S # {}
  PROVE  Min(S) \in S /\ \A y \in S : Min(S) <= y
BY LeastExists DEF Min

\* What holds of a subset of a finite set as soon as it holds of the smaller
\* ones holds of all.
LEMMA SubsetInduction ==
  ASSUME NEW T, IsFiniteSet(T), NEW Good,
         \A D \in SUBSET T : (\A E \in SUBSET D : E # D => E \in Good) => D \in Good
  PROVE  \A D \in SUBSET T : D \in Good
<1> SUFFICES ASSUME NEW B \in SUBSET T, B \notin Good PROVE FALSE
  OBVIOUS
<1> DEFINE Bad == {D \in SUBSET T : D \notin Good}
           R == StrictSubsetOrdering(T)
<1>1. IsWellFoundedOn(R, SUBSET T)
  <2>1. IsWellFoundedOn(StrictSubsetOrdering(T), FiniteSubsetsOf(T))
    BY FS_StrictSubsetOrderingWellFounded
  <2>2. FiniteSubsetsOf(T) = SUBSET T
    BY FS_FiniteSubsetsOfFinite
  <2> QED
    BY <2>1, <2>2
<1>2. Bad \subseteq SUBSET T /\ Bad # {}
  OBVIOUS
<1>3. \A D, E \in SUBSET T : E \subseteq D /\ E # D => <<E, D>> \in R
  BY DEF StrictSubsetOrdering
<1> HIDE DEF R, Bad
<1>4. PICK D \in Bad : \A E \in Bad : ~(<<E, D>> \in R)
  BY <1>1, <1>2, WFMin
<1>5. ASSUME NEW E \in SUBSET D, E # D PROVE E \in Good
  <2>1. E \in SUBSET T /\ D \in SUBSET T
    BY <1>2
  <2>2. <<E, D>> \in R
    BY <1>3, <1>5, <2>1
  <2> QED
    BY <1>4, <2>1, <2>2 DEF Bad
<1> QED
  BY <1>2, <1>5 DEF Bad

-----------------------------------------------------------------------------
(* The recursion *)

\* The member of a set that the fold takes first.
Chosen(s) == CHOOSE x \in s : TRUE

\* The recursive function inside the fold.
Iterates(g, f, D) ==
  g = [s \in SUBSET D |-> IF s = {} THEN 0 ELSE f[Chosen(s)] + g[s \ {Chosen(s)}]]

LEMMA SumUnfolds ==
  ASSUME NEW f, NEW D
  PROVE  SumFunctionOnSet(f, D) = (CHOOSE g : Iterates(g, f, D))[D]
BY Zenon DEF SumFunctionOnSet, FoldFunctionOnSet, MapThenFoldSet, Iterates, Chosen

LEMMA ChosenIn == ASSUME NEW s, s # {} PROVE Chosen(s) \in s
BY DEF Chosen

\* A sum is that of a member and of the rest.
LEMMA SumRecursion ==
  ASSUME NEW f, NEW T, IsFiniteSet(T)
  PROVE  \A D \in SUBSET T :
           SumFunctionOnSet(f, D) =
             IF D = {} THEN 0 ELSE f[Chosen(D)] + SumFunctionOnSet(f, D \ {Chosen(D)})
<1> DEFINE Value(s) == IF s = {} THEN 0 ELSE f[Chosen(s)] + SumFunctionOnSet(f, s \ {Chosen(s)})
           Good == {D \in SUBSET T : SumFunctionOnSet(f, D) = Value(D)}
<1>1. ASSUME NEW D \in SUBSET T, \A E \in SUBSET D : E # D => E \in Good
      PROVE  SumFunctionOnSet(f, D) = Value(D)
  <2> DEFINE g == [s \in SUBSET D |-> Value(s)]
  <2>1. ASSUME NEW s \in SUBSET D, s # {}
        PROVE  /\ s \ {Chosen(s)} \in SUBSET D /\ s \ {Chosen(s)} # D /\ s \ {Chosen(s)} # s
               /\ SumFunctionOnSet(f, s \ {Chosen(s)}) = Value(s \ {Chosen(s)})
    <3>1. s \ {Chosen(s)} \in SUBSET D /\ s \ {Chosen(s)} # D /\ s \ {Chosen(s)} # s
      BY <2>1, ChosenIn
    <3>2. s \ {Chosen(s)} \in Good
      BY <1>1, <3>1
    <3> QED
      BY <3>1, <3>2
  <2>2. Iterates(g, f, D)
    <3>1. ASSUME NEW s \in SUBSET D
          PROVE  g[s] = IF s = {} THEN 0 ELSE f[Chosen(s)] + g[s \ {Chosen(s)}]
      <4>1. CASE s = {}
        BY <4>1
      <4>2. CASE s # {}
        <5>1. g[s] = f[Chosen(s)] + SumFunctionOnSet(f, s \ {Chosen(s)})
          BY <4>2
        <5>2. g[s \ {Chosen(s)}] = SumFunctionOnSet(f, s \ {Chosen(s)})
          BY <2>1, <4>2
        <5> QED
          BY <4>2, <5>1, <5>2
      <4> QED
        BY <4>1, <4>2
    <3> HIDE DEF Value
    <3> QED
      BY <3>1 DEF Iterates
  <2> DEFINE h == CHOOSE k : Iterates(k, f, D)
  <2>3. Iterates(h, f, D)
    BY <2>2
  <2>4. SumFunctionOnSet(f, D) = h[D]
    BY SumUnfolds
  <2> HIDE DEF h, g, Value
  <2>5. \A s \in SUBSET D : h[s] = IF s = {} THEN 0 ELSE f[Chosen(s)] + h[s \ {Chosen(s)}]
    BY <2>3 DEF Iterates
  <2> DEFINE Same == {s \in SUBSET D : h[s] = Value(s)}
  <2>6. \A s \in SUBSET D : (\A r \in SUBSET s : r # s => r \in Same) => s \in Same
    <3> SUFFICES ASSUME NEW s \in SUBSET D, \A r \in SUBSET s : r # s => r \in Same
                 PROVE  h[s] = Value(s)
      OBVIOUS
    <3>1. CASE s = {}
      BY <2>5, <3>1 DEF Value
    <3>2. CASE s # {}
      <4>1. s \ {Chosen(s)} \in Same
        BY <2>1, <3>2
      <4>2. h[s \ {Chosen(s)}] = SumFunctionOnSet(f, s \ {Chosen(s)})
        BY <2>1, <3>2, <4>1
      <4> QED
        BY <2>5, <3>2, <4>2 DEF Value
    <3> QED
      BY <3>1, <3>2
  <2>7. IsFiniteSet(D)
    BY FS_Subset
  <2>8. \A s \in SUBSET D : s \in Same
    <3> HIDE DEF Same
    <3> QED
      BY <2>6, <2>7, SubsetInduction
  <2> QED
    BY <2>4, <2>8
<1>2. \A D \in SUBSET T : (\A E \in SUBSET D : E # D => E \in Good) => D \in Good
  <2> HIDE DEF Value
  <2> QED
    BY <1>1
<1>3. \A D \in SUBSET T : D \in Good
  <2> HIDE DEF Good
  <2> QED
    BY <1>2, SubsetInduction
<1> QED
  BY <1>3

-----------------------------------------------------------------------------
(* Sums of integers *)

LEMMA SumEmpty == ASSUME NEW f PROVE SumFunctionOnSet(f, {}) = 0
BY SumRecursion, FS_EmptySet

\* A set that is closed under sums of two contains every sum of its members.
LEMMA SumIn ==
  ASSUME NEW f, NEW T, IsFiniteSet(T), NEW V,
         0 \in V, \A a, b \in V : a + b \in V, \A x \in T : f[x] \in V
  PROVE  SumFunctionOnSet(f, T) \in V
<1> DEFINE Good == {D \in SUBSET T : SumFunctionOnSet(f, D) \in V}
<1>1. ASSUME NEW D \in SUBSET T, \A E \in SUBSET D : E # D => E \in Good
      PROVE  SumFunctionOnSet(f, D) \in V
  <2>1. CASE D = {}
    BY <2>1, SumEmpty
  <2>2. CASE D # {}
    <3>1. Chosen(D) \in D
      BY <2>2, ChosenIn
    <3>2. D \ {Chosen(D)} \in Good
      BY <1>1, <3>1
    <3>3. SumFunctionOnSet(f, D) = f[Chosen(D)] + SumFunctionOnSet(f, D \ {Chosen(D)})
      BY <2>2, SumRecursion
    <3> QED
      BY <3>1, <3>2, <3>3
  <2> QED
    BY <2>1, <2>2
<1>2. \A D \in SUBSET T : D \in Good
  <2>1. \A D \in SUBSET T : (\A E \in SUBSET D : E # D => E \in Good) => D \in Good
    BY <1>1
  <2> HIDE DEF Good
  <2> QED
    BY <2>1, SubsetInduction
<1> QED
  BY <1>2

\* A sum is that of any one member and of the rest.
LEMMA SumPeel ==
  ASSUME NEW f, NEW T, IsFiniteSet(T), \A x \in T : f[x] \in Int
  PROVE  \A x \in T : SumFunctionOnSet(f, T) = f[x] + SumFunctionOnSet(f, T \ {x})
<1> DEFINE Good == {D \in SUBSET T :
                      \A x \in D : SumFunctionOnSet(f, D) = f[x] + SumFunctionOnSet(f, D \ {x})}
<1>1. \A D \in SUBSET T : SumFunctionOnSet(f, D) \in Int
  <2> SUFFICES ASSUME NEW D \in SUBSET T PROVE SumFunctionOnSet(f, D) \in Int
    OBVIOUS
  <2>1. IsFiniteSet(D)
    BY FS_Subset
  <2>2. 0 \in Int /\ \A a, b \in Int : a + b \in Int
    OBVIOUS
  <2> QED
    BY <2>1, <2>2, SumIn
<1>2. ASSUME NEW D \in SUBSET T, \A E \in SUBSET D : E # D => E \in Good, NEW x \in D
      PROVE  SumFunctionOnSet(f, D) = f[x] + SumFunctionOnSet(f, D \ {x})
  <2> DEFINE a == Chosen(D)
  <2>1. a \in D /\ SumFunctionOnSet(f, D) = f[a] + SumFunctionOnSet(f, D \ {a})
    BY ChosenIn, SumRecursion
  <2> HIDE DEF a
  <2>2. CASE x = a
    BY <2>1, <2>2
  <2>3. CASE x # a
    <3>1. D \ {a} \in Good /\ D \ {x} \in Good
      BY <1>2, <2>1
    <3>2. x \in D \ {a} /\ a \in D \ {x} /\ (D \ {a}) \ {x} = (D \ {x}) \ {a}
      BY <2>1, <2>3
    <3>3. SumFunctionOnSet(f, D \ {a}) = f[x] + SumFunctionOnSet(f, (D \ {x}) \ {a})
      BY <3>1, <3>2
    <3>4. SumFunctionOnSet(f, D \ {x}) = f[a] + SumFunctionOnSet(f, (D \ {x}) \ {a})
      BY <3>1, <3>2
    <3>5. f[x] \in Int /\ f[a] \in Int /\ SumFunctionOnSet(f, (D \ {x}) \ {a}) \in Int
      BY <1>1, <2>1
    <3> QED
      BY <2>1, <3>3, <3>4, <3>5
  <2> QED
    BY <2>2, <2>3
<1>3. \A D \in SUBSET T : D \in Good
  <2>1. \A D \in SUBSET T : (\A E \in SUBSET D : E # D => E \in Good) => D \in Good
    BY <1>2
  <2> HIDE DEF Good
  <2> QED
    BY <2>1, SubsetInduction
<1> QED
  BY <1>3

\* Sums of the same terms are equal, and larger terms have the larger sum.
LEMMA SumsCompare ==
  ASSUME NEW f, NEW g, NEW T, IsFiniteSet(T),
         \A x \in T : f[x] \in Int /\ g[x] \in Int /\ f[x] <= g[x]
  PROVE  SumFunctionOnSet(f, T) <= SumFunctionOnSet(g, T)
<1> DEFINE Good == {D \in SUBSET T :
                      /\ SumFunctionOnSet(f, D) \in Int /\ SumFunctionOnSet(g, D) \in Int
                      /\ SumFunctionOnSet(f, D) <= SumFunctionOnSet(g, D)}
<1>1. ASSUME NEW D \in SUBSET T, \A E \in SUBSET D : E # D => E \in Good
      PROVE  D \in Good
  <2>1. CASE D = {}
    BY <2>1, SumEmpty
  <2>2. CASE D # {}
    <3>1. Chosen(D) \in D
      BY <2>2, ChosenIn
    <3>2. D \ {Chosen(D)} \in Good
      BY <1>1, <3>1
    <3>3. /\ SumFunctionOnSet(f, D) = f[Chosen(D)] + SumFunctionOnSet(f, D \ {Chosen(D)})
          /\ SumFunctionOnSet(g, D) = g[Chosen(D)] + SumFunctionOnSet(g, D \ {Chosen(D)})
      BY <2>2, SumRecursion
    <3> QED
      BY <3>1, <3>2, <3>3
  <2> QED
    BY <2>1, <2>2
<1>2. \A D \in SUBSET T : D \in Good
  <2>1. \A D \in SUBSET T : (\A E \in SUBSET D : E # D => E \in Good) => D \in Good
    BY <1>1
  <2> HIDE DEF Good
  <2> QED
    BY <2>1, SubsetInduction
<1> QED
  BY <1>2

\* Terms that are bounded, each but the zeros by another one of a second sum,
\* have the smaller sum.
LEMMA SumInjection ==
  ASSUME NEW f, NEW T, IsFiniteSet(T), \A x \in T : f[x] \in Nat,
         NEW h, NEW U, IsFiniteSet(U), \A y \in U : h[y] \in Nat,
         NEW m, \A x \in T : f[x] # 0 => m[x] \in U /\ f[x] <= h[m[x]],
         \A x, y \in T : f[x] # 0 /\ f[y] # 0 /\ m[x] = m[y] => x = y
  PROVE  SumFunctionOnSet(f, T) <= SumFunctionOnSet(h, U)
<1> DEFINE Good == {D \in SUBSET T : \A V \in SUBSET U :
                      (\A x \in D : f[x] # 0 => m[x] \in V)
                        => SumFunctionOnSet(f, D) <= SumFunctionOnSet(h, V)}
<1>1. /\ \A D \in SUBSET T : SumFunctionOnSet(f, D) \in Nat
      /\ \A V \in SUBSET U : SumFunctionOnSet(h, V) \in Nat
  <2>1. 0 \in Nat /\ \A a, b \in Nat : a + b \in Nat
    OBVIOUS
  <2>2. \A D \in SUBSET T : IsFiniteSet(D)
    BY FS_Subset
  <2>3. \A V \in SUBSET U : IsFiniteSet(V)
    BY FS_Subset
  <2>4. ASSUME NEW D \in SUBSET T PROVE SumFunctionOnSet(f, D) \in Nat
    BY <2>1, <2>2, SumIn
  <2>5. ASSUME NEW V \in SUBSET U PROVE SumFunctionOnSet(h, V) \in Nat
    BY <2>1, <2>3, SumIn
  <2> QED
    BY <2>4, <2>5
<1>2. ASSUME NEW D \in SUBSET T, \A E \in SUBSET D : E # D => E \in Good,
             NEW V \in SUBSET U, \A x \in D : f[x] # 0 => m[x] \in V
      PROVE  SumFunctionOnSet(f, D) <= SumFunctionOnSet(h, V)
  <2>1. CASE D = {}
    BY <1>1, <2>1, SumEmpty
  <2>2. CASE D # {}
    <3> DEFINE a == Chosen(D)
    <3>1. a \in D /\ SumFunctionOnSet(f, D) = f[a] + SumFunctionOnSet(f, D \ {a})
      BY <2>2, ChosenIn, SumRecursion
    <3> HIDE DEF a
    <3>2. D \ {a} \in Good
      BY <1>2, <3>1
    <3>3. CASE f[a] = 0
      <4>1. \A x \in D \ {a} : f[x] # 0 => m[x] \in V
        BY <1>2
      <4>2. SumFunctionOnSet(f, D \ {a}) <= SumFunctionOnSet(h, V)
        BY <1>2, <3>2, <4>1
      <4>3. SumFunctionOnSet(f, D \ {a}) \in Nat
        BY <1>1
      <4> QED
        BY <3>1, <3>3, <4>2, <4>3
    <3>4. CASE f[a] # 0
      <4>1. SumFunctionOnSet(h, V) = h[m[a]] + SumFunctionOnSet(h, V \ {m[a]})
        <5>1. IsFiniteSet(V) /\ m[a] \in V /\ \A y \in V : h[y] \in Int
          BY <1>2, <3>1, <3>4, FS_Subset
        <5> QED
          BY <5>1, SumPeel
      <4>2. SumFunctionOnSet(f, D \ {a}) <= SumFunctionOnSet(h, V \ {m[a]})
        <5>1. V \ {m[a]} \in SUBSET U /\ \A x \in D \ {a} : f[x] # 0 => m[x] \in V \ {m[a]}
          BY <1>2, <3>1, <3>4
        <5> QED
          BY <3>2, <5>1
      <4>3. /\ f[a] \in Nat /\ h[m[a]] \in Nat /\ f[a] <= h[m[a]]
            /\ SumFunctionOnSet(f, D \ {a}) \in Nat /\ SumFunctionOnSet(h, V \ {m[a]}) \in Nat
        BY <1>1, <3>1, <3>4
      <4> QED
        BY <3>1, <4>1, <4>2, <4>3
    <3> QED
      BY <3>3, <3>4
  <2> QED
    BY <2>1, <2>2
<1>3. \A D \in SUBSET T : D \in Good
  <2>1. \A D \in SUBSET T : (\A E \in SUBSET D : E # D => E \in Good) => D \in Good
    BY <1>2
  <2> HIDE DEF Good
  <2> QED
    BY <2>1, SubsetInduction
<1> QED
  BY <1>3

\* No term exceeds the sum.
LEMMA SumBounds ==
  ASSUME NEW f, NEW T, IsFiniteSet(T), \A x \in T : f[x] \in Nat
  PROVE  \A x \in T : f[x] <= SumFunctionOnSet(f, T)
<1> SUFFICES ASSUME NEW x \in T PROVE f[x] <= SumFunctionOnSet(f, T)
  OBVIOUS
<1>1. SumFunctionOnSet(f, T) = f[x] + SumFunctionOnSet(f, T \ {x})
  BY SumPeel
<1>2. SumFunctionOnSet(f, T \ {x}) \in Nat
  <2>1. IsFiniteSet(T \ {x}) /\ 0 \in Nat /\ \A a, b \in Nat : a + b \in Nat
    BY FS_Subset
  <2> QED
    BY <2>1, SumIn
<1> QED
  BY <1>1, <1>2

\* A sum over an interval ends with its last term.
LEMMA SumUpTo ==
  ASSUME NEW f, NEW n \in Nat \ {0}, \A k \in 1..n : f[k] \in Int
  PROVE  SumFunctionOnSet(f, 1..n) = f[n] + SumFunctionOnSet(f, 1..(n - 1))
<1>1. IsFiniteSet(1..n)
  BY FS_Interval
<1>2. (1..n) \ {n} = 1..(n - 1) /\ n \in 1..n
  OBVIOUS
<1> QED
  BY <1>1, <1>2, SumPeel
=============================================================================
