------------------------------ MODULE FiniteSums ------------------------------
(***************************************************************************)
(* Facts about the sums and maxima the models are built from.  Induction   *)
(* over a finite set is by a minimal counterexample: the strict subsets of *)
(* a finite set are well founded (FiniteSetTheorems).                      *)
(***************************************************************************)
EXTENDS Integers, FiniteSets, FiniteSetsExt, Functions, FiniteSetTheorems, TLAPS

\* A non-empty set of subsets of a finite set has a member minimal in it.
HasMinimal(B) == \E T \in B : \A U \in B : U \subseteq T => U = T
LEMMA MinimalSubset ==
  ASSUME NEW S, IsFiniteSet(S), NEW B, B \subseteq SUBSET S, B # {}
  PROVE  HasMinimal(B)
<1>1. B \subseteq FiniteSubsetsOf(S)  BY FS_FiniteSubsetsOfFinite
<1>2. PICK T \in B : \A U \in B : ~(<<U, T>> \in StrictSubsetOrdering(S))
  BY <1>1, FS_StrictSubsetOrderingWellFounded, WFMin
<1>3. ASSUME NEW U \in B, U \subseteq T  PROVE U = T
  <2>1. <<U, T>> \in (SUBSET S) \X (SUBSET S)  OBVIOUS
  <2>2. <<U, T>>[1] = U /\ <<U, T>>[2] = T  OBVIOUS
  <2> QED  BY <1>2, <1>3, <2>1, <2>2 DEF StrictSubsetOrdering
<1> QED  BY <1>3 DEF HasMinimal
-----------------------------------------------------------------------------
(* The sum of a function, as a partial sum over the subsets of its domain. *)

Extended(f, g) ==
    [s \in SUBSET DOMAIN f |-> IF s = {} THEN 0
                               ELSE LET x == CHOOSE x \in s : TRUE IN f[x] + g[s \ {x}]]
Partial(f) == CHOOSE g : g = Extended(f, g)

LEMMA SumIsPartial == ASSUME NEW f  PROVE SumFunction(f) = Partial(f)[DOMAIN f]
  BY DEF SumFunction, SumFunctionOnSet, FoldFunctionOnSet, MapThenFoldSet, Partial, Extended

\* One step of the recursion is well defined: over a finite domain it has a solution.
LEMMA PartialExtends ==
  ASSUME NEW f, IsFiniteSet(DOMAIN f)
  PROVE  Partial(f) = Extended(f, Partial(f))
<1> DEFINE D == DOMAIN f
           Solves(g, n) == \A s \in SUBSET D : Cardinality(s) <= n => g[s] = Extended(f, g)[s]
           B == {T \in SUBSET D : ~\E g : Solves(g, Cardinality(T))}
<1>1. \A s \in SUBSET D : IsFiniteSet(s) /\ Cardinality(s) \in Nat
  BY FS_Subset, FS_CardinalityType
<1>2. ASSUME NEW g, NEW s \in SUBSET D
      PROVE  Extended(f, g)[s] = IF s = {} THEN 0
                                 ELSE LET x == CHOOSE x \in s : TRUE IN f[x] + g[s \ {x}]
  BY DEF Extended
<1>3. B = {}
  <2> SUFFICES ASSUME B # {} PROVE FALSE
    OBVIOUS
  <2>0. B \subseteq SUBSET D  OBVIOUS
  <2>1. PICK T \in B : \A U \in B : U \subseteq T => U = T
    <3> HIDE DEF B
    <3>1. HasMinimal(B)  BY <2>0, MinimalSubset
    <3> QED  BY <3>1 DEF HasMinimal
  <2>2. CASE T = {}
    <3> DEFINE z == [s \in SUBSET D |-> 0]
    <3>1. \A s \in SUBSET D : Cardinality(s) <= 0 => s = {}  BY <1>1, FS_EmptySet
    <3>2. Solves(z, 0)  BY <1>2, <3>1
    <3> QED  BY <2>1, <2>2, <3>2, FS_EmptySet
  <2>3. CASE T # {}
    <3>1. PICK x \in T : TRUE  BY <2>3
    <3>2. T \ {x} \in SUBSET D /\ T \ {x} \notin B  BY <2>1, <3>1
    <3>3. PICK g : Solves(g, Cardinality(T \ {x}))  BY <3>2
    <3>4. Cardinality(T) \in Nat /\ Cardinality(T \ {x}) = Cardinality(T) - 1
      BY <1>1, <3>1, FS_RemoveElement
    <3> DEFINE h == Extended(f, g)
    <3>5. ASSUME NEW s \in SUBSET D, Cardinality(s) <= Cardinality(T)
          PROVE  h[s] = Extended(f, h)[s]
      <4>1. CASE s = {}  BY <1>2, <4>1
      <4>2. CASE s # {}
        <5> DEFINE c == CHOOSE c \in s : TRUE
        <5>1. c \in s  BY <4>2
        <5>2. s \ {c} \in SUBSET D /\ Cardinality(s \ {c}) <= Cardinality(T \ {x})
          <6> HIDE DEF c
          <6>1. Cardinality(s \ {c}) = Cardinality(s) - 1  BY <1>1, <5>1, FS_RemoveElement
          <6>2. Cardinality(s) \in Nat  BY <1>1
          <6> QED  BY <3>4, <3>5, <6>1, <6>2
        <5>3. g[s \ {c}] = h[s \ {c}]  BY <3>3, <5>2
        <5>4. h[s] = f[c] + g[s \ {c}]  BY <1>2, <4>2
        <5>5. Extended(f, h)[s] = f[c] + h[s \ {c}]  BY <1>2, <4>2
        <5> QED  BY <5>3, <5>4, <5>5
      <4> QED  BY <4>1, <4>2
    <3>6. Solves(h, Cardinality(T))  BY <3>5
    <3> QED  BY <2>1, <3>6
  <2> QED  BY <2>2, <2>3
<1>4. PICK g : Solves(g, Cardinality(D))  BY <1>3
<1>5. \A s \in SUBSET D : Cardinality(s) <= Cardinality(D)  BY FS_Subset
<1> DEFINE h == Extended(f, g)
<1>6. \A s \in SUBSET D : h[s] = g[s]  BY <1>4, <1>5
<1>7. h = Extended(f, h)
  <2>1. ASSUME NEW s \in SUBSET D  PROVE h[s] = Extended(f, h)[s]
    <3>1. CASE s = {}  BY <1>2, <3>1
    <3>2. CASE s # {}
      <4> DEFINE c == CHOOSE c \in s : TRUE
      <4>1. s \ {c} \in SUBSET D  OBVIOUS
      <4>2. h[s] = f[c] + g[s \ {c}]  BY <1>2, <3>2
      <4>3. Extended(f, h)[s] = f[c] + h[s \ {c}]  BY <1>2, <3>2
      <4> QED  BY <1>6, <4>1, <4>2, <4>3
    <3> QED  BY <3>1, <3>2
  <2> QED  BY <2>1 DEF Extended
<1> QED  BY <1>7 DEF Partial

\* A set of subsets that holds the empty one, and every other one from which the
\* step of the recursion leads into it, holds the domain.
LEMMA PartialInduction ==
  ASSUME NEW D, IsFiniteSet(D), NEW G, {} \in G,
         \A s \in SUBSET D : s # {} /\ s \ {CHOOSE c \in s : TRUE} \in G => s \in G
  PROVE  D \in G
<1> DEFINE B == {T \in SUBSET D : T \notin G}
<1>1. SUFFICES ASSUME B # {} PROVE FALSE
  OBVIOUS
<1>0. B \subseteq SUBSET D  OBVIOUS
<1>2. PICK T \in B : \A U \in B : U \subseteq T => U = T
  <2> HIDE DEF B
  <2>1. HasMinimal(B)  BY <1>0, <1>1, MinimalSubset
  <2> QED  BY <2>1 DEF HasMinimal
<1> DEFINE c == CHOOSE c \in T : TRUE
<1>3. T # {}  BY <1>2
<1>4. c \in T  BY <1>3
<1>5. T \ {c} \in G  BY <1>2, <1>4
<1> QED  BY <1>2, <1>3, <1>5

\* What the partial sums of one function are.
LEMMA PartialSteps ==
  ASSUME NEW f, IsFiniteSet(DOMAIN f)
  PROVE  /\ Partial(f)[{}] = 0
         /\ \A s \in SUBSET DOMAIN f : s # {} =>
               LET x == CHOOSE x \in s : TRUE IN
               x \in s /\ s \ {x} \in SUBSET DOMAIN f /\ Partial(f)[s] = f[x] + Partial(f)[s \ {x}]
<1>1. ASSUME NEW g, NEW s \in SUBSET DOMAIN f
      PROVE  Extended(f, g)[s] = IF s = {} THEN 0
                                 ELSE LET x == CHOOSE x \in s : TRUE IN f[x] + g[s \ {x}]
  BY DEF Extended
<1>2. Partial(f) = Extended(f, Partial(f))  BY PartialExtends
<1>3. Partial(f)[{}] = 0  BY <1>1, <1>2
<1>4. ASSUME NEW s \in SUBSET DOMAIN f, s # {}
      PROVE  LET x == CHOOSE x \in s : TRUE IN
             x \in s /\ s \ {x} \in SUBSET DOMAIN f /\ Partial(f)[s] = f[x] + Partial(f)[s \ {x}]
  <2> DEFINE x == CHOOSE x \in s : TRUE
             g == Partial(f)
  <2>1. x \in s  BY <1>4
  <2>2. g[s] = Extended(f, g)[s]  BY <1>2
  <2>3. Extended(f, g)[s] = f[x] + g[s \ {x}]  BY <1>1, <1>4
  <2>4. s \ {x} \in SUBSET DOMAIN f  OBVIOUS
  <2> QED  BY <2>1, <2>2, <2>3, <2>4
<1> QED  BY <1>3, <1>4
-----------------------------------------------------------------------------
(* The laws the models use.                                                *)

LEMMA PartialType ==
  ASSUME NEW D, IsFiniteSet(D), NEW f \in [D -> Int]
  PROVE  \A s \in SUBSET D : Partial(f)[s] \in Int
<1> SUFFICES ASSUME NEW s \in SUBSET D PROVE Partial(f)[s] \in Int
  OBVIOUS
<1> DEFINE G == {t \in SUBSET s : Partial(f)[t] \in Int}
<1>1. IsFiniteSet(s) /\ DOMAIN f = D /\ IsFiniteSet(DOMAIN f)  BY FS_Subset
<1>2. {} \in G  BY <1>1, PartialSteps
<1>3. ASSUME NEW t \in SUBSET s, t # {}, t \ {CHOOSE c \in t : TRUE} \in G  PROVE t \in G
  <2> DEFINE c == CHOOSE c \in t : TRUE
  <2>1. c \in t /\ Partial(f)[t] = f[c] + Partial(f)[t \ {c}]  BY <1>1, <1>3, PartialSteps
  <2>2. f[c] \in Int /\ Partial(f)[t \ {c}] \in Int  BY <1>3, <2>1
  <2> HIDE DEF c
  <2> QED  BY <2>1, <2>2
<1> HIDE DEF G
<1>4. s \in G  BY <1>1, <1>2, <1>3, PartialInduction
<1> QED  BY <1>4 DEF G

\* One step of the sum of an integer function.
First(t) == CHOOSE c \in t : TRUE
Stepwise(D, f, t) ==
    /\ First(t) \in t /\ t \ {First(t)} \in SUBSET D
    /\ f[First(t)] \in Int /\ Partial(f)[t \ {First(t)}] \in Int
    /\ Partial(f)[t] = f[First(t)] + Partial(f)[t \ {First(t)}]

LEMMA PartialStep ==
  ASSUME NEW D, IsFiniteSet(D), NEW f \in [D -> Int], NEW t \in SUBSET D, t # {}
  PROVE  Stepwise(D, f, t)
<1>1. DOMAIN f = D  OBVIOUS
<1>2. /\ First(t) \in t /\ t \ {First(t)} \in SUBSET D
      /\ Partial(f)[t] = f[First(t)] + Partial(f)[t \ {First(t)}]
  BY <1>1, PartialSteps DEF First
<1> QED  BY <1>2, PartialType DEF Stepwise

LEMMA SumType ==
  ASSUME NEW D, IsFiniteSet(D), NEW f \in [D -> Int]
  PROVE  SumFunction(f) \in Int
  BY PartialType, SumIsPartial

\* The sum of a sum is the sum of the sums.
LEMMA SumPlus ==
  ASSUME NEW D, IsFiniteSet(D), NEW f \in [D -> Int], NEW g \in [D -> Int],
         NEW h \in [D -> Int], \A x \in D : h[x] = f[x] + g[x]
  PROVE  SumFunction(h) = SumFunction(f) + SumFunction(g)
<1> DEFINE G == {t \in SUBSET D : Partial(h)[t] = Partial(f)[t] + Partial(g)[t]}
<1>1. DOMAIN f = D /\ DOMAIN g = D /\ DOMAIN h = D  OBVIOUS
<1>2. {} \in G  BY <1>1, PartialSteps
<1>3. ASSUME NEW t \in SUBSET D, t # {}, t \ {First(t)} \in G  PROVE t \in G
  <2> DEFINE c == First(t)
             u == t \ {c}
  <2>1. /\ c \in t /\ u \in SUBSET D
        /\ Partial(f)[t] = f[c] + Partial(f)[u]
        /\ Partial(g)[t] = g[c] + Partial(g)[u]
        /\ Partial(h)[t] = h[c] + Partial(h)[u]
        /\ Partial(f)[u] \in Int /\ Partial(g)[u] \in Int
    <3>1. Stepwise(D, f, t) /\ Stepwise(D, g, t) /\ Stepwise(D, h, t)  BY <1>3, PartialStep
    <3> QED  BY <3>1 DEF Stepwise
  <2>2. Partial(h)[u] = Partial(f)[u] + Partial(g)[u]  BY <1>3
  <2>3. f[c] \in Int /\ g[c] \in Int /\ h[c] = f[c] + g[c]  BY <2>1
  <2> HIDE DEF c, u
  <2>5. Partial(h)[t] = Partial(f)[t] + Partial(g)[t]  BY <2>1, <2>2, <2>3
  <2> QED  BY <2>5
<1> HIDE DEF G
<1>4. D \in G  BY <1>2, <1>3, PartialInduction DEF First
<1> QED  BY <1>1, <1>4, SumIsPartial DEF G

LEMMA SumMonotone ==
  ASSUME NEW D, IsFiniteSet(D), NEW f \in [D -> Int], NEW g \in [D -> Int],
         \A x \in D : f[x] <= g[x]
  PROVE  SumFunction(f) <= SumFunction(g)
<1> DEFINE G == {t \in SUBSET D : Partial(f)[t] <= Partial(g)[t]}
<1>1. DOMAIN f = D /\ DOMAIN g = D  OBVIOUS
<1>2. {} \in G  BY <1>1, PartialSteps
<1>3. ASSUME NEW t \in SUBSET D, t # {}, t \ {First(t)} \in G  PROVE t \in G
  <2> DEFINE c == First(t)
             u == t \ {c}
  <2>1. /\ c \in t /\ u \in SUBSET D
        /\ Partial(f)[t] = f[c] + Partial(f)[u]
        /\ Partial(g)[t] = g[c] + Partial(g)[u]
        /\ Partial(f)[u] \in Int /\ Partial(g)[u] \in Int
    <3>1. Stepwise(D, f, t) /\ Stepwise(D, g, t)  BY <1>3, PartialStep
    <3> QED  BY <3>1 DEF Stepwise
  <2>2. Partial(f)[u] <= Partial(g)[u]  BY <1>3
  <2>3. f[c] \in Int /\ g[c] \in Int /\ f[c] <= g[c]  BY <2>1
  <2> HIDE DEF c, u
  <2>5. Partial(f)[t] <= Partial(g)[t]  BY <2>1, <2>2, <2>3
  <2> QED  BY <2>5
<1> HIDE DEF G
<1>4. D \in G  BY <1>2, <1>3, PartialInduction DEF First
<1> QED  BY <1>1, <1>4, SumIsPartial DEF G

\* What is zero but for one place sums to what is there.
LEMMA SumOne ==
  ASSUME NEW D, IsFiniteSet(D), NEW f \in [D -> Int], NEW x \in D,
         \A y \in D \ {x} : f[y] = 0
  PROVE  SumFunction(f) = f[x]
<1> DEFINE G == {t \in SUBSET D : Partial(f)[t] = IF x \in t THEN f[x] ELSE 0}
<1>1. DOMAIN f = D  OBVIOUS
<1>2. {} \in G  BY <1>1, PartialSteps
<1>3. ASSUME NEW t \in SUBSET D, t # {}, t \ {First(t)} \in G  PROVE t \in G
  <2> DEFINE c == First(t)
             u == t \ {c}
  <2>1. c \in t /\ u \in SUBSET D /\ Partial(f)[t] = f[c] + Partial(f)[u]
    <3>1. Stepwise(D, f, t)  BY <1>3, PartialStep
    <3> QED  BY <3>1 DEF Stepwise
  <2>2. Partial(f)[u] = IF x \in u THEN f[x] ELSE 0  BY <1>3
  <2>3. x \in u <=> x \in t /\ x # c  OBVIOUS
  <2>4. f[x] \in Int /\ (c # x => f[c] = 0)  BY <2>1
  <2> HIDE DEF c, u
  <2>5. Partial(f)[t] = IF x \in t THEN f[x] ELSE 0  BY <2>1, <2>2, <2>3, <2>4
  <2> QED  BY <2>5
<1> HIDE DEF G
<1>4. D \in G  BY <1>2, <1>3, PartialInduction DEF First
<1> QED  BY <1>1, <1>4, SumIsPartial DEF G

LEMMA SumZero ==
  ASSUME NEW D, IsFiniteSet(D), NEW f \in [D -> Int], \A x \in D : f[x] = 0
  PROVE  SumFunction(f) = 0
<1>1. SumFunction(f) = SumFunction(f) + SumFunction(f)
  <2>1. \A x \in D : f[x] = f[x] + f[x]  OBVIOUS
  <2> QED  BY <2>1, SumPlus
<1> QED  BY <1>1, SumType

LEMMA SumNat ==
  ASSUME NEW D, IsFiniteSet(D), NEW f \in [D -> Nat]
  PROVE  SumFunction(f) \in Nat
<1> DEFINE z == [x \in D |-> 0]
<1>1. f \in [D -> Int] /\ z \in [D -> Int]  OBVIOUS
<1>2. SumFunction(z) = 0  BY <1>1, SumZero
<1>3. \A x \in D : z[x] <= f[x]  OBVIOUS
<1> HIDE DEF z
<1>4. SumFunction(z) <= SumFunction(f)  BY <1>1, <1>3, SumMonotone
<1> QED  BY <1>1, <1>2, <1>4, SumType

\* Of amounts, none is more than the sum.
LEMMA SumPart ==
  ASSUME NEW D, IsFiniteSet(D), NEW f \in [D -> Nat], NEW x \in D
  PROVE  f[x] <= SumFunction(f)
<1> DEFINE d == [y \in D |-> IF y = x THEN f[x] ELSE 0]
<1>1. d \in [D -> Int] /\ f \in [D -> Int] /\ d[x] = f[x] /\ \A y \in D \ {x} : d[y] = 0
  OBVIOUS
<1>2. \A y \in D : d[y] <= f[y]  OBVIOUS
<1> HIDE DEF d
<1>3. SumFunction(d) = d[x]  BY <1>1, SumOne
<1>4. SumFunction(d) <= SumFunction(f)  BY <1>1, <1>2, SumMonotone
<1> QED  BY <1>1, <1>3, <1>4

\* A change in one place changes the sum by as much.
LEMMA SumChanged ==
  ASSUME NEW D, IsFiniteSet(D), NEW f \in [D -> Int], NEW g \in [D -> Int], NEW x \in D,
         \A y \in D \ {x} : g[y] = f[y]
  PROVE  SumFunction(g) = SumFunction(f) + g[x] - f[x]
<1> DEFINE d == [y \in D |-> g[y] - f[y]]
<1>1. d \in [D -> Int] /\ d[x] = g[x] - f[x]  OBVIOUS
<1>2. \A y \in D \ {x} : d[y] = 0  OBVIOUS
<1>3. \A y \in D : g[y] = f[y] + d[y]  OBVIOUS
<1> HIDE DEF d
<1>4. SumFunction(d) = d[x]  BY <1>1, <1>2, SumOne
<1>5. SumFunction(g) = SumFunction(f) + SumFunction(d)
  <2>1. d \in [D -> Int]  BY <1>1
  <2> QED  BY <1>3, <2>1, SumPlus, SMTT(60)
<1>6. g[x] \in Int /\ f[x] \in Int /\ SumFunction(f) \in Int  BY SumType
<1> QED  BY <1>1, <1>4, <1>5, <1>6
-----------------------------------------------------------------------------
(* The greatest and the least of finitely many.                            *)

LEMMA GreatestOfFinite ==
  ASSUME NEW S, IsFiniteSet(S), S # {}, S \subseteq Int
  PROVE  \E m \in S : \A x \in S : x <= m
<1> DEFINE B == {T \in SUBSET S : T # {} /\ ~\E m \in T : \A x \in T : x <= m}
<1>1. ASSUME NEW T \in B, \A U \in B : U \subseteq T => U = T  PROVE FALSE
  <2>1. PICK c \in T : TRUE  OBVIOUS
  <2>2. T \subseteq Int /\ T \ {c} \in SUBSET S /\ T \ {c} \notin B  BY <1>1, <2>1
  <2>3. CASE T \ {c} = {}
    <3>1. \A x \in T : x <= c  BY <2>1, <2>2, <2>3
    <3> QED  BY <2>1, <3>1
  <2>4. CASE T \ {c} # {}
    <3>1. PICK m \in T \ {c} : \A x \in T \ {c} : x <= m  BY <2>2, <2>4
    <3>2. \A x \in T : x <= IF c <= m THEN m ELSE c  BY <2>1, <2>2, <3>1
    <3> QED  BY <2>1, <3>1, <3>2
  <2> QED  BY <2>3, <2>4
<1>2. B \subseteq SUBSET S /\ (S \notin B => \E m \in S : \A x \in S : x <= m)  OBVIOUS
<1> HIDE DEF B
<1>3. B = {}
  <2> SUFFICES ASSUME B # {} PROVE FALSE
    OBVIOUS
  <2>1. HasMinimal(B)  BY <1>2, MinimalSubset
  <2> QED  BY <1>1, <2>1 DEF HasMinimal
<1> QED  BY <1>2, <1>3

LEMMA MaxOfFinite ==
  ASSUME NEW S, IsFiniteSet(S), S # {}, S \subseteq Int
  PROVE  Max(S) \in S /\ \A x \in S : x <= Max(S)
<1>1. PICK m \in S : \A x \in S : x <= m  BY GreatestOfFinite
<1>2. \A x \in S : m >= x  BY <1>1
<1>3. Max(S) \in S /\ \A x \in S : Max(S) >= x  BY <1>2 DEF Max
<1> QED  BY <1>3

LEMMA MaxOfTwo ==
  ASSUME NEW a \in Int, NEW b \in Int
  PROVE  Max({a, b}) = IF a >= b THEN a ELSE b
<1>1. \E m \in {a, b} : \A x \in {a, b} : m >= x  OBVIOUS
<1>2. Max({a, b}) \in {a, b} /\ \A x \in {a, b} : Max({a, b}) >= x  BY <1>1 DEF Max
<1> QED  BY <1>2

LEMMA MinOfTwo ==
  ASSUME NEW a \in Int, NEW b \in Int
  PROVE  Min({a, b}) = IF a <= b THEN a ELSE b
<1>1. \E m \in {a, b} : \A x \in {a, b} : m <= x  OBVIOUS
<1>2. Min({a, b}) \in {a, b} /\ \A x \in {a, b} : Min({a, b}) <= x  BY <1>1 DEF Min
<1> QED  BY <1>2
=============================================================================
