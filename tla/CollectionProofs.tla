-------------------------- MODULE CollectionProofs --------------------------
(* What sums over finite sets and queues without some of their orders        *)
(* satisfy.  The induction is over the subsets of a finite set or over the   *)
(* numbers: a set of counterexamples has a smallest one.                     *)
EXTENDS Collections, FiniteSetTheorems, WellFoundedInduction, TLAPS

(* A non-empty set of natural numbers has a least element. *)
LEMMA LeastNat ==
  ASSUME NEW T, T \subseteq Nat, T # {}
  PROVE  \E x \in T : \A y \in T : x <= y
<1> DEFINE R == OpToRel(<, Nat)
<1>1. IsWellFoundedOn(R, Nat)
  BY NatLessThanWellFounded
<1>2. \A x, y \in Nat : y < x => <<y, x>> \in R
  BY DEF OpToRel
<1> HIDE DEF R
<1>3. PICK x \in T : \A y \in T : ~(<<y, x>> \in R)
  BY <1>1, WFMin
<1>4. \A y \in T : x <= y
  <2> TAKE y \in T
  <2>1. ~(y < x)
    BY <1>2, <1>3
  <2> QED BY <2>1
<1> QED BY <1>3, <1>4

(* A non-empty set of subsets of a finite set has a minimal one. *)
LEMMA MinimalSubset ==
  ASSUME NEW S, IsFiniteSet(S), NEW B, B \subseteq SUBSET S, B # {}
  PROVE  \E s \in B : \A t \in B : t \subseteq s => t = s
<1> DEFINE R == StrictSubsetOrdering(S)
<1>1. IsWellFoundedOn(R, FiniteSubsetsOf(S))
  BY FS_StrictSubsetOrderingWellFounded
<1>2. B \subseteq FiniteSubsetsOf(S)
  BY FS_Subset DEF FiniteSubsetsOf
<1>3. \A s, t \in SUBSET S : t \subseteq s /\ t # s => <<t, s>> \in R
  BY DEF StrictSubsetOrdering
<1> HIDE DEF R
<1>4. PICK s \in B : \A t \in B : ~(<<t, s>> \in R)
  BY <1>1, <1>2, WFMin
<1> QED BY <1>3, <1>4

Chosen(s) == CHOOSE x \in s : TRUE

\* The equation of the function that MapThenSumSet defines by recursion
Adds(f, S, g) ==
  g = [s \in SUBSET S |-> IF s = {} THEN 0 ELSE f[Chosen(s)] + g[s \ {Chosen(s)}]]

(* Chosen picks an element. *)
LEMMA Picked == ASSUME NEW s, s # {} PROVE Chosen(s) \in s
BY DEF Chosen

(* A sum is the value of a function that satisfies Adds, if there is one. *)
LEMMA SumIsFold ==
  ASSUME NEW f, NEW S
  PROVE  SumOver(f, S) = (CHOOSE g : Adds(f, S, g))[S]
BY DEF SumOver, MapThenSumSet, MapThenFoldSet, Adds, Chosen

(* There is one, built up by the size of the subsets. *)
LEMMA AdderExists ==
  ASSUME NEW S, IsFiniteSet(S), NEW f, \A x \in S : f[x] \in Int
  PROVE  \E g \in [SUBSET S -> Int] : Adds(f, S, g)
<1> DEFINE D(n) == {s \in SUBSET S : Cardinality(s) <= n}
           Val(g, s) == IF s = {} THEN 0 ELSE f[Chosen(s)] + g[s \ {Chosen(s)}]
           Good(n) == \E g \in [D(n) -> Int] : \A s \in D(n) : g[s] = Val(g, s)
           Bad == {n \in Nat : ~Good(n)}
<1>1. \A s \in SUBSET S : IsFiniteSet(s) /\ Cardinality(s) \in Nat /\ Cardinality(s) <= Cardinality(S)
  BY FS_Subset, FS_CardinalityType
<1>2. ASSUME NEW s \in SUBSET S, s # {}
      PROVE  /\ Chosen(s) \in s /\ f[Chosen(s)] \in Int /\ s \ {Chosen(s)} \in SUBSET S
             /\ Cardinality(s \ {Chosen(s)}) = Cardinality(s) - 1
  BY <1>1, <1>2, Picked, FS_RemoveElement
<1>3. Bad = {}
  <2> SUFFICES ASSUME Bad # {} PROVE FALSE
    OBVIOUS
  <2>1. PICK n \in Bad : \A m \in Bad : n <= m
    <3>1. Bad \subseteq Nat
      OBVIOUS
    <3> HIDE DEF Bad
    <3> QED BY <3>1, LeastNat
  <2>2. CASE n = 0
    <3>1. D(n) = {{}}
      BY <1>1, <2>2, FS_EmptySet
    <3> DEFINE g == [s \in D(n) |-> 0]
    <3>2. g \in [D(n) -> Int] /\ \A s \in D(n) : g[s] = Val(g, s)
      BY <3>1
    <3> QED BY <2>1, <3>2
  <2>3. CASE n # 0
    <3>0. n \in Nat
      OBVIOUS
    <3>1. n - 1 \in Nat /\ n - 1 \notin Bad
      <4> HIDE DEF Bad
      <4> QED BY <2>1, <2>3, <3>0
    <3>2. PICK g \in [D(n - 1) -> Int] : \A s \in D(n - 1) : g[s] = Val(g, s)
      BY <3>1
    <3> DEFINE h == [s \in D(n) |-> Val(g, s)]
    <3>3. ASSUME NEW s \in D(n), s # {} PROVE s \ {Chosen(s)} \in D(n - 1) /\ f[Chosen(s)] \in Int
      BY <1>1, <1>2, <2>1, <3>3
    <3>4. h \in [D(n) -> Int]
      BY <3>2, <3>3
    <3>5. \A s \in D(n - 1) : s \in D(n) /\ h[s] = g[s]
      BY <1>1, <2>1, <3>2
    <3>6. \A s \in D(n) : h[s] = Val(h, s)
      BY <3>3, <3>5
    <3> QED BY <2>1, <3>4, <3>6
  <2> QED BY <2>2, <2>3
<1>4. Cardinality(S) \in Nat /\ D(Cardinality(S)) = SUBSET S
  BY <1>1
<1>5. PICK g \in [SUBSET S -> Int] : \A s \in SUBSET S : g[s] = Val(g, s)
  <2>1. Good(Cardinality(S))
    BY <1>3, <1>4, Zenon
  <2> HIDE DEF Val
  <2> QED BY <1>4, <2>1
<1>6. Adds(f, S, g)
  BY <1>5 DEF Adds
<1> QED BY <1>6

(* The recursion stays the same over a larger set. *)
LEMMA AddersAgree ==
  ASSUME NEW T, IsFiniteSet(T), NEW S, S \subseteq T, NEW f, \A x \in T : f[x] \in Int,
         NEW g, Adds(f, S, g), NEW h, Adds(f, T, h)
  PROVE  \A s \in SUBSET S : g[s] = h[s]
<1> DEFINE B == {s \in SUBSET S : g[s] # h[s]}
<1> SUFFICES ASSUME B # {} PROVE FALSE
  OBVIOUS
<1>1. IsFiniteSet(S)
  BY FS_Subset
<1>2. PICK s \in B : \A t \in B : t \subseteq s => t = s
  <2>1. B \subseteq SUBSET S
    OBVIOUS
  <2> HIDE DEF B
  <2> QED BY <1>1, <2>1, MinimalSubset
<1>3. /\ s \in SUBSET S /\ s \in SUBSET T
      /\ g[s] = IF s = {} THEN 0 ELSE f[Chosen(s)] + g[s \ {Chosen(s)}]
      /\ h[s] = IF s = {} THEN 0 ELSE f[Chosen(s)] + h[s \ {Chosen(s)}]
  BY DEF Adds
<1>4. s # {}
  BY <1>2, <1>3
<1>5. s \ {Chosen(s)} \in SUBSET S /\ s \ {Chosen(s)} # s
  BY <1>3, <1>4, Picked
<1>6. g[s \ {Chosen(s)}] = h[s \ {Chosen(s)}]
  BY <1>2, <1>5
<1> QED BY <1>2, <1>3, <1>4, <1>6

(* The sums over the subsets of a finite set obey the recursion. *)
LEMMA SumRecursion ==
  ASSUME NEW S, IsFiniteSet(S), NEW f, \A x \in S : f[x] \in Int
  PROVE  /\ SumOver(f, S) \in Int
         /\ S = {} => SumOver(f, S) = 0
         /\ S # {} => SumOver(f, S) = f[Chosen(S)] + SumOver(f, S \ {Chosen(S)})
<1>1. ASSUME NEW T \in SUBSET S
      PROVE  \E g : Adds(f, T, g) /\ SumOver(f, T) = g[T]
  <2>1. IsFiniteSet(T) /\ \A x \in T : f[x] \in Int
    BY FS_Subset
  <2>2. \E g : Adds(f, T, g)
    BY <2>1, AdderExists
  <2>3. Adds(f, T, CHOOSE g : Adds(f, T, g))
    BY <2>2
  <2> QED BY <2>3, SumIsFold
<1>2. S \in SUBSET S
  OBVIOUS
<1>3. ASSUME NEW T, T \subseteq S, NEW g, Adds(f, T, g), NEW h, Adds(f, S, h)
      PROVE  \A s \in SUBSET T : g[s] = h[s]
  BY <1>3, AddersAgree
<1>4. PICK k \in [SUBSET S -> Int] : Adds(f, S, k)
  BY AdderExists
<1>5. ASSUME NEW T \in SUBSET S
      PROVE  SumOver(f, T) = k[T]
  <2>1. PICK g : Adds(f, T, g) /\ SumOver(f, T) = g[T]
    BY <1>1
  <2>2. T \subseteq S /\ Adds(f, T, g) /\ Adds(f, S, k)
    BY <1>4, <2>1
  <2>3. \A s \in SUBSET T : g[s] = k[s]
    BY <2>2, <1>3
  <2>4. T \in SUBSET T
    OBVIOUS
  <2> QED BY <2>1, <2>3, <2>4
<1>6. k[S] = IF S = {} THEN 0 ELSE f[Chosen(S)] + k[S \ {Chosen(S)}]
  BY <1>2, <1>4 DEF Adds
<1>7. SumOver(f, S) = k[S] /\ SumOver(f, S \ {Chosen(S)}) = k[S \ {Chosen(S)}]
  BY <1>2, <1>5
<1> QED BY <1>2, <1>4, <1>6, <1>7

(* A sum over the empty set is 0. *)
LEMMA SumEmpty == ASSUME NEW f PROVE SumOver(f, {}) = 0
<1>1. IsFiniteSet({}) /\ \A x \in {} : f[x] \in Int
  BY FS_EmptySet
<1> QED BY <1>1, SumRecursion

(* A sum of integers is an integer. *)
LEMMA SumInt ==
  ASSUME NEW S, IsFiniteSet(S), NEW f, \A x \in S : f[x] \in Int
  PROVE  SumOver(f, S) \in Int
BY SumRecursion

(* Any element may be taken out first. *)
LEMMA SumStep ==
  ASSUME NEW S, IsFiniteSet(S), NEW f, \A x \in S : f[x] \in Int, NEW x \in S
  PROVE  SumOver(f, S) = f[x] + SumOver(f, S \ {x})
<1> DEFINE B == {s \in SUBSET S : \E y \in s : SumOver(f, s) # f[y] + SumOver(f, s \ {y})}
<1> SUFFICES ASSUME B # {} PROVE FALSE
  <2>1. S \in SUBSET S
    OBVIOUS
  <2> QED BY <2>1
<1>1. PICK s \in B : \A t \in B : t \subseteq s => t = s
  <2>1. B \subseteq SUBSET S
    OBVIOUS
  <2> HIDE DEF B
  <2> QED BY <2>1, MinimalSubset
<1>2. PICK y \in s : SumOver(f, s) # f[y] + SumOver(f, s \ {y})
  OBVIOUS
<1>3. s \in SUBSET S /\ s # {} /\ Chosen(s) \in s
  BY <1>2, Picked
<1>4. ASSUME NEW t \in SUBSET S
      PROVE  IsFiniteSet(t) /\ (\A z \in t : f[z] \in Int) /\ SumOver(f, t) \in Int
  <2>1. IsFiniteSet(t) /\ \A z \in t : f[z] \in Int
    BY FS_Subset
  <2> QED BY <2>1, SumInt
<1>5. SumOver(f, s) = f[Chosen(s)] + SumOver(f, s \ {Chosen(s)})
  BY <1>3, <1>4, SumRecursion
<1>6. y # Chosen(s)
  BY <1>2, <1>5
<1> DEFINE c == Chosen(s)
           u == s \ {c}
           v == s \ {y}
           w == (s \ {c}) \ {y}
<1>7. /\ u \in SUBSET S /\ v \in SUBSET S /\ w \in SUBSET S
      /\ y \in u /\ c \in v /\ w = v \ {c} /\ u # s /\ v # s /\ u \subseteq s /\ v \subseteq s
  BY <1>3, <1>6
<1> HIDE DEF c, u, v, w
<1>8. u \notin B /\ v \notin B
  <2> HIDE DEF B
  <2> QED BY <1>1, <1>7
<1>9. SumOver(f, u) = f[y] + SumOver(f, w)
  BY <1>7, <1>8 DEF u, w
<1>10. SumOver(f, v) = f[c] + SumOver(f, w)
  BY <1>7, <1>8
<1>11. f[c] \in Int /\ f[y] \in Int /\ SumOver(f, w) \in Int
  BY <1>3, <1>4, <1>7 DEF c
<1> QED BY <1>2, <1>5, <1>9, <1>10, <1>11 DEF c, u, v

(* Sums of equal values are equal. *)
LEMMA SumSame ==
  ASSUME NEW S, IsFiniteSet(S), NEW f, \A x \in S : f[x] \in Int,
         NEW g, \A x \in S : g[x] = f[x]
  PROVE  SumOver(g, S) = SumOver(f, S)
<1> DEFINE B == {s \in SUBSET S : SumOver(g, s) # SumOver(f, s)}
<1> SUFFICES ASSUME B # {} PROVE FALSE
  <2>1. S \in SUBSET S
    OBVIOUS
  <2> QED BY <2>1
<1>1. PICK s \in B : \A t \in B : t \subseteq s => t = s
  <2>1. B \subseteq SUBSET S
    OBVIOUS
  <2> HIDE DEF B
  <2> QED BY <2>1, MinimalSubset
<1>2. s \in SUBSET S /\ SumOver(g, s) # SumOver(f, s)
  OBVIOUS
<1>3. s # {}
  BY <1>2, SumEmpty
<1>4. PICK x \in s : TRUE
  BY <1>3
<1>5. s \ {x} \in SUBSET S /\ s \ {x} # s /\ s \ {x} \subseteq s
  BY <1>2
<1>6. SumOver(g, s \ {x}) = SumOver(f, s \ {x})
  BY <1>1, <1>5
<1>7. IsFiniteSet(s) /\ (\A z \in s : f[z] \in Int) /\ (\A z \in s : g[z] \in Int) /\ f[x] = g[x]
  BY <1>2, FS_Subset
<1>8. SumOver(f, s) = f[x] + SumOver(f, s \ {x}) /\ SumOver(g, s) = g[x] + SumOver(g, s \ {x})
  BY <1>7, SumStep
<1> QED BY <1>2, <1>6, <1>7, <1>8

(* A sum changes by what one of its values changes. *)
LEMMA SumUpdate ==
  ASSUME NEW S, IsFiniteSet(S), NEW f, \A x \in S : f[x] \in Int, NEW y \in S,
         NEW g, g[y] \in Int, \A x \in S : x # y => g[x] = f[x]
  PROVE  SumOver(g, S) = SumOver(f, S) + g[y] - f[y]
<1> DEFINE T == S \ {y}
<1>1. IsFiniteSet(T) /\ (\A x \in T : f[x] \in Int /\ g[x] = f[x])
  BY FS_RemoveElement
<1>2. \A x \in S : g[x] \in Int
  OBVIOUS
<1>3. SumOver(f, S) = f[y] + SumOver(f, T) /\ SumOver(g, S) = g[y] + SumOver(g, T)
  BY <1>2, SumStep
<1> HIDE DEF T
<1>4. SumOver(f, T) \in Int /\ SumOver(g, T) = SumOver(f, T)
  BY <1>1, SumInt, SumSame
<1> QED BY <1>3, <1>4

(* Sums add up. *)
LEMMA SumPlus ==
  ASSUME NEW S, IsFiniteSet(S), NEW f, \A x \in S : f[x] \in Int,
         NEW g, \A x \in S : g[x] \in Int, NEW c \in Int,
         NEW h, \A x \in S : h[x] = f[x] + c * g[x]
  PROVE  SumOver(h, S) = SumOver(f, S) + c * SumOver(g, S)
<1> DEFINE B == {s \in SUBSET S : SumOver(h, s) # SumOver(f, s) + c * SumOver(g, s)}
<1> SUFFICES ASSUME B # {} PROVE FALSE
  <2>1. S \in SUBSET S
    OBVIOUS
  <2> QED BY <2>1
<1>1. PICK s \in B : \A t \in B : t \subseteq s => t = s
  <2>1. B \subseteq SUBSET S
    OBVIOUS
  <2> HIDE DEF B
  <2> QED BY <2>1, MinimalSubset
<1>2. s \in SUBSET S /\ SumOver(h, s) # SumOver(f, s) + c * SumOver(g, s)
  OBVIOUS
<1>3. s # {}
  <2>1. c * 0 = 0
    OBVIOUS
  <2>2. SumOver(f, {}) = 0 /\ SumOver(g, {}) = 0 /\ SumOver(h, {}) = 0
    BY SumEmpty
  <2>3. SumOver(h, {}) = SumOver(f, {}) + c * SumOver(g, {})
    BY <2>1, <2>2
  <2> QED BY <1>2, <2>3
<1>4. PICK x \in s : TRUE
  BY <1>3
<1> DEFINE t == s \ {x}
<1>5. t \in SUBSET S /\ t # s /\ t \subseteq s
  BY <1>2
<1>6. SumOver(h, t) = SumOver(f, t) + c * SumOver(g, t)
  BY <1>1, <1>5
<1>7. \A z \in S : c * g[z] \in Int /\ h[z] \in Int
  OBVIOUS
<1>8. /\ IsFiniteSet(s) /\ IsFiniteSet(t)
      /\ \A z \in s : f[z] \in Int /\ g[z] \in Int /\ h[z] \in Int
      /\ \A z \in t : f[z] \in Int /\ g[z] \in Int /\ h[z] \in Int
  BY <1>2, <1>5, <1>7, FS_Subset
<1>9. /\ SumOver(f, s) = f[x] + SumOver(f, t) /\ SumOver(g, s) = g[x] + SumOver(g, t)
      /\ SumOver(h, s) = h[x] + SumOver(h, t)
  BY <1>8, SumStep
<1>10. SumOver(f, t) \in Int /\ SumOver(g, t) \in Int
  BY <1>8, SumInt
<1> HIDE DEF t
<1>11. c * (g[x] + SumOver(g, t)) = c * g[x] + c * SumOver(g, t)
  BY <1>2, <1>8, <1>10
<1>12. h[x] = f[x] + c * g[x] /\ f[x] \in Int /\ c * g[x] \in Int /\ c * SumOver(g, t) \in Int
  BY <1>2, <1>8, <1>10
<1> QED BY <1>2, <1>6, <1>9, <1>10, <1>11, <1>12

(* A sum of values that are not negative is not negative. *)
LEMMA SumNotNegative ==
  ASSUME NEW S, IsFiniteSet(S), NEW f, \A x \in S : f[x] \in Nat
  PROVE  SumOver(f, S) >= 0
<1> DEFINE B == {s \in SUBSET S : ~(SumOver(f, s) >= 0)}
<1> SUFFICES ASSUME B # {} PROVE FALSE
  <2>1. S \in SUBSET S
    OBVIOUS
  <2> QED BY <2>1
<1>1. PICK s \in B : \A t \in B : t \subseteq s => t = s
  <2>1. B \subseteq SUBSET S
    OBVIOUS
  <2> HIDE DEF B
  <2> QED BY <2>1, MinimalSubset
<1>2. s \in SUBSET S /\ ~(SumOver(f, s) >= 0)
  OBVIOUS
<1>3. s # {}
  BY <1>2, SumEmpty
<1>4. PICK x \in s : TRUE
  BY <1>3
<1> DEFINE t == s \ {x}
<1>5. t \in SUBSET S /\ t # s /\ t \subseteq s
  BY <1>2
<1>6. SumOver(f, t) >= 0
  BY <1>1, <1>5
<1>7. IsFiniteSet(s) /\ IsFiniteSet(t) /\ \A z \in s : f[z] \in Int /\ f[z] >= 0
  BY <1>2, <1>5, FS_Subset
<1>8. SumOver(f, s) = f[x] + SumOver(f, t) /\ SumOver(f, t) \in Int
  BY <1>7, SumStep, SumInt
<1> QED BY <1>2, <1>6, <1>7, <1>8

(* A sum of zeros is 0. *)
LEMMA SumZero ==
  ASSUME NEW S, IsFiniteSet(S), NEW f, \A x \in S : f[x] = 0
  PROVE  SumOver(f, S) = 0
<1> DEFINE B == {s \in SUBSET S : SumOver(f, s) # 0}
<1> SUFFICES ASSUME B # {} PROVE FALSE
  <2>1. S \in SUBSET S
    OBVIOUS
  <2> QED BY <2>1
<1>1. PICK s \in B : \A t \in B : t \subseteq s => t = s
  <2>1. B \subseteq SUBSET S
    OBVIOUS
  <2> HIDE DEF B
  <2> QED BY <2>1, MinimalSubset
<1>2. s \in SUBSET S /\ SumOver(f, s) # 0
  OBVIOUS
<1>3. s # {}
  BY <1>2, SumEmpty
<1>4. PICK x \in s : TRUE
  BY <1>3
<1> DEFINE t == s \ {x}
<1>5. t \in SUBSET S /\ t # s /\ t \subseteq s
  BY <1>2
<1>6. SumOver(f, t) = 0
  BY <1>1, <1>5
<1>7. IsFiniteSet(s) /\ f[x] = 0 /\ \A z \in s : f[z] \in Int
  BY <1>2, FS_Subset
<1>8. SumOver(f, s) = f[x] + SumOver(f, t)
  BY <1>7, SumStep
<1> QED BY <1>2, <1>6, <1>7, <1>8

(* A sum over part of a set is at most one of greater values over all of it. *)
LEMMA SumAtMost ==
  ASSUME NEW S, IsFiniteSet(S), NEW g, \A x \in S : g[x] \in Nat,
         NEW T, T \subseteq S, NEW f, \A x \in T : f[x] \in Int /\ f[x] <= g[x]
  PROVE  SumOver(f, T) <= SumOver(g, S)
<1> DEFINE B == {s \in SUBSET S : ~(SumOver(f, s \intersect T) <= SumOver(g, s))}
<1> SUFFICES ASSUME B # {} PROVE FALSE
  <2>1. S \in SUBSET S /\ S \intersect T = T
    OBVIOUS
  <2> QED BY <2>1
<1>1. PICK s \in B : \A t \in B : t \subseteq s => t = s
  <2>1. B \subseteq SUBSET S
    OBVIOUS
  <2> HIDE DEF B
  <2> QED BY <2>1, MinimalSubset
<1>2. s \in SUBSET S /\ ~(SumOver(f, s \intersect T) <= SumOver(g, s))
  OBVIOUS
<1>3. s # {}
  <2>1. {} \intersect T = {}
    OBVIOUS
  <2>2. SumOver(f, {}) = 0 /\ SumOver(g, {}) = 0
    BY SumEmpty
  <2>3. SumOver(f, {} \intersect T) <= SumOver(g, {})
    BY <2>1, <2>2
  <2> QED BY <1>2, <2>3
<1>4. PICK x \in s : TRUE
  BY <1>3
<1> DEFINE t == s \ {x}
           u == s \intersect T
           v == t \intersect T
<1>5. t \in SUBSET S /\ t # s /\ t \subseteq s
  BY <1>2
<1>6. SumOver(f, v) <= SumOver(g, t)
  BY <1>1, <1>5
<1>7. /\ IsFiniteSet(s) /\ IsFiniteSet(t) /\ IsFiniteSet(u) /\ IsFiniteSet(v)
      /\ \A z \in s : g[z] \in Int /\ g[z] >= 0
      /\ \A z \in t : g[z] \in Int
      /\ \A z \in u : f[z] \in Int /\ f[z] <= g[z]
      /\ \A z \in v : f[z] \in Int
  <2>1. IsFiniteSet(s) /\ IsFiniteSet(t)
    BY <1>2, <1>5, FS_Subset
  <2>2. u \in SUBSET s /\ v \in SUBSET t
    OBVIOUS
  <2>3. IsFiniteSet(u) /\ IsFiniteSet(v)
    BY <2>1, <2>2, FS_Subset
  <2> QED BY <1>2, <2>1, <2>3
<1>8. SumOver(g, s) = g[x] + SumOver(g, t) /\ SumOver(g, t) \in Int /\ SumOver(f, v) \in Int
  BY <1>7, SumStep, SumInt
<1>9. CASE x \in T
  <2>1. x \in u /\ v = u \ {x}
    BY <1>9
  <2>2. SumOver(f, u) = f[x] + SumOver(f, v)
    BY <1>7, <2>1, SumStep
  <2> HIDE DEF u, v, t
  <2>3. f[x] \in Int /\ f[x] <= g[x] /\ g[x] \in Int
    BY <1>7, <2>1
  <2>4. SumOver(f, u) <= SumOver(g, s)
    BY <1>6, <1>8, <2>2, <2>3
  <2> QED BY <1>2, <2>4 DEF u
<1>10. CASE x \notin T
  <2>1. u = v
    BY <1>10
  <2> HIDE DEF u, v, t
  <2>2. g[x] \in Int /\ g[x] >= 0
    BY <1>7
  <2>3. SumOver(f, u) <= SumOver(g, s)
    BY <1>6, <1>8, <2>1, <2>2
  <2> QED BY <1>2, <2>3 DEF u
<1> QED BY <1>9, <1>10

(* Zeros may be left out of a sum. *)
LEMMA SumSupport ==
  ASSUME NEW S, IsFiniteSet(S), NEW f, \A x \in S : f[x] \in Int,
         NEW T, T \subseteq S, \A x \in S : x \notin T => f[x] = 0
  PROVE  SumOver(f, T) = SumOver(f, S)
<1> DEFINE B == {s \in SUBSET S : SumOver(f, s \intersect T) # SumOver(f, s)}
<1> SUFFICES ASSUME B # {} PROVE FALSE
  <2>1. S \in SUBSET S /\ S \intersect T = T
    OBVIOUS
  <2> QED BY <2>1
<1>1. PICK s \in B : \A t \in B : t \subseteq s => t = s
  <2>1. B \subseteq SUBSET S
    OBVIOUS
  <2> HIDE DEF B
  <2> QED BY <2>1, MinimalSubset
<1>2. s \in SUBSET S /\ SumOver(f, s \intersect T) # SumOver(f, s)
  OBVIOUS
<1>3. PICK x \in s : x \notin T
  <2>1. s \intersect T # s
    BY <1>2
  <2> QED BY <2>1
<1>4. s \ {x} \in SUBSET S /\ s \ {x} # s /\ s \ {x} \subseteq s
  BY <1>2
<1>5. SumOver(f, (s \ {x}) \intersect T) = SumOver(f, s \ {x})
  BY <1>1, <1>4
<1>6. (s \ {x}) \intersect T = s \intersect T
  BY <1>3
<1>7. /\ IsFiniteSet(s) /\ IsFiniteSet(s \ {x}) /\ f[x] = 0
      /\ (\A z \in s : f[z] \in Int) /\ (\A z \in s \ {x} : f[z] \in Int)
  BY <1>2, <1>3, <1>4, FS_Subset
<1>8. SumOver(f, s) = f[x] + SumOver(f, s \ {x}) /\ SumOver(f, s \ {x}) \in Int
  BY <1>7, SumStep, SumInt
<1>9. SumOver(f, s \intersect T) = SumOver(f, s \ {x})
  BY <1>5, <1>6, Zenon
<1>10. SumOver(f, s) = SumOver(f, s \ {x})
  BY <1>7, <1>8
<1> QED BY <1>2, <1>9, <1>10

\* The group of those in S of which h says that they are in group t
Fibre(S, h, t) == {x \in S : h[x] = t}

(* A sum may be taken group by group. *)
LEMMA SumFibres ==
  ASSUME NEW S, IsFiniteSet(S), NEW f, \A x \in S : f[x] \in Int,
         NEW T, IsFiniteSet(T), NEW h, \A x \in S : h[x] \in T,
         NEW g, \A t \in T : g[t] = SumOver(f, Fibre(S, h, t))
  PROVE  SumOver(f, S) = SumOver(g, T)
<1> DEFINE Part(s, t) == {x \in s : h[x] = t}
           Sums(s) == [t \in T |-> SumOver(f, Part(s, t))]
           B == {s \in SUBSET S : SumOver(f, s) # SumOver(Sums(s), T)}
<1>1. \A s \in SUBSET S : \A t : /\ IsFiniteSet(s) /\ IsFiniteSet(Part(s, t))
                                 /\ SumOver(f, Part(s, t)) \in Int
  <2> TAKE s \in SUBSET S
  <2> TAKE t
  <2>1. Part(s, t) \in SUBSET S
    OBVIOUS
  <2>2. IsFiniteSet(s) /\ IsFiniteSet(Part(s, t))
    BY <2>1, FS_Subset
  <2>3. \A z \in Part(s, t) : f[z] \in Int
    OBVIOUS
  <2> HIDE DEF Part
  <2> QED BY <2>2, <2>3, SumInt
<1> SUFFICES ASSUME B # {} PROVE FALSE
  <2>1. S \in SUBSET S
    OBVIOUS
  <2>2. SumOver(f, S) = SumOver(Sums(S), T)
    BY <2>1
  <2>3. \A t \in T : Sums(S)[t] \in Int /\ g[t] = Sums(S)[t]
    <3>1. \A t \in T : Sums(S)[t] = SumOver(f, Part(S, t))
      OBVIOUS
    <3>2. \A t \in T : Part(S, t) = Fibre(S, h, t)
      BY DEF Fibre
    <3>3. \A t \in T : SumOver(f, Part(S, t)) \in Int
      BY <1>1, <2>1
    <3> HIDE DEF Part, Sums
    <3> QED BY <3>1, <3>2, <3>3
  <2> HIDE DEF Sums
  <2>4. SumOver(g, T) = SumOver(Sums(S), T)
    BY <2>3, SumSame
  <2> QED BY <2>2, <2>4
<1>2. PICK s \in B : \A r \in B : r \subseteq s => r = s
  <2>1. B \subseteq SUBSET S
    OBVIOUS
  <2> HIDE DEF B
  <2> QED BY <2>1, MinimalSubset
<1>3. s \in SUBSET S /\ SumOver(f, s) # SumOver(Sums(s), T)
  OBVIOUS
<1>4. s # {}
  <2>1. \A t \in T : Sums({})[t] = 0
    <3> TAKE t \in T
    <3>1. Part({}, t) = {}
      OBVIOUS
    <3>2. Sums({})[t] = SumOver(f, Part({}, t))
      OBVIOUS
    <3> HIDE DEF Sums, Part
    <3> QED BY <3>1, <3>2, SumEmpty
  <2>2. SumOver(f, {}) = 0
    BY SumEmpty
  <2> HIDE DEF Sums
  <2>3. SumOver(Sums({}), T) = 0
    BY <2>1, SumZero
  <2> QED BY <1>3, <2>2, <2>3
<1>5. PICK x \in s : TRUE
  BY <1>4
<1> DEFINE r == s \ {x}
<1>6. r \in SUBSET S /\ r # s /\ r \subseteq s
  BY <1>3
<1>7. SumOver(f, r) = SumOver(Sums(r), T)
  BY <1>2, <1>6
<1>8. SumOver(f, s) = f[x] + SumOver(f, r) /\ f[x] \in Int /\ SumOver(f, r) \in Int
  <2>1. IsFiniteSet(s) /\ IsFiniteSet(r) /\ (\A z \in s : f[z] \in Int) /\ (\A z \in r : f[z] \in Int)
    BY <1>1, <1>3, <1>6
  <2> QED BY <2>1, SumStep, SumInt
<1>9. h[x] \in T
  BY <1>3
<1>10. \A t \in T : t # h[x] => Sums(s)[t] = Sums(r)[t]
  <2> TAKE t \in T
  <2> HAVE t # h[x]
  <2>1. Part(s, t) = Part(r, t)
    OBVIOUS
  <2>2. Sums(s)[t] = SumOver(f, Part(s, t)) /\ Sums(r)[t] = SumOver(f, Part(r, t))
    OBVIOUS
  <2> HIDE DEF Part, Sums
  <2> QED BY <2>1, <2>2
<1>11. Sums(s)[h[x]] = f[x] + Sums(r)[h[x]]
  <2> DEFINE P == Part(s, h[x])
  <2>1. x \in P /\ Part(r, h[x]) = P \ {x}
    OBVIOUS
  <2>2. IsFiniteSet(P) /\ \A z \in P : f[z] \in Int
    BY <1>1, <1>3
  <2>3. Sums(s)[h[x]] = SumOver(f, P) /\ Sums(r)[h[x]] = SumOver(f, Part(r, h[x]))
    BY <1>9
  <2> HIDE DEF P, Part, Sums
  <2>4. SumOver(f, P) = f[x] + SumOver(f, P \ {x})
    BY <2>1, <2>2, SumStep
  <2> QED BY <2>1, <2>3, <2>4
<1>12. \A t \in T : Sums(s)[t] \in Int /\ Sums(r)[t] \in Int
  <2>1. \A t \in T : SumOver(f, Part(s, t)) \in Int /\ SumOver(f, Part(r, t)) \in Int
    BY <1>1, <1>3, <1>6
  <2>2. \A t \in T : Sums(s)[t] = SumOver(f, Part(s, t)) /\ Sums(r)[t] = SumOver(f, Part(r, t))
    OBVIOUS
  <2> HIDE DEF Part, Sums
  <2> QED BY <2>1, <2>2
<1> HIDE DEF Sums
<1>13. PICK a, b, y : a = Sums(s) /\ b = Sums(r) /\ y = h[x]
  OBVIOUS
<1>14. y \in T /\ a[y] = f[x] + b[y] /\ b[y] \in Int
       /\ \A t \in T : a[t] \in Int /\ b[t] \in Int /\ (y # t => a[t] = b[t])
  BY <1>9, <1>10, <1>11, <1>12, <1>13
<1>15. SumOver(a, T) = SumOver(b, T) + a[y] - b[y]
  BY <1>14, SumUpdate
<1>16. SumOver(b, T) \in Int
  BY <1>7, <1>8, <1>13
<1> QED BY <1>3, <1>7, <1>8, <1>13, <1>14, <1>15, <1>16

(* A sum does not depend on the names of what is summed: h renames it. *)
LEMMA SumRenamed ==
  ASSUME NEW S, IsFiniteSet(S), NEW f, \A x \in S : f[x] \in Int,
         NEW T, NEW h, \A x \in S : h[x] \in T,
         NEW k, \A t \in T : k[t] \in S /\ h[k[t]] = t, \A x \in S : k[h[x]] = x,
         NEW g, \A t \in T : g[t] = f[k[t]]
  PROVE  SumOver(g, T) = SumOver(f, S)
<1>1. IsFiniteSet(T)
  <2> DEFINE m == [x \in S |-> h[x]]
  <2>1. m \in Surjection(S, T)
    BY DEF Surjection
  <2> QED BY <2>1, FS_Surjection
<1>2. \A t \in T : g[t] = SumOver(f, Fibre(S, h, t))
  <2> TAKE t \in T
  <2> DEFINE P == Fibre(S, h, t)
  <2>1. P = {k[t]}
    BY DEF Fibre
  <2>2. k[t] \in P /\ P \ {k[t]} = {} /\ IsFiniteSet(P) /\ \A x \in P : f[x] \in Int
    BY <2>1, FS_Subset
  <2> HIDE DEF P
  <2>3. SumOver(f, P) = f[k[t]] + SumOver(f, P \ {k[t]})
    BY <2>2, SumStep
  <2>4. SumOver(f, P) = f[k[t]] + 0 /\ f[k[t]] \in Int
    BY <2>2, <2>3, SumEmpty
  <2> QED BY <2>4 DEF P
<1> QED BY <1>1, <1>2, SumFibres

-----------------------------------------------------------------------------
(* What is kept of a sequence.                                               *)

\* The equation of the function that Dropped defines by recursion
Keeps(q, ids, g) ==
  g = [i \in 0 .. Len(q) |->
         IF i = 0 THEN <<>>
         ELSE IF q[i].id \in ids THEN g[i - 1] ELSE Append(g[i - 1], q[i])]

\* d lists the first n orders of q but those of ids: f gives their places.
Enumerates(d, q, ids, n, f) ==
  /\ f \in [1 .. Len(d) -> 1 .. n]
  /\ \A i, j \in 1 .. Len(d) : i < j => f[i] < f[j]
  /\ \A j \in 1 .. Len(d) : d[j] = q[f[j]] /\ q[f[j]].id \notin ids
  /\ \A i \in 1 .. n : q[i].id \notin ids => \E j \in 1 .. Len(d) : f[j] = i

(* The recursion has a solution. *)
LEMMA KeeperExists ==
  ASSUME NEW T, NEW q \in Seq(T), NEW ids
  PROVE  \E g : Keeps(q, ids, g)
<1> DEFINE Val(g, i) == IF i = 0 THEN <<>>
                        ELSE IF q[i].id \in ids THEN g[i - 1] ELSE Append(g[i - 1], q[i])
           Good(n) == \E g : g = [i \in 0 .. n |-> Val(g, i)]
           Bad == {n \in Nat : ~Good(n)}
<1>1. Bad = {}
  <2> SUFFICES ASSUME Bad # {} PROVE FALSE
    OBVIOUS
  <2>1. PICK n \in Bad : \A m \in Bad : n <= m
    <3>1. Bad \subseteq Nat
      OBVIOUS
    <3> HIDE DEF Bad
    <3> QED BY <3>1, LeastNat
  <2>2. n \in Nat /\ ~Good(n)
    OBVIOUS
  <2>3. CASE n = 0
    <3> DEFINE g == [i \in 0 .. n |-> <<>>]
    <3>1. g = [i \in 0 .. n |-> Val(g, i)]
      BY <2>3
    <3> QED BY <2>2, <3>1
  <2>4. CASE n # 0
    <3>1. n - 1 \in Nat /\ n - 1 \notin Bad
      <4> HIDE DEF Bad
      <4> QED BY <2>1, <2>2, <2>4
    <3>2. PICK g : g = [i \in 0 .. n - 1 |-> Val(g, i)]
      BY <3>1
    <3> DEFINE h == [i \in 0 .. n |-> Val(g, i)]
    <3>3. \A i \in 0 .. n - 1 : h[i] = g[i]
      <4> TAKE i \in 0 .. n - 1
      <4>1. i \in 0 .. n
        BY <2>2
      <4>2. g[i] = Val(g, i)
        <5> HIDE DEF Val
        <5> QED BY <3>2
      <4> HIDE DEF Val
      <4> QED BY <4>1, <4>2
    <3>4. \A i \in 0 .. n : Val(g, i) = Val(h, i)
      <4> HIDE DEF h
      <4> QED BY <2>2, <3>3
    <3>5. h = [i \in 0 .. n |-> Val(h, i)]
      <4> HIDE DEF Val
      <4> QED BY <3>4
    <3> QED BY <2>2, <3>5
  <2> QED BY <2>3, <2>4
<1>2. Len(q) \in Nat
  OBVIOUS
<1>3. Good(Len(q))
  BY <1>1, <1>2
<1> QED BY <1>3 DEF Keeps

(* Its values list what is kept of the level, in order. *)
LEMMA DroppedProperties ==
  ASSUME NEW T, NEW q \in Seq(T), NEW ids
  PROVE  /\ Dropped(q, ids) \in Seq(T)
         /\ \E f : Enumerates(Dropped(q, ids), q, ids, Len(q), f)
<1>1. PICK g : Keeps(q, ids, g) /\ Dropped(q, ids) = g[Len(q)]
  <2>1. Keeps(q, ids, CHOOSE g : Keeps(q, ids, g))
    BY KeeperExists
  <2>2. Dropped(q, ids) = (CHOOSE g : Keeps(q, ids, g))[Len(q)]
    BY DEF Dropped, Keeps
  <2> QED BY <2>1, <2>2
<1>2. \A i \in 0 .. Len(q) :
        g[i] = IF i = 0 THEN <<>>
               ELSE IF q[i].id \in ids THEN g[i - 1] ELSE Append(g[i - 1], q[i])
  BY <1>1 DEF Keeps
<1> DEFINE Good(n) == g[n] \in Seq(T) /\ \E f : Enumerates(g[n], q, ids, n, f)
           Bad == {n \in 0 .. Len(q) : ~Good(n)}
<1>3. Len(q) \in Nat
  OBVIOUS
<1>4. Bad = {}
  <2> SUFFICES ASSUME Bad # {} PROVE FALSE
    OBVIOUS
  <2>1. PICK n \in Bad : \A m \in Bad : n <= m
    <3>1. Bad \subseteq Nat
      OBVIOUS
    <3> HIDE DEF Bad
    <3> QED BY <3>1, LeastNat
  <2>2. n \in 0 .. Len(q) /\ ~Good(n) /\ n \in Nat
    BY <1>3
  <2>3. CASE n = 0
    <3> DEFINE f == [i \in 1 .. 0 |-> 1]
    <3>1. g[n] = <<>>
      BY <1>2, <2>2, <2>3
    <3>2. g[n] \in Seq(T) /\ Len(g[n]) = 0
      BY <3>1
    <3>3. Enumerates(g[n], q, ids, n, f)
      BY <2>3, <3>2 DEF Enumerates
    <3> QED BY <2>2, <3>2, <3>3
  <2>4. CASE n # 0
    <3>1. n - 1 \in 0 .. Len(q) /\ n - 1 \notin Bad /\ n \in 1 .. Len(q)
      <4> HIDE DEF Bad
      <4> QED BY <1>3, <2>1, <2>2, <2>4
    <3>2. g[n - 1] \in Seq(T)
      BY <3>1
    <3>3. PICK f : Enumerates(g[n - 1], q, ids, n - 1, f)
      BY <3>1
    <3>4. g[n] = IF q[n].id \in ids THEN g[n - 1] ELSE Append(g[n - 1], q[n])
      BY <1>2, <2>2, <2>4
    <3>5. q[n] \in T
      BY <3>1
    <3> DEFINE d == g[n - 1]
               k == Len(d)
    <3>6. k \in Nat
      BY <3>2
    <3>7. CASE q[n].id \in ids
      <4>1. Enumerates(d, q, ids, n, f)
        <5>1. \A i \in 1 .. n : i \in 1 .. n - 1 \/ i = n
          BY <2>2
        <5>2. 1 .. n - 1 \subseteq 1 .. n
          BY <2>2
        <5> QED BY <3>3, <3>7, <5>1, <5>2 DEF Enumerates
      <4> QED BY <2>2, <3>2, <3>4, <3>7, <4>1
    <3>8. CASE q[n].id \notin ids
      <4> DEFINE e == Append(d, q[n])
                 h == [j \in 1 .. k + 1 |-> IF j = k + 1 THEN n ELSE f[j]]
      <4>1. /\ e \in Seq(T) /\ Len(e) = k + 1 /\ e[k + 1] = q[n]
            /\ \A j \in 1 .. k : e[j] = d[j]
        BY <3>2, <3>5
      <4> HIDE DEF e
      <4>2. /\ f \in [1 .. k -> 1 .. n - 1]
            /\ \A i, j \in 1 .. k : i < j => f[i] < f[j]
            /\ \A j \in 1 .. k : d[j] = q[f[j]] /\ q[f[j]].id \notin ids
            /\ \A i \in 1 .. n - 1 : q[i].id \notin ids => \E j \in 1 .. k : f[j] = i
        BY <3>3 DEF Enumerates
      <4> HIDE DEF d, k
      <4>3. h \in [1 .. k + 1 -> 1 .. n] /\ h[k + 1] = n /\ \A j \in 1 .. k : h[j] = f[j]
        BY <2>2, <2>4, <3>6, <4>2
      <4> HIDE DEF h
      <4>4. \A i, j \in 1 .. k + 1 : i < j => h[i] < h[j]
        <5> TAKE i, j \in 1 .. k + 1
        <5>1. HAVE i < j
        <5>2. i \in 1 .. k /\ h[i] = f[i] /\ f[i] \in 1 .. n - 1
          BY <3>6, <4>2, <4>3, <5>1
        <5>3. CASE j = k + 1
          BY <2>2, <4>3, <5>2, <5>3
        <5>4. CASE j # k + 1
          BY <3>6, <4>2, <4>3, <5>1, <5>2, <5>4
        <5> QED BY <5>3, <5>4
      <4>5. \A j \in 1 .. k + 1 : e[j] = q[h[j]] /\ q[h[j]].id \notin ids
        <5> TAKE j \in 1 .. k + 1
        <5>1. CASE j = k + 1
          BY <3>8, <4>1, <4>3, <5>1
        <5>2. CASE j # k + 1
          <6>1. j \in 1 .. k
            BY <3>6, <5>2
          <6> QED BY <4>1, <4>2, <4>3, <6>1
        <5> QED BY <5>1, <5>2
      <4>6. ASSUME NEW i \in 1 .. n, q[i].id \notin ids PROVE \E j \in 1 .. k + 1 : h[j] = i
        <5>1. CASE i = n
          BY <3>6, <4>3, <5>1
        <5>2. CASE i # n
          <6>1. i \in 1 .. n - 1
            BY <2>2, <5>2
          <6>2. PICK j \in 1 .. k : f[j] = i
            BY <4>2, <4>6, <6>1
          <6> QED BY <3>6, <4>3, <6>2
        <5> QED BY <5>1, <5>2
      <4>7. Enumerates(e, q, ids, n, h)
        BY <4>1, <4>3, <4>4, <4>5, <4>6 DEF Enumerates
      <4>8. g[n] = e
        BY <3>4, <3>8 DEF d, e
      <4> QED BY <2>2, <4>1, <4>7, <4>8
    <3> QED BY <3>7, <3>8
  <2> QED BY <2>3, <2>4
<1>5. Len(q) \in 0 .. Len(q)
  BY <1>3
<1>6. Good(Len(q))
  BY <1>4, <1>5
<1> QED BY <1>1, <1>6
=============================================================================
