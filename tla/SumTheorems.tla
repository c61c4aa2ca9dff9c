---------------------------- MODULE SumTheorems ----------------------------
(***************************************************************************)
(* Facts about SumFunctionOnSet, with which the gateway's counters are     *)
(* added up over subqueues (queueLen), gateways (the admission script) and *)
(* pods, and the memory of a card over its engines: a sum is a number, one *)
(* summand can be taken out, changed or added, sums compare summand by     *)
(* summand, and a set has as many elements as its classes together.        *)
(*                                                                         *)
(* The operator folds the set in the order CHOOSE picks.  Every proof by   *)
(* induction is by a least counterexample: a set of subsets of a finite    *)
(* set that is not empty has one that contains no other (Minimal).         *)
(***************************************************************************)
EXTENDS Integers, FiniteSets, Functions, FiniteSetTheorems, WellFoundedInduction, TLAPS

(* The element the fold takes first, the equation of the fold, and its      *)
(* solutions on the subsets of S.                                          *)

Pick(s) == CHOOSE x \in s : TRUE
Body(g, f, s) == IF s = {} THEN 0 ELSE f[Pick(s)] + g[s \ {Pick(s)}]
Solves(g, f, S) == g = [s \in SUBSET S |-> Body(g, f, s)]

(* The sum is a solution of the equation, taken at the whole set. *)
LEMMA SumUnfold ==
  ASSUME NEW f, NEW S
  PROVE  SumFunctionOnSet(f, S) = (CHOOSE g : Solves(g, f, S))[S]
BY DEF SumFunctionOnSet, FoldFunctionOnSet, MapThenFoldSet, Solves, Body, Pick

(* Among subsets of a finite set there is a least one. *)
LEMMA Minimal ==
  ASSUME NEW S, IsFiniteSet(S), NEW T, T \subseteq SUBSET S, T # {}
  PROVE  \E x \in T : \A y \in T : y \subseteq x => y = x
<1>1. T \subseteq FiniteSubsetsOf(S)
  BY FS_FiniteSubsetsOfFinite
<1>2. PICK x \in T : \A y \in T : ~ (<<y, x>> \in StrictSubsetOrdering(S))
  BY <1>1, FS_StrictSubsetOrderingWellFounded, WFMin
<1>3. QED
  BY <1>2 DEF StrictSubsetOrdering

(* Two solutions agree where both are defined. *)
LEMMA Agree ==
  ASSUME NEW f, NEW S, NEW T, IsFiniteSet(S), NEW g, NEW h,
         Solves(g, f, S), Solves(h, f, T), NEW s \in SUBSET S, s \in SUBSET T
  PROVE  g[s] = h[s]
<1> DEFINE Bad == {u \in SUBSET s : g[u] # h[u]}
<1>1. SUFFICES ASSUME Bad # {} PROVE FALSE
  OBVIOUS
<1>2. IsFiniteSet(s)
  BY FS_Subset
<1>3. PICK u \in Bad : \A v \in Bad : v \subseteq u => v = u
  <2>1. Bad \subseteq SUBSET s
    OBVIOUS
  <2>2. QED
    <3> HIDE DEF Bad
    <3> QED BY <2>1, <1>1, <1>2, Minimal
<1>4. /\ g[u] = Body(g, f, u) /\ h[u] = Body(h, f, u)
      /\ u \in SUBSET s
  BY DEF Solves
<1>5. CASE u = {}
  BY <1>3, <1>4, <1>5 DEF Body
<1>6. CASE u # {}
  <2>1. Pick(u) \in u
    BY <1>6 DEF Pick
  <2>2. g[u \ {Pick(u)}] = h[u \ {Pick(u)}]
    BY <2>1, <1>3, <1>4
  <2>3. QED
    BY <2>2, <1>3, <1>4, <1>6 DEF Body
<1>7. QED
  BY <1>5, <1>6

(* The equation of the fold has a solution. *)
LEMMA Solvable ==
  ASSUME NEW f, NEW S, IsFiniteSet(S)
  PROVE  \E g : Solves(g, f, S)
<1> DEFINE Bad == {u \in SUBSET S : ~ \E g : Solves(g, f, u)}
<1>1. SUFFICES ASSUME Bad # {} PROVE FALSE
  OBVIOUS
<1>2. PICK u \in Bad : \A v \in Bad : v \subseteq u => v = u
  <2>1. Bad \subseteq SUBSET S
    OBVIOUS
  <2>2. QED
    <3> HIDE DEF Bad
    <3> QED BY <2>1, <1>1, Minimal
<1>3. ASSUME NEW v \in SUBSET u, v # u
      PROVE  \E g : Solves(g, f, v)
  BY <1>2, <1>3
<1> DEFINE Part(v) == CHOOSE g : Solves(g, f, v)
<1>4. ASSUME NEW v \in SUBSET u, v # u
      PROVE  Solves(Part(v), f, v)
  BY <1>3, <1>4
<1> HIDE DEF Part
<1> DEFINE G == [s \in SUBSET u |-> IF s = {} THEN 0
                                    ELSE f[Pick(s)] + Part(s \ {Pick(s)})[s \ {Pick(s)}]]
<1>5. Solves(G, f, u)
  <2>1. SUFFICES ASSUME NEW s \in SUBSET u, s # {}
                 PROVE  G[s \ {Pick(s)}] = Part(s \ {Pick(s)})[s \ {Pick(s)}]
    BY DEF Solves, Body
  <2> DEFINE v == s \ {Pick(s)}
  <2>2. Pick(s) \in s
    BY <2>1 DEF Pick
  <2>3. v \in SUBSET u /\ v # u
    BY <2>2
  <2>4. Solves(Part(v), f, v)
    BY <2>3, <1>4
  <2>5. Part(v)[v] = Body(Part(v), f, v)
    BY <2>4 DEF Solves
  <2>6. CASE v = {}
    BY <2>5, <2>6, <2>3 DEF Body
  <2>7. CASE v # {}
    <3> DEFINE w == v \ {Pick(v)}
    <3>1. Pick(v) \in v
      BY <2>7 DEF Pick
    <3>2. w \in SUBSET u /\ w # u /\ w \in SUBSET v
      BY <3>1, <2>3
    <3>3. Solves(Part(w), f, w)
      BY <3>2, <1>4
    <3>4. IsFiniteSet(v)
      BY <2>3, FS_Subset
    <3>5. Part(v)[w] = Part(w)[w]
      <4> HIDE DEF v, w
      <4> QED BY <3>2, <3>3, <3>4, <2>4, Agree
    <3>6. G[v] = f[Pick(v)] + Part(w)[w]
      BY <2>3, <2>7
    <3>7. QED
      BY <3>5, <3>6, <2>5, <2>7 DEF Body
  <2>8. QED
    BY <2>6, <2>7
<1>6. QED
  BY <1>5, <1>2

(* The recursion equation of a sum. *)
LEMMA SumEquation ==
  ASSUME NEW f, NEW S, IsFiniteSet(S), S # {}
  PROVE  /\ Pick(S) \in S
         /\ SumFunctionOnSet(f, S) = f[Pick(S)] + SumFunctionOnSet(f, S \ {Pick(S)})
<1> DEFINE V == S \ {Pick(S)}
           g == CHOOSE g : Solves(g, f, S)
           h == CHOOSE h : Solves(h, f, V)
<1>1. Pick(S) \in S
  BY DEF Pick
<1>2. IsFiniteSet(V)
  BY FS_Subset
<1>3. Solves(g, f, S) /\ Solves(h, f, V)
  BY <1>2, Solvable
<1>4. g[V] = h[V]
  <2> HIDE DEF g, h
  <2> QED BY <1>3, Agree
<1>5. SumFunctionOnSet(f, S) = g[S] /\ SumFunctionOnSet(f, V) = h[V]
  BY SumUnfold
<1>6. g[S] = Body(g, f, S)
  <2> HIDE DEF g, h
  <2> QED BY <1>3 DEF Solves
<1>7. QED
  <2> HIDE DEF g, h
  <2> QED BY <1>1, <1>4, <1>5, <1>6 DEF Body

(* The sum of nothing is zero. *)
LEMMA SumEmpty ==
  ASSUME NEW f
  PROVE  SumFunctionOnSet(f, {}) = 0
<1> DEFINE g == CHOOSE g : Solves(g, f, {})
<1>1. Solves(g, f, {})
  BY FS_EmptySet, Solvable
<1>2. SumFunctionOnSet(f, {}) = g[{}]
  BY SumUnfold
<1>3. QED
  <2> HIDE DEF g
  <2> QED BY <1>1, <1>2 DEF Solves, Body

-----------------------------------------------------------------------------
(* A sum of integers is one. *)
LEMMA SumInt ==
  ASSUME NEW S, IsFiniteSet(S), NEW f, \A x \in S : f[x] \in Int
  PROVE  SumFunctionOnSet(f, S) \in Int
<1> DEFINE Bad == {u \in SUBSET S : SumFunctionOnSet(f, u) \notin Int}
<1>1. SUFFICES ASSUME Bad # {} PROVE FALSE
  OBVIOUS
<1>2. PICK u \in Bad : \A v \in Bad : v \subseteq u => v = u
  <2>1. Bad \subseteq SUBSET S
    OBVIOUS
  <2>2. QED
    <3> HIDE DEF Bad
    <3> QED BY <2>1, <1>1, Minimal
<1>3. u # {}
  BY SumEmpty
<1>4. IsFiniteSet(u)
  BY FS_Subset
<1>5. /\ Pick(u) \in u
      /\ SumFunctionOnSet(f, u) = f[Pick(u)] + SumFunctionOnSet(f, u \ {Pick(u)})
  BY <1>3, <1>4, SumEquation
<1>6. SumFunctionOnSet(f, u \ {Pick(u)}) \in Int
  BY <1>2, <1>5
<1>7. QED
  BY <1>5, <1>6

(* Any summand can be taken out first. *)
LEMMA SumTakeOut ==
  ASSUME NEW S, IsFiniteSet(S), NEW f, \A x \in S : f[x] \in Int, NEW x \in S
  PROVE  SumFunctionOnSet(f, S) = f[x] + SumFunctionOnSet(f, S \ {x})
<1> DEFINE Sum(u) == SumFunctionOnSet(f, u)
           Bad == {u \in SUBSET S : \E y \in u : Sum(u) # f[y] + Sum(u \ {y})}
<1>1. SUFFICES ASSUME Bad # {} PROVE FALSE
  OBVIOUS
<1>2. PICK u \in Bad : \A v \in Bad : v \subseteq u => v = u
  <2>1. Bad \subseteq SUBSET S
    OBVIOUS
  <2>2. QED
    <3> HIDE DEF Bad
    <3> QED BY <2>1, <1>1, Minimal
<1>3. PICK y \in u : Sum(u) # f[y] + Sum(u \ {y})
  OBVIOUS
<1> DEFINE c == Pick(u)
<1>4. \A v \in SUBSET S : IsFiniteSet(v) /\ Sum(v) \in Int
  <2> TAKE v \in SUBSET S
  <2>1. IsFiniteSet(v)
    BY FS_Subset
  <2> QED BY <2>1, SumInt
<1>5. c \in u /\ Sum(u) = f[c] + Sum(u \ {c})
  BY <1>3, <1>4, SumEquation
<1>6. CASE y = c
  BY <1>3, <1>5, <1>6
<1>7. CASE y # c
  <2>1. u \ {c} \notin Bad /\ u \ {y} \notin Bad
    BY <1>2, <1>3, <1>5
  <2>2. Sum(u \ {c}) = f[y] + Sum((u \ {c}) \ {y})
    BY <2>1, <1>3, <1>7
  <2>3. (u \ {y}) \ {c} = (u \ {c}) \ {y}
    OBVIOUS
  <2>4. Sum(u \ {y}) = f[c] + Sum((u \ {c}) \ {y})
    BY <2>1, <2>3, <1>5, <1>7
  <2>5. /\ Sum((u \ {c}) \ {y}) \in Int /\ f[c] \in Int /\ f[y] \in Int
    BY <1>3, <1>4, <1>5
  <2>6. ASSUME NEW a \in Int, NEW b \in Int, NEW d \in Int
        PROVE  a + (b + d) = b + (a + d)
    OBVIOUS
  <2>7. QED
    BY <2>2, <2>4, <2>5, <2>6, <1>3, <1>5
<1>8. QED
  BY <1>6, <1>7

(* A sum of natural numbers is one. *)
LEMMA SumNat ==
  ASSUME NEW S, IsFiniteSet(S), NEW f, \A x \in S : f[x] \in Nat
  PROVE  SumFunctionOnSet(f, S) \in Nat
<1> DEFINE Bad == {u \in SUBSET S : SumFunctionOnSet(f, u) \notin Nat}
<1>1. SUFFICES ASSUME Bad # {} PROVE FALSE
  OBVIOUS
<1>2. PICK u \in Bad : \A v \in Bad : v \subseteq u => v = u
  <2>1. Bad \subseteq SUBSET S
    OBVIOUS
  <2>2. QED
    <3> HIDE DEF Bad
    <3> QED BY <2>1, <1>1, Minimal
<1>3. u # {}
  BY SumEmpty
<1>4. IsFiniteSet(u)
  BY FS_Subset
<1>5. PICK x \in u : TRUE
  BY <1>3
<1>6. u \ {x} \notin Bad /\ IsFiniteSet(u \ {x})
  BY <1>2, <1>4, <1>5, FS_Subset
<1>7. SumFunctionOnSet(f, u) = f[x] + SumFunctionOnSet(f, u \ {x})
  BY <1>4, <1>5, SumTakeOut
<1>8. QED
  BY <1>6, <1>7

(* Sums are monotonic. *)
LEMMA SumMonotone ==
  ASSUME NEW S, IsFiniteSet(S), NEW f, NEW g,
         \A x \in S : f[x] \in Int /\ g[x] \in Int /\ f[x] <= g[x]
  PROVE  SumFunctionOnSet(f, S) <= SumFunctionOnSet(g, S)
<1> DEFINE Bad == {u \in SUBSET S : ~(SumFunctionOnSet(f, u) <= SumFunctionOnSet(g, u))}
<1>1. SUFFICES ASSUME Bad # {} PROVE FALSE
  OBVIOUS
<1>2. PICK u \in Bad : \A v \in Bad : v \subseteq u => v = u
  <2>1. Bad \subseteq SUBSET S
    OBVIOUS
  <2>2. QED
    <3> HIDE DEF Bad
    <3> QED BY <2>1, <1>1, Minimal
<1>3. u # {}
  BY SumEmpty
<1>4. IsFiniteSet(u)
  BY FS_Subset
<1>5. PICK x \in u : TRUE
  BY <1>3
<1>6. u \ {x} \notin Bad /\ IsFiniteSet(u \ {x})
  BY <1>2, <1>4, <1>5, FS_Subset
<1>7. /\ SumFunctionOnSet(f, u) = f[x] + SumFunctionOnSet(f, u \ {x})
      /\ SumFunctionOnSet(g, u) = g[x] + SumFunctionOnSet(g, u \ {x})
      /\ SumFunctionOnSet(f, u \ {x}) \in Int /\ SumFunctionOnSet(g, u \ {x}) \in Int
  BY <1>4, <1>5, <1>6, SumTakeOut, SumInt
<1>8. SumFunctionOnSet(f, u \ {x}) <= SumFunctionOnSet(g, u \ {x})
  BY <1>6
<1>9. f[x] \in Int /\ g[x] \in Int /\ f[x] <= g[x]
  BY <1>5
<1>10. QED
  BY <1>7, <1>8, <1>9

(* Equal summands give equal sums. *)
LEMMA SumEqual ==
  ASSUME NEW S, IsFiniteSet(S), NEW f, NEW g,
         \A x \in S : f[x] \in Int /\ g[x] = f[x]
  PROVE  SumFunctionOnSet(f, S) = SumFunctionOnSet(g, S)
<1>1. /\ SumFunctionOnSet(f, S) <= SumFunctionOnSet(g, S)
      /\ SumFunctionOnSet(g, S) <= SumFunctionOnSet(f, S)
  BY SumMonotone
<1>2. SumFunctionOnSet(f, S) \in Int /\ SumFunctionOnSet(g, S) \in Int
  BY SumInt
<1>3. QED
  BY <1>1, <1>2

(* One summand changes. *)
LEMMA SumChange ==
  ASSUME NEW S, IsFiniteSet(S), NEW f, NEW g, NEW x \in S,
         \A y \in S : f[y] \in Int /\ g[y] \in Int,
         \A y \in S \ {x} : g[y] = f[y]
  PROVE  SumFunctionOnSet(g, S) = SumFunctionOnSet(f, S) - f[x] + g[x]
<1>1. IsFiniteSet(S \ {x})
  BY FS_Subset
<1>2. SumFunctionOnSet(f, S \ {x}) = SumFunctionOnSet(g, S \ {x})
  BY <1>1, SumEqual
<1>3. /\ SumFunctionOnSet(f, S) = f[x] + SumFunctionOnSet(f, S \ {x})
      /\ SumFunctionOnSet(g, S) = g[x] + SumFunctionOnSet(g, S \ {x})
  BY SumTakeOut
<1>4. SumFunctionOnSet(f, S \ {x}) \in Int /\ f[x] \in Int /\ g[x] \in Int
  BY <1>1, SumInt
<1>5. QED
  BY <1>2, <1>3, <1>4

(* One summand joins. *)
LEMMA SumAdd ==
  ASSUME NEW S, IsFiniteSet(S), NEW f, NEW x, x \notin S,
         \A y \in S \cup {x} : f[y] \in Int
  PROVE  SumFunctionOnSet(f, S \cup {x}) = SumFunctionOnSet(f, S) + f[x]
<1>1. IsFiniteSet(S \cup {x}) /\ (S \cup {x}) \ {x} = S
  BY FS_AddElement
<1>2. SumFunctionOnSet(f, S \cup {x}) = f[x] + SumFunctionOnSet(f, S)
  BY <1>1, SumTakeOut
<1>3. SumFunctionOnSet(f, S) \in Int /\ f[x] \in Int
  BY SumInt
<1>4. QED
  BY <1>2, <1>3

(* A sum of zeros is zero. *)
LEMMA SumZero ==
  ASSUME NEW S, IsFiniteSet(S), NEW f, \A x \in S : f[x] = 0
  PROVE  SumFunctionOnSet(f, S) = 0
<1> DEFINE Bad == {u \in SUBSET S : SumFunctionOnSet(f, u) # 0}
<1>1. SUFFICES ASSUME Bad # {} PROVE FALSE
  OBVIOUS
<1>2. PICK u \in Bad : \A v \in Bad : v \subseteq u => v = u
  <2>1. Bad \subseteq SUBSET S
    OBVIOUS
  <2>2. QED
    <3> HIDE DEF Bad
    <3> QED BY <2>1, <1>1, Minimal
<1>3. u # {}
  BY SumEmpty
<1>4. IsFiniteSet(u)
  BY FS_Subset
<1>5. PICK x \in u : TRUE
  BY <1>3
<1>6. u \ {x} \notin Bad /\ IsFiniteSet(u \ {x})
  BY <1>2, <1>4, <1>5, FS_Subset
<1>7. SumFunctionOnSet(f, u) = f[x] + SumFunctionOnSet(f, u \ {x})
  BY <1>4, <1>5, SumTakeOut
<1>8. QED
  BY <1>6, <1>7

(* A finite set that is split by its elements' class has as many elements as its
   classes together. *)
LEMMA CardinalityIsSum ==
  ASSUME NEW S, IsFiniteSet(S), NEW C, IsFiniteSet(C), NEW m, \A x \in S : m[x] \in C
  PROVE  Cardinality(S) = SumFunctionOnSet([c \in C |-> Cardinality({x \in S : m[x] = c})], C)
<1> DEFINE Bad == {u \in SUBSET S : Cardinality(u) # SumFunctionOnSet([c \in C |-> Cardinality({y \in u : m[y] = c})], C)}
<1>1. SUFFICES ASSUME Bad # {} PROVE FALSE
  OBVIOUS
<1>2. PICK u \in Bad : \A v \in Bad : v \subseteq u => v = u
  <2>1. Bad \subseteq SUBSET S
    OBVIOUS
  <2>2. QED
    <3> HIDE DEF Bad
    <3> QED BY <2>1, <1>1, Minimal
<1>3. u # {}
  <2>1. ASSUME u = {} PROVE FALSE
    <3> DEFINE zero == [c \in C |-> Cardinality({y \in u : m[y] = c})]
    <3>1. \A c \in C : zero[c] = 0
      <4> TAKE c \in C
      <4>1. {y \in u : m[y] = c} = {}
        BY <2>1
      <4> QED BY <4>1, FS_EmptySet
    <3>2. SumFunctionOnSet(zero, C) = 0
      <4> HIDE DEF zero
      <4> QED BY <3>1, SumZero
    <3>3. QED
      BY <3>2, <2>1, FS_EmptySet
  <2>2. QED
    BY <2>1
<1>4. IsFiniteSet(u)
  BY FS_Subset
<1>5. PICK x \in u : TRUE
  BY <1>3
<1>6. u \ {x} \notin Bad /\ IsFiniteSet(u \ {x})
  BY <1>2, <1>4, <1>5, FS_Subset
<1> DEFINE f == [c \in C |-> Cardinality({y \in u \ {x} : m[y] = c})]
           g == [c \in C |-> Cardinality({y \in u : m[y] = c})]
<1>7. Cardinality(u) = Cardinality(u \ {x}) + 1 /\ Cardinality(u \ {x}) \in Nat
  BY <1>4, <1>5, <1>6, FS_RemoveElement, FS_CardinalityType
<1>8. \A c \in C : f[c] \in Nat /\ g[c] = f[c] + (IF c = m[x] THEN 1 ELSE 0)
  <2> TAKE c \in C
  <2>1. IsFiniteSet({y \in u : m[y] = c}) /\ IsFiniteSet({y \in u \ {x} : m[y] = c})
    BY <1>4, FS_Subset
  <2>2. f[c] \in Nat /\ g[c] \in Nat
    BY <2>1, FS_CardinalityType
  <2>3. CASE c = m[x]
    <3>1. {y \in u \ {x} : m[y] = c} = {y \in u : m[y] = c} \ {x} /\ x \in {y \in u : m[y] = c}
      BY <2>3, <1>5
    <3>2. Cardinality({y \in u : m[y] = c} \ {x}) = Cardinality({y \in u : m[y] = c}) - 1
      BY <3>1, <2>1, FS_RemoveElement
    <3>3. f[c] = g[c] - 1
      BY <3>1, <3>2
    <3>4. QED
      <4> HIDE DEF f, g
      <4> QED BY <3>3, <2>2, <2>3
  <2>4. CASE c # m[x]
    <3>1. {y \in u \ {x} : m[y] = c} = {y \in u : m[y] = c}
      BY <2>4
    <3>2. f[c] = g[c]
      BY <3>1
    <3>3. QED
      <4> HIDE DEF f, g
      <4> QED BY <3>2, <2>2, <2>4
  <2>5. QED
    BY <2>3, <2>4
<1>9. Cardinality(u \ {x}) = SumFunctionOnSet(f, C)
  BY <1>6
<1>10. SumFunctionOnSet(g, C) = SumFunctionOnSet(f, C) - f[m[x]] + g[m[x]]
  <2>1. m[x] \in C
    BY <1>5
  <2> HIDE DEF f, g
  <2>2. (\A c \in C : f[c] \in Int /\ g[c] \in Int) /\ (\A c \in C \ {m[x]} : g[c] = f[c])
    BY <1>8
  <2>3. QED
    BY <2>1, <2>2, SumChange
<1>11. f[m[x]] \in Nat /\ g[m[x]] = f[m[x]] + 1
  <2> HIDE DEF f, g
  <2> QED BY <1>8, <1>5
<1>12. Cardinality(u) = SumFunctionOnSet(g, C)
  <2> HIDE DEF f, g
  <2> QED BY <1>7, <1>9, <1>10, <1>11
<1>13. QED
  BY <1>12

(* Summands that are zero can be left out. *)
LEMMA SumSupport ==
  ASSUME NEW S, IsFiniteSet(S), NEW f, \A x \in S : f[x] \in Int,
         NEW T \in SUBSET S, \A x \in S \ T : f[x] = 0
  PROVE  SumFunctionOnSet(f, S) = SumFunctionOnSet(f, T)
<1> DEFINE Bad == {u \in SUBSET S : SumFunctionOnSet(f, u) # SumFunctionOnSet(f, u \cap T)}
<1>1. SUFFICES ASSUME Bad # {} PROVE FALSE
  <2>1. S \cap T = T /\ S \in SUBSET S
    OBVIOUS
  <2>2. QED
    BY <2>1
<1>2. PICK u \in Bad : \A v \in Bad : v \subseteq u => v = u
  <2>1. Bad \subseteq SUBSET S
    OBVIOUS
  <2>2. QED
    <3> HIDE DEF Bad
    <3> QED BY <2>1, <1>1, Minimal
<1>3. PICK x \in u : x \notin T
  <2>1. ~(u \subseteq T)
    <3>1. u \subseteq T => u \cap T = u
      OBVIOUS
    <3>2. QED
      BY <3>1
  <2>2. QED
    BY <2>1
<1>4. IsFiniteSet(u)
  BY FS_Subset
<1>5. SumFunctionOnSet(f, u) = f[x] + SumFunctionOnSet(f, u \ {x})
  BY <1>3, <1>4, SumTakeOut
<1>6. f[x] = 0 /\ IsFiniteSet(u \ {x}) /\ (u \ {x}) \cap T = u \cap T
  BY <1>3, <1>4, FS_Subset
<1>7. SumFunctionOnSet(f, u \ {x}) \in Int
  BY <1>6, SumInt
<1>8. u \ {x} \notin Bad
  BY <1>2, <1>3
<1>9. SumFunctionOnSet(f, u \ {x}) = SumFunctionOnSet(f, (u \ {x}) \cap T)
  BY <1>8
<1>10. SumFunctionOnSet(f, u) = SumFunctionOnSet(f, u \ {x})
  BY <1>5, <1>6, <1>7
<1>11. SumFunctionOnSet(f, (u \ {x}) \cap T) = SumFunctionOnSet(f, u \cap T)
  BY <1>6
<1>12. SumFunctionOnSet(f, u) # SumFunctionOnSet(f, u \cap T)
  BY <1>2
<1> HIDE DEF Bad
<1>13. QED
  BY <1>9, <1>10, <1>11, <1>12

(* One element of a finite set changes. *)
LEMMA CardinalityChange ==
  ASSUME NEW S, NEW T, IsFiniteSet(S), IsFiniteSet(T), NEW r,
         \A q : q # r => (q \in S <=> q \in T)
  PROVE  /\ Cardinality(S) \in Nat /\ Cardinality(T) \in Nat
         /\ Cardinality(T) = Cardinality(S) - (IF r \in S THEN 1 ELSE 0)
                                            + (IF r \in T THEN 1 ELSE 0)
<1> DEFINE R == S \ {r}
<1>1. IsFiniteSet(R) /\ r \notin R /\ Cardinality(R) \in Nat
  BY FS_Subset, FS_CardinalityType
<1>2. Cardinality(R \cup {r}) = Cardinality(R) + 1
  BY <1>1, FS_AddElement
<1>3. S = (IF r \in S THEN R \cup {r} ELSE R)
  OBVIOUS
<1>4. T = (IF r \in T THEN R \cup {r} ELSE R)
  OBVIOUS
<1> HIDE DEF R
<1>5. Cardinality(S) = Cardinality(R) + (IF r \in S THEN 1 ELSE 0)
  BY <1>1, <1>2, <1>3
<1>6. Cardinality(T) = Cardinality(R) + (IF r \in T THEN 1 ELSE 0)
  <2>1. CASE r \in T
    <3>1. T = R \cup {r}
      BY <1>4, <2>1
    <3>2. QED
      BY <1>2, <2>1, <3>1
  <2>2. CASE r \notin T
    <3>1. T = R
      BY <1>4, <2>2
    <3>2. QED
      BY <1>1, <2>2, <3>1
  <2>3. QED
    BY <2>1, <2>2
<1>7. QED
  BY <1>1, <1>5, <1>6
(* Sums are added summand by summand. *)
LEMMA SumPlus ==
  ASSUME NEW S, IsFiniteSet(S), NEW f, NEW g, NEW h,
         \A x \in S : f[x] \in Int /\ g[x] \in Int /\ h[x] = f[x] + g[x]
  PROVE  SumFunctionOnSet(h, S) = SumFunctionOnSet(f, S) + SumFunctionOnSet(g, S)
<1> DEFINE Bad == {u \in SUBSET S : SumFunctionOnSet(h, u) # SumFunctionOnSet(f, u) + SumFunctionOnSet(g, u)}
<1>1. SUFFICES ASSUME Bad # {} PROVE FALSE
  OBVIOUS
<1>2. PICK u \in Bad : \A v \in Bad : v \subseteq u => v = u
  <2>1. Bad \subseteq SUBSET S
    OBVIOUS
  <2>2. QED
    <3> HIDE DEF Bad
    <3> QED BY <2>1, <1>1, Minimal
<1>3. u # {}
  <2>1. /\ SumFunctionOnSet(f, {}) = 0 /\ SumFunctionOnSet(g, {}) = 0
        /\ SumFunctionOnSet(h, {}) = 0 /\ 0 = 0 + 0
    BY SumEmpty
  <2>2. QED
    BY <2>1
<1>4. IsFiniteSet(u)
  BY FS_Subset
<1>5. PICK x \in u : TRUE
  BY <1>3
<1>6. u \ {x} \notin Bad /\ IsFiniteSet(u \ {x})
  BY <1>2, <1>4, <1>5, FS_Subset
<1>7. /\ SumFunctionOnSet(f, u) = f[x] + SumFunctionOnSet(f, u \ {x})
      /\ SumFunctionOnSet(g, u) = g[x] + SumFunctionOnSet(g, u \ {x})
      /\ SumFunctionOnSet(h, u) = h[x] + SumFunctionOnSet(h, u \ {x})
      /\ SumFunctionOnSet(f, u \ {x}) \in Int /\ SumFunctionOnSet(g, u \ {x}) \in Int
  BY <1>4, <1>5, <1>6, SumTakeOut, SumInt
<1>8. SumFunctionOnSet(h, u \ {x}) = SumFunctionOnSet(f, u \ {x}) + SumFunctionOnSet(g, u \ {x})
  BY <1>6
<1>9. f[x] \in Int /\ g[x] \in Int /\ h[x] = f[x] + g[x]
  BY <1>5
<1>10. QED
  BY <1>7, <1>8, <1>9

(* A common factor can be taken out. *)
LEMMA SumScale ==
  ASSUME NEW S, IsFiniteSet(S), NEW f, NEW h, NEW k \in Int,
         \A x \in S : f[x] \in Int /\ h[x] = k * f[x]
  PROVE  SumFunctionOnSet(h, S) = k * SumFunctionOnSet(f, S)
<1> DEFINE Bad == {u \in SUBSET S : SumFunctionOnSet(h, u) # k * SumFunctionOnSet(f, u)}
<1>1. SUFFICES ASSUME Bad # {} PROVE FALSE
  OBVIOUS
<1>2. PICK u \in Bad : \A v \in Bad : v \subseteq u => v = u
  <2>1. Bad \subseteq SUBSET S
    OBVIOUS
  <2>2. QED
    <3> HIDE DEF Bad
    <3> QED BY <2>1, <1>1, Minimal
<1>3. u # {}
  <2>1. SumFunctionOnSet(f, {}) = 0 /\ SumFunctionOnSet(h, {}) = 0 /\ k * 0 = 0
    BY SumEmpty
  <2>2. QED
    BY <2>1
<1>4. IsFiniteSet(u)
  BY FS_Subset
<1>5. PICK x \in u : TRUE
  BY <1>3
<1>6. u \ {x} \notin Bad /\ IsFiniteSet(u \ {x})
  BY <1>2, <1>4, <1>5, FS_Subset
<1>7. /\ SumFunctionOnSet(f, u) = f[x] + SumFunctionOnSet(f, u \ {x})
      /\ SumFunctionOnSet(h, u) = h[x] + SumFunctionOnSet(h, u \ {x})
      /\ SumFunctionOnSet(f, u \ {x}) \in Int
  BY <1>4, <1>5, <1>6, SumTakeOut, SumInt
<1>8. SumFunctionOnSet(h, u \ {x}) = k * SumFunctionOnSet(f, u \ {x})
  BY <1>6
<1>9. f[x] \in Int /\ h[x] = k * f[x]
  BY <1>5
<1>10. ASSUME NEW a \in Int, NEW b \in Int PROVE k * (a + b) = k * a + k * b
  OBVIOUS
<1>11. QED
  BY <1>7, <1>8, <1>9, <1>10

(* Summands that are found, each at a place of its own, among larger ones and
   others that are not negative come to no more. *)
LEMMA SumInto ==
  ASSUME NEW S, IsFiniteSet(S), NEW T, IsFiniteSet(T), NEW f, NEW g, NEW m,
         \A x \in S : f[x] \in Int /\ m[x] \in T /\ f[x] <= g[m[x]],
         \A x, y \in S : m[x] = m[y] => x = y,
         \A z \in T : g[z] \in Nat
  PROVE  SumFunctionOnSet(f, S) <= SumFunctionOnSet(g, T)
<1> DEFINE Im(u) == {m[x] : x \in u}
           Bad == {u \in SUBSET S : ~(SumFunctionOnSet(f, u) <= SumFunctionOnSet(g, Im(u)))}
<1>1. ASSUME Bad # {} PROVE FALSE
  <2>2. PICK u \in Bad : \A v \in Bad : v \subseteq u => v = u
    <3>1. Bad \subseteq SUBSET S
      OBVIOUS
    <3>2. QED
      <4> HIDE DEF Bad
      <4> QED BY <3>1, <1>1, Minimal
  <2>3. u # {}
    <3> SUFFICES ASSUME u = {} PROVE FALSE
      OBVIOUS
    <3>1. Im(u) = {}
      OBVIOUS
    <3>2. SumFunctionOnSet(f, u) = 0 /\ SumFunctionOnSet(g, Im(u)) = 0
      BY <3>1, SumEmpty
    <3>3. QED
      BY <3>2, <2>2
  <2>4. IsFiniteSet(u)
    BY FS_Subset
  <2>5. PICK x \in u : TRUE
    BY <2>3
  <2>6. u \ {x} \notin Bad /\ IsFiniteSet(u \ {x})
    BY <2>2, <2>4, <2>5, FS_Subset
  <2>7. /\ m[x] \in Im(u) /\ Im(u) \ {m[x]} = Im(u \ {x})
        /\ Im(u) \subseteq T /\ IsFiniteSet(Im(u)) /\ IsFiniteSet(Im(u) \ {m[x]})
    <3>1. m[x] \in Im(u) /\ Im(u) \subseteq T
      BY <2>5
    <3>2. Im(u) \ {m[x]} = Im(u \ {x})
      BY <2>5
    <3>3. IsFiniteSet(Im(u)) /\ IsFiniteSet(Im(u) \ {m[x]})
      <4> HIDE DEF Im
      <4> QED BY <3>1, FS_Subset
    <3>4. QED
      BY <3>1, <3>2, <3>3
  <2>8. \A z \in Im(u) : g[z] \in Int
    BY <2>7
  <2>9. SumFunctionOnSet(g, Im(u)) = g[m[x]] + SumFunctionOnSet(g, Im(u) \ {m[x]})
    <3> HIDE DEF Im
    <3> QED BY <2>7, <2>8, SumTakeOut
  <2>10. SumFunctionOnSet(g, Im(u) \ {m[x]}) \in Int
    <3> HIDE DEF Im
    <3> QED BY <2>7, <2>8, SumInt
  <2>11. /\ SumFunctionOnSet(f, u) = f[x] + SumFunctionOnSet(f, u \ {x})
         /\ SumFunctionOnSet(f, u \ {x}) \in Int
    BY <2>4, <2>5, <2>6, SumTakeOut, SumInt
  <2>12. SumFunctionOnSet(f, u \ {x}) <= SumFunctionOnSet(g, Im(u) \ {m[x]})
    BY <2>6, <2>7
  <2>13. f[x] \in Int /\ g[m[x]] \in Int /\ f[x] <= g[m[x]]
    BY <2>5
  <2>14. ~(SumFunctionOnSet(f, u) <= SumFunctionOnSet(g, Im(u)))
    BY <2>2
  <2> HIDE DEF Im, Bad
  <2> QED BY <2>9, <2>10, <2>11, <2>12, <2>13, <2>14
<1>2. SumFunctionOnSet(f, S) <= SumFunctionOnSet(g, Im(S))
  BY <1>1
<1> DEFINE h == [z \in T |-> IF z \in Im(S) THEN g[z] ELSE 0]
<1>3. Im(S) \in SUBSET T /\ IsFiniteSet(Im(S))
  <2>1. Im(S) \in SUBSET T
    OBVIOUS
  <2> HIDE DEF Im
  <2> QED BY <2>1, FS_Subset
<1>4. SumFunctionOnSet(h, T) = SumFunctionOnSet(h, Im(S))
  <2>1. (\A z \in T : h[z] \in Int) /\ (\A z \in T \ Im(S) : h[z] = 0)
    BY <1>3
  <2> HIDE DEF h, Im
  <2> QED BY <1>3, <2>1, SumSupport
<1>5. SumFunctionOnSet(g, Im(S)) = SumFunctionOnSet(h, Im(S))
  <2>1. \A z \in Im(S) : g[z] \in Int /\ h[z] = g[z]
    BY <1>3
  <2> HIDE DEF h, Im
  <2> QED BY <1>3, <2>1, SumEqual
<1>6. SumFunctionOnSet(h, T) <= SumFunctionOnSet(g, T)
  <2>1. \A z \in T : h[z] \in Int /\ g[z] \in Int /\ h[z] <= g[z]
    OBVIOUS
  <2> HIDE DEF h
  <2> QED BY <2>1, SumMonotone
<1>7. /\ SumFunctionOnSet(f, S) \in Int /\ SumFunctionOnSet(g, T) \in Int
      /\ SumFunctionOnSet(h, Im(S)) \in Int
  <2>1. \A z \in Im(S) : h[z] \in Int
    BY <1>3
  <2>2. \A z \in T : g[z] \in Int
    OBVIOUS
  <2> HIDE DEF h, Im
  <2> QED BY <1>3, <2>1, <2>2, SumInt
<1> HIDE DEF h, Im, Bad
<1> QED BY <1>2, <1>4, <1>5, <1>6, <1>7

(* A sum of ones counts. *)
LEMMA SumOnes ==
  ASSUME NEW S, IsFiniteSet(S), NEW f, \A x \in S : f[x] = 1
  PROVE  SumFunctionOnSet(f, S) = Cardinality(S)
<1> DEFINE Bad == {u \in SUBSET S : SumFunctionOnSet(f, u) # Cardinality(u)}
<1>1. SUFFICES ASSUME Bad # {} PROVE FALSE
  OBVIOUS
<1>2. PICK u \in Bad : \A v \in Bad : v \subseteq u => v = u
  <2>1. Bad \subseteq SUBSET S
    OBVIOUS
  <2>2. QED
    <3> HIDE DEF Bad
    <3> QED BY <2>1, <1>1, Minimal
<1>3. u # {}
  BY SumEmpty, FS_EmptySet
<1>4. IsFiniteSet(u)
  BY FS_Subset
<1>5. PICK x \in u : TRUE
  BY <1>3
<1>6. u \ {x} \notin Bad /\ IsFiniteSet(u \ {x})
  BY <1>2, <1>4, <1>5, FS_Subset
<1>7. SumFunctionOnSet(f, u) = f[x] + SumFunctionOnSet(f, u \ {x})
  BY <1>4, <1>5, SumTakeOut
<1>8. Cardinality(u) = Cardinality(u \ {x}) + 1 /\ Cardinality(u \ {x}) \in Nat
  BY <1>4, <1>5, <1>6, FS_RemoveElement, FS_CardinalityType
<1>9. SumFunctionOnSet(f, u \ {x}) = Cardinality(u \ {x})
  BY <1>6
<1>10. f[x] = 1
  BY <1>5
<1>11. QED
  BY <1>7, <1>8, <1>9, <1>10
=============================================================================
