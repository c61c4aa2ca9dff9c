--------------------------- MODULE RoleSetProofs ---------------------------
(***************************************************************************)
(* What TLAPS proves of RoleSet, for any roles, replicas, surges, drains,  *)
(* quotas and faults that ConfigAssumption allows:                         *)
(*   TypeCorrect      the type invariant, with the quota                   *)
(*   FloorIsKept      no pass takes a ready pod the floor needs            *)
(*   OrderCorrect     Sequential finishes a role before the next           *)
(*   LockstepCorrect  Interleave keeps the roles within a step             *)
(*                                                                         *)
(* Four inductive invariants carry them. TInv is TypeOK and where drain    *)
(* marks may be. UpInv: a RoleSet that was up stays quiet until an edit,   *)
(* so an update starts from full roles. OrderInv: of two roles, the        *)
(* earlier is finished or the later untouched (Turn), and a pass that has  *)
(* come to a role has passed finished ones only (Rolling). StepInv: each   *)
(* role is within a step whose predecessor every role has reached (Lock),  *)
(* in the pods and in the cached list, and a pass rolls only a step that   *)
(* has been reached.                                                       *)
(***************************************************************************)
EXTENDS RoleSet, SumTheorems, SequenceTheorems

-----------------------------------------------------------------------------
(* Arithmetic and sets.                                                    *)

(* The larger and the smaller of two numbers. *)
LEMMA MaxMin ==
  ASSUME NEW a \in Int, NEW b \in Int
  PROVE  /\ Max({a, b}) = IF a >= b THEN a ELSE b
         /\ Min({a, b}) = IF a <= b THEN a ELSE b
<1>1. /\ \E x \in {a, b} : \A y \in {a, b} : x >= y
      /\ \E x \in {a, b} : \A y \in {a, b} : x <= y
  OBVIOUS
<1>2. Max({a, b}) \in {a, b} /\ \A y \in {a, b} : Max({a, b}) >= y
  BY <1>1 DEF Max
<1>3. Min({a, b}) \in {a, b} /\ \A y \in {a, b} : Min({a, b}) <= y
  BY <1>1 DEF Min
<1> QED BY <1>2, <1>3

(* A set of numbers that is not empty has a least one. *)
LEMMA MinNat ==
  ASSUME NEW S, S \subseteq Nat, S # {}
  PROVE  Min(S) \in S /\ \A x \in S : Min(S) <= x
<1>1. PICK x \in S : \A y \in S : ~ (<<y, x>> \in OpToRel(<, Nat))
  BY NatLessThanWellFounded, WFMin
<1>2. \A y \in S : x <= y
  <2> TAKE y \in S
  <2>1. ~ (y < x)
    BY <1>1 DEF OpToRel
  <2> QED BY <2>1
<1> QED BY <1>2 DEF Min

(* The pods, and every set of them, are finite. *)
LEMMA PodsFinite ==
  ASSUME NEW S, S \subseteq Pods
  PROVE  IsFiniteSet(S) /\ Cardinality(S) \in Nat
<1>1. IsFiniteSet(Pods)
  BY ConfigAssumption, FS_Interval DEF Pods
<1>2. IsFiniteSet(S)
  BY <1>1, FS_Subset
<1> QED BY <1>2, FS_CardinalityType

(* What is taken out of a set of pods is no longer counted. *)
LEMMA PodsCount ==
  ASSUME NEW S, S \subseteq Pods, NEW T, T \subseteq S
  PROVE  /\ Cardinality(T) <= Cardinality(S)
         /\ Cardinality(T) = Cardinality(S) => T = S
         /\ Cardinality(S \ T) = Cardinality(S) - Cardinality(T)
<1>1. IsFiniteSet(S)
  BY PodsFinite
<1>2. S \cap T = T /\ T \in SUBSET S
  OBVIOUS
<1>3. /\ Cardinality(T) <= Cardinality(S)
      /\ Cardinality(S) = Cardinality(T) => S = T
  BY <1>1, <1>2, FS_Subset
<1>4. Cardinality(S \ T) = Cardinality(S) - Cardinality(S \cap T)
  BY <1>1, FS_Difference
<1> QED BY <1>2, <1>3, <1>4

(* Two sets of pods together have at most the pods of both. *)
LEMMA PodsUnion ==
  ASSUME NEW S, S \subseteq Pods, NEW T, T \subseteq Pods
  PROVE  /\ Cardinality(S \cup T) <= Cardinality(S) + Cardinality(T)
         /\ S \cap T = {} => Cardinality(S \cup T) = Cardinality(S) + Cardinality(T)
<1>1. IsFiniteSet(S) /\ IsFiniteSet(T) /\ Cardinality(S) \in Nat /\ Cardinality(T) \in Nat
  BY PodsFinite
<1>2. Cardinality(S \cap T) \in Nat
  BY PodsFinite
<1>3. Cardinality(S \cup T) = Cardinality(S) + Cardinality(T) - Cardinality(S \cap T)
  BY <1>1, FS_Union
<1> QED BY <1>1, <1>2, <1>3, FS_EmptySet

(* The first n free identities are at most n. *)
LEMMA FreshFacts ==
  ASSUME NEW n \in Int
  PROVE  /\ Fresh(n) \subseteq FreeIds /\ FreeIds \subseteq Pods
         /\ Cardinality(Fresh(n)) \in Nat
         /\ n <= 0 => Fresh(n) = {}
         /\ n >= 0 => Cardinality(Fresh(n)) <= n
<1>1. Fresh(n) \subseteq FreeIds /\ FreeIds \subseteq Pods
  BY DEF Fresh, FreeIds
<1>2. Cardinality(Fresh(n)) \in Nat
  BY <1>1, PodsFinite
<1>3. ASSUME n <= 0 PROVE Fresh(n) = {}
  <2>1. \A p \in FreeIds : Cardinality({q \in FreeIds : q < p}) \in Nat
    BY <1>1, PodsFinite
  <2> QED BY <2>1, <1>3 DEF Fresh
<1>4. ASSUME n >= 0 PROVE Cardinality(Fresh(n)) <= n
  <2>1. CASE Fresh(n) = {}
    BY <2>1, <1>4, FS_EmptySet
  <2>2. CASE Fresh(n) # {}
    <3> DEFINE T == {MaxPods - p : p \in Fresh(n)}
    <3>1. MaxPods \in Nat /\ \A p \in Fresh(n) : p \in 1..MaxPods
      BY <1>1, ConfigAssumption DEF Pods
    <3>2. T \subseteq Nat /\ T # {}
      BY <3>1, <2>2
    <3>3. Min(T) \in T /\ \A x \in T : Min(T) <= x
      <4> HIDE DEF T
      <4> QED BY <3>2, MinNat
    <3>4. PICK m \in Fresh(n) : Min(T) = MaxPods - m
      BY <3>3
    <3>5. \A p \in Fresh(n) : p <= m
      <4> TAKE p \in Fresh(n)
      <4>1. MaxPods - p \in T
        OBVIOUS
      <4>2. MaxPods - m <= MaxPods - p
        BY <4>1, <3>3, <3>4
      <4> QED BY <4>2, <3>1
    <3> DEFINE Low == {q \in FreeIds : q < m}
    <3>6. Cardinality(Low) < n /\ Low \subseteq Pods
      BY <1>1 DEF Fresh
    <3>7. Cardinality(Low) \in Nat /\ IsFiniteSet(Low)
      BY <3>6, PodsFinite
    <3>8. Fresh(n) \subseteq Low \cup {m}
      BY <3>1, <3>5, <1>1
    <3>9. IsFiniteSet(Low \cup {m}) /\ Cardinality(Low \cup {m}) = Cardinality(Low) + 1
      <4>1. m \in Int /\ ~(m < m) /\ m \notin Low
        BY <3>1
      <4> HIDE DEF Low
      <4> QED BY <3>7, <4>1, FS_AddElement
    <3>10. Cardinality(Fresh(n)) <= Cardinality(Low) + 1
      BY <3>8, <3>9, FS_Subset
    <3> QED BY <3>10, <3>6, <3>7, <1>2
  <2> QED BY <2>1, <2>2
<1> QED BY <1>1, <1>2, <1>3, <1>4

-----------------------------------------------------------------------------
(* A RoleSet and the order of its roles.                                   *)

(* The fields of a RoleSet that is considered. *)
LEMMA ConfigFacts ==
  ASSUME config \in Configs
  PROVE  /\ Len(config.replicas) \in Nat /\ Len(config.replicas) >= 1
         /\ Roles = 1..Len(config.replicas)
         /\ config.replicas \in [Roles -> Nat] /\ IsFiniteSet(Roles)
         /\ config.order \in [Roles -> Nat] /\ config.sizes \subseteq Nat
         /\ config.surge \in [Roles -> Nat] /\ config.unavailable \in [Roles -> Nat]
         /\ config.quota \in 1..MaxPods /\ config.maxFaults \in Nat /\ config.maxEdits \in Nat
         /\ config.drain \in BOOLEAN /\ config.lag \in BOOLEAN /\ config.settled \in BOOLEAN
         /\ config.strategy \in {"Sequential", "Parallel", "Interleave"}
         /\ config.settled => PodsUpTo(config, Len(config.replicas)) <= config.quota
<1>1. /\ config \in ConfigType /\ Len(config.replicas) > 0
      /\ Len(config.order) = Len(config.replicas)
      /\ Len(config.surge) = Len(config.replicas)
      /\ Len(config.unavailable) = Len(config.replicas)
      /\ config.settled => PodsUpTo(config, Len(config.replicas)) <= config.quota
  BY ConfigAssumption
<1>2. /\ config.replicas \in Seq(Nat) /\ config.order \in Seq(Nat)
      /\ config.surge \in Seq(Nat) /\ config.unavailable \in Seq(Nat)
      /\ config.quota \in 1..MaxPods /\ config.maxFaults \in Nat /\ config.maxEdits \in Nat
      /\ config.drain \in BOOLEAN /\ config.lag \in BOOLEAN /\ config.settled \in BOOLEAN
      /\ config.strategy \in {"Sequential", "Parallel", "Interleave"}
      /\ config.sizes \subseteq Nat
  BY <1>1 DEF ConfigType
<1>3. /\ config.replicas \in [1..Len(config.replicas) -> Nat]
      /\ config.order \in [1..Len(config.replicas) -> Nat]
      /\ config.surge \in [1..Len(config.replicas) -> Nat]
      /\ config.unavailable \in [1..Len(config.replicas) -> Nat]
      /\ Len(config.replicas) \in Nat
  BY <1>1, <1>2, LenProperties
<1>4. Roles = 1..Len(config.replicas)
  BY <1>3 DEF Roles
<1>5. IsFiniteSet(Roles)
  BY <1>3, <1>4, FS_Interval
<1>6. config.order \in [Roles -> Nat]
  BY <1>3, <1>4
<1>7. Len(config.replicas) >= 1
  BY <1>1, <1>3
<1> QED BY <1>1, <1>2, <1>3, <1>4, <1>5, <1>6, <1>7

Rank(S, R, r) == Cardinality({s \in S : <<s, r>> \in R})

(* A strict order of a finite set gives every element a place of its own. *)
LEMMA RankFacts ==
  ASSUME NEW S, IsFiniteSet(S), NEW R,
         \A r, s \in S : r # s => <<r, s>> \in R \/ <<s, r>> \in R,
         \A r \in S : <<r, r>> \notin R,
         \A q, r, s \in S : <<q, r>> \in R /\ <<r, s>> \in R => <<q, s>> \in R,
         NEW i \in 1..Cardinality(S)
  PROVE  \E r \in S : Rank(S, R, r) = i - 1
<1> DEFINE n == Cardinality(S)
           Low(r) == {s \in S : <<s, r>> \in R}
           f == [r \in S |-> Rank(S, R, r)]
<1>1. n \in Nat
  BY FS_CardinalityType
<1>2. IsFiniteSet(0..(n - 1)) /\ Cardinality(0..(n - 1)) = n
  <2> HIDE DEF n
  <2>1. 0 \in Int /\ n - 1 \in Int
    BY <1>1
  <2>2. /\ IsFiniteSet(0..(n - 1))
        /\ Cardinality(0..(n - 1)) = IF 0 > n - 1 THEN 0 ELSE n - 1 - 0 + 1
    BY <2>1, FS_Interval
  <2> QED BY <1>1, <2>2
<1>3. \A r \in S : IsFiniteSet(Low(r)) /\ Low(r) \subseteq S \ {r}
  BY FS_Subset
<1>4. \A r \in S : Rank(S, R, r) \in 0..(n - 1)
  <2> TAKE r \in S
  <2>1. IsFiniteSet(S \ {r}) /\ Cardinality(S \ {r}) = n - 1
    BY FS_RemoveElement
  <2>2. Cardinality(Low(r)) <= n - 1 /\ Cardinality(Low(r)) \in Nat
    <3> DEFINE A == Low(r)
               B == S \ {r}
    <3>1. A \in SUBSET B /\ IsFiniteSet(A) /\ IsFiniteSet(B) /\ Cardinality(B) = n - 1
      BY <2>1, <1>3
    <3> HIDE DEF A, B, n
    <3>2. Cardinality(A) <= n - 1 /\ Cardinality(A) \in Nat
      BY <3>1, FS_Subset, FS_CardinalityType
    <3> QED BY <3>2 DEF A
  <2> QED BY <2>2, <1>1 DEF Rank
<1>5. ASSUME NEW r \in S, NEW s \in S, <<r, s>> \in R
      PROVE  Rank(S, R, r) < Rank(S, R, s)
  <2>1. Low(r) \subseteq Low(s)
    BY <1>5
  <2>2. r \in Low(s) /\ r \notin Low(r)
    BY <1>5
  <2>3. Low(r) # Low(s)
    BY <2>2
  <2>4. Rank(S, R, r) <= Rank(S, R, s) /\ Rank(S, R, r) # Rank(S, R, s)
    <3> HIDE DEF Low
    <3>1. Cardinality(Low(r)) <= Cardinality(Low(s)) /\ Cardinality(Low(r)) # Cardinality(Low(s))
      BY <2>1, <2>3, <1>3, FS_Subset
    <3> QED BY <3>1 DEF Rank, Low
  <2> QED BY <2>4, <1>4, <1>1
<1>6. \A r, s \in S : r # s => f[r] # f[s]
  <2>1. \A r, s \in S : r # s => Rank(S, R, r) # Rank(S, R, s)
    <3> TAKE r, s \in S
    <3>1. Rank(S, R, r) \in Int /\ Rank(S, R, s) \in Int
      BY <1>4
    <3>2. <<r, s>> \in R => Rank(S, R, r) < Rank(S, R, s)
      BY <1>5
    <3>3. <<s, r>> \in R => Rank(S, R, s) < Rank(S, R, r)
      BY <1>5
    <3> QED BY <3>1, <3>2, <3>3
  <2> QED BY <2>1
<1>7. f \in Injection(S, 0..(n - 1))
  BY <1>4, <1>6 DEF Injection, IsInjective
<1>8. f \in Surjection(S, 0..(n - 1))
  BY <1>7, <1>2, FS_Injection
<1>9. i - 1 \in 0..(n - 1)
  BY <1>1
<1> QED BY <1>8, <1>9 DEF Surjection

(* The roles of a set in the order of the spec. *)
LEMMA SpecOrderFacts ==
  ASSUME NEW S, IsFiniteSet(S), S \subseteq Int
  PROVE  /\ InSpecOrder(S) \in Seq(S) /\ Len(InSpecOrder(S)) = Cardinality(S)
<1> DEFINE R == {x \in S \X S : x[1] < x[2]}
           g(i) == CHOOSE r \in S : Cardinality({s \in S : s < r}) = i - 1
           t == InSpecOrder(S)
<1>1. Cardinality(S) \in Nat
  BY FS_CardinalityType
<1>2. \A r, s \in S : <<r, s>> \in R <=> r < s
  OBVIOUS
<1>3. ASSUME NEW i \in 1..Cardinality(S) PROVE g(i) \in S
  <2>1. \E r \in S : Rank(S, R, r) = i - 1
    <3>1. /\ \A r, s \in S : r # s => <<r, s>> \in R \/ <<s, r>> \in R
          /\ \A r \in S : <<r, r>> \notin R
          /\ \A q, r, s \in S : <<q, r>> \in R /\ <<r, s>> \in R => <<q, s>> \in R
      BY <1>2
    <3> HIDE DEF R
    <3> QED BY <3>1, RankFacts
  <2>2. \A r \in S : {s \in S : <<s, r>> \in R} = {s \in S : s < r}
    BY <1>2
  <2>3. \E r \in S : Cardinality({s \in S : s < r}) = i - 1
    <3> HIDE DEF R
    <3> QED BY <2>1, <2>2 DEF Rank
  <2> QED BY <2>3
<1>4. t = [i \in 1..Cardinality(S) |-> g(i)]
  BY DEF InSpecOrder
<1>5. t \in [1..Cardinality(S) -> S]
  <2> HIDE DEF g
  <2> QED BY <1>3, <1>4
<1> HIDE DEF t
<1>6. t \in Seq(S) /\ Len(t) = Cardinality(S)
  BY <1>1, <1>5
<1> QED BY <1>6 DEF t

(* The upgrade order is a sequence of the roles without repetition. *)
LEMMA OrderFacts ==
  ASSUME config \in Configs
  PROVE  /\ UpgradeOrder \in Seq(Roles) /\ Len(UpgradeOrder) = Len(config.replicas)
         /\ \A i \in Roles : UpgradeOrder[i] \in Roles
         /\ \A i, j \in Roles : UpgradeOrder[i] = UpgradeOrder[j] => i = j
<1>1. Len(config.replicas) \in Nat /\ Roles = 1..Len(config.replicas)
  BY ConfigFacts
<1> DEFINE R == {x \in Roles \X Roles : Before(x[1], x[2])}
           Place(r) == Cardinality({s \in Roles : Before(s, r)})
<1>0. \A r \in Roles : config.order[r] \in Nat /\ r \in Nat
  BY <1>1, ConfigFacts
<1>2. ASSUME NEW i \in Roles
      PROVE  UpgradeOrder[i] \in Roles /\ Place(UpgradeOrder[i]) = i - 1
  <2>1. \E r \in Roles : Cardinality({s \in Roles : Before(s, r)}) = i - 1
    <3>1. \A r, s \in Roles : <<r, s>> \in R <=> Before(r, s)
      OBVIOUS
    <3>2. /\ \A r, s \in Roles : r # s => <<r, s>> \in R \/ <<s, r>> \in R
          /\ \A r \in Roles : <<r, r>> \notin R
          /\ \A q, r, s \in Roles : <<q, r>> \in R /\ <<r, s>> \in R => <<q, s>> \in R
      BY <3>1, <1>0 DEF Before, Less, NoOrder
    <3>3. IsFiniteSet(Roles) /\ Cardinality(Roles) = Len(config.replicas)
      <4> DEFINE n == Len(config.replicas)
      <4>1. n \in Int /\ 1 \in Int /\ n >= 1 /\ Roles = 1..n
        BY ConfigFacts
      <4> HIDE DEF n
      <4>2. IsFiniteSet(1..n) /\ Cardinality(1..n) = IF 1 > n THEN 0 ELSE n - 1 + 1
        BY <4>1, FS_Interval
      <4>3. Cardinality(1..n) = n
        BY <4>1, <4>2
      <4> QED BY <4>1, <4>2, <4>3 DEF n
    <3>4. i \in 1..Cardinality(Roles)
      BY <3>3, <1>1
    <3>5. \A r \in Roles : {s \in Roles : <<s, r>> \in R} = {s \in Roles : Before(s, r)}
      BY <3>1
    <3> HIDE DEF R
    <3>6. \E r \in Roles : Rank(Roles, R, r) = i - 1
      BY <3>2, <3>3, <3>4, RankFacts
    <3> QED BY <3>5, <3>6 DEF Rank
  <2>2. UpgradeOrder[i] = CHOOSE r \in Roles : Cardinality({s \in Roles : Before(s, r)}) = i - 1
    BY <1>1 DEF UpgradeOrder
  <2> QED BY <2>1, <2>2
<1>3. UpgradeOrder = [i \in 1..Len(config.replicas) |-> UpgradeOrder[i]]
  <2> DEFINE g(i) == CHOOSE r \in Roles : Cardinality({s \in Roles : Before(s, r)}) = i - 1
  <2>1. UpgradeOrder = [i \in 1..Len(config.replicas) |-> g(i)]
    BY DEF UpgradeOrder
  <2> HIDE DEF g
  <2> QED BY <2>1
<1>4. UpgradeOrder \in Seq(Roles) /\ Len(UpgradeOrder) = Len(config.replicas)
  <2> DEFINE s == UpgradeOrder
  <2>1. s \in [1..Len(config.replicas) -> Roles]
    BY <1>1, <1>2, <1>3
  <2> HIDE DEF s
  <2>2. s \in Seq(Roles) /\ Len(s) = Len(config.replicas)
    BY <2>1, <1>1
  <2> QED BY <2>2 DEF s
<1>5. \A i, j \in Roles : UpgradeOrder[i] = UpgradeOrder[j] => i = j
  <2> TAKE i, j \in Roles
  <2>1. Place(UpgradeOrder[i]) = i - 1 /\ Place(UpgradeOrder[j]) = j - 1
    BY <1>2
  <2>2. i \in Int /\ j \in Int
    BY <1>1
  <2> QED BY <2>1, <2>2
<1> QED BY <1>2, <1>4, <1>5

-----------------------------------------------------------------------------
(* What the calls of StatelessRoleSyncer decide.                           *)

SpecOK ==
  /\ config \in Configs
  /\ replicas \in [Roles -> Nat] /\ target \in [Roles -> Hashes]
PodsOK(v) == v \in [Pods -> PodType \cup {Gone}]

(* A pod that is listed is no Gone entry, and belongs to one role. *)
LEMMA GoneFacts ==
  ASSUME config \in Configs
  PROVE  /\ Gone.role = 0 /\ 0 \notin Roles /\ Gone \notin PodType
         /\ \A x \in PodType : x # Gone
<1>1. Gone.role = 0
  BY DEF Gone
<1>2. 0 \notin Roles
  BY ConfigFacts
<1>3. \A x \in PodType : x.role \in Roles
  BY DEF PodType
<1> QED BY <1>1, <1>2, <1>3

(* The filters of utils.go select pods. *)
LEMMA FilterFacts ==
  ASSUME NEW v, NEW r
  PROVE  /\ Listed(v, r) \subseteq Pods /\ Active(v, r) \subseteq Listed(v, r)
         /\ Terminating(v, r) \subseteq Listed(v, r) /\ Terminated(v, r) \subseteq Listed(v, r)
         /\ Terminated(v, r) \cap Active(v, r) = {} /\ Terminating(v, r) \cap Active(v, r) = {}
         /\ ReadyPods(v, r) \subseteq Active(v, r) /\ Updated(v, r) \subseteq Active(v, r)
         /\ Outdated(v, r) = Active(v, r) \ Updated(v, r)
         /\ Draining(v, r) \subseteq Active(v, r)
BY DEF Listed, Active, Terminating, Terminated, ReadyPods, Updated, Outdated, Draining

(* The lists are finite, and their lengths are numbers. *)
LEMMA FilterCounts ==
  ASSUME NEW v, NEW r
  PROVE  /\ Cardinality(Listed(v, r)) \in Nat /\ Cardinality(Active(v, r)) \in Nat
         /\ Cardinality(Terminating(v, r)) \in Nat /\ Cardinality(ReadyPods(v, r)) \in Nat
         /\ Cardinality(Updated(v, r)) \in Nat /\ Cardinality(Outdated(v, r)) \in Nat
         /\ Cardinality(Draining(v, r)) \in Nat
         /\ Cardinality(Active(v, r)) = Cardinality(Updated(v, r)) + Cardinality(Outdated(v, r))
<1>1. /\ Listed(v, r) \subseteq Pods /\ Active(v, r) \subseteq Pods
      /\ Terminating(v, r) \subseteq Pods /\ ReadyPods(v, r) \subseteq Pods
      /\ Updated(v, r) \subseteq Pods /\ Outdated(v, r) \subseteq Pods
      /\ Draining(v, r) \subseteq Pods
  BY FilterFacts
<1>2. Updated(v, r) \subseteq Active(v, r)
  BY FilterFacts
<1>3. Cardinality(Active(v, r) \ Updated(v, r)) = Cardinality(Active(v, r)) - Cardinality(Updated(v, r))
  BY <1>1, <1>2, PodsCount
<1>4. /\ Cardinality(Listed(v, r)) \in Nat /\ Cardinality(Active(v, r)) \in Nat
      /\ Cardinality(Terminating(v, r)) \in Nat /\ Cardinality(ReadyPods(v, r)) \in Nat
      /\ Cardinality(Updated(v, r)) \in Nat /\ Cardinality(Outdated(v, r)) \in Nat
      /\ Cardinality(Draining(v, r)) \in Nat
  BY <1>1, PodsFinite
<1> QED BY <1>3, <1>4 DEF Outdated

(* The numbers of the rolling strategy. *)
LEMMA StrategyFacts ==
  ASSUME SpecOK, NEW r \in Roles
  PROVE  /\ replicas[r] \in Nat /\ MaxSurge(r) \in Nat /\ MaxUnavailable(r) \in Nat
         /\ StepLength(r) \in Nat /\ StepLength(r) >= 1
         /\ StepLength(r) = (IF MaxSurge(r) + MaxUnavailable(r) >= 1
                             THEN MaxSurge(r) + MaxUnavailable(r) ELSE 1)
         /\ replicas[r] > 0 => StepLength(r) = MaxSurge(r) + MaxUnavailable(r)
<1>1. replicas[r] \in Nat /\ config.surge[r] \in Nat /\ config.unavailable[r] \in Nat
  BY ConfigFacts DEF SpecOK
<1>2. Min({config.unavailable[r], replicas[r]}) =
        IF config.unavailable[r] <= replicas[r] THEN config.unavailable[r] ELSE replicas[r]
  <2> DEFINE u == config.unavailable[r]
             n == replicas[r]
  <2>1. u \in Int /\ n \in Int
    BY <1>1
  <2> HIDE DEF u, n
  <2>2. Min({u, n}) = IF u <= n THEN u ELSE n
    BY <2>1, MaxMin
  <2> QED BY <2>2 DEF u, n
<1>3. MaxSurge(r) \in Nat /\ MaxUnavailable(r) \in Nat
  BY <1>1, <1>2 DEF MaxSurge, MaxUnavailable
<1>4. StepLength(r) = IF 1 >= MaxSurge(r) + MaxUnavailable(r)
                      THEN 1 ELSE MaxSurge(r) + MaxUnavailable(r)
  BY <1>3, MaxMin DEF StepLength
<1>5. replicas[r] > 0 => MaxSurge(r) + MaxUnavailable(r) >= 1
  <2>1. SUFFICES ASSUME replicas[r] > 0 PROVE MaxSurge(r) + MaxUnavailable(r) >= 1
    OBVIOUS
  <2>2. CASE config.surge[r] >= 1
    <3>1. MaxSurge(r) >= 1
      BY <2>1, <2>2, <1>1 DEF MaxSurge
    <3> QED BY <3>1, <1>3
  <2>3. CASE config.surge[r] = 0
    <3>1. MaxUnavailable(r) >= 1
      BY <2>1, <2>3, <1>1, <1>2 DEF MaxUnavailable
    <3> QED BY <3>1, <1>3
  <2> QED BY <2>2, <2>3, <1>1
<1> QED BY <1>1, <1>3, <1>4, <1>5

(* Scale creates pods only up to the replicas, and deletes what has ended  *)
(* and a surplus.                                                          *)
LEMMA ScaleFacts ==
  ASSUME SpecOK, NEW r \in Roles, NEW v, NEW c \in Scale(v, r)
  PROVE  /\ c.create \in Nat /\ c.reason = "scale-in" /\ c.now = {}
         /\ c.create > 0 => Cardinality(Active(v, r)) + c.create <= replicas[r]
         /\ c.cancel \subseteq Active(v, r)
         /\ c.delete \subseteq Listed(v, r)
         /\ \E S \in SUBSET Active(v, r) :
              /\ c.delete = S \cup Terminated(v, r)
              /\ c.cancel = CancelledDrains(v, r, S)
              /\ Cardinality(Active(v, r)) <= replicas[r] => S = {}
              /\ Cardinality(Active(v, r)) > replicas[r] =>
                   \E E \in SUBSET Draining(v, r), F \in SUBSET Active(v, r) :
                     S = E \cup F /\ Surplus(v, r, E, F)
<1> DEFINE diff == Cardinality(Active(v, r)) - replicas[r]
           choices == {x \in (SUBSET Draining(v, r)) \X (SUBSET Active(v, r)) :
                         Surplus(v, r, x[1], x[2])}
           surplus == IF diff > 0 THEN {x[1] \cup x[2] : x \in choices} ELSE {{}}
           create == IF diff < 0 THEN Max({0, Min({-diff, SurgeRoom(v, r)})}) ELSE 0
<1>1. PICK S \in surplus : c = [create |-> create, cancel |-> CancelledDrains(v, r, S),
                                delete |-> S \cup Terminated(v, r), now |-> {},
                                reason |-> "scale-in"]
  BY DEF Scale
<1>2. /\ replicas[r] \in Nat /\ Cardinality(Active(v, r)) \in Nat
      /\ diff \in Int /\ SurgeRoom(v, r) \in Int
  BY StrategyFacts, FilterCounts DEF SurgeRoom
<1>3. create \in Nat /\ (create > 0 => Cardinality(Active(v, r)) + create <= replicas[r])
  <2> DEFINE m == Min({-diff, SurgeRoom(v, r)})
  <2>1. -diff \in Int
    BY <1>2
  <2>2. m = IF -diff <= SurgeRoom(v, r) THEN -diff ELSE SurgeRoom(v, r)
    BY <1>2, <2>1, MaxMin
  <2>3. m \in Int /\ m <= -diff
    BY <1>2, <2>2
  <2>4. Max({0, m}) = IF 0 >= m THEN 0 ELSE m
    <3> HIDE DEF m
    <3> QED BY <2>3, MaxMin
  <2> QED BY <2>3, <2>4, <1>2
<1>4. /\ S \in SUBSET Active(v, r) /\ (diff <= 0 => S = {})
      /\ diff > 0 => \E E \in SUBSET Draining(v, r), F \in SUBSET Active(v, r) :
                       S = E \cup F /\ Surplus(v, r, E, F)
  <2>1. CASE diff > 0
    <3>1. PICK x \in choices : S = x[1] \cup x[2]
      BY <2>1
    <3>2. /\ x[1] \in SUBSET Draining(v, r) /\ x[2] \in SUBSET Active(v, r)
          /\ Surplus(v, r, x[1], x[2])
      OBVIOUS
    <3>3. Draining(v, r) \subseteq Active(v, r)
      BY FilterFacts
    <3> QED BY <3>1, <3>2, <3>3, <2>1, <1>2
  <2>2. CASE ~(diff > 0)
    BY <2>2
  <2> QED BY <2>1, <2>2
<1>5. CancelledDrains(v, r, S) \subseteq Active(v, r) /\ Terminated(v, r) \subseteq Listed(v, r)
      /\ Active(v, r) \subseteq Listed(v, r)
  BY FilterFacts DEF CancelledDrains
<1>6. /\ c.create = create /\ c.cancel = CancelledDrains(v, r, S)
      /\ c.delete = S \cup Terminated(v, r) /\ c.now = {} /\ c.reason = "scale-in"
  BY <1>1
<1> HIDE DEF create, surplus
<1>7. \E Q \in SUBSET Active(v, r) :
         /\ c.delete = Q \cup Terminated(v, r)
         /\ c.cancel = CancelledDrains(v, r, Q)
         /\ Cardinality(Active(v, r)) <= replicas[r] => Q = {}
         /\ Cardinality(Active(v, r)) > replicas[r] =>
              \E E \in SUBSET Draining(v, r), F \in SUBSET Active(v, r) :
                Q = E \cup F /\ Surplus(v, r, E, F)
  BY <1>4, <1>6, <1>2
<1> QED BY <1>3, <1>4, <1>5, <1>6, <1>7

(* A rollout creates and deletes within its budgets; pods that are not     *)
(* ready do not count against the deletions.                               *)
LEMMA ReplaceFacts ==
  ASSUME NEW v, NEW r, NEW d \in Int, NEW k \in Int, NEW c \in Replace(v, r, d, k)
  PROVE  /\ c.create \in Nat /\ c.reason = "rollout" /\ c.cancel = {}
         /\ c.create = IF k <= 0 THEN 0 ELSE k
         /\ c.delete \subseteq Outdated(v, r)
         /\ Cardinality(c.delete \cap ReadyPods(v, r)) \in Nat
         /\ Cardinality(c.delete \cap ReadyPods(v, r)) <= IF d <= 0 THEN 0 ELSE d
<1> DEFINE ready == Outdated(v, r) \cap ReadyPods(v, r)
           m == Min({d, Cardinality(ready)})
<1>1. PICK Q \in OutdatedWithin(v, r, d) :
        c = [create |-> Max({0, k}), cancel |-> {}, delete |-> Q,
             now |-> Q \ ReadyPods(v, r), reason |-> "rollout"]
  BY DEF Replace
<1>2. /\ c.create = Max({0, k}) /\ c.cancel = {} /\ c.delete = Q /\ c.reason = "rollout"
  BY <1>1
<1>3. PICK S \in kSubset(Max({0, m}), ready) : Q = (Outdated(v, r) \ ready) \cup S
  BY DEF OutdatedWithin
<1>4. S \subseteq ready /\ Cardinality(S) = Max({0, m})
  BY DEF kSubset
<1>5. Cardinality(ready) \in Nat
  BY FilterFacts, PodsFinite
<1>6. m = IF d <= Cardinality(ready) THEN d ELSE Cardinality(ready)
  <2> DEFINE x == Cardinality(ready)
  <2>1. x \in Int
    BY <1>5
  <2> HIDE DEF x
  <2>2. Min({d, x}) = IF d <= x THEN d ELSE x
    BY <2>1, MaxMin
  <2> QED BY <2>2 DEF x
<1>7. m \in Int /\ m <= d
  BY <1>5, <1>6
<1>8. Max({0, m}) = IF 0 >= m THEN 0 ELSE m
  <2> HIDE DEF m
  <2> QED BY <1>7, MaxMin
<1>9. Max({0, k}) = IF 0 >= k THEN 0 ELSE k
  BY MaxMin
<1>10. Q \cap ReadyPods(v, r) = S /\ Q \subseteq Outdated(v, r)
  BY <1>3, <1>4
<1>11. /\ c.create \in Nat /\ c.create = IF k <= 0 THEN 0 ELSE k
  BY <1>2, <1>9
<1>12. /\ Cardinality(c.delete \cap ReadyPods(v, r)) \in Nat
       /\ Cardinality(c.delete \cap ReadyPods(v, r)) <= IF d <= 0 THEN 0 ELSE d
  <2> HIDE DEF m, ready
  <2> QED BY <1>2, <1>4, <1>7, <1>8, <1>10
<1> QED BY <1>2, <1>10, <1>11, <1>12

(* A choice that does nothing. *)
NoChoice == [create |-> 0, cancel |-> {}, delete |-> {}, now |-> {}, reason |-> "rollout"]

(* Rollout and RolloutByStep: the updated pods they lead to, and the ready *)
(* pods they take away.                                                    *)
RollChoice(v, r, n) ==
  IF config.strategy = "Interleave" THEN RolloutByStep(v, r, n) ELSE Rollout(v, r)

(* What any rolling manager decides for a role. *)
LEMMA RollFacts ==
  ASSUME SpecOK, NEW r \in Roles, NEW v, NEW n \in Nat, NEW c \in RollChoice(v, r, n)
  PROVE  /\ c.create \in Nat /\ c.reason = "rollout" /\ c.cancel = {}
         /\ c.delete \subseteq Outdated(v, r)
         /\ Cardinality(c.delete \cap ReadyPods(v, r)) \in Nat
         /\ Cardinality(c.delete \cap ReadyPods(v, r)) > 0 =>
              Cardinality(c.delete \cap ReadyPods(v, r))
                <= Cardinality(ReadyPods(v, r)) - replicas[r] + MaxUnavailable(r)
         /\ c.create > 0 => Cardinality(Updated(v, r)) + c.create <= replicas[r]
         /\ config.strategy = "Interleave" /\ c.create > 0 =>
              Cardinality(Updated(v, r)) + c.create <= (MaxSurge(r) + MaxUnavailable(r)) * n
         /\ (config.strategy = "Interleave"
             /\ Cardinality(c.delete \cap ReadyPods(v, r)) > 0) =>
              replicas[r] - (Cardinality(Outdated(v, r)) - Cardinality(c.delete \cap ReadyPods(v, r)))
                 <= (MaxSurge(r) + MaxUnavailable(r)) * n
         /\ (config.strategy = "Interleave" /\ Cardinality(Updated(v, r)) >= replicas[r]) =>
              c = NoChoice
<1> DEFINE U == Cardinality(Updated(v, r))
           O == Cardinality(Outdated(v, r))
           R == Cardinality(ReadyPods(v, r))
           L == MaxSurge(r) + MaxUnavailable(r)
           N == replicas[r]
           room == SurgeRoom(v, r)
           gone == Cardinality(c.delete \cap ReadyPods(v, r))
<1>1. /\ U \in Nat /\ O \in Nat /\ R \in Nat /\ L \in Nat /\ N \in Nat /\ room \in Int
      /\ MaxUnavailable(r) \in Nat
  BY FilterCounts, StrategyFacts DEF SurgeRoom
<1>2. CASE config.strategy # "Interleave"
  <2> DEFINE d == R - N + MaxUnavailable(r)
             k == Min({room, N - U})
  <2>1. c \in Replace(v, r, d, k)
    BY <1>2 DEF RollChoice, Rollout
  <2>2. d \in Int /\ N - U \in Int
    BY <1>1
  <2>3. k = IF room <= N - U THEN room ELSE N - U
    BY <2>2, <1>1, MaxMin
  <2>4. k \in Int /\ k <= N - U
    BY <2>3, <2>2, <1>1
  <2> HIDE DEF d, k
  <2>5. /\ c.create \in Nat /\ c.reason = "rollout" /\ c.cancel = {}
        /\ c.create = IF k <= 0 THEN 0 ELSE k
        /\ c.delete \subseteq Outdated(v, r)
        /\ gone \in Nat /\ gone <= IF d <= 0 THEN 0 ELSE d
    BY <2>1, <2>2, <2>4, ReplaceFacts
  <2>6. c.create > 0 => U + c.create <= N
    BY <2>4, <2>5, <1>1
  <2>7. gone > 0 => gone <= d
    BY <2>5, <2>2
  <2> QED BY <2>5, <2>6, <2>7, <1>2 DEF d
<1>3. CASE config.strategy = "Interleave"
  <2> DEFINE wanted == Min({L * n, N})
  <2>1. L * n \in Nat
    BY <1>1
  <2>2. wanted = IF L * n <= N THEN L * n ELSE N
    <3> DEFINE x == L * n
    <3>1. x \in Int /\ N \in Int
      BY <2>1, <1>1
    <3> HIDE DEF x
    <3>2. Min({x, N}) = IF x <= N THEN x ELSE N
      BY <3>1, MaxMin
    <3> QED BY <3>2 DEF x
  <2>3. wanted \in Nat /\ wanted <= N /\ wanted <= L * n
    <3> DEFINE x == L * n
    <3>1. x \in Nat /\ wanted = IF x <= N THEN x ELSE N
      BY <2>1, <2>2
    <3> HIDE DEF x, wanted
    <3> QED BY <3>1, <1>1 DEF x
  <2>4. CASE U >= wanted
    <3>1. c = NoChoice
      BY <1>3, <2>4 DEF RollChoice, RolloutByStep, NoChoice
    <3>2. /\ c.create = 0 /\ c.cancel = {} /\ c.delete = {} /\ c.reason = "rollout"
      BY <3>1 DEF NoChoice
    <3>3. gone = 0
      BY <3>2, FS_EmptySet
    <3> QED BY <3>1, <3>2, <3>3
  <2>5. CASE ~(U >= wanted)
    <3> DEFINE a == O - N + wanted
               b == R - N + MaxUnavailable(r)
               d == Min({a, b})
               k == Min({room, wanted - U})
    <3>1. c \in Replace(v, r, d, k)
      BY <1>3, <2>5 DEF RollChoice, RolloutByStep
    <3>2. a \in Int /\ b \in Int /\ wanted - U \in Int
      <4> HIDE DEF wanted
      <4> QED BY <1>1, <2>3
    <3>3. d = IF a <= b THEN a ELSE b
      <4> HIDE DEF a, b
      <4> QED BY <3>2, MaxMin
    <3>4. k = IF room <= wanted - U THEN room ELSE wanted - U
      <4> DEFINE y == wanted - U
      <4>1. y \in Int
        BY <3>2
      <4> HIDE DEF y
      <4>2. Min({room, y}) = IF room <= y THEN room ELSE y
        BY <4>1, <1>1, MaxMin
      <4> QED BY <4>2 DEF y
    <3> HIDE DEF wanted
    <3>5. d \in Int /\ d <= a /\ d <= b /\ k \in Int /\ k <= wanted - U
      <4>1. d \in Int /\ d <= a /\ d <= b
        <5> HIDE DEF d, a, b
        <5> QED BY <3>2, <3>3
      <4>2. k \in Int /\ k <= wanted - U
        <5> HIDE DEF k
        <5> QED BY <3>2, <3>4, <1>1
      <4> QED BY <4>1, <4>2
    <3> HIDE DEF d, k
    <3>6. /\ c.create \in Nat /\ c.reason = "rollout" /\ c.cancel = {}
          /\ c.create = IF k <= 0 THEN 0 ELSE k
          /\ c.delete \subseteq Outdated(v, r)
          /\ gone \in Nat /\ gone <= IF d <= 0 THEN 0 ELSE d
      BY <3>1, <3>5, ReplaceFacts
    <3>7. c.create > 0 => U + c.create <= wanted
      BY <3>5, <3>6, <2>3, <1>1
    <3>8. gone > 0 => gone <= a /\ gone <= b
      <4> HIDE DEF a, b
      <4> QED BY <3>5, <3>6, <3>2
    <3>9. c.create > 0 => U + c.create <= N /\ U + c.create <= L * n
      <4> DEFINE x == L * n
      <4>1. x \in Nat /\ wanted <= x
        BY <2>1, <2>3
      <4> HIDE DEF x
      <4>2. c.create > 0 => U + c.create <= N /\ U + c.create <= x
        BY <3>7, <3>6, <4>1, <2>3, <1>1
      <4> QED BY <4>2 DEF x
    <3>10. gone > 0 => N - (O - gone) <= L * n
      <4> DEFINE x == L * n
      <4>1. x \in Nat /\ wanted <= x
        BY <2>1, <2>3
      <4> HIDE DEF x
      <4>2. gone > 0 => N - (O - gone) <= x
        BY <3>8, <3>6, <4>1, <2>3, <1>1
      <4> QED BY <4>2 DEF x
    <3>11. ~(U >= N)
      BY <2>5, <2>3, <1>1
    <3> QED BY <3>6, <3>8, <3>9, <3>10, <3>11, <1>3
  <2> QED BY <2>4, <2>5
<1> QED BY <1>2, <1>3

(* What it has in common with the choices of Scale. *)
LEMMA RollShape ==
  ASSUME SpecOK, NEW r \in Roles, NEW v, NEW n \in Nat, NEW c \in RollChoice(v, r, n)
  PROVE  /\ c.create \in Nat /\ c.reason = "rollout" /\ c.cancel = {}
         /\ c.delete \subseteq Outdated(v, r)
BY RollFacts

(* The part of it that does not depend on the strategy. *)
LEMMA RollBasics ==
  ASSUME SpecOK, NEW r \in Roles, NEW v, NEW n \in Nat, NEW c \in RollChoice(v, r, n)
  PROVE  /\ c.create \in Nat /\ c.reason = "rollout" /\ c.cancel = {}
         /\ c.delete \subseteq Outdated(v, r)
         /\ Cardinality(c.delete \cap ReadyPods(v, r)) \in Nat
         /\ Cardinality(c.delete \cap ReadyPods(v, r)) > 0 =>
              Cardinality(c.delete \cap ReadyPods(v, r))
                <= Cardinality(ReadyPods(v, r)) - replicas[r] + MaxUnavailable(r)
         /\ c.create > 0 => Cardinality(Updated(v, r)) + c.create <= replicas[r]
BY RollFacts

-----------------------------------------------------------------------------
(* What a call writes.                                                     *)

(* The pods a call may find changed, and how. *)
Written(p, r, n, c, X, Y) ==
  \/ p \in Fresh(n) /\ pod[p] = Gone /\ pod'[p] = NewPod(r)
  \/ p \in X /\ pod'[p] = Annotate(p, "none")
  \/ p \in Y /\ pod'[p] = Annotate(p, c.reason) /\ config.drain
  \/ p \in Y /\ pod'[p] = Kill(p)
  \/ pod'[p] = pod[p]

(* Every pod is created, annotated, deleted or left alone. *)
LEMMA WriteCases ==
  ASSUME NEW v, NEW r, NEW c, NEW n, NEW X, NEW Y, Write(v, r, c, n, X, Y)
  PROVE  /\ pod' = [p \in Pods |-> pod'[p]]
         /\ \A p \in Pods : Written(p, r, n, c, X, Y)
<1> DEFINE g(p) == CASE p \in Fresh(n) -> NewPod(r)
                     [] p \in X -> Annotate(p, "none")
                     [] p \in Y -> Delete(v, c, p)
                     [] OTHER -> pod[p]
<1>1. pod' = [p \in Pods |-> g(p)]
  <2>1. \A p : g(p) = CASE p \in Fresh(n) -> NewPod(r)
                        [] p \in X -> Annotate(p, "none")
                        [] p \in Y -> Delete(v, c, p)
                        [] OTHER -> pod[p]
    OBVIOUS
  <2> QED BY DEF Write
<1>2. \A p \in Pods : \/ p \in Fresh(n) /\ g(p) = NewPod(r)
                      \/ p \in X /\ g(p) = Annotate(p, "none")
                      \/ p \in Y /\ g(p) = Delete(v, c, p)
                      \/ g(p) = pod[p]
  OBVIOUS
<1>3. \A p \in Pods : \/ Delete(v, c, p) = Annotate(p, c.reason) /\ config.drain
                      \/ Delete(v, c, p) = pod[p]
                      \/ Delete(v, c, p) = Kill(p)
  BY DEF Delete, StartsDrain
<1>4. \A p \in Fresh(n) : pod[p] = Gone
  BY DEF Fresh, FreeIds
<1> HIDE DEF g
<1>5. \A p \in Pods : pod'[p] = g(p)
  BY <1>1
<1>6. \A p \in Pods : Written(p, r, n, c, X, Y)
  <2> TAKE p \in Pods
  <2> QED BY <1>2, <1>3, <1>4, <1>5 DEF Written
<1> QED BY <1>1, <1>5, <1>6

(* The fields of a pod that is created, annotated or deleted. *)
LEMMA FieldFacts ==
  ASSUME SpecOK, PodsOK(pod), NEW p \in Pods, NEW r \in Roles
  PROVE  /\ NewPod(r) \in PodType /\ NewPod(r).role = r /\ NewPod(r).hash = target[r]
         /\ ~NewPod(r).ready /\ ~NewPod(r).failed /\ ~NewPod(r).dying
         /\ NewPod(r).drain = "none" /\ ~NewPod(r).due
         /\ pod[p] # Gone => pod[p] \in PodType
         /\ pod[p] = Gone => Kill(p) = Gone /\ \A x : Annotate(p, x) = Gone
         /\ pod[p] # Gone =>
              /\ Kill(p) \in PodType /\ Kill(p).role = pod[p].role /\ Kill(p).hash = pod[p].hash
              /\ Kill(p).failed = pod[p].failed /\ Kill(p).dying /\ ~Kill(p).ready
              /\ Kill(p).drain = "none" /\ ~Kill(p).due
         /\ \A x \in Reasons \cup {"none"} : pod[p] # Gone =>
              /\ Annotate(p, x) \in PodType /\ Annotate(p, x).role = pod[p].role
              /\ Annotate(p, x).hash = pod[p].hash /\ Annotate(p, x).ready = pod[p].ready
              /\ Annotate(p, x).failed = pod[p].failed /\ Annotate(p, x).dying = pod[p].dying
              /\ Annotate(p, x).drain \in {x, pod[p].drain}
              /\ ~pod[p].dying => Annotate(p, x).drain = x
              /\ pod[p].dying => Annotate(p, x) = pod[p]
              /\ ~pod[p].dying => ~Annotate(p, x).due
<1>1. target[r] \in Hashes
  BY DEF SpecOK
<1>2. /\ NewPod(r) \in PodType /\ NewPod(r).role = r /\ NewPod(r).hash = target[r]
      /\ ~NewPod(r).ready /\ ~NewPod(r).failed /\ ~NewPod(r).dying
      /\ NewPod(r).drain = "none" /\ ~NewPod(r).due
  BY <1>1 DEF NewPod, PodType
<1>3. pod[p] \in PodType \cup {Gone}
  BY DEF PodsOK
<1>4. pod[p] = Gone => Kill(p) = Gone /\ \A x : Annotate(p, x) = Gone
  BY DEF Kill, Annotate
<1>5. ASSUME pod[p] # Gone
      PROVE  /\ Kill(p) \in PodType /\ Kill(p).role = pod[p].role /\ Kill(p).hash = pod[p].hash
             /\ Kill(p).failed = pod[p].failed /\ Kill(p).dying /\ ~Kill(p).ready
             /\ Kill(p).drain = "none" /\ ~Kill(p).due
  BY <1>3, <1>5 DEF Kill, PodType
<1>6. ASSUME NEW x \in Reasons \cup {"none"}, pod[p] # Gone
      PROVE   /\ Annotate(p, x) \in PodType /\ Annotate(p, x).role = pod[p].role
              /\ Annotate(p, x).hash = pod[p].hash /\ Annotate(p, x).ready = pod[p].ready
              /\ Annotate(p, x).failed = pod[p].failed /\ Annotate(p, x).dying = pod[p].dying
              /\ Annotate(p, x).drain \in {x, pod[p].drain}
              /\ ~pod[p].dying => Annotate(p, x).drain = x
              /\ pod[p].dying => Annotate(p, x) = pod[p]
              /\ ~pod[p].dying => ~Annotate(p, x).due
  <2>1. CASE pod[p].dying
    BY <1>3, <1>6, <2>1 DEF Annotate
  <2>2. CASE ~pod[p].dying
    BY <1>3, <1>6, <2>2 DEF Annotate, PodType
  <2> QED BY <2>1, <2>2
<1> QED BY <1>2, <1>3, <1>4, <1>5, <1>6

(* A call that succeeds or breaks carries out a part of its choice, within *)
(* the room that is left, and counts as a fault when its list was stale.   *)
LEMMA CallFacts ==
  ASSUME SpecOK, faults \in Nat, NEW r, NEW c, c.create \in Nat,
         Succeed(cache, r, c) \/ Break(cache, r, c)
  PROVE  /\ faults' \in Nat /\ faults' >= faults
         /\ faults' = 0 => cache = pod /\ faults = 0
         /\ \E n \in 0..c.create, X \in SUBSET c.cancel, Y \in SUBSET c.delete :
              /\ Write(cache, r, c, n, X, Y)
              /\ n > 0 => n <= Room
<1>1. Stale \in {0, 1} /\ (Stale = 0 => cache = pod)
  BY DEF Stale
<1>2. faults' \in {faults + Stale, faults + 1 + Stale}
  BY DEF Succeed, Break
<1>3. /\ faults' \in Nat /\ faults' >= faults
      /\ faults' = 0 => cache = pod /\ faults = 0
  BY <1>1, <1>2
<1>4. Room \in Int
  <2> DEFINE a == Cardinality(FreeIds)
             b == config.quota - Cardinality(Counted)
  <2>1. a \in Int /\ b \in Int
    <3>1. FreeIds \subseteq Pods /\ Counted \subseteq Pods
      BY DEF FreeIds, Counted
    <3>2. config.quota \in Int
      BY ConfigFacts DEF SpecOK
    <3> QED BY <3>1, <3>2, PodsFinite
  <2> HIDE DEF a, b
  <2>2. Min({a, b}) = IF a <= b THEN a ELSE b
    BY <2>1, MaxMin
  <2> QED BY <2>1, <2>2 DEF Room, a, b
<1>5. CASE Succeed(cache, r, c)
  <2>1. /\ c.create \in 0..c.create /\ c.cancel \in SUBSET c.cancel
        /\ c.delete \in SUBSET c.delete
    OBVIOUS
  <2>2. Write(cache, r, c, c.create, c.cancel, c.delete) /\ c.create <= Room
    BY <1>5 DEF Succeed
  <2> QED BY <2>1, <2>2, <1>3
<1>6. CASE Break(cache, r, c)
  <2>0. {} \in SUBSET c.cancel /\ {} \in SUBSET c.delete
    OBVIOUS
  <2>1. ASSUME c.create > Room, Write(cache, r, c, Max({0, Room}), {}, {})
        PROVE  \E n \in 0..c.create, X \in SUBSET c.cancel, Y \in SUBSET c.delete :
                 Write(cache, r, c, n, X, Y) /\ (n > 0 => n <= Room)
    <3> DEFINE m == Max({0, Room})
    <3>1. m = IF 0 >= Room THEN 0 ELSE Room
      BY <1>4, MaxMin
    <3>2. m \in 0..c.create /\ (m > 0 => m <= Room)
      BY <3>1, <2>1, <1>4
    <3>3. Write(cache, r, c, m, {}, {})
      BY <2>1
    <3> HIDE DEF m
    <3> QED BY <3>2, <3>3, <2>0
  <2>2. ASSUME NEW n \in 0..(c.create - 1), n <= Room, Write(cache, r, c, n, {}, {})
        PROVE  \E m \in 0..c.create, X \in SUBSET c.cancel, Y \in SUBSET c.delete :
                 Write(cache, r, c, m, X, Y) /\ (m > 0 => m <= Room)
    <3>1. n \in 0..c.create
      OBVIOUS
    <3> QED BY <3>1, <2>2, <2>0
  <2>3. ASSUME c.create <= Room, NEW E \in SUBSET c.delete,
               Write(cache, r, c, c.create, c.cancel, E)
        PROVE  \E m \in 0..c.create, X \in SUBSET c.cancel, Y \in SUBSET c.delete :
                 Write(cache, r, c, m, X, Y) /\ (m > 0 => m <= Room)
    <3>1. c.create \in 0..c.create /\ c.cancel \in SUBSET c.cancel
      OBVIOUS
    <3> QED BY <3>1, <2>3
  <2>4. \/ c.create > Room /\ Write(cache, r, c, Max({0, Room}), {}, {})
        \/ \E n \in 0..(c.create - 1) : n <= Room /\ Write(cache, r, c, n, {}, {})
        \/ c.create <= Room /\ \E E \in SUBSET c.cancel : Write(cache, r, c, c.create, E, {})
        \/ c.create <= Room /\ \E E \in SUBSET c.delete : Write(cache, r, c, c.create, c.cancel, E)
    BY <1>6 DEF Break
  <2>5. ASSUME c.create <= Room, NEW E \in SUBSET c.cancel,
               Write(cache, r, c, c.create, E, {})
        PROVE  \E m \in 0..c.create, X \in SUBSET c.cancel, Y \in SUBSET c.delete :
                 Write(cache, r, c, m, X, Y) /\ (m > 0 => m <= Room)
    <3>1. c.create \in 0..c.create
      OBVIOUS
    <3> QED BY <3>1, <2>0, <2>5
  <2>6. \E n \in 0..c.create, X \in SUBSET c.cancel, Y \in SUBSET c.delete :
                 Write(cache, r, c, n, X, Y) /\ (n > 0 => n <= Room)
    BY <2>1, <2>2, <2>3, <2>4, <2>5
  <2> QED BY <2>6, <1>3
<1> QED BY <1>5, <1>6

-----------------------------------------------------------------------------
(* Types.                                                                  *)

Flags(x) == /\ x.ready => ~x.failed /\ ~x.dying
            /\ x.due => x.drain # "none"
            /\ ~config.drain => x.drain = "none"

(* The pods of the API server: their types, the quota, and what holds of   *)
(* the fields of each.                                                     *)
PodInv == /\ PodsOK(pod)
          /\ Cardinality(Counted) <= config.quota
          /\ \A p \in Pods : pod[p] # Gone => Flags(pod[p])

RunType == [at : {"idle", "scale", "plan", "roll", "status"}, todo : Seq(Roles),
            busy : BOOLEAN, requeue : BOOLEAN, step : Nat, err : BOOLEAN]

LoopInv ==
  /\ run \in RunType
  /\ (run.at \in {"scale", "roll"}) = (run.todo # <<>>)

(* The type invariant with the one fact it lacks: no drain marks where no  *)
(* drain is configured.                                                    *)
TInv ==
  /\ SpecOK /\ PodInv /\ LoopInv
  /\ PodsOK(cache) /\ wake \in BOOLEAN
  /\ faults \in 0..config.maxFaults /\ edits \in 0..config.maxEdits
  /\ ~config.lag => cache = pod

(* It contains the type invariant. *)
LEMMA TInvTypes == TInv => TypeOK
BY DEF TInv, TypeOK, SpecOK, PodInv, PodsOK, LoopInv, RunType, Flags

(* Nothing of the specification changes during a pass. *)
LEMMA SpecKept ==
  ASSUME UNCHANGED config
  PROVE  Roles' = Roles /\ PodType' = PodType /\ RunType' = RunType
BY DEF Roles, PodType, RunType

(* Pods that keep their type, their place in the quota and their flags. *)
LEMMA PodInvByPod ==
  ASSUME SpecOK, PodInv, UNCHANGED config, NEW G, G \subseteq Pods,
         pod' = [p \in Pods |-> pod'[p]],
         \A p \in Pods : pod'[p] # Gone =>
           /\ pod'[p] \in PodType
           /\ pod'[p].ready => ~pod'[p].failed /\ ~pod'[p].dying
           /\ pod'[p].due => pod'[p].drain # "none"
           /\ ~config.drain => pod'[p].drain = "none"
           /\ p \in G \/ (pod[p] # Gone /\ (pod[p].failed => pod'[p].failed)),
         Cardinality(Counted) + Cardinality(G) <= config.quota
  PROVE  PodInv'
<1>1. PodType' = PodType
  BY DEF PodType, Roles
<1>2. PodsOK(pod)'
  BY <1>1 DEF PodsOK
<1>3. Counted' \subseteq Counted \cup G /\ Counted \subseteq Pods
  BY DEF Counted
<1>4. Cardinality(Counted') <= Cardinality(Counted \cup G)
  <2> DEFINE A == Counted'
             B == Counted \cup G
  <2>1. A \subseteq B /\ B \subseteq Pods
    BY <1>3
  <2> HIDE DEF A, B
  <2>2. Cardinality(A) <= Cardinality(B)
    BY <2>1, PodsCount
  <2> QED BY <2>2 DEF A, B
<1>5. Cardinality(Counted \cup G) <= Cardinality(Counted) + Cardinality(G)
  BY <1>3, PodsUnion
<1>6. /\ Cardinality(Counted) \in Nat /\ Cardinality(G) \in Nat
      /\ Cardinality(Counted \cup G) \in Nat /\ config.quota \in Int
  BY <1>3, PodsFinite, ConfigFacts DEF SpecOK
<1>7. Cardinality(Counted') \in Nat
  <2> DEFINE A == Counted'
  <2>1. A \subseteq Pods
    BY <1>3
  <2> HIDE DEF A
  <2>2. Cardinality(A) \in Nat
    BY <2>1, PodsFinite
  <2> QED BY <2>2 DEF A
<1>8. Cardinality(Counted') <= config.quota'
  BY <1>4, <1>5, <1>6, <1>7
<1>9. (\A p \in Pods : pod[p] # Gone => Flags(pod[p]))'
  BY DEF Flags
<1> QED BY <1>2, <1>8, <1>9 DEF PodInv

(* A call of a syncer keeps the pods well formed and within the quota.     *)
LEMMA CallPods ==
  ASSUME SpecOK, PodInv, UNCHANGED config, NEW v, NEW r \in Roles, NEW c, c.reason \in Reasons,
         NEW n \in Nat, n > 0 => n <= Room, NEW X, NEW Y, Write(v, r, c, n, X, Y)
  PROVE  PodInv'
<1>1. /\ pod' = [p \in Pods |-> pod'[p]]
      /\ \A p \in Pods : Written(p, r, n, c, X, Y)
  BY WriteCases
<1>2. /\ Fresh(n) \subseteq Pods /\ Cardinality(Fresh(n)) \in Nat /\ Cardinality(Fresh(n)) <= n
  BY FreshFacts
<1>3. Cardinality(Counted) + Cardinality(Fresh(n)) <= config.quota
  <2>1. Cardinality(Counted) <= config.quota
    BY DEF PodInv
  <2> DEFINE a == Cardinality(FreeIds)
             b == config.quota - Cardinality(Counted)
  <2>2. a \in Int /\ b \in Int /\ Cardinality(Counted) \in Nat /\ config.quota \in Int
    <3>1. FreeIds \subseteq Pods /\ Counted \subseteq Pods
      BY DEF FreeIds, Counted
    <3>2. config.quota \in Int
      BY ConfigFacts DEF SpecOK
    <3> QED BY <3>1, <3>2, PodsFinite
  <2>3. Room <= b
    <3> HIDE DEF a, b
    <3>1. Min({a, b}) = IF a <= b THEN a ELSE b
      BY <2>2, MaxMin
    <3>2. Min({a, b}) <= b
      BY <3>1, <2>2
    <3> QED BY <3>2 DEF Room, a, b
  <2>4. CASE n = 0
    BY <2>4, <2>1, <2>2, <1>2
  <2>5. CASE n > 0
    <3>1. Room \in Int
      <4> HIDE DEF a, b
      <4>1. Min({a, b}) = IF a <= b THEN a ELSE b
        BY <2>2, MaxMin
      <4> QED BY <4>1, <2>2 DEF Room, a, b
    <3>2. n <= config.quota - Cardinality(Counted)
      BY <2>3, <2>5, <3>1, <2>2
    <3> QED BY <3>2, <2>2, <1>2
  <2> QED BY <2>4, <2>5
<1>4. ASSUME NEW p \in Pods, pod'[p] # Gone
      PROVE  /\ pod'[p] \in PodType
             /\ pod'[p].ready => ~pod'[p].failed /\ ~pod'[p].dying
             /\ pod'[p].due => pod'[p].drain # "none"
             /\ ~config.drain => pod'[p].drain = "none"
             /\ p \in Fresh(n) \/ (pod[p] # Gone /\ (pod[p].failed => pod'[p].failed))
  <2>0. PodsOK(pod) /\ (pod[p] # Gone => Flags(pod[p]))
    BY DEF PodInv
  <2>1. Written(p, r, n, c, X, Y)
    BY <1>1
  <2>2. CASE p \in Fresh(n) /\ pod'[p] = NewPod(r)
    BY <2>0, <2>2, FieldFacts
  <2>3. ASSUME NEW x \in Reasons \cup {"none"}, pod'[p] = Annotate(p, x),
               x = "none" \/ config.drain
        PROVE  /\ pod'[p] \in PodType
               /\ pod'[p].ready => ~pod'[p].failed /\ ~pod'[p].dying
               /\ pod'[p].due => pod'[p].drain # "none"
               /\ ~config.drain => pod'[p].drain = "none"
               /\ pod[p] # Gone /\ (pod[p].failed => pod'[p].failed)
    <3>1. pod[p] # Gone
      BY <1>4, <2>0, <2>3, FieldFacts
    <3>2. /\ Annotate(p, x) \in PodType
          /\ Annotate(p, x).ready = pod[p].ready
          /\ Annotate(p, x).failed = pod[p].failed /\ Annotate(p, x).dying = pod[p].dying
          /\ ~pod[p].dying => Annotate(p, x).drain = x
          /\ pod[p].dying => Annotate(p, x) = pod[p]
          /\ ~pod[p].dying => ~Annotate(p, x).due
      BY <2>0, <3>1, FieldFacts
    <3> QED BY <2>0, <2>3, <3>1, <3>2 DEF Flags
  <2>4. CASE pod'[p] = Kill(p)
    BY <1>4, <2>0, <2>4, FieldFacts
  <2>5. CASE pod'[p] = pod[p]
    BY <1>4, <2>0, <2>5, FieldFacts DEF Flags
  <2> QED BY <2>1, <2>2, <2>3, <2>4, <2>5 DEF Written
<1> QED BY <1>1, <1>2, <1>3, <1>4, PodInvByPod

(* The step CheckCurrentStep computes is a number: with no updated pod it  *)
(* is 0 or 1.                                                              *)
LEMMA StepFacts ==
  ASSUME SpecOK, NEW r \in Roles, NEW v
  PROVE  CurrentStep(v, r) \in Nat
<1> DEFINE L == StepLength(r)
           done == Cardinality(Updated(v, r) \cap ReadyPods(v, r))
           least == Quotient(done - 1, L) + 1
<1>1. L \in Nat /\ L >= 1
  BY StrategyFacts
<1>2. done \in Nat
  BY FilterFacts, PodsFinite
<1> HIDE DEF L, done
<1>3. least \in Nat
  <2>1. CASE done = 0
    <3>1. Quotient(-1, L) = -(1 \div L)
      BY DEF Quotient
    <3>2. 1 \div L \in {0, 1}
      BY <1>1
    <3> QED BY <2>1, <3>1, <3>2
  <2>2. CASE done >= 1
    <3>1. (done - 1) \div L \in Nat
      BY <1>1, <1>2, <2>2
    <3>2. Quotient(done - 1, L) = (done - 1) \div L
      BY <1>2, <2>2 DEF Quotient
    <3> QED BY <3>1, <3>2
  <2> QED BY <1>2, <2>1, <2>2
<1>4. CurrentStep(v, r) \in {least, least + 1}
  BY DEF CurrentStep, L, done
<1> HIDE DEF least
<1> QED BY <1>3, <1>4

(* The role a call is for. *)
LEMMA HeadFacts ==
  ASSUME LoopInv, run.at \in {"scale", "roll"}
  PROVE  /\ run.todo \in Seq(Roles) /\ run.todo # <<>> /\ Len(run.todo) \in Nat
         /\ Len(run.todo) >= 1
         /\ Head(run.todo) \in Roles /\ Head(run.todo) = run.todo[1]
         /\ Tail(run.todo) \in Seq(Roles) /\ Len(Tail(run.todo)) = Len(run.todo) - 1
         /\ Tail(run.todo) = <<>> <=> Len(run.todo) = 1
         /\ \A i \in 1..(Len(run.todo) - 1) : Tail(run.todo)[i] = run.todo[i + 1]
<1> DEFINE t == run.todo
<1>1. t \in Seq(Roles) /\ t # <<>>
  BY DEF LoopInv, RunType
<1> HIDE DEF t
<1>2. Len(t) \in Nat /\ Len(t) # 0
  BY <1>1, EmptySeq
<1>3. /\ Head(t) \in Roles /\ Tail(t) \in Seq(Roles) /\ Len(Tail(t)) = Len(t) - 1
      /\ \A i \in 1..Len(Tail(t)) : Tail(t)[i] = t[i + 1]
  BY <1>1, HeadTailProperties
<1>4. Head(t) = t[1]
  BY <1>1
<1>5. Tail(t) = <<>> <=> Len(t) = 1
  BY <1>2, <1>3, EmptySeq
<1> QED BY <1>1, <1>2, <1>3, <1>4, <1>5 DEF t

(* A pass begins with every role to be scaled. *)
LEMMA SpecSequence ==
  ASSUME config \in Configs
  PROVE  SpecOrder \in Seq(Roles) /\ SpecOrder # <<>> /\ Len(SpecOrder) = Len(config.replicas)
<1> DEFINE n == Len(config.replicas)
           t == SpecOrder
<1>1. n \in Nat /\ n >= 1 /\ Roles = 1..n
  BY ConfigFacts
<1>2. t = [i \in 1..n |-> i]
  BY DEF SpecOrder
<1> HIDE DEF n, t
<1>3. t \in Seq(Roles) /\ Len(t) = n
  BY <1>1, <1>2
<1>4. t # <<>>
  BY <1>1, <1>3, EmptySeq
<1> QED BY <1>3, <1>4 DEF n, t

(* The watch keeps the copy well formed. *)
LEMMA WatchFacts ==
  ASSUME TInv, PodInv', UNCHANGED config, Watch
  PROVE  PodsOK(cache)' /\ wake' \in BOOLEAN /\ (~config.lag => cache = pod)'
<1>1. PodType' = PodType
  BY SpecKept
<1>2. PodsOK(pod') /\ PodsOK(cache)
  BY <1>1 DEF TInv, PodInv, PodsOK
<1>3. cache' = IF config.lag THEN cache ELSE pod'
  BY DEF Watch
<1>4. PodsOK(cache)'
  BY <1>1, <1>2, <1>3 DEF PodsOK
<1>5. config.lag \in BOOLEAN /\ wake \in BOOLEAN
  BY ConfigFacts DEF TInv, SpecOK
<1>6. wake' \in BOOLEAN
  BY <1>5 DEF Watch
<1> QED BY <1>3, <1>4, <1>6

(* What the choices of Scale and of the rolling managers have in common. *)
LEMMA ChoiceFacts ==
  ASSUME TInv, NEW r \in Roles, NEW c \in Scale(cache, r) \cup RollChoice(cache, r, run.step)
  PROVE  /\ c.create \in Nat /\ c.reason \in Reasons
         /\ c.cancel \subseteq Active(cache, r) /\ c.delete \subseteq Listed(cache, r)
<1>1. SpecOK /\ run.step \in Nat
  BY DEF TInv, LoopInv, RunType
<1>2. CASE c \in Scale(cache, r)
  BY <1>1, <1>2, ScaleFacts DEF Reasons
<1>3. CASE c \in RollChoice(cache, r, run.step)
  <2>1. ASSUME NEW v, NEW n \in Nat, c \in RollChoice(v, r, n)
        PROVE  /\ c.create \in Nat /\ c.reason = "rollout" /\ c.cancel = {}
               /\ c.delete \subseteq Outdated(v, r)
    BY <1>1, <2>1, RollShape
  <2>2. /\ c.create \in Nat /\ c.reason = "rollout" /\ c.cancel = {}
        /\ c.delete \subseteq Outdated(cache, r)
    BY <1>1, <1>3, <2>1
  <2>3. Outdated(cache, r) \subseteq Listed(cache, r)
    BY FilterFacts
  <2> QED BY <2>2, <2>3 DEF Reasons
<1> QED BY <1>2, <1>3

Call(r, c) == Succeed(cache, r, c) \/ Break(cache, r, c)

(* A call of a syncer keeps the types of everything but the loop. *)
LEMMA CallTypes ==
  ASSUME TInv, NEW r \in Roles, NEW c \in Scale(cache, r) \cup RollChoice(cache, r, run.step),
         Call(r, c), Watch, faults' <= config.maxFaults,
         UNCHANGED <<config, replicas, target, status, edits>>, LoopInv'
  PROVE  TInv'
<1>1. /\ SpecOK /\ PodInv /\ faults \in Nat /\ config.maxFaults \in Nat
  BY ConfigFacts DEF TInv, SpecOK
<1>2. c.create \in Nat /\ c.reason \in Reasons
  BY ChoiceFacts
<1>3. /\ faults' \in Nat
      /\ \E n \in 0..c.create, X \in SUBSET c.cancel, Y \in SUBSET c.delete :
              /\ Write(cache, r, c, n, X, Y)
              /\ n > 0 => n <= Room
  BY <1>1, <1>2, CallFacts DEF Call
<1>4. PICK n \in 0..c.create, X \in SUBSET c.cancel, Y \in SUBSET c.delete :
              /\ Write(cache, r, c, n, X, Y)
              /\ n > 0 => n <= Room
  BY <1>3
<1>5. n \in Nat
  BY <1>2
<1>6. PodInv'
  BY <1>1, <1>2, <1>4, <1>5, CallPods
<1>7. PodsOK(cache)' /\ wake' \in BOOLEAN /\ (~config.lag => cache = pod)'
  BY <1>6, WatchFacts
<1>8. SpecOK'
  BY <1>1 DEF SpecOK, Roles
<1>9. faults' \in 0..config'.maxFaults /\ edits' \in 0..config'.maxEdits
  BY <1>1, <1>3 DEF TInv
<1> QED BY <1>6, <1>7, <1>8, <1>9 DEF TInv

(* A call that fails ends the pass. *)
LEMMA FailedTypes ==
  ASSUME LoopInv, UNCHANGED config, Failed
  PROVE  LoopInv'
<1>1. run' = [run EXCEPT !.at = "status", !.todo = <<>>, !.err = TRUE]
  BY DEF Failed
<1>2. run \in RunType /\ RunType' = RunType
  BY SpecKept DEF LoopInv
<1>3. <<>> \in Seq(Roles)
  OBVIOUS
<1>4. run' \in RunType
  BY <1>1, <1>2, <1>3 DEF RunType
<1>5. run'.at = "status" /\ run'.todo = <<>>
  BY <1>1, <1>2 DEF RunType
<1>6. (run'.at \in {"scale", "roll"}) = (run'.todo # <<>>)
  BY <1>5
<1> QED BY <1>2, <1>4, <1>6 DEF LoopInv

(* Scale: the pass goes on to the next role, or to the managers, or ends.  *)
LEMMA ScaleTypes == TInv /\ ScaleRole => TInv'
<1> SUFFICES ASSUME TInv, ScaleRole PROVE TInv'
  OBVIOUS
<1> DEFINE r == Head(run.todo)
<1>1. run.at = "scale" /\ LoopInv /\ run \in RunType
  BY DEF ScaleRole, TInv, LoopInv
<1>2. /\ run.todo \in Seq(Roles) /\ r \in Roles /\ Tail(run.todo) \in Seq(Roles)
      /\ Len(run.todo) \in Nat /\ Len(run.todo) >= 1
      /\ Tail(run.todo) = <<>> <=> Len(run.todo) = 1
  BY <1>1, HeadFacts
<1>3. PICK c \in Scale(cache, r) :
        LET busy == run.busy \/ Changed(cache, c) \/ Requeues(cache, c)
        IN  \/ /\ Succeed(cache, r, c)
               /\ run' = [run EXCEPT
                    !.todo = Tail(run.todo), !.busy = busy,
                    !.requeue = run.requeue \/ Requeues(cache, c),
                    !.at = IF Len(run.todo) > 1 THEN "scale"
                           ELSE IF busy THEN "status" ELSE "plan"]
            \/ Break(cache, r, c) /\ Failed
  BY DEF ScaleRole
<1>4. Call(r, c)
  BY <1>3 DEF Call
<1>5. /\ Watch /\ faults' <= config.maxFaults
      /\ UNCHANGED <<config, replicas, target, status, edits>>
  BY DEF ScaleRole
<1>6. RunType' = RunType
  BY <1>5, SpecKept
<1>7. LoopInv'
  <2>1. CASE Break(cache, r, c) /\ Failed
    BY <1>1, <1>5, <2>1, FailedTypes
  <2>2. ASSUME NEW busy, busy = (run.busy \/ Changed(cache, c) \/ Requeues(cache, c)),
               run' = [run EXCEPT
                    !.todo = Tail(run.todo), !.busy = busy,
                    !.requeue = run.requeue \/ Requeues(cache, c),
                    !.at = IF Len(run.todo) > 1 THEN "scale"
                           ELSE IF busy THEN "status" ELSE "plan"]
        PROVE  LoopInv'
    <3>1. /\ run'.todo = Tail(run.todo) /\ run'.step = run.step /\ run'.err = run.err
          /\ run'.busy = busy /\ run'.requeue = (run.requeue \/ Requeues(cache, c))
          /\ run'.at = IF Len(run.todo) > 1 THEN "scale" ELSE IF busy THEN "status" ELSE "plan"
          /\ run' \in RunType
      <4>1. busy \in BOOLEAN
        BY <2>2
      <4>2. (run.requeue \/ Requeues(cache, c)) \in BOOLEAN
        OBVIOUS
      <4> DEFINE q == run.requeue \/ Requeues(cache, c)
                 a == IF Len(run.todo) > 1 THEN "scale" ELSE IF busy THEN "status" ELSE "plan"
                 t == Tail(run.todo)
      <4>3. a \in {"scale", "status", "plan"} /\ t \in Seq(Roles) /\ q \in BOOLEAN
        BY <1>2, <4>2
      <4>4. run' = [run EXCEPT !.todo = t, !.busy = busy, !.requeue = q, !.at = a]
        BY <2>2
      <4> HIDE DEF q, a, t
      <4>5. /\ run'.todo = t /\ run'.step = run.step /\ run'.err = run.err
            /\ run'.busy = busy /\ run'.requeue = q /\ run'.at = a
            /\ run' \in RunType
        BY <1>1, <4>1, <4>3, <4>4 DEF RunType
      <4> QED BY <4>5 DEF q, a, t
    <3>2. (run'.at \in {"scale", "roll"}) = (run'.todo # <<>>)
      <4>1. CASE Len(run.todo) > 1
        <5>1. run'.at = "scale"
          BY <4>1, <3>1
        <5>2. Len(run.todo) # 1
          <6> DEFINE l == Len(run.todo)
          <6>1. l \in Nat /\ l > 1
            BY <4>1, <1>2
          <6> HIDE DEF l
          <6>2. l # 1
            BY <6>1
          <6> QED BY <6>2 DEF l
        <5>3. run'.todo # <<>>
          BY <5>2, <3>1, <1>2
        <5> QED BY <5>1, <5>3
      <4>2. CASE Len(run.todo) = 1
        <5>1. run'.at \notin {"scale", "roll"} /\ run'.todo = <<>>
          BY <4>2, <3>1, <1>2
        <5> QED BY <5>1
      <4> QED BY <4>1, <4>2, <1>2
    <3> QED BY <3>1, <3>2, <1>6 DEF LoopInv
  <2> QED BY <1>3, <2>1, <2>2
<1> QED BY <1>2, <1>4, <1>5, <1>7, CallTypes

(* A rolling manager: the pass goes on to the next role or ends.           *)
LEMMA RollTypes == TInv /\ RollRole => TInv'
<1> SUFFICES ASSUME TInv, RollRole PROVE TInv'
  OBVIOUS
<1> DEFINE r == Head(run.todo)
           todo == RolesLeft(r)
<1>1. run.at = "roll" /\ LoopInv /\ run \in RunType
  BY DEF RollRole, TInv, LoopInv
<1>2. r \in Roles /\ Tail(run.todo) \in Seq(Roles)
  BY <1>1, HeadFacts
<1>3. PICK c \in RollChoice(cache, r, run.step) :
        \/ /\ Succeed(cache, r, c)
           /\ run' = [run EXCEPT
                !.todo = todo,
                !.requeue = run.requeue \/ Requeues(cache, c),
                !.at = IF todo = <<>> THEN "status" ELSE "roll"]
        \/ Break(cache, r, c) /\ Failed
  BY DEF RollRole, RollChoice
<1>4. Call(r, c)
  BY <1>3 DEF Call
<1>5. /\ Watch /\ faults' <= config.maxFaults
      /\ UNCHANGED <<config, replicas, target, status, edits>>
  BY DEF RollRole
<1>6. RunType' = RunType
  BY <1>5, SpecKept
<1>7. todo \in Seq(Roles)
  BY <1>2 DEF RolesLeft
<1>8. LoopInv'
  <2>1. CASE Break(cache, r, c) /\ Failed
    BY <1>1, <1>5, <2>1, FailedTypes
  <2>2. CASE run' = [run EXCEPT
                !.todo = todo,
                !.requeue = run.requeue \/ Requeues(cache, c),
                !.at = IF todo = <<>> THEN "status" ELSE "roll"]
    <3> DEFINE q == run.requeue \/ Requeues(cache, c)
    <3>1. q \in BOOLEAN
      OBVIOUS
    <3>2. run' = [run EXCEPT !.todo = todo, !.requeue = q,
                             !.at = IF todo = <<>> THEN "status" ELSE "roll"]
      BY <2>2
    <3> HIDE DEF q, todo
    <3>3. run' \in RunType
      BY <1>1, <1>7, <3>1, <3>2 DEF RunType
    <3>4. run'.todo = todo /\ run'.at = IF todo = <<>> THEN "status" ELSE "roll"
      BY <1>1, <3>2 DEF RunType
    <3>5. (run'.at \in {"scale", "roll"}) = (run'.todo # <<>>)
      BY <3>4
    <3> QED BY <1>6, <3>3, <3>5 DEF LoopInv
  <2> QED BY <1>3, <2>1, <2>2
<1> QED BY <1>2, <1>4, <1>5, <1>8, CallTypes

(* The managers' plan for the pass. *)
LEMMA PlanTypes == TInv /\ Plan => TInv'
<1> SUFFICES ASSUME TInv, Plan PROVE TInv'
  OBVIOUS
<1> DEFINE behind == {r \in Roles : ~StepDone(cache, r)}
           steps == {CurrentStep(cache, r) : r \in behind}
           step == Min(steps)
           chosen == {r \in behind : CurrentStep(cache, r) <= step}
           todo == CASE config.strategy = "Sequential" -> UpgradeOrder
                     [] config.strategy = "Parallel" -> SpecOrder
                     [] OTHER -> IF behind = {} THEN <<>> ELSE InSpecOrder(chosen)
           n == IF config.strategy = "Interleave" /\ behind # {} THEN step ELSE 0
<1>1. SpecOK /\ LoopInv /\ run \in RunType /\ config \in Configs
  BY DEF TInv, LoopInv, SpecOK
<1>2. /\ run' = [run EXCEPT !.todo = todo, !.step = n,
                            !.at = IF todo = <<>> THEN "status" ELSE "roll"]
      /\ UNCHANGED <<config, replicas, target, pod, cache, wake, status, faults, edits>>
  BY DEF Plan
<1>3. behind \subseteq Roles /\ IsFiniteSet(Roles) /\ Roles \subseteq Nat
  BY <1>1, ConfigFacts
<1>4. behind # {} => step \in Nat
  <2>1. steps \subseteq Nat
    BY <1>1, StepFacts
  <2>2. behind # {} => steps # {}
    OBVIOUS
  <2> HIDE DEF steps
  <2> QED BY <2>1, <2>2, MinNat
<1>5. n \in Nat
  <2> HIDE DEF step, behind
  <2> QED BY <1>4
<1>6. todo \in Seq(Roles)
  <2>1. UpgradeOrder \in Seq(Roles) /\ SpecOrder \in Seq(Roles)
    BY <1>1, OrderFacts, SpecSequence
  <2>2. IsFiniteSet(chosen) /\ chosen \subseteq Roles
    <3>1. chosen \subseteq Roles
      BY <1>3
    <3> HIDE DEF chosen
    <3> QED BY <3>1, <1>3, FS_Subset
  <2> HIDE DEF chosen
  <2>3. chosen \subseteq Int
    BY <2>2, <1>3
  <2>4. InSpecOrder(chosen) \in Seq(chosen)
    BY <2>2, <2>3, SpecOrderFacts
  <2>5. InSpecOrder(chosen) \in Seq(Roles)
    BY <2>2, <2>4
  <2>6. <<>> \in Seq(Roles)
    OBVIOUS
  <2> HIDE DEF behind
  <2> QED BY <2>1, <2>5, <2>6
<1> HIDE DEF todo, n
<1>7. /\ run' \in RunType
      /\ run'.todo = todo /\ run'.at = IF todo = <<>> THEN "status" ELSE "roll"
  BY <1>1, <1>2, <1>5, <1>6 DEF RunType
<1>8. (run'.at \in {"scale", "roll"}) = (run'.todo # <<>>)
  BY <1>7
<1>9. LoopInv'
  BY <1>2, <1>7, <1>8, SpecKept DEF LoopInv
<1> QED BY <1>1, <1>2, <1>9 DEF TInv, SpecOK, PodInv, PodsOK, Counted, Roles, PodType, Flags

(* The idle loop is well formed. *)
LEMMA IdleType ==
  ASSUME UNCHANGED config, run' = Idle
  PROVE  LoopInv'
<1>1. RunType' = RunType
  BY SpecKept
<1>2. <<>> \in Seq(Roles)
  OBVIOUS
<1>3. Idle \in RunType /\ Idle.at = "idle" /\ Idle.todo = <<>>
  BY <1>2 DEF Idle, RunType
<1> QED BY <1>1, <1>3 DEF LoopInv

(* One pod changes by itself. *)
LEMMA PodChange ==
  ASSUME SpecOK, PodInv, UNCHANGED config, NEW p \in Pods, NEW x,
         pod' = [pod EXCEPT ![p] = x], pod[p] # Gone,
         x = Gone \/ /\ x \in PodType /\ Flags(x)
                     /\ pod[p].failed => x.failed
  PROVE  PodInv'
<1>1. PodsOK(pod) /\ \A q \in Pods : pod[q] # Gone => Flags(pod[q])
  BY DEF PodInv
<1>2. pod' = [q \in Pods |-> pod'[q]] /\ pod'[p] = x /\ \A q \in Pods : q # p => pod'[q] = pod[q]
  BY <1>1 DEF PodsOK
<1>3. ASSUME NEW q \in Pods, pod'[q] # Gone
      PROVE  /\ pod'[q] \in PodType
             /\ pod'[q].ready => ~pod'[q].failed /\ ~pod'[q].dying
             /\ pod'[q].due => pod'[q].drain # "none"
             /\ ~config.drain => pod'[q].drain = "none"
             /\ q \in {} \/ (pod[q] # Gone /\ (pod[q].failed => pod'[q].failed))
  <2>1. CASE q = p
    BY <2>1, <1>2, <1>3 DEF Flags
  <2>2. CASE q # p
    BY <2>2, <1>1, <1>2, <1>3 DEF Flags, PodsOK
  <2> QED BY <2>1, <2>2
<1>4. Cardinality(Counted) + Cardinality({}) <= config.quota
  <2>1. Cardinality(Counted) \in Nat
    BY PodsFinite DEF Counted
  <2>2. Cardinality(Counted) <= config.quota
    BY DEF PodInv
  <2>3. Cardinality({}) = 0
    BY FS_EmptySet
  <2> QED BY <2>1, <2>2, <2>3
<1> DEFINE G == {}
<1>5. /\ G \subseteq Pods /\ Cardinality(Counted) + Cardinality(G) <= config.quota
      /\ \A q \in Pods : pod'[q] # Gone =>
             /\ pod'[q] \in PodType
             /\ pod'[q].ready => ~pod'[q].failed /\ ~pod'[q].dying
             /\ pod'[q].due => pod'[q].drain # "none"
             /\ ~config.drain => pod'[q].drain = "none"
             /\ q \in G \/ (pod[q] # Gone /\ (pod[q].failed => pod'[q].failed))
  BY <1>3, <1>4
<1> HIDE DEF G
<1> QED BY <1>2, <1>5, PodInvByPod

(* What the kubelets and the clock do to one pod. *)
LEMMA PodStepTypes ==
  ASSUME TInv, NEW p \in Pods,
         PodReady(p) \/ PodBreaks(p) \/ PodGone(p) \/ DrainTimeout(p)
  PROVE  TInv'
<1>1. /\ SpecOK /\ PodInv /\ LoopInv /\ PodsOK(cache) /\ PodsOK(pod)
      /\ \A q \in Pods : pod[q] # Gone => pod[q] \in PodType /\ Flags(pod[q])
      /\ wake \in BOOLEAN
  BY DEF TInv, PodInv, PodsOK
<1>2. UNCHANGED ControlPlane /\ UNCHANGED config
  BY DEF PodReady, PodBreaks, PodGone, DrainTimeout, ControlPlane
<1>3. SpecOK' /\ LoopInv' /\ edits' = edits /\ config' = config
  BY <1>1, <1>2 DEF ControlPlane, SpecOK, LoopInv, Roles, RunType
<1>4. PodType' = PodType
  BY <1>2, SpecKept
<1>5. CASE PodReady(p)
  <2> DEFINE x == [pod[p] EXCEPT !.ready = TRUE]
  <2>1. pod[p] # Gone /\ ~pod[p].dying /\ ~pod[p].failed /\ pod' = [pod EXCEPT ![p] = x]
    BY <1>5 DEF PodReady, Live
  <2>2. x \in PodType /\ Flags(x) /\ (pod[p].failed => x.failed)
    BY <1>1, <2>1 DEF PodType, Flags
  <2> HIDE DEF x
  <2>3. PodInv'
    BY <1>1, <1>2, <2>1, <2>2, PodChange
  <2>4. PodsOK(cache)' /\ wake' \in BOOLEAN /\ (~config.lag => cache = pod)'
    BY <1>2, <1>5, <2>3, WatchFacts DEF PodReady
  <2>5. faults' = faults
    BY <1>5 DEF PodReady
  <2> QED BY <1>3, <2>3, <2>4, <2>5 DEF TInv
<1>6. CASE PodBreaks(p)
  <2> DEFINE x == [pod[p] EXCEPT !.ready = FALSE]
             y == [pod[p] EXCEPT !.ready = FALSE, !.failed = TRUE, !.drain = "none", !.due = FALSE]
  <2>1. pod[p] # Gone /\ (pod' = [pod EXCEPT ![p] = x] \/ pod' = [pod EXCEPT ![p] = y])
    BY <1>6 DEF PodBreaks, Live
  <2>2. x \in PodType /\ Flags(x) /\ (pod[p].failed => x.failed)
    BY <1>1, <2>1 DEF PodType, Flags
  <2>3. y \in PodType /\ Flags(y) /\ (pod[p].failed => y.failed)
    BY <1>1, <2>1 DEF PodType, Flags
  <2> HIDE DEF x, y
  <2>4. PodInv'
    BY <1>1, <1>2, <2>1, <2>2, <2>3, PodChange
  <2>5. PodsOK(cache)' /\ wake' \in BOOLEAN /\ (~config.lag => cache = pod)'
    BY <1>2, <1>6, <2>4, WatchFacts DEF PodBreaks
  <2>6. faults' \in 0..config.maxFaults
    <3>1. config.maxFaults \in Nat
      BY <1>1, ConfigFacts DEF SpecOK
    <3> QED BY <1>6, <3>1 DEF PodBreaks, TInv
  <2> QED BY <1>3, <2>4, <2>5, <2>6 DEF TInv
<1>7. CASE PodGone(p)
  <2>1. pod[p] # Gone /\ pod' = [pod EXCEPT ![p] = Gone]
    BY <1>7 DEF PodGone
  <2>2. PodInv'
    BY <1>1, <1>2, <2>1, PodChange
  <2>3. PodsOK(cache)' /\ wake' \in BOOLEAN /\ (~config.lag => cache = pod)'
    BY <1>2, <1>7, <2>2, WatchFacts DEF PodGone
  <2>4. faults' = faults
    BY <1>7 DEF PodGone
  <2> QED BY <1>3, <2>2, <2>3, <2>4 DEF TInv
<1>8. CASE DrainTimeout(p)
  <2> DEFINE x == [pod[p] EXCEPT !.due = TRUE]
             y == [cache[p] EXCEPT !.due = TRUE]
  <2>1. pod[p] # Gone /\ pod[p].drain # "none" /\ pod' = [pod EXCEPT ![p] = x]
    BY <1>8 DEF DrainTimeout, Live
  <2>2. cache' = IF cache[p] # Gone /\ cache[p].drain # "none"
                 THEN [cache EXCEPT ![p] = y] ELSE cache
    BY <1>8 DEF DrainTimeout
  <2>3. x \in PodType /\ Flags(x) /\ (pod[p].failed => x.failed)
    BY <1>1, <2>1 DEF PodType, Flags
  <2>4. cache[p] # Gone => y \in PodType
    BY <1>1 DEF PodType, PodsOK
  <2>5. (~config.lag => cache = pod)'
    BY <1>2, <2>1, <2>2 DEF TInv
  <2> HIDE DEF x, y
  <2>6. PodInv'
    BY <1>1, <1>2, <2>1, <2>3, PodChange
  <2>7. PodsOK(cache)'
    BY <1>1, <1>4, <2>2, <2>4 DEF PodsOK
  <2>8. faults' = faults /\ wake' = wake
    BY <1>8 DEF DrainTimeout
  <2> QED BY <1>3, <2>5, <2>6, <2>7, <2>8 DEF TInv
<1> QED BY <1>5, <1>6, <1>7, <1>8

(* The steps of the loop that write no pods, the watch, a restart and the  *)
(* edits of the user.                                                      *)
LEMMA ControlTypes ==
  ASSUME TInv,
         \/ Begin \/ UpdateStatus \/ Sync \/ Crash \/ UpdateTemplate
         \/ \E r \in Roles, n \in config.sizes : Resize(r, n)
  PROVE  TInv'
<1>1. /\ SpecOK /\ PodInv /\ LoopInv /\ PodsOK(cache) /\ PodsOK(pod)
      /\ wake \in BOOLEAN /\ config.maxFaults \in Nat /\ config.maxEdits \in Nat
      /\ faults \in 0..config.maxFaults /\ edits \in 0..config.maxEdits
  BY ConfigFacts DEF TInv, PodInv, SpecOK
<1>2. UNCHANGED config /\ UNCHANGED pod
  BY DEF Begin, UpdateStatus, Sync, Crash, UpdateTemplate, Resize, ControlPlane
<1>3. PodInv' /\ PodType' = PodType /\ Roles' = Roles
  BY <1>1, <1>2 DEF PodInv, PodsOK, Counted, PodType, Roles, Flags
<1>4. PodsOK(cache)' /\ (~config.lag => cache = pod)'
  <2>1. cache' = cache \/ cache' = pod
    BY DEF Begin, UpdateStatus, Sync, Crash, UpdateTemplate, Resize
  <2> QED BY <2>1, <1>1, <1>2, <1>3 DEF PodsOK, TInv
<1>5. CASE Begin
  <2>1. run' = [Idle EXCEPT !.at = "scale", !.todo = SpecOrder]
    BY <1>5 DEF Begin
  <2>2. SpecOrder \in Seq(Roles) /\ SpecOrder # <<>>
    BY <1>1, SpecSequence DEF SpecOK
  <2>3. run' \in RunType /\ run'.at = "scale" /\ run'.todo = SpecOrder
    BY <2>1, <2>2 DEF RunType, Idle
  <2>4. LoopInv'
    BY <2>2, <2>3, <1>2, SpecKept DEF LoopInv
  <2> QED BY <1>1, <1>2, <1>3, <1>4, <1>5, <2>4 DEF Begin, TInv, SpecOK
<1>6. CASE UpdateStatus
  <2>1. LoopInv'
    BY <1>2, <1>6, IdleType DEF UpdateStatus
  <2>2. wake' \in BOOLEAN /\ faults' \in 0..config.maxFaults
    <3> DEFINE w == wake \/ NewStatus # status \/ run.requeue \/ ~status.ready
    <3>1. w \in BOOLEAN
      OBVIOUS
    <3> HIDE DEF w
    <3>2. (wake' = w /\ faults' = faults)
          \/ (wake' = TRUE /\ faults' = faults + 1 /\ faults < config.maxFaults)
      BY <1>6 DEF UpdateStatus, w
    <3>3. wake' \in BOOLEAN
      BY <3>1, <3>2
    <3>4. faults' \in 0..config.maxFaults
      <4>1. faults' = faults \/ (faults' = faults + 1 /\ faults < config.maxFaults)
        BY <3>2
      <4> QED BY <1>1, <4>1
    <3> QED BY <3>3, <3>4
  <2> QED BY <1>1, <1>2, <1>3, <1>4, <1>6, <2>1, <2>2 DEF UpdateStatus, TInv, SpecOK
<1>7. CASE Sync
  <2>1. LoopInv'
    BY <1>1, <1>7 DEF Sync, ControlPlane, LoopInv, RunType, Roles
  <2> QED BY <1>1, <1>2, <1>3, <1>4, <1>7, <2>1 DEF Sync, ControlPlane, TInv, SpecOK
<1>8. CASE Crash
  <2>1. LoopInv'
    BY <1>2, <1>8, IdleType DEF Crash
  <2>2. faults' \in 0..config.maxFaults
    BY <1>1, <1>8 DEF Crash
  <2> QED BY <1>1, <1>2, <1>3, <1>4, <1>8, <2>1, <2>2 DEF Crash, TInv, SpecOK
<1>9. CASE UpdateTemplate
  <2>1. LoopInv'
    BY <1>1, <1>9 DEF UpdateTemplate, LoopInv, RunType, Roles
  <2>2. target' \in [Roles -> Hashes]
    <3>1. \A r \in Roles : \E h \in Hashes : h # target[r]
      BY DEF Hashes
    <3>2. target' = [r \in Roles |-> CHOOSE h \in Hashes : h # target[r]]
      BY <1>9 DEF UpdateTemplate
    <3> DEFINE g(r) == CHOOSE h \in Hashes : h # target[r]
    <3>3. \A r \in Roles : g(r) \in Hashes
      BY <3>1
    <3>4. target' = [r \in Roles |-> g(r)]
      BY <3>2
    <3> HIDE DEF g
    <3> QED BY <3>3, <3>4
  <2>3. edits' \in 0..config.maxEdits
    BY <1>1, <1>9 DEF UpdateTemplate
  <2> QED BY <1>1, <1>2, <1>3, <1>4, <1>9, <2>1, <2>2, <2>3 DEF UpdateTemplate, TInv, SpecOK
<1>10. ASSUME NEW r \in Roles, NEW n \in config.sizes, Resize(r, n)
       PROVE  TInv'
  <2>1. LoopInv'
    BY <1>1, <1>10 DEF Resize, LoopInv, RunType, Roles
  <2>2. n \in Nat
    BY <1>1, ConfigFacts DEF SpecOK
  <2>3. replicas' \in [Roles -> Nat]
    BY <1>1, <1>10, <2>2 DEF Resize, SpecOK
  <2>4. edits' \in 0..config.maxEdits
    BY <1>1, <1>10 DEF Resize
  <2> QED BY <1>1, <1>2, <1>3, <1>4, <1>10, <2>1, <2>3, <2>4 DEF Resize, TInv, SpecOK
<1> QED BY <1>5, <1>6, <1>7, <1>8, <1>9, <1>10

(* Every step keeps the types. *)
LEMMA TypesKept == TInv /\ [Next]_vars => TInv'
<1> SUFFICES ASSUME TInv, [Next]_vars PROVE TInv'
  OBVIOUS
<1>1. CASE Begin \/ UpdateStatus \/ Sync \/ Crash \/ UpdateTemplate
  BY <1>1, ControlTypes
<1>2. CASE \E r \in Roles, n \in config.sizes : Resize(r, n)
  BY <1>2, ControlTypes
<1>3. CASE ScaleRole
  BY <1>3, ScaleTypes
<1>4. CASE Plan
  BY <1>4, PlanTypes
<1>5. CASE RollRole
  BY <1>5, RollTypes
<1>6. CASE \E p \in Pods : PodReady(p) \/ PodBreaks(p) \/ PodGone(p) \/ DrainTimeout(p)
  BY <1>6, PodStepTypes
<1>7. CASE UNCHANGED vars
  BY <1>7 DEF vars, TInv, SpecOK, PodInv, LoopInv, PodsOK, Counted, Roles, PodType, RunType, Flags
<1> QED BY <1>1, <1>2, <1>3, <1>4, <1>5, <1>6, <1>7 DEF Next

-----------------------------------------------------------------------------
(* The pods of a RoleSet that is up.                                       *)

(* The identities of a role follow those of the roles before it. *)
LEMMA UpToFacts ==
  ASSUME config \in Configs
  PROVE  /\ PodsUpTo(config, 0) = 0
         /\ \A r \in Roles : /\ PodsUpTo(config, r) \in Nat /\ PodsUpTo(config, r - 1) \in Nat
                             /\ PodsUpTo(config, r) = PodsUpTo(config, r - 1) + config.replicas[r]
         /\ \A q, r \in Roles : q <= r => PodsUpTo(config, q) <= PodsUpTo(config, r)
<1> DEFINE f == config.replicas
           N == Len(config.replicas)
<1>1. N \in Nat /\ Roles = 1..N /\ \A r \in Roles : f[r] \in Nat
  BY ConfigFacts
<1> HIDE DEF f, N
<1>2. \A n \in Int : IsFiniteSet(1..n)
  BY FS_Interval
<1>3. SumFunctionOnSet(f, 1..0) = 0
  <2>1. 1..0 = {}
    OBVIOUS
  <2> QED BY <2>1, SumEmpty
<1>4. ASSUME NEW r \in Roles
      PROVE  /\ SumFunctionOnSet(f, 1..r) \in Nat /\ SumFunctionOnSet(f, 1..(r - 1)) \in Nat
             /\ SumFunctionOnSet(f, 1..r) = SumFunctionOnSet(f, 1..(r - 1)) + f[r]
  <2>1. /\ r \in Int /\ r - 1 \in Int /\ r \in 1..r /\ (1..r) \ {r} = 1..(r - 1)
        /\ \A x \in 1..r : f[x] \in Nat
        /\ \A x \in 1..(r - 1) : f[x] \in Nat
    BY <1>1
  <2>2. IsFiniteSet(1..r) /\ IsFiniteSet(1..(r - 1))
    BY <2>1, <1>2
  <2>3. SumFunctionOnSet(f, 1..r) \in Nat /\ SumFunctionOnSet(f, 1..(r - 1)) \in Nat
    BY <2>1, <2>2, SumNat
  <2>4. \A x \in 1..r : f[x] \in Int
    BY <2>1
  <2>5. SumFunctionOnSet(f, 1..r) = f[r] + SumFunctionOnSet(f, (1..r) \ {r})
    BY <2>1, <2>2, <2>4, SumTakeOut
  <2>6. f[r] \in Nat
    BY <1>1
  <2>7. SumFunctionOnSet(f, 1..r) = f[r] + SumFunctionOnSet(f, 1..(r - 1))
    BY <2>1, <2>5
  <2> DEFINE a == SumFunctionOnSet(f, 1..r)
             b == SumFunctionOnSet(f, 1..(r - 1))
             d == f[r]
  <2>8. a \in Nat /\ b \in Nat /\ d \in Nat /\ a = d + b
    BY <2>3, <2>6, <2>7
  <2> HIDE DEF a, b, d
  <2>9. a = b + d
    BY <2>8
  <2> QED BY <2>3, <2>9 DEF a, b, d
<1>5. ASSUME NEW q \in Roles, NEW r \in Roles, q <= r
      PROVE  SumFunctionOnSet(f, 1..q) <= SumFunctionOnSet(f, 1..r)
  <2> DEFINE S == 1..r
             T == 1..q
             g == [x \in S |-> IF x \in T THEN f[x] ELSE 0]
  <2>1. /\ IsFiniteSet(S) /\ IsFiniteSet(T) /\ T \in SUBSET S
        /\ \A x \in S : f[x] \in Nat
    BY <1>1, <1>2, <1>5
  <2> HIDE DEF S, T
  <2>2. /\ \A x \in S : g[x] \in Int /\ f[x] \in Int /\ g[x] <= f[x]
        /\ \A x \in S \ T : g[x] = 0
        /\ \A x \in T : f[x] \in Int /\ g[x] = f[x]
    BY <2>1
  <2> HIDE DEF g
  <2>3. SumFunctionOnSet(g, S) <= SumFunctionOnSet(f, S)
    BY <2>1, <2>2, SumMonotone
  <2>4. SumFunctionOnSet(g, S) = SumFunctionOnSet(g, T)
    BY <2>1, <2>2, SumSupport
  <2>5. SumFunctionOnSet(f, T) = SumFunctionOnSet(g, T)
    BY <2>1, <2>2, SumEqual
  <2> QED BY <2>3, <2>4, <2>5 DEF S, T
<1> QED BY <1>3, <1>4, <1>5 DEF PodsUpTo, f

(* The role of an identity. *)
LEMMA InitialRole ==
  ASSUME config \in Configs, NEW p \in Pods, p <= PodsUpTo(config, Len(config.replicas)),
         NEW m, m = Min({r \in Roles : p <= PodsUpTo(config, r)})
  PROVE  /\ m \in Roles
         /\ \A r \in Roles : m = r <=> p \in (PodsUpTo(config, r - 1) + 1)..PodsUpTo(config, r)
<1> DEFINE N == Len(config.replicas)
           S == {r \in Roles : p <= PodsUpTo(config, r)}
<1>1. N \in Nat /\ N >= 1 /\ Roles = 1..N /\ N \in Roles
  BY ConfigFacts
<1>2. S \subseteq Nat /\ S # {}
  BY <1>1
<1>3. m \in S /\ \A x \in S : m <= x
  <2> HIDE DEF S
  <2>1. Min(S) \in S /\ \A x \in S : Min(S) <= x
    BY <1>2, MinNat
  <2> QED BY <2>1 DEF S
<1>4. m \in Roles /\ p <= PodsUpTo(config, m) /\ p \in Nat /\ p >= 1
  BY <1>3, ConfigAssumption DEF Pods
<1>5. p > PodsUpTo(config, m - 1)
  <2>1. CASE m = 1
    BY <2>1, <1>4, UpToFacts
  <2>2. CASE m # 1
    <3>1. m - 1 \in Roles /\ m - 1 < m
      BY <1>1, <1>4, <2>2
    <3>2. m - 1 \notin S
      BY <3>1, <1>3, <1>2
    <3>3. PodsUpTo(config, m - 1) \in Nat
      BY <1>4, UpToFacts
    <3> QED BY <3>1, <3>2, <3>3, <1>4
  <2> QED BY <2>1, <2>2
<1>6. p \in (PodsUpTo(config, m - 1) + 1)..PodsUpTo(config, m)
  <2>1. PodsUpTo(config, m - 1) \in Nat /\ PodsUpTo(config, m) \in Nat
    BY <1>4, UpToFacts
  <2> QED BY <2>1, <1>4, <1>5
<1>7. ASSUME NEW r \in Roles, p \in (PodsUpTo(config, r - 1) + 1)..PodsUpTo(config, r)
      PROVE  m = r
  <2>1. PodsUpTo(config, r - 1) \in Nat /\ PodsUpTo(config, r) \in Nat
    BY UpToFacts
  <2>2. p > PodsUpTo(config, r - 1) /\ p <= PodsUpTo(config, r)
    BY <1>7, <2>1
  <2>3. m <= r /\ m \in Nat /\ r \in Nat
    BY <2>2, <1>1, <1>3, <1>4
  <2>4. ASSUME m < r PROVE FALSE
    <3>1. r - 1 \in Roles /\ m <= r - 1
      BY <1>1, <1>4, <2>3, <2>4
    <3>2. PodsUpTo(config, m) <= PodsUpTo(config, r - 1)
      BY <1>4, <3>1, UpToFacts
    <3>3. PodsUpTo(config, m) \in Nat
      BY <1>4, UpToFacts
    <3> QED BY <3>2, <3>3, <2>1, <2>2, <1>4
  <2> QED BY <2>3, <2>4
<1> QED BY <1>4, <1>6, <1>7

(* Every replica is ready, of the wanted template and not draining. *)
Quiet(r) == /\ AllReady(pod, r)
            /\ \A p \in Listed(pod, r) : pod[p].drain = "none"

(* A RoleSet that is up: the pods of each role are an interval.            *)
LEMMA InitPods ==
  ASSUME Init
  PROVE  /\ PodInv
         /\ config.settled => \A r \in Roles : Quiet(r)
<1>1. /\ config \in Configs /\ replicas = config.replicas /\ target = [r \in Roles |-> 1]
      /\ pod = [p \in Pods |-> InitialPod(p)]
  BY DEF Init
<1>2. SpecOK
  BY <1>1, ConfigFacts DEF SpecOK, Hashes
<1> DEFINE N == Len(config.replicas)
           R(p) == Min({r \in Roles : p <= PodsUpTo(config, r)})
           here(p) == config.settled /\ p <= PodsUpTo(config, N)
<1>3. ASSUME NEW p \in Pods
      PROVE  /\ ~here(p) => pod[p] = Gone
             /\ here(p) => /\ R(p) \in Roles /\ pod[p] \in PodType /\ pod[p] # Gone
                           /\ pod[p].role = R(p) /\ pod[p].hash = 1 /\ pod[p].ready
                           /\ ~pod[p].failed /\ ~pod[p].dying /\ pod[p].drain = "none"
                           /\ ~pod[p].due
  <2> DEFINE x == [NewPod(R(p)) EXCEPT !.ready = TRUE]
  <2>1. pod[p] = IF here(p) THEN x ELSE Gone
    BY <1>1 DEF InitialPod
  <2>2. ASSUME here(p)
        PROVE  /\ R(p) \in Roles /\ x \in PodType
               /\ x.role = R(p) /\ x.hash = 1 /\ x.ready
               /\ ~x.failed /\ ~x.dying /\ x.drain = "none" /\ ~x.due
    <3>1. R(p) \in Roles
      BY <1>1, <2>2, InitialRole
    <3> DEFINE m == R(p)
    <3> HIDE DEF m
    <3>2. m \in Roles /\ target[m] = 1 /\ x = [NewPod(m) EXCEPT !.ready = TRUE]
      BY <3>1, <1>1 DEF m
    <3>3. /\ x \in PodType /\ x.role = m /\ x.hash = 1 /\ x.ready
          /\ ~x.failed /\ ~x.dying /\ x.drain = "none" /\ ~x.due
      <4> HIDE DEF x
      <4> QED BY <3>2 DEF NewPod, PodType, Hashes
    <3> QED BY <3>1, <3>3 DEF m
  <2>3. \A y \in PodType : y # Gone
    BY <1>1, GoneFacts
  <2> HIDE DEF x, here, R
  <2> QED BY <2>1, <2>2, <2>3
<1>4. PodsOK(pod)
  <2> HIDE DEF here, R
  <2>1. \A p \in Pods : pod[p] \in PodType \cup {Gone}
    BY <1>3
  <2>2. pod = [p \in Pods |-> pod[p]]
    BY <1>1
  <2> QED BY <2>1, <2>2 DEF PodsOK
<1>5. \A p \in Pods : pod[p] # Gone => Flags(pod[p])
  <2> HIDE DEF here, R
  <2> QED BY <1>3 DEF Flags
<1>6. Cardinality(Counted) <= config.quota
  <2> DEFINE t == PodsUpTo(config, N)
  <2>1. t \in Nat /\ N \in Roles /\ config.quota \in Nat
    BY <1>1, ConfigFacts, UpToFacts
  <2>2. Counted \subseteq {p \in Pods : here(p)}
    <3> HIDE DEF here, R
    <3> QED BY <1>3 DEF Counted
  <2>3. CASE config.settled
    <3>1. t <= config.quota
      BY <2>3, <1>1, ConfigFacts
    <3>2. Counted \subseteq 1..t
      BY <2>1, <2>2, ConfigAssumption DEF Pods
    <3> HIDE DEF t
    <3>3. IsFiniteSet(1..t) /\ Cardinality(1..t) = IF 1 > t THEN 0 ELSE t - 1 + 1
      <4>1. 1 \in Int /\ t \in Int
        BY <2>1
      <4> QED BY <4>1, FS_Interval
    <3>4. Cardinality(1..t) = t
      BY <3>3, <2>1
    <3>5. Cardinality(Counted) <= Cardinality(1..t)
      BY <3>2, <3>3, FS_Subset
    <3>6. Cardinality(Counted) \in Nat
      BY PodsFinite DEF Counted
    <3> QED BY <3>1, <3>4, <3>5, <3>6, <2>1
  <2>4. CASE ~config.settled
    <3>1. Counted = {}
      BY <2>2, <2>4
    <3> QED BY <3>1, <2>1, FS_EmptySet
  <2> QED BY <2>3, <2>4
<1>7. ASSUME config.settled, NEW r \in Roles
      PROVE  Quiet(r)
  <2> DEFINE a == PodsUpTo(config, r - 1)
             b == PodsUpTo(config, r)
  <2>1. /\ a \in Nat /\ b \in Nat /\ b = a + config.replicas[r] /\ config.replicas[r] \in Nat
        /\ N \in Roles /\ r <= N /\ b <= PodsUpTo(config, N) /\ PodsUpTo(config, N) \in Nat
        /\ PodsUpTo(config, N) <= MaxPods /\ MaxPods \in Nat
    <3>1. N \in Roles /\ r <= N /\ N \in Nat
      BY <1>1, ConfigFacts
    <3>2. PodsUpTo(config, N) <= config.quota /\ config.quota \in 1..MaxPods /\ MaxPods \in Nat
      BY <1>1, <1>7, ConfigFacts, ConfigAssumption
    <3>3. /\ a \in Nat /\ b \in Nat /\ b = a + config.replicas[r] /\ b <= PodsUpTo(config, N)
          /\ PodsUpTo(config, N) \in Nat
      BY <1>1, <3>1, UpToFacts
    <3>4. config.replicas[r] \in Nat
      BY <1>1, ConfigFacts
    <3>5. PodsUpTo(config, N) <= MaxPods
      <4> DEFINE t == PodsUpTo(config, N)
                 u == config.quota
      <4>1. t \in Nat /\ t <= u /\ u \in 1..MaxPods /\ MaxPods \in Nat
        BY <3>2, <3>3
      <4> HIDE DEF t, u
      <4>2. t <= MaxPods
        BY <4>1
      <4> QED BY <4>2 DEF t
    <3> QED BY <3>1, <3>2, <3>3, <3>4, <3>5
  <2>2. ASSUME NEW p \in Pods PROVE p \in Listed(pod, r) <=> p \in (a + 1)..b
    <3>1. CASE here(p)
      <4>1. R(p) = r <=> p \in (a + 1)..b
        BY <3>1, <1>1, InitialRole
      <4>2. pod[p] # Gone /\ pod[p].role = R(p)
        <5> HIDE DEF here, R
        <5> QED BY <3>1, <1>3
      <4> HIDE DEF R, a, b
      <4> QED BY <4>1, <4>2 DEF Listed
    <3>2. CASE ~here(p)
      <4>1. pod[p] = Gone
        <5> HIDE DEF here, R
        <5> QED BY <3>2, <1>3
      <4>2. p > PodsUpTo(config, N) /\ p \in Nat
        BY <3>2, <1>7, <2>1 DEF Pods
      <4>3. p \notin (a + 1)..b
        <5> DEFINE t == PodsUpTo(config, N)
        <5>1. t \in Nat /\ b <= t /\ p > t /\ p \in Nat /\ a \in Nat /\ b \in Nat
          BY <4>2, <2>1
        <5> HIDE DEF t, a, b
        <5> QED BY <5>1
      <4> QED BY <4>1, <4>3 DEF Listed
    <3> QED BY <3>1, <3>2
  <2>3. Listed(pod, r) = (a + 1)..b
    <3>1. (a + 1)..b \subseteq Pods
      <4> DEFINE t == PodsUpTo(config, N)
      <4>1. t \in Nat /\ b <= t /\ t <= MaxPods /\ MaxPods \in Nat /\ a \in Nat /\ b \in Nat
        BY <2>1
      <4> HIDE DEF t, a, b
      <4> QED BY <4>1 DEF Pods
    <3>2. Listed(pod, r) \subseteq Pods
      BY FilterFacts
    <3> HIDE DEF a, b
    <3> QED BY <3>1, <3>2, <2>2
  <2>4. Cardinality(Listed(pod, r)) = replicas[r]
    <3> DEFINE k == config.replicas[r]
    <3>1. a \in Nat /\ b \in Nat /\ b = a + k /\ k \in Nat
      BY <2>1
    <3> HIDE DEF a, b, k
    <3>2. a + 1 \in Int /\ b \in Int
      BY <3>1
    <3>3. Cardinality((a + 1)..b) = IF a + 1 > b THEN 0 ELSE b - (a + 1) + 1
      BY <3>2, FS_Interval
    <3>4. Cardinality((a + 1)..b) = k
      BY <3>1, <3>3
    <3> QED BY <3>4, <2>3, <1>1 DEF k
  <2>5. ASSUME NEW p \in Listed(pod, r)
        PROVE  p \in ReadyPods(pod, r) /\ p \in Updated(pod, r) /\ pod[p].drain = "none"
    <3>1. p \in Pods /\ pod[p] # Gone /\ pod[p].role = r /\ target[r] = 1
      BY <1>1 DEF Listed
    <3>2. /\ pod[p].hash = 1 /\ pod[p].ready /\ ~pod[p].failed /\ ~pod[p].dying
          /\ pod[p].drain = "none"
      <4> HIDE DEF here, R
      <4> QED BY <3>1, <1>3
    <3> QED BY <3>1, <3>2 DEF ReadyPods, Updated, Active
  <2>6. Listed(pod, r) = ReadyPods(pod, r) /\ Outdated(pod, r) = {}
    BY <2>5, FilterFacts
  <2> QED BY <2>4, <2>5, <2>6 DEF Quiet, AllReady
<1> QED BY <1>4, <1>5, <1>6, <1>7 DEF PodInv

(* The initial states are well formed. *)
LEMMA InitTypes == Init => TInv
<1> SUFFICES ASSUME Init PROVE TInv
  OBVIOUS
<1>1. PodInv
  BY InitPods
<1>2. SpecOK
  BY ConfigFacts DEF Init, SpecOK, Hashes
<1>3. LoopInv
  <2>1. <<>> \in Seq(Roles)
    OBVIOUS
  <2>2. Idle \in RunType /\ Idle.at = "idle" /\ Idle.todo = <<>>
    BY <2>1 DEF Idle, RunType
  <2> QED BY <2>2 DEF Init, LoopInv
<1>4. config.maxFaults \in Nat /\ config.maxEdits \in Nat
  BY <1>2, ConfigFacts DEF SpecOK
<1>5. PodsOK(cache)
  BY <1>1 DEF Init, PodInv
<1> QED BY <1>1, <1>2, <1>3, <1>4, <1>5 DEF Init, TInv

(* The types hold in every behaviour. *)
LEMMA Types == Spec => []TInv
<1>1. Init => TInv
  BY InitTypes
<1>2. TInv /\ [Next]_vars => TInv'
  BY TypesKept
<1> QED BY <1>1, <1>2, PTL DEF Spec

(* For every RoleSet: the namespace's quota is kept although the cache is  *)
(* stale and calls break off; a pod that has failed or is being deleted is *)
(* never ready; a drain timer runs only for a drain (createPodsInBatch,    *)
(* processPod).                                                            *)
THEOREM TypeCorrect == Spec => []TypeOK
<1>1. TInv => TypeOK
  BY TInvTypes
<1> QED BY <1>1, Types, PTL

-----------------------------------------------------------------------------
(* The availability floor.                                                 *)

(* Scale stops its surplus at the floor, when no pod drains already. *)
LEMMA ScaleFloor ==
  ASSUME SpecOK, NEW r \in Roles, NEW v, NEW c \in Scale(v, r), Draining(v, r) = {}
  PROVE  /\ Cardinality(c.delete \cap ReadyPods(v, r)) \in Nat
         /\ Cardinality(c.delete \cap ReadyPods(v, r)) > 0 =>
              Cardinality(c.delete \cap ReadyPods(v, r))
                <= Cardinality(ReadyPods(v, r)) - replicas[r] + MaxUnavailable(r)
<1>1. PICK S \in SUBSET Active(v, r) :
        /\ c.delete = S \cup Terminated(v, r)
        /\ Cardinality(Active(v, r)) <= replicas[r] => S = {}
        /\ Cardinality(Active(v, r)) > replicas[r] =>
             \E E \in SUBSET Draining(v, r), F \in SUBSET Active(v, r) :
               S = E \cup F /\ Surplus(v, r, E, F)
  BY ScaleFacts
<1>2. /\ Terminated(v, r) \cap ReadyPods(v, r) = {} /\ ReadyPods(v, r) \subseteq Pods
  BY FilterFacts
<1>3. c.delete \cap ReadyPods(v, r) = S \cap ReadyPods(v, r)
  BY <1>1, <1>2
<1>4. /\ Cardinality(S \cap ReadyPods(v, r)) \in Nat /\ replicas[r] \in Nat
      /\ MaxUnavailable(r) \in Nat /\ Cardinality(ReadyPods(v, r)) \in Nat
      /\ Cardinality(Active(v, r)) \in Nat
  BY <1>2, PodsFinite, StrategyFacts, FilterCounts
<1>5. CASE Cardinality(Active(v, r)) <= replicas[r]
  <2>1. S \cap ReadyPods(v, r) = {}
    BY <1>1, <1>5
  <2>2. Cardinality(S \cap ReadyPods(v, r)) = 0
    BY <2>1, FS_EmptySet
  <2> DEFINE g == Cardinality(c.delete \cap ReadyPods(v, r))
  <2>3. g = 0
    BY <2>2, <1>3
  <2> HIDE DEF g
  <2>4. g \in Nat /\ (g > 0 => g <= Cardinality(ReadyPods(v, r)) - replicas[r] + MaxUnavailable(r))
    BY <2>3
  <2> QED BY <2>4 DEF g
<1>6. CASE Cardinality(Active(v, r)) > replicas[r]
  <2>1. PICK E \in SUBSET Draining(v, r), F \in SUBSET Active(v, r) :
          S = E \cup F /\ Surplus(v, r, E, F)
    BY <1>1, <1>6
  <2>2. E = {} /\ S = F
    BY <2>1
  <2> DEFINE k == Cardinality(ReadyPods(v, r)) - Cardinality(E \cap ReadyPods(v, r))
                    - (replicas[r] - MaxUnavailable(r))
             g == Cardinality(F \cap ReadyPods(v, r))
  <2>3. g <= Max({k, 0})
    BY <2>1 DEF Surplus
  <2>4. Cardinality(E \cap ReadyPods(v, r)) = 0
    <3>1. E \cap ReadyPods(v, r) = {}
      BY <2>2
    <3> QED BY <3>1, FS_EmptySet
  <2>5. k = Cardinality(ReadyPods(v, r)) - replicas[r] + MaxUnavailable(r) /\ k \in Int
    BY <2>4, <1>4
  <2>6. g \in Nat
    BY <2>2, <1>4
  <2>7. g > 0 => g <= k
    <3>1. k \in Int /\ g \in Nat /\ g <= Max({k, 0})
      BY <2>3, <2>5, <2>6
    <3> HIDE DEF g, k
    <3>2. Max({k, 0}) = IF k >= 0 THEN k ELSE 0
      BY <3>1, MaxMin
    <3> QED BY <3>1, <3>2
  <2> HIDE DEF g, k
  <2>8. Cardinality(c.delete \cap ReadyPods(v, r)) = g
    BY <1>3, <2>2 DEF g
  <2> QED BY <2>5, <2>6, <2>7, <2>8
<1> QED BY <1>4, <1>5, <1>6

(* The pods a call makes or leaves ready. *)
LEMMA ReadyAfter ==
  ASSUME SpecOK, PodInv, NEW r \in Roles, NEW c, c.reason \in Reasons,
         NEW n, NEW X, NEW Y, Write(cache, r, c, n, X, Y), NEW q
  PROVE  /\ ReadyPods(pod', q) \subseteq ReadyPods(pod, q)
         /\ ReadyPods(pod, q) \ ReadyPods(pod', q) \subseteq Y
<1>1. \A p \in Pods : Written(p, r, n, c, X, Y)
  BY WriteCases
<1>2. PodsOK(pod)
  BY DEF PodInv
<1>3. ASSUME NEW p \in Pods
      PROVE  /\ p \in ReadyPods(pod', q) => p \in ReadyPods(pod, q)
             /\ p \in ReadyPods(pod, q) /\ p \notin ReadyPods(pod', q) => p \in Y
  <2>1. CASE pod'[p] = NewPod(r) /\ pod[p] = Gone
    <3>1. ~pod'[p].ready
      BY <1>2, <2>1, FieldFacts
    <3> QED BY <3>1, <2>1 DEF ReadyPods, Active, Listed
  <2>2. ASSUME NEW x \in Reasons \cup {"none"}, pod'[p] = Annotate(p, x)
        PROVE  p \in ReadyPods(pod', q) <=> p \in ReadyPods(pod, q)
    <3>1. CASE pod[p] = Gone
      <4>1. pod'[p] = Gone
        BY <1>2, <2>2, <3>1, FieldFacts
      <4> QED BY <3>1, <4>1 DEF ReadyPods, Active, Listed
    <3>2. CASE pod[p] # Gone
      <4>1. /\ pod'[p] \in PodType /\ pod'[p].role = pod[p].role /\ pod'[p].ready = pod[p].ready
            /\ pod'[p].failed = pod[p].failed /\ pod'[p].dying = pod[p].dying
        BY <1>2, <2>2, <3>2, FieldFacts
      <4>2. pod'[p] # Gone
        BY <4>1, GoneFacts DEF SpecOK
      <4> QED BY <3>2, <4>1, <4>2 DEF ReadyPods, Active, Listed
    <3> QED BY <3>1, <3>2
  <2>3. ASSUME pod'[p] = Kill(p) PROVE p \notin ReadyPods(pod', q)
    <3>1. pod'[p] = Gone \/ pod'[p].dying
      BY <1>2, <2>3, FieldFacts
    <3> QED BY <3>1 DEF ReadyPods, Active, Listed
  <2>4. ASSUME pod'[p] = pod[p] PROVE p \in ReadyPods(pod', q) <=> p \in ReadyPods(pod, q)
    BY <2>4 DEF ReadyPods, Active, Listed
  <2> QED BY <1>1, <2>1, <2>2, <2>3, <2>4 DEF Written
<1>4. ReadyPods(pod, q) \subseteq Pods /\ ReadyPods(pod', q) \subseteq Pods
  BY FilterFacts
<1> QED BY <1>3, <1>4

(* A call that read a current list keeps the floor of every role. *)
LEMMA CallFloor ==
  ASSUME TInv, NEW r \in Roles, NEW c \in Scale(cache, r) \cup RollChoice(cache, r, run.step),
         Call(r, c), cache = pod, ~config.drain, NEW q \in Roles
  PROVE  \/ Cardinality(ReadyPods(pod', q)) >= replicas[q] - MaxUnavailable(q)
         \/ Cardinality(ReadyPods(pod', q)) = Cardinality(ReadyPods(pod, q))
<1>1. SpecOK /\ PodInv /\ faults \in Nat /\ run.step \in Nat
  <2>1. SpecOK /\ PodInv /\ LoopInv
    BY DEF TInv
  <2>2. faults \in Nat
    BY DEF TInv
  <2>3. run.step \in Nat
    BY <2>1 DEF LoopInv, RunType
  <2> QED BY <2>1, <2>2, <2>3
<1>2. /\ c.create \in Nat /\ c.reason \in Reasons /\ c.delete \subseteq Listed(pod, r)
  BY ChoiceFacts
<1>3. \E n \in 0..c.create, X \in SUBSET c.cancel, Y \in SUBSET c.delete :
              /\ Write(cache, r, c, n, X, Y)
              /\ n > 0 => n <= Room
  BY <1>1, <1>2, CallFacts DEF Call
<1>4. PICK n \in 0..c.create, X \in SUBSET c.cancel, Y \in SUBSET c.delete :
              Write(cache, r, c, n, X, Y)
  BY <1>3
<1> DEFINE A == ReadyPods(pod, q)
           B == ReadyPods(pod', q)
<1>5. B \subseteq A /\ A \ B \subseteq Y /\ A \subseteq Pods
  BY <1>1, <1>2, <1>4, ReadyAfter, FilterFacts
<1>6. CASE q # r
  <2>1. A \cap Listed(pod, r) = {}
    BY <1>6 DEF ReadyPods, Active, Listed
  <2>2. A = B
    BY <2>1, <1>2, <1>5
  <2> QED BY <2>2
<1>7. CASE q = r
  <2> DEFINE T == c.delete \cap ReadyPods(pod, r)
  <2>1. Draining(pod, r) = {}
    BY <1>1 DEF PodInv, Flags, Draining, Active, Listed
  <2>2. /\ Cardinality(T) \in Nat
        /\ Cardinality(T) > 0 =>
             Cardinality(T) <= Cardinality(ReadyPods(pod, r)) - replicas[r] + MaxUnavailable(r)
    <3>1. CASE c \in Scale(cache, r)
      BY <1>1, <2>1, <3>1, ScaleFloor
    <3>2. CASE c \in RollChoice(cache, r, run.step)
      BY <1>1, <3>2, RollBasics
    <3> QED BY <3>1, <3>2
  <2>3. A \ B \subseteq T /\ T \subseteq Pods /\ A \ B \subseteq Pods
    BY <1>4, <1>5, <1>7
  <2>4. /\ Cardinality(A \ B) <= Cardinality(T) /\ Cardinality(A \ B) \in Nat
        /\ Cardinality(A \ B) = Cardinality(A) - Cardinality(B)
        /\ Cardinality(A) \in Nat /\ Cardinality(B) \in Nat
    <3> HIDE DEF A, B, T
    <3>1. B \subseteq Pods
      BY <1>5
    <3> QED BY <2>3, <3>1, <1>5, PodsCount, PodsFinite
  <2>5. replicas[r] \in Nat /\ MaxUnavailable(r) \in Nat
    BY <1>1, StrategyFacts
  <2> DEFINE a == Cardinality(A)
             b == Cardinality(B)
             t == Cardinality(T)
             f == replicas[r]
             m == MaxUnavailable(r)
  <2>6. /\ t \in Nat /\ (t > 0 => t <= a - f + m) /\ a \in Nat /\ b \in Nat
        /\ a - b <= t /\ a - b \in Nat /\ f \in Nat /\ m \in Nat
    BY <2>2, <2>4, <2>5, <1>7
  <2> HIDE DEF a, b, t, f, m
  <2>7. b >= f - m \/ b = a
    BY <2>6
  <2> QED BY <2>7, <1>7 DEF a, b, f, m
<1> QED BY <1>6, <1>7

(* The body of FloorKept holds of every step. *)
LEMMA FloorStep ==
  ASSUME TInv, NEW q \in Roles, ScaleRole \/ RollRole, cache = pod, ~config.drain
  PROVE  \/ Cardinality(ReadyPods(pod', q)) >= replicas[q] - MaxUnavailable(q)
         \/ Cardinality(ReadyPods(pod', q)) = Cardinality(ReadyPods(pod, q))
<1> DEFINE r == Head(run.todo)
<1>1. run.at \in {"scale", "roll"} /\ LoopInv
  BY DEF ScaleRole, RollRole, TInv
<1>2. r \in Roles
  BY <1>1, HeadFacts
<1>3. \E c \in Scale(cache, r) \cup RollChoice(cache, r, run.step) : Call(r, c)
  <2>1. CASE ScaleRole
    <3>1. \E c \in Scale(cache, r) : Call(r, c)
      BY <2>1 DEF ScaleRole, Call
    <3> QED BY <3>1
  <2>2. CASE RollRole
    <3>1. \E c \in RollChoice(cache, r, run.step) : Call(r, c)
      BY <2>2 DEF RollRole, RollChoice, Call
    <3> QED BY <3>1
  <2> QED BY <2>1, <2>2
<1> QED BY <1>2, <1>3, CallFloor

(* For every RoleSet without a drain, every surge, maxUnavailable and      *)
(* number of replicas: scaling, recreating and stepping, whole or cut      *)
(* short, never take a ready pod that the floor needs ("Stop at the        *)
(* availability floor", rolesyncer.go), as long as the list was current.   *)
THEOREM FloorIsKept == Spec => FloorKept
<1>1. TInv /\ [Next]_vars =>
        [\A r \in Roles :
           (ScaleRole \/ RollRole) /\ cache = pod /\ ~config.drain
             => \/ Cardinality(ReadyPods(pod', r)) >= replicas[r] - MaxUnavailable(r)
                \/ Cardinality(ReadyPods(pod', r)) = Cardinality(ReadyPods(pod, r))]_vars
  BY FloorStep
<1> QED BY <1>1, Types, PTL DEF Spec, FloorKept

-----------------------------------------------------------------------------
(* Steps without faults.                                                   *)

(* Every replica wanted is ready, and there is no other pod. *)
Whole(v, r) == /\ Listed(v, r) = ReadyPods(v, r)
               /\ Cardinality(Listed(v, r)) = replicas[r]
(* A role the update has not come to. *)
Untouched(v, r) == Whole(v, r) /\ Updated(v, r) = {}

(* The filters tell no difference between v and w. *)
Same(v, w, r) ==
  /\ Listed(w, r) = Listed(v, r)
  /\ \A p \in Listed(v, r) : /\ w[p].hash = v[p].hash /\ w[p].ready = v[p].ready
                             /\ w[p].failed = v[p].failed /\ w[p].dying = v[p].dying

(* They then select the same pods. *)
LEMMA SameFilters ==
  ASSUME NEW v, NEW w, NEW r, Same(v, w, r)
  PROVE  /\ Active(w, r) = Active(v, r) /\ ReadyPods(w, r) = ReadyPods(v, r)
         /\ Updated(w, r) = Updated(v, r) /\ Outdated(w, r) = Outdated(v, r)
         /\ Whole(v, r) => Whole(w, r)
         /\ AllReady(v, r) => AllReady(w, r)
         /\ Untouched(v, r) => Untouched(w, r)
<1>1. Listed(w, r) = Listed(v, r)
  BY DEF Same
<1>2. Active(w, r) = Active(v, r)
  BY <1>1 DEF Same, Active
<1>3. \A p \in Active(v, r) : w[p].hash = v[p].hash /\ w[p].ready = v[p].ready
  BY FilterFacts DEF Same
<1>4. ReadyPods(w, r) = ReadyPods(v, r) /\ Updated(w, r) = Updated(v, r)
  BY <1>2, <1>3 DEF ReadyPods, Updated
<1>5. Outdated(w, r) = Outdated(v, r)
  BY <1>2, <1>4 DEF Outdated
<1> QED BY <1>1, <1>2, <1>4, <1>5 DEF Whole, AllReady, Untouched

(* A role with all its pods ready, in terms of Whole. *)
LEMMA WholeFacts ==
  ASSUME NEW v, NEW r
  PROVE  /\ AllReady(v, r) <=> Whole(v, r) /\ Outdated(v, r) = {}
         /\ Whole(v, r) => /\ Active(v, r) = Listed(v, r) /\ Terminated(v, r) = {}
                           /\ Cardinality(Active(v, r)) = replicas[r]
         /\ AllReady(v, r) => Cardinality(Updated(v, r)) = replicas[r]
<1>1. Whole(v, r) => Active(v, r) = Listed(v, r) /\ Terminated(v, r) = {}
  BY FilterFacts DEF Whole
<1>2. AllReady(v, r) <=> Whole(v, r) /\ Outdated(v, r) = {}
  BY DEF AllReady, Whole
<1>3. AllReady(v, r) => Updated(v, r) = Listed(v, r)
  BY <1>1, <1>2, FilterFacts
<1>4. AllReady(v, r) => Cardinality(Updated(v, r)) = replicas[r]
  BY <1>2, <1>3 DEF Whole
<1> QED BY <1>1, <1>2, <1>4 DEF Whole

(* Scale leaves such a role alone, but for drains that are off. *)
LEMMA WholeScale ==
  ASSUME SpecOK, NEW r \in Roles, NEW v, NEW c \in Scale(v, r), Whole(v, r)
  PROVE  /\ c.create = 0 /\ c.delete = {}
         /\ (\A p \in Listed(v, r) : v[p].drain = "none") => c.cancel = {}
<1>1. /\ Active(v, r) = Listed(v, r) /\ Terminated(v, r) = {}
      /\ Cardinality(Active(v, r)) = replicas[r] /\ replicas[r] \in Nat
  BY WholeFacts, StrategyFacts
<1>2. c.create \in Nat /\ (c.create > 0 => Cardinality(Active(v, r)) + c.create <= replicas[r])
  BY ScaleFacts
<1>3. c.create = 0
  BY <1>1, <1>2
<1>4. PICK S \in SUBSET Active(v, r) :
        /\ c.delete = S \cup Terminated(v, r)
        /\ c.cancel = CancelledDrains(v, r, S)
        /\ Cardinality(Active(v, r)) <= replicas[r] => S = {}
  BY ScaleFacts
<1>5. S = {} /\ c.delete = {}
  BY <1>1, <1>4
<1>6. (\A p \in Listed(v, r) : v[p].drain = "none") => c.cancel = {}
  BY <1>1, <1>4 DEF CancelledDrains
<1> QED BY <1>3, <1>5, <1>6

(* So do the rolling managers with a role that is up to date. *)
LEMMA ReadyRoll ==
  ASSUME SpecOK, NEW r \in Roles, NEW v, NEW n \in Nat, NEW c \in RollChoice(v, r, n),
         AllReady(v, r)
  PROVE  c.create = 0 /\ c.delete = {} /\ c.cancel = {}
<1>1. /\ c.create \in Nat /\ c.cancel = {} /\ c.delete \subseteq Outdated(v, r)
      /\ c.create > 0 => Cardinality(Updated(v, r)) + c.create <= replicas[r]
  BY RollBasics
<1>2. Outdated(v, r) = {} /\ Cardinality(Updated(v, r)) = replicas[r] /\ replicas[r] \in Nat
  BY WholeFacts, StrategyFacts
<1> QED BY <1>1, <1>2

(* A call touches the pods of one role, and those only if it creates or    *)
(* deletes.                                                                *)
LEMMA CallSame ==
  ASSUME TInv, NEW r \in Roles, NEW c \in Scale(cache, r) \cup RollChoice(cache, r, run.step),
         Call(r, c), cache = pod
  PROVE  /\ \A q \in Roles : q # r => Same(pod, pod', q)
         /\ c.create = 0 /\ c.delete = {} => Same(pod, pod', r)
         /\ c.create = 0 /\ c.delete = {} /\ c.cancel = {} => pod' = pod
<1>1. SpecOK /\ PodInv /\ faults \in Nat /\ PodsOK(pod)
  BY DEF TInv, PodInv
<1>2. /\ c.create \in Nat /\ c.reason \in Reasons
      /\ c.cancel \subseteq Listed(pod, r) /\ c.delete \subseteq Listed(pod, r)
  BY ChoiceFacts, FilterFacts
<1>3. \E n \in 0..c.create, X \in SUBSET c.cancel, Y \in SUBSET c.delete :
              /\ Write(cache, r, c, n, X, Y)
              /\ n > 0 => n <= Room
  BY <1>1, <1>2, CallFacts DEF Call
<1>4. PICK n \in 0..c.create, X \in SUBSET c.cancel, Y \in SUBSET c.delete :
              Write(cache, r, c, n, X, Y)
  BY <1>3
<1>5. /\ pod' = [p \in Pods |-> pod'[p]]
      /\ \A p \in Pods : Written(p, r, n, c, X, Y)
  BY <1>4, WriteCases
<1>6. c.create = 0 => Fresh(n) = {}
  <2> SUFFICES ASSUME c.create = 0 PROVE Fresh(n) = {}
    OBVIOUS
  <2>1. n = 0
    OBVIOUS
  <2> QED BY <2>1, FreshFacts
<1>7. ASSUME c.create = 0, c.delete = {}, c.cancel = {} PROVE pod' = pod
  <2>1. \A p \in Pods : pod'[p] = pod[p]
    BY <1>4, <1>5, <1>6, <1>7 DEF Written
  <2>2. pod = [p \in Pods |-> pod[p]]
    BY <1>1 DEF PodsOK
  <2> QED BY <1>5, <2>1, <2>2
<1>8. ASSUME NEW p \in Pods, NEW x \in Reasons \cup {"none"}, pod'[p] = Annotate(p, x)
      PROVE  /\ pod'[p] = Gone <=> pod[p] = Gone
             /\ pod[p] # Gone => /\ pod'[p].role = pod[p].role /\ pod'[p].hash = pod[p].hash
                                 /\ pod'[p].ready = pod[p].ready /\ pod'[p].failed = pod[p].failed
                                 /\ pod'[p].dying = pod[p].dying
  <2>1. CASE pod[p] = Gone
    BY <1>1, <1>8, <2>1, FieldFacts
  <2>2. CASE pod[p] # Gone
    <3>1. /\ pod'[p] \in PodType /\ pod'[p].role = pod[p].role /\ pod'[p].hash = pod[p].hash
          /\ pod'[p].ready = pod[p].ready /\ pod'[p].failed = pod[p].failed
          /\ pod'[p].dying = pod[p].dying
      BY <1>1, <1>8, <2>2, FieldFacts
    <3>2. pod'[p] # Gone
      BY <1>1, <3>1, GoneFacts DEF SpecOK
    <3> QED BY <2>2, <3>1, <3>2
  <2> QED BY <2>1, <2>2
<1>9. ASSUME NEW q \in Roles, q # r PROVE Same(pod, pod', q)
  <2>1. ASSUME NEW p \in Pods
        PROVE  /\ p \in Listed(pod', q) <=> p \in Listed(pod, q)
               /\ p \in Listed(pod, q) => pod'[p] = pod[p]
    <3>1. CASE pod'[p] = pod[p]
      BY <3>1 DEF Listed
    <3>2. CASE pod[p] = Gone /\ pod'[p] = NewPod(r)
      <4>1. NewPod(r).role = r
        BY <1>1, FieldFacts
      <4> QED BY <1>9, <3>2, <4>1 DEF Listed
    <3>3. CASE p \in Listed(pod, r) /\ pod'[p] = Kill(p)
      <4>1. Kill(p).role = r
        BY <1>1, <3>3, FieldFacts DEF Listed
      <4> QED BY <1>9, <3>3, <4>1 DEF Listed
    <3>4. ASSUME p \in Listed(pod, r), NEW x \in Reasons \cup {"none"}, pod'[p] = Annotate(p, x)
          PROVE  p \notin Listed(pod', q) /\ p \notin Listed(pod, q)
      <4>1. pod'[p].role = r /\ pod[p].role = r
        BY <1>8, <3>4 DEF Listed
      <4> QED BY <1>9, <4>1 DEF Listed
    <3> QED BY <1>2, <1>4, <1>5, <3>1, <3>2, <3>3, <3>4 DEF Written
  <2>2. Listed(pod', q) \subseteq Pods /\ Listed(pod, q) \subseteq Pods
    BY FilterFacts
  <2> QED BY <2>1, <2>2 DEF Same
<1>10. ASSUME c.create = 0, c.delete = {} PROVE Same(pod, pod', r)
  <2>1. ASSUME NEW p \in Pods
        PROVE  /\ p \in Listed(pod', r) <=> p \in Listed(pod, r)
               /\ p \in Listed(pod, r) =>
                    /\ pod'[p].hash = pod[p].hash /\ pod'[p].ready = pod[p].ready
                    /\ pod'[p].failed = pod[p].failed /\ pod'[p].dying = pod[p].dying
    <3>1. CASE pod'[p] = pod[p]
      BY <3>1 DEF Listed
    <3>2. CASE pod'[p] = Annotate(p, "none")
      BY <1>8, <3>2 DEF Listed
    <3> QED BY <1>4, <1>5, <1>6, <1>10, <3>1, <3>2 DEF Written
  <2>2. Listed(pod', r) \subseteq Pods /\ Listed(pod, r) \subseteq Pods
    BY FilterFacts
  <2> QED BY <2>1, <2>2 DEF Same
<1> QED BY <1>7, <1>9, <1>10

(* A step that no fault is part of, by what it does to the spec and to the *)
(* pods.                                                                   *)
PodStep(p) == PodReady(p) \/ PodGone(p) \/ DrainTimeout(p)
Still == /\ Begin \/ Plan \/ UpdateStatus \/ Sync \/ UNCHANGED vars
         /\ pod' = pod /\ cache' \in {cache, pod}
Calm == \/ Still
        \/ ScaleRole /\ cache = pod
        \/ RollRole /\ cache = pod
        \/ \E p \in Pods : PodStep(p)

(* Without a fault every call decides on a current list. *)
LEMMA CalmSteps ==
  ASSUME TInv, [Next]_vars, faults' = 0
  PROVE  /\ faults = 0 /\ config' = config
         /\ \/ UpdateTemplate
            \/ \E r \in Roles, n \in config.sizes : Resize(r, n)
            \/ UNCHANGED <<replicas, target, edits>> /\ Calm
<1>1. faults \in Nat /\ LoopInv
  BY DEF TInv
<1>2. CASE Begin \/ Plan \/ Sync \/ UNCHANGED vars
  BY <1>2 DEF Begin, Plan, Sync, ControlPlane, vars, Calm, Still
<1>3. CASE UpdateStatus
  <2>1. faults' \in {faults, faults + 1}
    BY <1>3 DEF UpdateStatus
  <2> QED BY <1>1, <1>3, <2>1 DEF UpdateStatus, Calm, Still
<1>4. CASE Crash
  BY <1>1, <1>4 DEF Crash
<1>5. CASE UpdateTemplate
  BY <1>5 DEF UpdateTemplate
<1>6. CASE \E r \in Roles, n \in config.sizes : Resize(r, n)
  BY <1>6 DEF Resize
<1>7. ASSUME NEW p \in Pods, PodBreaks(p) PROVE FALSE
  BY <1>1, <1>7 DEF PodBreaks
<1>8. ASSUME NEW p \in Pods, PodStep(p)
      PROVE  faults = 0 /\ config' = config /\ UNCHANGED <<replicas, target, edits>> /\ Calm
  BY <1>8 DEF PodStep, PodReady, PodGone, DrainTimeout, ControlPlane, Calm
<1>9. ASSUME ScaleRole \/ RollRole PROVE faults = 0 /\ cache = pod
  <2> DEFINE r == Head(run.todo)
  <2>1. r \in Roles
    BY <1>1, <1>9, HeadFacts DEF ScaleRole, RollRole
  <2>2. \E c \in Scale(cache, r) \cup RollChoice(cache, r, run.step) : Call(r, c)
    <3>1. CASE ScaleRole
      <4>1. \E c \in Scale(cache, r) : Call(r, c)
        BY <3>1 DEF ScaleRole, Call
      <4> QED BY <4>1
    <3>2. CASE RollRole
      <4>1. \E c \in RollChoice(cache, r, run.step) : Call(r, c)
        BY <3>2 DEF RollRole, RollChoice, Call
      <4> QED BY <4>1
    <3> QED BY <1>9, <3>1, <3>2
  <2>3. PICK c \in Scale(cache, r) \cup RollChoice(cache, r, run.step) : Call(r, c)
    BY <2>2
  <2>4. c.create \in Nat
    BY <2>1, ChoiceFacts
  <2> QED BY <1>1, <2>3, <2>4, CallFacts DEF Call, TInv
<1>10. CASE ScaleRole
  BY <1>9, <1>10 DEF ScaleRole, Calm
<1>11. CASE RollRole
  BY <1>9, <1>11 DEF RollRole, Calm
<1> QED BY <1>2, <1>3, <1>4, <1>5, <1>6, <1>7, <1>8, <1>10, <1>11 DEF Next, PodStep

(* What a kubelet or the clock does is to a pod that is not ready, or      *)
(* changes only its drain.                                                 *)
LEMMA PodStepSame ==
  ASSUME TInv, NEW p \in Pods, PodStep(p)
  PROVE  /\ pod[p] # Gone /\ pod[p].role \in Roles
         /\ \A q \in Roles : q # pod[p].role => Same(pod, pod', q)
         /\ Same(pod, pod', pod[p].role) \/ ~Whole(pod, pod[p].role)
         /\ pod[p].drain # "none" \/ ~Whole(pod, pod[p].role)
<1>1. PodsOK(pod) /\ SpecOK
  BY DEF TInv, PodInv
<1>2. pod[p] # Gone
  BY DEF PodStep, PodReady, PodGone, DrainTimeout, Live
<1>3. pod[p] \in PodType /\ pod[p].role \in Roles
  BY <1>1, <1>2 DEF PodsOK, PodType
<1>4. \A s \in Pods : s # p => pod'[s] = pod[s]
  BY <1>1 DEF PodsOK, PodStep, PodReady, PodGone, DrainTimeout
<1>5. pod'[p] = Gone \/ pod'[p].role = pod[p].role
  BY <1>1, <1>3 DEF PodsOK, PodType, PodStep, PodReady, PodGone, DrainTimeout
<1>6. ASSUME NEW q \in Roles, q # pod[p].role PROVE Same(pod, pod', q)
  <2>1. \A s \in Pods : s \in Listed(pod', q) <=> s \in Listed(pod, q)
    BY <1>4, <1>5, <1>6 DEF Listed
  <2>2. p \notin Listed(pod, q)
    BY <1>6 DEF Listed
  <2> QED BY <1>4, <2>1, <2>2, FilterFacts DEF Same
<1>7. CASE PodReady(p) \/ PodGone(p)
  <2>1. p \in Listed(pod, pod[p].role) /\ p \notin ReadyPods(pod, pod[p].role)
    BY <1>2, <1>7 DEF Listed, ReadyPods, Active, PodReady, PodGone
  <2>2. ~Whole(pod, pod[p].role)
    BY <2>1 DEF Whole
  <2> QED BY <1>2, <1>3, <1>6, <2>2
<1>8. CASE DrainTimeout(p)
  <2>1. /\ pod'[p] \in PodType /\ pod'[p].role = pod[p].role /\ pod'[p].hash = pod[p].hash
        /\ pod'[p].ready = pod[p].ready /\ pod'[p].failed = pod[p].failed
        /\ pod'[p].dying = pod[p].dying /\ pod[p].drain # "none"
    BY <1>1, <1>3, <1>8 DEF PodsOK, PodType, DrainTimeout
  <2>2. pod'[p] # Gone
    BY <1>1, <2>1, GoneFacts DEF SpecOK
  <2>3. \A s \in Pods : s \in Listed(pod', pod[p].role) <=> s \in Listed(pod, pod[p].role)
    BY <1>2, <1>4, <2>1, <2>2 DEF Listed
  <2>4. Same(pod, pod', pod[p].role)
    BY <1>4, <2>1, <2>3, FilterFacts DEF Same
  <2> QED BY <1>2, <1>3, <1>6, <2>1, <2>4
<1> QED BY <1>7, <1>8 DEF PodStep

(* A RoleSet that was up stays as it is until its user edits it. *)
UpInv ==
  config.settled /\ faults = 0 /\ edits = 0 =>
    replicas = config.replicas /\ cache = pod /\ \A r \in Roles : Quiet(r)

(* Nothing but an edit makes work. *)
LEMMA UpKept ==
  ASSUME TInv, UpInv, [Next]_vars
  PROVE  UpInv'
<1> SUFFICES ASSUME config'.settled, faults' = 0, edits' = 0
             PROVE  /\ replicas' = config'.replicas /\ cache' = pod'
                    /\ (\A r \in Roles : Quiet(r))'
  BY DEF UpInv
<1>1. /\ faults = 0 /\ config' = config
      /\ \/ UpdateTemplate
         \/ \E r \in Roles, n \in config.sizes : Resize(r, n)
         \/ UNCHANGED <<replicas, target, edits>> /\ Calm
  BY CalmSteps
<1>2. edits \in Nat /\ SpecOK /\ LoopInv /\ run.step \in Nat
  BY DEF TInv, LoopInv, RunType
<1>3. ~UpdateTemplate /\ ~\E r \in Roles, n \in config.sizes : Resize(r, n)
  BY <1>2 DEF UpdateTemplate, Resize
<1>4. UNCHANGED <<replicas, target, edits>> /\ Calm
  BY <1>1, <1>3
<1>5. replicas = config.replicas /\ cache = pod /\ \A r \in Roles : Quiet(r)
  BY <1>1, <1>4 DEF UpInv
<1>6. ASSUME NEW r \in Roles
      PROVE  /\ AllReady(cache, r) /\ Whole(cache, r)
             /\ \A p \in Listed(cache, r) : cache[p].drain = "none"
  BY <1>5, WholeFacts DEF Quiet
<1>7. pod' = pod /\ cache' = pod
  <2>1. CASE Still
    BY <1>5, <2>1 DEF Still
  <2>2. CASE ScaleRole
    <3> DEFINE r == Head(run.todo)
    <3>1. r \in Roles
      BY <1>2, <2>2, HeadFacts DEF ScaleRole
    <3>2. PICK c \in Scale(cache, r) : Call(r, c)
      BY <2>2 DEF ScaleRole, Call
    <3>3. c.create = 0 /\ c.delete = {} /\ c.cancel = {}
      BY <1>2, <1>6, <3>1, WholeScale
    <3>4. pod' = pod
      BY <1>5, <3>1, <3>2, <3>3, CallSame
    <3> QED BY <1>5, <2>2, <3>4 DEF ScaleRole, Watch
  <2>3. CASE RollRole
    <3> DEFINE r == Head(run.todo)
    <3>1. r \in Roles
      BY <1>2, <2>3, HeadFacts DEF RollRole
    <3>2. PICK c \in RollChoice(cache, r, run.step) : Call(r, c)
      BY <2>3 DEF RollRole, RollChoice, Call
    <3>3. c.create = 0 /\ c.delete = {} /\ c.cancel = {}
      BY <1>2, <1>6, <3>1, ReadyRoll
    <3>4. pod' = pod
      BY <1>5, <3>1, <3>2, <3>3, CallSame
    <3> QED BY <1>5, <2>3, <3>4 DEF RollRole, Watch
  <2>4. ASSUME NEW p \in Pods, PodStep(p) PROVE FALSE
    <3>1. /\ pod[p] # Gone /\ pod[p].role \in Roles
          /\ pod[p].drain # "none" \/ ~Whole(pod, pod[p].role)
      BY <2>4, PodStepSame
    <3>2. p \in Listed(pod, pod[p].role)
      BY <3>1 DEF Listed
    <3> QED BY <1>5, <1>6, <3>1, <3>2
  <2> QED BY <1>4, <2>1, <2>2, <2>3, <2>4 DEF Calm
<1>8. (\A r \in Roles : Quiet(r))'
  BY <1>1, <1>4, <1>5, <1>7
     DEF Quiet, AllReady, Roles, Listed, ReadyPods, Active, Outdated, Updated
<1> QED BY <1>1, <1>4, <1>5, <1>7, <1>8

-----------------------------------------------------------------------------
(* Sequential: the order of roles.                                         *)

(* Of two roles, the earlier is finished or the later is untouched. *)
Turn(v) ==
  \A i, j \in Roles : i < j =>
    AllReady(v, UpgradeOrder[i]) \/ Untouched(v, UpgradeOrder[j])

(* A step may touch one role, if those before it are finished. *)
LEMMA TurnKept ==
  ASSUME config \in Configs, NEW v, NEW w, NEW q \in Roles, Turn(v),
         \A s \in Roles : s # q => Same(v, w, s),
         AllReady(v, q) => Same(v, w, q),
         Same(v, w, q) \/ \A i, j \in Roles :
                            i < j /\ UpgradeOrder[j] = q => AllReady(v, UpgradeOrder[i])
  PROVE  Turn(w)
<1> SUFFICES ASSUME NEW i \in Roles, NEW j \in Roles, i < j
             PROVE  AllReady(w, UpgradeOrder[i]) \/ Untouched(w, UpgradeOrder[j])
  BY DEF Turn
<1> DEFINE a == UpgradeOrder[i]
           b == UpgradeOrder[j]
<1>1. i # j
  <2>1. i \in Int /\ j \in Int
    BY ConfigFacts
  <2> QED BY <2>1
<1>2. a \in Roles /\ b \in Roles /\ a # b
  BY <1>1, OrderFacts
<1>3. AllReady(v, a) \/ Untouched(v, b)
  BY DEF Turn
<1>4. AllReady(v, a) => AllReady(w, a)
  BY <1>2, SameFilters
<1>5. CASE AllReady(v, a)
  BY <1>4, <1>5
<1>6. CASE ~AllReady(v, a)
  <2>1. Same(v, w, b)
    BY <1>2, <1>6
  <2> QED BY <1>3, <1>6, <2>1, SameFilters
<1> QED BY <1>5, <1>6

(* Its value after a step that leaves the spec alone. *)
LEMMA TurnNext ==
  ASSUME UNCHANGED <<config, replicas, target>>
  PROVE  /\ Roles' = Roles /\ UpgradeOrder' = UpgradeOrder
         /\ \A q : AllReady(pod, q)' <=> AllReady(pod', q)
         /\ Turn(pod') => Turn(pod)'
<1>1. Roles' = Roles
  BY DEF Roles
<1>2. UpgradeOrder' = UpgradeOrder
  BY <1>1 DEF UpgradeOrder, Before, Less
<1>3. \A q : AllReady(pod, q)' <=> AllReady(pod', q)
  BY DEF AllReady, Listed, ReadyPods, Active, Outdated, Updated
<1>4. \A q : Untouched(pod, q)' <=> Untouched(pod', q)
  BY DEF Untouched, Whole, Listed, ReadyPods, Active, Updated
<1>5. Turn(pod') => Turn(pod)'
  BY <1>1, <1>2, <1>3, <1>4 DEF Turn
<1> QED BY <1>1, <1>2, <1>3, <1>5

(* The manager goes through the order and has come to its k-th role. *)
Rolling ==
  run.at = "roll" =>
    \E k \in Roles :
      /\ Len(run.todo) = Len(config.replicas) - k + 1
      /\ \A m \in 1..Len(run.todo) : run.todo[m] = UpgradeOrder[k + m - 1]
      /\ \A i \in Roles : i < k => AllReady(pod, UpgradeOrder[i])

OrderInv ==
  PlainRollout /\ config.strategy = "Sequential" => Turn(pod) /\ Rolling

(* The update comes to a RoleSet that is up. *)
LEMMA OrderBegins ==
  ASSUME TInv, UpInv, UpdateTemplate, PlainRollout'
  PROVE  Turn(pod)' /\ Rolling'
<1>1. /\ SpecOK /\ edits \in Nat
  BY DEF TInv
<1>2. /\ UNCHANGED <<config, replicas, pod, run, faults>> /\ edits' = edits + 1
      /\ target' = [r \in Roles |-> CHOOSE h \in Hashes : h # target[r]]
      /\ run.at = "idle"
  BY DEF UpdateTemplate
<1>3. \A r \in Roles : Quiet(r)
  BY <1>1, <1>2 DEF PlainRollout, UpInv
<1>4. ASSUME NEW r \in Roles PROVE Untouched(pod, r)'
  <2>1. target'[r] # target[r]
    <3>1. \E h \in Hashes : h # target[r]
      BY DEF Hashes
    <3> QED BY <1>2, <3>1
  <2>2. Outdated(pod, r) = {} /\ Whole(pod, r)
    BY <1>3, WholeFacts DEF Quiet
  <2>3. \A p \in Active(pod, r) : pod[p].hash = target[r]
    BY <2>2 DEF Outdated, Updated
  <2>4. Updated(pod, r)' = {}
    BY <1>2, <2>1, <2>3 DEF Updated, Active, Listed
  <2>5. Whole(pod, r)'
    BY <1>2, <2>2 DEF Whole, Listed, ReadyPods, Active
  <2> QED BY <2>4, <2>5 DEF Untouched
<1>5. Roles' = Roles /\ UpgradeOrder' = UpgradeOrder
  <2>1. Roles' = Roles
    BY <1>2 DEF Roles
  <2> QED BY <1>2, <2>1 DEF UpgradeOrder, Before, Less
<1>6. \A j \in Roles : UpgradeOrder[j] \in Roles
  BY <1>1, OrderFacts DEF SpecOK
<1>7. Turn(pod)'
  BY <1>4, <1>5, <1>6 DEF Turn
<1>8. Rolling'
  BY <1>2 DEF Rolling
<1> QED BY <1>7, <1>8

(* Scaling, kubelets and the clock touch no role that is whole. *)
LEMMA WholeUntouched ==
  ASSUME TInv, (ScaleRole /\ cache = pod) \/ \E p \in Pods : PodStep(p)
  PROVE  \E q \in Roles : /\ \A s \in Roles : s # q => Same(pod, pod', s)
                          /\ Same(pod, pod', q) \/ ~Whole(pod, q)
<1>1. CASE \E p \in Pods : PodStep(p)
  BY <1>1, PodStepSame
<1>2. CASE ScaleRole /\ cache = pod
  <2> DEFINE r == Head(run.todo)
  <2>1. SpecOK /\ r \in Roles
    BY <1>2, HeadFacts DEF ScaleRole, TInv
  <2>2. PICK c \in Scale(cache, r) : Call(r, c)
    BY <1>2 DEF ScaleRole, Call
  <2>3. /\ \A s \in Roles : s # r => Same(pod, pod', s)
        /\ c.create = 0 /\ c.delete = {} => Same(pod, pod', r)
    BY <1>2, <2>1, <2>2, CallSame
  <2>4. Whole(pod, r) => c.create = 0 /\ c.delete = {}
    BY <1>2, <2>1, <2>2, WholeScale
  <2>5. Same(pod, pod', r) \/ ~Whole(pod, r)
    BY <2>3, <2>4
  <2> QED BY <2>1, <2>3, <2>5
<1> QED BY <1>1, <1>2

(* Such a step keeps the order, and the roles that are finished. *)
LEMMA OrderWaits ==
  ASSUME TInv, Turn(pod), (ScaleRole /\ cache = pod) \/ \E p \in Pods : PodStep(p)
  PROVE  /\ Turn(pod')
         /\ \A s \in Roles : AllReady(pod, s) => AllReady(pod', s)
<1>1. PICK q \in Roles : /\ \A s \in Roles : s # q => Same(pod, pod', s)
                         /\ Same(pod, pod', q) \/ ~Whole(pod, q)
  BY WholeUntouched
<1>2. AllReady(pod, q) => Same(pod, pod', q)
  BY <1>1, WholeFacts
<1>3. ASSUME ~Whole(pod, q)
      PROVE  \A i, j \in Roles : i < j /\ UpgradeOrder[j] = q => AllReady(pod, UpgradeOrder[i])
  BY <1>3 DEF Turn, Untouched
<1>4. config \in Configs
  BY DEF TInv, SpecOK
<1>5. Turn(pod')
  BY <1>1, <1>2, <1>3, <1>4, TurnKept
<1>6. \A s \in Roles : AllReady(pod, s) => AllReady(pod', s)
  BY <1>1, <1>2, SameFilters
<1> QED BY <1>5, <1>6

(* The manager rolls one role, and goes on when that one is finished. *)
LEMMA OrderGoes ==
  ASSUME TInv, Turn(pod), Rolling, RollRole, cache = pod, config.strategy = "Sequential"
  PROVE  Turn(pod)' /\ Rolling'
<1> DEFINE r == Head(run.todo)
           todo == RolesLeft(r)
           L == Len(config.replicas)
<1>1. /\ SpecOK /\ config \in Configs /\ run \in RunType /\ run.step \in Nat
      /\ run.at = "roll" /\ LoopInv
  BY DEF TInv, SpecOK, RollRole, LoopInv, RunType
<1>2. /\ run.todo \in Seq(Roles) /\ Len(run.todo) \in Nat /\ Len(run.todo) >= 1
      /\ r \in Roles /\ r = run.todo[1]
      /\ Tail(run.todo) \in Seq(Roles) /\ Len(Tail(run.todo)) = Len(run.todo) - 1
      /\ Tail(run.todo) = <<>> <=> Len(run.todo) = 1
      /\ \A i \in 1..(Len(run.todo) - 1) : Tail(run.todo)[i] = run.todo[i + 1]
  BY <1>1, HeadFacts
<1>3. PICK c \in RollChoice(cache, r, run.step) :
        \/ /\ Succeed(cache, r, c)
           /\ run' = [run EXCEPT
                !.todo = todo,
                !.requeue = run.requeue \/ Requeues(cache, c),
                !.at = IF todo = <<>> THEN "status" ELSE "roll"]
        \/ Break(cache, r, c) /\ Failed
  BY DEF RollRole, RollChoice
<1>4. UNCHANGED <<config, replicas, target>>
  BY DEF RollRole
<1>5. /\ Roles' = Roles /\ UpgradeOrder' = UpgradeOrder
      /\ \A q : AllReady(pod, q)' <=> AllReady(pod', q)
      /\ Turn(pod') => Turn(pod)'
  BY <1>4, TurnNext
<1>6. PICK k \in Roles :
      /\ Len(run.todo) = L - k + 1
      /\ \A m \in 1..Len(run.todo) : run.todo[m] = UpgradeOrder[k + m - 1]
      /\ \A i \in Roles : i < k => AllReady(pod, UpgradeOrder[i])
  BY <1>1 DEF Rolling
<1>7. L \in Nat /\ Roles = 1..L /\ k \in Nat
  BY <1>1, ConfigFacts
<1>8. r = UpgradeOrder[k]
  <2>1. 1 \in 1..Len(run.todo) /\ k + 1 - 1 = k
    BY <1>2, <1>7
  <2> QED BY <1>2, <1>6, <2>1
<1>9. /\ \A s \in Roles : s # r => Same(pod, pod', s)
      /\ AllReady(pod, r) => Same(pod, pod', r)
  <2>1. Call(r, c)
    BY <1>3 DEF Call
  <2>2. AllReady(pod, r) => c.create = 0 /\ c.delete = {}
    BY <1>1, <1>2, <1>3, ReadyRoll
  <2> QED BY <1>2, <1>3, <2>1, <2>2, CallSame
<1>10. \A i, j \in Roles : i < j /\ UpgradeOrder[j] = r => AllReady(pod, UpgradeOrder[i])
  BY <1>1, <1>6, <1>8, OrderFacts
<1>11. Turn(pod')
  BY <1>1, <1>2, <1>9, <1>10, TurnKept
<1>12. \A s \in Roles : AllReady(pod, s) => AllReady(pod', s)
  BY <1>9, SameFilters
<1>13. Rolling'
  <2> SUFFICES ASSUME run'.at = "roll" PROVE Rolling'
    BY DEF Rolling
  <2>1. run' = [run EXCEPT !.todo = todo,
                           !.requeue = run.requeue \/ Requeues(cache, c),
                           !.at = IF todo = <<>> THEN "status" ELSE "roll"]
    <3>1. ~Failed
      BY <1>1 DEF Failed, RunType
    <3> QED BY <1>3, <3>1
  <2>2. run'.todo = todo /\ todo # <<>>
    <3> DEFINE g == run.requeue \/ Requeues(cache, c)
    <3>1. run' = [run EXCEPT !.todo = todo, !.requeue = g,
                             !.at = IF todo = <<>> THEN "status" ELSE "roll"]
      BY <2>1
    <3> HIDE DEF g, todo
    <3> QED BY <1>1, <3>1 DEF RunType
  <2>3. AllReady(pod, r) /\ todo = Tail(run.todo)
    BY <2>2 DEF RolesLeft
  <2> DEFINE n == Len(run.todo)
  <2>4. Len(todo) = n - 1 /\ n - 1 = L - (k + 1) + 1 /\ k + 1 \in Roles /\ n \in Nat
    <3>1. n \in Nat /\ n >= 1 /\ n # 1 /\ n = L - k + 1 /\ Len(todo) = n - 1
      BY <1>2, <1>6, <2>2, <2>3
    <3> HIDE DEF n, L, todo
    <3>2. n - 1 = L - (k + 1) + 1 /\ k + 1 \in 1..L
      BY <1>7, <3>1
    <3> QED BY <1>7, <3>1, <3>2
  <2>5. Len(todo) = L - (k + 1) + 1
    BY <2>4
  <2>6. ASSUME NEW m \in 1..Len(todo) PROVE todo[m] = UpgradeOrder[(k + 1) + m - 1]
    <3>1. m \in 1..(n - 1) /\ m + 1 \in 1..n
      <4>1. m \in 1..(n - 1) /\ n \in Nat
        BY <2>4
      <4> HIDE DEF n
      <4> QED BY <4>1
    <3>2. todo[m] = run.todo[m + 1]
      BY <1>2, <2>3, <3>1
    <3>3. run.todo[m + 1] = UpgradeOrder[k + (m + 1) - 1]
      BY <1>6, <3>1
    <3>4. k + (m + 1) - 1 = (k + 1) + m - 1
      BY <1>7, <3>1
    <3> QED BY <3>2, <3>3, <3>4
  <2>7. ASSUME NEW i \in Roles, i < k + 1 PROVE AllReady(pod', UpgradeOrder[i])
    <3>1. i < k \/ i = k
      BY <1>7, <2>7
    <3>2. AllReady(pod, UpgradeOrder[i]) /\ UpgradeOrder[i] \in Roles
      BY <1>1, <1>6, <1>8, <2>3, <3>1, OrderFacts
    <3> QED BY <1>12, <3>2
  <2> DEFINE t == todo
             h == k + 1
  <2>8. /\ h \in Roles' /\ run'.todo = t /\ Len(t) = Len(config'.replicas) - h + 1
        /\ \A m \in 1..Len(t) : t[m] = UpgradeOrder'[h + m - 1]
        /\ \A i \in Roles' : i < h => AllReady(pod, UpgradeOrder[i])'
    BY <1>4, <1>5, <2>2, <2>4, <2>5, <2>6, <2>7
  <2> HIDE DEF t, h, todo
  <2> QED BY <2>8 DEF Rolling
<1> QED BY <1>5, <1>11, <1>13

(* Every step keeps the order of roles. *)
LEMMA OrderKept ==
  ASSUME TInv, UpInv, OrderInv, [Next]_vars
  PROVE  OrderInv'
<1> SUFFICES ASSUME PlainRollout', config'.strategy = "Sequential"
             PROVE  Turn(pod)' /\ Rolling'
  BY DEF OrderInv
<1>1. faults' = 0 /\ edits' = 1 /\ replicas' = config'.replicas /\ config'.settled
  BY DEF PlainRollout
<1>2. /\ faults = 0 /\ config' = config
      /\ \/ UpdateTemplate
         \/ \E r \in Roles, n \in config.sizes : Resize(r, n)
         \/ UNCHANGED <<replicas, target, edits>> /\ Calm
  BY <1>1, CalmSteps
<1>3. CASE UpdateTemplate
  BY <1>3, OrderBegins
<1>4. ASSUME NEW r \in Roles, NEW n \in config.sizes, Resize(r, n) PROVE FALSE
  <2>1. edits \in Nat /\ replicas \in [Roles -> Nat]
    BY DEF TInv, SpecOK
  <2>2. edits = 0
    BY <1>1, <1>4, <2>1 DEF Resize
  <2>3. replicas = config.replicas
    BY <1>1, <1>2, <2>2 DEF UpInv
  <2>4. replicas'[r] # replicas[r]
    BY <1>4, <2>1 DEF Resize
  <2> QED BY <1>1, <1>2, <2>3, <2>4
<1>5. ASSUME UNCHANGED <<replicas, target, edits>>, Calm
      PROVE  Turn(pod)' /\ Rolling'
  <2>1. PlainRollout /\ config.strategy = "Sequential"
    BY <1>1, <1>2, <1>5 DEF PlainRollout
  <2>2. Turn(pod) /\ Rolling
    BY <2>1 DEF OrderInv
  <2>3. /\ Roles' = Roles /\ UpgradeOrder' = UpgradeOrder
        /\ \A q : AllReady(pod, q)' <=> AllReady(pod', q)
        /\ Turn(pod') => Turn(pod)'
    BY <1>2, <1>5, TurnNext
  <2>4. SpecOK /\ LoopInv /\ run \in RunType
    BY DEF TInv, LoopInv
  <2>5. CASE RollRole /\ cache = pod
    BY <2>1, <2>2, <2>5, OrderGoes
  <2>6. CASE (ScaleRole /\ cache = pod) \/ \E p \in Pods : PodStep(p)
    <3>1. /\ Turn(pod') /\ \A s \in Roles : AllReady(pod, s) => AllReady(pod', s)
      BY <2>2, <2>6, OrderWaits
    <3>2. run' = run \/ run'.at # "roll"
      BY <2>4, <2>6 DEF ScaleRole, Failed, RunType, PodStep, PodReady, PodGone, DrainTimeout, ControlPlane
    <3>3. \A i \in Roles : UpgradeOrder[i] \in Roles
      BY <2>4, OrderFacts DEF SpecOK
    <3>4. Rolling'
      BY <1>2, <2>2, <2>3, <3>1, <3>2, <3>3 DEF Rolling
    <3> QED BY <2>3, <3>1, <3>4
  <2>7. CASE Still
    <3>0. pod' = pod
      BY <2>7 DEF Still
    <3>1. Turn(pod)'
      BY <2>2, <2>3, <3>0
    <3>2. CASE Plan
      <4>1. run'.todo = UpgradeOrder
        BY <2>1, <2>4, <3>2 DEF Plan, RunType
      <4>2. 1 \in Roles /\ Len(UpgradeOrder) = Len(config.replicas) /\ Len(config.replicas) \in Nat
            /\ Roles \subseteq Nat \ {0}
        <5>1. config \in Configs
          BY <2>4 DEF SpecOK
        <5>2. Len(UpgradeOrder) = Len(config.replicas)
          BY <5>1, OrderFacts
        <5>3. /\ Len(config.replicas) \in Nat /\ Len(config.replicas) >= 1
              /\ Roles = 1..Len(config.replicas)
          BY <5>1, ConfigFacts
        <5> QED BY <5>2, <5>3
      <4>3. /\ Len(UpgradeOrder) = Len(config.replicas) - 1 + 1
            /\ \A m \in 1..Len(UpgradeOrder) : UpgradeOrder[m] = UpgradeOrder[1 + m - 1]
            /\ \A i \in Roles : ~(i < 1)
        BY <4>2
      <4> QED BY <1>2, <2>3, <3>1, <4>1, <4>2, <4>3 DEF Rolling
    <3>3. CASE run' = run \/ run'.at # "roll"
      <4>1. Rolling'
        BY <1>2, <2>2, <2>3, <3>0, <3>3 DEF Rolling
      <4> QED BY <3>1, <4>1
    <3>4. CASE Begin
      BY <3>3, <3>4 DEF Begin, Idle
    <3>5. CASE UpdateStatus
      <4>1. run' = Idle
        BY <3>5 DEF UpdateStatus
      <4> QED BY <3>3, <4>1 DEF Idle
    <3>6. CASE Sync \/ UNCHANGED vars
      BY <3>3, <3>6 DEF Sync, vars, ControlPlane
    <3> QED BY <2>7, <3>2, <3>4, <3>5, <3>6 DEF Still
  <2> QED BY <1>5, <2>5, <2>6, <2>7 DEF Calm
<1> QED BY <1>2, <1>3, <1>4, <1>5

(* A RoleSet that is up to begin with stays up. *)
LEMMA UpHolds == Spec => [](TInv /\ UpInv)
<1>1. Init => TInv /\ UpInv
  BY InitTypes, InitPods DEF Init, UpInv
<1>2. (TInv /\ UpInv) /\ [Next]_vars => (TInv /\ UpInv)'
  BY TypesKept, UpKept
<1> QED BY <1>1, <1>2, PTL DEF Spec

(* For every number of roles and every assignment of upgradeOrder, surges, *)
(* drains and quotas: no role has a pod of the new template before every   *)
(* role ahead of it in the order is wholly new and ready                   *)
(* (RollingManagerSequential.Next), although every pass starts from the    *)
(* first role again and may break off at the quota.  As in PlainRollout,   *)
(* no pod breaks and no call decides on a stale list.                      *)
THEOREM OrderCorrect == Spec => []SequentialOrder
<1>1. Init => OrderInv
  BY DEF Init, OrderInv, PlainRollout
<1>2. TInv /\ UpInv /\ OrderInv /\ [Next]_vars => OrderInv'
  BY OrderKept
<1>3. OrderInv => SequentialOrder
  BY DEF OrderInv, SequentialOrder, Turn, Untouched
<1> QED BY <1>1, <1>2, <1>3, UpHolds, PTL DEF Spec

-----------------------------------------------------------------------------
(* Interleave: roles take their steps together.                            *)

NewReady(v, r) == Updated(v, r) \cap ReadyPods(v, r)

(* Every role has finished its step n - 1. *)
Reached(v, n) ==
  \A s \in Roles :
    Cardinality(NewReady(v, s)) >= Min({(n - 1) * StepLength(s), replicas[s]})

(* Role r has made no pod and given up no pod past its step n. *)
Within(v, r, n) ==
  /\ Cardinality(Updated(v, r)) <= n * StepLength(r)
  /\ replicas[r] - Cardinality(Outdated(v, r)) <= n * StepLength(r)

Lock(v) == \A r \in Roles : \E n \in Nat : Within(v, r, n) /\ Reached(v, n)

(* Pods of the new template are neither drained nor deleted, and the       *)
(* others are ready until they are.                                        *)
Tidy(v) ==
  \A p \in Pods : v[p] # Gone =>
    /\ v[p].hash = target[v[p].role] => ~v[p].failed /\ ~v[p].dying /\ v[p].drain = "none"
    /\ v[p].hash # target[v[p].role] => v[p].failed \/ v[p].dying \/ v[p].ready

(* No role has more new pods than it wants pods. *)
Few(v) == \A r \in Roles : Cardinality(Updated(v, r)) <= replicas[r]

StepInv ==
  PlainRollout /\ config.strategy = "Interleave" =>
    /\ Tidy(pod) /\ Few(pod) /\ Lock(pod) /\ Lock(cache)
    /\ \A r \in Roles : NewReady(cache, r) \subseteq NewReady(pod, r)
    /\ run.at = "roll" => Reached(pod, run.step)

(* More steps are more pods. *)
LEMMA StepProduct ==
  ASSUME NEW a \in Int, NEW b \in Int, NEW l \in Nat, a <= b
  PROVE  a * l <= b * l /\ a * l \in Int /\ b * l \in Int
<1>1. (b - a) * l >= 0
  <2>1. b - a \in Nat
    OBVIOUS
  <2> QED BY <2>1
<1>2. (b - a) * l = b * l - a * l
  OBVIOUS
<1> QED BY <1>1, <1>2

(* What a role must have ready before its step n. *)
LEMMA StepGoal ==
  ASSUME SpecOK, NEW r \in Roles, NEW n \in Int
  PROVE  /\ Min({(n - 1) * StepLength(r), replicas[r]}) \in Int
         /\ Min({(n - 1) * StepLength(r), replicas[r]}) <= replicas[r]
         /\ Min({(n - 1) * StepLength(r), replicas[r]}) <= (n - 1) * StepLength(r)
         /\ \A x \in Int : x >= replicas[r] \/ x >= (n - 1) * StepLength(r)
              => x >= Min({(n - 1) * StepLength(r), replicas[r]})
         /\ \A m \in Int : m <= n =>
              Min({(m - 1) * StepLength(r), replicas[r]})
                <= Min({(n - 1) * StepLength(r), replicas[r]})
<1> DEFINE l == StepLength(r)
           f == replicas[r]
           a(m) == (m - 1) * l
           g(m) == Min({a(m), f})
<1>1. l \in Nat /\ f \in Nat
  BY StrategyFacts
<1> HIDE DEF l, f
<1>2. \A m \in Int : a(m) \in Int
  BY <1>1
<1>3. \A m \in Int : m <= n => a(m) <= a(n)
  <2> TAKE m \in Int
  <2> HAVE m <= n
  <2>1. m - 1 \in Int /\ n - 1 \in Int /\ m - 1 <= n - 1
    OBVIOUS
  <2> QED BY <1>1, <2>1, StepProduct
<1> HIDE DEF a
<1>4. \A m \in Int : g(m) = IF a(m) <= f THEN a(m) ELSE f
  <2> TAKE m \in Int
  <2> DEFINE b == a(m)
  <2>1. b \in Int /\ f \in Int
    BY <1>1, <1>2
  <2> HIDE DEF b
  <2>2. Min({b, f}) = IF b <= f THEN b ELSE f
    BY <2>1, MaxMin
  <2> QED BY <2>2 DEF b
<1> HIDE DEF g
<1>5. /\ g(n) \in Int /\ g(n) <= f /\ g(n) <= a(n)
      /\ \A x \in Int : x >= f \/ x >= a(n) => x >= g(n)
      /\ \A m \in Int : m <= n => g(m) <= g(n)
  BY <1>1, <1>2, <1>3, <1>4
<1> QED BY <1>5 DEF l, f, a, g

(* The new pods that are ready are counted. *)
LEMMA NewReadyCounts ==
  ASSUME NEW v, NEW r
  PROVE  Cardinality(NewReady(v, r)) \in Nat /\ NewReady(v, r) \subseteq Pods
<1>1. NewReady(v, r) \subseteq Pods
  BY FilterFacts DEF NewReady
<1> QED BY <1>1, PodsFinite

(* A step reached stays reached while new pods stay ready. *)
LEMMA ReachedStays ==
  ASSUME SpecOK, NEW v, NEW w, NEW n \in Int, Reached(v, n),
         \A s \in Roles : NewReady(v, s) \subseteq NewReady(w, s)
  PROVE  Reached(w, n)
<1> SUFFICES ASSUME NEW s \in Roles
             PROVE  Cardinality(NewReady(w, s)) >= Min({(n - 1) * StepLength(s), replicas[s]})
  BY DEF Reached
<1> DEFINE g == Min({(n - 1) * StepLength(s), replicas[s]})
           a == Cardinality(NewReady(v, s))
           b == Cardinality(NewReady(w, s))
<1>1. a >= g /\ g \in Int
  BY StepGoal DEF Reached
<1>2. a \in Nat /\ b \in Nat /\ a <= b
  BY NewReadyCounts, PodsCount
<1> HIDE DEF g, a, b
<1>3. b >= g
  BY <1>1, <1>2
<1> QED BY <1>3 DEF b, g

(* So are the steps before it. *)
LEMMA ReachedBefore ==
  ASSUME SpecOK, NEW v, NEW n \in Int, NEW m \in Int, m <= n, Reached(v, n)
  PROVE  Reached(v, m)
<1> SUFFICES ASSUME NEW s \in Roles
             PROVE  Cardinality(NewReady(v, s)) >= Min({(m - 1) * StepLength(s), replicas[s]})
  BY DEF Reached
<1> DEFINE g == Min({(n - 1) * StepLength(s), replicas[s]})
           h == Min({(m - 1) * StepLength(s), replicas[s]})
           a == Cardinality(NewReady(v, s))
<1>1. a >= g /\ g \in Int /\ h \in Int /\ h <= g
  BY StepGoal DEF Reached
<1>2. a \in Nat
  BY NewReadyCounts
<1> HIDE DEF g, h, a
<1>3. a >= h
  BY <1>1, <1>2
<1> QED BY <1>3 DEF a, h

(* One role changes. *)
LEMMA LockGrows ==
  ASSUME SpecOK, NEW v, NEW w, NEW q \in Roles, Lock(v),
         \A s \in Roles : NewReady(v, s) \subseteq NewReady(w, s),
         \A s \in Roles : s # q =>
           Updated(w, s) = Updated(v, s) /\ Outdated(w, s) = Outdated(v, s),
         \E n \in Nat : Within(w, q, n) /\ Reached(v, n)
  PROVE  Lock(w)
<1> SUFFICES ASSUME NEW r \in Roles
             PROVE  \E n \in Nat : Within(w, r, n) /\ Reached(w, n)
  BY DEF Lock
<1>1. \E n \in Nat : Within(w, r, n) /\ Reached(v, n)
  BY DEF Lock, Within
<1>2. PICK n \in Nat : Within(w, r, n) /\ Reached(v, n)
  BY <1>1
<1>3. n \in Int
  OBVIOUS
<1>4. Reached(w, n)
  BY <1>2, <1>3, ReachedStays
<1> QED BY <1>2, <1>4

(* Whole steps in a number of pods. *)
LEMMA WholeSteps ==
  ASSUME NEW d \in Nat, NEW l \in Nat, l >= 1
  PROVE  /\ d \div l \in Nat
         /\ (d \div l) * l <= d
         /\ \A n \in Nat : d < (n + 1) * l => d \div l <= n
<1> DEFINE q == d \div l
<1>1. q \in Nat /\ q * l <= d
  OBVIOUS
<1>2. ASSUME NEW n \in Nat, d < (n + 1) * l PROVE q <= n
  <2> SUFFICES ASSUME q >= n + 1 PROVE FALSE
    BY <1>1
  <2>1. (n + 1) * l <= q * l
    BY <1>1, StepProduct
  <2> HIDE DEF q
  <2> DEFINE a == (n + 1) * l
             b == q * l
  <2>2. a \in Int /\ b \in Int /\ a <= b /\ b <= d /\ d < a
    BY <1>1, <1>2, <2>1
  <2> HIDE DEF a, b
  <2> QED BY <2>2
<1> QED BY <1>1, <1>2

(* A role whose step CheckCurrentStep gives as n has finished step n - 1. *)
LEMMA StepReady ==
  ASSUME SpecOK, NEW r \in Roles, NEW v, Lock(v)
  PROVE  Cardinality(NewReady(v, r))
           >= Min({(CurrentStep(v, r) - 1) * StepLength(r), replicas[r]})
<1> DEFINE L == StepLength(r)
           done == Cardinality(NewReady(v, r))
           least == Quotient(done - 1, L) + 1
           u == Cardinality(Updated(v, r))
           o == Cardinality(Outdated(v, r))
           f == replicas[r]
           cur == CurrentStep(v, r)
<1>1. L \in Nat /\ L >= 1 /\ f \in Nat /\ done \in Nat /\ u \in Nat /\ o \in Nat
  BY StrategyFacts, NewReadyCounts, FilterCounts
<1>2. \/ cur = least
      \/ cur = least + 1 /\ (done = L * least \/ u > L * least \/ o < f - L * least)
  BY DEF CurrentStep, NewReady
<1>3. ASSUME NEW n \in Int, done >= f \/ done >= (n - 1) * L
      PROVE  done >= Min({(n - 1) * StepLength(r), replicas[r]})
  <2>1. \A x \in Int : x >= replicas[r] \/ x >= (n - 1) * StepLength(r)
              => x >= Min({(n - 1) * StepLength(r), replicas[r]})
    BY StepGoal
  <2> DEFINE g == Min({(n - 1) * StepLength(r), replicas[r]})
  <2>2. \A x \in Int : x >= f \/ x >= (n - 1) * L => x >= g
    BY <2>1
  <2> HIDE DEF g, done
  <2>3. done >= g
    BY <1>1, <1>3, <2>2
  <2> QED BY <2>3 DEF g
<1>4. PICK n \in Nat : Within(v, r, n) /\ Reached(v, n)
  BY DEF Lock
<1>5. u <= n * L /\ f - o <= n * L
  BY <1>4 DEF Within
<1>6. least \in Int /\ (least - 1) * L <= done
  <2> HIDE DEF L, done
  <2>1. CASE done = 0
    <3>1. Quotient(-1, L) = -(1 \div L)
      BY DEF Quotient
    <3>2. 1 \div L \in {0, 1}
      BY <1>1
    <3>3. least - 1 \in {0, -1}
      BY <2>1, <3>1, <3>2
    <3>4. 0 * L = 0 /\ (-1) * L <= 0
      BY <1>1
    <3> HIDE DEF least
    <3> QED BY <2>1, <3>3, <3>4
  <2>2. CASE done >= 1
    <3> DEFINE d == done - 1
    <3>1. d \in Nat
      BY <1>1, <2>2
    <3>2. Quotient(d, L) = d \div L
      BY <3>1 DEF Quotient
    <3>3. d \div L \in Nat /\ (d \div L) * L <= d
      BY <1>1, <3>1, WholeSteps
    <3>4. least - 1 = d \div L /\ least \in Int
      BY <3>2, <3>3
    <3> DEFINE e == (least - 1) * L
    <3>5. e <= d /\ e \in Int
      BY <1>1, <3>3, <3>4
    <3> HIDE DEF e, least
    <3>6. e <= done
      BY <1>1, <3>5
    <3> QED BY <3>4, <3>6 DEF e
  <2> QED BY <1>1, <2>1, <2>2
<1> HIDE DEF least
<1>7. CASE cur = least
  BY <1>3, <1>6, <1>7
<1>8. CASE cur = least + 1 /\ done = L * least
  <2>1. (cur - 1) * L = done /\ cur \in Int
    BY <1>1, <1>6, <1>8
  <2> QED BY <1>1, <1>3, <2>1
<1>9. CASE cur = least + 1 /\ (u > L * least \/ o < f - L * least)
  <2>1. least < n
    <3> SUFFICES ASSUME n <= least PROVE FALSE
      BY <1>6
    <3>1. n * L <= least * L
      BY <1>1, <1>6, StepProduct
    <3> DEFINE a == n * L
               b == L * least
    <3>2. a \in Int /\ b \in Int /\ a <= b
      BY <1>1, <1>6, <3>1
    <3>3. u <= a /\ f - o <= a /\ (u > b \/ o < f - b)
      BY <1>5, <1>9
    <3> HIDE DEF a, b, u, o, f
    <3> QED BY <1>1, <3>2, <3>3
  <2>2. cur \in Int /\ n \in Int /\ cur <= n
    BY <1>6, <1>9, <2>1
  <2> HIDE DEF cur
  <2>3. Reached(v, cur)
    BY <1>4, <2>2, ReachedBefore
  <2>4. Cardinality(NewReady(v, r)) >= Min({(cur - 1) * StepLength(r), replicas[r]})
    BY <2>3 DEF Reached
  <2> QED BY <2>4 DEF cur
<1> QED BY <1>2, <1>7, <1>8, <1>9

(* The step the manager plans has been reached. *)
LEMMA PlanReached ==
  ASSUME TInv, Plan, config.strategy = "Interleave", run'.at = "roll", Lock(cache),
         \A r \in Roles : NewReady(cache, r) \subseteq NewReady(pod, r)
  PROVE  Reached(pod, run'.step) /\ run'.step \in Nat
<1> DEFINE behind == {r \in Roles : ~StepDone(cache, r)}
           steps == {CurrentStep(cache, r) : r \in behind}
           step == Min(steps)
<1>1. SpecOK /\ run \in RunType
  BY DEF TInv, LoopInv
<1>2. behind # {} /\ run'.step = step
  BY <1>1 DEF Plan, RunType
<1>3. step \in Nat /\ \A r \in behind : step <= CurrentStep(cache, r)
  <2>1. steps \subseteq Nat /\ steps # {}
    BY <1>1, <1>2, StepFacts
  <2>2. \A r \in behind : CurrentStep(cache, r) \in steps
    OBVIOUS
  <2> HIDE DEF steps
  <2>3. step \in Nat /\ \A x \in steps : step <= x
    BY <2>1, MinNat
  <2> QED BY <2>2, <2>3
<1> HIDE DEF step
<1>4. ASSUME NEW s \in Roles
      PROVE  Cardinality(NewReady(cache, s)) >= Min({(step - 1) * StepLength(s), replicas[s]})
  <2> DEFINE d == Cardinality(NewReady(cache, s))
             g == Min({(step - 1) * StepLength(s), replicas[s]})
             cur == CurrentStep(cache, s)
             h == Min({(cur - 1) * StepLength(s), replicas[s]})
  <2>1. d \in Nat /\ step \in Int /\ replicas[s] \in Nat
    BY <1>1, <1>3, NewReadyCounts, StrategyFacts
  <2>2. g \in Int /\ g <= replicas[s]
    BY <1>1, <2>1, StepGoal
  <2>3. CASE StepDone(cache, s)
    <3>1. NewReady(cache, s) = Updated(cache, s)
      BY <2>3, FilterFacts DEF StepDone, NewReady
    <3>2. d >= replicas[s]
      BY <2>3, <3>1 DEF StepDone
    <3> HIDE DEF d, g
    <3>3. d >= g
      BY <2>1, <2>2, <3>2
    <3> QED BY <3>3 DEF d, g
  <2>4. CASE ~StepDone(cache, s)
    <3>1. step <= cur /\ cur \in Int
      BY <1>1, <1>3, <2>4, StepFacts
    <3>2. d >= h
      BY <1>1, StepReady
    <3>3. h \in Int /\ g <= h
      <4> HIDE DEF cur
      <4> QED BY <1>1, <2>1, <3>1, StepGoal
    <3> HIDE DEF d, g, h
    <3>4. d >= g
      BY <2>1, <2>2, <3>2, <3>3
    <3> QED BY <3>4 DEF d, g
  <2> QED BY <2>3, <2>4
<1>5. Reached(cache, step)
  BY <1>4 DEF Reached
<1>6. Reached(pod, step)
  <2>1. step \in Int
    BY <1>3
  <2> QED BY <1>1, <1>5, <2>1, ReachedStays
<1> QED BY <1>2, <1>3, <1>6

(* Scale takes no more than the surplus, and no new pod for it: those come *)
(* last in its order.                                                      *)
LEMMA ScaleNew ==
  ASSUME SpecOK, NEW v, NEW r \in Roles, NEW c \in Scale(v, r),
         Draining(v, r) \cap Updated(v, r) = {},
         Cardinality(Updated(v, r)) <= replicas[r]
  PROVE  /\ c.delete \cap Updated(v, r) = {}
         /\ Cardinality(c.delete \cap Outdated(v, r)) > 0 =>
              Cardinality(c.delete \cap Outdated(v, r))
                <= Cardinality(Active(v, r)) - replicas[r]
         /\ c.create > 0 => Cardinality(c.delete \cap Outdated(v, r)) = 0
<1> DEFINE Di == Draining(v, r)
           A == Active(v, r)
           U == Updated(v, r)
           O == Outdated(v, r)
           diff == Cardinality(A) - replicas[r]
<1>1. PICK S \in SUBSET A :
        /\ c.delete = S \cup Terminated(v, r)
        /\ Cardinality(A) <= replicas[r] => S = {}
        /\ Cardinality(A) > replicas[r] =>
             \E E \in SUBSET Di, F \in SUBSET A : S = E \cup F /\ Surplus(v, r, E, F)
  BY ScaleFacts
<1>2. /\ Terminated(v, r) \cap A = {} /\ U \subseteq A /\ O = A \ U /\ Di \subseteq A /\ A \subseteq Pods
  BY FilterFacts
<1>3. c.delete \cap U = S \cap U /\ c.delete \cap O = S \cap O
  BY <1>1, <1>2
<1>4. /\ Cardinality(A) \in Nat /\ replicas[r] \in Nat /\ Cardinality(U) \in Nat
      /\ Cardinality(O) \in Nat /\ Cardinality(Di) \in Nat
      /\ Cardinality(A) = Cardinality(U) + Cardinality(O)
      /\ c.create > 0 => Cardinality(A) <= replicas[r]
  <2>1. c.create \in Nat /\ (c.create > 0 => Cardinality(A) + c.create <= replicas[r])
    BY ScaleFacts
  <2>2. replicas[r] \in Nat
    BY StrategyFacts
  <2>3. /\ Cardinality(A) \in Nat /\ Cardinality(U) \in Nat
        /\ Cardinality(O) \in Nat /\ Cardinality(Di) \in Nat
        /\ Cardinality(A) = Cardinality(U) + Cardinality(O)
    BY FilterCounts
  <2> QED BY <2>1, <2>2, <2>3
<1>5. CASE Cardinality(A) <= replicas[r]
  <2>1. c.delete \cap U = {} /\ c.delete \cap O = {}
    BY <1>1, <1>3, <1>5
  <2>2. Cardinality(c.delete \cap O) = 0
    BY <2>1, FS_EmptySet
  <2> DEFINE d == Cardinality(c.delete \cap O)
  <2>3. d = 0
    BY <2>2
  <2> HIDE DEF d
  <2>4. ~(d > 0)
    BY <2>3
  <2> QED BY <2>1, <2>3, <2>4 DEF d
<1>6. CASE Cardinality(A) > replicas[r]
  <2>1. PICK E \in SUBSET Di, F \in SUBSET A : S = E \cup F /\ Surplus(v, r, E, F)
    BY <1>1, <1>6
  <2>2. /\ F \in Firsts(v, r, A \ Di) /\ Cardinality(F) <= diff - Cardinality(E)
        /\ Cardinality(E) = Min({diff, Cardinality(Di)})
    BY <2>1 DEF Surplus
  <2>3. /\ F \subseteq A \ Di
        /\ \A p \in F, q \in (A \ Di) \ F : HashRank(v, r, p) <= HashRank(v, r, q)
    BY <2>2 DEF Firsts
  <2>4. /\ Cardinality(E) \in Nat /\ Cardinality(F) \in Nat
        /\ Cardinality(S) \in Nat /\ Cardinality(S) = Cardinality(E) + Cardinality(F)
    <3>1. E \cap F = {} /\ IsFiniteSet(E) /\ IsFiniteSet(F) /\ S = E \cup F
      BY <1>2, <2>1, <2>3, PodsFinite
    <3>2. Cardinality(E \cap F) = 0 /\ Cardinality(E) \in Nat /\ Cardinality(F) \in Nat
      BY <3>1, FS_EmptySet, FS_CardinalityType
    <3>3. Cardinality(E \cup F) = Cardinality(E) + Cardinality(F) - Cardinality(E \cap F)
      BY <3>1, FS_Union
    <3> QED BY <3>1, <3>2, <3>3
  <2>5. Cardinality(S) <= diff /\ diff \in Int
    <3> DEFINE a == Cardinality(E)
               b == Cardinality(F)
    <3>1. a \in Nat /\ b \in Nat /\ b <= diff - a /\ diff \in Int /\ Cardinality(S) = a + b
      BY <1>4, <2>2, <2>4
    <3> HIDE DEF a, b, diff
    <3>2. a + b <= diff
      BY <3>1
    <3> QED BY <3>1, <3>2
  <2>6. Cardinality(S \cap O) <= Cardinality(S) /\ Cardinality(S \cap O) \in Nat
    <3>1. S \subseteq Pods /\ S \cap O \subseteq S /\ S \cap O \subseteq Pods
      BY <1>2
    <3> HIDE DEF O
    <3> QED BY <3>1, PodsCount, PodsFinite
  <2>7. S \cap U = {}
    <3> SUFFICES ASSUME NEW p \in S \cap U PROVE FALSE
      OBVIOUS
    <3>1. p \in F /\ p \notin Di /\ p \notin O
      BY <1>2, <2>1
    <3>2. Cardinality(F) >= 1
      <4>1. {p} \subseteq F /\ F \subseteq Pods
        BY <1>2, <3>1
      <4>2. Cardinality({p}) = 1 /\ Cardinality({p}) <= Cardinality(F)
        BY <4>1, PodsCount, FS_Singleton
      <4> QED BY <2>4, <4>2
    <3>3. Cardinality(E) = Cardinality(Di)
      <4> DEFINE a == Cardinality(E)
                 b == Cardinality(F)
                 k == Cardinality(Di)
      <4>1. /\ a \in Nat /\ b \in Nat /\ k \in Nat /\ b <= diff - a /\ diff \in Int /\ b >= 1
            /\ a = Min({diff, k})
        BY <1>4, <2>2, <2>4, <3>2
      <4> HIDE DEF a, b, k, diff
      <4>2. Min({diff, k}) = IF diff <= k THEN diff ELSE k
        <5>1. diff \in Int /\ k \in Int
          BY <4>1
        <5> QED BY <5>1, MaxMin
      <4>3. a = k
        BY <4>1, <4>2
      <4> QED BY <4>3 DEF a, k
    <3>4. E = Di
      <4> HIDE DEF Di
      <4>1. IsFiniteSet(Di)
        BY <1>2, PodsFinite
      <4> QED BY <2>1, <3>3, <4>1, FS_Subset
    <3>5. ASSUME NEW q \in O PROVE q \in S
      <4>1. CASE q \in Di
        BY <2>1, <3>4, <4>1
      <4>2. CASE q \notin Di
        <5> SUFFICES ASSUME q \notin F PROVE FALSE
          BY <2>1
        <5>1. HashRank(v, r, p) <= HashRank(v, r, q)
          BY <1>2, <2>3, <3>1, <4>2
        <5>2. v[p].hash = target[r] /\ v[q].hash # target[r]
          BY <1>2, <3>5 DEF Updated
        <5> QED BY <5>1, <5>2 DEF HashRank
      <4> QED BY <4>1, <4>2
    <3>6. Cardinality(O) + 1 <= Cardinality(S)
      <4>1. IsFiniteSet(O) /\ O \cup {p} \subseteq S /\ S \subseteq Pods /\ O \cup {p} \subseteq Pods
        BY <1>2, <3>5, PodsFinite
      <4> HIDE DEF O
      <4>2. Cardinality(O \cup {p}) = Cardinality(O) + 1
        BY <3>1, <4>1, FS_AddElement
      <4> DEFINE T == O \cup {p}
      <4>3. T \subseteq S /\ S \subseteq Pods
        BY <4>1
      <4> HIDE DEF T
      <4>4. Cardinality(T) <= Cardinality(S)
        BY <4>3, PodsCount
      <4> QED BY <4>2, <4>4 DEF T
    <3> DEFINE o == Cardinality(O)
               u == Cardinality(U)
               s == Cardinality(S)
               f == replicas[r]
    <3>7. o + 1 <= s /\ s <= (u + o) - f /\ u <= f /\ o \in Nat /\ u \in Nat /\ s \in Nat /\ f \in Nat
      BY <1>4, <2>4, <2>5, <3>6
    <3> HIDE DEF o, u, s, f
    <3> QED BY <3>7
  <2> DEFINE d == Cardinality(c.delete \cap O)
             s == Cardinality(S)
  <2>8. d <= s /\ d \in Nat /\ s \in Nat /\ s <= diff /\ diff \in Int /\ ~(c.create > 0)
    <3>1. d <= s /\ d \in Nat /\ s \in Nat /\ s <= diff /\ diff \in Int
      BY <1>3, <2>4, <2>5, <2>6
    <3>2. ~(c.create > 0)
      BY <1>4, <1>6
    <3> QED BY <3>1, <3>2
  <2>9. c.delete \cap U = {}
    BY <1>3, <2>7
  <2> HIDE DEF d, s, diff
  <2>10. d > 0 => d <= diff
    BY <2>8
  <2> QED BY <2>8, <2>9, <2>10 DEF d, diff
<1> QED BY <1>4, <1>5, <1>6

(* What a call makes of the pods of its role when it deletes none of the   *)
(* new ones.                                                               *)
LEMMA CallEffect ==
  ASSUME TInv, NEW r \in Roles, NEW c \in Scale(cache, r) \cup RollChoice(cache, r, run.step),
         Call(r, c), cache = pod, Tidy(pod), c.delete \cap Updated(pod, r) = {}
  PROVE  /\ Cardinality(Updated(pod', r)) <= Cardinality(Updated(pod, r)) + c.create
         /\ Outdated(pod, r) \ c.delete \subseteq Outdated(pod', r)
         /\ \A s \in Roles : NewReady(pod, s) \subseteq NewReady(pod', s)
         /\ Tidy(pod')
<1>1. SpecOK /\ PodInv /\ faults \in Nat /\ PodsOK(pod)
  BY DEF TInv, PodInv
<1>2. /\ c.create \in Nat /\ c.reason \in Reasons
      /\ c.cancel \subseteq Listed(pod, r) /\ c.delete \subseteq Listed(pod, r)
  BY ChoiceFacts, FilterFacts
<1>3. \E n \in 0..c.create, X \in SUBSET c.cancel, Y \in SUBSET c.delete :
              /\ Write(cache, r, c, n, X, Y)
              /\ n > 0 => n <= Room
  BY <1>1, <1>2, CallFacts DEF Call
<1>4. PICK n \in 0..c.create, X \in SUBSET c.cancel, Y \in SUBSET c.delete :
              Write(cache, r, c, n, X, Y)
  BY <1>3
<1>5. \A p \in Pods : Written(p, r, n, c, X, Y)
  BY <1>4, WriteCases
<1>6. ASSUME NEW p \in Pods, p \in c.delete
      PROVE  pod[p] # Gone /\ pod[p].role = r /\ pod[p].hash # target[r]
  <2>1. pod[p] # Gone /\ pod[p].role = r
    BY <1>2, <1>6 DEF Listed
  <2>2. pod[p].hash = target[r] => p \in Updated(pod, r)
    BY <2>1 DEF Tidy, Updated, Active, Listed
  <2> QED BY <1>6, <2>1, <2>2
<1>7. ASSUME NEW p \in Pods, NEW x \in Reasons \cup {"none"}, pod'[p] = Annotate(p, x)
      PROVE  /\ pod'[p] = Gone <=> pod[p] = Gone
             /\ pod[p] # Gone =>
                  /\ pod'[p].role = pod[p].role /\ pod'[p].hash = pod[p].hash
                  /\ pod'[p].ready = pod[p].ready /\ pod'[p].failed = pod[p].failed
                  /\ pod'[p].dying = pod[p].dying /\ pod'[p].drain \in {x, pod[p].drain}
  <2>1. CASE pod[p] = Gone
    BY <1>1, <1>7, <2>1, FieldFacts
  <2>2. CASE pod[p] # Gone
    <3>1. /\ pod'[p] \in PodType /\ pod'[p].role = pod[p].role /\ pod'[p].hash = pod[p].hash
          /\ pod'[p].ready = pod[p].ready /\ pod'[p].failed = pod[p].failed
          /\ pod'[p].dying = pod[p].dying /\ pod'[p].drain \in {x, pod[p].drain}
      BY <1>1, <1>7, <2>2, FieldFacts
    <3>2. pod'[p] # Gone
      BY <1>1, <3>1, GoneFacts DEF SpecOK
    <3> QED BY <2>2, <3>1, <3>2
  <2> QED BY <2>1, <2>2
<1>8. ASSUME NEW p \in Pods
      PROVE  /\ p \in Updated(pod', r) => p \in Updated(pod, r) \cup Fresh(n)
             /\ p \in Outdated(pod, r) \ c.delete => p \in Outdated(pod', r)
             /\ p \in NewReady(pod, r) => p \in NewReady(pod', r)
             /\ pod'[p] # Gone =>
                  /\ pod'[p].hash = target[pod'[p].role] =>
                       ~pod'[p].failed /\ ~pod'[p].dying /\ pod'[p].drain = "none"
                  /\ pod'[p].hash # target[pod'[p].role] =>
                       pod'[p].failed \/ pod'[p].dying \/ pod'[p].ready
  <2>0. pod[p] # Gone =>
          /\ pod[p].hash = target[pod[p].role] =>
               ~pod[p].failed /\ ~pod[p].dying /\ pod[p].drain = "none"
          /\ pod[p].hash # target[pod[p].role] => pod[p].failed \/ pod[p].dying \/ pod[p].ready
    BY DEF Tidy
  <2>1. CASE p \in Fresh(n) /\ pod[p] = Gone /\ pod'[p] = NewPod(r)
    <3>1. /\ pod'[p].role = r /\ pod'[p].hash = target[r] /\ ~pod'[p].failed /\ ~pod'[p].dying
          /\ pod'[p].drain = "none"
      BY <1>1, <2>1, FieldFacts
    <3>2. p \notin Outdated(pod, r) /\ p \notin NewReady(pod, r)
      BY <2>1 DEF Outdated, NewReady, Updated, Active, Listed
    <3> QED BY <2>1, <3>1, <3>2
  <2>2. CASE pod'[p] = pod[p]
    BY <2>0, <2>2 DEF Outdated, NewReady, Updated, ReadyPods, Active, Listed
  <2>3. CASE pod'[p] = Annotate(p, "none")
    <3>1. /\ pod'[p] = Gone <=> pod[p] = Gone
          /\ pod[p] # Gone =>
                  /\ pod'[p].role = pod[p].role /\ pod'[p].hash = pod[p].hash
                  /\ pod'[p].ready = pod[p].ready /\ pod'[p].failed = pod[p].failed
                  /\ pod'[p].dying = pod[p].dying /\ pod'[p].drain \in {"none", pod[p].drain}
      BY <1>7, <2>3
    <3> QED BY <2>0, <3>1 DEF Outdated, NewReady, Updated, ReadyPods, Active, Listed
  <2>4. CASE p \in c.delete /\ pod'[p] = Annotate(p, c.reason)
    <3>1. pod[p] # Gone /\ pod[p].role = r /\ pod[p].hash # target[r]
      BY <1>6, <2>4
    <3>2. /\ pod'[p] # Gone /\ pod'[p].role = r /\ pod'[p].hash = pod[p].hash
          /\ pod'[p].ready = pod[p].ready /\ pod'[p].failed = pod[p].failed
          /\ pod'[p].dying = pod[p].dying
      BY <1>2, <1>7, <2>4, <3>1
    <3> QED BY <2>0, <2>4, <3>1, <3>2 DEF NewReady, Updated
  <2>5. CASE p \in c.delete /\ pod'[p] = Kill(p)
    <3>1. pod[p] # Gone /\ pod[p].role = r /\ pod[p].hash # target[r]
      BY <1>6, <2>5
    <3>2. pod'[p].role = r /\ pod'[p].hash = pod[p].hash /\ pod'[p].dying
      BY <1>1, <2>5, <3>1, FieldFacts
    <3> QED BY <2>5, <3>1, <3>2 DEF NewReady, Updated
  <2> QED BY <1>4, <1>5, <2>1, <2>2, <2>3, <2>4, <2>5 DEF Written
<1>9. Tidy(pod')
  BY <1>8 DEF Tidy
<1>10. /\ Updated(pod', r) \subseteq Pods /\ Updated(pod, r) \subseteq Pods
       /\ Outdated(pod, r) \subseteq Pods /\ NewReady(pod, r) \subseteq Pods
  BY FilterFacts DEF NewReady
<1>11. Cardinality(Updated(pod', r)) <= Cardinality(Updated(pod, r)) + c.create
  <2> DEFINE A == Updated(pod, r)
             B == Updated(pod', r)
             G == Fresh(n)
             T == A \cup G
  <2>1. /\ B \subseteq T /\ A \subseteq Pods /\ B \subseteq Pods
    BY <1>8, <1>10
  <2>2. G \subseteq Pods /\ Cardinality(G) \in Nat /\ Cardinality(G) <= n
    BY FreshFacts
  <2> HIDE DEF A, B, G
  <2>3. T \subseteq Pods /\ Cardinality(T) <= Cardinality(A) + Cardinality(G)
    BY <2>1, <2>2, PodsUnion
  <2> HIDE DEF T
  <2>4. /\ Cardinality(B) <= Cardinality(T) /\ Cardinality(B) \in Nat /\ Cardinality(T) \in Nat
        /\ Cardinality(A) \in Nat
    BY <2>1, <2>3, PodsCount, PodsFinite
  <2>5. n \in Nat /\ n <= c.create
    BY <1>2
  <2>6. Cardinality(B) <= Cardinality(A) + c.create
    BY <1>2, <2>2, <2>3, <2>4, <2>5
  <2> QED BY <2>6 DEF A, B
<1>12. ASSUME NEW s \in Roles PROVE NewReady(pod, s) \subseteq NewReady(pod', s)
  <2>1. CASE s = r
    BY <1>8, <1>10, <2>1
  <2>2. CASE s # r
    <3>1. Same(pod, pod', s)
      BY <2>2, CallSame
    <3> QED BY <3>1, SameFilters DEF NewReady
  <2> QED BY <2>1, <2>2
<1> QED BY <1>8, <1>9, <1>10, <1>11, <1>12

(* A call that keeps its role within a step all roles have reached. *)
LEMMA CallLock ==
  ASSUME TInv, NEW r \in Roles, NEW c \in Scale(cache, r) \cup RollChoice(cache, r, run.step),
         Call(r, c), cache = pod, Tidy(pod), Few(pod), Lock(pod),
         c.delete \cap Updated(pod, r) = {},
         c.create > 0 => Cardinality(Updated(pod, r)) + c.create <= replicas[r],
         NEW n \in Nat, Reached(pod, n),
         Cardinality(Updated(pod, r)) + c.create <= n * StepLength(r),
         replicas[r] - (Cardinality(Outdated(pod, r)) - Cardinality(c.delete \cap Outdated(pod, r)))
           <= n * StepLength(r)
  PROVE  /\ Tidy(pod') /\ Few(pod') /\ Lock(pod')
         /\ \A s \in Roles : NewReady(pod, s) \subseteq NewReady(pod', s)
<1> DEFINE U == Cardinality(Updated(pod, r))
           V == Cardinality(Updated(pod', r))
           O == Cardinality(Outdated(pod, r))
           Q == Cardinality(Outdated(pod', r))
           d == Cardinality(c.delete \cap Outdated(pod, r))
           f == replicas[r]
           e == n * StepLength(r)
<1>1. SpecOK
  BY DEF TInv
<1>2. /\ V <= U + c.create
      /\ Outdated(pod, r) \ c.delete \subseteq Outdated(pod', r)
      /\ \A s \in Roles : NewReady(pod, s) \subseteq NewReady(pod', s)
      /\ Tidy(pod')
  BY CallEffect
<1>3. \A s \in Roles : s # r =>
        Updated(pod', s) = Updated(pod, s) /\ Outdated(pod', s) = Outdated(pod, s)
  BY CallSame, SameFilters
<1>4. /\ U \in Nat /\ V \in Nat /\ O \in Nat /\ Q \in Nat /\ f \in Nat /\ c.create \in Nat
      /\ StepLength(r) \in Nat
  BY <1>1, FilterCounts, StrategyFacts, ChoiceFacts
<1>5. e \in Int
  BY <1>4
<1>6. d \in Nat /\ Q >= O - d
  <2> DEFINE A == Outdated(pod, r)
             B == Outdated(pod', r)
             D == c.delete \cap A
  <2>1. A \subseteq Pods /\ B \subseteq Pods /\ D \subseteq A /\ A \ D \subseteq B
    BY <1>2, FilterFacts
  <2> HIDE DEF A, B, D
  <2> DEFINE T == A \ D
  <2>2. Cardinality(T) = Cardinality(A) - Cardinality(D) /\ Cardinality(D) \in Nat
    BY <2>1, PodsCount, PodsFinite
  <2>3. T \subseteq B /\ T \subseteq Pods
    BY <2>1
  <2> HIDE DEF T
  <2>4. Cardinality(T) <= Cardinality(B)
    BY <2>1, <2>3, PodsCount
  <2>5. Cardinality(B) \in Nat /\ Cardinality(A) \in Nat /\ Cardinality(T) \in Nat
    BY <2>1, <2>3, PodsFinite
  <2>6. Cardinality(B) >= Cardinality(A) - Cardinality(D)
    BY <2>2, <2>4, <2>5
  <2> QED BY <2>2, <2>6 DEF A, B, D
<1>7. V <= e /\ f - Q <= e /\ V <= f
  <2>1. U + c.create <= e /\ f - (O - d) <= e /\ U <= f /\ (c.create > 0 => U + c.create <= f)
    BY DEF Few
  <2>2. V <= U + c.create
    BY <1>2
  <2> HIDE DEF U, V, O, Q, d, f, e
  <2> QED BY <1>4, <1>5, <1>6, <2>1, <2>2
<1>8. Within(pod', r, n)
  BY <1>7 DEF Within
<1>9. Lock(pod')
  BY <1>1, <1>2, <1>3, <1>8, LockGrows
<1>10. Few(pod')
  BY <1>3, <1>7 DEF Few
<1> QED BY <1>2, <1>9, <1>10

(* Scale keeps the roles together: it only fills or trims what the last    *)
(* step left.                                                              *)
LEMMA ScaleLock ==
  ASSUME TInv, ScaleRole, cache = pod, Tidy(pod), Few(pod), Lock(pod)
  PROVE  /\ Tidy(pod') /\ Few(pod') /\ Lock(pod')
         /\ \A s \in Roles : NewReady(pod, s) \subseteq NewReady(pod', s)
<1> DEFINE r == Head(run.todo)
<1>1. SpecOK /\ r \in Roles /\ PodsOK(pod)
  BY HeadFacts DEF ScaleRole, TInv, PodInv
<1>2. PICK c \in Scale(cache, r) : Call(r, c)
  BY DEF ScaleRole, Call
<1> HIDE DEF r
<1> DEFINE U == Cardinality(Updated(pod, r))
           O == Cardinality(Outdated(pod, r))
           A == Cardinality(Active(pod, r))
           d == Cardinality(c.delete \cap Outdated(pod, r))
           f == replicas[r]
<1>3. Draining(pod, r) \cap Updated(pod, r) = {}
  BY DEF Tidy, Draining, Updated, Active, Listed
<1>4. /\ c.delete \cap Updated(pod, r) = {}
      /\ d > 0 => d <= A - f
      /\ c.create > 0 => d = 0
  BY <1>1, <1>2, <1>3, ScaleNew DEF Few
<1>5. c.create \in Nat /\ (c.create > 0 => A + c.create <= f)
  BY <1>1, <1>2, ScaleFacts
<1>6. /\ U \in Nat /\ O \in Nat /\ A \in Nat /\ f \in Nat /\ StepLength(r) \in Nat
      /\ A = U + O
  BY <1>1, FilterCounts, StrategyFacts
<1>7. d \in Nat
  <2>1. c.delete \cap Outdated(pod, r) \subseteq Pods
    BY FilterFacts
  <2> QED BY <2>1, PodsFinite
<1>8. PICK n \in Nat : Within(pod, r, n) /\ Reached(pod, n)
  BY <1>1 DEF Lock
<1> DEFINE e == n * StepLength(r)
<1>9. U <= e /\ f - O <= e /\ e \in Int
  BY <1>6, <1>8 DEF Within
<1>10. /\ c.create > 0 => U + c.create <= f
       /\ U + c.create <= e /\ f - (O - d) <= e
  <2> HIDE DEF U, O, A, d, f, e
  <2> QED BY <1>4, <1>5, <1>6, <1>7, <1>9
<1> QED BY <1>1, <1>2, <1>4, <1>8, <1>10, CallLock

(* A rollout by steps goes no further than the step planned. *)
LEMMA RollLock ==
  ASSUME TInv, RollRole, cache = pod, config.strategy = "Interleave",
         Tidy(pod), Few(pod), Lock(pod), Reached(pod, run.step)
  PROVE  /\ Tidy(pod') /\ Few(pod') /\ Lock(pod')
         /\ \A s \in Roles : NewReady(pod, s) \subseteq NewReady(pod', s)
<1> DEFINE r == Head(run.todo)
<1>1. SpecOK /\ r \in Roles /\ PodsOK(pod) /\ run.step \in Nat
  BY HeadFacts DEF RollRole, TInv, PodInv, LoopInv, RunType
<1>2. PICK c \in RollChoice(cache, r, run.step) : Call(r, c)
  BY DEF RollRole, RollChoice, Call
<1> HIDE DEF r
<1> DEFINE U == Cardinality(Updated(pod, r))
           O == Cardinality(Outdated(pod, r))
           d == Cardinality(c.delete \cap Outdated(pod, r))
           f == replicas[r]
           L == StepLength(r)
           m == (MaxSurge(r) + MaxUnavailable(r)) * run.step
<1>3. c.create \in Nat /\ c.delete \subseteq Outdated(pod, r)
  BY <1>1, <1>2, RollShape
<1>4. c.delete \cap Updated(pod, r) = {}
  BY <1>3 DEF Outdated
<1>5. c.delete \cap Outdated(pod, r) = c.delete \cap ReadyPods(pod, r)
  <2>1. Outdated(pod, r) \subseteq ReadyPods(pod, r)
    BY DEF Tidy, Outdated, Updated, ReadyPods, Active, Listed
  <2> QED BY <1>3, <2>1
<1>6. /\ c.create > 0 => U + c.create <= f
      /\ c.create > 0 => U + c.create <= m
      /\ d > 0 => f - (O - d) <= m
  <2>1. /\ c.create > 0 => U + c.create <= f
        /\ c.create > 0 => U + c.create <= m
        /\ Cardinality(c.delete \cap ReadyPods(pod, r)) > 0 =>
              f - (O - Cardinality(c.delete \cap ReadyPods(pod, r))) <= m
    BY <1>1, <1>2, RollFacts
  <2> QED BY <1>5, <2>1
<1>7. /\ U \in Nat /\ O \in Nat /\ f \in Nat /\ L \in Nat
      /\ MaxSurge(r) \in Nat /\ MaxUnavailable(r) \in Nat
      /\ MaxSurge(r) + MaxUnavailable(r) <= L
  BY <1>1, FilterCounts, StrategyFacts
<1>8. d \in Nat
  <2>1. c.delete \cap Outdated(pod, r) \subseteq Pods
    BY FilterFacts
  <2> QED BY <2>1, PodsFinite
<1>9. PICK k \in Nat : Within(pod, r, k) /\ Reached(pod, k)
  BY <1>1 DEF Lock
<1>10. PICK n \in {k, run.step} : k <= n /\ run.step <= n
  BY <1>1
<1>11. n \in Nat /\ Reached(pod, n)
  BY <1>1, <1>9, <1>10
<1> DEFINE e == n * L
<1>12. U <= e /\ f - O <= e /\ m <= e /\ e \in Int /\ m \in Int
  <2>1. k * L <= e /\ run.step * L <= e /\ e \in Int
    BY <1>1, <1>7, <1>10, <1>11, StepProduct
  <2> DEFINE g == MaxSurge(r) + MaxUnavailable(r)
  <2>2. g \in Int /\ L \in Int /\ g <= L
    BY <1>7
  <2> HIDE DEF g, L
  <2>3. g * run.step <= L * run.step /\ g * run.step \in Int
    BY <1>1, <2>2, StepProduct
  <2>4. L * run.step = run.step * L /\ k * L \in Int /\ run.step * L \in Int
    BY <1>1, <2>2
  <2>5. m = g * run.step
    BY DEF g
  <2>6. U <= k * L /\ f - O <= k * L
    BY <1>9 DEF Within, L
  <2> DEFINE x == k * L
             y == run.step * L
  <2>7. /\ x <= e /\ y <= e /\ e \in Int /\ x \in Int /\ y \in Int /\ m <= y /\ m \in Int
        /\ U <= x /\ f - O <= x
    BY <2>1, <2>3, <2>4, <2>5, <2>6
  <2> HIDE DEF x, y, e, m, U, O, f
  <2> QED BY <1>7, <2>7
<1>13. U + c.create <= e /\ f - (O - d) <= e
  <2> HIDE DEF U, O, d, f, e, m
  <2> QED BY <1>3, <1>6, <1>7, <1>8, <1>12
<1> QED BY <1>1, <1>2, <1>4, <1>6, <1>11, <1>13, CallLock

(* Kubelets and the clock change no role's pods, but for their readiness. *)
LEMMA PodStepLock ==
  ASSUME TInv, NEW p \in Pods, PodStep(p), Tidy(pod), Few(pod), Lock(pod)
  PROVE  /\ Tidy(pod') /\ Few(pod') /\ Lock(pod')
         /\ \A s \in Roles : NewReady(pod, s) \subseteq NewReady(pod', s)
<1>1. PodsOK(pod) /\ SpecOK
  BY DEF TInv, PodInv
<1>2. pod[p] # Gone /\ pod[p] \in PodType
  BY <1>1 DEF PodsOK, PodStep, PodReady, PodGone, DrainTimeout, Live
<1>3. \A q \in Pods : q # p => pod'[q] = pod[q]
  BY <1>1 DEF PodsOK, PodStep, PodReady, PodGone, DrainTimeout
<1>4. \/ pod'[p] = Gone /\ pod[p].dying
      \/ /\ pod'[p] # Gone /\ pod'[p].role = pod[p].role /\ pod'[p].hash = pod[p].hash
         /\ pod'[p].failed = pod[p].failed /\ pod'[p].dying = pod[p].dying
         /\ pod'[p].drain = pod[p].drain /\ (pod[p].ready => pod'[p].ready)
  <2>1. CASE PodGone(p)
    BY <1>1, <2>1 DEF PodGone, PodsOK
  <2>2. CASE PodReady(p) \/ DrainTimeout(p)
    <3>1. /\ pod'[p] \in PodType /\ pod'[p].role = pod[p].role /\ pod'[p].hash = pod[p].hash
          /\ pod'[p].failed = pod[p].failed /\ pod'[p].dying = pod[p].dying
          /\ pod'[p].drain = pod[p].drain /\ (pod[p].ready => pod'[p].ready)
      <4>1. CASE pod'[p] = [pod[p] EXCEPT !.ready = TRUE]
        BY <1>2, <4>1 DEF PodType
      <4>2. CASE pod'[p] = [pod[p] EXCEPT !.due = TRUE]
        BY <1>2, <4>2 DEF PodType
      <4> QED BY <1>1, <2>2, <4>1, <4>2 DEF PodReady, DrainTimeout, PodsOK
    <3>2. pod'[p] # Gone
      BY <1>1, <3>1, GoneFacts DEF SpecOK
    <3> QED BY <3>1, <3>2
  <2> QED BY <2>1, <2>2 DEF PodStep
<1>5. Tidy(pod')
  BY <1>2, <1>3, <1>4 DEF Tidy
<1>6. ASSUME NEW s \in Roles
      PROVE  /\ Updated(pod', s) = Updated(pod, s) /\ Outdated(pod', s) = Outdated(pod, s)
             /\ NewReady(pod, s) \subseteq NewReady(pod', s)
  <2>1. \A q \in Pods : q \in Active(pod', s) <=> q \in Active(pod, s)
    BY <1>2, <1>3, <1>4 DEF Active, Listed
  <2>2. Active(pod', s) = Active(pod, s) /\ Active(pod, s) \subseteq Pods
    BY <2>1, FilterFacts
  <2>3. \A q \in Active(pod, s) : pod'[q].hash = pod[q].hash /\ (pod[q].ready => pod'[q].ready)
    BY <1>2, <1>3, <1>4, <2>2 DEF Active
  <2>4. Updated(pod', s) = Updated(pod, s)
    BY <2>2, <2>3 DEF Updated
  <2>5. Outdated(pod', s) = Outdated(pod, s)
    BY <2>2, <2>4 DEF Outdated
  <2>6. ReadyPods(pod, s) \subseteq ReadyPods(pod', s)
    BY <2>2, <2>3 DEF ReadyPods
  <2> QED BY <2>4, <2>5, <2>6 DEF NewReady
<1>7. Few(pod')
  BY <1>6 DEF Few
<1>8. PICK q \in Roles : TRUE
  BY <1>2 DEF PodType
<1>9. \E n \in Nat : Within(pod', q, n) /\ Reached(pod, n)
  BY <1>6 DEF Lock, Within
<1>10. Lock(pod')
  BY <1>1, <1>6, <1>9, LockGrows
<1> QED BY <1>5, <1>6, <1>7, <1>10

(* The copy stays, or becomes current. *)
LEMMA CalmCache ==
  ASSUME TInv, Calm
  PROVE  cache' = pod' \/ \A s \in Roles : Same(cache, cache', s)
<1>1. PodsOK(cache) /\ SpecOK
  BY DEF TInv
<1>2. CASE cache' = cache
  BY <1>2 DEF Same
<1>3. CASE Still
  BY <1>2, <1>3 DEF Still
<1>4. CASE Watch
  BY <1>2, <1>4 DEF Watch
<1>5. ASSUME NEW p \in Pods, DrainTimeout(p), cache' # cache
      PROVE  \A s \in Roles : Same(cache, cache', s)
  <2>1. cache[p] # Gone /\ cache' = [cache EXCEPT ![p].due = TRUE]
    BY <1>5 DEF DrainTimeout
  <2>2. cache[p] \in PodType /\ \A q \in Pods : q # p => cache'[q] = cache[q]
    BY <1>1, <2>1 DEF PodsOK
  <2>3. /\ cache'[p] \in PodType /\ cache'[p].role = cache[p].role /\ cache'[p].hash = cache[p].hash
        /\ cache'[p].ready = cache[p].ready /\ cache'[p].failed = cache[p].failed
        /\ cache'[p].dying = cache[p].dying
    BY <1>1, <2>1, <2>2 DEF PodsOK, PodType
  <2>4. cache'[p] # Gone
    BY <1>1, <2>3, GoneFacts DEF SpecOK
  <2> SUFFICES ASSUME NEW s \in Roles PROVE Same(cache, cache', s)
    OBVIOUS
  <2>5. \A q \in Pods : q \in Listed(cache', s) <=> q \in Listed(cache, s)
    BY <2>1, <2>2, <2>3, <2>4 DEF Listed
  <2> QED BY <2>2, <2>3, <2>5, FilterFacts DEF Same
<1> QED BY <1>2, <1>3, <1>4, <1>5 DEF Calm, ScaleRole, RollRole, PodStep, PodReady, PodGone

(* The parts of the invariant after a step that leaves the spec alone. *)
LEMMA LockNext ==
  ASSUME UNCHANGED <<config, replicas, target>>
  PROVE  /\ Tidy(pod') => Tidy(pod)'
         /\ Few(pod') => Few(pod)'
         /\ \A n : Reached(pod', n) => Reached(pod, n)'
         /\ Lock(pod') => Lock(pod)'
         /\ Lock(cache') => Lock(cache)'
         /\ \A r : NewReady(pod, r)' = NewReady(pod', r) /\ NewReady(cache, r)' = NewReady(cache', r)
<1>1. Roles' = Roles
  BY DEF Roles
<1>2. \A r : /\ Updated(pod, r)' = Updated(pod', r) /\ Outdated(pod, r)' = Outdated(pod', r)
             /\ Updated(cache, r)' = Updated(cache', r) /\ Outdated(cache, r)' = Outdated(cache', r)
  BY DEF Updated, Outdated, Active, Listed
<1>3. \A r : NewReady(pod, r)' = NewReady(pod', r) /\ NewReady(cache, r)' = NewReady(cache', r)
  BY <1>2 DEF NewReady, ReadyPods, Active, Listed
<1>4. \A r : StepLength(r)' = StepLength(r)
  BY DEF StepLength, MaxSurge, MaxUnavailable
<1>5. Tidy(pod') => Tidy(pod)'
  BY DEF Tidy
<1>6. Few(pod') => Few(pod)'
  BY <1>1, <1>2 DEF Few
<1>7. \A n : /\ Reached(pod', n) => Reached(pod, n)'
             /\ Reached(cache', n) => Reached(cache, n)'
  BY <1>1, <1>3, <1>4 DEF Reached
<1>8. \A r, n : /\ Within(pod', r, n) => Within(pod, r, n)'
                /\ Within(cache', r, n) => Within(cache, r, n)'
  BY <1>2, <1>4 DEF Within
<1>9. (Lock(pod') => Lock(pod)') /\ (Lock(cache') => Lock(cache)')
  BY <1>1, <1>7, <1>8 DEF Lock
<1> QED BY <1>3, <1>5, <1>6, <1>7, <1>9

(* The update comes to a RoleSet that is up: no role has begun. *)
LEMMA LockBegins ==
  ASSUME TInv, UpInv, UpdateTemplate, PlainRollout'
  PROVE  /\ Tidy(pod)' /\ Few(pod)' /\ Lock(pod)' /\ Lock(cache)'
         /\ (\A r \in Roles : NewReady(cache, r) \subseteq NewReady(pod, r))'
         /\ (run.at = "roll" => Reached(pod, run.step))'
<1>1. SpecOK /\ edits \in Nat /\ PodsOK(pod)
  BY DEF TInv, PodInv
<1>2. /\ UNCHANGED <<config, replicas, pod, cache, run, faults>> /\ edits' = edits + 1
      /\ target' = [r \in Roles |-> CHOOSE h \in Hashes : h # target[r]]
      /\ run.at = "idle"
  BY DEF UpdateTemplate
<1>3. cache = pod /\ \A r \in Roles : Quiet(r)
  BY <1>1, <1>2 DEF PlainRollout, UpInv
<1>4. Roles' = Roles /\ \A r : StepLength(r)' = StepLength(r)
  BY <1>2 DEF Roles, StepLength, MaxSurge, MaxUnavailable
<1>5. \A r \in Roles : target'[r] # target[r]
  <2> TAKE r \in Roles
  <2>1. \E h \in Hashes : h # target[r]
    BY DEF Hashes
  <2> QED BY <1>2, <2>1
<1>6. ASSUME NEW r \in Roles
      PROVE  /\ Updated(pod, r)' = {} /\ Outdated(pod, r)' = Active(pod, r)
             /\ \A p \in Listed(pod, r) : p \in ReadyPods(pod, r) /\ pod[p].hash = target[r]
             /\ Cardinality(Active(pod, r)) = replicas[r]
  <2>1. Outdated(pod, r) = {} /\ Whole(pod, r) /\ Active(pod, r) = Listed(pod, r)
        /\ Cardinality(Active(pod, r)) = replicas[r]
    BY <1>3, WholeFacts DEF Quiet
  <2>2. \A p \in Active(pod, r) : pod[p].hash = target[r]
    BY <2>1 DEF Outdated, Updated
  <2>3. Updated(pod, r)' = {}
    BY <1>2, <1>5, <2>2 DEF Updated, Active, Listed
  <2>4. Active(pod, r)' = Active(pod, r)
    BY <1>2 DEF Active, Listed
  <2>5. Outdated(pod, r)' = Active(pod, r)
    BY <2>3, <2>4 DEF Outdated
  <2> QED BY <2>1, <2>2, <2>3, <2>5 DEF Whole
<1>7. Tidy(pod)'
  <2>1. ASSUME NEW p \in Pods, pod[p] # Gone
        PROVE  pod[p].hash # target'[pod[p].role] /\ pod[p].ready
    <3>1. pod[p].role \in Roles
      BY <1>1, <2>1 DEF PodsOK, PodType
    <3>2. p \in Listed(pod, pod[p].role)
      BY <2>1 DEF Listed
    <3> QED BY <1>5, <1>6, <3>1, <3>2 DEF ReadyPods
  <2> QED BY <1>2, <2>1 DEF Tidy
<1>8. Cardinality({}) = 0
  BY FS_EmptySet
<1>9. Few(pod)'
  <2>1. \A r \in Roles : replicas[r] \in Nat
    BY <1>1 DEF SpecOK
  <2> QED BY <1>2, <1>4, <1>6, <1>8, <2>1 DEF Few
<1>10. Reached(pod, 1)'
  <2> SUFFICES ASSUME NEW s \in Roles
               PROVE  Cardinality(NewReady(pod, s)') >= Min({(1 - 1) * StepLength(s), replicas[s]})
    BY <1>2, <1>4 DEF Reached
  <2>1. NewReady(pod, s)' = {}
    BY <1>6 DEF NewReady
  <2>2. StepLength(s) \in Nat /\ replicas[s] \in Nat
    BY <1>1, StrategyFacts
  <2>3. (1 - 1) * StepLength(s) = 0
    BY <2>2
  <2>4. Min({0, replicas[s]}) = 0
    <3> DEFINE f == replicas[s]
    <3>1. f \in Int /\ 0 \in Int /\ 0 <= f
      BY <2>2
    <3> HIDE DEF f
    <3>2. Min({0, f}) = IF 0 <= f THEN 0 ELSE f
      BY <3>1, MaxMin
    <3>3. Min({0, f}) = 0
      BY <3>1, <3>2
    <3> QED BY <3>3 DEF f
  <2> QED BY <1>8, <2>1, <2>3, <2>4
<1>11. ASSUME NEW r \in Roles PROVE Within(pod, r, 1)'
  <2> DEFINE l == StepLength(r)
             f == replicas[r]
  <2>1. l \in Nat /\ f \in Nat
    BY <1>1, StrategyFacts
  <2> HIDE DEF l, f
  <2>2. 0 <= 1 * l /\ f - f <= 1 * l
    BY <2>1
  <2>3. /\ Cardinality(Updated(pod, r)') = 0 /\ Cardinality(Outdated(pod, r)') = f
    BY <1>6, <1>8 DEF f
  <2>4. StepLength(r)' = l /\ replicas'[r] = f
    BY <1>2, <1>4 DEF l, f
  <2> QED BY <2>2, <2>3, <2>4 DEF Within
<1>12. Lock(pod)'
  BY <1>4, <1>10, <1>11 DEF Lock
<1>13. cache' = pod'
  BY <1>2, <1>3
<1>14. Lock(cache)'
  <2>1. \A r \in Roles : /\ Updated(cache, r)' = Updated(pod, r)'
                         /\ Outdated(cache, r)' = Outdated(pod, r)'
                         /\ NewReady(cache, r)' = NewReady(pod, r)'
    BY <1>13 DEF NewReady, Updated, Outdated, ReadyPods, Active, Listed
  <2>2. ASSUME NEW n \in Nat, Reached(pod, n)' PROVE Reached(cache, n)'
    BY <1>4, <2>1, <2>2 DEF Reached
  <2>3. ASSUME NEW r \in Roles, NEW n \in Nat, Within(pod, r, n)' PROVE Within(cache, r, n)'
    BY <2>1, <2>3 DEF Within
  <2> QED BY <1>4, <1>12, <2>2, <2>3 DEF Lock
<1>15. (\A r \in Roles : NewReady(cache, r) \subseteq NewReady(pod, r))'
  BY <1>13 DEF NewReady, Updated, ReadyPods, Active, Listed
<1>16. (run.at = "roll" => Reached(pod, run.step))'
  BY <1>2
<1> QED BY <1>7, <1>9, <1>12, <1>14, <1>15, <1>16

(* Every step keeps the roles together. *)
LEMMA StepKept ==
  ASSUME TInv, UpInv, StepInv, [Next]_vars
  PROVE  StepInv'
<1> SUFFICES ASSUME PlainRollout', config'.strategy = "Interleave"
             PROVE  /\ Tidy(pod)' /\ Few(pod)' /\ Lock(pod)' /\ Lock(cache)'
                    /\ (\A r \in Roles : NewReady(cache, r) \subseteq NewReady(pod, r))'
                    /\ (run.at = "roll" => Reached(pod, run.step))'
  BY DEF StepInv
<1>1. faults' = 0 /\ edits' = 1 /\ replicas' = config'.replicas /\ config'.settled
  BY DEF PlainRollout
<1>2. /\ faults = 0 /\ config' = config
      /\ \/ UpdateTemplate
         \/ \E r \in Roles, n \in config.sizes : Resize(r, n)
         \/ UNCHANGED <<replicas, target, edits>> /\ Calm
  BY <1>1, CalmSteps
<1>3. CASE UpdateTemplate
  BY <1>3, LockBegins
<1>4. ASSUME NEW r \in Roles, NEW n \in config.sizes, Resize(r, n) PROVE FALSE
  <2>1. edits \in Nat /\ replicas \in [Roles -> Nat]
    BY DEF TInv, SpecOK
  <2>2. edits = 0
    BY <1>1, <1>4, <2>1 DEF Resize
  <2>3. replicas = config.replicas
    BY <1>1, <1>2, <2>2 DEF UpInv
  <2>4. replicas'[r] # replicas[r]
    BY <1>4, <2>1 DEF Resize
  <2> QED BY <1>1, <1>2, <2>3, <2>4
<1>5. ASSUME UNCHANGED <<replicas, target, edits>>, Calm
      PROVE  /\ Tidy(pod)' /\ Few(pod)' /\ Lock(pod)' /\ Lock(cache)'
             /\ (\A r \in Roles : NewReady(cache, r) \subseteq NewReady(pod, r))'
             /\ (run.at = "roll" => Reached(pod, run.step))'
  <2>1. PlainRollout /\ config.strategy = "Interleave"
    BY <1>1, <1>2, <1>5 DEF PlainRollout
  <2>2. /\ Tidy(pod) /\ Few(pod) /\ Lock(pod) /\ Lock(cache)
        /\ \A r \in Roles : NewReady(cache, r) \subseteq NewReady(pod, r)
        /\ run.at = "roll" => Reached(pod, run.step)
    BY <2>1 DEF StepInv
  <2>3. SpecOK /\ LoopInv /\ run \in RunType /\ run.step \in Nat
    BY DEF TInv, LoopInv, RunType
  <2>4. /\ Tidy(pod') /\ Few(pod') /\ Lock(pod')
        /\ \A s \in Roles : NewReady(pod, s) \subseteq NewReady(pod', s)
    <3>1. CASE Still
      <4>1. pod' = pod
        BY <3>1 DEF Still
      <4> QED BY <2>2, <4>1
    <3>2. CASE ScaleRole /\ cache = pod
      BY <2>2, <3>2, ScaleLock
    <3>3. CASE RollRole /\ cache = pod
      <4>1. Reached(pod, run.step)
        BY <2>2, <3>3 DEF RollRole
      <4> QED BY <2>1, <2>2, <3>3, <4>1, RollLock
    <3>4. CASE \E p \in Pods : PodStep(p)
      BY <2>2, <3>4, PodStepLock
    <3> QED BY <1>5, <3>1, <3>2, <3>3, <3>4 DEF Calm
  <2>5. /\ Lock(cache')
        /\ \A r \in Roles : NewReady(cache', r) \subseteq NewReady(pod', r)
    <3>1. CASE cache' = pod'
      BY <2>4, <3>1
    <3>2. CASE \A s \in Roles : Same(cache, cache', s)
      <4>1. \A s \in Roles : /\ NewReady(cache', s) = NewReady(cache, s)
                             /\ Updated(cache', s) = Updated(cache, s)
                             /\ Outdated(cache', s) = Outdated(cache, s)
        BY <3>2, SameFilters DEF NewReady
      <4>2. PICK q \in Roles : TRUE
        <5>1. 1 \in Roles
          BY <2>3, ConfigFacts DEF SpecOK
        <5> QED BY <5>1
      <4>3. \E n \in Nat : Within(cache', q, n) /\ Reached(cache, n)
        BY <2>2, <4>1 DEF Lock, Within
      <4>4. Lock(cache')
        BY <2>2, <2>3, <4>1, <4>3, LockGrows
      <4> QED BY <2>2, <2>4, <4>1, <4>4
    <3> QED BY <1>5, <3>1, <3>2, CalmCache
  <2>6. ASSUME run'.at = "roll"
        PROVE  Reached(pod', run'.step)
    <3>1. CASE Plan
      <4>1. /\ Reached(pod, run'.step) /\ pod' = pod
        BY <2>1, <2>2, <2>6, <3>1, PlanReached DEF Plan
      <4> QED BY <4>1
    <3>2. CASE run.at = "roll" /\ run'.step = run.step
      <4>1. Reached(pod, run.step) /\ run.step \in Int
        BY <2>2, <2>3, <3>2
      <4> QED BY <2>3, <2>4, <3>2, <4>1, ReachedStays
    <3>3. CASE Begin
      BY <2>6, <3>3 DEF Begin, Idle
    <3>4. CASE UpdateStatus
      <4>1. run' = Idle
        BY <3>4 DEF UpdateStatus
      <4> QED BY <2>6, <4>1 DEF Idle
    <3>5. CASE Sync \/ UNCHANGED vars \/ \E p \in Pods : PodStep(p)
      <4>1. run' = run
        BY <3>5 DEF Sync, vars, PodStep, PodReady, PodGone, DrainTimeout, ControlPlane
      <4> QED BY <2>6, <3>2, <4>1
    <3>6. CASE ScaleRole
      <4>1. run'.at # "roll"
        BY <2>3, <3>6 DEF ScaleRole, Failed, RunType
      <4> QED BY <2>6, <4>1
    <3>7. CASE RollRole
      <4>1. run.at = "roll" /\ run'.step = run.step
        BY <2>3, <3>7 DEF RollRole, Failed, RunType
      <4> QED BY <3>2, <4>1
    <3> QED BY <1>5, <3>1, <3>3, <3>4, <3>5, <3>6, <3>7 DEF Calm, Still
  <2>7. UNCHANGED <<config, replicas, target>>
    BY <1>2, <1>5
  <2>8. (\A r \in Roles : NewReady(cache, r) \subseteq NewReady(pod, r))'
    BY <2>5, <2>7, LockNext, SpecKept
  <2>9. (run.at = "roll" => Reached(pod, run.step))'
    BY <2>6, <2>7, LockNext
  <2> QED BY <2>4, <2>5, <2>7, <2>8, <2>9, LockNext
<1> QED BY <1>2, <1>3, <1>4, <1>5

(* Within a step everyone has reached, nobody is a step ahead. *)
LEMMA LockSteps ==
  ASSUME SpecOK, Lock(pod), NEW r \in Roles, NEW s \in Roles
  PROVE  Cardinality(NewReady(pod, s))
           >= Min({(StepsStarted(r) - 1) * StepLength(s), replicas[s]})
<1> DEFINE u == Cardinality(Updated(pod, r))
           l == StepLength(r)
           k == StepsStarted(r)
<1>1. PICK n \in Nat : Within(pod, r, n) /\ Reached(pod, n)
  BY DEF Lock
<1>2. u \in Nat /\ l \in Nat /\ l >= 1 /\ u <= n * l
  BY <1>1, FilterCounts, StrategyFacts DEF Within
<1>3. k = (u + l - 1) \div l
  BY DEF StepsStarted
<1> HIDE DEF u, l
<1> DEFINE d == u + l - 1
<1>4. d \in Nat
  BY <1>2
<1>5. d < (n + 1) * l
  <2> DEFINE a == n * l
             b == (n + 1) * l
  <2>1. b = a + l /\ a \in Int
    BY <1>2
  <2>2. u <= a
    BY <1>2
  <2> HIDE DEF a, b
  <2>3. u + l - 1 < b
    BY <1>2, <2>1, <2>2
  <2> QED BY <2>3 DEF b
<1>6. d \div l \in Nat /\ d \div l <= n
  <2> HIDE DEF d
  <2> QED BY <1>2, <1>4, <1>5, WholeSteps
<1>7. k \in Int /\ n \in Int /\ k <= n
  BY <1>3, <1>6
<1> HIDE DEF k, d
<1>8. Reached(pod, k)
  BY <1>1, <1>7, ReachedBefore
<1>9. Cardinality(NewReady(pod, s)) >= Min({(k - 1) * StepLength(s), replicas[s]})
  BY <1>8 DEF Reached
<1> QED BY <1>9 DEF k

(* For any roles, replicas, surges and drains, and a plan that is made     *)
(* from a stale list (calls on one are faults, which PlainRollout leaves   *)
(* out):                                                                   *)
(* "interleaved rollout: update roles in alternating steps" (rolling.go)   *)
(* holds step for step: while a role has pods of its n-th step, every role *)
(* has finished its step n - 1, although the step is computed anew from    *)
(* the counts of a cached list in every pass (CheckCurrentStep).           *)
THEOREM LockstepCorrect == Spec => []InterleaveLockstep
<1>1. Init => StepInv
  BY DEF Init, StepInv, PlainRollout
<1>2. TInv /\ UpInv /\ StepInv /\ [Next]_vars => StepInv'
  BY StepKept
<1>3. TInv /\ StepInv => InterleaveLockstep
  <2> SUFFICES ASSUME TInv, StepInv, PlainRollout, config.strategy = "Interleave",
                      NEW r \in Roles, NEW s \in Roles
               PROVE  Cardinality(Updated(pod, s) \cap ReadyPods(pod, s))
                        >= Min({(StepsStarted(r) - 1) * StepLength(s), replicas[s]})
    BY DEF InterleaveLockstep
  <2>1. SpecOK /\ Lock(pod)
    BY DEF TInv, StepInv
  <2>2. Cardinality(NewReady(pod, s)) >= Min({(StepsStarted(r) - 1) * StepLength(s), replicas[s]})
    BY <2>1, LockSteps
  <2> QED BY <2>2 DEF NewReady
<1> QED BY <1>1, <1>2, <1>3, UpHolds, PTL DEF Spec
=============================================================================
