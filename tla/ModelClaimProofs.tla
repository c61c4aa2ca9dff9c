-------------------------- MODULE ModelClaimProofs --------------------------
(***************************************************************************)
(* The ModelClaim controller for any claims, card, footprints, floors and  *)
(* startup capacity, and any number of faults and bursts.                  *)
(*                                                                         *)
(* Three invariants carry the results.  AInv is the types, what a pass     *)
(* knows of its claim in each of its steps, and that the limits of the     *)
(* plan it carries out fit the card.  BInv relates the records of the      *)
(* claims to that plan: each record is the planned one or the one from     *)
(* before, and none has gone up while one has still to come down, so any   *)
(* mixture of old and new records fits.  AnswerInv is about the engines    *)
(* that are up and the copy of the claim a pass relies on.  Each is kept   *)
(* by every step, action by action; the lemmas named ...Types, ...Records  *)
(* and ...Answers are the three groups.                                    *)
(***************************************************************************)
EXTENDS ModelClaim, SumTheorems

-----------------------------------------------------------------------------
(* Arithmetic of the plan.                                                 *)

(* The larger of two. *)
LEMMA MaxOfTwo ==
  ASSUME NEW x \in Int, NEW y \in Int
  PROVE  Max({x, y}) = IF x >= y THEN x ELSE y
<1> DEFINE m == IF x >= y THEN x ELSE y
<1>1. m \in {x, y} /\ \A z \in {x, y} : m >= z
  OBVIOUS
<1>2. \A z \in {x, y} : (\A w \in {x, y} : z >= w) => z = m
  OBVIOUS
<1>3. QED
  <2> HIDE DEF m
  <2>1. Max({x, y}) = m
    BY <1>1, <1>2 DEF Max
  <2> QED BY <2>1 DEF m

(* The smaller of two. *)
LEMMA MinOfTwo ==
  ASSUME NEW x \in Int, NEW y \in Int
  PROVE  Min({x, y}) = IF x <= y THEN x ELSE y
<1> DEFINE m == IF x <= y THEN x ELSE y
<1>1. m \in {x, y} /\ \A z \in {x, y} : m <= z
  OBVIOUS
<1>2. \A z \in {x, y} : (\A w \in {x, y} : z <= w) => z = m
  OBVIOUS
<1>3. QED
  <2> HIDE DEF m
  <2>1. Min({x, y}) = m
    BY <1>1, <1>2 DEF Min
  <2> QED BY <2>1 DEF m

(* The values of a function on a finite set are finitely many. *)
LEMMA FiniteImage ==
  ASSUME NEW S, IsFiniteSet(S), NEW f, NEW T, T = {f[x] : x \in S}
  PROVE  IsFiniteSet(T)
<1> DEFINE g == [x \in S |-> f[x]]
<1>1. g \in Surjection(S, T)
  BY DEF Surjection
<1> HIDE DEF g
<1> QED BY <1>1, FS_Surjection

IndexOf(c) == CHOOSE i \in DOMAIN Order : Order[i] = c

(* The claims are finitely many, and each has one place in the order of names. *)
LEMMA OrderFacts ==
  /\ IsFiniteSet(Claims) /\ Order[1] \in Claims
  /\ \A c \in Claims : IndexOf(c) \in Nat /\ Order[IndexOf(c)] = c
<1>1. Order \in Seq(Claims) /\ Order # << >>
  BY ConstantsAssumption
<1>2. DOMAIN Order = 1..Len(Order) /\ Len(Order) \in Nat
  BY <1>1
<1>3. 1 \in DOMAIN Order
  BY <1>1, <1>2
<1>4. Order[1] \in Claims
  BY <1>3 DEF Claims, Range
<1>5. ASSUME NEW c \in Claims PROVE IndexOf(c) \in Nat /\ Order[IndexOf(c)] = c
  <2>1. \E i \in DOMAIN Order : Order[i] = c
    BY DEF Claims, Range
  <2>2. IndexOf(c) \in DOMAIN Order /\ Order[IndexOf(c)] = c
    BY <2>1 DEF IndexOf
  <2> QED BY <2>2, <1>2
<1>6. IsFiniteSet(Claims)
  <2>1. IsFiniteSet(1..Len(Order))
    BY <1>2, FS_Interval
  <2>2. Claims = {Order[i] : i \in 1..Len(Order)}
    BY <1>2 DEF Claims, Range
  <2> QED BY <2>1, <2>2, FiniteImage
<1> QED BY <1>4, <1>5, <1>6

-----------------------------------------------------------------------------
(* The engines of a plan, and the limits it gives them. *)
Phases == {"none", "booting", "active", "restarting", "stopping", "failed"}
EngineType == [phase : Phases, cap : NoSegment..KVMost, used : 0..KVMost]
ObservedType == [phase : Phases, cap : NoSegment..KVMost, used : 0..KVMost, busy : BOOLEAN]
EntryType ==
  [c : Claims, new : BOOLEAN, floor : Nat \ {0}, used : 0..KVMost, cap : NoSegment..KVMost,
   rec : 0..Card, ceiling : {-1, Startup}, weight : {1, 2}]
LimitType == [e : EntryType, limit : 1..Card]

(* A claim has at most one engine on the card and one newcomer. *)
OneEach(es) == \A x, y \in es : (x.c = y.c /\ x.new = y.new) => x = y
EntriesOK(es) == es \subseteq EntryType /\ IsFiniteSet(es) /\ OneEach(es)

PlanTotal(p) == SumFunctionOnSet([l \in p |-> Footprint[l.e.c] + l.limit], p)

(* The constants as numbers. *)
LEMMA Constants ==
  /\ Card \in Nat /\ Startup \in Nat \ {0} /\ MaxFaults \in Nat /\ MaxBursts \in Nat
  /\ \A c \in Claims : Footprint[c] \in Nat \ {0} /\ KVFloor[c] \in Nat \ {0}
  /\ KVMost \in Nat /\ Card <= KVMost /\ Startup <= KVMost
<1>1. /\ Card \in Nat /\ Startup \in Nat \ {0} /\ MaxFaults \in Nat /\ MaxBursts \in Nat
      /\ \A c \in Claims : Footprint[c] \in Nat \ {0} /\ KVFloor[c] \in Nat \ {0}
  BY ConstantsAssumption
<1>2. KVMost = IF Card >= Startup THEN Card ELSE Startup
  BY <1>1, MaxOfTwo DEF KVMost
<1> QED BY <1>1, <1>2

(* What an engine of a plan holds. *)
LEMMA HeldFacts ==
  ASSUME NEW e \in EntryType
  PROVE  /\ KVHeld(e) \in Nat \ {0} /\ e.used <= KVHeld(e) /\ e.floor <= KVHeld(e)
         /\ HeldBytes(e) \in Nat /\ HeldBytes(e) = Footprint[e.c] + KVHeld(e)
         /\ Footprint[e.c] \in Nat \ {0}
<1>1. /\ e.c \in Claims /\ e.used \in Int /\ e.used >= 0 /\ e.floor \in Nat \ {0}
  BY Constants DEF EntryType
<1>2. KVHeld(e) = IF e.used >= e.floor THEN e.used ELSE e.floor
  BY <1>1, MaxOfTwo DEF KVHeld
<1>3. Footprint[e.c] \in Nat \ {0}
  BY <1>1, Constants
<1> QED BY <1>1, <1>2, <1>3 DEF HeldBytes

(* Different engines of a plan have different places in its order. *)
LEMMA PositionFacts ==
  ASSUME NEW es, EntriesOK(es)
  PROVE  /\ \A e \in es : Position(e) \in Nat
         /\ \A x, y \in es : Position(x) = Position(y) => x = y
<1>1. ASSUME NEW e \in es
      PROVE  /\ e.c \in Claims /\ e.new \in BOOLEAN /\ IndexOf(e.c) \in Nat
             /\ Position(e) = 2 * IndexOf(e.c) + (IF e.new THEN 1 ELSE 0)
  <2>1. e.c \in Claims /\ e.new \in BOOLEAN
    BY DEF EntriesOK, EntryType
  <2> QED BY <2>1, OrderFacts DEF Position, IndexOf
<1>2. ASSUME NEW x \in es, NEW y \in es, Position(x) = Position(y) PROVE x = y
  <2> DEFINE i == IndexOf(x.c)  j == IndexOf(y.c)
             m == IF x.new THEN 1 ELSE 0  n == IF y.new THEN 1 ELSE 0
  <2>1. i \in Nat /\ j \in Nat /\ m \in {0, 1} /\ n \in {0, 1} /\ 2 * i + m = 2 * j + n
    BY <1>1, <1>2
  <2>2. i = j /\ m = n
    <3> HIDE DEF i, j, m, n
    <3> QED BY <2>1
  <2>3. x.c = y.c
    BY <2>2, <1>1, OrderFacts
  <2>4. x.new = y.new
    BY <2>2, <1>1
  <2> QED BY <2>3, <2>4 DEF EntriesOK, OneEach
<1> QED BY <1>1, <1>2

(* Ranks are numbers from 1, and each belongs to one engine. *)
LEMMA RankFacts ==
  ASSUME NEW es, EntriesOK(es)
  PROVE  /\ \A e \in es : Rank(es, e) \in Nat /\ Rank(es, e) >= 1
         /\ \A x, y \in es : Rank(es, x) = Rank(es, y) => x = y
<1> DEFINE Low(e) == {f \in es : Position(f) <= Position(e)}
<1>0. IsFiniteSet(es)
  BY DEF EntriesOK
<1>1. ASSUME NEW e \in es
      PROVE  /\ Low(e) \subseteq es /\ IsFiniteSet(Low(e)) /\ e \in Low(e)
             /\ Rank(es, e) = Cardinality(Low(e)) /\ Cardinality(Low(e)) \in Nat
  <2>1. Low(e) \subseteq es /\ e \in Low(e)
    BY PositionFacts
  <2>2. Rank(es, e) = Cardinality(Low(e))
    BY DEF Rank
  <2> HIDE DEF Low
  <2> QED BY <1>0, <2>1, <2>2, FS_Subset, FS_CardinalityType
<1>2. ASSUME NEW e \in es PROVE Rank(es, e) >= 1
  <2>1. Cardinality(Low(e)) # 0
    <3> HIDE DEF Low
    <3> QED BY <1>1, FS_EmptySet
  <2> HIDE DEF Low
  <2> QED BY <1>1, <2>1
<1>3. ASSUME NEW x \in es, NEW y \in es, Position(x) < Position(y)
      PROVE  Rank(es, x) # Rank(es, y)
  <2>1. Low(x) \subseteq Low(y) /\ y \notin Low(x) /\ y \in Low(y)
    BY <1>3, PositionFacts
  <2>2. Low(x) # Low(y)
    BY <2>1
  <2>3. Cardinality(Low(x)) < Cardinality(Low(y))
    <3> HIDE DEF Low
    <3> QED BY <1>1, <2>1, <2>2, FS_Subset
  <2> HIDE DEF Low
  <2> QED BY <1>1, <2>3
<1>4. ASSUME NEW x \in es, NEW y \in es, Rank(es, x) = Rank(es, y) PROVE x = y
  <2>1. Position(x) \in Nat /\ Position(y) \in Nat
    BY PositionFacts
  <2>2. Position(x) = Position(y)
    BY <1>3, <1>4, <2>1
  <2> QED BY <2>2, PositionFacts
<1> QED BY <1>1, <1>2, <1>4

(* The shares: none is negative, and together they are no more than what is spare. *)
LEMMA ShareFacts ==
  ASSUME NEW es, EntriesOK(es), es # {}, Spare(es) >= 0
  PROVE  /\ Spare(es) \in Nat
         /\ \A e \in es : Extra(es, e) \in Nat
         /\ LeftOver(es) \in Nat
         /\ SumFunctionOnSet([e \in es |-> HeldBytes(e)], es) \in Nat
         /\ SumFunctionOnSet([e \in es |-> Extra(es, e)], es) \in Nat
         /\ Spare(es) = Card - SumFunctionOnSet([e \in es |-> HeldBytes(e)], es)
         /\ LeftOver(es) = Spare(es) - SumFunctionOnSet([e \in es |-> Extra(es, e)], es)
<1>0. IsFiniteSet(es) /\ es \subseteq EntryType
  BY DEF EntriesOK
<1> DEFINE held == [e \in es |-> HeldBytes(e)]
           w == [e \in es |-> e.weight]
           x == [e \in es |-> Extra(es, e)]
<1>1. SumFunctionOnSet(held, es) \in Nat
  <2>1. \A e \in es : held[e] \in Nat
    BY <1>0, HeldFacts
  <2> HIDE DEF held
  <2> QED BY <1>0, <2>1, SumNat
<1>2. Spare(es) = Card - SumFunctionOnSet(held, es)
  BY DEF Spare, Total
<1>3. Spare(es) \in Nat
  <2> HIDE DEF held
  <2> QED BY <1>1, <1>2, Constants
<1>4. \A e \in es : w[e] \in {1, 2}
  BY <1>0 DEF EntryType
<1>5. Weights(es) = SumFunctionOnSet(w, es)
  BY DEF Weights, Total
<1>6. SumFunctionOnSet(w, es) \in Nat /\ SumFunctionOnSet(w, es) >= 1
  <2>1. PICK e \in es : TRUE
    OBVIOUS
  <2>2. (\A y \in es : w[y] \in Int /\ w[y] \in Nat) /\ w[e] \in Int /\ w[e] >= 1
    BY <1>4
  <2>3. IsFiniteSet(es \ {e})
    BY <1>0, FS_Subset
  <2> HIDE DEF w
  <2>4. SumFunctionOnSet(w, es) = w[e] + SumFunctionOnSet(w, es \ {e})
    BY <1>0, <2>2, SumTakeOut
  <2>5. SumFunctionOnSet(w, es \ {e}) \in Nat
    BY <2>2, <2>3, SumNat
  <2> QED BY <2>2, <2>4, <2>5
<1>7. PICK s \in Nat : s = Spare(es)
  BY <1>3
<1>8. PICK k \in Nat : k = Weights(es) /\ k >= 1
  BY <1>5, <1>6
<1>9. ASSUME NEW e \in es PROVE x[e] \in Nat /\ k * x[e] <= s * w[e] /\ w[e] \in Nat
  <2>1. x[e] = (s * w[e]) \div k
    BY <1>7, <1>8 DEF Extra
  <2>2. w[e] \in Nat
    BY <1>4
  <2>3. ASSUME NEW n \in Nat PROVE s * n \in Nat
    OBVIOUS
  <2>4. ASSUME NEW n \in Nat PROVE (n \div k) \in Nat /\ k * (n \div k) <= n
    BY <1>8
  <2> HIDE DEF x, w
  <2> QED BY <2>1, <2>2, <2>3, <2>4
<1>10. SumFunctionOnSet(x, es) \in Nat
  <2>1. \A e \in es : x[e] \in Nat
    BY <1>9
  <2> HIDE DEF x
  <2> QED BY <1>0, <2>1, SumNat
<1>11. k * SumFunctionOnSet(x, es) <= s * SumFunctionOnSet(w, es)
  <2> DEFINE kx == [e \in es |-> k * x[e]]  sw == [e \in es |-> s * w[e]]
  <2>1. \A e \in es : x[e] \in Int /\ kx[e] = k * x[e] /\ w[e] \in Int /\ sw[e] = s * w[e]
    BY <1>9
  <2>2. \A e \in es : kx[e] \in Int /\ sw[e] \in Int /\ kx[e] <= sw[e]
    <3> TAKE e \in es
    <3>1. kx[e] = k * x[e] /\ sw[e] = s * w[e] /\ x[e] \in Nat /\ w[e] \in Nat /\ k * x[e] <= s * w[e]
      BY <1>9
    <3>2. ASSUME NEW m \in Nat, NEW n \in Nat PROVE m * n \in Int
      OBVIOUS
    <3> HIDE DEF kx, sw, x, w
    <3> QED BY <3>1, <3>2
  <2> HIDE DEF kx, sw, x, w
  <2>3. SumFunctionOnSet(kx, es) = k * SumFunctionOnSet(x, es)
    BY <1>0, <2>1, SumScale
  <2>4. SumFunctionOnSet(sw, es) = s * SumFunctionOnSet(w, es)
    BY <1>0, <2>1, SumScale
  <2>5. SumFunctionOnSet(kx, es) <= SumFunctionOnSet(sw, es)
    BY <1>0, <2>2, SumMonotone
  <2> QED BY <2>3, <2>4, <2>5
<1>12. SumFunctionOnSet(x, es) <= s
  <2> HIDE DEF x, w
  <2>1. PICK t \in Nat : t = SumFunctionOnSet(x, es)
    BY <1>10
  <2>2. k * t <= s * k
    BY <1>5, <1>8, <1>11, <2>1
  <2>3. ASSUME t >= s + 1 PROVE FALSE
    <3>1. k * t >= k * (s + 1)
      BY <1>8, <2>3
    <3>2. k * (s + 1) = s * k + k
      OBVIOUS
    <3>3. k * t \in Int /\ s * k \in Int
      OBVIOUS
    <3> QED BY <1>8, <2>2, <3>1, <3>2, <3>3
  <2> QED BY <2>1, <2>3
<1>13. LeftOver(es) = s - SumFunctionOnSet(x, es)
  BY <1>7 DEF LeftOver, Total
<1> QED
  <2>1. LeftOver(es) \in Nat
    <3> HIDE DEF x
    <3> QED BY <1>10, <1>12, <1>13
  <2>2. \A e \in es : Extra(es, e) \in Nat
    BY <1>9
  <2> QED BY <1>1, <1>2, <1>3, <1>7, <1>10, <1>13, <2>1, <2>2

(* At most n engines have a rank of at most n. *)
LEMMA RankCount ==
  ASSUME NEW es, EntriesOK(es), NEW n \in Nat
  PROVE  SumFunctionOnSet([e \in es |-> IF Rank(es, e) <= n THEN 1 ELSE 0], es) <= n
<1>0. IsFiniteSet(es)
  BY DEF EntriesOK
<1> DEFINE f == [e \in es |-> IF Rank(es, e) <= n THEN 1 ELSE 0]
           T == {e \in es : Rank(es, e) <= n}
           one == [i \in 1..n |-> 1]
           rank == [e \in es |-> Rank(es, e)]
<1>1. IsFiniteSet(T) /\ T \in SUBSET es
  BY <1>0, FS_Subset
<1>2. SumFunctionOnSet(f, es) = SumFunctionOnSet(f, T)
  <2>1. (\A e \in es : f[e] \in Int) /\ \A e \in es \ T : f[e] = 0
    OBVIOUS
  <2> HIDE DEF f, T
  <2> QED BY <1>0, <1>1, <2>1, SumSupport
<1>3. IsFiniteSet(1..n)
  BY FS_Interval
<1>4. SumFunctionOnSet(f, T) <= SumFunctionOnSet(one, 1..n)
  <2>1. \A e \in T : f[e] \in Int /\ rank[e] \in 1..n /\ f[e] <= one[rank[e]]
    BY RankFacts
  <2>2. \A x, y \in T : rank[x] = rank[y] => x = y
    BY RankFacts
  <2>3. \A z \in 1..n : one[z] \in Nat
    OBVIOUS
  <2> HIDE DEF f, T, one, rank
  <2> QED BY <1>1, <1>3, <2>1, <2>2, <2>3, SumInto
<1>5. SumFunctionOnSet(one, 1..n) = n
  <2>1. \A i \in 1..n : one[i] = 1
    OBVIOUS
  <2>2. Cardinality(1..n) = n
    BY FS_Interval
  <2> HIDE DEF one
  <2> QED BY <1>3, <2>1, <2>2, SumOnes
<1>6. SumFunctionOnSet(f, T) \in Int
  <2>1. \A e \in T : f[e] \in Int
    OBVIOUS
  <2> HIDE DEF f, T
  <2> QED BY <1>1, <2>1, SumInt
<1> HIDE DEF f, T, one, rank
<1>7. SumFunctionOnSet(f, es) <= n
  BY <1>2, <1>4, <1>5, <1>6
<1> QED BY <1>7 DEF f

(* A plan: one limit for each engine, none of them zero, and with the footprints
   no more than the card in all. *)
LEMMA PlanFacts ==
  ASSUME NEW es, EntriesOK(es), es # {}, Plannable(es), NEW p, p = PlanKVLimits(es)
  PROVE  /\ p \subseteq LimitType /\ IsFiniteSet(p)
         /\ \A l \in p : l.e \in es
         /\ \A e \in es : \E l \in p : l.e = e
         /\ \A l, m \in p : l.e = m.e => l = m
         /\ PlanTotal(p) <= Card
<1>0. IsFiniteSet(es) /\ es \subseteq EntryType /\ Spare(es) >= 0
  BY DEF EntriesOK, Plannable
<1> DEFINE held == [e \in es |-> HeldBytes(e)]
           x == [e \in es |-> Extra(es, e)]
           one == [e \in es |-> IF Rank(es, e) <= LeftOver(es) THEN 1 ELSE 0]
           hx == [e \in es |-> held[e] + x[e]]
           all == [e \in es |-> hx[e] + one[e]]
           cost == [l \in p |-> Footprint[l.e.c] + l.limit]
           eng == [l \in p |-> l.e]
           lim == [e \in es |-> [e |-> e, limit |-> Limit(es, e)]]
<1>1. /\ p = {lim[e] : e \in es}
      /\ \A l \in p : l.e \in es /\ l.limit = Limit(es, l.e)
      /\ \A e \in es : \E l \in p : l.e = e
      /\ \A l, m \in p : l.e = m.e => l = m
  <2>1. \A l \in p : \E e \in es : l = [e |-> e, limit |-> Limit(es, e)]
    BY DEF PlanKVLimits
  <2>2. \A e \in es : [e |-> e, limit |-> Limit(es, e)] \in p
    BY DEF PlanKVLimits
  <2>3. \A l \in p : l.e \in es /\ l.limit = Limit(es, l.e) /\ l = lim[l.e]
    BY <2>1
  <2>4. \A e \in es : lim[e] \in p /\ lim[e].e = e
    BY <2>2
  <2> HIDE DEF lim
  <2> QED BY <2>3, <2>4
<1>2. IsFiniteSet(p)
  <2>1. p = {lim[e] : e \in es}
    BY <1>1
  <2> HIDE DEF lim
  <2> QED BY <1>0, <2>1, FiniteImage
<1>3. ASSUME NEW e \in es
      PROVE  /\ held[e] \in Nat /\ x[e] \in Nat /\ one[e] \in {0, 1}
             /\ hx[e] = held[e] + x[e] /\ all[e] = hx[e] + one[e]
             /\ Limit(es, e) \in Nat \ {0} /\ Footprint[e.c] \in Nat
             /\ Footprint[e.c] + Limit(es, e) <= all[e]
  <2>1. /\ KVHeld(e) \in Nat \ {0} /\ Footprint[e.c] \in Nat
        /\ held[e] = Footprint[e.c] + KVHeld(e) /\ held[e] \in Nat
    BY <1>0, HeldFacts
  <2>2. x[e] \in Nat /\ x[e] = Extra(es, e)
    BY <1>0, ShareFacts
  <2>3. one[e] \in {0, 1} /\ one[e] = IF Rank(es, e) <= LeftOver(es) THEN 1 ELSE 0
    OBVIOUS
  <2>4. hx[e] = held[e] + x[e] /\ all[e] = hx[e] + one[e]
    OBVIOUS
  <2>5. e.ceiling \in {-1, Startup} /\ Startup \in Nat \ {0}
    BY <1>0, Constants DEF EntryType
  <2>6. Limit(es, e) = Clamp(KVHeld(e) + x[e] + one[e], e.ceiling)
    BY DEF Limit
  <2> HIDE DEF held, x, one, hx, all
  <2>7. /\ Limit(es, e) \in Nat \ {0} /\ Limit(es, e) <= KVHeld(e) + x[e] + one[e]
    BY <2>1, <2>2, <2>3, <2>5, <2>6 DEF Clamp
  <2> QED BY <2>1, <2>2, <2>3, <2>4, <2>7
<1>4. SumFunctionOnSet(all, es) <= Card
  <2>1. \A e \in es : held[e] \in Int /\ x[e] \in Int /\ hx[e] \in Int /\ one[e] \in Int
    BY <1>3
  <2>2. (\A e \in es : hx[e] = held[e] + x[e]) /\ (\A e \in es : all[e] = hx[e] + one[e])
    BY <1>3
  <2>3. LeftOver(es) \in Nat
    BY <1>0, ShareFacts
  <2>4. SumFunctionOnSet(one, es) <= LeftOver(es)
    BY <2>3, RankCount
  <2>5. /\ Spare(es) = Card - SumFunctionOnSet(held, es)
        /\ LeftOver(es) = Spare(es) - SumFunctionOnSet(x, es)
    BY <1>0, ShareFacts
  <2> HIDE DEF held, x, one, hx, all
  <2>6. SumFunctionOnSet(hx, es) = SumFunctionOnSet(held, es) + SumFunctionOnSet(x, es)
    BY <1>0, <2>1, <2>2, SumPlus
  <2>7. SumFunctionOnSet(all, es) = SumFunctionOnSet(hx, es) + SumFunctionOnSet(one, es)
    BY <1>0, <2>1, <2>2, SumPlus
  <2>8. /\ SumFunctionOnSet(held, es) \in Int /\ SumFunctionOnSet(x, es) \in Int
        /\ SumFunctionOnSet(one, es) \in Int
    BY <1>0, <2>1, SumInt
  <2>9. Card \in Int
    BY Constants
  <2> QED BY <2>3, <2>4, <2>5, <2>6, <2>7, <2>8, <2>9
<1>5. \A l \in p : /\ cost[l] \in Nat /\ cost[l] = Footprint[l.e.c] + l.limit
                   /\ eng[l] = l.e /\ eng[l] \in es /\ cost[l] <= all[eng[l]]
                   /\ l.limit \in Nat \ {0} /\ Footprint[l.e.c] \in Nat
  <2> TAKE l \in p
  <2>1. l.e \in es /\ l.limit = Limit(es, l.e)
    BY <1>1
  <2>2. cost[l] = Footprint[l.e.c] + l.limit /\ eng[l] = l.e
    OBVIOUS
  <2> HIDE DEF cost, eng, all, hx, one, x, held
  <2> QED BY <1>3, <2>1, <2>2
<1>6. SumFunctionOnSet(cost, p) <= SumFunctionOnSet(all, es)
  <2>1. \A l \in p : cost[l] \in Int /\ eng[l] \in es /\ cost[l] <= all[eng[l]]
    BY <1>5
  <2>2. \A l, m \in p : eng[l] = eng[m] => l = m
    BY <1>1
  <2>3. \A e \in es : all[e] \in Nat
    <3> TAKE e \in es
    <3>1. /\ held[e] \in Nat /\ x[e] \in Nat /\ one[e] \in {0, 1}
          /\ hx[e] = held[e] + x[e] /\ all[e] = hx[e] + one[e]
      BY <1>3
    <3> HIDE DEF all, hx, one, x, held
    <3> QED BY <3>1
  <2> HIDE DEF cost, eng, all, hx, one, x, held
  <2> QED BY <1>0, <1>2, <2>1, <2>2, <2>3, SumInto
<1>7. SumFunctionOnSet(cost, p) \in Int /\ SumFunctionOnSet(all, es) \in Int
  <2> HIDE DEF cost, eng, all, hx, one, x, held
  <2>1. \A l \in p : cost[l] \in Int
    BY <1>5
  <2>2. \A e \in es : all[e] \in Int
    <3> TAKE e \in es
    <3>1. /\ held[e] \in Nat /\ x[e] \in Nat /\ one[e] \in {0, 1}
          /\ hx[e] = held[e] + x[e] /\ all[e] = hx[e] + one[e]
      BY <1>3
    <3> QED BY <3>1
  <2> QED BY <1>0, <1>2, <2>1, <2>2, SumInt
<1>8. SumFunctionOnSet(cost, p) <= Card
  <2> HIDE DEF cost, all, hx, one, x, held
  <2> QED BY <1>4, <1>6, <1>7, Constants
<1>9. PlanTotal(p) <= Card
  BY <1>8 DEF PlanTotal
<1>10. ASSUME NEW l \in p PROVE l.limit <= Card
  <2>1. \A m \in p : cost[m] \in Nat
    BY <1>5
  <2>2. cost[l] = Footprint[l.e.c] + l.limit /\ l.limit \in Nat /\ Footprint[l.e.c] \in Nat
    BY <1>5
  <2>3. IsFiniteSet(p \ {l})
    BY <1>2, FS_Subset
  <2> HIDE DEF cost
  <2>4. SumFunctionOnSet(cost, p) = cost[l] + SumFunctionOnSet(cost, p \ {l})
    BY <1>2, <2>1, SumTakeOut
  <2>5. SumFunctionOnSet(cost, p \ {l}) \in Nat
    BY <2>1, <2>3, SumNat
  <2> QED BY <1>8, <2>2, <2>4, <2>5, Constants
<1>11. p \subseteq LimitType
  <2> SUFFICES ASSUME NEW l \in p PROVE l \in LimitType
    OBVIOUS
  <2>1. PICK e \in es : l = [e |-> e, limit |-> Limit(es, e)]
    BY DEF PlanKVLimits
  <2>2. l.limit \in Nat \ {0} /\ l.limit <= Card /\ e \in EntryType
    BY <1>0, <1>5, <1>10
  <2>3. l.limit \in 1..Card
    BY <2>2, Constants
  <2>4. l = [e |-> e, limit |-> l.limit]
    BY <2>1
  <2> QED BY <2>2, <2>3, <2>4 DEF LimitType
<1> QED BY <1>1, <1>2, <1>9, <1>11

-----------------------------------------------------------------------------
(* The inductive invariant. *)

Carrying == {"shrink", "confirm", "back", "record", "grow", "confirmGrow"}
Judging == {"activate", "health", "missing", "hold", "readback", "route"}
Deleting == {"drain", "stop", "unfinalize"}
Stages == {"idle", "place", "reserve", "status", "divide"} \cup Carrying \cup Judging \cup Deleting

ReadingType == [kind : {"none", "read", "error"}, of : [Claims -> ObservedType]]
BaseType == [life : {"none", "absent", "live", "deleted", "gone"}, inst : Instances]

PassType ==
  [pc : Stages, c : Claims, base : BaseType, inst : Instances,
   want : {"none", "activating", "active", "failed"}, reading : ReadingType,
   why : {"none", "placement", "first", "changed", "load"},
   plan : SUBSET LimitType, todo : SUBSET LimitType, done : SUBSET LimitType]

(* The pass, the cache and the divisions in memory keep their types. *)
PassOK ==
  /\ pass \in PassType
  /\ cache \in [Claims -> ClaimType]
  /\ divided \in [known : BOOLEAN, for : SUBSET (Claims \X BOOLEAN), owed : SUBSET Claims]

(* The steps in which a pass places its claim. *)
PlacingAt(q) == q.pc = "place" \/ (q.pc \in Carrying /\ q.why = "placement")

(* What a pass knows of its claim: the copy it began with, and the instance it
   has decided on, follow the step it is in. *)
StageOK(q) ==
  /\ PlacingAt(q) => q.base.inst = NoInst /\ q.inst = NoInst
  /\ (PlacingAt(q) \/ q.pc \in Judging \cup {"reserve", "status"}) => q.base.life = "live"
  /\ q.pc = "reserve" => q.base.inst = NoInst /\ q.inst.phase = "activating"
  /\ q.pc \in Judging =>
       q.inst # NoInst /\ q.base.inst # NoInst /\ q.inst.phase = q.base.inst.phase
  /\ q.pc = "health" => q.reading = NoReading
  /\ q.pc \in {"hold", "readback", "route"} =>
       q.want # "none" /\ (q.inst.phase = "failed" => q.want = "failed")
  /\ q.pc \in Deleting => q.base.life = "deleted" /\ q.inst = q.base.inst

(* A plan has one limit for each engine, and its limits fit the card together. *)
PlanOK(p) ==
  /\ IsFiniteSet(p)
  /\ \A l, m \in p : (l.e.c = m.e.c /\ l.e.new = m.e.new) => l = m
  /\ \A l \in p : l.e.new => l.e.rec = 0
  /\ PlanTotal(p) <= Card

(* The plan a pass is in the middle of. *)
CarryOK(q) ==
  /\ q.pc \notin Carrying => q.done = {}
  /\ q.pc \in Carrying =>
       /\ PlanOK(q.plan) /\ q.plan # {}
       /\ q.why = "placement" => \E l \in q.plan : l.e.c = q.c
       /\ q.todo \subseteq q.plan /\ q.done \subseteq q.plan
       /\ q.pc \in {"shrink", "record", "grow"} => q.todo # {}

AInv == TypeOK /\ PassOK /\ StageOK(pass) /\ CarryOK(pass)

(* The limits of the plan that are not recorded yet. *)
UnrecordedAt(q) ==
  IF q.pc \in {"shrink", "confirm"} THEN q.plan ELSE IF q.pc = "record" THEN q.todo ELSE {}

(* Records in the middle of a plan: each is the one planned or the one of
   before, and none has gone up while one is still to go down. *)
Records(cl) == {c \in Claims : cl[c].inst.phase \in {"activating", "active"}}
Matches(cl, p, u) ==
  /\ \A c \in Records(cl) : \E l \in p : l.e.c = c /\ ~l.e.new
  /\ \A c \in Claims : cl[c].inst # NoInst =>
       \/ \E l \in p \ u : l.e.c = c /\ cl[c].inst.kv = l.limit
       \/ \A l \in p : l.e.c = c => l \in u /\ (~l.e.new => cl[c].inst.kv = l.e.rec)
  /\ (\E l \in u : LowersRecord(l)) => \A l \in p \ u : LowersRecord(l)

RecordInv ==
  pass.pc \in Carrying \ {"back"} => Matches(claim, pass.plan, UnrecordedAt(pass))

RecordTotal(cl) == SumFunctionOnSet([c \in Claims |-> Footprint[c] + cl[c].inst.kv], Records(cl))

(* The instance of a placement has room beside the records. *)
RoomInv ==
  (/\ pass.pc \in {"reserve", "status"} /\ pass.base.inst = NoInst /\ pass.inst # NoInst
   /\ claim[pass.c].inst = NoInst) =>
    RecordTotal(claim) + Footprint[pass.c] + pass.inst.kv <= Card

(* A judged instance records no more than the claim does, and stays failed. *)
JudgeInv ==
  (/\ pass.pc \in Judging \cup {"status"} /\ pass.base.inst # NoInst /\ pass.inst # NoInst
   /\ claim[pass.c] = pass.base) =>
    /\ pass.inst.kv <= pass.base.inst.kv
    /\ pass.base.inst.phase = "failed" => pass.inst.phase = "failed"

BInv == RecordInv /\ RecordTotal(claim) <= Card /\ RoomInv /\ JudgeInv

Up(en, c) == en[c].phase \in {"booting", "active", "restarting"}

(* With a cache that keeps up, the pass's copy has the instance the claim has,
   and an instance is given up only where no engine runs. *)
AnswerInv ==
  "lag" \notin scenario =>
    /\ \A c \in Claims : Up(engine, c) => claim[c].inst # NoInst
    /\ (PlacingAt(pass) \/ pass.pc \in Judging \cup Deleting \cup {"reserve"}) =>
         claim[pass.c].inst = pass.base.inst
    /\ pass.pc \in {"activate", "missing", "unfinalize"} => ~Up(engine, pass.c)
    /\ (pass.pc = "status" /\ pass.inst = NoInst) => ~Up(engine, pass.c)

-----------------------------------------------------------------------------
(* What the calls of a pass give. *)

(* A set of planned limits has a first one in the order of names. *)
LEMMA FirstFacts ==
  ASSUME NEW S, S \subseteq LimitType, S # {}
  PROVE  First(S) \in S
<1> DEFINE T == {Position(l.e) : l \in S}
<1>1. \A l \in S : Position(l.e) \in Nat
  <2> TAKE l \in S
  <2>1. l.e.c \in Claims /\ l.e.new \in BOOLEAN
    BY DEF LimitType, EntryType
  <2>2. Position(l.e) = 2 * IndexOf(l.e.c) + (IF l.e.new THEN 1 ELSE 0) /\ IndexOf(l.e.c) \in Nat
    BY <2>1, OrderFacts DEF Position, IndexOf
  <2> QED BY <2>2
<1>2. T \subseteq Nat /\ T # {}
  BY <1>1
<1>3. PICK n \in T : \A k \in T : ~(<<k, n>> \in OpToRel(<, Nat))
  <2> HIDE DEF T
  <2> QED BY <1>2, NatLessThanWellFounded, WFMin
<1>4. \A k \in T : n <= k
  <2> TAKE k \in T
  <2>1. k \in Nat /\ n \in Nat /\ ~(<<k, n>> \in OpToRel(<, Nat))
    BY <1>2, <1>3
  <2>2. ~(k < n)
    BY <2>1 DEF OpToRel
  <2>3. k \in Nat /\ n \in Nat
    BY <1>2
  <2> QED BY <2>2, <2>3
<1>5. \E l \in S : \A m \in S : Position(l.e) <= Position(m.e)
  BY <1>3, <1>4
<1> QED BY <1>5 DEF First

(* The next record to write is one of those left, and goes down if one of them does. *)
LEMMA NextRecordFacts ==
  ASSUME NEW S, S \subseteq LimitType, S # {}
  PROVE  /\ NextRecord(S) \in S
         /\ (\E l \in S : LowersRecord(l)) => LowersRecord(NextRecord(S))
<1> DEFINE L == {l \in S : LowersRecord(l)}
<1>1. CASE \E l \in S : LowersRecord(l)
  <2>1. L \subseteq S /\ L # {} /\ NextRecord(S) = First(L)
    BY <1>1 DEF NextRecord
  <2>2. First(L) \in L
    <3> HIDE DEF L
    <3> QED BY <2>1, FirstFacts
  <2> QED BY <2>1, <2>2
<1>2. CASE ~\E l \in S : LowersRecord(l)
  <2>1. NextRecord(S) = First(S)
    BY <1>2 DEF NextRecord
  <2> QED BY <1>2, <2>1, FirstFacts
<1> QED BY <1>1, <1>2

BudgetOK == faults \in 0..MaxFaults /\ bursts \in 0..MaxBursts /\ scenario \in Scenarios

(* A fault stays within its bound. *)
LEMMA FaultFacts ==
  ASSUME TypeOK, NEW kind, Fault(kind)
  PROVE  BudgetOK' /\ scenario' = scenario
BY Constants DEF TypeOK, Fault, BudgetOK

(* A step without a fault leaves the bounds alone. *)
LEMMA BudgetFacts ==
  ASSUME TypeOK, UNCHANGED budget
  PROVE  BudgetOK' /\ scenario' = scenario
BY DEF TypeOK, BudgetOK, budget

(* A reading of the runtime, taken now or before. *)
LEMMA SnapshotFacts ==
  ASSUME TypeOK
  PROVE  /\ Snapshot \in [Claims -> ObservedType]
         /\ \A c \in Claims : Snapshot[c].phase = engine[c].phase
<1>1. ASSUME NEW c \in Claims
      PROVE  /\ Observed(engine[c], c \in load) \in ObservedType
             /\ Observed(engine[c], c \in load).phase = engine[c].phase
  <2>1. engine[c] \in [phase : Phases, cap : NoSegment..KVMost, used : 0..KVMost]
    BY DEF TypeOK, Phases
  <2>2. (c \in load) \in BOOLEAN
    OBVIOUS
  <2> QED BY <2>1, <2>2 DEF Observed, ObservedType
<1> QED BY <1>1 DEF Snapshot

(* A pass without a reading, and one whose runtime did not answer, has its type. *)
LEMMA NoReadingFacts == NoReading \in ReadingType /\ Unread \in ReadingType
<1>1. Observed(NoEngine, FALSE) \in ObservedType
  <2>1. NoSegment \in NoSegment..KVMost /\ 0 \in 0..KVMost
    BY Constants DEF NoSegment
  <2> QED BY <2>1 DEF Observed, ObservedType, NoEngine, Phases
<1>2. NothingRead \in [Claims -> ObservedType]
  BY <1>1 DEF NothingRead
<1> QED BY <1>2 DEF NoReading, Unread, ReadingType

(* A reading of the runtime has its type, and a new one is what the engines are now. *)
LEMMA ReadsFacts ==
  ASSUME TypeOK, PassOK, NEW reading \in Readings, Reads(reading)
  PROVE  /\ reading \in ReadingType /\ reading.of \in [Claims -> ObservedType]
         /\ BudgetOK' /\ scenario' = scenario
         /\ (pass.reading = NoReading /\ reading.kind = "read") => reading.of = Snapshot
<1>1. /\ pass.reading \in ReadingType
      /\ [kind |-> "read", of |-> Snapshot] \in ReadingType
  BY SnapshotFacts DEF PassOK, PassType, ReadingType
<1>2. reading \in ReadingType
  BY <1>1, NoReadingFacts DEF Readings
<1>3. BudgetOK' /\ scenario' = scenario
  BY FaultFacts, BudgetFacts DEF Reads
<1>4. (pass.reading = NoReading /\ reading.kind = "read") => reading.of = Snapshot
  BY DEF Reads, Unread, NoReading
<1> QED BY <1>2, <1>3, <1>4 DEF ReadingType

(* A limit that is set changes no phase. *)
LEMMA SetKVLimitFacts ==
  ASSUME TypeOK, NEW c \in Claims, NEW limit \in NoSegment..KVMost, NEW answer,
         SetKVLimit(c, limit, answer)
  PROVE  /\ engine' \in [Claims -> EngineType]
         /\ \A d \in Claims : engine'[d].phase = engine[d].phase
         /\ BudgetOK' /\ scenario' = scenario
<1>1. engine \in [Claims -> EngineType]
  BY DEF TypeOK, EngineType, Phases
<1>2. Limited(c, limit) \in [Claims -> EngineType]
      /\ \A d \in Claims : Limited(c, limit)[d].phase = engine[d].phase
  <2>1. Clamp(limit, Ceiling(engine[c])) \in NoSegment..KVMost
    <3>1. Ceiling(engine[c]) \in {-1, Startup}
      BY DEF Ceiling
    <3> QED BY <3>1, Constants DEF Clamp, NoSegment
  <2> QED BY <1>1, <2>1 DEF Limited, EngineType
<1>3. engine' = engine \/ engine' = Limited(c, limit)
  BY DEF SetKVLimit
<1>4. BudgetOK' /\ scenario' = scenario
  BY FaultFacts, BudgetFacts DEF SetKVLimit
<1> QED BY <1>1, <1>2, <1>3, <1>4

(* A start brings up at most the engine it is for, and none when it is refused
   or was not sent. *)
LEMMA ActivateFacts ==
  ASSUME TypeOK, NEW c \in Claims, NEW answer, Activate(c, answer)
  PROVE  /\ engine' \in [Claims -> EngineType]
         /\ \A d \in Claims \ {c} : engine'[d] = engine[d]
         /\ answer \in {"refused", "unsent"} => engine' = engine
         /\ BudgetOK' /\ scenario' = scenario
<1>1. engine \in [Claims -> EngineType]
  BY DEF TypeOK, EngineType, Phases
<1>2. /\ StartedBy(c) \in [Claims -> EngineType]
      /\ \A d \in Claims \ {c} : StartedBy(c)[d] = engine[d]
  <2>1. [NoEngine EXCEPT !.phase = "booting"] \in EngineType
    BY Constants DEF NoEngine, NoSegment, EngineType, Phases
  <2> QED BY <1>1, <2>1 DEF StartedBy
<1>3. engine' = engine \/ (engine' = StartedBy(c) /\ answer \in {"ok", "lost"})
  BY DEF Activate
<1>4. BudgetOK' /\ scenario' = scenario
  BY FaultFacts, BudgetFacts DEF Activate
<1> QED BY <1>1, <1>2, <1>3, <1>4

(* A write of the claim succeeds only from the copy it has. *)
LEMMA UpdateFacts ==
  ASSUME TypeOK, NEW c \in Claims, NEW new, NEW answer, Update(c, new, answer)
  PROVE  /\ claim' = claim \/ (claim[c] = pass.base /\ claim' = [claim EXCEPT ![c] = new])
         /\ answer = "ok" => claim[c] = pass.base /\ claim' = [claim EXCEPT ![c] = new]
         /\ BudgetOK' /\ scenario' = scenario
<1>1. BudgetOK' /\ scenario' = scenario
  BY FaultFacts, BudgetFacts DEF Update
<1> QED BY <1>1 DEF Update


-----------------------------------------------------------------------------
(* The types, and what a pass knows, step by step. *)

(* The parts of the type invariant. *)
ClaimsOK ==
  /\ claim \in [Claims -> ClaimType]
  /\ \A c \in Claims : claim[c].inst # NoInst => claim[c].life \in {"live", "deleted"}
WorldOK ==
  engine \in [Claims -> EngineType] /\ route \subseteq Claims /\ load \subseteq Claims

(* The type invariant is its parts. *)
LEMMA TypeParts ==
  TypeOK <=> (ClaimsOK /\ WorldOK /\ divided.owed \subseteq Claims /\ BudgetOK)
BY DEF TypeOK, ClaimsOK, WorldOK, BudgetOK, EngineType, Phases

(* The same after a step. *)
LEMMA TypePartsNext ==
  TypeOK' <=> (ClaimsOK' /\ WorldOK' /\ (divided.owed \subseteq Claims)' /\ BudgetOK')
BY DEF TypeOK, ClaimsOK, WorldOK, BudgetOK, EngineType, Phases

(* A worker without a pass has its type and knows nothing. *)
LEMMA IdleFacts ==
  /\ Idle \in PassType /\ StageOK(Idle) /\ CarryOK(Idle)
  /\ Idle.pc = "idle"
  /\ NoInst \in Instances
<1>1. Order[1] \in Claims
  BY ConstantsAssumption DEF Claims, Range
<1>2. NoInst \in Instances
  BY DEF Instances
<1>3. Idle \in PassType
  BY <1>1, <1>2, NoReadingFacts DEF Idle, PassType, BaseType, Stages
<1>4. StageOK(Idle) /\ CarryOK(Idle)
  BY DEF StageOK, CarryOK, PlacingAt, Idle, Carrying, Judging, Deleting
<1> QED BY <1>2, <1>3, <1>4 DEF Idle

(* A state whose pass is over. *)
LEMMA EndFacts ==
  ASSUME AInv, EndPass, UNCHANGED cache, TypeOK',
         divided' \in [known : BOOLEAN, for : SUBSET (Claims \X BOOLEAN), owed : SUBSET Claims]
  PROVE  AInv'
BY IdleFacts DEF AInv, PassOK, EndPass

(* The engines, their load and the users around a pass. *)
LEMMA AroundTypes ==
  ASSUME AInv, NEW c \in Claims,
         CatchUp(c) \/ Create(c) \/ Delete(c) \/ EngineSteps(c)
  PROVE  AInv'
<1> USE DEF AInv
<1>0. ClaimsOK /\ WorldOK /\ divided.owed \subseteq Claims /\ BudgetOK
  BY TypeParts
<1>1. CASE CatchUp(c)
  <2>1. UNCHANGED <<claim, engine, route, load, pass, divided, faults, bursts, scenario>>
    BY <1>1 DEF CatchUp, world, budget
  <2>2. TypeOK'
    BY <2>1 DEF TypeOK
  <2>3. cache' \in [Claims -> ClaimType]
    BY <1>1, <1>0 DEF CatchUp, ClaimsOK, PassOK
  <2> QED BY <2>1, <2>2, <2>3 DEF PassOK
<1>2. CASE Create(c) \/ Delete(c)
  <2>1. UNCHANGED <<cache, engine, route, load, pass, divided, faults, bursts, scenario>>
    BY <1>2 DEF Create, Delete, world, budget
  <2>2. ClaimsOK'
    <3>1. \/ claim' = [claim EXCEPT ![c].life = "live"]
          \/ claim' = [claim EXCEPT ![c].life = "deleted"]
      BY <1>2 DEF Create, Delete
    <3> QED BY <3>1, <1>0 DEF ClaimsOK, ClaimType
  <2>3. TypeOK'
    BY <1>0, <2>1, <2>2, TypePartsNext DEF WorldOK, BudgetOK
  <2> QED BY <2>1, <2>3 DEF PassOK
<1>3. CASE EngineSteps(c)
  <2>1. UNCHANGED <<claim, cache, route, pass, divided>>
    BY <1>3 DEF EngineSteps, EngineReady, EngineDies, EngineRestarts, EngineExits, Arrive, MapKV,
                Finish, EngineStep
  <2>2. BudgetOK'
    BY <1>0, <1>3, FaultFacts, BudgetFacts, Constants
       DEF EngineSteps, EngineReady, EngineDies, EngineRestarts, EngineExits, Arrive, MapKV,
           Finish, BudgetOK
  <2>3. load' \subseteq Claims
    BY <1>0, <1>3 DEF EngineSteps, EngineReady, EngineDies, EngineRestarts, EngineExits, Arrive, MapKV,
           Finish, WorldOK
  <2>4. engine[c] \in EngineType /\ NoEngine \in EngineType /\ Startup \in NoSegment..KVMost
    BY <1>0, Constants DEF WorldOK, EngineType, NoEngine, NoSegment, Phases
  <2>5. PICK e : e \in EngineType /\ engine' = [engine EXCEPT ![c] = e]
    <3>1. CASE EngineReady(c)
      <4>1. [phase |-> "active", cap |-> Startup, used |-> 0] \in EngineType
        BY <2>4, Constants DEF EngineType, Phases
      <4> QED BY <3>1, <4>1 DEF EngineReady, EngineStep
    <3>2. CASE EngineDies(c)
      <4>1. [engine[c] EXCEPT !.phase = "restarting"] \in EngineType
            /\ [NoEngine EXCEPT !.phase = "failed"] \in EngineType
        BY <2>4 DEF EngineType, Phases
      <4> QED BY <3>2, <4>1 DEF EngineDies, EngineStep
    <3>3. CASE EngineRestarts(c)
      <4>1. [NoEngine EXCEPT !.phase = "booting"] \in EngineType
        BY <2>4 DEF EngineType, Phases
      <4> QED BY <3>3, <4>1 DEF EngineRestarts, EngineStep
    <3>4. CASE EngineExits(c)
      BY <2>4, <3>4 DEF EngineExits, EngineStep
    <3>5. CASE Arrive(c)
      <4>1. engine' = [engine EXCEPT ![c] = engine[c]]
        BY <3>5, <1>0 DEF Arrive, WorldOK
      <4> QED BY <2>4, <4>1
    <3>6. CASE MapKV(c)
      <4>1. engine[c].cap \in 0..KVMost
        <5>1. engine[c].cap \in NoSegment..KVMost /\ engine[c].used \in 0..KVMost
          BY <2>4 DEF EngineType
        <5> QED BY <5>1, <3>6, Constants DEF MapKV, NoSegment
      <4>2. [engine[c] EXCEPT !.used = engine[c].cap] \in EngineType
        BY <2>4, <4>1 DEF EngineType
      <4> QED BY <3>6, <4>2 DEF MapKV, EngineStep
    <3>7. CASE Finish(c)
      <4>1. [engine[c] EXCEPT !.used = 0] \in EngineType
        BY <2>4, Constants DEF EngineType
      <4> QED BY <3>7, <4>1 DEF Finish, EngineStep
    <3> QED BY <1>3, <3>1, <3>2, <3>3, <3>4, <3>5, <3>6, <3>7 DEF EngineSteps
  <2>6. WorldOK'
    BY <1>0, <2>1, <2>3, <2>5 DEF WorldOK
  <2>7. TypeOK'
    BY <1>0, <2>1, <2>2, <2>6, TypePartsNext DEF ClaimsOK
  <2> QED BY <2>1, <2>7 DEF PassOK
<1> QED BY <1>1, <1>2, <1>3


(* What the type invariant says of a pass. *)
LEMMA PassFacts ==
  ASSUME AInv
  PROVE  /\ pass.c \in Claims /\ pass.base \in BaseType /\ pass.inst \in Instances
         /\ pass.reading \in ReadingType /\ pass.plan \subseteq LimitType
         /\ pass.todo \subseteq LimitType /\ pass.done \subseteq LimitType
         /\ claim[pass.c] \in ClaimType /\ engine[pass.c] \in EngineType
BY TypeParts DEF AInv, PassOK, PassType, ClaimsOK, WorldOK

(* The beginning of a pass. *)
LEMMA BeginTypes ==
  ASSUME AInv, NEW c \in Claims, Begin(c)
  PROVE  AInv'
<1> USE DEF AInv
<1>1. PICK pm \in {claim[c], cache[c]} :
         /\ pm.life \in {"live", "deleted"}
         /\ IF pm = claim[c] THEN UNCHANGED budget ELSE Fault("lag")
         /\ pass' = [Idle EXCEPT !.pc = IF pm.life = "deleted" THEN "drain"
                                         ELSE IF pm.inst = NoInst THEN "place" ELSE "health",
                                  !.c = c, !.base = pm, !.inst = pm.inst]
  BY DEF Begin
<1>2. pm \in ClaimType /\ pm \in BaseType /\ pm.inst \in Instances
  BY TypeParts DEF ClaimsOK, PassOK, ClaimType, BaseType
<1>3. UNCHANGED <<claim, cache, engine, route, load, divided>> /\ BudgetOK'
  BY <1>1, FaultFacts, BudgetFacts DEF Begin, world
<1>4. TypeOK'
  BY <1>3, TypeParts, TypePartsNext DEF ClaimsOK, WorldOK
<1>5. PICK pc \in {"drain", "place", "health"} :
         /\ pass' = [Idle EXCEPT !.pc = pc, !.c = c, !.base = pm, !.inst = pm.inst]
         /\ pc = "drain" => pm.life = "deleted"
         /\ pc = "place" => pm.inst = NoInst /\ pm.life = "live"
         /\ pc = "health" => pm.inst # NoInst /\ pm.life = "live"
  BY <1>1
<1>6. pass' = [pc |-> pc, c |-> c, base |-> pm, inst |-> pm.inst, want |-> "none",
               reading |-> NoReading, why |-> "none", plan |-> {}, todo |-> {}, done |-> {}]
  BY <1>5 DEF Idle
<1>7. pass' \in PassType
  BY <1>2, <1>6, NoReadingFacts DEF PassType, Stages, Judging, Deleting
<1>8. StageOK(pass') /\ CarryOK(pass')
  <2>1. /\ pass'.pc = pc /\ pass'.base = pm /\ pass'.inst = pm.inst
        /\ pass'.reading = NoReading /\ pass'.done = {}
    BY <1>6
  <2>2. /\ pc = "drain" => pm.life = "deleted"
        /\ pc = "place" => pm.inst = NoInst /\ pm.life = "live"
        /\ pc = "health" => pm.inst # NoInst /\ pm.life = "live"
    BY <1>5
  <2> HIDE DEF AInv
  <2> QED BY <2>1, <2>2 DEF StageOK, CarryOK, PlacingAt, Carrying, Judging, Deleting
<1> QED BY <1>3, <1>4, <1>7, <1>8 DEF PassOK

(* The pass stops, or ends where it has nothing to do. *)
LEMMA StopTypes ==
  ASSUME AInv, Crash \/ PlaceUnlisted \/ SkipDivide \/ DrainWait
  PROVE  AInv'
<1> USE DEF AInv
<1>1. UNCHANGED <<claim, cache, engine, load>> /\ route' \subseteq Claims
  BY TypeParts DEF Crash, PlaceUnlisted, SkipDivide, DrainWait, world, Unrouted, WorldOK
<1>2. BudgetOK'
  BY FaultFacts, BudgetFacts DEF Crash, PlaceUnlisted, SkipDivide, DrainWait
<1>3. divided' \in [known : BOOLEAN, for : SUBSET (Claims \X BOOLEAN), owed : SUBSET Claims]
  <2>1. divided' = divided \/ divided' = NotDivided
    BY DEF Crash, PlaceUnlisted, SkipDivide, DrainWait
  <2>2. NotDivided \in [known : BOOLEAN, for : SUBSET (Claims \X BOOLEAN), owed : SUBSET Claims]
    BY DEF NotDivided
  <2> QED BY <2>1, <2>2 DEF PassOK
<1>4. TypeOK'
  BY <1>1, <1>2, <1>3, TypeParts, TypePartsNext DEF ClaimsOK, WorldOK
<1>5. EndPass
  BY DEF Crash, PlaceUnlisted, SkipDivide, DrainWait, EndPass
<1> QED BY <1>1, <1>3, <1>4, <1>5, EndFacts

(* The end of a deleted claim's pass. *)
LEMMA FinalizeTypes ==
  ASSUME AInv, Drained \/ Stop \/ RemoveFinalizer
  PROVE  AInv'
<1> USE DEF AInv
<1>0. /\ ClaimsOK /\ WorldOK /\ BudgetOK /\ pass.c \in Claims
      /\ divided \in [known : BOOLEAN, for : SUBSET (Claims \X BOOLEAN), owed : SUBSET Claims]
  BY TypeParts, PassFacts DEF PassOK
<1>1. CASE Drained
  <2>1. UNCHANGED <<claim, cache, engine, load, divided>> /\ route' \subseteq Claims /\ BudgetOK'
    BY <1>0, <1>1, BudgetFacts DEF Drained, Unrouted, WorldOK
  <2>2. TypeOK'
    BY <1>0, <2>1, TypePartsNext DEF ClaimsOK, WorldOK
  <2>3. PICK pc \in {"unfinalize", "stop"} : pass' = [pass EXCEPT !.pc = pc]
    BY <1>1 DEF Drained
  <2>4. pass' \in PassType
    BY <2>3 DEF PassOK, PassType, Stages, Deleting
  <2>5. StageOK(pass') /\ CarryOK(pass')
    <3>1. pass.pc = "drain" /\ pass'.pc = pc /\ pass'.base = pass.base /\ pass'.inst = pass.inst
          /\ pass'.done = pass.done
      BY <1>1, <2>3 DEF Drained, At, PassOK, PassType
    <3> QED BY <3>1 DEF StageOK, CarryOK, PlacingAt, Carrying, Judging, Deleting
  <2> QED BY <2>1, <2>2, <2>4, <2>5 DEF PassOK
<1>2. CASE Stop
  <2>1. UNCHANGED <<claim, cache, load, divided>> /\ route' \subseteq Claims /\ BudgetOK'
    BY <1>0, <1>2, BudgetFacts, FaultFacts DEF Stop, Unrouted, WorldOK
  <2>2. engine' \in [Claims -> EngineType]
    <3>1. engine' \in {engine, Stopping(pass.c)}
      BY <1>2 DEF Stop
    <3>2. Stopping(pass.c) \in [Claims -> EngineType]
      BY <1>0 DEF Stopping, WorldOK, EngineType, Phases
    <3> QED BY <1>0, <3>1, <3>2 DEF WorldOK
  <2>3. TypeOK'
    BY <1>0, <2>1, <2>2, TypePartsNext DEF ClaimsOK, WorldOK
  <2>4. CASE EndPass
    BY <1>0, <2>1, <2>3, <2>4, EndFacts
  <2>5. CASE pass' = [pass EXCEPT !.pc = "unfinalize"]
    <3>1. pass' \in PassType
      BY <2>5 DEF PassOK, PassType, Stages, Deleting
    <3>2. pass.pc = "stop" /\ pass'.pc = "unfinalize" /\ pass'.base = pass.base
          /\ pass'.inst = pass.inst /\ pass'.done = pass.done
      BY <1>2, <2>5 DEF Stop, At, PassOK, PassType
    <3>3. StageOK(pass') /\ CarryOK(pass')
      BY <3>2 DEF StageOK, CarryOK, PlacingAt, Carrying, Judging, Deleting
    <3> QED BY <2>1, <2>3, <3>1, <3>3 DEF PassOK
  <2> QED BY <1>2, <2>4, <2>5 DEF Stop
<1>3. CASE RemoveFinalizer
  <2>1. UNCHANGED <<cache, engine, load, route, divided>> /\ EndPass
    BY <1>3 DEF RemoveFinalizer, world
  <2>2. PICK answer \in {"ok", "conflict", "error"} :
          Update(pass.c, [life |-> "gone", inst |-> NoInst], answer)
    BY <1>3 DEF RemoveFinalizer
  <2>3. /\ claim' = claim \/ claim' = [claim EXCEPT ![pass.c] = [life |-> "gone", inst |-> NoInst]]
        /\ BudgetOK'
    <3> DEFINE new == [life |-> "gone", inst |-> NoInst]
    <3>1. Update(pass.c, new, answer)
      BY <2>2
    <3> HIDE DEF new
    <3>2. (claim' = claim \/ claim' = [claim EXCEPT ![pass.c] = new]) /\ BudgetOK'
      BY <1>0, <3>1, UpdateFacts
    <3> QED BY <3>2 DEF new
  <2>4. ClaimsOK'
    BY <1>0, <2>3, IdleFacts DEF ClaimsOK, ClaimType
  <2>5. TypeOK'
    BY <1>0, <2>1, <2>3, <2>4, TypePartsNext DEF WorldOK
  <2> QED BY <1>0, <2>1, <2>5, EndFacts
<1> QED BY <1>1, <1>2, <1>3


(* What the account makes of a claim that has an instance, and of a newcomer. *)
LEMMA EntryFacts ==
  ASSUME AInv, NEW r \in [Claims -> ObservedType], NEW c \in Claims
  PROVE  /\ OnCard(c, r) \in EntryType /\ Newcomer(c) \in EntryType
         /\ OnCard(c, r).c = c /\ ~OnCard(c, r).new /\ OnCard(c, r).rec = claim[c].inst.kv
         /\ Newcomer(c).c = c /\ Newcomer(c).new /\ Newcomer(c).rec = 0
<1>1. /\ KVFloor[c] \in Nat \ {0} /\ Startup \in Nat \ {0} /\ KVMost \in Nat /\ Card \in Nat
  BY Constants
<1>2. Min({KVFloor[c], Startup}) \in Nat \ {0}
  BY <1>1, MinOfTwo
<1>3. claim[c].inst.kv \in 0..Card
  BY <1>1, TypeParts DEF AInv, ClaimsOK, ClaimType, Instances, NoInst
<1>4. r[c] \in ObservedType /\ r[c].used \in 0..KVMost /\ r[c].cap \in NoSegment..KVMost
      /\ r[c].busy \in BOOLEAN
  BY DEF ObservedType
<1>5. Ceiling(r[c]) \in {-1, Startup}
  BY DEF Ceiling
<1>6. ObservedCap(r[c], claim[c].inst.phase) \in NoSegment..KVMost
  BY <1>1, <1>4 DEF ObservedCap, NoSegment
<1>7. OnCard(c, r) \in EntryType
  <2>1. (IF Ceiling(r[c]) > 0 THEN Min({KVFloor[c], Startup}) ELSE KVFloor[c]) \in Nat \ {0}
    BY <1>1, <1>2
  <2>2. (IF r[c].busy THEN 2 ELSE 1) \in {1, 2}
    OBVIOUS
  <2> QED BY <1>3, <1>4, <1>5, <1>6, <2>1, <2>2 DEF OnCard, EntryType
<1>8. Newcomer(c) \in EntryType
  <2>1. 0 \in 0..KVMost /\ NoSegment \in NoSegment..KVMost /\ 0 \in 0..Card
    BY <1>1 DEF NoSegment
  <2> QED BY <1>1, <2>1 DEF Newcomer, EntryType
<1> QED BY <1>7, <1>8 DEF OnCard, Newcomer

(* The engines of the account: one for each claim that is charged. *)
LEMMA EnginesFacts ==
  ASSUME AInv, NEW r \in [Claims -> ObservedType], NEW c \in Claims
  PROVE  /\ EntriesOK(Engines(r)) /\ EntriesOK(Engines(r) \cup {Newcomer(c)})
         /\ \A d \in Records(claim) : OnCard(d, r) \in Engines(r)
         /\ \A e \in Engines(r) : e.c \in Claims /\ ~e.new /\ e.rec = claim[e.c].inst.kv
<1>1. \A e \in Engines(r) : /\ e \in EntryType /\ e.c \in Claims /\ e = OnCard(e.c, r)
                            /\ ~e.new /\ e.rec = claim[e.c].inst.kv
  BY EntryFacts DEF Engines, Charged
<1>2. IsFiniteSet(Engines(r))
  <2>1. IsFiniteSet(Charged(r))
    BY OrderFacts, FS_Subset DEF Charged
  <2> DEFINE m == [d \in Charged(r) |-> OnCard(d, r)]
  <2>2. Engines(r) = {m[d] : d \in Charged(r)}
    BY DEF Engines
  <2> HIDE DEF m
  <2> QED BY <2>1, <2>2, FiniteImage
<1>3. EntriesOK(Engines(r))
  BY <1>1, <1>2 DEF EntriesOK, OneEach
<1>4. EntriesOK(Engines(r) \cup {Newcomer(c)})
  <2>1. IsFiniteSet(Engines(r) \cup {Newcomer(c)})
    BY <1>2, FS_AddElement
  <2>2. Newcomer(c) \in EntryType /\ Newcomer(c).new
    BY EntryFacts
  <2>3. OneEach(Engines(r) \cup {Newcomer(c)})
    BY <1>1, <2>2 DEF OneEach
  <2> QED BY <1>1, <2>1, <2>2, <2>3 DEF EntriesOK
<1>5. ASSUME NEW d \in Records(claim) PROVE OnCard(d, r) \in Engines(r)
  <2>1. d \in Charged(r)
    BY DEF Records, Charged, NoInst
  <2> QED BY <2>1 DEF Engines
<1> QED BY <1>1, <1>3, <1>4, <1>5

(* A plan made from the account fits the card, and none of it is recorded yet. *)
LEMMA PlanMade ==
  ASSUME AInv, NEW r \in [Claims -> ObservedType], NEW c \in Claims,
         NEW es, es = Engines(r) \/ es = Engines(r) \cup {Newcomer(c)}, es # {}, Plannable(es),
         NEW p, p = PlanKVLimits(es)
  PROVE  /\ p \subseteq LimitType /\ p # {} /\ PlanOK(p) /\ Matches(claim, p, p)
         /\ Newcomer(c) \in es => \E l \in p : l.e.c = c
<1>1. /\ EntriesOK(es)
      /\ \A d \in Records(claim) : OnCard(d, r) \in es
      /\ \A e \in es : ~e.new => e.rec = claim[e.c].inst.kv
      /\ \A e \in es : e.new => e.rec = 0
  BY EnginesFacts, EntryFacts
<1>2. /\ p \subseteq LimitType /\ IsFiniteSet(p)
      /\ \A l \in p : l.e \in es
      /\ \A e \in es : \E l \in p : l.e = e
      /\ \A l, m \in p : l.e = m.e => l = m
      /\ PlanTotal(p) <= Card
  BY <1>1, PlanFacts
<1>3. p # {}
  BY <1>2
<1>4. PlanOK(p)
  BY <1>1, <1>2 DEF PlanOK, EntriesOK, OneEach
<1>5. Matches(claim, p, p)
  <2>1. ASSUME NEW d \in Records(claim) PROVE \E l \in p : l.e.c = d /\ ~l.e.new
    <3>1. d \in Claims /\ OnCard(d, r) \in es
      BY <1>1 DEF Records
    <3>2. OnCard(d, r).c = d /\ ~OnCard(d, r).new
      BY <3>1, EntryFacts
    <3> QED BY <1>2, <3>1, <3>2
  <2>2. \A l \in p : ~l.e.new => claim[l.e.c].inst.kv = l.e.rec
    BY <1>1, <1>2
  <2>3. p \ p = {}
    OBVIOUS
  <2> QED BY <2>1, <2>2, <2>3 DEF Matches
<1>6. ASSUME Newcomer(c) \in es PROVE \E l \in p : l.e.c = c
  BY <1>2, <1>6, EntryFacts
<1> QED BY <1>2, <1>3, <1>4, <1>5, <1>6

(* A pass that starts to carry out a plan. *)
LEMMA CarryOutFacts ==
  ASSUME AInv, NEW p, NEW why \in {"placement", "first", "changed", "load"},
         NEW reading \in ReadingType, CarryOut(p, why, reading),
         p \subseteq LimitType, p # {}, PlanOK(p), pass.pc \in {"place", "divide"},
         why = "placement" => pass.pc = "place" /\ \E l \in p : l.e.c = pass.c
  PROVE  /\ pass' \in PassType /\ StageOK(pass') /\ CarryOK(pass')
         /\ pass'.pc \in {"record", "shrink"}
         /\ pass'.plan = p /\ UnrecordedAt(pass') = p /\ pass'.why = why
         /\ pass'.c = pass.c /\ pass'.base = pass.base
<1>1. PICK pc \in {"record", "shrink"}, todo \in SUBSET p :
         /\ pass' = [pass EXCEPT !.pc = pc, !.todo = todo, !.plan = p, !.why = why,
                                 !.reading = reading]
         /\ todo # {} /\ (pc = "record" => todo = p)
  <2>1. Shrinks(p) \subseteq p
    BY DEF Shrinks
  <2>2. CASE Shrinks(p) = {}
    <3>1. pass' = [pass EXCEPT !.pc = "record", !.todo = p, !.plan = p, !.why = why,
                               !.reading = reading]
      BY <2>2 DEF CarryOut
    <3> QED BY <3>1
  <2>3. CASE Shrinks(p) # {}
    <3>1. pass' = [pass EXCEPT !.pc = "shrink", !.todo = Shrinks(p), !.plan = p, !.why = why,
                               !.reading = reading]
      BY <2>3 DEF CarryOut
    <3> QED BY <2>1, <2>3, <3>1
  <2> QED BY <2>2, <2>3
<1>2. /\ pass'.pc = pc /\ pass'.todo = todo /\ pass'.plan = p /\ pass'.why = why
      /\ pass'.c = pass.c /\ pass'.base = pass.base /\ pass'.inst = pass.inst
      /\ pass'.done = pass.done
  BY <1>1 DEF AInv, PassOK, PassType
<1>3. pass' \in PassType
  <2>1. todo \in SUBSET LimitType /\ p \in SUBSET LimitType
    BY <1>1
  <2> QED BY <1>1, <2>1 DEF AInv, PassOK, PassType, Stages, Carrying
<1>4. pass.done = {}
  BY DEF AInv, CarryOK, Carrying
<1>5. CarryOK(pass')
  BY <1>1, <1>2, <1>4 DEF CarryOK, Carrying
<1>6. StageOK(pass')
  BY <1>1, <1>2 DEF AInv, StageOK, PlacingAt, Carrying, Judging, Deleting
<1> QED BY <1>1, <1>2, <1>3, <1>5, <1>6 DEF UnrecordedAt


(* What is remembered of divisions concerns claims of the card. *)
LEMMA DividedFacts ==
  ASSUME AInv, NEW p, p \subseteq LimitType, NEW c \in Claims
  PROVE  /\ Owed(p) \subseteq Claims
         /\ Composition \subseteq Claims \X BOOLEAN
         /\ Composition \cup {<<c, FALSE>>} \subseteq Claims \X BOOLEAN
         /\ \A o \in SUBSET Claims : [divided EXCEPT !.owed = o] \in
              [known : BOOLEAN, for : SUBSET (Claims \X BOOLEAN), owed : SUBSET Claims]
<1>1. Owed(p) \subseteq Claims
  BY DEF Owed, LimitType, EntryType
<1>2. Composition \subseteq Claims \X BOOLEAN
  <2> SUFFICES ASSUME NEW x \in Composition PROVE x \in Claims \X BOOLEAN
    OBVIOUS
  <2>1. PICK d \in Claims : x = <<d, claim[d].inst.phase = "failed">>
    BY DEF Composition
  <2>2. (claim[d].inst.phase = "failed") \in BOOLEAN
    OBVIOUS
  <2> QED BY <2>1, <2>2
<1>3. Composition \cup {<<c, FALSE>>} \subseteq Claims \X BOOLEAN
  <2>1. <<c, FALSE>> \in Claims \X BOOLEAN
    OBVIOUS
  <2> QED BY <1>2, <2>1
<1>4. ASSUME NEW o \in SUBSET Claims
      PROVE  [divided EXCEPT !.owed = o] \in
               [known : BOOLEAN, for : SUBSET (Claims \X BOOLEAN), owed : SUBSET Claims]
  BY DEF AInv, PassOK
<1> QED BY <1>1, <1>2, <1>3, <1>4

(* A step of the pass that leaves claims, cache and runtime alone. *)
LEMMA QuietTypes ==
  ASSUME AInv, UNCHANGED <<claim, cache, world>>, BudgetOK',
         divided' \in [known : BOOLEAN, for : SUBSET (Claims \X BOOLEAN), owed : SUBSET Claims],
         pass' \in PassType, StageOK(pass'), CarryOK(pass')
  PROVE  AInv'
<1>1. UNCHANGED <<claim, cache, engine, route, load>>
  BY DEF world
<1>2. TypeOK'
  BY <1>1, TypeParts, TypePartsNext DEF AInv, ClaimsOK, WorldOK
<1> QED BY <1>1, <1>2 DEF AInv, PassOK

(* A placement is refused, or begins to carry out the plan with its newcomer. *)
LEMMA PlaceTypes ==
  ASSUME AInv, Place
  PROVE  /\ AInv'
         /\ pass'.c = pass.c /\ pass'.base = pass.base /\ pass'.inst = pass.inst
         /\ \/ pass'.pc = "status"
            \/ /\ pass'.pc \in {"record", "shrink"} /\ pass'.why = "placement"
               /\ Matches(claim, pass'.plan, UnrecordedAt(pass'))
<1>1. /\ pass.pc = "place" /\ UNCHANGED <<claim, cache, world, divided>>
  BY DEF Place, At
<1>2. PICK reading \in Readings :
          /\ Reads(reading)
          /\ IF reading.kind = "read" /\ Admissible(pass.c, reading.of)
             THEN LET es == Engines(reading.of) \cup {Newcomer(pass.c)}
                  IN  IF Plannable(es) THEN CarryOut(PlanKVLimits(es), "placement", reading)
                      ELSE pass' = [pass EXCEPT !.pc = "status", !.reading = reading]
             ELSE pass' = [pass EXCEPT !.pc = "status", !.reading = reading]
  BY DEF Place
<1>3. /\ reading \in ReadingType /\ reading.of \in [Claims -> ObservedType]
      /\ BudgetOK' /\ scenario' = scenario
  BY <1>2, ReadsFacts DEF AInv
<1>4. divided' \in [known : BOOLEAN, for : SUBSET (Claims \X BOOLEAN), owed : SUBSET Claims]
  BY <1>1 DEF AInv, PassOK
<1>5. CASE pass' = [pass EXCEPT !.pc = "status", !.reading = reading]
  <2>1. pass' \in PassType
    BY <1>3, <1>5 DEF AInv, PassOK, PassType, Stages
  <2>2. /\ pass'.pc = "status" /\ pass'.c = pass.c /\ pass'.base = pass.base
        /\ pass'.inst = pass.inst /\ pass'.done = pass.done
    BY <1>5 DEF AInv, PassOK, PassType
  <2>3. StageOK(pass') /\ CarryOK(pass')
    BY <1>1, <2>2 DEF AInv, StageOK, CarryOK, PlacingAt, Carrying, Judging, Deleting
  <2>4. AInv'
    BY <1>1, <1>3, <1>4, <2>1, <2>3, QuietTypes
  <2> QED BY <2>2, <2>4
<1>6. CASE pass' # [pass EXCEPT !.pc = "status", !.reading = reading]
  <2> DEFINE es == Engines(reading.of) \cup {Newcomer(pass.c)}
             p == PlanKVLimits(es)
  <2>1. Plannable(es) /\ CarryOut(p, "placement", reading)
    BY <1>2, <1>6
  <2>2. es # {} /\ Newcomer(pass.c) \in es /\ pass.c \in Claims
    BY PassFacts
  <2>3. /\ p \subseteq LimitType /\ p # {} /\ PlanOK(p) /\ Matches(claim, p, p)
        /\ \E l \in p : l.e.c = pass.c
    <3>1. PICK r \in [Claims -> ObservedType] : r = reading.of
      BY <1>3
    <3>2. PICK c \in Claims : c = pass.c
      BY <2>2
    <3>3. es = Engines(r) \cup {Newcomer(c)} /\ Newcomer(c) \in es
      BY <3>1, <3>2
    <3>4. p = PlanKVLimits(es) /\ es # {} /\ Plannable(es)
      BY <2>1, <2>2
    <3> HIDE DEF es, p
    <3>5. /\ p \subseteq LimitType /\ p # {} /\ PlanOK(p) /\ Matches(claim, p, p)
          /\ Newcomer(c) \in es => \E l \in p : l.e.c = c
      BY <3>3, <3>4, PlanMade
    <3> QED BY <3>2, <3>3, <3>5
  <2> HIDE DEF es, p
  <2>4. /\ pass' \in PassType /\ StageOK(pass') /\ CarryOK(pass')
        /\ pass'.pc \in {"record", "shrink"}
        /\ pass'.plan = p /\ UnrecordedAt(pass') = p /\ pass'.why = "placement"
        /\ pass'.c = pass.c /\ pass'.base = pass.base
    BY <1>1, <1>3, <2>1, <2>3, CarryOutFacts
  <2>5. pass'.inst = pass.inst
    BY <1>1, <2>4 DEF AInv, StageOK, PlacingAt, Carrying
  <2>6. AInv'
    BY <1>1, <1>3, <1>4, <2>4, QuietTypes
  <2> QED BY <2>3, <2>4, <2>5, <2>6
<1> QED BY <1>5, <1>6

(* A division is skipped or left alone, or begins to carry out its plan. *)
LEMMA DivideTypes ==
  ASSUME AInv, Divide
  PROVE  /\ AInv'
         /\ \/ pass' = Idle
            \/ /\ pass'.pc \in {"record", "shrink"} /\ pass'.why # "placement"
               /\ Matches(claim, pass'.plan, UnrecordedAt(pass'))
<1>1. pass.pc = "divide" /\ UNCHANGED <<claim, cache, world>>
  BY DEF Divide, At
<1>2. PICK reading \in Readings :
          /\ Reads(reading)
          /\ IF reading.kind # "read" \/ ~Judgeable(reading.of)
             THEN EndPass /\ divided' = [divided EXCEPT !.owed = {}]
             ELSE LET es == Engines(reading.of)
                      p == PlanKVLimits(es)
                  IN  IF es = {} THEN EndPass /\ UNCHANGED divided
                      ELSE IF ~Plannable(es) THEN EndPass /\ divided' = [divided EXCEPT !.owed = {}]
                      ELSE IF LeaveAlone(p)
                      THEN EndPass /\ divided' = [known |-> TRUE, for |-> Composition, owed |-> Owed(p)]
                      ELSE CarryOut(p, Why, reading) /\ UNCHANGED divided
  BY DEF Divide
<1>3. /\ reading \in ReadingType /\ reading.of \in [Claims -> ObservedType]
      /\ BudgetOK' /\ scenario' = scenario
  BY <1>2, ReadsFacts DEF AInv
<1>4. /\ divided \in [known : BOOLEAN, for : SUBSET (Claims \X BOOLEAN), owed : SUBSET Claims]
      /\ [divided EXCEPT !.owed = {}]
           \in [known : BOOLEAN, for : SUBSET (Claims \X BOOLEAN), owed : SUBSET Claims]
  BY DEF AInv, PassOK
<1>5. ASSUME EndPass,
             divided' \in [known : BOOLEAN, for : SUBSET (Claims \X BOOLEAN), owed : SUBSET Claims]
      PROVE  AInv' /\ pass' = Idle
  BY <1>1, <1>3, <1>5, IdleFacts, QuietTypes DEF EndPass
<1> DEFINE es == Engines(reading.of)
           p == PlanKVLimits(es)
<1>6. CASE reading.kind # "read" \/ ~Judgeable(reading.of) \/ es = {} \/ ~Plannable(es)
  BY <1>2, <1>4, <1>5, <1>6
<1>7. CASE reading.kind = "read" /\ Judgeable(reading.of) /\ es # {} /\ Plannable(es)
  <2>1. \/ EndPass /\ divided' = [known |-> TRUE, for |-> Composition, owed |-> Owed(p)]
        \/ CarryOut(p, Why, reading) /\ UNCHANGED divided
    BY <1>2, <1>7
  <2>2. p \subseteq LimitType /\ p # {} /\ PlanOK(p) /\ Matches(claim, p, p)
    <3>1. PICK r \in [Claims -> ObservedType] : r = reading.of
      BY <1>3
    <3>2. PICK c \in Claims : c = pass.c
      BY PassFacts
    <3>3. es = Engines(r)
      BY <3>1
    <3>4. p = PlanKVLimits(es) /\ es # {} /\ Plannable(es)
      BY <1>7
    <3> HIDE DEF es, p
    <3> QED BY <3>3, <3>4, PlanMade
  <2> HIDE DEF es, p
  <2>3. CASE EndPass /\ divided' = [known |-> TRUE, for |-> Composition, owed |-> Owed(p)]
    <3>1. Owed(p) \subseteq Claims /\ Composition \subseteq Claims \X BOOLEAN
      BY <2>2, PassFacts, DividedFacts
    <3> QED BY <1>5, <2>3, <3>1
  <2>4. CASE CarryOut(p, Why, reading) /\ UNCHANGED divided
    <3>1. Why \in {"first", "changed", "load"}
      BY DEF Why
    <3>2. PICK why \in {"first", "changed", "load"} : why = Why
      BY <3>1
    <3>3. /\ pass' \in PassType /\ StageOK(pass') /\ CarryOK(pass')
          /\ pass'.pc \in {"record", "shrink"}
          /\ pass'.plan = p /\ UnrecordedAt(pass') = p /\ pass'.why = why
      BY <1>1, <1>3, <2>2, <2>4, <3>2, CarryOutFacts
    <3>4. AInv'
      BY <1>1, <1>3, <1>4, <2>4, <3>3, QuietTypes
    <3> QED BY <2>2, <3>2, <3>3, <3>4
  <2> QED BY <2>1, <2>3, <2>4
<1> QED BY <1>6, <1>7


(* A step whose parts keep their types. *)
LEMMA StepTypes ==
  ASSUME AInv, ClaimsOK', UNCHANGED cache, WorldOK', BudgetOK',
         divided' \in [known : BOOLEAN, for : SUBSET (Claims \X BOOLEAN), owed : SUBSET Claims],
         pass' \in PassType, StageOK(pass'), CarryOK(pass')
  PROVE  AInv'
<1>1. TypeOK'
  BY TypePartsNext
<1> QED BY <1>1 DEF AInv, PassOK

-----------------------------------------------------------------------------
(* The steps of a plan: it goes on, is given up, or makes room for a newcomer. *)
GoesOn ==
  /\ pass.pc \in Carrying /\ pass'.pc \in Carrying
  /\ pass'.plan = pass.plan /\ pass'.why = pass.why
  /\ pass'.c = pass.c /\ pass'.base = pass.base /\ pass'.inst = pass.inst
GivesUp ==
  /\ pass.pc \in Carrying
  /\ \/ pass' = Idle
     \/ /\ pass.why = "placement" /\ pass'.pc = "status"
        /\ pass'.c = pass.c /\ pass'.base = pass.base /\ pass'.inst = NoInst
MakesRoom ==
  /\ pass.pc \in Carrying /\ pass.why = "placement" /\ pass'.pc = "reserve"
  /\ pass'.c = pass.c /\ pass'.base = pass.base
  /\ \E l \in pass.plan : l.e.c = pass.c /\ pass'.inst = Instance("activating", l.limit)

(* The pass keeps its type and what it knows. *)
PassKept ==
  /\ pass' \in PassType /\ StageOK(pass') /\ CarryOK(pass')
  /\ divided' \in [known : BOOLEAN, for : SUBSET (Claims \X BOOLEAN), owed : SUBSET Claims]

(* A plan that is given up. *)
LEMMA ArrangeFailedFacts ==
  ASSUME AInv, pass.pc \in Carrying, NEW reading \in ReadingType, ArrangeFailed(reading)
  PROVE  GivesUp /\ PassKept
<1>1. CASE pass.why = "placement"
  <2>1. /\ pass' = [Settled EXCEPT !.pc = "status", !.reading = reading] /\ UNCHANGED divided
    BY <1>1 DEF ArrangeFailed
  <2>2. pass' = [pass EXCEPT !.plan = {}, !.todo = {}, !.done = {}, !.why = "none",
                             !.pc = "status", !.reading = reading]
    BY <2>1 DEF Settled
  <2>3. pass' \in PassType
    <3>1. {} \in SUBSET LimitType
      OBVIOUS
    <3> QED BY <2>2, <3>1 DEF AInv, PassOK, PassType, Stages
  <2>4. /\ pass'.pc = "status" /\ pass'.c = pass.c /\ pass'.base = pass.base
        /\ pass'.inst = pass.inst /\ pass'.done = {}
    BY <2>2 DEF AInv, PassOK, PassType
  <2>5. pass.inst = NoInst /\ pass.base.life = "live"
    BY <1>1 DEF AInv, StageOK, PlacingAt
  <2>6. StageOK(pass') /\ CarryOK(pass')
    BY <2>4, <2>5 DEF StageOK, CarryOK, PlacingAt, Carrying, Judging, Deleting
  <2>7. divided' \in [known : BOOLEAN, for : SUBSET (Claims \X BOOLEAN), owed : SUBSET Claims]
    BY <2>1 DEF AInv, PassOK
  <2> QED BY <1>1, <2>3, <2>4, <2>5, <2>6, <2>7 DEF GivesUp, PassKept
<1>2. CASE pass.why # "placement"
  <2>1. pass' = Idle /\ divided' = [divided EXCEPT !.owed = Owed(pass.plan)]
    BY <1>2 DEF ArrangeFailed, EndPass
  <2>2. divided' \in [known : BOOLEAN, for : SUBSET (Claims \X BOOLEAN), owed : SUBSET Claims]
    <3>1. Owed(pass.plan) \subseteq Claims
      <4>1. pass.plan \subseteq LimitType
        BY PassFacts
      <4> QED BY <4>1 DEF Owed, LimitType, EntryType
    <3> QED BY <2>1, <3>1 DEF AInv, PassOK
  <2> QED BY <2>1, <2>2, IdleFacts DEF GivesUp, PassKept
<1> QED BY <1>1, <1>2

(* A plan that is carried out. *)
LEMMA ArrangeDoneFacts ==
  ASSUME AInv, pass.pc \in Carrying, NEW reading \in ReadingType, NEW grown \in BOOLEAN,
         ArrangeDone(reading, grown)
  PROVE  (GivesUp \/ MakesRoom) /\ PassKept
<1>1. CASE pass.why = "placement"
  <2> DEFINE S == {l \in pass.plan : l.e.c = pass.c}
  <2>1. S # {} /\ S \subseteq LimitType
    BY <1>1, PassFacts DEF AInv, CarryOK
  <2>2. First(S) \in S
    <3> HIDE DEF S
    <3> QED BY <2>1, FirstFacts
  <2>3. PICK l \in pass.plan : l.e.c = pass.c /\ l = First(S)
    BY <2>2
  <2>4. PlannedFor(pass.c) = l.limit /\ l.limit \in 1..Card
    BY <2>1, <2>3, PassFacts DEF PlannedFor, LimitType
  <2> HIDE DEF S
  <2>5. /\ pass' = [Settled EXCEPT !.pc = "reserve", !.reading = reading,
                                   !.inst = Instance("activating", l.limit)]
        /\ divided' = Divided({<<pass.c, FALSE>>})
    BY <1>1, <2>4 DEF ArrangeDone
  <2>6. pass' = [pass EXCEPT !.plan = {}, !.todo = {}, !.done = {}, !.why = "none",
                             !.pc = "reserve", !.reading = reading,
                             !.inst = Instance("activating", l.limit)]
    BY <2>5 DEF Settled
  <2>7. Instance("activating", l.limit) \in Instances
        /\ Instance("activating", l.limit).phase = "activating"
    BY <2>4 DEF Instance, Instances
  <2>8. pass' \in PassType
    <3>1. {} \in SUBSET LimitType
      OBVIOUS
    <3> QED BY <2>6, <2>7, <3>1 DEF AInv, PassOK, PassType, Stages
  <2>9. /\ pass'.pc = "reserve" /\ pass'.c = pass.c /\ pass'.base = pass.base
        /\ pass'.inst = Instance("activating", l.limit) /\ pass'.done = {}
    BY <2>6 DEF AInv, PassOK, PassType
  <2>10. pass.base.inst = NoInst /\ pass.base.life = "live"
    BY <1>1 DEF AInv, StageOK, PlacingAt
  <2>11. StageOK(pass') /\ CarryOK(pass')
    BY <2>7, <2>9, <2>10 DEF StageOK, CarryOK, PlacingAt, Carrying, Judging, Deleting
  <2>12. divided' \in [known : BOOLEAN, for : SUBSET (Claims \X BOOLEAN), owed : SUBSET Claims]
    <3>1. Composition \cup {<<pass.c, FALSE>>} \subseteq Claims \X BOOLEAN
      BY PassFacts, DividedFacts
    <3>2. divided' = [known |-> TRUE, for |-> Composition \cup {<<pass.c, FALSE>>}, owed |-> {}]
      BY <2>5 DEF Divided
    <3> QED BY <3>1, <3>2
  <2>13. MakesRoom
    BY <1>1, <2>3, <2>9 DEF MakesRoom
  <2> QED BY <2>8, <2>11, <2>12, <2>13 DEF PassKept
<1>2. CASE pass.why # "placement" /\ grown
  <2>1. pass' = Idle /\ divided' = Divided({})
    BY <1>2 DEF ArrangeDone, EndPass
  <2>2. divided' \in [known : BOOLEAN, for : SUBSET (Claims \X BOOLEAN), owed : SUBSET Claims]
    <3>1. Composition \subseteq Claims \X BOOLEAN
      BY PassFacts, DividedFacts
    <3>2. divided' = [known |-> TRUE, for |-> Composition \cup {}, owed |-> {}]
      BY <2>1 DEF Divided
    <3> QED BY <3>1, <3>2
  <2> QED BY <2>1, <2>2, IdleFacts DEF GivesUp, PassKept
<1>3. CASE pass.why # "placement" /\ ~grown
  <2>1. ArrangeFailed(reading)
    BY <1>3 DEF ArrangeDone
  <2> QED BY <2>1, ArrangeFailedFacts
<1> QED BY <1>1, <1>2, <1>3


(* The steps of a plan before and after its records are written. *)
LEMMA CarryTypes ==
  ASSUME AInv, Shrink \/ ConfirmShrink \/ TakeBack \/ Grow \/ ConfirmGrow
  PROVE  /\ AInv' /\ UNCHANGED claim /\ scenario' = scenario
         /\ \A c \in Claims : engine'[c].phase = engine[c].phase
         /\ \/ GoesOn /\ (pass'.pc = "back" \/ (/\ pass.pc # "back"
                                                /\ UnrecordedAt(pass') = UnrecordedAt(pass)))
            \/ GivesUp \/ (pass.pc \in {"grow", "confirmGrow"} /\ MakesRoom)
<1>0. /\ ClaimsOK /\ WorldOK /\ BudgetOK
      /\ pass.plan \subseteq LimitType /\ pass.todo \subseteq LimitType
      /\ pass \in PassType /\ pass.done \subseteq LimitType
      /\ divided \in [known : BOOLEAN, for : SUBSET (Claims \X BOOLEAN), owed : SUBSET Claims]
      /\ NoReading \in ReadingType
  BY TypeParts, PassFacts, NoReadingFacts DEF AInv, PassOK
<1>1. /\ UNCHANGED <<claim, cache, route, load>>
      /\ pass.pc \in Carrying
  BY DEF Shrink, ConfirmShrink, TakeBack, Grow, ConfirmGrow, world, At, Carrying
<1>2. pass.todo \subseteq pass.plan /\ pass.done \subseteq pass.plan /\ PlanOK(pass.plan)
      /\ (pass.why = "placement" => \E l \in pass.plan : l.e.c = pass.c)
      /\ (pass.pc \in {"shrink", "record", "grow"} => pass.todo # {})
      /\ pass.plan # {}
  BY <1>1 DEF AInv, CarryOK
<1> DEFINE Engines_ok == /\ engine' \in [Claims -> EngineType]
                         /\ \A d \in Claims : engine'[d].phase = engine[d].phase
                         /\ BudgetOK' /\ scenario' = scenario
<1>3. ASSUME Engines_ok, PassKept PROVE AInv'
  BY <1>0, <1>1, <1>3, StepTypes DEF PassKept, ClaimsOK, WorldOK
<1>4. \A l \in LimitType : l.e.c \in Claims /\ l.limit \in NoSegment..KVMost
      /\ Before(l) \in NoSegment..KVMost
  <2> TAKE l \in LimitType
  <2>1. /\ l.e.c \in Claims /\ l.limit \in 1..Card /\ l.e.rec \in 0..Card
        /\ l.e.cap \in NoSegment..KVMost /\ l.e.ceiling \in {-1, Startup}
    BY DEF LimitType, EntryType
  <2> QED BY <2>1, Constants DEF NoSegment, Before, Clamp
<1>5. ASSUME NEW l \in LimitType, NEW limit \in {l.limit, Before(l)}, NEW answer,
             SetKVLimit(l.e.c, limit, answer)
      PROVE  Engines_ok
  <2>1. TypeOK /\ l.e.c \in Claims /\ limit \in NoSegment..KVMost
    BY <1>4 DEF AInv
  <2> QED BY <1>5, <2>1, SetKVLimitFacts
<1>6. ASSUME UNCHANGED <<engine, budget>> PROVE Engines_ok
  BY <1>0, <1>6, BudgetFacts DEF AInv, WorldOK
<1>7. ASSUME NEW reading \in Readings, Reads(reading), UNCHANGED engine
      PROVE  Engines_ok /\ reading \in ReadingType
  BY <1>0, <1>7, ReadsFacts DEF AInv, WorldOK
<1> DEFINE At_(pc, todo, done, reading) ==
             [pass EXCEPT !.pc = pc, !.todo = todo, !.done = done, !.reading = reading]
<1> HIDE DEF Engines_ok, At_
<1>8. ASSUME NEW pc \in Carrying, NEW todo \in SUBSET pass.plan, NEW done \in SUBSET pass.plan,
             NEW reading \in ReadingType, UNCHANGED divided,
             pc \in {"shrink", "record", "grow"} => todo # {},
             pass' = At_(pc, todo, done, reading)
      PROVE  GoesOn /\ PassKept /\ pass'.pc = pc /\ pass'.todo = todo
  <2>1. /\ pass'.pc = pc /\ pass'.todo = todo /\ pass'.done = done /\ pass'.plan = pass.plan
        /\ pass'.why = pass.why /\ pass'.c = pass.c /\ pass'.base = pass.base
        /\ pass'.inst = pass.inst
    BY <1>0, <1>8 DEF PassType, At_
  <2>2. pass' \in PassType
    <3>1. todo \in SUBSET LimitType /\ done \in SUBSET LimitType /\ pc \in Stages
      BY <1>0, <1>8 DEF Stages
    <3> QED BY <1>0, <1>8, <3>1 DEF PassType, At_
  <2>3. CarryOK(pass')
    BY <1>2, <1>8, <2>1 DEF CarryOK
  <2>4. StageOK(pass')
    BY <1>1, <1>8, <2>1 DEF AInv, StageOK, PlacingAt, Carrying, Judging, Deleting
  <2>5. divided' = divided
    BY <1>8
  <2> QED BY <1>0, <1>1, <2>1, <2>2, <2>3, <2>4, <2>5 DEF GoesOn, PassKept
<1>9. CASE Shrink
  <2>1. pass.pc = "shrink" /\ UNCHANGED divided
    BY <1>9 DEF Shrink, At
  <2>2. PICK l \in pass.todo : l = First(pass.todo)
    BY <1>0, <1>2, <2>1, FirstFacts
  <2>3. PICK answer \in {"ok", "error"} :
          /\ SetKVLimit(l.e.c, l.limit, answer)
          /\ pass' = IF answer = "error"
                     THEN [pass EXCEPT !.pc = "back", !.todo = pass.done, !.done = {},
                                       !.reading = NoReading]
                     ELSE [pass EXCEPT !.pc = IF pass.todo = {l} THEN "confirm" ELSE "shrink",
                                       !.done = @ \cup {l}, !.todo = @ \ {l},
                                       !.reading = NoReading]
    BY <1>9, <2>2 DEF Shrink
  <2>4. Engines_ok
    BY <1>0, <1>5, <2>2, <2>3
  <2>5. CASE answer = "error"
    <3>1. pass' = At_("back", pass.done, {}, NoReading)
      BY <2>3, <2>5 DEF At_
    <3>2. GoesOn /\ PassKept /\ pass'.pc = "back"
      BY <1>0, <1>2, <1>8, <2>1, <3>1 DEF Carrying
    <3> QED BY <1>1, <1>3, <2>4, <3>2 DEF Engines_ok
  <2>6. CASE answer # "error"
    <3>1. PICK pc \in {"confirm", "shrink"} :
             /\ pc = IF pass.todo = {l} THEN "confirm" ELSE "shrink"
             /\ pass' = At_(pc, pass.todo \ {l}, pass.done \cup {l}, NoReading)
      BY <2>3, <2>6 DEF At_
    <3>2. /\ pass.todo \ {l} \in SUBSET pass.plan /\ pass.done \cup {l} \in SUBSET pass.plan
          /\ pc \in {"shrink", "record", "grow"} => pass.todo \ {l} # {}
      BY <1>2, <2>2, <3>1
    <3>3. GoesOn /\ PassKept /\ pass'.pc = pc
      BY <1>0, <1>8, <2>1, <3>1, <3>2 DEF Carrying
    <3>4. UnrecordedAt(pass') = UnrecordedAt(pass)
      BY <2>1, <3>3 DEF UnrecordedAt, GoesOn
    <3> QED BY <1>1, <1>3, <2>1, <2>4, <3>3, <3>4 DEF Engines_ok
  <2> QED BY <2>5, <2>6
<1>10. CASE ConfirmShrink
  <2>1. pass.pc = "confirm" /\ UNCHANGED <<engine, divided>>
    BY <1>10 DEF ConfirmShrink, At, world
  <2>2. PICK reading \in Readings :
          /\ Reads(reading)
          /\ pass' = IF reading.kind = "read" /\ Confirmed(reading.of, pass.done)
                     THEN [pass EXCEPT !.pc = "record", !.todo = pass.plan,
                                       !.done = {}, !.reading = reading]
                     ELSE [pass EXCEPT !.pc = "back", !.todo = pass.done, !.done = {}]
    BY <1>10 DEF ConfirmShrink
  <2>3. Engines_ok /\ reading \in ReadingType
    BY <1>7, <2>1, <2>2
  <2>4. CASE pass' = [pass EXCEPT !.pc = "back", !.todo = pass.done, !.done = {}]
    <3>1. pass' = At_("back", pass.done, {}, pass.reading)
      BY <1>0, <2>4 DEF PassType, At_
    <3>2. pass.reading \in ReadingType
      BY PassFacts
    <3>3. GoesOn /\ PassKept /\ pass'.pc = "back"
      BY <1>2, <1>8, <2>1, <3>1, <3>2 DEF Carrying
    <3> QED BY <1>1, <1>3, <2>3, <3>3 DEF Engines_ok
  <2>5. CASE pass' = [pass EXCEPT !.pc = "record", !.todo = pass.plan, !.done = {},
                                  !.reading = reading]
    <3>1. pass.plan # {} /\ pass' = At_("record", pass.plan, {}, reading)
      BY <1>2, <2>5 DEF At_
    <3>2. GoesOn /\ PassKept /\ pass'.pc = "record" /\ pass'.todo = pass.plan
      BY <1>2, <1>8, <2>1, <2>3, <2>5, <3>1 DEF Carrying
    <3>3. UnrecordedAt(pass') = UnrecordedAt(pass)
      BY <2>1, <3>2 DEF UnrecordedAt
    <3> QED BY <1>1, <1>3, <2>1, <2>3, <3>2, <3>3 DEF Engines_ok
  <2> QED BY <2>2, <2>4, <2>5
<1>11. CASE TakeBack
  <2> DEFINE left == {l \in pass.todo : Before(l) > l.limit}
  <2>1. pass.pc = "back" /\ left \subseteq pass.todo
    BY <1>11 DEF TakeBack, At
  <2>2. CASE left = {}
    <3>1. ArrangeFailed(NoReading) /\ UNCHANGED <<engine, budget>>
      BY <1>11, <2>2 DEF TakeBack
    <3>2. GivesUp /\ PassKept
      BY <1>0, <1>1, <3>1, ArrangeFailedFacts
    <3> QED BY <1>1, <1>3, <1>6, <3>1, <3>2 DEF Engines_ok
  <2>3. CASE left # {}
    <3>1. PICK answer \in {"ok", "error"}, l \in left :
             /\ SetKVLimit(l.e.c, Before(l), answer)
             /\ pass' = [pass EXCEPT !.todo = IF answer = "ok" THEN left \ {l} ELSE {}]
             /\ UNCHANGED divided
      <4>1. First(left) \in left
        <5>1. left \subseteq LimitType
          BY <1>0, <2>1
        <5> HIDE DEF left
        <5> QED BY <2>3, <5>1, FirstFacts
      <4>2. PICK l \in left : l = First(left)
        BY <4>1
      <4>3. \E answer \in {"ok", "error"} :
             /\ SetKVLimit(l.e.c, Before(l), answer)
             /\ pass' = [pass EXCEPT !.todo = IF answer = "ok" THEN left \ {l} ELSE {}]
             /\ UNCHANGED divided
        BY <1>11, <2>3, <4>2 DEF TakeBack
      <4> QED BY <4>3
    <3>2. l \in LimitType
      BY <1>0, <2>1
    <3>3. Engines_ok
      BY <1>5, <3>1, <3>2
    <3>4. PICK todo \in SUBSET pass.plan : pass' = [pass EXCEPT !.todo = todo]
      <4>1. (IF answer = "ok" THEN left \ {l} ELSE {}) \in SUBSET pass.plan
        BY <1>2, <2>1
      <4> HIDE DEF left
      <4> QED BY <3>1, <4>1
    <3> HIDE DEF left
    <3>5. pass' = At_("back", todo, pass.done, pass.reading)
      BY <1>0, <2>1, <3>4 DEF PassType, At_
    <3>6. pass.reading \in ReadingType /\ UNCHANGED divided
      BY <3>1, PassFacts
    <3>7. GoesOn /\ PassKept /\ pass'.pc = "back"
      BY <1>2, <1>8, <3>4, <3>5, <3>6 DEF Carrying
    <3> QED BY <1>1, <1>3, <3>3, <3>7 DEF Engines_ok
  <2> QED BY <2>2, <2>3
<1>12. CASE Grow
  <2>1. pass.pc = "grow"
    BY <1>12 DEF Grow, At
  <2>2. PICK l \in pass.todo : l = First(pass.todo)
    BY <1>0, <1>2, <2>1, FirstFacts
  <2>3. PICK answer \in {"ok", "error"} :
          /\ SetKVLimit(l.e.c, l.limit, answer)
          /\ IF answer = "error" THEN ArrangeDone(NoReading, FALSE)
             ELSE /\ pass' = [pass EXCEPT !.pc = IF pass.todo = {l} THEN "confirmGrow" ELSE "grow",
                                          !.todo = @ \ {l}, !.reading = NoReading]
                  /\ UNCHANGED divided
    BY <1>12, <2>2 DEF Grow
  <2>4. Engines_ok
    BY <1>0, <1>5, <2>2, <2>3
  <2>5. CASE answer = "error"
    <3>1. (GivesUp \/ MakesRoom) /\ PassKept
      BY <1>0, <1>1, <2>3, <2>5, ArrangeDoneFacts
    <3> QED BY <1>1, <1>3, <2>1, <2>4, <3>1 DEF Engines_ok
  <2>6. CASE answer # "error"
    <3>1. PICK pc \in {"confirmGrow", "grow"} :
             /\ pc = IF pass.todo = {l} THEN "confirmGrow" ELSE "grow"
             /\ pass' = At_(pc, pass.todo \ {l}, pass.done, NoReading)
      BY <1>0, <2>3, <2>6 DEF At_, PassType
    <3>2. /\ pass.todo \ {l} \in SUBSET pass.plan
          /\ pc \in {"shrink", "record", "grow"} => pass.todo \ {l} # {}
      BY <1>2, <2>2, <3>1
    <3>3. GoesOn /\ PassKept /\ pass'.pc = pc
      BY <1>0, <1>2, <1>8, <2>3, <2>6, <3>1, <3>2 DEF Carrying
    <3>4. UnrecordedAt(pass') = UnrecordedAt(pass)
      BY <2>1, <3>3 DEF UnrecordedAt
    <3> QED BY <1>1, <1>3, <2>1, <2>4, <3>3, <3>4 DEF Engines_ok
  <2> QED BY <2>5, <2>6
<1>13. CASE ConfirmGrow
  <2>1. pass.pc = "confirmGrow" /\ UNCHANGED engine
    BY <1>13 DEF ConfirmGrow, At, world
  <2>2. PICK reading \in Readings :
          /\ Reads(reading)
          /\ IF reading.kind = "read"
             THEN ArrangeDone(reading, Confirmed(reading.of, Grows(pass.plan)))
             ELSE ArrangeDone(NoReading, FALSE)
    BY <1>13 DEF ConfirmGrow
  <2>3. Engines_ok /\ reading \in ReadingType
    BY <1>7, <2>1, <2>2
  <2>4. PICK known \in ReadingType, grown \in BOOLEAN : ArrangeDone(known, grown)
    <3>1. Confirmed(reading.of, Grows(pass.plan)) \in BOOLEAN
      BY DEF Confirmed
    <3> QED BY <1>0, <2>2, <2>3, <3>1
  <2>5. (GivesUp \/ MakesRoom) /\ PassKept
    BY <1>1, <2>4, ArrangeDoneFacts
  <2> QED BY <1>1, <1>3, <2>1, <2>3, <2>5 DEF Engines_ok
<1> QED BY <1>9, <1>10, <1>11, <1>12, <1>13


(* A record is written to a claim that has an instance. *)
LEMMA RecordedFacts ==
  ASSUME AInv, NEW l \in LimitType
  PROVE  /\ Recorded(l) \in [Claims -> ClaimType]
         /\ \A c \in Claims \ {l.e.c} : Recorded(l)[c] = claim[c]
         /\ claim[l.e.c].inst = NoInst => Recorded(l) = claim
         /\ claim[l.e.c].inst # NoInst =>
              Recorded(l)[l.e.c] = [life |-> claim[l.e.c].life,
                                    inst |-> [phase |-> claim[l.e.c].inst.phase, kv |-> l.limit]]
         /\ \A c \in Claims : /\ Recorded(l)[c].life = claim[c].life
                              /\ Recorded(l)[c].inst.phase = claim[c].inst.phase
                              /\ Recorded(l)[c].inst = NoInst <=> claim[c].inst = NoInst
<1>1. l.e.c \in Claims /\ l.limit \in 1..Card /\ claim \in [Claims -> ClaimType]
  BY TypeParts DEF AInv, ClaimsOK, LimitType, EntryType
<1>2. PICK c \in Claims : c = l.e.c
  BY <1>1
<1>3. CASE claim[c].inst = NoInst
  BY <1>1, <1>2, <1>3 DEF Recorded
<1>4. CASE claim[c].inst # NoInst
  <2>1. /\ claim[c] \in [life : {"absent", "live", "deleted", "gone"}, inst : Instances]
        /\ claim[c].inst \in [phase : {"activating", "active", "failed"}, kv : 1..Card]
    BY <1>1, <1>4 DEF ClaimType, Instances
  <2> DEFINE new == [life |-> claim[c].life, inst |-> [phase |-> claim[c].inst.phase, kv |-> l.limit]]
  <2>2. Recorded(l) = [claim EXCEPT ![c] = new]
    <3>1. [claim[c].inst EXCEPT !.kv = l.limit] = [phase |-> claim[c].inst.phase, kv |-> l.limit]
      BY <2>1
    <3>2. [claim[c] EXCEPT !.inst = [claim[c].inst EXCEPT !.kv = l.limit]] = new
      BY <2>1, <3>1
    <3>3. Recorded(l) = [claim EXCEPT ![c].inst.kv = l.limit]
      BY <1>2, <1>4 DEF Recorded
    <3>4. [claim EXCEPT ![c].inst.kv = l.limit]
            = [claim EXCEPT ![c] = [claim[c] EXCEPT !.inst = [claim[c].inst EXCEPT !.kv = l.limit]]]
      BY <1>1
    <3> HIDE DEF new
    <3> QED BY <3>2, <3>3, <3>4
  <2>3. new.inst \in Instances /\ new.inst # NoInst
    BY <1>1, <2>1 DEF Instances, NoInst
  <2>4. new \in ClaimType /\ new.life = claim[c].life /\ new.inst.phase = claim[c].inst.phase
    BY <2>1, <2>3 DEF ClaimType
  <2> HIDE DEF new
  <2>5. /\ Recorded(l) \in [Claims -> ClaimType] /\ Recorded(l)[c] = new
        /\ \A d \in Claims \ {c} : Recorded(l)[d] = claim[d]
    BY <1>1, <2>2, <2>4
  <2>6. \A d \in Claims : /\ Recorded(l)[d].life = claim[d].life
                          /\ Recorded(l)[d].inst.phase = claim[d].inst.phase
                          /\ Recorded(l)[d].inst = NoInst <=> claim[d].inst = NoInst
    BY <1>4, <2>3, <2>4, <2>5
  <2> QED BY <1>2, <1>4, <2>5, <2>6 DEF new
<1> QED BY <1>3, <1>4

(* The step that writes a record: one that goes down, while there is one. *)
LEMMA RecordTypes ==
  ASSUME AInv, RecordLimit
  PROVE  /\ AInv' /\ pass.pc = "record" /\ UNCHANGED engine /\ scenario' = scenario
         /\ \E l \in pass.todo :
              /\ (\E m \in pass.todo : LowersRecord(m)) => LowersRecord(l)
              /\ claim' \in {claim, Recorded(l)}
              /\ \/ /\ claim' = Recorded(l) /\ GoesOn
                    /\ pass'.pc \in {"record", "grow"} /\ UnrecordedAt(pass') = pass.todo \ {l}
                 \/ claim' = Recorded(l) /\ pass.todo = {l} /\ MakesRoom
                 \/ GivesUp
<1>0. /\ ClaimsOK /\ WorldOK /\ BudgetOK
      /\ pass.plan \subseteq LimitType /\ pass.todo \subseteq LimitType
      /\ pass \in PassType /\ pass.reading \in ReadingType
      /\ divided \in [known : BOOLEAN, for : SUBSET (Claims \X BOOLEAN), owed : SUBSET Claims]
  BY TypeParts, PassFacts DEF AInv, PassOK
<1>1. UNCHANGED <<cache, engine, route, load>> /\ pass.pc = "record" /\ pass.pc \in Carrying
  BY DEF RecordLimit, world, At, Carrying
<1>2. /\ pass.todo \subseteq pass.plan /\ pass.done \subseteq pass.plan /\ pass.todo # {}
      /\ PlanOK(pass.plan) /\ pass.plan # {}
      /\ pass.why = "placement" => \E l \in pass.plan : l.e.c = pass.c
  BY <1>1 DEF AInv, CarryOK
<1>3. PICK l \in pass.todo : l = NextRecord(pass.todo)
                             /\ ((\E m \in pass.todo : LowersRecord(m)) => LowersRecord(l))
  BY <1>0, <1>2, NextRecordFacts
<1>4. l \in LimitType
  BY <1>0
<1>5. \/ /\ claim' = Recorded(l) /\ UNCHANGED budget
         /\ IF pass.todo # {l} THEN pass' = [pass EXCEPT !.todo = @ \ {l}] /\ UNCHANGED divided
            ELSE IF Grows(pass.plan) = {} THEN ArrangeDone(pass.reading, TRUE)
            ELSE pass' = [pass EXCEPT !.pc = "grow", !.todo = Grows(pass.plan)] /\ UNCHANGED divided
      \/ /\ claim' \in {claim, Recorded(l)} /\ Fault("api")
         /\ ArrangeFailed(pass.reading)
  BY <1>3 DEF RecordLimit
<1>6. claim' \in {claim, Recorded(l)} /\ BudgetOK' /\ scenario' = scenario
  BY <1>5, FaultFacts, BudgetFacts DEF AInv
<1>7. ClaimsOK'
  <2>1. CASE claim' = claim
    BY <1>0, <2>1 DEF ClaimsOK
  <2>2. CASE claim' = Recorded(l)
    BY <1>0, <1>4, <2>2, RecordedFacts DEF ClaimsOK
  <2> QED BY <1>6, <2>1, <2>2
<1>8. WorldOK'
  BY <1>0, <1>1 DEF WorldOK
<1>9. ASSUME PassKept PROVE AInv'
  BY <1>1, <1>6, <1>7, <1>8, <1>9, StepTypes DEF PassKept
<1>10. ASSUME NEW pc \in {"record", "grow"}, NEW todo \in SUBSET pass.plan, todo # {},
              pass' = [pass EXCEPT !.pc = pc, !.todo = todo], UNCHANGED divided
       PROVE  GoesOn /\ PassKept /\ pass'.pc = pc /\ pass'.todo = todo
  <2>1. /\ pass'.pc = pc /\ pass'.todo = todo /\ pass'.done = pass.done /\ pass'.plan = pass.plan
        /\ pass'.why = pass.why /\ pass'.c = pass.c /\ pass'.base = pass.base
        /\ pass'.inst = pass.inst
    BY <1>0, <1>10 DEF PassType
  <2>2. pass' \in PassType
    <3>1. todo \in SUBSET LimitType
      BY <1>0
    <3> QED BY <1>0, <1>10, <3>1 DEF PassType, Stages, Carrying
  <2>3. CarryOK(pass')
    BY <1>2, <1>10, <2>1 DEF CarryOK, Carrying
  <2>4. StageOK(pass')
    BY <1>1, <1>10, <2>1 DEF AInv, StageOK, PlacingAt, Carrying, Judging, Deleting
  <2>5. divided' = divided
    BY <1>10
  <2> QED BY <1>0, <1>1, <1>10, <2>1, <2>2, <2>3, <2>4, <2>5 DEF GoesOn, PassKept, Carrying
<1>11. CASE claim' \in {claim, Recorded(l)} /\ Fault("api") /\ ArrangeFailed(pass.reading)
  <2>1. GivesUp /\ PassKept
    BY <1>0, <1>1, <1>11, ArrangeFailedFacts
  <2> QED BY <1>1, <1>3, <1>6, <1>9, <2>1
<1>12. CASE claim' = Recorded(l) /\ pass.todo = {l} /\ Grows(pass.plan) = {}
            /\ ArrangeDone(pass.reading, TRUE)
  <2>1. (GivesUp \/ MakesRoom) /\ PassKept
    BY <1>0, <1>1, <1>12, ArrangeDoneFacts
  <2> QED BY <1>1, <1>3, <1>6, <1>9, <1>12, <2>1
<1>13. CASE /\ claim' = Recorded(l) /\ pass.todo # {l} /\ UNCHANGED divided
            /\ pass' = [pass EXCEPT !.todo = pass.todo \ {l}]
  <2>1. pass' = [pass EXCEPT !.pc = "record", !.todo = pass.todo \ {l}]
    BY <1>0, <1>1, <1>13 DEF PassType
  <2>2. pass.todo \ {l} \in SUBSET pass.plan /\ pass.todo \ {l} # {}
    BY <1>2, <1>13
  <2>3. GoesOn /\ PassKept /\ pass'.pc = "record" /\ pass'.todo = pass.todo \ {l}
    BY <1>10, <1>13, <2>1, <2>2
  <2>4. UnrecordedAt(pass') = pass.todo \ {l}
    BY <2>3 DEF UnrecordedAt
  <2> QED BY <1>1, <1>3, <1>6, <1>9, <1>13, <2>3, <2>4
<1>14. CASE /\ claim' = Recorded(l) /\ pass.todo = {l} /\ Grows(pass.plan) # {}
            /\ pass' = [pass EXCEPT !.pc = "grow", !.todo = Grows(pass.plan)]
            /\ UNCHANGED divided
  <2>1. Grows(pass.plan) \in SUBSET pass.plan
    BY DEF Grows
  <2>2. GoesOn /\ PassKept /\ pass'.pc = "grow"
    BY <1>10, <1>14, <2>1
  <2>3. UnrecordedAt(pass') = pass.todo \ {l}
    BY <1>14, <2>2 DEF UnrecordedAt
  <2> QED BY <1>1, <1>3, <1>6, <1>9, <1>14, <2>2, <2>3
<1> QED BY <1>5, <1>11, <1>12, <1>13, <1>14


-----------------------------------------------------------------------------
(* The steps of a pass for a claim that has, or is given, an instance. *)

(* What the pass writes to its claim's status. *)
Written == [life |-> pass.base.life, inst |-> pass.inst]

(* A written status is a claim's, of a claim that exists. *)
LEMMA WrittenFacts ==
  ASSUME AInv, pass.base.life = "live"
  PROVE  /\ [pass.base EXCEPT !.inst = pass.inst] = Written
         /\ Written \in ClaimType /\ Written \in BaseType
         /\ Written.life = "live" /\ Written.inst = pass.inst
         /\ (claim' = claim \/ claim' = [claim EXCEPT ![pass.c] = Written]) => ClaimsOK'
<1>1. pass.base \in BaseType /\ pass.inst \in Instances /\ pass.c \in Claims /\ ClaimsOK
  BY TypeParts, PassFacts DEF AInv
<1>2. [pass.base EXCEPT !.inst = pass.inst] = Written
  BY <1>1 DEF Written, BaseType
<1>3. Written \in ClaimType /\ Written \in BaseType /\ Written.life = "live" /\ Written.inst = pass.inst
  BY <1>1 DEF Written, BaseType, ClaimType
<1>4. ASSUME claim' = claim \/ claim' = [claim EXCEPT ![pass.c] = Written]
      PROVE  ClaimsOK'
  BY <1>1, <1>3, <1>4 DEF ClaimsOK
<1> QED BY <1>2, <1>3, <1>4

(* The instance of a placement is recorded. *)
LEMMA ReserveTypes ==
  ASSUME AInv, Reserve
  PROVE  /\ AInv' /\ pass.pc = "reserve" /\ UNCHANGED engine /\ scenario' = scenario
         /\ claim' = claim \/ (claim[pass.c] = pass.base /\ claim' = [claim EXCEPT ![pass.c] = Written])
         /\ \/ pass' = Idle
            \/ /\ pass'.pc = "activate" /\ pass'.c = pass.c /\ pass'.inst = pass.inst
               /\ pass'.base = Written /\ claim[pass.c] = pass.base
               /\ claim' = [claim EXCEPT ![pass.c] = Written]
            \/ /\ pass'.pc = "status" /\ pass'.c = pass.c /\ pass'.inst = pass.inst
               /\ pass'.base = pass.base
<1>0. /\ pass \in PassType /\ pass.c \in Claims /\ TypeOK /\ ClaimsOK /\ WorldOK
      /\ divided \in [known : BOOLEAN, for : SUBSET (Claims \X BOOLEAN), owed : SUBSET Claims]
  BY TypeParts, PassFacts DEF AInv, PassOK
<1>1. pass.pc = "reserve" /\ UNCHANGED <<cache, engine, route, load, divided>>
  BY DEF Reserve, At, world
<1>2. /\ pass.base.life = "live" /\ pass.inst.phase = "activating" /\ pass.inst # NoInst
      /\ pass.done = {}
  BY <1>1 DEF AInv, StageOK, CarryOK, NoInst, Carrying
<1>3. PICK answer \in {"ok", "conflict", "error"} :
        /\ Update(pass.c, Written, answer)
        /\ CASE answer = "ok" -> pass' = [pass EXCEPT !.pc = "activate", !.base = Written]
             [] answer = "conflict" -> EndPass
             [] answer = "error" -> pass' = [pass EXCEPT !.pc = "status"]
  BY <1>2, WrittenFacts DEF Reserve
<1>4. PICK new : new = Written
  OBVIOUS
<1>5. /\ claim' = claim \/ (claim[pass.c] = pass.base /\ claim' = [claim EXCEPT ![pass.c] = new])
      /\ answer = "ok" => claim[pass.c] = pass.base /\ claim' = [claim EXCEPT ![pass.c] = new]
      /\ BudgetOK' /\ scenario' = scenario
  BY <1>0, <1>3, <1>4, UpdateFacts
<1>6. ClaimsOK'
  BY <1>2, <1>4, <1>5, WrittenFacts
<1>7. WorldOK'
  BY <1>0, <1>1 DEF WorldOK
<1>8. ASSUME pass' \in PassType, StageOK(pass'), CarryOK(pass') PROVE AInv'
  <2>1. divided' = divided
    BY <1>1
  <2> QED BY <1>0, <1>1, <1>5, <1>6, <1>7, <1>8, <2>1, StepTypes
<1>9. CASE answer = "ok"
  <2>1. pass' = [pass EXCEPT !.pc = "activate", !.base = Written]
    BY <1>3, <1>9
  <2>2. /\ Written \in BaseType /\ Written.life = "live" /\ Written.inst = pass.inst
    BY <1>2, WrittenFacts
  <2>3. /\ pass'.pc = "activate" /\ pass'.c = pass.c /\ pass'.inst = pass.inst
        /\ pass'.base = Written /\ pass'.done = pass.done
    BY <1>0, <2>1 DEF PassType
  <2>4. pass' \in PassType
    BY <1>0, <2>1, <2>2 DEF PassType, Stages, Judging
  <2>5. StageOK(pass') /\ CarryOK(pass')
    BY <1>2, <2>2, <2>3 DEF StageOK, CarryOK, PlacingAt, Carrying, Judging, Deleting
  <2> QED BY <1>1, <1>4, <1>5, <1>8, <1>9, <2>3, <2>4, <2>5
<1>10. CASE answer = "conflict"
  <2>1. pass' = Idle
    BY <1>3, <1>10 DEF EndPass
  <2> QED BY <1>1, <1>4, <1>5, <1>8, <2>1, IdleFacts
<1>11. CASE answer = "error"
  <2>1. pass' = [pass EXCEPT !.pc = "status"]
    BY <1>3, <1>11
  <2>2. /\ pass'.pc = "status" /\ pass'.c = pass.c /\ pass'.inst = pass.inst
        /\ pass'.base = pass.base /\ pass'.done = pass.done
    BY <1>0, <2>1 DEF PassType
  <2>3. pass' \in PassType
    BY <1>0, <2>1 DEF PassType, Stages
  <2>4. StageOK(pass') /\ CarryOK(pass')
    BY <1>2, <2>2 DEF StageOK, CarryOK, PlacingAt, Carrying, Judging, Deleting
  <2> QED BY <1>1, <1>4, <1>5, <1>8, <2>2, <2>3, <2>4
<1> QED BY <1>9, <1>10, <1>11

(* An engine is started, or started again when it is missing. *)
LEMMA StartTypes ==
  ASSUME AInv, Start \/ StartMissing
  PROVE  /\ AInv' /\ pass.pc \in {"activate", "missing"} /\ UNCHANGED claim /\ scenario' = scenario
         /\ \A d \in Claims \ {pass.c} : engine'[d] = engine[d]
         /\ pass'.pc \in {"health", "status"} /\ pass'.c = pass.c /\ pass'.base = pass.base
         /\ \/ pass'.inst = pass.inst
            \/ pass'.pc = "status" /\ pass'.inst = NoInst /\ engine' = engine
<1>0. /\ pass \in PassType /\ pass.c \in Claims /\ TypeOK /\ ClaimsOK /\ WorldOK
      /\ NoReading \in ReadingType /\ NoInst \in Instances
      /\ divided \in [known : BOOLEAN, for : SUBSET (Claims \X BOOLEAN), owed : SUBSET Claims]
  BY TypeParts, PassFacts, NoReadingFacts, IdleFacts DEF AInv, PassOK
<1>1. /\ pass.pc \in {"activate", "missing"} /\ UNCHANGED <<claim, cache, load, divided>>
      /\ route' \subseteq Claims
  BY <1>0 DEF Start, StartMissing, At, WorldOK
<1>2. /\ pass.base.life = "live" /\ pass.inst # NoInst /\ pass.base.inst # NoInst
      /\ pass.inst.phase = pass.base.inst.phase /\ pass.done = {}
  BY <1>1 DEF AInv, StageOK, CarryOK, Judging, Carrying
<1>3. PICK answer \in {"ok", "refused", "unsent", "lost"}, pc \in {"health", "status"},
           inst \in {pass.inst, NoInst} :
        /\ Activate(pass.c, answer)
        /\ pass' = [pass EXCEPT !.pc = pc, !.reading = NoReading, !.inst = inst]
        /\ inst # pass.inst => pc = "status" /\ answer \in {"refused", "unsent"}
  <2>1. CASE Start
    <3>1. PICK answer \in {"ok", "refused", "unsent", "lost"} :
            Activate(pass.c, answer) /\ pass' = AfterStart(answer)
      BY <2>1 DEF Start
    <3>2. CASE answer = "ok"
      <4>1. pass' = [pass EXCEPT !.pc = "health", !.reading = NoReading, !.inst = pass.inst]
        BY <1>0, <3>1, <3>2 DEF AfterStart, PassType
      <4> QED BY <3>1, <4>1
    <3>3. CASE answer = "lost"
      <4>1. pass' = [pass EXCEPT !.pc = "status", !.reading = NoReading, !.inst = pass.inst]
        BY <1>0, <3>1, <3>3 DEF AfterStart, PassType
      <4> QED BY <3>1, <4>1
    <3>4. CASE answer \in {"refused", "unsent"}
      <4>1. pass' = [pass EXCEPT !.pc = "status", !.reading = NoReading, !.inst = NoInst]
        BY <1>0, <3>1, <3>4 DEF AfterStart, PassType
      <4> QED BY <3>1, <3>4, <4>1
    <3> QED BY <3>2, <3>3, <3>4
  <2>2. CASE StartMissing
    <3>1. PICK answer \in {"ok", "refused", "unsent", "lost"} :
            /\ Activate(pass.c, answer)
            /\ \/ /\ answer = "refused"
                  /\ pass' = [pass EXCEPT !.pc = "status", !.reading = NoReading, !.inst = NoInst]
               \/ pass' = [pass EXCEPT !.pc = "status", !.reading = NoReading]
      BY <2>2 DEF StartMissing
    <3>2. CASE pass' = [pass EXCEPT !.pc = "status", !.reading = NoReading]
      <4>1. pass' = [pass EXCEPT !.pc = "status", !.reading = NoReading, !.inst = pass.inst]
        BY <1>0, <3>2 DEF PassType
      <4> QED BY <3>1, <4>1
    <3> QED BY <3>1, <3>2
  <2> QED BY <2>1, <2>2
<1>4. /\ engine' \in [Claims -> EngineType]
      /\ \A d \in Claims \ {pass.c} : engine'[d] = engine[d]
      /\ answer \in {"refused", "unsent"} => engine' = engine
      /\ BudgetOK' /\ scenario' = scenario
  BY <1>0, <1>3, ActivateFacts
<1>5. /\ pass'.pc = pc /\ pass'.c = pass.c /\ pass'.inst = inst /\ pass'.reading = NoReading
      /\ pass'.base = pass.base /\ pass'.done = pass.done
  BY <1>0, <1>3 DEF PassType
<1>6. pass' \in PassType
  BY <1>0, <1>3 DEF PassType, Stages, Judging
<1>7. StageOK(pass') /\ CarryOK(pass')
  BY <1>2, <1>3, <1>5 DEF StageOK, CarryOK, PlacingAt, Carrying, Judging, Deleting
<1>8. AInv'
  <2>1. divided' = divided /\ cache' = cache
    BY <1>1
  <2>2. ClaimsOK' /\ WorldOK'
    BY <1>0, <1>1, <1>4 DEF ClaimsOK, WorldOK
  <2> QED BY <1>0, <1>4, <1>6, <1>7, <2>1, <2>2, StepTypes
<1> QED BY <1>1, <1>3, <1>4, <1>5, <1>8


(* A judged record is the copy's or the claim's, or lower. *)
LEMMA JudgedFacts ==
  ASSUME NEW inst \in Instances, inst # NoInst, NEW o \in ObservedType, NEW fresh \in 1..Card
  PROVE  /\ JudgedRecord(inst, o, fresh) \in 1..Card
         /\ JudgedRecord(inst, o, fresh) <= inst.kv \/ JudgedRecord(inst, o, fresh) <= fresh
<1>1. inst.kv \in 1..Card /\ Card \in Nat /\ Startup \in Nat \ {0}
  BY Constants DEF Instances
<1>2. Ceiling(o) \in {-1, Startup}
  BY DEF Ceiling
<1> DEFINE kv == IF o.phase = "active" /\ ~KVLimitInForce(inst.kv, o) THEN fresh ELSE inst.kv
           target == Clamp(kv, Ceiling(o))
<1>3. kv \in {fresh, inst.kv} /\ kv \in 1..Card
  BY <1>1
<1>4. target \in Int
  BY <1>1, <1>2, <1>3 DEF Clamp
<1>5. \/ JudgedRecord(inst, o, fresh) = kv
      \/ JudgedRecord(inst, o, fresh) = target /\ target > 0 /\ target < kv
  BY DEF JudgedRecord
<1> HIDE DEF kv, target
<1> QED BY <1>1, <1>3, <1>4, <1>5

(* An instance that is judged: of the engine as read, and from the record as it is. *)
LEMMA JudgeFacts ==
  ASSUME AInv, pass.pc \in {"health", "readback"}, NEW reading \in ReadingType,
         NEW mayHold \in BOOLEAN, Judge(reading, FreshRecord, mayHold)
  PROVE  /\ pass' \in PassType /\ StageOK(pass') /\ CarryOK(pass')
         /\ pass'.pc \in {"hold", "route"} /\ pass'.c = pass.c /\ pass'.base = pass.base
         /\ pass'.inst # NoInst /\ pass'.inst.phase = pass.inst.phase
         /\ (claim[pass.c] = pass.base /\ pass.inst.kv <= pass.base.inst.kv) =>
              pass'.inst.kv <= pass.base.inst.kv
<1>0. /\ pass \in PassType /\ pass.c \in Claims /\ pass.inst \in Instances
      /\ claim[pass.c] \in ClaimType /\ pass.base \in BaseType
  BY PassFacts DEF AInv, PassOK
<1>1. /\ pass.base.life = "live" /\ pass.inst # NoInst /\ pass.base.inst # NoInst
      /\ pass.inst.phase = pass.base.inst.phase /\ pass.done = {}
  BY DEF AInv, StageOK, CarryOK, Judging, Carrying
<1>2. PICK o \in ObservedType : o = reading.of[pass.c]
  BY <1>0 DEF ReadingType
<1>3. pass.inst.kv \in 1..Card /\ pass.inst.phase \in {"activating", "active", "failed"}
  BY <1>0, <1>1 DEF Instances
<1>4. PICK fresh \in 1..Card : fresh = FreshRecord
  BY <1>0, <1>3 DEF FreshRecord, ClaimType, Instances
<1>5. PICK kv \in 1..Card : /\ kv = JudgedRecord(pass.inst, o, fresh)
                            /\ kv <= pass.inst.kv \/ kv <= fresh
  BY <1>0, <1>1, JudgedFacts
<1>6. PICK inst : inst = [phase |-> pass.inst.phase, kv |-> kv]
  OBVIOUS
<1>7. inst = [pass.inst EXCEPT !.kv = JudgedRecord(pass.inst, reading.of[pass.c], FreshRecord)]
  BY <1>0, <1>1, <1>2, <1>4, <1>5, <1>6 DEF Instances
<1>8. inst \in Instances /\ inst # NoInst /\ inst.phase = pass.inst.phase /\ inst.kv = kv
  BY <1>3, <1>6 DEF Instances, NoInst
<1>9. PICK want \in {"activating", "active", "failed"} :
         want = DesiredInstanceState(inst, o) /\ (inst.phase = "failed" => want = "failed")
  <2>1. CASE inst.phase = "failed" \/ o.phase = "failed"
    BY <2>1 DEF DesiredInstanceState
  <2>2. CASE ~(inst.phase = "failed" \/ o.phase = "failed")
    <3>1. DesiredInstanceState(inst, o) \in {"activating", "active"}
      BY <2>2 DEF DesiredInstanceState
    <3> QED BY <2>2, <3>1
  <2> QED BY <2>1, <2>2
<1>10. PICK pc \in {"hold", "route"} :
          pass' = [pass EXCEPT !.pc = pc, !.inst = inst, !.want = want, !.reading = reading]
  <2>1. pass' = [pass EXCEPT !.pc = IF mayHold /\ MustHold(inst, o) THEN "hold" ELSE "route",
                             !.inst = inst, !.want = want, !.reading = reading]
    BY <1>2, <1>7, <1>9 DEF Judge
  <2> QED BY <2>1
<1>11. /\ pass'.pc = pc /\ pass'.c = pass.c /\ pass'.inst = inst /\ pass'.want = want
       /\ pass'.base = pass.base /\ pass'.done = pass.done
  BY <1>0, <1>10 DEF PassType
<1>12. pass' \in PassType
  BY <1>0, <1>8, <1>10 DEF PassType, Stages, Judging
<1>13. StageOK(pass') /\ CarryOK(pass')
  BY <1>1, <1>8, <1>9, <1>11 DEF StageOK, CarryOK, PlacingAt, Carrying, Judging, Deleting
<1>14. ASSUME claim[pass.c] = pass.base, pass.inst.kv <= pass.base.inst.kv
       PROVE  inst.kv <= pass.base.inst.kv
  <2>1. fresh = pass.base.inst.kv
    BY <1>1, <1>4, <1>14 DEF FreshRecord
  <2> QED BY <1>3, <1>5, <1>8, <1>14, <2>1
<1> QED BY <1>8, <1>11, <1>12, <1>13, <1>14

(* The health check of an instance, up to the limit its engine is held to. *)
LEMMA HealthTypes ==
  ASSUME AInv, Health \/ ReadBack \/ Hold
  PROVE  /\ AInv' /\ pass.pc \in {"health", "readback", "hold"}
         /\ UNCHANGED claim /\ scenario' = scenario
         /\ \A d \in Claims : engine'[d].phase = engine[d].phase
         /\ pass'.pc \in {"status", "missing", "hold", "readback", "route"}
         /\ pass'.c = pass.c /\ pass'.base = pass.base
         /\ pass'.inst # NoInst /\ pass'.inst.phase = pass.inst.phase
         /\ (claim[pass.c] = pass.base /\ pass.inst.kv <= pass.base.inst.kv) =>
              pass'.inst.kv <= pass.base.inst.kv
         /\ pass'.pc = "missing" => engine'[pass.c].phase = "none"
<1>0. /\ pass \in PassType /\ pass.c \in Claims /\ TypeOK /\ ClaimsOK /\ WorldOK
      /\ pass.reading \in ReadingType /\ pass.inst \in Instances
      /\ NoReading \in ReadingType /\ PassOK
      /\ divided \in [known : BOOLEAN, for : SUBSET (Claims \X BOOLEAN), owed : SUBSET Claims]
  BY TypeParts, PassFacts, NoReadingFacts DEF AInv, PassOK
<1>1. /\ pass.pc \in {"health", "readback", "hold"}
      /\ UNCHANGED <<claim, cache, route, load, divided>>
  BY <1>0 DEF Health, ReadBack, Hold, At, world
<1>2. /\ pass.base.life = "live" /\ pass.inst # NoInst /\ pass.base.inst # NoInst
      /\ pass.inst.phase = pass.base.inst.phase /\ pass.done = {}
  BY <1>1 DEF AInv, StageOK, CarryOK, Judging, Carrying
<1>3. ASSUME engine' \in [Claims -> EngineType], BudgetOK',
             pass' \in PassType, StageOK(pass'), CarryOK(pass')
      PROVE  AInv'
  <2>1. divided' = divided /\ cache' = cache
    BY <1>1
  <2>2. ClaimsOK' /\ WorldOK'
    BY <1>0, <1>1, <1>3 DEF ClaimsOK, WorldOK
  <2> QED BY <1>0, <1>3, <2>1, <2>2, StepTypes
<1>4. ASSUME NEW reading \in ReadingType, NEW pc \in {"status", "missing", "readback", "route"},
             pass' = [pass EXCEPT !.pc = pc, !.reading = reading],
             pc \in {"readback", "route"} => pass.pc \in {"hold", "readback"}
      PROVE  /\ pass' \in PassType /\ StageOK(pass') /\ CarryOK(pass')
             /\ pass'.pc = pc /\ pass'.c = pass.c /\ pass'.base = pass.base
             /\ pass'.inst = pass.inst
  <2>1. /\ pass'.pc = pc /\ pass'.c = pass.c /\ pass'.inst = pass.inst /\ pass'.want = pass.want
        /\ pass'.base = pass.base /\ pass'.done = pass.done
    BY <1>0, <1>4 DEF PassType
  <2>2. pass' \in PassType
    BY <1>0, <1>4 DEF PassType, Stages, Judging
  <2>3. pc \in {"readback", "route"} =>
          pass.want # "none" /\ (pass.inst.phase = "failed" => pass.want = "failed")
    BY <1>4 DEF AInv, StageOK
  <2>4. StageOK(pass') /\ CarryOK(pass')
    BY <1>2, <2>1, <2>3 DEF StageOK, CarryOK, PlacingAt, Carrying, Judging, Deleting
  <2> QED BY <2>1, <2>2, <2>4
<1>5. CASE Health
  <2>1. pass.pc = "health" /\ UNCHANGED engine /\ pass.reading = NoReading
    BY <1>5 DEF Health, At, world, AInv, StageOK
  <2>2. PICK reading \in Readings :
          /\ Reads(reading)
          /\ IF reading.kind # "read"
             THEN pass' = [pass EXCEPT !.pc = "status", !.reading = reading]
             ELSE IF EngineMissing(pass.inst, reading.of[pass.c])
             THEN pass' = [pass EXCEPT !.pc = "missing", !.reading = reading]
             ELSE Judge(reading, FreshRecord, TRUE)
    BY <1>5 DEF Health
  <2>3. /\ reading \in ReadingType /\ BudgetOK' /\ scenario' = scenario
        /\ reading.kind = "read" => reading.of = Snapshot
    BY <1>0, <2>1, <2>2, ReadsFacts
  <2>4. engine' \in [Claims -> EngineType] /\ \A d \in Claims : engine'[d].phase = engine[d].phase
    BY <1>0, <2>1 DEF WorldOK
  <2>5. CASE pass' = [pass EXCEPT !.pc = "status", !.reading = reading]
    <3>1. /\ pass' \in PassType /\ StageOK(pass') /\ CarryOK(pass')
          /\ pass'.pc = "status" /\ pass'.c = pass.c /\ pass'.base = pass.base
          /\ pass'.inst = pass.inst
      BY <1>4, <2>3, <2>5
    <3> QED BY <1>1, <1>2, <1>3, <2>3, <2>4, <3>1
  <2>6. CASE /\ reading.kind = "read" /\ EngineMissing(pass.inst, reading.of[pass.c])
             /\ pass' = [pass EXCEPT !.pc = "missing", !.reading = reading]
    <3>1. /\ pass' \in PassType /\ StageOK(pass') /\ CarryOK(pass')
          /\ pass'.pc = "missing" /\ pass'.c = pass.c /\ pass'.base = pass.base
          /\ pass'.inst = pass.inst
      BY <1>4, <2>3, <2>6
    <3>2. engine[pass.c].phase = "none"
      BY <1>0, <2>3, <2>6, SnapshotFacts DEF EngineMissing
    <3> QED BY <1>0, <1>1, <1>2, <1>3, <2>3, <2>4, <3>1, <3>2
  <2>7. CASE Judge(reading, FreshRecord, TRUE)
    <3>1. /\ pass' \in PassType /\ StageOK(pass') /\ CarryOK(pass')
          /\ pass'.pc \in {"hold", "route"} /\ pass'.c = pass.c /\ pass'.base = pass.base
          /\ pass'.inst # NoInst /\ pass'.inst.phase = pass.inst.phase
          /\ (claim[pass.c] = pass.base /\ pass.inst.kv <= pass.base.inst.kv) =>
               pass'.inst.kv <= pass.base.inst.kv
      BY <2>1, <2>3, <2>7, JudgeFacts
    <3> QED BY <1>1, <1>3, <2>3, <2>4, <3>1
  <2> QED BY <2>2, <2>5, <2>6, <2>7
<1>6. CASE ReadBack
  <2>1. pass.pc = "readback" /\ UNCHANGED engine
    BY <1>6 DEF ReadBack, At, world
  <2>2. PICK reading \in Readings :
          /\ Reads(reading)
          /\ IF reading.kind = "read" THEN Judge(reading, FreshRecord, FALSE)
             ELSE pass' = [pass EXCEPT !.pc = "route", !.reading = reading]
    BY <1>6 DEF ReadBack
  <2>3. reading \in ReadingType /\ BudgetOK' /\ scenario' = scenario
    BY <1>0, <2>2, ReadsFacts
  <2>4. engine' \in [Claims -> EngineType] /\ \A d \in Claims : engine'[d].phase = engine[d].phase
    BY <1>0, <2>1 DEF WorldOK
  <2>5. CASE pass' = [pass EXCEPT !.pc = "route", !.reading = reading]
    <3>1. /\ pass' \in PassType /\ StageOK(pass') /\ CarryOK(pass')
          /\ pass'.pc = "route" /\ pass'.c = pass.c /\ pass'.base = pass.base
          /\ pass'.inst = pass.inst
      BY <1>4, <2>1, <2>3, <2>5
    <3> QED BY <1>1, <1>2, <1>3, <2>3, <2>4, <3>1
  <2>6. CASE Judge(reading, FreshRecord, FALSE)
    <3>1. /\ pass' \in PassType /\ StageOK(pass') /\ CarryOK(pass')
          /\ pass'.pc \in {"hold", "route"} /\ pass'.c = pass.c /\ pass'.base = pass.base
          /\ pass'.inst # NoInst /\ pass'.inst.phase = pass.inst.phase
          /\ (claim[pass.c] = pass.base /\ pass.inst.kv <= pass.base.inst.kv) =>
               pass'.inst.kv <= pass.base.inst.kv
      BY <2>1, <2>3, <2>6, JudgeFacts
    <3> QED BY <1>1, <1>3, <2>3, <2>4, <3>1
  <2> QED BY <2>2, <2>5, <2>6
<1>7. CASE Hold
  <2>1. pass.pc = "hold"
    BY <1>7 DEF Hold, At
  <2>2. PICK limit \in NoSegment..KVMost :
           limit = Clamp(pass.inst.kv, Ceiling(pass.reading.of[pass.c]))
    <3>1. Ceiling(pass.reading.of[pass.c]) \in {-1, Startup} /\ pass.inst.kv \in 1..Card
      BY <1>0, <1>2 DEF Ceiling, Instances
    <3> QED BY <3>1, Constants DEF Clamp, NoSegment
  <2>3. PICK answer \in {"ok", "error"} :
          /\ SetKVLimit(pass.c, limit, answer)
          /\ pass' = [pass EXCEPT !.pc = IF answer = "ok" /\ pass.inst.phase # "active"
                                         THEN "readback" ELSE "route",
                                  !.reading = NoReading]
    BY <1>7, <2>2 DEF Hold
  <2>4. /\ engine' \in [Claims -> EngineType]
        /\ \A d \in Claims : engine'[d].phase = engine[d].phase
        /\ BudgetOK' /\ scenario' = scenario
    BY <1>0, <2>3, SetKVLimitFacts
  <2>5. PICK pc \in {"readback", "route"} : pass' = [pass EXCEPT !.pc = pc, !.reading = NoReading]
    BY <2>3
  <2>6. /\ pass' \in PassType /\ StageOK(pass') /\ CarryOK(pass')
        /\ pass'.pc = pc /\ pass'.c = pass.c /\ pass'.base = pass.base
        /\ pass'.inst = pass.inst
    BY <1>0, <1>4, <2>1, <2>5
  <2> QED BY <1>1, <1>2, <1>3, <2>4, <2>6
<1> QED BY <1>5, <1>6, <1>7


(* The route of a judged instance, and with it the phase it gets. *)
LEMMA RoutesTypes ==
  ASSUME AInv, Routes
  PROVE  /\ AInv' /\ pass.pc = "route" /\ UNCHANGED <<claim, engine>> /\ scenario' = scenario
         /\ pass'.pc = "status" /\ pass'.c = pass.c /\ pass'.base = pass.base
         /\ pass'.inst # NoInst /\ pass'.inst.kv = pass.inst.kv
         /\ pass.base.inst.phase = "failed" => pass'.inst.phase = "failed"
<1>0. /\ pass \in PassType /\ pass.c \in Claims /\ TypeOK /\ ClaimsOK /\ WorldOK
      /\ pass.inst \in Instances
      /\ divided \in [known : BOOLEAN, for : SUBSET (Claims \X BOOLEAN), owed : SUBSET Claims]
  BY TypeParts, PassFacts DEF AInv, PassOK
<1>1. /\ pass.pc = "route" /\ UNCHANGED <<claim, cache, engine, load, divided>>
      /\ route' \subseteq Claims /\ BudgetOK' /\ scenario' = scenario
  BY <1>0, FaultFacts, BudgetFacts DEF Routes, At, WorldOK
<1>2. /\ pass.base.life = "live" /\ pass.inst # NoInst /\ pass.base.inst # NoInst
      /\ pass.inst.phase = pass.base.inst.phase /\ pass.done = {}
      /\ pass.want # "none" /\ (pass.inst.phase = "failed" => pass.want = "failed")
  BY <1>1 DEF AInv, StageOK, CarryOK, Judging, Carrying
<1>3. PICK phase \in {pass.want, pass.inst.phase} :
        pass' = [pass EXCEPT !.pc = "status", !.inst = [phase |-> phase, kv |-> pass.inst.kv],
                             !.want = "none"]
  <2>1. CASE pass' = [pass EXCEPT !.pc = "status", !.inst.phase = pass.want, !.want = "none"]
    <3>1. [pass.inst EXCEPT !.phase = pass.want] = [phase |-> pass.want, kv |-> pass.inst.kv]
      BY <1>0, <1>2 DEF Instances
    <3>2. pass' = [pass EXCEPT !.pc = "status", !.inst = [pass.inst EXCEPT !.phase = pass.want],
                               !.want = "none"]
      BY <1>0, <2>1 DEF PassType
    <3> QED BY <3>1, <3>2
  <2>2. CASE pass' = [pass EXCEPT !.pc = "status", !.want = "none"]
    <3>1. pass.inst = [phase |-> pass.inst.phase, kv |-> pass.inst.kv]
      BY <1>0, <1>2 DEF Instances
    <3>2. pass' = [pass EXCEPT !.pc = "status", !.inst = pass.inst, !.want = "none"]
      BY <1>0, <2>2 DEF PassType
    <3> QED BY <3>1, <3>2
  <2> QED BY <2>1, <2>2 DEF Routes
<1> DEFINE inst == [phase |-> phase, kv |-> pass.inst.kv]
<1>4. /\ pass.want \in {"none", "activating", "active", "failed"}
      /\ pass.inst.phase \in {"activating", "active", "failed"} /\ pass.inst.kv \in 1..Card
  BY <1>0, <1>2 DEF PassType, Instances
<1>5. inst \in Instances /\ inst # NoInst /\ inst.phase = phase /\ inst.kv = pass.inst.kv
  BY <1>2, <1>3, <1>4 DEF Instances, NoInst
<1>6. /\ pass'.pc = "status" /\ pass'.c = pass.c /\ pass'.inst = inst
      /\ pass'.base = pass.base /\ pass'.done = pass.done
  BY <1>0, <1>3 DEF PassType
<1>7. pass' \in PassType
  BY <1>0, <1>3, <1>5 DEF PassType, Stages
<1>8. StageOK(pass') /\ CarryOK(pass')
  BY <1>2, <1>6 DEF StageOK, CarryOK, PlacingAt, Carrying, Judging, Deleting
<1>9. AInv'
  <2>1. divided' = divided /\ cache' = cache
    BY <1>1
  <2>2. ClaimsOK' /\ WorldOK'
    BY <1>0, <1>1 DEF ClaimsOK, WorldOK
  <2> QED BY <1>0, <1>1, <1>7, <1>8, <2>1, <2>2, StepTypes
<1> QED BY <1>1, <1>2, <1>3, <1>5, <1>6, <1>9

(* The status of the claim is written from the pass's copy. *)
LEMMA StatusTypes ==
  ASSUME AInv, UpdateStatus
  PROVE  /\ AInv' /\ pass.pc = "status" /\ UNCHANGED engine /\ scenario' = scenario
         /\ pass.base.life = "live" /\ Written.inst = pass.inst
         /\ claim' = claim \/ (claim[pass.c] = pass.base /\ claim' = [claim EXCEPT ![pass.c] = Written])
         /\ pass'.pc \in {"idle", "divide"}
<1>0. /\ pass \in PassType /\ pass.c \in Claims /\ TypeOK /\ ClaimsOK /\ WorldOK
      /\ divided \in [known : BOOLEAN, for : SUBSET (Claims \X BOOLEAN), owed : SUBSET Claims]
  BY TypeParts, PassFacts DEF AInv, PassOK
<1>1. pass.pc = "status" /\ UNCHANGED <<cache, engine, route, load, divided>>
  BY DEF UpdateStatus, At, world
<1>2. pass.base.life = "live" /\ pass.done = {}
  BY <1>1 DEF AInv, StageOK, CarryOK, Carrying
<1>3. PICK answer \in {"ok", "conflict", "error"} :
        /\ Update(pass.c, Written, answer)
        /\ IF answer = "ok"
           THEN pass' = [pass EXCEPT !.pc = "divide", !.base = Idle.base, !.inst = NoInst]
           ELSE EndPass
  BY <1>2, WrittenFacts DEF UpdateStatus
<1>4. PICK new : new = Written
  OBVIOUS
<1>5. /\ claim' = claim \/ (claim[pass.c] = pass.base /\ claim' = [claim EXCEPT ![pass.c] = new])
      /\ BudgetOK' /\ scenario' = scenario
  BY <1>0, <1>3, <1>4, UpdateFacts
<1>6. ClaimsOK' /\ Written.inst = pass.inst
  BY <1>2, <1>4, <1>5, WrittenFacts
<1>7. WorldOK'
  BY <1>0, <1>1 DEF WorldOK
<1>8. ASSUME pass' \in PassType, StageOK(pass'), CarryOK(pass') PROVE AInv'
  <2>1. divided' = divided
    BY <1>1
  <2> QED BY <1>0, <1>1, <1>5, <1>6, <1>7, <1>8, <2>1, StepTypes
<1>9. CASE answer = "ok"
  <2>1. pass' = [pass EXCEPT !.pc = "divide", !.base = Idle.base, !.inst = NoInst]
    BY <1>3, <1>9
  <2>2. Idle.base \in BaseType /\ NoInst \in Instances
    BY IdleFacts DEF PassType
  <2>3. pass'.pc = "divide" /\ pass'.done = pass.done
    BY <1>0, <2>1 DEF PassType
  <2>4. pass' \in PassType
    BY <1>0, <2>1, <2>2 DEF PassType, Stages
  <2>5. StageOK(pass') /\ CarryOK(pass')
    BY <1>2, <2>3 DEF StageOK, CarryOK, PlacingAt, Carrying, Judging, Deleting
  <2> QED BY <1>1, <1>2, <1>4, <1>5, <1>6, <1>8, <2>3, <2>4, <2>5
<1>10. CASE answer # "ok"
  <2>1. pass' = Idle
    BY <1>3, <1>10 DEF EndPass
  <2> QED BY <1>1, <1>2, <1>4, <1>5, <1>6, <1>8, <2>1, IdleFacts
<1> QED BY <1>9, <1>10

(* Every step keeps the types and what a pass knows. *)
LEMMA TypesStep ==
  ASSUME AInv, [Next]_vars
  PROVE  AInv'
<1>1. CASE PassStep
  BY <1>1, PlaceTypes, StopTypes, CarryTypes, RecordTypes, ReserveTypes, StartTypes, HealthTypes,
     RoutesTypes, StatusTypes, DivideTypes, FinalizeTypes DEF PassStep
<1>2. CASE Crash
  BY <1>2, StopTypes
<1>3. ASSUME NEW c \in Claims,
             Begin(c) \/ CatchUp(c) \/ Create(c) \/ Delete(c) \/ EngineSteps(c)
      PROVE  AInv'
  BY <1>3, BeginTypes, AroundTypes
<1>4. CASE UNCHANGED vars
  BY <1>4 DEF vars, AInv, TypeOK, PassOK
<1> QED BY <1>1, <1>2, <1>3, <1>4 DEF Next

(* The first state has the types, no records and no engine. *)
LEMMA TypesInit == Init => AInv
<1> SUFFICES ASSUME Init PROVE AInv
  OBVIOUS
<1>1. Idle \in PassType /\ StageOK(Idle) /\ CarryOK(Idle) /\ NoInst \in Instances
  BY IdleFacts
<1>2. NoEngine \in EngineType
  BY Constants DEF EngineType, NoEngine, NoSegment, Phases
<1>3. ClaimsOK /\ WorldOK /\ cache \in [Claims -> ClaimType]
  BY <1>1, <1>2 DEF Init, ClaimsOK, WorldOK, ClaimType
<1>4. NotDivided \in [known : BOOLEAN, for : SUBSET (Claims \X BOOLEAN), owed : SUBSET Claims]
  BY DEF NotDivided
<1>5. BudgetOK /\ divided.owed \subseteq Claims
  BY <1>4, Constants DEF Init, BudgetOK
<1> QED BY <1>1, <1>3, <1>4, <1>5, TypeParts DEF Init, AInv, PassOK

(* The state of claims, engines, routes and divisions stays in its type, whatever
   fails: records are within the card, and only a claim that exists has an instance. *)
THEOREM TypeCorrect == Spec => []TypeOK
<1>1. AInv => TypeOK
  BY DEF AInv
<1> QED BY <1>1, TypesInit, TypesStep, PTL DEF Spec


-----------------------------------------------------------------------------
(* The records of the card, and their total. *)

(* What a claim records, with its footprint. *)
Charge(cl) == [c \in Claims |-> Footprint[c] + cl[c].inst.kv]
RestTotal(cl, c) == SumFunctionOnSet(Charge(cl), Records(cl) \ {c})

(* Amounts that limits of a plan cover, one limit each, come to no more than the plan. *)
LEMMA FitFromPlan ==
  ASSUME NEW p, p \subseteq LimitType, IsFiniteSet(p), NEW S, S \subseteq Claims, NEW f,
         \A c \in S : f[c] \in Int /\ \E l \in p : l.e.c = c /\ f[c] <= Footprint[c] + l.limit
  PROVE  SumFunctionOnSet(f, S) <= PlanTotal(p)
<1> DEFINE Covers(l, c) == l \in p /\ l.e.c = c /\ f[c] <= Footprint[c] + l.limit
           m == [c \in S |-> CHOOSE l : Covers(l, c)]
           g == [l \in p |-> Footprint[l.e.c] + l.limit]
<1>1. IsFiniteSet(S)
  BY OrderFacts, FS_Subset
<1>2. ASSUME NEW c \in S
      PROVE  f[c] \in Int /\ m[c] \in p /\ m[c].e.c = c /\ f[c] <= Footprint[c] + m[c].limit
  <2>1. \E l : Covers(l, c)
    OBVIOUS
  <2>2. Covers(CHOOSE l : Covers(l, c), c)
    <3> HIDE DEF Covers
    <3> QED BY <2>1
  <2>3. m[c] = CHOOSE l : Covers(l, c)
    OBVIOUS
  <2>4. Covers(m[c], c)
    <3> HIDE DEF Covers, m
    <3> QED BY <2>2, <2>3
  <2> HIDE DEF m
  <2> QED BY <2>4
<1>3. \A l \in p : g[l] \in Nat /\ g[l] = Footprint[l.e.c] + l.limit
  <2> TAKE l \in p
  <2>1. Footprint[l.e.c] \in Nat /\ l.limit \in Nat
    BY Constants DEF LimitType, EntryType
  <2> QED BY <2>1
<1> HIDE DEF m, g
<1>4. \A c \in S : f[c] \in Int /\ m[c] \in p /\ f[c] <= g[m[c]]
  BY <1>2, <1>3
<1>5. \A c, d \in S : m[c] = m[d] => c = d
  BY <1>2
<1>6. SumFunctionOnSet(f, S) <= SumFunctionOnSet(g, p)
  <2>1. \A l \in p : g[l] \in Nat
    BY <1>3
  <2> QED BY <1>1, <1>4, <1>5, <2>1, SumInto
<1> QED BY <1>6 DEF PlanTotal, g

(* The charges and their sums are numbers. *)
LEMMA ChargeFacts ==
  ASSUME NEW cl \in [Claims -> ClaimType]
  PROVE  /\ \A c \in Claims : /\ cl[c].inst \in Instances /\ cl[c].inst.kv \in 0..Card
                              /\ Charge(cl)[c] = Footprint[c] + cl[c].inst.kv
                              /\ Charge(cl)[c] \in Nat
         /\ Records(cl) \subseteq Claims /\ IsFiniteSet(Records(cl))
         /\ RecordTotal(cl) \in Nat /\ RecordTotal(cl) = SumFunctionOnSet(Charge(cl), Records(cl))
         /\ \A c \in Claims : RestTotal(cl, c) \in Nat
         /\ \A c \in Claims : RecordTotal(cl) = RestTotal(cl, c) +
              (IF c \in Records(cl) THEN Footprint[c] + cl[c].inst.kv ELSE 0)
<1>1. ASSUME NEW c \in Claims
      PROVE  /\ cl[c].inst \in Instances /\ cl[c].inst.kv \in 0..Card
             /\ Charge(cl)[c] = Footprint[c] + cl[c].inst.kv /\ Charge(cl)[c] \in Nat
  <2>1. cl[c].inst \in Instances /\ cl[c].inst.kv \in 0..Card
    BY Constants DEF ClaimType, Instances, NoInst
  <2>2. Footprint[c] \in Nat /\ Card \in Nat
    BY Constants
  <2>3. Charge(cl)[c] = Footprint[c] + cl[c].inst.kv
    BY DEF Charge
  <2> QED BY <2>1, <2>2, <2>3
<1>2. Records(cl) \subseteq Claims /\ IsFiniteSet(Records(cl))
  BY OrderFacts, FS_Subset DEF Records
<1>3. RecordTotal(cl) = SumFunctionOnSet(Charge(cl), Records(cl))
  BY DEF RecordTotal, Charge
<1>4. PICK f : f = Charge(cl)
  OBVIOUS
<1>5. PICK R : R = Records(cl)
  OBVIOUS
<1>6. IsFiniteSet(R) /\ R \subseteq Claims /\ \A c \in Claims : f[c] \in Nat
  BY <1>1, <1>2, <1>4, <1>5
<1>7. SumFunctionOnSet(f, R) \in Nat
  <2>1. \A c \in R : f[c] \in Nat
    BY <1>6
  <2> QED BY <1>6, <2>1, SumNat
<1>8. ASSUME NEW c \in Claims
      PROVE  /\ SumFunctionOnSet(f, R \ {c}) \in Nat
             /\ SumFunctionOnSet(f, R) = SumFunctionOnSet(f, R \ {c}) + (IF c \in R THEN f[c] ELSE 0)
  <2>1. IsFiniteSet(R \ {c}) /\ \A d \in R \ {c} : f[d] \in Nat
    BY <1>6, FS_Subset
  <2>2. SumFunctionOnSet(f, R \ {c}) \in Nat
    BY <2>1, SumNat
  <2>3. CASE c \in R
    <3>1. \A d \in R : f[d] \in Int
      BY <1>6
    <3>2. SumFunctionOnSet(f, R) = f[c] + SumFunctionOnSet(f, R \ {c})
      BY <1>6, <2>3, <3>1, SumTakeOut
    <3>3. f[c] \in Nat
      BY <1>6
    <3> QED BY <2>2, <2>3, <3>2, <3>3
  <2>4. CASE c \notin R
    <3>1. R \ {c} = R
      BY <2>4
    <3> QED BY <2>2, <2>4, <3>1
  <2> QED BY <2>3, <2>4, <2>2
<1> QED BY <1>1, <1>2, <1>3, <1>4, <1>5, <1>7, <1>8 DEF RestTotal

(* A write to one claim leaves the total of the others. *)
LEMMA RestKept ==
  ASSUME NEW cl \in [Claims -> ClaimType], NEW new \in [Claims -> ClaimType], NEW c \in Claims,
         \A d \in Claims \ {c} : new[d].inst = cl[d].inst
  PROVE  RestTotal(new, c) = RestTotal(cl, c)
<1>1. Records(new) \ {c} = Records(cl) \ {c}
  BY DEF Records
<1>2. PICK R : R = Records(cl) \ {c}
  OBVIOUS
<1>3. PICK f : f = Charge(cl)
  OBVIOUS
<1>4. PICK g : g = Charge(new)
  OBVIOUS
<1>5. IsFiniteSet(R) /\ R \subseteq Claims \ {c}
  BY <1>2, OrderFacts, FS_Subset DEF Records
<1>6. \A d \in R : f[d] \in Int /\ g[d] = f[d]
  <2> TAKE d \in R
  <2>1. d \in Claims /\ d \in Claims \ {c}
    BY <1>5
  <2>2. f[d] \in Int /\ f[d] = Footprint[d] + cl[d].inst.kv
    BY <1>3, <2>1, ChargeFacts
  <2>3. g[d] = Footprint[d] + new[d].inst.kv
    BY <1>4, <2>1, ChargeFacts
  <2> QED BY <2>1, <2>2, <2>3
<1>7. SumFunctionOnSet(f, R) = SumFunctionOnSet(g, R)
  BY <1>5, <1>6, SumEqual
<1> QED BY <1>1, <1>2, <1>3, <1>4, <1>7 DEF RestTotal

(* The records of a plan that is fully written leave room for its newcomer. *)
LEMMA RoomMade ==
  ASSUME NEW cl \in [Claims -> ClaimType], NEW p, p \subseteq LimitType, PlanOK(p),
         Matches(cl, p, {}), NEW c \in Claims, cl[c].inst = NoInst,
         NEW l \in p, l.e.c = c
  PROVE  RecordTotal(cl) + Footprint[c] + l.limit <= Card
<1> DEFINE f == [d \in Claims |-> IF d = c THEN Footprint[c] + l.limit ELSE Charge(cl)[d]]
<1>1. /\ Footprint[c] \in Nat /\ l.limit \in Nat /\ Card \in Nat
  BY Constants DEF LimitType
<1>2. c \notin Records(cl) /\ Records(cl) \subseteq Claims /\ IsFiniteSet(Records(cl))
  <2>1. c \notin Records(cl)
    BY DEF Records, NoInst
  <2>2. Records(cl) \subseteq Claims /\ IsFiniteSet(Records(cl))
    BY ChargeFacts
  <2> QED BY <2>1, <2>2
<1>3. \A d \in Records(cl) : f[d] = Charge(cl)[d] /\ Charge(cl)[d] \in Nat
                             /\ Charge(cl)[d] = Footprint[d] + cl[d].inst.kv
  BY <1>2, ChargeFacts
<1>4. f[c] = Footprint[c] + l.limit /\ f[c] \in Nat
  BY <1>1
<1> HIDE DEF f
<1>5. ASSUME NEW d \in Records(cl) PROVE \E m \in p : m.e.c = d /\ cl[d].inst.kv = m.limit
  <2>1. d \in Claims /\ cl[d].inst # NoInst
    BY <1>2 DEF Records, NoInst
  <2>2. \E m \in p : m.e.c = d
    BY DEF Matches
  <2>3. \/ \E m \in p \ {} : m.e.c = d /\ cl[d].inst.kv = m.limit
        \/ \A m \in p : m.e.c = d => m \in {}
    BY <2>1 DEF Matches
  <2> QED BY <2>2, <2>3
<1>6. PICK R : R = Records(cl)
  OBVIOUS
<1>7. PICK g : g = Charge(cl)
  OBVIOUS
<1>8. SumFunctionOnSet(f, R) = RecordTotal(cl) /\ RecordTotal(cl) \in Nat
  <2>1. IsFiniteSet(R) /\ \A d \in R : g[d] \in Int /\ f[d] = g[d]
    BY <1>2, <1>3, <1>6, <1>7
  <2>2. SumFunctionOnSet(g, R) = SumFunctionOnSet(f, R)
    BY <2>1, SumEqual
  <2>3. RecordTotal(cl) = SumFunctionOnSet(g, R) /\ RecordTotal(cl) \in Nat
    BY <1>6, <1>7, ChargeFacts
  <2> QED BY <2>2, <2>3
<1>9. SumFunctionOnSet(f, R \cup {c}) = SumFunctionOnSet(f, R) + f[c]
  <2>1. IsFiniteSet(R) /\ c \notin R /\ \A d \in R \cup {c} : f[d] \in Int
    BY <1>2, <1>3, <1>4, <1>6
  <2> QED BY <2>1, SumAdd
<1>10. SumFunctionOnSet(f, R \cup {c}) <= PlanTotal(p)
  <2>1. ASSUME NEW d \in R \cup {c}
        PROVE  f[d] \in Int /\ \E m \in p : m.e.c = d /\ f[d] <= Footprint[d] + m.limit
    <3>1. CASE d = c
      BY <1>1, <1>4, <3>1
    <3>2. CASE d # c
      <4>1. d \in Records(cl) /\ f[d] = Footprint[d] + cl[d].inst.kv /\ f[d] \in Int
        BY <1>3, <1>6, <3>2
      <4>2. PICK m \in p : m.e.c = d /\ cl[d].inst.kv = m.limit
        BY <1>5, <4>1
      <4>3. f[d] <= Footprint[d] + m.limit
        BY <4>1, <4>2
      <4> QED BY <4>1, <4>2, <4>3
    <3> QED BY <3>1, <3>2
  <2>2. R \cup {c} \subseteq Claims /\ IsFiniteSet(p)
    BY <1>2, <1>6 DEF PlanOK
  <2>3. PICK S : S = R \cup {c}
    OBVIOUS
  <2>4. SumFunctionOnSet(f, S) <= PlanTotal(p)
    BY <2>1, <2>2, <2>3, FitFromPlan
  <2> QED BY <2>3, <2>4
<1>11. PlanTotal(p) <= Card /\ PlanTotal(p) \in Int
  <2>1. PlanTotal(p) <= Card
    BY DEF PlanOK
  <2> DEFINE h == [m \in p |-> Footprint[m.e.c] + m.limit]
  <2>2. \A m \in p : h[m] \in Int
    BY Constants DEF LimitType, EntryType
  <2>3. IsFiniteSet(p)
    BY DEF PlanOK
  <2> HIDE DEF h
  <2>4. SumFunctionOnSet(h, p) \in Int
    BY <2>2, <2>3, SumInt
  <2> QED BY <2>1, <2>4 DEF PlanTotal, h
<1> QED BY <1>1, <1>4, <1>8, <1>9, <1>10, <1>11


(* One record of a plan is written, one that goes down while there is one: the
   records stay between what they were and what is planned, and fit the card.  A
   record that goes down lowers the total; once none is left to go down every
   record is within its limit of the plan. *)
LEMMA RecordStep ==
  ASSUME NEW cl \in [Claims -> ClaimType], NEW new \in [Claims -> ClaimType],
         NEW p, p \subseteq LimitType, PlanOK(p), NEW u \in SUBSET p, NEW l \in u,
         Matches(cl, p, u), RecordTotal(cl) <= Card,
         (\E m \in u : LowersRecord(m)) => LowersRecord(l),
         \A c \in Claims \ {l.e.c} : new[c] = cl[c],
         \A c \in Claims : /\ new[c].inst.phase = cl[c].inst.phase
                           /\ new[c].inst = NoInst <=> cl[c].inst = NoInst,
         cl[l.e.c].inst = NoInst => new = cl,
         cl[l.e.c].inst # NoInst => new[l.e.c].inst.kv = l.limit
  PROVE  Matches(new, p, u \ {l}) /\ RecordTotal(new) <= Card
<1>0. PICK c \in Claims : c = l.e.c
  BY DEF LimitType, EntryType
<1>1. Records(new) = Records(cl)
  BY DEF Records
<1>2. \A m \in p : /\ m.limit \in Nat \ {0} /\ m.e.rec \in Nat /\ m.e.new \in BOOLEAN
                   /\ m.e.c \in Claims
  BY Constants DEF LimitType, EntryType
<1>3. Matches(new, p, u \ {l})
  <2>1. \A d \in Records(new) : \E m \in p : m.e.c = d /\ ~m.e.new
    BY <1>1 DEF Matches
  <2>2. ASSUME NEW d \in Claims, new[d].inst # NoInst
        PROVE  \/ \E m \in p \ (u \ {l}) : m.e.c = d /\ new[d].inst.kv = m.limit
               \/ \A m \in p : m.e.c = d => /\ m \in u \ {l}
                                            /\ ~m.e.new => new[d].inst.kv = m.e.rec
    <3>1. CASE d = c
      <4>1. new[d].inst.kv = l.limit /\ l \in p \ (u \ {l}) /\ l.e.c = d
        BY <1>0, <2>2, <3>1
      <4> QED BY <4>1
    <3>2. CASE d # c
      <4>1. new[d] = cl[d] /\ cl[d].inst # NoInst
        BY <1>0, <2>2, <3>2
      <4>2. \/ \E m \in p \ u : m.e.c = d /\ cl[d].inst.kv = m.limit
            \/ \A m \in p : m.e.c = d => m \in u /\ (~m.e.new => cl[d].inst.kv = m.e.rec)
        BY <4>1 DEF Matches
      <4>3. \A m \in p : m.e.c = d => m # l
        BY <1>0, <3>2
      <4> QED BY <4>1, <4>2, <4>3
    <3> QED BY <3>1, <3>2
  <2>3. ASSUME NEW k \in u \ {l}, LowersRecord(k), NEW m \in p \ (u \ {l})
        PROVE  LowersRecord(m)
    <3>1. CASE m = l
      BY <2>3, <3>1
    <3>2. CASE m # l
      BY <2>3, <3>2 DEF Matches
    <3> QED BY <3>1, <3>2
  <2> QED BY <2>1, <2>2, <2>3 DEF Matches
<1>4. CASE cl[c].inst = NoInst
  BY <1>0, <1>3, <1>4
<1>5. CASE cl[c].inst # NoInst /\ LowersRecord(l)
  <2>1. l.limit < l.e.rec
    BY <1>5 DEF LowersRecord
  <2>2. ~l.e.new
    BY <1>2, <2>1 DEF PlanOK
  <2>3. \A m \in p \ u : LowersRecord(m)
    BY <1>5 DEF Matches
  <2>4. ~ \E m \in p \ u : m.e.c = c
    <3> SUFFICES ASSUME NEW m \in p \ u, m.e.c = c PROVE FALSE
      OBVIOUS
    <3>1. m.limit < m.e.rec
      BY <2>3 DEF LowersRecord
    <3>2. ~m.e.new
      BY <1>2, <3>1 DEF PlanOK
    <3>3. m.e.new = l.e.new
      BY <1>2, <2>2, <3>2
    <3>4. m = l
      BY <1>0, <3>3 DEF PlanOK
    <3> QED BY <3>4
  <2>5. cl[c].inst.kv = l.e.rec
    <3>1. \A m \in p : m.e.c = c => m \in u /\ (~m.e.new => cl[c].inst.kv = m.e.rec)
      BY <1>5, <2>4 DEF Matches
    <3> QED BY <1>0, <2>2, <3>1
  <2>6. new[c].inst.kv = l.limit
    BY <1>0, <1>5
  <2>7. /\ RestTotal(new, c) = RestTotal(cl, c)
    BY <1>0, RestKept
  <2>8. /\ RecordTotal(cl) = RestTotal(cl, c) +
             (IF c \in Records(cl) THEN Footprint[c] + cl[c].inst.kv ELSE 0)
        /\ RestTotal(cl, c) \in Nat
    BY ChargeFacts
  <2>9. RecordTotal(new) = RestTotal(new, c) +
             (IF c \in Records(new) THEN Footprint[c] + new[c].inst.kv ELSE 0)
    BY ChargeFacts
  <2>10. Footprint[c] \in Nat /\ l.limit \in Nat /\ l.e.rec \in Nat /\ Card \in Nat
    BY <1>2, Constants
  <2>11. RecordTotal(new) <= Card
    BY <1>1, <2>1, <2>5, <2>6, <2>7, <2>8, <2>9, <2>10
  <2> QED BY <1>3, <2>11
<1>6. CASE ~LowersRecord(l)
  <2>1. \A m \in u : ~LowersRecord(m)
    BY <1>6
  <2>2. ASSUME NEW d \in Records(new)
        PROVE  /\ Charge(new)[d] \in Int
               /\ \E m \in p : m.e.c = d /\ Charge(new)[d] <= Footprint[d] + m.limit
    <3>1. /\ d \in Claims /\ d \in Records(cl) /\ cl[d].inst # NoInst /\ new[d].inst # NoInst
      BY <1>1 DEF Records, NoInst
    <3>2. /\ Charge(new)[d] = Footprint[d] + new[d].inst.kv /\ Charge(new)[d] \in Int
          /\ Footprint[d] \in Nat /\ new[d].inst.kv \in Int
      BY <3>1, ChargeFacts, Constants
    <3>3. \E m \in p : m.e.c = d /\ new[d].inst.kv <= m.limit
      <4>1. CASE \E m \in p \ (u \ {l}) : m.e.c = d /\ new[d].inst.kv = m.limit
        BY <1>2, <4>1
      <4>2. CASE \A m \in p : m.e.c = d => /\ m \in u \ {l}
                                           /\ ~m.e.new => new[d].inst.kv = m.e.rec
        <5>1. PICK m \in p : m.e.c = d /\ ~m.e.new
          BY <3>1 DEF Matches
        <5>2. m \in u /\ new[d].inst.kv = m.e.rec
          BY <4>2, <5>1
        <5>3. ~(m.limit < m.e.rec) /\ m.limit \in Nat /\ m.e.rec \in Nat
          BY <1>2, <2>1, <5>2 DEF LowersRecord
        <5>4. m.e.rec <= m.limit
          BY <5>3
        <5> QED BY <5>1, <5>2, <5>4
      <4>3. \/ \E m \in p \ (u \ {l}) : m.e.c = d /\ new[d].inst.kv = m.limit
            \/ \A m \in p : m.e.c = d => /\ m \in u \ {l}
                                         /\ ~m.e.new => new[d].inst.kv = m.e.rec
        BY <1>3, <3>1 DEF Matches
      <4> QED BY <4>1, <4>2, <4>3
    <3> QED BY <1>2, <3>2, <3>3
  <2>3. PICK R : R = Records(new)
    OBVIOUS
  <2>4. PICK f : f = Charge(new)
    OBVIOUS
  <2>5. SumFunctionOnSet(f, R) <= PlanTotal(p)
    <3>1. R \subseteq Claims /\ IsFiniteSet(p)
      BY <2>3 DEF Records, PlanOK
    <3>2. \A d \in R : f[d] \in Int /\ \E m \in p : m.e.c = d /\ f[d] <= Footprint[d] + m.limit
      BY <2>2, <2>3, <2>4
    <3> QED BY <3>1, <3>2, FitFromPlan
  <2>6. RecordTotal(new) = SumFunctionOnSet(f, R) /\ RecordTotal(new) \in Nat
    BY <2>3, <2>4, ChargeFacts
  <2>7. PlanTotal(p) <= Card /\ PlanTotal(p) \in Int /\ Card \in Int
    <3>1. PlanTotal(p) <= Card
      BY DEF PlanOK
    <3> DEFINE h == [m \in p |-> Footprint[m.e.c] + m.limit]
    <3>2. \A m \in p : h[m] \in Int
      BY <1>2, Constants
    <3>3. IsFiniteSet(p)
      BY DEF PlanOK
    <3> HIDE DEF h
    <3>4. SumFunctionOnSet(h, p) \in Int
      BY <3>2, <3>3, SumInt
    <3> QED BY <3>1, <3>4, Constants DEF PlanTotal, h
  <2>8. RecordTotal(new) <= Card
    BY <2>5, <2>6, <2>7
  <2> QED BY <1>3, <2>8
<1> QED BY <1>4, <1>5, <1>6


(* The total depends on the instances only. *)
LEMMA TotalSame ==
  ASSUME NEW cl, NEW new, \A c \in Claims : new[c].inst = cl[c].inst
  PROVE  /\ Records(new) = Records(cl) /\ RecordTotal(new) = RecordTotal(cl)
         /\ \A p, u : Matches(cl, p, u) => Matches(new, p, u)
<1>1. Records(new) = Records(cl)
  BY DEF Records
<1>2. [c \in Claims |-> Footprint[c] + new[c].inst.kv] = [c \in Claims |-> Footprint[c] + cl[c].inst.kv]
  OBVIOUS
<1>3. RecordTotal(new) = RecordTotal(cl)
  BY <1>1, <1>2 DEF RecordTotal
<1> QED BY <1>1, <1>3 DEF Matches

(* A claim is written that does not record, records less than before, or has
   room beside the records. *)
LEMMA WriteTotal ==
  ASSUME NEW cl \in [Claims -> ClaimType], NEW c \in Claims, NEW w \in ClaimType,
         RecordTotal(cl) <= Card,
         \/ w.inst.phase \notin {"activating", "active"}
         \/ cl[c].inst.phase \in {"activating", "active"} /\ w.inst.kv <= cl[c].inst.kv
         \/ cl[c].inst = NoInst /\ RecordTotal(cl) + Footprint[c] + w.inst.kv <= Card
  PROVE  RecordTotal([cl EXCEPT ![c] = w]) <= Card
<1>1. PICK new \in [Claims -> ClaimType] : new = [cl EXCEPT ![c] = w]
  OBVIOUS
<1>2. new[c] = w /\ \A d \in Claims \ {c} : new[d].inst = cl[d].inst
  BY <1>1
<1>3. RestTotal(new, c) = RestTotal(cl, c)
  BY <1>2, RestKept
<1>4. /\ RecordTotal(cl) = RestTotal(cl, c) +
           (IF c \in Records(cl) THEN Footprint[c] + cl[c].inst.kv ELSE 0)
      /\ RestTotal(cl, c) \in Nat /\ cl[c].inst.kv \in 0..Card /\ RecordTotal(cl) \in Nat
  BY ChargeFacts
<1>5. /\ RecordTotal(new) = RestTotal(new, c) +
           (IF c \in Records(new) THEN Footprint[c] + new[c].inst.kv ELSE 0)
      /\ new[c].inst.kv \in 0..Card
  BY ChargeFacts
<1>6. Footprint[c] \in Nat /\ Card \in Nat
  BY Constants
<1>7. /\ c \in Records(new) <=> w.inst.phase \in {"activating", "active"}
      /\ c \in Records(cl) <=> cl[c].inst.phase \in {"activating", "active"}
  BY <1>2 DEF Records
<1>8. RecordTotal(new) <= Card
  <2>1. CASE w.inst.phase \notin {"activating", "active"}
    BY <1>3, <1>4, <1>5, <1>6, <1>7, <2>1
  <2>2. CASE cl[c].inst.phase \in {"activating", "active"} /\ w.inst.kv <= cl[c].inst.kv
    BY <1>2, <1>3, <1>4, <1>5, <1>6, <1>7, <2>2
  <2>3. CASE cl[c].inst = NoInst /\ RecordTotal(cl) + Footprint[c] + w.inst.kv <= Card
    <3>1. c \notin Records(cl)
      BY <1>7, <2>3 DEF NoInst
    <3> QED BY <1>2, <1>3, <1>4, <1>5, <1>6, <2>3, <3>1
  <2> QED BY <2>1, <2>2, <2>3
<1> QED BY <1>1, <1>8

-----------------------------------------------------------------------------
(* The records fit the card, step by step. *)

(* Outside the steps that carry out a plan or decide on an instance. *)
LEMMA RestingRecords ==
  ASSUME pass'.pc \in {"idle", "place", "divide"} \cup Deleting, RecordTotal(claim') <= Card
  PROVE  BInv'
BY DEF BInv, RecordInv, RoomInv, JudgeInv, Carrying, Judging, Deleting

(* The engines, the users, and passes that begin or stop. *)
LEMMA AroundRecords ==
  ASSUME AInv, BInv, NEW c \in Claims,
         Begin(c) \/ CatchUp(c) \/ Create(c) \/ Delete(c) \/ EngineSteps(c)
  PROVE  BInv'
<1>0. ClaimsOK /\ claim \in [Claims -> ClaimType] /\ RecordTotal(claim) <= Card
  BY TypeParts DEF AInv, BInv, ClaimsOK
<1>1. CASE CatchUp(c) \/ EngineSteps(c)
  <2>1. claim' = claim /\ pass' = pass
    BY <1>1 DEF CatchUp, EngineSteps, EngineReady, EngineDies, EngineRestarts, EngineExits, Arrive,
                MapKV, Finish, EngineStep
  <2> QED BY <2>1 DEF BInv, RecordInv, RoomInv, JudgeInv
<1>2. CASE Create(c) \/ Delete(c)
  <2>1. /\ pass' = pass
        /\ \/ claim[c].life = "absent" /\ claim' = [claim EXCEPT ![c].life = "live"]
           \/ claim' = [claim EXCEPT ![c].life = "deleted"]
    BY <1>2 DEF Create, Delete
  <2>2. /\ \A d \in Claims : claim'[d].inst = claim[d].inst
        /\ \A d \in Claims \ {c} : claim'[d] = claim[d]
        /\ \/ claim'[c].life = "deleted"
           \/ claim'[c].inst = NoInst
    BY <1>0, <2>1 DEF ClaimsOK, ClaimType
  <2>3. PICK new : new = claim'
    OBVIOUS
  <2>4. /\ RecordTotal(new) = RecordTotal(claim)
        /\ \A p, u : Matches(claim, p, u) => Matches(new, p, u)
    BY <2>2, <2>3, TotalSame
  <2>5. RecordInv'
    BY <2>1, <2>3, <2>4 DEF BInv, RecordInv
  <2>6. RoomInv' /\ RecordTotal(claim)' <= Card
    BY <1>0, <2>1, <2>2, <2>3, <2>4, PassFacts DEF BInv, RoomInv
  <2>7. JudgeInv'
    <3> SUFFICES ASSUME pass.pc \in Judging \cup {"status"}, pass.base.inst # NoInst,
                        pass.inst # NoInst, claim'[pass.c] = pass.base
                 PROVE  /\ pass.inst.kv <= pass.base.inst.kv
                        /\ pass.base.inst.phase = "failed" => pass.inst.phase = "failed"
      BY <2>1 DEF JudgeInv
    <3>1. pass.c # c
      BY <2>2 DEF AInv, StageOK
    <3>2. claim[pass.c] = pass.base
      BY <2>2, <3>1, PassFacts
    <3> QED BY <3>2 DEF BInv, JudgeInv
  <2> QED BY <2>5, <2>6, <2>7 DEF BInv
<1>3. CASE Begin(c)
  <2>1. claim' = claim
    BY <1>3 DEF Begin
  <2>2. PICK pm \in {claim[c], cache[c]}, pc \in {"drain", "place", "health"} :
          pass' = [Idle EXCEPT !.pc = pc, !.c = c, !.base = pm, !.inst = pm.inst]
    BY <1>3 DEF Begin
  <2>3. pass'.pc = pc /\ pass'.base = pm /\ pass'.inst = pm.inst
    BY <2>2 DEF Idle
  <2>4. CASE pc # "health"
    BY <1>0, <2>1, <2>3, <2>4, RestingRecords DEF Deleting
  <2>5. CASE pc = "health"
    <3>1. pm.inst \in Instances
      BY <1>0 DEF AInv, PassOK, ClaimType
    <3>2. pm.inst # NoInst => pm.inst.kv \in Nat
      BY <3>1, Constants DEF Instances
    <3> QED BY <1>0, <2>1, <2>3, <2>5, <3>2
            DEF BInv, RecordInv, RoomInv, JudgeInv, Carrying, Judging
  <2> QED BY <2>4, <2>5
<1> QED BY <1>1, <1>2, <1>3

(* The pass stops, or is a deleted claim's. *)
LEMMA StopRecords ==
  ASSUME AInv, BInv,
         Crash \/ PlaceUnlisted \/ SkipDivide \/ DrainWait \/ Drained \/ Stop \/ RemoveFinalizer
  PROVE  BInv'
<1>0. claim \in [Claims -> ClaimType] /\ RecordTotal(claim) <= Card /\ pass.c \in Claims
  BY TypeParts, PassFacts DEF AInv, BInv, ClaimsOK
<1>1. pass'.pc \in {"idle"} \cup Deleting
  <2>1. pass' = Idle \/ \E pc \in Deleting : pass' = [pass EXCEPT !.pc = pc]
    BY DEF Crash, PlaceUnlisted, SkipDivide, DrainWait, Drained, Stop, RemoveFinalizer, EndPass,
           Deleting
  <2>2. pass \in PassType
    BY DEF AInv, PassOK
  <2> QED BY <2>1, <2>2, IdleFacts DEF PassType
<1>2. RecordTotal(claim') <= Card
  <2>1. CASE Crash \/ PlaceUnlisted \/ SkipDivide \/ DrainWait \/ Drained \/ Stop
    <3>1. claim' = claim
      BY <2>1 DEF Crash, PlaceUnlisted, SkipDivide, DrainWait, Drained, Stop
    <3> QED BY <1>0, <3>1
  <2>2. CASE RemoveFinalizer
    <3>1. PICK w : w = [life |-> "gone", inst |-> NoInst]
      OBVIOUS
    <3>2. claim' = claim \/ claim' = [claim EXCEPT ![pass.c] = w]
      BY <2>2, <3>1 DEF RemoveFinalizer, Update
    <3>3. w \in ClaimType /\ w.inst.phase \notin {"activating", "active"}
      BY <3>1, IdleFacts DEF ClaimType, NoInst
    <3>4. RecordTotal([claim EXCEPT ![pass.c] = w]) <= Card
      BY <1>0, <3>3, WriteTotal
    <3> QED BY <1>0, <3>2, <3>4
  <2> QED BY <2>1, <2>2
<1> QED BY <1>1, <1>2, RestingRecords


(* A pass that ends with its claim refused has no instance to record. *)
LEMMA RefusedRecords ==
  ASSUME pass'.pc = "status", pass'.inst = NoInst, RecordTotal(claim') <= Card
  PROVE  BInv'
BY DEF BInv, RecordInv, RoomInv, JudgeInv, Carrying, Judging

(* A plan in progress whose records match it. *)
LEMMA CarryingRecords ==
  ASSUME pass'.pc \in Carrying, RecordTotal(claim') <= Card,
         pass'.pc # "back" => Matches(claim', pass'.plan, UnrecordedAt(pass'))
  PROVE  BInv'
BY DEF BInv, RecordInv, RoomInv, JudgeInv, Carrying, Judging

(* The room of a newcomer, once all of the plan is recorded. *)
LEMMA RoomRecords ==
  ASSUME AInv, MakesRoom, claim' \in [Claims -> ClaimType], RecordTotal(claim') <= Card,
         Matches(claim', pass.plan, {})
  PROVE  BInv'
<1>1. PICK l \in pass.plan : l.e.c = pass.c /\ pass'.inst = Instance("activating", l.limit)
  BY DEF MakesRoom
<1>2. /\ pass.c \in Claims /\ pass.plan \subseteq LimitType /\ PlanOK(pass.plan)
      /\ pass'.pc = "reserve" /\ pass'.c = pass.c
  BY PassFacts DEF AInv, CarryOK, MakesRoom
<1>3. PICK new \in [Claims -> ClaimType] : new = claim'
  OBVIOUS
<1>4. ASSUME new[pass.c].inst = NoInst
      PROVE  RecordTotal(new) + Footprint[pass.c] + l.limit <= Card
  <2>1. PICK c \in Claims : c = pass.c
    BY <1>2
  <2>2. PICK p : p = pass.plan
    OBVIOUS
  <2>3. /\ p \subseteq LimitType /\ PlanOK(p) /\ Matches(new, p, {}) /\ l \in p /\ l.e.c = c
        /\ new[c].inst = NoInst
    BY <1>1, <1>2, <1>3, <1>4, <2>1, <2>2
  <2>4. RecordTotal(new) + Footprint[c] + l.limit <= Card
    BY <2>3, RoomMade
  <2> QED BY <2>1, <2>4
<1>5. pass'.inst.kv = l.limit
  BY <1>1 DEF Instance
<1> QED BY <1>2, <1>3, <1>4, <1>5 DEF BInv, RecordInv, RoomInv, JudgeInv, Carrying, Judging

(* A pass that places its claim, or divides the card, up to its records. *)
LEMMA PlanRecords ==
  ASSUME AInv, BInv,
         Place \/ Divide \/ Shrink \/ ConfirmShrink \/ TakeBack \/ Grow \/ ConfirmGrow
  PROVE  BInv'
<1>0. claim \in [Claims -> ClaimType] /\ RecordTotal(claim) <= Card
  BY TypeParts DEF AInv, BInv, ClaimsOK
<1>1. CASE Place
  <2>1. claim' = claim /\ pass.pc = "place"
    BY <1>1 DEF Place, At
  <2>2. pass.inst = NoInst
    BY <2>1 DEF AInv, StageOK, PlacingAt
  <2>3. CASE pass'.pc = "status"
    BY <1>0, <1>1, <2>1, <2>2, <2>3, PlaceTypes, RefusedRecords
  <2>4. CASE pass'.pc # "status"
    <3>1. pass'.pc \in Carrying /\ Matches(claim', pass'.plan, UnrecordedAt(pass'))
      BY <1>1, <2>1, <2>4, PlaceTypes DEF Carrying
    <3> QED BY <1>0, <2>1, <3>1, CarryingRecords
  <2> QED BY <2>3, <2>4
<1>2. CASE Divide
  <2>1. claim' = claim
    BY <1>2 DEF Divide
  <2>2. CASE pass' = Idle
    BY <1>0, <2>1, <2>2, IdleFacts, RestingRecords
  <2>3. CASE pass' # Idle
    <3>1. pass'.pc \in Carrying /\ Matches(claim', pass'.plan, UnrecordedAt(pass'))
      BY <1>2, <2>1, <2>3, DivideTypes DEF Carrying
    <3> QED BY <1>0, <2>1, <3>1, CarryingRecords
  <2> QED BY <2>2, <2>3
<1>3. CASE Shrink \/ ConfirmShrink \/ TakeBack \/ Grow \/ ConfirmGrow
  <2>1. /\ claim' = claim
        /\ \/ GoesOn /\ (pass'.pc = "back" \/ (/\ pass.pc # "back"
                                               /\ UnrecordedAt(pass') = UnrecordedAt(pass)))
           \/ GivesUp \/ (pass.pc \in {"grow", "confirmGrow"} /\ MakesRoom)
    BY <1>3, CarryTypes
  <2>2. CASE GoesOn /\ (pass'.pc = "back" \/ (/\ pass.pc # "back"
                                              /\ UnrecordedAt(pass') = UnrecordedAt(pass)))
    <3>1. pass'.pc \in Carrying /\ pass.pc \in Carrying /\ pass'.plan = pass.plan
      BY <2>2 DEF GoesOn
    <3>2. pass'.pc # "back" => Matches(claim', pass'.plan, UnrecordedAt(pass'))
      BY <2>1, <2>2, <3>1 DEF BInv, RecordInv
    <3> QED BY <1>0, <2>1, <3>1, <3>2, CarryingRecords
  <2>3. CASE GivesUp
    <3>1. CASE pass' = Idle
      BY <1>0, <2>1, <3>1, IdleFacts, RestingRecords
    <3>2. CASE pass' # Idle
      BY <1>0, <2>1, <2>3, <3>2, RefusedRecords DEF GivesUp
    <3> QED BY <3>1, <3>2
  <2>4. CASE pass.pc \in {"grow", "confirmGrow"} /\ MakesRoom
    <3>1. UnrecordedAt(pass) = {} /\ pass.pc \in Carrying \ {"back"}
      BY <2>4 DEF UnrecordedAt, Carrying
    <3>2. Matches(claim', pass.plan, {})
      BY <2>1, <3>1 DEF BInv, RecordInv
    <3> QED BY <1>0, <2>1, <2>4, <3>2, RoomRecords
  <2> QED BY <2>1, <2>2, <2>3, <2>4
<1> QED BY <1>1, <1>2, <1>3

(* A record is written. *)
LEMMA WriteRecords ==
  ASSUME AInv, BInv, RecordLimit
  PROVE  BInv'
<1>0. claim \in [Claims -> ClaimType] /\ RecordTotal(claim) <= Card
  BY TypeParts DEF AInv, BInv, ClaimsOK
<1>1. AInv' /\ pass.pc = "record"
  BY RecordTypes
<1>2. PICK l \in pass.todo :
        /\ (\E m \in pass.todo : LowersRecord(m)) => LowersRecord(l)
        /\ claim' \in {claim, Recorded(l)}
        /\ \/ /\ claim' = Recorded(l) /\ GoesOn
              /\ pass'.pc \in {"record", "grow"} /\ UnrecordedAt(pass') = pass.todo \ {l}
           \/ claim' = Recorded(l) /\ pass.todo = {l} /\ MakesRoom
           \/ GivesUp
  BY RecordTypes
<1>3. PICK p : p = pass.plan
  OBVIOUS
<1>4. PICK u : u = pass.todo
  OBVIOUS
<1>5. /\ p \subseteq LimitType /\ PlanOK(p) /\ u \in SUBSET p /\ l \in u /\ l \in LimitType
      /\ Matches(claim, p, u)
  BY <1>1, <1>3, <1>4, PassFacts
     DEF AInv, CarryOK, BInv, RecordInv, UnrecordedAt, Carrying
<1>6. PICK new : new = Recorded(l)
  OBVIOUS
<1>7. /\ new \in [Claims -> ClaimType]
      /\ \A c \in Claims \ {l.e.c} : new[c] = claim[c]
      /\ claim[l.e.c].inst = NoInst => new = claim
      /\ claim[l.e.c].inst # NoInst => new[l.e.c].inst.kv = l.limit
      /\ \A c \in Claims : /\ new[c].inst.phase = claim[c].inst.phase
                           /\ new[c].inst = NoInst <=> claim[c].inst = NoInst
  <2>1. l \in LimitType
    BY <1>5
  <2>2. /\ Recorded(l) \in [Claims -> ClaimType]
        /\ \A c \in Claims \ {l.e.c} : Recorded(l)[c] = claim[c]
        /\ claim[l.e.c].inst = NoInst => Recorded(l) = claim
        /\ claim[l.e.c].inst # NoInst =>
             Recorded(l)[l.e.c] = [life |-> claim[l.e.c].life,
                                   inst |-> [phase |-> claim[l.e.c].inst.phase, kv |-> l.limit]]
        /\ \A c \in Claims : /\ Recorded(l)[c].inst.phase = claim[c].inst.phase
                             /\ Recorded(l)[c].inst = NoInst <=> claim[c].inst = NoInst
    BY <2>1, RecordedFacts
  <2>3. claim[l.e.c].inst # NoInst => Recorded(l)[l.e.c].inst.kv = l.limit
    BY <2>2
  <2> QED BY <1>6, <2>2, <2>3
<1>8. Matches(new, p, u \ {l}) /\ RecordTotal(new) <= Card
  <2>1. (\E m \in u : LowersRecord(m)) => LowersRecord(l)
    BY <1>2, <1>4
  <2> QED BY <1>0, <1>5, <1>7, <2>1, RecordStep
<1>9. RecordTotal(claim') <= Card
  BY <1>0, <1>2, <1>6, <1>8
<1>10. CASE /\ claim' = Recorded(l) /\ GoesOn
            /\ pass'.pc \in {"record", "grow"} /\ UnrecordedAt(pass') = pass.todo \ {l}
  <2>1. Matches(claim', pass'.plan, UnrecordedAt(pass')) /\ pass'.pc \in Carrying
    BY <1>3, <1>4, <1>6, <1>8, <1>10 DEF GoesOn
  <2> QED BY <1>9, <2>1, CarryingRecords
<1>11. CASE claim' = Recorded(l) /\ pass.todo = {l} /\ MakesRoom
  <2>1. u \ {l} = {}
    BY <1>4, <1>11
  <2>2. Matches(claim', pass.plan, {})
    BY <1>3, <1>6, <1>8, <1>11, <2>1
  <2> QED BY <1>6, <1>7, <1>9, <1>11, <2>2, RoomRecords
<1>12. CASE GivesUp
  <2>1. CASE pass' = Idle
    BY <1>9, <2>1, IdleFacts, RestingRecords
  <2>2. CASE pass' # Idle
    BY <1>9, <1>12, <2>2, RefusedRecords DEF GivesUp
  <2> QED BY <2>1, <2>2
<1> QED BY <1>2, <1>10, <1>11, <1>12

(* The instance of the pass: reserved, started, judged and written. *)
LEMMA InstanceRecords ==
  ASSUME AInv, BInv,
         \/ Reserve \/ Start \/ StartMissing \/ Health \/ ReadBack \/ Hold \/ Routes
         \/ UpdateStatus
  PROVE  BInv'
<1>0. /\ claim \in [Claims -> ClaimType] /\ RecordTotal(claim) <= Card /\ pass.c \in Claims
      /\ pass.inst \in Instances /\ pass.base \in BaseType
  BY TypeParts, PassFacts DEF AInv, BInv, ClaimsOK
<1>1. CASE Reserve
  <2>1. /\ pass.pc = "reserve" /\ pass.base.inst = NoInst /\ pass.inst.phase = "activating"
        /\ pass.inst # NoInst /\ pass.base.life = "live"
    BY <1>1, ReserveTypes DEF AInv, StageOK, NoInst
  <2>2. PICK w \in ClaimType : w = Written /\ w.inst = pass.inst
    BY <2>1, WrittenFacts
  <2>3. /\ claim' = claim \/ (claim[pass.c] = pass.base /\ claim' = [claim EXCEPT ![pass.c] = w])
        /\ \/ pass' = Idle
           \/ /\ pass'.pc = "activate" /\ pass'.inst = pass.inst /\ pass'.base = w
           \/ /\ pass'.pc = "status" /\ pass'.c = pass.c /\ pass'.inst = pass.inst
              /\ pass'.base = pass.base
    BY <1>1, <2>2, ReserveTypes
  <2>4. RecordTotal(claim') <= Card
    <3>1. CASE claim' = claim
      BY <1>0, <3>1
    <3>2. CASE claim[pass.c] = pass.base /\ claim' = [claim EXCEPT ![pass.c] = w]
      <4>1. claim[pass.c].inst = NoInst
        BY <2>1, <3>2
      <4>2. RecordTotal(claim) + Footprint[pass.c] + w.inst.kv <= Card
        BY <2>1, <2>2, <4>1 DEF BInv, RoomInv
      <4>3. RecordTotal([claim EXCEPT ![pass.c] = w]) <= Card
        BY <1>0, <4>1, <4>2, WriteTotal
      <4> QED BY <3>2, <4>3
    <3> QED BY <2>3, <3>1, <3>2
  <2>5. CASE pass' = Idle
    BY <2>4, <2>5, IdleFacts, RestingRecords
  <2>6. CASE pass'.pc = "activate" /\ pass'.inst = pass.inst /\ pass'.base = w
    <3>1. pass.inst.kv \in Nat
      BY <1>0, <2>1, Constants DEF Instances
    <3> QED BY <2>2, <2>4, <2>6, <3>1 DEF BInv, RecordInv, RoomInv, JudgeInv, Carrying, Judging
  <2>7. CASE /\ pass'.pc = "status" /\ pass'.c = pass.c /\ pass'.inst = pass.inst
             /\ pass'.base = pass.base
    <3>1. claim'[pass.c].inst = NoInst => claim' = claim
      BY <1>0, <2>1, <2>2, <2>3
    <3>2. RoomInv'
      BY <2>1, <2>7, <3>1 DEF BInv, RoomInv
    <3> QED BY <2>1, <2>4, <2>7, <3>2 DEF BInv, RecordInv, JudgeInv, Carrying
  <2> QED BY <2>3, <2>5, <2>6, <2>7
<1>2. CASE Start \/ StartMissing \/ Health \/ ReadBack \/ Hold \/ Routes
  <2>1. /\ claim' = claim /\ pass.pc \in Judging /\ pass'.c = pass.c /\ pass'.base = pass.base
        /\ pass'.pc \in Judging \cup {"status"}
    BY <1>2, StartTypes, HealthTypes, RoutesTypes DEF Judging
  <2>2. pass.base.inst # NoInst /\ pass.inst # NoInst /\ pass.inst.phase = pass.base.inst.phase
    BY <2>1 DEF AInv, StageOK
  <2>3. ASSUME pass'.inst # NoInst, claim[pass.c] = pass.base
        PROVE  /\ pass'.inst.kv <= pass.base.inst.kv
               /\ pass.base.inst.phase = "failed" => pass'.inst.phase = "failed"
    <3>1. pass.inst.kv <= pass.base.inst.kv
      BY <2>1, <2>2, <2>3 DEF BInv, JudgeInv
    <3>2. CASE Start \/ StartMissing
      BY <2>2, <2>3, <3>1, <3>2, StartTypes
    <3>3. CASE Health \/ ReadBack \/ Hold
      BY <2>2, <2>3, <3>1, <3>3, HealthTypes
    <3>4. CASE Routes
      BY <3>1, <3>4, RoutesTypes
    <3> QED BY <1>2, <3>2, <3>3, <3>4
  <2> QED BY <1>0, <2>1, <2>2, <2>3 DEF BInv, RecordInv, RoomInv, JudgeInv, Carrying, Judging
<1>3. CASE UpdateStatus
  <2>1. /\ pass.pc = "status" /\ pass.base.life = "live"
        /\ claim' = claim \/ (claim[pass.c] = pass.base /\ claim' = [claim EXCEPT ![pass.c] = Written])
        /\ pass'.pc \in {"idle", "divide"}
    BY <1>3, StatusTypes
  <2>2. PICK w \in ClaimType : w = Written /\ w.inst = pass.inst
    BY <2>1, WrittenFacts
  <2>3. RecordTotal(claim') <= Card
    <3>1. CASE claim' = claim
      BY <1>0, <3>1
    <3>2. CASE claim[pass.c] = pass.base /\ claim' = [claim EXCEPT ![pass.c] = w]
      <4>1. \/ w.inst.phase \notin {"activating", "active"}
            \/ /\ claim[pass.c].inst.phase \in {"activating", "active"}
               /\ w.inst.kv <= claim[pass.c].inst.kv
            \/ /\ claim[pass.c].inst = NoInst
               /\ RecordTotal(claim) + Footprint[pass.c] + w.inst.kv <= Card
        <5>1. CASE pass.inst = NoInst
          BY <2>2, <5>1 DEF NoInst
        <5>2. CASE pass.inst # NoInst /\ pass.base.inst = NoInst
          BY <2>1, <2>2, <3>2, <5>2 DEF BInv, RoomInv
        <5>3. CASE pass.inst # NoInst /\ pass.base.inst # NoInst
          <6>1. /\ pass.inst.kv <= pass.base.inst.kv
                /\ pass.base.inst.phase = "failed" => pass.inst.phase = "failed"
            BY <2>1, <3>2, <5>3 DEF BInv, JudgeInv
          <6>2. pass.base.inst.phase \in {"activating", "active", "failed"}
            BY <1>0, <5>3 DEF BaseType, Instances
          <6> QED BY <2>2, <3>2, <6>1, <6>2
        <5> QED BY <5>1, <5>2, <5>3
      <4>2. PICK c \in Claims : c = pass.c
        BY <1>0
      <4>3. RecordTotal([claim EXCEPT ![c] = w]) <= Card
        BY <1>0, <4>1, <4>2, WriteTotal
      <4> QED BY <3>2, <4>2, <4>3
    <3> QED BY <2>1, <2>2, <3>1, <3>2
  <2> QED BY <2>1, <2>3, RestingRecords
<1> QED BY <1>1, <1>2, <1>3

(* Every step keeps the records within the card. *)
LEMMA RecordsStep ==
  ASSUME AInv, BInv, [Next]_vars
  PROVE  BInv'
<1>1. CASE PassStep
  BY <1>1, PlanRecords, StopRecords, WriteRecords, InstanceRecords DEF PassStep
<1>2. CASE Crash
  BY <1>2, StopRecords
<1>3. ASSUME NEW c \in Claims,
             Begin(c) \/ CatchUp(c) \/ Create(c) \/ Delete(c) \/ EngineSteps(c)
      PROVE  BInv'
  BY <1>3, AroundRecords
<1>4. CASE UNCHANGED vars
  BY <1>4 DEF vars, BInv, RecordInv, RoomInv, JudgeInv
<1> QED BY <1>1, <1>2, <1>3, <1>4 DEF Next

(* No claim records anything at first. *)
LEMMA RecordsInit == Init => BInv
<1> SUFFICES ASSUME Init PROVE BInv
  OBVIOUS
<1>1. Records(claim) = {}
  BY DEF Init, Records, NoInst
<1>2. RecordTotal(claim) = 0
  BY <1>1, SumEmpty DEF RecordTotal
<1>3. pass.pc = "idle"
  BY IdleFacts DEF Init
<1> QED BY <1>2, <1>3, Constants DEF BInv, RecordInv, RoomInv, JudgeInv, Carrying, Judging

(* At every moment the limits recorded for the engines of the card and their
   footprints come to no more than the card: in the middle of a division, when it
   fails or the controller stops part way, and when a placement is recorded from a
   copy of the claim that is not the newest. *)
THEOREM RecordsAlwaysFit == Spec => []RecordsFit
<1>1. BInv => RecordsFit
  BY DEF BInv, RecordTotal, RecordsFit, Records, Recording
<1> QED BY <1>1, TypesInit, TypesStep, RecordsInit, RecordsStep, PTL DEF Spec


-----------------------------------------------------------------------------
(* Every engine answers to a claim, step by step. *)

(* The steps in which the pass relies on the instance of its copy. *)
Relies(q) == PlacingAt(q) \/ q.pc \in Judging \cup Deleting \cup {"reserve"}

(* The engines around a pass do not come up by themselves. *)
LEMMA AroundAnswers ==
  ASSUME AInv, AnswerInv, NEW c \in Claims,
         Begin(c) \/ CatchUp(c) \/ Create(c) \/ Delete(c) \/ EngineSteps(c)
  PROVE  AnswerInv'
<1>0. /\ claim \in [Claims -> ClaimType] /\ engine \in [Claims -> EngineType] /\ pass.c \in Claims
  BY TypeParts, PassFacts DEF AInv, ClaimsOK, WorldOK
<1>1. CASE CatchUp(c) \/ EngineSteps(c)
  <2>1. claim' = claim /\ pass' = pass /\ scenario' = scenario
    BY <1>1 DEF CatchUp, EngineSteps, EngineReady, EngineDies, EngineRestarts, EngineExits, Arrive,
                MapKV, Finish, EngineStep, Fault, budget
  <2>2. \A d \in Claims : Up(engine', d) => Up(engine, d)
    <3>1. CASE CatchUp(c)
      BY <3>1 DEF CatchUp, world, Up
    <3>2. CASE EngineSteps(c)
      BY <1>0, <3>2 DEF EngineSteps, EngineReady, EngineDies, EngineRestarts, EngineExits, Arrive,
                        MapKV, Finish, EngineStep, Up, NoEngine, EngineType
    <3> QED BY <1>1, <3>1, <3>2
  <2> QED BY <1>0, <2>1, <2>2 DEF AnswerInv
<1>2. CASE Create(c) \/ Delete(c)
  <2>1. pass' = pass /\ engine' = engine /\ scenario' = scenario
    BY <1>2 DEF Create, Delete, world, budget
  <2>2. \A d \in Claims : claim'[d].inst = claim[d].inst
    BY <1>0, <1>2 DEF Create, Delete, ClaimType
  <2> QED BY <1>0, <2>1, <2>2 DEF AnswerInv, Up
<1>3. CASE Begin(c)
  <2>1. claim' = claim /\ engine' = engine
    BY <1>3 DEF Begin, world
  <2>2. PICK pm \in {claim[c], cache[c]}, pc \in {"drain", "place", "health"} :
          /\ IF pm = claim[c] THEN UNCHANGED budget ELSE Fault("lag")
          /\ pass' = [Idle EXCEPT !.pc = pc, !.c = c, !.base = pm, !.inst = pm.inst]
    BY <1>3 DEF Begin
  <2>3. pass'.pc = pc /\ pass'.base = pm /\ pass'.c = c
    BY <2>2 DEF Idle
  <2>4. scenario' = scenario /\ ("lag" \notin scenario => pm = claim[c])
    BY <2>2 DEF Fault, budget
  <2> QED BY <2>1, <2>3, <2>4 DEF AnswerInv, Up
<1> QED BY <1>1, <1>2, <1>3

(* A pass that is over, or divides the card. *)
LEMMA RestingAnswers ==
  ASSUME AnswerInv, pass'.pc \in {"idle", "divide"} \/ (pass'.pc \in Carrying /\ pass'.why # "placement"),
         scenario' = scenario,
         \A c \in Claims : Up(engine', c) => Up(engine, c),
         "lag" \notin scenario => \A c \in Claims : Up(engine, c) => claim'[c].inst # NoInst
  PROVE  AnswerInv'
BY DEF AnswerInv, PlacingAt, Carrying, Judging, Deleting

(* A pass that goes on with its copy while claims and phases stay as they are. *)
LEMMA QuietAnswers ==
  ASSUME AInv, AnswerInv, scenario' = scenario,
         \A c \in Claims : claim'[c].inst = NoInst <=> claim[c].inst = NoInst,
         \A c \in Claims : engine'[c].phase = engine[c].phase,
         Relies(pass') => Relies(pass),
         Relies(pass') => pass'.base = pass.base,
         (Relies(pass') /\ "lag" \notin scenario) => claim'[pass.c].inst = claim[pass.c].inst,
         Relies(pass') \/ pass'.pc = "status" => pass'.c = pass.c,
         pass'.pc \in {"activate", "missing", "unfinalize"} => ~Up(engine, pass.c) \/ "lag" \in scenario,
         (pass'.pc = "status" /\ pass'.inst = NoInst) => ~Up(engine, pass.c) \/ "lag" \in scenario
  PROVE  AnswerInv'
<1>1. \A c \in Claims : Up(engine', c) <=> Up(engine, c)
  BY DEF Up
<1>2. pass.c \in Claims
  BY PassFacts
<1>3. pass'.pc \in {"activate", "missing", "unfinalize"} => Relies(pass')
  BY DEF Relies, Judging, Deleting
<1> SUFFICES ASSUME "lag" \notin scenario
             PROVE  /\ \A c \in Claims : Up(engine', c) => claim'[c].inst # NoInst
                    /\ Relies(pass') => claim'[pass'.c].inst = pass'.base.inst
                    /\ pass'.pc \in {"activate", "missing", "unfinalize"} => ~Up(engine', pass'.c)
                    /\ (pass'.pc = "status" /\ pass'.inst = NoInst) => ~Up(engine', pass'.c)
  BY DEF AnswerInv, Relies
<1>4. \A c \in Claims : Up(engine', c) => claim'[c].inst # NoInst
  BY <1>1 DEF AnswerInv
<1>5. Relies(pass') => claim'[pass'.c].inst = pass'.base.inst
  BY DEF AnswerInv, Relies
<1> QED BY <1>1, <1>2, <1>3, <1>4, <1>5


(* The pass stops, or is a deleted claim's: the finalizer goes after the engine. *)
LEMMA StopAnswers ==
  ASSUME AInv, AnswerInv,
         Crash \/ PlaceUnlisted \/ SkipDivide \/ DrainWait \/ Drained \/ Stop \/ RemoveFinalizer
  PROVE  AnswerInv'
<1>0. /\ claim \in [Claims -> ClaimType] /\ engine \in [Claims -> EngineType] /\ pass.c \in Claims
      /\ pass \in PassType
  BY TypeParts, PassFacts DEF AInv, ClaimsOK, WorldOK, PassOK
<1>1. CASE Crash \/ PlaceUnlisted \/ SkipDivide \/ DrainWait
  <2>1. claim' = claim /\ engine' = engine /\ pass' = Idle /\ scenario' = scenario
    BY <1>1 DEF Crash, PlaceUnlisted, SkipDivide, DrainWait, EndPass, world, budget, Fault
  <2>2. pass'.pc = "idle"
    BY <2>1, IdleFacts
  <2>3. /\ \A c \in Claims : Up(engine', c) => Up(engine, c)
        /\ "lag" \notin scenario => \A c \in Claims : Up(engine, c) => claim'[c].inst # NoInst
    BY <2>1 DEF AnswerInv
  <2> QED BY <2>1, <2>2, <2>3, RestingAnswers
<1>2. CASE Drained
  <2>1. claim' = claim /\ engine' = engine /\ scenario' = scenario /\ pass.pc = "drain"
    BY <1>2 DEF Drained, budget, At
  <2>2. PICK pc \in {"unfinalize", "stop"} :
           pass' = [pass EXCEPT !.pc = pc] /\ (pc = "unfinalize" => pass.inst = NoInst)
    BY <1>2 DEF Drained
  <2>3. pass'.pc = pc /\ pass'.c = pass.c /\ pass'.base = pass.base
    BY <1>0, <2>2 DEF PassType
  <2>4. Relies(pass) /\ pass.inst = pass.base.inst
    BY <2>1 DEF Relies, Deleting, AInv, StageOK
  <2>5. pc = "unfinalize" => ~Up(engine, pass.c) \/ "lag" \in scenario
    BY <1>0, <2>2, <2>4 DEF AnswerInv, Relies
  <2> QED BY <2>1, <2>2, <2>3, <2>4, <2>5, QuietAnswers
<1>3. CASE Stop
  <2>1. claim' = claim /\ scenario' = scenario /\ pass.pc = "stop"
    BY <1>3 DEF Stop, budget, At, Fault
  <2>2. /\ Stopping(pass.c) \in [Claims -> EngineType]
        /\ \A c \in Claims : Up(Stopping(pass.c), c) => Up(engine, c)
        /\ ~Up(Stopping(pass.c), pass.c)
    BY <1>0 DEF Stopping, EngineType, Phases, Up, Exists
  <2>3. \A c \in Claims : Up(engine', c) => Up(engine, c)
    BY <1>3, <2>2 DEF Stop
  <2>4. Relies(pass)
    BY <2>1 DEF Relies, Deleting
  <2>5. CASE EndPass
    <3>1. pass'.pc = "idle"
      BY <2>5, IdleFacts DEF EndPass
    <3>2. "lag" \notin scenario => \A c \in Claims : Up(engine, c) => claim'[c].inst # NoInst
      BY <2>1 DEF AnswerInv
    <3> QED BY <2>1, <2>3, <3>1, <3>2, RestingAnswers
  <2>6. CASE engine' = Stopping(pass.c) /\ pass' = [pass EXCEPT !.pc = "unfinalize"]
    <3>1. pass'.pc = "unfinalize" /\ pass'.c = pass.c /\ pass'.base = pass.base
      BY <1>0, <2>6 DEF PassType
    <3> QED BY <2>1, <2>2, <2>3, <2>4, <2>6, <3>1 DEF AnswerInv, Relies
  <2> QED BY <1>3, <2>5, <2>6 DEF Stop
<1>4. CASE RemoveFinalizer
  <2>1. engine' = engine /\ pass' = Idle /\ pass.pc = "unfinalize"
    BY <1>4 DEF RemoveFinalizer, world, EndPass, At
  <2>2. PICK w : w = [life |-> "gone", inst |-> NoInst]
    OBVIOUS
  <2>3. scenario' = scenario /\ (claim' = claim \/ claim' = [claim EXCEPT ![pass.c] = w])
    BY <1>4, <2>2 DEF RemoveFinalizer, Update, Fault, budget
  <2>4. pass'.pc = "idle"
    BY <2>1, IdleFacts
  <2>5. /\ \A c \in Claims : Up(engine', c) => Up(engine, c)
        /\ "lag" \notin scenario => \A c \in Claims : Up(engine, c) => claim'[c].inst # NoInst
    BY <1>0, <2>1, <2>3 DEF AnswerInv
  <2> QED BY <2>3, <2>4, <2>5, RestingAnswers
<1> QED BY <1>1, <1>2, <1>3, <1>4

(* A pass that places its claim, or divides the card. *)
LEMMA PlanAnswers ==
  ASSUME AInv, AnswerInv,
         \/ Place \/ Divide \/ Shrink \/ ConfirmShrink \/ TakeBack \/ Grow \/ ConfirmGrow
         \/ RecordLimit
  PROVE  AnswerInv'
<1>0. /\ claim \in [Claims -> ClaimType] /\ engine \in [Claims -> EngineType] /\ pass.c \in Claims
      /\ pass \in PassType
  BY TypeParts, PassFacts DEF AInv, ClaimsOK, WorldOK, PassOK
<1>1. PlacingAt(pass) => /\ claim[pass.c].inst = NoInst \/ "lag" \in scenario
                         /\ ~Up(engine, pass.c) \/ "lag" \in scenario
                         /\ Relies(pass)
  BY <1>0 DEF AnswerInv, AInv, StageOK, Relies
<1>2. CASE Place
  <2>1. claim' = claim /\ engine' = engine /\ pass.pc = "place"
    BY <1>2 DEF Place, At, world
  <2>2. PlacingAt(pass)
    BY <2>1 DEF PlacingAt
  <2>3. /\ pass'.c = pass.c /\ pass'.base = pass.base
        /\ pass'.pc \in {"status", "record", "shrink"}
    BY <1>2, PlaceTypes
  <2>4. scenario' = scenario
    BY <1>2, ReadsFacts DEF Place, AInv
  <2> QED BY <1>1, <2>1, <2>2, <2>3, <2>4, QuietAnswers
<1>3. CASE Divide
  <2>1. claim' = claim /\ engine' = engine
    BY <1>3 DEF Divide, world
  <2>2. scenario' = scenario
    BY <1>3, ReadsFacts DEF Divide, AInv
  <2>3. pass'.pc = "idle" \/ (pass'.pc \in Carrying /\ pass'.why # "placement")
    BY <1>3, DivideTypes, IdleFacts DEF Carrying
  <2>4. /\ \A c \in Claims : Up(engine', c) => Up(engine, c)
        /\ "lag" \notin scenario => \A c \in Claims : Up(engine, c) => claim'[c].inst # NoInst
    BY <2>1 DEF AnswerInv
  <2> QED BY <2>2, <2>3, <2>4, RestingAnswers
<1>4. CASE \/ Shrink \/ ConfirmShrink \/ TakeBack \/ Grow \/ ConfirmGrow \/ RecordLimit
  <2>1. /\ scenario' = scenario /\ \A c \in Claims : engine'[c].phase = engine[c].phase
        /\ GoesOn \/ GivesUp \/ MakesRoom
    BY <1>4, CarryTypes, RecordTypes
  <2>2. \A c \in Claims : /\ claim'[c].inst = NoInst <=> claim[c].inst = NoInst
                          /\ claim[c].inst = NoInst => claim'[c].inst = claim[c].inst
    <3>1. CASE Shrink \/ ConfirmShrink \/ TakeBack \/ Grow \/ ConfirmGrow
      BY <3>1, CarryTypes
    <3>2. CASE RecordLimit
      <4>1. PICK l \in pass.todo : claim' \in {claim, Recorded(l)}
        BY <3>2, RecordTypes
      <4>2. l \in LimitType
        BY PassFacts
      <4>3. \A c \in Claims : Recorded(l)[c].inst = NoInst <=> claim[c].inst = NoInst
        BY <4>2, RecordedFacts
      <4> QED BY <4>1, <4>3
    <3> QED BY <1>4, <3>1, <3>2
  <2>3. CASE GoesOn
    <3>1. Relies(pass') => Relies(pass) /\ PlacingAt(pass)
      BY <2>3 DEF GoesOn, Relies, PlacingAt, Carrying, Judging, Deleting
    <3>2. /\ pass'.pc \notin {"activate", "missing", "unfinalize", "status"}
          /\ pass'.c = pass.c /\ pass'.base = pass.base
      BY <2>3 DEF GoesOn, Carrying
    <3> QED BY <1>0, <1>1, <2>1, <2>2, <3>1, <3>2, QuietAnswers
  <2>4. CASE GivesUp /\ pass' = Idle
    <3>1. /\ \A c \in Claims : Up(engine', c) => Up(engine, c)
          /\ "lag" \notin scenario => \A c \in Claims : Up(engine, c) => claim'[c].inst # NoInst
      BY <2>1, <2>2 DEF AnswerInv, Up
    <3>2. pass'.pc = "idle"
      BY <2>4, IdleFacts
    <3> QED BY <2>1, <3>1, <3>2, RestingAnswers
  <2>5. CASE (GivesUp /\ pass' # Idle) \/ MakesRoom
    <3>1. /\ PlacingAt(pass) /\ pass'.pc \in {"status", "reserve"}
          /\ pass'.c = pass.c /\ pass'.base = pass.base
      BY <2>5 DEF GivesUp, MakesRoom, PlacingAt
    <3> QED BY <1>0, <1>1, <2>1, <2>2, <3>1, QuietAnswers
  <2> QED BY <2>1, <2>3, <2>4, <2>5
<1> QED BY <1>2, <1>3, <1>4


(* The instance of the pass is there before its engine is asked for, and is given
   up only when no engine was started. *)
LEMMA InstanceAnswers ==
  ASSUME AInv, AnswerInv,
         \/ Reserve \/ Start \/ StartMissing \/ Health \/ ReadBack \/ Hold \/ Routes
         \/ UpdateStatus
  PROVE  AnswerInv'
<1>0. /\ claim \in [Claims -> ClaimType] /\ engine \in [Claims -> EngineType] /\ pass.c \in Claims
  BY TypeParts, PassFacts DEF AInv, ClaimsOK, WorldOK
<1>1. CASE Reserve
  <2>1. /\ pass.pc = "reserve" /\ pass.base.inst = NoInst /\ pass.inst.phase = "activating"
        /\ pass.inst # NoInst /\ pass.base.life = "live"
    BY <1>1, ReserveTypes DEF AInv, StageOK, NoInst
  <2>2. PICK w \in ClaimType : w = Written /\ w.inst = pass.inst
    BY <2>1, WrittenFacts
  <2>3. /\ engine' = engine /\ scenario' = scenario
        /\ claim' = claim \/ claim' = [claim EXCEPT ![pass.c] = w]
        /\ \/ pass' = Idle
           \/ /\ pass'.pc = "activate" /\ pass'.c = pass.c /\ pass'.base = w
              /\ claim[pass.c] = pass.base /\ claim' = [claim EXCEPT ![pass.c] = w]
           \/ pass'.pc = "status" /\ pass'.c = pass.c /\ pass'.inst = pass.inst
    BY <1>1, <2>2, ReserveTypes
  <2>4. /\ \A c \in Claims : claim[c].inst # NoInst => claim'[c].inst # NoInst
        /\ \A c \in Claims : Up(engine', c) <=> Up(engine, c)
    BY <1>0, <2>1, <2>2, <2>3 DEF Up
  <2>5. CASE pass' = Idle
    <3>1. pass'.pc = "idle"
      BY <2>5, IdleFacts
    <3>2. "lag" \notin scenario => \A c \in Claims : Up(engine, c) => claim'[c].inst # NoInst
      BY <2>4 DEF AnswerInv
    <3> QED BY <2>3, <2>4, <3>1, <3>2, RestingAnswers
  <2>6. CASE /\ pass'.pc = "activate" /\ pass'.c = pass.c /\ pass'.base = w
             /\ claim[pass.c] = pass.base /\ claim' = [claim EXCEPT ![pass.c] = w]
    <3>1. "lag" \notin scenario => ~Up(engine, pass.c)
      BY <1>0, <2>1, <2>6 DEF AnswerInv
    <3>2. claim'[pass.c] = w
      BY <1>0, <2>6
    <3> QED BY <1>0, <2>3, <2>4, <2>6, <3>1, <3>2 DEF AnswerInv, PlacingAt, Carrying
  <2>7. CASE pass'.pc = "status" /\ pass'.c = pass.c /\ pass'.inst = pass.inst
    BY <2>1, <2>3, <2>4, <2>7 DEF AnswerInv, PlacingAt, Carrying, Judging, Deleting
  <2> QED BY <2>3, <2>5, <2>6, <2>7
<1>2. CASE Start \/ StartMissing
  <2>1. /\ pass.pc \in {"activate", "missing"} /\ claim' = claim /\ scenario' = scenario
        /\ \A d \in Claims \ {pass.c} : engine'[d] = engine[d]
        /\ pass'.pc \in {"health", "status"} /\ pass'.c = pass.c /\ pass'.base = pass.base
        /\ pass'.inst = pass.inst \/ (pass'.pc = "status" /\ pass'.inst = NoInst /\ engine' = engine)
    BY <1>2, StartTypes
  <2>2. pass.base.inst # NoInst /\ pass.inst # NoInst
    BY <2>1 DEF AInv, StageOK, Judging
  <2>3. "lag" \notin scenario => claim[pass.c].inst = pass.base.inst /\ ~Up(engine, pass.c)
    BY <2>1 DEF AnswerInv, Judging
  <2>4. "lag" \notin scenario => \A c \in Claims : Up(engine', c) => claim'[c].inst # NoInst
    BY <1>0, <2>1, <2>2, <2>3 DEF AnswerInv, Up
  <2>5. (pass'.pc = "status" /\ pass'.inst = NoInst) => engine' = engine
    BY <2>1, <2>2
  <2> QED BY <2>1, <2>2, <2>3, <2>4, <2>5 DEF AnswerInv, PlacingAt, Carrying
<1>3. CASE Health \/ ReadBack \/ Hold \/ Routes
  <2>1. /\ pass.pc \in Judging /\ claim' = claim /\ scenario' = scenario
        /\ \A d \in Claims : engine'[d].phase = engine[d].phase
        /\ pass'.pc \in {"status", "missing", "hold", "readback", "route"}
        /\ pass'.c = pass.c /\ pass'.base = pass.base /\ pass'.inst # NoInst
        /\ pass'.pc = "missing" => engine'[pass.c].phase = "none"
    BY <1>3, HealthTypes, RoutesTypes DEF Judging
  <2>2. Relies(pass)
    BY <2>1 DEF Relies
  <2>3. pass'.pc \in {"activate", "missing", "unfinalize"} => ~Up(engine, pass.c)
    BY <1>0, <2>1 DEF Up
  <2> QED BY <2>1, <2>2, <2>3, QuietAnswers
<1>4. CASE UpdateStatus
  <2>1. /\ pass.pc = "status" /\ engine' = engine /\ scenario' = scenario /\ pass.base.life = "live"
        /\ claim' = claim \/ claim' = [claim EXCEPT ![pass.c] = Written]
        /\ pass'.pc \in {"idle", "divide"}
    BY <1>4, StatusTypes
  <2>2. PICK w \in ClaimType : w = Written /\ w.inst = pass.inst
    BY <2>1, WrittenFacts
  <2>3. ASSUME "lag" \notin scenario, NEW c \in Claims, Up(engine, c)
        PROVE  claim'[c].inst # NoInst
    <3>1. claim[c].inst # NoInst
      BY <2>3 DEF AnswerInv
    <3>2. c = pass.c => pass.inst # NoInst
      BY <2>1, <2>3 DEF AnswerInv
    <3> QED BY <1>0, <2>1, <2>2, <3>1, <3>2
  <2>4. \A c \in Claims : Up(engine', c) => Up(engine, c)
    BY <2>1
  <2> QED BY <2>1, <2>3, <2>4, RestingAnswers
<1> QED BY <1>1, <1>2, <1>3, <1>4

(* Every step keeps the engines answering to their claims. *)
LEMMA AnswersStep ==
  ASSUME AInv, AnswerInv, [Next]_vars
  PROVE  AnswerInv'
<1>1. CASE PassStep
  BY <1>1, PlanAnswers, StopAnswers, InstanceAnswers DEF PassStep
<1>2. CASE Crash
  BY <1>2, StopAnswers
<1>3. ASSUME NEW c \in Claims,
             Begin(c) \/ CatchUp(c) \/ Create(c) \/ Delete(c) \/ EngineSteps(c)
      PROVE  AnswerInv'
  BY <1>3, AroundAnswers
<1>4. CASE UNCHANGED vars
  BY <1>4 DEF vars, AnswerInv, Up
<1> QED BY <1>1, <1>2, <1>3, <1>4 DEF Next

(* No engine is up at first, and the worker has no claim. *)
LEMMA AnswersInit == Init => AnswerInv
<1> SUFFICES ASSUME Init PROVE AnswerInv
  OBVIOUS
<1>1. pass.pc = "idle"
  BY IdleFacts DEF Init
<1>2. \A c \in Claims : ~Up(engine, c)
  BY DEF Init, Up, NoEngine
<1> QED BY <1>1, <1>2 DEF AnswerInv, PlacingAt, Carrying, Judging, Deleting

(* While the cache keeps up, no engine boots, serves or restarts without an instance
   that answers for it, whatever call of a pass failed, lost its answer or was the
   last before the controller stopped: the instance is written before its engine is
   asked for, and taken back only after a start that is known not to have happened. *)
THEOREM EnginesAnswer == Spec => []EngineAnswersToClaim
<1>1. AnswerInv => EngineAnswersToClaim
  BY DEF AnswerInv, EngineAnswersToClaim, Up
<1> QED BY <1>1, TypesInit, TypesStep, AnswersInit, AnswersStep, PTL DEF Spec
=============================================================================
