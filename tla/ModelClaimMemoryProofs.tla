----------------------- MODULE ModelClaimMemoryProofs -----------------------
(***************************************************************************)
(* The memory of the card, while no engine restarts by itself and the      *)
(* controller's cache keeps up: an engine on the route is held to no more  *)
(* than its instance records, and what the engines hold and may still map  *)
(* never comes to more than the card.                                      *)
(***************************************************************************)
EXTENDS ModelClaimProofs

-----------------------------------------------------------------------------
(* The inductive invariant. *)

Calm == scenario \cap {"engine", "lag"} = {}

(* The claims with traffic: on the route, or with requests from when they were. *)
Served == route \cup load

(* Those of them whose engine may still map memory. *)
Mapping == {c \in Served : engine[c].phase = "active"}

(* Engine c holds, and may map, no more than n. *)
Within(c, n) == engine[c].used <= n /\ (c \in Mapping => engine[c].cap <= n)

(* No engine fails or restarts, and one that serves has a segment. *)
PhaseInv ==
  \A c \in Claims : /\ engine[c].phase \notin {"restarting", "failed"}
                    /\ engine[c].phase = "active" => engine[c].cap >= 0
                    /\ claim[c].inst.phase # "failed"

(* An engine with traffic is held to its record.  One that is stopped belongs to a
   deleted claim; its route and its last requests may still be there. *)
ServedInv ==
  /\ \A c \in Served :
       \/ engine[c].phase = "active" /\ claim[c].inst # NoInst
       \/ claim[c].life \in {"deleted", "gone"} /\ ~Up(engine, c)
  /\ \A c \in Claims : /\ engine[c].used > 0 => c \in load
                       /\ claim[c].inst # NoInst => Within(c, claim[c].inst.kv)

(* What a claim takes of the card: what it records, or what an engine that is
   stopping still holds. *)
Takes(cl, en) ==
  [c \in Claims |-> IF cl[c].inst # NoInst THEN Footprint[c] + cl[c].inst.kv
                    ELSE IF en[c].phase # "none" THEN Footprint[c] + en[c].used ELSE 0]
Taken(cl, en) == SumFunctionOnSet(Takes(cl, en), Claims)

WorldInv == PhaseInv /\ ServedInv /\ Taken(claim, engine) <= Card

(* What a pass is about to write fits its engine. *)
CopyInv ==
  /\ pass.inst.phase # "failed" /\ pass.want # "failed"
  /\ PlacingAt(pass) \/ pass.pc = "reserve" => pass.c \notin Served
  /\ pass.pc \in Judging \cup {"status"} /\ pass.c \in Served =>
       engine[pass.c].phase = "active" /\ pass.inst # NoInst /\ Within(pass.c, pass.inst.kv)
  /\ pass.pc \in Judging => pass.inst.kv <= pass.base.inst.kv
  /\ pass.pc \in {"hold", "readback"} => pass.want # "active"
  /\ pass.pc = "route" /\ pass.want = "active" =>
       /\ engine[pass.c].phase = "active" /\ engine[pass.c].cap <= pass.inst.kv
       /\ pass.reading.of[pass.c].phase = "active"
       /\ pass.reading.of[pass.c].cap = engine[pass.c].cap
  /\ pass.pc \in Deleting => claim[pass.c].life = "deleted"

(* A reading stays true of the limits of engines that may map, of what is mapped
   as far as the engine cannot map more, and of engines that are not there. *)
TrueOf(r) ==
  /\ \A c \in Mapping : r[c].phase = "active" /\ r[c].cap = engine[c].cap
  /\ \A c \in Claims : \/ engine[c].used <= r[c].used
                       \/ c \in Mapping /\ engine[c].used <= engine[c].cap
  /\ \A c \in Claims : Gone(r[c]) => engine[c].phase = "none"

ReadInv ==
  /\ pass.reading.kind = "read" => TrueOf(pass.reading.of)
  /\ pass.pc \in {"place", "confirm", "back", "confirmGrow", "health", "readback"} \cup Deleting =>
       pass.reading = NoReading

(* A plan that is carried out: engines with traffic are where the plan found them,
   or within their new limit. *)
FitsPlan ==
  /\ pass.pc = "shrink" => pass.done \cup pass.todo = Shrinks(pass.plan)
  /\ pass.pc = "confirm" => pass.done = Shrinks(pass.plan)
  /\ pass.pc = "back" => \A l \in pass.todo : claim[l.e.c].inst # NoInst => claim[l.e.c].inst.kv = l.e.rec
  /\ pass.pc \in Carrying => \A l \in pass.plan :
       /\ l.e.new => l.e.cap = NoSegment /\ claim[l.e.c].inst = NoInst
       /\ l.e.c \in Mapping => ~l.e.new /\ 0 <= l.e.cap /\ l.e.cap <= l.e.rec
  /\ pass.pc \in {"shrink", "confirm"} => \A l \in pass.plan \ Shrinks(pass.plan) : Within(l.e.c, l.limit)
  /\ pass.pc = "record" => \A l \in pass.plan : Within(l.e.c, l.limit)

(* While room is made and taken, every engine is accounted for. *)
Accounted == \A c \in Claims : claim[c].inst = NoInst => engine[c].phase = "none"
AllCharged ==
  (pass.pc \in Carrying \cup {"reserve"} \/ (pass.pc = "status" /\ pass.base.inst = NoInst /\ pass.inst # NoInst))
  => Accounted

PassInv == CopyInv /\ ReadInv /\ FitsPlan /\ AllCharged

CInv == Calm => WorldInv /\ PassInv

-----------------------------------------------------------------------------
(* What the invariants of the other theorems say of a state. *)

(* Claims and engines as the type invariant has them. *)
LEMMA StateFacts ==
  ASSUME AInv
  PROVE  /\ claim \in [Claims -> ClaimType] /\ engine \in [Claims -> EngineType]
         /\ route \subseteq Claims /\ load \subseteq Claims /\ pass.c \in Claims
         /\ \A c \in Claims : /\ engine[c] \in EngineType
                              /\ engine[c].used \in Nat /\ engine[c].cap \in Int
                              /\ claim[c].inst \in Instances /\ claim[c].inst.kv \in Nat
                              /\ claim[c].inst # NoInst =>
                                   claim[c].life \in {"live", "deleted"} /\ claim[c].inst.kv >= 1
<1>1. ClaimsOK /\ WorldOK /\ pass.c \in Claims
  BY TypeParts, PassFacts DEF AInv
<1>2. ASSUME NEW c \in Claims
      PROVE  engine[c] \in EngineType /\ engine[c].used \in Nat /\ engine[c].cap \in Int
  BY <1>1, <1>2, Constants DEF WorldOK, EngineType, NoSegment
<1>3. ASSUME NEW c \in Claims
      PROVE  /\ claim[c].inst \in Instances /\ claim[c].inst.kv \in Nat
             /\ claim[c].inst # NoInst => claim[c].inst.kv >= 1
  BY <1>1, <1>3, Constants DEF ClaimsOK, ClaimType, Instances, NoInst
<1> QED BY <1>1, <1>2, <1>3 DEF ClaimsOK, WorldOK

(* The same of the next state. *)
LEMMA StateFactsNext ==
  ASSUME AInv'
  PROVE  /\ claim' \in [Claims -> ClaimType] /\ engine' \in [Claims -> EngineType]
         /\ route' \subseteq Claims /\ load' \subseteq Claims /\ pass'.c \in Claims
         /\ \A c \in Claims : /\ engine'[c] \in EngineType
                              /\ engine'[c].used \in Nat /\ engine'[c].cap \in Int
                              /\ claim'[c].inst \in Instances /\ claim'[c].inst.kv \in Nat
                              /\ claim'[c].inst # NoInst =>
                                   claim'[c].life \in {"live", "deleted"} /\ claim'[c].inst.kv >= 1
<1>1. ClaimsOK' /\ WorldOK' /\ pass'.c \in Claims
  BY TypePartsNext DEF AInv, PassOK, PassType
<1>2. ASSUME NEW c \in Claims
      PROVE  engine'[c] \in EngineType /\ engine'[c].used \in Nat /\ engine'[c].cap \in Int
  BY <1>1, <1>2, Constants DEF WorldOK, EngineType, NoSegment
<1>3. ASSUME NEW c \in Claims
      PROVE  /\ claim'[c].inst \in Instances /\ claim'[c].inst.kv \in Nat
             /\ claim'[c].inst # NoInst => claim'[c].inst.kv >= 1
  BY <1>1, <1>3, Constants DEF ClaimsOK, ClaimType, Instances, NoInst
<1> QED BY <1>1, <1>2, <1>3 DEF ClaimsOK, WorldOK

-----------------------------------------------------------------------------
(* The memory that is taken. *)

(* What each claim takes is a number. *)
LEMMA TakesNat ==
  ASSUME NEW cl \in [Claims -> ClaimType], NEW en \in [Claims -> EngineType]
  PROVE  /\ \A c \in Claims : Takes(cl, en)[c] \in Nat
         /\ Taken(cl, en) \in Nat
<1>1. ASSUME NEW c \in Claims PROVE Takes(cl, en)[c] \in Nat
  <2>1. cl[c].inst.kv \in Nat
    BY Constants DEF ClaimType, Instances, NoInst
  <2>2. en[c].used \in Nat /\ Footprint[c] \in Nat
    BY Constants DEF EngineType
  <2> QED BY <2>1, <2>2 DEF Takes
<1> QED BY <1>1, OrderFacts, SumNat DEF Taken

(* Where no claim takes more than before, all of them together do not. *)
LEMMA TakenLess ==
  ASSUME NEW cl \in [Claims -> ClaimType], NEW en \in [Claims -> EngineType],
         NEW ncl \in [Claims -> ClaimType], NEW nen \in [Claims -> EngineType],
         \A c \in Claims : Takes(ncl, nen)[c] <= Takes(cl, en)[c],
         Taken(cl, en) <= Card
  PROVE  Taken(ncl, nen) <= Card
<1>1. /\ \A c \in Claims : Takes(cl, en)[c] \in Int /\ Takes(ncl, nen)[c] \in Int
      /\ Taken(cl, en) \in Nat /\ Taken(ncl, nen) \in Nat
  BY TakesNat
<1>2. Taken(ncl, nen) <= Taken(cl, en)
  BY <1>1, OrderFacts, SumMonotone DEF Taken
<1> QED BY <1>1, <1>2, Constants

(* Where every engine has an instance, what is taken is what is recorded. *)
LEMMA TakenCharged ==
  ASSUME NEW cl \in [Claims -> ClaimType], NEW en \in [Claims -> EngineType],
         \A c \in Claims : cl[c].inst = NoInst => en[c].phase = "none",
         \A c \in Claims : cl[c].inst.phase # "failed",
         RecordTotal(cl) <= Card
  PROVE  Taken(cl, en) <= Card
<1>1. \A c \in Claims : Takes(cl, en)[c] \in Int
  BY TakesNat
<1>2. /\ Records(cl) \subseteq Claims /\ IsFiniteSet(Records(cl))
      /\ RecordTotal(cl) = SumFunctionOnSet(Charge(cl), Records(cl))
      /\ \A c \in Claims : Charge(cl)[c] = Footprint[c] + cl[c].inst.kv
  BY ChargeFacts
<1>3. \A c \in Claims \ Records(cl) : Takes(cl, en)[c] = 0
  <2> TAKE c \in Claims \ Records(cl)
  <2>1. cl[c].inst \in Instances /\ cl[c].inst.phase \notin {"activating", "active", "failed"}
    BY DEF Records, ClaimType
  <2>2. cl[c].inst = NoInst
    BY <2>1 DEF Instances
  <2> QED BY <2>2 DEF Takes
<1>4. Taken(cl, en) = SumFunctionOnSet(Takes(cl, en), Records(cl))
  BY <1>1, <1>2, <1>3, OrderFacts, SumSupport DEF Taken
<1>5. \A c \in Records(cl) : Takes(cl, en)[c] \in Int /\ Charge(cl)[c] = Takes(cl, en)[c]
  <2> TAKE c \in Records(cl)
  <2>1. c \in Claims /\ cl[c].inst # NoInst
    BY <1>2 DEF Records, NoInst
  <2> QED BY <1>1, <1>2, <2>1 DEF Takes
<1>6. SumFunctionOnSet(Takes(cl, en), Records(cl)) = SumFunctionOnSet(Charge(cl), Records(cl))
  BY <1>2, <1>5, SumEqual
<1> QED BY <1>2, <1>4, <1>6

-----------------------------------------------------------------------------
(* Steps that give no engine more than it may map. *)

(* No claim gets traffic or a limit, and an engine maps more only up to its limit. *)
Eases ==
  \A d \in Claims :
    /\ d \in Served' => d \in Served
    /\ d \in Mapping' => d \in Mapping /\ engine'[d].cap = engine[d].cap
    /\ engine'[d].used <= engine[d].used \/ (d \in Mapping' /\ engine'[d].used <= engine[d].cap)
    /\ engine[d].phase = "none" => engine'[d].phase = "none"

(* An engine that can map no more has freed what it mapped. *)
Frees == \A d \in Claims : d \in Mapping /\ d \notin Mapping' => engine'[d].used = 0

(* An engine stays within what it was within, and a reading stays true. *)
LEMMA EasesFacts ==
  ASSUME AInv, AInv', Eases
  PROVE  /\ \A d \in Claims, n \in Nat : Within(d, n) => Within(d, n)'
         /\ \A r \in [Claims -> ObservedType] : Frees /\ TrueOf(r) => TrueOf(r)'
<1>1. ASSUME NEW d \in Claims
      PROVE  /\ engine[d].used \in Nat /\ engine[d].cap \in Int
             /\ engine'[d].used \in Nat /\ engine'[d].cap \in Int
  BY <1>1, StateFacts, StateFactsNext
<1>2. ASSUME NEW d \in Claims, NEW n \in Nat, Within(d, n) PROVE Within(d, n)'
  BY <1>1, <1>2 DEF Eases, Within
<1>3. ASSUME NEW r \in [Claims -> ObservedType], Frees, TrueOf(r) PROVE TrueOf(r)'
  <2>1. \A c \in Mapping' : c \in Claims
    BY StateFactsNext DEF Mapping, Served
  <2>2. \A c \in Mapping' : r[c].phase = "active" /\ r[c].cap = engine'[c].cap
    BY <1>3, <2>1 DEF Eases, TrueOf
  <2>3. ASSUME NEW c \in Claims
        PROVE  engine'[c].used <= r[c].used \/ (c \in Mapping' /\ engine'[c].used <= engine'[c].cap)
    <3>1. r[c].used \in Nat
      BY DEF ObservedType
    <3>2. \/ engine[c].used <= r[c].used
          \/ c \in Mapping /\ engine[c].used <= engine[c].cap
      BY <1>3 DEF TrueOf
    <3>3. /\ c \in Mapping' => engine'[c].cap = engine[c].cap
          /\ engine'[c].used <= engine[c].used \/ (c \in Mapping' /\ engine'[c].used <= engine[c].cap)
          /\ c \in Mapping /\ c \notin Mapping' => engine'[c].used = 0
      BY <1>3 DEF Eases, Frees
    <3> QED BY <1>1, <3>1, <3>2, <3>3
  <2>4. \A c \in Claims : Gone(r[c]) => engine'[c].phase = "none"
    BY <1>3 DEF Eases, TrueOf
  <2> QED BY <2>2, <2>3, <2>4 DEF TrueOf
<1> QED BY <1>2, <1>3

(* The invariants of a pass, while it waits and the engines go on. *)
LEMMA PassWaits ==
  ASSUME AInv, AInv', PassInv, Eases, Frees, pass' = pass,
         \A d \in Claims : claim'[d].inst = claim[d].inst,
         \A d \in Claims : claim[d].life = "deleted" => claim'[d].life = "deleted",
         \A d \in Claims : engine[d].phase = "active" =>
             engine'[d].phase = "active" /\ engine'[d].cap = engine[d].cap
  PROVE  PassInv'
<1>0. /\ pass.c \in Claims /\ pass.inst.kv \in Nat
      /\ pass.reading.kind = "read" => pass.reading.of \in [Claims -> ObservedType]
      /\ \A l \in pass.plan : l.e.c \in Claims /\ l.limit \in Nat
      /\ pass.todo \subseteq LimitType
  <2>1. /\ pass.c \in Claims /\ pass.inst \in Instances /\ pass.reading \in ReadingType
        /\ pass.plan \subseteq LimitType /\ pass.todo \subseteq LimitType
    BY PassFacts
  <2> QED BY <2>1, Constants DEF Instances, NoInst, ReadingType, LimitType, EntryType
<1>1. \A d \in Claims, n \in Nat : Within(d, n) => Within(d, n)'
  BY EasesFacts
<1>2. CopyInv'
  BY <1>0, <1>1 DEF PassInv, CopyInv, Eases, PlacingAt
<1>3. ReadInv'
  BY <1>0, EasesFacts DEF PassInv, ReadInv
<1>4. FitsPlan'
  <2>1. \A l \in pass.todo : l.e.c \in Claims
    BY <1>0 DEF LimitType, EntryType
  <2>2. pass.pc \in Carrying => \A l \in pass.plan :
          /\ l.e.new => l.e.cap = NoSegment /\ claim'[l.e.c].inst = NoInst
          /\ l.e.c \in Mapping' => ~l.e.new /\ 0 <= l.e.cap /\ l.e.cap <= l.e.rec
    BY <1>0 DEF PassInv, FitsPlan, Eases
  <2>3. pass.pc \in {"shrink", "confirm"} =>
          \A l \in pass.plan \ Shrinks(pass.plan) : Within(l.e.c, l.limit)'
    BY <1>0, <1>1 DEF PassInv, FitsPlan
  <2>4. pass.pc = "record" => \A l \in pass.plan : Within(l.e.c, l.limit)'
    BY <1>0, <1>1 DEF PassInv, FitsPlan
  <2>5. /\ pass.pc = "shrink" => pass.done \cup pass.todo = Shrinks(pass.plan)
        /\ pass.pc = "confirm" => pass.done = Shrinks(pass.plan)
        /\ pass.pc = "back" => \A l \in pass.todo : claim'[l.e.c].inst # NoInst => claim'[l.e.c].inst.kv = l.e.rec
    BY <2>1 DEF PassInv, FitsPlan
  <2> QED BY <2>2, <2>3, <2>4, <2>5 DEF FitsPlan
<1>5. AllCharged'
  BY DEF PassInv, AllCharged, Accounted, Eases
<1> QED BY <1>2, <1>3, <1>4, <1>5 DEF PassInv

-----------------------------------------------------------------------------
(* The engines and the users. *)

(* What an engine does by itself: nothing, or it gets a request; it is ready; it
   exits; it maps up to its limit, or frees all. *)
Moves(d) ==
  \/ engine'[d] = engine[d] /\ (d \in load => d \in load') /\ (d \in load' => d \in load \/ d \in Mapping)
  \/ /\ engine[d].phase = "booting" /\ (d \in load' <=> d \in load)
     /\ engine'[d].phase = "active" /\ engine'[d].cap = Startup /\ engine'[d].used = 0
  \/ /\ engine[d].phase = "stopping" /\ d \notin load'
     /\ engine'[d].phase = "none" /\ engine'[d].used = 0
  \/ /\ engine[d].phase = "active" /\ engine'[d].phase = "active" /\ engine'[d].cap = engine[d].cap
     /\ \/ d \in load /\ d \in load' /\ engine'[d].used = engine[d].cap
        \/ d \notin load' /\ engine'[d].used = 0

(* A claim is created or deleted, or stays as it is. *)
Lives(d) ==
  /\ claim'[d].inst = claim[d].inst
  /\ \/ claim'[d].life = claim[d].life
     \/ claim[d].life = "absent" /\ claim'[d].life = "live"
     \/ claim[d].life = "live" /\ claim'[d].life = "deleted"

(* Every step around a pass is such a move. *)
LEMMA AroundMoves ==
  ASSUME AInv, Calm, PhaseInv, NEW c \in Claims,
         CatchUp(c) \/ Create(c) \/ Delete(c) \/ EngineSteps(c)
  PROVE  /\ route' = route /\ pass' = pass
         /\ \A d \in Claims : Moves(d) /\ Lives(d)
<1>0. /\ claim \in [Claims -> ClaimType] /\ engine \in [Claims -> EngineType]
  BY StateFacts
<1>1. CASE Create(c) \/ Delete(c)
  <2>1. /\ engine' = engine /\ load' = load /\ route' = route /\ pass' = pass
    BY <1>1 DEF Create, Delete, world
  <2>2. \A d \in Claims : Lives(d)
    BY <1>0, <1>1 DEF Create, Delete, Lives, ClaimType
  <2> QED BY <2>1, <2>2 DEF Moves
<1>2. CASE CatchUp(c)
  BY <1>2 DEF CatchUp, Calm
<1>3. CASE EngineDies(c)
  BY <1>3 DEF EngineDies, Fault, Calm
<1>4. CASE EngineRestarts(c)
  BY <1>4 DEF EngineRestarts, PhaseInv
<1>5. CASE Arrive(c)
  BY <1>5 DEF Arrive, Moves, Lives, Mapping, Served
<1>6. ASSUME NEW e, EngineStep(c, e)
      PROVE  /\ claim' = claim /\ route' = route /\ pass' = pass /\ engine'[c] = e
             /\ \A d \in Claims \ {c} : engine'[d] = engine[d]
  BY <1>0, <1>6 DEF EngineStep
<1>7. CASE EngineReady(c)
  <2>1. EngineStep(c, [phase |-> "active", cap |-> Startup, used |-> 0]) /\ load' = load
        /\ engine[c].phase = "booting"
    BY <1>7 DEF EngineReady
  <2>2. /\ claim' = claim /\ route' = route /\ pass' = pass
        /\ engine'[c] = [phase |-> "active", cap |-> Startup, used |-> 0]
        /\ \A d \in Claims \ {c} : engine'[d] = engine[d]
    BY <1>6, <2>1
  <2> QED BY <2>1, <2>2 DEF Moves, Lives
<1>8. CASE EngineExits(c)
  <2>1. EngineStep(c, NoEngine) /\ load' = load \ {c} /\ engine[c].phase = "stopping"
    BY <1>8 DEF EngineExits
  <2>2. /\ claim' = claim /\ route' = route /\ pass' = pass /\ engine'[c] = NoEngine
        /\ \A d \in Claims \ {c} : engine'[d] = engine[d]
    BY <1>6, <2>1
  <2> QED BY <2>1, <2>2 DEF Moves, Lives, NoEngine
<1>9. CASE MapKV(c) \/ Finish(c)
  <2>1. PICK n : /\ EngineStep(c, [engine[c] EXCEPT !.used = n]) /\ engine[c].phase = "active"
                 /\ c \in load
                 /\ (n = engine[c].cap /\ load' = load) \/ (n = 0 /\ load' = load \ {c})
    BY <1>9 DEF MapKV, Finish
  <2>2. /\ claim' = claim /\ route' = route /\ pass' = pass
        /\ engine'[c] = [engine[c] EXCEPT !.used = n]
        /\ \A d \in Claims \ {c} : engine'[d] = engine[d]
    BY <1>6, <2>1
  <2>3. engine'[c].phase = "active" /\ engine'[c].cap = engine[c].cap /\ engine'[c].used = n
    BY <1>0, <2>1, <2>2 DEF EngineType
  <2>4. Moves(c)
    BY <2>1, <2>3 DEF Moves
  <2>5. \A d \in Claims \ {c} : Moves(d)
    BY <2>1, <2>2 DEF Moves
  <2> QED BY <2>2, <2>4, <2>5 DEF Lives
<1> QED BY <1>1, <1>2, <1>3, <1>4, <1>5, <1>7, <1>8, <1>9 DEF EngineSteps

(* The steps around a pass keep the memory of the card. *)
LEMMA AroundMemory ==
  ASSUME AInv, AInv', AnswerInv, Calm, WorldInv, PassInv, NEW c \in Claims,
         CatchUp(c) \/ Create(c) \/ Delete(c) \/ EngineSteps(c)
  PROVE  WorldInv' /\ PassInv'
<1>0. /\ route' = route /\ pass' = pass
      /\ \A d \in Claims : Moves(d) /\ Lives(d)
  BY AroundMoves DEF WorldInv
<1>1. /\ \A d \in Claims : /\ engine[d].used \in Nat /\ engine[d].cap \in Int
                           /\ engine'[d].used \in Nat /\ engine'[d].cap \in Int
                           /\ claim[d].inst.kv \in Nat
                           /\ claim[d].inst # NoInst => claim[d].life \in {"live", "deleted"}
      /\ \A d \in Served : d \in Claims
      /\ \A d \in Served' : d \in Claims
      /\ Startup \in Nat
  BY StateFacts, StateFactsNext, Constants DEF Served
<1>2. /\ \A d \in Claims : Up(engine, d) => claim[d].inst # NoInst
      /\ \A d \in Claims : engine[d].phase = "booting" => d \notin Served
  BY <1>1 DEF AnswerInv, Calm, WorldInv, ServedInv, Up
<1>3. \A d \in Claims : /\ d \in Mapping => engine[d].cap >= 0
                        /\ engine[d].used > 0 => d \in load
  BY DEF WorldInv, PhaseInv, ServedInv, Mapping
<1>4. Eases /\ Frees
  <2>1. ASSUME NEW d \in Claims
        PROVE  /\ d \in Served' => d \in Served
               /\ d \in Mapping' => d \in Mapping /\ engine'[d].cap = engine[d].cap
               /\ engine'[d].used <= engine[d].used \/ (d \in Mapping' /\ engine'[d].used <= engine[d].cap)
               /\ engine[d].phase = "none" => engine'[d].phase = "none"
               /\ d \in Mapping /\ d \notin Mapping' => engine'[d].used = 0
    <3>1. CASE engine'[d] = engine[d] /\ (d \in load => d \in load') /\ (d \in load' => d \in load \/ d \in Mapping)
      BY <1>0, <1>1, <3>1 DEF Served, Mapping
    <3>2. CASE engine[d].phase = "booting" /\ (d \in load' <=> d \in load) /\ engine'[d].used = 0
      BY <1>0, <1>1, <1>2, <3>2 DEF Served, Mapping
    <3>3. CASE engine[d].phase = "stopping" /\ d \notin load' /\ engine'[d].phase = "none" /\ engine'[d].used = 0
      BY <1>0, <1>1, <3>3 DEF Served, Mapping
    <3>4. CASE /\ engine[d].phase = "active" /\ engine'[d].phase = "active" /\ engine'[d].cap = engine[d].cap
               /\ d \in load /\ d \in load' /\ engine'[d].used = engine[d].cap
      BY <1>0, <1>1, <3>4 DEF Served, Mapping
    <3>5. CASE /\ engine[d].phase = "active" /\ engine'[d].phase = "active" /\ engine'[d].cap = engine[d].cap
               /\ d \notin load' /\ engine'[d].used = 0
      BY <1>0, <1>1, <3>5 DEF Served, Mapping
    <3> QED BY <1>0, <3>1, <3>2, <3>3, <3>4, <3>5 DEF Moves
  <2> QED BY <2>1 DEF Eases, Frees
<1>5. \A d \in Claims : engine[d].phase = "active" =>
        engine'[d].phase = "active" /\ engine'[d].cap = engine[d].cap
  BY <1>0 DEF Moves
<1>6. \A d \in Claims : /\ claim'[d].inst = claim[d].inst
                        /\ claim[d].life = "deleted" => claim'[d].life = "deleted"
                        /\ claim[d].life = "gone" => claim'[d].life = "gone"
  BY <1>0 DEF Lives
<1>7. PassInv'
  BY <1>0, <1>4, <1>5, <1>6, PassWaits
<1>8. PhaseInv'
  BY <1>0, <1>1, <1>6 DEF PhaseInv, WorldInv, Moves
<1>9. ServedInv'
  <2>1. ASSUME NEW d \in Served'
        PROVE  \/ engine'[d].phase = "active" /\ claim'[d].inst # NoInst
               \/ claim'[d].life \in {"deleted", "gone"} /\ ~Up(engine', d)
    <3>1. d \in Claims /\ d \in Served
      BY <1>1, <1>4, <2>1 DEF Eases
    <3>2. \/ engine[d].phase = "active" /\ claim[d].inst # NoInst
          \/ claim[d].life \in {"deleted", "gone"} /\ ~Up(engine, d)
      BY <3>1 DEF WorldInv, ServedInv
    <3>3. ~Up(engine, d) => ~Up(engine', d)
      BY <1>0, <3>1 DEF Moves, Up
    <3> QED BY <1>5, <1>6, <3>1, <3>2, <3>3
  <2>2. ASSUME NEW d \in Claims
        PROVE  /\ engine'[d].used > 0 => d \in load'
               /\ claim'[d].inst # NoInst => Within(d, claim[d].inst.kv)'
    <3>1. engine'[d].used > 0 => d \in load'
      BY <1>0, <1>3 DEF Moves
    <3>2. claim[d].inst # NoInst => Within(d, claim[d].inst.kv)
      BY DEF WorldInv, ServedInv
    <3>3. PICK k : k = claim[d].inst.kv
      OBVIOUS
    <3>4. claim[d].inst # NoInst => Within(d, k)'
      BY <1>1, <1>4, <3>2, <3>3, EasesFacts
    <3>5. claim'[d].inst.kv = k
      BY <1>6, <3>3
    <3> QED BY <1>6, <3>1, <3>4, <3>5 DEF Within
  <2> QED BY <2>1, <2>2 DEF ServedInv
<1>10. Taken(claim', engine') <= Card
  <2>1. \A d \in Claims : Takes(claim', engine')[d] <= Takes(claim, engine)[d]
    <3> TAKE d \in Claims
    <3>1. Footprint[d] \in Nat
      BY Constants
    <3>2. CASE claim[d].inst # NoInst
      BY <1>1, <1>6, <3>1, <3>2 DEF Takes
    <3>3. CASE claim[d].inst = NoInst
      <4>1. ~Up(engine, d)
        BY <1>2, <3>3
      <4>2. engine'[d] = engine[d] \/ engine'[d].phase = "none"
        BY <1>0, <4>1 DEF Moves, Up
      <4> QED BY <1>1, <1>6, <3>1, <3>3, <4>2 DEF Takes
    <3> QED BY <3>2, <3>3
  <2>2. Taken(claim, engine) <= Card
    BY DEF WorldInv
  <2> QED BY <2>1, <2>2, StateFacts, StateFactsNext, TakenLess
<1> QED BY <1>7, <1>8, <1>9, <1>10 DEF WorldInv

-----------------------------------------------------------------------------
(* Steps of a pass that leave the claims and the engines alone. *)

(* Such a step leaves alone what the invariants say of them. *)
LEMMA WorldSame ==
  ASSUME claim' = claim, engine' = engine, route' = route, load' = load
  PROVE  /\ WorldInv => WorldInv'
         /\ Served' = Served /\ Mapping' = Mapping
         /\ \A d, n : Within(d, n)' <=> Within(d, n)
         /\ \A r : TrueOf(r)' <=> TrueOf(r)
         /\ Accounted' <=> Accounted
<1>1. Served' = Served /\ Mapping' = Mapping
  BY DEF Served, Mapping
<1>2. \A d, n : Within(d, n)' <=> Within(d, n)
  BY <1>1 DEF Within
<1>3. \A r : TrueOf(r)' <=> TrueOf(r)
  BY <1>1 DEF TrueOf
<1>4. Accounted' <=> Accounted
  BY DEF Accounted
<1>5. PhaseInv => PhaseInv'
  BY DEF PhaseInv
<1>6. ServedInv => ServedInv'
  BY <1>1, <1>2 DEF ServedInv, Up, Within
<1>7. Taken(claim', engine') = Taken(claim, engine)
  OBVIOUS
<1> QED BY <1>1, <1>2, <1>3, <1>4, <1>5, <1>6, <1>7 DEF WorldInv

(* A pass that ends relies on nothing. *)
LEMMA PassRests ==
  ASSUME pass' = Idle
  PROVE  PassInv'
<1>1. /\ pass'.pc = "idle" /\ pass'.inst = NoInst /\ pass'.want = "none" /\ pass'.reading = NoReading
  BY DEF Idle
<1>2. NoReading.kind = "none" /\ NoInst.phase = "none"
  BY DEF NoReading, NoInst
<1> QED BY <1>1, <1>2 DEF PassInv, CopyInv, ReadInv, FitsPlan, AllCharged, PlacingAt, Carrying, Judging, Deleting

(* What the runtime answers now is true. *)
LEMMA SnapshotTrue ==
  ASSUME AInv, PhaseInv
  PROVE  /\ TrueOf(Snapshot)
         /\ \A c \in Claims : /\ Snapshot[c].phase = engine[c].phase
                              /\ Snapshot[c].cap = engine[c].cap /\ Snapshot[c].used = engine[c].used
<1>1. \A c \in Claims : /\ Snapshot[c].phase = engine[c].phase
                        /\ Snapshot[c].cap = engine[c].cap /\ Snapshot[c].used = engine[c].used
  BY DEF Snapshot, Observed
<1>2. \A c \in Mapping : c \in Claims
  BY StateFacts DEF Mapping, Served
<1>3. \A c \in Claims : engine[c].used \in Nat
  BY StateFacts
<1> QED BY <1>1, <1>2, <1>3 DEF TrueOf, Mapping, PhaseInv, Gone

(* A reading a pass uses is true. *)
LEMMA ReadingTrue ==
  ASSUME AInv, PhaseInv, ReadInv, NEW reading \in Readings, Reads(reading)
  PROVE  /\ reading.kind = "read" => TrueOf(reading.of)
         /\ reading \in ReadingType /\ reading.of \in [Claims -> ObservedType]
         /\ (pass.reading = NoReading /\ reading.kind = "read") => reading.of = Snapshot
<1>1. reading = pass.reading \/ reading = [kind |-> "read", of |-> Snapshot] \/ reading = Unread
  BY DEF Readings
<1>2. reading.kind = "read" => TrueOf(reading.of)
  BY <1>1, SnapshotTrue DEF ReadInv, Unread
<1> QED BY <1>2, ReadsFacts DEF AInv

(* A pass that stops in the middle, and one that has nothing to divide. *)
LEMMA StopMemory ==
  ASSUME AInv, WorldInv, Crash \/ PlaceUnlisted \/ SkipDivide
  PROVE  WorldInv' /\ PassInv'
<1>1. claim' = claim /\ engine' = engine /\ route' = route /\ load' = load /\ pass' = Idle
  BY DEF Crash, PlaceUnlisted, SkipDivide, EndPass, world
<1> QED BY <1>1, WorldSame, PassRests

(* A pass begins with the claim as it is. *)
LEMMA BeginMemory ==
  ASSUME AInv, Calm, WorldInv, NEW c \in Claims, Begin(c)
  PROVE  WorldInv' /\ PassInv'
<1>1. claim' = claim /\ engine' = engine /\ route' = route /\ load' = load
  BY DEF Begin, world
<1>2. PICK pm \in {claim[c], cache[c]} :
        /\ pm.life \in {"live", "deleted"}
        /\ IF pm = claim[c] THEN UNCHANGED budget ELSE Fault("lag")
        /\ pass' = [Idle EXCEPT !.pc = IF pm.life = "deleted" THEN "drain"
                                       ELSE IF pm.inst = NoInst THEN "place" ELSE "health",
                                !.c = c, !.base = pm, !.inst = pm.inst]
  BY DEF Begin
<1>3. pm = claim[c]
  BY <1>2 DEF Calm, Fault
<1>4. /\ pass'.pc = IF pm.life = "deleted" THEN "drain" ELSE IF pm.inst = NoInst THEN "place" ELSE "health"
      /\ pass'.c = c /\ pass'.base = claim[c] /\ pass'.inst = claim[c].inst
      /\ pass'.want = "none" /\ pass'.reading = NoReading
  BY <1>2, <1>3 DEF Idle
<1>5. NoReading.kind = "none"
  BY DEF NoReading
<1>6. pass'.pc \in {"drain", "place", "health"}
  BY <1>4
<1>7. CopyInv'
  <2>1. claim[c].inst.phase # "failed" /\ claim[c].inst.kv \in Nat
    BY StateFacts DEF WorldInv, PhaseInv
  <2>2. (claim[c].life = "live" /\ c \in Served) =>
          engine[c].phase = "active" /\ claim[c].inst # NoInst /\ Within(c, claim[c].inst.kv)
    BY DEF WorldInv, ServedInv
  <2>3. /\ pass'.pc = "drain" => claim[c].life = "deleted"
        /\ pass'.pc = "place" => claim[c].life = "live" /\ claim[c].inst = NoInst
        /\ pass'.pc = "health" => claim[c].life = "live" /\ claim[c].inst # NoInst
    BY <1>2, <1>3, <1>4
  <2>4. PICK k : k = claim[c].inst.kv
    OBVIOUS
  <2>5. Within(c, k)' <=> Within(c, k)
    BY <1>1, WorldSame
  <2>6. (pass'.pc = "health" /\ c \in Served') =>
          engine'[c].phase = "active" /\ pass'.inst # NoInst /\ Within(c, k)'
    BY <1>1, <1>4, <2>2, <2>3, <2>4, <2>5, WorldSame
  <2>7. (pass'.pc = "health" /\ pass'.c \in Served') => Within(pass.c, pass.inst.kv)'
    BY <1>4, <2>4, <2>6 DEF Within
  <2>8. pass'.pc = "place" => c \notin Served'
    BY <1>1, <2>2, <2>3, WorldSame
  <2> QED BY <1>1, <1>4, <1>6, <2>1, <2>3, <2>6, <2>7, <2>8
          DEF CopyInv, PlacingAt, Judging, Deleting, Carrying
<1>8. ReadInv' /\ FitsPlan' /\ AllCharged'
  BY <1>4, <1>5, <1>6 DEF ReadInv, FitsPlan, AllCharged, Carrying
<1> QED BY <1>1, <1>7, <1>8, WorldSame DEF PassInv

-----------------------------------------------------------------------------
(* A plan is made. *)

(* No limit of a plan is below what its engine was seen to hold. *)
LEMMA LimitHolds ==
  ASSUME NEW es, EntriesOK(es), Plannable(es), NEW e \in es
  PROVE  e.used <= Limit(es, e)
<1>1. /\ e \in EntryType /\ Spare(es) >= 0 /\ Clamp(KVHeld(e), e.ceiling) = KVHeld(e)
  BY DEF EntriesOK, Plannable
<1>2. KVHeld(e) \in Nat /\ e.used <= KVHeld(e)
  BY <1>1, HeldFacts
<1>3. Extra(es, e) \in Nat
  <2>1. es # {}
    OBVIOUS
  <2> QED BY <1>1, <2>1, ShareFacts
<1>4. e.ceiling \in Int /\ e.used \in Int
  BY <1>1, Constants DEF EntryType
<1>5. PICK s \in Nat : /\ s = KVHeld(e) + Extra(es, e) + (IF Rank(es, e) <= LeftOver(es) THEN 1 ELSE 0)
  <2>1. CASE Rank(es, e) <= LeftOver(es)
    BY <1>2, <1>3, <2>1
  <2>2. CASE ~(Rank(es, e) <= LeftOver(es))
    BY <1>2, <1>3, <2>2
  <2> QED BY <2>1, <2>2
<1>6. s >= KVHeld(e)
  BY <1>2, <1>3, <1>5
<1>7. Limit(es, e) = Clamp(s, e.ceiling)
  BY <1>5 DEF Limit
<1>8. Clamp(s, e.ceiling) >= KVHeld(e) /\ Clamp(s, e.ceiling) \in Int
  BY <1>1, <1>2, <1>4, <1>6 DEF Clamp
<1> QED BY <1>2, <1>4, <1>7, <1>8

(* The plan of a true reading: a limit is below what an engine may map only where
   it shrinks the engine. *)
PlanFits(p) ==
  \A l \in p :
    /\ l.e.new => l.e.cap = NoSegment /\ claim[l.e.c].inst = NoInst
    /\ l.e.c \in Mapping => ~l.e.new /\ 0 <= l.e.cap /\ l.e.cap <= l.e.rec
    /\ l \notin Shrinks(p) => Within(l.e.c, l.limit)

(* A plan made from a true reading fits, with or without a newcomer. *)
LEMMA PlanMadeFits ==
  ASSUME AInv, WorldInv, NEW r \in [Claims -> ObservedType], TrueOf(r), NEW c \in Claims,
         NEW es, es = Engines(r) \/ (es = Engines(r) \cup {Newcomer(c)} /\ c \notin Served /\ claim[c].inst = NoInst),
         es # {}, Plannable(es), NEW p, p = PlanKVLimits(es)
  PROVE  PlanFits(p)
<1>0. EntriesOK(es)
  BY EnginesFacts
<1>1. SUFFICES ASSUME NEW l \in p
      PROVE  /\ l.e.new => l.e.cap = NoSegment /\ claim[l.e.c].inst = NoInst
             /\ l.e.c \in Mapping => ~l.e.new /\ 0 <= l.e.cap /\ l.e.cap <= l.e.rec
             /\ l \notin Shrinks(p) => Within(l.e.c, l.limit)
  BY DEF PlanFits
<1>2. /\ l.e \in es /\ l.limit = Limit(es, l.e) /\ l \in LimitType
  <2>1. l.e \in es /\ l.limit = Limit(es, l.e)
    BY DEF PlanKVLimits
  <2>2. p \subseteq LimitType
    BY <1>0, PlanFacts
  <2> QED BY <2>1, <2>2
<1>3. l.e.used <= l.limit /\ l.limit \in Nat /\ l.e.cap \in Int /\ l.e.used \in Nat
  <2>1. l.e.used <= l.limit
    BY <1>0, <1>2, LimitHolds
  <2> QED BY <1>2, <2>1, Constants DEF LimitType, EntryType, NoSegment
<1>4. CASE l.e = Newcomer(c) /\ c \notin Served /\ claim[c].inst = NoInst
  <2>1. l.e.new /\ l.e.cap = NoSegment /\ l.e.c = c
    BY <1>4 DEF Newcomer
  <2>2. c \notin Mapping /\ engine[c].used = 0
    BY <1>4, StateFacts DEF Mapping, Served, WorldInv, ServedInv
  <2>3. Within(c, l.limit)
    BY <1>3, <2>2 DEF Within
  <2> QED BY <1>4, <2>1, <2>2, <2>3
<1>5. CASE l.e \in Engines(r)
  <2>1. PICK d \in Charged(r) : l.e = OnCard(d, r)
    BY <1>5 DEF Engines
  <2>2. d \in Claims /\ claim[d].inst # NoInst
    BY DEF Charged
  <2>3. /\ l.e.c = d /\ ~l.e.new /\ l.e.used = r[d].used /\ l.e.rec = claim[d].inst.kv
        /\ l.e.cap = ObservedCap(r[d], claim[d].inst.phase)
    BY <2>1 DEF OnCard
  <2>4. /\ engine[d].used \in Nat /\ engine[d].cap \in Int
        /\ r[d].used \in Nat
    BY <2>2, StateFacts, Constants DEF ObservedType
  <2>5. d \in Mapping => /\ l.e.cap = engine[d].cap /\ 0 <= engine[d].cap
                         /\ engine[d].cap <= claim[d].inst.kv
    <3>1. ASSUME d \in Mapping
          PROVE  r[d].phase = "active" /\ r[d].cap = engine[d].cap /\ engine[d].phase = "active"
      BY <3>1 DEF TrueOf, Mapping
    <3>2. d \in Mapping => l.e.cap = engine[d].cap
      BY <2>3, <3>1 DEF ObservedCap
    <3>3. d \in Mapping => 0 <= engine[d].cap /\ engine[d].cap <= claim[d].inst.kv
      BY <2>2, <2>4, <3>1 DEF WorldInv, PhaseInv, ServedInv, Within
    <3> QED BY <3>2, <3>3
  <2>6. l \notin Shrinks(p) => Within(d, l.limit)
    <3>1. SUFFICES ASSUME l \notin Shrinks(p) PROVE Within(d, l.limit)
      OBVIOUS
    <3>2. l.e.cap >= 0 => l.e.cap <= l.limit
      BY <1>3, <3>1 DEF Shrinks
    <3>3. d \in Mapping => engine[d].cap <= l.limit
      BY <1>3, <2>4, <2>5, <3>2
    <3>4. engine[d].used <= r[d].used \/ (d \in Mapping /\ engine[d].used <= engine[d].cap)
      BY <2>2 DEF TrueOf
    <3>5. engine[d].used <= l.limit
      BY <1>3, <2>3, <2>4, <3>3, <3>4
    <3> QED BY <3>3, <3>5 DEF Within
  <2> QED BY <2>3, <2>5, <2>6
<1> QED BY <1>2, <1>4, <1>5

(* A pass that starts to carry out a plan. *)
LEMMA CarryOutMemory ==
  ASSUME AInv, AInv', WorldInv, PassInv, claim' = claim, engine' = engine, route' = route, load' = load,
         NEW p, PlanFits(p), Accounted, NEW why \in {"placement", "first", "changed", "load"},
         NEW reading \in ReadingType, CarryOut(p, why, reading),
         reading.kind = "read" => TrueOf(reading.of),
         pass.pc \in {"place", "divide"}, why = "placement" => pass.c \notin Served
  PROVE  PassInv'
<1>0. pass \in PassType
  BY DEF AInv, PassOK
<1>1. /\ pass'.pc = IF Shrinks(p) = {} THEN "record" ELSE "shrink"
      /\ pass'.todo = IF Shrinks(p) = {} THEN p ELSE Shrinks(p)
      /\ pass'.plan = p /\ pass'.why = why /\ pass'.reading = reading
      /\ pass'.c = pass.c /\ pass'.want = pass.want /\ pass'.inst = pass.inst /\ pass'.done = pass.done
  BY <1>0 DEF CarryOut, PassType
<1>2. CopyInv'
  BY <1>1, WorldSame DEF PassInv, CopyInv, PlacingAt, Judging, Deleting, Carrying
<1>3. ReadInv'
  BY <1>1, WorldSame DEF ReadInv, Deleting
<1>4. AllCharged'
  BY WorldSame DEF AllCharged
<1>5. pass.done = {}
  BY DEF AInv, CarryOK, Carrying
<1>6. FitsPlan'
  <2>1. \A l \in p : /\ l.e.new => l.e.cap = NoSegment /\ claim'[l.e.c].inst = NoInst
                     /\ l.e.c \in Mapping' => ~l.e.new /\ 0 <= l.e.cap /\ l.e.cap <= l.e.rec
                     /\ l \notin Shrinks(p) => Within(l.e.c, l.limit)'
    BY WorldSame DEF PlanFits
  <2>2. pass'.pc = "shrink" => pass'.done \cup pass'.todo = Shrinks(p)
    BY <1>1, <1>5
  <2>3. pass'.pc = "record" => Shrinks(p) = {}
    BY <1>1
  <2> QED BY <1>1, <2>1, <2>2, <2>3 DEF FitsPlan
<1> QED BY <1>2, <1>3, <1>4, <1>6 DEF PassInv

(* Every engine is accounted for when the account can be judged. *)
LEMMA JudgeableFacts ==
  ASSUME NEW r, TrueOf(r), Judgeable(r)
  PROVE  Accounted
BY DEF TrueOf, Judgeable, Unaccounted, Accounted

(* A claim is placed, or refused. *)
LEMMA PlaceMemory ==
  ASSUME AInv, AInv', AnswerInv, Calm, WorldInv, PassInv, Place
  PROVE  WorldInv' /\ PassInv'
<1>0. /\ pass.pc = "place" /\ pass \in PassType /\ pass.c \in Claims
      /\ claim' = claim /\ engine' = engine /\ route' = route /\ load' = load
  BY PassFacts DEF Place, At, world, AInv, PassOK
<1>1. WorldInv'
  BY <1>0, WorldSame
<1>2. PICK reading \in Readings :
        /\ Reads(reading)
        /\ IF reading.kind = "read" /\ Admissible(pass.c, reading.of)
           THEN LET es == Engines(reading.of) \cup {Newcomer(pass.c)}
                IN  IF Plannable(es) THEN CarryOut(PlanKVLimits(es), "placement", reading)
                    ELSE pass' = [pass EXCEPT !.pc = "status", !.reading = reading]
           ELSE pass' = [pass EXCEPT !.pc = "status", !.reading = reading]
  BY DEF Place
<1>3. /\ reading \in ReadingType /\ reading.of \in [Claims -> ObservedType]
      /\ reading.kind = "read" => TrueOf(reading.of)
  BY <1>2, ReadingTrue DEF WorldInv, PassInv
<1>4. /\ pass.c \notin Served /\ pass.inst = NoInst /\ pass.base.inst = NoInst
      /\ claim[pass.c].inst = NoInst
  <2>1. PlacingAt(pass)
    BY <1>0 DEF PlacingAt
  <2> QED BY <2>1 DEF PassInv, CopyInv, AInv, StageOK, AnswerInv, Calm
<1>5. CASE pass' = [pass EXCEPT !.pc = "status", !.reading = reading]
  <2>1. /\ pass'.pc = "status" /\ pass'.reading = reading /\ pass'.c = pass.c
        /\ pass'.inst = NoInst /\ pass'.want = pass.want
    BY <1>0, <1>4, <1>5 DEF PassType
  <2>2. CopyInv'
    BY <1>0, <1>4, <2>1, WorldSame DEF PassInv, CopyInv, PlacingAt, Carrying, Judging, Deleting
  <2>3. ReadInv' /\ FitsPlan' /\ AllCharged'
    BY <1>0, <1>3, <2>1, WorldSame DEF ReadInv, FitsPlan, AllCharged, Carrying, Deleting
  <2> QED BY <1>1, <2>2, <2>3 DEF PassInv
<1>6. CASE /\ reading.kind = "read" /\ Admissible(pass.c, reading.of)
           /\ Plannable(Engines(reading.of) \cup {Newcomer(pass.c)})
           /\ CarryOut(PlanKVLimits(Engines(reading.of) \cup {Newcomer(pass.c)}), "placement", reading)
  <2>1. Accounted
    BY <1>3, <1>6, JudgeableFacts DEF Admissible
  <2>2. PICK es, p, c, r : /\ es = Engines(reading.of) \cup {Newcomer(pass.c)} /\ p = PlanKVLimits(es)
                           /\ c = pass.c /\ r = reading.of
    OBVIOUS
  <2>3. es # {}
    BY <2>2
  <2>4. PlanFits(p)
    BY <1>0, <1>3, <1>4, <1>6, <2>2, <2>3, PlanMadeFits
  <2>5. PassInv'
    BY <1>0, <1>3, <1>4, <1>6, <2>1, <2>2, <2>4, CarryOutMemory
  <2> QED BY <1>1, <2>5
<1> QED BY <1>2, <1>5, <1>6

(* A card is divided, or left alone. *)
LEMMA DivideMemory ==
  ASSUME AInv, AInv', WorldInv, PassInv, Divide
  PROVE  WorldInv' /\ PassInv'
<1>0. /\ pass.pc = "divide" /\ pass.c \in Claims
      /\ claim' = claim /\ engine' = engine /\ route' = route /\ load' = load
  BY PassFacts DEF Divide, At, world
<1>1. WorldInv'
  BY <1>0, WorldSame
<1>2. PICK reading \in Readings :
        /\ Reads(reading)
        /\ \/ pass' = Idle
           \/ /\ reading.kind = "read" /\ Judgeable(reading.of) /\ Engines(reading.of) # {}
              /\ Plannable(Engines(reading.of))
              /\ CarryOut(PlanKVLimits(Engines(reading.of)), Why, reading)
  BY DEF Divide, EndPass
<1>3. /\ reading \in ReadingType /\ reading.of \in [Claims -> ObservedType]
      /\ reading.kind = "read" => TrueOf(reading.of)
  BY <1>2, ReadingTrue DEF WorldInv, PassInv
<1>4. CASE pass' = Idle
  BY <1>1, <1>4, PassRests
<1>5. CASE /\ reading.kind = "read" /\ Judgeable(reading.of) /\ Engines(reading.of) # {}
           /\ Plannable(Engines(reading.of))
           /\ CarryOut(PlanKVLimits(Engines(reading.of)), Why, reading)
  <2>1. Accounted
    BY <1>3, <1>5, JudgeableFacts
  <2>2. PICK es, p, w, r : /\ es = Engines(reading.of) /\ p = PlanKVLimits(es)
                           /\ w = Why /\ r = reading.of
    OBVIOUS
  <2>3. w \in {"first", "changed", "load"}
    BY <2>2 DEF Why
  <2>4. PlanFits(p)
    BY <1>0, <1>3, <1>5, <2>2, PlanMadeFits
  <2>5. PassInv'
    BY <1>0, <1>3, <1>5, <2>1, <2>2, <2>3, <2>4, CarryOutMemory
  <2> QED BY <1>1, <2>5
<1> QED BY <1>2, <1>4, <1>5

-----------------------------------------------------------------------------
(* The ends of a plan. *)

(* A plan that ends leaves the pass with the reading it is given. *)
LEMMA ArrangeDetail ==
  ASSUME AInv, pass.pc \in Carrying, NEW reading \in ReadingType,
         ArrangeFailed(reading) \/ \E grown \in BOOLEAN : ArrangeDone(reading, grown)
  PROVE  /\ GivesUp \/ MakesRoom
         /\ pass' = Idle \/ (pass'.reading = reading /\ pass'.want = pass.want)
<1>1. GivesUp \/ MakesRoom
  BY ArrangeFailedFacts, ArrangeDoneFacts
<1>2. pass \in PassType
  BY DEF AInv, PassOK
<1>3. \/ pass' = Idle
      \/ \E pc, inst : pass' = [Settled EXCEPT !.pc = pc, !.reading = reading, !.inst = inst]
      \/ \E pc : pass' = [Settled EXCEPT !.pc = pc, !.reading = reading]
  BY DEF ArrangeFailed, ArrangeDone, EndPass
<1>4. pass' = Idle \/ (pass'.reading = reading /\ pass'.want = pass.want)
  BY <1>2, <1>3 DEF Settled, PassType
<1> QED BY <1>1, <1>4

(* The pass that made the plan goes on to its reservation, to its status, or ends. *)
LEMMA ArrangeEnds ==
  ASSUME AInv, PassInv, GivesUp \/ MakesRoom, NEW reading,
         pass' = Idle \/ (pass'.reading = reading /\ pass'.want = pass.want),
         reading.kind = "read" => TrueOf(reading.of)', Accounted',
         \A d \in Served' : d \in Served
  PROVE  PassInv'
<1>1. CASE pass' = Idle
  BY <1>1, PassRests
<1>2. CASE pass' # Idle
  <2>1. /\ pass'.pc \in {"status", "reserve"} /\ PlacingAt(pass) /\ pass'.c = pass.c
        /\ pass'.inst.phase # "failed" /\ (pass'.pc = "status" => pass'.inst = NoInst)
    <3>1. CASE GivesUp
      <4>1. NoInst.phase = "none"
        BY DEF NoInst
      <4> QED BY <1>2, <3>1, <4>1 DEF GivesUp, PlacingAt
    <3>2. CASE MakesRoom
      <4>1. pass'.inst.phase = "activating"
        BY <3>2 DEF MakesRoom, Instance
      <4> QED BY <3>2, <4>1 DEF MakesRoom, PlacingAt
    <3> QED BY <3>1, <3>2
  <2>2. pass'.c \notin Served' /\ pass'.reading = reading /\ pass'.want # "failed"
    BY <1>2, <2>1 DEF PassInv, CopyInv
  <2>3. CopyInv'
    BY <2>1, <2>2 DEF CopyInv, PlacingAt, Carrying, Judging, Deleting
  <2>4. ReadInv' /\ FitsPlan' /\ AllCharged'
    BY <2>1, <2>2 DEF ReadInv, FitsPlan, AllCharged, Carrying, Deleting
  <2> QED BY <2>3, <2>4 DEF PassInv
<1> QED BY <1>1, <1>2

(* A plan has one limit for an engine that is on the card. *)
LEMMA OneLimit ==
  ASSUME AInv, pass.pc \in Carrying, NEW l \in pass.plan, NEW m \in pass.plan,
         l.e.c = m.e.c, ~l.e.new, ~m.e.new
  PROVE  l = m
<1>1. l.e.new \in BOOLEAN /\ m.e.new \in BOOLEAN
  BY PassFacts DEF LimitType, EntryType
<1>2. l.e.new = m.e.new
  BY <1>1
<1>3. PlanOK(pass.plan)
  BY DEF AInv, CarryOK
<1> QED BY <1>2, <1>3 DEF PlanOK

(* Until the records are written, an engine that is shrunk has the record the plan
   was made from. *)
LEMMA ShrinkRecords ==
  ASSUME AInv, BInv, FitsPlan, pass.pc \in {"shrink", "confirm"}
  PROVE  \A l \in Shrinks(pass.plan) :
           /\ l \in pass.plan /\ l \in LimitType /\ l.e.c \in Claims /\ ~l.e.new
           /\ claim[l.e.c].inst # NoInst => claim[l.e.c].inst.kv = l.e.rec
<1>1. pass.plan \subseteq LimitType /\ Matches(claim, pass.plan, pass.plan)
  BY PassFacts DEF BInv, RecordInv, UnrecordedAt, Carrying
<1>2. SUFFICES ASSUME NEW l \in Shrinks(pass.plan)
      PROVE  /\ l \in pass.plan /\ l \in LimitType /\ l.e.c \in Claims /\ ~l.e.new
             /\ claim[l.e.c].inst # NoInst => claim[l.e.c].inst.kv = l.e.rec
  OBVIOUS
<1>3. l \in pass.plan /\ l.e.cap >= 0
  BY DEF Shrinks
<1>4. l \in LimitType /\ l.e.c \in Claims
  BY <1>1, <1>3 DEF LimitType, EntryType
<1>5. ~l.e.new
  BY <1>3 DEF FitsPlan, Carrying, NoSegment
<1> QED BY <1>1, <1>3, <1>4, <1>5 DEF Matches

(* The shrinks are read back. *)
LEMMA ConfirmShrinkMemory ==
  ASSUME AInv, AInv', BInv, WorldInv, PassInv, ConfirmShrink
  PROVE  WorldInv' /\ PassInv'
<1>0. /\ pass.pc = "confirm" /\ pass \in PassType
      /\ claim' = claim /\ engine' = engine /\ route' = route /\ load' = load
  BY DEF ConfirmShrink, At, world, AInv, PassOK
<1>1. WorldInv'
  BY <1>0, WorldSame
<1>2. /\ pass.done = Shrinks(pass.plan) /\ pass.reading = NoReading /\ Accounted
  BY <1>0 DEF PassInv, FitsPlan, ReadInv, AllCharged, Carrying
<1>3. \A l \in Shrinks(pass.plan) :
        /\ l \in pass.plan /\ l \in LimitType /\ l.e.c \in Claims /\ ~l.e.new
        /\ claim[l.e.c].inst # NoInst => claim[l.e.c].inst.kv = l.e.rec
  BY <1>0, ShrinkRecords DEF PassInv
<1>4. PICK reading \in Readings :
        /\ Reads(reading)
        /\ pass' = IF reading.kind = "read" /\ Confirmed(reading.of, pass.done)
                   THEN [pass EXCEPT !.pc = "record", !.todo = pass.plan,
                                     !.done = {}, !.reading = reading]
                   ELSE [pass EXCEPT !.pc = "back", !.todo = pass.done, !.done = {}]
  BY DEF ConfirmShrink
<1>5. /\ reading.kind = "read" => TrueOf(reading.of)
      /\ reading.kind = "read" => reading.of = Snapshot
  BY <1>2, <1>4, ReadingTrue DEF WorldInv, PassInv
<1>6. /\ pass'.c = pass.c /\ pass'.want = pass.want /\ pass'.inst = pass.inst
      /\ pass'.plan = pass.plan /\ pass'.why = pass.why
      /\ \/ pass'.pc = "record" /\ pass'.reading = reading
            /\ reading.kind = "read" /\ Confirmed(reading.of, pass.done)
         \/ pass'.pc = "back" /\ pass'.todo = pass.done /\ pass'.reading = NoReading
  BY <1>0, <1>2, <1>4 DEF PassType
<1>7. CopyInv'
  BY <1>0, <1>6, WorldSame DEF PassInv, CopyInv, PlacingAt, Judging, Deleting, Carrying
<1>8. ReadInv'
  <2>1. NoReading.kind = "none"
    BY DEF NoReading
  <2> QED BY <1>0, <1>5, <1>6, <2>1, WorldSame DEF ReadInv, Deleting
<1>9. AllCharged'
  BY <1>0, <1>2, WorldSame DEF AllCharged
<1>10. FitsPlan'
  <2>1. \A l \in pass.plan : /\ l.e.new => l.e.cap = NoSegment /\ claim'[l.e.c].inst = NoInst
                             /\ l.e.c \in Mapping' => ~l.e.new /\ 0 <= l.e.cap /\ l.e.cap <= l.e.rec
    BY <1>0, WorldSame DEF PassInv, FitsPlan, Carrying
  <2>2. ASSUME pass'.pc = "record", NEW l \in pass.plan PROVE Within(l.e.c, l.limit)'
    <3>1. CASE l \notin Shrinks(pass.plan)
      BY <1>0, <3>1, WorldSame DEF PassInv, FitsPlan
    <3>2. CASE l \in Shrinks(pass.plan)
      <4>1. Snapshot[l.e.c].cap = l.limit /\ Snapshot[l.e.c].used <= l.limit
        BY <1>2, <1>5, <1>6, <2>2, <3>2 DEF Confirmed
      <4>2. engine[l.e.c].cap = l.limit /\ engine[l.e.c].used <= l.limit
        BY <1>3, <3>2, <4>1, SnapshotTrue DEF WorldInv
      <4>3. l.limit \in Nat
        BY <1>3, <3>2, Constants DEF LimitType
      <4>4. Within(l.e.c, l.limit)
        BY <4>2, <4>3 DEF Within
      <4> QED BY <1>0, <4>4, WorldSame
    <3> QED BY <3>1, <3>2
  <2>3. pass'.pc = "back" => \A l \in pass'.todo : claim'[l.e.c].inst # NoInst => claim'[l.e.c].inst.kv = l.e.rec
    BY <1>0, <1>2, <1>3, <1>6
  <2> QED BY <1>6, <2>1, <2>2, <2>3 DEF FitsPlan
<1> QED BY <1>1, <1>7, <1>8, <1>9, <1>10 DEF PassInv

(* The grown engines are read back. *)
LEMMA ConfirmGrowMemory ==
  ASSUME AInv, AInv', WorldInv, PassInv, ConfirmGrow
  PROVE  WorldInv' /\ PassInv'
<1>0. /\ pass.pc = "confirmGrow" /\ pass.pc \in Carrying
      /\ claim' = claim /\ engine' = engine /\ route' = route /\ load' = load
  BY DEF ConfirmGrow, At, world, Carrying
<1>1. WorldInv'
  BY <1>0, WorldSame
<1>2. PICK reading \in Readings :
        /\ Reads(reading)
        /\ IF reading.kind = "read"
           THEN ArrangeDone(reading, Confirmed(reading.of, Grows(pass.plan)))
           ELSE ArrangeDone(NoReading, FALSE)
  BY DEF ConfirmGrow
<1>3. reading \in ReadingType /\ (reading.kind = "read" => TrueOf(reading.of))
  BY <1>2, ReadingTrue DEF WorldInv, PassInv
<1>4. PICK rd \in ReadingType : /\ \E grown \in BOOLEAN : ArrangeDone(rd, grown)
                                /\ rd.kind = "read" => TrueOf(rd.of)
  <2>1. Confirmed(reading.of, Grows(pass.plan)) \in BOOLEAN
    BY DEF Confirmed
  <2>2. NoReading.kind = "none"
    BY DEF NoReading
  <2>3. CASE reading.kind = "read"
    <3>1. \E grown \in BOOLEAN : ArrangeDone(reading, grown)
      BY <1>2, <2>1, <2>3
    <3> QED BY <1>3, <3>1
  <2>4. CASE reading.kind # "read"
    <3>1. \E grown \in BOOLEAN : ArrangeDone(NoReading, grown)
      BY <1>2, <2>4
    <3> QED BY <2>2, <3>1, NoReadingFacts
  <2> QED BY <2>3, <2>4
<1>5. /\ GivesUp \/ MakesRoom
      /\ pass' = Idle \/ (pass'.reading = rd /\ pass'.want = pass.want)
  BY <1>0, <1>4, ArrangeDetail
<1>6. Accounted
  BY <1>0 DEF PassInv, AllCharged
<1>7. PassInv'
  BY <1>0, <1>4, <1>5, <1>6, ArrangeEnds, WorldSame
<1> QED BY <1>1, <1>7

-----------------------------------------------------------------------------
(* Limits that are set. *)

(* A limit that is set: no engine changes but c, and c in its limit only, to no more
   than the one asked for. *)
SetTo(c, limit) ==
  /\ \A d \in Claims : /\ engine'[d].phase = engine[d].phase /\ engine'[d].used = engine[d].used
                       /\ d # c => engine'[d].cap = engine[d].cap
  /\ \/ engine'[c].cap = engine[c].cap
     \/ engine'[c].cap >= 0 /\ engine'[c].cap <= limit

(* The runtime takes the limit, or does not. *)
LEMMA SetToFacts ==
  ASSUME AInv, NEW c \in Claims, NEW limit \in Nat, NEW answer, SetKVLimit(c, limit, answer)
  PROVE  SetTo(c, limit)
<1>1. engine \in [Claims -> EngineType]
  BY StateFacts
<1>2. engine' = engine \/ engine' = [engine EXCEPT ![c].cap = Clamp(limit, Ceiling(engine[c]))]
  BY DEF SetKVLimit, Limited
<1>3. Clamp(limit, Ceiling(engine[c])) >= 0 /\ Clamp(limit, Ceiling(engine[c])) <= limit
  <2>1. Ceiling(engine[c]) \in {-1, Startup}
    BY DEF Ceiling
  <2> QED BY <2>1, Constants DEF Clamp
<1>4. CASE engine' = engine
  BY <1>4 DEF SetTo
<1>5. CASE engine' = [engine EXCEPT ![c].cap = Clamp(limit, Ceiling(engine[c]))]
  <2>1. engine'[c] = [engine[c] EXCEPT !.cap = Clamp(limit, Ceiling(engine[c]))]
        /\ \A d \in Claims \ {c} : engine'[d] = engine[d]
    BY <1>1, <1>5
  <2>2. /\ engine'[c].phase = engine[c].phase /\ engine'[c].used = engine[c].used
        /\ engine'[c].cap = Clamp(limit, Ceiling(engine[c]))
    BY <1>1, <2>1 DEF EngineType
  <2> QED BY <1>3, <2>1, <2>2 DEF SetTo
<1> QED BY <1>2, <1>4, <1>5

(* A limit that is within the record of the engine keeps the memory of the card, and
   an engine stays within what is no less than the limit. *)
LEMMA LimitStep ==
  ASSUME AInv, AInv', WorldInv, NEW c \in Claims, NEW limit \in Nat, SetTo(c, limit),
         claim' = claim, route' = route, load' = load,
         c \in Mapping => limit <= claim[c].inst.kv
  PROVE  /\ WorldInv' /\ Served' = Served /\ Mapping' = Mapping
         /\ Accounted => Accounted'
         /\ \A d \in Claims, n \in Nat :
              Within(d, n) /\ (d = c /\ c \in Mapping => limit <= n) => Within(d, n)'
<1>0. /\ \A d \in Claims : /\ engine[d].used \in Nat /\ engine[d].cap \in Int
                           /\ engine'[d].used \in Nat /\ engine'[d].cap \in Int
                           /\ claim[d].inst.kv \in Nat
      /\ \A d \in Served : d \in Claims
  BY StateFacts, StateFactsNext DEF Served
<1>1. Served' = Served
  BY DEF Served
<1>2. Mapping' = Mapping
  BY <1>0, <1>1 DEF Mapping, SetTo
<1>3. Accounted => Accounted'
  BY DEF Accounted, SetTo
<1>4. ASSUME NEW d \in Claims, NEW n \in Nat, Within(d, n), d = c /\ c \in Mapping => limit <= n
      PROVE  Within(d, n)'
  <2>1. engine'[d].used <= n
    BY <1>4 DEF Within, SetTo
  <2>2. d \in Mapping => engine'[d].cap <= n
    <3>1. CASE d # c
      BY <1>4, <3>1 DEF Within, SetTo
    <3>2. CASE d = c
      BY <1>0, <1>4, <3>2 DEF Within, SetTo
    <3> QED BY <3>1, <3>2
  <2> QED BY <1>2, <2>1, <2>2 DEF Within
<1>5. PhaseInv'
  BY <1>0 DEF WorldInv, PhaseInv, SetTo
<1>6. ServedInv'
  <2>1. \A d \in Served' :
          \/ engine'[d].phase = "active" /\ claim'[d].inst # NoInst
          \/ claim'[d].life \in {"deleted", "gone"} /\ ~Up(engine', d)
    BY <1>0, <1>1 DEF WorldInv, ServedInv, Up, SetTo
  <2>2. ASSUME NEW d \in Claims
        PROVE  /\ engine'[d].used > 0 => d \in load'
               /\ claim'[d].inst # NoInst => Within(d, claim[d].inst.kv)'
    <3>1. engine'[d].used > 0 => d \in load'
      BY DEF WorldInv, ServedInv, SetTo
    <3>2. claim[d].inst # NoInst => Within(d, claim[d].inst.kv)
      BY DEF WorldInv, ServedInv
    <3>3. PICK k \in Nat : k = claim[d].inst.kv
      BY <1>0
    <3>4. claim[d].inst # NoInst => Within(d, k)'
      BY <1>4, <3>2, <3>3
    <3> QED BY <3>1, <3>3, <3>4 DEF Within
  <2> QED BY <2>1, <2>2 DEF ServedInv
<1>7. Taken(claim', engine') <= Card
  <2>1. \A d \in Claims : Takes(claim', engine')[d] = Takes(claim, engine)[d]
    BY DEF Takes, SetTo
  <2>2. \A d \in Claims : Takes(claim, engine)[d] \in Nat
    BY StateFacts, TakesNat
  <2>3. \A d \in Claims : Takes(claim', engine')[d] <= Takes(claim, engine)[d]
    BY <2>1, <2>2
  <2> QED BY <2>3, StateFacts, StateFactsNext, TakenLess DEF WorldInv
<1> QED BY <1>1, <1>2, <1>3, <1>4, <1>5, <1>6, <1>7 DEF WorldInv

(* A step of a plan that keeps its pass placing or dividing, with a reading that is
   still true or without one. *)
LEMMA CarriesOn ==
  ASSUME PassInv, pass.pc \in Carrying, pass'.pc \in Carrying, pass'.why = pass.why, pass'.c = pass.c,
         pass'.inst = pass.inst, pass'.want = pass.want,
         \/ pass'.reading = NoReading
         \/ /\ pass'.pc \notin {"confirm", "back", "confirmGrow"}
            /\ pass'.reading.kind = "read" => TrueOf(pass.reading.of)',
         Served' = Served, Accounted', FitsPlan'
  PROVE  PassInv'
<1>1. CopyInv'
  BY DEF PassInv, CopyInv, PlacingAt, Judging, Deleting, Carrying
<1>2. ReadInv'
  <2>1. NoReading.kind = "none"
    BY DEF NoReading
  <2> QED BY <2>1 DEF ReadInv, Carrying, Deleting
<1>3. AllCharged'
  BY DEF AllCharged
<1> QED BY <1>1, <1>2, <1>3 DEF PassInv

(* A plan shrinks an engine. *)
LEMMA ShrinkMemory ==
  ASSUME AInv, AInv', BInv, WorldInv, PassInv, Shrink
  PROVE  WorldInv' /\ PassInv'
<1>0. /\ pass.pc = "shrink" /\ pass.pc \in Carrying /\ pass \in PassType
      /\ claim' = claim /\ route' = route /\ load' = load
      /\ pass.plan \subseteq LimitType /\ pass.todo \subseteq LimitType
      /\ pass.todo # {} /\ pass.todo \subseteq pass.plan /\ pass.done \subseteq pass.plan
  BY PassFacts DEF Shrink, At, AInv, PassOK, CarryOK, Carrying
<1>1. PICK answer \in {"ok", "error"}, l \in {First(pass.todo)} :
        /\ SetKVLimit(l.e.c, l.limit, answer)
        /\ pass' = IF answer = "error"
                   THEN [pass EXCEPT !.pc = "back", !.todo = pass.done, !.done = {},
                                     !.reading = NoReading]
                   ELSE [pass EXCEPT !.pc = IF pass.todo = {l} THEN "confirm" ELSE "shrink",
                                     !.done = @ \cup {l}, !.todo = @ \ {l},
                                     !.reading = NoReading]
  BY DEF Shrink
<1>2. /\ pass.done \cup pass.todo = Shrinks(pass.plan)
      /\ l \in pass.todo /\ l \in Shrinks(pass.plan) /\ l \in pass.plan
  BY <1>0, <1>1, FirstFacts DEF PassInv, FitsPlan
<1>3. \A m \in Shrinks(pass.plan) :
        /\ m \in pass.plan /\ m \in LimitType /\ m.e.c \in Claims /\ ~m.e.new
        /\ claim[m.e.c].inst # NoInst => claim[m.e.c].inst.kv = m.e.rec
  BY <1>0, ShrinkRecords DEF PassInv
<1>4. PICK c \in Claims, limit \in Nat : c = l.e.c /\ limit = l.limit
  BY <1>2, <1>3, Constants DEF LimitType
<1>5. /\ l.e.cap \in Int /\ l.e.rec \in Int /\ limit < l.e.cap
      /\ c \in Mapping => l.e.cap <= l.e.rec /\ claim[c].inst # NoInst
  <2>1. l.e.cap \in Int /\ l.e.rec \in Int
    BY <1>2, <1>3, Constants DEF LimitType, EntryType, NoSegment
  <2>2. limit < l.e.cap
    BY <1>2, <1>4 DEF Shrinks
  <2>3. c \in Mapping => l.e.cap <= l.e.rec
    BY <1>0, <1>2, <1>4 DEF PassInv, FitsPlan
  <2>4. c \in Mapping => claim[c].inst # NoInst
    BY DEF WorldInv, ServedInv, Mapping, Up
  <2> QED BY <2>1, <2>2, <2>3, <2>4
<1>6. c \in Mapping => limit <= claim[c].inst.kv
  BY <1>2, <1>3, <1>4, <1>5
<1>7. SetTo(c, limit)
  BY <1>1, <1>4, SetToFacts
<1>8. /\ WorldInv' /\ Served' = Served /\ Mapping' = Mapping
      /\ Accounted => Accounted'
      /\ \A d \in Claims, n \in Nat :
           Within(d, n) /\ (d = c /\ c \in Mapping => limit <= n) => Within(d, n)'
  BY <1>0, <1>6, <1>7, LimitStep
<1>9. /\ pass'.c = pass.c /\ pass'.want = pass.want /\ pass'.inst = pass.inst
      /\ pass'.plan = pass.plan /\ pass'.why = pass.why /\ pass'.reading = NoReading
      /\ \/ pass'.pc = "back" /\ pass'.todo = pass.done
         \/ /\ pass'.pc = IF pass.todo = {l} THEN "confirm" ELSE "shrink"
            /\ pass'.done = pass.done \cup {l} /\ pass'.todo = pass.todo \ {l}
  BY <1>0, <1>1 DEF PassType
<1>10. FitsPlan'
  <2>1. \A m \in pass.plan : /\ m.e.new => m.e.cap = NoSegment /\ claim'[m.e.c].inst = NoInst
                             /\ m.e.c \in Mapping' => ~m.e.new /\ 0 <= m.e.cap /\ m.e.cap <= m.e.rec
    BY <1>0, <1>8 DEF PassInv, FitsPlan
  <2>2. ASSUME NEW m \in pass.plan \ Shrinks(pass.plan) PROVE Within(m.e.c, m.limit)'
    <3>1. m.e.c \in Claims /\ m.limit \in Nat
      BY <1>0, <2>2, Constants DEF LimitType, EntryType
    <3>2. Within(m.e.c, m.limit)
      BY <1>0 DEF PassInv, FitsPlan
    <3>3. m.e.c = c => c \notin Mapping
      <4>1. SUFFICES ASSUME m.e.c = c, c \in Mapping PROVE FALSE
        OBVIOUS
      <4>2. ~m.e.new
        BY <1>0, <4>1 DEF PassInv, FitsPlan
      <4>3. ~l.e.new /\ l.e.c = c
        BY <1>2, <1>3, <1>4
      <4>4. m = l
        BY <1>0, <1>2, <4>1, <4>2, <4>3, OneLimit
      <4> QED BY <1>2, <4>4
    <3> QED BY <1>8, <3>1, <3>2, <3>3
  <2>3. pass'.pc = "back" => \A m \in pass'.todo : claim'[m.e.c].inst # NoInst => claim'[m.e.c].inst.kv = m.e.rec
    BY <1>0, <1>2, <1>3, <1>9
  <2>4. /\ pass'.pc = "shrink" => pass'.done \cup pass'.todo = Shrinks(pass'.plan)
        /\ pass'.pc = "confirm" => pass'.done = Shrinks(pass'.plan)
    BY <1>2, <1>9
  <2>5. pass'.pc # "record"
    BY <1>9
  <2> QED BY <1>9, <2>1, <2>2, <2>3, <2>4, <2>5 DEF FitsPlan
<1>11. Accounted'
  BY <1>0, <1>8 DEF PassInv, AllCharged
<1>12. pass'.pc \in Carrying
  BY <1>9 DEF Carrying
<1> QED BY <1>0, <1>8, <1>9, <1>10, <1>11, <1>12, CarriesOn

(* A plan that failed gives an engine its earlier limit back. *)
LEMMA TakeBackMemory ==
  ASSUME AInv, AInv', WorldInv, PassInv, TakeBack
  PROVE  WorldInv' /\ PassInv'
<1>0. /\ pass.pc = "back" /\ pass.pc \in Carrying /\ pass \in PassType
      /\ claim' = claim /\ route' = route /\ load' = load
      /\ pass.plan \subseteq LimitType /\ pass.todo \subseteq LimitType
      /\ pass.todo \subseteq pass.plan /\ pass.reading = NoReading /\ Accounted
  <2>1. pass.pc = "back" /\ pass.pc \in Carrying
    BY DEF TakeBack, At, Carrying
  <2>2. pass.reading = NoReading /\ Accounted
    BY <2>1 DEF PassInv, ReadInv, AllCharged
  <2> QED BY <2>1, <2>2, PassFacts DEF TakeBack, AInv, PassOK, CarryOK
<1>1. CASE ArrangeFailed(NoReading) /\ engine' = engine
  <2>1. /\ GivesUp \/ MakesRoom
        /\ pass' = Idle \/ (pass'.reading = NoReading /\ pass'.want = pass.want)
    BY <1>0, <1>1, NoReadingFacts, ArrangeDetail
  <2>2. NoReading.kind = "none"
    BY DEF NoReading
  <2>3. PassInv'
    BY <1>0, <1>1, <2>1, <2>2, ArrangeEnds, WorldSame
  <2> QED BY <1>0, <1>1, <2>3, WorldSame
<1>2. CASE \E answer \in {"ok", "error"} :
             LET left == {l \in pass.todo : Before(l) > l.limit}
                 l == First(left)
             IN  /\ left # {} /\ SetKVLimit(l.e.c, Before(l), answer)
                 /\ pass' = [pass EXCEPT !.todo = IF answer = "ok" THEN left \ {l} ELSE {}]
  <2>1. PICK left, l, answer : /\ left = {x \in pass.todo : Before(x) > x.limit} /\ l = First(left)
                               /\ left # {} /\ SetKVLimit(l.e.c, Before(l), answer)
                               /\ pass' = [pass EXCEPT !.todo = IF answer = "ok" THEN left \ {l} ELSE {}]
    BY <1>2
  <2>2. left \subseteq LimitType
    BY <1>0, <2>1
  <2>3. l \in left /\ l \in LimitType /\ l \in pass.todo /\ l \in pass.plan /\ Before(l) > l.limit
    BY <1>0, <2>1, <2>2, FirstFacts
  <2>4. /\ l.e.c \in Claims /\ l.limit \in Nat /\ l.e.rec \in Nat /\ l.e.cap \in Int /\ l.e.ceiling \in {-1, Startup}
    BY <2>3, Constants DEF LimitType, EntryType, NoSegment
  <2>5. Before(l) \in Nat /\ (l.e.rec > 0 => Before(l) <= l.e.rec)
    <3>1. Before(l) \in Int /\ (l.e.rec > 0 => Before(l) <= l.e.rec)
      BY <2>4, Constants DEF Before, Clamp
    <3> QED BY <2>3, <2>4, <3>1
  <2>6. PICK c \in Claims, limit \in Nat : c = l.e.c /\ limit = Before(l)
    BY <2>4, <2>5
  <2>7. c \in Mapping => limit <= claim[c].inst.kv
    <3>1. SUFFICES ASSUME c \in Mapping PROVE limit <= claim[c].inst.kv
      OBVIOUS
    <3>2. claim[c].inst # NoInst
      BY <3>1 DEF WorldInv, ServedInv, Mapping, Up
    <3>3. claim[c].inst.kv = l.e.rec /\ claim[c].inst.kv >= 1
      BY <1>0, <2>3, <2>6, <3>2, StateFacts DEF PassInv, FitsPlan
    <3> QED BY <2>4, <2>5, <2>6, <3>3
  <2>8. SetTo(c, limit)
    BY <2>1, <2>6, SetToFacts
  <2>9. WorldInv' /\ Served' = Served /\ Mapping' = Mapping /\ (Accounted => Accounted')
    BY <1>0, <2>7, <2>8, LimitStep
  <2>10. /\ pass'.c = pass.c /\ pass'.want = pass.want /\ pass'.inst = pass.inst /\ pass'.pc = "back"
         /\ pass'.plan = pass.plan /\ pass'.why = pass.why /\ pass'.reading = NoReading
         /\ pass'.todo \subseteq pass.todo
    BY <1>0, <2>1 DEF PassType
  <2>11. FitsPlan'
    BY <1>0, <2>9, <2>10 DEF PassInv, FitsPlan, Carrying
  <2>12. pass'.pc \in Carrying
    BY <2>10 DEF Carrying
  <2> QED BY <1>0, <2>9, <2>10, <2>11, <2>12, CarriesOn
<1> QED BY <1>1, <1>2 DEF TakeBack

(* A plan grows an engine to the limit that is recorded for it by then. *)
LEMMA GrowMemory ==
  ASSUME AInv, AInv', BInv, WorldInv, PassInv, Grow
  PROVE  WorldInv' /\ PassInv'
<1>0. /\ pass.pc = "grow" /\ pass.pc \in Carrying /\ pass \in PassType
      /\ claim' = claim /\ route' = route /\ load' = load
      /\ pass.plan \subseteq LimitType /\ pass.todo \subseteq LimitType
      /\ pass.todo # {} /\ pass.todo \subseteq pass.plan
  BY PassFacts DEF Grow, At, AInv, PassOK, CarryOK, Carrying
<1>1. PICK answer \in {"ok", "error"}, l \in {First(pass.todo)} :
        /\ SetKVLimit(l.e.c, l.limit, answer)
        /\ \/ ArrangeDone(NoReading, FALSE)
           \/ pass' = [pass EXCEPT !.pc = IF pass.todo = {l} THEN "confirmGrow" ELSE "grow",
                                   !.todo = @ \ {l}, !.reading = NoReading]
  BY DEF Grow
<1>2. l \in pass.todo /\ l \in pass.plan /\ l \in LimitType
  BY <1>0, <1>1, FirstFacts
<1>3. PICK c \in Claims, limit \in Nat : c = l.e.c /\ limit = l.limit
  BY <1>2, Constants DEF LimitType, EntryType
<1>4. \A m \in pass.plan : /\ m.e.new => m.e.cap = NoSegment /\ claim[m.e.c].inst = NoInst
                           /\ m.e.c \in Mapping => ~m.e.new /\ 0 <= m.e.cap /\ m.e.cap <= m.e.rec
  BY <1>0 DEF PassInv, FitsPlan
<1>5. c \in Mapping => limit <= claim[c].inst.kv
  <2>1. SUFFICES ASSUME c \in Mapping PROVE limit <= claim[c].inst.kv
    OBVIOUS
  <2>2. claim[c].inst # NoInst
    BY <2>1 DEF WorldInv, ServedInv, Mapping, Up
  <2>3. Matches(claim, pass.plan, {})
    BY <1>0 DEF BInv, RecordInv, UnrecordedAt
  <2>4. PICK m \in pass.plan : m.e.c = c /\ claim[c].inst.kv = m.limit
    BY <1>2, <1>3, <2>2, <2>3 DEF Matches
  <2>5. ~m.e.new /\ ~l.e.new
    BY <1>2, <1>3, <1>4, <2>1, <2>4
  <2>6. m = l
    BY <1>0, <1>2, <1>3, <2>4, <2>5, OneLimit
  <2> QED BY <1>3, <2>4, <2>6
<1>6. SetTo(c, limit)
  BY <1>1, <1>3, SetToFacts
<1>7. WorldInv' /\ Served' = Served /\ Mapping' = Mapping /\ (Accounted => Accounted')
  BY <1>0, <1>5, <1>6, LimitStep
<1>8. Accounted'
  BY <1>0, <1>7 DEF PassInv, AllCharged
<1>9. CASE ArrangeDone(NoReading, FALSE)
  <2>1. \E grown \in BOOLEAN : ArrangeDone(NoReading, grown)
    BY <1>9
  <2>2. /\ GivesUp \/ MakesRoom
        /\ pass' = Idle \/ (pass'.reading = NoReading /\ pass'.want = pass.want)
    BY <1>0, <2>1, NoReadingFacts, ArrangeDetail
  <2>3. NoReading.kind = "none"
    BY DEF NoReading
  <2>4. PassInv'
    BY <1>7, <1>8, <2>2, <2>3, ArrangeEnds
  <2> QED BY <1>7, <2>4
<1>10. CASE pass' = [pass EXCEPT !.pc = IF pass.todo = {l} THEN "confirmGrow" ELSE "grow",
                                 !.todo = @ \ {l}, !.reading = NoReading]
  <2>1. /\ pass'.pc \in {"grow", "confirmGrow"} /\ pass'.plan = pass.plan /\ pass'.why = pass.why
        /\ pass'.c = pass.c /\ pass'.inst = pass.inst /\ pass'.want = pass.want
        /\ pass'.reading = NoReading
    BY <1>0, <1>10 DEF PassType
  <2>2. FitsPlan'
    BY <1>0, <1>4, <1>7, <2>1 DEF FitsPlan
  <2>3. pass'.pc \in Carrying
    BY <2>1 DEF Carrying
  <2> QED BY <1>0, <1>7, <1>8, <2>1, <2>2, <2>3, CarriesOn
<1> QED BY <1>1, <1>9, <1>10


(* What the invariants say of the engines depends on the engines and their traffic. *)
LEMMA EnginesSame ==
  ASSUME engine' = engine, route' = route, load' = load
  PROVE  /\ Served' = Served /\ Mapping' = Mapping
         /\ \A d, n : Within(d, n)' <=> Within(d, n)
         /\ \A r : TrueOf(r)' <=> TrueOf(r)
<1>1. Served' = Served /\ Mapping' = Mapping
  BY DEF Served, Mapping
<1> QED BY <1>1 DEF Within, TrueOf

(* A limit of the plan is recorded: its engine is within it. *)
LEMMA RecordMemory ==
  ASSUME AInv, AInv', BInv', WorldInv, PassInv, RecordLimit
  PROVE  WorldInv' /\ PassInv'
<1>0. /\ pass.pc = "record" /\ pass.pc \in Carrying /\ pass \in PassType
      /\ engine' = engine /\ route' = route /\ load' = load
      /\ pass.plan \subseteq LimitType /\ pass.todo \subseteq LimitType
      /\ pass.todo # {} /\ pass.todo \subseteq pass.plan /\ pass.reading \in ReadingType
  BY PassFacts DEF RecordLimit, At, world, AInv, PassOK, CarryOK, Carrying
<1>1. PICK l \in {NextRecord(pass.todo)} :
        /\ claim' \in {claim, Recorded(l)}
        /\ \/ pass' = [pass EXCEPT !.todo = @ \ {l}]
           \/ pass' = [pass EXCEPT !.pc = "grow", !.todo = Grows(pass.plan)]
           \/ ArrangeFailed(pass.reading)
           \/ \E grown \in BOOLEAN : ArrangeDone(pass.reading, grown)
  BY DEF RecordLimit
<1>2. l \in pass.plan /\ l \in LimitType
  BY <1>0, <1>1, NextRecordFacts
<1>3. PICK c \in Claims, limit \in Nat : c = l.e.c /\ limit = l.limit
  BY <1>2, Constants DEF LimitType, EntryType
<1>4. /\ \A d \in Claims : /\ claim'[d].life = claim[d].life
                           /\ claim'[d].inst.phase = claim[d].inst.phase
                           /\ claim'[d].inst = NoInst <=> claim[d].inst = NoInst
                           /\ claim'[d].inst.kv = claim[d].inst.kv
                              \/ (d = c /\ claim'[d].inst.kv = limit)
  <2>1. CASE claim' = claim
    BY <2>1
  <2>2. CASE claim' = Recorded(l)
    <3>1. \A d \in Claims : /\ claim'[d].life = claim[d].life
                            /\ claim'[d].inst.phase = claim[d].inst.phase
                            /\ claim'[d].inst = NoInst <=> claim[d].inst = NoInst
                            /\ d # c => claim'[d] = claim[d]
      BY <1>2, <1>3, <2>2, RecordedFacts
    <3>2. claim'[c].inst.kv = claim[c].inst.kv \/ claim'[c].inst.kv = limit
      <4>1. CASE claim[c].inst = NoInst
        BY <1>2, <1>3, <2>2, <4>1, RecordedFacts
      <4>2. CASE claim[c].inst # NoInst
        <5>1. claim'[c] = [life |-> claim[c].life,
                           inst |-> [phase |-> claim[c].inst.phase, kv |-> limit]]
          BY <1>2, <1>3, <2>2, <4>2, RecordedFacts
        <5> QED BY <5>1
      <4> QED BY <4>1, <4>2
    <3> QED BY <3>1, <3>2
  <2> QED BY <1>1, <2>1, <2>2
<1>5. /\ Served' = Served /\ Mapping' = Mapping
      /\ \A d, n : Within(d, n)' <=> Within(d, n)
      /\ \A r : TrueOf(r)' <=> TrueOf(r)
  BY <1>0, EnginesSame
<1>6. Accounted'
  BY <1>0, <1>4 DEF PassInv, AllCharged, Accounted
<1>7. PhaseInv'
  BY <1>0, <1>4 DEF WorldInv, PhaseInv
<1>8. ServedInv'
  <2>1. \A d \in Served' :
          \/ engine'[d].phase = "active" /\ claim'[d].inst # NoInst
          \/ claim'[d].life \in {"deleted", "gone"} /\ ~Up(engine', d)
    <3>1. Served \subseteq Claims
      BY StateFacts DEF Served
    <3> QED BY <1>0, <1>4, <1>5, <3>1 DEF WorldInv, ServedInv
  <2>2. ASSUME NEW d \in Claims
        PROVE  /\ engine'[d].used > 0 => d \in load'
               /\ claim'[d].inst # NoInst => Within(d, claim[d].inst.kv)'
    <3>1. engine'[d].used > 0 => d \in load'
      BY <1>0 DEF WorldInv, ServedInv
    <3>2. ASSUME claim'[d].inst # NoInst PROVE Within(d, claim'[d].inst.kv)
      <4>1. claim[d].inst # NoInst
        BY <1>4, <3>2
      <4>2. CASE claim'[d].inst.kv = claim[d].inst.kv
        BY <4>1, <4>2 DEF WorldInv, ServedInv
      <4>3. CASE d = c /\ claim'[d].inst.kv = limit
        BY <1>0, <1>2, <1>3, <4>3 DEF PassInv, FitsPlan
      <4> QED BY <1>4, <4>2, <4>3
    <3> QED BY <1>0, <1>5, <3>1, <3>2 DEF Within
  <2> QED BY <2>1, <2>2 DEF ServedInv
<1>9. Taken(claim', engine') <= Card
  <2>1. /\ claim' \in [Claims -> ClaimType] /\ engine' \in [Claims -> EngineType]
    BY StateFactsNext
  <2>2. /\ \A d \in Claims : claim'[d].inst = NoInst => engine'[d].phase = "none"
        /\ \A d \in Claims : claim'[d].inst.phase # "failed"
        /\ RecordTotal(claim') <= Card
    BY <1>6, <1>7 DEF Accounted, PhaseInv, BInv
  <2>3. PICK cl, en : cl = claim' /\ en = engine'
    OBVIOUS
  <2> QED BY <2>1, <2>2, <2>3, TakenCharged
<1>10. pass.reading.kind = "read" => TrueOf(pass.reading.of)
  BY DEF PassInv, ReadInv
<1>11. CASE \/ pass' = [pass EXCEPT !.todo = @ \ {l}]
            \/ pass' = [pass EXCEPT !.pc = "grow", !.todo = Grows(pass.plan)]
  <2>1. /\ pass'.pc \in {"record", "grow"} /\ pass'.plan = pass.plan /\ pass'.why = pass.why
        /\ pass'.c = pass.c /\ pass'.inst = pass.inst /\ pass'.want = pass.want
        /\ pass'.reading = pass.reading
    BY <1>0, <1>11 DEF PassType
  <2>2. FitsPlan'
    <3>1. \A m \in pass.plan : m.e.c \in Claims
      BY <1>0 DEF LimitType, EntryType
    <3>2. \A m \in pass.plan : /\ m.e.new => m.e.cap = NoSegment /\ claim'[m.e.c].inst = NoInst
                               /\ m.e.c \in Mapping' => ~m.e.new /\ 0 <= m.e.cap /\ m.e.cap <= m.e.rec
                               /\ Within(m.e.c, m.limit)'
      BY <1>0, <1>4, <1>5, <3>1 DEF PassInv, FitsPlan
    <3> QED BY <2>1, <3>2 DEF FitsPlan
  <2>3. pass'.pc \in Carrying
    BY <2>1 DEF Carrying
  <2>4. pass'.reading.kind = "read" => TrueOf(pass.reading.of)'
    BY <1>5, <1>10, <2>1 DEF TrueOf
  <2>5. PassInv'
    BY <1>0, <1>5, <1>6, <2>1, <2>2, <2>3, <2>4, CarriesOn
  <2> QED BY <1>7, <1>8, <1>9, <2>5 DEF WorldInv
<1>12. CASE ArrangeFailed(pass.reading) \/ \E grown \in BOOLEAN : ArrangeDone(pass.reading, grown)
  <2>1. PICK rd \in ReadingType : rd = pass.reading
    BY <1>0
  <2>2. /\ GivesUp \/ MakesRoom
        /\ pass' = Idle \/ (pass'.reading = rd /\ pass'.want = pass.want)
    BY <1>0, <1>12, <2>1, ArrangeDetail
  <2>3. rd.kind = "read" => TrueOf(rd.of)'
    BY <1>5, <1>10, <2>1
  <2>4. PassInv'
    BY <1>5, <1>6, <2>2, <2>3, ArrangeEnds
  <2> QED BY <1>7, <1>8, <1>9, <2>4 DEF WorldInv
<1> QED BY <1>1, <1>11, <1>12


-----------------------------------------------------------------------------
(* The health check. *)

(* A judged record is the copy's, the claim's, or one the engine is within. *)
LEMMA JudgedWithin ==
  ASSUME NEW inst, NEW o, NEW fresh
  PROVE  LET kv == JudgedRecord(inst, o, fresh)
         IN  kv \in {fresh, inst.kv} \/ (o.cap <= kv /\ o.used <= kv)
BY DEF JudgedRecord

(* An engine that is to be routed serves, and is held to no more than its record. *)
LEMMA DesiredFacts ==
  ASSUME NEW inst \in Instances, inst # NoInst, NEW o \in ObservedType,
         inst.phase # "failed", o.phase # "failed"
  PROVE  /\ DesiredInstanceState(inst, o) # "failed"
         /\ DesiredInstanceState(inst, o) = "active" =>
              o.phase = "active" /\ o.cap <= inst.kv /\ ~MustHold(inst, o)
<1>1. inst.kv \in 1..Card /\ Card \in Nat /\ Startup \in Nat /\ Ceiling(o) \in {-1, Startup}
  BY Constants DEF Instances, Ceiling
<1>2. Clamp(inst.kv, Ceiling(o)) <= inst.kv
  BY <1>1 DEF Clamp
<1>3. o.cap \in Int /\ Clamp(inst.kv, Ceiling(o)) \in Int
  BY <1>1, Constants DEF ObservedType, NoSegment, Clamp
<1>4. ASSUME DesiredInstanceState(inst, o) = "active"
      PROVE  o.phase = "active" /\ o.cap <= inst.kv /\ ~MustHold(inst, o)
  <2>1. /\ o.phase = "active"
        /\ \/ KVLimitInForce(inst.kv, o)
           \/ inst.phase = "active" /\ KVLimitWithinRecord(inst.kv, o)
    BY <1>4 DEF DesiredInstanceState
  <2>2. o.cap <= inst.kv
    BY <1>1, <1>2, <1>3, <2>1 DEF KVLimitInForce, KVLimitWithinRecord
  <2>3. ~MustHold(inst, o)
    BY <2>1 DEF MustHold
  <2> QED BY <2>1, <2>2, <2>3
<1> QED BY <1>4 DEF DesiredInstanceState

(* The instance of the pass is judged by what the runtime answers now. *)
LEMMA JudgeMemory ==
  ASSUME AInv, AnswerInv, Calm, WorldInv, PassInv,
         claim' = claim, engine' = engine, route' = route, load' = load,
         pass.pc \in {"health", "readback"}, NEW reading \in ReadingType, reading.of = Snapshot,
         NEW mayHold \in BOOLEAN, Judge(reading, FreshRecord, mayHold)
  PROVE  PassInv'
<1>0. /\ pass \in PassType /\ pass.c \in Claims /\ pass.inst \in Instances /\ pass.inst # NoInst
      /\ pass.base.inst # NoInst /\ claim[pass.c].inst = pass.base.inst
      /\ pass.inst.kv <= pass.base.inst.kv /\ pass.inst.phase # "failed"
  <2>1. pass.pc \in Judging
    BY DEF Judging
  <2> QED BY <2>1, PassFacts DEF AInv, PassOK, StageOK, AnswerInv, Calm, PassInv, CopyInv
<1>1. PICK c \in Claims : c = pass.c
  BY <1>0
<1>2. PICK o \in ObservedType : /\ o = reading.of[pass.c]
                                /\ o.phase = engine[c].phase /\ o.cap = engine[c].cap
                                /\ o.used = engine[c].used
  <2>1. reading.of[c] \in ObservedType
    BY DEF ReadingType
  <2>2. /\ Snapshot[c].phase = engine[c].phase /\ Snapshot[c].cap = engine[c].cap
        /\ Snapshot[c].used = engine[c].used
    BY SnapshotTrue DEF WorldInv
  <2> QED BY <1>1, <2>1, <2>2
<1>3. PICK fresh \in 1..Card : fresh = FreshRecord /\ fresh = claim[c].inst.kv
  BY <1>0, <1>1, StateFacts DEF FreshRecord, Instances
<1>4. pass.inst.kv \in 1..Card /\ pass.inst.phase \in {"activating", "active"}
  BY <1>0 DEF Instances
<1>5. PICK kv \in 1..Card : /\ kv = JudgedRecord(pass.inst, o, fresh)
                            /\ kv <= pass.inst.kv \/ kv <= fresh
                            /\ kv \in {fresh, pass.inst.kv} \/ (o.cap <= kv /\ o.used <= kv)
  BY <1>0, JudgedFacts, JudgedWithin
<1>6. PICK inst : inst = [phase |-> pass.inst.phase, kv |-> kv]
  OBVIOUS
<1>7. inst = [pass.inst EXCEPT !.kv = JudgedRecord(pass.inst, reading.of[pass.c], FreshRecord)]
  BY <1>0, <1>2, <1>3, <1>5, <1>6 DEF Instances
<1>8. inst \in Instances /\ inst # NoInst /\ inst.phase = pass.inst.phase /\ inst.kv = kv
  BY <1>4, <1>6 DEF Instances, NoInst
<1>9. PICK want : want = DesiredInstanceState(inst, o)
  OBVIOUS
<1>10. /\ want # "failed"
       /\ want = "active" => o.phase = "active" /\ o.cap <= kv /\ ~MustHold(inst, o)
  <2>1. o.phase # "failed"
    BY <1>2 DEF WorldInv, PhaseInv
  <2> QED BY <1>0, <1>8, <1>9, <2>1, DesiredFacts
<1>11. pass' = [pass EXCEPT !.pc = IF mayHold /\ MustHold(inst, o) THEN "hold" ELSE "route",
                            !.inst = inst, !.want = want, !.reading = reading]
  BY <1>2, <1>7, <1>9 DEF Judge
<1>12. /\ pass'.pc = IF mayHold /\ MustHold(inst, o) THEN "hold" ELSE "route"
       /\ pass'.c = c /\ pass'.inst = inst /\ pass'.want = want
       /\ pass'.base = pass.base /\ pass'.reading = reading
  BY <1>0, <1>1, <1>11 DEF PassType
<1>13. c \in Served => engine[c].phase = "active" /\ Within(c, kv)
  <2>1. SUFFICES ASSUME c \in Served PROVE engine[c].phase = "active" /\ Within(c, kv)
    OBVIOUS
  <2>2. engine[c].phase = "active" /\ Within(c, pass.inst.kv)
    BY <1>1, <2>1 DEF PassInv, CopyInv, Judging
  <2>3. Within(c, fresh)
    BY <1>0, <1>1, <1>3 DEF WorldInv, ServedInv
  <2>4. CASE o.cap <= kv /\ o.used <= kv
    BY <1>2, <2>2, <2>4 DEF Within
  <2> QED BY <1>5, <2>2, <2>3, <2>4
<1>14. kv <= pass.base.inst.kv
  BY <1>0, <1>1, <1>3, <1>4, <1>5
<1>15. CopyInv'
  <2>1. Within(c, kv)' <=> Within(c, kv)
    BY WorldSame
  <2>2. (c \in Served') => engine'[c].phase = "active" /\ Within(pass.c, pass.inst.kv)'
    BY <1>8, <1>12, <1>13, <2>1, WorldSame DEF Within
  <2>3. /\ pass'.pc = "hold" => want # "active"
        /\ pass'.pc \in {"hold", "route"}
    BY <1>10, <1>12
  <2>4. want = "active" => /\ engine'[c].phase = "active" /\ engine'[c].cap <= kv
                           /\ reading.of[c].phase = "active" /\ reading.of[c].cap = engine'[c].cap
    BY <1>1, <1>2, <1>10
  <2> QED BY <1>0, <1>8, <1>10, <1>12, <1>14, <2>2, <2>3, <2>4
          DEF CopyInv, PlacingAt, Carrying, Deleting
<1>16. ReadInv' /\ FitsPlan' /\ AllCharged'
  <2>1. TrueOf(reading.of)'
    BY SnapshotTrue, WorldSame DEF WorldInv
  <2>2. pass'.pc \in {"hold", "route"}
    BY <1>12
  <2> QED BY <1>12, <2>1, <2>2 DEF ReadInv, FitsPlan, AllCharged, Carrying, Deleting
<1> QED BY <1>15, <1>16 DEF PassInv

(* A judged pass that keeps its instance: it goes on, or writes it. *)
LEMMA JudgingOn ==
  ASSUME AInv, PassInv, claim' = claim, engine' = engine, route' = route, load' = load,
         pass.pc \in {"health", "readback"}, NEW pc \in {"status", "missing", "route"},
         NEW reading \in ReadingType, reading.kind = "read" => TrueOf(reading.of),
         pc = "route" => pass.pc = "readback",
         pass' = [pass EXCEPT !.pc = pc, !.reading = reading]
  PROVE  PassInv'
<1>1. /\ pass'.pc = pc /\ pass'.c = pass.c /\ pass'.inst = pass.inst /\ pass'.want = pass.want
      /\ pass'.base = pass.base /\ pass'.reading = reading
  BY DEF AInv, PassOK, PassType
<1>2. pass.base.inst # NoInst /\ pass.pc \in Judging
  BY DEF AInv, StageOK, Judging
<1>3. CopyInv'
  BY <1>1, <1>2, WorldSame DEF PassInv, CopyInv, PlacingAt, Carrying, Deleting, Within
<1>4. ReadInv' /\ FitsPlan' /\ AllCharged'
  BY <1>1, <1>2, WorldSame DEF ReadInv, FitsPlan, AllCharged, Carrying, Deleting
<1> QED BY <1>3, <1>4 DEF PassInv

(* The health check of an instance, and its reading back of a limit it set. *)
LEMMA HealthMemory ==
  ASSUME AInv, AnswerInv, Calm, WorldInv, PassInv, Health \/ ReadBack
  PROVE  WorldInv' /\ PassInv'
<1>0. /\ pass.pc \in {"health", "readback"} /\ pass.reading = NoReading
      /\ claim' = claim /\ engine' = engine /\ route' = route /\ load' = load
  BY DEF Health, ReadBack, At, world, PassInv, ReadInv
<1>1. WorldInv'
  BY <1>0, WorldSame
<1>2. PICK reading \in Readings :
        /\ Reads(reading)
        /\ \/ \E pc \in {"status", "missing", "route"} :
                /\ pass' = [pass EXCEPT !.pc = pc, !.reading = reading]
                /\ pc = "route" => pass.pc = "readback"
           \/ reading.kind = "read" /\ \E mayHold \in BOOLEAN : Judge(reading, FreshRecord, mayHold)
  BY DEF Health, ReadBack, At
<1>3. /\ reading \in ReadingType /\ (reading.kind = "read" => TrueOf(reading.of))
      /\ reading.kind = "read" => reading.of = Snapshot
  BY <1>0, <1>2, ReadingTrue DEF WorldInv, PassInv
<1>4. CASE \E pc \in {"status", "missing", "route"} :
             /\ pass' = [pass EXCEPT !.pc = pc, !.reading = reading]
             /\ pc = "route" => pass.pc = "readback"
  BY <1>0, <1>1, <1>3, <1>4, JudgingOn
<1>5. CASE reading.kind = "read" /\ \E mayHold \in BOOLEAN : Judge(reading, FreshRecord, mayHold)
  BY <1>0, <1>1, <1>3, <1>5, JudgeMemory
<1> QED BY <1>2, <1>4, <1>5


(* An engine is pulled down, or raised, to the record it was judged by. *)
LEMMA HoldMemory ==
  ASSUME AInv, AInv', AnswerInv, Calm, WorldInv, PassInv, Hold
  PROVE  WorldInv' /\ PassInv'
<1>0. /\ pass.pc = "hold" /\ pass.pc \in Judging /\ pass \in PassType
      /\ claim' = claim /\ route' = route /\ load' = load
  BY DEF Hold, At, Judging, AInv, PassOK
<1>1. PICK c \in Claims, kv \in Nat : c = pass.c /\ kv = pass.inst.kv
  BY PassFacts, Constants DEF Instances, NoInst
<1>2. /\ pass.inst # NoInst /\ pass.base.inst # NoInst /\ claim[c].inst = pass.base.inst
      /\ pass.inst.phase # "failed" /\ pass.want # "failed" /\ pass.want # "active"
      /\ kv <= pass.base.inst.kv
  BY <1>0, <1>1 DEF AInv, StageOK, AnswerInv, Calm, PassInv, CopyInv
<1>3. PICK limit \in Nat : /\ limit = Clamp(pass.inst.kv, Ceiling(pass.reading.of[pass.c]))
                           /\ limit <= kv
  <2>1. Ceiling(pass.reading.of[pass.c]) \in {-1, Startup}
    BY DEF Ceiling
  <2> QED BY <1>1, <2>1, Constants DEF Clamp
<1>4. PICK answer : /\ SetKVLimit(pass.c, limit, answer)
                    /\ \E pc \in {"readback", "route"} :
                         pass' = [pass EXCEPT !.pc = pc, !.reading = NoReading]
  BY <1>3 DEF Hold
<1>5. SetTo(c, limit)
  BY <1>1, <1>4, SetToFacts
<1>6. /\ WorldInv' /\ Served' = Served /\ Mapping' = Mapping
      /\ \A d \in Claims, n \in Nat :
           Within(d, n) /\ (d = c /\ c \in Mapping => limit <= n) => Within(d, n)'
  <2>1. limit <= claim[c].inst.kv
    BY <1>1, <1>2, <1>3, StateFacts
  <2> QED BY <1>0, <1>5, <2>1, LimitStep
<1>7. /\ pass'.pc \in {"readback", "route"} /\ pass'.c = c /\ pass'.inst = pass.inst
      /\ pass'.want = pass.want /\ pass'.base = pass.base /\ pass'.reading = NoReading
  BY <1>0, <1>1, <1>4 DEF PassType
<1>8. CopyInv'
  <2>1. (c \in Served) => engine[c].phase = "active" /\ Within(c, kv)
    BY <1>0, <1>1 DEF PassInv, CopyInv
  <2>2. (c \in Served') => engine'[c].phase = "active" /\ Within(c, kv)'
    BY <1>3, <1>5, <1>6, <2>1 DEF SetTo
  <2>3. (c \in Served') => Within(pass.c, pass.inst.kv)'
    BY <1>1, <1>7, <2>2 DEF Within
  <2> QED BY <1>1, <1>2, <1>7, <2>2, <2>3 DEF CopyInv, PlacingAt, Carrying, Deleting
<1>9. ReadInv' /\ FitsPlan' /\ AllCharged'
  <2>1. NoReading.kind = "none"
    BY DEF NoReading
  <2> QED BY <1>7, <2>1 DEF ReadInv, FitsPlan, AllCharged, Carrying
<1> QED BY <1>6, <1>8, <1>9 DEF PassInv

(* A route is taken back: nobody gets more than before. *)
LEMMA UnrouteStep ==
  ASSUME AInv, AInv', WorldInv, claim' = claim, engine' = engine, load' = load, route' \subseteq route
  PROVE  /\ WorldInv' /\ \A d \in Served' : d \in Served
         /\ \A d \in Claims, n \in Nat : Within(d, n) => Within(d, n)'
         /\ \A r \in [Claims -> ObservedType] : TrueOf(r) => TrueOf(r)'
<1>0. /\ \A d \in Claims : engine[d].used \in Nat /\ claim[d].inst.kv \in Nat
      /\ \A d \in Claims : engine[d].used > 0 => d \in load
  BY StateFacts DEF WorldInv, ServedInv
<1>1. \A d \in Served' : d \in Served
  BY DEF Served
<1>2. Eases /\ Frees
  BY <1>0, <1>1 DEF Eases, Frees, Mapping, Served
<1>3. /\ \A d \in Claims, n \in Nat : Within(d, n) => Within(d, n)'
      /\ \A r \in [Claims -> ObservedType] : TrueOf(r) => TrueOf(r)'
  BY <1>2, EasesFacts
<1>4. PhaseInv' /\ Taken(claim', engine') <= Card
  BY DEF WorldInv, PhaseInv
<1>5. ServedInv'
  <2>1. ASSUME NEW d \in Claims
        PROVE  claim'[d].inst # NoInst => Within(d, claim[d].inst.kv)'
    <3>1. PICK k \in Nat : k = claim[d].inst.kv
      BY <1>0
    <3>2. claim[d].inst # NoInst => Within(d, k)'
      BY <1>3, <3>1 DEF WorldInv, ServedInv
    <3> QED BY <3>1, <3>2 DEF Within
  <2> QED BY <1>1, <2>1 DEF WorldInv, ServedInv
<1> QED BY <1>1, <1>3, <1>4, <1>5 DEF WorldInv

(* The route of a judged instance is written: only an engine that is held to its
   record gets one. *)
LEMMA RoutesMemory ==
  ASSUME AInv, AInv', AnswerInv, Calm, WorldInv, PassInv, Routes
  PROVE  WorldInv' /\ PassInv'
<1>0. /\ pass.pc = "route" /\ pass.pc \in Judging /\ pass \in PassType
      /\ claim' = claim /\ engine' = engine /\ load' = load
  BY DEF Routes, At, Judging, AInv, PassOK
<1>1. PICK c \in Claims, kv \in Nat : c = pass.c /\ kv = pass.inst.kv
  BY PassFacts, Constants DEF Instances, NoInst
<1>2. /\ pass.inst # NoInst /\ pass.base.inst # NoInst /\ claim[c].inst = pass.base.inst
      /\ pass.inst.phase # "failed" /\ pass.want # "failed" /\ pass.want # "none"
      /\ kv <= pass.base.inst.kv /\ pass.base.inst.kv \in Nat
      /\ c \in Served => engine[c].phase = "active" /\ Within(c, kv)
      /\ pass.want = "active" => /\ engine[c].phase = "active" /\ engine[c].cap <= kv
                                 /\ pass.reading.of[c].phase = "active"
                                 /\ pass.reading.of[c].cap = engine[c].cap
  <2>1. claim[c].inst = pass.base.inst /\ claim[c].inst.kv \in Nat
    BY <1>0, <1>1, StateFacts DEF AnswerInv, Calm
  <2> QED BY <1>0, <1>1, <2>1 DEF AInv, StageOK, PassInv, CopyInv
<1>3. /\ pass'.pc = "status" /\ pass'.c = c /\ pass'.base = pass.base /\ pass'.want = "none"
      /\ pass'.inst # NoInst /\ pass'.inst.kv = kv /\ pass'.inst.phase # "failed"
      /\ pass'.reading = pass.reading
  <2>1. pass'.pc = "status" /\ pass'.c = c /\ pass'.base = pass.base /\ pass'.inst # NoInst /\ pass'.inst.kv = kv
    BY <1>1, RoutesTypes
  <2>2. pass'.want = "none" /\ pass'.reading = pass.reading
        /\ pass'.inst.phase \in {pass.want, pass.inst.phase}
    <3>1. pass.inst \in [phase : {"activating", "active", "failed"}, kv : 1..Card]
      BY <1>2, PassFacts DEF Instances
    <3>2. CASE pass' = [pass EXCEPT !.pc = "status", !.inst.phase = pass.want, !.want = "none"]
      BY <1>0, <3>1, <3>2 DEF PassType
    <3>3. CASE pass' = [pass EXCEPT !.pc = "status", !.want = "none"]
      BY <1>0, <3>3 DEF PassType
    <3> QED BY <3>2, <3>3 DEF Routes
  <2> QED BY <1>2, <2>1, <2>2
<1>4. PICK r \in [Claims -> ObservedType] :
         r = pass.reading.of /\ (pass.reading.kind = "read" => TrueOf(r))
  BY PassFacts DEF PassInv, ReadInv, ReadingType
<1>5. ASSUME (c \in Served') => engine'[c].phase = "active" /\ Within(c, kv)',
             pass.reading.kind = "read" => TrueOf(r)'
      PROVE  PassInv'
  <2>1. (c \in Served') => Within(pass.c, pass.inst.kv)'
    BY <1>3, <1>5 DEF Within
  <2>2. CopyInv'
    BY <1>3, <1>5, <2>1 DEF CopyInv, PlacingAt, Carrying, Judging, Deleting
  <2>3. pass'.reading.kind = "read" => TrueOf(pass.reading.of)'
    BY <1>3, <1>4, <1>5 DEF TrueOf
  <2>4. ReadInv' /\ FitsPlan' /\ AllCharged'
    BY <1>2, <1>3, <2>3 DEF ReadInv, FitsPlan, AllCharged, Carrying, Deleting
  <2> QED BY <2>2, <2>4 DEF PassInv
<1>6. CASE route' \subseteq route
  <2>1. /\ WorldInv' /\ \A d \in Served' : d \in Served
        /\ \A d \in Claims, n \in Nat : Within(d, n) => Within(d, n)'
        /\ TrueOf(r) => TrueOf(r)'
    BY <1>0, <1>6, UnrouteStep
  <2>2. (c \in Served') => engine'[c].phase = "active" /\ Within(c, kv)'
    BY <1>0, <1>2, <2>1
  <2>3. pass.reading.kind = "read" => TrueOf(r)'
    BY <1>3, <1>4, <2>1
  <2> QED BY <1>5, <2>1, <2>2, <2>3
<1>7. CASE route' = route \cup {c} /\ pass.want = "active"
  <2>1. Served' = Served \cup {c} /\ Mapping' = Mapping \cup {c}
    BY <1>0, <1>2, <1>7 DEF Served, Mapping
  <2>2. engine[c].used \in Nat /\ (engine[c].used > 0 => c \in load) /\ engine[c].cap \in Int
    BY StateFacts DEF WorldInv, ServedInv
  <2>3. Within(c, kv)'
    <3>1. engine[c].used <= kv
      BY <1>1, <1>2, <2>2 DEF Within, Served
    <3> QED BY <1>0, <1>2, <1>7, <3>1 DEF Within
  <2>4. pass.reading.kind = "read" => TrueOf(r)'
    BY <1>0, <1>2, <1>3, <1>4, <1>7, <2>1 DEF TrueOf
  <2>5. PhaseInv' /\ Taken(claim', engine') <= Card
    BY <1>0 DEF WorldInv, PhaseInv
  <2>6. ServedInv'
    <3>1. \A d \in Served' :
            \/ engine'[d].phase = "active" /\ claim'[d].inst # NoInst
            \/ claim'[d].life \in {"deleted", "gone"} /\ ~Up(engine', d)
      BY <1>0, <1>2, <1>7, <2>1 DEF WorldInv, ServedInv
    <3>2. \A d \in Claims : engine'[d].used > 0 => d \in load'
      BY <1>0 DEF WorldInv, ServedInv
    <3>3. ASSUME NEW d \in Claims, claim'[d].inst # NoInst
          PROVE  Within(d, claim[d].inst.kv)'
      <4>1. CASE d = c
        <5>1. claim'[d].inst.kv \in Nat /\ kv <= claim'[d].inst.kv
          BY <1>0, <1>2, <4>1
        <5> QED BY <1>0, <1>1, <2>2, <2>3, <4>1, <5>1 DEF Within
      <4>2. CASE d # c
        BY <1>0, <2>1, <3>3, <4>2 DEF WorldInv, ServedInv, Within
      <4> QED BY <4>1, <4>2
    <3> QED BY <3>1, <3>2, <3>3 DEF ServedInv
  <2> QED BY <1>0, <1>2, <1>5, <1>7, <2>3, <2>4, <2>5, <2>6 DEF WorldInv
<1> QED BY <1>1, <1>6, <1>7 DEF Routes


-----------------------------------------------------------------------------
(* Instances that are recorded, started and given up. *)

(* An engine is started, or started again when it is missing: it has no traffic. *)
LEMMA StartMemory ==
  ASSUME AInv, AInv', AnswerInv, Calm, WorldInv, PassInv, Start \/ StartMissing
  PROVE  WorldInv' /\ PassInv'
<1>0. /\ pass.pc \in {"activate", "missing"} /\ pass.pc \in Judging /\ pass \in PassType
      /\ claim' = claim /\ load' = load /\ claim \in [Claims -> ClaimType]
      /\ engine \in [Claims -> EngineType] /\ engine' \in [Claims -> EngineType]
  BY StateFacts, StateFactsNext DEF Start, StartMissing, At, Judging, AInv, PassOK
<1>1. PICK c \in Claims : c = pass.c
  BY PassFacts
<1>2. /\ pass.base.inst # NoInst /\ claim[c].inst = pass.base.inst /\ ~Up(engine, c)
      /\ pass.inst.phase # "failed" /\ pass.want # "failed" /\ pass.inst.kv <= pass.base.inst.kv
      /\ c \notin Served
  BY <1>0, <1>1 DEF AInv, StageOK, AnswerInv, Calm, PassInv, CopyInv, Up
<1>3. /\ pass'.pc \in {"health", "status"} /\ pass'.c = c /\ pass'.base = pass.base
      /\ pass'.inst = pass.inst \/ (pass'.pc = "status" /\ pass'.inst = NoInst)
  BY <1>1, StartTypes
<1>4. pass'.reading = NoReading /\ pass'.want = pass.want
  <2>1. \E pc, inst : \/ pass' = [pass EXCEPT !.pc = pc, !.reading = NoReading]
                      \/ pass' = [pass EXCEPT !.pc = pc, !.reading = NoReading, !.inst = inst]
    BY DEF Start, StartMissing, AfterStart
  <2> QED BY <1>0, <2>1 DEF PassType
<1>5. route' = route
  BY <1>1, <1>2 DEF Start, StartMissing, Served
<1>6. /\ \A d \in Claims \ {c} : engine'[d] = engine[d]
      /\ engine'[c] = engine[c] \/ (/\ engine[c].phase = "none" /\ engine'[c].phase = "booting"
                                    /\ engine'[c].used = 0)
  <2>1. engine' = engine \/ engine' = StartedBy(c)
    BY <1>1 DEF Start, StartMissing, Activate
  <2>2. engine' = engine \/ (engine[c].phase = "none"
                             /\ engine' = [engine EXCEPT ![c] = [NoEngine EXCEPT !.phase = "booting"]])
    BY <2>1 DEF StartedBy, Exists
  <2> QED BY <1>0, <2>2 DEF NoEngine
<1>7. Served' = Served /\ Mapping' = Mapping /\ c \notin Mapping /\ Served \subseteq Claims
  <2>1. Served' = Served /\ Served \subseteq Claims
    BY <1>0, <1>5, StateFacts DEF Served
  <2> QED BY <1>2, <1>6, <2>1 DEF Mapping
<1>8. PhaseInv'
  BY <1>0, <1>6 DEF WorldInv, PhaseInv
<1>9. ServedInv'
  <2>1. \A d \in Served' :
          \/ engine'[d].phase = "active" /\ claim'[d].inst # NoInst
          \/ claim'[d].life \in {"deleted", "gone"} /\ ~Up(engine', d)
    BY <1>0, <1>2, <1>6, <1>7 DEF WorldInv, ServedInv, Up
  <2>2. ASSUME NEW d \in Claims
        PROVE  /\ engine'[d].used > 0 => d \in load'
               /\ claim'[d].inst # NoInst => Within(d, claim[d].inst.kv)'
    <3>1. claim[d].inst.kv \in Nat /\ engine[d].used \in Nat
      BY StateFacts
    <3>2. engine'[d].used > 0 => d \in load'
      BY <1>0, <1>6 DEF WorldInv, ServedInv
    <3>3. ASSUME claim'[d].inst # NoInst PROVE Within(d, claim[d].inst.kv)'
      <4>1. Within(d, claim[d].inst.kv)
        BY <1>0, <3>3 DEF WorldInv, ServedInv
      <4> QED BY <1>0, <1>6, <1>7, <3>1, <4>1 DEF Within
    <3> QED BY <3>2, <3>3
  <2> QED BY <2>1, <2>2 DEF ServedInv
<1>10. Taken(claim', engine') <= Card
  <2>1. \A d \in Claims : Takes(claim', engine')[d] = Takes(claim, engine)[d]
    BY <1>0, <1>2, <1>6 DEF Takes
  <2>2. \A d \in Claims : Takes(claim, engine)[d] \in Nat
    BY <1>0, TakesNat
  <2>3. \A d \in Claims : Takes(claim', engine')[d] <= Takes(claim, engine)[d]
    BY <2>1, <2>2
  <2> QED BY <1>0, <2>3, TakenLess DEF WorldInv
<1>11. PassInv'
  <2>1. NoReading.kind = "none" /\ NoInst.phase = "none"
    BY DEF NoReading, NoInst
  <2>2. CopyInv'
    BY <1>1, <1>2, <1>3, <1>4, <1>7, <2>1 DEF CopyInv, PlacingAt, Carrying, Judging, Deleting
  <2>3. ReadInv' /\ FitsPlan' /\ AllCharged'
    BY <1>2, <1>3, <1>4, <2>1 DEF ReadInv, FitsPlan, AllCharged, Carrying
  <2> QED BY <2>2, <2>3 DEF PassInv
<1> QED BY <1>8, <1>9, <1>10, <1>11 DEF WorldInv

(* A claim is written while its engine is within the new record.  What it takes is
   no more than before, or every engine is accounted for and the records fit. *)
LEMMA WriteStep ==
  ASSUME AInv, AInv', BInv', WorldInv, NEW c \in Claims, NEW w \in ClaimType,
         claim' = [claim EXCEPT ![c] = w], engine' = engine, route' = route, load' = load,
         w.inst.phase # "failed",
         c \in Served => \/ engine[c].phase = "active" /\ w.inst # NoInst
                         \/ w.life \in {"deleted", "gone"} /\ ~Up(engine, c),
         w.inst # NoInst => Within(c, w.inst.kv),
         \/ Accounted /\ w.inst # NoInst
         \/ w.inst = NoInst
         \/ claim[c].inst # NoInst /\ w.inst # NoInst /\ w.inst.kv <= claim[c].inst.kv
  PROVE  WorldInv' /\ (Accounted /\ w.inst # NoInst => Accounted')
<1>0. /\ claim \in [Claims -> ClaimType] /\ claim' \in [Claims -> ClaimType]
      /\ engine \in [Claims -> EngineType]
  BY StateFacts, StateFactsNext
<1>1. claim'[c] = w /\ \A d \in Claims \ {c} : claim'[d] = claim[d]
  BY <1>0
<1>2. /\ Served' = Served /\ Mapping' = Mapping /\ Served \subseteq Claims
      /\ \A d, n : Within(d, n)' <=> Within(d, n)
  BY EnginesSame, StateFacts DEF Served
<1>3. PhaseInv'
  BY <1>1 DEF WorldInv, PhaseInv
<1>4. ServedInv'
  <2>1. \A d \in Served' :
          \/ engine'[d].phase = "active" /\ claim'[d].inst # NoInst
          \/ claim'[d].life \in {"deleted", "gone"} /\ ~Up(engine', d)
    BY <1>1, <1>2 DEF WorldInv, ServedInv
  <2>2. \A d \in Claims : engine'[d].used > 0 => d \in load'
    BY DEF WorldInv, ServedInv
  <2>3. ASSUME NEW d \in Claims, claim'[d].inst # NoInst PROVE Within(d, claim[d].inst.kv)'
    <3>1. Within(d, claim'[d].inst.kv)
      BY <1>1, <2>3 DEF WorldInv, ServedInv
    <3> QED BY <1>2, <3>1 DEF Within
  <2> QED BY <2>1, <2>2, <2>3 DEF ServedInv
<1>5. Accounted /\ w.inst # NoInst => Accounted'
  BY <1>1 DEF Accounted
<1>6. Taken(claim', engine') <= Card
  <2>1. CASE Accounted /\ w.inst # NoInst
    <3>1. /\ \A d \in Claims : claim'[d].inst = NoInst => engine'[d].phase = "none"
          /\ \A d \in Claims : claim'[d].inst.phase # "failed"
          /\ RecordTotal(claim') <= Card
      BY <1>3, <1>5, <2>1 DEF Accounted, PhaseInv, BInv
    <3>2. PICK cl, en : cl = claim' /\ en = engine'
      OBVIOUS
    <3> QED BY <1>0, <3>1, <3>2, TakenCharged
  <2>2. CASE \/ w.inst = NoInst
             \/ claim[c].inst # NoInst /\ w.inst # NoInst /\ w.inst.kv <= claim[c].inst.kv
    <3>1. \A d \in Claims : Takes(claim, engine)[d] \in Nat
      BY <1>0, TakesNat
    <3>2. \A d \in Claims \ {c} : Takes(claim', engine')[d] = Takes(claim, engine)[d]
      BY <1>1 DEF Takes
    <3>3. Takes(claim', engine')[c] <= Takes(claim, engine)[c]
      <4>1. /\ engine[c].used \in Nat /\ claim[c].inst.kv \in Nat /\ Footprint[c] \in Nat
            /\ claim'[c].inst.kv \in Nat
            /\ claim[c].inst # NoInst => engine[c].used <= claim[c].inst.kv
        BY StateFacts, StateFactsNext, Constants DEF WorldInv, ServedInv, Within
      <4>2. CASE w.inst = NoInst
        BY <1>1, <4>1, <4>2 DEF Takes
      <4>3. CASE claim[c].inst # NoInst /\ w.inst # NoInst /\ w.inst.kv <= claim[c].inst.kv
        BY <1>1, <4>1, <4>3 DEF Takes
      <4> QED BY <2>2, <4>2, <4>3
    <3>4. ASSUME NEW d \in Claims PROVE Takes(claim', engine')[d] <= Takes(claim, engine)[d]
      <4>1. PICK n \in Nat : n = Takes(claim, engine)[d]
        BY <3>1
      <4>2. CASE d = c
        BY <3>3, <4>2
      <4>3. CASE d # c
        <5>1. Takes(claim', engine')[d] = n
          BY <3>2, <4>1, <4>3
        <5> QED BY <4>1, <5>1
      <4> QED BY <4>2, <4>3
    <3> QED BY <1>0, <3>4, TakenLess DEF WorldInv
  <2> QED BY <2>1, <2>2
<1> QED BY <1>3, <1>4, <1>5, <1>6 DEF WorldInv

(* An engine without traffic holds nothing. *)
LEMMA UntouchedFacts ==
  ASSUME AInv, WorldInv, NEW c \in Claims, c \notin Served
  PROVE  \A n \in Nat : Within(c, n)
<1>1. engine[c].used \in Nat /\ c \notin Mapping /\ (engine[c].used > 0 => c \in load)
  BY StateFacts DEF Mapping, WorldInv, ServedInv
<1>2. engine[c].used = 0
  BY <1>1 DEF Served
<1> QED BY <1>1, <1>2 DEF Within


(* The instance of a placement is recorded. *)
LEMMA ReserveMemory ==
  ASSUME AInv, AInv', BInv', AnswerInv, Calm, WorldInv, PassInv, Reserve
  PROVE  WorldInv' /\ PassInv'
<1>0. /\ pass.pc = "reserve" /\ pass \in PassType
      /\ engine' = engine /\ route' = route /\ load' = load
  BY DEF Reserve, At, world, AInv, PassOK
<1>1. PICK c \in Claims, w \in ClaimType :
         c = pass.c /\ w = Written /\ w.inst = pass.inst /\ w.life = "live"
  <2>1. pass.base.life = "live"
    BY <1>0 DEF AInv, StageOK
  <2> QED BY <2>1, PassFacts, WrittenFacts
<1>2. /\ pass.base.inst = NoInst /\ claim[c].inst = NoInst /\ c \notin Served /\ Accounted
      /\ pass.inst.phase = "activating" /\ pass.inst # NoInst /\ pass.want # "failed"
      /\ pass.inst.kv \in Nat
  <2>1. claim[c].inst = pass.base.inst
    BY <1>0, <1>1 DEF AnswerInv, Calm
  <2>2. pass.base.inst = NoInst /\ pass.inst.phase = "activating"
    BY <1>0 DEF AInv, StageOK
  <2>3. c \notin Served /\ Accounted /\ pass.want # "failed"
    BY <1>0, <1>1 DEF PassInv, CopyInv, AllCharged
  <2>4. pass.inst # NoInst /\ pass.inst.kv \in Nat
    BY <2>2, PassFacts, Constants DEF NoInst, Instances
  <2> QED BY <2>1, <2>2, <2>3, <2>4
<1>3. WorldInv' /\ Accounted'
  <2>1. claim' = claim \/ claim' = [claim EXCEPT ![c] = w]
    BY <1>1, ReserveTypes
  <2>2. CASE claim' = claim
    BY <1>0, <1>2, <2>2, WorldSame
  <2>3. CASE claim' = [claim EXCEPT ![c] = w]
    <3>1. w.inst # NoInst /\ w.inst.phase # "failed" /\ Within(c, w.inst.kv)
      BY <1>1, <1>2, UntouchedFacts
    <3> QED BY <1>0, <1>2, <2>3, <3>1, WriteStep
  <2> QED BY <2>1, <2>2, <2>3
<1>4. /\ Served' = Served
      /\ \A r : TrueOf(r)' <=> TrueOf(r)
  BY <1>0, EnginesSame
<1>5. \/ pass' = Idle
      \/ /\ pass'.pc \in {"activate", "status"} /\ pass'.c = c /\ pass'.inst = pass.inst
         /\ pass'.pc = "activate" => pass'.base.inst = pass.inst
  BY <1>1, ReserveTypes
<1>6. pass' = Idle \/ (pass'.want = pass.want /\ pass'.reading = pass.reading)
  <2>1. \/ pass' = Idle
        \/ \E pc, base : pass' = [pass EXCEPT !.pc = pc, !.base = base]
        \/ \E pc : pass' = [pass EXCEPT !.pc = pc]
    BY DEF Reserve, EndPass
  <2> QED BY <1>0, <2>1 DEF PassType
<1>7. CASE pass' = Idle
  BY <1>3, <1>7, PassRests
<1>8. CASE pass' # Idle
  <2>1. CopyInv'
    BY <1>2, <1>4, <1>5, <1>6, <1>8 DEF CopyInv, PlacingAt, Carrying, Judging, Deleting
  <2>2. ReadInv'
    <3>1. pass.reading.kind = "read" => TrueOf(pass.reading.of)
      BY DEF PassInv, ReadInv
    <3>2. pass'.reading.kind = "read" => TrueOf(pass.reading.of)'
      BY <1>4, <1>6, <1>8, <3>1 DEF TrueOf
    <3> QED BY <1>5, <1>8, <3>2 DEF ReadInv, Deleting
  <2>3. FitsPlan' /\ AllCharged'
    BY <1>3, <1>5, <1>8 DEF FitsPlan, AllCharged, Carrying
  <2> QED BY <1>3, <2>1, <2>2, <2>3 DEF PassInv
<1> QED BY <1>7, <1>8

(* The status of a claim is written: its engine is within the record it gets. *)
LEMMA StatusMemory ==
  ASSUME AInv, AInv', BInv, BInv', WorldInv, PassInv, UpdateStatus
  PROVE  WorldInv' /\ PassInv'
<1>0. /\ pass.pc = "status" /\ pass \in PassType
      /\ engine' = engine /\ route' = route /\ load' = load
  BY DEF UpdateStatus, At, world, AInv, PassOK
<1>1. PICK c \in Claims, w \in ClaimType :
         c = pass.c /\ w = Written /\ w.inst = pass.inst /\ w.life = "live"
  <2>1. pass.base.life = "live"
    BY <1>0 DEF AInv, StageOK
  <2> QED BY <2>1, PassFacts, WrittenFacts
<1>2. /\ w.inst.phase # "failed" /\ pass.want # "failed" /\ w.inst.kv \in Nat
      /\ c \in Served => engine[c].phase = "active" /\ w.inst # NoInst /\ Within(c, w.inst.kv)
  <2>1. w.inst.kv \in Nat
    BY Constants DEF ClaimType, Instances, NoInst
  <2> QED BY <1>0, <1>1, <2>1 DEF PassInv, CopyInv
<1>3. WorldInv'
  <2>1. claim' = claim \/ (claim[c] = pass.base /\ claim' = [claim EXCEPT ![c] = w])
    BY <1>1, StatusTypes
  <2>2. CASE claim' = claim
    BY <1>0, <2>2, WorldSame
  <2>3. CASE claim[c] = pass.base /\ claim' = [claim EXCEPT ![c] = w]
    <3>1. Within(c, w.inst.kv)
      BY <1>2, UntouchedFacts
    <3>2. \/ Accounted /\ w.inst # NoInst
          \/ w.inst = NoInst
          \/ claim[c].inst # NoInst /\ w.inst # NoInst /\ w.inst.kv <= claim[c].inst.kv
      <4>1. CASE w.inst # NoInst /\ claim[c].inst = NoInst
        BY <1>0, <1>1, <2>3, <4>1 DEF PassInv, AllCharged
      <4>2. CASE w.inst # NoInst /\ claim[c].inst # NoInst
        BY <1>0, <1>1, <2>3, <4>2 DEF BInv, JudgeInv
      <4> QED BY <4>1, <4>2
    <3> QED BY <1>0, <1>2, <2>3, <3>1, <3>2, WriteStep
  <2> QED BY <2>1, <2>2, <2>3
<1>4. CASE pass' = Idle
  BY <1>3, <1>4, PassRests
<1>5. CASE pass' = [pass EXCEPT !.pc = "divide", !.base = Idle.base, !.inst = NoInst]
  <2>1. /\ pass'.pc = "divide" /\ pass'.inst = NoInst /\ pass'.want = pass.want
        /\ pass'.reading = pass.reading
    BY <1>0, <1>5 DEF PassType
  <2>2. NoInst.phase = "none"
    BY DEF NoInst
  <2>3. CopyInv'
    BY <1>2, <2>1, <2>2 DEF CopyInv, PlacingAt, Carrying, Judging, Deleting
  <2>4. ReadInv'
    <3>1. \A r : TrueOf(r)' <=> TrueOf(r)
      BY <1>0, EnginesSame
    <3>2. pass.reading.kind = "read" => TrueOf(pass.reading.of)
      BY DEF PassInv, ReadInv
    <3>3. pass'.reading.kind = "read" => TrueOf(pass.reading.of)'
      BY <2>1, <3>1, <3>2 DEF TrueOf
    <3> QED BY <2>1, <3>3 DEF ReadInv, Deleting
  <2>5. FitsPlan' /\ AllCharged'
    BY <2>1 DEF FitsPlan, AllCharged, Carrying
  <2> QED BY <1>3, <2>3, <2>4, <2>5 DEF PassInv
<1> QED BY <1>4, <1>5 DEF UpdateStatus, EndPass

(* A deleted claim loses its route, its engine and its finalizer, in this order. *)
LEMMA FinalizeMemory ==
  ASSUME AInv, AInv', BInv', AnswerInv, Calm, WorldInv, PassInv,
         DrainWait \/ Drained \/ Stop \/ RemoveFinalizer
  PROVE  WorldInv' /\ PassInv'
<1>0. /\ pass.pc \in Deleting /\ pass \in PassType /\ pass.reading = NoReading
      /\ claim[pass.c].life = "deleted" /\ pass.inst.phase # "failed" /\ pass.want # "failed"
  <2>1. pass.pc \in Deleting
    BY DEF DrainWait, Drained, Stop, RemoveFinalizer, At, Deleting
  <2> QED BY <2>1 DEF AInv, PassOK, PassInv, CopyInv, ReadInv
<1>1. PICK c \in Claims : c = pass.c
  BY PassFacts
<1>2. ASSUME NEW pc \in {"stop", "unfinalize"}, pass' = [pass EXCEPT !.pc = pc], claim' = claim
      PROVE  PassInv'
  <2>1. /\ pass'.pc = pc /\ pass'.c = pass.c /\ pass'.inst = pass.inst /\ pass'.want = pass.want
        /\ pass'.reading = NoReading
    BY <1>0, <1>2 DEF PassType
  <2>2. NoReading.kind = "none"
    BY DEF NoReading
  <2>3. CopyInv'
    BY <1>0, <1>2, <2>1 DEF CopyInv, PlacingAt, Carrying, Judging, Deleting
  <2>4. ReadInv' /\ FitsPlan' /\ AllCharged'
    BY <1>2, <2>1, <2>2 DEF ReadInv, FitsPlan, AllCharged, Carrying
  <2> QED BY <2>3, <2>4 DEF PassInv
<1>3. CASE DrainWait \/ Drained
  <2>1. /\ claim' = claim /\ engine' = engine /\ load' = load /\ route' \subseteq route
        /\ pass' = Idle \/ \E pc \in {"stop", "unfinalize"} : pass' = [pass EXCEPT !.pc = pc]
    BY <1>3 DEF DrainWait, Drained, Unrouted, EndPass
  <2>2. WorldInv'
    BY <2>1, UnrouteStep
  <2> QED BY <1>2, <2>1, <2>2, PassRests
<1>4. CASE RemoveFinalizer
  <2>1. /\ pass.pc = "unfinalize" /\ engine' = engine /\ route' = route /\ load' = load /\ pass' = Idle
    BY <1>4 DEF RemoveFinalizer, At, world, EndPass
  <2>2. PICK w \in ClaimType : w = [life |-> "gone", inst |-> NoInst]
    BY IdleFacts DEF ClaimType
  <2>3. w.life = "gone" /\ w.inst = NoInst /\ w.inst.phase # "failed"
    BY <2>2 DEF NoInst
  <2>4. claim' = claim \/ claim' = [claim EXCEPT ![c] = w]
    BY <1>1, <1>4, <2>2 DEF RemoveFinalizer, Update
  <2>5. ~Up(engine, c)
    BY <1>1, <2>1 DEF AnswerInv, Calm
  <2>6. CASE claim' = claim
    BY <2>1, <2>6, WorldSame, PassRests
  <2>7. CASE claim' = [claim EXCEPT ![c] = w]
    BY <2>1, <2>3, <2>5, <2>7, WriteStep, PassRests
  <2> QED BY <2>4, <2>6, <2>7
<1>5. CASE Stop
  <2>0. /\ claim \in [Claims -> ClaimType] /\ engine \in [Claims -> EngineType]
        /\ engine' \in [Claims -> EngineType]
    BY StateFacts, StateFactsNext
  <2>1. /\ claim' = claim /\ load' = load /\ route' \subseteq route
        /\ pass' = Idle \/ \E pc \in {"stop", "unfinalize"} : pass' = [pass EXCEPT !.pc = pc]
        /\ engine' = engine \/ engine' = Stopping(c)
    BY <1>1, <1>5 DEF Stop, Unrouted, EndPass
  <2>2. PassInv'
    BY <1>2, <2>1, PassRests
  <2>3. /\ \A d \in Claims : /\ engine'[d].used = engine[d].used /\ engine'[d].cap = engine[d].cap
                             /\ \/ engine'[d].phase = engine[d].phase
                                \/ /\ d = c /\ engine[d].phase # "none"
                                   /\ engine'[d].phase = "stopping"
    <3>1. CASE engine' = engine
      BY <3>1
    <3>2. CASE engine' = [engine EXCEPT ![c].phase = "stopping"] /\ engine[c].phase # "none"
      <4>1. engine'[c] = [engine[c] EXCEPT !.phase = "stopping"]
            /\ \A d \in Claims \ {c} : engine'[d] = engine[d]
        BY <2>0, <3>2
      <4>2. /\ engine'[c].phase = "stopping" /\ engine'[c].used = engine[c].used
            /\ engine'[c].cap = engine[c].cap
        BY <2>0, <4>1 DEF EngineType
      <4> QED BY <3>2, <4>1, <4>2
    <3> QED BY <2>1, <3>1, <3>2 DEF Stopping, Exists
  <2>4. /\ \A d \in Served' : d \in Served /\ d \in Claims
        /\ \A d \in Mapping' : d \in Mapping
    BY <2>1, <2>3, StateFacts DEF Served, Mapping
  <2>5. PhaseInv'
    BY <2>1, <2>3 DEF WorldInv, PhaseInv
  <2>6. ServedInv'
    <3>1. ASSUME NEW d \in Served'
          PROVE  \/ engine'[d].phase = "active" /\ claim'[d].inst # NoInst
                 \/ claim'[d].life \in {"deleted", "gone"} /\ ~Up(engine', d)
      <4>1. /\ d \in Claims
            /\ \/ engine[d].phase = "active" /\ claim[d].inst # NoInst
               \/ claim[d].life \in {"deleted", "gone"} /\ ~Up(engine, d)
        BY <2>4, <3>1 DEF WorldInv, ServedInv
      <4>2. CASE engine'[d].phase = engine[d].phase
        BY <2>1, <4>1, <4>2 DEF Up
      <4>3. CASE d = c /\ engine'[d].phase = "stopping"
        BY <1>0, <1>1, <2>1, <4>3 DEF Up
      <4> QED BY <2>3, <4>1, <4>2, <4>3
    <3>2. \A d \in Claims : engine'[d].used > 0 => d \in load'
      BY <2>1, <2>3 DEF WorldInv, ServedInv
    <3>3. ASSUME NEW d \in Claims, claim'[d].inst # NoInst PROVE Within(d, claim[d].inst.kv)'
      <4>1. Within(d, claim[d].inst.kv)
        BY <2>1, <3>3 DEF WorldInv, ServedInv
      <4> QED BY <2>1, <2>3, <2>4, <4>1 DEF Within
    <3> QED BY <3>1, <3>2, <3>3 DEF ServedInv
  <2>7. Taken(claim', engine') <= Card
    <3>1. \A d \in Claims : Takes(claim', engine')[d] = Takes(claim, engine)[d]
      BY <2>1, <2>3 DEF Takes
    <3>2. \A d \in Claims : Takes(claim, engine)[d] \in Nat
      BY <2>0, TakesNat
    <3>3. \A d \in Claims : Takes(claim', engine')[d] <= Takes(claim, engine)[d]
      BY <3>1, <3>2
    <3> QED BY <2>0, <2>1, <3>3, TakenLess DEF WorldInv
  <2> QED BY <2>2, <2>5, <2>6, <2>7 DEF WorldInv
<1> QED BY <1>3, <1>4, <1>5


-----------------------------------------------------------------------------
(* The memory of the card, for every behaviour. *)

(* What may happen around the controller is settled at the start. *)
LEMMA ScenarioKept ==
  ASSUME AInv, [Next]_vars
  PROVE  scenario' = scenario
<1>1. CASE PassStep
  <2>1. CASE \/ Place \/ PlaceUnlisted \/ ConfirmShrink \/ ConfirmGrow \/ Health \/ ReadBack
             \/ Routes \/ Divide \/ SkipDivide
    BY <2>1 DEF Place, PlaceUnlisted, ConfirmShrink, ConfirmGrow, Health, ReadBack, Routes,
       Divide, SkipDivide, Reads, Fault, budget
  <2>2. CASE \/ Shrink \/ TakeBack \/ Grow \/ Hold \/ RecordLimit \/ Reserve \/ Start \/ StartMissing
             \/ UpdateStatus
    BY <2>2, CarryTypes, HealthTypes, RecordTypes, ReserveTypes, StartTypes, StatusTypes
  <2>3. CASE DrainWait \/ Drained \/ Stop \/ RemoveFinalizer
    BY <2>3 DEF DrainWait, Drained, Stop, RemoveFinalizer, Update, Fault, budget
  <2> QED BY <1>1, <2>1, <2>2, <2>3 DEF PassStep
<1>2. CASE Crash
  BY <1>2 DEF Crash, Fault
<1>3. ASSUME NEW c \in Claims,
             Begin(c) \/ CatchUp(c) \/ Create(c) \/ Delete(c) \/ EngineSteps(c)
      PROVE  scenario' = scenario
  BY <1>3 DEF Begin, CatchUp, Create, Delete, EngineSteps, EngineReady, EngineDies, EngineRestarts,
     EngineExits, Arrive, MapKV, Finish, Fault, budget
<1>4. CASE UNCHANGED vars
  BY <1>4 DEF vars
<1> QED BY <1>1, <1>2, <1>3, <1>4 DEF Next

(* Every step keeps the memory of the card. *)
LEMMA MemoryStep ==
  ASSUME AInv, BInv, AnswerInv, CInv, [Next]_vars
  PROVE  CInv'
<1>0. AInv' /\ BInv' /\ scenario' = scenario
  BY TypesStep, RecordsStep, ScenarioKept
<1>1. SUFFICES ASSUME Calm, WorldInv, PassInv PROVE WorldInv' /\ PassInv'
  BY <1>0 DEF CInv, Calm
<1>2. CASE PassStep
  <2>1. CASE Place \/ Divide \/ PlaceUnlisted \/ SkipDivide
    BY <1>0, <1>1, <2>1, PlaceMemory, DivideMemory, StopMemory
  <2>2. CASE Shrink \/ ConfirmShrink \/ TakeBack \/ RecordLimit \/ Grow \/ ConfirmGrow
    BY <1>0, <1>1, <2>2, ShrinkMemory, ConfirmShrinkMemory, TakeBackMemory, RecordMemory,
       GrowMemory, ConfirmGrowMemory
  <2>3. CASE \/ Reserve \/ Start \/ StartMissing \/ Health \/ ReadBack \/ Hold \/ Routes
             \/ UpdateStatus
    BY <1>0, <1>1, <2>3, ReserveMemory, StartMemory, HealthMemory, HoldMemory, RoutesMemory,
       StatusMemory
  <2>4. CASE DrainWait \/ Drained \/ Stop \/ RemoveFinalizer
    BY <1>0, <1>1, <2>4, FinalizeMemory
  <2> QED BY <1>2, <2>1, <2>2, <2>3, <2>4 DEF PassStep
<1>3. CASE Crash
  BY <1>1, <1>3, StopMemory
<1>4. ASSUME NEW c \in Claims,
             Begin(c) \/ CatchUp(c) \/ Create(c) \/ Delete(c) \/ EngineSteps(c)
      PROVE  WorldInv' /\ PassInv'
  BY <1>0, <1>1, <1>4, BeginMemory, AroundMemory
<1>5. CASE UNCHANGED vars
  <2>1. claim' = claim /\ engine' = engine /\ route' = route /\ load' = load /\ pass' = pass
    BY <1>5 DEF vars
  <2>2. PassInv'
    <3>1. /\ \A d \in Claims : engine[d].used \in Nat
      BY StateFacts
    <3>2. Eases /\ Frees
      BY <2>1, <3>1, WorldSame DEF Eases, Frees
    <3> QED BY <1>0, <1>1, <2>1, <3>2, PassWaits
  <2> QED BY <1>1, <2>1, <2>2, WorldSame
<1> QED BY <1>2, <1>3, <1>4, <1>5 DEF Next

(* At first the card is empty. *)
LEMMA MemoryInit == Init => CInv
<1> SUFFICES ASSUME Init PROVE WorldInv /\ PassInv
  BY DEF CInv
<1>1. /\ \A c \in Claims : /\ claim[c].inst = NoInst /\ engine[c].phase = "none" /\ engine[c].used = 0
      /\ Served = {} /\ Mapping = {}
  BY DEF Init, NoEngine, Served, Mapping
<1>2. NoInst.phase = "none" /\ NoReading.kind = "none"
  BY DEF NoInst, NoReading
<1>3. PhaseInv /\ ServedInv
  BY <1>1, <1>2 DEF PhaseInv, ServedInv
<1>4. Taken(claim, engine) <= Card
  <2>1. \A c \in Claims : Takes(claim, engine)[c] = 0
    BY <1>1 DEF Takes
  <2>2. Taken(claim, engine) = 0
    BY <2>1, OrderFacts, SumZero DEF Taken
  <2> QED BY <2>2, Constants
<1>5. /\ pass.pc = "idle" /\ pass.inst = NoInst /\ pass.want = "none" /\ pass.reading = NoReading
  BY DEF Init, Idle
<1>6. PassInv
  BY <1>2, <1>5 DEF PassInv, CopyInv, ReadInv, FitsPlan, AllCharged, PlacingAt, Carrying, Judging, Deleting
<1> QED BY <1>3, <1>4, <1>6 DEF WorldInv

(* While no engine restarts by itself and the cache keeps up, an engine on the route
   is never held to more than its instance records (judgeEngine, reconcileInstanceHealth):
   not while a plan shrinks, records and grows, not when one of its calls failed or lost
   its answer, and not after the controller stopped in the middle of it. *)
THEOREM RoutedHeldWithinRecord == Spec => []HeldWithinRecord
<1>1. ASSUME AInv, CInv PROVE HeldWithinRecord
  <2>1. SUFFICES ASSUME Calm, NEW c \in route, engine[c].phase = "active"
        PROVE  claim[c].inst # NoInst /\ engine[c].cap <= claim[c].inst.kv
    BY DEF HeldWithinRecord, Calm
  <2>2. WorldInv /\ c \in Claims /\ c \in Served /\ c \in Mapping
    BY <1>1, <2>1, StateFacts DEF CInv, Served, Mapping
  <2>3. claim[c].inst # NoInst
    BY <2>1, <2>2 DEF WorldInv, ServedInv, Up
  <2> QED BY <2>2, <2>3 DEF WorldInv, ServedInv, Within
<1> QED BY <1>1, TypesInit, TypesStep, RecordsInit, RecordsStep, AnswersInit, AnswersStep,
       MemoryInit, MemoryStep, PTL DEF Spec

(* While no engine restarts by itself and the cache keeps up, what the engines of the
   card hold, and what those on the route may still map, never comes to more than the
   card (arrangeCard): no byte is promised to two engines, for any number of claims. *)
THEOREM CardNeverOversubscribed == Spec => []NeverOversubscribed
<1>1. ASSUME AInv, CInv PROVE NeverOversubscribed
  <2> DEFINE Entitled(c) == IF c \in route /\ engine[c].phase = "active"
                            THEN Max({engine[c].used, engine[c].cap}) ELSE engine[c].used
             held == [c \in Claims |-> Footprint[c] + Entitled(c)]
             takes == Takes(claim, engine)
             self == [c \in Running |-> c]
  <2>1. SUFFICES ASSUME Calm PROVE SumFunctionOnSet(held, Running) <= Card
    BY DEF NeverOversubscribed, Calm
  <2>2. WorldInv /\ claim \in [Claims -> ClaimType] /\ engine \in [Claims -> EngineType]
    BY <1>1, <2>1, StateFacts DEF CInv
  <2>3. /\ \A c \in Claims : takes[c] \in Nat
        /\ SumFunctionOnSet(takes, Claims) <= Card /\ SumFunctionOnSet(takes, Claims) \in Nat
    BY <2>2, TakesNat DEF WorldInv, Taken
  <2>4. ASSUME NEW c \in Running
        PROVE  c \in Claims /\ held[c] \in Int /\ held[c] <= takes[c]
    <3>1. c \in Claims /\ engine[c].phase # "none"
      BY DEF Running
    <3>2. /\ engine[c].used \in Nat /\ engine[c].cap \in Int /\ claim[c].inst.kv \in Nat
          /\ Footprint[c] \in Nat
      BY <1>1, <3>1, StateFacts, Constants
    <3>3. Max({engine[c].used, engine[c].cap})
            = IF engine[c].used >= engine[c].cap THEN engine[c].used ELSE engine[c].cap
      BY <3>2, MaxOfTwo
    <3>4. CASE claim[c].inst # NoInst
      <4>1. /\ engine[c].used <= claim[c].inst.kv
            /\ c \in route /\ engine[c].phase = "active" => engine[c].cap <= claim[c].inst.kv
        BY <2>2, <3>1, <3>4 DEF WorldInv, ServedInv, Within, Mapping, Served
      <4>2. Entitled(c) \in Int /\ Entitled(c) <= claim[c].inst.kv
        BY <3>2, <3>3, <4>1
      <4>3. takes[c] = Footprint[c] + claim[c].inst.kv /\ held[c] = Footprint[c] + Entitled(c)
        BY <3>1, <3>4 DEF Takes
      <4> HIDE DEF Entitled, held, takes
      <4> QED BY <3>1, <3>2, <4>2, <4>3
    <3>5. CASE claim[c].inst = NoInst
      <4>1. ~(c \in route /\ engine[c].phase = "active")
        BY <2>2, <3>5 DEF WorldInv, ServedInv, Served, Up
      <4>2. takes[c] = Footprint[c] + engine[c].used /\ held[c] = Footprint[c] + engine[c].used
        BY <3>1, <3>5, <4>1 DEF Takes
      <4> HIDE DEF held, takes
      <4> QED BY <3>1, <3>2, <4>2
    <3> QED BY <3>4, <3>5
  <2>5. /\ IsFiniteSet(Claims) /\ IsFiniteSet(Running)
    BY OrderFacts, FS_Subset DEF Running
  <2>6. \A c \in Running : self[c] = c
    OBVIOUS
  <2>7. SumFunctionOnSet(held, Running) \in Int
    <3> HIDE DEF held
    <3> QED BY <2>4, <2>5, SumInt
  <2>8. SumFunctionOnSet(held, Running) <= SumFunctionOnSet(takes, Claims)
    <3> HIDE DEF held, takes, self
    <3> QED BY <2>3, <2>4, <2>5, <2>6, SumInto
  <2> HIDE DEF held, takes
  <2> QED BY <2>3, <2>7, <2>8, Constants
<1> QED BY <1>1, TypesInit, TypesStep, RecordsInit, RecordsStep, AnswersInit, AnswersStep,
       MemoryInit, MemoryStep, PTL DEF Spec
=============================================================================
