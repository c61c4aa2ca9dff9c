------------------------------ MODULE ModelClaim ------------------------------
(***************************************************************************)
(* The ModelClaim controller on one card of a warm pod: pkg/controller/    *)
(* modelclaim, with the runtime agent it drives (python/.../runtime/       *)
(* model_runtime.py).                                                      *)
(*                                                                         *)
(* A claim asks for one engine.  The controller's only worker takes one    *)
(* claim at a time through a pass of Reconcile.  A pass places the claim   *)
(* on the card when the card's account shows room for it, divides the      *)
(* card's KV memory between the engines, starts the engine, and puts it on *)
(* the route once it is ready and held to the KV limit its instance        *)
(* records.  Every call a pass makes to the API server or to the runtime   *)
(* is a step of its own: engines boot, serve, map and free KV, crash and   *)
(* exit between two of them, a call may fail or lose its answer, and the   *)
(* controller may stop after any of them.                                  *)
(*                                                                         *)
(* One claim runs one engine (the API takes no other number of replicas),  *)
(* engines are kept awake, and all claims have the same priority and no    *)
(* preemption.  The waits between passes (backoff, requeue) are left out:  *)
(* a pass may begin at any time.                                           *)
(***************************************************************************)
EXTENDS Integers, Sequences, FiniteSets, FiniteSetsExt, Functions

CONSTANTS
    Order,        \* the claims, in the order of their names
    Card,         \* usable memory of the card, hbmUsableBytes
    Footprint,    \* spec.perGPU.maximumFootprint of each claim
    KVFloor,      \* spec.perGPU.kvFloor of each claim
    Startup,      \* KV capacity an engine starts with, kv_initial_capacity_bytes
    MinChange,    \* minimumKVLimitChangeBytes
    MaxFaults,    \* bound on the faults of a behaviour
    MaxBursts,    \* bound on the bursts of load of a behaviour
    Scenarios     \* what may happen around the controller, case by case

Claims == Range(Order)

\* Calls to the runtime or the API server fail, the controller or an engine
\* stops, the controller's cache lags; requests come; claims are deleted.
Happenings == {"rpc", "api", "crash", "engine", "lag", "burst", "delete"}

ASSUME ConstantsAssumption ==
    /\ Order \in Seq(Claims) \ {<<>>} /\ IsInjective(Order)
    /\ Card \in Nat /\ Startup \in Nat \ {0} /\ MinChange \in Nat
    /\ MaxFaults \in Nat /\ MaxBursts \in Nat
    /\ Footprint \in [Claims -> Nat \ {0}] /\ KVFloor \in [Claims -> Nat \ {0}]
    /\ \A s \in Scenarios : s \subseteq Happenings

NoInst == [phase |-> "none", kv |-> 0]
Instance(phase, kv) == [phase |-> phase, kv |-> kv]

\* An engine without a KV segment is held to no limit (kvLimitUnknown).
NoSegment == -1
NoEngine == [phase |-> "none", cap |-> NoSegment, used |-> 0]

VARIABLES
    claim,    \* the claims as the API server holds them: [life, inst]
    cache,    \* the claims as the controller's cache shows them
    engine,   \* the engines of the runtime: phase, KV limit in force, mapped KV
    route,    \* the claims whose route on the pod carries a port
    load,     \* the claims whose engine has requests in flight
    pass,     \* the pass the worker is in
    divided,  \* cardDivisionState: dividedFor and owed
    faults, bursts, scenario

vars == <<claim, cache, engine, route, load, pass, divided, faults, bursts, scenario>>
world == <<engine, route, load>>
budget == <<faults, bursts, scenario>>

\* A reading lives for one pass.  A runtime that did not answer is not asked
\* again in the pass.
Observed(e, busy) == [phase |-> e.phase, cap |-> e.cap, used |-> e.used, busy |-> busy]
NothingRead == [c \in Claims |-> Observed(NoEngine, FALSE)]
NoReading == [kind |-> "none", of |-> NothingRead]
Unread == [kind |-> "error", of |-> NothingRead]

Idle == [pc |-> "idle", c |-> Order[1], base |-> [life |-> "none", inst |-> NoInst],
         inst |-> NoInst, want |-> "none", reading |-> NoReading,
         why |-> "none", plan |-> {}, todo |-> {}, done |-> {}]

NotDivided == [known |-> FALSE, for |-> {}, owed |-> {}]

-----------------------------------------------------------------------------
(* The account of the card, from the API server's claims and one reading.   *)

\* The reading the runtime gives of its engines and their load.
Snapshot == [c \in Claims |-> Observed(engine[c], c \in load)]

Exists(e) == e.phase # "none"
Gone(e) == e.phase \in {"none", "failed"}

\* Only a serving engine has a startup capacity that caps its limit.
Ceiling(o) == IF o.phase = "active" THEN Startup ELSE -1
Clamp(limit, ceiling) == IF ceiling >= 0 /\ limit > ceiling THEN ceiling ELSE limit

Charged(r) ==
    {c \in Claims : claim[c].inst # NoInst
                    /\ ~(claim[c].inst.phase = "failed" /\ Gone(r[c]))}

\* An engine that no instance accounts for hides memory from the account.
Unaccounted(r) == {c \in Claims : claim[c].inst = NoInst /\ ~Gone(r[c])}
Judgeable(r) == Unaccounted(r) = {}

\* observe: a segment is not read while its engine boots, since a write would
\* keep the runtime from capturing the capacity the engine starts with.
ObservedCap(o, phase) ==
    IF o.phase = "booting" \/ (o.phase # "active" /\ phase = "activating")
    THEN NoSegment ELSE o.cap

\* One engine of a plan.  The newcomer of a placement is an entry of its own.
Newcomer(c) == [c |-> c, new |-> TRUE, floor |-> KVFloor[c], used |-> 0,
                cap |-> NoSegment, rec |-> 0, ceiling |-> -1, weight |-> 1]
OnCard(c, r) ==
    [c |-> c, new |-> FALSE,
     floor |-> IF Ceiling(r[c]) > 0 THEN Min({KVFloor[c], Startup}) ELSE KVFloor[c],
     used |-> r[c].used, cap |-> ObservedCap(r[c], claim[c].inst.phase),
     rec |-> claim[c].inst.kv, ceiling |-> Ceiling(r[c]),
     weight |-> IF r[c].busy THEN 2 ELSE 1]
Engines(r) == {OnCard(c, r) : c \in Charged(r)}

KVHeld(e) == Max({e.used, e.floor})
Total(Bytes(_), es) == SumFunctionOnSet([e \in es |-> Bytes(e)], es)
MinimumReserve(e) == Footprint[e.c] + e.floor
HeldBytes(e) == Footprint[e.c] + KVHeld(e)

MaximumRoom(r) == Card - Total(MinimumReserve, Engines(r))
HeldRoom(r) == Card - Total(HeldBytes, Engines(r))

Admissible(c, r) ==
    /\ Judgeable(r)
    /\ MaximumRoom(r) >= Footprint[c] + KVFloor[c]
    /\ HeldRoom(r) >= Footprint[c] + KVFloor[c]

-----------------------------------------------------------------------------
(* The plan of a card: planKVLimits and what is written of it.              *)

\* The order of the plan: by claim name.
Position(e) == 2 * (CHOOSE i \in DOMAIN Order : Order[i] = e.c) + (IF e.new THEN 1 ELSE 0)
First(p) == CHOOSE l \in p : \A m \in p : Position(l.e) <= Position(m.e)

\* Each engine keeps what it holds and a share of the rest by weight; what the
\* division leaves over goes one by one in name order.
Spare(es) == Card - Total(HeldBytes, es)
Weights(es) == Total(LAMBDA e : e.weight, es)
Extra(es, e) == (Spare(es) * e.weight) \div Weights(es)
LeftOver(es) == Spare(es) - Total(LAMBDA e : Extra(es, e), es)
Rank(es, e) == Cardinality({f \in es : Position(f) <= Position(e)})
Limit(es, e) ==
    LET share == KVHeld(e) + Extra(es, e) + (IF Rank(es, e) <= LeftOver(es) THEN 1 ELSE 0)
    IN  Clamp(share, e.ceiling)

Plannable(es) ==
    /\ \A e \in es : Clamp(KVHeld(e), e.ceiling) = KVHeld(e)
    /\ Spare(es) >= 0

PlanKVLimits(es) == {[e |-> e, limit |-> Limit(es, e)] : e \in es}

Shrinks(p) == {l \in p : l.e.cap >= 0 /\ l.limit < l.e.cap}
Grows(p) == {l \in p : l.e.cap >= 0 /\ l.limit > l.e.cap}
LowersRecord(l) == l.limit < l.e.rec

\* Mutant: the records that go up first.
NextRecord_RaisesFirst(p) ==
    First(IF \E l \in p : ~LowersRecord(l) THEN {l \in p : ~LowersRecord(l)} ELSE p)

\* The records that go down are written before the ones that go up.
NextRecord(p) ==
    First(IF \E l \in p : LowersRecord(l) THEN {l \in p : LowersRecord(l)} ELSE p)

\* Mutant: a limit in force is taken for room that is free.
Confirmed_LimitOnly(r, written) ==
    \A l \in written : Exists(r[l.e.c]) /\ r[l.e.c].cap = l.limit

\* Every written limit is in force in the reading, and no engine is past it.
Confirmed(r, written) ==
    \A l \in written :
        Exists(r[l.e.c]) /\ r[l.e.c].cap = l.limit /\ r[l.e.c].used <= l.limit

\* Half of an odd limit is rounded up, as shortOfKV and heldToUnderHalf do.
Half(n) == n - (n \div 2)

Owed(p) == {l.e.c : l \in {l \in p : /\ l.e.cap > 0 /\ l.e.used >= Half(l.e.cap)
                                     /\ l.limit > l.e.cap
                                     /\ l.limit - l.e.cap >= MinChange}}
LeftUnfinished(p) == \E l \in p : l.e.cap >= 0 /\ l.e.cap # l.e.rec
AtRest(p) == \A l \in p : l.e.weight = 1
HeldToUnderHalf(p) == \E l \in p : l.e.cap >= 0 /\ l.e.cap < Half(l.limit)
NeedsDividing(p) ==
    \/ Owed(p) \cap divided.owed # {}
    \/ LeftUnfinished(p)
    \/ (AtRest(p) /\ HeldToUnderHalf(p))
WorthWriting(p) ==
    \E l \in p : l.e.cap >= 0 /\ Max({l.limit - l.e.cap, l.e.cap - l.limit}) >= MinChange

\* What a card is divided for: its instances, and which of them failed.
Composition ==
    {<<c, claim[c].inst.phase = "failed">> : c \in {c \in Claims : claim[c].inst # NoInst}}

-----------------------------------------------------------------------------
(* Calls of a pass, and how they fail.                                      *)

Fault(kind) ==
    /\ kind \in scenario /\ faults < MaxFaults
    /\ faults' = faults + 1 /\ UNCHANGED <<bursts, scenario>>

\* runtimeReadings.of: the reading the pass has, or else a snapshot.
Reads(reading) ==
    \/ reading = pass.reading /\ reading # NoReading /\ UNCHANGED budget
    \/ /\ pass.reading = NoReading
       /\ \/ reading = [kind |-> "read", of |-> Snapshot] /\ UNCHANGED budget
          \/ reading = Unread /\ Fault("rpc")

Readings == {pass.reading, [kind |-> "read", of |-> Snapshot], Unread}

\* The runtime takes a limit once it knows the capacity the engine started
\* with, and caps the limit at it.  An engine that is stopping may have lost
\* that figure.
Limited(c, limit) ==
    IF engine[c].cap = NoSegment THEN engine
    ELSE [engine EXCEPT ![c].cap = Clamp(limit, Ceiling(engine[c]))]

SetKVLimit(c, limit, answer) ==
    \/ /\ answer = "ok" /\ engine[c].phase \in {"active", "stopping"}
       /\ engine' = Limited(c, limit) /\ UNCHANGED budget
    \/ /\ answer = "error" /\ engine[c].phase # "active"
       /\ UNCHANGED <<engine, budget>>
    \/ /\ answer = "error" /\ Fault("rpc")
       /\ \/ UNCHANGED engine
          \/ engine[c].phase \in {"active", "stopping"} /\ engine' = Limited(c, limit)

\* The runtime starts a model once, and returns the running one after that.
StartedBy(c) ==
    IF Exists(engine[c]) THEN engine
    ELSE [engine EXCEPT ![c] = [NoEngine EXCEPT !.phase = "booting"]]

\* "lost" is an answer that did not arrive, whether the engine started or not.
Activate(c, answer) ==
    \/ /\ answer = "ok" /\ engine[c].phase # "failed"
       /\ engine' = StartedBy(c) /\ UNCHANGED budget
    \/ answer = "refused" /\ engine[c].phase = "failed" /\ UNCHANGED <<engine, budget>>
    \/ answer \in {"refused", "unsent"} /\ Fault("rpc") /\ UNCHANGED engine
    \/ answer = "lost" /\ Fault("rpc") /\ engine' \in {engine, StartedBy(c)}

\* A write of the claim from the pass's copy of it.  A claim written since the
\* copy was read gives a conflict.
Update(c, new, answer) ==
    \/ /\ answer = "ok" /\ claim[c] = pass.base
       /\ claim' = [claim EXCEPT ![c] = new] /\ UNCHANGED budget
    \/ answer = "conflict" /\ claim[c] # pass.base /\ UNCHANGED <<claim, budget>>
    \/ /\ answer = "error" /\ Fault("api")
       /\ \/ UNCHANGED claim
          \/ claim[c] = pass.base /\ claim' = [claim EXCEPT ![c] = new]

-----------------------------------------------------------------------------
(* A pass of Reconcile: placement.                                          *)

At(pc) == pass.pc = pc

EndPass == pass' = Idle

\* A pass works from the claim as the cache shows it.  Where the cache is not
\* said to lag it has caught up by then.
Begin(c) ==
    /\ At("idle")
    /\ \E pm \in {claim[c], cache[c]} :
          /\ pm.life \in {"live", "deleted"}
          /\ IF pm = claim[c] THEN UNCHANGED budget ELSE Fault("lag")
          /\ pass' = [Idle EXCEPT !.pc = IF pm.life = "deleted" THEN "drain"
                                         ELSE IF pm.inst = NoInst THEN "place" ELSE "health",
                                  !.c = c, !.base = pm, !.inst = pm.inst]
    /\ UNCHANGED <<claim, cache, world, divided>>

\* Where a plan starts: with its shrinks, or with its records when none shrinks.
CarryOut(p, why, reading) ==
    pass' = [pass EXCEPT !.pc = IF Shrinks(p) = {} THEN "record" ELSE "shrink",
                         !.todo = IF Shrinks(p) = {} THEN p ELSE Shrinks(p),
                         !.plan = p, !.why = why, !.reading = reading]

\* A claim that is refused goes on to its status.
Place ==
    /\ At("place")
    /\ \E reading \in Readings :
          /\ Reads(reading)
          /\ IF reading.kind = "read" /\ Admissible(pass.c, reading.of)
             THEN LET es == Engines(reading.of) \cup {Newcomer(pass.c)}
                  IN  IF Plannable(es) THEN CarryOut(PlanKVLimits(es), "placement", reading)
                      ELSE pass' = [pass EXCEPT !.pc = "status", !.reading = reading]
             ELSE pass' = [pass EXCEPT !.pc = "status", !.reading = reading]
    /\ UNCHANGED <<claim, cache, world, divided>>

\* The list of claims the account is built from could not be read.
PlaceUnlisted ==
    At("place") /\ Fault("api") /\ EndPass /\ UNCHANGED <<claim, cache, world, divided>>

-----------------------------------------------------------------------------
(* arrangeCard: shrink, confirm, record, grow, confirm.                     *)

Settled == [pass EXCEPT !.plan = {}, !.todo = {}, !.done = {}, !.why = "none"]

\* A placement is refused, and a division is left for a later round.
ArrangeFailed(reading) ==
    IF pass.why = "placement"
    THEN pass' = [Settled EXCEPT !.pc = "status", !.reading = reading] /\ UNCHANGED divided
    ELSE EndPass /\ divided' = [divided EXCEPT !.owed = Owed(pass.plan)]

Divided(extra) == [known |-> TRUE, for |-> Composition \cup extra, owed |-> {}]

PlannedFor(c) == First({l \in pass.plan : l.e.c = c}).limit

\* A placement whose room is made stands, also when a neighbour is still to grow.
ArrangeDone(reading, grown) ==
    IF pass.why = "placement"
    THEN /\ pass' = [Settled EXCEPT !.pc = "reserve", !.reading = reading,
                                    !.inst = Instance("activating", PlannedFor(pass.c))]
         /\ divided' = Divided({<<pass.c, FALSE>>})
    ELSE IF grown THEN EndPass /\ divided' = Divided({})
                  ELSE ArrangeFailed(reading)

Shrink ==
    /\ At("shrink")
    /\ \E answer \in {"ok", "error"} :
       LET l == First(pass.todo) IN
          /\ SetKVLimit(l.e.c, l.limit, answer)
          /\ pass' = IF answer = "error"
                     THEN [pass EXCEPT !.pc = "back", !.todo = pass.done, !.done = {},
                                       !.reading = NoReading]
                     ELSE [pass EXCEPT !.pc = IF pass.todo = {l} THEN "confirm" ELSE "shrink",
                                       !.done = @ \cup {l}, !.todo = @ \ {l},
                                       !.reading = NoReading]
    /\ UNCHANGED <<claim, cache, route, load, divided>>

\* A lower limit evicts nothing: the room of a shrink is there once a reading
\* finds the engine inside its limit.
ConfirmShrink ==
    /\ At("confirm")
    /\ \E reading \in Readings :
          /\ Reads(reading)
          /\ pass' = IF reading.kind = "read" /\ Confirmed(reading.of, pass.done)
                     THEN [pass EXCEPT !.pc = "record", !.todo = pass.plan,
                                       !.done = {}, !.reading = reading]
                     ELSE [pass EXCEPT !.pc = "back", !.todo = pass.done, !.done = {}]
    /\ UNCHANGED <<claim, cache, world, divided>>

\* What a shrunk engine was held to before, and no more than its record.
Before(l) ==
    Clamp(IF l.e.rec > 0 /\ l.e.rec < l.e.cap THEN l.e.rec ELSE l.e.cap, l.e.ceiling)

TakeBack ==
    /\ At("back")
    /\ LET left == {l \in pass.todo : Before(l) > l.limit}
           l == First(left)
       IN  IF left = {}
           THEN ArrangeFailed(NoReading) /\ UNCHANGED <<engine, budget>>
           ELSE \E answer \in {"ok", "error"} :
                   /\ SetKVLimit(l.e.c, Before(l), answer)
                   /\ pass' = [pass EXCEPT !.todo = IF answer = "ok" THEN left \ {l} ELSE {}]
                   /\ UNCHANGED divided
    /\ UNCHANGED <<claim, cache, route, load>>

\* Mutant: the limit of the claim that is being placed is written too.
Recorded_Newcomer(l) == [claim EXCEPT ![l.e.c].inst.kv = l.limit]

\* recordKVLimit reads the claim fresh and retries a conflict.  The claim that
\* is being placed has no instance to write the limit to yet.
Recorded(l) ==
    IF claim[l.e.c].inst = NoInst THEN claim ELSE [claim EXCEPT ![l.e.c].inst.kv = l.limit]

RecordLimit ==
    /\ At("record")
    /\ LET l == NextRecord(pass.todo) IN
       \/ /\ claim' = Recorded(l) /\ UNCHANGED budget
          /\ IF pass.todo # {l} THEN pass' = [pass EXCEPT !.todo = @ \ {l}] /\ UNCHANGED divided
             ELSE IF Grows(pass.plan) = {} THEN ArrangeDone(pass.reading, TRUE)
             ELSE pass' = [pass EXCEPT !.pc = "grow", !.todo = Grows(pass.plan)] /\ UNCHANGED divided
       \/ /\ claim' \in {claim, Recorded(l)} /\ Fault("api")
          /\ ArrangeFailed(pass.reading)
    /\ UNCHANGED <<cache, world>>

Grow ==
    /\ At("grow")
    /\ \E answer \in {"ok", "error"} :
       LET l == First(pass.todo) IN
          /\ SetKVLimit(l.e.c, l.limit, answer)
          /\ IF answer = "error" THEN ArrangeDone(NoReading, FALSE)
             ELSE /\ pass' = [pass EXCEPT !.pc = IF pass.todo = {l} THEN "confirmGrow" ELSE "grow",
                                          !.todo = @ \ {l}, !.reading = NoReading]
                  /\ UNCHANGED divided
    /\ UNCHANGED <<claim, cache, route, load>>

ConfirmGrow ==
    /\ At("confirmGrow")
    /\ \E reading \in Readings :
          /\ Reads(reading)
          /\ IF reading.kind = "read"
             THEN ArrangeDone(reading, Confirmed(reading.of, Grows(pass.plan)))
             ELSE ArrangeDone(NoReading, FALSE)
    /\ UNCHANGED <<claim, cache, world>>

-----------------------------------------------------------------------------
(* The instance is recorded before its engine is asked for.                 *)

\* After an error other than a conflict, handleActivationError writes the
\* status once more, the new instance included.
Reserve ==
    /\ At("reserve")
    /\ LET new == [pass.base EXCEPT !.inst = pass.inst] IN
       \E answer \in {"ok", "conflict", "error"} :
          /\ Update(pass.c, new, answer)
          /\ CASE answer = "ok" -> pass' = [pass EXCEPT !.pc = "activate", !.base = new]
               [] answer = "conflict" -> EndPass
               [] answer = "error" -> pass' = [pass EXCEPT !.pc = "status"]
    /\ UNCHANGED <<cache, world, divided>>

\* Mutant: a start whose answer was lost is taken back as well.
AfterStart_TakesBack(answer) ==
    IF answer = "ok" THEN [pass EXCEPT !.pc = "health", !.reading = NoReading]
    ELSE [pass EXCEPT !.pc = "status", !.reading = NoReading, !.inst = NoInst]

\* Only a start known not to have happened is taken back from the record.
AfterStart(answer) ==
    CASE answer = "ok" -> [pass EXCEPT !.pc = "health", !.reading = NoReading]
      [] answer = "lost" -> [pass EXCEPT !.pc = "status", !.reading = NoReading]
      [] OTHER -> [pass EXCEPT !.pc = "status", !.reading = NoReading, !.inst = NoInst]

\* The route is kept at port 0 until the engine is found ready.
Start ==
    /\ At("activate")
    /\ \E answer \in {"ok", "refused", "unsent", "lost"} :
          /\ Activate(pass.c, answer)
          /\ route' = IF answer = "ok" THEN route \ {pass.c} ELSE route
          /\ pass' = AfterStart(answer)
    /\ UNCHANGED <<claim, cache, load, divided>>

-----------------------------------------------------------------------------
(* reconcileInstanceHealth.                                                 *)

KVLimitInForce(kv, o) == kv = 0 \/ (Exists(o) /\ o.cap = Clamp(kv, Ceiling(o)))
KVLimitWithinRecord(kv, o) ==
    kv = 0 \/ (Exists(o) /\ o.cap >= 0 /\ o.cap <= Clamp(kv, Ceiling(o)))

\* The record an engine is judged by: the API server's when the copy's is not
\* in force, lowered to the startup capacity once the engine is inside it.
JudgedRecord(inst, o, fresh) ==
    LET kv == IF o.phase = "active" /\ ~KVLimitInForce(inst.kv, o) THEN fresh ELSE inst.kv
        target == Clamp(kv, Ceiling(o))
    IN  IF target > 0 /\ target < kv /\ o.cap >= 0 /\ o.cap <= target /\ o.used <= target
        THEN target ELSE kv

\* Mutant: an engine is routed as soon as it serves.
DesiredInstanceState_AnyLimit(inst, o) ==
    IF inst.phase = "failed" \/ o.phase = "failed" THEN "failed"
    ELSE IF o.phase = "active" THEN "active" ELSE "activating"

DesiredInstanceState(inst, o) ==
    IF inst.phase = "failed" \/ o.phase = "failed" THEN "failed"
    ELSE IF /\ o.phase = "active"
            /\ \/ KVLimitInForce(inst.kv, o)
               \/ inst.phase = "active" /\ KVLimitWithinRecord(inst.kv, o)
    THEN "active" ELSE "activating"

\* An engine is pulled down to its record at any time, and raised to it only
\* before it is routed.
MustHold(inst, o) ==
    /\ o.phase = "active" /\ ~KVLimitInForce(inst.kv, o)
    /\ ~KVLimitWithinRecord(inst.kv, o) \/ inst.phase # "active"

\* Mutant: an instance without an engine is left to wait for one.
EngineMissing_Never(inst, o) == FALSE

EngineMissing(inst, o) == inst.phase = "activating" /\ o.phase = "none"

\* The record as judgeKVLimit finds it: fresh, or the copy's when the claim
\* has no instance.
FreshRecord == IF claim[pass.c].inst = NoInst THEN pass.inst.kv ELSE claim[pass.c].inst.kv

Judge(reading, fresh, mayHold) ==
    LET o == reading.of[pass.c]
        inst == [pass.inst EXCEPT !.kv = JudgedRecord(pass.inst, o, fresh)]
    IN  pass' = [pass EXCEPT !.pc = IF mayHold /\ MustHold(inst, o) THEN "hold" ELSE "route",
                             !.inst = inst, !.want = DesiredInstanceState(inst, o),
                             !.reading = reading]

Health ==
    /\ At("health")
    /\ \E reading \in Readings :
          /\ Reads(reading)
          /\ IF reading.kind # "read"
             THEN pass' = [pass EXCEPT !.pc = "status", !.reading = reading]
             ELSE IF EngineMissing(pass.inst, reading.of[pass.c])
             THEN pass' = [pass EXCEPT !.pc = "missing", !.reading = reading]
             ELSE Judge(reading, FreshRecord, TRUE)
    /\ UNCHANGED <<claim, cache, world, divided>>

\* Dropping an instance takes its route back.
StartMissing ==
    /\ At("missing")
    /\ \E answer \in {"ok", "refused", "unsent", "lost"} :
          /\ Activate(pass.c, answer)
          /\ IF answer = "refused"
             THEN /\ route' = route \ {pass.c}
                  /\ pass' = [pass EXCEPT !.pc = "status", !.reading = NoReading, !.inst = NoInst]
             ELSE /\ UNCHANGED route
                  /\ pass' = [pass EXCEPT !.pc = "status", !.reading = NoReading]
    /\ UNCHANGED <<claim, cache, load, divided>>

\* An engine that was routed leaves the route before it is read back.
Hold ==
    /\ At("hold")
    /\ \E answer \in {"ok", "error"} :
          /\ SetKVLimit(pass.c, Clamp(pass.inst.kv, Ceiling(pass.reading.of[pass.c])), answer)
          /\ pass' = [pass EXCEPT !.pc = IF answer = "ok" /\ pass.inst.phase # "active"
                                         THEN "readback" ELSE "route",
                                  !.reading = NoReading]
    /\ UNCHANGED <<claim, cache, route, load, divided>>

ReadBack ==
    /\ At("readback")
    /\ \E reading \in Readings :
          /\ Reads(reading)
          /\ IF reading.kind = "read" THEN Judge(reading, FreshRecord, FALSE)
             ELSE pass' = [pass EXCEPT !.pc = "route", !.reading = reading]
    /\ UNCHANGED <<claim, cache, world, divided>>

\* An instance changes its phase only when its route could be written.
Routes ==
    /\ At("route")
    /\ \/ /\ route' = IF pass.want = "active" THEN route \cup {pass.c} ELSE route \ {pass.c}
          /\ pass' = [pass EXCEPT !.pc = "status", !.inst.phase = pass.want, !.want = "none"]
          /\ UNCHANGED budget
       \/ /\ Fault("api") /\ UNCHANGED route
          /\ pass' = [pass EXCEPT !.pc = "status", !.want = "none"]
    /\ UNCHANGED <<claim, cache, engine, load, divided>>

UpdateStatus ==
    /\ At("status")
    /\ \E answer \in {"ok", "conflict", "error"} :
          /\ Update(pass.c, [pass.base EXCEPT !.inst = pass.inst], answer)
          /\ IF answer = "ok"
             THEN pass' = [pass EXCEPT !.pc = "divide", !.base = Idle.base, !.inst = NoInst]
             ELSE EndPass
    /\ UNCHANGED <<cache, world, divided>>

-----------------------------------------------------------------------------
(* divideCards: the last step of a pass.                                    *)

\* A card whose engines changed is divided anew; a card first seen, when a move
\* is worth writing; any other, when it also needs it.
Why == IF ~divided.known THEN "first" ELSE IF divided.for # Composition THEN "changed" ELSE "load"

LeaveAlone(p) ==
    /\ Why # "changed"
    /\ ~WorthWriting(p) \/ (Why = "load" /\ ~NeedsDividing(p))

Divide ==
    /\ At("divide")
    /\ Composition # {}
    /\ \E reading \in Readings :
          /\ Reads(reading)
          /\ IF reading.kind # "read" \/ ~Judgeable(reading.of)
             THEN EndPass /\ divided' = [divided EXCEPT !.owed = {}]
             ELSE LET es == Engines(reading.of)
                      p == PlanKVLimits(es)
                  IN  IF es = {} THEN EndPass /\ UNCHANGED divided
                      ELSE IF ~Plannable(es) THEN EndPass /\ divided' = [divided EXCEPT !.owed = {}]
                      ELSE IF LeaveAlone(p)
                      THEN EndPass /\ divided' = [known |-> TRUE, for |-> Composition, owed |-> Owed(p)]
                      ELSE CarryOut(p, Why, reading) /\ UNCHANGED divided
    /\ UNCHANGED <<claim, cache, world>>

\* The card is empty, its round is not up yet, or the claims cannot be listed.
SkipDivide ==
    At("divide") /\ EndPass /\ UNCHANGED <<claim, cache, world, divided, budget>>

-----------------------------------------------------------------------------
(* finalize: the pass of a deleted claim.                                   *)

\* The route is taken back first, as far as the write succeeds.
Unrouted == {route \ {pass.c}} \cup (IF "api" \in scenario THEN {route} ELSE {})

\* An engine that served is given time to finish its requests, and is stopped
\* with some left when that time is up.
DrainWait ==
    /\ At("drain") /\ pass.inst.phase = "active" /\ pass.c \in load
    /\ route' \in Unrouted /\ EndPass
    /\ UNCHANGED <<claim, cache, engine, load, divided, budget>>

Drained ==
    /\ At("drain")
    /\ route' \in IF pass.inst = NoInst THEN {route} ELSE Unrouted
    /\ pass' = [pass EXCEPT !.pc = IF pass.inst = NoInst THEN "unfinalize" ELSE "stop"]
    /\ UNCHANGED <<claim, cache, engine, load, divided, budget>>

Stopping(c) ==
    IF Exists(engine[c]) THEN [engine EXCEPT ![c].phase = "stopping"] ELSE engine

\* Mutant: the finalizer goes although the stop failed.
Stop_Forgiven ==
    /\ At("stop")
    /\ route' \in Unrouted
    /\ \/ engine' = Stopping(pass.c) /\ UNCHANGED budget
       \/ engine' \in {engine, Stopping(pass.c)} /\ Fault("rpc")
    /\ pass' = [pass EXCEPT !.pc = "unfinalize"]
    /\ UNCHANGED <<claim, cache, load, divided>>

\* A stop that is not known to be done is tried again while the claim is there.
Stop ==
    /\ At("stop")
    /\ route' \in Unrouted
    /\ \/ /\ engine' = Stopping(pass.c) /\ UNCHANGED budget
          /\ pass' = [pass EXCEPT !.pc = "unfinalize"]
       \/ engine' \in {engine, Stopping(pass.c)} /\ Fault("rpc") /\ EndPass
    /\ UNCHANGED <<claim, cache, load, divided>>

RemoveFinalizer ==
    /\ At("unfinalize")
    /\ \E answer \in {"ok", "conflict", "error"} :
          Update(pass.c, [life |-> "gone", inst |-> NoInst], answer)
    /\ EndPass
    /\ UNCHANGED <<cache, world, divided>>

-----------------------------------------------------------------------------
(* Around the pass: users, the engines of the runtime, their load.          *)

Create(c) ==
    /\ claim[c].life = "absent" /\ claim' = [claim EXCEPT ![c].life = "live"]
    /\ UNCHANGED <<cache, world, pass, divided, budget>>

Delete(c) ==
    /\ "delete" \in scenario
    /\ claim[c].life = "live" /\ claim' = [claim EXCEPT ![c].life = "deleted"]
    /\ UNCHANGED <<cache, world, pass, divided, budget>>

CatchUp(c) ==
    /\ "lag" \in scenario /\ cache[c] # claim[c]
    /\ cache' = [cache EXCEPT ![c] = claim[c]]
    /\ UNCHANGED <<claim, world, pass, divided, budget>>

\* The controller stops, and its memory with it.
Crash ==
    /\ Fault("crash") /\ pass' = Idle /\ divided' = NotDivided
    /\ UNCHANGED <<claim, cache, world>>

EngineStep(c, e) ==
    engine' = [engine EXCEPT ![c] = e] /\ UNCHANGED <<claim, cache, route, pass, divided>>

\* A ready engine runs under its allocator's default until it is held to less.
EngineReady(c) ==
    /\ engine[c].phase = "booting"
    /\ EngineStep(c, [phase |-> "active", cap |-> Startup, used |-> 0])
    /\ UNCHANGED <<load, budget>>

\* The segment of an engine that died stays readable until it is started again.
EngineDies(c) ==
    /\ engine[c].phase \in {"booting", "active"} /\ Fault("engine")
    /\ \/ EngineStep(c, [engine[c] EXCEPT !.phase = "restarting"])
       \/ EngineStep(c, [NoEngine EXCEPT !.phase = "failed"])
    /\ load' = load \ {c}

EngineRestarts(c) ==
    /\ engine[c].phase = "restarting"
    /\ EngineStep(c, [NoEngine EXCEPT !.phase = "booting"])
    /\ UNCHANGED <<load, budget>>

EngineExits(c) ==
    /\ engine[c].phase = "stopping" /\ EngineStep(c, NoEngine)
    /\ load' = load \ {c} /\ UNCHANGED budget

\* Requests come while the engine is routed.  While it has some it may map KV
\* up to its limit, and it frees them all when the last one ends.
Arrive(c) ==
    /\ "burst" \in scenario /\ bursts < MaxBursts
    /\ c \in route \ load /\ engine[c].phase = "active"
    /\ load' = load \cup {c} /\ bursts' = bursts + 1
    /\ UNCHANGED <<claim, cache, engine, route, pass, divided, faults, scenario>>

MapKV(c) ==
    /\ c \in load /\ engine[c].phase = "active" /\ engine[c].used < engine[c].cap
    /\ EngineStep(c, [engine[c] EXCEPT !.used = engine[c].cap]) /\ UNCHANGED <<load, budget>>

Finish(c) ==
    /\ c \in load /\ engine[c].phase = "active"
    /\ EngineStep(c, [engine[c] EXCEPT !.used = 0])
    /\ load' = load \ {c} /\ UNCHANGED budget

-----------------------------------------------------------------------------
Init ==
    /\ claim = [c \in Claims |-> [life |-> "absent", inst |-> NoInst]]
    /\ cache = claim
    /\ engine = [c \in Claims |-> NoEngine]
    /\ route = {} /\ load = {}
    /\ pass = Idle /\ divided = NotDivided
    /\ faults = 0 /\ bursts = 0 /\ scenario \in Scenarios

PassStep ==
    \/ Place \/ PlaceUnlisted
    \/ Shrink \/ ConfirmShrink \/ TakeBack \/ RecordLimit \/ Grow \/ ConfirmGrow
    \/ Reserve \/ Start \/ Health \/ StartMissing \/ Hold \/ ReadBack \/ Routes
    \/ UpdateStatus \/ Divide \/ SkipDivide
    \/ DrainWait \/ Drained \/ Stop \/ RemoveFinalizer

EngineSteps(c) ==
    \/ EngineReady(c) \/ EngineDies(c) \/ EngineRestarts(c) \/ EngineExits(c)
    \/ Arrive(c) \/ MapKV(c) \/ Finish(c)

Next ==
    \/ PassStep \/ Crash
    \/ \E c \in Claims : Begin(c) \/ CatchUp(c) \/ Create(c) \/ Delete(c) \/ EngineSteps(c)

\* What goes on goes on to its end: a call returns or times out, so a pass ends;
\* a claim that exists is queued again at the latest after
\* DefaultRequeueDuration, and the division's round comes up; the runtime's
\* supervisor brings engines up and sees them exit; requests end.
Fairness ==
    /\ []<>At("idle")
    /\ []<><<Divide>>_vars \/ <>[](Composition = {})
    /\ \A c \in Claims :
          /\ \/ []<>(pass.c = c /\ ~At("idle"))
             \/ <>[](claim[c].life \notin {"live", "deleted"})
          /\ []<>(engine[c].phase \notin {"booting", "restarting"})
          /\ []<>(engine[c].phase # "stopping")
          /\ []<>(c \notin load)

Spec == Init /\ [][Next]_vars /\ Fairness

-----------------------------------------------------------------------------
(* Properties.                                                              *)

KVMost == Max({Card, Startup})
Instances == {NoInst} \cup [phase : {"activating", "active", "failed"}, kv : 1..Card]
ClaimType == [life : {"absent", "live", "deleted", "gone"}, inst : Instances]

\* The state of claims, engines, routes and divisions stays in its type: an
\* instance has a limit from the start, no record is past the card, no engine
\* maps more than the card has or its segment starts with, and only a claim that
\* exists has an instance.
TypeOK ==
    /\ claim \in [Claims -> ClaimType]
    /\ \A c \in Claims : claim[c].inst # NoInst => claim[c].life \in {"live", "deleted"}
    /\ engine \in [Claims -> [phase : {"none", "booting", "active", "restarting", "stopping", "failed"},
                              cap : NoSegment..KVMost, used : 0..KVMost]]
    /\ route \subseteq Claims /\ load \subseteq Claims
    /\ divided.owed \subseteq Claims
    /\ faults \in 0..MaxFaults /\ bursts \in 0..MaxBursts /\ scenario \in Scenarios

Recording == {c \in Claims : claim[c].inst.phase \in {"activating", "active"}}
Running == {c \in Claims : engine[c].phase \notin {"none", "failed"}}

\* At every moment, in the middle of a division and after a stop at any point of
\* it too, the limits recorded for the engines of the card and their footprints
\* come to no more than the card: "records written part way must not come to
\* more than the card" (arrangeCard).
RecordsFit ==
    SumFunctionOnSet([c \in Claims |-> Footprint[c] + claim[c].inst.kv], Recording) <= Card

\* While no engine restarts by itself and the cache keeps up, what the engines on
\* a card hold, and what the ones on the route may still map, never comes to more
\* than the card, while limits move between them and newcomers start: "an order that never leaves two
\* engines entitled to the same byte" (arrangeCard).
NeverOversubscribed ==
    LET Entitled(c) == IF c \in route /\ engine[c].phase = "active"
                       THEN Max({engine[c].used, engine[c].cap}) ELSE engine[c].used
    IN  scenario \cap {"engine", "lag"} = {} =>
            SumFunctionOnSet([c \in Claims |-> Footprint[c] + Entitled(c)], Running) <= Card

\* While no engine restarts by itself and the cache keeps up, an engine on the
\* route is never held to more than its instance records, so traffic cannot
\* grow it into memory recorded for another: "An engine on a GPU becomes routable
\* only once it holds the KV limit this instance records" (judgeEngine).
HeldWithinRecord ==
    scenario \cap {"engine", "lag"} = {} =>
        \A c \in route : engine[c].phase = "active" =>
            claim[c].inst # NoInst /\ engine[c].cap <= claim[c].inst.kv

\* No engine boots or serves without an instance that answers for it.  Such an
\* engine would keep its card out of use for ever (ensureActivated,
\* deactivateInstances).
EngineAnswersToClaim ==
    "lag" \notin scenario =>
        \A c \in Claims :
            engine[c].phase \in {"booting", "active", "restarting"} => claim[c].inst # NoInst

\* A claim there is room for is served in the end, whatever call failed or was
\* lost on the way, unless it is deleted or its engine fails for good.
EventuallyServed ==
    "lag" \notin scenario =>
        \A c \in Claims :
            claim[c].life = "live" ~>
                \/ claim[c].life # "live" \/ claim[c].inst.phase = "failed"
                \/ c \in route /\ claim[c].inst.phase = "active"

\* A deleted claim goes, and its engine with it.
DeletedGoes ==
    "lag" \notin scenario =>
        \A c \in Claims :
            claim[c].life = "deleted" ~> claim[c].life = "gone" /\ engine[c].phase = "none"


=============================================================================
