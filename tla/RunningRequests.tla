--------------------------- MODULE RunningRequests ---------------------------
(***************************************************************************)
(* The cross-gateway running-request counter (cache_running_requests.go)   *)
(* and the per-replica in-flight cap built on it (gateway_inflight.go).    *)
(*                                                                         *)
(* Redis keeps one hash per pod, a field per gateway process, and a        *)
(* liveness set.  Gateways add and take off one per request, admit against *)
(* the live sum in one script, exclude silent gateways from that sum,      *)
(* delete the fields of long-gone ones, and in a hygiene pass correct      *)
(* their own field when it stays away from the local count.                *)
(*                                                                         *)
(* The local count of a pod is the number of its tracked requests, which   *)
(* is what PodStats establishes; here it is Local(p, g).  A process that   *)
(* restarts takes a new instance ID, so a restart is another gateway.      *)
(* Redis runs a script atomically: one script call is one step.  A call    *)
(* that fails may have run, may run later or may never run.                *)
(***************************************************************************)
EXTENDS Integers, FiniteSets, FiniteSetsExt, Functions

CONSTANTS Pods, Gateways, Requests,
          GatewayOf,      \* the gateway a request's stream ends at
          Capped,         \* requests whose profile sets requestsInflight
          Early,          \* capped requests whose router calls AdmitTarget
          Queued,         \* capped requests routed by the SLO queue router
          Limit,          \* requestsInflight
          ConfirmPasses,  \* runningRequestsDriftConfirmPasses
          MaxFaults,      \* bound on failed calls and missed heartbeats
          MaxCrashes,     \* bound on process deaths
          NoPod

ASSUME RunningRequestsAssumption ==
  /\ IsFiniteSet(Requests) /\ IsFiniteSet(Gateways)
  /\ GatewayOf \in [Requests -> Gateways]
  /\ Capped \subseteq Requests
  /\ Early \subseteq Capped /\ Queued \subseteq Capped /\ Early \cap Queued = {}
  /\ Limit \in Nat \ {0}
  /\ ConfirmPasses \in Nat \ {0}
  /\ MaxFaults \in Nat /\ MaxCrashes \in Nat
  /\ NoPod \notin Pods

VARIABLES
  hash,           \* [Pods -> a function from some gateways to counts]
  beat,           \* a gateway's age in the liveness set
  proc,           \* process state of a gateway
  pc,             \* where a request is
  pod,            \* its target
  admitted,       \* requests with ReplicaInflightAdmitted set
  incr,           \* outcome of addPodStats' increment (runningReqIncrDone/OK)
  drift,          \* runningRequestsDrift
  hygiene,        \* the hygiene goroutine
  pendingPrunes,  \* runningRequestsPendingPrunes
  late,           \* scripts whose caller gave up but which Redis will still run
  faults,         \* failed calls and missed heartbeats so far
  touched,        \* history: fields a failed call or a correction has changed
  missed,         \* history: running gateways that were out of the liveness window
  unannounced     \* history: gateways whose first heartbeat failed

vars == <<hash, beat, proc, pc, pod, admitted, incr, drift, hygiene, pendingPrunes,
          late, faults, touched, missed, unannounced>>

requestVars == <<pc, pod, admitted, incr>>
hygieneVars == <<drift, hygiene, pendingPrunes>>
serverVars  == <<beat, proc, missed, unannounced>>

NoHash  == [g \in {} |-> 0]
NoDrift == [direction |-> 0, passes |-> 0, minGap |-> 0]
NoFix   == [p \in Pods |-> 0]
NoDel   == [p \in Pods |-> {}]
Resting == [at |-> "idle", del |-> NoDel, fix |-> NoFix]

\* States of a request.  It is tracked (counted locally) between addPodStats and donePodStats.
Untracked == {"new", "routing", "placed", "releasing", "moving"}
Tracked   == {"enforcing", "running"}
Over      == {"finishing", "done", "lost"}

Init ==
  /\ hash = [p \in Pods |-> NoHash]
  /\ beat = [g \in Gateways |-> "gone"]
  /\ proc = [g \in Gateways |-> "off"]
  /\ pc = [r \in Requests |-> "new"]
  /\ pod = [r \in Requests |-> NoPod]
  /\ admitted = {}
  /\ incr = [r \in Requests |-> "none"]
  /\ drift = [g \in Gateways |-> [p \in Pods |-> NoDrift]]
  /\ hygiene = [g \in Gateways |-> Resting]
  /\ pendingPrunes = [g \in Gateways |-> NoDel]
  /\ late = {}
  /\ faults = 0
  /\ touched = {}
  /\ missed = {}
  /\ unannounced = {}

-----------------------------------------------------------------------------
(***************************************************************************)
(* The Redis side.                                                         *)
(***************************************************************************)

FieldOf(h, g) == IF g \in DOMAIN h THEN h[g] ELSE 0
Field(p, g)   == FieldOf(hash[p], g)

WithField(h, g, v) == [x \in DOMAIN h \cup {g} |-> IF x = g THEN v ELSE h[x]]

\* Mutant: HINCRBY without the floor.
IncrDecr_NoFloor(h, g, delta) ==
  IF delta < 0 /\ DOMAIN h = {} THEN h
  ELSE WithField(h, g, FieldOf(h, g) + delta)

\* runningRequestsIncrDecrScript: floor at zero, and a negative delta does not create the key.
IncrDecr(h, g, delta) ==
  IF delta < 0 /\ DOMAIN h = {} THEN h
  ELSE WithField(h, g, Max({0, FieldOf(h, g) + delta}))

Write(p, g, delta) == hash' = [hash EXCEPT ![p] = IncrDecr(@, g, delta)]

\* This gateway's local atomic for the pod: its tracked requests.
Local(p, g) == Cardinality({r \in Requests : GatewayOf[r] = g /\ pod[r] = p /\ pc[r] \in Tracked})

\* Mutant: the local count stands in for the own field, as it does on the read side.
OwnCount_Substituted(p, g, local) == local

\* runningRequestsAdmitScript: the own field, never below the local count passed in.
OwnCount(p, g, local) == Max({Field(p, g), local})

\* runningRequestsAdmitScript: live gateways' fields, the own one always among them.
AdmitSum(p, g, local) ==
  LET others == {x \in Gateways \ {g} : beat[x] = "fresh"}
  IN  OwnCount(p, g, local) + SumFunctionOnSet([x \in Gateways |-> Field(p, x)], others)

\* The script's effect: +1 on the own field if the sum is under the limit.
AdmitScript(p, g, local) ==
  hash' = IF AdmitSum(p, g, local) < Limit THEN [hash EXCEPT ![p] = IncrDecr(@, g, 1)] ELSE hash

\* A call of gateway g on pod p fails: the history notes it.
Fault(p, g) ==
  /\ faults < MaxFaults
  /\ faults' = faults + 1
  /\ touched' = touched \cup {<<p, g>>}

NoFault == UNCHANGED <<faults, touched>>

\* The script of a failed +1 or -1 call: it ran and the reply was lost, it will still run, or
\* it never will.
FailedWrite(r, kind, delta) ==
  \/ Write(pod[r], GatewayOf[r], delta) /\ UNCHANGED late
  \/ late' = late \cup {[req |-> r, kind |-> kind, pod |-> pod[r], local |-> 0]} /\ UNCHANGED hash
  \/ UNCHANGED <<hash, late>>

\* A script whose caller timed out runs after all.
LateScript(x) ==
  /\ x \in late
  /\ late' = late \ {x}
  /\ LET g == GatewayOf[x.req]
     IN  /\ CASE x.kind = "admit" -> AdmitScript(x.pod, g, x.local)
              [] x.kind = "incr"  -> Write(x.pod, g, 1)
              [] x.kind = "decr"  -> Write(x.pod, g, -1)
         /\ touched' = touched \cup {<<x.pod, g>>}
  /\ UNCHANGED <<faults>>
  /\ UNCHANGED requestVars /\ UNCHANGED hygieneVars /\ UNCHANGED serverVars

\* A pod's hash idles out (runningRequestsTTL).  Every write and every hygiene pass with a
\* tracked request pushes the expiry back, so nothing is being routed to the pod.
Expire(p) ==
  /\ DOMAIN hash[p] # {}
  /\ \A r \in Requests : pod[r] = p => pc[r] \in {"new", "done", "lost"}
  /\ hash' = [hash EXCEPT ![p] = NoHash]
  /\ UNCHANGED late /\ NoFault
  /\ UNCHANGED requestVars /\ UNCHANGED hygieneVars /\ UNCHANGED serverVars

-----------------------------------------------------------------------------
(***************************************************************************)
(* A request: admission, tracking, completion.                             *)
(***************************************************************************)

Move(r, from, to) == pc[r] = from /\ pc' = [pc EXCEPT ![r] = to]
Up(r) == proc[GatewayOf[r]] = "up"

\* Where an admitted request goes on: back into its router, or on to AddRequestCount.
AfterAdmit(r) == IF r \in Early THEN "routing" ELSE "placed"

\* admitRunningRequest, reply {1, sum}.
AdmitOk(r, p) ==
  LET g == GatewayOf[r]
  IN  /\ Up(r) /\ r \in Capped \ Queued
      /\ Move(r, "new", AfterAdmit(r))
      /\ AdmitSum(p, g, Local(p, g)) < Limit
      /\ AdmitScript(p, g, Local(p, g))
      /\ pod' = [pod EXCEPT ![r] = p]
      /\ admitted' = admitted \cup {r}
      /\ UNCHANGED <<incr, late>> /\ NoFault
      /\ UNCHANGED hygieneVars /\ UNCHANGED serverVars

\* admitRunningRequest, reply {0, sum}: the request is refused.
AdmitRejected(r, p) ==
  LET g == GatewayOf[r]
  IN  /\ Up(r) /\ r \in Capped \ Queued
      /\ Move(r, "new", "done")
      /\ AdmitSum(p, g, Local(p, g)) >= Limit
      /\ UNCHANGED <<hash, late, pod, admitted, incr>> /\ NoFault
      /\ UNCHANGED hygieneVars /\ UNCHANGED serverVars

\* admitRunningRequest, Eval error: the local count decides, and the +1 counts as applied unless
\* the call was never sent (admitScriptDidNotRun).
AdmitError(r, p) ==
  LET g == GatewayOf[r]
      local == Local(p, g)
      late1 == [req |-> r, kind |-> "admit", pod |-> p, local |-> local]
  IN  /\ Up(r) /\ r \in Capped \ Queued
      /\ Fault(p, g)
      /\ \/ /\ local < Limit
            /\ Move(r, "new", AfterAdmit(r))
            /\ pod' = [pod EXCEPT ![r] = p]
            /\ \/ /\ \/ AdmitScript(p, g, local) /\ UNCHANGED late
                     \/ late' = late \cup {late1} /\ UNCHANGED hash
                     \/ UNCHANGED <<hash, late>>
                  /\ admitted' = admitted \cup {r}
               \/ UNCHANGED <<hash, late, admitted>>
         \/ /\ local >= Limit
            /\ Move(r, "new", "done")
            /\ UNCHANGED <<hash, late, pod, admitted>>
      /\ UNCHANGED incr
      /\ UNCHANGED hygieneVars /\ UNCHANGED serverVars

\* A request that is not counted by an admission goes on: its profile sets no cap, or its pod
\* dropped out of the cache and AdmitPodRunningRequest fails open (a fault).
PlaceUncounted(r, p) ==
  /\ Up(r) /\ r \notin Queued
  /\ \/ r \notin Capped /\ NoFault /\ Move(r, "new", "placed")
     \/ r \in Capped /\ Fault(p, GatewayOf[r]) /\ Move(r, "new", AfterAdmit(r))
  /\ pod' = [pod EXCEPT ![r] = p]
  /\ UNCHANGED <<hash, late, admitted, incr>>
  /\ UNCHANGED hygieneVars /\ UNCHANGED serverVars

\* routeWithEarlyAdmission: Route (a prefill leg, an index update) returns the target.
RouteReturns(r) ==
  /\ Up(r)
  /\ Move(r, "routing", "placed")
  /\ UNCHANGED <<hash, late, pod, admitted, incr>> /\ NoFault
  /\ UNCHANGED hygieneVars /\ UNCHANGED serverVars

\* routeWithEarlyAdmission: Route fails, or the router admits a second target.  A counted
\* admission is released first.
RouteGivesUp(r) ==
  /\ Up(r)
  /\ \E end \in {"done", "new"} :
       Move(r, "routing", IF r \notin admitted THEN end
                          ELSE IF end = "done" THEN "releasing" ELSE "moving")
  /\ UNCHANGED <<hash, late, pod, admitted, incr>> /\ NoFault
  /\ UNCHANGED hygieneVars /\ UNCHANGED serverVars

\* The state after a release.
AfterRelease(r) == IF pc[r] = "releasing" THEN "done" ELSE "new"

\* ReleasePodRunningRequest; a failed one is not retried.
Release(r) ==
  /\ Up(r)
  /\ pc[r] \in {"releasing", "moving"}
  /\ pc' = [pc EXCEPT ![r] = AfterRelease(r)]
  /\ admitted' = admitted \ {r}
  /\ \/ Write(pod[r], GatewayOf[r], -1) /\ UNCHANGED late /\ NoFault
     \/ Fault(pod[r], GatewayOf[r]) /\ FailedWrite(r, "decr", -1)
  /\ UNCHANGED <<pod, incr>>
  /\ UNCHANGED hygieneVars /\ UNCHANGED serverVars

\* Mutant: the increment is fired whatever the admission did.
AddRequestCount_NoSkip(r) ==
  /\ Up(r)
  /\ Move(r, "placed", "running")
  /\ incr' = [incr EXCEPT ![r] = "pending"]
  /\ UNCHANGED <<hash, late, pod, admitted>> /\ NoFault
  /\ UNCHANGED hygieneVars /\ UNCHANGED serverVars

\* addPodStats: the local count goes up; the increment is skipped if the admission counted.
AddRequestCount(r) ==
  /\ Up(r)
  /\ Move(r, "placed", "running")
  /\ incr' = [incr EXCEPT ![r] = IF r \in admitted THEN "ok" ELSE "pending"]
  /\ UNCHANGED <<hash, late, pod, admitted>> /\ NoFault
  /\ UNCHANGED hygieneVars /\ UNCHANGED serverVars

\* addPodStats, early return: the pod left the cache, and nothing will give the admission back.
AddRequestCountNowhere(r) ==
  /\ Up(r)
  /\ Move(r, "placed", "done")
  /\ Fault(pod[r], GatewayOf[r])
  /\ UNCHANGED <<hash, late, pod, admitted, incr>>
  /\ UNCHANGED hygieneVars /\ UNCHANGED serverVars

\* queueRouter: the serve goroutine routes and tracks the request before the cap is enforced.
QueueServe(r, p) ==
  /\ Up(r) /\ r \in Queued
  /\ Move(r, "new", "enforcing")
  /\ pod' = [pod EXCEPT ![r] = p]
  /\ incr' = [incr EXCEPT ![r] = "pending"]
  /\ UNCHANGED <<hash, late, admitted>> /\ NoFault
  /\ UNCHANGED hygieneVars /\ UNCHANGED serverVars

\* enforceReplicaInflight for a request already tracked.
QueueEnforce(r) ==
  LET g == GatewayOf[r]
      p == pod[r]
      ok == AdmitSum(p, g, Local(p, g)) < Limit
  IN  /\ Up(r)
      /\ Move(r, "enforcing", IF ok THEN "running" ELSE "finishing")
      /\ AdmitScript(p, g, Local(p, g))
      /\ admitted' = IF ok THEN admitted \cup {r} ELSE admitted
      /\ UNCHANGED <<late, pod, incr>> /\ NoFault
      /\ UNCHANGED hygieneVars /\ UNCHANGED serverVars

\* addPodStats' goroutine: incrPodRunningRequests.
IncrPodRunningRequests(r) ==
  /\ Up(r)
  /\ incr[r] = "pending"
  /\ \/ /\ Write(pod[r], GatewayOf[r], 1)
        /\ incr' = [incr EXCEPT ![r] = "ok"]
        /\ UNCHANGED late /\ NoFault
     \/ /\ Fault(pod[r], GatewayOf[r])
        /\ FailedWrite(r, "incr", 1)
        /\ incr' = [incr EXCEPT ![r] = "failed"]
  /\ UNCHANGED <<pc, pod, admitted>>
  /\ UNCHANGED hygieneVars /\ UNCHANGED serverVars

\* donePodStats: the local count goes down.
Complete(r) ==
  /\ Up(r)
  /\ Move(r, "running", "finishing")
  /\ UNCHANGED <<hash, late, pod, admitted, incr>> /\ NoFault
  /\ UNCHANGED hygieneVars /\ UNCHANGED serverVars

\* decrCrossGatewayRunningRequests: wait for the increment, then take it back if it succeeded.
DecrPodRunningRequests(r) ==
  /\ Up(r)
  /\ incr[r] # "pending"
  /\ Move(r, "finishing", "done")
  /\ \/ incr[r] = "failed" /\ UNCHANGED <<hash, late>> /\ NoFault
     \/ /\ incr[r] = "ok"
        /\ \/ Write(pod[r], GatewayOf[r], -1) /\ UNCHANGED late /\ NoFault
           \/ Fault(pod[r], GatewayOf[r]) /\ FailedWrite(r, "decr", -1)
  /\ UNCHANGED <<pod, admitted, incr>>
  /\ UNCHANGED hygieneVars /\ UNCHANGED serverVars

-----------------------------------------------------------------------------
(***************************************************************************)
(* A gateway: start, heartbeat, ageing, death, reads.                      *)
(***************************************************************************)

\* initRunningRequestsLiveness: the first heartbeat comes before any request, and may fail.
Start(g) ==
  /\ proc[g] = "off"
  /\ proc' = [proc EXCEPT ![g] = "up"]
  /\ \/ /\ beat' = [beat EXCEPT ![g] = "fresh"]
        /\ UNCHANGED <<faults, missed, unannounced>>
     \/ /\ faults < MaxFaults
        /\ faults' = faults + 1
        /\ missed' = missed \cup {g}
        /\ unannounced' = unannounced \cup {g}
        /\ UNCHANGED beat
  /\ UNCHANGED <<hash, late, touched>>
  /\ UNCHANGED requestVars /\ UNCHANGED hygieneVars

\* writeRunningRequestsLivenessHeartbeat.
Heartbeat(g) ==
  /\ proc[g] = "up" /\ beat[g] # "fresh"
  /\ beat' = [beat EXCEPT ![g] = "fresh"]
  /\ UNCHANGED <<hash, late, proc, missed, unannounced>> /\ NoFault
  /\ UNCHANGED requestVars /\ UNCHANGED hygieneVars

\* A gateway's last heartbeat falls out of runningRequestsLivenessWindow.  A running gateway
\* has then missed its ticks.
Stale(g) ==
  /\ beat[g] = "fresh"
  /\ beat' = [beat EXCEPT ![g] = "stale"]
  /\ \/ proc[g] = "dead" /\ UNCHANGED <<faults, missed>>
     \/ /\ proc[g] = "up" /\ faults < MaxFaults
        /\ faults' = faults + 1
        /\ missed' = missed \cup {g}
  /\ UNCHANGED <<hash, late, touched, proc, unannounced>>
  /\ UNCHANGED requestVars /\ UNCHANGED hygieneVars

\* It falls out of runningRequestsFieldPruneWindow, which no running gateway is silent for.
Gone(g) ==
  /\ proc[g] = "dead" /\ beat[g] = "stale"
  /\ beat' = [beat EXCEPT ![g] = "gone"]
  /\ UNCHANGED <<hash, late, proc, missed, unannounced>> /\ NoFault
  /\ UNCHANGED requestVars /\ UNCHANGED hygieneVars

\* The process dies: its requests, goroutines and local counts are lost, its fields stay.
Crash(g) ==
  /\ proc[g] = "up"
  /\ Cardinality({x \in Gateways : proc[x] = "dead"}) < MaxCrashes
  /\ proc' = [proc EXCEPT ![g] = "dead"]
  /\ pc' = [r \in Requests |-> IF GatewayOf[r] = g /\ pc[r] # "done" THEN "lost" ELSE pc[r]]
  /\ drift' = [drift EXCEPT ![g] = [p \in Pods |-> NoDrift]]
  /\ hygiene' = [hygiene EXCEPT ![g] = Resting]
  /\ pendingPrunes' = [pendingPrunes EXCEPT ![g] = NoDel]
  /\ UNCHANGED <<hash, late, pod, admitted, incr, beat, missed, unannounced>> /\ NoFault

\* sumLiveFields' excluded gateways.  The own field is marked live by the overlay.
Excluded(p, g) == {x \in DOMAIN hash[p] \ {g} : beat[x] # "fresh"}

\* readPodRunningRequests, readPodsRunningRequests: enqueue the excluded fields.
Read(g, p) ==
  /\ proc[g] = "up"
  /\ Excluded(p, g) # {}
  /\ pendingPrunes' = [pendingPrunes EXCEPT ![g][p] = Excluded(p, g)]
  /\ UNCHANGED <<hash, late, drift, hygiene>> /\ NoFault
  /\ UNCHANGED requestVars /\ UNCHANGED serverVars

-----------------------------------------------------------------------------
(***************************************************************************)
(* A hygiene pass: prune the fields of gone gateways, then repair drift.   *)
(***************************************************************************)

\* Mutant: a candidate is deleted without looking at the long window.
SafeToDelete_Unchecked(candidates) == candidates

\* The candidates that are also absent from the long window.
SafeToDelete(candidates) == {x \in candidates : beat[x] = "gone"}

\* scheduleRunningRequestsHygiene; flushPendingRunningRequestsPrunes up to ZRANGEBYSCORE.  If
\* that fails the candidates are stored again.
HygieneStart(g) ==
  LET del == [p \in Pods |-> SafeToDelete(pendingPrunes[g][p])]
  IN  /\ proc[g] = "up" /\ hygiene[g].at = "idle"
      /\ \/ /\ pendingPrunes' = [pendingPrunes EXCEPT ![g] = NoDel]
            /\ hygiene' = [hygiene EXCEPT ![g].at = IF del = NoDel THEN "sample" ELSE "hdel",
                                          ![g].del = del]
            /\ UNCHANGED faults
         \/ /\ pendingPrunes[g] # NoDel
            /\ faults < MaxFaults
            /\ faults' = faults + 1
            /\ hygiene' = [hygiene EXCEPT ![g].at = "sample"]
            /\ UNCHANGED pendingPrunes
      /\ UNCHANGED <<hash, late, drift, touched>>
      /\ UNCHANGED requestVars /\ UNCHANGED serverVars

\* The HDEL pipeline.  A failed one may have run; its candidates wait for the next read.
HygieneHdel(g) ==
  LET pruned == [p \in Pods |-> [x \in DOMAIN hash[p] \ hygiene[g].del[p] |-> hash[p][x]]]
  IN  /\ proc[g] = "up" /\ hygiene[g].at = "hdel"
      /\ \/ hash' = pruned /\ UNCHANGED faults
         \/ /\ faults < MaxFaults
            /\ faults' = faults + 1
            /\ hash' \in {hash, pruned}
      /\ hygiene' = [hygiene EXCEPT ![g].at = "sample", ![g].del = NoDel]
      /\ UNCHANGED <<late, drift, pendingPrunes, touched>>
      /\ UNCHANGED requestVars /\ UNCHANGED serverVars

\* runningRequestsDriftState.observe, the state it confirms or carries on.
Observed(s, redisCount, local) ==
  LET gap == redisCount - local
      direction == IF gap < 0 THEN -1 ELSE 1
      size == direction * gap
  IN  IF s.direction = direction
      THEN [s EXCEPT !.passes = @ + 1, !.minGap = Min({@, size})]
      ELSE [direction |-> direction, passes |-> 1, minGap |-> size]

\* Mutant: a pass that finds the gap unchanged starts over.
Observe_Restart(s, redisCount, local) ==
  [state |-> IF redisCount = local THEN NoDrift ELSE Observed(NoDrift, redisCount, local),
   correction |-> 0]

\* observe: the next state and the correction.
Observe(s, redisCount, local) ==
  LET o == Observed(s, redisCount, local)
  IN  IF redisCount = local THEN [state |-> NoDrift, correction |-> 0]
      ELSE IF o.passes < ConfirmPasses THEN [state |-> o, correction |-> 0]
      ELSE [state |-> NoDrift, correction |-> -o.direction * o.minGap]

\* reconcileOwnRunningRequests, the reads.  A pod outside seen keeps its state: its read failed,
\* or its local count moved during the read.
HygieneSample(g, seen) ==
  LET obs == [p \in seen |-> Observe(drift[g][p], Field(p, g), Local(p, g))]
      fix == [p \in Pods |-> IF p \in seen THEN obs[p].correction ELSE 0]
  IN  /\ proc[g] = "up" /\ hygiene[g].at = "sample"
      /\ drift' = [drift EXCEPT ![g] = [p \in Pods |-> IF p \in seen THEN obs[p].state ELSE @[p]]]
      /\ hygiene' = [hygiene EXCEPT ![g].at = IF fix = NoFix THEN "idle" ELSE "correct",
                                    ![g].fix = fix]
      /\ UNCHANGED <<hash, late, pendingPrunes>> /\ NoFault
      /\ UNCHANGED requestVars /\ UNCHANGED serverVars

\* The correction of one pod: the ordinary script, with a delta that does not look at the field.
HygieneCorrect(g, p) ==
  LET fix == [hygiene[g].fix EXCEPT ![p] = 0]
  IN  /\ proc[g] = "up" /\ hygiene[g].at = "correct"
      /\ hygiene[g].fix[p] # 0
      /\ \/ /\ Write(p, g, hygiene[g].fix[p])
            /\ touched' = touched \cup {<<p, g>>}
            /\ UNCHANGED faults
         \/ /\ Fault(p, g)
            /\ \/ Write(p, g, hygiene[g].fix[p])
               \/ UNCHANGED hash
      /\ hygiene' = [hygiene EXCEPT ![g].at = IF fix = NoFix THEN "idle" ELSE "correct",
                                    ![g].fix = fix]
      /\ UNCHANGED <<late, drift, pendingPrunes>>
      /\ UNCHANGED requestVars /\ UNCHANGED serverVars

-----------------------------------------------------------------------------
RequestStep(r) ==
  \/ \E p \in Pods : AdmitOk(r, p) \/ AdmitRejected(r, p) \/ AdmitError(r, p)
                     \/ PlaceUncounted(r, p) \/ QueueServe(r, p)
  \/ RouteReturns(r) \/ RouteGivesUp(r) \/ Release(r)
  \/ AddRequestCount(r) \/ AddRequestCountNowhere(r) \/ QueueEnforce(r)
  \/ IncrPodRunningRequests(r) \/ Complete(r) \/ DecrPodRunningRequests(r)

HygieneStep(g) ==
  \/ HygieneStart(g) \/ HygieneHdel(g)
  \/ \E seen \in SUBSET Pods : HygieneSample(g, seen)
  \/ \E p \in Pods : HygieneCorrect(g, p)

GatewayStep(g) ==
  \/ Start(g) \/ Heartbeat(g) \/ Stale(g) \/ Gone(g) \/ Crash(g)
  \/ \E p \in Pods : Read(g, p)

Next ==
  \/ \E r \in Requests : RequestStep(r)
  \/ \E g \in Gateways : HygieneStep(g) \/ GatewayStep(g)
  \/ \E x \in late : LateScript(x)
  \/ \E p \in Pods : Expire(p)

Spec == Init /\ [][Next]_vars

\* A request's goroutines and streams make progress and its router does not change targets
\* forever, a running gateway's tickers fire, a dead one's heartbeat ages, Redis runs what it was
\* sent, and time and again a pass reads every pod.
Fairness ==
  /\ \A r \in Requests :
       /\ SF_vars(RouteReturns(r))
       /\ WF_vars(Release(r))
       /\ WF_vars(AddRequestCount(r))
       /\ WF_vars(QueueEnforce(r))
       /\ WF_vars(IncrPodRunningRequests(r))
       /\ WF_vars(Complete(r))
       /\ WF_vars(DecrPodRunningRequests(r))
  /\ \A g \in Gateways :
       /\ WF_vars(Heartbeat(g))
       /\ WF_vars(proc[g] = "dead" /\ Stale(g))
       /\ WF_vars(HygieneStart(g))
       /\ WF_vars(HygieneHdel(g))
       /\ SF_vars(HygieneSample(g, Pods))
       /\ \A p \in Pods : WF_vars(HygieneCorrect(g, p))
  /\ WF_vars(\E x \in late : LateScript(x))

LiveSpec == Spec /\ Fairness

-----------------------------------------------------------------------------
(***************************************************************************)
(* Properties.                                                             *)
(***************************************************************************)

DriftStates == [direction : {-1, 0, 1}, passes : 0..(ConfirmPasses - 1), minGap : Nat]

Scripts == [req : Requests, kind : {"admit", "incr", "decr"}, pod : Pods, local : Nat]

\* Every variable keeps to its values.  In particular a field is never negative
\* (runningRequestsIncrDecrScript), a tracked drift has not been confirmed yet (observe), and a
\* correction is owed or a deletion pending only while a pass is at that stage.
TypeOK ==
  /\ \A p \in Pods : DOMAIN hash[p] \subseteq Gateways /\ \A g \in DOMAIN hash[p] : hash[p][g] \in Nat
  /\ DOMAIN hash = Pods
  /\ beat \in [Gateways -> {"fresh", "stale", "gone"}]
  /\ proc \in [Gateways -> {"off", "up", "dead"}]
  /\ pc \in [Requests -> Untracked \cup Tracked \cup Over]
  /\ pod \in [Requests -> Pods \cup {NoPod}]
  /\ admitted \subseteq Requests
  /\ incr \in [Requests -> {"none", "pending", "ok", "failed"}]
  /\ drift \in [Gateways -> [Pods -> DriftStates]]
  /\ hygiene \in [Gateways -> [at : {"idle", "hdel", "sample", "correct"},
                              del : [Pods -> SUBSET Gateways], fix : [Pods -> Int]]]
  /\ \A g \in Gateways :
       /\ (hygiene[g].del # NoDel) <=> (hygiene[g].at = "hdel")
       /\ (hygiene[g].fix # NoFix) <=> (hygiene[g].at = "correct")
  /\ pendingPrunes \in [Gateways -> [Pods -> SUBSET Gateways]]
  /\ late \subseteq Scripts
  /\ faults \in 0..MaxFaults
  /\ touched \subseteq Pods \X Gateways
  /\ missed \subseteq Gateways /\ unannounced \subseteq missed

\* The requests of g that hold a slot of p in Redis: admitted and counted, not yet given back, or
\* counted by addPodStats' increment.
Held(p, g) ==
  {r \in Requests : /\ GatewayOf[r] = g /\ pod[r] = p
                    /\ \/ r \in admitted /\ pc[r] \in {"routing", "placed", "releasing", "moving"}
                       \/ incr[r] = "ok" /\ pc[r] \in {"running", "finishing", "enforcing"}}

\* A running gateway's field counts exactly the requests that hold a slot there: each +1 (by the
\* admission script or by addPodStats' goroutine) is paired with one -1 (by the release or by
\* donePodStats), whatever the order in which the goroutines run.  Fields that a failed call or a
\* drift correction has changed are set aside; so are those of queue-routed requests, which are
\* counted by addPodStats and by the admission as well.
Pairing ==
  \A p \in Pods, g \in Gateways :
    /\ proc[g] = "up"
    /\ <<p, g>> \notin touched
    /\ g \notin unannounced
    /\ \A r \in Queued : GatewayOf[r] # g
    => Field(p, g) = Cardinality(Held(p, g))

\* The capped requests that p is serving or about to serve.
Active(p) == {r \in Capped : pod[r] = p /\ pc[r] \in {"routing", "placed", "running"}}

\* requestsInflight is a hard cap across gateways: no interleaving of admissions, prefills,
\* releases, asynchronous increments and crashes puts more than Limit capped requests on a pod,
\* as long as no call failed, no running gateway went silent and no drift correction was made.
HardCap ==
  \A p \in Pods :
    missed = {} /\ (\A g \in Gateways : <<p, g>> \notin touched) => Cardinality(Active(p)) <= Limit

\* The same without the reservation on drift corrections, for a run in which nothing fails.
HardCapAlways == \A p \in Pods : Cardinality(Active(p)) <= Limit

\* Deleting a field is for gateways that are gone: no step takes away the field of a running
\* gateway that holds slots, however late a heartbeat, a read or a hygiene pass of another gateway
\* comes (flushPendingRunningRequestsPrunes).  Gateways whose first heartbeat failed are set aside.
LiveFieldKept ==
  [][\A p \in Pods, g \in Gateways \ unannounced :
       proc[g] = "up" /\ Held(p, g) # {} /\ g \in DOMAIN hash[p] => g \in DOMAIN hash'[p]]_vars

\* Slots come back: whatever calls fail, scripts run late and gateways die on the way, once the
\* traffic is over every running gateway ends up seeing each pod as empty for good (drift
\* reconciliation for its own field, the liveness window for the fields of dead gateways).
CapacityReturns ==
  \A p \in Pods, g \in Gateways :
    <>[](proc[g] = "up" => AdmitSum(p, g, Local(p, g)) = 0)

=============================================================================
