------------------------------ MODULE RoleSet ------------------------------
(***************************************************************************)
(* The RoleSet controller with stateless roles and recreate updates        *)
(* (pkg/controller/roleset): the reconcile loop, the three rolling         *)
(* managers, StatelessRoleSyncer, and the drain before a deletion.         *)
(*                                                                         *)
(* One pass of the loop is Begin, ScaleRole for every role, Plan, RollRole *)
(* for the roles the manager chose, UpdateStatus.  Every call of a syncer  *)
(* lists the pods from the informer's cache and then writes to the API     *)
(* server, so it is one action that decides on `cache' and changes `pod';  *)
(* kubelets, the watch, the user and a crash of the manager come between.  *)
(* The controller keeps no expectations: nothing stops a pass from         *)
(* deciding on a cache that lacks the writes of the pass before.           *)
(*                                                                         *)
(* Left out: stateful roles and PodSets, in-place updates, pod groups,     *)
(* node affinity, the finalizer.                                           *)
(***************************************************************************)
EXTENDS Integers, Sequences, FiniteSets, SequencesExt, FiniteSetsExt

CONSTANTS
  MaxPods,   \* pods that exist or are cached at any time, over all roles
  Configs    \* the RoleSets and environments considered, see ConfigType

NoOrder == 0   \* a role without an upgradeOrder; those given are at least 1

(* A RoleSet as its user wrote it, and the bounds of its environment:      *)
(* `lag' says whether the cache may be behind the API server, `quota' is   *)
(* the namespace's limit on pods, the last two bound faults and edits.  A  *)
(* call that decides on a cache that is behind counts as a fault.          *)
ConfigType ==
  [strategy : {"Sequential", "Parallel", "Interleave"},
   order : Seq(Nat),           \* upgradeOrder of each role, NoOrder when nil
   replicas : Seq(Nat), sizes : SUBSET Nat,
   surge : Seq(Nat), unavailable : Seq(Nat),
   drain : BOOLEAN,            \* drain.timeoutSeconds > 0
   settled : BOOLEAN,          \* start with every replica ready, or with none
   lag : BOOLEAN, quota : 1..MaxPods,
   maxFaults : Nat, maxEdits : Nat]

(* The pods the first r roles ask for.                                     *)
PodsUpTo(c, r) == SumFunctionOnSet(c.replicas, 1..r)

(* There is a role (MinItems=1), and a RoleSet that is up fits the quota.  *)
ASSUME ConfigAssumption ==
  /\ MaxPods \in Nat
  /\ \A c \in Configs :
       /\ c \in ConfigType
       /\ Len(c.replicas) > 0
       /\ \A s \in {c.order, c.surge, c.unavailable} : Len(s) = Len(c.replicas)
       /\ c.settled => PodsUpTo(c, Len(c.replicas)) <= c.quota

VARIABLES
  config,    \* the RoleSet under test, an element of Configs
  replicas,  \* spec.roles[r].replicas
  target,    \* hash of spec.roles[r].template
  pod,       \* the pods of the RoleSet at the API server
  cache,     \* the pods as the controller's informer has them
  run,       \* how far the reconcile in progress has come
  wake,      \* whether the workqueue holds the RoleSet's key
  status,    \* roleSet.Status
  faults,    \* faults so far (bounded by config.maxFaults)
  edits      \* edits of the spec so far (bounded by config.maxEdits)

vars == <<config, replicas, target, pod, cache, run, wake, status, faults, edits>>

Pods == 1..MaxPods
Roles == DOMAIN config.replicas
Hashes == {1, 2}

Gone == [role |-> 0]
Reasons == {"scale-in", "rollout"}

(* A pod.  Once it is being deleted only `dying' matters to the code.      *)
NewPod(r) == [role |-> r, hash |-> target[r], ready |-> FALSE, failed |-> FALSE,
              dying |-> FALSE, drain |-> "none", due |-> FALSE]

Idle == [at |-> "idle", todo |-> <<>>, busy |-> FALSE, requeue |-> FALSE,
         step |-> 0, err |-> FALSE]

-----------------------------------------------------------------------------
(* The filters of utils.go on a list v of pods.                            *)

Listed(v, r) == {p \in Pods : v[p] # Gone /\ v[p].role = r}
Terminating(v, r) == {p \in Listed(v, r) : v[p].dying}
Terminated(v, r) == {p \in Listed(v, r) : v[p].failed /\ ~v[p].dying}
Active(v, r) == {p \in Listed(v, r) : ~v[p].failed /\ ~v[p].dying}
ReadyPods(v, r) == {p \in Active(v, r) : v[p].ready}
Updated(v, r) == {p \in Active(v, r) : v[p].hash = target[r]}
Outdated(v, r) == Active(v, r) \ Updated(v, r)
Draining(v, r) == {p \in Active(v, r) : v[p].drain # "none"}

(* ResolveFenceposts, and the caps of MaxSurge and MaxUnavailable.         *)
MaxSurge(r) == IF replicas[r] = 0 THEN 0 ELSE config.surge[r]

MaxUnavailable(r) ==
  IF replicas[r] = 0 THEN 0
  ELSE IF config.surge[r] = 0 /\ config.unavailable[r] = 0 THEN 1
  ELSE Min({config.unavailable[r], replicas[r]})

(* sortPodsByTemplateHash: outdated not ready, outdated ready, updated not *)
(* ready, updated ready.                                                   *)
HashRank(v, r, p) ==
  (IF v[p].hash = target[r] THEN 2 ELSE 0) + (IF v[p].ready THEN 1 ELSE 0)

(* The first pods of S in that order.  Pods of one rank are ordered by     *)
(* creation second, and within it by the list's own order, which an        *)
(* informer does not fix.                                                  *)
Firsts(v, r, S) ==
  {F \in SUBSET S : \A p \in F, q \in S \ F : HashRank(v, r, p) <= HashRank(v, r, q)}

SurgeRoom(v, r) ==
  replicas[r] + MaxSurge(r)
    - Cardinality(Active(v, r)) - Cardinality(Terminating(v, r))

-----------------------------------------------------------------------------
(* StatelessRoleSyncer: what each call decides to create, release from its *)
(* drain and delete.  A choice is [create, cancel, delete, now, reason];   *)
(* the pods of `now' are deleted without a drain.                          *)

(* Mutant: the loop goes on past a ready pod the floor needs.              *)
Surplus_Continue(v, r, D, F) ==
  LET active == Active(v, r)
      diff == Cardinality(active) - replicas[r]
      ready(S) == Cardinality(S \cap ReadyPods(v, r))
      spare == Cardinality(ReadyPods(v, r)) - ready(D)
                 - (replicas[r] - MaxUnavailable(r))
      Allowed == {S \in SUBSET (active \ Draining(v, r)) :
                    /\ Cardinality(S) <= diff - Cardinality(D)
                    /\ ready(S) <= Max({spare, 0})}
  IN  /\ Cardinality(D) = Min({diff, Cardinality(Draining(v, r))})
      /\ F \in Allowed
      /\ \A S \in Allowed : Cardinality(S) <= Cardinality(F)

(* The surplus Scale removes: pods that drain already, then others up to   *)
(* the first ready pod the availability floor still needs.                 *)
Surplus(v, r, D, F) ==
  LET active == Active(v, r)
      diff == Cardinality(active) - replicas[r]
      idleActive == active \ Draining(v, r)
      ready(S) == Cardinality(S \cap ReadyPods(v, r))
      spare == Cardinality(ReadyPods(v, r)) - ready(D)
                 - (replicas[r] - MaxUnavailable(r))
      Allowed == {S \in Firsts(v, r, idleActive) :
                    /\ Cardinality(S) <= diff - Cardinality(D)
                    /\ ready(S) <= Max({spare, 0})}
  IN  /\ D \in Firsts(v, r, Draining(v, r))
      /\ Cardinality(D) = Min({diff, Cardinality(Draining(v, r))})
      /\ F \in Allowed
      /\ \A S \in Allowed : Cardinality(S) <= Cardinality(F)

(* Mutant: drains for a scale-in that is off are forgotten.                *)
CancelledDrains_None(v, r, S) == {}

(* staleScaleInDrainingPods: pods whose scale-in is off.                   *)
CancelledDrains(v, r, S) ==
  {p \in Active(v, r) \ S : v[p].drain = "scale-in"}

Scale(v, r) ==
  LET diff == Cardinality(Active(v, r)) - replicas[r]
      surplus == IF diff > 0
                 THEN {x[1] \cup x[2] : x \in
                         {x \in (SUBSET Draining(v, r)) \X (SUBSET Active(v, r)) :
                            Surplus(v, r, x[1], x[2])}}
                 ELSE {{}}
  IN  {[create |-> IF diff < 0 THEN Max({0, Min({-diff, SurgeRoom(v, r)})}) ELSE 0,
        cancel |-> CancelledDrains(v, r, S),
        delete |-> S \cup Terminated(v, r),
        now |-> {}, reason |-> "scale-in"] : S \in surplus}

(* Not-ready outdated pods, and as many ready ones as the budget allows.   *)
OutdatedWithin(v, r, budget) ==
  LET ready == Outdated(v, r) \cap ReadyPods(v, r)
  IN  {(Outdated(v, r) \ ready) \cup S : S \in
         kSubset(Max({0, Min({budget, Cardinality(ready)})}), ready)}

Replace(v, r, deleteBudget, createBudget) ==
  {[create |-> Max({0, createBudget}),
    cancel |-> {},
    delete |-> S,
    now |-> S \ ReadyPods(v, r), reason |-> "rollout"] :
      S \in OutdatedWithin(v, r, deleteBudget)}

(* Mutant: the delete budget counts pods that are not ready.               *)
Rollout_CountsActive(v, r) ==
  Replace(v, r,
    Cardinality(Active(v, r)) - replicas[r] + MaxUnavailable(r),
    Min({SurgeRoom(v, r), replicas[r] - Cardinality(Updated(v, r))}))

Rollout(v, r) ==
  Replace(v, r,
    Cardinality(ReadyPods(v, r)) - replicas[r] + MaxUnavailable(r),
    Min({SurgeRoom(v, r), replicas[r] - Cardinality(Updated(v, r))}))

RolloutByStep(v, r, step) ==
  LET wanted == Min({(MaxSurge(r) + MaxUnavailable(r)) * step, replicas[r]})
  IN  IF Cardinality(Updated(v, r)) >= wanted
      THEN {[create |-> 0, cancel |-> {}, delete |-> {}, now |-> {},
             reason |-> "rollout"]}
      ELSE Replace(v, r,
             Min({Cardinality(Outdated(v, r)) - replicas[r] + wanted,
                  Cardinality(ReadyPods(v, r)) - replicas[r] + MaxUnavailable(r)}),
             Min({SurgeRoom(v, r), wanted - Cardinality(Updated(v, r))}))

AllReady(v, r) ==
  /\ Listed(v, r) = ReadyPods(v, r)
  /\ Outdated(v, r) = {}
  /\ Cardinality(Listed(v, r)) = replicas[r]

(* Go divides towards zero.                                                *)
Quotient(a, b) == IF a < 0 THEN -((-a) \div b) ELSE a \div b

StepLength(r) == Max({1, MaxSurge(r) + MaxUnavailable(r)})

(* Mutant: the step is taken from the updated pods, ready or not.          *)
CurrentStep_Active(v, r) ==
  LET length == StepLength(r)
      done == Cardinality(Updated(v, r))
      least == Quotient(done - 1, length) + 1
  IN  IF \/ done = length * least
         \/ Cardinality(Outdated(v, r)) < replicas[r] - length * least
      THEN least + 1
      ELSE least

CurrentStep(v, r) ==
  LET length == StepLength(r)
      done == Cardinality(Updated(v, r) \cap ReadyPods(v, r))
      least == Quotient(done - 1, length) + 1
  IN  IF \/ Listed(v, r) = ReadyPods(v, r) /\ done = length * least
         \/ Cardinality(Updated(v, r)) > length * least
         \/ Cardinality(Outdated(v, r)) < replicas[r] - length * least
      THEN least + 1
      ELSE least

StepDone(v, r) ==
  /\ Listed(v, r) = ReadyPods(v, r)
  /\ Outdated(v, r) = {}
  /\ Cardinality(Updated(v, r)) >= replicas[r]

-----------------------------------------------------------------------------
(* What a call does to the pods: creations, then cancelled drains, then    *)
(* deletions.  Deleting a pod that is gone and patching one are no-ops.    *)

Kill(p) ==
  IF pod[p] = Gone THEN Gone
  ELSE [pod[p] EXCEPT !.dying = TRUE, !.ready = FALSE,
                      !.drain = "none", !.due = FALSE]

(* Mutant: a patch keeps the start time of an earlier drain.               *)
Annotate_KeepsStart(p, reason) ==
  IF pod[p] = Gone \/ pod[p].dying THEN pod[p]
  ELSE [pod[p] EXCEPT !.drain = reason]

Annotate(p, reason) ==
  IF pod[p] = Gone \/ pod[p].dying THEN pod[p]
  ELSE [pod[p] EXCEPT !.drain = reason, !.due = FALSE]

(* drain.processPod: mark the pod, wait for the timeout, delete it.        *)
StartsDrain(v, c, p) ==
  config.drain /\ p \notin c.now /\ ~v[p].failed /\ v[p].drain = "none"
WaitsDrain(v, c, p) ==
  config.drain /\ p \notin c.now /\ ~v[p].failed /\ v[p].drain # "none" /\ ~v[p].due

Delete(v, c, p) ==
  CASE StartsDrain(v, c, p) -> Annotate(p, c.reason)
    [] WaitsDrain(v, c, p) -> pod[p]
    [] OTHER -> Kill(p)

FreeIds == {p \in Pods : pod[p] = Gone /\ cache[p] = Gone}

(* What the namespace's quota leaves; pods that have ended do not count.   *)
Counted == {p \in Pods : pod[p] # Gone /\ ~pod[p].failed}
Room == Min({Cardinality(FreeIds), config.quota - Cardinality(Counted)})

(* The n pods a call creates take the smallest free identities.            *)
Fresh(n) == {p \in FreeIds : Cardinality({q \in FreeIds : q < p}) < n}

Write(v, r, c, n, cancelled, deleted) ==
  pod' = [p \in Pods |->
            CASE p \in Fresh(n) -> NewPod(r)
              [] p \in cancelled -> Annotate(p, "none")
              [] p \in deleted -> Delete(v, c, p)
              [] OTHER -> pod[p]]

(* With no lag the watch shows every change at once and queues the key.    *)
Watch ==
  /\ cache' = IF config.lag THEN cache ELSE pod'
  /\ wake' = (wake \/ (~config.lag /\ pod' # pod))

(* A call that succeeds, and one that an API error cuts short: a creation  *)
(* fails (at the latest at the quota) and nothing more is done, or a drain *)
(* is not cancelled, or a deletion fails, after some of the others.        *)
Stale == IF cache = pod THEN 0 ELSE 1

Succeed(v, r, c) ==
  /\ c.create <= Room
  /\ Write(v, r, c, c.create, c.cancel, c.delete)
  /\ faults' = faults + Stale

Break(v, r, c) ==
  \/ /\ c.create > Room
     /\ Write(v, r, c, Max({0, Room}), {}, {})
     /\ faults' = faults + Stale
  \/ /\ faults' = faults + 1 + Stale
     /\ \/ \E n \in 0..(c.create - 1) :
             n <= Room /\ Write(v, r, c, n, {}, {})
        \/ /\ c.create <= Room
           /\ \/ \E X \in SUBSET c.cancel :
                   X # c.cancel /\ Write(v, r, c, c.create, X, {})
              \/ \E D \in SUBSET c.delete :
                   D # c.delete /\ Write(v, r, c, c.create, c.cancel, D)

(* drain.Result: whether the call changed anything, and whether it asks to *)
(* be called again when a drain ends.                                      *)
Requeues(v, c) ==
  \E p \in c.delete : pod[p] # Gone
                      /\ (StartsDrain(v, c, p) \/ WaitsDrain(v, c, p))
Changed(v, c) ==
  \/ c.create > 0
  \/ \E p \in c.cancel : pod[p] # Gone
  \/ \E p \in c.delete : ~WaitsDrain(v, c, p) /\ (StartsDrain(v, c, p) => pod[p] # Gone)

-----------------------------------------------------------------------------
(* The reconcile loop.                                                     *)

SpecOrder == [i \in 1..Len(config.replicas) |-> i]
InSpecOrder(S) ==
  [i \in 1..Cardinality(S) |-> CHOOSE r \in S : Cardinality({s \in S : s < r}) = i - 1]

(* sortRolesByUpgradeOrder: stable, roles without an order last.           *)
Less(r, s) ==
  /\ config.order[r] # NoOrder
  /\ config.order[s] = NoOrder \/ config.order[r] < config.order[s]
Before(r, s) == Less(r, s) \/ (~Less(s, r) /\ r < s)

UpgradeOrder ==
  [i \in 1..Len(config.replicas) |->
     CHOOSE r \in Roles : Cardinality({s \in Roles : Before(s, r)}) = i - 1]

Begin ==
  /\ run.at = "idle" /\ wake
  /\ run' = [Idle EXCEPT !.at = "scale", !.todo = SpecOrder]
  /\ wake' = FALSE
  /\ UNCHANGED <<config, replicas, target, pod, cache, status, faults, edits>>

Failed == run' = [run EXCEPT !.at = "status", !.todo = <<>>, !.err = TRUE]

ScaleRole ==
  /\ run.at = "scale"
  /\ \E c \in Scale(cache, Head(run.todo)) :
       LET r == Head(run.todo)
           busy == run.busy \/ Changed(cache, c) \/ Requeues(cache, c)
       IN  \/ /\ Succeed(cache, r, c)
              /\ run' = [run EXCEPT
                   !.todo = Tail(run.todo), !.busy = busy,
                   !.requeue = run.requeue \/ Requeues(cache, c),
                   !.at = IF Len(run.todo) > 1 THEN "scale"
                          ELSE IF busy THEN "status" ELSE "plan"]
           \/ Break(cache, r, c) /\ Failed
  /\ Watch
  /\ faults' <= config.maxFaults
  /\ UNCHANGED <<config, replicas, target, status, edits>>

(* The roles to roll and, for Interleave, the step of the least advanced.  *)
Plan ==
  /\ run.at = "plan"
  /\ LET behind == {r \in Roles : ~StepDone(cache, r)}
         step == Min({CurrentStep(cache, r) : r \in behind})
         todo == CASE config.strategy = "Sequential" -> UpgradeOrder
                   [] config.strategy = "Parallel" -> SpecOrder
                   [] OTHER -> IF behind = {} THEN <<>>
                               ELSE InSpecOrder({r \in behind : CurrentStep(cache, r) <= step})
     IN  run' = [run EXCEPT
           !.todo = todo,
           !.step = IF config.strategy = "Interleave" /\ behind # {} THEN step ELSE 0,
           !.at = IF todo = <<>> THEN "status" ELSE "roll"]
  /\ UNCHANGED <<config, replicas, target, pod, cache, wake, status, faults, edits>>

(* Mutant: the next role does not wait.                                    *)
RolesLeft_NoWait(r) == Tail(run.todo)

(* Sequential stops at the first role that is not finished.                *)
RolesLeft(r) ==
  IF config.strategy = "Sequential" /\ ~AllReady(cache, r)
  THEN <<>> ELSE Tail(run.todo)

RollRole ==
  /\ run.at = "roll"
  /\ LET r == Head(run.todo)
         todo == RolesLeft(r)
     IN  \E c \in IF config.strategy = "Interleave"
                  THEN RolloutByStep(cache, r, run.step) ELSE Rollout(cache, r) :
           \/ /\ Succeed(cache, r, c)
              /\ run' = [run EXCEPT
                   !.todo = todo,
                   !.requeue = run.requeue \/ Requeues(cache, c),
                   !.at = IF todo = <<>> THEN "status" ELSE "roll"]
           \/ Break(cache, r, c) /\ Failed
  /\ Watch
  /\ faults' <= config.maxFaults
  /\ UNCHANGED <<config, replicas, target, status, edits>>

(* calculateStatus.  An error is recorded once; it is cleared when a sync  *)
(* succeeds.                                                               *)
RoleStatus(r) ==
  [total |-> Cardinality(Active(cache, r)),
   ready |-> Cardinality(ReadyPods(cache, r)),
   updated |-> Cardinality(Updated(cache, r)),
   updatedReady |-> Cardinality(Updated(cache, r) \cap ReadyPods(cache, r))]

NewStatus ==
  [roles |-> [r \in Roles |-> RoleStatus(r)],
   ready |-> \A r \in Roles : RoleStatus(r).ready >= replicas[r],
   failure |-> run.err]

(* The end of the pass.  A changed status comes back as an event; with an  *)
(* unchanged one the key is queued again only for a pending drain or while *)
(* the RoleSet is not ready, whatever the sync returned.                   *)
UpdateStatus ==
  /\ run.at = "status"
  /\ run' = Idle
  /\ \/ /\ status' = NewStatus
        /\ wake' = (wake \/ NewStatus # status \/ run.requeue \/ ~status.ready)
        /\ UNCHANGED faults
     \/ /\ NewStatus # status /\ faults < config.maxFaults
        /\ faults' = faults + 1
        /\ wake' = TRUE
        /\ UNCHANGED status
  /\ UNCHANGED <<config, replicas, target, pod, cache, edits>>

-----------------------------------------------------------------------------
(* The environment.                                                        *)

ControlPlane == <<config, replicas, target, run, status, edits>>

(* The watch delivers everything the API server has.                       *)
Sync ==
  /\ cache # pod
  /\ cache' = pod
  /\ wake' = TRUE
  /\ UNCHANGED <<pod, faults, ControlPlane>>

Live(p) == pod[p] # Gone /\ ~pod[p].dying /\ ~pod[p].failed

PodReady(p) ==
  /\ Live(p) /\ ~pod[p].ready
  /\ pod' = [pod EXCEPT ![p].ready = TRUE]
  /\ Watch
  /\ UNCHANGED <<faults, ControlPlane>>

(* The readiness probe of a serving pod starts to fail, or its containers  *)
(* stop for good.                                                          *)
PodBreaks(p) ==
  /\ Live(p) /\ pod[p].ready
  /\ faults < config.maxFaults
  /\ faults' = faults + 1
  /\ \/ pod' = [pod EXCEPT ![p].ready = FALSE]
     \/ pod' = [pod EXCEPT ![p].ready = FALSE, ![p].failed = TRUE,
                           ![p].drain = "none", ![p].due = FALSE]
  /\ Watch
  /\ UNCHANGED ControlPlane

PodGone(p) ==
  /\ pod[p] # Gone /\ pod[p].dying
  /\ pod' = [pod EXCEPT ![p] = Gone]
  /\ Watch
  /\ UNCHANGED <<faults, ControlPlane>>

(* The drain timeout of p is over; the controller's timer fires.           *)
DrainTimeout(p) ==
  /\ Live(p) /\ pod[p].drain # "none" /\ ~pod[p].due
  /\ pod' = [pod EXCEPT ![p].due = TRUE]
  /\ cache' = IF cache[p] # Gone /\ cache[p].drain # "none"
              THEN [cache EXCEPT ![p].due = TRUE] ELSE cache
  /\ UNCHANGED <<wake, faults, ControlPlane>>

(* The manager process is restarted: its informers list afresh.            *)
Crash ==
  /\ faults < config.maxFaults
  /\ faults' = faults + 1
  /\ run' = Idle /\ wake' = TRUE /\ cache' = pod
  /\ UNCHANGED <<config, replicas, target, pod, status, edits>>

(* An edit during a pass is not seen before the next one, which reads the  *)
(* RoleSet again, so edits are placed between passes.                      *)
UpdateTemplate ==
  /\ run.at = "idle" /\ edits < config.maxEdits
  /\ edits' = edits + 1
  /\ target' = [r \in Roles |-> CHOOSE h \in Hashes : h # target[r]]
  /\ wake' = TRUE
  /\ UNCHANGED <<config, replicas, pod, cache, run, status, faults>>

Resize(r, n) ==
  /\ run.at = "idle" /\ edits < config.maxEdits
  /\ edits' = edits + 1
  /\ n # replicas[r]
  /\ replicas' = [replicas EXCEPT ![r] = n]
  /\ wake' = TRUE
  /\ UNCHANGED <<config, target, pod, cache, run, status, faults>>

(* A RoleSet that has just been applied, or one that is up and unchanged.  *)
InitialPod(p) ==
  IF config.settled /\ p <= PodsUpTo(config, Len(config.replicas))
  THEN [NewPod(Min({r \in Roles : p <= PodsUpTo(config, r)})) EXCEPT !.ready = TRUE]
  ELSE Gone

Init ==
  /\ config \in Configs
  /\ replicas = config.replicas
  /\ target = [r \in Roles |-> 1]
  /\ pod = [p \in Pods |-> InitialPod(p)]
  /\ cache = pod
  /\ run = Idle
  /\ wake = TRUE
  /\ status = [roles |-> <<>>, ready |-> FALSE, failure |-> FALSE]
  /\ faults = 0
  /\ edits = 0

Controller == Begin \/ ScaleRole \/ Plan \/ RollRole \/ UpdateStatus

Next ==
  \/ Begin \/ ScaleRole \/ Plan \/ RollRole \/ UpdateStatus
  \/ Sync \/ Crash \/ UpdateTemplate
  \/ \E p \in Pods : PodReady(p) \/ PodBreaks(p) \/ PodGone(p) \/ DrainTimeout(p)
  \/ \E r \in Roles, n \in config.sizes : Resize(r, n)

Spec == Init /\ [][Next]_vars

(* The loop runs while its key is queued, the watch delivers, kubelets     *)
(* finish deletions, time passes, and pods of the current template start.  *)
(* Nothing is promised about pods of an older template.                    *)
Fairness ==
  /\ WF_vars(Controller)
  /\ WF_vars(Sync)
  /\ \A p \in Pods :
       /\ WF_vars(PodGone(p))
       /\ WF_vars(DrainTimeout(p))
       /\ WF_vars(PodReady(p) /\ pod[p].hash = target[pod[p].role])

FairSpec == Spec /\ Fairness

-----------------------------------------------------------------------------
PodType == [role : Roles, hash : Hashes, ready : BOOLEAN, failed : BOOLEAN,
            dying : BOOLEAN, drain : Reasons \cup {"none"}, due : BOOLEAN]

(* The shapes of the state: at most `quota' pods exist, a pod is not ready *)
(* once it has failed or is being deleted, a timer runs only for a drain,  *)
(* and the faults and edits stay within their bounds.                      *)
TypeOK ==
  /\ config \in Configs
  /\ replicas \in [Roles -> Nat] /\ target \in [Roles -> Hashes]
  /\ pod \in [Pods -> PodType \cup {Gone}]
  /\ cache \in [Pods -> PodType \cup {Gone}]
  /\ Cardinality(Counted) <= config.quota
  /\ \A p \in Pods : pod[p] # Gone =>
       /\ pod[p].ready => ~pod[p].failed /\ ~pod[p].dying
       /\ pod[p].due => pod[p].drain # "none"
  /\ run \in [at : {"idle", "scale", "plan", "roll", "status"}, todo : Seq(Roles),
              busy : BOOLEAN, requeue : BOOLEAN, step : Nat, err : BOOLEAN]
  /\ wake \in BOOLEAN
  /\ faults \in 0..config.maxFaults /\ edits \in 0..config.maxEdits
  /\ (run.at \in {"scale", "roll"}) = (run.todo # <<>>)
  /\ ~config.lag => cache = pod

(* "Stop at the availability floor" (rolesyncer.go): a call of a syncer    *)
(* that read a current list never takes a ready pod away when that leaves  *)
(* the role with fewer than replicas - maxUnavailable ready pods; scaling, *)
(* recreating and stepping share the promise.                              *)
FloorKept ==
  [][\A r \in Roles :
       (ScaleRole \/ RollRole) /\ cache = pod /\ ~config.drain
         => \/ Cardinality(ReadyPods(pod', r)) >= replicas[r] - MaxUnavailable(r)
            \/ Cardinality(ReadyPods(pod', r)) = Cardinality(ReadyPods(pod, r))]_vars

(* One update of a RoleSet that was up, with nothing else going on.        *)
PlainRollout ==
  config.settled /\ faults = 0 /\ edits = 1 /\ replicas = config.replicas

(* Sequential: no role has a pod of the new template before every role     *)
(* that upgrades earlier is wholly new and ready.                          *)
SequentialOrder ==
  PlainRollout /\ config.strategy = "Sequential" =>
    \A i, j \in Roles :
      i < j /\ Updated(pod, UpgradeOrder[j]) # {} => AllReady(pod, UpgradeOrder[i])

(* Interleave: "faster roles wait until all roles complete the current     *)
(* step": while a role has pods of its n-th step, every role has finished  *)
(* its step n - 1.                                                         *)
StepsStarted(r) ==
  (Cardinality(Updated(pod, r)) + StepLength(r) - 1) \div StepLength(r)
InterleaveLockstep ==
  PlainRollout /\ config.strategy = "Interleave" =>
    \A r, s \in Roles :
      Cardinality(Updated(pod, s) \cap ReadyPods(pod, s))
        >= Min({(StepsStarted(r) - 1) * StepLength(s), replicas[s]})

(* Every pod wanted, of the template wanted, ready, and no other.          *)
Settled ==
  \A r \in Roles : AllReady(pod, r)

(* Scale and Rollout do not undo each other's work, however stale the      *)
(* cache was and wherever a pass was cut short: the RoleSet settles on its *)
(* last spec, unless repeated API errors left it with the ReplicaFailure   *)
(* condition.  Interleave is held to it only while no pod breaks.          *)
Converges ==
  \/ <>[]Settled
  \/ <>[](status.failure)
  \/ <>(config.strategy = "Interleave" /\ faults > 0)

(* The update is carried out whenever pods of the new template start.      *)
UpdateCompletes == <>[]Settled

(* A pod marked for scale-in does not stay half in: it is deleted after    *)
(* its timeout, or released when the role grows again.                     *)
ScaleInDrainEnds ==
  []<>(\A p \in Pods : pod[p] # Gone => pod[p].drain # "scale-in")
=============================================================================
