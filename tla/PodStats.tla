------------------------------ MODULE PodStats ------------------------------
(***************************************************************************)
(* The gateway's local request accounting (pkg/cache): which pod object an *)
(* in-flight request is counted on, while the informer deletes and re-adds *)
(* the same pod key underneath it.                                         *)
(*                                                                         *)
(*   metaPods             key -> *Pod           (Store.metaPods)           *)
(*   recentlyDeletedPods  key -> snapshot       (Store.recentlyDeletedPods)*)
(*   heap                 the *Pod objects, orphaned ones included         *)
(*   rec                  the podStatsRecord an attempt's addPodStats made *)
(*   primary, alias       the two keys of Store.podStats                   *)
(*   informer             the delete/re-add gap inside updatePod           *)
(*                                                                         *)
(* An attempt is one RoutingContext (one Process call).  Critical sections *)
(* under podStatsLockFor(key) are single steps; everything the code does   *)
(* outside that lock is a step of its own.  Object 0 stands for nil.       *)
(***************************************************************************)
EXTENDS Integers, FiniteSets, Functions

CONSTANTS Keys,        \* pod keys (namespace/name)
          IPs,         \* pod IPs, NoIP among them
          NoIP,        \* the empty PodIP of a pod without an address yet
          Attempts,    \* routing attempts, one RoutingContext each
          Requests,    \* request IDs
          Cancelled,   \* request IDs a nil-ctx completion may arrive for
          RequestOf,   \* the request ID an attempt runs under
          LoadOf,      \* the pending load GetConsumption reports; 0 is "no profile"
          NoAttempt,   \* no record
          MaxObjs,     \* bound on *Pod allocations, hence on re-adds
          MaxBurnt     \* a re-delivered add may burn a generation below this one

ASSUME PodStatsAssumption ==
  /\ IsFiniteSet(Attempts)
  /\ Keys # {}
  /\ NoIP \in IPs
  /\ NoAttempt \notin Attempts
  /\ RequestOf \in [Attempts -> Requests]
  /\ LoadOf \in [Attempts -> Nat]
  /\ Cancelled \subseteq Requests
  /\ MaxObjs \in Nat \ {0}
  /\ MaxBurnt \in Nat

VARIABLES
  metaPods,             \* [Keys -> Nat]: the live object, 0 when absent
  recentlyDeletedPods,  \* [Keys -> Snapshot]: pod = 0 when absent
  heap,                 \* [1..MaxObjs -> Pod]
  allocated,            \* number of *Pod objects created so far
  nextStatsGeneration,  \* last statsGeneration issued
  informer,             \* the updatePod whose delete half ran, if any
  pc,                   \* where each attempt is
  target,               \* the v1.Pod each attempt was routed to
  rec,                  \* each attempt's podStatsRecord
  primary,              \* attempts whose attempt-scoped key is in podStats
  alias,                \* [Requests -> attempt whose record the request ID names]
  doneBy,               \* completions in progress: ctx ones and nil-ctx ones
  settled,              \* attempts whose decrement has been applied
  clamped               \* clampedRunningRequestDecrements

vars == <<metaPods, recentlyDeletedPods, heap, allocated, nextStatsGeneration, informer,
          pc, target, rec, primary, alias, doneBy, settled, clamped>>

podVars     == <<metaPods, recentlyDeletedPods, heap, allocated, nextStatsGeneration>>
requestVars == <<pc, target, rec, primary, alias, doneBy, settled, clamped>>

Objs == 1..MaxObjs

Counters == [running : Nat, completed : Nat, pending : Int]
Pod      == [key : Keys, ip : IPs, gen : Nat, c : Counters]
Snapshot == [pod : 0..MaxObjs, ip : IPs, gen : Nat, c : Counters, expired : BOOLEAN]

Zero     == [running |-> 0, completed |-> 0, pending |-> 0]
NoSnap   == [pod |-> 0, ip |-> NoIP, gen |-> 0, c |-> Zero, expired |-> FALSE]
NoRec    == [pod |-> 0, load |-> 0, consumed |-> FALSE]
NoTarget == [key |-> CHOOSE k \in Keys : TRUE, ip |-> NoIP]
Idle     == [phase |-> "idle", of |-> NoAttempt]
NoUpdate == [busy |-> FALSE, key |-> NoTarget.key, ip |-> NoIP]

\* Completions: a ctx completion belongs to an attempt, a nil-ctx one to a request ID.
Completions == ({"ctx"} \X Attempts) \cup ({"nil"} \X Requests)

Init ==
  /\ metaPods = [k \in Keys |-> 0]
  /\ recentlyDeletedPods = [k \in Keys |-> NoSnap]
  /\ heap = [o \in Objs |-> [key |-> NoTarget.key, ip |-> NoIP, gen |-> 0, c |-> Zero]]
  /\ allocated = 0
  /\ nextStatsGeneration = 0
  /\ informer = NoUpdate
  /\ pc = [a \in Attempts |-> "new"]
  /\ target = [a \in Attempts |-> NoTarget]
  /\ rec = [a \in Attempts |-> NoRec]
  /\ primary = {}
  /\ alias = [r \in Requests |-> NoAttempt]
  /\ doneBy = [d \in Completions |-> Idle]
  /\ settled = {}
  /\ clamped = 0

-----------------------------------------------------------------------------
(***************************************************************************)
(* Informer side (informers.go).  c.mu serialises these handlers; the      *)
(* stripe lock makes each half of updatePod one step.                      *)
(***************************************************************************)

SameStatsGeneration(g, h) == g # 0 /\ g = h

\* pruneExpiredDeletedPodSnapshotsLocked: runs on the map as deletePodLocked left it.
Pruned(snaps) == [k \in Keys |-> IF snaps[k].expired THEN NoSnap ELSE snaps[k]]

\* Mutant: the snapshot forgets the completions counted so far.
SnapshotOf_NoCompleted(o) ==
  [pod |-> o, ip |-> heap[o].ip, gen |-> heap[o].gen,
   c |-> [heap[o].c EXCEPT !.completed = 0], expired |-> FALSE]

\* The deletedPodSnapshot deletePodLocked takes of object o.
SnapshotOf(o) ==
  [pod |-> o, ip |-> heap[o].ip, gen |-> heap[o].gen, c |-> heap[o].c, expired |-> FALSE]

\* deletePodLocked.  A key that is not cached changes nothing.
DeletePodLocked(k) ==
  LET o == metaPods[k]
  IN  \/ /\ o = 0
         /\ UNCHANGED <<metaPods, recentlyDeletedPods>>
      \/ /\ o # 0
         /\ metaPods' = [metaPods EXCEPT ![k] = 0]
         /\ recentlyDeletedPods' = Pruned([recentlyDeletedPods EXCEPT ![k] = SnapshotOf(o)])

\* Mutant: resume whatever address the pod comes back with.
Resumes_AnyIP(k, ip) ==
  recentlyDeletedPods[k].pod # 0 /\ ~recentlyDeletedPods[k].expired

\* A snapshot addPodLocked resumes from: within the grace period, same non-empty IP.
Resumes(k, ip) ==
  LET s == recentlyDeletedPods[k]
  IN  s.pod # 0 /\ ~s.expired /\ s.ip # NoIP /\ s.ip = ip

\* addPodLocked.  The snapshot is consumed either way; a fresh add burns a new
\* generation even when LoadOrStore then finds the key already present.
AddPodLocked(k, ip) ==
  LET s == recentlyDeletedPods[k]
      resumed == Resumes(k, ip)
      gen == IF resumed THEN s.gen ELSE nextStatsGeneration + 1
      bufferPod == [key |-> k, ip |-> ip, gen |-> gen, c |-> IF resumed THEN s.c ELSE Zero]
  IN  /\ recentlyDeletedPods' = [recentlyDeletedPods EXCEPT ![k] = NoSnap]
      /\ nextStatsGeneration' = IF resumed THEN nextStatsGeneration ELSE gen
      /\ \/ /\ metaPods[k] = 0
            /\ allocated < MaxObjs
            /\ allocated' = allocated + 1
            /\ metaPods' = [metaPods EXCEPT ![k] = allocated + 1]
            /\ heap' = [heap EXCEPT ![allocated + 1] = bufferPod]
         \/ /\ metaPods[k] # 0
            /\ nextStatsGeneration < MaxBurnt
            /\ UNCHANGED <<metaPods, heap, allocated>>

\* addPod: an informer add event, the first one or a re-delivery.
AddPod(k, ip) ==
  /\ ~informer.busy
  /\ AddPodLocked(k, ip)
  /\ UNCHANGED informer
  /\ UNCHANGED requestVars

\* deletePod for a cached pod (an uncached key returns early or deletes nothing).
DeletePod(k) ==
  /\ ~informer.busy
  /\ metaPods[k] # 0
  /\ DeletePodLocked(k)
  /\ UNCHANGED <<heap, allocated, nextStatsGeneration, informer>>
  /\ UNCHANGED requestVars

\* updatePod, first half: the old object is deleted and the stripe lock released.
UpdatePodDelete(k, ip) ==
  /\ ~informer.busy
  /\ DeletePodLocked(k)
  /\ informer' = [busy |-> TRUE, key |-> k, ip |-> ip]
  /\ UNCHANGED <<heap, allocated, nextStatsGeneration>>
  /\ UNCHANGED requestVars

\* updatePod, second half: the new object is added.
UpdatePodAdd ==
  /\ informer.busy
  /\ AddPodLocked(informer.key, informer.ip)
  /\ informer' = NoUpdate
  /\ UNCHANGED requestVars

\* updatePod, second half, when the new version carries no model or is a worker.
UpdatePodDrop ==
  /\ informer.busy
  /\ informer' = NoUpdate
  /\ UNCHANGED podVars
  /\ UNCHANGED requestVars

\* recentlyDeletedPodGracePeriod passes for a snapshot.
GraceExpires(k) ==
  /\ recentlyDeletedPods[k].pod # 0
  /\ ~recentlyDeletedPods[k].expired
  /\ recentlyDeletedPods' = [recentlyDeletedPods EXCEPT ![k].expired = TRUE]
  /\ UNCHANGED <<metaPods, heap, allocated, nextStatsGeneration, informer>>
  /\ UNCHANGED requestVars

-----------------------------------------------------------------------------
(***************************************************************************)
(* Request side (cache_trace.go).                                          *)
(***************************************************************************)

\* resolvePodOrSnapshotLocked: TRUE when the pending snapshot is what stands for k now.
ResolvesToSnapshot(k, o) ==
  /\ metaPods[k] = 0
  /\ recentlyDeletedPods[k].pod # 0
  /\ SameStatsGeneration(recentlyDeletedPods[k].gen, heap[o].gen)

\* Mutant: trust the pointer captured when the request started.
ResolvedPod_Captured(k, o) == o

\* resolvePodOrSnapshotLocked, otherwise: the live object of the same generation, or o itself.
ResolvedPod(k, o) ==
  IF /\ metaPods[k] # 0
     /\ metaPods[k] # o
     /\ SameStatsGeneration(heap[metaPods[k]].gen, heap[o].gen)
  THEN metaPods[k]
  ELSE o

\* A router picks a cached pod; the attempt keeps that version of the v1.Pod.
Route(a, k) ==
  /\ pc[a] = "new"
  /\ metaPods[k] # 0
  /\ heap[metaPods[k]].ip # NoIP       \* FilterReadyPod
  /\ pc' = [pc EXCEPT ![a] = "routed"]
  /\ target' = [target EXCEPT ![a] = [key |-> k, ip |-> heap[metaPods[k]].ip]]
  /\ UNCHANGED <<rec, primary, alias, doneBy, settled, clamped, informer>>
  /\ UNCHANGED podVars

\* The snapshot addPodStats may count on when the key is absent.
MatchesSnapshot(k, ip) ==
  /\ metaPods[k] = 0
  /\ ip # NoIP
  /\ recentlyDeletedPods[k].pod # 0
  /\ recentlyDeletedPods[k].ip = ip

\* addPodStats, first critical section, the key being live.
CountOnPod(a) ==
  LET o == metaPods[target[a].key]
  IN  /\ pc[a] = "routed"
      /\ o # 0
      /\ heap' = [heap EXCEPT ![o].c.running = @ + 1]
      /\ rec' = [rec EXCEPT ![a] = [pod |-> o, load |-> 0, consumed |-> FALSE]]
      /\ pc' = [pc EXCEPT ![a] = "counted"]
      /\ UNCHANGED <<recentlyDeletedPods>>

\* addPodStats, first critical section, inside a delete/re-add gap.
CountOnSnapshot(a) ==
  LET k == target[a].key
  IN  /\ pc[a] = "routed"
      /\ MatchesSnapshot(k, target[a].ip)
      /\ recentlyDeletedPods' = [recentlyDeletedPods EXCEPT ![k].c.running = @ + 1]
      /\ rec' = [rec EXCEPT ![a] = [pod |-> recentlyDeletedPods[k].pod, load |-> 0,
                                    consumed |-> FALSE]]
      /\ pc' = [pc EXCEPT ![a] = "counted"]
      /\ UNCHANGED heap

\* addPodStats, early return: no live pod and no snapshot with the target's IP.
CountNowhere(a) ==
  LET k == target[a].key
  IN  /\ pc[a] = "routed"
      /\ metaPods[k] = 0
      /\ ~MatchesSnapshot(k, target[a].ip)
      /\ pc' = [pc EXCEPT ![a] = "tracked"]
      /\ UNCHANGED <<heap, recentlyDeletedPods, rec>>

\* AddRequestCount, pod part: CanAddStats lets exactly one caller in, so one step per attempt.
AddPodStats(a) ==
  /\ CountOnPod(a) \/ CountOnSnapshot(a) \/ CountNowhere(a)
  /\ UNCHANGED <<metaPods, allocated, nextStatsGeneration, informer,
                 target, primary, alias, doneBy, settled, clamped>>

\* Mutant: add to the pointer captured before GetConsumption ran.
AddPending_Captured(k, o, d) ==
  /\ heap' = [heap EXCEPT ![o].c.pending = @ + d]
  /\ UNCHANGED recentlyDeletedPods

\* The pending-load delta d lands where object o of key k resolves to now.
AddPending(k, o, d) ==
  IF ResolvesToSnapshot(k, o)
  THEN /\ recentlyDeletedPods' = [recentlyDeletedPods EXCEPT ![k].c.pending = @ + d]
       /\ UNCHANGED heap
  ELSE /\ heap' = [heap EXCEPT ![ResolvedPod(k, o)].c.pending = @ + d]
       /\ UNCHANGED recentlyDeletedPods

\* addPodStats, second critical section, after GetConsumption ran unlocked.
AddPendingLoad(a) ==
  /\ pc[a] = "counted"
  /\ AddPending(target[a].key, rec[a].pod, LoadOf[a])
  /\ rec' = [rec EXCEPT ![a].load = LoadOf[a]]
  /\ pc' = [pc EXCEPT ![a] = "loaded"]
  /\ UNCHANGED <<metaPods, allocated, nextStatsGeneration, informer,
                 target, primary, alias, doneBy, settled, clamped>>

\* Mutant: only the request-ID alias is stored.
StorePodStats_AliasOnly(a) ==
  /\ pc[a] = "loaded"
  /\ alias' = [alias EXCEPT ![RequestOf[a]] = IF @ = NoAttempt THEN a ELSE @]
  /\ pc' = [pc EXCEPT ![a] = "tracked"]
  /\ UNCHANGED <<target, rec, primary, doneBy, settled, clamped, informer>>
  /\ UNCHANGED podVars

\* storePodStats: Store the attempt key, LoadOrStore the request-ID alias.  One step: the first
\* key is reachable only by this attempt's own completion, or through the alias.
StorePodStats(a) ==
  LET r == RequestOf[a]
  IN  /\ pc[a] = "loaded"
      /\ primary' = primary \cup {a}
      /\ alias' = [alias EXCEPT ![r] = IF @ = NoAttempt THEN a ELSE @]
      /\ pc' = [pc EXCEPT ![a] = "tracked"]
      /\ UNCHANGED <<target, rec, doneBy, settled, clamped, informer>>
      /\ UNCHANGED podVars

\* DoneRequestCount / DoneRequestTrace with a ctx, once (CanDoneStats): takePodStats
\* LoadAndDeletes the attempt key.  A miss ends the completion.
TakeByCtx(a) ==
  /\ pc[a] = "tracked"
  /\ pc' = [pc EXCEPT ![a] = "done"]
  /\ doneBy' = IF a \in primary
               THEN [doneBy EXCEPT ![<<"ctx", a>>] = [phase |-> "loaded", of |-> a]]
               ELSE doneBy
  /\ primary' = primary \ {a}
  /\ UNCHANGED <<target, rec, alias, settled, clamped, informer>>
  /\ UNCHANGED podVars

\* DoneRequestCount with a nil ctx: takePodStats LoadAndDeletes the request-ID alias.
TakeByRequest(r) ==
  /\ doneBy[<<"nil", r>>].phase = "idle"
  /\ alias[r] # NoAttempt
  /\ doneBy' = [doneBy EXCEPT ![<<"nil", r>>] = [phase |-> "loaded", of |-> alias[r]]]
  /\ alias' = [alias EXCEPT ![r] = NoAttempt]
  /\ UNCHANGED <<pc, target, rec, primary, settled, clamped, informer>>
  /\ UNCHANGED podVars

\* Mutant: no CompareAndDelete of the record's other key.
Take_KeepsOther(d) ==
  LET a == doneBy[d].of
  IN  /\ doneBy[d].phase = "loaded"
      /\ rec' = [rec EXCEPT ![a].consumed = TRUE]
      /\ doneBy' = [doneBy EXCEPT ![d] = IF rec[a].consumed THEN Idle
                                         ELSE [phase |-> "taken", of |-> a]]
      /\ UNCHANGED <<pc, target, primary, alias, settled, clamped, informer>>
      /\ UNCHANGED podVars

\* takePodStats, rest: CompareAndDelete the record's other key, then take() -- the CAS on
\* consumed that lets one of two racing completions through.
Take(d) ==
  LET a == doneBy[d].of
      r == RequestOf[a]
  IN  /\ doneBy[d].phase = "loaded"
      /\ IF d[1] = "ctx"
         THEN /\ alias' = [alias EXCEPT ![r] = IF @ = a THEN NoAttempt ELSE @]
              /\ UNCHANGED primary
         ELSE /\ primary' = primary \ {a}
              /\ UNCHANGED alias
      /\ rec' = [rec EXCEPT ![a].consumed = TRUE]
      /\ doneBy' = [doneBy EXCEPT ![d] = IF rec[a].consumed THEN Idle
                                         ELSE [phase |-> "taken", of |-> a]]
      /\ UNCHANGED <<pc, target, settled, clamped, informer>>
      /\ UNCHANGED podVars

\* Mutant: a bare decrement.
Completed_NoFloor(c, load) ==
  [running |-> c.running - 1, completed |-> c.completed + 1, pending |-> c.pending - load]

\* The counters after one completion: decrementClamped, completedRequests, pending load.
Completed(c, load) ==
  [running |-> IF c.running > 0 THEN c.running - 1 ELSE 0,
   completed |-> c.completed + 1,
   pending |-> c.pending - load]

\* donePodStats' critical section: the completion lands where the record's object resolves.
DonePodStats(d) ==
  LET a == doneBy[d].of
      o == rec[a].pod
      k == heap[o].key
      p == ResolvedPod(k, o)
      Floored(c) == IF c.running > 0 THEN 0 ELSE 1
  IN  /\ doneBy[d].phase = "taken"
      /\ \/ /\ ResolvesToSnapshot(k, o)
            /\ recentlyDeletedPods' = [recentlyDeletedPods EXCEPT
                                         ![k].c = Completed(@, rec[a].load)]
            /\ clamped' = clamped + Floored(recentlyDeletedPods[k].c)
            /\ UNCHANGED heap
         \/ /\ ~ResolvesToSnapshot(k, o)
            /\ heap' = [heap EXCEPT ![p].c = Completed(@, rec[a].load)]
            /\ clamped' = clamped + Floored(heap[p].c)
            /\ UNCHANGED recentlyDeletedPods
      /\ settled' = settled \cup {a}
      /\ doneBy' = [doneBy EXCEPT ![d] = Idle]
      /\ UNCHANGED <<metaPods, allocated, nextStatsGeneration, informer,
                     pc, target, rec, primary, alias>>

-----------------------------------------------------------------------------
InformerNext ==
  \/ \E k \in Keys, ip \in IPs : AddPod(k, ip) \/ UpdatePodDelete(k, ip)
  \/ \E k \in Keys : DeletePod(k) \/ GraceExpires(k)
  \/ UpdatePodAdd
  \/ UpdatePodDrop

RequestNext ==
  \/ \E a \in Attempts :
       \/ \E k \in Keys : Route(a, k)
       \/ AddPodStats(a)
       \/ AddPendingLoad(a)
       \/ StorePodStats(a)
       \/ TakeByCtx(a)
  \/ \E r \in Cancelled : TakeByRequest(r)
  \/ \E d \in Completions : Take(d) \/ DonePodStats(d)

Next == InformerNext \/ RequestNext

Spec == Init /\ [][Next]_vars

\* Goroutine steps are scheduled eventually, and every stream's deferred cleanup completes its
\* request (Process).  Nothing is assumed of the informer, of routing or of nil-ctx callers.
Fairness ==
  /\ \A a \in Attempts :
       WF_vars(AddPodStats(a) \/ AddPendingLoad(a) \/ StorePodStats(a) \/ TakeByCtx(a))
  /\ \A d \in Completions : WF_vars(Take(d) \/ DonePodStats(d))

FairSpec == Spec /\ Fairness

-----------------------------------------------------------------------------
(***************************************************************************)
(* Properties.                                                             *)
(***************************************************************************)

\* The record of attempt a was made on generation g and its decrement is still to come.
InFlight(g) ==
  {a \in Attempts : /\ rec[a].pod # 0
                    /\ a \notin settled
                    /\ heap[rec[a].pod].gen = g}

\* A completion of attempt a has been taken off podStats and is not applied yet.
Completing(a) == \E d \in Completions : doneBy[d].phase # "idle" /\ doneBy[d].of = a

\* The informer side: two maps, the objects, the allocation and generation counters.
PodTypeOK ==
  /\ metaPods \in [Keys -> 0..MaxObjs]
  /\ recentlyDeletedPods \in [Keys -> Snapshot]
  /\ heap \in [Objs -> Pod]
  /\ allocated \in 0..MaxObjs
  /\ nextStatsGeneration \in Nat

\* The request side: each attempt's progress, its record, podStats and the completions.
RequestTypeOK ==
  /\ pc \in [Attempts -> {"new", "routed", "counted", "loaded", "tracked", "done"}]
  /\ target \in [Attempts -> [key : Keys, ip : IPs]]
  /\ rec \in [Attempts -> [pod : 0..MaxObjs, load : Nat, consumed : BOOLEAN]]
  /\ primary \subseteq Attempts
  /\ alias \in [Requests -> Attempts \cup {NoAttempt}]
  /\ doneBy \in [Completions -> [phase : {"idle", "loaded", "taken"},
                                 of : Attempts \cup {NoAttempt}]]
  /\ settled \subseteq Attempts
  /\ clamped \in Nat

\* Every variable keeps the shape its Go counterpart has; the counters the code declares
\* signed never go below zero (pendingLoadUtilization, a float, is left free).
TypeOK ==
  /\ PodTypeOK
  /\ RequestTypeOK
  /\ informer \in [busy : BOOLEAN, key : Keys, ip : IPs]

\* The running count routing reads off a cached pod, or would resume from a snapshot, is
\* exactly the number of unfinished requests counted on that stats generation: a flap loses
\* and invents nothing, and a recreated pod inherits nothing (addPodStats, donePodStats,
\* deletePodLocked, addPodLocked).
RunningMatchesInFlight ==
  \A k \in Keys :
    /\ metaPods[k] # 0 =>
         heap[metaPods[k]].c.running = Cardinality(InFlight(heap[metaPods[k]].gen))
    /\ recentlyDeletedPods[k].pod # 0 =>
         recentlyDeletedPods[k].c.running =
           Cardinality(InFlight(recentlyDeletedPods[k].gen))

\* The pending load of a cached pod or snapshot is the sum of the loads its unfinished
\* requests added after the unlocked GetConsumption (addPodStats, donePodStats).
PendingMatchesInFlight ==
  LET Sum(g) == SumFunctionOnSet([a \in Attempts |-> rec[a].load], InFlight(g))
  IN  \A k \in Keys :
        /\ metaPods[k] # 0 =>
             heap[metaPods[k]].c.pending = Sum(heap[metaPods[k]].gen)
        /\ recentlyDeletedPods[k].pod # 0 =>
             recentlyDeletedPods[k].c.pending = Sum(recentlyDeletedPods[k].gen)

\* Once a request's ctx completion is over its increment has been given back and podStats
\* holds nothing of it, whichever of the ctx and nil-ctx completions won (takePodStats).
CompletionReleases ==
  \A a \in Attempts :
    (pc[a] = "done" /\ rec[a].pod # 0 /\ ~Completing(a)) =>
      /\ a \in settled
      /\ a \notin primary
      /\ alias[RequestOf[a]] # a

\* A finished generation's completions are counted once: completedRequests of a cached pod or
\* snapshot is the number of requests of its generation that were settled.
CompletedMatchesSettled ==
  LET Done(g) == {a \in settled : heap[rec[a].pod].gen = g}
  IN  \A k \in Keys :
        /\ metaPods[k] # 0 =>
             heap[metaPods[k]].c.completed = Cardinality(Done(heap[metaPods[k]].gen))
        /\ recentlyDeletedPods[k].pod # 0 =>
             recentlyDeletedPods[k].c.completed =
               Cardinality(Done(recentlyDeletedPods[k].gen))

\* A stats generation belongs to one backend: every *Pod object that carries it, whatever
\* flaps lie between them, is the same key at the same IP (addPodLocked's resume gate).
OneBackendPerGeneration ==
  \A o, p \in Objs :
    SameStatsGeneration(heap[o].gen, heap[p].gen) =>
      heap[o].key = heap[p].key /\ heap[o].ip = heap[p].ip

\* Every request that was counted is eventually given back (Process' deferred cleanup,
\* donePodStats).
EveryCountReleased == \A a \in Attempts : (rec[a].pod # 0) ~> (a \in settled)

=============================================================================
