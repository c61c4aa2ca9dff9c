---------------------------- MODULE QueueRouter -----------------------------
(***************************************************************************)
(* The per-model queue router of the gateway                               *)
(* (pkg/plugins/gateway/algorithms/queue_router.go and slo.go) over the    *)
(* SLO queue (pkg/plugins/gateway/queue/slo_queue.go): request goroutines  *)
(* enqueue, trigger and block on their routing context; completions free   *)
(* capacity and trigger; one serve goroutine drains the queue against the  *)
(* pod list of the trigger it received.                                    *)
(*                                                                         *)
(* A pod's load counts requests of cost one.  Ranks depend on the clock    *)
(* and on profiles, so the order of the candidates and of a candidate's    *)
(* profiles, and how far down the profiles the relaxer goes, are chosen    *)
(* freely.  Which profiles can rank a request and which can cost it are    *)
(* separate: a profile without an SLO ranks nothing and still has a        *)
(* throughput.  The routing contexts are not pooled here: each request     *)
(* keeps its own.                                                          *)
(***************************************************************************)
EXTENDS Naturals, FiniteSets, FiniteSetsExt, Sequences, SequencesExt

CONSTANTS
  Requests,     \* client requests of the model
  SubKeys,      \* keys of the SLO queue's subqueues
  KeyOf,        \* [Requests -> SubKeys]: featuresKey, the rounded features
  Rankable,     \* Rankable[r]: deployments whose profile has an SLO for r
  Costed,       \* Costed[r]: deployments whose profile has a throughput for r
  Pods,         \* pods of the model, all of them with an address
  Deployments,  \* deployments (the index of a pod list)
  DeploymentOf, \* [Pods -> Deployments]
  ProfileSets,  \* sets of deployments that may have a profile
  PodLists,     \* pod lists selectTargetPod may hand to Route
  Cap,          \* requests one pod carries (PendingLoadProvider.Cap)
  MaxPanics     \* bound: panics raised by the queue or a backend router

ASSUME Assumptions ==
  /\ IsFiniteSet(Requests) /\ IsFiniteSet(SubKeys)
  /\ Cap \in Nat \ {0} /\ MaxPanics \in Nat
  /\ DeploymentOf \in [Pods -> Deployments]
  /\ KeyOf \in [Requests -> SubKeys]
  /\ Rankable \in [Requests -> SUBSET Deployments]
  /\ Costed \in [Requests -> SUBSET Deployments]
  /\ ProfileSets \subseteq SUBSET Deployments
  /\ PodLists \subseteq (SUBSET Pods) \ {{}}
  /\ {"none", "waiting", "error"} \cap Pods = {}

None == "none"       \* no candidate, no error, target not set
Error == "error"     \* nil target pod: an error was set on the context
SLOFailure == "slo"
Capacity == "capacity"

VARIABLES
  stage,     \* stage[r]: where r's goroutine is
  list,      \* list[r]: the pods r's selectTargetPod passed to Route
  target,    \* target[r]: RoutingContext.targetPod: None, Error or a pod
  counted,   \* requests whose pod stats were added (statsUpdated)
  born,      \* the queued requests in order of arrival (RequestTime)
  load,      \* load[p]: pending-load utilization of p
  subs,      \* subs[k]: the subqueue of key k
  trigger,   \* chRouteTrigger: the one buffered pod list, {} when empty
  serve,     \* the serve goroutine: its step and what it holds
  profiled,  \* deployments with a profile; fixed during a behaviour
  gauge,     \* the published queue depth
  panics,    \* panics so far
  stalled    \* a recovered panic ended the last drain early

reqVars == <<stage, list, target, counted, born>>
vars == <<reqVars, load, subs, trigger, serve, profiled, gauge, panics, stalled>>

Stages == {"new", "enqueued", "waiting", "running", "notifying",
           "failed", "done"}
Steps == {"idle", "peek", "try", "route", "dequeue", "report"}

Idle == [step |-> "idle", pods |-> {}, entry |-> None, sub |-> None,
         err |-> None, cands |-> << >>]

TotalLen == SumFunction([k \in SubKeys |-> Len(subs[k])])

\* The head of subqueue k leaves.
Leaves(k) ==
  /\ subs' = [subs EXCEPT ![k] = Tail(@)]
  /\ born' = SelectSeq(born, LAMBDA r : r # Head(subs[k]))

-----------------------------------------------------------------------------
(* Request goroutines.                                                     *)

\* Mutant: an unbuffered channel.
tryRoute_Unbuffered(pods) ==
  trigger' = IF trigger = {} /\ serve.step = "idle" THEN pods ELSE trigger

\* A pod list that finds the buffer full is dropped.
tryRoute(pods) == trigger' = IF trigger = {} THEN pods ELSE trigger

\* GetConsumption: request r is a load on pod p.
Weighs(r, p) == DeploymentOf[p] \in profiled \cap Costed[r]

\* Mutant: the request is flagged but its load is not added.
AddRequestCount_NoLoad(r, tgt) ==
  /\ counted' = IF tgt[r] \in Pods THEN counted \cup {r} ELSE counted
  /\ UNCHANGED load

\* AddRequestCount's second half: once per routed request, and a pending load
\* only where the pod's profile gives the request a cost, ranked or not.
AddRequestCount(r, tgt) ==
  IF tgt[r] \in Pods /\ r \notin counted
  THEN /\ counted' = counted \cup {r}
       /\ load' = IF Weighs(r, tgt[r])
                  THEN [load EXCEPT ![tgt[r]] = @ + 1] ELSE load
  ELSE UNCHANGED <<counted, load>>

\* Mutant: the newest entry goes to the front.
Enqueue_Front(r, pods) ==
  /\ stage[r] = "new"
  /\ stage' = [stage EXCEPT ![r] = "enqueued"]
  /\ list' = [list EXCEPT ![r] = pods]
  /\ born' = Append(born, r)
  /\ subs' = [subs EXCEPT ![KeyOf[r]] = <<r>> \o @]
  /\ UNCHANGED <<target, counted, load, trigger, serve, profiled, gauge, panics,
                 stalled>>

\* Route: the request is counted, its entry frozen and enqueued in the
\* subqueue of its features.
Enqueue(r, pods) ==
  /\ stage[r] = "new"
  /\ stage' = [stage EXCEPT ![r] = "enqueued"]
  /\ list' = [list EXCEPT ![r] = pods]
  /\ born' = Append(born, r)
  /\ subs' = [subs EXCEPT ![KeyOf[r]] = Append(@, r)]
  /\ UNCHANGED <<target, counted, load, trigger, serve, profiled,
                 gauge, panics, stalled>>

\* Enqueue's error path: the model left the cache, so there is no predictor.
EnqueueFails(r) ==
  /\ stage[r] = "new"
  /\ stage' = [stage EXCEPT ![r] = "failed"]
  /\ target' = [target EXCEPT ![r] = Error]
  /\ UNCHANGED <<list, counted, born, load, subs, trigger, serve,
                 profiled, gauge, panics, stalled>>

\* Route then reports the depth, triggers a drain and blocks on TargetPod().
ReportAndTrigger(r) ==
  /\ stage[r] = "enqueued"
  /\ stage' = [stage EXCEPT ![r] = "waiting"]
  /\ gauge' = TotalLen
  /\ tryRoute(list[r])
  /\ UNCHANGED <<list, target, counted, born, load, subs, serve, profiled,
                 panics, stalled>>

\* Mutant: Route leaves the stats to the serve goroutine.
Wake_NoCount(r) ==
  /\ stage[r] = "waiting" /\ target[r] # None
  /\ stage' = [stage EXCEPT ![r] = IF target[r] = Error THEN "failed" ELSE "running"]
  /\ UNCHANGED <<list, target, counted, born, load, subs, trigger, serve,
                 profiled, gauge, panics, stalled>>

\* TargetPod() returns; Route adds the request's stats if serve has not and
\* returns the address or the error.
Wake(r) ==
  /\ stage[r] = "waiting" /\ target[r] # None
  /\ stage' = [stage EXCEPT ![r] = IF target[r] = Error THEN "failed" ELSE "running"]
  /\ AddRequestCount(r, target)
  /\ UNCHANGED <<list, target, born, subs, trigger, serve, profiled,
                 gauge, panics, stalled>>

\* The client goes away: TargetPod() sets the context's error.  The entry stays
\* in its subqueue.
Cancel(r) ==
  /\ stage[r] = "waiting" /\ target[r] = None
  /\ stage' = [stage EXCEPT ![r] = "failed"]
  /\ target' = [target EXCEPT ![r] = Error]
  /\ UNCHANGED <<list, counted, born, load, subs, trigger, serve,
                 profiled, gauge, panics, stalled>>

\* Mutant: a completion frees the load and notifies nobody.
donePodStats_Silent(r) ==
  /\ stage[r] = "running"
  /\ stage' = [stage EXCEPT ![r] = "done"]
  /\ load' = [load EXCEPT ![target[r]] =
                IF Weighs(r, target[r]) THEN @ - 1 ELSE @]
  /\ UNCHANGED <<list, target, counted, born, subs, trigger, serve, profiled,
                 gauge, panics, stalled>>

\* donePodStats: give the pending load back; if the pod has room again the
\* queue router is to be notified, outside the lock.
donePodStats(r) ==
  /\ stage[r] = "running"
  /\ LET p == target[r]
         left == load[p] - 1
     IN  IF Weighs(r, p)
         THEN /\ load' = [load EXCEPT ![p] = left]
              /\ stage' = [stage EXCEPT ![r] =
                             IF left < Cap THEN "notifying" ELSE "done"]
         ELSE /\ stage' = [stage EXCEPT ![r] = "done"]
              /\ UNCHANGED load
  /\ UNCHANGED <<list, target, counted, born, subs, trigger, serve,
                 profiled, gauge, panics, stalled>>

\* Route(nil, all pods of the model).
Notify(r) ==
  /\ stage[r] = "notifying"
  /\ stage' = [stage EXCEPT ![r] = "done"]
  /\ tryRoute(Pods)
  /\ UNCHANGED <<list, target, counted, born, load, subs, serve,
                 profiled, gauge, panics, stalled>>

-----------------------------------------------------------------------------
(* The serve goroutine.                                                    *)

Receive ==
  /\ serve.step = "idle" /\ trigger # {}
  /\ serve' = [Idle EXCEPT !.step = "peek", !.pods = trigger]
  /\ trigger' = {}
  /\ stalled' = FALSE
  /\ UNCHANGED <<reqVars, load, subs, profiled, gauge, panics>>

Heads == {k \in SubKeys : subs[k] # << >>}
Profiles(pods) == {DeploymentOf[p] : p \in pods} \cap profiled
Born(r) == CHOOSE i \in 1..Len(born) : born[i] = r

\* rank: the profiles of the list that rank r; the heads with one are candidates.
Ranks(r, pods) == Profiles(pods) \cap Rankable[r]
RankedHeads(pods) == {k \in Heads : Ranks(Head(subs[k]), pods) # {}}

\* SLOQueue.Peek up to the sorted candidates: nothing queued; no head that a
\* profile of the list ranks (no profile at all, or none with an SLO), so the
\* head that arrived first, to be routed by the fallback router; or the ranked
\* heads, the others being left out of the round.
Peek ==
  /\ serve.step = "peek"
  /\ \/ /\ Heads = {}
        /\ serve' = Idle
     \/ /\ RankedHeads(serve.pods) = {}
        /\ \E k \in Heads :
             /\ \A j \in Heads : Born(Head(subs[k])) <= Born(Head(subs[j]))
             /\ serve' = [serve EXCEPT !.step = "route", !.sub = k,
                                       !.entry = Head(subs[k])]
     \/ /\ RankedHeads(serve.pods) # {}
        /\ \E order \in SetToSeqs(RankedHeads(serve.pods)) :
             serve' = [serve EXCEPT !.step = "try", !.cands = order]
  /\ UNCHANGED <<reqVars, load, subs, trigger, profiled, gauge, panics, stalled>>

\* leastLoadRouter.Route in pull mode, over the pods of one deployment.
HasRoom(p) == load[p] + 1 <= Cap
Open(d, pods) == {p \in pods : DeploymentOf[p] = d /\ HasRoom(p)}
LeastLoaded(ps) == {p \in ps : \A q \in ps : load[p] <= load[q]}
RouteResult(r, d, pods) ==
  IF d \notin Costed[r] THEN SLOFailure
  ELSE IF Open(d, pods) = {} THEN Capacity ELSE None

\* One candidate of Peek's loop, tried on the profiles ps that rank it, most
\* relaxing first.
\* It is picked with a target, picked with a conclusive error, or left queued
\* because every profile tried last was at capacity.
TryCandidate ==
  /\ serve.step = "try"
  /\ LET k == Head(serve.cands)
         r == Head(subs[k])
         picked(err) == [serve EXCEPT !.step = "route", !.sub = k, !.entry = r,
                                      !.err = err, !.cands = << >>]
         ranks == Ranks(r, serve.pods)
     IN \E ps \in SeqOf(ranks, Cardinality(ranks)) :
          /\ ps # << >> /\ IsInjective(ps)
          /\ LET result(i) == RouteResult(r, ps[i], serve.pods)
                 routable == {i \in 1..Len(ps) : result(i) = None}
             IN \/ /\ target[r] \in Pods
                   /\ serve' = picked(None)
                   /\ UNCHANGED target
                \/ /\ target[r] = None /\ routable # {}
                   /\ \E i \in routable : \E p \in LeastLoaded(Open(ps[i], serve.pods)) :
                        /\ \A j \in routable : i <= j
                        /\ target' = [target EXCEPT ![r] = p]
                   /\ serve' = picked(None)
                \/ /\ \/ target[r] = Error
                      \/ target[r] = None /\ routable = {}
                   /\ LET last == result(Len(ps))
                      IN serve' = IF last # Capacity THEN picked(last)
                                  ELSE IF Len(serve.cands) > 1
                                       THEN [serve EXCEPT !.cands = Tail(@)]
                                       ELSE Idle
                   /\ UNCHANGED target
  /\ UNCHANGED <<stage, list, counted, born, load, subs, trigger,
                 profiled, gauge, panics, stalled>>

\* Mutant: the serve goroutine leaves the stats to the request.
RouteCandidate_NoCount ==
  /\ serve.step = "route"
  /\ LET r == serve.entry
     IN \E p \in serve.pods :
          target' = [target EXCEPT ![r] = IF @ # None THEN @
                                          ELSE IF serve.err # None THEN Error ELSE p]
  /\ serve' = [serve EXCEPT !.step = "dequeue"]
  /\ UNCHANGED <<stage, list, counted, born, load, subs, trigger, profiled,
                 gauge, panics, stalled>>

\* SLORouter.Route: an unrouted candidate without an error goes to the
\* fallback router, which knows no capacity; then AddRequestCount, or SetError.
RouteCandidate ==
  /\ serve.step = "route"
  /\ LET r == serve.entry
     IN \/ /\ serve.err # None
           /\ target' = [target EXCEPT ![r] = IF @ = None THEN Error ELSE @]
           /\ UNCHANGED <<counted, load>>
        \/ /\ serve.err = None
           /\ \E p \in serve.pods :
                target' = [target EXCEPT ![r] = IF @ = None THEN p ELSE @]
           /\ AddRequestCount(r, target')
  /\ serve' = [serve EXCEPT !.step = "dequeue"]
  /\ UNCHANGED <<stage, list, born, subs, trigger, profiled, gauge,
                 panics, stalled>>

Dequeue ==
  /\ serve.step = "dequeue"
  /\ Leaves(serve.sub)
  /\ serve' = [serve EXCEPT !.step = "report", !.sub = None, !.err = None]
  /\ UNCHANGED <<stage, list, target, counted, load, trigger, profiled, gauge, panics, stalled>>

\* Mutant: the gauge is decremented instead of set.
Report_Dec ==
  /\ serve.step = "report"
  /\ gauge' = IF gauge > 0 THEN gauge - 1 ELSE 0
  /\ serve' = [serve EXCEPT !.step = "peek", !.entry = None]
  /\ UNCHANGED <<reqVars, load, subs, trigger, profiled, panics, stalled>>

Report ==
  /\ serve.step = "report"
  /\ gauge' = TotalLen
  /\ serve' = [serve EXCEPT !.step = "peek", !.entry = None]
  /\ UNCHANGED <<reqVars, load, subs, trigger, profiled, panics, stalled>>

-----------------------------------------------------------------------------
(* Recovered panics of the queue and the backend routers.                  *)

FailEntry(r) == target' = [target EXCEPT ![r] = IF @ = None THEN Error ELSE @]

\* While peeking: no candidate yet, the loop waits for the next trigger.
PeekPanics ==
  /\ panics < MaxPanics
  /\ serve.step \in {"peek", "try"}
  /\ serve' = Idle
  /\ panics' = panics + 1 /\ stalled' = TRUE
  /\ UNCHANGED <<reqVars, load, subs, trigger, profiled, gauge>>

\* In the fallback router: the candidate is failed and dropped, the drain goes on.
RoutePanics ==
  /\ panics < MaxPanics
  /\ serve.step = "route" /\ serve.err = None /\ target[serve.entry] \notin Pods
  /\ FailEntry(serve.entry)
  /\ Leaves(serve.sub)
  /\ gauge' = TotalLen - 1
  /\ serve' = [Idle EXCEPT !.step = "peek", !.pods = serve.pods]
  /\ panics' = panics + 1
  /\ UNCHANGED <<stage, list, counted, load, trigger, profiled, stalled>>

\* In Dequeue: the entry may or may not have left; the drain stops.
DequeuePanics ==
  /\ panics < MaxPanics
  /\ serve.step = "dequeue"
  /\ FailEntry(serve.entry)
  /\ \/ /\ Leaves(serve.sub)
        /\ gauge' = TotalLen - 1
     \/ /\ UNCHANGED <<subs, born>>
        /\ gauge' = TotalLen
  /\ serve' = Idle
  /\ panics' = panics + 1 /\ stalled' = TRUE
  /\ UNCHANGED <<stage, list, counted, load, trigger, profiled>>

-----------------------------------------------------------------------------
Init ==
  /\ stage = [r \in Requests |-> "new"]
  /\ list = [r \in Requests |-> {}]
  /\ target = [r \in Requests |-> None]
  /\ counted = {} /\ born = << >>
  /\ load = [p \in Pods |-> 0]
  /\ subs = [k \in SubKeys |-> << >>]
  /\ trigger = {} /\ serve = Idle
  /\ profiled \in ProfileSets
  /\ gauge = 0 /\ panics = 0 /\ stalled = FALSE

RequestStep(r) ==
  \/ \E pods \in PodLists : Enqueue(r, pods)
  \/ EnqueueFails(r) \/ Cancel(r)

Progress(r) ==
  \/ ReportAndTrigger(r) \/ Wake(r)
  \/ donePodStats(r) \/ Notify(r)

ServeStep == Receive \/ Peek \/ TryCandidate \/ RouteCandidate \/ Dequeue \/ Report
PanicStep == PeekPanics \/ RoutePanics \/ DequeuePanics

Next ==
  \/ \E r \in Requests : RequestStep(r) \/ Progress(r)
  \/ ServeStep
  \/ PanicStep

Spec == Init /\ [][Next]_vars

\* The goroutines are scheduled, and a routed request's response ends.
Fairness ==
  /\ WF_vars(ServeStep)
  /\ \A r \in Requests : WF_vars(Progress(r))

FairSpec == Spec /\ Fairness
-----------------------------------------------------------------------------
TypeOK ==
  /\ stage \in [Requests -> Stages]
  /\ list \in [Requests -> SUBSET Pods]
  /\ target \in [Requests -> Pods \cup {None, Error}]
  /\ counted \subseteq Requests
  /\ load \in [Pods -> Nat]
  /\ subs \in [SubKeys -> Seq(Requests)]
  /\ trigger \subseteq Pods
  /\ serve \in [step : Steps, pods : SUBSET Pods, entry : Requests \cup {None},
               sub : SubKeys \cup {None}, err : {None, SLOFailure},
               cands : Seq(SubKeys)]
  /\ profiled \subseteq Deployments
  /\ gauge \in Nat /\ panics \in 0..MaxPanics /\ stalled \in BOOLEAN

\* The entry the serve goroutine peeked is still the head of its subqueue when
\* it is dequeued, however many requests were enqueued or cancelled meanwhile:
\* "unexpected request dequeued" is never logged.
PeekedStaysHead ==
  serve.step \in {"route", "dequeue"} =>
    subs[serve.sub] # << >> /\ Head(subs[serve.sub]) = serve.entry

\* The requests p's load counts.
Counting(p) == {r \in counted : /\ target[r] = p /\ Weighs(r, p)
                               /\ stage[r] \notin {"notifying", "done"}}

\* A request whose Route returned a pod is part of that pod's load until it
\* completes, where the pod's profile gives it a cost, and nothing else is: the
\* stats are added by the serve goroutine or by the request's own, once, before
\* Route returns.
LoadIsTheRunning ==
  \A p \in Pods :
    /\ load[p] = Cardinality(Counting(p))
    /\ \A r \in Requests :
         stage[r] = "running" /\ target[r] = p /\ Weighs(r, p) => r \in Counting(p)

\* A queue at rest holds no request that could be routed: when the serve
\* goroutine waits, no trigger is buffered and nobody is about to send one, every
\* head that can be ranked has a deployment at capacity, and one that cannot
\* waits only behind such a head.  The trigger that the full buffer drops is
\* never the one that was needed.
NoLostWakeup ==
  (/\ serve.step = "idle" /\ trigger = {} /\ ~stalled
   /\ \A r \in Requests : stage[r] \notin {"enqueued", "notifying"})
  => /\ Heads # {} => RankedHeads(Pods) # {}
     /\ \A k \in RankedHeads(Pods) :
          \E d \in Ranks(Head(subs[k]), Pods) :
            RouteResult(Head(subs[k]), d, Pods) = Capacity

\* The published depth is the depth once everybody who changed the queue has
\* reported, whichever of them reported last.
GaugeSettles ==
  (/\ serve.step # "report"
   /\ \A r \in Requests : stage[r] # "enqueued")
  => gauge = TotalLen

\* A waiting request is answered, with a pod or an error, as long as the drain
\* was not cut short by a recovered panic.
WaiterAnswered ==
  \A r \in Requests :
    (stage[r] = "waiting") ~> (stage[r] # "waiting" \/ stalled)

Abstract == INSTANCE Dispatch WITH
  answer <- [r \in Requests |->
               IF target[r] # None THEN target[r]
               ELSE IF stage[r] = "new" THEN "none" ELSE "waiting"],
  finished <- {r \in Requests : stage[r] \in {"notifying", "done"}},
  ranked <- [r \in Requests |-> {p \in Pods : DeploymentOf[p] \in profiled \cap Rankable[r]}],
  weighed <- [r \in Requests |-> {p \in Pods : Weighs(r, p)}]

\* The queue router implements the dispatcher: each request is answered once, a
\* pod that can rank it is handed it only while it carries less than its
\* capacity, and one that cannot only when no pod it was offered with can, though
\* the load is read, the target set and the load raised in three steps.
DispatchSpec == Abstract!DSpec
=============================================================================
