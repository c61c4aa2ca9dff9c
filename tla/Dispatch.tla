------------------------------ MODULE Dispatch ------------------------------
(***************************************************************************)
(* What the per-model queue router promises its callers, whatever queue,   *)
(* trigger channel and goroutines it is built from: a request that enters  *)
(* is answered once, with a pod or with an error; a pod whose profile can  *)
(* rank it is given it only while it carries less than its capacity; and a *)
(* pod that cannot rank it, for which no capacity is kept, only when no    *)
(* pod of the list can.                                                    *)
(***************************************************************************)
EXTENDS Naturals, FiniteSets

CONSTANTS Requests,   \* the client requests
          Pods,       \* the pods of the model
          PodLists,   \* the lists of pods requests come with
          Cap         \* requests one pod carries at a time (PendingLoadProvider.Cap)

VARIABLES
  answer,    \* answer[r]: "none", "waiting", "error" or the pod r was given
  finished,  \* requests whose response is over
  ranked,    \* ranked[r]: the pods whose profile ranks r, by an SLO
  weighed    \* weighed[r]: the pods whose profile gives r a cost

dvars == <<answer, finished, ranked, weighed>>

Carried(p) == {r \in Requests \ finished : answer[r] = p /\ p \in weighed[r]}

DInit ==
  /\ answer = [r \in Requests |-> "none"]
  /\ finished = {}
  /\ ranked \in [Requests -> SUBSET Pods]
  /\ weighed \in [Requests -> SUBSET Pods]

Enter(r) ==
  /\ answer[r] = "none"
  /\ answer' = [answer EXCEPT ![r] = "waiting"]
  /\ UNCHANGED <<finished, ranked, weighed>>

\* By rank, where there is room; or by the fallback router, anywhere.
Assign(r, p) ==
  /\ answer[r] = "waiting"
  /\ \/ p \in ranked[r] /\ Cardinality(Carried(p)) < Cap
     \/ \E pods \in PodLists \cup {Pods} : p \in pods /\ ranked[r] \cap pods = {}
  /\ answer' = [answer EXCEPT ![r] = p]
  /\ UNCHANGED <<finished, ranked, weighed>>

Fail(r) ==
  /\ answer[r] \in {"none", "waiting"}
  /\ answer' = [answer EXCEPT ![r] = "error"]
  /\ UNCHANGED <<finished, ranked, weighed>>

Finish(r) ==
  /\ answer[r] \in Pods
  /\ r \notin finished
  /\ finished' = finished \cup {r}
  /\ UNCHANGED <<answer, ranked, weighed>>

DNext ==
  \E r \in Requests :
    \/ Enter(r) \/ Fail(r) \/ Finish(r)
    \/ \E p \in Pods : Assign(r, p)

DSpec == DInit /\ [][DNext]_dvars
=============================================================================
