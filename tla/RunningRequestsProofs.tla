----------------------- MODULE RunningRequestsProofs -----------------------
(***************************************************************************)
(* The cross-gateway counter for any pods, gateways, requests, limit and   *)
(* number of faults and crashes: its types, that every +1 is paired with   *)
(* one -1, that the cap is hard, and that the field of a running gateway   *)
(* that holds slots is not deleted.                                        *)
(***************************************************************************)
EXTENDS RunningRequests, SumTheorems

(* A request follows its process, its target, its admission and its        *)
(* increment.                                                              *)
ReqOK(r) ==
  /\ proc[GatewayOf[r]] = "off" => pc[r] = "new"
  /\ proc[GatewayOf[r]] = "dead" => pc[r] \in {"done", "lost"}
  /\ pc[r] = "lost" => proc[GatewayOf[r]] = "dead"
  /\ pc[r] \notin {"new", "done", "lost"} => pod[r] \in Pods
  /\ pc[r] = "new" => r \notin admitted
  /\ pc[r] \in {"releasing", "moving"} => r \in admitted
  /\ pc[r] \in Untracked => incr[r] = "none"
  /\ pc[r] \in {"enforcing", "running", "finishing"} => incr[r] # "none"
  /\ pc[r] = "done" => incr[r] # "pending"
  /\ r \in Queued => pc[r] \in {"new"} \cup Tracked \cup Over
  /\ pc[r] = "enforcing" => r \in Queued \ admitted
  /\ r \in Queued /\ pc[r] = "running" => r \in admitted
  /\ r \in admitted \ Queued /\ pc[r] \in {"running", "finishing"} => incr[r] = "ok"
  /\ (/\ r \in Capped \ Queued /\ pc[r] \in {"routing", "placed", "running"}
      /\ <<pod[r], GatewayOf[r]>> \notin touched) => r \in admitted

RequestInv == \A r \in Requests : ReqOK(r)

(* Who may be deleted from a hash, and who is seen alive.                  *)
GatewayInv ==
  /\ \A g \in Gateways : proc[g] = "up" =>
       /\ g \notin unannounced => beat[g] # "gone"
       /\ g \notin missed => beat[g] = "fresh"
  /\ \A p \in Pods : \A x \in DOMAIN hash[p] : proc[x] # "off"
  /\ \A g \in Gateways, p \in Pods :
       /\ \A x \in pendingPrunes[g][p] : proc[x] # "off"
       /\ \A x \in hygiene[g].del[p] : proc[x] = "dead" \/ x \in unannounced
  /\ \A x \in late : proc[GatewayOf[x.req]] # "off"

(* The queue-routed requests whose admission left its mark as well.        *)
Doubled(p, g) ==
  {r \in Queued \cap admitted : GatewayOf[r] = g /\ pod[r] = p /\ pc[r] \in {"running", "finishing"}}

(* The field counts at least the slots held and the mark of every          *)
(* queue-routed admission still in flight; without queue-routed requests   *)
(* it counts the slots held.                                               *)
Match(p, g) ==
  /\ Field(p, g) >= Cardinality(Held(p, g)) + Cardinality(Doubled(p, g))
  /\ (\A r \in Queued : GatewayOf[r] # g) => Field(p, g) = Cardinality(Held(p, g))

FieldInv ==
  \A p \in Pods, g \in Gateways :
    proc[g] = "up" /\ <<p, g>> \notin touched /\ g \notin unannounced => Match(p, g)

IInv == TypeOK /\ RequestInv /\ GatewayInv /\ FieldInv

-----------------------------------------------------------------------------
(* The fields.                                                             *)

\* Max and Min of two numbers (the floor of the script, observe's minGap).
LEMMA MaxMin ==
  ASSUME NEW a \in Int, NEW b \in Int
  PROVE  /\ Max({a, b}) = IF a >= b THEN a ELSE b
         /\ Min({a, b}) = IF a <= b THEN a ELSE b
<1>1. Max({a, b}) = IF a >= b THEN a ELSE b
  <2>1. \E x \in {a, b} : \A y \in {a, b} : x >= y
    OBVIOUS
  <2>2. Max({a, b}) \in {a, b} /\ \A y \in {a, b} : Max({a, b}) >= y
    BY <2>1 DEF Max
  <2>3. QED
    BY <2>2
<1>2. Min({a, b}) = IF a <= b THEN a ELSE b
  <2>1. \E x \in {a, b} : \A y \in {a, b} : x <= y
    OBVIOUS
  <2>2. Min({a, b}) \in {a, b} /\ \A y \in {a, b} : Min({a, b}) <= y
    BY <2>1 DEF Min
  <2>3. QED
    BY <2>2
<1>3. QED
  BY <1>1, <1>2

HashOK ==
  /\ \A p \in Pods : DOMAIN hash[p] \subseteq Gateways /\ \A g \in DOMAIN hash[p] : hash[p][g] \in Nat
  /\ DOMAIN hash = Pods

\* A field is a natural number.
LEMMA FieldNat ==
  ASSUME HashOK, NEW p \in Pods, NEW g \in Gateways
  PROVE  Field(p, g) \in Nat
BY DEF HashOK, Field, FieldOf

\* runningRequestsIncrDecrScript changes one field of one hash, floors it at
\* zero, and creates it if need be.
LEMMA WriteFacts ==
  ASSUME HashOK, NEW p \in Pods, NEW g \in Gateways, NEW d \in Int, Write(p, g, d)
  PROVE  /\ HashOK'
         /\ \A q \in Pods : DOMAIN hash[q] \subseteq DOMAIN hash'[q]
         /\ \A q \in Pods : DOMAIN hash'[q] \subseteq DOMAIN hash[q] \cup {g}
         /\ \A q \in Pods, x \in Gateways : <<q, x>> # <<p, g>> => Field(q, x)' = Field(q, x)
         /\ Field(p, g) + d >= 0 => Field(p, g)' = Field(p, g) + d \/ (d < 0 /\ DOMAIN hash[p] = {})
<1> DEFINE h == hash[p]
           n == IncrDecr(h, g, d)
           v == Max({0, FieldOf(h, g) + d})
<1>1. FieldOf(h, g) \in Nat /\ DOMAIN h \subseteq Gateways /\ \A x \in DOMAIN h : h[x] \in Nat
  BY DEF HashOK, FieldOf
<1>2. v \in Nat /\ (FieldOf(h, g) + d >= 0 => v = FieldOf(h, g) + d)
  BY <1>1, MaxMin
<1>3. CASE d < 0 /\ DOMAIN h = {}
  <2>1. n = h
    BY <1>3 DEF IncrDecr
  <2>2. hash' = [hash EXCEPT ![p] = h]
    BY <2>1 DEF Write
  <2>3. \A q \in Pods : hash'[q] = hash[q] /\ DOMAIN hash' = Pods
    BY <2>2 DEF HashOK
  <2>4. QED
    BY <1>3, <2>3 DEF HashOK, Field, FieldOf
<1>4. CASE ~(d < 0 /\ DOMAIN h = {})
  <2> HIDE DEF v
  <2>1. n = WithField(h, g, v)
    BY <1>4 DEF IncrDecr, v
  <2>2. /\ DOMAIN n = DOMAIN h \cup {g} /\ n[g] = v
        /\ \A x \in DOMAIN h \ {g} : n[x] = h[x]
    BY <2>1 DEF WithField
  <2>3. hash' = [hash EXCEPT ![p] = n]
    BY DEF Write
  <2> HIDE DEF n
  <2>4. hash'[p] = n /\ DOMAIN hash' = Pods /\ \A q \in Pods \ {p} : hash'[q] = hash[q]
    BY <2>3 DEF HashOK
  <2>5. HashOK'
    BY <1>1, <1>2, <2>2, <2>4 DEF HashOK
  <2>6. \A q \in Pods, x \in Gateways : <<q, x>> # <<p, g>> => Field(q, x)' = Field(q, x)
    BY <2>2, <2>4 DEF Field, FieldOf
  <2>7. Field(p, g)' = v /\ Field(p, g) = FieldOf(h, g)
    BY <2>2, <2>4 DEF Field, FieldOf
  <2>8. QED
    BY <1>2, <2>2, <2>4, <2>5, <2>6, <2>7
<1>5. QED
  BY <1>3, <1>4

\* A gateway gives back a slot it has.
LEMMA WriteBack ==
  ASSUME HashOK, NEW p \in Pods, NEW g \in Gateways, Write(p, g, -1), Field(p, g) > 0
  PROVE  Field(p, g)' = Field(p, g) - 1
<1>1. Field(p, g) \in Nat /\ g \in DOMAIN hash[p]
  BY FieldNat DEF Field, FieldOf
<1>2. QED
  BY <1>1, WriteFacts

\* A gateway takes a slot.
LEMMA WriteOne ==
  ASSUME HashOK, NEW p \in Pods, NEW g \in Gateways, Write(p, g, 1)
  PROVE  Field(p, g)' = Field(p, g) + 1
<1>1. Field(p, g) \in Nat
  BY FieldNat
<1>2. QED
  BY <1>1, WriteFacts

\* A request whose increment is outstanding has a target.
LEMMA PendingHasPod ==
  ASSUME TypeOK, RequestInv, NEW r \in Requests, Up(r), incr[r] = "pending"
  PROVE  pc[r] \in {"enforcing", "running", "finishing"} /\ pod[r] \in Pods
<1>1. pc[r] \in Untracked \cup Tracked \cup Over
  BY DEF TypeOK
<1>2. pc[r] \notin Untracked /\ pc[r] # "done" /\ pc[r] # "lost"
  BY DEF RequestInv, ReqOK, Up
<1>3. pc[r] \in {"enforcing", "running", "finishing"}
  BY <1>1, <1>2 DEF Tracked, Over
<1>4. QED
  BY <1>3 DEF RequestInv, ReqOK

\* What a step may do to the hashes: one script of a gateway that has started,
\* an expiry, or the HDEL of a hygiene pass.
LEMMA HashCases ==
  ASSUME IInv, Next
  PROVE  \/ UNCHANGED hash
         \/ \E p \in Pods, g \in Gateways, d \in Int : proc[g] # "off" /\ Write(p, g, d)
         \/ \E p \in Pods : Expire(p)
         \/ \E g \in Gateways : HygieneHdel(g)
<1> DEFINE Writes == \E p \in Pods, g \in Gateways, d \in Int : proc[g] # "off" /\ Write(p, g, d)
<1>0. /\ TypeOK /\ RequestInv /\ GatewayInv
      /\ \A r \in Requests : GatewayOf[r] \in Gateways
  BY RunningRequestsAssumption DEF IInv
<1>1. ASSUME NEW p \in Pods, NEW g \in Gateways, NEW local, proc[g] # "off", AdmitScript(p, g, local)
      PROVE  UNCHANGED hash \/ Writes
  BY <1>1 DEF AdmitScript, Write
<1>2. ASSUME NEW r \in Requests, Up(r), pod[r] \in Pods, NEW kind, NEW d \in Int, FailedWrite(r, kind, d)
      PROVE  UNCHANGED hash \/ Writes
  BY <1>0, <1>2 DEF FailedWrite, Up
<1>3. ASSUME NEW r \in Requests, Up(r), pod[r] \in Pods, NEW d \in Int, Write(pod[r], GatewayOf[r], d)
      PROVE  Writes
  BY <1>0, <1>3 DEF Up
<1>4. ASSUME NEW r \in Requests, RequestStep(r) PROVE UNCHANGED hash \/ Writes
  <2>1. ASSUME NEW p \in Pods, AdmitOk(r, p) \/ AdmitError(r, p) PROVE UNCHANGED hash \/ Writes
    BY <1>0, <1>1, <2>1 DEF AdmitOk, AdmitError, Up
  <2>2. CASE Release(r)
    <3>1. Up(r) /\ pod[r] \in Pods
      BY <1>0, <2>2 DEF Release, RequestInv, ReqOK
    <3>2. QED
      BY <1>2, <1>3, <2>2, <3>1 DEF Release
  <2>3. CASE QueueEnforce(r)
    <3>1. Up(r) /\ pod[r] \in Pods /\ \E local : AdmitScript(pod[r], GatewayOf[r], local)
      BY <1>0, <2>3 DEF QueueEnforce, RequestInv, ReqOK, Move
    <3>2. QED
      BY <1>0, <1>1, <3>1 DEF Up
  <2>4. CASE IncrPodRunningRequests(r)
    <3>1. Up(r) /\ pod[r] \in Pods
      BY <1>0, <2>4, PendingHasPod DEF IncrPodRunningRequests
    <3>2. QED
      BY <1>2, <1>3, <2>4, <3>1 DEF IncrPodRunningRequests
  <2>5. CASE DecrPodRunningRequests(r)
    <3>1. Up(r) /\ pod[r] \in Pods
      BY <1>0, <2>5 DEF DecrPodRunningRequests, RequestInv, ReqOK, Move
    <3>2. QED
      BY <1>2, <1>3, <2>5, <3>1 DEF DecrPodRunningRequests
  <2>6. QED
    BY <1>4, <2>1, <2>2, <2>3, <2>4, <2>5 DEF RequestStep, AdmitRejected, PlaceUncounted, QueueServe,
       RouteReturns, RouteGivesUp, AddRequestCount, AddRequestCountNowhere, Complete
<1>5. ASSUME NEW g \in Gateways, NEW p \in Pods, HygieneCorrect(g, p) PROVE UNCHANGED hash \/ Writes
  <2>1. hygiene[g].fix[p] \in Int /\ proc[g] # "off"
    BY <1>0, <1>5 DEF TypeOK, HygieneCorrect
  <2>2. QED
    BY <1>5, <2>1 DEF HygieneCorrect
<1>6. ASSUME NEW x \in late, LateScript(x) PROVE UNCHANGED hash \/ Writes
  <2>1. /\ x.req \in Requests /\ x.pod \in Pods /\ proc[GatewayOf[x.req]] # "off"
        /\ x.kind \in {"admit", "incr", "decr"}
    BY <1>0, <1>6 DEF TypeOK, Scripts, GatewayInv
  <2>2. GatewayOf[x.req] \in Gateways /\ 1 \in Int /\ -1 \in Int
    BY <1>0, <2>1
  <2>3. \/ AdmitScript(x.pod, GatewayOf[x.req], x.local)
        \/ Write(x.pod, GatewayOf[x.req], 1)
        \/ Write(x.pod, GatewayOf[x.req], -1)
    BY <1>6, <2>1 DEF LateScript
  <2>4. QED
    BY <1>1, <2>1, <2>2, <2>3
<1>7. ASSUME NEW g \in Gateways, HygieneStep(g) \/ GatewayStep(g)
      PROVE  UNCHANGED hash \/ Writes \/ HygieneHdel(g)
  BY <1>5, <1>7 DEF HygieneStep, GatewayStep, HygieneStart, HygieneSample, Start, Heartbeat, Stale, Gone,
                    Crash, Read
<1>8. QED
  BY <1>4, <1>6, <1>7 DEF Next

-----------------------------------------------------------------------------
(* Types.                                                                  *)

RequestTypes ==
  /\ pc \in [Requests -> Untracked \cup Tracked \cup Over]
  /\ pod \in [Requests -> Pods \cup {NoPod}]
  /\ admitted \subseteq Requests
  /\ incr \in [Requests -> {"none", "pending", "ok", "failed"}]

HygieneType == [at : {"idle", "hdel", "sample", "correct"},
                del : [Pods -> SUBSET Gateways], fix : [Pods -> Int]]

HygieneTypes ==
  /\ drift \in [Gateways -> [Pods -> DriftStates]]
  /\ hygiene \in [Gateways -> HygieneType]
  /\ \A g \in Gateways :
       /\ (hygiene[g].del # NoDel) <=> (hygiene[g].at = "hdel")
       /\ (hygiene[g].fix # NoFix) <=> (hygiene[g].at = "correct")
  /\ pendingPrunes \in [Gateways -> [Pods -> SUBSET Gateways]]

ServerTypes ==
  /\ beat \in [Gateways -> {"fresh", "stale", "gone"}]
  /\ proc \in [Gateways -> {"off", "up", "dead"}]
  /\ missed \subseteq Gateways /\ unannounced \subseteq missed

CallTypes ==
  /\ late \subseteq Scripts
  /\ faults \in 0..MaxFaults
  /\ touched \subseteq Pods \X Gateways

\* The type invariant, group by group.
LEMMA TypeGroups == TypeOK <=> HashOK /\ RequestTypes /\ HygieneTypes /\ ServerTypes /\ CallTypes
BY DEF TypeOK, HashOK, RequestTypes, HygieneTypes, ServerTypes, CallTypes, HygieneType

\* The hashes keep their type.
LEMMA HashType ==
  ASSUME IInv, Next
  PROVE  HashOK'
<1>0. HashOK
  BY TypeGroups DEF IInv
<1>1. CASE UNCHANGED hash
  BY <1>0, <1>1 DEF HashOK
<1>2. ASSUME NEW p \in Pods, NEW g \in Gateways, NEW d \in Int, Write(p, g, d) PROVE HashOK'
  BY <1>0, <1>2, WriteFacts
<1>3. ASSUME NEW p \in Pods, Expire(p) PROVE HashOK'
  BY <1>0, <1>3 DEF HashOK, Expire, NoHash
<1>4. ASSUME NEW g \in Gateways, HygieneHdel(g) PROVE HashOK'
  <2> DEFINE pruned == [p \in Pods |-> [x \in DOMAIN hash[p] \ hygiene[g].del[p] |-> hash[p][x]]]
  <2>1. hash' = hash \/ hash' = pruned
    BY <1>4 DEF HygieneHdel
  <2>2. CASE hash' = pruned
    BY <1>0, <2>2 DEF HashOK
  <2>3. QED
    BY <1>1, <2>1, <2>2
<1>5. QED
  BY <1>1, <1>2, <1>3, <1>4, HashCases

\* The requests keep their types.
LEMMA RequestType ==
  ASSUME IInv, Next
  PROVE  RequestTypes'
<1>0. RequestTypes
  BY TypeGroups DEF IInv
<1> USE DEF RequestTypes, Untracked, Tracked, Over
<1>1. CASE UNCHANGED requestVars
  BY <1>0, <1>1 DEF requestVars
<1>2. ASSUME NEW g \in Gateways, Crash(g) PROVE RequestTypes'
  BY <1>0, <1>2 DEF Crash
<1>3. ASSUME NEW r \in Requests, RequestStep(r) PROVE RequestTypes'
  <2>1. ASSUME NEW p \in Pods, AdmitOk(r, p) \/ AdmitRejected(r, p) \/ PlaceUncounted(r, p)
                               \/ QueueServe(r, p)
        PROVE  RequestTypes'
    BY <1>0, <2>1 DEF AdmitOk, AdmitRejected, PlaceUncounted, QueueServe, Move, AfterAdmit
  <2>2. ASSUME NEW p \in Pods, AdmitError(r, p) PROVE RequestTypes'
    BY <1>0, <2>2 DEF AdmitError, Move, AfterAdmit
  <2>3. CASE RouteReturns(r) \/ RouteGivesUp(r) \/ Release(r)
    BY <1>0, <2>3 DEF RouteReturns, RouteGivesUp, Release, AfterRelease, Move
  <2>4. CASE AddRequestCount(r) \/ AddRequestCountNowhere(r) \/ QueueEnforce(r)
    BY <1>0, <2>4 DEF AddRequestCount, AddRequestCountNowhere, QueueEnforce, Move
  <2>5. CASE IncrPodRunningRequests(r) \/ Complete(r) \/ DecrPodRunningRequests(r)
    BY <1>0, <2>5 DEF IncrPodRunningRequests, Complete, DecrPodRunningRequests, Move
  <2>6. QED
    BY <1>3, <2>1, <2>2, <2>3, <2>4, <2>5 DEF RequestStep
<1>4. QED
  BY <1>1, <1>2, <1>3 DEF Next, HygieneStep, GatewayStep, HygieneStart, HygieneHdel, HygieneSample,
     HygieneCorrect, Start, Heartbeat, Stale, Gone, Read, LateScript, Expire

\* The liveness set and the processes keep their types.
LEMMA ServerType ==
  ASSUME IInv, Next
  PROVE  ServerTypes'
<1>0. ServerTypes
  BY TypeGroups DEF IInv
<1> USE DEF ServerTypes
<1>1. CASE UNCHANGED serverVars
  BY <1>0, <1>1 DEF serverVars
<1>2. ASSUME NEW g \in Gateways, Start(g) \/ Heartbeat(g) \/ Stale(g) \/ Gone(g) \/ Crash(g)
      PROVE  ServerTypes'
  BY <1>0, <1>2 DEF Start, Heartbeat, Stale, Gone, Crash
<1>3. QED
  BY <1>1, <1>2 DEF Next, RequestStep, HygieneStep, GatewayStep, HygieneStart, HygieneHdel,
     HygieneSample, HygieneCorrect, Read, LateScript, Expire, AdmitOk, AdmitRejected, AdmitError,
     PlaceUncounted, QueueServe, RouteReturns, RouteGivesUp, Release, AddRequestCount,
     AddRequestCountNowhere, QueueEnforce, IncrPodRunningRequests, Complete, DecrPodRunningRequests

\* A local count is a natural number.
LEMMA LocalNat ==
  ASSUME NEW p, NEW g
  PROVE  Local(p, g) \in Nat
<1> DEFINE S == {r \in Requests : GatewayOf[r] = g /\ pod[r] = p /\ pc[r] \in Tracked}
<1>1. IsFiniteSet(S)
  <2>1. S \subseteq Requests
    OBVIOUS
  <2> HIDE DEF S
  <2>2. QED
    BY <2>1, FS_Subset, RunningRequestsAssumption
<1>2. Cardinality(S) \in Nat
  <2> HIDE DEF S
  <2>1. QED
    BY <1>1, FS_CardinalityType
<1>3. QED
  BY <1>2 DEF Local

\* A call that fails is counted within the bound.
LEMMA FaultType ==
  ASSUME CallTypes, NEW p \in Pods, NEW g \in Gateways, Fault(p, g) \/ NoFault
  PROVE  faults' \in 0..MaxFaults /\ touched' \subseteq Pods \X Gateways
BY RunningRequestsAssumption DEF CallTypes, Fault, NoFault

\* The calls under way and the histories keep their types.
LEMMA CallType ==
  ASSUME IInv, Next
  PROVE  CallTypes'
<1>0. CallTypes /\ TypeOK /\ RequestInv /\ MaxFaults \in Nat
  BY TypeGroups, RunningRequestsAssumption DEF IInv
<1>1. CASE UNCHANGED <<late, faults, touched>>
  BY <1>0, <1>1 DEF CallTypes
<1>2. ASSUME UNCHANGED <<late, touched>>, faults < MaxFaults, faults' = faults + 1 PROVE CallTypes'
  BY <1>0, <1>2 DEF CallTypes
<1>3. ASSUME NEW r \in Requests, RequestStep(r) PROVE CallTypes'
  <2>0. GatewayOf[r] \in Gateways
    BY RunningRequestsAssumption
  <2>1. ASSUME NEW p \in Pods, AdmitError(r, p) PROVE CallTypes'
    <3>1. [req |-> r, kind |-> "admit", pod |-> p, local |-> Local(p, GatewayOf[r])] \in Scripts
      BY LocalNat DEF Scripts
    <3>2. late' \subseteq Scripts
      BY <1>0, <2>1, <3>1 DEF AdmitError, CallTypes
    <3>3. QED
      BY <1>0, <2>0, <2>1, <3>2, FaultType DEF AdmitError, CallTypes
  <2>2. ASSUME NEW p \in Pods, PlaceUncounted(r, p) PROVE CallTypes'
    <3>1. Fault(p, GatewayOf[r]) \/ NoFault
      BY <2>2 DEF PlaceUncounted
    <3>2. QED
      BY <1>0, <2>0, <2>2, <3>1, FaultType DEF PlaceUncounted, CallTypes
  <2>3. ASSUME pod[r] \in Pods, Fault(pod[r], GatewayOf[r]) \/ NoFault,
               UNCHANGED late \/ (\E kind \in {"incr", "decr"} : \E d : FailedWrite(r, kind, d))
        PROVE  CallTypes'
    <3>1. faults' \in 0..MaxFaults /\ touched' \subseteq Pods \X Gateways
      BY <1>0, <2>0, <2>3, FaultType
    <3>2. \A kind \in {"incr", "decr"} : [req |-> r, kind |-> kind, pod |-> pod[r], local |-> 0] \in Scripts
      BY <2>3 DEF Scripts
    <3>3. late' \subseteq Scripts
      BY <1>0, <2>3, <3>2 DEF FailedWrite, CallTypes
    <3>4. QED
      BY <3>1, <3>3 DEF CallTypes
  <2>4. CASE Release(r)
    <3>1. pod[r] \in Pods
      BY <1>0, <2>4 DEF Release, RequestInv, ReqOK
    <3>2. QED
      BY <2>3, <2>4, <3>1 DEF Release
  <2>5. CASE AddRequestCountNowhere(r)
    <3>1. pod[r] \in Pods
      BY <1>0, <2>5 DEF AddRequestCountNowhere, RequestInv, ReqOK, Move
    <3>2. QED
      BY <2>3, <2>5, <3>1 DEF AddRequestCountNowhere
  <2>6. CASE IncrPodRunningRequests(r)
    <3>1. pod[r] \in Pods
      BY <1>0, <2>6, PendingHasPod DEF IncrPodRunningRequests
    <3>2. QED
      BY <2>3, <2>6, <3>1 DEF IncrPodRunningRequests
  <2>7. CASE DecrPodRunningRequests(r)
    <3>1. pod[r] \in Pods
      BY <1>0, <2>7 DEF DecrPodRunningRequests, RequestInv, ReqOK, Move
    <3>2. QED
      BY <2>3, <2>7, <3>1 DEF DecrPodRunningRequests
  <2>8. QED
    BY <1>1, <1>3, <2>1, <2>2, <2>4, <2>5, <2>6, <2>7 DEF RequestStep, AdmitOk, AdmitRejected, QueueServe,
       RouteReturns, RouteGivesUp, AddRequestCount, QueueEnforce, Complete, NoFault
<1>4. ASSUME NEW g \in Gateways, HygieneStep(g) \/ GatewayStep(g) PROVE CallTypes'
  <2>1. ASSUME NEW p \in Pods, HygieneCorrect(g, p) PROVE CallTypes'
    BY <1>0, <2>1 DEF HygieneCorrect, Fault, CallTypes
  <2>2. CASE HygieneStart(g) \/ HygieneHdel(g) \/ Start(g) \/ Stale(g)
    BY <1>1, <1>2, <2>2 DEF HygieneStart, HygieneHdel, Start, Stale
  <2>3. QED
    BY <1>1, <1>4, <2>1, <2>2 DEF HygieneStep, GatewayStep, HygieneSample, Heartbeat, Gone, Crash, Read,
                                  NoFault
<1>5. ASSUME NEW x \in late, LateScript(x) PROVE CallTypes'
  <2>1. x.req \in Requests /\ x.pod \in Pods
    BY <1>0 DEF CallTypes, Scripts
  <2>2. GatewayOf[x.req] \in Gateways
    BY <2>1, RunningRequestsAssumption
  <2>3. QED
    BY <1>0, <1>5, <2>1, <2>2 DEF LateScript, CallTypes
<1>6. QED
  BY <1>1, <1>3, <1>4, <1>5 DEF Next, Expire, NoFault


\* observe never loses count: a drift it tracks has been seen fewer than
\* ConfirmPasses times, and its correction is a whole number.
LEMMA ObserveType ==
  ASSUME NEW s \in DriftStates, NEW a \in Nat, NEW b \in Nat
  PROVE  Observe(s, a, b).state \in DriftStates /\ Observe(s, a, b).correction \in Int
<1> DEFINE gap == a - b
           direction == IF gap < 0 THEN -1 ELSE 1
           size == direction * gap
           o == Observed(s, a, b)
<1>1. ConfirmPasses \in Nat \ {0}
  BY RunningRequestsAssumption
<1>2. direction \in {-1, 1} /\ size \in Nat
  OBVIOUS
<1>3. NoDrift \in DriftStates
  BY <1>1 DEF NoDrift, DriftStates
<1>4. o.direction \in {-1, 1} /\ o.passes \in Nat /\ o.minGap \in Nat
      /\ o = [direction |-> o.direction, passes |-> o.passes, minGap |-> o.minGap]
  <2> HIDE DEF direction, size
  <2>1. o = IF s.direction = direction
            THEN [s EXCEPT !.passes = @ + 1, !.minGap = Min({@, size})]
            ELSE [direction |-> direction, passes |-> 1, minGap |-> size]
    BY DEF Observed, direction, size
  <2>2. /\ s = [direction |-> s.direction, passes |-> s.passes, minGap |-> s.minGap]
        /\ s.direction \in {-1, 0, 1} /\ s.passes \in Nat /\ s.minGap \in Nat
    BY <1>1 DEF DriftStates
  <2>3. Min({s.minGap, size}) \in Nat
    BY <1>2, <2>2, MaxMin
  <2>4. CASE s.direction = direction
    <3>1. o = [direction |-> direction, passes |-> s.passes + 1, minGap |-> Min({s.minGap, size})]
      BY <2>1, <2>2, <2>4
    <3> HIDE DEF o
    <3>2. QED
      BY <1>2, <2>2, <2>3, <3>1
  <2>5. CASE s.direction # direction
    <3>1. o = [direction |-> direction, passes |-> 1, minGap |-> size]
      BY <2>1, <2>5
    <3> HIDE DEF o
    <3>2. QED
      BY <1>2, <3>1
  <2>6. QED
    BY <2>4, <2>5
<1>5. CASE a = b
  BY <1>3, <1>5 DEF Observe
<1> HIDE DEF o
<1>6. CASE a # b /\ o.passes < ConfirmPasses
  <2>1. o \in DriftStates
    <3>1. o.passes \in 0..(ConfirmPasses - 1)
      BY <1>1, <1>4, <1>6
    <3>2. QED
      BY <1>4, <3>1 DEF DriftStates
  <2>2. Observe(s, a, b) = [state |-> o, correction |-> 0]
    BY <1>6 DEF Observe, o
  <2>3. QED
    BY <2>1, <2>2
<1>7. CASE a # b /\ ~(o.passes < ConfirmPasses)
  <2>1. Observe(s, a, b) = [state |-> NoDrift, correction |-> -o.direction * o.minGap]
    BY <1>7 DEF Observe, o
  <2>2. -o.direction * o.minGap \in Int
    BY <1>4
  <2>3. QED
    BY <1>3, <2>1, <2>2
<1>8. QED
  BY <1>5, <1>6, <1>7

\* A hygiene state set in one piece.
LEMMA HygieneSet ==
  ASSUME HygieneTypes, NEW g \in Gateways, NEW h \in HygieneType, hygiene' = [hygiene EXCEPT ![g] = h],
         (h.del # NoDel) <=> (h.at = "hdel"), (h.fix # NoFix) <=> (h.at = "correct")
  PROVE  /\ hygiene' \in [Gateways -> HygieneType]
         /\ \A x \in Gateways :
              /\ (hygiene'[x].del # NoDel) <=> (hygiene'[x].at = "hdel")
              /\ (hygiene'[x].fix # NoFix) <=> (hygiene'[x].at = "correct")
<1>1. hygiene \in [Gateways -> HygieneType]
  BY DEF HygieneTypes
<1>2. hygiene'[g] = h /\ \A x \in Gateways \ {g} : hygiene'[x] = hygiene[x]
  BY <1>1
<1>3. hygiene' \in [Gateways -> HygieneType]
  BY <1>1
<1>4. QED
  BY <1>2, <1>3 DEF HygieneTypes

\* A hygiene state set field by field is the whole state set at once.
LEMMA UpdateAt ==
  ASSUME NEW f \in [Gateways -> HygieneType], NEW g \in Gateways, NEW a
  PROVE  [f EXCEPT ![g].at = a] = [f EXCEPT ![g] = [at |-> a, del |-> f[g].del, fix |-> f[g].fix]]
<1> DEFINE h == f[g]
<1>1. [h EXCEPT !.at = a] = [at |-> a, del |-> h.del, fix |-> h.fix]
  BY DEF HygieneType
<1>2. [f EXCEPT ![g].at = a] = [f EXCEPT ![g] = [h EXCEPT !.at = a]]
  OBVIOUS
<1>3. QED
  BY <1>1, <1>2, Zenon

\* The hygiene pass keeps its types, and owes a deletion or a correction only
\* at that stage.
LEMMA HygieneTypeKept ==
  ASSUME IInv, Next
  PROVE  HygieneTypes'
<1>0. HygieneTypes /\ HashOK
  BY TypeGroups DEF IInv
<1>1. CASE UNCHANGED hygieneVars
  BY <1>0, <1>1 DEF HygieneTypes, hygieneVars
<1>2. /\ NoDel \in [Pods -> SUBSET Gateways] /\ NoFix \in [Pods -> Int] /\ NoDrift \in DriftStates
      /\ Resting \in HygieneType /\ Resting.at = "idle" /\ Resting.del = NoDel /\ Resting.fix = NoFix
  BY RunningRequestsAssumption DEF NoDel, NoFix, NoDrift, DriftStates, Resting, HygieneType
<1>3. /\ drift \in [Gateways -> [Pods -> DriftStates]]
      /\ pendingPrunes \in [Gateways -> [Pods -> SUBSET Gateways]]
      /\ hygiene \in [Gateways -> HygieneType]
  BY <1>0 DEF HygieneTypes
<1>4. ASSUME NEW g \in Gateways, NEW at \in {"idle", "hdel", "sample", "correct"},
             NEW del \in [Pods -> SUBSET Gateways], NEW fix \in [Pods -> Int],
             (del # NoDel) <=> (at = "hdel"), (fix # NoFix) <=> (at = "correct"),
             hygiene' = [hygiene EXCEPT ![g] = [at |-> at, del |-> del, fix |-> fix]],
             drift' \in [Gateways -> [Pods -> DriftStates]],
             pendingPrunes' \in [Gateways -> [Pods -> SUBSET Gateways]]
      PROVE  HygieneTypes'
  <2> DEFINE h == [at |-> at, del |-> del, fix |-> fix]
  <2>1. h \in HygieneType /\ h.at = at /\ h.del = del /\ h.fix = fix
    BY DEF HygieneType
  <2> HIDE DEF h
  <2>2. hygiene' = [hygiene EXCEPT ![g] = h]
    BY <1>4 DEF h
  <2>3. QED
    BY <1>0, <1>4, <2>1, <2>2, HygieneSet DEF HygieneTypes
<1>5. \A g \in Gateways : /\ hygiene[g].del \in [Pods -> SUBSET Gateways] /\ hygiene[g].fix \in [Pods -> Int]
                          /\ (hygiene[g].del # NoDel) <=> (hygiene[g].at = "hdel")
                          /\ (hygiene[g].fix # NoFix) <=> (hygiene[g].at = "correct")
                          /\ hygiene[g] = [at |-> hygiene[g].at, del |-> hygiene[g].del, fix |-> hygiene[g].fix]
  BY <1>0 DEF HygieneTypes, HygieneType
<1>6. ASSUME NEW g \in Gateways, Crash(g) PROVE HygieneTypes'
  <2>1. hygiene' = [hygiene EXCEPT ![g] = Resting]
    BY <1>6 DEF Crash
  <2>2. drift' \in [Gateways -> [Pods -> DriftStates]]
        /\ pendingPrunes' \in [Gateways -> [Pods -> SUBSET Gateways]]
    BY <1>2, <1>3, <1>6 DEF Crash
  <2>3. QED
    BY <1>0, <1>2, <2>1, <2>2, HygieneSet DEF HygieneTypes
<1>7. ASSUME NEW g \in Gateways, NEW p \in Pods, Read(g, p) PROVE HygieneTypes'
  <2>1. Excluded(p, g) \in SUBSET Gateways
    BY <1>0 DEF Excluded, HashOK
  <2>2. pendingPrunes' \in [Gateways -> [Pods -> SUBSET Gateways]]
    BY <1>3, <1>7, <2>1 DEF Read
  <2>3. QED
    BY <1>0, <1>7, <2>2 DEF Read, HygieneTypes
<1>8. ASSUME NEW g \in Gateways, HygieneStart(g) PROVE HygieneTypes'
  <2> DEFINE del == [p \in Pods |-> SafeToDelete(pendingPrunes[g][p])]
             at == IF del = NoDel THEN "sample" ELSE "hdel"
             fix == hygiene[g].fix
  <2>1. del \in [Pods -> SUBSET Gateways]
    BY <1>3 DEF SafeToDelete
  <2>2. hygiene[g].at = "idle" /\ fix = NoFix /\ hygiene[g].del = NoDel
    BY <1>5, <1>8 DEF HygieneStart
  <2> HIDE DEF del
  <2>3. at \in {"idle", "hdel", "sample", "correct"} /\ ((del # NoDel) <=> (at = "hdel")) /\ at # "correct"
    OBVIOUS
  <2>4. CASE /\ pendingPrunes' = [pendingPrunes EXCEPT ![g] = NoDel]
             /\ hygiene' = [hygiene EXCEPT ![g].at = at, ![g].del = del]
    <3> HIDE DEF at
    <3>1. hygiene' = [hygiene EXCEPT ![g] = [at |-> at, del |-> del, fix |-> fix]]
      <4>1. [hygiene[g] EXCEPT !.at = at] = [at |-> at, del |-> hygiene[g].del, fix |-> hygiene[g].fix]
        BY <1>3 DEF HygieneType
      <4>2. [[at |-> at, del |-> hygiene[g].del, fix |-> hygiene[g].fix] EXCEPT !.del = del]
              = [at |-> at, del |-> del, fix |-> hygiene[g].fix]
        OBVIOUS
      <4>3. [hygiene EXCEPT ![g].at = at, ![g].del = del]
              = [hygiene EXCEPT ![g] = [[hygiene[g] EXCEPT !.at = at] EXCEPT !.del = del]]
        BY <1>3
      <4>4. QED
        BY <4>1, <4>2, <4>3, <2>4, Zenon
    <3>2. drift' = drift /\ pendingPrunes' \in [Gateways -> [Pods -> SUBSET Gateways]]
      BY <1>2, <1>3, <1>8, <2>4 DEF HygieneStart
    <3>3. fix \in [Pods -> Int]
      BY <1>5
    <3> HIDE DEF fix
    <3>4. QED
      BY <1>3, <1>4, <2>1, <2>2, <2>3, <3>1, <3>2, <3>3
  <2>5. CASE hygiene' = [hygiene EXCEPT ![g].at = "sample"] /\ UNCHANGED pendingPrunes
    <3>1. hygiene' = [hygiene EXCEPT ![g] = [at |-> "sample", del |-> NoDel, fix |-> NoFix]]
      <4>1. [hygiene EXCEPT ![g].at = "sample"]
              = [hygiene EXCEPT ![g] = [at |-> "sample", del |-> hygiene[g].del, fix |-> hygiene[g].fix]]
        BY <1>3, UpdateAt
      <4>2. QED
        BY <4>1, <2>2, <2>5
    <3>2. drift' = drift
      BY <1>8 DEF HygieneStart
    <3>3. QED
      BY <1>2, <1>3, <1>4, <2>5, <3>1, <3>2
  <2>6. QED
    BY <1>8, <2>4, <2>5 DEF HygieneStart, del
<1>9. ASSUME NEW g \in Gateways, HygieneHdel(g) PROVE HygieneTypes'
  <2>1. hygiene[g].fix = NoFix
    BY <1>5, <1>9 DEF HygieneHdel
  <2>2. hygiene' = [hygiene EXCEPT ![g].at = "sample", ![g].del = NoDel] /\ UNCHANGED <<drift, pendingPrunes>>
    BY <1>9 DEF HygieneHdel
  <2>3. hygiene' = [hygiene EXCEPT ![g] = [at |-> "sample", del |-> NoDel, fix |-> NoFix]]
    <3>1. [hygiene[g] EXCEPT !.at = "sample"] = [at |-> "sample", del |-> hygiene[g].del, fix |-> hygiene[g].fix]
      BY <1>3 DEF HygieneType
    <3>2. [[at |-> "sample", del |-> hygiene[g].del, fix |-> hygiene[g].fix] EXCEPT !.del = NoDel]
            = [at |-> "sample", del |-> NoDel, fix |-> hygiene[g].fix]
      OBVIOUS
    <3>3. [hygiene EXCEPT ![g].at = "sample", ![g].del = NoDel]
            = [hygiene EXCEPT ![g] = [[hygiene[g] EXCEPT !.at = "sample"] EXCEPT !.del = NoDel]]
      BY <1>3
    <3>4. QED
      BY <3>1, <3>2, <3>3, <2>1, <2>2, Zenon
  <2>4. QED
    BY <1>2, <1>3, <1>4, <2>2, <2>3
<1>10. ASSUME NEW g \in Gateways, NEW seen \in SUBSET Pods, HygieneSample(g, seen) PROVE HygieneTypes'
  <2> DEFINE obs == [p \in seen |-> Observe(drift[g][p], Field(p, g), Local(p, g))]
             fix == [p \in Pods |-> IF p \in seen THEN obs[p].correction ELSE 0]
             new == [p \in Pods |-> IF p \in seen THEN obs[p].state ELSE drift[g][p]]
             at == IF fix = NoFix THEN "idle" ELSE "correct"
  <2>1. \A p \in Pods : drift[g][p] \in DriftStates /\ Field(p, g) \in Nat /\ Local(p, g) \in Nat
    BY <1>0, <1>3, FieldNat, LocalNat
  <2>2. \A p \in seen : obs[p].state \in DriftStates /\ obs[p].correction \in Int
    BY <2>1, ObserveType
  <2> HIDE DEF obs
  <2>3. fix \in [Pods -> Int] /\ new \in [Pods -> DriftStates]
    BY <2>1, <2>2
  <2>4. drift' = [drift EXCEPT ![g] = new]
    BY <1>3, <1>10 DEF HygieneSample, obs
  <2>5. hygiene' = [hygiene EXCEPT ![g].at = at, ![g].fix = fix] /\ hygiene[g].at = "sample"
        /\ pendingPrunes' = pendingPrunes
    BY <1>10 DEF HygieneSample, obs
  <2> HIDE DEF fix, new
  <2>6. hygiene[g].del = NoDel
    BY <1>5, <2>5
  <2>7. at \in {"idle", "hdel", "sample", "correct"} /\ ((fix # NoFix) <=> (at = "correct")) /\ at # "hdel"
    OBVIOUS
  <2> HIDE DEF at
  <2>8. hygiene' = [hygiene EXCEPT ![g] = [at |-> at, del |-> NoDel, fix |-> fix]]
    <3>1. [hygiene[g] EXCEPT !.at = at] = [at |-> at, del |-> hygiene[g].del, fix |-> hygiene[g].fix]
      BY <1>3 DEF HygieneType
    <3>2. [[at |-> at, del |-> hygiene[g].del, fix |-> hygiene[g].fix] EXCEPT !.fix = fix]
            = [at |-> at, del |-> hygiene[g].del, fix |-> fix]
      OBVIOUS
    <3>3. [hygiene EXCEPT ![g].at = at, ![g].fix = fix]
            = [hygiene EXCEPT ![g] = [[hygiene[g] EXCEPT !.at = at] EXCEPT !.fix = fix]]
      BY <1>3
    <3>4. QED
      BY <3>1, <3>2, <3>3, <2>5, <2>6, Zenon
  <2>9. drift' \in [Gateways -> [Pods -> DriftStates]]
    BY <1>3, <2>3, <2>4
  <2>10. QED
    BY <1>2, <1>3, <1>4, <2>3, <2>5, <2>7, <2>8, <2>9
<1>11. ASSUME NEW g \in Gateways, NEW p \in Pods, HygieneCorrect(g, p) PROVE HygieneTypes'
  <2> DEFINE fix == [hygiene[g].fix EXCEPT ![p] = 0]
             at == IF fix = NoFix THEN "idle" ELSE "correct"
  <2>1. fix \in [Pods -> Int]
    <3>1. hygiene[g].fix \in [Pods -> Int]
      BY <1>5
    <3>2. QED
      BY <3>1
  <2>2. hygiene' = [hygiene EXCEPT ![g].at = at, ![g].fix = fix] /\ hygiene[g].at = "correct"
        /\ UNCHANGED <<drift, pendingPrunes>>
    BY <1>11 DEF HygieneCorrect
  <2> HIDE DEF fix
  <2>3. hygiene[g].del = NoDel
    BY <1>5, <2>2
  <2>4. at \in {"idle", "hdel", "sample", "correct"} /\ ((fix # NoFix) <=> (at = "correct")) /\ at # "hdel"
    OBVIOUS
  <2> HIDE DEF at
  <2>5. hygiene' = [hygiene EXCEPT ![g] = [at |-> at, del |-> NoDel, fix |-> fix]]
    <3>1. [hygiene[g] EXCEPT !.at = at] = [at |-> at, del |-> hygiene[g].del, fix |-> hygiene[g].fix]
      BY <1>3 DEF HygieneType
    <3>2. [[at |-> at, del |-> hygiene[g].del, fix |-> hygiene[g].fix] EXCEPT !.fix = fix]
            = [at |-> at, del |-> hygiene[g].del, fix |-> fix]
      OBVIOUS
    <3>3. [hygiene EXCEPT ![g].at = at, ![g].fix = fix]
            = [hygiene EXCEPT ![g] = [[hygiene[g] EXCEPT !.at = at] EXCEPT !.fix = fix]]
      BY <1>3
    <3>4. QED
      BY <3>1, <3>2, <3>3, <2>2, <2>3, Zenon
  <2>6. QED
    BY <1>2, <1>3, <1>4, <2>1, <2>2, <2>4, <2>5
<1>12. QED
  BY <1>1, <1>6, <1>7, <1>8, <1>9, <1>10, <1>11 DEF Next, RequestStep, HygieneStep, GatewayStep, Start,
     Heartbeat, Stale, Gone, LateScript, Expire, AdmitOk, AdmitRejected, AdmitError,
     PlaceUncounted, QueueServe, RouteReturns, RouteGivesUp, Release, AddRequestCount,
     AddRequestCountNowhere, QueueEnforce, IncrPodRunningRequests, Complete, DecrPodRunningRequests

\* The type invariant is kept.
LEMMA TypeKept ==
  ASSUME IInv, Next
  PROVE  TypeOK'
<1>1. HashOK' /\ RequestTypes' /\ HygieneTypes' /\ ServerTypes' /\ CallTypes'
  BY HashType, RequestType, HygieneTypeKept, ServerType, CallType
<1>2. QED
  BY <1>1 DEF TypeOK, HashOK, RequestTypes, HygieneTypes, ServerTypes, CallTypes, HygieneType

-----------------------------------------------------------------------------
(* Requests.                                                               *)

\* A step of one request leaves the others and the gateways alone, and the
\* history of faults only grows.
LEMMA OtherRequests ==
  ASSUME RequestTypes, NEW r \in Requests, RequestStep(r)
  PROVE  /\ \A q \in Requests \ {r} : /\ pc'[q] = pc[q] /\ pod'[q] = pod[q] /\ incr'[q] = incr[q]
                                      /\ (q \in admitted' <=> q \in admitted)
         /\ touched \subseteq touched'
         /\ UNCHANGED serverVars /\ UNCHANGED hygieneVars
         /\ Up(r)
<1> USE DEF RequestTypes, Move, Fault, NoFault
<1>1. ASSUME NEW p \in Pods, AdmitOk(r, p) \/ AdmitRejected(r, p) \/ PlaceUncounted(r, p)
                             \/ QueueServe(r, p) \/ AdmitError(r, p)
      PROVE  /\ \A q \in Requests \ {r} : /\ pc'[q] = pc[q] /\ pod'[q] = pod[q] /\ incr'[q] = incr[q]
                                          /\ (q \in admitted' <=> q \in admitted)
             /\ touched \subseteq touched'
             /\ UNCHANGED serverVars /\ UNCHANGED hygieneVars
             /\ Up(r)
  BY <1>1 DEF AdmitOk, AdmitRejected, PlaceUncounted, QueueServe, AdmitError
<1>2. CASE RouteReturns(r) \/ RouteGivesUp(r) \/ Release(r) \/ AddRequestCount(r) \/ AddRequestCountNowhere(r)
  BY <1>2 DEF RouteReturns, RouteGivesUp, Release, AddRequestCount, AddRequestCountNowhere
<1>3. CASE QueueEnforce(r) \/ IncrPodRunningRequests(r) \/ Complete(r) \/ DecrPodRunningRequests(r)
  BY <1>3 DEF QueueEnforce, IncrPodRunningRequests, Complete, DecrPodRunningRequests
<1>4. QED
  BY <1>1, <1>2, <1>3 DEF RequestStep

\* A request that no step of its own moves stays in order, as long as its
\* gateway does not stop.
LEMMA ReqStutter ==
  ASSUME NEW r \in Requests, ReqOK(r), touched \subseteq touched',
         pc'[r] = pc[r], pod'[r] = pod[r], incr'[r] = incr[r], r \in admitted' <=> r \in admitted,
         proc'[GatewayOf[r]] = proc[GatewayOf[r]]
           \/ (proc[GatewayOf[r]] = "off" /\ proc'[GatewayOf[r]] = "up")
  PROVE  ReqOK(r)'
<1> USE DEF ReqOK, Untracked, Tracked, Over
<1>1. CASE proc'[GatewayOf[r]] = proc[GatewayOf[r]]
  BY <1>1
<1>2. CASE proc[GatewayOf[r]] = "off" /\ proc'[GatewayOf[r]] = "up"
  BY <1>2
<1>3. QED
  BY <1>1, <1>2

\* The requests stay in order.
LEMMA RequestInvKept ==
  ASSUME IInv, Next
  PROVE  RequestInv'
<1>0. RequestTypes /\ RequestInv /\ ServerTypes /\ TypeOK
  BY TypeGroups DEF IInv
<1>a. /\ \A r \in Requests : ReqOK(r) /\ GatewayOf[r] \in Gateways
      /\ Capped \subseteq Requests /\ Queued \subseteq Capped /\ Early \subseteq Capped /\ Early \cap Queued = {}
  BY <1>0, RunningRequestsAssumption DEF RequestInv
<1>1. ASSUME UNCHANGED requestVars, UNCHANGED proc, touched \subseteq touched' PROVE RequestInv'
  BY <1>a, <1>1, ReqStutter DEF requestVars, RequestInv
<1>2. ASSUME NEW g \in Gateways, Start(g) PROVE RequestInv'
  <2>1. \A r \in Requests : \/ proc'[GatewayOf[r]] = proc[GatewayOf[r]]
                            \/ (proc[GatewayOf[r]] = "off" /\ proc'[GatewayOf[r]] = "up")
    BY <1>0, <1>a, <1>2 DEF Start, ServerTypes
  <2>2. QED
    BY <1>a, <1>2, <2>1, ReqStutter DEF Start, requestVars, RequestInv
<1>3. ASSUME NEW g \in Gateways, Crash(g) PROVE RequestInv'
  <2> SUFFICES ASSUME NEW r \in Requests PROVE ReqOK(r)'
    BY DEF RequestInv
  <2>1. CASE GatewayOf[r] # g
    <3>1. pc'[r] = pc[r] /\ proc'[GatewayOf[r]] = proc[GatewayOf[r]]
      BY <1>0, <1>a, <1>3, <2>1 DEF Crash, ServerTypes
    <3>2. QED
      BY <1>a, <1>3, <3>1, ReqStutter DEF Crash, NoFault
  <2>2. CASE GatewayOf[r] = g
    <3>1. proc'[g] = "dead" /\ proc[g] = "up" /\ UNCHANGED <<pod, admitted, incr, touched>>
      BY <1>0, <1>3 DEF Crash, ServerTypes, NoFault
    <3>2. pc'[r] \in {"done", "lost"} /\ (pc'[r] = "done" => pc[r] = "done")
      BY <1>3, <2>2 DEF Crash
    <3>3. QED
      BY <1>a, <2>2, <3>1, <3>2 DEF ReqOK, Untracked, Tracked, Over
  <2>3. QED
    BY <2>1, <2>2
<1>4. ASSUME NEW r \in Requests, RequestStep(r) PROVE RequestInv'
  <2>0. /\ \A q \in Requests \ {r} : /\ pc'[q] = pc[q] /\ pod'[q] = pod[q] /\ incr'[q] = incr[q]
                                     /\ (q \in admitted' <=> q \in admitted)
        /\ touched \subseteq touched' /\ proc' = proc /\ proc[GatewayOf[r]] = "up"
    BY <1>0, <1>4, OtherRequests DEF serverVars, Up
  <2>a. \A q \in Requests \ {r} : ReqOK(q)'
    BY <1>a, <2>0, ReqStutter
  <2>b. ReqOK(r) /\ pc[r] \in Untracked \cup Tracked \cup Over
        /\ (r \in Queued => r \in Capped /\ r \notin Early) /\ (r \in Early => r \in Capped)
    BY <1>0, <1>a DEF RequestTypes
  <2> SUFFICES ReqOK(r)'
    BY <2>a DEF RequestInv
  <2> USE DEF ReqOK, Untracked, Tracked, Over, RequestTypes, Move
  <2>1. ASSUME NEW p \in Pods, AdmitOk(r, p) PROVE ReqOK(r)'
    BY <1>0, <2>0, <2>b, <2>1 DEF AdmitOk, AfterAdmit
  <2>2. ASSUME NEW p \in Pods, AdmitRejected(r, p) PROVE ReqOK(r)'
    BY <1>0, <2>0, <2>b, <2>2 DEF AdmitRejected
  <2>3. ASSUME NEW p \in Pods, PlaceUncounted(r, p) PROVE ReqOK(r)'
    BY <1>0, <2>0, <2>b, <2>3 DEF PlaceUncounted, AfterAdmit, Fault
  <2>4. ASSUME NEW p \in Pods, QueueServe(r, p) PROVE ReqOK(r)'
    BY <1>0, <2>0, <2>b, <2>4 DEF QueueServe
  <2>5. ASSUME NEW p \in Pods, AdmitError(r, p) PROVE ReqOK(r)'
    BY <1>0, <2>0, <2>b, <2>5 DEF AdmitError, AfterAdmit, Fault
  <2>6. CASE RouteReturns(r)
    BY <1>0, <2>0, <2>b, <2>6 DEF RouteReturns
  <2>7. CASE RouteGivesUp(r)
    BY <1>0, <2>0, <2>b, <2>7 DEF RouteGivesUp
  <2>8. CASE Release(r)
    BY <1>0, <2>0, <2>b, <2>8 DEF Release, AfterRelease
  <2>9. CASE AddRequestCount(r)
    BY <1>0, <2>0, <2>b, <2>9 DEF AddRequestCount
  <2>10. CASE AddRequestCountNowhere(r)
    BY <1>0, <2>0, <2>b, <2>10 DEF AddRequestCountNowhere
  <2>11. CASE QueueEnforce(r)
    BY <1>0, <2>0, <2>b, <2>11 DEF QueueEnforce
  <2>12. CASE IncrPodRunningRequests(r)
    BY <1>0, <2>0, <2>b, <2>12 DEF IncrPodRunningRequests
  <2>13. CASE Complete(r)
    BY <1>0, <2>0, <2>b, <2>13 DEF Complete
  <2>14. CASE DecrPodRunningRequests(r)
    BY <1>0, <2>0, <2>b, <2>14 DEF DecrPodRunningRequests
  <2>15. QED
    BY <1>4, <2>1, <2>2, <2>3, <2>4, <2>5, <2>6, <2>7, <2>8, <2>9, <2>10, <2>11, <2>12, <2>13, <2>14
       DEF RequestStep
<1>5. ASSUME NEW g \in Gateways, HygieneStep(g) \/ GatewayStep(g) PROVE RequestInv'
  BY <1>1, <1>2, <1>3, <1>5 DEF HygieneStep, GatewayStep, HygieneStart, HygieneHdel, HygieneSample,
     HygieneCorrect, Heartbeat, Stale, Gone, Read, serverVars, NoFault, Fault
<1>6. QED
  BY <1>1, <1>4, <1>5 DEF Next, LateScript, Expire, serverVars, NoFault

-----------------------------------------------------------------------------
(* Gateways.                                                               *)

\* A gateway starts once and dies once, and its history is kept.
LEMMA ProcSteps ==
  ASSUME ServerTypes, Next
  PROVE  /\ \A g \in Gateways : /\ proc[g] # "off" => proc'[g] # "off"
                                /\ proc[g] = "dead" => proc'[g] = "dead"
                                /\ proc'[g] = "up" => proc[g] = "up" \/ Start(g)
         /\ missed \subseteq missed' /\ unannounced \subseteq unannounced'
<1>1. CASE UNCHANGED serverVars
  BY <1>1 DEF serverVars
<1>2. ASSUME NEW g \in Gateways, Start(g) \/ Heartbeat(g) \/ Stale(g) \/ Gone(g) \/ Crash(g)
      PROVE  /\ \A x \in Gateways : /\ proc[x] # "off" => proc'[x] # "off"
                                    /\ proc[x] = "dead" => proc'[x] = "dead"
                                    /\ proc'[x] = "up" => proc[x] = "up" \/ Start(x)
             /\ missed \subseteq missed' /\ unannounced \subseteq unannounced'
  <2>1. CASE Start(g)
    <3>1. /\ proc' = [proc EXCEPT ![g] = "up"] /\ proc[g] = "off"
          /\ missed \subseteq missed' /\ unannounced \subseteq unannounced'
      BY <2>1 DEF Start
    <3>2. QED
      BY <2>1, <3>1 DEF ServerTypes
  <2>2. CASE Heartbeat(g) \/ Stale(g) \/ Gone(g)
    <3>1. proc' = proc /\ missed \subseteq missed' /\ unannounced' = unannounced
      BY <2>2 DEF Heartbeat, Stale, Gone
    <3>2. QED
      BY <3>1
  <2>3. CASE Crash(g)
    <3>1. /\ proc' = [proc EXCEPT ![g] = "dead"] /\ proc[g] = "up"
          /\ missed' = missed /\ unannounced' = unannounced
      BY <2>3 DEF Crash
    <3>2. QED
      BY <3>1 DEF ServerTypes
  <2>4. QED
    BY <1>2, <2>1, <2>2, <2>3
<1>3. QED
  BY <1>1, <1>2 DEF Next, RequestStep, HygieneStep, GatewayStep, HygieneStart, HygieneHdel,
     HygieneSample, HygieneCorrect, Read, LateScript, Expire, AdmitOk, AdmitRejected, AdmitError,
     PlaceUncounted, QueueServe, RouteReturns, RouteGivesUp, Release, AddRequestCount,
     AddRequestCountNowhere, QueueEnforce, IncrPodRunningRequests, Complete, DecrPodRunningRequests

BeatInv ==
  \A g \in Gateways : proc[g] = "up" =>
    /\ g \notin unannounced => beat[g] # "gone"
    /\ g \notin missed => beat[g] = "fresh"

HashInv == \A p \in Pods : \A x \in DOMAIN hash[p] : proc[x] # "off"

PruneInv ==
  \A g \in Gateways, p \in Pods :
    /\ \A x \in pendingPrunes[g][p] : proc[x] # "off"
    /\ \A x \in hygiene[g].del[p] : proc[x] = "dead" \/ x \in unannounced

LateInv == \A x \in late : proc[GatewayOf[x.req]] # "off"

\* A running gateway is seen alive unless it has missed its ticks.
LEMMA BeatInvKept ==
  ASSUME IInv, Next
  PROVE  BeatInv'
<1>0. ServerTypes /\ BeatInv
  BY TypeGroups DEF IInv, GatewayInv, BeatInv
<1>1. CASE UNCHANGED serverVars
  BY <1>0, <1>1 DEF serverVars, BeatInv
<1>2. ASSUME NEW g \in Gateways, Start(g) PROVE BeatInv'
  BY <1>0, <1>2 DEF Start, BeatInv, ServerTypes
<1>3. ASSUME NEW g \in Gateways, Heartbeat(g) PROVE BeatInv'
  BY <1>0, <1>3 DEF Heartbeat, BeatInv, ServerTypes
<1>4. ASSUME NEW g \in Gateways, Stale(g) PROVE BeatInv'
  BY <1>0, <1>4 DEF Stale, BeatInv, ServerTypes
<1>5. ASSUME NEW g \in Gateways, Gone(g) PROVE BeatInv'
  BY <1>0, <1>5 DEF Gone, BeatInv, ServerTypes
<1>6. ASSUME NEW g \in Gateways, Crash(g) PROVE BeatInv'
  BY <1>0, <1>6 DEF Crash, BeatInv, ServerTypes
<1>7. QED
  BY <1>1, <1>2, <1>3, <1>4, <1>5, <1>6 DEF Next, RequestStep, HygieneStep, GatewayStep, HygieneStart,
     HygieneHdel, HygieneSample, HygieneCorrect, Read, LateScript, Expire, AdmitOk, AdmitRejected, AdmitError,
     PlaceUncounted, QueueServe, RouteReturns, RouteGivesUp, Release, AddRequestCount,
     AddRequestCountNowhere, QueueEnforce, IncrPodRunningRequests, Complete, DecrPodRunningRequests

\* Only gateways that have started have fields.
LEMMA HashInvKept ==
  ASSUME IInv, Next
  PROVE  HashInv'
<1>0. HashOK /\ HashInv /\ \A g \in Gateways : proc[g] # "off" => proc'[g] # "off"
  BY TypeGroups, ProcSteps DEF IInv, GatewayInv, HashInv
<1>1. ASSUME \A p \in Pods : DOMAIN hash'[p] \subseteq DOMAIN hash[p] PROVE HashInv'
  BY <1>0, <1>1 DEF HashInv, HashOK
<1>2. CASE UNCHANGED hash
  BY <1>1, <1>2
<1>3. ASSUME NEW p \in Pods, NEW g \in Gateways, NEW d \in Int, proc[g] # "off", Write(p, g, d)
      PROVE  HashInv'
  <2>1. \A q \in Pods : DOMAIN hash'[q] \subseteq DOMAIN hash[q] \cup {g}
    BY <1>0, <1>3, WriteFacts
  <2>2. QED
    BY <1>0, <1>3, <2>1 DEF HashInv, HashOK
<1>4. ASSUME NEW p \in Pods, Expire(p) PROVE HashInv'
  BY <1>0, <1>1, <1>4 DEF Expire, NoHash, HashOK
<1>5. ASSUME NEW g \in Gateways, HygieneHdel(g) PROVE HashInv'
  <2> DEFINE pruned == [p \in Pods |-> [x \in DOMAIN hash[p] \ hygiene[g].del[p] |-> hash[p][x]]]
  <2>1. hash' = hash \/ hash' = pruned
    BY <1>5 DEF HygieneHdel
  <2>2. CASE hash' = pruned
    BY <1>1, <2>2
  <2>3. QED
    BY <1>2, <2>1, <2>2
<1>6. QED
  BY <1>2, <1>3, <1>4, <1>5, HashCases

\* What a hygiene pass is about to delete belongs to gateways that are dead, or
\* whose first heartbeat failed.
LEMMA PruneInvKept ==
  ASSUME IInv, Next
  PROVE  PruneInv'
<1>0. HashOK /\ HygieneTypes /\ ServerTypes /\ HashInv /\ BeatInv /\ PruneInv
  BY TypeGroups DEF IInv, GatewayInv, HashInv, BeatInv, PruneInv
<1>a. /\ \A g \in Gateways : /\ proc[g] # "off" => proc'[g] # "off"
                             /\ proc[g] = "dead" => proc'[g] = "dead"
      /\ unannounced \subseteq unannounced'
  BY <1>0, ProcSteps
<1>b. /\ \A g \in Gateways, p \in Pods : pendingPrunes[g][p] \subseteq Gateways
      /\ \A g \in Gateways, p \in Pods : hygiene[g].del[p] \subseteq Gateways
  BY <1>0 DEF HygieneTypes, HygieneType
<1>1. ASSUME NEW g \in Gateways,
             \A x \in Gateways \ {g} : pendingPrunes'[x] = pendingPrunes[x] /\ hygiene'[x].del = hygiene[x].del,
             \A p \in Pods : \/ pendingPrunes'[g][p] \subseteq pendingPrunes[g][p]
                             \/ pendingPrunes'[g][p] \subseteq DOMAIN hash[p],
             \A p \in Pods : \/ hygiene'[g].del[p] \subseteq hygiene[g].del[p]
                             \/ hygiene'[g].del[p] \subseteq SafeToDelete(pendingPrunes[g][p])
      PROVE  PruneInv'
  <2> SUFFICES ASSUME NEW h \in Gateways, NEW p \in Pods
               PROVE  /\ \A x \in pendingPrunes'[h][p] : proc'[x] # "off"
                      /\ \A x \in hygiene'[h].del[p] : proc'[x] = "dead" \/ x \in unannounced'
    BY DEF PruneInv
  <2>1. \A x \in pendingPrunes[h][p] : proc'[x] # "off"
    BY <1>0, <1>a, <1>b DEF PruneInv
  <2>2. \A x \in hygiene[h].del[p] : proc'[x] = "dead" \/ x \in unannounced'
    BY <1>0, <1>a, <1>b DEF PruneInv
  <2>3. \A x \in DOMAIN hash[p] : proc'[x] # "off"
    BY <1>0, <1>a DEF HashInv, HashOK
  <2>4. ASSUME NEW x \in SafeToDelete(pendingPrunes[h][p]) PROVE proc'[x] = "dead" \/ x \in unannounced'
    <3>1. x \in Gateways /\ proc[x] # "off" /\ beat[x] = "gone"
      BY <1>0, <1>b, <2>4 DEF SafeToDelete, PruneInv
    <3>2. proc[x] = "dead" \/ x \in unannounced
      BY <1>0, <3>1 DEF BeatInv, ServerTypes
    <3>3. QED
      BY <1>a, <3>1, <3>2
  <2>5. QED
    BY <1>1, <2>1, <2>2, <2>3, <2>4
<1>2. CASE UNCHANGED <<hygiene, pendingPrunes>>
  BY <1>0, <1>a, <1>b, <1>2 DEF PruneInv
<1>3. /\ hygiene \in [Gateways -> HygieneType] /\ pendingPrunes \in [Gateways -> [Pods -> SUBSET Gateways]]
  BY <1>0 DEF HygieneTypes
<1>4. ASSUME NEW g \in Gateways, NEW p \in Pods, Read(g, p) PROVE PruneInv'
  <2>1. hygiene' = hygiene /\ pendingPrunes' = [pendingPrunes EXCEPT ![g][p] = Excluded(p, g)]
    BY <1>4 DEF Read
  <2>2. Excluded(p, g) \subseteq DOMAIN hash[p]
    BY DEF Excluded
  <2>3. /\ \A x \in Gateways \ {g} : pendingPrunes'[x] = pendingPrunes[x]
        /\ pendingPrunes'[g][p] = Excluded(p, g) /\ \A q \in Pods \ {p} : pendingPrunes'[g][q] = pendingPrunes[g][q]
    BY <1>3, <2>1
  <2>4. QED
    BY <1>1, <2>1, <2>2, <2>3
<1>5. ASSUME NEW g \in Gateways, HygieneStart(g) PROVE PruneInv'
  <2> DEFINE del == [p \in Pods |-> SafeToDelete(pendingPrunes[g][p])]
  <2>1. \A p \in Pods : del[p] \subseteq SafeToDelete(pendingPrunes[g][p]) /\ NoDel[p] = {}
    BY DEF NoDel
  <2>2. \/ /\ pendingPrunes' = [pendingPrunes EXCEPT ![g] = NoDel]
           /\ hygiene' = [hygiene EXCEPT ![g].at = IF del = NoDel THEN "sample" ELSE "hdel", ![g].del = del]
        \/ /\ pendingPrunes' = pendingPrunes
           /\ hygiene' = [hygiene EXCEPT ![g].at = "sample"]
    BY <1>5 DEF HygieneStart
  <2> HIDE DEF del
  <2>3. /\ \A x \in Gateways \ {g} : pendingPrunes'[x] = pendingPrunes[x] /\ hygiene'[x].del = hygiene[x].del
        /\ pendingPrunes'[g] = NoDel \/ pendingPrunes'[g] = pendingPrunes[g]
    BY <1>3, <2>2
  <2>4. hygiene'[g].del = del \/ hygiene'[g].del = hygiene[g].del
    BY <1>3, <2>2 DEF HygieneType
  <2>5. QED
    BY <1>1, <2>1, <2>3, <2>4
<1>6. ASSUME NEW g \in Gateways, HygieneHdel(g) PROVE PruneInv'
  <2>1. hygiene' = [hygiene EXCEPT ![g].at = "sample", ![g].del = NoDel] /\ pendingPrunes' = pendingPrunes
    BY <1>6 DEF HygieneHdel
  <2>2. hygiene'[g].del = NoDel /\ \A x \in Gateways \ {g} : hygiene'[x].del = hygiene[x].del
    BY <1>3, <2>1 DEF HygieneType
  <2>3. \A p \in Pods : NoDel[p] = {}
    BY DEF NoDel
  <2>4. QED
    BY <1>1, <2>1, <2>2, <2>3
<1>7. ASSUME NEW g \in Gateways, Crash(g) PROVE PruneInv'
  <2>1. hygiene' = [hygiene EXCEPT ![g] = Resting] /\ pendingPrunes' = [pendingPrunes EXCEPT ![g] = NoDel]
    BY <1>7 DEF Crash
  <2>2. /\ hygiene'[g].del = NoDel /\ \A x \in Gateways \ {g} : hygiene'[x].del = hygiene[x].del
        /\ pendingPrunes'[g] = NoDel /\ \A x \in Gateways \ {g} : pendingPrunes'[x] = pendingPrunes[x]
    BY <1>3, <2>1 DEF Resting
  <2>3. \A p \in Pods : NoDel[p] = {}
    BY DEF NoDel
  <2>4. QED
    BY <1>1, <2>2, <2>3
<1>8. ASSUME NEW g \in Gateways, NEW h, NEW at, hygiene' = [hygiene EXCEPT ![g].at = at, ![g].fix = h],
             pendingPrunes' = pendingPrunes
      PROVE  PruneInv'
  <2>1. \A x \in Gateways : hygiene'[x].del = hygiene[x].del
    BY <1>3, <1>8 DEF HygieneType
  <2>2. QED
    BY <1>0, <1>a, <1>b, <1>8, <2>1 DEF PruneInv
<1>9. ASSUME NEW g \in Gateways, (\E seen \in SUBSET Pods : HygieneSample(g, seen))
                                  \/ (\E p \in Pods : HygieneCorrect(g, p))
      PROVE  PruneInv'
  <2>1. pendingPrunes' = pendingPrunes /\ \E h, at : hygiene' = [hygiene EXCEPT ![g].at = at, ![g].fix = h]
    BY <1>9 DEF HygieneSample, HygieneCorrect
  <2>2. QED
    BY <1>8, <2>1
<1>10. QED
  BY <1>2, <1>4, <1>5, <1>6, <1>7, <1>9 DEF Next, RequestStep, HygieneStep, GatewayStep, Start,
     Heartbeat, Stale, Gone, LateScript, Expire, AdmitOk, AdmitRejected, AdmitError, hygieneVars,
     PlaceUncounted, QueueServe, RouteReturns, RouteGivesUp, Release, AddRequestCount,
     AddRequestCountNowhere, QueueEnforce, IncrPodRunningRequests, Complete, DecrPodRunningRequests

\* A script that still has to run is one of a gateway that has started.
LEMMA LateInvKept ==
  ASSUME IInv, Next
  PROVE  LateInv'
<1>0. /\ LateInv /\ ServerTypes /\ RequestTypes /\ \A x \in late : GatewayOf[x.req] \in Gateways
      /\ \A r \in Requests : GatewayOf[r] \in Gateways
  BY TypeGroups, RunningRequestsAssumption DEF IInv, GatewayInv, LateInv, CallTypes, Scripts
<1>a. \A g \in Gateways : proc[g] # "off" => proc'[g] # "off"
  BY <1>0, ProcSteps
<1>1. ASSUME late' \subseteq late PROVE LateInv'
  BY <1>0, <1>a, <1>1 DEF LateInv
<1>2. ASSUME NEW r \in Requests, RequestStep(r) PROVE LateInv'
  <2>1. proc[GatewayOf[r]] # "off"
    BY <1>0, <1>2, OtherRequests DEF Up
  <2>2. ASSUME NEW kind, NEW d, FailedWrite(r, kind, d)
        PROVE  \A x \in late' : x \in late \/ x.req = r
    BY <2>2 DEF FailedWrite
  <2>3. \A x \in late' : x \in late \/ x.req = r
    BY <1>2, <2>2 DEF RequestStep, AdmitOk, AdmitRejected, AdmitError, PlaceUncounted, QueueServe,
       RouteReturns, RouteGivesUp, Release, AddRequestCount, AddRequestCountNowhere, QueueEnforce,
       IncrPodRunningRequests, Complete, DecrPodRunningRequests
  <2>4. QED
    BY <1>0, <1>a, <2>1, <2>3 DEF LateInv
<1>3. QED
  BY <1>1, <1>2 DEF Next, LateScript, Expire, HygieneStep, GatewayStep, HygieneStart, HygieneHdel,
     HygieneSample, HygieneCorrect, Start, Heartbeat, Stale, Gone, Crash, Read

\* What the liveness set, the hashes and the hygiene passes say of the gateways
\* stays true.
LEMMA GatewayInvKept ==
  ASSUME IInv, Next
  PROVE  GatewayInv'
BY BeatInvKept, HashInvKept, PruneInvKept, LateInvKept DEF GatewayInv, BeatInv, HashInv, PruneInv, LateInv

-----------------------------------------------------------------------------
(* Fields and the slots they count.                                        *)

\* Sets of requests are finite.
LEMMA RequestSets ==
  ASSUME NEW S \in SUBSET Requests
  PROVE  IsFiniteSet(S) /\ Cardinality(S) \in Nat
BY FS_Subset, FS_CardinalityType, RunningRequestsAssumption

\* The slots of a pod are sets of requests.
LEMMA SlotSets ==
  ASSUME NEW p, NEW g
  PROVE  /\ Held(p, g) \subseteq Requests /\ Doubled(p, g) \subseteq Requests
         /\ Cardinality(Held(p, g)) \in Nat /\ Cardinality(Doubled(p, g)) \in Nat
<1>1. Held(p, g) \in SUBSET Requests /\ Doubled(p, g) \in SUBSET Requests
  BY RunningRequestsAssumption DEF Held, Doubled
<1>2. QED
  BY <1>1, RequestSets

\* Whether a request is held, or doubled, looks at that request alone.
HeldBy(r, p, g) ==
  /\ GatewayOf[r] = g /\ pod[r] = p
  /\ \/ r \in admitted /\ pc[r] \in {"routing", "placed", "releasing", "moving"}
     \/ incr[r] = "ok" /\ pc[r] \in {"running", "finishing", "enforcing"}

DoubledBy(r, p, g) ==
  /\ r \in Queued \cap admitted
  /\ GatewayOf[r] = g /\ pod[r] = p /\ pc[r] \in {"running", "finishing"}

Only(r) ==
  \A q \in Requests \ {r} : /\ pc'[q] = pc[q] /\ pod'[q] = pod[q] /\ incr'[q] = incr[q]
                            /\ (q \in admitted' <=> q \in admitted)

\* A step of one request moves the count of slots by that request's share.
LEMMA SlotChange ==
  ASSUME NEW r \in Requests, Only(r), NEW p, NEW g
  PROVE  /\ Cardinality(Held(p, g))' = Cardinality(Held(p, g)) - (IF HeldBy(r, p, g) THEN 1 ELSE 0)
                                                              + (IF HeldBy(r, p, g)' THEN 1 ELSE 0)
         /\ Cardinality(Doubled(p, g))' = Cardinality(Doubled(p, g)) - (IF DoubledBy(r, p, g) THEN 1 ELSE 0)
                                                                    + (IF DoubledBy(r, p, g)' THEN 1 ELSE 0)
<1> DEFINE H0 == Held(p, g)
           H1 == Held(p, g)'
           D0 == Doubled(p, g)
           D1 == Doubled(p, g)'
<1>1. /\ H0 \in SUBSET Requests /\ H1 \in SUBSET Requests /\ D0 \in SUBSET Requests /\ D1 \in SUBSET Requests
  BY RunningRequestsAssumption DEF Held, Doubled
<1>2. /\ (r \in H0 <=> HeldBy(r, p, g)) /\ (r \in H1 <=> HeldBy(r, p, g)')
      /\ (r \in D0 <=> DoubledBy(r, p, g)) /\ (r \in D1 <=> DoubledBy(r, p, g)')
  BY DEF Held, Doubled, HeldBy, DoubledBy
<1>3. \A q : q # r => ((q \in H0 <=> q \in H1) /\ (q \in D0 <=> q \in D1))
  BY RunningRequestsAssumption DEF Held, Doubled, Only
<1>4. Cardinality(Held(p, g))' = Cardinality(H1) /\ Cardinality(Doubled(p, g))' = Cardinality(D1)
  OBVIOUS
<1> HIDE DEF H0, H1, D0, D1
<1>5. IsFiniteSet(H0) /\ IsFiniteSet(H1) /\ IsFiniteSet(D0) /\ IsFiniteSet(D1)
  BY <1>1, RequestSets
<1>6. Cardinality(H1) = Cardinality(H0) - (IF r \in H0 THEN 1 ELSE 0) + (IF r \in H1 THEN 1 ELSE 0)
  BY <1>3, <1>5, CardinalityChange
<1>7. Cardinality(D1) = Cardinality(D0) - (IF r \in D0 THEN 1 ELSE 0) + (IF r \in D1 THEN 1 ELSE 0)
  BY <1>3, <1>5, CardinalityChange
<1>8. QED
  BY <1>2, <1>4, <1>6, <1>7 DEF H0, H1, D0, D1

\* The field stays right if it moves with the request's share of the slots.
LEMMA MatchStep ==
  ASSUME NEW r \in Requests, Only(r), NEW p \in Pods, NEW g \in Gateways, HashOK, HashOK', Match(p, g),
         NEW h0 \in {0, 1}, NEW h1 \in {0, 1}, NEW d0 \in {0, 1}, NEW d1 \in {0, 1},
         h0 = 1 <=> HeldBy(r, p, g), h1 = 1 <=> HeldBy(r, p, g)',
         d0 = 1 <=> DoubledBy(r, p, g), d1 = 1 <=> DoubledBy(r, p, g)',
         Field(p, g)' - Field(p, g) >= (h1 - h0) + (d1 - d0),
         Field(p, g)' - Field(p, g) = h1 - h0 \/ (r \in Queued /\ GatewayOf[r] = g)
  PROVE  Match(p, g)'
<1>1. Field(p, g) \in Nat /\ Field(p, g)' \in Nat
  BY FieldNat DEF HashOK, Field, FieldOf
<1>2. Cardinality(Held(p, g)) \in Nat /\ Cardinality(Doubled(p, g)) \in Nat
  BY SlotSets
<1>3. /\ Cardinality(Held(p, g))' = Cardinality(Held(p, g)) - h0 + h1
      /\ Cardinality(Doubled(p, g))' = Cardinality(Doubled(p, g)) - d0 + d1
  BY SlotChange
<1>4. Field(p, g)' >= Cardinality(Held(p, g))' + Cardinality(Doubled(p, g))'
  BY <1>1, <1>2, <1>3 DEF Match
<1>5. (\A q \in Queued : GatewayOf[q] # g) => Field(p, g)' = Cardinality(Held(p, g))'
  BY <1>1, <1>2, <1>3 DEF Match
<1>6. QED
  BY <1>4, <1>5 DEF Match

\* The field stays right if neither it nor the request's share moves.
LEMMA MatchIdle ==
  ASSUME NEW r \in Requests, Only(r), NEW p \in Pods, NEW g \in Gateways, HashOK, HashOK', Match(p, g),
         Field(p, g)' = Field(p, g), HeldBy(r, p, g)' <=> HeldBy(r, p, g),
         DoubledBy(r, p, g)' <=> DoubledBy(r, p, g)
  PROVE  Match(p, g)'
<1> DEFINE h == IF HeldBy(r, p, g) THEN 1 ELSE 0
           d == IF DoubledBy(r, p, g) THEN 1 ELSE 0
<1>1. h \in {0, 1} /\ d \in {0, 1} /\ (h = 1 <=> HeldBy(r, p, g)) /\ (d = 1 <=> DoubledBy(r, p, g))
  OBVIOUS
<1>2. (h = 1 <=> HeldBy(r, p, g)') /\ (d = 1 <=> DoubledBy(r, p, g)')
  BY <1>1
<1>3. Field(p, g) \in Nat
  BY FieldNat
<1> HIDE DEF h, d
<1>4. Field(p, g)' - Field(p, g) >= (h - h) + (d - d) /\ Field(p, g)' - Field(p, g) = h - h
  BY <1>1, <1>3
<1>5. QED
  BY <1>1, <1>2, <1>4, MatchStep

\* A field with slots held there is not zero.
LEMMA HeldField ==
  ASSUME HashOK, NEW r \in Requests, NEW p \in Pods, NEW g \in Gateways, Match(p, g), HeldBy(r, p, g)
  PROVE  Field(p, g) > 0
<1>1. r \in Held(p, g) /\ Held(p, g) \in SUBSET Requests
  BY SlotSets DEF Held, HeldBy
<1>2. Cardinality(Held(p, g)) > 0
  <2>1. IsFiniteSet(Held(p, g)) /\ Cardinality(Held(p, g)) \in Nat
    BY <1>1, RequestSets
  <2>2. Cardinality(Held(p, g)) # 0
    BY <1>1, <2>1, FS_EmptySet
  <2>3. QED
    BY <2>1, <2>2
<1>3. QED
  BY <1>2, FieldNat, SlotSets DEF Match

\* A step of a request keeps the field of its gateway right.
LEMMA RequestFields ==
  ASSUME IInv, NEW r \in Requests, RequestStep(r), HashOK', NEW p \in Pods, NEW g \in Gateways,
         proc[g] = "up", <<p, g>> \notin touched', g \notin unannounced
  PROVE  Match(p, g)'
<1>0. /\ HashOK /\ RequestTypes /\ TypeOK /\ RequestInv /\ ReqOK(r) /\ GatewayOf[r] \in Gateways
      /\ pc[r] \in Untracked \cup Tracked \cup Over
  BY TypeGroups, RunningRequestsAssumption DEF IInv, RequestInv, RequestTypes
<1>1. Only(r) /\ touched \subseteq touched' /\ Up(r)
  BY <1>0, OtherRequests DEF Only
<1>2. Match(p, g)
  BY <1>1 DEF IInv, FieldInv
<1>3. ASSUME GatewayOf[r] # g \/ (pod[r] # p /\ pod'[r] # p) PROVE ~HeldBy(r, p, g) /\ ~HeldBy(r, p, g)'
                                                      /\ ~DoubledBy(r, p, g) /\ ~DoubledBy(r, p, g)'
  BY <1>3 DEF HeldBy, DoubledBy
<1>4. ASSUME UNCHANGED hash PROVE Field(p, g)' = Field(p, g)
  BY <1>4 DEF Field, FieldOf
<1>5. ASSUME NEW q \in Pods, NEW d \in Int, Write(q, GatewayOf[r], d), GatewayOf[r] # g \/ q # p
      PROVE  Field(p, g)' = Field(p, g)
  BY <1>0, <1>5, WriteFacts
<1>6. ASSUME NEW q \in Pods, NEW l, AdmitScript(q, GatewayOf[r], l), GatewayOf[r] # g \/ q # p
      PROVE  Field(p, g)' = Field(p, g)
  <2>1. UNCHANGED hash \/ Write(q, GatewayOf[r], 1)
    BY <1>6 DEF AdmitScript, Write
  <2>2. QED
    BY <1>4, <1>5, <1>6, <2>1
<1>7. ASSUME NEW kind, NEW d \in Int, pod[r] \in Pods, FailedWrite(r, kind, d), GatewayOf[r] # g \/ pod[r] # p
      PROVE  Field(p, g)' = Field(p, g)
  BY <1>4, <1>5, <1>7 DEF FailedWrite
<1>8. ASSUME Field(p, g)' = Field(p, g), HeldBy(r, p, g)' <=> HeldBy(r, p, g),
             DoubledBy(r, p, g)' <=> DoubledBy(r, p, g)
      PROVE  Match(p, g)'
  BY <1>0, <1>1, <1>2, <1>8, MatchIdle
<1>9. ASSUME NEW q \in Pods, Write(q, GatewayOf[r], 1), ~HeldBy(r, p, g), DoubledBy(r, p, g)' <=> DoubledBy(r, p, g),
             HeldBy(r, p, g)' <=> (p = q /\ g = GatewayOf[r])
      PROVE  Match(p, g)'
  <2>1. CASE p = q /\ g = GatewayOf[r]
    <3>1. Field(p, g)' = Field(p, g) + 1 /\ Field(p, g) \in Nat
      BY <1>0, <1>9, <2>1, WriteOne, FieldNat
    <3> DEFINE d == IF DoubledBy(r, p, g) THEN 1 ELSE 0
    <3>2. d \in {0, 1} /\ (d = 1 <=> DoubledBy(r, p, g)) /\ (d = 1 <=> DoubledBy(r, p, g)')
      BY <1>9
    <3> HIDE DEF d
    <3>3. Field(p, g)' - Field(p, g) >= (1 - 0) + (d - d) /\ Field(p, g)' - Field(p, g) = 1 - 0
      BY <3>1, <3>2
    <3>4. (0 = 1 <=> HeldBy(r, p, g)) /\ (1 = 1 <=> HeldBy(r, p, g)') /\ 0 \in {0, 1} /\ 1 \in {0, 1}
      BY <1>9, <2>1
    <3>5. QED
      BY <1>0, <1>1, <1>2, <3>2, <3>3, <3>4, MatchStep
  <2>2. CASE ~(p = q /\ g = GatewayOf[r])
    BY <1>5, <1>8, <1>9, <2>2
  <2>3. QED
    BY <2>1, <2>2
<1>10. ASSUME pod[r] \in Pods, Write(pod[r], GatewayOf[r], -1), ~HeldBy(r, p, g)', ~DoubledBy(r, p, g)',
              HeldBy(r, p, g) <=> (p = pod[r] /\ g = GatewayOf[r]), DoubledBy(r, p, g) => r \in Queued
       PROVE  Match(p, g)'
  <2>1. CASE p = pod[r] /\ g = GatewayOf[r]
    <3>1. Field(p, g)' = Field(p, g) - 1 /\ Field(p, g) \in Nat
      BY <1>0, <1>2, <1>10, <2>1, WriteBack, FieldNat, HeldField
    <3> DEFINE d == IF DoubledBy(r, p, g) THEN 1 ELSE 0
    <3>2. d \in {0, 1} /\ (d = 1 <=> DoubledBy(r, p, g)) /\ (0 = 1 <=> DoubledBy(r, p, g)')
      BY <1>10
    <3> HIDE DEF d
    <3>3. Field(p, g)' - Field(p, g) >= (0 - 1) + (0 - d) /\ Field(p, g)' - Field(p, g) = 0 - 1
      BY <3>1, <3>2
    <3>4. (1 = 1 <=> HeldBy(r, p, g)) /\ (0 = 1 <=> HeldBy(r, p, g)') /\ 0 \in {0, 1} /\ 1 \in {0, 1}
      BY <1>10, <2>1
    <3>5. QED
      BY <1>0, <1>1, <1>2, <3>2, <3>3, <3>4, MatchStep
  <2>2. CASE ~(p = pod[r] /\ g = GatewayOf[r])
    <3>1. ~HeldBy(r, p, g) /\ ~DoubledBy(r, p, g)
      BY <1>10, <2>2 DEF DoubledBy
    <3>2. QED
      BY <1>5, <1>8, <1>10, <2>2, <3>1
  <2>3. QED
    BY <2>1, <2>2
<1>11. ASSUME NEW q \in Pods, NEW x \in Gateways, Fault(q, x) PROVE q # p \/ x # g
  BY <1>11 DEF Fault
<1> USE DEF Move, RequestTypes, ReqOK, Untracked, Tracked, Over
<1>12. ASSUME NEW q \in Pods, AdmitOk(r, q) PROVE Match(p, g)'
  <2>1. Write(q, GatewayOf[r], 1)
    BY <1>12 DEF AdmitOk, AdmitScript, Write
  <2>2. pod'[r] = q /\ r \in admitted' /\ pc[r] = "new" /\ pc'[r] \in {"routing", "placed"} /\ r \notin Queued
    BY <1>0, <1>12 DEF AdmitOk, AfterAdmit
  <2>3. ~HeldBy(r, p, g) /\ ~DoubledBy(r, p, g) /\ ~DoubledBy(r, p, g)'
        /\ (HeldBy(r, p, g)' <=> (p = q /\ g = GatewayOf[r]))
    BY <2>2 DEF HeldBy, DoubledBy
  <2>4. QED
    BY <1>9, <2>1, <2>3
<1>13. ASSUME NEW q \in Pods, AdmitRejected(r, q) \/ PlaceUncounted(r, q) \/ QueueServe(r, q) PROVE Match(p, g)'
  <2>1. UNCHANGED <<hash, admitted>> /\ pc[r] = "new" /\ pc'[r] \in {"done", "placed", "routing", "enforcing"}
    BY <1>0, <1>13 DEF AdmitRejected, PlaceUncounted, QueueServe, AfterAdmit
  <2>2. r \notin admitted /\ (incr'[r] = incr[r] \/ incr'[r] = "pending")
    BY <1>0, <1>13, <2>1 DEF AdmitRejected, PlaceUncounted, QueueServe
  <2>3. ~HeldBy(r, p, g) /\ ~DoubledBy(r, p, g) /\ ~DoubledBy(r, p, g)' /\ ~HeldBy(r, p, g)'
    BY <1>0, <2>1, <2>2 DEF HeldBy, DoubledBy
  <2>4. QED
    BY <1>4, <1>8, <2>1, <2>3
<1>14. ASSUME NEW q \in Pods, AdmitError(r, q) PROVE Match(p, g)'
  <2>1. GatewayOf[r] # g \/ q # p
    BY <1>0, <1>11, <1>14 DEF AdmitError
  <2>2. Field(p, g)' = Field(p, g)
    BY <1>4, <1>6, <1>14, <2>1 DEF AdmitError
  <2>3. pc[r] = "new" /\ (pc'[r] = "done" \/ pod'[r] = q)
    BY <1>0, <1>14 DEF AdmitError
  <2>4. ~HeldBy(r, p, g) /\ ~DoubledBy(r, p, g) /\ ~DoubledBy(r, p, g)' /\ ~HeldBy(r, p, g)'
    BY <2>1, <2>3 DEF HeldBy, DoubledBy
  <2>5. QED
    BY <1>8, <2>2, <2>4
<1>15. CASE RouteReturns(r) \/ RouteGivesUp(r)
  <2>1. /\ UNCHANGED <<hash, pod, admitted, incr>> /\ pc[r] = "routing"
        /\ pc'[r] \in {"placed", "releasing", "moving"} \/ (pc'[r] \in {"done", "new"} /\ r \notin admitted)
    BY <1>0, <1>15 DEF RouteReturns, RouteGivesUp
  <2>2. (HeldBy(r, p, g)' <=> HeldBy(r, p, g)) /\ (DoubledBy(r, p, g)' <=> DoubledBy(r, p, g))
    BY <2>1 DEF HeldBy, DoubledBy
  <2>3. QED
    BY <1>4, <1>8, <2>1, <2>2
<1>16. CASE Release(r)
  <2>1. /\ pc[r] \in {"releasing", "moving"} /\ pc'[r] \in {"done", "new"} /\ UNCHANGED <<pod, incr>>
        /\ r \in admitted /\ pod[r] \in Pods /\ pod'[r] = pod[r]
    BY <1>0, <1>16 DEF Release, AfterRelease
  <2>2. /\ (HeldBy(r, p, g) <=> (p = pod[r] /\ g = GatewayOf[r])) /\ ~HeldBy(r, p, g)'
        /\ ~DoubledBy(r, p, g) /\ ~DoubledBy(r, p, g)'
    BY <2>1 DEF HeldBy, DoubledBy
  <2>3. CASE Write(pod[r], GatewayOf[r], -1) /\ NoFault
    BY <1>10, <2>1, <2>2, <2>3
  <2>4. CASE Fault(pod[r], GatewayOf[r]) /\ FailedWrite(r, "decr", -1)
    <3>1. GatewayOf[r] # g \/ pod[r] # p
      BY <1>0, <1>11, <2>1, <2>4
    <3>2. Field(p, g)' = Field(p, g)
      BY <1>7, <2>1, <2>4, <3>1
    <3>3. QED
      BY <1>8, <2>2, <3>1, <3>2
  <2>5. QED
    BY <1>16, <2>3, <2>4 DEF Release
<1>17. CASE AddRequestCount(r)
  <2>1. /\ UNCHANGED <<hash, pod, admitted>> /\ pc[r] = "placed" /\ pc'[r] = "running" /\ r \notin Queued
        /\ incr'[r] = IF r \in admitted THEN "ok" ELSE "pending"
    BY <1>0, <1>17 DEF AddRequestCount
  <2>2. (HeldBy(r, p, g)' <=> HeldBy(r, p, g)) /\ ~DoubledBy(r, p, g)' /\ ~DoubledBy(r, p, g)
    BY <2>1 DEF HeldBy, DoubledBy
  <2>3. QED
    BY <1>4, <1>8, <2>1, <2>2
<1>18. CASE AddRequestCountNowhere(r)
  <2>1. pod[r] \in Pods /\ UNCHANGED <<hash, pod>>
    BY <1>0, <1>18 DEF AddRequestCountNowhere
  <2>2. GatewayOf[r] # g \/ pod[r] # p
    BY <1>0, <1>11, <1>18, <2>1 DEF AddRequestCountNowhere
  <2>3. QED
    BY <1>3, <1>4, <1>8, <2>1, <2>2
<1>19. CASE QueueEnforce(r)
  <2> DEFINE ok == AdmitSum(pod[r], GatewayOf[r], Local(pod[r], GatewayOf[r])) < Limit
             mine == p = pod[r] /\ g = GatewayOf[r]
             h == IF HeldBy(r, p, g) THEN 1 ELSE 0
             d == IF mine /\ ok THEN 1 ELSE 0
  <2>1. /\ UNCHANGED <<pod, incr>> /\ pc[r] = "enforcing" /\ pod[r] \in Pods /\ r \in Queued /\ r \notin admitted
        /\ pc'[r] = (IF ok THEN "running" ELSE "finishing")
        /\ admitted' = (IF ok THEN admitted \cup {r} ELSE admitted)
        /\ hash' = (IF ok THEN [hash EXCEPT ![pod[r]] = IncrDecr(@, GatewayOf[r], 1)] ELSE hash)
    BY <1>0, <1>19 DEF QueueEnforce, AdmitScript
  <2> HIDE DEF ok
  <2>2. (HeldBy(r, p, g)' <=> HeldBy(r, p, g)) /\ ~DoubledBy(r, p, g) /\ (DoubledBy(r, p, g)' <=> (mine /\ ok))
    BY <2>1 DEF HeldBy, DoubledBy
  <2>3. Field(p, g)' = Field(p, g) + d
    <3>1. CASE mine /\ ok
      <4>1. Write(p, g, 1)
        BY <2>1, <3>1 DEF Write
      <4>2. QED
        BY <1>0, <3>1, <4>1, WriteOne
    <3>2. CASE ~(mine /\ ok)
      <4>1. Field(p, g)' = Field(p, g)
        BY <1>0, <1>4, <1>5, <2>1, <3>2 DEF Write
      <4>2. QED
        BY <1>0, <3>2, <4>1, FieldNat
    <3>3. QED
      BY <3>1, <3>2
  <2>4. /\ h \in {0, 1} /\ d \in {0, 1} /\ 0 \in {0, 1} /\ (h = 1 <=> HeldBy(r, p, g))
        /\ (h = 1 <=> HeldBy(r, p, g)') /\ (0 = 1 <=> DoubledBy(r, p, g)) /\ (d = 1 <=> DoubledBy(r, p, g)')
    BY <2>2
  <2>5. d = 0 \/ GatewayOf[r] = g
    OBVIOUS
  <2> HIDE DEF h, d
  <2>6. Field(p, g)' - Field(p, g) >= (h - h) + (d - 0)
        /\ (Field(p, g)' - Field(p, g) = h - h \/ GatewayOf[r] = g)
    <3>1. Field(p, g) \in Nat
      BY <1>0, FieldNat
    <3>2. QED
      BY <2>3, <2>4, <2>5, <3>1
  <2>7. Field(p, g)' - Field(p, g) = h - h \/ (r \in Queued /\ GatewayOf[r] = g)
    BY <2>1, <2>6
  <2>8. QED
    BY <1>0, <1>1, <1>2, <2>4, <2>6, <2>7, MatchStep
<1>20. CASE IncrPodRunningRequests(r)
  <2>1. /\ pc[r] \in {"enforcing", "running", "finishing"} /\ pod[r] \in Pods /\ incr[r] = "pending"
        /\ incr'[r] \in {"ok", "failed"} /\ UNCHANGED <<pc, pod, admitted>>
    BY <1>0, <1>1, <1>20, PendingHasPod DEF IncrPodRunningRequests
  <2>2. ~HeldBy(r, p, g) /\ (DoubledBy(r, p, g)' <=> DoubledBy(r, p, g))
        /\ (HeldBy(r, p, g)' <=> (p = pod[r] /\ g = GatewayOf[r] /\ incr'[r] = "ok"))
    BY <2>1 DEF HeldBy, DoubledBy
  <2>3. CASE Write(pod[r], GatewayOf[r], 1) /\ incr' = [incr EXCEPT ![r] = "ok"]
    <3>1. incr'[r] = "ok"
      BY <1>0, <2>3
    <3>2. QED
      BY <1>9, <2>1, <2>2, <2>3, <3>1
  <2>4. CASE Fault(pod[r], GatewayOf[r]) /\ FailedWrite(r, "incr", 1)
    <3>1. GatewayOf[r] # g \/ pod[r] # p
      BY <1>0, <1>11, <2>1, <2>4
    <3>2. Field(p, g)' = Field(p, g)
      BY <1>7, <2>1, <2>4, <3>1
    <3>3. QED
      BY <1>8, <2>2, <3>1, <3>2
  <2>5. QED
    BY <1>20, <2>3, <2>4 DEF IncrPodRunningRequests
<1>21. CASE Complete(r)
  <2>1. UNCHANGED <<hash, pod, admitted, incr>> /\ pc[r] = "running" /\ pc'[r] = "finishing"
    BY <1>0, <1>21 DEF Complete
  <2>2. (HeldBy(r, p, g)' <=> HeldBy(r, p, g)) /\ (DoubledBy(r, p, g)' <=> DoubledBy(r, p, g))
    BY <2>1 DEF HeldBy, DoubledBy
  <2>3. QED
    BY <1>4, <1>8, <2>1, <2>2
<1>22. CASE DecrPodRunningRequests(r)
  <2>1. /\ pc[r] = "finishing" /\ pc'[r] = "done" /\ UNCHANGED <<pod, admitted, incr>> /\ pod[r] \in Pods
    BY <1>0, <1>22 DEF DecrPodRunningRequests
  <2>2. ~HeldBy(r, p, g)' /\ ~DoubledBy(r, p, g)' /\ (DoubledBy(r, p, g) => r \in Queued /\ GatewayOf[r] = g)
        /\ (HeldBy(r, p, g) <=> (p = pod[r] /\ g = GatewayOf[r] /\ incr[r] = "ok"))
    BY <2>1 DEF HeldBy, DoubledBy
  <2>3. CASE incr[r] = "failed" /\ UNCHANGED hash
    <3> DEFINE d == IF DoubledBy(r, p, g) THEN 1 ELSE 0
    <3>1. Field(p, g)' = Field(p, g) /\ Field(p, g) \in Nat
      BY <1>0, <1>4, <2>3, FieldNat
    <3>2. /\ d \in {0, 1} /\ 0 \in {0, 1} /\ (d = 1 <=> DoubledBy(r, p, g)) /\ (0 = 1 <=> DoubledBy(r, p, g)')
          /\ (0 = 1 <=> HeldBy(r, p, g)) /\ (0 = 1 <=> HeldBy(r, p, g)')
      BY <2>2, <2>3
    <3> HIDE DEF d
    <3>3. Field(p, g)' - Field(p, g) >= (0 - 0) + (0 - d) /\ Field(p, g)' - Field(p, g) = 0 - 0
      BY <3>1, <3>2
    <3>4. QED
      BY <1>0, <1>1, <1>2, <3>2, <3>3, MatchStep
  <2>4. CASE incr[r] = "ok" /\ Write(pod[r], GatewayOf[r], -1)
    BY <1>10, <2>1, <2>2, <2>4
  <2>5. CASE Fault(pod[r], GatewayOf[r]) /\ FailedWrite(r, "decr", -1)
    <3>1. GatewayOf[r] # g \/ pod[r] # p
      BY <1>0, <1>11, <2>1, <2>5
    <3>2. Field(p, g)' = Field(p, g)
      BY <1>7, <2>1, <2>5, <3>1
    <3>3. QED
      BY <1>3, <1>8, <2>1, <3>1, <3>2
  <2>6. QED
    BY <1>22, <2>3, <2>4, <2>5 DEF DecrPodRunningRequests
<1>23. QED
  BY <1>12, <1>13, <1>14, <1>15, <1>16, <1>17, <1>18, <1>19, <1>20, <1>21, <1>22 DEF RequestStep

\* The fields stay right when nothing that they or the slots depend on moves.
LEMMA MatchSame ==
  ASSUME NEW p, NEW g, Match(p, g), Field(p, g)' = Field(p, g),
         \A r \in Requests : GatewayOf[r] = g => pc'[r] = pc[r],
         UNCHANGED <<pod, admitted, incr>>
  PROVE  Match(p, g)'
<1>1. Held(p, g)' = Held(p, g)
  BY DEF Held
<1>2. Doubled(p, g)' = Doubled(p, g)
  BY RunningRequestsAssumption DEF Doubled
<1>3. QED
  BY <1>1, <1>2 DEF Match

\* No slots held and nothing in the field.
LEMMA MatchEmpty ==
  ASSUME NEW p, NEW g, Field(p, g)' = 0, Held(p, g)' = {}, Doubled(p, g)' = {}
  PROVE  Match(p, g)'
BY FS_EmptySet DEF Match

\* The field of a running gateway keeps counting its slots.
LEMMA FieldInvKept ==
  ASSUME IInv, Next
  PROVE  FieldInv'
<1>0. /\ HashOK /\ HashOK' /\ RequestTypes /\ TypeOK /\ RequestInv /\ ServerTypes /\ HygieneTypes /\ CallTypes
      /\ GatewayInv /\ FieldInv
  BY TypeGroups, HashType DEF IInv
<1>a. /\ \A r \in Requests : GatewayOf[r] \in Gateways /\ ReqOK(r)
      /\ Queued \subseteq Requests
  BY <1>0, RunningRequestsAssumption DEF RequestInv
<1> SUFFICES ASSUME NEW p \in Pods, NEW g \in Gateways,
                    proc'[g] = "up", <<p, g>> \notin touched', g \notin unannounced'
             PROVE  Match(p, g)'
  BY DEF FieldInv
<1>b. g \notin unannounced /\ (proc[g] = "up" \/ Start(g))
  BY <1>0, ProcSteps
<1>c. ASSUME proc[g] = "up", touched \subseteq touched' PROVE Match(p, g)
  BY <1>0, <1>b, <1>c DEF FieldInv
<1>1. ASSUME NEW r \in Requests, RequestStep(r) PROVE Match(p, g)'
  <2>1. UNCHANGED serverVars
    BY <1>0, <1>1, OtherRequests
  <2>2. proc[g] = "up"
    BY <2>1 DEF serverVars
  <2>3. QED
    BY <1>0, <1>1, <1>b, <2>2, RequestFields
<1>2. ASSUME UNCHANGED requestVars, UNCHANGED proc, touched \subseteq touched', Field(p, g)' = Field(p, g)
      PROVE  Match(p, g)'
  BY <1>2, <1>c, MatchSame DEF requestVars
<1>3. ASSUME UNCHANGED hash PROVE Field(p, g)' = Field(p, g)
  BY <1>3 DEF Field, FieldOf
<1>4. ASSUME NEW x \in Gateways, Start(x) PROVE Match(p, g)'
  <2>1. CASE x # g
    <3>1. proc'[g] = proc[g] /\ UNCHANGED requestVars /\ UNCHANGED <<touched, hash>>
      BY <1>0, <1>4, <2>1 DEF Start, ServerTypes
    <3>2. QED
      BY <1>3, <1>c, <3>1, MatchSame DEF requestVars
  <2>2. CASE x = g
    <3>1. proc[g] = "off" /\ UNCHANGED requestVars /\ UNCHANGED hash
      BY <1>4, <2>2 DEF Start
    <3>2. \A r \in Requests : GatewayOf[r] = g => pc'[r] = "new"
      BY <1>a, <3>1 DEF ReqOK, requestVars
    <3>3. Held(p, g)' = {} /\ Doubled(p, g)' = {}
      BY <1>a, <3>2 DEF Held, Doubled
    <3>4. g \notin DOMAIN hash[p]
      BY <1>0, <3>1 DEF GatewayInv
    <3>5. Field(p, g)' = 0
      BY <3>1, <3>4 DEF Field, FieldOf
    <3>6. QED
      BY <3>3, <3>5, MatchEmpty
  <2>3. QED
    BY <2>1, <2>2
<1>5. ASSUME NEW x \in Gateways, Crash(x) PROVE Match(p, g)'
  <2>1. x # g /\ proc[g] = "up" /\ UNCHANGED <<pod, admitted, incr, hash, touched>>
    BY <1>0, <1>5 DEF Crash, ServerTypes, NoFault
  <2>2. \A r \in Requests : GatewayOf[r] = g => pc'[r] = pc[r]
    BY <1>5, <2>1 DEF Crash
  <2>3. QED
    BY <1>3, <1>c, <2>1, <2>2, MatchSame
<1>6. ASSUME NEW x \in Gateways, HygieneHdel(x) PROVE Match(p, g)'
  <2> DEFINE pruned == [q \in Pods |-> [y \in DOMAIN hash[q] \ hygiene[x].del[q] |-> hash[q][y]]]
  <2>1. hash' = hash \/ hash' = pruned
    BY <1>6 DEF HygieneHdel
  <2>2. UNCHANGED requestVars /\ UNCHANGED proc /\ touched \subseteq touched'
    BY <1>6 DEF HygieneHdel, serverVars
  <2>3. g \notin hygiene[x].del[p]
    BY <1>0, <1>b, <2>2 DEF GatewayInv
  <2>4. CASE hash' = pruned
    <3>1. hash'[p] = [y \in DOMAIN hash[p] \ hygiene[x].del[p] |-> hash[p][y]]
      BY <2>4
    <3>2. Field(p, g)' = Field(p, g)
      BY <2>3, <3>1 DEF Field, FieldOf
    <3>3. QED
      BY <1>2, <2>2, <3>2
  <2>5. QED
    BY <1>2, <1>3, <2>1, <2>2, <2>4
<1>7. ASSUME NEW q \in Pods, NEW x \in Gateways, NEW d \in Int, Write(q, x, d) \/ UNCHANGED hash,
             touched' = touched \cup {<<q, x>>}
      PROVE  Field(p, g)' = Field(p, g)
  <2>1. <<p, g>> # <<q, x>>
    BY <1>7
  <2>2. QED
    BY <1>0, <1>3, <1>7, <2>1, WriteFacts
<1>8. ASSUME NEW x \in Gateways, NEW q \in Pods, HygieneCorrect(x, q) PROVE Match(p, g)'
  <2>1. hygiene[x].fix[q] \in Int
    BY <1>0 DEF HygieneTypes, HygieneType
  <2>2. Write(q, x, hygiene[x].fix[q]) \/ UNCHANGED hash
    BY <1>8 DEF HygieneCorrect
  <2>3. touched' = touched \cup {<<q, x>>} /\ UNCHANGED requestVars /\ UNCHANGED proc
    BY <1>8 DEF HygieneCorrect, Fault, serverVars
  <2>4. QED
    BY <1>2, <1>7, <2>1, <2>2, <2>3
<1>9. ASSUME NEW x \in late, LateScript(x) PROVE Match(p, g)'
  <2>1. x.req \in Requests /\ x.pod \in Pods /\ x.kind \in {"admit", "incr", "decr"}
    BY <1>0 DEF CallTypes, Scripts
  <2>2. GatewayOf[x.req] \in Gateways /\ 1 \in Int /\ -1 \in Int
    BY <1>a, <2>1
  <2>3. \/ UNCHANGED hash
        \/ Write(x.pod, GatewayOf[x.req], 1)
        \/ Write(x.pod, GatewayOf[x.req], -1)
    BY <1>9, <2>1 DEF LateScript, AdmitScript, Write
  <2>4. touched' = touched \cup {<<x.pod, GatewayOf[x.req]>>} /\ UNCHANGED requestVars /\ UNCHANGED proc
    BY <1>9 DEF LateScript, serverVars
  <2>5. Field(p, g)' = Field(p, g)
    BY <1>7, <2>1, <2>2, <2>3, <2>4
  <2>6. QED
    BY <1>2, <2>4, <2>5
<1>10. ASSUME NEW q \in Pods, Expire(q) PROVE Match(p, g)'
  <2>1. UNCHANGED requestVars /\ UNCHANGED proc /\ touched \subseteq touched'
    BY <1>10 DEF Expire, serverVars, NoFault
  <2>2. CASE q = p
    <3>1. \A r \in Requests : pod'[r] = p => pc'[r] \in {"new", "done", "lost"}
      BY <1>10, <2>1, <2>2 DEF Expire, requestVars
    <3>2. Held(p, g)' = {} /\ Doubled(p, g)' = {}
      BY <1>a, <3>1 DEF Held, Doubled
    <3>3. hash'[p] = NoHash
      BY <1>0, <1>10, <2>2 DEF Expire, HashOK
    <3>4. Field(p, g)' = 0
      BY <3>3 DEF Field, FieldOf, NoHash
    <3>5. QED
      BY <3>2, <3>4, MatchEmpty
  <2>3. CASE q # p
    <3>1. hash'[p] = hash[p]
      BY <1>0, <1>10, <2>3 DEF Expire, HashOK
    <3>2. Field(p, g)' = Field(p, g)
      BY <3>1 DEF Field, FieldOf
    <3>3. QED
      BY <1>2, <2>1, <3>2
  <2>4. QED
    BY <2>2, <2>3
<1>11. ASSUME NEW x \in Gateways, HygieneStep(x) \/ GatewayStep(x) PROVE Match(p, g)'
  <2>1. ASSUME UNCHANGED requestVars, UNCHANGED <<proc, touched, hash>> PROVE Match(p, g)'
    BY <1>2, <1>3, <2>1
  <2>2. QED
    BY <1>4, <1>5, <1>6, <1>8, <1>11, <2>1 DEF HygieneStep, GatewayStep, HygieneStart, HygieneSample,
       Heartbeat, Stale, Gone, Read, serverVars, NoFault
<1>12. QED
  BY <1>1, <1>9, <1>10, <1>11 DEF Next

-----------------------------------------------------------------------------
(* The inductive invariant.                                                *)

\* It holds at the start.
LEMMA InitIInv == Init => IInv
<1> SUFFICES ASSUME Init PROVE IInv
  OBVIOUS
<1>1. TypeOK
  <2>1. HashOK /\ RequestTypes /\ ServerTypes /\ CallTypes
    BY RunningRequestsAssumption DEF Init, HashOK, RequestTypes, ServerTypes, CallTypes, NoHash, Untracked
  <2>2. /\ NoDel \in [Pods -> SUBSET Gateways] /\ NoFix \in [Pods -> Int] /\ NoDrift \in DriftStates
        /\ Resting \in HygieneType /\ Resting.at = "idle" /\ Resting.del = NoDel /\ Resting.fix = NoFix
    BY RunningRequestsAssumption DEF NoDel, NoFix, NoDrift, DriftStates, Resting, HygieneType
  <2>3. HygieneTypes
    BY <2>2 DEF Init, HygieneTypes
  <2>4. QED
    BY <2>1, <2>3, TypeGroups
<1>2. RequestInv
  BY RunningRequestsAssumption DEF Init, RequestInv, ReqOK, Untracked, Tracked, Over
<1>3. GatewayInv
  BY DEF Init, GatewayInv, NoHash, NoDel, Resting
<1>4. FieldInv
  BY DEF Init, FieldInv
<1>5. QED
  BY <1>1, <1>2, <1>3, <1>4 DEF IInv

\* Every step keeps it.
LEMMA NextIInv == IInv /\ [Next]_vars => IInv'
<1> SUFFICES ASSUME IInv, [Next]_vars PROVE IInv'
  OBVIOUS
<1>1. CASE Next
  BY <1>1, TypeKept, RequestInvKept, GatewayInvKept, FieldInvKept DEF IInv
<1>2. CASE UNCHANGED vars
  <2>1. TypeOK'
    BY <1>2 DEF IInv, TypeOK, vars
  <2>2. RequestInv' /\ GatewayInv'
    BY <1>2 DEF IInv, RequestInv, ReqOK, GatewayInv, vars
  <2>3. FieldInv'
    BY <1>2 DEF IInv, FieldInv, Match, Held, Doubled, Field, FieldOf, vars
  <2>4. QED
    BY <2>1, <2>2, <2>3 DEF IInv
<1>3. QED
  BY <1>1, <1>2

\* The inductive invariant holds throughout.
LEMMA Inductive == Spec => []IInv
BY InitIInv, NextIInv, PTL DEF Spec

\* Every variable keeps to its values; in particular no sequence of scripts,
\* late scripts, corrections and deletions makes a field negative, and a drift
\* that observe tracks has been seen fewer than ConfirmPasses times.
THEOREM TypeCorrect == Spec => []TypeOK
<1>1. IInv => TypeOK
  BY DEF IInv
<1>2. QED
  BY <1>1, Inductive, PTL

\* Each +1 of a running gateway is paired with one -1: its field counts exactly
\* the requests that hold a slot, whatever the order in which admissions,
\* releases and the increment and decrement goroutines run.
THEOREM PairingHolds == Spec => []Pairing
<1>1. IInv => Pairing
  BY DEF IInv, FieldInv, Match, Pairing
<1>2. QED
  BY <1>1, Inductive, PTL

\* Deletion is for gateways that are gone: no step takes away the field of a
\* running gateway that holds slots, however late a heartbeat, a read or
\* another gateway's hygiene pass comes.
THEOREM LiveFieldKeeps == Spec => LiveFieldKept
<1>1. ASSUME IInv, Next, NEW p \in Pods, NEW g \in Gateways \ unannounced,
             proc[g] = "up", Held(p, g) # {}, g \in DOMAIN hash[p]
      PROVE  g \in DOMAIN hash'[p]
  <2>0. HashOK /\ GatewayInv
    BY <1>1, TypeGroups DEF IInv
  <2>1. CASE UNCHANGED hash
    BY <1>1, <2>1
  <2>2. ASSUME NEW q \in Pods, NEW x \in Gateways, NEW d \in Int, Write(q, x, d)
        PROVE  g \in DOMAIN hash'[p]
    BY <1>1, <2>0, <2>2, WriteFacts
  <2>3. ASSUME NEW q \in Pods, Expire(q) PROVE g \in DOMAIN hash'[p]
    <3>1. q # p
      BY <1>1, <2>3 DEF Expire, Held
    <3>2. hash'[p] = hash[p]
      BY <2>0, <2>3, <3>1 DEF Expire, HashOK
    <3>3. QED
      BY <1>1, <3>2
  <2>4. ASSUME NEW x \in Gateways, HygieneHdel(x) PROVE g \in DOMAIN hash'[p]
    <3> DEFINE pruned == [q \in Pods |-> [y \in DOMAIN hash[q] \ hygiene[x].del[q] |-> hash[q][y]]]
    <3>1. hash' = hash \/ hash' = pruned
      BY <2>4 DEF HygieneHdel
    <3>2. g \notin hygiene[x].del[p]
      BY <1>1, <2>0 DEF GatewayInv
    <3>3. CASE hash' = pruned
      <4>1. hash'[p] = [y \in DOMAIN hash[p] \ hygiene[x].del[p] |-> hash[p][y]]
        BY <3>3
      <4>2. QED
        BY <1>1, <3>2, <4>1
    <3>4. QED
      BY <2>1, <3>1, <3>3
  <2>5. QED
    BY <1>1, <2>1, <2>2, <2>3, <2>4, HashCases
<1> DEFINE Keep == \A p \in Pods, g \in Gateways \ unannounced :
                     proc[g] = "up" /\ Held(p, g) # {} /\ g \in DOMAIN hash[p] => g \in DOMAIN hash'[p]
<1>2. IInv /\ [Next]_vars => [Keep]_vars
  BY <1>1
<1>3. QED
  BY <1>2, Inductive, PTL DEF Spec, LiveFieldKept

-----------------------------------------------------------------------------
(* The hard cap.                                                           *)

ActiveAt(p, g) == {r \in Active(p) : GatewayOf[r] = g}

\* A running gateway's field covers its capped requests on the pod, and a
\* gateway that does not run has none.
LEMMA ActiveCovered ==
  ASSUME IInv, NEW p \in Pods, \A x \in Gateways : <<p, x>> \notin touched, missed = {}, NEW g \in Gateways
  PROVE  /\ Cardinality(ActiveAt(p, g)) \in Nat /\ Cardinality(ActiveAt(p, g)) <= Field(p, g)
         /\ beat[g] # "fresh" => Cardinality(ActiveAt(p, g)) = 0
<1>0. /\ HashOK /\ ServerTypes /\ GatewayInv /\ RequestInv /\ FieldInv
      /\ unannounced = {} /\ Capped \subseteq Requests /\ Queued \subseteq Capped
  BY TypeGroups, RunningRequestsAssumption DEF IInv, ServerTypes
<1>1. Field(p, g) \in Nat
  BY <1>0, FieldNat
<1>2. \A r \in Active(p) : r \in Requests /\ ReqOK(r) /\ pod[r] = p /\ pc[r] \in {"routing", "placed", "running"}
                           /\ r \in Capped
  BY <1>0 DEF Active, RequestInv
<1>3. ActiveAt(p, g) \in SUBSET Requests
  BY <1>2 DEF ActiveAt
<1>4. CASE proc[g] # "up"
  <2>1. proc[g] \in {"off", "dead"}
    BY <1>0, <1>4 DEF ServerTypes
  <2>2. ActiveAt(p, g) = {}
    BY <1>2, <2>1 DEF ActiveAt, ReqOK
  <2>3. QED
    BY <1>1, <2>2, FS_EmptySet
<1>5. CASE proc[g] = "up"
  <2>1. beat[g] = "fresh" /\ Match(p, g)
    BY <1>0, <1>5 DEF GatewayInv, FieldInv
  <2>2. ASSUME NEW r \in ActiveAt(p, g) PROVE r \in Held(p, g) \cup Doubled(p, g)
    <3>1. /\ r \in Capped /\ r \in Requests /\ ReqOK(r) /\ pod[r] = p /\ GatewayOf[r] = g
          /\ pc[r] \in {"routing", "placed", "running"}
      BY <1>2, <2>2 DEF ActiveAt
    <3>2. CASE r \in Queued
      BY <3>1, <3>2 DEF ReqOK, Doubled, Tracked, Over
    <3>3. CASE r \notin Queued
      <4>1. r \in admitted
        BY <3>1, <3>3 DEF ReqOK
      <4>2. QED
        BY <3>1, <3>3, <4>1 DEF ReqOK, Held
    <3>4. QED
      BY <3>2, <3>3
  <2> DEFINE A == ActiveAt(p, g)
             H == Held(p, g)
             D == Doubled(p, g)
  <2>3. A \subseteq H \cup D
    BY <2>2
  <2>4. /\ H \in SUBSET Requests /\ D \in SUBSET Requests /\ H \cap D \in SUBSET Requests
        /\ Field(p, g) >= Cardinality(H) + Cardinality(D)
    BY <2>1, SlotSets DEF Match
  <2> HIDE DEF A, H, D
  <2>5. /\ IsFiniteSet(H) /\ IsFiniteSet(D) /\ Cardinality(H) \in Nat /\ Cardinality(D) \in Nat
        /\ Cardinality(H \cap D) \in Nat
    BY <2>4, RequestSets
  <2>6. IsFiniteSet(H \cup D) /\ Cardinality(H \cup D) = Cardinality(H) + Cardinality(D) - Cardinality(H \cap D)
    BY <2>5, FS_Union
  <2>7. Cardinality(A) <= Cardinality(H \cup D) /\ Cardinality(A) \in Nat /\ Cardinality(H \cup D) \in Nat
    BY <2>3, <2>6, FS_Subset, FS_CardinalityType
  <2>8. Cardinality(A) <= Field(p, g)
    BY <1>1, <2>4, <2>5, <2>6, <2>7
  <2>9. QED
    BY <2>1, <2>7, <2>8 DEF A
<1>6. QED
  BY <1>4, <1>5

\* What the admission script adds up is never less than the capped requests on
\* the pod, over all gateways.
LEMMA SumCovers ==
  ASSUME IInv, NEW p \in Pods, \A x \in Gateways : <<p, x>> \notin touched, missed = {}, NEW g \in Gateways
  PROVE  Cardinality(Active(p)) \in Nat
         /\ AdmitSum(p, g, Local(p, g)) \in Int /\ Cardinality(Active(p)) <= AdmitSum(p, g, Local(p, g))
<1> DEFINE A == Active(p)
           f == [x \in Gateways |-> Cardinality({r \in A : GatewayOf[r] = x})]
           F == [x \in Gateways |-> Field(p, x)]
           others == {x \in Gateways \ {g} : beat[x] = "fresh"}
           own == OwnCount(p, g, Local(p, g))
<1>0. HashOK /\ IsFiniteSet(Gateways) /\ A \in SUBSET Requests /\ \A r \in Requests : GatewayOf[r] \in Gateways
  BY TypeGroups, RunningRequestsAssumption DEF IInv, Active
<1>1. /\ \A x \in Gateways : f[x] \in Nat /\ F[x] \in Nat /\ f[x] <= F[x]
      /\ \A x \in Gateways : beat[x] # "fresh" => f[x] = 0
  BY <1>0, ActiveCovered, FieldNat DEF ActiveAt
<1>2. own \in Int /\ F[g] \in Int /\ F[g] <= own
  <2>1. Field(p, g) \in Nat /\ Local(p, g) \in Nat
    BY <1>0, FieldNat, LocalNat
  <2>2. own = IF Field(p, g) >= Local(p, g) THEN Field(p, g) ELSE Local(p, g)
    BY <2>1, MaxMin DEF OwnCount
  <2>3. QED
    BY <2>1, <2>2
<1>3. AdmitSum(p, g, Local(p, g)) = own + SumFunctionOnSet(F, others)
  BY DEF AdmitSum
<1>4. IsFiniteSet(others) /\ others \cup {g} \in SUBSET Gateways /\ g \notin others
  <2>1. others \subseteq Gateways
    OBVIOUS
  <2> HIDE DEF others
  <2>2. IsFiniteSet(others)
    BY <1>0, <2>1, FS_Subset
  <2>3. QED
    BY <2>1, <2>2 DEF others
<1>5. Cardinality(A) = SumFunctionOnSet(f, Gateways)
  <2>1. IsFiniteSet(A) /\ \A r \in A : GatewayOf[r] \in Gateways
    BY <1>0, RequestSets
  <2> HIDE DEF A
  <2>2. QED
    BY <1>0, <2>1, CardinalityIsSum
<1>6. \A x \in Gateways \ (others \cup {g}) : f[x] = 0
  BY <1>1
<1>a. Cardinality(A) \in Nat
  BY <1>0, RequestSets
<1> HIDE DEF f, F, others, own, A
<1>7. SumFunctionOnSet(f, Gateways) = SumFunctionOnSet(f, others \cup {g})
  BY <1>0, <1>1, <1>4, <1>6, SumSupport
<1>8. SumFunctionOnSet(f, others \cup {g}) = SumFunctionOnSet(f, others) + f[g]
  <2>1. \A y \in others \cup {g} : f[y] \in Int
    BY <1>1, <1>4
  <2>2. QED
    BY <1>4, <2>1, SumAdd
<1>9. SumFunctionOnSet(f, others) <= SumFunctionOnSet(F, others)
  BY <1>1, <1>4, SumMonotone
<1>10. SumFunctionOnSet(f, others) \in Int /\ SumFunctionOnSet(F, others) \in Int
  BY <1>1, <1>4, SumInt
<1>11. f[g] \in Int /\ f[g] <= F[g]
  BY <1>1
<1>12. /\ AdmitSum(p, g, Local(p, g)) \in Int /\ Cardinality(A) <= AdmitSum(p, g, Local(p, g))
  BY <1>2, <1>3, <1>5, <1>7, <1>8, <1>9, <1>10, <1>11
<1>13. QED
  BY <1>12, <1>a DEF A

\* Only an admission adds a capped request to a pod whose history is clean.
LEMMA ActiveSteps ==
  ASSUME IInv, Next, NEW p \in Pods, \A x \in Gateways : <<p, x>> \notin touched'
  PROVE  \/ Active(p)' \subseteq Active(p)
         \/ \E r \in Requests : /\ Active(p)' \subseteq Active(p) \cup {r}
                                /\ AdmitSum(p, GatewayOf[r], Local(p, GatewayOf[r])) < Limit
<1>0. RequestTypes /\ Capped \subseteq Requests /\ RequestInv
  BY TypeGroups, RunningRequestsAssumption DEF IInv
<1>1. CASE UNCHANGED requestVars
  BY <1>1 DEF requestVars, Active
<1>2. ASSUME NEW g \in Gateways, Crash(g) PROVE Active(p)' \subseteq Active(p)
  <2>1. \A r \in Requests : pc'[r] \in {"routing", "placed", "running"} => pc'[r] = pc[r]
    BY <1>2 DEF Crash
  <2>2. QED
    BY <1>0, <1>2, <2>1 DEF Crash, Active
<1>3. ASSUME NEW r \in Requests, RequestStep(r)
      PROVE  \/ Active(p)' \subseteq Active(p)
             \/ /\ Active(p)' \subseteq Active(p) \cup {r}
                /\ AdmitSum(p, GatewayOf[r], Local(p, GatewayOf[r])) < Limit
  <2>1. Only(r) /\ ReqOK(r) /\ pc[r] \in Untracked \cup Tracked \cup Over /\ GatewayOf[r] \in Gateways
    BY <1>0, <1>3, OtherRequests, RunningRequestsAssumption DEF Only, RequestInv, RequestTypes
  <2>2. \A q : q # r /\ q \in Active(p)' => q \in Active(p)
    BY <1>0, <2>1 DEF Active, Only
  <2>3. Active(p)' \subseteq Active(p) \cup {r}
    BY <2>2
  <2>4. ASSUME r \in Active(p)', r \notin Active(p)
        PROVE  AdmitSum(p, GatewayOf[r], Local(p, GatewayOf[r])) < Limit
    <3>1. r \in Capped /\ pod'[r] = p /\ pc'[r] \in {"routing", "placed", "running"}
      BY <2>4 DEF Active
    <3>2. pod[r] # p \/ pc[r] \notin {"routing", "placed", "running"}
      BY <2>4, <3>1 DEF Active
    <3> USE DEF Move, RequestTypes, Untracked, Tracked, Over
    <3>3. ASSUME NEW q \in Pods, AdmitOk(r, q) PROVE AdmitSum(p, GatewayOf[r], Local(p, GatewayOf[r])) < Limit
      BY <1>0, <3>1, <3>3 DEF AdmitOk
    <3>4. ASSUME NEW q \in Pods, AdmitRejected(r, q) \/ PlaceUncounted(r, q) \/ QueueServe(r, q)
                                 \/ AdmitError(r, q)
          PROVE  FALSE
      BY <1>0, <2>1, <3>1, <3>4 DEF AdmitRejected, PlaceUncounted, QueueServe, AdmitError, Fault
    <3>5. CASE QueueEnforce(r)
      BY <1>0, <3>1, <3>5 DEF QueueEnforce
    <3>6. CASE RouteReturns(r) \/ RouteGivesUp(r) \/ Release(r) \/ AddRequestCount(r) \/ AddRequestCountNowhere(r)
               \/ IncrPodRunningRequests(r) \/ Complete(r) \/ DecrPodRunningRequests(r)
      BY <1>0, <3>1, <3>2, <3>6 DEF RouteReturns, RouteGivesUp, Release, AfterRelease, AddRequestCount,
         AddRequestCountNowhere, IncrPodRunningRequests, Complete, DecrPodRunningRequests
    <3>7. QED
      BY <1>3, <3>3, <3>4, <3>5, <3>6 DEF RequestStep
  <2>5. QED
    BY <2>2, <2>3, <2>4
<1>4. QED
  BY <1>1, <1>2, <1>3 DEF Next, HygieneStep, GatewayStep, HygieneStart, HygieneHdel, HygieneSample,
     HygieneCorrect, Start, Heartbeat, Stale, Gone, Read, LateScript, Expire

\* The histories only grow.
LEMMA TouchedGrows ==
  ASSUME IInv, Next
  PROVE  touched \subseteq touched'
<1>1. RequestTypes
  BY TypeGroups DEF IInv
<1>2. ASSUME NEW r \in Requests, RequestStep(r) PROVE touched \subseteq touched'
  BY <1>1, <1>2, OtherRequests
<1>3. QED
  BY <1>2 DEF Next, HygieneStep, GatewayStep, HygieneStart, HygieneHdel, HygieneSample,
     HygieneCorrect, Start, Heartbeat, Stale, Gone, Crash, Read, LateScript, Expire, NoFault, Fault

\* Every step keeps the cap.
LEMMA CapKept == IInv /\ HardCap /\ [Next]_vars => HardCap'
<1> SUFFICES ASSUME IInv, HardCap, [Next]_vars PROVE HardCap'
  OBVIOUS
<1>1. CASE UNCHANGED vars
  BY <1>1 DEF HardCap, Active, vars
<1>2. CASE Next
  <2> SUFFICES ASSUME NEW p \in Pods, missed' = {}, \A g \in Gateways : <<p, g>> \notin touched'
               PROVE  Cardinality(Active(p)') <= Limit
    BY DEF HardCap
  <2>1. missed = {} /\ \A g \in Gateways : <<p, g>> \notin touched
    BY <1>2, ProcSteps, TouchedGrows, TypeGroups DEF IInv
  <2>2. Cardinality(Active(p)) <= Limit
    BY <2>1 DEF HardCap
  <2> DEFINE A == Active(p)
             B == Active(p)'
  <2>3. A \in SUBSET Requests /\ B \in SUBSET Requests /\ Limit \in Nat
    BY RunningRequestsAssumption DEF Active
  <2>4. \/ B \subseteq A
        \/ \E r \in Requests : /\ B \subseteq A \cup {r}
                               /\ AdmitSum(p, GatewayOf[r], Local(p, GatewayOf[r])) < Limit
    BY <1>2, ActiveSteps
  <2>5. \A r \in Requests : /\ AdmitSum(p, GatewayOf[r], Local(p, GatewayOf[r])) \in Int
                            /\ Cardinality(A) <= AdmitSum(p, GatewayOf[r], Local(p, GatewayOf[r]))
    BY <2>1, SumCovers, RunningRequestsAssumption
  <2> HIDE DEF A, B
  <2>6. IsFiniteSet(A) /\ IsFiniteSet(B) /\ Cardinality(A) \in Nat /\ Cardinality(B) \in Nat
    BY <2>3, RequestSets
  <2>7. CASE B \subseteq A
    <3>1. Cardinality(B) <= Cardinality(A)
      BY <2>6, <2>7, FS_Subset
    <3>2. Cardinality(B) <= Limit
      BY <2>2, <2>3, <2>6, <3>1 DEF A
    <3>3. QED
      BY <3>2 DEF B
  <2>8. ASSUME NEW r \in Requests, B \subseteq A \cup {r},
               AdmitSum(p, GatewayOf[r], Local(p, GatewayOf[r])) < Limit
        PROVE  Cardinality(B) <= Limit
    <3>1. Cardinality(A) < Limit
      BY <2>3, <2>5, <2>6, <2>8
    <3>2. IsFiniteSet(A \cup {r}) /\ Cardinality(A \cup {r}) <= Cardinality(A) + 1
      <4>1. CASE r \in A
        <5>1. A \cup {r} = A
          BY <4>1
        <5>2. QED
          BY <2>6, <5>1
      <4>2. CASE r \notin A
        <5>1. IsFiniteSet(A \cup {r}) /\ Cardinality(A \cup {r}) = Cardinality(A) + 1
          BY <2>6, <4>2, FS_AddElement
        <5>2. QED
          BY <2>6, <5>1
      <4>3. QED
        BY <4>1, <4>2
    <3>3. Cardinality(B) <= Cardinality(A \cup {r}) /\ Cardinality(A \cup {r}) \in Nat
      BY <2>8, <3>2, FS_Subset, FS_CardinalityType
    <3>4. QED
      BY <2>3, <2>6, <3>1, <3>2, <3>3
  <2>9. QED
    BY <2>4, <2>7, <2>8 DEF B
<1>3. QED
  BY <1>1, <1>2

\* requestsInflight is a hard cap across gateways: no interleaving of
\* admissions, prefills, releases, asynchronous increments and crashes puts
\* more than Limit capped requests on a pod as long as no call failed, no
\* running gateway went silent and no drift correction was made.
THEOREM HardCapHolds == Spec => []HardCap
<1>1. Init => HardCap
  <2>1. ASSUME Init, NEW p \in Pods PROVE Active(p) = {}
    BY <2>1, RunningRequestsAssumption DEF Init, Active
  <2>2. Limit \in Nat /\ Cardinality({}) = 0
    BY RunningRequestsAssumption, FS_EmptySet
  <2>3. QED
    BY <2>1, <2>2 DEF HardCap
<1>2. QED
  BY <1>1, CapKept, Inductive, PTL DEF Spec
=============================================================================
