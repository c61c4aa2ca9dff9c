------------------------- MODULE QueueRouterProofs -------------------------
(***************************************************************************)
(* The queue router for any requests, subqueues, pods, profiles and pod    *)
(* lists: its types, that the peeked entry stays the head, that a pod's    *)
(* load is the requests it carries, that the published depth settles, that *)
(* it implements the dispatcher, and, when every trigger carries all pods, *)
(* that no wake-up is lost.                                                *)
(***************************************************************************)
EXTENDS QueueRouter, SumTheorems, SequenceTheorems

(* What the serve goroutine holds is still in the queue: a picked entry is *)
(* the head of its subqueue, and so is every candidate left to be tried.   *)
ServeInv ==
  /\ serve.step \in {"route", "dequeue"} =>
       /\ serve.sub \in SubKeys /\ serve.entry \in Requests
       /\ subs[serve.sub] # << >> /\ Head(subs[serve.sub]) = serve.entry
  /\ serve.step = "try" =>
       /\ serve.cands # << >>
       /\ \A i \in 1..Len(serve.cands) : subs[serve.cands[i]] # << >>

(* A request's target follows its stage; once it has a pod its stats are   *)
(* added, except while the serve goroutine is between the two.             *)
RequestInv ==
  \A r \in Requests :
    /\ stage[r] = "new" => target[r] = None
    /\ stage[r] = "failed" => target[r] = Error
    /\ stage[r] \in {"running", "notifying", "done"} => r \in counted
    /\ r \in counted => target[r] \in Pods
    /\ target[r] \in Pods /\ r \notin counted =>
         serve.step = "route" /\ serve.entry = r /\ serve.err = None

(* Only a request whose Route was called is queued.                        *)
QueueInv ==
  \A k \in SubKeys : \A i \in 1..Len(subs[k]) : stage[subs[k][i]] # "new"

(* The fallback router, which knows no capacity, gets a candidate only when *)
(* no profile of the list's pods ranks it.                                 *)
RouteInv ==
  (serve.step = "route" /\ serve.err = None /\ target[serve.entry] = None)
  => Ranks(serve.entry, serve.pods) = {}

(* A trigger carries a list some request came with, or all pods.           *)
Offered == PodLists \cup {Pods}

ListInv ==
  /\ trigger \in Offered \cup {{}}
  /\ serve.step # "idle" => serve.pods \in Offered
  /\ \A r \in Requests : stage[r] = "enqueued" => list[r] \in Offered

IInv == /\ TypeOK /\ ServeInv /\ RequestInv /\ QueueInv /\ RouteInv /\ ListInv
        /\ LoadIsTheRunning

(* A head that can be ranked and that a profile at capacity holds back.    *)
Blocked(k) == \E d \in Ranks(Head(subs[k]), Pods) :
                RouteResult(Head(subs[k]), d, Pods) = Capacity

Quiet == /\ trigger = {}
         /\ \A r \in Requests : stage[r] \notin {"enqueued", "notifying"}

WakeInv ==
  /\ Quiet /\ serve.step = "idle" /\ ~stalled =>
       /\ Heads # {} => RankedHeads(Pods) # {}
       /\ \A k \in RankedHeads(Pods) : Blocked(k)
  /\ Quiet /\ serve.step = "try" =>
       /\ RankedHeads(Pods) # {}
       /\ \A k \in RankedHeads(Pods) :
            Blocked(k) \/ \E i \in 1..Len(serve.cands) : serve.cands[i] = k

-----------------------------------------------------------------------------
(* Sequences.                                                              *)

\* A request joins a subqueue (Enqueue): the head and the others stay.
LEMMA AppendFacts ==
  ASSUME NEW S, NEW s \in Seq(S), NEW e \in S
  PROVE  /\ Append(s, e) \in Seq(S) /\ Append(s, e) # << >>
         /\ Len(Append(s, e)) = Len(s) + 1
         /\ s # << >> => Head(Append(s, e)) = Head(s)
         /\ \A i \in 1..Len(Append(s, e)) :
              Append(s, e)[i] = e \/ (i \in 1..Len(s) /\ Append(s, e)[i] = s[i])
<1>1. /\ Append(s, e) \in Seq(S) /\ Append(s, e) # << >>
      /\ Len(Append(s, e)) = Len(s) + 1
      /\ Append(s, e)[Len(s) + 1] = e
      /\ \A i \in 1..Len(s) : Append(s, e)[i] = s[i]
  BY AppendProperties
<1>2. ASSUME s # << >> PROVE Head(Append(s, e)) = Head(s)
  <2>1. Len(s) \in Nat /\ Len(s) # 0
    BY <1>2, EmptySeq
  <2>2. 1 \in 1..Len(s)
    BY <2>1
  <2>3. Head(s) = s[1] /\ Head(Append(s, e)) = Append(s, e)[1]
    BY <1>1, <1>2, HeadTailProperties
  <2>4. QED
    BY <2>2, <2>3, <1>1
<1>3. ASSUME NEW i \in 1..Len(Append(s, e))
      PROVE  Append(s, e)[i] = e \/ (i \in 1..Len(s) /\ Append(s, e)[i] = s[i])
  <2>1. Len(s) \in Nat /\ (i = Len(s) + 1 \/ i \in 1..Len(s))
    BY <1>1
  <2>2. CASE i = Len(s) + 1
    BY <2>2, <1>1
  <2>3. CASE i \in 1..Len(s)
    BY <2>3, <1>1
  <2>4. QED
    BY <2>1, <2>2, <2>3
<1>4. QED
  BY <1>1, <1>2, <1>3

\* The head of a subqueue leaves (Dequeue): the others move up.
LEMMA TailFacts ==
  ASSUME NEW S, NEW s \in Seq(S), s # << >>
  PROVE  /\ Head(s) \in S /\ Head(s) = s[1] /\ 1 \in 1..Len(s)
         /\ Tail(s) \in Seq(S) /\ Len(Tail(s)) = Len(s) - 1
         /\ \A i \in 1..Len(Tail(s)) :
              i + 1 \in 1..Len(s) /\ Tail(s)[i] = s[i + 1]
<1>1. Len(s) \in Nat /\ Len(s) # 0
  BY EmptySeq
<1>2. /\ Head(s) \in S /\ Tail(s) \in Seq(S) /\ Len(Tail(s)) = Len(s) - 1
      /\ \A i \in 1..Len(Tail(s)) : Tail(s)[i] = s[i + 1]
  BY HeadTailProperties
<1>3. Head(s) = s[1]
  OBVIOUS
<1>4. QED
  BY <1>1, <1>2, <1>3

\* An order of the candidates (Peek's sort of the heads) is a sequence of them
\* that leaves none out.
LEMMA OrderFacts ==
  ASSUME NEW S, IsFiniteSet(S), NEW o \in SetToSeqs(S)
  PROVE  /\ o \in Seq(S)
         /\ S # {} => o # << >>
         /\ \A k \in S : \E i \in 1..Len(o) : o[i] = k
<1>1. Cardinality(S) \in Nat
  BY FS_CardinalityType
<1>2. /\ o \in [1..Cardinality(S) -> S]
      /\ \A i, j \in 1..Cardinality(S) : i # j => o[i] # o[j]
  BY DEF SetToSeqs
<1>3. o \in Seq(S) /\ Len(o) = Cardinality(S)
  BY <1>1, <1>2
<1>4. S # {} => Cardinality(S) # 0
  BY FS_EmptySet
<1>5. o \in Surjection(1..Cardinality(S), S)
  <2>1. o \in Injection(1..Cardinality(S), S)
    BY <1>2 DEF Injection, IsInjective
  <2>2. Cardinality(1..Cardinality(S)) = Cardinality(S)
    BY <1>1, FS_Interval
  <2>3. QED
    BY <2>1, <2>2, FS_Injection
<1>6. \A k \in S : \E i \in 1..Len(o) : o[i] = k
  BY <1>3, <1>5 DEF Surjection
<1>7. QED
  BY <1>3, <1>4, <1>6

\* The candidates Peek ranks are heads, and finitely many.
LEMMA RankedFacts ==
  ASSUME NEW pods
  PROVE  /\ IsFiniteSet(RankedHeads(pods)) /\ RankedHeads(pods) \subseteq SubKeys
         /\ RankedHeads(pods) \subseteq Heads
BY Assumptions, FS_Subset DEF RankedHeads, Heads

\* The depth of the queue is a natural number.
LEMMA TotalLenNat ==
  ASSUME TypeOK
  PROVE  TotalLen \in Nat
<1> DEFINE f == [k \in SubKeys |-> Len(subs[k])]
<1>1. \A k \in SubKeys : f[k] \in Nat
  BY DEF TypeOK
<1>2. TotalLen = SumFunctionOnSet(f, SubKeys)
  BY DEF TotalLen, SumFunction
<1>3. QED
  <2> HIDE DEF f
  <2> QED BY <1>1, <1>2, SumNat, Assumptions

\* A queue with an entry has a positive depth.
LEMMA TotalLenPositive ==
  ASSUME TypeOK, NEW k \in SubKeys, subs[k] # << >>
  PROVE  TotalLen - 1 \in Nat
<1> DEFINE f == [j \in SubKeys |-> Len(subs[j])]
<1>1. \A j \in SubKeys : f[j] \in Nat
  BY DEF TypeOK
<1>2. TotalLen = SumFunctionOnSet(f, SubKeys)
  BY DEF TotalLen, SumFunction
<1>3. f[k] > 0
  BY DEF TypeOK
<1>4. QED
  <2> HIDE DEF f
  <2>0. IsFiniteSet(SubKeys)
    BY Assumptions
  <2>1. SumFunctionOnSet(f, SubKeys) = f[k] + SumFunctionOnSet(f, SubKeys \ {k})
    BY <1>1, <2>0, SumTakeOut
  <2>2. IsFiniteSet(SubKeys \ {k})
    BY <2>0, FS_Subset
  <2>3. SumFunctionOnSet(f, SubKeys \ {k}) \in Nat
    BY <2>2, <1>1, SumNat
  <2>4. QED
    BY <2>1, <2>3, <1>1, <1>2, <1>3

-----------------------------------------------------------------------------
(* The two things that can become of the candidate Peek's loop tries: it   *)
(* is picked, with a target that has room, one it had, or an error; or     *)
(* every profile tried was at capacity and the loop passes it by.          *)

Picked(k, e) == serve' = [serve EXCEPT !.step = "route", !.sub = k,
                                       !.entry = Head(subs[k]), !.err = e,
                                       !.cands = << >>]

TryPicks(k) ==
  \/ /\ target' = target
     /\ \E e \in {None, SLOFailure} :
          Picked(k, e) /\ (e = None => target[Head(subs[k])] # None)
  \/ /\ target[Head(subs[k])] = None
     /\ Picked(k, None)
     /\ \E p \in serve.pods :
          /\ DeploymentOf[p] \in Ranks(Head(subs[k]), serve.pods) /\ HasRoom(p)
          /\ target' = [target EXCEPT ![Head(subs[k])] = p]

TryPasses(k) ==
  /\ target' = target
  /\ \E d \in Ranks(Head(subs[k]), serve.pods) :
       RouteResult(Head(subs[k]), d, serve.pods) = Capacity
  /\ \/ /\ Len(serve.cands) > 1
        /\ serve' = [serve EXCEPT !.cands = Tail(@)]
     \/ /\ ~(Len(serve.cands) > 1)
        /\ serve' = Idle

\* One turn of Peek's loop over the candidates (TryCandidate).
LEMMA TryCases ==
  ASSUME TypeOK, ServeInv, TryCandidate
  PROVE  LET k == Head(serve.cands)
         IN  /\ k \in SubKeys /\ subs[k] # << >> /\ k = serve.cands[1]
             /\ Head(subs[k]) \in Requests
             /\ serve.cands # << >> /\ serve.step = "try"
             /\ TryPicks(k) \/ TryPasses(k)
<1> DEFINE k == Head(serve.cands)
           r == Head(subs[k])
           picked(err) == [serve EXCEPT !.step = "route", !.sub = k, !.entry = r,
                                        !.err = err, !.cands = << >>]
           ranks == Ranks(r, serve.pods)
<1>1. serve.cands \in Seq(SubKeys) /\ serve.cands # << >> /\ serve.step = "try"
  BY DEF TypeOK, ServeInv, TryCandidate
<1>2. k \in SubKeys /\ k = serve.cands[1] /\ 1 \in 1..Len(serve.cands)
  BY <1>1, TailFacts
<1>3. subs[k] # << >> /\ subs[k] \in Seq(Requests)
  BY <1>1, <1>2 DEF TypeOK, ServeInv
<1>4. r \in Requests
  BY <1>3, TailFacts
<1>5. PICK ps \in SeqOf(ranks, Cardinality(ranks)) :
        /\ ps # << >>
        /\ LET result(i) == RouteResult(r, ps[i], serve.pods)
               routable == {i \in 1..Len(ps) : result(i) = None}
           IN \/ /\ target[r] \in Pods
                 /\ serve' = picked(None)
                 /\ UNCHANGED target
              \/ /\ target[r] = None /\ routable # {}
                 /\ \E i \in routable : \E p \in LeastLoaded(Open(ps[i], serve.pods)) :
                      target' = [target EXCEPT ![r] = p]
                 /\ serve' = picked(None)
              \/ /\ \/ target[r] = Error
                    \/ target[r] = None /\ routable = {}
                 /\ LET last == result(Len(ps))
                    IN serve' = IF last # Capacity THEN picked(last)
                                ELSE IF Len(serve.cands) > 1
                                     THEN [serve EXCEPT !.cands = Tail(@)]
                                     ELSE Idle
                 /\ UNCHANGED target
  BY DEF TryCandidate
<1>6. Len(ps) \in 1..Len(ps) /\ \A i \in 1..Len(ps) : ps[i] \in ranks
  <2> HIDE DEF ranks
  <2>1. PICK m \in Nat : ps \in [1..m -> ranks]
    BY DEF SeqOf
  <2>2. ps \in Seq(ranks) /\ Len(ps) \in Nat
    BY <2>1
  <2>3. Len(ps) # 0
    BY <2>2, <1>5, EmptySeq
  <2>4. Len(ps) \in 1..Len(ps)
    BY <2>2, <2>3
  <2>5. QED
    BY <2>2, <2>4, ElementOfSeq
<1> DEFINE last == RouteResult(r, ps[Len(ps)], serve.pods)
           routable == {i \in 1..Len(ps) : RouteResult(r, ps[i], serve.pods) = None}
<1>7. CASE target[r] \in Pods /\ serve' = picked(None) /\ UNCHANGED target
  <2>1. target[r] # None
    BY <1>7, Assumptions DEF None
  <2>2. QED
    BY <1>1, <1>2, <1>3, <1>4, <1>7, <2>1 DEF TryPicks, Picked
<1>8. CASE /\ target[r] = None
           /\ \E i \in routable : \E p \in LeastLoaded(Open(ps[i], serve.pods)) :
                target' = [target EXCEPT ![r] = p]
           /\ serve' = picked(None)
  <2>1. \E p \in serve.pods : /\ DeploymentOf[p] \in ranks /\ HasRoom(p)
                              /\ target' = [target EXCEPT ![r] = p]
    <3> HIDE DEF ranks, r
    <3> QED BY <1>6, <1>8 DEF LeastLoaded, Open
  <2>2. QED
    BY <1>1, <1>2, <1>3, <1>4, <1>8, <2>1 DEF TryPicks, Picked
<1>9. CASE /\ target[r] = Error \/ (target[r] = None /\ routable = {})
           /\ serve' = IF last # Capacity THEN picked(last)
                       ELSE IF Len(serve.cands) > 1
                            THEN [serve EXCEPT !.cands = Tail(@)]
                            ELSE Idle
           /\ UNCHANGED target
  <2>1. CASE last # Capacity
    <3>1. last \in {None, SLOFailure}
      BY <2>1 DEF RouteResult
    <3>2. last = None => target[r] # None
      BY <1>6, <1>9 DEF Error, None
    <3>3. QED
      BY <1>1, <1>2, <1>3, <1>4, <1>9, <2>1, <3>1, <3>2 DEF TryPicks, Picked
  <2>2. CASE last = Capacity
    BY <1>1, <1>2, <1>3, <1>4, <1>6, <1>9, <2>2 DEF TryPasses
  <2>3. QED
    BY <2>1, <2>2
<1>10. QED
  BY <1>5, <1>7, <1>8, <1>9

-----------------------------------------------------------------------------
(* The load of a pod.                                                      *)

\* A running request is counted, so giving its load back (donePodStats) does
\* not go below zero.
LEMMA RunningCounts ==
  ASSUME IInv, NEW r \in Requests, stage[r] = "running"
  PROVE  /\ target[r] \in Pods
         /\ Weighs(r, target[r]) =>
              r \in Counting(target[r]) /\ load[target[r]] - 1 \in Nat
<1>1. target[r] \in Pods /\ (Weighs(r, target[r]) => r \in Counting(target[r]))
  BY DEF IInv, RequestInv, Counting
<1>2. load[target[r]] = Cardinality(Counting(target[r]))
  BY <1>1 DEF IInv, LoadIsTheRunning
<1>3. IsFiniteSet(Counting(target[r]))
  <2>1. Counting(target[r]) \subseteq Requests
    BY DEF IInv, TypeOK, Counting
  <2>2. QED
    BY <2>1, Assumptions, FS_Subset
<1>4. ASSUME Weighs(r, target[r]) PROVE Cardinality(Counting(target[r])) - 1 \in Nat
  <2>1. Cardinality(Counting(target[r])) \in Nat
    BY <1>3, FS_CardinalityType
  <2>2. Cardinality(Counting(target[r])) # 0
    BY <1>1, <1>3, <1>4, FS_EmptySet
  <2>3. QED
    BY <2>1, <2>2
<1>5. QED
  BY <1>1, <1>2, <1>4

-----------------------------------------------------------------------------
(* Types.                                                                  *)

\* The initial state has its types.
LEMMA TypeInit == Init => TypeOK
<1> SUFFICES ASSUME Init PROVE TypeOK
  OBVIOUS
<1>1. /\ stage \in [Requests -> Stages] /\ list \in [Requests -> SUBSET Pods]
      /\ target \in [Requests -> Pods \cup {None, Error}] /\ counted \subseteq Requests
      /\ load \in [Pods -> Nat] /\ subs \in [SubKeys -> Seq(Requests)]
  BY DEF Init, Stages
<1>2. /\ trigger \subseteq Pods /\ profiled \subseteq Deployments
      /\ gauge \in Nat /\ panics \in 0..MaxPanics
  BY Assumptions DEF Init
<1>4. stalled \in BOOLEAN
  BY Zenon DEF Init
<1>3. serve \in [step : Steps, pods : SUBSET Pods, entry : Requests \cup {None},
                 sub : SubKeys \cup {None}, err : {None, SLOFailure},
                 cands : Seq(SubKeys)]
  BY EmptySeq DEF Init, Idle, Steps
<1>5. QED
  BY <1>1, <1>2, <1>3, <1>4 DEF TypeOK

\* The steps of the goroutines of the requests keep the types.
LEMMA TypeRequest ==
  ASSUME IInv, NEW r \in Requests, RequestStep(r) \/ Progress(r)
  PROVE  TypeOK'
<1> USE DEF TypeOK, Stages
<1>0. TypeOK
  BY DEF IInv
<1>1. ASSUME NEW pods \in PodLists, Enqueue(r, pods) PROVE TypeOK'
  <2>1. KeyOf[r] \in SubKeys /\ pods \in SUBSET Pods
    BY Assumptions
  <2>2. Append(subs[KeyOf[r]], r) \in Seq(Requests)
    BY <2>1, <1>0
  <2>3. QED
    BY <2>1, <2>2, <1>0, <1>1 DEF Enqueue
<1>2. CASE EnqueueFails(r)
  BY <1>2, <1>0 DEF EnqueueFails
<1>3. CASE Cancel(r)
  BY <1>3, <1>0 DEF Cancel
<1>4. CASE ReportAndTrigger(r)
  BY <1>4, <1>0, TotalLenNat DEF ReportAndTrigger, tryRoute
<1>5. CASE Wake(r)
  <2>1. load \in [Pods -> Nat] /\ counted \subseteq Requests
    BY <1>0
  <2>2. AddRequestCount(r, target)
    BY <1>5 DEF Wake
  <2>3. counted' \subseteq Requests
    BY <2>1, <2>2 DEF AddRequestCount
  <2>4. load' \in [Pods -> Nat]
    <3>1. CASE target[r] \in Pods /\ r \notin counted /\ Weighs(r, target[r])
      BY <3>1, <2>1, <2>2 DEF AddRequestCount
    <3>2. CASE ~(target[r] \in Pods /\ r \notin counted /\ Weighs(r, target[r]))
      BY <3>2, <2>1, <2>2 DEF AddRequestCount
    <3>3. QED
      BY <3>1, <3>2
  <2>5. stage' \in [Requests -> Stages]
    BY <1>5, <1>0 DEF Wake
  <2>6. QED
    BY <1>5, <1>0, <2>3, <2>4, <2>5 DEF Wake
<1>6. CASE donePodStats(r)
  <2>1. target[r] \in Pods /\ (Weighs(r, target[r]) => load[target[r]] - 1 \in Nat)
    BY <1>6, RunningCounts DEF donePodStats
  <2>2. load' \in [Pods -> Nat] /\ stage' \in [Requests -> Stages]
    BY <1>6, <1>0, <2>1 DEF donePodStats
  <2>3. QED
    BY <1>6, <1>0, <2>2 DEF donePodStats
<1>7. CASE Notify(r)
  BY <1>7, <1>0 DEF Notify, tryRoute
<1>8. QED
  BY <1>1, <1>2, <1>3, <1>4, <1>5, <1>6, <1>7 DEF RequestStep, Progress

ServeType == [step : Steps, pods : SUBSET Pods, entry : Requests \cup {None},
              sub : SubKeys \cup {None}, err : {None, SLOFailure},
              cands : Seq(SubKeys)]

\* The serve goroutine at rest has its type.
LEMMA IdleType == Idle \in ServeType
BY EmptySeq DEF Idle, ServeType, Steps

\* The picked subqueue is one of the queue's, and holds its entry.
LEMMA PickedFacts ==
  ASSUME TypeOK, ServeInv, serve.step \in {"route", "dequeue"}
  PROVE  /\ serve.sub \in SubKeys /\ serve.entry \in Requests
         /\ subs[serve.sub] \in Seq(Requests) /\ subs[serve.sub] # << >>
         /\ serve.entry = subs[serve.sub][1] /\ 1 \in 1..Len(subs[serve.sub])
         /\ Tail(subs[serve.sub]) \in Seq(Requests)
<1>1. /\ serve.sub \in SubKeys /\ serve.entry \in Requests
      /\ subs[serve.sub] \in Seq(Requests) /\ subs[serve.sub] # << >>
      /\ Head(subs[serve.sub]) = serve.entry
  BY DEF TypeOK, ServeInv
<1>2. QED
  BY <1>1, TailFacts

\* The steps of the serve goroutine keep the types.
LEMMA TypeServe ==
  ASSUME IInv, ServeStep
  PROVE  TypeOK'
<1>0. TypeOK /\ ServeInv /\ serve \in ServeType
  BY DEF IInv, TypeOK, ServeType
<1> SUFFICES
      /\ target' \in [Requests -> Pods \cup {None, Error}] /\ counted' \subseteq Requests
      /\ load' \in [Pods -> Nat] /\ subs' \in [SubKeys -> Seq(Requests)]
      /\ trigger' \subseteq Pods /\ serve' \in ServeType /\ gauge' \in Nat
      /\ stalled' \in BOOLEAN
  BY <1>0 DEF TypeOK, ServeType, ServeStep, Receive, Peek, TryCandidate, RouteCandidate,
              Dequeue, Report, reqVars
<1>1. CASE Receive
  BY <1>0, <1>1, EmptySeq DEF Receive, TypeOK, ServeType, Steps, Idle, reqVars
<1>2. CASE Peek
  <2>1. UNCHANGED <<target, counted, load, subs, trigger, gauge, stalled>>
    BY <1>2 DEF Peek, reqVars
  <2> DEFINE ranked == RankedHeads(serve.pods)
  <2>2. IsFiniteSet(ranked) /\ ranked \subseteq SubKeys
    BY RankedFacts
  <2>3. CASE serve' = Idle
    BY <1>0, <2>1, <2>3, IdleType DEF TypeOK
  <2>4. ASSUME NEW k \in Heads, serve' = [serve EXCEPT !.step = "route", !.sub = k,
                                       !.entry = Head(subs[k])]
        PROVE  serve' \in ServeType
    <3>1. subs[k] \in Seq(Requests) /\ subs[k] # << >> /\ k \in SubKeys
      BY <1>0 DEF Heads, TypeOK
    <3>2. Head(subs[k]) \in Requests
      BY <3>1, TailFacts
    <3>3. QED
      BY <1>0, <2>4, <3>1, <3>2 DEF ServeType, Steps
  <2>5. ASSUME NEW order \in SetToSeqs(ranked),
               serve' = [serve EXCEPT !.step = "try", !.cands = order]
        PROVE  serve' \in ServeType
    <3> HIDE DEF ranked
    <3>1. order \in Seq(ranked)
      BY <2>2, OrderFacts
    <3>2. order \in Seq(SubKeys)
      BY <2>2, <3>1, SeqMonotonic
    <3>3. QED
      BY <1>0, <2>5, <3>2 DEF ServeType, Steps
  <2>6. QED
    BY <1>0, <1>2, <2>1, <2>3, <2>4, <2>5 DEF Peek, TypeOK
<1>3. CASE TryCandidate
  <2> DEFINE k == Head(serve.cands)
  <2>1. UNCHANGED <<counted, load, subs, trigger, gauge, stalled>>
    BY <1>3 DEF TryCandidate
  <2>2. /\ k \in SubKeys /\ Head(subs[k]) \in Requests /\ serve.cands # << >>
        /\ TryPicks(k) \/ TryPasses(k)
    BY <1>0, <1>3, TryCases
  <2>3. serve.pods \subseteq Pods /\ serve.cands \in Seq(SubKeys) /\ << >> \in Seq(SubKeys)
    BY <1>0, EmptySeq DEF ServeType
  <2>4. Tail(serve.cands) \in Seq(SubKeys)
    BY <2>2, <2>3, TailFacts
  <2> HIDE DEF k
  <2>5. CASE TryPicks(k)
    <3>1. target' \in [Requests -> Pods \cup {None, Error}]
      BY <1>0, <2>2, <2>3, <2>5 DEF TryPicks, TypeOK
    <3>2. PICK e \in {None, SLOFailure} : Picked(k, e)
      BY <2>5 DEF TryPicks
    <3>3. serve' \in ServeType
      BY <1>0, <2>2, <2>3, <3>2 DEF Picked, ServeType, Steps
    <3>4. QED
      BY <1>0, <2>1, <3>1, <3>3 DEF TypeOK
  <2>6. CASE TryPasses(k)
    <3>1. serve' \in ServeType
      BY <1>0, <2>4, <2>6, IdleType DEF TryPasses, ServeType, Steps
    <3>2. QED
      BY <1>0, <2>1, <2>6, <3>1 DEF TypeOK, TryPasses
  <2>7. QED
    BY <2>2, <2>5, <2>6
<1>4. CASE RouteCandidate
  <2>1. serve.entry \in Requests /\ serve.pods \subseteq Pods
    BY <1>0, <1>4, PickedFacts DEF RouteCandidate, ServeType
  <2>2. target' \in [Requests -> Pods \cup {None, Error}]
    BY <1>0, <1>4, <2>1 DEF RouteCandidate, TypeOK
  <2>3. counted' \subseteq Requests /\ load' \in [Pods -> Nat]
    <3>1. CASE UNCHANGED <<counted, load>>
      BY <1>0, <3>1 DEF TypeOK
    <3>2. CASE AddRequestCount(serve.entry, target')
      <4> DEFINE q == target'[serve.entry]
      <4>1. \/ /\ q \in Pods /\ counted' = counted \cup {serve.entry}
               /\ load' = IF Weighs(serve.entry, q)
                          THEN [load EXCEPT ![q] = @ + 1] ELSE load
            \/ UNCHANGED <<counted, load>>
        BY <3>2 DEF AddRequestCount
      <4> HIDE DEF q
      <4>2. counted \subseteq Requests /\ load \in [Pods -> Nat]
        BY <1>0 DEF TypeOK
      <4>3. load' \in [Pods -> Nat]
        BY <4>1, <4>2
      <4>4. QED
        BY <2>1, <4>1, <4>2, <4>3
    <3>3. QED
      BY <1>4, <3>1, <3>2 DEF RouteCandidate
  <2>4. serve' \in ServeType
    BY <1>0, <1>4 DEF RouteCandidate, ServeType, Steps
  <2>5. QED
    BY <1>0, <1>4, <2>2, <2>3, <2>4 DEF RouteCandidate, TypeOK
<1>5. CASE Dequeue
  <2>1. serve.sub \in SubKeys /\ Tail(subs[serve.sub]) \in Seq(Requests)
    BY <1>0, <1>5, PickedFacts DEF Dequeue
  <2>2. serve' \in ServeType
    BY <1>0, <1>5 DEF Dequeue, ServeType, Steps
  <2>3. QED
    BY <1>0, <1>5, <2>1, <2>2 DEF Dequeue, Leaves, TypeOK
<1>6. CASE Report
  <2>1. serve' \in ServeType
    BY <1>0, <1>6 DEF Report, ServeType, Steps
  <2>2. QED
    BY <1>0, <1>6, <2>1, TotalLenNat DEF Report, reqVars, TypeOK
<1>7. QED
  BY <1>1, <1>2, <1>3, <1>4, <1>5, <1>6 DEF ServeStep

\* The recovered panics keep the types.
LEMMA TypePanic ==
  ASSUME IInv, PanicStep
  PROVE  TypeOK'
<1>0. TypeOK /\ ServeInv /\ serve \in ServeType /\ MaxPanics \in Nat
  BY Assumptions DEF IInv, TypeOK, ServeType
<1>1. CASE PeekPanics
  BY <1>0, <1>1, IdleType DEF PeekPanics, TypeOK, ServeType, reqVars
<1>2. ASSUME RoutePanics \/ DequeuePanics PROVE TypeOK'
  <2>1. /\ serve.sub \in SubKeys /\ serve.entry \in Requests
        /\ subs[serve.sub] # << >> /\ Tail(subs[serve.sub]) \in Seq(Requests)
    BY <1>0, <1>2, PickedFacts DEF RoutePanics, DequeuePanics
  <2>2. TotalLen \in Nat /\ TotalLen - 1 \in Nat
    BY <1>0, <2>1, TotalLenNat, TotalLenPositive
  <2>3. target' \in [Requests -> Pods \cup {None, Error}] /\ gauge' \in Nat
    BY <1>0, <1>2, <2>1, <2>2 DEF RoutePanics, DequeuePanics, FailEntry, TypeOK
  <2>4. subs' \in [SubKeys -> Seq(Requests)]
    BY <1>0, <1>2, <2>1 DEF RoutePanics, DequeuePanics, Leaves, TypeOK
  <2>5. serve' \in ServeType
    BY <1>0, <1>2, IdleType, EmptySeq DEF RoutePanics, DequeuePanics, ServeType, Idle, Steps
  <2>6. stalled' \in BOOLEAN
    BY <1>0, <1>2, Zenon DEF RoutePanics, DequeuePanics, TypeOK
  <2>7. panics' \in 0..MaxPanics
    BY <1>0, <1>2 DEF RoutePanics, DequeuePanics, TypeOK
  <2>8. UNCHANGED <<stage, list, counted, load, trigger, profiled>>
    BY <1>2 DEF RoutePanics, DequeuePanics
  <2>9. QED
    BY <1>0, <2>3, <2>4, <2>5, <2>6, <2>7, <2>8 DEF TypeOK, ServeType
<1>3. QED
  BY <1>1, <1>2 DEF PanicStep

-----------------------------------------------------------------------------
(* The invariant, part by part.                                            *)

\* What the serve goroutine holds stays queued through the steps of the
\* requests: only Enqueue touches a subqueue, and at its other end.
LEMMA ServeInvRequest ==
  ASSUME IInv, NEW r \in Requests, RequestStep(r) \/ Progress(r)
  PROVE  ServeInv'
<1>0. TypeOK /\ ServeInv
  BY DEF IInv
<1>1. ASSUME NEW pods \in PodLists, Enqueue(r, pods) PROVE ServeInv'
  <2>1. KeyOf[r] \in SubKeys
    BY Assumptions
  <2>2. ASSUME NEW k \in SubKeys, subs[k] # << >>
        PROVE  subs'[k] # << >> /\ Head(subs'[k]) = Head(subs[k])
    <3>1. subs[k] \in Seq(Requests) /\ subs[KeyOf[r]] \in Seq(Requests)
      BY <1>0, <2>1 DEF TypeOK
    <3>2. CASE k = KeyOf[r]
      <4>1. subs'[k] = Append(subs[k], r)
        BY <1>0, <1>1, <2>1, <3>2 DEF Enqueue, TypeOK
      <4>2. QED
        BY <3>1, <4>1, <2>2, AppendFacts
    <3>3. CASE k # KeyOf[r]
      BY <1>0, <1>1, <2>2, <3>3 DEF Enqueue, TypeOK
    <3>4. QED
      BY <3>2, <3>3
  <2>3. serve' = serve /\ serve.cands \in Seq(SubKeys)
    BY <1>0, <1>1 DEF Enqueue, TypeOK
  <2>4. \A i \in 1..Len(serve.cands) : serve.cands[i] \in SubKeys
    BY <2>3, ElementOfSeq
  <2>5. QED
    BY <1>0, <2>2, <2>3, <2>4 DEF ServeInv
<1>2. ASSUME UNCHANGED <<subs, serve>> PROVE ServeInv'
  BY <1>0, <1>2 DEF ServeInv
<1>3. QED
  BY <1>1, <1>2 DEF RequestStep, Progress, EnqueueFails, Cancel, ReportAndTrigger, Wake,
                    donePodStats, Notify

\* Whatever the serve goroutine picks is the head of a subqueue.
LEMMA ServeInvServe ==
  ASSUME IInv, ServeStep \/ PanicStep
  PROVE  ServeInv'
<1>0. TypeOK /\ ServeInv
  BY DEF IInv
<1>1. ASSUME serve'.step \notin {"route", "dequeue", "try"} PROVE ServeInv'
  BY <1>1 DEF ServeInv
<1>2. CASE Receive
  BY <1>1, <1>2 DEF Receive, Idle
<1>3. CASE Peek
  <2> DEFINE ranked == RankedHeads(serve.pods)
  <2>1. subs' = subs /\ ranked \subseteq Heads /\ IsFiniteSet(ranked)
    BY <1>3, RankedFacts DEF Peek
  <2>2. CASE serve' = Idle
    BY <1>1, <2>2 DEF Idle
  <2>3. ASSUME NEW k \in Heads,
               serve' = [serve EXCEPT !.step = "route", !.sub = k, !.entry = Head(subs[k])]
        PROVE  ServeInv'
    <3>1. k \in SubKeys /\ subs[k] # << >> /\ subs[k] \in Seq(Requests)
      BY <1>0 DEF Heads, TypeOK
    <3>2. Head(subs[k]) \in Requests
      BY <3>1, TailFacts
    <3>3. serve'.step = "route" /\ serve'.sub = k /\ serve'.entry = Head(subs[k])
      BY <1>0, <2>3 DEF TypeOK
    <3>4. QED
      BY <2>1, <3>1, <3>2, <3>3 DEF ServeInv
  <2>4. ASSUME ranked # {}, NEW order \in SetToSeqs(ranked),
               serve' = [serve EXCEPT !.step = "try", !.cands = order]
        PROVE  ServeInv'
    <3>1. serve'.step = "try" /\ serve'.cands = order
      BY <1>0, <2>4 DEF TypeOK
    <3> HIDE DEF ranked
    <3>2. order \in Seq(ranked) /\ order # << >>
      BY <2>1, <2>4, OrderFacts
    <3>3. \A i \in 1..Len(order) : order[i] \in Heads
      BY <2>1, <3>2, ElementOfSeq
    <3>4. QED
      BY <2>1, <3>1, <3>2, <3>3 DEF ServeInv, Heads
  <2>5. QED
    BY <1>3, <2>2, <2>3, <2>4 DEF Peek
<1>4. CASE TryCandidate
  <2> DEFINE k == Head(serve.cands)
  <2>1. /\ k \in SubKeys /\ Head(subs[k]) \in Requests /\ subs[k] # << >>
        /\ serve.cands # << >>
        /\ TryPicks(k) \/ TryPasses(k)
    BY <1>0, <1>4, TryCases
  <2>2. subs' = subs /\ serve.step = "try" /\ serve.cands \in Seq(SubKeys)
    BY <1>0, <1>4 DEF TryCandidate, TypeOK
  <2> HIDE DEF k
  <2>3. CASE TryPicks(k)
    <3>1. PICK e \in {None, SLOFailure} : Picked(k, e)
      BY <2>3 DEF TryPicks
    <3>2. serve'.step = "route" /\ serve'.sub = k /\ serve'.entry = Head(subs[k])
      BY <1>0, <3>1 DEF Picked, TypeOK
    <3>3. QED
      BY <2>1, <2>2, <3>2 DEF ServeInv
  <2>4. CASE TryPasses(k)
    <3>1. CASE serve' = Idle
      BY <1>1, <3>1 DEF Idle
    <3>2. CASE Len(serve.cands) > 1 /\ serve' = [serve EXCEPT !.cands = Tail(@)]
      <4>1. serve'.step = "try" /\ serve'.cands = Tail(serve.cands)
        BY <1>0, <2>2, <3>2 DEF TypeOK
      <4>2. /\ Tail(serve.cands) \in Seq(SubKeys)
            /\ Len(Tail(serve.cands)) = Len(serve.cands) - 1
            /\ \A i \in 1..Len(Tail(serve.cands)) :
                 i + 1 \in 1..Len(serve.cands) /\ Tail(serve.cands)[i] = serve.cands[i + 1]
        BY <2>1, <2>2, TailFacts
      <4>3. Tail(serve.cands) # << >>
        <5>1. Len(serve.cands) \in Nat
          BY <2>2, LenProperties
        <5>2. Len(serve.cands) > 1 /\ Len(Tail(serve.cands)) = Len(serve.cands) - 1
          BY <3>2, <4>2
        <5>3. Len(Tail(serve.cands)) # 0
          <6> DEFINE n == Len(serve.cands)
                     t == Len(Tail(serve.cands))
          <6>1. n \in Nat /\ n > 1 /\ t = n - 1
            BY <5>1, <5>2
          <6> HIDE DEF n, t
          <6>2. t # 0
            BY <6>1
          <6> QED BY <6>2 DEF t
        <5>4. QED
          BY <5>3, EmptySeq
      <4>4. \A i \in 1..Len(serve.cands) : subs[serve.cands[i]] # << >>
        BY <1>0, <2>2 DEF ServeInv
      <4>5. QED
        BY <2>2, <4>1, <4>2, <4>3, <4>4 DEF ServeInv
    <3>3. QED
      BY <2>4, <3>1, <3>2 DEF TryPasses
  <2>5. QED
    BY <2>1, <2>3, <2>4
<1>5. CASE RouteCandidate
  <2>1. /\ serve.step = "route" /\ serve'.step = "dequeue" /\ subs' = subs
        /\ serve'.sub = serve.sub /\ serve'.entry = serve.entry
    BY <1>0, <1>5 DEF RouteCandidate, TypeOK
  <2>2. QED
    BY <1>0, <2>1 DEF ServeInv
<1>6. CASE Dequeue
  BY <1>0, <1>1, <1>6 DEF Dequeue, TypeOK
<1>7. CASE Report
  BY <1>0, <1>1, <1>7 DEF Report, TypeOK
<1>8. CASE PanicStep
  <2>1. CASE serve' = Idle
    BY <1>1, <2>1 DEF Idle
  <2>2. CASE RoutePanics
    BY <1>1, <2>2 DEF RoutePanics, Idle
  <2>3. QED
    BY <1>8, <2>1, <2>2 DEF PanicStep, PeekPanics, DequeuePanics
<1>9. QED
  BY <1>2, <1>3, <1>4, <1>5, <1>6, <1>7, <1>8 DEF ServeStep

\* "Not set" and "error" are no pods.
LEMMA NoPod == None \notin Pods /\ Error \notin Pods /\ None # Error
BY Assumptions DEF None, Error

\* No step makes a request new, takes a target away, or changes the profiles.
LEMMA Monotone ==
  ASSUME IInv, Next
  PROVE  /\ profiled' = profiled
         /\ \A q \in Requests : /\ stage'[q] = "new" => stage[q] = "new" /\ target'[q] = target[q]
                                /\ target[q] # None => target'[q] = target[q]
<1>0. TypeOK /\ ServeInv /\ RequestInv /\ QueueInv
  BY DEF IInv
<1>1. ASSUME NEW r \in Requests, RequestStep(r) \/ Progress(r)
      PROVE  /\ profiled' = profiled
             /\ \A q \in Requests : /\ stage'[q] = "new" => stage[q] = "new" /\ target'[q] = target[q]
                                    /\ target[q] # None => target'[q] = target[q]
  <2>1. profiled' = profiled
    BY <1>1 DEF RequestStep, Progress, Enqueue, EnqueueFails, Cancel, ReportAndTrigger, Wake,
                donePodStats, Notify
  <2>2. \E st \in Stages \ {"new"} : stage' = [stage EXCEPT ![r] = st]
    BY <1>1 DEF RequestStep, Progress, Enqueue, EnqueueFails, Cancel, ReportAndTrigger, Wake,
                donePodStats, Notify, Stages
  <2>3. target' = target \/ (target[r] = None /\ target' = [target EXCEPT ![r] = Error])
    BY <1>0, <1>1 DEF RequestStep, Progress, Enqueue, EnqueueFails, Cancel, ReportAndTrigger, Wake,
                donePodStats, Notify, RequestInv
  <2>4. QED
    BY <1>0, <2>1, <2>2, <2>3 DEF TypeOK
<1>2. ASSUME ServeStep \/ PanicStep
      PROVE  /\ profiled' = profiled
             /\ \A q \in Requests : /\ stage'[q] = "new" => stage[q] = "new" /\ target'[q] = target[q]
                                    /\ target[q] # None => target'[q] = target[q]
  <2>1. profiled' = profiled /\ stage' = stage
    BY <1>2 DEF ServeStep, PanicStep, Receive, Peek, TryCandidate, RouteCandidate, Dequeue, Report,
                PeekPanics, RoutePanics, DequeuePanics, reqVars
  <2>2. ASSUME NEW k \in SubKeys, subs[k] # << >>
        PROVE  Head(subs[k]) \in Requests /\ stage[Head(subs[k])] # "new"
    <3>1. subs[k] \in Seq(Requests)
      BY <1>0 DEF TypeOK
    <3>2. Head(subs[k]) \in Requests /\ Head(subs[k]) = subs[k][1] /\ 1 \in 1..Len(subs[k])
      BY <2>2, <3>1, TailFacts
    <3>3. QED
      BY <1>0, <3>2 DEF QueueInv
  <2>3. \/ target' = target
        \/ \E q \in Requests : /\ stage[q] # "new" /\ target[q] = None
                               /\ \E t : target' = [target EXCEPT ![q] = t]
    <3>1. CASE UNCHANGED target
      BY <3>1
    <3>2. CASE TryCandidate
      <4> DEFINE k == Head(serve.cands)
      <4>1. k \in SubKeys /\ subs[k] # << >> /\ (TryPicks(k) \/ TryPasses(k))
        BY <1>0, <3>2, TryCases
      <4> HIDE DEF k
      <4>2. Head(subs[k]) \in Requests /\ stage[Head(subs[k])] # "new"
        BY <2>2, <4>1
      <4>3. QED
        BY <4>1, <4>2 DEF TryPicks, TryPasses
    <3>3. CASE RouteCandidate \/ RoutePanics \/ DequeuePanics
      <4>1. serve.sub \in SubKeys /\ subs[serve.sub] # << >> /\ Head(subs[serve.sub]) = serve.entry
        BY <1>0, <3>3 DEF ServeInv, RouteCandidate, RoutePanics, DequeuePanics
      <4>2. serve.entry \in Requests /\ stage[serve.entry] # "new"
        BY <2>2, <4>1
      <4>3. \E t : target' = [target EXCEPT ![serve.entry] = IF @ = None THEN t ELSE @]
        BY <3>3 DEF RouteCandidate, RoutePanics, DequeuePanics, FailEntry
      <4>4. QED
        BY <1>0, <4>2, <4>3 DEF TypeOK
    <3>4. QED
      BY <1>2, <3>1, <3>2, <3>3 DEF ServeStep, PanicStep, Receive, Peek, Dequeue, Report,
                                    PeekPanics, reqVars
  <2>4. QED
    BY <1>0, <2>1, <2>3 DEF TypeOK
<1>3. QED
  BY <1>1, <1>2 DEF Next

\* Only requests that were enqueued are in a subqueue.
LEMMA QueueInvStep ==
  ASSUME IInv, Next
  PROVE  QueueInv'
<1>0. TypeOK /\ ServeInv /\ QueueInv
  BY DEF IInv
<1>1. ASSUME NEW k \in SubKeys, NEW i \in 1..Len(subs[k])
      PROVE  subs[k][i] \in Requests /\ stage'[subs[k][i]] # "new"
  <2>1. subs[k] \in Seq(Requests)
    BY <1>0 DEF TypeOK
  <2>2. subs[k][i] \in Requests
    BY <2>1, ElementOfSeq
  <2>3. QED
    BY <1>0, <2>2, Monotone DEF QueueInv
<1>2. ASSUME UNCHANGED subs PROVE QueueInv'
  BY <1>1, <1>2 DEF QueueInv
<1>3. ASSUME NEW r \in Requests, NEW pods \in PodLists, Enqueue(r, pods)
      PROVE  QueueInv'
  <2>1. KeyOf[r] \in SubKeys /\ stage'[r] # "new"
    BY <1>0, <1>3, Assumptions DEF Enqueue, TypeOK
  <2>2. ASSUME NEW k \in SubKeys, NEW i \in 1..Len(subs'[k])
        PROVE  stage'[subs'[k][i]] # "new"
    <3>1. CASE k # KeyOf[r]
      BY <1>0, <1>1, <1>3, <3>1 DEF Enqueue, TypeOK
    <3>2. CASE k = KeyOf[r]
      <4>1. subs'[k] = Append(subs[k], r) /\ subs[k] \in Seq(Requests)
        BY <1>0, <1>3, <2>1, <3>2 DEF Enqueue, TypeOK
      <4>2. subs'[k][i] = r \/ (i \in 1..Len(subs[k]) /\ subs'[k][i] = subs[k][i])
        BY <4>1, AppendFacts
      <4>3. QED
        BY <1>1, <2>1, <4>2
    <3>3. QED
      BY <3>1, <3>2
  <2>3. QED
    BY <2>2 DEF QueueInv
<1>4. ASSUME serve.step \in {"route", "dequeue"}, Leaves(serve.sub) PROVE QueueInv'
  <2>1. /\ serve.sub \in SubKeys /\ subs[serve.sub] \in Seq(Requests)
        /\ subs[serve.sub] # << >>
    BY <1>0, <1>4, PickedFacts
  <2>2. ASSUME NEW k \in SubKeys, NEW i \in 1..Len(subs'[k])
        PROVE  stage'[subs'[k][i]] # "new"
    <3>1. CASE k # serve.sub
      BY <1>0, <1>1, <1>4, <3>1 DEF Leaves, TypeOK
    <3>2. CASE k = serve.sub
      <4>1. subs'[k] = Tail(subs[k])
        BY <1>0, <1>4, <2>1, <3>2 DEF Leaves, TypeOK
      <4>2. i + 1 \in 1..Len(subs[k]) /\ subs'[k][i] = subs[k][i + 1]
        BY <2>1, <3>2, <4>1, TailFacts
      <4>3. QED
        BY <1>1, <4>2
    <3>3. QED
      BY <3>1, <3>2
  <2>3. QED
    BY <2>2 DEF QueueInv
<1>5. QED
  BY <1>2, <1>3, <1>4 DEF Next, RequestStep, Progress, EnqueueFails, Cancel, ReportAndTrigger,
     Wake, donePodStats, Notify, ServeStep, Receive, Peek, TryCandidate, RouteCandidate, Dequeue,
     Report, PanicStep, PeekPanics, RoutePanics, DequeuePanics

\* The fallback router only sees candidates no profile of the list ranks.
LEMMA RouteInvStep ==
  ASSUME IInv, Next
  PROVE  RouteInv'
<1>0. TypeOK /\ ServeInv /\ RouteInv
  BY DEF IInv
<1> SUFFICES ASSUME serve'.step = "route", serve'.err = None, target'[serve'.entry] = None
             PROVE  Ranks(serve'.entry, serve'.pods) = {}
  BY Monotone DEF RouteInv, Ranks, Profiles
<1>1. CASE UNCHANGED serve
  <2>1. serve.step = "route" /\ serve.entry \in Requests
    BY <1>0, <1>1 DEF ServeInv
  <2>2. target[serve.entry] = None
    BY <1>1, <2>1, Monotone
  <2>3. QED
    BY <1>0, <1>1, <2>1, <2>2 DEF RouteInv
<1>2. CASE Peek
  <2>1. CASE serve' = Idle
    BY <2>1 DEF Idle
  <2>2. ASSUME RankedHeads(serve.pods) = {}, NEW k \in Heads,
               serve' = [serve EXCEPT !.step = "route", !.sub = k, !.entry = Head(subs[k])]
        PROVE  Ranks(serve'.entry, serve'.pods) = {}
    <3>1. serve'.entry = Head(subs[k]) /\ serve'.pods = serve.pods
      BY <1>0, <2>2 DEF TypeOK
    <3>2. Ranks(Head(subs[k]), serve.pods) = {}
      BY <2>2 DEF RankedHeads
    <3>3. QED
      BY <3>1, <3>2
  <2>3. ASSUME NEW order, serve' = [serve EXCEPT !.step = "try", !.cands = order]
        PROVE  FALSE
    BY <1>0, <2>3 DEF TypeOK
  <2>4. QED
    BY <1>2, <2>1, <2>2, <2>3 DEF Peek
<1>3. CASE TryCandidate
  <2> DEFINE k == Head(serve.cands)
  <2>1. /\ Head(subs[k]) \in Requests /\ serve.step = "try"
        /\ TryPicks(k) \/ TryPasses(k)
    BY <1>0, <1>3, TryCases
  <2> HIDE DEF k
  <2>2. CASE TryPicks(k)
    <3>1. PICK e \in {None, SLOFailure} : Picked(k, e)
      BY <2>2 DEF TryPicks
    <3>2. serve'.entry = Head(subs[k]) /\ serve'.err = e
      BY <1>0, <3>1 DEF Picked, TypeOK
    <3>3. target'[Head(subs[k])] = None
      BY <3>2
    <3>4. target[Head(subs[k])] = None
      BY <2>1, <3>3, Monotone
    <3>5. PICK p \in serve.pods : target' = [target EXCEPT ![Head(subs[k])] = p]
      <4>1. ASSUME NEW f \in {None, SLOFailure}, Picked(k, f) PROVE f = None
        BY <1>0, <4>1 DEF Picked, TypeOK
      <4>2. QED
        BY <2>2, <3>4, <4>1 DEF TryPicks
    <3>6. p \in Pods
      BY <1>0, <3>5 DEF TypeOK
    <3>7. QED
      BY <1>0, <2>1, <3>3, <3>5, <3>6, NoPod DEF TypeOK
  <2>3. CASE TryPasses(k)
    <3>1. CASE serve' = Idle
      BY <3>1 DEF Idle
    <3>2. CASE serve' = [serve EXCEPT !.cands = Tail(@)]
      BY <1>0, <2>1, <3>2 DEF TypeOK
    <3>3. QED
      BY <2>3, <3>1, <3>2 DEF TryPasses
  <2>4. QED
    BY <2>1, <2>2, <2>3
<1>4. CASE Receive \/ RouteCandidate \/ Dequeue \/ Report
  BY <1>0, <1>4 DEF Receive, RouteCandidate, Dequeue, Report, TypeOK, Idle
<1>5. CASE PeekPanics \/ DequeuePanics
  <2>1. serve' = Idle
    BY <1>5 DEF PeekPanics, DequeuePanics
  <2>2. QED
    BY <2>1 DEF Idle
<1>6. CASE RoutePanics
  BY <1>6 DEF RoutePanics, Idle
<1>7. QED
  BY <1>1, <1>2, <1>3, <1>4, <1>5, <1>6 DEF Next, RequestStep, Progress, Enqueue, EnqueueFails,
     Cancel, ReportAndTrigger, Wake, donePodStats, Notify, ServeStep, PanicStep

\* A request is counted once it has a pod, by the serve goroutine or by its own.
LEMMA RequestInvStep ==
  ASSUME IInv, Next
  PROVE  RequestInv'
<1>0. /\ RequestInv /\ stage \in [Requests -> Stages] /\ counted \subseteq Requests
      /\ target \in [Requests -> Pods \cup {None, Error}]
      /\ TypeOK /\ ServeInv
  BY DEF IInv, TypeOK
<1>1. ASSUME NEW r \in Requests, RequestStep(r) \/ Progress(r)
      PROVE  RequestInv'
  <2>1. serve' = serve
    BY <1>1 DEF RequestStep, Progress, Enqueue, EnqueueFails, Cancel, ReportAndTrigger, Wake,
                donePodStats, Notify
  <2> USE DEF RequestInv
  <2>2. ASSUME NEW pods, Enqueue(r, pods) PROVE RequestInv'
    BY <1>0, <2>1, <2>2 DEF Enqueue
  <2>3. CASE EnqueueFails(r)
    BY <1>0, <2>1, <2>3, NoPod DEF EnqueueFails
  <2>4. CASE Cancel(r)
    BY <1>0, <2>1, <2>4, NoPod DEF Cancel
  <2>5. CASE ReportAndTrigger(r)
    BY <1>0, <2>1, <2>5 DEF ReportAndTrigger
  <2>6. CASE Wake(r)
    BY <1>0, <2>1, <2>6, NoPod DEF Wake, AddRequestCount
  <2>7. CASE donePodStats(r)
    BY <1>0, <2>1, <2>7 DEF donePodStats
  <2>8. CASE Notify(r)
    BY <1>0, <2>1, <2>8 DEF Notify
  <2>9. QED
    BY <1>1, <2>2, <2>3, <2>4, <2>5, <2>6, <2>7, <2>8 DEF RequestStep, Progress
<1>2. CASE TryCandidate
  <2> DEFINE k == Head(serve.cands)
             r == Head(subs[k])
  <2>1. /\ r \in Requests /\ serve.step = "try"
        /\ TryPicks(k) \/ TryPasses(k)
    BY <1>0, <1>2, TryCases
  <2>2. UNCHANGED <<stage, counted>>
    BY <1>2 DEF TryCandidate
  <2>3. \A q \in Requests : target[q] \in Pods => q \in counted
    BY <1>0, <2>1 DEF RequestInv
  <2>4. CASE target' = target
    BY <1>0, <2>2, <2>3, <2>4 DEF RequestInv
  <2>5. ASSUME target[r] = None, Picked(k, None), NEW p \in serve.pods,
               target' = [target EXCEPT ![r] = p]
        PROVE  RequestInv'
    <3>1. serve'.step = "route" /\ serve'.entry = r /\ serve'.err = None
      BY <1>0, <2>5 DEF Picked, TypeOK
    <3>2. p \in Pods /\ r \notin counted
      BY <1>0, <2>1, <2>5, NoPod DEF TypeOK, RequestInv
    <3>3. stage[r] \notin {"new", "failed"}
      <4>1. stage'[r] = "new" => target'[r] = target[r]
        BY <2>1, Monotone
      <4>2. QED
        BY <1>0, <2>1, <2>2, <2>5, <3>2, <4>1, NoPod DEF RequestInv
    <3> HIDE DEF r, k
    <3>4. QED
      BY <1>0, <2>1, <2>2, <2>3, <2>5, <3>1, <3>2, <3>3 DEF RequestInv
  <2>6. QED
    BY <2>1, <2>4, <2>5 DEF TryPicks, TryPasses
<1>3. CASE RouteCandidate
  <2> DEFINE r == serve.entry
  <2>1. /\ r \in Requests /\ stage' = stage /\ serve.step = "route"
        /\ serve.pods \subseteq Pods
    BY <1>0, <1>3 DEF RouteCandidate, ServeInv, TypeOK
  <2>2. stage[r] # "new"
    BY <1>0, <2>1, PickedFacts DEF IInv, QueueInv
  <2>3. CASE serve.err # None
    BY <1>0, <1>3, <2>1, <2>2, <2>3, NoPod DEF RouteCandidate, RequestInv
  <2>4. CASE serve.err = None
    <3>1. PICK p \in serve.pods : target' = [target EXCEPT ![r] = IF @ = None THEN p ELSE @]
      BY <1>3, <2>4 DEF RouteCandidate
    <3>2. /\ target'[r] \in Pods \cup {Error}
          /\ target[r] # None => target'[r] = target[r]
          /\ \A q \in Requests \ {r} : target'[q] = target[q]
      BY <1>0, <2>1, <3>1
    <3>3. counted' = IF target'[r] \in Pods THEN counted \cup {r} ELSE counted
      BY <1>3, <2>4 DEF RouteCandidate, AddRequestCount
    <3> HIDE DEF r
    <3>4. stage[r] = "failed" => target[r] = Error
      BY <1>0, <2>1 DEF RequestInv
    <3>5. r \in counted => target[r] \in Pods
      BY <1>0, <2>1 DEF RequestInv
    <3>6. stage[r] \in {"running", "notifying", "done"} => r \in counted
      BY <1>0, <2>1 DEF RequestInv
    <3>7. ASSUME NEW q \in Requests \ {r}
          PROVE  target[q] \in Pods => q \in counted
      BY <1>0, <3>7 DEF RequestInv, r
    <3>8. QED
      BY <1>0, <2>1, <2>2, <3>2, <3>3, <3>4, <3>5, <3>6, <3>7, NoPod DEF RequestInv
  <2>5. QED
    BY <2>3, <2>4
<1>4. CASE RoutePanics \/ DequeuePanics
  <2>1. /\ serve.entry \in Requests /\ stage' = stage /\ counted' = counted
        /\ target' = [target EXCEPT ![serve.entry] = IF @ = None THEN Error ELSE @]
    BY <1>0, <1>4 DEF RoutePanics, DequeuePanics, FailEntry, ServeInv
  <2>2. stage[serve.entry] # "new"
    BY <1>0, <1>4, PickedFacts DEF IInv, QueueInv, RoutePanics, DequeuePanics
  <2>3. \A q \in Requests : target[q] \in Pods => q \in counted
    BY <1>0, <1>4 DEF RequestInv, RoutePanics, DequeuePanics
  <2>4. QED
    BY <1>0, <2>1, <2>2, <2>3, NoPod DEF RequestInv
<1>5. CASE Receive \/ Peek \/ Dequeue \/ Report \/ PeekPanics
  <2>1. UNCHANGED <<stage, target, counted>> /\ serve.step # "route"
    BY <1>5 DEF Receive, Peek, Dequeue, Report, PeekPanics, reqVars
  <2>2. QED
    BY <1>0, <2>1 DEF RequestInv
<1>6. QED
  BY <1>1, <1>2, <1>3, <1>4, <1>5 DEF Next, ServeStep, PanicStep

\* AddRequestCount counts a request on its pod once.
LEMMA LoadAdds ==
  ASSUME IInv, NEW r \in Requests, AddRequestCount(r, target'),
         \A q \in Requests \ {r} : stage'[q] = stage[q] /\ target'[q] = target[q],
         stage[r] \notin {"notifying", "done"}, stage'[r] \notin {"notifying", "done"},
         target[r] # None => target'[r] = target[r],
         profiled' = profiled, NEW p \in Pods
  PROVE  load'[p] = Cardinality(Counting(p)')
<1>0. /\ \A q : Weighs(q, p)' <=> Weighs(q, p)
  BY DEF Weighs
<1>5. /\ counted \subseteq Requests /\ load \in [Pods -> Nat]
      /\ load[p] = Cardinality(Counting(p))
      /\ \A q \in counted : target[q] \in Pods
  BY DEF IInv, TypeOK, RequestInv, LoadIsTheRunning
<1>1. IsFiniteSet(Counting(p))
  <2>1. Counting(p) \subseteq Requests
    BY <1>5 DEF Counting
  <2>2. QED
    BY <2>1, Assumptions, FS_Subset
<1>2. CASE target'[r] = p /\ Weighs(r, p) /\ r \notin counted
  <2>1. counted' = counted \cup {r} /\ load'[p] = load[p] + 1
    <3> DEFINE t == target'[r]
    <3>1. /\ counted' = counted \cup {r}
          /\ load' = IF Weighs(r, t) THEN [load EXCEPT ![t] = @ + 1] ELSE load
      BY <1>2 DEF AddRequestCount
    <3>2. t = p /\ Weighs(r, t)
      BY <1>2
    <3> HIDE DEF t
    <3>3. QED
      BY <1>5, <3>1, <3>2
  <2>2. Counting(p)' = Counting(p) \cup {r} /\ r \notin Counting(p)
    BY <1>0, <1>5, <1>2, <2>1 DEF Counting
  <2>3. Cardinality(Counting(p) \cup {r}) = Cardinality(Counting(p)) + 1
    BY <1>1, <2>2, FS_AddElement
  <2>4. QED
    BY <1>5, <2>1, <2>2, <2>3
<1>3. CASE ~(target'[r] = p /\ Weighs(r, p) /\ r \notin counted)
  <2>1. load'[p] = load[p]
    <3> DEFINE t == target'[r]
    <3>1. \/ load' = load
          \/ /\ t \in Pods /\ r \notin counted
             /\ load' = IF Weighs(r, t) THEN [load EXCEPT ![t] = @ + 1] ELSE load
      BY DEF AddRequestCount
    <3>2. r \notin counted /\ Weighs(r, t) => t # p
      BY <1>3
    <3> HIDE DEF t
    <3>3. QED
      BY <1>5, <3>1, <3>2
  <2>2. Counting(p)' = Counting(p)
    <3>1. counted' \subseteq counted \cup {r} /\ counted \subseteq counted'
      BY DEF AddRequestCount
    <3>2. r \in counted => target'[r] = target[r]
      BY <1>5, NoPod
    <3>3. QED
      BY <1>0, <1>5, <1>3, <3>1, <3>2 DEF Counting
  <2>3. QED
    BY <1>5, <2>1, <2>2
<1>4. QED
  BY <1>2, <1>3

\* A pod's load is the requests it carries, through every step.
LEMMA LoadStep ==
  ASSUME IInv, Next
  PROVE  LoadIsTheRunning'
<1>0. /\ counted \subseteq Requests /\ load \in [Pods -> Nat] /\ TypeOK /\ ServeInv
      /\ RequestInv
      /\ \A p \in Pods : load[p] = Cardinality(Counting(p))
  BY DEF IInv, TypeOK, LoadIsTheRunning
<1>1. /\ profiled' = profiled /\ RequestInv'
      /\ \A q, t : Weighs(q, t)' <=> Weighs(q, t)
  BY Monotone, RequestInvStep DEF Weighs
<1> SUFFICES ASSUME NEW p \in Pods
             PROVE  load'[p] = Cardinality(Counting(p)')
  <2>1. ASSUME NEW p \in Pods, NEW r \in Requests,
               stage'[r] = "running", target'[r] = p, Weighs(r, p)'
        PROVE  r \in Counting(p)'
    BY <1>1, <2>1 DEF RequestInv, Counting
  <2>2. QED
    BY <2>1 DEF LoadIsTheRunning
<1>2. ASSUME UNCHANGED <<counted, load>>,
             \A q \in counted : target'[q] = target[q],
             \A q \in counted : stage'[q] \in {"notifying", "done"} <=> stage[q] \in {"notifying", "done"}
      PROVE  load'[p] = Cardinality(Counting(p)')
  <2>1. Counting(p)' = Counting(p)
    BY <1>1, <1>2 DEF Counting
  <2>2. QED
    BY <1>0, <1>2, <2>1
<1>3. \A q \in counted : target'[q] = target[q]
  BY <1>0, Monotone, NoPod DEF RequestInv
<1>4. ASSUME NEW r \in Requests, RequestStep(r) \/ Progress(r)
      PROVE  load'[p] = Cardinality(Counting(p)')
  <2>0. stage \in [Requests -> Stages]
    BY <1>0 DEF TypeOK
  <2>1. CASE Wake(r)
    <3>1. /\ AddRequestCount(r, target') /\ target' = target
          /\ stage[r] = "waiting" /\ stage'[r] \in {"failed", "running"}
          /\ \A q \in Requests \ {r} : stage'[q] = stage[q] /\ target'[q] = target[q]
      BY <2>0, <2>1 DEF Wake
    <3>2. QED
      BY <1>1, <3>1, LoadAdds
  <2>2. CASE donePodStats(r)
    <3> DEFINE t == target[r]
    <3>1. t \in Pods /\ (Weighs(r, t) => r \in Counting(t)) /\ stage[r] = "running"
      BY <2>2, RunningCounts DEF donePodStats
    <3>2. /\ counted' = counted /\ target' = target /\ stage'[r] \in {"notifying", "done"}
          /\ \A q \in Requests \ {r} : stage'[q] = stage[q]
      BY <2>0, <2>2 DEF donePodStats
    <3>3. CASE t = p /\ Weighs(r, p)
      <4>1. load'[p] = load[p] - 1
        BY <1>0, <2>2, <3>3 DEF donePodStats
      <4>2. Counting(p)' = Counting(p) \ {r} /\ r \in Counting(p)
        BY <1>0, <1>1, <3>1, <3>2, <3>3 DEF Counting
      <4>3. IsFiniteSet(Counting(p))
        <5>1. Counting(p) \subseteq Requests
          BY <1>0 DEF Counting
        <5>2. QED
          BY <5>1, Assumptions, FS_Subset
      <4>4. Cardinality(Counting(p) \ {r}) = Cardinality(Counting(p)) - 1
        BY <4>2, <4>3, FS_RemoveElement
      <4>5. QED
        BY <1>0, <4>1, <4>2, <4>4
    <3>4. CASE ~(t = p /\ Weighs(r, p))
      <4>1. load'[p] = load[p]
        BY <1>0, <2>2, <3>1, <3>4 DEF donePodStats
      <4>2. Counting(p)' = Counting(p)
        BY <1>0, <1>1, <3>2, <3>4 DEF Counting
      <4>3. QED
        BY <1>0, <4>1, <4>2
    <3>5. QED
      BY <3>3, <3>4
  <2>3. CASE Notify(r)
    <3>1. UNCHANGED <<counted, load>> /\ stage[r] = "notifying" /\ stage' = [stage EXCEPT ![r] = "done"]
      BY <2>3 DEF Notify
    <3>2. \A q \in counted : stage'[q] \in {"notifying", "done"} <=> stage[q] \in {"notifying", "done"}
      BY <1>0, <2>0, <3>1
    <3>3. QED
      BY <1>2, <1>3, <3>1, <3>2
  <2>4. CASE (\E pods \in PodLists : Enqueue(r, pods)) \/ EnqueueFails(r) \/ Cancel(r)
             \/ ReportAndTrigger(r)
    <3>1. /\ UNCHANGED <<counted, load>>
          /\ stage[r] \notin {"notifying", "done"} /\ stage'[r] \notin {"notifying", "done"}
          /\ \A q \in Requests \ {r} : stage'[q] = stage[q]
      BY <2>0, <2>4 DEF Enqueue, EnqueueFails, Cancel, ReportAndTrigger
    <3>2. QED
      BY <1>0, <1>2, <1>3, <3>1
  <2>5. QED
    BY <1>4, <2>1, <2>2, <2>3, <2>4 DEF RequestStep, Progress
<1>5. CASE RouteCandidate /\ serve.err = None
  <2> DEFINE r == serve.entry
  <2>1. r \in Requests /\ stage' = stage /\ AddRequestCount(r, target')
    BY <1>0, <1>5 DEF RouteCandidate, ServeInv
  <2>2. \A q \in Requests \ {r} : target'[q] = target[q]
    BY <1>0, <1>5 DEF RouteCandidate, TypeOK
  <2>3. target[r] # None => target'[r] = target[r]
    BY <2>1, Monotone
  <2>4. CASE stage[r] \notin {"notifying", "done"}
    <3> HIDE DEF r
    <3>1. QED
      BY <1>1, <2>1, <2>2, <2>3, <2>4, LoadAdds
  <2>5. CASE stage[r] \in {"notifying", "done"}
    <3>1. r \in counted
      BY <1>0, <2>1, <2>5 DEF RequestInv
    <3>2. UNCHANGED <<counted, load>>
      BY <2>1, <3>1 DEF AddRequestCount
    <3>3. QED
      BY <1>2, <1>3, <2>1, <3>2
  <2>6. QED
    BY <2>4, <2>5
<1>6. CASE (ServeStep \/ PanicStep) /\ ~(RouteCandidate /\ serve.err = None)
  <2>1. stage' = stage /\ counted' = counted /\ load' = load
    BY <1>6 DEF ServeStep, PanicStep, Receive, Peek, TryCandidate, RouteCandidate, Dequeue, Report,
                PeekPanics, RoutePanics, DequeuePanics, reqVars
  <2>2. QED
    BY <1>2, <1>3, <2>1
<1>7. QED
  BY <1>4, <1>5, <1>6 DEF Next

\* The serve goroutine works on a list somebody sent: the one a request came
\* with, or all pods.
LEMMA ListInvStep ==
  ASSUME IInv, Next
  PROVE  ListInv'
<1>0. TypeOK /\ ServeInv /\ ListInv /\ stage \in [Requests -> Stages]
  BY DEF IInv, TypeOK
<1>1. ASSUME NEW r \in Requests, RequestStep(r) \/ Progress(r)
      PROVE  ListInv'
  <2>1. serve' = serve
    BY <1>1 DEF RequestStep, Progress, Enqueue, EnqueueFails, Cancel, ReportAndTrigger, Wake,
                donePodStats, Notify
  <2>2. ASSUME NEW pods \in PodLists, Enqueue(r, pods) PROVE ListInv'
    <3>1. list' = [list EXCEPT ![r] = pods] /\ trigger' = trigger
      BY <2>2 DEF Enqueue
    <3>2. \A q \in Requests \ {r} : stage'[q] = stage[q]
      BY <1>0, <2>2 DEF Enqueue
    <3>3. QED
      BY <1>0, <2>1, <3>1, <3>2 DEF ListInv, Offered, TypeOK
  <2>3. CASE ReportAndTrigger(r) \/ Notify(r)
    <3>1. list' = list /\ trigger' \in Offered \cup {{}}
      BY <1>0, <2>3 DEF ReportAndTrigger, Notify, tryRoute, ListInv, Offered
    <3>2. \A q \in Requests : stage'[q] = "enqueued" => stage[q] = "enqueued"
      BY <1>0, <2>3 DEF ReportAndTrigger, Notify
    <3>3. QED
      BY <1>0, <2>1, <3>1, <3>2 DEF ListInv
  <2>4. CASE EnqueueFails(r) \/ Cancel(r) \/ Wake(r) \/ donePodStats(r)
    <3>1. /\ UNCHANGED <<list, trigger>> /\ stage'[r] # "enqueued"
          /\ \A q \in Requests \ {r} : stage'[q] = stage[q]
      BY <1>0, <2>4 DEF EnqueueFails, Cancel, Wake, donePodStats
    <3>2. QED
      BY <1>0, <2>1, <3>1 DEF ListInv
  <2>5. QED
    BY <1>1, <2>2, <2>3, <2>4 DEF RequestStep, Progress
<1>2. ASSUME ServeStep \/ PanicStep PROVE ListInv'
  <2>1. UNCHANGED <<stage, list>> /\ (trigger' = trigger \/ trigger' = {})
    BY <1>2 DEF ServeStep, PanicStep, Receive, Peek, TryCandidate, RouteCandidate, Dequeue, Report,
                PeekPanics, RoutePanics, DequeuePanics, reqVars
  <2>2. serve'.step # "idle" => serve'.pods \in Offered
    <3>1. CASE Receive
      BY <1>0, <3>1 DEF Receive, Idle, ListInv
    <3>2. CASE serve' = Idle
      BY <3>2 DEF Idle
    <3>3. CASE RoutePanics
      BY <1>0, <3>3 DEF RoutePanics, Idle, ListInv
    <3>4. ASSUME serve.step # "idle", serve'.pods = serve.pods PROVE serve'.pods \in Offered
      BY <1>0, <3>4 DEF ListInv
    <3>5. CASE Peek
      <4>1. serve' = Idle \/ serve'.pods = serve.pods
        BY <1>0, <3>5 DEF Peek, TypeOK
      <4>2. QED
        BY <3>2, <3>4, <3>5, <4>1 DEF Peek
    <3>6. CASE TryCandidate
      <4> DEFINE k == Head(serve.cands)
      <4>1. serve.step = "try" /\ (TryPicks(k) \/ TryPasses(k))
        BY <1>0, <3>6, TryCases
      <4> HIDE DEF k
      <4>2. serve' = Idle \/ serve'.pods = serve.pods
        BY <1>0, <4>1 DEF TryPicks, TryPasses, Picked, TypeOK
      <4>3. QED
        BY <3>2, <3>4, <4>1, <4>2
    <3>7. CASE RouteCandidate \/ Dequeue \/ Report
      BY <1>0, <3>4, <3>7 DEF RouteCandidate, Dequeue, Report, TypeOK
    <3>8. QED
      BY <1>2, <3>1, <3>2, <3>3, <3>5, <3>6, <3>7 DEF ServeStep, PanicStep, PeekPanics,
                                                      DequeuePanics
  <2>3. QED
    BY <1>0, <2>1, <2>2 DEF ListInv
<1>3. QED
  BY <1>1, <1>2 DEF Next

\* The invariant holds initially and every step keeps it.
LEMMA Inductive ==
  /\ Init => IInv
  /\ IInv /\ [Next]_vars => IInv'
<1>1. ASSUME Init PROVE IInv
  <2>1. TypeOK
    BY <1>1, TypeInit
  <2>2. ServeInv /\ RouteInv /\ ListInv
    BY <1>1 DEF Init, Idle, ServeInv, RouteInv, ListInv
  <2>3. RequestInv
    BY <1>1, NoPod DEF Init, RequestInv
  <2>4. QueueInv
    BY <1>1 DEF Init, QueueInv
  <2>5. LoadIsTheRunning
    <3>1. ASSUME NEW p \in Pods
          PROVE  /\ \A r \in Requests : stage[r] # "running"
                 /\ Counting(p) = {} /\ load[p] = 0
      BY <1>1 DEF Init, Counting
    <3>2. QED
      BY <3>1, FS_EmptySet DEF LoadIsTheRunning
  <2>6. QED
    BY <2>1, <2>2, <2>3, <2>4, <2>5 DEF IInv
<1>2. ASSUME IInv, Next PROVE IInv'
  <2>1. TypeOK'
    BY <1>2, TypeRequest, TypeServe, TypePanic DEF Next
  <2>2. ServeInv'
    BY <1>2, ServeInvRequest, ServeInvServe DEF Next
  <2>3. QED
    BY <1>2, <2>1, <2>2, RequestInvStep, QueueInvStep, RouteInvStep, ListInvStep,
       LoadStep DEF IInv
<1>3. ASSUME IInv, UNCHANGED vars PROVE IInv'
  BY <1>3 DEF IInv, vars, reqVars, TypeOK, ServeInv, RequestInv, QueueInv, RouteInv, Ranks,
              Profiles, ListInv, LoadIsTheRunning, Counting, Weighs
<1>4. QED
  BY <1>1, <1>2, <1>3

\* The invariant holds in every reachable state.
LEMMA Invariance == Spec => []IInv
<1>1. Init => IInv
  BY Inductive
<1>2. IInv /\ [Next]_vars => IInv'
  BY Inductive
<1>3. QED
  BY <1>1, <1>2, PTL DEF Spec

\* The types: the state of the requests, of the queue and of the serve goroutine
\* keeps its shape; in particular a pod's pending load and the published depth
\* never go below zero.
THEOREM TypeCorrect == Spec => []TypeOK
<1>1. IInv => TypeOK
  BY DEF IInv
<1>2. QED
  BY <1>1, Invariance, PTL

\* The entry the serve goroutine peeked is still the head of its subqueue when
\* queueRouter.serve dequeues it, for any number of requests enqueued,
\* answered or cancelled in between.
THEOREM PeekedEntryStays == Spec => []PeekedStaysHead
<1>1. IInv => PeekedStaysHead
  BY DEF IInv, ServeInv, PeekedStaysHead
<1>2. QED
  BY <1>1, Invariance, PTL

\* The pending load of a pod is the number of requests with a cost it carries: a
\* request is counted by the serve goroutine or by its own, never by both and
\* never by neither, and is given back once.
THEOREM LoadCorrect == Spec => []LoadIsTheRunning
<1>1. IInv => LoadIsTheRunning
  BY DEF IInv
<1>2. QED
  BY <1>1, Invariance, PTL

-----------------------------------------------------------------------------
(* The published depth.                                                    *)

\* The depth after the head of a subqueue left is one less.
LEMMA TotalLenLeaves ==
  ASSUME TypeOK, NEW k \in SubKeys, subs[k] # << >>, Leaves(k)
  PROVE  TotalLen' = TotalLen - 1
<1> DEFINE f == [j \in SubKeys |-> Len(subs[j])]
           g == [j \in SubKeys |-> Len(subs'[j])]
<1>1. subs[k] \in Seq(Requests) /\ subs'[k] = Tail(subs[k])
  BY DEF TypeOK, Leaves
<1>2. Tail(subs[k]) \in Seq(Requests) /\ Len(Tail(subs[k])) = Len(subs[k]) - 1
  BY <1>1, TailFacts
<1>3. \A j \in SubKeys \ {k} : subs'[j] = subs[j]
  BY DEF TypeOK, Leaves
<1>4. \A j \in SubKeys : f[j] \in Nat /\ g[j] \in Nat
  <2> TAKE j \in SubKeys
  <2>1. subs[j] \in Seq(Requests) /\ subs'[j] \in Seq(Requests)
    BY <1>1, <1>2, <1>3 DEF TypeOK
  <2>2. QED
    BY <2>1, LenProperties
<1>5. g[k] = f[k] - 1 /\ \A j \in SubKeys \ {k} : g[j] = f[j]
  BY <1>1, <1>2, <1>3
<1>6. TotalLen = SumFunctionOnSet(f, SubKeys) /\ TotalLen' = SumFunctionOnSet(g, SubKeys)
  BY DEF TotalLen, SumFunction
<1> HIDE DEF f, g
<1>7. SumFunctionOnSet(g, SubKeys) = SumFunctionOnSet(f, SubKeys) - f[k] + g[k]
  <2>1. IsFiniteSet(SubKeys) /\ \A j \in SubKeys : f[j] \in Int /\ g[j] \in Int
    BY <1>4, Assumptions
  <2>2. \A j \in SubKeys \ {k} : g[j] = f[j]
    BY <1>5
  <2>3. QED
    BY <2>1, <2>2, SumChange
<1>8. SumFunctionOnSet(f, SubKeys) \in Nat
  BY <1>4, SumNat, Assumptions
<1>9. QED
  BY <1>4, <1>5, <1>6, <1>7, <1>8

\* The published queue depth (queueLen, EmitMetrics in Route and in serve) is
\* the depth as soon as everybody who changed the queue has reported, in
\* whatever order they did.
THEOREM GaugeCorrect == Spec => []GaugeSettles
<1>1. Init => GaugeSettles
  <2> SUFFICES ASSUME Init PROVE gauge = TotalLen
    BY DEF GaugeSettles
  <2> DEFINE f == [k \in SubKeys |-> Len(subs[k])]
  <2>1. \A k \in SubKeys : f[k] = 0
    BY EmptySeq DEF Init
  <2>2. TotalLen = SumFunctionOnSet(f, SubKeys)
    BY DEF TotalLen, SumFunction
  <2>3. SumFunctionOnSet(f, SubKeys) = 0
    <3> HIDE DEF f
    <3> QED BY <2>1, SumZero, Assumptions
  <2>4. QED
    BY <2>2, <2>3 DEF Init
<1>2. ASSUME IInv, GaugeSettles, [Next]_vars PROVE GaugeSettles'
  <2>0. TypeOK /\ ServeInv
    BY <1>2 DEF IInv
  <2>1. ASSUME UNCHANGED subs PROVE TotalLen' = TotalLen
    BY <2>1 DEF TotalLen
  <2>2. ASSUME UNCHANGED <<subs, gauge>>,
               serve.step = "report" => serve'.step = "report",
               \A r \in Requests : stage[r] = "enqueued" => stage'[r] = "enqueued"
        PROVE  GaugeSettles'
    BY <1>2, <2>1, <2>2 DEF GaugeSettles
  <2>3. ASSUME gauge' = TotalLen' PROVE GaugeSettles'
    BY <2>3 DEF GaugeSettles
  <2>4. ASSUME NEW r \in Requests, RequestStep(r) \/ Progress(r)
        PROVE  GaugeSettles'
    <3>0. stage \in [Requests -> Stages]
      BY <2>0 DEF TypeOK
    <3>1. ASSUME NEW pods, Enqueue(r, pods) PROVE GaugeSettles'
      BY <3>0, <3>1 DEF Enqueue, GaugeSettles
    <3>2. CASE ReportAndTrigger(r)
      BY <2>1, <2>3, <3>2 DEF ReportAndTrigger
    <3>3. CASE EnqueueFails(r) \/ Cancel(r) \/ Wake(r) \/ donePodStats(r) \/ Notify(r)
      <4>1. UNCHANGED <<subs, gauge, serve>> /\ stage[r] # "enqueued"
        BY <3>3 DEF EnqueueFails, Cancel, Wake, donePodStats, Notify
      <4>2. \A q \in Requests \ {r} : stage'[q] = stage[q]
        BY <3>0, <3>3 DEF EnqueueFails, Cancel, Wake, donePodStats, Notify
      <4>3. QED
        BY <2>2, <4>1, <4>2
    <3>4. QED
      BY <2>4, <3>1, <3>2, <3>3 DEF RequestStep, Progress
  <2>5. CASE Receive \/ Peek \/ TryCandidate \/ RouteCandidate \/ PeekPanics
    <3>1. UNCHANGED <<stage, subs, gauge>> /\ serve.step # "report"
      BY <2>5 DEF Receive, Peek, TryCandidate, RouteCandidate, PeekPanics, reqVars
    <3>2. QED
      BY <2>2, <3>1
  <2>6. CASE Dequeue
    <3>1. serve'.step = "report"
      BY <2>0, <2>6 DEF Dequeue, TypeOK
    <3>2. QED
      BY <3>1 DEF GaugeSettles
  <2>7. CASE Report
    BY <2>1, <2>3, <2>7 DEF Report
  <2>8. CASE RoutePanics \/ DequeuePanics
    <3>1. serve.sub \in SubKeys /\ subs[serve.sub] # << >>
      BY <2>0, <2>8, PickedFacts DEF RoutePanics, DequeuePanics
    <3>2. \/ Leaves(serve.sub) /\ gauge' = TotalLen - 1
          \/ UNCHANGED subs /\ gauge' = TotalLen
      BY <2>8 DEF RoutePanics, DequeuePanics
    <3>3. QED
      BY <2>0, <2>1, <2>3, <3>1, <3>2, TotalLenLeaves
  <2>9. CASE UNCHANGED vars
    BY <2>2, <2>9 DEF vars, reqVars
  <2>10. QED
    BY <1>2, <2>4, <2>5, <2>6, <2>7, <2>8, <2>9 DEF Next, ServeStep, PanicStep
<1>3. QED
  BY <1>1, <1>2, Invariance, PTL DEF Spec

-----------------------------------------------------------------------------
(* The dispatcher.                                                         *)

\* What the refinement mapping substitutes.
Answer == [r \in Requests |->
             IF target[r] # None THEN target[r]
             ELSE IF stage[r] = "new" THEN "none" ELSE "waiting"]
Finished == {r \in Requests : stage[r] \in {"notifying", "done"}}
RankedOn == [r \in Requests |-> {p \in Pods : DeploymentOf[p] \in profiled \cap Rankable[r]}]
WeighedOn == [r \in Requests |-> {p \in Pods : Weighs(r, p)}]
CarriedBy(p) == {q \in Requests \ Finished : Answer[q] = p /\ p \in WeighedOn[q]}

\* A request may be given a pod: it is ranked there and there is room, or no pod
\* of a list is ranked.
MayGet(r, p) ==
  \/ p \in RankedOn[r] /\ Cardinality(CarriedBy(p)) < Cap
  \/ \E pods \in Offered : p \in pods /\ RankedOn[r] \cap pods = {}

\* The answer of one request changes: what its steps mean to the dispatcher.
LEMMA AnswerChanges ==
  ASSUME NEW r \in Requests, NEW a, Answer' = [Answer EXCEPT ![r] = a],
         Finished' = Finished, RankedOn' = RankedOn, WeighedOn' = WeighedOn,
         \/ Answer[r] = "none" /\ a = "waiting"
         \/ Answer[r] \in {"none", "waiting"} /\ a = "error"
         \/ Answer[r] = "waiting" /\ a \in Pods /\ MayGet(r, a)
  PROVE  Abstract!DNext
<1> USE DEF Answer, Finished, RankedOn, WeighedOn
<1>1. CASE Answer[r] = "none" /\ a = "waiting"
  BY <1>1 DEF Abstract!DNext, Abstract!Enter
<1>2. CASE Answer[r] \in {"none", "waiting"} /\ a = "error"
  BY <1>2 DEF Abstract!DNext, Abstract!Fail
<1>3. CASE Answer[r] = "waiting" /\ a \in Pods /\ MayGet(r, a)
  <2>1. Abstract!Carried(a) = CarriedBy(a)
    BY DEF Abstract!Carried, CarriedBy
  <2>2. Abstract!Assign(r, a)
    <3>1. \/ a \in RankedOn[r] /\ Cardinality(Abstract!Carried(a)) < Cap
          \/ \E pods \in PodLists \cup {Pods} : a \in pods /\ RankedOn[r] \cap pods = {}
      BY <1>3, <2>1 DEF MayGet, Offered
    <3>2. \A S : Abstract!Cardinality(S) = Cardinality(S)
      BY DEF Abstract!Cardinality, Cardinality
    <3>3. QED
      BY <1>3, <3>1, <3>2 DEF Abstract!Assign
  <2>3. QED
    BY <1>3, <2>2 DEF Abstract!DNext
<1>4. QED
  BY <1>1, <1>2, <1>3

\* A pod that has room carries fewer requests than its capacity: between two
\* candidates every request with a pod is part of the pod's load.
LEMMA RoomIsRoom ==
  ASSUME IInv, serve.step = "try", NEW p \in Pods, HasRoom(p)
  PROVE  Cardinality(CarriedBy(p)) < Cap
<1>1. p \notin {"none", "waiting"} /\ p # None
  BY Assumptions DEF None
<1>2. CarriedBy(p) = Counting(p)
  <2>1. \A q \in Requests : Answer[q] = p <=> target[q] = p
    BY <1>1 DEF Answer
  <2>2. \A q \in Requests : target[q] = p => q \in counted
    BY <1>1 DEF IInv, RequestInv
  <2>3. counted \subseteq Requests
    BY DEF IInv, TypeOK
  <2>4. \A q \in Requests : p \in WeighedOn[q] <=> Weighs(q, p)
    BY DEF WeighedOn
  <2>5. QED
    BY <2>1, <2>2, <2>3, <2>4 DEF CarriedBy, Counting, Finished
<1>3. load[p] = Cardinality(Counting(p)) /\ load[p] \in Nat
  BY DEF IInv, TypeOK, LoadIsTheRunning
<1>4. QED
  <2>1. load[p] + 1 <= Cap /\ Cap \in Nat
    BY Assumptions DEF HasRoom
  <2>2. Cardinality(Counting(p)) < Cap
    BY <1>3, <2>1
  <2>3. QED
    BY <1>2, <2>2, Zenon

\* Every step of the queue router is a step of the dispatcher or none.
LEMMA RefinementStep ==
  ASSUME IInv, Next
  PROVE  Abstract!DNext \/ UNCHANGED <<Answer, Finished, RankedOn, WeighedOn>>
<1>0. /\ stage \in [Requests -> Stages] /\ target \in [Requests -> Pods \cup {None, Error}]
      /\ TypeOK /\ ServeInv /\ RequestInv /\ QueueInv /\ RouteInv /\ ListInv
  BY DEF IInv, TypeOK
<1>1. RankedOn' = RankedOn /\ WeighedOn' = WeighedOn
  BY Monotone DEF RankedOn, WeighedOn, Weighs
<1>2. ASSUME NEW r \in Requests, RequestStep(r) \/ Progress(r)
      PROVE  Abstract!DNext \/ UNCHANGED <<Answer, Finished, RankedOn, WeighedOn>>
  <2>1. ASSUME NEW pods, Enqueue(r, pods) PROVE Abstract!DNext
    <3>1. Answer' = [Answer EXCEPT ![r] = "waiting"] /\ Answer[r] = "none"
      BY <1>0, <2>1 DEF Enqueue, Answer, RequestInv
    <3>2. Finished' = Finished
      BY <1>0, <2>1 DEF Enqueue, Finished
    <3>3. QED
      BY <1>1, <3>1, <3>2, AnswerChanges
  <2>2. CASE EnqueueFails(r) \/ Cancel(r)
    <3>0. /\ target[r] = None /\ target' = [target EXCEPT ![r] = Error]
          /\ \A q \in Requests \ {r} : stage'[q] = stage[q]
      BY <1>0, <2>2 DEF EnqueueFails, Cancel, RequestInv
    <3>1. Answer' = [Answer EXCEPT ![r] = "error"] /\ Answer[r] \in {"none", "waiting"}
      BY <1>0, <3>0, NoPod DEF Answer, Error
    <3>2. Finished' = Finished
      BY <1>0, <2>2 DEF EnqueueFails, Cancel, Finished
    <3>3. QED
      BY <1>1, <3>1, <3>2, AnswerChanges
  <2>3. CASE ReportAndTrigger(r) \/ Wake(r) \/ Notify(r)
    <3>1. target' = target /\ \A q \in Requests : stage'[q] = "new" <=> stage[q] = "new"
      BY <1>0, <2>3 DEF ReportAndTrigger, Wake, Notify
    <3>2. Answer' = Answer
      BY <3>1 DEF Answer
    <3>3. Finished' = Finished
      BY <1>0, <2>3 DEF ReportAndTrigger, Wake, Notify, Finished
    <3>4. QED
      BY <1>1, <3>2, <3>3
  <2>4. CASE donePodStats(r)
    <3>1. target[r] \in Pods
      BY <2>4, RunningCounts DEF donePodStats
    <3>2. Answer' = Answer /\ Answer[r] \in Pods
      <4>1. target' = target /\ \A q \in Requests : stage'[q] = "new" <=> stage[q] = "new"
        BY <1>0, <2>4 DEF donePodStats
      <4>2. QED
        BY <3>1, <4>1, NoPod DEF Answer
    <3>3. Finished' = Finished \cup {r} /\ r \notin Finished
      <4>1. /\ stage[r] = "running" /\ stage'[r] \in {"notifying", "done"}
            /\ \A q \in Requests \ {r} : stage'[q] = stage[q]
        BY <1>0, <2>4 DEF donePodStats
      <4>2. QED
        BY <4>1 DEF Finished
    <3>4. Abstract!Finish(r)
      BY <1>1, <3>2, <3>3 DEF Abstract!Finish, Answer, Finished, RankedOn, WeighedOn
    <3>5. QED
      BY <3>4 DEF Abstract!DNext
  <2>5. QED
    BY <1>2, <2>1, <2>2, <2>3, <2>4 DEF RequestStep, Progress
<1>3. ASSUME ServeStep \/ PanicStep
      PROVE  Abstract!DNext \/ UNCHANGED <<Answer, Finished, RankedOn, WeighedOn>>
  <2>1. stage' = stage /\ Finished' = Finished
    BY <1>3 DEF ServeStep, PanicStep, Receive, Peek, TryCandidate, RouteCandidate, Dequeue, Report,
                PeekPanics, RoutePanics, DequeuePanics, reqVars, Finished
  <2>2. CASE target' = target
    BY <1>1, <2>1, <2>2 DEF Answer
  <2>3. ASSUME NEW r \in Requests, NEW t, target[r] = None, stage[r] # "new",
               target' = [target EXCEPT ![r] = t], t # None,
               \/ t = Error
               \/ t \in Pods /\ MayGet(r, t)
        PROVE  Abstract!DNext
    <3>1. Answer' = [Answer EXCEPT ![r] = t] /\ Answer[r] = "waiting"
      BY <1>0, <2>1, <2>3 DEF Answer
    <3>2. QED
      BY <1>1, <2>1, <2>3, <3>1, AnswerChanges DEF Error
  <2>4. CASE TryCandidate
    <3> DEFINE k == Head(serve.cands)
    <3>1. /\ Head(subs[k]) \in Requests /\ serve.step = "try" /\ k \in SubKeys /\ subs[k] # << >>
          /\ TryPicks(k) \/ TryPasses(k)
      BY <1>0, <2>4, TryCases
    <3> HIDE DEF k
    <3>2. ASSUME NEW p \in serve.pods, HasRoom(p), target[Head(subs[k])] = None,
                 DeploymentOf[p] \in Ranks(Head(subs[k]), serve.pods),
                 target' = [target EXCEPT ![Head(subs[k])] = p]
          PROVE  Abstract!DNext
      <4>1. p \in Pods
        BY <1>0, <3>2 DEF TypeOK
      <4>2. p # None
        BY <4>1, NoPod
      <4>3. stage[Head(subs[k])] # "new"
        <5>1. target'[Head(subs[k])] # target[Head(subs[k])]
          BY <1>0, <3>1, <3>2, <4>2
        <5>2. QED
          BY <2>1, <3>1, <5>1, Monotone
      <4>4. MayGet(Head(subs[k]), p)
        <5>1. Cardinality(CarriedBy(p)) < Cap
          BY <3>1, <3>2, <4>1, RoomIsRoom
        <5>2. p \in RankedOn[Head(subs[k])]
          BY <3>1, <3>2, <4>1 DEF RankedOn, Ranks, Profiles
        <5>3. QED
          BY <5>1, <5>2 DEF MayGet
      <4>5. QED
        BY <2>3, <3>1, <3>2, <4>1, <4>2, <4>3, <4>4
    <3>3. QED
      BY <2>2, <3>1, <3>2 DEF TryPicks, TryPasses
  <2>5. CASE RouteCandidate \/ RoutePanics \/ DequeuePanics
    <3>1. serve.entry \in Requests /\ stage[serve.entry] # "new" /\ serve.pods \subseteq Pods
      BY <1>0, <2>5, PickedFacts DEF RouteCandidate, RoutePanics, DequeuePanics, QueueInv, TypeOK
    <3>2. CASE target[serve.entry] # None
      <4>1. \E t : target' = [target EXCEPT ![serve.entry] = IF @ = None THEN t ELSE @]
        BY <2>5 DEF RouteCandidate, RoutePanics, DequeuePanics, FailEntry
      <4>2. target' = target
        BY <1>0, <3>1, <3>2, <4>1
      <4>3. QED
        BY <2>2, <4>2
    <3>3. CASE target[serve.entry] = None
      <4>1. CASE target' = [target EXCEPT ![serve.entry] = IF @ = None THEN Error ELSE @]
        <5>1. target' = [target EXCEPT ![serve.entry] = Error]
          BY <1>0, <3>1, <3>3, <4>1
        <5>2. QED
          BY <2>3, <3>1, <3>3, <5>1, NoPod
      <4>2. ASSUME serve.step = "route", serve.err = None, NEW p \in serve.pods,
                   target' = [target EXCEPT ![serve.entry] = IF @ = None THEN p ELSE @]
            PROVE  Abstract!DNext
        <5>1. target' = [target EXCEPT ![serve.entry] = p]
          BY <1>0, <3>1, <3>3, <4>2
        <5>2. p \in Pods /\ MayGet(serve.entry, p)
          <6>1. Ranks(serve.entry, serve.pods) = {} /\ serve.pods \in Offered
            BY <1>0, <3>3, <4>2 DEF RouteInv, ListInv
          <6>2. RankedOn[serve.entry] \cap serve.pods = {}
            BY <3>1, <6>1 DEF Ranks, Profiles, RankedOn
          <6>3. QED
            BY <3>1, <4>2, <6>1, <6>2 DEF MayGet
        <5>3. QED
          BY <2>3, <3>1, <3>3, <5>1, <5>2, NoPod
      <4>3. QED
        BY <2>5, <4>1, <4>2 DEF RouteCandidate, RoutePanics, DequeuePanics, FailEntry
    <3>4. QED
      BY <3>2, <3>3
  <2>6. QED
    BY <1>3, <2>2, <2>4, <2>5 DEF ServeStep, PanicStep, Receive, Peek, Dequeue, Report, PeekPanics,
                                  reqVars
<1>4. QED
  BY <1>2, <1>3 DEF Next

\* The queue router implements the dispatcher: whatever the goroutines do,
\* each request is answered once; a pod whose profile ranks the request is given
\* it only while it carries fewer than its capacity; and the fallback router,
\* which knows no capacity, places only requests that no pod of the list ranks.
THEOREM Refinement == Spec => DispatchSpec
<1>1. Init => Abstract!DInit
  BY Assumptions DEF Init, Abstract!DInit, None, Weighs
<1>2. IInv /\ [Next]_vars => [Abstract!DNext]_(Abstract!dvars)
  <2>1. ASSUME IInv, Next PROVE Abstract!DNext \/ UNCHANGED Abstract!dvars
    BY <2>1, RefinementStep DEF Abstract!dvars, Answer, Finished, RankedOn, WeighedOn
  <2>2. ASSUME UNCHANGED vars PROVE UNCHANGED Abstract!dvars
    BY <2>2 DEF vars, reqVars, Abstract!dvars, Weighs
  <2>3. QED
    BY <2>1, <2>2
<1>3. QED
  BY <1>1, <1>2, Invariance, PTL DEF Spec, DispatchSpec, Abstract!DSpec

-----------------------------------------------------------------------------
(* Wake-ups.                                                               *)

\* A head that is blocked stays so while it stays the head and no pod gets
\* room.
LEMMA BlockedStays ==
  ASSUME NEW k \in SubKeys, Blocked(k), subs'[k] = subs[k], profiled' = profiled,
         \A p \in Pods : HasRoom(p)' => HasRoom(p)
  PROVE  Blocked(k)'
<1>1. PICK d \in Ranks(Head(subs[k]), Pods) : RouteResult(Head(subs[k]), d, Pods) = Capacity
  BY DEF Blocked
<1>2. d \in Costed[Head(subs[k])] /\ Open(d, Pods) = {}
  BY <1>1 DEF RouteResult, SLOFailure, Capacity, None
<1>3. Open(d, Pods)' = {}
  BY <1>2 DEF Open
<1>4. RouteResult(Head(subs[k]), d, Pods)' = Capacity
  BY <1>2, <1>3 DEF RouteResult
<1>5. d \in Ranks(Head(subs[k]), Pods)'
  BY DEF Ranks, Profiles
<1>6. QED
  BY <1>4, <1>5 DEF Blocked

\* Who triggers is heard: when every trigger carries all pods, a candidate
\* the loop has passed by stays blocked until somebody who will trigger is
\* about to, or has.
LEMMA WakeStep ==
  ASSUME PodLists = {Pods}, IInv, WakeInv, Next
  PROVE  WakeInv'
<1>0. /\ TypeOK /\ ServeInv /\ stage \in [Requests -> Stages]
      /\ Pods # {} /\ profiled' = profiled
      /\ load \in [Pods -> Nat] /\ Cap \in Nat
  BY Assumptions, Monotone DEF IInv, TypeOK
<1> DEFINE ranked == RankedHeads(Pods)
<1>1. WakeInv /\ Offered = {Pods} /\ ListInv /\ ListInv'
  BY ListInvStep DEF Offered, IInv
<1>2. ASSUME UNCHANGED subs PROVE Heads' = Heads /\ ranked' = ranked
  BY <1>0, <1>2 DEF RankedHeads, Heads, Ranks, Profiles
<1>3. ASSUME Quiet' => Quiet, UNCHANGED <<serve, subs, stalled>>,
             Quiet' => \A p \in Pods : HasRoom(p)' => HasRoom(p)
      PROVE  WakeInv'
  <2>1. ASSUME Quiet', NEW k \in ranked, Blocked(k) PROVE Blocked(k)'
    <3>1. k \in SubKeys /\ subs'[k] = subs[k]
      BY <1>3, RankedFacts
    <3>2. QED
      BY <1>0, <1>3, <2>1, <3>1, BlockedStays
  <2>2. Heads' = Heads /\ ranked' = ranked
    BY <1>2, <1>3
  <2> HIDE DEF ranked
  <2>3. QED
    BY <1>1, <1>3, <2>1, <2>2 DEF WakeInv, ranked
<1>4. ASSUME UNCHANGED load PROVE \A p \in Pods : HasRoom(p)' => HasRoom(p)
  BY <1>4 DEF HasRoom
<1>5. ASSUME ~Quiet' PROVE WakeInv'
  BY <1>5 DEF WakeInv
<1>6. ASSUME NEW r \in Requests, RequestStep(r) \/ Progress(r)
      PROVE  WakeInv'
  <2>1. serve' = serve /\ stalled' = stalled
    BY <1>6 DEF RequestStep, Progress, Enqueue, EnqueueFails, Cancel, ReportAndTrigger, Wake,
                donePodStats, Notify
  <2>2. ASSUME NEW pods \in PodLists, Enqueue(r, pods) PROVE WakeInv'
    <3>1. stage'[r] = "enqueued"
      BY <1>0, <2>2 DEF Enqueue
    <3>2. QED
      BY <1>5, <3>1 DEF Quiet
  <2>3. CASE ReportAndTrigger(r) \/ Notify(r)
    <3>1. trigger' # {}
      BY <1>0, <1>1, <2>3 DEF ReportAndTrigger, Notify, tryRoute, ListInv
    <3>2. QED
      BY <1>5, <3>1 DEF Quiet
  <2>4. CASE EnqueueFails(r) \/ Cancel(r) \/ Wake(r) \/ donePodStats(r)
    <3>1. /\ UNCHANGED <<trigger, subs>> /\ stage[r] \notin {"enqueued", "notifying"}
          /\ \A q \in Requests \ {r} : stage'[q] = stage[q]
      BY <1>0, <2>4 DEF EnqueueFails, Cancel, Wake, donePodStats
    <3>2. Quiet' => Quiet
      BY <3>1 DEF Quiet
    <3>3. ASSUME Quiet', NEW p \in Pods, HasRoom(p)' PROVE HasRoom(p)
      <4>1. CASE EnqueueFails(r) \/ Cancel(r)
        BY <1>4, <3>3, <4>1 DEF EnqueueFails, Cancel
      <4>2. CASE Wake(r)
        BY <1>0, <3>3, <4>2 DEF Wake, AddRequestCount, HasRoom
      <4>3. CASE donePodStats(r)
        <5>1. stage'[r] # "notifying"
          BY <3>3 DEF Quiet
        <5>2. target[r] \in Pods /\ target' = target
          BY <4>3, RunningCounts DEF donePodStats
        <5>3. \/ load' = load
              \/ /\ load' = [load EXCEPT ![target[r]] = load[target[r]] - 1]
                 /\ ~(load[target[r]] - 1 < Cap)
          BY <1>0, <4>3, <5>1 DEF donePodStats
        <5>4. QED
          BY <1>0, <3>3, <5>2, <5>3 DEF HasRoom
      <4>4. QED
        BY <2>4, <4>1, <4>2, <4>3
    <3>4. QED
      BY <1>3, <2>1, <3>1, <3>2, <3>3
  <2>5. QED
    BY <1>6, <2>2, <2>3, <2>4 DEF RequestStep, Progress
<1>8. ASSUME serve'.step \notin {"idle", "try"} \/ stalled', serve'.step # "try" PROVE WakeInv'
  BY <1>8 DEF WakeInv
<1>9. ASSUME ServeStep \/ PanicStep PROVE WakeInv'
  <2>1. CASE Receive
    BY <1>8, <2>1 DEF Receive, Idle
  <2>2. CASE RouteCandidate \/ Dequeue \/ Report
    BY <1>0, <1>8, <2>2 DEF RouteCandidate, Dequeue, Report, TypeOK
  <2>3. CASE RoutePanics
    BY <1>8, <2>3 DEF RoutePanics, Idle
  <2>4. CASE PeekPanics \/ DequeuePanics
    <3>1. serve' = Idle /\ stalled'
      BY <2>4 DEF PeekPanics, DequeuePanics
    <3>2. QED
      BY <1>8, <3>1 DEF Idle
  <2>5. CASE Peek
    <3>1. Heads' = Heads /\ ranked' = ranked /\ IsFiniteSet(ranked) /\ ranked \subseteq Heads
      BY <1>2, <2>5, RankedFacts DEF Peek
    <3>2. serve.pods = Pods
      BY <1>1, <2>5 DEF Peek, ListInv
    <3> HIDE DEF ranked
    <3>3. CASE serve' = Idle /\ Heads = {}
      <4>1. serve'.step = "idle" /\ Heads' = {} /\ ranked' = {}
        BY <3>1, <3>3 DEF Idle
      <4>2. QED
        BY <4>1 DEF WakeInv, ranked
    <3>4. ASSUME NEW k, serve' = [serve EXCEPT !.step = "route", !.sub = k,
                                               !.entry = Head(subs[k])]
          PROVE  WakeInv'
      BY <1>0, <1>8, <3>4 DEF TypeOK
    <3>5. ASSUME ranked # {}, NEW order \in SetToSeqs(ranked),
                 serve' = [serve EXCEPT !.step = "try", !.cands = order]
          PROVE  WakeInv'
      <4>1. serve'.step = "try" /\ serve'.cands = order
        BY <1>0, <3>5 DEF TypeOK
      <4>2. \A k \in ranked : \E i \in 1..Len(order) : order[i] = k
        BY <3>1, OrderFacts
      <4>3. QED
        BY <3>1, <3>5, <4>1, <4>2 DEF WakeInv, ranked
    <3>6. QED
      BY <2>5, <3>2, <3>3, <3>4, <3>5 DEF Peek, ranked
  <2>6. CASE TryCandidate
    <3> DEFINE k == Head(serve.cands)
    <3>1. /\ serve.step = "try" /\ k \in SubKeys /\ k = serve.cands[1] /\ serve.cands # << >>
          /\ TryPicks(k) \/ TryPasses(k)
      BY <1>0, <2>6, TryCases
    <3> HIDE DEF k
    <3>2. UNCHANGED <<stage, trigger, subs, load, stalled>> /\ serve.cands \in Seq(SubKeys)
      BY <1>0, <2>6 DEF TryCandidate, TypeOK
    <3>3. CASE TryPicks(k)
      <4>1. \E e : Picked(k, e)
        BY <3>3 DEF TryPicks
      <4>2. serve'.step = "route"
        BY <1>0, <4>1 DEF Picked, TypeOK
      <4>3. QED
        BY <1>8, <4>2
    <3>4. CASE TryPasses(k)
      <4>1. Blocked(k)
        <5>1. serve.pods = Pods
          BY <1>1, <3>1 DEF ListInv
        <5>2. QED
          BY <3>4, <5>1 DEF TryPasses, Blocked
      <4>2. Heads' = Heads /\ ranked' = ranked /\ (Quiet' <=> Quiet)
        BY <1>2, <3>2 DEF Quiet
      <4>3. ASSUME NEW j \in ranked, Blocked(j) PROVE Blocked(j)'
        <5>1. j \in SubKeys
          BY RankedFacts
        <5>2. QED
          BY <1>0, <1>4, <3>2, <4>3, <5>1, BlockedStays
      <4> HIDE DEF ranked
      <4>4. ASSUME Quiet', NEW j \in ranked, ~Blocked(j)
            PROVE  \E i \in 1..Len(Tail(serve.cands)) :
                     Len(serve.cands) > 1 /\ Tail(serve.cands)[i] = j
        <5>1. PICK i \in 1..Len(serve.cands) : serve.cands[i] = j
          BY <1>1, <3>1, <4>2, <4>4 DEF WakeInv, ranked
        <5>2. i # 1
          BY <3>1, <4>1, <4>4, <5>1
        <5>3. /\ Len(serve.cands) \in Nat /\ Len(Tail(serve.cands)) = Len(serve.cands) - 1
              /\ \A n \in 1..Len(Tail(serve.cands)) : Tail(serve.cands)[n] = serve.cands[n + 1]
          BY <3>1, <3>2, TailFacts, LenProperties
        <5> DEFINE n == Len(serve.cands)
                   t == Len(Tail(serve.cands))
        <5>4. n \in Nat /\ t = n - 1 /\ i \in 1..n /\ i # 1
          BY <5>1, <5>2, <5>3
        <5> HIDE DEF n, t
        <5>5. i - 1 \in 1..t /\ n > 1 /\ (i - 1) + 1 = i
          BY <5>4
        <5>6. QED
          BY <5>1, <5>3, <5>5 DEF n, t
      <4>5. Quiet' => ranked' # {}
        BY <1>1, <3>1, <4>2 DEF WakeInv, ranked
      <4>6. CASE Len(serve.cands) > 1 /\ serve' = [serve EXCEPT !.cands = Tail(@)]
        <5>1. serve'.step = "try" /\ serve'.cands = Tail(serve.cands)
          BY <1>0, <3>1, <4>6 DEF TypeOK
        <5>2. QED
          BY <4>2, <4>3, <4>4, <4>5, <5>1 DEF WakeInv, ranked
      <4>7. CASE ~(Len(serve.cands) > 1) /\ serve' = Idle
        <5>1. serve'.step = "idle"
          BY <4>7 DEF Idle
        <5>2. QED
          BY <4>2, <4>3, <4>4, <4>5, <4>7, <5>1 DEF WakeInv, ranked
      <4>8. QED
        BY <3>4, <4>6, <4>7 DEF TryPasses
    <3>5. QED
      BY <3>1, <3>3, <3>4
  <2>7. QED
    BY <1>9, <2>1, <2>2, <2>3, <2>4, <2>5, <2>6 DEF ServeStep, PanicStep
<1>10. QED
  BY <1>6, <1>9 DEF Next

\* A queue at rest holds no request that could be routed, when every trigger
\* carries all pods of the model: the one slot of chRouteTrigger, whose overflow
\* tryRoute drops, is enough for any number of requests and completions.
THEOREM WakeupNotLost == PodLists = {Pods} => (Spec => []NoLostWakeup)
<1> SUFFICES ASSUME PodLists = {Pods} PROVE Spec => []NoLostWakeup
  OBVIOUS
<1>1. Init => WakeInv
  <2> SUFFICES ASSUME Init PROVE WakeInv
    OBVIOUS
  <2>1. Heads = {} /\ RankedHeads(Pods) = {}
    BY DEF Init, Heads, RankedHeads
  <2>2. QED
    BY <2>1 DEF Init, WakeInv, Idle
<1>2. ASSUME IInv, WakeInv, [Next]_vars PROVE WakeInv'
  <2>1. CASE Next
    BY <1>2, <2>1, WakeStep
  <2>2. CASE UNCHANGED vars
    BY <1>2, <2>2 DEF WakeInv, vars, reqVars, Quiet, Blocked, Heads, RankedHeads, Ranks, Profiles,
                      RouteResult, Open, HasRoom
  <2>3. QED
    BY <1>2, <2>1, <2>2
<1>3. WakeInv => NoLostWakeup
  BY DEF WakeInv, NoLostWakeup, Quiet, Blocked
<1>4. QED
  BY <1>1, <1>2, <1>3, Invariance, PTL DEF Spec
=============================================================================
