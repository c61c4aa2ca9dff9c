--------------------------- MODULE PodStatsProofs ---------------------------
(***************************************************************************)
(* Proofs about PodStats, for any number of pod keys, addresses, requests  *)
(* and re-adds: the types are kept; a pod's running count, pending load    *)
(* and completed count are exactly what its generation's requests make     *)
(* them; a generation belongs to one backend; a completion releases all    *)
(* that its request holds.                                                 *)
(***************************************************************************)
EXTENDS PodStats, SumTheorems

\* Allocated objects are exactly those with a generation, and no generation is ahead of the
\* counter that issues them.
HeapInv ==
  \A o \in Objs :
    /\ heap[o].gen # 0 <=> o <= allocated
    /\ heap[o].gen <= nextStatsGeneration

\* A generation is never shared between keys.
GenInv ==
  \A o, p \in Objs :
    (heap[o].gen # 0 /\ heap[o].gen = heap[p].gen) =>
      heap[o].key = heap[p].key /\ heap[o].ip = heap[p].ip

\* Both maps point at allocated objects of their key, a snapshot carries its object's
\* generation and address, and a key is never in both maps.
MapInv ==
  \A k \in Keys :
    /\ metaPods[k] <= allocated
    /\ metaPods[k] # 0 => heap[metaPods[k]].key = k
    /\ recentlyDeletedPods[k].pod <= allocated
    /\ recentlyDeletedPods[k].pod # 0 =>
         /\ metaPods[k] = 0
         /\ heap[recentlyDeletedPods[k].pod].key = k
         /\ recentlyDeletedPods[k].gen = heap[recentlyDeletedPods[k].pod].gen
         /\ recentlyDeletedPods[k].ip = heap[recentlyDeletedPods[k].pod].ip

\* An attempt has a record once it is counted, never before, and only such records are in
\* podStats.
RecordInv ==
  \A a \in Attempts :
    /\ rec[a].pod <= allocated
    /\ rec[a].pod # 0 => heap[rec[a].pod].key = target[a].key
    /\ pc[a] \in {"new", "routed"} => rec[a].pod = 0
    /\ pc[a] \in {"counted", "loaded"} => rec[a].pod # 0
    /\ a \in primary => rec[a].pod # 0
    /\ a \in settled => rec[a].pod # 0 /\ rec[a].consumed
    /\ \A r \in Requests : alias[r] = a => rec[a].pod # 0

\* A completion holds a real record; one that took it is alone with it and has not settled it.
CompletionInv ==
  \A d \in Completions :
    /\ doneBy[d].phase # "idle" => doneBy[d].of \in Attempts /\ rec[doneBy[d].of].pod # 0
    /\ doneBy[d].phase = "taken" =>
         /\ rec[doneBy[d].of].consumed
         /\ doneBy[d].of \notin settled
         /\ \A e \in Completions :
              (doneBy[e].phase = "taken" /\ doneBy[e].of = doneBy[d].of) => e = d

IInv == /\ TypeOK
        /\ HeapInv
        /\ GenInv
        /\ MapInv
        /\ RecordInv
        /\ CompletionInv
        /\ RunningMatchesInFlight


-----------------------------------------------------------------------------
\* NoTarget names a real key, so the initial records are well typed.
LEMMA NoTargetType == NoTarget \in [key : Keys, ip : IPs]
  BY PodStatsAssumption DEF PodStatsAssumption, NoTarget

\* The empty snapshot is well typed and stands for no pod.
LEMMA NoSnapType == NoSnap \in Snapshot /\ NoSnap.pod = 0
  BY PodStatsAssumption DEF PodStatsAssumption, NoSnap, Snapshot, Counters, Zero

\* No request is in flight before the first one is counted.
LEMMA InitIInv == Init => IInv
<1> SUFFICES ASSUME Init PROVE IInv
  OBVIOUS
<1> USE PodStatsAssumption DEF PodStatsAssumption, Init
<1>1. TypeOK
  BY NoTargetType, NoSnapType
     DEF TypeOK, PodTypeOK, RequestTypeOK, Pod, Counters, Zero, NoRec, Idle, NoUpdate, Objs
<1>2. HeapInv /\ GenInv
  BY DEF HeapInv, GenInv, Objs
<1>3. MapInv
  BY DEF MapInv, NoSnap
<1>4. RecordInv
  BY DEF RecordInv, NoRec
<1>5. CompletionInv
  BY DEF CompletionInv, Idle
<1>6. RunningMatchesInFlight
  BY DEF RunningMatchesInFlight, NoSnap
<1>7. QED
  BY <1>1, <1>2, <1>3, <1>4, <1>5, <1>6 DEF IInv

\* The set of requests in flight on a generation depends on the records alone.
LEMMA InFlightUnchanged ==
  ASSUME UNCHANGED <<rec, settled, heap>>
  PROVE  \A g : InFlight(g)' = InFlight(g)
  BY DEF InFlight

\* A step that leaves both sides alone keeps everything.
LEMMA UnchangedKeeps ==
  ASSUME IInv, UNCHANGED podVars, UNCHANGED requestVars,
         informer' \in [busy : BOOLEAN, key : Keys, ip : IPs]
  PROVE  IInv'
<1> USE DEF podVars, requestVars, IInv
<1>1. TypeOK'
  BY DEF TypeOK, PodTypeOK, RequestTypeOK
<1>2. HeapInv' /\ GenInv' /\ MapInv' /\ RecordInv' /\ CompletionInv'
  BY DEF HeapInv, GenInv, MapInv, RecordInv, CompletionInv
<1>3. RunningMatchesInFlight'
  BY InFlightUnchanged DEF RunningMatchesInFlight
<1>4. QED
  BY <1>1, <1>2, <1>3

\* deletePodLocked: the object moves from the live map to a snapshot with the same counters;
\* the prune only drops other snapshots.
LEMMA DeleteKeeps ==
  ASSUME IInv, NEW k \in Keys, DeletePodLocked(k),
         informer' \in [busy : BOOLEAN, key : Keys, ip : IPs],
         UNCHANGED <<heap, allocated, nextStatsGeneration>>, UNCHANGED requestVars
  PROVE  IInv'
<1> USE DEF IInv
<1>0. CASE metaPods[k] = 0
  <2>1. UNCHANGED podVars
    BY <1>0 DEF DeletePodLocked, podVars
  <2>2. QED
    BY <2>1, UnchangedKeeps
<1>1. CASE metaPods[k] # 0
  <2> DEFINE snap == SnapshotOf(metaPods[k])
  <2>1. metaPods' = [metaPods EXCEPT ![k] = 0]
    BY <1>1 DEF DeletePodLocked
  <2>2. recentlyDeletedPods' = Pruned([recentlyDeletedPods EXCEPT ![k] = snap])
    BY <1>1 DEF DeletePodLocked
  <2>3. metaPods[k] \in Objs /\ metaPods[k] <= allocated /\ heap[metaPods[k]].key = k
    BY <1>1 DEF TypeOK, PodTypeOK, MapInv, Objs
  <2>4. snap \in Snapshot /\ snap.pod = metaPods[k] /\ snap.gen = heap[metaPods[k]].gen
        /\ snap.ip = heap[metaPods[k]].ip /\ snap.c = heap[metaPods[k]].c /\ ~snap.expired
    BY <2>3 DEF SnapshotOf, TypeOK, PodTypeOK, Snapshot, Pod, Objs
  <2> HIDE DEF snap
  <2>6. /\ recentlyDeletedPods' \in [Keys -> Snapshot]
        /\ recentlyDeletedPods'[k] = snap
        /\ \A j \in Keys : j # k =>
             recentlyDeletedPods'[j] = recentlyDeletedPods[j] \/ recentlyDeletedPods'[j] = NoSnap
    BY <2>2, <2>4, NoSnapType DEF Pruned, TypeOK, PodTypeOK
  <2>7. TypeOK'
    <3>0. metaPods' \in [Keys -> 0..MaxObjs]
      BY <2>1, PodStatsAssumption DEF TypeOK, PodTypeOK, PodStatsAssumption
    <3>1. PodTypeOK'
      BY <3>0, <2>6 DEF TypeOK, PodTypeOK
    <3>2. RequestTypeOK'
      BY DEF TypeOK, RequestTypeOK, requestVars
    <3>3. QED
      BY <3>1, <3>2 DEF TypeOK
  <2>8. HeapInv' /\ GenInv' /\ RecordInv' /\ CompletionInv'
    BY DEF HeapInv, GenInv, RecordInv, CompletionInv, requestVars
  <2>9. MapInv'
    <3> SUFFICES ASSUME NEW j \in Keys
                 PROVE  (/\ metaPods[j] <= allocated
                         /\ metaPods[j] # 0 => heap[metaPods[j]].key = j
                         /\ recentlyDeletedPods[j].pod <= allocated
                         /\ recentlyDeletedPods[j].pod # 0 =>
                            /\ metaPods[j] = 0
                            /\ heap[recentlyDeletedPods[j].pod].key = j
                            /\ recentlyDeletedPods[j].gen = heap[recentlyDeletedPods[j].pod].gen
                            /\ recentlyDeletedPods[j].ip = heap[recentlyDeletedPods[j].pod].ip)'
      BY DEF MapInv
    <3>1. allocated \in Nat /\ 0 <= allocated
      BY DEF TypeOK, PodTypeOK
    <3>2. CASE j = k
      BY <3>1, <3>2, <2>1, <2>3, <2>4, <2>6 DEF TypeOK, PodTypeOK
    <3>3. CASE j # k
      BY <3>1, <3>3, <2>1, <2>6, NoSnapType DEF MapInv, TypeOK, PodTypeOK
    <3>4. QED
      BY <3>2, <3>3
  <2>11. RunningMatchesInFlight'
    <3>1. \A g : InFlight(g)' = InFlight(g)
      BY InFlightUnchanged DEF requestVars
    <3>2. QED
      BY <1>1, <2>1, <2>4, <2>6, <3>1, NoSnapType DEF RunningMatchesInFlight, TypeOK, PodTypeOK
  <2>12. QED
    BY <2>7, <2>8, <2>9, <2>11
<1>2. QED
  BY <1>0, <1>1

\* addPodLocked: a resumed generation carries the snapshot's counters over, a new one starts
\* at zero and no request can be in flight on it yet.
LEMMA AddKeeps ==
  ASSUME IInv, NEW k \in Keys, NEW ip \in IPs, AddPodLocked(k, ip),
         informer' \in [busy : BOOLEAN, key : Keys, ip : IPs], UNCHANGED requestVars
  PROVE  IInv'
<1> USE DEF IInv
<1> DEFINE s == recentlyDeletedPods[k]
           gen == IF Resumes(k, ip) THEN s.gen ELSE nextStatsGeneration + 1
           buf == [key |-> k, ip |-> ip, gen |-> gen, c |-> IF Resumes(k, ip) THEN s.c ELSE Zero]
           n == allocated + 1
<1>1. recentlyDeletedPods' = [recentlyDeletedPods EXCEPT ![k] = NoSnap]
      /\ nextStatsGeneration' = (IF Resumes(k, ip) THEN nextStatsGeneration ELSE gen)
  BY DEF AddPodLocked
<1>2. s \in Snapshot /\ nextStatsGeneration \in Nat /\ allocated \in 0..MaxObjs
  BY DEF TypeOK, PodTypeOK
<1>3. Resumes(k, ip) => /\ s.pod \in Objs /\ s.pod <= allocated /\ metaPods[k] = 0
                        /\ s.gen = heap[s.pod].gen /\ s.gen # 0 /\ s.gen <= nextStatsGeneration
                        /\ heap[s.pod].key = k /\ heap[s.pod].ip = ip
  BY <1>2 DEF Resumes, MapInv, HeapInv, Snapshot, Objs
<1>4. gen \in Nat /\ gen # 0 /\ nextStatsGeneration' \in Nat
      /\ nextStatsGeneration <= nextStatsGeneration' /\ gen <= nextStatsGeneration'
  BY <1>1, <1>2, <1>3 DEF Snapshot
<1>5. buf \in Pod
  BY <1>2, <1>4 DEF Pod, Snapshot, Counters, Zero
<1>6. /\ recentlyDeletedPods' \in [Keys -> Snapshot]
      /\ recentlyDeletedPods'[k].pod = 0
      /\ \A j \in Keys : j # k => recentlyDeletedPods'[j] = recentlyDeletedPods[j]
  BY <1>1, NoSnapType DEF TypeOK, PodTypeOK
<1>7. RequestTypeOK' /\ CompletionInv'
  BY DEF TypeOK, RequestTypeOK, CompletionInv, requestVars
<1>8. CASE metaPods[k] # 0
  <2>1. UNCHANGED <<metaPods, heap, allocated>>
    BY <1>8 DEF AddPodLocked
  <2>2. TypeOK'
    BY <2>1, <1>4, <1>6, <1>7 DEF TypeOK, PodTypeOK
  <2>3. HeapInv'
    BY <2>1, <1>2, <1>4 DEF HeapInv, TypeOK, PodTypeOK, Pod
  <2>4. GenInv' /\ RecordInv'
    BY <2>1 DEF GenInv, RecordInv, requestVars
  <2>5. MapInv'
    BY <2>1, <1>2, <1>6 DEF MapInv
  <2>6. RunningMatchesInFlight'
    <3>1. \A g : InFlight(g)' = InFlight(g)
      BY <2>1, InFlightUnchanged DEF requestVars
    <3>2. QED
      BY <2>1, <1>6, <3>1 DEF RunningMatchesInFlight
  <2>7. QED
    BY <2>2, <2>3, <2>4, <2>5, <2>6, <1>7
<1>9. CASE metaPods[k] = 0
  <2>1. /\ n \in Objs /\ allocated' = n
        /\ metaPods' = [metaPods EXCEPT ![k] = n]
        /\ heap' = [heap EXCEPT ![n] = buf]
    <3>1. /\ allocated < MaxObjs /\ allocated' = n
          /\ metaPods' = [metaPods EXCEPT ![k] = n]
          /\ heap' = [heap EXCEPT ![n] = buf]
      BY <1>9 DEF AddPodLocked
    <3>2. QED
      BY <3>1, <1>2, PodStatsAssumption DEF Objs, PodStatsAssumption
  <2>2. /\ heap'[n] = buf
        /\ \A o \in Objs : o # n => heap'[o] = heap[o]
        /\ heap' \in [Objs -> Pod]
    BY <2>1, <1>5 DEF TypeOK, PodTypeOK
  <2>3. /\ metaPods' \in [Keys -> 0..MaxObjs]
        /\ metaPods'[k] = n
        /\ \A j \in Keys : j # k => metaPods'[j] = metaPods[j]
    BY <2>1 DEF TypeOK, PodTypeOK, Objs
  <2>4. TypeOK'
    <3>1. allocated' \in 0..MaxObjs
      BY <2>1, PodStatsAssumption DEF Objs, PodStatsAssumption
    <3>2. PodTypeOK'
      BY <3>1, <2>2, <2>3, <1>4, <1>6 DEF PodTypeOK
    <3>3. QED
      BY <3>2, <1>7 DEF TypeOK
  <2> HIDE DEF gen
  <2>5. HeapInv'
    <3> SUFFICES ASSUME NEW o \in Objs
                 PROVE  /\ heap'[o].gen # 0 <=> o <= n
                        /\ heap'[o].gen <= nextStatsGeneration'
      BY <2>1 DEF HeapInv
    <3>1. o \in Nat /\ heap[o].gen \in Nat /\ n \in Nat /\ allocated \in Nat
      BY <1>2, <2>1 DEF TypeOK, PodTypeOK, Pod, Objs
    <3>2. CASE o = n
      <4>1. heap'[o].gen = gen
        BY <3>2, <2>2
      <4>2. QED
        BY <4>1, <3>1, <3>2, <1>4
    <3>3. CASE o # n
      <4>1. heap'[o].gen = heap[o].gen
        BY <3>3, <2>2
      <4>2. (heap[o].gen # 0 <=> o <= allocated) /\ heap[o].gen <= nextStatsGeneration
        BY DEF HeapInv
      <4>3. QED
        BY <4>1, <4>2, <3>1, <3>3, <1>2, <1>4
    <3>4. QED
      BY <3>2, <3>3
  <2>6. GenInv'
    <3>1. ASSUME NEW p \in Objs, p # n, heap[p].gen = gen
          PROVE  heap[p].key = k /\ heap[p].ip = ip
      <4>1. CASE Resumes(k, ip)
        BY <4>1, <3>1, <1>3 DEF GenInv, gen
      <4>2. CASE ~Resumes(k, ip)
        BY <4>2, <3>1, <1>2 DEF HeapInv, gen, TypeOK, PodTypeOK, Pod
      <4>3. QED
        BY <4>1, <4>2
    <3>2. QED
      BY <3>1, <2>2 DEF GenInv
  <2>7. \A o \in Objs : o <= allocated => heap'[o] = heap[o]
    BY <2>2, <1>2 DEF Objs
  <2>8. MapInv'
    <3> SUFFICES ASSUME NEW j \in Keys
                 PROVE  (/\ metaPods[j] <= allocated
                         /\ metaPods[j] # 0 => heap[metaPods[j]].key = j
                         /\ recentlyDeletedPods[j].pod <= allocated
                         /\ recentlyDeletedPods[j].pod # 0 =>
                            /\ metaPods[j] = 0
                            /\ heap[recentlyDeletedPods[j].pod].key = j
                            /\ recentlyDeletedPods[j].gen = heap[recentlyDeletedPods[j].pod].gen
                            /\ recentlyDeletedPods[j].ip = heap[recentlyDeletedPods[j].pod].ip)'
      BY DEF MapInv
    <3>2. CASE j = k
      BY <3>2, <1>2, <1>6, <2>1, <2>2, <2>3 DEF Objs
    <3>3. CASE j # k
      <4>1. metaPods'[j] = metaPods[j] /\ recentlyDeletedPods'[j] = recentlyDeletedPods[j]
        BY <3>3, <1>6, <2>3
      <4>2. /\ metaPods[j] \in 0..MaxObjs /\ recentlyDeletedPods[j].pod \in 0..MaxObjs
            /\ metaPods[j] <= allocated /\ recentlyDeletedPods[j].pod <= allocated
        BY DEF MapInv, TypeOK, PodTypeOK, Snapshot
      <4>3. metaPods[j] <= n /\ recentlyDeletedPods[j].pod <= n /\ allocated' = n
        BY <4>2, <1>2, <2>1
      <4>4. /\ metaPods[j] # 0 => heap'[metaPods[j]] = heap[metaPods[j]]
            /\ recentlyDeletedPods[j].pod # 0 =>
                 heap'[recentlyDeletedPods[j].pod] = heap[recentlyDeletedPods[j].pod]
        BY <4>2, <2>7 DEF Objs
      <4>5. QED
        BY <4>1, <4>3, <4>4 DEF MapInv
    <3>4. QED
      BY <3>2, <3>3
  <2>9. RecordInv'
    BY <2>1, <2>7, <1>2 DEF RecordInv, requestVars, TypeOK, RequestTypeOK, Objs
  <2>10. \A g : InFlight(g)' = InFlight(g)
    <3>1. \A a \in Attempts : rec[a].pod # 0 => heap'[rec[a].pod] = heap[rec[a].pod]
      BY <2>7 DEF RecordInv, TypeOK, RequestTypeOK, Objs
    <3>2. QED
      BY <3>1 DEF InFlight, requestVars
  <2>11. buf.c.running = Cardinality(InFlight(gen))
    <3>1. CASE Resumes(k, ip)
      BY <3>1 DEF RunningMatchesInFlight, gen, Resumes
    <3>2. CASE ~Resumes(k, ip)
      <4>1. InFlight(gen) = {}
        BY <3>2, <1>2 DEF InFlight, gen, HeapInv, TypeOK, PodTypeOK, RequestTypeOK, Pod, Objs
      <4>2. QED
        BY <4>1, <3>2, FS_EmptySet DEF Zero
    <3>3. QED
      BY <3>1, <3>2
  <2>12. RunningMatchesInFlight'
    <3> SUFFICES ASSUME NEW j \in Keys
                 PROVE  (/\ metaPods[j] # 0 =>
                              heap[metaPods[j]].c.running =
                                Cardinality(InFlight(heap[metaPods[j]].gen))
                         /\ recentlyDeletedPods[j].pod # 0 =>
                              recentlyDeletedPods[j].c.running =
                                Cardinality(InFlight(recentlyDeletedPods[j].gen)))'
      BY DEF RunningMatchesInFlight
    <3>1. CASE j = k
      BY <3>1, <2>2, <2>3, <2>10, <2>11, <1>6
    <3>2. CASE j # k
      BY <3>2, <2>3, <2>7, <2>10, <1>6
         DEF RunningMatchesInFlight, MapInv, TypeOK, PodTypeOK, Objs
    <3>3. QED
      BY <3>1, <3>2
  <2>13. QED
    BY <2>4, <2>5, <2>6, <2>8, <2>9, <2>12, <1>7
<1>10. QED
  BY <1>8, <1>9

\* GraceExpires only marks the snapshot.
LEMMA ExpireKeeps ==
  ASSUME IInv, NEW k \in Keys, GraceExpires(k)
  PROVE  IInv'
<1> USE DEF IInv, requestVars
<1>1. /\ recentlyDeletedPods' \in [Keys -> Snapshot]
      /\ \A j \in Keys : /\ recentlyDeletedPods'[j].pod = recentlyDeletedPods[j].pod
                         /\ recentlyDeletedPods'[j].ip = recentlyDeletedPods[j].ip
                         /\ recentlyDeletedPods'[j].gen = recentlyDeletedPods[j].gen
                         /\ recentlyDeletedPods'[j].c = recentlyDeletedPods[j].c
  BY DEF GraceExpires, TypeOK, PodTypeOK, Snapshot
<1>2. UNCHANGED <<metaPods, heap, allocated, nextStatsGeneration, informer,
                  pc, target, rec, primary, alias, doneBy, settled, clamped>>
  BY DEF GraceExpires
<1>3. TypeOK'
  BY <1>1, <1>2 DEF TypeOK, PodTypeOK, RequestTypeOK
<1>4. HeapInv' /\ GenInv' /\ RecordInv' /\ CompletionInv'
  BY <1>2 DEF HeapInv, GenInv, RecordInv, CompletionInv
<1>5. MapInv'
  BY <1>1, <1>2 DEF MapInv
<1>6. RunningMatchesInFlight'
  <2>1. \A g : InFlight(g)' = InFlight(g)
    BY <1>2, InFlightUnchanged
  <2>2. QED
    BY <2>1, <1>1, <1>2 DEF RunningMatchesInFlight
<1>7. QED
  BY <1>3, <1>4, <1>5, <1>6

\* Requests in flight on a generation are finitely many, being attempts.
LEMMA InFlightFinite == \A g : IsFiniteSet(InFlight(g))
<1> SUFFICES ASSUME NEW g PROVE IsFiniteSet(InFlight(g))
  OBVIOUS
<1>1. InFlight(g) \in SUBSET Attempts
  BY DEF InFlight
<1>2. QED
  BY <1>1, PodStatsAssumption, FS_Subset DEF PodStatsAssumption

\* Counting attempt a on object o adds one to that object's generation and to no other.
LEMMA CountAddsOne ==
  ASSUME TypeOK, NEW a \in Attempts, NEW o \in Objs,
         rec[a].pod = 0, a \notin settled,
         rec' = [rec EXCEPT ![a] = [pod |-> o, load |-> 0, consumed |-> FALSE]],
         UNCHANGED settled, \A p \in Objs : heap'[p].gen = heap[p].gen
  PROVE  \A g : Cardinality(InFlight(g)') =
                  Cardinality(InFlight(g)) + (IF g = heap[o].gen THEN 1 ELSE 0)
<1> SUFFICES ASSUME NEW g
             PROVE  Cardinality(InFlight(g)') =
                      Cardinality(InFlight(g)) + (IF g = heap[o].gen THEN 1 ELSE 0)
  OBVIOUS
<1>1. IsFiniteSet(InFlight(g)) /\ Cardinality(InFlight(g)) \in Nat
  BY InFlightFinite, FS_CardinalityType
<1>2. o # 0 /\ 0 \notin Objs
  BY DEF Objs
<1>3. \A b \in Attempts : b # a => rec'[b] = rec[b]
  BY DEF TypeOK, RequestTypeOK
<1>4. rec'[a].pod = o
  BY DEF TypeOK, RequestTypeOK
<1>5. \A b \in Attempts : rec[b].pod = 0 \/ rec[b].pod \in Objs
  BY DEF TypeOK, RequestTypeOK, Objs
<1>6. a \notin InFlight(g)
  BY DEF InFlight
<1>7. CASE g = heap[o].gen
  <2>1. InFlight(g)' = InFlight(g) \cup {a}
    BY <1>2, <1>3, <1>4, <1>5, <1>7 DEF InFlight
  <2>2. QED
    BY <2>1, <1>1, <1>6, <1>7, FS_AddElement
<1>8. CASE g # heap[o].gen
  <2>1. InFlight(g)' = InFlight(g)
    BY <1>2, <1>3, <1>4, <1>5, <1>8 DEF InFlight
  <2>2. QED
    BY <2>1, <1>1, <1>8
<1>9. QED
  BY <1>7, <1>8

\* Settling attempt a takes one off its generation and off no other.
LEMMA SettleRemovesOne ==
  ASSUME TypeOK, NEW a \in Attempts, rec[a].pod # 0, a \notin settled,
         settled' = settled \cup {a}, UNCHANGED rec,
         \A p \in Objs : heap'[p].gen = heap[p].gen
  PROVE  /\ \A g : Cardinality(InFlight(g)') =
                     Cardinality(InFlight(g)) - (IF g = heap[rec[a].pod].gen THEN 1 ELSE 0)
         /\ Cardinality(InFlight(heap[rec[a].pod].gen)) \in Nat \ {0}
<1>1. \A g : IsFiniteSet(InFlight(g)) /\ Cardinality(InFlight(g)) \in Nat
  BY InFlightFinite, FS_CardinalityType
<1>2. \A b \in Attempts : rec[b].pod = 0 \/ rec[b].pod \in Objs
  BY DEF TypeOK, RequestTypeOK, Objs
<1>3. a \in InFlight(heap[rec[a].pod].gen)
  BY DEF InFlight
<1>4. Cardinality(InFlight(heap[rec[a].pod].gen)) # 0
  BY <1>1, <1>3, FS_EmptySet
<1>5. ASSUME NEW g
      PROVE  Cardinality(InFlight(g)') =
               Cardinality(InFlight(g)) - (IF g = heap[rec[a].pod].gen THEN 1 ELSE 0)
  <2>1. CASE g = heap[rec[a].pod].gen
    <3>1. InFlight(g)' = InFlight(g) \ {a}
      BY <1>2, <2>1 DEF InFlight
    <3>2. a \in InFlight(g)
      BY <1>3, <2>1
    <3>3. Cardinality(InFlight(g) \ {a}) = Cardinality(InFlight(g)) - 1
      BY <1>1, <3>2, FS_RemoveElement
    <3>4. QED
      BY <3>1, <3>3, <2>1
  <2>2. CASE g # heap[rec[a].pod].gen
    <3>1. InFlight(g)' = InFlight(g)
      BY <1>2, <2>2 DEF InFlight
    <3>2. QED
      BY <3>1, <1>1, <2>2
  <2>3. QED
    BY <2>1, <2>2
<1>6. QED
  BY <1>1, <1>4, <1>5

\* Nothing but progress and the podStats keys changes: what routing reads is untouched.
LEMMA BookkeepingKeepsCounts ==
  ASSUME IInv, UNCHANGED podVars, UNCHANGED <<settled, target>>,
         rec' \in [Attempts -> [pod : 0..MaxObjs, load : Nat, consumed : BOOLEAN]],
         \A a \in Attempts : rec'[a].pod = rec[a].pod
  PROVE  /\ HeapInv' /\ GenInv' /\ MapInv' /\ RunningMatchesInFlight' /\ PodTypeOK'
<1> USE DEF IInv, podVars
<1>1. HeapInv' /\ GenInv' /\ MapInv' /\ PodTypeOK'
  BY DEF HeapInv, GenInv, MapInv, TypeOK, PodTypeOK
<1>2. \A g : InFlight(g)' = InFlight(g)
  BY DEF InFlight
<1>3. RunningMatchesInFlight'
  BY <1>2 DEF RunningMatchesInFlight
<1>4. QED
  BY <1>1, <1>3

\* Route only records the pod that was picked.
LEMMA RouteKeeps ==
  ASSUME IInv, NEW a \in Attempts, NEW k \in Keys, Route(a, k)
  PROVE  IInv'
<1> USE DEF IInv, podVars
<1>1. UNCHANGED <<metaPods, recentlyDeletedPods, heap, allocated, nextStatsGeneration,
                  rec, primary, alias, doneBy, settled, clamped, informer>>
  BY DEF Route
<1>2. metaPods[k] \in Objs /\ heap[metaPods[k]] \in Pod
  BY DEF Route, TypeOK, PodTypeOK, Objs
<1>3. pc[a] = "new" /\ pc' = [pc EXCEPT ![a] = "routed"]
      /\ target' = [target EXCEPT ![a] = [key |-> k, ip |-> heap[metaPods[k]].ip]]
  BY DEF Route
<1>4. TypeOK'
  BY <1>1, <1>2, <1>3 DEF TypeOK, PodTypeOK, RequestTypeOK, Pod
<1>5. HeapInv' /\ GenInv' /\ MapInv' /\ CompletionInv'
  BY <1>1 DEF HeapInv, GenInv, MapInv, CompletionInv
<1>6. RecordInv'
  BY <1>1, <1>3 DEF RecordInv, TypeOK, RequestTypeOK
<1>7. RunningMatchesInFlight'
  BY <1>1, InFlightUnchanged DEF RunningMatchesInFlight
<1>8. QED
  BY <1>4, <1>5, <1>6, <1>7

\* storePodStats, takePodStats: records change hands, the counters stay.
LEMMA StoreKeeps ==
  ASSUME IInv, NEW a \in Attempts, StorePodStats(a)
  PROVE  IInv'
<1> USE DEF IInv
<1>1. UNCHANGED podVars /\ UNCHANGED <<target, rec, doneBy, settled, clamped, informer>>
  BY DEF StorePodStats
<1>2. pc[a] = "loaded" /\ pc' = [pc EXCEPT ![a] = "tracked"] /\ primary' = primary \cup {a}
      /\ alias' = [alias EXCEPT ![RequestOf[a]] = IF @ = NoAttempt THEN a ELSE @]
  BY DEF StorePodStats
<1>3. HeapInv' /\ GenInv' /\ MapInv' /\ RunningMatchesInFlight' /\ PodTypeOK'
  BY <1>1, BookkeepingKeepsCounts DEF TypeOK, RequestTypeOK
<1>4. TypeOK'
  BY <1>1, <1>2, <1>3, PodStatsAssumption DEF TypeOK, RequestTypeOK, PodStatsAssumption
<1>5. RecordInv'
  BY <1>1, <1>2, PodStatsAssumption
     DEF RecordInv, TypeOK, RequestTypeOK, PodStatsAssumption, podVars
<1>6. CompletionInv'
  BY <1>1 DEF CompletionInv
<1>7. QED
  BY <1>3, <1>4, <1>5, <1>6

\* takePodStats with a ctx: the attempt key leaves podStats, no counter moves.
LEMMA TakeByCtxKeeps ==
  ASSUME IInv, NEW a \in Attempts, TakeByCtx(a)
  PROVE  IInv'
<1> USE DEF IInv
<1>1. UNCHANGED podVars /\ UNCHANGED <<target, rec, alias, settled, clamped, informer>>
  BY DEF TakeByCtx
<1>2. pc[a] = "tracked" /\ pc' = [pc EXCEPT ![a] = "done"] /\ primary' = primary \ {a}
      /\ doneBy' = (IF a \in primary
                    THEN [doneBy EXCEPT ![<<"ctx", a>>] = [phase |-> "loaded", of |-> a]]
                    ELSE doneBy)
  BY DEF TakeByCtx
<1>3. HeapInv' /\ GenInv' /\ MapInv' /\ RunningMatchesInFlight' /\ PodTypeOK'
  BY <1>1, BookkeepingKeepsCounts DEF TypeOK, RequestTypeOK
<1>4. <<"ctx", a>> \in Completions
  BY DEF Completions
<1>5. TypeOK'
  BY <1>1, <1>2, <1>3, <1>4 DEF TypeOK, RequestTypeOK
<1>6. RecordInv'
  BY <1>1, <1>2 DEF RecordInv, TypeOK, RequestTypeOK, podVars
<1>7. CompletionInv'
  BY <1>1, <1>2, <1>4 DEF CompletionInv, RecordInv, TypeOK, RequestTypeOK
<1>8. QED
  BY <1>3, <1>5, <1>6, <1>7

\* takePodStats without a ctx: the request-ID alias leaves podStats, no counter moves.
LEMMA TakeByRequestKeeps ==
  ASSUME IInv, NEW r \in Requests, TakeByRequest(r)
  PROVE  IInv'
<1> USE DEF IInv
<1>1. UNCHANGED podVars /\ UNCHANGED <<pc, target, rec, primary, settled, clamped, informer>>
  BY DEF TakeByRequest
<1>2. alias[r] # NoAttempt /\ alias' = [alias EXCEPT ![r] = NoAttempt]
      /\ doneBy' = [doneBy EXCEPT ![<<"nil", r>>] = [phase |-> "loaded", of |-> alias[r]]]
  BY DEF TakeByRequest
<1>3. HeapInv' /\ GenInv' /\ MapInv' /\ RunningMatchesInFlight' /\ PodTypeOK'
  BY <1>1, BookkeepingKeepsCounts DEF TypeOK, RequestTypeOK
<1>4. <<"nil", r>> \in Completions /\ alias[r] \in Attempts
  BY <1>2 DEF Completions, TypeOK, RequestTypeOK
<1>5. TypeOK'
  BY <1>1, <1>2, <1>3, <1>4 DEF TypeOK, RequestTypeOK
<1>6. RecordInv'
  BY <1>1, <1>2, PodStatsAssumption
     DEF RecordInv, TypeOK, RequestTypeOK, podVars, PodStatsAssumption
<1>7. CompletionInv'
  BY <1>1, <1>2, <1>4 DEF CompletionInv, RecordInv, TypeOK, RequestTypeOK
<1>8. QED
  BY <1>3, <1>5, <1>6, <1>7

\* take(): the CAS on consumed leaves one completion holding the record.
LEMMA TakeKeeps ==
  ASSUME IInv, NEW d \in Completions, Take(d)
  PROVE  IInv'
<1> USE DEF IInv
<1> DEFINE a == doneBy[d].of
<1>1. UNCHANGED podVars /\ UNCHANGED <<pc, target, settled, clamped, informer>>
  BY DEF Take
<1>2. doneBy[d].phase = "loaded" /\ rec' = [rec EXCEPT ![a].consumed = TRUE]
      /\ doneBy' = [doneBy EXCEPT ![d] = IF rec[a].consumed THEN Idle
                                         ELSE [phase |-> "taken", of |-> a]]
  BY DEF Take
<1>3. a \in Attempts /\ rec[a].pod # 0
  BY <1>2 DEF CompletionInv
<1>4. primary' \subseteq primary
  BY DEF Take
<1>5. \A r \in Requests : alias'[r] = alias[r] \/ alias'[r] = NoAttempt
  BY DEF Take, TypeOK, RequestTypeOK
<1>6. alias' \in [Requests -> Attempts \cup {NoAttempt}]
  BY DEF Take, TypeOK, RequestTypeOK
<1>7. /\ rec' \in [Attempts -> [pod : 0..MaxObjs, load : Nat, consumed : BOOLEAN]]
      /\ \A b \in Attempts : rec'[b].pod = rec[b].pod /\ (rec[b].consumed => rec'[b].consumed)
      /\ rec'[a].consumed
  <2>1. rec \in [Attempts -> [pod : 0..MaxObjs, load : Nat, consumed : BOOLEAN]]
    BY DEF TypeOK, RequestTypeOK
  <2>2. \A b \in Attempts : b # a => rec'[b] = rec[b]
    BY <1>2, <2>1
  <2>3. rec'[a] = [pod |-> rec[a].pod, load |-> rec[a].load, consumed |-> TRUE]
    BY <1>2, <1>3, <2>1
  <2>4. rec' \in [Attempts -> [pod : 0..MaxObjs, load : Nat, consumed : BOOLEAN]]
    BY <1>2, <2>1, <2>3
  <2>5. QED
    BY <2>2, <2>3, <2>4
<1>8. HeapInv' /\ GenInv' /\ MapInv' /\ RunningMatchesInFlight' /\ PodTypeOK'
  BY <1>1, <1>7, BookkeepingKeepsCounts
<1>9. doneBy' \in [Completions -> [phase : {"idle", "loaded", "taken"},
                                  of : Attempts \cup {NoAttempt}]]
  BY <1>2, <1>3 DEF TypeOK, RequestTypeOK, Idle
<1>10. TypeOK'
  BY <1>1, <1>4, <1>6, <1>7, <1>8, <1>9 DEF TypeOK, RequestTypeOK
<1>11. RecordInv'
  BY <1>1, <1>4, <1>5, <1>7, PodStatsAssumption
     DEF RecordInv, TypeOK, RequestTypeOK, podVars, PodStatsAssumption
<1>12. CompletionInv'
  <2>1. \A e \in Completions : e # d => doneBy'[e] = doneBy[e]
    BY <1>2 DEF TypeOK, RequestTypeOK
  <2>2. CASE rec[a].consumed
    <3>1. doneBy'[d] = Idle
      BY <1>2, <2>2 DEF TypeOK, RequestTypeOK
    <3>2. QED
      BY <3>1, <2>1, <1>1, <1>7 DEF CompletionInv, Idle
  <2>3. CASE ~rec[a].consumed
    <3>1. doneBy'[d] = [phase |-> "taken", of |-> a]
      BY <1>2, <2>3 DEF TypeOK, RequestTypeOK
    <3>2. a \notin settled
      BY <2>3, <1>3 DEF RecordInv
    <3>3. \A e \in Completions : doneBy[e].phase = "taken" => doneBy[e].of # a
      BY <2>3 DEF CompletionInv
    <3>4. QED
      BY <3>1, <3>2, <3>3, <2>1, <1>1, <1>3, <1>7 DEF CompletionInv
  <2>4. QED
    BY <2>2, <2>3
<1>13. QED
  BY <1>8, <1>10, <1>11, <1>12

\* A step that only moves counters keeps who is who.
SameIdentities ==
  /\ UNCHANGED <<metaPods, allocated, nextStatsGeneration>>
  /\ heap' \in [Objs -> Pod]
  /\ recentlyDeletedPods' \in [Keys -> Snapshot]
  /\ \A o \in Objs : /\ heap'[o].gen = heap[o].gen
                     /\ heap'[o].key = heap[o].key
                     /\ heap'[o].ip = heap[o].ip
  /\ \A k \in Keys : /\ recentlyDeletedPods'[k].pod = recentlyDeletedPods[k].pod
                     /\ recentlyDeletedPods'[k].gen = recentlyDeletedPods[k].gen
                     /\ recentlyDeletedPods'[k].ip = recentlyDeletedPods[k].ip

\* Such a step keeps everything said about keys, generations and addresses.
LEMMA IdentitiesKeep ==
  ASSUME IInv, SameIdentities
  PROVE  PodTypeOK' /\ HeapInv' /\ GenInv' /\ MapInv'
<1> USE DEF IInv, SameIdentities
<1>1. PodTypeOK'
  BY DEF TypeOK, PodTypeOK
<1>2. HeapInv' /\ GenInv'
  BY DEF HeapInv, GenInv
<1>3. MapInv'
  <2> SUFFICES ASSUME NEW j \in Keys
               PROVE  (/\ metaPods[j] <= allocated
                       /\ metaPods[j] # 0 => heap[metaPods[j]].key = j
                       /\ recentlyDeletedPods[j].pod <= allocated
                       /\ recentlyDeletedPods[j].pod # 0 =>
                          /\ metaPods[j] = 0
                          /\ heap[recentlyDeletedPods[j].pod].key = j
                          /\ recentlyDeletedPods[j].gen = heap[recentlyDeletedPods[j].pod].gen
                          /\ recentlyDeletedPods[j].ip = heap[recentlyDeletedPods[j].pod].ip)'
    BY DEF MapInv
  <2>1. metaPods[j] \in 0..MaxObjs /\ recentlyDeletedPods[j].pod \in 0..MaxObjs
    BY DEF TypeOK, PodTypeOK, Snapshot
  <2>2. /\ metaPods[j] # 0 => metaPods[j] \in Objs
        /\ recentlyDeletedPods[j].pod # 0 => recentlyDeletedPods[j].pod \in Objs
    BY <2>1 DEF Objs
  <2>3. metaPods'[j] = metaPods[j] /\ allocated' = allocated
        /\ recentlyDeletedPods'[j].pod = recentlyDeletedPods[j].pod
    OBVIOUS
  <2>4. metaPods'[j] # 0 => heap'[metaPods'[j]].key = j
    BY <2>2, <2>3 DEF MapInv
  <2>5. recentlyDeletedPods'[j].pod # 0 =>
          /\ metaPods'[j] = 0
          /\ heap'[recentlyDeletedPods'[j].pod].key = j
          /\ recentlyDeletedPods'[j].gen = heap'[recentlyDeletedPods'[j].pod].gen
          /\ recentlyDeletedPods'[j].ip = heap'[recentlyDeletedPods'[j].pod].ip
    BY <2>2, <2>3 DEF MapInv
  <2>6. QED
    BY <2>3, <2>4, <2>5 DEF MapInv
<1>4. QED
  BY <1>1, <1>2, <1>3

\* One object's counters replaced.
LEMMA HeapCounterStep ==
  ASSUME TypeOK, NEW o \in Objs, NEW c \in Counters,
         heap' = [heap EXCEPT ![o].c = c],
         UNCHANGED <<metaPods, allocated, nextStatsGeneration, recentlyDeletedPods>>
  PROVE  /\ SameIdentities
         /\ heap'[o].c = c
         /\ \A p \in Objs : p # o => heap'[p] = heap[p]
<1>1. heap \in [Objs -> Pod]
  BY DEF TypeOK, PodTypeOK
<1>2. heap'[o] = [key |-> heap[o].key, ip |-> heap[o].ip, gen |-> heap[o].gen, c |-> c]
  BY <1>1 DEF Pod
<1>3. \A p \in Objs : p # o => heap'[p] = heap[p]
  BY <1>1
<1>4. heap' \in [Objs -> Pod]
  BY <1>1, <1>2, <1>3 DEF Pod
<1>5. QED
  BY <1>2, <1>3, <1>4 DEF SameIdentities, TypeOK, PodTypeOK

\* One snapshot's counters replaced.
LEMMA SnapCounterStep ==
  ASSUME TypeOK, NEW k \in Keys, NEW c \in Counters,
         recentlyDeletedPods' = [recentlyDeletedPods EXCEPT ![k].c = c],
         UNCHANGED <<metaPods, allocated, nextStatsGeneration, heap>>
  PROVE  /\ SameIdentities
         /\ recentlyDeletedPods'[k].c = c
         /\ \A j \in Keys : j # k => recentlyDeletedPods'[j] = recentlyDeletedPods[j]
<1> DEFINE s == recentlyDeletedPods[k]
<1>1. recentlyDeletedPods \in [Keys -> Snapshot]
  BY DEF TypeOK, PodTypeOK
<1>2. recentlyDeletedPods'[k] =
        [pod |-> s.pod, ip |-> s.ip, gen |-> s.gen, c |-> c, expired |-> s.expired]
  BY <1>1 DEF Snapshot
<1>3. \A j \in Keys : j # k => recentlyDeletedPods'[j] = recentlyDeletedPods[j]
  BY <1>1
<1>4. recentlyDeletedPods' \in [Keys -> Snapshot]
  BY <1>1, <1>2, <1>3 DEF Snapshot
<1>5. QED
  BY <1>2, <1>3, <1>4 DEF SameIdentities, TypeOK, PodTypeOK

\* Distinct keys never hold the same generation, and a live object's generation is not zero.
LEMMA GenerationOwner ==
  ASSUME IInv
  PROVE  /\ \A k \in Keys : metaPods[k] # 0 =>
              /\ metaPods[k] \in Objs /\ heap[metaPods[k]].gen # 0
              /\ heap[metaPods[k]].key = k
         /\ \A k \in Keys : recentlyDeletedPods[k].pod # 0 =>
              /\ recentlyDeletedPods[k].pod \in Objs
              /\ recentlyDeletedPods[k].gen # 0
              /\ recentlyDeletedPods[k].gen = heap[recentlyDeletedPods[k].pod].gen
              /\ heap[recentlyDeletedPods[k].pod].key = k
         /\ \A a \in Attempts : rec[a].pod # 0 =>
              /\ rec[a].pod \in Objs /\ heap[rec[a].pod].gen # 0
              /\ heap[rec[a].pod].key = target[a].key /\ target[a].key \in Keys
  BY DEF IInv, TypeOK, PodTypeOK, RequestTypeOK, MapInv, HeapInv, RecordInv, Objs, Snapshot

\* addPodStats, first critical section.
LEMMA AddPodStatsKeeps ==
  ASSUME IInv, NEW a \in Attempts, AddPodStats(a)
  PROVE  IInv'
<1> USE DEF IInv
<1> DEFINE k == target[a].key
           r(o) == [pod |-> o, load |-> 0, consumed |-> FALSE]
<1>1. UNCHANGED <<metaPods, allocated, nextStatsGeneration, informer,
                  target, primary, alias, doneBy, settled, clamped>>
  BY DEF AddPodStats
<1>2. pc[a] = "routed"
  BY DEF AddPodStats, CountOnPod, CountOnSnapshot, CountNowhere
<1>3. rec[a].pod = 0 /\ a \notin settled /\ k \in Keys /\ a \notin primary
      /\ \A q \in Requests : alias[q] # a
  BY <1>2 DEF RecordInv, TypeOK, RequestTypeOK
<1>4. \A d \in Completions : doneBy[d].phase # "idle" => doneBy[d].of # a
  BY <1>3 DEF CompletionInv
<1>5. ASSUME NEW o \in Objs, o <= allocated, heap[o].key = k, SameIdentities,
             rec' = [rec EXCEPT ![a] = r(o)], pc' = [pc EXCEPT ![a] = "counted"]
      PROVE  TypeOK' /\ RecordInv' /\ CompletionInv'
  <2>1. rec' \in [Attempts -> [pod : 0..MaxObjs, load : Nat, consumed : BOOLEAN]]
    BY <1>5 DEF TypeOK, RequestTypeOK, Objs
  <2>2. rec'[a] = r(o) /\ \A b \in Attempts : b # a => rec'[b] = rec[b]
    BY <1>5 DEF TypeOK, RequestTypeOK
  <2>3. TypeOK'
    BY <1>1, <1>5, <2>1, IdentitiesKeep DEF TypeOK, RequestTypeOK
  <2>4. RecordInv'
    <3> SUFFICES ASSUME NEW b \in Attempts
                 PROVE (/\ rec[b].pod <= allocated
                        /\ rec[b].pod # 0 => heap[rec[b].pod].key = target[b].key
                        /\ pc[b] \in {"new", "routed"} => rec[b].pod = 0
                        /\ pc[b] \in {"counted", "loaded"} => rec[b].pod # 0
                        /\ b \in primary => rec[b].pod # 0
                        /\ b \in settled => rec[b].pod # 0 /\ rec[b].consumed
                        /\ \A q \in Requests : alias[q] = b => rec[b].pod # 0)'
      BY DEF RecordInv
    <3>1. CASE b = a
      BY <3>1, <2>2, <1>1, <1>3, <1>5 DEF SameIdentities, TypeOK, RequestTypeOK, Objs
    <3>2. CASE b # a
      <4>1. rec'[b] = rec[b] /\ pc'[b] = pc[b]
        BY <3>2, <2>2, <1>5 DEF TypeOK, RequestTypeOK
      <4>2. rec[b].pod # 0 => heap'[rec[b].pod].key = heap[rec[b].pod].key
        BY <1>5, GenerationOwner DEF SameIdentities
      <4>3. QED
        BY <4>1, <4>2, <1>1 DEF RecordInv
    <3>3. QED
      BY <3>1, <3>2
  <2>5. CompletionInv'
    BY <1>1, <1>4, <2>2 DEF CompletionInv
  <2>6. QED
    BY <2>3, <2>4, <2>5
<1>6. CASE CountOnPod(a)
  <2> DEFINE o == metaPods[k]
             c == [heap[o].c EXCEPT !.running = @ + 1]
  <2>1. /\ o # 0 /\ UNCHANGED recentlyDeletedPods
        /\ heap' = [heap EXCEPT ![o].c.running = @ + 1]
        /\ rec' = [rec EXCEPT ![a] = r(o)] /\ pc' = [pc EXCEPT ![a] = "counted"]
    BY <1>6 DEF CountOnPod
  <2>2. o \in Objs /\ o <= allocated /\ heap[o].key = k
    BY <2>1, <1>3, GenerationOwner DEF MapInv
  <2>3. heap[o].c \in Counters /\ c \in Counters /\ c.running = heap[o].c.running + 1
    BY <2>2 DEF TypeOK, PodTypeOK, Pod, Counters
  <2>4. heap' = [heap EXCEPT ![o].c = c]
    BY <2>1
  <2> HIDE DEF c
  <2>5. /\ SameIdentities /\ heap'[o].c = c
        /\ \A p \in Objs : p # o => heap'[p] = heap[p]
    BY <1>1, <2>1, <2>2, <2>3, <2>4, HeapCounterStep
  <2>6. \A g : Cardinality(InFlight(g)') =
                 Cardinality(InFlight(g)) + (IF g = heap[o].gen THEN 1 ELSE 0)
    BY <1>1, <1>3, <2>1, <2>2, <2>5, CountAddsOne DEF SameIdentities
  <2>7. \A g : Cardinality(InFlight(g)) \in Nat
    BY InFlightFinite, FS_CardinalityType
  <2>8. RunningMatchesInFlight'
    <3> SUFFICES ASSUME NEW j \in Keys
                 PROVE  (/\ metaPods[j] # 0 =>
                              heap[metaPods[j]].c.running =
                                Cardinality(InFlight(heap[metaPods[j]].gen))
                         /\ recentlyDeletedPods[j].pod # 0 =>
                              recentlyDeletedPods[j].c.running =
                                Cardinality(InFlight(recentlyDeletedPods[j].gen)))'
      BY DEF RunningMatchesInFlight
    <3>1. CASE j = k
      <4>1. metaPods'[j] = o /\ heap'[o].gen = heap[o].gen
        BY <3>1, <1>1, <2>2, <2>5 DEF SameIdentities
      <4>2. heap[o].c.running = Cardinality(InFlight(heap[o].gen))
        BY <1>3, <2>1 DEF RunningMatchesInFlight
      <4>3. \A g : g = heap[o].gen => heap'[o].c.running = Cardinality(InFlight(g)')
        BY <4>2, <2>3, <2>5, <2>6
      <4>4. recentlyDeletedPods'[j].pod = 0
        BY <3>1, <1>3, <2>1 DEF MapInv
      <4>5. QED
        BY <4>1, <4>3, <4>4
    <3>2. CASE j # k
      <4>1. metaPods[j] # 0 => metaPods[j] # o /\ heap[metaPods[j]].gen # heap[o].gen
                               /\ metaPods[j] \in Objs
        BY <3>2, <2>2, <2>1, GenerationOwner DEF GenInv
      <4>2. recentlyDeletedPods[j].pod # 0 => recentlyDeletedPods[j].gen # heap[o].gen
        BY <3>2, <2>2, <2>1, GenerationOwner DEF GenInv
      <4>3. QED
        BY <4>1, <4>2, <1>1, <2>1, <2>5, <2>6, <2>7 DEF RunningMatchesInFlight
    <3>3. QED
      BY <3>1, <3>2
  <2>9. QED
    BY <1>5, <2>1, <2>2, <2>5, <2>8, IdentitiesKeep
<1>7. CASE CountOnSnapshot(a)
  <2> DEFINE s == recentlyDeletedPods[k]
             o == s.pod
             c == [s.c EXCEPT !.running = @ + 1]
  <2>1. /\ o # 0 /\ metaPods[k] = 0 /\ UNCHANGED heap
        /\ recentlyDeletedPods' = [recentlyDeletedPods EXCEPT ![k].c.running = @ + 1]
        /\ rec' = [rec EXCEPT ![a] = r(o)] /\ pc' = [pc EXCEPT ![a] = "counted"]
    BY <1>7 DEF CountOnSnapshot, MatchesSnapshot
  <2>2. o \in Objs /\ o <= allocated /\ heap[o].key = k /\ s.gen = heap[o].gen
    BY <2>1, <1>3, GenerationOwner DEF MapInv
  <2>3. s.c \in Counters /\ c \in Counters /\ c.running = s.c.running + 1
    BY <1>3 DEF TypeOK, PodTypeOK, Snapshot, Counters
  <2>4. recentlyDeletedPods' = [recentlyDeletedPods EXCEPT ![k].c = c]
    BY <2>1
  <2> HIDE DEF c
  <2>5. /\ SameIdentities /\ recentlyDeletedPods'[k].c = c
        /\ \A j \in Keys : j # k => recentlyDeletedPods'[j] = recentlyDeletedPods[j]
    <3>1. UNCHANGED <<metaPods, allocated, nextStatsGeneration, heap>>
      BY <1>1, <2>1
    <3>2. k \in Keys /\ c \in Counters
      BY <1>3, <2>3
    <3> HIDE DEF k, s
    <3>3. QED
      BY <3>1, <3>2, <2>4, SnapCounterStep
  <2>6. \A g : Cardinality(InFlight(g)') =
                 Cardinality(InFlight(g)) + (IF g = heap[o].gen THEN 1 ELSE 0)
    BY <1>1, <1>3, <2>1, <2>2, <2>5, CountAddsOne DEF SameIdentities
  <2>7. \A g : Cardinality(InFlight(g)) \in Nat
    BY InFlightFinite, FS_CardinalityType
  <2>8. RunningMatchesInFlight'
    <3> SUFFICES ASSUME NEW j \in Keys
                 PROVE  (/\ metaPods[j] # 0 =>
                              heap[metaPods[j]].c.running =
                                Cardinality(InFlight(heap[metaPods[j]].gen))
                         /\ recentlyDeletedPods[j].pod # 0 =>
                              recentlyDeletedPods[j].c.running =
                                Cardinality(InFlight(recentlyDeletedPods[j].gen)))'
      BY DEF RunningMatchesInFlight
    <3>1. CASE j = k
      <4>1. s.c.running = Cardinality(InFlight(s.gen))
        BY <1>3, <2>1 DEF RunningMatchesInFlight
      <4>2. \A g : g = s.gen => c.running = Cardinality(InFlight(g)')
        BY <4>1, <2>2, <2>3, <2>6
      <4>3. recentlyDeletedPods'[j].gen = s.gen /\ metaPods'[j] = 0
        BY <3>1, <1>1, <1>3, <2>1, <2>5 DEF SameIdentities
      <4>4. QED
        BY <3>1, <4>2, <4>3, <2>5
    <3>2. CASE j # k
      <4>1. metaPods[j] # 0 => heap[metaPods[j]].gen # heap[o].gen
        BY <3>2, <2>2, <2>1, GenerationOwner DEF GenInv
      <4>2. recentlyDeletedPods[j].pod # 0 => recentlyDeletedPods[j].gen # heap[o].gen
        BY <3>2, <2>2, <2>1, GenerationOwner DEF GenInv
      <4>3. QED
        BY <4>1, <4>2, <3>2, <1>1, <2>1, <2>5, <2>6, <2>7 DEF RunningMatchesInFlight
    <3>3. QED
      BY <3>1, <3>2
  <2>9. QED
    BY <1>5, <2>1, <2>2, <2>5, <2>8, IdentitiesKeep
<1>8. CASE CountNowhere(a)
  <2>1. UNCHANGED <<heap, recentlyDeletedPods, rec>> /\ pc' = [pc EXCEPT ![a] = "tracked"]
    BY <1>8 DEF CountNowhere
  <2>2. HeapInv' /\ GenInv' /\ MapInv' /\ RunningMatchesInFlight' /\ PodTypeOK'
    BY <1>1, <2>1, BookkeepingKeepsCounts DEF podVars, TypeOK, RequestTypeOK
  <2>3. TypeOK' /\ RecordInv' /\ CompletionInv'
    BY <1>1, <2>1, <2>2 DEF TypeOK, RequestTypeOK, RecordInv, CompletionInv
  <2>4. QED
    BY <2>2, <2>3
<1>9. QED
  BY <1>6, <1>7, <1>8 DEF AddPodStats

\* The running counts stay right when a step moves no request in or out of flight and changes
\* no running count.
LEMMA SameRunningKeeps ==
  ASSUME IInv, SameIdentities, UNCHANGED settled,
         \A b \in Attempts : rec'[b].pod = rec[b].pod,
         \A o \in Objs : heap'[o].c.running = heap[o].c.running,
         \A k \in Keys : recentlyDeletedPods'[k].c.running = recentlyDeletedPods[k].c.running
  PROVE  RunningMatchesInFlight'
<1>1. \A g : InFlight(g)' = InFlight(g)
  BY GenerationOwner DEF InFlight, SameIdentities
<1>2. \A k \in Keys : metaPods[k] # 0 => metaPods[k] \in Objs
  BY GenerationOwner
<1>3. QED
  BY <1>1, <1>2 DEF RunningMatchesInFlight, SameIdentities, IInv

\* Where a record's object resolves to: an object of the same generation.
LEMMA ResolvedOwner ==
  ASSUME IInv, NEW k \in Keys, NEW o \in Objs, heap[o].gen # 0
  PROVE  ResolvedPod(k, o) \in Objs /\ heap[ResolvedPod(k, o)].gen = heap[o].gen
  BY GenerationOwner DEF ResolvedPod, SameStatsGeneration

\* addPodStats, second critical section: only the pending load moves.
LEMMA AddPendingLoadKeeps ==
  ASSUME IInv, NEW a \in Attempts, AddPendingLoad(a)
  PROVE  IInv'
<1> USE DEF IInv
<1> DEFINE k == target[a].key
           o == rec[a].pod
           d == LoadOf[a]
           p == ResolvedPod(k, o)
<1>1. UNCHANGED <<metaPods, allocated, nextStatsGeneration, informer,
                  target, primary, alias, doneBy, settled, clamped>>
  BY DEF AddPendingLoad
<1>2. pc[a] = "counted" /\ pc' = [pc EXCEPT ![a] = "loaded"]
      /\ rec' = [rec EXCEPT ![a].load = d] /\ AddPending(k, o, d) /\ d \in Nat
  BY PodStatsAssumption DEF AddPendingLoad, PodStatsAssumption
<1>3. o \in Objs /\ k \in Keys /\ heap[o].gen # 0
  BY <1>2, GenerationOwner DEF RecordInv
<1>4. p \in Objs
  BY <1>3, ResolvedOwner
<1> HIDE DEF p
<1>5. /\ SameIdentities
      /\ \A q \in Objs : heap'[q].c.running = heap[q].c.running
      /\ \A j \in Keys : recentlyDeletedPods'[j].c.running = recentlyDeletedPods[j].c.running
  <2>1. CASE ResolvesToSnapshot(k, o)
    <3> DEFINE s == recentlyDeletedPods[k]
               c == [s.c EXCEPT !.pending = @ + d]
    <3>1. UNCHANGED heap /\ recentlyDeletedPods' = [recentlyDeletedPods EXCEPT ![k].c.pending = @ + d]
      BY <2>1, <1>2 DEF AddPending
    <3>2. recentlyDeletedPods' = [recentlyDeletedPods EXCEPT ![k].c = c]
      BY <3>1
    <3>3. c \in Counters /\ c.running = s.c.running
      BY <1>2, <1>3 DEF TypeOK, PodTypeOK, Snapshot, Counters
    <3> HIDE DEF c
    <3>4. /\ SameIdentities /\ recentlyDeletedPods'[k].c = c
          /\ \A j \in Keys : j # k => recentlyDeletedPods'[j] = recentlyDeletedPods[j]
      BY <1>1, <1>3, <3>1, <3>2, <3>3, SnapCounterStep
    <3>5. QED
      BY <3>1, <3>3, <3>4
  <2>2. CASE ~ResolvesToSnapshot(k, o)
    <3> DEFINE c == [heap[p].c EXCEPT !.pending = @ + d]
    <3>1. UNCHANGED recentlyDeletedPods /\ heap' = [heap EXCEPT ![p].c.pending = @ + d]
      BY <2>2, <1>2 DEF AddPending, p
    <3>2. heap' = [heap EXCEPT ![p].c = c]
      BY <3>1
    <3>3. c \in Counters /\ c.running = heap[p].c.running
      BY <1>2, <1>4 DEF TypeOK, PodTypeOK, Pod, Counters
    <3> HIDE DEF c
    <3>4. /\ SameIdentities /\ heap'[p].c = c
          /\ \A q \in Objs : q # p => heap'[q] = heap[q]
      BY <1>1, <1>4, <3>1, <3>2, <3>3, HeapCounterStep
    <3>5. QED
      BY <3>1, <3>3, <3>4
  <2>3. QED
    BY <2>1, <2>2
<1>6. /\ rec' \in [Attempts -> [pod : 0..MaxObjs, load : Nat, consumed : BOOLEAN]]
      /\ \A b \in Attempts : rec'[b].pod = rec[b].pod /\ rec'[b].consumed = rec[b].consumed
  <2>1. rec \in [Attempts -> [pod : 0..MaxObjs, load : Nat, consumed : BOOLEAN]]
    BY DEF TypeOK, RequestTypeOK
  <2>2. \A b \in Attempts : b # a => rec'[b] = rec[b]
    BY <1>2, <2>1
  <2>3. rec'[a] = [pod |-> rec[a].pod, load |-> d, consumed |-> rec[a].consumed]
    BY <1>2, <2>1
  <2>4. rec' \in [Attempts -> [pod : 0..MaxObjs, load : Nat, consumed : BOOLEAN]]
    BY <1>2, <2>1, <2>3
  <2>5. QED
    BY <2>2, <2>3, <2>4
<1>7. PodTypeOK' /\ HeapInv' /\ GenInv' /\ MapInv'
  BY <1>5, IdentitiesKeep
<1>8. TypeOK'
  BY <1>1, <1>2, <1>6, <1>7 DEF TypeOK, RequestTypeOK
<1>9. RecordInv'
  <2>1. \A b \in Attempts : rec[b].pod # 0 => heap'[rec[b].pod].key = heap[rec[b].pod].key
    BY <1>5, GenerationOwner DEF SameIdentities
  <2>2. QED
    BY <2>1, <1>1, <1>2, <1>3, <1>6 DEF RecordInv, TypeOK, RequestTypeOK
<1>10. CompletionInv'
  BY <1>1, <1>6 DEF CompletionInv
<1>11. RunningMatchesInFlight'
  BY <1>1, <1>5, <1>6, SameRunningKeeps
<1>12. QED
  BY <1>7, <1>8, <1>9, <1>10, <1>11

\* donePodStats: one request leaves its generation, and the counter of the live object or
\* snapshot that carries the generation, if there is one, is the counter decremented.
LEMMA DoneKeeps ==
  ASSUME IInv, NEW d \in Completions, DonePodStats(d)
  PROVE  IInv'
<1> USE DEF IInv
<1> DEFINE a == doneBy[d].of
           o == rec[a].pod
           k == heap[o].key
           p == ResolvedPod(k, o)
           s == recentlyDeletedPods[k]
           onSnap == ResolvesToSnapshot(k, o)
<1>1. UNCHANGED <<metaPods, allocated, nextStatsGeneration, informer,
                  pc, target, rec, primary, alias>>
  BY DEF DonePodStats
<1>2. doneBy[d].phase = "taken" /\ settled' = settled \cup {a}
      /\ doneBy' = [doneBy EXCEPT ![d] = Idle]
  BY DEF DonePodStats
<1>3. a \in Attempts /\ o # 0 /\ rec[a].consumed /\ a \notin settled
  BY <1>2 DEF CompletionInv
<1>4. o \in Objs /\ k \in Keys /\ heap[o].gen # 0 /\ rec[a].load \in Nat
  BY <1>3, GenerationOwner DEF TypeOK, RequestTypeOK
<1>5. p \in Objs /\ heap[p].gen = heap[o].gen
  BY <1>4, ResolvedOwner
<1>6. \A c \in Counters : /\ Completed(c, rec[a].load) \in Counters
                          /\ c.running > 0 =>
                               Completed(c, rec[a].load).running = c.running - 1
  BY <1>4 DEF Completed, Counters
<1>7. clamped' \in Nat
  <2>1. clamped' = clamped \/ clamped' = clamped + 1
    <3>1. clamped \in Nat
      BY DEF TypeOK, RequestTypeOK
    <3>2. \/ clamped' = clamped + (IF s.c.running > 0 THEN 0 ELSE 1)
          \/ clamped' = clamped + (IF heap[p].c.running > 0 THEN 0 ELSE 1)
      BY DEF DonePodStats
    <3>3. \A x \in Nat, b \in BOOLEAN :
            x + (IF b THEN 0 ELSE 1) = x \/ x + (IF b THEN 0 ELSE 1) = x + 1
      OBVIOUS
    <3>4. (s.c.running > 0) \in BOOLEAN /\ (heap[p].c.running > 0) \in BOOLEAN
      OBVIOUS
    <3>5. QED
      BY <3>1, <3>2, <3>3, <3>4
  <2>2. QED
    BY <2>1 DEF TypeOK, RequestTypeOK
<1>8. ASSUME onSnap
      PROVE  SameIdentities /\ RunningMatchesInFlight'
  <2> DEFINE c == Completed(s.c, rec[a].load)
  <2>1. UNCHANGED heap
        /\ recentlyDeletedPods' = [recentlyDeletedPods EXCEPT ![k].c = c]
    BY <1>8 DEF DonePodStats
  <2>2. s.c \in Counters /\ c \in Counters
        /\ (s.c.running > 0 => c.running = s.c.running - 1)
    BY <1>4, <1>6 DEF TypeOK, PodTypeOK, Snapshot
  <2> HIDE DEF c
  <2>3. /\ SameIdentities /\ recentlyDeletedPods'[k].c = c
        /\ \A j \in Keys : j # k => recentlyDeletedPods'[j] = recentlyDeletedPods[j]
    BY <1>1, <1>4, <2>1, <2>2, SnapCounterStep
  <2>4. metaPods[k] = 0 /\ s.pod # 0 /\ s.gen = heap[o].gen
    BY <1>8 DEF ResolvesToSnapshot, SameStatsGeneration
  <2>5. /\ \A g : Cardinality(InFlight(g)') =
                    Cardinality(InFlight(g)) - (IF g = heap[o].gen THEN 1 ELSE 0)
        /\ Cardinality(InFlight(heap[o].gen)) \in Nat \ {0}
    BY <1>1, <1>2, <1>3, <2>3, SettleRemovesOne DEF SameIdentities
  <2>6. \A g : Cardinality(InFlight(g)) \in Nat
    BY InFlightFinite, FS_CardinalityType
  <2>7. RunningMatchesInFlight'
    <3> SUFFICES ASSUME NEW j \in Keys
                 PROVE  (/\ metaPods[j] # 0 =>
                              heap[metaPods[j]].c.running =
                                Cardinality(InFlight(heap[metaPods[j]].gen))
                         /\ recentlyDeletedPods[j].pod # 0 =>
                              recentlyDeletedPods[j].c.running =
                                Cardinality(InFlight(recentlyDeletedPods[j].gen)))'
      BY DEF RunningMatchesInFlight
    <3>1. CASE j = k
      <4>1. s.c.running = Cardinality(InFlight(s.gen))
        BY <1>4, <2>4 DEF RunningMatchesInFlight
      <4>2. \A g : g = s.gen => c.running = Cardinality(InFlight(g)')
        <5>1. Cardinality(InFlight(s.gen)) \in Nat \ {0}
          BY <2>4, <2>5
        <5>2. c.running = Cardinality(InFlight(s.gen)) - 1
          <6>1. \A x \in Nat \ {0} : x > 0
            OBVIOUS
          <6>2. s.c.running > 0
            BY <5>1, <4>1, <6>1
          <6>3. c.running = s.c.running - 1
            BY <6>2, <2>2
          <6>4. QED
            BY <6>3, <4>1
        <5>3. \A g : g = s.gen => Cardinality(InFlight(g)') = Cardinality(InFlight(s.gen)) - 1
          BY <2>4, <2>5
        <5>4. QED
          BY <5>2, <5>3
      <4>3. recentlyDeletedPods'[j].gen = s.gen /\ metaPods'[j] = 0
        BY <3>1, <1>1, <2>3, <2>4 DEF SameIdentities
      <4>4. QED
        BY <3>1, <4>2, <4>3, <2>3
    <3>2. CASE j # k
      <4>1. metaPods[j] # 0 => heap[metaPods[j]].gen # heap[o].gen
        BY <3>2, <1>4, GenerationOwner DEF GenInv
      <4>2. recentlyDeletedPods[j].pod # 0 => recentlyDeletedPods[j].gen # heap[o].gen
        BY <3>2, <1>4, GenerationOwner DEF GenInv
      <4>3. \A g : g # heap[o].gen => Cardinality(InFlight(g)') = Cardinality(InFlight(g))
        BY <2>5, <2>6
      <4>4. recentlyDeletedPods'[j] = recentlyDeletedPods[j] /\ metaPods'[j] = metaPods[j]
        BY <3>2, <1>1, <2>3
      <4>5. QED
        BY <4>1, <4>2, <4>3, <4>4, <2>1 DEF RunningMatchesInFlight
    <3>3. QED
      BY <3>1, <3>2
  <2>8. QED
    BY <2>3, <2>7
<1>9. ASSUME ~onSnap
      PROVE  SameIdentities /\ RunningMatchesInFlight'
  <2> DEFINE c == Completed(heap[p].c, rec[a].load)
  <2>1. UNCHANGED recentlyDeletedPods /\ heap' = [heap EXCEPT ![p].c = c]
    BY <1>9 DEF DonePodStats
  <2>2. heap[p].c \in Counters /\ c \in Counters
        /\ (heap[p].c.running > 0 => c.running = heap[p].c.running - 1)
    BY <1>5, <1>6 DEF TypeOK, PodTypeOK, Pod
  <2>3. metaPods[k] # 0 => metaPods[k] = p \/ heap[metaPods[k]].gen # heap[o].gen
    BY <1>4 DEF ResolvedPod, SameStatsGeneration
  <2>4. s.pod # 0 => s.gen # heap[o].gen
    BY <1>4, <1>9 DEF ResolvesToSnapshot, SameStatsGeneration, MapInv
  <2> HIDE DEF c, p
  <2>5. /\ SameIdentities /\ heap'[p].c = c
        /\ \A q \in Objs : q # p => heap'[q] = heap[q]
    BY <1>1, <1>5, <2>1, <2>2, HeapCounterStep
  <2>6. /\ \A g : Cardinality(InFlight(g)') =
                    Cardinality(InFlight(g)) - (IF g = heap[o].gen THEN 1 ELSE 0)
        /\ Cardinality(InFlight(heap[o].gen)) \in Nat \ {0}
    BY <1>1, <1>2, <1>3, <2>5, SettleRemovesOne DEF SameIdentities
  <2>7. \A g : Cardinality(InFlight(g)) \in Nat
    BY InFlightFinite, FS_CardinalityType
  <2>8. RunningMatchesInFlight'
    <3> SUFFICES ASSUME NEW j \in Keys
                 PROVE  (/\ metaPods[j] # 0 =>
                              heap[metaPods[j]].c.running =
                                Cardinality(InFlight(heap[metaPods[j]].gen))
                         /\ recentlyDeletedPods[j].pod # 0 =>
                              recentlyDeletedPods[j].c.running =
                                Cardinality(InFlight(recentlyDeletedPods[j].gen)))'
      BY DEF RunningMatchesInFlight
    <3>1. recentlyDeletedPods[j].pod # 0 => recentlyDeletedPods[j].gen # heap[o].gen
      BY <2>4, <1>4, GenerationOwner DEF GenInv
    <3>2. CASE metaPods[j] = p /\ metaPods[j] # 0
      <4>1. heap[p].c.running = Cardinality(InFlight(heap[p].gen)) /\ metaPods'[j] = p
        BY <3>2, <1>1 DEF RunningMatchesInFlight
      <4>2. \A g : g = heap[p].gen => c.running = Cardinality(InFlight(g)')
        BY <4>1, <1>5, <2>2, <2>6
      <4>3. heap'[p].gen = heap[p].gen
        BY <1>5, <2>5 DEF SameIdentities
      <4>4. recentlyDeletedPods'[j].pod = 0
        BY <3>2, <2>1 DEF MapInv
      <4>5. QED
        BY <4>1, <4>2, <4>3, <4>4, <2>5
    <3>3. CASE metaPods[j] # p /\ metaPods[j] # 0
      <4>1. heap[metaPods[j]].gen # heap[o].gen /\ metaPods[j] \in Objs
        <5>1. metaPods[j] \in Objs /\ heap[metaPods[j]].key = j
          BY <3>3, GenerationOwner
        <5>2. CASE j = k
          BY <5>1, <5>2, <3>3, <2>3
        <5>3. CASE j # k
          BY <5>1, <5>3, <1>4 DEF GenInv
        <5>4. QED
          BY <5>1, <5>2, <5>3
      <4>2. QED
        BY <4>1, <3>1, <3>3, <1>1, <2>1, <2>5, <2>6, <2>7 DEF RunningMatchesInFlight
    <3>4. CASE metaPods[j] = 0
      BY <3>1, <3>4, <1>1, <2>1, <2>6, <2>7 DEF RunningMatchesInFlight
    <3>5. QED
      BY <3>2, <3>3, <3>4
  <2>9. QED
    BY <2>5, <2>8
<1>10. SameIdentities /\ RunningMatchesInFlight'
  BY <1>8, <1>9
<1>11. PodTypeOK' /\ HeapInv' /\ GenInv' /\ MapInv'
  BY <1>10, IdentitiesKeep
<1>12. TypeOK'
  BY <1>1, <1>2, <1>3, <1>7, <1>11 DEF TypeOK, RequestTypeOK, Idle
<1>13. RecordInv'
  <2>1. \A b \in Attempts : rec[b].pod # 0 => heap'[rec[b].pod].key = heap[rec[b].pod].key
    BY <1>10, GenerationOwner DEF SameIdentities
  <2>2. QED
    BY <2>1, <1>1, <1>2, <1>3 DEF RecordInv
<1>14. CompletionInv'
  <2>1. \A e \in Completions : e # d => doneBy'[e] = doneBy[e]
    BY <1>2 DEF TypeOK, RequestTypeOK
  <2>2. doneBy'[d] = Idle
    BY <1>2 DEF TypeOK, RequestTypeOK
  <2>3. \A e \in Completions : e # d /\ doneBy[e].phase = "taken" => doneBy[e].of # a
    BY <1>2 DEF CompletionInv
  <2>4. QED
    BY <2>1, <2>2, <2>3, <1>1, <1>2 DEF CompletionInv, Idle
<1>15. QED
  BY <1>10, <1>11, <1>12, <1>13, <1>14

\* Every step of the informer or of a request keeps the inductive invariant.
LEMMA NextKeeps == IInv /\ [Next]_vars => IInv'
<1> SUFFICES ASSUME IInv, [Next]_vars PROVE IInv'
  OBVIOUS
<1>1. informer \in [busy : BOOLEAN, key : Keys, ip : IPs]
  BY DEF IInv, TypeOK
<1>2. NoUpdate \in [busy : BOOLEAN, key : Keys, ip : IPs]
  BY NoTargetType DEF NoUpdate, NoTarget
<1>3. CASE InformerNext
  <2>1. ASSUME NEW k \in Keys, NEW ip \in IPs, AddPod(k, ip) PROVE IInv'
    BY <2>1, <1>1, AddKeeps DEF AddPod
  <2>2. ASSUME NEW k \in Keys, NEW ip \in IPs, UpdatePodDelete(k, ip) PROVE IInv'
    BY <2>2, DeleteKeeps DEF UpdatePodDelete
  <2>3. ASSUME NEW k \in Keys, DeletePod(k) PROVE IInv'
    BY <2>3, <1>1, DeleteKeeps DEF DeletePod
  <2>4. ASSUME UpdatePodAdd PROVE IInv'
    BY <2>4, <1>1, <1>2, AddKeeps DEF UpdatePodAdd
  <2>5. ASSUME UpdatePodDrop PROVE IInv'
    BY <2>5, <1>2, UnchangedKeeps DEF UpdatePodDrop
  <2>6. QED
    BY <1>3, <2>1, <2>2, <2>3, <2>4, <2>5, ExpireKeeps DEF InformerNext
<1>4. CASE RequestNext
  <2>1. \A r \in Cancelled : r \in Requests
    BY PodStatsAssumption DEF PodStatsAssumption
  <2>2. QED
    BY <1>4, <2>1, RouteKeeps, AddPodStatsKeeps, AddPendingLoadKeeps, StoreKeeps, TakeByCtxKeeps,
       TakeByRequestKeeps, TakeKeeps, DoneKeeps DEF RequestNext
<1>5. CASE UNCHANGED vars
  BY <1>1, <1>5, UnchangedKeeps DEF vars, podVars, requestVars
<1>6. QED
  BY <1>3, <1>4, <1>5 DEF Next

-----------------------------------------------------------------------------
\* The inductive invariant holds in every reachable state.
LEMMA Invariance == Spec => []IInv
  BY InitIInv, NextKeeps, PTL DEF Spec

\* Type correctness: in particular no running or completed count is ever negative, whatever
\* completions arrive (decrementClamped), and both maps only name existing *Pod objects.
THEOREM TypeCorrect == Spec => []TypeOK
<1>1. IInv => TypeOK
  BY DEF IInv
<1>2. QED
  BY <1>1, Invariance, PTL

\* The running count that routing reads off a cached pod, or that a re-add would resume from,
\* is exactly the number of unfinished requests of that stats generation: no interleaving of
\* deletes, re-adds, address changes, retries and racing completions makes it drift.
THEOREM RunningCorrect == Spec => []RunningMatchesInFlight
<1>1. IInv => RunningMatchesInFlight
  BY DEF IInv
<1>2. QED
  BY <1>1, Invariance, PTL

\* A stats generation never spans two backends (addPodLocked's resume gate): counters resumed
\* after a flap belong to the same key at the same address.
THEOREM BackendCorrect == Spec => []OneBackendPerGeneration
<1>1. IInv => OneBackendPerGeneration
  BY DEF IInv, GenInv, OneBackendPerGeneration, SameStatsGeneration
<1>2. QED
  BY <1>1, Invariance, PTL

-----------------------------------------------------------------------------
(* The pending load and the completions of a generation, and the hand-over *)
(* of a record between podStats and the completions.                       *)

\* A record is in podStats, or with a completion, or used up.  An attempt that is not tracked
\* yet has neither a key in podStats nor a completion; the request-ID alias names an attempt of
\* that request; a nil-ctx completion has the alias off podStats; an alias is left only while the
\* attempt key is there or the ctx completion has still to drop it; a consumed record is with the
\* completion that took it or settled.
AttemptLife(a) ==
  /\ pc[a] \in {"new", "routed", "counted", "loaded"} =>
       a \notin primary /\ ~Completing(a) /\ a \notin settled /\ ~rec[a].consumed
         /\ \A r \in Requests : alias[r] # a
  /\ pc[a] = "counted" => rec[a].load = 0
  /\ pc[a] # "done" => doneBy[<<"ctx", a>>].phase = "idle"
  /\ pc[a] = "done" => a \notin primary
  /\ doneBy[<<"ctx", a>>].phase # "idle" => doneBy[<<"ctx", a>>].of = a
  /\ rec[a].consumed => \/ a \in settled
                        \/ \E d \in Completions : doneBy[d].phase = "taken" /\ doneBy[d].of = a
  /\ pc[a] \in {"tracked", "done"} /\ rec[a].pod # 0 /\ ~rec[a].consumed => a \in primary \/ Completing(a)
  /\ alias[RequestOf[a]] = a => a \in primary \/ doneBy[<<"ctx", a>>].phase = "loaded"

RequestLife(r) ==
  /\ alias[r] # NoAttempt => RequestOf[alias[r]] = r
  /\ doneBy[<<"nil", r>>].phase # "idle" =>
       alias[RequestOf[doneBy[<<"nil", r>>].of]] # doneBy[<<"nil", r>>].of

LifeInv == (\A a \in Attempts : AttemptLife(a)) /\ (\A r \in Requests : RequestLife(r))

\* The two kinds of completion.
LEMMA CompletionKinds ==
  /\ \A a \in Attempts : <<"ctx", a>> \in Completions
  /\ \A r \in Requests : <<"nil", r>> \in Completions
  /\ \A d \in Completions : \/ \E a \in Attempts : d = <<"ctx", a>>
                            \/ \E r \in Requests : d = <<"nil", r>>
  /\ \A a \in Attempts, r \in Requests : <<"ctx", a>> # <<"nil", r>>
BY DEF Completions

\* Nothing has happened to a record before there is one.
LEMMA InitLife == Init => LifeInv
<1> SUFFICES ASSUME Init PROVE LifeInv
  OBVIOUS
<1>1. \A d \in Completions : doneBy[d].phase = "idle"
  BY DEF Init, Idle
<1>2. ASSUME NEW a \in Attempts PROVE AttemptLife(a)
  BY <1>1, CompletionKinds, PodStatsAssumption DEF Init, AttemptLife, Completing, NoRec
<1>3. ASSUME NEW r \in Requests PROVE RequestLife(r)
  BY <1>1, CompletionKinds DEF Init, RequestLife
<1>4. QED
  BY <1>2, <1>3 DEF LifeInv

\* A step that touches neither podStats nor the completions, and advances one attempt at most
\* from new to loaded.
LEMMA EarlyLife ==
  ASSUME IInv, LifeInv, UNCHANGED <<primary, alias, doneBy, settled>>,
         NEW a \in Attempts, pc[a] \in {"new", "routed", "counted"},
         \A b \in Attempts \ {a} : pc'[b] = pc[b] /\ rec'[b] = rec[b],
         pc'[a] \in {"new", "routed", "counted", "loaded"} \/ (pc'[a] = "tracked" /\ rec'[a].pod = 0),
         ~rec'[a].consumed, pc'[a] = "counted" => rec'[a].load = 0
  PROVE  LifeInv'
<1>1. \A b \in Attempts : Completing(b)' <=> Completing(b)
  BY DEF Completing
<1>2. \A r \in Requests : RequestLife(r)'
  BY DEF LifeInv, RequestLife
<1>3. ASSUME NEW b \in Attempts, b # a PROVE AttemptLife(b)'
  <2>1. AttemptLife(b) /\ pc'[b] = pc[b] /\ rec'[b] = rec[b] /\ (Completing(b)' <=> Completing(b))
    BY <1>1, <1>3 DEF LifeInv
  <2>2. QED
    BY <2>1 DEF AttemptLife
<1>4. AttemptLife(a)'
  <2>1. /\ a \notin primary /\ ~Completing(a)' /\ a \notin settled /\ \A r \in Requests : alias[r] # a
        /\ doneBy[<<"ctx", a>>].phase = "idle" /\ RequestOf[a] \in Requests
    BY <1>1, PodStatsAssumption DEF LifeInv, AttemptLife
  <2>2. QED
    BY <2>1 DEF AttemptLife
<1>5. QED
  BY <1>2, <1>3, <1>4 DEF LifeInv

\* Route, addPodStats' two critical sections.
LEMMA EarlySteps ==
  ASSUME IInv, LifeInv, NEW a \in Attempts,
         (\E k \in Keys : Route(a, k)) \/ AddPodStats(a) \/ AddPendingLoad(a)
  PROVE  LifeInv'
<1>0. /\ pc \in [Attempts -> {"new", "routed", "counted", "loaded", "tracked", "done"}]
      /\ rec \in [Attempts -> [pod : 0..MaxObjs, load : Nat, consumed : BOOLEAN]]
      /\ AttemptLife(a)
  BY DEF IInv, TypeOK, RequestTypeOK, LifeInv
<1>1. ASSUME NEW k \in Keys, Route(a, k) PROVE LifeInv'
  <2>1. /\ UNCHANGED <<primary, alias, doneBy, settled, rec>> /\ pc[a] = "new" /\ pc' = [pc EXCEPT ![a] = "routed"]
    BY <1>1 DEF Route
  <2>2. ~rec'[a].consumed /\ pc'[a] = "routed" /\ \A b \in Attempts \ {a} : pc'[b] = pc[b] /\ rec'[b] = rec[b]
    BY <1>0, <2>1 DEF AttemptLife
  <2>3. QED
    BY <2>1, <2>2, EarlyLife
<1>2. CASE AddPodStats(a)
  <2>1. UNCHANGED <<primary, alias, doneBy, settled>> /\ pc[a] = "routed"
    BY <1>2 DEF AddPodStats, CountOnPod, CountOnSnapshot, CountNowhere
  <2>2. CASE CountOnPod(a) \/ CountOnSnapshot(a)
    <3>1. \E o : rec' = [rec EXCEPT ![a] = [pod |-> o, load |-> 0, consumed |-> FALSE]]
      BY <2>2 DEF CountOnPod, CountOnSnapshot
    <3>2. pc' = [pc EXCEPT ![a] = "counted"]
      BY <2>2 DEF CountOnPod, CountOnSnapshot
    <3>3. /\ rec'[a].load = 0 /\ ~rec'[a].consumed /\ pc'[a] = "counted"
          /\ \A b \in Attempts \ {a} : pc'[b] = pc[b] /\ rec'[b] = rec[b]
      BY <1>0, <3>1, <3>2
    <3>4. QED
      BY <2>1, <3>3, EarlyLife
  <2>3. CASE CountNowhere(a)
    <3>1. rec' = rec /\ pc' = [pc EXCEPT ![a] = "tracked"] /\ rec[a].pod = 0
      BY <2>1, <2>3 DEF CountNowhere, IInv, RecordInv
    <3>2. ~rec'[a].consumed /\ pc'[a] = "tracked" /\ \A b \in Attempts \ {a} : pc'[b] = pc[b] /\ rec'[b] = rec[b]
      BY <1>0, <2>1, <3>1 DEF AttemptLife
    <3>3. QED
      BY <2>1, <3>1, <3>2, EarlyLife
  <2>4. QED
    BY <1>2, <2>2, <2>3 DEF AddPodStats
<1>3. CASE AddPendingLoad(a)
  <2>1. /\ UNCHANGED <<primary, alias, doneBy, settled>> /\ pc[a] = "counted"
        /\ pc' = [pc EXCEPT ![a] = "loaded"] /\ rec' = [rec EXCEPT ![a].load = LoadOf[a]]
    BY <1>3 DEF AddPendingLoad
  <2>2. rec'[a].consumed = rec[a].consumed /\ pc'[a] = "loaded"
        /\ \A b \in Attempts \ {a} : pc'[b] = pc[b] /\ rec'[b] = rec[b]
    BY <1>0, <2>1
  <2>3. ~rec'[a].consumed
    BY <1>0, <2>1, <2>2 DEF AttemptLife
  <2>4. QED
    BY <2>1, <2>2, <2>3, EarlyLife
<1>4. QED
  BY <1>1, <1>2, <1>3

\* storePodStats: the attempt key, and the alias unless the request ID has one.
LEMMA StoreLife ==
  ASSUME IInv, LifeInv, NEW a \in Attempts, StorePodStats(a)
  PROVE  LifeInv'
<1>0. /\ pc \in [Attempts -> {"new", "routed", "counted", "loaded", "tracked", "done"}]
      /\ alias \in [Requests -> Attempts \cup {NoAttempt}] /\ RequestOf \in [Attempts -> Requests]
      /\ NoAttempt \notin Attempts
  BY PodStatsAssumption DEF IInv, TypeOK, RequestTypeOK
<1>1. /\ UNCHANGED <<rec, doneBy, settled>> /\ pc[a] = "loaded" /\ pc' = [pc EXCEPT ![a] = "tracked"]
      /\ primary' = primary \cup {a}
      /\ alias' = [alias EXCEPT ![RequestOf[a]] = IF @ = NoAttempt THEN a ELSE @]
  BY DEF StorePodStats
<1>2. \A b \in Attempts : Completing(b)' <=> Completing(b)
  BY <1>1 DEF Completing
<1>3. /\ \A r \in Requests : alias'[r] = alias[r] \/ (r = RequestOf[a] /\ alias'[r] = a)
      /\ pc'[a] = "tracked" /\ \A b \in Attempts \ {a} : pc'[b] = pc[b]
  BY <1>0, <1>1
<1>4. \A d \in Completions : doneBy[d].phase # "idle" => doneBy[d].of # a /\ doneBy[d].of \in Attempts
  BY <1>1 DEF LifeInv, AttemptLife, Completing, IInv, CompletionInv
<1>5. ASSUME NEW r \in Requests PROVE RequestLife(r)'
  <2>1. RequestLife(r)
    BY DEF LifeInv
  <2>2. alias'[r] # NoAttempt => RequestOf[alias'[r]] = r
    BY <1>3, <2>1 DEF RequestLife
  <2>3. doneBy'[<<"nil", r>>].phase # "idle" =>
          alias'[RequestOf[doneBy'[<<"nil", r>>].of]] # doneBy'[<<"nil", r>>].of
    BY <1>0, <1>1, <1>3, <1>4, <2>1, CompletionKinds DEF RequestLife
  <2>4. QED
    BY <2>2, <2>3 DEF RequestLife
<1>6. ASSUME NEW b \in Attempts, b # a PROVE AttemptLife(b)'
  <2>1. /\ AttemptLife(b) /\ pc'[b] = pc[b] /\ rec'[b] = rec[b] /\ (Completing(b)' <=> Completing(b))
        /\ (b \in primary' <=> b \in primary) /\ \A r \in Requests : alias'[r] = b => alias[r] = b
    BY <1>1, <1>2, <1>3, <1>6 DEF LifeInv
  <2>2. QED
    BY <1>0, <1>1, <2>1 DEF AttemptLife
<1>7. AttemptLife(a)'
  <2>1. AttemptLife(a) /\ a \in primary'
    BY <1>1 DEF LifeInv
  <2>2. QED
    BY <1>1, <1>2, <1>3, <2>1 DEF AttemptLife
<1>8. QED
  BY <1>5, <1>6, <1>7 DEF LifeInv

\* takePodStats with a ctx: the attempt key goes to the ctx completion.
LEMMA TakeByCtxLife ==
  ASSUME IInv, LifeInv, NEW a \in Attempts, TakeByCtx(a)
  PROVE  LifeInv'
<1>0. /\ pc \in [Attempts -> {"new", "routed", "counted", "loaded", "tracked", "done"}]
      /\ doneBy \in [Completions -> [phase : {"idle", "loaded", "taken"}, of : Attempts \cup {NoAttempt}]]
      /\ RequestOf \in [Attempts -> Requests]
  BY PodStatsAssumption DEF IInv, TypeOK, RequestTypeOK
<1> DEFINE x == <<"ctx", a>>
<1>1. /\ UNCHANGED <<rec, alias, settled>> /\ pc[a] = "tracked" /\ pc' = [pc EXCEPT ![a] = "done"]
      /\ primary' = primary \ {a}
      /\ doneBy' = (IF a \in primary THEN [doneBy EXCEPT ![x] = [phase |-> "loaded", of |-> a]] ELSE doneBy)
  BY DEF TakeByCtx
<1>2. x \in Completions /\ doneBy[x].phase = "idle" /\ AttemptLife(a)
  BY <1>1, CompletionKinds DEF LifeInv, AttemptLife
<1>3. /\ \A d \in Completions \ {x} : doneBy'[d] = doneBy[d]
      /\ a \in primary => doneBy'[x] = [phase |-> "loaded", of |-> a]
      /\ a \notin primary => doneBy'[x] = doneBy[x]
      /\ pc'[a] = "done" /\ \A b \in Attempts \ {a} : pc'[b] = pc[b]
  BY <1>0, <1>1, <1>2
<1> HIDE DEF x
<1>4. /\ \A b \in Attempts : Completing(b) => Completing(b)'
      /\ \A b \in Attempts \ {a} : Completing(b)' => Completing(b)
      /\ a \in primary => Completing(a)'
      /\ \A b \in Attempts : (\E d \in Completions : doneBy[d].phase = "taken" /\ doneBy[d].of = b)
                             => \E d \in Completions : doneBy'[d].phase = "taken" /\ doneBy'[d].of = b
  <2>1. \A d \in Completions : doneBy[d].phase # "idle" => doneBy'[d] = doneBy[d]
    BY <1>2, <1>3
  <2>2. \A d \in Completions : doneBy'[d].phase # "idle" => doneBy'[d] = doneBy[d] \/ doneBy'[d].of = a
    BY <1>2, <1>3
  <2>3. a \in primary => doneBy'[x].phase # "idle" /\ doneBy'[x].of = a
    BY <1>3
  <2>4. QED
    BY <1>2, <2>1, <2>2, <2>3 DEF Completing
<1>5. ASSUME NEW r \in Requests PROVE RequestLife(r)'
  <2>1. RequestLife(r) /\ <<"nil", r>> \in Completions \ {x}
    BY CompletionKinds DEF LifeInv, x
  <2>2. doneBy'[<<"nil", r>>] = doneBy[<<"nil", r>>]
    BY <1>3, <2>1
  <2>3. QED
    BY <1>1, <2>1, <2>2 DEF RequestLife
<1>6. ASSUME NEW b \in Attempts, b # a PROVE AttemptLife(b)'
  <2>1. <<"ctx", b>> \in Completions \ {x}
    BY <1>6, CompletionKinds DEF x
  <2>2. /\ AttemptLife(b) /\ pc'[b] = pc[b] /\ rec'[b] = rec[b] /\ (Completing(b)' <=> Completing(b))
        /\ (b \in primary' <=> b \in primary) /\ doneBy'[<<"ctx", b>>] = doneBy[<<"ctx", b>>]
    BY <1>1, <1>3, <1>4, <1>6, <2>1 DEF LifeInv
  <2>3. QED
    BY <1>1, <1>4, <2>2 DEF AttemptLife
<1>7. AttemptLife(a)'
  <2>1. a \in primary \/ alias[RequestOf[a]] # a
    BY <1>2 DEF AttemptLife, x
  <2>2. doneBy'[x].phase # "idle" => doneBy'[x].of = a /\ doneBy'[x].phase = "loaded" /\ a \in primary
    BY <1>2, <1>3
  <2>3. QED
    BY <1>1, <1>2, <1>3, <1>4, <2>1, <2>2 DEF AttemptLife, x
<1>8. QED
  BY <1>5, <1>6, <1>7 DEF LifeInv

\* takePodStats without a ctx: the alias goes to the nil-ctx completion of its request ID.
LEMMA TakeByRequestLife ==
  ASSUME IInv, LifeInv, NEW r \in Requests, TakeByRequest(r)
  PROVE  LifeInv'
<1> SUFFICES ASSUME NEW a, a = alias[r] PROVE LifeInv'
  OBVIOUS
<1> DEFINE x == <<"nil", r>>
<1>0. /\ doneBy \in [Completions -> [phase : {"idle", "loaded", "taken"}, of : Attempts \cup {NoAttempt}]]
      /\ alias \in [Requests -> Attempts \cup {NoAttempt}] /\ RequestOf \in [Attempts -> Requests]
      /\ NoAttempt \notin Attempts
  BY PodStatsAssumption DEF IInv, TypeOK, RequestTypeOK
<1>1. /\ UNCHANGED <<pc, rec, primary, settled>> /\ doneBy[x].phase = "idle" /\ a # NoAttempt
      /\ doneBy' = [doneBy EXCEPT ![x] = [phase |-> "loaded", of |-> a]]
      /\ alias' = [alias EXCEPT ![r] = NoAttempt]
  BY DEF TakeByRequest
<1>2. x \in Completions /\ a \in Attempts /\ RequestOf[a] = r
  BY <1>0, <1>1, CompletionKinds DEF LifeInv, RequestLife
<1>3. /\ \A d \in Completions \ {x} : doneBy'[d] = doneBy[d]
      /\ doneBy'[x] = [phase |-> "loaded", of |-> a]
      /\ alias'[r] = NoAttempt /\ \A q \in Requests \ {r} : alias'[q] = alias[q]
  BY <1>0, <1>1, <1>2
<1>s. \A q \in Requests : alias[q] = a => q = r
  BY <1>1, <1>2 DEF LifeInv, RequestLife
<1> HIDE DEF x
<1>4. /\ \A b \in Attempts : Completing(b) => Completing(b)'
      /\ \A b \in Attempts \ {a} : Completing(b)' => Completing(b)
      /\ Completing(a)'
      /\ \A b \in Attempts : (\E d \in Completions : doneBy[d].phase = "taken" /\ doneBy[d].of = b)
                             => \E d \in Completions : doneBy'[d].phase = "taken" /\ doneBy'[d].of = b
  <2>1. \A d \in Completions : doneBy[d].phase # "idle" => doneBy'[d] = doneBy[d]
    BY <1>1, <1>3
  <2>2. \A d \in Completions : doneBy'[d].phase # "idle" => doneBy'[d] = doneBy[d] \/ doneBy'[d].of = a
    BY <1>3
  <2>3. doneBy'[x].phase # "idle" /\ doneBy'[x].of = a
    BY <1>3
  <2>4. QED
    <3>1. \A b \in Attempts : Completing(b) => Completing(b)'
      BY <2>1 DEF Completing
    <3>2. \A b \in Attempts \ {a} : Completing(b)' => Completing(b)
      BY <2>2 DEF Completing
    <3>3. Completing(a)'
      BY <1>2, <2>3 DEF Completing
    <3>4. \A d \in Completions : doneBy[d].phase = "taken" => doneBy'[d] = doneBy[d]
      BY <2>1
    <3>5. \A b \in Attempts : (\E d \in Completions : doneBy[d].phase = "taken" /\ doneBy[d].of = b)
                             => \E d \in Completions : doneBy'[d].phase = "taken" /\ doneBy'[d].of = b
      BY <3>4
    <3>6. QED
      BY <3>1, <3>2, <3>3, <3>5
<1>5. ASSUME NEW q \in Requests PROVE RequestLife(q)'
  <2>1. RequestLife(q) /\ <<"nil", q>> \in Completions
    BY CompletionKinds DEF LifeInv
  <2>2. alias'[q] # NoAttempt => RequestOf[alias'[q]] = q
    BY <1>3, <2>1 DEF RequestLife
  <2>3. CASE q = r
    BY <1>2, <1>3, <2>2, <2>3, <1>0 DEF RequestLife, x
  <2>4. CASE q # r
    <3>1. doneBy'[<<"nil", q>>] = doneBy[<<"nil", q>>]
      BY <1>3, <2>1, <2>4 DEF x
    <3>2. doneBy[<<"nil", q>>].phase # "idle" => doneBy[<<"nil", q>>].of \in Attempts
      BY <2>1 DEF IInv, CompletionInv
    <3>3. QED
      BY <1>0, <1>3, <2>1, <2>2, <3>1, <3>2 DEF RequestLife
  <2>5. QED
    BY <2>3, <2>4
<1>6. ASSUME NEW b \in Attempts PROVE AttemptLife(b)'
  <2>1. <<"ctx", b>> \in Completions \ {x}
    BY CompletionKinds DEF x
  <2>2. /\ AttemptLife(b) /\ doneBy'[<<"ctx", b>>] = doneBy[<<"ctx", b>>]
        /\ \A q \in Requests : alias'[q] = b => alias[q] = b
    BY <1>0, <1>3, <2>1 DEF LifeInv
  <2>3. pc[b] \in {"new", "routed", "counted", "loaded"} => b # a
    BY <2>2 DEF AttemptLife
  <2>4. QED
    BY <1>0, <1>1, <1>4, <2>2, <2>3 DEF AttemptLife
<1>7. QED
  BY <1>5, <1>6 DEF LifeInv

\* takePodStats, rest: the record's other key goes, and consumed lets one completion through.
LEMMA TakeLife ==
  ASSUME IInv, LifeInv, NEW d \in Completions, Take(d)
  PROVE  LifeInv'
<1> SUFFICES ASSUME NEW a, a = doneBy[d].of PROVE LifeInv'
  OBVIOUS
<1> DEFINE new == IF rec[a].consumed THEN Idle ELSE [phase |-> "taken", of |-> a]
<1>0. /\ doneBy \in [Completions -> [phase : {"idle", "loaded", "taken"}, of : Attempts \cup {NoAttempt}]]
      /\ alias \in [Requests -> Attempts \cup {NoAttempt}] /\ RequestOf \in [Attempts -> Requests]
      /\ rec \in [Attempts -> [pod : 0..MaxObjs, load : Nat, consumed : BOOLEAN]]
      /\ NoAttempt \notin Attempts
  BY PodStatsAssumption DEF IInv, TypeOK, RequestTypeOK
<1>1. /\ UNCHANGED <<pc, settled>> /\ doneBy[d].phase = "loaded"
      /\ rec' = [rec EXCEPT ![a].consumed = TRUE]
      /\ doneBy' = [doneBy EXCEPT ![d] = new]
  BY DEF Take
<1>2. a \in Attempts
  BY <1>1 DEF IInv, CompletionInv
<1>3. /\ \A e \in Completions \ {d} : doneBy'[e] = doneBy[e]
      /\ doneBy'[d] = new
  BY <1>0, <1>1
<1>4. /\ rec'[a].consumed /\ rec'[a].pod = rec[a].pod /\ rec'[a].load = rec[a].load
      /\ \A b \in Attempts \ {a} : rec'[b] = rec[b]
  BY <1>0, <1>1, <1>2
<1>5. /\ rec[a].consumed => new.phase = "idle" /\ new.of = NoAttempt
      /\ ~rec[a].consumed => new.phase = "taken" /\ new.of = a
  BY DEF Idle
<1>6. /\ \A q \in Requests : alias'[q] = alias[q] \/ (alias[q] = a /\ alias'[q] = NoAttempt)
      /\ alias'[RequestOf[a]] # a
      /\ primary \ {a} \subseteq primary' /\ primary' \subseteq primary
  <2>0. RequestOf[a] \in Requests
    BY <1>0, <1>2
  <2>1. CASE d[1] = "ctx"
    <3>1. alias' = [alias EXCEPT ![RequestOf[a]] = IF @ = a THEN NoAttempt ELSE @] /\ primary' = primary
      BY <2>1 DEF Take
    <3>2. QED
      BY <1>0, <1>2, <2>0, <3>1
  <2>2. CASE d[1] # "ctx"
    <3>1. primary' = primary \ {a} /\ alias' = alias
      BY <2>2 DEF Take
    <3>2. PICK q \in Requests : d = <<"nil", q>>
      BY <2>2, CompletionKinds
    <3>3. alias[RequestOf[a]] # a
      BY <1>1, <3>2 DEF LifeInv, RequestLife
    <3>4. QED
      BY <3>1, <3>3
  <2>3. QED
    BY <2>1, <2>2
<1> HIDE DEF new
<1>7. \A b \in Attempts : doneBy[<<"ctx", b>>].phase # "idle" => doneBy[<<"ctx", b>>].of = b /\ pc[b] = "done"
  BY DEF LifeInv, AttemptLife
<1>8. ASSUME NEW q \in Requests PROVE RequestLife(q)'
  <2>1. RequestLife(q) /\ <<"nil", q>> \in Completions
    BY CompletionKinds DEF LifeInv
  <2>2. alias'[q] # NoAttempt => RequestOf[alias'[q]] = q
    BY <1>6, <2>1 DEF RequestLife
  <2>3. CASE <<"nil", q>> = d
    BY <1>3, <1>5, <1>6, <2>2, <2>3 DEF RequestLife
  <2>4. CASE <<"nil", q>> # d
    <3>1. doneBy'[<<"nil", q>>] = doneBy[<<"nil", q>>]
      BY <1>3, <2>1, <2>4
    <3>2. doneBy[<<"nil", q>>].phase # "idle" => doneBy[<<"nil", q>>].of \in Attempts
      BY <2>1 DEF IInv, CompletionInv
    <3>3. QED
      BY <1>0, <1>6, <2>1, <2>2, <3>1, <3>2 DEF RequestLife
  <2>5. QED
    BY <2>3, <2>4
<1>9. ASSUME NEW b \in Attempts, b # a PROVE AttemptLife(b)'
  <2>1. AttemptLife(b) /\ rec'[b] = rec[b] /\ (b \in primary' <=> b \in primary)
    BY <1>4, <1>6, <1>9 DEF LifeInv
  <2>2. \A e \in Completions : (doneBy[e].phase # "idle" /\ doneBy[e].of = b) \/ (doneBy'[e].phase # "idle" /\ doneBy'[e].of = b)
                               => doneBy'[e] = doneBy[e]
    BY <1>0, <1>3, <1>5, <1>9
  <2>3. Completing(b)' <=> Completing(b)
    BY <2>2 DEF Completing
  <2>4. (\E e \in Completions : doneBy[e].phase = "taken" /\ doneBy[e].of = b)
        => \E e \in Completions : doneBy'[e].phase = "taken" /\ doneBy'[e].of = b
    BY <2>2
  <2>5. doneBy'[<<"ctx", b>>] = doneBy[<<"ctx", b>>]
    BY <1>1, <1>3, <1>7, <1>9, CompletionKinds
  <2>6. \A q \in Requests : alias'[q] = b => alias[q] = b
    BY <1>0, <1>6
  <2>7. QED
    BY <1>0, <1>1, <2>1, <2>3, <2>4, <2>5, <2>6 DEF AttemptLife
<1>10. AttemptLife(a)'
  <2>1. AttemptLife(a) /\ Completing(a)
    BY <1>1, <1>2 DEF LifeInv, Completing
  <2>2. pc[a] \notin {"new", "routed", "counted", "loaded"}
    BY <2>1 DEF AttemptLife
  <2>3. a \in settled \/ \E e \in Completions : doneBy'[e].phase = "taken" /\ doneBy'[e].of = a
    <3>1. CASE rec[a].consumed
      <4>1. a \in settled \/ \E e \in Completions : doneBy[e].phase = "taken" /\ doneBy[e].of = a
        BY <2>1, <3>1 DEF AttemptLife
      <4>2. QED
        BY <1>1, <1>3, <4>1
    <3>2. CASE ~rec[a].consumed
      BY <1>3, <1>5, <3>2
    <3>3. QED
      BY <3>1, <3>2
  <2>4. /\ pc[a] # "done" => doneBy'[<<"ctx", a>>].phase = "idle"
        /\ doneBy'[<<"ctx", a>>].phase # "idle" => doneBy'[<<"ctx", a>>].of = a
    <3>1. CASE <<"ctx", a>> = d
      BY <1>1, <1>2, <1>3, <1>5, <1>7, <3>1
    <3>2. CASE <<"ctx", a>> # d
      BY <1>2, <1>3, <1>7, <2>1, <3>2, CompletionKinds
    <3>3. QED
      BY <3>1, <3>2
  <2>5. pc[a] = "done" => a \notin primary'
    BY <1>6, <2>1 DEF AttemptLife
  <2>6. QED
    BY <1>1, <1>4, <1>6, <2>2, <2>3, <2>4, <2>5 DEF AttemptLife
<1>11. QED
  BY <1>8, <1>9, <1>10 DEF LifeInv

\* donePodStats: the completion that took the record settles it.
LEMMA DoneLife ==
  ASSUME IInv, LifeInv, NEW d \in Completions, DonePodStats(d)
  PROVE  LifeInv'
<1> SUFFICES ASSUME NEW a, a = doneBy[d].of PROVE LifeInv'
  OBVIOUS
<1>0. /\ doneBy \in [Completions -> [phase : {"idle", "loaded", "taken"}, of : Attempts \cup {NoAttempt}]]
      /\ RequestOf \in [Attempts -> Requests] /\ NoAttempt \notin Attempts
  BY PodStatsAssumption DEF IInv, TypeOK, RequestTypeOK
<1>1. /\ UNCHANGED <<pc, rec, primary, alias>> /\ doneBy[d].phase = "taken"
      /\ settled' = settled \cup {a} /\ doneBy' = [doneBy EXCEPT ![d] = Idle]
  BY DEF DonePodStats
<1>2. a \in Attempts /\ rec[a].consumed
  BY <1>1 DEF IInv, CompletionInv
<1>3. /\ \A e \in Completions \ {d} : doneBy'[e] = doneBy[e]
      /\ doneBy'[d].phase = "idle"
  BY <1>0, <1>1 DEF Idle
<1>4. ASSUME NEW q \in Requests PROVE RequestLife(q)'
  <2>1. RequestLife(q) /\ <<"nil", q>> \in Completions
    BY CompletionKinds DEF LifeInv
  <2>2. QED
    BY <1>1, <1>3, <2>1 DEF RequestLife
<1>5. ASSUME NEW b \in Attempts, b # a PROVE AttemptLife(b)'
  <2>1. AttemptLife(b) /\ (b \in settled' <=> b \in settled)
    BY <1>1, <1>5 DEF LifeInv
  <2>2. \A e \in Completions : (doneBy[e].phase # "idle" /\ doneBy[e].of = b) \/ doneBy'[e].phase # "idle"
                               => doneBy'[e] = doneBy[e]
    BY <1>3, <1>5
  <2>3. Completing(b)' <=> Completing(b)
    BY <2>2 DEF Completing
  <2>4. (\E e \in Completions : doneBy[e].phase = "taken" /\ doneBy[e].of = b)
        => \E e \in Completions : doneBy'[e].phase = "taken" /\ doneBy'[e].of = b
    BY <2>2
  <2>5. <<"ctx", b>> \in Completions \ {d}
    BY <1>1, <1>5, <2>1, CompletionKinds DEF AttemptLife
  <2>6. doneBy'[<<"ctx", b>>] = doneBy[<<"ctx", b>>]
    BY <1>3, <2>5
  <2>7. QED
    BY <1>1, <2>1, <2>3, <2>4, <2>6 DEF AttemptLife
<1>6. AttemptLife(a)'
  <2>1. AttemptLife(a) /\ Completing(a) /\ a \in settled'
    BY <1>1, <1>2 DEF LifeInv, Completing
  <2>2. pc[a] \notin {"new", "routed", "counted", "loaded"}
    BY <2>1 DEF AttemptLife
  <2>3. <<"ctx", a>> \in Completions
    BY <1>2, CompletionKinds
  <2>4. doneBy'[<<"ctx", a>>] = doneBy[<<"ctx", a>>]
        \/ (doneBy[<<"ctx", a>>].phase = "taken" /\ doneBy'[<<"ctx", a>>].phase = "idle")
    BY <1>1, <1>3, <2>3
  <2>5. QED
    BY <1>1, <1>2, <2>1, <2>2, <2>4 DEF AttemptLife
<1>7. QED
  BY <1>4, <1>5, <1>6 DEF LifeInv

\* Every step keeps the hand-over in order.
LEMMA LifeKept == IInv /\ LifeInv /\ [Next]_vars => LifeInv'
<1> SUFFICES ASSUME IInv, LifeInv, [Next]_vars PROVE LifeInv'
  OBVIOUS
<1>1. CASE UNCHANGED requestVars
  <2>1. \A a \in Attempts : Completing(a)' <=> Completing(a)
    BY <1>1 DEF Completing, requestVars
  <2>2. \A a \in Attempts : AttemptLife(a) => AttemptLife(a)'
    BY <1>1, <2>1 DEF AttemptLife, requestVars
  <2>3. QED
    BY <1>1, <2>2 DEF LifeInv, RequestLife, requestVars
<1>2. CASE RequestNext
  <2>1. \A r \in Cancelled : r \in Requests
    BY PodStatsAssumption
  <2>2. QED
    BY <1>2, <2>1, EarlySteps, StoreLife, TakeByCtxLife, TakeByRequestLife, TakeLife, DoneLife DEF RequestNext
<1>3. QED
  BY <1>1, <1>2 DEF Next, InformerNext, AddPod, UpdatePodDelete, DeletePod, GraceExpires, UpdatePodAdd,
     UpdatePodDrop, vars, requestVars

\* Once a request's ctx completion is over its increment has been given back and podStats holds
\* nothing of it, whichever of the racing ctx and nil-ctx completions won.
THEOREM ReleaseCorrect == Spec => []CompletionReleases
<1>1. IInv /\ LifeInv => CompletionReleases
  <2> SUFFICES ASSUME IInv, LifeInv, NEW a \in Attempts, pc[a] = "done", rec[a].pod # 0, ~Completing(a)
               PROVE  a \in settled /\ a \notin primary /\ alias[RequestOf[a]] # a
    BY DEF CompletionReleases
  <2>1. AttemptLife(a) /\ <<"ctx", a>> \in Completions
    BY CompletionKinds DEF LifeInv
  <2>2. a \notin primary /\ rec[a].consumed
    BY <2>1 DEF AttemptLife
  <2>3. a \in settled
    BY <2>1, <2>2 DEF AttemptLife, Completing
  <2>4. alias[RequestOf[a]] # a
    BY <2>1, <2>2 DEF AttemptLife, Completing
  <2>5. QED
    BY <2>2, <2>3, <2>4
<1>2. Spec => [](IInv /\ LifeInv)
  BY InitIInv, InitLife, NextKeeps, LifeKept, PTL DEF Spec
<1>3. QED
  BY <1>1, <1>2, PTL


-----------------------------------------------------------------------------
(* The pending load and the completions of a generation.  Both are kept on *)
(* the carriers of the generation: the live object and the snapshots.      *)

\* The loads the unfinished requests of generation g have added, and its settled requests.
PendSum(g) == SumFunctionOnSet([a \in Attempts |-> rec[a].load], InFlight(g))
DoneSet(g) == {a \in settled : heap[rec[a].pod].gen = g}

\* The two counters are right on every carrier.
LoadInv ==
  \A k \in Keys :
    /\ metaPods[k] # 0 =>
         /\ heap[metaPods[k]].c.pending = PendSum(heap[metaPods[k]].gen)
         /\ heap[metaPods[k]].c.completed = Cardinality(DoneSet(heap[metaPods[k]].gen))
    /\ recentlyDeletedPods[k].pod # 0 =>
         /\ recentlyDeletedPods[k].c.pending = PendSum(recentlyDeletedPods[k].gen)
         /\ recentlyDeletedPods[k].c.completed = Cardinality(DoneSet(recentlyDeletedPods[k].gen))

\* The share of a generation: d when it is the one that moves.
Share(g, gen, d) == IF g = gen THEN d ELSE 0

\* Every carrier of generation gen has its pending load moved by dp and its completions by dc.
CarriersMove(gen, dp, dc) ==
  /\ SameIdentities
  /\ \A k \in Keys :
       /\ metaPods[k] # 0 =>
            /\ heap'[metaPods[k]].c.pending =
                 heap[metaPods[k]].c.pending + Share(heap[metaPods[k]].gen, gen, dp)
            /\ heap'[metaPods[k]].c.completed =
                 heap[metaPods[k]].c.completed + Share(heap[metaPods[k]].gen, gen, dc)
       /\ recentlyDeletedPods[k].pod # 0 =>
            /\ recentlyDeletedPods'[k].c.pending =
                 recentlyDeletedPods[k].c.pending + Share(recentlyDeletedPods[k].gen, gen, dp)
            /\ recentlyDeletedPods'[k].c.completed =
                 recentlyDeletedPods[k].c.completed + Share(recentlyDeletedPods[k].gen, gen, dc)

\* The records say the same of every generation.
RecordsMove(gen, dp, dc) ==
  \A g \in Nat : /\ PendSum(g)' = PendSum(g) + Share(g, gen, dp)
                 /\ Cardinality(DoneSet(g)') = Cardinality(DoneSet(g)) + Share(g, gen, dc)

\* When carriers and records move together the counters stay right.
LEMMA MovesKeep ==
  ASSUME IInv, LoadInv, NEW gen, NEW dp, NEW dc, CarriersMove(gen, dp, dc), RecordsMove(gen, dp, dc)
  PROVE  LoadInv'
<1> SUFFICES ASSUME NEW k \in Keys
             PROVE  (/\ metaPods[k] # 0 =>
                          /\ heap[metaPods[k]].c.pending = PendSum(heap[metaPods[k]].gen)
                          /\ heap[metaPods[k]].c.completed = Cardinality(DoneSet(heap[metaPods[k]].gen))
                     /\ recentlyDeletedPods[k].pod # 0 =>
                          /\ recentlyDeletedPods[k].c.pending = PendSum(recentlyDeletedPods[k].gen)
                          /\ recentlyDeletedPods[k].c.completed =
                               Cardinality(DoneSet(recentlyDeletedPods[k].gen)))'
  BY DEF LoadInv
<1>1. /\ metaPods'[k] = metaPods[k] /\ recentlyDeletedPods'[k].pod = recentlyDeletedPods[k].pod
      /\ recentlyDeletedPods'[k].gen = recentlyDeletedPods[k].gen /\ recentlyDeletedPods[k].gen \in Nat
  BY DEF CarriersMove, SameIdentities, IInv, TypeOK, PodTypeOK, Snapshot
<1>2. metaPods[k] # 0 => heap'[metaPods[k]].gen = heap[metaPods[k]].gen /\ heap[metaPods[k]].gen \in Nat
  BY GenerationOwner DEF CarriersMove, SameIdentities, IInv, TypeOK, PodTypeOK, Pod
<1>3. \A g \in Nat : PendSum(g)' = PendSum(g) + Share(g, gen, dp)
                     /\ Cardinality(DoneSet(g)') = Cardinality(DoneSet(g)) + Share(g, gen, dc)
  BY DEF RecordsMove
<1>4. CASE metaPods[k] # 0
  <2>1. recentlyDeletedPods[k].pod = 0
    BY <1>4 DEF IInv, MapInv
  <2>2. PICK g \in Nat : g = heap[metaPods[k]].gen
    BY <1>2, <1>4
  <2>3. heap'[metaPods[k]].c.pending = PendSum(g)'
        /\ heap'[metaPods[k]].c.completed = Cardinality(DoneSet(g)')
    BY <1>3, <1>4, <2>2 DEF LoadInv, CarriersMove
  <2>4. QED
    BY <1>1, <1>2, <1>4, <2>1, <2>2, <2>3
<1>5. CASE metaPods[k] = 0 /\ recentlyDeletedPods[k].pod # 0
  <2>2. PICK g \in Nat : g = recentlyDeletedPods[k].gen
    BY <1>1
  <2>3. recentlyDeletedPods'[k].c.pending = PendSum(g)'
        /\ recentlyDeletedPods'[k].c.completed = Cardinality(DoneSet(g)')
    BY <1>3, <1>5, <2>2 DEF LoadInv, CarriersMove
  <2>4. QED
    BY <1>1, <1>5, <2>2, <2>3
<1>6. QED
  BY <1>1, <1>4, <1>5

\* The sums and sets are over finitely many attempts.
LEMMA RecordsFinite ==
  ASSUME IInv
  PROVE  \A g : /\ IsFiniteSet(InFlight(g)) /\ InFlight(g) \subseteq Attempts
                /\ IsFiniteSet(DoneSet(g)) /\ Cardinality(DoneSet(g)) \in Nat
                /\ [a \in Attempts |-> rec[a].load] \in [Attempts -> Int]
                /\ PendSum(g) \in Int
<1>1. [a \in Attempts |-> rec[a].load] \in [Attempts -> Int]
  BY DEF IInv, TypeOK, RequestTypeOK
<1>2. ASSUME NEW g
      PROVE  IsFiniteSet(InFlight(g)) /\ InFlight(g) \subseteq Attempts /\ IsFiniteSet(DoneSet(g))
  <2>1. DoneSet(g) \in SUBSET Attempts
    BY DEF DoneSet, IInv, TypeOK, RequestTypeOK
  <2>2. IsFiniteSet(DoneSet(g))
    BY <2>1, PodStatsAssumption, FS_Subset
  <2>3. InFlight(g) \subseteq Attempts
    BY DEF InFlight
  <2>4. QED
    BY <2>2, <2>3, InFlightFinite
<1>3. ASSUME NEW g PROVE PendSum(g) \in Int
  <2> DEFINE f == [a \in Attempts |-> rec[a].load]
             S == InFlight(g)
  <2>1. IsFiniteSet(S) /\ \A x \in S : f[x] \in Int
    BY <1>1, <1>2
  <2> HIDE DEF f, S
  <2>2. SumFunctionOnSet(f, S) \in Int
    BY <2>1, SumInt
  <2>3. QED
    BY <2>2 DEF PendSum, f, S
<1>4. QED
  BY <1>1, <1>2, <1>3, FS_CardinalityType


\* Nothing about records and generations moves, so neither do the sums.
LEMMA RecordsStay ==
  ASSUME IInv, UNCHANGED settled,
         \A a \in Attempts : rec'[a].pod = rec[a].pod /\ rec'[a].load = rec[a].load,
         \A a \in Attempts : rec[a].pod # 0 => heap'[rec[a].pod].gen = heap[rec[a].pod].gen
  PROVE  \A g : PendSum(g)' = PendSum(g) /\ DoneSet(g)' = DoneSet(g)
<1> SUFFICES ASSUME NEW g PROVE PendSum(g)' = PendSum(g) /\ DoneSet(g)' = DoneSet(g)
  OBVIOUS
<1>1. InFlight(g)' = InFlight(g)
  BY DEF InFlight
<1>2. [a \in Attempts |-> rec[a].load]' = [a \in Attempts |-> rec[a].load]
  OBVIOUS
<1>3. \A a \in settled : a \in Attempts /\ rec[a].pod # 0
  BY DEF IInv, RecordInv, TypeOK, RequestTypeOK
<1>4. DoneSet(g)' = DoneSet(g)
  BY <1>3 DEF DoneSet
<1>5. QED
  BY <1>1, <1>2, <1>4 DEF PendSum

\* addPodStats, first critical section: the new record has no load yet.
LEMMA RecordsCount ==
  ASSUME IInv, NEW a \in Attempts, NEW o \in Objs, rec[a].pod = 0, a \notin settled,
         rec' = [rec EXCEPT ![a] = [pod |-> o, load |-> 0, consumed |-> FALSE]],
         UNCHANGED settled, \A p \in Objs : heap'[p].gen = heap[p].gen
  PROVE  \A g : PendSum(g)' = PendSum(g) /\ DoneSet(g)' = DoneSet(g)
<1> SUFFICES ASSUME NEW g PROVE PendSum(g)' = PendSum(g) /\ DoneSet(g)' = DoneSet(g)
  OBVIOUS
<1> DEFINE f == [b \in Attempts |-> rec[b].load]
           h == [b \in Attempts |-> rec'[b].load]
           S == InFlight(g)
<1>0. rec \in [Attempts -> [pod : 0..MaxObjs, load : Nat, consumed : BOOLEAN]] /\ 0 \notin Objs
  BY DEF IInv, TypeOK, RequestTypeOK, Objs
<1>1. /\ rec'[a].pod = o /\ rec'[a].load = 0 /\ \A b \in Attempts \ {a} : rec'[b] = rec[b]
  BY <1>0
<1>2. \A b \in Attempts : rec[b].pod # 0 => rec[b].pod \in Objs
  BY GenerationOwner
<1>3. IsFiniteSet(S) /\ a \notin S /\ S \subseteq Attempts
  BY RecordsFinite DEF InFlight
<1>4. InFlight(g)' = S \/ InFlight(g)' = S \cup {a}
  BY <1>0, <1>1, <1>2 DEF InFlight
<1>5. /\ \A y \in S : f[y] \in Int /\ h[y] = f[y]
      /\ \A y \in S \cup {a} : h[y] \in Int
      /\ h[a] = 0
  BY <1>0, <1>1, <1>3
<1>6. PendSum(g) = SumFunctionOnSet(f, S) /\ PendSum(g)' = SumFunctionOnSet(h, InFlight(g)')
  BY DEF PendSum
<1> HIDE DEF f, h, S
<1>7. SumFunctionOnSet(f, S) = SumFunctionOnSet(h, S) /\ SumFunctionOnSet(h, S) \in Int
  BY <1>3, <1>5, SumEqual, SumInt
<1>8. SumFunctionOnSet(h, S \cup {a}) = SumFunctionOnSet(h, S) + h[a]
  <2>1. IsFiniteSet(S) /\ a \notin S
    BY <1>3
  <2>2. \A y \in S \cup {a} : h[y] \in Int
    BY <1>5
  <2>3. QED
    BY <2>1, <2>2, SumAdd
<1>9. DoneSet(g)' = DoneSet(g)
  <2>1. \A b \in settled : b \in Attempts \ {a} /\ rec[b].pod # 0
    BY DEF IInv, RecordInv, TypeOK, RequestTypeOK
  <2>2. QED
    BY <1>1, <1>2, <2>1 DEF DoneSet
<1>10. SumFunctionOnSet(h, S \cup {a}) = SumFunctionOnSet(f, S)
  BY <1>5, <1>7, <1>8
<1>11. SumFunctionOnSet(h, InFlight(g)') = SumFunctionOnSet(f, S)
  BY <1>4, <1>7, <1>10
<1>12. QED
  BY <1>6, <1>9, <1>11

\* addPodStats, second critical section: the record takes on its load.
LEMMA RecordsLoad ==
  ASSUME IInv, NEW a \in Attempts, rec[a].pod # 0, a \notin settled, rec[a].load = 0, NEW d \in Nat,
         rec' = [rec EXCEPT ![a].load = d],
         UNCHANGED settled, \A p \in Objs : heap'[p].gen = heap[p].gen
  PROVE  \A gen : gen = heap[rec[a].pod].gen => RecordsMove(gen, d, 0)
<1> SUFFICES ASSUME NEW gen, gen = heap[rec[a].pod].gen, NEW g \in Nat
             PROVE  /\ PendSum(g)' = PendSum(g) + Share(g, gen, d)
                    /\ Cardinality(DoneSet(g)') = Cardinality(DoneSet(g)) + Share(g, gen, 0)
  BY DEF RecordsMove
<1> DEFINE f == [b \in Attempts |-> rec[b].load]
           h == [b \in Attempts |-> rec'[b].load]
           S == InFlight(g)
<1>0. rec \in [Attempts -> [pod : 0..MaxObjs, load : Nat, consumed : BOOLEAN]] /\ 0 \notin Objs
  BY DEF IInv, TypeOK, RequestTypeOK, Objs
<1>1. rec'[a].pod = rec[a].pod /\ rec'[a].load = d /\ \A b \in Attempts \ {a} : rec'[b] = rec[b]
  BY <1>0
<1>2. \A b \in Attempts : rec[b].pod # 0 => rec[b].pod \in Objs
  BY GenerationOwner
<1>3. IsFiniteSet(S) /\ S \subseteq Attempts /\ (a \in S <=> g = gen)
  BY RecordsFinite DEF InFlight
<1>4. InFlight(g)' = S
  BY <1>1, <1>2 DEF InFlight
<1>5. /\ \A y \in S : f[y] \in Int /\ h[y] \in Int
      /\ \A y \in S \ {a} : h[y] = f[y]
      /\ h[a] = d /\ f[a] = 0
  BY <1>0, <1>1, <1>3
<1>6. PendSum(g) = SumFunctionOnSet(f, S) /\ PendSum(g)' = SumFunctionOnSet(h, S)
  BY <1>4 DEF PendSum
<1>7. DoneSet(g)' = DoneSet(g)
  <2>1. \A b \in settled : b \in Attempts \ {a} /\ rec[b].pod # 0
    BY DEF IInv, RecordInv, TypeOK, RequestTypeOK
  <2>2. QED
    BY <1>1, <1>2, <2>1 DEF DoneSet
<1>8. Cardinality(DoneSet(g)) \in Nat /\ PendSum(g) \in Int
  BY RecordsFinite
<1>9. Cardinality(DoneSet(g)') = Cardinality(DoneSet(g)) + Share(g, gen, 0)
  BY <1>7, <1>8 DEF Share
<1> HIDE DEF f, h, S
<1>10. CASE g = gen
  <2>1. a \in S
    BY <1>3, <1>10
  <2>2. SumFunctionOnSet(h, S) = SumFunctionOnSet(f, S) - f[a] + h[a]
    BY <1>3, <1>5, <2>1, SumChange
  <2>3. QED
    BY <1>5, <1>6, <1>8, <1>9, <1>10, <2>2 DEF Share
<1>11. CASE g # gen
  <2>1. \A y \in S : f[y] \in Int /\ h[y] = f[y]
    BY <1>3, <1>5, <1>11
  <2>2. SumFunctionOnSet(f, S) = SumFunctionOnSet(h, S)
    BY <1>3, <2>1, SumEqual
  <2>3. QED
    BY <1>6, <1>8, <1>9, <1>11, <2>2 DEF Share
<1>12. QED
  BY <1>10, <1>11

\* donePodStats: the record's load leaves the sum, and one more request is settled.
LEMMA RecordsDone ==
  ASSUME IInv, NEW a \in Attempts, rec[a].pod # 0, a \notin settled,
         UNCHANGED rec, settled' = settled \cup {a}, \A p \in Objs : heap'[p].gen = heap[p].gen
  PROVE  \A gen : gen = heap[rec[a].pod].gen => RecordsMove(gen, -rec[a].load, 1)
<1> SUFFICES ASSUME NEW gen, gen = heap[rec[a].pod].gen, NEW g \in Nat
             PROVE  /\ PendSum(g)' = PendSum(g) + Share(g, gen, -rec[a].load)
                    /\ Cardinality(DoneSet(g)') = Cardinality(DoneSet(g)) + Share(g, gen, 1)
  BY DEF RecordsMove
<1> DEFINE f == [b \in Attempts |-> rec[b].load]
           S == InFlight(g)
<1>0. rec[a].load \in Nat
  BY DEF IInv, TypeOK, RequestTypeOK
<1>1. \A b \in Attempts : rec[b].pod # 0 => rec[b].pod \in Objs
  BY GenerationOwner
<1>2. \A b \in settled : b \in Attempts /\ rec[b].pod # 0
  BY DEF IInv, RecordInv, TypeOK, RequestTypeOK
<1>3. /\ IsFiniteSet(S) /\ S \subseteq Attempts /\ f \in [Attempts -> Int] /\ f[a] = rec[a].load
      /\ IsFiniteSet(DoneSet(g)) /\ Cardinality(DoneSet(g)) \in Nat /\ PendSum(g) \in Int
      /\ a \notin DoneSet(g) /\ (a \in S <=> g = gen)
  BY RecordsFinite DEF DoneSet, InFlight
<1>4. PendSum(g) = SumFunctionOnSet(f, S) /\ PendSum(g)' = SumFunctionOnSet(f, InFlight(g)')
  BY DEF PendSum
<1>5. InFlight(g)' = S \ {a}
  BY <1>1 DEF InFlight
<1> HIDE DEF f, S
<1>6. CASE g = gen
  <2>1. DoneSet(g)' = DoneSet(g) \cup {a}
    BY <1>1, <1>2, <1>6 DEF DoneSet
  <2>2. Cardinality(DoneSet(g) \cup {a}) = Cardinality(DoneSet(g)) + 1
    BY <1>3, FS_AddElement
  <2>3. a \in S /\ \A y \in S : f[y] \in Int
    BY <1>3, <1>6
  <2>4. SumFunctionOnSet(f, S) = f[a] + SumFunctionOnSet(f, S \ {a})
    BY <1>3, <2>3, SumTakeOut
  <2>5. IsFiniteSet(S \ {a}) /\ \A y \in S \ {a} : f[y] \in Int
    BY <1>3, <2>3, FS_Subset
  <2>6. SumFunctionOnSet(f, S \ {a}) \in Int
    BY <2>5, SumInt
  <2>7. PendSum(g)' = PendSum(g) + (-rec[a].load)
    BY <1>0, <1>3, <1>4, <1>5, <2>4, <2>6
  <2>8. QED
    BY <1>6, <2>1, <2>2, <2>7 DEF Share
<1>7. CASE g # gen
  <2>1. DoneSet(g)' = DoneSet(g)
    BY <1>1, <1>2, <1>7 DEF DoneSet
  <2>2. S \ {a} = S
    BY <1>3, <1>7
  <2>3. QED
    BY <1>3, <1>4, <1>5, <1>7, <2>1, <2>2 DEF Share
<1>8. QED
  BY <1>6, <1>7


\* A step of the records alone, the carriers' counters being left alone.
LEMMA StayKeeps ==
  ASSUME IInv, LoadInv, SameIdentities,
         \A o \in Objs : /\ heap'[o].c.pending = heap[o].c.pending
                         /\ heap'[o].c.completed = heap[o].c.completed,
         \A k \in Keys : /\ recentlyDeletedPods'[k].c.pending = recentlyDeletedPods[k].c.pending
                         /\ recentlyDeletedPods'[k].c.completed = recentlyDeletedPods[k].c.completed,
         \A g : PendSum(g)' = PendSum(g) /\ DoneSet(g)' = DoneSet(g)
  PROVE  LoadInv'
<1>1. \A k \in Keys : metaPods'[k] = metaPods[k] /\ (metaPods[k] # 0 => metaPods[k] \in Objs)
  BY GenerationOwner DEF SameIdentities
<1>2. \A k \in Keys : metaPods[k] # 0 => heap'[metaPods[k]].gen = heap[metaPods[k]].gen
  BY <1>1 DEF SameIdentities
<1>3. QED
  BY <1>1, <1>2 DEF LoadInv, SameIdentities

\* deletePodLocked: the snapshot carries the object's counters.
LEMMA DeleteLoads ==
  ASSUME IInv, LoadInv, NEW k \in Keys, DeletePodLocked(k), UNCHANGED heap, UNCHANGED requestVars
  PROVE  LoadInv'
<1>0. \A g : PendSum(g)' = PendSum(g) /\ DoneSet(g)' = DoneSet(g)
  BY RecordsStay DEF requestVars
<1>1. CASE metaPods[k] = 0
  <2>1. UNCHANGED <<metaPods, recentlyDeletedPods>>
    BY <1>1 DEF DeletePodLocked
  <2>2. QED
    BY <1>0, <2>1 DEF LoadInv
<1>2. CASE metaPods[k] # 0
  <2> DEFINE snap == SnapshotOf(metaPods[k])
  <2>1. /\ metaPods' = [metaPods EXCEPT ![k] = 0]
        /\ recentlyDeletedPods' = Pruned([recentlyDeletedPods EXCEPT ![k] = snap])
    BY <1>2 DEF DeletePodLocked
  <2>2. snap.gen = heap[metaPods[k]].gen /\ snap.c = heap[metaPods[k]].c /\ ~snap.expired
    BY DEF SnapshotOf
  <2> HIDE DEF snap
  <2>3. /\ recentlyDeletedPods'[k] = snap
        /\ \A j \in Keys : j # k =>
             recentlyDeletedPods'[j] = recentlyDeletedPods[j] \/ recentlyDeletedPods'[j] = NoSnap
    BY <2>1, <2>2 DEF Pruned, IInv, TypeOK, PodTypeOK
  <2>4. metaPods'[k] = 0 /\ \A j \in Keys : j # k => metaPods'[j] = metaPods[j]
    BY <2>1 DEF IInv, TypeOK, PodTypeOK
  <2>5. QED
    BY <1>0, <1>2, <2>2, <2>3, <2>4, NoSnapType DEF LoadInv
<1>3. QED
  BY <1>1, <1>2

\* GraceExpires only marks the snapshot.
LEMMA ExpireLoads ==
  ASSUME IInv, LoadInv, NEW k \in Keys, GraceExpires(k)
  PROVE  LoadInv'
<1>1. \A j \in Keys : /\ recentlyDeletedPods'[j].pod = recentlyDeletedPods[j].pod
                      /\ recentlyDeletedPods'[j].gen = recentlyDeletedPods[j].gen
                      /\ recentlyDeletedPods'[j].c = recentlyDeletedPods[j].c
  BY DEF GraceExpires, IInv, TypeOK, PodTypeOK, Snapshot
<1>2. UNCHANGED <<metaPods, heap, rec, settled>>
  BY DEF GraceExpires, requestVars
<1>3. \A g : PendSum(g)' = PendSum(g) /\ DoneSet(g)' = DoneSet(g)
  BY <1>2, RecordsStay
<1>4. QED
  BY <1>1, <1>2, <1>3 DEF LoadInv

\* addPodLocked: a resumed generation keeps its counters; a new one has no records yet.
LEMMA AddLoads ==
  ASSUME IInv, LoadInv, NEW k \in Keys, NEW ip \in IPs, AddPodLocked(k, ip), UNCHANGED requestVars
  PROVE  LoadInv'
<1> DEFINE s == recentlyDeletedPods[k]
           gen == IF Resumes(k, ip) THEN s.gen ELSE nextStatsGeneration + 1
           c == IF Resumes(k, ip) THEN s.c ELSE Zero
           n == allocated + 1
<1>1. recentlyDeletedPods' = [recentlyDeletedPods EXCEPT ![k] = NoSnap]
  BY DEF AddPodLocked
<1>2. recentlyDeletedPods'[k].pod = 0
      /\ \A j \in Keys : j # k => recentlyDeletedPods'[j] = recentlyDeletedPods[j]
  BY <1>1, NoSnapType DEF IInv, TypeOK, PodTypeOK
<1>3. CASE metaPods[k] # 0
  <2>1. UNCHANGED <<metaPods, heap>>
    BY <1>3 DEF AddPodLocked
  <2>2. \A g : PendSum(g)' = PendSum(g) /\ DoneSet(g)' = DoneSet(g)
    BY <2>1, RecordsStay DEF requestVars
  <2>3. QED
    BY <1>2, <2>1, <2>2 DEF LoadInv
<1>4. CASE metaPods[k] = 0
  <2>1. allocated < MaxObjs /\ metaPods' = [metaPods EXCEPT ![k] = n]
        /\ heap' = [heap EXCEPT ![n] = [key |-> k, ip |-> ip, gen |-> gen, c |-> c]]
    BY <1>4 DEF AddPodLocked
  <2>2. n \in Objs /\ allocated \in Nat /\ nextStatsGeneration \in Nat
    BY <2>1, PodStatsAssumption DEF IInv, TypeOK, PodTypeOK, Objs
  <2>3. heap'[n].gen = gen /\ heap'[n].c = c /\ \A o \in Objs \ {n} : heap'[o] = heap[o]
    BY <2>1, <2>2 DEF IInv, TypeOK, PodTypeOK
  <2>4. metaPods'[k] = n /\ \A j \in Keys \ {k} : metaPods'[j] = metaPods[j]
    BY <2>1 DEF IInv, TypeOK, PodTypeOK
  <2>5. \A a \in Attempts : rec[a].pod # 0 => heap'[rec[a].pod] = heap[rec[a].pod] /\ rec[a].pod \in Objs
    <3>1. \A a \in Attempts : rec[a].pod # 0 => rec[a].pod \in Objs /\ rec[a].pod <= allocated
      BY GenerationOwner DEF IInv, RecordInv
    <3>2. QED
      BY <2>2, <2>3, <3>1 DEF Objs
  <2>6. \A g : PendSum(g)' = PendSum(g) /\ DoneSet(g)' = DoneSet(g)
    BY <2>5, RecordsStay DEF requestVars
  <2>7. c.pending = PendSum(gen) /\ c.completed = Cardinality(DoneSet(gen))
    <3>1. CASE Resumes(k, ip)
      BY <3>1 DEF LoadInv, Resumes
    <3>2. CASE ~Resumes(k, ip)
      <4>1. \A o \in Objs : heap[o].gen # gen
        BY <2>2, <3>2 DEF IInv, HeapInv, TypeOK, PodTypeOK, Pod
      <4>2. InFlight(gen) = {}
        BY <2>5, <4>1 DEF InFlight
      <4>3. DoneSet(gen) = {}
        BY <2>5, <4>1 DEF DoneSet, IInv, RecordInv, TypeOK, RequestTypeOK
      <4>4. c.pending = 0 /\ c.completed = 0
        BY <3>2 DEF Zero
      <4> HIDE DEF gen, c
      <4>5. PendSum(gen) = 0
        BY <4>2, SumEmpty DEF PendSum
      <4>6. QED
        BY <4>3, <4>4, <4>5, FS_EmptySet
    <3>3. QED
      BY <3>1, <3>2
  <2> HIDE DEF gen, c
  <2>8. \A j \in Keys \ {k} : metaPods[j] # 0 => heap'[metaPods[j]] = heap[metaPods[j]]
    <3>1. \A j \in Keys : metaPods[j] # 0 => metaPods[j] \in Objs /\ metaPods[j] <= allocated
      BY GenerationOwner DEF IInv, MapInv
    <3>2. QED
      BY <2>2, <2>3, <3>1 DEF Objs
  <2>9. QED
    BY <1>2, <2>2, <2>3, <2>4, <2>6, <2>7, <2>8 DEF LoadInv
<1>5. QED
  BY <1>3, <1>4


\* Where a record's delta lands: on the carrier that stands for the record's generation now, and
\* on no carrier of another generation, even when the record's own object is already orphaned
\* (resolvePodOrSnapshotLocked).
LEMMA DeltaLands ==
  ASSUME IInv, NEW k \in Keys, NEW o \in Objs, heap[o].key = k, heap[o].gen # 0,
         NEW dp \in Int, NEW dc \in Int, NEW c \in Counters, UNCHANGED <<metaPods, allocated, nextStatsGeneration>>,
         \/ /\ ResolvesToSnapshot(k, o) /\ UNCHANGED heap
            /\ recentlyDeletedPods' = [recentlyDeletedPods EXCEPT ![k].c = c]
            /\ c.pending = recentlyDeletedPods[k].c.pending + dp
            /\ c.completed = recentlyDeletedPods[k].c.completed + dc
         \/ /\ ~ResolvesToSnapshot(k, o) /\ UNCHANGED recentlyDeletedPods
            /\ heap' = [heap EXCEPT ![ResolvedPod(k, o)].c = c]
            /\ c.pending = heap[ResolvedPod(k, o)].c.pending + dp
            /\ c.completed = heap[ResolvedPod(k, o)].c.completed + dc
  PROVE  \A gen : gen = heap[o].gen => CarriersMove(gen, dp, dc)
<1> SUFFICES ASSUME NEW gen, gen = heap[o].gen PROVE CarriersMove(gen, dp, dc)
  OBVIOUS
<1>1. /\ \A j \in Keys \ {k} : /\ metaPods[j] # 0 => heap[metaPods[j]].gen # gen
                               /\ recentlyDeletedPods[j].pod # 0 => recentlyDeletedPods[j].gen # gen
      /\ \A j \in Keys : metaPods[j] # 0 => metaPods[j] \in Objs /\ recentlyDeletedPods[j].pod = 0
  BY GenerationOwner DEF IInv, GenInv, MapInv
<1>2. /\ \A q \in Objs : heap[q].c.pending \in Int /\ heap[q].c.completed \in Int
      /\ \A j \in Keys : recentlyDeletedPods[j].c.pending \in Int /\ recentlyDeletedPods[j].c.completed \in Int
  BY DEF IInv, TypeOK, PodTypeOK, Pod, Snapshot, Counters
<1>3. TypeOK
  BY DEF IInv
<1>4. CASE ResolvesToSnapshot(k, o)
  <2>1. /\ UNCHANGED heap /\ recentlyDeletedPods' = [recentlyDeletedPods EXCEPT ![k].c = c]
        /\ c.pending = recentlyDeletedPods[k].c.pending + dp
        /\ c.completed = recentlyDeletedPods[k].c.completed + dc
    BY <1>4
  <2>2. metaPods[k] = 0 /\ recentlyDeletedPods[k].gen = gen
    BY <1>4 DEF ResolvesToSnapshot, SameStatsGeneration
  <2>3. /\ SameIdentities /\ recentlyDeletedPods'[k].c = c
        /\ \A j \in Keys : j # k => recentlyDeletedPods'[j] = recentlyDeletedPods[j]
    BY <1>3, <2>1, SnapCounterStep
  <2>4. ASSUME NEW j \in Keys, metaPods[j] # 0
        PROVE  /\ heap'[metaPods[j]].c.pending =
                    heap[metaPods[j]].c.pending + Share(heap[metaPods[j]].gen, gen, dp)
               /\ heap'[metaPods[j]].c.completed =
                    heap[metaPods[j]].c.completed + Share(heap[metaPods[j]].gen, gen, dc)
    BY <1>1, <1>2, <2>1, <2>2, <2>4 DEF Share
  <2>5. ASSUME NEW j \in Keys, recentlyDeletedPods[j].pod # 0
        PROVE  /\ recentlyDeletedPods'[j].c.pending =
                    recentlyDeletedPods[j].c.pending + Share(recentlyDeletedPods[j].gen, gen, dp)
               /\ recentlyDeletedPods'[j].c.completed =
                    recentlyDeletedPods[j].c.completed + Share(recentlyDeletedPods[j].gen, gen, dc)
    BY <1>1, <1>2, <2>1, <2>2, <2>3, <2>5 DEF Share
  <2>6. QED
    BY <2>3, <2>4, <2>5 DEF CarriersMove
<1>5. CASE ~ResolvesToSnapshot(k, o)
  <2> DEFINE p == ResolvedPod(k, o)
  <2>1. /\ UNCHANGED recentlyDeletedPods /\ heap' = [heap EXCEPT ![p].c = c]
        /\ c.pending = heap[p].c.pending + dp
        /\ c.completed = heap[p].c.completed + dc
    BY <1>5
  <2>2. p \in Objs /\ heap[p].gen = gen
    BY ResolvedOwner
  <2>3. metaPods[k] # 0 => metaPods[k] = p \/ heap[metaPods[k]].gen # gen
    BY DEF ResolvedPod, SameStatsGeneration
  <2>4. recentlyDeletedPods[k].pod # 0 => recentlyDeletedPods[k].gen # gen
    BY <1>5 DEF ResolvesToSnapshot, SameStatsGeneration, IInv, MapInv
  <2> HIDE DEF p
  <2>5. /\ SameIdentities /\ heap'[p].c = c
        /\ \A q \in Objs : q # p => heap'[q] = heap[q]
    BY <1>3, <2>1, <2>2, HeapCounterStep
  <2>6. ASSUME NEW j \in Keys, metaPods[j] # 0
        PROVE  /\ heap'[metaPods[j]].c.pending =
                    heap[metaPods[j]].c.pending + Share(heap[metaPods[j]].gen, gen, dp)
               /\ heap'[metaPods[j]].c.completed =
                    heap[metaPods[j]].c.completed + Share(heap[metaPods[j]].gen, gen, dc)
    <3>1. CASE metaPods[j] = p
      BY <2>1, <2>2, <2>5, <3>1 DEF Share
    <3>2. CASE metaPods[j] # p
      <4>1. heap'[metaPods[j]] = heap[metaPods[j]] /\ heap[metaPods[j]].gen # gen
        BY <1>1, <2>3, <2>5, <2>6, <3>2
      <4>2. QED
        BY <1>1, <1>2, <2>6, <4>1 DEF Share
    <3>3. QED
      BY <3>1, <3>2
  <2>7. ASSUME NEW j \in Keys, recentlyDeletedPods[j].pod # 0
        PROVE  /\ recentlyDeletedPods'[j].c.pending =
                    recentlyDeletedPods[j].c.pending + Share(recentlyDeletedPods[j].gen, gen, dp)
               /\ recentlyDeletedPods'[j].c.completed =
                    recentlyDeletedPods[j].c.completed + Share(recentlyDeletedPods[j].gen, gen, dc)
    BY <1>1, <1>2, <2>1, <2>4, <2>7 DEF Share
  <2>8. QED
    BY <2>5, <2>6, <2>7 DEF CarriersMove
<1>6. QED
  BY <1>4, <1>5

\* addPodStats, first critical section: only running counts move.
LEMMA CountLoads ==
  ASSUME IInv, LoadInv, NEW a \in Attempts, AddPodStats(a)
  PROVE  LoadInv'
<1> DEFINE k == target[a].key
           r(o) == [pod |-> o, load |-> 0, consumed |-> FALSE]
<1>0. TypeOK /\ UNCHANGED <<metaPods, allocated, nextStatsGeneration, settled>>
  BY DEF AddPodStats, IInv
<1>1. pc[a] = "routed"
  BY DEF AddPodStats, CountOnPod, CountOnSnapshot, CountNowhere
<1>2. rec[a].pod = 0 /\ a \notin settled /\ k \in Keys
  BY <1>1 DEF IInv, RecordInv, TypeOK, RequestTypeOK
<1>3. CASE CountOnPod(a)
  <2> DEFINE o == metaPods[k]
             c == [heap[o].c EXCEPT !.running = @ + 1]
  <2>1. /\ o # 0 /\ UNCHANGED recentlyDeletedPods
        /\ heap' = [heap EXCEPT ![o].c.running = @ + 1]
        /\ rec' = [rec EXCEPT ![a] = r(o)]
    BY <1>3 DEF CountOnPod
  <2>2. o \in Objs
    BY <1>2, <2>1, GenerationOwner
  <2>3. c \in Counters /\ c.pending = heap[o].c.pending /\ c.completed = heap[o].c.completed
    BY <2>2 DEF IInv, TypeOK, PodTypeOK, Pod, Counters
  <2>4. heap' = [heap EXCEPT ![o].c = c]
    BY <2>1
  <2> HIDE DEF c, o
  <2>5. SameIdentities /\ heap'[o].c = c /\ \A p \in Objs : p # o => heap'[p] = heap[p]
    BY <1>0, <2>1, <2>2, <2>3, <2>4, HeapCounterStep
  <2>6. \A g : PendSum(g)' = PendSum(g) /\ DoneSet(g)' = DoneSet(g)
    BY <1>0, <1>2, <2>1, <2>2, <2>5, RecordsCount DEF SameIdentities
  <2>7. QED
    BY <2>1, <2>2, <2>3, <2>5, <2>6, StayKeeps
<1>4. CASE CountOnSnapshot(a)
  <2> DEFINE s == recentlyDeletedPods[k]
             c == [s.c EXCEPT !.running = @ + 1]
             o == s.pod
  <2>1. /\ o # 0 /\ UNCHANGED heap
        /\ recentlyDeletedPods' = [recentlyDeletedPods EXCEPT ![k].c.running = @ + 1]
        /\ rec' = [rec EXCEPT ![a] = r(o)]
    BY <1>4 DEF CountOnSnapshot, MatchesSnapshot
  <2>2. o \in Objs
    BY <1>2, <2>1, GenerationOwner
  <2>3. c \in Counters /\ c.pending = s.c.pending /\ c.completed = s.c.completed
    BY <1>2 DEF IInv, TypeOK, PodTypeOK, Snapshot, Counters
  <2>4. recentlyDeletedPods' = [recentlyDeletedPods EXCEPT ![k].c = c]
    BY <2>1
  <2>5. s = recentlyDeletedPods[k]
    OBVIOUS
  <2> HIDE DEF c, o, k, s
  <2>6. SameIdentities /\ recentlyDeletedPods'[k].c = c
        /\ \A j \in Keys : j # k => recentlyDeletedPods'[j] = recentlyDeletedPods[j]
    BY <1>0, <1>2, <2>1, <2>3, <2>4, SnapCounterStep
  <2>7. \A g : PendSum(g)' = PendSum(g) /\ DoneSet(g)' = DoneSet(g)
    BY <1>0, <1>2, <2>1, <2>2, RecordsCount
  <2>8. QED
    BY <2>1, <2>3, <2>5, <2>6, <2>7, StayKeeps
<1>5. CASE CountNowhere(a)
  <2>1. UNCHANGED <<heap, recentlyDeletedPods, rec>>
    BY <1>5 DEF CountNowhere
  <2>2. \A g : PendSum(g)' = PendSum(g) /\ DoneSet(g)' = DoneSet(g)
    BY <1>0, <2>1, RecordsStay
  <2>3. QED
    BY <1>0, <2>1, <2>2 DEF LoadInv
<1>6. QED
  BY <1>3, <1>4, <1>5 DEF AddPodStats

\* addPodStats, second critical section: the load goes to the record and to the carrier at once.
LEMMA PendingLoads ==
  ASSUME IInv, LifeInv, LoadInv, NEW a \in Attempts, AddPendingLoad(a)
  PROVE  LoadInv'
<1> SUFFICES ASSUME NEW k, k = target[a].key, NEW o, o = rec[a].pod,
                    NEW d, d = LoadOf[a], NEW gen, gen = heap[o].gen
             PROVE  LoadInv'
  OBVIOUS
<1>1. pc[a] = "counted" /\ rec' = [rec EXCEPT ![a].load = d] /\ AddPending(k, o, d) /\ d \in Nat
      /\ UNCHANGED <<metaPods, allocated, nextStatsGeneration, settled>>
  BY PodStatsAssumption DEF AddPendingLoad
<1>2. rec[a].load = 0 /\ a \notin settled
  BY <1>1 DEF LifeInv, AttemptLife
<1>3. o # 0 /\ o \in Objs /\ k \in Keys /\ heap[o].gen # 0 /\ heap[o].key = k
  BY <1>1, GenerationOwner DEF IInv, RecordInv
<1>4. CarriersMove(gen, d, 0)
  <2>0. d \in Int /\ 0 \in Int
    BY <1>1
  <2>u. ASSUME NEW x \in Counters
        PROVE  /\ [x EXCEPT !.pending = @ + d] \in Counters
               /\ [x EXCEPT !.pending = @ + d].pending = x.pending + d
               /\ [x EXCEPT !.pending = @ + d].completed = x.completed + 0
    <3>1. [x EXCEPT !.pending = @ + d] =
            [running |-> x.running, completed |-> x.completed, pending |-> x.pending + d]
      BY DEF Counters
    <3>2. QED
      BY <1>1, <3>1 DEF Counters
  <2>1. CASE ResolvesToSnapshot(k, o)
    <3> DEFINE c == [recentlyDeletedPods[k].c EXCEPT !.pending = @ + d]
    <3>1. UNCHANGED heap /\ recentlyDeletedPods' = [recentlyDeletedPods EXCEPT ![k].c.pending = @ + d]
      BY <2>1, <1>1 DEF AddPending
    <3>2. recentlyDeletedPods' = [recentlyDeletedPods EXCEPT ![k].c = c]
      BY <3>1
    <3>3. c \in Counters /\ c.pending = recentlyDeletedPods[k].c.pending + d
          /\ c.completed = recentlyDeletedPods[k].c.completed + 0
      <4>1. recentlyDeletedPods[k].c \in Counters
        BY <1>3 DEF IInv, TypeOK, PodTypeOK, Snapshot
      <4>2. QED
        BY <2>u, <4>1
    <3> HIDE DEF c
    <3>4. QED
      BY <1>1, <1>3, <2>0, <2>1, <3>1, <3>2, <3>3, DeltaLands
  <2>2. CASE ~ResolvesToSnapshot(k, o)
    <3> DEFINE p == ResolvedPod(k, o)
               c == [heap[p].c EXCEPT !.pending = @ + d]
    <3>1. UNCHANGED recentlyDeletedPods /\ heap' = [heap EXCEPT ![p].c.pending = @ + d]
      BY <2>2, <1>1 DEF AddPending
    <3>2. heap' = [heap EXCEPT ![p].c = c]
      BY <3>1
    <3>3. p \in Objs
      BY <1>3, ResolvedOwner
    <3>4. c \in Counters /\ c.pending = heap[p].c.pending + d /\ c.completed = heap[p].c.completed + 0
      <4>1. heap[p].c \in Counters
        BY <3>3 DEF IInv, TypeOK, PodTypeOK, Pod
      <4>2. QED
        BY <2>u, <4>1
    <3> HIDE DEF c
    <3>5. /\ ~ResolvesToSnapshot(k, o) /\ UNCHANGED recentlyDeletedPods
          /\ heap' = [heap EXCEPT ![ResolvedPod(k, o)].c = c]
          /\ c.pending = heap[ResolvedPod(k, o)].c.pending + d
          /\ c.completed = heap[ResolvedPod(k, o)].c.completed + 0
      BY <2>2, <3>1, <3>2, <3>4
    <3> HIDE DEF p
    <3>6. QED
      BY <1>1, <1>3, <2>0, <3>4, <3>5, DeltaLands
  <2>3. QED
    BY <2>1, <2>2
<1>5. \A p \in Objs : heap'[p].gen = heap[p].gen
  BY <1>4 DEF CarriersMove, SameIdentities
<1>6. RecordsMove(gen, d, 0)
  BY <1>1, <1>2, <1>3, <1>5, RecordsLoad
<1>7. QED
  BY <1>4, <1>6, MovesKeep

\* donePodStats: load and request leave the record and the carrier at once.
LEMMA DoneLoads ==
  ASSUME IInv, LoadInv, NEW d \in Completions, DonePodStats(d)
  PROVE  LoadInv'
<1> SUFFICES ASSUME NEW a, a = doneBy[d].of, NEW o, o = rec[a].pod, NEW k, k = heap[o].key,
                    NEW w, w = rec[a].load, NEW gen, gen = heap[o].gen
             PROVE  LoadInv'
  OBVIOUS
<1>1. /\ UNCHANGED <<metaPods, allocated, nextStatsGeneration, rec>> /\ doneBy[d].phase = "taken"
      /\ settled' = settled \cup {a}
  BY DEF DonePodStats
<1>2. a \in Attempts /\ rec[a].pod # 0 /\ a \notin settled
  BY <1>1 DEF IInv, CompletionInv
<1>3. o \in Objs /\ k \in Keys /\ heap[o].gen # 0 /\ heap[o].key = k /\ w \in Nat
  BY <1>2, GenerationOwner DEF IInv, TypeOK, RequestTypeOK
<1>4. CarriersMove(gen, -w, 1)
  <2>0. -w \in Int /\ 1 \in Int
    BY <1>3
  <2>1. \A c \in Counters : /\ Completed(c, w) \in Counters
                            /\ Completed(c, w).pending = c.pending + (-w)
                            /\ Completed(c, w).completed = c.completed + 1
    BY <1>3 DEF Completed, Counters
  <2>2. CASE ResolvesToSnapshot(k, o)
    <3> DEFINE c == Completed(recentlyDeletedPods[k].c, w)
    <3>1. UNCHANGED heap /\ recentlyDeletedPods' = [recentlyDeletedPods EXCEPT ![k].c = c]
      BY <2>2 DEF DonePodStats
    <3>2. recentlyDeletedPods[k].c \in Counters
      BY <1>3 DEF IInv, TypeOK, PodTypeOK, Snapshot
    <3>3. c \in Counters /\ c.pending = recentlyDeletedPods[k].c.pending + (-w)
          /\ c.completed = recentlyDeletedPods[k].c.completed + 1
      BY <2>1, <3>2
    <3> HIDE DEF c
    <3>4. QED
      BY <1>1, <1>3, <2>0, <2>2, <3>1, <3>3, DeltaLands
  <2>3. CASE ~ResolvesToSnapshot(k, o)
    <3> DEFINE p == ResolvedPod(k, o)
               c == Completed(heap[p].c, w)
    <3>1. UNCHANGED recentlyDeletedPods /\ heap' = [heap EXCEPT ![p].c = c]
      BY <2>3 DEF DonePodStats
    <3>2. p \in Objs
      BY <1>3, ResolvedOwner
    <3>3. heap[p].c \in Counters
      BY <3>2 DEF IInv, TypeOK, PodTypeOK, Pod
    <3>4. c \in Counters /\ c.pending = heap[p].c.pending + (-w) /\ c.completed = heap[p].c.completed + 1
      BY <2>1, <3>3
    <3> HIDE DEF c
    <3>5. QED
      BY <1>1, <1>3, <2>0, <2>3, <3>1, <3>4, DeltaLands
  <2>4. QED
    BY <2>2, <2>3
<1>5. \A p \in Objs : heap'[p].gen = heap[p].gen
  BY <1>4 DEF CarriersMove, SameIdentities
<1>6. RecordsMove(gen, -w, 1)
  BY <1>1, <1>2, <1>5, RecordsDone
<1>7. QED
  BY <1>4, <1>6, MovesKeep

\* Every step keeps both counters right.
LEMMA LoadKept == IInv /\ LifeInv /\ LoadInv /\ [Next]_vars => LoadInv'
<1> SUFFICES ASSUME IInv, LifeInv, LoadInv, [Next]_vars PROVE LoadInv'
  OBVIOUS
<1>1. ASSUME UNCHANGED podVars, UNCHANGED settled,
             \A a \in Attempts : rec'[a].pod = rec[a].pod /\ rec'[a].load = rec[a].load
      PROVE  LoadInv'
  <2>1. \A g : PendSum(g)' = PendSum(g) /\ DoneSet(g)' = DoneSet(g)
    BY <1>1, RecordsStay DEF podVars
  <2>2. QED
    BY <1>1, <2>1 DEF LoadInv, podVars
<1>2. CASE InformerNext
  <2>1. ASSUME UpdatePodAdd PROVE LoadInv'
    <3>1. informer.key \in Keys /\ informer.ip \in IPs
      BY DEF IInv, TypeOK
    <3>2. QED
      BY <2>1, <3>1, AddLoads DEF UpdatePodAdd
  <2>2. ASSUME UpdatePodDrop PROVE LoadInv'
    BY <1>1, <2>2 DEF UpdatePodDrop, requestVars
  <2>3. QED
    BY <1>2, <2>1, <2>2, AddLoads, DeleteLoads, ExpireLoads DEF InformerNext, AddPod, UpdatePodDelete, DeletePod
<1>3. CASE RequestNext
  <2>1. ASSUME NEW a \in Attempts, NEW k \in Keys, Route(a, k) PROVE LoadInv'
    BY <1>1, <2>1 DEF Route
  <2>2. ASSUME NEW a \in Attempts, StorePodStats(a) \/ TakeByCtx(a) PROVE LoadInv'
    BY <1>1, <2>2 DEF StorePodStats, TakeByCtx
  <2>3. ASSUME NEW r \in Cancelled, TakeByRequest(r) PROVE LoadInv'
    BY <1>1, <2>3 DEF TakeByRequest
  <2>4. ASSUME NEW d \in Completions, Take(d) PROVE LoadInv'
    <3>1. rec \in [Attempts -> [pod : 0..MaxObjs, load : Nat, consumed : BOOLEAN]]
      BY DEF IInv, TypeOK, RequestTypeOK
    <3>2. PICK a : a = doneBy[d].of
      OBVIOUS
    <3>3. rec' = [rec EXCEPT ![a].consumed = TRUE] /\ UNCHANGED podVars /\ UNCHANGED settled
      BY <2>4, <3>2 DEF Take
    <3>4. \A b \in Attempts : rec'[b].pod = rec[b].pod /\ rec'[b].load = rec[b].load
      BY <3>1, <3>3
    <3>5. QED
      BY <1>1, <3>3, <3>4
  <2>5. QED
    BY <1>3, <2>1, <2>2, <2>3, <2>4, CountLoads, PendingLoads, DoneLoads DEF RequestNext
<1>4. CASE UNCHANGED vars
  BY <1>1, <1>4 DEF vars, podVars
<1>5. QED
  BY <1>2, <1>3, <1>4 DEF Next

\* All three parts of the invariant hold in every reachable state.
LEMMA LoadInvariance == Spec => []LoadInv
<1>1. Init => LoadInv
  BY DEF Init, LoadInv, NoSnap
<1>2. QED
  BY <1>1, InitIInv, InitLife, NextKeeps, LifeKept, LoadKept, PTL DEF Spec

\* The pending load routing reads off a cached pod, or a re-add would resume from, is exactly the
\* sum of the loads its unfinished requests added, although each load is computed outside the lock
\* and may come back after the pod it was meant for has flapped.
THEOREM PendingCorrect == Spec => []PendingMatchesInFlight
<1>1. LoadInv => PendingMatchesInFlight
  BY DEF LoadInv, PendingMatchesInFlight, PendSum
<1>2. QED
  BY <1>1, LoadInvariance, PTL

\* completedRequests of a cached pod or snapshot counts every settled request of its generation
\* exactly once.
THEOREM CompletedCorrect == Spec => []CompletedMatchesSettled
<1>1. LoadInv => CompletedMatchesSettled
  BY DEF LoadInv, CompletedMatchesSettled, DoneSet
<1>2. QED
  BY <1>1, LoadInvariance, PTL
=============================================================================
