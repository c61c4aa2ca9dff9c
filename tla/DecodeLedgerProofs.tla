------------------------- MODULE DecodeLedgerProofs -------------------------
(***************************************************************************)
(* For every number of pods, charges and request IDs, shared or not, and   *)
(* any number of failed pipelines: the decode ledger keeps its types and   *)
(* loses no update on the way to Redis.  When no two requests share an ID, *)
(* both counters are the totals of the outstanding charges, and nothing    *)
(* stays charged once every call is over.                                  *)
(***************************************************************************)
EXTENDS DecodeLedger, SumTheorems

\* A charge that has not been made is neither released nor corrected, and only charges that have
\* been made are filed or replaced.
EntryInv ==
  /\ \A c \in Charges :
       /\ acq[c] = "idle" => rel[c] = "none" /\ c \notin correcting
       /\ prev[c] # NoCharge => acq[prev[c]] # "idle"
       /\ acq[c] \in {"replace", "await"} => prev[c] \in Charges
  /\ \A i \in IDs : decodeEntries[i] # NoCharge => acq[decodeEntries[i]] # "idle"

IInv == TypeOK /\ EntryInv /\ NoLostUpdate

\* addFloat returns a natural number.
LEMMA AddFloatType ==
  ASSUME NEW v \in Nat, NEW d \in Int
  PROVE  AddFloat(v, d) \in Nat
BY DEF AddFloat

\* addDecodeInflight keeps a pair of a natural number and an integer.
LEMMA AggregateType ==
  ASSUME NEW v \in Values, NEW d \in {-1, 1}, NEW k \in Nat
  PROVE  Aggregate(v, d, k) \in Values
<1>1. v[1] \in Nat /\ v[2] \in Int
  BY DEF Values
<1>2. CASE v[1] + d <= 0
  BY <1>2 DEF Aggregate, Values, Zero
<1>3. CASE ~(v[1] + d <= 0)
  <2>1. v[1] + d \in Nat /\ v[2] + d * k \in Int
    BY <1>1, <1>3
  <2>2. Aggregate(v, d, k) = <<v[1] + d, v[2] + d * k>>
    BY <1>3 DEF Aggregate
  <2> QED BY <2>1, <2>2 DEF Values
<1> QED BY <1>2, <1>3

\* The initial state satisfies the inductive invariant.
LEMMA InitIInv == Init => IInv
<1> SUFFICES ASSUME Init PROVE IInv
  OBVIOUS
<1> USE DecodeLedgerAssumption
<1>1. DOMAIN vals = {} /\ vals \in [DOMAIN vals -> Values]
  BY DEF Init, NoVals
<1>2. TypeOK
  <2>1. Zero \in Values
    BY DEF Zero, Values
  <2>2. wake \in BOOLEAN
    BY DEF Init
  <2>3. inflight \in [Pods -> Values] /\ field \in [Pods -> Values]
    BY <2>1 DEF Init
  <2> QED BY <1>1, <2>2, <2>3 DEF Init, TypeOK, AcqStates, RelStates
<1>3. EntryInv
  BY DEF Init, EntryInv
<1>4. NoLostUpdate
  <2>1. ASSUME NEW p \in Pods PROVE Published(p) = field[p]
    BY <1>1 DEF Init, Published
  <2>2. \A p \in Pods : field[p] = inflight[p]
    BY DEF Init
  <2> QED BY <2>1, <2>2 DEF NoLostUpdate
<1> QED BY <1>2, <1>3, <1>4 DEF IInv

\* Every step keeps the types.
LEMMA NextTypeOK ==
  ASSUME TypeOK, EntryInv, [Next]_vars
  PROVE  TypeOK'
<1> USE DecodeLedgerAssumption DEF TypeOK, EntryInv, AcqStates, RelStates
<1>1. ASSUME NEW c \in Charges, AcquireSwap(c) PROVE TypeOK'
  BY <1>1 DEF AcquireSwap, signalVars, runVars
<1>2. ASSUME NEW c \in Charges, AcquireReplace(c) PROVE TypeOK'
  BY <1>2 DEF AcquireReplace, signalVars, runVars
<1>3. ASSUME NEW c \in Charges, AcquireReplaced(c) PROVE TypeOK'
  BY <1>3 DEF AcquireReplaced, signalVars, runVars
<1>4. ASSUME NEW c \in Charges, AcquireAdd(c) PROVE TypeOK'
  <2>1. decodeTokens' \in [Pods -> Nat]
    BY <1>4, AddFloatType DEF AcquireAdd, AddDecode
  <2> QED BY <1>4, <2>1 DEF AcquireAdd, signalVars, runVars
<1>5. ASSUME NEW c \in Charges, AcquireAggregate(c) PROVE TypeOK'
  <2>1. inflight' \in [Pods -> Values]
    BY <1>5, AggregateType DEF AcquireAggregate, AddDecodeInflight
  <2> QED BY <1>5, <2>1 DEF AcquireAggregate, signalVars, runVars
<1>6. ASSUME NEW c \in Charges, AcquireNotify(c) PROVE TypeOK'
  BY <1>6 DEF AcquireNotify, Notify, runVars
<1>7. ASSUME NEW c \in Charges, ReleaseMark(c) PROVE TypeOK'
  BY <1>7 DEF ReleaseMark, signalVars, runVars
<1>8. ASSUME NEW c \in Charges, ReleaseSubtract(c) PROVE TypeOK'
  <2>1. decodeTokens' \in [Pods -> Nat]
    BY <1>8, AddFloatType DEF ReleaseSubtract, AddDecode
  <2> QED BY <1>8, <2>1 DEF ReleaseSubtract, signalVars, runVars
<1>9. ASSUME NEW c \in Charges, ReleaseAggregate(c) PROVE TypeOK'
  <2>1. inflight' \in [Pods -> Values]
    BY <1>9, AggregateType DEF ReleaseAggregate, AddDecodeInflight
  <2> QED BY <1>9, <2>1 DEF ReleaseAggregate, signalVars, runVars
<1>10. ASSUME NEW c \in Charges, ReleaseNotify(c) PROVE TypeOK'
  BY <1>10 DEF ReleaseNotify, Notify, runVars
<1>11. ASSUME NEW c \in Charges, CorrectDecode(c) PROVE TypeOK'
  <2>1. PICK k \in Costs : /\ cost' = [cost EXCEPT ![c] = k]
                           /\ AddDecode(pod[c], k - cost[c])
                           /\ AddDecodeInflightTokens(pod[c], k - cost[c])
    BY <1>11 DEF CorrectDecode, Correct
  <2>2. pod[c] \in Pods /\ k - cost[c] \in Int
    BY <1>11 DEF CorrectDecode, Reachable
  <2>3. decodeTokens' \in [Pods -> Nat]
    <3>1. AddFloat(decodeTokens[pod[c]], k - cost[c]) \in Nat
      BY <2>2, AddFloatType
    <3> QED BY <2>1, <3>1 DEF AddDecode
  <2>4. inflight' \in [Pods -> Values]
    <3> DEFINE v == inflight[pod[c]]
               w == IF v[1] > 0 THEN <<v[1], v[2] + (k - cost[c])>> ELSE v
    <3>1. v \in Values /\ v[1] \in Nat /\ v[2] \in Int
      BY <2>2 DEF Values
    <3>2. w \in Values
      BY <2>2, <3>1 DEF Values
    <3> QED BY <2>1, <3>2 DEF AddDecodeInflightTokens
  <2> QED BY <1>11, <2>1, <2>3, <2>4 DEF CorrectDecode, signalVars, runVars
<1>12. ASSUME NEW c \in Charges, CorrectNotify(c) PROVE TypeOK'
  BY <1>12 DEF CorrectNotify, Notify, runVars
<1>13. CASE PublisherWakes
  BY <1>13 DEF PublisherWakes, trackerVars
<1>14. CASE FlushTake
  BY <1>14 DEF FlushTake, trackerVars
<1>15. ASSUME NEW p \in batch, FlushRead(p) PROVE TypeOK'
  <2>1. vals' \in [DOMAIN vals \cup {p} -> Values]
    BY <1>15 DEF FlushRead
  <2> QED BY <1>15, <2>1 DEF FlushRead, trackerVars, signalVars
<1>16. CASE FlushOk
  <2>1. field' \in [Pods -> Values]
    BY <1>16 DEF FlushOk, FlushReturns, Exec
  <2> QED BY <1>16, <2>1 DEF FlushOk, FlushReturns, NoVals, trackerVars, signalVars
<1>17. CASE FlushFails
  <2>1. field' \in [Pods -> Values]
    BY <1>17 DEF FlushFails, FlushReturns, Exec
  <2>2. late' \subseteq Pods \X Values
    BY <1>17 DEF FlushFails, FlushReturns
  <2> QED BY <1>17, <2>1, <2>2 DEF FlushFails, FlushReturns, NoVals, trackerVars
<1>18. ASSUME NEW w \in late, LateWrite(w) PROVE TypeOK'
  <2>1. w[1] \in Pods /\ w[2] \in Values
    OBVIOUS
  <2> QED BY <1>18, <2>1 DEF LateWrite, trackerVars, signalVars
<1>19. CASE UNCHANGED vars
  BY <1>19 DEF vars
<1> QED
  BY <1>1, <1>2, <1>3, <1>4, <1>5, <1>6, <1>7, <1>8, <1>9, <1>10, <1>11, <1>12, <1>13, <1>14,
     <1>15, <1>16, <1>17, <1>18, <1>19 DEF Next, Acquire, Acquiring, Release, Flush, Flushing

\* Every step keeps EntryInv.
LEMMA NextEntryInv ==
  ASSUME TypeOK, EntryInv, [Next]_vars
  PROVE  EntryInv'
<1> USE DecodeLedgerAssumption DEF TypeOK, EntryInv, AcqStates, RelStates
<1>1. ASSUME NEW c \in Charges, AcquireSwap(c) PROVE EntryInv'
  BY <1>1 DEF AcquireSwap
<1>2. ASSUME NEW c \in Charges, AcquireReplace(c) PROVE EntryInv'
  BY <1>2 DEF AcquireReplace
<1>3. ASSUME NEW c \in Charges, AcquireReplaced(c) PROVE EntryInv'
  BY <1>3 DEF AcquireReplaced
<1>4. ASSUME NEW c \in Charges,
             AcquireAdd(c) \/ AcquireAggregate(c) \/ AcquireNotify(c)
      PROVE  EntryInv'
  BY <1>4 DEF AcquireAdd, AcquireAggregate, AcquireNotify
<1>5. ASSUME NEW c \in Charges, ReleaseMark(c) PROVE EntryInv'
  BY <1>5 DEF ReleaseMark, Reachable
<1>6. ASSUME NEW c \in Charges, ReleaseSubtract(c) \/ ReleaseNotify(c) PROVE EntryInv'
  BY <1>6 DEF ReleaseSubtract, ReleaseNotify
<1>7. ASSUME NEW c \in Charges, ReleaseAggregate(c) PROVE EntryInv'
  BY <1>7 DEF ReleaseAggregate
<1>8. ASSUME NEW c \in Charges, CorrectDecode(c) \/ CorrectNotify(c) PROVE EntryInv'
  BY <1>8 DEF CorrectDecode, CorrectNotify, Reachable
<1>9. CASE UNCHANGED trackerVars
  BY <1>9 DEF trackerVars
<1>10. Flush \/ (\E w \in late : LateWrite(w)) \/ UNCHANGED vars => UNCHANGED trackerVars
  BY DEF Flush, Flushing, PublisherWakes, FlushTake, FlushRead, FlushOk, FlushFails,
         LateWrite, vars, trackerVars
<1> QED
  BY <1>1, <1>2, <1>3, <1>4, <1>5, <1>6, <1>7, <1>8, <1>9, <1>10
     DEF Next, Acquire, Acquiring, Release

\* A step of the tracker loses no update if it leaves the mark of every pod whose aggregate it
\* changes to come, and drops no mark that is made or to come.
LEMMA TrackerStep ==
  ASSUME NoLostUpdate, UNCHANGED runVars,
         \A p \in Pods : inflight'[p] = inflight[p] \/ NotifyPending(p)',
         \A p \in Pods : p \in dirty \/ NotifyPending(p) => p \in dirty' \/ NotifyPending(p)'
  PROVE  NoLostUpdate'
<1> SUFFICES ASSUME NEW p \in Pods, p \notin overtaken', Published(p)' # inflight'[p]
             PROVE  p \in dirty' \/ NotifyPending(p)'
  BY DEF NoLostUpdate
<1>1. CASE NotifyPending(p)'
  BY <1>1
<1>2. CASE inflight'[p] = inflight[p]
  <2>1. Published(p)' = Published(p)
    BY <1>2 DEF Published, runVars
  <2> QED BY <1>2, <2>1 DEF NoLostUpdate, runVars
<1> QED BY <1>1, <1>2

\* Every step keeps NoLostUpdate.
LEMMA NextNoLostUpdate ==
  ASSUME TypeOK, EntryInv, NoLostUpdate, [Next]_vars
  PROVE  NoLostUpdate'
<1> USE DecodeLedgerAssumption
<1>1. ASSUME NEW c \in Charges,
             AcquireSwap(c) \/ AcquireReplace(c) \/ AcquireReplaced(c) \/ AcquireAdd(c)
               \/ ReleaseMark(c) \/ ReleaseSubtract(c)
      PROVE  NoLostUpdate'
  <2>1. UNCHANGED <<inflight, dirty, correcting>> /\ UNCHANGED runVars
    BY <1>1 DEF AcquireSwap, AcquireReplace, AcquireReplaced, AcquireAdd, ReleaseMark,
                ReleaseSubtract, signalVars
  <2>2. ASSUME NEW d \in Charges, acq[d] = "notify" \/ rel[d] = "notify" \/ d \in correcting
        PROVE  /\ pod'[d] = pod[d]
               /\ acq[d] = "notify" => acq'[d] = "notify"
               /\ rel[d] = "notify" => rel'[d] = "notify"
    BY <1>1, <2>2 DEF AcquireSwap, AcquireReplace, AcquireReplaced, AcquireAdd, ReleaseMark,
                      ReleaseSubtract, TypeOK, EntryInv
  <2>3. \A p \in Pods : NotifyPending(p) => NotifyPending(p)'
    BY <2>1, <2>2 DEF NotifyPending
  <2> QED BY <2>1, <2>3, TrackerStep
<1>2. ASSUME NEW c \in Charges, AcquireAggregate(c) \/ ReleaseAggregate(c) \/ CorrectDecode(c)
      PROVE  NoLostUpdate'
  <2>1. UNCHANGED <<pod, dirty>> /\ UNCHANGED runVars
    BY <1>2 DEF AcquireAggregate, ReleaseAggregate, CorrectDecode, signalVars
  <2>2. \A d \in Charges : /\ acq[d] = "notify" => acq'[d] = "notify"
                           /\ rel[d] = "notify" => rel'[d] = "notify"
                           /\ d \in correcting => d \in correcting'
    BY <1>2 DEF AcquireAggregate, ReleaseAggregate, CorrectDecode, TypeOK
  <2>3. \A p \in Pods : NotifyPending(p) => NotifyPending(p)'
    BY <2>1, <2>2 DEF NotifyPending
  <2>4. acq'[c] = "notify" \/ rel'[c] = "notify" \/ c \in correcting'
    BY <1>2 DEF AcquireAggregate, ReleaseAggregate, CorrectDecode, TypeOK
  <2>5. NotifyPending(pod[c])'
    BY <2>1, <2>4 DEF NotifyPending
  <2>6. \A p \in Pods : p # pod[c] => inflight'[p] = inflight[p]
    BY <1>2 DEF AcquireAggregate, ReleaseAggregate, CorrectDecode, Correct, AddDecodeInflight,
                AddDecodeInflightTokens, TypeOK
  <2>7. \A p \in Pods : inflight'[p] = inflight[p] \/ NotifyPending(p)'
    BY <2>1, <2>5, <2>6
  <2> QED BY <2>1, <2>3, <2>7, TrackerStep
<1>3. ASSUME NEW c \in Charges, AcquireNotify(c) \/ ReleaseNotify(c) \/ CorrectNotify(c)
      PROVE  NoLostUpdate'
  <2>1. UNCHANGED <<pod, inflight>> /\ UNCHANGED runVars /\ dirty' = dirty \cup {pod[c]}
    BY <1>3 DEF AcquireNotify, ReleaseNotify, CorrectNotify, Notify
  <2>2. \A d \in Charges \ {c} : /\ acq'[d] = acq[d] /\ rel'[d] = rel[d]
                                 /\ d \in correcting => d \in correcting'
    BY <1>3 DEF AcquireNotify, ReleaseNotify, CorrectNotify, TypeOK
  <2>3. \A p \in Pods : NotifyPending(p) => p \in dirty' \/ NotifyPending(p)'
    BY <2>1, <2>2 DEF NotifyPending
  <2> QED BY <2>1, <2>3, TrackerStep
<1>4. ASSUME UNCHANGED trackerVars,
             NEW p \in Pods, p \notin overtaken', Published(p)' # inflight'[p],
             Flush \/ \E w \in late : LateWrite(w)
      PROVE  p \in dirty' \/ NotifyPending(p)'
  <2>1. NotifyPending(p)' <=> NotifyPending(p)
    BY <1>4 DEF NotifyPending, trackerVars
  <2>2. inflight' = inflight /\ p \notin overtaken
    BY <1>4 DEF trackerVars, Flush, Flushing, PublisherWakes, FlushTake, FlushRead, FlushOk,
                FlushFails, LateWrite
  <2>3. Published(p) # inflight[p] => p \in dirty \/ NotifyPending(p)
    BY <2>2 DEF NoLostUpdate
  <2>4. CASE PublisherWakes
    <3>1. Published(p)' = Published(p)
      BY <2>2, <2>4 DEF PublisherWakes, Published
    <3> QED BY <1>4, <2>1, <2>2, <2>3, <2>4, <3>1 DEF PublisherWakes
  <2>5. CASE FlushTake
    <3>1. DOMAIN vals = {} /\ batch = {} /\ vals' = vals /\ field' = field /\ batch' = dirty
      BY <2>5 DEF FlushTake, TypeOK
    <3>2. p \notin dirty
      BY <1>4, <2>2, <3>1 DEF Published
    <3>3. Published(p)' = Published(p)
      BY <3>1, <3>2 DEF Published
    <3> QED BY <1>4, <2>1, <2>2, <2>3, <3>2, <3>3
  <2>6. ASSUME NEW q \in batch, FlushRead(q) PROVE p \in dirty' \/ NotifyPending(p)'
    <3>1. DOMAIN vals' = DOMAIN vals \cup {q} /\ vals'[q] = inflight[q]
          /\ batch' = batch /\ field' = field /\ dirty' = dirty
      BY <2>6 DEF FlushRead, signalVars
    <3>2. p # q
      BY <1>4, <2>2, <3>1 DEF Published
    <3>3. p \in DOMAIN vals => vals'[p] = vals[p]
      BY <2>6, <3>2 DEF FlushRead
    <3>4. Published(p)' = Published(p)
      BY <2>2, <3>1, <3>2, <3>3 DEF Published
    <3> QED BY <1>4, <2>1, <2>2, <2>3, <3>1, <3>4
  <2>7. CASE FlushOk
    <3>1. DOMAIN vals = batch /\ DOMAIN vals' = {} /\ batch' = {} /\ dirty' = dirty
      BY <2>7 DEF FlushOk, FlushReturns, NoVals, signalVars
    <3>2. field'[p] = IF p \in batch THEN vals[p] ELSE field[p]
      BY <2>7 DEF FlushOk, Exec
    <3>3. Published(p)' = Published(p)
      BY <3>1, <3>2 DEF Published
    <3> QED BY <1>4, <2>1, <2>2, <2>3, <3>1, <3>3
  <2>8. CASE FlushFails
    <3>1. DOMAIN vals = batch /\ DOMAIN vals' = {} /\ batch' = {} /\ dirty' = dirty \cup batch
      BY <2>8 DEF FlushFails, FlushReturns, NoVals
    <3>2. p \notin batch => field'[p] = field[p]
      BY <2>8 DEF FlushFails, Exec
    <3>3. p \notin batch => Published(p)' = Published(p)
      BY <3>1, <3>2 DEF Published
    <3> QED BY <1>4, <2>1, <2>2, <2>3, <3>1, <3>3
  <2>9. ASSUME NEW w \in late, LateWrite(w) PROVE p \in dirty' \/ NotifyPending(p)'
    <3>1. p # w[1]
      BY <1>4, <2>9 DEF LateWrite
    <3>2. field'[p] = field[p] /\ vals' = vals /\ batch' = batch /\ dirty' = dirty
      BY <2>9, <3>1 DEF LateWrite, TypeOK, signalVars
    <3>3. Published(p)' = Published(p)
      BY <2>2, <3>2 DEF Published
    <3> QED BY <1>4, <2>1, <2>2, <2>3, <3>2, <3>3
  <2> QED BY <1>4, <2>4, <2>5, <2>6, <2>7, <2>8, <2>9 DEF Flush, Flushing
<1>5. Flush \/ (\E w \in late : LateWrite(w)) => UNCHANGED trackerVars
  BY DEF Flush, Flushing, PublisherWakes, FlushTake, FlushRead, FlushOk, FlushFails, LateWrite
<1>6. CASE Flush \/ \E w \in late : LateWrite(w)
  <2>1. \A p \in Pods \ overtaken' :
          Published(p)' # inflight'[p] => p \in dirty' \/ NotifyPending(p)'
    BY <1>4, <1>5, <1>6
  <2> QED BY <2>1 DEF NoLostUpdate
<1>7. CASE UNCHANGED vars
  BY <1>7 DEF vars, NoLostUpdate, Published, NotifyPending
<1> QED
  BY <1>1, <1>2, <1>3, <1>6, <1>7 DEF Next, Acquire, Acquiring, Release

\* The inductive invariant holds in every reachable state.
LEMMA Inductive == Spec => []IInv
<1>1. IInv /\ [Next]_vars => IInv'
  BY NextTypeOK, NextEntryInv, NextNoLostUpdate DEF IInv
<1> QED BY <1>1, InitIInv, PTL DEF Spec

\* The tracker and the publisher keep their types: addFloat's counter never goes below zero,
\* flush writes values only of pods it took, and a filed charge has a pod, also when
\* several requests use one ID.
THEOREM TypeCorrect == Spec => []TypeOK
<1>1. IInv => TypeOK
  BY DEF IInv
<1> QED BY <1>1, Inductive, PTL

\* flush, markDirty and the notifications of the tracker never lose an update: a pod whose value
\* in Redis, or on its way there, is stale is dirty or about to be marked, until a failed
\* write runs late on it.
THEOREM UpdatesReachRedis == Spec => []NoLostUpdate
<1>1. IInv => NoLostUpdate
  BY DEF IInv
<1> QED BY <1>1, Inductive, PTL


-----------------------------------------------------------------------------
(* The exact totals.  They need request IDs that are not shared: with one  *)
(* ID for two requests a charge may be released before it is counted.      *)

DistinctIDs == \A c, d \in Charges : IdOf[c] = IdOf[d] => c = d

\* With an ID of its own a charge is filed under that ID only, replaces no other, and is released
\* or corrected only once its AcquireDecode has returned.
OwnInv ==
  /\ \A i \in IDs : decodeEntries[i] # NoCharge => IdOf[decodeEntries[i]] = i
  /\ \A c \in Charges : /\ acq[c] \notin {"replace", "await"}
                        /\ acq[c] # "held" => rel[c] = "none"

\* Every step keeps OwnInv.
LEMMA NextOwnInv ==
  ASSUME DistinctIDs, TypeOK, EntryInv, OwnInv, [Next]_vars
  PROVE  OwnInv'
<1> USE DecodeLedgerAssumption DEF TypeOK, OwnInv, AcqStates, RelStates
<1>0. \A c \in Charges : Reachable(c) => acq[c] = "held"
  BY DEF Reachable, DistinctIDs
<1>1. ASSUME NEW c \in Charges, AcquireSwap(c) PROVE OwnInv'
  <2>1. IdOf[c] \in IDs /\ acq[c] = "idle"
    BY <1>1 DEF AcquireSwap
  <2>2. decodeEntries[IdOf[c]] = NoCharge
    <3>1. SUFFICES ASSUME decodeEntries[IdOf[c]] # NoCharge PROVE FALSE
      OBVIOUS
    <3>2. decodeEntries[IdOf[c]] \in Charges /\ IdOf[decodeEntries[IdOf[c]]] = IdOf[c]
      BY <2>1, <3>1
    <3>3. decodeEntries[IdOf[c]] = c
      BY <3>2 DEF DistinctIDs
    <3> QED BY <2>1, <3>1, <3>3 DEF EntryInv
  <2>3. acq' = [acq EXCEPT ![c] = "add"] /\ rel' = rel
        /\ decodeEntries' = [decodeEntries EXCEPT ![IdOf[c]] = c]
    BY <1>1, <2>2 DEF AcquireSwap
  <2> QED BY <2>1, <2>3
<1>2. ASSUME NEW c \in Charges, AcquireReplace(c) \/ AcquireReplaced(c) PROVE OwnInv'
  BY <1>2 DEF AcquireReplace, AcquireReplaced
<1>3. ASSUME NEW c \in Charges, AcquireAdd(c) \/ AcquireAggregate(c) \/ AcquireNotify(c) PROVE OwnInv'
  BY <1>3 DEF AcquireAdd, AcquireAggregate, AcquireNotify
<1>4. ASSUME NEW c \in Charges, ReleaseMark(c) PROVE OwnInv'
  BY <1>0, <1>4 DEF ReleaseMark
<1>5. ASSUME NEW c \in Charges, ReleaseSubtract(c) \/ ReleaseNotify(c) PROVE OwnInv'
  BY <1>5 DEF ReleaseSubtract, ReleaseNotify
<1>6. ASSUME NEW c \in Charges, ReleaseAggregate(c) PROVE OwnInv'
  BY <1>6 DEF ReleaseAggregate
<1>7. ASSUME NEW c \in Charges, CorrectDecode(c) \/ CorrectNotify(c) PROVE OwnInv'
  BY <1>7 DEF CorrectDecode, CorrectNotify
<1>8. CASE UNCHANGED trackerVars
  BY <1>8 DEF trackerVars
<1>9. Flush \/ (\E w \in late : LateWrite(w)) \/ UNCHANGED vars => UNCHANGED trackerVars
  BY DEF Flush, Flushing, PublisherWakes, FlushTake, FlushRead, FlushOk, FlushFails,
         LateWrite, vars, trackerVars
<1> QED
  BY <1>1, <1>2, <1>3, <1>4, <1>5, <1>6, <1>7, <1>8, <1>9 DEF Next, Acquire, Acquiring, Release

\* Totals of sets of charges are natural numbers; a charge that joins adds its cost, one that
\* leaves takes it away.
LEMMA Totals ==
  ASSUME TypeOK, NEW S \in SUBSET Charges
  PROVE  /\ IsFiniteSet(S) /\ Cardinality(S) \in Nat /\ Total(S) \in Nat
         /\ \A c \in Charges \ S : /\ Total(S \cup {c}) = Total(S) + cost[c]
                                   /\ Cardinality(S \cup {c}) = Cardinality(S) + 1
         /\ \A c \in S : /\ Total(S) = cost[c] + Total(S \ {c}) /\ Total(S \ {c}) \in Nat
                         /\ Cardinality(S \ {c}) = Cardinality(S) - 1
<1>1. IsFiniteSet(S) /\ cost \in [Charges -> Nat]
  BY DecodeLedgerAssumption, FS_Subset DEF TypeOK
<1>2. \A x \in S : cost[x] \in Nat
  BY <1>1
<1>3. \A x \in S : cost[x] \in Int
  BY <1>2
<1>4. Total(S) \in Nat /\ Cardinality(S) \in Nat
  BY <1>1, <1>2, SumNat, FS_CardinalityType DEF Total
<1>5. ASSUME NEW c \in Charges \ S
      PROVE  Total(S \cup {c}) = Total(S) + cost[c] /\ Cardinality(S \cup {c}) = Cardinality(S) + 1
  <2>1. \A y \in S \cup {c} : cost[y] \in Int
    BY <1>1
  <2>2. SumFunctionOnSet(cost, S \cup {c}) = SumFunctionOnSet(cost, S) + cost[c]
    BY <1>1, <2>1, SumAdd
  <2> QED BY <1>1, <2>2, FS_AddElement DEF Total
<1>6. ASSUME NEW c \in S
      PROVE  /\ Total(S) = cost[c] + Total(S \ {c}) /\ Total(S \ {c}) \in Nat
             /\ Cardinality(S \ {c}) = Cardinality(S) - 1
  <2>1. SumFunctionOnSet(cost, S) = cost[c] + SumFunctionOnSet(cost, S \ {c})
    BY <1>1, <1>3, SumTakeOut
  <2>2. IsFiniteSet(S \ {c}) /\ \A x \in S \ {c} : cost[x] \in Nat
    BY <1>1, <1>2, FS_Subset
  <2>3. SumFunctionOnSet(cost, S \ {c}) \in Nat
    BY <2>2, SumNat
  <2>4. Cardinality(S \ {c}) = Cardinality(S) - 1
    BY <1>1, FS_RemoveElement
  <2> QED BY <2>1, <2>3, <2>4 DEF Total
<1> QED BY <1>1, <1>4, <1>5, <1>6

\* Corrections change the total of every set that holds the charge by the difference.
LEMMA TotalCorrected ==
  ASSUME TypeOK, NEW S \in SUBSET Charges, NEW c \in Charges, NEW k \in Nat,
         cost' = [cost EXCEPT ![c] = k]
  PROVE  SumFunctionOnSet(cost', S) = Total(S) + (IF c \in S THEN k - cost[c] ELSE 0)
<1>1. IsFiniteSet(S) /\ cost \in [Charges -> Nat] /\ Total(S) \in Nat
  BY Totals DEF TypeOK
<1>2. cost'[c] = k /\ \A x \in Charges \ {c} : cost'[x] = cost[x]
  BY <1>1
<1>3. CASE c \in S
  <2>0. PICK f, h : f = cost /\ h = cost'
    OBVIOUS
  <2>1. \A y \in S : f[y] \in Int /\ h[y] \in Int
    BY <1>1, <1>2, <2>0
  <2>2. \A y \in S \ {c} : h[y] = f[y]
    BY <1>2, <2>0
  <2>3. SumFunctionOnSet(h, S) = SumFunctionOnSet(f, S) - f[c] + h[c]
    BY <1>1, <1>3, <2>1, <2>2, SumChange
  <2>4. cost[c] \in Nat
    BY <1>1
  <2> QED BY <1>1, <1>2, <1>3, <2>0, <2>3, <2>4 DEF Total
<1>4. CASE c \notin S
  <2>1. \A y \in S : cost[y] \in Int /\ cost'[y] = cost[y]
    BY <1>1, <1>2, <1>4
  <2>2. SumFunctionOnSet(cost, S) = SumFunctionOnSet(cost', S)
    BY <1>1, <2>1, SumEqual
  <2> QED BY <1>1, <1>4, <2>2 DEF Total
<1> QED BY <1>3, <1>4

\* A step that moves no charge in or out of the counters.
LEMMA StillConserved ==
  ASSUME Conserved, UNCHANGED <<cost, decodeTokens, inflight>>,
         \A p \in Pods : Counted(p)' = Counted(p) /\ Aggregated(p)' = Aggregated(p)
  PROVE  Conserved'
BY DEF Conserved, Total

\* Every step keeps the totals exact.
LEMMA NextConserved ==
  ASSUME DistinctIDs, TypeOK, EntryInv, OwnInv, Conserved, [Next]_vars
  PROVE  Conserved'
<1> USE DecodeLedgerAssumption
<1>0. /\ acq \in [Charges -> AcqStates] /\ rel \in [Charges -> RelStates]
      /\ decodeTokens \in [Pods -> Nat] /\ inflight \in [Pods -> Values] /\ cost \in [Charges -> Nat]
      /\ \A c \in Charges : acq[c] # "idle" => pod[c] \in Pods
  BY DEF TypeOK
<1>a. \A c \in Charges : Reachable(c) => acq[c] = "held"
  BY DEF Reachable, DistinctIDs
<1>b. \A p \in Pods : Counted(p) \in SUBSET Charges /\ Aggregated(p) \in SUBSET Charges
  BY DEF Counted, Aggregated
<1>1. ASSUME NEW c \in Charges, AcquireSwap(c) PROVE Conserved'
  <2>1. acq[c] = "idle" /\ rel' = rel /\ UNCHANGED <<decodeTokens, inflight>>
    BY <1>1 DEF AcquireSwap
  <2>2. PICK k \in Costs : cost' = [cost EXCEPT ![c] = k]
    BY <1>1 DEF AcquireSwap
  <2>3. PICK q \in Pods : pod' = [pod EXCEPT ![c] = q]
    BY <1>1 DEF AcquireSwap
  <2>4. /\ acq'[c] \in {"add", "replace"} /\ \A d \in Charges \ {c} : acq'[d] = acq[d] /\ pod'[d] = pod[d]
    BY <1>0, <1>1, <2>3 DEF AcquireSwap, TypeOK
  <2>5. \A p \in Pods : /\ Counted(p)' = Counted(p) /\ Aggregated(p)' = Aggregated(p)
                        /\ c \notin Counted(p) /\ c \notin Aggregated(p)
    BY <2>1, <2>4 DEF Counted, Aggregated
  <2>6. k \in Nat
    OBVIOUS
  <2>7. \A p \in Pods : /\ SumFunctionOnSet(cost', Counted(p)) = Total(Counted(p))
                        /\ SumFunctionOnSet(cost', Aggregated(p)) = Total(Aggregated(p))
    <3> SUFFICES ASSUME NEW S \in SUBSET Charges, c \notin S
                 PROVE  SumFunctionOnSet(cost', S) = Total(S)
      BY <1>b, <2>5
    <3>1. Total(S) \in Nat
      BY Totals
    <3>2. SumFunctionOnSet(cost', S) = Total(S) + (IF c \in S THEN k - cost[c] ELSE 0)
      BY <2>2, <2>6, TotalCorrected
    <3> QED BY <3>1, <3>2
  <2> QED BY <2>1, <2>5, <2>7 DEF Conserved, Total
<1>2. ASSUME NEW c \in Charges, AcquireReplace(c) \/ AcquireReplaced(c) PROVE Conserved'
  BY <1>2 DEF AcquireReplace, AcquireReplaced, OwnInv
<1>3. ASSUME NEW c \in Charges, AcquireAdd(c) PROVE Conserved'
  <2>1. /\ acq[c] = "add" /\ rel[c] = "none" /\ pod[c] \in Pods /\ UNCHANGED <<pod, rel, cost, inflight>>
        /\ acq' = [acq EXCEPT ![c] = "aggregate"] /\ AddDecode(pod[c], cost[c])
    BY <1>0, <1>3 DEF AcquireAdd, OwnInv
  <2>2. acq'[c] = "aggregate" /\ \A d \in Charges \ {c} : acq'[d] = acq[d]
    BY <1>0, <2>1
  <2>3. /\ \A p \in Pods : Aggregated(p)' = Aggregated(p)
        /\ \A p \in Pods \ {pod[c]} : Counted(p)' = Counted(p)
        /\ c \notin Counted(pod[c])
        /\ \A p \in Pods : p = pod[c] => Counted(p)' = Counted(p) \cup {c}
    BY <2>1, <2>2 DEF Aggregated, Counted
  <2>4. decodeTokens'[pod[c]] = decodeTokens[pod[c]] + cost[c]
        /\ \A p \in Pods \ {pod[c]} : decodeTokens'[p] = decodeTokens[p]
    BY <1>0, <2>1 DEF AddDecode, AddFloat
  <2>5. Total(Counted(pod[c]) \cup {c}) = Total(Counted(pod[c])) + cost[c]
    BY <1>b, <2>1, <2>3, Totals
  <2> QED BY <2>1, <2>3, <2>4, <2>5 DEF Conserved, Total
<1>4. ASSUME NEW c \in Charges, AcquireAggregate(c) PROVE Conserved'
  <2>1. /\ acq[c] = "aggregate" /\ rel[c] = "none" /\ pod[c] \in Pods
        /\ UNCHANGED <<pod, rel, cost, decodeTokens>>
        /\ acq' = [acq EXCEPT ![c] = "notify"] /\ AddDecodeInflight(pod[c], 1, cost[c])
    BY <1>0, <1>4 DEF AcquireAggregate, OwnInv
  <2>2. acq'[c] = "notify" /\ \A d \in Charges \ {c} : acq'[d] = acq[d]
    BY <1>0, <2>1
  <2>3. /\ \A p \in Pods : Counted(p)' = Counted(p)
        /\ \A p \in Pods \ {pod[c]} : Aggregated(p)' = Aggregated(p)
        /\ c \notin Aggregated(pod[c])
        /\ \A p \in Pods : p = pod[c] => Aggregated(p)' = Aggregated(p) \cup {c}
    BY <2>1, <2>2 DEF Aggregated, Counted
  <2> DEFINE S == Aggregated(pod[c])
  <2>4. /\ Total(S \cup {c}) = Total(S) + cost[c] /\ Total(S) \in Nat
        /\ Cardinality(S \cup {c}) = Cardinality(S) + 1 /\ Cardinality(S) \in Nat
    BY <1>b, <2>1, <2>3, Totals
  <2>5. inflight[pod[c]] = <<Cardinality(S), Total(S)>> /\ cost[c] \in Nat
    BY <1>0, <2>1 DEF Conserved
  <2>6. Aggregate(inflight[pod[c]], 1, cost[c]) = <<Cardinality(S) + 1, Total(S) + cost[c]>>
    <3>1. \A n, t, k \in Nat : ~(n + 1 <= 0) /\ t + 1 * k = t + k
      OBVIOUS
    <3> QED BY <2>4, <2>5, <3>1 DEF Aggregate
  <2>7. inflight'[pod[c]] = <<Cardinality(S \cup {c}), Total(S \cup {c})>>
        /\ \A p \in Pods \ {pod[c]} : inflight'[p] = inflight[p]
    BY <1>0, <2>1, <2>4, <2>6 DEF AddDecodeInflight
  <2>8. \A p \in Pods : p = pod[c] => inflight'[p] = <<Cardinality(Aggregated(p)'), SumFunctionOnSet(cost', Aggregated(p)')>>
    BY <2>1, <2>3, <2>7 DEF Total
  <2> QED BY <2>1, <2>3, <2>7, <2>8 DEF Conserved, Total
<1>5. ASSUME NEW c \in Charges, AcquireNotify(c) \/ ReleaseMark(c) \/ ReleaseNotify(c) \/ CorrectNotify(c)
      PROVE  Conserved'
  <2>1. UNCHANGED <<cost, decodeTokens, inflight, pod>>
    BY <1>5 DEF AcquireNotify, ReleaseMark, ReleaseNotify, CorrectNotify
  <2>2. /\ \A d \in Charges \ {c} : acq'[d] = acq[d] /\ rel'[d] = rel[d]
        /\ acq'[c] = acq[c] \/ (acq[c] = "notify" /\ acq'[c] = "held")
        /\ rel'[c] = rel[c] \/ (rel[c] = "none" /\ rel'[c] = "marked") \/ (rel[c] = "notify" /\ rel'[c] = "done")
    BY <1>0, <1>5 DEF AcquireNotify, ReleaseMark, ReleaseNotify, CorrectNotify
  <2>3. \A p \in Pods : Counted(p)' = Counted(p) /\ Aggregated(p)' = Aggregated(p)
    BY <2>1, <2>2 DEF Counted, Aggregated
  <2> QED BY <2>1, <2>3, StillConserved
<1>6. ASSUME NEW c \in Charges, ReleaseSubtract(c) PROVE Conserved'
  <2>1. /\ acq[c] = "held" /\ rel[c] = "marked" /\ pod[c] \in Pods /\ UNCHANGED <<pod, acq, cost, inflight>>
        /\ rel' = [rel EXCEPT ![c] = "subtracted"] /\ AddDecode(pod[c], -cost[c])
    BY <1>0, <1>6 DEF ReleaseSubtract, OwnInv
  <2>2. rel'[c] = "subtracted" /\ \A d \in Charges \ {c} : rel'[d] = rel[d]
    BY <1>0, <2>1
  <2>3. /\ \A p \in Pods : Aggregated(p)' = Aggregated(p)
        /\ \A p \in Pods \ {pod[c]} : Counted(p)' = Counted(p)
        /\ c \in Counted(pod[c])
        /\ \A p \in Pods : p = pod[c] => Counted(p)' = Counted(p) \ {c}
    BY <2>1, <2>2 DEF Aggregated, Counted
  <2>4. Total(Counted(pod[c])) = cost[c] + Total(Counted(pod[c]) \ {c}) /\ Total(Counted(pod[c]) \ {c}) \in Nat
    BY <1>b, <2>1, <2>3, Totals
  <2>5. decodeTokens[pod[c]] = cost[c] + Total(Counted(pod[c]) \ {c}) /\ cost[c] \in Nat
    BY <1>0, <2>1, <2>4 DEF Conserved
  <2>6. AddFloat(decodeTokens[pod[c]], -cost[c]) = Total(Counted(pod[c]) \ {c})
    BY <2>4, <2>5 DEF AddFloat
  <2>7. decodeTokens'[pod[c]] = Total(Counted(pod[c]) \ {c})
        /\ \A p \in Pods \ {pod[c]} : decodeTokens'[p] = decodeTokens[p]
    BY <1>0, <2>1, <2>6 DEF AddDecode
  <2> QED BY <2>1, <2>3, <2>7 DEF Conserved, Total
<1>7. ASSUME NEW c \in Charges, ReleaseAggregate(c) PROVE Conserved'
  <2>1. /\ acq[c] = "held" /\ rel[c] = "subtracted" /\ pod[c] \in Pods
        /\ UNCHANGED <<pod, acq, cost, decodeTokens>>
        /\ rel' = [rel EXCEPT ![c] = "notify"] /\ AddDecodeInflight(pod[c], -1, cost[c])
    BY <1>0, <1>7 DEF ReleaseAggregate, OwnInv
  <2>2. rel'[c] = "notify" /\ \A d \in Charges \ {c} : rel'[d] = rel[d]
    BY <1>0, <2>1
  <2>3. /\ \A p \in Pods : Counted(p)' = Counted(p)
        /\ \A p \in Pods \ {pod[c]} : Aggregated(p)' = Aggregated(p)
        /\ c \in Aggregated(pod[c])
        /\ \A p \in Pods : p = pod[c] => Aggregated(p)' = Aggregated(p) \ {c}
    BY <2>1, <2>2 DEF Aggregated, Counted
  <2> DEFINE S == Aggregated(pod[c])
             T == Aggregated(pod[c]) \ {c}
  <2>4. /\ Total(S) = cost[c] + Total(T) /\ Total(T) \in Nat
        /\ Cardinality(T) = Cardinality(S) - 1 /\ Cardinality(S) \in Nat /\ T \in SUBSET Charges
    BY <1>b, <2>1, <2>3, Totals
  <2>5. IsFiniteSet(T) /\ Cardinality(T) \in Nat
    BY <2>4, Totals
  <2>6. inflight[pod[c]] = <<Cardinality(S), Total(S)>> /\ cost[c] \in Nat
    BY <1>0, <2>1 DEF Conserved
  <2>7. Aggregate(inflight[pod[c]], -1, cost[c]) = <<Cardinality(T), Total(T)>>
    <3>0. inflight[pod[c]][1] = Cardinality(S) /\ inflight[pod[c]][2] = Total(S)
      BY <2>6
    <3>1. CASE Cardinality(T) = 0
      <4>1. T = {}
        BY <2>5, <3>1, FS_EmptySet
      <4>2. Total(T) = 0
        BY <4>1, SumEmpty DEF Total
      <4>3. Cardinality(S) + (-1) <= 0
        BY <2>4, <3>1
      <4> QED BY <3>0, <3>1, <4>2, <4>3 DEF Aggregate, Zero
    <3>2. CASE Cardinality(T) # 0
      <4>1. ~(Cardinality(S) + (-1) <= 0) /\ Cardinality(S) + (-1) = Cardinality(T)
        BY <2>4, <2>5, <3>2
      <4>2. Total(S) + (-1) * cost[c] = Total(T)
        BY <2>4, <2>6
      <4> QED BY <3>0, <4>1, <4>2 DEF Aggregate
    <3> QED BY <3>1, <3>2
  <2>8. inflight'[pod[c]] = <<Cardinality(T), Total(T)>>
        /\ \A p \in Pods \ {pod[c]} : inflight'[p] = inflight[p]
    BY <1>0, <2>1, <2>7 DEF AddDecodeInflight
  <2>9. \A p \in Pods : p = pod[c] => inflight'[p] = <<Cardinality(Aggregated(p)'), SumFunctionOnSet(cost', Aggregated(p)')>>
    BY <2>1, <2>3, <2>8 DEF Total
  <2> QED BY <2>1, <2>3, <2>8, <2>9 DEF Conserved, Total
<1>8. ASSUME NEW c \in Charges, CorrectDecode(c) PROVE Conserved'
  <2>1. PICK k \in Costs : /\ cost' = [cost EXCEPT ![c] = k]
                           /\ AddDecode(pod[c], k - cost[c])
                           /\ AddDecodeInflightTokens(pod[c], k - cost[c])
    BY <1>8 DEF CorrectDecode, Correct
  <2>2. /\ acq[c] = "held" /\ rel[c] = "none" /\ pod[c] \in Pods /\ UNCHANGED <<pod, acq, rel>>
        /\ k \in Nat /\ cost[c] \in Nat
    BY <1>0, <1>8, <1>a DEF CorrectDecode
  <2>3. /\ \A p \in Pods : Counted(p)' = Counted(p) /\ Aggregated(p)' = Aggregated(p)
        /\ c \in Counted(pod[c]) /\ c \in Aggregated(pod[c])
        /\ \A p \in Pods \ {pod[c]} : c \notin Counted(p) /\ c \notin Aggregated(p)
    BY <2>2 DEF Counted, Aggregated
  <2>4. \A S \in SUBSET Charges : SumFunctionOnSet(cost', S) = Total(S) + (IF c \in S THEN k - cost[c] ELSE 0)
    BY <2>1, <2>2, TotalCorrected
  <2>5. \A S \in SUBSET Charges : Total(S) \in Nat /\ Cardinality(S) \in Nat
    BY Totals
  <2>6. ASSUME NEW p \in Pods \ {pod[c]}
        PROVE  /\ decodeTokens'[p] = SumFunctionOnSet(cost', Counted(p))
               /\ inflight'[p] = <<Cardinality(Aggregated(p)), SumFunctionOnSet(cost', Aggregated(p))>>
    <3>1. decodeTokens'[p] = decodeTokens[p] /\ inflight'[p] = inflight[p]
      BY <1>0, <2>1 DEF AddDecode, AddDecodeInflightTokens
    <3>2. /\ SumFunctionOnSet(cost', Counted(p)) = Total(Counted(p))
          /\ SumFunctionOnSet(cost', Aggregated(p)) = Total(Aggregated(p))
      BY <1>b, <2>3, <2>4, <2>5
    <3> QED BY <3>1, <3>2 DEF Conserved
  <2>7. ASSUME NEW p \in Pods, p = pod[c]
        PROVE  /\ decodeTokens'[p] = SumFunctionOnSet(cost', Counted(p))
               /\ inflight'[p] = <<Cardinality(Aggregated(p)), SumFunctionOnSet(cost', Aggregated(p))>>
    <3> DEFINE S == Aggregated(p)
               N == Counted(p)
    <3>1. /\ SumFunctionOnSet(cost', N) = Total(N) + (k - cost[c])
          /\ SumFunctionOnSet(cost', S) = Total(S) + (k - cost[c])
      BY <1>b, <2>3, <2>4, <2>7
    <3>2. Total(N) = cost[c] + Total(N \ {c}) /\ Total(N \ {c}) \in Nat
      BY <1>b, <2>3, <2>7, Totals
    <3>3. decodeTokens[p] = Total(N) /\ inflight[p] = <<Cardinality(S), Total(S)>>
      BY DEF Conserved
    <3>4. AddFloat(decodeTokens[p], k - cost[c]) = Total(N) + (k - cost[c])
      BY <2>2, <3>2, <3>3 DEF AddFloat
    <3>5. decodeTokens'[p] = Total(N) + (k - cost[c])
      BY <1>0, <2>1, <2>7, <3>4 DEF AddDecode
    <3>6. Cardinality(S) > 0
      <4>1. IsFiniteSet(S) /\ Cardinality(S) \in Nat /\ S # {}
        BY <1>b, <2>3, <2>7, Totals
      <4> QED BY <4>1, FS_EmptySet
    <3>7. inflight'[p] = <<Cardinality(S), Total(S) + (k - cost[c])>>
      BY <1>0, <2>1, <2>7, <3>3, <3>6 DEF AddDecodeInflightTokens
    <3> QED BY <3>1, <3>5, <3>7
  <2> QED BY <2>3, <2>6, <2>7 DEF Conserved, Total
<1>9. CASE UNCHANGED trackerVars
  <2>1. \A p \in Pods : Counted(p)' = Counted(p) /\ Aggregated(p)' = Aggregated(p)
    BY <1>9 DEF trackerVars, Counted, Aggregated
  <2> QED BY <1>9, <2>1, StillConserved DEF trackerVars
<1>10. Flush \/ (\E w \in late : LateWrite(w)) \/ UNCHANGED vars => UNCHANGED trackerVars
  BY DEF Flush, Flushing, PublisherWakes, FlushTake, FlushRead, FlushOk, FlushFails,
         LateWrite, vars, trackerVars
<1> QED
  BY <1>1, <1>2, <1>3, <1>4, <1>5, <1>6, <1>7, <1>8, <1>9, <1>10 DEF Next, Acquire, Acquiring, Release

\* Nothing is charged initially.
LEMMA InitConserved == Init => OwnInv /\ Conserved
<1> SUFFICES ASSUME Init PROVE OwnInv /\ Conserved
  OBVIOUS
<1>1. OwnInv
  BY DEF Init, OwnInv
<1>2. \A p \in Pods : Counted(p) = {} /\ Aggregated(p) = {}
  BY DEF Init, Counted, Aggregated
<1>3. Total({}) = 0 /\ Cardinality({}) = 0
  BY SumEmpty, FS_EmptySet DEF Total
<1>4. \A p \in Pods : decodeTokens[p] = 0 /\ inflight[p] = <<0, 0>>
  BY DEF Init, Zero
<1> QED BY <1>1, <1>2, <1>3, <1>4 DEF Conserved

\* When no two requests share an ID, the counter that routing reads and the aggregate that is
\* published are the exact totals of the outstanding charges at every moment: addFloat's clamp and
\* addDecodeInflight's reset never swallow a token, whichever way charges, corrections and
\* releases interleave.
THEOREM TotalsExact == DistinctIDs => (Spec => []Conserved)
<1>1. IInv /\ OwnInv /\ Conserved /\ [Next]_vars /\ DistinctIDs => OwnInv' /\ Conserved'
  BY NextOwnInv, NextConserved DEF IInv
<1>2. SUFFICES ASSUME DistinctIDs PROVE Spec => []Conserved
  OBVIOUS
<1>3. IInv /\ OwnInv /\ Conserved /\ [Next]_vars => OwnInv' /\ Conserved'
  BY <1>1, <1>2
<1> QED BY <1>3, Inductive, InitConserved, PTL DEF Spec


\* With an ID of its own a charge stays filed until its release has run.
FiledInv ==
  \A c \in Charges :
    acq[c] # "idle" /\ rel[c] \in {"none", "marked", "subtracted"} => decodeEntries[IdOf[c]] = c

\* Every step keeps FiledInv.
LEMMA NextFiledInv ==
  ASSUME DistinctIDs, TypeOK, OwnInv, FiledInv, [Next]_vars
  PROVE  FiledInv'
<1> USE DecodeLedgerAssumption DEF TypeOK, FiledInv, AcqStates, RelStates
<1>1. ASSUME NEW c \in Charges, AcquireSwap(c) PROVE FiledInv'
  <2>1. /\ \A d \in Charges \ {c} : acq'[d] = acq[d] /\ IdOf[d] # IdOf[c]
        /\ rel' = rel /\ decodeEntries' = [decodeEntries EXCEPT ![IdOf[c]] = c]
    BY <1>1 DEF AcquireSwap, DistinctIDs
  <2> QED BY <2>1
<1>2. ASSUME NEW c \in Charges, AcquireReplace(c) \/ AcquireReplaced(c) PROVE FiledInv'
  BY <1>2 DEF AcquireReplace, AcquireReplaced, OwnInv
<1>3. ASSUME NEW c \in Charges, AcquireAdd(c) \/ AcquireAggregate(c) \/ AcquireNotify(c) PROVE FiledInv'
  BY <1>3 DEF AcquireAdd, AcquireAggregate, AcquireNotify
<1>4. ASSUME NEW c \in Charges, ReleaseMark(c) \/ ReleaseSubtract(c) \/ ReleaseNotify(c) PROVE FiledInv'
  BY <1>4 DEF ReleaseMark, ReleaseSubtract, ReleaseNotify, Reachable
<1>5. ASSUME NEW c \in Charges, ReleaseAggregate(c) PROVE FiledInv'
  <2>1. /\ \A d \in Charges \ {c} : rel'[d] = rel[d] /\ IdOf[d] # IdOf[c]
        /\ rel'[c] = "notify" /\ acq' = acq
        /\ decodeEntries' = [decodeEntries EXCEPT ![IdOf[c]] = IF @ = c THEN NoCharge ELSE @]
    BY <1>5 DEF ReleaseAggregate, DistinctIDs
  <2>2. \A d \in Charges \ {c} : decodeEntries'[IdOf[d]] = decodeEntries[IdOf[d]]
    BY <2>1
  <2> QED BY <2>1, <2>2
<1>6. ASSUME NEW c \in Charges, CorrectDecode(c) \/ CorrectNotify(c) PROVE FiledInv'
  BY <1>6 DEF CorrectDecode, CorrectNotify
<1>7. CASE UNCHANGED trackerVars
  BY <1>7 DEF trackerVars
<1>8. Flush \/ (\E w \in late : LateWrite(w)) \/ UNCHANGED vars => UNCHANGED trackerVars
  BY DEF Flush, Flushing, PublisherWakes, FlushTake, FlushRead, FlushOk, FlushFails,
         LateWrite, vars, trackerVars
<1> QED
  BY <1>1, <1>2, <1>3, <1>4, <1>5, <1>6, <1>7, <1>8 DEF Next, Acquire, Acquiring, Release

\* When no two requests share an ID, a gateway with no call in progress and no entry filed has
\* nothing charged to any pod: the load that stays pinned (NoPinnedLoad's counterexample) needs
\* two requests under one trace ID.
THEOREM NothingPinned == DistinctIDs => (Spec => []NoPinnedLoad)
<1>1. SUFFICES ASSUME DistinctIDs PROVE Spec => []NoPinnedLoad
  OBVIOUS
<1>2. Init => FiledInv
  BY DEF Init, FiledInv
<1>3. /\ IInv /\ OwnInv /\ Conserved /\ [Next]_vars => OwnInv' /\ Conserved'
      /\ IInv /\ OwnInv /\ FiledInv /\ [Next]_vars => FiledInv'
  BY <1>1, NextOwnInv, NextConserved, NextFiledInv DEF IInv
<1>4. IInv /\ FiledInv /\ Conserved => NoPinnedLoad
  <2> SUFFICES ASSUME TypeOK, FiledInv, Conserved,
                      \A c \in Charges : acq[c] \in {"idle", "held"} /\ rel[c] \in {"none", "done"},
                      \A i \in IDs : decodeEntries[i] = NoCharge, NEW p \in Pods
               PROVE  decodeTokens[p] = 0 /\ inflight[p] = Zero
    BY DEF NoPinnedLoad, IInv
  <2>1. \A c \in Charges : acq[c] = "idle" \/ rel[c] = "done"
    BY DecodeLedgerAssumption DEF FiledInv
  <2>2. Counted(p) = {} /\ Aggregated(p) = {}
    BY <2>1 DEF Counted, Aggregated
  <2>3. Total({}) = 0 /\ Cardinality({}) = 0
    BY SumEmpty, FS_EmptySet DEF Total
  <2> QED BY <2>2, <2>3 DEF Conserved, Zero
<1> QED BY <1>2, <1>3, <1>4, Inductive, InitConserved, PTL DEF Spec
=============================================================================
