---------------------------- MODULE DecodeLedger ----------------------------
(***************************************************************************)
(* The decode ledger of one gateway: the charges a PD router makes on      *)
(* decode pods (pd/token_load_tracker.go) and the goroutine that publishes *)
(* the per-pod totals to Redis (cache/cache_decode_ledger.go).             *)
(*                                                                         *)
(* A charge is one AcquireDecode call.  It is filed under a request ID and *)
(* released by that ID: by the completion of the request, by a failed      *)
(* prefill, or by the janitor.  IDs are trace IDs when tracing is on, so   *)
(* charges of several requests may share one.                              *)
(*                                                                         *)
(* Every operation on a counter that routing or the publisher reads is a   *)
(* step of its own, except inside a correction, which holds the entry's    *)
(* lock.  Charge times are left out; a pod's published value is the number *)
(* of charges and their tokens.  Redis may run the commands of a pipeline  *)
(* whose Exec failed, then or later.                                       *)
(***************************************************************************)
EXTENDS Integers, FiniteSets, Functions

CONSTANTS Pods, Charges, IDs,
          IdOf,       \* the request ID a charge is filed under
          Costs,      \* prompt lengths, in tokens
          MaxFaults,  \* bound on failed pipelines
          NoCharge, NoPod

ASSUME DecodeLedgerAssumption ==
  /\ IsFiniteSet(Charges)
  /\ IdOf \in [Charges -> IDs]
  /\ Costs \subseteq Nat
  /\ MaxFaults \in Nat
  /\ NoCharge \notin Charges /\ NoPod \notin Pods

VARIABLES
  decodeEntries,  \* request ID -> the charge filed under it
  acq,            \* how far AcquireDecode is with a charge
  prev,           \* the charge it replaced
  rel,            \* how far the release of a charge is; "none" is released = false
  correcting,     \* charges corrected by a call that has not notified yet
  pod, cost,      \* a charge's pod and current cost
  decodeTokens,   \* per pod, the counter that routing reads
  inflight,       \* per pod, <<n, tokens>>: the aggregate that is published
  dirty, published, wake,
  at,             \* where the publisher's goroutine is
  batch, vals,    \* flush's local variables: the pods it took, the values it has read
  field,          \* Redis: this gateway's field per pod, <<0, 0>> if absent
  late,           \* writes of failed pipelines that Redis still runs: <<pod, value>>
  faults,
  overtaken       \* history: pods on which such a write has run

trackerVars == <<decodeEntries, acq, prev, rel, correcting, pod, cost, decodeTokens, inflight>>
signalVars  == <<dirty, wake>>
runVars     == <<published, at, batch, vals, field, late, faults, overtaken>>
vars == <<decodeEntries, acq, prev, rel, correcting, pod, cost, decodeTokens, inflight,
          dirty, wake, published, at, batch, vals, field, late, faults, overtaken>>

Zero == <<0, 0>>
NoVals == [p \in {} |-> Zero]

Init ==
  /\ decodeEntries = [i \in IDs |-> NoCharge]
  /\ acq = [c \in Charges |-> "idle"]
  /\ prev = [c \in Charges |-> NoCharge]
  /\ rel = [c \in Charges |-> "none"]
  /\ correcting = {}
  /\ pod = [c \in Charges |-> NoPod]
  /\ cost = [c \in Charges |-> 0]
  /\ decodeTokens = [p \in Pods |-> 0]
  /\ inflight = [p \in Pods |-> Zero]
  /\ dirty = {} /\ wake = FALSE
  /\ published = {}
  /\ at = "wait" /\ batch = {} /\ vals = NoVals
  /\ field = [p \in Pods |-> Zero]
  /\ late = {}
  /\ faults = 0
  /\ overtaken = {}

-----------------------------------------------------------------------------
(***************************************************************************)
(* The tracker.                                                            *)
(***************************************************************************)

\* Mutant: no clamp.
AddFloat_NoClamp(v, delta) == v + delta

\* addFloat: clamped at zero.
AddFloat(v, delta) == IF v + delta < 0 THEN 0 ELSE v + delta

\* addDecode.
AddDecode(p, delta) == decodeTokens' = [decodeTokens EXCEPT ![p] = AddFloat(@, delta)]

\* addDecodeInflight: an aggregate without charges is reset.
Aggregate(v, delta, tokens) ==
  IF v[1] + delta <= 0 THEN Zero ELSE <<v[1] + delta, v[2] + delta * tokens>>

AddDecodeInflight(p, delta, tokens) ==
  inflight' = [inflight EXCEPT ![p] = Aggregate(@, delta, tokens)]

\* addDecodeInflightTokens.
AddDecodeInflightTokens(p, delta) ==
  inflight' = [inflight EXCEPT ![p] = IF @[1] > 0 THEN <<@[1], @[2] + delta>> ELSE @]

\* notifyDecode, markDirty.
Notify(p) == dirty' = dirty \cup {p} /\ wake' = TRUE

\* AcquireDecodeWithTTL: the new entry replaces what its ID held.
AcquireSwap(c) ==
  LET old == decodeEntries[IdOf[c]]
  IN  /\ acq[c] = "idle"
      /\ \E p \in Pods, k \in Costs :
           /\ pod' = [pod EXCEPT ![c] = p]
           /\ cost' = [cost EXCEPT ![c] = k]
      /\ decodeEntries' = [decodeEntries EXCEPT ![IdOf[c]] = c]
      /\ prev' = [prev EXCEPT ![c] = old]
      /\ acq' = [acq EXCEPT ![c] = IF old = NoCharge THEN "add" ELSE "replace"]
      /\ UNCHANGED <<rel, correcting, decodeTokens, inflight>>
      /\ UNCHANGED signalVars /\ UNCHANGED runVars

\* The earlier charge is released by this call, unless it is already.
AcquireReplace(c) ==
  /\ acq[c] = "replace"
  /\ IF rel[prev[c]] = "none"
     THEN /\ rel' = [rel EXCEPT ![prev[c]] = "marked"]
          /\ acq' = [acq EXCEPT ![c] = "await"]
     ELSE /\ acq' = [acq EXCEPT ![c] = "add"]
          /\ UNCHANGED rel
  /\ UNCHANGED <<decodeEntries, prev, correcting, pod, cost, decodeTokens, inflight>>
  /\ UNCHANGED signalVars /\ UNCHANGED runVars

AcquireReplaced(c) ==
  /\ acq[c] = "await"
  /\ rel[prev[c]] = "done"
  /\ acq' = [acq EXCEPT ![c] = "add"]
  /\ UNCHANGED <<decodeEntries, prev, rel, correcting, pod, cost, decodeTokens, inflight>>
  /\ UNCHANGED signalVars /\ UNCHANGED runVars

AcquireAdd(c) ==
  /\ acq[c] = "add"
  /\ AddDecode(pod[c], cost[c])
  /\ acq' = [acq EXCEPT ![c] = "aggregate"]
  /\ UNCHANGED <<decodeEntries, prev, rel, correcting, pod, cost, inflight>>
  /\ UNCHANGED signalVars /\ UNCHANGED runVars

AcquireAggregate(c) ==
  /\ acq[c] = "aggregate"
  /\ AddDecodeInflight(pod[c], 1, cost[c])
  /\ acq' = [acq EXCEPT ![c] = "notify"]
  /\ UNCHANGED <<decodeEntries, prev, rel, correcting, pod, cost, decodeTokens>>
  /\ UNCHANGED signalVars /\ UNCHANGED runVars

AcquireNotify(c) ==
  /\ acq[c] = "notify"
  /\ Notify(pod[c])
  /\ acq' = [acq EXCEPT ![c] = "held"]
  /\ UNCHANGED <<decodeEntries, prev, rel, correcting, pod, cost, decodeTokens, inflight>>
  /\ UNCHANGED runVars

\* Somebody calls ReleaseDecode, CorrectDecodeCost or the sweep with c filed: the request that
\* made the charge once it is routed, or another one that uses the same ID.
Reachable(c) ==
  /\ acq[c] # "idle"
  /\ \E d \in Charges : IdOf[d] = IdOf[c] /\ acq[d] = "held"

\* releaseDecode: the critical section.
ReleaseMark(c) ==
  /\ Reachable(c) /\ rel[c] = "none"
  /\ rel' = [rel EXCEPT ![c] = "marked"]
  /\ UNCHANGED <<decodeEntries, acq, prev, correcting, pod, cost, decodeTokens, inflight>>
  /\ UNCHANGED signalVars /\ UNCHANGED runVars

ReleaseSubtract(c) ==
  /\ rel[c] = "marked"
  /\ AddDecode(pod[c], -cost[c])
  /\ rel' = [rel EXCEPT ![c] = "subtracted"]
  /\ UNCHANGED <<decodeEntries, acq, prev, correcting, pod, cost, inflight>>
  /\ UNCHANGED signalVars /\ UNCHANGED runVars

\* The aggregate goes down and CompareAndDelete drops the entry, if it is still this one.
ReleaseAggregate(c) ==
  /\ rel[c] = "subtracted"
  /\ AddDecodeInflight(pod[c], -1, cost[c])
  /\ decodeEntries' = [decodeEntries EXCEPT ![IdOf[c]] = IF @ = c THEN NoCharge ELSE @]
  /\ rel' = [rel EXCEPT ![c] = "notify"]
  /\ UNCHANGED <<acq, prev, correcting, pod, cost, decodeTokens>>
  /\ UNCHANGED signalVars /\ UNCHANGED runVars

\* Mutant: a release is published only with the next charge.
ReleaseNotify_Silent(c) ==
  /\ rel[c] = "notify"
  /\ rel' = [rel EXCEPT ![c] = "done"]
  /\ UNCHANGED <<decodeEntries, acq, prev, correcting, pod, cost, decodeTokens, inflight>>
  /\ UNCHANGED signalVars /\ UNCHANGED runVars

ReleaseNotify(c) ==
  /\ rel[c] = "notify"
  /\ Notify(pod[c])
  /\ rel' = [rel EXCEPT ![c] = "done"]
  /\ UNCHANGED <<decodeEntries, acq, prev, correcting, pod, cost, decodeTokens, inflight>>
  /\ UNCHANGED runVars

\* The counters move by the difference, under the entry's lock.
Correct(c) ==
  \E k \in Costs \ {cost[c]} :
    /\ cost' = [cost EXCEPT ![c] = k]
    /\ AddDecode(pod[c], k - cost[c])
    /\ AddDecodeInflightTokens(pod[c], k - cost[c])

\* Mutant: a release that came first is not noticed.
CorrectDecode_Released(c) ==
  /\ Reachable(c) /\ c \notin correcting
  /\ Correct(c)
  /\ correcting' = correcting \cup {c}
  /\ UNCHANGED <<decodeEntries, acq, prev, rel, pod>>
  /\ UNCHANGED signalVars /\ UNCHANGED runVars

\* CorrectDecodeCost, correctDecode.
CorrectDecode(c) ==
  /\ Reachable(c) /\ c \notin correcting
  /\ rel[c] = "none"
  /\ Correct(c)
  /\ correcting' = correcting \cup {c}
  /\ UNCHANGED <<decodeEntries, acq, prev, rel, pod>>
  /\ UNCHANGED signalVars /\ UNCHANGED runVars

CorrectNotify(c) ==
  /\ c \in correcting
  /\ Notify(pod[c])
  /\ correcting' = correcting \ {c}
  /\ UNCHANGED <<decodeEntries, acq, prev, rel, pod, cost, decodeTokens, inflight>>
  /\ UNCHANGED runVars

-----------------------------------------------------------------------------
(***************************************************************************)
(* The publisher.                                                          *)
(***************************************************************************)

\* Mutant: no ticker.
PublisherWakes_NoTick ==
  /\ at = "wait"
  /\ wake /\ wake' = FALSE /\ UNCHANGED dirty
  /\ at' = "flush"
  /\ UNCHANGED trackerVars /\ UNCHANGED <<published, batch, vals, field, late, faults, overtaken>>

\* run: woken by markDirty, or by the ticker, which marks every published pod.
PublisherWakes ==
  /\ at = "wait"
  /\ \/ wake /\ wake' = FALSE /\ UNCHANGED dirty
     \/ dirty' = dirty \cup published /\ UNCHANGED wake
  /\ at' = "flush"
  /\ UNCHANGED trackerVars /\ UNCHANGED <<published, batch, vals, field, late, faults, overtaken>>

\* flush: take the dirty pods, or return.
FlushTake ==
  /\ at = "flush"
  /\ dirty' = {}
  /\ batch' = dirty
  /\ at' = IF dirty = {} THEN "wait" ELSE "write"
  /\ UNCHANGED wake
  /\ UNCHANGED trackerVars /\ UNCHANGED <<published, vals, field, late, faults, overtaken>>

\* Ask the provider for one of them.
FlushRead(p) ==
  /\ at = "write"
  /\ p \in batch \ DOMAIN vals
  /\ vals' = [q \in DOMAIN vals \cup {p} |-> IF q = p THEN inflight[p] ELSE vals[q]]
  /\ UNCHANGED trackerVars /\ UNCHANGED signalVars
  /\ UNCHANGED <<published, at, batch, field, late, faults, overtaken>>

\* The pipeline's commands for the pods S: HSET of the value, HDEL of a zero one.
Exec(S) == field' = [p \in Pods |-> IF p \in S THEN vals[p] ELSE field[p]]

FlushReturns ==
  /\ at = "write" /\ DOMAIN vals = batch
  /\ at' = "wait" /\ batch' = {} /\ vals' = NoVals

FlushOk ==
  /\ FlushReturns
  /\ Exec(batch)
  /\ published' = {p \in published \cup batch : p \in batch => vals[p] # Zero}
  /\ UNCHANGED trackerVars /\ UNCHANGED signalVars /\ UNCHANGED <<late, faults, overtaken>>

\* Mutant: the batch of a failed pipeline is forgotten.
FlushFails_Drops ==
  /\ FlushReturns
  /\ faults < MaxFaults
  /\ faults' = faults + 1
  /\ UNCHANGED <<field, late>> /\ UNCHANGED signalVars
  /\ UNCHANGED trackerVars /\ UNCHANGED <<published, overtaken>>

\* Exec fails: Redis ran some of the commands, will run some, and never runs the others.  The
\* batch is dirty again.
FlushFails ==
  /\ FlushReturns
  /\ faults < MaxFaults
  /\ faults' = faults + 1
  /\ \E S \in SUBSET batch :
       /\ Exec(S)
       /\ \E L \in SUBSET (batch \ S) : late' = late \cup {<<p, vals[p]>> : p \in L}
  /\ dirty' = dirty \cup batch
  /\ UNCHANGED wake
  /\ UNCHANGED trackerVars /\ UNCHANGED <<published, overtaken>>

LateWrite(w) ==
  /\ w \in late
  /\ late' = late \ {w}
  /\ field' = [field EXCEPT ![w[1]] = w[2]]
  /\ overtaken' = overtaken \cup {w[1]}
  /\ UNCHANGED trackerVars /\ UNCHANGED signalVars
  /\ UNCHANGED <<published, at, batch, vals, faults>>

-----------------------------------------------------------------------------
Acquiring(c) == AcquireReplace(c) \/ AcquireReplaced(c) \/ AcquireAdd(c)
                \/ AcquireAggregate(c) \/ AcquireNotify(c)
Acquire(c) == AcquireSwap(c) \/ Acquiring(c)
Release(c) == ReleaseMark(c) \/ ReleaseSubtract(c) \/ ReleaseAggregate(c) \/ ReleaseNotify(c)
Flushing == PublisherWakes \/ FlushTake \/ \E p \in batch : FlushRead(p)
Flush == Flushing \/ FlushOk \/ FlushFails

Next ==
  \/ \E c \in Charges : Acquire(c) \/ Release(c) \/ CorrectDecode(c) \/ CorrectNotify(c)
  \/ Flush
  \/ \E w \in late : LateWrite(w)

Spec == Init /\ [][Next]_vars

\* The goroutines of a charge and the publisher make progress, every request ends, and Redis
\* answers time and again.
Fairness ==
  /\ \A c \in Charges :
       WF_vars(Acquiring(c)) /\ WF_vars(Release(c)) /\ WF_vars(CorrectNotify(c))
  /\ WF_vars(Flushing)
  /\ SF_vars(FlushOk)
  /\ WF_vars(\E w \in late : LateWrite(w))

LiveSpec == Spec /\ Fairness

-----------------------------------------------------------------------------
(***************************************************************************)
(* Properties.                                                             *)
(***************************************************************************)

AcqStates == {"idle", "replace", "await", "add", "aggregate", "notify", "held"}
RelStates == {"none", "marked", "subtracted", "notify", "done"}
Values    == Nat \X Int

\* Every variable keeps to its values; in particular the counter that routing reads never goes
\* below zero, a charge has a pod once it is filed, and flush holds values of pods it took only.
TypeOK ==
  /\ decodeEntries \in [IDs -> Charges \cup {NoCharge}]
  /\ acq \in [Charges -> AcqStates]
  /\ prev \in [Charges -> Charges \cup {NoCharge}]
  /\ rel \in [Charges -> RelStates]
  /\ correcting \subseteq Charges
  /\ pod \in [Charges -> Pods \cup {NoPod}]
  /\ cost \in [Charges -> Nat]
  /\ decodeTokens \in [Pods -> Nat]
  /\ inflight \in [Pods -> Values]
  /\ dirty \subseteq Pods /\ published \subseteq Pods /\ wake \in BOOLEAN
  /\ at \in {"wait", "flush", "write"}
  /\ batch \subseteq Pods /\ (at # "write" => batch = {})
  /\ DOMAIN vals \subseteq batch /\ vals \in [DOMAIN vals -> Values]
  /\ field \in [Pods -> Values]
  /\ late \subseteq Pods \X Values
  /\ faults \in 0..MaxFaults
  /\ overtaken \subseteq Pods
  /\ \A c \in Charges : acq[c] # "idle" => pod[c] \in Pods

\* Charges whose cost is in the counter, and in the aggregate, of p.
Counted(p) ==
  {c \in Charges : /\ pod[c] = p /\ acq[c] \in {"aggregate", "notify", "held"}
                   /\ rel[c] \in {"none", "marked"}}
Aggregated(p) ==
  {c \in Charges : /\ pod[c] = p /\ acq[c] \in {"notify", "held"}
                   /\ rel[c] \in {"none", "marked", "subtracted"}}

Total(S) == SumFunctionOnSet(cost, S)

\* The counter that routing reads and the aggregate that is published are the exact totals of the
\* outstanding charges, whichever way corrections, releases and re-acquires of other charges
\* interleave: the clamp of addFloat and the reset of addDecodeInflight never hide anything.
Conserved ==
  \A p \in Pods :
    /\ decodeTokens[p] = Total(Counted(p))
    /\ inflight[p] = <<Cardinality(Aggregated(p)), Total(Aggregated(p))>>

\* Once every call has returned and no entry is filed, nothing is charged to any pod: no history of
\* calls pins load on a pod for good.
NoPinnedLoad ==
  /\ \A c \in Charges : acq[c] \in {"idle", "held"} /\ rel[c] \in {"none", "done"}
  /\ correcting = {}
  /\ \A i \in IDs : decodeEntries[i] = NoCharge
  => \A p \in Pods : decodeTokens[p] = 0 /\ inflight[p] = Zero

\* A call that has changed the aggregate of p and has not notified the publisher yet.
NotifyPending(p) ==
  \E c \in Charges : pod[c] = p /\ (acq[c] = "notify" \/ rel[c] = "notify" \/ c \in correcting)

\* What flush will write, or has written, for p.
Published(p) ==
  CASE p \in DOMAIN vals -> vals[p]
    [] p \in batch \ DOMAIN vals -> inflight[p]
    [] OTHER -> field[p]

\* No change of the ledger is lost on its way to Redis: a pod whose value in Redis, or on its way
\* there, is not the current one is dirty or about to be marked, whatever the interleaving of
\* charges, flushes and failed pipelines.  Pods on which a failed write ran late are set aside.
NoLostUpdate ==
  \A p \in Pods \ overtaken :
    Published(p) # inflight[p] => p \in dirty \/ NotifyPending(p)

\* The fields of all pods end up at the current values when the charging stops, and stay there.
Converges == \A p \in Pods : <>[](p \notin overtaken => field[p] = inflight[p])

=============================================================================
