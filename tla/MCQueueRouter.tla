--------------------------- MODULE MCQueueRouter ----------------------------
(* Instances of QueueRouter: two deployments of one pod each. *)
EXTENDS QueueRouter

CONSTANTS d1, d2, p1, p2, k1, k2, r1, r2, r3

MCDeploymentOf == (p1 :> d1) @@ (p2 :> d2)
MCKeyOf == (r1 :> k1) @@ (r2 :> k1) @@ (r3 :> k2)
MCProfileSets == {{}, {d1}, {d2}, {d1, d2}}
\* r1 is ranked on d1 only and may overfill p2; r2 can be ranked on d1 but has
\* no throughput there; r3 is ranked on d2 only.
MCRankable == (r1 :> {d1}) @@ (r2 :> {d1, d2}) @@ (r3 :> {d2})
MCCosted == (r1 :> {d1, d2}) @@ (r2 :> {d2}) @@ (r3 :> {d1, d2})
MCAllPods == {{p1, p2}}
=============================================================================
