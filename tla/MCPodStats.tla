---------------------------- MODULE MCPodStats ----------------------------
(* Instances of PodStats for TLC. *)
EXTENDS PodStats, TLC

CONSTANTS k1, k2, ip0, ip1, a1, a2, r1

\* Two attempts share a request ID (a retry under the same trace ID).
MCOneRequest == (a1 :> r1 @@ a2 :> r1)
MCLoads      == (a1 :> 1 @@ a2 :> 2)

\* One attempt alone.
MCSoleRequest == (a1 :> r1)
MCSoleLoad    == (a1 :> 1)

=============================================================================
