-------------------------- MODULE MCRunningRequests --------------------------
(***************************************************************************)
(* Instances of RunningRequests for TLC.                                   *)
(***************************************************************************)
EXTENDS RunningRequests

CONSTANTS g1, g2, r1, r2, r3, p1, p2

\* r1 and r2 end at the first gateway, r3 at the second.
MCGatewayOf == [r \in Requests |-> IF r = r3 THEN g2 ELSE g1]

=============================================================================
