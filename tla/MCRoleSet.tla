----------------------------- MODULE MCRoleSet -----------------------------
(* Small RoleSets for TLC.                                                 *)
EXTENDS RoleSet

Base == [strategy |-> "Parallel", order |-> <<NoOrder>>,
         replicas |-> <<2>>, sizes |-> {}, surge |-> <<1>>, unavailable |-> <<0>>,
         drain |-> FALSE, settled |-> TRUE, lag |-> FALSE, quota |-> 4,
         maxFaults |-> 1, maxEdits |-> 1]

(* One role whose cache lags, with room for one pod above the budget.      *)
Lagging == [Base EXCEPT !.lag = TRUE, !.replicas = <<1>>, !.quota = 3,
                        !.maxFaults = 2]

(* One role that drains, resized while it rolls.                           *)
Drained == [Base EXCEPT !.drain = TRUE, !.surge = <<0>>, !.unavailable = <<1>>,
                        !.sizes = {1, 2}, !.maxEdits = 2, !.quota = 3]

(* Two roles, the second to be upgraded first.                             *)
Ordered == [Base EXCEPT !.strategy = "Sequential", !.order = <<NoOrder, 1>>,
                        !.replicas = <<1, 2>>, !.surge = <<1, 0>>,
                        !.unavailable = <<0, 1>>, !.quota = 4]

(* Two roles in steps of two and of one.                                   *)
Stepped == [Base EXCEPT !.strategy = "Interleave", !.order = <<NoOrder, NoOrder>>,
                        !.replicas = <<3, 2>>, !.surge = <<0, 0>>,
                        !.unavailable = <<2, 1>>, !.quota = 5, !.maxFaults = 0]

MCConfigs == {Lagging, Drained, Ordered, Stepped}

(* Steps of one, and an old pod that may stop being ready.                 *)
BrokenOld == [Stepped EXCEPT !.replicas = <<2, 1>>, !.unavailable = <<1, 1>>,
                             !.quota = 4, !.maxFaults = 1]
SteppedConfigs == {BrokenOld}
=============================================================================
