---------------------------- MODULE MCModelClaim ----------------------------
(* The ModelClaim controller on a card that holds two claims, model-checked. *)
EXTENDS ModelClaim

CONSTANTS a, b

MCOrder == <<a, b>>
MCFootprint == [c \in {a, b} |-> 1]
MCKVFloor == [c \in {a, b} |-> 1]
MCScenarios ==
    {{"burst", "delete"}, {"burst", "rpc"}, {"burst", "api"}, {"burst", "crash"},
     {"rpc", "delete"}, {"api", "delete"}, {"engine"}, {"lag"}}

=============================================================================
