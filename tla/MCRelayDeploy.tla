--------------------------- MODULE MCRelayDeploy ---------------------------
(* A small instance of RelayDeploy for TLC. *)
EXTENDS RelayDeploy

\* One note on a new floor, created step by step.
FloorPlan == [newWorkspace |-> FALSE, newFloor |-> TRUE,
              nodes |-> <<"note">>, edges |-> 0]

\* A portal on the existing floor: applied as a partitura.
PortalPlan == [newWorkspace |-> FALSE, newFloor |-> FALSE,
               nodes |-> <<"portal">>, edges |-> 0]

MCPlans == {FloorPlan, PortalPlan}

\* A node of the same kind that people add to the existing floor.
MCUserNodes ==
    {[job |-> "user", at |-> 1, kind |-> "portal", place |-> "ground"]}

=============================================================================
