---------------------------- MODULE MCMaintenance ----------------------------
(***************************************************************************)
(* The maintenance cache while no call fails and the process keeps running:*)
(* what disturbs it here is only a request that is slow.                   *)
(***************************************************************************)
EXTENDS MaintenanceCache

NothingFails ==
    \/ Pass \/ ToggleWrite \/ ToggleClear
    \/ \E g \in Guards : GuardMiss(g) \/ GuardQuery(g) \/ GuardFill(g)

PromptSpec == MaintenanceInit /\ [][NothingFails]_maintenanceVars
=============================================================================
