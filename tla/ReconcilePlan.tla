--------------------------- MODULE ReconcilePlan ---------------------------
(***************************************************************************)
(* build_reconcile_plan: which actions lead from the observed state to the *)
(* desired one.  The plan lists them in a fixed order, so a set says as    *)
(* much; the controller never asks for a rules version, so replace_rules   *)
(* is left out.                                                            *)
(***************************************************************************)

CONSTANT NoTopology  \* no topology is requested

PlanActions == {"stop_datapath", "destroy_topology", "apply_topology",
                "start_datapath", "wait_for_datapath"}

\* DesiredState.topology_requested and ObservedState.datapath_running
TopologyRequested(desired) == desired.topology # NoTopology
DatapathRunning(observed) == observed.pid # "none"

\* Mutant: the health is looked at although there is no process.
NeededWithoutProcess(action, desired, observed) ==
    CASE action = "stop_datapath" ->
           ~desired.running /\ DatapathRunning(observed)
      [] action = "wait_for_datapath" -> observed.health # "running"
      [] OTHER -> FALSE

\* The condition under which an action is planned.
Needed(action, desired, observed) ==
    CASE action = "stop_datapath" ->
           ~desired.running /\ DatapathRunning(observed)
      [] action = "destroy_topology" ->
           ~TopologyRequested(desired) /\ observed.applied
      [] action = "apply_topology" ->
           TopologyRequested(desired) /\ ~observed.applied
      [] action = "start_datapath" ->
           desired.running /\ ~DatapathRunning(observed)
      [] action = "wait_for_datapath" ->
           /\ desired.running /\ DatapathRunning(observed)
           /\ observed.health # "running"

BuildReconcilePlan(desired, observed) ==
    {action \in PlanActions : Needed(action, desired, observed)}
=============================================================================
