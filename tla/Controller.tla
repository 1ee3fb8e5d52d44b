----------------------------- MODULE Controller -----------------------------
(***************************************************************************)
(* The controller pktlab-ctrld: ControllerRuntime, the TopologyManager and *)
(* the DpdkdSupervisor it owns, driven by concurrent API requests and by   *)
(* the lifespan of the API server.                                         *)
(*                                                                         *)
(* API handlers run on a thread pool.  The runtime lock protects the       *)
(* desired, observed and reported state and the supervisor; the manager    *)
(* lock protects the applied topology and the kernel state of the lab.  An *)
(* apply or destroy takes them in several separate sections, which is      *)
(* where requests interleave; a section that is entered and left without   *)
(* taking another lock is one step.  A controller that supervises its      *)
(* datapath (the default) is modelled.                                     *)
(***************************************************************************)
EXTENDS Naturals, FiniteSets

CONSTANTS
    Mutators,        \* threads that serve apply and destroy requests
    Topologies,      \* valid topology documents
    NoTopology,      \* absence of one
    MaxRequests,     \* bound of the model: apply and destroy requests
    Faults           \* which of PossibleFaults can happen

ASSUME NoTopologyAssumption == NoTopology \notin Topologies
ASSUME MaxRequestsAssumption == MaxRequests \in Nat

\* The names the model uses for "nobody" and "nothing" name nobody and nothing.
ASSUME NamesAssumption ==
    /\ {"free", "lifespan"} \cap Mutators = {}
    /\ {"none", "boot"} \cap Topologies = {}

\* The datapath exits by itself; it exits inside a status exchange; waiting
\* for the killed datapath times out.
PossibleFaults == {"die", "raise", "unkillable"}
ASSUME FaultsAssumption == Faults \subseteq PossibleFaults

VARIABLES
    lpc,          \* point reached by the lifespan of the API server
    pc, target,   \* per mutator: point reached, topology of the request
    requests,     \* requests so far, for MaxRequests
    stopHasLock,  \* ControllerRuntime.stop holds the runtime lock
    mlock,        \* holder of the manager lock
    current,      \* manager._current
    lab,          \* what exists in the kernel of each topology
    handle,       \* profile of the process the supervisor knows, if any
    alive,        \* that process runs
    health,       \* what it reports while it runs
    last_health,  \* supervisor._last_health
    stopped,      \* history: the controller stopped the process it last started
    started, desired, observed, state, override,
    reported,     \* history: topologies whose teardown failed with an error
    slipped       \* history: a request ended without recording what it did

runtimeVars == <<desired, observed, state, override>>
supVars == <<handle, alive, health, last_health, stopped>>
managerVars == <<current, lab, reported>>
controlVars == <<lpc, stopHasLock, started, slipped>>
vars == <<runtimeVars, supVars, managerVars, controlVars, pc, target, requests,
          mlock>>

Profiles == {"boot"} \cup Topologies
HealthStates == {"running", "degraded", "paused"}

\* What DatapathProcessStatus says of the process.
DatapathStatus ==
    [running: BOOLEAN, reachable: BOOLEAN, health: HealthStates \cup {"none"}]
Absent(h) == [running |-> FALSE, reachable |-> FALSE, health |-> h]

Unapplied == [topology |-> NoTopology, running |-> FALSE, controller |-> "running"]

\* Every variable stays in its type; in particular the controller never
\* reports a state of the datapath as its own (app.py:414-456).
TypeOK ==
    /\ lpc \in {"off", "up", "stop", "stop_lock", "stop_datapath", "stop_lab",
                "stop_done", "down"}
    /\ pc \in [Mutators ->
         {"idle", "apply_begin", "apply_lock", "apply_replace_stop",
          "apply_replace_lab", "apply_build", "apply_start", "apply_taps",
          "apply_undo_stop", "apply_undo_lab", "apply_failed", "apply_record",
          "destroy_begin", "destroy_lock", "destroy_stop", "destroy_lab",
          "destroy_failed", "destroy_tail", "destroy_record"}]
    /\ target \in [Mutators -> Topologies \cup {NoTopology}]
    /\ requests \in 0..MaxRequests
    /\ stopHasLock \in BOOLEAN
    /\ mlock \in Mutators \cup {"free", "lifespan"}
    /\ current \in Topologies \cup {NoTopology}
    /\ lab \in [Topologies -> {"absent", "partial", "built"}]
    /\ handle \in Profiles \cup {"none"}
    /\ alive \in BOOLEAN /\ started \in BOOLEAN /\ override \in BOOLEAN
    /\ health \in HealthStates
    /\ last_health \in HealthStates \cup {"none"}
    /\ stopped \in BOOLEAN
    /\ desired \in [topology: Topologies \cup {NoTopology}, running: BOOLEAN,
                    controller: {"running", "stopped"}]
    /\ observed \in [applied: BOOLEAN, effective: Topologies \cup {NoTopology},
                     pid: Profiles \cup {"none"},
                     health: HealthStates \cup {"none"}]
    /\ state \in {"stopped", "starting", "running", "degraded", "reconciling",
                  "stopping"}
    /\ reported \subseteq Topologies /\ slipped \in BOOLEAN

Init ==
    /\ lpc = "off"
    /\ pc = [t \in Mutators |-> "idle"]
    /\ target = [t \in Mutators |-> NoTopology]
    /\ requests = 0
    /\ stopHasLock = FALSE
    /\ mlock = "free"
    /\ current = NoTopology
    /\ lab = [t \in Topologies |-> "absent"]
    /\ handle = "none" /\ alive = FALSE
    /\ health = "running" /\ last_health = "none"
    /\ stopped = FALSE
    /\ started = FALSE
    /\ desired = [topology |-> NoTopology, running |-> TRUE,
                  controller |-> "stopped"]
    /\ observed = [applied |-> FALSE, effective |-> NoTopology,
                   pid |-> "none", health |-> "none"]
    /\ state = "stopped" /\ override = FALSE
    /\ reported = {} /\ slipped = FALSE

-----------------------------------------------------------------------------
(* The supervisor, called with the runtime lock held                       *)

RuntimeLockFree == ~stopHasLock

\* DpdkdSupervisor.status returns st: an exited process is dropped, with the
\* health it last reported; a running one answers in time or does not.
Status(st) ==
    /\ \/ /\ handle = "none"
          /\ st = Absent(last_health)
          /\ UNCHANGED <<handle, last_health>>
       \/ /\ handle # "none" /\ ~alive
          /\ st = Absent(last_health)
          /\ handle' = "none"
          /\ UNCHANGED last_health
       \/ /\ handle # "none" /\ alive
          /\ st = [running |-> TRUE, reachable |-> TRUE, health |-> health]
          /\ last_health' = health
          /\ UNCHANGED handle
       \/ /\ handle # "none" /\ alive
          /\ st = [running |-> TRUE, reachable |-> FALSE,
                   health |-> last_health]
          /\ UNCHANGED <<handle, last_health>>
    /\ UNCHANGED <<alive, health, stopped>>

\* The process dies half-way through an exchange: the protocol error is not
\* one status catches.
StatusRaises ==
    /\ "raise" \in Faults
    /\ handle # "none" /\ alive
    /\ alive' = FALSE
    /\ UNCHANGED <<handle, health, last_health, stopped>>

\* DpdkdSupervisor.stop
StopProcess ==
    /\ handle' = "none" /\ alive' = FALSE /\ last_health' = "none"
    /\ stopped' = TRUE
    /\ UNCHANGED health

\* The handle is dropped before the wait that can time out twice.
StopTimesOut ==
    /\ "unkillable" \in Faults /\ handle # "none" /\ alive
    /\ handle' = "none" /\ alive' = FALSE
    /\ stopped' = TRUE
    /\ UNCHANGED <<health, last_health>>

\* DpdkdSupervisor.start of a fresh supervisor: the process answers in time
\* with whatever state it reached ...
StartProcess(profile) ==
    /\ handle' = profile /\ alive' = TRUE
    /\ health' \in {"running", "degraded"}
    /\ last_health' = health'
    /\ stopped' = FALSE

\* ... or exits or stays silent, and is stopped again.
StartProcessFails ==
    /\ handle' = "none" /\ alive' = FALSE /\ last_health' = "none"
    /\ stopped' = TRUE
    /\ UNCHANGED health

\* The process exits by itself, at any time.
DatapathDies ==
    /\ "die" \in Faults
    /\ handle # "none" /\ alive
    /\ alive' = FALSE
    /\ UNCHANGED <<runtimeVars, handle, health, last_health, stopped,
                   managerVars, controlVars, pc, target, requests, mlock>>

-----------------------------------------------------------------------------
(* Bookkeeping of the runtime                                              *)

\* Mutant: the state of the datapath is copied into the controller's.
RecomputedCopiesHealth(st, want, failed) ==
    IF failed THEN "degraded"
    ELSE IF st.running /\ st.reachable THEN st.health ELSE "degraded"

\* Mutant: an unreachable datapath is judged by the health it last reported.
RecomputedFromCache(st, want, failed) ==
    IF failed THEN "degraded"
    ELSE IF ~want.running
         THEN IF st.running THEN "degraded" ELSE "running"
         ELSE IF st.health = "running" THEN "running" ELSE "degraded"

\* _recompute_controller_health
Recomputed(st, want, failed) ==
    IF failed THEN "degraded"
    ELSE IF ~started /\ state = "stopped" THEN state
    ELSE IF ~want.running
         THEN IF st.running THEN "degraded" ELSE "running"
         ELSE IF st.running /\ st.reachable /\ st.health = "running"
              THEN "running" ELSE "degraded"

\* _observed_from_datapath
Observed(st, isApplied, config) ==
    [applied |-> isApplied, effective |-> config,
     pid |-> IF st.running THEN handle ELSE "none", health |-> st.health]

\* Observed state after a status call that keeps what is known of the lab.
Refreshed(st) == Observed(st, observed.applied, observed.effective)

\* What a request leaves behind for the runtime to know.
Recorded == slipped' = FALSE /\ UNCHANGED <<lpc, stopHasLock, started>>
NotRecorded == slipped' = TRUE /\ UNCHANGED <<lpc, stopHasLock, started>>

At(t, from) == pc[t] = from
Goto(t, to) == pc' = [pc EXCEPT ![t] = to]

\* Mutant: an exception or a result leaves the manager lock taken.
ReleaseForgotten(t, to) == mlock = t /\ UNCHANGED mlock /\ Goto(t, to)

\* Leaving the manager with an exception or a result.
Release(t, to) == mlock = t /\ mlock' = "free" /\ Goto(t, to)

-----------------------------------------------------------------------------
(* POST /topology/apply                                                    *)

\* A request arrives while the server is up.
ApplyRequest(t) ==
    /\ lpc = "up" /\ At(t, "idle") /\ requests < MaxRequests
    /\ \E topology \in Topologies : target' = [target EXCEPT ![t] = topology]
    /\ requests' = requests + 1
    /\ Goto(t, "apply_begin")
    /\ UNCHANGED <<runtimeVars, supVars, managerVars, controlVars, mlock>>

\* The first locked section of apply_topology and destroy_topology.
Begin(t) ==
    /\ pc[t] \in {"apply_begin", "destroy_begin"} /\ RuntimeLockFree
    /\ state' = "reconciling" /\ override' = FALSE
    /\ Goto(t, IF At(t, "apply_begin") THEN "apply_lock" ELSE "destroy_lock")
    /\ UNCHANGED <<desired, observed, supVars, managerVars, controlVars,
                   target, requests, mlock>>

\* TopologyManager.apply: load and validate, then replace what is applied.
ApplyLock(t) ==
    /\ At(t, "apply_lock") /\ mlock = "free"
    /\ mlock' = t
    /\ Goto(t, IF current = NoTopology THEN "apply_build"
               ELSE "apply_replace_stop")
    /\ UNCHANGED <<runtimeVars, supVars, managerVars, controlVars, target,
                   requests>>

\* The document is missing or invalid: nothing was touched.
ApplyInvalid(t) ==
    /\ At(t, "apply_lock") /\ mlock = "free"
    /\ Goto(t, "apply_failed")
    /\ UNCHANGED <<runtimeVars, supVars, managerVars, controlVars, target,
                   requests, mlock>>

\* The topology being taken down: the applied one, or a failed new one.
Undoing(t) == pc[t] \in {"apply_undo_stop", "apply_undo_lab"}
Victim(t) == IF Undoing(t) THEN target[t] ELSE current

\* _destroy_locked stops the datapath first.  A stop that times out is not a
\* PktlabError: it leaves the lab alone and ends the request.
TeardownStop(t, from, next, failed) ==
    /\ At(t, from) /\ RuntimeLockFree
    /\ \/ /\ StopProcess
          /\ Goto(t, next)
          /\ UNCHANGED <<mlock, reported>>
       \/ /\ StopTimesOut
          /\ Release(t, failed)
          /\ reported' = reported \cup {Victim(t)}
    /\ UNCHANGED <<runtimeVars, current, lab, controlVars, target, requests>>

\* destroy_links_and_bridges and destroy_namespaces: all of the topology
\* goes, or an error is raised over what is left of it.
TeardownLab(t, from, next, failed) ==
    /\ At(t, from)
    /\ LET victim == Victim(t) IN
       \/ /\ lab' = [lab EXCEPT ![victim] = "absent"]
          /\ reported' = reported \ {victim}
          /\ current' = IF Undoing(t) THEN current ELSE NoTopology
          /\ IF next = "apply_build" THEN Goto(t, next) /\ UNCHANGED mlock
                                     ELSE Release(t, next)
       \/ /\ lab' = [lab EXCEPT ![victim] = "partial"]
          /\ reported' = reported \cup {victim}
          /\ Release(t, failed)
          /\ UNCHANGED current
    /\ UNCHANGED <<runtimeVars, supVars, controlVars, target, requests>>

ApplyReplaceStop(t) ==
    TeardownStop(t, "apply_replace_stop", "apply_replace_lab", "apply_failed")
ApplyReplaceLab(t) ==
    TeardownLab(t, "apply_replace_lab", "apply_build", "apply_failed")

\* ensure_namespaces, ensure_links, ensure_bridges
ApplyBuild(t) ==
    /\ At(t, "apply_build")
    /\ lab' = [lab EXCEPT ![target[t]] = "partial"]
    /\ \/ Goto(t, "apply_start")
       \/ Goto(t, "apply_undo_stop")
    /\ UNCHANGED <<runtimeVars, supVars, current, reported, controlVars,
                   target, requests, mlock>>

\* Mutant: a datapath that already runs is taken for the one to start.
ApplyStartKeepsProcess(t) ==
    /\ At(t, "apply_start") /\ RuntimeLockFree
    /\ IF handle # "none" /\ alive
       THEN UNCHANGED supVars ELSE StartProcess(target[t])
    /\ Goto(t, "apply_taps")
    /\ UNCHANGED <<runtimeVars, managerVars, controlVars, target, requests,
                   mlock>>

\* _start_topology_datapath: the old supervisor is stopped and replaced.
ApplyStart(t) ==
    /\ At(t, "apply_start") /\ RuntimeLockFree
    /\ \/ StartProcess(target[t]) /\ Goto(t, "apply_taps")
       \/ StartProcessFails /\ Goto(t, "apply_undo_stop")
       \/ StopTimesOut /\ Goto(t, "apply_undo_stop")
    /\ UNCHANGED <<runtimeVars, managerVars, controlVars, target, requests,
                   mlock>>

\* Mutant: a failure after the datapath was started is raised without
\* cleaning up.
ApplyTapsNoUndo(t) ==
    /\ At(t, "apply_taps")
    /\ \/ /\ lab' = [lab EXCEPT ![target[t]] = "built"]
          /\ current' = target[t]
          /\ reported' = reported \ {target[t]}
          /\ Release(t, "apply_record")
       \/ /\ Release(t, "apply_failed")
          /\ UNCHANGED <<lab, current, reported>>
    /\ UNCHANGED <<runtimeVars, supVars, controlVars, target, requests>>

\* reconcile_taps, bring_link_endpoints_up, ensure_routes; then _current.
ApplyTaps(t) ==
    /\ At(t, "apply_taps")
    /\ \/ /\ lab' = [lab EXCEPT ![target[t]] = "built"]
          /\ current' = target[t]
          /\ reported' = reported \ {target[t]}
          /\ Release(t, "apply_record")
       \/ /\ Goto(t, "apply_undo_stop")
          /\ UNCHANGED <<lab, current, reported, mlock>>
    /\ UNCHANGED <<runtimeVars, supVars, controlVars, target, requests>>

\* _cleanup_failed_apply; its errors are merged into the one that is raised.
ApplyUndoStop(t) ==
    TeardownStop(t, "apply_undo_stop", "apply_undo_lab", "apply_failed")
ApplyUndoLab(t) ==
    TeardownLab(t, "apply_undo_lab", "apply_failed", "apply_failed")

\* Mutant: the failed apply is recorded as if the old topology were still
\* applied.
ApplyFailedKeepsState(t) ==
    /\ At(t, "apply_failed") /\ RuntimeLockFree
    /\ \E st \in DatapathStatus :
          /\ Status(st)
          /\ observed' = Refreshed(st)
          /\ state' = Recomputed(st, desired, TRUE)
    /\ override' = TRUE
    /\ Goto(t, "idle")
    /\ UNCHANGED <<desired, managerVars, controlVars, target, requests, mlock>>

\* The except block of apply_topology.
ApplyFailed(t) ==
    /\ At(t, "apply_failed") /\ RuntimeLockFree
    /\ \/ \E st \in DatapathStatus :
            /\ Status(st)
            /\ IF current = NoTopology
               THEN /\ desired' = Unapplied
                    /\ observed' = Observed(st, FALSE, NoTopology)
                    /\ Recorded
               ELSE /\ observed' = Refreshed(st)
                    /\ UNCHANGED <<desired, controlVars>>
            /\ state' = Recomputed(st, desired, TRUE)
            /\ override' = TRUE
       \/ StatusRaises /\ NotRecorded /\ UNCHANGED runtimeVars
    /\ Goto(t, "idle")
    /\ UNCHANGED <<managerVars, target, requests, mlock>>

\* The last locked section of apply_topology.
ApplyRecord(t) ==
    LET want == [topology |-> target[t], running |-> TRUE,
                 controller |-> "running"]
    IN  /\ At(t, "apply_record") /\ RuntimeLockFree
        /\ desired' = want
        /\ override' = FALSE
        /\ \/ \E st \in DatapathStatus :
                /\ Status(st)
                /\ observed' = Observed(st, TRUE, target[t])
                /\ state' = Recomputed(st, want, FALSE)
                /\ Recorded
           \/ StatusRaises /\ NotRecorded /\ UNCHANGED <<observed, state>>
        /\ Goto(t, "idle")
        /\ UNCHANGED <<managerVars, target, requests, mlock>>

-----------------------------------------------------------------------------
(* POST /topology/destroy                                                  *)

DestroyRequest(t) ==
    /\ lpc = "up" /\ At(t, "idle") /\ requests < MaxRequests
    /\ target' = [target EXCEPT ![t] = NoTopology]
    /\ requests' = requests + 1
    /\ Goto(t, "destroy_begin")
    /\ UNCHANGED <<runtimeVars, supVars, managerVars, controlVars, mlock>>

\* TopologyManager.destroy; without an applied topology it returns at once.
DestroyLock(t) ==
    /\ At(t, "destroy_lock") /\ mlock = "free"
    /\ IF current = NoTopology
       THEN Goto(t, "destroy_tail") /\ UNCHANGED mlock
       ELSE Goto(t, "destroy_stop") /\ mlock' = t
    /\ UNCHANGED <<runtimeVars, supVars, managerVars, controlVars, target,
                   requests>>

DestroyStop(t) ==
    TeardownStop(t, "destroy_stop", "destroy_lab", "destroy_failed")
DestroyLab(t) ==
    TeardownLab(t, "destroy_lab", "destroy_tail", "destroy_failed")

\* The except block of destroy_topology.
DestroyFailed(t) ==
    /\ At(t, "destroy_failed") /\ RuntimeLockFree
    /\ \/ \E st \in DatapathStatus :
            /\ Status(st)
            /\ observed' = Refreshed(st)
            /\ state' = Recomputed(st, desired, TRUE)
            /\ override' = TRUE
            /\ UNCHANGED <<desired, controlVars>>
       \/ StatusRaises /\ NotRecorded /\ UNCHANGED runtimeVars
    /\ Goto(t, "idle")
    /\ UNCHANGED <<managerVars, target, requests, mlock>>

\* After the manager has returned, destroy_topology stops the datapath once
\* more, so that the one started at boot goes too.
DestroyTail(t) ==
    /\ At(t, "destroy_tail") /\ RuntimeLockFree
    /\ \/ StopProcess /\ Goto(t, "destroy_record")
       \/ StopTimesOut /\ Goto(t, "idle")
    /\ UNCHANGED <<runtimeVars, managerVars, controlVars, target, requests,
                   mlock>>

\* The last locked section of destroy_topology.
DestroyRecord(t) ==
    /\ At(t, "destroy_record") /\ RuntimeLockFree
    /\ desired' = Unapplied
    /\ override' = FALSE
    /\ \/ \E st \in DatapathStatus :
            /\ Status(st)
            /\ observed' = Observed(st, FALSE, NoTopology)
            /\ state' = Recomputed(st, Unapplied, FALSE)
            /\ Recorded
       \/ StatusRaises /\ NotRecorded /\ UNCHANGED <<observed, state>>
    /\ Goto(t, "idle")
    /\ UNCHANGED <<managerVars, target, requests, mlock>>

-----------------------------------------------------------------------------
(* Requests of one locked section                                          *)

\* GET /health and GET /datapath/status
HealthRequest ==
    /\ lpc = "up" /\ RuntimeLockFree
    /\ \E st \in DatapathStatus :
          /\ Status(st)
          /\ observed' = Refreshed(st)
          /\ state' = Recomputed(st, desired, override)
    /\ UNCHANGED <<desired, override, managerVars, controlVars, pc, target,
                   requests, mlock>>

\* GET /datapath/stats and POST /datapath/stats/reset look at the process
\* but record nothing; so does a request whose status call raises.
StatsRequest ==
    /\ lpc = "up" /\ RuntimeLockFree
    /\ StatusRaises \/ \E st \in DatapathStatus : Status(st)
    /\ UNCHANGED <<runtimeVars, managerVars, controlVars, pc, target,
                   requests, mlock>>

\* POST /datapath/pause and /datapath/resume of a forwarding datapath, which
\* obeys although its answer may be lost; then nothing is recorded, as when
\* the request is refused.
ControlRequest ==
    /\ lpc = "up" /\ RuntimeLockFree
    /\ handle # "none" /\ alive /\ health \in {"running", "paused"}
    /\ health' \in {"running", "paused"}
    /\ \/ \E reachable \in BOOLEAN :
            LET st == [running |-> TRUE, reachable |-> reachable,
                       health |-> IF reachable THEN health' ELSE health]
            IN  /\ last_health' = st.health
                /\ observed' = Refreshed(st)
                /\ state' = Recomputed(st, desired, override)
       \/ last_health' = health /\ UNCHANGED <<observed, state>>
    /\ UNCHANGED <<desired, override, handle, alive, stopped, managerVars,
                   controlVars, pc, target, requests, mlock>>

-----------------------------------------------------------------------------
(* The lifespan of the API server                                          *)

\* ControllerRuntime.start launches the datapath with its default profile.
Start ==
    /\ lpc = "off"
    /\ StartProcess("boot")
    /\ desired' = [topology |-> NoTopology, running |-> TRUE,
                   controller |-> "running"]
    /\ observed' = [applied |-> FALSE, effective |-> NoTopology,
                    pid |-> "boot", health |-> health']
    /\ state' = IF health' = "running" THEN "running" ELSE "degraded"
    /\ override' = FALSE
    /\ started' = TRUE
    /\ lpc' = "up"
    /\ UNCHANGED <<stopHasLock, slipped, managerVars, pc, target, requests, mlock>>

\* A datapath that does not come up ends the server before it serves.
StartFails ==
    /\ lpc = "off"
    /\ StartProcessFails
    /\ desired' = [topology |-> NoTopology, running |-> TRUE,
                   controller |-> "running"]
    /\ state' = "starting"
    /\ override' = FALSE
    /\ lpc' = "down"
    /\ UNCHANGED <<observed, stopHasLock, started, slipped, managerVars, pc,
                   target, requests, mlock>>

\* Mutant: the server runs its shutdown hook with requests in flight.
ShutdownAtOnce ==
    /\ lpc = "up"
    /\ lpc' = "stop"
    /\ UNCHANGED <<runtimeVars, supVars, managerVars, stopHasLock, started,
                   slipped, pc, target, requests, mlock>>

\* The server drains its requests before the lifespan ends.
Shutdown ==
    /\ lpc = "up" /\ \A t \in Mutators : At(t, "idle")
    /\ lpc' = "stop"
    /\ UNCHANGED <<runtimeVars, supVars, managerVars, stopHasLock, started,
                   slipped, pc, target, requests, mlock>>

\* ControllerRuntime.stop takes the runtime lock and keeps it.
StopBegin ==
    /\ lpc = "stop"
    /\ stopHasLock' = TRUE
    /\ override' = FALSE /\ state' = "stopping"
    /\ lpc' = IF current # NoTopology THEN "stop_lock" ELSE "stop_datapath"
    /\ UNCHANGED <<desired, observed, supVars, managerVars, started, slipped, pc,
                   target, requests, mlock>>

\* TopologyManager.destroy, with the runtime lock held.
StopLock ==
    /\ lpc = "stop_lock" /\ mlock = "free"
    /\ mlock' = "lifespan"
    /\ lpc' = IF current = NoTopology THEN "stop_done" ELSE "stop_datapath"
    /\ UNCHANGED <<runtimeVars, supVars, managerVars, stopHasLock, started,
                   slipped, pc, target, requests>>

\* An error of stop ends the server with the runtime still marked started.
StopEscapes ==
    /\ lpc' = "down" /\ stopHasLock' = FALSE /\ mlock' = "free"
    /\ UNCHANGED runtimeVars

StopDatapath ==
    /\ lpc = "stop_datapath"
    /\ \/ /\ StopProcess
          /\ lpc' = IF mlock = "lifespan" THEN "stop_lab" ELSE "stop_done"
          /\ UNCHANGED <<runtimeVars, stopHasLock, mlock, reported>>
       \/ /\ StopTimesOut
          /\ StopEscapes
          /\ reported' = reported \cup ({current} \ {NoTopology})
    /\ UNCHANGED <<current, lab, started, slipped, pc, target, requests>>

StopLab ==
    /\ lpc = "stop_lab"
    /\ \/ /\ lab' = [lab EXCEPT ![current] = "absent"]
          /\ current' = NoTopology
          /\ reported' = reported \ {current}
          /\ lpc' = "stop_done"
          /\ UNCHANGED <<runtimeVars, stopHasLock, mlock>>
       \/ /\ lab' = [lab EXCEPT ![current] = "partial"]
          /\ reported' = reported \cup {current}
          /\ StopEscapes
          /\ UNCHANGED current
    /\ UNCHANGED <<supVars, started, slipped, pc, target, requests>>

StopDone ==
    /\ lpc = "stop_done"
    /\ observed' = [applied |-> FALSE, effective |-> NoTopology,
                     pid |-> "none", health |-> "none"]
    /\ desired' = [topology |-> NoTopology, running |-> FALSE,
                    controller |-> "stopped"]
    /\ state' = "stopped"
    /\ started' = FALSE
    /\ stopHasLock' = FALSE /\ mlock' = "free"
    /\ lpc' = "down"
    /\ UNCHANGED <<override, slipped, supVars, managerVars, pc, target, requests>>

Terminated == lpc = "down" /\ UNCHANGED vars

-----------------------------------------------------------------------------
MutatorStep(t) ==
    \/ Begin(t) \/ ApplyLock(t) \/ ApplyInvalid(t) \/ ApplyReplaceStop(t)
    \/ ApplyReplaceLab(t) \/ ApplyBuild(t) \/ ApplyStart(t) \/ ApplyTaps(t)
    \/ ApplyUndoStop(t) \/ ApplyUndoLab(t) \/ ApplyFailed(t)
    \/ ApplyRecord(t) \/ DestroyLock(t) \/ DestroyStop(t) \/ DestroyLab(t)
    \/ DestroyFailed(t) \/ DestroyTail(t) \/ DestroyRecord(t)

LifespanStep ==
    \/ Start \/ StartFails \/ StopBegin \/ StopLock \/ StopDatapath
    \/ StopLab \/ StopDone

Next ==
    \/ \E t \in Mutators :
          ApplyRequest(t) \/ DestroyRequest(t) \/ MutatorStep(t)
    \/ HealthRequest \/ StatsRequest \/ ControlRequest
    \/ LifespanStep \/ Shutdown \/ DatapathDies \/ Terminated

Spec == Init /\ [][Next]_vars

\* Every request thread and the server's own task are scheduled; clients,
\* the operator's shutdown and the datapath's failures are not assumed.
Fairness ==
    /\ \A t \in Mutators : WF_vars(MutatorStep(t))
    /\ WF_vars(LifespanStep)

FairSpec == Spec /\ Fairness

-----------------------------------------------------------------------------
(* Properties                                                              *)

\* No apply or destroy is in flight.
Quiet == \A t \in Mutators : At(t, "idle")

\* Between requests the runtime and the manager agree on what is applied:
\* the desired topology, topology_applied and the effective configuration
\* are those of manager._current, whichever step of the last request failed.
\* A protocol error of the status call keeps a request from being recorded;
\* the next one that is recorded makes up for it (app.py:199-236, 247-270).
AgreesWithManager ==
    lpc = "up" /\ Quiet /\ ~slipped =>
       /\ desired.topology = current
       /\ observed.applied = (current # NoTopology)
       /\ observed.effective = current

\* Between requests the datapath of the applied topology is the one the
\* supervisor holds, and the controller has not stopped it, unless a teardown
\* of that topology failed (app.py:261, manager.py:76-128).
AppliedDatapathRuns ==
    lpc = "up" /\ Quiet /\ current \notin reported \cup {NoTopology} =>
       ~stopped /\ handle \in {current, "none"}

\* A health answer "running" is true when it is given: a datapath runs and
\* forwards, or none is wanted and none is held.  It may be given in the
\* middle of an apply or destroy, whose "reconciling" it overwrites; when none
\* is in flight the datapath is that of the desired topology
\* (app.py:278-287, 414-456).
ReadyIsTruthful ==
    [][HealthRequest /\ state' = "running" =>
         IF desired.running
         THEN /\ alive /\ health = "running"
              /\ Quiet /\ ~slipped =>
                   handle = IF desired.topology = NoTopology THEN "boot"
                            ELSE desired.topology
         ELSE handle' = "none"]_vars

\* Whenever nobody is inside the manager, the kernel holds the whole of the
\* applied topology and nothing of any other, except where a teardown failed
\* and said so (manager.py:85-110, 159-191).
LabTruth ==
    mlock = "free" =>
       \A x \in Topologies \ reported :
          lab[x] = IF x = current THEN "built" ELSE "absent"

\* ControllerRuntime.stop takes the manager lock under the runtime lock, the
\* other way round than apply and destroy; they never wait for each other
\* (app.py:163-172 against 530 and 542).
NoLockCycle ==
    ~ /\ lpc = "stop_lock"
      /\ \E t \in Mutators : mlock = t

\* Every apply and destroy request is answered, whichever of its steps fails:
\* each path through the manager and the runtime gives back the locks it took
\* (app.py:189-272, manager.py:76-191).
RequestsComplete == \A t \in Mutators : (pc[t] # "idle") ~> (pc[t] = "idle")

\* A shut-down of the server ends (api/app.py:20-26, app.py:160-187).
ServerStops == (lpc = "stop") ~> (lpc = "down")
=============================================================================
