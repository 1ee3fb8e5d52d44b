-------------------------- MODULE ControllerProofs --------------------------
(***************************************************************************)
(* Proofs about Controller, for every set of mutators, topologies and      *)
(* faults and any number of requests.                                      *)
(***************************************************************************)
EXTENDS Controller, TLAPS

\* Points at which a mutator is inside the manager, with its lock.
InManager(t) ==
    pc[t] \in {"apply_replace_stop", "apply_replace_lab", "apply_build",
               "apply_start", "apply_taps", "apply_undo_stop",
               "apply_undo_lab", "destroy_stop", "destroy_lab"}

\* Points at which the applied topology is still to be taken down ...
Replacing(t) ==
    pc[t] \in {"apply_replace_stop", "apply_replace_lab", "destroy_stop",
               "destroy_lab"}

\* ... at which there is none ...
Clear(t) ==
    pc[t] \in {"apply_build", "apply_start", "apply_taps", "apply_undo_stop",
               "apply_undo_lab"}

\* ... and at which the new one is in the making.
Building(t) ==
    pc[t] \in {"apply_start", "apply_taps", "apply_undo_stop",
               "apply_undo_lab"}

Applying(t) == Clear(t) \/ pc[t] \in {"apply_begin", "apply_lock",
                 "apply_replace_stop", "apply_replace_lab", "apply_record"}

\* The holder of the manager lock is who is inside; the lifespan of the
\* server gets to its stop only when all requests are over.
LockInv ==
    /\ \A t \in Mutators : InManager(t) <=> mlock = t
    /\ lpc # "up" => \A t \in Mutators : pc[t] = "idle"
    /\ mlock = "lifespan" => lpc \in {"stop_datapath", "stop_lab", "stop_done"}
    /\ lpc = "stop_lab" => mlock = "lifespan"

\* What the manager knows at each point of a mutator and of the lifespan.
CurrentInv ==
    /\ \A t \in Mutators : /\ Replacing(t) => current # NoTopology
                           /\ Clear(t) => current = NoTopology
                           /\ Applying(t) => target[t] \in Topologies
    /\ mlock = "lifespan" /\ lpc # "stop_done" => current # NoTopology

\* LabTruth at every point: what is being built is the only exception.
LabInv ==
    \A x \in Topologies \ reported :
       \/ lab[x] = IF x = current THEN "built" ELSE "absent"
       \/ \E t \in Mutators : Building(t) /\ x = target[t]

ManagerInv == LockInv /\ CurrentInv /\ LabInv

-----------------------------------------------------------------------------
(* Types                                                                   *)

\* TypeOK by owner of the variables.
SupervisorType ==
    /\ handle \in Profiles \cup {"none"}
    /\ alive \in BOOLEAN /\ stopped \in BOOLEAN
    /\ health \in HealthStates
    /\ last_health \in HealthStates \cup {"none"}

Observations ==
    [applied: BOOLEAN, effective: Topologies \cup {NoTopology},
     pid: Profiles \cup {"none"}, health: HealthStates \cup {"none"}]

RuntimeType ==
    /\ override \in BOOLEAN
    /\ desired \in [topology: Topologies \cup {NoTopology}, running: BOOLEAN,
                    controller: {"running", "stopped"}]
    /\ observed \in Observations
    /\ state \in {"stopped", "starting", "running", "degraded", "reconciling",
                  "stopping"}

ManagerType ==
    /\ current \in Topologies \cup {NoTopology}
    /\ lab \in [Topologies -> {"absent", "partial", "built"}]
    /\ reported \subseteq Topologies

Points ==
    {"idle", "apply_begin", "apply_lock", "apply_replace_stop",
     "apply_replace_lab", "apply_build", "apply_start", "apply_taps",
     "apply_undo_stop", "apply_undo_lab", "apply_failed", "apply_record",
     "destroy_begin", "destroy_lock", "destroy_stop", "destroy_lab",
     "destroy_failed", "destroy_tail", "destroy_record"}

ThreadType ==
    /\ pc \in [Mutators -> Points]
    /\ target \in [Mutators -> Topologies \cup {NoTopology}]
    /\ requests \in 0..MaxRequests
    /\ mlock \in Mutators \cup {"free", "lifespan"}

LifespanType ==
    /\ lpc \in {"off", "up", "stop", "stop_lock", "stop_datapath", "stop_lab",
                "stop_done", "down"}
    /\ stopHasLock \in BOOLEAN /\ started \in BOOLEAN /\ slipped \in BOOLEAN

LEMMA TypeParts ==
    TypeOK <=> /\ SupervisorType /\ RuntimeType /\ ManagerType
               /\ ThreadType /\ LifespanType
  BY DEF TypeOK, SupervisorType, RuntimeType, ManagerType, ThreadType,
      LifespanType, Observations, Points

\* The supervisor's calls keep its own types ...
LEMMA SupervisorCalls ==
    ASSUME SupervisorType
    PROVE  /\ \A st \in DatapathStatus : Status(st) => SupervisorType'
           /\ StatusRaises => SupervisorType'
           /\ StopProcess => SupervisorType'
           /\ StopTimesOut => SupervisorType'
           /\ \A p \in Profiles : StartProcess(p) => SupervisorType'
           /\ StartProcessFails => SupervisorType'
  BY DEF SupervisorType, Status, StatusRaises, StopProcess, StopTimesOut,
      StartProcess, StartProcessFails, HealthStates, DatapathStatus

\* ... and what the runtime makes of a status is an observation and a state
\* of the controller.
LEMMA Bookkeeping ==
    ASSUME SupervisorType, RuntimeType
    PROVE  \A st \in DatapathStatus :
              /\ \A a \in BOOLEAN, c \in Topologies \cup {NoTopology} :
                    Observed(st, a, c) \in Observations
              /\ Refreshed(st) \in Observations
              /\ \A want, failed : Recomputed(st, want, failed) \in
                    {"stopped", "running", "degraded"}
  <1> SUFFICES ASSUME NEW st \in DatapathStatus
               PROVE  /\ \A a \in BOOLEAN, c \in Topologies \cup {NoTopology} :
                            Observed(st, a, c) \in Observations
                      /\ Refreshed(st) \in Observations
                      /\ \A want, failed : Recomputed(st, want, failed) \in
                            {"stopped", "running", "degraded"}
    OBVIOUS
  <1>1. \A a \in BOOLEAN, c \in Topologies \cup {NoTopology} :
           Observed(st, a, c) \in Observations
    BY DEF SupervisorType, Observed, DatapathStatus, Observations
  <1>2. observed.applied \in BOOLEAN
        /\ observed.effective \in Topologies \cup {NoTopology}
    BY DEF RuntimeType, Observations
  <1>3. \A want, failed : Recomputed(st, want, failed) \in
           {"stopped", "running", "degraded"}
    BY DEF Recomputed
  <1> QED
    BY <1>1, <1>2, <1>3 DEF Refreshed

\* The state before the server has started.
LEMMA TypeInit == Init => TypeOK
  <1> SUFFICES ASSUME Init PROVE TypeOK
    OBVIOUS
  <1> USE DEF Init
  <1>1. SupervisorType
    BY DEF SupervisorType, HealthStates
  <1>2. RuntimeType
    BY DEF RuntimeType, Observations
  <1>3. ManagerType
    BY DEF ManagerType
  <1>4. ThreadType
    BY MaxRequestsAssumption DEF ThreadType, Points
  <1>5. LifespanType
    BY DEF LifespanType
  <1> QED
    BY <1>1, <1>2, <1>3, <1>4, <1>5, TypeParts

\* No step leaves the types; a topology is reported or taken down only where
\* there is one, which rests on the manager lock (manager.py:76-191).
LEMMA TypeStep == TypeOK /\ ManagerInv /\ [Next]_vars => TypeOK'
  <1> SUFFICES ASSUME TypeOK, ManagerInv, [Next]_vars PROVE TypeOK'
    OBVIOUS
  <1>a. /\ SupervisorType /\ RuntimeType /\ ManagerType
        /\ ThreadType /\ LifespanType
    BY TypeParts
  <1>b. SUFFICES /\ SupervisorType' /\ RuntimeType' /\ ManagerType'
                 /\ ThreadType' /\ LifespanType'
    BY TypeParts DEF TypeOK, SupervisorType, RuntimeType, ManagerType,
        ThreadType, LifespanType, Observations, Points
  <1> USE <1>a DEF ManagerInv, runtimeVars, supVars, managerVars, controlVars, At,
          Goto
  <1>1. ASSUME NEW t \in Mutators, ApplyRequest(t)
        PROVE  /\ SupervisorType' /\ RuntimeType' /\ ManagerType'
               /\ ThreadType' /\ LifespanType'
    <2>1. ThreadType'
      BY <1>1, MaxRequestsAssumption DEF ApplyRequest, ThreadType, Points
    <2> QED
      BY <2>1, <1>1 DEF ApplyRequest, SupervisorType, RuntimeType,
          ManagerType, LifespanType
  <1>2. ASSUME NEW t \in Mutators, DestroyRequest(t)
        PROVE  /\ SupervisorType' /\ RuntimeType' /\ ManagerType'
               /\ ThreadType' /\ LifespanType'
    <2>1. ThreadType'
      BY <1>2, MaxRequestsAssumption DEF DestroyRequest, ThreadType, Points
    <2> QED
      BY <2>1, <1>2 DEF DestroyRequest, SupervisorType, RuntimeType,
          ManagerType, LifespanType
  <1>3. ASSUME NEW t \in Mutators, Begin(t)
        PROVE  /\ SupervisorType' /\ RuntimeType' /\ ManagerType'
               /\ ThreadType' /\ LifespanType'
    <2>1. RuntimeType'
      BY <1>3 DEF Begin, RuntimeType
    <2>2. ThreadType'
      BY <1>3 DEF Begin, ThreadType, Points
    <2> QED
      BY <2>1, <2>2, <1>3 DEF Begin, SupervisorType, ManagerType, LifespanType
  <1>4. ASSUME NEW t \in Mutators, ApplyLock(t)
        PROVE  /\ SupervisorType' /\ RuntimeType' /\ ManagerType'
               /\ ThreadType' /\ LifespanType'
    <2>1. ThreadType'
      BY <1>4 DEF ApplyLock, ThreadType, Points
    <2> QED
      BY <2>1, <1>4 DEF ApplyLock, SupervisorType, RuntimeType, ManagerType,
          LifespanType
  <1>5. ASSUME NEW t \in Mutators, ApplyInvalid(t)
        PROVE  /\ SupervisorType' /\ RuntimeType' /\ ManagerType'
               /\ ThreadType' /\ LifespanType'
    <2>1. ThreadType'
      BY <1>5 DEF ApplyInvalid, ThreadType, Points
    <2> QED
      BY <2>1, <1>5 DEF ApplyInvalid, SupervisorType, RuntimeType,
          ManagerType, LifespanType
  <1>6. ASSUME NEW t \in Mutators, ApplyReplaceStop(t)
        PROVE  /\ SupervisorType' /\ RuntimeType' /\ ManagerType'
               /\ ThreadType' /\ LifespanType'
    <2>1. SupervisorType'
      BY <1>6, SupervisorCalls DEF TeardownStop, ApplyReplaceStop
    <2>2. ManagerType'
      BY <1>6 DEF TeardownStop, ApplyReplaceStop, ManagerType, Victim,
          Undoing, CurrentInv, Replacing, Clear, Applying
    <2>3. ThreadType'
      BY <1>6 DEF TeardownStop, ApplyReplaceStop, ThreadType, Points, Release
    <2> QED
      BY <2>1, <2>2, <2>3, <1>6 DEF TeardownStop, ApplyReplaceStop,
          RuntimeType, LifespanType
  <1>7. ASSUME NEW t \in Mutators, ApplyUndoStop(t)
        PROVE  /\ SupervisorType' /\ RuntimeType' /\ ManagerType'
               /\ ThreadType' /\ LifespanType'
    <2>1. SupervisorType'
      BY <1>7, SupervisorCalls DEF TeardownStop, ApplyUndoStop
    <2>2. ManagerType'
      BY <1>7 DEF TeardownStop, ApplyUndoStop, ManagerType, Victim, Undoing,
          CurrentInv, Replacing, Clear, Applying
    <2>3. ThreadType'
      BY <1>7 DEF TeardownStop, ApplyUndoStop, ThreadType, Points, Release
    <2> QED
      BY <2>1, <2>2, <2>3, <1>7 DEF TeardownStop, ApplyUndoStop, RuntimeType,
          LifespanType
  <1>8. ASSUME NEW t \in Mutators, DestroyStop(t)
        PROVE  /\ SupervisorType' /\ RuntimeType' /\ ManagerType'
               /\ ThreadType' /\ LifespanType'
    <2>1. SupervisorType'
      BY <1>8, SupervisorCalls DEF TeardownStop, DestroyStop
    <2>2. ManagerType'
      BY <1>8 DEF TeardownStop, DestroyStop, ManagerType, Victim, Undoing,
          CurrentInv, Replacing, Clear, Applying
    <2>3. ThreadType'
      BY <1>8 DEF TeardownStop, DestroyStop, ThreadType, Points, Release
    <2> QED
      BY <2>1, <2>2, <2>3, <1>8 DEF TeardownStop, DestroyStop, RuntimeType,
          LifespanType
  <1>9. ASSUME NEW t \in Mutators, ApplyReplaceLab(t)
        PROVE  /\ SupervisorType' /\ RuntimeType' /\ ManagerType'
               /\ ThreadType' /\ LifespanType'
    <2>1. ManagerType'
      BY <1>9 DEF TeardownLab, ApplyReplaceLab, ManagerType, Victim, Undoing,
          CurrentInv, Replacing, Clear, Applying
    <2>2. ThreadType'
      BY <1>9 DEF TeardownLab, ApplyReplaceLab, ThreadType, Points, Release
    <2> QED
      BY <2>1, <2>2, <1>9 DEF TeardownLab, ApplyReplaceLab, SupervisorType,
          RuntimeType, LifespanType
  <1>10. ASSUME NEW t \in Mutators, ApplyUndoLab(t)
        PROVE  /\ SupervisorType' /\ RuntimeType' /\ ManagerType'
               /\ ThreadType' /\ LifespanType'
    <2>1. ManagerType'
      BY <1>10 DEF TeardownLab, ApplyUndoLab, ManagerType, Victim, Undoing,
          CurrentInv, Replacing, Clear, Applying
    <2>2. ThreadType'
      BY <1>10 DEF TeardownLab, ApplyUndoLab, ThreadType, Points, Release
    <2> QED
      BY <2>1, <2>2, <1>10 DEF TeardownLab, ApplyUndoLab, SupervisorType,
          RuntimeType, LifespanType
  <1>11. ASSUME NEW t \in Mutators, DestroyLab(t)
        PROVE  /\ SupervisorType' /\ RuntimeType' /\ ManagerType'
               /\ ThreadType' /\ LifespanType'
    <2>1. ManagerType'
      BY <1>11 DEF TeardownLab, DestroyLab, ManagerType, Victim, Undoing,
          CurrentInv, Replacing, Clear, Applying
    <2>2. ThreadType'
      BY <1>11 DEF TeardownLab, DestroyLab, ThreadType, Points, Release
    <2> QED
      BY <2>1, <2>2, <1>11 DEF TeardownLab, DestroyLab, SupervisorType,
          RuntimeType, LifespanType
  <1>12. ASSUME NEW t \in Mutators, ApplyBuild(t)
        PROVE  /\ SupervisorType' /\ RuntimeType' /\ ManagerType'
               /\ ThreadType' /\ LifespanType'
    <2>1. ManagerType'
      BY <1>12 DEF ApplyBuild, ManagerType
    <2>2. ThreadType'
      BY <1>12 DEF ApplyBuild, ThreadType, Points
    <2> QED
      BY <2>1, <2>2, <1>12 DEF ApplyBuild, SupervisorType, RuntimeType,
          LifespanType
  <1>13. ASSUME NEW t \in Mutators, ApplyStart(t)
        PROVE  /\ SupervisorType' /\ RuntimeType' /\ ManagerType'
               /\ ThreadType' /\ LifespanType'
    <2>1. SupervisorType'
      BY <1>13, SupervisorCalls DEF ApplyStart, CurrentInv, Applying, Clear,
          Profiles
    <2>2. ThreadType'
      BY <1>13 DEF ApplyStart, ThreadType, Points
    <2> QED
      BY <2>1, <2>2, <1>13 DEF ApplyStart, RuntimeType, ManagerType,
          LifespanType
  <1>14. ASSUME NEW t \in Mutators, ApplyTaps(t)
        PROVE  /\ SupervisorType' /\ RuntimeType' /\ ManagerType'
               /\ ThreadType' /\ LifespanType'
    <2>1. ManagerType'
      BY <1>14 DEF ApplyTaps, ManagerType, ThreadType
    <2>2. ThreadType'
      BY <1>14 DEF ApplyTaps, ThreadType, Points, Release
    <2> QED
      BY <2>1, <2>2, <1>14 DEF ApplyTaps, SupervisorType, RuntimeType,
          LifespanType
  <1>15. ASSUME NEW t \in Mutators, ApplyFailed(t)
        PROVE  /\ SupervisorType' /\ RuntimeType' /\ ManagerType'
               /\ ThreadType' /\ LifespanType'
    <2>1. SupervisorType'
      BY <1>15, SupervisorCalls DEF ApplyFailed
    <2>2. RuntimeType'
      <3>1. observed' \in Observations
        BY <1>15, Bookkeeping DEF ApplyFailed, RuntimeType
      <3>2. state' \in {"stopped", "starting", "running", "degraded",
                       "reconciling", "stopping"}
        BY <1>15, Bookkeeping DEF ApplyFailed, RuntimeType
      <3> QED
        <4>1. desired' \in [topology: Topologies \cup {NoTopology},
                            running: BOOLEAN,
                            controller: {"running", "stopped"}]
          <5>1. desired' = desired \/ desired' = Unapplied
            BY <1>15 DEF ApplyFailed
          <5>2. Unapplied \in [topology: Topologies \cup {NoTopology},
                               running: BOOLEAN,
                               controller: {"running", "stopped"}]
            BY DEF Unapplied
          <5> QED
            BY <5>1, <5>2 DEF RuntimeType
        <4>2. override' \in BOOLEAN
          BY <1>15 DEF ApplyFailed, RuntimeType
        <4> QED
          BY <3>1, <3>2, <4>1, <4>2 DEF RuntimeType
    <2>3. ThreadType'
      BY <1>15 DEF ApplyFailed, ThreadType, Points
    <2>4. LifespanType'
      BY <1>15 DEF ApplyFailed, LifespanType, Recorded, NotRecorded
    <2> QED
      BY <2>1, <2>2, <2>3, <2>4, <1>15 DEF ApplyFailed, ManagerType
  <1>16. ASSUME NEW t \in Mutators, ApplyRecord(t)
        PROVE  /\ SupervisorType' /\ RuntimeType' /\ ManagerType'
               /\ ThreadType' /\ LifespanType'
    <2>1. SupervisorType'
      BY <1>16, SupervisorCalls DEF ApplyRecord
    <2>2. RuntimeType'
      <3>1. \/ UNCHANGED <<observed, state>>
            \/ \E st \in DatapathStatus :
                  /\ observed' = Observed(st, TRUE, target[t])
                  /\ \E want : state' = Recomputed(st, want, FALSE)
        BY <1>16 DEF ApplyRecord
      <3>2. observed' \in Observations
        <4>1. target[t] \in Topologies \cup {NoTopology}
          BY DEF ThreadType
        <4> QED
          BY <3>1, <4>1, Bookkeeping DEF RuntimeType
      <3>3. state' \in {"stopped", "starting", "running", "degraded",
                       "reconciling", "stopping"}
        BY <3>1, Bookkeeping DEF RuntimeType
      <3> QED
        BY <1>16, <3>2, <3>3 DEF ApplyRecord, RuntimeType, ThreadType
    <2>3. ThreadType'
      BY <1>16 DEF ApplyRecord, ThreadType, Points
    <2>4. LifespanType'
      BY <1>16 DEF ApplyRecord, LifespanType, Recorded, NotRecorded
    <2> QED
      BY <2>1, <2>2, <2>3, <2>4, <1>16 DEF ApplyRecord, ManagerType
  <1>17. ASSUME NEW t \in Mutators, DestroyLock(t)
        PROVE  /\ SupervisorType' /\ RuntimeType' /\ ManagerType'
               /\ ThreadType' /\ LifespanType'
    <2>1. ThreadType'
      BY <1>17 DEF DestroyLock, ThreadType, Points
    <2> QED
      BY <2>1, <1>17 DEF DestroyLock, SupervisorType, RuntimeType,
          ManagerType, LifespanType
  <1>18. ASSUME NEW t \in Mutators, DestroyFailed(t)
        PROVE  /\ SupervisorType' /\ RuntimeType' /\ ManagerType'
               /\ ThreadType' /\ LifespanType'
    <2>1. SupervisorType'
      BY <1>18, SupervisorCalls DEF DestroyFailed
    <2>2. RuntimeType'
      BY <1>18, Bookkeeping DEF DestroyFailed, RuntimeType
    <2>3. ThreadType'
      BY <1>18 DEF DestroyFailed, ThreadType, Points
    <2>4. LifespanType'
      BY <1>18 DEF DestroyFailed, LifespanType, Recorded, NotRecorded
    <2> QED
      BY <2>1, <2>2, <2>3, <2>4, <1>18 DEF DestroyFailed, ManagerType
  <1>19. ASSUME NEW t \in Mutators, DestroyTail(t)
        PROVE  /\ SupervisorType' /\ RuntimeType' /\ ManagerType'
               /\ ThreadType' /\ LifespanType'
    <2>1. SupervisorType'
      BY <1>19, SupervisorCalls DEF DestroyTail
    <2>2. ThreadType'
      BY <1>19 DEF DestroyTail, ThreadType, Points
    <2> QED
      BY <2>1, <2>2, <1>19 DEF DestroyTail, RuntimeType, ManagerType,
          LifespanType
  <1>20. ASSUME NEW t \in Mutators, DestroyRecord(t)
        PROVE  /\ SupervisorType' /\ RuntimeType' /\ ManagerType'
               /\ ThreadType' /\ LifespanType'
    <2>1. SupervisorType'
      BY <1>20, SupervisorCalls DEF DestroyRecord
    <2>2. RuntimeType'
      BY <1>20, Bookkeeping DEF DestroyRecord, RuntimeType, Unapplied
    <2>3. ThreadType'
      BY <1>20 DEF DestroyRecord, ThreadType, Points
    <2>4. LifespanType'
      BY <1>20 DEF DestroyRecord, LifespanType, Recorded, NotRecorded
    <2> QED
      BY <2>1, <2>2, <2>3, <2>4, <1>20 DEF DestroyRecord, ManagerType
  <1>21. CASE HealthRequest
    <2>1. SupervisorType'
      BY <1>21, SupervisorCalls DEF HealthRequest
    <2>2. RuntimeType'
      BY <1>21, Bookkeeping DEF HealthRequest, RuntimeType
    <2> QED
      BY <2>1, <2>2, <1>21 DEF HealthRequest, ManagerType, ThreadType,
          LifespanType
  <1>22. CASE StatsRequest
    <2>1. SupervisorType'
      BY <1>22, SupervisorCalls DEF StatsRequest
    <2> QED
      BY <2>1, <1>22 DEF StatsRequest, RuntimeType, ManagerType, ThreadType,
          LifespanType
  <1>23. CASE ControlRequest
    <2>1. SupervisorType'
      BY <1>23 DEF ControlRequest, SupervisorType, HealthStates
    <2>2. RuntimeType'
      <3>1. ASSUME NEW reachable \in BOOLEAN
            PROVE  [running |-> TRUE, reachable |-> reachable,
                    health |-> IF reachable THEN health' ELSE health]
                      \in DatapathStatus
        BY <1>23 DEF ControlRequest, DatapathStatus, HealthStates
      <3>2. observed' \in Observations
        BY <1>23, <3>1, Bookkeeping DEF ControlRequest, RuntimeType
      <3>3. \/ UNCHANGED state
            \/ \E st \in DatapathStatus :
                  state' = Recomputed(st, desired, override)
        BY <1>23, <3>1 DEF ControlRequest
      <3>4. state' \in {"stopped", "starting", "running", "degraded",
                       "reconciling", "stopping"}
        BY <3>3, Bookkeeping DEF RuntimeType
      <3> QED
        BY <1>23, <3>2, <3>4 DEF ControlRequest, RuntimeType
    <2> QED
      BY <2>1, <2>2, <1>23 DEF ControlRequest, ManagerType, ThreadType,
          LifespanType
  <1>24. CASE Start
    <2>1. SupervisorType'
      BY <1>24, SupervisorCalls DEF Start, Profiles
    <2>2. RuntimeType'
      <3>1. health' \in HealthStates
        BY <2>1 DEF SupervisorType
      <3> QED
        BY <1>24, <3>1 DEF Start, RuntimeType, Profiles, Observations
    <2>3. LifespanType'
      BY <1>24 DEF Start, LifespanType
    <2> QED
      BY <2>1, <2>2, <2>3, <1>24 DEF Start, ManagerType, ThreadType
  <1>25. CASE StartFails
    <2>1. SupervisorType'
      BY <1>25, SupervisorCalls DEF StartFails
    <2>2. RuntimeType'
      BY <1>25 DEF StartFails, RuntimeType
    <2>3. LifespanType'
      BY <1>25 DEF StartFails, LifespanType
    <2> QED
      BY <2>1, <2>2, <2>3, <1>25 DEF StartFails, ManagerType, ThreadType
  <1>26. CASE Shutdown
    <2>1. LifespanType'
      BY <1>26 DEF Shutdown, LifespanType
    <2> QED
      BY <2>1, <1>26 DEF Shutdown, SupervisorType, RuntimeType, ManagerType,
          ThreadType
  <1>27. CASE StopBegin
    <2>1. RuntimeType'
      BY <1>27 DEF StopBegin, RuntimeType
    <2>2. LifespanType'
      BY <1>27 DEF StopBegin, LifespanType
    <2> QED
      BY <2>1, <2>2, <1>27 DEF StopBegin, SupervisorType, ManagerType,
          ThreadType
  <1>28. CASE StopLock
    <2>1. ThreadType'
      BY <1>28 DEF StopLock, ThreadType
    <2>2. LifespanType'
      BY <1>28 DEF StopLock, LifespanType
    <2> QED
      BY <2>1, <2>2, <1>28 DEF StopLock, SupervisorType, RuntimeType,
          ManagerType
  <1>29. CASE StopDatapath
    <2>1. SupervisorType'
      BY <1>29, SupervisorCalls DEF StopDatapath
    <2>2. RuntimeType'
      BY <1>29 DEF StopDatapath, RuntimeType, StopEscapes
    <2>3. ManagerType'
      BY <1>29 DEF StopDatapath, ManagerType
    <2>4. ThreadType'
      BY <1>29 DEF StopDatapath, ThreadType, StopEscapes
    <2>5. LifespanType'
      BY <1>29 DEF StopDatapath, LifespanType, StopEscapes
    <2> QED
      BY <2>1, <2>2, <2>3, <2>4, <2>5, <1>29 DEF StopDatapath
  <1>30. CASE StopLab
    <2>1. RuntimeType'
      BY <1>30 DEF StopLab, RuntimeType, StopEscapes
    <2>2. ManagerType'
      BY <1>30 DEF StopLab, ManagerType, LockInv, CurrentInv
    <2>3. ThreadType'
      BY <1>30 DEF StopLab, ThreadType, StopEscapes
    <2>4. LifespanType'
      BY <1>30 DEF StopLab, LifespanType, StopEscapes
    <2> QED
      BY <2>1, <2>2, <2>3, <2>4, <1>30 DEF StopLab, SupervisorType
  <1>31. CASE StopDone
    <2>1. RuntimeType'
      BY <1>31 DEF StopDone, RuntimeType, Observations
    <2>2. ThreadType'
      BY <1>31 DEF StopDone, ThreadType
    <2>3. LifespanType'
      BY <1>31 DEF StopDone, LifespanType
    <2> QED
      BY <2>1, <2>2, <2>3, <1>31 DEF StopDone, SupervisorType, ManagerType
  <1>32. CASE DatapathDies
    <2>1. SupervisorType'
      BY <1>32 DEF DatapathDies, SupervisorType
    <2> QED
      BY <2>1, <1>32 DEF DatapathDies, RuntimeType, ManagerType, ThreadType,
          LifespanType
  <1>33. CASE UNCHANGED vars
    BY <1>33 DEF vars, SupervisorType, RuntimeType, ManagerType,
        ThreadType, LifespanType
  <1> QED
    BY <1>1, <1>2, <1>3, <1>4, <1>5, <1>6, <1>7, <1>8, <1>9, <1>10, <1>11,
        <1>12, <1>13, <1>14, <1>15, <1>16, <1>17, <1>18, <1>19, <1>20, <1>21,
        <1>22, <1>23, <1>24, <1>25, <1>26, <1>27, <1>28, <1>29, <1>30, <1>31,
        <1>32, <1>33 DEF Next, MutatorStep, LifespanStep, Terminated

-----------------------------------------------------------------------------
(* The manager, its lock and the lab                                       *)

\* No step of a request or of the server disturbs them.
LEMMA ManagerStep == TypeOK /\ ManagerInv /\ [Next]_vars => ManagerInv'
  <1> SUFFICES ASSUME TypeOK, ManagerInv, [Next]_vars PROVE ManagerInv'
    OBVIOUS
  <1>a. ThreadType /\ ManagerType
    BY TypeParts
  <1> USE <1>a, NamesAssumption, NoTopologyAssumption
      DEF ManagerInv, ThreadType, ManagerType, Points, runtimeVars, managerVars,
          supVars, controlVars, At, Goto
  <1>1. ASSUME NEW t \in Mutators, ApplyRequest(t) PROVE ManagerInv'
    <2>1. LockInv'
      BY <1>1 DEF ApplyRequest, LockInv, InManager
    <2>2. CurrentInv'
      BY <1>1 DEF ApplyRequest, LockInv, InManager, CurrentInv, Replacing,
          Clear, Applying
    <2>3. LabInv'
      BY <1>1 DEF ApplyRequest, LockInv, InManager, CurrentInv, LabInv,
          Replacing, Clear, Building, Applying
    <2> QED
      BY <2>1, <2>2, <2>3
  <1>2. ASSUME NEW t \in Mutators, DestroyRequest(t) PROVE ManagerInv'
    <2>1. LockInv'
      BY <1>2 DEF DestroyRequest, LockInv, InManager
    <2>2. CurrentInv'
      BY <1>2 DEF DestroyRequest, LockInv, InManager, CurrentInv, Replacing,
          Clear, Applying
    <2>3. LabInv'
      BY <1>2 DEF DestroyRequest, LockInv, InManager, CurrentInv, LabInv,
          Replacing, Clear, Building, Applying
    <2> QED
      BY <2>1, <2>2, <2>3
  <1>3. ASSUME NEW t \in Mutators, Begin(t) PROVE ManagerInv'
    <2>1. LockInv'
      BY <1>3 DEF Begin, LockInv, InManager
    <2>2. CurrentInv'
      BY <1>3 DEF Begin, LockInv, InManager, CurrentInv, Replacing, Clear,
          Applying
    <2>3. LabInv'
      BY <1>3 DEF Begin, LockInv, InManager, CurrentInv, LabInv, Replacing,
          Clear, Building, Applying
    <2> QED
      BY <2>1, <2>2, <2>3
  <1>4. ASSUME NEW t \in Mutators, ApplyLock(t) PROVE ManagerInv'
    <2>1. LockInv'
      BY <1>4 DEF ApplyLock, LockInv, InManager
    <2>2. CurrentInv'
      BY <1>4 DEF ApplyLock, LockInv, InManager, CurrentInv, Replacing, Clear,
          Applying
    <2>3. LabInv'
      BY <1>4 DEF ApplyLock, LockInv, InManager, CurrentInv, LabInv,
          Replacing, Clear, Building, Applying
    <2> QED
      BY <2>1, <2>2, <2>3
  <1>5. ASSUME NEW t \in Mutators, ApplyInvalid(t) PROVE ManagerInv'
    <2>1. LockInv'
      BY <1>5 DEF ApplyInvalid, LockInv, InManager
    <2>2. CurrentInv'
      BY <1>5 DEF ApplyInvalid, LockInv, InManager, CurrentInv, Replacing,
          Clear, Applying
    <2>3. LabInv'
      BY <1>5 DEF ApplyInvalid, LockInv, InManager, CurrentInv, LabInv,
          Replacing, Clear, Building, Applying
    <2> QED
      BY <2>1, <2>2, <2>3
  <1>6. ASSUME NEW t \in Mutators, ApplyReplaceStop(t) PROVE ManagerInv'
    <2>1. LockInv'
      BY <1>6 DEF ApplyReplaceStop, TeardownStop, Release, Victim, Undoing,
          LockInv, InManager
    <2>2. CurrentInv'
      BY <1>6 DEF ApplyReplaceStop, TeardownStop, Release, Victim, Undoing,
          LockInv, InManager, CurrentInv, Replacing, Clear, Applying
    <2>3. LabInv'
      BY <1>6 DEF ApplyReplaceStop, TeardownStop, Release, Victim, Undoing,
          LockInv, InManager, CurrentInv, LabInv, Replacing, Clear, Building,
          Applying
    <2> QED
      BY <2>1, <2>2, <2>3
  <1>7. ASSUME NEW t \in Mutators, ApplyUndoStop(t) PROVE ManagerInv'
    <2>1. LockInv'
      BY <1>7 DEF ApplyUndoStop, TeardownStop, Release, Victim, Undoing,
          LockInv, InManager
    <2>2. CurrentInv'
      BY <1>7 DEF ApplyUndoStop, TeardownStop, Release, Victim, Undoing,
          LockInv, InManager, CurrentInv, Replacing, Clear, Applying
    <2>3. LabInv'
      BY <1>7 DEF ApplyUndoStop, TeardownStop, Release, Victim, Undoing,
          LockInv, InManager, CurrentInv, LabInv, Replacing, Clear, Building,
          Applying
    <2> QED
      BY <2>1, <2>2, <2>3
  <1>8. ASSUME NEW t \in Mutators, DestroyStop(t) PROVE ManagerInv'
    <2>1. LockInv'
      BY <1>8 DEF DestroyStop, TeardownStop, Release, Victim, Undoing,
          LockInv, InManager
    <2>2. CurrentInv'
      BY <1>8 DEF DestroyStop, TeardownStop, Release, Victim, Undoing,
          LockInv, InManager, CurrentInv, Replacing, Clear, Applying
    <2>3. LabInv'
      BY <1>8 DEF DestroyStop, TeardownStop, Release, Victim, Undoing,
          LockInv, InManager, CurrentInv, LabInv, Replacing, Clear, Building,
          Applying
    <2> QED
      BY <2>1, <2>2, <2>3
  <1>9. ASSUME NEW t \in Mutators, ApplyReplaceLab(t) PROVE ManagerInv'
    <2>1. LockInv'
      BY <1>9 DEF ApplyReplaceLab, TeardownLab, Release, Victim, Undoing,
          LockInv, InManager
    <2>2. CurrentInv'
      BY <1>9 DEF ApplyReplaceLab, TeardownLab, Release, Victim, Undoing,
          LockInv, InManager, CurrentInv, Replacing, Clear, Applying
    <2>3. LabInv'
      BY <1>9 DEF ApplyReplaceLab, TeardownLab, Release, Victim, Undoing,
          LockInv, InManager, CurrentInv, LabInv, Replacing, Clear, Building,
          Applying
    <2> QED
      BY <2>1, <2>2, <2>3
  <1>10. ASSUME NEW t \in Mutators, ApplyUndoLab(t) PROVE ManagerInv'
    <2>1. LockInv'
      BY <1>10 DEF ApplyUndoLab, TeardownLab, Release, Victim, Undoing,
          LockInv, InManager
    <2>2. CurrentInv'
      BY <1>10 DEF ApplyUndoLab, TeardownLab, Release, Victim, Undoing,
          LockInv, InManager, CurrentInv, Replacing, Clear, Applying
    <2>3. LabInv'
      BY <1>10 DEF ApplyUndoLab, TeardownLab, Release, Victim, Undoing,
          LockInv, InManager, CurrentInv, LabInv, Replacing, Clear, Building,
          Applying
    <2> QED
      BY <2>1, <2>2, <2>3
  <1>11. ASSUME NEW t \in Mutators, DestroyLab(t) PROVE ManagerInv'
    <2>1. LockInv'
      BY <1>11 DEF DestroyLab, TeardownLab, Release, Victim, Undoing, LockInv,
          InManager
    <2>2. CurrentInv'
      BY <1>11 DEF DestroyLab, TeardownLab, Release, Victim, Undoing, LockInv,
          InManager, CurrentInv, Replacing, Clear, Applying
    <2>3. LabInv'
      BY <1>11 DEF DestroyLab, TeardownLab, Release, Victim, Undoing, LockInv,
          InManager, CurrentInv, LabInv, Replacing, Clear, Building, Applying
    <2> QED
      BY <2>1, <2>2, <2>3
  <1>12. ASSUME NEW t \in Mutators, ApplyBuild(t) PROVE ManagerInv'
    <2>1. LockInv'
      BY <1>12 DEF ApplyBuild, LockInv, InManager
    <2>2. CurrentInv'
      BY <1>12 DEF ApplyBuild, LockInv, InManager, CurrentInv, Replacing,
          Clear, Applying
    <2>3. LabInv'
      BY <1>12 DEF ApplyBuild, LockInv, InManager, CurrentInv, LabInv,
          Replacing, Clear, Building, Applying
    <2> QED
      BY <2>1, <2>2, <2>3
  <1>13. ASSUME NEW t \in Mutators, ApplyStart(t) PROVE ManagerInv'
    <2>1. LockInv'
      BY <1>13 DEF ApplyStart, LockInv, InManager
    <2>2. CurrentInv'
      BY <1>13 DEF ApplyStart, LockInv, InManager, CurrentInv, Replacing,
          Clear, Applying
    <2>3. LabInv'
      BY <1>13 DEF ApplyStart, LockInv, InManager, CurrentInv, LabInv,
          Replacing, Clear, Building, Applying
    <2> QED
      BY <2>1, <2>2, <2>3
  <1>14. ASSUME NEW t \in Mutators, ApplyTaps(t) PROVE ManagerInv'
    <2>1. LockInv'
      BY <1>14 DEF ApplyTaps, Release, LockInv, InManager
    <2>2. CurrentInv'
      BY <1>14 DEF ApplyTaps, Release, LockInv, InManager, CurrentInv,
          Replacing, Clear, Applying
    <2>3. LabInv'
      BY <1>14 DEF ApplyTaps, Release, LockInv, InManager, CurrentInv, LabInv,
          Replacing, Clear, Building, Applying
    <2> QED
      BY <2>1, <2>2, <2>3
  <1>15. ASSUME NEW t \in Mutators, ApplyFailed(t) PROVE ManagerInv'
    <2>1. LockInv'
      BY <1>15 DEF ApplyFailed, Recorded, NotRecorded, LockInv, InManager
    <2>2. CurrentInv'
      BY <1>15 DEF ApplyFailed, Recorded, NotRecorded, LockInv, InManager,
          CurrentInv, Replacing, Clear, Applying
    <2>3. LabInv'
      BY <1>15 DEF ApplyFailed, Recorded, NotRecorded, LockInv, InManager,
          CurrentInv, LabInv, Replacing, Clear, Building, Applying
    <2> QED
      BY <2>1, <2>2, <2>3
  <1>16. ASSUME NEW t \in Mutators, ApplyRecord(t) PROVE ManagerInv'
    <2>1. LockInv'
      BY <1>16 DEF ApplyRecord, Recorded, NotRecorded, LockInv, InManager
    <2>2. CurrentInv'
      BY <1>16 DEF ApplyRecord, Recorded, NotRecorded, LockInv, InManager,
          CurrentInv, Replacing, Clear, Applying
    <2>3. LabInv'
      BY <1>16 DEF ApplyRecord, Recorded, NotRecorded, LockInv, InManager,
          CurrentInv, LabInv, Replacing, Clear, Building, Applying
    <2> QED
      BY <2>1, <2>2, <2>3
  <1>17. ASSUME NEW t \in Mutators, DestroyLock(t) PROVE ManagerInv'
    <2>1. LockInv'
      BY <1>17 DEF DestroyLock, LockInv, InManager
    <2>2. CurrentInv'
      BY <1>17 DEF DestroyLock, LockInv, InManager, CurrentInv, Replacing,
          Clear, Applying
    <2>3. LabInv'
      BY <1>17 DEF DestroyLock, LockInv, InManager, CurrentInv, LabInv,
          Replacing, Clear, Building, Applying
    <2> QED
      BY <2>1, <2>2, <2>3
  <1>18. ASSUME NEW t \in Mutators, DestroyFailed(t) PROVE ManagerInv'
    <2>1. LockInv'
      BY <1>18 DEF DestroyFailed, Recorded, NotRecorded, LockInv, InManager
    <2>2. CurrentInv'
      BY <1>18 DEF DestroyFailed, Recorded, NotRecorded, LockInv, InManager,
          CurrentInv, Replacing, Clear, Applying
    <2>3. LabInv'
      BY <1>18 DEF DestroyFailed, Recorded, NotRecorded, LockInv, InManager,
          CurrentInv, LabInv, Replacing, Clear, Building, Applying
    <2> QED
      BY <2>1, <2>2, <2>3
  <1>19. ASSUME NEW t \in Mutators, DestroyTail(t) PROVE ManagerInv'
    <2>1. LockInv'
      BY <1>19 DEF DestroyTail, LockInv, InManager
    <2>2. CurrentInv'
      BY <1>19 DEF DestroyTail, LockInv, InManager, CurrentInv, Replacing,
          Clear, Applying
    <2>3. LabInv'
      BY <1>19 DEF DestroyTail, LockInv, InManager, CurrentInv, LabInv,
          Replacing, Clear, Building, Applying
    <2> QED
      BY <2>1, <2>2, <2>3
  <1>20. ASSUME NEW t \in Mutators, DestroyRecord(t) PROVE ManagerInv'
    <2>1. LockInv'
      BY <1>20 DEF DestroyRecord, Recorded, NotRecorded, LockInv, InManager
    <2>2. CurrentInv'
      BY <1>20 DEF DestroyRecord, Recorded, NotRecorded, LockInv, InManager,
          CurrentInv, Replacing, Clear, Applying
    <2>3. LabInv'
      BY <1>20 DEF DestroyRecord, Recorded, NotRecorded, LockInv, InManager,
          CurrentInv, LabInv, Replacing, Clear, Building, Applying
    <2> QED
      BY <2>1, <2>2, <2>3
  <1>21. CASE HealthRequest
    <2>1. LockInv'
      BY <1>21 DEF HealthRequest, LockInv, InManager
    <2>2. CurrentInv'
      BY <1>21 DEF HealthRequest, LockInv, InManager, CurrentInv, Replacing,
          Clear, Applying
    <2>3. LabInv'
      BY <1>21 DEF HealthRequest, LockInv, InManager, CurrentInv, LabInv,
          Replacing, Clear, Building, Applying
    <2> QED
      BY <2>1, <2>2, <2>3
  <1>22. CASE StatsRequest
    <2>1. LockInv'
      BY <1>22 DEF StatsRequest, LockInv, InManager
    <2>2. CurrentInv'
      BY <1>22 DEF StatsRequest, LockInv, InManager, CurrentInv, Replacing,
          Clear, Applying
    <2>3. LabInv'
      BY <1>22 DEF StatsRequest, LockInv, InManager, CurrentInv, LabInv,
          Replacing, Clear, Building, Applying
    <2> QED
      BY <2>1, <2>2, <2>3
  <1>23. CASE ControlRequest
    <2>1. LockInv'
      BY <1>23 DEF ControlRequest, LockInv, InManager
    <2>2. CurrentInv'
      BY <1>23 DEF ControlRequest, LockInv, InManager, CurrentInv, Replacing,
          Clear, Applying
    <2>3. LabInv'
      BY <1>23 DEF ControlRequest, LockInv, InManager, CurrentInv, LabInv,
          Replacing, Clear, Building, Applying
    <2> QED
      BY <2>1, <2>2, <2>3
  <1>24. CASE Start
    <2>1. LockInv'
      BY <1>24 DEF Start, LockInv, InManager
    <2>2. CurrentInv'
      BY <1>24 DEF Start, LockInv, InManager, CurrentInv, Replacing, Clear,
          Applying
    <2>3. LabInv'
      BY <1>24 DEF Start, LockInv, InManager, CurrentInv, LabInv, Replacing,
          Clear, Building, Applying
    <2> QED
      BY <2>1, <2>2, <2>3
  <1>25. CASE StartFails
    <2>1. LockInv'
      BY <1>25 DEF StartFails, LockInv, InManager
    <2>2. CurrentInv'
      BY <1>25 DEF StartFails, LockInv, InManager, CurrentInv, Replacing,
          Clear, Applying
    <2>3. LabInv'
      BY <1>25 DEF StartFails, LockInv, InManager, CurrentInv, LabInv,
          Replacing, Clear, Building, Applying
    <2> QED
      BY <2>1, <2>2, <2>3
  <1>26. CASE Shutdown
    <2>1. LockInv'
      BY <1>26 DEF Shutdown, LockInv, InManager
    <2>2. CurrentInv'
      BY <1>26 DEF Shutdown, LockInv, InManager, CurrentInv, Replacing, Clear,
          Applying
    <2>3. LabInv'
      BY <1>26 DEF Shutdown, LockInv, InManager, CurrentInv, LabInv,
          Replacing, Clear, Building, Applying
    <2> QED
      BY <2>1, <2>2, <2>3
  <1>27. CASE StopBegin
    <2>1. LockInv'
      BY <1>27 DEF StopBegin, LockInv, InManager
    <2>2. CurrentInv'
      BY <1>27 DEF StopBegin, LockInv, InManager, CurrentInv, Replacing,
          Clear, Applying
    <2>3. LabInv'
      BY <1>27 DEF StopBegin, LockInv, InManager, CurrentInv, LabInv,
          Replacing, Clear, Building, Applying
    <2> QED
      BY <2>1, <2>2, <2>3
  <1>28. CASE StopLock
    <2>1. LockInv'
      BY <1>28 DEF StopLock, LockInv, InManager
    <2>2. CurrentInv'
      BY <1>28 DEF StopLock, LockInv, InManager, CurrentInv, Replacing, Clear,
          Applying
    <2>3. LabInv'
      BY <1>28 DEF StopLock, LockInv, InManager, CurrentInv, LabInv,
          Replacing, Clear, Building, Applying
    <2> QED
      BY <2>1, <2>2, <2>3
  <1>29. CASE StopDatapath
    <2>1. LockInv'
      BY <1>29 DEF StopDatapath, StopEscapes, LockInv, InManager
    <2>2. CurrentInv'
      BY <1>29 DEF StopDatapath, StopEscapes, LockInv, InManager, CurrentInv,
          Replacing, Clear, Applying
    <2>3. LabInv'
      BY <1>29 DEF StopDatapath, StopEscapes, LockInv, InManager, CurrentInv,
          LabInv, Replacing, Clear, Building, Applying
    <2> QED
      BY <2>1, <2>2, <2>3
  <1>30. CASE StopLab
    <2>1. LockInv'
      BY <1>30 DEF StopLab, StopEscapes, LockInv, InManager
    <2>2. CurrentInv'
      BY <1>30 DEF StopLab, StopEscapes, LockInv, InManager, CurrentInv,
          Replacing, Clear, Applying
    <2>3. LabInv'
      BY <1>30 DEF StopLab, StopEscapes, LockInv, InManager, CurrentInv,
          LabInv, Replacing, Clear, Building, Applying
    <2> QED
      BY <2>1, <2>2, <2>3
  <1>31. CASE StopDone
    <2>1. LockInv'
      BY <1>31 DEF StopDone, LockInv, InManager
    <2>2. CurrentInv'
      BY <1>31 DEF StopDone, LockInv, InManager, CurrentInv, Replacing, Clear,
          Applying
    <2>3. LabInv'
      BY <1>31 DEF StopDone, LockInv, InManager, CurrentInv, LabInv,
          Replacing, Clear, Building, Applying
    <2> QED
      BY <2>1, <2>2, <2>3
  <1>32. CASE DatapathDies
    <2>1. LockInv'
      BY <1>32 DEF DatapathDies, LockInv, InManager
    <2>2. CurrentInv'
      BY <1>32 DEF DatapathDies, LockInv, InManager, CurrentInv, Replacing,
          Clear, Applying
    <2>3. LabInv'
      BY <1>32 DEF DatapathDies, LockInv, InManager, CurrentInv, LabInv,
          Replacing, Clear, Building, Applying
    <2> QED
      BY <2>1, <2>2, <2>3
  <1>33. CASE UNCHANGED vars
    BY <1>33 DEF vars, LockInv, CurrentInv, LabInv, InManager, Replacing,
        Clear, Building, Applying
  <1> QED
    BY <1>1, <1>2, <1>3, <1>4, <1>5, <1>6, <1>7, <1>8, <1>9, <1>10, <1>11,
        <1>12, <1>13, <1>14, <1>15, <1>16, <1>17, <1>18, <1>19, <1>20, <1>21,
        <1>22, <1>23, <1>24, <1>25, <1>26, <1>27, <1>28, <1>29, <1>30, <1>31,
        <1>32, <1>33 DEF Next, MutatorStep, LifespanStep, Terminated

\* The state before the server has started.
LEMMA ManagerInit == Init => ManagerInv
  <1> SUFFICES ASSUME Init PROVE ManagerInv
    OBVIOUS
  <1>1. \A t \in Mutators : pc[t] = "idle"
    BY DEF Init
  <1>2. LockInv
    BY <1>1, NamesAssumption DEF Init, LockInv, InManager
  <1>3. CurrentInv
    BY <1>1 DEF Init, CurrentInv, Replacing, Clear, Applying
  <1>4. LabInv
    BY NoTopologyAssumption DEF Init, LabInv
  <1> QED
    BY <1>2, <1>3, <1>4 DEF ManagerInv

\* Type correctness, for every number of mutators, topologies and requests
\* (app.py, manager.py and supervisor.py; TypeOK).
THEOREM TypeCorrect == Spec => [](TypeOK /\ ManagerInv)
  <1>1. Init => TypeOK /\ ManagerInv
    BY TypeInit, ManagerInit
  <1>2. TypeOK /\ ManagerInv /\ [Next]_vars => (TypeOK /\ ManagerInv)'
    BY TypeStep, ManagerStep
  <1> QED
    BY <1>1, <1>2, PTL DEF Spec

\* Whoever applies and destroys concurrently, and whatever fails: outside the
\* manager the kernel holds the applied topology and nothing else, except what
\* an error was reported for (manager.py:85-110, 159-191).
THEOREM LabSafety == Spec => []LabTruth
  <1>1. TypeOK /\ ManagerInv => LabTruth
    BY NamesAssumption, TypeParts DEF ManagerInv, LockInv, LabInv, LabTruth,
        InManager, Building
  <1> QED
    BY <1>1, TypeCorrect, PTL

\* The stop of the runtime and a request never wait for each other
\* (app.py:163-172 against 530 and 542).
THEOREM LockSafety == Spec => []NoLockCycle
  <1>1. ManagerInv => NoLockCycle
    BY DEF ManagerInv, LockInv, NoLockCycle, InManager
  <1> QED
    BY <1>1, TypeCorrect, PTL

-----------------------------------------------------------------------------
(* One request at a time                                                   *)

\* Apply and destroy requests are served one after the other.  With more of
\* them at once neither of the properties below holds: see the runs
\* controller_record_race and controller_tail_race.
OneMutator == \E m : Mutators = {m}

\* The runtime's bookkeeping is that of the manager.
Agreement ==
    /\ desired.topology = current
    /\ observed.applied = (current # NoTopology)
    /\ observed.effective = current

\* How far bookkeeping and manager agree at each point of a request.
RecordInv ==
    /\ lpc = "off" => current = NoTopology
    /\ lpc = "up" => \A t \in Mutators :
          /\ (~slipped /\ (\/ Replacing(t)
                           \/ pc[t] \in {"idle", "apply_begin", "apply_lock",
                                "destroy_begin", "destroy_lock",
                                "destroy_failed"}
                           \/ pc[t] = "apply_failed" /\ current # NoTopology
                           \/ pc[t] = "destroy_tail" /\ handle # "none"))
                => Agreement
          /\ pc[t] = "apply_record" => current = target[t]
          /\ pc[t] = "destroy_failed" => current # NoTopology
          /\ pc[t] \in {"destroy_tail", "destroy_record"} =>
                current = NoTopology

\* The process the supervisor holds at each point of a request.
ProcessInv ==
    lpc = "up" =>
       /\ current # NoTopology => handle \in {current, "none"}
       /\ \A t \in Mutators :
             /\ pc[t] \in {"apply_replace_lab", "destroy_lab"} => handle = "none"
             /\ pc[t] \notin {"apply_replace_lab", "destroy_lab"}
                  /\ current \notin reported \cup {NoTopology} => ~stopped
             /\ pc[t] = "apply_taps" =>
                   ~stopped /\ handle \in {target[t], "none"}
             /\ (/\ pc[t] \in {"idle", "apply_begin", "apply_lock",
                              "destroy_begin", "destroy_lock", "destroy_tail"}
                 /\ ~slipped /\ desired.running
                 /\ desired.topology = NoTopology) =>
                   handle \in {"boot", "none"}

SerialInv == RecordInv /\ ProcessInv


\* A status call may drop the handle of a dead process, and no more.
LEMMA StatusKeeps ==
    /\ \A st \in DatapathStatus :
          Status(st) => handle' \in {handle, "none"} /\ stopped' = stopped
    /\ StatusRaises => handle' = handle /\ stopped' = stopped
  BY DEF Status, StatusRaises

\* What an observation says of the topology.
LEMMA ObservedFields ==
    ASSUME NEW st
    PROVE  /\ \A c : /\ Observed(st, TRUE, c).applied = TRUE
                     /\ Observed(st, FALSE, c).applied = FALSE
                     /\ Observed(st, TRUE, c).effective = c
                     /\ Observed(st, FALSE, c).effective = c
           /\ Refreshed(st).applied = observed.applied
           /\ Refreshed(st).effective = observed.effective
  BY DEF Observed, Refreshed

\* No step disturbs them while requests are served one at a time.
LEMMA SerialStep ==
    ASSUME OneMutator
    PROVE  TypeOK /\ ManagerInv /\ SerialInv /\ [Next]_vars => SerialInv'
  <1> SUFFICES ASSUME TypeOK, ManagerInv, SerialInv, [Next]_vars
               PROVE  SerialInv'
    OBVIOUS
  <1>a. PICK m : Mutators = {m}
    BY DEF OneMutator
  <1>b. /\ ThreadType /\ ManagerType /\ SupervisorType
        /\ desired.topology \in Topologies \cup {NoTopology}
    BY TypeParts DEF RuntimeType
  <1> USE <1>a, <1>b, NamesAssumption, NoTopologyAssumption
      DEF SerialInv, ThreadType, ManagerType, Points, runtimeVars,
          managerVars, supVars, controlVars, At, Goto
  <1>1. CASE ApplyRequest(m)
    <2>1. RecordInv'
      BY <1>1 DEF ApplyRequest, RecordInv, ProcessInv, CurrentInv, Replacing,
          Clear, Applying, Agreement, LockInv, ManagerInv
    <2>2. ProcessInv'
      BY <1>1 DEF ApplyRequest, RecordInv, ProcessInv, CurrentInv, Replacing,
          Clear, Applying, Agreement, LockInv, ManagerInv
    <2> QED
      BY <2>1, <2>2
  <1>2. CASE DestroyRequest(m)
    <2>1. RecordInv'
      BY <1>2 DEF DestroyRequest, RecordInv, ProcessInv, CurrentInv,
          Replacing, Clear, Applying, Agreement, LockInv, ManagerInv
    <2>2. ProcessInv'
      BY <1>2 DEF DestroyRequest, RecordInv, ProcessInv, CurrentInv,
          Replacing, Clear, Applying, Agreement, LockInv, ManagerInv
    <2> QED
      BY <2>1, <2>2
  <1>3. CASE Begin(m)
    <2>1. RecordInv'
      BY <1>3 DEF Begin, RecordInv, ProcessInv, CurrentInv, Replacing, Clear,
          Applying, Agreement, LockInv, ManagerInv
    <2>2. ProcessInv'
      BY <1>3 DEF Begin, RecordInv, ProcessInv, CurrentInv, Replacing, Clear,
          Applying, Agreement, LockInv, ManagerInv
    <2> QED
      BY <2>1, <2>2
  <1>4. CASE ApplyLock(m)
    <2>1. RecordInv'
      BY <1>4 DEF ApplyLock, RecordInv, ProcessInv, CurrentInv, Replacing,
          Clear, Applying, Agreement, LockInv, ManagerInv
    <2>2. ProcessInv'
      BY <1>4 DEF ApplyLock, RecordInv, ProcessInv, CurrentInv, Replacing,
          Clear, Applying, Agreement, LockInv, ManagerInv
    <2> QED
      BY <2>1, <2>2
  <1>5. CASE ApplyInvalid(m)
    <2>1. RecordInv'
      BY <1>5 DEF ApplyInvalid, RecordInv, ProcessInv, CurrentInv, Replacing,
          Clear, Applying, Agreement, LockInv, ManagerInv
    <2>2. ProcessInv'
      BY <1>5 DEF ApplyInvalid, RecordInv, ProcessInv, CurrentInv, Replacing,
          Clear, Applying, Agreement, LockInv, ManagerInv
    <2> QED
      BY <2>1, <2>2
  <1>6. CASE ApplyReplaceStop(m)
    <2>1. RecordInv'
      BY <1>6 DEF ApplyReplaceStop, TeardownStop, Release, Victim, Undoing,
          StopProcess, StopTimesOut, RecordInv, ProcessInv, CurrentInv,
          Replacing, Clear, Applying, Agreement, LockInv, ManagerInv
    <2>2. ProcessInv'
      BY <1>6 DEF ApplyReplaceStop, TeardownStop, Release, Victim, Undoing,
          StopProcess, StopTimesOut, RecordInv, ProcessInv, CurrentInv,
          Replacing, Clear, Applying, Agreement, LockInv, ManagerInv
    <2> QED
      BY <2>1, <2>2
  <1>7. CASE ApplyUndoStop(m)
    <2>1. RecordInv'
      BY <1>7 DEF ApplyUndoStop, TeardownStop, Release, Victim, Undoing,
          StopProcess, StopTimesOut, RecordInv, ProcessInv, CurrentInv,
          Replacing, Clear, Applying, Agreement, LockInv, ManagerInv
    <2>2. ProcessInv'
      BY <1>7 DEF ApplyUndoStop, TeardownStop, Release, Victim, Undoing,
          StopProcess, StopTimesOut, RecordInv, ProcessInv, CurrentInv,
          Replacing, Clear, Applying, Agreement, LockInv, ManagerInv
    <2> QED
      BY <2>1, <2>2
  <1>8. CASE DestroyStop(m)
    <2>1. RecordInv'
      BY <1>8 DEF DestroyStop, TeardownStop, Release, Victim, Undoing,
          StopProcess, StopTimesOut, RecordInv, ProcessInv, CurrentInv,
          Replacing, Clear, Applying, Agreement, LockInv, ManagerInv
    <2>2. ProcessInv'
      BY <1>8 DEF DestroyStop, TeardownStop, Release, Victim, Undoing,
          StopProcess, StopTimesOut, RecordInv, ProcessInv, CurrentInv,
          Replacing, Clear, Applying, Agreement, LockInv, ManagerInv
    <2> QED
      BY <2>1, <2>2
  <1>9. CASE ApplyReplaceLab(m)
    <2>1. RecordInv'
      BY <1>9 DEF ApplyReplaceLab, TeardownLab, Release, Victim, Undoing,
          RecordInv, ProcessInv, CurrentInv, Replacing, Clear, Applying,
          Agreement, LockInv, ManagerInv
    <2>2. ProcessInv'
      BY <1>9 DEF ApplyReplaceLab, TeardownLab, Release, Victim, Undoing,
          RecordInv, ProcessInv, CurrentInv, Replacing, Clear, Applying,
          Agreement, LockInv, ManagerInv
    <2> QED
      BY <2>1, <2>2
  <1>10. CASE ApplyUndoLab(m)
    <2>1. RecordInv'
      BY <1>10 DEF ApplyUndoLab, TeardownLab, Release, Victim, Undoing,
          RecordInv, ProcessInv, CurrentInv, Replacing, Clear, Applying,
          Agreement, LockInv, ManagerInv
    <2>2. ProcessInv'
      BY <1>10 DEF ApplyUndoLab, TeardownLab, Release, Victim, Undoing,
          RecordInv, ProcessInv, CurrentInv, Replacing, Clear, Applying,
          Agreement, LockInv, ManagerInv
    <2> QED
      BY <2>1, <2>2
  <1>11. CASE DestroyLab(m)
    <2>1. RecordInv'
      BY <1>11 DEF DestroyLab, TeardownLab, Release, Victim, Undoing,
          RecordInv, ProcessInv, CurrentInv, Replacing, Clear, Applying,
          Agreement, LockInv, ManagerInv
    <2>2. ProcessInv'
      BY <1>11 DEF DestroyLab, TeardownLab, Release, Victim, Undoing,
          RecordInv, ProcessInv, CurrentInv, Replacing, Clear, Applying,
          Agreement, LockInv, ManagerInv
    <2> QED
      BY <2>1, <2>2
  <1>12. CASE ApplyBuild(m)
    <2>1. RecordInv'
      BY <1>12 DEF ApplyBuild, RecordInv, ProcessInv, CurrentInv, Replacing,
          Clear, Applying, Agreement, LockInv, ManagerInv
    <2>2. ProcessInv'
      BY <1>12 DEF ApplyBuild, RecordInv, ProcessInv, CurrentInv, Replacing,
          Clear, Applying, Agreement, LockInv, ManagerInv
    <2> QED
      BY <2>1, <2>2
  <1>13. CASE ApplyStart(m)
    <2>1. RecordInv'
      BY <1>13 DEF ApplyStart, StartProcess, StartProcessFails, StopTimesOut,
          RecordInv, ProcessInv, CurrentInv, Replacing, Clear, Applying,
          Agreement, LockInv, ManagerInv
    <2>2. ProcessInv'
      BY <1>13 DEF ApplyStart, StartProcess, StartProcessFails, StopTimesOut,
          RecordInv, ProcessInv, CurrentInv, Replacing, Clear, Applying,
          Agreement, LockInv, ManagerInv
    <2> QED
      BY <2>1, <2>2
  <1>14. CASE ApplyTaps(m)
    <2>1. RecordInv'
      BY <1>14 DEF ApplyTaps, Release, RecordInv, ProcessInv, CurrentInv,
          Replacing, Clear, Applying, Agreement, LockInv, ManagerInv
    <2>2. ProcessInv'
      BY <1>14 DEF ApplyTaps, Release, RecordInv, ProcessInv, CurrentInv,
          Replacing, Clear, Applying, Agreement, LockInv, ManagerInv
    <2> QED
      BY <2>1, <2>2
  <1>15. CASE ApplyFailed(m)
    <2>1. /\ pc' = [pc EXCEPT ![m] = "idle"] /\ pc[m] = "apply_failed"
          /\ UNCHANGED <<current, reported, target, lpc>>
          /\ handle' \in {handle, "none"} /\ stopped' = stopped
      BY <1>15, StatusKeeps DEF ApplyFailed, Recorded, NotRecorded
    <2>2. \/ slipped'
          \/ /\ current = NoTopology
             /\ desired'.topology = NoTopology /\ ~desired'.running
             /\ observed'.applied = FALSE /\ observed'.effective = NoTopology
          \/ /\ current # NoTopology
             /\ desired' = desired /\ slipped' = slipped
             /\ observed'.applied = observed.applied
             /\ observed'.effective = observed.effective
      <3>1. CASE slipped'
        BY <3>1
      <3>2. CASE ~slipped' /\ current = NoTopology
        <4>1. PICK st : observed' = Observed(st, FALSE, NoTopology)
          BY <1>15, <3>2 DEF ApplyFailed, NotRecorded
        <4>2. observed'.applied = FALSE /\ observed'.effective = NoTopology
          <5>1. /\ Observed(st, FALSE, NoTopology).applied = FALSE
                /\ Observed(st, FALSE, NoTopology).effective = NoTopology
            BY DEF Observed
          <5> QED
            BY <4>1, <5>1
        <4>3. desired' = Unapplied
          BY <1>15, <3>2 DEF ApplyFailed, NotRecorded
        <4> QED
          BY <3>2, <4>2, <4>3 DEF Unapplied
      <3>3. CASE ~slipped' /\ current # NoTopology
        <4>1. PICK st : observed' = Refreshed(st)
          BY <1>15, <3>3 DEF ApplyFailed, NotRecorded
        <4>2. /\ observed'.applied = observed.applied
              /\ observed'.effective = observed.effective
          BY <4>1, ObservedFields
        <4> QED
          BY <1>15, <3>3, <4>2 DEF ApplyFailed, NotRecorded
      <3> QED
        BY <3>1, <3>2, <3>3
    <2>3. RecordInv'
      <3>1. ~slipped' /\ lpc = "up" => Agreement'
        <4>1. CASE slipped'
          BY <4>1
        <4>2. CASE current = NoTopology
          BY <2>1, <2>2, <4>2 DEF Agreement
        <4>3. CASE ~slipped' /\ current # NoTopology
          BY <2>1, <2>2, <4>3 DEF Agreement, RecordInv
        <4> QED
          BY <4>1, <4>2, <4>3
      <3> QED
        BY <2>1, <3>1 DEF RecordInv, Replacing
    <2>4. ProcessInv'
      BY <2>1, <2>2 DEF RecordInv, ProcessInv, Agreement
    <2> QED
      BY <2>3, <2>4
  <1>16. CASE ApplyRecord(m)
    <2>1. /\ pc' = [pc EXCEPT ![m] = "idle"] /\ pc[m] = "apply_record"
          /\ UNCHANGED <<current, reported, target, lpc>>
          /\ handle' \in {handle, "none"} /\ stopped' = stopped
          /\ desired'.topology = target[m] /\ target[m] \in Topologies
      BY <1>16, StatusKeeps DEF ApplyRecord, Recorded, NotRecorded, ManagerInv,
          CurrentInv, Applying
    <2>2. \/ slipped'
          \/ observed'.applied = TRUE /\ observed'.effective = target[m]
      <3>1. CASE slipped'
        BY <3>1
      <3>2. CASE ~slipped'
        <4>1. PICK st : observed' = Observed(st, TRUE, target[m])
          BY <1>16, <3>2 DEF ApplyRecord, NotRecorded
        <4>2. observed'.applied = TRUE /\ observed'.effective = target[m]
          BY <4>1, ObservedFields
        <4> QED
          BY <1>16, <4>2 DEF ApplyRecord, NotRecorded
      <3> QED
        BY <3>1, <3>2
    <2>3. RecordInv'
      BY <2>1, <2>2 DEF RecordInv, Replacing, Agreement
    <2>4. ProcessInv'
      BY <2>1, <2>2 DEF RecordInv, ProcessInv, Agreement
    <2> QED
      BY <2>3, <2>4
  <1>17. CASE DestroyLock(m)
    <2>1. RecordInv'
      BY <1>17 DEF DestroyLock, RecordInv, ProcessInv, CurrentInv, Replacing,
          Clear, Applying, Agreement, LockInv, ManagerInv
    <2>2. ProcessInv'
      BY <1>17 DEF DestroyLock, RecordInv, ProcessInv, CurrentInv, Replacing,
          Clear, Applying, Agreement, LockInv, ManagerInv
    <2> QED
      BY <2>1, <2>2
  <1>18. CASE DestroyFailed(m)
    <2>1. /\ pc' = [pc EXCEPT ![m] = "idle"] /\ pc[m] = "destroy_failed"
          /\ UNCHANGED <<current, reported, target, lpc, desired>>
          /\ handle' \in {handle, "none"} /\ stopped' = stopped
      BY <1>18, StatusKeeps DEF DestroyFailed, NotRecorded
    <2>2. \/ slipped'
          \/ /\ slipped' = slipped
             /\ observed'.applied = observed.applied
             /\ observed'.effective = observed.effective
      <3>1. CASE slipped'
        BY <3>1
      <3>2. CASE ~slipped'
        <4>1. PICK st : observed' = Refreshed(st)
          BY <1>18, <3>2 DEF DestroyFailed, NotRecorded
        <4>2. /\ observed'.applied = observed.applied
              /\ observed'.effective = observed.effective
          BY <4>1, ObservedFields
        <4> QED
          BY <1>18, <4>2 DEF DestroyFailed, NotRecorded
      <3> QED
        BY <3>1, <3>2
    <2>3. RecordInv'
      BY <2>1, <2>2 DEF RecordInv, Replacing, Agreement
    <2>4. ProcessInv'
      BY <2>1, <2>2 DEF RecordInv, ProcessInv, Agreement
    <2> QED
      BY <2>3, <2>4
  <1>19. CASE DestroyTail(m)
    <2>1. RecordInv'
      BY <1>19 DEF DestroyTail, StopProcess, StopTimesOut, RecordInv,
          ProcessInv, CurrentInv, Replacing, Clear, Applying, Agreement,
          LockInv, ManagerInv
    <2>2. ProcessInv'
      BY <1>19 DEF DestroyTail, StopProcess, StopTimesOut, RecordInv,
          ProcessInv, CurrentInv, Replacing, Clear, Applying, Agreement,
          LockInv, ManagerInv
    <2> QED
      BY <2>1, <2>2
  <1>20. CASE DestroyRecord(m)
    <2>1. /\ pc' = [pc EXCEPT ![m] = "idle"] /\ pc[m] = "destroy_record"
          /\ UNCHANGED <<current, reported, target, lpc>>
          /\ handle' \in {handle, "none"} /\ stopped' = stopped
          /\ desired'.topology = NoTopology /\ ~desired'.running
      BY <1>20, StatusKeeps DEF DestroyRecord, Recorded, NotRecorded, Unapplied
    <2>2. \/ slipped'
          \/ observed'.applied = FALSE /\ observed'.effective = NoTopology
      <3>1. CASE slipped'
        BY <3>1
      <3>2. CASE ~slipped'
        <4>1. PICK st : observed' = Observed(st, FALSE, NoTopology)
          BY <1>20, <3>2 DEF DestroyRecord, NotRecorded
        <4>2. observed'.applied = FALSE /\ observed'.effective = NoTopology
          <5>1. /\ Observed(st, FALSE, NoTopology).applied = FALSE
                /\ Observed(st, FALSE, NoTopology).effective = NoTopology
            BY DEF Observed
          <5> QED
            BY <4>1, <5>1
        <4> QED
          BY <1>20, <4>2 DEF DestroyRecord, NotRecorded
      <3> QED
        BY <3>1, <3>2
    <2>3. RecordInv'
      BY <2>1, <2>2 DEF RecordInv, Replacing, Agreement
    <2>4. ProcessInv'
      BY <2>1, <2>2 DEF RecordInv, ProcessInv, Agreement
    <2> QED
      BY <2>3, <2>4
  <1>21. CASE HealthRequest
    <2>1. /\ UNCHANGED <<pc, current, reported, target, lpc, desired, slipped>>
          /\ handle' \in {handle, "none"} /\ stopped' = stopped
      BY <1>21, StatusKeeps DEF HealthRequest
    <2>2. /\ observed'.applied = observed.applied
          /\ observed'.effective = observed.effective
      <3>1. CASE UNCHANGED observed
        BY <3>1
      <3>2. CASE ~UNCHANGED observed
        <4>1. PICK st : observed' = Refreshed(st)
          BY <1>21, <3>2 DEF HealthRequest
        <4> QED
          BY <4>1, ObservedFields
      <3> QED
        BY <3>1, <3>2
    <2>3. RecordInv'
      BY <2>1, <2>2 DEF RecordInv, Replacing, Agreement
    <2>4. ProcessInv'
      BY <2>1, <2>2 DEF RecordInv, ProcessInv, Agreement
    <2> QED
      BY <2>3, <2>4
  <1>22. CASE StatsRequest
    <2>1. RecordInv'
      BY <1>22 DEF StatsRequest, Status, StatusRaises, RecordInv, ProcessInv,
          CurrentInv, Replacing, Clear, Applying, Agreement, LockInv,
          ManagerInv
    <2>2. ProcessInv'
      BY <1>22 DEF StatsRequest, Status, StatusRaises, RecordInv, ProcessInv,
          CurrentInv, Replacing, Clear, Applying, Agreement, LockInv,
          ManagerInv
    <2> QED
      BY <2>1, <2>2
  <1>23. CASE ControlRequest
    <2>1. /\ UNCHANGED <<pc, current, reported, target, lpc, desired, slipped>>
          /\ UNCHANGED <<handle, stopped>>
      BY <1>23 DEF ControlRequest
    <2>2. /\ observed'.applied = observed.applied
          /\ observed'.effective = observed.effective
      <3>1. CASE UNCHANGED observed
        BY <3>1
      <3>2. CASE ~UNCHANGED observed
        <4>1. PICK st : observed' = Refreshed(st)
          BY <1>23, <3>2 DEF ControlRequest
        <4> QED
          BY <4>1, ObservedFields
      <3> QED
        BY <3>1, <3>2
    <2>3. RecordInv'
      BY <2>1, <2>2 DEF RecordInv, Replacing, Agreement
    <2>4. ProcessInv'
      BY <2>1, <2>2 DEF RecordInv, ProcessInv, Agreement
    <2> QED
      BY <2>3, <2>4
  <1>24. CASE Start
    <2>1. RecordInv'
      BY <1>24 DEF Start, StartProcess, RecordInv, ProcessInv, CurrentInv,
          Replacing, Clear, Applying, Agreement, LockInv, ManagerInv
    <2>2. ProcessInv'
      BY <1>24 DEF Start, StartProcess, RecordInv, ProcessInv, CurrentInv,
          Replacing, Clear, Applying, Agreement, LockInv, ManagerInv
    <2> QED
      BY <2>1, <2>2
  <1>25. CASE StartFails
    <2>1. RecordInv'
      BY <1>25 DEF StartFails, StartProcessFails, RecordInv, ProcessInv,
          CurrentInv, Replacing, Clear, Applying, Agreement, LockInv,
          ManagerInv
    <2>2. ProcessInv'
      BY <1>25 DEF StartFails, StartProcessFails, RecordInv, ProcessInv,
          CurrentInv, Replacing, Clear, Applying, Agreement, LockInv,
          ManagerInv
    <2> QED
      BY <2>1, <2>2
  <1>26. CASE Shutdown
    <2>1. RecordInv'
      BY <1>26 DEF Shutdown, RecordInv, ProcessInv, CurrentInv, Replacing,
          Clear, Applying, Agreement, LockInv, ManagerInv
    <2>2. ProcessInv'
      BY <1>26 DEF Shutdown, RecordInv, ProcessInv, CurrentInv, Replacing,
          Clear, Applying, Agreement, LockInv, ManagerInv
    <2> QED
      BY <2>1, <2>2
  <1>27. CASE StopBegin
    <2>1. RecordInv'
      BY <1>27 DEF StopBegin, RecordInv, ProcessInv, CurrentInv, Replacing,
          Clear, Applying, Agreement, LockInv, ManagerInv
    <2>2. ProcessInv'
      BY <1>27 DEF StopBegin, RecordInv, ProcessInv, CurrentInv, Replacing,
          Clear, Applying, Agreement, LockInv, ManagerInv
    <2> QED
      BY <2>1, <2>2
  <1>28. CASE StopLock
    <2>1. RecordInv'
      BY <1>28 DEF StopLock, RecordInv, ProcessInv, CurrentInv, Replacing,
          Clear, Applying, Agreement, LockInv, ManagerInv
    <2>2. ProcessInv'
      BY <1>28 DEF StopLock, RecordInv, ProcessInv, CurrentInv, Replacing,
          Clear, Applying, Agreement, LockInv, ManagerInv
    <2> QED
      BY <2>1, <2>2
  <1>29. CASE StopDatapath
    <2>1. RecordInv'
      BY <1>29 DEF StopDatapath, StopEscapes, StopProcess, StopTimesOut,
          RecordInv, ProcessInv, CurrentInv, Replacing, Clear, Applying,
          Agreement, LockInv, ManagerInv
    <2>2. ProcessInv'
      BY <1>29 DEF StopDatapath, StopEscapes, StopProcess, StopTimesOut,
          RecordInv, ProcessInv, CurrentInv, Replacing, Clear, Applying,
          Agreement, LockInv, ManagerInv
    <2> QED
      BY <2>1, <2>2
  <1>30. CASE StopLab
    <2>1. RecordInv'
      BY <1>30 DEF StopLab, StopEscapes, RecordInv, ProcessInv, CurrentInv,
          Replacing, Clear, Applying, Agreement, LockInv, ManagerInv
    <2>2. ProcessInv'
      BY <1>30 DEF StopLab, StopEscapes, RecordInv, ProcessInv, CurrentInv,
          Replacing, Clear, Applying, Agreement, LockInv, ManagerInv
    <2> QED
      BY <2>1, <2>2
  <1>31. CASE StopDone
    <2>1. RecordInv'
      BY <1>31 DEF StopDone, RecordInv, ProcessInv, CurrentInv, Replacing,
          Clear, Applying, Agreement, LockInv, ManagerInv
    <2>2. ProcessInv'
      BY <1>31 DEF StopDone, RecordInv, ProcessInv, CurrentInv, Replacing,
          Clear, Applying, Agreement, LockInv, ManagerInv
    <2> QED
      BY <2>1, <2>2
  <1>32. CASE DatapathDies
    <2>1. RecordInv'
      BY <1>32 DEF DatapathDies, RecordInv, ProcessInv, CurrentInv, Replacing,
          Clear, Applying, Agreement, LockInv, ManagerInv
    <2>2. ProcessInv'
      BY <1>32 DEF DatapathDies, RecordInv, ProcessInv, CurrentInv, Replacing,
          Clear, Applying, Agreement, LockInv, ManagerInv
    <2> QED
      BY <2>1, <2>2
  <1>33. CASE UNCHANGED vars
    BY <1>33 DEF vars, RecordInv, ProcessInv, Replacing, Agreement
  <1> QED
    BY <1>1, <1>2, <1>3, <1>4, <1>5, <1>6, <1>7, <1>8, <1>9, <1>10, <1>11,
        <1>12, <1>13, <1>14, <1>15, <1>16, <1>17, <1>18, <1>19, <1>20, <1>21,
        <1>22, <1>23, <1>24, <1>25, <1>26, <1>27, <1>28, <1>29, <1>30, <1>31,
        <1>32, <1>33 DEF Next, MutatorStep, LifespanStep, Terminated

\* The state before the server has started.
LEMMA SerialInit == Init => SerialInv
  BY DEF Init, SerialInv, RecordInv, ProcessInv

\* A health answer "running" given in a state of the invariants is true.
LEMMA ReadyStep ==
    ASSUME OneMutator, TypeOK, SerialInv, HealthRequest, state' = "running"
    PROVE  IF desired.running
           THEN /\ alive /\ health = "running"
                /\ Quiet /\ ~slipped =>
                     handle = IF desired.topology = NoTopology THEN "boot"
                              ELSE desired.topology
           ELSE handle' = "none"
  <1>1. PICK st \in DatapathStatus :
           Status(st) /\ state' = Recomputed(st, desired, override)
    BY DEF HealthRequest
  <1>2. CASE ~desired.running
    <2>1. ~st.running
      BY <1>1, <1>2 DEF Recomputed
    <2>2. handle' = "none"
      BY <1>1, <2>1 DEF Status
    <2> QED
      BY <1>2, <2>2
  <1>3. CASE desired.running
    <2>1. st.running /\ st.reachable /\ st.health = "running"
      BY <1>1, <1>3 DEF Recomputed
    <2>2. alive /\ handle # "none" /\ health = "running"
      BY <1>1, <2>1 DEF Status, Absent
    <2>3. ASSUME Quiet, ~slipped
          PROVE  handle = IF desired.topology = NoTopology THEN "boot"
                          ELSE desired.topology
      <3>1. PICK m : Mutators = {m}
        BY DEF OneMutator
      <3>2. lpc = "up" /\ pc[m] = "idle"
        BY <2>3, <3>1 DEF HealthRequest, Quiet, At
      <3>3. desired.topology = current
        BY <2>3, <3>1, <3>2 DEF SerialInv, RecordInv, Agreement
      <3> QED
        BY <1>3, <2>2, <2>3, <3>1, <3>2, <3>3 DEF SerialInv, ProcessInv
    <2> QED
      BY <1>3, <2>2, <2>3
  <1> QED
    BY <1>2, <1>3

\* The inductive invariant of a controller that serves one apply or destroy
\* after the other.
LEMMA SerialCorrect ==
    ASSUME OneMutator
    PROVE  Spec => [](TypeOK /\ ManagerInv /\ SerialInv)
  <1>1. Init => TypeOK /\ ManagerInv /\ SerialInv
    BY TypeInit, ManagerInit, SerialInit
  <1>2. TypeOK /\ ManagerInv /\ SerialInv /\ [Next]_vars =>
           (TypeOK /\ ManagerInv /\ SerialInv)'
    BY TypeStep, ManagerStep, SerialStep
  <1> QED
    BY <1>1, <1>2, PTL DEF Spec

\* Whichever step of an apply or destroy fails, the runtime records what the
\* manager did, or the failure of the status call shows (app.py:199-236,
\* 247-270).
THEOREM RecordSafety ==
    ASSUME OneMutator PROVE Spec => []AgreesWithManager
  <1>1. SerialInv => AgreesWithManager
    BY DEF OneMutator, SerialInv, RecordInv, Agreement, AgreesWithManager,
        Quiet, At
  <1> QED
    BY <1>1, SerialCorrect, PTL

\* The controller does not stop the datapath of an applied topology, nor put
\* another in its place (app.py:261, manager.py:76-128).
THEOREM ProcessSafety ==
    ASSUME OneMutator PROVE Spec => []AppliedDatapathRuns
  <1>1. SerialInv => AppliedDatapathRuns
    BY DEF OneMutator, SerialInv, ProcessInv, AppliedDatapathRuns, Quiet, At
  <1> QED
    BY <1>1, SerialCorrect, PTL

\* A health answer "running" is true when it is given (app.py:278-287,
\* 414-456).
THEOREM ReadySafety ==
    ASSUME OneMutator PROVE Spec => ReadyIsTruthful
  <1>1. TypeOK /\ ManagerInv /\ SerialInv /\ [Next]_vars =>
           [HealthRequest /\ state' = "running" =>
              IF desired.running
              THEN /\ alive /\ health = "running"
                   /\ Quiet /\ ~slipped =>
                        handle = IF desired.topology = NoTopology THEN "boot"
                                 ELSE desired.topology
              ELSE handle' = "none"]_vars
    BY ReadyStep
  <1> QED
    BY <1>1, SerialCorrect, PTL DEF Spec, ReadyIsTruthful
=============================================================================
