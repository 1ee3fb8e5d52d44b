--------------------------- MODULE OperatorProofs ---------------------------
(***************************************************************************)
(* Proofs about Operator: what the exit code of a topology command says is *)
(* so, and a controller that calls itself ready has nothing left to plan,  *)
(* for every set of topologies and faults and any number of commands, as   *)
(* long as the API serves one topology request at a time.                  *)
(***************************************************************************)
EXTENDS Operator, ControllerProofs

Answered == cli.response \in {"result", "http_error"}

CliType ==
    cli \in [waiting: BOOLEAN, thread: Mutators \cup {"none"},
             want: Topologies \cup {NoTopology},
             before: Topologies \cup {NoTopology},
             response: {"none", "refused", "timeout", "result", "http_error"}]

\* While the operator waits, the thread works on what was asked for, and what
\* was applied before is there until the manager has taken it down.
WaitingInv ==
    cli.waiting =>
       LET t == cli.thread
       IN  /\ t \in Mutators /\ pc[t] # "idle"
           /\ target[t] = cli.want /\ cli.response = "none"
           /\ Replacing(t) \/ pc[t] \in {"apply_begin", "apply_lock",
                                         "destroy_begin", "destroy_lock"} =>
                 current = cli.before
           /\ pc[t] = "apply_failed" =>
                 cli.want # NoTopology /\ current \in {cli.before, NoTopology}
           /\ pc[t] \in {"destroy_begin", "destroy_lock", "destroy_stop",
                         "destroy_lab", "destroy_tail", "destroy_failed",
                         "destroy_record"} => cli.want = NoTopology
           /\ pc[t] = "destroy_tail" /\ handle # "none" =>
                 cli.before = NoTopology

\* An answer is the last that happened to the topology.
AnsweredInv ==
    Answered =>
       /\ ~cli.waiting /\ Quiet /\ lpc # "off"
       /\ lpc = "up" =>
             IF cli.response = "result" THEN current = cli.want /\ ~slipped
             ELSE ~slipped /\ cli.want # cli.before => current # cli.want

CliInv == CliType /\ WaitingInv /\ AnsweredInv

-----------------------------------------------------------------------------
(* A session is a behaviour of the controller                              *)

LEMMA SessionStep == [SessionNext]_sessionVars => [Next]_vars
  BY DEF SessionNext, sessionVars, Issue, Work, Refused, TimesOut,
      Surroundings, Next

LEMMA SessionIsController == SessionSpec => Spec
  <1>1. SessionInit => Init
    BY DEF SessionInit
  <1> QED
    BY <1>1, SessionStep, PTL DEF SessionSpec, Spec

-----------------------------------------------------------------------------
(* The invariant of the session                                            *)

LEMMA CliInit == SessionInit => CliInv
  <1> SUFFICES ASSUME SessionInit PROVE CliInv
    OBVIOUS
  <1>1. cli = [waiting |-> FALSE, thread |-> "none", want |-> NoTopology,
               before |-> NoTopology, response |-> "none"]
    BY DEF SessionInit, NoCommand
  <1> QED
    BY <1>1 DEF CliInv, CliType, WaitingInv, AnsweredInv, Answered

\* What goes on beside the topology requests leaves the topology alone while
\* the server is up.
LEMMA SurroundingsKeep ==
    Surroundings =>
       /\ UNCHANGED <<cli, pc, target, slipped>>
       /\ lpc = "up" => current' = current /\ handle' \in {handle, "none"}
       /\ lpc' = "up" => lpc \in {"up", "off"}
       /\ lpc' = "off" => lpc = "off"
  <1> SUFFICES ASSUME Surroundings
               PROVE  /\ UNCHANGED <<cli, pc, target, slipped>>
                      /\ lpc = "up" => /\ current' = current
                                       /\ handle' \in {handle, "none"}
                      /\ lpc' = "up" => lpc \in {"up", "off"}
                      /\ lpc' = "off" => lpc = "off"
    OBVIOUS
  <1> UNCHANGED cli
    BY DEF Surroundings
  <1>1. CASE HealthRequest
    BY <1>1, StatusKeeps DEF HealthRequest, managerVars, controlVars
  <1>2. CASE StatsRequest
    BY <1>2, StatusKeeps DEF StatsRequest, managerVars, controlVars
  <1>3. CASE ControlRequest
    BY <1>3 DEF ControlRequest, managerVars, controlVars
  <1>4. CASE Start \/ StartFails
    BY <1>4 DEF Start, StartFails
  <1>5. CASE StopBegin \/ StopLock
    BY <1>5 DEF StopBegin, StopLock, managerVars, supVars
  <1>6. CASE StopDatapath \/ StopLab \/ StopDone
    BY <1>6 DEF StopDatapath, StopLab, StopDone, StopEscapes
  <1>7. CASE Shutdown
    BY <1>7 DEF Shutdown, managerVars, supVars
  <1>8. CASE DatapathDies
    BY <1>8 DEF DatapathDies, managerVars, controlVars
  <1>9. CASE Terminated
    BY <1>9 DEF Terminated, vars, managerVars, controlVars, supVars
  <1> QED
    BY <1>1, <1>2, <1>3, <1>4, <1>5, <1>6, <1>7, <1>8, <1>9
        DEF Surroundings, LifespanStep

\* A thread that has not answered yet works on the same command.
LEMMA WaitingStep ==
    ASSUME TypeOK, ManagerInv, SerialInv, CliInv, cli.waiting,
           NEW t \in Mutators, t = cli.thread, MutatorStep(t),
           pc'[t] # "idle", cli' = cli
    PROVE  WaitingInv'
  <1>a. /\ pc \in [Mutators -> Points] /\ target[t] = cli.want
        /\ cli.response = "none"
        /\ Replacing(t) => current # NoTopology
        /\ Clear(t) => current = NoTopology
        /\ Applying(t) => target[t] # NoTopology
    BY TypeParts, NoTopologyAssumption
        DEF ThreadType, CliInv, WaitingInv, ManagerInv, CurrentInv
  <1>b. /\ lpc = "up"
        /\ pc[t] \in {"apply_replace_lab", "destroy_lab"} => handle = "none"
    BY DEF ManagerInv, LockInv, CliInv, WaitingInv, SerialInv, ProcessInv
  <1>c. /\ Replacing(t) \/ pc[t] \in {"apply_begin", "apply_lock",
                                      "destroy_begin", "destroy_lock"} =>
              current = cli.before
        /\ pc[t] \in {"destroy_begin", "destroy_lock", "destroy_stop",
                      "destroy_lab", "destroy_tail", "destroy_failed",
                      "destroy_record"} => cli.want = NoTopology
    BY DEF CliInv, WaitingInv
  <1> USE <1>a, <1>b, <1>c
      DEF Replacing, Clear, Applying, Points, WaitingInv, runtimeVars,
          managerVars, supVars, controlVars, At, Goto
  <1>1. CASE Begin(t)
    BY <1>1 DEF Begin
  <1>2. CASE ApplyLock(t)
    BY <1>2 DEF ApplyLock
  <1>3. CASE ApplyInvalid(t)
    BY <1>3 DEF ApplyInvalid
  <1>4. CASE ApplyReplaceStop(t)
    BY <1>4 DEF ApplyReplaceStop, TeardownStop, Release, Victim, Undoing,
        StopProcess, StopTimesOut
  <1>5. CASE ApplyReplaceLab(t)
    BY <1>5 DEF ApplyReplaceLab, TeardownLab, Release, Victim, Undoing
  <1>6. CASE ApplyBuild(t)
    BY <1>6 DEF ApplyBuild
  <1>7. CASE ApplyStart(t)
    BY <1>7 DEF ApplyStart
  <1>8. CASE ApplyTaps(t)
    BY <1>8 DEF ApplyTaps, Release
  <1>9. CASE ApplyUndoStop(t)
    BY <1>9 DEF ApplyUndoStop, TeardownStop, Release, Victim, Undoing,
        StopProcess, StopTimesOut
  <1>10. CASE ApplyUndoLab(t)
    BY <1>10 DEF ApplyUndoLab, TeardownLab, Release, Victim, Undoing
  <1>11. CASE DestroyLock(t)
    BY <1>11 DEF DestroyLock
  <1>12. CASE DestroyStop(t)
    BY <1>12 DEF DestroyStop, TeardownStop, Release, Victim, Undoing,
        StopProcess, StopTimesOut
  <1>13. CASE DestroyLab(t)
    BY <1>13 DEF DestroyLab, TeardownLab, Release, Victim, Undoing
  <1>14. CASE DestroyTail(t)
    BY <1>14 DEF DestroyTail
  <1>15. CASE \/ ApplyFailed(t) \/ ApplyRecord(t) \/ DestroyFailed(t)
              \/ DestroyRecord(t)
    BY <1>15 DEF ApplyFailed, ApplyRecord, DestroyFailed, DestroyRecord
  <1> QED
    BY <1>1, <1>2, <1>3, <1>4, <1>5, <1>6, <1>7, <1>8, <1>9, <1>10, <1>11,
        <1>12, <1>13, <1>14, <1>15 DEF MutatorStep

\* The last step of a request, and the answer the operator gets.
LEMMA AnswerStep ==
    ASSUME TypeOK, ManagerInv, SerialInv, CliInv, cli.waiting,
           NEW t \in Mutators, t = cli.thread, MutatorStep(t), pc'[t] = "idle"
    PROVE  /\ lpc' = lpc
           /\ Response(t) = "result" => current' = cli.want /\ ~slipped'
           /\ Response(t) = "http_error" =>
                 (~slipped' /\ cli.want # cli.before => current' # cli.want)
  <1>a. /\ pc \in [Mutators -> Points] /\ lpc = "up" /\ target[t] = cli.want
        /\ alive \in BOOLEAN
    BY TypeParts DEF ThreadType, SupervisorType, CliInv, WaitingInv,
        ManagerInv, LockInv
  <1>b. /\ pc[t] = "apply_record" => current = target[t]
        /\ pc[t] = "destroy_failed" => current # NoTopology
        /\ pc[t] \in {"destroy_tail", "destroy_record"} => current = NoTopology
    BY <1>a DEF SerialInv, RecordInv
  <1>c. /\ pc[t] = "apply_failed" =>
              cli.want # NoTopology /\ current \in {cli.before, NoTopology}
        /\ pc[t] \in {"destroy_tail", "destroy_failed", "destroy_record"} =>
              cli.want = NoTopology
        /\ pc[t] = "destroy_tail" /\ handle # "none" =>
              cli.before = NoTopology
    BY DEF CliInv, WaitingInv
  <1>1. CASE ApplyFailed(t)
    <2>1. /\ pc[t] = "apply_failed" /\ current' = current /\ lpc' = lpc
      BY <1>1 DEF ApplyFailed, At, managerVars, controlVars, Recorded,
          NotRecorded
    <2> QED
      BY <1>c, <2>1 DEF Response
  <1>2. CASE ApplyRecord(t)
    <2>1. /\ pc[t] = "apply_record" /\ current' = current /\ lpc' = lpc
      BY <1>2 DEF ApplyRecord, At, managerVars, Recorded, NotRecorded
    <2>2. CASE Recorded
      <3>1. Response(t) = "result"
        BY <1>2, <2>1, <2>2 DEF ApplyRecord, Response, Status, StatusRaises,
            Recorded, NotRecorded
      <3> QED
        BY <1>a, <1>b, <2>1, <2>2, <3>1 DEF Recorded
    <2>3. CASE StatusRaises /\ NotRecorded
      BY <2>1, <2>3 DEF StatusRaises, NotRecorded, Response
    <2> QED
      BY <1>2, <2>2, <2>3 DEF ApplyRecord
  <1>3. CASE DestroyFailed(t)
    <2>1. /\ pc[t] = "destroy_failed" /\ current' = current /\ lpc' = lpc
      BY <1>3 DEF DestroyFailed, At, managerVars, controlVars, NotRecorded
    <2> QED
      BY <1>b, <1>c, <2>1 DEF Response
  <1>4. CASE DestroyRecord(t)
    <2>1. /\ pc[t] = "destroy_record" /\ current' = current /\ lpc' = lpc
      BY <1>4 DEF DestroyRecord, At, managerVars, Recorded, NotRecorded
    <2>2. CASE Recorded
      <3>1. Response(t) = "result"
        BY <1>4, <2>1, <2>2 DEF DestroyRecord, Response, Status, StatusRaises,
            Recorded, NotRecorded
      <3> QED
        BY <1>b, <1>c, <2>1, <2>2, <3>1 DEF Recorded
    <2>3. CASE StatusRaises /\ NotRecorded
      BY <2>1, <2>3 DEF StatusRaises, NotRecorded, Response
    <2> QED
      BY <1>4, <2>2, <2>3 DEF DestroyRecord
  <1>5. CASE DestroyTail(t)
    <2>1. /\ pc[t] = "destroy_tail" /\ current' = current /\ lpc' = lpc
      BY <1>5 DEF DestroyTail, At, managerVars, controlVars
    <2>2. StopTimesOut
      BY <1>5, <1>a DEF DestroyTail, Goto
    <2> QED
      BY <1>c, <2>1, <2>2 DEF Response, StopTimesOut
  <1>6. CASE \/ Begin(t) \/ ApplyLock(t) \/ ApplyInvalid(t) \/ ApplyBuild(t)
             \/ ApplyStart(t) \/ ApplyTaps(t) \/ DestroyLock(t)
    BY <1>a, <1>6 DEF Begin, ApplyLock, ApplyInvalid, ApplyBuild, ApplyStart,
        ApplyTaps, DestroyLock, Goto, Release
  <1>7. CASE \/ ApplyReplaceStop(t) \/ ApplyUndoStop(t) \/ DestroyStop(t)
             \/ ApplyReplaceLab(t) \/ ApplyUndoLab(t) \/ DestroyLab(t)
    BY <1>a, <1>7 DEF ApplyReplaceStop, ApplyUndoStop, DestroyStop,
        ApplyReplaceLab, ApplyUndoLab, DestroyLab, TeardownStop, TeardownLab,
        Goto, Release
  <1> QED
    BY <1>1, <1>2, <1>3, <1>4, <1>5, <1>6, <1>7 DEF MutatorStep

\* Every step of the session keeps its invariant.
LEMMA CliStep ==
    ASSUME OneMutator
    PROVE  TypeOK /\ ManagerInv /\ SerialInv /\ CliInv
              /\ [SessionNext]_sessionVars => CliInv'
  <1> SUFFICES ASSUME TypeOK, ManagerInv, SerialInv, CliInv,
                      [SessionNext]_sessionVars
               PROVE  CliInv'
    OBVIOUS
  <1>a. PICK m : Mutators = {m}
    BY DEF OneMutator
  <1>b. /\ pc \in [Mutators -> Points]
        /\ target \in [Mutators -> Topologies \cup {NoTopology}]
        /\ current \in Topologies \cup {NoTopology}
    BY TypeParts DEF ThreadType, ManagerType
  <1>c. cli.waiting => lpc = "up"
    BY DEF ManagerInv, LockInv, CliInv, WaitingInv
  <1>1. ASSUME NEW t \in Mutators, Issue(t) PROVE CliInv'
    <2>1. /\ lpc = "up" /\ pc' = [pc EXCEPT ![t] =
               IF ApplyRequest(t) THEN "apply_begin" ELSE "destroy_begin"]
          /\ \E x \in Topologies \cup {NoTopology} :
                target' = [target EXCEPT ![t] = x]
          /\ ~ApplyRequest(t) => target'[t] = NoTopology
          /\ current' = current
      BY <1>1, <1>b DEF Issue, ApplyRequest, DestroyRequest, Goto, managerVars
    <2>2. cli' = [waiting |-> TRUE, thread |-> t, want |-> target'[t],
                  before |-> current, response |-> "none"]
      BY <1>1 DEF Issue
    <2>3. CliType'
      BY <1>b, <2>1, <2>2 DEF CliType
    <2>4. WaitingInv'
      BY <1>b, <2>1, <2>2 DEF WaitingInv, Replacing
    <2>5. AnsweredInv'
      BY <2>2 DEF AnsweredInv, Answered
    <2> QED
      BY <2>3, <2>4, <2>5 DEF CliInv
  <1>2. ASSUME NEW t \in Mutators, Work(t) PROVE CliInv'
    <2>1. MutatorStep(t) /\ pc[t] # "idle"
      BY <1>2 DEF Work, MutatorStep, Begin, ApplyLock, ApplyInvalid,
          ApplyReplaceStop, ApplyReplaceLab, ApplyBuild, ApplyStart,
          ApplyTaps, ApplyUndoStop, ApplyUndoLab, ApplyFailed, ApplyRecord,
          DestroyLock, DestroyStop, DestroyLab, DestroyFailed, DestroyTail,
          DestroyRecord, TeardownStop, TeardownLab, At
    <2>2. ~Answered
      BY <2>1 DEF CliInv, AnsweredInv, Quiet, At
    <2>3. CASE ~cli.waiting
      <3>1. cli' = cli
        BY <1>2, <2>3 DEF Work
      <3> QED
        BY <2>2, <2>3, <3>1 DEF CliInv, CliType, WaitingInv, AnsweredInv,
            Answered
    <2>4. CASE cli.waiting /\ pc'[t] # "idle"
      <3>1. cli' = cli /\ t = cli.thread
        BY <1>2, <1>a, <2>4 DEF Work, CliInv, WaitingInv
      <3>2. WaitingInv'
        BY <2>1, <2>4, <3>1, WaitingStep
      <3> QED
        BY <2>2, <3>1, <3>2 DEF CliInv, CliType, AnsweredInv, Answered
    <2>5. CASE cli.waiting /\ pc'[t] = "idle"
      <3>1. /\ t = cli.thread
            /\ cli' = [cli EXCEPT !.waiting = FALSE, !.response = Response(t)]
        BY <1>2, <1>a, <2>5 DEF Work, CliInv, WaitingInv
      <3>2. /\ lpc' = lpc
            /\ Response(t) = "result" => current' = cli.want /\ ~slipped'
            /\ Response(t) = "http_error" =>
                  (~slipped' /\ cli.want # cli.before => current' # cli.want)
        BY <2>1, <2>5, <3>1, AnswerStep
      <3>3. Response(t) \in {"result", "http_error"}
        BY DEF Response
      <3>4. /\ cli'.waiting = FALSE /\ cli'.response = Response(t)
            /\ cli'.want = cli.want /\ cli'.before = cli.before
        BY <3>1 DEF CliInv, CliType
      <3>5. CliType'
        BY <3>1, <3>3 DEF CliInv, CliType
      <3>6. Quiet'
        BY <1>a, <2>5 DEF Quiet, At
      <3>7. AnsweredInv'
        BY <1>c, <2>5, <3>2, <3>3, <3>4, <3>6 DEF AnsweredInv
      <3> QED
        BY <3>4, <3>5, <3>7 DEF CliInv, WaitingInv
    <2> QED
      BY <2>3, <2>4, <2>5
  <1>3. CASE Refused
    <2>1. PICK want \in Topologies \cup {NoTopology} :
             cli' = [NoCommand EXCEPT !.want = want, !.before = current,
                                      !.response = "refused"]
      BY <1>3 DEF Refused
    <2>2. cli' = [waiting |-> FALSE, thread |-> "none", want |-> want,
                  before |-> current, response |-> "refused"]
      BY <2>1 DEF NoCommand
    <2> QED
      BY <1>b, <2>2 DEF CliInv, CliType, WaitingInv, AnsweredInv, Answered
  <1>4. CASE TimesOut
    <2>1. cli' = [cli EXCEPT !.waiting = FALSE, !.response = "timeout"]
      BY <1>4 DEF TimesOut
    <2> QED
      BY <2>1 DEF CliInv, CliType, WaitingInv, AnsweredInv, Answered
  <1>5. CASE Surroundings
    <2>1. /\ UNCHANGED <<cli, pc, target, slipped>>
          /\ lpc = "up" => current' = current /\ handle' \in {handle, "none"}
          /\ lpc' = "up" => lpc \in {"up", "off"}
          /\ lpc' = "off" => lpc = "off"
      BY <1>5, SurroundingsKeep
    <2>2. WaitingInv'
      BY <1>c, <2>1 DEF CliInv, WaitingInv, Replacing
    <2>3. AnsweredInv'
      BY <2>1 DEF CliInv, AnsweredInv, Answered, Quiet, At
    <2> QED
      BY <2>1, <2>2, <2>3 DEF CliInv, CliType
  <1>6. CASE UNCHANGED sessionVars
    BY <1>6 DEF CliInv, CliType, WaitingInv, AnsweredInv, Answered, Quiet, At,
        Replacing, sessionVars, vars, managerVars, supVars, controlVars
  <1> QED
    BY <1>1, <1>2, <1>3, <1>4, <1>5, <1>6 DEF SessionNext

LEMMA SessionCorrect ==
    ASSUME OneMutator
    PROVE  SessionSpec => [](TypeOK /\ ManagerInv /\ SerialInv /\ CliInv)
  <1>1. SessionSpec => [](TypeOK /\ ManagerInv /\ SerialInv)
    BY SessionIsController, SerialCorrect, PTL
  <1> QED
    BY <1>1, CliInit, CliStep, PTL DEF SessionSpec

\* A status that makes the controller "running" leaves no action to plan.
LEMMA PlanStep ==
    ASSUME OneMutator, TypeOK, SerialInv, HealthRequest, Quiet, ~slipped,
           state' = "running"
    PROVE  BuildReconcilePlan(desired', observed') = {}
  <1>1. Agreement /\ desired' = desired
    BY DEF OneMutator, SerialInv, RecordInv, Quiet, At, HealthRequest
  <1>2. PICK st \in DatapathStatus :
           /\ Status(st) /\ observed' = Refreshed(st)
           /\ state' = Recomputed(st, desired, override)
    BY DEF HealthRequest
  <1>3. /\ observed'.applied = observed.applied
        /\ observed'.pid = IF st.running THEN handle ELSE "none"
        /\ observed'.health = st.health
    BY <1>2 DEF Refreshed, Observed
  <1>4. st.running => handle # "none"
    BY <1>2 DEF Status, Absent
  <1>5. /\ ~desired.running => ~st.running
        /\ desired.running => st.running /\ st.health = "running"
    BY <1>2 DEF Recomputed
  <1>6. ~Needed("apply_topology", desired', observed')
        /\ ~Needed("destroy_topology", desired', observed')
    BY <1>1, <1>3 DEF Agreement, Needed, TopologyRequested
  <1>7. ~Needed("stop_datapath", desired', observed')
    BY <1>1, <1>3, <1>5 DEF Needed, DatapathRunning
  <1>8. /\ ~Needed("start_datapath", desired', observed')
        /\ ~Needed("wait_for_datapath", desired', observed')
    BY <1>1, <1>3, <1>4, <1>5 DEF Needed, DatapathRunning
  <1> QED
    BY <1>6, <1>7, <1>8 DEF BuildReconcilePlan, PlanActions

-----------------------------------------------------------------------------
(* Theorems                                                                *)

\* What the exit code of a topology command says is so until the operator's
\* next one (commands/topology.py:25-33, 48-56; client.py:245-279;
\* routes_topology.py:14-48).
THEOREM ExitCodeSafety ==
    ASSUME OneMutator PROVE SessionSpec => []ExitCodeTruth
  <1>1. TypeOK /\ ManagerInv /\ SerialInv /\ CliInv => ExitCodeTruth
    <2> SUFFICES ASSUME TypeOK, ManagerInv, SerialInv, CliInv, lpc = "up",
                        Quiet, ~cli.waiting, cli.response # "none"
                 PROVE  IF ExitCode(cli.response) = 0
                        THEN /\ current = cli.want /\ ~slipped
                             /\ AgreesWithManager
                             /\ \A x \in Topologies \ reported :
                                   lab[x] = IF x = cli.want THEN "built"
                                            ELSE "absent"
                        ELSE cli.response = "http_error" /\ ~slipped
                               /\ cli.want # cli.before => current # cli.want
      BY DEF ExitCodeTruth
    <2>1. CASE cli.response = "result"
      <3>1. current = cli.want /\ ~slipped
        BY <2>1 DEF CliInv, AnsweredInv, Answered
      <3>2. AgreesWithManager
        BY DEF OneMutator, SerialInv, RecordInv, Agreement, AgreesWithManager,
            Quiet, At
      <3>3. \A x \in Topologies \ reported :
               lab[x] = IF x = current THEN "built" ELSE "absent"
        BY DEF ManagerInv, LabInv, Building, Quiet, At
      <3> QED
        BY <2>1, <3>1, <3>2, <3>3 DEF ExitCode
    <2>2. CASE cli.response # "result"
      BY <2>2 DEF ExitCode, CliInv, AnsweredInv, Answered
    <2> QED
      BY <2>1, <2>2
  <1> QED
    BY <1>1, SessionCorrect, PTL

\* The controller calls itself ready only when the reconcile planner sees
\* nothing left to do (app.py:414-456, reconcile.py:45-103).
THEOREM PlanSafety ==
    ASSUME OneMutator PROVE SessionSpec => RunningNeedsNoPlan
  <1>1. TypeOK /\ SerialInv =>
           [HealthRequest /\ Quiet /\ ~slipped /\ state' = "running" =>
              BuildReconcilePlan(desired', observed') = {}]_sessionVars
    BY PlanStep
  <1> QED
    BY <1>1, SessionCorrect, PTL DEF RunningNeedsNoPlan
=============================================================================
