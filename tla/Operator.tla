------------------------------ MODULE Operator ------------------------------
(***************************************************************************)
(* An operator who drives the controller with pktlabctl, one command after *)
(* the other, over the HTTP API.                                           *)
(*                                                                         *)
(* A command ends with exit code 0 when the API returned a result and with *)
(* 1 otherwise.  The client waits two seconds; an apply may take longer,   *)
(* goes on without its client, and meets the operator's next command if a  *)
(* second API thread is free.  Status, stats, pause and resume may come at *)
(* any time, from the operator or from others, and do not touch the exit   *)
(* code of the last topology command.                                      *)
(***************************************************************************)
EXTENDS Controller

VARIABLE cli  \* the last topology command of the operator

sessionVars == <<vars, cli>>

\* thread serves it and the operator waits for the response; want is what it
\* asks for, before what was applied when it was typed.
NoCommand == [waiting |-> FALSE, thread |-> "none", want |-> NoTopology,
              before |-> NoTopology, response |-> "none"]

INSTANCE ReconcilePlan

SessionInit == Init /\ cli = NoCommand

-----------------------------------------------------------------------------
\* pktlabctl topology apply and destroy reach the API ...
Issue(t) ==
    /\ ~cli.waiting
    /\ ApplyRequest(t) \/ DestroyRequest(t)
    /\ cli' = [waiting |-> TRUE, thread |-> t, want |-> target'[t],
               before |-> current, response |-> "none"]

\* ... or there is nobody to reach.
Refused ==
    /\ ~cli.waiting /\ lpc \in {"off", "down"}
    /\ \E want \in Topologies \cup {NoTopology} :
          cli' = [NoCommand EXCEPT !.want = want, !.before = current,
                                   !.response = "refused"]
    /\ UNCHANGED vars

\* httpx gives up; the request does not notice.
TimesOut ==
    /\ cli.waiting
    /\ cli' = [cli EXCEPT !.waiting = FALSE, !.response = "timeout"]
    /\ UNCHANGED vars

\* What the route makes of the runtime's answer: an exception, of whatever
\* kind, is an HTTP error; the last section of a request raises only when the
\* datapath dies in its status call.
Response(t) ==
    IF pc[t] \in {"apply_record", "destroy_record"} /\ alive' = alive
    THEN "result" ELSE "http_error"

\* A thread works on its request; the last step answers a waiting client.
Work(t) ==
    /\ MutatorStep(t)
    /\ cli' = IF cli.waiting /\ cli.thread = t /\ pc'[t] = "idle"
              THEN [cli EXCEPT !.waiting = FALSE, !.response = Response(t)]
              ELSE cli

\* Mutant: the status of the response is not looked at.
ExitCodeOfAnyResponse(response) ==
    IF response \in {"result", "http_error"} THEN 0 ELSE 1

\* run_topology_apply and run_topology_destroy
ExitCode(response) == IF response = "result" THEN 0 ELSE 1

Surroundings ==
    /\ \/ HealthRequest \/ StatsRequest \/ ControlRequest
       \/ LifespanStep \/ Shutdown \/ DatapathDies \/ Terminated
    /\ UNCHANGED cli

SessionNext ==
    \/ \E t \in Mutators : Issue(t) \/ Work(t)
    \/ Refused \/ TimesOut \/ Surroundings

SessionSpec == SessionInit /\ [][SessionNext]_sessionVars

-----------------------------------------------------------------------------
(* Properties                                                              *)

\* What the exit code of a topology command says is so until the operator's
\* next one.  0: what was asked for is applied, the runtime, the manager and
\* the kernel agree on it, whatever earlier commands have left behind.  1
\* with an HTTP error: what was asked for was not applied by this command
\* (commands/topology.py:25-33, 48-56; client.py:245-279;
\* routes_topology.py:14-48).
ExitCodeTruth ==
    lpc = "up" /\ Quiet /\ ~cli.waiting /\ cli.response # "none" =>
       IF ExitCode(cli.response) = 0
       THEN /\ current = cli.want /\ ~slipped /\ AgreesWithManager
            /\ \A x \in Topologies \ reported :
                  lab[x] = IF x = cli.want THEN "built" ELSE "absent"
       ELSE cli.response = "http_error" /\ ~slipped /\ cli.want # cli.before =>
               current # cli.want

\* The controller calls itself ready only when the reconcile planner sees
\* nothing left to do (app.py:414-456, reconcile.py:45-103).
RunningNeedsNoPlan ==
    [][HealthRequest /\ Quiet /\ ~slipped /\ state' = "running" =>
         BuildReconcilePlan(desired', observed') = {}]_sessionVars
=============================================================================
