----------------------------- MODULE Supervisor -----------------------------
(***************************************************************************)
(* DpdkdSupervisor and the pktlab-dpdkd processes it launches: spawn, the  *)
(* readiness loop, status, commands, SIGTERM and SIGKILL, and the socket   *)
(* path all daemons share.                                                 *)
(*                                                                         *)
(* Whoever listens at the path answers, the process that was launched or   *)
(* another.  A daemon unlinks the path before it binds it and again when   *)
(* it closes.  Its stderr is a pipe nobody reads while it runs: a daemon   *)
(* that has written more than the pipe holds is stuck in a log message.    *)
(* The controller itself may be killed and started again; its daemon       *)
(* stays.  Calls are serialised by the supervisor's lock, and a health is  *)
(* represented by the daemon that reported it.                             *)
(***************************************************************************)
EXTENDS Naturals

CONSTANTS
    MaxLaunches,   \* bound of the model: daemons launched
    MaxCrashes,    \* bound of the model: crashes of the controller
    PipeCapacity,  \* log messages the stderr pipe holds
    Backlog        \* requests the listening socket of a daemon queues

ASSUME BoundsAssumption ==
    /\ MaxLaunches \in Nat /\ MaxCrashes \in Nat
    /\ PipeCapacity \in Nat /\ Backlog \in Nat

VARIABLES
    daemon,    \* life of each daemon
    path,      \* daemon whose socket the path names, 0 if there is no file
    term,      \* daemons that were sent SIGTERM
    pending,   \* per daemon: requests whose clients have given up
    room,      \* per daemon: messages its stderr pipe still holds
    orphans,   \* daemons of controllers that crashed
    launched,  \* daemons launched so far
    crashes,   \* crashes so far, for MaxCrashes
    spc, op,   \* point reached by the call in progress, and which call it is
    process,   \* _process, 0 for None
    victim,    \* process being stopped
    seen,      \* health of the refresh in progress
    last_health, last_exit_code,
    failed     \* the last call raised

daemonVars == <<daemon, path, term, pending, room>>
cacheVars == <<last_health, last_exit_code>>
callVars == <<spc, op, process, victim, seen, cacheVars, failed>>
vars == <<daemonVars, orphans, launched, crashes, callVars>>

Daemons == 1..MaxLaunches
Alive(d) == daemon[d] \notin {"unborn", "dead"}

\* _process is not None and its poll() is None.
Running == process # 0 /\ Alive(process)

\* Every variable stays in its type; in particular abandoned requests do not
\* exceed what the listening socket queues (ipc_server.c:117).
TypeOK ==
    /\ daemon \in [Daemons -> {"unborn", "spawned", "listening", "serving",
                               "stuck", "closing", "killed", "dead"}]
    /\ path \in 0..MaxLaunches
    /\ term \subseteq Daemons /\ orphans \subseteq 1..launched
    /\ pending \in [Daemons -> 0..Backlog]
    /\ room \in [Daemons -> 0..PipeCapacity]
    /\ launched \in 0..MaxLaunches /\ crashes \in 0..MaxCrashes
    /\ spc \in {"idle", "wait", "ping", "health", "version", "command",
                "term_wait", "kill_wait"}
    /\ op \in {"none", "start", "restart", "status", "command", "stop"}
    /\ process \in 0..launched /\ victim \in 0..launched
    /\ seen \in 0..launched /\ last_health \in 0..launched
    /\ last_exit_code \in BOOLEAN /\ failed \in BOOLEAN

Init ==
    /\ daemon = [d \in Daemons |-> "unborn"]
    /\ path = 0 /\ term = {} /\ orphans = {}
    /\ pending = [d \in Daemons |-> 0]
    /\ room = [d \in Daemons |-> PipeCapacity]
    /\ launched = 0 /\ crashes = 0
    /\ spc = "idle" /\ op = "none"
    /\ process = 0 /\ victim = 0 /\ seen = 0
    /\ last_health = 0 /\ last_exit_code = FALSE /\ failed = FALSE

-----------------------------------------------------------------------------
(* The daemons                                                             *)

Becomes(d, to) == daemon' = [daemon EXCEPT ![d] = to]

\* A step of daemon d from one point of its life to the next.
Lives(d, from, to) ==
    /\ daemon[d] = from /\ Becomes(d, to)
    /\ UNCHANGED <<orphans, launched, crashes, callVars>>

\* pktlab_ipc_server_init: whatever the path names is unlinked first.
Bind(d) ==
    /\ Lives(d, "spawned", "listening")
    /\ path' = d
    /\ UNCHANGED <<term, pending, room>>

\* The datapath has started, or degraded, and the server runs; a start that
\* fails goes straight to the clean-up.
Serve(d) ==
    /\ Lives(d, "listening", "serving") \/ Lives(d, "listening", "closing")
    /\ UNCHANGED <<path, term, pending, room>>

\* A log message goes to the pipe.  Nobody reads it, so the daemon is stuck
\* once it is full; without its reader, gone with the controller, the write
\* fails and nothing happens.
Logs(d) ==
    \/ d \in orphans /\ UNCHANGED <<daemon, room>>
    \/ /\ d \notin orphans /\ room[d] > 0
       /\ room' = [room EXCEPT ![d] = @ - 1]
       /\ UNCHANGED daemon
    \/ /\ d \notin orphans /\ room[d] = 0
       /\ Becomes(d, "stuck")
       /\ UNCHANGED room

\* pktlab_ipc_server_handle_client of a request whose client is gone: the
\* response cannot be written, which is logged.
Warn(d) ==
    /\ daemon[d] = "serving" /\ pending[d] > 0
    /\ pending' = [pending EXCEPT ![d] = @ - 1]
    /\ Logs(d)
    /\ UNCHANGED <<path, term, orphans, launched, crashes, callVars>>

\* The signal interrupts the write, or its repetition is stuck again.
Interrupted(d) ==
    /\ d \in term
    /\ Lives(d, "stuck", "serving")
    /\ UNCHANGED <<path, term, pending, room>>

\* The server loop sees the flag of the signal handler between connections;
\* before the handler is installed the signal ends the process.
SeesSignal(d) ==
    /\ d \in term
    /\ Lives(d, "serving", "closing") \/ Lives(d, "spawned", "dead")
    /\ UNCHANGED <<path, term, pending, room>>

\* pktlab_ipc_server_close and exit: the path is unlinked, whose ever it is.
Close(d) ==
    /\ Lives(d, "closing", "dead")
    /\ path' = 0
    /\ UNCHANGED <<term, pending, room>>

\* The process ends without cleaning up: bad arguments, a crash, SIGKILL.
\* Its socket file stays.
Dies(d) ==
    /\ Alive(d)
    /\ Lives(d, daemon[d], "dead")
    /\ UNCHANGED <<path, term, pending, room>>

-----------------------------------------------------------------------------
(* DpdkdSupervisor.start                                                   *)

Returns(raised) ==
    /\ spc' = "idle" /\ op' = "none" /\ failed' = raised
    /\ victim' = 0 /\ seen' = 0

\* Mutant: what is known of the last process outlives it.
LaunchKeepsHistory ==
    /\ spc = "idle" /\ ~Running /\ launched < MaxLaunches
    /\ launched' = launched + 1 /\ process' = launched'
    /\ Becomes(launched', "spawned")
    /\ spc' = "wait" /\ op' = "start"
    /\ UNCHANGED <<path, term, pending, room, orphans, crashes, victim, seen,
                   cacheVars, failed>>

\* A fresh process, with nothing known of it yet.
Launch ==
    /\ spc = "idle" /\ ~Running /\ launched < MaxLaunches
    /\ last_health' = 0 /\ last_exit_code' = FALSE
    /\ \/ /\ launched' = launched + 1 /\ process' = launched'
          /\ Becomes(launched', "spawned")
          /\ spc' = "wait" /\ op' = "start"
          /\ UNCHANGED <<victim, seen, failed>>
       \/ \* Popen raises
          /\ Returns(TRUE)
          /\ UNCHANGED <<launched, process, daemon>>
    /\ UNCHANGED <<path, term, pending, room, orphans, crashes>>

\* start() while the process runs waits for it again.
StartAgain ==
    /\ spc = "idle" /\ Running
    /\ spc' = "wait" /\ op' = "restart"
    /\ UNCHANGED <<daemonVars, orphans, launched, crashes, process, victim,
                   seen, cacheVars, failed>>

\* _stop_locked drops the handle, then signals and waits; a process that has
\* exited is only reaped.
StopLocked ==
    /\ process' = 0
    /\ IF ~Running
       THEN /\ Returns(op = "start")
            /\ UNCHANGED term
       ELSE /\ victim' = process
            /\ term' = term \cup {process}
            /\ spc' = "term_wait"
            /\ UNCHANGED <<op, seen, failed>>

\* The except block of start; other callers let the error pass.
Raise ==
    IF op = "start" THEN StopLocked
    ELSE Returns(TRUE) /\ UNCHANGED <<process, term>>

\* _wait_for_ready_locked: the process is looked at and asked again ...
WaitPolls ==
    /\ spc = "wait"
    /\ IF Alive(process)
       THEN /\ spc' = "ping"
            /\ UNCHANGED <<term, process, op, victim, seen, failed,
                           last_exit_code>>
       ELSE last_exit_code' = TRUE /\ Raise
    /\ UNCHANGED <<daemon, path, pending, room, orphans, launched, crashes,
                   last_health>>

\* ... until the deadline.
WaitExpires ==
    /\ spc = "wait" /\ Raise
    /\ UNCHANGED <<daemon, path, pending, room, orphans, launched, crashes,
                   cacheVars>>

-----------------------------------------------------------------------------
(* DpdkdSupervisor.status and the commands, which ask for the status first *)

\* Without a process, or with one that has exited, the cache answers; a
\* command is refused.
Status ==
    /\ spc = "idle" /\ ~Running
    /\ process' = 0
    /\ last_exit_code' = (process # 0 \/ last_exit_code)
    /\ \E raised \in BOOLEAN : Returns(raised)
    /\ UNCHANGED <<daemonVars, orphans, launched, crashes, last_health>>

Refresh ==
    /\ spc = "idle" /\ Running
    /\ op' \in {"status", "command"}
    /\ spc' = "ping"
    /\ UNCHANGED <<daemonVars, orphans, launched, crashes, process, victim,
                   seen, cacheVars, failed>>

Exchanging == spc \in {"ping", "health", "version", "command"}
Served == path # 0 /\ daemon[path] = "serving" /\ pending[path] = 0

\* One exchange of _refresh_ipc_state_locked is answered by whoever serves
\* the path; the last one fills the cache.
Answered ==
    /\ Exchanging /\ Served
    /\ CASE spc = "ping" -> spc' = "health" /\ UNCHANGED <<seen, cacheVars>>
         [] spc = "health" -> /\ spc' = "version" /\ seen' = path
                              /\ UNCHANGED cacheVars
         [] spc = "version" -> /\ last_health' = seen
                               /\ last_exit_code' = FALSE
                               /\ spc' = IF op = "command" THEN "command"
                                         ELSE "idle"
                               /\ seen' = 0
         [] spc = "command" -> spc' = "idle" /\ UNCHANGED <<seen, cacheVars>>
    /\ IF spc' = "idle" THEN op' = "none" /\ failed' = FALSE
                        ELSE UNCHANGED <<op, failed>>
    /\ UNCHANGED <<daemonVars, orphans, launched, crashes, process, victim>>

\* A command the datapath refuses is logged, then answered with an error; a
\* daemon that got stuck is left to the client's timeout.
Refused ==
    /\ spc = "command" /\ Served
    /\ Logs(path)
    /\ IF daemon'[path] = "stuck" THEN UNCHANGED <<spc, op, victim, seen, failed>>
                                  ELSE Returns(TRUE)
    /\ UNCHANGED <<path, term, pending, orphans, launched, crashes, process,
                   cacheVars>>

\* Mutant: the backlog is off by one.
AbandonsBeyondBacklog ==
    \/ UNCHANGED pending
    \/ /\ path # 0 /\ daemon[path] \in {"listening", "serving", "stuck"}
       /\ pending[path] <= Backlog
       /\ pending' = [pending EXCEPT ![path] = @ + 1]

\* A request that was not answered was not sent, or is with the daemon.
Abandons ==
    \/ UNCHANGED pending
    \/ /\ path # 0 /\ daemon[path] \in {"listening", "serving", "stuck"}
       /\ pending[path] < Backlog
       /\ pending' = [pending EXCEPT ![path] = @ + 1]

\* No socket, nobody listening, or no answer in time.  A start tries again, a
\* status is "unreachable".
TransportError ==
    /\ Exchanging /\ Abandons
    /\ IF op \in {"start", "restart"}
       THEN spc' = "wait" /\ seen' = 0 /\ UNCHANGED <<op, failed, victim>>
       ELSE Returns(spc = "command")
    /\ UNCHANGED <<daemon, path, term, room, orphans, launched, crashes,
                   process, cacheVars>>

\* The daemon dies in the exchange: an incomplete frame is a protocol error.
ProtocolError ==
    /\ Exchanging /\ Served
    /\ Becomes(path, "dead")
    /\ IF op = "start" /\ process = path
       THEN process' = 0 /\ Returns(TRUE) /\ UNCHANGED term
       ELSE Raise
    /\ UNCHANGED <<path, pending, room, orphans, launched, crashes, cacheVars>>

-----------------------------------------------------------------------------
(* DpdkdSupervisor.stop                                                    *)

\* The history goes with the process, except after a failed start.
Forget ==
    IF op = "start" THEN UNCHANGED cacheVars
    ELSE last_health' = 0 /\ last_exit_code' = FALSE

\* Mutant: stop returns once the signal is sent.
StopNoWait ==
    /\ spc = "idle"
    /\ process' = 0
    /\ term' = IF process = 0 THEN term ELSE term \cup {process}
    /\ last_health' = 0 /\ last_exit_code' = FALSE
    /\ Returns(FALSE)
    /\ UNCHANGED <<daemon, path, pending, room, orphans, launched, crashes>>

Stop ==
    /\ spc = "idle"
    /\ IF ~Running
       THEN StopLocked /\ last_health' = 0 /\ last_exit_code' = FALSE
       ELSE /\ process' = 0 /\ victim' = process
            /\ term' = term \cup {process}
            /\ spc' = "term_wait" /\ op' = "stop"
            /\ UNCHANGED <<seen, failed, cacheVars>>
    /\ UNCHANGED <<daemon, path, pending, room, orphans, launched, crashes>>

\* process.wait returns.
Waited ==
    /\ spc \in {"term_wait", "kill_wait"} /\ ~Alive(victim)
    /\ Forget /\ Returns(op = "start")
    /\ UNCHANGED <<daemonVars, orphans, launched, crashes, process>>

\* Mutant: the process is waited for without a timeout.
TermNeverExpires == FALSE /\ UNCHANGED vars

\* Mutant: a process that ignores SIGTERM is left alone.
TermExpiresNoKill ==
    /\ spc = "term_wait" /\ Alive(victim)
    /\ Forget /\ Returns(op = "start")
    /\ UNCHANGED <<daemonVars, orphans, launched, crashes, process>>

\* The first wait times out: SIGKILL, after which the process runs no code.
TermExpires ==
    /\ spc = "term_wait" /\ Alive(victim)
    /\ Becomes(victim, "killed")
    /\ spc' = "kill_wait"
    /\ UNCHANGED <<path, term, pending, room, orphans, launched, crashes, op,
                   process, victim, seen, cacheVars, failed>>

\* So does the second: TimeoutExpired is raised, the history is kept.
KillExpires ==
    /\ spc = "kill_wait" /\ Alive(victim)
    /\ Returns(TRUE)
    /\ UNCHANGED <<daemonVars, orphans, launched, crashes, process, cacheVars>>

-----------------------------------------------------------------------------
\* The controller is killed and started again: what it knew is lost, what it
\* launched goes on, and a write to its pipe fails instead of blocking.
ControllerCrashes ==
    /\ crashes < MaxCrashes
    /\ crashes' = crashes + 1
    /\ orphans' = {d \in Daemons : d <= launched /\ Alive(d)}
    /\ daemon' = [d \in Daemons |->
                    IF daemon[d] = "stuck" THEN "serving" ELSE daemon[d]]
    /\ process' = 0 /\ last_health' = 0 /\ last_exit_code' = FALSE
    /\ Returns(FALSE)
    /\ UNCHANGED <<path, term, pending, room, launched>>

\* Somebody ends what a crashed controller left behind.
OrphanSignalled(d) ==
    /\ d \in orphans /\ Alive(d) /\ d \notin term
    /\ term' = term \cup {d}
    /\ UNCHANGED <<daemon, path, pending, room, orphans, launched, crashes,
                   callVars>>

-----------------------------------------------------------------------------
DaemonStep(d) ==
    Bind(d) \/ Serve(d) \/ Warn(d) \/ SeesSignal(d) \/ Close(d)

CallStep ==
    \/ WaitPolls \/ WaitExpires \/ Answered \/ Refused \/ TransportError
    \/ ProtocolError \/ Waited \/ TermExpires \/ KillExpires

Next ==
    \/ \E d \in Daemons :
          DaemonStep(d) \/ Interrupted(d) \/ Dies(d) \/ OrphanSignalled(d)
    \/ Launch \/ StartAgain \/ Status \/ Refresh \/ Stop
    \/ CallStep
    \/ ControllerCrashes

Spec == Init /\ [][Next]_vars

\* The thread that runs the call goes on, and time passes: a start that polls
\* over and over meets its deadline.  Nothing is assumed of a daemon.
FairSpec == Spec /\ WF_vars(CallStep) /\ SF_vars(WaitExpires)

-----------------------------------------------------------------------------
(* Properties                                                              *)

\* Whenever no call is in progress, the only processes of this controller
\* that are left are the one it manages and ones that were sent SIGKILL:
\* neither a failed start nor a stop leaves a daemon behind
\* (supervisor.py:114-118, 334-360).
NoStrays ==
    spc = "idle" =>
       \A d \in 1..launched \ orphans :
          Alive(d) => d = process \/ daemon[d] = "killed"

\* The managed daemon is not cut off: as long as it serves, the path names
\* its socket, unless a crashed controller left another daemon that unlinks
\* it (ipc_server.c:110, 267; supervisor.py:334-353).
SocketIsManaged ==
    orphans = {} /\ process # 0 =>
       (daemon[process] \in {"listening", "serving"} => path = process)

\* The health the supervisor keeps and shows is the one of the process it
\* launched last, never of a predecessor that still answered at the shared
\* path; only a daemon left by a crashed controller can be mistaken for it
\* (supervisor.py:95-98, 320-323).
HealthIsOfLastStart == last_health \in {0, launched} \cup orphans

\* start, status, the commands and stop return, although the daemon may be
\* silent, stuck in a log message or deaf to signals
\* (supervisor.py:192-230, 334-353).
CallsReturn == (spc # "idle") ~> (spc = "idle")
=============================================================================
