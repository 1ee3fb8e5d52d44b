------------------------------ MODULE Datapath ------------------------------
(***************************************************************************)
(* The datapath daemon pktlab-dpdkd: its main thread (daemon start-up, the *)
(* serial IPC command loop, shut-down) and the forwarding worker thread    *)
(* they start, pause, observe and join.                                    *)
(*                                                                         *)
(* Program counters name the point of the C code a thread has reached; one *)
(* action is what a thread does between two points at which the other      *)
(* thread can observe or disturb it.  The state shared by the two threads  *)
(* is struct pktlab_datapath: the worker handshake (worker_lock,           *)
(* worker_cond, worker_start_ready/ok), the atomics paused and             *)
(* stop_requested, the mutex-protected counters, and the EAL, port and     *)
(* mempool resources the worker uses but the main thread acquires and      *)
(* releases.                                                               *)
(***************************************************************************)
EXTENDS Integers, FiniteSets

CONSTANTS
    Mbufs,      \* the packet buffers of the datapath mempool
    NoMbuf,     \* what a slot of packets[] outside the current burst holds
    BurstSize,  \* ports.burst_size: most packets of one rx burst
    MaxBursts   \* bound of the model: non-empty rx bursts of one behaviour

ASSUME NoMbufAssumption == NoMbuf \notin Mbufs
ASSUME BurstSizeAssumption == BurstSize \in Nat \ {0}
ASSUME MaxBurstsAssumption == MaxBursts \in Nat

VARIABLES
    mpc,             \* point reached by the main thread
    sigterm,         \* g_stop_requested, set by the signal handler
    health,          \* daemon->health.snapshot
    configured, started, ports_ready, paused, stop_requested,
    held,            \* resources initialised and not yet released
    ports_up,        \* ports.ready
    thread_started, start_ready, start_ok,
    wlock,           \* holder of worker_lock
    wpc,             \* point reached by the worker thread
    registered,      \* the worker is registered with the EAL
    dir,             \* ingress index of forward_direction
    packets, rx_count, index, candidate_count,
    burst,           \* burst_stats
    owner,           \* who owns each mbuf
    stats,           \* stats.snapshot
    slock,           \* holder of stats.lock
    added,           \* fields pktlab_stats_add has added so far
    reply,           \* the counters of the last get_stats answer
    afterPause,      \* history: rx bursts taken since paused was last set
    bursts           \* non-empty rx bursts so far, for MaxBursts

mainVars == <<mpc, sigterm, health>>
flagVars == <<configured, started, ports_ready, paused, stop_requested>>
resVars == <<held, ports_up>>
syncVars == <<thread_started, start_ready, start_ok, wlock>>
workerVars == <<wpc, registered, dir>>
burstVars == <<packets, rx_count, index, candidate_count, burst, owner, bursts>>
statsVars == <<stats, slock, added, reply>>
vars == <<mainVars, flagVars, resVars, syncVars, workerVars, burstVars,
          statsVars, afterPause>>

-----------------------------------------------------------------------------
(* State of the daemon                                                     *)

\* The fields of dp_stats_snapshot, in the order pktlab_stats_add adds them.
FieldOrder == <<"rx_packets", "tx_packets", "drop_packets",
                "drop_parse_errors", "drop_no_match", "rx_bursts",
                "tx_bursts", "unsent_packets">>
Fields == {"rx_packets", "tx_packets", "drop_packets", "drop_parse_errors",
           "drop_no_match", "rx_bursts", "tx_bursts", "unsent_packets"}

NoPackets == [f \in Fields |-> 0]
Slots == 0..(BurstSize - 1)
EmptyBurst == [s \in Slots |-> NoMbuf]

Ports == {"port0", "port1"}
ForwardingResources == {"stats", "sync", "eal", "mempool"} \cup Ports
Resources == ForwardingResources \cup {"socket"}

HealthStates == {"starting", "running", "degraded", "paused", "failed",
                 "stopping"}

\* Points of pktlab_datapath_worker_main at which the thread runs.
InForwardDirection == {"classify", "tx", "stats", "adding"}
Forwarding == {"loop", "pause_check", "rx"} \cup InForwardDirection
Alive == {"boot", "signal", "signalling", "unregister"} \cup Forwarding

MainPoints == {"init", "start", "eal", "ports", "worker", "await", "testing",
               "waiting", "join_failed", "undo", "serve", "poll", "client",
               "cleanup", "join", "release", "exited", "aborted"}

MainType ==
    /\ mpc \in MainPoints
    /\ sigterm \in BOOLEAN
    /\ health \in [state: HealthStates, ports_ready: BOOLEAN, paused: BOOLEAN]

FlagType ==
    /\ configured \in BOOLEAN /\ started \in BOOLEAN
    /\ ports_ready \in BOOLEAN /\ paused \in BOOLEAN
    /\ stop_requested \in BOOLEAN

ResourceType == held \subseteq Resources /\ ports_up \in BOOLEAN

HandshakeType ==
    /\ thread_started \in BOOLEAN
    /\ start_ready \in BOOLEAN /\ start_ok \in BOOLEAN
    /\ wlock \in {"free", "main", "worker"}

WorkerType ==
    /\ wpc \in {"none", "done"} \cup Alive
    /\ registered \in BOOLEAN
    /\ dir \in 0..1

BurstType ==
    /\ packets \in [Slots -> Mbufs \cup {NoMbuf}]
    /\ rx_count \in 0..BurstSize
    /\ index \in 0..BurstSize
    /\ candidate_count \in 0..BurstSize
    /\ burst \in [Fields -> Nat]
    /\ owner \in [Mbufs -> {"pool", "app", "nic"}]
    /\ bursts \in Nat

StatsType ==
    /\ stats \in [Fields -> Nat]
    /\ slock \in {"free", "worker"}
    /\ added \in 0..8
    /\ reply \in [Fields -> Nat]

\* Every variable of the daemon stays in its type; in particular the indexes
\* into packets[] stay within the burst and no counter goes below zero
\* (datapath.c:144-206).
TypeOK ==
    /\ MainType /\ FlagType /\ ResourceType /\ HandshakeType
    /\ WorkerType /\ BurstType /\ StatsType
    /\ afterPause \in Nat

Init ==
    /\ mpc = "init"
    /\ sigterm = FALSE
    /\ health = [state |-> "starting", ports_ready |-> FALSE, paused |-> FALSE]
    /\ configured = FALSE /\ started = FALSE
    /\ ports_ready = FALSE /\ paused = FALSE /\ stop_requested = FALSE
    /\ held = {} /\ ports_up = FALSE
    /\ thread_started = FALSE /\ start_ready = FALSE /\ start_ok = FALSE
    /\ wlock = "free"
    /\ wpc = "none" /\ registered = FALSE /\ dir = 0
    /\ packets = EmptyBurst
    /\ rx_count = 0 /\ index = 0 /\ candidate_count = 0
    /\ burst = NoPackets
    /\ owner = [m \in Mbufs |-> "pool"]
    /\ stats = NoPackets /\ slock = "free" /\ added = 0
    /\ reply = NoPackets
    /\ afterPause = 0 /\ bursts = 0

-----------------------------------------------------------------------------
(* Main thread: start-up                                                   *)

\* pktlab_daemon_init succeeds: the counters, the configuration and the
\* listening socket exist before the datapath is started.
DaemonInit ==
    /\ mpc = "init"
    /\ mpc' = "start"
    /\ configured' = TRUE
    /\ held' = {"stats", "socket"}
    /\ UNCHANGED <<sigterm, health, started, ports_ready, paused,
                   stop_requested, ports_up, syncVars, workerVars, burstVars,
                   statsVars, afterPause>>

\* pktlab_daemon_init fails and main returns without cleanup: preparing the
\* datapath destroys the counters again, a failed socket leaves them behind.
DaemonInitFails ==
    /\ mpc = "init"
    /\ mpc' = "aborted"
    /\ health' = [health EXCEPT !.state = "failed"]
    /\ \E socketFailed \in BOOLEAN :
          /\ configured' = socketFailed
          /\ held' = IF socketFailed THEN {"stats"} ELSE {}
    /\ UNCHANGED <<sigterm, started, ports_ready, paused, stop_requested,
                   ports_up, syncVars, workerVars, burstVars, statsVars,
                   afterPause>>

\* pktlab_daemon_refresh_started_health
StartedHealth(ready, isPaused) ==
    [state |-> IF ready THEN "running" ELSE "degraded",
     ports_ready |-> ready, paused |-> isPaused]

\* pktlab_datapath_start without libdpdk or without root: nothing is started
\* but the daemon serves, in state degraded.
StartDegraded ==
    /\ mpc = "start"
    /\ mpc' = "serve"
    /\ started' = TRUE
    /\ ports_ready' = FALSE /\ paused' = FALSE
    /\ health' = StartedHealth(FALSE, FALSE)
    /\ UNCHANGED <<sigterm, configured, stop_requested, resVars, syncVars,
                   workerVars, burstVars, statsVars, afterPause>>

EalStart ==
    /\ mpc = "start"
    /\ mpc' = "ports"
    /\ ports_ready' = FALSE /\ paused' = FALSE
    /\ held' = held \cup {"eal"}
    /\ UNCHANGED <<sigterm, health, configured, started, stop_requested,
                   ports_up, syncVars, workerVars, burstVars, statsVars,
                   afterPause>>

\* A failed pktlab_datapath_start: daemon_run sets the failed state and main
\* goes on to pktlab_daemon_cleanup.
RunFails == mpc' = "cleanup" /\ health' = [health EXCEPT !.state = "failed"]

EalStartFails ==
    /\ mpc = "start"
    /\ RunFails
    /\ ports_ready' = FALSE /\ paused' = FALSE
    /\ UNCHANGED <<sigterm, configured, started, stop_requested, resVars,
                   syncVars, workerVars, burstVars, statsVars, afterPause>>

PortsStart ==
    /\ mpc = "ports"
    /\ mpc' = "worker"
    /\ held' = held \cup {"mempool"} \cup Ports
    /\ ports_up' = TRUE
    /\ UNCHANGED <<sigterm, health, flagVars, syncVars, workerVars, burstVars,
                   statsVars, afterPause>>

\* Mutant: a failed pktlab_ports_start is not undone before datapath_start
\* returns.
PortsStartFailsNoUndo ==
    /\ mpc = "ports"
    /\ RunFails
    /\ \E part \in {{}, {"mempool"}, {"mempool", "port0"}} :
          held' = held \cup part
    /\ UNCHANGED <<sigterm, flagVars, ports_up, syncVars, workerVars,
                   burstVars, statsVars, afterPause>>

\* pktlab_ports_start fails with the pool missing, or with the pool and some
\* prefix of the ports attached.
PortsStartFails ==
    /\ mpc = "ports"
    /\ mpc' = "undo"
    /\ \E part \in {{}, {"mempool"}, {"mempool", "port0"},
                    {"mempool", "port0", "port1"}} :
          held' = held \cup part
    /\ UNCHANGED <<sigterm, health, flagVars, ports_up, syncVars, workerVars,
                   burstVars, statsVars, afterPause>>

\* pktlab_datapath_start_worker up to a successful pthread_create: the flags
\* and the counters are reset before the thread exists.
StartWorker ==
    /\ mpc = "worker" /\ slock = "free"
    /\ mpc' = "await"
    /\ held' = held \cup {"sync"}
    /\ stop_requested' = FALSE /\ paused' = FALSE
    /\ start_ready' = FALSE /\ start_ok' = FALSE
    /\ stats' = NoPackets
    /\ thread_started' = TRUE
    /\ wpc' = "boot"
    /\ UNCHANGED <<sigterm, health, configured, started, ports_ready, ports_up,
                   wlock, registered, dir, burstVars, slock, added, reply,
                   afterPause>>

\* The worker's mutex or condition variable, or pthread_create itself, fails.
StartWorkerFails ==
    /\ mpc = "worker" /\ slock = "free"
    /\ mpc' = "undo"
    /\ \E syncFailed \in BOOLEAN :
          IF syncFailed
          THEN UNCHANGED <<held, stop_requested, paused, start_ready,
                           start_ok, stats>>
          ELSE /\ held' = held \cup {"sync"}
               /\ stop_requested' = FALSE /\ paused' = FALSE
               /\ start_ready' = FALSE /\ start_ok' = FALSE
               /\ stats' = NoPackets
    /\ UNCHANGED <<sigterm, health, configured, started, ports_ready, ports_up,
                   thread_started, wlock, workerVars, burstVars, slock, added,
                   reply, afterPause>>

\* pthread_mutex_lock before the wait loop, and the reacquisition of the
\* mutex when pthread_cond_wait returns.
AwaitLock ==
    /\ mpc = "await" /\ wlock = "free"
    /\ mpc' = "testing" /\ wlock' = "main"
    /\ UNCHANGED <<sigterm, health, flagVars, resVars, thread_started,
                   start_ready, start_ok, workerVars, burstVars, statsVars,
                   afterPause>>

\* while (!worker_start_ready) pthread_cond_wait: the mutex is released as
\* the thread starts to wait.
AwaitSleep ==
    /\ mpc = "testing" /\ ~start_ready
    /\ mpc' = "waiting" /\ wlock' = "free"
    /\ UNCHANGED <<sigterm, health, flagVars, resVars, thread_started,
                   start_ready, start_ok, workerVars, burstVars, statsVars,
                   afterPause>>

\* pthread_cond_wait may return without a signal.
SpuriousWakeup ==
    /\ mpc = "waiting"
    /\ mpc' = "await"
    /\ UNCHANGED <<sigterm, health, flagVars, resVars, syncVars, workerVars,
                   burstVars, statsVars, afterPause>>

\* The worker registered: pktlab_datapath_start succeeds, the health follows.
WorkerStarted ==
    /\ mpc = "testing" /\ start_ready /\ start_ok
    /\ mpc' = "serve" /\ wlock' = "free"
    /\ ports_ready' = ports_up /\ started' = TRUE
    /\ health' = StartedHealth(ports_up, paused)
    /\ UNCHANGED <<sigterm, configured, paused, stop_requested, resVars,
                   thread_started, start_ready, start_ok, workerVars,
                   burstVars, statsVars, afterPause>>

\* The worker could not register: it is told to stop and joined.
WorkerRefused ==
    /\ mpc = "testing" /\ start_ready /\ ~start_ok
    /\ mpc' = "join_failed" /\ wlock' = "free"
    /\ stop_requested' = TRUE
    /\ UNCHANGED <<sigterm, health, configured, started, ports_ready, paused,
                   resVars, thread_started, start_ready, start_ok, workerVars,
                   burstVars, statsVars, afterPause>>

JoinRefused ==
    /\ mpc = "join_failed" /\ wpc = "done"
    /\ mpc' = "undo"
    /\ thread_started' = FALSE
    /\ UNCHANGED <<sigterm, health, flagVars, resVars, start_ready, start_ok,
                   wlock, workerVars, burstVars, statsVars, afterPause>>

\* pktlab_ports_cleanup and pktlab_eal_cleanup: every attached port is closed
\* (its queued mbufs return to the pool), then the pool, then the EAL.
ReleasePortsAndEal ==
    /\ held' = held \ ({"mempool", "eal"} \cup Ports)
    /\ ports_up' = FALSE
    /\ owner' = [m \in Mbufs |-> IF owner[m] = "nic" THEN "pool" ELSE owner[m]]

\* pktlab_datapath_start undoes what it acquired and fails.
UndoStart ==
    /\ mpc = "undo"
    /\ RunFails
    /\ ReleasePortsAndEal
    /\ UNCHANGED <<sigterm, flagVars, syncVars, workerVars, packets, rx_count,
                   index, candidate_count, burst, bursts, statsVars,
                   afterPause>>

-----------------------------------------------------------------------------
(* Main thread: the IPC server                                             *)

\* The stop flag is read only here, between two clients.
ServePoll ==
    /\ mpc = "serve" /\ ~sigterm
    /\ mpc' = "poll"
    /\ UNCHANGED <<sigterm, health, flagVars, resVars, syncVars, workerVars,
                   burstVars, statsVars, afterPause>>

\* poll() times out or is interrupted, or the accept fails.
PollTimeout ==
    /\ mpc = "poll"
    /\ mpc' = "serve"
    /\ UNCHANGED <<sigterm, health, flagVars, resVars, syncVars, workerVars,
                   burstVars, statsVars, afterPause>>

PollError ==
    /\ mpc = "poll"
    /\ RunFails
    /\ UNCHANGED <<sigterm, flagVars, resVars, syncVars, workerVars, burstVars,
                   statsVars, afterPause>>

Accept ==
    /\ mpc = "poll"
    /\ mpc' = "client"
    /\ UNCHANGED <<sigterm, health, flagVars, resVars, syncVars, workerVars,
                   burstVars, statsVars, afterPause>>

\* The client closes its connection, or a frame cannot be read or written.
Hangup ==
    /\ mpc = "client"
    /\ mpc' = "serve"
    /\ UNCHANGED <<sigterm, health, flagVars, resVars, syncVars, workerVars,
                   burstVars, statsVars, afterPause>>

\* pktlab_datapath_require_active_forwarding.  Pause and resume answer with a
\* state-conflict error, and change nothing, when it does not hold; ping,
\* get_version, get_health and get_ports never change anything.
ActiveForwarding == started /\ ports_ready

\* pause_datapath.  afterPause counts from the exchange that set the flag.
Pause ==
    /\ mpc = "client" /\ ActiveForwarding
    /\ paused' = TRUE
    /\ health' = [state |-> "paused", ports_ready |-> ports_ready,
                  paused |-> TRUE]
    /\ afterPause' = IF paused THEN afterPause ELSE 0
    /\ UNCHANGED <<mpc, sigterm, configured, started, ports_ready,
                   stop_requested, resVars, syncVars, workerVars, burstVars,
                   statsVars>>

\* Mutant: resume answers without refreshing the health tracker.
ResumeKeepsHealth ==
    /\ mpc = "client" /\ ActiveForwarding
    /\ paused' = FALSE
    /\ afterPause' = 0
    /\ UNCHANGED <<mainVars, configured, started, ports_ready, stop_requested,
                   resVars, syncVars, workerVars, burstVars, statsVars>>

Resume ==
    /\ mpc = "client" /\ ActiveForwarding
    /\ paused' = FALSE
    /\ health' = StartedHealth(ports_ready, FALSE)
    /\ afterPause' = 0
    /\ UNCHANGED <<mpc, sigterm, configured, started, ports_ready,
                   stop_requested, resVars, syncVars, workerVars, burstVars,
                   statsVars>>

\* Mutant: reset_stats clears the counters without taking stats.lock.
ResetStatsUnlocked ==
    /\ mpc = "client"
    /\ stats' = NoPackets
    /\ UNCHANGED <<mainVars, flagVars, resVars, syncVars, workerVars,
                   burstVars, slock, added, reply, afterPause>>

ResetStats ==
    /\ mpc = "client" /\ slock = "free"
    /\ stats' = NoPackets
    /\ UNCHANGED <<mainVars, flagVars, resVars, syncVars, workerVars,
                   burstVars, slock, added, reply, afterPause>>

\* Mutant: get_stats copies the counters without taking stats.lock.
GetStatsUnlocked ==
    /\ mpc = "client"
    /\ reply' = stats
    /\ UNCHANGED <<mainVars, flagVars, resVars, syncVars, workerVars,
                   burstVars, stats, slock, added, afterPause>>

GetStats ==
    /\ mpc = "client" /\ slock = "free"
    /\ reply' = stats
    /\ UNCHANGED <<mainVars, flagVars, resVars, syncVars, workerVars,
                   burstVars, stats, slock, added, afterPause>>

-----------------------------------------------------------------------------
(* Main thread: shut-down                                                  *)

\* SIGTERM or SIGINT, at any time.
StopSignal ==
    /\ ~sigterm
    /\ sigterm' = TRUE
    /\ UNCHANGED <<mpc, health, flagVars, resVars, syncVars, workerVars,
                   burstVars, statsVars, afterPause>>

\* The IPC server returns 0 and daemon_run records that it is stopping.
LeaveServe ==
    /\ mpc = "serve" /\ sigterm
    /\ mpc' = "cleanup"
    /\ health' = [health EXCEPT !.state = "stopping"]
    /\ UNCHANGED <<sigterm, flagVars, resVars, syncVars, workerVars, burstVars,
                   statsVars, afterPause>>

\* Mutant: the worker is told to stop but never joined.
CleanupStopNoJoin ==
    /\ mpc = "cleanup"
    /\ mpc' = "release"
    /\ stop_requested' = TRUE
    /\ thread_started' = FALSE
    /\ UNCHANGED <<sigterm, health, configured, started, ports_ready, paused,
                   resVars, start_ready, start_ok, wlock, workerVars,
                   burstVars, statsVars, afterPause>>

\* pktlab_datapath_stop_worker up to the join; nothing to do without a thread.
CleanupStop ==
    /\ mpc = "cleanup"
    /\ mpc' = IF thread_started THEN "join" ELSE "release"
    /\ stop_requested' = (stop_requested \/ thread_started)
    /\ UNCHANGED <<sigterm, health, configured, started, ports_ready, paused,
                   resVars, syncVars, workerVars, burstVars, statsVars,
                   afterPause>>

CleanupJoin ==
    /\ mpc = "join" /\ wpc = "done"
    /\ mpc' = "release"
    /\ thread_started' = FALSE
    /\ start_ready' = FALSE /\ start_ok' = FALSE
    /\ paused' = FALSE
    /\ afterPause' = 0
    /\ UNCHANGED <<sigterm, health, configured, started, ports_ready,
                   stop_requested, resVars, wlock, workerVars, burstVars,
                   statsVars>>

\* The rest of pktlab_datapath_cleanup, then pktlab_ipc_server_close.
CleanupRelease ==
    /\ mpc = "release"
    /\ mpc' = "exited"
    /\ held' = {}
    /\ ports_up' = FALSE
    /\ owner' = [m \in Mbufs |-> IF owner[m] = "nic" THEN "pool" ELSE owner[m]]
    /\ ports_ready' = FALSE /\ started' = FALSE /\ configured' = FALSE
    /\ UNCHANGED <<sigterm, health, paused, stop_requested, syncVars,
                   workerVars, packets, rx_count, index, candidate_count,
                   burst, bursts, statsVars, afterPause>>

-----------------------------------------------------------------------------
(* Worker thread                                                           *)

\* rte_thread_register, which may fail.
Register ==
    /\ wpc = "boot"
    /\ wpc' = "signal"
    /\ registered' \in BOOLEAN
    /\ UNCHANGED <<mainVars, flagVars, resVars, syncVars, dir, burstVars,
                   statsVars, afterPause>>

SignalLock ==
    /\ wpc = "signal" /\ wlock = "free"
    /\ wpc' = "signalling" /\ wlock' = "worker"
    /\ UNCHANGED <<mainVars, flagVars, resVars, thread_started, start_ready,
                   start_ok, registered, dir, burstVars, statsVars,
                   afterPause>>

\* Mutant: the flags are set but the condition variable is not signalled.
SignalNobody ==
    /\ wpc = "signalling"
    /\ wpc' = IF registered THEN "loop" ELSE "done"
    /\ wlock' = "free"
    /\ start_ok' = registered /\ start_ready' = TRUE
    /\ UNCHANGED <<mainVars, flagVars, resVars, thread_started, registered,
                   dir, burstVars, statsVars, afterPause>>

\* pktlab_datapath_signal_worker_start under worker_lock: the outcome, the
\* signal to a waiting main thread, the unlock.  An unregistered worker
\* returns, a registered one enters its loop.
Signal ==
    /\ wpc = "signalling"
    /\ wpc' = IF registered THEN "loop" ELSE "done"
    /\ wlock' = "free"
    /\ start_ok' = registered /\ start_ready' = TRUE
    /\ mpc' = IF mpc = "waiting" THEN "await" ELSE mpc
    /\ UNCHANGED <<sigterm, health, flagVars, resVars, thread_started,
                   registered, dir, burstVars, statsVars, afterPause>>

\* while (!stop_requested)
Loop ==
    /\ wpc = "loop"
    /\ wpc' = IF stop_requested THEN "unregister" ELSE "pause_check"
    /\ UNCHANGED <<mainVars, flagVars, resVars, syncVars, registered, dir,
                   burstVars, statsVars, afterPause>>

\* Mutant: a paused worker sleeps but then forwards anyway.
PauseCheckFallsThrough ==
    /\ wpc = "pause_check"
    /\ wpc' = "rx"
    /\ UNCHANGED <<mainVars, flagVars, resVars, syncVars, registered, dir,
                   burstVars, statsVars, afterPause>>

\* Mutant: a paused worker waits for the resume without looking at
\* stop_requested again.
PauseCheckSpins ==
    /\ wpc = "pause_check"
    /\ wpc' = IF paused THEN "pause_check" ELSE "rx"
    /\ UNCHANGED <<mainVars, flagVars, resVars, syncVars, registered, dir,
                   burstVars, statsVars, afterPause>>

\* The paused flag is read once per iteration, for both directions.
PauseCheck ==
    /\ wpc = "pause_check"
    /\ wpc' = IF paused THEN "loop" ELSE "rx"
    /\ UNCHANGED <<mainVars, flagVars, resVars, syncVars, registered, dir,
                   burstVars, statsVars, afterPause>>

\* Direction 0->1 is followed by direction 1->0, then by the loop test.
NextDirection ==
    /\ wpc' = IF dir = 0 THEN "rx" ELSE "loop"
    /\ dir' = 1 - dir

RxEmpty ==
    /\ wpc = "rx"
    /\ NextDirection
    /\ UNCHANGED <<mainVars, flagVars, resVars, syncVars, registered,
                   burstVars, statsVars, afterPause>>

\* rte_eth_rx_burst hands n distinct mbufs of the pool to the worker.
RxBurst ==
    /\ wpc = "rx" /\ bursts < MaxBursts
    /\ \E n \in 1..BurstSize :
       \E received \in [0..(n - 1) -> {m \in Mbufs : owner[m] = "pool"}] :
          /\ \A i, j \in 0..(n - 1) : i # j => received[i] # received[j]
          /\ packets' = [s \in Slots |-> IF s < n THEN received[s] ELSE NoMbuf]
          /\ owner' = [m \in Mbufs |->
                         IF \E i \in 0..(n - 1) : received[i] = m
                         THEN "app" ELSE owner[m]]
          /\ rx_count' = n
          /\ burst' = [NoPackets EXCEPT !["rx_packets"] = n,
                                        !["rx_bursts"] = 1]
    /\ index' = 0 /\ candidate_count' = 0
    /\ wpc' = "classify"
    /\ bursts' = bursts + 1
    /\ afterPause' = IF paused THEN afterPause + 1 ELSE afterPause
    /\ UNCHANGED <<mainVars, flagVars, resVars, syncVars, registered, dir,
                   statsVars>>

\* pktlab_parser_parse rejects packets[index]: it is counted and freed.
DropMalformed ==
    /\ wpc = "classify" /\ index < rx_count
    /\ owner' = [owner EXCEPT ![packets[index]] = "pool"]
    /\ burst' = [burst EXCEPT !["drop_parse_errors"] = @ + 1,
                              !["drop_packets"] = @ + 1]
    /\ index' = index + 1
    /\ UNCHANGED <<mainVars, flagVars, resVars, syncVars, workerVars, packets,
                   rx_count, candidate_count, bursts, statsVars, afterPause>>

\* Mutant: the candidate is counted but not moved to the front.
KeepInPlace ==
    /\ wpc = "classify" /\ index < rx_count
    /\ candidate_count' = candidate_count + 1
    /\ index' = index + 1
    /\ UNCHANGED <<mainVars, flagVars, resVars, syncVars, workerVars, packets,
                   rx_count, burst, owner, bursts, statsVars, afterPause>>

\* packets[candidate_count++] = packets[index]
KeepCandidate ==
    /\ wpc = "classify" /\ index < rx_count
    /\ packets' = [packets EXCEPT ![candidate_count] = packets[index]]
    /\ candidate_count' = candidate_count + 1
    /\ index' = index + 1
    /\ UNCHANGED <<mainVars, flagVars, resVars, syncVars, workerVars, rx_count,
                   burst, owner, bursts, statsVars, afterPause>>

\* With no candidate left there is nothing to transmit.
ClassifyEnd ==
    /\ wpc = "classify" /\ index = rx_count
    /\ wpc' = IF candidate_count = 0 THEN "stats" ELSE "tx"
    /\ UNCHANGED <<mainVars, flagVars, resVars, syncVars, registered, dir,
                   burstVars, statsVars, afterPause>>

\* Mutant: the unsent packets are freed but not counted as dropped.
SentStatsNoDrop(sent) ==
    [burst EXCEPT !["tx_bursts"] = 1,
                  !["tx_packets"] = sent,
                  !["unsent_packets"] = candidate_count - sent]

\* Mutant: the operands of the unsent count are swapped.
SentStatsSwapped(sent) ==
    [burst EXCEPT !["tx_bursts"] = 1,
                  !["tx_packets"] = sent,
                  !["unsent_packets"] = sent - candidate_count,
                  !["drop_packets"] = @ + (sent - candidate_count)]

\* The counters of a burst of which sent candidates were transmitted.
SentStats(sent) ==
    [burst EXCEPT !["tx_bursts"] = 1,
                  !["tx_packets"] = sent,
                  !["unsent_packets"] = candidate_count - sent,
                  !["drop_packets"] = @ + (candidate_count - sent)]

\* pktlab_actions_forward_burst: the port takes a prefix of the candidates,
\* the rest is freed.
TxBurst ==
    /\ wpc = "tx"
    /\ \E sent \in 0..candidate_count :
          /\ owner' = [m \in Mbufs |->
                IF \E s \in Slots : s < sent /\ packets[s] = m THEN "nic"
                ELSE IF \E s \in Slots : s < candidate_count /\ packets[s] = m
                     THEN "pool" ELSE owner[m]]
          /\ burst' = SentStats(sent)
    /\ wpc' = "stats"
    /\ UNCHANGED <<mainVars, flagVars, resVars, syncVars, registered, dir,
                   packets, rx_count, index, candidate_count, bursts,
                   statsVars, afterPause>>

\* pktlab_stats_add takes stats.lock ...
StatsLock ==
    /\ wpc = "stats" /\ slock = "free"
    /\ wpc' = "adding" /\ slock' = "worker" /\ added' = 0
    /\ UNCHANGED <<mainVars, flagVars, resVars, syncVars, registered, dir,
                   burstVars, stats, reply, afterPause>>

\* ... adds one field after the other ...
StatsAddField ==
    /\ wpc = "adding" /\ added < 8
    /\ LET f == FieldOrder[added + 1]
       IN  stats' = [stats EXCEPT ![f] = @ + burst[f]]
    /\ added' = added + 1
    /\ UNCHANGED <<mainVars, flagVars, resVars, syncVars, workerVars,
                   burstVars, slock, reply, afterPause>>

\* ... and releases it; forward_direction returns and its locals die.
StatsUnlock ==
    /\ wpc = "adding" /\ added = 8
    /\ slock' = "free" /\ added' = 0
    /\ NextDirection
    /\ packets' = EmptyBurst
    /\ rx_count' = 0 /\ index' = 0 /\ candidate_count' = 0
    /\ burst' = NoPackets
    /\ UNCHANGED <<mainVars, flagVars, resVars, syncVars, registered, owner,
                   bursts, stats, reply, afterPause>>

Unregister ==
    /\ wpc = "unregister"
    /\ wpc' = "done" /\ registered' = FALSE
    /\ UNCHANGED <<mainVars, flagVars, resVars, syncVars, dir, burstVars,
                   statsVars, afterPause>>

\* The port has put a packet on the wire and returns its mbuf to the pool.
TxDone ==
    /\ "mempool" \in held
    /\ \E m \in Mbufs : /\ owner[m] = "nic"
                        /\ owner' = [owner EXCEPT ![m] = "pool"]
    /\ UNCHANGED <<mainVars, flagVars, resVars, syncVars, workerVars, packets,
                   rx_count, index, candidate_count, burst, bursts, statsVars,
                   afterPause>>

Terminated == mpc \in {"exited", "aborted"} /\ UNCHANGED vars

-----------------------------------------------------------------------------
(* The system                                                              *)

StartUp ==
    \/ DaemonInit \/ DaemonInitFails \/ StartDegraded \/ EalStart
    \/ EalStartFails \/ PortsStart \/ PortsStartFails \/ StartWorker
    \/ StartWorkerFails \/ AwaitLock \/ AwaitSleep \/ WorkerStarted
    \/ WorkerRefused \/ JoinRefused \/ UndoStart

ShutDown == LeaveServe \/ CleanupStop \/ CleanupJoin \/ CleanupRelease

\* What the main thread does by itself.
MainStep == StartUp \/ ServePoll \/ PollTimeout \/ PollError \/ ShutDown

\* What a client makes it do.
Request == Accept \/ Pause \/ Resume \/ ResetStats \/ GetStats

WorkerStep ==
    \/ Register \/ SignalLock \/ Signal \/ Loop \/ PauseCheck \/ RxEmpty
    \/ RxBurst \/ DropMalformed \/ KeepCandidate \/ ClassifyEnd \/ TxBurst
    \/ StatsLock \/ StatsAddField \/ StatsUnlock \/ Unregister

Next ==
    \/ MainStep \/ Request \/ Hangup \/ WorkerStep
    \/ StopSignal \/ SpuriousWakeup \/ TxDone \/ Terminated

Spec == Init /\ [][Next]_vars

\* Both threads are scheduled, and a client closes its connection in the end:
\* the controller's client opens one connection per exchange, with a timeout.
\* Spurious wake-ups of the main thread do not keep the worker out of
\* worker_lock for ever.  Nothing is assumed of requests, signals and ports.
Fairness ==
    /\ WF_vars(MainStep)
    /\ WF_vars(WorkerStep)
    /\ SF_vars(SignalLock)
    /\ WF_vars(Hangup)

FairSpec == Spec /\ Fairness

-----------------------------------------------------------------------------
(* Safety properties                                                       *)

\* The worker runs only while everything it dereferences exists: counters,
\* handshake mutex, EAL, mempool and both ports.  The main thread releases
\* them on four paths (two failed starts, a refused worker, shut-down), each
\* of which must have joined the worker first (datapath.c:302-311, 408-418,
\* 438-442).
NoUseAfterRelease ==
    /\ wpc \in Alive => ForwardingResources \subseteq held
    /\ registered => wpc \in Alive
    /\ wlock # "free" => "sync" \in held

\* The live slots of packets[]: the candidates kept at the front and the
\* received packets not looked at yet.
LiveSlots ==
    IF wpc \in {"classify", "tx"}
    THEN {s \in Slots : s < candidate_count \/ (index <= s /\ s < rx_count)}
    ELSE {}

\* In-place compaction neither leaks an mbuf nor frees one twice: at every
\* point of a burst the mbufs the worker owns are exactly those in the live
\* slots of packets[], each once, and it owns none between two bursts
\* (datapath.c:171-195, actions.c:22-45).
MbufAccounting ==
    /\ \A s \in LiveSlots : packets[s] \in Mbufs /\ owner[packets[s]] = "app"
    /\ \A s, t \in LiveSlots : packets[s] = packets[t] => s = t
    /\ \A m \in Mbufs : owner[m] = "app" => \E s \in LiveSlots : packets[s] = m

\* Every received packet is accounted for once.
Conserved(c) ==
    /\ c["rx_packets"] = c["tx_packets"] + c["drop_packets"]
    /\ c["drop_packets"] = c["drop_parse_errors"] + c["drop_no_match"]
                           + c["unsent_packets"]
    /\ c["tx_bursts"] <= c["rx_bursts"]

\* The counters a client reads add up, although the worker adds the eight
\* fields of a burst one by one and a client may reset them at any time
\* (stats.c:26-71).
StatsConserved == Conserved(reply) /\ (slock = "free" => Conserved(stats))

\* A pause is acknowledged at once but read by the worker only between two
\* iterations: at most two more bursts, one per direction, are received
\* after it (datapath.c:236-251, 518).
PauseBound == afterPause <= 2

\* While the daemon serves, the health it reports is the state of the
\* datapath, and "running" or "paused" is reported only with a registered
\* worker in its loop (daemon.c:22-43, datapath.c:421-429).
HealthTruth ==
    mpc \in {"serve", "poll", "client"} =>
       /\ health.ports_ready = ports_ready
       /\ health.paused = paused
       /\ health.state = IF ~ports_ready THEN "degraded"
                         ELSE IF paused THEN "paused" ELSE "running"
       /\ ports_ready => /\ registered /\ wpc \in Forwarding
                         /\ ForwardingResources \subseteq held
       /\ ~ports_ready => wpc = "none"

\* A start that fails half-way leaves no port, pool, EAL or thread behind by
\* the time pktlab_datapath_start has returned (datapath.c:408-418).
FailedStartReleases ==
    (mpc = "cleanup" /\ ~started) =>
       /\ held \cap ({"eal", "mempool"} \cup Ports) = {}
       /\ wpc \in {"none", "done"} /\ ~thread_started

-----------------------------------------------------------------------------
(* Liveness properties                                                     *)

\* The start handshake ends: no wake-up is lost, whichever of the two threads
\* takes worker_lock first (datapath.c:123-141, 296-300).
HandshakeCompletes == (mpc = "await") ~> (mpc \in {"serve", "undo"})

\* A stop signal ends the daemon, from every point of its start-up and of
\* its service, paused or not (main.c:14-18, ipc_server.c:219, datapath.c:317).
ShutdownCompletes == sigterm ~> (mpc \in {"exited", "aborted"})

\* A pause that lasts is obeyed: after the iteration in which it was set the
\* worker never again polls a port or touches a packet (datapath.c:236-251).
PauseTakesEffect ==
    <>[]paused => <>[](wpc \notin {"rx"} \cup InForwardDirection)

-----------------------------------------------------------------------------
(* The counters implement an atomic ledger                                 *)

\* What the counters will be once the burst being added is complete: the
\* whole burst counts from the moment the worker has stats.lock.
Committed ==
    [f \in Fields |->
       IF wpc = "adding" /\ (\E k \in 1..8 : k > added /\ FieldOrder[k] = f)
       THEN stats[f] + burst[f] ELSE stats[f]]

Ledger == INSTANCE StatsLedger WITH ledger <- Committed, answer <- reply

\* Clients see the counters of StatsLedger: bursts are added, cleared and read
\* as a whole.
ImplementsLedger == Ledger!Spec
=============================================================================
