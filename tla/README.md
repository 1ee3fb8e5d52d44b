# pktlab in TLA+

pktlab builds a small network lab out of Linux namespaces, runs a DPDK
forwarding daemon inside it and drives both from a controller. This directory
holds TLA+ models of the parts of it that keep state, TLC configurations that
check them on small instances, and TLAPS proofs that their safety properties
hold on every instance.
Paths below are relative to `src/` of the repository.

    tlc -config DatapathControl.cfg MCDatapath     # a run
    tlapm DatapathProofs.tla                       # a proof module

`PROJECT.json` lists the runs, the line of code behind every definition
(`map`), the hazards of the code, and for each property a mutated definition
under which the property fails. The mutated forms are the definitions that
nothing else refers to, placed before the definition they vary
(`ReleaseForgotten` before `Release`, for instance).

## 1. The system

| Component | State | Operations |
|---|---|---|
| **pktlab-dpdkd, life cycle** (`dpdkd/src/main.c`, `daemon.c`, `datapath.c`, `eal.c`, `ports.c`) | flags `configured`, `started`, `ports_ready`, atomics `paused`, `stop_requested`; EAL, mempool, ports, mutexes; start handshake (`worker_lock`, `worker_cond`, `start_ready`, `start_ok`); health snapshot | init, start (EAL, ports, worker), pause, resume, stop, release; signal handler |
| **pktlab-dpdkd, forwarding worker** (`datapath.c`, `actions.c`, `parser.c`, `stats.c`) | `packets[]` with its indexes, counters of the burst, eight counters under `stats.lock` | loop over the two directions: receive, classify, transmit, add to the counters |
| **IPC server** (`ipc_server.c`, `daemon.c`) | listening socket and backlog, the client being served | listen, poll, accept, read a frame, dispatch, write |
| **IPC client** (`ctrld/pktlab_ctrld/dpdk_client/`) | one connection per exchange | connect, send, receive, time out |
| **Controller runtime** (`ctrld/pktlab_ctrld/app.py`) | desired state, observed state, controller state and override, runtime lock | start, stop, apply, destroy, health, stats, reset, pause, resume |
| **Datapath supervisor** (`process/supervisor.py`) | process handle, cached health, version and exit code; the daemon's stderr pipe and the socket path all daemons share | start (spawn, readiness loop), status, commands, stop (SIGTERM, SIGKILL) |
| **Topology manager** (`topology/manager.py`) | `_current`, manager lock; the kernel's namespaces, links, bridges, addresses and routes | apply (with replacement and clean-up), destroy |
| **Topology helpers** (`topology/*.py`, `util/netns.py`, `util/subprocess.py`) | none of their own | create, delete and configure one kind of kernel object, behind a query |
| **Validation and runtime profile** (`config/validation.py`, `app.py`; `main.c`, `eal.c`, `ports.c`) | none | accept or reject a document; derive defaults; parse and check again in the daemon |
| **HTTP API** (`api/`) | none | lifespan hooks, requests on a thread pool, errors to HTTP codes |
| **Command line client** (`ctl/pktlabctl/`) | none between commands | one request per command, timeout, exit code |
| **Reconcile planner** (`state/reconcile.py`) | none | actions that lead from an observed to a desired state |
| Configuration loading, JSON text handling, placeholders | see section 8 | |

**Interaction.** An operator's `pktlabctl` sends HTTP requests and waits two
seconds for each; a request whose client is gone goes on. Requests call the
runtime on threads of a pool. Apply and destroy take the manager lock, then,
through callbacks into the runtime, the runtime lock for each call of the
supervisor; the runtime's `stop` takes the two locks in the other order. The
supervisor starts the daemon as a child process and talks to it through the
client, one connection and one timeout per exchange. The daemon's main thread
serves one connection at a time and shares flags, counters and DPDK resources
with its worker thread. The manager changes the kernel with `ip` commands and
waits for the TAP interfaces the daemon creates.

**What is hard.** The two locks and the sections of apply and destroy that
hold neither; the steps of an apply, each of which can fail, and so can the
clean-up; a datapath that dies, refuses to die, answers late or hangs in a log
message; a controller that dies and leaves its datapath behind; commands and
requests that are executed after their client gave up; the life time of what
the worker uses; packets compacted in place; counters added field by field
while clients read and reset them; values checked twice with different limits.
Each is a hazard in `PROJECT.json`, at its line.

**What correctness means.**

- Daemon: the worker runs only while what it uses exists; no packet buffer is
  leaked or freed twice; counters add up for every reader; reported health is
  the truth; a pause is obeyed within one iteration; start and shut-down end.
- Channel: commands take effect in the order issued and at most once; an
  acknowledged command is not undone by an abandoned one.
- Supervisor: no daemon is left behind or cut off from the socket path, the
  cached health is that of the process launched last, every call returns.
- Controller: runtime, manager, supervisor and kernel agree between requests;
  "running" is said only when it is so; no deadlock between the two locks.
- Operator: an exit code says what became of the command.
- Lab: success means the whole topology, failure means none of it, and there
  is no failure without a cause; what captures and rules refer to exists.
- Profile: what the controller accepts the daemon accepts, and it suffices; a
  rejection names something the operator can change.

## 2. Modules

| Module | Models | Extends |
|---|---|---|
| `Datapath` | both threads of the daemon | |
| `StatsLedger` | abstract specification of the counters | |
| `MCDatapath` | symmetry of the buffers | `Datapath` |
| `DatapathProofs` | types, threads, resources, health, pause | `Datapath` |
| `DatapathLedgerProofs` | packets, counters, refinement of `StatsLedger` | `DatapathProofs` |
| `IpcChannel` | client, socket and server, with restarts | |
| `IpcChannelProofs` | current answers, refinement of `CommandLog` | `IpcChannel` |
| `CommandLog` | abstract specification of the exchanges, implemented by `IpcChannel` | |
| `Supervisor` | the supervisor and the daemons it launches over one socket path | |
| `SupervisorProofs` | strays, socket path, cached health | `Supervisor` |
| `Controller` | runtime, supervisor, manager and server life time | |
| `MCController` | symmetry of the requests' threads and the topologies | `Controller` |
| `ControllerProofs` | lab, locks, bookkeeping | `Controller` |
| `ReconcilePlan` | the planner, as operators | |
| `Operator` | the command line client and the API in front of the runtime | `Controller`, with `ReconcilePlan` instantiated |
| `MCOperator` | symmetry | `Operator` |
| `OperatorProofs` | exit codes and plans | `Operator`, `ControllerProofs` |
| `TopologyLab` | manager and helpers, call by call, with the kernel | |
| `MCTopologyLab` | seventeen topology documents | `TopologyLab` |
| `TopologyLabProofs` | what a failed and a successful apply leave | `TopologyLab` |
| `RuntimeProfile` | the runtime knobs, from the document to the daemon's ports | |
| `MCRuntimeProfile` | seven texts that name lcores | `RuntimeProfile` |
| `RuntimeProfileProofs` | the arithmetic of profiles | `RuntimeProfile` |

### Datapath

`mpc` and `wpc` are the points main thread and worker have reached; one action
is what a thread does between two points at which the other can observe or
disturb it. `held` is the set of resources that exist. The start of
`daemon.c` and `datapath.c` is `DaemonInit`, `EalStart`, `PortsStart` and so
on, each with the action in which it fails; the handshake is modelled lock
operation by lock operation, with wake-ups that no signal caused. The worker's
iteration is receive, classify one packet, transmit, and one step per counter
field. `packets`, `index` and `candidate_count` are the C variables of the
in-place compaction; `owner` says whether the pool, the worker or a NIC has a
buffer. The parser is its verdict, chosen freely. A client's request is one
action of the main thread, since the server is serial; the counters are read
and reset under `stats.lock`. `afterPause` (bursts since the last pause) and
`reply` (the last answer) are kept for the properties.

`StatsLedger` is what clients may rely on: whole bursts are posted, everything
is cleared at once, a read sees whole bursts. `Committed` maps the counters to
the ledger: a burst counts from the moment the worker has the mutex.

### IpcChannel

Exchanges are numbered in the order they are issued; the runtime lock allows
one at a time, but an exchange that timed out stays in the socket. The daemon
listens before it serves (`Listen`, later `Serve`), so connections queue up to
the backlog. A frame is in the socket as a whole, in part, or not at all. The
daemon executes what it reads whether or not the client is there, fails to
write to one that is not, and may exit and start again at every point, which
closes its connections.

`CommandLog` is what the controller may rely on: exchanges are executed in the
order of issue and at most once, a failed one may still be executed, an
answered one is the latest that was. `executed` counts executions, so that a
repeated one shows although pause and resume are idempotent. `ImplementsLog`
maps the state of the datapath, the answer in the making and the outcomes the
clients saw to it.

### Supervisor

Its calls are serialised by its lock, so there is one at a time (`op`, `spc`);
each poll, exchange and wait of a call is an action, and daemons act in
between. A daemon's life goes from `spawned` to `dead`; it binds the path,
which it unlinks first, serves, and unlinks the path again when it closes.
Whoever serves the path answers. `pending` are requests whose clients gave up,
each of which costs a warning in the stderr pipe that nobody reads; a daemon
that finds the pipe full is `stuck`. `ControllerCrashes` is a crash of the
controller between any two steps: its daemons become `orphans`, whose pipe has
no reader any more, so that their writes fail instead of blocking. In
`Controller` the same three calls are single steps with their failures.

### Controller

A mutator is a thread that runs apply or destroy. Its program counter names
the locked section it is about to enter: manager lock, stop of the old
datapath, removal of the old lab, build, start, TAPs, clean-up, record. The
runtime lock is held for a whole action, except by `stop`, which keeps it
across several (`stopHasLock`); `mlock` is the manager lock. The lab is
abstract here: `absent`, `built` or `partial` per topology, `reported` being
the topologies whose teardown failed with an error. `Status` is the
supervisor's `status()`, with its cached health. Health, statistics, pause and
resume are actions of their own that may come between any two sections. The
server life time is `lpc`: start, up, stop, down; `Shutdown` waits for the
requests in flight, because the HTTP server (external) drains them before it
runs the lifespan's exit hook. `NoLockCycle` rests on this: without it (its
mutant) `stop` and a mutator wait for each other. The constant `Faults`
selects what can go wrong besides ordinary failures: the datapath dies,
`status()` raises a protocol error it does not catch, or `stop()` times out in
its second wait. `slipped` is kept for the properties: a request ended in such
a protocol error before it recorded what it did.

### Operator

`cli` is the last topology command of an operator who types one after the
other: the thread that serves it, what it asks for, what was applied when it
was typed, and how it ended (a result, an HTTP error, a timeout, a refused
connection). Everything else is `Controller`, whose requests now have a client
that may give up. `ReconcilePlan` is the planner; nothing in the repository
calls it yet, so it is evaluated on the desired and observed states that the
controller reaches.

### TopologyLab

A topology document is a record with its namespaces, links, ports, routes,
capture points and rules. A link address is the network it lies in, a gateway
its network and host part (`"own"`, `"zero"` and `"ones"` are the namespace's
own, the lowest and the broadcast address), a destination a name: `ip route
replace` (`netns.py:121`) replaces what has the same one. Validation reads
addresses as Python's `ipaddress` does and asks of a name only that it is not
empty, so the constant `Refused` lists what it accepts and `ip` does not:
namespace names with a slash, interface names longer than 15 characters,
addresses with a host mask, destinations with host bits. `Valid` is the
conjunction of the rules of `validate_topology_config`, one operator for each
function of `validation.py`. An operation is a sequence of helper calls
(`todo`) inside one of the manager's try blocks (`stage`); a call succeeds,
fails (`CommandFails`), or cannot succeed because of the state of the kernel
(`CallImpossible`). What `ip` does to the kernel is external and modelled from
how the helpers use it: a namespace comes with its loopback, a veth pair goes
with either end, a route goes with the last interface that reaches its gateway,
and a gateway has to be found (`GatewayFound`). Whether a route may lead
through an address of the namespace itself or the lowest one of a network
depends on the kernel (`Doubtful`), and both outcomes are possible. A stop
removes the interfaces of the datapath and no other of their names
(`TapDevices`). The manager lock serialises operations, so there is one at a
time.

### RuntimeProfile

A request has for each knob a value, or `Omitted`; the lcores are a sequence
of ranges, as the text that names them is read. `Effective` fills in the
defaults and rounds, `Blamed` is the set of knobs the issues name,
`Constructible` the constraints of the Pydantic model that is built before the
issues are looked at; `Prepares` parses and checks what the daemon gets, and
`Narrowed` is what is left in its 16-bit fields. The module has no loop: it
compares two sets of rules.

## 3. Runs

| Run | Instance | States | Checks |
|---|---|---|---|
| `datapath_packets` | 2 buffers, bursts of up to 2, one burst, fair | 40,767 | `TypeOK`, `MbufAccounting`, `ImplementsLedger`, `HandshakeCompletes`, `ShutdownCompletes`, `PauseTakesEffect` |
| `datapath_control` | 2 buffers, bursts of 1, three bursts | 393,843 | `StatsConserved`, `NoUseAfterRelease`, `PauseBound`, `HealthTruth`, `FailedStartReleases` |
| `ipc_exchanges` | 3 exchanges, 2 starts, backlog 2, fair | 434,561 | `TypeOK`, `ImplementsLog`, `AnswerIsCurrent`, `ServerReturnsToPoll`, `BacklogDrains` |
| `supervisor` | 2 launches, 1 crash of the controller, pipe of 1, backlog 2, fair | 96,399 | `TypeOK`, `NoStrays`, `SocketIsManaged`, `HealthIsOfLastStart`, `CallsReturn` |
| `operator_session` | 1 API thread, 2 topologies, 4 commands, every fault | 184,962 | `TypeOK`, `AgreesWithManager`, `AppliedDatapathRuns`, `ReadyIsTruthful`, `ExitCodeTruth`, `RunningNeedsNoPlan` |
| `controller_concurrent` | 2 mutators, 4 requests, every fault | 1.3 million | `LabTruth`, `NoLockCycle` |
| `controller_liveness` | 2 mutators, 2 requests, stop times out, fair | 73,425 | `RequestsComplete`, `ServerStops` |
| `controller_record_race` | 2 API threads, 2 commands, no fault | | `AgreesWithManager`: violated |
| `controller_tail_race` | 2 API threads, 3 commands, no fault | | `AppliedDatapathRuns`: violated |
| `lab_operations` | 17 documents, 3 operations | 721,229 | `TypeOK`, `SuccessIsComplete`, `FailedApplyLeavesNothing`, `ReferencesResolve`, `ErrorsHaveCauses` |
| `lab_destroy_retry` | the same | | `RepeatedDestroySucceeds`: violated |
| `runtime_profile` | values at and next to every limit | 825,872 | `DaemonAgrees`, `ResourcesSuffice`, `RejectionsAreActionable` |

**Why the bounds are enough.** Two buffers in one burst reach a kept packet
moved over a malformed one, and a sent one next to an unsent one; three bursts
reach both directions, one more than a pause may let through, and counters that
are read or reset in the middle of an addition. Three exchanges are the least
in which an abandoned request precedes an acknowledged one and another follows;
two starts let an exchange of the first incarnation meet the second; a backlog
of two fills up. Two launches are the least in which a daemon meets a
predecessor, one crash leaves an orphan that can be the predecessor, and a pipe
that holds one message is used, filled and full (three launches over a backlog
of one, 1.1 million states, show nothing else). Four commands let a topology be
applied, replaced, fail and be applied again. In `operator_session` one API
thread stands for an operator whose command is over before the next one starts
to work, in the two races there are two, which is the least that can race;
locks and sections do not depend on how many threads wait. Of the seventeen
documents twelve are valid: two differ in the order of links, in namespaces,
captures, rules and routes, two of which have one destination in the first; the
third has ports with the names of the bridge-side interfaces; nine pass
validation and meet the kernel, each for a reason of its own (`br-in`, two
loopbacks, a long name, an unusable namespace, an unreadable address, host
bits, an own and a broadcast gateway, a route that cuts off the next one).
Without any one of the exceptions of `ErrorsHaveCauses` the run fails. Each of
the other five breaks one rule that the helpers, a capture or a rule relies on.
Three operations allow an operation on what a failed one left, and one after
that. The values of `runtime_profile` are each limit of the controller and of
the daemon, its neighbours, and the defaults. For the safety properties of
section 5 the bounds do not matter: they are proved without.

**Deadlock** is checked in every run. Where a behaviour has come to its end or
to a bound it stutters in an action that says so (`Terminated`,
`NoMoreExchanges`, `Finished`), or still takes a step no bound limits (a health
request, a document that validation refuses).

**Symmetry** is used for buffers, mutators and topologies, which no definition
tells apart, and in no run with a liveness property.

## 4. Fairness

- `Datapath`: both threads are scheduled (weak fairness of `MainStep` and
  `WorkerStep`). A client closes its connection (weak fairness of `Hangup`):
  `DpdkClient` has one connection per exchange and a timeout. The main thread
  waiting for the handshake releases `worker_lock` on every wake-up, so the
  worker gets it some time (strong fairness of `SignalLock`); weak fairness
  would let endless spurious wake-ups keep it out. Requests, signals, packets
  and the success of a start are not assumed.
- `IpcChannel`: the server's thread is scheduled (`ServerStep`); an exchange
  goes on or times out (`ClientStep`). New exchanges, starts and exits are not
  assumed.
- `Supervisor`: the thread that runs a call goes on (weak fairness of
  `CallStep`), and a start that polls again and again meets its deadline
  (strong fairness of `WaitExpires`, which is enabled only between two
  polls). Nothing is assumed of a daemon.
- `Controller`: each mutator's thread and the server's task are scheduled. A
  call of the supervisor or of an `ip` command ends: the supervisor's have
  timeouts, the commands are assumed to return. Requests, the shutdown and
  faults are not assumed.

## 5. Proofs

Eight modules of proofs, checked by TLAPS. Each theorem holds for every value
of the constants that satisfies the assumptions of the module, so for any
number of buffers, bursts, exchanges, starts, launches, crashes, requests,
threads, topologies, documents and operations, where TLC checks one small
number of each. Every inductive invariant was first an invariant of a TLC run.

| Module | Theorem | States |
|---|---|---|
| `DatapathProofs` | `TypeCorrect` | `Spec => []TypeOK` |
| | `ControlCorrect` | `Spec => [](TypeInv /\ ControlInv /\ PauseInv)` |
| | `ResourceSafety` | `Spec => []NoUseAfterRelease` |
| | `PauseSafety` | `Spec => []PauseBound` |
| | `HealthSafety` | `Spec => []HealthTruth` |
| | `FailedStartSafety` | `Spec => []FailedStartReleases` |
| `DatapathLedgerProofs` | `MbufSafety` | `Spec => []MbufAccounting` |
| | `StatsSafety` | `Spec => []StatsConserved` |
| | `LedgerRefinement` | `Spec => ImplementsLedger` |
| `IpcChannelProofs` | `TypeCorrect` | `Spec => []TypeOK` |
| | `AnswerSafety` | `Spec => []AnswerIsCurrent` |
| | `LogRefinement` | `Spec => ImplementsLog` |
| `SupervisorProofs` | `TypeCorrect` | `Spec => []TypeOK` |
| | `StraySafety` | `Spec => []NoStrays` |
| | `SocketSafety` | `Spec => []SocketIsManaged` |
| | `HealthSafety` | `Spec => []HealthIsOfLastStart` |
| `ControllerProofs` | `TypeCorrect` | `Spec => [](TypeOK /\ ManagerInv)` |
| | `LabSafety` | `Spec => []LabTruth` |
| | `LockSafety` | `Spec => []NoLockCycle` |
| | `RecordSafety` | `OneMutator`: `Spec => []AgreesWithManager` |
| | `ProcessSafety` | `OneMutator`: `Spec => []AppliedDatapathRuns` |
| | `ReadySafety` | `OneMutator`: `Spec => ReadyIsTruthful` |
| `OperatorProofs` | `ExitCodeSafety` | `OneMutator`: `SessionSpec => []ExitCodeTruth` |
| | `PlanSafety` | `OneMutator`: `SessionSpec => RunningNeedsNoPlan` |
| `RuntimeProfileProofs` | `ProfileCorrect` | `Spec => []ProfileInv` |
| | `AgreementSafety` | `Spec => []DaemonAgrees` |
| | `ResourceSafety` | `Spec => []ResourcesSuffice` |
| | `RejectionSafety` | `EstimateFits`: `Spec => []RejectionsAreActionable` |
| `TopologyLabProofs` | `TypeCorrect` | `Spec => []TypeOK` |
| | `LabCorrect` | `Spec => []LabInv` |
| | `FailedApplySafety` | `Spec => []FailedApplyLeavesNothing` |
| | `BuildCorrect` | `Spec => [](LabInv /\ BuildInv /\ SuccessInv)` |
| | `SuccessSafety` | `Spec => []SuccessIsComplete` |
| | `ReferenceSafety` | `Spec => []ReferencesResolve` |

**Assumptions.** The constants' own assumptions are in the modules that declare
them, and TLC evaluates them in every run: bounds are natural numbers, a burst
has room for a packet and a backlog for a connection, the names for "nobody"
and "nothing" name nobody and nothing (`NoMbufAssumption`, `NamesAssumption`,
`NoDocumentAssumption`), documents and requests have the shape their Pydantic
models give them (`DocumentsAssumption`, `RequestsAssumption`), and what the
kernel refuses is of a known kind (`RefusedAssumption`). Two
hypotheses are stated in the theorems that need them, because they limit what
the theorem covers; they hold in the passing runs of these properties:

- `OneMutator`: topology requests are served one at a time. With two threads
  `controller_record_race` and `controller_tail_race` violate
  `AgreesWithManager` and `AppliedDatapathRuns`.
- `EstimateFits`: no estimate of a pool exceeds 2^31 - 1, since `BitLength`
  looks at 31 bits: a limit of the model, where Python has none.

### Datapath

`TypeOK` is not inductive: that `candidate_count` stays within the burst
follows only from `candidate_count <= index <= rx_count` while packets are
classified (`BurstIndex`). `TypeInv` is the two together.

`ControlInv` says of each pair of points the two threads can be at what is
true there. `ThreadInv`: the worker exists exactly between creation and join,
and is registered between registration and its end. `HeldInv`: which resources
exist at each point of the main thread; at every point at which the worker may
live, all of them. `HandshakeInv`: what `start_ready` and `start_ok` say about
the worker, which is why a daemon that serves with ports has a worker that
forwards. `HealthInv`: the tracker's copy of the flags. None of the four is
inductive without the others; each is preserved by its own lemma
(`ThreadStep`, `HeldStep`, `HandshakeStep`, `HealthStep`) that assumes all.
`PauseInv` strengthens `PauseBound` by how many bursts the worker can already
have taken at its point of the current iteration (`Taken`).

`BurstInv` relates the burst's own counters to its indexes at every point
(what was received is malformed, kept, or not yet looked at; what was kept was
sent or freed) and ties `stats.lock` to the point at which the worker adds.
With it `MbufAccounting` is inductive and a completed burst is an entry of the
ledger. `LedgerStep` shows that each step is a step of `StatsLedger` or leaves
`Committed` and `reply` alone: taking the mutex posts the burst, adding a field
leaves `Committed` alone, answers and resets happen with the mutex free, when
`Committed` is `stats`.

### IpcChannel

`ChannelInv` is five invariants. `ServerInv` ties the connection being handled
to the server's point, `ClientInv` says that all exchanges but the one in
flight are over. The argument is `OrderInv`: connections wait in the order
they were issued, after the one being handled, which is not older than any
that was executed, and all of them are to the daemon that runs now. `OnceInv`:
of an exchange whose request was read none is left in the socket, so nothing
is executed twice. `AnswerInv` relates what clients were told to what the
daemon last did. When the latest exchange was answered, everything older is
behind it by `OrderInv`, so the queue is empty and nobody is left to undo it.
The refinement maps each step to a step of `CommandLog`: dispatching is the
log's execution, the client's return its answer, and everything on the socket
a stuttering step.

### Supervisor

`NoStrays` holds between calls only; `StrayInv` says of every point of a call
that a daemon that can still act is the one with the handle or the one being
stopped, `CallInv` that these are never two and that both are the launch made
last. So without orphans one daemon at most runs code (`OneActive`), which is
why nobody else can unlink or take over the path (`SocketInv`) or answer the
probes (`HealthInv`, which includes the health of the refresh in progress).

### Controller and Operator

`ManagerInv` is inductive with `TypeOK`, for any number of threads: `LockInv`
(the holder of the manager lock is the thread inside the manager; `stop`
begins when all requests are over), `CurrentInv` (what `_current` is at each
point inside) and `LabInv`, which is `LabTruth` at every point, the topology
being built or cleaned up excepted. `NoLockCycle` follows from `LockInv`: the
draining of requests is what it rests on.

`RecordInv` and `ProcessInv` say at each point of a request how far runtime
and manager agree and which process the supervisor holds. They are preserved
only while nobody else is between two sections, hence `OneMutator`; the health
and statistics requests that may come in between do not disturb them.

A session of the operator is a behaviour of the controller (`SessionStep`,
`SessionIsController`), so the above holds in it. `WaitingInv` follows the
thread that works for the waiting operator and what was applied before the
command; `AnsweredInv` is what an answer says, and with one thread nothing
happens to the topology until the next command.

### RuntimeProfile

The state machine is short (`ProfileInv`); the proofs are about its
arithmetic. `BitLengthCorrect` and `RoundUpBounds` say what the rounding to a
power of two returns, `MempoolForTwoPorts` and `HugepagesForMempool` that the
defaults derived from it suffice, `AcceptedProfile` collects what no issue
means for each knob, from which the daemon's own limits follow. The other
direction is `DefaultsAreSafe` and `ErrorsExplained`: an issue about a value
that was derived comes with one about a value that was given.

### TopologyLab

The calls of a block are a sequence; most of the proofs need only which calls it
contains: `ApplyElements`, `LinkCallElements` and `NamespaceCallElements` turn
the sequences the helpers build into sets (`BuildSet`, `LinkSet`,
`NamespaceSet`). The flattening of per-link calls is defined by recursion;
`FlattenElements` is proved by taking the least counterexample
(`WFMin`, `NatLessThanWellFounded`), which needs no induction principle with
an operator parameter.

`KernelInv` says that everything in the kernel hangs on an interface and every
interface on a namespace, so that a kernel without namespaces is empty
(`NothingWithoutNamespaces`). `OwnedInv`: in a lab that was sound as the call
began, namespaces are those of the document being built or taken down, and
while they are deleted only those whose deletion is still to come. Deleting a
namespace is possible in every state, unlike deleting a link, so a clean-up
whose commands do not fail gets to the end of the namespace block and leaves
nothing, although its link block may have raised. This is
`FailedApplyLeavesNothing`.

`BuildInv` says that every call of `BuildSet` is still to be made or its effect
is there (`Done`), and that interfaces, pairs and bridge members are those the
document asks for (`Bounded`). Here two facts about the order of the calls are
needed, for which `BuildInv` says that the calls left are the last ones of
`ApplyCalls` (`Ending`). The links come before the bridges: while there is no
bridge, an end of a link that is found is a loopback or half of a pair, and by
the rules of the validation of the pair of its own link, so that a link
`ensure_veth_pair` leaves alone is joined or has loopbacks at both ends
(`SatisfiedIsDone`, `BridgesLast`). And the routes come last, in the order of
the document: the routes in the kernel are those of the first n that none of
the first n replaces, where n follows from the number of calls left
(`Installed`, `NextRoute`, `InstalledNext`). A later call undoes no effect
(`StaysDone`); the one that could is an attachment of the same interface to the
other bridge, excluded by `OneBridge` where the bridge-side interfaces are link
ends (`Unsettled` is what is left). At the end of the block all effects are
there, which is `Complete` (`Built`). That captures and rules refer to
something is then a matter of the rules of the validation (`InterfacesUp`).

**Only model-checked:** the liveness properties (`HandshakeCompletes`,
`ShutdownCompletes`, `PauseTakesEffect`, `ServerReturnsToPoll`,
`BacklogDrains`, `CallsReturn`, `RequestsComplete`, `ServerStops`), since
fairness and `ENABLED` are out of the prover's reach, and `ErrorsHaveCauses`,
whose proof needs the whole order of the calls. The
properties of the runs that end in a violation have no theorem, except under
`OneMutator`.

## 6. What the runs show

The daemon, the channel, the supervisor, the controller with one request at a
time, the lab and the profile have the properties of section 3. Three
expectations of the repository do not hold:

1. **Record race** (`controller_record_race`). `docs/roadmap.md:110` says
   "Topology mutations remain serialized." The mutations of the kernel are,
   but `apply_topology` and `destroy_topology` write desired and observed
   state after the manager released its lock (`app.py:221`): two requests can
   record in the opposite order, and then the runtime reports a topology the
   manager does not have, or none where there is one.
2. **Tail race** (`controller_tail_race`). `destroy_topology` stops the
   datapath once more outside the manager lock (`app.py:261`) and can stop the
   datapath of an apply that came in between.
3. **Destroy after a partial failure** (`lab_destroy_retry`). `delete_link`
   promises to delete an interface "if it is present", but asks inside the
   namespace and raises if that is gone (`util/netns.py:58`). A destroy that
   failed after it had deleted some namespaces can therefore never succeed
   again.

Both races need only one operator: `pktlabctl` gives up after two seconds
(`client.py:143`), its request goes on, and the operator's next command runs
beside it. With one request at a time (`operator_session`) runtime and manager
agree, whatever fails.

Where a property names an exception, the exception is what the code does:

- A protocol error of `status()` ends a request that has done its work but not
  recorded it (`app.py:230`); the next recorded request makes up for it
  (`slipped` in `AgreesWithManager`).
- A health poll replaces the state "reconciling" in the middle of an apply
  (`app.py:285`); `ReadyIsTruthful` says what "running" means then.
- Validation accepts names that cannot be used (`validation.py:718-735`): an
  interface `br-in` or `br-out`, which `ensure_bridge` takes for its own; `lo`;
  more than 15 characters; a slash. Such a document can never be applied, or,
  with a link between two loopbacks, never be destroyed (`NameRefused` in
  `ErrorsHaveCauses`).
- Validation accepts addresses the kernel refuses: destinations with host bits
  (`strict=False`, `validation.py:810`), networks written with a host mask, a
  gateway that is the broadcast address of its network or, in some kernels, its
  lowest address or one of the namespace's own (`validation.py:554`). And it
  looks at every route for itself: after a route to a connected network the
  next gateway in that network is not found (`RouteRefused` and
  `AddressRefused` in `ErrorsHaveCauses`).
- Of several routes of a namespace to one destination, which validation
  accepts (`validation.py:526-561`), only the last is in the lab of a successful
  apply, since `netns.py:121` replaces (`LastRoutes` in `Complete`).
- A link between two loopbacks passes validation, `ensure_veth_pair` finds both
  ends, and the apply succeeds without a pair (`Complete`).
- The issue of `validation.py:611` says that the bridge-side interfaces must be
  defined "through the topology links", but any interface of the namespace
  will do, a datapath port included (`validation.py:605`). Such a document is
  applied with success although no link leads to its bridges; if the ingress
  port is called `veth-out-k` and the egress port `veth-in-k`, both end up in
  `br-out` (`SidesAreLinks` in `SuccessIsComplete`). The attempt to prove
  `SuccessIsComplete` without the exception found this.
- Queues shorter than the default burst are rejected with an issue about the
  burst even if the document has none, and an odd number of megabytes or a
  document without ports raises Pydantic's own error, the issues lost
  (`RejectionsAreActionable`).
- A text that names the lcores in 64 characters or more, or a port name of 32,
  passes the controller and is refused by the daemon (`DaemonAgrees`).
- A daemon left by a crashed controller answers the readiness probes meant for
  its successor and unlinks its socket (`orphans` in `SocketIsManaged` and
  `HealthIsOfLastStart`).

Also visible, and no property's subject: after a stop that times out twice the
supervisor has dropped its handle and only the kernel accounts for the
process; a daemon whose stderr pipe is full answers nobody until it is
stopped.

## 7. Bounds that are part of the models

`MaxBursts`, `MaxRequests`, `MaxExchanges`, `MaxStarts`, `MaxOperations`,
`MaxLaunches` and `MaxCrashes` bound the length of behaviours and occur only
in the guards of the actions that receive a burst, a request, a connection, a
start, a call, a launch or a crash. `Backlog` and `PipeCapacity` are limits of
the system itself, small here. Counters are natural numbers: wrap-around at
2^64 is out of reach.

## 8. Not modelled

- Parsing of YAML and Pydantic models into documents; the rules engine that
  would use a ruleset does not exist yet, and nothing calls the standalone
  `validate_ruleset`.
- The daemon's JSON scanner and renderer and its log: text, no state.
- Argument parsing and output of the command line client, HTTP response
  models and the numbers of the HTTP codes: stateless.
- The planner's `replace_rules`: the controller never sets a rules version.
- Capture, metrics, scenarios, traffic and monitoring: placeholders.
- A controller that does not supervise its datapath (`supervise_datapath`).
- In the models: message texts, process exit codes, versions, address syntax
  but for what `Refused` lists.
- In `TopologyLab`: networks that overlap without being equal, one
  destination in two notations, and namespace names with a blank, of which
  `ip netns list` shows one word.

## 9. Plan

Done: all modules of section 2 with their runs, and the proofs of section 5:
every safety invariant that a run checks is a theorem.

Left, in this order:

1. `TopologyLab`: `ErrorsHaveCauses`, with an invariant that keeps the order of
   the calls (namespaces before links before addresses and bridges before
   members before routes).
2. An abstract lab (absent, built, partial), implemented by `TopologyLab` and
   used by `Controller`, so that the two models of the manager meet.
3. An abstract specification of the supervisor's three calls, implemented by
   `Supervisor` and used by `Controller`.
