-------------------------- MODULE SupervisorProofs --------------------------
(***************************************************************************)
(* Proofs about Supervisor, for any number of launches and crashes, any    *)
(* pipe and any backlog: no process is lost, the managed daemon keeps its  *)
(* socket, and the health shown is its own.                                *)
(***************************************************************************)
EXTENDS Supervisor, TLAPS

Stopping == spc \in {"term_wait", "kill_wait"}

\* A daemon that may still run code of its own.
Active(d) == daemon[d] \notin {"unborn", "killed", "dead"}

\* Only what was launched has a life and a socket.
BirthInv ==
    /\ path <= launched
    /\ \A d \in Daemons : d > launched => daemon[d] = "unborn"

\* The handle and the process being stopped are never two: _stop_locked gives
\* up the one before it waits for the other.  Both are the last launch.
CallInv ==
    /\ spc = "idle" => op = "none"
    /\ IF Stopping THEN process = 0 /\ victim # 0 ELSE victim = 0
    /\ spc \in {"wait", "ping", "health", "version", "command"} => process # 0
    /\ spc = "kill_wait" => daemon[victim] \in {"killed", "dead"}
    /\ process \in {0, launched} /\ victim \in {0, launched}

\* NoStrays at every point of a call.
StrayInv ==
    \A d \in 1..launched \ orphans : Active(d) => d \in {process, victim}

\* SocketIsManaged for whichever daemon listens, the one being stopped too.
SocketInv ==
    orphans = {} =>
       \A d \in Daemons :
          daemon[d] \in {"listening", "serving", "stuck"} => path = d

\* HealthIsOfLastStart, for the health of the refresh in progress as well.
HealthInv ==
    /\ {seen, last_health} \subseteq {0, launched} \cup orphans
    /\ spc \in {"idle", "command"} => seen = 0

SupervisorInv == BirthInv /\ CallInv /\ StrayInv /\ SocketInv /\ HealthInv

IInv == TypeOK /\ SupervisorInv

-----------------------------------------------------------------------------
(* The invariant                                                           *)

\* Nothing was launched.
LEMMA SupervisorInit == Init => IInv
<1> SUFFICES ASSUME Init PROVE IInv
  OBVIOUS
<1>1. last_exit_code \in BOOLEAN /\ failed \in BOOLEAN
  BY DEF Init
<1>2. TypeOK
  BY <1>1, BoundsAssumption DEF Init, TypeOK
<1>3. SupervisorInv
  BY DEF Init, SupervisorInv, BirthInv, CallInv, StrayInv, SocketInv,
       HealthInv, Stopping
<1>4. QED
  BY <1>2, <1>3 DEF IInv

\* Without a daemon of an earlier controller, one daemon at most runs code.
LEMMA OneActive ==
    ASSUME IInv, orphans = {},
           NEW d \in Daemons, NEW e \in Daemons, Active(d), Active(e)
    PROVE  d = e
<1> USE DEF IInv, SupervisorInv
<1>1. d \in 1..launched /\ e \in 1..launched
  BY DEF BirthInv, TypeOK, Daemons, Active
<1>2. d \in {process, victim} /\ e \in {process, victim}
  BY <1>1 DEF StrayInv
<1>3. QED
  BY <1>1, <1>2 DEF CallInv

\* Only the process that runs is signalled.
LEMMA TermType ==
    ASSUME TypeOK, \/ term' = term
                   \/ Running /\ term' = term \cup {process}
    PROVE  term' \subseteq Daemons
<1>1. Running => process \in Daemons
  BY BoundsAssumption DEF TypeOK, Running, Daemons
<1>2. term \subseteq Daemons
  BY DEF TypeOK
<1>3. QED
  BY <1>1, <1>2

\* The path is taken from nobody else who runs, unless that is an orphan.
LEMMA BindKeeps == ASSUME IInv, NEW d \in Daemons, Bind(d) PROVE IInv'
<1> USE DEF IInv, SupervisorInv
<1>1. TypeOK'
  <2>1. last_exit_code' \in BOOLEAN /\ failed' \in BOOLEAN
    BY DEF TypeOK, Bind, Becomes, Lives, daemonVars, cacheVars, callVars
  <2>2. QED
    BY <2>1 DEF TypeOK, Bind, Becomes, Lives, daemonVars, cacheVars, callVars,
         Daemons
<1>2. BirthInv'
  BY DEF TypeOK, BirthInv, Bind, Becomes, Lives, daemonVars, cacheVars,
       callVars, Daemons
<1>3. CallInv'
  BY DEF CallInv, Stopping, Bind, Becomes, Lives, daemonVars, cacheVars,
       callVars
<1>4. StrayInv'
  BY DEF StrayInv, Active, Bind, Becomes, Lives, daemonVars, cacheVars,
       callVars
<1>5. SocketInv'
  <2> SUFFICES ASSUME orphans' = {}, NEW e \in Daemons,
                      daemon'[e] \in {"listening", "serving", "stuck"}
               PROVE  path' = e
    BY DEF SocketInv
  <2>1. e # d => Active(e) /\ Active(d) /\ orphans = {}
    BY DEF Bind, Lives, Becomes, Active
  <2>2. QED
    BY <2>1, OneActive DEF Bind, Lives, Becomes
<1>6. HealthInv'
  BY DEF HealthInv, Bind, Becomes, Lives, daemonVars, cacheVars, callVars
<1>7. QED
  BY <1>1, <1>2, <1>3, <1>4, <1>5, <1>6

\* A daemon that serves, or failed to, was listening before.
LEMMA ServeKeeps == ASSUME IInv, NEW d \in Daemons, Serve(d) PROVE IInv'
<1> USE DEF IInv, SupervisorInv
<1>1. PICK to \in {"serving", "closing"} : Lives(d, "listening", to)
  BY DEF Serve
<1>2. TypeOK'
  <2>1. last_exit_code' \in BOOLEAN /\ failed' \in BOOLEAN
    BY DEF TypeOK, Serve, Becomes, Lives, daemonVars, cacheVars, callVars
  <2>2. QED
    BY <1>1, <2>1 DEF TypeOK, Serve, Becomes, Lives, daemonVars, cacheVars,
         callVars
<1>3. BirthInv'
  BY <1>1 DEF BirthInv, Serve, Becomes, Lives, daemonVars, cacheVars, callVars
<1>4. CallInv'
  BY <1>1 DEF CallInv, Stopping, Serve, Becomes, Lives, daemonVars, cacheVars,
       callVars
<1>5. StrayInv'
  BY <1>1 DEF StrayInv, Active, Serve, Becomes, Lives, daemonVars, cacheVars,
       callVars
<1>6. SocketInv'
  BY <1>1 DEF SocketInv, Serve, Becomes, Lives, daemonVars, cacheVars, callVars
<1>7. HealthInv'
  BY <1>1 DEF HealthInv, Serve, Becomes, Lives, daemonVars, cacheVars, callVars
<1>8. QED
  BY <1>2, <1>3, <1>4, <1>5, <1>6, <1>7

\* A log message moves neither the socket nor the handle.
LEMMA WarnKeeps == ASSUME IInv, NEW d \in Daemons, Warn(d) PROVE IInv'
<1> USE DEF IInv, SupervisorInv
<1>1. TypeOK'
  <2>1. daemon' = daemon \/ daemon' = [daemon EXCEPT ![d] = "stuck"]
    BY DEF Warn, Logs, Becomes
  <2>2. room' = room \/ (room[d] > 0 /\ room' = [room EXCEPT ![d] = @ - 1])
    BY DEF Warn, Logs
  <2>3. room' \in [Daemons -> 0..PipeCapacity]
    BY <2>2, BoundsAssumption DEF TypeOK
  <2>4. pending' \in [Daemons -> 0..Backlog]
    BY BoundsAssumption DEF Warn, TypeOK
  <2>5. QED
    BY <2>1, <2>3, <2>4 DEF TypeOK, Warn, callVars, cacheVars
<1>2. BirthInv'
  BY DEF TypeOK, BirthInv, Warn, Becomes, Logs, daemonVars, cacheVars, callVars
<1>3. CallInv'
  BY BoundsAssumption DEF TypeOK, CallInv, Stopping, Warn, Becomes, Logs,
       daemonVars, cacheVars, callVars, Daemons
<1>4. StrayInv'
  BY BoundsAssumption DEF TypeOK, StrayInv, Active, Warn, Becomes, Logs,
       daemonVars, cacheVars, callVars, Daemons
<1>5. SocketInv'
  BY DEF TypeOK, SocketInv, Warn, Becomes, Logs, daemonVars, cacheVars,
       callVars
<1>6. HealthInv'
  BY DEF HealthInv, Warn, Becomes, Logs, daemonVars, cacheVars, callVars
<1>7. QED
  BY <1>1, <1>2, <1>3, <1>4, <1>5, <1>6

\* A daemon that was stuck was listening all along.
LEMMA InterruptedKeeps == ASSUME IInv, NEW d \in Daemons, Interrupted(d) PROVE
     IInv'
<1> USE DEF IInv, SupervisorInv
<1>1. TypeOK'
  <2>1. last_exit_code' \in BOOLEAN /\ failed' \in BOOLEAN
    BY DEF TypeOK, Interrupted, Becomes, Lives, daemonVars, cacheVars, callVars
  <2>2. QED
    BY <2>1 DEF TypeOK, Interrupted, Becomes, Lives, daemonVars, cacheVars,
         callVars
<1>2. BirthInv'
  BY DEF BirthInv, Interrupted, Becomes, Lives, daemonVars, cacheVars, callVars
<1>3. CallInv'
  BY DEF CallInv, Stopping, Interrupted, Becomes, Lives, daemonVars, cacheVars,
       callVars
<1>4. StrayInv'
  BY DEF StrayInv, Active, Interrupted, Becomes, Lives, daemonVars, cacheVars,
       callVars
<1>5. SocketInv'
  BY DEF SocketInv, Interrupted, Becomes, Lives, daemonVars, cacheVars,
       callVars
<1>6. HealthInv'
  BY DEF HealthInv, Interrupted, Becomes, Lives, daemonVars, cacheVars,
       callVars
<1>7. QED
  BY <1>1, <1>2, <1>3, <1>4, <1>5, <1>6

\* A daemon that closes no longer counts as listening.
LEMMA SeesSignalKeeps == ASSUME IInv, NEW d \in Daemons, SeesSignal(d) PROVE
     IInv'
<1> USE DEF IInv, SupervisorInv
<1>1. PICK from \in {"serving", "spawned"}, to \in {"closing", "dead"} :
         Lives(d, from, to)
  BY DEF SeesSignal
<1>2. TypeOK'
  <2>1. last_exit_code' \in BOOLEAN /\ failed' \in BOOLEAN
    BY DEF TypeOK, SeesSignal, Becomes, Lives, daemonVars, cacheVars, callVars
  <2>2. QED
    BY <1>1, <2>1 DEF TypeOK, SeesSignal, Becomes, Lives, daemonVars,
         cacheVars, callVars
<1>3. BirthInv'
  BY <1>1 DEF BirthInv, SeesSignal, Becomes, Lives, daemonVars, cacheVars,
       callVars
<1>4. CallInv'
  BY <1>1 DEF CallInv, Stopping, SeesSignal, Becomes, Lives, daemonVars,
       cacheVars, callVars
<1>5. StrayInv'
  BY <1>1 DEF StrayInv, Active, SeesSignal, Becomes, Lives, daemonVars,
       cacheVars, callVars
<1>6. SocketInv'
  BY <1>1 DEF SocketInv, SeesSignal, Becomes, Lives, daemonVars, cacheVars,
       callVars
<1>7. HealthInv'
  BY <1>1 DEF HealthInv, SeesSignal, Becomes, Lives, daemonVars, cacheVars,
       callVars
<1>8. QED
  BY <1>2, <1>3, <1>4, <1>5, <1>6, <1>7

\* The path is unlinked under nobody else who runs.
LEMMA CloseKeeps == ASSUME IInv, NEW d \in Daemons, Close(d) PROVE IInv'
<1> USE DEF IInv, SupervisorInv
<1>1. TypeOK'
  <2>1. last_exit_code' \in BOOLEAN /\ failed' \in BOOLEAN
    BY DEF TypeOK, Close, Becomes, Lives, daemonVars, cacheVars, callVars
  <2>2. QED
    BY <2>1, BoundsAssumption DEF TypeOK, Close, Becomes, Lives, daemonVars,
         cacheVars, callVars
<1>2. BirthInv'
  BY DEF TypeOK, BirthInv, Close, Becomes, Lives, daemonVars, cacheVars,
       callVars
<1>3. CallInv'
  BY DEF CallInv, Stopping, Close, Becomes, Lives, daemonVars, cacheVars,
       callVars
<1>4. StrayInv'
  BY DEF StrayInv, Active, Close, Becomes, Lives, daemonVars, cacheVars,
       callVars
<1>5. SocketInv'
  <2> SUFFICES ASSUME orphans' = {}, NEW e \in Daemons,
                      daemon'[e] \in {"listening", "serving", "stuck"}
               PROVE  path' = e
    BY DEF SocketInv
  <2>1. e # d => Active(e) /\ Active(d) /\ orphans = {}
    BY DEF Close, Lives, Becomes, Active
  <2>2. QED
    BY <2>1, OneActive DEF Close, Lives, Becomes
<1>6. HealthInv'
  BY DEF HealthInv, Close, Becomes, Lives, daemonVars, cacheVars, callVars
<1>7. QED
  BY <1>1, <1>2, <1>3, <1>4, <1>5, <1>6

\* A dead daemon is nobody's concern.
LEMMA DiesKeeps == ASSUME IInv, NEW d \in Daemons, Dies(d) PROVE IInv'
<1> USE DEF IInv, SupervisorInv
<1>1. TypeOK'
  <2>1. last_exit_code' \in BOOLEAN /\ failed' \in BOOLEAN
    BY DEF TypeOK, Dies, Becomes, Lives, daemonVars, cacheVars, callVars
  <2>2. QED
    BY <2>1 DEF TypeOK, Dies, Becomes, Lives, daemonVars, cacheVars, callVars
<1>2. BirthInv'
  BY DEF BirthInv, Dies, Becomes, Lives, daemonVars, cacheVars, callVars, Alive
<1>3. CallInv'
  BY DEF CallInv, Stopping, Dies, Becomes, Lives, daemonVars, cacheVars,
       callVars
<1>4. StrayInv'
  BY DEF StrayInv, Active, Dies, Becomes, Lives, daemonVars, cacheVars,
       callVars
<1>5. SocketInv'
  BY DEF SocketInv, Dies, Becomes, Lives, daemonVars, cacheVars, callVars
<1>6. HealthInv'
  BY DEF HealthInv, Dies, Becomes, Lives, daemonVars, cacheVars, callVars
<1>7. QED
  BY <1>1, <1>2, <1>3, <1>4, <1>5, <1>6

\* A signal alone changes nothing.
LEMMA OrphanSignalledKeeps == ASSUME IInv, NEW d \in Daemons,
     OrphanSignalled(d) PROVE IInv'
<1> USE DEF IInv, SupervisorInv
<1>1. TypeOK'
  <2>1. last_exit_code' \in BOOLEAN /\ failed' \in BOOLEAN
    BY DEF TypeOK, OrphanSignalled, daemonVars, cacheVars, callVars
  <2>2. QED
    BY <2>1 DEF TypeOK, OrphanSignalled, daemonVars, cacheVars, callVars
<1>2. BirthInv'
  BY DEF BirthInv, OrphanSignalled, daemonVars, cacheVars, callVars
<1>3. CallInv'
  BY DEF CallInv, Stopping, OrphanSignalled, daemonVars, cacheVars, callVars
<1>4. StrayInv'
  BY DEF StrayInv, Active, OrphanSignalled, daemonVars, cacheVars, callVars
<1>5. SocketInv'
  BY DEF SocketInv, OrphanSignalled, daemonVars, cacheVars, callVars
<1>6. HealthInv'
  BY DEF HealthInv, OrphanSignalled, daemonVars, cacheVars, callVars
<1>7. QED
  BY <1>1, <1>2, <1>3, <1>4, <1>5, <1>6

\* The process launched before has exited.
LEMMA LaunchKeeps == ASSUME IInv, Launch PROVE IInv'
<1> USE DEF IInv, SupervisorInv
<1>1. TypeOK'
  <2>1. last_exit_code' \in BOOLEAN /\ failed' \in BOOLEAN
    BY DEF TypeOK, Launch, Returns
  <2>2. spc' \in {"idle", "wait"} /\ op' \in {"none", "start"}
    BY DEF Launch, Returns
  <2>3. launched' \in launched..MaxLaunches /\ launched' \in 0..MaxLaunches
    <3>1. launched \in Nat /\ MaxLaunches \in Nat
      BY BoundsAssumption DEF TypeOK
    <3>2. launched < MaxLaunches /\ launched' \in {launched, launched + 1}
      BY DEF Launch
    <3>3. QED
      BY <3>1, <3>2
  <2>4. /\ process' \in 0..launched' /\ victim' \in 0..launched'
        /\ seen' \in 0..launched' /\ last_health' \in 0..launched'
    BY DEF TypeOK, Launch, Returns
  <2>5. daemon' \in [Daemons -> {"unborn", "spawned", "listening", "serving",
                                "stuck", "closing", "killed", "dead"}]
    BY DEF TypeOK, Launch, Becomes
  <2>6. orphans' \subseteq 1..launched'
    BY <2>3 DEF TypeOK, Launch
  <2>7. QED
    BY <2>1, <2>2, <2>3, <2>4, <2>5, <2>6 DEF TypeOK, Launch
<1>2. BirthInv'
  <2>1. CASE UNCHANGED <<launched, daemon>>
    BY <2>1 DEF BirthInv, Launch
  <2>2. CASE /\ launched' = launched + 1
             /\ daemon' = [daemon EXCEPT ![launched + 1] = "spawned"]
    <3>1. \A d \in Daemons :
             d > launched + 1 => d > launched /\ d # launched + 1
      BY DEF TypeOK, Daemons
    <3>2. launched \in Nat /\ path \in Nat
      BY DEF TypeOK
    <3>3. QED
      BY <2>2, <3>1, <3>2 DEF BirthInv, Launch
  <2>3. QED
    BY <2>1, <2>2 DEF Launch, Becomes
<1>3. CallInv'
  BY DEF TypeOK, CallInv, Stopping, Launch, Becomes, Returns, Running
<1>4. StrayInv'
  BY BoundsAssumption DEF TypeOK, StrayInv, Active, Alive, CallInv, Stopping,
       Launch, Becomes, Returns, Running, Daemons
<1>5. SocketInv'
  BY DEF TypeOK, SocketInv, Launch, Becomes, Returns, Running
<1>6. HealthInv'
  BY DEF HealthInv, Launch, Becomes, Returns, Running
<1>7. QED
  BY <1>1, <1>2, <1>3, <1>4, <1>5, <1>6

\* The process is the same.
LEMMA StartAgainKeeps == ASSUME IInv, StartAgain PROVE IInv'
<1> USE DEF IInv, SupervisorInv
<1>1. TypeOK'
  <2>1. last_exit_code' \in BOOLEAN /\ failed' \in BOOLEAN
    BY DEF TypeOK, StartAgain, daemonVars, cacheVars, callVars, Running
  <2>2. QED
    BY <2>1 DEF TypeOK, StartAgain, daemonVars, cacheVars, callVars, Running
<1>2. BirthInv'
  BY DEF BirthInv, StartAgain, daemonVars, cacheVars, callVars, Running
<1>3. CallInv'
  BY DEF CallInv, Stopping, StartAgain, daemonVars, cacheVars, callVars,
       Running
<1>4. StrayInv'
  BY DEF StrayInv, Active, StartAgain, daemonVars, cacheVars, callVars, Running
<1>5. SocketInv'
  BY DEF SocketInv, StartAgain, daemonVars, cacheVars, callVars, Running
<1>6. HealthInv'
  BY DEF HealthInv, StartAgain, daemonVars, cacheVars, callVars, Running
<1>7. QED
  BY <1>1, <1>2, <1>3, <1>4, <1>5, <1>6

\* The handle is dropped of a process that has exited.
LEMMA StatusKeeps == ASSUME IInv, Status PROVE IInv'
<1> USE DEF IInv, SupervisorInv
<1>1. TypeOK'
  <2>1. last_exit_code' \in BOOLEAN /\ failed' \in BOOLEAN
    BY DEF Status, Returns, daemonVars, cacheVars, callVars, Running
  <2>2. QED
    BY <2>1 DEF TypeOK, Status, Returns, daemonVars, cacheVars, callVars,
         Running
<1>2. BirthInv'
  BY DEF BirthInv, Status, Returns, daemonVars, cacheVars, callVars, Running
<1>3. CallInv'
  BY DEF CallInv, Stopping, Status, Returns, daemonVars, cacheVars, callVars,
       Running
<1>4. StrayInv'
  BY DEF StrayInv, Active, Alive, CallInv, Stopping, Status, Returns,
       daemonVars, cacheVars, callVars, Running
<1>5. SocketInv'
  BY DEF SocketInv, Status, Returns, daemonVars, cacheVars, callVars, Running
<1>6. HealthInv'
  BY DEF HealthInv, Status, Returns, daemonVars, cacheVars, callVars, Running
<1>7. QED
  BY <1>1, <1>2, <1>3, <1>4, <1>5, <1>6

\* A refresh starts with nothing seen.
LEMMA RefreshKeeps == ASSUME IInv, Refresh PROVE IInv'
<1> USE DEF IInv, SupervisorInv
<1>1. TypeOK'
  <2>1. last_exit_code' \in BOOLEAN /\ failed' \in BOOLEAN
    BY DEF TypeOK, Refresh, daemonVars, cacheVars, callVars, Running
  <2>2. QED
    BY <2>1 DEF TypeOK, Refresh, daemonVars, cacheVars, callVars, Running
<1>2. BirthInv'
  BY DEF BirthInv, Refresh, daemonVars, cacheVars, callVars, Running
<1>3. CallInv'
  BY DEF CallInv, Stopping, Refresh, daemonVars, cacheVars, callVars, Running
<1>4. StrayInv'
  BY DEF StrayInv, Active, Refresh, daemonVars, cacheVars, callVars, Running
<1>5. SocketInv'
  BY DEF SocketInv, Refresh, daemonVars, cacheVars, callVars, Running
<1>6. HealthInv'
  BY DEF HealthInv, Refresh, daemonVars, cacheVars, callVars, Running
<1>7. QED
  BY <1>1, <1>2, <1>3, <1>4, <1>5, <1>6

\* The handle is dropped, and the process waited for.
LEMMA StopKeeps == ASSUME IInv, Stop PROVE IInv'
<1> USE DEF IInv, SupervisorInv
<1>1. TypeOK'
  <2>1. last_exit_code' \in BOOLEAN /\ failed' \in BOOLEAN
    BY DEF TypeOK, Stop, Returns, StopLocked, daemonVars, cacheVars, callVars,
         Running
  <2>2. /\ spc' \in {"idle", "wait", "ping", "health", "version", "command",
                  "term_wait", "kill_wait"}
        /\ op' \in {"none", "start", "restart", "status", "command", "stop"}
    BY DEF Stop, Returns, StopLocked, daemonVars, cacheVars, callVars, Running
  <2>3. /\ process' \in 0..launched' /\ victim' \in 0..launched'
        /\ seen' \in 0..launched' /\ last_health' \in 0..launched'
    BY DEF TypeOK, Stop, Returns, StopLocked, daemonVars, cacheVars, callVars,
         Running
  <2>4. term' \subseteq Daemons
    <3>1. \/ term' = term
          \/ Running /\ term' = term \cup {process}
      BY DEF Stop, StopLocked
    <3>2. QED
      BY <3>1, TermType
  <2>5. QED
    BY <2>1, <2>2, <2>3, <2>4 DEF TypeOK, Stop, daemonVars, cacheVars, callVars
<1>2. BirthInv'
  BY DEF BirthInv, Stop, Returns, StopLocked, daemonVars, cacheVars, callVars,
       Running
<1>3. CallInv'
  BY DEF CallInv, Stopping, Stop, Returns, StopLocked, daemonVars, cacheVars,
       callVars, Running
<1>4. StrayInv'
  BY DEF StrayInv, Active, Alive, CallInv, Stopping, Stop, Returns, StopLocked,
       daemonVars, cacheVars, callVars, Running
<1>5. SocketInv'
  BY DEF SocketInv, Stop, Returns, StopLocked, daemonVars, cacheVars, callVars,
       Running
<1>6. HealthInv'
  BY DEF HealthInv, Stop, Returns, StopLocked, daemonVars, cacheVars, callVars,
       Running
<1>7. QED
  BY <1>1, <1>2, <1>3, <1>4, <1>5, <1>6

\* A failed start stops what it launched.
LEMMA WaitPollsKeeps == ASSUME IInv, WaitPolls PROVE IInv'
<1> USE DEF IInv, SupervisorInv
<1>1. TypeOK'
  <2>1. last_exit_code' \in BOOLEAN /\ failed' \in BOOLEAN
    BY DEF TypeOK, WaitPolls, Returns, StopLocked, Raise, Running
  <2>2. /\ spc' \in {"idle", "wait", "ping", "health", "version", "command",
                  "term_wait", "kill_wait"}
        /\ op' \in {"none", "start", "restart", "status", "command", "stop"}
    BY DEF TypeOK, WaitPolls, Returns, StopLocked, Raise, Running
  <2>3. /\ process' \in 0..launched' /\ victim' \in 0..launched'
        /\ seen' \in 0..launched' /\ last_health' \in 0..launched'
    BY DEF TypeOK, WaitPolls, Returns, StopLocked, Raise, Running
  <2>4. term' \subseteq Daemons
    <3>1. \/ term' = term
          \/ Running /\ term' = term \cup {process}
      BY DEF WaitPolls, StopLocked, Raise
    <3>2. QED
      BY <3>1, TermType
  <2>5. QED
    BY <2>1, <2>2, <2>3, <2>4 DEF TypeOK, WaitPolls
<1>2. BirthInv'
  BY DEF BirthInv, WaitPolls, Returns, StopLocked, Raise, Running
<1>3. CallInv'
  BY DEF CallInv, Stopping, WaitPolls, Returns, StopLocked, Raise, Running
<1>4. StrayInv'
  BY DEF StrayInv, Active, Alive, CallInv, WaitPolls, Returns, StopLocked,
       Raise, Running
<1>5. SocketInv'
  BY DEF SocketInv, WaitPolls, Returns, StopLocked, Raise, Running
<1>6. HealthInv'
  BY DEF HealthInv, WaitPolls, Returns, StopLocked, Raise, Running
<1>7. QED
  BY <1>1, <1>2, <1>3, <1>4, <1>5, <1>6

\* So does one that meets its deadline.
LEMMA WaitExpiresKeeps == ASSUME IInv, WaitExpires PROVE IInv'
<1> USE DEF IInv, SupervisorInv
<1>1. TypeOK'
  <2>1. last_exit_code' \in BOOLEAN /\ failed' \in BOOLEAN
    BY DEF TypeOK, WaitExpires, Returns, StopLocked, Raise, daemonVars,
         cacheVars, callVars, Running
  <2>2. /\ spc' \in {"idle", "wait", "ping", "health", "version", "command",
                  "term_wait", "kill_wait"}
        /\ op' \in {"none", "start", "restart", "status", "command", "stop"}
    BY DEF WaitExpires, Returns, StopLocked, Raise, daemonVars, cacheVars,
         callVars, Running
  <2>3. /\ process' \in 0..launched' /\ victim' \in 0..launched'
        /\ seen' \in 0..launched' /\ last_health' \in 0..launched'
    BY DEF TypeOK, WaitExpires, Returns, StopLocked, Raise, daemonVars,
         cacheVars, callVars, Running
  <2>4. term' \subseteq Daemons
    <3>1. \/ term' = term
          \/ Running /\ term' = term \cup {process}
      BY DEF WaitExpires, StopLocked, Raise
    <3>2. QED
      BY <3>1, TermType
  <2>5. QED
    BY <2>1, <2>2, <2>3, <2>4 DEF TypeOK, WaitExpires, daemonVars, cacheVars,
         callVars
<1>2. BirthInv'
  BY DEF BirthInv, WaitExpires, Returns, StopLocked, Raise, daemonVars,
       cacheVars, callVars, Running
<1>3. CallInv'
  BY DEF CallInv, Stopping, WaitExpires, Returns, StopLocked, Raise,
       daemonVars, cacheVars, callVars, Running
<1>4. StrayInv'
  BY DEF StrayInv, Active, Alive, CallInv, WaitExpires, Returns, StopLocked,
       Raise, daemonVars, cacheVars, callVars, Running
<1>5. SocketInv'
  BY DEF SocketInv, WaitExpires, Returns, StopLocked, Raise, daemonVars,
       cacheVars, callVars, Running
<1>6. HealthInv'
  BY DEF HealthInv, WaitExpires, Returns, StopLocked, Raise, daemonVars,
       cacheVars, callVars, Running
<1>7. QED
  BY <1>1, <1>2, <1>3, <1>4, <1>5, <1>6

\* Who answers is the process or an orphan.
LEMMA AnsweredKeeps == ASSUME IInv, Answered PROVE IInv'
<1> USE DEF IInv, SupervisorInv
<1>1. path \in {0, launched} \cup orphans /\ path \in 0..launched
  <2>1. path \in 1..launched
    BY DEF Answered, Served, TypeOK, BirthInv
  <2>2. victim = 0 /\ process \in {0, launched}
    BY DEF Answered, Exchanging, CallInv
  <2>3. path \notin orphans => path = process
    BY <2>1, <2>2 DEF Answered, Served, StrayInv, Active
  <2>4. QED
    BY <2>1, <2>2, <2>3
<1>2. /\ seen' \in {0, seen, path} /\ last_health' \in {last_health, seen}
      /\ spc' \in {"idle", "command"} => seen' = 0
      /\ UNCHANGED <<launched, orphans, process, victim>>
  BY DEF Answered, Exchanging, HealthInv, cacheVars
<1>3. TypeOK'
  <2>1. last_exit_code' \in BOOLEAN /\ failed' \in BOOLEAN
    BY DEF TypeOK, Answered, Exchanging, Served, daemonVars, cacheVars,
         callVars
  <2>2. /\ spc' \in {"idle", "wait", "ping", "health", "version", "command",
                  "term_wait", "kill_wait"}
        /\ op' \in {"none", "start", "restart", "status", "command", "stop"}
    BY DEF TypeOK, Answered, Exchanging, Served, daemonVars, cacheVars,
         callVars
  <2>3. /\ process' \in 0..launched' /\ victim' \in 0..launched'
        /\ seen' \in 0..launched' /\ last_health' \in 0..launched'
    BY <1>1, <1>2 DEF TypeOK
  <2>4. QED
    BY <2>1, <2>2, <2>3 DEF TypeOK, Answered, daemonVars, cacheVars, callVars
<1>4. BirthInv'
  BY <1>1, <1>2 DEF BirthInv, Answered, Exchanging, Served, daemonVars,
       cacheVars, callVars
<1>5. CallInv'
  BY <1>1, <1>2 DEF CallInv, Stopping, Answered, Exchanging, Served,
       daemonVars, cacheVars, callVars
<1>6. StrayInv'
  BY <1>1, <1>2 DEF StrayInv, Active, Answered, Exchanging, Served, daemonVars,
       cacheVars, callVars
<1>7. SocketInv'
  BY <1>1, <1>2 DEF SocketInv, Answered, Exchanging, Served, daemonVars,
       cacheVars, callVars
<1>8. HealthInv'
  BY <1>1, <1>2 DEF HealthInv
<1>9. QED
  BY <1>3, <1>4, <1>5, <1>6, <1>7, <1>8

\* An error is an answer too.
LEMMA RefusedKeeps == ASSUME IInv, Refused PROVE IInv'
<1> USE DEF IInv, SupervisorInv
<1>1. TypeOK'
  <2>1. last_exit_code' \in BOOLEAN /\ failed' \in BOOLEAN
    BY DEF TypeOK, Refused, Becomes, Logs, Returns, Served, daemonVars,
         cacheVars, callVars
  <2>2. /\ spc' \in {"idle", "wait", "ping", "health", "version", "command",
                  "term_wait", "kill_wait"}
        /\ op' \in {"none", "start", "restart", "status", "command", "stop"}
    BY DEF TypeOK, Refused, Becomes, Logs, Returns, Served, daemonVars,
         cacheVars, callVars
  <2>3. /\ process' \in 0..launched' /\ victim' \in 0..launched'
        /\ seen' \in 0..launched' /\ last_health' \in 0..launched'
    BY DEF TypeOK, Refused, Becomes, Logs, Returns, Served, daemonVars,
         cacheVars, callVars
  <2>4. /\ daemon' \in [Daemons -> {"unborn", "spawned", "listening", "serving",
                               "stuck", "closing", "killed", "dead"}]
        /\ room' \in [Daemons -> 0..PipeCapacity]
    BY BoundsAssumption DEF TypeOK, Refused, Becomes, Logs, Returns, Served,
         daemonVars, cacheVars, callVars
  <2>5. QED
    BY <2>1, <2>2, <2>3, <2>4 DEF TypeOK, Refused, daemonVars, cacheVars,
         callVars
<1>2. BirthInv'
  BY DEF TypeOK, BirthInv, Refused, Becomes, Logs, Returns, Served, daemonVars,
       cacheVars, callVars
<1>3. CallInv'
  BY DEF CallInv, Stopping, Refused, Becomes, Logs, Returns, Served,
       daemonVars, cacheVars, callVars
<1>4. StrayInv'
  BY BoundsAssumption DEF TypeOK, StrayInv, Active, CallInv, Refused, Becomes,
       Logs, Returns, Served, daemonVars, cacheVars, callVars, Daemons
<1>5. SocketInv'
  BY DEF TypeOK, SocketInv, Refused, Becomes, Logs, Returns, Served,
       daemonVars, cacheVars, callVars
<1>6. HealthInv'
  BY DEF HealthInv, Refused, Becomes, Logs, Returns, Served, daemonVars,
       cacheVars, callVars
<1>7. QED
  BY <1>1, <1>2, <1>3, <1>4, <1>5, <1>6

\* A failed exchange keeps the process.
LEMMA TransportErrorKeeps == ASSUME IInv, TransportError PROVE IInv'
<1> USE DEF IInv, SupervisorInv
<1>1. TypeOK'
  <2>1. last_exit_code' \in BOOLEAN /\ failed' \in BOOLEAN
    BY DEF TypeOK, TransportError, Returns, Exchanging, Abandons, daemonVars,
         cacheVars, callVars
  <2>2. /\ spc' \in {"idle", "wait", "ping", "health", "version", "command",
                  "term_wait", "kill_wait"}
        /\ op' \in {"none", "start", "restart", "status", "command", "stop"}
    BY DEF TransportError, Returns, Exchanging, Abandons, daemonVars,
         cacheVars, callVars
  <2>3. /\ process' \in 0..launched' /\ victim' \in 0..launched'
        /\ seen' \in 0..launched' /\ last_health' \in 0..launched'
    BY DEF TypeOK, TransportError, Returns, Exchanging, Abandons, daemonVars,
         cacheVars, callVars
  <2>4. pending' \in [Daemons -> 0..Backlog]
    BY BoundsAssumption DEF TypeOK, TransportError, Returns, Exchanging,
         Abandons, daemonVars, cacheVars, callVars
  <2>5. QED
    BY <2>1, <2>2, <2>3, <2>4 DEF TypeOK, TransportError, daemonVars,
         cacheVars, callVars
<1>2. BirthInv'
  BY DEF BirthInv, TransportError, Returns, Exchanging, Abandons, daemonVars,
       cacheVars, callVars
<1>3. CallInv'
  BY DEF CallInv, Stopping, TransportError, Returns, Exchanging, Abandons,
       daemonVars, cacheVars, callVars
<1>4. StrayInv'
  BY DEF StrayInv, Active, CallInv, TransportError, Returns, Exchanging,
       Abandons, daemonVars, cacheVars, callVars
<1>5. SocketInv'
  BY DEF SocketInv, TransportError, Returns, Exchanging, Abandons, daemonVars,
       cacheVars, callVars
<1>6. HealthInv'
  BY DEF HealthInv, TransportError, Returns, Exchanging, Abandons, daemonVars,
       cacheVars, callVars
<1>7. QED
  BY <1>1, <1>2, <1>3, <1>4, <1>5, <1>6

\* The daemon that died was the process, or the process is stopped.
LEMMA ProtocolErrorKeeps == ASSUME IInv, ProtocolError PROVE IInv'
<1> USE DEF IInv, SupervisorInv
<1>1. TypeOK'
  <2>1. last_exit_code' \in BOOLEAN /\ failed' \in BOOLEAN
    BY DEF TypeOK, ProtocolError, Becomes, Returns, StopLocked, Raise,
         Exchanging, Served, daemonVars, cacheVars, callVars, Running
  <2>2. /\ spc' \in {"idle", "wait", "ping", "health", "version", "command",
                  "term_wait", "kill_wait"}
        /\ op' \in {"none", "start", "restart", "status", "command", "stop"}
    BY DEF ProtocolError, Becomes, Returns, StopLocked, Raise, Exchanging,
         Served, daemonVars, cacheVars, callVars, Running
  <2>3. /\ process' \in 0..launched' /\ victim' \in 0..launched'
        /\ seen' \in 0..launched' /\ last_health' \in 0..launched'
    <3>1. /\ process' \in {0, process} /\ victim' \in {0, process, victim}
          /\ seen' \in {0, seen} /\ UNCHANGED <<last_health, launched>>
      BY DEF ProtocolError, Raise, StopLocked, Returns, cacheVars
    <3>2. QED
      BY <3>1 DEF TypeOK
  <2>4. term' \subseteq Daemons
    <3>1. \/ term' = term
          \/ Running /\ term' = term \cup {process}
      BY DEF ProtocolError, StopLocked, Raise
    <3>2. QED
      BY <3>1, TermType
  <2>5. /\ daemon' \in [Daemons -> {"unborn", "spawned", "listening", "serving",
                               "stuck", "closing", "killed", "dead"}]
        /\ room' \in [Daemons -> 0..PipeCapacity]
    BY DEF TypeOK, ProtocolError, Becomes, Returns, StopLocked, Raise,
         Exchanging, Served, daemonVars, cacheVars, callVars, Running
  <2>6. QED
    BY <2>1, <2>2, <2>3, <2>4, <2>5 DEF TypeOK, ProtocolError, daemonVars,
         cacheVars, callVars
<1>2. BirthInv'
  BY DEF BirthInv, ProtocolError, Becomes, Returns, StopLocked, Raise,
       Exchanging, Served, daemonVars, cacheVars, callVars, Running
<1>3. CallInv'
  BY DEF CallInv, Stopping, ProtocolError, Becomes, Returns, StopLocked, Raise,
       Exchanging, Served, daemonVars, cacheVars, callVars, Running
<1>4. StrayInv'
  BY DEF TypeOK, StrayInv, Active, Alive, CallInv, ProtocolError, Becomes,
       Returns, StopLocked, Raise, Exchanging, Served, daemonVars, cacheVars,
       callVars, Running, Daemons
<1>5. SocketInv'
  BY DEF SocketInv, ProtocolError, Becomes, Returns, StopLocked, Raise,
       Exchanging, Served, daemonVars, cacheVars, callVars, Running
<1>6. HealthInv'
  BY DEF HealthInv, ProtocolError, Becomes, Returns, StopLocked, Raise,
       Exchanging, Served, daemonVars, cacheVars, callVars, Running
<1>7. QED
  BY <1>1, <1>2, <1>3, <1>4, <1>5, <1>6

\* The process that was waited for has exited.
LEMMA WaitedKeeps == ASSUME IInv, Waited PROVE IInv'
<1> USE DEF IInv, SupervisorInv
<1>1. TypeOK'
  <2>1. last_exit_code' \in BOOLEAN /\ failed' \in BOOLEAN
    BY DEF TypeOK, Waited, Returns, Forget, daemonVars, cacheVars, callVars
  <2>2. QED
    BY <2>1 DEF TypeOK, Waited, Returns, Forget, daemonVars, cacheVars,
         callVars
<1>2. BirthInv'
  BY DEF BirthInv, Waited, Returns, Forget, daemonVars, cacheVars, callVars
<1>3. CallInv'
  BY DEF CallInv, Stopping, Waited, Returns, Forget, daemonVars, cacheVars,
       callVars
<1>4. StrayInv'
  BY DEF StrayInv, Active, Alive, Waited, Returns, Forget, daemonVars,
       cacheVars, callVars
<1>5. SocketInv'
  BY DEF SocketInv, Waited, Returns, Forget, daemonVars, cacheVars, callVars
<1>6. HealthInv'
  BY DEF HealthInv, Waited, Returns, Forget, daemonVars, cacheVars, callVars
<1>7. QED
  BY <1>1, <1>2, <1>3, <1>4, <1>5, <1>6

\* A killed process runs no code.
LEMMA TermExpiresKeeps == ASSUME IInv, TermExpires PROVE IInv'
<1> USE DEF IInv, SupervisorInv
<1>1. TypeOK'
  <2>1. last_exit_code' \in BOOLEAN /\ failed' \in BOOLEAN
    BY DEF TypeOK, TermExpires, Becomes, daemonVars, cacheVars, callVars
  <2>2. QED
    BY <2>1 DEF TypeOK, TermExpires, Becomes, daemonVars, cacheVars, callVars
<1>2. BirthInv'
  BY DEF TypeOK, BirthInv, TermExpires, Becomes, daemonVars, cacheVars,
       callVars
<1>3. CallInv'
  BY DEF TypeOK, CallInv, Stopping, TermExpires, Becomes, daemonVars,
       cacheVars, callVars, Daemons
<1>4. StrayInv'
  BY DEF StrayInv, Active, TermExpires, Becomes, daemonVars, cacheVars,
       callVars
<1>5. SocketInv'
  BY DEF SocketInv, TermExpires, Becomes, daemonVars, cacheVars, callVars
<1>6. HealthInv'
  BY DEF HealthInv, TermExpires, Becomes, daemonVars, cacheVars, callVars
<1>7. QED
  BY <1>1, <1>2, <1>3, <1>4, <1>5, <1>6

\* What is left behind was killed.
LEMMA KillExpiresKeeps == ASSUME IInv, KillExpires PROVE IInv'
<1> USE DEF IInv, SupervisorInv
<1>1. TypeOK'
  <2>1. last_exit_code' \in BOOLEAN /\ failed' \in BOOLEAN
    BY DEF TypeOK, KillExpires, Returns, daemonVars, cacheVars, callVars
  <2>2. QED
    BY <2>1 DEF TypeOK, KillExpires, Returns, daemonVars, cacheVars, callVars
<1>2. BirthInv'
  BY DEF BirthInv, KillExpires, Returns, daemonVars, cacheVars, callVars
<1>3. CallInv'
  BY DEF CallInv, Stopping, KillExpires, Returns, daemonVars, cacheVars,
       callVars
<1>4. StrayInv'
  BY DEF StrayInv, Active, CallInv, KillExpires, Returns, daemonVars,
       cacheVars, callVars
<1>5. SocketInv'
  BY DEF SocketInv, KillExpires, Returns, daemonVars, cacheVars, callVars
<1>6. HealthInv'
  BY DEF HealthInv, KillExpires, Returns, daemonVars, cacheVars, callVars
<1>7. QED
  BY <1>1, <1>2, <1>3, <1>4, <1>5, <1>6

\* All that is alive becomes an orphan.
LEMMA ControllerCrashesKeeps == ASSUME IInv, ControllerCrashes PROVE IInv'
<1> USE DEF IInv, SupervisorInv
<1>1. TypeOK'
  <2>1. last_exit_code' \in BOOLEAN /\ failed' \in BOOLEAN
    BY DEF ControllerCrashes, Returns
  <2>2. QED
    BY <2>1, BoundsAssumption DEF TypeOK, ControllerCrashes, Returns, Daemons
<1>2. BirthInv'
  BY DEF BirthInv, ControllerCrashes, Returns
<1>3. CallInv'
  BY DEF CallInv, Stopping, ControllerCrashes, Returns
<1>4. StrayInv'
  BY BoundsAssumption DEF TypeOK, StrayInv, Active, Alive, ControllerCrashes,
       Returns, Daemons
<1>5. SocketInv'
  <2> SUFFICES ASSUME orphans' = {}, NEW e \in Daemons,
                      daemon'[e] \in {"listening", "serving", "stuck"}
               PROVE  FALSE
    BY DEF SocketInv
  <2>1. Alive(e)
    BY DEF ControllerCrashes, Alive
  <2>2. e <= launched
    BY <2>1 DEF BirthInv, Alive, TypeOK, Daemons
  <2>3. QED
    BY <2>1, <2>2 DEF ControllerCrashes
<1>6. HealthInv'
  BY DEF HealthInv, ControllerCrashes, Returns
<1>7. QED
  BY <1>1, <1>2, <1>3, <1>4, <1>5, <1>6

\* Every step of a daemon, of a call and of the controller's life keeps it.
LEMMA SupervisorStep == IInv /\ [Next]_vars => IInv'
<1>1. IInv /\ UNCHANGED vars => IInv'
  BY DEF IInv, SupervisorInv, TypeOK, BirthInv, CallInv, StrayInv, SocketInv,
       HealthInv, Stopping, Active, vars, daemonVars, cacheVars, callVars
<1>2. ASSUME IInv, NEW d \in Daemons, DaemonStep(d) \/ Interrupted(d) \/
     Dies(d) \/ OrphanSignalled(d) PROVE IInv'
  BY <1>2, BindKeeps, ServeKeeps, WarnKeeps, InterruptedKeeps, SeesSignalKeeps,
       CloseKeeps, DiesKeeps, OrphanSignalledKeeps DEF DaemonStep
<1>3. QED
  BY <1>1, <1>2, LaunchKeeps, StartAgainKeeps, StatusKeeps, RefreshKeeps,
       StopKeeps, WaitPollsKeeps, WaitExpiresKeeps, AnsweredKeeps,
       RefusedKeeps, TransportErrorKeeps, ProtocolErrorKeeps, WaitedKeeps,
       TermExpiresKeeps, KillExpiresKeeps, ControllerCrashesKeeps DEF Next,
       CallStep

LEMMA SupervisorCorrect == Spec => []IInv
BY SupervisorInit, SupervisorStep, PTL DEF Spec

\* Every variable of the supervisor and the daemons keeps its type; in
\* particular abandoned requests never exceed the backlog (ipc_server.c:117).
THEOREM TypeCorrect == Spec => []TypeOK
<1>1. IInv => TypeOK
  BY DEF IInv
<1>2. QED
  BY <1>1, SupervisorCorrect, PTL

\* Neither a failed start nor a stop leaves a daemon behind: between calls
\* what is left is the managed process and what was killed
\* (supervisor.py:114-118, 334-360).
THEOREM StraySafety == Spec => []NoStrays
<1>1. IInv => NoStrays
  BY DEF IInv, SupervisorInv, StrayInv, CallInv, Stopping, NoStrays, Active,
       Alive
<1>2. QED
  BY <1>1, SupervisorCorrect, PTL

\* As long as the managed daemon serves, the path names its socket, unless a
\* crashed controller left another one (ipc_server.c:110, 267;
\* supervisor.py:334-353).
THEOREM SocketSafety == Spec => []SocketIsManaged
<1>1. IInv => SocketIsManaged
  BY BoundsAssumption DEF IInv, SupervisorInv, SocketInv, SocketIsManaged,
       TypeOK, Daemons
<1>2. QED
  BY <1>1, SupervisorCorrect, PTL

\* The health the supervisor shows is the one of the process it launched last
\* or of an orphan (supervisor.py:95-98, 320-323).
THEOREM HealthSafety == Spec => []HealthIsOfLastStart
<1>1. IInv => HealthIsOfLastStart
  BY DEF IInv, SupervisorInv, HealthInv, HealthIsOfLastStart
<1>2. QED
  BY <1>1, SupervisorCorrect, PTL
=============================================================================
