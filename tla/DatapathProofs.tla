--------------------------- MODULE DatapathProofs ---------------------------
(***************************************************************************)
(* Proofs about Datapath, for every set of mbufs, burst size and number of *)
(* bursts.                                                                 *)
(***************************************************************************)
EXTENDS Datapath, TLAPS

\* While a burst is classified the front of packets[] never overtakes the
\* packet looked at; TypeOK is not inductive without it.
BurstIndex ==
    wpc = "classify" => candidate_count <= index /\ index <= rx_count

TypeInv == TypeOK /\ BurstIndex

\* The state of the daemon before main has done anything.
LEMMA TypeInit == Init => TypeInv
  <1> SUFFICES ASSUME Init PROVE TypeInv
    OBVIOUS
  <1> USE DEF Init
  <1>1. MainType
    BY DEF MainType, MainPoints, HealthStates
  <1>2. FlagType /\ ResourceType /\ HandshakeType
    BY DEF FlagType, ResourceType, HandshakeType
  <1>3. WorkerType
    <2>1. dir \in 0..1
      OBVIOUS
    <2> QED
      BY <2>1 DEF WorkerType
  <1>4. BurstType
    BY BurstSizeAssumption DEF BurstType, EmptyBurst, NoPackets, Slots
  <1>5. StatsType
    BY DEF StatsType, NoPackets
  <1> QED
    BY <1>1, <1>2, <1>3, <1>4, <1>5 DEF TypeInv, TypeOK, BurstIndex

\* No step of either thread leaves the types (datapath.c:144-206 for the
\* indexes and counters of a burst).
LEMMA TypeStep == TypeInv /\ [Next]_vars => TypeInv'
  <1> SUFFICES ASSUME TypeInv, [Next]_vars PROVE TypeInv'
    OBVIOUS
  <1> USE DEF TypeInv, TypeOK, BurstIndex, mainVars, flagVars, resVars,
          syncVars, workerVars, burstVars, statsVars
  <1>1. CASE DaemonInit
    <2>1. MainType'
      BY <1>1 DEF DaemonInit, MainType, MainPoints, HealthStates
    <2>2. FlagType'
      BY <1>1 DEF DaemonInit, FlagType
    <2>3. ResourceType'
      BY <1>1 DEF DaemonInit, ResourceType, Resources, ForwardingResources,
          Ports
    <2>4. BurstIndex' /\ (afterPause \in Nat)'
      BY <1>1, BurstSizeAssumption DEF DaemonInit, BurstType, WorkerType
    <2> QED
      BY <2>1, <2>2, <2>3, <2>4, <1>1 DEF DaemonInit, HandshakeType,
          WorkerType, BurstType, StatsType
  <1>2. CASE DaemonInitFails
    <2>1. MainType'
      BY <1>2 DEF DaemonInitFails, MainType, MainPoints, HealthStates
    <2>2. FlagType'
      BY <1>2 DEF DaemonInitFails, FlagType
    <2>3. ResourceType'
      BY <1>2 DEF DaemonInitFails, ResourceType, Resources,
          ForwardingResources, Ports
    <2>4. BurstIndex' /\ (afterPause \in Nat)'
      BY <1>2, BurstSizeAssumption DEF DaemonInitFails, BurstType, WorkerType
    <2> QED
      BY <2>1, <2>2, <2>3, <2>4, <1>2 DEF DaemonInitFails, HandshakeType,
          WorkerType, BurstType, StatsType
  <1>3. CASE StartDegraded
    <2>1. MainType'
      BY <1>3 DEF StartDegraded, StartedHealth, MainType, FlagType,
          ResourceType, MainPoints, HealthStates
    <2>2. FlagType'
      BY <1>3 DEF StartDegraded, StartedHealth, FlagType
    <2>3. BurstIndex' /\ (afterPause \in Nat)'
      BY <1>3, BurstSizeAssumption DEF StartDegraded, StartedHealth,
          BurstType, WorkerType
    <2> QED
      BY <2>1, <2>2, <2>3, <1>3 DEF StartDegraded, StartedHealth,
          ResourceType, HandshakeType, WorkerType, BurstType, StatsType
  <1>4. CASE EalStart
    <2>1. MainType'
      BY <1>4 DEF EalStart, MainType, MainPoints, HealthStates
    <2>2. FlagType'
      BY <1>4 DEF EalStart, FlagType
    <2>3. ResourceType'
      BY <1>4 DEF EalStart, ResourceType, Resources, ForwardingResources,
          Ports
    <2>4. BurstIndex' /\ (afterPause \in Nat)'
      BY <1>4, BurstSizeAssumption DEF EalStart, BurstType, WorkerType
    <2> QED
      BY <2>1, <2>2, <2>3, <2>4, <1>4 DEF EalStart, HandshakeType, WorkerType,
          BurstType, StatsType
  <1>5. CASE EalStartFails
    <2>1. MainType'
      BY <1>5 DEF EalStartFails, RunFails, MainType, MainPoints, HealthStates
    <2>2. FlagType'
      BY <1>5 DEF EalStartFails, RunFails, FlagType
    <2>3. BurstIndex' /\ (afterPause \in Nat)'
      BY <1>5, BurstSizeAssumption DEF EalStartFails, RunFails, BurstType,
          WorkerType
    <2> QED
      BY <2>1, <2>2, <2>3, <1>5 DEF EalStartFails, RunFails, ResourceType,
          HandshakeType, WorkerType, BurstType, StatsType
  <1>6. CASE PortsStart
    <2>1. MainType'
      BY <1>6 DEF PortsStart, MainType, MainPoints, HealthStates
    <2>2. ResourceType'
      BY <1>6 DEF PortsStart, ResourceType, Resources, ForwardingResources,
          Ports
    <2>3. BurstIndex' /\ (afterPause \in Nat)'
      BY <1>6, BurstSizeAssumption DEF PortsStart, BurstType, WorkerType
    <2> QED
      BY <2>1, <2>2, <2>3, <1>6 DEF PortsStart, FlagType, HandshakeType,
          WorkerType, BurstType, StatsType
  <1>7. CASE PortsStartFails
    <2>1. MainType'
      BY <1>7 DEF PortsStartFails, MainType, MainPoints, HealthStates
    <2>2. ResourceType'
      BY <1>7 DEF PortsStartFails, ResourceType, Resources,
          ForwardingResources, Ports
    <2>3. BurstIndex' /\ (afterPause \in Nat)'
      BY <1>7, BurstSizeAssumption DEF PortsStartFails, BurstType, WorkerType
    <2> QED
      BY <2>1, <2>2, <2>3, <1>7 DEF PortsStartFails, FlagType, HandshakeType,
          WorkerType, BurstType, StatsType
  <1>8. CASE StartWorker
    <2>1. MainType'
      BY <1>8 DEF StartWorker, MainType, MainPoints, HealthStates
    <2>2. FlagType'
      BY <1>8 DEF StartWorker, FlagType
    <2>3. ResourceType'
      BY <1>8 DEF StartWorker, ResourceType, Resources, ForwardingResources,
          Ports
    <2>4. HandshakeType'
      BY <1>8 DEF StartWorker, HandshakeType
    <2>5. WorkerType'
      BY <1>8 DEF StartWorker, WorkerType, Alive, Forwarding,
          InForwardDirection
    <2>6. StatsType'
      BY <1>8 DEF StartWorker, StatsType, NoPackets, Fields
    <2>7. BurstIndex' /\ (afterPause \in Nat)'
      BY <1>8, BurstSizeAssumption DEF StartWorker, BurstType, WorkerType
    <2> QED
      BY <2>1, <2>2, <2>3, <2>4, <2>5, <2>6, <2>7, <1>8 DEF StartWorker,
          BurstType
  <1>9. CASE StartWorkerFails
    <2>1. MainType'
      BY <1>9 DEF StartWorkerFails, MainType, MainPoints, HealthStates
    <2>2. FlagType'
      BY <1>9 DEF StartWorkerFails, FlagType
    <2>3. ResourceType'
      BY <1>9 DEF StartWorkerFails, ResourceType, Resources,
          ForwardingResources, Ports
    <2>4. HandshakeType'
      BY <1>9 DEF StartWorkerFails, HandshakeType
    <2>5. StatsType'
      BY <1>9 DEF StartWorkerFails, StatsType, NoPackets, Fields
    <2>6. BurstIndex' /\ (afterPause \in Nat)'
      BY <1>9, BurstSizeAssumption DEF StartWorkerFails, BurstType, WorkerType
    <2> QED
      BY <2>1, <2>2, <2>3, <2>4, <2>5, <2>6, <1>9 DEF StartWorkerFails,
          WorkerType, BurstType
  <1>10. CASE AwaitLock
    <2>1. MainType'
      BY <1>10 DEF AwaitLock, MainType, MainPoints, HealthStates
    <2>2. HandshakeType'
      BY <1>10 DEF AwaitLock, HandshakeType
    <2>3. BurstIndex' /\ (afterPause \in Nat)'
      BY <1>10, BurstSizeAssumption DEF AwaitLock, BurstType, WorkerType
    <2> QED
      BY <2>1, <2>2, <2>3, <1>10 DEF AwaitLock, FlagType, ResourceType,
          WorkerType, BurstType, StatsType
  <1>11. CASE AwaitSleep
    <2>1. MainType'
      BY <1>11 DEF AwaitSleep, MainType, MainPoints, HealthStates
    <2>2. HandshakeType'
      BY <1>11 DEF AwaitSleep, HandshakeType
    <2>3. BurstIndex' /\ (afterPause \in Nat)'
      BY <1>11, BurstSizeAssumption DEF AwaitSleep, BurstType, WorkerType
    <2> QED
      BY <2>1, <2>2, <2>3, <1>11 DEF AwaitSleep, FlagType, ResourceType,
          WorkerType, BurstType, StatsType
  <1>12. CASE WorkerStarted
    <2>1. MainType'
      BY <1>12 DEF WorkerStarted, StartedHealth, MainType, FlagType,
          ResourceType, MainPoints, HealthStates
    <2>2. FlagType'
      BY <1>12 DEF WorkerStarted, StartedHealth, FlagType, ResourceType
    <2>3. HandshakeType'
      BY <1>12 DEF WorkerStarted, StartedHealth, HandshakeType
    <2>4. BurstIndex' /\ (afterPause \in Nat)'
      BY <1>12, BurstSizeAssumption DEF WorkerStarted, StartedHealth,
          BurstType, WorkerType
    <2> QED
      BY <2>1, <2>2, <2>3, <2>4, <1>12 DEF WorkerStarted, StartedHealth,
          ResourceType, WorkerType, BurstType, StatsType
  <1>13. CASE WorkerRefused
    <2>1. MainType'
      BY <1>13 DEF WorkerRefused, MainType, MainPoints, HealthStates
    <2>2. FlagType'
      BY <1>13 DEF WorkerRefused, FlagType
    <2>3. HandshakeType'
      BY <1>13 DEF WorkerRefused, HandshakeType
    <2>4. BurstIndex' /\ (afterPause \in Nat)'
      BY <1>13, BurstSizeAssumption DEF WorkerRefused, BurstType, WorkerType
    <2> QED
      BY <2>1, <2>2, <2>3, <2>4, <1>13 DEF WorkerRefused, ResourceType,
          WorkerType, BurstType, StatsType
  <1>14. CASE JoinRefused
    <2>1. MainType'
      BY <1>14 DEF JoinRefused, MainType, MainPoints, HealthStates
    <2>2. HandshakeType'
      BY <1>14 DEF JoinRefused, HandshakeType
    <2>3. BurstIndex' /\ (afterPause \in Nat)'
      BY <1>14, BurstSizeAssumption DEF JoinRefused, BurstType, WorkerType
    <2> QED
      BY <2>1, <2>2, <2>3, <1>14 DEF JoinRefused, FlagType, ResourceType,
          WorkerType, BurstType, StatsType
  <1>15. CASE UndoStart
    <2>1. MainType'
      BY <1>15 DEF UndoStart, RunFails, ReleasePortsAndEal, MainType,
          MainPoints, HealthStates
    <2>2. ResourceType'
      BY <1>15 DEF UndoStart, RunFails, ReleasePortsAndEal, ResourceType,
          Resources, ForwardingResources, Ports
    <2>3. BurstType'
      BY <1>15, BurstSizeAssumption DEF UndoStart, RunFails,
          ReleasePortsAndEal, BurstType, Slots, EmptyBurst, NoPackets, Fields
    <2>4. BurstIndex' /\ (afterPause \in Nat)'
      BY <1>15, BurstSizeAssumption DEF UndoStart, RunFails,
          ReleasePortsAndEal, BurstType, WorkerType
    <2> QED
      BY <2>1, <2>2, <2>3, <2>4, <1>15 DEF UndoStart, RunFails,
          ReleasePortsAndEal, FlagType, HandshakeType, WorkerType, StatsType
  <1>16. CASE LeaveServe
    <2>1. MainType'
      BY <1>16 DEF LeaveServe, MainType, MainPoints, HealthStates
    <2>2. BurstIndex' /\ (afterPause \in Nat)'
      BY <1>16, BurstSizeAssumption DEF LeaveServe, BurstType, WorkerType
    <2> QED
      BY <2>1, <2>2, <1>16 DEF LeaveServe, FlagType, ResourceType,
          HandshakeType, WorkerType, BurstType, StatsType
  <1>17. CASE CleanupStop
    <2>1. MainType'
      BY <1>17 DEF CleanupStop, MainType, MainPoints, HealthStates
    <2>2. FlagType'
      BY <1>17 DEF CleanupStop, FlagType, HandshakeType
    <2>3. BurstIndex' /\ (afterPause \in Nat)'
      BY <1>17, BurstSizeAssumption DEF CleanupStop, BurstType, WorkerType
    <2> QED
      BY <2>1, <2>2, <2>3, <1>17 DEF CleanupStop, ResourceType, HandshakeType,
          WorkerType, BurstType, StatsType
  <1>18. CASE CleanupJoin
    <2>1. MainType'
      BY <1>18 DEF CleanupJoin, MainType, MainPoints, HealthStates
    <2>2. FlagType'
      BY <1>18 DEF CleanupJoin, FlagType
    <2>3. HandshakeType'
      BY <1>18 DEF CleanupJoin, HandshakeType
    <2>4. BurstIndex' /\ (afterPause \in Nat)'
      BY <1>18, BurstSizeAssumption DEF CleanupJoin, BurstType, WorkerType
    <2> QED
      BY <2>1, <2>2, <2>3, <2>4, <1>18 DEF CleanupJoin, ResourceType,
          WorkerType, BurstType, StatsType
  <1>19. CASE CleanupRelease
    <2>1. MainType'
      BY <1>19 DEF CleanupRelease, MainType, MainPoints, HealthStates
    <2>2. FlagType'
      BY <1>19 DEF CleanupRelease, FlagType
    <2>3. ResourceType'
      BY <1>19 DEF CleanupRelease, ResourceType, Resources,
          ForwardingResources, Ports
    <2>4. BurstType'
      BY <1>19, BurstSizeAssumption DEF CleanupRelease, BurstType, Slots,
          EmptyBurst, NoPackets, Fields
    <2>5. BurstIndex' /\ (afterPause \in Nat)'
      BY <1>19, BurstSizeAssumption DEF CleanupRelease, BurstType, WorkerType
    <2> QED
      BY <2>1, <2>2, <2>3, <2>4, <2>5, <1>19 DEF CleanupRelease,
          HandshakeType, WorkerType, StatsType
  <1>20. CASE ServePoll
    <2>1. MainType'
      BY <1>20 DEF ServePoll, MainType, MainPoints, HealthStates
    <2>2. BurstIndex' /\ (afterPause \in Nat)'
      BY <1>20, BurstSizeAssumption DEF ServePoll, BurstType, WorkerType
    <2> QED
      BY <2>1, <2>2, <1>20 DEF ServePoll, FlagType, ResourceType,
          HandshakeType, WorkerType, BurstType, StatsType
  <1>21. CASE PollTimeout
    <2>1. MainType'
      BY <1>21 DEF PollTimeout, MainType, MainPoints, HealthStates
    <2>2. BurstIndex' /\ (afterPause \in Nat)'
      BY <1>21, BurstSizeAssumption DEF PollTimeout, BurstType, WorkerType
    <2> QED
      BY <2>1, <2>2, <1>21 DEF PollTimeout, FlagType, ResourceType,
          HandshakeType, WorkerType, BurstType, StatsType
  <1>22. CASE PollError
    <2>1. MainType'
      BY <1>22 DEF PollError, RunFails, MainType, MainPoints, HealthStates
    <2>2. BurstIndex' /\ (afterPause \in Nat)'
      BY <1>22, BurstSizeAssumption DEF PollError, RunFails, BurstType,
          WorkerType
    <2> QED
      BY <2>1, <2>2, <1>22 DEF PollError, RunFails, FlagType, ResourceType,
          HandshakeType, WorkerType, BurstType, StatsType
  <1>23. CASE Accept
    <2>1. MainType'
      BY <1>23 DEF Accept, MainType, MainPoints, HealthStates
    <2>2. BurstIndex' /\ (afterPause \in Nat)'
      BY <1>23, BurstSizeAssumption DEF Accept, BurstType, WorkerType
    <2> QED
      BY <2>1, <2>2, <1>23 DEF Accept, FlagType, ResourceType, HandshakeType,
          WorkerType, BurstType, StatsType
  <1>24. CASE Pause
    <2>1. MainType'
      BY <1>24 DEF Pause, MainType, FlagType, ResourceType, MainPoints,
          HealthStates
    <2>2. FlagType'
      BY <1>24 DEF Pause, FlagType
    <2>3. BurstIndex' /\ (afterPause \in Nat)'
      BY <1>24, BurstSizeAssumption DEF Pause, BurstType, WorkerType
    <2> QED
      BY <2>1, <2>2, <2>3, <1>24 DEF Pause, ResourceType, HandshakeType,
          WorkerType, BurstType, StatsType
  <1>25. CASE Resume
    <2>1. MainType'
      BY <1>25 DEF Resume, StartedHealth, MainType, FlagType, ResourceType,
          MainPoints, HealthStates
    <2>2. FlagType'
      BY <1>25 DEF Resume, StartedHealth, FlagType
    <2>3. BurstIndex' /\ (afterPause \in Nat)'
      BY <1>25, BurstSizeAssumption DEF Resume, StartedHealth, BurstType,
          WorkerType
    <2> QED
      BY <2>1, <2>2, <2>3, <1>25 DEF Resume, StartedHealth, ResourceType,
          HandshakeType, WorkerType, BurstType, StatsType
  <1>26. CASE ResetStats
    <2>1. StatsType'
      BY <1>26 DEF ResetStats, StatsType, NoPackets, Fields
    <2>2. BurstIndex' /\ (afterPause \in Nat)'
      BY <1>26, BurstSizeAssumption DEF ResetStats, BurstType, WorkerType
    <2> QED
      BY <2>1, <2>2, <1>26 DEF ResetStats, MainType, FlagType, ResourceType,
          HandshakeType, WorkerType, BurstType
  <1>27. CASE GetStats
    <2>1. StatsType'
      BY <1>27 DEF GetStats, StatsType, NoPackets, Fields
    <2>2. BurstIndex' /\ (afterPause \in Nat)'
      BY <1>27, BurstSizeAssumption DEF GetStats, BurstType, WorkerType
    <2> QED
      BY <2>1, <2>2, <1>27 DEF GetStats, MainType, FlagType, ResourceType,
          HandshakeType, WorkerType, BurstType
  <1>28. CASE Hangup
    <2>1. MainType'
      BY <1>28 DEF Hangup, MainType, MainPoints, HealthStates
    <2>2. BurstIndex' /\ (afterPause \in Nat)'
      BY <1>28, BurstSizeAssumption DEF Hangup, BurstType, WorkerType
    <2> QED
      BY <2>1, <2>2, <1>28 DEF Hangup, FlagType, ResourceType, HandshakeType,
          WorkerType, BurstType, StatsType
  <1>29. CASE Register
    <2>1. WorkerType'
      BY <1>29 DEF Register, WorkerType, Alive, Forwarding, InForwardDirection
    <2>2. BurstIndex' /\ (afterPause \in Nat)'
      BY <1>29, BurstSizeAssumption DEF Register, BurstType, WorkerType
    <2> QED
      BY <2>1, <2>2, <1>29 DEF Register, MainType, FlagType, ResourceType,
          HandshakeType, BurstType, StatsType
  <1>30. CASE SignalLock
    <2>1. HandshakeType'
      BY <1>30 DEF SignalLock, HandshakeType
    <2>2. WorkerType'
      BY <1>30 DEF SignalLock, WorkerType, Alive, Forwarding,
          InForwardDirection
    <2>3. BurstIndex' /\ (afterPause \in Nat)'
      BY <1>30, BurstSizeAssumption DEF SignalLock, BurstType, WorkerType
    <2> QED
      BY <2>1, <2>2, <2>3, <1>30 DEF SignalLock, MainType, FlagType,
          ResourceType, BurstType, StatsType
  <1>31. CASE Signal
    <2>1. MainType'
      BY <1>31 DEF Signal, MainType, MainPoints, HealthStates
    <2>2. HandshakeType'
      BY <1>31 DEF Signal, HandshakeType, WorkerType
    <2>3. WorkerType'
      BY <1>31 DEF Signal, WorkerType, Alive, Forwarding, InForwardDirection
    <2>4. BurstIndex' /\ (afterPause \in Nat)'
      BY <1>31, BurstSizeAssumption DEF Signal, BurstType, WorkerType
    <2> QED
      BY <2>1, <2>2, <2>3, <2>4, <1>31 DEF Signal, FlagType, ResourceType,
          BurstType, StatsType
  <1>32. CASE Loop
    <2>1. WorkerType'
      BY <1>32 DEF Loop, WorkerType, Alive, Forwarding, InForwardDirection
    <2>2. BurstIndex' /\ (afterPause \in Nat)'
      BY <1>32, BurstSizeAssumption DEF Loop, BurstType, WorkerType
    <2> QED
      BY <2>1, <2>2, <1>32 DEF Loop, MainType, FlagType, ResourceType,
          HandshakeType, BurstType, StatsType
  <1>33. CASE PauseCheck
    <2>1. WorkerType'
      BY <1>33 DEF PauseCheck, WorkerType, Alive, Forwarding,
          InForwardDirection
    <2>2. BurstIndex' /\ (afterPause \in Nat)'
      BY <1>33, BurstSizeAssumption DEF PauseCheck, BurstType, WorkerType
    <2> QED
      BY <2>1, <2>2, <1>33 DEF PauseCheck, MainType, FlagType, ResourceType,
          HandshakeType, BurstType, StatsType
  <1>34. CASE RxEmpty
    <2>1. WorkerType'
      BY <1>34 DEF RxEmpty, NextDirection, WorkerType, Alive, Forwarding,
          InForwardDirection
    <2>2. BurstIndex' /\ (afterPause \in Nat)'
      BY <1>34, BurstSizeAssumption DEF RxEmpty, NextDirection, BurstType,
          WorkerType
    <2> QED
      BY <2>1, <2>2, <1>34 DEF RxEmpty, NextDirection, MainType, FlagType,
          ResourceType, HandshakeType, BurstType, StatsType
  <1>35. CASE RxBurst
    <2>1. WorkerType'
      BY <1>35 DEF RxBurst, WorkerType, Alive, Forwarding, InForwardDirection
    <2>2. BurstType'
      BY <1>35, BurstSizeAssumption DEF RxBurst, BurstType, Slots, EmptyBurst,
          NoPackets, Fields
    <2>3. BurstIndex' /\ (afterPause \in Nat)'
      BY <1>35, BurstSizeAssumption DEF RxBurst, BurstType, WorkerType
    <2> QED
      BY <2>1, <2>2, <2>3, <1>35 DEF RxBurst, MainType, FlagType,
          ResourceType, HandshakeType, StatsType
  <1>36. CASE DropMalformed
    <2>1. BurstType'
      <3>1. burst' \in [Fields -> Nat]
        BY <1>36 DEF DropMalformed, BurstType, Fields
      <3>2. owner' \in [Mbufs -> {"pool", "app", "nic"}]
        BY <1>36 DEF DropMalformed, BurstType
      <3> QED
        BY <3>1, <3>2, <1>36, BurstSizeAssumption DEF DropMalformed, BurstType
    <2>2. BurstIndex' /\ (afterPause \in Nat)'
      BY <1>36, BurstSizeAssumption DEF DropMalformed, BurstType, WorkerType
    <2> QED
      BY <2>1, <2>2, <1>36 DEF DropMalformed, MainType, FlagType,
          ResourceType, HandshakeType, WorkerType, StatsType
  <1>37. CASE KeepCandidate
    <2>1. BurstType'
      BY <1>37, BurstSizeAssumption DEF KeepCandidate, BurstType, Slots,
          EmptyBurst, NoPackets, Fields
    <2>2. BurstIndex' /\ (afterPause \in Nat)'
      BY <1>37, BurstSizeAssumption DEF KeepCandidate, BurstType, WorkerType
    <2> QED
      BY <2>1, <2>2, <1>37 DEF KeepCandidate, MainType, FlagType,
          ResourceType, HandshakeType, WorkerType, StatsType
  <1>38. CASE ClassifyEnd
    <2>1. WorkerType'
      BY <1>38 DEF ClassifyEnd, WorkerType, Alive, Forwarding,
          InForwardDirection
    <2>2. BurstIndex' /\ (afterPause \in Nat)'
      BY <1>38, BurstSizeAssumption DEF ClassifyEnd, BurstType, WorkerType
    <2> QED
      BY <2>1, <2>2, <1>38 DEF ClassifyEnd, MainType, FlagType, ResourceType,
          HandshakeType, BurstType, StatsType
  <1>39. CASE TxBurst
    <2>1. WorkerType'
      BY <1>39 DEF TxBurst, SentStats, WorkerType, Alive, Forwarding,
          InForwardDirection
    <2>2. BurstType'
      <3> PICK sent \in 0..candidate_count : burst' = SentStats(sent)
        BY <1>39 DEF TxBurst
      <3>1. burst' \in [Fields -> Nat]
        BY BurstSizeAssumption DEF SentStats, BurstType, Fields
      <3>2. owner' \in [Mbufs -> {"pool", "app", "nic"}]
        BY <1>39 DEF TxBurst, BurstType
      <3> QED
        BY <3>1, <3>2, <1>39 DEF TxBurst, BurstType
    <2>3. BurstIndex' /\ (afterPause \in Nat)'
      BY <1>39, BurstSizeAssumption DEF TxBurst, SentStats, BurstType,
          WorkerType
    <2> QED
      BY <2>1, <2>2, <2>3, <1>39 DEF TxBurst, SentStats, MainType, FlagType,
          ResourceType, HandshakeType, StatsType
  <1>40. CASE StatsLock
    <2>1. WorkerType'
      BY <1>40 DEF StatsLock, WorkerType, Alive, Forwarding,
          InForwardDirection
    <2>2. StatsType'
      BY <1>40 DEF StatsLock, StatsType, NoPackets, Fields
    <2>3. BurstIndex' /\ (afterPause \in Nat)'
      BY <1>40, BurstSizeAssumption DEF StatsLock, BurstType, WorkerType
    <2> QED
      BY <2>1, <2>2, <2>3, <1>40 DEF StatsLock, MainType, FlagType,
          ResourceType, HandshakeType, BurstType
  <1>41. CASE StatsAddField
    <2>1. StatsType'
      BY <1>41 DEF StatsAddField, StatsType, BurstType, FieldOrder, NoPackets,
          Fields
    <2>2. BurstIndex' /\ (afterPause \in Nat)'
      BY <1>41, BurstSizeAssumption DEF StatsAddField, BurstType, WorkerType
    <2> QED
      BY <2>1, <2>2, <1>41 DEF StatsAddField, MainType, FlagType,
          ResourceType, HandshakeType, WorkerType, BurstType
  <1>42. CASE StatsUnlock
    <2>1. WorkerType'
      BY <1>42 DEF StatsUnlock, NextDirection, WorkerType, Alive, Forwarding,
          InForwardDirection
    <2>2. BurstType'
      BY <1>42, BurstSizeAssumption DEF StatsUnlock, NextDirection, BurstType,
          Slots, EmptyBurst, NoPackets, Fields
    <2>3. StatsType'
      BY <1>42 DEF StatsUnlock, NextDirection, StatsType, NoPackets, Fields
    <2>4. BurstIndex' /\ (afterPause \in Nat)'
      BY <1>42, BurstSizeAssumption DEF StatsUnlock, NextDirection, BurstType,
          WorkerType
    <2> QED
      BY <2>1, <2>2, <2>3, <2>4, <1>42 DEF StatsUnlock, NextDirection,
          MainType, FlagType, ResourceType, HandshakeType
  <1>43. CASE Unregister
    <2>1. WorkerType'
      BY <1>43 DEF Unregister, WorkerType, Alive, Forwarding,
          InForwardDirection
    <2>2. BurstIndex' /\ (afterPause \in Nat)'
      BY <1>43, BurstSizeAssumption DEF Unregister, BurstType, WorkerType
    <2> QED
      BY <2>1, <2>2, <1>43 DEF Unregister, MainType, FlagType, ResourceType,
          HandshakeType, BurstType, StatsType
  <1>44. CASE StopSignal
    <2>1. MainType'
      BY <1>44 DEF StopSignal, MainType, MainPoints, HealthStates
    <2>2. BurstIndex' /\ (afterPause \in Nat)'
      BY <1>44, BurstSizeAssumption DEF StopSignal, BurstType, WorkerType
    <2> QED
      BY <2>1, <2>2, <1>44 DEF StopSignal, FlagType, ResourceType,
          HandshakeType, WorkerType, BurstType, StatsType
  <1>45. CASE SpuriousWakeup
    <2>1. MainType'
      BY <1>45 DEF SpuriousWakeup, MainType, MainPoints, HealthStates
    <2>2. BurstIndex' /\ (afterPause \in Nat)'
      BY <1>45, BurstSizeAssumption DEF SpuriousWakeup, BurstType, WorkerType
    <2> QED
      BY <2>1, <2>2, <1>45 DEF SpuriousWakeup, FlagType, ResourceType,
          HandshakeType, WorkerType, BurstType, StatsType
  <1>46. CASE TxDone
    <2>1. BurstType'
      BY <1>46, BurstSizeAssumption DEF TxDone, BurstType, Slots, EmptyBurst,
          NoPackets, Fields
    <2>2. BurstIndex' /\ (afterPause \in Nat)'
      BY <1>46, BurstSizeAssumption DEF TxDone, BurstType, WorkerType
    <2> QED
      BY <2>1, <2>2, <1>46 DEF TxDone, MainType, FlagType, ResourceType,
          HandshakeType, WorkerType, StatsType
  <1>47. CASE UNCHANGED vars
    BY <1>47 DEF vars, MainType, FlagType, ResourceType, HandshakeType,
        WorkerType, BurstType, StatsType
  <1> QED
    BY <1>1, <1>2, <1>3, <1>4, <1>5, <1>6, <1>7, <1>8, <1>9, <1>10, <1>11,
        <1>12, <1>13, <1>14, <1>15, <1>16, <1>17, <1>18, <1>19, <1>20, <1>21,
        <1>22, <1>23, <1>24, <1>25, <1>26, <1>27, <1>28, <1>29, <1>30, <1>31,
        <1>32, <1>33, <1>34, <1>35, <1>36, <1>37, <1>38, <1>39, <1>40, <1>41,
        <1>42, <1>43, <1>44, <1>45, <1>46, <1>47
    DEF Next, MainStep, StartUp, ShutDown, Request, WorkerStep, Terminated

-----------------------------------------------------------------------------
(* Threads and resources                                                   *)

\* The main thread before pthread_create, and after the worker was joined.
BeforeThread == {"init", "start", "ports", "worker"}
Awaiting == {"await", "testing", "waiting"}
Serving == {"serve", "poll", "client"}

\* Who may run: a live worker belongs to a started, unjoined thread, and its
\* program counter tells whether it is registered and holds a mutex.
ThreadInv ==
    /\ wpc \in Alive => thread_started
    /\ mpc \in BeforeThread => wpc = "none"
    /\ wpc = "none" => ~thread_started
    /\ mpc \in Awaiting \cup {"join_failed", "join"} => thread_started
    /\ mpc \in BeforeThread \cup {"undo", "release", "exited", "aborted"} =>
          ~thread_started
    /\ wpc \in {"none", "boot", "done"} => ~registered
    /\ wpc \in Forwarding \cup {"unregister"} => registered
    /\ wlock = "main" <=> mpc = "testing"
    /\ wlock = "worker" <=> wpc = "signalling"

\* What is held at each point of the start and as long as a thread exists.
HeldInv ==
    /\ mpc = "start" => held = {"stats", "socket"}
    /\ mpc \in {"ports", "worker"} => {"stats", "eal"} \subseteq held
    /\ mpc = "worker" => {"mempool"} \cup Ports \subseteq held
    /\ mpc \in {"worker"} \cup Awaiting => ports_up
    /\ thread_started => ForwardingResources \subseteq held
    /\ mpc = "cleanup" /\ ~started =>
          held \cap ({"eal", "mempool"} \cup Ports) = {}

\* The handshake: a worker that reported success is in its loop until it is
\* asked to stop, and the datapath is ready exactly when it has a worker.
HandshakeInv ==
    /\ mpc \in BeforeThread \cup Awaiting \cup {"join_failed", "undo"} =>
          ~started /\ ~ports_ready
    /\ mpc \in Serving => started
    /\ mpc \in BeforeThread \cup Awaiting \cup Serving => ~stop_requested
    /\ mpc \in Serving =>
          /\ ports_ready => thread_started /\ start_ready /\ start_ok
          /\ ~ports_ready => wpc = "none"
    /\ mpc = "cleanup" /\ ~started => ~thread_started
    /\ thread_started /\ start_ready /\ start_ok /\ ~stop_requested =>
          wpc \in Forwarding
    /\ thread_started /\ start_ready => wpc \notin {"none", "boot", "signal", "signalling"}

HealthInv ==
    /\ mpc \in BeforeThread \cup Awaiting => ~paused
    /\ mpc \in Serving =>
          /\ health.ports_ready = ports_ready
          /\ health.paused = paused
          /\ health.state = IF ~ports_ready THEN "degraded"
                            ELSE IF paused THEN "paused" ELSE "running"
          /\ ~ports_ready => ~paused

ControlInv == ThreadInv /\ HeldInv /\ HandshakeInv /\ HealthInv

-----------------------------------------------------------------------------
(* Pausing                                                                 *)

\* The rx bursts an iteration that read paused as false can have taken.
Taken ==
    IF wpc = "rx" THEN dir
    ELSE IF wpc \in InForwardDirection THEN dir + 1 ELSE 2

PauseInv ==
    /\ ~paused => afterPause = 0
    /\ afterPause <= Taken
    /\ wpc \in {"none", "done", "boot", "signal", "signalling", "loop",
                "pause_check", "unregister"} => dir = 0

\* What the main thread knows of the worker from thread_started, and of its
\* place in worker_main, survives every step (datapath.c:209-329).
LEMMA ThreadStep == TypeInv /\ ThreadInv /\ [Next]_vars => ThreadInv'
  <1> SUFFICES ASSUME TypeInv, ThreadInv, [Next]_vars PROVE ThreadInv'
    OBVIOUS
  <1> USE DEF ThreadInv, BeforeThread, Awaiting, Serving, Alive, Forwarding,
      InForwardDirection, TypeInv, TypeOK, MainType, HandshakeType,
      WorkerType, mainVars, flagVars, resVars, syncVars, workerVars,
      burstVars, statsVars
  <1>1. CASE UNCHANGED <<mpc, wpc, thread_started, registered, wlock>>
    BY <1>1
  <1>2. CASE DaemonInit
    BY <1>2 DEF DaemonInit
  <1>3. CASE DaemonInitFails
    BY <1>3 DEF DaemonInitFails
  <1>4. CASE StartDegraded
    BY <1>4 DEF StartDegraded, StartedHealth
  <1>5. CASE EalStart
    BY <1>5 DEF EalStart
  <1>6. CASE EalStartFails
    BY <1>6 DEF EalStartFails, RunFails
  <1>7. CASE PortsStart
    BY <1>7 DEF PortsStart
  <1>8. CASE PortsStartFails
    BY <1>8 DEF PortsStartFails
  <1>9. CASE StartWorker
    BY <1>9 DEF StartWorker
  <1>10. CASE StartWorkerFails
    BY <1>10 DEF StartWorkerFails
  <1>11. CASE AwaitLock
    BY <1>11 DEF AwaitLock
  <1>12. CASE AwaitSleep
    BY <1>12 DEF AwaitSleep
  <1>13. CASE WorkerStarted
    BY <1>13 DEF WorkerStarted, StartedHealth
  <1>14. CASE WorkerRefused
    BY <1>14 DEF WorkerRefused
  <1>15. CASE JoinRefused
    BY <1>15 DEF JoinRefused
  <1>16. CASE UndoStart
    BY <1>16 DEF UndoStart, RunFails, ReleasePortsAndEal
  <1>17. CASE LeaveServe
    BY <1>17 DEF LeaveServe
  <1>18. CASE CleanupStop
    BY <1>18 DEF CleanupStop
  <1>19. CASE CleanupJoin
    BY <1>19 DEF CleanupJoin
  <1>20. CASE CleanupRelease
    BY <1>20 DEF CleanupRelease
  <1>21. CASE ServePoll
    BY <1>21 DEF ServePoll
  <1>22. CASE PollTimeout
    BY <1>22 DEF PollTimeout
  <1>23. CASE PollError
    BY <1>23 DEF PollError, RunFails
  <1>24. CASE Accept
    BY <1>24 DEF Accept
  <1>25. CASE Hangup
    BY <1>25 DEF Hangup
  <1>26. CASE Register
    BY <1>26 DEF Register
  <1>27. CASE SignalLock
    BY <1>27 DEF SignalLock
  <1>28. CASE Signal
    BY <1>28 DEF Signal
  <1>29. CASE Loop
    BY <1>29 DEF Loop
  <1>30. CASE PauseCheck
    BY <1>30 DEF PauseCheck
  <1>31. CASE RxEmpty
    BY <1>31 DEF RxEmpty, NextDirection
  <1>32. CASE RxBurst
    BY <1>32 DEF RxBurst
  <1>33. CASE ClassifyEnd
    BY <1>33 DEF ClassifyEnd
  <1>34. CASE TxBurst
    BY <1>34 DEF TxBurst, SentStats
  <1>35. CASE StatsLock
    BY <1>35 DEF StatsLock
  <1>36. CASE StatsUnlock
    BY <1>36 DEF StatsUnlock, NextDirection
  <1>37. CASE Unregister
    BY <1>37 DEF Unregister
  <1>38. CASE SpuriousWakeup
    BY <1>38 DEF SpuriousWakeup
  <1> QED
    BY <1>1, <1>2, <1>3, <1>4, <1>5, <1>6, <1>7, <1>8, <1>9, <1>10, <1>11,
        <1>12, <1>13, <1>14, <1>15, <1>16, <1>17, <1>18, <1>19, <1>20, <1>21,
        <1>22, <1>23, <1>24, <1>25, <1>26, <1>27, <1>28, <1>29, <1>30, <1>31,
        <1>32, <1>33, <1>34, <1>35, <1>36, <1>37, <1>38
    DEF Next, MainStep, StartUp, ShutDown, Request, WorkerStep, Terminated,
        vars, Pause, Resume, ResetStats, GetStats, DropMalformed,
        KeepCandidate, StatsAddField, StopSignal, TxDone, StartedHealth

\* What is initialised at each point of the start-up, service and release
\* (datapath.c:362-446).
LEMMA HeldStep == TypeInv /\ ThreadInv /\ HandshakeInv /\ HeldInv /\
    [Next]_vars => HeldInv'
  <1> SUFFICES ASSUME TypeInv, ThreadInv, HandshakeInv, HeldInv, [Next]_vars PROVE HeldInv'
    OBVIOUS
  <1> USE DEF ThreadInv, HeldInv, HandshakeInv, ForwardingResources, Ports,
      BeforeThread, Awaiting, Serving, Alive, Forwarding, InForwardDirection,
      TypeInv, TypeOK, MainType, FlagType, mainVars, flagVars, resVars,
      syncVars, workerVars, burstVars, statsVars
  <1>1. CASE UNCHANGED <<mpc, wpc, thread_started, held, ports_up, started>>
    BY <1>1
  <1>2. CASE DaemonInit
    BY <1>2 DEF DaemonInit
  <1>3. CASE DaemonInitFails
    BY <1>3 DEF DaemonInitFails
  <1>4. CASE StartDegraded
    BY <1>4 DEF StartDegraded, StartedHealth
  <1>5. CASE EalStart
    BY <1>5 DEF EalStart
  <1>6. CASE EalStartFails
    BY <1>6 DEF EalStartFails, RunFails
  <1>7. CASE PortsStart
    BY <1>7 DEF PortsStart
  <1>8. CASE PortsStartFails
    BY <1>8 DEF PortsStartFails
  <1>9. CASE StartWorker
    BY <1>9 DEF StartWorker
  <1>10. CASE StartWorkerFails
    BY <1>10 DEF StartWorkerFails
  <1>11. CASE AwaitLock
    BY <1>11 DEF AwaitLock
  <1>12. CASE AwaitSleep
    BY <1>12 DEF AwaitSleep
  <1>13. CASE WorkerStarted
    BY <1>13 DEF WorkerStarted, StartedHealth
  <1>14. CASE WorkerRefused
    BY <1>14 DEF WorkerRefused
  <1>15. CASE JoinRefused
    BY <1>15 DEF JoinRefused
  <1>16. CASE UndoStart
    BY <1>16 DEF UndoStart, RunFails, ReleasePortsAndEal
  <1>17. CASE LeaveServe
    BY <1>17 DEF LeaveServe
  <1>18. CASE CleanupStop
    BY <1>18 DEF CleanupStop
  <1>19. CASE CleanupJoin
    BY <1>19 DEF CleanupJoin
  <1>20. CASE CleanupRelease
    BY <1>20 DEF CleanupRelease
  <1>21. CASE ServePoll
    BY <1>21 DEF ServePoll
  <1>22. CASE PollTimeout
    BY <1>22 DEF PollTimeout
  <1>23. CASE PollError
    BY <1>23 DEF PollError, RunFails
  <1>24. CASE Accept
    BY <1>24 DEF Accept
  <1>25. CASE Hangup
    BY <1>25 DEF Hangup
  <1>26. CASE Register
    BY <1>26 DEF Register
  <1>27. CASE SignalLock
    BY <1>27 DEF SignalLock
  <1>28. CASE Signal
    BY <1>28 DEF Signal
  <1>29. CASE Loop
    BY <1>29 DEF Loop
  <1>30. CASE PauseCheck
    BY <1>30 DEF PauseCheck
  <1>31. CASE RxEmpty
    BY <1>31 DEF RxEmpty, NextDirection
  <1>32. CASE RxBurst
    BY <1>32 DEF RxBurst
  <1>33. CASE ClassifyEnd
    BY <1>33 DEF ClassifyEnd
  <1>34. CASE TxBurst
    BY <1>34 DEF TxBurst, SentStats
  <1>35. CASE StatsLock
    BY <1>35 DEF StatsLock
  <1>36. CASE StatsUnlock
    BY <1>36 DEF StatsUnlock, NextDirection
  <1>37. CASE Unregister
    BY <1>37 DEF Unregister
  <1>38. CASE SpuriousWakeup
    BY <1>38 DEF SpuriousWakeup
  <1> QED
    BY <1>1, <1>2, <1>3, <1>4, <1>5, <1>6, <1>7, <1>8, <1>9, <1>10, <1>11,
        <1>12, <1>13, <1>14, <1>15, <1>16, <1>17, <1>18, <1>19, <1>20, <1>21,
        <1>22, <1>23, <1>24, <1>25, <1>26, <1>27, <1>28, <1>29, <1>30, <1>31,
        <1>32, <1>33, <1>34, <1>35, <1>36, <1>37, <1>38
    DEF Next, MainStep, StartUp, ShutDown, Request, WorkerStep, Terminated,
        vars, Pause, Resume, ResetStats, GetStats, DropMalformed,
        KeepCandidate, StatsAddField, StopSignal, TxDone, StartedHealth

\* Who holds worker_lock, and what start_ready and start_ok say of the worker
\* (datapath.c:123-141, 258-315).
LEMMA HandshakeStep == TypeInv /\ ThreadInv /\ HeldInv /\ HandshakeInv /\
    [Next]_vars => HandshakeInv'
  <1> SUFFICES ASSUME TypeInv, ThreadInv, HeldInv, HandshakeInv, [Next]_vars PROVE HandshakeInv'
    OBVIOUS
  <1> USE DEF ThreadInv, HeldInv, HandshakeInv, BeforeThread, Awaiting,
      Serving, Alive, Forwarding, InForwardDirection, TypeInv, TypeOK,
      MainType, FlagType, HandshakeType, WorkerType, mainVars, flagVars,
      resVars, syncVars, workerVars, burstVars, statsVars
  <1>1. CASE UNCHANGED <<mpc, wpc, thread_started, started, ports_ready,
      stop_requested, start_ready, start_ok>>
    BY <1>1
  <1>2. CASE DaemonInit
    BY <1>2 DEF DaemonInit
  <1>3. CASE DaemonInitFails
    BY <1>3 DEF DaemonInitFails
  <1>4. CASE StartDegraded
    BY <1>4 DEF StartDegraded, StartedHealth
  <1>5. CASE EalStart
    BY <1>5 DEF EalStart
  <1>6. CASE EalStartFails
    BY <1>6 DEF EalStartFails, RunFails
  <1>7. CASE PortsStart
    BY <1>7 DEF PortsStart
  <1>8. CASE PortsStartFails
    BY <1>8 DEF PortsStartFails
  <1>9. CASE StartWorker
    BY <1>9 DEF StartWorker
  <1>10. CASE StartWorkerFails
    BY <1>10 DEF StartWorkerFails
  <1>11. CASE AwaitLock
    BY <1>11 DEF AwaitLock
  <1>12. CASE AwaitSleep
    BY <1>12 DEF AwaitSleep
  <1>13. CASE WorkerStarted
    BY <1>13 DEF WorkerStarted, StartedHealth
  <1>14. CASE WorkerRefused
    BY <1>14 DEF WorkerRefused
  <1>15. CASE JoinRefused
    BY <1>15 DEF JoinRefused
  <1>16. CASE UndoStart
    BY <1>16 DEF UndoStart, RunFails, ReleasePortsAndEal
  <1>17. CASE LeaveServe
    BY <1>17 DEF LeaveServe
  <1>18. CASE CleanupStop
    BY <1>18 DEF CleanupStop
  <1>19. CASE CleanupJoin
    BY <1>19 DEF CleanupJoin
  <1>20. CASE CleanupRelease
    BY <1>20 DEF CleanupRelease
  <1>21. CASE ServePoll
    BY <1>21 DEF ServePoll
  <1>22. CASE PollTimeout
    BY <1>22 DEF PollTimeout
  <1>23. CASE PollError
    BY <1>23 DEF PollError, RunFails
  <1>24. CASE Accept
    BY <1>24 DEF Accept
  <1>25. CASE Hangup
    BY <1>25 DEF Hangup
  <1>26. CASE Register
    BY <1>26 DEF Register
  <1>27. CASE SignalLock
    BY <1>27 DEF SignalLock
  <1>28. CASE Signal
    BY <1>28 DEF Signal
  <1>29. CASE Loop
    BY <1>29 DEF Loop
  <1>30. CASE PauseCheck
    BY <1>30 DEF PauseCheck
  <1>31. CASE RxEmpty
    BY <1>31 DEF RxEmpty, NextDirection
  <1>32. CASE RxBurst
    BY <1>32 DEF RxBurst
  <1>33. CASE ClassifyEnd
    BY <1>33 DEF ClassifyEnd
  <1>34. CASE TxBurst
    BY <1>34 DEF TxBurst, SentStats
  <1>35. CASE StatsLock
    BY <1>35 DEF StatsLock
  <1>36. CASE StatsUnlock
    BY <1>36 DEF StatsUnlock, NextDirection
  <1>37. CASE Unregister
    BY <1>37 DEF Unregister
  <1>38. CASE SpuriousWakeup
    BY <1>38 DEF SpuriousWakeup
  <1> QED
    BY <1>1, <1>2, <1>3, <1>4, <1>5, <1>6, <1>7, <1>8, <1>9, <1>10, <1>11,
        <1>12, <1>13, <1>14, <1>15, <1>16, <1>17, <1>18, <1>19, <1>20, <1>21,
        <1>22, <1>23, <1>24, <1>25, <1>26, <1>27, <1>28, <1>29, <1>30, <1>31,
        <1>32, <1>33, <1>34, <1>35, <1>36, <1>37, <1>38
    DEF Next, MainStep, StartUp, ShutDown, Request, WorkerStep, Terminated,
        vars, Pause, Resume, ResetStats, GetStats, DropMalformed,
        KeepCandidate, StatsAddField, StopSignal, TxDone, StartedHealth

\* The health tracker follows the flags of the datapath while the daemon
\* serves (daemon.c:22-43, 128-165).
LEMMA HealthStep == TypeInv /\ HandshakeInv /\ HealthInv /\ [Next]_vars =>
    HealthInv'
  <1> SUFFICES ASSUME TypeInv, HandshakeInv, HealthInv, [Next]_vars PROVE HealthInv'
    OBVIOUS
  <1> USE DEF HealthInv, HandshakeInv, BeforeThread, Awaiting, Serving,
      TypeInv, TypeOK, MainType, FlagType, mainVars, flagVars, resVars,
      syncVars, workerVars, burstVars, statsVars
  <1>1. CASE UNCHANGED <<mpc, paused, health, ports_ready>>
    BY <1>1
  <1>2. CASE DaemonInit
    BY <1>2 DEF DaemonInit
  <1>3. CASE DaemonInitFails
    BY <1>3 DEF DaemonInitFails
  <1>4. CASE StartDegraded
    BY <1>4 DEF StartDegraded, StartedHealth
  <1>5. CASE EalStart
    BY <1>5 DEF EalStart
  <1>6. CASE EalStartFails
    BY <1>6 DEF EalStartFails, RunFails
  <1>7. CASE PortsStart
    BY <1>7 DEF PortsStart
  <1>8. CASE PortsStartFails
    BY <1>8 DEF PortsStartFails
  <1>9. CASE StartWorker
    BY <1>9 DEF StartWorker
  <1>10. CASE StartWorkerFails
    BY <1>10 DEF StartWorkerFails
  <1>11. CASE AwaitLock
    BY <1>11 DEF AwaitLock
  <1>12. CASE AwaitSleep
    BY <1>12 DEF AwaitSleep
  <1>13. CASE WorkerStarted
    BY <1>13 DEF WorkerStarted, StartedHealth
  <1>14. CASE WorkerRefused
    BY <1>14 DEF WorkerRefused
  <1>15. CASE JoinRefused
    BY <1>15 DEF JoinRefused
  <1>16. CASE UndoStart
    BY <1>16 DEF UndoStart, RunFails, ReleasePortsAndEal
  <1>17. CASE LeaveServe
    BY <1>17 DEF LeaveServe
  <1>18. CASE CleanupStop
    BY <1>18 DEF CleanupStop
  <1>19. CASE CleanupJoin
    BY <1>19 DEF CleanupJoin
  <1>20. CASE CleanupRelease
    BY <1>20 DEF CleanupRelease
  <1>21. CASE ServePoll
    BY <1>21 DEF ServePoll
  <1>22. CASE PollTimeout
    BY <1>22 DEF PollTimeout
  <1>23. CASE PollError
    BY <1>23 DEF PollError, RunFails
  <1>24. CASE Accept
    BY <1>24 DEF Accept
  <1>25. CASE Pause
    <2>1. paused' /\ health'.paused = TRUE /\ health'.state = "paused"
      BY <1>25 DEF Pause
    <2>2. /\ ports_ready /\ ports_ready' = ports_ready
          /\ health'.ports_ready = ports_ready
      BY <1>25 DEF Pause, ActiveForwarding
    <2> QED
      BY <2>1, <2>2, <1>25 DEF Pause
  <1>26. CASE Resume
    BY <1>26 DEF Resume, StartedHealth
  <1>27. CASE Hangup
    BY <1>27 DEF Hangup
  <1>28. CASE Signal
    BY <1>28 DEF Signal
  <1>29. CASE SpuriousWakeup
    BY <1>29 DEF SpuriousWakeup
  <1> QED
    BY <1>1, <1>2, <1>3, <1>4, <1>5, <1>6, <1>7, <1>8, <1>9, <1>10, <1>11,
        <1>12, <1>13, <1>14, <1>15, <1>16, <1>17, <1>18, <1>19, <1>20, <1>21,
        <1>22, <1>23, <1>24, <1>25, <1>26, <1>27, <1>28, <1>29
    DEF Next, MainStep, StartUp, ShutDown, Request, WorkerStep, Terminated,
        vars, ResetStats, GetStats, Register, SignalLock, Loop, PauseCheck,
        RxEmpty, RxBurst, DropMalformed, KeepCandidate, ClassifyEnd, TxBurst,
        StatsLock, StatsAddField, StatsUnlock, Unregister, StopSignal, TxDone,
        NextDirection, SentStats

\* How many bursts a paused datapath may still receive, by the point of the
\* iteration the worker has reached (datapath.c:236-251).
LEMMA PauseStep == TypeInv /\ ThreadInv /\ HealthInv /\ PauseInv /\ [Next]_vars =>
    PauseInv'
  <1> SUFFICES ASSUME TypeInv, ThreadInv, HealthInv, PauseInv, [Next]_vars PROVE PauseInv'
    OBVIOUS
  <1> USE DEF PauseInv, Taken, ThreadInv, HealthInv, BeforeThread, Awaiting, Serving,
      Alive, Forwarding, InForwardDirection, TypeInv, TypeOK, WorkerType,
      FlagType, MainType, mainVars, flagVars, resVars, syncVars, workerVars,
      burstVars, statsVars
  <1>1. CASE UNCHANGED <<wpc, paused, afterPause, dir>>
    BY <1>1
  <1>2. CASE StartDegraded
    BY <1>2 DEF StartDegraded, StartedHealth
  <1>3. CASE EalStart
    BY <1>3 DEF EalStart
  <1>4. CASE EalStartFails
    BY <1>4 DEF EalStartFails, RunFails
  <1>5. CASE StartWorker
    BY <1>5 DEF StartWorker
  <1>6. CASE StartWorkerFails
    BY <1>6 DEF StartWorkerFails
  <1>7. CASE CleanupJoin
    BY <1>7 DEF CleanupJoin
  <1>8. CASE Pause
    BY <1>8 DEF Pause
  <1>9. CASE Resume
    BY <1>9 DEF Resume, StartedHealth
  <1>10. CASE Register
    BY <1>10 DEF Register
  <1>11. CASE SignalLock
    BY <1>11 DEF SignalLock
  <1>12. CASE Signal
    BY <1>12 DEF Signal
  <1>13. CASE Loop
    BY <1>13 DEF Loop
  <1>14. CASE PauseCheck
    BY <1>14 DEF PauseCheck
  <1>15. CASE RxEmpty
    BY <1>15 DEF RxEmpty, NextDirection
  <1>16. CASE RxBurst
    BY <1>16 DEF RxBurst
  <1>17. CASE ClassifyEnd
    BY <1>17 DEF ClassifyEnd
  <1>18. CASE TxBurst
    BY <1>18 DEF TxBurst, SentStats
  <1>19. CASE StatsLock
    BY <1>19 DEF StatsLock
  <1>20. CASE StatsUnlock
    BY <1>20 DEF StatsUnlock, NextDirection
  <1>21. CASE Unregister
    BY <1>21 DEF Unregister
  <1> QED
    BY <1>1, <1>2, <1>3, <1>4, <1>5, <1>6, <1>7, <1>8, <1>9, <1>10, <1>11,
        <1>12, <1>13, <1>14, <1>15, <1>16, <1>17, <1>18, <1>19, <1>20, <1>21
    DEF Next, MainStep, StartUp, ShutDown, Request, WorkerStep, Terminated,
        vars, DaemonInit, DaemonInitFails, PortsStart, PortsStartFails,
        AwaitLock, AwaitSleep, WorkerStarted, WorkerRefused, JoinRefused,
        UndoStart, LeaveServe, CleanupStop, CleanupRelease, ServePoll,
        PollTimeout, PollError, Accept, ResetStats, GetStats, Hangup,
        DropMalformed, KeepCandidate, StatsAddField, StopSignal,
        SpuriousWakeup, TxDone, ReleasePortsAndEal, RunFails, StartedHealth

\* The invariants of the two threads hold before the daemon is initialised.
LEMMA ControlInit == Init => ControlInv /\ PauseInv
  <1> SUFFICES ASSUME Init PROVE ControlInv /\ PauseInv
    OBVIOUS
  <1> USE DEF Init, BeforeThread, Awaiting, Serving, Alive, Forwarding,
          InForwardDirection
  <1>1. ThreadInv
    BY DEF ThreadInv
  <1>2. HeldInv
    BY DEF HeldInv
  <1>3. HandshakeInv
    BY DEF HandshakeInv
  <1>4. HealthInv
    BY DEF HealthInv
  <1>5. PauseInv
    BY DEF PauseInv, Taken
  <1> QED
    BY <1>1, <1>2, <1>3, <1>4, <1>5 DEF ControlInv

\* Every variable keeps its type, whatever the daemon and its worker do:
\* the indexes of forward_direction stay inside packets[] and no counter
\* becomes negative.
THEOREM TypeCorrect == Spec => []TypeOK
  <1>1. TypeInv => TypeOK
    BY DEF TypeInv
  <1> QED
    BY <1>1, TypeInit, TypeStep, PTL DEF Spec

\* The inductive invariant of the two threads.
THEOREM ControlCorrect == Spec => [](TypeInv /\ ControlInv /\ PauseInv)
  <1> DEFINE I == TypeInv /\ ControlInv /\ PauseInv
  <1>1. Init => I
    BY TypeInit, ControlInit
  <1>2. I /\ [Next]_vars => I'
    BY TypeStep, ThreadStep, HeldStep, HandshakeStep, HealthStep, PauseStep
    DEF ControlInv
  <1> QED
    BY <1>1, <1>2, PTL DEF Spec

\* The worker never runs without its resources, on any path of a failed
\* start or a shut-down: the main thread joins before it releases.
THEOREM ResourceSafety == Spec => []NoUseAfterRelease
  <1>1. TypeInv /\ ControlInv => NoUseAfterRelease
    <2> SUFFICES ASSUME TypeInv, ControlInv PROVE NoUseAfterRelease
      OBVIOUS
    <2> USE DEF ControlInv, ThreadInv, HeldInv, Alive, Forwarding,
            InForwardDirection, Awaiting, ForwardingResources
    <2>1. wpc \in Alive => ForwardingResources \subseteq held
      OBVIOUS
    <2>2. registered => wpc \in Alive
      BY DEF TypeInv, TypeOK, WorkerType
    <2>3. wlock # "free" => "sync" \in held
      BY DEF TypeInv, TypeOK, HandshakeType
    <2> QED
      BY <2>1, <2>2, <2>3 DEF NoUseAfterRelease
  <1> QED
    BY <1>1, ControlCorrect, PTL

\* At most two bursts are received after a pause was acknowledged, whatever
\* the burst size and however often pause and resume alternate.
THEOREM PauseSafety == Spec => []PauseBound
  <1>1. TypeInv /\ PauseInv => PauseBound
    BY DEF TypeInv, TypeOK, WorkerType, PauseInv, Taken, PauseBound
  <1> QED
    BY <1>1, ControlCorrect, PTL

\* The health a client reads is the state of the datapath.
THEOREM HealthSafety == Spec => []HealthTruth
  <1>1. TypeInv /\ ControlInv => HealthTruth
    <2> SUFFICES ASSUME TypeInv, ControlInv, mpc \in Serving PROVE HealthTruth
      BY DEF HealthTruth, Serving
    <2> USE DEF ControlInv
    <2>1. ports_ready => wpc \in Forwarding
      BY DEF HandshakeInv
    <2>2. ports_ready => registered /\ ForwardingResources \subseteq held
      BY <2>1 DEF ThreadInv, HandshakeInv, HeldInv
    <2>3. ~ports_ready => wpc = "none"
      BY DEF HandshakeInv
    <2>4. /\ health.ports_ready = ports_ready
          /\ health.paused = paused
          /\ health.state = IF ~ports_ready THEN "degraded"
                            ELSE IF paused THEN "paused" ELSE "running"
      BY DEF HealthInv
    <2> QED
      BY <2>1, <2>2, <2>3, <2>4 DEF HealthTruth
  <1> QED
    BY <1>1, ControlCorrect, PTL

\* A failed start has given back ports, pool, EAL and thread.
THEOREM FailedStartSafety == Spec => []FailedStartReleases
  <1>1. TypeInv /\ ControlInv => FailedStartReleases
    <2> SUFFICES ASSUME TypeInv, ControlInv, mpc = "cleanup", ~started
                 PROVE  FailedStartReleases
      BY DEF FailedStartReleases
    <2>1. ~thread_started
      BY DEF ControlInv, HandshakeInv
    <2>2. wpc \in {"none", "done"}
      BY <2>1 DEF ControlInv, ThreadInv, TypeInv, TypeOK, WorkerType
    <2>3. held \cap ({"eal", "mempool"} \cup Ports) = {}
      BY DEF ControlInv, HeldInv
    <2> QED
      BY <2>1, <2>2, <2>3 DEF FailedStartReleases
  <1> QED
    BY <1>1, ControlCorrect, PTL
=============================================================================
