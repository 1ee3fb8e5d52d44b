------------------------ MODULE DatapathLedgerProofs ------------------------
(***************************************************************************)
(* Proofs about the packets and the counters of Datapath: mbufs are        *)
(* neither leaked nor freed twice, and the field-by-field counters         *)
(* implement the atomic ledger of StatsLedger.                             *)
(***************************************************************************)
EXTENDS DatapathProofs

-----------------------------------------------------------------------------
(* The counters of the current burst                                       *)

\* The counters of the burst against its progress through packets[], and
\* who holds stats.lock.
BurstInv ==
    /\ wpc \in InForwardDirection =>
          /\ rx_count \in 1..BurstSize
          /\ candidate_count <= index /\ index <= rx_count
          /\ burst["rx_packets"] = rx_count
          /\ burst["rx_bursts"] = 1
          /\ burst["drop_no_match"] = 0
          /\ burst["drop_parse_errors"] = index - candidate_count
    /\ wpc \in {"classify", "tx"} =>
          /\ burst["drop_packets"] = index - candidate_count
          /\ burst["tx_packets"] = 0 /\ burst["tx_bursts"] = 0
          /\ burst["unsent_packets"] = 0
    /\ wpc = "tx" => candidate_count > 0
    /\ wpc \in {"tx", "stats", "adding"} => index = rx_count
    /\ wpc \in {"stats", "adding"} =>
          /\ burst["tx_packets"] + burst["unsent_packets"] = candidate_count
          /\ burst["drop_packets"] =
                burst["drop_parse_errors"] + burst["unsent_packets"]
          /\ burst["tx_bursts"] = IF candidate_count = 0 THEN 0 ELSE 1
    /\ slock = "worker" <=> wpc = "adding"
    /\ wpc = "none" => slock = "free"

\* What burst_stats says of the packets looked at so far, at every point of
\* forward_direction (datapath.c:164-204).
LEMMA BurstStep == TypeInv /\ ThreadInv /\ BurstInv /\ [Next]_vars =>
    BurstInv'
  <1> SUFFICES ASSUME TypeInv, ThreadInv, BurstInv, [Next]_vars PROVE BurstInv'
    OBVIOUS
  <1> USE BurstSizeAssumption DEF BurstInv, InForwardDirection, ThreadInv,
      BeforeThread, TypeInv, TypeOK, BurstType, WorkerType, StatsType, Fields,
      NoPackets, mainVars, flagVars, resVars, syncVars, workerVars, burstVars,
      statsVars
  <1>1. CASE UNCHANGED <<wpc, rx_count, index, candidate_count, burst, slock>>
    BY <1>1
  <1>2. CASE StartWorker
    BY <1>2 DEF StartWorker
  <1>3. CASE Register
    BY <1>3 DEF Register
  <1>4. CASE SignalLock
    BY <1>4 DEF SignalLock
  <1>5. CASE Signal
    BY <1>5 DEF Signal
  <1>6. CASE Loop
    BY <1>6 DEF Loop
  <1>7. CASE PauseCheck
    BY <1>7 DEF PauseCheck
  <1>8. CASE RxEmpty
    BY <1>8 DEF RxEmpty, NextDirection
  <1>9. CASE RxBurst
    <2> PICK n \in 1..BurstSize :
               /\ rx_count' = n
               /\ burst' = [NoPackets EXCEPT !["rx_packets"] = n,
                                             !["rx_bursts"] = 1]
      BY <1>9 DEF RxBurst
    <2>1. /\ burst'["rx_packets"] = n /\ burst'["rx_bursts"] = 1
          /\ burst'["drop_no_match"] = 0 /\ burst'["drop_parse_errors"] = 0
          /\ burst'["drop_packets"] = 0 /\ burst'["tx_packets"] = 0
          /\ burst'["tx_bursts"] = 0 /\ burst'["unsent_packets"] = 0
      OBVIOUS
    <2> QED
      BY <2>1, <1>9 DEF RxBurst
  <1>10. CASE DropMalformed
    BY <1>10 DEF DropMalformed
  <1>11. CASE KeepCandidate
    BY <1>11 DEF KeepCandidate
  <1>12. CASE ClassifyEnd
    BY <1>12 DEF ClassifyEnd
  <1>13. CASE TxBurst
    BY <1>13 DEF TxBurst, SentStats
  <1>14. CASE StatsLock
    BY <1>14 DEF StatsLock
  <1>15. CASE StatsUnlock
    BY <1>15 DEF StatsUnlock, NextDirection
  <1>16. CASE Unregister
    BY <1>16 DEF Unregister
  <1> QED
    BY <1>1, <1>2, <1>3, <1>4, <1>5, <1>6, <1>7, <1>8, <1>9, <1>10, <1>11,
        <1>12, <1>13, <1>14, <1>15, <1>16
    DEF Next, MainStep, StartUp, ShutDown, Request, WorkerStep, Terminated,
        vars, DaemonInit, DaemonInitFails, StartDegraded, EalStart,
        EalStartFails, PortsStart, PortsStartFails, StartWorkerFails,
        AwaitLock, AwaitSleep, WorkerStarted, WorkerRefused, JoinRefused,
        UndoStart, LeaveServe, CleanupStop, CleanupJoin, CleanupRelease,
        ServePoll, PollTimeout, PollError, Accept, Pause, Resume, ResetStats,
        GetStats, Hangup, StatsAddField, StopSignal, SpuriousWakeup, TxDone,
        ReleasePortsAndEal, RunFails, StartedHealth

\* There is no burst before the worker exists.
LEMMA BurstInit == Init => BurstInv
  BY DEF Init, BurstInv, InForwardDirection

-----------------------------------------------------------------------------
(* Ownership of the mbufs                                                  *)

\* Freeing, keeping and transmitting packets keeps the books of the mbufs
\* (datapath.c:171-195, actions.c:8-45).
LEMMA MbufStep ==
    TypeInv /\ ThreadInv /\ BurstInv /\ MbufAccounting /\ [Next]_vars
      => MbufAccounting'
  <1> SUFFICES ASSUME TypeInv, ThreadInv, BurstInv, MbufAccounting,
                      [Next]_vars
               PROVE  MbufAccounting'
    OBVIOUS
  <1> USE BurstSizeAssumption, NoMbufAssumption
      DEF TypeInv, TypeOK, BurstType, Slots, mainVars, flagVars, resVars,
          syncVars, workerVars, burstVars, statsVars
  <1>0. ASSUME LiveSlots' = LiveSlots, packets' = packets,
               \A m \in Mbufs : owner'[m] = "app" <=> owner[m] = "app"
        PROVE  MbufAccounting'
    BY <1>0 DEF MbufAccounting, LiveSlots
  <1>1. CASE wpc \notin {"classify", "tx"} /\ wpc' \notin {"classify", "tx"}
             /\ (\A m \in Mbufs : owner'[m] = "app" => owner[m] = "app")
    BY <1>1 DEF MbufAccounting, LiveSlots
  <1>2. CASE RxBurst
    <2> DEFINE Received(n, received) ==
                 /\ \A i, j \in 0..(n - 1) : i # j => received[i] # received[j]
                 /\ packets' = [s \in Slots |->
                                  IF s < n THEN received[s] ELSE NoMbuf]
                 /\ owner' = [m \in Mbufs |->
                                IF \E i \in 0..(n - 1) : received[i] = m
                                THEN "app" ELSE owner[m]]
                 /\ rx_count' = n
    <2> PICK n \in 1..BurstSize :
           \E received \in [0..(n - 1) -> {m \in Mbufs : owner[m] = "pool"}] :
              Received(n, received)
      BY <1>2 DEF RxBurst
    <2> PICK received \in [0..(n - 1) -> {m \in Mbufs : owner[m] = "pool"}] :
              Received(n, received)
      OBVIOUS
    <2>1. LiveSlots' = 0..(n - 1)
      BY <1>2 DEF RxBurst, LiveSlots
    <2>2. \A m \in Mbufs : owner[m] # "app"
      BY <1>2 DEF RxBurst, MbufAccounting, LiveSlots
    <2>3. \A s \in 0..(n - 1) : packets'[s] = received[s]
      OBVIOUS
    <2>4. \A s \in LiveSlots' : packets'[s] \in Mbufs /\ owner'[packets'[s]] = "app"
      BY <2>1, <2>3
    <2>5. \A s, t \in LiveSlots' : packets'[s] = packets'[t] => s = t
      BY <2>1, <2>3
    <2>6. \A m \in Mbufs : owner'[m] = "app" => \E s \in LiveSlots' : packets'[s] = m
      BY <2>1, <2>2, <2>3
    <2> QED
      BY <2>4, <2>5, <2>6 DEF MbufAccounting
  <1>3. CASE DropMalformed
    <2>1. LiveSlots' = LiveSlots \ {index} /\ index \in LiveSlots
      BY <1>3 DEF DropMalformed, LiveSlots, BurstIndex
    <2>2. packets' = packets
      BY <1>3 DEF DropMalformed
    <2>3. packets[index] \in Mbufs
      BY <2>1 DEF MbufAccounting
    <2>4. \A m \in Mbufs : owner'[m] = IF m = packets[index] THEN "pool" ELSE owner[m]
      BY <1>3, <2>3 DEF DropMalformed
    <2> QED
      BY <2>1, <2>2, <2>3, <2>4 DEF MbufAccounting
  <1>4. CASE KeepCandidate
    <2> DEFINE c == candidate_count
    <2>1. /\ index \in LiveSlots /\ c \in Slots /\ c <= index
          /\ LiveSlots' = {s \in Slots : s < c + 1 \/ (index + 1 <= s /\ s < rx_count)}
          /\ LiveSlots = {s \in Slots : s < c \/ (index <= s /\ s < rx_count)}
      BY <1>4 DEF KeepCandidate, LiveSlots, BurstIndex
    <2>2. /\ packets' = [packets EXCEPT ![c] = packets[index]]
          /\ owner' = owner
      BY <1>4 DEF KeepCandidate
    <2> DEFINE from(s) == IF s = c THEN index ELSE s
    <2>3. \A s \in LiveSlots' : from(s) \in LiveSlots /\ packets'[s] = packets[from(s)]
      BY <2>1, <2>2
    <2>4. \A s, t \in LiveSlots' : from(s) = from(t) => s = t
      BY <2>1
    <2>5. \A r \in LiveSlots : \E s \in LiveSlots' : from(s) = r
      <3> SUFFICES ASSUME NEW r \in LiveSlots
                   PROVE  \E s \in LiveSlots' : from(s) = r
        OBVIOUS
      <3>1. CASE r = index
        <4>1. c \in LiveSlots' /\ from(c) = index
          BY <2>1
        <4> QED
          BY <3>1, <4>1
      <3>2. CASE r # index
        <4>1. r \in LiveSlots' /\ r # c
          BY <3>2, <2>1
        <4> QED
          BY <4>1
      <3> QED
        BY <3>1, <3>2
    <2> HIDE DEF from
    <2> QED
      BY <2>2, <2>3, <2>4, <2>5 DEF MbufAccounting
  <1>5. CASE ClassifyEnd
    <2>1. packets' = packets /\ owner' = owner
      BY <1>5 DEF ClassifyEnd
    <2>2. CASE candidate_count = 0
      <3>1. LiveSlots = {} /\ LiveSlots' = {}
        BY <1>5, <2>2 DEF ClassifyEnd, LiveSlots
      <3> QED
        BY <2>1, <3>1 DEF MbufAccounting
    <2>3. CASE candidate_count # 0
      <3>1. LiveSlots' = LiveSlots
        BY <1>5, <2>3 DEF ClassifyEnd, LiveSlots
      <3> QED
        BY <2>1, <3>1, <1>0
    <2> QED
      BY <2>2, <2>3
  <1>6. CASE TxBurst
    <2>1. LiveSlots = {s \in Slots : s < candidate_count} /\ LiveSlots' = {}
      BY <1>6 DEF TxBurst, LiveSlots, BurstInv
    <2>2. \A m \in Mbufs : owner'[m] # "app"
      BY <1>6, <2>1 DEF TxBurst, MbufAccounting
    <2> QED
      BY <2>1, <2>2 DEF MbufAccounting
  <1>7. CASE UndoStart \/ CleanupRelease \/ TxDone
    <2>1. \A m \in Mbufs : owner'[m] = "app" <=> owner[m] = "app"
      BY <1>7 DEF UndoStart, ReleasePortsAndEal, CleanupRelease, TxDone
    <2>2. LiveSlots' = LiveSlots /\ packets' = packets
      BY <1>7 DEF UndoStart, CleanupRelease, TxDone, LiveSlots
    <2> QED
      BY <1>0, <2>1, <2>2
  <1>8. CASE UNCHANGED <<wpc, burstVars>>
    BY <1>8, <1>0 DEF LiveSlots
  <1>9. CASE \/ StartWorker \/ Register \/ SignalLock \/ Signal
             \/ Loop \/ PauseCheck \/ RxEmpty \/ StatsLock
             \/ Unregister \/ StatsUnlock
    <2>1. wpc \notin {"classify", "tx"} /\ wpc' \notin {"classify", "tx"}
          /\ owner' = owner
      BY <1>9 DEF ThreadInv, BeforeThread, StartWorker, Register, SignalLock, Signal, Loop, PauseCheck,
          RxEmpty, StatsLock, Unregister, StatsUnlock, NextDirection
    <2> QED
      BY <2>1, <1>1
  <1> QED
    BY <1>2, <1>3, <1>4, <1>5, <1>6, <1>7, <1>8, <1>9
    DEF Next, MainStep, StartUp, ShutDown, Request, WorkerStep, Terminated,
        vars, DaemonInit, DaemonInitFails, StartDegraded, EalStart,
        EalStartFails, PortsStart, PortsStartFails, StartWorkerFails,
        AwaitLock, AwaitSleep, WorkerStarted, WorkerRefused, JoinRefused,
        LeaveServe, CleanupStop, CleanupJoin, ServePoll, PollTimeout,
        PollError, Accept, Pause, Resume, ResetStats, GetStats, Hangup,
        StatsAddField, StopSignal, SpuriousWakeup

\* All mbufs are in the pool at first.
LEMMA MbufInit == Init => MbufAccounting
  BY DEF Init, MbufAccounting, LiveSlots

-----------------------------------------------------------------------------
(* The counters as a ledger                                                *)

\* pktlab_stats_add adds every field of dp_stats_snapshot once
\* (stats.c:46-55).
LEMMA FieldOrderFacts ==
    /\ \A k \in 1..8 : FieldOrder[k] \in Fields
    /\ \A j, k \in 1..8 : FieldOrder[j] = FieldOrder[k] => j = k
    /\ \A f \in Fields : \E k \in 1..8 : FieldOrder[k] = f
  <1>1. \A k \in 1..8 : FieldOrder[k] \in Fields
    BY DEF FieldOrder, Fields
  <1>2. \A j, k \in 1..8 : FieldOrder[j] = FieldOrder[k] => j = k
    BY DEF FieldOrder
  <1>3. \A f \in Fields : \E k \in 1..8 : FieldOrder[k] = f
    BY DEF FieldOrder, Fields
  <1> QED
    BY <1>1, <1>2, <1>3

\* The k-th field still lacks the burst exactly while fewer than k are added.
LEMMA CommittedAt ==
    ASSUME TypeInv, NEW k \in 1..8
    PROVE  LET f == FieldOrder[k]
           IN  Committed[f] = stats[f] + (IF wpc = "adding" /\ added < k
                                          THEN burst[f] ELSE 0)
  <1> DEFINE f == FieldOrder[k]
  <1>1. f \in Fields /\ stats[f] \in Nat /\ burst[f] \in Nat
    BY FieldOrderFacts DEF TypeInv, TypeOK, StatsType, BurstType
  <1>2. (\E j \in 1..8 : j > added /\ FieldOrder[j] = f) <=> added < k
    BY FieldOrderFacts DEF TypeInv, TypeOK, StatsType
  <1> QED
    BY <1>1, <1>2 DEF Committed

\* The same of the state after a step.
LEMMA CommittedAtNext ==
    ASSUME TypeInv', NEW k \in 1..8
    PROVE  LET f == FieldOrder[k]
           IN  Committed'[f] = stats'[f] + (IF wpc' = "adding" /\ added' < k
                                            THEN burst'[f] ELSE 0)
  <1> DEFINE f == FieldOrder[k]
  <1>1. f \in Fields /\ stats'[f] \in Nat /\ burst'[f] \in Nat
    BY FieldOrderFacts DEF TypeInv, TypeOK, StatsType, BurstType
  <1>2. (\E j \in 1..8 : j > added' /\ FieldOrder[j] = f) <=> added' < k
    BY FieldOrderFacts DEF TypeInv, TypeOK, StatsType
  <1> QED
    BY <1>1, <1>2 DEF Committed

\* Outside pktlab_stats_add the counters are the ledger.
LEMMA CommittedIdle == TypeInv /\ wpc # "adding" => Committed = stats
  BY DEF Committed, TypeInv, TypeOK, StatsType

\* Every step of the daemon posts a burst to, clears or reads the ledger, or
\* leaves it alone.
LEMMA LedgerStep ==
    TypeInv /\ ThreadInv /\ BurstInv /\ [Next]_vars
      => [Ledger!Next]_<<Committed, reply>>
  <1> SUFFICES ASSUME TypeInv, ThreadInv, BurstInv, [Next]_vars
               PROVE  [Ledger!Next]_<<Committed, reply>>
    OBVIOUS
  <1>t. TypeInv'
    BY TypeStep
  <1> USE DEF mainVars, flagVars, resVars, syncVars, workerVars, burstVars,
          statsVars
  <1>1. CASE StatsLock
    <2>1. /\ Committed = stats /\ reply' = reply /\ stats' = stats
          /\ burst' = burst /\ wpc' = "adding" /\ added' = 0
          /\ wpc = "stats"
      BY <1>1, CommittedIdle DEF StatsLock
    <2>2. ASSUME NEW k \in 1..8
          PROVE  Committed'[FieldOrder[k]] = stats[FieldOrder[k]] + burst[FieldOrder[k]]
      <3> DEFINE f == FieldOrder[k]
      <3>1. Committed'[f] = stats'[f] + (IF wpc' = "adding" /\ added' < k
                                         THEN burst'[f] ELSE 0)
        BY <1>t, CommittedAtNext
      <3> QED
        BY <3>1, <2>1
    <2>3. \A f \in Fields : Committed'[f] = stats[f] + burst[f]
      BY <2>2, FieldOrderFacts
    <2> DEFINE rx == rx_count
               malformed == rx_count - candidate_count
               sent == burst["tx_packets"]
    <2>4. rx \in 1..BurstSize /\ malformed \in 0..rx /\ sent \in 0..(rx - malformed)
      BY <2>1, BurstSizeAssumption
      DEF BurstInv, InForwardDirection, TypeInv, TypeOK, BurstType, Fields
    <2>5. \A f \in Fields : burst[f] = Ledger!BurstEntry(rx, malformed, sent)[f]
      BY <2>1, BurstSizeAssumption
      DEF BurstInv, InForwardDirection, TypeInv, TypeOK, BurstType, Fields,
          Ledger!BurstEntry, Ledger!LedgerFields
    <2>6. Committed' = [f \in Fields |->
             Committed[f] + Ledger!BurstEntry(rx, malformed, sent)[f]]
      BY <2>1, <2>3, <2>5 DEF Committed
    <2> QED
      BY <2>1, <2>4, <2>6 DEF Ledger!Next, Ledger!Post, Ledger!LedgerFields, Fields
  <1>2. CASE StatsAddField
    <2>1. ASSUME NEW k \in 1..8
          PROVE  Committed'[FieldOrder[k]] = Committed[FieldOrder[k]]
      <3> DEFINE f == FieldOrder[k]
                 g == FieldOrder[added + 1]
      <3>1. /\ wpc = "adding" /\ wpc' = "adding"
            /\ added \in 0..7 /\ added' = added + 1
            /\ burst' = burst
            /\ stats' = [stats EXCEPT ![g] = stats[g] + burst[g]]
        BY <1>2 DEF StatsAddField, TypeInv, TypeOK, StatsType
      <3>2. Committed[f] = stats[f] + (IF added < k THEN burst[f] ELSE 0)
        BY <3>1, CommittedAt
      <3>3. Committed'[f] = stats'[f] + (IF wpc' = "adding" /\ added' < k
                                         THEN burst'[f] ELSE 0)
        BY <1>t, CommittedAtNext
      <3>4. stats'[f] = IF k = added + 1 THEN stats[f] + burst[f] ELSE stats[f]
        BY <3>1, FieldOrderFacts DEF TypeInv, TypeOK, StatsType
      <3>5. stats[f] \in Nat /\ burst[f] \in Nat
        BY FieldOrderFacts DEF TypeInv, TypeOK, StatsType, BurstType
      <3> QED
        BY <3>1, <3>2, <3>3, <3>4, <3>5
    <2>2. Committed' = Committed
      BY <2>1, FieldOrderFacts DEF Committed
    <2> QED
      BY <1>2, <2>2 DEF StatsAddField
  <1>3. CASE StatsUnlock
    <2>1. ASSUME NEW f \in Fields
          PROVE  Committed[f] = stats[f]
      <3> PICK k \in 1..8 : FieldOrder[k] = f
        BY FieldOrderFacts
      <3> QED
        BY <1>3, CommittedAt DEF StatsUnlock, TypeInv, TypeOK, StatsType
    <2>2. Committed' = stats'
      BY <1>3, <1>t DEF StatsUnlock, NextDirection, Committed, TypeInv, TypeOK, StatsType
    <2>3. Committed' = Committed
      BY <1>3, <2>1, <2>2 DEF StatsUnlock, Committed, TypeInv, TypeOK, StatsType
    <2> QED
      BY <1>3, <2>3 DEF StatsUnlock
  <1>4. CASE ResetStats \/ StartWorker
    <2>1. wpc' # "adding"
      BY <1>4 DEF ResetStats, StartWorker, BurstInv
    <2>2. Committed' = stats'
      BY <2>1, <1>t DEF Committed, TypeInv, TypeOK, StatsType
    <2> QED
      BY <1>4, <2>2
      DEF ResetStats, StartWorker, Ledger!Next, Ledger!Clear, Ledger!Blank,
          Ledger!LedgerFields, NoPackets, Fields
  <1>5. CASE StartWorkerFails
    <2>1. wpc = "none" /\ wpc' = "none" /\ reply' = reply
      BY <1>5 DEF StartWorkerFails, ThreadInv, BeforeThread
    <2>2. Committed = stats /\ Committed' = stats'
      BY <2>1, <1>t DEF Committed, TypeInv, TypeOK, StatsType
    <2>3. stats' = stats \/ stats' = NoPackets
      BY <1>5 DEF StartWorkerFails
    <2> QED
      BY <2>1, <2>2, <2>3
      DEF Ledger!Next, Ledger!Clear, Ledger!Blank, Ledger!LedgerFields,
          NoPackets, Fields
  <1>6. CASE GetStats
    <2>1. wpc # "adding" /\ wpc' = wpc /\ stats' = stats /\ reply' = stats
      BY <1>6 DEF GetStats, BurstInv
    <2>2. Committed = stats /\ Committed' = stats
      BY <2>1 DEF Committed, TypeInv, TypeOK, StatsType
    <2> QED
      BY <2>1, <2>2 DEF Ledger!Next, Ledger!Read
  <1>7. CASE UNCHANGED <<wpc, burst, statsVars>>
    BY <1>7 DEF Committed
  <1>8. CASE wpc # "adding" /\ wpc' # "adding" /\ UNCHANGED <<stats, reply>>
    <2>1. Committed' = Committed
      BY <1>8 DEF Committed
    <2> QED
      BY <2>1, <1>8
  <1>9. CASE \/ Register \/ SignalLock \/ Signal \/ Loop \/ PauseCheck
             \/ RxEmpty \/ RxBurst \/ DropMalformed \/ ClassifyEnd
             \/ TxBurst \/ Unregister
    <2>1. wpc # "adding" /\ wpc' # "adding" /\ UNCHANGED <<stats, reply>>
      BY <1>9 DEF Register, SignalLock, Signal, Loop, PauseCheck, RxEmpty,
          RxBurst, DropMalformed, ClassifyEnd, TxBurst, Unregister,
          NextDirection
    <2> QED
      BY <2>1, <1>8
  <1> QED
    BY <1>1, <1>2, <1>3, <1>4, <1>5, <1>6, <1>7, <1>9
    DEF Next, MainStep, StartUp, ShutDown, Request, WorkerStep, Terminated,
        vars, DaemonInit, DaemonInitFails, StartDegraded, EalStart,
        EalStartFails, PortsStart, PortsStartFails, AwaitLock, AwaitSleep,
        WorkerStarted, WorkerRefused, JoinRefused, UndoStart, LeaveServe,
        CleanupStop, CleanupJoin, CleanupRelease, ServePoll, PollTimeout,
        PollError, Accept, Pause, Resume, Hangup, KeepCandidate, StopSignal,
        SpuriousWakeup, TxDone, ReleasePortsAndEal

-----------------------------------------------------------------------------
(* Theorems                                                                *)

LedgerInv == Conserved(Committed) /\ Conserved(reply)

\* A post, a clear and a read of the ledger keep the counters adding up
\* (datapath.c:185-204).
LEMMA ConservedStep ==
    TypeInv /\ LedgerInv /\ [Ledger!Next]_<<Committed, reply>> => LedgerInv'
  <1> SUFFICES ASSUME TypeInv, LedgerInv, [Ledger!Next]_<<Committed, reply>>
               PROVE  LedgerInv'
    OBVIOUS
  <1>0. Committed \in [Fields -> Nat] /\ reply \in [Fields -> Nat]
    BY DEF Committed, TypeInv, TypeOK, StatsType, BurstType
  <1>1. CASE Ledger!Post
    <2> PICK rx \in 1..BurstSize : \E malformed \in 0..rx :
             \E sent \in 0..(rx - malformed) :
                Committed' = [f \in Fields |->
                   Committed[f] + Ledger!BurstEntry(rx, malformed, sent)[f]]
      BY <1>1 DEF Ledger!Post, Ledger!LedgerFields, Fields
    <2> PICK malformed \in 0..rx, sent \in Nat :
             /\ sent \in 0..(rx - malformed)
             /\ Committed' = [f \in Fields |->
                   Committed[f] + Ledger!BurstEntry(rx, malformed, sent)[f]]
      OBVIOUS
    <2>1. /\ Committed'["rx_packets"] = Committed["rx_packets"] + rx
          /\ Committed'["tx_packets"] = Committed["tx_packets"] + sent
          /\ Committed'["drop_packets"] = Committed["drop_packets"] + (rx - sent)
          /\ Committed'["drop_parse_errors"] =
                Committed["drop_parse_errors"] + malformed
          /\ Committed'["drop_no_match"] = Committed["drop_no_match"]
          /\ Committed'["unsent_packets"] =
                Committed["unsent_packets"] + ((rx - malformed) - sent)
          /\ Committed'["rx_bursts"] = Committed["rx_bursts"] + 1
          /\ \/ Committed'["tx_bursts"] = Committed["tx_bursts"]
             \/ Committed'["tx_bursts"] = Committed["tx_bursts"] + 1
      BY <1>0 DEF Ledger!BurstEntry, Ledger!LedgerFields, Fields
    <2>2. Conserved(Committed)'
      BY <1>0, <2>1, BurstSizeAssumption DEF LedgerInv, Conserved, Fields
    <2> QED
      BY <1>1, <2>2 DEF Ledger!Post, LedgerInv, Conserved
  <1>2. CASE Ledger!Clear
    BY <1>2 DEF Ledger!Clear, Ledger!Blank, Ledger!LedgerFields, LedgerInv,
        Conserved
  <1>3. CASE Ledger!Read
    BY <1>3 DEF Ledger!Read, LedgerInv, Conserved
  <1>4. CASE UNCHANGED <<Committed, reply>>
    BY <1>4 DEF LedgerInv, Conserved
  <1> QED
    BY <1>1, <1>2, <1>3, <1>4 DEF Ledger!Next

\* The daemon starts with a blank ledger.
LEMMA LedgerInit == Init => LedgerInv /\ Ledger!Init
  <1> SUFFICES ASSUME Init PROVE LedgerInv /\ Ledger!Init
    OBVIOUS
  <1>1. Committed = NoPackets /\ reply = NoPackets
    BY DEF Init, Committed, NoPackets
  <1> QED
    BY <1>1 DEF LedgerInv, Conserved, NoPackets, Fields, Ledger!Init,
        Ledger!Blank, Ledger!LedgerFields

\* The inductive invariant of packets and counters.
LEMMA PacketInvariant ==
    Spec => [](TypeInv /\ ThreadInv /\ BurstInv /\ MbufAccounting /\ LedgerInv)
  <1> DEFINE I == TypeInv /\ ThreadInv /\ BurstInv /\ MbufAccounting /\ LedgerInv
  <1>1. Init => I
    BY TypeInit, ControlInit, BurstInit, MbufInit, LedgerInit DEF ControlInv
  <1>2. I /\ [Next]_vars => I'
    BY TypeStep, ThreadStep, BurstStep, MbufStep, LedgerStep, ConservedStep
  <1> QED
    BY <1>1, <1>2, PTL DEF Spec

\* In-place compaction and partial transmission lose no mbuf and free none
\* twice, for every pool and burst size.
THEOREM MbufSafety == Spec => []MbufAccounting
  BY PacketInvariant, PTL

\* The counters a client reads always add up, although the worker adds a
\* burst field by field and clients reset at any time.
THEOREM StatsSafety == Spec => []StatsConserved
  <1>1. TypeInv /\ BurstInv /\ LedgerInv => StatsConserved
    <2> SUFFICES ASSUME TypeInv, BurstInv, LedgerInv PROVE StatsConserved
      OBVIOUS
    <2>1. slock = "free" => Committed = stats
      BY CommittedIdle DEF BurstInv
    <2> QED
      BY <2>1 DEF LedgerInv, StatsConserved
  <1> QED
    BY <1>1, PacketInvariant, PTL

\* The field-by-field counters implement the atomic ledger.
THEOREM LedgerRefinement == Spec => ImplementsLedger
  <1>1. Init => Ledger!Init
    BY LedgerInit
  <1>2. TypeInv /\ ThreadInv /\ BurstInv /\ [Next]_vars
          => [Ledger!Next]_<<Committed, reply>>
    BY LedgerStep
  <1> QED
    BY <1>1, <1>2, PacketInvariant, PTL DEF Spec, ImplementsLedger, Ledger!Spec
=============================================================================
