------------------------ MODULE RuntimeProfileProofs ------------------------
(***************************************************************************)
(* Proofs about RuntimeProfile, for every document: the daemon takes what  *)
(* the controller accepts, what is launched fits its memory, and what is   *)
(* rejected can be mended.                                                 *)
(***************************************************************************)
EXTENDS RuntimeProfile, FiniteSetTheorems, TLAPS

-----------------------------------------------------------------------------
(* Arithmetic                                                              *)

\* BitLength counts up to 31 bits.
BitLimit == 2147483648

\* The powers of two of BitLength, and where 65536 lies among them.
LEMMA Powers ==
    ASSUME NEW b \in 0..31
    PROVE  /\ 2^b \in Nat /\ 2^b >= 1
           /\ b <= 16 => 2^b <= MAX_MEMPOOL_SIZE
           /\ b > 16 => 2^(b - 1) >= MAX_MEMPOOL_SIZE
<1>1. CASE b = 0
  BY <1>1 DEF MAX_MEMPOOL_SIZE
<1>2. CASE b = 1
  BY <1>2 DEF MAX_MEMPOOL_SIZE
<1>3. CASE b = 2
  BY <1>3 DEF MAX_MEMPOOL_SIZE
<1>4. CASE b = 3
  BY <1>4 DEF MAX_MEMPOOL_SIZE
<1>5. CASE b = 4
  BY <1>5 DEF MAX_MEMPOOL_SIZE
<1>6. CASE b = 5
  BY <1>6 DEF MAX_MEMPOOL_SIZE
<1>7. CASE b = 6
  BY <1>7 DEF MAX_MEMPOOL_SIZE
<1>8. CASE b = 7
  BY <1>8 DEF MAX_MEMPOOL_SIZE
<1>9. CASE b = 8
  BY <1>9 DEF MAX_MEMPOOL_SIZE
<1>10. CASE b = 9
  BY <1>10 DEF MAX_MEMPOOL_SIZE
<1>11. CASE b = 10
  BY <1>11 DEF MAX_MEMPOOL_SIZE
<1>12. CASE b = 11
  BY <1>12 DEF MAX_MEMPOOL_SIZE
<1>13. CASE b = 12
  BY <1>13 DEF MAX_MEMPOOL_SIZE
<1>14. CASE b = 13
  BY <1>14 DEF MAX_MEMPOOL_SIZE
<1>15. CASE b = 14
  BY <1>15 DEF MAX_MEMPOOL_SIZE
<1>16. CASE b = 15
  BY <1>16 DEF MAX_MEMPOOL_SIZE
<1>17. CASE b = 16
  BY <1>17 DEF MAX_MEMPOOL_SIZE
<1>18. CASE b = 17
  BY <1>18 DEF MAX_MEMPOOL_SIZE
<1>19. CASE b = 18
  BY <1>19 DEF MAX_MEMPOOL_SIZE
<1>20. CASE b = 19
  BY <1>20 DEF MAX_MEMPOOL_SIZE
<1>21. CASE b = 20
  BY <1>21 DEF MAX_MEMPOOL_SIZE
<1>22. CASE b = 21
  BY <1>22 DEF MAX_MEMPOOL_SIZE
<1>23. CASE b = 22
  BY <1>23 DEF MAX_MEMPOOL_SIZE
<1>24. CASE b = 23
  BY <1>24 DEF MAX_MEMPOOL_SIZE
<1>25. CASE b = 24
  BY <1>25 DEF MAX_MEMPOOL_SIZE
<1>26. CASE b = 25
  BY <1>26 DEF MAX_MEMPOOL_SIZE
<1>27. CASE b = 26
  BY <1>27 DEF MAX_MEMPOOL_SIZE
<1>28. CASE b = 27
  BY <1>28 DEF MAX_MEMPOOL_SIZE
<1>29. CASE b = 28
  BY <1>29 DEF MAX_MEMPOOL_SIZE
<1>30. CASE b = 29
  BY <1>30 DEF MAX_MEMPOOL_SIZE
<1>31. CASE b = 30
  BY <1>31 DEF MAX_MEMPOOL_SIZE
<1>32. CASE b = 31
  BY <1>32 DEF MAX_MEMPOOL_SIZE
<1>33. QED
  BY <1>1, <1>2, <1>3, <1>4, <1>5, <1>6, <1>7, <1>8, <1>9, <1>10, <1>11, <1>12,
     <1>13, <1>14, <1>15, <1>16, <1>17, <1>18, <1>19, <1>20, <1>21, <1>22,
     <1>23, <1>24, <1>25, <1>26, <1>27, <1>28, <1>29, <1>30, <1>31, <1>32

LEMMA BitLengthChosen ==
    ASSUME NEW value,
           \E b \in 0..31 : value < 2^b /\ (b = 0 \/ value >= 2^(b - 1))
    PROVE  LET b == BitLength(value)
           IN  b \in 0..31 /\ value < 2^b /\ (b = 0 \/ value >= 2^(b - 1))
BY Zenon DEF BitLength

\* int.bit_length, on what is below 2^31.
LEMMA BitLengthCorrect ==
    ASSUME NEW value \in Nat, value < BitLimit
    PROVE  LET b == BitLength(value)
           IN  b \in 0..31 /\ value < 2^b /\ (b = 0 \/ value >= 2^(b - 1))
<1> DEFINE Fits(b) == value < 2^b /\ (b = 0 \/ value >= 2^(b - 1))
<1>1. \E b \in 0..31 : Fits(b)
  <2>1. value = 0 => Fits(0)
    OBVIOUS
  <2>2. value = 1 => Fits(1)
    OBVIOUS
  <2>3. 2 <= value /\ value < 4 => Fits(2)
    OBVIOUS
  <2>4. 4 <= value /\ value < 8 => Fits(3)
    OBVIOUS
  <2>5. 8 <= value /\ value < 16 => Fits(4)
    OBVIOUS
  <2>6. 16 <= value /\ value < 32 => Fits(5)
    OBVIOUS
  <2>7. 32 <= value /\ value < 64 => Fits(6)
    OBVIOUS
  <2>8. 64 <= value /\ value < 128 => Fits(7)
    OBVIOUS
  <2>9. 128 <= value /\ value < 256 => Fits(8)
    OBVIOUS
  <2>10. 256 <= value /\ value < 512 => Fits(9)
    OBVIOUS
  <2>11. 512 <= value /\ value < 1024 => Fits(10)
    OBVIOUS
  <2>12. 1024 <= value /\ value < 2048 => Fits(11)
    OBVIOUS
  <2>13. 2048 <= value /\ value < 4096 => Fits(12)
    OBVIOUS
  <2>14. 4096 <= value /\ value < 8192 => Fits(13)
    OBVIOUS
  <2>15. 8192 <= value /\ value < 16384 => Fits(14)
    OBVIOUS
  <2>16. 16384 <= value /\ value < 32768 => Fits(15)
    OBVIOUS
  <2>17. 32768 <= value /\ value < 65536 => Fits(16)
    OBVIOUS
  <2>18. 65536 <= value /\ value < 131072 => Fits(17)
    OBVIOUS
  <2>19. 131072 <= value /\ value < 262144 => Fits(18)
    OBVIOUS
  <2>20. 262144 <= value /\ value < 524288 => Fits(19)
    OBVIOUS
  <2>21. 524288 <= value /\ value < 1048576 => Fits(20)
    OBVIOUS
  <2>22. 1048576 <= value /\ value < 2097152 => Fits(21)
    OBVIOUS
  <2>23. 2097152 <= value /\ value < 4194304 => Fits(22)
    OBVIOUS
  <2>24. 4194304 <= value /\ value < 8388608 => Fits(23)
    OBVIOUS
  <2>25. 8388608 <= value /\ value < 16777216 => Fits(24)
    OBVIOUS
  <2>26. 16777216 <= value /\ value < 33554432 => Fits(25)
    OBVIOUS
  <2>27. 33554432 <= value /\ value < 67108864 => Fits(26)
    OBVIOUS
  <2>28. 67108864 <= value /\ value < 134217728 => Fits(27)
    OBVIOUS
  <2>29. 134217728 <= value /\ value < 268435456 => Fits(28)
    OBVIOUS
  <2>30. 268435456 <= value /\ value < 536870912 => Fits(29)
    OBVIOUS
  <2>31. 536870912 <= value /\ value < 1073741824 => Fits(30)
    OBVIOUS
  <2>32. 1073741824 <= value /\ value < 2147483648 => Fits(31)
    OBVIOUS
  <2>33. QED
    BY <2>1, <2>2, <2>3, <2>4, <2>5, <2>6, <2>7, <2>8, <2>9, <2>10, <2>11,
       <2>12, <2>13, <2>14, <2>15, <2>16, <2>17, <2>18, <2>19, <2>20, <2>21,
       <2>22, <2>23, <2>24, <2>25, <2>26, <2>27, <2>28, <2>29, <2>30, <2>31,
       <2>32 DEF BitLimit
<1>2. QED
  BY <1>1, BitLengthChosen, Zenon

\* _round_up_power_of_two rounds up, and 65536 is one of its values.
LEMMA RoundUpBounds ==
    ASSUME NEW value \in Nat, value < BitLimit
    PROVE  LET p == RoundUpPowerOfTwo(value)
           IN  /\ p \in Nat /\ p >= value /\ p >= 1
               /\ value <= MAX_MEMPOOL_SIZE => p <= MAX_MEMPOOL_SIZE
<1>1. CASE value <= 1
  BY <1>1 DEF RoundUpPowerOfTwo, MAX_MEMPOOL_SIZE
<1>2. CASE value > 1
  <2>1. value - 1 \in Nat /\ value - 1 < BitLimit
    BY <1>2 DEF BitLimit
  <2>2. PICK b \in 0..31 :
           /\ b = BitLength(value - 1)
           /\ value - 1 < 2^b /\ (b = 0 \/ value - 1 >= 2^(b - 1))
    BY <2>1, BitLengthCorrect, Zenon
  <2>3. /\ 2^b \in Nat /\ 2^b >= 1
        /\ b <= 16 => 2^b <= MAX_MEMPOOL_SIZE
        /\ b > 16 => 2^(b - 1) >= MAX_MEMPOOL_SIZE
    BY Powers, Zenon
  <2>4. RoundUpPowerOfTwo(value) = 2^b
    BY <1>2, <2>2 DEF RoundUpPowerOfTwo
  <2>5. QED
    BY <2>2, <2>3, <2>4 DEF MAX_MEMPOOL_SIZE
<1>3. QED
  BY <1>1, <1>2

LEMMA Between ==
    ASSUME NEW a \in Nat, NEW b \in Nat, NEW n \in Nat, a <= n, n <= b
    PROVE  n \in a..b
OBVIOUS

LEMMA LargerOfTwo ==
    ASSUME NEW a \in Nat, NEW b \in Nat
    PROVE  Max({a, b}) \in {a, b} /\ Max({a, b}) >= a /\ Max({a, b}) >= b
BY DEF Max

LEMMA SmallerOfTwo ==
    ASSUME NEW a \in Nat, NEW b \in Nat
    PROVE  Min({a, b}) \in {a, b} /\ Min({a, b}) <= a /\ Min({a, b}) <= b
BY DEF Min

\* The pool for two ports whose queues are within their limit.
LEMMA MempoolForTwoPorts ==
    ASSUME NEW rx \in Nat, rx <= MAX_QUEUE_SIZE,
           NEW tx \in Nat, tx <= MAX_QUEUE_SIZE
    PROVE  /\ RecommendedMempool(PortCount, rx, tx) \in Nat
           /\ RecommendedMempool(PortCount, rx, tx) >= 8 * (rx + tx)
           /\ RecommendedMempool(PortCount, rx, tx) <= MAX_MEMPOOL_SIZE
<1> DEFINE needed == Max({2048, 2 * (rx + tx) * 4})
<1>1. rx \in Nat /\ tx \in Nat /\ rx <= 4096 /\ tx <= 4096
  BY DEF MAX_QUEUE_SIZE
<1>2. 2 * (rx + tx) * 4 \in Nat /\ 2 * (rx + tx) * 4 = 8 * (rx + tx)
  BY <1>1
<1>3. needed \in {2048, 8 * (rx + tx)} /\ needed >= 8 * (rx + tx)
  BY <1>2, LargerOfTwo
<1>4. needed \in Nat /\ needed <= 65536
  BY <1>1, <1>3
<1>5. RecommendedMempool(PortCount, rx, tx) = RoundUpPowerOfTwo(needed)
  BY DEF RecommendedMempool, PortCount, MIN_MEMPOOL_SIZE,
       MEMPOOL_HEADROOM_FACTOR
<1> HIDE DEF needed
<1>6. QED
  BY <1>1, <1>3, <1>4, <1>5, RoundUpBounds DEF MAX_MEMPOOL_SIZE, BitLimit

\* _recommended_hugepages_mb: whole pages, which hold the mbufs next to the
\* overhead; those of the largest pool are within the limit.
LEMMA HugepagesForMempool ==
    ASSUME NEW mempool \in Nat
    PROVE  LET mb == RecommendedHugepages(mempool)
           IN  /\ mb \in Nat /\ mb % HUGEPAGE_SIZE_MB = 0 /\ mb >= 256
               /\ (mb - FIXED_RUNTIME_OVERHEAD_MB) * Mebibyte
                    >= mempool * MBUF_MEMORY_ESTIMATE_BYTES
               /\ mempool <= MAX_MEMPOOL_SIZE => mb <= MAX_HUGEPAGES_MB
<1> DEFINE mbufs == (mempool * 4096 + 1048576 - 1) \div 1048576
           least == Max({256, 64 + mbufs})
           mb == ((least + 2 - 1) \div 2) * 2
<1>1. /\ mbufs \in Nat /\ mbufs * 1048576 >= mempool * 4096
      /\ mempool <= 65536 => mbufs <= 256
  OBVIOUS
<1>2. least \in {256, 64 + mbufs} /\ least >= 256 /\ least >= 64 + mbufs
  BY <1>1, LargerOfTwo
<1> HIDE DEF mbufs
<1>3. least \in Nat /\ (mempool <= 65536 => least <= 320)
  BY <1>1, <1>2
<1> HIDE DEF least
<1>4. mb \in Nat /\ mb % 2 = 0 /\ mb >= least /\ mb <= least + 1
  BY <1>3
<1>5. RecommendedHugepages(mempool) = mb
  BY DEF RecommendedHugepages, RoundUpToMultiple, Mebibyte, least, mbufs,
       HUGEPAGES_FLOOR_MB, HUGEPAGE_SIZE_MB, FIXED_RUNTIME_OVERHEAD_MB,
       MBUF_MEMORY_ESTIMATE_BYTES
<1> HIDE DEF mb
<1>6. (mb - 64) * 1048576 >= mempool * 4096
  BY <1>1, <1>2, <1>3, <1>4
<1>7. QED
  BY <1>2, <1>3, <1>4, <1>5, <1>6 DEF HUGEPAGE_SIZE_MB, Mebibyte,
       FIXED_RUNTIME_OVERHEAD_MB, MBUF_MEMORY_ESTIMATE_BYTES,
       MAX_MEMPOOL_SIZE, MAX_HUGEPAGES_MB

-----------------------------------------------------------------------------
(* The effective profile                                                   *)

\* What a document may ask for.
LEMMA RequestFields ==
    ASSUME NEW r \in Requests
    PROVE  /\ r.rx \in Nat /\ r.tx \in Nat /\ r.burst \in Nat
           /\ r.mempool \in Nat /\ r.ports \in Nat
           /\ r.hugepages \in Nat /\ r.hugepages # 1
           /\ r.name \in Nat /\ r.spec \in Nat
           /\ r.lcores = NoSpec \/ r.lcores \in Seq((Nat \X Nat) \cup {Junk})
<1>1. /\ r.rx \in Queues /\ r.tx \in Queues /\ r.burst \in Bursts
      /\ r.mempool \in Mempools /\ r.ports \in PortCounts
      /\ r.hugepages \in Hugepages /\ r.lcores \in LcoreSpecs
      /\ r.name \in NameLengths /\ r.spec \in SpecLengths
  BY DEF Requests
<1>2. /\ r.rx \in Nat /\ r.tx \in Nat /\ r.burst \in Nat
      /\ r.mempool \in Nat /\ r.ports \in Nat
  BY <1>1, RequestsAssumption
<1>3. r.hugepages \in Nat /\ r.hugepages # 1
  <2>1. r.hugepages \in Nat \ {1}
    BY <1>1, RequestsAssumption, Zenon
  <2>2. QED
    BY <2>1
<1>4. r.name \in Nat /\ r.spec \in Nat
  BY <1>1, RequestsAssumption
<1>5. r.lcores = NoSpec \/ r.lcores \in Seq((Nat \X Nat) \cup {Junk})
  BY <1>1, RequestsAssumption, Zenon
<1>6. QED
  BY <1>2, <1>3, <1>4, <1>5

\* Its fields, one by one.
LEMMA EffectiveFields ==
    ASSUME NEW r
    PROVE  LET e == Effective(r)
           IN  /\ e.rx = Or(r.rx, DEFAULT_QUEUE_SIZE)
               /\ e.tx = Or(r.tx, DEFAULT_QUEUE_SIZE)
               /\ e.burst = Or(r.burst, DEFAULT_BURST_SIZE)
               /\ e.mempool = Or(r.mempool,
                                 RecommendedMempool(r.ports, e.rx, e.tx))
               /\ e.hugepages = Or(r.hugepages,
                                   RecommendedHugepages(e.mempool))
               /\ e.lcores = IF r.lcores = NoSpec THEN <<<<1, 1>>>>
                             ELSE r.lcores
               /\ e.spec = IF r.lcores = NoSpec THEN 1 ELSE r.spec
               /\ e.name = r.name /\ e.ports = r.ports
BY DEF Effective

\* A profile without issues is within every limit.
LEMMA WithinLimits ==
    ASSUME NEW e, Blamed(e) = {}
    PROVE  /\ e.ports = PortCount
           /\ ~(e.rx > MAX_QUEUE_SIZE) /\ ~(e.tx > MAX_QUEUE_SIZE)
           /\ ~(e.burst > MAX_BURST_SIZE) /\ ~(e.burst > Min({e.rx, e.tx}))
           /\ ~(e.mempool < RecommendedMempool(e.ports, e.rx, e.tx))
           /\ ~(e.mempool > MAX_MEMPOOL_SIZE)
           /\ e.hugepages % HUGEPAGE_SIZE_MB = 0
           /\ ~(e.hugepages < RecommendedHugepages(e.mempool))
           /\ ~(e.hugepages > MAX_HUGEPAGES_MB)
<1>1. /\ "ports" \notin Blamed(e) /\ "rx" \notin Blamed(e)
      /\ "tx" \notin Blamed(e) /\ "burst" \notin Blamed(e)
      /\ "mempool" \notin Blamed(e) /\ "hugepages" \notin Blamed(e)
  OBVIOUS
<1>2. QED
  BY <1>1, Zenon DEF Blamed

\* What the controller accepts: queues, burst, pool and hugepages in the
\* ranges the daemon and its pool rely on.
LEMMA AcceptedProfile ==
    ASSUME NEW r \in Requests,
           Constructible(Effective(r)), Blamed(Effective(r)) = {}
    PROVE  LET e == Effective(r)
           IN  /\ e.rx \in Nat /\ 1 <= e.rx /\ e.rx <= MAX_QUEUE_SIZE
               /\ e.tx \in Nat /\ 1 <= e.tx /\ e.tx <= MAX_QUEUE_SIZE
               /\ e.burst \in Nat /\ 1 <= e.burst /\ e.burst <= MAX_BURST_SIZE
               /\ e.burst <= e.rx
               /\ e.mempool \in Nat /\ e.mempool <= MAX_MEMPOOL_SIZE
               /\ e.mempool >= 8 * (e.rx + e.tx)
               /\ e.hugepages \in Nat /\ 2 <= e.hugepages
               /\ e.hugepages <= MAX_HUGEPAGES_MB
               /\ e.hugepages % HUGEPAGE_SIZE_MB = 0
               /\ e.hugepages >= RecommendedHugepages(e.mempool)
<1> DEFINE e == Effective(r)
<1>1. /\ r.rx \in Nat /\ r.tx \in Nat /\ r.burst \in Nat
      /\ r.mempool \in Nat /\ r.hugepages \in Nat
  BY RequestFields
<1>2. /\ e.rx = Or(r.rx, DEFAULT_QUEUE_SIZE)
      /\ e.tx = Or(r.tx, DEFAULT_QUEUE_SIZE)
      /\ e.burst = Or(r.burst, DEFAULT_BURST_SIZE)
      /\ e.mempool = Or(r.mempool, RecommendedMempool(r.ports, e.rx, e.tx))
      /\ e.hugepages = Or(r.hugepages, RecommendedHugepages(e.mempool))
      /\ e.ports = r.ports
  BY EffectiveFields
<1>3. /\ e.ports = PortCount
      /\ ~(e.rx > MAX_QUEUE_SIZE) /\ ~(e.tx > MAX_QUEUE_SIZE)
      /\ ~(e.burst > MAX_BURST_SIZE) /\ ~(e.burst > Min({e.rx, e.tx}))
      /\ ~(e.mempool < RecommendedMempool(e.ports, e.rx, e.tx))
      /\ ~(e.mempool > MAX_MEMPOOL_SIZE)
      /\ e.hugepages % HUGEPAGE_SIZE_MB = 0
      /\ ~(e.hugepages < RecommendedHugepages(e.mempool))
      /\ ~(e.hugepages > MAX_HUGEPAGES_MB)
  BY WithinLimits
<1>4. /\ e.rx >= 1 /\ e.tx >= 1 /\ e.burst >= 1 /\ e.mempool >= 1
      /\ e.hugepages >= 2
  BY DEF Constructible
<1> HIDE DEF e
<1>5. e.rx \in Nat /\ e.tx \in Nat /\ e.burst \in Nat
  BY <1>1, <1>2 DEF Or, DEFAULT_QUEUE_SIZE, DEFAULT_BURST_SIZE
<1>6. /\ 1 <= e.rx /\ e.rx <= MAX_QUEUE_SIZE
      /\ 1 <= e.tx /\ e.tx <= MAX_QUEUE_SIZE
  BY <1>3, <1>4, <1>5 DEF MAX_QUEUE_SIZE
<1>7. 1 <= e.burst /\ e.burst <= MAX_BURST_SIZE
  BY <1>3, <1>4, <1>5 DEF MAX_BURST_SIZE
<1>8. e.burst <= e.rx
  BY <1>3, <1>5, SmallerOfTwo
<1>9. /\ RecommendedMempool(PortCount, e.rx, e.tx) \in Nat
      /\ RecommendedMempool(PortCount, e.rx, e.tx) >= 8 * (e.rx + e.tx)
  BY <1>5, <1>6, MempoolForTwoPorts
<1>10. e.mempool \in Nat
  BY <1>1, <1>2, <1>3, <1>9 DEF Or
<1>11. e.mempool <= MAX_MEMPOOL_SIZE /\ e.mempool >= 8 * (e.rx + e.tx)
  BY <1>3, <1>4, <1>5, <1>9, <1>10 DEF MAX_MEMPOOL_SIZE
<1>12. RecommendedHugepages(e.mempool) \in Nat
  BY <1>10, HugepagesForMempool
<1>13. e.hugepages \in Nat
  BY <1>1, <1>2, <1>12 DEF Or
<1>14. /\ 2 <= e.hugepages /\ e.hugepages <= MAX_HUGEPAGES_MB
       /\ e.hugepages >= RecommendedHugepages(e.mempool)
  BY <1>3, <1>4, <1>12, <1>13 DEF MAX_HUGEPAGES_MB
<1>15. QED
  BY <1>3, <1>5, <1>6, <1>7, <1>8, <1>10, <1>11, <1>13, <1>14 DEF e

-----------------------------------------------------------------------------
(* The way of a profile                                                    *)

\* What each phase says of the request it was reached with.
ProfileInv ==
    /\ request \in Requests
    /\ phase \in {"requested", "raised", "rejected", "accepted", "refused",
                  "prepared"}
    /\ phase = "raised" => ~Constructible(Effective(request))
    /\ phase = "rejected" => /\ Constructible(Effective(request))
                             /\ Blamed(Effective(request)) # {}
    /\ phase \in {"accepted", "refused", "prepared"} =>
          /\ effective = Effective(request)
          /\ Constructible(effective) /\ Blamed(effective) = {}
    /\ phase = "refused" => ~Prepares(effective)
    /\ phase = "prepared" => ports = Narrowed(effective)

\* Every phase is reached the way ProfileInv says.
THEOREM ProfileCorrect == Spec => []ProfileInv
<1>1. Init => ProfileInv
  BY DEF Init, ProfileInv
<1>2. ProfileInv /\ [Next]_vars => ProfileInv'
  <2> SUFFICES ASSUME ProfileInv, [Next]_vars
               PROVE  ProfileInv'
    OBVIOUS
  <2>1. CASE Derive
    <3>1. request' = request /\ phase = "requested"
      BY <2>1 DEF Derive
    <3>2. CASE /\ ~Constructible(Effective(request))
               /\ phase' = "raised" /\ UNCHANGED effective
      BY <3>1, <3>2 DEF ProfileInv
    <3>3. CASE /\ Constructible(Effective(request))
               /\ Blamed(Effective(request)) # {}
               /\ phase' = "rejected" /\ UNCHANGED effective
      BY <3>1, <3>3 DEF ProfileInv
    <3>4. CASE /\ Constructible(Effective(request))
               /\ Blamed(Effective(request)) = {}
               /\ phase' = "accepted" /\ effective' = Effective(request)
      BY <3>1, <3>4 DEF ProfileInv
    <3>5. QED
      BY <2>1, <3>2, <3>3, <3>4 DEF Derive
  <2>2. CASE Launch
    BY <2>2 DEF Launch, ProfileInv
  <2>3. CASE Finished \/ UNCHANGED vars
    BY <2>3 DEF Finished, vars, ProfileInv
  <2>4. QED
    BY <2>1, <2>2, <2>3 DEF Next
<1>3. QED
  BY <1>1, <1>2, PTL DEF Spec

\* The daemon refuses no profile the controller accepted, unless a text does
\* not fit its buffer: the two sets of limits, of validation.py and of eal.c
\* and ports.c, are compatible for every document, not only the sampled ones.
THEOREM AgreementSafety == Spec => []DaemonAgrees
<1>1. ProfileInv => DaemonAgrees
  <2> SUFFICES ASSUME ProfileInv, phase = "refused",
                      ~(request.name >= NAME_LEN),
                      ~(request.spec >= LCORES_LEN)
               PROVE  FALSE
    BY DEF DaemonAgrees
  <2> DEFINE e == Effective(request)
  <2>1. /\ request \in Requests /\ effective = e
        /\ Constructible(e) /\ Blamed(e) = {} /\ ~Prepares(e)
    BY DEF ProfileInv
  <2>2. /\ e.rx \in Nat /\ 1 <= e.rx /\ e.rx <= 4096
        /\ e.tx \in Nat /\ 1 <= e.tx /\ e.tx <= 4096
        /\ e.burst \in Nat /\ 1 <= e.burst /\ e.burst <= 256
        /\ e.mempool \in Nat /\ 16 <= e.mempool /\ e.mempool <= 65536
        /\ e.hugepages \in Nat /\ 2 <= e.hugepages /\ e.hugepages <= 1024
        /\ e.hugepages % HUGEPAGE_SIZE_MB = 0
    BY <2>1, AcceptedProfile DEF MAX_QUEUE_SIZE, MAX_BURST_SIZE,
                                 MAX_MEMPOOL_SIZE, MAX_HUGEPAGES_MB
  <2>3. e.name = request.name
        /\ e.spec = IF request.lcores = NoSpec THEN 1 ELSE request.spec
    BY EffectiveFields
  <2>4. request.name \in Nat /\ request.spec \in Nat
    BY <2>1, RequestFields
  <2> HIDE DEF e
  <2>5. ArgsParse(e)
    BY <2>2 DEF ArgsParse, ARG_MAX
  <2>6. EalPrepares(e)
    BY <2>2, <2>3, <2>4 DEF EalPrepares, LCORES_LEN, HUGEPAGE_SIZE_MB
  <2>7. PortsPrepares(e)
    <3>1. e.burst \in 1..256
      BY <2>2, Between
    <3>2. e.rx \in 1..UINT16_MAX /\ e.tx \in 1..UINT16_MAX
      <4>1. /\ UINT16_MAX \in Nat /\ e.rx <= UINT16_MAX /\ e.tx <= UINT16_MAX
        BY <2>2 DEF UINT16_MAX
      <4>2. QED
        BY <2>2, <4>1, Between
    <3>3. e.mempool # 0 /\ e.name < NAME_LEN
      BY <2>2, <2>3, <2>4 DEF NAME_LEN
    <3>4. QED
      BY <3>1, <3>2, <3>3 DEF PortsPrepares
  <2>8. QED
    BY <2>1, <2>5, <2>6, <2>7 DEF Prepares
<1>2. QED
  BY <1>1, ProfileCorrect, PTL

\* The pool of a launched daemon fills every queue of both ports and still
\* serves a burst, and its mbufs fit the hugepages: the narrowing casts lose
\* nothing, and the recommended sizes are large enough.
THEOREM ResourceSafety == Spec => []ResourcesSuffice
<1>1. ProfileInv => ResourcesSuffice
  <2> SUFFICES ASSUME ProfileInv, phase = "prepared"
               PROVE  ResourcesSuffice
    BY DEF ResourcesSuffice
  <2> DEFINE e == Effective(request)
  <2>1. /\ request \in Requests /\ effective = e
        /\ Constructible(e) /\ Blamed(e) = {} /\ ports = Narrowed(e)
    BY DEF ProfileInv
  <2>2. /\ e.rx \in Nat /\ e.rx <= 4096 /\ e.tx \in Nat /\ e.tx <= 4096
        /\ e.burst \in Nat /\ e.burst <= 256 /\ e.burst <= e.rx
        /\ e.mempool \in Nat /\ e.mempool >= 8 * (e.rx + e.tx)
        /\ e.hugepages \in Nat
        /\ e.hugepages >= RecommendedHugepages(e.mempool)
    BY <2>1, AcceptedProfile DEF MAX_QUEUE_SIZE, MAX_BURST_SIZE,
                                 MAX_MEMPOOL_SIZE, MAX_HUGEPAGES_MB
  <2> HIDE DEF e
  <2>3. 2^16 = 65536
    OBVIOUS
  <2>4. /\ ports.burst = e.burst /\ ports.rx = e.rx /\ ports.tx = e.tx
        /\ ports.mempool = e.mempool
    BY <2>1, <2>2, <2>3
       DEF Narrowed
  <2>5. e.mempool >= PortCount * (e.rx + e.tx) + e.burst
    BY <2>2 DEF PortCount
  <2>6. /\ RecommendedHugepages(e.mempool) \in Nat
        /\ (RecommendedHugepages(e.mempool) - FIXED_RUNTIME_OVERHEAD_MB)
             * Mebibyte >= e.mempool * MBUF_MEMORY_ESTIMATE_BYTES
    BY <2>2, HugepagesForMempool
  <2>7. (e.hugepages - FIXED_RUNTIME_OVERHEAD_MB) * Mebibyte
          >= e.mempool * MBUF_MEMORY_ESTIMATE_BYTES
    BY <2>2, <2>6 DEF FIXED_RUNTIME_OVERHEAD_MB, Mebibyte,
                      MBUF_MEMORY_ESTIMATE_BYTES
  <2>8. QED
    BY <2>1, <2>4, <2>5, <2>7 DEF ResourcesSuffice
<1>2. QED
  BY <1>1, ProfileCorrect, PTL

-----------------------------------------------------------------------------
(* Rejections                                                              *)

\* Every estimate of a pool has at most the 31 bits BitLength looks at.
EstimateFits ==
    \A n \in PortCounts, rx, tx \in Queues \cup {DEFAULT_QUEUE_SIZE} :
       n * (rx + tx) * MEMPOOL_HEADROOM_FACTOR <= ARG_MAX

\* The default lcores, one of them, give no cause for an issue.
LEMMA DefaultLcores ==
    LET tokens == <<<<1, 1>>>>
    IN  SpecReadable(tokens) /\ ~SpecRepeats(tokens) /\ LcoreCount(tokens) = 1
<1> DEFINE tokens == <<<<1, 1>>>>
<1>1. DOMAIN tokens = {1} /\ tokens[1] = <<1, 1>> /\ tokens # <<>>
  OBVIOUS
<1>2. Ids(<<1, 1>>) = {1}
  BY DEF Ids
<1>3. tokens[1] # Junk
  BY <1>1, RequestsAssumption
<1> HIDE DEF tokens
<1>4. SpecReadable(tokens)
  BY <1>1, <1>2, <1>3 DEF SpecReadable
<1>5. ~SpecRepeats(tokens)
  BY <1>1 DEF SpecRepeats
<1>6. UNION {Ids(tokens[i]) : i \in DOMAIN tokens} = {1}
  BY <1>1, <1>2
<1>7. Cardinality({1}) = 1
  BY FS_Singleton, Zenon
<1>8. LcoreCount(tokens) = 1
  BY <1>4, <1>6, <1>7 DEF LcoreCount
<1>9. QED
  BY <1>4, <1>5, <1>8 DEF tokens

\* A text that can be read names at least one lcore.
LEMMA SomeLcore ==
    ASSUME NEW tokens \in Seq((Nat \X Nat) \cup {Junk})
    PROVE  LcoreCount(tokens) \in Nat /\ LcoreCount(tokens) >= 1
<1>1. CASE ~SpecReadable(tokens)
  BY <1>1 DEF LcoreCount
<1>2. CASE SpecReadable(tokens)
  <2> DEFINE of == [i \in DOMAIN tokens |-> Ids(tokens[i])]
             sets == {Ids(tokens[i]) : i \in DOMAIN tokens}
  <2>1. IsFiniteSet(DOMAIN tokens) /\ 1 \in DOMAIN tokens
    <3>1. /\ DOMAIN tokens = 1..Len(tokens) /\ Len(tokens) \in Nat
          /\ tokens # <<>>
      BY <1>2 DEF SpecReadable
    <3>2. Len(tokens) # 0
      BY <3>1
    <3>3. QED
      BY <3>1, <3>2, FS_Interval
  <2>2. \A i \in DOMAIN tokens : tokens[i] \in Nat \X Nat
    BY <1>2 DEF SpecReadable
  <2>3. \A set \in sets : IsFiniteSet(set)
    <3>1. ASSUME NEW i \in DOMAIN tokens
          PROVE  IsFiniteSet(Ids(tokens[i]))
      <4>1. tokens[i][1] \in Int /\ tokens[i][2] \in Int
        BY <2>2
      <4>2. QED
        BY <4>1, FS_Interval, Zenon DEF Ids
    <3>2. QED
      BY <3>1
  <2>4. IsFiniteSet(sets)
    <3>1. of \in Surjection(DOMAIN tokens, sets)
      BY DEF Surjection
    <3>2. QED
      BY <2>1, <3>1, FS_Surjection
  <2>5. IsFiniteSet(UNION sets)
    BY <2>3, <2>4, FS_UNION, Zenon
  <2>6. UNION sets # {}
    BY <1>2, <2>1 DEF SpecReadable
  <2>7. Cardinality(UNION sets) \in Nat /\ Cardinality(UNION sets) # 0
    BY <2>5, <2>6, FS_EmptySet, FS_CardinalityType, Zenon
  <2>8. LcoreCount(tokens) = Cardinality(UNION sets)
    BY <1>2 DEF LcoreCount
  <2>9. QED
    BY <2>7, <2>8
<1>3. QED
  BY <1>1, <1>2

\* Why a knob is blamed.
LEMMA Causes ==
    ASSUME NEW e
    PROVE  /\ "rx" \in Blamed(e) => e.rx > MAX_QUEUE_SIZE
           /\ "tx" \in Blamed(e) => e.tx > MAX_QUEUE_SIZE
           /\ "burst" \in Blamed(e) => \/ e.burst > MAX_BURST_SIZE
                                       \/ e.burst > Min({e.rx, e.tx})
           /\ "mempool" \in Blamed(e) =>
                 \/ e.mempool < RecommendedMempool(e.ports, e.rx, e.tx)
                 \/ e.mempool > MAX_MEMPOOL_SIZE
           /\ "hugepages" \in Blamed(e) =>
                 \/ e.hugepages % HUGEPAGE_SIZE_MB # 0
                 \/ e.hugepages < RecommendedHugepages(e.mempool)
                 \/ e.hugepages > MAX_HUGEPAGES_MB
           /\ "lcores" \in Blamed(e) =>
                 \/ ~SpecReadable(e.lcores) \/ SpecRepeats(e.lcores)
                 \/ LcoreCount(e.lcores) > MAX_LCORE_COUNT
           /\ Blamed(e) \subseteq {"lcores", "rx", "tx", "burst", "mempool",
                                   "hugepages", "ports"}
BY Zenon DEF Blamed

\* Four of the causes make the knob one that is blamed.
LEMMA Consequences ==
    ASSUME NEW e
    PROVE  /\ e.ports # PortCount => "ports" \in Blamed(e)
           /\ e.rx > MAX_QUEUE_SIZE => "rx" \in Blamed(e)
           /\ e.tx > MAX_QUEUE_SIZE => "tx" \in Blamed(e)
           /\ e.mempool > MAX_MEMPOOL_SIZE => "mempool" \in Blamed(e)
BY Zenon DEF Blamed

\* If no knob that is blamed was given, the default burst does not fit the
\* queues: the other defaults are accepted with whatever the document gives.
LEMMA DefaultsAreSafe ==
    ASSUME NEW r \in Requests, Constructible(Effective(r)),
           Blamed(Effective(r)) # {},
           \A knob \in Blamed(Effective(r)) : ~Given(r, knob)
    PROVE  /\ r.burst = Omitted
           /\ \E queue \in {"rx", "tx"} :
                 Or(r[queue], DEFAULT_QUEUE_SIZE) < DEFAULT_BURST_SIZE
<1> DEFINE e == Effective(r)
<1>1. /\ r.rx \in Nat /\ r.tx \in Nat /\ r.burst \in Nat
      /\ r.mempool \in Nat /\ r.hugepages \in Nat /\ r.ports \in Nat
  BY RequestFields
<1>2. /\ e.rx = Or(r.rx, DEFAULT_QUEUE_SIZE)
      /\ e.tx = Or(r.tx, DEFAULT_QUEUE_SIZE)
      /\ e.burst = Or(r.burst, DEFAULT_BURST_SIZE)
      /\ e.mempool = Or(r.mempool, RecommendedMempool(r.ports, e.rx, e.tx))
      /\ e.hugepages = Or(r.hugepages, RecommendedHugepages(e.mempool))
      /\ e.lcores = IF r.lcores = NoSpec THEN <<<<1, 1>>>> ELSE r.lcores
      /\ e.ports = r.ports
  BY EffectiveFields
<1>3. e.ports >= 1
  BY DEF Constructible
<1>4. PICK knob \in Blamed(e) : TRUE
  OBVIOUS
<1>5. \A k \in Blamed(e) : ~Given(r, k)
  OBVIOUS
<1>6. /\ "ports" \in Blamed(e) => r.ports = 0
      /\ "rx" \in Blamed(e) => r.rx = 0
      /\ "tx" \in Blamed(e) => r.tx = 0
      /\ "burst" \in Blamed(e) => r.burst = 0
      /\ "mempool" \in Blamed(e) => r.mempool = 0
      /\ "hugepages" \in Blamed(e) => r.hugepages = 0
      /\ "lcores" \in Blamed(e) => r.lcores = NoSpec
  BY <1>5 DEF Given, Omitted
<1> HIDE DEF e
<1>7. e.rx \in Nat /\ e.tx \in Nat /\ e.burst \in Nat
  BY <1>1, <1>2 DEF Or, DEFAULT_QUEUE_SIZE, DEFAULT_BURST_SIZE
<1>8. "ports" \notin Blamed(e) /\ e.ports = PortCount
  BY <1>1, <1>2, <1>3, <1>6, Consequences
<1>9. /\ "rx" \notin Blamed(e) /\ "tx" \notin Blamed(e)
      /\ e.rx <= MAX_QUEUE_SIZE /\ e.tx <= MAX_QUEUE_SIZE
  <2>1. "rx" \in Blamed(e) => e.rx > MAX_QUEUE_SIZE
    BY Causes, Zenon
  <2>2. "tx" \in Blamed(e) => e.tx > MAX_QUEUE_SIZE
    BY Causes, Zenon
  <2>3. "rx" \notin Blamed(e)
    BY <1>2, <1>6, <2>1 DEF Or, Omitted, DEFAULT_QUEUE_SIZE, MAX_QUEUE_SIZE
  <2>4. "tx" \notin Blamed(e)
    BY <1>2, <1>6, <2>2 DEF Or, Omitted, DEFAULT_QUEUE_SIZE, MAX_QUEUE_SIZE
  <2>5. ~(e.rx > MAX_QUEUE_SIZE) /\ ~(e.tx > MAX_QUEUE_SIZE)
    BY <2>3, <2>4, Consequences
  <2>6. QED
    BY <1>7, <2>3, <2>4, <2>5 DEF MAX_QUEUE_SIZE
<1>10. /\ RecommendedMempool(r.ports, e.rx, e.tx) \in Nat
       /\ RecommendedMempool(r.ports, e.rx, e.tx) <= MAX_MEMPOOL_SIZE
  BY <1>2, <1>7, <1>8, <1>9, MempoolForTwoPorts
<1>11. e.mempool \in Nat
  BY <1>1, <1>2, <1>10 DEF Or
<1>12. "mempool" \notin Blamed(e) /\ e.mempool <= MAX_MEMPOOL_SIZE
  <2>1. "mempool" \in Blamed(e) =>
           \/ e.mempool < RecommendedMempool(e.ports, e.rx, e.tx)
           \/ e.mempool > MAX_MEMPOOL_SIZE
    BY Causes, Zenon
  <2>2. "mempool" \notin Blamed(e)
    <3>1. SUFFICES ASSUME "mempool" \in Blamed(e)
                   PROVE  FALSE
      OBVIOUS
    <3>2. e.mempool = RecommendedMempool(e.ports, e.rx, e.tx)
      BY <1>2, <1>6, <3>1 DEF Or, Omitted
    <3>3. QED
      BY <1>2, <1>10, <1>11, <2>1, <3>1, <3>2 DEF MAX_MEMPOOL_SIZE
  <2>3. ~(e.mempool > MAX_MEMPOOL_SIZE)
    BY <2>2, Consequences
  <2>4. QED
    BY <1>11, <2>2, <2>3 DEF MAX_MEMPOOL_SIZE
<1>13. "hugepages" \notin Blamed(e)
  <2>1. SUFFICES ASSUME "hugepages" \in Blamed(e)
                 PROVE  FALSE
    OBVIOUS
  <2>2. \/ e.hugepages % HUGEPAGE_SIZE_MB # 0
        \/ e.hugepages < RecommendedHugepages(e.mempool)
        \/ e.hugepages > MAX_HUGEPAGES_MB
    BY <2>1, Causes, Zenon
  <2>3. e.hugepages = RecommendedHugepages(e.mempool)
    BY <1>2, <1>6, <2>1 DEF Or, Omitted
  <2>4. /\ e.hugepages \in Nat /\ e.hugepages % HUGEPAGE_SIZE_MB = 0
        /\ e.hugepages <= MAX_HUGEPAGES_MB
    BY <1>11, <1>12, <2>3, HugepagesForMempool
  <2>5. QED
    BY <2>2, <2>3, <2>4 DEF MAX_HUGEPAGES_MB
<1>14. "lcores" \notin Blamed(e)
  <2>1. SUFFICES ASSUME "lcores" \in Blamed(e)
                 PROVE  FALSE
    OBVIOUS
  <2>2. \/ ~SpecReadable(e.lcores) \/ SpecRepeats(e.lcores)
        \/ LcoreCount(e.lcores) > MAX_LCORE_COUNT
    BY <2>1, Causes, Zenon
  <2>3. e.lcores = <<<<1, 1>>>>
    BY <1>2, <1>6, <2>1
  <2>4. QED
    BY <2>2, <2>3, DefaultLcores DEF MAX_LCORE_COUNT
<1>15. knob = "burst"
  <2>1. Blamed(e) \subseteq {"lcores", "rx", "tx", "burst", "mempool",
                             "hugepages", "ports"}
    BY Causes, Zenon
  <2>2. QED
    BY <1>4, <1>8, <1>9, <1>12, <1>13, <1>14, <2>1
<1>16. r.burst = 0 /\ e.burst = 32
  BY <1>2, <1>4, <1>6, <1>15 DEF Or, Omitted, DEFAULT_BURST_SIZE
<1>17. e.burst > MAX_BURST_SIZE \/ e.burst > Min({e.rx, e.tx})
  BY <1>4, <1>15, Causes, Zenon
<1>18. e.rx < 32 \/ e.tx < 32
  BY <1>7, <1>16, <1>17, SmallerOfTwo DEF MAX_BURST_SIZE
<1>19. QED
  BY <1>2, <1>16, <1>18 DEF Omitted, DEFAULT_BURST_SIZE

\* An error of pydantic's own comes from an odd number of megabytes or from a
\* document without ports.
LEMMA ErrorsExplained ==
    ASSUME EstimateFits, NEW r \in Requests, ~Constructible(Effective(r))
    PROVE  r.hugepages % 2 = 1 \/ r.ports = 0
<1> DEFINE e == Effective(r)
<1> SUFFICES ASSUME r.hugepages % 2 # 1, r.ports # 0
             PROVE  FALSE
  OBVIOUS
<1>1. /\ r.rx \in Nat /\ r.tx \in Nat /\ r.burst \in Nat
      /\ r.mempool \in Nat /\ r.ports \in Nat
      /\ r.hugepages \in Nat /\ r.hugepages # 1
      /\ r.lcores = NoSpec \/ r.lcores \in Seq((Nat \X Nat) \cup {Junk})
  BY RequestFields
<1>2. /\ e.rx = Or(r.rx, DEFAULT_QUEUE_SIZE)
      /\ e.tx = Or(r.tx, DEFAULT_QUEUE_SIZE)
      /\ e.burst = Or(r.burst, DEFAULT_BURST_SIZE)
      /\ e.mempool = Or(r.mempool, RecommendedMempool(r.ports, e.rx, e.tx))
      /\ e.hugepages = Or(r.hugepages, RecommendedHugepages(e.mempool))
      /\ e.lcores = IF r.lcores = NoSpec THEN <<<<1, 1>>>> ELSE r.lcores
      /\ e.ports = r.ports
  BY EffectiveFields
<1>3. ~Constructible(e)
  OBVIOUS
<1>4. /\ r.rx \in Queues /\ r.tx \in Queues /\ r.ports \in PortCounts
  BY DEF Requests
<1> HIDE DEF e
<1>5. /\ e.rx \in Nat /\ e.rx >= 1 /\ e.rx \in Queues \cup {DEFAULT_QUEUE_SIZE}
      /\ e.tx \in Nat /\ e.tx >= 1 /\ e.tx \in Queues \cup {DEFAULT_QUEUE_SIZE}
  BY <1>1, <1>2, <1>4 DEF Or, Omitted, DEFAULT_QUEUE_SIZE
<1>6. e.burst \in Nat /\ e.burst >= 1
  BY <1>1, <1>2 DEF Or, Omitted, DEFAULT_BURST_SIZE
<1>7. /\ RecommendedMempool(r.ports, e.rx, e.tx) \in Nat
      /\ RecommendedMempool(r.ports, e.rx, e.tx) >= 1
  <2> DEFINE needed == r.ports * (e.rx + e.tx) * MEMPOOL_HEADROOM_FACTOR
  <2>1. needed \in Nat /\ needed < BitLimit
    <3>1. needed \in Nat
      <4>1. e.rx + e.tx \in Nat
        BY <1>5
      <4>2. r.ports * (e.rx + e.tx) \in Nat
        BY <1>1, <4>1
      <4>3. QED
        BY <4>2 DEF MEMPOOL_HEADROOM_FACTOR
    <3>2. needed <= ARG_MAX
      BY <1>4, <1>5, EstimateFits, Zenon DEF EstimateFits
    <3> HIDE DEF needed
    <3>3. QED
      BY <3>1, <3>2 DEF ARG_MAX, BitLimit
  <2> HIDE DEF needed
  <2>2. MIN_MEMPOOL_SIZE \in Nat /\ MIN_MEMPOOL_SIZE < BitLimit
    BY DEF MIN_MEMPOOL_SIZE, BitLimit
  <2> DEFINE larger == Max({MIN_MEMPOOL_SIZE, needed})
  <2>3. larger \in {MIN_MEMPOOL_SIZE, needed}
    BY <2>1, <2>2, LargerOfTwo
  <2>4. RecommendedMempool(r.ports, e.rx, e.tx) = RoundUpPowerOfTwo(larger)
    BY DEF RecommendedMempool, needed
  <2> HIDE DEF larger
  <2>5. larger \in Nat /\ larger < BitLimit
    BY <2>1, <2>2, <2>3
  <2>6. QED
    BY <2>4, <2>5, RoundUpBounds
<1>8. e.mempool \in Nat /\ e.mempool >= 1
  BY <1>1, <1>2, <1>7 DEF Or, Omitted
<1>9. e.hugepages \in Nat /\ e.hugepages >= 2 /\ e.hugepages % 2 = 0
  <2>1. CASE r.hugepages = 0
    <3>1. e.hugepages = RecommendedHugepages(e.mempool)
      BY <1>2, <2>1 DEF Or, Omitted
    <3>2. QED
      BY <1>8, <3>1, HugepagesForMempool DEF HUGEPAGE_SIZE_MB
  <2>2. CASE r.hugepages # 0
    BY <1>1, <1>2, <2>2 DEF Or, Omitted
  <2>3. QED
    BY <2>1, <2>2
<1>10. LcoreCount(e.lcores) >= 1
  BY <1>1, <1>2, DefaultLcores, SomeLcore
<1>11. QED
  BY <1>1, <1>2, <1>3, <1>5, <1>6, <1>8, <1>9, <1>10
     DEF Constructible, HUGEPAGE_SIZE_MB

\* A rejection names a knob that the document gives, but for queues shorter
\* than the default burst, and an error without issues has one of the two
\* causes above. The estimate is assumed to stay within the bits BitLength
\* looks at; Python's integers have no such limit.
THEOREM RejectionSafety ==
    ASSUME EstimateFits
    PROVE  Spec => []RejectionsAreActionable
<1>1. ProfileInv => RejectionsAreActionable
  <2> SUFFICES ASSUME ProfileInv
               PROVE  RejectionsAreActionable
    OBVIOUS
  <2>1. request \in Requests
    BY DEF ProfileInv
  <2>2. ASSUME phase = "rejected",
               ~\E knob \in Blamed(Effective(request)) : Given(request, knob)
        PROVE  /\ request.burst = Omitted
               /\ \E queue \in {"rx", "tx"} :
                     Or(request[queue], DEFAULT_QUEUE_SIZE)
                       < DEFAULT_BURST_SIZE
    <3>1. /\ Constructible(Effective(request))
          /\ Blamed(Effective(request)) # {}
      BY <2>2 DEF ProfileInv
    <3>2. QED
      BY <2>1, <2>2, <3>1, DefaultsAreSafe, Zenon
  <2>3. ASSUME phase = "raised"
        PROVE  request.hugepages % 2 = 1 \/ request.ports = 0
    <3>1. ~Constructible(Effective(request))
      BY <2>3 DEF ProfileInv
    <3>2. QED
      BY <2>1, <3>1, EstimateFits, ErrorsExplained, Zenon
  <2>4. QED
    BY <2>2, <2>3, Zenon DEF RejectionsAreActionable
<1>2. QED
  BY <1>1, ProfileCorrect, PTL

=============================================================================
