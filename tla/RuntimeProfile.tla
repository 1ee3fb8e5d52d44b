--------------------------- MODULE RuntimeProfile ---------------------------
(***************************************************************************)
(* The runtime profile of the datapath on its way from a topology document *)
(* to the daemon: the controller fills in what is omitted, checks the      *)
(* result and renders it as arguments; pktlab-dpdkd parses and checks them *)
(* again, narrows them to its own integer types and sizes its pool and     *)
(* bursts by them.                                                         *)
(***************************************************************************)
EXTENDS Integers, Sequences, FiniteSetsExt

CONSTANTS
    Hugepages, Bursts, Queues, Mempools,  \* values requested
                    \* (a set of these that holds Omitted leaves it out)
    LcoreSpecs,     \* the lcores, as sequences of ranges <<start, end>>
    Junk,           \* a token of them that is no number and no range
    NoSpec,         \* the lcores are left out
    SpecLengths,    \* lengths of the text that names the lcores
    NameLengths,    \* lengths of the port names
    PortCounts      \* numbers of dpdk_ports in the document

Omitted == 0

ASSUME RequestsAssumption ==
    /\ Bursts \cup Queues \cup Mempools \cup PortCounts \subseteq Nat
    /\ Hugepages \subseteq Nat \ {1}
    /\ LcoreSpecs \ {NoSpec} \subseteq Seq((Nat \X Nat) \cup {Junk})
    /\ Junk \notin Nat \X Nat
    /\ SpecLengths \cup NameLengths \subseteq Nat \ {0}

VARIABLES
    phase,      \* how far the profile has come
    request,    \* DpdkProcessConfigModel
    effective,  \* EffectiveDpdkRuntimeModel
    ports       \* struct pktlab_ports_config of the daemon

vars == <<phase, request, effective, ports>>

\* The limits of validation.py.
DEFAULT_BURST_SIZE == 32
DEFAULT_QUEUE_SIZE == 256
HUGEPAGE_SIZE_MB == 2
HUGEPAGES_FLOOR_MB == 256
MAX_LCORE_COUNT == 8
MAX_BURST_SIZE == 256
MAX_QUEUE_SIZE == 4096
MAX_MEMPOOL_SIZE == 65536
MAX_HUGEPAGES_MB == 1024
MIN_MEMPOOL_SIZE == 2048
MEMPOOL_HEADROOM_FACTOR == 4
MBUF_MEMORY_ESTIMATE_BYTES == 4096
FIXED_RUNTIME_OVERHEAD_MB == 64

\* One ingress and one egress port: PKTLAB_DPDKD_PORT_COUNT.
PortCount == 2

\* PKTLAB_DPDKD_NAME_LEN and PKTLAB_DPDKD_EAL_LCORES_LEN, the daemon's buffers
\* for a port name and for the text that names the lcores.
NAME_LEN == 32
LCORES_LEN == 64

\* Half of UINT32_MAX, which is beyond the integers of the model checker: the
\* parser of the daemon accepts all of these and more.
ARG_MAX == 2147483647
UINT16_MAX == 65535
Mebibyte == 1024 * 1024

Requests ==
    [lcores: LcoreSpecs, spec: SpecLengths, hugepages: Hugepages, burst: Bursts,
     rx: Queues, tx: Queues, mempool: Mempools, name: NameLengths,
     ports: PortCounts]

-----------------------------------------------------------------------------
(* The controller                                                          *)

\* x or y, on numbers that are never zero when given
Or(value, default) == IF value = Omitted THEN default ELSE value

\* int.bit_length
BitLength(value) ==
    CHOOSE b \in 0..31 : value < 2^b /\ (b = 0 \/ value >= 2^(b - 1))

\* Mutant: a power of two is rounded up to the next one.
RoundUpBeyond(value) == IF value <= 1 THEN 1 ELSE 2^BitLength(value)

\* _round_up_power_of_two
RoundUpPowerOfTwo(value) == IF value <= 1 THEN 1 ELSE 2^BitLength(value - 1)

\* _round_up_to_multiple
RoundUpToMultiple(value, multiple) ==
    ((value + multiple - 1) \div multiple) * multiple

\* The recommended_mempool_size of _derive_effective_dpdk_runtime.
RecommendedMempool(n, rx, tx) ==
    RoundUpPowerOfTwo(Max({MIN_MEMPOOL_SIZE,
                           n * (rx + tx) * MEMPOOL_HEADROOM_FACTOR}))

\* Mutant: the overhead next to the mbufs is left out.
RecommendedHugepagesTight(mempool) ==
    LET mbufs == (mempool * MBUF_MEMORY_ESTIMATE_BYTES + Mebibyte - 1)
                   \div Mebibyte
    IN  RoundUpToMultiple(Max({HUGEPAGES_FLOOR_MB, mbufs}), HUGEPAGE_SIZE_MB)

\* _recommended_hugepages_mb
RecommendedHugepages(mempool) ==
    LET mbufs == (mempool * MBUF_MEMORY_ESTIMATE_BYTES + Mebibyte - 1)
                   \div Mebibyte
    IN  RoundUpToMultiple(Max({HUGEPAGES_FLOOR_MB,
                               FIXED_RUNTIME_OVERHEAD_MB + mbufs}),
                          HUGEPAGE_SIZE_MB)

Ids(range) == range[1]..range[2]

\* _parse_lcore_spec finds no token it cannot read, and at least one it can.
SpecReadable(tokens) ==
    /\ tokens # <<>>
    /\ \A i \in DOMAIN tokens : tokens[i] # Junk /\ Ids(tokens[i]) # {}

SpecRepeats(tokens) ==
    \E i, j \in DOMAIN tokens : i # j /\ Ids(tokens[i]) \cap Ids(tokens[j]) # {}

\* lcore_count: what cannot be read counts as one lcore.
LcoreCount(tokens) ==
    IF SpecReadable(tokens)
    THEN Cardinality(UNION {Ids(tokens[i]) : i \in DOMAIN tokens}) ELSE 1

\* The values _derive_effective_dpdk_runtime settles on.
Effective(r) ==
    LET rx == Or(r.rx, DEFAULT_QUEUE_SIZE)
        tx == Or(r.tx, DEFAULT_QUEUE_SIZE)
        mempool == Or(r.mempool, RecommendedMempool(r.ports, rx, tx))
    IN  [lcores |-> IF r.lcores = NoSpec THEN <<<<1, 1>>>> ELSE r.lcores,
         spec |-> IF r.lcores = NoSpec THEN 1 ELSE r.spec,
         hugepages |-> Or(r.hugepages, RecommendedHugepages(mempool)),
         burst |-> Or(r.burst, DEFAULT_BURST_SIZE),
         rx |-> rx, tx |-> tx, mempool |-> mempool, name |-> r.name,
         ports |-> r.ports]

\* Mutant: the burst size is not checked against its own limit.
BlamedAnyBurst(e) ==
    {knob \in {"lcores", "rx", "tx", "burst", "mempool", "hugepages", "ports"} :
       \/ knob = "ports" /\ e.ports # PortCount
       \/ knob = "lcores" /\ \/ ~SpecReadable(e.lcores) \/ SpecRepeats(e.lcores)
                             \/ LcoreCount(e.lcores) > MAX_LCORE_COUNT
       \/ knob = "rx" /\ e.rx > MAX_QUEUE_SIZE
       \/ knob = "tx" /\ e.tx > MAX_QUEUE_SIZE
       \/ knob = "burst" /\ e.burst > Min({e.rx, e.tx})
       \/ knob = "mempool" /\ \/ e.mempool < RecommendedMempool(e.ports, e.rx, e.tx)
                              \/ e.mempool > MAX_MEMPOOL_SIZE
       \/ knob = "hugepages" /\ \/ e.hugepages % HUGEPAGE_SIZE_MB # 0
                                \/ e.hugepages < RecommendedHugepages(e.mempool)
                                \/ e.hugepages > MAX_HUGEPAGES_MB}

\* The paths of its issues: the knobs that have to change.
Blamed(e) ==
    {knob \in {"lcores", "rx", "tx", "burst", "mempool", "hugepages", "ports"} :
       \/ knob = "ports" /\ e.ports # PortCount
       \/ knob = "lcores" /\ \/ ~SpecReadable(e.lcores) \/ SpecRepeats(e.lcores)
                             \/ LcoreCount(e.lcores) > MAX_LCORE_COUNT
       \/ knob = "rx" /\ e.rx > MAX_QUEUE_SIZE
       \/ knob = "tx" /\ e.tx > MAX_QUEUE_SIZE
       \/ knob = "burst" /\ (e.burst > MAX_BURST_SIZE \/ e.burst > Min({e.rx, e.tx}))
       \/ knob = "mempool" /\ \/ e.mempool < RecommendedMempool(e.ports, e.rx, e.tx)
                              \/ e.mempool > MAX_MEMPOOL_SIZE
       \/ knob = "hugepages" /\ \/ e.hugepages % HUGEPAGE_SIZE_MB # 0
                                \/ e.hugepages < RecommendedHugepages(e.mempool)
                                \/ e.hugepages > MAX_HUGEPAGES_MB}

\* The constraints of EffectiveDpdkRuntimeModel, which is built, and raises an
\* error of pydantic's own, before the issues are looked at.
Constructible(e) ==
    /\ LcoreCount(e.lcores) >= 1
    /\ e.hugepages >= 2 /\ e.hugepages % HUGEPAGE_SIZE_MB = 0
    /\ \A n \in {e.burst, e.rx, e.tx, e.mempool, e.ports} : n >= 1

-----------------------------------------------------------------------------
(* The daemon                                                              *)

\* pktlab_parse_u32_arg of every number.
ArgsParse(e) ==
    \A n \in {e.hugepages, e.burst, e.rx, e.tx, e.mempool} : n <= ARG_MAX

\* pktlab_eal_prepare
EalPrepares(e) ==
    /\ e.spec < LCORES_LEN
    /\ e.hugepages # 0 /\ e.hugepages % HUGEPAGE_SIZE_MB = 0

\* pktlab_ports_prepare
PortsPrepares(e) ==
    /\ e.burst \in 1..256
    /\ e.rx \in 1..UINT16_MAX /\ e.tx \in 1..UINT16_MAX
    /\ e.mempool # 0
    /\ e.name < NAME_LEN

Prepares(e) == ArgsParse(e) /\ EalPrepares(e) /\ PortsPrepares(e)

\* The narrowing casts of pktlab_ports_prepare.
Narrowed(e) ==
    [burst |-> e.burst % 2^16, rx |-> e.rx % 2^16, tx |-> e.tx % 2^16,
     mempool |-> e.mempool]

-----------------------------------------------------------------------------
NoValues == [n \in {} |-> 0]

Init ==
    /\ phase = "requested"
    /\ request \in Requests
    /\ effective = NoValues /\ ports = NoValues

\* derive_effective_dpdk_runtime, and validate_topology_config with it.
Derive ==
    /\ phase = "requested"
    /\ LET e == Effective(request)
       IN  \/ /\ ~Constructible(e)
              /\ phase' = "raised" /\ UNCHANGED effective
           \/ /\ Constructible(e) /\ Blamed(e) # {}
              /\ phase' = "rejected" /\ UNCHANGED effective
           \/ /\ Constructible(e) /\ Blamed(e) = {}
              /\ phase' = "accepted" /\ effective' = e
    /\ UNCHANGED <<request, ports>>

\* The daemon is launched with the arguments build_dpdk_runtime_args renders.
Launch ==
    /\ phase = "accepted"
    /\ IF Prepares(effective)
       THEN phase' = "prepared" /\ ports' = Narrowed(effective)
       ELSE phase' = "refused" /\ UNCHANGED ports
    /\ UNCHANGED <<request, effective>>

Finished == phase \in {"raised", "rejected", "refused", "prepared"} /\ UNCHANGED vars

Next == Derive \/ Launch \/ Finished

Spec == Init /\ [][Next]_vars

-----------------------------------------------------------------------------
(* Properties                                                              *)

\* The daemon refuses no profile the controller accepted, except for a text
\* that does not fit its buffer, whose length the controller does not look at
\* (validation.py:223-346 against eal.c:36-62 and ports.c:44-148).
DaemonAgrees ==
    phase = "refused" =>
       request.name >= NAME_LEN \/ request.spec >= LCORES_LEN

\* The pool of a launched daemon can fill every queue of both ports and
\* still serve a burst, and its mbufs fit the hugepages next to the fixed
\* overhead (validation.py:282-335, 915-924).
ResourcesSuffice ==
    phase = "prepared" =>
       /\ ports.mempool >= PortCount * (ports.rx + ports.tx) + ports.burst
       /\ (effective.hugepages - FIXED_RUNTIME_OVERHEAD_MB) * Mebibyte
            >= ports.mempool * MBUF_MEMORY_ESTIMATE_BYTES

Given(r, knob) ==
    IF knob = "lcores" THEN r.lcores # NoSpec ELSE r[knob] # Omitted

\* A rejection can be acted upon: it names a knob that the document gives, so
\* leaving the named ones out leads, in a few attempts, to a profile that is
\* accepted (docs/tickets/PLN-006: "omitted runtime knobs produce safe
\* conservative defaults", "invalid configs return structured errors").
\* Two kinds of document are worse off: queues shorter than the default burst
\* are blamed on the burst, given or not, and an odd number of megabytes or no
\* port at all ends in an error without issues (validation.py:223-346,
\* types.py:157-171).
RejectionsAreActionable ==
    /\ phase = "rejected" =>
          \/ \E knob \in Blamed(Effective(request)) : Given(request, knob)
          \/ request.burst = Omitted
             /\ \E queue \in {"rx", "tx"} :
                   Or(request[queue], DEFAULT_QUEUE_SIZE) < DEFAULT_BURST_SIZE
    /\ phase = "raised" => request.hugepages % 2 = 1 \/ request.ports = 0
=============================================================================
