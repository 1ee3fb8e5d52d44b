CONSTANTS
    LcoreSpecs <- MCLcoreSpecs
    Junk = Junk
    NoSpec = NoSpec
    Hugepages = {0, 256, 257, 258, 320, 1024, 1026}
    Bursts = {0, 1, 256, 257}
    Queues = {0, 1, 257, 4096, 4097}
    Mempools = {0, 1, 2048, 4096, 65535, 65536, 65537}
    SpecLengths = {3, 64}
    NameLengths = {31, 32}
    PortCounts = {0, 2, 3}
SPECIFICATION Spec
INVARIANTS
    DaemonAgrees
    ResourcesSuffice
    RejectionsAreActionable
