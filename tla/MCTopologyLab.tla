--------------------------- MODULE MCTopologyLab ----------------------------
(* A linear lab; the same lab with its links written the other way round,  *)
(* no routes and no rules; a lab that uses the name of a bridge, and one   *)
(* whose ports have those of the bridge-side interfaces; documents that    *)
(* break one rule of the validation each; and documents that pass it and   *)
(* that the kernel refuses, each for a reason of its own.                  *)
EXTENDS TopologyLab

Linear ==
    [namespaces |-> <<"src", "host", "sink">>, dpdk |-> "host",
     links |-> <<[name |-> "l0", a |-> <<"src", "eth0">>,
                  b |-> <<"host", "veth-in-k">>, net_a |-> "n0", net_b |-> "n0"],
                 [name |-> "l1", a |-> <<"host", "veth-out-k">>,
                  b |-> <<"sink", "eth0">>, net_a |-> "n1", net_b |-> "n1"]>>,
     ports |-> <<[name |-> "dtap0", ns |-> "host", role |-> "ingress"],
                 [name |-> "dtap1", ns |-> "host", role |-> "egress"]>>,
     routes |-> <<[ns |-> "src", dst |-> "n1", via |-> <<"n0", "h1">>],
                  [ns |-> "sink", dst |-> "n0", via |-> <<"n1", "h1">>],
                  [ns |-> "src", dst |-> "n1", via |-> <<"n0", "h2">>]>>,
     captures |-> <<[name |-> "c0", ns |-> "host", interface |-> "dtap0"],
                    [name |-> "c1", ns |-> "sink", interface |-> "eth0"]>>,
     rules |-> [default |-> "dtap1",
                entries |-> <<[id |-> 1, match |-> {"src_ip", "dst_cidr"},
                               port |-> "dtap0"],
                              [id |-> 2, match |-> {"icmp"}, port |-> "none"]>>]]

Plain ==
    [Linear EXCEPT
       !.namespaces = <<"host", "sink">>,
       !.links = <<[name |-> "l0", a |-> <<"host", "veth-in-k">>,
                    b |-> <<"sink", "eth1">>, net_a |-> "none", net_b |-> "none"],
                   [name |-> "l1", a |-> <<"host", "veth-out-k">>,
                    b |-> <<"sink", "eth0">>, net_a |-> "none", net_b |-> "none"]>>,
       !.routes = <<>>,
       !.captures = <<>>,
       !.rules = [default |-> "none", entries |-> <<>>]]

BridgeName == [Plain EXCEPT !.links = Append(@,
                 [name |-> "l2", a |-> <<"sink", "eth2">>, b |-> <<"host", "br-in">>,
                  net_a |-> "none", net_b |-> "none"])]

BadRoute == [Linear EXCEPT !.routes = <<[ns |-> "src", dst |-> "n0",
                                           via |-> <<"n1", "h1">>]>>]
NoBridgeSide == [Linear EXCEPT !.links = <<Linear.links[1]>>]
TapClash == [Linear EXCEPT !.ports[1].name = "veth-in-k"]
BadCapture == [Plain EXCEPT !.captures = <<[name |-> "c0", ns |-> "sink",
                                            interface |-> "dtap0"]>>]
BadRule == [Plain EXCEPT !.rules.default = "dtap2"]

\* The ports have the names of the bridge-side interfaces, crosswise.
PortSides ==
    [Plain EXCEPT
       !.links = <<[name |-> "l0", a |-> <<"host", "eth0">>,
                    b |-> <<"sink", "eth0">>, net_a |-> "none", net_b |-> "none"]>>,
       !.ports = <<[name |-> "veth-out-k", ns |-> "host", role |-> "ingress"],
                   [name |-> "veth-in-k", ns |-> "host", role |-> "egress"]>>]

\* A second link of the namespaces, with a loopback at each end or with one
\* name the kernel has no room for.
WithLink(a, b) == [PortSides EXCEPT !.links = Append(@,
                     [name |-> "l1", a |-> a, b |-> b,
                      net_a |-> "none", net_b |-> "none"])]
Loopbacks == WithLink(<<"host", "lo">>, <<"sink", "lo">>)
LongName == WithLink(<<"host", "eth1">>, <<"sink", "interface-with-a-long-name">>)

\* Routes to a destination with host bits, through the namespace's own address,
\* through the broadcast address and to the network of a later gateway.
Routed(routes) == [PortSides EXCEPT !.routes = routes,
                     !.links[1].net_a = "n0", !.links[1].net_b = "n0"]
ToHost(dst, part) == [ns |-> "host", dst |-> dst, via |-> <<"n0", part>>]
HostBits == Routed(<<ToHost("n1.h1", "h1")>>)
OwnGateway == Routed(<<ToHost("n1", "own")>>)
BroadcastGateway == Routed(<<ToHost("n1", "ones")>>)
CutOff == Routed(<<ToHost("n0", "h1"), ToHost("n1", "h1")>>)

\* An address only Python can read, and a namespace `ip netns` refuses.
HostMask == [Routed(<<>>) EXCEPT !.links[1].net_a = "n2/hostmask",
                                 !.links[1].net_b = "n2/hostmask"]
SlashName == [PortSides EXCEPT !.namespaces = Append(@, "a/b")]

LabRefused == {<<"namespace", "a/b">>, <<"address", "n2/hostmask">>,
               <<"interface", "interface-with-a-long-name">>,
               <<"destination", "n1.h1">>}

LabDocuments == {Linear, Plain, BridgeName, PortSides, BadRoute, NoBridgeSide,
                 TapClash, BadCapture, BadRule, Loopbacks, LongName, HostBits,
                 OwnGateway, BroadcastGateway, CutOff, HostMask, SlashName}
=============================================================================
