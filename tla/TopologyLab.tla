---------------------------- MODULE TopologyLab -----------------------------
(***************************************************************************)
(* The TopologyManager and the kernel objects its helpers create and       *)
(* delete with `ip` commands: namespaces, veth pairs, bridges, addresses,  *)
(* link states and routes, and the TAP interfaces of the datapath.         *)
(*                                                                         *)
(* The manager lock serialises operations, so the model is sequential; one *)
(* step is one call of a NetnsRunner method or of a datapath callback, any *)
(* of which can fail.  A topology document is a record; a network is a     *)
(* name, a link address the network it lies in, a gateway its network and  *)
(* host part, the match of a rule the fields it sets, its action the port  *)
(* it names.  Validation reads addresses as Python does and leaves names   *)
(* alone: what it accepts and the kernel does not is a part of the model.  *)
(***************************************************************************)
EXTENDS Naturals, Sequences, SequencesExt

CONSTANTS
    Documents,      \* topology documents a client may apply
    NoDocument,     \* no topology is applied
    Refused,        \* <<kind, text>>: what validation accepts and `ip` refuses
    MaxOperations   \* bound of the model: apply and destroy calls

\* The shape of a document: TopologyConfigModel.
ASSUME DocumentsAssumption ==
    \A d \in Documents :
       /\ d.namespaces \in Seq(STRING) /\ d.dpdk \in STRING
       /\ d.links \in Seq([name: STRING, a: STRING \X STRING,
                           b: STRING \X STRING, net_a: STRING, net_b: STRING])
       /\ d.ports \in Seq([name: STRING, ns: STRING,
                           role: {"ingress", "egress"}])
       /\ d.routes \in Seq([ns: STRING, dst: STRING, via: STRING \X STRING])
       /\ d.captures \in Seq([name: STRING, ns: STRING, interface: STRING])
\* Namespace names `ip netns` refuses; interface names of more than 15
\* characters or with a slash; link addresses and destinations in a notation
\* only Python knows; destinations with host bits.
ASSUME RefusedAssumption ==
    Refused \subseteq {"namespace", "interface", "address", "destination"}
                        \X STRING
ASSUME NoDocumentAssumption == NoDocument \notin Documents
ASSUME MaxOperationsAssumption == MaxOperations \in Nat

VARIABLES
    kernel,     \* namespaces, interfaces and what is configured on them
    current,    \* manager._current
    op,         \* the manager call in progress
    doc,        \* the document apply is working for
    victim,     \* the document _destroy_locked is working for
    stage,      \* the try block of the call that runs
    todo,       \* helper calls left in it
    errors,     \* _destroy_locked has collected an error
    result,     \* how the last call ended
    fault,      \* history: a command or the datapath failed during this call
    undoFault,  \* history: and it did during the clean-up of a failed apply
    sound,      \* history: the lab was what _current says as the call began
    operations  \* calls so far, for MaxOperations

callVars == <<op, doc, victim, stage, todo, errors>>
historyVars == <<fault, undoFault, sound>>
vars == <<kernel, current, callVars, result, historyVars, operations>>

-----------------------------------------------------------------------------
(* Documents and their validation                                          *)

Elements(s) == {s[i] : i \in DOMAIN s}
Distinct(s) == \A i, j \in DOMAIN s : s[i] = s[j] => i = j

\* _collect_duplicate_names finds none.
NamesDistinct(s) == Distinct([i \in DOMAIN s |-> s[i].name])

\* The endpoints of the links, in document order.
Endpoints(d) == FlattenSeq([i \in DOMAIN d.links |->
                              <<d.links[i].a, d.links[i].b>>])

\* connected_networks_by_namespace
Connected(d, n) ==
    {l.net_a : l \in {x \in Elements(d.links) : x.a[1] = n /\ x.net_a # "none"}}
      \cup
    {l.net_b : l \in {x \in Elements(d.links) : x.b[1] = n /\ x.net_b # "none"}}

PortWithRole(d, role) ==
    {p \in Elements(d.ports) : p.role = role}

\* _collect_link_issues finds nothing.
LinksValid(d) ==
    /\ \A e \in Elements(Endpoints(d)) : e[1] \in Elements(d.namespaces)
    /\ NamesDistinct(d.links)
    /\ \A i, j \in DOMAIN d.links :
          {d.links[i].a, d.links[i].b} \cap {d.links[j].a, d.links[j].b} # {}
            => i = j
    /\ \A l \in Elements(d.links) : l.a # l.b /\ l.net_a = l.net_b

\* _collect_dpdk_port_issues
PortsValid(d) ==
    /\ NamesDistinct(d.ports)
    /\ \A i, j \in DOMAIN d.ports : d.ports[i].role = d.ports[j].role => i = j
    /\ \A role \in {"ingress", "egress"} : PortWithRole(d, role) # {}
    /\ \A p \in Elements(d.ports) :
          /\ p.ns = d.dpdk
          /\ <<p.ns, p.name>> \notin Elements(Endpoints(d))

\* _collect_route_issues.  Any destination is one, with host bits or without,
\* given before or not; so is any gateway of a connected network.
RoutesValid(d) ==
    \A r \in Elements(d.routes) :
       r.ns \in Elements(d.namespaces) /\ r.via[1] \in Connected(d, r.ns)

\* The interfaces the document gives a namespace, through links and ports.
Interfaces(d, n) ==
    {e[2] : e \in {x \in Elements(Endpoints(d)) : x[1] = n}}
      \cup {p.name : p \in {x \in Elements(d.ports) : x.ns = n}}

\* Mutant: an interface is looked up in the whole document.
CapturePointsValidAnywhere(d) ==
    /\ NamesDistinct(d.captures)
    /\ \A c \in Elements(d.captures) :
          /\ c.ns \in Elements(d.namespaces)
          /\ \E n \in Elements(d.namespaces) : c.interface \in Interfaces(d, n)

\* _collect_capture_point_issues
CapturePointsValid(d) ==
    /\ NamesDistinct(d.captures)
    /\ \A c \in Elements(d.captures) :
          /\ c.ns \in Elements(d.namespaces)
          /\ c.interface \in Interfaces(d, c.ns)

\* _collect_bridge_side_interface_issues; a port may carry the name as well.
BridgeSideValid(d) == {"veth-in-k", "veth-out-k"} \subseteq Interfaces(d, d.dpdk)

\* _validate_rule_match
MatchValid(fields) ==
    /\ ~({"src_ip", "src_cidr"} \subseteq fields)
    /\ ~({"dst_ip", "dst_cidr"} \subseteq fields)
    /\ "icmp" \in fields => {"src_port", "dst_port"} \cap fields = {}

\* _validate_rule_action
ActionValid(d, port) ==
    port = "none" \/ port \in {p.name : p \in Elements(d.ports)}

\* _collect_ruleset_issues
RulesetValid(d) ==
    /\ ActionValid(d, d.rules.default)
    /\ LET entries == d.rules.entries
       IN  /\ Distinct([i \in DOMAIN entries |-> entries[i].id])
           /\ \A r \in Elements(entries) :
                 MatchValid(r.match) /\ ActionValid(d, r.port)

\* Mutant: gateways are not looked up in the connected networks.
ValidWithoutRoutes(d) ==
    /\ Distinct(d.namespaces) /\ d.dpdk \in Elements(d.namespaces)
    /\ LinksValid(d) /\ PortsValid(d) /\ BridgeSideValid(d)
    /\ CapturePointsValid(d) /\ RulesetValid(d)

\* validate_topology_config, the runtime profile excepted.
Valid(d) ==
    /\ Distinct(d.namespaces) /\ d.dpdk \in Elements(d.namespaces)
    /\ LinksValid(d) /\ PortsValid(d) /\ RoutesValid(d)
    /\ CapturePointsValid(d) /\ BridgeSideValid(d) /\ RulesetValid(d)

-----------------------------------------------------------------------------
(* Helper calls, in the order the helpers make them                        *)

TapNames(d) ==
    LET role(r) == (CHOOSE p \in PortWithRole(d, r) : TRUE).name
    IN  <<<<d.dpdk, role("ingress")>>, <<d.dpdk, role("egress")>>>>

BrIn(d) == <<d.dpdk, "br-in">>
BrOut(d) == <<d.dpdk, "br-out">>
VethIn(d) == <<d.dpdk, "veth-in-k">>
VethOut(d) == <<d.dpdk, "veth-out-k">>

EnsureNamespaces(d) == [i \in DOMAIN d.namespaces |->
                          <<"netns_add", d.namespaces[i]>>]

EnsureLinks(d) ==
    FlattenSeq([i \in DOMAIN d.links |->
      LET l == d.links[i]
      IN  <<<<"veth", l.a, l.b>>>> \o
          (IF l.net_a = "none" THEN <<>> ELSE <<<<"address", l.a, l.net_a>>>>) \o
          (IF l.net_b = "none" THEN <<>> ELSE <<<<"address", l.b, l.net_b>>>>)])

EnsureBridges(d) == <<<<"bridge", BrIn(d)>>, <<"bridge", BrOut(d)>>>>

\* Mutant: the egress side is not attached to its bridge.
ReconcileTapsHalf(d) ==
    LET tap == TapNames(d)
        members == <<VethIn(d), tap[1], tap[2], VethOut(d), BrIn(d), BrOut(d)>>
    IN  <<<<"await", tap[1]>>, <<"await", tap[2]>>,
          <<"attach", VethIn(d), BrIn(d)>>, <<"attach", tap[1], BrIn(d)>>,
          <<"attach", VethOut(d), BrOut(d)>>>> \o
        [i \in DOMAIN members |-> <<"up", members[i]>>]

\* reconcile_taps
ReconcileTaps(d) ==
    LET tap == TapNames(d)
        members == <<VethIn(d), tap[1], tap[2], VethOut(d), BrIn(d), BrOut(d)>>
    IN  <<<<"await", tap[1]>>, <<"await", tap[2]>>,
          <<"attach", VethIn(d), BrIn(d)>>, <<"attach", tap[1], BrIn(d)>>,
          <<"attach", tap[2], BrOut(d)>>, <<"attach", VethOut(d), BrOut(d)>>>> \o
        [i \in DOMAIN members |-> <<"up", members[i]>>]

BringLinkEndpointsUp(d) ==
    [i \in DOMAIN Endpoints(d) |-> <<"up", Endpoints(d)[i]>>]

EnsureRoutes(d) ==
    [i \in DOMAIN d.routes |->
       <<"route", d.routes[i].ns, d.routes[i].dst, d.routes[i].via>>]

\* The try block of TopologyManager.apply.
ApplyCalls(d) ==
    EnsureNamespaces(d) \o EnsureLinks(d) \o EnsureBridges(d) \o
    <<<<"start", d>>>> \o ReconcileTaps(d) \o BringLinkEndpointsUp(d) \o
    EnsureRoutes(d)

\* destroy_links_and_bridges
LinkCalls(d) ==
    <<<<"link_del", BrOut(d)>>, <<"link_del", BrIn(d)>>>> \o
    Reverse([i \in DOMAIN d.links |-> <<"link_del", d.links[i].a>>])

\* destroy_namespaces
NamespaceCalls(d) ==
    Reverse([i \in DOMAIN d.namespaces |-> <<"netns_del", d.namespaces[i]>>])

-----------------------------------------------------------------------------
(* The kernel, as the NetnsRunner methods see it                           *)

EmptyKernel == [ns |-> {}, ifs |-> {}, veth |-> {}, bridges |-> {},
                master |-> {}, up |-> {}, addr |-> {}, route |-> {}]

\* The loopback interface every namespace has.
Loopback(n) == <<n, "lo">>

\* The interfaces that are neither loopbacks, bridges nor ends of a link.
TapDevices(k) == {i \in k.ifs : /\ i # Loopback(i[1]) /\ i \notin k.bridges
                                /\ i \notin UNION k.veth}

\* The addresses through which a namespace is connected to a network.
Reaching(k, n, net) == {x \in k.addr : /\ x[1] \in k.up /\ x[1][1] = n
                                       /\ x[2] = net}

\* Deleting an interface deletes a veth peer and what hangs on the two; a
\* route goes with the last interface that reaches its gateway.
WithoutInterfaces(k, gone) ==
    LET all == gone \cup UNION {pair \in k.veth : pair \cap gone # {}}
        rest == [k EXCEPT !.ifs = @ \ all,
                          !.veth = {pair \in @ : pair \cap all = {}},
                          !.bridges = @ \ all,
                          !.master = {x \in @ : x[1] \notin all /\ x[2] \notin all},
                          !.up = @ \ all,
                          !.addr = {x \in @ : x[1] \notin all}]
    IN  [rest EXCEPT !.route = {r \in @ : Reaching(rest, r[1], r[3][1]) # {}}]

\* link_exists asks `ip -n`, which fails when the namespace does not exist or
\* the name is none.
Query(k, i) == i[1] \in k.ns /\ <<"interface", i[2]>> \notin Refused

\* The method returns without changing anything.
Satisfied(k, c) ==
    CASE c[1] = "netns_add" -> c[2] \in k.ns
      [] c[1] = "netns_del" -> c[2] \notin k.ns
      [] c[1] = "veth" -> /\ Query(k, c[2]) /\ c[2] \in k.ifs
                          /\ Query(k, c[3]) /\ c[3] \in k.ifs
      [] c[1] = "bridge" -> Query(k, c[2]) /\ c[2] \in k.ifs
      [] c[1] = "link_del" -> Query(k, c[2]) /\ c[2] \notin k.ifs
      [] c[1] = "await" -> Query(k, c[2]) /\ c[2] \in k.ifs
      [] OTHER -> FALSE

\* The kernel finds the gateway of a route: it lies in a network that is
\* connected, unless a route to that very network has taken the place of the
\* connected one, and is not the broadcast address of the network.
GatewayFound(k, n, via) ==
    LET near == Reaching(k, n, via[1])
    IN  /\ near # {} /\ via[2] # "ones"
        /\ (\E r \in k.route : r[1] = n /\ r[2] = via[1]) =>
              \E x, y \in near : x # y

\* Some kernels have no route through an address of the namespace itself or
\* through the lowest address of a network.
Doubtful(c) == c[1] = "route" /\ c[4][2] \in {"own", "zero"}

\* The command the method runs can succeed.
Possible(k, c) ==
    CASE c[1] \in {"netns_del", "stop"} -> TRUE
      [] c[1] = "netns_add" -> <<"namespace", c[2]>> \notin Refused
      [] c[1] = "veth" -> /\ Query(k, c[2]) /\ Query(k, c[3])
                          /\ {c[2], c[3]} \cap k.ifs = {}
      [] c[1] = "bridge" -> Query(k, c[2])
      [] c[1] = "link_del" -> Query(k, c[2]) /\ c[2] # Loopback(c[2][1])
      [] c[1] = "up" -> c[2] \in k.ifs
      [] c[1] = "address" -> c[2] \in k.ifs /\ <<"address", c[3]>> \notin Refused
      [] c[1] = "attach" -> c[2] \in k.ifs /\ c[3] \in k.bridges
      [] c[1] = "route" -> /\ <<"destination", c[3]>> \notin Refused
                           /\ GatewayFound(k, c[2], c[4])
      [] c[1] = "start" -> \A i \in Elements(TapNames(c[2])) :
                              Query(k, i) /\ i \notin k.ifs
      [] OTHER -> FALSE

\* What a command that succeeds leaves behind.
After(k, c) ==
    CASE c[1] = "netns_add" -> [k EXCEPT !.ns = @ \cup {c[2]},
                                         !.ifs = @ \cup {Loopback(c[2])}]
      [] c[1] = "netns_del" ->
           [WithoutInterfaces(k, {i \in k.ifs : i[1] = c[2]})
              EXCEPT !.ns = @ \ {c[2]}]
      [] c[1] = "veth" -> [k EXCEPT !.ifs = @ \cup {c[2], c[3]},
                                    !.veth = @ \cup {{c[2], c[3]}}]
      [] c[1] = "bridge" -> [k EXCEPT !.ifs = @ \cup {c[2]},
                                      !.bridges = @ \cup {c[2]}]
      [] c[1] = "link_del" -> WithoutInterfaces(k, {c[2]})
      [] c[1] = "address" -> [k EXCEPT !.addr = @ \cup {<<c[2], c[3]>>}]
      [] c[1] = "attach" ->
           [k EXCEPT !.master = {m \in @ : m[1] # c[2]} \cup {<<c[2], c[3]>>}]
      [] c[1] = "up" -> [k EXCEPT !.up = @ \cup {c[2]}]
      [] c[1] = "route" ->
           [k EXCEPT !.route = {r \in @ : r[1] # c[2] \/ r[2] # c[3]}
                                 \cup {<<c[2], c[3], c[4]>>}]
      [] c[1] = "start" -> [k EXCEPT !.ifs = @ \cup Elements(TapNames(c[2]))]
      [] c[1] = "stop" ->
           WithoutInterfaces(k, Elements(TapNames(c[2])) \cap TapDevices(k))

\* The bridge-side interfaces are link ends.  Validation lets a port have the
\* name as well: it is then attached for both of its roles in turn, and the
\* bridges have the members that the last attachments leave them.
SidesAreLinks(d) == {VethIn(d), VethOut(d)} \subseteq Elements(Endpoints(d))

\* The interfaces the lab of a document has besides the loopbacks.
Wanted(d) == Elements(Endpoints(d)) \cup Elements(TapNames(d))
               \cup {BrIn(d), BrOut(d)}

\* Of the first n routes of a document, those no later one replaces.
LastRoutes(d, n) ==
    {i \in 1..n : \A j \in 1..n : j > i =>
       d.routes[j].ns # d.routes[i].ns \/ d.routes[j].dst # d.routes[i].dst}

\* What the document asks for is there and up, and nothing else.
Complete(k, d) ==
    /\ k.ns = Elements(d.namespaces)
    /\ k.ifs = Wanted(d) \cup {Loopback(n) : n \in Elements(d.namespaces)}
    /\ k.up = Wanted(d)
    /\ \A l \in Elements(d.links) :
          /\ \/ {l.a, l.b} \in k.veth
             \/ l.a = Loopback(l.a[1]) /\ l.b = Loopback(l.b[1])
          /\ l.net_a # "none" =>
                {<<l.a, l.net_a>>, <<l.b, l.net_b>>} \subseteq k.addr
    /\ SidesAreLinks(d) =>
          /\ {x[1] : x \in {m \in k.master : m[2] = BrIn(d)}}
                = {VethIn(d), TapNames(d)[1]}
          /\ {x[1] : x \in {m \in k.master : m[2] = BrOut(d)}}
                = {VethOut(d), TapNames(d)[2]}
    /\ k.route = {<<d.routes[i].ns, d.routes[i].dst, d.routes[i].via>> :
                    i \in LastRoutes(d, Len(d.routes))}

\* The lab is what _current says it is.
Consistent == IF current = NoDocument THEN kernel = EmptyKernel
              ELSE Complete(kernel, current)

-----------------------------------------------------------------------------
(* The manager                                                             *)

Init ==
    /\ kernel = EmptyKernel /\ current = NoDocument
    /\ op = "none" /\ doc = NoDocument /\ victim = NoDocument
    /\ stage = "idle" /\ todo = <<>> /\ errors = FALSE
    /\ result = "ok"
    /\ fault = FALSE /\ undoFault = FALSE /\ sound = TRUE
    /\ operations = 0

\* Enter the try block that makes the given calls.
Run(name, calls) == stage' = name /\ todo' = calls

\* _destroy_locked starts with the datapath.
TearDown(d) == victim' = d /\ errors' = FALSE /\ Run("stop", <<<<"stop", d>>>>)

\* Mutant: the call returns without leaving its try block.
ReturnInside(how) ==
    /\ result' = how
    /\ op' = "none" /\ doc' = NoDocument /\ victim' = NoDocument
    /\ UNCHANGED <<errors, stage, todo>>

Return(how) ==
    /\ result' = how
    /\ op' = "none" /\ doc' = NoDocument /\ victim' = NoDocument
    /\ errors' = FALSE
    /\ Run("idle", <<>>)

CallBegins ==
    /\ op = "none" /\ operations < MaxOperations
    /\ operations' = operations + 1
    /\ fault' = FALSE /\ undoFault' = FALSE /\ sound' = Consistent

\* TopologyManager.apply of a document that passes validation.
Apply ==
    /\ CallBegins
    /\ \E d \in Documents :
          /\ Valid(d)
          /\ op' = "apply" /\ doc' = d
          /\ IF current # NoDocument THEN TearDown(current)
             ELSE /\ Run("build", ApplyCalls(d))
                  /\ UNCHANGED <<victim, errors>>
    /\ UNCHANGED <<kernel, current, result>>

\* A document that does not is refused before anything is touched; this is
\* no call the properties speak of.
ApplyInvalid ==
    /\ op = "none" /\ \E d \in Documents : ~Valid(d)
    /\ result' = "refused"
    /\ UNCHANGED <<kernel, current, callVars, historyVars, operations>>

\* TopologyManager.destroy
Destroy ==
    /\ CallBegins
    /\ IF current = NoDocument
       THEN result' = "ok" /\ UNCHANGED callVars
       ELSE /\ op' = "destroy" /\ TearDown(current)
            /\ UNCHANGED <<doc, result>>
    /\ UNCHANGED <<kernel, current>>

\* The next helper call returns.
Call ==
    /\ todo # <<>>
    /\ LET c == Head(todo) IN
          \/ Satisfied(kernel, c) /\ UNCHANGED kernel
          \/ /\ ~Satisfied(kernel, c) /\ Possible(kernel, c)
             /\ kernel' = After(kernel, c)
    /\ todo' = Tail(todo)
    /\ UNCHANGED <<current, op, doc, victim, stage, errors, result,
                   historyVars, operations>>

\* The daemon comes up without its ports: no TAP interface will appear.
DatapathDegraded ==
    /\ todo # <<>> /\ Head(todo)[1] = "start"
    /\ todo' = Tail(todo)
    /\ fault' = TRUE
    /\ UNCHANGED <<kernel, current, op, doc, victim, stage, errors, result,
                   undoFault, sound, operations>>

\* Mutant: _destroy_locked raises the first error instead of collecting it.
LeaveBlockRaises(raised) ==
    \/ /\ stage = "build" /\ raised
       /\ op' = "undo" /\ TearDown(doc)
       /\ UNCHANGED <<doc, result, current>>
    \/ /\ stage = "build" /\ ~raised
       /\ current' = doc
       /\ Return("ok")
    \/ /\ stage # "build" /\ raised
       /\ Return("error")
       /\ UNCHANGED current
    \/ /\ stage = "stop" /\ ~raised
       /\ Run("links", LinkCalls(victim))
       /\ UNCHANGED <<op, doc, victim, errors, result, current>>
    \/ /\ stage = "links" /\ ~raised
       /\ Run("namespaces", NamespaceCalls(victim))
       /\ UNCHANGED <<op, doc, victim, errors, result, current>>
    \/ /\ stage = "namespaces" /\ ~raised
       /\ Return("error")
       /\ UNCHANGED current

\* Where an exception, or the end of a try block, leads: apply cleans up
\* after itself; _destroy_locked goes on with its next block and raises what
\* it collected at the end.
LeaveBlock(raised) ==
    \/ /\ stage = "build" /\ raised
       /\ op' = "undo" /\ TearDown(doc)
       /\ UNCHANGED <<doc, result, current>>
    \/ /\ stage = "build" /\ ~raised
       /\ current' = doc
       /\ Return("ok")
    \/ /\ stage = "stop"
       /\ Run("links", LinkCalls(victim))
       /\ errors' = (errors \/ raised)
       /\ UNCHANGED <<op, doc, victim, result, current>>
    \/ /\ stage = "links"
       /\ Run("namespaces", NamespaceCalls(victim))
       /\ errors' = (errors \/ raised)
       /\ UNCHANGED <<op, doc, victim, result, current>>
    \/ /\ stage = "namespaces" /\ (errors \/ raised \/ op = "undo")
       /\ Return("error")
       /\ UNCHANGED current
    \/ /\ stage = "namespaces" /\ ~errors /\ ~raised /\ op = "destroy"
       /\ current' = NoDocument
       /\ Return("ok")
    \/ /\ stage = "namespaces" /\ ~errors /\ ~raised /\ op = "apply"
       /\ current' = NoDocument
       /\ victim' = NoDocument
       /\ Run("build", ApplyCalls(doc))
       /\ UNCHANGED <<op, doc, errors, result>>

\* The next helper call raises: its command fails ...
CommandFails ==
    /\ todo # <<>> /\ Head(todo)[1] # "stop"
    /\ fault' = TRUE
    /\ undoFault' = (undoFault \/ op = "undo")
    /\ LeaveBlock(TRUE)
    /\ UNCHANGED <<kernel, sound, operations>>

\* ... or the lab is not what the helper expects, or the kernel refuses it.
CallImpossible ==
    /\ todo # <<>>
    /\ ~Satisfied(kernel, Head(todo))
    /\ Possible(kernel, Head(todo)) => Doubtful(Head(todo))
    /\ LeaveBlock(TRUE)
    /\ UNCHANGED <<kernel, historyVars, operations>>

BlockEnds ==
    /\ op # "none" /\ todo = <<>>
    /\ LeaveBlock(FALSE)
    /\ UNCHANGED <<kernel, historyVars, operations>>

\* A stop that times out is not a PktlabError: nobody catches it.
StopTimesOut ==
    /\ todo # <<>> /\ Head(todo)[1] = "stop"
    /\ fault' = TRUE
    /\ undoFault' = (undoFault \/ op = "undo")
    /\ Return("error")
    /\ UNCHANGED <<kernel, current, sound, operations>>

Next ==
    \/ Apply \/ ApplyInvalid \/ Destroy \/ Call \/ DatapathDegraded
    \/ CommandFails \/ CallImpossible \/ BlockEnds \/ StopTimesOut

Spec == Init /\ [][Next]_vars

-----------------------------------------------------------------------------
(* Properties                                                              *)

\* Every variable stays in its type, and the manager is inside a try block
\* exactly while a call is in progress (manager.py:76-184).
TypeOK ==
    /\ current \in Documents \cup {NoDocument}
    /\ op \in {"none", "apply", "undo", "destroy"}
    /\ doc \in Documents \cup {NoDocument}
    /\ victim \in Documents \cup {NoDocument}
    /\ stage \in {"idle", "stop", "links", "namespaces", "build"}
    /\ (op = "none") = (stage = "idle")
    /\ errors \in BOOLEAN /\ fault \in BOOLEAN /\ undoFault \in BOOLEAN
    /\ sound \in BOOLEAN
    /\ result \in {"ok", "error", "refused"}
    /\ operations \in 0..MaxOperations

\* After a call that succeeded the lab is exactly what the manager believes:
\* every namespace, link, address, bridge member and route of the applied
\* document and no other route, or nothing at all (manager.py:76-157).
\* Three exceptions are in Complete.  Of several routes of a namespace to one
\* destination only the last is there: validation.py:526-561 accepts them and
\* netns.py:121 replaces.  A link between two loopbacks joins nothing:
\* ensure_veth_pair finds both ends (netns.py:81-82).  And the members of the
\* bridges are spoken of where the bridge-side interfaces are link ends, which
\* validation.py:611-612 demands ("through the topology links") and 605 does
\* not check.
SuccessIsComplete ==
    op = "none" /\ result = "ok" /\ sound => Consistent

\* An apply that fails leaves nothing behind if its own clean-up met no
\* failing command, wherever it failed and although the clean-up of links
\* raises when the datapath namespace was never made (manager.py:100-110,
\* 159-191).
FailedApplyLeavesNothing ==
    op = "none" /\ result = "error" /\ sound /\ current = NoDocument
      /\ ~undoFault => kernel = EmptyKernel

\* A name that is the kernel's, a bridge's or nobody's: validation reserves
\* none and limits none.
NameRefused(d) ==
    \/ Interfaces(d, d.dpdk) \cap {"br-in", "br-out"} # {}
    \/ \E n \in Elements(d.namespaces) :
          \/ <<"namespace", n>> \in Refused
          \/ \E i \in Interfaces(d, n) : i = "lo" \/ <<"interface", i>> \in Refused

\* A route whose destination the kernel refuses, whose gateway is not a host
\* of its network, or one that an earlier route has cut off from its gateway.
RouteRefused(d) ==
    \E j \in DOMAIN d.routes :
       LET r == d.routes[j]
       IN  \/ <<"destination", r.dst>> \in Refused
           \/ r.via[2] \in {"own", "zero", "ones"}
           \/ \E i \in 1..(j - 1) : /\ d.routes[i].ns = r.ns
                                    /\ d.routes[i].dst = r.via[1]

AddressRefused(d) ==
    \E l \in Elements(d.links) : <<"address", l.net_a>> \in Refused

\* Starting from a lab that is as it should be, a document that passed
\* validation is applied, and an applied one destroyed, without an error
\* unless a command or the datapath fails, or validation accepted what the
\* kernel does not: a name that is a bridge's (ensure_bridge takes the
\* interface for its own), a loopback's, too long or otherwise unusable
\* (validation.py:718-735 asks that a name is not empty); a destination with
\* host bits (validation.py:810) or an address only Python can read; a
\* gateway that is not a host of its network (validation.py:554); a route to
\* the network of a later gateway (validation.py:90-171 against links.py,
\* taps.py, routes.py and netns.py:106-121).
ErrorsHaveCauses ==
    [][op # "none" /\ op' = "none" /\ result' = "error" /\ sound' /\ ~fault'
         => \E d \in {doc, victim} \ {NoDocument} :
               NameRefused(d) \/ AddressRefused(d) \/ RouteRefused(d)]_vars

\* What an applied document refers to is there: a capture can be started at
\* each of its capture points and each of its rules has the port it sends
\* to, through any sequence of applies and destroys (validation.py:564-716
\* against manager.py:76-157).
ReferencesResolve ==
    op = "none" /\ result = "ok" /\ sound /\ current # NoDocument =>
       /\ \A c \in Elements(current.captures) : <<c.ns, c.interface>> \in kernel.up
       /\ \A port \in {current.rules.default}
                        \cup {r.port : r \in Elements(current.rules.entries)} :
             port # "none" => <<current.dpdk, port>> \in kernel.up

\* A destroy that is repeated after a partial failure, and in which no
\* command fails any more, gets the topology out of the way
\* (netns.py:99-104: "Delete an interface if it is present inside a namespace").
RepeatedDestroySucceeds ==
    [][op = "destroy" /\ op' = "none" /\ ~fault' => current' = NoDocument]_vars
=============================================================================
