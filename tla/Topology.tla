------------------------------ MODULE Topology -----------------------------
(***************************************************************************)
(* Declared topologies: what compile_topology (ubsim_lab/topology.py)      *)
(* accepts, the per-node links of its plan, what the workbench's resize    *)
(* makes of one (web.py) and the gem5 manifest resolve_gem5 derives        *)
(* (config_runtime.py).                                                    *)
(*                                                                         *)
(* Names are numbers: host head-a and device udma-a are 1, and so on.  A   *)
(* link joins a device port to a port of the switch, or of the peer device *)
(* in a direct topology.  The checks of JSON shape and of value types are  *)
(* left out, and of the machine settings only the memory size is kept.     *)
(***************************************************************************)
EXTENDS Integers, Sequences, FiniteSets, FiniteSetsExt, Functions

CONSTANT MaxHosts      \* 8 in the code

ASSUME MaxHostsAssumption == MaxHosts \in Nat /\ MaxHosts >= 2

None == 0
FirstEid == 256
JettyLimit == 65535
UnspecifiedJettys == 0
MaxPorts(sim) == IF sim = "gem5" THEN 16 ELSE 8

Elements(s) == {s[i] : i \in DOMAIN s}
Hosts(spec) == DOMAIN spec.nodes
Sim(spec) == spec.nodes[1].sim
Ports(spec) == spec.devices[1].ports

\* What a topology file holds when its fields have passed _fields, _list, _integer, _name and
\* _choice.
Node == [id : Nat, sim : {"gem5", "qemu"}, setting : STRING]
Device == [id : Nat, node : Nat, eid : Nat, ports : Nat, jettys : Nat]
Link == [device : Nat, port : Nat, to : Nat, toPort : Nat, rate : Nat, latency : Nat]
Topologies ==
    [nodes : Seq(Node), devices : Seq(Device), switch : Nat, links : Seq(Link), memory : Nat,
     sync : {"off", "required"}, checkpoint : {"auto", "none"}]

\* node_names.index
IndexOf(spec, node) == CHOOSE i \in Hosts(spec) : spec.nodes[i].id = node

NodesCompile(spec) ==
    /\ Len(spec.nodes) \in 2 .. MaxHosts
    /\ IsInjective([i \in Hosts(spec) |-> spec.nodes[i].id])
    /\ \A i \in Hosts(spec) : spec.nodes[i].sim = Sim(spec)
    /\ IF Sim(spec) = "gem5" THEN \A i \in Hosts(spec) : spec.nodes[i].setting = spec.nodes[1].setting
                             ELSE spec.checkpoint = "none" /\ spec.memory = None

DevicesCompile(spec) ==
    /\ Len(spec.devices) = Len(spec.nodes)
    /\ IsInjective([i \in DOMAIN spec.devices |-> spec.devices[i].id])
    /\ IsInjective([i \in DOMAIN spec.devices |-> spec.devices[i].node])
    /\ \A d \in Elements(spec.devices) :
         /\ d.id # spec.switch
         /\ \E i \in Hosts(spec) : spec.nodes[i].id = d.node /\ d.eid = FirstEid + i - 1
         /\ d.ports = Ports(spec) /\ d.ports \in 1 .. MaxPorts(Sim(spec))
         /\ d.jettys = spec.devices[1].jettys
         /\ d.jettys = UnspecifiedJettys \/ d.jettys \in 2 .. JettyLimit

DirectCompiles(spec) ==
    /\ Len(spec.nodes) = 2 /\ Ports(spec) = 1 /\ Len(spec.links) = 1
    /\ LET link == spec.links[1]
       IN /\ {link.device, link.to} = {d.id : d \in Elements(spec.devices)}
          /\ link.port = 0 /\ link.toPort = 0
          /\ link.rate >= 1 /\ link.latency >= 2

StarCompiles(spec) ==
    /\ Len(spec.links) = Len(spec.nodes) * Ports(spec)
    /\ IsInjective([i \in DOMAIN spec.links |-> <<spec.links[i].device, spec.links[i].port>>])
    /\ \A link \in Elements(spec.links) :
         /\ link.to = spec.switch
         /\ link.port \in 0 .. Ports(spec) - 1
         /\ \E d \in Elements(spec.devices) :
              /\ d.id = link.device
              /\ link.toPort = (IndexOf(spec, d.node) - 1) * Ports(spec) + link.port
         /\ link.rate >= 1 /\ link.latency >= 1
         /\ \A other \in Elements(spec.links) :
              other.device = link.device => other.rate = link.rate /\ other.latency = link.latency

\* compile_topology returns a plan.
Compiles(spec) ==
    /\ NodesCompile(spec)
    /\ DevicesCompile(spec)
    /\ IF spec.switch = None THEN DirectCompiles(spec) ELSE StarCompiles(spec)

\* plan["node_links"]: the latency of a direct link is split between its ends.
NodeLinks(spec) ==
    IF spec.switch = None
    THEN LET link == spec.links[1]
         IN <<[rate |-> link.rate, latency |-> link.latency \div 2],
              [rate |-> link.rate, latency |-> link.latency - link.latency \div 2]>>
    ELSE [i \in Hosts(spec) |->
            LET device == CHOOSE d \in Elements(spec.devices) : d.node = spec.nodes[i].id
                link == CHOOSE l \in Elements(spec.links) : l.device = device.id
            IN [rate |-> link.rate, latency |-> link.latency]]

\* plan["max_jettys"]
PlanJettys(spec) ==
    IF spec.devices[1].jettys # UnspecifiedJettys THEN spec.devices[1].jettys
    ELSE IF Sim(spec) = "qemu" \/ spec.nodes[1].setting = "modern" THEN 47 ELSE 1152

----------------------------------------------------------------------------
(* _resize_single_leaf *)

\* The element of s that satisfies Test, or the seed.
GetOr(s, Test(_), seed) ==
    IF \E x \in Elements(s) : Test(x) THEN CHOOSE x \in Elements(s) : Test(x) ELSE seed

MutResizedLink(spec, k, device, port) ==
    LET link == GetOr(spec.links, LAMBDA l : l.device = k /\ l.toPort = port, spec.links[1])
    IN [link EXCEPT !.device = k, !.port = port, !.to = spec.switch,
                    !.toPort = (k - 1) * device.ports + port]
\* Links are looked up by the new device name, devices by the host's.
ResizedLink(spec, k, device, port) ==
    LET link == GetOr(spec.links, LAMBDA l : l.device = k /\ l.port = port, spec.links[1])
    IN [link EXCEPT !.device = k, !.port = port, !.to = spec.switch,
                    !.toPort = (k - 1) * device.ports + port]

Resizable(spec, count) ==
    Compiles(spec) /\ spec.switch # None /\ count \in 2 .. MaxHosts

\* The star of hosts 1 .. count.
Resized(spec, count) ==
    LET node(k) == [GetOr(spec.nodes, LAMBDA n : n.id = k, spec.nodes[1]) EXCEPT !.id = k]
        device(k) == [GetOr(spec.devices, LAMBDA d : d.node = k, spec.devices[1])
                        EXCEPT !.id = k, !.node = k, !.eid = FirstEid + k - 1]
        p == Ports(spec)
    IN [spec EXCEPT
          !.nodes = [k \in 1 .. count |-> node(k)],
          !.devices = [k \in 1 .. count |-> device(k)],
          !.links = [i \in 1 .. count * p |->
                       ResizedLink(spec, ((i - 1) \div p) + 1, device(((i - 1) \div p) + 1), (i - 1) % p)]]

----------------------------------------------------------------------------
(* resolve_gem5 *)

\* The guest image a topology boots.
ImagePath(spec) ==
    IF spec.nodes[1].setting = "modern" /\ spec.memory = 4 THEN "template" ELSE "standard"

\* The manifest entries a checkpoint is matched by.
Resolve(spec) ==
    LET links == NodeLinks(spec)
    IN [profile |-> spec.nodes[1].setting,
        node_count |-> Len(spec.nodes),
        memory_size |-> IF spec.memory = None THEN 32 ELSE spec.memory,
        peer_latency_ns |-> Min({links[i].latency : i \in DOMAIN links}),
        peer_link_rate_gbps |-> links[1].rate,
        ub_port_count |-> Ports(spec),
        max_jettys |-> PlanJettys(spec),
        lifecycle |-> spec.sync = "required",
        udma_state_format |-> 4,
        node_links |-> links]
=============================================================================
