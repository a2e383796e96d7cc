-------------------------- MODULE TaskStore_proofs --------------------------
(***************************************************************************)
(* Proofs about the workbench's tasks, recipes and checkpoints, for any    *)
(* topologies a client submits, any number of hosts and ports, any recipes *)
(* and any checkpoints of earlier versions that describe what they hold.   *)
(***************************************************************************)
EXTENDS TaskStore, FiniteSetTheorems, WellFoundedInduction, TLAPS

----------------------------------------------------------------------------
(* Topologies *)

\* A function on 1 .. n into S is a sequence of length n.
LEMMA SeqOf ==
    ASSUME NEW S, NEW n \in Nat, NEW f, f = [i \in 1 .. n |-> f[i]], \A i \in 1 .. n : f[i] \in S
    PROVE  f \in Seq(S) /\ Len(f) = n /\ DOMAIN f = 1 .. n
  <1>1. f \in [1 .. n -> S]
    OBVIOUS
  <1> QED BY <1>1

\* The members of a sequence.
LEMMA SeqParts ==
    ASSUME NEW S, NEW s \in Seq(S)
    PROVE  /\ DOMAIN s = 1 .. Len(s) /\ Len(s) \in Nat
           /\ \A i \in DOMAIN s : s[i] \in S /\ s[i] \in Elements(s)
           /\ \A x \in Elements(s) : x \in S /\ \E i \in DOMAIN s : s[i] = x
           /\ s = [i \in 1 .. Len(s) |-> s[i]]
  BY DEF Elements

\* The parts of a topology.
LEMMA Parts ==
    ASSUME NEW spec \in Topologies
    PROVE  /\ spec.nodes \in Seq(Node) /\ spec.devices \in Seq(Device) /\ spec.links \in Seq(Link)
           /\ spec.switch \in Nat /\ spec.memory \in Nat
           /\ spec = [nodes |-> spec.nodes, devices |-> spec.devices, switch |-> spec.switch,
                      links |-> spec.links, memory |-> spec.memory, sync |-> spec.sync,
                      checkpoint |-> spec.checkpoint]
  BY DEF Topologies

\* What a client may edit keeps the form of a topology.
LEMMA EditedType ==
    ASSUME NEW spec \in Topologies, NEW e \in Edited(spec)
    PROVE  e \in Topologies
  <1> USE TopologiesAssumption
  <1>0. /\ spec.links \in Seq(Link) /\ spec.devices \in Seq(Device)
        /\ DOMAIN spec.links = 1 .. Len(spec.links) /\ Len(spec.links) \in Nat
        /\ DOMAIN spec.devices = 1 .. Len(spec.devices) /\ Len(spec.devices) \in Nat
        /\ \A i \in DOMAIN spec.links : spec.links[i] \in Link
        /\ \A i \in DOMAIN spec.devices : spec.devices[i] \in Device
    BY Parts, SeqParts
  <1>a. ASSUME NEW ls, ls = [i \in 1 .. Len(spec.links) |-> ls[i]],
               \A i \in 1 .. Len(spec.links) : ls[i] \in Link, e = [spec EXCEPT !.links = ls]
        PROVE  e \in Topologies
    <2>1. ls \in Seq(Link)
      BY <1>a, <1>0, SeqOf
    <2> QED BY <1>a, <2>1 DEF Topologies
  <1>b. ASSUME NEW ds, ds = [i \in 1 .. Len(spec.devices) |-> ds[i]],
               \A i \in 1 .. Len(spec.devices) : ds[i] \in Device, e = [spec EXCEPT !.devices = ds]
        PROVE  e \in Topologies
    <2>1. ds \in Seq(Device)
      BY <1>b, <1>0, SeqOf
    <2> QED BY <1>b, <2>1 DEF Topologies
  <1>c. ASSUME NEW x \in Latencies, NEW l \in Link PROVE [l EXCEPT !.latency = x] \in Link
    BY DEF Link
  <1>d. ASSUME NEW j \in JettyLimits, NEW d \in Device PROVE [d EXCEPT !.jettys = j] \in Device
    BY DEF Device
  <1>1. ASSUME NEW d \in 1 .. MaxHosts, NEW x \in Latencies,
               e = [spec EXCEPT !.links = [i \in DOMAIN @ |-> IF @[i].device = d THEN [@[i] EXCEPT !.latency = x] ELSE @[i]]]
        PROVE  e \in Topologies
    <2>1. PICK ls : ls = [i \in DOMAIN spec.links |-> IF spec.links[i].device = d THEN [spec.links[i] EXCEPT !.latency = x] ELSE spec.links[i]]
      OBVIOUS
    <2>2. \A i \in 1 .. Len(spec.links) : ls[i] \in Link
      BY <2>1, <1>0, <1>c
    <2>3. ls = [i \in 1 .. Len(spec.links) |-> ls[i]]
      BY <2>1, <1>0
    <2>4. e = [spec EXCEPT !.links = ls]
      BY <1>1, <2>1
    <2> QED BY <2>2, <2>3, <2>4, <1>a
  <1>2. ASSUME NEW x \in Latencies, e = [spec EXCEPT !.links[1].latency = x] PROVE e \in Topologies
    <2>1. PICK ls : ls = [spec.links EXCEPT ![1].latency = x]
      OBVIOUS
    <2>2. \A i \in 1 .. Len(spec.links) : ls[i] = IF i = 1 THEN [spec.links[1] EXCEPT !.latency = x] ELSE spec.links[i]
      BY <2>1, <1>0
    <2>3. \A i \in 1 .. Len(spec.links) : ls[i] \in Link
      BY <2>2, <1>0, <1>c
    <2>4. ls = [i \in 1 .. Len(spec.links) |-> ls[i]]
      BY <2>1, <1>0
    <2>5. e = [spec EXCEPT !.links = ls]
      BY <1>2, <2>1
    <2> QED BY <2>3, <2>4, <2>5, <1>a
  <1>3. ASSUME NEW j \in JettyLimits, e = [spec EXCEPT !.devices = [i \in DOMAIN @ |-> [@[i] EXCEPT !.jettys = j]]]
        PROVE  e \in Topologies
    <2>1. PICK ds : ds = [i \in DOMAIN spec.devices |-> [spec.devices[i] EXCEPT !.jettys = j]]
      OBVIOUS
    <2>2. \A i \in 1 .. Len(spec.devices) : ds[i] \in Device
      BY <2>1, <1>0, <1>d
    <2>3. ds = [i \in 1 .. Len(spec.devices) |-> ds[i]]
      BY <2>1, <1>0
    <2>4. e = [spec EXCEPT !.devices = ds]
      BY <1>3, <2>1
    <2> QED BY <2>2, <2>3, <2>4, <1>b
  <1>4. ASSUME NEW j \in JettyLimits, e = [spec EXCEPT !.devices[1].jettys = j] PROVE e \in Topologies
    <2>1. PICK ds : ds = [spec.devices EXCEPT ![1].jettys = j]
      OBVIOUS
    <2>2. \A i \in 1 .. Len(spec.devices) : ds[i] = IF i = 1 THEN [spec.devices[1] EXCEPT !.jettys = j] ELSE spec.devices[i]
      BY <2>1, <1>0
    <2>3. \A i \in 1 .. Len(spec.devices) : ds[i] \in Device
      BY <2>2, <1>0, <1>d
    <2>4. ds = [i \in 1 .. Len(spec.devices) |-> ds[i]]
      BY <2>1, <1>0
    <2>5. e = [spec EXCEPT !.devices = ds]
      BY <1>4, <2>1
    <2> QED BY <2>3, <2>4, <2>5, <1>b
  <1>5. ASSUME NEW s \in {"off", "required"}, e = [spec EXCEPT !.sync = s] PROVE e \in Topologies
    BY <1>5 DEF Topologies
  <1> QED BY <1>1, <1>2, <1>3, <1>4, <1>5 DEF Edited

\* A topology that compiles has a node and a device, a star also a link.
LEMMA CompiledParts ==
    ASSUME NEW spec \in Topologies, Compiles(spec)
    PROVE  /\ Len(spec.nodes) \in 2 .. MaxHosts /\ Len(spec.devices) = Len(spec.nodes)
           /\ spec.nodes[1] \in Elements(spec.nodes) /\ spec.devices[1] \in Elements(spec.devices)
           /\ Ports(spec) \in 1 .. MaxPorts(Sim(spec)) /\ Ports(spec) \in 1 .. 16
           /\ spec.switch # None => /\ Len(spec.links) = Len(spec.nodes) * Ports(spec)
                                    /\ spec.links[1] \in Elements(spec.links)
  <1>0. /\ DOMAIN spec.links = 1 .. Len(spec.links) /\ Len(spec.links) \in Nat
        /\ DOMAIN spec.nodes = 1 .. Len(spec.nodes) /\ Len(spec.nodes) \in Nat
        /\ DOMAIN spec.devices = 1 .. Len(spec.devices) /\ Len(spec.devices) \in Nat
    BY Parts, SeqParts
  <1>1. Len(spec.nodes) \in 2 .. MaxHosts /\ Len(spec.devices) = Len(spec.nodes) /\ MaxHosts \in Nat
    BY MaxHostsAssumption DEF Compiles, NodesCompile, DevicesCompile
  <1>2. 1 \in DOMAIN spec.nodes /\ 1 \in DOMAIN spec.devices
    BY <1>0, <1>1
  <1>3. spec.nodes[1] \in Elements(spec.nodes) /\ spec.devices[1] \in Elements(spec.devices)
    BY <1>2 DEF Elements
  <1>4. Ports(spec) \in 1 .. MaxPorts(Sim(spec))
    BY <1>3 DEF Compiles, DevicesCompile
  <1>5. Ports(spec) \in 1 .. 16
    BY <1>4 DEF MaxPorts
  <1>6. ASSUME spec.switch # None
        PROVE  Len(spec.links) = Len(spec.nodes) * Ports(spec) /\ spec.links[1] \in Elements(spec.links)
    <2>1. Len(spec.links) = Len(spec.nodes) * Ports(spec)
      BY <1>6 DEF Compiles, StarCompiles
    <2>2. PICK n \in Nat, p \in Nat : n = Len(spec.nodes) /\ p = Ports(spec) /\ n >= 1 /\ p >= 1
      BY <1>1, <1>5
    <2>3. n * p >= 1
      BY <2>2
    <2>4. 1 \in DOMAIN spec.links
      BY <2>1, <2>2, <2>3, <1>0
    <2> QED BY <2>1, <2>4 DEF Elements
  <1> QED BY <1>1, <1>3, <1>4, <1>5, <1>6

----------------------------------------------------------------------------
(* Numbers *)

\* Quotient and remainder.
LEMMA DivMod ==
    ASSUME NEW p \in Nat \ {0}, NEW i \in Nat
    PROVE  /\ i \div p \in Nat /\ i % p \in 0 .. p - 1
           /\ i = (i \div p) * p + (i % p)
  <1>1. i \div p \in Nat /\ i % p \in 0 .. p - 1
    OBVIOUS
  <1>2. PICK k \in Nat, q \in Nat : k = i \div p /\ q = i % p
    BY <1>1
  <1>3. i = k * p + q
    BY <1>2
  <1> QED BY <1>1, <1>2, <1>3

\* A product grows with its factor.
LEMMA MulMono ==
    ASSUME NEW a \in Nat, NEW b \in Nat, NEW p \in Nat, a <= b
    PROVE  a * p <= b * p /\ a * p \in Nat /\ b * p \in Nat
  <1>1. PICK d \in Nat : b = a + d
    <2>1. b - a \in Nat /\ b = a + (b - a)
      OBVIOUS
    <2> QED BY <2>1
  <1>2. (a + d) * p = a * p + d * p
    OBVIOUS
  <1>3. a * p \in Nat /\ d * p \in Nat /\ b * p \in Nat
    OBVIOUS
  <1>4. PICK u \in Nat, v \in Nat : u = a * p /\ v = d * p
    BY <1>3
  <1>5. b * p = u + v
    BY <1>1, <1>2, <1>4
  <1> QED BY <1>3, <1>4, <1>5

\* One more.
LEMMA MulSucc ==
    ASSUME NEW a \in Int, NEW p \in Int
    PROVE  (a + 1) * p = a * p + p /\ (a - 1) * p = a * p - p
  OBVIOUS

\* Quotient and remainder are determined.
LEMMA DivUnique ==
    ASSUME NEW p \in Nat \ {0}, NEW a \in Nat, NEW b \in Nat, NEW q \in 0 .. p - 1, NEW r \in 0 .. p - 1,
           a * p + q = b * p + r
    PROVE  a = b /\ q = r
  <1>1. ASSUME NEW x \in Nat, NEW y \in Nat, NEW s \in 0 .. p - 1, NEW t \in 0 .. p - 1, x < y
        PROVE  x * p + s # y * p + t
    <2>1. (x + 1) * p <= y * p /\ (x + 1) * p \in Nat /\ y * p \in Nat
      BY <1>1, MulMono
    <2>2. (x + 1) * p = x * p + p /\ x * p \in Nat
      BY MulSucc, MulMono
    <2>3. PICK u \in Nat, v \in Nat : u = x * p /\ v = y * p
      BY <2>1, <2>2
    <2>4. u + p <= v
      BY <2>1, <2>2, <2>3
    <2> QED BY <2>3, <2>4
  <1>2. ~(a < b) /\ ~(b < a)
    BY <1>1
  <1>3. a = b
    BY <1>2
  <1>4. a * p \in Nat
    BY MulMono
  <1> QED BY <1>3, <1>4

\* Position i of a table of c rows of p.
LEMMA Position ==
    ASSUME NEW p \in Nat \ {0}, NEW c \in Nat, NEW i \in 1 .. c * p
    PROVE  /\ ((i - 1) \div p) + 1 \in 1 .. c /\ (i - 1) % p \in 0 .. p - 1
           /\ ((((i - 1) \div p) + 1) - 1) * p + ((i - 1) % p) = i - 1
  <1>0. c * p \in Nat /\ i \in Nat /\ i - 1 \in Nat /\ i - 1 < c * p
    BY MulMono
  <1>1. PICK h \in Nat : h = i - 1 /\ h < c * p
    BY <1>0
  <1>2. PICK k \in Nat : k = h \div p
    BY DivMod
  <1>3. PICK q \in Nat : q = h % p /\ q < p
    BY DivMod
  <1>4. h = k * p + q
    BY <1>2, <1>3, DivMod
  <1>5. k < c
    <2> SUFFICES ASSUME c <= k PROVE FALSE
      OBVIOUS
    <2>1. c * p <= k * p /\ k * p \in Nat
      BY MulMono
    <2> QED BY <2>1, <1>0, <1>1, <1>4
  <1>6. (k + 1) - 1 = k /\ k + 1 \in 1 .. c
    BY <1>5
  <1>7. q \in 0 .. p - 1
    BY <1>3
  <1>8. (i - 1) \div p = k /\ (i - 1) % p = q /\ i - 1 = h
    BY <1>1, <1>2, <1>3
  <1>9. ((i - 1) \div p) + 1 = k + 1 /\ (((i - 1) \div p) + 1) - 1 = k
    BY <1>6, <1>8
  <1>10. ((((i - 1) \div p) + 1) - 1) * p = k * p
    BY <1>9
  <1>11. ((((i - 1) \div p) + 1) - 1) * p + ((i - 1) % p) = i - 1
    BY <1>4, <1>8, <1>10
  <1> QED BY <1>6, <1>7, <1>8, <1>9, <1>11

\* The position of row k and column q.
LEMMA Cell ==
    ASSUME NEW p \in Nat \ {0}, NEW c \in Nat, NEW k \in 1 .. c, NEW q \in 0 .. p - 1
    PROVE  /\ (k - 1) * p + q \in 0 .. c * p - 1
           /\ (k - 1) * p \in Nat /\ c * p \in Nat
  <1>1. PICK h \in Nat : h = k - 1 /\ h + 1 <= c
    OBVIOUS
  <1>2. (h + 1) * p <= c * p /\ c * p \in Nat /\ h * p \in Nat
    BY <1>1, MulMono
  <1>3. (h + 1) * p = h * p + p
    BY MulSucc
  <1>4. PICK u \in Nat : u = h * p
    BY <1>2
  <1>5. u + p <= c * p
    BY <1>2, <1>3, <1>4
  <1> QED BY <1>1, <1>2, <1>4, <1>5

----------------------------------------------------------------------------
(* _resize_single_leaf *)

\* What host k of a resized topology is made from.
NodeFrom(spec, k, n) ==
    /\ n \in Elements(spec.nodes)
    /\ IF \E x \in Elements(spec.nodes) : x.id = k THEN n.id = k ELSE n = spec.nodes[1]

\* What its device is made from.
DeviceFrom(spec, k, d) ==
    /\ d \in Elements(spec.devices)
    /\ IF \E x \in Elements(spec.devices) : x.node = k THEN d.node = k ELSE d = spec.devices[1]

\* What its link at port q is made from.
LinkFrom(spec, k, q, l) ==
    /\ l \in Elements(spec.links)
    /\ IF \E x \in Elements(spec.links) : x.device = k /\ x.port = q
       THEN l.device = k /\ l.port = q ELSE l = spec.links[1]

\* Node n under the name of host k.
NewNode(n, k) == [n EXCEPT !.id = k]

\* Device d under the name of host k.
NewDevice(d, k) == [d EXCEPT !.id = k, !.node = k, !.eid = FirstEid + k - 1]

\* Link l at port q of device k.
NewLink(spec, l, k, q) ==
    [l EXCEPT !.device = k, !.port = q, !.to = spec.switch, !.toPort = (k - 1) * Ports(spec) + q]

\* The parts of a resized topology.
ResizedBy(spec, count, ns, ds, ls) ==
    /\ Resized(spec, count) = [spec EXCEPT !.nodes = ns, !.devices = ds, !.links = ls]
    /\ ns = [k \in 1 .. count |-> ns[k]]
    /\ ds = [k \in 1 .. count |-> ds[k]]
    /\ ls = [i \in 1 .. count * Ports(spec) |-> ls[i]]
    /\ \A k \in 1 .. count : \E n : NodeFrom(spec, k, n) /\ ns[k] = NewNode(n, k)
    /\ \A k \in 1 .. count : \E d : DeviceFrom(spec, k, d) /\ ds[k] = NewDevice(d, k)
    /\ \A i \in 1 .. count * Ports(spec) :
          \E l : /\ LinkFrom(spec, ((i - 1) \div Ports(spec)) + 1, (i - 1) % Ports(spec), l)
                /\ ls[i] = NewLink(spec, l, ((i - 1) \div Ports(spec)) + 1, (i - 1) % Ports(spec))

\* Every host, device and link of a resized topology is one of the old, renamed.
LEMMA ResizedForm ==
    ASSUME NEW spec \in Topologies, NEW count, Resizable(spec, count)
    PROVE  \E ns, ds, ls : ResizedBy(spec, count, ns, ds, ls)
  <1> DEFINE node(k) == [GetOr(spec.nodes, LAMBDA n : n.id = k, spec.nodes[1]) EXCEPT !.id = k]
             device(k) == [GetOr(spec.devices, LAMBDA d : d.node = k, spec.devices[1])
                             EXCEPT !.id = k, !.node = k, !.eid = FirstEid + k - 1]
             p == Ports(spec)
             ns == [k \in 1 .. count |-> node(k)]
             ds == [k \in 1 .. count |-> device(k)]
             ls == [i \in 1 .. count * p |->
                       ResizedLink(spec, ((i - 1) \div p) + 1, device(((i - 1) \div p) + 1), (i - 1) % p)]
  <1>1. Resized(spec, count) = [spec EXCEPT !.nodes = ns, !.devices = ds, !.links = ls]
    BY DEF Resized
  <1>2. /\ Compiles(spec) /\ spec.switch # None
        /\ spec.nodes[1] \in Elements(spec.nodes) /\ spec.devices[1] \in Elements(spec.devices)
        /\ spec.links[1] \in Elements(spec.links)
    BY CompiledParts DEF Resizable
  <1>3. ASSUME NEW k PROVE \E n : NodeFrom(spec, k, n) /\ node(k) = NewNode(n, k)
    BY <1>2 DEF GetOr, NodeFrom, NewNode
  <1>4. ASSUME NEW k PROVE \E d : DeviceFrom(spec, k, d) /\ device(k) = NewDevice(d, k)
    BY <1>2 DEF GetOr, DeviceFrom, NewDevice
  <1>5. ASSUME NEW k PROVE device(k).ports = p
    <2>1. PICK d : DeviceFrom(spec, k, d) /\ device(k) = NewDevice(d, k)
      BY <1>4
    <2>2. d \in Elements(spec.devices)
      BY <2>1 DEF DeviceFrom
    <2>3. d.ports = p
      BY <2>2, <1>2 DEF Compiles, DevicesCompile
    <2>4. d \in Device
      BY <2>2, Parts, SeqParts
    <2> QED BY <2>1, <2>3, <2>4 DEF NewDevice, Device
  <1>6. ASSUME NEW k, NEW q
        PROVE  \E l : LinkFrom(spec, k, q, l) /\ ResizedLink(spec, k, device(k), q) = NewLink(spec, l, k, q)
    <2> DEFINE l == GetOr(spec.links, LAMBDA x : x.device = k /\ x.port = q, spec.links[1])
    <2>1. LinkFrom(spec, k, q, l)
      BY <1>2 DEF GetOr, LinkFrom
    <2>2. ResizedLink(spec, k, device(k), q) = [l EXCEPT !.device = k, !.port = q, !.to = spec.switch,
                                                         !.toPort = (k - 1) * device(k).ports + q]
      BY DEF ResizedLink
    <2>3. ResizedLink(spec, k, device(k), q) = NewLink(spec, l, k, q)
      BY <2>2, <1>5 DEF NewLink
    <2> QED BY <2>1, <2>3
  <1>7. \A k \in 1 .. count : ns[k] = node(k) /\ ds[k] = device(k)
    OBVIOUS
  <1>8. \A i \in 1 .. count * p :
           ls[i] = ResizedLink(spec, ((i - 1) \div p) + 1, device(((i - 1) \div p) + 1), (i - 1) % p)
    OBVIOUS
  <1>9. /\ ns = [k \in 1 .. count |-> ns[k]]
        /\ ds = [k \in 1 .. count |-> ds[k]]
        /\ ls = [i \in 1 .. count * Ports(spec) |-> ls[i]]
    OBVIOUS
  <1> HIDE DEF node, device, ns, ds, ls
  <1>10. \A k \in 1 .. count : \E n : NodeFrom(spec, k, n) /\ ns[k] = NewNode(n, k)
    BY <1>3, <1>7
  <1>11. \A k \in 1 .. count : \E d : DeviceFrom(spec, k, d) /\ ds[k] = NewDevice(d, k)
    BY <1>4, <1>7
  <1>12. \A i \in 1 .. count * Ports(spec) :
            \E l : /\ LinkFrom(spec, ((i - 1) \div p) + 1, (i - 1) % p, l)
                  /\ ls[i] = NewLink(spec, l, ((i - 1) \div p) + 1, (i - 1) % p)
    BY <1>6, <1>8
  <1>13. ResizedBy(spec, count, ns, ds, ls)
    BY <1>1, <1>9, <1>10, <1>11, <1>12 DEF ResizedBy
  <1> HIDE DEF p
  <1> QED BY <1>13

\* The hosts of a resized topology, field by field.
NodesBy(spec, count, new) ==
    \A k \in 1 .. count : \E n :
       /\ NodeFrom(spec, k, n) /\ new.nodes[k].id = k
       /\ new.nodes[k].sim = n.sim /\ new.nodes[k].setting = n.setting

\* Its devices.
DevicesBy(spec, count, new) ==
    \A k \in 1 .. count : \E d :
       /\ DeviceFrom(spec, k, d) /\ new.devices[k].id = k /\ new.devices[k].node = k
       /\ new.devices[k].eid = FirstEid + k - 1
       /\ new.devices[k].ports = d.ports /\ new.devices[k].jettys = d.jettys

\* Its links.
LinksBy(spec, count, p, new) ==
    \A i \in 1 .. count * p : \E k \in 1 .. count, q \in 0 .. p - 1 : \E l :
       /\ LinkFrom(spec, k, q, l) /\ i - 1 = (k - 1) * p + q
       /\ new.links[i].device = k /\ new.links[i].port = q /\ new.links[i].to = spec.switch
       /\ new.links[i].toPort = (k - 1) * p + q
       /\ new.links[i].rate = l.rate /\ new.links[i].latency = l.latency

\* The fields of a resized topology.
LEMMA ResizedParts ==
    ASSUME NEW spec \in Topologies, NEW count, Resizable(spec, count),
           NEW new, new = Resized(spec, count), NEW p, p = Ports(spec)
    PROVE  /\ new \in Topologies /\ new.switch = spec.switch /\ new.memory = spec.memory
           /\ new.checkpoint = spec.checkpoint
           /\ count \in 2 .. MaxHosts /\ count \in Nat /\ p \in Nat \ {0}
           /\ Len(new.nodes) = count /\ DOMAIN new.nodes = 1 .. count
           /\ Len(new.devices) = count /\ DOMAIN new.devices = 1 .. count
           /\ Len(new.links) = count * p /\ DOMAIN new.links = 1 .. count * p
           /\ NodesBy(spec, count, new) /\ DevicesBy(spec, count, new) /\ LinksBy(spec, count, p, new)
  <1>1. PICK ns, ds, ls : ResizedBy(spec, count, ns, ds, ls)
    BY ResizedForm
  <1>2. Compiles(spec) /\ count \in 2 .. MaxHosts /\ count \in Nat
    BY MaxHostsAssumption DEF Resizable
  <1>3. p \in Nat \ {0}
    BY <1>2, CompiledParts
  <1>4. count * p \in Nat
    BY <1>2, <1>3, MulMono
  <1>5. spec.switch \in Nat
    BY Parts
  <1>n. ASSUME NEW k \in 1 .. count
        PROVE  /\ ns[k] \in Node
               /\ \E n : /\ NodeFrom(spec, k, n) /\ ns[k].id = k
                         /\ ns[k].sim = n.sim /\ ns[k].setting = n.setting
    <2>1. PICK n : NodeFrom(spec, k, n) /\ ns[k] = NewNode(n, k)
      BY <1>1 DEF ResizedBy
    <2>2. n \in Node
      BY <2>1, Parts, SeqParts DEF NodeFrom
    <2>3. k \in Nat
      BY <1>2
    <2> QED BY <2>1, <2>2, <2>3 DEF NewNode, Node
  <1>d. ASSUME NEW k \in 1 .. count
        PROVE  /\ ds[k] \in Device
               /\ \E d : /\ DeviceFrom(spec, k, d) /\ ds[k].id = k /\ ds[k].node = k
                         /\ ds[k].eid = FirstEid + k - 1
                         /\ ds[k].ports = d.ports /\ ds[k].jettys = d.jettys
    <2>1. PICK d : DeviceFrom(spec, k, d) /\ ds[k] = NewDevice(d, k)
      BY <1>1 DEF ResizedBy
    <2>2. d \in Device
      BY <2>1, Parts, SeqParts DEF DeviceFrom
    <2>3. k \in Nat /\ FirstEid + k - 1 \in Nat
      BY <1>2 DEF FirstEid
    <2> QED BY <2>1, <2>2, <2>3 DEF NewDevice, Device
  <1>l. ASSUME NEW i \in 1 .. count * p
        PROVE  /\ ls[i] \in Link
               /\ \E k \in 1 .. count, q \in 0 .. p - 1 : \E l :
                     /\ LinkFrom(spec, k, q, l) /\ i - 1 = (k - 1) * p + q
                     /\ ls[i].device = k /\ ls[i].port = q /\ ls[i].to = spec.switch
                     /\ ls[i].toPort = (k - 1) * p + q
                     /\ ls[i].rate = l.rate /\ ls[i].latency = l.latency
    <2>1. PICK k, q : k = ((i - 1) \div p) + 1 /\ q = (i - 1) % p
      OBVIOUS
    <2>2. k \in 1 .. count /\ q \in 0 .. p - 1 /\ (k - 1) * p + q = i - 1
      BY <2>1, <1>2, <1>3, Position
    <2>3. PICK l : LinkFrom(spec, k, q, l) /\ ls[i] = NewLink(spec, l, k, q)
      BY <1>1, <2>1 DEF ResizedBy
    <2>4. l \in Link
      BY <2>3, Parts, SeqParts DEF LinkFrom
    <2>5. k \in Nat /\ q \in Nat /\ (k - 1) * p + q \in Nat
      BY <2>2, <1>2, <1>3, <1>4
    <2>6. /\ ls[i] \in Link
          /\ ls[i].device = k /\ ls[i].port = q /\ ls[i].to = spec.switch
          /\ ls[i].toPort = (k - 1) * p + q
          /\ ls[i].rate = l.rate /\ ls[i].latency = l.latency
      BY <2>3, <2>4, <2>5, <1>5 DEF NewLink, Link
    <2> QED BY <2>2, <2>3, <2>6
  <1>6. ns \in Seq(Node) /\ Len(ns) = count /\ DOMAIN ns = 1 .. count
    BY <1>1, <1>2, <1>n, SeqOf DEF ResizedBy
  <1>7. ds \in Seq(Device) /\ Len(ds) = count /\ DOMAIN ds = 1 .. count
    BY <1>1, <1>2, <1>d, SeqOf DEF ResizedBy
  <1>8. ls \in Seq(Link) /\ Len(ls) = count * p /\ DOMAIN ls = 1 .. count * p
    BY <1>1, <1>4, <1>l, SeqOf DEF ResizedBy
  <1>9. new = [spec EXCEPT !.nodes = ns, !.devices = ds, !.links = ls]
    BY <1>1 DEF ResizedBy
  <1>10. /\ new \in Topologies /\ new.nodes = ns /\ new.devices = ds /\ new.links = ls
         /\ new.switch = spec.switch /\ new.memory = spec.memory /\ new.checkpoint = spec.checkpoint
    BY <1>6, <1>7, <1>8, <1>9 DEF Topologies
  <1>11. NodesBy(spec, count, new)
    BY <1>10, <1>n DEF NodesBy
  <1>12. DevicesBy(spec, count, new)
    BY <1>10, <1>d DEF DevicesBy
  <1>13. LinksBy(spec, count, p, new)
    BY <1>10, <1>l DEF LinksBy
  <1> QED BY <1>2, <1>3, <1>6, <1>7, <1>8, <1>10, <1>11, <1>12, <1>13

\* An injection between sets of one size reaches every element.
LEMMA Reached ==
    ASSUME NEW n \in Nat, NEW f \in [1 .. n -> 0 .. n - 1], IsInjective(f), NEW v \in 0 .. n - 1
    PROVE  \E i \in 1 .. n : f[i] = v
  <1>1. IsFiniteSet(1 .. n) /\ Cardinality(1 .. n) = n
    BY FS_Interval
  <1>2. IsFiniteSet(0 .. n - 1) /\ Cardinality(0 .. n - 1) = n
    <2>1. n # 0 /\ n - 1 \in Int /\ 0 \in Int /\ ~(0 > n - 1) /\ (n - 1) - 0 + 1 = n
      OBVIOUS
    <2> QED BY <2>1, FS_Interval
  <1>3. f \in Injection(1 .. n, 0 .. n - 1)
    BY DEF Injection
  <1>4. f \in Surjection(1 .. n, 0 .. n - 1)
    BY <1>1, <1>2, <1>3, FS_Injection
  <1> QED BY <1>4 DEF Surjection

\* Nodes and devices of a topology that compiles.
LEMMA Named ==
    ASSUME NEW spec \in Topologies, Compiles(spec)
    PROVE  /\ Hosts(spec) = 1 .. Len(spec.nodes) /\ Len(spec.nodes) \in Nat
           /\ \A i, j \in Hosts(spec) : spec.nodes[i].id = spec.nodes[j].id => i = j
           /\ \A d, e \in Elements(spec.devices) : d.id = e.id \/ d.node = e.node => d = e
           /\ \A d \in Elements(spec.devices) :
                 IndexOf(spec, d.node) \in Hosts(spec) /\ spec.nodes[IndexOf(spec, d.node)].id = d.node
  <1>1. Hosts(spec) = 1 .. Len(spec.nodes) /\ Len(spec.nodes) \in Nat
    BY Parts, SeqParts DEF Hosts
  <1>2. ASSUME NEW i \in Hosts(spec), NEW j \in Hosts(spec), spec.nodes[i].id = spec.nodes[j].id PROVE i = j
    BY <1>2 DEF Compiles, NodesCompile, IsInjective
  <1>3. ASSUME NEW d \in Elements(spec.devices), NEW e \in Elements(spec.devices), d.id = e.id \/ d.node = e.node
        PROVE  d = e
    <2>1. PICK i \in DOMAIN spec.devices, j \in DOMAIN spec.devices : d = spec.devices[i] /\ e = spec.devices[j]
      BY DEF Elements
    <2>2. /\ \A a, b \in DOMAIN spec.devices : spec.devices[a].id = spec.devices[b].id => a = b
          /\ \A a, b \in DOMAIN spec.devices : spec.devices[a].node = spec.devices[b].node => a = b
      BY DEF Compiles, DevicesCompile, IsInjective
    <2> QED BY <1>3, <2>1, <2>2
  <1>4. ASSUME NEW d \in Elements(spec.devices)
        PROVE  IndexOf(spec, d.node) \in Hosts(spec) /\ spec.nodes[IndexOf(spec, d.node)].id = d.node
    <2>1. \E i \in Hosts(spec) : spec.nodes[i].id = d.node
      BY DEF Compiles, DevicesCompile
    <2> QED BY <2>1 DEF IndexOf
  <1> QED BY <1>1, <1>2, <1>3, <1>4

\* The links of a star.
LEMMA StarLink ==
    ASSUME NEW spec \in Topologies, Compiles(spec), spec.switch # None, NEW l \in Elements(spec.links)
    PROVE  /\ l.to = spec.switch /\ l.port \in 0 .. Ports(spec) - 1 /\ l.rate >= 1 /\ l.latency >= 1
           /\ \E d \in Elements(spec.devices) :
                 d.id = l.device /\ l.toPort = (IndexOf(spec, d.node) - 1) * Ports(spec) + l.port
           /\ \A x \in Elements(spec.links) : x.device = l.device => x.rate = l.rate /\ x.latency = l.latency
  BY DEF Compiles, StarCompiles

\* Every port of every device of a star is linked: there are as many links as ports of the
\* switch, and no two are at one port.
LEMMA EveryPortLinked ==
    ASSUME NEW spec \in Topologies, Compiles(spec), spec.switch # None,
           NEW d \in Elements(spec.devices), NEW q \in 0 .. Ports(spec) - 1
    PROVE  \E l \in Elements(spec.links) : l.device = d.id /\ l.port = q
  <1>1. PICK n \in Nat, p \in Nat \ {0} : n = Len(spec.nodes) /\ p = Ports(spec)
    BY CompiledParts, Named
  <1>2. n * p \in Nat /\ Len(spec.links) = n * p /\ DOMAIN spec.links = 1 .. n * p
    <2>1. Len(spec.links) = n * p
      BY <1>1, CompiledParts
    <2>2. n * p \in Nat
      BY MulMono
    <2>3. spec.links \in Seq(Link)
      BY Parts
    <2>4. DOMAIN spec.links = 1 .. Len(spec.links)
      BY <2>3, SeqParts
    <2> QED BY <2>1, <2>2, <2>4
  <1>3. ASSUME NEW i \in 1 .. n * p
        PROVE  \E e \in Elements(spec.devices) :
                  /\ e.id = spec.links[i].device /\ IndexOf(spec, e.node) \in 1 .. n
                  /\ spec.links[i].toPort = (IndexOf(spec, e.node) - 1) * p + spec.links[i].port
                  /\ spec.links[i].port \in 0 .. p - 1
    <2>1. spec.links[i] \in Elements(spec.links)
      BY <1>2 DEF Elements
    <2>2. PICK l \in Elements(spec.links) : l = spec.links[i]
      BY <2>1
    <2>3. /\ l.port \in 0 .. p - 1
          /\ \E e \in Elements(spec.devices) :
                e.id = l.device /\ l.toPort = (IndexOf(spec, e.node) - 1) * p + l.port
      BY <1>1, StarLink
    <2>4. \A e \in Elements(spec.devices) : IndexOf(spec, e.node) \in 1 .. n
      BY <1>1, Named
    <2> QED BY <2>2, <2>3, <2>4
  <1>4. ASSUME NEW a \in 1 .. n, NEW b \in 1 .. n, NEW r \in 0 .. p - 1, NEW s \in 0 .. p - 1,
               (a - 1) * p + r = (b - 1) * p + s
        PROVE  a = b /\ r = s
    <2>1. PICK x \in Nat, y \in Nat : x = a - 1 /\ y = b - 1
      OBVIOUS
    <2>2. x * p + r = y * p + s
      BY <2>1, <1>4
    <2>3. x = y /\ r = s
      BY <2>2, DivUnique
    <2> QED BY <2>1, <2>3
  <1>5. ASSUME NEW e \in Elements(spec.devices), NEW f \in Elements(spec.devices),
               IndexOf(spec, e.node) = IndexOf(spec, f.node)
        PROVE  e = f
    BY <1>5, Named
  <1> DEFINE T == [i \in 1 .. n * p |-> spec.links[i].toPort]
  <1>6. T \in [1 .. n * p -> 0 .. n * p - 1]
    <2> SUFFICES ASSUME NEW i \in 1 .. n * p PROVE spec.links[i].toPort \in 0 .. n * p - 1
      OBVIOUS
    <2>1. PICK k \in 1 .. n, r \in 0 .. p - 1 : spec.links[i].toPort = (k - 1) * p + r
      BY <1>3
    <2> QED BY <2>1, Cell
  <1>7. IsInjective(T)
    <2> SUFFICES ASSUME NEW i \in 1 .. n * p, NEW j \in 1 .. n * p, spec.links[i].toPort = spec.links[j].toPort
                 PROVE  i = j
      BY DEF IsInjective
    <2>1. PICK e \in Elements(spec.devices) :
                  /\ e.id = spec.links[i].device /\ IndexOf(spec, e.node) \in 1 .. n
                  /\ spec.links[i].toPort = (IndexOf(spec, e.node) - 1) * p + spec.links[i].port
                  /\ spec.links[i].port \in 0 .. p - 1
      BY <1>3
    <2>2. PICK f \in Elements(spec.devices) :
                  /\ f.id = spec.links[j].device /\ IndexOf(spec, f.node) \in 1 .. n
                  /\ spec.links[j].toPort = (IndexOf(spec, f.node) - 1) * p + spec.links[j].port
                  /\ spec.links[j].port \in 0 .. p - 1
      BY <1>3
    <2>3. IndexOf(spec, e.node) = IndexOf(spec, f.node) /\ spec.links[i].port = spec.links[j].port
      <3>1. PICK a \in 1 .. n, r \in 0 .. p - 1 : a = IndexOf(spec, e.node) /\ r = spec.links[i].port
        BY <2>1
      <3>2. PICK b \in 1 .. n, t \in 0 .. p - 1 : b = IndexOf(spec, f.node) /\ t = spec.links[j].port
        BY <2>2
      <3>3. (a - 1) * p + r = (b - 1) * p + t
        BY <2>1, <2>2, <3>1, <3>2
      <3>4. a = b /\ r = t
        BY <3>3, <1>4
      <3> QED BY <3>1, <3>2, <3>4
    <2>4. spec.links[i].device = spec.links[j].device
      BY <2>1, <2>2, <2>3, <1>5
    <2>5. \A a, b \in DOMAIN spec.links :
             <<spec.links[a].device, spec.links[a].port>> = <<spec.links[b].device, spec.links[b].port>> => a = b
      BY DEF Compiles, StarCompiles, IsInjective
    <2> QED BY <2>3, <2>4, <2>5, <1>2
  <1>8. IndexOf(spec, d.node) \in 1 .. n /\ q \in 0 .. p - 1
    BY <1>1, Named
  <1>9. (IndexOf(spec, d.node) - 1) * p + q \in 0 .. n * p - 1
    BY <1>8, Cell
  <1>10. PICK i \in 1 .. n * p : T[i] = (IndexOf(spec, d.node) - 1) * p + q
    <2> HIDE DEF T
    <2>1. PICK N \in Nat : N = n * p
      BY <1>2
    <2>2. PICK v \in 0 .. N - 1 : v = (IndexOf(spec, d.node) - 1) * p + q
      BY <1>9, <2>1
    <2>3. T \in [1 .. N -> 0 .. N - 1]
      BY <1>6, <2>1
    <2>4. \E i \in 1 .. N : T[i] = v
      BY <1>7, <2>3, Reached
    <2> QED BY <2>1, <2>2, <2>4
  <1>11. spec.links[i].toPort = (IndexOf(spec, d.node) - 1) * p + q
    BY <1>10
  <1>12. PICK e \in Elements(spec.devices) :
                  /\ e.id = spec.links[i].device /\ IndexOf(spec, e.node) \in 1 .. n
                  /\ spec.links[i].toPort = (IndexOf(spec, e.node) - 1) * p + spec.links[i].port
                  /\ spec.links[i].port \in 0 .. p - 1
    BY <1>3
  <1>13. IndexOf(spec, e.node) = IndexOf(spec, d.node) /\ spec.links[i].port = q
    <2>1. PICK a \in 1 .. n, r \in 0 .. p - 1 : a = IndexOf(spec, e.node) /\ r = spec.links[i].port
      BY <1>12
    <2>2. PICK b \in 1 .. n : b = IndexOf(spec, d.node)
      BY <1>8
    <2>3. (a - 1) * p + r = (b - 1) * p + q
      BY <1>11, <1>12, <2>1, <2>2
    <2>4. a = b /\ r = q
      BY <2>3, <1>4, <1>8
    <2> QED BY <2>1, <2>2, <2>4
  <1>14. e = d
    BY <1>5, <1>13
  <1>15. spec.links[i] \in Elements(spec.links)
    BY <1>2 DEF Elements
  <1> QED BY <1>12, <1>13, <1>14, <1>15

\* The hosts of a resized topology compile.
LEMMA ResizedNodes ==
    ASSUME NEW spec \in Topologies, NEW count, Resizable(spec, count), NEW new, new = Resized(spec, count)
    PROVE  NodesCompile(new) /\ Sim(new) = Sim(spec)
  <1>0. Compiles(spec)
    BY DEF Resizable
  <1>1. /\ count \in 2 .. MaxHosts /\ count \in Nat /\ Len(new.nodes) = count /\ DOMAIN new.nodes = 1 .. count
        /\ new.memory = spec.memory /\ new.checkpoint = spec.checkpoint
        /\ NodesBy(spec, count, new)
    BY ResizedParts
  <1>2. ASSUME NEW k \in 1 .. count
        PROVE  /\ new.nodes[k].id = k /\ new.nodes[k].sim = Sim(spec)
               /\ Sim(spec) = "gem5" => new.nodes[k].setting = spec.nodes[1].setting
    <2>1. PICK n : /\ NodeFrom(spec, k, n) /\ new.nodes[k].id = k
                   /\ new.nodes[k].sim = n.sim /\ new.nodes[k].setting = n.setting
      BY <1>1 DEF NodesBy
    <2>2. PICK i \in Hosts(spec) : n = spec.nodes[i]
      BY <2>1 DEF NodeFrom, Elements, Hosts
    <2>3. n.sim = Sim(spec) /\ (Sim(spec) = "gem5" => n.setting = spec.nodes[1].setting)
      BY <1>0, <2>2 DEF Compiles, NodesCompile
    <2> QED BY <2>1, <2>3
  <1>3. 1 \in 1 .. count
    BY <1>1
  <1>4. Sim(new) = Sim(spec)
    BY <1>2, <1>3 DEF Sim
  <1>5. IsInjective([i \in Hosts(new) |-> new.nodes[i].id])
    BY <1>1, <1>2 DEF IsInjective, Hosts
  <1>6. \A i \in Hosts(new) : new.nodes[i].sim = Sim(new)
    BY <1>1, <1>2, <1>4 DEF Hosts
  <1>7. CASE Sim(new) = "gem5"
    <2>1. \A i \in Hosts(new) : new.nodes[i].setting = new.nodes[1].setting
      BY <1>1, <1>2, <1>3, <1>4, <1>7 DEF Hosts
    <2> QED BY <1>1, <1>4, <1>5, <1>6, <1>7, <2>1 DEF NodesCompile
  <1>8. CASE Sim(new) # "gem5"
    <2>1. new.checkpoint = "none" /\ new.memory = None
      BY <1>0, <1>1, <1>4, <1>8 DEF Compiles, NodesCompile
    <2> QED BY <1>1, <1>4, <1>5, <1>6, <1>8, <2>1 DEF NodesCompile
  <1> QED BY <1>7, <1>8

\* So do its devices, unless the switch has the name of one of them.
LEMMA ResizedDevices ==
    ASSUME NEW spec \in Topologies, NEW count, Resizable(spec, count), NEW new, new = Resized(spec, count)
    PROVE  /\ Ports(new) = Ports(spec)
           /\ new.switch \notin 1 .. count => DevicesCompile(new)
  <1>0. Compiles(spec)
    BY DEF Resizable
  <1>1. /\ count \in 2 .. MaxHosts /\ count \in Nat
        /\ Len(new.nodes) = count /\ DOMAIN new.nodes = 1 .. count
        /\ Len(new.devices) = count /\ DOMAIN new.devices = 1 .. count
        /\ NodesBy(spec, count, new) /\ DevicesBy(spec, count, new)
    BY ResizedParts
  <1>a. \A k \in 1 .. count : new.nodes[k].id = k
    BY <1>1 DEF NodesBy
  <1>2. ASSUME NEW k \in 1 .. count
        PROVE  /\ new.devices[k].id = k /\ new.devices[k].node = k /\ new.devices[k].eid = FirstEid + k - 1
               /\ new.devices[k].ports = Ports(spec) /\ new.devices[k].jettys = spec.devices[1].jettys
               /\ Ports(spec) \in 1 .. MaxPorts(Sim(spec))
               /\ \/ spec.devices[1].jettys = UnspecifiedJettys
                  \/ spec.devices[1].jettys \in 2 .. JettyLimit
    <2>1. PICK d : /\ DeviceFrom(spec, k, d) /\ new.devices[k].id = k /\ new.devices[k].node = k
                   /\ new.devices[k].eid = FirstEid + k - 1
                   /\ new.devices[k].ports = d.ports /\ new.devices[k].jettys = d.jettys
      BY <1>1 DEF DevicesBy
    <2>2. d \in Elements(spec.devices)
      BY <2>1 DEF DeviceFrom
    <2>3. /\ d.ports = Ports(spec) /\ d.jettys = spec.devices[1].jettys
          /\ d.ports \in 1 .. MaxPorts(Sim(spec))
          /\ d.jettys = UnspecifiedJettys \/ d.jettys \in 2 .. JettyLimit
      BY <1>0, <2>2 DEF Compiles, DevicesCompile
    <2> QED BY <2>1, <2>3
  <1>3. 1 \in 1 .. count
    BY <1>1
  <1>4. Ports(new) = Ports(spec) /\ new.devices[1].jettys = spec.devices[1].jettys
    BY <1>2, <1>3 DEF Ports
  <1>5. ASSUME new.switch \notin 1 .. count PROVE DevicesCompile(new)
    <2>1. Sim(new) = Sim(spec)
      BY ResizedNodes
    <2>2. IsInjective([i \in DOMAIN new.devices |-> new.devices[i].id])
      BY <1>1, <1>2 DEF IsInjective
    <2>3. IsInjective([i \in DOMAIN new.devices |-> new.devices[i].node])
      BY <1>1, <1>2 DEF IsInjective
    <2>4. ASSUME NEW d \in Elements(new.devices)
          PROVE  /\ d.id # new.switch
                 /\ \E i \in Hosts(new) : new.nodes[i].id = d.node /\ d.eid = FirstEid + i - 1
                 /\ d.ports = Ports(new) /\ d.ports \in 1 .. MaxPorts(Sim(new))
                 /\ d.jettys = new.devices[1].jettys
                 /\ d.jettys = UnspecifiedJettys \/ d.jettys \in 2 .. JettyLimit
      <3>1. PICK k \in 1 .. count : d = new.devices[k]
        BY <1>1 DEF Elements
      <3>2. d.id # new.switch
        BY <1>2, <1>5, <3>1
      <3>3. k \in Hosts(new) /\ new.nodes[k].id = d.node /\ d.eid = FirstEid + k - 1
        BY <1>1, <1>2, <1>a, <3>1 DEF Hosts
      <3> QED BY <1>2, <1>4, <2>1, <3>1, <3>2, <3>3
    <2> QED BY <1>1, <2>2, <2>3, <2>4 DEF DevicesCompile
  <1> QED BY <1>4, <1>5

\* And its links: those of one device come all from its own links, since every port was linked,
\* or all from the first link.
LEMMA ResizedLinks ==
    ASSUME NEW spec \in Topologies, NEW count, Resizable(spec, count), NEW new, new = Resized(spec, count)
    PROVE  StarCompiles(new)
  <1>0. Compiles(spec) /\ spec.switch # None
    BY DEF Resizable
  <1>a. PICK p \in Nat \ {0} : p = Ports(spec)
    BY ResizedParts
  <1>1. /\ count \in Nat /\ Len(new.nodes) = count /\ Len(new.links) = count * p /\ DOMAIN new.links = 1 .. count * p
        /\ DOMAIN new.nodes = 1 .. count /\ DOMAIN new.devices = 1 .. count /\ new.switch = spec.switch
        /\ \A k \in 1 .. count : new.nodes[k].id = k
        /\ \A k \in 1 .. count : new.devices[k].id = k /\ new.devices[k].node = k
    <2>1. /\ count \in Nat /\ Len(new.nodes) = count /\ Len(new.links) = count * p /\ DOMAIN new.links = 1 .. count * p
          /\ DOMAIN new.nodes = 1 .. count /\ DOMAIN new.devices = 1 .. count /\ new.switch = spec.switch
          /\ NodesBy(spec, count, new) /\ DevicesBy(spec, count, new)
      BY <1>a, ResizedParts
    <2>2. \A k \in 1 .. count : new.nodes[k].id = k
      BY <2>1 DEF NodesBy
    <2>3. \A k \in 1 .. count : new.devices[k].id = k /\ new.devices[k].node = k
      BY <2>1 DEF DevicesBy
    <2> QED BY <2>1, <2>2, <2>3
  <1>2. \A i \in 1 .. count * p : \E k \in 1 .. count, q \in 0 .. p - 1 : \E l :
                 /\ LinkFrom(spec, k, q, l) /\ i - 1 = (k - 1) * p + q
                 /\ new.links[i].device = k /\ new.links[i].port = q /\ new.links[i].to = spec.switch
                 /\ new.links[i].toPort = (k - 1) * p + q
                 /\ new.links[i].rate = l.rate /\ new.links[i].latency = l.latency
    <2>1. LinksBy(spec, count, p, new)
      BY <1>a, ResizedParts
    <2> QED BY <2>1 DEF LinksBy
  <1>3. Ports(new) = p
    BY <1>a, ResizedDevices
  <1>4. IsInjective([i \in DOMAIN new.links |-> <<new.links[i].device, new.links[i].port>>])
    <2> SUFFICES ASSUME NEW i \in 1 .. count * p, NEW j \in 1 .. count * p,
                        new.links[i].device = new.links[j].device, new.links[i].port = new.links[j].port
                 PROVE  i = j
      BY <1>1 DEF IsInjective
    <2>1. PICK k \in 1 .. count, q \in 0 .. p - 1 :
             i - 1 = (k - 1) * p + q /\ new.links[i].device = k /\ new.links[i].port = q
      BY <1>2
    <2>2. j - 1 = (k - 1) * p + q
      <3>1. PICK m \in 1 .. count, r \in 0 .. p - 1 :
               j - 1 = (m - 1) * p + r /\ new.links[j].device = m /\ new.links[j].port = r
        BY <1>2
      <3>2. m = k /\ r = q
        BY <2>1, <3>1
      <3> QED BY <3>1, <3>2
    <2>3. i - 1 = j - 1
      BY <2>1, <2>2
    <2>4. i \in Int /\ j \in Int
      BY <1>1, MulMono
    <2> QED BY <2>3, <2>4
  <1>5. ASSUME NEW k \in 1 .. count PROVE IndexOf(new, k) = k
    <2>1. k \in Hosts(new) /\ \A i \in Hosts(new) : new.nodes[i].id = k => i = k
      BY <1>1 DEF Hosts
    <2>2. new.nodes[k].id = k
      BY <1>1
    <2> QED BY <2>1, <2>2 DEF IndexOf
  <1>6. ASSUME NEW k \in 1 .. count, NEW q \in 0 .. p - 1, NEW r \in 0 .. p - 1, NEW l, NEW m,
               LinkFrom(spec, k, q, l), LinkFrom(spec, k, r, m)
        PROVE  l.rate = m.rate /\ l.latency = m.latency
    <2>1. l \in Elements(spec.links) /\ m \in Elements(spec.links)
      BY <1>6 DEF LinkFrom
    <2>2. CASE \E d \in Elements(spec.devices) : d.id = k
      <3>1. /\ \E x \in Elements(spec.links) : x.device = k /\ x.port = q
            /\ \E x \in Elements(spec.links) : x.device = k /\ x.port = r
        BY <1>0, <1>a, <2>2, EveryPortLinked
      <3>2. l.device = k /\ m.device = k
        BY <1>6, <3>1 DEF LinkFrom
      <3> QED BY <1>0, <2>1, <3>2, StarLink
    <2>3. CASE ~\E d \in Elements(spec.devices) : d.id = k
      <3>1. \A x \in Elements(spec.links) : x.device # k
        BY <1>0, <2>3, StarLink
      <3>2. l = spec.links[1] /\ m = spec.links[1]
        BY <1>6, <3>1 DEF LinkFrom
      <3> QED BY <3>2
    <2> QED BY <2>2, <2>3
  <1>7. ASSUME NEW link \in Elements(new.links)
        PROVE  /\ link.to = new.switch /\ link.port \in 0 .. Ports(new) - 1
               /\ \E d \in Elements(new.devices) :
                     d.id = link.device /\ link.toPort = (IndexOf(new, d.node) - 1) * Ports(new) + link.port
               /\ link.rate >= 1 /\ link.latency >= 1
               /\ \A other \in Elements(new.links) :
                     other.device = link.device => other.rate = link.rate /\ other.latency = link.latency
    <2>1. PICK i \in 1 .. count * p : link = new.links[i]
      BY <1>1 DEF Elements
    <2>2. PICK k \in 1 .. count, q \in 0 .. p - 1 : \E l :
                 /\ LinkFrom(spec, k, q, l)
                 /\ link.device = k /\ link.port = q /\ link.to = spec.switch
                 /\ link.toPort = (k - 1) * p + q
                 /\ link.rate = l.rate /\ link.latency = l.latency
      BY <1>2, <2>1
    <2>3. PICK l :
                 /\ LinkFrom(spec, k, q, l)
                 /\ link.device = k /\ link.port = q /\ link.to = spec.switch
                 /\ link.toPort = (k - 1) * p + q
                 /\ link.rate = l.rate /\ link.latency = l.latency
      BY <2>2
    <2>4. link.rate >= 1 /\ link.latency >= 1
      <3>1. l \in Elements(spec.links)
        BY <2>3 DEF LinkFrom
      <3> QED BY <1>0, <2>3, <3>1, StarLink
    <2>5. new.devices[k] \in Elements(new.devices) /\ new.devices[k].id = k /\ new.devices[k].node = k
      BY <1>1 DEF Elements
    <2>6. new.devices[k].id = link.device /\ link.toPort = (IndexOf(new, new.devices[k].node) - 1) * Ports(new) + link.port
      BY <1>3, <1>5, <2>3, <2>5
    <2>7. ASSUME NEW other \in Elements(new.links), other.device = link.device
          PROVE  other.rate = link.rate /\ other.latency = link.latency
      <3>1. PICK j \in 1 .. count * p : other = new.links[j]
        BY <1>1 DEF Elements
      <3>2. PICK r \in 0 .. p - 1 : \E m : /\ LinkFrom(spec, k, r, m)
                                           /\ other.rate = m.rate /\ other.latency = m.latency
        BY <1>2, <2>3, <2>7, <3>1
      <3> QED BY <1>6, <2>3, <3>2
    <2> QED BY <1>1, <1>3, <2>3, <2>4, <2>5, <2>6, <2>7
  <1>8. Len(new.links) = Len(new.nodes) * Ports(new)
    BY <1>1, <1>3
  <1> QED BY <1>4, <1>7, <1>8 DEF StarCompiles

\* A star resizes to a star that compiles.
LEMMA ResizedCompiles ==
    ASSUME NEW spec \in Topologies, NEW count, Resizable(spec, count), spec.switch \notin 1 .. count
    PROVE  Compiles(Resized(spec, count))
  <1>1. PICK new : new = Resized(spec, count)
    OBVIOUS
  <1>2. new.switch = spec.switch
    BY <1>1, ResizedParts
  <1>3. spec.switch # None
    BY DEF Resizable
  <1>4. NodesCompile(new) /\ DevicesCompile(new) /\ StarCompiles(new)
    BY <1>1, <1>2, ResizedNodes, ResizedDevices, ResizedLinks
  <1> QED BY <1>1, <1>2, <1>3, <1>4 DEF Compiles

----------------------------------------------------------------------------
(* Parameters that survive a resize *)

\* The link of a host of a star is any link of its device.
LEMMA LinkOfHost ==
    ASSUME NEW spec \in Topologies, Compiles(spec), spec.switch # None, NEW i \in Hosts(spec),
           NEW d \in Elements(spec.devices), d.node = spec.nodes[i].id,
           NEW l \in Elements(spec.links), l.device = d.id
    PROVE  NodeLinks(spec)[i] = [rate |-> l.rate, latency |-> l.latency]
  <1> DEFINE device == CHOOSE e \in Elements(spec.devices) : e.node = spec.nodes[i].id
             link == CHOOSE x \in Elements(spec.links) : x.device = device.id
  <1>1. device \in Elements(spec.devices) /\ device.node = spec.nodes[i].id
    OBVIOUS
  <1>2. device = d
    BY <1>1, Named
  <1>3. link \in Elements(spec.links) /\ link.device = d.id
    BY <1>2
  <1>4. link.rate = l.rate /\ link.latency = l.latency
    BY <1>3, StarLink
  <1>5. NodeLinks(spec)[i] = [rate |-> link.rate, latency |-> link.latency]
    BY DEF NodeLinks
  <1> QED BY <1>4, <1>5

\* A resize keeps the settings of every host that stays; a new one gets the first's.
LEMMA SettingsKept ==
    ASSUME NEW spec \in Topologies, NEW count, Resizable(spec, count), Canonical(spec), NEW i \in 1 .. count
    PROVE  Resized(spec, count).nodes[i].setting
             = spec.nodes[IF i <= Len(spec.nodes) THEN i ELSE 1].setting
  <1>0. Compiles(spec) /\ Hosts(spec) = 1 .. Len(spec.nodes) /\ Len(spec.nodes) \in Nat /\ count \in Nat
    BY Named, MaxHostsAssumption DEF Resizable
  <1>1. PICK new : new = Resized(spec, count)
    OBVIOUS
  <1>2. NodesBy(spec, count, new)
    BY <1>1, ResizedParts
  <1>3. PICK n : NodeFrom(spec, i, n) /\ new.nodes[i].setting = n.setting
    BY <1>2 DEF NodesBy
  <1>4. \A j \in Hosts(spec) : spec.nodes[j].id = j
    BY DEF Canonical
  <1>5. PICK j \in Hosts(spec) : n = spec.nodes[j]
    BY <1>3 DEF NodeFrom, Elements, Hosts
  <1>6. CASE i <= Len(spec.nodes)
    <2>1. i \in Hosts(spec)
      BY <1>0, <1>6
    <2>2. spec.nodes[i] \in Elements(spec.nodes) /\ spec.nodes[i].id = i
      BY <2>1, <1>4 DEF Elements, Hosts
    <2>3. n.id = i
      BY <1>3, <2>2 DEF NodeFrom
    <2>4. j = i
      BY <1>4, <1>5, <2>3
    <2> QED BY <1>1, <1>3, <1>5, <1>6, <2>4
  <1>7. CASE ~(i <= Len(spec.nodes))
    <2>1. ~\E x \in Elements(spec.nodes) : x.id = i
      BY <1>0, <1>4, <1>7 DEF Elements, Hosts
    <2>2. n = spec.nodes[1]
      BY <1>3, <2>1 DEF NodeFrom
    <2> QED BY <1>1, <1>3, <1>7, <2>2
  <1> QED BY <1>6, <1>7

\* A resize keeps the link of every host that stays.
LEMMA LinksKept ==
    ASSUME NEW spec \in Topologies, NEW count, Resizable(spec, count), Canonical(spec),
           NEW i \in 1 .. count, i <= Len(spec.nodes), Compiles(Resized(spec, count))
    PROVE  NodeLinks(Resized(spec, count))[i] = NodeLinks(spec)[i]
  <1>0. /\ Compiles(spec) /\ spec.switch # None
        /\ Hosts(spec) = 1 .. Len(spec.nodes) /\ Len(spec.nodes) \in Nat /\ count \in Nat
    BY Named, MaxHostsAssumption DEF Resizable
  <1>1. PICK new : new = Resized(spec, count)
    OBVIOUS
  <1>2. PICK p \in Nat \ {0} : p = Ports(spec)
    BY ResizedParts
  <1>3. /\ new \in Topologies /\ new.switch = spec.switch
        /\ DOMAIN new.nodes = 1 .. count /\ DOMAIN new.devices = 1 .. count /\ DOMAIN new.links = 1 .. count * p
        /\ NodesBy(spec, count, new) /\ DevicesBy(spec, count, new) /\ LinksBy(spec, count, p, new)
    BY <1>1, <1>2, ResizedParts
  <1>4. i \in Hosts(spec) /\ i \in Hosts(new)
    BY <1>0, <1>3 DEF Hosts
  <1>5. PICK d \in Elements(spec.devices) : d.id = i /\ d.node = i
    BY <1>4 DEF Canonical
  <1>6. spec.nodes[i].id = i
    BY <1>4 DEF Canonical
  <1>7. 0 \in 0 .. Ports(spec) - 1
    BY <1>2
  <1>8. PICK x \in Elements(spec.links) : x.device = i /\ x.port = 0
    BY <1>0, <1>5, <1>7, EveryPortLinked
  <1>9. NodeLinks(spec)[i] = [rate |-> x.rate, latency |-> x.latency]
    BY <1>0, <1>4, <1>5, <1>6, <1>8, LinkOfHost
  <1>10. PICK c \in 1 .. count * p : c - 1 = (i - 1) * p + 0
    <2>1. 0 \in 0 .. p - 1
      OBVIOUS
    <2>2. (i - 1) * p + 0 \in 0 .. count * p - 1 /\ count * p \in Nat
      BY <1>0, <2>1, Cell
    <2>3. PICK v \in Nat, N \in Nat : v = (i - 1) * p + 0 /\ N = count * p
      BY <2>2
    <2>4. v \in 0 .. N - 1
      BY <2>2, <2>3
    <2>5. v + 1 \in 1 .. N /\ (v + 1) - 1 = v
      BY <2>4
    <2> QED BY <2>3, <2>5
  <1>11. PICK k \in 1 .. count, q \in 0 .. p - 1 : \E l :
             /\ LinkFrom(spec, k, q, l) /\ c - 1 = (k - 1) * p + q /\ new.links[c].device = k
             /\ new.links[c].rate = l.rate /\ new.links[c].latency = l.latency
    BY <1>3 DEF LinksBy
  <1>12. k = i /\ q = 0
    <2>1. PICK a \in Nat, b \in Nat : a = i - 1 /\ b = k - 1
      BY <1>0
    <2>2. a * p + 0 = b * p + q
      BY <1>10, <1>11, <2>1
    <2>3. 0 \in 0 .. p - 1
      OBVIOUS
    <2>4. a = b /\ 0 = q
      BY <2>2, <2>3, DivUnique
    <2> QED BY <2>1, <2>4, <1>0
  <1>13. PICK l : /\ LinkFrom(spec, i, 0, l) /\ new.links[c].device = i
                  /\ new.links[c].rate = l.rate /\ new.links[c].latency = l.latency
    BY <1>11, <1>12
  <1>14. l \in Elements(spec.links) /\ l.device = i
    BY <1>8, <1>13 DEF LinkFrom
  <1>15. l.rate = x.rate /\ l.latency = x.latency
    BY <1>0, <1>8, <1>14, StarLink
  <1>16. new.links[c] \in Elements(new.links) /\ new.devices[i] \in Elements(new.devices)
    BY <1>3 DEF Elements
  <1>17. new.nodes[i].id = i /\ new.devices[i].id = i /\ new.devices[i].node = i
    BY <1>3 DEF NodesBy, DevicesBy
  <1>18. NodeLinks(new)[i] = [rate |-> new.links[c].rate, latency |-> new.links[c].latency]
    <2>1. PICK d2 \in Elements(new.devices), l2 \in Elements(new.links) :
              d2 = new.devices[i] /\ l2 = new.links[c]
      BY <1>16
    <2>2. d2.node = new.nodes[i].id /\ l2.device = d2.id
      BY <1>13, <1>17, <2>1
    <2>3. Compiles(new) /\ new.switch # None
      BY <1>0, <1>1, <1>3
    <2>4. NodeLinks(new)[i] = [rate |-> l2.rate, latency |-> l2.latency]
      BY <1>3, <1>4, <2>2, <2>3, LinkOfHost
    <2> QED BY <2>1, <2>4
  <1> QED BY <1>1, <1>9, <1>13, <1>15, <1>18

----------------------------------------------------------------------------
(* The tasks *)

\* A task file is a topology.
StoreInv == store \in [TaskIds -> Topologies \cup {NoSpec}] /\ TasksCompile

\* A recipe file is what a client submitted.
RecipeInv == recipe \in [TaskIds -> Recipes \cup {NoRecipe}]

\* An existing task.
LEMMA TaskIn ==
    ASSUME StoreInv, NEW t \in TaskIds, Exists(t)
    PROVE  store[t] \in Topologies /\ Compiles(store[t])
  BY DEF StoreInv, TasksCompile, Exists

\* A request that writes a topology that compiles to one task.
LEMMA StoreWrite ==
    ASSUME StoreInv, NEW t \in TaskIds, NEW spec \in Topologies, Compiles(spec),
           store' = [store EXCEPT ![t] = spec]
    PROVE  StoreInv'
  <1>1. store' \in [TaskIds -> Topologies \cup {NoSpec}]
    BY DEF StoreInv
  <1>2. \A u \in TaskIds : store'[u] # NoSpec => Compiles(store'[u])
    BY DEF StoreInv, TasksCompile, Exists
  <1> QED BY <1>1, <1>2 DEF StoreInv, TasksCompile, Exists

\* Task files keep compiling in every step.
LEMMA StoreStep ==
    ASSUME StoreInv, [Next]_vars
    PROVE  StoreInv'
  <1>1. ASSUME NEW t \in TaskIds, NEW spec \in Templates, NEW k \in 2 .. MaxHosts, CreateTask(t, spec, k)
        PROVE  StoreInv'
    <2>1. spec \in Topologies /\ Resizable(spec, k) /\ Compiles(Resized(spec, k))
      BY <1>1, TopologiesAssumption DEF CreateTask
    <2>2. Resized(spec, k) \in Topologies
      BY <2>1, ResizedParts
    <2> QED BY <1>1, <2>1, <2>2, StoreWrite DEF CreateTask
  <1>2. ASSUME NEW t \in TaskIds, Exists(t), NEW spec \in Submitted(store[t]), SaveTask(t, spec)
        PROVE  StoreInv'
    <2>0. store[t] \in Topologies
      BY <1>2, TaskIn
    <2>1. spec \in Topologies
      <3>1. CASE spec \in Edited(store[t])
        BY <2>0, <3>1, EditedType
      <3>2. CASE spec \in Imports
        BY <3>2, TopologiesAssumption
      <3>3. ASSUME NEW k, Resizable(store[t], k), spec = Resized(store[t], k) PROVE spec \in Topologies
        BY <2>0, <3>3, ResizedParts
      <3> QED BY <3>1, <3>2, <3>3 DEF Submitted
    <2>2. Compiles(spec) /\ store' = [store EXCEPT ![t] = spec]
      BY <1>2 DEF SaveTask, Accepts
    <2> QED BY <2>1, <2>2, StoreWrite
  <1>3. ASSUME NEW t \in TaskIds, NEW u \in TaskIds, CopyTask(t, u)
        PROVE  StoreInv'
    <2>1. store[t] \in Topologies /\ Compiles(store[t]) /\ store' = [store EXCEPT ![u] = store[t]]
      BY <1>3, TaskIn DEF CopyTask
    <2> QED BY <2>1, StoreWrite
  <1>4. ASSUME UNCHANGED store PROVE StoreInv'
    BY <1>4 DEF StoreInv, TasksCompile, Exists
  <1>5. CASE UNCHANGED vars
    BY <1>4, <1>5 DEF vars
  <1>6. ASSUME NEW t \in TaskIds, NEW r \in Recipes, PutRecipe(t, r) PROVE StoreInv'
    BY <1>4, <1>6 DEF PutRecipe
  <1>7. ASSUME NEW t \in TaskIds, RunExperiment(t) \/ StartRun(t) PROVE StoreInv'
    BY <1>4, <1>7 DEF RunExperiment, StartRun
  <1>8. CASE Checkpoint \/ StopRun
    BY <1>4, <1>8 DEF Checkpoint, StopRun
  <1>9. ASSUME NEW p \in ImagePaths, Rebuild(p) PROVE StoreInv'
    BY <1>4, <1>9 DEF Rebuild
  <1> QED BY <1>1, <1>2, <1>3, <1>5, <1>6, <1>7, <1>8, <1>9 DEF Next

\* Recipe files hold recipes that were submitted.
LEMMA RecipeStep ==
    ASSUME RecipeInv, [Next]_vars
    PROVE  RecipeInv'
  <1> USE DEF RecipeInv
  <1>1. ASSUME NEW t \in TaskIds, NEW r \in Recipes, PutRecipe(t, r) PROVE RecipeInv'
    BY <1>1 DEF PutRecipe
  <1>2. ASSUME NEW t \in TaskIds, NEW u \in TaskIds, CopyTask(t, u) PROVE RecipeInv'
    BY <1>2 DEF CopyTask
  <1>3. CASE UNCHANGED recipe
    BY <1>3
  <1>4. ASSUME NEW t \in TaskIds, NEW spec, NEW k, CreateTask(t, spec, k) \/ SaveTask(t, spec) PROVE UNCHANGED recipe
    BY <1>4 DEF CreateTask, SaveTask
  <1>5. ASSUME NEW t \in TaskIds, RunExperiment(t) \/ StartRun(t) PROVE UNCHANGED recipe
    BY <1>5 DEF RunExperiment, StartRun
  <1>6. ASSUME NEW p, Checkpoint \/ StopRun \/ Rebuild(p) PROVE UNCHANGED recipe
    BY <1>6 DEF Checkpoint, StopRun, Rebuild
  <1>7. UNCHANGED vars => UNCHANGED recipe
    BY DEF vars
  <1> QED BY <1>1, <1>2, <1>3, <1>4, <1>5, <1>6, <1>7 DEF Next

\* Every task file holds a topology that compile_topology accepts, whatever was created, copied,
\* resized or submitted, for any templates, imports and number of hosts.
THEOREM TasksAccepted == Spec => []TasksCompile
  <1>1. Init => StoreInv
    BY DEF Init, StoreInv, TasksCompile, Exists
  <1>2. StoreInv /\ [Next]_vars => StoreInv'
    BY StoreStep
  <1>3. StoreInv => TasksCompile
    BY DEF StoreInv
  <1> QED BY <1>1, <1>2, <1>3, PTL DEF Spec

\* _resize_single_leaf keeps "parameters on existing hosts and links" of every task, and gives it
\* a topology that compiles, for any number of hosts, ports and links.
THEOREM ParametersKept == Spec => []ResizeKeepsParameters
  <1>1. Init => StoreInv
    BY DEF Init, StoreInv, TasksCompile, Exists
  <1>2. StoreInv /\ [Next]_vars => StoreInv'
    BY StoreStep
  <1>3. StoreInv => ResizeKeepsParameters
    <2> SUFFICES ASSUME StoreInv, NEW t \in TaskIds, NEW k \in 2 .. MaxHosts,
                        Exists(t), Resizable(store[t], k), Canonical(store[t]),
                        NEW old, old = store[t], NEW new, new = Resized(old, k)
                 PROVE  /\ new.switch \notin 1 .. k => Compiles(new)
                        /\ \A i \in 1 .. k :
                             LET j == IF i <= Len(old.nodes) THEN i ELSE 1
                             IN /\ new.nodes[i].setting = old.nodes[j].setting
                                /\ i <= Len(old.nodes) /\ Compiles(new) => NodeLinks(new)[i] = NodeLinks(old)[i]
      BY DEF ResizeKeepsParameters
    <2>1. old \in Topologies /\ Resizable(old, k) /\ Canonical(old)
      BY TaskIn
    <2>2. new.switch = old.switch
      BY <2>1, ResizedParts
    <2>3. new.switch \notin 1 .. k => Compiles(new)
      BY <2>1, <2>2, ResizedCompiles
    <2>4. ASSUME NEW i \in 1 .. k
          PROVE  /\ new.nodes[i].setting = old.nodes[IF i <= Len(old.nodes) THEN i ELSE 1].setting
                 /\ i <= Len(old.nodes) /\ Compiles(new) => NodeLinks(new)[i] = NodeLinks(old)[i]
      BY <2>1, SettingsKept, LinksKept
    <2> QED BY <2>3, <2>4
  <1> QED BY <1>1, <1>2, <1>3, PTL DEF Spec

----------------------------------------------------------------------------
(* Experiments *)

\* The smaller of two numbers.
LEMMA MinOfTwo ==
    ASSUME NEW a \in Nat, NEW b \in Nat
    PROVE  Min({a, b}) \in {a, b} /\ Min({a, b}) \in Nat
  <1>1. \E x \in {a, b} : \A y \in {a, b} : x <= y
    <2>1. CASE a <= b
      BY <2>1
    <2>2. CASE b <= a
      BY <2>2
    <2> QED BY <2>1, <2>2
  <1>2. Min({a, b}) \in {a, b}
    BY <1>1 DEF Min
  <1> QED BY <1>2

\* The smallest number of Jettys of devices that all have the same.
LEMMA MinJettys ==
    ASSUME NEW spec \in Topologies, Compiles(spec), NEW d \in Elements(spec.devices)
    PROVE  /\ Min({DeviceJettys(e) : e \in Elements(spec.devices)}) = DeviceJettys(d)
           /\ DeviceJettys(d) \in Nat
  <1>1. \A e \in Elements(spec.devices) : e.jettys = spec.devices[1].jettys
    BY DEF Compiles, DevicesCompile
  <1>2. \A e \in Elements(spec.devices) : DeviceJettys(e) = DeviceJettys(d)
    BY <1>1 DEF DeviceJettys
  <1>3. d.jettys \in Nat
    <2>1. d \in Device
      BY Parts, SeqParts
    <2> QED BY <2>1 DEF Device
  <1>4. PICK x \in Nat : x = DeviceJettys(d)
    BY <1>3 DEF DeviceJettys
  <1>5. {DeviceJettys(e) : e \in Elements(spec.devices)} = {x}
    BY <1>2, <1>4
  <1>6. Min({x}) = x
    BY DEF Min
  <1> QED BY <1>4, <1>5, <1>6

\* What validate_recipe accepts fits the devices.
LEMMA RecipeFits ==
    ASSUME NEW spec \in Topologies, NEW r \in Recipes \cup {DefaultRecipe}, ValidRecipe(r, spec)
    PROVE  /\ Len(spec.nodes) = 2
           /\ \A j \in r.jettys :
                /\ \A d \in Elements(spec.devices) : j <= DeviceJettys(d)
                /\ j * (r.total \div j) = r.total
                /\ j * Min({r.depth, r.total \div j}) <= r.jfc
  <1>1. Compiles(spec) /\ Len(spec.nodes) = 2
    BY DEF ValidRecipe
  <1>2. ASSUME NEW j \in r.jettys
        PROVE  /\ \A d \in Elements(spec.devices) : j <= DeviceJettys(d)
               /\ j * (r.total \div j) = r.total
               /\ j * Min({r.depth, r.total \div j}) <= r.jfc
    <2>1. j \in 1 .. Min({DeviceJettys(d) : d \in Elements(spec.devices)})
      BY DEF ValidRecipe
    <2>2. r.total % j = 0 /\ r.jfc >= j * Min({r.depth, r.total \div j})
      BY DEF ValidRecipe
    <2>3. PICK total \in Nat, depth \in Nat, jfc \in Nat : total = r.total /\ depth = r.depth /\ jfc = r.jfc
      BY RecipesAssumption
    <2>4. spec.devices[1] \in Elements(spec.devices)
      BY <1>1, CompiledParts
    <2>5. j \in Nat \ {0}
      BY <1>1, <2>1, <2>4, MinJettys
    <2>6. \A d \in Elements(spec.devices) : j <= DeviceJettys(d)
      BY <1>1, <2>1, MinJettys
    <2>7. PICK w \in Nat : w = total \div j /\ total = w * j
      <3>1. total \div j \in Nat /\ total = (total \div j) * j + (total % j)
        BY <2>5, DivMod
      <3>2. PICK w \in Nat : w = total \div j
        BY <3>1
      <3>3. total = w * j + 0
        BY <2>2, <2>3, <3>1, <3>2
      <3>4. total = w * j
        BY <3>3, <2>5
      <3> QED BY <3>2, <3>4
    <2>8. j * w = total
      BY <2>5, <2>7
    <2>9. PICK m \in Nat : m = Min({depth, w})
      BY MinOfTwo
    <2>10. jfc >= j * m
      BY <2>2, <2>3, <2>7, <2>9
    <2>11. j * m <= jfc
      BY <2>5, <2>10
    <2> QED BY <2>3, <2>6, <2>7, <2>8, <2>9, <2>11
  <1> QED BY <1>1, <1>2

\* Experiments keep fitting in every step.
LEMMA ExperimentStep ==
    ASSUME StoreInv, RecipeInv, ExperimentFits, [Next]_vars
    PROVE  ExperimentFits'
  <1>1. ASSUME NEW t \in TaskIds, RunExperiment(t) PROVE ExperimentFits'
    <2>1. PICK r : /\ r = IF recipe[t] = NoRecipe THEN DefaultRecipe ELSE recipe[t]
                   /\ Readable(t, r) /\ experiment' = [spec |-> store[t], recipe |-> r]
      BY <1>1 DEF RunExperiment
    <2>2. r \in Recipes \cup {DefaultRecipe}
      BY <2>1 DEF RecipeInv
    <2>3. store[t] \in Topologies /\ ValidRecipe(r, store[t])
      BY <1>1, <2>1, TaskIn DEF RunExperiment, Readable
    <2>4. experiment'.spec = store[t] /\ experiment'.recipe = r
      BY <2>1
    <2> QED BY <2>2, <2>3, <2>4, RecipeFits DEF ExperimentFits
  <1>2. ASSUME experiment' = NoRun PROVE ExperimentFits'
    BY <1>2 DEF ExperimentFits
  <1>3. ASSUME UNCHANGED experiment PROVE ExperimentFits'
    BY <1>3 DEF ExperimentFits
  <1>4. ASSUME NEW t, NEW u, NEW spec, NEW k, NEW r,
               CreateTask(t, spec, k) \/ SaveTask(t, spec) \/ PutRecipe(t, r) \/ CopyTask(t, u) \/ StartRun(t)
        PROVE  UNCHANGED experiment
    BY <1>4 DEF CreateTask, SaveTask, PutRecipe, CopyTask, StartRun
  <1>5. ASSUME NEW p, Rebuild(p) PROVE UNCHANGED experiment
    BY <1>5 DEF Rebuild
  <1>6. Checkpoint \/ StopRun => experiment' = NoRun
    BY DEF Checkpoint, StopRun
  <1>7. UNCHANGED vars => UNCHANGED experiment
    BY DEF vars
  <1> QED BY <1>1, <1>2, <1>3, <1>4, <1>5, <1>6, <1>7 DEF Next

\* An experiment fits the Jettys and the completion queues of the machine it runs on, although its
\* recipe was saved for an earlier topology of the task, for any recipes and topologies.
THEOREM ExperimentsFit == Spec => []ExperimentFits
  <1> DEFINE I == StoreInv /\ RecipeInv /\ ExperimentFits
  <1>1. Init => I
    BY DEF Init, StoreInv, RecipeInv, ExperimentFits, TasksCompile, Exists
  <1>2. I /\ [Next]_vars => I'
    BY StoreStep, RecipeStep, ExperimentStep
  <1> QED BY <1>1, <1>2, PTL DEF Spec

----------------------------------------------------------------------------
(* Checkpoints *)

\* A set of numbers up to n has a largest element.
LEMMA Largest ==
    ASSUME NEW n \in Nat, NEW S \in SUBSET (0 .. n), NEW x \in S
    PROVE  \E m \in S : \A y \in S : y <= m
  <1> DEFINE T == {n - y : y \in S}
  <1>1. T \subseteq Nat /\ n - x \in T
    OBVIOUS
  <1>2. PICK t \in T : \A u \in T : ~(<<u, t>> \in OpToRel(<, Nat))
    BY <1>1, NatLessThanWellFounded, WFMin
  <1>3. \A u \in T : ~(u < t)
    BY <1>1, <1>2 DEF OpToRel
  <1>4. PICK m \in S : t = n - m
    BY <1>2
  <1>5. \A y \in S : y <= m
    <2> SUFFICES ASSUME NEW y \in S PROVE y <= m
      OBVIOUS
    <2>1. n - y \in T
      OBVIOUS
    <2>2. ~(n - y < n - m)
      BY <2>1, <1>3, <1>4
    <2> QED BY <2>2
  <1> QED BY <1>4, <1>5

\* The newest checkpoint of a set is one of it.
LEMMA NewestIn ==
    ASSUME NEW cs, cs # {}, \A c \in cs : c.created \in 0 .. MaxCheckpoints
    PROVE  Newest(cs) \in cs
  <1> DEFINE S == {c.created : c \in cs}
  <1>1. S \in SUBSET (0 .. MaxCheckpoints) /\ MaxCheckpoints \in Nat
    BY CheckpointsAssumption
  <1>2. PICK x : x \in S
    OBVIOUS
  <1>3. PICK m \in S : \A y \in S : y <= m
    <2> HIDE DEF S
    <2> QED BY <1>1, <1>2, Largest
  <1>4. \E c \in cs : \A d \in cs : d.created <= c.created
    BY <1>3
  <1> QED BY <1>4 DEF Newest

\* The links of a plan, host by host.
LEMMA LinksForm ==
    ASSUME NEW spec \in Topologies, Compiles(spec)
    PROVE  NodeLinks(spec) = [i \in 1 .. Len(spec.nodes) |-> NodeLinks(spec)[i]]
  <1>1. CASE spec.switch = None
    <2>1. Len(spec.nodes) = 2
      BY <1>1 DEF Compiles, DirectCompiles
    <2>2. PICK a, b : NodeLinks(spec) = <<a, b>>
      BY <1>1 DEF NodeLinks
    <2> QED BY <2>1, <2>2
  <1>2. CASE spec.switch # None
    <2>1. Hosts(spec) = 1 .. Len(spec.nodes)
      BY Named
    <2> QED BY <1>2, <2>1 DEF NodeLinks
  <1> QED BY <1>1, <1>2

\* The guest of a run: the machine its topology describes, and of a modern one also the image.
Holds(g, spec, version) ==
    /\ g = [image |-> g.image, profile |-> spec.nodes[1].setting, memory |-> Resolve(spec).memory_size,
            ports |-> Ports(spec), jettys |-> PlanJettys(spec), lifecycle |-> spec.sync = "required",
            hosts |-> Len(spec.nodes), links |-> NodeLinks(spec)]
    /\ spec.nodes[1].setting = "modern" => g.image = version

\* A guest that holds what its topology describes is the guest RunsDescribedGuest asks for.
LEMMA HeldGuest ==
    ASSUME NEW spec, NEW version, NEW g, Holds(g, spec, version)
    PROVE  LET h == GuestOf(spec, version)
           IN IF h.profile = "modern" THEN g = h ELSE [g EXCEPT !.image = 0] = [h EXCEPT !.image = 0]
  BY DEF Holds, GuestOf

\* Entries of a manifest that match.
LEMMA ManifestMatch ==
    ASSUME NEW c, NEW spec, MatchingManifest(c, Resolve(spec))
    PROVE  /\ c.manifest.profile = spec.nodes[1].setting
           /\ c.manifest.memory_size = Resolve(spec).memory_size
           /\ c.manifest.ub_port_count = Ports(spec)
           /\ Entry(c, "max_jettys") = PlanJettys(spec)
           /\ c.manifest.lifecycle = (spec.sync = "required")
           /\ ~c.template => c.manifest.node_count = Len(spec.nodes) /\ SameLinks(c, Resolve(spec))
  <1>1. \A key \in {"profile", "memory_size", "peer_latency_ns", "peer_link_rate_gbps",
                    "ub_port_count", "max_jettys", "lifecycle"} : Entry(c, key) = Resolve(spec)[key]
    BY DEF MatchingManifest
  <1>2. Entry(c, "profile") = Resolve(spec)["profile"] /\ Entry(c, "memory_size") = Resolve(spec)["memory_size"]
    BY <1>1
  <1>3. /\ Entry(c, "ub_port_count") = Resolve(spec)["ub_port_count"]
        /\ Entry(c, "max_jettys") = Resolve(spec)["max_jettys"]
        /\ Entry(c, "lifecycle") = Resolve(spec)["lifecycle"]
    BY <1>1
  <1>4. /\ Entry(c, "profile") = c.manifest.profile /\ Entry(c, "memory_size") = c.manifest.memory_size
        /\ Entry(c, "ub_port_count") = c.manifest.ub_port_count /\ Entry(c, "lifecycle") = c.manifest.lifecycle
    BY DEF Entry
  <1>5. /\ Resolve(spec)["profile"] = spec.nodes[1].setting
        /\ Resolve(spec)["ub_port_count"] = Ports(spec) /\ Resolve(spec)["max_jettys"] = PlanJettys(spec)
        /\ Resolve(spec)["lifecycle"] = (spec.sync = "required") /\ Resolve(spec).node_count = Len(spec.nodes)
        /\ Resolve(spec)["memory_size"] = Resolve(spec).memory_size
    BY DEF Resolve
  <1>6. ~c.template => c.manifest.node_count = Resolve(spec).node_count /\ SameLinks(c, Resolve(spec))
    BY DEF MatchingManifest
  <1> QED BY <1>2, <1>3, <1>4, <1>5, <1>6

\* A checkpoint that _select_compatible_checkpoint accepts restores the guest asked for.
LEMMA CompatibleHolds ==
    ASSUME NEW spec \in Topologies, Compiles(spec), NEW version \in Nat \ {0}, NEW c, Described(c),
           MatchingManifest(c, Resolve(spec)), MatchingImage(c, Resolve(spec), version),
           NEW g, g = IF c.template THEN [c.guest EXCEPT !.hosts = Len(spec.nodes), !.links = NodeLinks(spec)]
                      ELSE c.guest
    PROVE  Holds(g, spec, version)
  <1> DEFINE o == c.guest
  <1>1. /\ c.manifest.profile = spec.nodes[1].setting
        /\ c.manifest.memory_size = Resolve(spec).memory_size
        /\ c.manifest.ub_port_count = Ports(spec)
        /\ Entry(c, "max_jettys") = PlanJettys(spec)
        /\ c.manifest.lifecycle = (spec.sync = "required")
        /\ ~c.template => c.manifest.node_count = Len(spec.nodes) /\ SameLinks(c, Resolve(spec))
    BY ManifestMatch
  <1>2. /\ o = [image |-> o.image, profile |-> o.profile, memory |-> o.memory, ports |-> o.ports,
                jettys |-> o.jettys, lifecycle |-> o.lifecycle, hosts |-> o.hosts, links |-> o.links]
        /\ o.profile = c.manifest.profile /\ o.memory = c.manifest.memory_size
        /\ o.ports = c.manifest.ub_port_count
        /\ o.jettys = Entry(c, "max_jettys") /\ o.lifecycle = c.manifest.lifecycle
        /\ ~c.template => /\ o.hosts = c.manifest.node_count
                          /\ o.links = [i \in 1 .. c.manifest.node_count |-> LinkEntry(c, i)]
        /\ c.manifest.profile = "modern" /\ c.hash # None => o.image = c.hash
    BY DEF Described
  <1>3. spec.nodes[1].setting = "modern" => o.image = version
    <2>1. SUFFICES ASSUME spec.nodes[1].setting = "modern" PROVE o.image = version
      OBVIOUS
    <2>2. Resolve(spec).profile = "modern"
      BY <2>1 DEF Resolve
    <2>3. c.hash = version
      BY <2>2 DEF MatchingImage
    <2> QED BY <1>1, <1>2, <2>1, <2>3 DEF None
  <1>4. CASE c.template
    <2>1. g = [o EXCEPT !.hosts = Len(spec.nodes), !.links = NodeLinks(spec)]
      BY <1>4
    <2>2. g = [image |-> o.image, profile |-> o.profile, memory |-> o.memory, ports |-> o.ports,
               jettys |-> o.jettys, lifecycle |-> o.lifecycle, hosts |-> Len(spec.nodes), links |-> NodeLinks(spec)]
      BY <1>2, <2>1
    <2>3. g.image = o.image
      BY <2>2
    <2> QED BY <1>1, <1>2, <1>3, <2>2, <2>3 DEF Holds
  <1>5. CASE ~c.template
    <2>1. Resolve(spec).node_links = NodeLinks(spec)
      BY DEF Resolve
    <2>2. \A i \in DOMAIN NodeLinks(spec) : LinkEntry(c, i) = NodeLinks(spec)[i]
      BY <1>1, <1>5, <2>1 DEF SameLinks
    <2>3. DOMAIN NodeLinks(spec) = 1 .. Len(spec.nodes)
      BY LinksForm
    <2>4. [i \in 1 .. Len(spec.nodes) |-> LinkEntry(c, i)] = [i \in 1 .. Len(spec.nodes) |-> NodeLinks(spec)[i]]
      BY <2>2, <2>3
    <2>5. o.links = NodeLinks(spec) /\ o.hosts = Len(spec.nodes)
      BY <1>1, <1>2, <1>5, <2>4, LinksForm
    <2>6. g = o
      BY <1>5
    <2> QED BY <1>1, <1>2, <1>3, <2>5, <2>6 DEF Holds
  <1> QED BY <1>4, <1>5

\* What checkpoints and the run hold.
GuestInv ==
    /\ image \in [ImagePaths -> Nat \ {0}]
    /\ IsFiniteSet(checkpoints)
    /\ \A c \in checkpoints : Described(c) /\ c.created \in 0 .. MaxCheckpoints
    /\ run # NoRun => /\ run.spec \in Topologies /\ Compiles(run.spec)
                      /\ run.version = image[ImagePath(run.spec)]
                      /\ Holds(run.guest, run.spec, run.version)

\* A topology boots one of the images.
LEMMA ImageIn ==
    ASSUME NEW spec
    PROVE  ImagePath(spec) \in ImagePaths
  BY DEF ImagePath, ImagePaths

\* The plan of a topology limits its Jettys.
LEMMA JettysPlanned ==
    ASSUME NEW spec
    PROVE  PlanJettys(spec) # None
  BY DEF PlanJettys, None, UnspecifiedJettys

\* start_gem5 boots or restores the guest its topology describes.
LEMMA StartStep ==
    ASSUME StoreInv, GuestInv, NEW t \in TaskIds, StartRun(t)
    PROVE  GuestInv'
  <1>1. PICK spec : spec = store[t]
    OBVIOUS
  <1>2. spec \in Topologies /\ Compiles(spec)
    BY <1>1, TaskIn DEF StartRun
  <1>3. PICK version \in Nat \ {0} : version = image[ImagePath(spec)]
    BY ImageIn DEF GuestInv
  <1>4. PICK found : found = IF spec.checkpoint = "auto" THEN Compatible(Resolve(spec), version) ELSE {}
    OBVIOUS
  <1>5. PICK cold : cold = GuestOf(spec, version)
    OBVIOUS
  <1>6. PICK c : c = Newest(found)
    OBVIOUS
  <1>7. PICK g : g = IF found = {} THEN cold
                     ELSE IF c.template
                     THEN [c.guest EXCEPT !.hosts = cold.hosts, !.links = cold.links]
                     ELSE c.guest
    OBVIOUS
  <1>8. run' = [on |-> TRUE, task |-> t, spec |-> spec, version |-> version, guest |-> g]
    BY <1>1, <1>3, <1>4, <1>5, <1>6, <1>7 DEF StartRun
  <1>9. Holds(g, spec, version)
    <2>1. CASE found = {}
      BY <1>5, <1>7, <2>1 DEF Holds, GuestOf
    <2>2. CASE found # {}
      <3>1. \A d \in found : /\ d \in checkpoints
                             /\ MatchingManifest(d, Resolve(spec)) /\ MatchingImage(d, Resolve(spec), version)
        BY <1>4 DEF Compatible
      <3>2. \A d \in found : Described(d) /\ d.created \in 0 .. MaxCheckpoints
        BY <3>1 DEF GuestInv
      <3>3. c \in found
        BY <1>6, <2>2, <3>2, NewestIn
      <3>4. cold.hosts = Len(spec.nodes) /\ cold.links = NodeLinks(spec)
        BY <1>5 DEF GuestOf
      <3>5. g = IF c.template THEN [c.guest EXCEPT !.hosts = Len(spec.nodes), !.links = NodeLinks(spec)]
                ELSE c.guest
        BY <1>7, <2>2, <3>4
      <3> QED BY <1>2, <3>1, <3>2, <3>3, <3>5, CompatibleHolds
    <2> QED BY <2>1, <2>2
  <1>10. run'.spec = spec /\ run'.version = version /\ run'.guest = g
    BY <1>8
  <1>11. UNCHANGED <<image, checkpoints>>
    BY DEF StartRun
  <1>12. run'.version = image'[ImagePath(run'.spec)]
    BY <1>3, <1>10, <1>11
  <1>13. run'.spec \in Topologies /\ Compiles(run'.spec) /\ Holds(run'.guest, run'.spec, run'.version)
    BY <1>2, <1>9, <1>10
  <1>14. /\ image' \in [ImagePaths -> Nat \ {0}] /\ IsFiniteSet(checkpoints')
         /\ \A d \in checkpoints' : Described(d) /\ d.created \in 0 .. MaxCheckpoints
    BY <1>11 DEF GuestInv
  <1> QED BY <1>12, <1>13, <1>14 DEF GuestInv

\* checkpoint-dual.sh writes a manifest that describes what it saves.
LEMMA CheckpointStep ==
    ASSUME GuestInv, Checkpoint
    PROVE  GuestInv'
  <1>1. PICK spec : spec = run.spec
    OBVIOUS
  <1>2. PICK n \in Nat : n = Cardinality(checkpoints) /\ n < MaxCheckpoints /\ MaxCheckpoints \in Nat
    BY FS_CardinalityType, CheckpointsAssumption DEF GuestInv, Checkpoint
  <1>3. PICK c : c = [manifest |-> Resolve(spec), template |-> FALSE, complete |-> TRUE,
                      hash |-> image[ImagePath(spec)], created |-> n, guest |-> run.guest]
    OBVIOUS
  <1>4. checkpoints' = checkpoints \cup {c} /\ run' = NoRun /\ UNCHANGED image /\ run # NoRun
    BY <1>1, <1>2, <1>3 DEF Checkpoint
  <1>5. /\ spec \in Topologies /\ Compiles(spec) /\ run.version = image[ImagePath(spec)]
        /\ Holds(run.guest, spec, run.version)
    BY <1>1, <1>4 DEF GuestInv
  <1>6. c.created = n /\ c.manifest = Resolve(spec) /\ c.hash = run.version /\ c.guest = run.guest /\ c.template = FALSE
    BY <1>3, <1>5
  <1>7. Described(c)
    <2>1. PICK g : g = run.guest
      OBVIOUS
    <2>2. PICK m : m = Resolve(spec)
      OBVIOUS
    <2>3. /\ m.profile = spec.nodes[1].setting /\ m.ub_port_count = Ports(spec) /\ m.max_jettys = PlanJettys(spec)
          /\ m.lifecycle = (spec.sync = "required") /\ m.node_count = Len(spec.nodes) /\ m.node_links = NodeLinks(spec)
      BY <2>2 DEF Resolve
    <2>4. Entry(c, "max_jettys") = PlanJettys(spec)
      BY <1>6, <2>2, <2>3, JettysPlanned DEF Entry
    <2>5. /\ g = [image |-> g.image, profile |-> g.profile, memory |-> g.memory, ports |-> g.ports,
                  jettys |-> g.jettys, lifecycle |-> g.lifecycle, hosts |-> g.hosts, links |-> g.links]
          /\ g.profile = spec.nodes[1].setting /\ g.memory = Resolve(spec).memory_size /\ g.ports = Ports(spec)
          /\ g.jettys = PlanJettys(spec) /\ g.lifecycle = (spec.sync = "required")
          /\ g.hosts = Len(spec.nodes) /\ g.links = NodeLinks(spec)
          /\ spec.nodes[1].setting = "modern" => g.image = run.version
      BY <1>5, <2>1 DEF Holds
    <2>6. DOMAIN NodeLinks(spec) = 1 .. Len(spec.nodes)
      BY <1>5, LinksForm
    <2>7. \A i \in 1 .. Len(spec.nodes) : LinkEntry(c, i) = NodeLinks(spec)[i]
      BY <1>6, <2>2, <2>3, <2>6 DEF LinkEntry
    <2>8. g.links = [i \in 1 .. m.node_count |-> LinkEntry(c, i)]
      BY <1>5, <2>3, <2>5, <2>7, LinksForm
    <2> QED BY <1>6, <2>1, <2>2, <2>3, <2>4, <2>5, <2>8 DEF Described
  <1>8. IsFiniteSet(checkpoints')
    BY <1>4, FS_AddElement DEF GuestInv
  <1>9. c.created \in 0 .. MaxCheckpoints
    BY <1>2, <1>6
  <1>10. \A d \in checkpoints' : Described(d) /\ d.created \in 0 .. MaxCheckpoints
    BY <1>4, <1>7, <1>9 DEF GuestInv
  <1> QED BY <1>4, <1>8, <1>10 DEF GuestInv

\* Guests stay described in every step, if images are not rebuilt under a run.
LEMMA GuestStep ==
    ASSUME ~RebuildWhileRunning, StoreInv, GuestInv, [Next]_vars
    PROVE  GuestInv'
  <1>1. ASSUME UNCHANGED <<image, checkpoints, run>> PROVE GuestInv'
    BY <1>1 DEF GuestInv
  <1>2. ASSUME NEW t, NEW u, NEW spec, NEW k, NEW r,
               \/ CreateTask(t, spec, k) \/ SaveTask(t, spec) \/ PutRecipe(t, r) \/ CopyTask(t, u)
               \/ RunExperiment(t)
        PROVE  UNCHANGED <<image, checkpoints, run>>
    BY <1>2 DEF CreateTask, SaveTask, PutRecipe, CopyTask, RunExperiment
  <1>3. ASSUME StopRun PROVE GuestInv'
    BY <1>3 DEF StopRun, GuestInv
  <1>4. ASSUME NEW p \in ImagePaths, Rebuild(p) PROVE GuestInv'
    <2>1. run = NoRun /\ UNCHANGED <<checkpoints, run>> /\ image' = [image EXCEPT ![p] = @ + 1]
      BY <1>4 DEF Rebuild
    <2>2. image' \in [ImagePaths -> Nat \ {0}]
      BY <2>1 DEF GuestInv
    <2> QED BY <2>1, <2>2 DEF GuestInv
  <1>5. UNCHANGED vars => UNCHANGED <<image, checkpoints, run>>
    BY DEF vars
  <1> QED BY <1>1, <1>2, <1>3, <1>4, <1>5, StartStep, CheckpointStep DEF Next

\* A run holds the machine its topology describes, and a modern one the guest image as it was when
\* the run was started, whichever checkpoint was restored: _select_compatible_checkpoint never picks
\* one of another machine or an older image, for any topologies, builds and checkpoints, if no image
\* is rebuilt while a run uses it.
THEOREM GuestDescribed == ~RebuildWhileRunning => (Spec => []RunsDescribedGuest)
  <1> SUFFICES ASSUME ~RebuildWhileRunning PROVE Spec => []RunsDescribedGuest
    OBVIOUS
  <1> DEFINE I == StoreInv /\ GuestInv
  <1>1. Init => I
    <2> SUFFICES ASSUME Init PROVE I
      OBVIOUS
    <2>1. StoreInv
      BY DEF Init, StoreInv, TasksCompile, Exists
    <2>2. GuestInv
      BY CheckpointsAssumption DEF Init, GuestInv
    <2> QED BY <2>1, <2>2
  <1>2. I /\ [Next]_vars => I'
    BY StoreStep, GuestStep
  <1>3. I => RunsDescribedGuest
    <2> SUFFICES ASSUME GuestInv, run # NoRun,
                        NEW g, g = GuestOf(run.spec, run.version)
                 PROVE  IF g.profile = "modern" THEN run.guest = g
                        ELSE [run.guest EXCEPT !.image = 0] = [g EXCEPT !.image = 0]
      BY DEF RunsDescribedGuest
    <2>1. Holds(run.guest, run.spec, run.version)
      BY DEF GuestInv
    <2> QED BY <2>1, HeldGuest
  <1> QED BY <1>1, <1>2, <1>3, PTL DEF Spec

=============================================================================
