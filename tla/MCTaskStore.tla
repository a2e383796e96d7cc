---------------------------- MODULE MCTaskStore ----------------------------
EXTENDS TaskStore

Leaf == 100
Star(sim, settings, memory, ports, jettys, latencies) ==
    [nodes |-> [i \in DOMAIN settings |-> [id |-> i, sim |-> sim, setting |-> settings[i]]],
     devices |-> [i \in DOMAIN settings |->
                    [id |-> i, node |-> i, eid |-> FirstEid + i - 1, ports |-> ports, jettys |-> jettys]],
     switch |-> Leaf,
     links |-> [i \in 1 .. Len(settings) * ports |->
                  LET k == ((i - 1) \div ports) + 1
                  IN [device |-> k, port |-> (i - 1) % ports, to |-> Leaf, toPort |-> i - 1,
                      rate |-> 400, latency |-> latencies[k]]],
     memory |-> memory, sync |-> IF sim = "gem5" THEN "required" ELSE "off",
     checkpoint |-> IF sim = "gem5" THEN "auto" ELSE "none"]

Gem5Star == Star("gem5", <<"modern", "modern">>, 4, 1, 47, <<375, 375>>)
ServerStar == Star("gem5", <<"server", "server">>, 4, 1, UnspecifiedJettys, <<375, 375>>)
QemuStar == Star("qemu", <<"a72", "n1">>, None, 1, UnspecifiedJettys, <<375, 375>>)

\* A direct link, two ports per device, and a topology of two simulators (refused).
Direct == [Gem5Star EXCEPT !.switch = None,
             !.links = <<[device |-> 1, port |-> 0, to |-> 2, toPort |-> 0, rate |-> 400, latency |-> 751]>>]
TwoPorts == Star("qemu", <<"a72", "a72">>, None, 2, 47, <<375, 500>>)
Mixed == [QemuStar EXCEPT !.nodes[2].sim = "gem5"]

MCTemplates == {Gem5Star, QemuStar}
MCImports == {Direct, TwoPorts, Mixed, ServerStar}

Plain == [jettys |-> {1}, latency |-> FALSE, total |-> 16384, depth |-> 8192, jfc |-> 524288, post |-> 256]
Many == [Plain EXCEPT !.jettys = {1, 32}]
Uneven == [Plain EXCEPT !.jettys = {3}]
MCRecipes == {Many, Uneven, [Many EXCEPT !.jfc = 4096]}

\* An old coordinated checkpoint (no per-node links, no Jetty limit, no image hash, format 3)
\* of the server profile, the same taken from a modern machine, and a node template.
OldManifest(profile, jettys) ==
    [profile |-> profile, node_count |-> 2, memory_size |-> 4, peer_latency_ns |-> 375,
     peer_link_rate_gbps |-> 400, ub_port_count |-> 1, max_jettys |-> jettys, lifecycle |-> TRUE,
     udma_state_format |-> 3, node_links |-> <<>>]
OldGuest(profile, jettys, version) ==
    [image |-> version, profile |-> profile, memory |-> 4, ports |-> 1, jettys |-> jettys,
     lifecycle |-> TRUE, hosts |-> 2,
     links |-> [i \in 1 .. 2 |-> [rate |-> 400, latency |-> 375]]]
MCOldCheckpoints ==
    {[manifest |-> OldManifest("server", None), template |-> FALSE, complete |-> TRUE, hash |-> None,
      created |-> 0, guest |-> OldGuest("server", 1152, 0)],
     [manifest |-> OldManifest("modern", 47), template |-> FALSE, complete |-> TRUE, hash |-> None,
      created |-> 0, guest |-> OldGuest("modern", 47, 0)],
     [manifest |-> OldManifest("modern", 47), template |-> TRUE, complete |-> TRUE, hash |-> 1,
      created |-> 1, guest |-> OldGuest("modern", 47, 1)]}
=============================================================================
