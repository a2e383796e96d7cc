--------------------------- MODULE LifecycleFence --------------------------
(***************************************************************************)
(* The lifecycle fence: how the guests of a run enter and leave            *)
(* synchronised simulation, and the CPU model they are measured on.        *)
(*                                                                         *)
(* A guest's pseudo-operation leaves gem5's event loop with a cause, which *)
(* the loop of configs/arm64_fs.py handles.  A fence suspends the guest    *)
(* and sends PREPARE through the host adapter to the node's device         *)
(* process; drained devices forward it to the network process, which sends *)
(* COMMIT when all have.  Devices and adapters toggle as COMMIT passes.    *)
(*                                                                         *)
(* A party's epoch counts its toggles; its clock restarts with each, so a  *)
(* message means nothing to a party of another epoch.  An operation goes   *)
(* from a device through the network to a peer, which accesses its host,   *)
(* and back to be completed in its own host's memory.  A register access   *)
(* of a guest is one step: the adapter does not return before the device   *)
(* has answered.                                                           *)
(***************************************************************************)
EXTENDS Integers, Sequences, FiniteSets

CONSTANTS
    Nodes,
    Sessions,       \* pairs of --auto-o3-lifecycle and the guests' benchmark
    MaxBenchmarks,  \* bound: benchmarks of a session
    MaxPosts        \* bound: operations posted

ASSUME NodesAssumption == Nodes # {}
ASSUME SessionsAssumption ==
    \A s \in Sessions : s.auto \in BOOLEAN /\ s.benchmark \in {"bandwidth", "latency", "plain"}

\* What urma_perftest asks of the simulator.  "work" is set-up and "loop" the measured loop,
\* left early on an error.
Bandwidth == <<"work", "fence", "loop", "fence">>
Latency == <<"work", "fence", "switchcpu", "loop", "switchcpu", "fence">>
Plain == <<"work">>   \* without synchronisation
Benchmark(kind) == CASE kind = "bandwidth" -> Bandwidth [] kind = "latency" -> Latency [] kind = "plain" -> Plain
Checkpointing == <<"checkpoint">>

VARIABLES
    session,    \* how the run was started
    benchmarks, \* benchmarks run so far
    program,    \* what is left of every guest's command
    posts,      \* operations posted so far
    loop,       \* gem5's loop: running, ended, or failed
    cpu,        \* the CPU model switched in
    switched,   \* switched_to_o3
    lifecycle,  \* lifecycle_active of the loop
    adapter,    \* the host adapter's fence
    dma,        \* the host access in progress under timing memory
    device,     \* the device process
    network,    \* the network process
    toDevice, toHost,   \* rings between adapter and device
    toNetwork, fromNetwork  \* rings between device and network

guestVars == <<session, benchmarks, program, posts>>
loopVars == <<loop, cpu, switched, lifecycle>>
hostVars == <<adapter, dma>>
rings == <<toDevice, toHost, toNetwork, fromNetwork>>
vars == <<guestVars, loopVars, hostVars, device, network, rings>>

None == "none"
NoMessage == [type |-> None]

Message(type, epoch, node) == [type |-> type, epoch |-> epoch, node |-> node]
Fence(type, epoch, generation, enabled) ==
    [type |-> type, epoch |-> epoch, generation |-> generation, enabled |-> enabled]

\* SYNC is sent by a side that enters synchronised simulation, at time 0 of its new epoch.
Syncs(enable, epoch) == IF enable THEN <<Message("sync", epoch, None)>> ELSE <<>>

----------------------------------------------------------------------------
(* Guests and gem5's loop *)

Running(n) == loop[n] = "running" /\ ~adapter[n].pending
At(n, step) == Running(n) /\ program[n] # <<>> /\ Head(program[n]) = step
NextStep(n) == program' = [program EXCEPT ![n] = Tail(@)]

\* One command line is given to all guests when they are at their shells: a benchmark,
Command(p) ==
    /\ \A n \in Nodes : Running(n) /\ program[n] = <<>>
    /\ program' = [n \in Nodes |-> p]
    /\ UNCHANGED <<session, posts, loopVars, hostVars, device, network, rings>>

RunBenchmark ==
    /\ benchmarks < MaxBenchmarks
    /\ benchmarks' = benchmarks + 1
    /\ Command(Benchmark(session.benchmark))

\* or ubsim-checkpoint (coordinated_checkpoint.py).
RunCheckpoint == Command(Checkpointing) /\ UNCHANGED benchmarks

\* The guest rings a doorbell and the device issues the operation.
Post(n, target) ==
    /\ At(n, "work") \/ At(n, "loop")
    /\ target # n /\ posts < MaxPosts /\ device[n].op = None
    /\ posts' = posts + 1
    /\ device' = [device EXCEPT ![n].op = "issued", ![n].target = target]
    /\ toNetwork' = [toNetwork EXCEPT ![n] = Append(@, Message("request", device[n].epoch, n))]
    /\ UNCHANGED <<session, benchmarks, program, loopVars, hostVars, network, toDevice, toHost, fromNetwork>>

\* It goes on, whether or not its operations have completed.
GoOn(n) ==
    /\ At(n, "work") \/ At(n, "loop")
    /\ NextStep(n)
    /\ UNCHANGED <<session, benchmarks, posts, loopVars, hostVars, device, network, rings>>

\* m5.switchCpus: only a CPU that is switched in can be switched out.
SwitchCpus(n, from, to) ==
    /\ cpu' = [cpu EXCEPT ![n] = to]
    /\ switched' = [switched EXCEPT ![n] = to = "o3"]
    /\ loop' = [loop EXCEPT ![n] = IF cpu[n] = from THEN @ ELSE "failed"]

MutEntersO3(n) == session.auto /\ lifecycle[n]
EntersO3(n) == session.auto /\ ~lifecycle[n]

MutBegins(a) == [a EXCEPT !.pending = TRUE, !.commit = NoMessage]
Begins(a) == [a EXCEPT !.pending = TRUE, !.commit = NoMessage, !.generation = @ + 1]

\* "ubsim lifecycle sync fence": the loop switches to O3 on entry and calls
\* beginLifecycleSync, which suspends the guest and sends PREPARE.
FenceExit(n) ==
    /\ At(n, "fence")
    /\ IF EntersO3(n) THEN SwitchCpus(n, "boot", "o3") ELSE UNCHANGED <<cpu, switched, loop>>
    /\ LET a == Begins(adapter[n])
       IN /\ adapter' = [adapter EXCEPT ![n] = a]
          /\ toDevice' = [toDevice EXCEPT ![n] = Append(@, Fence("prepare", a.epoch, a.generation, ~a.active))]
    /\ UNCHANGED <<guestVars, lifecycle, dma, device, network, toHost, toNetwork, fromNetwork>>

\* "switchcpu", with --cpu=server_o3
SwitchExit(n) ==
    /\ At(n, "switchcpu")
    /\ IF switched[n] THEN SwitchCpus(n, "o3", "boot") ELSE SwitchCpus(n, "boot", "o3")
    /\ NextStep(n)
    /\ UNCHANGED <<session, benchmarks, posts, lifecycle, hostVars, device, network, rings>>

\* "checkpoint": refused after a switch to O3; otherwise the loop ends after it.
CheckpointExit(n) ==
    /\ At(n, "checkpoint")
    /\ loop' = [loop EXCEPT ![n] = IF switched[n] THEN "failed" ELSE "ended"]
    /\ NextStep(n)
    /\ UNCHANGED <<session, benchmarks, posts, cpu, switched, lifecycle, hostVars, device, network, rings>>

----------------------------------------------------------------------------
(* The host adapter *)

\* serviceDevice stops at a COMMIT: what follows belongs to the new epoch.
HostReads(n) == loop[n] = "running" /\ toHost[n] # <<>> /\ adapter[n].commit = NoMessage

\* A DMA completes at once under atomic memory, which the boot CPU uses.
HostService(n) ==
    /\ HostReads(n)
    /\ toHost' = [toHost EXCEPT ![n] = Tail(@)]
    /\ LET m == Head(toHost[n])
       IN \/ /\ m.type = "dma"
             /\ IF cpu[n] = "boot"
                THEN /\ toDevice' = [toDevice EXCEPT ![n] = Append(@, Message("reply", adapter[n].epoch, n))]
                     /\ UNCHANGED dma
                ELSE dma' = [dma EXCEPT ![n] = @ + 1] /\ UNCHANGED toDevice
             /\ UNCHANGED adapter
          \/ /\ m.type = "commit"
             /\ adapter' = [adapter EXCEPT ![n].commit =
                              IF m.generation = adapter[n].generation THEN m ELSE @]
             /\ UNCHANGED <<dma, toDevice>>
          \/ m.type = "sync" /\ UNCHANGED <<adapter, dma, toDevice>>
    /\ UNCHANGED <<guestVars, loopVars, device, network, toNetwork, fromNetwork>>

\* completeDma
DmaDone(n) ==
    /\ loop[n] = "running" /\ dma[n] > 0
    /\ dma' = [dma EXCEPT ![n] = @ - 1]
    /\ toDevice' = [toDevice EXCEPT ![n] = Append(@, Message("reply", adapter[n].epoch, n))]
    /\ UNCHANGED <<guestVars, loopVars, adapter, device, network, toHost, toNetwork, fromNetwork>>

\* "ubsim lifecycle sync commit": finishLifecycleSync toggles the adapter and wakes the
\* guest; on exit the loop switches back to the boot CPU.
CommitExit(n) ==
    /\ loop[n] = "running" /\ adapter[n].pending /\ adapter[n].commit # NoMessage
    /\ LET enable == ~adapter[n].active
       IN /\ IF adapter[n].commit.enabled # enable \/ dma[n] > 0
             THEN loop' = [loop EXCEPT ![n] = "failed"] /\ UNCHANGED <<cpu, switched>>
             ELSE IF session.auto /\ lifecycle[n] THEN SwitchCpus(n, "o3", "boot")
             ELSE UNCHANGED <<cpu, switched, loop>>
          /\ lifecycle' = [lifecycle EXCEPT ![n] = ~@]
          /\ adapter' = [adapter EXCEPT ![n].pending = FALSE, ![n].active = enable, ![n].epoch = @ + 1,
                                        ![n].commit = NoMessage]
          /\ toDevice' = [toDevice EXCEPT ![n] = @ \o Syncs(enable, adapter[n].epoch + 1)]
    /\ NextStep(n)
    /\ UNCHANGED <<session, benchmarks, posts, dma, device, network, toHost, toNetwork, fromNetwork>>

----------------------------------------------------------------------------
(* Device processes *)

Up(n) == device[n].state = "up"

Quiescent(n) == device[n].op = None /\ device[n].accesses = 0

\* Pieces of work that access the host: the operation's completion and a peer's operation.
Access(n, m) == [toHost EXCEPT ![n] = Append(@, Message("dma", device[n].epoch, m))]

\* HostPort::Poll
DevicePollHost(n) ==
    /\ Up(n) /\ toDevice[n] # <<>>
    /\ toDevice' = [toDevice EXCEPT ![n] = Tail(@)]
    /\ LET m == Head(toDevice[n])
           d == device[n]
           source == Head(d.serving)
       IN \/ /\ m.type = "prepare"
             /\ device' = [device EXCEPT ![n] =
                  IF d.prepare # NoMessage \/ m.generation <= d.generation THEN [d EXCEPT !.state = "failed"]
                  ELSE [d EXCEPT !.prepare = m, !.generation = m.generation]]
             /\ UNCHANGED toNetwork
          \/ /\ m.type = "reply"
             /\ device' = [device EXCEPT ![n] =
                  [d EXCEPT !.accesses = @ - 1, !.serving = Tail(@),
                            !.op = IF source = n THEN None ELSE @]]
             /\ toNetwork' = IF source = n THEN toNetwork
                             ELSE [toNetwork EXCEPT ![n] = Append(@, Message("response", d.epoch, source))]
          \/ m.type = "sync" /\ UNCHANGED <<device, toNetwork>>
    /\ UNCHANGED <<guestVars, loopVars, hostVars, network, toHost, fromNetwork>>

MutReadsNetwork(n) == Up(n) /\ fromNetwork[n] # <<>>
\* PollNetworkBatch: "COMMIT is an epoch boundary"
ReadsNetwork(n) == Up(n) /\ fromNetwork[n] # <<>> /\ device[n].commit = NoMessage

DevicePollNetwork(n) ==
    /\ ReadsNetwork(n)
    /\ fromNetwork' = [fromNetwork EXCEPT ![n] = Tail(@)]
    /\ LET m == Head(fromNetwork[n])
           d == device[n]
       IN \/ /\ m.type \in {"execute", "complete"}
             /\ device' = [device EXCEPT ![n].accesses = @ + 1, ![n].serving = Append(@, m.node)]
             /\ toHost' = Access(n, m.node)
          \/ /\ m.type = "commit"
             /\ device' = [device EXCEPT ![n] =
                  IF ~d.forwarded \/ m.generation # d.generation \/ m.enabled # d.prepare.enabled
                  THEN [d EXCEPT !.state = "failed"] ELSE [d EXCEPT !.commit = m]]
             /\ UNCHANGED toHost
          \/ m.type = "sync" /\ UNCHANGED <<device, toHost>>
    /\ UNCHANGED <<guestVars, loopVars, hostVars, network, toDevice, toNetwork>>

MayForward(n) == device[n].prepare # NoMessage /\ ~device[n].forwarded /\ Quiescent(n)

\* The main loop forwards PREPARE once the device has drained,
DeviceForward(n) ==
    /\ Up(n) /\ MayForward(n)
    /\ device' = [device EXCEPT ![n].forwarded = TRUE]
    /\ toNetwork' = [toNetwork EXCEPT ![n] = Append(@,
                       Fence("prepare", device[n].epoch, device[n].generation, device[n].prepare.enabled))]
    /\ UNCHANGED <<guestVars, loopVars, hostVars, network, toDevice, toHost, fromNetwork>>

MutCommits(d) ==
    [d EXCEPT !.active = d.prepare.enabled, !.epoch = @ + 1, !.prepare = NoMessage, !.commit = NoMessage]
\* The fence is finished on both sides.
Commits(d) ==
    [d EXCEPT !.active = d.prepare.enabled, !.epoch = @ + 1, !.prepare = NoMessage,
              !.forwarded = FALSE, !.commit = NoMessage]

\* and passes COMMIT on, restarts its clocks and sends SYNC to both sides.
DeviceCommit(n) ==
    /\ Up(n) /\ device[n].forwarded /\ device[n].commit # NoMessage /\ Quiescent(n)
    /\ LET d == device[n]
           enable == d.prepare.enabled
       IN IF enable = d.active
          THEN device' = [device EXCEPT ![n].state = "failed"] /\ UNCHANGED <<toHost, toNetwork>>
          ELSE /\ device' = [device EXCEPT ![n] = Commits(d)]
               /\ toHost' = [toHost EXCEPT ![n] =
                    Append(@, Fence("commit", d.epoch, d.generation, enable)) \o Syncs(enable, d.epoch + 1)]
               /\ toNetwork' = [toNetwork EXCEPT ![n] = @ \o Syncs(enable, d.epoch + 1)]
    /\ UNCHANGED <<guestVars, loopVars, hostVars, network, toDevice, fromNetwork>>

MutMaySave(n) == device[n].accesses = 0 /\ device[n].prepare = NoMessage
MaySave(n) == Quiescent(n) /\ device[n].prepare = NoMessage /\ ~device[n].forwarded

\* checkpoint-dual.sh stops the devices when every gem5 has written its checkpoint;
\* SaveDeviceState refuses unless the device is quiescent and between fences.
DeviceStop(n) ==
    /\ Up(n) /\ \A m \in Nodes : loop[m] = "ended"
    /\ device' = [device EXCEPT ![n].state = IF MaySave(n) THEN "saved" ELSE "refused"]
    /\ UNCHANGED <<guestVars, loopVars, hostVars, network, rings>>

----------------------------------------------------------------------------
(* The network process *)

NetworkUp == network.state = "up"

NetworkPoll(n) ==
    /\ NetworkUp /\ toNetwork[n] # <<>>
    /\ toNetwork' = [toNetwork EXCEPT ![n] = Tail(@)]
    /\ LET m == Head(toNetwork[n])
       IN \/ m.type = "request" /\ network' = [network EXCEPT !.tasks[n] = "new"]
          \/ m.type = "response" /\ network' = [network EXCEPT !.tasks[m.node] = "executed"]
          \/ m.type = "prepare" /\ network' = [network EXCEPT !.prepared[n] = m]
          \/ m.type = "sync" /\ UNCHANGED network
    /\ UNCHANGED <<guestVars, loopVars, hostVars, device, toDevice, toHost, fromNetwork>>

\* A task reaches its target, and its completion the source.
NetworkDeliver(n) ==
    /\ NetworkUp
    /\ \/ /\ network.tasks[n] = "new"
          /\ network' = [network EXCEPT !.tasks[n] = "executing"]
          /\ fromNetwork' = [fromNetwork EXCEPT ![device[n].target] =
                               Append(@, Message("execute", network.epoch, n))]
       \/ /\ network.tasks[n] = "executed"
          /\ network' = [network EXCEPT !.tasks[n] = None]
          /\ fromNetwork' = [fromNetwork EXCEPT ![n] = Append(@, Message("complete", network.epoch, n))]
    /\ UNCHANGED <<guestVars, loopVars, hostVars, device, toDevice, toHost, toNetwork>>

\* COMMIT is sent when every endpoint has prepared and no task is left.
NetworkCommit ==
    /\ NetworkUp
    /\ \A n \in Nodes : network.tasks[n] = None /\ network.prepared[n] # NoMessage
    /\ LET first == network.prepared[CHOOSE n \in Nodes : TRUE]
           agreed == \A n \in Nodes : /\ network.prepared[n].generation = first.generation
                                      /\ network.prepared[n].enabled = first.enabled
           commit == Fence("commit", network.epoch, first.generation, first.enabled)
       IN IF ~agreed \/ first.enabled = network.active
          THEN network' = [network EXCEPT !.state = "failed"] /\ UNCHANGED fromNetwork
          ELSE /\ network' = [network EXCEPT !.active = first.enabled, !.epoch = @ + 1,
                                             !.prepared = [n \in Nodes |-> NoMessage]]
               /\ fromNetwork' = [n \in Nodes |->
                    Append(fromNetwork[n], commit) \o Syncs(first.enabled, network.epoch + 1)]
    /\ UNCHANGED <<guestVars, loopVars, hostVars, device, toDevice, toHost, toNetwork>>

----------------------------------------------------------------------------

Init ==
    /\ session \in Sessions
    /\ benchmarks = 0
    /\ program = [n \in Nodes |-> <<>>]
    /\ posts = 0
    /\ loop = [n \in Nodes |-> "running"]
    /\ cpu = [n \in Nodes |-> "boot"]
    /\ switched = [n \in Nodes |-> FALSE]
    /\ lifecycle = [n \in Nodes |-> FALSE]
    /\ adapter = [n \in Nodes |-> [pending |-> FALSE, commit |-> NoMessage, generation |-> 0,
                                   active |-> FALSE, epoch |-> 0]]
    /\ dma = [n \in Nodes |-> 0]
    /\ device = [n \in Nodes |-> [state |-> "up", op |-> None, target |-> n, accesses |-> 0, serving |-> <<>>,
                                  prepare |-> NoMessage, generation |-> 0, forwarded |-> FALSE,
                                  commit |-> NoMessage, active |-> FALSE, epoch |-> 0]]
    /\ network = [state |-> "up", tasks |-> [n \in Nodes |-> None], active |-> FALSE, epoch |-> 0,
                  prepared |-> [n \in Nodes |-> NoMessage]]
    /\ toDevice = [n \in Nodes |-> <<>>]
    /\ toHost = [n \in Nodes |-> <<>>]
    /\ toNetwork = [n \in Nodes |-> <<>>]
    /\ fromNetwork = [n \in Nodes |-> <<>>]

GuestStep(n) == GoOn(n) \/ FenceExit(n) \/ SwitchExit(n) \/ CheckpointExit(n)
HostStep(n) == HostService(n) \/ DmaDone(n) \/ CommitExit(n)
DeviceStep(n) ==
    DevicePollHost(n) \/ DevicePollNetwork(n) \/ DeviceForward(n) \/ DeviceCommit(n)
NetworkStep == (\E n \in Nodes : NetworkPoll(n) \/ NetworkDeliver(n)) \/ NetworkCommit

Next ==
    \/ RunBenchmark \/ RunCheckpoint
    \/ \E n, m \in Nodes : Post(n, m)
    \/ \E n \in Nodes : GuestStep(n) \/ HostStep(n) \/ DeviceStep(n) \/ DeviceStop(n)
    \/ NetworkStep

Spec == Init /\ [][Next]_vars

\* The processes run; a user need not give a command or a guest post an operation.
Fairness ==
    /\ \A n \in Nodes : WF_vars(GuestStep(n)) /\ WF_vars(HostStep(n)) /\ WF_vars(DeviceStep(n))
    /\ WF_vars(NetworkStep)

FairSpec == Spec /\ Fairness

----------------------------------------------------------------------------
(* Properties *)

\* What travels: SYNC, a piece of work of a node, and the messages of a fence.
Messages ==
    [type : {"sync"}, epoch : Nat, node : {None}]
      \cup [type : {"reply", "dma", "request", "response", "execute", "complete"}, epoch : Nat, node : Nodes]
Fences == [type : {"prepare", "commit"}, epoch : Nat, generation : Nat, enabled : BOOLEAN]
Held == Fences \cup {NoMessage}
Ring(types) == Seq({m \in Messages \cup Fences : m.type \in types})

Steps == {"work", "fence", "loop", "switchcpu", "checkpoint"}
Adapters == [pending : BOOLEAN, commit : Held, generation : Nat, active : BOOLEAN, epoch : Nat]
Devices ==
    [state : {"up", "saved", "refused", "failed"}, op : {None, "issued"}, target : Nodes, accesses : Nat,
     serving : Seq(Nodes), prepare : Held, generation : Nat, forwarded : BOOLEAN, commit : Held,
     active : BOOLEAN, epoch : Nat]
Networks ==
    [state : {"up", "failed"}, tasks : [Nodes -> {None, "new", "executing", "executed"}],
     active : BOOLEAN, epoch : Nat, prepared : [Nodes -> Held]]

GuestType ==
    /\ session \in Sessions /\ benchmarks \in Nat /\ posts \in Nat
    /\ program \in [Nodes -> Seq(Steps)]
    /\ loop \in [Nodes -> {"running", "ended", "failed"}] /\ cpu \in [Nodes -> {"boot", "o3"}]
    /\ switched \in [Nodes -> BOOLEAN] /\ lifecycle \in [Nodes -> BOOLEAN]

ProcessType ==
    /\ adapter \in [Nodes -> Adapters] /\ dma \in [Nodes -> Nat]
    /\ device \in [Nodes -> Devices] /\ network \in Networks

RingType ==
    /\ toDevice \in [Nodes -> Ring({"sync", "reply", "prepare"})]
    /\ toHost \in [Nodes -> Ring({"sync", "dma", "commit"})]
    /\ toNetwork \in [Nodes -> Ring({"sync", "request", "response", "prepare"})]
    /\ fromNetwork \in [Nodes -> Ring({"sync", "execute", "complete", "commit"})]

\* Every variable keeps its type, and a ring holds only what its reader knows: a message of
\* another kind would stop the process that reads it.
TypeOK == GuestType /\ ProcessType /\ RingType

\* None of the checks that stop a simulator at a fence (overlapping or mismatched fences,
\* a stale PREPARE, an unsolicited COMMIT, outstanding accesses, a CPU switched out twice,
\* a checkpoint on O3) ever fails, in whatever order the nodes arrive.
NoFenceFailure ==
    /\ \A n \in Nodes : loop[n] # "failed" /\ device[n].state # "failed"
    /\ network.state # "failed"

\* No party reads a message of an epoch that is not its own: COMMIT is the last message of
\* the old epoch it takes, and everything of the old epoch has been taken by then.
EpochsAgree ==
    /\ \A n \in Nodes :
         /\ HostReads(n) => Head(toHost[n]).epoch = adapter[n].epoch
         /\ Up(n) /\ toDevice[n] # <<>> => Head(toDevice[n]).epoch = device[n].epoch
         /\ ReadsNetwork(n) => Head(fromNetwork[n]).epoch = device[n].epoch
         /\ NetworkUp /\ toNetwork[n] # <<>> => Head(toNetwork[n]).epoch = network.epoch

\* "The measured loop runs entirely on ArmO3": a guest in its measured loop is synchronised
\* and on the O3 CPU.
MeasuredOnO3 == \A n \in Nodes : At(n, "loop") => adapter[n].active /\ cpu[n] = "o3"

\* When every device has saved its state, no operation is left in a ring, in the network or
\* in a host: a restored run has lost nothing.
CheckpointHoldsAllWork ==
    (\A n \in Nodes : device[n].state = "saved") =>
        \A n \in Nodes :
            /\ device[n].op = None /\ network.tasks[n] = None /\ dma[n] = 0
            /\ \A ring \in {toDevice[n], toHost[n], toNetwork[n], fromNetwork[n]} :
                 \A i \in DOMAIN ring : ring[i].type = "sync"

\* Every fence commits and its guest goes on, although operations of either node may be in
\* flight when the first guest arrives.
FencesCommit == \A n \in Nodes : adapter[n].pending ~> ~adapter[n].pending
=============================================================================
