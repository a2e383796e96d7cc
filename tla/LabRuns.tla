------------------------------ MODULE LabRuns ------------------------------
(***************************************************************************)
(* Starting and stopping simulations: the browser workbench                *)
(* (ubsim_lab/web.py) starts one launcher process at a time                *)
(* (./lab topology start: topology.py, config_launcher.py), a launcher     *)
(* starts the processes of a run in the run directory of its simulator,    *)
(* the memory guard (tools/host_memory_guard.py) and /api/stop end them    *)
(* through the stop script, and any process may end by itself.             *)
(*                                                                         *)
(* The only memory the parts share is the run directory: pid files, the    *)
(* run manifest and topology.json.  A launch is named by its number; a pid *)
(* file holds the number of the launch whose process it names.  Pids are   *)
(* not reused.  The command lines of the processes are left out.           *)
(***************************************************************************)
EXTENDS Integers, Sequences, FiniteSets, FiniteSetsExt

CONSTANTS
    Tasks,              \* saved tasks
    SimOf,              \* the simulator of each task
    MaxLaunches,        \* bound: launches, by the workbench
    HostMemory,         \* memory of the host, in quarters of a GiB
    GuestMemory,        \* modelled memory of a guest
    Available,          \* what the host may have available when it is asked
    RestartMidLaunch    \* may the workbench be restarted while a launcher runs

Sims == {"gem5", "qemu"}
None == 0

ASSUME LabAssumption ==
    /\ None \notin Tasks
    /\ SimOf \in [Tasks -> Sims]
    /\ {MaxLaunches, HostMemory, GuestMemory} \subseteq Nat
    /\ Available \subseteq 0 .. HostMemory
    /\ RestartMidLaunch \in BOOLEAN

\* The processes of a run in the order they are started; "backend" stands for the UDMA
\* devices and the fabric, which start and are stopped one after the other.
\* With two hosts QEMU connects them without a relay.
LaunchOrder(sim) ==
    IF sim = "gem5" THEN <<"backend", "node0", "node1", "guard", "relay">>
                    ELSE <<"backend", "node0", "node1", "guard">>
Roles == {"backend", "node0", "node1", "guard", "relay"}

\* scripts/run/stop-dual.sh and stop-qemu-dual.sh: the guard is not among them.
StopOrder == <<"node0", "node1", "backend", "relay">>

Launches == 1 .. MaxLaunches

VARIABLES
    job,        \* Workbench.job: its state, and the launch while it runs
    task,       \* task of every launch, None before it is started
    pc,         \* launchers: "none", "check", "memory", "prepare", "spawn", "done", "failed"
    next,       \* index in LaunchOrder of the next process to start
    proc,       \* processes: "none", "live", "term" (signalled), "gone"
    pidfile,    \* run directory: pid files by role
    manifest,   \* run directory: identity of run-manifest.txt
    topology,   \* run directory: the task topology.json describes
    low,        \* guards: low_count
    guardStop,  \* guards: next process of their stop script, 0 when not started
    stop        \* /api/stop: next process of the stop script in each run directory

vars == <<job, task, pc, next, proc, pidfile, manifest, topology, low, guardStop, stop>>
files == <<pidfile, manifest, topology>>

SimOfLaunch(n) == SimOf[task[n]]
Alive(n, r) == n # None /\ proc[n][r] \in {"live", "term"}

\* kill -TERM, Popen.terminate
Term(state) == IF state = "live" THEN "term" ELSE state

----------------------------------------------------------------------------
(* The workbench *)

\* _runtime(sim)["active"]: only node0's pid file is looked at.
Active(sim) == Alive(pidfile[sim]["node0"], "node0")

JobRunning == job.state = "running"

\* running_this_task: the run directory also names the task that last started there.
RunningThisTask(t) == Active(SimOf[t]) /\ topology[SimOf[t]] = t

\* experiments.preflight.  Its checks of the host's memory, ports and files may come out
\* either way: when they fail nothing is started.
Preflight(t) ==
    /\ \A sim \in Sims \ {SimOf[t]} : ~Active(sim)
    /\ Active(SimOf[t]) => RunningThisTask(t)

\* The preflight of the workbench and the checks start_task repeats under its lock.
MayStart(t) ==
    /\ Preflight(t) /\ ~RunningThisTask(t)
    /\ ~JobRunning /\ \A sim \in Sims : ~Active(sim)

\* start_task: the first unused number names the new launcher.
StartTask(t) ==
    /\ MayStart(t)
    /\ \E n \in Launches :
         /\ task[n] = None /\ \A m \in Launches : m < n => task[m] # None
         /\ task' = [task EXCEPT ![n] = t]
         /\ pc' = [pc EXCEPT ![n] = "check"]
         /\ job' = [launch |-> n, state |-> "running"]
    /\ UNCHANGED <<next, proc, files, low, guardStop, stop>>

Ended(n) == pc[n] \in {"done", "failed"}

MutWait ==
    /\ JobRunning /\ pc[job.launch] = "done"
    /\ job' = [launch |-> None, state |-> "finished"]
    /\ UNCHANGED <<task, pc, next, proc, files, low, guardStop, stop>>
\* The thread that waits for the launcher.
Wait ==
    /\ JobRunning /\ Ended(job.launch)
    /\ job' = [launch |-> None, state |-> IF pc[job.launch] = "done" THEN "finished" ELSE "failed"]
    /\ UNCHANGED <<task, pc, next, proc, files, low, guardStop, stop>>

\* The workbench is stopped and started again: launchers are sessions of their own and
\* go on, the job is forgotten.
Restart ==
    /\ job.state # "none"
    /\ JobRunning => RestartMidLaunch
    /\ job' = [launch |-> None, state |-> "none"]
    /\ UNCHANGED <<task, pc, next, proc, files, low, guardStop, stop>>

\* POST /api/stop.  The server gives up on the script after 45 s, the script goes on.
StopTask(t) ==
    /\ RunningThisTask(t)
    /\ stop[SimOf[t]] = 0
    /\ stop' = [stop EXCEPT ![SimOf[t]] = 1]
    /\ UNCHANGED <<job, task, pc, next, proc, files, low, guardStop>>

\* One stop_one of the stop script: it signals whatever process the pid file names now.
Signal(sim, r) ==
    LET n == pidfile[sim][r]
    IN proc' = IF n = None THEN proc ELSE [proc EXCEPT ![n][r] = Term(@)]

StopStep(sim) ==
    /\ stop[sim] > 0
    /\ Signal(sim, StopOrder[stop[sim]])
    /\ stop' = [stop EXCEPT ![sim] = IF @ = Len(StopOrder) THEN 0 ELSE @ + 1]
    /\ UNCHANGED <<job, task, pc, next, files, low, guardStop>>

----------------------------------------------------------------------------
(* A launcher: topology.run, start_gem5, start_qemu *)

Step(n, state) == pc' = [pc EXCEPT ![n] = state]

MutRunRootBusy(sim) == Active(sim)
\* any(_live_pid(path) for path in run_root.glob("**/*.pid"))
RunRootBusy(sim) == \E r \in Roles : Alive(pidfile[sim][r], r)

Check(n) ==
    /\ pc[n] = "check"
    /\ Step(n, IF RunRootBusy(SimOfLaunch(n)) THEN "failed" ELSE "memory")
    /\ UNCHANGED <<job, task, next, proc, files, low, guardStop, stop>>

\* reserve_bytes: 2 GiB or a fifth of the host's memory.
Reserve == Max({8, HostMemory \div 5})

\* 5/4 GiB for a guest and at least 2 GiB; QEMU needs its guests' whole memory and 1 GiB.
Guests == 2
LaunchHeadroom(sim) ==
    Max({8, 5 * Guests} \cup IF sim = "qemu" THEN {Guests * GuestMemory + 4} ELSE {})

\* _check_memory, with what is available at this moment.
CheckMemory(n, available) ==
    /\ pc[n] = "memory"
    /\ Step(n, IF available < Reserve + LaunchHeadroom(SimOfLaunch(n)) THEN "failed" ELSE "prepare")
    /\ UNCHANGED <<job, task, next, proc, files, low, guardStop, stop>>

\* _require_files, or an unusable topology: nothing has been touched yet.
PrepareFails(n) ==
    /\ pc[n] = "prepare"
    /\ Step(n, "failed")
    /\ UNCHANGED <<job, task, next, proc, files, low, guardStop, stop>>

\* The pid files of the last run are removed, those of processes still alive too, and a new
\* manifest is written.  topology.json of the last run stays.
FreshRunRoot(n) ==
    /\ pidfile' = [pidfile EXCEPT ![SimOfLaunch(n)] = [r \in Roles |-> None]]
    /\ manifest' = [manifest EXCEPT ![SimOfLaunch(n)] = n]
    /\ UNCHANGED topology

Prepare(n) ==
    /\ pc[n] = "prepare"
    /\ FreshRunRoot(n)
    /\ next' = [next EXCEPT ![n] = 1]
    /\ Step(n, "spawn")
    /\ UNCHANGED <<job, task, proc, low, guardStop, stop>>

\* _spawn: the process is started before its pid file is written.
Started(n, r) ==
    /\ proc' = [proc EXCEPT ![n][r] = "live"]
    /\ pidfile' = [pidfile EXCEPT ![SimOfLaunch(n)][r] = n]

\* The next process, with the wait for what it must bring up.
Spawn(n) ==
    /\ pc[n] = "spawn" /\ next[n] <= Len(LaunchOrder(SimOfLaunch(n)))
    /\ Started(n, LaunchOrder(SimOfLaunch(n))[next[n]])
    /\ next' = [next EXCEPT ![n] = @ + 1]
    /\ UNCHANGED <<job, task, pc, manifest, topology, low, guardStop, stop>>

\* A socket that does not appear, a fabric that does not connect, a command that cannot be
\* run: every process started so far is signalled; the pid files stay.
Abort(n) ==
    /\ pc[n] = "spawn"
    /\ Step(n, "failed")
    /\ proc' = [proc EXCEPT ![n] = [r \in Roles |-> Term(@[r])]]
    /\ UNCHANGED <<job, task, next, files, low, guardStop, stop>>

\* topology.json and topology-plan.json.
Publish(n) ==
    /\ pc[n] = "spawn" /\ next[n] > Len(LaunchOrder(SimOfLaunch(n)))
    /\ Step(n, "done")
    /\ topology' = [topology EXCEPT ![SimOfLaunch(n)] = task[n]]
    /\ UNCHANGED <<job, task, next, proc, pidfile, manifest, low, guardStop, stop>>

\* The launcher itself is killed.
LauncherDies(n) ==
    /\ pc[n] \in {"check", "memory", "prepare", "spawn"}
    /\ Step(n, "failed")
    /\ UNCHANGED <<job, task, next, proc, files, low, guardStop, stop>>

----------------------------------------------------------------------------
(* The processes of a run *)

\* A process ends: on its own, or by the signal it was sent.
Exit(n, r) ==
    /\ Alive(n, r)
    /\ proc' = [proc EXCEPT ![n][r] = "gone"]
    /\ UNCHANGED <<job, task, pc, next, files, low, guardStop, stop>>

\* live_guest
LiveGuest(sim) == \E r \in {"node0", "node1"} : Alive(pidfile[sim][r], r)

\* The loop condition of monitor.
OwnRun(n) == manifest[SimOfLaunch(n)] = n /\ LiveGuest(SimOfLaunch(n))

Guarding(n) == n # None /\ proc[n]["guard"] = "live" /\ guardStop[n] = 0

GuardLeaves(n) ==
    /\ Guarding(n) /\ ~OwnRun(n)
    /\ proc' = [proc EXCEPT ![n]["guard"] = "gone"]
    /\ UNCHANGED <<job, task, pc, next, files, low, guardStop, stop>>

\* One sample: the second low one in a row starts the stop script.
GuardSample(n, available) ==
    /\ Guarding(n) /\ OwnRun(n)
    /\ low' = [low EXCEPT ![n] = IF available < Reserve THEN @ + 1 ELSE 0]
    /\ guardStop' = [guardStop EXCEPT ![n] = IF low'[n] >= 2 THEN 1 ELSE 0]
    /\ UNCHANGED <<job, task, pc, next, proc, files, stop>>

\* The guard's stop script runs to its end even if the guard is killed meanwhile;
\* the guard waits for it and ends.
GuardStep(n) ==
    /\ guardStop[n] \in 1 .. Len(StopOrder)
    /\ Signal(SimOfLaunch(n), StopOrder[guardStop[n]])
    /\ guardStop' = [guardStop EXCEPT ![n] = @ + 1]
    /\ UNCHANGED <<job, task, pc, next, files, low, stop>>

GuardEnds(n) ==
    /\ guardStop[n] > Len(StopOrder) /\ Alive(n, "guard")
    /\ proc' = [proc EXCEPT ![n]["guard"] = "gone"]
    /\ UNCHANGED <<job, task, pc, next, files, low, guardStop, stop>>

----------------------------------------------------------------------------

Init ==
    /\ job = [launch |-> None, state |-> "none"]
    /\ task = [n \in Launches |-> None]
    /\ pc = [n \in Launches |-> "none"]
    /\ next = [n \in Launches |-> 1]
    /\ proc = [n \in Launches |-> [r \in Roles |-> "none"]]
    /\ pidfile = [sim \in Sims |-> [r \in Roles |-> None]]
    /\ manifest = [sim \in Sims |-> None]
    /\ topology = [sim \in Sims |-> None]
    /\ low = [n \in Launches |-> 0]
    /\ guardStop = [n \in Launches |-> 0]
    /\ stop = [sim \in Sims |-> 0]

Launcher(n) ==
    \/ Check(n) \/ PrepareFails(n) \/ Prepare(n) \/ Spawn(n) \/ Abort(n) \/ Publish(n)
    \/ \E available \in Available : CheckMemory(n, available)

Guard(n) ==
    \/ GuardLeaves(n) \/ GuardStep(n) \/ GuardEnds(n)
    \/ \E available \in Available : GuardSample(n, available)

Next ==
    \/ \E t \in Tasks : StartTask(t) \/ StopTask(t)
    \/ Wait \/ Restart
    \/ \E sim \in Sims : StopStep(sim)
    \/ \E n \in Launches : Launcher(n) \/ LauncherDies(n) \/ Guard(n)
    \/ \E n \in Launches, r \in Roles : Exit(n, r)

\* Launchers and the waiting thread run; signalled processes end.
Fairness ==
    /\ WF_vars(Wait)
    /\ \A n \in Launches : WF_vars(Launcher(n))

Spec == Init /\ [][Next]_vars /\ Fairness

----------------------------------------------------------------------------
(* Properties *)

\* Every variable keeps its type, and a launch that has ended or not begun starts nothing.
TypeOK ==
    /\ job \in [launch : 0 .. MaxLaunches, state : {"none", "running", "finished", "failed"}]
    /\ task \in [Launches -> Tasks \cup {None}]
    /\ pc \in [Launches -> {"none", "check", "memory", "prepare", "spawn", "done", "failed"}]
    /\ \A n \in Launches : next[n] \in 1 .. Cardinality(Roles) + 1
    /\ proc \in [Launches -> [Roles -> {"none", "live", "term", "gone"}]]
    /\ pidfile \in [Sims -> [Roles -> 0 .. MaxLaunches]]
    /\ manifest \in [Sims -> 0 .. MaxLaunches]
    /\ topology \in [Sims -> Tasks \cup {None}]
    /\ low \in [Launches -> 0 .. 2]
    /\ guardStop \in [Launches -> 0 .. Len(StopOrder) + 1]
    /\ stop \in [Sims -> 0 .. Len(StopOrder)]

\* The processes alive in a run directory, signalled ones included, all belong to one launch,
\* although launchers fail half way, die, and follow each other while old processes end.
RunRootExclusive ==
    \A n, m \in Launches : \A r, q \in Roles :
        /\ Alive(n, r) /\ Alive(m, q)
        /\ SimOfLaunch(n) = SimOfLaunch(m)
        => n = m

\* While a guard is alive its stop script signals processes of its own run only.
GuardActsOnOwnRun ==
    \A n \in Launches : guardStop[n] > 0 /\ Alive(n, "guard") =>
        \A r \in Roles : pidfile[SimOfLaunch(n)][r] \in {None, n}

\* A job shown as running ends, so that the workbench can start the next one.
JobSettles == JobRunning ~> ~JobRunning
=============================================================================
