--------------------------- MODULE LabRuns_proofs ---------------------------
(***************************************************************************)
(* Proofs about LabRuns: for any number of tasks and launches, when the    *)
(* workbench is not restarted while a launcher runs, a run directory never *)
(* holds live processes of two launches, and a memory guard acts on its    *)
(* own run.                                                                *)
(***************************************************************************)
EXTENDS LabRuns, TLAPS

Busy == {"check", "memory", "prepare", "spawn"}
States == {"none", "live", "term", "gone"}

\* The types the argument needs.
Shapes ==
    /\ task \in [Launches -> Tasks \cup {None}]
    /\ pc \in [Launches -> Busy \cup {"none", "done", "failed"}]
    /\ \A n \in Launches : next[n] \in Nat \ {0}
    /\ next \in [Launches -> Nat]
    /\ proc \in [Launches -> [Roles -> States]]
    /\ pidfile \in [Sims -> [Roles -> 0 .. MaxLaunches]]

\* Only the launcher of the running job is at work, and it has a task.
Single ==
    \A n \in Launches : pc[n] \in Busy =>
        /\ job.state = "running" /\ job.launch = n
        /\ task[n] \in Tasks

\* A live process can be found through the pid file of its role.
Named ==
    \A n \in Launches, r \in Roles : Alive(n, r) =>
        task[n] \in Tasks /\ pidfile[SimOfLaunch(n)][r] = n

\* A launcher that has passed its check finds no process of another launch in its root.
Alone ==
    \A n, m \in Launches, r \in Roles :
        Alive(m, r) /\ pc[n] \in {"memory", "prepare", "spawn"} /\ SimOfLaunch(m) = SimOfLaunch(n) =>
            pc[n] = "spawn" /\ m = n

\* The pid files of a run root are those of the launch that lives or is starting there.
Root(n) == \A q \in Roles : pidfile[SimOfLaunch(n)][q] \in {None, n}
Rooted ==
    /\ \A n \in Launches : pc[n] = "spawn" => Root(n)
    /\ \A n \in Launches, r \in Roles : Alive(n, r) => Root(n)

IInv == Shapes /\ Single /\ Named /\ Alone /\ Rooted /\ RunRootExclusive

\* Stop scripts stay within their order; a guard's runs only for a launch that has begun.
Scripts ==
    /\ stop \in [Sims -> 0 .. Len(StopOrder)]
    /\ guardStop \in [Launches -> Nat]
    /\ \A n \in Launches : guardStop[n] # 0 => task[n] \in Tasks

----------------------------------------------------------------------------

\* A task names a simulator.
LEMMA SimOfTask ==
    ASSUME NEW t \in Tasks
    PROVE  SimOf[t] \in Sims
  BY LabAssumption

\* Starting processes: every entry of the launch order is a role.
LEMMA OrderHasRoles ==
    ASSUME NEW sim \in Sims, NEW i \in Nat \ {0}, i <= Len(LaunchOrder(sim))
    PROVE  LaunchOrder(sim)[i] \in Roles
<1>1. CASE sim = "gem5"
  <2>1. LaunchOrder(sim) = <<"backend", "node0", "node1", "guard", "relay">>
    BY <1>1 DEF LaunchOrder
  <2>2. i \in {1, 2, 3, 4, 5}
    BY <2>1
  <2> QED
    BY <2>1, <2>2 DEF Roles
<1>2. CASE sim = "qemu"
  <2>1. LaunchOrder(sim) = <<"backend", "node0", "node1", "guard">>
    BY <1>2 DEF LaunchOrder
  <2>2. i \in {1, 2, 3, 4}
    BY <2>1
  <2> QED
    BY <2>1, <2>2 DEF Roles
<1> QED
  BY <1>1, <1>2 DEF Sims

\* Nothing runs at first.
LEMMA Starts == ASSUME Init PROVE IInv
<1>1. Shapes
  BY LabAssumption DEF Init, Shapes, States, Busy, Sims, None
<1>2. \A n \in Launches : pc[n] = "none" /\ \A r \in Roles : ~Alive(n, r)
  BY DEF Init, Alive
<1> QED
  BY <1>1, <1>2 DEF IInv, Single, Named, Alone, Rooted, RunRootExclusive, Busy

\* Steps in which processes are only signalled or end.
LEMMA FadingKeeps ==
    ASSUME IInv,
           UNCHANGED <<job, task, pc, next, pidfile>>,
           proc' \in [Launches -> [Roles -> States]],
           \A n \in Launches, r \in Roles : Alive(n, r)' => Alive(n, r)
    PROVE  IInv'
<1>1. Shapes'
  BY DEF IInv, Shapes
<1>2. \A n \in Launches : SimOfLaunch(n)' = SimOfLaunch(n)
  BY DEF SimOfLaunch
<1>3. Single' /\ Named'
  BY <1>2 DEF IInv, Single, Named
<1>4. Alone' /\ RunRootExclusive'
  BY <1>2 DEF IInv, Alone, RunRootExclusive
<1>5. Rooted'
  BY <1>2 DEF IInv, Rooted, Root
<1> QED
  BY <1>1, <1>3, <1>4, <1>5 DEF IInv

\* One stop_one of a stop script only signals.
LEMMA SignalFades ==
    ASSUME Shapes, NEW sim \in Sims, NEW r \in Roles, Signal(sim, r)
    PROVE  /\ proc' \in [Launches -> [Roles -> States]]
           /\ \A m \in Launches, q \in Roles : Alive(m, q)' => Alive(m, q)
<1>1. CASE pidfile[sim][r] = None
  <2>1. proc' = proc
    BY <1>1 DEF Signal
  <2> QED
    BY <2>1 DEF Alive, Shapes
<1>2. CASE pidfile[sim][r] # None
  <2>1. pidfile[sim][r] \in Launches
    BY <1>2, LabAssumption DEF Shapes, Launches, None
  <2> DEFINE n == pidfile[sim][r]
  <2>2. proc' = [proc EXCEPT ![n][r] = Term(proc[n][r])]
    BY <1>2 DEF Signal
  <2>3. Term(proc[n][r]) \in States /\ (Term(proc[n][r]) \in {"live", "term"} => proc[n][r] \in {"live", "term"})
    BY <2>1 DEF Term, Shapes, States
  <2> HIDE DEF n
  <2>4. proc' \in [Launches -> [Roles -> States]]
    BY <2>2, <2>3 DEF Shapes
  <2>5. ASSUME NEW m \in Launches, NEW q \in Roles, proc'[m][q] \in {"live", "term"}
        PROVE  proc[m][q] \in {"live", "term"}
    BY <2>1, <2>2, <2>3, <2>5 DEF Shapes, n
  <2> QED
    BY <2>4, <2>5 DEF Alive
<1> QED
  BY <1>1, <1>2

\* What an action leaves alone that changes neither processes nor pid files: the tasks, and
\* with them the roots, stay.
LEMMA PcKeeps ==
    ASSUME IInv, NEW n \in Launches, NEW state \in {"memory", "prepare", "done", "failed"},
           pc[n] \in Busy, Step(n, state),
           UNCHANGED <<job, task, proc, pidfile, next>>,
           state = "memory" => \A m \in Launches, r \in Roles : Alive(m, r) => SimOfLaunch(m) # SimOfLaunch(n),
           state = "prepare" => pc[n] = "memory"
    PROVE  IInv'
<1>1. pc' = [pc EXCEPT ![n] = state]
  BY DEF Step
<1>2. Shapes'
  BY <1>1 DEF IInv, Shapes, Busy
<1>3. \A m \in Launches : SimOfLaunch(m)' = SimOfLaunch(m)
  BY DEF SimOfLaunch
<1>a. \A m \in Launches, r \in Roles : Alive(m, r)' => Alive(m, r)
  BY DEF Alive
<1>b. \A m \in Launches : Root(m) => Root(m)'
  BY <1>3 DEF Root
<1>4. \A m \in Launches : pc'[m] = IF m = n THEN state ELSE pc[m]
  BY <1>1 DEF IInv, Shapes
<1>5. Single'
  BY <1>4 DEF IInv, Single, Busy
<1>6. Named' /\ RunRootExclusive'
  BY <1>3, <1>a DEF IInv, Named, RunRootExclusive
<1>7. Alone'
  BY <1>3, <1>4, <1>a DEF IInv, Alone
<1>8. Rooted'
  BY <1>4, <1>a, <1>b DEF IInv, Rooted
<1> QED
  BY <1>2, <1>5, <1>6, <1>7, <1>8 DEF IInv

----------------------------------------------------------------------------
(* The workbench *)

\* A new launch has no process yet, and no other launcher is at work.
LEMMA StartTaskKeeps ==
    ASSUME IInv, NEW t \in Tasks, StartTask(t)
    PROVE  IInv'
<1>1. PICK n \in Launches :
        /\ task[n] = None
        /\ task' = [task EXCEPT ![n] = t]
        /\ pc' = [pc EXCEPT ![n] = "check"]
        /\ job' = [launch |-> n, state |-> "running"]
  BY DEF StartTask
<1>2. UNCHANGED <<next, proc, pidfile>>
  BY DEF StartTask, files
<1>3. \A m \in Launches : pc[m] \notin Busy
  BY DEF IInv, Single, StartTask, MayStart, JobRunning
<1>4. \A r \in Roles : ~Alive(n, r)
  BY <1>1, LabAssumption DEF IInv, Named
<1>5. Shapes'
  BY <1>1, <1>2 DEF IInv, Shapes, Busy
<1>6. \A m \in Launches, r \in Roles : Alive(m, r)' => Alive(m, r) /\ m # n
  BY <1>2, <1>4 DEF Alive
<1>7. \A m \in Launches \ {n} : task'[m] = task[m] /\ SimOfLaunch(m)' = SimOfLaunch(m)
  BY <1>1, <1>2 DEF IInv, Shapes, SimOfLaunch
<1>a. \A m \in Launches \ {n} : Root(m) => Root(m)'
  BY <1>2, <1>7 DEF Root
<1>8. \A m \in Launches : pc'[m] = IF m = n THEN "check" ELSE pc[m]
  BY <1>1 DEF IInv, Shapes
<1>9. Single'
  <2>1. task'[n] = t
    BY <1>1 DEF IInv, Shapes
  <2> QED
    BY <1>1, <1>3, <1>8, <2>1 DEF Single
<1>10. Named' /\ RunRootExclusive'
  <2>1. Named'
    BY <1>2, <1>6, <1>7 DEF IInv, Named
  <2>2. RunRootExclusive'
    BY <1>6, <1>7 DEF IInv, RunRootExclusive
  <2> QED
    BY <2>1, <2>2
<1>11. Alone'
  BY <1>3, <1>8 DEF Alone, Busy
<1>12. Rooted'
  BY <1>3, <1>6, <1>8, <1>a DEF IInv, Rooted, Busy
<1> QED
  BY <1>5, <1>9, <1>10, <1>11, <1>12 DEF IInv

\* The job is forgotten only when no launcher is at work.
LEMMA JobKeeps ==
    ASSUME IInv, \A n \in Launches : pc[n] \notin Busy,
           UNCHANGED <<task, pc, next, proc, pidfile>>
    PROVE  IInv'
<1>1. \A m \in Launches : SimOfLaunch(m)' = SimOfLaunch(m)
  BY DEF SimOfLaunch
<1>a. \A m \in Launches, r \in Roles : Alive(m, r)' => Alive(m, r)
  BY DEF Alive
<1>b. \A m \in Launches : Root(m) => Root(m)'
  BY <1>1 DEF Root
<1>2. Shapes' /\ Single'
  BY DEF IInv, Shapes, Single
<1>3. Named' /\ Alone' /\ RunRootExclusive'
  BY <1>1, <1>a DEF IInv, Named, Alone, RunRootExclusive
<1>4. Rooted'
  BY <1>a, <1>b DEF IInv, Rooted
<1> QED
  BY <1>2, <1>3, <1>4 DEF IInv

\* The waiting thread reports a launcher that has ended.
LEMMA WaitKeeps == ASSUME IInv, Wait PROVE IInv'
<1>1. \A n \in Launches : pc[n] \notin Busy
  BY DEF IInv, Single, Wait, Ended, JobRunning, Busy
<1> QED
  BY <1>1, JobKeeps DEF Wait, files

\* A restart of the workbench, while no launcher runs, forgets nothing that matters.
LEMMA RestartKeeps == ASSUME IInv, ~RestartMidLaunch, Restart PROVE IInv'
<1>1. \A n \in Launches : pc[n] \notin Busy
  BY DEF IInv, Single, Restart, JobRunning
<1> QED
  BY <1>1, JobKeeps DEF Restart, files

----------------------------------------------------------------------------
(* The launcher *)

\* A launcher passes its check only when no process lives in its run directory: a live one
\* would be found through its pid file.
LEMMA CheckKeeps ==
    ASSUME IInv, NEW n \in Launches, Check(n)
    PROVE  IInv'
<1> DEFINE state == IF RunRootBusy(SimOfLaunch(n)) THEN "failed" ELSE "memory"
<1>1. Step(n, state) /\ UNCHANGED <<job, task, proc, pidfile, next>> /\ pc[n] \in Busy
  BY DEF Check, files, Busy
<1>2. ASSUME state = "memory", NEW m \in Launches, NEW r \in Roles, Alive(m, r)
      PROVE  SimOfLaunch(m) # SimOfLaunch(n)
  BY <1>2 DEF IInv, Named, RunRootBusy
<1> HIDE DEF state
<1>3. state \in {"memory", "failed"}
  BY DEF state
<1> QED
  BY <1>1, <1>2, <1>3, PcKeeps

\* The run directory is cleared: no live process loses its pid file.
LEMMA PrepareKeeps ==
    ASSUME IInv, NEW n \in Launches, Prepare(n)
    PROVE  IInv'
<1> DEFINE sim == SimOfLaunch(n)
<1>1. /\ pc[n] = "prepare"
      /\ pc' = [pc EXCEPT ![n] = "spawn"]
      /\ pidfile' = [pidfile EXCEPT ![sim] = [r \in Roles |-> None]]
      /\ next' = [next EXCEPT ![n] = 1]
      /\ UNCHANGED <<job, task, proc>>
  BY DEF Prepare, FreshRunRoot, Step
<1>2. task[n] \in Tasks /\ sim \in Sims
  BY <1>1, SimOfTask DEF IInv, Single, Busy, SimOfLaunch
<1>3. \A m \in Launches, r \in Roles : Alive(m, r) => SimOfLaunch(m) # sim
  BY <1>1 DEF IInv, Alone
<1>4. \A m \in Launches : /\ SimOfLaunch(m)' = SimOfLaunch(m)
                         /\ \A r \in Roles : Alive(m, r)' <=> Alive(m, r)
  BY <1>1 DEF SimOfLaunch, Alive
<1>5. \A m \in Launches : pc'[m] = IF m = n THEN "spawn" ELSE pc[m]
  BY <1>1 DEF IInv, Shapes
<1>6. \A m \in Launches, r \in Roles : Alive(m, r) =>
        SimOfLaunch(m) \in Sims /\ pidfile'[SimOfLaunch(m)] = pidfile[SimOfLaunch(m)]
  BY <1>1, <1>3, SimOfTask DEF IInv, Named, Shapes, SimOfLaunch
<1>7. Shapes'
  <2>1. None \in 0 .. MaxLaunches
    BY LabAssumption DEF None
  <2>2. pidfile' \in [Sims -> [Roles -> 0 .. MaxLaunches]]
    BY <1>1, <2>1 DEF IInv, Shapes
  <2> QED
    BY <1>1, <2>2 DEF IInv, Shapes, Busy
<1>8. Single'
  BY <1>1, <1>5 DEF IInv, Single, Busy
<1>9. Named'
  BY <1>1, <1>4, <1>6 DEF IInv, Named
<1>10. RunRootExclusive'
  BY <1>4 DEF IInv, RunRootExclusive
<1>11. Alone'
  BY <1>1, <1>3, <1>4, <1>5 DEF IInv, Alone
<1>12. Rooted'
  <2>1. ASSUME NEW m \in Launches, pc'[m] = "spawn"
        PROVE  Root(m)'
    <3>1. m = n
      BY <1>1, <1>5, <2>1 DEF IInv, Single, Busy
    <3>2. \A q \in Roles : pidfile'[sim][q] = None
      BY <1>1, <1>2 DEF IInv, Shapes
    <3> QED
      BY <1>4, <3>1, <3>2 DEF Root
  <2>2. ASSUME NEW m \in Launches, NEW r \in Roles, Alive(m, r)'
        PROVE  Root(m)'
    BY <1>4, <1>6, <2>2 DEF IInv, Rooted, Root
  <2> QED
    BY <2>1, <2>2 DEF Rooted
<1> QED
  BY <1>7, <1>8, <1>9, <1>10, <1>11, <1>12 DEF IInv

\* A process is started in a run directory where only its own launch lives.
LEMMA SpawnKeeps ==
    ASSUME IInv, NEW n \in Launches, Spawn(n)
    PROVE  IInv'
<1> DEFINE sim == SimOfLaunch(n)
           r == LaunchOrder(sim)[next[n]]
<1>1. /\ pc[n] = "spawn"
      /\ next[n] <= Len(LaunchOrder(sim))
      /\ proc' = [proc EXCEPT ![n][r] = "live"]
      /\ pidfile' = [pidfile EXCEPT ![sim][r] = n]
      /\ next' = [next EXCEPT ![n] = next[n] + 1]
      /\ UNCHANGED <<job, task, pc>>
  BY DEF Spawn, Started
<1>2. task[n] \in Tasks /\ sim \in Sims
  BY <1>1, SimOfTask DEF IInv, Single, Busy, SimOfLaunch
<1>3. r \in Roles
  BY <1>1, <1>2, OrderHasRoles DEF IInv, Shapes
<1> HIDE DEF r
<1>4. \A m \in Launches : SimOfLaunch(m)' = SimOfLaunch(m)
  BY <1>1 DEF SimOfLaunch
<1>5. \A m \in Launches, q \in Roles : Alive(m, q)' => Alive(m, q) \/ (m = n /\ q = r)
  BY <1>1, <1>3 DEF IInv, Shapes, Alive
<1>6. \A m \in Launches, q \in Roles : Alive(m, q) /\ SimOfLaunch(m) = sim => m = n
  BY <1>1 DEF IInv, Alone
<1>7. Shapes'
  <2>1. n \in 0 .. MaxLaunches
    BY LabAssumption DEF Launches
  <2>2. pidfile' \in [Sims -> [Roles -> 0 .. MaxLaunches]]
    BY <1>1, <2>1 DEF IInv, Shapes
  <2>3. proc' \in [Launches -> [Roles -> States]]
    BY <1>1 DEF IInv, Shapes, States
  <2>4. next' \in [Launches -> Nat] /\ \A m \in Launches : next'[m] \in Nat \ {0}
    BY <1>1 DEF IInv, Shapes
  <2> QED
    BY <1>1, <2>2, <2>3, <2>4 DEF IInv, Shapes
<1>8. \A q \in Roles : pidfile'[sim][q] = IF q = r THEN n ELSE pidfile[sim][q]
  BY <1>1, <1>2 DEF IInv, Shapes
<1>9. \A other \in Sims \ {sim} : pidfile'[other] = pidfile[other]
  BY <1>1 DEF IInv, Shapes
<1>10. \A m \in Launches, q \in Roles : Alive(m, q) => task[m] \in Tasks /\ SimOfLaunch(m) \in Sims
  BY SimOfTask DEF IInv, Named, SimOfLaunch
<1>11. Single'
  BY <1>1 DEF IInv, Single
<1>12. Named'
  <2> SUFFICES ASSUME NEW m \in Launches, NEW q \in Roles, Alive(m, q)'
               PROVE  task'[m] \in Tasks /\ pidfile'[SimOfLaunch(m)][q] = m
    BY <1>4 DEF Named
  <2>1. CASE m = n /\ q = r
    BY <1>1, <1>2, <1>8, <2>1
  <2>2. CASE Alive(m, q) /\ ~(m = n /\ q = r)
    <3>1. task[m] \in Tasks /\ pidfile[SimOfLaunch(m)][q] = m /\ SimOfLaunch(m) \in Sims
      BY <2>2, <1>10 DEF IInv, Named
    <3>2. CASE SimOfLaunch(m) = sim
      BY <1>1, <1>6, <1>8, <2>2, <3>1, <3>2
    <3>3. CASE SimOfLaunch(m) # sim
      BY <1>1, <1>9, <3>1, <3>3
    <3> QED
      BY <3>2, <3>3
  <2> QED
    BY <1>5, <2>1, <2>2
<1>13. RunRootExclusive'
  BY <1>4, <1>5, <1>6 DEF IInv, RunRootExclusive
<1>14. Alone'
  <2> SUFFICES ASSUME NEW k \in Launches, NEW m \in Launches, NEW q \in Roles,
                      Alive(m, q)', pc[k] \in {"memory", "prepare", "spawn"}, SimOfLaunch(m) = SimOfLaunch(k)
               PROVE  pc[k] = "spawn" /\ m = k
    BY <1>1, <1>4 DEF Alone
  <2>1. k = n
    BY <1>1 DEF IInv, Single, Busy
  <2> QED
    BY <1>1, <1>5, <1>6, <2>1
<1>15. Rooted'
  <2>1. Root(n)'
    BY <1>1, <1>4, <1>8 DEF IInv, Rooted, Root
  <2>2. ASSUME NEW m \in Launches, pc'[m] = "spawn"
        PROVE  m = n
    BY <1>1, <2>2 DEF IInv, Single, Busy
  <2>3. ASSUME NEW m \in Launches, NEW q \in Roles, Alive(m, q)', m # n
        PROVE  Root(m)'
    <3>1. Alive(m, q) /\ Root(m)
      BY <1>5, <2>3 DEF IInv, Rooted
    <3>2. SimOfLaunch(m) \in Sims \ {sim}
      BY <1>6, <1>10, <2>3, <3>1
    <3> QED
      BY <1>4, <1>9, <3>1, <3>2 DEF Root
  <2> QED
    BY <2>1, <2>2, <2>3 DEF Rooted
<1> QED
  BY <1>7, <1>11, <1>12, <1>13, <1>14, <1>15 DEF IInv

\* The launcher gives up: its processes are signalled, their pid files stay.
LEMMA AbortKeeps ==
    ASSUME IInv, NEW n \in Launches, Abort(n)
    PROVE  IInv'
<1>1. /\ pc[n] = "spawn"
      /\ pc' = [pc EXCEPT ![n] = "failed"]
      /\ proc' = [proc EXCEPT ![n] = [r \in Roles |-> Term(proc[n][r])]]
      /\ UNCHANGED <<job, task, next, pidfile>>
  BY DEF Abort, Step, files
<1>2. \A r \in Roles : /\ Term(proc[n][r]) \in States
                       /\ Term(proc[n][r]) \in {"live", "term"} => proc[n][r] \in {"live", "term"}
  BY DEF IInv, Shapes, States, Term
<1>3. proc' \in [Launches -> [Roles -> States]]
  BY <1>1, <1>2 DEF IInv, Shapes
<1>4. \A m \in Launches, q \in Roles : Alive(m, q)' => Alive(m, q)
  BY <1>1, <1>2 DEF IInv, Shapes, Alive
<1>5. \A m \in Launches : SimOfLaunch(m)' = SimOfLaunch(m)
  BY <1>1 DEF SimOfLaunch
<1>a. \A m \in Launches : pc'[m] = IF m = n THEN "failed" ELSE pc[m]
  BY <1>1 DEF IInv, Shapes
<1>b. \A m \in Launches : Root(m) => Root(m)'
  BY <1>1, <1>5 DEF Root
<1>6. Shapes'
  BY <1>1, <1>3 DEF IInv, Shapes, Busy
<1>7. Single'
  BY <1>1, <1>a DEF IInv, Single, Busy
<1>8. Named' /\ RunRootExclusive'
  BY <1>1, <1>4, <1>5 DEF IInv, Named, RunRootExclusive
<1>9. Alone'
  BY <1>4, <1>5, <1>a DEF IInv, Alone
<1>10. Rooted'
  BY <1>4, <1>a, <1>b DEF IInv, Rooted
<1> QED
  BY <1>6, <1>7, <1>8, <1>9, <1>10 DEF IInv

\* All steps of a launcher, its death included.
LEMMA LauncherKeeps ==
    ASSUME IInv, NEW n \in Launches, Launcher(n) \/ LauncherDies(n)
    PROVE  IInv'
<1>1. CASE \E available \in Available : CheckMemory(n, available)
  <2>1. PICK available \in Available : CheckMemory(n, available)
    BY <1>1
  <2> DEFINE state == IF available < Reserve + LaunchHeadroom(SimOfLaunch(n)) THEN "failed" ELSE "prepare"
  <2>2. Step(n, state) /\ UNCHANGED <<job, task, proc, pidfile, next>> /\ pc[n] = "memory" /\ pc[n] \in Busy
    BY <2>1 DEF CheckMemory, files, Busy
  <2>3. state \in {"failed", "prepare"}
    OBVIOUS
  <2> HIDE DEF state
  <2> QED
    BY <2>2, <2>3, PcKeeps
<1>2. CASE PrepareFails(n)
  BY <1>2, PcKeeps DEF PrepareFails, files, Busy
<1>3. CASE Publish(n)
  BY <1>3, PcKeeps DEF Publish, Busy
<1>4. CASE LauncherDies(n)
  BY <1>4, PcKeeps DEF LauncherDies, files, Busy
<1> QED
  BY <1>1, <1>2, <1>3, <1>4, CheckKeeps, PrepareKeeps, SpawnKeeps, AbortKeeps DEF Launcher

----------------------------------------------------------------------------
(* Stop scripts, guards and processes *)

\* A step of a stop script, of the workbench or of a guard.
LEMMA SignalKeeps ==
    ASSUME IInv, NEW sim \in Sims, NEW k \in 1 .. Len(StopOrder), Signal(sim, StopOrder[k]),
           UNCHANGED <<job, task, pc, next, pidfile>>
    PROVE  IInv'
<1>1. StopOrder[k] \in Roles
  <2>1. k \in {1, 2, 3, 4}
    BY DEF StopOrder
  <2> QED
    BY <2>1 DEF StopOrder, Roles
<1>2. /\ proc' \in [Launches -> [Roles -> States]]
      /\ \A m \in Launches, q \in Roles : Alive(m, q)' => Alive(m, q)
  BY <1>1, SignalFades DEF IInv
<1> QED
  BY <1>2, FadingKeeps

\* A process that ends.
LEMMA GoneKeeps ==
    ASSUME IInv, NEW n \in Launches, NEW r \in Roles,
           proc' = [proc EXCEPT ![n][r] = "gone"],
           UNCHANGED <<job, task, pc, next, pidfile>>
    PROVE  IInv'
<1>1. proc' \in [Launches -> [Roles -> States]]
  BY DEF IInv, Shapes, States
<1>2. \A m \in Launches, q \in Roles : Alive(m, q)' => Alive(m, q)
  BY DEF IInv, Shapes, Alive
<1> QED
  BY <1>1, <1>2, FadingKeeps

\* A guard takes a sample.
LEMMA SampleKeeps ==
    ASSUME IInv, UNCHANGED <<job, task, pc, next, proc, pidfile>>
    PROVE  IInv'
<1>1. /\ proc' \in [Launches -> [Roles -> States]]
      /\ \A m \in Launches, q \in Roles : Alive(m, q)' => Alive(m, q)
  BY DEF IInv, Shapes, Alive
<1> QED
  BY <1>1, FadingKeeps

\* Stop scripts never leave their order.
LEMMA ScriptsKeep ==
    ASSUME IInv, Scripts, Next
    PROVE  Scripts'
<1>0. Len(StopOrder) = 4
  BY DEF StopOrder
<1>1. CASE \E t \in Tasks : StartTask(t)
  <2>1. PICK t \in Tasks, n \in Launches : task[n] = None /\ task' = [task EXCEPT ![n] = t]
    BY <1>1 DEF StartTask
  <2>2. UNCHANGED <<stop, guardStop>>
    BY <1>1 DEF StartTask
  <2>3. \A m \in Launches : task'[m] \in Tasks \/ task'[m] = task[m]
    BY <2>1 DEF IInv, Shapes
  <2> QED
    BY <2>2, <2>3 DEF Scripts
<1>2. CASE \E t \in Tasks : StopTask(t)
  <2>1. PICK t \in Tasks : stop' = [stop EXCEPT ![SimOf[t]] = 1] /\ UNCHANGED <<task, guardStop>>
    BY <1>2 DEF StopTask
  <2>2. SimOf[t] \in Sims
    BY SimOfTask
  <2> QED
    BY <1>0, <2>1, <2>2 DEF Scripts
<1>3. CASE \E sim \in Sims : StopStep(sim)
  <2>1. PICK sim \in Sims :
          /\ stop[sim] > 0
          /\ stop' = [stop EXCEPT ![sim] = IF stop[sim] = Len(StopOrder) THEN 0 ELSE stop[sim] + 1]
          /\ UNCHANGED <<task, guardStop>>
    BY <1>3 DEF StopStep
  <2>2. (IF stop[sim] = Len(StopOrder) THEN 0 ELSE stop[sim] + 1) \in 0 .. Len(StopOrder)
    BY <1>0, <2>1 DEF Scripts
  <2> QED
    BY <2>1, <2>2 DEF Scripts
<1>4. CASE \E n \in Launches : GuardStep(n)
  <2>1. PICK n \in Launches :
          /\ guardStop[n] \in 1 .. Len(StopOrder)
          /\ guardStop' = [guardStop EXCEPT ![n] = guardStop[n] + 1]
          /\ UNCHANGED <<task, stop>>
    BY <1>4 DEF GuardStep
  <2> QED
    BY <1>0, <2>1 DEF Scripts
<1>5. CASE \E n \in Launches, available \in Available : GuardSample(n, available)
  <2>1. PICK n \in Launches, available \in Available : GuardSample(n, available)
    BY <1>5
  <2>2. \E k \in {0, 1} : guardStop' = [guardStop EXCEPT ![n] = k]
    BY <2>1 DEF GuardSample
  <2>3. UNCHANGED <<task, stop>>
    BY <2>1 DEF GuardSample
  <2>4. task[n] \in Tasks
    <3>1. "guard" \in Roles
      BY DEF Roles
    <3>2. Alive(n, "guard")
      BY <2>1 DEF GuardSample, Guarding, Alive
    <3> QED
      BY <3>1, <3>2 DEF IInv, Named
  <2> QED
    BY <2>2, <2>3, <2>4 DEF Scripts
<1>6. ASSUME UNCHANGED <<task, stop, guardStop>>
      PROVE  Scripts'
  BY <1>6 DEF Scripts
<1>7. CASE Wait \/ Restart
  BY <1>6, <1>7 DEF Wait, Restart
<1>8. CASE \E n \in Launches : Launcher(n) \/ LauncherDies(n)
  BY <1>6, <1>8 DEF Launcher, LauncherDies, Check, CheckMemory, PrepareFails, Prepare, Spawn, Abort, Publish
<1>9. CASE \E n \in Launches : GuardLeaves(n) \/ GuardEnds(n)
  BY <1>6, <1>9 DEF GuardLeaves, GuardEnds
<1>10. CASE \E n \in Launches, r \in Roles : Exit(n, r)
  BY <1>6, <1>10 DEF Exit
<1> QED
  BY <1>1, <1>2, <1>3, <1>4, <1>5, <1>7, <1>8, <1>9, <1>10 DEF Next, Guard

\* Every step keeps the invariant.
LEMMA NextKeeps ==
    ASSUME IInv, Scripts, ~RestartMidLaunch, Next
    PROVE  IInv'
<1>1. CASE \E t \in Tasks : StartTask(t) \/ StopTask(t)
  BY <1>1, StartTaskKeeps, SampleKeeps DEF StopTask, files
<1>2. CASE Wait \/ Restart
  BY <1>2, WaitKeeps, RestartKeeps
<1>3. CASE \E sim \in Sims : StopStep(sim)
  <2>1. PICK sim \in Sims : StopStep(sim)
    BY <1>3
  <2>2. stop[sim] \in 1 .. Len(StopOrder)
    BY <2>1 DEF Scripts, StopStep, StopOrder
  <2> QED
    BY <2>1, <2>2, SignalKeeps DEF StopStep, files
<1>4. CASE \E n \in Launches : Launcher(n) \/ LauncherDies(n)
  BY <1>4, LauncherKeeps
<1>5. CASE \E n \in Launches : GuardStep(n)
  <2>1. PICK n \in Launches : GuardStep(n)
    BY <1>5
  <2>2. guardStop[n] \in 1 .. Len(StopOrder) /\ guardStop[n] # 0
    BY <2>1 DEF GuardStep, StopOrder
  <2>3. SimOfLaunch(n) \in Sims
    BY <2>2, SimOfTask DEF Scripts, SimOfLaunch
  <2> QED
    BY <2>1, <2>2, <2>3, SignalKeeps DEF GuardStep, files
<1>6. CASE \E n \in Launches : GuardLeaves(n) \/ GuardEnds(n)
  <2>1. "guard" \in Roles
    BY DEF Roles
  <2> QED
    BY <1>6, <2>1, GoneKeeps DEF GuardLeaves, GuardEnds, files
<1>7. CASE \E n \in Launches, available \in Available : GuardSample(n, available)
  BY <1>7, SampleKeeps DEF GuardSample, files
<1>8. CASE \E n \in Launches, r \in Roles : Exit(n, r)
  BY <1>8, GoneKeeps DEF Exit, files
<1> QED
  BY <1>1, <1>2, <1>3, <1>4, <1>5, <1>6, <1>7, <1>8 DEF Next, Guard

\* So does a step that changes nothing.
LEMMA StutterKeeps ==
    ASSUME IInv, Scripts, UNCHANGED vars
    PROVE  IInv' /\ Scripts'
<1>1. UNCHANGED <<job, task, pc, next, proc, pidfile, stop, guardStop>>
  BY DEF vars
<1> QED
  BY <1>1, SampleKeeps DEF Scripts

\* The invariant holds throughout.
LEMMA Invariance ==
    ASSUME ~RestartMidLaunch
    PROVE  Spec => [](IInv /\ Scripts)
<1>1. Init => IInv /\ Scripts
  <2>1. ASSUME Init PROVE Scripts
    BY <2>1 DEF Init, Scripts, StopOrder
  <2> QED
    BY <2>1, Starts
<1>2. IInv /\ Scripts /\ [Next]_vars => IInv' /\ Scripts'
  BY ScriptsKeep, NextKeeps, StutterKeeps
<1> QED
  BY <1>1, <1>2, PTL DEF Spec

\* While the workbench is not restarted in the middle of a launch, the live processes of a run
\* directory belong to one launch: start_gem5 and start_qemu look for every pid file before
\* they remove them, and a live process always has one.
THEOREM RootExclusive == ~RestartMidLaunch => (Spec => []RunRootExclusive)
<1> SUFFICES ASSUME ~RestartMidLaunch
             PROVE  Spec => []RunRootExclusive
  OBVIOUS
<1>1. IInv /\ Scripts => RunRootExclusive
  BY DEF IInv
<1> QED
  BY <1>1, Invariance, PTL

\* Under the same condition the stop script of a live memory guard meets no pid file of
\* another launch, although it signals whatever the files name when it reads them.
THEOREM GuardOwn == ~RestartMidLaunch => (Spec => []GuardActsOnOwnRun)
<1> SUFFICES ASSUME ~RestartMidLaunch
             PROVE  Spec => []GuardActsOnOwnRun
  OBVIOUS
<1>1. IInv /\ Scripts => GuardActsOnOwnRun
  <2>1. "guard" \in Roles
    BY DEF Roles
  <2> QED
    BY <2>1 DEF IInv, Rooted, Root, GuardActsOnOwnRun
<1> QED
  BY <1>1, Invariance, PTL
=============================================================================
