---------------------------- MODULE MeasuredRuns ---------------------------
(***************************************************************************)
(* The drivers that measure a running system: the workbench's experiment   *)
(* worker (experiments.py, web.py), the regression suite                   *)
(* (run_modular_rma_regression.py) and the QEMU timing trial               *)
(* (run_qemu_timing_trial.py).                                             *)
(*                                                                         *)
(* A driver runs its cases one after the other.  For each it notes the     *)
(* size of every participant's log, gives the guests a benchmark over      *)
(* their consoles, and accepts the case when the benchmark succeeded and   *)
(* the fences logged since then form complete, equal sequences.  A         *)
(* benchmark whose console timed out goes on in the guests and may log its *)
(* fences into the window of a later case.                                 *)
(*                                                                         *)
(* Both guests are one benchmark; a console's wait for its prompt is the   *)
(* wait for that benchmark to end (module Consoles has the details).       *)
(***************************************************************************)
EXTENDS Integers, Sequences, FiniteSets, Functions

CONSTANTS
    Participants,  \* the processes that log fences; the network logs first
    Cases,         \* cases of a suite
    MaxRuns,       \* bound: runs of a driver
    MaxRestarts    \* bound: restarts of the simulated system

ASSUME ParticipantsAssumption == "network" \in Participants
ASSUME CasesAssumption == Cases \in Nat \ {0}
ASSUME BoundAssumption == MaxRuns \in Nat /\ MaxRestarts \in Nat

Guests == {0, 1}  \* the server and the client of a benchmark
Devices == {1, 2}
Fabric == 0  \* the network process among those observe_drain samples
NoCase == << 0, 0 >>
NoViewer == [run |-> 0, state |-> "none"]

VARIABLES
    driver,    \* the driver's process
    runs,      \* runs started
    status,    \* status.json of every experiment
    viewer,    \* a request for an experiment's details, with the state it has read
    console,   \* dual_serial_command.py
    benchmark, \* what the guests run: its case, phase and the participants that logged its fence
    logs,      \* fence lines of every participant's log
    generation,
    session,   \* restarts of the system, and whether its guests know the variable that asks for fences
    work       \* where every device's outstanding operation is

vars == <<driver, runs, status, viewer, console, benchmark, logs, generation, session, work>>
webVars == <<runs, status, viewer>>
simVars == <<benchmark, logs, generation, session, work>>

----------------------------------------------------------------------------
(* The simulated system: external *)

Started(case, sync) == [case |-> case, phase |-> "started", sync |-> sync, logged |-> Participants]
Quiet == [case |-> NoCase, phase |-> "idle", sync |-> FALSE, logged |-> Participants]

\* The benchmark enters, or leaves, synchronised simulation.
Toggle ==
    /\ benchmark.sync /\ benchmark.phase \in {"started", "inside"} /\ benchmark.logged = Participants
    /\ benchmark' = [benchmark EXCEPT !.phase = IF @ = "started" THEN "inside" ELSE "left", !.logged = {}]
    /\ generation' = generation + 1
    /\ UNCHANGED <<driver, webVars, console, logs, session, work>>

LogFence(p) ==
    /\ p \notin benchmark.logged
    /\ p = "network" \/ "network" \in benchmark.logged
    /\ logs' = [logs EXCEPT ![p] = Append(@, [generation |-> generation, case |-> benchmark.case,
                                              active |-> benchmark.phase = "inside"])]
    /\ benchmark' = [benchmark EXCEPT !.logged = @ \cup {p}]
    /\ UNCHANGED <<driver, webVars, console, generation, session, work>>

\* It ends, well or not; the console that waits for it sees its status.
End(rc) ==
    /\ benchmark.logged = Participants
    /\ benchmark.phase = "left" \/ (benchmark.phase = "started" /\ (benchmark.sync => rc = "error"))
    /\ benchmark' = Quiet
    /\ console' = IF console = "running" THEN rc ELSE console
    /\ UNCHANGED <<driver, webVars, logs, generation, session, work>>

\* An operation of the benchmark passes the network and the peer, and completes.
Issue(d) ==
    /\ benchmark.phase # "idle" /\ driver.kind = "trial" /\ work[d] = "none"
    /\ work' = [work EXCEPT ![d] = "device"]
    /\ UNCHANGED <<driver, webVars, console, benchmark, logs, generation, session>>

Progress(d) ==
    /\ work[d] # "none"
    /\ work' = [work EXCEPT ![d] =
                  CASE @ = "device" -> "network" [] @ = "network" -> "peer" [] @ = "peer" -> "none"]
    /\ UNCHANGED <<driver, webVars, console, benchmark, logs, generation, session>>

\* The user restarts the system: its logs begin anew.
Restart ==
    /\ session.restarts < MaxRestarts /\ driver.kind # "trial"
    /\ \E aware \in BOOLEAN : session' = [restarts |-> session.restarts + 1, aware |-> aware]
    /\ logs' = [p \in Participants |-> <<>>]
    /\ generation' = 0 /\ benchmark' = Quiet
    /\ work' = [d \in Devices |-> "none"]
    /\ console' = IF console \in {"waiting", "running"} THEN "error" ELSE console
    /\ UNCHANGED <<driver, webVars>>

----------------------------------------------------------------------------
(* Starting a driver *)

Driver(kind, suite, option, pc, run) ==
    [kind |-> kind, suite |-> suite, option |-> option, pc |-> pc, run |-> run, case |-> 0, offsets |-> [p \in Participants |-> 0],
     records |-> <<>>, launched |-> FALSE, stopped |-> FALSE, drained |-> 0, seen |-> {}, clean |-> TRUE,
     quiet |-> FALSE, exit |-> 0]

\* What a driver asks of its cases: fences (of experiments on gem5, and of the suites sync-smoke
\* and timing-send), and the result rows (the suites sync-smoke and full do not).
Suites == [fenced : BOOLEAN, rows : BOOLEAN]

Alive(r) == driver.pc # "exited" /\ driver.run = r

\* One driver at a time: start_experiment refuses while an experiment is running, the others
\* are started by hand.
Startable ==
    /\ runs < MaxRuns /\ driver.pc = "exited"
    /\ runs' = runs + 1

StartExperiment(suite) ==
    /\ Startable /\ suite.rows
    /\ status' = [status EXCEPT ![runs + 1] = "starting"]
    /\ driver' = Driver("experiment", suite, FALSE, "setup", runs + 1)
    /\ UNCHANGED <<viewer, console, simVars>>

StartRegression(suite, failFast) ==
    /\ Startable
    /\ driver' = Driver("regression", suite, failFast, "next", runs + 1)
    /\ UNCHANGED <<status, viewer, console, simVars>>

StartTrial(scan) ==
    /\ Startable /\ benchmark.phase = "idle"
    /\ driver' = Driver("trial", [fenced |-> FALSE, rows |-> TRUE], scan, "launch", runs + 1)
    /\ UNCHANGED <<status, viewer, console, simVars>>

----------------------------------------------------------------------------
(* Experiment status *)

SetStatus(state) == status' = [status EXCEPT ![driver.run] = state]

\* run: the preflight, provenance and the first durable status, then the network set-up.
Setup ==
    /\ driver.pc = "setup"
    /\ \/ SetStatus("running") /\ driver' = [driver EXCEPT !.pc = "network"]
       \/ status' = status /\ driver' = [driver EXCEPT !.pc = "failed"]
    /\ UNCHANGED <<runs, viewer, console, simVars>>

SetupNetwork ==
    /\ driver.pc = "network"
    /\ \E up \in BOOLEAN : driver' = [driver EXCEPT !.pc = IF up THEN "next" ELSE "failed"]
    /\ UNCHANGED <<webVars, console, simVars>>

\* main: an exception ends as a failed experiment.
Fail ==
    /\ driver.pc = "failed"
    /\ SetStatus("failed")
    /\ driver' = [driver EXCEPT !.pc = "exited", !.exit = 1]
    /\ UNCHANGED <<runs, viewer, console, simVars>>

\* The worker is killed while it runs.
Killed ==
    /\ driver.kind = "experiment" /\ status[driver.run] = "running" /\ driver.pc # "exited"
    /\ driver' = [driver EXCEPT !.pc = "exited", !.exit = 1]
    /\ console' = "idle"
    /\ UNCHANGED <<webVars, simVars>>

\* experiment_detail reads the status,
DetailRead(r) ==
    /\ viewer = NoViewer /\ status[r] \notin {"none", "finished", "failed"}
    /\ viewer' = [run |-> r, state |-> status[r]]
    /\ UNCHANGED <<driver, runs, status, console, simVars>>

MutOrphaned(v) == v.state = "starting" /\ ~Alive(v.run)
Orphaned(v) == v.state = "running" /\ ~Alive(v.run)

\* and then looks whether the worker lives.
DetailWrite ==
    /\ viewer # NoViewer
    /\ status' = IF Orphaned(viewer) THEN [status EXCEPT ![viewer.run] = "failed"] ELSE status
    /\ viewer' = NoViewer
    /\ UNCHANGED <<driver, runs, console, simVars>>

----------------------------------------------------------------------------
(* Cases *)

\* The offsets are taken and the console program is started.
NextCase ==
    /\ driver.pc = "next" /\ driver.case < Cases
    /\ driver' = [driver EXCEPT !.pc = "case", !.case = @ + 1,
                                !.offsets = [p \in Participants |-> Len(logs[p])]]
    /\ console' = "waiting"
    /\ UNCHANGED <<webVars, simVars>>

\* It sends the benchmark to guests at their prompts and waits for its end,
Send ==
    /\ console = "waiting" /\ benchmark.phase = "idle"
    /\ benchmark' = Started(<<driver.run, driver.case>>, driver.suite.fenced /\ session.aware)
    /\ console' = "running"
    /\ UNCHANGED <<driver, webVars, logs, generation, session, work>>

\* or gives up.
Timeout ==
    /\ console \in {"waiting", "running"}
    /\ console' = "timeout"
    /\ UNCHANGED <<driver, webVars, simVars>>

\* collect_fence_deltas: what was logged since, nothing when a log has become shorter.
Window(p) ==
    IF Len(logs[p]) < driver.offsets[p] THEN <<>>
    ELSE SubSeq(logs[p], driver.offsets[p] + 1, Len(logs[p]))

MutCompleteFences(w) == Len(w) % 2 = 0 /\ \A i \in DOMAIN w : w[i].active = (i % 2 = 1)
\* validate_fences: complete pairs of enter and leave with increasing generations,
CompleteFences(w) ==
    /\ w # <<>> /\ Len(w) % 2 = 0
    /\ \A i \in DOMAIN w : w[i].active = (i % 2 = 1)
    /\ \A i \in 1 .. Len(w) - 1 : w[i].generation < w[i + 1].generation
\* the same for all participants.
SameFences(v, w) ==
    Len(v) = Len(w) /\ \A i \in DOMAIN v : v[i].generation = w[i].generation /\ v[i].active = w[i].active

ValidFences(windows) ==
    /\ \A p \in Participants : Len(logs[p]) >= driver.offsets[p] /\ CompleteFences(windows[p])
    /\ \A p, q \in Participants : SameFences(windows[p], windows[q])

\* The guests that print a result row, each at most once: of a latency test only the client.
Printers(op) == IF op = "lat" THEN {1} ELSE Guests

\* parse_output: two equal rows of a bandwidth test, one of a latency test.
ParseOutput(op, printed) == Cardinality(printed) = (IF op = "bw" THEN 2 ELSE 1)
\* validate_depth_output, validate_bw_scan: a complete row, or scan, of each endpoint.
ValidateOutput(printed) == printed = Guests

Windows == [p \in Participants |-> Window(p)]
FencesGood == driver.suite.fenced => ValidFences(Windows)

\* A case has ended: the driver judges it, records it and goes on.
Judged(kind, accepted, measured, pc) ==
    /\ driver.pc = "case" /\ driver.kind = kind /\ console \in {"ok", "error", "timeout"}
    /\ driver' = [driver EXCEPT
         !.records = Append(@, [case |-> <<driver.run, driver.case>>, accepted |-> accepted,
                                measured |-> measured, windows |-> Windows]),
         !.pc = pc, !.quiet = benchmark.phase = "idle"]
    /\ console' = "idle"
    /\ UNCHANGED <<webVars, simVars>>

\* An experiment ends with its first bad case,
JudgeExperiment(op, printed) ==
    LET accepted == console = "ok" /\ FencesGood /\ ParseOutput(op, printed)
    IN Judged("experiment", accepted, printed = Printers(op), IF accepted THEN "next" ELSE "failed")

\* a suite goes on unless it was told otherwise,
JudgeRegression(printed) ==
    LET accepted == console = "ok" /\ FencesGood /\ (driver.suite.rows => ValidateOutput(printed))
    IN Judged("regression", accepted, printed = Guests, IF accepted \/ ~driver.option THEN "next" ELSE "report")

\* and a trial ends, but a scan goes on after a clean error of the guests.
JudgeTrial(printed) ==
    LET accepted == console = "ok" /\ ValidateOutput(printed)
    IN Judged("trial", accepted, printed = Guests,
              IF accepted \/ (driver.option /\ console # "timeout") THEN "next" ELSE "drain")

Judge ==
    \/ \E op \in {"bw", "lat"} : \E printed \in SUBSET Printers(op) : JudgeExperiment(op, printed)
    \/ \E printed \in SUBSET Guests : JudgeRegression(printed) \/ JudgeTrial(printed)

\* All cases have been run.
Done ==
    /\ driver.pc = "next" /\ driver.case = Cases
    /\ driver' = [driver EXCEPT
         !.pc = CASE driver.kind = "experiment" -> "finish"
                  [] driver.kind = "regression" -> "report"
                  [] driver.kind = "trial" -> "drain",
         !.quiet = benchmark.phase = "idle"]
    /\ UNCHANGED <<webVars, console, simVars>>

\* An experiment is finished,
Finish ==
    /\ driver.pc = "finish"
    /\ SetStatus("finished")
    /\ driver' = [driver EXCEPT !.pc = "exited"]
    /\ UNCHANGED <<runs, viewer, console, simVars>>

AllAccepted == Len(driver.records) = Cases /\ \A i \in DOMAIN driver.records : driver.records[i].accepted

Verdict == IF AllAccepted THEN 0 ELSE 1

\* and the others report.
Report ==
    /\ driver.pc = "report"
    /\ driver' = [driver EXCEPT !.pc = "exited", !.exit = Verdict]
    /\ UNCHANGED <<webVars, console, simVars>>

----------------------------------------------------------------------------
(* The trial starts and stops its own system *)

Launch ==
    /\ driver.pc = "launch"
    /\ \E up \in BOOLEAN :
         driver' = [driver EXCEPT !.launched = up, !.pc = IF up THEN "ready" ELSE "report"]
    /\ UNCHANGED <<webVars, console, simVars>>

\* Shell-ready banners, network and capabilities; an exception here still ends in "finally".
Ready ==
    /\ driver.pc = "ready"
    /\ \E up \in BOOLEAN : driver' = [driver EXCEPT !.pc = IF up THEN "next" ELSE "drain", !.quiet = TRUE]
    /\ UNCHANGED <<webVars, console, simVars>>

DeviceQuiet(d) == work[d] = "none" /\ \A e \in Devices : work[e] # "peer"
NetworkQuiet == \A d \in Devices : work[d] # "network"

\* observe_drain: in a round every process is sampled, in no fixed order, or does not answer.
Sample(process) ==
    /\ driver.pc = "drain" /\ driver.drained < 2 /\ process \notin driver.seen
    /\ driver' = [driver EXCEPT !.seen = @ \cup {process},
                    !.clean = @ /\ (IF process = Fabric THEN NetworkQuiet ELSE DeviceQuiet(process))]
    /\ UNCHANGED <<webVars, console, simVars>>

MutRound(sampled) == driver.drained + (IF driver.clean THEN 1 ELSE 0)
\* Two rounds in a row must find everything quiet.
Round(sampled) == IF driver.clean /\ sampled THEN driver.drained + 1 ELSE 0

EndRound ==
    /\ driver.pc = "drain" /\ driver.drained < 2
    /\ driver' = [driver EXCEPT !.seen = {}, !.clean = TRUE,
                                !.drained = Round(driver.seen = Devices \cup {Fabric})]
    /\ UNCHANGED <<webVars, console, simVars>>

\* The observation ends with two such rounds, at its deadline or with an error; the system
\* is stopped in every case.
MayStop == driver.pc = "drain" /\ driver.seen = {}
Stop ==
    /\ MayStop
    /\ driver' = [driver EXCEPT !.pc = "report", !.stopped = TRUE]
    /\ UNCHANGED <<webVars, console, simVars>>

----------------------------------------------------------------------------

Init ==
    /\ driver = Driver("none", [fenced |-> FALSE, rows |-> FALSE], FALSE, "exited", 0)
    /\ runs = 0
    /\ status = [r \in 1 .. MaxRuns |-> "none"]
    /\ viewer = NoViewer
    /\ console = "idle"
    /\ benchmark = Quiet
    /\ logs = [p \in Participants |-> <<>>]
    /\ generation = 0
    /\ session \in [restarts : {0}, aware : BOOLEAN]
    /\ work = [d \in Devices |-> "none"]

SystemStep == Toggle \/ (\E p \in Participants : LogFence(p)) \/ End("ok") \/ End("error")
DriverStep ==
    \/ Setup \/ SetupNetwork \/ Fail \/ NextCase \/ Send \/ Timeout \/ Judge \/ Done \/ Finish \/ Report
    \/ Launch \/ Ready \/ (\E p \in Devices \cup {Fabric} : Sample(p)) \/ EndRound \/ Stop

Next ==
    \/ \E suite \in Suites :
         StartExperiment(suite) \/ \E failFast \in BOOLEAN : StartRegression(suite, failFast)
    \/ \E scan \in BOOLEAN : StartTrial(scan)
    \/ DriverStep
    \/ Killed
    \/ \E r \in 1 .. MaxRuns : DetailRead(r)
    \/ DetailWrite
    \/ SystemStep
    \/ \E d \in Devices : Issue(d) \/ Progress(d)
    \/ Restart

Spec == Init /\ [][Next]_vars

\* A driver goes on and its console gives up in the end; so does the drain observation.  The
\* workbench's page asks for the details of an experiment until it has ended.
Fairness ==
    /\ WF_vars(DriverStep) /\ SF_vars(Stop)
    /\ \A r \in 1 .. MaxRuns : SF_vars(DetailRead(r))
    /\ WF_vars(DetailWrite)

FairSpec == Spec /\ Fairness

----------------------------------------------------------------------------
(* Properties *)

\* A record of a case measured in synchronised simulation: every participant logged the
\* entry and the exit of this very case, under the same generations, after the case began.
Fenced(record) ==
    \E entry, exit \in {f.generation : f \in Range(record.windows["network"])} :
        /\ entry < exit
        /\ \A p \in Participants :
             {[generation |-> entry, case |-> record.case, active |-> TRUE],
              [generation |-> exit, case |-> record.case, active |-> FALSE]} \subseteq Range(record.windows[p])

\* A case is accepted only if it was fenced and gave its results, where its driver asks for
\* them, whatever earlier benchmarks are still doing in the guests; and an experiment shown as
\* finished, a suite or a trial that exits with 0 has had every one of its cases accepted.
SuccessMeansMeasured ==
    /\ \A i \in DOMAIN driver.records :
         driver.records[i].accepted =>
             /\ driver.suite.fenced => Fenced(driver.records[i])
             /\ driver.suite.rows => driver.records[i].measured
    /\ driver.pc = "exited" /\ runs > 0 /\ (driver.exit = 0 \/ status[driver.run] = "finished") => AllAccepted

\* A drain that was observed is real: when the guests were idle at its beginning, nothing is
\* in flight at its end, although the processes are sampled one by one.
ObservedDrainIsReal ==
    driver.kind = "trial" /\ driver.pc = "drain" /\ driver.drained > 0 /\ driver.quiet =>
        \A d \in Devices : work[d] = "none"

\* Every experiment ends as finished or failed, and every system a trial launched is stopped.
RunsSettle ==
    /\ \A r \in 1 .. MaxRuns : status[r] = "starting" ~> status[r] \in {"finished", "failed"}
    /\ \A r \in 1 .. MaxRuns :
         (driver.kind = "trial" /\ driver.run = r /\ driver.launched) ~> (driver.run = r /\ driver.stopped)
=============================================================================
