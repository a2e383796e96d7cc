------------------------ MODULE MeasuredRuns_proofs ------------------------
(***************************************************************************)
(* Proofs about the measurement drivers.                                   *)
(*                                                                         *)
(* A case's window may hold fences of an earlier benchmark that timed out, *)
(* so that complete windows alone do not show that the case was measured.  *)
(* It follows from the console: a benchmark is only given to guests at     *)
(* their prompts, and a console that saw it end well waited while the      *)
(* benchmark of this very case logged its entry and its exit (RunningInv,  *)
(* MarkInv, OkInv).  The alternative, a session whose guests do not know   *)
(* the variable that asks for fences, has empty logs (AskedInv), which     *)
(* validate_fences refuses.  A restart empties the logs and ends the       *)
(* console's wait.                                                         *)
(*                                                                         *)
(* A drain observed by samples taken one after the other is real because   *)
(* idle guests issue nothing: a device found without work stays so until   *)
(* the round ends (DrainInv).                                              *)
(***************************************************************************)
EXTENDS MeasuredRuns, FiniteSetTheorems, SequenceTheorems, TLAPS

----------------------------------------------------------------------------
(* Types *)

Kinds == {"none", "experiment", "regression", "trial"}
Pcs == {"exited", "setup", "network", "failed", "launch", "ready", "next", "case", "finish", "drain", "report"}
States == {"none", "starting", "running", "finished", "failed"}
CaseId == Nat \X Nat
Fence == [generation : Nat, case : CaseId, active : BOOLEAN]
CaseRecord == [case : CaseId, accepted : BOOLEAN, measured : BOOLEAN, windows : [Participants -> Seq(Fence)]]
DriverRecord ==
    [kind : Kinds, suite : Suites, option : BOOLEAN, pc : Pcs, run : 0 .. MaxRuns, case : 0 .. Cases,
     offsets : [Participants -> Nat], records : Seq(CaseRecord), launched : BOOLEAN, stopped : BOOLEAN,
     drained : 0 .. 2, seen : SUBSET (Devices \cup {Fabric}), clean : BOOLEAN, quiet : BOOLEAN, exit : {0, 1}]
Benchmark ==
    [case : CaseId, phase : {"idle", "started", "inside", "left"}, sync : BOOLEAN, logged : SUBSET Participants]

WebType ==
    /\ runs \in 0 .. MaxRuns
    /\ status \in [1 .. MaxRuns -> States]
    /\ viewer \in [run : 0 .. MaxRuns, state : States]
SimType ==
    /\ benchmark \in Benchmark
    /\ logs \in [Participants -> Seq(Fence)]
    /\ generation \in Nat
    /\ session \in [restarts : Nat, aware : BOOLEAN]
    /\ work \in [Devices -> {"none", "device", "network", "peer"}]
TypeOK ==
    /\ driver \in DriverRecord
    /\ console \in {"idle", "waiting", "running", "ok", "error", "timeout"}
    /\ WebType /\ SimType

----------------------------------------------------------------------------
(* The inductive invariant *)

\* The driver is that of the last run, and only a driver at a case has a console.
RunInv ==
    /\ driver.kind = "none" => driver.pc = "exited"
    /\ runs > 0 => driver.run = runs
    /\ runs = 0 => driver.pc = "exited"
    /\ console # "idle" => driver.pc = "case"
    /\ driver.kind = "trial" => ~driver.suite.fenced

\* Every case that has been run is recorded; an experiment goes on only with accepted cases.
CountInv ==
    /\ driver.pc \in {"setup", "network", "launch", "ready"} => driver.case = 0 /\ driver.records = <<>>
    /\ driver.pc = "next" => Len(driver.records) = driver.case
    /\ driver.pc = "case" => Len(driver.records) + 1 = driver.case
    /\ driver.pc = "finish" => driver.kind = "experiment" /\ Len(driver.records) = Cases
    /\ driver.kind = "experiment" /\ driver.pc \in {"next", "case", "finish"} =>
         \A i \in DOMAIN driver.records : driver.records[i].accepted

\* What the outside sees of a run that has succeeded.
VerdictInv ==
    /\ driver.pc = "exited" /\ runs > 0 /\ driver.exit = 0 => AllAccepted
    /\ \A r \in 1 .. MaxRuns : status[r] = "finished" =>
         r <= runs /\ (r = runs => driver.pc = "exited" /\ AllAccepted)

\* Fences are logged by a benchmark that was asked for them, in a session that knows how.
AskedInv ==
    /\ benchmark.logged # Participants => benchmark.sync /\ benchmark.phase \in {"inside", "left"}
    /\ benchmark.sync => session.aware
    /\ ~session.aware => \A p \in Participants : logs[p] = <<>>

\* The participant p has logged a fence of the driver's case since the case began.
Has(p, g, active) ==
    \E k \in DOMAIN logs[p] :
        /\ k > driver.offsets[p]
        /\ logs[p][k] = [generation |-> g, case |-> <<driver.run, driver.case>>, active |-> active]

\* While a console waits, its logs grow; the benchmark it runs is that of the case.
RunningInv ==
    /\ console \in {"waiting", "running"} => \A p \in Participants : driver.offsets[p] <= Len(logs[p])
    /\ console = "running" =>
         /\ benchmark.phase # "idle"
         /\ benchmark.case = <<driver.run, driver.case>>
         /\ benchmark.sync = (driver.suite.fenced /\ session.aware)

\* The fences of the case, as far as its benchmark has come.
MarkInv ==
    console = "running" =>
        /\ benchmark.phase = "inside" => \A p \in benchmark.logged : Has(p, generation, TRUE)
        /\ benchmark.phase = "left" =>
             \E g \in Nat : /\ g < generation /\ \A p \in Participants : Has(p, g, TRUE)
                            /\ \A p \in benchmark.logged : Has(p, generation, FALSE)

\* A benchmark that ended well has logged its fences, and no other is running.
Marked == \E g, h \in Nat : g < h /\ \A p \in Participants : Has(p, g, TRUE) /\ Has(p, h, FALSE)
OkInv ==
    console = "ok" =>
        /\ benchmark.phase = "idle"
        /\ driver.suite.fenced => Marked \/ \A p \in Participants : logs[p] = <<>>

RecordInv ==
    \A i \in DOMAIN driver.records :
        driver.records[i].accepted =>
            /\ driver.suite.fenced => Fenced(driver.records[i])
            /\ driver.suite.rows => driver.records[i].measured

\* A trial begins with idle guests.  In a drain that began with idle guests no operation is
\* issued, and a device found quiet stays quiet.
DrainInv ==
    /\ driver.pc \in {"launch", "ready"} => driver.kind = "trial" /\ benchmark.phase = "idle"
    /\ driver.pc \notin {"drain", "report", "exited"} => driver.drained = 0 /\ driver.seen = {}
    /\ driver.pc = "drain" => driver.kind = "trial"
    /\ driver.pc = "drain" /\ driver.quiet =>
         /\ benchmark.phase = "idle"
         /\ driver.clean => \A d \in driver.seen \cap Devices : work[d] = "none"
         /\ driver.drained > 0 => \A d \in Devices : work[d] = "none"

IInv == RunInv /\ CountInv /\ VerdictInv /\ AskedInv /\ RunningInv /\ MarkInv /\ OkInv /\ RecordInv /\ DrainInv

----------------------------------------------------------------------------

\* Two names for what an action leaves alone.
SameSim == UNCHANGED <<benchmark, logs, generation, session, work>>
SameWeb == UNCHANGED <<runs, status, viewer>>

\* A new driver has its type,
LEMMA StartRecord ==
    ASSUME NEW kind \in Kinds, NEW suite \in Suites, NEW option \in BOOLEAN, NEW pc \in Pcs, NEW run \in 0 .. MaxRuns
    PROVE  Driver(kind, suite, option, pc, run) \in DriverRecord
  <1>1. /\ [p \in Participants |-> 0] \in [Participants -> Nat] /\ <<>> \in Seq(CaseRecord)
        /\ 0 \in 0 .. Cases /\ 0 \in 0 .. 2
    BY CasesAssumption
  <1> QED BY <1>1 DEF Driver, DriverRecord

\* and so have the windows of its logs.
LEMMA WindowType ==
    ASSUME driver \in DriverRecord, SimType
    PROVE  Windows \in [Participants -> Seq(Fence)]
  <1> SUFFICES ASSUME NEW p \in Participants PROVE Window(p) \in Seq(Fence)
    BY DEF Windows
  <1>1. logs[p] \in Seq(Fence) /\ driver.offsets[p] \in Nat
    BY DEF SimType, DriverRecord
  <1> QED BY <1>1 DEF Window

\* Guests at their prompts.
LEMMA QuietType == Quiet \in Benchmark
  <1>1. NoCase \in CaseId /\ Participants \in SUBSET Participants
    BY DEF NoCase, CaseId
  <1> QED BY <1>1 DEF Quiet, Benchmark

\* The run a new driver is given.
LEMMA StartType ==
    ASSUME TypeOK, Startable
    PROVE  runs + 1 \in 1 .. MaxRuns /\ runs' = runs + 1
  BY BoundAssumption DEF TypeOK, WebType, Startable

\* Types hold initially
LEMMA TypeInit == Init => TypeOK
  <1> SUFFICES ASSUME Init PROVE TypeOK OBVIOUS
  <1>1. driver \in DriverRecord
    <2>1. [fenced |-> FALSE, rows |-> FALSE] \in Suites BY DEF Suites
    <2>2. "none" \in Kinds /\ "exited" \in Pcs /\ 0 \in 0 .. MaxRuns BY BoundAssumption DEF Kinds, Pcs
    <2> QED BY <2>1, <2>2, StartRecord DEF Init
  <1>2. WebType BY BoundAssumption DEF Init, WebType, NoViewer, States
  <1>3. SimType BY QuietType DEF Init, SimType
  <1> QED BY <1>1, <1>2, <1>3 DEF TypeOK, Init

\* and are kept; that only a run of some kind gets to its end (Done) needs RunInv.
LEMMA TypeStep == TypeOK /\ RunInv /\ [Next]_vars => TypeOK'
  <1> SUFFICES ASSUME TypeOK, RunInv, [Next]_vars PROVE TypeOK' OBVIOUS
  <1> USE DEF webVars, simVars
  <1>d. driver \in DriverRecord BY DEF TypeOK
  <1>0. CASE UNCHANGED vars BY <1>0 DEF vars, TypeOK, WebType, SimType
  <1>1. ASSUME NEW suite \in Suites, StartExperiment(suite) PROVE TypeOK'
    <2>1. Startable BY <1>1 DEF StartExperiment
    <2>2. driver' = Driver("experiment", suite, FALSE, "setup", runs + 1) /\ runs + 1 \in 0 .. MaxRuns
      BY <1>1, <2>1, StartType, BoundAssumption DEF StartExperiment
    <2>3. driver' \in DriverRecord BY <2>2, StartRecord DEF Kinds, Pcs
    <2>4. status' \in [1 .. MaxRuns -> States] BY <1>1 DEF StartExperiment, TypeOK, WebType, States
    <2>5. WebType' BY <1>1, <2>1, <2>2, <2>4, StartType DEF StartExperiment, TypeOK, WebType
    <2> QED BY <1>1, <2>3, <2>5 DEF StartExperiment, TypeOK, SimType
  <1>2. ASSUME NEW suite \in Suites, NEW failFast \in BOOLEAN, StartRegression(suite, failFast) PROVE TypeOK'
    <2>1. Startable BY <1>2 DEF StartRegression
    <2>2. driver' \in DriverRecord BY <1>2, <2>1, StartType, StartRecord DEF StartRegression, Kinds, Pcs
    <2> QED BY <1>2, <2>1, <2>2, StartType DEF StartRegression, TypeOK, WebType, SimType, States
  <1>3. ASSUME NEW scan \in BOOLEAN, StartTrial(scan) PROVE TypeOK'
    <2>1. Startable BY <1>3 DEF StartTrial
    <2>2. [fenced |-> FALSE, rows |-> TRUE] \in Suites BY DEF Suites
    <2>3. driver' \in DriverRecord BY <1>3, <2>1, <2>2, StartType, StartRecord DEF StartTrial, Kinds, Pcs
    <2> QED BY <1>3, <2>1, <2>3, StartType DEF StartTrial, TypeOK, WebType, SimType, States
  <1>4. CASE Setup \/ SetupNetwork \/ Fail \/ Killed \/ Finish \/ Report \/ Launch \/ Ready
    <2>1. driver' \in DriverRecord
      <3>1. CASE Setup BY <1>d, <3>1 DEF Setup, DriverRecord, Pcs
      <3>2. CASE SetupNetwork BY <1>d, <3>2 DEF SetupNetwork, DriverRecord, Pcs
      <3>3. CASE Fail \/ Killed BY <1>d, <3>3 DEF Fail, Killed, DriverRecord, Pcs
      <3>4. CASE Finish BY <1>d, <3>4 DEF Finish, DriverRecord, Pcs
      <3>5. CASE Report
        <4>1. Verdict \in {0, 1} BY DEF Verdict
        <4> QED BY <1>d, <3>5, <4>1 DEF Report, DriverRecord, Pcs
      <3>6. CASE Launch BY <1>d, <3>6 DEF Launch, DriverRecord, Pcs
      <3>7. CASE Ready BY <1>d, <3>7 DEF Ready, DriverRecord, Pcs
      <3> QED BY <1>4, <3>1, <3>2, <3>3, <3>4, <3>5, <3>6, <3>7
    <2>2. WebType'
      <3>1. UNCHANGED <<runs, viewer>> BY <1>4 DEF Setup, SetupNetwork, Fail, Killed, Finish, Report, Launch, Ready
      <3>2. status' \in [1 .. MaxRuns -> States]
        BY <1>4 DEF Setup, SetupNetwork, Fail, Killed, Finish, Report, Launch, Ready, SetStatus, TypeOK, WebType, States
      <3> QED BY <3>1, <3>2 DEF TypeOK, WebType
    <2>3. SameSim /\ console' \in {console, "idle"}
      BY <1>4 DEF Setup, SetupNetwork, Fail, Killed, Finish, Report, Launch, Ready, SameSim
    <2> QED BY <2>1, <2>2, <2>3 DEF TypeOK, SimType, SameSim
  <1>5. CASE NextCase
    <2>1. driver.case + 1 \in 0 .. Cases BY <1>5, CasesAssumption DEF NextCase, TypeOK, DriverRecord
    <2>2. [p \in Participants |-> Len(logs[p])] \in [Participants -> Nat]
      BY DEF TypeOK, SimType
    <2>3. driver' \in DriverRecord BY <1>d, <1>5, <2>1, <2>2 DEF NextCase, DriverRecord, Pcs
    <2> QED BY <1>5, <2>3 DEF NextCase, TypeOK, WebType, SimType
  <1>6. CASE Send
    <2>1. <<driver.run, driver.case>> \in CaseId /\ (driver.suite.fenced /\ session.aware) \in BOOLEAN
      BY <1>d, CasesAssumption, BoundAssumption DEF DriverRecord, CaseId
    <2>2. benchmark' \in Benchmark BY <1>6, <2>1 DEF Send, Started, Benchmark
    <2> QED BY <1>6, <2>2 DEF Send, TypeOK, WebType, SimType
  <1>7. CASE Timeout BY <1>7 DEF Timeout, TypeOK, WebType, SimType
  <1>8. ASSUME NEW kind, NEW accepted \in BOOLEAN, NEW measured \in BOOLEAN, NEW pc \in Pcs,
               Judged(kind, accepted, measured, pc)
        PROVE  TypeOK'
    <2>1. <<driver.run, driver.case>> \in CaseId
      BY <1>d, CasesAssumption, BoundAssumption DEF DriverRecord, CaseId
    <2>2. PICK r : r = [case |-> <<driver.run, driver.case>>, accepted |-> accepted,
                        measured |-> measured, windows |-> Windows]
      OBVIOUS
    <2>3. r \in CaseRecord BY <1>d, <2>1, <2>2, WindowType DEF CaseRecord, TypeOK
    <2>4. PICK rs : rs = Append(driver.records, r) OBVIOUS
    <2>5. rs \in Seq(CaseRecord) BY <1>d, <2>3, <2>4 DEF DriverRecord
    <2>6. driver' = [driver EXCEPT !.records = rs, !.pc = pc, !.quiet = benchmark.phase = "idle"]
      BY <1>8, <2>2, <2>4 DEF Judged
    <2>7. driver' \in DriverRecord BY <1>d, <2>5, <2>6 DEF DriverRecord
    <2> QED BY <1>8, <2>7 DEF Judged, TypeOK, WebType, SimType
  <1>9. CASE Judge
    <2> USE DEF Pcs
    <2>1. ASSUME NEW op, NEW printed, JudgeExperiment(op, printed) PROVE TypeOK'
      BY <1>8, <2>1 DEF JudgeExperiment
    <2>2. ASSUME NEW printed, JudgeRegression(printed) PROVE TypeOK'
      BY <1>8, <2>2 DEF JudgeRegression
    <2>3. ASSUME NEW printed, JudgeTrial(printed) PROVE TypeOK'
      BY <1>8, <2>3 DEF JudgeTrial
    <2> QED BY <1>9, <2>1, <2>2, <2>3 DEF Judge
  <1>10. CASE Done
    <2>1. driver.kind \in Kinds \ {"none"} BY <1>d, <1>10 DEF Done, RunInv, DriverRecord
    <2>2. PICK pc \in Pcs : driver' = [driver EXCEPT !.pc = pc, !.quiet = benchmark.phase = "idle"]
      <3>1. CASE driver.kind = "experiment" BY <1>10, <3>1 DEF Done, Pcs
      <3>2. CASE driver.kind = "regression" BY <1>10, <3>2 DEF Done, Pcs
      <3>3. CASE driver.kind = "trial" BY <1>10, <3>3 DEF Done, Pcs
      <3> QED BY <2>1, <3>1, <3>2, <3>3 DEF Kinds
    <2>3. driver' \in DriverRecord BY <1>d, <2>2 DEF DriverRecord
    <2> QED BY <1>10, <2>3 DEF Done, TypeOK, WebType, SimType
  <1>11. ASSUME NEW process \in Devices \cup {Fabric}, Sample(process) PROVE TypeOK'
    <2>1. driver' \in DriverRecord BY <1>d, <1>11 DEF Sample, DriverRecord, NetworkQuiet, DeviceQuiet
    <2> QED BY <1>11, <2>1 DEF Sample, TypeOK, WebType, SimType
  <1>12. CASE EndRound
    <2>1. Round(driver.seen = Devices \cup {Fabric}) \in 0 .. 2 BY <1>d, <1>12 DEF EndRound, Round, DriverRecord
    <2>2. driver' \in DriverRecord BY <1>d, <1>12, <2>1 DEF EndRound, DriverRecord
    <2> QED BY <1>12, <2>2 DEF EndRound, TypeOK, WebType, SimType
  <1>13. CASE Stop
    <2>1. driver' \in DriverRecord BY <1>d, <1>13 DEF Stop, DriverRecord, Pcs
    <2> QED BY <1>13, <2>1 DEF Stop, TypeOK, WebType, SimType
  <1>14. ASSUME NEW r \in 1 .. MaxRuns, DetailRead(r) PROVE TypeOK'
    BY <1>14 DEF DetailRead, TypeOK, WebType, SimType
  <1>15. CASE DetailWrite
    <2>1. status' \in [1 .. MaxRuns -> States] BY <1>15 DEF DetailWrite, TypeOK, WebType, States
    <2>2. viewer' \in [run : 0 .. MaxRuns, state : States] BY <1>15, BoundAssumption DEF DetailWrite, NoViewer, States
    <2> QED BY <1>15, <2>1, <2>2 DEF DetailWrite, TypeOK, WebType, SimType
  <1>16. CASE Toggle
    <2>1. benchmark' \in Benchmark BY <1>16 DEF Toggle, Benchmark, TypeOK, SimType
    <2> QED BY <1>16, <2>1 DEF Toggle, TypeOK, WebType, SimType
  <1>17. ASSUME NEW p \in Participants, LogFence(p) PROVE TypeOK'
    <2>1. PICK f : f = [generation |-> generation, case |-> benchmark.case, active |-> benchmark.phase = "inside"]
      OBVIOUS
    <2>2. f \in Fence BY <2>1 DEF Fence, TypeOK, SimType, Benchmark
    <2>3. logs' = [logs EXCEPT ![p] = Append(@, f)] BY <1>17, <2>1 DEF LogFence
    <2>4. logs' \in [Participants -> Seq(Fence)] BY <2>2, <2>3 DEF TypeOK, SimType
    <2>5. benchmark' \in Benchmark BY <1>17 DEF LogFence, Benchmark, TypeOK, SimType
    <2> QED BY <1>17, <2>4, <2>5 DEF LogFence, TypeOK, WebType, SimType
  <1>18. CASE End("ok") \/ End("error")
    BY <1>18, QuietType DEF End, TypeOK, WebType, SimType
  <1>19. ASSUME NEW d \in Devices, Issue(d) \/ Progress(d) PROVE TypeOK'
    BY <1>19 DEF Issue, Progress, TypeOK, WebType, SimType
  <1>20. CASE Restart
    BY <1>20, QuietType DEF Restart, TypeOK, WebType, SimType
  <1> QED
    BY <1>0, <1>1, <1>2, <1>3, <1>4, <1>5, <1>6, <1>7, <1>9, <1>10, <1>11, <1>12, <1>13, <1>14, <1>15, <1>16, <1>17,
       <1>18, <1>19, <1>20 DEF Next, DriverStep, SystemStep

----------------------------------------------------------------------------
(* What the driver's actions change *)

\* The action leaves the driver's case and its records alone,
SameCase ==
    /\ driver'.kind = driver.kind /\ driver'.suite = driver.suite /\ driver'.option = driver.option
    /\ driver'.run = driver.run /\ driver'.case = driver.case
    /\ driver'.offsets = driver.offsets /\ driver'.records = driver.records
\* and what it observes of the drain.
SameDrain == driver'.drained = driver.drained /\ driver'.seen = driver.seen /\ driver'.clean = driver.clean

\* Where the set-up of an experiment and of a trial leads.
LEMMA SetupFields ==
    ASSUME TypeOK, Setup \/ SetupNetwork \/ Launch \/ Ready
    PROVE  /\ SameCase /\ SameDrain /\ driver'.exit = driver.exit
           /\ driver.pc = "setup" => driver'.pc \in {"network", "failed"}
           /\ driver.pc = "network" => driver'.pc \in {"next", "failed"}
           /\ driver.pc = "launch" => driver'.pc \in {"ready", "report"}
           /\ driver.pc = "ready" => driver'.pc \in {"next", "drain"}
           /\ driver.pc \in {"setup", "network", "launch", "ready"}
  <1>1. PICK d \in DriverRecord : d = driver BY DEF TypeOK
  <1>2. CASE Setup
    <2>1. PICK pc \in {"network", "failed"} : driver' = [d EXCEPT !.pc = pc] BY <1>1, <1>2 DEF Setup
    <2> QED BY <1>1, <1>2, <2>1 DEF Setup, SameCase, SameDrain, DriverRecord
  <1>3. CASE SetupNetwork
    <2>1. PICK pc \in {"next", "failed"} : driver' = [d EXCEPT !.pc = pc] BY <1>1, <1>3 DEF SetupNetwork
    <2> QED BY <1>1, <1>3, <2>1 DEF SetupNetwork, SameCase, SameDrain, DriverRecord
  <1>4. CASE Launch
    <2>1. PICK pc \in {"ready", "report"}, up \in BOOLEAN : driver' = [d EXCEPT !.launched = up, !.pc = pc] BY <1>1, <1>4 DEF Launch
    <2> QED BY <1>1, <1>4, <2>1 DEF Launch, SameCase, SameDrain, DriverRecord
  <1>5. CASE Ready
    <2>1. PICK pc \in {"next", "drain"} : driver' = [d EXCEPT !.pc = pc, !.quiet = TRUE] BY <1>1, <1>5 DEF Ready
    <2> QED BY <1>1, <1>5, <2>1 DEF Ready, SameCase, SameDrain, DriverRecord
  <1> QED BY <1>2, <1>3, <1>4, <1>5

\* How a run ends.
LEMMA EndFields ==
    ASSUME TypeOK, Fail \/ Killed \/ Finish \/ Report
    PROVE  /\ SameCase /\ SameDrain /\ driver'.pc = "exited" /\ driver.pc # "exited"
           /\ Fail \/ Killed => driver'.exit = 1
           /\ Finish => driver'.exit = driver.exit
           /\ Report => driver'.exit = Verdict
  <1>1. PICK d \in DriverRecord : d = driver BY DEF TypeOK
  <1>2. ASSUME Fail \/ Killed
        PROVE  SameCase /\ SameDrain /\ driver'.pc = "exited" /\ driver'.exit = 1 /\ driver.pc # "exited"
    <2>1. driver' = [d EXCEPT !.pc = "exited", !.exit = 1] BY <1>1, <1>2 DEF Fail, Killed
    <2>2. driver.pc # "exited" BY <1>2 DEF Fail, Killed
    <2> QED BY <1>1, <2>1, <2>2 DEF SameCase, SameDrain, DriverRecord
  <1>3. ASSUME Finish
        PROVE  SameCase /\ SameDrain /\ driver'.pc = "exited" /\ driver'.exit = driver.exit /\ driver.pc # "exited"
    <2>1. driver' = [d EXCEPT !.pc = "exited"] BY <1>1, <1>3 DEF Finish
    <2> QED BY <1>1, <1>3, <2>1 DEF Finish, SameCase, SameDrain, DriverRecord
  <1>4. ASSUME Report
        PROVE  SameCase /\ SameDrain /\ driver'.pc = "exited" /\ driver'.exit = Verdict /\ driver.pc # "exited"
    <2>1. PICK v : v = Verdict OBVIOUS
    <2>2. driver' = [d EXCEPT !.pc = "exited", !.exit = v] BY <1>1, <1>4, <2>1 DEF Report
    <2>3. SameCase /\ SameDrain /\ driver'.pc = "exited" /\ driver'.exit = v
      BY <1>1, <2>2 DEF SameCase, SameDrain, DriverRecord
    <2> QED BY <1>4, <2>1, <2>3 DEF Report
  <1> QED BY <1>2, <1>3, <1>4

\* The beginning of a case.
LEMMA NextCaseFields ==
    ASSUME TypeOK, NextCase
    PROVE  /\ SameDrain /\ driver'.kind = driver.kind /\ driver'.suite = driver.suite
           /\ driver'.run = driver.run /\ driver'.records = driver.records
           /\ driver'.case = driver.case + 1 /\ driver'.offsets = [p \in Participants |-> Len(logs[p])]
           /\ driver'.pc = "case" /\ driver'.exit = driver.exit
  <1>1. PICK d \in DriverRecord : d = driver BY DEF TypeOK
  <1>2. PICK os : os = [p \in Participants |-> Len(logs[p])] OBVIOUS
  <1>3. driver' = [d EXCEPT !.pc = "case", !.case = d.case + 1, !.offsets = os] BY <1>1, <1>2 DEF NextCase
  <1> QED BY <1>1, <1>2, <1>3 DEF SameDrain, DriverRecord

\* After the last case.
LEMMA DoneFields ==
    ASSUME TypeOK, RunInv, Done
    PROVE  /\ SameCase /\ SameDrain /\ driver'.exit = driver.exit
           /\ \/ driver.kind = "experiment" /\ driver'.pc = "finish"
              \/ driver.kind = "regression" /\ driver'.pc = "report"
              \/ driver.kind = "trial" /\ driver'.pc = "drain"
           /\ driver'.quiet = (benchmark.phase = "idle")
  <1>1. PICK d \in DriverRecord : d = driver BY DEF TypeOK
  <1>2. driver.kind \in Kinds \ {"none"} BY <1>1 DEF Done, RunInv, DriverRecord
  <1>3. PICK q \in BOOLEAN : q = (benchmark.phase = "idle") OBVIOUS
  <1>4. PICK pc : pc = CASE driver.kind = "experiment" -> "finish"
                         [] driver.kind = "regression" -> "report"
                         [] driver.kind = "trial" -> "drain"
    OBVIOUS
  <1>5. \/ driver.kind = "experiment" /\ pc = "finish"
        \/ driver.kind = "regression" /\ pc = "report"
        \/ driver.kind = "trial" /\ pc = "drain"
    BY <1>2, <1>4 DEF Kinds
  <1>6. driver' = [d EXCEPT !.pc = pc, !.quiet = q] BY <1>1, <1>3, <1>4 DEF Done
  <1>7. SameCase /\ SameDrain /\ driver'.exit = driver.exit /\ driver'.pc = pc /\ driver'.quiet = q
    BY <1>1, <1>6 DEF SameCase, SameDrain, DriverRecord
  <1> QED BY <1>3, <1>5, <1>7

\* A judged case: its record is appended.
LEMMA JudgedFields ==
    ASSUME TypeOK, NEW kind, NEW accepted \in BOOLEAN, NEW measured \in BOOLEAN, NEW pc,
           Judged(kind, accepted, measured, pc)
    PROVE  /\ SameDrain /\ driver'.kind = driver.kind /\ driver'.suite = driver.suite
           /\ driver'.run = driver.run /\ driver'.case = driver.case /\ driver'.exit = driver.exit
           /\ driver'.pc = pc /\ driver'.quiet = (benchmark.phase = "idle")
           /\ driver'.records = Append(driver.records, [case |-> <<driver.run, driver.case>>, accepted |-> accepted,
                                                        measured |-> measured, windows |-> Windows])
           /\ driver.pc = "case" /\ driver.kind = kind /\ console' = "idle"
  <1>1. PICK d \in DriverRecord : d = driver BY DEF TypeOK
  <1>2. PICK rs : rs = Append(driver.records, [case |-> <<driver.run, driver.case>>, accepted |-> accepted,
                                               measured |-> measured, windows |-> Windows])
    OBVIOUS
  <1>3. PICK q \in BOOLEAN : q = (benchmark.phase = "idle") OBVIOUS
  <1>4. driver' = [d EXCEPT !.records = rs, !.pc = pc, !.quiet = q] BY <1>1, <1>2, <1>3 DEF Judged
  <1>5. /\ SameDrain /\ driver'.kind = driver.kind /\ driver'.suite = driver.suite
        /\ driver'.run = driver.run /\ driver'.case = driver.case /\ driver'.exit = driver.exit
        /\ driver'.pc = pc /\ driver'.quiet = q /\ driver'.records = rs
    BY <1>1, <1>4 DEF SameDrain, DriverRecord
  <1> QED BY <1>2, <1>3, <1>5 DEF Judged

\* A sample of one process,
LEMMA SampleFields ==
    ASSUME TypeOK, NEW process, Sample(process)
    PROVE  /\ SameCase /\ driver'.pc = "drain" /\ driver.pc = "drain" /\ driver'.exit = driver.exit
           /\ driver'.quiet = driver.quiet /\ driver'.drained = driver.drained
           /\ driver'.seen = driver.seen \cup {process}
           /\ driver'.clean => driver.clean /\ (process # Fabric => DeviceQuiet(process))
  <1>1. PICK d \in DriverRecord : d = driver BY DEF TypeOK
  <1>2. PICK c \in BOOLEAN : c = (driver.clean /\ (IF process = Fabric THEN NetworkQuiet ELSE DeviceQuiet(process)))
    OBVIOUS
  <1>3. driver' = [d EXCEPT !.seen = d.seen \cup {process}, !.clean = c] BY <1>1, <1>2 DEF Sample
  <1>4. /\ SameCase /\ driver'.pc = driver.pc /\ driver'.exit = driver.exit
        /\ driver'.quiet = driver.quiet /\ driver'.drained = driver.drained
        /\ driver'.seen = driver.seen \cup {process} /\ driver'.clean = c
    BY <1>1, <1>3 DEF SameCase, DriverRecord
  <1> QED BY <1>2, <1>4 DEF Sample

\* the end of a round,
LEMMA RoundFields ==
    ASSUME TypeOK, EndRound
    PROVE  /\ SameCase /\ driver'.pc = "drain" /\ driver.pc = "drain" /\ driver'.exit = driver.exit
           /\ driver'.quiet = driver.quiet /\ driver'.seen = {}
           /\ driver'.drained > 0 => driver.clean /\ driver.seen = Devices \cup {Fabric}
  <1>1. PICK d \in DriverRecord : d = driver BY DEF TypeOK
  <1>2. PICK n : n = Round(driver.seen = Devices \cup {Fabric}) OBVIOUS
  <1>3. n > 0 => driver.clean /\ driver.seen = Devices \cup {Fabric} BY <1>2 DEF Round
  <1>4. driver' = [d EXCEPT !.seen = {}, !.clean = TRUE, !.drained = n] BY <1>1, <1>2 DEF EndRound
  <1>5. /\ SameCase /\ driver'.pc = driver.pc /\ driver'.exit = driver.exit
        /\ driver'.quiet = driver.quiet /\ driver'.seen = {} /\ driver'.drained = n
    BY <1>1, <1>4 DEF SameCase, DriverRecord
  <1> QED BY <1>3, <1>5 DEF EndRound

\* and of the observation.
LEMMA StopFields ==
    ASSUME TypeOK, Stop
    PROVE  SameCase /\ driver'.pc = "report" /\ driver.pc = "drain" /\ driver'.exit = driver.exit
  <1>1. PICK d \in DriverRecord : d = driver BY DEF TypeOK
  <1>2. driver' = [d EXCEPT !.pc = "report", !.stopped = TRUE] BY <1>1 DEF Stop
  <1> QED BY <1>1, <1>2 DEF Stop, MayStop, SameCase, DriverRecord

\* A fresh driver.
LEMMA StartFields ==
    ASSUME NEW kind, NEW suite, NEW option, NEW pc, NEW run,
           driver' = Driver(kind, suite, option, pc, run)
    PROVE  /\ driver'.kind = kind /\ driver'.suite = suite /\ driver'.pc = pc /\ driver'.run = run
           /\ driver'.case = 0 /\ driver'.records = <<>> /\ driver'.drained = 0 /\ driver'.seen = {}
  BY DEF Driver

----------------------------------------------------------------------------
(* Runs and their cases *)

\* What the actions that only move the driver on have in common,
Moves ==
    \/ Setup \/ SetupNetwork \/ Fail \/ Killed \/ Finish \/ Report \/ Launch \/ Ready \/ Done
    \/ (\E p \in Devices \cup {Fabric} : Sample(p)) \/ EndRound \/ Stop
\* and those that leave it alone.
Elsewhere ==
    \/ Send \/ Timeout \/ (\E r \in 1 .. MaxRuns : DetailRead(r)) \/ DetailWrite \/ SystemStep
    \/ (\E d \in Devices : Issue(d) \/ Progress(d)) \/ Restart \/ UNCHANGED vars
Starts ==
    \/ \E suite \in Suites :
         StartExperiment(suite) \/ \E failFast \in BOOLEAN : StartRegression(suite, failFast)
    \/ \E scan \in BOOLEAN : StartTrial(scan)

\* The next-state relation by what it does to the driver.
LEMMA Steps ==
    ASSUME [Next]_vars
    PROVE  Starts \/ Moves \/ NextCase \/ Judge \/ Elsewhere
  BY DEF Next, DriverStep, Starts, Moves, Elsewhere

\* The driver moves on: its case, its records and the system are left alone.
LEMMA MovesSame ==
    ASSUME TypeOK, RunInv, Moves
    PROVE  /\ SameCase /\ SameSim /\ runs' = runs /\ viewer' = viewer
           /\ console' \in {console, "idle"} /\ (~Killed => console' = console)
           /\ driver.pc \notin {"exited"} /\ (~Killed => driver.pc # "case") /\ driver'.pc # "case"
  <1> USE DEF webVars, simVars
  <1>1. CASE Setup \/ SetupNetwork \/ Launch \/ Ready
    <2>1. /\ SameSim /\ runs' = runs /\ viewer' = viewer /\ console' = console
      BY <1>1 DEF Setup, SetupNetwork, Launch, Ready, SameSim
    <2> QED BY <1>1, <2>1, SetupFields
  <1>2. CASE Fail \/ Finish \/ Report
    <2>1. /\ SameSim /\ runs' = runs /\ viewer' = viewer /\ console' = console /\ driver.pc # "case"
      BY <1>2 DEF Fail, Finish, Report, SameSim
    <2> QED BY <1>2, <2>1, EndFields
  <1>3. CASE Killed
    <2>1. /\ SameSim /\ runs' = runs /\ viewer' = viewer /\ console' = "idle"
      BY <1>3 DEF Killed, SameSim
    <2> QED BY <1>3, <2>1, EndFields
  <1>4. CASE Done
    <2>1. /\ SameSim /\ runs' = runs /\ viewer' = viewer /\ console' = console /\ driver.pc = "next"
      BY <1>4 DEF Done, SameSim
    <2> QED BY <1>4, <2>1, DoneFields
  <1>5. ASSUME NEW p, Sample(p) PROVE SameCase /\ SameSim /\ runs' = runs /\ viewer' = viewer
                                      /\ console' = console /\ driver.pc = "drain" /\ driver'.pc # "case"
    <2>1. /\ SameSim /\ runs' = runs /\ viewer' = viewer /\ console' = console
      BY <1>5 DEF Sample, SameSim
    <2> QED BY <1>5, <2>1, SampleFields
  <1>6. CASE EndRound
    <2>1. /\ SameSim /\ runs' = runs /\ viewer' = viewer /\ console' = console
      BY <1>6 DEF EndRound, SameSim
    <2> QED BY <1>6, <2>1, RoundFields
  <1>7. CASE Stop
    <2>1. /\ SameSim /\ runs' = runs /\ viewer' = viewer /\ console' = console
      BY <1>7 DEF Stop, SameSim
    <2> QED BY <1>7, <2>1, StopFields
  <1>8. CASE \E p \in Devices \cup {Fabric} : Sample(p)
    BY <1>5, <1>8
  <1> QED BY <1>1, <1>2, <1>3, <1>4, <1>6, <1>7, <1>8 DEF Moves

\* The rest leaves the driver alone.
LEMMA ElsewhereSame ==
    ASSUME Elsewhere
    PROVE  /\ driver' = driver /\ runs' = runs
           /\ console = "idle" => console' = "idle"
  <1> USE DEF webVars, simVars
  <1>1. CASE Send \/ Timeout BY <1>1 DEF Send, Timeout
  <1>2. CASE DetailWrite BY <1>2 DEF DetailWrite
  <1>3. CASE Toggle \/ End("ok") \/ End("error") BY <1>3 DEF Toggle, End
  <1>4. CASE Restart BY <1>4 DEF Restart
  <1>5. CASE \E r \in 1 .. MaxRuns : DetailRead(r) BY <1>5 DEF DetailRead
  <1>6. CASE \E p \in Participants : LogFence(p) BY <1>6 DEF LogFence
  <1>7. CASE \E d \in Devices : Issue(d) \/ Progress(d) BY <1>7 DEF Issue, Progress
  <1>8. CASE UNCHANGED vars BY <1>8 DEF vars
  <1> QED BY <1>1, <1>2, <1>3, <1>4, <1>5, <1>6, <1>7, <1>8 DEF Elsewhere, SystemStep

\* A started driver; the console is idle, since no driver was at a case.
LEMMA StartsFresh ==
    ASSUME TypeOK, RunInv, Starts
    PROVE  /\ driver.pc = "exited" /\ runs' = runs + 1 /\ runs + 1 \in 1 .. MaxRuns
           /\ driver'.run = runs + 1 /\ driver'.case = 0 /\ driver'.records = <<>>
           /\ driver'.drained = 0 /\ driver'.seen = {}
           /\ \/ driver'.kind = "experiment" /\ driver'.pc = "setup" /\ driver'.suite.rows
              \/ driver'.kind = "regression" /\ driver'.pc = "next"
              \/ driver'.kind = "trial" /\ driver'.pc = "launch" /\ ~driver'.suite.fenced /\ benchmark.phase = "idle"
           /\ SameSim /\ console' = console /\ console = "idle"
           /\ \/ status' = status
              \/ status' = [status EXCEPT ![runs + 1] = "starting"]
  <1> USE DEF webVars, simVars
  <1>1. ASSUME NEW suite \in Suites, StartExperiment(suite)
        PROVE  /\ Startable /\ driver' = Driver("experiment", suite, FALSE, "setup", runs + 1) /\ suite.rows
               /\ SameSim /\ console' = console /\ status' = [status EXCEPT ![runs + 1] = "starting"]
    BY <1>1 DEF StartExperiment, SameSim
  <1>2. ASSUME NEW suite \in Suites, NEW failFast \in BOOLEAN, StartRegression(suite, failFast)
        PROVE  /\ Startable /\ driver' = Driver("regression", suite, failFast, "next", runs + 1)
               /\ SameSim /\ console' = console /\ status' = status
    BY <1>2 DEF StartRegression, SameSim
  <1>3. ASSUME NEW scan \in BOOLEAN, StartTrial(scan)
        PROVE  /\ Startable /\ driver' = Driver("trial", [fenced |-> FALSE, rows |-> TRUE], scan, "launch", runs + 1)
               /\ benchmark.phase = "idle" /\ SameSim /\ console' = console /\ status' = status
    BY <1>3 DEF StartTrial, SameSim
  <1>4. Startable BY <1>1, <1>2, <1>3 DEF Starts
  <1>5. driver.pc = "exited" /\ console = "idle" BY <1>4 DEF Startable, RunInv
  <1>6. runs' = runs + 1 /\ runs + 1 \in 1 .. MaxRuns BY <1>4, StartType
  <1>7. CASE \E suite \in Suites : StartExperiment(suite)
    <2>1. PICK suite \in Suites : StartExperiment(suite) BY <1>7
    <2>2. /\ driver'.kind = "experiment" /\ driver'.suite = suite /\ driver'.pc = "setup" /\ driver'.run = runs + 1
          /\ driver'.case = 0 /\ driver'.records = <<>> /\ driver'.drained = 0 /\ driver'.seen = {}
      BY <1>1, <2>1, StartFields
    <2> QED BY <1>1, <1>5, <1>6, <2>1, <2>2
  <1>8. CASE \E suite \in Suites : \E failFast \in BOOLEAN : StartRegression(suite, failFast)
    BY <1>2, <1>5, <1>6, <1>8, StartFields
  <1>9. CASE \E scan \in BOOLEAN : StartTrial(scan)
    <2>1. PICK suite : suite = [fenced |-> FALSE, rows |-> TRUE] OBVIOUS
    <2>2. ~suite.fenced BY <2>1
    <2>3. PICK scan \in BOOLEAN : StartTrial(scan) BY <1>9
    <2>4. driver' = Driver("trial", suite, scan, "launch", runs + 1) BY <1>3, <2>1, <2>3
    <2>5. /\ driver'.kind = "trial" /\ driver'.suite = suite /\ driver'.pc = "launch" /\ driver'.run = runs + 1
          /\ driver'.case = 0 /\ driver'.records = <<>> /\ driver'.drained = 0 /\ driver'.seen = {}
      BY <2>4, StartFields
    <2> QED BY <1>3, <1>5, <1>6, <2>2, <2>3, <2>5
  <1> QED BY <1>7, <1>8, <1>9 DEF Starts

\* A judged case.
LEMMA JudgeFields ==
    ASSUME TypeOK, Judge
    PROVE  /\ SameDrain /\ driver'.kind = driver.kind /\ driver'.suite = driver.suite
           /\ driver'.run = driver.run /\ driver'.case = driver.case /\ driver'.exit = driver.exit
           /\ driver'.quiet = (benchmark.phase = "idle")
           /\ driver.pc = "case" /\ console' = "idle" /\ SameSim /\ SameWeb
           /\ \/ driver.kind = "experiment" /\ driver'.pc \in {"next", "failed"}
              \/ driver.kind = "regression" /\ driver'.pc \in {"next", "report"}
              \/ driver.kind = "trial" /\ driver'.pc \in {"next", "drain"}
  <1>1. ASSUME NEW kind, NEW accepted \in BOOLEAN, NEW measured \in BOOLEAN, NEW pc, Judged(kind, accepted, measured, pc)
        PROVE  SameSim /\ SameWeb
    BY <1>1 DEF Judged, SameSim, SameWeb, webVars, simVars
  <1>2. CASE \E op \in {"bw", "lat"} : \E printed \in SUBSET Printers(op) : JudgeExperiment(op, printed)
    <2>1. PICK accepted \in BOOLEAN, measured \in BOOLEAN, pc \in {"next", "failed"} :
            Judged("experiment", accepted, measured, pc)
      BY <1>2 DEF JudgeExperiment
    <2> QED BY <1>1, <2>1, JudgedFields
  <1>3. CASE \E printed \in SUBSET Guests : JudgeRegression(printed)
    <2>1. PICK accepted \in BOOLEAN, measured \in BOOLEAN, pc \in {"next", "report"} :
            Judged("regression", accepted, measured, pc)
      BY <1>3 DEF JudgeRegression
    <2> QED BY <1>1, <2>1, JudgedFields
  <1>4. CASE \E printed \in SUBSET Guests : JudgeTrial(printed)
    <2>1. PICK accepted \in BOOLEAN, measured \in BOOLEAN, pc \in {"next", "drain"} :
            Judged("trial", accepted, measured, pc)
      BY <1>4 DEF JudgeTrial
    <2> QED BY <1>1, <2>1, JudgedFields
  <1> QED BY <1>2, <1>3, <1>4 DEF Judge

\* The driver is that of the last run.
LEMMA RunStep ==
    ASSUME TypeOK, RunInv, [Next]_vars
    PROVE  RunInv'
  <1>0. runs \in Nat BY BoundAssumption DEF TypeOK, WebType
  <1>1. CASE Starts BY <1>0, <1>1, StartsFresh DEF RunInv
  <1>2. CASE Moves
    <2>1. driver.pc # "exited" /\ SameCase /\ runs' = runs /\ console' \in {console, "idle"} /\ driver'.pc # "case"
      BY <1>2, MovesSame
    <2>2. console' = "idle"
      BY <1>2, MovesSame DEF RunInv, Killed
    <2> QED BY <1>0, <2>1, <2>2 DEF RunInv, SameCase
  <1>3. CASE NextCase
    <2>1. runs' = runs /\ driver.pc = "next" BY <1>3 DEF NextCase, webVars
    <2> QED BY <1>0, <1>3, <2>1, NextCaseFields DEF RunInv
  <1>4. CASE Judge BY <1>0, <1>4, JudgeFields DEF RunInv, SameWeb
  <1>5. CASE Elsewhere BY <1>5, ElsewhereSame DEF RunInv
  <1> QED BY <1>1, <1>2, <1>3, <1>4, <1>5, Steps

----------------------------------------------------------------------------
(* Judged cases *)

\* What was logged since the case began is in the case's window.
LEMMA InWindow ==
    ASSUME TypeOK, NEW p \in Participants, NEW g, NEW active, Has(p, g, active), Len(logs[p]) >= driver.offsets[p]
    PROVE  [generation |-> g, case |-> <<driver.run, driver.case>>, active |-> active] \in Range(Window(p))
  <1>1. PICK o \in Nat : o = driver.offsets[p] BY DEF TypeOK, DriverRecord
  <1>2. PICK s \in Seq(Fence) : s = logs[p] BY DEF TypeOK, SimType
  <1>3. PICK k \in DOMAIN s : k > o /\ s[k] = [generation |-> g, case |-> <<driver.run, driver.case>>, active |-> active]
    BY <1>1, <1>2 DEF Has
  <1>4. PICK w : w = SubSeq(s, o + 1, Len(s)) OBVIOUS
  <1>5. Window(p) = w
    <2>1. ~(Len(s) < o) BY <1>1, <1>2
    <2> QED BY <1>1, <1>2, <1>4, <2>1 DEF Window
  <1>6. k - o \in DOMAIN w /\ w[k - o] = s[k]
    <2>1. k \in 1 .. Len(s) /\ Len(s) \in Nat BY <1>2
    <2>2. Len(w) = Len(s) - o BY <1>1, <1>2, <1>3, <1>4, <2>1
    <2>3. k - o \in 1 .. Len(w) BY <1>1, <1>3, <2>1, <2>2
    <2>4. PICK i : i = k - o OBVIOUS
    <2>5. w[i] = s[o + i]
      <3>1. i \in 1 .. (Len(s) - (o + 1)) + 1 /\ o + 1 \in Int /\ i \in Int BY <1>1, <2>1, <2>2, <2>3, <2>4
      <3>2. \A j \in o + 1 .. Len(s) : s[j] \in Fence BY <1>1, <1>2, <2>1
      <3>3. PICK m \in Int, n \in Int : m = o + 1 /\ n = Len(s) BY <1>1, <2>1
      <3>4. \A j \in 1 .. n - m + 1 : SubSeq(s, m, n)[j] = s[m + j - 1]
        BY ONLY <3>2, <3>3, SubSeqProperties
      <3>5. i \in 1 .. n - m + 1 /\ m + i - 1 = o + i BY <1>1, <2>1, <3>1, <3>3
      <3> QED BY <1>4, <3>3, <3>4, <3>5
    <2>6. DOMAIN w = 1 .. Len(w) BY <1>1, <1>2, <1>4, <2>1
    <2>7. o + i = k BY <1>1, <2>1, <2>4
    <2> QED BY <2>3, <2>4, <2>5, <2>6, <2>7
  <1> QED BY <1>3, <1>5, <1>6 DEF Range

\* A case that was found fenced is fenced: the fences of this very case are in its windows.
LEMMA FencedCase ==
    ASSUME TypeOK, OkInv, console = "ok", driver.suite.fenced, FencesGood,
           NEW r, r.case = <<driver.run, driver.case>>, r.windows = Windows
    PROVE  Fenced(r)
  <1>1. \A p \in Participants : Len(logs[p]) >= driver.offsets[p] /\ CompleteFences(Windows[p])
    BY DEF FencesGood, ValidFences
  <1>2. "network" \in Participants BY ParticipantsAssumption
  <1>3. Windows["network"] = Window("network") /\ Window("network") # <<>>
    BY <1>1, <1>2 DEF CompleteFences, Windows
  <1>4. logs["network"] # <<>>
    <2> SUFFICES ASSUME logs["network"] = <<>> PROVE FALSE OBVIOUS
    <2>1. PICK o \in Nat : o = driver.offsets["network"] BY <1>2 DEF TypeOK, DriverRecord
    <2>2. o = 0 BY <1>1, <1>2, <2>1
    <2>3. Window("network") = SubSeq(<<>>, 1, 0) BY <2>1, <2>2 DEF Window
    <2> QED BY <1>3, <2>3
  <1>5. Marked BY <1>2, <1>4 DEF OkInv
  <1>6. PICK g, h \in Nat : g < h /\ \A p \in Participants : Has(p, g, TRUE) /\ Has(p, h, FALSE)
    BY <1>5 DEF Marked
  <1>7. \A p \in Participants :
          /\ [generation |-> g, case |-> r.case, active |-> TRUE] \in Range(r.windows[p])
          /\ [generation |-> h, case |-> r.case, active |-> FALSE] \in Range(r.windows[p])
    BY <1>1, <1>6, InWindow DEF Windows
  <1>8. g \in {f.generation : f \in Range(r.windows["network"])} /\ h \in {f.generation : f \in Range(r.windows["network"])}
    <2>1. PICK f, e : /\ f = [generation |-> g, case |-> r.case, active |-> TRUE]
                      /\ e = [generation |-> h, case |-> r.case, active |-> FALSE]
      OBVIOUS
    <2>2. f.generation = g /\ e.generation = h BY <2>1
    <2>3. f \in Range(r.windows["network"]) /\ e \in Range(r.windows["network"]) BY <1>2, <1>7, <2>1
    <2> QED BY <2>2, <2>3
  <1>9. \A p \in Participants :
          {[generation |-> g, case |-> r.case, active |-> TRUE],
           [generation |-> h, case |-> r.case, active |-> FALSE]} \subseteq Range(r.windows[p])
    BY <1>7
  <1> QED BY ONLY <1>6, <1>8, <1>9 DEF Fenced

\* The rows parse_output accepts are those of all the guests that print one.
LEMMA AllPrinted ==
    ASSUME NEW op \in {"bw", "lat"}, NEW printed \in SUBSET Printers(op), ParseOutput(op, printed)
    PROVE  printed = Printers(op)
  <1>1. Cardinality({}) = 0 BY FS_EmptySet
  <1>2. Cardinality({0}) = 1 /\ Cardinality({1}) = 1 BY FS_Singleton
  <1>4. CASE op = "bw"
    <2>1. printed \subseteq {0, 1} BY <1>4 DEF Printers, Guests
    <2>2. Cardinality(printed) = 2 BY <1>4 DEF ParseOutput
    <2>3. printed # {} /\ printed # {0} /\ printed # {1} BY <1>1, <1>2, <2>2
    <2>4. printed = {0, 1} BY <2>1, <2>3
    <2> QED BY <1>4, <2>4 DEF Printers, Guests
  <1>5. CASE op = "lat"
    <2>1. printed \subseteq {1} BY <1>5 DEF Printers
    <2>2. Cardinality(printed) = 1 BY <1>5 DEF ParseOutput
    <2>3. printed # {} BY <1>1, <2>2
    <2>4. printed = {1} BY <2>1, <2>3
    <2> QED BY <1>5, <2>4 DEF Printers
  <1> QED BY <1>4, <1>5

\* The record of a judged case: an accepted case was fenced and has its results.
LEMMA JudgeRecord ==
    ASSUME TypeOK, RunInv, OkInv, Judge
    PROVE  \E r \in CaseRecord :
             /\ driver'.records = Append(driver.records, r)
             /\ driver.kind = "experiment" /\ driver'.pc = "next" => r.accepted
             /\ r.accepted => /\ driver.suite.fenced => Fenced(r)
                              /\ driver.suite.rows => r.measured
  <1>1. ASSUME NEW kind, NEW accepted \in BOOLEAN, NEW measured \in BOOLEAN, NEW pc, Judged(kind, accepted, measured, pc),
               kind = "experiment" /\ pc = "next" => accepted,
               accepted => console = "ok" /\ (kind # "trial" => FencesGood) /\ (driver.suite.rows => measured)
        PROVE  \E r \in CaseRecord :
                 /\ driver'.records = Append(driver.records, r)
                 /\ driver.kind = "experiment" /\ driver'.pc = "next" => r.accepted
                 /\ r.accepted => /\ driver.suite.fenced => Fenced(r)
                                  /\ driver.suite.rows => r.measured
    <2>1. PICK r : r = [case |-> <<driver.run, driver.case>>, accepted |-> accepted,
                        measured |-> measured, windows |-> Windows]
      OBVIOUS
    <2>2. /\ r.case = <<driver.run, driver.case>> /\ r.accepted = accepted /\ r.measured = measured
          /\ r.windows = Windows
      BY <2>1
    <2>3. r \in CaseRecord
      <3>1. <<driver.run, driver.case>> \in CaseId
        BY CasesAssumption, BoundAssumption DEF DriverRecord, CaseId, TypeOK
      <3> QED BY <2>1, <3>1, WindowType DEF CaseRecord, TypeOK
    <2>4. driver'.records = Append(driver.records, r) /\ driver'.pc = pc /\ driver.kind = kind
      BY <1>1, <2>1, JudgedFields
    <2>5. accepted /\ driver.suite.fenced => Fenced(r)
      BY <1>1, <2>2, <2>4, FencedCase DEF RunInv
    <2> QED BY <1>1, <2>2, <2>3, <2>4, <2>5
  <1>2. CASE \E op \in {"bw", "lat"} : \E printed \in SUBSET Printers(op) : JudgeExperiment(op, printed)
    <2>0. PICK op \in {"bw", "lat"} : \E printed \in SUBSET Printers(op) : JudgeExperiment(op, printed) BY <1>2
    <2>1. PICK printed \in SUBSET Printers(op) : JudgeExperiment(op, printed) BY <2>0
    <2>2. PICK accepted \in BOOLEAN : accepted = (console = "ok" /\ FencesGood /\ ParseOutput(op, printed)) OBVIOUS
    <2>3. PICK measured \in BOOLEAN : measured = (printed = Printers(op)) OBVIOUS
    <2>4. Judged("experiment", accepted, measured, IF accepted THEN "next" ELSE "failed")
      BY <2>1, <2>2, <2>3 DEF JudgeExperiment
    <2>5. accepted => console = "ok" /\ FencesGood /\ measured BY <2>2, <2>3, AllPrinted
    <2> QED BY <1>1, <2>4, <2>5
  <1>3. CASE \E printed \in SUBSET Guests : JudgeRegression(printed)
    <2>1. PICK printed \in SUBSET Guests : JudgeRegression(printed) BY <1>3
    <2>2. PICK accepted \in BOOLEAN :
            accepted = (console = "ok" /\ FencesGood /\ (driver.suite.rows => ValidateOutput(printed)))
      OBVIOUS
    <2>3. PICK measured \in BOOLEAN : measured = (printed = Guests) OBVIOUS
    <2>4. Judged("regression", accepted, measured, IF accepted \/ ~driver.option THEN "next" ELSE "report")
      BY <2>1, <2>2, <2>3 DEF JudgeRegression
    <2>5. accepted => console = "ok" /\ FencesGood /\ (driver.suite.rows => measured)
      BY <2>2, <2>3 DEF ValidateOutput
    <2> QED BY <1>1, <2>4, <2>5
  <1>4. CASE \E printed \in SUBSET Guests : JudgeTrial(printed)
    <2>1. PICK printed \in SUBSET Guests : JudgeTrial(printed) BY <1>4
    <2>2. PICK accepted \in BOOLEAN : accepted = (console = "ok" /\ ValidateOutput(printed)) OBVIOUS
    <2>3. PICK measured \in BOOLEAN : measured = (printed = Guests) OBVIOUS
    <2>4. Judged("trial", accepted, measured,
                 IF accepted \/ (driver.option /\ console # "timeout") THEN "next" ELSE "drain")
      BY <2>1, <2>2, <2>3 DEF JudgeTrial
    <2>5. accepted => console = "ok" /\ measured BY <2>2, <2>3 DEF ValidateOutput
    <2> QED BY <1>1, <2>4, <2>5
  <1> QED BY <1>2, <1>3, <1>4 DEF Judge

\* Every accepted record has what the driver asks for.
LEMMA RecordStep ==
    ASSUME TypeOK, RunInv, OkInv, RecordInv, [Next]_vars
    PROVE  RecordInv'
  <1>0. driver.records \in Seq(CaseRecord) BY DEF TypeOK, DriverRecord
  <1>f. \A r : Fenced(r)' <=> Fenced(r) BY DEF Fenced
  <1>1. CASE Starts BY <1>1, StartsFresh DEF RecordInv
  <1>2. CASE Moves \/ NextCase \/ Elsewhere
    <2>1. driver'.records = driver.records /\ driver'.suite = driver.suite
      BY <1>2, MovesSame, NextCaseFields, ElsewhereSame DEF SameCase
    <2> QED BY <1>f, <2>1 DEF RecordInv, Fenced
  <1>3. CASE Judge
    <2>1. driver'.suite = driver.suite BY <1>3, JudgeFields
    <2>2. PICK r \in CaseRecord :
             /\ driver'.records = Append(driver.records, r)
             /\ r.accepted => /\ driver.suite.fenced => Fenced(r)
                              /\ driver.suite.rows => r.measured
      BY <1>3, JudgeRecord
    <2>3. \A i \in DOMAIN driver'.records :
            driver'.records[i] = r \/ (i \in DOMAIN driver.records /\ driver'.records[i] = driver.records[i])
      BY <1>0, <2>2
    <2>4. ASSUME NEW i \in DOMAIN driver'.records, driver'.records[i].accepted
          PROVE  /\ driver.suite.fenced => Fenced(driver'.records[i])
                 /\ driver.suite.rows => driver'.records[i].measured
      BY <2>2, <2>3, <2>4 DEF RecordInv
    <2> QED BY <2>1, <2>4 DEF RecordInv, Fenced
  <1> QED BY <1>1, <1>2, <1>3, Steps

----------------------------------------------------------------------------
(* The cases of a run and its verdict *)

\* From where to where a driver moves.
LEMMA MovesPc ==
    ASSUME TypeOK, RunInv, Moves
    PROVE  \/ driver.pc = "setup" /\ driver'.pc \in {"network", "failed"}
           \/ driver.pc = "network" /\ driver'.pc \in {"next", "failed"}
           \/ driver.pc = "launch" /\ driver'.pc \in {"ready", "report"}
           \/ driver.pc = "ready" /\ driver'.pc \in {"next", "drain"}
           \/ driver.pc = "drain" /\ driver'.pc \in {"drain", "report"}
           \/ driver'.pc = "exited"
           \/ Done
  <1>1. CASE Setup \/ SetupNetwork \/ Launch \/ Ready BY <1>1, SetupFields
  <1>2. CASE Fail \/ Killed \/ Finish \/ Report BY <1>2, EndFields
  <1>3. CASE \E p \in Devices \cup {Fabric} : Sample(p) BY <1>3, SampleFields
  <1>4. CASE EndRound \/ Stop BY <1>4, RoundFields, StopFields
  <1> QED BY <1>1, <1>2, <1>3, <1>4 DEF Moves

\* Records are in step with the cases.
LEMMA CountStep ==
    ASSUME TypeOK, RunInv, CountInv, OkInv, [Next]_vars
    PROVE  CountInv'
  <1>0. driver.records \in Seq(CaseRecord) /\ driver.case \in 0 .. Cases BY DEF TypeOK, DriverRecord
  <1>1. CASE Starts
    <2>1. /\ driver'.records = <<>> /\ driver'.case = 0 /\ driver'.pc \in {"setup", "next", "launch"}
      BY <1>1, StartsFresh
    <2> QED BY <2>1 DEF CountInv
  <1>2. CASE Moves
    <2>1. /\ driver'.records = driver.records /\ driver'.case = driver.case /\ driver'.kind = driver.kind
      BY <1>2, MovesSame DEF SameCase
    <2>2. CASE Done
      <3>1. driver.pc = "next" /\ driver.case = Cases BY <2>2 DEF Done
      <3>2. \/ driver.kind = "experiment" /\ driver'.pc = "finish"
            \/ driver'.pc \in {"report", "drain"}
        BY <2>2, DoneFields
      <3> QED BY <2>1, <3>1, <3>2 DEF CountInv
    <2>3. CASE ~Done
      <3>1. \/ driver.pc \in {"setup", "network", "launch", "ready"} /\ driver'.pc \in {"network", "failed", "next", "ready", "report", "drain"}
            \/ driver'.pc \in {"drain", "report", "exited"}
        BY <1>2, <2>3, MovesPc
      <3>2. CASE driver.pc \in {"setup", "network", "launch", "ready"}
        <4>1. driver.records = <<>> /\ driver.case = 0 BY <3>2 DEF CountInv
        <4>2. driver'.pc \in {"network", "failed", "next", "ready", "report", "drain", "exited"} BY <3>1
        <4> QED BY <2>1, <4>1, <4>2 DEF CountInv
      <3> QED BY <2>1, <3>1, <3>2 DEF CountInv
    <2> QED BY <2>2, <2>3
  <1>3. CASE NextCase
    <2>1. driver.pc = "next" BY <1>3 DEF NextCase
    <2>2. /\ driver'.records = driver.records /\ driver'.case = driver.case + 1 /\ driver'.kind = driver.kind
          /\ driver'.pc = "case"
      BY <1>3, NextCaseFields
    <2> QED BY <1>0, <2>1, <2>2 DEF CountInv
  <1>4. CASE Judge
    <2>1. /\ driver'.case = driver.case /\ driver'.kind = driver.kind /\ driver.pc = "case"
          /\ driver'.pc \in {"next", "failed", "report", "drain"}
      BY <1>4, JudgeFields
    <2>2. PICK r \in CaseRecord :
             /\ driver'.records = Append(driver.records, r)
             /\ driver.kind = "experiment" /\ driver'.pc = "next" => r.accepted
      BY <1>4, JudgeRecord
    <2>3. /\ Len(driver'.records) = Len(driver.records) + 1
          /\ \A i \in DOMAIN driver'.records :
               driver'.records[i] = r \/ (i \in DOMAIN driver.records /\ driver'.records[i] = driver.records[i])
      BY <1>0, <2>2
    <2>4. Len(driver'.records) = driver'.case BY <2>1, <2>3 DEF CountInv
    <2>5. driver.kind = "experiment" /\ driver'.pc = "next" =>
            \A i \in DOMAIN driver'.records : driver'.records[i].accepted
      BY <2>1, <2>2, <2>3 DEF CountInv
    <2> QED BY <2>1, <2>4, <2>5 DEF CountInv
  <1>5. CASE Elsewhere BY <1>5, ElsewhereSame DEF CountInv
  <1> QED BY <1>1, <1>2, <1>3, <1>4, <1>5, Steps

\* No run but the last one changes its status to finished, and only when it ends.
LEMMA StatusStep ==
    ASSUME TypeOK, RunInv, [Next]_vars, NEW r \in 1 .. MaxRuns, status'[r] = "finished"
    PROVE  status[r] = "finished" \/ (Finish /\ r = driver.run)
  <1> USE DEF webVars, simVars
  <1>0. status \in [1 .. MaxRuns -> States] BY DEF TypeOK, WebType
  <1>1. CASE Starts BY <1>0, <1>1, StartsFresh
  <1>2. CASE Moves
    <2>1. CASE Setup BY <1>0, <2>1 DEF Setup, SetStatus
    <2>2. CASE Fail BY <1>0, <2>2 DEF Fail, SetStatus
    <2>3. CASE Finish BY <1>0, <2>3 DEF Finish, SetStatus
    <2>4. CASE SetupNetwork \/ Killed \/ Report \/ Launch \/ Ready \/ Done \/ EndRound \/ Stop
      BY <2>4 DEF SetupNetwork, Killed, Report, Launch, Ready, Done, EndRound, Stop
    <2>5. CASE \E p \in Devices \cup {Fabric} : Sample(p) BY <2>5 DEF Sample
    <2> QED BY <1>2, <2>1, <2>2, <2>3, <2>4, <2>5 DEF Moves
  <1>3. CASE NextCase BY <1>3 DEF NextCase
  <1>4. CASE Judge BY <1>4, JudgeFields DEF SameWeb
  <1>5. CASE Elsewhere
    <2>1. CASE DetailWrite BY <1>0, <2>1 DEF DetailWrite
    <2>2. CASE Send \/ Timeout \/ Restart BY <2>2 DEF Send, Timeout, Restart
    <2>3. CASE Toggle \/ End("ok") \/ End("error") BY <2>3 DEF Toggle, End
    <2>4. CASE \E q \in 1 .. MaxRuns : DetailRead(q) BY <2>4 DEF DetailRead
    <2>5. CASE \E p \in Participants : LogFence(p) BY <2>5 DEF LogFence
    <2>6. CASE \E d \in Devices : Issue(d) \/ Progress(d) BY <2>6 DEF Issue, Progress
    <2>7. CASE UNCHANGED vars BY <2>7 DEF vars
    <2> QED BY <1>5, <2>1, <2>2, <2>3, <2>4, <2>5, <2>6, <2>7 DEF Elsewhere, SystemStep
  <1> QED BY <1>1, <1>2, <1>3, <1>4, <1>5, Steps

\* What the outside sees of a run that has succeeded is so.
LEMMA VerdictStep ==
    ASSUME TypeOK, RunInv, CountInv, VerdictInv, [Next]_vars
    PROVE  VerdictInv'
  <1>0. runs \in 0 .. MaxRuns /\ MaxRuns \in Nat /\ Cases \in Nat
    BY BoundAssumption, CasesAssumption DEF TypeOK, WebType
  <1>1. CASE Starts
    <2>1. driver'.pc # "exited" /\ runs' = runs + 1 BY <1>1, StartsFresh
    <2>2. ASSUME NEW r \in 1 .. MaxRuns, status'[r] = "finished" PROVE r <= runs
      <3>1. status[r] = "finished" \/ Finish BY <2>2, StatusStep
      <3>2. ~Finish BY <1>1, StartsFresh DEF Finish
      <3> QED BY <3>1, <3>2 DEF VerdictInv
    <2> QED BY <1>0, <2>1, <2>2 DEF VerdictInv
  <1>2. CASE Finish
    <2>1. Moves BY <1>2 DEF Moves
    <2>2. /\ driver'.records = driver.records /\ runs' = runs /\ driver'.run = driver.run
      BY <2>1, MovesSame DEF SameCase
    <2>3. driver.pc = "finish" /\ driver'.pc = "exited" BY <1>2, EndFields DEF Finish
    <2>4. AllAccepted BY <2>3 DEF CountInv, AllAccepted
    <2>5. AllAccepted' BY <2>2, <2>4 DEF AllAccepted
    <2>6. runs > 0 /\ driver.run = runs BY <1>0, <2>3 DEF RunInv
    <2>7. \A r \in 1 .. MaxRuns : status'[r] = "finished" => r <= runs BY <1>0, <2>6, StatusStep DEF VerdictInv
    <2> QED BY <2>2, <2>3, <2>5, <2>7 DEF VerdictInv
  <1>3. CASE Moves /\ ~Finish
    <2>1. /\ driver'.records = driver.records /\ runs' = runs /\ driver.pc # "exited"
      BY <1>3, MovesSame DEF SameCase
    <2>2. runs > 0 BY <1>0, <2>1 DEF RunInv
    <2>3. \A r \in 1 .. MaxRuns : status'[r] = "finished" => r <= runs /\ r # runs
      BY <1>3, <2>1, StatusStep DEF VerdictInv
    <2>4. ASSUME driver'.pc = "exited", driver'.exit = 0 PROVE AllAccepted
      <3>1. ~(Fail \/ Killed) BY <2>4, EndFields
      <3>2. ~Done BY <2>4, DoneFields
      <3>3. ~(Setup \/ SetupNetwork \/ Launch \/ Ready) BY <2>4, SetupFields
      <3>4. ~(EndRound \/ Stop) BY <2>4, RoundFields, StopFields
      <3>5. ~(\E p \in Devices \cup {Fabric} : Sample(p)) BY <2>4, SampleFields
      <3>6. Report BY <1>3, <3>1, <3>2, <3>3, <3>4, <3>5 DEF Moves
      <3> QED BY <2>4, <3>6, EndFields DEF Verdict
    <2>5. AllAccepted' <=> AllAccepted BY <2>1 DEF AllAccepted
    <2> QED BY <2>1, <2>3, <2>4, <2>5 DEF VerdictInv
  <1>4. CASE NextCase \/ Judge
    <2>1. runs' = runs /\ driver.pc # "exited" /\ driver'.pc # "exited"
      BY <1>4, NextCaseFields, JudgeFields DEF NextCase, webVars, SameWeb
    <2>2. ~Finish BY <1>4, JudgeFields DEF NextCase, Finish
    <2>3. \A r \in 1 .. MaxRuns : status'[r] = "finished" => r <= runs /\ r # runs
      BY <2>1, <2>2, StatusStep DEF VerdictInv
    <2> QED BY <2>1, <2>3 DEF VerdictInv
  <1>5. CASE Elsewhere
    <2>1. driver' = driver /\ runs' = runs BY <1>5, ElsewhereSame
    <2>2. ~Finish
      <3> SUFFICES ASSUME Finish PROVE FALSE OBVIOUS
      <3>1. driver.pc = "finish" /\ driver'.pc = "exited" BY EndFields DEF Finish
      <3> QED BY <2>1, <3>1
    <2>3. \A r \in 1 .. MaxRuns : status'[r] = "finished" => status[r] = "finished" BY <2>2, StatusStep
    <2> QED BY <2>1, <2>3 DEF VerdictInv, AllAccepted
  <1> QED BY <1>1, <1>2, <1>3, <1>4, <1>5, Steps

----------------------------------------------------------------------------
(* Fences of the running case *)

\* A step that changes neither the console nor the simulated system.
Still == SameSim /\ console' = console /\ driver' = driver

\* The driver of a console that is not idle only changes when it begins a case.
LEMMA ConsoleSteps ==
    ASSUME TypeOK, RunInv, [Next]_vars
    PROVE  \/ console' = "idle" /\ SameSim
           \/ NextCase
           \/ Send \/ Timeout \/ SystemStep \/ (\E d \in Devices : Issue(d) \/ Progress(d)) \/ Restart
           \/ Still
  <1> USE DEF webVars, simVars
  <1>1. CASE Starts BY <1>1, StartsFresh
  <1>2. CASE Moves
    <2>1. console' \in {console, "idle"} /\ SameSim BY <1>2, MovesSame
    <2>2. console' = "idle" BY <1>2, MovesSame DEF RunInv, Killed
    <2> QED BY <2>1, <2>2
  <1>3. CASE Judge BY <1>3, JudgeFields
  <1>4. CASE \E r \in 1 .. MaxRuns : DetailRead(r) BY <1>4 DEF DetailRead, Still, SameSim
  <1>5. CASE DetailWrite BY <1>5 DEF DetailWrite, Still, SameSim
  <1>6. CASE UNCHANGED vars BY <1>6 DEF vars, Still, SameSim
  <1> QED BY <1>1, <1>2, <1>3, <1>4, <1>5, <1>6, Steps DEF Elsewhere

\* The benchmark after a toggle and after a logged fence.
LEMMA ToggleFields ==
    ASSUME TypeOK, Toggle
    PROVE  /\ benchmark.sync /\ benchmark'.sync = benchmark.sync /\ benchmark'.case = benchmark.case
           /\ benchmark.logged = Participants /\ benchmark'.logged = {}
           /\ \/ benchmark.phase = "started" /\ benchmark'.phase = "inside"
              \/ benchmark.phase = "inside" /\ benchmark'.phase = "left"
           /\ generation' = generation + 1 /\ driver' = driver /\ console' = console
           /\ logs' = logs /\ session' = session /\ work' = work
  <1>1. PICK b \in Benchmark : b = benchmark BY DEF TypeOK, SimType
  <1>2. PICK ph \in {"inside", "left"} :
          /\ ph = IF benchmark.phase = "started" THEN "inside" ELSE "left"
          /\ benchmark' = [b EXCEPT !.phase = ph, !.logged = {}]
    BY <1>1 DEF Toggle
  <1>3. benchmark'.sync = b.sync /\ benchmark'.case = b.case /\ benchmark'.logged = {} /\ benchmark'.phase = ph
    BY <1>1, <1>2 DEF Benchmark
  <1> QED BY <1>1, <1>2, <1>3 DEF Toggle

LEMMA LogFields ==
    ASSUME TypeOK, NEW q \in Participants, LogFence(q)
    PROVE  /\ benchmark'.sync = benchmark.sync /\ benchmark'.case = benchmark.case /\ benchmark'.phase = benchmark.phase
           /\ q \notin benchmark.logged /\ benchmark'.logged = benchmark.logged \cup {q}
           /\ generation' = generation /\ driver' = driver /\ console' = console
           /\ session' = session /\ work' = work
           /\ \A p \in Participants \ {q} : logs'[p] = logs[p]
           /\ logs'[q] = Append(logs[q], [generation |-> generation, case |-> benchmark.case,
                                          active |-> benchmark.phase = "inside"])
  <1>1. PICK b \in Benchmark : b = benchmark BY DEF TypeOK, SimType
  <1>2. benchmark' = [b EXCEPT !.logged = b.logged \cup {q}] BY <1>1 DEF LogFence
  <1>3. benchmark'.sync = b.sync /\ benchmark'.case = b.case /\ benchmark'.logged = b.logged \cup {q}
        /\ benchmark'.phase = b.phase
    BY <1>1, <1>2 DEF Benchmark
  <1>4. PICK f : f = [generation |-> generation, case |-> benchmark.case, active |-> benchmark.phase = "inside"] OBVIOUS
  <1>5. logs' = [logs EXCEPT ![q] = Append(logs[q], f)] BY <1>4 DEF LogFence
  <1>6. logs'[q] = Append(logs[q], f) /\ \A p \in Participants \ {q} : logs'[p] = logs[p]
    BY <1>5 DEF TypeOK, SimType
  <1> QED BY <1>1, <1>3, <1>4, <1>6 DEF LogFence

\* What a participant has logged stays logged,
LEMMA HasStays ==
    ASSUME TypeOK, driver' = driver,
           logs' = logs \/ \E q \in Participants : LogFence(q),
           NEW p \in Participants, NEW g, NEW active, Has(p, g, active)
    PROVE  Has(p, g, active)'
  <1>1. CASE logs' = logs BY <1>1 DEF Has
  <1>2. CASE \E q \in Participants : LogFence(q)
    <2>1. PICK q \in Participants : LogFence(q) BY <1>2
    <2>2. logs[p] \in Seq(Fence) BY DEF TypeOK, SimType
    <2>3. PICK f : logs'[p] = logs[p] \/ logs'[p] = Append(logs[p], f) BY <2>1, LogFields
    <2>4. \A k \in DOMAIN logs[p] : k \in DOMAIN logs'[p] /\ logs'[p][k] = logs[p][k] BY <2>2, <2>3
    <2> QED BY <2>4 DEF Has
  <1> QED BY <1>1, <1>2

\* and the fence it logs is one of the running case.
LEMMA HasNew ==
    ASSUME TypeOK, NEW q \in Participants, LogFence(q), driver.offsets[q] <= Len(logs[q]),
           benchmark.case = <<driver.run, driver.case>>
    PROVE  Has(q, generation, benchmark.phase = "inside")'
  <1>1. logs[q] \in Seq(Fence) /\ driver.offsets[q] \in Nat BY DEF TypeOK, SimType, DriverRecord
  <1>2. PICK f : f = [generation |-> generation, case |-> <<driver.run, driver.case>>,
                      active |-> benchmark.phase = "inside"]
    OBVIOUS
  <1>3. /\ logs'[q] = Append(logs[q], f) /\ driver' = driver /\ generation' = generation
        /\ benchmark'.phase = benchmark.phase
    BY <1>2, LogFields
  <1>4. PICK k : k = Len(logs[q]) + 1 OBVIOUS
  <1>5. k \in DOMAIN logs'[q] /\ logs'[q][k] = f /\ k > driver.offsets[q] BY <1>1, <1>3, <1>4
  <1> QED BY <1>2, <1>3, <1>5 DEF Has

\* Fences are logged only where they were asked for.
LEMMA AskedStep ==
    ASSUME TypeOK, RunInv, AskedInv, [Next]_vars
    PROVE  AskedInv'
  <1> USE DEF webVars, simVars
  <1>1. CASE SameSim BY <1>1 DEF SameSim, AskedInv
  <1>2. CASE NextCase \/ Timeout BY <1>2 DEF NextCase, Timeout, AskedInv
  <1>3. CASE Send
    <2>1. benchmark'.logged = Participants /\ benchmark'.sync = (driver.suite.fenced /\ session.aware)
      BY <1>3 DEF Send, Started
    <2>2. logs' = logs /\ session' = session BY <1>3 DEF Send
    <2> QED BY <2>1, <2>2 DEF AskedInv
  <1>4. CASE Toggle BY <1>4, ToggleFields DEF AskedInv
  <1>5. CASE \E q \in Participants : LogFence(q)
    <2>1. PICK q \in Participants : LogFence(q) BY <1>5
    <2>2. benchmark.logged # Participants BY <2>1, LogFields
    <2>3. session.aware /\ benchmark.sync /\ benchmark.phase \in {"inside", "left"} BY <2>2 DEF AskedInv
    <2> QED BY <2>1, <2>3, LogFields DEF AskedInv
  <1>6. CASE End("ok") \/ End("error")
    <2>1. benchmark'.logged = Participants /\ ~benchmark'.sync /\ logs' = logs /\ session' = session
      BY <1>6 DEF End, Quiet
    <2> QED BY <2>1 DEF AskedInv
  <1>7. CASE \E d \in Devices : Issue(d) \/ Progress(d) BY <1>7 DEF Issue, Progress, AskedInv
  <1>8. CASE Restart
    <2>1. benchmark'.logged = Participants /\ ~benchmark'.sync BY <1>8 DEF Restart, Quiet
    <2>2. \A p \in Participants : logs'[p] = <<>> BY <1>8 DEF Restart
    <2> QED BY <2>1, <2>2 DEF AskedInv
  <1> QED BY <1>1, <1>2, <1>3, <1>4, <1>5, <1>6, <1>7, <1>8, ConsoleSteps DEF SystemStep, Still

\* The benchmark a console runs is that of the case.
LEMMA RunningStep ==
    ASSUME TypeOK, RunInv, RunningInv, [Next]_vars
    PROVE  RunningInv'
  <1> USE DEF webVars, simVars
  <1>0. logs \in [Participants -> Seq(Fence)] BY DEF TypeOK, SimType
  <1>1. CASE console' = "idle" BY <1>1 DEF RunningInv
  <1>2. CASE NextCase
    <2>1. logs' = logs /\ console' = "waiting" /\ driver'.offsets = [p \in Participants |-> Len(logs[p])]
      BY <1>2, NextCaseFields DEF NextCase
    <2>2. \A p \in Participants : driver'.offsets[p] <= Len(logs'[p]) BY <1>0, <2>1
    <2> QED BY <2>1, <2>2 DEF RunningInv
  <1>3. CASE Send
    <2>1. /\ benchmark'.phase # "idle" /\ benchmark'.case = <<driver.run, driver.case>>
          /\ benchmark'.sync = (driver.suite.fenced /\ session.aware)
      BY <1>3 DEF Send, Started
    <2>2. logs' = logs /\ session' = session /\ driver' = driver /\ console = "waiting" BY <1>3 DEF Send
    <2> QED BY <2>1, <2>2 DEF RunningInv
  <1>4. CASE Timeout BY <1>4 DEF Timeout, RunningInv
  <1>5. CASE Toggle BY <1>5, ToggleFields DEF RunningInv
  <1>6. CASE \E q \in Participants : LogFence(q)
    <2>1. PICK q \in Participants : LogFence(q) BY <1>6
    <2>2. ASSUME NEW p \in Participants, driver.offsets[p] <= Len(logs[p]) PROVE driver'.offsets[p] <= Len(logs'[p])
      <3>1. driver.offsets[p] \in Nat /\ logs[p] \in Seq(Fence) /\ driver' = driver
        BY <2>1, LogFields DEF TypeOK, DriverRecord, SimType
      <3>2. PICK f : logs'[p] = logs[p] \/ logs'[p] = Append(logs[p], f) BY <2>1, LogFields
      <3> QED BY <2>2, <3>1, <3>2
    <2> QED BY <2>1, <2>2, LogFields DEF RunningInv
  <1>7. CASE End("ok") \/ End("error") BY <1>7 DEF End, RunningInv
  <1>8. CASE \E d \in Devices : Issue(d) \/ Progress(d) BY <1>8 DEF Issue, Progress, RunningInv
  <1>9. CASE Restart BY <1>9 DEF Restart, RunningInv
  <1>10. CASE Still BY <1>10 DEF Still, SameSim, RunningInv
  <1> QED BY <1>1, <1>2, <1>3, <1>4, <1>5, <1>6, <1>7, <1>8, <1>9, <1>10, ConsoleSteps DEF SystemStep


\* It logs the entry under one generation and the exit under a later one.
LEMMA MarkStep ==
    ASSUME TypeOK, RunInv, RunningInv, MarkInv, [Next]_vars
    PROVE  MarkInv'
  <1> USE DEF webVars, simVars
  <1>1. CASE console' # "running" BY <1>1 DEF MarkInv
  <1>2. CASE Send
    <2>1. benchmark'.phase = "started" BY <1>2 DEF Send, Started
    <2> QED BY <2>1 DEF MarkInv
  <1>3. PICK g \in Nat : g = generation BY DEF TypeOK, SimType
  <1>4. CASE Toggle /\ console' = "running"
    <2>1. /\ benchmark.logged = Participants /\ benchmark'.logged = {} /\ generation' = g + 1
          /\ console' = console /\ driver' = driver /\ logs' = logs
          /\ \/ benchmark.phase = "started" /\ benchmark'.phase = "inside"
             \/ benchmark.phase = "inside" /\ benchmark'.phase = "left"
      BY <1>3, <1>4, ToggleFields
    <2>2. CASE benchmark'.phase = "inside" BY <2>1, <2>2 DEF MarkInv
    <2>3. CASE benchmark'.phase = "left"
      <3>1. \A p \in Participants : Has(p, g, TRUE) BY <1>3, <1>4, <2>1, <2>3 DEF MarkInv
      <3>2. \A p \in Participants : Has(p, g, TRUE)' BY <2>1, <3>1, HasStays
      <3>3. g < generation' /\ \A p \in benchmark'.logged : Has(p, generation, FALSE)' BY <1>3, <2>1
      <3> QED BY <2>3, <3>2, <3>3 DEF MarkInv
    <2> QED BY <2>1, <2>2, <2>3
  <1>5. CASE (\E q \in Participants : LogFence(q)) /\ console' = "running"
    <2>1. PICK q \in Participants : LogFence(q) BY <1>5
    <2>2. /\ benchmark'.phase = benchmark.phase /\ benchmark'.logged = benchmark.logged \cup {q}
          /\ generation' = g /\ driver' = driver /\ console' = console
      BY <1>3, <2>1, LogFields
    <2>3. console = "running" BY <1>5, <2>2
    <2>4. driver.offsets[q] <= Len(logs[q]) /\ benchmark.case = <<driver.run, driver.case>>
      BY <2>3 DEF RunningInv
    <2>5. PICK a \in BOOLEAN : a = (benchmark.phase = "inside") OBVIOUS
    <2>6. Has(q, generation, benchmark.phase = "inside")' BY <2>1, <2>4, HasNew
    <2>7. Has(q, g, a)' BY <2>2, <2>5, <2>6
    <2>8. \A p \in Participants : \A h, b : Has(p, h, b) => Has(p, h, b)' BY <2>1, <2>2, HasStays
    <2>9. benchmark.logged \subseteq Participants BY DEF TypeOK, SimType, Benchmark
    <2>10. CASE benchmark.phase = "inside"
      <3>1. \A p \in benchmark.logged : Has(p, g, TRUE) BY <1>3, <2>3, <2>10 DEF MarkInv
      <3>2. \A p \in benchmark'.logged : Has(p, g, TRUE)' BY <2>2, <2>5, <2>7, <2>8, <2>9, <2>10, <3>1
      <3> QED BY <2>2, <2>10, <3>2 DEF MarkInv
    <2>11. CASE benchmark.phase = "left"
      <3>1. PICK h \in Nat : /\ h < g /\ \A p \in Participants : Has(p, h, TRUE)
                             /\ \A p \in benchmark.logged : Has(p, g, FALSE)
        BY <1>3, <2>3, <2>11 DEF MarkInv
      <3>2. a = FALSE BY <2>5, <2>11
      <3>3. \A p \in benchmark'.logged : Has(p, g, FALSE)' BY <2>2, <2>7, <2>8, <2>9, <3>1, <3>2
      <3>4. \A p \in Participants : Has(p, h, TRUE)' BY <2>8, <3>1
      <3> QED BY <2>2, <2>11, <3>1, <3>3, <3>4 DEF MarkInv
    <2> QED BY <2>2, <2>10, <2>11 DEF MarkInv
  <1>6. CASE Still \/ \E d \in Devices : Issue(d) \/ Progress(d)
    <2>1. benchmark' = benchmark /\ driver' = driver /\ logs' = logs /\ console' = console /\ generation' = generation
      BY <1>6 DEF Still, SameSim, Issue, Progress
    <2> QED BY <2>1 DEF MarkInv, Has
  <1>7. CASE NextCase \/ Timeout \/ Restart \/ End("ok") \/ End("error")
    <2>1. console' # "running" BY <1>7 DEF NextCase, Timeout, Restart, End
    <2> QED BY <1>1, <2>1
  <1>8. CASE console' = "idle" BY <1>1, <1>8
  <1> QED BY <1>1, <1>2, <1>4, <1>5, <1>6, <1>7, <1>8, ConsoleSteps DEF SystemStep

\* When it has ended well, both are logged by all, or nothing is.
LEMMA OkStep ==
    ASSUME TypeOK, RunInv, AskedInv, RunningInv, MarkInv, OkInv, [Next]_vars
    PROVE  OkInv'
  <1> USE DEF webVars, simVars
  <1>1. CASE console' # "ok" BY <1>1 DEF OkInv
  <1>2. CASE End("ok") \/ End("error")
    <2> SUFFICES ASSUME console' = "ok" PROVE OkInv' BY <1>1
    <2>1. /\ benchmark'.phase = "idle" /\ driver' = driver /\ logs' = logs /\ benchmark.logged = Participants
      BY <1>2 DEF End, Quiet
    <2>2. benchmark.phase \in {"left", "started"} BY <1>2 DEF End
    <2>3. console = "running" BY <1>2, <2>2 DEF End, OkInv
    <2>4. End("ok") BY <1>2, <2>3 DEF End
    <2>5. CASE benchmark.phase = "left"
      <3>1. PICK g \in Nat, h \in Nat : h < g /\ g = generation /\ \A p \in Participants : Has(p, h, TRUE) /\ Has(p, g, FALSE)
        <4>1. PICK g \in Nat : g = generation BY DEF TypeOK, SimType
        <4> QED BY <2>1, <2>3, <2>5, <4>1 DEF MarkInv
      <3>2. \A p \in Participants : Has(p, h, TRUE)' /\ Has(p, g, FALSE)' BY <2>1, <3>1, HasStays
      <3>3. Marked' BY <3>1, <3>2 DEF Marked
      <3> QED BY <2>1, <3>3 DEF OkInv
    <2>6. CASE benchmark.phase = "started"
      <3>1. ~benchmark.sync BY <2>4, <2>6 DEF End
      <3>2. driver.suite.fenced => ~session.aware BY <2>3, <3>1 DEF RunningInv
      <3>3. driver.suite.fenced => \A p \in Participants : logs[p] = <<>> BY <3>2 DEF AskedInv
      <3> QED BY <2>1, <3>3 DEF OkInv
    <2> QED BY <2>2, <2>5, <2>6
  <1>3. CASE NextCase \/ Send \/ Timeout
    <2>1. console' # "ok" BY <1>3 DEF NextCase, Send, Timeout
    <2> QED BY <1>1, <2>1
  <1>4. CASE Toggle
    <2>1. console' = console /\ benchmark.phase # "idle" BY <1>4, ToggleFields
    <2> QED BY <1>1, <2>1 DEF OkInv
  <1>5. CASE \E q \in Participants : LogFence(q)
    <2>1. PICK q \in Participants : LogFence(q) BY <1>5
    <2>2. console' = console /\ benchmark.logged # Participants BY <2>1, LogFields
    <2>3. benchmark.phase # "idle" BY <2>2 DEF AskedInv
    <2> QED BY <1>1, <2>2, <2>3 DEF OkInv
  <1>6. CASE Restart
    <2>1. benchmark'.phase = "idle" BY <1>6 DEF Restart, Quiet
    <2>2. \A p \in Participants : logs'[p] = <<>> BY <1>6 DEF Restart
    <2> QED BY <2>1, <2>2 DEF OkInv
  <1>7. CASE Still \/ \E d \in Devices : Issue(d) \/ Progress(d)
    <2>1. benchmark' = benchmark /\ driver' = driver /\ logs' = logs /\ console' = console
      BY <1>7 DEF Still, SameSim, Issue, Progress
    <2> QED BY <2>1 DEF OkInv, Marked, Has
  <1>8. CASE console' = "idle" BY <1>1, <1>8
  <1> QED BY <1>2, <1>3, <1>4, <1>5, <1>6, <1>7, <1>8, ConsoleSteps DEF SystemStep

----------------------------------------------------------------------------
(* The drain of a trial *)

\* In a drain with idle guests, quiet devices stay quiet.
LEMMA DrainStep ==
    ASSUME TypeOK, RunInv, CountInv, DrainInv, [Next]_vars
    PROVE  DrainInv'
  <1> USE DEF webVars, simVars
  <1>0. driver.drained \in 0 .. 2 /\ work \in [Devices -> {"none", "device", "network", "peer"}]
    BY DEF TypeOK, DriverRecord, SimType
  <1>1. CASE Starts
    <2>1. /\ driver'.pc \in {"setup", "next", "launch"} /\ driver'.drained = 0 /\ driver'.seen = {}
          /\ driver'.pc = "launch" => driver'.kind = "trial" /\ benchmark.phase = "idle"
          /\ benchmark' = benchmark
      BY <1>1, StartsFresh DEF SameSim
    <2> QED BY <2>1 DEF DrainInv
  <1>2. CASE Setup \/ SetupNetwork \/ Launch \/ Ready
    <2>1. Moves BY <1>2 DEF Moves
    <2>2. benchmark' = benchmark /\ work' = work /\ driver'.kind = driver.kind BY <2>1, MovesSame DEF SameSim, SameCase
    <2>3. /\ driver'.drained = 0 /\ driver'.seen = {}
      BY <1>2, SetupFields DEF SameDrain, DrainInv
    <2>4. driver'.pc \in {"launch", "ready", "drain"} => driver.pc \in {"launch", "ready"} BY <1>2, SetupFields
    <2> QED BY <2>2, <2>3, <2>4 DEF DrainInv
  <1>3. CASE Fail \/ Killed \/ Finish \/ Report \/ Stop
    <2>1. driver'.pc \in {"exited", "report"} BY <1>3, EndFields, StopFields
    <2> QED BY <2>1 DEF DrainInv
  <1>4. CASE Done
    <2>1. Moves /\ driver.pc = "next" BY <1>4 DEF Moves, Done
    <2>2. benchmark' = benchmark /\ work' = work /\ driver'.kind = driver.kind BY <2>1, MovesSame DEF SameSim, SameCase
    <2>3. /\ driver'.drained = 0 /\ driver'.seen = {}
      BY <1>4, <2>1, DoneFields DEF SameDrain, DrainInv
    <2>4. /\ driver'.pc = "drain" => driver.kind = "trial"
          /\ driver'.pc \in {"finish", "report", "drain"}
      BY <1>4, DoneFields
    <2>5. driver'.quiet = (benchmark.phase = "idle") BY <1>4, DoneFields
    <2>6. driver'.quiet => benchmark'.phase = "idle" BY <2>2, <2>5
    <2> QED BY <2>2, <2>3, <2>4, <2>6 DEF DrainInv
  <1>5. CASE \E p \in Devices \cup {Fabric} : Sample(p)
    <2>1. PICK p \in Devices \cup {Fabric} : Sample(p) BY <1>5
    <2>2. Moves BY <1>5 DEF Moves
    <2>3. benchmark' = benchmark /\ work' = work /\ driver'.kind = driver.kind BY <2>2, MovesSame DEF SameSim, SameCase
    <2>4. /\ driver'.pc = "drain" /\ driver.pc = "drain" /\ driver'.quiet = driver.quiet
          /\ driver'.drained = driver.drained /\ driver'.seen = driver.seen \cup {p}
          /\ driver'.clean => driver.clean /\ (p # Fabric => DeviceQuiet(p))
      BY <2>1, SampleFields
    <2>5. ASSUME driver.quiet, driver'.clean, NEW d \in driver'.seen \cap Devices PROVE work[d] = "none"
      <3>1. CASE d = p BY <2>4, <2>5, <3>1 DEF DeviceQuiet, Devices, Fabric
      <3>2. CASE d # p BY <2>4, <2>5, <3>2 DEF DrainInv
      <3> QED BY <3>1, <3>2
    <2> QED BY <2>3, <2>4, <2>5 DEF DrainInv
  <1>6. CASE EndRound
    <2>1. Moves BY <1>6 DEF Moves
    <2>2. benchmark' = benchmark /\ work' = work /\ driver'.kind = driver.kind BY <2>1, MovesSame DEF SameSim, SameCase
    <2>3. /\ driver'.pc = "drain" /\ driver.pc = "drain" /\ driver'.quiet = driver.quiet /\ driver'.seen = {}
          /\ driver'.drained > 0 => driver.clean /\ driver.seen = Devices \cup {Fabric}
      BY <1>6, RoundFields
    <2> QED BY <2>2, <2>3 DEF DrainInv
  <1>7. CASE NextCase
    <2>1. driver.pc = "next" BY <1>7 DEF NextCase
    <2> QED BY <1>7, <2>1, NextCaseFields DEF DrainInv, SameDrain
  <1>8. CASE Judge
    <2>1. /\ driver'.drained = 0 /\ driver'.seen = {} /\ driver'.pc \in {"next", "failed", "report", "drain"}
          /\ driver'.pc = "drain" => driver'.kind = "trial"
      BY <1>8, JudgeFields DEF SameDrain, DrainInv
    <2>2. driver'.quiet = (benchmark.phase = "idle") /\ benchmark' = benchmark BY <1>8, JudgeFields DEF SameSim
    <2>3. driver'.quiet => benchmark'.phase = "idle" BY <2>2
    <2> QED BY <2>1, <2>3 DEF DrainInv
  <1>9. CASE Elsewhere
    <2>0. driver' = driver BY <1>9, ElsewhereSame
    <2>1. CASE Send
      <3>1. driver.pc = "case" BY <2>1 DEF Send, RunInv
      <3> QED BY <2>0, <3>1 DEF DrainInv
    <2>2. CASE Toggle
      <3>1. benchmark.phase # "idle" /\ work' = work BY <2>2, ToggleFields
      <3> QED BY <2>0, <3>1 DEF DrainInv
    <2>3. CASE \E q \in Participants : LogFence(q)
      <3>1. benchmark'.phase = benchmark.phase /\ work' = work BY <2>3, LogFields
      <3> QED BY <2>0, <3>1 DEF DrainInv
    <2>4. CASE End("ok") \/ End("error")
      <3>1. benchmark'.phase = "idle" /\ work' = work BY <2>4 DEF End, Quiet
      <3> QED BY <2>0, <3>1 DEF DrainInv
    <2>5. CASE \E d \in Devices : Issue(d)
      <3>1. benchmark' = benchmark /\ benchmark.phase # "idle" BY <2>5 DEF Issue
      <3> QED BY <2>0, <3>1 DEF DrainInv
    <2>6. CASE \E d \in Devices : Progress(d)
      <3>1. PICK e \in Devices : Progress(e) BY <2>6
      <3>2. benchmark' = benchmark /\ work[e] # "none" BY <3>1 DEF Progress
      <3>3. \A d \in Devices : work[d] = "none" => work'[d] = "none" BY <1>0, <3>1 DEF Progress
      <3> QED BY <2>0, <3>2, <3>3 DEF DrainInv
    <2>7. CASE Restart
      <3>1. driver.kind # "trial" BY <2>7 DEF Restart
      <3> QED BY <2>0, <3>1 DEF DrainInv
    <2>8. CASE Timeout \/ DetailWrite \/ UNCHANGED vars
      <3>1. benchmark' = benchmark /\ work' = work BY <2>8 DEF Timeout, DetailWrite, vars
      <3> QED BY <2>0, <3>1 DEF DrainInv
    <2>9. CASE \E r \in 1 .. MaxRuns : DetailRead(r)
      <3>1. benchmark' = benchmark /\ work' = work BY <2>9 DEF DetailRead
      <3> QED BY <2>0, <3>1 DEF DrainInv
    <2> QED BY <1>9, <2>1, <2>2, <2>3, <2>4, <2>5, <2>6, <2>7, <2>8, <2>9 DEF Elsewhere, SystemStep
  <1> QED BY <1>1, <1>2, <1>3, <1>4, <1>5, <1>6, <1>7, <1>8, <1>9, Steps DEF Moves

----------------------------------------------------------------------------
(* The theorems *)

\* The inductive invariant holds initially
LEMMA InvInit == Init => IInv
  <1> SUFFICES ASSUME Init PROVE IInv OBVIOUS
  <1>1. PICK suite : suite = [fenced |-> FALSE, rows |-> FALSE] OBVIOUS
  <1>2. /\ driver.kind = "none" /\ driver.pc = "exited" /\ driver.records = <<>> /\ runs = 0 /\ console = "idle"
    BY DEF Init, Driver
  <1>3. \A r \in 1 .. MaxRuns : status[r] # "finished" BY DEF Init
  <1>4. benchmark.logged = Participants /\ ~benchmark.sync /\ \A p \in Participants : logs[p] = <<>>
    BY DEF Init, Quiet
  <1>5. RunInv /\ CountInv BY <1>2 DEF RunInv, CountInv
  <1>6. VerdictInv /\ RecordInv BY <1>2, <1>3 DEF VerdictInv, RecordInv
  <1>7. AskedInv BY <1>4 DEF AskedInv
  <1>8. RunningInv /\ MarkInv /\ OkInv BY <1>2 DEF RunningInv, MarkInv, OkInv
  <1>9. DrainInv BY <1>2 DEF DrainInv
  <1> QED BY <1>5, <1>6, <1>7, <1>8, <1>9 DEF IInv

\* and is kept,
LEMMA InvStep == TypeOK /\ IInv /\ [Next]_vars => IInv'
  BY RunStep, CountStep, VerdictStep, AskedStep, RunningStep, MarkStep, OkStep, RecordStep, DrainStep DEF IInv

\* and hence holds always.
LEMMA Invariance == Spec => [](TypeOK /\ IInv)
  <1>1. Init => TypeOK /\ IInv BY TypeInit, InvInit
  <1>2. TypeOK /\ IInv /\ [Next]_vars => (TypeOK /\ IInv)' BY TypeStep, InvStep DEF IInv
  <1> QED BY <1>1, <1>2, PTL DEF Spec

\* The variables keep their types.
THEOREM TypeCorrect == Spec => []TypeOK
  BY Invariance, PTL

\* A case is accepted only if it was fenced and gave the results its driver asks for, and a run
\* that is shown as finished or exits with 0 has had all its cases accepted: whatever benchmarks
\* that timed out still do, and whenever the system is restarted.
THEOREM Measured == Spec => []SuccessMeansMeasured
  <1>1. TypeOK /\ IInv => SuccessMeansMeasured
    <2> SUFFICES ASSUME TypeOK, IInv PROVE SuccessMeansMeasured OBVIOUS
    <2>1. \A i \in DOMAIN driver.records :
            driver.records[i].accepted =>
                /\ driver.suite.fenced => Fenced(driver.records[i])
                /\ driver.suite.rows => driver.records[i].measured
      BY DEF IInv, RecordInv
    <2>2. runs \in 0 .. MaxRuns /\ MaxRuns \in Nat BY BoundAssumption DEF TypeOK, WebType
    <2>3. ASSUME driver.pc = "exited", runs > 0, driver.exit = 0 \/ status[driver.run] = "finished" PROVE AllAccepted
      <3>1. driver.run = runs /\ runs \in 1 .. MaxRuns BY <2>2, <2>3 DEF IInv, RunInv
      <3> QED BY <2>3, <3>1 DEF IInv, VerdictInv
    <2> QED BY <2>1, <2>3 DEF SuccessMeansMeasured
  <1> QED BY <1>1, Invariance, PTL

\* Two rounds of samples taken one by one establish that nothing is in flight, when the guests
\* were idle as the observation began.
THEOREM DrainReal == Spec => []ObservedDrainIsReal
  <1>1. TypeOK /\ IInv => ObservedDrainIsReal BY DEF IInv, DrainInv, ObservedDrainIsReal
  <1> QED BY <1>1, Invariance, PTL
=============================================================================
