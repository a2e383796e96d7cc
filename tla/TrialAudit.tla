----------------------------- MODULE TrialAudit -----------------------------
(***************************************************************************)
(* The audit of a QEMU timing trial (check_qemu_write_trial.py): from the  *)
(* runner's records, the guests' transcripts and the last counters that    *)
(* the processes logged it decides whether the trial did exactly the work  *)
(* it was asked for.                                                       *)
(*                                                                         *)
(* The trial (run_qemu_timing_trial.py), the devices and the network are   *)
(* here as far as they produce that evidence: every operation is followed  *)
(* from the send queue through the network's segments to the target and    *)
(* back, packets are lost and sent again, targets fail, somebody uses a    *)
(* guest at the same time, benchmarks hang, and the processes stop one     *)
(* after the other while the rest goes on.  Sizes are in bytes of a small  *)
(* MTU.                                                                    *)
(***************************************************************************)
EXTENDS Integers, Sequences, FiniteSets, FiniteSetsExt, SequencesExt

CONSTANTS
    Mtu,        \* bytes of a segment (4096 in the code)
    Options,    \* the options trials are started with
    Count,      \* --iterations
    MaxFaults   \* bound: things that go wrong in a trial

ASSUME MtuAssumption == Mtu \in Nat \ {0}
ASSUME OptionsAssumption ==
    \A t \in Options :
        /\ t.verb \in {"write", "read", "send"}
        /\ \A flag \in {t.bidirectional, t.latency, t.drain, t.retry} : flag \in BOOLEAN
        /\ t.sizes # <<>> /\ \A i \in DOMAIN t.sizes : t.sizes[i] \in Nat \ {0}

Nodes == {0, 1}  \* node 0 runs the server, node 1 the client
Network == 2     \* the network among the processes
Latency == 0     \* the case number of --read-latency, the others are 1, 2, ...
Terminal == -1   \* that of an operation somebody issues at a guest's terminal
NoLine == [printed |-> FALSE]

VARIABLES
    trial,    \* the options of this trial
    pc,       \* what the runner does: setup, a case, draining, stopping, the audit, done
    case,     \* the case being run
    records,  \* report.json: the set-up, the cases and the stop
    op,       \* every operation a guest may post
    net,      \* the network's counters
    alive,    \* processes that have not been stopped
    line,     \* the last line of counters that a process printed, by line
    verdict,  \* the audit's answer
    faults    \* things that went wrong

vars == <<trial, pc, case, records, op, net, alive, line, verdict, faults>>
workVars == <<op, net>>

Processes == Nodes \cup {Network}

\* Something goes wrong, if it does.
Fault(wrong) == faults' = faults + (IF wrong THEN 1 ELSE 0) /\ faults' <= MaxFaults

----------------------------------------------------------------------------
(* The runner's options *)

\* parse_args and bw_command: sizes are distinct, a SEND fits one segment, and only a READ
\* may go in one direction.
Trials ==
    {t \in Options :
        /\ IsInjective(t.sizes)
        /\ t.verb = "send" => \A i \in DOMAIN t.sizes : t.sizes[i] <= Mtu
        /\ ~t.bidirectional => t.verb = "read"}

Cases == DOMAIN trial.sizes
Verb(o) == CASE o.case = Latency -> "read" [] o.case = Terminal -> "write" [] OTHER -> trial.verb
SizeOf(o) == IF o.case \in Cases THEN trial.sizes[o.case] ELSE 1
\* The segments the network cuts it into, and the bytes of one: the last one may be shorter.
Cut(o) == {s \in 1 .. SizeOf(o) : (s - 1) * Mtu < SizeOf(o)}
Bytes(o, s) == IF s * Mtu <= SizeOf(o) THEN Mtu ELSE SizeOf(o) - (s - 1) * Mtu

\* What the guests post for a case: the server posts in both directions only.
Posters(c) == IF c \in Cases /\ trial.bidirectional THEN Nodes ELSE {1}
Posts(c) == {[case |-> c, node |-> n, k |-> k] : n \in Posters(c), k \in 1 .. (IF c \in Cases THEN Count ELSE 1)}
Ops == UNION {Posts(c) : c \in Cases \cup {Latency, Terminal}}

Segs(o) == DOMAIN op[o].seg
Target(o) == 1 - o.node

----------------------------------------------------------------------------
(* The devices and the network *)

\* An operation posted and not yet retired by its device: not counted for a SEND, which its
\* device retires when the frame is on the wire.
PendingRma(n) == {o \in Ops : o.node = n /\ op[o].device = "pending" /\ Verb(o) # "send"}
\* What a device executes for its peer.
Services(n) == {o \in Ops : Target(o) = n /\ \E s \in Segs(o) : op[o].seg[s] = "executing"}
Quiescent(n) == PendingRma(n) = {} /\ Services(n) = {} /\ \A o \in Ops : o.node = n => op[o].device # "pending"

\* The device takes a WQE from its send queue.
Accept(o) ==
    /\ o.node \in alive /\ op[o].device = "none"
    /\ \/ pc = "case" /\ o.case = case
       \/ o.case = Terminal
    /\ Fault(o.case = Terminal)
    /\ op' = [op EXCEPT ![o].device = "pending"]
    /\ UNCHANGED <<trial, pc, case, records, net, alive, line, verdict>>

\* The network takes the request as a native WQE.
Submit(o) ==
    /\ Network \in alive /\ op[o].device # "none" /\ op[o].net = "none"
    /\ op' = [op EXCEPT ![o].net = "task"]
    /\ net' = [net EXCEPT !.submitted = @ + 1]
    /\ UNCHANGED <<trial, pc, case, records, alive, line, verdict, faults>>

\* OnNativeSegmentSent: the next segment leaves.
SendSegment(o, s) ==
    /\ Network \in alive /\ op[o].net = "task" /\ op[o].seg[s] = "unsent"
    /\ \A r \in 1 .. s - 1 : op[o].seg[r] # "unsent"
    /\ op' = [op EXCEPT ![o].seg[s] = "flying"]
    /\ net' = [net EXCEPT !.segments = @ + 1, !.payload = @ + Bytes(o, s)]
    /\ UNCHANGED <<trial, pc, case, records, alive, line, verdict, faults>>

Lose(o, s) ==
    /\ Network \in alive /\ op[o].seg[s] = "flying"
    /\ Fault(TRUE)
    /\ op' = [op EXCEPT ![o].seg[s] = "lost"]
    /\ net' = [net EXCEPT !.drops = @ + 1]
    /\ UNCHANGED <<trial, pc, case, records, alive, line, verdict>>

\* With retransmission a lost segment is sent again, not counted as another segment, or its
\* retries are exhausted and the WQE fails.
Retry(o, s) ==
    /\ Network \in alive /\ op[o].seg[s] = "lost" /\ op[o].net = "task" /\ trial.retry
    /\ \/ op' = [op EXCEPT ![o].seg[s] = "flying"] /\ UNCHANGED net
       \/ /\ op' = [op EXCEPT ![o].net = "failed"]
          /\ net' = [net EXCEPT !.exhausted = @ + 1, !.failed = @ + 1]
    /\ UNCHANGED <<trial, pc, case, records, alive, line, verdict, faults>>

\* OnNativeSegmentComplete: counted by the kind of the operation, and a READ's response as
\* payload too; the last segment completes the WQE.
Completed(o, s) ==
    [net EXCEPT !.completions = @ + 1,
                !.taacks = @ + (IF Verb(o) = "write" THEN 1 ELSE 0),
                !.responses = @ + (IF Verb(o) = "read" THEN 1 ELSE 0),
                !.deliveries = @ + (IF Verb(o) = "send" THEN 1 ELSE 0),
                !.payload = @ + (IF Verb(o) = "read" THEN Bytes(o, s) ELSE 0),
                !.completed = @ + (IF op[o].complete \cup {s} = Segs(o) THEN 1 ELSE 0)]
Advanced(o, s, state) ==
    [op EXCEPT ![o].seg[s] = state, ![o].complete = @ \cup {s},
               ![o].net = IF op[o].complete \cup {s} = Segs(o) THEN "completed" ELSE @]

\* The segment is handed to the target device, which answers a SEND.
Deliver(o, s) ==
    /\ Network \in alive /\ op[o].seg[s] = "flying"
    /\ IF Verb(o) = "send"
       THEN op' = Advanced(o, s, "executing") /\ net' = Completed(o, s)
       ELSE op' = [op EXCEPT ![o].seg[s] = "executing"] /\ UNCHANGED net
    /\ UNCHANGED <<trial, pc, case, records, alive, line, verdict, faults>>

\* The target has moved the bytes, or could not; CompleteTargetExecution then ends a READ's or
\* a WRITE's segment, unless its WQE has failed already: only the target's error is counted.
Execute(o, s) ==
    /\ Target(o) \in alive /\ op[o].seg[s] = "executing"
    /\ LET open == op[o].net = "task"
       IN IF Verb(o) = "send" \/ Network \notin alive
          THEN op' = [op EXCEPT ![o].seg[s] = "executed"] /\ UNCHANGED <<net, faults>>
          ELSE \/ /\ Fault(FALSE)
                  /\ op' = IF open THEN Advanced(o, s, "executed") ELSE [op EXCEPT ![o].seg[s] = "executed"]
                  /\ net' = IF open THEN Completed(o, s) ELSE net
               \/ /\ Fault(TRUE)
                  /\ op' = [op EXCEPT ![o].seg[s] = "refused", ![o].net = IF open THEN "failed" ELSE @]
                  /\ net' = [net EXCEPT !.errors = @ + 1, !.failed = @ + (IF open THEN 1 ELSE 0)]
    /\ UNCHANGED <<trial, pc, case, records, alive, line, verdict>>

\* The device writes the CQE, of an error too.
Retire(o) ==
    /\ o.node \in alive /\ op[o].device = "pending"
    /\ Verb(o) = "send" \/ op[o].net \in {"completed", "failed"}
    /\ op' = [op EXCEPT ![o].device = "retired"]
    /\ UNCHANGED <<trial, pc, case, records, net, alive, line, verdict, faults>>

----------------------------------------------------------------------------
(* The runner *)

\* A benchmark ends well when its operations have succeeded and a receiver has its messages.
Succeeded(c) ==
    \A o \in Posts(c) :
        /\ op[o].device = "retired" /\ op[o].net # "failed"
        /\ Verb(o) = "send" => \A s \in Segs(o) : op[o].seg[s] = "executed"

Disturbed(c) == \E o \in Posts(c) : op[o].net = "failed" \/ \E s \in Segs(o) : op[o].seg[s] = "lost"

Record(c, ok, intact) == [case |-> c, ok |-> ok, intact |-> intact]

\* After the last case, or one that went wrong: "finally".
Finally == IF trial.drain THEN "drain" ELSE "stop"

\* Launch, shell-ready banners, network and capabilities.  A run that was not launched is not
\* stopped either.
Setup(ok) ==
    /\ pc = "setup" /\ Fault(~ok)
    /\ records' = [records EXCEPT !.setup = ok]
    /\ pc' \in IF ok THEN {"case"} ELSE {Finally, "audit"}
    /\ case' = IF trial.latency THEN Latency ELSE 1
    /\ UNCHANGED <<trial, workVars, alive, line, verdict>>

\* The runner takes the next case after one that was recorded as good, whose transcript it
\* found intact; after any other it ends.
EndCase(ok, intact) ==
    /\ pc = "case"
    /\ ok => Succeeded(case)
    /\ Fault(~intact \/ (~ok /\ ~Disturbed(case)))
    /\ records' = [records EXCEPT !.cases = Append(@, Record(case, ok, intact))]
    /\ IF ok /\ intact /\ case < Len(trial.sizes)
       THEN case' = case + 1 /\ pc' = pc
       ELSE case' = case /\ pc' = Finally
    /\ UNCHANGED <<trial, workVars, alive, line, verdict>>

\* Progress of the network, as it prints it on a signal.  A response not taken yet is in its
\* outputs or has left them.
Tasks == {o \in Ops : op[o].net = "task"}
Outgoing == {o \in Ops : op[o].net \in {"completed", "failed"} /\ op[o].device = "pending"}
              \cup {o \in Ops : \E s \in Segs(o) : op[o].seg[s] = "executing"}
PendingTargetDma == {o \in Ops : Verb(o) # "send" /\ \E s \in Segs(o) : op[o].seg[s] = "executing"}

Progress(empty) ==
    [printed |-> TRUE, tasks |-> Cardinality(Tasks), dma |-> Cardinality(PendingTargetDma),
     empty |-> empty, submitted |-> net.submitted, completed |-> net.completed, failed |-> net.failed]

\* What a device prints when it is asked, and again when it exits.
Retired(n) == {o \in Ops : o.node = n /\ op[o].device = "retired"}
Accepted(n) == {o \in Ops : o.node = n /\ op[o].device # "none"}
DumpProgress(n) ==
    [printed |-> TRUE, wqes |-> Cardinality(Accepted(n)), completions |-> Cardinality(Retired(n)),
     quiescent |-> Quiescent(n), rma |-> Cardinality(PendingRma(n)), services |-> Cardinality(Services(n))]

\* observe_drain has the processes print their progress again and again; the audit reads the
\* last line, which may be as old as the drain.
Observe(p) ==
    /\ pc = "drain"
    /\ ~(IF p = Network THEN line.progress ELSE line.device[p]).printed
    /\ IF p = Network
       THEN \E empty \in IF Outgoing = {} THEN {TRUE} ELSE BOOLEAN :
              line' = [line EXCEPT !.progress = Progress(empty)]
       ELSE line' = [line EXCEPT !.device[p] = DumpProgress(p)]
    /\ UNCHANGED <<trial, pc, case, records, workVars, alive, verdict, faults>>

BeginStop ==
    /\ pc = "drain"
    /\ pc' = "stop"
    /\ UNCHANGED <<trial, case, records, workVars, alive, line, verdict, faults>>

Stats == net @@ [printed |-> TRUE, dma |-> Cardinality(PendingTargetDma)]

Profile(n) ==
    [printed |-> TRUE, wqes |-> Cardinality(Accepted(n)), completions |-> Cardinality(Retired(n))]

\* A process told to stop prints its last counters, and a device then its progress; one that
\* is killed prints nothing, or only the first.
Exit(p, prints) ==
    /\ pc = "stop" /\ p \in alive /\ Fault(prints # "all")
    /\ alive' = alive \ {p}
    /\ line' = CASE prints = "nothing" -> line
                 [] prints # "nothing" /\ p = Network -> [line EXCEPT !.stats = Stats]
                 [] prints = "counters" /\ p # Network -> [line EXCEPT !.profile[p] = Profile(p)]
                 [] prints = "all" /\ p # Network ->
                      [line EXCEPT !.profile[p] = Profile(p), !.device[p] = DumpProgress(p)]
    /\ UNCHANGED <<trial, pc, case, records, workVars, verdict>>

\* The logs are copied and the report is written.
Stopped(ok) ==
    /\ pc = "stop" /\ alive = {} /\ Fault(~ok)
    /\ records' = [records EXCEPT !.stop = ok]
    /\ pc' = "audit"
    /\ UNCHANGED <<trial, case, workVars, alive, line, verdict>>

----------------------------------------------------------------------------
(* The audit: check_qemu_write_trial.py *)

\* command_config: what a workload's commands say it does, and whether the audit knows the
\* counts of it.
Config(r) ==
    [verb |-> trial.verb, bidirectional |-> trial.bidirectional, size |-> trial.sizes[r.case], count |-> Count]
Supported(config) ==
    /\ config.bidirectional \/ config.verb = "read"
    /\ config.verb = "send" => config.size <= Mtu

\* A workload is one of write, read or send with a size, ran well, and its transcripts agree
\* with its commands and with each other.
MutWorkloadGood(r) == r.case # Latency /\ r.intact
WorkloadGood(r) == r.case # Latency /\ r.ok /\ r.intact /\ Supported(Config(r))

\* Launch, network and stop went well, and so did every workload.
RecordsGood ==
    /\ records.setup /\ records.stop /\ records.cases # <<>>
    /\ \A i \in DOMAIN records.cases : WorkloadGood(records.cases[i])

Directions == IF trial.bidirectional THEN 2 ELSE 1
MutSegments(size) == size \div Mtu
Segments(size) == (size + Mtu - 1) \div Mtu

\* What those workloads must have done, summed up case by case.
Recorded(Measure(_)) == FoldLeft(LAMBDA sum, r : sum + Measure(Config(r)), 0, records.cases)
ExpectedWqes == Recorded(LAMBDA config : config.count)
ExpectedPayload == Recorded(LAMBDA config : Directions * config.count * config.size)
ExpectedSegments == Recorded(LAMBDA config : Directions * config.count * Segments(config.size))

\* --expected-sizes: the sizes asked for, in their order.
CompleteSizes == [i \in DOMAIN records.cases |-> Config(records.cases[i]).size] = trial.sizes

ProgressGood(p) ==
    /\ p.printed
    /\ p.tasks = 0 /\ p.dma = 0 /\ p.failed = 0 /\ p.empty
    /\ p.submitted = Directions * ExpectedWqes /\ p.completed = Directions * ExpectedWqes

\* The adapter counts a READ's request and its response as payload.
Payload == ExpectedPayload * (IF trial.verb = "read" THEN 2 ELSE 1)

StatsGood(s) ==
    /\ s.printed
    /\ s.submitted = Directions * ExpectedWqes /\ s.completed = Directions * ExpectedWqes
    /\ s.payload = Payload
    /\ s.segments = ExpectedSegments /\ s.completions = ExpectedSegments
    /\ s.taacks = IF trial.verb = "write" THEN ExpectedSegments ELSE 0
    /\ s.responses = IF trial.verb = "read" THEN ExpectedSegments ELSE 0
    /\ s.deliveries = IF trial.verb = "send" THEN ExpectedSegments ELSE 0
    /\ s.failed = 0 /\ s.errors = 0 /\ s.dma = 0 /\ s.drops = 0 /\ s.exhausted = 0

\* One direction: the server posts nothing.
NodeWqes(n) == IF trial.bidirectional \/ n = 1 THEN ExpectedWqes ELSE 0
DeviceGood(n, profile, progress) ==
    /\ profile.printed /\ progress.printed
    /\ profile.wqes = NodeWqes(n) /\ profile.completions = NodeWqes(n)
    /\ progress.wqes = NodeWqes(n) /\ progress.completions = NodeWqes(n)
    /\ progress.quiescent /\ progress.rma = 0 /\ progress.services = 0

Passes ==
    /\ RecordsGood
    /\ CompleteSizes
    /\ ProgressGood(line.progress)
    /\ StatsGood(line.stats)
    /\ \A n \in Nodes : DeviceGood(n, line.profile[n], line.device[n])

Audit ==
    /\ pc = "audit"
    /\ verdict' = IF Passes THEN "PASS" ELSE "FAIL"
    /\ pc' = "done"
    /\ UNCHANGED <<trial, case, records, workVars, alive, line, faults>>

----------------------------------------------------------------------------

Init ==
    /\ trial \in Trials
    /\ pc = "setup" /\ case = 1
    /\ records = [setup |-> FALSE, cases |-> <<>>, stop |-> FALSE]
    /\ op = [o \in Ops |-> [device |-> "none", net |-> "none", complete |-> {},
                            seg |-> [s \in Cut(o) |-> "unsent"]]]
    /\ net = [submitted |-> 0, completed |-> 0, failed |-> 0, segments |-> 0, completions |-> 0,
              taacks |-> 0, responses |-> 0, deliveries |-> 0, payload |-> 0, errors |-> 0,
              drops |-> 0, exhausted |-> 0]
    /\ alive = Processes
    /\ line = [progress |-> NoLine, stats |-> NoLine, profile |-> [n \in Nodes |-> NoLine],
               device |-> [n \in Nodes |-> NoLine]]
    /\ verdict = "none" /\ faults = 0

SegmentStep(o, s) ==
    SendSegment(o, s) \/ Lose(o, s) \/ Retry(o, s) \/ Deliver(o, s) \/ Execute(o, s)

WorkStep == \E o \in Ops :
    \/ Accept(o) \/ Submit(o) \/ Retire(o)
    \/ \E s \in Segs(o) : SegmentStep(o, s)

RunnerStep ==
    \/ \E ok \in BOOLEAN : Setup(ok) \/ Stopped(ok)
    \/ \E ok, intact \in BOOLEAN : EndCase(ok, intact)
    \/ \E p \in Processes : Observe(p)
    \/ BeginStop
    \/ \E p \in Processes, prints \in {"nothing", "counters", "all"} : Exit(p, prints)

Next == WorkStep \/ RunnerStep \/ Audit

Spec == Init /\ [][Next]_vars

----------------------------------------------------------------------------
(* Properties *)

\* An operation that was carried out: its device retired it without an error, and every byte
\* of it was moved, with no packet lost on the way.
Done(o) ==
    /\ op[o].device = "retired" /\ op[o].net = "completed"
    /\ \A s \in Segs(o) : op[o].seg[s] = "executed"

\* The audit is fail-closed: PASS means that the trial ran all its cases to their end, that
\* every operation of theirs was carried out and that no other operation ever ran, although
\* the counters were printed at different moments, some before the last operation may have
\* ended, and by processes that stopped one after the other.
PassMeansDone ==
    verdict = "PASS" =>
        /\ \A c \in Cases : \E i \in DOMAIN records.cases : records.cases[i] = Record(c, TRUE, TRUE)
        /\ \A c \in Cases : \A o \in Posts(c) : Done(o)
        /\ \A o \in Ops : op[o].device # "none" => o.case \in Cases
        /\ net.drops = 0 /\ net.errors = 0

\* A trial in which nothing went wrong: it ran its cases and nothing else, lost nothing, was
\* observed after its work had drained, and every process printed its last lines.
Clean ==
    /\ ~trial.latency /\ records.setup /\ records.stop
    /\ Len(records.cases) = Len(trial.sizes)
    /\ \A i \in DOMAIN records.cases : records.cases[i].ok /\ records.cases[i].intact
    /\ \A o \in Ops : IF o.case \in Cases THEN Done(o) ELSE op[o].device = "none"
    /\ net.drops = 0 /\ net.errors = 0
    /\ line.progress.printed /\ line.progress.completed = net.completed /\ line.progress.empty
    /\ line.stats.printed
    /\ \A n \in Nodes : line.profile[n].printed /\ line.device[n].printed /\ line.device[n].quiescent

\* The expectations fit what the devices and the network count: a clean trial of any verb,
\* direction and size, one segment or more, passes.
CleanTrialPasses == verdict = "FAIL" => ~Clean
=============================================================================
