----------------------------- MODULE Consoles ------------------------------
(***************************************************************************)
(* The two tools that drive all guest consoles at once:                    *)
(* tools/dual_serial_command.py runs a command on every UART and           *)
(* tools/coordinated_checkpoint.py stops every guest at a checkpoint.      *)
(* Each has a main thread and one worker thread per UART, joined by a      *)
(* threading.Barrier.                                                      *)
(*                                                                         *)
(* A console's output is a sequence of items (a prompt, a marker line,     *)
(* other text).  A worker reads it in pieces of any size.  The deadline is *)
(* a choice: any wait may end by it.                                       *)
(***************************************************************************)
EXTENDS Integers, Sequences, FiniteSets

CONSTANTS
    Ports,       \* UART ports, in the order of --ports
    Modes,       \* which tool runs: "command", "checkpoint"
    Kicks,       \* values of --prompt-kick-after: given (TRUE) or not
    MayCrash,    \* may gem5 processes end by themselves
    MaxHistory   \* bound: items of history, for what is typed at a terminal

ASSUME ConsolesAssumption ==
    /\ Ports \subseteq Nat /\ Ports # {}
    /\ Modes \subseteq {"command", "checkpoint"}
    /\ Kicks \subseteq BOOLEAN
    /\ MayCrash \in BOOLEAN
    /\ MaxHistory \in Nat

VARIABLES
    mode, kick,      \* the invocation
    shell,           \* what owns each guest's console
    listening,       \* UARTs whose listener is open
    taken,           \* UARTs another terminal is attached to
    out,             \* output the worker has not read (before it connects: the replayed history)
    inq,             \* input the shell has not taken
    ran,             \* exit status of this run's command in each guest, -1 before
    pc,              \* workers
    kicked,          \* prompt_kicked
    text,            \* what the patterns search: chunks, then chunks from pre_send_len on
    commanded,       \* UARTs the command was sent to
    gate, waiting,   \* the Barrier
    results,         \* results (command) or errors (checkpoint)
    joined, exit     \* main: threads joined, exit status

vars == <<mode, kick, shell, listening, taken, out, inq, ran, pc, kicked, text, commanded,
          gate, waiting, results, joined, exit>>

guestVars == <<mode, kick, shell, listening, taken, ran>>
mainVars == <<joined, exit>>

\* Items of a console's output.  "old" is a marker line of an earlier command, "echo"
\* the echoed command line, "begin" and the statuses this run's marker lines.
Items == {"text", "old", "prompt", "attached", "echo", "begin", "rc0", "rc1"}

Has(s, x) == \E i \in DOMAIN s : s[i] = x
From(s, i) == SubSeq(s, i, Len(s))
After(s, x) == From(s, 1 + CHOOSE i \in DOMAIN s : s[i] = x /\ \A j \in 1 .. i - 1 : s[j] # x)

----------------------------------------------------------------------------
(* The guests and their terminals *)

\* A guest that still boots, one idle at its shell, one busy with an earlier command.
History == [boot |-> {<<"text">>}, idle |-> {<<>>, <<"old", "prompt">>},
            busy |-> {<<"prompt", "text">>}]

BootDone(p) ==
    /\ shell[p] \in {"boot", "busy"}
    /\ shell' = [shell EXCEPT ![p] = "idle"]
    /\ out' = [out EXCEPT ![p] = Append(@, "prompt")]
    /\ UNCHANGED <<mode, kick, listening, taken, inq, ran, pc, kicked, text, commanded, gate, waiting,
                   results, mainVars>>

Listen(p) ==
    /\ p \notin listening /\ shell[p] \notin {"dead", "left"}
    /\ listening' = listening \cup {p}
    /\ UNCHANGED <<mode, kick, shell, taken, out, inq, ran, pc, kicked, text, commanded, gate, waiting,
                   results, mainVars>>

ShellTakes(p) ==
    /\ shell[p] = "idle" /\ inq[p] # <<>>
    /\ inq' = [inq EXCEPT ![p] = Tail(@)]
    /\ IF Head(inq[p]) = "kick"
       THEN out' = [out EXCEPT ![p] = Append(@, "prompt")] /\ UNCHANGED shell
       ELSE /\ shell' = [shell EXCEPT ![p] = "run"]
            /\ out' = [out EXCEPT ![p] = IF mode = "command" THEN Append(@, "begin") ELSE @]
    /\ UNCHANGED <<mode, kick, listening, taken, ran, pc, kicked, text, commanded, gate, waiting,
                   results, mainVars>>

\* The command ends.  A checkpoint that succeeds ends gem5 as well.
ShellEnds(p, rc) ==
    /\ shell[p] = "run"
    /\ ran' = [ran EXCEPT ![p] = rc]
    /\ IF mode = "command"
       THEN /\ shell' = [shell EXCEPT ![p] = "idle"]
            /\ out' = [out EXCEPT ![p] = @ \o <<IF rc = 0 THEN "rc0" ELSE "rc1", "prompt">>]
       ELSE /\ shell' = [shell EXCEPT ![p] = IF rc = 0 THEN "dead" ELSE "idle"]
            /\ out' = [out EXCEPT ![p] = IF rc = 0 THEN @ ELSE Append(@, "prompt")]
    /\ UNCHANGED <<mode, kick, listening, taken, inq, pc, kicked, text, commanded, gate, waiting,
                   results, mainVars>>

Crash(p) ==
    /\ MayCrash /\ shell[p] \notin {"dead", "left"}
    /\ shell' = [shell EXCEPT ![p] = "dead"]
    /\ UNCHANGED <<mode, kick, listening, taken, out, inq, ran, pc, kicked, text, commanded, gate, waiting,
                   results, mainVars>>

----------------------------------------------------------------------------
(* Terminals of the workbench (web.py, _terminal_socket) *)

\* A browser's terminal becomes the owner of a console nobody is attached to.
TerminalOpens(p) ==
    /\ p \in listening \ taken /\ shell[p] \notin {"dead", "left"} /\ pc[p] = "connect"
    /\ taken' = taken \cup {p}
    /\ UNCHANGED <<mode, kick, shell, listening, out, inq, ran, pc, kicked, text, commanded, gate, waiting,
                   results, mainVars>>

\* Its user runs a command, which ends as any other does.
TerminalTypes(p) ==
    /\ p \in taken /\ shell[p] = "idle" /\ Len(out[p]) < MaxHistory
    /\ shell' = [shell EXCEPT ![p] = "busy"]
    /\ out' = [out EXCEPT ![p] = Append(@, "text")]
    /\ UNCHANGED <<mode, kick, listening, taken, inq, ran, pc, kicked, text, commanded, gate, waiting,
                   results, mainVars>>

\* Browser or guest closes; the console is free again.
TerminalCloses(p) ==
    /\ p \in taken
    /\ taken' = taken \ {p}
    /\ UNCHANGED <<mode, kick, shell, listening, out, inq, ran, pc, kicked, text, commanded, gate, waiting,
                   results, mainVars>>

----------------------------------------------------------------------------
(* A worker: run_one, checkpoint_one *)

\* The worker ends and closes its socket; the guest is not followed any longer.
Report(p, result, transcript) ==
    /\ results' = [results EXCEPT ![p] = result]
    /\ pc' = [pc EXCEPT ![p] = "done"]
    /\ text' = [text EXCEPT ![p] = transcript]
    /\ shell' = [shell EXCEPT ![p] = "left"]
    /\ out' = [out EXCEPT ![p] = <<>>]
    /\ inq' = [inq EXCEPT ![p] = <<>>]

\* The outer except of both workers.
Fails(p) ==
    /\ Report(p, "error", <<>>)
    /\ UNCHANGED <<mode, kick, listening, taken, ran, kicked, commanded, mainVars>>

Connect(p) ==
    /\ pc[p] = "connect" /\ p \in listening /\ shell[p] # "dead"
    /\ pc' = [pc EXCEPT ![p] = "warm"]
    /\ out' = [out EXCEPT ![p] = IF p \in taken THEN <<"attached">> ELSE @]
    /\ UNCHANGED <<guestVars, inq, kicked, text, commanded, gate, waiting, results, mainVars>>

\* connect_until_ready retries until the deadline; the checkpoint tool does not.
ConnectFails(p) ==
    /\ pc[p] = "connect"
    /\ mode = "checkpoint" => p \notin listening \/ shell[p] = "dead"
    /\ Fails(p) /\ UNCHANGED <<gate, waiting>>

KickEnabled == mode = "checkpoint" \/ kick

MutKick(p) ==
    /\ pc[p] = "warm" /\ ~kicked[p] /\ out[p] = <<>>
    /\ kicked' = [kicked EXCEPT ![p] = TRUE]
    /\ inq' = [inq EXCEPT ![p] = Append(@, "kick")]
    /\ UNCHANGED <<guestVars, out, pc, text, commanded, gate, waiting, results, mainVars>>
\* One newline asks an idle shell for a fresh prompt.
Kick(p) ==
    /\ pc[p] = "warm" /\ KickEnabled /\ ~kicked[p] /\ out[p] = <<>>
    /\ kicked' = [kicked EXCEPT ![p] = TRUE]
    /\ inq' = [inq EXCEPT ![p] = IF p \in taken THEN @ ELSE Append(@, "kick")]
    /\ UNCHANGED <<guestVars, out, pc, text, commanded, gate, waiting, results, mainVars>>

\* The connection is closed: gem5 has ended, or the terminal refused this client.
Eof(p) == out[p] = <<>> /\ (shell[p] = "dead" \/ p \in taken)

\* re.search(SHELL_PROMPT_PATTERN, chunks)
PromptReady(s) == Has(s, "prompt")

\* recv in the prompt loop.
Warm(p, n) ==
    /\ pc[p] = "warm" /\ n \in 1 .. Len(out[p])
    /\ LET data == SubSeq(out[p], 1, n)
           chunks == text[p] \o data
       IN IF Has(data, "attached") THEN Fails(p) /\ UNCHANGED <<gate, waiting>>
          ELSE /\ text' = [text EXCEPT ![p] = IF PromptReady(chunks) THEN <<>> ELSE chunks]
               /\ out' = [out EXCEPT ![p] = From(@, n + 1)]
               /\ pc' = [pc EXCEPT ![p] = IF PromptReady(chunks) THEN "gate" ELSE @]
               /\ UNCHANGED <<guestVars, inq, kicked, commanded, gate, waiting, results, mainVars>>

\* The deadline, or an EOF.
WarmFails(p) ==
    /\ pc[p] = "warm"
    /\ Fails(p) /\ UNCHANGED <<gate, waiting>>

\* start_gate.wait: the last thread to arrive opens the barrier.
Arrive(p) ==
    /\ pc[p] = "gate"
    /\ IF gate = "broken" THEN Fails(p) /\ UNCHANGED <<gate, waiting>>
       ELSE /\ waiting' = waiting \cup {p}
            /\ gate' = IF waiting' = Ports THEN "open" ELSE gate
            /\ pc' = [pc EXCEPT ![p] = "waiting"]
            /\ UNCHANGED <<guestVars, out, inq, kicked, text, commanded, results, mainVars>>

MutGateOpens == gate = "open" \/ (gate = "filling" /\ 2 * Cardinality(waiting) >= Cardinality(Ports))
GateOpens == gate = "open"

GatePasses(p) ==
    /\ pc[p] = "waiting" /\ GateOpens
    /\ pc' = [pc EXCEPT ![p] = "delay"]
    /\ UNCHANGED <<guestVars, out, inq, kicked, text, commanded, gate, waiting, results, mainVars>>

MutGateFails(p) ==
    /\ pc[p] = "waiting" /\ gate = "broken"
    /\ UNCHANGED gate
    /\ Fails(p) /\ UNCHANGED waiting
\* A waiter whose timeout passes breaks the barrier for every other one.
GateFails(p) ==
    /\ pc[p] = "waiting" /\ gate # "open"
    /\ gate' = "broken"
    /\ Fails(p) /\ UNCHANGED waiting

\* After start_delay: ^U and the wrapped command.  The tty echoes the line.
Send(p) ==
    /\ pc[p] = "delay"
    /\ commanded' = commanded \cup {p}
    /\ text' = [text EXCEPT ![p] = <<>>]
    /\ pc' = [pc EXCEPT ![p] = "sent"]
    /\ IF shell[p] = "dead" THEN UNCHANGED <<inq, out>>
       ELSE /\ inq' = [inq EXCEPT ![p] = Append(@, "cmd")]
            /\ out' = [out EXCEPT ![p] = Append(@, "echo")]
    /\ UNCHANGED <<guestVars, kicked, gate, waiting, results, mainVars>>

SendFails(p) ==
    /\ pc[p] = "delay" /\ shell[p] = "dead"
    /\ Fails(p) /\ UNCHANGED <<gate, waiting>>

MutTranscript(new_text) == new_text
\* The text from the standalone BEGIN line on; empty without one.
Transcript(new_text) == IF Has(new_text, "begin") THEN After(new_text, "begin") ELSE <<>>

\* The RC line that carries this run's nonce.
StatusMatch(s) == CASE Has(s, "rc0") -> "rc0" [] Has(s, "rc1") -> "rc1" [] OTHER -> "none"

\* recv after the command was sent, an item at a time: the patterns are searched again in
\* all of new_text, so the pieces do not matter.  The checkpoint tool drops what it reads.
Await(p) ==
    /\ pc[p] = "sent" /\ out[p] # <<>>
    /\ LET new_text == Append(text[p], Head(out[p]))
           own == Transcript(new_text)
           status == StatusMatch(own)
           complete == mode = "command" /\ status # "none" /\ Has(After(own, status), "prompt")
       IN IF complete THEN Report(p, IF status = "rc0" THEN "ok" ELSE "error", own)
          ELSE /\ text' = [text EXCEPT ![p] = IF mode = "command" THEN new_text ELSE <<>>]
               /\ out' = [out EXCEPT ![p] = Tail(@)]
               /\ UNCHANGED <<shell, inq, pc, results>>
    /\ UNCHANGED <<mode, kick, listening, taken, ran, kicked, commanded, gate, waiting, mainVars>>

\* EOF is how a checkpoint succeeds.
CheckpointEof(p) ==
    /\ mode = "checkpoint" /\ pc[p] = "sent" /\ Eof(p)
    /\ Report(p, "ok", <<>>)
    /\ UNCHANGED <<mode, kick, listening, taken, ran, kicked, commanded, gate, waiting, mainVars>>

\* The deadline, or the EOF of a console that runs a command.
AwaitFails(p) ==
    /\ pc[p] = "sent"
    /\ Fails(p) /\ UNCHANGED <<gate, waiting>>

----------------------------------------------------------------------------
(* main *)

\* thread.join outlives every worker but one that sleeps through its stagger.
Join(p) ==
    /\ p \notin joined /\ \A q \in Ports : q < p => q \in joined
    /\ pc[p] = "done" \/ (mode = "command" /\ pc[p] = "delay" /\ \E q \in Ports : q < p)
    /\ joined' = joined \cup {p}
    /\ UNCHANGED <<guestVars, out, inq, pc, kicked, text, commanded, gate, waiting, results, exit>>

\* A command without a result counts as failed; a checkpoint fails by its error list.
Return ==
    /\ joined = Ports /\ exit = "none"
    /\ exit' = IF \/ \E p \in Ports : results[p] = "error"
                  \/ mode = "command" /\ \E p \in Ports : results[p] = "none"
               THEN "failed" ELSE "ok"
    /\ UNCHANGED <<guestVars, out, inq, pc, kicked, text, commanded, gate, waiting, results, joined>>

Init ==
    /\ mode \in Modes /\ kick \in Kicks /\ (mode = "checkpoint" => ~kick)
    /\ shell \in [Ports -> DOMAIN History]
    /\ out \in [Ports -> UNION {History[s] : s \in DOMAIN History}]
    /\ \A p \in Ports : out[p] \in History[shell[p]]
    /\ listening \in {Ports, {p \in Ports : shell[p] # "boot"}}
    /\ taken \in {{}} \cup {{p} : p \in listening}
    /\ inq = [p \in Ports |-> <<>>] /\ ran = [p \in Ports |-> -1]
    /\ pc = [p \in Ports |-> "connect"] /\ kicked = [p \in Ports |-> FALSE]
    /\ text = [p \in Ports |-> <<>>] /\ commanded = {}
    /\ gate = "filling" /\ waiting = {}
    /\ results = [p \in Ports |-> "none"] /\ joined = {} /\ exit = "none"

Worker(p) ==
    \/ Connect(p) \/ ConnectFails(p) \/ Kick(p)
    \/ \E n \in 1 .. Len(out[p]) : Warm(p, n)
    \/ Await(p) \/ WarmFails(p) \/ Arrive(p) \/ GatePasses(p) \/ GateFails(p)
    \/ Send(p) \/ SendFails(p) \/ CheckpointEof(p) \/ AwaitFails(p)

Main == Return \/ \E p \in Ports : Join(p)

Guest(p) ==
    \/ BootDone(p) \/ Listen(p) \/ ShellTakes(p) \/ Crash(p)
    \/ \E rc \in {0, 1} : ShellEnds(p, rc)

Terminal(p) == TerminalOpens(p) \/ TerminalTypes(p) \/ TerminalCloses(p)

\* Once main returns the workers, daemon threads, are gone.
Next ==
    /\ exit = "none"
    /\ Main \/ \E p \in Ports : Worker(p) \/ Guest(p) \/ Terminal(p)

\* The threads run: while some thread can take a step, some thread takes one.
Threads == exit = "none" /\ (Main \/ \E p \in Ports : Worker(p))

Spec == Init /\ [][Next]_vars /\ WF_vars(Threads)

----------------------------------------------------------------------------
(* Properties *)

\* Types of the guests and their terminals, of what consoles carry, and of the threads.
GuestType ==
    /\ mode \in {"command", "checkpoint"} /\ kick \in BOOLEAN
    /\ shell \in [Ports -> {"boot", "idle", "busy", "run", "dead", "left"}]
    /\ listening \subseteq Ports /\ taken \subseteq listening
    /\ ran \in [Ports -> {-1, 0, 1}]

Stream == Seq(Items)
Input == Seq({"kick", "cmd"})

ConsoleType == out \in [Ports -> Stream] /\ text \in [Ports -> Stream] /\ inq \in [Ports -> Input]

ThreadType ==
    /\ pc \in [Ports -> {"connect", "warm", "gate", "waiting", "delay", "sent", "done"}]
    /\ kicked \in [Ports -> BOOLEAN] /\ commanded \subseteq Ports
    /\ gate \in {"filling", "open", "broken"} /\ waiting \subseteq Ports
    /\ \A p \in Ports : pc[p] \in {"waiting", "delay", "sent"} => p \in waiting
    /\ results \in [Ports -> {"none", "ok", "error"}]
    /\ joined \subseteq Ports /\ exit \in {"none", "ok", "failed"}

\* Every variable keeps its type; a thread that waits or is past the barrier has arrived at it.
TypeOK == GuestType /\ ConsoleType /\ ThreadType

Gate == INSTANCE StartGate WITH ready <- waiting

\* "Both consoles are connected and drained before either command is injected": the tools
\* implement the start gate whatever order the threads fail, time out and arrive in.
GateSpec == Gate!Spec

\* "Never inject into the boot stream": without a kick no input waits for a guest that boots.
BootStreamUntouched ==
    \A p \in Ports : shell[p] = "boot" /\ ~KickEnabled => inq[p] = <<>>

\* A run that exits 0 ran the command to status 0 in every guest, although consoles
\* replay the history of earlier commands; what it shows for a guest is only what
\* that command printed.
SuccessIsOwn ==
    exit = "ok" /\ mode = "command" =>
        \A p \in Ports : ran[p] = 0 /\ text[p] = <<"rc0", "prompt">>

\* main returns, whichever consoles stay silent, end or never answer.
MainReturns == <>(exit # "none")
=============================================================================
