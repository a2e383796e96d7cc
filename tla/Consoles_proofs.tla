--------------------------- MODULE Consoles_proofs --------------------------
(***************************************************************************)
(* Proofs about the console tools, for any number of consoles: the types,  *)
(* that the tools implement StartGate, that nothing is typed at a booting  *)
(* guest, and that a run's success is its own.                             *)
(***************************************************************************)
EXTENDS Consoles, TLAPS, WellFoundedInduction

\* What reading and printing do to a stream of items.
LEMMA Streams ==
    /\ <<>> \in Stream
    /\ \A s \in Stream, x \in Items : Append(s, x) \in Stream
    /\ \A x \in Items : <<x>> \in Stream
    /\ \A x, y \in Items : <<x, y>> \in Stream
    /\ \A s, t \in Stream : s \o t \in Stream
    /\ \A s \in Stream : s # <<>> => Head(s) \in Items /\ Tail(s) \in Stream
    /\ \A s \in Stream : \A n \in 1 .. Len(s) : SubSeq(s, 1, n) \in Stream /\ From(s, n + 1) \in Stream
<1>1. ASSUME NEW s \in Stream, NEW n \in 1 .. Len(s)
      PROVE  SubSeq(s, 1, n) \in Stream /\ From(s, n + 1) \in Stream
  BY DEF Stream, From
<1>2. \A s \in Stream, x \in Items : Append(s, x) \in Stream
  BY DEF Stream
<1>3. \A s, t \in Stream : s \o t \in Stream
  BY DEF Stream
<1>4. \A s \in Stream : s # <<>> => Head(s) \in Items /\ Tail(s) \in Stream
  BY DEF Stream
<1>5. <<>> \in Stream /\ \A x, y \in Items : <<x>> \in Stream /\ <<x, y>> \in Stream
  BY DEF Stream
<1> QED
  BY <1>1, <1>2, <1>3, <1>4, <1>5

\* The same for what is typed.
LEMMA Inputs ==
    /\ <<>> \in Input
    /\ \A s \in Input, x \in {"kick", "cmd"} : Append(s, x) \in Input
    /\ \A s \in Input : s # <<>> => Head(s) \in {"kick", "cmd"} /\ Tail(s) \in Input
  BY DEF Input

\* The first occurrence of an item.
LEMMA FirstAt ==
    ASSUME NEW s \in Stream, NEW x, Has(s, x)
    PROVE  \E i \in DOMAIN s : s[i] = x /\ \A j \in 1 .. i - 1 : s[j] # x
<1> DEFINE P == {i \in DOMAIN s : s[i] = x}
<1>1. P # {} /\ P \subseteq Nat
  BY DEF Has, Stream
<1>2. PICK i \in P : \A j \in P : <<j, i>> \notin OpToRel(<, Nat)
  BY <1>1, NatLessThanWellFounded, WFMin
<1>3. \A j \in P : ~(j < i)
  BY <1>1, <1>2 DEF OpToRel
<1> QED
  BY <1>3 DEF Stream

\* What follows the BEGIN line is a stream again.
LEMMA OwnType ==
    ASSUME NEW s \in Stream
    PROVE  Transcript(s) \in Stream
<1>1. CASE Has(s, "begin")
  <2> DEFINE i == CHOOSE i \in DOMAIN s : s[i] = "begin" /\ \A j \in 1 .. i - 1 : s[j] # "begin"
  <2>1. i \in DOMAIN s
    BY <1>1, FirstAt
  <2>2. i \in 1 .. Len(s)
    BY <2>1 DEF Stream
  <2> HIDE DEF i
  <2>3. From(s, i + 1) = From(s, 1 + i)
    BY <2>2
  <2>4. From(s, 1 + i) \in Stream
    BY <2>2, <2>3, Streams
  <2> QED
    BY <1>1, <2>4 DEF Transcript, After, i
<1> QED
  BY <1>1, Streams DEF Transcript

----------------------------------------------------------------------------
(* Types *)

\* The guests and their terminals keep their types.
LEMMA GuestTypeStep ==
    ASSUME TypeOK, Next
    PROVE  GuestType'
<1>0. GuestType /\ ConsoleType /\ ThreadType
  BY DEF TypeOK
<1>1. ASSUME NEW p \in Ports, Join(p) PROVE GuestType'
  BY <1>0, <1>1 DEF Join, GuestType, guestVars, mainVars
<1>2. CASE Return
  BY <1>0, <1>2 DEF Return, GuestType, guestVars, mainVars
<1> SUFFICES ASSUME NEW p \in Ports, Worker(p) \/ Guest(p) \/ Terminal(p)
             PROVE  GuestType'
  BY <1>1, <1>2 DEF Next, Main
<1>a. ASSUME NEW r \in {"ok", "error"}, NEW t \in Stream, Report(p, r, t),
             UNCHANGED <<mode, kick, listening, taken, ran, kicked, commanded, joined, exit, waiting>>,
             gate' \in {"filling", "open", "broken"}
      PROVE  GuestType'
  BY <1>0, <1>a DEF Report, GuestType, guestVars, mainVars
<1>b. ASSUME Fails(p), UNCHANGED waiting, gate' \in {"filling", "open", "broken"} PROVE GuestType'
  BY <1>a, <1>b, Streams DEF Fails, mainVars
<1>3. CASE Terminal(p)
  BY <1>0, <1>3 DEF Terminal, TerminalOpens, TerminalTypes, TerminalCloses, GuestType, guestVars, mainVars
<1>4. CASE BootDone(p) \/ Listen(p) \/ Crash(p)
  BY <1>0, <1>4 DEF BootDone, Listen, Crash, GuestType, guestVars, mainVars
<1>5. CASE ShellTakes(p)
  BY <1>0, <1>5 DEF ShellTakes, GuestType, guestVars, mainVars
<1>6. ASSUME NEW rc \in {0, 1}, ShellEnds(p, rc) PROVE GuestType'
  BY <1>0, <1>6 DEF ShellEnds, GuestType, guestVars, mainVars
<1>7. CASE Connect(p)
  BY <1>0, <1>7 DEF Connect, GuestType, guestVars, mainVars
<1>8. CASE Kick(p) \/ GatePasses(p)
  BY <1>0, <1>8 DEF Kick, GatePasses, GuestType, guestVars, mainVars
<1>9. CASE Send(p)
  BY <1>0, <1>9 DEF Send, GuestType, guestVars, mainVars
<1>10. CASE ConnectFails(p) \/ WarmFails(p) \/ SendFails(p) \/ AwaitFails(p) \/ GateFails(p)
  BY <1>0, <1>b, <1>10 DEF ConnectFails, WarmFails, SendFails, AwaitFails, GateFails, ThreadType
<1>11. ASSUME NEW n \in 1 .. Len(out[p]), Warm(p, n) PROVE GuestType'
  <2> DEFINE data == SubSeq(out[p], 1, n)
             chunks == text[p] \o data
  <2>1. CASE Has(data, "attached")
    BY <1>0, <1>b, <1>11, <2>1 DEF Warm, ThreadType
  <2>2. CASE ~Has(data, "attached")
    <3>1. /\ text' = [text EXCEPT ![p] = IF PromptReady(chunks) THEN <<>> ELSE chunks]
          /\ out' = [out EXCEPT ![p] = From(out[p], n + 1)]
          /\ pc' = [pc EXCEPT ![p] = IF PromptReady(chunks) THEN "gate" ELSE pc[p]]
          /\ UNCHANGED <<guestVars, inq, kicked, commanded, gate, waiting, results, mainVars>>
          /\ pc[p] = "warm"
      BY <1>11, <2>2 DEF Warm
    <3>2. chunks \in Stream /\ From(out[p], n + 1) \in Stream
      BY <1>0, Streams DEF ConsoleType
    <3> HIDE DEF chunks
    <3> QED
      BY <1>0, <3>1, <3>2, Streams DEF GuestType, guestVars, mainVars
  <2> QED
    BY <2>1, <2>2
<1>12. CASE Arrive(p)
  <2>1. CASE gate = "broken"
    BY <1>0, <1>b, <1>12, <2>1 DEF Arrive, ThreadType
  <2>2. CASE gate # "broken"
    BY <1>0, <1>12, <2>2 DEF Arrive, GuestType, guestVars, mainVars
  <2> QED
    BY <2>1, <2>2
<1>13. CASE Await(p)
  <2> DEFINE new_text == Append(text[p], Head(out[p]))
             own == Transcript(new_text)
             status == StatusMatch(own)
             complete == mode = "command" /\ status # "none" /\ Has(After(own, status), "prompt")
  <2>1. UNCHANGED <<mode, kick, listening, taken, ran, kicked, commanded, gate, waiting, mainVars>>
    BY <1>13 DEF Await
  <2>2. new_text \in Stream /\ own \in Stream /\ Tail(out[p]) \in Stream
    BY <1>0, <1>13, Streams, OwnType DEF Await, ConsoleType
  <2>3. CASE complete
    <3>1. Report(p, IF status = "rc0" THEN "ok" ELSE "error", own)
      BY <1>13, <2>3 DEF Await
    <3> HIDE DEF own, status
    <3> QED
      BY <1>0, <1>a, <2>1, <2>2, <3>1 DEF mainVars, ThreadType
  <2>4. CASE ~complete
    <3>1. /\ text' = [text EXCEPT ![p] = IF mode = "command" THEN new_text ELSE <<>>]
          /\ out' = [out EXCEPT ![p] = Tail(out[p])]
          /\ UNCHANGED <<shell, inq, pc, results>>
      BY <1>13, <2>4 DEF Await
    <3> HIDE DEF new_text
    <3> QED
      BY <1>0, <2>1, <2>2, <3>1, Streams DEF GuestType, guestVars, mainVars
  <2> QED
    BY <2>3, <2>4
<1>14. CASE CheckpointEof(p)
  BY <1>0, <1>a, <1>14, Streams DEF CheckpointEof, mainVars, ThreadType
<1> QED
  BY <1>3, <1>4, <1>5, <1>6, <1>7, <1>8, <1>9, <1>10, <1>11, <1>12, <1>13, <1>14 DEF Worker, Guest

\* Consoles carry items and input only.
LEMMA ConsoleTypeStep ==
    ASSUME TypeOK, Next
    PROVE  ConsoleType'
<1>0. GuestType /\ ConsoleType /\ ThreadType
  BY DEF TypeOK
<1>1. ASSUME NEW p \in Ports, Join(p) PROVE ConsoleType'
  BY <1>0, <1>1 DEF Join, ConsoleType, guestVars, mainVars
<1>2. CASE Return
  BY <1>0, <1>2 DEF Return, ConsoleType, guestVars, mainVars
<1> SUFFICES ASSUME NEW p \in Ports, Worker(p) \/ Guest(p) \/ Terminal(p)
             PROVE  ConsoleType'
  BY <1>1, <1>2 DEF Next, Main
<1>c. {"text", "prompt", "attached", "echo", "begin", "rc0", "rc1"} \subseteq Items
  BY DEF Items
<1>d. /\ out[p] \in Stream /\ inq[p] \in Input
      /\ Append(out[p], "text") \in Stream /\ Append(out[p], "prompt") \in Stream
      /\ Append(out[p], "begin") \in Stream /\ Append(out[p], "echo") \in Stream
      /\ <<"attached">> \in Stream
  BY <1>0, <1>c, Streams DEF ConsoleType
<1>e. \A x \in {"rc0", "rc1"} : out[p] \o <<x, "prompt">> \in Stream
  BY <1>0, <1>c, Streams DEF ConsoleType
<1>a. ASSUME NEW r \in {"ok", "error"}, NEW t \in Stream, Report(p, r, t),
             UNCHANGED <<mode, kick, listening, taken, ran, kicked, commanded, joined, exit, waiting>>,
             gate' \in {"filling", "open", "broken"}
      PROVE  ConsoleType'
  BY <1>0, <1>a, <1>d, <1>e, Streams, Inputs DEF Report, ConsoleType, guestVars, mainVars
<1>b. ASSUME Fails(p), UNCHANGED waiting, gate' \in {"filling", "open", "broken"} PROVE ConsoleType'
  BY <1>a, <1>b, Streams DEF Fails, mainVars
<1>3. CASE Terminal(p)
  BY <1>0, <1>3, <1>d, <1>e, Streams, Inputs DEF Terminal, TerminalOpens, TerminalTypes, TerminalCloses, ConsoleType, guestVars, mainVars
<1>4. CASE BootDone(p) \/ Listen(p) \/ Crash(p)
  BY <1>0, <1>4, <1>d, <1>e, Streams, Inputs DEF BootDone, Listen, Crash, ConsoleType, guestVars, mainVars
<1>5. CASE ShellTakes(p)
  BY <1>0, <1>5, <1>d, <1>e, Streams, Inputs DEF ShellTakes, ConsoleType, guestVars, mainVars
<1>6. ASSUME NEW rc \in {0, 1}, ShellEnds(p, rc) PROVE ConsoleType'
  BY <1>0, <1>6, <1>d, <1>e, Streams, Inputs DEF ShellEnds, ConsoleType, guestVars, mainVars
<1>7. CASE Connect(p)
  BY <1>0, <1>7, <1>d, <1>e, Streams, Inputs DEF Connect, ConsoleType, guestVars, mainVars
<1>8. CASE Kick(p) \/ GatePasses(p)
  BY <1>0, <1>8, <1>d, <1>e, Streams, Inputs DEF Kick, GatePasses, ConsoleType, guestVars, mainVars
<1>9. CASE Send(p)
  BY <1>0, <1>9, <1>d, <1>e, Streams, Inputs DEF Send, ConsoleType, guestVars, mainVars
<1>10. CASE ConnectFails(p) \/ WarmFails(p) \/ SendFails(p) \/ AwaitFails(p) \/ GateFails(p)
  BY <1>0, <1>b, <1>10 DEF ConnectFails, WarmFails, SendFails, AwaitFails, GateFails, ThreadType
<1>11. ASSUME NEW n \in 1 .. Len(out[p]), Warm(p, n) PROVE ConsoleType'
  <2> DEFINE data == SubSeq(out[p], 1, n)
             chunks == text[p] \o data
  <2>1. CASE Has(data, "attached")
    BY <1>0, <1>b, <1>11, <2>1 DEF Warm, ThreadType
  <2>2. CASE ~Has(data, "attached")
    <3>1. /\ text' = [text EXCEPT ![p] = IF PromptReady(chunks) THEN <<>> ELSE chunks]
          /\ out' = [out EXCEPT ![p] = From(out[p], n + 1)]
          /\ pc' = [pc EXCEPT ![p] = IF PromptReady(chunks) THEN "gate" ELSE pc[p]]
          /\ UNCHANGED <<guestVars, inq, kicked, commanded, gate, waiting, results, mainVars>>
          /\ pc[p] = "warm"
      BY <1>11, <2>2 DEF Warm
    <3>2. chunks \in Stream /\ From(out[p], n + 1) \in Stream
      BY <1>0, Streams DEF ConsoleType
    <3> HIDE DEF chunks
    <3> QED
      BY <1>0, <3>1, <3>2, Streams DEF ConsoleType, guestVars, mainVars
  <2> QED
    BY <2>1, <2>2
<1>12. CASE Arrive(p)
  <2>1. CASE gate = "broken"
    BY <1>0, <1>b, <1>12, <2>1 DEF Arrive, ThreadType
  <2>2. CASE gate # "broken"
    BY <1>0, <1>12, <2>2 DEF Arrive, ConsoleType, guestVars, mainVars
  <2> QED
    BY <2>1, <2>2
<1>13. CASE Await(p)
  <2> DEFINE new_text == Append(text[p], Head(out[p]))
             own == Transcript(new_text)
             status == StatusMatch(own)
             complete == mode = "command" /\ status # "none" /\ Has(After(own, status), "prompt")
  <2>1. UNCHANGED <<mode, kick, listening, taken, ran, kicked, commanded, gate, waiting, mainVars>>
    BY <1>13 DEF Await
  <2>2. new_text \in Stream /\ own \in Stream /\ Tail(out[p]) \in Stream
    BY <1>0, <1>13, Streams, OwnType DEF Await, ConsoleType
  <2>3. CASE complete
    <3>1. Report(p, IF status = "rc0" THEN "ok" ELSE "error", own)
      BY <1>13, <2>3 DEF Await
    <3> HIDE DEF own, status
    <3> QED
      BY <1>0, <1>a, <2>1, <2>2, <3>1 DEF mainVars, ThreadType
  <2>4. CASE ~complete
    <3>1. /\ text' = [text EXCEPT ![p] = IF mode = "command" THEN new_text ELSE <<>>]
          /\ out' = [out EXCEPT ![p] = Tail(out[p])]
          /\ UNCHANGED <<shell, inq, pc, results>>
      BY <1>13, <2>4 DEF Await
    <3> HIDE DEF new_text
    <3> QED
      BY <1>0, <2>1, <2>2, <3>1, Streams DEF ConsoleType, guestVars, mainVars
  <2> QED
    BY <2>3, <2>4
<1>14. CASE CheckpointEof(p)
  BY <1>0, <1>a, <1>14, Streams DEF CheckpointEof, mainVars, ThreadType
<1> QED
  BY <1>3, <1>4, <1>5, <1>6, <1>7, <1>8, <1>9, <1>10, <1>11, <1>12, <1>13, <1>14 DEF Worker, Guest

\* The threads keep their types, and one past the barrier has arrived there.
LEMMA ThreadTypeStep ==
    ASSUME TypeOK, Next
    PROVE  ThreadType'
<1>0. GuestType /\ ConsoleType /\ ThreadType
  BY DEF TypeOK
<1>1. ASSUME NEW p \in Ports, Join(p) PROVE ThreadType'
  BY <1>0, <1>1 DEF Join, ThreadType, guestVars, mainVars
<1>2. CASE Return
  BY <1>0, <1>2 DEF Return, ThreadType, guestVars, mainVars
<1> SUFFICES ASSUME NEW p \in Ports, Worker(p) \/ Guest(p) \/ Terminal(p)
             PROVE  ThreadType'
  BY <1>1, <1>2 DEF Next, Main
<1>a. ASSUME NEW r \in {"ok", "error"}, NEW t \in Stream, Report(p, r, t),
             UNCHANGED <<mode, kick, listening, taken, ran, kicked, commanded, joined, exit, waiting>>,
             gate' \in {"filling", "open", "broken"}
      PROVE  ThreadType'
  BY <1>0, <1>a DEF Report, ThreadType, guestVars, mainVars
<1>b. ASSUME Fails(p), UNCHANGED waiting, gate' \in {"filling", "open", "broken"} PROVE ThreadType'
  BY <1>a, <1>b, Streams DEF Fails, mainVars
<1>3. CASE Terminal(p)
  BY <1>0, <1>3 DEF Terminal, TerminalOpens, TerminalTypes, TerminalCloses, ThreadType, guestVars, mainVars
<1>4. CASE BootDone(p) \/ Listen(p) \/ Crash(p)
  BY <1>0, <1>4 DEF BootDone, Listen, Crash, ThreadType, guestVars, mainVars
<1>5. CASE ShellTakes(p)
  BY <1>0, <1>5 DEF ShellTakes, ThreadType, guestVars, mainVars
<1>6. ASSUME NEW rc \in {0, 1}, ShellEnds(p, rc) PROVE ThreadType'
  BY <1>0, <1>6 DEF ShellEnds, ThreadType, guestVars, mainVars
<1>7. CASE Connect(p)
  BY <1>0, <1>7 DEF Connect, ThreadType, guestVars, mainVars
<1>8. CASE Kick(p) \/ GatePasses(p)
  BY <1>0, <1>8 DEF Kick, GatePasses, ThreadType, guestVars, mainVars
<1>9. CASE Send(p)
  BY <1>0, <1>9 DEF Send, ThreadType, guestVars, mainVars
<1>10. CASE ConnectFails(p) \/ WarmFails(p) \/ SendFails(p) \/ AwaitFails(p) \/ GateFails(p)
  BY <1>0, <1>b, <1>10 DEF ConnectFails, WarmFails, SendFails, AwaitFails, GateFails, ThreadType
<1>11. ASSUME NEW n \in 1 .. Len(out[p]), Warm(p, n) PROVE ThreadType'
  <2> DEFINE data == SubSeq(out[p], 1, n)
             chunks == text[p] \o data
  <2>1. CASE Has(data, "attached")
    BY <1>0, <1>b, <1>11, <2>1 DEF Warm, ThreadType
  <2>2. CASE ~Has(data, "attached")
    <3>1. /\ text' = [text EXCEPT ![p] = IF PromptReady(chunks) THEN <<>> ELSE chunks]
          /\ out' = [out EXCEPT ![p] = From(out[p], n + 1)]
          /\ pc' = [pc EXCEPT ![p] = IF PromptReady(chunks) THEN "gate" ELSE pc[p]]
          /\ UNCHANGED <<guestVars, inq, kicked, commanded, gate, waiting, results, mainVars>>
          /\ pc[p] = "warm"
      BY <1>11, <2>2 DEF Warm
    <3>2. chunks \in Stream /\ From(out[p], n + 1) \in Stream
      BY <1>0, Streams DEF ConsoleType
    <3> HIDE DEF chunks
    <3> QED
      BY <1>0, <3>1, <3>2, Streams DEF ThreadType, guestVars, mainVars
  <2> QED
    BY <2>1, <2>2
<1>12. CASE Arrive(p)
  <2>1. CASE gate = "broken"
    BY <1>0, <1>b, <1>12, <2>1 DEF Arrive, ThreadType
  <2>2. CASE gate # "broken"
    BY <1>0, <1>12, <2>2 DEF Arrive, ThreadType, guestVars, mainVars
  <2> QED
    BY <2>1, <2>2
<1>13. CASE Await(p)
  <2> DEFINE new_text == Append(text[p], Head(out[p]))
             own == Transcript(new_text)
             status == StatusMatch(own)
             complete == mode = "command" /\ status # "none" /\ Has(After(own, status), "prompt")
  <2>1. UNCHANGED <<mode, kick, listening, taken, ran, kicked, commanded, gate, waiting, mainVars>>
    BY <1>13 DEF Await
  <2>2. new_text \in Stream /\ own \in Stream /\ Tail(out[p]) \in Stream
    BY <1>0, <1>13, Streams, OwnType DEF Await, ConsoleType
  <2>3. CASE complete
    <3>1. Report(p, IF status = "rc0" THEN "ok" ELSE "error", own)
      BY <1>13, <2>3 DEF Await
    <3> HIDE DEF own, status
    <3> QED
      BY <1>0, <1>a, <2>1, <2>2, <3>1 DEF mainVars, ThreadType
  <2>4. CASE ~complete
    <3>1. /\ text' = [text EXCEPT ![p] = IF mode = "command" THEN new_text ELSE <<>>]
          /\ out' = [out EXCEPT ![p] = Tail(out[p])]
          /\ UNCHANGED <<shell, inq, pc, results>>
      BY <1>13, <2>4 DEF Await
    <3> HIDE DEF new_text
    <3> QED
      BY <1>0, <2>1, <2>2, <3>1, Streams DEF ThreadType, guestVars, mainVars
  <2> QED
    BY <2>3, <2>4
<1>14. CASE CheckpointEof(p)
  BY <1>0, <1>a, <1>14, Streams DEF CheckpointEof, mainVars, ThreadType
<1> QED
  BY <1>3, <1>4, <1>5, <1>6, <1>7, <1>8, <1>9, <1>10, <1>11, <1>12, <1>13, <1>14 DEF Worker, Guest

----------------------------------------------------------------------------
(* The start gate *)

\* Nobody passes the barrier before it is open, and it opens when all have arrived.
GateInv ==
    /\ gate = "open" => waiting = Ports
    /\ \A p \in Ports : pc[p] \in {"delay", "sent"} => gate = "open"

\* A step that leaves the barrier alone and takes no thread past it.
LEMMA GateAlone ==
    ASSUME TypeOK, GateInv, UNCHANGED <<gate, waiting, commanded>>,
           \A q \in Ports : pc'[q] \in {"delay", "sent"} => pc[q] \in {"delay", "sent"}
    PROVE  GateInv' /\ [Gate!Next]_(Gate!gateVars)
  BY DEF GateInv, Gate!gateVars

\* Every step of the tools keeps the barrier's invariant, and is a step of the start gate.
LEMMA GateStep ==
    ASSUME TypeOK, GateInv, Next
    PROVE  GateInv' /\ [Gate!Next]_(Gate!gateVars)
<1>0. ThreadType
  BY DEF TypeOK
<1>1. ASSUME NEW p \in Ports, Join(p) PROVE UNCHANGED <<gate, waiting, commanded, pc>>
  BY <1>1 DEF Join
<1>2. CASE Return
  BY <1>2, GateAlone DEF Return
<1> SUFFICES ASSUME NEW p \in Ports, Worker(p) \/ Guest(p) \/ Terminal(p)
             PROVE  GateInv' /\ [Gate!Next]_(Gate!gateVars)
  BY <1>1, <1>2, GateAlone DEF Next, Main
<1>a. ASSUME UNCHANGED <<gate, waiting, commanded>>,
             NEW state \in {"connect", "warm", "gate", "waiting", "done"}, pc' = [pc EXCEPT ![p] = state]
      PROVE  GateInv' /\ [Gate!Next]_(Gate!gateVars)
  BY <1>0, <1>a, GateAlone DEF ThreadType
<1>b. ASSUME Fails(p), UNCHANGED <<gate, waiting>> PROVE GateInv' /\ [Gate!Next]_(Gate!gateVars)
  BY <1>a, <1>b DEF Fails, Report
<1>3. CASE Terminal(p) \/ Guest(p)
  BY <1>3, GateAlone DEF Terminal, TerminalOpens, TerminalTypes, TerminalCloses, Guest, BootDone, Listen,
                         Crash, ShellTakes, ShellEnds
<1>4. CASE Connect(p)
  BY <1>4, <1>a DEF Connect
<1>5. CASE Kick(p)
  BY <1>5, GateAlone DEF Kick
<1>6. CASE ConnectFails(p) \/ WarmFails(p) \/ SendFails(p) \/ AwaitFails(p)
  BY <1>6, <1>b DEF ConnectFails, WarmFails, SendFails, AwaitFails
<1>7. ASSUME NEW n \in 1 .. Len(out[p]), Warm(p, n) PROVE GateInv' /\ [Gate!Next]_(Gate!gateVars)
  <2> DEFINE data == SubSeq(out[p], 1, n)
             chunks == text[p] \o data
  <2>1. CASE Has(data, "attached")
    BY <1>7, <1>b, <2>1 DEF Warm
  <2>2. CASE ~Has(data, "attached")
    <3>1. pc' = [pc EXCEPT ![p] = IF PromptReady(chunks) THEN "gate" ELSE pc[p]]
          /\ UNCHANGED <<gate, waiting, commanded>>
      BY <1>7, <2>2 DEF Warm
    <3> QED
      BY <1>0, <3>1, GateAlone DEF ThreadType
  <2> QED
    BY <2>1, <2>2
<1>8. CASE Arrive(p)
  <2>1. CASE gate = "broken"
    BY <1>8, <1>b, <2>1 DEF Arrive
  <2>2. CASE gate # "broken"
    <3>1. /\ waiting' = waiting \cup {p}
          /\ gate' = IF waiting \cup {p} = Ports THEN "open" ELSE gate
          /\ pc' = [pc EXCEPT ![p] = "waiting"]
          /\ commanded' = commanded
      BY <1>8, <2>2 DEF Arrive
    <3>2. GateInv'
      BY <1>0, <3>1 DEF GateInv, ThreadType
    <3> QED
      BY <3>1, <3>2 DEF Gate!Next, Gate!BecomeReady
  <2> QED
    BY <2>1, <2>2
<1>9. CASE GatePasses(p)
  <2>1. gate = "open" /\ UNCHANGED <<gate, waiting, commanded>>
    BY <1>9 DEF GatePasses, GateOpens
  <2> QED
    BY <2>1 DEF GateInv, Gate!gateVars
<1>10. CASE GateFails(p)
  <2>1. /\ gate # "open" /\ gate' = "broken" /\ UNCHANGED <<waiting, commanded>>
        /\ pc' = [pc EXCEPT ![p] = "done"]
    BY <1>10 DEF GateFails, Fails, Report
  <2> QED
    BY <1>0, <2>1 DEF GateInv, ThreadType, Gate!gateVars
<1>11. CASE Send(p)
  <2>1. /\ pc[p] = "delay" /\ commanded' = commanded \cup {p} /\ UNCHANGED <<gate, waiting>>
        /\ pc' = [pc EXCEPT ![p] = "sent"]
    BY <1>11 DEF Send
  <2>2. gate = "open" /\ waiting = Ports
    BY <2>1 DEF GateInv
  <2> QED
    BY <2>1, <2>2 DEF GateInv, Gate!Next, Gate!Command
<1>12. CASE Await(p)
  <2>1. UNCHANGED <<gate, waiting, commanded>> /\ (UNCHANGED pc \/ pc' = [pc EXCEPT ![p] = "done"])
    BY <1>12 DEF Await, Report
  <2> QED
    BY <2>1, <1>a, GateAlone
<1>13. CASE CheckpointEof(p)
  BY <1>13, <1>a DEF CheckpointEof, Report
<1> QED
  BY <1>3, <1>4, <1>5, <1>6, <1>7, <1>8, <1>9, <1>10, <1>11, <1>12, <1>13 DEF Worker

----------------------------------------------------------------------------
(* What is typed at a console *)

\* A guest that boots has printed no prompt yet: nobody has got past the prompt loop with it,
\* and without a kick nothing is typed.
BootInv ==
    \A p \in Ports : shell[p] = "boot" =>
        /\ pc[p] \in {"connect", "warm"}
        /\ ~Has(out[p], "prompt") /\ ~Has(text[p], "prompt")
        /\ ~KickEnabled => inq[p] = <<>>

\* What a worker has read is part of what was printed.
LEMMA ReadKeeps ==
    ASSUME NEW s \in Stream, NEW t \in Stream, NEW n \in 1 .. Len(s), NEW x, ~Has(s, x)
    PROVE  /\ ~Has(From(s, n + 1), x)
           /\ ~Has(t, x) => ~Has(t \o SubSeq(s, 1, n), x)
<1>1. \A i \in 1 .. Len(s) : s[i] # x
  BY DEF Has, Stream
<1>2. /\ From(s, n + 1) \in Seq(Items) /\ Len(From(s, n + 1)) = Len(s) - n
      /\ \A i \in 1 .. Len(s) - n : From(s, n + 1)[i] = s[n + i]
  BY DEF From, Stream
<1>3. ~Has(From(s, n + 1), x)
  BY <1>1, <1>2 DEF Has
<1>4. ASSUME ~Has(t, x) PROVE ~Has(t \o SubSeq(s, 1, n), x)
  <2> DEFINE u == SubSeq(s, 1, n)
  <2>1. u \in Seq(Items) /\ Len(u) = n /\ \A i \in 1 .. n : u[i] = s[i]
    BY DEF Stream
  <2> HIDE DEF u
  <2>2. \A i \in 1 .. Len(t) : t[i] # x
    BY <1>4 DEF Has, Stream
  <2>3. \A i \in DOMAIN (t \o u) : (t \o u)[i] # x
    BY <1>1, <2>1, <2>2 DEF Stream
  <2> QED
    BY <2>3 DEF Has, u
<1> QED
  BY <1>3, <1>4

\* A guest keeps booting only in steps that do not disturb it.
LEMMA BootStep ==
    ASSUME TypeOK, BootInv, Next
    PROVE  BootInv'
<1>0. GuestType /\ ConsoleType /\ ThreadType
  BY DEF TypeOK
<1> SUFFICES ASSUME NEW q \in Ports, shell'[q] = "boot"
             PROVE  /\ pc'[q] \in {"connect", "warm"}
                    /\ ~Has(out'[q], "prompt") /\ ~Has(text'[q], "prompt")
                    /\ ~KickEnabled' => inq'[q] = <<>>
  BY DEF BootInv
<1> DEFINE G == /\ pc'[q] \in {"connect", "warm"}
                /\ ~Has(out'[q], "prompt") /\ ~Has(text'[q], "prompt")
                /\ ~KickEnabled' => inq'[q] = <<>>
<1>s. ASSUME shell[q] = "boot", pc'[q] = pc[q], out'[q] = out[q], text'[q] = text[q], inq'[q] = inq[q],
             mode' = mode, kick' = kick
      PROVE  G
  BY <1>s DEF BootInv, KickEnabled
<1>1. CASE Main
  BY <1>1, <1>s DEF Main, Return, Join, guestVars
<1> SUFFICES ASSUME NEW p \in Ports, Worker(p) \/ Guest(p) \/ Terminal(p)
             PROVE  G
  BY <1>1 DEF Next
<1>m. mode' = mode /\ kick' = kick
  BY DEF Worker, Guest, Terminal, Connect, ConnectFails, Kick, Warm, WarmFails, Arrive, GatePasses, GateFails,
         Send, SendFails, Await, AwaitFails, CheckpointEof, BootDone, Listen, ShellTakes, Crash, ShellEnds,
         TerminalOpens, TerminalTypes, TerminalCloses, Fails, guestVars
<1>r. ASSUME NEW r, NEW t, Report(p, r, t) PROVE G
  <2>1. q # p
    BY <1>0, <1>r DEF Report, GuestType
  <2>2. /\ shell[q] = "boot" /\ pc'[q] = pc[q] /\ out'[q] = out[q] /\ text'[q] = text[q] /\ inq'[q] = inq[q]
    BY <1>0, <1>r, <2>1 DEF Report, GuestType, ConsoleType, ThreadType
  <2> QED
    BY <2>2, <1>m, <1>s
<1>f. ASSUME Fails(p) PROVE G
  BY <1>f, <1>r DEF Fails
<1>2. CASE Terminal(p)
  BY <1>0, <1>2, <1>m, <1>s DEF Terminal, TerminalOpens, TerminalTypes, TerminalCloses, GuestType, ConsoleType
<1>3. CASE Guest(p)
  BY <1>0, <1>3, <1>m, <1>s DEF Guest, BootDone, Listen, Crash, ShellTakes, ShellEnds, GuestType, ConsoleType
<1>4. CASE Connect(p)
  <2>1. ~Has(<<"attached">>, "prompt")
    BY DEF Has
  <2> QED
    BY <1>0, <1>4, <1>m, <2>1 DEF Connect, BootInv, KickEnabled, guestVars, ConsoleType, ThreadType
<1>5. CASE Kick(p)
  BY <1>0, <1>5, <1>m DEF Kick, BootInv, KickEnabled, guestVars, ConsoleType
<1>6. CASE ConnectFails(p) \/ WarmFails(p) \/ SendFails(p) \/ AwaitFails(p) \/ GateFails(p)
  BY <1>f, <1>6 DEF ConnectFails, WarmFails, SendFails, AwaitFails, GateFails
<1>7. ASSUME NEW n \in 1 .. Len(out[p]), Warm(p, n) PROVE G
  <2> DEFINE data == SubSeq(out[p], 1, n)
             chunks == text[p] \o data
  <2>1. CASE Has(data, "attached")
    BY <1>7, <1>f, <2>1 DEF Warm
  <2>2. CASE ~Has(data, "attached")
    <3>1. /\ text' = [text EXCEPT ![p] = IF PromptReady(chunks) THEN <<>> ELSE chunks]
          /\ out' = [out EXCEPT ![p] = From(out[p], n + 1)]
          /\ pc' = [pc EXCEPT ![p] = IF PromptReady(chunks) THEN "gate" ELSE pc[p]]
          /\ UNCHANGED <<shell, inq>> /\ pc[p] = "warm"
      BY <1>7, <2>2 DEF Warm, guestVars
    <3>2. CASE q = p
      <4>1. ~Has(out[p], "prompt") /\ ~Has(text[p], "prompt") /\ (~KickEnabled => inq[p] = <<>>)
        BY <3>1, <3>2 DEF BootInv
      <4>2. ~Has(chunks, "prompt") /\ ~Has(From(out[p], n + 1), "prompt")
        BY <1>0, <4>1, ReadKeeps DEF ConsoleType
      <4>3. pc'[q] = "warm" /\ text'[q] = chunks /\ out'[q] = From(out[p], n + 1) /\ inq'[q] = inq[p]
        BY <1>0, <3>1, <3>2, <4>2 DEF PromptReady, ConsoleType, ThreadType
      <4> QED
        BY <1>m, <4>1, <4>2, <4>3 DEF KickEnabled
    <3>3. CASE q # p
      BY <1>0, <1>m, <1>s, <3>1, <3>3 DEF ConsoleType, ThreadType
    <3> QED
      BY <3>2, <3>3
  <2> QED
    BY <2>1, <2>2
<1>8. CASE Arrive(p)
  <2>1. CASE gate = "broken"
    BY <1>8, <1>f, <2>1 DEF Arrive
  <2>2. CASE gate # "broken"
    BY <1>0, <1>8, <1>m, <1>s, <2>2 DEF Arrive, BootInv, guestVars, ThreadType
  <2> QED
    BY <2>1, <2>2
<1>9. CASE GatePasses(p)
  BY <1>0, <1>9, <1>m, <1>s DEF GatePasses, BootInv, guestVars, ThreadType
<1>10. CASE Send(p)
  BY <1>0, <1>10, <1>m, <1>s DEF Send, BootInv, guestVars, ThreadType, ConsoleType
<1>11. CASE Await(p)
  <2>1. \/ \E r, t : Report(p, r, t)
        \/ /\ pc[p] = "sent" /\ UNCHANGED <<shell, inq, pc>>
           /\ \E t : text' = [text EXCEPT ![p] = t]
           /\ out' = [out EXCEPT ![p] = Tail(@)]
    BY <1>11 DEF Await
  <2> QED
    BY <1>0, <1>m, <1>s, <1>r, <2>1 DEF BootInv, ConsoleType
<1>12. CASE CheckpointEof(p)
  BY <1>12, <1>r DEF CheckpointEof
<1> QED
  BY <1>2, <1>3, <1>4, <1>5, <1>6, <1>7, <1>8, <1>9, <1>10, <1>11, <1>12 DEF Worker

----------------------------------------------------------------------------
(* What a worker takes for its command's output *)

\* A worker that got a console another terminal owns reads the refusal first, and fails; once
\* it is past the prompt loop nobody else types there.
OwnerInv ==
    \A p \in Ports :
        /\ pc[p] = "warm" /\ p \in taken => out[p] # <<>> /\ Head(out[p]) = "attached"
        /\ pc[p] \in {"gate", "waiting", "delay", "sent"} => p \notin taken

\* All that is printed after the command was sent, read or not.
Printed(p) == text[p] \o out[p]

\* The only BEGIN line of s is its b-th item.
OnlyBegin(s, b) == b \in DOMAIN s /\ s[b] = "begin" /\ \A i \in DOMAIN s : s[i] = "begin" => i = b
Marker(rc) == IF rc = 0 THEN "rc0" ELSE "rc1"

\* The command waits in the input behind a kick at most, runs, or is over; BEGIN is printed
\* once, and after it nothing but the status and a prompt.
Waits(p) ==
    /\ ran[p] = -1 /\ shell[p] # "run"
    /\ \A i \in DOMAIN inq[p] : inq[p][i] = "cmd" => i = Len(inq[p])
    /\ ~Has(Printed(p), "begin")
Runs(p) ==
    /\ ran[p] = -1 /\ shell[p] \in {"run", "dead"} /\ inq[p] = <<>>
    /\ OnlyBegin(Printed(p), Len(Printed(p)))
Over(p) ==
    /\ ran[p] # -1 /\ shell[p] \in {"idle", "dead"} /\ inq[p] = <<>>
    /\ OnlyBegin(Printed(p), Len(Printed(p)) - 2)
    /\ Printed(p)[Len(Printed(p)) - 1] = Marker(ran[p])
    /\ Printed(p)[Len(Printed(p))] = "prompt"

\* Before the command is sent no BEGIN of this run has been printed.
Unsent(p) ==
    /\ ran[p] = -1 /\ shell[p] # "run"
    /\ \A i \in DOMAIN inq[p] : inq[p][i] # "cmd"
    /\ ~Has(out[p], "begin")

\* What holds of a console at each point of its worker's course, when a command is run.
CommandInv ==
    mode = "command" => \A p \in Ports :
        /\ pc[p] \notin {"sent", "done"} => Unsent(p)
        /\ pc[p] = "sent" => Waits(p) \/ Runs(p) \/ Over(p)
        /\ pc[p] = "done" => shell[p] = "left"

\* A result is there once its worker has ended, and a good one is the command's own.
ResultInv ==
    /\ \A p \in Ports : results[p] # "none" => pc[p] = "done"
    /\ mode = "command" =>
         \A p \in Ports : results[p] = "ok" => ran[p] = 0 /\ text[p] = <<"rc0", "prompt">>
    /\ exit = "ok" /\ mode = "command" => \A p \in Ports : results[p] = "ok"

\* A step of one console's worker, guest or terminal leaves the other consoles alone.
LEMMA OtherPorts ==
    ASSUME TypeOK, NEW p \in Ports, Worker(p) \/ Guest(p) \/ Terminal(p)
    PROVE  /\ mode' = mode /\ exit' = exit
           /\ \A q \in Ports \ {p} :
                /\ shell'[q] = shell[q] /\ out'[q] = out[q] /\ inq'[q] = inq[q] /\ ran'[q] = ran[q]
                /\ pc'[q] = pc[q] /\ text'[q] = text[q] /\ results'[q] = results[q]
                /\ q \in taken' <=> q \in taken
<1>0. GuestType /\ ConsoleType /\ ThreadType
  BY DEF TypeOK
<1> DEFINE G == /\ mode' = mode /\ exit' = exit
                /\ \A q \in Ports \ {p} :
                     /\ shell'[q] = shell[q] /\ out'[q] = out[q] /\ inq'[q] = inq[q] /\ ran'[q] = ran[q]
                     /\ pc'[q] = pc[q] /\ text'[q] = text[q] /\ results'[q] = results[q]
                     /\ q \in taken' <=> q \in taken
<1>r. ASSUME NEW r, NEW t, Report(p, r, t), UNCHANGED <<mode, exit, ran, taken>> PROVE G
  BY <1>0, <1>r DEF Report, GuestType, ConsoleType, ThreadType
<1>f. ASSUME Fails(p) PROVE G
  BY <1>f, <1>r DEF Fails, mainVars
<1>2. CASE Terminal(p)
  BY <1>0, <1>2 DEF Terminal, TerminalOpens, TerminalTypes, TerminalCloses, GuestType, ConsoleType, mainVars
<1>3. CASE Guest(p)
  BY <1>0, <1>3 DEF Guest, BootDone, Listen, Crash, ShellTakes, ShellEnds, GuestType, ConsoleType, mainVars
<1>4. CASE Connect(p) \/ Kick(p) \/ GatePasses(p) \/ Send(p)
  BY <1>0, <1>4 DEF Connect, Kick, GatePasses, Send, ConsoleType, ThreadType, guestVars, mainVars
<1>6. CASE ConnectFails(p) \/ WarmFails(p) \/ SendFails(p) \/ AwaitFails(p) \/ GateFails(p)
  BY <1>f, <1>6 DEF ConnectFails, WarmFails, SendFails, AwaitFails, GateFails
<1>7. ASSUME NEW n \in 1 .. Len(out[p]), Warm(p, n) PROVE G
  <2>1. CASE Has(SubSeq(out[p], 1, n), "attached")
    BY <1>7, <1>f, <2>1 DEF Warm
  <2>2. CASE ~Has(SubSeq(out[p], 1, n), "attached")
    BY <1>0, <1>7, <2>2 DEF Warm, guestVars, mainVars, ConsoleType, ThreadType
  <2> QED
    BY <2>1, <2>2
<1>8. CASE Arrive(p)
  <2>1. CASE gate = "broken"
    BY <1>8, <1>f, <2>1 DEF Arrive
  <2>2. CASE gate # "broken"
    BY <1>0, <1>8, <2>2 DEF Arrive, guestVars, mainVars, ThreadType
  <2> QED
    BY <2>1, <2>2
<1>11. CASE Await(p)
  <2>1. /\ UNCHANGED <<mode, exit, ran, taken>>
        /\ \/ \E r, t : Report(p, r, t)
           \/ /\ UNCHANGED <<shell, inq, pc, results>>
              /\ \E t : text' = [text EXCEPT ![p] = t]
              /\ out' = [out EXCEPT ![p] = Tail(@)]
    BY <1>11 DEF Await, mainVars
  <2> QED
    BY <1>0, <1>r, <2>1 DEF ConsoleType
<1>12. CASE CheckpointEof(p)
  BY <1>12, <1>r DEF CheckpointEof, mainVars
<1> QED
  BY <1>2, <1>3, <1>4, <1>6, <1>7, <1>8, <1>11, <1>12 DEF Worker

\* Guests print behind the refusal, and a worker that reads it fails.
LEMMA OwnerStep ==
    ASSUME TypeOK, OwnerInv, Next
    PROVE  OwnerInv'
<1>0. GuestType /\ ConsoleType /\ ThreadType
  BY DEF TypeOK
<1>1. CASE Main
  BY <1>1 DEF Main, Return, Join, guestVars, OwnerInv
<1> SUFFICES ASSUME NEW p \in Ports, Worker(p) \/ Guest(p) \/ Terminal(p)
             PROVE  OwnerInv'
  BY <1>1 DEF Next
<1> DEFINE G == /\ pc'[p] = "warm" /\ p \in taken' => out'[p] # <<>> /\ Head(out'[p]) = "attached"
                /\ pc'[p] \in {"gate", "waiting", "delay", "sent"} => p \notin taken'
<1> SUFFICES G
  BY OtherPorts DEF OwnerInv
<1>r. ASSUME NEW r, NEW t, Report(p, r, t) PROVE G
  BY <1>0, <1>r DEF Report, ThreadType
<1>f. ASSUME Fails(p) PROVE G
  BY <1>f, <1>r DEF Fails
<1>a. ASSUME NEW s \in Stream, out'[p] = out[p] \o s, pc' = pc, taken' \subseteq taken PROVE G
  <2>1. out[p] # <<>> => out[p] \o s # <<>> /\ Head(out[p] \o s) = Head(out[p])
    BY <1>0 DEF ConsoleType, Stream
  <2> QED
    BY <1>a, <2>1 DEF OwnerInv
<1>c. \A x \in {"text", "prompt", "begin"} : <<x>> \in Stream /\ Append(out[p], x) = out[p] \o <<x>>
  <2>1. {"text", "prompt", "begin"} \subseteq Items
    BY DEF Items
  <2>2. \A x \in Items : Append(out[p], x) = out[p] \o <<x>>
    BY <1>0 DEF ConsoleType, Stream
  <2> QED
    BY <2>1, <2>2, Streams
<1>2. CASE TerminalOpens(p) \/ TerminalCloses(p)
  BY <1>0, <1>2 DEF TerminalOpens, TerminalCloses, OwnerInv
<1>3. CASE TerminalTypes(p)
  BY <1>0, <1>3, <1>a, <1>c DEF TerminalTypes, ConsoleType
<1>4. CASE BootDone(p)
  BY <1>0, <1>4, <1>a, <1>c DEF BootDone, ConsoleType
<1>5. CASE Listen(p) \/ Crash(p)
  BY <1>5 DEF Listen, Crash, OwnerInv
<1>6. CASE ShellTakes(p)
  <2>1. /\ out'[p] \in {out[p], Append(out[p], "prompt"), Append(out[p], "begin")} /\ pc' = pc /\ taken' = taken
    BY <1>0, <1>6 DEF ShellTakes, ConsoleType
  <2>2. out'[p] = out[p] => G
    BY <2>1 DEF OwnerInv
  <2> QED
    BY <2>1, <2>2, <1>a, <1>c
<1>7. ASSUME NEW rc \in {0, 1}, ShellEnds(p, rc) PROVE G
  <2>1. /\ out'[p] \in {out[p], Append(out[p], "prompt"), out[p] \o <<"rc0", "prompt">>, out[p] \o <<"rc1", "prompt">>}
        /\ pc' = pc /\ taken' = taken
    BY <1>0, <1>7 DEF ShellEnds, ConsoleType
  <2>2. out'[p] = out[p] => G
    BY <2>1 DEF OwnerInv
  <2>3. {"rc0", "rc1", "prompt"} \subseteq Items
    BY DEF Items
  <2>4. <<"rc0", "prompt">> \in Stream /\ <<"rc1", "prompt">> \in Stream
    BY <2>3, Streams
  <2> QED
    BY <2>1, <2>2, <2>4, <1>a, <1>c
<1>8. CASE Connect(p)
  <2>1. <<"attached">> # <<>> /\ Head(<<"attached">>) = "attached"
    OBVIOUS
  <2> QED
    BY <1>0, <1>8, <2>1 DEF Connect, guestVars, ConsoleType, ThreadType
<1>9. CASE Kick(p)
  BY <1>9 DEF Kick, guestVars, OwnerInv
<1>10. CASE ConnectFails(p) \/ WarmFails(p) \/ SendFails(p) \/ AwaitFails(p) \/ GateFails(p)
  BY <1>f, <1>10 DEF ConnectFails, WarmFails, SendFails, AwaitFails, GateFails
<1>11. ASSUME NEW n \in 1 .. Len(out[p]), Warm(p, n) PROVE G
  <2>1. CASE Has(SubSeq(out[p], 1, n), "attached")
    BY <1>11, <1>f, <2>1 DEF Warm
  <2>2. CASE ~Has(SubSeq(out[p], 1, n), "attached")
    <3>1. SubSeq(out[p], 1, n)[1] = Head(out[p]) /\ 1 \in DOMAIN SubSeq(out[p], 1, n)
      BY <1>0, <1>11 DEF ConsoleType, Stream
    <3>2. Head(out[p]) # "attached"
      BY <2>2, <3>1 DEF Has
    <3>3. pc[p] = "warm" /\ p \notin taken /\ taken' = taken
      BY <1>11, <2>2, <3>2 DEF Warm, OwnerInv, guestVars
    <3> QED
      BY <3>3
  <2> QED
    BY <2>1, <2>2
<1>12. CASE Arrive(p)
  <2>1. CASE gate = "broken"
    BY <1>12, <1>f, <2>1 DEF Arrive
  <2>2. CASE gate # "broken"
    BY <1>0, <1>12, <2>2 DEF Arrive, guestVars, OwnerInv, ThreadType
  <2> QED
    BY <2>1, <2>2
<1>13. CASE GatePasses(p) \/ Send(p)
  BY <1>0, <1>13 DEF GatePasses, Send, guestVars, OwnerInv, ThreadType
<1>14. CASE Await(p)
  <2>1. \/ \E r, t : Report(p, r, t)
        \/ pc' = pc /\ pc[p] = "sent" /\ taken' = taken
    BY <1>14 DEF Await
  <2> QED
    BY <1>r, <2>1 DEF OwnerInv
<1>15. CASE CheckpointEof(p)
  BY <1>15, <1>r DEF CheckpointEof
<1> QED
  BY <1>2, <1>3, <1>4, <1>5, <1>6, <1>7, <1>8, <1>9, <1>10, <1>11, <1>12, <1>13, <1>14, <1>15
  DEF Worker, Guest, Terminal

\* What is printed joins what was printed before, and reading changes nothing of it.
LEMMA PrintedKeeps ==
    ASSUME NEW t \in Stream, NEW o \in Stream
    PROVE  /\ t \o o \in Stream
           /\ \A x \in Items : t \o Append(o, x) = Append(t \o o, x)
           /\ \A s \in Stream : t \o (o \o s) = (t \o o) \o s
           /\ o # <<>> => Append(t, Head(o)) \o Tail(o) = t \o o
<1>1. t \o o \in Stream
  BY Streams
<1>2. ASSUME NEW x \in Items PROVE t \o Append(o, x) = Append(t \o o, x)
  BY DEF Stream
<1>3. ASSUME NEW s \in Stream PROVE t \o (o \o s) = (t \o o) \o s
  BY DEF Stream
<1>4. ASSUME o # <<>> PROVE Append(t, Head(o)) \o Tail(o) = t \o o
  BY <1>4 DEF Stream
<1> QED
  BY <1>1, <1>2, <1>3, <1>4

\* How a stream's BEGIN line comes about and what follows it.
LEMMA BeginKeeps ==
    ASSUME NEW s \in Stream
    PROVE  /\ \A x \in Items \ {"begin"} : ~Has(s, "begin") => ~Has(Append(s, x), "begin")
           /\ ~Has(s, "begin") => OnlyBegin(Append(s, "begin"), Len(Append(s, "begin")))
           /\ \A m \in {"rc0", "rc1"} : OnlyBegin(s, Len(s)) =>
                LET u == s \o <<m, "prompt">>
                IN  OnlyBegin(u, Len(u) - 2) /\ u[Len(u) - 1] = m /\ u[Len(u)] = "prompt"
<1>1. ASSUME NEW x \in Items \ {"begin"}, ~Has(s, "begin") PROVE ~Has(Append(s, x), "begin")
  BY <1>1 DEF Stream, Has
<1>2. ASSUME ~Has(s, "begin") PROVE OnlyBegin(Append(s, "begin"), Len(Append(s, "begin")))
  <2>1. "begin" \in Items
    BY DEF Items
  <2> QED
    BY <1>2, <2>1 DEF Stream, Has, OnlyBegin
<1>3. ASSUME NEW m \in {"rc0", "rc1"}, OnlyBegin(s, Len(s))
      PROVE  LET u == s \o <<m, "prompt">>
             IN  OnlyBegin(u, Len(u) - 2) /\ u[Len(u) - 1] = m /\ u[Len(u)] = "prompt"
  <2> DEFINE u == s \o <<m, "prompt">>
  <2>1. {"rc0", "rc1", "prompt"} \subseteq Items
    BY DEF Items
  <2>2. /\ u \in Seq(Items) /\ Len(u) = Len(s) + 2 /\ u[Len(s) + 1] = m /\ u[Len(s) + 2] = "prompt"
        /\ \A i \in 1 .. Len(s) : u[i] = s[i]
    BY <2>1 DEF Stream
  <2>3. Len(s) \in 1 .. Len(s) /\ s[Len(s)] = "begin" /\ \A i \in 1 .. Len(s) : s[i] = "begin" => i = Len(s)
    BY <1>3 DEF OnlyBegin, Stream
  <2> HIDE DEF u
  <2>4. Len(u) - 2 \in DOMAIN u /\ u[Len(u) - 2] = "begin" /\ \A i \in DOMAIN u : u[i] = "begin" => i = Len(u) - 2
    BY <2>2, <2>3 DEF Stream
  <2>5. u[Len(u) - 1] = m /\ u[Len(u)] = "prompt"
    BY <2>2 DEF Stream
  <2>6. OnlyBegin(u, Len(u) - 2)
    BY <2>4 DEF OnlyBegin
  <2> QED
    BY <2>5, <2>6 DEF u
<1> QED
  BY <1>1, <1>2, <1>3

\* What a worker that has read a part of the stream searches for its status.
LEMMA TranscriptOf ==
    ASSUME NEW s \in Stream, NEW u \in Stream, Len(s) <= Len(u), \A i \in 1 .. Len(s) : s[i] = u[i]
    PROVE  /\ ~Has(u, "begin") => Transcript(s) = <<>>
           /\ \A b \in Nat : OnlyBegin(u, b) =>
                /\ Len(s) <= b => Transcript(s) = <<>>
                /\ Len(s) > b => /\ Transcript(s) \in Stream /\ Len(Transcript(s)) = Len(s) - b
                                 /\ \A i \in 1 .. Len(s) - b : Transcript(s)[i] = u[b + i]
<1>0. DOMAIN s = 1 .. Len(s) /\ DOMAIN u = 1 .. Len(u) /\ Len(s) \in Nat /\ Len(u) \in Nat
  BY DEF Stream
<1>1. ASSUME ~Has(u, "begin") PROVE Transcript(s) = <<>>
  BY <1>0, <1>1 DEF Transcript, Has
<1>2. ASSUME NEW b \in Nat, OnlyBegin(u, b)
      PROVE  /\ Len(s) <= b => Transcript(s) = <<>>
             /\ Len(s) > b => /\ Transcript(s) \in Stream /\ Len(Transcript(s)) = Len(s) - b
                              /\ \A i \in 1 .. Len(s) - b : Transcript(s)[i] = u[b + i]
  <2>0. b \in 1 .. Len(u) /\ u[b] = "begin" /\ \A i \in 1 .. Len(u) : u[i] = "begin" => i = b
    BY <1>0, <1>2 DEF OnlyBegin
  <2>1. CASE Len(s) < b
    <3>1. ~Has(s, "begin")
      BY <1>0, <2>0, <2>1 DEF Has
    <3>2. Transcript(s) = <<>>
      BY <3>1 DEF Transcript
    <3>3. ~(Len(s) > b)
      BY <1>0, <2>1
    <3> QED
      BY <3>2, <3>3
  <2>2. CASE Len(s) >= b
    <3>1. Has(s, "begin") /\ \A i \in DOMAIN s : s[i] = "begin" <=> i = b
      BY <1>0, <2>0, <2>2 DEF Has
    <3>2. b \in DOMAIN s /\ \A j \in 1 .. b - 1 : s[j] # "begin"
      BY <1>0, <2>0, <2>2
    <3>3. (CHOOSE i \in DOMAIN s : s[i] = "begin" /\ \A j \in 1 .. i - 1 : s[j] # "begin") = b
      BY <3>1, <3>2
    <3>4. Transcript(s) = From(s, 1 + b)
      BY <3>1, <3>3 DEF Transcript, After
    <3>5. /\ From(s, 1 + b) \in Seq(Items) /\ Len(From(s, 1 + b)) = Len(s) - b
          /\ \A i \in 1 .. Len(s) - b : From(s, 1 + b)[i] = s[b + i]
      BY <2>0, <2>2 DEF From, Stream
    <3>6. Len(s) <= b => From(s, 1 + b) = <<>>
      BY <3>5, <2>0, <2>2, <1>0
    <3>7. \A i \in 1 .. Len(s) - b : s[b + i] = u[b + i]
      BY <1>0, <2>0, <2>2
    <3> QED
      BY <3>4, <3>5, <3>6, <3>7 DEF Stream
  <2>3. Len(s) < b \/ Len(s) >= b
    BY <1>0
  <2> QED
    BY <2>1, <2>2, <2>3
<1> QED
  BY <1>1, <1>2

\* A worker finds its command complete only when the command is over, and then it has exactly
\* the status line and the prompt.
LEMMA CompleteIsOver ==
    ASSUME NEW s \in Stream, NEW u \in Stream, Len(s) <= Len(u), \A i \in 1 .. Len(s) : s[i] = u[i],
           ~Has(u, "begin") \/ OnlyBegin(u, Len(u))
             \/ (OnlyBegin(u, Len(u) - 2) /\ u[Len(u) - 1] \in {"rc0", "rc1"} /\ u[Len(u)] = "prompt"),
           StatusMatch(Transcript(s)) # "none",
           Has(After(Transcript(s), StatusMatch(Transcript(s))), "prompt")
    PROVE  /\ OnlyBegin(u, Len(u) - 2)
           /\ Transcript(s) = <<u[Len(u) - 1], "prompt">>
           /\ StatusMatch(Transcript(s)) = u[Len(u) - 1]
<1>0. Len(s) \in Nat /\ Len(u) \in Nat /\ DOMAIN u = 1 .. Len(u)
  BY DEF Stream
<1>1. StatusMatch(<<>>) = "none"
  BY DEF StatusMatch, Has
<1>2. Transcript(s) # <<>>
  BY <1>1
<1>3. OnlyBegin(u, Len(u) - 2) /\ u[Len(u) - 1] \in {"rc0", "rc1"} /\ u[Len(u)] = "prompt"
  BY <1>0, <1>2, TranscriptOf
<1> DEFINE b == Len(u) - 2
           own == Transcript(s)
           m == u[Len(u) - 1]
<1>4. b \in Nat /\ b > 0
  BY <1>0, <1>3 DEF OnlyBegin
<1>5. /\ Len(s) > b /\ own \in Stream /\ Len(own) = Len(s) - b
      /\ \A i \in 1 .. Len(s) - b : own[i] = u[b + i]
  BY <1>0, <1>2, <1>3, <1>4, TranscriptOf
<1>6. own[1] = m
  BY <1>0, <1>4, <1>5
<1>7. CASE Len(own) = 1
  <2>1. own = <<m>>
    BY <1>5, <1>6, <1>7 DEF Stream
  <2>2. StatusMatch(<<m>>) = m
    BY <1>3 DEF StatusMatch, Has
  <2>3. (CHOOSE i \in DOMAIN <<m>> : <<m>>[i] = m /\ \A j \in 1 .. i - 1 : <<m>>[j] # m) = 1
    OBVIOUS
  <2>4. After(<<m>>, m) = <<>>
    BY <2>3 DEF After, From
  <2> QED
    BY <2>1, <2>2, <2>4 DEF Has
<1>8. CASE Len(own) # 1
  <2>1. Len(own) = 2 /\ own[2] = "prompt"
    BY <1>0, <1>3, <1>4, <1>5, <1>8
  <2>2. own = <<m, "prompt">>
    BY <1>5, <1>6, <2>1 DEF Stream
  <2>3. StatusMatch(<<m, "prompt">>) = m
    BY <1>3 DEF StatusMatch, Has
  <2> QED
    BY <1>3, <2>2, <2>3
<1> QED
  BY <1>7, <1>8

\* A console's share of CommandInv is kept by every step there.
LEMMA CommandStep ==
    ASSUME TypeOK, OwnerInv, CommandInv, ResultInv, Next
    PROVE  CommandInv' /\ ResultInv'
<1>0. GuestType /\ ConsoleType /\ ThreadType
  BY DEF TypeOK
<1>1. CASE Main
  <2>1. UNCHANGED <<mode, shell, out, inq, ran, pc, text, results>>
    BY <1>1 DEF Main, Return, Join, guestVars
  <2>2. CommandInv'
    BY <2>1 DEF CommandInv, Unsent, Waits, Runs, Over, Printed
  <2>3. exit' = "ok" => exit = "ok" \/ \A q \in Ports : results[q] # "error" /\ (mode = "command" => results[q] # "none")
    BY <1>1 DEF Main, Return, Join
  <2>4. ResultInv'
    BY <1>0, <2>1, <2>3 DEF ResultInv, ThreadType
  <2> QED
    BY <2>2, <2>4
<1> SUFFICES ASSUME NEW p \in Ports, Worker(p) \/ Guest(p) \/ Terminal(p), exit = "none"
             PROVE  CommandInv' /\ ResultInv'
  BY <1>1 DEF Next
<1> DEFINE C == mode = "command" =>
                  /\ pc'[p] \notin {"sent", "done"} => Unsent(p)'
                  /\ pc'[p] = "sent" => Waits(p)' \/ Runs(p)' \/ Over(p)'
                  /\ pc'[p] = "done" => shell'[p] = "left"
           R == /\ results'[p] # "none" => pc'[p] = "done"
                /\ mode = "command" => (results'[p] = "ok" => ran'[p] = 0 /\ text'[p] = <<"rc0", "prompt">>)
<1>s. SUFFICES C /\ R
  <2>1. ASSUME NEW q \in Ports \ {p}, mode = "command"
        PROVE  /\ pc'[q] \notin {"sent", "done"} => Unsent(q)'
               /\ pc'[q] = "sent" => Waits(q)' \/ Runs(q)' \/ Over(q)'
               /\ pc'[q] = "done" => shell'[q] = "left"
    <3>1. /\ shell'[q] = shell[q] /\ out'[q] = out[q] /\ inq'[q] = inq[q] /\ ran'[q] = ran[q]
          /\ pc'[q] = pc[q] /\ text'[q] = text[q]
      BY OtherPorts
    <3>2. Printed(q)' = Printed(q)
      BY <3>1 DEF Printed
    <3>3. (Unsent(q) => Unsent(q)') /\ (Waits(q) => Waits(q)')
      BY <3>1, <3>2 DEF Unsent, Waits
    <3>4. (Runs(q) => Runs(q)') /\ (Over(q) => Over(q)')
      BY <3>1, <3>2 DEF Runs, Over
    <3> QED
      BY <2>1, <3>1, <3>3, <3>4 DEF CommandInv
  <2>2. CommandInv'
    BY <2>1, <1>s, OtherPorts DEF CommandInv
  <2>3. ResultInv'
    BY <1>s, OtherPorts DEF ResultInv
  <2> QED
    BY <2>2, <2>3
<1> HIDE DEF C, R
<1>z. /\ out[p] \in Stream /\ text[p] \in Stream /\ inq[p] \in Input /\ Printed(p) \in Stream
      /\ {"text", "prompt", "begin", "echo", "rc0", "rc1", "attached"} \subseteq Items
  BY <1>0, Streams DEF ConsoleType, Printed, Items
<1>w. /\ \A x \in Items : text[p] \o Append(out[p], x) = Append(Printed(p), x)
      /\ \A s \in Stream : text[p] \o (out[p] \o s) = Printed(p) \o s
  BY <1>z, PrintedKeeps DEF Printed
\* The worker ends.
<1>r. ASSUME NEW r \in {"ok", "error"}, NEW t, Report(p, r, t), UNCHANGED ran,
             mode = "command" /\ r = "ok" => ran[p] = 0 /\ t = <<"rc0", "prompt">>
      PROVE  C /\ R
  BY <1>0, <1>r DEF Report, GuestType, ConsoleType, ThreadType, C, R
<1>f. ASSUME Fails(p) PROVE C /\ R
  BY <1>f, <1>r DEF Fails
\* A step that changes neither its results nor its text.
<1>u. ASSUME pc'[p] = pc[p], results' = results, text' = text, ran' = ran PROVE R
  BY <1>u DEF R, ResultInv
<1>v. ASSUME pc'[p] # "done", pc[p] # "done", results' = results PROVE R
  <2>1. results[p] = "none"
    BY <1>v DEF ResultInv
  <2> QED
    BY <2>1, <1>v DEF R
\* A line without BEGIN is printed while no command runs.
<1>p. ASSUME NEW x \in {"text", "prompt"}, out'[p] = Append(out[p], x), pc' = pc, text' = text, inq'[p] = inq[p],
             ran' = ran, shell[p] \in {"boot", "busy", "idle"}, shell'[p] \in {"idle", "busy"},
             shell[p] = "idle" => p \in taken
      PROVE  C
  <2>1. x \in Items \ {"begin"}
    BY <1>z
  <2>2. ~Has(out[p], "begin") => ~Has(Append(out[p], x), "begin")
    BY <1>z, <2>1, BeginKeeps
  <2>3. Printed(p)' = Append(Printed(p), x)
    BY <1>p, <1>w, <2>1 DEF Printed
  <2>4. ~Has(Printed(p), "begin") => ~Has(Append(Printed(p), x), "begin")
    BY <1>z, <2>1, BeginKeeps
  <2>5. mode = "command" /\ pc[p] = "sent" => Waits(p)
    BY <1>p DEF CommandInv, Runs, Over, OwnerInv
  <2> QED
    BY <1>p, <2>2, <2>3, <2>4, <2>5 DEF C, CommandInv, Unsent, Waits
\* Nothing is printed or read.
<1>n. ASSUME out'[p] = out[p], pc' = pc, text' = text, inq'[p] = inq[p], ran' = ran,
             shell'[p] = shell[p] \/ (shell'[p] = "dead" /\ shell[p] # "left")
      PROVE  C
  BY <1>n DEF C, CommandInv, Unsent, Waits, Runs, Over, Printed
<1>2. CASE TerminalOpens(p) \/ TerminalCloses(p)
  BY <1>2, <1>n, <1>u DEF TerminalOpens, TerminalCloses
<1>3. CASE TerminalTypes(p)
  BY <1>0, <1>3, <1>p, <1>u DEF TerminalTypes, ConsoleType, GuestType
<1>4. CASE BootDone(p)
  BY <1>0, <1>4, <1>p, <1>u DEF BootDone, ConsoleType, GuestType
<1>5. CASE Listen(p) \/ Crash(p)
  BY <1>0, <1>5, <1>n, <1>u DEF Listen, Crash, GuestType
<1>6. CASE ShellTakes(p)
  <2>1. /\ shell[p] = "idle" /\ inq[p] # <<>> /\ inq'[p] = Tail(inq[p])
        /\ UNCHANGED <<mode, ran, pc, text, results>>
        /\ IF Head(inq[p]) = "kick" THEN out'[p] = Append(out[p], "prompt") /\ shell' = shell
           ELSE shell'[p] = "run" /\ (mode = "command" => out'[p] = Append(out[p], "begin"))
    BY <1>0, <1>6 DEF ShellTakes, ConsoleType, GuestType
  <2>2. /\ Head(inq[p]) = inq[p][1] /\ Len(Tail(inq[p])) = Len(inq[p]) - 1 /\ Len(inq[p]) \in Nat \ {0}
        /\ \A i \in 1 .. Len(inq[p]) - 1 : Tail(inq[p])[i] = inq[p][i + 1]
        /\ DOMAIN inq[p] = 1 .. Len(inq[p]) /\ DOMAIN Tail(inq[p]) = 1 .. Len(inq[p]) - 1
        /\ Head(inq[p]) \in {"kick", "cmd"}
    BY <1>z, <2>1 DEF Input
  <2>3. C
    <3> SUFFICES ASSUME mode = "command" PROVE C
      BY DEF C
    <3>1. CASE Head(inq[p]) = "kick"
      <4>1. Printed(p)' = Append(Printed(p), "prompt")
        BY <1>w, <1>z, <2>1, <3>1 DEF Printed
      <4>2. /\ ~Has(Printed(p), "begin") => ~Has(Append(Printed(p), "prompt"), "begin")
            /\ ~Has(out[p], "begin") => ~Has(Append(out[p], "prompt"), "begin")
        BY <1>z, BeginKeeps
      <4>3. (\A i \in DOMAIN inq[p] : inq[p][i] # "cmd") => \A i \in DOMAIN inq'[p] : inq'[p][i] # "cmd"
        BY <2>1, <2>2
      <4>4. (\A i \in DOMAIN inq[p] : inq[p][i] = "cmd" => i = Len(inq[p])) =>
              \A i \in DOMAIN inq'[p] : inq'[p][i] = "cmd" => i = Len(inq'[p])
        BY <2>1, <2>2
      <4>5. pc[p] = "sent" => Waits(p)
        BY <2>1 DEF CommandInv, Runs, Over
      <4>6. pc[p] = "sent" => Waits(p)'
        BY <2>1, <3>1, <4>1, <4>2, <4>4, <4>5 DEF Waits
      <4>7. pc[p] \notin {"sent", "done"} => Unsent(p)'
        BY <2>1, <3>1, <4>2, <4>3 DEF CommandInv, Unsent
      <4>8. pc[p] # "done"
        BY <2>1 DEF CommandInv
      <4> QED
        BY <2>1, <4>6, <4>7, <4>8 DEF C
    <3>2. CASE Head(inq[p]) # "kick"
      <4>1. inq[p][1] = "cmd" /\ 1 \in DOMAIN inq[p]
        BY <2>2, <3>2
      <4>2. pc[p] = "sent" /\ Waits(p)
        BY <1>0, <2>1, <4>1 DEF CommandInv, Unsent, Runs, Over, ThreadType
      <4>3. Len(inq[p]) = 1
        BY <4>1, <4>2 DEF Waits
      <4>4. inq'[p] = <<>>
        BY <1>z, <2>1, <2>2, <4>3 DEF Input
      <4>5. Printed(p)' = Append(Printed(p), "begin")
        BY <1>w, <1>z, <2>1, <3>2 DEF Printed
      <4>6. OnlyBegin(Printed(p)', Len(Printed(p)'))
        BY <1>z, <4>2, <4>5, BeginKeeps DEF Waits
      <4>7. Runs(p)'
        BY <2>1, <3>2, <4>2, <4>4, <4>6 DEF Runs, Waits
      <4> QED
        BY <2>1, <4>2, <4>7 DEF C
    <3> QED
      BY <3>1, <3>2
  <2> QED
    BY <2>1, <2>3, <1>u
<1>7. ASSUME NEW rc \in {0, 1}, ShellEnds(p, rc) PROVE C /\ R
  <2>1. /\ shell[p] = "run" /\ ran' = [ran EXCEPT ![p] = rc]
        /\ UNCHANGED <<mode, inq, pc, text, results>>
        /\ mode = "command" => shell'[p] = "idle" /\ out'[p] = out[p] \o <<Marker(rc), "prompt">>
    BY <1>0, <1>7 DEF ShellEnds, ConsoleType, GuestType, Marker
  <2>2. CASE mode = "command"
    <3>1. pc[p] = "sent" /\ Runs(p)
      BY <1>0, <2>1, <2>2 DEF CommandInv, Unsent, Waits, Over, ThreadType
    <3>2. Marker(rc) \in {"rc0", "rc1"} /\ <<Marker(rc), "prompt">> \in Stream
      BY <1>z, Streams DEF Marker
    <3>3. Printed(p)' = Printed(p) \o <<Marker(rc), "prompt">>
      BY <1>w, <2>1, <2>2, <3>2 DEF Printed
    <3> DEFINE u == Printed(p) \o <<Marker(rc), "prompt">>
    <3>4. OnlyBegin(u, Len(u) - 2) /\ u[Len(u) - 1] = Marker(rc) /\ u[Len(u)] = "prompt"
      BY <1>z, <3>1, <3>2, BeginKeeps DEF Runs
    <3>5. ran'[p] = rc /\ rc # -1
      BY <1>0, <2>1 DEF GuestType
    <3>6. inq'[p] = <<>>
      BY <2>1, <3>1 DEF Runs
    <3> HIDE DEF u
    <3>7. Over(p)'
      BY <2>1, <2>2, <3>3, <3>4, <3>5, <3>6 DEF Over, u
    <3>8. R
      BY <2>1, <3>1, <1>v
    <3> QED
      BY <2>1, <3>1, <3>7, <3>8 DEF C
  <2>3. CASE mode # "command"
    BY <2>1, <2>3 DEF C, R, ResultInv
  <2> QED
    BY <2>2, <2>3
<1>8. CASE Connect(p)
  <2>1. ~Has(<<"attached">>, "begin")
    BY DEF Has
  <2>2. /\ pc[p] = "connect" /\ pc'[p] = "warm" /\ (out'[p] = out[p] \/ out'[p] = <<"attached">>)
        /\ UNCHANGED <<shell, ran, inq, results>>
    BY <1>0, <1>8 DEF Connect, guestVars, ConsoleType, ThreadType
  <2>3. C
    BY <2>1, <2>2 DEF C, CommandInv, Unsent
  <2> QED
    BY <2>2, <2>3, <1>v
<1>9. CASE Kick(p)
  <2>1. /\ pc[p] = "warm" /\ UNCHANGED <<shell, ran, out, pc, text, results>>
        /\ inq'[p] = inq[p] \/ inq'[p] = Append(inq[p], "kick")
    BY <1>0, <1>9 DEF Kick, guestVars, ConsoleType
  <2>2. (\A i \in DOMAIN inq[p] : inq[p][i] # "cmd") =>
          \A i \in DOMAIN Append(inq[p], "kick") : Append(inq[p], "kick")[i] # "cmd"
    BY <1>z DEF Input
  <2>3. C
    BY <2>1, <2>2 DEF C, CommandInv, Unsent
  <2> QED
    BY <2>1, <2>3, <1>v
<1>10. CASE ConnectFails(p) \/ WarmFails(p) \/ SendFails(p) \/ AwaitFails(p) \/ GateFails(p)
  BY <1>f, <1>10 DEF ConnectFails, WarmFails, SendFails, AwaitFails, GateFails
<1>11. ASSUME NEW n \in 1 .. Len(out[p]), Warm(p, n) PROVE C /\ R
  <2>1. CASE Has(SubSeq(out[p], 1, n), "attached")
    BY <1>11, <1>f, <2>1 DEF Warm
  <2>2. CASE ~Has(SubSeq(out[p], 1, n), "attached")
    <3>1. /\ out'[p] = From(out[p], n + 1) /\ pc[p] = "warm" /\ pc'[p] \in {"warm", "gate"}
          /\ UNCHANGED <<shell, ran, inq, results>>
      BY <1>0, <1>11, <2>2 DEF Warm, guestVars, ConsoleType, ThreadType
    <3>2. ~Has(out[p], "begin") => ~Has(From(out[p], n + 1), "begin")
      BY <1>z, ReadKeeps
    <3>3. C
      BY <3>1, <3>2 DEF C, CommandInv, Unsent
    <3> QED
      BY <3>1, <3>3, <1>v
  <2> QED
    BY <2>1, <2>2
<1>12. CASE Arrive(p)
  <2>1. CASE gate = "broken"
    BY <1>12, <1>f, <2>1 DEF Arrive
  <2>2. CASE gate # "broken"
    <3>1. pc[p] = "gate" /\ pc'[p] = "waiting" /\ UNCHANGED <<shell, ran, inq, out, results>>
      BY <1>0, <1>12, <2>2 DEF Arrive, guestVars, ThreadType
    <3>2. C
      BY <3>1 DEF C, CommandInv, Unsent
    <3> QED
      BY <3>1, <3>2, <1>v
  <2> QED
    BY <2>1, <2>2
<1>13. CASE GatePasses(p)
  <2>1. pc[p] = "waiting" /\ pc'[p] = "delay" /\ UNCHANGED <<shell, ran, inq, out, results>>
    BY <1>0, <1>13 DEF GatePasses, guestVars, ThreadType
  <2>2. C
    BY <2>1 DEF C, CommandInv, Unsent
  <2> QED
    BY <2>1, <2>2, <1>v
<1>14. CASE Send(p)
  <2>1. /\ pc[p] = "delay" /\ pc'[p] = "sent" /\ text'[p] = <<>> /\ UNCHANGED <<shell, ran, results>>
        /\ \/ inq'[p] = inq[p] /\ out'[p] = out[p]
           \/ inq'[p] = Append(inq[p], "cmd") /\ out'[p] = Append(out[p], "echo")
    BY <1>0, <1>14 DEF Send, guestVars, ThreadType, ConsoleType
  <2>2. \A i \in DOMAIN inq[p] : inq[p][i] # "cmd" =>
          Append(inq[p], "cmd")[i] # "cmd"
    BY <1>z DEF Input
  <2>3. \A i \in DOMAIN Append(inq[p], "cmd") : i \notin DOMAIN inq[p] => i = Len(Append(inq[p], "cmd"))
    BY <1>z DEF Input
  <2>4. /\ ~Has(out[p], "begin") => ~Has(Append(out[p], "echo"), "begin")
        /\ Append(out[p], "echo") \in Stream
    BY <1>z, BeginKeeps, Streams
  <2>5. \A s \in Stream : <<>> \o s = s
    BY DEF Stream
  <2>6. Printed(p)' = out'[p]
    BY <1>z, <2>1, <2>4, <2>5 DEF Printed
  <2>7. mode = "command" => Unsent(p)
    BY <2>1 DEF CommandInv
  <2>8. mode = "command" => Waits(p)'
    BY <2>1, <2>2, <2>3, <2>4, <2>6, <2>7 DEF Unsent, Waits
  <2>9. C
    BY <2>1, <2>8 DEF C
  <2> QED
    BY <2>1, <2>9, <1>v
<1>15. CASE Await(p)
  <2> DEFINE new_text == Append(text[p], Head(out[p]))
             own == Transcript(new_text)
             status == StatusMatch(own)
             complete == mode = "command" /\ status # "none" /\ Has(After(own, status), "prompt")
  <2>1. pc[p] = "sent" /\ out[p] # <<>> /\ ran' = ran
    BY <1>15 DEF Await
  <2>2. new_text \o Tail(out[p]) = Printed(p) /\ new_text \in Stream /\ Tail(out[p]) \in Stream
    BY <1>z, <2>1, PrintedKeeps, Streams DEF Printed
  <2>3. CASE complete
    <3>1. Report(p, IF status = "rc0" THEN "ok" ELSE "error", own)
      BY <1>15, <2>3 DEF Await
    <3> DEFINE u == Printed(p)
    <3>2. Len(new_text) <= Len(u) /\ \A i \in 1 .. Len(new_text) : new_text[i] = u[i]
      <4> HIDE DEF new_text
      <4>1. \A s, t \in Stream : Len(s) <= Len(s \o t) /\ \A i \in 1 .. Len(s) : s[i] = (s \o t)[i]
        BY DEF Stream
      <4> QED
        BY <2>2, <4>1
    <3>3. Waits(p) \/ Runs(p) \/ Over(p)
      BY <2>1, <2>3 DEF CommandInv
    <3>4. /\ OnlyBegin(u, Len(u) - 2) /\ own = <<u[Len(u) - 1], "prompt">> /\ status = u[Len(u) - 1]
      <4>1. ~Has(u, "begin") \/ OnlyBegin(u, Len(u))
              \/ (OnlyBegin(u, Len(u) - 2) /\ u[Len(u) - 1] \in {"rc0", "rc1"} /\ u[Len(u)] = "prompt")
        BY <3>3 DEF Waits, Runs, Over, Marker
      <4> HIDE DEF new_text, u
      <4>2. u \in Stream
        BY <1>z DEF u
      <4> QED
        BY <2>2, <2>3, <3>2, <4>1, <4>2, CompleteIsOver
    <3>5. Over(p)
      <4>1. Len(u) \in Nat /\ DOMAIN u = 1 .. Len(u)
        BY <1>z DEF Stream
      <4>2. Len(u) - 2 \in DOMAIN u /\ u[Len(u) - 2] = "begin"
        BY <3>4 DEF OnlyBegin
      <4>3. ~Waits(p)
        BY <4>2 DEF Waits, Has
      <4>4. ~Runs(p)
        <5>1. \A k \in Nat : k - 2 # k
          OBVIOUS
        <5> HIDE DEF u
        <5>2. ~OnlyBegin(u, Len(u))
          BY <4>1, <5>1, <4>2 DEF OnlyBegin
        <5> QED
          BY <5>2 DEF Runs, u
      <4> QED
        BY <3>3, <4>3, <4>4
    <3>6. status = "rc0" => ran[p] = 0 /\ own = <<"rc0", "prompt">>
      BY <3>4, <3>5 DEF Over, Marker
    <3> HIDE DEF own, status
    <3> QED
      BY <1>r, <2>1, <3>1, <3>6
  <2>4. CASE ~complete
    <3>1. /\ text'[p] = IF mode = "command" THEN new_text ELSE <<>>
          /\ out'[p] = Tail(out[p])
          /\ UNCHANGED <<shell, inq, pc, results>>
      BY <1>0, <1>15, <2>4 DEF Await, ConsoleType
    <3>2. mode = "command" => Printed(p)' = Printed(p)
      BY <2>2, <3>1 DEF Printed
    <3> HIDE DEF new_text
    <3>3. C
      BY <2>1, <3>1, <3>2 DEF C, CommandInv, Waits, Runs, Over
    <3> QED
      BY <2>1, <3>1, <3>3, <1>v
  <2> QED
    BY <2>3, <2>4
<1>16. CASE CheckpointEof(p)
  BY <1>16, <1>r DEF CheckpointEof
<1> QED
  BY <1>2, <1>3, <1>4, <1>5, <1>6, <1>7, <1>8, <1>9, <1>10, <1>11, <1>12, <1>13, <1>14, <1>15, <1>16
  DEF Worker, Guest, Terminal

----------------------------------------------------------------------------
(* Theorems *)

\* The invocation and the histories that consoles replay are of the types.
LEMMA TypeInit == ASSUME Init PROVE TypeOK
<1>1. GuestType
  BY ConsolesAssumption DEF Init, GuestType, History
<1>2. ThreadType
  BY DEF Init, ThreadType
<1>3. ConsoleType
  <2>1. {"text", "old", "prompt"} \subseteq Items
    BY DEF Items
  <2>2. <<"text">> \in Stream /\ <<"old", "prompt">> \in Stream /\ <<"prompt", "text">> \in Stream
    BY <2>1, Streams
  <2>3. \A s \in DOMAIN History : History[s] \subseteq Stream
    BY <2>2, Streams DEF History
  <2> QED
    BY <2>3, Streams, Inputs DEF Init, ConsoleType
<1> QED
  BY <1>1, <1>2, <1>3 DEF TypeOK

\* Every variable keeps its type, for any number of consoles.
THEOREM TypeCorrect == Spec => []TypeOK
<1>1. Init => TypeOK
  BY TypeInit
<1>2. TypeOK /\ [Next]_vars => TypeOK'
  <2> SUFFICES ASSUME TypeOK, [Next]_vars PROVE TypeOK'
    OBVIOUS
  <2>1. CASE Next
    BY <2>1, GuestTypeStep, ConsoleTypeStep, ThreadTypeStep DEF TypeOK
  <2>2. CASE UNCHANGED vars
    BY <2>2 DEF vars, TypeOK, GuestType, ConsoleType, ThreadType
  <2> QED
    BY <2>1, <2>2
<1> QED
  BY <1>1, <1>2, PTL DEF Spec

\* The tools implement the start gate: no console is sent the command before every console
\* has been seen ready, however the threads fail, time out and arrive.
THEOREM GateRefined == Spec => GateSpec
<1>1. Init => GateInv /\ Gate!Init
  BY ConsolesAssumption DEF Init, GateInv, Gate!Init
<1>2. TypeOK /\ GateInv /\ [Next]_vars => GateInv' /\ [Gate!Next]_(Gate!gateVars)
  <2> SUFFICES ASSUME TypeOK, GateInv, [Next]_vars PROVE GateInv' /\ [Gate!Next]_(Gate!gateVars)
    OBVIOUS
  <2>1. CASE UNCHANGED vars
    BY <2>1 DEF vars, GateInv, Gate!gateVars
  <2> QED
    BY <2>1, GateStep
<1> QED
  BY <1>1, <1>2, TypeCorrect, PTL DEF Spec, GateSpec, Gate!Spec

\* "Never inject into the boot stream", with any number of consoles: without a kick nothing
\* is typed at a guest that has not shown a prompt.
THEOREM BootUntouched == Spec => []BootStreamUntouched
<1>1. Init => BootInv
  <2>1. ~Has(<<"text">>, "prompt") /\ ~Has(<<>>, "prompt")
    BY DEF Has
  <2> QED
    BY <2>1 DEF Init, BootInv, History
<1>2. TypeOK /\ BootInv /\ [Next]_vars => BootInv'
  <2> SUFFICES ASSUME TypeOK, BootInv, [Next]_vars PROVE BootInv'
    OBVIOUS
  <2>1. CASE UNCHANGED vars
    BY <2>1 DEF vars, BootInv, KickEnabled
  <2> QED
    BY <2>1, BootStep
<1>3. BootInv => BootStreamUntouched
  BY DEF BootInv, BootStreamUntouched
<1> QED
  BY <1>1, <1>2, <1>3, TypeCorrect, PTL DEF Spec

\* A command run that exits 0 ran its command to status 0 in every guest and shows nothing but
\* what that command printed, for any number of consoles and any history they replay.
THEOREM OwnSuccess == Spec => []SuccessIsOwn
<1> DEFINE Inv == OwnerInv /\ CommandInv /\ ResultInv
<1>1. Init => Inv
  <2> SUFFICES ASSUME Init PROVE Inv
    OBVIOUS
  <2>1. \A p \in Ports : out[p] \in {<<"text">>, <<>>, <<"old", "prompt">>, <<"prompt", "text">>}
    BY DEF Init, History
  <2>2. \A p \in Ports : ~Has(out[p], "begin")
    BY <2>1 DEF Has
  <2>3. \A p \in Ports : shell[p] # "run"
    BY DEF Init, History
  <2>4. CommandInv
    BY <2>2, <2>3 DEF Init, CommandInv, Unsent
  <2>5. OwnerInv /\ ResultInv
    BY DEF Init, OwnerInv, ResultInv
  <2> QED
    BY <2>4, <2>5
<1>2. TypeOK /\ Inv /\ [Next]_vars => Inv'
  <2> SUFFICES ASSUME TypeOK, Inv, [Next]_vars PROVE Inv'
    OBVIOUS
  <2>1. CASE UNCHANGED vars
    BY <2>1 DEF vars, OwnerInv, CommandInv, ResultInv, Unsent, Waits, Runs, Over, Printed
  <2> QED
    BY <2>1, OwnerStep, CommandStep
<1>3. Inv => SuccessIsOwn
  BY DEF ResultInv, SuccessIsOwn
<1> QED
  BY <1>1, <1>2, <1>3, TypeCorrect, PTL DEF Spec
=============================================================================
