--------------------------- MODULE JfcCompletion ---------------------------
(***************************************************************************)
(* The completion engine of the UDMA device model                          *)
(* (components/udma-model/src/udma_completion.cc and the JFC/CEQ commands  *)
(* of udma_resources.cc): completions (CQEs) are queued per JFC, admitted  *)
(* through one shared pool of completion_event_slots, written to the CQ    *)
(* ring by asynchronous DMA, and announced through a CEQ entry and an MSI. *)
(*                                                                         *)
(* The device process is single threaded.  A handler runs to completion,   *)
(* and its synchronous calls are kept on `stack': the frame at the head is *)
(* the function being executed, and no other device event is handled until *)
(* the stack is empty.  Only a "caller" frame (the completion callback of  *)
(* the SQ/RQ engine) may re-enter the engine.  A handler takes no simulated*)
(* time: the guest and the DMA engine move only while it is idle.          *)
(***************************************************************************)
EXTENDS Integers, Sequences, SequencesExt, FiniteSets

CONSTANTS
    Jfcs,        \* JFC identifiers, integers: they are served in id order
    Ceqs,        \* CEQ identifiers
    CeqOf,       \* the CEQ that the context of each JFC names
    Depth,       \* CQ ring depth (QueueContext::depth)
    Wrap,        \* modulus of the CQ consumer index: 2^22 in the code
    CeqDepth,    \* CEQ ring depth
    Slots,       \* Config::completion_event_slots
    Pipelined,   \* Config::pipelined_completion_dma
    OneShot,     \* Config::one_shot_jfc_notifications
    Counts,      \* moderation counts a context may name
    Periods,     \* is there a moderation period (subset of BOOLEAN)
    StrayCqes,   \* may a queue still name a JFC that has been destroyed
    MaxCqe,      \* bound: completions submitted
    MaxGen,      \* bound: creations of one JFC
    MaxModify,   \* bound: ModifyJfc commands
    MaxQuery,    \* bound: QueryJfc commands
    MaxFaults    \* bound: failing DMAs and interrupts

ASSUME JfcAssumption == Jfcs \subseteq Nat /\ IsFiniteSet(Jfcs) /\ Jfcs # {}
ASSUME CeqAssumption == CeqOf \in [Jfcs -> Ceqs]
ASSUME RingAssumption ==
    /\ Depth \in Nat \ {0} /\ CeqDepth \in Nat \ {0}
    /\ Wrap \in Nat \ {0} /\ Wrap % (2 * Depth) = 0
ASSUME PoolAssumption == Slots \in Nat \ {0}
ASSUME ModeAssumption ==
    /\ Pipelined \in BOOLEAN /\ OneShot \in BOOLEAN /\ StrayCqes \in BOOLEAN
    /\ Counts \subseteq Nat \ {0} /\ Periods \subseteq BOOLEAN
ASSUME BoundAssumption ==
    /\ MaxCqe \in Nat /\ MaxGen \in Nat /\ MaxFaults \in Nat /\ MaxModify \in Nat
    /\ MaxQuery \in Nat

VARIABLES
    jfc,        \* jfc_contexts_, armed_jfcs_: one record per JFC
    cqe,        \* every completion handed to WriteCqe, by submission number
    submitted,  \* how many completions have been submitted
    waiting,    \* JfcPublicationQueue::pending, per JFC
    entry,      \* the keys of jfc_publications_
    slots,      \* completion_event_slots_in_use_
    last,       \* last_jfc_admitted_ (-1 when unset)
    events,     \* completion_events_
    active,     \* the event whose CEQE or MSI is in flight
    ceq,        \* ceqs_: one record per CEQ
    csq,        \* the mailbox command that owns the command queue
    stack,      \* call stack of the running handler
    kick,       \* completion_work_kick_
    phase,      \* where the loop of PumpCompletionWork is
    pass,       \* ids left in its current pass over jfc_publications_
    pivot,      \* last_jfc_admitted_ when the pass began: ids rotate after it
    served,     \* the serial engine has admitted one for the current id
    modifies,   \* number of ModifyJfc commands
    queries,    \* number of QueryJfc commands
    queryCi,    \* consumer index when the query's DMA read was issued
    faults,     \* failed operations so far
    mem,        \* guest memory: CQ ring of each JFC
    ci,         \* guest memory: record doorbell (consumer index) of each JFC
    seen,       \* completions the guest has polled
    eq,         \* guest memory: CEQ entries, by position
    eqRead,     \* CEQ entries the guest has consumed
    irq,        \* the guest's CEQ interrupt handler is running or due
    asleep      \* the guest waits for a notification of this JFC

engine == <<jfc, cqe, submitted, waiting, entry, slots, last>>
notify == <<events, active, ceq>>
pump == <<kick, phase, pass, pivot, served>>
command == <<csq, modifies, queries, queryCi>>
guest == <<mem, ci, seen, eq, eqRead, irq, asleep>>
vars == <<jfc, cqe, submitted, waiting, entry, slots, last, events, active,
          ceq, csq, stack, kick, phase, pass, pivot, served, modifies,
          queries, queryCi, faults, mem, ci, seen, eq, eqRead, irq, asleep>>

Cqes == 1..MaxCqe

----------------------------------------------------------------------------
(* State *)

\* A CQE is with the DMA engine ("read": consumer index read, "dma": CQE
\* write issued, "landed": write visible to the guest, not yet acknowledged),
\* or its callback is running ("okcb", "failcb").
InDma == {"read", "dma", "landed"}
InFlightStages == InDma \cup {"okcb", "failcb"}
Stages == {"new", "waiting", "ok", "failed"} \cup InFlightStages

CqeRecord == [jfc : Jfcs, stage : Stages, gen : 0..MaxGen, pos : Nat, ci : Nat]
JfcRecord == [live : BOOLEAN, gen : 0..MaxGen, producer : Nat,
              consumer : 0..(Wrap - 1), count : Nat, period : BOOLEAN,
              pend : Nat, deadline : {"none", "armed", "expired"},
              armed : BOOLEAN]
CeqRecord == [live : BOOLEAN, producer : Nat, consumer : Nat,
              consumerPending : BOOLEAN, pendingConsumer : Nat,
              fault : BOOLEAN]
EventRecord == [jfc : Jfcs, ceq : Ceqs]
FrameOps == {"pump", "caller", "release", "slot", "dispatch", "maybe"}
Frame == [op : FrameOps, id : 0..MaxCqe]
CsqOps == {"none", "createJfc", "destroyJfc", "queryJfc", "createCeq",
           "destroyCeq"}

Inactive == [stage |-> "idle", jfc |-> -1, ceq |-> -1]
NoCmd == [op |-> "none", id |-> -1]
FreshCeq == [live |-> TRUE, producer |-> 0, consumer |-> 0,
             consumerPending |-> FALSE, pendingConsumer |-> 0, fault |-> FALSE]
DeadCeq == [FreshCeq EXCEPT !.live = FALSE]
FreshJfc(gen, count, period) ==
    [live |-> TRUE, gen |-> gen, producer |-> 0, consumer |-> 0,
     count |-> count, period |-> period, pend |-> 0, deadline |-> "none",
     armed |-> FALSE]
DeadJfc(gen) == [FreshJfc(gen, 1, FALSE) EXCEPT !.live = FALSE]
EmptyRing == [p \in 0..(Depth - 1) |-> [owner |-> FALSE, id |-> 0]]

Init ==
    /\ jfc = [j \in Jfcs |-> DeadJfc(0)]
    /\ cqe = [i \in Cqes |-> [jfc |-> CHOOSE j \in Jfcs : TRUE, stage |-> "new",
                              gen |-> 0, pos |-> 0, ci |-> 0]]
    /\ submitted = 0
    /\ waiting = [j \in Jfcs |-> <<>>]
    /\ entry = {}
    /\ slots = 0
    /\ last = -1
    /\ events = <<>>
    /\ active = Inactive
    /\ ceq = [c \in Ceqs |-> DeadCeq]
    /\ csq = NoCmd
    /\ stack = <<>>
    /\ kick = FALSE
    /\ phase = "off"
    /\ pass = {}
    /\ pivot = -1
    /\ served = FALSE
    /\ modifies = 0
    /\ queries = 0
    /\ queryCi = 0
    /\ faults = 0
    /\ mem = [j \in Jfcs |-> EmptyRing]
    /\ ci = [j \in Jfcs |-> 0]
    /\ seen = {}
    /\ eq = [c \in Ceqs |-> <<>>]
    /\ eqRead = [c \in Ceqs |-> 0]
    /\ irq = [c \in Ceqs |-> FALSE]
    /\ asleep = [j \in Jfcs |-> FALSE]

----------------------------------------------------------------------------
(* Predicates of the code *)

InFlight(j) == {i \in Cqes : cqe[i].jfc = j /\ cqe[i].stage \in InFlightStages}

\* A CQ index as the device keeps it: the low 22 bits.
MutUnmasked(v) == v
Masked(v) == v % Wrap

\* Reserved CQ entries as the device sees them: a 22-bit subtraction.
Used(j) == Masked(jfc[j].producer - jfc[j].consumer)

\* The pipelined engine takes a ring position when it issues the CQE write.
MutReserve(p) == p
Reserve(p) == p + 1

\* The ownership bit of the CQE at a ring position flips on every lap.
Owner(pos) == (pos \div Depth) % 2 = 0

MutPublicationBusy(j) == j \in entry /\ waiting[j] # <<>>
PublicationBusy(j) == j \in entry /\ (InFlight(j) # {} \/ waiting[j] # <<>>)
TimerPending(j) == jfc[j].live /\ jfc[j].pend > 0 /\ jfc[j].deadline # "none"

JfcPublicationBusy(j) ==
    \/ TimerPending(j)
    \/ active.stage # "idle" /\ active.jfc = j
    \/ \E k \in DOMAIN events : events[k].jfc = j
    \/ PublicationBusy(j)

CeqBusy(c) ==
    \/ \E j \in Jfcs : /\ jfc[j].live /\ CeqOf[j] = c
                       /\ PublicationBusy(j) \/ TimerPending(j)
    \/ active.stage # "idle" /\ active.ceq = c
    \/ \E k \in DOMAIN events : events[k].ceq = c

\* WriteCqe refuses new work for a JFC or a CEQ that is being destroyed.
Draining(j) ==
    \/ csq = [op |-> "destroyJfc", id |-> j]
    \/ jfc[j].live /\ csq = [op |-> "destroyCeq", id |-> CeqOf[j]]

FrameFor(op, i) == [op |-> op, id |-> i]
Push(frames, rest) == frames \o rest
\* PumpCompletionWork: when it is already running only the kick is left.
MutCallPump(rest) == rest
CallPump(rest) ==
    IF \E k \in DOMAIN rest : rest[k].op = "pump" THEN rest
    ELSE Push(<<FrameFor("pump", 0)>>, rest)

Idle == stack = <<>>
Running(op) == stack # <<>> /\ Head(stack).op = op
Rest == Tail(stack)
Top == Head(stack)

----------------------------------------------------------------------------
(* Submission: WriteCqe *)

\* The SQ and RQ engines submit from a device event of their own or from the
\* callback of an earlier completion.
WriteCqe(j) ==
    /\ Idle \/ Running("caller")
    /\ submitted < MaxCqe
    /\ jfc[j].live \/ StrayCqes
    /\ submitted' = submitted + 1
    /\ IF Draining(j)
       THEN /\ cqe' = [cqe EXCEPT ![submitted + 1].jfc = j,
                                  ![submitted + 1].stage = "failed"]
            /\ UNCHANGED <<waiting, entry, stack, kick>>
       ELSE /\ cqe' = [cqe EXCEPT ![submitted + 1].jfc = j,
                                  ![submitted + 1].stage = "waiting"]
            /\ waiting' = [waiting EXCEPT ![j] = Append(@, submitted + 1)]
            /\ entry' = entry \cup {j}
            /\ stack' = CallPump(stack)
            /\ kick' = TRUE
    /\ UNCHANGED <<jfc, slots, last, notify, command, phase, pass, pivot,
                   served, faults, guest>>

\* The caller's callback returns.
CallerReturns ==
    /\ Running("caller")
    /\ stack' = Rest
    /\ UNCHANGED <<engine, notify, command, pump, faults, guest>>

\* released(): the publication no longer counts as in flight.
Release ==
    /\ Running("release")
    /\ cqe' = [cqe EXCEPT ![Top.id].stage =
                   IF @ = "okcb" THEN "ok" ELSE "failed"]
    /\ stack' = CallPump(Rest)
    /\ kick' = TRUE
    /\ UNCHANGED <<jfc, submitted, waiting, entry, slots, last, notify,
                   command, phase, pass, pivot, served, faults, guest>>

ReleaseCompletionEventSlot ==
    /\ Running("slot")
    /\ slots' = slots - 1
    /\ stack' = CallPump(Rest)
    /\ kick' = TRUE
    /\ UNCHANGED <<jfc, cqe, submitted, waiting, entry, last, notify,
                   command, phase, pass, pivot, served, faults, guest>>

----------------------------------------------------------------------------
(* PumpCompletionWork and ProcessJfcPublications *)

PumpLoop ==
    /\ Running("pump") /\ phase = "off"
    /\ IF kick
       THEN /\ kick' = FALSE
            /\ phase' = "timers"
            /\ UNCHANGED stack
       ELSE /\ stack' = Rest
            /\ UNCHANGED <<kick, phase>>
    /\ UNCHANGED <<engine, notify, command, pass, pivot, served, faults, guest>>

Expired(j) == jfc[j].live /\ jfc[j].pend > 0 /\ jfc[j].deadline = "expired"
MutNotifies(j) == ~OneShot
Notifies(j) == OneShot => jfc[j].armed

\* An expired moderation timer takes a slot and emits its event before any
\* further CQ work; an unarmed one-shot JFC returns the slot at once.
PumpTimer(j) ==
    /\ Running("pump") /\ phase = "timers"
    /\ Expired(j) /\ slots < Slots
    /\ jfc' = [jfc EXCEPT ![j].pend = 0, ![j].deadline = "none",
                          ![j].armed = FALSE]
    /\ IF Notifies(j)
       THEN /\ slots' = slots + 1
            /\ events' = Append(events, [jfc |-> j, ceq |-> CeqOf[j]])
            /\ stack' = Push(<<FrameFor("dispatch", 0)>>, stack)
            /\ UNCHANGED kick
       ELSE /\ kick' = TRUE
            /\ UNCHANGED <<slots, events, stack>>
    /\ UNCHANGED <<cqe, submitted, waiting, entry, last, active, ceq, command,
                   phase, pass, pivot, served, faults, guest>>

PumpIds ==
    /\ Running("pump") /\ phase = "timers"
    /\ ~\E j \in Jfcs : Expired(j) /\ slots < Slots
    /\ phase' = "ids"
    /\ pass' = entry
    /\ pivot' = last
    /\ served' = FALSE
    /\ UNCHANGED <<engine, notify, command, stack, kick, faults, guest>>

\* Ids are served in increasing order, rotated to start after the last one
\* admitted.
Current(j) ==
    /\ j \in pass
    /\ \A k \in pass : IF j > pivot THEN k > pivot => j <= k
                       ELSE k <= pivot /\ j <= k

CanAdmit(j) ==
    /\ waiting[j] # <<>>
    /\ slots < Slots
    /\ IF Pipelined
       THEN jfc[j].live /\ (Used(j) >= Depth => InFlight(j) = {})
       ELSE InFlight(j) = {} /\ ~served

Finish(i, rest) ==
    Push(<<FrameFor("caller", i), FrameFor("release", i), FrameFor("slot", 0)>>,
         rest)

\* WriteCqeNow up to its first DMA: fail at once when the JFC is gone, reserve
\* the next CQ entry when the cached consumer index leaves room for it, read
\* the consumer index otherwise.
Admit(j) ==
    /\ Running("pump") /\ phase = "ids"
    /\ Current(j) /\ CanAdmit(j)
    /\ LET i == Head(waiting[j]) IN
       /\ waiting' = [waiting EXCEPT ![j] = Tail(@)]
       /\ slots' = slots + 1
       /\ last' = j
       /\ served' = TRUE
       /\ IF ~jfc[j].live
          THEN /\ cqe' = [cqe EXCEPT ![i].stage = "failcb",
                                     ![i].gen = jfc[j].gen]
               /\ stack' = Finish(i, stack)
               /\ UNCHANGED jfc
          ELSE IF Pipelined /\ Used(j) < Depth
          THEN /\ cqe' = [cqe EXCEPT ![i].stage = "dma",
                                     ![i].gen = jfc[j].gen,
                                     ![i].pos = jfc[j].producer]
               /\ jfc' = [jfc EXCEPT ![j].producer = Reserve(@)]
               /\ UNCHANGED stack
          ELSE /\ cqe' = [cqe EXCEPT ![i].stage = "read",
                                     ![i].gen = jfc[j].gen,
                                     ![i].ci = ci[j]]
               /\ UNCHANGED <<jfc, stack>>
    /\ UNCHANGED <<submitted, entry, notify, command, kick, phase, pass, pivot,
                   faults, guest>>

\* An erased publication queue may release a deferred destroy: a publication
\* without an event has no CEQ callback to do so.
MutErased(rest) == rest
Erased(rest) == Push(<<FrameFor("maybe", 0)>>, rest)

\* The publication loop of one JFC ends; an empty queue is erased.
LeaveJfc(j) ==
    /\ Running("pump") /\ phase = "ids"
    /\ Current(j) /\ ~CanAdmit(j)
    /\ pass' = pass \ {j}
    /\ served' = FALSE
    /\ IF InFlight(j) = {} /\ waiting[j] = <<>>
       THEN /\ entry' = entry \ {j}
            /\ stack' = Erased(stack)
       ELSE UNCHANGED <<entry, stack>>
    /\ UNCHANGED <<jfc, cqe, submitted, waiting, slots, last, notify, command,
                   kick, phase, pivot, faults, guest>>

EndPass ==
    /\ Running("pump") /\ phase = "ids" /\ pass = {}
    /\ phase' = "off"
    /\ UNCHANGED <<engine, notify, command, stack, kick, pass, pivot, served,
                   faults, guest>>

----------------------------------------------------------------------------
(* CQ DMA callbacks *)

Fault == faults < MaxFaults /\ faults' = faults + 1

\* The consumer index arrives: any value the record doorbell held since the
\* read was issued.
ConsumerRead(i) ==
    /\ Idle /\ cqe[i].stage = "read"
    /\ LET j == cqe[i].jfc IN
       \E v \in cqe[i].ci..ci[j] :
          IF jfc[j].live /\ Masked(jfc[j].producer - v) < Depth
          THEN /\ cqe' = [cqe EXCEPT ![i].stage = "dma",
                                     ![i].pos = jfc[j].producer]
               /\ jfc' = [jfc EXCEPT ![j].consumer = Masked(v),
                                     ![j].producer = IF Pipelined
                                                     THEN Reserve(@) ELSE @]
               /\ UNCHANGED stack
          ELSE /\ cqe' = [cqe EXCEPT ![i].stage = "failcb"]
               /\ stack' = Finish(i, stack)
               /\ UNCHANGED jfc
    /\ UNCHANGED <<submitted, waiting, entry, slots, last, notify, command,
                   pump, faults, guest>>

\* The CQE write becomes visible in guest memory, before its acknowledgement.
CqeLands(i) ==
    /\ Idle /\ cqe[i].stage = "dma"
    /\ cqe' = [cqe EXCEPT ![i].stage = "landed"]
    /\ mem' = [mem EXCEPT ![cqe[i].jfc][cqe[i].pos % Depth] =
                   [owner |-> Owner(cqe[i].pos), id |-> i]]
    /\ UNCHANGED <<jfc, submitted, waiting, entry, slots, last, notify,
                   command, stack, pump, faults, ci, seen, eq, eqRead, irq,
                   asleep>>

\* Acknowledged CQE: count it, and either moderate or notify.  The event is
\* registered before the caller's callback runs.
CqeWritten(i) ==
    /\ Idle /\ cqe[i].stage = "landed" /\ jfc[cqe[i].jfc].live
    /\ cqe' = [cqe EXCEPT ![i].stage = "okcb"]
    /\ LET j == cqe[i].jfc
           committed == [jfc[j] EXCEPT !.producer = IF Pipelined THEN @ ELSE @ + 1]
       IN IF jfc[j].pend + 1 < jfc[j].count
          THEN /\ jfc' = [jfc EXCEPT ![j] =
                    [committed EXCEPT !.pend = @ + 1,
                        !.deadline = IF @ = "none" /\ jfc[j].period
                                     THEN "armed" ELSE @]]
               /\ stack' = Finish(i, stack)
               /\ UNCHANGED events
          ELSE /\ jfc' = [jfc EXCEPT ![j] =
                    [committed EXCEPT !.pend = 0, !.deadline = "none",
                                      !.armed = FALSE]]
               /\ IF Notifies(j)
                  THEN /\ events' = Append(events, [jfc |-> j, ceq |-> CeqOf[j]])
                       /\ stack' = Push(<<FrameFor("dispatch", 0),
                                          FrameFor("caller", i),
                                          FrameFor("release", i)>>, stack)
                  ELSE /\ stack' = Push(<<FrameFor("slot", 0),
                                          FrameFor("caller", i),
                                          FrameFor("release", i)>>, stack)
                       /\ UNCHANGED events
    /\ UNCHANGED <<submitted, waiting, entry, slots, last, active, ceq,
                   command, pump, faults, guest>>

\* The consumer read or the CQE write fails: translation refused it or the host
\* rejected the address, so nothing was written.
CqeDmaFails(i) ==
    /\ Idle /\ cqe[i].stage \in {"read", "dma"}
    /\ Fault
    /\ cqe' = [cqe EXCEPT ![i].stage = "failcb"]
    /\ stack' = Finish(i, stack)
    /\ UNCHANGED <<jfc, submitted, waiting, entry, slots, last, notify,
                   command, pump, guest>>

\* AdvanceTime reaches the moderation deadline of a JFC.
AdvanceTime(j) ==
    /\ Idle /\ TimerPending(j) /\ jfc[j].deadline = "armed"
    /\ jfc' = [jfc EXCEPT ![j].deadline = "expired"]
    /\ stack' = CallPump(stack)
    /\ kick' = TRUE
    /\ UNCHANGED <<cqe, submitted, waiting, entry, slots, last, notify,
                   command, phase, pass, pivot, served, faults, guest>>

----------------------------------------------------------------------------
(* CEQ entries and interrupts *)

\* A full or faulted CEQ holds its events back, and only its own.
MutEligible(e) == ~ceq[e.ceq].live \/ ~ceq[e.ceq].fault
Eligible(e) ==
    \/ ~ceq[e.ceq].live
    \/ ~ceq[e.ceq].fault /\ ceq[e.ceq].producer - ceq[e.ceq].consumer < CeqDepth

FirstEligible(k) == /\ k \in DOMAIN events /\ Eligible(events[k])
                    /\ \A m \in 1..(k - 1) : ~Eligible(events[m])
Nested == \E k \in DOMAIN Rest : Rest[k].op = "dispatch"

\* ProcessCompletionEvent returns at once while an event is active or its own
\* loop is running further down the stack.
DispatchReturns ==
    /\ Running("dispatch")
    /\ active.stage # "idle" \/ Nested
    /\ stack' = Rest
    /\ UNCHANGED <<engine, notify, command, pump, faults, guest>>

Dispatching == Running("dispatch") /\ active.stage = "idle" /\ ~Nested

\* No event has a CEQ with credits: the loop ends.
DispatchEnds ==
    /\ Dispatching
    /\ \A k \in DOMAIN events : ~Eligible(events[k])
    /\ stack' = Push(<<FrameFor("maybe", 0)>>, Rest)
    /\ UNCHANGED <<engine, notify, command, pump, faults, guest>>

\* The first eligible event becomes active and its CEQE write is issued.
StartEvent(k) ==
    /\ Dispatching /\ FirstEligible(k) /\ ceq[events[k].ceq].live
    /\ active' = [stage |-> "dma", jfc |-> events[k].jfc, ceq |-> events[k].ceq]
    /\ events' = RemoveAt(events, k)
    /\ stack' = Push(<<FrameFor("maybe", 0)>>, Rest)
    /\ UNCHANGED <<engine, ceq, command, pump, faults, guest>>

\* An event whose CEQ does not exist fails and returns its slot.
DropEvent(k) ==
    /\ Dispatching /\ FirstEligible(k) /\ ~ceq[events[k].ceq].live
    /\ events' = RemoveAt(events, k)
    /\ stack' = Push(<<FrameFor("slot", 0)>>, stack)
    /\ UNCHANGED <<engine, active, ceq, command, pump, faults, guest>>

CeqeLands ==
    /\ Idle /\ active.stage = "dma"
    /\ active' = [active EXCEPT !.stage = "landed"]
    /\ LET c == active.ceq IN
       eq' = [eq EXCEPT ![c] = SubSeq(@, 1, ceq[c].producer) \o <<active.jfc>>]
    /\ UNCHANGED <<engine, events, ceq, command, stack, pump, faults, mem, ci,
                   seen, eqRead, irq, asleep>>

CeqeWritten ==
    /\ Idle /\ active.stage = "landed"
    /\ active' = [active EXCEPT !.stage = "msi"]
    /\ LET q == ceq[active.ceq] IN
       ceq' = [ceq EXCEPT ![active.ceq] =
                  [q EXCEPT !.producer = q.producer + 1,
                            !.consumer = IF q.consumerPending
                                         THEN q.pendingConsumer ELSE q.consumer,
                            !.consumerPending = FALSE]]
    /\ UNCHANGED <<engine, events, command, stack, pump, faults, guest>>

\* busy = false; completion (returns the slot); destroys; next event.
EventEnds ==
    /\ active' = Inactive
    /\ stack' = Push(<<FrameFor("slot", 0), FrameFor("maybe", 0),
                       FrameFor("dispatch", 0)>>, stack)

CeqeFails ==
    /\ Idle /\ active.stage \in {"dma", "landed"}
    /\ Fault
    /\ ceq' = [ceq EXCEPT ![active.ceq] =
                  [@ EXCEPT !.fault = @ \/ ceq[active.ceq].consumerPending,
                            !.consumerPending = FALSE]]
    /\ EventEnds
    /\ UNCHANGED <<engine, events, command, pump, guest>>

InterruptDelivered ==
    /\ Idle /\ active.stage = "msi"
    /\ irq' = [irq EXCEPT ![active.ceq] = TRUE]
    /\ EventEnds
    /\ UNCHANGED <<engine, events, ceq, command, pump, faults, mem, ci, seen,
                   eq, eqRead, asleep>>

InterruptFails ==
    /\ Idle /\ active.stage = "msi"
    /\ Fault
    /\ EventEnds
    /\ UNCHANGED <<engine, events, ceq, command, pump, guest>>

\* The consumer doorbell carries any index the guest has reached since the
\* last one it reported.
HandleCeqConsumerMmio(c) ==
    /\ Idle /\ ceq[c].live /\ ~ceq[c].fault
    /\ LET q == ceq[c]
           reserved == active.stage \in {"dma", "landed"} /\ active.ceq = c
           from == IF q.consumerPending THEN q.pendingConsumer ELSE q.consumer
       IN \E next \in (from + 1)..eqRead[c] :
            /\ next - q.consumer <= q.producer - q.consumer
                                      + (IF reserved THEN 1 ELSE 0)
            /\ ceq' = [ceq EXCEPT ![c] =
                 IF next > q.producer
                 THEN [@ EXCEPT !.pendingConsumer = next,
                                !.consumerPending = TRUE]
                 ELSE [@ EXCEPT !.consumer = next]]
    /\ stack' = Push(<<FrameFor("dispatch", 0)>>, stack)
    /\ UNCHANGED <<engine, events, active, command, pump, faults, guest>>

----------------------------------------------------------------------------
(* Mailbox commands that own the command queue (HandleUbaseMailbox) *)

Mailbox == (Idle \/ Running("caller")) /\ csq = NoCmd

\* The context of a new JFC is read by DMA; the guest has zeroed its ring.
CreateJfc(j) ==
    /\ Mailbox /\ ~jfc[j].live /\ jfc[j].gen < MaxGen
    /\ csq' = [op |-> "createJfc", id |-> j]
    /\ mem' = [mem EXCEPT ![j] = EmptyRing]
    /\ ci' = [ci EXCEPT ![j] = 0]
    /\ asleep' = [asleep EXCEPT ![j] = FALSE]
    /\ UNCHANGED <<engine, notify, modifies, queries, queryCi, stack, pump,
                   faults, seen, eq, eqRead, irq>>

ApplyCreateJfc(j) ==
    /\ Idle /\ csq = [op |-> "createJfc", id |-> j]
    /\ csq' = NoCmd
    /\ \E count \in Counts, period \in Periods :
          jfc' = [jfc EXCEPT ![j] = FreshJfc(jfc[j].gen + 1, count, period)]
    /\ UNCHANGED <<cqe, submitted, waiting, entry, slots, last, notify,
                   modifies, queries, queryCi, stack, pump, faults, guest>>

ModifyJfc(j) ==
    /\ Mailbox /\ jfc[j].live /\ modifies < MaxModify
    /\ modifies' = modifies + 1
    /\ \E count \in Counts, period \in Periods :
          jfc' = [jfc EXCEPT ![j].count = count, ![j].period = period]
    /\ UNCHANGED <<cqe, submitted, waiting, entry, slots, last, notify, csq,
                   queries, queryCi, stack, pump, faults, guest>>

\* QueryJfcContext refreshes the cached consumer index by a DMA read.
QueryJfc(j) ==
    /\ Mailbox /\ jfc[j].live /\ queries < MaxQuery
    /\ queries' = queries + 1
    /\ csq' = [op |-> "queryJfc", id |-> j]
    /\ queryCi' = ci[j]
    /\ UNCHANGED <<engine, notify, modifies, stack, pump, faults, guest>>

QueryJfcRead(j) ==
    /\ Idle /\ csq = [op |-> "queryJfc", id |-> j]
    /\ csq' = NoCmd
    /\ \E v \in queryCi..ci[j] : jfc' = [jfc EXCEPT ![j].consumer = Masked(v)]
    /\ UNCHANGED <<cqe, submitted, waiting, entry, slots, last, notify,
                   modifies, queries, queryCi, stack, pump, faults, guest>>

\* A busy JFC keeps the command queue until its last publication, timer and
\* event have drained.
DestroyJfc(j) ==
    /\ Mailbox /\ jfc[j].live
    /\ IF JfcPublicationBusy(j)
       THEN csq' = [op |-> "destroyJfc", id |-> j] /\ UNCHANGED jfc
       ELSE jfc' = [jfc EXCEPT ![j] = DeadJfc(@.gen)] /\ UNCHANGED csq
    /\ UNCHANGED <<cqe, submitted, waiting, entry, slots, last, notify,
                   modifies, queries, queryCi, stack, pump, faults, guest>>

CreateCeq(c) ==
    /\ Mailbox /\ ~ceq[c].live /\ ~CeqBusy(c)
    /\ csq' = [op |-> "createCeq", id |-> c]
    /\ eq' = [eq EXCEPT ![c] = <<>>]
    /\ eqRead' = [eqRead EXCEPT ![c] = 0]
    /\ irq' = [irq EXCEPT ![c] = FALSE]
    /\ UNCHANGED <<engine, notify, modifies, queries, queryCi, stack, pump,
                   faults, mem, ci, seen, asleep>>

ApplyCreateCeq(c) ==
    /\ Idle /\ csq = [op |-> "createCeq", id |-> c]
    /\ csq' = NoCmd
    /\ ceq' = [ceq EXCEPT ![c] = FreshCeq]
    /\ UNCHANGED <<engine, events, active, modifies, queries, queryCi, stack,
                   pump, faults, guest>>

DestroyCeq(c) ==
    /\ Mailbox /\ ceq[c].live
    /\ IF CeqBusy(c)
       THEN csq' = [op |-> "destroyCeq", id |-> c] /\ UNCHANGED ceq
       ELSE ceq' = [ceq EXCEPT ![c] = DeadCeq] /\ UNCHANGED csq
    /\ asleep' = [j \in Jfcs |-> asleep[j] /\ CeqOf[j] # c]
    /\ UNCHANGED <<engine, events, active, modifies, queries, queryCi, stack,
                   pump, faults, mem, ci, seen, eq, eqRead, irq>>

\* MaybeCompleteJfcDestroy and MaybeCompleteEqDestroy; the command queue has
\* one owner, so at most one of them has a destroy to complete.
CompleteJfcDestroy(j) ==
    /\ Running("maybe")
    /\ csq = [op |-> "destroyJfc", id |-> j] /\ ~JfcPublicationBusy(j)
    /\ jfc' = [jfc EXCEPT ![j] = DeadJfc(@.gen)]
    /\ csq' = NoCmd
    /\ stack' = Rest
    /\ UNCHANGED <<cqe, submitted, waiting, entry, slots, last, notify,
                   modifies, queries, queryCi, pump, faults, guest>>

CompleteEqDestroy(c) ==
    /\ Running("maybe")
    /\ csq = [op |-> "destroyCeq", id |-> c] /\ ~CeqBusy(c)
    /\ ceq' = [ceq EXCEPT ![c] = DeadCeq]
    /\ csq' = NoCmd
    /\ stack' = Rest
    /\ UNCHANGED <<engine, events, active, modifies, queries, queryCi, pump,
                   faults, guest>>

NoDestroyReady ==
    /\ Running("maybe")
    /\ ~\E j \in Jfcs : csq = [op |-> "destroyJfc", id |-> j] /\ ~JfcPublicationBusy(j)
    /\ ~\E c \in Ceqs : csq = [op |-> "destroyCeq", id |-> c] /\ ~CeqBusy(c)
    /\ stack' = Rest
    /\ UNCHANGED <<engine, notify, command, pump, faults, guest>>

----------------------------------------------------------------------------
(* The guest *)

\* The entry at the consumer index belongs to the guest when its owner bit
\* has the parity of the lap.
Visible(j) == mem[j][ci[j] % Depth].owner = ((ci[j] \div Depth) % 2 = 0)

PollCq(j) ==
    /\ Idle /\ jfc[j].live /\ ~asleep[j] /\ Visible(j)
    /\ seen' = seen \cup {mem[j][ci[j] % Depth].id}
    /\ ci' = [ci EXCEPT ![j] = @ + 1]
    /\ UNCHANGED <<engine, notify, command, stack, pump, faults, mem, eq,
                   eqRead, irq, asleep>>

\* The JFC arm doorbell (WriteMmio).
ArmJfc(j) ==
    /\ Idle /\ OneShot /\ jfc[j].live /\ ~jfc[j].armed
    /\ jfc' = [jfc EXCEPT ![j].armed = TRUE]
    /\ UNCHANGED <<cqe, submitted, waiting, entry, slots, last, notify,
                   command, stack, pump, faults, guest>>

\* The guest arms, finds the CQ empty and waits; it does not wait on a CEQ it
\* has not created or is tearing down.
Sleep(j) ==
    /\ Idle /\ jfc[j].live /\ (OneShot => jfc[j].armed) /\ ~asleep[j] /\ ~Visible(j)
    /\ ceq[CeqOf[j]].live /\ csq # [op |-> "destroyCeq", id |-> CeqOf[j]]
    /\ asleep' = [asleep EXCEPT ![j] = TRUE]
    /\ UNCHANGED <<engine, notify, command, stack, pump, faults, mem, ci, seen,
                   eq, eqRead, irq>>

\* The CEQ interrupt handler consumes entries until none is visible.
PollCeq(c) ==
    /\ Idle /\ irq[c]
    /\ IF eqRead[c] < Len(eq[c])
       THEN /\ eqRead' = [eqRead EXCEPT ![c] = @ + 1]
            /\ asleep' = [asleep EXCEPT ![eq[c][eqRead[c] + 1]] = FALSE]
            /\ UNCHANGED irq
       ELSE /\ irq' = [irq EXCEPT ![c] = FALSE]
            /\ UNCHANGED <<eqRead, asleep>>
    /\ UNCHANGED <<engine, notify, command, stack, pump, faults, mem, ci, seen,
                   eq>>

----------------------------------------------------------------------------
HandlerStep ==
    \/ CallerReturns \/ Release \/ ReleaseCompletionEventSlot
    \/ PumpLoop \/ PumpIds \/ EndPass
    \/ \E j \in Jfcs : PumpTimer(j) \/ Admit(j) \/ LeaveJfc(j)
    \/ DispatchReturns \/ DispatchEnds \/ NoDestroyReady
    \/ \E j \in Jfcs : CompleteJfcDestroy(j)
    \/ \E c \in Ceqs : CompleteEqDestroy(c)
    \/ \E k \in DOMAIN events : StartEvent(k) \/ DropEvent(k)

DeviceEvent ==
    \/ \E i \in Cqes : ConsumerRead(i) \/ CqeLands(i) \/ CqeWritten(i)
    \/ \E j \in Jfcs : AdvanceTime(j) \/ ApplyCreateJfc(j) \/ QueryJfcRead(j)
    \/ \E c \in Ceqs : ApplyCreateCeq(c)
    \/ CeqeLands \/ CeqeWritten \/ InterruptDelivered

Failure == (\E i \in Cqes : CqeDmaFails(i)) \/ CeqeFails \/ InterruptFails

GuestStep ==
    \/ \E j \in Jfcs : PollCq(j) \/ ArmJfc(j) \/ Sleep(j)
    \/ \E c \in Ceqs : PollCeq(c) \/ HandleCeqConsumerMmio(c)

Request ==
    \/ \E j \in Jfcs : \/ WriteCqe(j) \/ CreateJfc(j) \/ ModifyJfc(j)
                       \/ QueryJfc(j) \/ DestroyJfc(j)
    \/ \E c \in Ceqs : CreateCeq(c) \/ DestroyCeq(c)

Next == HandlerStep \/ DeviceEvent \/ Failure \/ GuestStep \/ Request

Spec == Init /\ [][Next]_vars

\* The device loop delivers every DMA acknowledgement, interrupt and deadline,
\* a handler runs to its end, and the guest's interrupt handler runs.
Fairness ==
    /\ WF_vars(HandlerStep)
    /\ \A i \in Cqes : WF_vars(ConsumerRead(i) \/ CqeLands(i) \/ CqeWritten(i))
    /\ \A j \in Jfcs : WF_vars(AdvanceTime(j)) /\ WF_vars(QueryJfcRead(j))
    /\ WF_vars(CeqeLands \/ CeqeWritten \/ InterruptDelivered)
    /\ \A c \in Ceqs : WF_vars(PollCeq(c)) /\ WF_vars(HandleCeqConsumerMmio(c))

FairSpec == Spec /\ Fairness

----------------------------------------------------------------------------
(* Properties *)

EngineType ==
    /\ jfc \in [Jfcs -> JfcRecord]
    /\ cqe \in [Cqes -> CqeRecord]
    /\ submitted \in 0..MaxCqe
    /\ waiting \in [Jfcs -> Seq(Cqes)]
    /\ entry \subseteq Jfcs
    /\ slots \in Int
    /\ last \in Jfcs \cup {-1}
NotifyType ==
    /\ events \in Seq(EventRecord)
    /\ active \in [stage : {"idle"}, jfc : {-1}, ceq : {-1}]
             \cup [stage : {"dma", "landed", "msi"}, jfc : Jfcs, ceq : Ceqs]
    /\ ceq \in [Ceqs -> CeqRecord]
CommandType ==
    /\ csq \in [op : CsqOps, id : Jfcs \cup Ceqs \cup {-1}]
    /\ modifies \in 0..MaxModify /\ queries \in 0..MaxQuery
    /\ queryCi \in Nat
ControlType ==
    /\ stack \in Seq(Frame)
    /\ kick \in BOOLEAN /\ served \in BOOLEAN
    /\ phase \in {"off", "timers", "ids"}
    /\ pass \subseteq Jfcs /\ pivot \in Jfcs \cup {-1}
    /\ faults \in 0..MaxFaults
GuestType ==
    /\ mem \in [Jfcs -> [0..(Depth - 1) -> [owner : BOOLEAN, id : 0..MaxCqe]]]
    /\ ci \in [Jfcs -> Nat]
    /\ seen \subseteq 0..MaxCqe
    /\ eq \in [Ceqs -> Seq(Jfcs)]
    /\ eqRead \in [Ceqs -> Nat]
    /\ irq \in [Ceqs -> BOOLEAN]
    /\ asleep \in [Jfcs -> BOOLEAN]

\* Every variable keeps its type: the contexts, queues and call frames of the
\* completion engine and the guest memory they are written to.
TypeOK == EngineType /\ NotifyType /\ CommandType /\ ControlType /\ GuestType

\* What the owner bit shows the guest at its consumer index is the CQE that
\* was published at that index of this ring, never one of an earlier lap, and
\* every CQE reported as written that the guest has passed has been polled.
GuestPollsPublishedCqe ==
    /\ \A j \in Jfcs : jfc[j].live /\ Visible(j) =>
         LET i == mem[j][ci[j] % Depth].id IN
         /\ i \in Cqes /\ cqe[i].jfc = j
         /\ cqe[i].gen = jfc[j].gen /\ cqe[i].pos = ci[j]
    /\ \A i \in Cqes :
         LET j == cqe[i].jfc IN
         /\ cqe[i].stage \in {"okcb", "ok"}
         /\ jfc[j].live /\ cqe[i].gen = jfc[j].gen /\ cqe[i].pos < ci[j]
         => i \in seen

Placed(i) == cqe[i].stage \in {"dma", "landed", "okcb", "ok"}

\* CQEs of one JFC take ring positions in the order WriteCqe accepted them,
\* whatever the order of the DMA callbacks.
CqesInSubmissionOrder ==
    \A i, k \in Cqes :
        /\ i < k /\ cqe[i].jfc = cqe[k].jfc
        /\ cqe[i].gen = cqe[k].gen /\ Placed(i) /\ Placed(k)
        => cqe[i].pos < cqe[k].pos

\* A CEQ entry is written only where the guest has consumed the previous lap,
\* and no consumer credit is accepted that the guest did not report.
CeqNeverOverrun ==
    /\ active.stage \in {"dma", "landed"} =>
          ceq[active.ceq].producer - eqRead[active.ceq] < CeqDepth
    /\ \A c \in Ceqs : ceq[c].live =>
          /\ ceq[c].consumer <= ceq[c].producer
          /\ ceq[c].consumer <= eqRead[c]

\* Notification still on its way to the guest.
EventUnderWay(j) ==
    \/ \E k \in DOMAIN events : events[k].jfc = j
    \/ active.stage # "idle" /\ active.jfc = j
    \/ \E c \in Ceqs : \E k \in DOMAIN eq[c] : k > eqRead[c] /\ eq[c][k] = j
\* The device still owes a notification of a CQE the guest has not polled.
EventOwed(j) ==
    \/ TimerPending(j)
    \/ \E i \in Cqes : cqe[i].jfc = j /\ cqe[i].stage = "landed"
    \/ jfc[j].pend > 0 /\ ~jfc[j].period

\* A guest that armed the JFC, found the CQ empty and went to sleep is woken
\* for a CQE that arrives later: the notification is on its way or owed.
NoMissedNotification ==
    \A j \in Jfcs :
        /\ faults = 0 /\ Idle /\ modifies = 0
        /\ jfc[j].live /\ ceq[CeqOf[j]].live /\ asleep[j] /\ Visible(j)
        => EventUnderWay(j) \/ EventOwed(j)

\* Every completion accepted for a live JFC is eventually reported to the SQ
\* or RQ engine that submitted it.
CompletionsReturn ==
    \A i \in Cqes :
        cqe[i].stage = "waiting" /\ jfc[cqe[i].jfc].live
            ~> cqe[i].stage \in {"ok", "failed"}

\* A deferred destroy eventually completes.
DestroyCompletes ==
    csq.op \in {"destroyJfc", "destroyCeq"} ~> csq.op \notin {"destroyJfc", "destroyCeq"}
=============================================================================
