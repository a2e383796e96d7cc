------------------------ MODULE JfcCompletion_proofs ------------------------
(***************************************************************************)
(* Proofs about the completion engine for any number of JFCs, CEQs, ring   *)
(* entries, slots and completions: types, CEQ credits, notifications of a  *)
(* sleeping guest, and what the guest finds in its CQ rings.               *)
(***************************************************************************)
EXTENDS JfcCompletion, TLAPS

\* Ring indices (producer % Wrap and the like) stay within the ring.
LEMMA ModRange ==
    ASSUME NEW a \in Int, NEW b \in Nat, b # 0
    PROVE  a % b \in 0..(b - 1)
  OBVIOUS

\* Pushing calls on the handler stack keeps it a sequence of frames.
LEMMA PushType ==
    ASSUME NEW f \in Seq(Frame), NEW g \in Seq(Frame)
    PROVE  Push(f, g) \in Seq(Frame)
  BY DEF Push

\* A call made by a handler is a frame.
LEMMA FrameType ==
    ASSUME NEW op \in FrameOps, NEW i \in 0..MaxCqe
    PROVE  FrameFor(op, i) \in Frame
  BY DEF FrameFor, Frame

\* PumpJfc is called from any handler.
LEMMA CallPumpType ==
    ASSUME NEW g \in Seq(Frame)
    PROVE  CallPump(g) \in Seq(Frame)
  <1>1. FrameFor("pump", 0) \in Frame
    BY FrameType, BoundAssumption DEF FrameOps
  <1>2. <<FrameFor("pump", 0)>> \in Seq(Frame)
    BY <1>1
  <1> QED BY <1>2, PushType DEF CallPump

\* The three continuations of a finished completion are frames.
LEMMA FinishType ==
    ASSUME NEW i \in Cqes, NEW g \in Seq(Frame)
    PROVE  Finish(i, g) \in Seq(Frame)
  <1>1. /\ FrameFor("caller", i) \in Frame
        /\ FrameFor("release", i) \in Frame
        /\ FrameFor("slot", 0) \in Frame
    BY FrameType, BoundAssumption DEF FrameOps, Cqes
  <1>2. <<FrameFor("caller", i), FrameFor("release", i), FrameFor("slot", 0)>>
           \in Seq(Frame)
    BY <1>1
  <1> QED BY <1>2, PushType DEF Finish

\* One call pushed by a handler.
LEMMA PushOne ==
    ASSUME NEW op \in FrameOps, NEW g \in Seq(Frame)
    PROVE  Push(<<FrameFor(op, 0)>>, g) \in Seq(Frame)
  <1>1. FrameFor(op, 0) \in Frame
    BY FrameType, BoundAssumption
  <1>2. <<FrameFor(op, 0)>> \in Seq(Frame)
    BY <1>1
  <1> QED BY <1>2, PushType

\* Three calls pushed by a handler, in order.
LEMMA PushThree ==
    ASSUME NEW o1 \in FrameOps, NEW o2 \in FrameOps, NEW o3 \in FrameOps,
           NEW i1 \in 0..MaxCqe, NEW i2 \in 0..MaxCqe, NEW i3 \in 0..MaxCqe,
           NEW g \in Seq(Frame)
    PROVE  Push(<<FrameFor(o1, i1), FrameFor(o2, i2), FrameFor(o3, i3)>>, g)
              \in Seq(Frame)
  <1>1. /\ FrameFor(o1, i1) \in Frame /\ FrameFor(o2, i2) \in Frame
        /\ FrameFor(o3, i3) \in Frame
    BY FrameType
  <1>2. <<FrameFor(o1, i1), FrameFor(o2, i2), FrameFor(o3, i3)>> \in Seq(Frame)
    BY <1>1
  <1> QED BY <1>2, PushType

\* Returning from a handler pops its frame.
LEMMA RestType ==
    ASSUME stack \in Seq(Frame), stack # <<>>
    PROVE  Rest \in Seq(Frame)
  BY DEF Rest

\* A completion taken out of a queue leaves a queue.
LEMMA RemoveAtType ==
    ASSUME NEW S, NEW s \in Seq(S), NEW k \in DOMAIN s
    PROVE  RemoveAt(s, k) \in Seq(S)
  BY DEF RemoveAt

\* The state a JFC is created with has the type of a JFC.
LEMMA FreshJfcType ==
    ASSUME NEW gen \in 0..MaxGen, NEW count \in Nat, NEW period \in BOOLEAN
    PROVE  FreshJfc(gen, count, period) \in JfcRecord
  <1>1. 0 \in 0..(Wrap - 1)
    BY RingAssumption
  <1> QED BY <1>1 DEF FreshJfc, JfcRecord

\* A destroyed JFC keeps its generation, and the type of a JFC.
LEMMA DeadJfcType ==
    ASSUME NEW gen \in 0..MaxGen
    PROVE  DeadJfc(gen) \in JfcRecord
  <1>1. FreshJfc(gen, 1, FALSE) \in JfcRecord
    BY FreshJfcType
  <1> QED BY <1>1 DEF DeadJfc, JfcRecord

\* Writing one entry of a table keeps the type of the table.
LEMMA UpdateType ==
    ASSUME NEW D, NEW S, NEW f \in [D -> S], NEW d \in D, NEW r \in S
    PROVE  [f EXCEPT ![d] = r] \in [D -> S]
  OBVIOUS

----------------------------------------------------------------------------
(* Inductive invariant *)

\* A create command was accepted for a queue that does not exist.
CommandInv ==
    /\ \A j \in Jfcs : csq = [op |-> "createJfc", id |-> j] =>
          ~jfc[j].live /\ jfc[j].gen < MaxGen
    /\ \A c \in Ceqs : csq = [op |-> "createCeq", id |-> c] => ~ceq[c].live

\* Credits of one CEQ: an event in flight has a free entry of its own, and a
\* consumer report is ahead of the producer only for that entry.
CeqInv ==
    /\ active.stage # "idle" => ceq[active.ceq].live
    /\ active.stage \in {"dma", "landed"} =>
          ceq[active.ceq].producer - ceq[active.ceq].consumer < CeqDepth
    /\ active.stage = "landed" =>
          Len(eq[active.ceq]) = ceq[active.ceq].producer + 1
    /\ \A c \in Ceqs : ceq[c].live =>
          /\ ceq[c].consumer <= ceq[c].producer
          /\ ceq[c].consumer <= eqRead[c]
          /\ ceq[c].producer <= Len(eq[c])
    /\ \A c \in Ceqs : ceq[c].consumerPending =>
          /\ active.stage \in {"dma", "landed"} /\ active.ceq = c
          /\ ceq[c].pendingConsumer = ceq[c].producer + 1
          /\ ceq[c].pendingConsumer <= eqRead[c]

\* The device starts with no queues and an empty stack.
LEMMA TypeInit == Init => TypeOK
  <1>1. /\ Depth \in Nat /\ Depth # 0 /\ Wrap \in Nat /\ Wrap # 0
        /\ MaxCqe \in Nat /\ MaxGen \in Nat /\ MaxFaults \in Nat
        /\ MaxModify \in Nat /\ MaxQuery \in Nat
    BY RingAssumption, BoundAssumption
  <1>2. (CHOOSE j \in Jfcs : TRUE) \in Jfcs
    BY JfcAssumption
  <1> SUFFICES ASSUME Init PROVE TypeOK
    OBVIOUS
  <1>3. DeadJfc(0) \in JfcRecord
    BY <1>1, DeadJfcType
  <1>4. EngineType
    BY <1>1, <1>2, <1>3 DEF Init, EngineType, CqeRecord, Stages, Cqes
  <1>5. NotifyType
    <2>1. DeadCeq \in CeqRecord
      BY DEF DeadCeq, FreshCeq, CeqRecord
    <2>2. events = <<>> /\ active = Inactive /\ ceq = [c \in Ceqs |-> DeadCeq]
      BY DEF Init
    <2>3. events \in Seq(EventRecord)
      BY <2>2
    <2> QED BY <2>1, <2>2, <2>3 DEF NotifyType, Inactive
  <1>6. CommandType
    BY <1>1 DEF Init, CommandType, NoCmd, CsqOps
  <1>8. ControlType
    <2>1. stack \in Seq(Frame)
      BY DEF Init
    <2>2. /\ kick \in BOOLEAN /\ served \in BOOLEAN
          /\ phase \in {"off", "timers", "ids"} /\ pass \subseteq Jfcs
      BY DEF Init
    <2>3. pivot \in Jfcs \cup {-1} /\ faults \in 0..MaxFaults
      BY <1>1 DEF Init
    <2> QED BY <2>1, <2>2, <2>3 DEF ControlType
  <1>7. GuestType
    BY <1>1 DEF Init, GuestType, EmptyRing
  <1> QED BY <1>4, <1>5, <1>6, <1>7, <1>8 DEF TypeOK

\* Every handler, event, failure and guest access keeps the types; the consumer
\* indices of the CEQs need the credit invariant for it.
LEMMA TypeStep ==
    ASSUME TypeOK, CommandInv, CeqInv, Next
    PROVE  TypeOK'
  <1>b. /\ Depth \in Nat /\ Depth # 0 /\ Wrap \in Nat /\ Wrap # 0
        /\ MaxCqe \in Nat /\ MaxGen \in Nat /\ MaxFaults \in Nat
        /\ MaxModify \in Nat /\ MaxQuery \in Nat
        /\ CeqOf \in [Jfcs -> Ceqs]
    BY RingAssumption, BoundAssumption, CeqAssumption
  <1>a. EngineType /\ NotifyType /\ CommandType /\ ControlType /\ GuestType
    BY DEF TypeOK
  <1>1. CASE CallerReturns
    <2>1. EngineType' /\ NotifyType' /\ CommandType' /\ GuestType'
      BY <1>a, <1>1 DEF CallerReturns, engine, notify, command, pump, guest, EngineType, NotifyType, CommandType, GuestType
    <2>2. ControlType'
      BY <1>a, <1>b, <1>1, RestType DEF CallerReturns, engine, notify, command, pump, guest, ControlType, Running
    <2> QED BY <2>1, <2>2 DEF TypeOK
  <1>2. CASE Release
    <2>1. NotifyType' /\ CommandType' /\ GuestType'
      BY <1>a, <1>2 DEF Release, engine, notify, command, pump, guest, NotifyType, CommandType, GuestType
    <2>2. EngineType'
      BY <1>a, <1>b, <1>2, ZenonT(30) DEF Release, engine, notify, command, pump, guest, EngineType, Running, Top, CqeRecord, Stages
    <2>3. ControlType'
      BY <1>a, <1>b, <1>2, CallPumpType, RestType DEF Release, engine, notify, command, pump, guest, ControlType, Running
    <2> QED BY <2>1, <2>2, <2>3 DEF TypeOK
  <1>3. CASE ReleaseCompletionEventSlot
    <2>1. NotifyType' /\ CommandType' /\ GuestType'
      BY <1>a, <1>3 DEF ReleaseCompletionEventSlot, engine, notify, command, pump, guest, NotifyType, CommandType, GuestType
    <2>2. EngineType'
      BY <1>a, <1>b, <1>3 DEF ReleaseCompletionEventSlot, engine, notify, command, pump, guest, EngineType
    <2>3. ControlType'
      BY <1>a, <1>b, <1>3, CallPumpType, RestType DEF ReleaseCompletionEventSlot, engine, notify, command, pump, guest, ControlType, Running
    <2> QED BY <2>1, <2>2, <2>3 DEF TypeOK
  <1>4. CASE PumpLoop
    <2>1. EngineType' /\ NotifyType' /\ CommandType' /\ GuestType'
      BY <1>a, <1>4 DEF PumpLoop, engine, notify, command, pump, guest, EngineType, NotifyType, CommandType, GuestType
    <2>2. ControlType'
      BY <1>a, <1>b, <1>4, RestType DEF PumpLoop, engine, notify, command, pump, guest, ControlType, Running
    <2> QED BY <2>1, <2>2 DEF TypeOK
  <1>5. CASE PumpIds
    <2>1. EngineType' /\ NotifyType' /\ CommandType' /\ GuestType'
      BY <1>a, <1>5 DEF PumpIds, engine, notify, command, pump, guest, EngineType, NotifyType, CommandType, GuestType
    <2>2. ControlType'
      BY <1>a, <1>b, <1>5 DEF PumpIds, engine, notify, command, pump, guest, ControlType, EngineType
    <2> QED BY <2>1, <2>2 DEF TypeOK
  <1>6. CASE EndPass
    <2>1. EngineType' /\ NotifyType' /\ CommandType' /\ GuestType'
      BY <1>a, <1>6 DEF EndPass, engine, notify, command, pump, guest, EngineType, NotifyType, CommandType, GuestType
    <2>2. ControlType'
      BY <1>a, <1>b, <1>6 DEF EndPass, engine, notify, command, pump, guest, ControlType
    <2> QED BY <2>1, <2>2 DEF TypeOK
  <1>7. ASSUME NEW j \in Jfcs, PumpTimer(j) PROVE TypeOK'
    <2>1. CommandType' /\ GuestType'
      BY <1>a, <1>7 DEF PumpTimer, engine, notify, command, pump, guest, CommandType, GuestType
    <2>2. EngineType'
      <3>1. [jfc[j] EXCEPT !.pend = 0, !.deadline = "none", !.armed = FALSE] \in JfcRecord
        BY <1>a DEF EngineType, JfcRecord
      <3>2. jfc' = [jfc EXCEPT ![j] = [jfc[j] EXCEPT !.pend = 0, !.deadline = "none",
                                                     !.armed = FALSE]]
        BY <1>7, <1>a DEF PumpTimer, EngineType
      <3>3. jfc' \in [Jfcs -> JfcRecord]
        BY <3>1, <3>2, <1>a, UpdateType DEF EngineType
      <3>4. slots' \in Int
        BY <1>7, <1>a DEF PumpTimer, EngineType
      <3> QED BY <3>3, <3>4, <1>a, <1>7 DEF PumpTimer, EngineType
    <2>3. NotifyType'
      <3>1. [jfc |-> j, ceq |-> CeqOf[j]] \in EventRecord
        BY <1>b DEF EventRecord
      <3>2. events' = events \/ events' = Append(events, [jfc |-> j, ceq |-> CeqOf[j]])
        BY <1>7 DEF PumpTimer
      <3>3. events' \in Seq(EventRecord)
        BY <3>1, <3>2, <1>a DEF NotifyType
      <3> QED BY <3>3, <1>a, <1>7 DEF PumpTimer, NotifyType
    <2>4. ControlType'
      BY <1>a, <1>b, <1>7, PushOne DEF PumpTimer, engine, notify, command, pump, guest, ControlType, FrameOps
    <2> QED BY <2>1, <2>2, <2>3, <2>4 DEF TypeOK
  <1>8. ASSUME NEW j \in Jfcs, Admit(j) PROVE TypeOK'
    <2>1. NotifyType' /\ CommandType' /\ GuestType'
      BY <1>a, <1>8 DEF Admit, engine, notify, command, pump, guest, NotifyType, CommandType, GuestType
    <2>2. EngineType'
      <3> DEFINE i == Head(waiting[j])
      <3>1. waiting[j] \in Seq(Cqes) /\ waiting[j] # <<>>
        BY <1>8, <1>a DEF Admit, CanAdmit, EngineType
      <3>2. i \in Cqes /\ Tail(waiting[j]) \in Seq(Cqes)
        BY <3>1
      <3>3. waiting' \in [Jfcs -> Seq(Cqes)]
        BY <3>2, <1>a, <1>8 DEF Admit, EngineType
      <3>4. /\ jfc[j] \in JfcRecord /\ cqe[i] \in CqeRecord /\ ci[j] \in Nat
            /\ jfc[j].producer \in Nat /\ jfc[j].gen \in 0..MaxGen
        BY <3>2, <1>a DEF EngineType, GuestType, JfcRecord
      <3>5. cqe' \in [Cqes -> CqeRecord] /\ jfc' \in [Jfcs -> JfcRecord]
        <4>1. CASE ~jfc[j].live
          <5>1. cqe' = [cqe EXCEPT ![i] = [cqe[i] EXCEPT !.stage = "failcb",
                                                         !.gen = jfc[j].gen]]
            BY <1>8, <4>1, <3>2, <1>a DEF Admit, EngineType
          <5>2. [cqe[i] EXCEPT !.stage = "failcb", !.gen = jfc[j].gen] \in CqeRecord
            BY <3>4 DEF CqeRecord, Stages, InFlightStages
          <5>3. jfc' = jfc
            BY <1>8, <4>1 DEF Admit
          <5> QED BY <5>1, <5>2, <5>3, <3>2, <1>a, UpdateType DEF EngineType
        <4>2. CASE jfc[j].live /\ Pipelined /\ Used(j) < Depth
          <5>1. cqe' = [cqe EXCEPT ![i] = [cqe[i] EXCEPT !.stage = "dma",
                                 !.gen = jfc[j].gen, !.pos = jfc[j].producer]]
            BY <1>8, <4>2, <3>2, <1>a DEF Admit, EngineType
          <5>2. [cqe[i] EXCEPT !.stage = "dma", !.gen = jfc[j].gen,
                               !.pos = jfc[j].producer] \in CqeRecord
            BY <3>4 DEF CqeRecord, Stages, InFlightStages, InDma
          <5>3. jfc' = [jfc EXCEPT ![j] = [jfc[j] EXCEPT !.producer = @ + 1]]
            BY <1>8, <4>2, <1>a DEF Admit, EngineType, Reserve
          <5>4. [jfc[j] EXCEPT !.producer = @ + 1] \in JfcRecord
            BY <3>4 DEF JfcRecord
          <5> QED BY <5>1, <5>2, <5>3, <5>4, <3>2, <1>a, UpdateType DEF EngineType
        <4>3. CASE jfc[j].live /\ ~(Pipelined /\ Used(j) < Depth)
          <5>1. cqe' = [cqe EXCEPT ![i] = [cqe[i] EXCEPT !.stage = "read",
                                 !.gen = jfc[j].gen, !.ci = ci[j]]]
            BY <1>8, <4>3, <3>2, <1>a DEF Admit, EngineType
          <5>2. [cqe[i] EXCEPT !.stage = "read", !.gen = jfc[j].gen,
                               !.ci = ci[j]] \in CqeRecord
            BY <3>4 DEF CqeRecord, Stages, InFlightStages, InDma
          <5>3. jfc' = jfc
            BY <1>8, <4>3 DEF Admit
          <5> QED BY <5>1, <5>2, <5>3, <3>2, <1>a, UpdateType DEF EngineType
        <4> QED BY <4>1, <4>2, <4>3
      <3> QED BY <3>3, <3>5, <1>a, <1>8 DEF Admit, EngineType
    <2>3. ControlType'
      BY <1>a, <1>b, <1>8, FinishType, SMTT(30) DEF Admit, engine, notify, command, pump, guest, ControlType, EngineType, CanAdmit
    <2> QED BY <2>1, <2>2, <2>3 DEF TypeOK
  <1>9. ASSUME NEW j \in Jfcs, LeaveJfc(j) PROVE TypeOK'
    <2>1. NotifyType' /\ CommandType' /\ GuestType'
      BY <1>a, <1>9 DEF LeaveJfc, engine, notify, command, pump, guest, NotifyType, CommandType, GuestType
    <2>2. EngineType'
      BY <1>a, <1>b, <1>9 DEF LeaveJfc, engine, notify, command, pump, guest, EngineType
    <2>3. ControlType'
      BY <1>a, <1>b, <1>9, PushOne DEF LeaveJfc, engine, notify, command, pump, guest, ControlType, Erased, FrameOps
    <2> QED BY <2>1, <2>2, <2>3 DEF TypeOK
  <1>10. CASE DispatchReturns
    <2>1. EngineType' /\ NotifyType' /\ CommandType' /\ GuestType'
      BY <1>a, <1>10 DEF DispatchReturns, engine, notify, command, pump, guest, EngineType, NotifyType, CommandType, GuestType
    <2>2. ControlType'
      BY <1>a, <1>b, <1>10, RestType DEF DispatchReturns, engine, notify, command, pump, guest, ControlType, Running
    <2> QED BY <2>1, <2>2 DEF TypeOK
  <1>11. CASE DispatchEnds
    <2>1. EngineType' /\ NotifyType' /\ CommandType' /\ GuestType'
      BY <1>a, <1>11 DEF DispatchEnds, engine, notify, command, pump, guest, EngineType, NotifyType, CommandType, GuestType
    <2>2. ControlType'
      BY <1>a, <1>b, <1>11, PushOne, RestType DEF DispatchEnds, engine, notify, command, pump, guest, ControlType, Dispatching, FrameOps, Running
    <2> QED BY <2>1, <2>2 DEF TypeOK
  <1>12. CASE NoDestroyReady
    <2>1. EngineType' /\ NotifyType' /\ CommandType' /\ GuestType'
      BY <1>a, <1>12 DEF NoDestroyReady, engine, notify, command, pump, guest, EngineType, NotifyType, CommandType, GuestType
    <2>2. ControlType'
      BY <1>a, <1>b, <1>12, RestType DEF NoDestroyReady, engine, notify, command, pump, guest, ControlType, Running
    <2> QED BY <2>1, <2>2 DEF TypeOK
  <1>13. ASSUME NEW j \in Jfcs, CompleteJfcDestroy(j) PROVE TypeOK'
    <2>1. NotifyType' /\ GuestType'
      BY <1>a, <1>13 DEF CompleteJfcDestroy, engine, notify, command, pump, guest, NotifyType, GuestType
    <2>2. EngineType'
      <3>1. DeadJfc(jfc[j].gen) \in JfcRecord
        BY <1>a, DeadJfcType DEF EngineType, JfcRecord
      <3>2. jfc' = [jfc EXCEPT ![j] = DeadJfc(jfc[j].gen)] \/ jfc' = jfc
        BY <1>13 DEF CompleteJfcDestroy
      <3>3. jfc' \in [Jfcs -> JfcRecord]
        BY <3>1, <3>2, <1>a, UpdateType DEF EngineType
      <3> QED BY <3>3, <1>a, <1>13 DEF CompleteJfcDestroy, EngineType
    <2>3. CommandType'
      BY <1>a, <1>b, <1>13 DEF CompleteJfcDestroy, engine, notify, command, pump, guest, CommandType, NoCmd, CsqOps
    <2>4. ControlType'
      BY <1>a, <1>b, <1>13, RestType DEF CompleteJfcDestroy, engine, notify, command, pump, guest, ControlType, Running
    <2> QED BY <2>1, <2>2, <2>3, <2>4 DEF TypeOK
  <1>14. ASSUME NEW c \in Ceqs, CompleteEqDestroy(c) PROVE TypeOK'
    <2>1. EngineType' /\ GuestType'
      BY <1>a, <1>14 DEF CompleteEqDestroy, engine, notify, command, pump, guest, EngineType, GuestType
    <2>2. NotifyType'
      BY <1>a, <1>b, <1>14 DEF CompleteEqDestroy, engine, notify, command, pump, guest, NotifyType, DeadCeq, FreshCeq, CeqRecord
    <2>3. CommandType'
      BY <1>a, <1>b, <1>14 DEF CompleteEqDestroy, engine, notify, command, pump, guest, CommandType, NoCmd, CsqOps
    <2>4. ControlType'
      BY <1>a, <1>b, <1>14, RestType DEF CompleteEqDestroy, engine, notify, command, pump, guest, ControlType, Running
    <2> QED BY <2>1, <2>2, <2>3, <2>4 DEF TypeOK
  <1>15. ASSUME NEW k \in DOMAIN events, StartEvent(k) PROVE TypeOK'
    <2>1. EngineType' /\ CommandType' /\ GuestType'
      BY <1>a, <1>15 DEF StartEvent, engine, notify, command, pump, guest, EngineType, CommandType, GuestType
    <2>2. NotifyType'
      <3>1. events' \in Seq(EventRecord)
        BY <1>15, <1>a, RemoveAtType DEF StartEvent, NotifyType
      <3>2. events[k] \in EventRecord
        BY <1>a DEF NotifyType
      <3> QED BY <3>1, <3>2, <1>a, <1>15 DEF StartEvent, NotifyType, EventRecord
    <2>3. ControlType'
      BY <1>a, <1>b, <1>15, PushOne, RestType DEF StartEvent, engine, notify, command, pump, guest, ControlType, Dispatching, FrameOps, Running
    <2> QED BY <2>1, <2>2, <2>3 DEF TypeOK
  <1>16. ASSUME NEW k \in DOMAIN events, DropEvent(k) PROVE TypeOK'
    <2>1. EngineType' /\ CommandType' /\ GuestType'
      BY <1>a, <1>16 DEF DropEvent, engine, notify, command, pump, guest, EngineType, CommandType, GuestType
    <2>2. NotifyType'
      <3>1. events' \in Seq(EventRecord)
        BY <1>16, <1>a, RemoveAtType DEF DropEvent, NotifyType
      <3> QED BY <3>1, <1>a, <1>16 DEF DropEvent, NotifyType
    <2>3. ControlType'
      BY <1>a, <1>b, <1>16, PushOne DEF DropEvent, engine, notify, command, pump, guest, ControlType, FrameOps
    <2> QED BY <2>1, <2>2, <2>3 DEF TypeOK
  <1>17. ASSUME NEW i \in Cqes, ConsumerRead(i) PROVE TypeOK'
    <2>1. NotifyType' /\ CommandType' /\ GuestType'
      BY <1>a, <1>17 DEF ConsumerRead, engine, notify, command, pump, guest, NotifyType, CommandType, GuestType
    <2>2. EngineType'
      <3> DEFINE j == cqe[i].jfc
                 p == IF Pipelined THEN jfc[j].producer + 1 ELSE jfc[j].producer
      <3>1. /\ cqe[i] \in CqeRecord /\ j \in Jfcs /\ jfc[j] \in JfcRecord
            /\ cqe[i].ci \in Nat /\ ci[j] \in Nat /\ jfc[j].producer \in Nat
        BY <1>a DEF EngineType, GuestType, CqeRecord, JfcRecord
      <3>2. PICK v \in cqe[i].ci..ci[j] :
               IF jfc[j].live /\ Masked(jfc[j].producer - v) < Depth
               THEN /\ cqe' = [cqe EXCEPT ![i] = [cqe[i] EXCEPT !.stage = "dma",
                                                     !.pos = jfc[j].producer]]
                    /\ jfc' = [jfc EXCEPT ![j] = [jfc[j] EXCEPT !.consumer = Masked(v),
                                                                  !.producer = p]]
               ELSE /\ cqe' = [cqe EXCEPT ![i] = [cqe[i] EXCEPT !.stage = "failcb"]]
                    /\ jfc' = jfc
        BY <1>17, <3>1, <1>a, ZenonT(30) DEF ConsumerRead, EngineType, Reserve
      <3>3. Masked(v) \in 0..(Wrap - 1)
        <4>1. v \in Int
          BY <3>1
        <4> QED BY <4>1, <1>b, ModRange DEF Masked
      <3>4. [cqe[i] EXCEPT !.stage = "failcb"] \in CqeRecord
        BY <3>1 DEF CqeRecord, Stages, InFlightStages
      <3>5. [cqe[i] EXCEPT !.stage = "dma", !.pos = jfc[j].producer] \in CqeRecord
        BY <3>1 DEF CqeRecord, Stages, InFlightStages, InDma
      <3>6. [jfc[j] EXCEPT !.consumer = Masked(v), !.producer = p] \in JfcRecord
        <4>1. p \in Nat
          BY <3>1
        <4> HIDE DEF p
        <4> QED BY <4>1, <3>1, <3>3 DEF JfcRecord
      <3>7. cqe' \in [Cqes -> CqeRecord] /\ jfc' \in [Jfcs -> JfcRecord]
        <4> HIDE DEF p
        <4>1. CASE jfc[j].live /\ Masked(jfc[j].producer - v) < Depth
          <5>1. /\ cqe' = [cqe EXCEPT ![i] = [cqe[i] EXCEPT !.stage = "dma",
                                                  !.pos = jfc[j].producer]]
                /\ jfc' = [jfc EXCEPT ![j] = [jfc[j] EXCEPT !.consumer = Masked(v),
                                                             !.producer = p]]
            BY <3>2, <4>1
          <5> QED BY <5>1, <3>1, <3>5, <3>6, <1>a, UpdateType DEF EngineType
        <4>2. CASE ~(jfc[j].live /\ Masked(jfc[j].producer - v) < Depth)
          <5>1. /\ cqe' = [cqe EXCEPT ![i] = [cqe[i] EXCEPT !.stage = "failcb"]]
                /\ jfc' = jfc
            BY <3>2, <4>2
          <5> QED BY <5>1, <3>4, <1>a, UpdateType DEF EngineType
        <4> QED BY <4>1, <4>2
      <3> QED BY <3>7, <1>a, <1>17 DEF ConsumerRead, EngineType
    <2>3. ControlType'
      BY <1>a, <1>b, <1>17, FinishType DEF ConsumerRead, engine, notify, command, pump, guest, ControlType
    <2> QED BY <2>1, <2>2, <2>3 DEF TypeOK
  <1>18. ASSUME NEW i \in Cqes, CqeLands(i) PROVE TypeOK'
    <2>1. NotifyType' /\ CommandType' /\ ControlType'
      BY <1>a, <1>18 DEF CqeLands, engine, notify, command, pump, guest, NotifyType, CommandType, ControlType
    <2>2. EngineType'
      BY <1>a, <1>b, <1>18, ZenonT(30) DEF CqeLands, engine, notify, command, pump, guest, EngineType, CqeRecord, Stages, InFlightStages, InDma
    <2>3. GuestType'
      <3>1. cqe[i].jfc \in Jfcs /\ cqe[i].pos \in Nat
        BY <1>a DEF EngineType, CqeRecord
      <3>2. cqe[i].pos % Depth \in 0..(Depth - 1)
        BY <3>1, <1>b, ModRange
      <3>3. [owner |-> Owner(cqe[i].pos), id |-> i] \in [owner : BOOLEAN, id : 0..MaxCqe]
        BY <1>b DEF Owner, Cqes
      <3>4. mem' \in [Jfcs -> [0..(Depth - 1) -> [owner : BOOLEAN, id : 0..MaxCqe]]]
        BY <3>1, <3>2, <3>3, <1>a, <1>18 DEF CqeLands, GuestType
      <3> QED BY <3>4, <1>a, <1>18 DEF CqeLands, GuestType
    <2> QED BY <2>1, <2>2, <2>3 DEF TypeOK
  <1>19. ASSUME NEW i \in Cqes, CqeWritten(i) PROVE TypeOK'
    <2>1. CommandType' /\ GuestType'
      BY <1>a, <1>19 DEF CqeWritten, engine, notify, command, pump, guest, CommandType, GuestType
    <2>2. EngineType'
      <3> DEFINE j == cqe[i].jfc
                 p == IF Pipelined THEN jfc[j].producer ELSE jfc[j].producer + 1
                 d == IF jfc[j].deadline = "none" /\ jfc[j].period
                      THEN "armed" ELSE jfc[j].deadline
      <3>1. /\ cqe[i] \in CqeRecord /\ j \in Jfcs /\ jfc[j] \in JfcRecord
            /\ jfc[j].producer \in Nat
        BY <1>a DEF EngineType, CqeRecord, JfcRecord
      <3>2. \/ jfc' = [jfc EXCEPT ![j] = [jfc[j] EXCEPT !.producer = p, !.pend = @ + 1,
                                                        !.deadline = d]]
            \/ jfc' = [jfc EXCEPT ![j] = [jfc[j] EXCEPT !.producer = p, !.pend = 0,
                                          !.deadline = "none", !.armed = FALSE]]
        BY <1>19, <3>1, <1>a DEF CqeWritten, EngineType, JfcRecord
      <3>3. p \in Nat /\ d \in {"none", "armed", "expired"}
        BY <3>1 DEF JfcRecord
      <3> HIDE DEF p, d
      <3>4. [jfc[j] EXCEPT !.producer = p, !.pend = @ + 1, !.deadline = d] \in JfcRecord
        <4>1. jfc[j].pend + 1 \in Nat
          BY <3>1 DEF JfcRecord
        <4> QED BY <4>1, <3>1, <3>3 DEF JfcRecord
      <3>5. [jfc[j] EXCEPT !.producer = p, !.pend = 0, !.deadline = "none",
                           !.armed = FALSE] \in JfcRecord
        BY <3>1, <3>3 DEF JfcRecord
      <3>6. jfc' \in [Jfcs -> JfcRecord]
        BY <3>1, <3>2, <3>4, <3>5, <1>a, UpdateType DEF EngineType
      <3>7. [cqe[i] EXCEPT !.stage = "okcb"] \in CqeRecord
        BY <3>1 DEF CqeRecord, Stages, InFlightStages
      <3>8. cqe' = [cqe EXCEPT ![i] = [cqe[i] EXCEPT !.stage = "okcb"]]
        BY <1>19, <1>a DEF CqeWritten, EngineType
      <3>9. cqe' \in [Cqes -> CqeRecord]
        BY <3>7, <3>8, <1>a, UpdateType DEF EngineType
      <3> QED BY <3>6, <3>9, <1>a, <1>19 DEF CqeWritten, EngineType
    <2>3. NotifyType'
      <3>1. cqe[i].jfc \in Jfcs
        BY <1>a DEF EngineType, CqeRecord
      <3>2. [jfc |-> cqe[i].jfc, ceq |-> CeqOf[cqe[i].jfc]] \in EventRecord
        BY <3>1, <1>b DEF EventRecord
      <3>3. events' = events
            \/ events' = Append(events, [jfc |-> cqe[i].jfc, ceq |-> CeqOf[cqe[i].jfc]])
        BY <1>19 DEF CqeWritten
      <3>4. events' \in Seq(EventRecord)
        BY <3>2, <3>3, <1>a DEF NotifyType
      <3> QED BY <3>4, <1>a, <1>19 DEF CqeWritten, NotifyType
    <2>4. ControlType'
      <3>1. \/ stack' = Finish(i, stack)
            \/ stack' = Push(<<FrameFor("dispatch", 0), FrameFor("caller", i),
                               FrameFor("release", i)>>, stack)
            \/ stack' = Push(<<FrameFor("slot", 0), FrameFor("caller", i),
                               FrameFor("release", i)>>, stack)
        BY <1>19 DEF CqeWritten
      <3>2. stack \in Seq(Frame) /\ 0 \in 0..MaxCqe /\ i \in 0..MaxCqe
            /\ {"dispatch", "caller", "release", "slot"} \subseteq FrameOps
        BY <1>a, <1>b DEF ControlType, Cqes, FrameOps
      <3>3. stack' \in Seq(Frame)
        BY <3>1, <3>2, FinishType, PushThree
      <3> QED BY <3>3, <1>a, <1>19 DEF CqeWritten, ControlType, pump
    <2> QED BY <2>1, <2>2, <2>3, <2>4 DEF TypeOK
  <1>20. ASSUME NEW j \in Jfcs, AdvanceTime(j) PROVE TypeOK'
    <2>1. NotifyType' /\ CommandType' /\ GuestType'
      BY <1>a, <1>20 DEF AdvanceTime, engine, notify, command, pump, guest, NotifyType, CommandType, GuestType
    <2>2. EngineType'
      BY <1>a, <1>b, <1>20, ZenonT(30) DEF AdvanceTime, engine, notify, command, pump, guest, EngineType, JfcRecord
    <2>3. ControlType'
      BY <1>a, <1>b, <1>20, CallPumpType DEF AdvanceTime, engine, notify, command, pump, guest, ControlType
    <2> QED BY <2>1, <2>2, <2>3 DEF TypeOK
  <1>21. ASSUME NEW j \in Jfcs, ApplyCreateJfc(j) PROVE TypeOK'
    <2>1. NotifyType' /\ ControlType' /\ GuestType'
      BY <1>a, <1>21 DEF ApplyCreateJfc, engine, notify, command, pump, guest, NotifyType, ControlType, GuestType
    <2>2. EngineType'
      <3>1. PICK count \in Counts, period \in Periods :
               jfc' = [jfc EXCEPT ![j] = FreshJfc(jfc[j].gen + 1, count, period)]
        BY <1>21 DEF ApplyCreateJfc
      <3>2. jfc[j].gen + 1 \in 0..MaxGen
        BY <1>21, <1>a, <1>b, CommandInv, SMTT(30) DEF ApplyCreateJfc, CommandInv, EngineType, JfcRecord
      <3>3. count \in Nat /\ period \in BOOLEAN
        BY ModeAssumption
      <3>4. FreshJfc(jfc[j].gen + 1, count, period) \in JfcRecord
        BY <3>2, <3>3, FreshJfcType
      <3>5. jfc' \in [Jfcs -> JfcRecord]
        BY <3>1, <3>4, <1>a, UpdateType DEF EngineType
      <3> QED BY <3>5, <1>a, <1>21 DEF ApplyCreateJfc, EngineType
    <2>3. CommandType'
      BY <1>a, <1>b, <1>21 DEF ApplyCreateJfc, engine, notify, command, pump, guest, CommandType, NoCmd, CsqOps
    <2> QED BY <2>1, <2>2, <2>3 DEF TypeOK
  <1>22. ASSUME NEW j \in Jfcs, QueryJfcRead(j) PROVE TypeOK'
    <2>1. NotifyType' /\ ControlType' /\ GuestType'
      BY <1>a, <1>22 DEF QueryJfcRead, engine, notify, command, pump, guest, NotifyType, ControlType, GuestType
    <2>2. EngineType'
      <3>1. queryCi \in Nat /\ ci[j] \in Nat /\ jfc[j] \in JfcRecord
        BY <1>a DEF CommandType, GuestType, EngineType
      <3>2. PICK v \in queryCi..ci[j] :
               jfc' = [jfc EXCEPT ![j] = [jfc[j] EXCEPT !.consumer = Masked(v)]]
        BY <1>22, <1>a DEF QueryJfcRead, EngineType
      <3>3. Masked(v) \in 0..(Wrap - 1)
        <4>1. v \in Int
          BY <3>1
        <4> QED BY <4>1, <1>b, ModRange DEF Masked
      <3>4. [jfc[j] EXCEPT !.consumer = Masked(v)] \in JfcRecord
        BY <3>1, <3>3 DEF JfcRecord
      <3>5. jfc' \in [Jfcs -> JfcRecord]
        BY <3>2, <3>4, <1>a, UpdateType DEF EngineType
      <3> QED BY <3>5, <1>a, <1>22 DEF QueryJfcRead, EngineType
    <2>3. CommandType'
      BY <1>a, <1>b, <1>22 DEF QueryJfcRead, engine, notify, command, pump, guest, CommandType, NoCmd, CsqOps
    <2> QED BY <2>1, <2>2, <2>3 DEF TypeOK
  <1>23. ASSUME NEW c \in Ceqs, ApplyCreateCeq(c) PROVE TypeOK'
    <2>1. EngineType' /\ ControlType' /\ GuestType'
      BY <1>a, <1>23 DEF ApplyCreateCeq, engine, notify, command, pump, guest, EngineType, ControlType, GuestType
    <2>2. NotifyType'
      BY <1>a, <1>b, <1>23 DEF ApplyCreateCeq, engine, notify, command, pump, guest, NotifyType, FreshCeq, CeqRecord
    <2>3. CommandType'
      BY <1>a, <1>b, <1>23 DEF ApplyCreateCeq, engine, notify, command, pump, guest, CommandType, NoCmd, CsqOps
    <2> QED BY <2>1, <2>2, <2>3 DEF TypeOK
  <1>24. CASE CeqeLands
    <2>1. EngineType' /\ CommandType' /\ ControlType'
      BY <1>a, <1>24 DEF CeqeLands, engine, notify, command, pump, guest, EngineType, CommandType, ControlType
    <2>2. NotifyType'
      BY <1>a, <1>b, <1>24 DEF CeqeLands, engine, notify, command, pump, guest, NotifyType
    <2>3. GuestType'
      <3> DEFINE q == active.ceq
      <3>1. /\ q \in Ceqs /\ active.jfc \in Jfcs /\ eq[q] \in Seq(Jfcs)
            /\ ceq[q].producer \in Nat /\ ceq[q].live
        BY <1>24, <1>a, CeqInv DEF CeqeLands, NotifyType, GuestType, CeqRecord, CeqInv
      <3>2. ceq[q].producer <= Len(eq[q])
        BY <3>1, CeqInv DEF CeqInv
      <3>3. SubSeq(eq[q], 1, ceq[q].producer) \in Seq(Jfcs)
        BY <3>1, <3>2
      <3>4. <<active.jfc>> \in Seq(Jfcs)
        BY <3>1
      <3>5. SubSeq(eq[q], 1, ceq[q].producer) \o <<active.jfc>> \in Seq(Jfcs)
        BY <3>3, <3>4
      <3>6. eq' \in [Ceqs -> Seq(Jfcs)]
        BY <3>1, <3>5, <1>a, <1>24, UpdateType DEF CeqeLands, GuestType
      <3> QED BY <3>6, <1>a, <1>24 DEF CeqeLands, GuestType
    <2> QED BY <2>1, <2>2, <2>3 DEF TypeOK
  <1>25. CASE CeqeWritten
    <2>1. EngineType' /\ CommandType' /\ ControlType' /\ GuestType'
      BY <1>a, <1>25 DEF CeqeWritten, engine, notify, command, pump, guest, EngineType, CommandType, ControlType, GuestType
    <2>2. NotifyType'
      <3> DEFINE q == active.ceq
                 n == IF ceq[q].consumerPending THEN ceq[q].pendingConsumer
                                                ELSE ceq[q].consumer
      <3>1. q \in Ceqs /\ ceq[q] \in CeqRecord
        BY <1>25, <1>a DEF CeqeWritten, NotifyType
      <3>2. active' \in [stage : {"dma", "landed", "msi"}, jfc : Jfcs, ceq : Ceqs]
        BY <1>25, <1>a DEF CeqeWritten, NotifyType
      <3>3. ceq' = [ceq EXCEPT ![q] = [ceq[q] EXCEPT !.producer = ceq[q].producer + 1,
                                           !.consumer = n, !.consumerPending = FALSE]]
        BY <1>25, Zenon DEF CeqeWritten
      <3>4. n \in Nat /\ ceq[q].producer + 1 \in Nat
        BY <3>1 DEF CeqRecord
      <3> HIDE DEF n
      <3>5. [ceq[q] EXCEPT !.producer = ceq[q].producer + 1, !.consumer = n,
                           !.consumerPending = FALSE] \in CeqRecord
        BY <3>1, <3>4 DEF CeqRecord
      <3>6. ceq' \in [Ceqs -> CeqRecord]
        BY <3>1, <3>3, <3>5, <1>a, UpdateType DEF NotifyType
      <3> QED BY <3>2, <3>6, <1>a, <1>25 DEF CeqeWritten, NotifyType
    <2> QED BY <2>1, <2>2 DEF TypeOK
  <1>26. CASE InterruptDelivered
    <2>1. EngineType' /\ CommandType'
      BY <1>a, <1>26 DEF InterruptDelivered, engine, notify, command, pump, guest, EngineType, CommandType
    <2>2. NotifyType'
      BY <1>a, <1>b, <1>26 DEF InterruptDelivered, engine, notify, command, pump, guest, NotifyType, EventEnds, Inactive
    <2>3. ControlType'
      <3>1. stack \in Seq(Frame) /\ 0 \in 0..MaxCqe
            /\ {"slot", "maybe", "dispatch"} \subseteq FrameOps
        BY <1>a, <1>b DEF ControlType, FrameOps
      <3>2. stack' \in Seq(Frame)
        BY <3>1, <1>26, PushThree DEF InterruptDelivered, EventEnds
      <3>3. faults' = faults
        BY <1>26, <1>a, <1>b DEF InterruptDelivered, Fault, ControlType
      <3> QED BY <3>2, <3>3, <1>a, <1>26 DEF InterruptDelivered, ControlType, pump
    <2>4. GuestType'
      BY <1>a, <1>b, <1>26 DEF InterruptDelivered, engine, notify, command, pump, guest, GuestType, NotifyType
    <2> QED BY <2>1, <2>2, <2>3, <2>4 DEF TypeOK
  <1>27. ASSUME NEW i \in Cqes, CqeDmaFails(i) PROVE TypeOK'
    <2>1. NotifyType' /\ CommandType' /\ GuestType'
      BY <1>a, <1>27 DEF CqeDmaFails, engine, notify, command, pump, guest, NotifyType, CommandType, GuestType
    <2>2. EngineType'
      BY <1>a, <1>b, <1>27 DEF CqeDmaFails, engine, notify, command, pump, guest, EngineType, CqeRecord, Stages, InFlightStages
    <2>3. ControlType'
      BY <1>a, <1>b, <1>27, FinishType DEF CqeDmaFails, engine, notify, command, pump, guest, ControlType, Fault
    <2> QED BY <2>1, <2>2, <2>3 DEF TypeOK
  <1>28. CASE CeqeFails
    <2>1. EngineType' /\ CommandType' /\ GuestType'
      BY <1>a, <1>28 DEF CeqeFails, engine, notify, command, pump, guest, EngineType, CommandType, GuestType
    <2>2. NotifyType'
      BY <1>a, <1>b, <1>28, ZenonT(30) DEF CeqeFails, engine, notify, command, pump, guest, NotifyType, EventEnds, Inactive, CeqRecord
    <2>3. ControlType'
      <3>1. stack \in Seq(Frame) /\ 0 \in 0..MaxCqe
            /\ {"slot", "maybe", "dispatch"} \subseteq FrameOps
        BY <1>a, <1>b DEF ControlType, FrameOps
      <3>2. stack' \in Seq(Frame)
        BY <3>1, <1>28, PushThree DEF CeqeFails, EventEnds
      <3>3. faults' \in 0..MaxFaults
        BY <1>28, <1>a, <1>b DEF CeqeFails, Fault, ControlType
      <3> QED BY <3>2, <3>3, <1>a, <1>28 DEF CeqeFails, ControlType, pump
    <2> QED BY <2>1, <2>2, <2>3 DEF TypeOK
  <1>29. CASE InterruptFails
    <2>1. EngineType' /\ CommandType' /\ GuestType'
      BY <1>a, <1>29 DEF InterruptFails, engine, notify, command, pump, guest, EngineType, CommandType, GuestType
    <2>2. NotifyType'
      BY <1>a, <1>b, <1>29 DEF InterruptFails, engine, notify, command, pump, guest, NotifyType, EventEnds, Inactive
    <2>3. ControlType'
      <3>1. stack \in Seq(Frame) /\ 0 \in 0..MaxCqe
            /\ {"slot", "maybe", "dispatch"} \subseteq FrameOps
        BY <1>a, <1>b DEF ControlType, FrameOps
      <3>2. stack' \in Seq(Frame)
        BY <3>1, <1>29, PushThree DEF InterruptFails, EventEnds
      <3>3. faults' \in 0..MaxFaults
        BY <1>29, <1>a, <1>b DEF InterruptFails, Fault, ControlType
      <3> QED BY <3>2, <3>3, <1>a, <1>29 DEF InterruptFails, ControlType, pump
    <2> QED BY <2>1, <2>2, <2>3 DEF TypeOK
  <1>30. ASSUME NEW j \in Jfcs, PollCq(j) PROVE TypeOK'
    <2>1. EngineType' /\ NotifyType' /\ CommandType' /\ ControlType'
      BY <1>a, <1>30 DEF PollCq, engine, notify, command, pump, guest, EngineType, NotifyType, CommandType, ControlType
    <2>2. GuestType'
      <3>1. ci[j] \in Nat
        BY <1>a DEF GuestType
      <3>2. ci[j] % Depth \in 0..(Depth - 1)
        <4>1. ci[j] \in Int
          BY <3>1
        <4> QED BY <4>1, <1>b, ModRange
      <3>3. mem[j][ci[j] % Depth].id \in 0..MaxCqe
        BY <3>2, <1>a DEF GuestType
      <3>4. seen' \subseteq 0..MaxCqe
        BY <3>3, <1>a, <1>30 DEF PollCq, GuestType
      <3>5. ci' \in [Jfcs -> Nat]
        BY <3>1, <1>a, <1>30 DEF PollCq, GuestType
      <3> QED BY <3>4, <3>5, <1>a, <1>30 DEF PollCq, GuestType
    <2> QED BY <2>1, <2>2 DEF TypeOK
  <1>31. ASSUME NEW j \in Jfcs, ArmJfc(j) PROVE TypeOK'
    <2>1. NotifyType' /\ CommandType' /\ ControlType' /\ GuestType'
      BY <1>a, <1>31 DEF ArmJfc, engine, notify, command, pump, guest, NotifyType, CommandType, ControlType, GuestType
    <2>2. EngineType'
      BY <1>a, <1>b, <1>31, ZenonT(30) DEF ArmJfc, engine, notify, command, pump, guest, EngineType, JfcRecord
    <2> QED BY <2>1, <2>2 DEF TypeOK
  <1>32. ASSUME NEW j \in Jfcs, Sleep(j) PROVE TypeOK'
    <2>1. EngineType' /\ NotifyType' /\ CommandType' /\ ControlType'
      BY <1>a, <1>32 DEF Sleep, engine, notify, command, pump, guest, EngineType, NotifyType, CommandType, ControlType
    <2>2. GuestType'
      BY <1>a, <1>b, <1>32 DEF Sleep, engine, notify, command, pump, guest, GuestType
    <2> QED BY <2>1, <2>2 DEF TypeOK
  <1>33. ASSUME NEW c \in Ceqs, PollCeq(c) PROVE TypeOK'
    <2>1. EngineType' /\ NotifyType' /\ CommandType' /\ ControlType'
      BY <1>a, <1>33 DEF PollCeq, engine, notify, command, pump, guest, EngineType, NotifyType, CommandType, ControlType
    <2>2. GuestType'
      <3>0. eqRead[c] \in Nat
        BY <1>a DEF GuestType
      <3>1. eqRead' \in [Ceqs -> Nat]
        <4>1. eqRead' = [eqRead EXCEPT ![c] = eqRead[c] + 1] \/ eqRead' = eqRead
          BY <1>33 DEF PollCeq
        <4> QED BY <4>1, <3>0, <1>a, UpdateType DEF GuestType
      <3>3. irq' \in [Ceqs -> BOOLEAN]
        BY <1>a, <1>33, Zenon DEF PollCeq, GuestType
      <3>2. asleep' \in [Jfcs -> BOOLEAN]
        BY <1>a, <1>33, Zenon DEF PollCeq, GuestType
      <3> QED BY <3>1, <3>2, <3>3, <1>a, <1>33 DEF PollCeq, GuestType
    <2> QED BY <2>1, <2>2 DEF TypeOK
  <1>34. ASSUME NEW c \in Ceqs, HandleCeqConsumerMmio(c) PROVE TypeOK'
    <2>1. EngineType' /\ CommandType' /\ GuestType'
      BY <1>a, <1>34 DEF HandleCeqConsumerMmio, engine, notify, command, pump, guest, EngineType, CommandType, GuestType
    <2>2. NotifyType'
      <3>1. ceq[c] \in CeqRecord /\ ceq[c].consumer \in Nat /\ ceq[c].pendingConsumer \in Nat
            /\ eqRead[c] \in Nat
        BY <1>a DEF NotifyType, CeqRecord, GuestType
      <3> DEFINE from == IF ceq[c].consumerPending THEN ceq[c].pendingConsumer
                                                   ELSE ceq[c].consumer
      <3>2. PICK next \in (from + 1)..eqRead[c] :
               ceq' = [ceq EXCEPT ![c] = IF next > ceq[c].producer
                  THEN [ceq[c] EXCEPT !.pendingConsumer = next, !.consumerPending = TRUE]
                  ELSE [ceq[c] EXCEPT !.consumer = next]]
        BY <3>1, <1>34, <1>a DEF HandleCeqConsumerMmio, NotifyType
      <3>5. next \in Nat
        BY <3>1
      <3>3. /\ [ceq[c] EXCEPT !.pendingConsumer = next, !.consumerPending = TRUE] \in CeqRecord
            /\ [ceq[c] EXCEPT !.consumer = next] \in CeqRecord
        BY <3>1, <3>5 DEF CeqRecord
      <3>4. ceq' \in [Ceqs -> CeqRecord]
        BY <3>2, <3>3, <1>a, UpdateType DEF NotifyType
      <3> QED BY <3>4, <1>a, <1>34 DEF HandleCeqConsumerMmio, NotifyType
    <2>3. ControlType'
      BY <1>a, <1>b, <1>34, PushOne DEF HandleCeqConsumerMmio, engine, notify, command, pump, guest, ControlType, FrameOps
    <2> QED BY <2>1, <2>2, <2>3 DEF TypeOK
  <1>35. ASSUME NEW j \in Jfcs, WriteCqe(j) PROVE TypeOK'
    <2>1. NotifyType' /\ CommandType' /\ GuestType'
      BY <1>a, <1>35 DEF WriteCqe, engine, notify, command, pump, guest, NotifyType, CommandType, GuestType
    <2>2. EngineType'
      <3> DEFINE i == submitted + 1
      <3>1. i \in Cqes /\ submitted' \in 0..MaxCqe
        BY <1>a, <1>b, <1>35 DEF WriteCqe, EngineType, Cqes
      <3>2. cqe[i] \in CqeRecord
        BY <3>1, <1>a DEF EngineType
      <3>3. \/ cqe' = [cqe EXCEPT ![i] = [cqe[i] EXCEPT !.jfc = j, !.stage = "failed"]]
            \/ cqe' = [cqe EXCEPT ![i] = [cqe[i] EXCEPT !.jfc = j, !.stage = "waiting"]]
        BY <3>1, <1>35, <1>a DEF WriteCqe, EngineType
      <3>4. /\ [cqe[i] EXCEPT !.jfc = j, !.stage = "failed"] \in CqeRecord
            /\ [cqe[i] EXCEPT !.jfc = j, !.stage = "waiting"] \in CqeRecord
        BY <3>2 DEF CqeRecord, Stages
      <3>5. cqe' \in [Cqes -> CqeRecord]
        BY <3>1, <3>3, <3>4, <1>a, UpdateType DEF EngineType
      <3>6. Append(waiting[j], i) \in Seq(Cqes)
        BY <3>1, <1>a DEF EngineType
      <3>7. waiting' \in [Jfcs -> Seq(Cqes)] /\ entry' \subseteq Jfcs
        <4>1. \/ waiting' = waiting /\ entry' = entry
              \/ waiting' = [waiting EXCEPT ![j] = Append(waiting[j], i)]
                 /\ entry' = entry \cup {j}
          BY <1>35, <1>a DEF WriteCqe, EngineType
        <4> QED BY <4>1, <3>6, <1>a, UpdateType, ZenonT(30) DEF EngineType
      <3> QED BY <3>1, <3>5, <3>7, <1>a, <1>35 DEF WriteCqe, EngineType
    <2>3. ControlType'
      BY <1>a, <1>b, <1>35, CallPumpType DEF WriteCqe, engine, notify, command, pump, guest, ControlType
    <2> QED BY <2>1, <2>2, <2>3 DEF TypeOK
  <1>36. ASSUME NEW j \in Jfcs, CreateJfc(j) PROVE TypeOK'
    <2>1. EngineType' /\ NotifyType' /\ ControlType'
      BY <1>a, <1>36 DEF CreateJfc, engine, notify, command, pump, guest, EngineType, NotifyType, ControlType
    <2>2. CommandType'
      BY <1>a, <1>b, <1>36 DEF CreateJfc, engine, notify, command, pump, guest, CommandType, CsqOps
    <2>3. GuestType'
      BY <1>a, <1>b, <1>36, SMTT(30) DEF CreateJfc, engine, notify, command, pump, guest, GuestType, EmptyRing
    <2> QED BY <2>1, <2>2, <2>3 DEF TypeOK
  <1>37. ASSUME NEW j \in Jfcs, ModifyJfc(j) PROVE TypeOK'
    <2>1. NotifyType' /\ ControlType' /\ GuestType'
      BY <1>a, <1>37 DEF ModifyJfc, engine, notify, command, pump, guest, NotifyType, ControlType, GuestType
    <2>2. EngineType'
      <3>1. PICK count \in Counts, period \in Periods :
               jfc' = [jfc EXCEPT ![j] = [jfc[j] EXCEPT !.count = count, !.period = period]]
        BY <1>37, <1>a, ZenonT(30) DEF ModifyJfc, EngineType
      <3>2. count \in Nat /\ period \in BOOLEAN
        BY ModeAssumption
      <3>3. [jfc[j] EXCEPT !.count = count, !.period = period] \in JfcRecord
        BY <3>2, <1>a DEF EngineType, JfcRecord
      <3>4. jfc' \in [Jfcs -> JfcRecord]
        BY <3>1, <3>3, <1>a, UpdateType DEF EngineType
      <3> QED BY <3>4, <1>a, <1>37 DEF ModifyJfc, EngineType
    <2>3. CommandType'
      BY <1>a, <1>b, <1>37 DEF ModifyJfc, engine, notify, command, pump, guest, CommandType
    <2> QED BY <2>1, <2>2, <2>3 DEF TypeOK
  <1>38. ASSUME NEW j \in Jfcs, QueryJfc(j) PROVE TypeOK'
    <2>1. EngineType' /\ NotifyType' /\ ControlType' /\ GuestType'
      BY <1>a, <1>38 DEF QueryJfc, engine, notify, command, pump, guest, EngineType, NotifyType, ControlType, GuestType
    <2>2. CommandType'
      BY <1>a, <1>b, <1>38 DEF QueryJfc, engine, notify, command, pump, guest, CommandType, CsqOps, GuestType
    <2> QED BY <2>1, <2>2 DEF TypeOK
  <1>39. ASSUME NEW j \in Jfcs, DestroyJfc(j) PROVE TypeOK'
    <2>1. NotifyType' /\ ControlType' /\ GuestType'
      BY <1>a, <1>39 DEF DestroyJfc, engine, notify, command, pump, guest, NotifyType, ControlType, GuestType
    <2>2. EngineType'
      <3>1. DeadJfc(jfc[j].gen) \in JfcRecord
        BY <1>a, DeadJfcType DEF EngineType, JfcRecord
      <3>2. jfc' = [jfc EXCEPT ![j] = DeadJfc(jfc[j].gen)] \/ jfc' = jfc
        BY <1>39 DEF DestroyJfc
      <3>3. jfc' \in [Jfcs -> JfcRecord]
        BY <3>1, <3>2, <1>a, UpdateType DEF EngineType
      <3> QED BY <3>3, <1>a, <1>39 DEF DestroyJfc, EngineType
    <2>3. CommandType'
      BY <1>a, <1>b, <1>39 DEF DestroyJfc, engine, notify, command, pump, guest, CommandType, CsqOps
    <2> QED BY <2>1, <2>2, <2>3 DEF TypeOK
  <1>40. ASSUME NEW c \in Ceqs, CreateCeq(c) PROVE TypeOK'
    <2>1. EngineType' /\ NotifyType' /\ ControlType'
      BY <1>a, <1>40 DEF CreateCeq, engine, notify, command, pump, guest, EngineType, NotifyType, ControlType
    <2>2. CommandType'
      BY <1>a, <1>b, <1>40 DEF CreateCeq, engine, notify, command, pump, guest, CommandType, CsqOps
    <2>3. GuestType'
      BY <1>a, <1>b, <1>40 DEF CreateCeq, engine, notify, command, pump, guest, GuestType
    <2> QED BY <2>1, <2>2, <2>3 DEF TypeOK
  <1>41. ASSUME NEW c \in Ceqs, DestroyCeq(c) PROVE TypeOK'
    <2>1. EngineType' /\ ControlType'
      BY <1>a, <1>41 DEF DestroyCeq, engine, notify, command, pump, guest, EngineType, ControlType
    <2>2. NotifyType'
      <3>1. DeadCeq \in CeqRecord
        BY DEF DeadCeq, FreshCeq, CeqRecord
      <3>2. ceq' = [ceq EXCEPT ![c] = DeadCeq] \/ ceq' = ceq
        BY <1>41 DEF DestroyCeq
      <3>3. ceq' \in [Ceqs -> CeqRecord]
        BY <3>1, <3>2, <1>a, UpdateType DEF NotifyType
      <3> QED BY <3>3, <1>a, <1>41 DEF DestroyCeq, NotifyType
    <2>3. CommandType'
      BY <1>a, <1>b, <1>41 DEF DestroyCeq, engine, notify, command, pump, guest, CommandType, CsqOps
    <2>4. GuestType'
      BY <1>a, <1>b, <1>41 DEF DestroyCeq, engine, notify, command, pump, guest, GuestType
    <2> QED BY <2>1, <2>2, <2>3, <2>4 DEF TypeOK
  <1> QED
    BY <1>1, <1>2, <1>3, <1>4, <1>5, <1>6, <1>7, <1>8, <1>9, <1>10, <1>11, <1>12, <1>13, <1>14, <1>15, <1>16, <1>17, <1>18, <1>19, <1>20, <1>21, <1>22, <1>23, <1>24, <1>25, <1>26, <1>27, <1>28, <1>29, <1>30, <1>31, <1>32, <1>33, <1>34, <1>35, <1>36, <1>37, <1>38, <1>39, <1>40, <1>41
    DEF Next, HandlerStep, DeviceEvent, Failure, GuestStep, Request

IInv == TypeOK /\ CommandInv /\ CeqInv

\* No command and no event is in flight at the start.
LEMMA InitInv == Init => CommandInv /\ CeqInv
  BY DEF Init, CommandInv, CeqInv, NoCmd, Inactive, DeadCeq, FreshCeq

\* Create commands are checked when they are accepted and nothing invalidates
\* the check before they are applied.
LEMMA CommandStep ==
    ASSUME TypeOK, CommandInv, CeqInv, Next
    PROVE  CommandInv'
  <1>a. EngineType /\ NotifyType /\ CommandType
    BY DEF TypeOK
  <1>1. CASE CallerReturns
    BY <1>1 DEF CallerReturns, CommandInv, engine, notify, command
  <1>2. CASE Release
    BY <1>2 DEF Release, CommandInv, engine, notify, command
  <1>3. CASE ReleaseCompletionEventSlot
    BY <1>3 DEF ReleaseCompletionEventSlot, CommandInv, engine, notify, command
  <1>4. CASE PumpLoop
    BY <1>4 DEF PumpLoop, CommandInv, engine, notify, command
  <1>5. CASE PumpIds
    BY <1>5 DEF PumpIds, CommandInv, engine, notify, command
  <1>6. CASE EndPass
    BY <1>6 DEF EndPass, CommandInv, engine, notify, command
  <1>7. ASSUME NEW j \in Jfcs, PumpTimer(j) PROVE CommandInv'
    <2> DEFINE R == [jfc[j] EXCEPT !.pend = 0, !.deadline = "none", !.armed = FALSE]
    <2>1. jfc' = [jfc EXCEPT ![j] = R]
      BY <1>7, <1>a DEF PumpTimer, EngineType
    <2>2. R.live = jfc[j].live /\ R.gen = jfc[j].gen
      BY <1>a DEF EngineType, JfcRecord
    <2> HIDE DEF R
    <2>3. \A m \in Jfcs : jfc'[m].live = jfc[m].live /\ jfc'[m].gen = jfc[m].gen
      BY <2>1, <2>2, <1>a DEF EngineType
    <2>4. csq' = csq /\ ceq' = ceq
      BY <1>7 DEF PumpTimer, notify, command
    <2> QED BY <2>3, <2>4 DEF CommandInv
  <1>8. ASSUME NEW j \in Jfcs, Admit(j) PROVE CommandInv'
    <2> DEFINE R == [jfc[j] EXCEPT !.producer = @ + 1]
    <2>1. jfc' = jfc \/ jfc' = [jfc EXCEPT ![j] = R]
      BY <1>8, <1>a DEF Admit, EngineType, Reserve
    <2>2. R.live = jfc[j].live /\ R.gen = jfc[j].gen
      BY <1>a DEF EngineType, JfcRecord
    <2> HIDE DEF R
    <2>3. \A m \in Jfcs : jfc'[m].live = jfc[m].live /\ jfc'[m].gen = jfc[m].gen
      BY <2>1, <2>2, <1>a DEF EngineType
    <2>4. csq' = csq /\ ceq' = ceq
      BY <1>8 DEF Admit, notify, command
    <2> QED BY <2>3, <2>4 DEF CommandInv
  <1>9. ASSUME NEW j \in Jfcs, LeaveJfc(j) PROVE CommandInv'
    BY <1>9 DEF LeaveJfc, CommandInv, engine, notify, command
  <1>10. CASE DispatchReturns
    BY <1>10 DEF DispatchReturns, CommandInv, engine, notify, command
  <1>11. CASE DispatchEnds
    BY <1>11 DEF DispatchEnds, CommandInv, engine, notify, command
  <1>12. CASE NoDestroyReady
    BY <1>12 DEF NoDestroyReady, CommandInv, engine, notify, command
  <1>13. ASSUME NEW j \in Jfcs, CompleteJfcDestroy(j) PROVE CommandInv'
    BY <1>13 DEF CompleteJfcDestroy, CommandInv, NoCmd
  <1>14. ASSUME NEW c \in Ceqs, CompleteEqDestroy(c) PROVE CommandInv'
    BY <1>14 DEF CompleteEqDestroy, CommandInv, NoCmd
  <1>15. ASSUME NEW k \in DOMAIN events, StartEvent(k) PROVE CommandInv'
    BY <1>15 DEF StartEvent, CommandInv, engine, notify, command
  <1>16. ASSUME NEW k \in DOMAIN events, DropEvent(k) PROVE CommandInv'
    BY <1>16 DEF DropEvent, CommandInv, engine, notify, command
  <1>17. ASSUME NEW i \in Cqes, ConsumerRead(i) PROVE CommandInv'
    <2> DEFINE j == cqe[i].jfc
               p == IF Pipelined THEN jfc[j].producer + 1 ELSE jfc[j].producer
               R(v) == [jfc[j] EXCEPT !.consumer = Masked(v), !.producer = p]
    <2>0. j \in Jfcs /\ jfc[j] \in JfcRecord
      BY <1>a DEF EngineType, CqeRecord
    <2>1. PICK v : jfc' = jfc \/ jfc' = [jfc EXCEPT ![j] = R(v)]
      BY <1>17, <1>a, <2>0, ZenonT(30) DEF ConsumerRead, EngineType, Reserve
    <2> HIDE DEF p
    <2>2. R(v).live = jfc[j].live /\ R(v).gen = jfc[j].gen
      BY <2>0 DEF JfcRecord
    <2> HIDE DEF R
    <2>3. \A m \in Jfcs : jfc'[m].live = jfc[m].live /\ jfc'[m].gen = jfc[m].gen
      BY <2>0, <2>1, <2>2, <1>a DEF EngineType
    <2>4. csq' = csq /\ ceq' = ceq
      BY <1>17 DEF ConsumerRead, notify, command
    <2> QED BY <2>3, <2>4 DEF CommandInv
  <1>18. ASSUME NEW i \in Cqes, CqeLands(i) PROVE CommandInv'
    BY <1>18 DEF CqeLands, CommandInv, engine, notify, command
  <1>19. ASSUME NEW i \in Cqes, CqeWritten(i) PROVE CommandInv'
    <2> DEFINE j == cqe[i].jfc
               p == IF Pipelined THEN jfc[j].producer ELSE jfc[j].producer + 1
               d == IF jfc[j].deadline = "none" /\ jfc[j].period
                    THEN "armed" ELSE jfc[j].deadline
               R == [jfc[j] EXCEPT !.producer = p, !.pend = @ + 1, !.deadline = d]
               Q == [jfc[j] EXCEPT !.producer = p, !.pend = 0, !.deadline = "none",
                                   !.armed = FALSE]
    <2>0. j \in Jfcs /\ jfc[j] \in JfcRecord
      BY <1>a DEF EngineType, CqeRecord
    <2>1. jfc' = [jfc EXCEPT ![j] = R] \/ jfc' = [jfc EXCEPT ![j] = Q]
      BY <1>19, <1>a, <2>0 DEF CqeWritten, EngineType, JfcRecord
    <2> HIDE DEF p, d
    <2>2. R.live = jfc[j].live /\ R.gen = jfc[j].gen /\ Q.live = jfc[j].live /\ Q.gen = jfc[j].gen
      BY <2>0 DEF JfcRecord
    <2> HIDE DEF R, Q
    <2>3. \A m \in Jfcs : jfc'[m].live = jfc[m].live /\ jfc'[m].gen = jfc[m].gen
      BY <2>0, <2>1, <2>2, <1>a DEF EngineType
    <2>4. csq' = csq /\ ceq' = ceq
      BY <1>19 DEF CqeWritten, notify, command
    <2> QED BY <2>3, <2>4 DEF CommandInv
  <1>20. ASSUME NEW j \in Jfcs, AdvanceTime(j) PROVE CommandInv'
    <2> DEFINE R == [jfc[j] EXCEPT !.deadline = "expired"]
    <2>1. jfc' = [jfc EXCEPT ![j] = R]
      BY <1>20, <1>a DEF AdvanceTime, EngineType
    <2>2. R.live = jfc[j].live /\ R.gen = jfc[j].gen
      BY <1>a DEF EngineType, JfcRecord
    <2> HIDE DEF R
    <2>3. \A m \in Jfcs : jfc'[m].live = jfc[m].live /\ jfc'[m].gen = jfc[m].gen
      BY <2>1, <2>2, <1>a DEF EngineType
    <2>4. csq' = csq /\ ceq' = ceq
      BY <1>20 DEF AdvanceTime, notify, command
    <2> QED BY <2>3, <2>4 DEF CommandInv
  <1>21. ASSUME NEW j \in Jfcs, ApplyCreateJfc(j) PROVE CommandInv'
    BY <1>21 DEF ApplyCreateJfc, CommandInv, NoCmd
  <1>22. ASSUME NEW j \in Jfcs, QueryJfcRead(j) PROVE CommandInv'
    BY <1>22 DEF QueryJfcRead, CommandInv, NoCmd
  <1>23. ASSUME NEW c \in Ceqs, ApplyCreateCeq(c) PROVE CommandInv'
    BY <1>23 DEF ApplyCreateCeq, CommandInv, NoCmd
  <1>24. CASE CeqeLands
    BY <1>24 DEF CeqeLands, CommandInv, engine, notify, command
  <1>25. CASE CeqeWritten
    <2>1. \A c1 \in Ceqs : ceq'[c1].live = ceq[c1].live
      BY <1>25, <1>a DEF CeqeWritten, NotifyType, CeqRecord
    <2>2. csq' = csq /\ jfc' = jfc
      BY <1>25 DEF CeqeWritten, engine, command
    <2> QED BY <2>1, <2>2 DEF CommandInv
  <1>26. CASE InterruptDelivered
    BY <1>26 DEF InterruptDelivered, CommandInv, engine, notify, command
  <1>27. ASSUME NEW i \in Cqes, CqeDmaFails(i) PROVE CommandInv'
    BY <1>27 DEF CqeDmaFails, CommandInv, engine, notify, command
  <1>28. CASE CeqeFails
    <2>1. \A c1 \in Ceqs : ceq'[c1].live = ceq[c1].live
      BY <1>28, <1>a DEF CeqeFails, NotifyType, CeqRecord
    <2>2. csq' = csq /\ jfc' = jfc
      BY <1>28 DEF CeqeFails, engine, command
    <2> QED BY <2>1, <2>2 DEF CommandInv
  <1>29. CASE InterruptFails
    BY <1>29 DEF InterruptFails, CommandInv, engine, notify, command
  <1>30. ASSUME NEW j \in Jfcs, PollCq(j) PROVE CommandInv'
    BY <1>30 DEF PollCq, CommandInv, engine, notify, command
  <1>31. ASSUME NEW j \in Jfcs, ArmJfc(j) PROVE CommandInv'
    <2> DEFINE R == [jfc[j] EXCEPT !.armed = TRUE]
    <2>1. jfc' = [jfc EXCEPT ![j] = R]
      BY <1>31, <1>a DEF ArmJfc, EngineType
    <2>2. R.live = jfc[j].live /\ R.gen = jfc[j].gen
      BY <1>a DEF EngineType, JfcRecord
    <2> HIDE DEF R
    <2>3. \A m \in Jfcs : jfc'[m].live = jfc[m].live /\ jfc'[m].gen = jfc[m].gen
      BY <2>1, <2>2, <1>a DEF EngineType
    <2>4. csq' = csq /\ ceq' = ceq
      BY <1>31 DEF ArmJfc, notify, command
    <2> QED BY <2>3, <2>4 DEF CommandInv
  <1>32. ASSUME NEW j \in Jfcs, Sleep(j) PROVE CommandInv'
    BY <1>32 DEF Sleep, CommandInv, engine, notify, command
  <1>33. ASSUME NEW c \in Ceqs, PollCeq(c) PROVE CommandInv'
    BY <1>33 DEF PollCeq, CommandInv, engine, notify, command
  <1>34. ASSUME NEW c \in Ceqs, HandleCeqConsumerMmio(c) PROVE CommandInv'
    <2>1. \A c1 \in Ceqs : ceq'[c1].live = ceq[c1].live
      BY <1>34, <1>a DEF HandleCeqConsumerMmio, NotifyType, CeqRecord
    <2>2. csq' = csq /\ jfc' = jfc
      BY <1>34 DEF HandleCeqConsumerMmio, engine, command
    <2> QED BY <2>1, <2>2 DEF CommandInv
  <1>35. ASSUME NEW j \in Jfcs, WriteCqe(j) PROVE CommandInv'
    BY <1>35 DEF WriteCqe, CommandInv, engine, notify, command
  <1>36. ASSUME NEW j \in Jfcs, CreateJfc(j) PROVE CommandInv'
    BY <1>36 DEF CreateJfc, CommandInv, Mailbox, engine, notify
  <1>37. ASSUME NEW j \in Jfcs, ModifyJfc(j) PROVE CommandInv'
    <2> DEFINE R(x, y) == [jfc[j] EXCEPT !.count = x, !.period = y]
    <2>1. PICK x \in Counts, y \in Periods : jfc' = [jfc EXCEPT ![j] = R(x, y)]
      BY <1>37, <1>a, ZenonT(30) DEF ModifyJfc, EngineType
    <2>2. R(x, y).live = jfc[j].live /\ R(x, y).gen = jfc[j].gen
      BY <1>a DEF EngineType, JfcRecord
    <2> HIDE DEF R
    <2>3. \A m \in Jfcs : jfc'[m].live = jfc[m].live /\ jfc'[m].gen = jfc[m].gen
      BY <2>1, <2>2, <1>a DEF EngineType
    <2>4. csq' = csq /\ ceq' = ceq
      BY <1>37 DEF ModifyJfc, notify, command
    <2> QED BY <2>3, <2>4 DEF CommandInv
  <1>38. ASSUME NEW j \in Jfcs, QueryJfc(j) PROVE CommandInv'
    BY <1>38 DEF QueryJfc, CommandInv
  <1>39. ASSUME NEW j \in Jfcs, DestroyJfc(j) PROVE CommandInv'
    BY <1>39, <1>a DEF DestroyJfc, CommandInv, Mailbox, NoCmd, EngineType, DeadJfc, FreshJfc, notify
  <1>40. ASSUME NEW c \in Ceqs, CreateCeq(c) PROVE CommandInv'
    BY <1>40 DEF CreateCeq, CommandInv, Mailbox, engine, notify
  <1>41. ASSUME NEW c \in Ceqs, DestroyCeq(c) PROVE CommandInv'
    BY <1>41, <1>a DEF DestroyCeq, CommandInv, Mailbox, NoCmd, NotifyType, DeadCeq, FreshCeq, engine
  <1> QED
    BY <1>1, <1>2, <1>3, <1>4, <1>5, <1>6, <1>7, <1>8, <1>9, <1>10, <1>11, <1>12, <1>13, <1>14, <1>15, <1>16, <1>17, <1>18, <1>19, <1>20, <1>21, <1>22, <1>23, <1>24, <1>25, <1>26, <1>27, <1>28, <1>29, <1>30, <1>31, <1>32, <1>33, <1>34, <1>35, <1>36, <1>37, <1>38, <1>39, <1>40, <1>41
    DEF Next, HandlerStep, DeviceEvent, Failure, GuestStep, Request

\* Every step keeps the CEQ credits: the entry of an event in flight is free,
\* and a consumer report is never ahead of what was produced.
LEMMA CeqStep ==
    ASSUME TypeOK, CommandInv, CeqInv, Next
    PROVE  CeqInv'
  <1>a. NotifyType /\ GuestType
    BY DEF TypeOK
  <1>b. CeqDepth \in Nat
    BY RingAssumption
  <1>1. CASE CallerReturns
    BY <1>1 DEF CallerReturns, CeqInv, notify, guest
  <1>2. CASE Release
    BY <1>2 DEF Release, CeqInv, notify, guest
  <1>3. CASE ReleaseCompletionEventSlot
    BY <1>3 DEF ReleaseCompletionEventSlot, CeqInv, notify, guest
  <1>4. CASE PumpLoop
    BY <1>4 DEF PumpLoop, CeqInv, notify, guest
  <1>5. CASE PumpIds
    BY <1>5 DEF PumpIds, CeqInv, notify, guest
  <1>6. CASE EndPass
    BY <1>6 DEF EndPass, CeqInv, notify, guest
  <1>7. ASSUME NEW j \in Jfcs, PumpTimer(j) PROVE CeqInv'
    BY <1>7 DEF PumpTimer, CeqInv, notify, guest
  <1>8. ASSUME NEW j \in Jfcs, Admit(j) PROVE CeqInv'
    BY <1>8 DEF Admit, CeqInv, notify, guest
  <1>9. ASSUME NEW j \in Jfcs, LeaveJfc(j) PROVE CeqInv'
    BY <1>9 DEF LeaveJfc, CeqInv, notify, guest
  <1>10. CASE DispatchReturns
    BY <1>10 DEF DispatchReturns, CeqInv, notify, guest
  <1>11. CASE DispatchEnds
    BY <1>11 DEF DispatchEnds, CeqInv, notify, guest
  <1>12. CASE NoDestroyReady
    BY <1>12 DEF NoDestroyReady, CeqInv, notify, guest
  <1>13. ASSUME NEW j \in Jfcs, CompleteJfcDestroy(j) PROVE CeqInv'
    BY <1>13 DEF CompleteJfcDestroy, CeqInv, notify, guest
  <1>14. ASSUME NEW c \in Ceqs, CompleteEqDestroy(c) PROVE CeqInv'
    BY <1>14, <1>a, <1>b DEF CompleteEqDestroy, CeqBusy, DeadCeq, FreshCeq, guest, NotifyType, GuestType, CeqRecord, CeqInv
  <1>15. ASSUME NEW k \in DOMAIN events, StartEvent(k) PROVE CeqInv'
    BY <1>15, <1>a, <1>b DEF StartEvent, Dispatching, FirstEligible, Eligible, EventRecord, guest, NotifyType, GuestType, CeqRecord, CeqInv
  <1>16. ASSUME NEW k \in DOMAIN events, DropEvent(k) PROVE CeqInv'
    BY <1>16 DEF DropEvent, CeqInv, notify, guest
  <1>17. ASSUME NEW i \in Cqes, ConsumerRead(i) PROVE CeqInv'
    BY <1>17 DEF ConsumerRead, CeqInv, notify, guest
  <1>18. ASSUME NEW i \in Cqes, CqeLands(i) PROVE CeqInv'
    BY <1>18 DEF CqeLands, CeqInv, notify, guest
  <1>19. ASSUME NEW i \in Cqes, CqeWritten(i) PROVE CeqInv'
    BY <1>19 DEF CqeWritten, CeqInv, notify, guest
  <1>20. ASSUME NEW j \in Jfcs, AdvanceTime(j) PROVE CeqInv'
    BY <1>20 DEF AdvanceTime, CeqInv, notify, guest
  <1>21. ASSUME NEW j \in Jfcs, ApplyCreateJfc(j) PROVE CeqInv'
    BY <1>21 DEF ApplyCreateJfc, CeqInv, notify, guest
  <1>22. ASSUME NEW j \in Jfcs, QueryJfcRead(j) PROVE CeqInv'
    BY <1>22 DEF QueryJfcRead, CeqInv, notify, guest
  <1>23. ASSUME NEW c \in Ceqs, ApplyCreateCeq(c) PROVE CeqInv'
    <2>1. /\ ceq'[c] = FreshCeq /\ \A m \in Ceqs : m # c => ceq'[m] = ceq[m]
          /\ active' = active /\ eq' = eq /\ eqRead' = eqRead
      BY <1>23, <1>a DEF ApplyCreateCeq, guest, NotifyType
    <2>2. active.stage # "idle" => active.ceq \in Ceqs /\ active.ceq # c
      BY <1>23, <1>a DEF ApplyCreateCeq, CommandInv, CeqInv, NotifyType
    <2>3. eqRead[c] \in Nat /\ Len(eq[c]) \in Nat
      BY <1>a DEF GuestType
    <2>4. ceq'[c].consumer = 0 /\ ceq'[c].producer = 0 /\ ~ceq'[c].consumerPending
      BY <2>1 DEF FreshCeq
    <2> QED BY <2>1, <2>2, <2>3, <2>4 DEF CeqInv
  <1>24. CASE CeqeLands
    <2> DEFINE q == active.ceq
    <2>1. /\ q \in Ceqs /\ eq[q] \in Seq(Jfcs) /\ ceq[q].producer \in Nat
          /\ active.jfc \in Jfcs /\ ceq[q].producer <= Len(eq[q])
      BY <1>24, <1>a DEF CeqeLands, CeqInv, NotifyType, GuestType, CeqRecord
    <2>2. Len(SubSeq(eq[q], 1, ceq[q].producer) \o <<active.jfc>>) = ceq[q].producer + 1
      BY <2>1
    <2>3. /\ Len(eq'[q]) = ceq[q].producer + 1
          /\ \A m \in Ceqs : m # q => eq'[m] = eq[m]
      BY <1>24, <1>a, <2>1, <2>2 DEF CeqeLands, GuestType
    <2>4. active'.stage = "landed" /\ active'.ceq = q /\ ceq' = ceq /\ eqRead' = eqRead
      BY <1>24, <1>a DEF CeqeLands, NotifyType
    <2>5. active.stage = "dma"
      BY <1>24 DEF CeqeLands
    <2> QED BY <2>1, <2>3, <2>4, <2>5 DEF CeqInv
  <1>25. CASE CeqeWritten
    <2> DEFINE q == active.ceq
    <2>1. /\ q \in Ceqs /\ ceq[q] \in CeqRecord /\ active.stage = "landed"
          /\ active'.stage = "msi" /\ active'.ceq = q
      BY <1>25, <1>a DEF CeqeWritten, NotifyType
    <2>2. /\ ceq'[q].live = ceq[q].live /\ ceq'[q].producer = ceq[q].producer + 1
          /\ ceq'[q].consumer = IF ceq[q].consumerPending THEN ceq[q].pendingConsumer
                                                          ELSE ceq[q].consumer
          /\ ~ceq'[q].consumerPending
          /\ \A m \in Ceqs : m # q => ceq'[m] = ceq[m]
      BY <1>25, <1>a, <2>1 DEF CeqeWritten, NotifyType, CeqRecord
    <2>3. eq' = eq /\ eqRead' = eqRead
      BY <1>25 DEF CeqeWritten, guest
    <2>4. /\ ceq[q].producer \in Nat /\ ceq[q].consumer \in Nat
          /\ ceq[q].pendingConsumer \in Nat /\ eqRead[q] \in Nat
      BY <2>1, <1>a DEF CeqRecord, GuestType
    <2>5. /\ ceq[q].live /\ ceq[q].consumer <= ceq[q].producer
          /\ ceq[q].consumer <= eqRead[q] /\ Len(eq[q]) = ceq[q].producer + 1
          /\ ceq[q].consumerPending => /\ ceq[q].pendingConsumer = ceq[q].producer + 1
                                       /\ ceq[q].pendingConsumer <= eqRead[q]
      BY <2>1 DEF CeqInv
    <2>6. /\ ceq'[q].live /\ ceq'[q].consumer <= ceq'[q].producer
          /\ ceq'[q].consumer <= eqRead[q] /\ ceq'[q].producer <= Len(eq[q])
      BY <2>2, <2>4, <2>5
    <2> QED BY <2>1, <2>2, <2>3, <2>6 DEF CeqInv
  <1>26. CASE InterruptDelivered
    BY <1>26, <1>a, <1>b DEF InterruptDelivered, EventEnds, Inactive, NotifyType, GuestType, CeqRecord, CeqInv
  <1>27. ASSUME NEW i \in Cqes, CqeDmaFails(i) PROVE CeqInv'
    BY <1>27 DEF CqeDmaFails, CeqInv, notify, guest
  <1>28. CASE CeqeFails
    <2> DEFINE q == active.ceq
    <2>1. q \in Ceqs /\ ceq[q] \in CeqRecord /\ active'.stage = "idle"
      BY <1>28, <1>a DEF CeqeFails, EventEnds, Inactive, NotifyType
    <2>2. /\ ceq'[q].live = ceq[q].live /\ ceq'[q].producer = ceq[q].producer
          /\ ceq'[q].consumer = ceq[q].consumer /\ ~ceq'[q].consumerPending
          /\ \A m \in Ceqs : m # q => ceq'[m] = ceq[m]
      BY <1>28, <1>a, <2>1 DEF CeqeFails, NotifyType, CeqRecord
    <2>3. eq' = eq /\ eqRead' = eqRead
      BY <1>28 DEF CeqeFails, guest
    <2> QED BY <2>1, <2>2, <2>3 DEF CeqInv
  <1>29. CASE InterruptFails
    BY <1>29, <1>a, <1>b DEF InterruptFails, EventEnds, Inactive, guest, NotifyType, GuestType, CeqRecord, CeqInv
  <1>30. ASSUME NEW j \in Jfcs, PollCq(j) PROVE CeqInv'
    BY <1>30 DEF PollCq, CeqInv, notify, guest
  <1>31. ASSUME NEW j \in Jfcs, ArmJfc(j) PROVE CeqInv'
    BY <1>31 DEF ArmJfc, CeqInv, notify, guest
  <1>32. ASSUME NEW j \in Jfcs, Sleep(j) PROVE CeqInv'
    BY <1>32 DEF Sleep, CeqInv, notify, guest
  <1>33. ASSUME NEW c \in Ceqs, PollCeq(c) PROVE CeqInv'
    <2>1. /\ active' = active /\ ceq' = ceq /\ eq' = eq
          /\ eqRead' = eqRead \/ eqRead' = [eqRead EXCEPT ![c] = eqRead[c] + 1]
      BY <1>33 DEF PollCeq, notify
    <2>2. \A m \in Ceqs : eqRead[m] \in Nat /\ eqRead'[m] \in Nat /\ eqRead[m] <= eqRead'[m]
      <3>1. \A m \in Ceqs : eqRead[m] \in Nat
        BY <1>a DEF GuestType
      <3>2. CASE eqRead' = eqRead
        BY <3>1, <3>2
      <3>3. CASE eqRead' = [eqRead EXCEPT ![c] = eqRead[c] + 1]
        BY <3>1, <3>3, <1>a DEF GuestType
      <3> QED BY <2>1, <3>2, <3>3
    <2>3. \A m \in Ceqs : ceq[m].consumer \in Nat /\ ceq[m].pendingConsumer \in Nat
      BY <1>a DEF NotifyType, CeqRecord
    <2> QED BY <2>1, <2>2, <2>3 DEF CeqInv
  <1>34. ASSUME NEW c \in Ceqs, HandleCeqConsumerMmio(c) PROVE CeqInv'
    <2> DEFINE q == ceq[c]
               from == IF q.consumerPending THEN q.pendingConsumer ELSE q.consumer
               reserved == active.stage \in {"dma", "landed"} /\ active.ceq = c
    <2>1. /\ q \in CeqRecord /\ q.consumer \in Nat /\ q.producer \in Nat
          /\ q.pendingConsumer \in Nat /\ eqRead[c] \in Nat /\ q.live
      BY <1>34, <1>a DEF HandleCeqConsumerMmio, NotifyType, CeqRecord, GuestType
    <2>2. PICK next \in (from + 1)..eqRead[c] :
             /\ next - q.consumer <= q.producer - q.consumer + (IF reserved THEN 1 ELSE 0)
             /\ ceq' = [ceq EXCEPT ![c] =
                   IF next > q.producer
                   THEN [q EXCEPT !.pendingConsumer = next, !.consumerPending = TRUE]
                   ELSE [q EXCEPT !.consumer = next]]
      BY <1>34, <1>a, <2>1 DEF HandleCeqConsumerMmio, NotifyType
    <2>3. /\ active' = active /\ eq' = eq /\ eqRead' = eqRead
          /\ \A m \in Ceqs : m # c => ceq'[m] = ceq[m]
      BY <1>34, <1>a, <2>2 DEF HandleCeqConsumerMmio, guest, NotifyType
    <2>4. next \in Nat /\ from \in Nat /\ next <= eqRead[c] /\ from < next
      BY <2>1, <2>2
    <2>5. CASE next > q.producer
      <3>1. reserved /\ next = q.producer + 1
        BY <2>1, <2>2, <2>4, <2>5
      <3>2. /\ ceq'[c].pendingConsumer = next /\ ceq'[c].live
            /\ ceq'[c].producer = q.producer /\ ceq'[c].consumer = q.consumer
        BY <2>1, <2>2, <2>5, <1>a DEF NotifyType, CeqRecord
      <3> QED BY <2>1, <2>3, <2>4, <3>1, <3>2 DEF CeqInv
    <2>6. CASE ~(next > q.producer)
      <3>1. /\ ceq'[c].consumer = next /\ ceq'[c].live /\ ceq'[c].producer = q.producer
            /\ ceq'[c].consumerPending = q.consumerPending
        BY <2>1, <2>2, <2>6, <1>a DEF NotifyType, CeqRecord
      <3>2. ~q.consumerPending /\ next <= q.producer
        <4>1. q.consumerPending => q.pendingConsumer = q.producer + 1
          BY DEF CeqInv
        <4>2. next <= q.producer
          BY <2>1, <2>4, <2>6
        <4>3. q.consumerPending => from = q.pendingConsumer
          OBVIOUS
        <4> HIDE DEF from
        <4> QED BY <2>1, <2>4, <4>1, <4>2, <4>3
      <3>3. q.consumer < next
        BY <2>4, <3>2
      <3>4. q.producer <= Len(eq[c]) /\ (active.stage # "idle" => ceq[active.ceq].live)
        BY <2>1 DEF CeqInv
      <3>5. active.stage \in {"dma", "landed"} => active.ceq \in Ceqs
                /\ ceq'[active.ceq].producer - ceq'[active.ceq].consumer < CeqDepth
        <4>1. CASE active.ceq = c
          BY <4>1, <2>1, <2>4, <3>1, <3>3, <1>b DEF CeqInv
        <4>2. CASE active.ceq # c
          BY <4>2, <2>3, <1>a DEF CeqInv, NotifyType
        <4> QED BY <4>1, <4>2
      <3>6. active.stage = "landed" => Len(eq[active.ceq]) = ceq'[active.ceq].producer + 1
        BY <2>3, <3>1, <3>5 DEF CeqInv
      <3>7. \A m \in Ceqs : ceq'[m].live =>
               /\ ceq'[m].consumer <= ceq'[m].producer
               /\ ceq'[m].consumer <= eqRead[m]
               /\ ceq'[m].producer <= Len(eq[m])
        BY <2>3, <2>4, <3>1, <3>2, <3>4 DEF CeqInv
      <3>8. \A m \in Ceqs : ceq'[m].consumerPending =>
               /\ active.stage \in {"dma", "landed"} /\ active.ceq = m
               /\ ceq'[m].pendingConsumer = ceq'[m].producer + 1
               /\ ceq'[m].pendingConsumer <= eqRead[m]
        BY <2>3, <3>1, <3>2 DEF CeqInv
      <3>9. active.stage # "idle" => ceq'[active.ceq].live
        <4>1. CASE active.ceq = c
          BY <4>1, <3>1
        <4>2. CASE active.ceq # c
          BY <4>2, <2>3, <3>4, <1>a DEF NotifyType
        <4> QED BY <4>1, <4>2
      <3> QED BY <2>3, <3>5, <3>6, <3>7, <3>8, <3>9 DEF CeqInv
    <2> QED BY <2>5, <2>6
  <1>35. ASSUME NEW j \in Jfcs, WriteCqe(j) PROVE CeqInv'
    BY <1>35 DEF WriteCqe, CeqInv, notify, guest
  <1>36. ASSUME NEW j \in Jfcs, CreateJfc(j) PROVE CeqInv'
    BY <1>36 DEF CreateJfc, CeqInv, notify, guest
  <1>37. ASSUME NEW j \in Jfcs, ModifyJfc(j) PROVE CeqInv'
    BY <1>37 DEF ModifyJfc, CeqInv, notify, guest
  <1>38. ASSUME NEW j \in Jfcs, QueryJfc(j) PROVE CeqInv'
    BY <1>38 DEF QueryJfc, CeqInv, notify, guest
  <1>39. ASSUME NEW j \in Jfcs, DestroyJfc(j) PROVE CeqInv'
    BY <1>39 DEF DestroyJfc, CeqInv, notify, guest
  <1>40. ASSUME NEW c \in Ceqs, CreateCeq(c) PROVE CeqInv'
    BY <1>40, <1>a, <1>b DEF CreateCeq, CeqBusy, notify, NotifyType, GuestType, CeqRecord, CeqInv
  <1>41. ASSUME NEW c \in Ceqs, DestroyCeq(c) PROVE CeqInv'
    <2>1. ceq' = ceq \/ (~CeqBusy(c) /\ ceq' = [ceq EXCEPT ![c] = DeadCeq])
      BY <1>41 DEF DestroyCeq
    <2>2. active' = active /\ eq' = eq /\ eqRead' = eqRead
      BY <1>41 DEF DestroyCeq
    <2>3. ~DeadCeq.live /\ ~DeadCeq.consumerPending
      BY DEF DeadCeq, FreshCeq
    <2>4. CASE ceq' = ceq
      BY <2>2, <2>4 DEF CeqInv
    <2>5. CASE ~CeqBusy(c) /\ ceq' = [ceq EXCEPT ![c] = DeadCeq]
      <3>1. active.stage # "idle" => active.ceq # c /\ active.ceq \in Ceqs
        BY <2>5, <1>a DEF CeqBusy, NotifyType
      <3>2. ceq'[c] = DeadCeq /\ \A m \in Ceqs : m # c => ceq'[m] = ceq[m]
        BY <2>5, <1>a DEF NotifyType
      <3> QED BY <2>2, <2>3, <3>1, <3>2 DEF CeqInv
    <2> QED BY <2>1, <2>4, <2>5
  <1> QED
    BY <1>1, <1>2, <1>3, <1>4, <1>5, <1>6, <1>7, <1>8, <1>9, <1>10, <1>11, <1>12, <1>13, <1>14, <1>15, <1>16, <1>17, <1>18, <1>19, <1>20, <1>21, <1>22, <1>23, <1>24, <1>25, <1>26, <1>27, <1>28, <1>29, <1>30, <1>31, <1>32, <1>33, <1>34, <1>35, <1>36, <1>37, <1>38, <1>39, <1>40, <1>41
    DEF Next, HandlerStep, DeviceEvent, Failure, GuestStep, Request

\* The inductive invariant holds in every reachable state.
LEMMA Inductive == Spec => []IInv
  <1>1. Init => IInv
    BY TypeInit, InitInv DEF IInv
  <1>2. IInv /\ [Next]_vars => IInv'
    <2>1. ASSUME IInv, Next PROVE IInv'
      BY <2>1, TypeStep, CommandStep, CeqStep DEF IInv
    <2>2. ASSUME IInv, UNCHANGED vars PROVE IInv'
      BY <2>2, SMTT(30) DEF IInv, vars, TypeOK, EngineType, NotifyType, CommandType,
                  ControlType, GuestType, CommandInv, CeqInv
    <2> QED BY <2>1, <2>2
  <1> QED BY <1>1, <1>2, PTL DEF Spec

\* Every variable of the completion engine keeps its type, for every number
\* of JFCs, CEQs, slots and completions: the callbacks never index a context,
\* a ring or a CEQ outside its range.
THEOREM TypeCorrect == Spec => []TypeOK
  <1>1. IInv => TypeOK
    BY DEF IInv
  <1> QED BY <1>1, Inductive, PTL

\* ProcessCompletionEvent never overwrites a CEQ entry the guest has not
\* consumed, and HandleCeqConsumerMmio never takes a credit for an entry that
\* was not written, for CEQs of any depth.
THEOREM CeqSafe == Spec => []CeqNeverOverrun
  <1>1. IInv => CeqNeverOverrun
    <2> SUFFICES ASSUME IInv PROVE CeqNeverOverrun
      OBVIOUS
    <2>1. CeqInv /\ NotifyType /\ GuestType
      BY DEF IInv, TypeOK
    <2>2. /\ CeqDepth \in Nat
          /\ \A c \in Ceqs : /\ ceq[c].producer \in Nat /\ ceq[c].consumer \in Nat
                             /\ eqRead[c] \in Nat
      BY <2>1, RingAssumption DEF NotifyType, GuestType, CeqRecord
    <2>3. active.stage # "idle" => active.ceq \in Ceqs
      BY <2>1 DEF NotifyType
    <2> QED BY <2>1, <2>2, <2>3 DEF CeqInv, CeqNeverOverrun
  <1> QED BY <1>1, Inductive, PTL

----------------------------------------------------------------------------
(* The invariant of the notification property *)

\* The guest will read of j: an event is queued, or its entry is being written or unread.
Wakes(j) ==
    \/ \E k \in DOMAIN events : events[k].jfc = j
    \/ active.stage = "dma" /\ active.jfc = j
    \/ \E k \in DOMAIN eq[CeqOf[j]] : k > eqRead[CeqOf[j]] /\ eq[CeqOf[j]][k] = j

\* An event travels to the CEQ of its JFC.
RouteInv ==
    /\ \A k \in DOMAIN events : events[k].ceq = CeqOf[events[k].jfc]
    /\ active.stage # "idle" => active.ceq = CeqOf[active.jfc]

\* A guest waits only on a CEQ that exists and stays.
SleepInv ==
    \A j \in Jfcs : asleep[j] =>
        /\ ceq[CeqOf[j]].live
        /\ csq # [op |-> "destroyCeq", id |-> CeqOf[j]] /\ csq # [op |-> "createJfc", id |-> j]

\* Without a failed write a CEQ holds what has been produced and the entry just landed.
EntriesInv ==
    faults = 0 =>
        \A c \in Ceqs :
            /\ ceq[c].live => Len(eq[c]) = ceq[c].producer
                                + (IF active.stage = "landed" /\ active.ceq = c THEN 1 ELSE 0)
            /\ eqRead[c] <= Len(eq[c])
            /\ csq = [op |-> "createCeq", id |-> c] => eq[c] = <<>>

\* A sleeping guest that nothing will wake has an empty CQ or is owed an event, and its
\* JFC is armed for the next one.
Rests(j) == jfc[j].live /\ asleep[j] /\ ~Wakes(j)
WakeInv ==
    faults = 0 /\ modifies = 0 =>
        \A j \in Jfcs : Rests(j) => (Visible(j) => EventOwed(j)) /\ (OneShot => jfc[j].armed)

----------------------------------------------------------------------------
(* The invariant of the ring properties *)

\* A completion that has been admitted and has not failed.
Taken(i) == cqe[i].stage = "read" \/ Placed(i)
\* Its CQE is in guest memory.
Landed(i) == cqe[i].stage \in {"landed", "okcb", "ok"}
\* It belongs to the present creation of its JFC.
Mine(i, j) == cqe[i].jfc = j /\ cqe[i].gen = jfc[j].gen

\* A callback that is to be released is that of one completion, which has not been released.
Releasing(st, q) ==
    \A a \in DOMAIN st : st[a].op = "release" =>
        /\ st[a].id \in Cqes /\ q[st[a].id].stage \in {"okcb", "failcb"}
        /\ \A b \in DOMAIN st : st[b].op = "release" /\ st[b].id = st[a].id => a = b
StackInv == Releasing(stack, cqe)

\* Completions wait in submission order, behind all that were admitted.
QueueInv ==
    /\ \A i \in Cqes : cqe[i].stage = "new" <=> i > submitted
    /\ \A j \in Jfcs : \A a \in DOMAIN waiting[j] :
         /\ cqe[waiting[j][a]].jfc = j /\ cqe[waiting[j][a]].stage = "waiting"
         /\ \A b \in DOMAIN waiting[j] : a < b => waiting[j][a] < waiting[j][b]
         /\ \A k \in Cqes : cqe[k].jfc = j /\ Taken(k) => k < waiting[j][a]

\* A JFC with a completion in flight is not erased, and so not destroyed.
EntryInv ==
    /\ \A j \in Jfcs : InFlight(j) # {} \/ waiting[j] # <<>> => j \in entry
    /\ \A i \in Cqes : cqe[i].stage \in InDma => jfc[cqe[i].jfc].live /\ Mine(i, cqe[i].jfc)
    /\ \A i \in Cqes : Taken(i) => cqe[i].gen <= jfc[cqe[i].jfc].gen
    /\ csq.op = "queryJfc" => queries > 0

\* While the consumer index of a JFC is read nothing else of it is in flight; the serial
\* engine never has two completions of a JFC in flight.
AloneInv ==
    \A i, k \in Cqes :
        /\ cqe[i].jfc = cqe[k].jfc /\ cqe[i].stage \in InFlightStages /\ cqe[k].stage \in InFlightStages
        /\ ~Pipelined \/ cqe[i].stage = "read"
        => i = k

\* The consumer index is read of a ring that looks full; it is the last completion admitted.
Reading(i) ==
    LET j == cqe[i].jfc IN
    /\ Pipelined => Used(j) >= Depth
    /\ jfc[j].producer - Depth <= cqe[i].ci /\ cqe[i].ci <= ci[j]
    /\ \A k \in Cqes : cqe[k].jfc = j /\ Taken(k) => k <= i
ReadInv == \A i \in Cqes : cqe[i].stage = "read" => Reading(i)

\* The completions of j have the positions before its producer index; the serial engine
\* writes at that index.
Writing(i) == cqe[i].stage \in {"dma", "landed"}
PlaceInv(j) ==
    \A i \in Cqes : Mine(i, j) /\ Placed(i) =>
        IF ~Pipelined /\ Writing(i) THEN cqe[i].pos = jfc[j].producer ELSE cqe[i].pos < jfc[j].producer

\* The entries in use are those the guest has not consumed, and some it has.
CreditInv(j) ==
    /\ Used(j) <= Depth /\ jfc[j].producer - Used(j) <= ci[j]
    /\ ~Pipelined /\ (\E i \in Cqes : cqe[i].jfc = j /\ Writing(i)) => Used(j) < Depth
    /\ \/ ci[j] <= jfc[j].producer
       \/ /\ ~Pipelined /\ ci[j] = jfc[j].producer + 1
          /\ \E i \in Cqes : cqe[i].jfc = j /\ cqe[i].stage = "landed"

\* What the guest finds in the ring of j: the latest CQE of each entry; it has polled all it
\* has passed, and no write goes where it has polled.
Holds(j, s, i) == mem[j][s] = [owner |-> Owner(cqe[i].pos), id |-> i]
Filled(j, s, i) == Mine(i, j) /\ Landed(i) /\ cqe[i].pos % Depth = s /\ Holds(j, s, i)
EntryOf(j) ==
    \A s \in 0 .. (Depth - 1) : mem[j][s] = [owner |-> FALSE, id |-> 0] \/ \E i \in Cqes : Filled(j, s, i)
LatestOf(j) ==
    \A i \in Cqes : Mine(i, j) /\ Landed(i) =>
        \E k \in Cqes : Filled(j, cqe[i].pos % Depth, k) /\ cqe[i].pos <= cqe[k].pos
AheadOf(j) == \A i \in Cqes : Mine(i, j) /\ cqe[i].stage = "dma" => ci[j] <= cqe[i].pos
PolledOf(j) == \A p \in 0 .. (ci[j] - 1) : \E i \in Cqes : Mine(i, j) /\ Landed(i) /\ cqe[i].pos = p /\ i \in seen

RingOf(j) == PlaceInv(j) /\ CreditInv(j) /\ EntryOf(j) /\ LatestOf(j) /\ AheadOf(j) /\ PolledOf(j)
FreshInv == \A j \in Jfcs : csq = [op |-> "createJfc", id |-> j] => mem[j] = EmptyRing /\ ci[j] = 0
RingInv ==
    /\ AloneInv /\ ReadInv /\ CqesInSubmissionOrder /\ FreshInv
    /\ \A j \in Jfcs : jfc[j].live => RingOf(j)
RingsInv == queries = 0 => RingInv

----------------------------------------------------------------------------
(* The callbacks on the stack *)

\* Entries of a concatenation.
LEMMA PushedFrames ==
    ASSUME NEW f \in Seq(Frame), NEW g \in Seq(Frame), NEW a \in DOMAIN Push(f, g)
    PROVE  \/ a \in DOMAIN f /\ Push(f, g)[a] = f[a]
           \/ a \notin DOMAIN f /\ a \in Nat /\ a - Len(f) \in DOMAIN g /\ Push(f, g)[a] = g[a - Len(f)]
  BY DEF Push

\* Calls without a callback to release.
LEMMA PushedCalls ==
    ASSUME NEW f \in Seq(Frame), NEW q, NEW g \in Seq(Frame), Releasing(g, q),
           \A a \in DOMAIN f : f[a].op # "release"
    PROVE  Releasing(Push(f, g), q)
  <1>1. \A a \in DOMAIN Push(f, g) : Push(f, g)[a].op = "release" =>
          a \in Nat /\ a - Len(f) \in DOMAIN g /\ Push(f, g)[a] = g[a - Len(f)]
    BY PushedFrames
  <1>2. Len(f) \in Nat
    OBVIOUS
  <1> QED
    BY <1>1, <1>2 DEF Releasing

\* Returning from a call.
LEMMA PoppedCall ==
    ASSUME NEW q, NEW g \in Seq(Frame), g # <<>>, Releasing(g, q)
    PROVE  /\ Releasing(Tail(g), q) /\ Tail(g) \in Seq(Frame)
           /\ Head(g).op = "release" =>
                /\ Head(g).id \in Cqes /\ q[Head(g).id].stage \in {"okcb", "failcb"}
                /\ \A a \in DOMAIN Tail(g) : Tail(g)[a].op = "release" => Tail(g)[a].id # Head(g).id
  <1>1. Head(g) = g[1] /\ 1 \in DOMAIN g /\ Tail(g) \in Seq(Frame)
    OBVIOUS
  <1>2. \A a \in DOMAIN Tail(g) : a \in Nat /\ a + 1 \in DOMAIN g /\ Tail(g)[a] = g[a + 1] /\ a + 1 # 1
    OBVIOUS
  <1>3. Releasing(Tail(g), q)
    BY <1>2 DEF Releasing
  <1> QED
    BY <1>1, <1>2, <1>3 DEF Releasing

\* PumpCompletionWork called.
LEMMA PumpCalled ==
    ASSUME NEW q, NEW g \in Seq(Frame), Releasing(g, q)
    PROVE  Releasing(CallPump(g), q) /\ CallPump(g) \in Seq(Frame)
  <1>1. FrameFor("pump", 0) \in Frame /\ FrameFor("pump", 0).op # "release"
    BY FrameType, BoundAssumption DEF FrameOps, FrameFor
  <1>2. <<FrameFor("pump", 0)>> \in Seq(Frame)
    BY <1>1
  <1>3. \A a \in DOMAIN <<FrameFor("pump", 0)>> : <<FrameFor("pump", 0)>>[a].op # "release"
    BY <1>1
  <1> QED
    BY <1>2, <1>3, PushedCalls, CallPumpType DEF CallPump

\* One call without a callback.
LEMMA CallMade ==
    ASSUME NEW q, NEW g \in Seq(Frame), Releasing(g, q), NEW op \in FrameOps, op # "release"
    PROVE  Releasing(Push(<<FrameFor(op, 0)>>, g), q)
  <1>1. FrameFor(op, 0) \in Frame /\ FrameFor(op, 0).op # "release"
    BY FrameType, BoundAssumption DEF FrameFor
  <1>2. <<FrameFor(op, 0)>> \in Seq(Frame)
    BY <1>1
  <1>3. \A a \in DOMAIN <<FrameFor(op, 0)>> : <<FrameFor(op, 0)>>[a].op # "release"
    BY <1>1
  <1> QED
    BY <1>2, <1>3, PushedCalls

\* Three calls without a callback.
LEMMA ThreeCalls ==
    ASSUME NEW q, NEW g \in Seq(Frame), Releasing(g, q)
    PROVE  Releasing(Push(<<FrameFor("slot", 0), FrameFor("maybe", 0), FrameFor("dispatch", 0)>>, g), q)
  <1> DEFINE f == <<FrameFor("slot", 0), FrameFor("maybe", 0), FrameFor("dispatch", 0)>>
  <1>1. /\ FrameFor("slot", 0) \in Frame /\ FrameFor("maybe", 0) \in Frame /\ FrameFor("dispatch", 0) \in Frame
        /\ FrameFor("slot", 0).op # "release" /\ FrameFor("maybe", 0).op # "release"
        /\ FrameFor("dispatch", 0).op # "release"
    BY FrameType, BoundAssumption DEF FrameOps, FrameFor
  <1>2. f \in Seq(Frame)
    BY <1>1
  <1>3. \A a \in DOMAIN f : f[a].op # "release"
    BY <1>1
  <1> QED
    BY <1>2, <1>3, PushedCalls

\* The callback of i is called for one of a finished publication: it is the only one of i.
LEMMA CallbackPushed ==
    ASSUME NEW q, NEW g \in Seq(Frame), NEW i \in Cqes, NEW f \in Seq(Frame), NEW c \in DOMAIN f, f[c].id = i,
           \A a \in DOMAIN f : f[a].op = "release" <=> a = c,
           \A a \in DOMAIN g : g[a].op = "release" =>
               /\ g[a].id \in Cqes /\ q[g[a].id].stage \in {"okcb", "failcb"} /\ g[a].id # i
               /\ \A b \in DOMAIN g : g[b].op = "release" /\ g[b].id = g[a].id => a = b,
           q[i].stage \in {"okcb", "failcb"}, NEW st, st = Push(f, g)
    PROVE  Releasing(st, q)
  <1>1. \A a \in DOMAIN Push(f, g) : Push(f, g)[a].op = "release" =>
          \/ a = c /\ Push(f, g)[a].id = i
          \/ /\ a \notin DOMAIN f /\ a \in Nat /\ a - Len(f) \in DOMAIN g /\ Push(f, g)[a] = g[a - Len(f)]
             /\ Push(f, g)[a].id # i
    BY PushedFrames
  <1>2. Len(f) \in Nat
    OBVIOUS
  <1>3. ASSUME NEW a \in DOMAIN st, st[a].op = "release"
        PROVE  /\ st[a].id \in Cqes /\ q[st[a].id].stage \in {"okcb", "failcb"}
               /\ \A b \in DOMAIN st : st[b].op = "release" /\ st[b].id = st[a].id => a = b
    <2>1. CASE a = c /\ st[a].id = i
      BY <1>1, <2>1
    <2>2. CASE /\ a \notin DOMAIN f /\ a \in Nat /\ a - Len(f) \in DOMAIN g /\ st[a] = g[a - Len(f)]
               /\ st[a].id # i
      <3>1. /\ st[a].id \in Cqes /\ q[st[a].id].stage \in {"okcb", "failcb"}
            /\ \A b \in DOMAIN g : g[b].op = "release" /\ g[b].id = st[a].id => a - Len(f) = b
        BY <1>3, <2>2
      <3>2. ASSUME NEW b \in DOMAIN st, st[b].op = "release", st[b].id = st[a].id
            PROVE  a = b
        <4>1. b \in Nat /\ b - Len(f) \in DOMAIN g /\ st[b] = g[b - Len(f)]
          BY <1>1, <2>2, <3>2
        <4>2. a - Len(f) = b - Len(f)
          BY <3>1, <3>2, <4>1
        <4> QED
          BY <4>1, <4>2, <2>2, <1>2
      <3> QED
        BY <3>1, <3>2
    <2> QED
      BY <1>1, <1>3, <2>1, <2>2
  <1> QED
    BY <1>3 DEF Releasing

----------------------------------------------------------------------------
(* What the steps of a completion change *)

\* All but the completion i is left.
OnlyCqe(i) == \A k \in Cqes : k # i => cqe'[k] = cqe[k]
\* The completion i keeps its JFC and moves to a stage.
Reaches(i, stage) == OnlyCqe(i) /\ cqe'[i].jfc = cqe[i].jfc /\ cqe'[i].stage = stage
SamePlace(i) == cqe'[i].gen = cqe[i].gen /\ cqe'[i].pos = cqe[i].pos
SameGuest == UNCHANGED <<mem, ci, seen, eq, eqRead, irq, asleep>>
SameNotify == UNCHANGED <<events, active, ceq>>
SameCommand == UNCHANGED <<csq, modifies, queries, queryCi>>
SameJfc(j) ==
    /\ jfc'[j].live = jfc[j].live /\ jfc'[j].gen = jfc[j].gen /\ jfc'[j].producer = jfc[j].producer
    /\ jfc'[j].consumer = jfc[j].consumer

\* WriteCqe: one new completion, refused or queued.
LEMMA WriteFacts ==
    ASSUME TypeOK, NEW j \in Jfcs, WriteCqe(j)
    PROVE  /\ submitted + 1 \in Cqes /\ submitted' = submitted + 1
           /\ OnlyCqe(submitted + 1) /\ SamePlace(submitted + 1) /\ cqe'[submitted + 1].jfc = j
           /\ \/ cqe'[submitted + 1].stage = "failed" /\ UNCHANGED <<waiting, entry, stack>>
              \/ /\ cqe'[submitted + 1].stage = "waiting"
                 /\ waiting' = [waiting EXCEPT ![j] = Append(@, submitted + 1)]
                 /\ entry' = entry \cup {j} /\ stack' = CallPump(stack)
           /\ UNCHANGED <<jfc, faults>> /\ SameNotify /\ SameCommand /\ SameGuest
  <1>1. submitted + 1 \in Cqes /\ submitted' = submitted + 1
    BY BoundAssumption DEF TypeOK, EngineType, WriteCqe, Cqes
  <1>2. UNCHANGED <<jfc, faults>> /\ SameNotify /\ SameCommand /\ SameGuest
    BY DEF WriteCqe, notify, command, guest, SameNotify, SameCommand, SameGuest
  <1>3. PICK i \in Cqes : i = submitted + 1
    BY <1>1
  <1>4. cqe \in [Cqes -> CqeRecord] /\ cqe[i] \in CqeRecord
    BY DEF TypeOK, EngineType
  <1>5. CASE Draining(j)
    <2>1. cqe' = [cqe EXCEPT ![i] = [cqe[i] EXCEPT !.jfc = j, !.stage = "failed"]]
      BY <1>3, <1>4, <1>5 DEF WriteCqe
    <2>2. OnlyCqe(i) /\ SamePlace(i) /\ cqe'[i].jfc = j /\ cqe'[i].stage = "failed"
      BY <1>4, <2>1 DEF OnlyCqe, SamePlace, CqeRecord
    <2>3. UNCHANGED <<waiting, entry, stack>>
      BY <1>5 DEF WriteCqe
    <2> QED
      BY <1>1, <1>2, <1>3, <2>2, <2>3
  <1>6. CASE ~Draining(j)
    <2>1. cqe' = [cqe EXCEPT ![i] = [cqe[i] EXCEPT !.jfc = j, !.stage = "waiting"]]
      BY <1>3, <1>4, <1>6 DEF WriteCqe
    <2>2. OnlyCqe(i) /\ SamePlace(i) /\ cqe'[i].jfc = j /\ cqe'[i].stage = "waiting"
      BY <1>4, <2>1 DEF OnlyCqe, SamePlace, CqeRecord
    <2>3. /\ waiting' = [waiting EXCEPT ![j] = Append(@, submitted + 1)]
          /\ entry' = entry \cup {j} /\ stack' = CallPump(stack)
      BY <1>6 DEF WriteCqe
    <2> QED
      BY <1>1, <1>2, <1>3, <2>2, <2>3
  <1> QED
    BY <1>5, <1>6

\* released(): the callback of one completion has returned.
LEMMA ReleaseFacts ==
    ASSUME TypeOK, StackInv, Release
    PROVE  \E i \in Cqes :
             /\ stack # <<>> /\ Head(stack).op = "release" /\ Head(stack).id = i
             /\ cqe[i].stage \in {"okcb", "failcb"} /\ stack' = CallPump(Tail(stack))
             /\ Reaches(i, IF cqe[i].stage = "okcb" THEN "ok" ELSE "failed") /\ SamePlace(i)
             /\ UNCHANGED <<jfc, submitted, waiting, entry, faults>> /\ SameNotify /\ SameCommand /\ SameGuest
  <1>1. stack \in Seq(Frame) /\ stack # <<>> /\ Head(stack).op = "release"
    BY DEF TypeOK, ControlType, Release, Running
  <1>2. Head(stack).id \in Cqes /\ cqe[Head(stack).id].stage \in {"okcb", "failcb"}
    BY <1>1, PoppedCall DEF StackInv
  <1>3. PICK i \in Cqes : i = Head(stack).id
    BY <1>2
  <1>4. cqe \in [Cqes -> CqeRecord] /\ cqe[i] \in CqeRecord
    BY DEF TypeOK, EngineType
  <1>5. cqe' = [cqe EXCEPT ![i] = [cqe[i] EXCEPT !.stage = IF cqe[i].stage = "okcb" THEN "ok" ELSE "failed"]]
    BY <1>3, <1>4 DEF Release, Top
  <1>6. Reaches(i, IF cqe[i].stage = "okcb" THEN "ok" ELSE "failed") /\ SamePlace(i)
    BY <1>4, <1>5 DEF Reaches, OnlyCqe, SamePlace, CqeRecord
  <1>7. /\ UNCHANGED <<jfc, submitted, waiting, entry, faults>> /\ SameNotify /\ SameCommand /\ SameGuest
        /\ stack' = CallPump(Tail(stack))
    BY DEF Release, Rest, notify, command, guest, SameNotify, SameCommand, SameGuest
  <1> QED
    BY <1>1, <1>2, <1>3, <1>6, <1>7

\* Admit: the oldest waiting completion fails, is written or reads the consumer index.
LEMMA AdmitFacts ==
    ASSUME TypeOK, QueueInv, NEW j \in Jfcs, Admit(j)
    PROVE  \E i \in Cqes :
             /\ waiting[j] # <<>> /\ waiting[j] \in Seq(Cqes) /\ i = Head(waiting[j])
             /\ cqe[i].jfc = j /\ cqe[i].stage = "waiting" /\ CanAdmit(j)
             /\ waiting' = [waiting EXCEPT ![j] = Tail(@)]
             /\ \A k \in Jfcs : k # j => jfc'[k] = jfc[k]
             /\ cqe'[i].gen = jfc[j].gen
             /\ \/ /\ ~jfc[j].live /\ Reaches(i, "failcb") /\ jfc' = jfc /\ stack' = Finish(i, stack)
                   /\ cqe'[i].pos = cqe[i].pos
                \/ /\ jfc[j].live /\ Pipelined /\ Used(j) < Depth /\ Reaches(i, "dma") /\ stack' = stack
                   /\ cqe'[i].pos = jfc[j].producer
                   /\ jfc'[j] = [jfc[j] EXCEPT !.producer = @ + 1]
                \/ /\ jfc[j].live /\ ~(Pipelined /\ Used(j) < Depth) /\ Reaches(i, "read") /\ stack' = stack
                   /\ jfc' = jfc /\ cqe'[i].ci = ci[j] /\ cqe'[i].pos = cqe[i].pos
             /\ UNCHANGED <<submitted, entry, faults>> /\ SameNotify /\ SameCommand /\ SameGuest
  <1>1. waiting[j] # <<>> /\ waiting[j] \in Seq(Cqes) /\ CanAdmit(j)
    BY DEF TypeOK, EngineType, Admit, CanAdmit
  <1>2. Head(waiting[j]) \in Cqes /\ Head(waiting[j]) = waiting[j][1] /\ 1 \in DOMAIN waiting[j]
    BY <1>1
  <1>3. PICK i \in Cqes : i = Head(waiting[j])
    BY <1>2
  <1>4. cqe[i].jfc = j /\ cqe[i].stage = "waiting"
    BY <1>2, <1>3 DEF QueueInv
  <1>5. /\ cqe \in [Cqes -> CqeRecord] /\ cqe[i] \in CqeRecord
        /\ jfc \in [Jfcs -> JfcRecord] /\ jfc[j] \in JfcRecord
    BY DEF TypeOK, EngineType
  <1>6. /\ waiting' = [waiting EXCEPT ![j] = Tail(@)]
        /\ UNCHANGED <<submitted, entry, faults>> /\ SameNotify /\ SameCommand /\ SameGuest
    BY DEF Admit, notify, command, guest, SameNotify, SameCommand, SameGuest
  <1>7. CASE ~jfc[j].live
    <2>1. /\ cqe' = [cqe EXCEPT ![i] = [cqe[i] EXCEPT !.stage = "failcb", !.gen = jfc[j].gen]]
          /\ jfc' = jfc /\ stack' = Finish(i, stack)
      BY <1>3, <1>5, <1>7 DEF Admit
    <2>2. Reaches(i, "failcb") /\ cqe'[i].gen = jfc[j].gen /\ cqe'[i].pos = cqe[i].pos
      BY <1>5, <2>1 DEF Reaches, OnlyCqe, CqeRecord
    <2> QED
      BY <1>1, <1>3, <1>4, <1>6, <1>7, <2>1, <2>2
  <1>8. CASE jfc[j].live /\ Pipelined /\ Used(j) < Depth
    <2>1. /\ cqe' = [cqe EXCEPT ![i] = [cqe[i] EXCEPT !.stage = "dma", !.gen = jfc[j].gen, !.pos = jfc[j].producer]]
          /\ jfc' = [jfc EXCEPT ![j] = [jfc[j] EXCEPT !.producer = @ + 1]] /\ stack' = stack
      BY <1>3, <1>5, <1>8 DEF Admit, Reserve
    <2>2. Reaches(i, "dma") /\ cqe'[i].gen = jfc[j].gen /\ cqe'[i].pos = jfc[j].producer
      BY <1>5, <2>1 DEF Reaches, OnlyCqe, CqeRecord
    <2>3. /\ \A k \in Jfcs : k # j => jfc'[k] = jfc[k]
          /\ jfc'[j] = [jfc[j] EXCEPT !.producer = @ + 1]
      BY <1>5, <2>1
    <2> QED
      BY <1>1, <1>3, <1>4, <1>6, <1>8, <2>1, <2>2, <2>3
  <1>9. CASE jfc[j].live /\ ~(Pipelined /\ Used(j) < Depth)
    <2>1. /\ cqe' = [cqe EXCEPT ![i] = [cqe[i] EXCEPT !.stage = "read", !.gen = jfc[j].gen, !.ci = ci[j]]]
          /\ jfc' = jfc /\ stack' = stack
      BY <1>3, <1>5, <1>9 DEF Admit
    <2>2. Reaches(i, "read") /\ cqe'[i].gen = jfc[j].gen /\ cqe'[i].pos = cqe[i].pos /\ cqe'[i].ci = ci[j]
      BY <1>5, <2>1 DEF Reaches, OnlyCqe, CqeRecord
    <2> QED
      BY <1>1, <1>3, <1>4, <1>6, <1>9, <2>1, <2>2
  <1> QED
    BY <1>7, <1>8, <1>9

\* ConsumerRead: the consumer index leaves room for the CQE, or the completion fails.
LEMMA ReadFacts ==
    ASSUME TypeOK, NEW i \in Cqes, ConsumerRead(i)
    PROVE  /\ cqe[i].stage = "read" /\ stack = <<>> /\ cqe[i].jfc \in Jfcs /\ cqe'[i].gen = cqe[i].gen
           /\ \A k \in Jfcs : k # cqe[i].jfc => jfc'[k] = jfc[k]
           /\ \/ /\ jfc[cqe[i].jfc].live /\ Reaches(i, "dma") /\ stack' = stack
                 /\ cqe'[i].pos = jfc[cqe[i].jfc].producer
                 /\ \E v \in cqe[i].ci .. ci[cqe[i].jfc] :
                      /\ Masked(jfc[cqe[i].jfc].producer - v) < Depth
                      /\ jfc'[cqe[i].jfc] = [jfc[cqe[i].jfc] EXCEPT !.consumer = Masked(v),
                                                !.producer = IF Pipelined THEN @ + 1 ELSE @]
              \/ Reaches(i, "failcb") /\ jfc' = jfc /\ stack' = Finish(i, stack)
           /\ UNCHANGED <<submitted, waiting, entry, faults>> /\ SameNotify /\ SameCommand /\ SameGuest
  <1>1. /\ cqe \in [Cqes -> CqeRecord] /\ cqe[i] \in CqeRecord /\ cqe[i].jfc \in Jfcs
        /\ jfc \in [Jfcs -> JfcRecord]
    BY DEF TypeOK, EngineType, CqeRecord
  <1>2. PICK j \in Jfcs : j = cqe[i].jfc
    BY <1>1
  <1>3. jfc[j] \in JfcRecord
    BY <1>1
  <1>4. /\ cqe[i].stage = "read" /\ stack = <<>>
        /\ UNCHANGED <<submitted, waiting, entry, faults>> /\ SameNotify /\ SameCommand /\ SameGuest
    BY DEF ConsumerRead, Idle, notify, command, guest, SameNotify, SameCommand, SameGuest
  <1>5. PICK v \in cqe[i].ci .. ci[j] :
          IF jfc[j].live /\ Masked(jfc[j].producer - v) < Depth
          THEN /\ cqe' = [cqe EXCEPT ![i].stage = "dma", ![i].pos = jfc[j].producer]
               /\ jfc' = [jfc EXCEPT ![j].consumer = Masked(v),
                                     ![j].producer = IF Pipelined THEN Reserve(@) ELSE @]
               /\ UNCHANGED stack
          ELSE /\ cqe' = [cqe EXCEPT ![i].stage = "failcb"]
               /\ stack' = Finish(i, stack)
               /\ UNCHANGED jfc
    BY <1>2 DEF ConsumerRead
  <1>6. CASE jfc[j].live /\ Masked(jfc[j].producer - v) < Depth
    <2>1. /\ cqe' = [cqe EXCEPT ![i] = [cqe[i] EXCEPT !.stage = "dma", !.pos = jfc[j].producer]]
          /\ jfc' = [jfc EXCEPT ![j] = [jfc[j] EXCEPT !.consumer = Masked(v),
                                                      !.producer = IF Pipelined THEN @ + 1 ELSE @]]
          /\ stack' = stack
      BY <1>1, <1>3, <1>5, <1>6 DEF Reserve
    <2>2. Reaches(i, "dma") /\ cqe'[i].pos = jfc[j].producer /\ cqe'[i].gen = cqe[i].gen
      BY <1>1, <2>1 DEF Reaches, OnlyCqe, CqeRecord
    <2>3. /\ \A k \in Jfcs : k # j => jfc'[k] = jfc[k]
          /\ jfc'[j] = [jfc[j] EXCEPT !.consumer = Masked(v), !.producer = IF Pipelined THEN @ + 1 ELSE @]
      BY <1>1, <2>1
    <2> QED
      BY <1>2, <1>4, <1>6, <2>1, <2>2, <2>3
  <1>7. CASE ~(jfc[j].live /\ Masked(jfc[j].producer - v) < Depth)
    <2>1. /\ cqe' = [cqe EXCEPT ![i] = [cqe[i] EXCEPT !.stage = "failcb"]]
          /\ jfc' = jfc /\ stack' = Finish(i, stack)
      BY <1>1, <1>5, <1>7
    <2>2. Reaches(i, "failcb") /\ cqe'[i].gen = cqe[i].gen
      BY <1>1, <2>1 DEF Reaches, OnlyCqe, CqeRecord
    <2> QED
      BY <1>2, <1>4, <2>1, <2>2
  <1> QED
    BY <1>6, <1>7

\* CqeLands: the CQE is in its entry of the ring.
LEMMA LandsFacts ==
    ASSUME TypeOK, NEW i \in Cqes, CqeLands(i)
    PROVE  /\ cqe[i].stage = "dma" /\ stack = <<>> /\ cqe[i].jfc \in Jfcs
           /\ Reaches(i, "landed") /\ SamePlace(i)
           /\ mem' = [mem EXCEPT ![cqe[i].jfc][cqe[i].pos % Depth] = [owner |-> Owner(cqe[i].pos), id |-> i]]
           /\ UNCHANGED <<jfc, submitted, waiting, entry, faults, stack>> /\ SameNotify /\ SameCommand
           /\ UNCHANGED <<ci, seen, eq, eqRead, irq, asleep>>
  <1>1. cqe \in [Cqes -> CqeRecord] /\ cqe[i] \in CqeRecord /\ cqe[i].jfc \in Jfcs
    BY DEF TypeOK, EngineType, CqeRecord
  <1>2. cqe' = [cqe EXCEPT ![i] = [cqe[i] EXCEPT !.stage = "landed"]]
    BY <1>1 DEF CqeLands
  <1>3. Reaches(i, "landed") /\ SamePlace(i)
    BY <1>1, <1>2 DEF Reaches, OnlyCqe, SamePlace, CqeRecord
  <1> QED
    BY <1>1, <1>3 DEF CqeLands, Idle, notify, command, SameNotify, SameCommand

\* CqeWritten: the write is acknowledged and counted, or notified.
LEMMA WrittenFacts ==
    ASSUME TypeOK, NEW i \in Cqes, CqeWritten(i)
    PROVE  /\ cqe[i].stage = "landed" /\ stack = <<>> /\ cqe[i].jfc \in Jfcs /\ jfc[cqe[i].jfc].live
           /\ Reaches(i, "okcb") /\ SamePlace(i)
           /\ \A k \in Jfcs : k # cqe[i].jfc => jfc'[k] = jfc[k]
           /\ jfc'[cqe[i].jfc].live /\ jfc'[cqe[i].jfc].gen = jfc[cqe[i].jfc].gen
           /\ jfc'[cqe[i].jfc].consumer = jfc[cqe[i].jfc].consumer
           /\ jfc'[cqe[i].jfc].period = jfc[cqe[i].jfc].period
           /\ jfc'[cqe[i].jfc].producer = IF Pipelined THEN jfc[cqe[i].jfc].producer
                                          ELSE jfc[cqe[i].jfc].producer + 1
           /\ \/ /\ jfc'[cqe[i].jfc].pend = jfc[cqe[i].jfc].pend + 1
                 /\ jfc'[cqe[i].jfc].deadline = (IF jfc[cqe[i].jfc].deadline = "none" /\ jfc[cqe[i].jfc].period
                                                 THEN "armed" ELSE jfc[cqe[i].jfc].deadline)
                 /\ jfc'[cqe[i].jfc].armed = jfc[cqe[i].jfc].armed
                 /\ stack' = Finish(i, stack) /\ events' = events
              \/ /\ Notifies(cqe[i].jfc) /\ events' = Append(events, [jfc |-> cqe[i].jfc, ceq |-> CeqOf[cqe[i].jfc]])
                 /\ stack' = Push(<<FrameFor("dispatch", 0), FrameFor("caller", i), FrameFor("release", i)>>, stack)
              \/ /\ ~Notifies(cqe[i].jfc) /\ events' = events
                 /\ stack' = Push(<<FrameFor("slot", 0), FrameFor("caller", i), FrameFor("release", i)>>, stack)
           /\ UNCHANGED <<submitted, waiting, entry, faults, active, ceq>> /\ SameCommand /\ SameGuest
  <1>1. /\ cqe \in [Cqes -> CqeRecord] /\ cqe[i] \in CqeRecord /\ cqe[i].jfc \in Jfcs
        /\ jfc \in [Jfcs -> JfcRecord]
    BY DEF TypeOK, EngineType, CqeRecord
  <1>2. PICK j \in Jfcs : j = cqe[i].jfc
    BY <1>1
  <1>3. jfc[j] \in JfcRecord
    BY <1>1
  <1>4. /\ cqe[i].stage = "landed" /\ stack = <<>> /\ jfc[j].live
        /\ UNCHANGED <<submitted, waiting, entry, faults, active, ceq>> /\ SameCommand /\ SameGuest
    BY <1>2 DEF CqeWritten, Idle, command, guest, SameCommand, SameGuest
  <1>5. cqe' = [cqe EXCEPT ![i] = [cqe[i] EXCEPT !.stage = "okcb"]]
    BY <1>1 DEF CqeWritten
  <1>6. Reaches(i, "okcb") /\ SamePlace(i)
    BY <1>1, <1>5 DEF Reaches, OnlyCqe, SamePlace, CqeRecord
  <1> DEFINE committed == [jfc[j] EXCEPT !.producer = IF Pipelined THEN @ ELSE @ + 1]
             counted == [committed EXCEPT !.pend = @ + 1,
                             !.deadline = IF @ = "none" /\ jfc[j].period THEN "armed" ELSE @]
             notified == [committed EXCEPT !.pend = 0, !.deadline = "none", !.armed = FALSE]
  <1>7. CASE jfc[j].pend + 1 < jfc[j].count
    <2>1. jfc' = [jfc EXCEPT ![j] = counted] /\ stack' = Finish(i, stack) /\ events' = events
      BY <1>2, <1>7 DEF CqeWritten
    <2>2. jfc'[j] = counted /\ \A k \in Jfcs : k # j => jfc'[k] = jfc[k]
      BY <1>1, <2>1
    <2>3. /\ counted.live = jfc[j].live /\ counted.gen = jfc[j].gen /\ counted.consumer = jfc[j].consumer
          /\ counted.producer = (IF Pipelined THEN jfc[j].producer ELSE jfc[j].producer + 1)
          /\ counted.pend = jfc[j].pend + 1 /\ counted.armed = jfc[j].armed /\ counted.period = jfc[j].period
          /\ counted.deadline = (IF jfc[j].deadline = "none" /\ jfc[j].period THEN "armed" ELSE jfc[j].deadline)
      BY <1>3 DEF JfcRecord
    <2> HIDE DEF counted
    <2> QED
      BY <1>2, <1>4, <1>6, <2>1, <2>2, <2>3
  <1>8. CASE ~(jfc[j].pend + 1 < jfc[j].count)
    <2>1. /\ jfc' = [jfc EXCEPT ![j] = notified]
          /\ \/ /\ Notifies(j) /\ events' = Append(events, [jfc |-> j, ceq |-> CeqOf[j]])
                /\ stack' = Push(<<FrameFor("dispatch", 0), FrameFor("caller", i), FrameFor("release", i)>>, stack)
             \/ /\ ~Notifies(j) /\ events' = events
                /\ stack' = Push(<<FrameFor("slot", 0), FrameFor("caller", i), FrameFor("release", i)>>, stack)
      BY <1>2, <1>8 DEF CqeWritten
    <2>2. jfc'[j] = notified /\ \A k \in Jfcs : k # j => jfc'[k] = jfc[k]
      BY <1>1, <2>1
    <2>3. /\ notified.live = jfc[j].live /\ notified.gen = jfc[j].gen /\ notified.consumer = jfc[j].consumer
          /\ notified.producer = (IF Pipelined THEN jfc[j].producer ELSE jfc[j].producer + 1)
          /\ notified.period = jfc[j].period
      BY <1>3 DEF JfcRecord
    <2> HIDE DEF notified
    <2> QED
      BY <1>2, <1>4, <1>6, <2>1, <2>2, <2>3
  <1> QED
    BY <1>7, <1>8

\* CqeDmaFails: the completion keeps its place and fails.
LEMMA DmaFailsFacts ==
    ASSUME TypeOK, NEW i \in Cqes, CqeDmaFails(i)
    PROVE  /\ cqe[i].stage \in {"read", "dma"} /\ stack = <<>> /\ cqe[i].jfc \in Jfcs
           /\ Reaches(i, "failcb") /\ SamePlace(i) /\ stack' = Finish(i, stack) /\ faults' = faults + 1
           /\ UNCHANGED <<jfc, submitted, waiting, entry>> /\ SameNotify /\ SameCommand /\ SameGuest
  <1>1. cqe \in [Cqes -> CqeRecord] /\ cqe[i] \in CqeRecord /\ cqe[i].jfc \in Jfcs
    BY DEF TypeOK, EngineType, CqeRecord
  <1>2. cqe' = [cqe EXCEPT ![i] = [cqe[i] EXCEPT !.stage = "failcb"]]
    BY <1>1 DEF CqeDmaFails
  <1>3. Reaches(i, "failcb") /\ SamePlace(i)
    BY <1>1, <1>2 DEF Reaches, OnlyCqe, SamePlace, CqeRecord
  <1> QED
    BY <1>1, <1>3 DEF CqeDmaFails, Idle, Fault, notify, command, guest, SameNotify, SameCommand, SameGuest

\* A finished publication calls back.
LEMMA Finished ==
    ASSUME NEW q, NEW g \in Seq(Frame), NEW i \in Cqes, q[i].stage \in {"okcb", "failcb"}, Releasing(g, cqe),
           \A k \in Cqes : k # i => q[k] = cqe[k], cqe[i].stage \notin {"okcb", "failcb"}, NEW op \in {"dispatch", "slot"}
    PROVE  /\ Releasing(Finish(i, g), q)
           /\ Releasing(Push(<<FrameFor(op, 0), FrameFor("caller", i), FrameFor("release", i)>>, g), q)
  <1>1. /\ FrameFor("caller", i) \in Frame /\ FrameFor("release", i) \in Frame /\ FrameFor("slot", 0) \in Frame
        /\ FrameFor(op, 0) \in Frame /\ FrameFor("caller", i).op # "release" /\ FrameFor("release", i).op = "release"
        /\ FrameFor("release", i).id = i /\ FrameFor("slot", 0).op # "release" /\ FrameFor(op, 0).op # "release"
    BY FrameType, BoundAssumption DEF FrameOps, FrameFor, Cqes
  <1>2. \A a \in DOMAIN g : g[a].op = "release" =>
               /\ g[a].id \in Cqes /\ q[g[a].id].stage \in {"okcb", "failcb"} /\ g[a].id # i
               /\ \A b \in DOMAIN g : g[b].op = "release" /\ g[b].id = g[a].id => a = b
    BY DEF Releasing
  <1>3. Releasing(Finish(i, g), q)
    <2> DEFINE f == <<FrameFor("caller", i), FrameFor("release", i), FrameFor("slot", 0)>>
    <2>1. f \in Seq(Frame) /\ 2 \in DOMAIN f /\ f[2].id = i /\ \A a \in DOMAIN f : f[a].op = "release" <=> a = 2
      BY <1>1
    <2>2. PICK st : st = Push(f, g)
      OBVIOUS
    <2>3. Finish(i, g) = st
      BY <2>2 DEF Finish
    <2>4. PICK c \in DOMAIN f : c = 2
      BY <2>1
    <2>5. f[c].id = i /\ \A a \in DOMAIN f : f[a].op = "release" <=> a = c
      BY <2>1, <2>4
    <2>6. f \in Seq(Frame) /\ q[i].stage \in {"okcb", "failcb"}
      BY <2>1
    <2> HIDE DEF f
    <2>7. Releasing(st, q)
      BY <2>2, <2>5, <2>6, <1>2, CallbackPushed
    <2> QED
      BY <2>3, <2>7
  <1>4. Releasing(Push(<<FrameFor(op, 0), FrameFor("caller", i), FrameFor("release", i)>>, g), q)
    <2> DEFINE f == <<FrameFor(op, 0), FrameFor("caller", i), FrameFor("release", i)>>
    <2>1. f \in Seq(Frame) /\ 3 \in DOMAIN f /\ f[3].id = i /\ \A a \in DOMAIN f : f[a].op = "release" <=> a = 3
      BY <1>1
    <2>2. PICK st : st = Push(f, g)
      OBVIOUS
    <2>4. PICK c \in DOMAIN f : c = 3
      BY <2>1
    <2>5. f[c].id = i /\ \A a \in DOMAIN f : f[a].op = "release" <=> a = c
      BY <2>1, <2>4
    <2>6. f \in Seq(Frame) /\ q[i].stage \in {"okcb", "failcb"}
      BY <2>1
    <2> HIDE DEF f
    <2>7. Releasing(st, q)
      BY <2>2, <2>5, <2>6, <1>2, CallbackPushed
    <2> QED
      BY <2>2, <2>7 DEF f
  <1> QED
    BY <1>3, <1>4

\* Callbacks already called are not touched by a completion that reaches a stage before them.
LEMMA CallbacksKept ==
    ASSUME NEW q, NEW g \in Seq(Frame), Releasing(g, cqe), NEW i, cqe[i].stage \notin {"okcb", "failcb"},
           \A k \in Cqes : k # i => q[k] = cqe[k]
    PROVE  Releasing(g, q)
  BY DEF Releasing

\* Every step keeps the callbacks of the stack.
LEMMA StackStep ==
    ASSUME TypeOK, StackInv, QueueInv, Next
    PROVE  StackInv'
  <1>1. stack \in Seq(Frame) /\ Releasing(stack, cqe)
    BY DEF TypeOK, ControlType, StackInv
  <1>2. stack # <<>> => Tail(stack) \in Seq(Frame) /\ Releasing(Tail(stack), cqe)
    BY <1>1, PoppedCall
  <1>3. ASSUME NEW g, Releasing(g, cqe), stack' = g, cqe' = cqe
        PROVE  StackInv'
    BY <1>3 DEF StackInv
  <1>4. CASE CallerReturns \/ DispatchReturns \/ NoDestroyReady
    <2>1. stack # <<>> /\ stack' = Tail(stack) /\ cqe' = cqe
      BY <1>4 DEF CallerReturns, DispatchReturns, NoDestroyReady, Running, Rest, engine
    <2> QED
      BY <1>2, <1>3, <2>1
  <1>5. CASE Release
    <2>1. PICK i \in Cqes : /\ stack # <<>> /\ Head(stack).op = "release" /\ Head(stack).id = i
                            /\ stack' = CallPump(Tail(stack))
                            /\ Reaches(i, IF cqe[i].stage = "okcb" THEN "ok" ELSE "failed")
      BY <1>5, ReleaseFacts
    <2>2. /\ Releasing(Tail(stack), cqe) /\ Tail(stack) \in Seq(Frame)
          /\ \A a \in DOMAIN Tail(stack) : Tail(stack)[a].op = "release" => Tail(stack)[a].id # i
      BY <1>1, <2>1, PoppedCall
    <2>3. Releasing(Tail(stack), cqe')
      BY <2>1, <2>2 DEF Releasing, Reaches, OnlyCqe
    <2>4. Releasing(CallPump(Tail(stack)), cqe')
      BY <2>2, <2>3, PumpCalled
    <2> QED
      BY <2>1, <2>4 DEF StackInv
  <1>6. CASE ReleaseCompletionEventSlot
    <2>1. stack # <<>> /\ stack' = CallPump(Tail(stack)) /\ cqe' = cqe
      BY <1>6 DEF ReleaseCompletionEventSlot, Running, Rest
    <2> QED
      BY <1>2, <1>3, <2>1, PumpCalled
  <1>7. CASE PumpLoop \/ PumpIds \/ EndPass
    <2>1. (stack' = stack \/ (stack # <<>> /\ stack' = Tail(stack))) /\ cqe' = cqe
      BY <1>7 DEF PumpLoop, PumpIds, EndPass, Running, Rest, engine
    <2> QED
      BY <1>1, <1>2, <1>3, <2>1
  <1>8. ASSUME NEW j \in Jfcs, PumpTimer(j)
        PROVE  StackInv'
    <2>1. (stack' = stack \/ stack' = Push(<<FrameFor("dispatch", 0)>>, stack)) /\ cqe' = cqe
      BY <1>8 DEF PumpTimer
    <2>2. Releasing(Push(<<FrameFor("dispatch", 0)>>, stack), cqe)
      BY <1>1, CallMade DEF FrameOps
    <2> QED
      BY <1>1, <1>3, <2>1, <2>2
  <1>9. ASSUME NEW j \in Jfcs, Admit(j)
        PROVE  StackInv'
    <2>1. PICK i \in Cqes :
            /\ cqe[i].stage = "waiting" /\ OnlyCqe(i)
            /\ \/ stack' = stack
               \/ stack' = Finish(i, stack) /\ cqe'[i].stage = "failcb"
      BY <1>9, AdmitFacts DEF Reaches
    <2>2. CASE stack' = stack
      BY <1>1, <2>1, <2>2, CallbacksKept DEF StackInv, OnlyCqe
    <2>3. CASE stack' = Finish(i, stack) /\ cqe'[i].stage = "failcb"
      BY <1>1, <2>1, <2>3, Finished DEF StackInv, OnlyCqe
    <2> QED
      BY <2>1, <2>2, <2>3
  <1>10. ASSUME NEW j \in Jfcs, LeaveJfc(j)
         PROVE  StackInv'
    <2>1. (stack' = stack \/ stack' = Push(<<FrameFor("maybe", 0)>>, stack)) /\ cqe' = cqe
      BY <1>10 DEF LeaveJfc, Erased
    <2>2. Releasing(Push(<<FrameFor("maybe", 0)>>, stack), cqe)
      BY <1>1, CallMade DEF FrameOps
    <2> QED
      BY <1>1, <1>3, <2>1, <2>2
  <1>11. ASSUME DispatchEnds \/ \E k \in DOMAIN events : StartEvent(k)
         PROVE  StackInv'
    <2>1. stack # <<>> /\ stack' = Push(<<FrameFor("maybe", 0)>>, Tail(stack)) /\ cqe' = cqe
      BY <1>11 DEF DispatchEnds, StartEvent, Dispatching, Running, Rest, engine
    <2>2. Releasing(Push(<<FrameFor("maybe", 0)>>, Tail(stack)), cqe)
      BY <1>2, <2>1, CallMade DEF FrameOps
    <2> QED
      BY <1>3, <2>1, <2>2
  <1>12. ASSUME NEW k \in DOMAIN events, DropEvent(k)
         PROVE  StackInv'
    <2>1. stack' = Push(<<FrameFor("slot", 0)>>, stack) /\ cqe' = cqe
      BY <1>12 DEF DropEvent, engine
    <2>2. Releasing(Push(<<FrameFor("slot", 0)>>, stack), cqe)
      BY <1>1, CallMade DEF FrameOps
    <2> QED
      BY <1>3, <2>1, <2>2
  <1>13. ASSUME \/ \E j \in Jfcs : CompleteJfcDestroy(j)
                \/ \E c \in Ceqs : CompleteEqDestroy(c)
         PROVE  StackInv'
    <2>1. stack # <<>> /\ stack' = Tail(stack) /\ cqe' = cqe
      BY <1>13 DEF CompleteJfcDestroy, CompleteEqDestroy, Running, Rest, engine
    <2> QED
      BY <1>2, <1>3, <2>1
  <1>14. ASSUME NEW i \in Cqes, ConsumerRead(i) \/ CqeDmaFails(i)
         PROVE  StackInv'
    <2>1. /\ cqe[i].stage \in {"read", "dma"} /\ OnlyCqe(i)
          /\ \/ stack' = stack
             \/ stack' = Finish(i, stack) /\ cqe'[i].stage = "failcb"
      BY <1>14, ReadFacts, DmaFailsFacts DEF Reaches
    <2>2. CASE stack' = stack
      BY <1>1, <2>1, <2>2, CallbacksKept DEF StackInv, OnlyCqe
    <2>3. CASE stack' = Finish(i, stack) /\ cqe'[i].stage = "failcb"
      BY <1>1, <2>1, <2>3, Finished DEF StackInv, OnlyCqe
    <2> QED
      BY <2>1, <2>2, <2>3
  <1>15. ASSUME NEW i \in Cqes, CqeLands(i)
         PROVE  StackInv'
    <2>1. cqe[i].stage = "dma" /\ OnlyCqe(i) /\ stack' = stack
      BY <1>15, LandsFacts DEF Reaches
    <2> QED
      BY <1>1, <2>1, CallbacksKept DEF StackInv, OnlyCqe
  <1>16. ASSUME NEW i \in Cqes, CqeWritten(i)
         PROVE  StackInv'
    <2>1. /\ cqe[i].stage = "landed" /\ OnlyCqe(i) /\ cqe'[i].stage = "okcb"
          /\ \/ stack' = Finish(i, stack)
             \/ stack' = Push(<<FrameFor("dispatch", 0), FrameFor("caller", i), FrameFor("release", i)>>, stack)
             \/ stack' = Push(<<FrameFor("slot", 0), FrameFor("caller", i), FrameFor("release", i)>>, stack)
      BY <1>16, WrittenFacts DEF Reaches
    <2>2. /\ Releasing(Finish(i, stack), cqe')
          /\ Releasing(Push(<<FrameFor("dispatch", 0), FrameFor("caller", i), FrameFor("release", i)>>, stack), cqe')
          /\ Releasing(Push(<<FrameFor("slot", 0), FrameFor("caller", i), FrameFor("release", i)>>, stack), cqe')
      BY <1>1, <2>1, Finished DEF OnlyCqe
    <2> QED
      BY <2>1, <2>2 DEF StackInv
  <1>17. ASSUME NEW j \in Jfcs, AdvanceTime(j)
         PROVE  StackInv'
    <2>1. stack' = CallPump(stack) /\ cqe' = cqe
      BY <1>17 DEF AdvanceTime
    <2> QED
      BY <1>1, <1>3, <2>1, PumpCalled
  <1>18. ASSUME \/ \E j \in Jfcs : ApplyCreateJfc(j) \/ QueryJfcRead(j) \/ PollCq(j) \/ ArmJfc(j) \/ Sleep(j)
                \/ \E j \in Jfcs : CreateJfc(j) \/ ModifyJfc(j) \/ QueryJfc(j) \/ DestroyJfc(j)
                \/ \E c \in Ceqs : ApplyCreateCeq(c) \/ PollCeq(c) \/ CreateCeq(c) \/ DestroyCeq(c)
                \/ CeqeLands \/ CeqeWritten
         PROVE  StackInv'
    <2>1. stack' = stack /\ cqe' = cqe
      BY <1>18 DEF ApplyCreateJfc, QueryJfcRead, PollCq, ArmJfc, Sleep, CreateJfc, ModifyJfc, QueryJfc, DestroyJfc,
                   ApplyCreateCeq, PollCeq, CreateCeq, DestroyCeq, CeqeLands, CeqeWritten, engine
    <2> QED
      BY <1>1, <1>3, <2>1
  <1>19. ASSUME InterruptDelivered \/ CeqeFails \/ InterruptFails
         PROVE  StackInv'
    <2>1. /\ stack' = Push(<<FrameFor("slot", 0), FrameFor("maybe", 0), FrameFor("dispatch", 0)>>, stack)
          /\ cqe' = cqe
      BY <1>19 DEF InterruptDelivered, CeqeFails, InterruptFails, EventEnds, engine
    <2> QED
      BY <1>1, <1>3, <2>1, ThreeCalls
  <1>20. ASSUME NEW c \in Ceqs, HandleCeqConsumerMmio(c)
         PROVE  StackInv'
    <2>1. stack' = Push(<<FrameFor("dispatch", 0)>>, stack) /\ cqe' = cqe
      BY <1>20 DEF HandleCeqConsumerMmio, engine
    <2>2. Releasing(Push(<<FrameFor("dispatch", 0)>>, stack), cqe)
      BY <1>1, CallMade DEF FrameOps
    <2> QED
      BY <1>3, <2>1, <2>2
  <1>21. ASSUME NEW j \in Jfcs, WriteCqe(j)
         PROVE  StackInv'
    <2>1. PICK i \in Cqes : i = submitted + 1 /\ OnlyCqe(i) /\ (stack' = stack \/ stack' = CallPump(stack))
      BY <1>21, WriteFacts
    <2>2. cqe[i].stage = "new"
      BY <2>1 DEF QueueInv, TypeOK, EngineType
    <2>3. Releasing(stack, cqe')
      BY <1>1, <2>1, <2>2, CallbacksKept DEF OnlyCqe
    <2> QED
      BY <1>1, <2>1, <2>3, PumpCalled DEF StackInv
  <1> QED
    BY <1>4, <1>5, <1>6, <1>7, <1>8, <1>9, <1>10, <1>11, <1>12, <1>13, <1>14, <1>15, <1>16, <1>17, <1>18, <1>19,
       <1>20, <1>21
       DEF Next, HandlerStep, DeviceEvent, Failure, GuestStep, Request

----------------------------------------------------------------------------
(* The queues *)

\* A completion that does not wait changes stage.
LEMMA QueueKept ==
    ASSUME TypeOK, QueueInv, NEW i \in Cqes, OnlyCqe(i), cqe'[i].jfc = cqe[i].jfc, UNCHANGED <<submitted, waiting>>,
           cqe[i].stage \notin {"new", "waiting"}, cqe'[i].stage # "new", Taken(i)' => Taken(i)
    PROVE  QueueInv'
  <1>1. \A k \in Cqes : cqe'[k].jfc = cqe[k].jfc /\ (Taken(k)' => Taken(k)) /\ (cqe'[k].stage = "new" <=> cqe[k].stage = "new")
    BY DEF OnlyCqe, Taken, Placed
  <1>2. \A k \in Cqes : cqe[k].stage = "waiting" => cqe'[k] = cqe[k]
    BY DEF OnlyCqe
  <1>3. \A k \in Cqes : cqe'[k].stage = "new" <=> k > submitted'
    BY <1>1 DEF QueueInv
  <1>4. ASSUME NEW j \in Jfcs, NEW a \in DOMAIN waiting[j]
        PROVE  /\ cqe'[waiting[j][a]].jfc = j /\ cqe'[waiting[j][a]].stage = "waiting"
               /\ \A b \in DOMAIN waiting[j] : a < b => waiting[j][a] < waiting[j][b]
               /\ \A k \in Cqes : cqe'[k].jfc = j /\ Taken(k)' => k < waiting[j][a]
    <2>1. waiting[j][a] \in Cqes
      BY DEF TypeOK, EngineType
    <2> QED
      BY <1>1, <1>2, <2>1 DEF QueueInv
  <1> QED
    BY <1>3, <1>4 DEF QueueInv

\* A completion is submitted.
LEMMA QueueWritten ==
    ASSUME TypeOK, QueueInv, NEW j \in Jfcs, WriteCqe(j)
    PROVE  QueueInv'
  <1>1. PICK i \in Cqes : i = submitted + 1
    BY WriteFacts
  <1>2. /\ submitted' = i /\ OnlyCqe(i) /\ cqe'[i].jfc = j
        /\ \/ cqe'[i].stage = "failed" /\ waiting' = waiting
           \/ cqe'[i].stage = "waiting" /\ waiting' = [waiting EXCEPT ![j] = Append(@, i)]
    BY <1>1, WriteFacts
  <1>3. submitted \in Nat /\ Cqes \subseteq Int /\ waiting \in [Jfcs -> Seq(Cqes)]
    BY DEF TypeOK, EngineType, Cqes
  <1>4. \A k \in Cqes : cqe[k].stage # "new" <=> k < i
    BY <1>1, <1>3 DEF QueueInv
  <1>5. \A k \in Cqes : cqe'[k].stage = "new" <=> k > i
    BY <1>2, <1>3, <1>4 DEF OnlyCqe
  <1>6. \A k \in Cqes : /\ k # i => cqe'[k] = cqe[k]
                        /\ Taken(k)' => Taken(k) /\ k < i /\ cqe'[k] = cqe[k]
    BY <1>2, <1>4 DEF OnlyCqe, Taken, Placed
  <1>7. ASSUME NEW n \in Jfcs, NEW a \in DOMAIN waiting[n]
        PROVE  /\ waiting[n][a] \in Cqes /\ waiting[n][a] < i
               /\ cqe'[waiting[n][a]].jfc = n /\ cqe'[waiting[n][a]].stage = "waiting"
               /\ \A b \in DOMAIN waiting[n] : a < b => waiting[n][a] < waiting[n][b]
               /\ \A k \in Cqes : cqe'[k].jfc = n /\ Taken(k)' => k < waiting[n][a]
    <2>1. waiting[n][a] \in Cqes
      BY <1>3
    <2>2. cqe[waiting[n][a]].jfc = n /\ cqe[waiting[n][a]].stage = "waiting"
      BY DEF QueueInv
    <2>3. waiting[n][a] < i
      BY <2>1, <2>2, <1>4
    <2>4. cqe'[waiting[n][a]].jfc = n /\ cqe'[waiting[n][a]].stage = "waiting"
      <3>1. waiting[n][a] # i
        BY <2>1, <2>3, <1>3
      <3>2. cqe'[waiting[n][a]] = cqe[waiting[n][a]]
        BY <2>1, <3>1, <1>6
      <3> QED
        BY <2>2, <3>2
    <2>5. \A b \in DOMAIN waiting[n] : a < b => waiting[n][a] < waiting[n][b]
      BY DEF QueueInv
    <2>6. ASSUME NEW k \in Cqes, cqe'[k].jfc = n, Taken(k)'
          PROVE  k < waiting[n][a]
      BY <2>6, <1>6 DEF QueueInv
    <2> QED
      BY <2>1, <2>3, <2>4, <2>5, <2>6
  <1>8. ASSUME NEW n \in Jfcs, NEW a \in DOMAIN waiting'[n]
        PROVE  /\ cqe'[waiting'[n][a]].jfc = n /\ cqe'[waiting'[n][a]].stage = "waiting"
               /\ \A b \in DOMAIN waiting'[n] : a < b => waiting'[n][a] < waiting'[n][b]
               /\ \A k \in Cqes : cqe'[k].jfc = n /\ Taken(k)' => k < waiting'[n][a]
    <2>1. CASE waiting'[n] = waiting[n]
      BY <1>7, <2>1
    <2>2. CASE n = j /\ cqe'[i].stage = "waiting" /\ waiting'[n] = Append(waiting[n], i)
      <3>1. waiting[n] \in Seq(Cqes)
        BY <1>3
      <3>2. PICK l \in Nat : l = Len(waiting[n])
        BY <3>1
      <3>3. /\ DOMAIN waiting[n] = 1 .. l /\ DOMAIN waiting'[n] = 1 .. (l + 1)
            /\ waiting'[n][l + 1] = i /\ \A b \in 1 .. l : waiting'[n][b] = waiting[n][b]
        BY <2>2, <3>1, <3>2
      <3>4. CASE a = l + 1
        BY <1>2, <1>6, <2>2, <3>3, <3>4
      <3>5. CASE a \in 1 .. l
        <4>1. waiting'[n][a] = waiting[n][a] /\ a \in DOMAIN waiting[n]
          BY <3>3, <3>5
        <4>2. \A b \in DOMAIN waiting'[n] : a < b => waiting'[n][a] < waiting'[n][b]
          BY <1>7, <3>3, <4>1
        <4> QED
          BY <1>7, <4>1, <4>2
      <3> QED
        BY <3>3, <3>4, <3>5
    <2> QED
      BY <1>2, <1>3, <2>1, <2>2
  <1> QED
    BY <1>2, <1>5, <1>8 DEF QueueInv

\* The oldest completion of a queue is admitted.
LEMMA QueueAdmitted ==
    ASSUME TypeOK, QueueInv, NEW j \in Jfcs, Admit(j)
    PROVE  QueueInv'
  <1>1. PICK i \in Cqes :
          /\ waiting[j] # <<>> /\ waiting[j] \in Seq(Cqes) /\ i = Head(waiting[j])
          /\ cqe[i].jfc = j /\ cqe[i].stage = "waiting"
          /\ waiting' = [waiting EXCEPT ![j] = Tail(@)] /\ submitted' = submitted
          /\ Reaches(i, "failcb") \/ Reaches(i, "dma") \/ Reaches(i, "read")
    BY AdmitFacts
  <1>7. OnlyCqe(i) /\ cqe'[i].jfc = j /\ cqe'[i].stage \in {"failcb", "dma", "read"}
    BY <1>1 DEF Reaches
  <1>2. waiting \in [Jfcs -> Seq(Cqes)] /\ Cqes \subseteq Int /\ i = waiting[j][1] /\ 1 \in DOMAIN waiting[j]
    BY <1>1 DEF TypeOK, EngineType, Cqes
  <1>3. \A k \in Cqes : cqe'[k].stage = "new" <=> k > submitted'
    BY <1>1, <1>7 DEF OnlyCqe, QueueInv
  <1>4. \A k \in Cqes : k # i => cqe'[k] = cqe[k] /\ (Taken(k)' <=> Taken(k))
    BY <1>1, <1>7 DEF OnlyCqe, Taken, Placed
  <1>5. ASSUME NEW n \in Jfcs, NEW a \in DOMAIN waiting[n], waiting[n][a] # i
        PROVE  /\ cqe'[waiting[n][a]].jfc = n /\ cqe'[waiting[n][a]].stage = "waiting"
               /\ \A b \in DOMAIN waiting[n] : a < b => waiting[n][a] < waiting[n][b]
               /\ \A k \in Cqes : k # i /\ cqe'[k].jfc = n /\ Taken(k)' => k < waiting[n][a]
    <2>1. waiting[n][a] \in Cqes
      BY <1>2
    <2> QED
      BY <2>1, <1>4, <1>5 DEF QueueInv
  <1>6. ASSUME NEW n \in Jfcs, NEW a \in DOMAIN waiting'[n]
        PROVE  /\ cqe'[waiting'[n][a]].jfc = n /\ cqe'[waiting'[n][a]].stage = "waiting"
               /\ \A b \in DOMAIN waiting'[n] : a < b => waiting'[n][a] < waiting'[n][b]
               /\ \A k \in Cqes : cqe'[k].jfc = n /\ Taken(k)' => k < waiting'[n][a]
    <2>1. CASE n # j
      <3>1. waiting'[n] = waiting[n] /\ waiting[n][a] \in Cqes
        BY <1>1, <1>2, <2>1
      <3>2. waiting[n][a] # i
        BY <1>1, <2>1, <3>1 DEF QueueInv
      <3> QED
        BY <1>1, <1>5, <1>7, <2>1, <3>1, <3>2
    <2>2. CASE n = j
      <3>1. PICK l \in Nat : l = Len(waiting[j])
        BY <1>1
      <3>2. waiting'[n] = Tail(waiting[j])
        BY <1>1, <1>2, <2>2
      <3>3. /\ DOMAIN waiting[j] = 1 .. l /\ DOMAIN waiting'[n] = 1 .. (l - 1)
            /\ \A b \in 1 .. (l - 1) : waiting'[n][b] = waiting[j][b + 1] /\ b + 1 \in DOMAIN waiting[j]
        <4>1. Tail(waiting[j]) \in Seq(Cqes) /\ Len(Tail(waiting[j])) = l - 1
          BY <1>1, <3>1
        <4>2. \A b \in 1 .. (l - 1) : Tail(waiting[j])[b] = waiting[j][b + 1]
          BY <1>1, <3>1
        <4>3. DOMAIN waiting[j] = 1 .. l /\ l # 0
          BY <1>1, <3>1
        <4> QED
          BY <3>2, <4>1, <4>2, <4>3
      <3>4. a \in 1 .. (l - 1) /\ waiting'[n][a] = waiting[j][a + 1] /\ a + 1 \in DOMAIN waiting[j]
        BY <3>3
      <3>5. i < waiting[j][a + 1] /\ waiting[j][a + 1] # i
        <4>1. 1 < a + 1
          BY <3>4
        <4>2. waiting[j][a + 1] \in Cqes
          BY <3>4, <1>2
        <4>3. waiting[j][1] < waiting[j][a + 1]
          BY <3>4, <4>1, <1>2 DEF QueueInv
        <4> QED
          BY <4>2, <4>3, <1>2
      <3>6. \A b \in DOMAIN waiting'[n] : a < b => waiting'[n][a] < waiting'[n][b]
        BY <3>3, <3>4 DEF QueueInv
      <3> QED
        BY <1>5, <2>2, <3>4, <3>5, <3>6
    <2> QED
      BY <2>1, <2>2
  <1> QED
    BY <1>3, <1>6 DEF QueueInv

\* Every step keeps the queues.
LEMMA QueueStep ==
    ASSUME TypeOK, StackInv, QueueInv, Next
    PROVE  QueueInv'
  <1>1. ASSUME UNCHANGED <<cqe, submitted, waiting>>
        PROVE  QueueInv'
    BY <1>1 DEF QueueInv, Taken, Placed
  <1>2. CASE Release
    <2>1. PICK i \in Cqes : /\ cqe[i].stage \in {"okcb", "failcb"}
                            /\ Reaches(i, IF cqe[i].stage = "okcb" THEN "ok" ELSE "failed")
                            /\ UNCHANGED <<submitted, waiting>>
      BY <1>2, ReleaseFacts
    <2> QED
      BY <2>1, QueueKept DEF Reaches, Taken, Placed
  <1>3. ASSUME NEW i \in Cqes, ConsumerRead(i)
        PROVE  QueueInv'
    <2>1. cqe[i].stage = "read" /\ (Reaches(i, "dma") \/ Reaches(i, "failcb")) /\ UNCHANGED <<submitted, waiting>>
      BY <1>3, ReadFacts
    <2> QED
      BY <2>1, QueueKept DEF Reaches, Taken, Placed
  <1>4. ASSUME NEW i \in Cqes, CqeDmaFails(i)
        PROVE  QueueInv'
    <2>1. cqe[i].stage \in {"read", "dma"} /\ Reaches(i, "failcb") /\ UNCHANGED <<submitted, waiting>>
      BY <1>4, DmaFailsFacts
    <2> QED
      BY <2>1, QueueKept DEF Reaches, Taken, Placed
  <1>5. ASSUME NEW i \in Cqes, CqeLands(i) \/ CqeWritten(i)
        PROVE  QueueInv'
    <2>1. /\ cqe[i].stage \in {"dma", "landed"} /\ (Reaches(i, "landed") \/ Reaches(i, "okcb"))
          /\ UNCHANGED <<submitted, waiting>>
      BY <1>5, LandsFacts, WrittenFacts
    <2> QED
      BY <2>1, QueueKept DEF Reaches, Taken, Placed
  <1>6. ASSUME \/ CallerReturns \/ ReleaseCompletionEventSlot \/ PumpLoop \/ PumpIds \/ EndPass
               \/ \E j \in Jfcs : PumpTimer(j) \/ LeaveJfc(j) \/ CompleteJfcDestroy(j)
               \/ DispatchReturns \/ DispatchEnds \/ NoDestroyReady
               \/ \E c \in Ceqs : CompleteEqDestroy(c)
               \/ \E k \in DOMAIN events : StartEvent(k) \/ DropEvent(k)
        PROVE  QueueInv'
    <2>1. UNCHANGED <<cqe, submitted, waiting>>
      BY <1>6 DEF CallerReturns, ReleaseCompletionEventSlot, PumpLoop, PumpIds, EndPass, PumpTimer, LeaveJfc,
                  CompleteJfcDestroy, DispatchReturns, DispatchEnds, NoDestroyReady, CompleteEqDestroy, StartEvent,
                  DropEvent, engine
    <2> QED
      BY <1>1, <2>1
  <1>7. ASSUME \/ \E j \in Jfcs : AdvanceTime(j) \/ ApplyCreateJfc(j) \/ QueryJfcRead(j)
               \/ \E c \in Ceqs : ApplyCreateCeq(c)
               \/ CeqeLands \/ CeqeWritten \/ InterruptDelivered \/ CeqeFails \/ InterruptFails \/ GuestStep
        PROVE  QueueInv'
    <2>1. UNCHANGED <<cqe, submitted, waiting>>
      BY <1>7 DEF AdvanceTime, ApplyCreateJfc, QueryJfcRead, ApplyCreateCeq, CeqeLands, CeqeWritten,
                  InterruptDelivered, CeqeFails, InterruptFails, GuestStep, PollCq, ArmJfc, Sleep, PollCeq,
                  HandleCeqConsumerMmio, engine
    <2> QED
      BY <1>1, <2>1
  <1>8. ASSUME \/ \E j \in Jfcs : CreateJfc(j) \/ ModifyJfc(j) \/ QueryJfc(j) \/ DestroyJfc(j)
               \/ \E c \in Ceqs : CreateCeq(c) \/ DestroyCeq(c)
        PROVE  QueueInv'
    <2>1. UNCHANGED <<cqe, submitted, waiting>>
      BY <1>8 DEF CreateJfc, ModifyJfc, QueryJfc, DestroyJfc, CreateCeq, DestroyCeq, engine
    <2> QED
      BY <1>1, <2>1
  <1> QED
    BY <1>2, <1>3, <1>4, <1>5, <1>6, <1>7, <1>8, QueueWritten, QueueAdmitted
       DEF Next, HandlerStep, DeviceEvent, Failure, Request

----------------------------------------------------------------------------
(* What the other steps change of a JFC *)

\* Every JFC but j is left.
OnlyJfc(j) == \A k \in Jfcs : k # j => jfc'[k] = jfc[k]
SamePending(j) ==
    jfc'[j].pend = jfc[j].pend /\ jfc'[j].period = jfc[j].period /\ jfc'[j].armed = jfc[j].armed

\* PumpTimer: the moderation count of j starts again.
LEMMA TimerFacts ==
    ASSUME TypeOK, NEW j \in Jfcs, PumpTimer(j)
    PROVE  /\ OnlyJfc(j) /\ SameJfc(j) /\ jfc'[j].pend = 0
           /\ \/ events' = Append(events, [jfc |-> j, ceq |-> CeqOf[j]])
              \/ ~Notifies(j) /\ events' = events
           /\ UNCHANGED <<cqe, submitted, waiting, entry, active, ceq, faults>> /\ SameCommand /\ SameGuest
  <1>1. jfc \in [Jfcs -> JfcRecord] /\ jfc[j] \in JfcRecord
    BY DEF TypeOK, EngineType
  <1>2. jfc' = [jfc EXCEPT ![j] = [jfc[j] EXCEPT !.pend = 0, !.deadline = "none", !.armed = FALSE]]
    BY <1>1 DEF PumpTimer
  <1>3. OnlyJfc(j) /\ SameJfc(j) /\ jfc'[j].pend = 0
    BY <1>1, <1>2 DEF OnlyJfc, SameJfc, JfcRecord
  <1> QED
    BY <1>3 DEF PumpTimer, command, guest, SameCommand, SameGuest

\* AdvanceTime: the deadline of j has passed.
LEMMA ClockFacts ==
    ASSUME TypeOK, NEW j \in Jfcs, AdvanceTime(j)
    PROVE  /\ OnlyJfc(j) /\ SameJfc(j) /\ SamePending(j) /\ jfc'[j].deadline = "expired"
           /\ UNCHANGED <<cqe, submitted, waiting, entry, faults>> /\ SameNotify /\ SameCommand /\ SameGuest
  <1>1. jfc \in [Jfcs -> JfcRecord] /\ jfc[j] \in JfcRecord
    BY DEF TypeOK, EngineType
  <1>2. jfc' = [jfc EXCEPT ![j] = [jfc[j] EXCEPT !.deadline = "expired"]]
    BY <1>1 DEF AdvanceTime
  <1>3. OnlyJfc(j) /\ SameJfc(j) /\ SamePending(j) /\ jfc'[j].deadline = "expired"
    BY <1>1, <1>2 DEF OnlyJfc, SameJfc, SamePending, JfcRecord
  <1> QED
    BY <1>3 DEF AdvanceTime, notify, command, guest, SameNotify, SameCommand, SameGuest

\* ArmJfc: j is armed.
LEMMA ArmFacts ==
    ASSUME TypeOK, NEW j \in Jfcs, ArmJfc(j)
    PROVE  /\ OnlyJfc(j) /\ SameJfc(j) /\ jfc'[j].armed
           /\ jfc'[j].pend = jfc[j].pend /\ jfc'[j].period = jfc[j].period /\ jfc'[j].deadline = jfc[j].deadline
           /\ UNCHANGED <<cqe, submitted, waiting, entry, stack, faults>> /\ SameNotify /\ SameCommand /\ SameGuest
  <1>1. jfc \in [Jfcs -> JfcRecord] /\ jfc[j] \in JfcRecord
    BY DEF TypeOK, EngineType
  <1>2. jfc' = [jfc EXCEPT ![j] = [jfc[j] EXCEPT !.armed = TRUE]]
    BY <1>1 DEF ArmJfc
  <1>3. /\ OnlyJfc(j) /\ SameJfc(j) /\ jfc'[j].armed
        /\ jfc'[j].pend = jfc[j].pend /\ jfc'[j].period = jfc[j].period /\ jfc'[j].deadline = jfc[j].deadline
    BY <1>1, <1>2 DEF OnlyJfc, SameJfc, JfcRecord
  <1> QED
    BY <1>3 DEF ArmJfc, notify, command, guest, SameNotify, SameCommand, SameGuest

\* ModifyJfc: j has another moderation.
LEMMA ModifyFacts ==
    ASSUME TypeOK, NEW j \in Jfcs, ModifyJfc(j)
    PROVE  /\ OnlyJfc(j) /\ SameJfc(j) /\ modifies' = modifies + 1
           /\ UNCHANGED <<cqe, submitted, waiting, entry, stack, faults, csq, queries>> /\ SameNotify /\ SameGuest
  <1>1. jfc \in [Jfcs -> JfcRecord] /\ jfc[j] \in JfcRecord
    BY DEF TypeOK, EngineType
  <1>2. PICK count \in Counts, period \in Periods :
          jfc' = [jfc EXCEPT ![j] = [jfc[j] EXCEPT !.count = count, !.period = period]]
    BY <1>1 DEF ModifyJfc
  <1>3. OnlyJfc(j) /\ SameJfc(j)
    BY <1>1, <1>2 DEF OnlyJfc, SameJfc, JfcRecord
  <1> QED
    BY <1>3 DEF ModifyJfc, notify, guest, SameNotify, SameGuest

\* QueryJfcRead: j has another cached consumer index.
LEMMA QueriedFacts ==
    ASSUME TypeOK, NEW j \in Jfcs, QueryJfcRead(j)
    PROVE  /\ OnlyJfc(j) /\ jfc'[j].live = jfc[j].live /\ jfc'[j].gen = jfc[j].gen
           /\ SamePending(j) /\ jfc'[j].deadline = jfc[j].deadline
           /\ csq.op = "queryJfc" /\ csq' = NoCmd
           /\ UNCHANGED <<cqe, submitted, waiting, entry, stack, faults, modifies, queries>> /\ SameNotify /\ SameGuest
  <1>1. jfc \in [Jfcs -> JfcRecord] /\ jfc[j] \in JfcRecord
    BY DEF TypeOK, EngineType
  <1>2. PICK v \in queryCi .. ci[j] : jfc' = [jfc EXCEPT ![j] = [jfc[j] EXCEPT !.consumer = Masked(v)]]
    BY <1>1 DEF QueryJfcRead
  <1>3. /\ OnlyJfc(j) /\ jfc'[j].live = jfc[j].live /\ jfc'[j].gen = jfc[j].gen
        /\ SamePending(j) /\ jfc'[j].deadline = jfc[j].deadline
    BY <1>1, <1>2 DEF OnlyJfc, SamePending, JfcRecord
  <1> QED
    BY <1>3 DEF QueryJfcRead, notify, guest, SameNotify, SameGuest

\* ApplyCreateJfc: j starts a new generation on an empty ring.
LEMMA CreatedFacts ==
    ASSUME TypeOK, NEW j \in Jfcs, ApplyCreateJfc(j)
    PROVE  /\ OnlyJfc(j) /\ jfc'[j].live /\ jfc'[j].gen = jfc[j].gen + 1
           /\ jfc'[j].producer = 0 /\ jfc'[j].consumer = 0
           /\ csq = [op |-> "createJfc", id |-> j] /\ csq' = NoCmd
           /\ UNCHANGED <<cqe, submitted, waiting, entry, stack, faults, modifies, queries>> /\ SameNotify /\ SameGuest
  <1>1. jfc \in [Jfcs -> JfcRecord]
    BY DEF TypeOK, EngineType
  <1>2. PICK count \in Counts, period \in Periods : jfc' = [jfc EXCEPT ![j] = FreshJfc(jfc[j].gen + 1, count, period)]
    BY DEF ApplyCreateJfc
  <1>3. /\ OnlyJfc(j) /\ jfc'[j].live /\ jfc'[j].gen = jfc[j].gen + 1
        /\ jfc'[j].producer = 0 /\ jfc'[j].consumer = 0
    BY <1>1, <1>2 DEF OnlyJfc, FreshJfc
  <1> QED
    BY <1>3 DEF ApplyCreateJfc, notify, guest, SameNotify, SameGuest

\* DestroyJfc and CompleteJfcDestroy: a JFC that is not busy dies.
LEMMA DestroyFacts ==
    ASSUME TypeOK, NEW j \in Jfcs, DestroyJfc(j) \/ CompleteJfcDestroy(j)
    PROVE  /\ OnlyJfc(j)
           /\ \/ jfc' = jfc
              \/ ~JfcPublicationBusy(j) /\ ~jfc'[j].live /\ jfc'[j].gen = jfc[j].gen
           /\ csq' \in {csq, NoCmd, [op |-> "destroyJfc", id |-> j]}
           /\ UNCHANGED <<cqe, submitted, waiting, entry, faults, modifies, queries>> /\ SameNotify /\ SameGuest
  <1>1. jfc \in [Jfcs -> JfcRecord] /\ jfc[j] \in JfcRecord
    BY DEF TypeOK, EngineType
  <1>2. \/ jfc' = jfc
        \/ ~JfcPublicationBusy(j) /\ jfc' = [jfc EXCEPT ![j] = DeadJfc(jfc[j].gen)]
    BY <1>1 DEF DestroyJfc, CompleteJfcDestroy
  <1>3. ~DeadJfc(jfc[j].gen).live /\ DeadJfc(jfc[j].gen).gen = jfc[j].gen
    BY DEF DeadJfc, FreshJfc
  <1>4. /\ OnlyJfc(j)
        /\ jfc' = jfc \/ (~JfcPublicationBusy(j) /\ ~jfc'[j].live /\ jfc'[j].gen = jfc[j].gen)
    BY <1>1, <1>2, <1>3 DEF OnlyJfc
  <1>5. csq' \in {csq, NoCmd, [op |-> "destroyJfc", id |-> j]}
    BY DEF DestroyJfc, CompleteJfcDestroy
  <1> QED
    BY <1>4, <1>5 DEF DestroyJfc, CompleteJfcDestroy, notify, guest, SameNotify, SameGuest

\* The steps that change nothing of the engine but slots and the JFC it serves next.
OtherHandler ==
    \/ CallerReturns \/ ReleaseCompletionEventSlot \/ PumpLoop \/ PumpIds \/ EndPass
    \/ DispatchReturns \/ DispatchEnds \/ NoDestroyReady
    \/ \E c \in Ceqs : CompleteEqDestroy(c)
    \/ \E k \in DOMAIN events : StartEvent(k) \/ DropEvent(k)
OtherEvent ==
    \/ \E c \in Ceqs : ApplyCreateCeq(c)
    \/ CeqeLands \/ CeqeWritten \/ InterruptDelivered \/ CeqeFails \/ InterruptFails
OtherGuest ==
    \/ \E j \in Jfcs : PollCq(j) \/ Sleep(j) \/ CreateJfc(j) \/ QueryJfc(j)
    \/ \E c \in Ceqs : PollCeq(c) \/ HandleCeqConsumerMmio(c) \/ CreateCeq(c) \/ DestroyCeq(c)

\* The other steps leave the JFCs and their completions.
LEMMA OtherFacts ==
    ASSUME OtherHandler \/ OtherEvent \/ OtherGuest
    PROVE  UNCHANGED <<jfc, cqe, submitted, waiting, entry>>
  <1>1. CASE OtherHandler
    BY <1>1 DEF OtherHandler, CallerReturns, ReleaseCompletionEventSlot, PumpLoop, PumpIds, EndPass,
                DispatchReturns, DispatchEnds, NoDestroyReady, CompleteEqDestroy, StartEvent, DropEvent, engine
  <1>2. CASE OtherEvent
    BY <1>2 DEF OtherEvent, ApplyCreateCeq, CeqeLands, CeqeWritten, InterruptDelivered, CeqeFails, InterruptFails,
                engine
  <1>3. CASE OtherGuest
    BY <1>3 DEF OtherGuest, PollCq, Sleep, CreateJfc, QueryJfc, PollCeq, HandleCeqConsumerMmio, CreateCeq,
                DestroyCeq, engine
  <1> QED
    BY <1>1, <1>2, <1>3

\* The steps, by what they change.
LEMMA NextCases ==
    ASSUME Next
    PROVE  \/ OtherHandler \/ OtherEvent \/ OtherGuest \/ Release
           \/ \E j \in Jfcs : \/ WriteCqe(j) \/ Admit(j) \/ LeaveJfc(j) \/ PumpTimer(j) \/ AdvanceTime(j)
                              \/ ArmJfc(j) \/ ModifyJfc(j) \/ QueryJfcRead(j) \/ ApplyCreateJfc(j)
                              \/ DestroyJfc(j) \/ CompleteJfcDestroy(j)
           \/ \E i \in Cqes : ConsumerRead(i) \/ CqeLands(i) \/ CqeWritten(i) \/ CqeDmaFails(i)
  BY DEF Next, HandlerStep, DeviceEvent, Failure, GuestStep, Request, OtherHandler, OtherEvent, OtherGuest

----------------------------------------------------------------------------
(* Completions in flight *)

\* The parts of EntryInv, one completion at a time.
LEMMA EntryParts ==
    ASSUME TypeOK, EntryInv
    PROVE  /\ \A i \in Cqes : cqe[i].stage \in InFlightStages => cqe[i].jfc \in entry
           /\ \A j \in Jfcs : waiting[j] # <<>> => j \in entry
           /\ \A i \in Cqes : cqe[i].stage \in InDma => jfc[cqe[i].jfc].live /\ cqe[i].gen = jfc[cqe[i].jfc].gen
           /\ \A i \in Cqes : Taken(i) => cqe[i].gen <= jfc[cqe[i].jfc].gen
  <1>1. ASSUME NEW i \in Cqes, cqe[i].stage \in InFlightStages
        PROVE  cqe[i].jfc \in entry
    <2>1. i \in InFlight(cqe[i].jfc) /\ cqe[i].jfc \in Jfcs
      BY <1>1 DEF InFlight, TypeOK, EngineType, CqeRecord
    <2> QED
      BY <2>1 DEF EntryInv
  <1> QED
    BY <1>1 DEF EntryInv, Mine

\* A completion in flight moves on.
LEMMA EntryKept ==
    ASSUME TypeOK, EntryInv, NEW i \in Cqes, OnlyCqe(i), cqe'[i].jfc = cqe[i].jfc, cqe'[i].gen = cqe[i].gen,
           cqe[i].stage \in InFlightStages, cqe'[i].stage \in InDma => cqe[i].stage \in InDma, Taken(i)' => Taken(i),
           \A j \in Jfcs : jfc'[j].live = jfc[j].live /\ jfc'[j].gen = jfc[j].gen,
           UNCHANGED <<waiting, entry, csq, queries>>
    PROVE  EntryInv'
  <1>1. \A k \in Cqes : /\ cqe'[k].jfc = cqe[k].jfc /\ cqe'[k].gen = cqe[k].gen /\ cqe[k].jfc \in Jfcs
                        /\ cqe'[k].stage \in InFlightStages => cqe[k].stage \in InFlightStages
                        /\ cqe'[k].stage \in InDma => cqe[k].stage \in InDma
                        /\ Taken(k)' => Taken(k)
    BY DEF OnlyCqe, Taken, Placed, TypeOK, EngineType, CqeRecord
  <1>2. \A k \in Cqes : cqe'[k].stage \in InFlightStages => cqe'[k].jfc \in entry'
    BY <1>1, EntryParts
  <1>3. \A k \in Cqes : cqe'[k].stage \in InDma => jfc'[cqe'[k].jfc].live /\ cqe'[k].gen = jfc'[cqe'[k].jfc].gen
    BY <1>1, EntryParts
  <1>4. \A k \in Cqes : Taken(k)' => cqe'[k].gen <= jfc'[cqe'[k].jfc].gen
    BY <1>1, EntryParts
  <1> QED
    BY <1>2, <1>3, <1>4, EntryParts DEF EntryInv, InFlight, Mine

\* Only JFCs change.
LEMMA EntryJfc ==
    ASSUME TypeOK, EntryInv, UNCHANGED <<cqe, waiting, entry>>, csq'.op = "queryJfc" => queries' > 0,
           \A j \in Jfcs : /\ jfc[j].gen <= jfc'[j].gen /\ jfc'[j].gen \in Nat
                           /\ \/ jfc'[j].live = jfc[j].live /\ jfc'[j].gen = jfc[j].gen
                              \/ \A i \in Cqes : cqe[i].stage \in InDma => cqe[i].jfc # j
    PROVE  EntryInv'
  <1>1. \A k \in Cqes : cqe[k].jfc \in Jfcs /\ cqe[k].gen \in Nat /\ (Taken(k)' <=> Taken(k))
    BY BoundAssumption DEF Taken, Placed, TypeOK, EngineType, CqeRecord
  <1>2. \A j \in Jfcs : jfc[j].gen \in Nat
    BY BoundAssumption DEF TypeOK, EngineType, JfcRecord
  <1>3. \A k \in Cqes : cqe'[k].stage \in InFlightStages => cqe'[k].jfc \in entry'
    BY EntryParts
  <1>4. \A k \in Cqes : cqe'[k].stage \in InDma => jfc'[cqe'[k].jfc].live /\ cqe'[k].gen = jfc'[cqe'[k].jfc].gen
    BY <1>1, EntryParts
  <1>5. \A k \in Cqes : Taken(k)' => cqe'[k].gen <= jfc'[cqe'[k].jfc].gen
    BY <1>1, <1>2, EntryParts
  <1> QED
    BY <1>3, <1>4, <1>5, EntryParts DEF EntryInv, InFlight, Mine

\* A JFC that is not busy has no completion in flight.
LEMMA QuietJfc ==
    ASSUME TypeOK, EntryInv, NEW j \in Jfcs, ~JfcPublicationBusy(j)
    PROVE  waiting[j] = <<>> /\ \A i \in Cqes : cqe[i].stage \in InFlightStages => cqe[i].jfc # j
  <1>1. j \in entry => InFlight(j) = {} /\ waiting[j] = <<>>
    BY DEF JfcPublicationBusy, PublicationBusy
  <1> QED
    BY <1>1, EntryParts DEF InFlight

\* Every step keeps the completions in flight.
LEMMA EntryStep ==
    ASSUME TypeOK, TypeOK', CommandInv, StackInv, QueueInv, EntryInv, Next
    PROVE  EntryInv'
  <1>1. CASE OtherHandler \/ OtherEvent \/ OtherGuest
    <2>1. UNCHANGED <<jfc, cqe, submitted, waiting, entry>>
      BY <1>1, OtherFacts
    <2>2. csq'.op = "queryJfc" => queries' > 0
      <3>1. CASE OtherHandler
        BY <3>1 DEF OtherHandler, CallerReturns, ReleaseCompletionEventSlot, PumpLoop, PumpIds, EndPass,
                    DispatchReturns, DispatchEnds, NoDestroyReady, CompleteEqDestroy, StartEvent, DropEvent, command,
                    EntryInv, NoCmd
      <3>2. CASE OtherEvent
        BY <3>2 DEF OtherEvent, ApplyCreateCeq, CeqeLands, CeqeWritten, InterruptDelivered, CeqeFails,
                    InterruptFails, command, EntryInv, NoCmd
      <3>3. CASE OtherGuest
        <4>1. queries \in Nat
          BY DEF TypeOK, CommandType
        <4>2. ASSUME NEW j \in Jfcs, QueryJfc(j)
              PROVE  queries' > 0
          BY <4>1, <4>2 DEF QueryJfc
        <4>3. ASSUME \E c \in Ceqs : CreateCeq(c) \/ DestroyCeq(c)
              PROVE  csq'.op = "queryJfc" => queries' > 0
          BY <4>3 DEF CreateCeq, DestroyCeq, EntryInv
        <4>4. ASSUME NEW j \in Jfcs, CreateJfc(j)
              PROVE  csq'.op = "queryJfc" => queries' > 0
          BY <4>4 DEF CreateJfc
        <4>5. ASSUME \/ \E j \in Jfcs : PollCq(j) \/ Sleep(j)
                     \/ \E c \in Ceqs : PollCeq(c) \/ HandleCeqConsumerMmio(c)
              PROVE  csq'.op = "queryJfc" => queries' > 0
          BY <4>5 DEF PollCq, Sleep, PollCeq, HandleCeqConsumerMmio, command, EntryInv
        <4> QED
          BY <3>3, <4>2, <4>3, <4>4, <4>5 DEF OtherGuest
      <3> QED
        BY <1>1, <3>1, <3>2, <3>3
    <2>3. \A j \in Jfcs : jfc[j].gen \in Nat
      BY BoundAssumption DEF TypeOK, EngineType, JfcRecord
    <2> QED
      BY <2>1, <2>2, <2>3, EntryJfc
  <1>2. CASE Release
    <2>1. PICK i \in Cqes : /\ cqe[i].stage \in {"okcb", "failcb"}
                            /\ Reaches(i, IF cqe[i].stage = "okcb" THEN "ok" ELSE "failed") /\ SamePlace(i)
                            /\ UNCHANGED <<jfc, waiting, entry>> /\ SameCommand
      BY <1>2, ReleaseFacts
    <2> QED
      BY <2>1, EntryKept DEF Reaches, SamePlace, SameCommand, Taken, Placed, InFlightStages, InDma
  <1>3. ASSUME NEW i \in Cqes, ConsumerRead(i)
        PROVE  EntryInv'
    <2>1. /\ cqe[i].stage = "read" /\ (Reaches(i, "dma") \/ Reaches(i, "failcb")) /\ cqe'[i].gen = cqe[i].gen
          /\ UNCHANGED <<waiting, entry>> /\ SameCommand
      BY <1>3, ReadFacts
    <2>2. /\ jfc[cqe[i].jfc] \in JfcRecord /\ cqe[i].jfc \in Jfcs
          /\ OnlyJfc(cqe[i].jfc)
          /\ \/ \E v : jfc'[cqe[i].jfc] = [jfc[cqe[i].jfc] EXCEPT !.consumer = Masked(v),
                                                !.producer = IF Pipelined THEN @ + 1 ELSE @]
             \/ jfc' = jfc
      BY <1>3, ReadFacts DEF TypeOK, EngineType, OnlyJfc
    <2>3. \A j \in Jfcs : jfc'[j].live = jfc[j].live /\ jfc'[j].gen = jfc[j].gen
      <3>1. PICK r : r = jfc[cqe[i].jfc]
        OBVIOUS
      <3>2. \A v : LET q == [r EXCEPT !.consumer = Masked(v), !.producer = IF Pipelined THEN @ + 1 ELSE @]
                   IN  q.live = r.live /\ q.gen = r.gen
        BY <2>2, <3>1 DEF JfcRecord
      <3>3. jfc'[cqe[i].jfc].live = jfc[cqe[i].jfc].live /\ jfc'[cqe[i].jfc].gen = jfc[cqe[i].jfc].gen
        <4>1. CASE jfc' = jfc
          BY <4>1
        <4>2. ASSUME NEW v, jfc'[cqe[i].jfc] = [jfc[cqe[i].jfc] EXCEPT !.consumer = Masked(v),
                                                  !.producer = IF Pipelined THEN @ + 1 ELSE @]
              PROVE  jfc'[cqe[i].jfc].live = jfc[cqe[i].jfc].live /\ jfc'[cqe[i].jfc].gen = jfc[cqe[i].jfc].gen
          BY <4>2, <3>1, <3>2
        <4> QED
          BY <2>2, <4>1, <4>2
      <3> QED
        BY <2>2, <3>3 DEF OnlyJfc
    <2> QED
      BY <2>1, <2>3, EntryKept DEF Reaches, SameCommand, Taken, Placed, InFlightStages, InDma
  <1>4. ASSUME NEW i \in Cqes, CqeDmaFails(i)
        PROVE  EntryInv'
    <2>1. cqe[i].stage \in {"read", "dma"} /\ Reaches(i, "failcb") /\ SamePlace(i) /\ SameCommand
          /\ UNCHANGED <<jfc, waiting, entry>>
      BY <1>4, DmaFailsFacts
    <2> QED
      BY <2>1, EntryKept DEF Reaches, SamePlace, SameCommand, Taken, Placed, InFlightStages, InDma
  <1>5. ASSUME NEW i \in Cqes, CqeLands(i)
        PROVE  EntryInv'
    <2>1. cqe[i].stage = "dma" /\ Reaches(i, "landed") /\ SamePlace(i) /\ SameCommand
          /\ UNCHANGED <<jfc, waiting, entry>>
      BY <1>5, LandsFacts
    <2> QED
      BY <2>1, EntryKept DEF Reaches, SamePlace, SameCommand, Taken, Placed, InFlightStages, InDma
  <1>6. ASSUME NEW i \in Cqes, CqeWritten(i)
        PROVE  EntryInv'
    <2>1. cqe[i].stage = "landed" /\ Reaches(i, "okcb") /\ SamePlace(i) /\ SameCommand
          /\ UNCHANGED <<waiting, entry>>
      BY <1>6, WrittenFacts
    <2>2. /\ OnlyJfc(cqe[i].jfc) /\ jfc'[cqe[i].jfc].live /\ jfc[cqe[i].jfc].live
          /\ jfc'[cqe[i].jfc].gen = jfc[cqe[i].jfc].gen
      BY <1>6, WrittenFacts DEF OnlyJfc
    <2>3. \A j \in Jfcs : jfc'[j].live = jfc[j].live /\ jfc'[j].gen = jfc[j].gen
      <3>1. ASSUME NEW j \in Jfcs PROVE jfc'[j].live \in BOOLEAN /\ jfc[j].live \in BOOLEAN
        BY DEF TypeOK, EngineType, JfcRecord
      <3> QED
        BY <2>2, <3>1 DEF OnlyJfc
    <2> QED
      BY <2>1, <2>3, EntryKept DEF Reaches, SamePlace, SameCommand, Taken, Placed, InFlightStages, InDma
  <1>7. \A j \in Jfcs : jfc[j].gen \in Nat
    BY BoundAssumption DEF TypeOK, EngineType, JfcRecord
  <1>8. ASSUME NEW j \in Jfcs, PumpTimer(j) \/ AdvanceTime(j) \/ ArmJfc(j) \/ ModifyJfc(j) \/ QueryJfcRead(j)
        PROVE  EntryInv'
    <2>1. /\ OnlyJfc(j) /\ jfc'[j].live = jfc[j].live /\ jfc'[j].gen = jfc[j].gen
          /\ UNCHANGED <<cqe, waiting, entry, queries>> /\ csq' \in {csq, NoCmd}
      BY <1>8, TimerFacts, ClockFacts, ArmFacts, ModifyFacts, QueriedFacts DEF SameJfc, SameCommand
    <2>2. csq'.op = "queryJfc" => queries' > 0
      BY <2>1 DEF EntryInv, NoCmd
    <2> QED
      BY <2>1, <2>2, <1>7, EntryJfc DEF OnlyJfc
  <1>9. ASSUME NEW j \in Jfcs, ApplyCreateJfc(j)
        PROVE  EntryInv'
    <2>1. /\ OnlyJfc(j) /\ jfc'[j].gen = jfc[j].gen + 1 /\ csq = [op |-> "createJfc", id |-> j]
          /\ UNCHANGED <<cqe, waiting, entry, queries>> /\ csq' = NoCmd
      BY <1>9, CreatedFacts
    <2>2. ~jfc[j].live
      BY <2>1 DEF CommandInv
    <2>3. \A i \in Cqes : cqe[i].stage \in InDma => cqe[i].jfc # j
      BY <2>2, EntryParts
    <2>4. csq'.op # "queryJfc"
      BY <2>1 DEF NoCmd
    <2> QED
      BY <2>1, <2>3, <2>4, <1>7, EntryJfc DEF OnlyJfc
  <1>10. ASSUME NEW j \in Jfcs, DestroyJfc(j) \/ CompleteJfcDestroy(j)
         PROVE  EntryInv'
    <2>1. /\ OnlyJfc(j) /\ (jfc' = jfc \/ (~JfcPublicationBusy(j) /\ jfc'[j].gen = jfc[j].gen))
          /\ UNCHANGED <<cqe, waiting, entry, queries>>
          /\ csq' \in {csq, NoCmd, [op |-> "destroyJfc", id |-> j]}
      BY <1>10, DestroyFacts
    <2>2. csq'.op = "queryJfc" => queries' > 0
      BY <2>1 DEF EntryInv, NoCmd
    <2>3. CASE jfc' = jfc
      BY <2>1, <2>2, <2>3, <1>7, EntryJfc
    <2>4. CASE ~JfcPublicationBusy(j) /\ jfc'[j].gen = jfc[j].gen
      <3>1. \A i \in Cqes : cqe[i].stage \in InDma => cqe[i].jfc # j
        BY <2>4, QuietJfc DEF InFlightStages
      <3>2. \A k \in Jfcs : /\ jfc[k].gen <= jfc'[k].gen /\ jfc'[k].gen \in Nat
                            /\ \/ jfc'[k].live = jfc[k].live /\ jfc'[k].gen = jfc[k].gen
                               \/ \A i \in Cqes : cqe[i].stage \in InDma => cqe[i].jfc # k
        <4>1. jfc[j].gen <= jfc'[j].gen /\ jfc'[j].gen \in Nat
          BY <2>4, <1>7
        <4>2. \A k \in Jfcs : k # j => jfc'[k] = jfc[k] /\ jfc[k].gen <= jfc[k].gen
          BY <2>1, <1>7 DEF OnlyJfc
        <4> QED
          BY <3>1, <4>1, <4>2, <1>7
      <3> QED
        BY <2>1, <2>2, <3>2, EntryJfc
    <2> QED
      BY <2>1, <2>3, <2>4
  <1>11. ASSUME NEW j \in Jfcs, LeaveJfc(j)
         PROVE  EntryInv'
    <2>1. /\ UNCHANGED <<jfc, cqe, waiting, csq, queries>>
          /\ entry' = entry \/ (entry' = entry \ {j} /\ InFlight(j) = {} /\ waiting[j] = <<>>)
      BY <1>11 DEF LeaveJfc, command
    <2>2. \A k \in Cqes : cqe[k].stage \in InFlightStages => cqe[k].jfc \in entry'
      BY <2>1, EntryParts DEF InFlight
    <2>3. \A k \in Jfcs : waiting[k] # <<>> => k \in entry'
      BY <2>1, EntryParts
    <2> QED
      BY <2>1, <2>2, <2>3 DEF EntryInv, InFlight, Mine, Taken, Placed
  <1>12. ASSUME NEW j \in Jfcs, WriteCqe(j)
         PROVE  EntryInv'
    <2>1. PICK i \in Cqes : i = submitted + 1 /\ OnlyCqe(i) /\ cqe'[i].jfc = j /\ cqe'[i].stage \in {"failed", "waiting"}
      BY <1>12, WriteFacts
    <2>2. /\ \/ waiting' = waiting /\ entry' = entry
             \/ waiting' = [waiting EXCEPT ![j] = Append(@, submitted + 1)] /\ entry' = entry \cup {j}
          /\ UNCHANGED <<jfc, csq, queries>>
      BY <1>12, WriteFacts DEF SameCommand
    <2>3. \A k \in Cqes : cqe'[k].stage \in InFlightStages \/ Taken(k)' => cqe'[k] = cqe[k] /\ (Taken(k)' <=> Taken(k))
      BY <2>1 DEF OnlyCqe, Taken, Placed, InFlightStages, InDma
    <2>4. \A k \in Cqes : cqe'[k].stage \in InFlightStages => cqe'[k].jfc \in entry'
      BY <2>2, <2>3, EntryParts
    <2>5. \A k \in Jfcs : waiting'[k] # <<>> => k \in entry'
      BY <2>2, EntryParts DEF TypeOK, EngineType
    <2>6. \A k \in Cqes : cqe'[k].stage \in InDma => jfc'[cqe'[k].jfc].live /\ cqe'[k].gen = jfc'[cqe'[k].jfc].gen
      BY <2>2, <2>3, EntryParts DEF InFlightStages
    <2>7. \A k \in Cqes : Taken(k)' => cqe'[k].gen <= jfc'[cqe'[k].jfc].gen
      BY <2>2, <2>3, EntryParts
    <2> QED
      BY <2>2, <2>4, <2>5, <2>6, <2>7 DEF EntryInv, InFlight, Mine
  <1>13. ASSUME NEW j \in Jfcs, Admit(j)
         PROVE  EntryInv'
    <2>1. PICK i \in Cqes :
            /\ waiting[j] # <<>> /\ cqe[i].jfc = j /\ cqe'[i].gen = jfc[j].gen /\ OnlyJfc(j)
            /\ Reaches(i, "failcb") \/ (jfc[j].live /\ Reaches(i, "dma")) \/ (jfc[j].live /\ Reaches(i, "read"))
            /\ jfc' = jfc \/ jfc'[j] = [jfc[j] EXCEPT !.producer = @ + 1]
            /\ waiting' = [waiting EXCEPT ![j] = Tail(@)] /\ entry' = entry /\ SameCommand
      BY <1>13, AdmitFacts DEF OnlyJfc
    <2>2. /\ OnlyCqe(i) /\ cqe'[i].jfc = j
          /\ cqe'[i].stage \in {"failcb", "dma", "read"} /\ (cqe'[i].stage \in InDma => jfc[j].live)
      BY <2>1 DEF Reaches, InDma
    <2>3. \A k \in Jfcs : jfc'[k].live = jfc[k].live /\ jfc'[k].gen = jfc[k].gen
      <3>1. PICK r : r = jfc[j]
        OBVIOUS
      <3>2. r \in JfcRecord
        BY <3>1 DEF TypeOK, EngineType
      <3>3. [r EXCEPT !.producer = @ + 1].live = r.live /\ [r EXCEPT !.producer = @ + 1].gen = r.gen
        BY <3>2 DEF JfcRecord
      <3>4. jfc'[j].live = jfc[j].live /\ jfc'[j].gen = jfc[j].gen
        BY <2>1, <3>1, <3>3
      <3> QED
        BY <2>1, <3>4 DEF OnlyJfc
    <2>4. j \in entry
      BY <2>1, EntryParts
    <2>5. \A k \in Cqes : k # i => cqe'[k] = cqe[k] /\ (Taken(k)' <=> Taken(k))
      BY <2>2 DEF OnlyCqe, Taken, Placed
    <2>6. \A k \in Cqes : cqe'[k].stage \in InFlightStages => cqe'[k].jfc \in entry'
      BY <2>1, <2>2, <2>4, <2>5, EntryParts
    <2>7. \A k \in Jfcs : waiting'[k] # <<>> => k \in entry'
      BY <2>1, <2>4, EntryParts DEF TypeOK, EngineType
    <2>8. \A k \in Cqes : cqe[k].jfc \in Jfcs
      BY DEF TypeOK, EngineType, CqeRecord
    <2>9. \A k \in Cqes : cqe'[k].stage \in InDma => jfc'[cqe'[k].jfc].live /\ cqe'[k].gen = jfc'[cqe'[k].jfc].gen
      BY <2>1, <2>2, <2>3, <2>5, <2>8, EntryParts
    <2>10. \A k \in Cqes : Taken(k)' => cqe'[k].gen <= jfc'[cqe'[k].jfc].gen
      BY <2>1, <2>2, <2>3, <2>5, <2>8, <1>7, EntryParts
    <2> QED
      BY <2>1, <2>6, <2>7, <2>9, <2>10 DEF EntryInv, InFlight, Mine, SameCommand
  <1> QED
    BY <1>1, <1>2, <1>3, <1>4, <1>5, <1>6, <1>8, <1>9, <1>10, <1>11, <1>12, <1>13, NextCases

----------------------------------------------------------------------------
(* Events and the guest's sleep *)

\* The steps on completions and JFCs leave CEQs and the sleeping guest alone.
EngineStep ==
    \/ Release
    \/ \E j \in Jfcs : \/ WriteCqe(j) \/ Admit(j) \/ LeaveJfc(j) \/ PumpTimer(j) \/ AdvanceTime(j)
                       \/ ArmJfc(j) \/ ModifyJfc(j) \/ QueryJfcRead(j) \/ ApplyCreateJfc(j)
                       \/ DestroyJfc(j) \/ CompleteJfcDestroy(j)
    \/ \E i \in Cqes : ConsumerRead(i) \/ CqeLands(i) \/ CqeWritten(i) \/ CqeDmaFails(i)

\* The steps of the engine leave the CEQs and append at most one event.
LEMMA EngineFacts ==
    ASSUME TypeOK, EngineStep
    PROVE  /\ UNCHANGED <<active, ceq, eq, eqRead, asleep>>
           /\ csq' = csq \/ csq'.op \in {"none", "destroyJfc"}
           /\ events' = events \/ \E j \in Jfcs : events' = Append(events, [jfc |-> j, ceq |-> CeqOf[j]])
           /\ (\A i \in Cqes : ~CqeLands(i)) => mem' = mem
           /\ ci' = ci /\ queries' = queries
  <1>1. CASE Release
    BY <1>1 DEF Release, notify, command, guest
  <1>2. ASSUME NEW j \in Jfcs, WriteCqe(j) \/ Admit(j) \/ LeaveJfc(j)
        PROVE  UNCHANGED <<events, active, ceq, csq, queries, eq, eqRead, asleep, mem, ci>>
    BY <1>2 DEF WriteCqe, Admit, LeaveJfc, notify, command, guest
  <1>3. ASSUME NEW j \in Jfcs, PumpTimer(j)
        PROVE  /\ UNCHANGED <<active, ceq, csq, queries, eq, eqRead, asleep, mem, ci>>
               /\ events' = events \/ events' = Append(events, [jfc |-> j, ceq |-> CeqOf[j]])
    BY <1>3 DEF PumpTimer, command, guest
  <1>4. ASSUME NEW j \in Jfcs, AdvanceTime(j) \/ ArmJfc(j) \/ ModifyJfc(j)
        PROVE  UNCHANGED <<events, active, ceq, csq, queries, eq, eqRead, asleep, mem, ci>>
    BY <1>4 DEF AdvanceTime, ArmJfc, ModifyJfc, notify, command, guest
  <1>5. ASSUME NEW j \in Jfcs, QueryJfcRead(j) \/ ApplyCreateJfc(j) \/ DestroyJfc(j) \/ CompleteJfcDestroy(j)
        PROVE  /\ UNCHANGED <<events, active, ceq, queries, eq, eqRead, asleep, mem, ci>>
               /\ csq' = csq \/ csq'.op \in {"none", "destroyJfc"}
    BY <1>5 DEF QueryJfcRead, ApplyCreateJfc, DestroyJfc, CompleteJfcDestroy, notify, command, guest, NoCmd
  <1>6. ASSUME NEW i \in Cqes, ConsumerRead(i) \/ CqeDmaFails(i)
        PROVE  UNCHANGED <<events, active, ceq, csq, queries, eq, eqRead, asleep, mem, ci>>
    BY <1>6 DEF ConsumerRead, CqeDmaFails, notify, command, guest
  <1>7. ASSUME NEW i \in Cqes, CqeLands(i)
        PROVE  UNCHANGED <<events, active, ceq, csq, queries, eq, eqRead, asleep, ci>>
    BY <1>7 DEF CqeLands, notify, command
  <1>8. ASSUME NEW i \in Cqes, CqeWritten(i), cqe[i].jfc \in Jfcs
        PROVE  /\ UNCHANGED <<active, ceq, csq, queries, eq, eqRead, asleep, mem, ci>>
               /\ events' = events \/ \E j \in Jfcs : events' = Append(events, [jfc |-> j, ceq |-> CeqOf[j]])
    BY <1>8 DEF CqeWritten, command, guest
  <1>9. \A i \in Cqes : cqe[i].jfc \in Jfcs
    BY DEF TypeOK, EngineType, CqeRecord
  <1> QED
    BY <1>1, <1>2, <1>3, <1>4, <1>5, <1>6, <1>7, <1>8, <1>9 DEF EngineStep

\* What is left when an event is taken out.
LEMMA RemovedEvents ==
    ASSUME TypeOK, NEW k \in DOMAIN events, NEW rest, rest = RemoveAt(events, k)
    PROVE  /\ rest \in Seq(EventRecord)
           /\ \A m \in DOMAIN rest : \E n \in DOMAIN events : rest[m] = events[n]
           /\ \A n \in DOMAIN events : n # k => \E m \in DOMAIN rest : rest[m] = events[n]
  <1>1. events \in Seq(EventRecord)
    BY DEF TypeOK, NotifyType
  <1>2. PICK l \in Nat : l = Len(events)
    BY <1>1
  <1>3. DOMAIN events = 1 .. l /\ k \in 1 .. l
    BY <1>1, <1>2
  <1>4. rest = SubSeq(events, 1, k - 1) \o SubSeq(events, k + 1, l)
    BY <1>2 DEF RemoveAt
  <1>5. /\ SubSeq(events, 1, k - 1) \in Seq(EventRecord) /\ Len(SubSeq(events, 1, k - 1)) = k - 1
        /\ \A m \in 1 .. (k - 1) : SubSeq(events, 1, k - 1)[m] = events[m]
    BY <1>1, <1>2, <1>3
  <1>6. /\ SubSeq(events, k + 1, l) \in Seq(EventRecord) /\ Len(SubSeq(events, k + 1, l)) = l - k
        /\ \A m \in 1 .. (l - k) : SubSeq(events, k + 1, l)[m] = events[m + k]
    BY <1>1, <1>2, <1>3
  <1>7. /\ rest \in Seq(EventRecord) /\ DOMAIN rest = 1 .. (l - 1)
        /\ \A m \in 1 .. (l - 1) : rest[m] = IF m < k THEN events[m] ELSE events[m + 1]
    <2>1. PICK p \in Seq(EventRecord) : p = SubSeq(events, 1, k - 1)
      BY <1>5
    <2>2. PICK q \in Seq(EventRecord) : q = SubSeq(events, k + 1, l)
      BY <1>6
    <2>3. rest = p \o q /\ Len(p) = k - 1 /\ Len(q) = l - k
      BY <1>4, <1>5, <1>6, <2>1, <2>2
    <2>4. rest \in Seq(EventRecord) /\ Len(rest) = l - 1
      <3>1. rest \in Seq(EventRecord) /\ Len(rest) = Len(p) + Len(q)
        BY <2>1, <2>2, <2>3
      <3> QED
        BY <1>3, <2>3, <3>1
    <2>5. \A m \in 1 .. (l - 1) : m < k => rest[m] = p[m] /\ p[m] = events[m]
      BY <1>3, <1>5, <2>1, <2>3
    <2>6. ASSUME NEW m \in 1 .. (l - 1), ~(m < k)
          PROVE  rest[m] = q[m - (k - 1)] /\ m - (k - 1) \in 1 .. (l - k)
      <3>1. m \in 1 .. (Len(p) + Len(q)) /\ m > Len(p) /\ m - (k - 1) \in 1 .. (l - k)
        BY <1>3, <2>3, <2>6
      <3> QED
        BY <2>3, <3>1
    <2>7. \A m \in 1 .. (l - 1) : ~(m < k) => rest[m] = events[m + 1]
      BY <1>3, <1>6, <2>2, <2>6
    <2> QED
      BY <1>3, <2>4, <2>5, <2>7
  <1>8. \A n \in DOMAIN events : n # k => \E m \in DOMAIN rest : rest[m] = events[n]
    <2> SUFFICES ASSUME NEW n \in DOMAIN events, n # k
                 PROVE  \E m \in DOMAIN rest : rest[m] = events[n]
      OBVIOUS
    <2>1. CASE n < k
      BY <1>3, <1>7, <2>1
    <2>2. CASE n > k
      <3>1. n - 1 \in DOMAIN rest /\ rest[n - 1] = events[n]
        BY <1>3, <1>7, <2>2
      <3> QED
        BY <3>1
    <2> QED
      BY <1>3, <2>1, <2>2
  <1> QED
    BY <1>3, <1>7, <1>8

\* Every step keeps an event on the way to the CEQ of its JFC.
LEMMA RouteStep ==
    ASSUME TypeOK, RouteInv, Next
    PROVE  RouteInv'
  <1>1. ASSUME events' = events, active' = active
        PROVE  RouteInv'
    BY <1>1 DEF RouteInv
  <1>2. CASE EngineStep
    <2>1. active' = active
      BY <1>2, EngineFacts
    <2>2. ASSUME NEW j \in Jfcs, events' = Append(events, [jfc |-> j, ceq |-> CeqOf[j]])
          PROVE  RouteInv'
      <3>1. events \in Seq(EventRecord)
        BY DEF TypeOK, NotifyType
      <3>2. \A k \in DOMAIN events' : (k \in DOMAIN events /\ events'[k] = events[k]) \/ events'[k] = [jfc |-> j, ceq |-> CeqOf[j]]
        BY <2>2, <3>1
      <3> QED
        BY <2>1, <3>2 DEF RouteInv
    <2> QED
      BY <1>1, <1>2, <2>1, <2>2, EngineFacts
  <1>3. ASSUME NEW k \in DOMAIN events, StartEvent(k) \/ DropEvent(k)
        PROVE  RouteInv'
    <2>1. /\ events' = RemoveAt(events, k)
          /\ active' = active \/ active' = [stage |-> "dma", jfc |-> events[k].jfc, ceq |-> events[k].ceq]
      BY <1>3 DEF StartEvent, DropEvent
    <2>2. \A m \in DOMAIN events' : \E n \in DOMAIN events : events'[m] = events[n]
      BY <2>1, RemovedEvents
    <2> QED
      BY <2>1, <2>2 DEF RouteInv
  <1>4. CASE CeqeLands \/ CeqeWritten
    <2>1. events' = events /\ active'.jfc = active.jfc /\ active'.ceq = active.ceq /\ active.stage # "idle"
      BY <1>4 DEF CeqeLands, CeqeWritten, TypeOK, NotifyType
    <2> QED
      BY <2>1 DEF RouteInv
  <1>5. CASE InterruptDelivered \/ CeqeFails \/ InterruptFails
    BY <1>5 DEF InterruptDelivered, CeqeFails, InterruptFails, EventEnds, Inactive, RouteInv
  <1>6. CASE OtherHandler /\ ~\E k \in DOMAIN events : StartEvent(k) \/ DropEvent(k)
    BY <1>1, <1>6 DEF OtherHandler, CallerReturns, ReleaseCompletionEventSlot, PumpLoop, PumpIds, EndPass,
                      DispatchReturns, DispatchEnds, NoDestroyReady, CompleteEqDestroy, notify
  <1>7. CASE OtherGuest \/ \E c \in Ceqs : ApplyCreateCeq(c)
    BY <1>1, <1>7 DEF OtherGuest, ApplyCreateCeq, PollCq, Sleep, CreateJfc, QueryJfc, PollCeq,
                      HandleCeqConsumerMmio, CreateCeq, DestroyCeq, notify
  <1> QED
    BY <1>2, <1>3, <1>4, <1>5, <1>6, <1>7, NextCases DEF OtherEvent, EngineStep

\* Every step keeps a sleeping guest's CEQ.
LEMMA SleepStep ==
    ASSUME TypeOK, CommandInv, SleepInv, Next
    PROVE  SleepInv'
  <1>a. CeqOf \in [Jfcs -> Ceqs] /\ ceq \in [Ceqs -> CeqRecord] /\ asleep \in [Jfcs -> BOOLEAN]
    BY CeqAssumption DEF TypeOK, NotifyType, GuestType
  <1>1. ASSUME asleep' = asleep, csq' = csq \/ csq'.op \notin {"destroyCeq", "createJfc"},
               \A c \in Ceqs : ceq[c].live => ceq'[c].live
        PROVE  SleepInv'
    BY <1>1, <1>a DEF SleepInv
  <1>2. CASE EngineStep
    BY <1>1, <1>2, EngineFacts
  <1>3. CASE OtherHandler /\ ~\E c \in Ceqs : CompleteEqDestroy(c)
    <2>1. UNCHANGED <<asleep, ceq, csq>>
      BY <1>3 DEF OtherHandler, CallerReturns, ReleaseCompletionEventSlot, PumpLoop, PumpIds, EndPass,
                  DispatchReturns, DispatchEnds, NoDestroyReady, StartEvent, DropEvent, guest, notify, command
    <2> QED
      BY <1>1, <2>1
  <1>4. ASSUME NEW c \in Ceqs, CompleteEqDestroy(c)
        PROVE  SleepInv'
    <2>1. /\ csq = [op |-> "destroyCeq", id |-> c] /\ ceq' = [ceq EXCEPT ![c] = DeadCeq] /\ csq' = NoCmd
          /\ asleep' = asleep
      BY <1>4 DEF CompleteEqDestroy, guest
    <2>2. \A j \in Jfcs : asleep[j] => CeqOf[j] # c
      BY <2>1 DEF SleepInv
    <2> QED
      BY <1>a, <2>1, <2>2 DEF SleepInv, NoCmd
  <1>5. ASSUME NEW c \in Ceqs, ApplyCreateCeq(c)
        PROVE  SleepInv'
    <2>1. ceq' = [ceq EXCEPT ![c] = FreshCeq] /\ csq' = NoCmd /\ asleep' = asleep
      BY <1>5 DEF ApplyCreateCeq, guest
    <2> QED
      BY <1>1, <1>a, <2>1 DEF NoCmd, FreshCeq
  <1>6. CASE CeqeLands \/ InterruptDelivered \/ InterruptFails
    BY <1>1, <1>6 DEF CeqeLands, InterruptDelivered, InterruptFails, guest, notify, command
  <1>7. CASE CeqeWritten \/ CeqeFails
    <2>1. asleep' = asleep /\ csq' = csq
      BY <1>7 DEF CeqeWritten, CeqeFails, guest, command
    <2>2. active.ceq \in Ceqs
      BY <1>7 DEF CeqeWritten, CeqeFails, TypeOK, NotifyType
    <2>3. PICK c \in Ceqs : c = active.ceq
      BY <2>2
    <2>4. PICK r : r = ceq[c]
      OBVIOUS
    <2>5. r \in CeqRecord
      BY <1>a, <2>4
    <2>6. [r EXCEPT !.producer = r.producer + 1, !.consumer = IF r.consumerPending THEN r.pendingConsumer ELSE r.consumer,
                    !.consumerPending = FALSE].live = r.live
      BY <2>5 DEF CeqRecord
    <2>7. ceq'[c].live = ceq[c].live /\ \A d \in Ceqs : d # c => ceq'[d] = ceq[d]
      <3>1. CASE CeqeWritten
        <4>1. ceq' = [ceq EXCEPT ![c] = [r EXCEPT !.producer = r.producer + 1,
                         !.consumer = IF r.consumerPending THEN r.pendingConsumer ELSE r.consumer,
                         !.consumerPending = FALSE]]
          BY <3>1, <2>3, <2>4 DEF CeqeWritten
        <4> QED
          BY <4>1, <1>a, <2>4, <2>6
      <3>2. CASE CeqeFails
        BY <3>2, <1>a, <2>2, <2>3 DEF CeqeFails, CeqRecord
      <3> QED
        BY <1>7, <3>1, <3>2
    <2> QED
      BY <1>1, <2>1, <2>7
  <1>8. ASSUME NEW c \in Ceqs, HandleCeqConsumerMmio(c)
        PROVE  SleepInv'
    <2>1. asleep' = asleep /\ csq' = csq
      BY <1>8 DEF HandleCeqConsumerMmio, guest, command
    <2>2. ceq[c] \in CeqRecord
      BY <1>a
    <2>3. PICK n : \/ ceq' = [ceq EXCEPT ![c] = [ceq[c] EXCEPT !.pendingConsumer = n, !.consumerPending = TRUE]]
                   \/ ceq' = [ceq EXCEPT ![c] = [ceq[c] EXCEPT !.consumer = n]]
      BY <1>8, <1>a DEF HandleCeqConsumerMmio
    <2>4. ceq'[c].live = ceq[c].live /\ \A d \in Ceqs : d # c => ceq'[d] = ceq[d]
      BY <1>a, <2>2, <2>3 DEF CeqRecord
    <2> QED
      BY <1>1, <2>1, <2>4
  <1>9. ASSUME NEW j \in Jfcs, CreateJfc(j)
        PROVE  SleepInv'
    <2>1. asleep' = [asleep EXCEPT ![j] = FALSE] /\ csq' = [op |-> "createJfc", id |-> j] /\ ceq' = ceq
      BY <1>9 DEF CreateJfc, notify
    <2> QED
      BY <1>a, <2>1 DEF SleepInv
  <1>10. ASSUME NEW j \in Jfcs, Sleep(j)
         PROVE  SleepInv'
    <2>1. /\ asleep' = [asleep EXCEPT ![j] = TRUE] /\ csq' = csq /\ ceq' = ceq /\ jfc[j].live
          /\ ceq[CeqOf[j]].live /\ csq # [op |-> "destroyCeq", id |-> CeqOf[j]]
      BY <1>10 DEF Sleep, notify, command
    <2>2. csq # [op |-> "createJfc", id |-> j]
      BY <2>1 DEF CommandInv
    <2> QED
      BY <1>a, <2>1, <2>2 DEF SleepInv
  <1>11. ASSUME NEW c \in Ceqs, PollCeq(c)
         PROVE  SleepInv'
    <2>1. UNCHANGED <<csq, ceq>> /\ (asleep' = asleep \/ \E x : asleep' = [asleep EXCEPT ![x] = FALSE])
      BY <1>11 DEF PollCeq, notify, command
    <2>2. \A j \in Jfcs : asleep'[j] => asleep[j]
      BY <1>a, <2>1
    <2> QED
      BY <2>1, <2>2 DEF SleepInv
  <1>12. ASSUME NEW c \in Ceqs, DestroyCeq(c)
         PROVE  SleepInv'
    <2>1. /\ asleep' = [j \in Jfcs |-> asleep[j] /\ CeqOf[j] # c]
          /\ csq' \in {csq, [op |-> "destroyCeq", id |-> c]} /\ ceq' \in {ceq, [ceq EXCEPT ![c] = DeadCeq]}
      BY <1>12 DEF DestroyCeq
    <2>2. \A j \in Jfcs : asleep'[j] => asleep[j] /\ CeqOf[j] # c /\ ceq'[CeqOf[j]] = ceq[CeqOf[j]]
      BY <1>a, <2>1
    <2> QED
      BY <2>1, <2>2 DEF SleepInv
  <1>13. ASSUME (\E j \in Jfcs : PollCq(j) \/ QueryJfc(j)) \/ (\E c \in Ceqs : CreateCeq(c))
         PROVE  SleepInv'
    BY <1>1, <1>13 DEF PollCq, QueryJfc, CreateCeq, notify, command, guest
  <1> QED
    BY <1>2, <1>3, <1>4, <1>5, <1>6, <1>7, <1>8, <1>9, <1>10, <1>11, <1>12, <1>13, NextCases
       DEF EngineStep, OtherHandler, OtherEvent, OtherGuest

----------------------------------------------------------------------------
(* CEQ entries *)

\* Faults and modifications are counted and never forgotten.
LEMMA CountersGrow ==
    ASSUME TypeOK, Next
    PROVE  (faults' = 0 => faults' = faults) /\ (modifies' = 0 => modifies' = modifies)
  <1>1. faults \in Nat /\ modifies \in Nat
    BY DEF TypeOK, ControlType, CommandType
  <1>2. (faults' = faults \/ faults' = faults + 1) /\ (modifies' = modifies \/ modifies' = modifies + 1)
    <2>1. CASE OtherHandler
      BY <2>1 DEF OtherHandler, CallerReturns, ReleaseCompletionEventSlot, PumpLoop, PumpIds, EndPass,
                  DispatchReturns, DispatchEnds, NoDestroyReady, CompleteEqDestroy, StartEvent, DropEvent, command
    <2>2. CASE OtherEvent
      BY <2>2 DEF OtherEvent, ApplyCreateCeq, CeqeLands, CeqeWritten, InterruptDelivered, CeqeFails, InterruptFails,
                  Fault, command
    <2>3. CASE OtherGuest
      BY <2>3 DEF OtherGuest, PollCq, Sleep, CreateJfc, QueryJfc, PollCeq, HandleCeqConsumerMmio, CreateCeq,
                  DestroyCeq, command
    <2>4. CASE Release
      BY <2>4 DEF Release, command
    <2>5. ASSUME NEW j \in Jfcs, WriteCqe(j) \/ Admit(j) \/ LeaveJfc(j) \/ PumpTimer(j) \/ AdvanceTime(j)
          PROVE  faults' = faults /\ modifies' = modifies
      BY <2>5 DEF WriteCqe, Admit, LeaveJfc, PumpTimer, AdvanceTime, command
    <2>6. ASSUME NEW j \in Jfcs, \/ ArmJfc(j) \/ ModifyJfc(j) \/ QueryJfcRead(j) \/ ApplyCreateJfc(j)
                                 \/ DestroyJfc(j) \/ CompleteJfcDestroy(j)
          PROVE  faults' = faults /\ (modifies' = modifies \/ modifies' = modifies + 1)
      BY <2>6 DEF ArmJfc, ModifyJfc, QueryJfcRead, ApplyCreateJfc, DestroyJfc, CompleteJfcDestroy, command
    <2>7. ASSUME NEW i \in Cqes, ConsumerRead(i) \/ CqeLands(i) \/ CqeWritten(i) \/ CqeDmaFails(i)
          PROVE  (faults' = faults \/ faults' = faults + 1) /\ modifies' = modifies
      BY <2>7 DEF ConsumerRead, CqeLands, CqeWritten, CqeDmaFails, Fault, command
    <2> QED
      BY <2>1, <2>2, <2>3, <2>4, <2>5, <2>6, <2>7, NextCases
  <1> QED
    BY <1>1, <1>2

\* The entry of c has landed and is not acknowledged.
Landing(c) == active.stage = "landed" /\ active.ceq = c
EntriesOf(c) ==
    /\ ceq[c].live => Len(eq[c]) = ceq[c].producer + (IF Landing(c) THEN 1 ELSE 0)
    /\ eqRead[c] <= Len(eq[c])
    /\ csq = [op |-> "createCeq", id |-> c] => eq[c] = <<>>

\* What the consumer doorbell changes of a CEQ.
LEMMA DoorbellFacts ==
    ASSUME TypeOK, NEW c \in Ceqs, HandleCeqConsumerMmio(c)
    PROVE  /\ \A d \in Ceqs : ceq'[d].live = ceq[d].live /\ ceq'[d].producer = ceq[d].producer
           /\ UNCHANGED <<events, active, csq, eq, eqRead, asleep, mem, ci>>
  <1>1. ceq \in [Ceqs -> CeqRecord] /\ ceq[c] \in CeqRecord
    BY DEF TypeOK, NotifyType
  <1>2. PICK n : \/ ceq' = [ceq EXCEPT ![c] = [ceq[c] EXCEPT !.pendingConsumer = n, !.consumerPending = TRUE]]
                 \/ ceq' = [ceq EXCEPT ![c] = [ceq[c] EXCEPT !.consumer = n]]
    BY <1>1 DEF HandleCeqConsumerMmio
  <1>3. \A d \in Ceqs : ceq'[d].live = ceq[d].live /\ ceq'[d].producer = ceq[d].producer
    <2>1. PICK r \in CeqRecord : r = ceq[c]
      BY <1>1
    <2>2. /\ [r EXCEPT !.pendingConsumer = n, !.consumerPending = TRUE].live = r.live
          /\ [r EXCEPT !.pendingConsumer = n, !.consumerPending = TRUE].producer = r.producer
          /\ [r EXCEPT !.consumer = n].live = r.live /\ [r EXCEPT !.consumer = n].producer = r.producer
      BY <2>1 DEF CeqRecord
    <2>3. ceq'[c].live = ceq[c].live /\ ceq'[c].producer = ceq[c].producer /\ \A d \in Ceqs : d # c => ceq'[d] = ceq[d]
      BY <1>1, <1>2, <2>1, <2>2
    <2> QED
      BY <2>3
  <1> QED
    BY <1>3 DEF HandleCeqConsumerMmio, guest, command

\* What a CEQE write changes: the entry after all others appears.
LEMMA LandedFacts ==
    ASSUME TypeOK, CeqInv, CeqeLands, \A d \in Ceqs : EntriesOf(d)
    PROVE  /\ active.ceq \in Ceqs /\ active.jfc \in Jfcs /\ ceq[active.ceq].live /\ active.stage = "dma"
           /\ active' = [active EXCEPT !.stage = "landed"]
           /\ eq[active.ceq] \in Seq(Jfcs) /\ Len(eq[active.ceq]) = ceq[active.ceq].producer
           /\ eq'[active.ceq] = Append(eq[active.ceq], active.jfc)
           /\ \A d \in Ceqs : d # active.ceq => eq'[d] = eq[d]
           /\ UNCHANGED <<events, ceq, csq, eqRead, asleep, mem, ci>>
  <1>1. /\ active.stage = "dma" /\ active' = [active EXCEPT !.stage = "landed"]
        /\ eq' = [eq EXCEPT ![active.ceq] = SubSeq(@, 1, ceq[active.ceq].producer) \o <<active.jfc>>]
        /\ UNCHANGED <<events, ceq, csq, eqRead, asleep, mem, ci>>
    BY DEF CeqeLands, command
  <1>2. active.ceq \in Ceqs /\ active.jfc \in Jfcs
    BY <1>1 DEF TypeOK, NotifyType
  <1>3. PICK c \in Ceqs : c = active.ceq
    BY <1>2
  <1>4. ceq[c].live /\ eq \in [Ceqs -> Seq(Jfcs)] /\ eq[c] \in Seq(Jfcs) /\ ceq[c].producer \in Nat
    BY <1>1, <1>3 DEF CeqInv, TypeOK, GuestType, NotifyType, CeqRecord
  <1>5. Len(eq[c]) = ceq[c].producer
    BY <1>1, <1>4 DEF EntriesOf, Landing
  <1>6. PICK s \in Seq(Jfcs) : s = eq[c]
    BY <1>4
  <1>7. SubSeq(s, 1, Len(s)) = s
    OBVIOUS
  <1>8. s \o <<active.jfc>> = Append(s, active.jfc)
    BY <1>2
  <1>9. eq'[c] = Append(eq[c], active.jfc) /\ \A d \in Ceqs : d # c => eq'[d] = eq[d]
    BY <1>1, <1>3, <1>4, <1>5, <1>6, <1>7, <1>8
  <1> QED
    BY <1>1, <1>2, <1>3, <1>4, <1>5, <1>9

\* Every step keeps the count of the entries.
LEMMA EntriesStep ==
    ASSUME TypeOK, CommandInv, CeqInv, EntriesInv, Next
    PROVE  EntriesInv'
  <1> SUFFICES ASSUME faults' = 0, \A c \in Ceqs : EntriesOf(c), NEW c \in Ceqs
               PROVE  EntriesOf(c)'
    BY CountersGrow DEF EntriesInv, EntriesOf, Landing
  <1>a. /\ ceq \in [Ceqs -> CeqRecord] /\ eq \in [Ceqs -> Seq(Jfcs)] /\ eqRead \in [Ceqs -> Nat] /\ faults \in Nat
        /\ Len(eq[c]) \in Nat /\ ceq[c].producer \in Nat /\ eqRead[c] \in Nat
    BY DEF TypeOK, NotifyType, GuestType, CeqRecord, ControlType
  <1>1. ASSUME eq'[c] = eq[c], eqRead'[c] = eqRead[c], Landing(c)' <=> Landing(c),
               ceq'[c].live => ceq[c].live /\ ceq'[c].producer = ceq[c].producer,
               csq' = csq \/ csq'.op # "createCeq"
        PROVE  EntriesOf(c)'
    BY <1>1 DEF EntriesOf
  <1>2. CASE EngineStep
    BY <1>1, <1>2, EngineFacts DEF Landing
  <1>3. CASE OtherHandler /\ ~\E d \in Ceqs : CompleteEqDestroy(d)
    <2>1. UNCHANGED <<eq, eqRead, ceq, csq>> /\ (active' = active \/ (active'.stage = "dma" /\ active.stage = "idle"))
      BY <1>3 DEF OtherHandler, CallerReturns, ReleaseCompletionEventSlot, PumpLoop, PumpIds, EndPass,
                  DispatchReturns, DispatchEnds, NoDestroyReady, StartEvent, DropEvent, Dispatching, guest, notify,
                  command
    <2> QED
      BY <1>1, <2>1 DEF Landing
  <1>4. ASSUME NEW d \in Ceqs, CompleteEqDestroy(d)
        PROVE  EntriesOf(c)'
    <2>1. ceq' = [ceq EXCEPT ![d] = DeadCeq] /\ csq' = NoCmd /\ UNCHANGED <<eq, eqRead, active>>
      BY <1>4 DEF CompleteEqDestroy, guest
    <2> QED
      BY <1>1, <1>a, <2>1 DEF DeadCeq, FreshCeq, NoCmd, Landing
  <1>5. ASSUME NEW d \in Ceqs, ApplyCreateCeq(d)
        PROVE  EntriesOf(c)'
    <2>1. /\ csq = [op |-> "createCeq", id |-> d] /\ ceq' = [ceq EXCEPT ![d] = FreshCeq] /\ csq' = NoCmd
          /\ UNCHANGED <<eq, eqRead, active>>
      BY <1>5 DEF ApplyCreateCeq, guest
    <2>2. CASE c # d
      BY <1>1, <1>a, <2>1, <2>2 DEF NoCmd, Landing
    <2>3. CASE c = d
      <3>1. ~ceq[c].live /\ eq[c] = <<>>
        BY <2>1, <2>3 DEF CommandInv, EntriesOf
      <3>2. ~Landing(c)
        BY <3>1 DEF CeqInv, Landing
      <3>3. ceq'[c].producer = 0 /\ Len(eq[c]) = 0
        BY <1>a, <2>1, <2>3, <3>1 DEF FreshCeq
      <3> QED
        BY <2>1, <3>2, <3>3 DEF EntriesOf, NoCmd, Landing
    <2> QED
      BY <2>2, <2>3
  <1>6. CASE CeqeLands
    <2>1. /\ active.stage = "dma" /\ active' = [active EXCEPT !.stage = "landed"] /\ active.ceq \in Ceqs
          /\ eq[active.ceq] \in Seq(Jfcs) /\ Len(eq[active.ceq]) = ceq[active.ceq].producer
          /\ eq'[active.ceq] = Append(eq[active.ceq], active.jfc) /\ ceq[active.ceq].live
          /\ \A d \in Ceqs : d # active.ceq => eq'[d] = eq[d]
          /\ UNCHANGED <<ceq, csq, eqRead>>
      BY <1>6, LandedFacts
    <2>2. active'.stage = "landed" /\ active'.ceq = active.ceq
      BY <2>1 DEF TypeOK, NotifyType
    <2>3. CASE c # active.ceq
      BY <1>1, <2>1, <2>2, <2>3 DEF Landing
    <2>4. CASE c = active.ceq
      <3>1. Len(eq'[c]) = Len(eq[c]) + 1
        BY <2>1, <2>4
      <3>2. csq # [op |-> "createCeq", id |-> c]
        BY <2>1, <2>4 DEF CommandInv
      <3> QED
        BY <1>a, <2>1, <2>2, <2>4, <3>1, <3>2 DEF EntriesOf, Landing
    <2> QED
      BY <2>3, <2>4
  <1>7. CASE CeqeWritten
    <2>1. active.stage = "landed" /\ active.ceq \in Ceqs /\ UNCHANGED <<eq, eqRead, csq>> /\ active'.stage = "msi"
      BY <1>7 DEF CeqeWritten, TypeOK, NotifyType, guest, command
    <2>2. CASE c # active.ceq
      BY <1>1, <1>7, <1>a, <2>1, <2>2 DEF Landing, CeqeWritten
    <2>3. CASE c = active.ceq
      <3>1. PICK r \in CeqRecord : r = ceq[c]
        BY <1>a
      <3>2. ceq'[c] = [r EXCEPT !.producer = r.producer + 1, !.consumer = IF r.consumerPending THEN r.pendingConsumer ELSE r.consumer,
                                !.consumerPending = FALSE]
        BY <1>7, <1>a, <2>3, <3>1 DEF CeqeWritten
      <3>3. ceq'[c].live = ceq[c].live /\ ceq'[c].producer = ceq[c].producer + 1
        BY <3>1, <3>2 DEF CeqRecord
      <3> QED
        BY <1>a, <2>1, <2>3, <3>3 DEF EntriesOf, Landing
    <2> QED
      BY <2>2, <2>3
  <1>8. CASE InterruptDelivered
    BY <1>1, <1>8 DEF InterruptDelivered, EventEnds, Inactive, Landing, command
  <1>9. CASE CeqeFails \/ InterruptFails
    <2>1. faults' = faults + 1
      BY <1>9 DEF CeqeFails, InterruptFails, Fault
    <2> QED
      BY <1>a, <2>1
  <1>10. ASSUME NEW j \in Jfcs, PollCq(j) \/ Sleep(j) \/ CreateJfc(j) \/ QueryJfc(j)
         PROVE  EntriesOf(c)'
    <2>1. UNCHANGED <<eq, eqRead, ceq, active>> /\ (csq' = csq \/ csq'.op # "createCeq")
      BY <1>10 DEF PollCq, Sleep, CreateJfc, QueryJfc, notify, command, guest
    <2> QED
      BY <1>1, <2>1 DEF Landing
  <1>11. ASSUME NEW d \in Ceqs, HandleCeqConsumerMmio(d)
         PROVE  EntriesOf(c)'
    BY <1>1, <1>11, DoorbellFacts DEF Landing
  <1>12. ASSUME NEW d \in Ceqs, PollCeq(d)
         PROVE  EntriesOf(c)'
    <2>1. /\ UNCHANGED <<eq, ceq, active, csq>>
          /\ eqRead' = eqRead \/ (eqRead' = [eqRead EXCEPT ![d] = @ + 1] /\ eqRead[d] < Len(eq[d]))
      BY <1>12 DEF PollCeq, notify, command
    <2>2. eqRead'[c] <= Len(eq[c])
      BY <1>a, <2>1 DEF EntriesOf
    <2> QED
      BY <2>1, <2>2 DEF EntriesOf, Landing
  <1>13. ASSUME NEW d \in Ceqs, CreateCeq(d)
         PROVE  EntriesOf(c)'
    <2>1. /\ csq' = [op |-> "createCeq", id |-> d] /\ eq' = [eq EXCEPT ![d] = <<>>] /\ eqRead' = [eqRead EXCEPT ![d] = 0]
          /\ ~ceq[d].live /\ UNCHANGED <<ceq, active>>
      BY <1>13 DEF CreateCeq, notify
    <2>2. CASE c # d
      BY <1>a, <2>1, <2>2 DEF EntriesOf, Landing
    <2>3. CASE c = d
      BY <1>a, <2>1, <2>3 DEF EntriesOf
    <2> QED
      BY <2>2, <2>3
  <1>14. ASSUME NEW d \in Ceqs, DestroyCeq(d)
         PROVE  EntriesOf(c)'
    <2>1. /\ ceq' \in {ceq, [ceq EXCEPT ![d] = DeadCeq]} /\ csq' \in {csq, [op |-> "destroyCeq", id |-> d]}
          /\ UNCHANGED <<eq, eqRead, active>>
      BY <1>14 DEF DestroyCeq
    <2>2. ceq'[c].live => ceq'[c] = ceq[c]
      BY <1>a, <2>1 DEF DeadCeq, FreshCeq
    <2>3. csq' = csq \/ csq'.op # "createCeq"
      BY <2>1
    <2> QED
      BY <1>1, <2>1, <2>2, <2>3 DEF Landing
  <1> QED
    BY <1>2, <1>3, <1>4, <1>5, <1>6, <1>7, <1>8, <1>9, <1>10, <1>11, <1>12, <1>13, <1>14, NextCases
       DEF EngineStep, OtherHandler, OtherEvent, OtherGuest

----------------------------------------------------------------------------
(* Sleeping guests *)

\* What keeps the claim about one JFC.
LEMMA RestKept ==
    ASSUME NEW j \in Jfcs, Rests(j) => (Visible(j) => EventOwed(j)) /\ (OneShot => jfc[j].armed),
           jfc'[j].live => jfc[j].live, asleep'[j] => asleep[j], Wakes(j) => Wakes(j)',
           mem'[j] = mem[j], ci'[j] = ci[j], EventOwed(j) => EventOwed(j)', jfc[j].armed => jfc'[j].armed
    PROVE  Rests(j)' => (Visible(j)' => EventOwed(j)') /\ (OneShot => jfc'[j].armed)
  <1>1. Visible(j)' <=> Visible(j)
    BY DEF Visible
  <1>2. Rests(j)' => Rests(j)
    BY DEF Rests
  <1> QED
    BY <1>1, <1>2

\* An event owed for j stays owed while its counter and its landed CQEs are left.
LEMMA OwedKept ==
    ASSUME NEW j \in Jfcs, jfc'[j].live = jfc[j].live, jfc'[j].pend = jfc[j].pend, jfc'[j].period = jfc[j].period,
           jfc[j].deadline # "none" => jfc'[j].deadline # "none",
           \A i \in Cqes : cqe[i].stage = "landed" /\ cqe[i].jfc = j => cqe'[i].stage = "landed" /\ cqe'[i].jfc = j
    PROVE  EventOwed(j) => EventOwed(j)'
  BY DEF EventOwed, TimerPending

\* An event on its way stays so.
LEMMA WakesKept ==
    ASSUME NEW j \in Jfcs, active' = active, eq' = eq, eqRead' = eqRead,
           \A k \in DOMAIN events : events[k].jfc = j => \E m \in DOMAIN events' : events'[m].jfc = j
    PROVE  Wakes(j) => Wakes(j)'
  BY DEF Wakes
\* An appended event is the last.
LEMMA AppendedEvent ==
    ASSUME TypeOK, NEW e, events' = Append(events, e)
    PROVE  /\ \A k \in DOMAIN events : k \in DOMAIN events' /\ events'[k] = events[k]
           /\ \E m \in DOMAIN events' : events'[m] = e
  <1>1. events \in Seq(EventRecord)
    BY DEF TypeOK, NotifyType
  <1>2. Len(events) + 1 \in DOMAIN events' /\ events'[Len(events) + 1] = e
    BY <1>1
  <1> QED
    BY <1>1, <1>2

\* Every step of the engine keeps the claim.
LEMMA EngineWake ==
    ASSUME TypeOK, StackInv, QueueInv, SleepInv, EngineStep, modifies' = modifies, faults' = faults, NEW j \in Jfcs,
           Rests(j) => (Visible(j) => EventOwed(j)) /\ (OneShot => jfc[j].armed)
    PROVE  Rests(j)' => (Visible(j)' => EventOwed(j)') /\ (OneShot => jfc'[j].armed)
  <1>a. /\ UNCHANGED <<active, ceq, eq, eqRead, asleep>> /\ ci' = ci
        /\ events' = events \/ \E n \in Jfcs : events' = Append(events, [jfc |-> n, ceq |-> CeqOf[n]])
        /\ (\A i \in Cqes : ~CqeLands(i)) => mem' = mem
    BY EngineFacts
  <1>b. Wakes(j) => Wakes(j)'
    BY <1>a, WakesKept, AppendedEvent
  <1>c. ASSUME mem'[j] = mem[j], jfc'[j].live => jfc[j].live, EventOwed(j) => EventOwed(j)', jfc[j].armed => jfc'[j].armed
        PROVE  Rests(j)' => (Visible(j)' => EventOwed(j)') /\ (OneShot => jfc'[j].armed)
    BY <1>a, <1>b, <1>c, RestKept
  <1>d. ASSUME mem'[j] = mem[j], jfc'[j].live = jfc[j].live, SamePending(j), jfc[j].deadline # "none" => jfc'[j].deadline # "none",
               \A i \in Cqes : cqe[i].stage = "landed" => cqe'[i].stage = "landed" /\ cqe'[i].jfc = cqe[i].jfc
        PROVE  Rests(j)' => (Visible(j)' => EventOwed(j)') /\ (OneShot => jfc'[j].armed)
    BY <1>c, <1>d, OwedKept DEF SamePending
  <1>e. ASSUME mem'[j] = mem[j], jfc'[j] = jfc[j], NEW i \in Cqes, OnlyCqe(i), cqe[i].stage # "landed" \/ cqe[i].jfc # j
        PROVE  Rests(j)' => (Visible(j)' => EventOwed(j)') /\ (OneShot => jfc'[j].armed)
    BY <1>c, <1>e, OwedKept DEF OnlyCqe
  <1>f. Rests(j)' => asleep[j] /\ ~Wakes(j)
    BY <1>a, <1>b DEF Rests
  <1>g. faults \in Nat /\ modifies \in Nat /\ mem \in [Jfcs -> [0 .. (Depth - 1) -> [owner : BOOLEAN, id : 0 .. MaxCqe]]]
    BY DEF TypeOK, ControlType, CommandType, GuestType
  <1>1. CASE Release
    <2>1. PICK i \in Cqes : cqe[i].stage \in {"okcb", "failcb"} /\ OnlyCqe(i) /\ jfc' = jfc /\ mem' = mem
      BY <1>1, ReleaseFacts DEF Reaches, SameGuest
    <2> QED
      BY <2>1, <1>e
  <1>2. ASSUME NEW n \in Jfcs, WriteCqe(n)
        PROVE  Rests(j)' => (Visible(j)' => EventOwed(j)') /\ (OneShot => jfc'[j].armed)
    <2>1. PICK i \in Cqes : i = submitted + 1 /\ OnlyCqe(i) /\ jfc' = jfc /\ mem' = mem
      BY <1>2, WriteFacts DEF SameGuest
    <2>2. cqe[i].stage = "new"
      BY <2>1 DEF QueueInv, TypeOK, EngineType
    <2> QED
      BY <2>1, <2>2, <1>e
  <1>3. ASSUME NEW n \in Jfcs, Admit(n)
        PROVE  Rests(j)' => (Visible(j)' => EventOwed(j)') /\ (OneShot => jfc'[j].armed)
    <2>1. PICK i \in Cqes :
            /\ cqe[i].stage = "waiting" /\ OnlyJfc(n) /\ mem' = mem
            /\ Reaches(i, "failcb") \/ Reaches(i, "dma") \/ Reaches(i, "read")
            /\ jfc' = jfc \/ jfc'[n] = [jfc[n] EXCEPT !.producer = @ + 1]
      BY <1>3, AdmitFacts DEF OnlyJfc, SameGuest
    <2>2. OnlyCqe(i)
      BY <2>1 DEF Reaches
    <2>3. jfc'[j].live = jfc[j].live /\ SamePending(j) /\ jfc'[j].deadline = jfc[j].deadline
      <3>1. PICK r \in JfcRecord : r = jfc[n]
        BY DEF TypeOK, EngineType
      <3>2. PICK q : q = [r EXCEPT !.producer = @ + 1]
        OBVIOUS
      <3>3. q.live = r.live /\ q.pend = r.pend /\ q.period = r.period /\ q.armed = r.armed /\ q.deadline = r.deadline
        BY <3>1, <3>2 DEF JfcRecord
      <3> QED
        BY <2>1, <3>1, <3>2, <3>3 DEF OnlyJfc, SamePending
    <2> QED
      BY <2>1, <2>2, <2>3, <1>d DEF OnlyCqe
  <1>4. ASSUME NEW n \in Jfcs, LeaveJfc(n)
        PROVE  Rests(j)' => (Visible(j)' => EventOwed(j)') /\ (OneShot => jfc'[j].armed)
    <2>1. UNCHANGED <<jfc, cqe, mem>>
      BY <1>4 DEF LeaveJfc, guest
    <2> QED
      BY <2>1, <1>d DEF SamePending
  <1>5. ASSUME NEW n \in Jfcs, PumpTimer(n)
        PROVE  Rests(j)' => (Visible(j)' => EventOwed(j)') /\ (OneShot => jfc'[j].armed)
    <2>1. /\ OnlyJfc(n) /\ jfc'[n].live = jfc[n].live /\ UNCHANGED <<cqe, mem>>
          /\ events' = Append(events, [jfc |-> n, ceq |-> CeqOf[n]]) \/ ~Notifies(n)
      BY <1>5, TimerFacts DEF SameJfc, SameGuest
    <2>2. CASE n # j
      BY <2>1, <2>2, <1>d DEF OnlyJfc, SamePending
    <2>3. CASE n = j /\ events' = Append(events, [jfc |-> n, ceq |-> CeqOf[n]])
      <3>1. Wakes(j)'
        BY <2>3, AppendedEvent DEF Wakes
      <3> QED
        BY <3>1 DEF Rests
    <2>4. CASE n = j /\ ~Notifies(n)
      <3>1. OneShot /\ ~jfc[j].armed
        BY <2>4 DEF Notifies
      <3>2. Rests(j)' => Rests(j)
        BY <1>f, <2>1, <2>4 DEF Rests
      <3> QED
        BY <3>1, <3>2
    <2> QED
      BY <2>1, <2>2, <2>3, <2>4
  <1>6. ASSUME NEW n \in Jfcs, AdvanceTime(n)
        PROVE  Rests(j)' => (Visible(j)' => EventOwed(j)') /\ (OneShot => jfc'[j].armed)
    <2>1. OnlyJfc(n) /\ SameJfc(n) /\ SamePending(n) /\ jfc'[n].deadline = "expired" /\ UNCHANGED <<cqe, mem>>
      BY <1>6, ClockFacts DEF SameGuest
    <2>2. jfc'[j].live = jfc[j].live /\ SamePending(j) /\ (jfc[j].deadline # "none" => jfc'[j].deadline # "none")
      BY <2>1 DEF OnlyJfc, SameJfc, SamePending
    <2> QED
      BY <2>1, <2>2, <1>d
  <1>7. ASSUME NEW n \in Jfcs, ArmJfc(n)
        PROVE  Rests(j)' => (Visible(j)' => EventOwed(j)') /\ (OneShot => jfc'[j].armed)
    <2>1. /\ OnlyJfc(n) /\ SameJfc(n) /\ jfc'[n].armed /\ UNCHANGED <<cqe, mem>>
          /\ jfc'[n].pend = jfc[n].pend /\ jfc'[n].period = jfc[n].period /\ jfc'[n].deadline = jfc[n].deadline
      BY <1>7, ArmFacts DEF SameGuest
    <2>2. /\ jfc'[j].live = jfc[j].live /\ jfc'[j].pend = jfc[j].pend /\ jfc'[j].period = jfc[j].period
          /\ jfc'[j].deadline = jfc[j].deadline /\ (jfc[j].armed => jfc'[j].armed)
      BY <2>1 DEF OnlyJfc, SameJfc
    <2> QED
      BY <2>1, <2>2, <1>c, OwedKept
  <1>8. ASSUME NEW n \in Jfcs, ModifyJfc(n)
        PROVE  Rests(j)' => (Visible(j)' => EventOwed(j)') /\ (OneShot => jfc'[j].armed)
    <2>1. modifies' = modifies + 1
      BY <1>8, ModifyFacts
    <2> QED
      BY <1>g, <2>1
  <1>9. ASSUME NEW n \in Jfcs, QueryJfcRead(n)
        PROVE  Rests(j)' => (Visible(j)' => EventOwed(j)') /\ (OneShot => jfc'[j].armed)
    <2>1. /\ OnlyJfc(n) /\ jfc'[n].live = jfc[n].live /\ SamePending(n) /\ jfc'[n].deadline = jfc[n].deadline
          /\ UNCHANGED <<cqe, mem>>
      BY <1>9, QueriedFacts DEF SameGuest
    <2>2. jfc'[j].live = jfc[j].live /\ SamePending(j) /\ jfc'[j].deadline = jfc[j].deadline
      BY <2>1 DEF OnlyJfc, SamePending
    <2> QED
      BY <2>1, <2>2, <1>d
  <1>10. ASSUME NEW n \in Jfcs, ApplyCreateJfc(n)
         PROVE  Rests(j)' => (Visible(j)' => EventOwed(j)') /\ (OneShot => jfc'[j].armed)
    <2>1. OnlyJfc(n) /\ csq = [op |-> "createJfc", id |-> n] /\ UNCHANGED <<cqe, mem>>
      BY <1>10, CreatedFacts DEF SameGuest
    <2>2. CASE n # j
      BY <2>1, <2>2, <1>d DEF OnlyJfc, SamePending
    <2>3. CASE n = j
      BY <2>1, <2>3, <1>f DEF SleepInv
    <2> QED
      BY <2>2, <2>3
  <1>11. ASSUME NEW n \in Jfcs, DestroyJfc(n) \/ CompleteJfcDestroy(n)
         PROVE  Rests(j)' => (Visible(j)' => EventOwed(j)') /\ (OneShot => jfc'[j].armed)
    <2>1. OnlyJfc(n) /\ (jfc' = jfc \/ ~jfc'[n].live) /\ UNCHANGED <<cqe, mem>>
      BY <1>11, DestroyFacts DEF SameGuest
    <2>2. jfc'[j] = jfc[j] \/ ~jfc'[j].live
      BY <2>1 DEF OnlyJfc
    <2> QED
      BY <2>1, <2>2, <1>d DEF SamePending, Rests
  <1>12. ASSUME NEW i \in Cqes, ConsumerRead(i)
         PROVE  Rests(j)' => (Visible(j)' => EventOwed(j)') /\ (OneShot => jfc'[j].armed)
    <2>1. /\ cqe[i].stage = "read" /\ OnlyJfc(cqe[i].jfc) /\ (Reaches(i, "dma") \/ Reaches(i, "failcb")) /\ mem' = mem
          /\ \/ \E v : jfc'[cqe[i].jfc] = [jfc[cqe[i].jfc] EXCEPT !.consumer = Masked(v),
                                                !.producer = IF Pipelined THEN @ + 1 ELSE @]
             \/ jfc' = jfc
      BY <1>12, ReadFacts DEF OnlyJfc, SameGuest
    <2>2. OnlyCqe(i)
      BY <2>1 DEF Reaches
    <2>3. jfc'[j].live = jfc[j].live /\ SamePending(j) /\ jfc'[j].deadline = jfc[j].deadline
      <3>1. CASE jfc'[j] = jfc[j]
        BY <3>1 DEF SamePending
      <3>2. CASE j = cqe[i].jfc /\ jfc' # jfc
        <4>1. PICK r \in JfcRecord : r = jfc[j]
          BY DEF TypeOK, EngineType
        <4>2. PICK v : jfc'[j] = [r EXCEPT !.consumer = Masked(v), !.producer = IF Pipelined THEN @ + 1 ELSE @]
          BY <2>1, <3>2, <4>1
        <4>3. PICK q : q = [r EXCEPT !.consumer = Masked(v), !.producer = IF Pipelined THEN @ + 1 ELSE @]
          OBVIOUS
        <4>4. q.live = r.live /\ q.pend = r.pend /\ q.period = r.period /\ q.armed = r.armed /\ q.deadline = r.deadline
          BY <4>1, <4>3 DEF JfcRecord
        <4> QED
          BY <4>1, <4>2, <4>3, <4>4 DEF SamePending
      <3> QED
        BY <2>1, <3>1, <3>2 DEF OnlyJfc
    <2> QED
      BY <2>1, <2>2, <2>3, <1>d DEF OnlyCqe
  <1>13. ASSUME NEW i \in Cqes, CqeDmaFails(i)
         PROVE  Rests(j)' => (Visible(j)' => EventOwed(j)') /\ (OneShot => jfc'[j].armed)
    <2>1. faults' = faults + 1
      BY <1>13, DmaFailsFacts
    <2> QED
      BY <1>g, <2>1
  <1>14. ASSUME NEW i \in Cqes, CqeLands(i)
         PROVE  Rests(j)' => (Visible(j)' => EventOwed(j)') /\ (OneShot => jfc'[j].armed)
    <2>1. /\ cqe[i].stage = "dma" /\ Reaches(i, "landed") /\ jfc' = jfc
          /\ mem' = [mem EXCEPT ![cqe[i].jfc][cqe[i].pos % Depth] = [owner |-> Owner(cqe[i].pos), id |-> i]]
      BY <1>14, LandsFacts
    <2>2. CASE cqe[i].jfc = j
      <3>1. EventOwed(j)'
        BY <2>1, <2>2 DEF EventOwed, Reaches
      <3>2. Rests(j)' => Rests(j)
        BY <1>f, <2>1 DEF Rests
      <3> QED
        BY <2>1, <3>1, <3>2
    <2>3. CASE cqe[i].jfc # j
      <3>1. mem'[j] = mem[j]
        BY <1>g, <2>1, <2>3
      <3> QED
        BY <2>1, <3>1, <1>e DEF Reaches
    <2> QED
      BY <2>2, <2>3
  <1>15. ASSUME NEW i \in Cqes, CqeWritten(i)
         PROVE  Rests(j)' => (Visible(j)' => EventOwed(j)') /\ (OneShot => jfc'[j].armed)
    <2>1. cqe[i].stage = "landed" /\ OnlyCqe(i) /\ OnlyJfc(cqe[i].jfc) /\ mem' = mem
      BY <1>15, WrittenFacts DEF SameGuest, Reaches, OnlyJfc
    <2>2. CASE cqe[i].jfc # j
      BY <2>1, <2>2, <1>e DEF OnlyJfc
    <2>3. CASE cqe[i].jfc = j
      <3>1. /\ jfc[j].live /\ jfc'[j].period = jfc[j].period /\ jfc'[j].live
            /\ \/ /\ jfc'[j].pend = jfc[j].pend + 1
                  /\ jfc'[j].deadline = (IF jfc[j].deadline = "none" /\ jfc[j].period THEN "armed" ELSE jfc[j].deadline)
                  /\ jfc'[j].armed = jfc[j].armed
               \/ events' = Append(events, [jfc |-> j, ceq |-> CeqOf[j]])
               \/ ~Notifies(j)
        BY <1>15, <2>3, WrittenFacts
      <3>2. Rests(j)' => Rests(j)
        BY <1>f, <3>1 DEF Rests
      <3>3. CASE /\ jfc'[j].pend = jfc[j].pend + 1
                 /\ jfc'[j].deadline = (IF jfc[j].deadline = "none" /\ jfc[j].period THEN "armed" ELSE jfc[j].deadline)
                 /\ jfc'[j].armed = jfc[j].armed
        <4>1. jfc[j].pend \in Nat /\ jfc[j].period \in BOOLEAN
          BY DEF TypeOK, EngineType, JfcRecord
        <4>2. jfc'[j].pend > 0
          BY <3>3, <4>1
        <4>3. jfc[j].period => jfc'[j].deadline # "none"
          BY <3>3
        <4>4. EventOwed(j)'
          BY <3>1, <4>1, <4>2, <4>3 DEF EventOwed, TimerPending
        <4> QED
          BY <3>2, <3>3, <4>4
      <3>4. CASE events' = Append(events, [jfc |-> j, ceq |-> CeqOf[j]])
        <4>1. Wakes(j)'
          BY <3>4, AppendedEvent DEF Wakes
        <4> QED
          BY <4>1 DEF Rests
      <3>5. CASE ~Notifies(j)
        BY <3>2, <3>5 DEF Notifies
      <3> QED
        BY <3>1, <3>3, <3>4, <3>5
    <2> QED
      BY <2>2, <2>3
  <1> QED
    BY <1>1, <1>2, <1>3, <1>4, <1>5, <1>6, <1>7, <1>8, <1>9, <1>10, <1>11, <1>12, <1>13, <1>14, <1>15 DEF EngineStep

\* Every step keeps the claim about sleeping guests.
LEMMA WakeStep ==
    ASSUME TypeOK, CeqInv, StackInv, QueueInv, RouteInv, SleepInv, EntriesInv, WakeInv, Next
    PROVE  WakeInv'
  <1> SUFFICES ASSUME faults' = 0, modifies' = 0, NEW j \in Jfcs
               PROVE  Rests(j)' => (Visible(j)' => EventOwed(j)') /\ (OneShot => jfc'[j].armed)
    BY DEF WakeInv
  <1>a. faults' = faults /\ modifies' = modifies /\ \A c \in Ceqs : EntriesOf(c)
    BY CountersGrow DEF EntriesInv, EntriesOf, Landing
  <1>b. Rests(j) => (Visible(j) => EventOwed(j)) /\ (OneShot => jfc[j].armed)
    BY <1>a DEF WakeInv
  <1>c. /\ CeqOf \in [Jfcs -> Ceqs] /\ CeqOf[j] \in Ceqs /\ faults \in Nat /\ events \in Seq(EventRecord)
        /\ eq \in [Ceqs -> Seq(Jfcs)] /\ eqRead \in [Ceqs -> Nat] /\ asleep \in [Jfcs -> BOOLEAN] /\ ci \in [Jfcs -> Nat]
        /\ mem \in [Jfcs -> [0 .. (Depth - 1) -> [owner : BOOLEAN, id : 0 .. MaxCqe]]]
    BY CeqAssumption DEF TypeOK, ControlType, NotifyType, GuestType
  <1>d. ASSUME ~asleep'[j]
        PROVE  Rests(j)' => (Visible(j)' => EventOwed(j)') /\ (OneShot => jfc'[j].armed)
    BY <1>d DEF Rests
  <1>e. ASSUME UNCHANGED <<jfc, cqe>>, mem'[j] = mem[j], ci'[j] = ci[j], asleep'[j] => asleep[j], Wakes(j) => Wakes(j)'
        PROVE  Rests(j)' => (Visible(j)' => EventOwed(j)') /\ (OneShot => jfc'[j].armed)
    <2>1. EventOwed(j) => EventOwed(j)'
      BY <1>e, OwedKept
    <2> QED
      BY <1>b, <1>e, <2>1, RestKept
  <1>1. CASE EngineStep
    BY <1>1, <1>a, <1>b, EngineWake
  <1>2. ASSUME NEW k \in DOMAIN events, StartEvent(k)
        PROVE  Rests(j)' => (Visible(j)' => EventOwed(j)') /\ (OneShot => jfc'[j].armed)
    <2>1. /\ UNCHANGED <<jfc, cqe, mem, ci, asleep, eq, eqRead>> /\ active.stage = "idle"
          /\ active' = [stage |-> "dma", jfc |-> events[k].jfc, ceq |-> events[k].ceq] /\ events' = RemoveAt(events, k)
      BY <1>2 DEF StartEvent, Dispatching, engine, guest
    <2>2. \A n \in DOMAIN events : n # k => \E m \in DOMAIN events' : events'[m] = events[n]
      BY <2>1, RemovedEvents
    <2>3. Wakes(j) => Wakes(j)'
      BY <2>1, <2>2 DEF Wakes
    <2> QED
      BY <1>e, <2>1, <2>3
  <1>3. ASSUME NEW k \in DOMAIN events, DropEvent(k)
        PROVE  Rests(j)' => (Visible(j)' => EventOwed(j)') /\ (OneShot => jfc'[j].armed)
    <2>1. /\ UNCHANGED <<jfc, cqe, mem, ci, asleep, eq, eqRead, active>> /\ ~ceq[events[k].ceq].live
          /\ events' = RemoveAt(events, k)
      BY <1>3 DEF DropEvent, engine, guest
    <2>2. \A n \in DOMAIN events : n # k => \E m \in DOMAIN events' : events'[m] = events[n]
      BY <2>1, RemovedEvents
    <2>3. CASE events[k].jfc = j
      <3>1. ~asleep[j]
        BY <2>1, <2>3 DEF RouteInv, SleepInv
      <3> QED
        BY <1>d, <2>1, <3>1
    <2>4. CASE events[k].jfc # j
      <3>1. Wakes(j) => Wakes(j)'
        BY <2>1, <2>2, <2>4, WakesKept
      <3> QED
        BY <1>e, <2>1, <3>1
    <2> QED
      BY <2>3, <2>4
  <1>4. CASE OtherHandler /\ ~\E k \in DOMAIN events : StartEvent(k) \/ DropEvent(k)
    <2>1. UNCHANGED <<jfc, cqe, mem, ci, asleep, eq, eqRead, active, events>>
      BY <1>4 DEF OtherHandler, CallerReturns, ReleaseCompletionEventSlot, PumpLoop, PumpIds, EndPass,
                  DispatchReturns, DispatchEnds, NoDestroyReady, CompleteEqDestroy, engine, guest, notify
    <2> QED
      BY <1>e, <2>1, WakesKept
  <1>5. CASE CeqeLands
    <2>1. /\ active.ceq \in Ceqs /\ active' = [active EXCEPT !.stage = "landed"] /\ active.jfc \in Jfcs
          /\ Len(eq[active.ceq]) = ceq[active.ceq].producer /\ eq[active.ceq] \in Seq(Jfcs)
          /\ eq'[active.ceq] = Append(eq[active.ceq], active.jfc)
          /\ \A d \in Ceqs : d # active.ceq => eq'[d] = eq[d]
          /\ UNCHANGED <<events, eqRead, asleep, mem, ci>>
      BY <1>5, <1>a, LandedFacts
    <2>2. UNCHANGED <<jfc, cqe>>
      BY <1>5 DEF CeqeLands, engine
    <2>3. PICK c \in Ceqs : c = CeqOf[j]
      BY <1>c
    <2>4. \A k \in DOMAIN eq[c] : k \in DOMAIN eq'[c] /\ eq'[c][k] = eq[c][k]
      <3>1. CASE c # active.ceq
        BY <2>1, <3>1
      <3>2. CASE c = active.ceq
        <4>1. PICK s \in Seq(Jfcs) : s = eq[c]
          BY <2>1, <3>2
        <4>2. \A k \in DOMAIN s : k \in DOMAIN Append(s, active.jfc) /\ Append(s, active.jfc)[k] = s[k]
          BY <2>1, <4>1
        <4> QED
          BY <2>1, <3>2, <4>1, <4>2
      <3> QED
        BY <3>1, <3>2
    <2>5. active.stage = "dma" /\ active.jfc = j =>
             Len(eq[c]) + 1 \in DOMAIN eq'[c] /\ eq'[c][Len(eq[c]) + 1] = j /\ Len(eq[c]) + 1 > eqRead[c]
      <3> SUFFICES ASSUME active.stage = "dma", active.jfc = j
                   PROVE  Len(eq[c]) + 1 \in DOMAIN eq'[c] /\ eq'[c][Len(eq[c]) + 1] = j /\ Len(eq[c]) + 1 > eqRead[c]
        OBVIOUS
      <3>1. active.ceq = c
        BY <2>3 DEF RouteInv
      <3>2. eqRead[c] <= Len(eq[c]) /\ eqRead[c] \in Nat /\ Len(eq[c]) \in Nat
        BY <1>a, <1>c DEF EntriesOf
      <3> QED
        BY <2>1, <3>1, <3>2
    <2>6. Wakes(j) => Wakes(j)'
      BY <2>1, <2>3, <2>4, <2>5 DEF Wakes
    <2> QED
      BY <1>e, <2>1, <2>2, <2>6
  <1>6. CASE CeqeWritten \/ InterruptDelivered
    <2>1. UNCHANGED <<jfc, cqe, mem, ci, asleep, eq, eqRead, events>> /\ active.stage # "dma"
      BY <1>6 DEF CeqeWritten, InterruptDelivered, engine, guest
    <2>2. Wakes(j) => Wakes(j)'
      BY <2>1 DEF Wakes
    <2> QED
      BY <1>e, <2>1, <2>2
  <1>7. CASE CeqeFails \/ InterruptFails
    <2>1. faults' = faults + 1
      BY <1>7 DEF CeqeFails, InterruptFails, Fault
    <2> QED
      BY <1>a, <1>c, <2>1
  <1>8. ASSUME NEW c \in Ceqs, ApplyCreateCeq(c) \/ HandleCeqConsumerMmio(c)
        PROVE  Rests(j)' => (Visible(j)' => EventOwed(j)') /\ (OneShot => jfc'[j].armed)
    <2>1. UNCHANGED <<jfc, cqe, mem, ci, asleep, eq, eqRead, active, events>>
      BY <1>8 DEF ApplyCreateCeq, HandleCeqConsumerMmio, engine, guest
    <2> QED
      BY <1>e, <2>1, WakesKept
  <1>9. ASSUME NEW n \in Jfcs, PollCq(n)
        PROVE  Rests(j)' => (Visible(j)' => EventOwed(j)') /\ (OneShot => jfc'[j].armed)
    <2>1. /\ UNCHANGED <<jfc, cqe, mem, asleep, eq, eqRead, active, events>> /\ ~asleep[n]
          /\ ci' = [ci EXCEPT ![n] = @ + 1]
      BY <1>9 DEF PollCq, engine, notify
    <2>2. CASE n = j
      BY <1>d, <2>1, <2>2
    <2>3. CASE n # j
      BY <1>c, <1>e, <2>1, <2>3, WakesKept
    <2> QED
      BY <2>2, <2>3
  <1>10. ASSUME NEW n \in Jfcs, Sleep(n)
         PROVE  Rests(j)' => (Visible(j)' => EventOwed(j)') /\ (OneShot => jfc'[j].armed)
    <2>1. /\ UNCHANGED <<jfc, cqe, mem, ci, eq, eqRead, active, events>> /\ ~Visible(n) /\ (OneShot => jfc[n].armed)
          /\ asleep' = [asleep EXCEPT ![n] = TRUE]
      BY <1>10 DEF Sleep, engine, notify
    <2>2. CASE n = j
      BY <2>1, <2>2 DEF Visible
    <2>3. CASE n # j
      BY <1>c, <1>e, <2>1, <2>3, WakesKept
    <2> QED
      BY <2>2, <2>3
  <1>11. ASSUME NEW n \in Jfcs, CreateJfc(n)
         PROVE  Rests(j)' => (Visible(j)' => EventOwed(j)') /\ (OneShot => jfc'[j].armed)
    <2>1. /\ UNCHANGED <<jfc, cqe, eq, eqRead, active, events>> /\ asleep' = [asleep EXCEPT ![n] = FALSE]
          /\ mem' = [mem EXCEPT ![n] = EmptyRing] /\ ci' = [ci EXCEPT ![n] = 0]
      BY <1>11 DEF CreateJfc, engine, notify
    <2>2. CASE n = j
      BY <1>c, <1>d, <2>1, <2>2
    <2>3. CASE n # j
      BY <1>c, <1>e, <2>1, <2>3, WakesKept
    <2> QED
      BY <2>2, <2>3
  <1>12. ASSUME NEW n \in Jfcs, QueryJfc(n)
         PROVE  Rests(j)' => (Visible(j)' => EventOwed(j)') /\ (OneShot => jfc'[j].armed)
    <2>1. UNCHANGED <<jfc, cqe, mem, ci, asleep, eq, eqRead, active, events>>
      BY <1>12 DEF QueryJfc, engine, notify, guest
    <2> QED
      BY <1>e, <2>1, WakesKept
  <1>13. ASSUME NEW c \in Ceqs, PollCeq(c)
         PROVE  Rests(j)' => (Visible(j)' => EventOwed(j)') /\ (OneShot => jfc'[j].armed)
    <2>1. UNCHANGED <<jfc, cqe, mem, ci, eq, active, events>>
      BY <1>13 DEF PollCeq, engine, notify
    <2>2. CASE eqRead' = eqRead /\ asleep' = asleep
      BY <1>e, <2>1, <2>2, WakesKept
    <2>3. CASE eqRead' = [eqRead EXCEPT ![c] = @ + 1] /\ asleep' = [asleep EXCEPT ![eq[c][eqRead[c] + 1]] = FALSE]
      <3>1. CASE eq[c][eqRead[c] + 1] = j
        BY <1>c, <1>d, <2>3, <3>1
      <3>2. CASE eq[c][eqRead[c] + 1] # j
        <4>1. asleep'[j] => asleep[j]
          BY <1>c, <2>3
        <4>2. \A d \in Ceqs : \A k \in DOMAIN eq[d] : k > eqRead[d] /\ eq[d][k] = j => k > eqRead'[d]
          <5> SUFFICES ASSUME NEW d \in Ceqs, NEW k \in DOMAIN eq[d], k > eqRead[d], eq[d][k] = j
                       PROVE  k > eqRead'[d]
            OBVIOUS
          <5>1. k \in Nat /\ eqRead[d] \in Nat
            BY <1>c
          <5>2. CASE d # c
            BY <1>c, <2>3, <5>2
          <5>3. CASE d = c
            <6>1. k # eqRead[c] + 1 /\ eqRead'[c] = eqRead[c] + 1
              BY <1>c, <2>3, <3>2, <5>3
            <6> QED
              BY <5>1, <5>3, <6>1
          <5> QED
            BY <5>2, <5>3
        <4>3. Wakes(j) => Wakes(j)'
          BY <1>c, <2>1, <4>2 DEF Wakes
        <4> QED
          BY <1>e, <2>1, <4>1, <4>3
      <3> QED
        BY <3>1, <3>2
    <2> QED
      BY <1>13, <2>2, <2>3 DEF PollCeq
  <1>14. ASSUME NEW c \in Ceqs, CreateCeq(c)
         PROVE  Rests(j)' => (Visible(j)' => EventOwed(j)') /\ (OneShot => jfc'[j].armed)
    <2>1. /\ UNCHANGED <<jfc, cqe, mem, ci, active, events, asleep>> /\ ~ceq[c].live
          /\ eq' = [eq EXCEPT ![c] = <<>>] /\ eqRead' = [eqRead EXCEPT ![c] = 0]
      BY <1>14 DEF CreateCeq, engine, notify
    <2>2. CASE CeqOf[j] = c
      <3>1. ~asleep[j]
        BY <2>1, <2>2 DEF SleepInv
      <3> QED
        BY <1>d, <2>1, <3>1
    <2>3. CASE CeqOf[j] # c
      <3>1. eq'[CeqOf[j]] = eq[CeqOf[j]] /\ eqRead'[CeqOf[j]] = eqRead[CeqOf[j]]
        BY <1>c, <2>1, <2>3
      <3>2. Wakes(j) => Wakes(j)'
        BY <2>1, <3>1 DEF Wakes
      <3> QED
        BY <1>e, <2>1, <3>2
    <2> QED
      BY <2>2, <2>3
  <1>15. ASSUME NEW c \in Ceqs, DestroyCeq(c)
         PROVE  Rests(j)' => (Visible(j)' => EventOwed(j)') /\ (OneShot => jfc'[j].armed)
    <2>1. /\ UNCHANGED <<jfc, cqe, mem, ci, active, events, eq, eqRead>>
          /\ asleep' = [n \in Jfcs |-> asleep[n] /\ CeqOf[n] # c]
      BY <1>15 DEF DestroyCeq, engine
    <2> QED
      BY <1>c, <1>e, <2>1, WakesKept
  <1> QED
    BY <1>1, <1>2, <1>3, <1>4, <1>5, <1>6, <1>7, <1>8, <1>9, <1>10, <1>11, <1>12, <1>13, <1>14, <1>15, NextCases
       DEF EngineStep, OtherHandler, OtherEvent, OtherGuest

\* All that holds of the engine whatever the guest queries.
EngineInv == StackInv /\ QueueInv /\ EntryInv
NotifyInv == RouteInv /\ SleepInv /\ EntriesInv /\ WakeInv

\* At the start nothing is in flight and no guest sleeps.
LEMMA EngineInit == Init => EngineInv /\ NotifyInv
  <1> SUFFICES ASSUME Init PROVE EngineInv /\ NotifyInv
    OBVIOUS
  <1>1. /\ stack = <<>> /\ submitted = 0 /\ waiting = [j \in Jfcs |-> <<>>] /\ csq = NoCmd
        /\ \A i \in Cqes : cqe[i].stage = "new"
    BY DEF Init
  <1>2. StackInv
    BY <1>1 DEF StackInv, Releasing
  <1>3. QueueInv
    BY <1>1 DEF QueueInv, Cqes
  <1>4. EntryInv
    BY <1>1 DEF EntryInv, InFlight, InFlightStages, InDma, Taken, Placed, NoCmd
  <1>5. RouteInv /\ SleepInv
    BY DEF Init, RouteInv, SleepInv, Inactive
  <1>6. EntriesInv
    BY DEF Init, EntriesInv, DeadCeq, FreshCeq, NoCmd
  <1>7. WakeInv
    BY DEF Init, WakeInv, Rests
  <1> QED
    BY <1>2, <1>3, <1>4, <1>5, <1>6, <1>7 DEF EngineInv, NotifyInv

\* The engine and the notifications, with the invariant of the CEQs.
LEMMA EngineSafe == Spec => [](IInv /\ EngineInv /\ NotifyInv)
  <1>1. Init => EngineInv /\ NotifyInv
    BY EngineInit
  <1>2. IInv /\ IInv' /\ (EngineInv /\ NotifyInv) /\ [Next]_vars => (EngineInv /\ NotifyInv)'
    <2>1. ASSUME IInv, IInv', EngineInv, NotifyInv, Next
          PROVE  EngineInv' /\ NotifyInv'
      <3>1. TypeOK /\ TypeOK' /\ CommandInv /\ CeqInv
        BY <2>1 DEF IInv
      <3>2. StackInv' /\ QueueInv' /\ EntryInv'
        BY <2>1, <3>1, StackStep, QueueStep, EntryStep DEF EngineInv
      <3>3. RouteInv' /\ SleepInv' /\ EntriesInv' /\ WakeInv'
        BY <2>1, <3>1, RouteStep, SleepStep, EntriesStep, WakeStep DEF EngineInv, NotifyInv
      <3> QED
        BY <3>2, <3>3 DEF EngineInv, NotifyInv
    <2>2. ASSUME EngineInv, NotifyInv, UNCHANGED vars
          PROVE  EngineInv' /\ NotifyInv'
      <3>1. EngineInv'
        BY <2>2 DEF vars, EngineInv, StackInv, QueueInv, EntryInv, Taken, Placed, Mine, InFlight
      <3>2. RouteInv' /\ SleepInv' /\ EntriesInv'
        BY <2>2 DEF vars, NotifyInv, RouteInv, SleepInv, EntriesInv
      <3>3. WakeInv'
        BY <2>2 DEF vars, NotifyInv, WakeInv, Rests, Wakes, Visible, EventOwed, TimerPending
      <3> QED
        BY <3>1, <3>2, <3>3 DEF NotifyInv
    <2> QED
      BY <2>1, <2>2
  <1> QED
    BY <1>1, <1>2, Inductive, PTL DEF Spec

\* A guest that armed a JFC, found its CQ empty and went to sleep is never forgotten: for a CQE
\* that WriteCqeNow makes visible later the event is queued, in flight or unread, or the JFC
\* still owes it (a moderation timer, a count not yet reached, a write not yet acknowledged).
THEOREM NoMissed == Spec => []NoMissedNotification
  <1>1. IInv /\ EngineInv /\ NotifyInv => NoMissedNotification
    <2> SUFFICES ASSUME IInv, NotifyInv, NEW j \in Jfcs, faults = 0, modifies = 0, jfc[j].live, asleep[j], Visible(j)
                 PROVE  EventUnderWay(j) \/ EventOwed(j)
      BY DEF NoMissedNotification
    <2>1. Rests(j) => EventOwed(j)
      BY DEF NotifyInv, WakeInv
    <2>2. CeqOf[j] \in Ceqs
      BY CeqAssumption
    <2>3. Wakes(j) => EventUnderWay(j)
      BY <2>2 DEF Wakes, EventUnderWay
    <2> QED
      BY <2>1, <2>3 DEF Rests
  <1> QED
    BY <1>1, EngineSafe, PTL

----------------------------------------------------------------------------
(* Positions in a ring *)

\* A multiple of d beyond d.
LEMMA Multiple ==
    ASSUME NEW d \in Nat, d # 0, NEW k \in Int
    PROVE  (k >= 1 => d * k >= d) /\ (k <= -1 => d * k <= -d) /\ (k <= -2 => d * k <= -2 * d) /\ (k >= 2 => d * k >= 2 * d)
  <1>1. ASSUME NEW n \in Int, n >= 0 PROVE d * n >= 0
    BY <1>1
  <1>2. d * k = d + d * (k - 1) /\ d * k = (-d) - d * ((-1) - k) /\ d * k = (-2 * d) - d * ((-2) - k)
    OBVIOUS
  <1>4. d * k = 2 * d + d * (k - 2)
    OBVIOUS
  <1>3. d * (k - 1) \in Int /\ d * ((-1) - k) \in Int /\ d * ((-2) - k) \in Int /\ d * k \in Int /\ d * (k - 2) \in Int
    OBVIOUS
  <1>5. k >= 1 => d * (k - 1) >= 0
    BY <1>1
  <1>6. k <= -1 => d * ((-1) - k) >= 0
    BY <1>1
  <1>7. k <= -2 => d * ((-2) - k) >= 0
    BY <1>1
  <1>8. k >= 2 => d * (k - 2) >= 0
    BY <1>1
  <1> QED
    BY <1>2, <1>3, <1>4, <1>5, <1>6, <1>7, <1>8

\* Division with remainder.
LEMMA Divide ==
    ASSUME NEW d \in Int, d > 0, NEW a \in Int
    PROVE  /\ a \div d \in Int /\ a % d \in Int /\ 0 <= a % d /\ a % d < d
           /\ a = d * (a \div d) + (a % d)
  <1>1. a % d \in Int /\ 0 <= a % d /\ a % d < d
    BY SMT
  <1>2. a \div d \in Int
    OBVIOUS
  <1>3. a = d * (a \div d) + (a % d)
    BY SMT
  <1> QED
    BY <1>1, <1>2, <1>3

\* Adding a multiple of d keeps the remainder.
LEMMA SameRest ==
    ASSUME NEW d \in Int, d > 0, NEW a \in Int, NEW b \in Int, NEW k \in Int, a = b + d * k
    PROVE  a % d = b % d
  <1>1. PICK q \in Int : q = (a \div d) - (b \div d) - k
    BY Divide
  <1>2. d * q = d * (a \div d) - d * (b \div d) - d * k
    BY <1>1, Divide
  <1>3. d * (a \div d) \in Int /\ d * (b \div d) \in Int /\ d * k \in Int
    BY Divide
  <1>4. d * q = (b % d) - (a % d)
    BY <1>2, <1>3, Divide
  <1>5. -d < d * q /\ d * q < d
    BY <1>4, Divide
  <1>6. q = 0
    <2>1. (q >= 1 => d * q >= d) /\ (q <= -1 => d * q <= -d)
      BY <1>1, Multiple
    <2> QED
      BY <1>1, <1>5, <2>1
  <1> QED
    BY <1>4, <1>6, Divide

\* A small number is its own remainder.
LEMMA SmallRest ==
    ASSUME NEW d \in Int, d > 0, NEW a \in Int, 0 <= a, a < d
    PROVE  a % d = a /\ a \div d = 0
  <1>1. a % d = a
    BY SMT
  <1>2. PICK k \in Int : k = a \div d
    BY Divide
  <1>3. d * k = 0
    BY <1>1, <1>2, Divide
  <1>4. (k >= 1 => d * k >= d) /\ (k <= -1 => d * k <= -d)
    BY <1>2, Multiple
  <1> QED
    BY <1>1, <1>2, <1>3, <1>4

\* The successor of an index.
LEMMA NextRest ==
    ASSUME NEW d \in Int, d > 0, NEW a \in Int, (a % d) + 1 < d
    PROVE  (a + 1) % d = (a % d) + 1
  <1>1. PICK r \in Int : r = a % d
    BY Divide
  <1>2. PICK k \in Int : a = r + d * k
    BY <1>1, Divide
  <1>3. a + 1 = (r + 1) + d * k /\ r + 1 \in Int /\ a + 1 \in Int
    BY <1>1, <1>2
  <1>4. (a + 1) % d = (r + 1) % d
    <2>1. PICK x \in Int : x = a + 1
      BY <1>3
    <2>2. PICK y \in Int : y = r + 1
      BY <1>3
    <2>3. x = y + d * k
      BY <1>3, <2>1, <2>2
    <2>4. x % d = y % d
      BY <2>3, SameRest
    <2> QED
      BY <2>1, <2>2, <2>4
  <1>5. (r + 1) % d = r + 1
    BY <1>1, Divide, SmallRest
  <1> QED
    BY <1>1, <1>4, <1>5

\* The distance to an index that is kept modulo d.
LEMMA RestOfDistance ==
    ASSUME NEW d \in Int, d > 0, NEW a \in Int, NEW b \in Int
    PROVE  (a - (b % d)) % d = (a - b) % d
  <1>1. PICK k \in Int : k = b \div d
    BY Divide
  <1>2. b = d * k + (b % d) /\ b % d \in Int
    BY <1>1, Divide
  <1>3. a - (b % d) = (a - b) + d * k /\ a - (b % d) \in Int /\ a - b \in Int
    BY <1>2
  <1>4. PICK x \in Int : x = a - (b % d)
    BY <1>3
  <1>5. PICK y \in Int : y = a - b
    BY <1>3
  <1>6. x = y + d * k
    BY <1>3, <1>4, <1>5
  <1>7. x % d = y % d
    BY <1>6, SameRest
  <1> QED
    BY <1>4, <1>5, <1>7

\* Positions of one entry: less than a lap apart they are the same, in the same lap parity less than two laps.
LEMMA SamePosition ==
    ASSUME NEW d \in Int, d > 0, NEW a \in Int, NEW b \in Int, a % d = b % d
    PROVE  /\ a < b + d => a <= b
           /\ a < b + d /\ b - 2 * d < a /\ ((a \div d) % 2 = 0 <=> (b \div d) % 2 = 0) => a = b
           /\ a < b + d /\ b - d < a => a = b
  <1>1. PICK p \in Int : p = a \div d
    BY Divide
  <1>2. PICK q \in Int : q = b \div d
    BY Divide
  <1>3. PICK k \in Int : k = p - q
    BY <1>1, <1>2
  <1>4. d * k = d * p - d * q /\ d * p \in Int /\ d * q \in Int
    BY <1>3
  <1>5. a = d * p + (a % d) /\ b = d * q + (b % d) /\ a % d \in Int
    BY <1>1, <1>2, Divide
  <1>6. a - b = d * k
    BY <1>4, <1>5
  <1>7. (k >= 1 => d * k >= d) /\ (k <= -1 => d * k <= -d) /\ (k <= -2 => d * k <= -2 * d) /\ (k = 0 => d * k = 0)
    BY <1>3, Multiple
  <1>8. a < b + d => k <= 0
    BY <1>6, <1>7
  <1>9. a < b + d => a <= b
    BY <1>6, <1>7, <1>8
  <1>10. a < b + d /\ b - d < a => a = b
    BY <1>6, <1>7, <1>8
  <1>11. ASSUME a < b + d, b - 2 * d < a, (a \div d) % 2 = 0 <=> (b \div d) % 2 = 0
         PROVE  a = b
    <2>1. k = 0 \/ k = -1
      BY <1>6, <1>7, <1>8, <1>11
    <2>2. k # -1
      BY <1>1, <1>2, <1>3, <1>11
    <2> QED
      BY <1>6, <1>7, <2>1, <2>2
  <1> QED
    BY <1>9, <1>10, <1>11

\* One lap back.
LEMMA LapBack ==
    ASSUME NEW d \in Int, d > 0, NEW a \in Int
    PROVE  (a - d) % d = a % d
  <1>1. PICK k \in Int : k = -1
    OBVIOUS
  <1>2. a - d = a + d * k /\ a - d \in Int
    BY <1>1
  <1> QED
    BY <1>1, <1>2, SameRest

\* The index modulus holds more than a ring.
LEMMA WrapLarge == Wrap \in Int /\ Depth \in Int /\ Depth > 0 /\ Wrap > 0 /\ Depth + 1 <= Wrap
  <1>1. Wrap \in Int /\ Depth \in Int /\ Depth > 0 /\ Wrap > 0 /\ Wrap % (2 * Depth) = 0
    BY RingAssumption
  <1>2. PICK e \in Int : e = 2 * Depth
    BY <1>1
  <1>3. Wrap % e = 0
    BY <1>1, <1>2
  <1>4. ~(Wrap < e)
    BY <1>1, <1>2, <1>3, SmallRest
  <1> QED
    BY <1>1, <1>2, <1>4

----------------------------------------------------------------------------
(* The rings *)

\* Indexes are integers.
LEMMA UsedType ==
    ASSUME TypeOK, NEW j \in Jfcs
    PROVE  /\ Used(j) \in Int /\ 0 <= Used(j) /\ jfc[j].producer \in Int /\ jfc[j].producer >= 0
           /\ jfc[j].consumer \in Int /\ ci[j] \in Int /\ ci[j] >= 0
           /\ Used(j) = (jfc[j].producer - jfc[j].consumer) % Wrap
  <1>1. /\ jfc[j].producer \in Int /\ jfc[j].producer >= 0 /\ jfc[j].consumer \in Int
        /\ ci[j] \in Int /\ ci[j] >= 0
    <2>1. jfc[j] \in JfcRecord /\ ci[j] \in Nat
      BY DEF TypeOK, EngineType, GuestType
    <2>2. jfc[j].producer \in Nat /\ jfc[j].consumer \in 0 .. (Wrap - 1)
      BY <2>1 DEF JfcRecord
    <2> QED
      BY <2>1, <2>2, WrapLarge
  <1>2. Used(j) = (jfc[j].producer - jfc[j].consumer) % Wrap
    BY DEF Used, Masked
  <1> QED
    BY <1>1, <1>2, WrapLarge, Divide

\* A completion keeps its place; at most its callback returns.
SameCqe(k) ==
    /\ cqe'[k].jfc = cqe[k].jfc /\ SamePlace(k)
    /\ cqe'[k].stage = cqe[k].stage \/ (cqe[k].stage = "okcb" /\ cqe'[k].stage = "ok")
Untouched(j) ==
    /\ SameJfc(j) /\ mem'[j] = mem[j] /\ ci'[j] = ci[j] /\ seen \subseteq seen'
    /\ \A k \in Cqes : cqe'[k].jfc = j /\ Placed(k)' => SameCqe(k)
    /\ \A k \in Cqes : cqe[k].jfc = j /\ Landed(k) => SameCqe(k)

\* A step that leaves the places of j keeps its ring.
LEMMA RingKept ==
    ASSUME TypeOK, NEW j \in Jfcs, RingOf(j), Untouched(j)
    PROVE  RingOf(j)'
  <1>1. ASSUME NEW k \in Cqes, SameCqe(k)
        PROVE  /\ cqe'[k].jfc = cqe[k].jfc /\ cqe'[k].gen = cqe[k].gen /\ cqe'[k].pos = cqe[k].pos
               /\ Placed(k)' <=> Placed(k)
               /\ Landed(k)' <=> Landed(k)
               /\ Writing(k)' <=> Writing(k)
               /\ cqe'[k].stage = "dma" <=> cqe[k].stage = "dma"
               /\ cqe'[k].stage = "landed" <=> cqe[k].stage = "landed"
    BY <1>1 DEF SameCqe, SamePlace, Placed, Landed, Writing
  <1>2. /\ jfc'[j].gen = jfc[j].gen /\ jfc'[j].producer = jfc[j].producer /\ Used(j)' = Used(j)
        /\ mem'[j] = mem[j] /\ ci'[j] = ci[j] /\ seen \subseteq seen'
    BY DEF Untouched, SameJfc, Used
  <1>3. ASSUME NEW k \in Cqes, cqe'[k].jfc = j, Placed(k)'
        PROVE  SameCqe(k)
    BY <1>3 DEF Untouched
  <1>4. ASSUME NEW k \in Cqes, cqe[k].jfc = j, Landed(k)
        PROVE  SameCqe(k)
    BY <1>4 DEF Untouched
  <1>5. \A k \in Cqes : /\ Writing(k) \/ Landed(k) \/ cqe[k].stage = "dma" \/ cqe[k].stage = "landed" => Placed(k)
                        /\ Writing(k)' \/ Landed(k)' \/ cqe'[k].stage = "dma" \/ cqe'[k].stage = "landed" => Placed(k)'
                        /\ cqe[k].stage = "landed" => Landed(k)
    BY DEF Placed, Landed, Writing
  <1>6. ASSUME NEW s, NEW k \in Cqes, Filled(j, s, k)
        PROVE  Filled(j, s, k)'
    <2>1. Mine(k, j) /\ Landed(k) /\ cqe[k].pos % Depth = s /\ Holds(j, s, k) /\ SameCqe(k)
      BY <1>4, <1>6 DEF Filled, Mine
    <2> QED
      BY <1>1, <1>2, <2>1 DEF Filled, Mine, Holds
  <1>7. PlaceInv(j)'
    <2> SUFFICES ASSUME NEW i \in Cqes, Mine(i, j)', Placed(i)'
                 PROVE  IF ~Pipelined /\ Writing(i)' THEN cqe'[i].pos = jfc'[j].producer ELSE cqe'[i].pos < jfc'[j].producer
      BY DEF PlaceInv
    <2>1. SameCqe(i)
      BY <1>3 DEF Mine
    <2>2. Mine(i, j) /\ Placed(i)
      BY <1>1, <1>2, <2>1 DEF Mine
    <2> QED
      BY <1>1, <1>2, <2>1, <2>2 DEF RingOf, PlaceInv
  <1>8. CreditInv(j)'
    <2>1. (\E i \in Cqes : cqe'[i].jfc = j /\ Writing(i)') => \E i \in Cqes : cqe[i].jfc = j /\ Writing(i)
      BY <1>1, <1>3, <1>5
    <2>2. (\E i \in Cqes : cqe[i].jfc = j /\ cqe[i].stage = "landed") => \E i \in Cqes : cqe'[i].jfc = j /\ cqe'[i].stage = "landed"
      BY <1>1, <1>4, <1>5
    <2> QED
      BY <1>2, <2>1, <2>2 DEF RingOf, CreditInv
  <1>9. EntryOf(j)'
    BY <1>2, <1>6 DEF RingOf, EntryOf
  <1>10. LatestOf(j)'
    <2> SUFFICES ASSUME NEW i \in Cqes, Mine(i, j)', Landed(i)'
                 PROVE  \E k \in Cqes : (Filled(j, cqe[i].pos % Depth, k) /\ cqe[i].pos <= cqe[k].pos)'
      BY DEF LatestOf
    <2>1. SameCqe(i)
      BY <1>3, <1>5 DEF Mine
    <2>2. Mine(i, j) /\ Landed(i) /\ cqe'[i].pos = cqe[i].pos
      BY <1>1, <1>2, <2>1 DEF Mine
    <2>3. PICK k \in Cqes : Filled(j, cqe[i].pos % Depth, k) /\ cqe[i].pos <= cqe[k].pos
      BY <2>2 DEF RingOf, LatestOf
    <2>4. PICK s : s = cqe[i].pos % Depth
      OBVIOUS
    <2>5. Filled(j, s, k)'
      BY <1>6, <2>3, <2>4
    <2>6. SameCqe(k)
      BY <1>4, <2>3 DEF Filled, Mine
    <2>7. (Filled(j, cqe[i].pos % Depth, k) /\ cqe[i].pos <= cqe[k].pos)'
      BY <1>1, <2>2, <2>3, <2>4, <2>5, <2>6 DEF Filled, Holds
    <2> QED
      BY <2>7
  <1>11. AheadOf(j)'
    <2> SUFFICES ASSUME NEW i \in Cqes, Mine(i, j)', cqe'[i].stage = "dma"
                 PROVE  ci'[j] <= cqe'[i].pos
      BY DEF AheadOf
    <2>1. SameCqe(i)
      BY <1>3, <1>5 DEF Mine
    <2> QED
      BY <1>1, <1>2, <2>1 DEF RingOf, AheadOf, Mine
  <1>12. PolledOf(j)'
    <2> SUFFICES ASSUME NEW p \in 0 .. (ci[j] - 1)
                 PROVE  \E i \in Cqes : Mine(i, j)' /\ Landed(i)' /\ cqe'[i].pos = p /\ i \in seen'
      BY <1>2 DEF PolledOf
    <2>1. PICK i \in Cqes : Mine(i, j) /\ Landed(i) /\ cqe[i].pos = p /\ i \in seen
      BY DEF RingOf, PolledOf
    <2>2. SameCqe(i)
      BY <1>4, <2>1 DEF Mine
    <2>3. Mine(i, j)' /\ Landed(i)' /\ cqe'[i].pos = p /\ i \in seen'
      BY <1>1, <1>2, <2>1, <2>2 DEF Mine
    <2> QED
      BY <2>3
  <1> QED
    BY <1>7, <1>8, <1>9, <1>10, <1>11, <1>12 DEF RingOf

\* Positions are integers.
LEMMA PosType ==
    ASSUME TypeOK, NEW i \in Cqes
    PROVE  cqe[i].pos \in Int /\ 0 <= cqe[i].pos /\ cqe[i].jfc \in Jfcs /\ cqe[i].gen \in Int /\ cqe[i].ci \in Int
  <1>1. cqe[i] \in CqeRecord
    BY DEF TypeOK, EngineType
  <1>2. cqe[i].pos \in Nat /\ cqe[i].jfc \in Jfcs /\ cqe[i].gen \in 0 .. MaxGen /\ cqe[i].ci \in Nat
    BY <1>1 DEF CqeRecord
  <1> QED
    BY <1>2, BoundAssumption

\* No CQE is written a lap ahead of the guest.
LEMMA PlaceBound ==
    ASSUME TypeOK, NEW j \in Jfcs, RingOf(j), NEW k \in Cqes, Mine(k, j), Placed(k)
    PROVE  cqe[k].pos < ci[j] + Depth
  <1>1. /\ Used(j) <= Depth /\ jfc[j].producer - Used(j) <= ci[j]
        /\ ~Pipelined /\ Writing(k) => Used(j) < Depth
    BY DEF RingOf, CreditInv, Mine
  <1>2. IF ~Pipelined /\ Writing(k) THEN cqe[k].pos = jfc[j].producer ELSE cqe[k].pos < jfc[j].producer
    BY DEF RingOf, PlaceInv
  <1> QED
    BY <1>1, <1>2, UsedType, PosType, WrapLarge

\* The owner bit at the consumer index shows the CQE of that position and no other.
LEMMA VisibleIsNext ==
    ASSUME TypeOK, NEW j \in Jfcs, RingOf(j), Visible(j)
    PROVE  \E k \in Cqes : Filled(j, ci[j] % Depth, k) /\ cqe[k].pos = ci[j]
  <1>1. ci[j] \in Int /\ ci[j] >= 0 /\ Depth \in Int /\ Depth > 0
    BY UsedType, WrapLarge
  <1>2. PICK s \in 0 .. (Depth - 1) : s = ci[j] % Depth
    BY <1>1, Divide
  <1>3. mem[j][s].owner = ((ci[j] \div Depth) % 2 = 0)
    BY <1>2 DEF Visible
  <1>4. PICK k \in Cqes : Filled(j, s, k) /\ ci[j] - 2 * Depth < cqe[k].pos
    <2>1. CASE ci[j] < Depth
      <3>1. ci[j] \div Depth = 0
        BY <1>1, <2>1, SmallRest
      <3>2. mem[j][s].owner
        <4>1. (ci[j] \div Depth) % 2 = 0
          BY <3>1
        <4> QED
          BY <1>3, <4>1, Zenon
      <3>3. PICK k \in Cqes : Filled(j, s, k)
        BY <3>2 DEF RingOf, EntryOf
      <3> QED
        BY <1>1, <2>1, <3>3, PosType
    <2>2. CASE ci[j] >= Depth
      <3>1. PICK p \in 0 .. (ci[j] - 1) : p = ci[j] - Depth
        BY <1>1, <2>2
      <3>2. PICK i \in Cqes : Mine(i, j) /\ Landed(i) /\ cqe[i].pos = p
        BY DEF RingOf, PolledOf
      <3>3. PICK k \in Cqes : Filled(j, cqe[i].pos % Depth, k) /\ cqe[i].pos <= cqe[k].pos
        BY <3>2 DEF RingOf, LatestOf
      <3>4. cqe[i].pos % Depth = s
        BY <1>1, <1>2, <3>1, <3>2, LapBack
      <3> QED
        BY <1>1, <3>1, <3>2, <3>3, <3>4, PosType
    <2> QED
      BY <1>1, <2>1, <2>2
  <1>5. Mine(k, j) /\ Landed(k) /\ cqe[k].pos % Depth = s /\ mem[j][s].owner = Owner(cqe[k].pos)
    BY <1>4 DEF Filled, Holds
  <1>6. cqe[k].pos < ci[j] + Depth
    BY <1>5, PlaceBound DEF Landed, Placed
  <1>7. (cqe[k].pos \div Depth) % 2 = 0 <=> (ci[j] \div Depth) % 2 = 0
    BY <1>3, <1>5 DEF Owner
  <1>8. cqe[k].pos = ci[j]
    BY <1>1, <1>2, <1>4, <1>5, <1>6, <1>7, PosType, SamePosition
  <1> QED
    BY <1>2, <1>4, <1>8

\* Two completions of a JFC have two positions.
LEMMA Distinct ==
    ASSUME TypeOK, CqesInSubmissionOrder, NEW i \in Cqes, NEW k \in Cqes, NEW j \in Jfcs,
           Mine(i, j), Mine(k, j), Placed(i), Placed(k), cqe[i].pos = cqe[k].pos
    PROVE  i = k
  <1>1. i \in Int /\ k \in Int
    BY DEF Cqes
  <1>2. (i < k => cqe[i].pos < cqe[k].pos) /\ (k < i => cqe[k].pos < cqe[i].pos)
    BY DEF CqesInSubmissionOrder, Mine
  <1> QED
    BY <1>1, <1>2, PosType

\* A CQE write is issued at the producer index.
LEMMA RingIssued ==
    ASSUME TypeOK, NEW j \in Jfcs, NEW i \in Cqes, RingOf(j), OnlyCqe(i), cqe[i].jfc = j, ~Placed(i),
           cqe'[i].jfc = j, cqe'[i].stage = "dma", cqe'[i].pos = jfc[j].producer,
           jfc'[j].gen = jfc[j].gen, jfc'[j].producer = (IF Pipelined THEN jfc[j].producer + 1 ELSE jfc[j].producer),
           SameGuest, Used(j)' <= Depth, jfc'[j].producer - Used(j)' <= ci[j], ~Pipelined => Used(j)' < Depth,
           ci[j] <= jfc[j].producer
    PROVE  RingOf(j)'
  <1>1. /\ jfc[j].producer \in Int /\ ci[j] \in Int /\ jfc'[j].producer \in Int /\ jfc[j].producer <= jfc'[j].producer
        /\ mem' = mem /\ ci' = ci /\ seen' = seen
    BY UsedType DEF SameGuest
  <1>2. \A k \in Cqes : k # i => cqe'[k] = cqe[k]
    BY DEF OnlyCqe
  <1>3. ASSUME NEW k \in Cqes, Mine(k, j), Landed(k)
        PROVE  k # i /\ cqe'[k] = cqe[k] /\ Mine(k, j)' /\ Landed(k)'
    <2>1. k # i
      BY <1>3 DEF Landed, Placed
    <2> QED
      BY <1>2, <1>3, <2>1 DEF Mine, Landed
  <1>4. ASSUME NEW k \in Cqes, Mine(k, j)', k # i
        PROVE  Mine(k, j) /\ cqe'[k] = cqe[k]
    BY <1>2, <1>4 DEF Mine
  <1>5. ASSUME NEW s, NEW k \in Cqes, Filled(j, s, k)
        PROVE  Filled(j, s, k)' /\ cqe'[k] = cqe[k]
    <2>1. cqe'[k] = cqe[k] /\ Mine(k, j)' /\ Landed(k)'
      BY <1>3, <1>5 DEF Filled
    <2> QED
      BY <1>1, <1>5, <2>1 DEF Filled, Holds
  <1>6. PlaceInv(j)'
    <2> SUFFICES ASSUME NEW k \in Cqes, Mine(k, j)', Placed(k)'
                 PROVE  IF ~Pipelined /\ Writing(k)' THEN cqe'[k].pos = jfc'[j].producer ELSE cqe'[k].pos < jfc'[j].producer
      BY DEF PlaceInv
    <2>1. CASE k = i
      <3>1. Writing(k)'
        BY <2>1 DEF Writing
      <3> QED
        BY <1>1, <2>1, <3>1
    <2>2. CASE k # i
      <3>1. Mine(k, j) /\ cqe'[k] = cqe[k] /\ Placed(k) /\ (Writing(k)' <=> Writing(k))
        BY <1>4, <2>2 DEF Placed, Writing
      <3>2. IF ~Pipelined /\ Writing(k) THEN cqe[k].pos = jfc[j].producer ELSE cqe[k].pos < jfc[j].producer
        BY <3>1 DEF RingOf, PlaceInv
      <3> QED
        BY <1>1, <3>1, <3>2, PosType
    <2> QED
      BY <2>1, <2>2
  <1>7. CreditInv(j)'
    BY <1>1 DEF CreditInv
  <1>8. EntryOf(j)'
    BY <1>1, <1>5 DEF RingOf, EntryOf
  <1>9. LatestOf(j)'
    <2> SUFFICES ASSUME NEW m \in Cqes, Mine(m, j)', Landed(m)'
                 PROVE  \E k \in Cqes : (Filled(j, cqe[m].pos % Depth, k) /\ cqe[m].pos <= cqe[k].pos)'
      BY DEF LatestOf
    <2>1. m # i
      BY DEF Landed
    <2>2. Mine(m, j) /\ cqe'[m] = cqe[m] /\ Landed(m)
      BY <1>4, <2>1 DEF Landed
    <2>3. PICK k \in Cqes : Filled(j, cqe[m].pos % Depth, k) /\ cqe[m].pos <= cqe[k].pos
      BY <2>2 DEF RingOf, LatestOf
    <2>4. PICK s : s = cqe[m].pos % Depth
      OBVIOUS
    <2>5. Filled(j, s, k)' /\ cqe'[k] = cqe[k]
      BY <1>5, <2>3, <2>4
    <2>6. (Filled(j, cqe[m].pos % Depth, k) /\ cqe[m].pos <= cqe[k].pos)'
      BY <2>2, <2>3, <2>4, <2>5 DEF Filled, Holds
    <2> QED
      BY <2>6
  <1>10. AheadOf(j)'
    <2> SUFFICES ASSUME NEW k \in Cqes, Mine(k, j)', cqe'[k].stage = "dma"
                 PROVE  ci'[j] <= cqe'[k].pos
      BY DEF AheadOf
    <2>1. CASE k = i
      BY <1>1, <2>1
    <2>2. CASE k # i
      BY <1>1, <1>4, <2>2 DEF RingOf, AheadOf
    <2> QED
      BY <2>1, <2>2
  <1>11. PolledOf(j)'
    <2> SUFFICES ASSUME NEW p \in 0 .. (ci[j] - 1)
                 PROVE  \E k \in Cqes : Mine(k, j)' /\ Landed(k)' /\ cqe'[k].pos = p /\ k \in seen'
      BY <1>1 DEF PolledOf
    <2>1. PICK k \in Cqes : Mine(k, j) /\ Landed(k) /\ cqe[k].pos = p /\ k \in seen
      BY DEF RingOf, PolledOf
    <2> QED
      BY <1>1, <1>3, <2>1
  <1> QED
    BY <1>6, <1>7, <1>8, <1>9, <1>10, <1>11 DEF RingOf

\* A CQE reaches guest memory: nothing later is in its entry, and the guest has not passed it.
LEMMA RingLanded ==
    ASSUME TypeOK, NEW j \in Jfcs, NEW i \in Cqes, RingOf(j), Mine(i, j), cqe[i].stage = "dma",
           Reaches(i, "landed"), SamePlace(i), jfc' = jfc, ci' = ci, seen' = seen,
           mem' = [mem EXCEPT ![j][cqe[i].pos % Depth] = [owner |-> Owner(cqe[i].pos), id |-> i]]
    PROVE  RingOf(j)'
  <1>1. PICK t : t = cqe[i].pos % Depth
    OBVIOUS
  <1>2. t \in 0 .. (Depth - 1) /\ cqe[i].pos \in Int /\ Depth \in Int /\ Depth > 0 /\ ci[j] \in Int
    BY <1>1, PosType, WrapLarge, UsedType, Divide
  <1>3. \A s \in 0 .. (Depth - 1) : mem'[j][s] = IF s = t THEN [owner |-> Owner(cqe[i].pos), id |-> i] ELSE mem[j][s]
    <2>1. mem[j] \in [0 .. (Depth - 1) -> [owner : BOOLEAN, id : 0 .. MaxCqe]] /\ j \in DOMAIN mem
      BY DEF TypeOK, GuestType
    <2> QED
      BY <1>1, <2>1
  <1>4. \A k \in Cqes : k # i => cqe'[k] = cqe[k]
    BY DEF Reaches, OnlyCqe
  <1>5. /\ cqe'[i].jfc = cqe[i].jfc /\ cqe'[i].gen = cqe[i].gen /\ cqe'[i].pos = cqe[i].pos /\ cqe'[i].stage = "landed"
    BY DEF Reaches, SamePlace
  <1>6. \A k \in Cqes : /\ cqe'[k].pos = cqe[k].pos /\ cqe'[k].jfc = cqe[k].jfc /\ (Mine(k, j)' <=> Mine(k, j))
                        /\ Placed(k)' <=> Placed(k)
                        /\ Writing(k)' <=> Writing(k)
                        /\ Landed(k)' <=> (Landed(k) \/ k = i)
                        /\ cqe[k].stage = "landed" => cqe'[k].stage = "landed"
                        /\ cqe'[k].stage = "dma" => cqe[k].stage = "dma"
    BY <1>4, <1>5 DEF Mine, Placed, Writing, Landed
  <1>7. Used(j)' = Used(j)
    BY DEF Used
  <1>8. Filled(j, t, i)'
    <2>1. mem'[j][t] = [owner |-> Owner(cqe[i].pos), id |-> i]
      BY <1>2, <1>3
    <2>2. Holds(j, t, i)'
      BY <1>5, <2>1 DEF Holds, Owner
    <2> QED
      BY <1>1, <1>5, <1>6, <2>2 DEF Filled
  <1>9. ASSUME NEW s \in 0 .. (Depth - 1), s # t, NEW k \in Cqes, Filled(j, s, k)
        PROVE  Filled(j, s, k)'
    <2>1. Holds(j, s, k)'
      BY <1>3, <1>6, <1>9 DEF Filled, Holds, Owner
    <2> QED
      BY <1>6, <1>9, <2>1 DEF Filled
  <1>10. PlaceInv(j)'
    BY <1>6 DEF RingOf, PlaceInv
  <1>11. CreditInv(j)'
    BY <1>6, <1>7 DEF RingOf, CreditInv
  <1>12. EntryOf(j)'
    <2> SUFFICES ASSUME NEW s \in 0 .. (Depth - 1)
                 PROVE  mem'[j][s] = [owner |-> FALSE, id |-> 0] \/ \E k \in Cqes : Filled(j, s, k)'
      BY DEF EntryOf
    <2> QED
      BY <1>3, <1>8, <1>9 DEF RingOf, EntryOf
  <1>13. LatestOf(j)'
    <2> SUFFICES ASSUME NEW m \in Cqes, Mine(m, j)', Landed(m)'
                 PROVE  \E k \in Cqes : (Filled(j, cqe[m].pos % Depth, k) /\ cqe[m].pos <= cqe[k].pos)'
      BY DEF LatestOf
    <2>1. PICK s : s = cqe[m].pos % Depth
      OBVIOUS
    <2>2. s \in 0 .. (Depth - 1) /\ cqe[m].pos \in Int /\ cqe'[m].pos = cqe[m].pos /\ Mine(m, j)
      BY <1>2, <1>6, <2>1, PosType, Divide
    <2>3. CASE s = t
      <3>1. cqe[m].pos <= cqe[i].pos
        <4>1. CASE m = i
          BY <2>2, <4>1
        <4>2. CASE m # i
          <5>1. Landed(m) /\ cqe[m].pos < ci[j] + Depth
            BY <1>6, <2>2, <4>2, PlaceBound DEF Landed, Placed
          <5>2. ci[j] <= cqe[i].pos
            BY DEF RingOf, AheadOf
          <5>3. cqe[m].pos < cqe[i].pos + Depth
            BY <1>2, <2>2, <5>1, <5>2
          <5> QED
            BY <1>1, <1>2, <2>1, <2>2, <2>3, <5>3, SamePosition
        <4> QED
          BY <4>1, <4>2
      <3>2. (Filled(j, cqe[m].pos % Depth, i) /\ cqe[m].pos <= cqe[i].pos)'
        BY <1>5, <1>8, <2>1, <2>2, <2>3, <3>1 DEF Filled, Holds
      <3> QED
        BY <3>2
    <2>4. CASE s # t
      <3>1. Landed(m)
        BY <1>1, <1>6, <2>1, <2>4
      <3>2. PICK k \in Cqes : Filled(j, cqe[m].pos % Depth, k) /\ cqe[m].pos <= cqe[k].pos
        BY <2>2, <3>1 DEF RingOf, LatestOf
      <3>3. Filled(j, s, k)'
        BY <1>9, <2>1, <2>2, <2>4, <3>2
      <3>4. (Filled(j, cqe[m].pos % Depth, k) /\ cqe[m].pos <= cqe[k].pos)'
        BY <1>6, <2>1, <2>2, <3>2, <3>3 DEF Filled, Holds
      <3> QED
        BY <3>4
    <2> QED
      BY <2>3, <2>4
  <1>14. AheadOf(j)'
    BY <1>6 DEF RingOf, AheadOf
  <1>15. PolledOf(j)'
    BY <1>6 DEF RingOf, PolledOf
  <1> QED
    BY <1>10, <1>11, <1>12, <1>13, <1>14, <1>15 DEF RingOf

\* The write is acknowledged; the serial engine advances its producer index.
LEMMA RingWritten ==
    ASSUME TypeOK, AloneInv, NEW j \in Jfcs, NEW i \in Cqes, RingOf(j), Mine(i, j), cqe[i].stage = "landed",
           Reaches(i, "okcb"), SamePlace(i), SameGuest, jfc'[j].gen = jfc[j].gen, jfc'[j].consumer = jfc[j].consumer,
           jfc'[j].producer = IF Pipelined THEN jfc[j].producer ELSE jfc[j].producer + 1
    PROVE  RingOf(j)'
  <1>1. /\ jfc[j].producer \in Int /\ ci[j] \in Int /\ jfc[j].consumer \in Int /\ Used(j) \in Int /\ 0 <= Used(j)
        /\ Depth \in Int /\ Wrap \in Int /\ Wrap > 0 /\ Depth < Wrap
        /\ mem' = mem /\ ci' = ci /\ seen' = seen
    BY UsedType, WrapLarge DEF SameGuest
  <1>2. \A k \in Cqes : k # i => cqe'[k] = cqe[k]
    BY DEF Reaches, OnlyCqe
  <1>3. cqe'[i].jfc = cqe[i].jfc /\ cqe'[i].gen = cqe[i].gen /\ cqe'[i].pos = cqe[i].pos /\ cqe'[i].stage = "okcb"
    BY DEF Reaches, SamePlace
  <1>4. \A k \in Cqes : /\ cqe'[k].pos = cqe[k].pos /\ cqe'[k].jfc = cqe[k].jfc
                        /\ Mine(k, j)' <=> Mine(k, j)
                        /\ Placed(k)' <=> Placed(k)
                        /\ Landed(k)' <=> Landed(k)
                        /\ Writing(k)' <=> (Writing(k) /\ k # i)
                        /\ cqe'[k].stage = "dma" => cqe[k].stage = "dma"
    BY <1>2, <1>3 DEF Mine, Placed, Writing, Landed
  <1>5. ASSUME ~Pipelined, NEW k \in Cqes, cqe[k].jfc = j, Writing(k)
        PROVE  k = i
    BY <1>5 DEF AloneInv, Mine, Writing, InFlightStages, InDma
  <1>6. ~Pipelined => Used(j) < Depth
    BY DEF RingOf, CreditInv, Mine, Writing
  <1>7. Used(j)' = IF Pipelined THEN Used(j) ELSE Used(j) + 1
    <2>1. CASE Pipelined
      BY <2>1 DEF Used
    <2>2. CASE ~Pipelined
      <3>1. PICK a \in Int : a = jfc[j].producer - jfc[j].consumer
        BY <1>1
      <3>2. Used(j) = a % Wrap
        BY <3>1, UsedType
      <3>3. jfc'[j].producer - jfc'[j].consumer = a + 1
        BY <1>1, <2>2, <3>1
      <3>4. Used(j)' = (a + 1) % Wrap
        BY <3>3 DEF Used, Masked
      <3>5. (a % Wrap) + 1 < Wrap
        BY <1>1, <1>6, <2>2, <3>2
      <3> QED
        BY <1>1, <2>2, <3>2, <3>4, <3>5, NextRest
    <2> QED
      BY <2>1, <2>2
  <1>8. PlaceInv(j)'
    <2> SUFFICES ASSUME NEW k \in Cqes, Mine(k, j)', Placed(k)'
                 PROVE  IF ~Pipelined /\ Writing(k)' THEN cqe'[k].pos = jfc'[j].producer ELSE cqe'[k].pos < jfc'[j].producer
      BY DEF PlaceInv
    <2>1. IF ~Pipelined /\ Writing(k) THEN cqe[k].pos = jfc[j].producer ELSE cqe[k].pos < jfc[j].producer
      BY <1>4 DEF RingOf, PlaceInv
    <2>2. Writing(k)' => Pipelined
      BY <1>4, <1>5 DEF Mine
    <2> QED
      BY <1>1, <1>4, <2>1, <2>2, PosType
  <1>9. CreditInv(j)'
    <2>1. ~Pipelined => ~\E k \in Cqes : cqe'[k].jfc = j /\ Writing(k)'
      BY <1>4, <1>5
    <2>2. /\ Used(j) <= Depth /\ jfc[j].producer - Used(j) <= ci[j]
          /\ ci[j] <= jfc[j].producer \/ (~Pipelined /\ ci[j] = jfc[j].producer + 1)
      BY DEF RingOf, CreditInv
    <2>3. Used(j)' <= Depth /\ jfc'[j].producer - Used(j)' <= ci[j] /\ ci[j] <= jfc'[j].producer
      BY <1>1, <1>6, <1>7, <2>2
    <2> QED
      BY <1>1, <2>1, <2>3 DEF CreditInv
  <1>10. \A s, k : k \in Cqes => (Filled(j, s, k)' <=> Filled(j, s, k))
    BY <1>1, <1>4 DEF Filled, Holds, Owner
  <1>11. EntryOf(j)'
    BY <1>1, <1>10 DEF RingOf, EntryOf
  <1>12. LatestOf(j)'
    <2> SUFFICES ASSUME NEW m \in Cqes, Mine(m, j)', Landed(m)'
                 PROVE  \E k \in Cqes : (Filled(j, cqe[m].pos % Depth, k) /\ cqe[m].pos <= cqe[k].pos)'
      BY DEF LatestOf
    <2>1. PICK k \in Cqes : Filled(j, cqe[m].pos % Depth, k) /\ cqe[m].pos <= cqe[k].pos
      BY <1>4 DEF RingOf, LatestOf
    <2>2. PICK s : s = cqe[m].pos % Depth
      OBVIOUS
    <2>3. Filled(j, s, k)'
      BY <1>10, <2>1, <2>2
    <2>4. (Filled(j, cqe[m].pos % Depth, k) /\ cqe[m].pos <= cqe[k].pos)'
      BY <1>4, <2>1, <2>2, <2>3 DEF Filled, Holds
    <2> QED
      BY <2>4
  <1>13. AheadOf(j)'
    BY <1>1, <1>4 DEF RingOf, AheadOf
  <1>14. PolledOf(j)'
    BY <1>1, <1>4 DEF RingOf, PolledOf
  <1> QED
    BY <1>8, <1>9, <1>11, <1>12, <1>13, <1>14 DEF RingOf

\* The guest polls the CQE of its consumer index.
LEMMA RingPolled ==
    ASSUME TypeOK, CqesInSubmissionOrder, NEW j \in Jfcs, RingOf(j), Visible(j),
           UNCHANGED <<jfc, cqe, mem>>, ci' = [ci EXCEPT ![j] = @ + 1],
           seen' = seen \cup {mem[j][ci[j] % Depth].id}
    PROVE  RingOf(j)'
  <1>1. PICK k \in Cqes : Filled(j, ci[j] % Depth, k) /\ cqe[k].pos = ci[j]
    BY VisibleIsNext
  <1>2. Mine(k, j) /\ Landed(k) /\ Placed(k) /\ mem[j][ci[j] % Depth].id = k
    BY <1>1 DEF Filled, Holds, Landed, Placed
  <1>3. ci'[j] = ci[j] + 1 /\ k \in seen' /\ seen \subseteq seen'
    BY <1>2 DEF TypeOK, GuestType
  <1>4. /\ jfc[j].producer \in Int /\ ci[j] \in Int /\ Used(j) \in Int /\ 0 <= Used(j) /\ Used(j)' = Used(j)
    BY UsedType DEF Used
  <1>5. \A m \in Cqes : /\ Mine(m, j)' <=> Mine(m, j)
                        /\ Placed(m)' <=> Placed(m)
                        /\ Landed(m)' <=> Landed(m)
                        /\ Writing(m)' <=> Writing(m)
    BY DEF Mine, Placed, Landed, Writing
  <1>6. PlaceInv(j)'
    BY <1>5 DEF RingOf, PlaceInv
  <1>7. CreditInv(j)'
    <2>1. /\ Used(j) <= Depth /\ jfc[j].producer - Used(j) <= ci[j]
          /\ ~Pipelined /\ (\E i \in Cqes : cqe[i].jfc = j /\ Writing(i)) => Used(j) < Depth
      BY DEF RingOf, CreditInv
    <2>2. jfc[j].producer - Used(j) <= ci[j] + 1
      BY <1>4, <2>1
    <2>3. \/ ci[j] + 1 <= jfc[j].producer
          \/ ~Pipelined /\ ci[j] + 1 = jfc[j].producer + 1 /\ cqe[k].stage = "landed"
      <3>1. IF ~Pipelined /\ Writing(k) THEN cqe[k].pos = jfc[j].producer ELSE cqe[k].pos < jfc[j].producer
        BY <1>2 DEF RingOf, PlaceInv
      <3>2. CASE ~Pipelined /\ Writing(k)
        <4>1. cqe[k].stage = "landed"
          BY <1>2, <3>2 DEF Landed, Writing
        <4> QED
          BY <1>1, <1>4, <3>1, <3>2, <4>1
      <3>3. CASE ~(~Pipelined /\ Writing(k))
        BY <1>1, <1>4, <3>1, <3>3
      <3> QED
        BY <3>2, <3>3
    <2>4. cqe[k].jfc = j
      BY <1>2 DEF Mine
    <2> QED
      BY <1>3, <1>4, <1>5, <2>1, <2>2, <2>3, <2>4 DEF CreditInv
  <1>8. \A s, m : m \in Cqes => (Filled(j, s, m)' <=> Filled(j, s, m))
    BY <1>5 DEF Filled, Holds, Owner
  <1>9. EntryOf(j)'
    BY <1>8 DEF RingOf, EntryOf
  <1>10. LatestOf(j)'
    BY DEF RingOf, LatestOf, Filled, Holds, Owner, Mine, Landed
  <1>11. AheadOf(j)'
    <2> SUFFICES ASSUME NEW m \in Cqes, Mine(m, j), cqe[m].stage = "dma"
                 PROVE  ci[j] + 1 <= cqe[m].pos
      BY <1>3, <1>5 DEF AheadOf
    <2>1. ci[j] <= cqe[m].pos /\ cqe[m].pos \in Int
      BY PosType DEF RingOf, AheadOf
    <2>2. m # k /\ Placed(m)
      BY <1>2 DEF Landed, Placed
    <2>3. cqe[m].pos # ci[j]
      BY <1>1, <1>2, <2>2, Distinct
    <2> QED
      BY <1>4, <2>1, <2>3
  <1>12. PolledOf(j)'
    <2> SUFFICES ASSUME NEW p \in 0 .. ci[j]
                 PROVE  \E m \in Cqes : Mine(m, j) /\ Landed(m) /\ cqe[m].pos = p /\ m \in seen'
      BY <1>3, <1>4, <1>5 DEF PolledOf
    <2>1. CASE p = ci[j]
      BY <1>1, <1>2, <1>3, <2>1
    <2>2. CASE p # ci[j]
      <3>1. p \in 0 .. (ci[j] - 1)
        BY <1>4, <2>2
      <3>2. PICK m \in Cqes : Mine(m, j) /\ Landed(m) /\ cqe[m].pos = p /\ m \in seen
        BY <3>1 DEF RingOf, PolledOf
      <3> QED
        BY <1>3, <3>2
    <2> QED
      BY <2>1, <2>2
  <1> QED
    BY <1>6, <1>7, <1>9, <1>10, <1>11, <1>12 DEF RingOf

\* A JFC is created on a ring the guest has zeroed; no completion belongs to it yet.
LEMMA RingCreated ==
    ASSUME TypeOK, EntryInv, FreshInv, NEW j \in Jfcs, ApplyCreateJfc(j)
    PROVE  RingOf(j)'
  <1>1. /\ jfc'[j].gen = jfc[j].gen + 1 /\ jfc'[j].producer = 0 /\ jfc'[j].consumer = 0
        /\ csq = [op |-> "createJfc", id |-> j] /\ cqe' = cqe /\ mem' = mem /\ ci' = ci /\ seen' = seen
    BY CreatedFacts DEF SameGuest
  <1>2. mem'[j] = EmptyRing /\ ci'[j] = 0
    BY <1>1 DEF FreshInv
  <1>3. jfc[j].gen \in Int
    BY BoundAssumption DEF TypeOK, EngineType, JfcRecord
  <1>4. ASSUME NEW i \in Cqes, Mine(i, j)'
        PROVE  ~Taken(i) /\ ~Placed(i)' /\ ~Landed(i)' /\ cqe'[i].stage # "dma"
    <2>1. cqe[i].jfc = j /\ cqe[i].gen = jfc[j].gen + 1
      BY <1>1, <1>4 DEF Mine
    <2>2. ~Taken(i)
      BY <1>3, <2>1, EntryParts
    <2> QED
      BY <1>1, <2>2 DEF Taken, Placed, Landed
  <1>5. Used(j)' = 0 /\ Depth \in Int /\ Depth > 0
    BY <1>1, WrapLarge, SmallRest DEF Used, Masked
  <1>6. PlaceInv(j)' /\ LatestOf(j)' /\ AheadOf(j)'
    BY <1>4 DEF PlaceInv, LatestOf, AheadOf
  <1>7. CreditInv(j)'
    BY <1>1, <1>2, <1>5 DEF CreditInv
  <1>8. EntryOf(j)'
    BY <1>2 DEF EntryOf, EmptyRing
  <1>9. PolledOf(j)'
    BY <1>2 DEF PolledOf
  <1> QED
    BY <1>6, <1>7, <1>8, <1>9 DEF RingOf

\* The cached consumer index leaves room: an entry is taken at once.
LEMMA RingTaken ==
    ASSUME TypeOK, NEW j \in Jfcs, NEW i \in Cqes, RingOf(j), Pipelined, Used(j) < Depth,
           Reaches(i, "dma"), cqe[i].jfc = j, ~Placed(i), cqe'[i].pos = jfc[j].producer,
           jfc'[j] = [jfc[j] EXCEPT !.producer = @ + 1], SameGuest
    PROVE  RingOf(j)'
  <1>1. /\ jfc[j].producer \in Int /\ ci[j] \in Int /\ jfc[j].consumer \in Int /\ Used(j) \in Int /\ 0 <= Used(j)
        /\ Depth \in Int /\ Wrap \in Int /\ Wrap > 0 /\ Depth < Wrap
    BY UsedType, WrapLarge
  <1>2. jfc'[j].gen = jfc[j].gen /\ jfc'[j].producer = jfc[j].producer + 1 /\ jfc'[j].consumer = jfc[j].consumer
    <2>1. PICK r \in JfcRecord : r = jfc[j]
      BY DEF TypeOK, EngineType
    <2>2. PICK q : q = [r EXCEPT !.producer = @ + 1]
      OBVIOUS
    <2>3. q.gen = r.gen /\ q.producer = r.producer + 1 /\ q.consumer = r.consumer
      BY <2>1, <2>2 DEF JfcRecord
    <2> QED
      BY <2>1, <2>2, <2>3
  <1>3. PICK a \in Int : a = jfc[j].producer - jfc[j].consumer
    BY <1>1
  <1>4. Used(j) = a % Wrap
    BY <1>3, UsedType
  <1>5. Used(j)' = (a + 1) % Wrap
    <2>1. jfc'[j].producer - jfc'[j].consumer = a + 1
      BY <1>1, <1>2, <1>3
    <2> QED
      BY <2>1 DEF Used, Masked
  <1>6. Used(j)' = Used(j) + 1
    <2>1. (a % Wrap) + 1 < Wrap
      BY <1>1, <1>4
    <2> QED
      BY <1>1, <1>4, <1>5, <2>1, NextRest
  <1>7. jfc[j].producer - Used(j) <= ci[j] /\ ci[j] <= jfc[j].producer
    BY DEF RingOf, CreditInv
  <1>8. Used(j)' <= Depth /\ jfc'[j].producer - Used(j)' <= ci[j]
    BY <1>1, <1>2, <1>6, <1>7
  <1>9. jfc'[j].producer = (IF Pipelined THEN jfc[j].producer + 1 ELSE jfc[j].producer)
    BY <1>2
  <1> QED
    BY <1>2, <1>7, <1>8, <1>9, RingIssued DEF Reaches

\* The consumer index has been read and leaves room.
LEMMA RingGranted ==
    ASSUME TypeOK, AloneInv, ReadInv, NEW i \in Cqes, NEW j \in Jfcs, j = cqe[i].jfc, RingOf(j), ConsumerRead(i),
           cqe'[i].stage = "dma"
    PROVE  RingOf(j)'
  <1>1. /\ jfc[j].producer \in Int /\ ci[j] \in Int /\ cqe[i].ci \in Int
        /\ Depth \in Int /\ Wrap \in Int /\ Wrap > 0 /\ Depth < Wrap
    BY UsedType, WrapLarge, PosType
  <1>2. PICK v \in cqe[i].ci .. ci[j] :
          /\ cqe[i].stage = "read" /\ Reaches(i, "dma") /\ SameGuest /\ cqe'[i].pos = jfc[j].producer
          /\ Masked(jfc[j].producer - v) < Depth
          /\ jfc'[j] = [jfc[j] EXCEPT !.consumer = Masked(v), !.producer = IF Pipelined THEN @ + 1 ELSE @]
    <2>1. ~Reaches(i, "failcb")
      BY DEF Reaches
    <2> QED
      BY <2>1, ReadFacts
  <1>3. /\ jfc'[j].gen = jfc[j].gen /\ jfc'[j].consumer = v % Wrap
        /\ jfc'[j].producer = (IF Pipelined THEN jfc[j].producer + 1 ELSE jfc[j].producer)
    <2>1. PICK r \in JfcRecord : r = jfc[j]
      BY DEF TypeOK, EngineType
    <2>2. PICK q : q = [r EXCEPT !.consumer = Masked(v), !.producer = IF Pipelined THEN @ + 1 ELSE @]
      OBVIOUS
    <2>3. q.gen = r.gen /\ q.consumer = v % Wrap /\ q.producer = (IF Pipelined THEN r.producer + 1 ELSE r.producer)
      BY <2>1, <2>2 DEF JfcRecord, Masked
    <2> QED
      BY <1>2, <2>1, <2>2, <2>3
  <1>4. jfc[j].producer - Depth <= cqe[i].ci
    BY <1>2 DEF ReadInv, Reading
  <1>5. ci[j] <= jfc[j].producer
    <2>1. ASSUME NEW k \in Cqes, cqe[k].jfc = j, cqe[k].stage = "landed" PROVE FALSE
      <3>1. i = k
        BY <1>2, <2>1 DEF AloneInv, InFlightStages, InDma
      <3> QED
        BY <1>2, <2>1, <3>1
    <2> QED
      BY <2>1 DEF RingOf, CreditInv
  <1>6. v \in Int /\ cqe[i].ci <= v /\ v <= ci[j]
    BY <1>1, <1>2
  <1>7. PICK b \in Int : b = jfc[j].producer - v
    BY <1>1, <1>6
  <1>8. 0 <= b /\ b < Depth
    <2>1. 0 <= b /\ b < Wrap
      BY <1>1, <1>4, <1>5, <1>6, <1>7
    <2>2. b % Wrap = b
      BY <1>1, <2>1, SmallRest
    <2>3. b % Wrap < Depth
      BY <1>2, <1>7 DEF Masked
    <2> QED
      BY <2>1, <2>2, <2>3
  <1>9. PICK e \in Int : e = jfc'[j].producer - v
    BY <1>1, <1>3, <1>6
  <1>10. e = (IF Pipelined THEN b + 1 ELSE b) /\ 0 <= e /\ e <= Depth /\ e < Wrap
    BY <1>1, <1>3, <1>6, <1>7, <1>8, <1>9
  <1>11. Used(j)' = e
    <2>1. PICK p \in Int : p = jfc'[j].producer
      BY <1>1, <1>3
    <2>2. Used(j)' = (p - (v % Wrap)) % Wrap
      BY <1>3, <2>1 DEF Used, Masked
    <2>3. (p - (v % Wrap)) % Wrap = (p - v) % Wrap
      <3>1. v \in Int /\ Wrap \in Int /\ Wrap > 0
        BY <1>1, <1>6
      <3> QED
        BY <3>1, RestOfDistance, Zenon
    <2>4. e % Wrap = e
      BY <1>1, <1>10, SmallRest
    <2> QED
      BY <1>9, <2>1, <2>2, <2>3, <2>4
  <1>12. Used(j)' <= Depth /\ jfc'[j].producer - Used(j)' <= ci[j] /\ (~Pipelined => Used(j)' < Depth)
    <2>1. jfc'[j].producer \in Int
      BY <1>1, <1>3
    <2> QED
      BY <1>1, <1>6, <1>8, <1>9, <1>10, <1>11, <2>1
  <1>13. ~Placed(i)
    BY <1>2 DEF Placed
  <1> QED
    BY <1>2, <1>3, <1>5, <1>12, <1>13, RingIssued DEF Reaches

\* A step that moves no completion of j to or from its ring.
LEMMA RingElsewhere ==
    ASSUME TypeOK, NEW j \in Jfcs, RingOf(j), SameJfc(j), mem'[j] = mem[j], ci'[j] = ci[j], seen \subseteq seen',
           \/ cqe' = cqe
           \/ \E i \in Cqes : /\ OnlyCqe(i)
                              /\ \/ cqe'[i].jfc # j /\ cqe[i].jfc # j
                                 \/ ~Placed(i)' /\ ~Landed(i)
                                 \/ SameCqe(i)
    PROVE  RingOf(j)'
  <1>1. ASSUME NEW k \in Cqes, cqe'[k] = cqe[k] PROVE SameCqe(k)
    BY <1>1 DEF SameCqe, SamePlace
  <1>2. \A k \in Cqes : /\ cqe'[k].jfc = j /\ Placed(k)' => SameCqe(k)
                        /\ cqe[k].jfc = j /\ Landed(k) => SameCqe(k)
    BY <1>1 DEF OnlyCqe
  <1>3. Untouched(j)
    BY <1>2 DEF Untouched
  <1> QED
    BY <1>3, RingKept

\* The guest and its commands.
LEMMA RingGuest ==
    ASSUME TypeOK, CqesInSubmissionOrder, OtherGuest, queries' = 0, NEW j \in Jfcs, jfc[j].live, RingOf(j)
    PROVE  RingOf(j)'
  <1>1. jfc' = jfc /\ cqe' = cqe /\ SameJfc(j)
    BY OtherFacts DEF SameJfc
  <1>2. ci \in [Jfcs -> Nat] /\ mem \in [Jfcs -> [0 .. (Depth - 1) -> [owner : BOOLEAN, id : 0 .. MaxCqe]]] /\ queries \in Nat
    BY DEF TypeOK, GuestType, CommandType
  <1>3. ASSUME NEW n \in Jfcs, PollCq(n) PROVE RingOf(j)'
    <2>1. /\ Visible(n) /\ ci' = [ci EXCEPT ![n] = @ + 1] /\ mem' = mem
          /\ seen' = seen \cup {mem[n][ci[n] % Depth].id}
      BY <1>3 DEF PollCq
    <2>2. CASE n = j
      BY <1>1, <2>1, <2>2, RingPolled
    <2>3. CASE n # j
      BY <1>1, <1>2, <2>1, <2>3, RingElsewhere
    <2> QED
      BY <2>2, <2>3
  <1>4. ASSUME NEW n \in Jfcs, CreateJfc(n) PROVE RingOf(j)'
    <2>1. n # j /\ mem' = [mem EXCEPT ![n] = EmptyRing] /\ ci' = [ci EXCEPT ![n] = 0] /\ seen' = seen
      BY <1>4 DEF CreateJfc
    <2> QED
      BY <1>1, <1>2, <2>1, RingElsewhere
  <1>5. ASSUME NEW n \in Jfcs, QueryJfc(n) PROVE FALSE
    BY <1>2, <1>5 DEF QueryJfc
  <1>6. ASSUME \/ \E n \in Jfcs : Sleep(n)
               \/ \E c \in Ceqs : PollCeq(c) \/ HandleCeqConsumerMmio(c) \/ CreateCeq(c) \/ DestroyCeq(c)
        PROVE  RingOf(j)'
    <2>1. mem' = mem /\ ci' = ci /\ seen' = seen
      BY <1>6 DEF Sleep, PollCeq, HandleCeqConsumerMmio, CreateCeq, DestroyCeq, guest
    <2> QED
      BY <1>1, <2>1, RingElsewhere
  <1> QED
    BY <1>3, <1>4, <1>5, <1>6 DEF OtherGuest

\* Every step keeps the ring of a JFC that lives.
LEMMA RingStep ==
    ASSUME TypeOK, TypeOK', CommandInv, StackInv, QueueInv, EntryInv, RingInv, queries = 0, queries' = 0, Next,
           NEW j \in Jfcs, jfc'[j].live
    PROVE  RingOf(j)'
  <1>1. AloneInv /\ ReadInv /\ CqesInSubmissionOrder /\ FreshInv /\ (jfc[j].live => RingOf(j))
    BY DEF RingInv
  <1>2. ASSUME NEW n \in Jfcs, OnlyJfc(n), SameJfc(n)
        PROVE  SameJfc(j)
    BY <1>2 DEF OnlyJfc, SameJfc
  <1>3. ASSUME NEW n \in Jfcs, OnlyJfc(n), n # j
        PROVE  SameJfc(j) /\ jfc'[j] = jfc[j]
    BY <1>3 DEF OnlyJfc, SameJfc
  <1>4. ASSUME SameJfc(j) PROVE RingOf(j)
    BY <1>1, <1>4 DEF SameJfc
  <1>5. CASE OtherHandler \/ OtherEvent
    <2>1. jfc' = jfc /\ cqe' = cqe /\ SameJfc(j)
      BY <1>5, OtherFacts DEF SameJfc
    <2>2. mem' = mem /\ ci' = ci /\ seen' = seen
      <3>1. CASE OtherHandler
        BY <3>1 DEF OtherHandler, CallerReturns, ReleaseCompletionEventSlot, PumpLoop, PumpIds, EndPass,
                    DispatchReturns, DispatchEnds, NoDestroyReady, CompleteEqDestroy, StartEvent, DropEvent, guest
      <3>2. CASE OtherEvent
        BY <3>2 DEF OtherEvent, ApplyCreateCeq, CeqeLands, CeqeWritten, InterruptDelivered, CeqeFails,
                    InterruptFails, guest
      <3> QED
        BY <1>5, <3>1, <3>2
    <2> QED
      BY <1>4, <2>1, <2>2, RingElsewhere
  <1>6. CASE OtherGuest
    <2>1. jfc[j].live
      BY <1>6, OtherFacts
    <2> QED
      BY <1>1, <1>6, <2>1, RingGuest
  <1>7. CASE Release
    <2>1. PICK i \in Cqes : /\ cqe[i].stage \in {"okcb", "failcb"}
                            /\ Reaches(i, IF cqe[i].stage = "okcb" THEN "ok" ELSE "failed") /\ SamePlace(i)
                            /\ jfc' = jfc /\ SameGuest
      BY <1>7, ReleaseFacts
    <2>2. SameJfc(j) /\ mem' = mem /\ ci' = ci /\ seen' = seen
      BY <2>1 DEF SameJfc, SameGuest
    <2>3. OnlyCqe(i) /\ (SameCqe(i) \/ (~Placed(i)' /\ ~Landed(i)))
      BY <2>1 DEF Reaches, SameCqe, Placed, Landed
    <2> QED
      BY <1>4, <2>2, <2>3, RingElsewhere
  <1>8. ASSUME NEW n \in Jfcs, WriteCqe(n) PROVE RingOf(j)'
    <2>1. PICK i \in Cqes : i = submitted + 1 /\ OnlyCqe(i) /\ cqe'[i].stage \in {"failed", "waiting"}
      BY <1>8, WriteFacts
    <2>2. SameJfc(j) /\ mem' = mem /\ ci' = ci /\ seen' = seen
      BY <1>8, WriteFacts DEF SameJfc, SameGuest
    <2>3. cqe[i].stage = "new"
      <3>1. submitted \in Int
        BY DEF TypeOK, EngineType
      <3> QED
        BY <2>1, <3>1 DEF QueueInv
    <2>4. ~Placed(i)' /\ ~Landed(i)
      BY <2>1, <2>3 DEF Placed, Landed
    <2> QED
      BY <1>4, <2>1, <2>2, <2>4, RingElsewhere
  <1>9. ASSUME NEW n \in Jfcs, Admit(n) PROVE RingOf(j)'
    <2>1. PICK i \in Cqes :
            /\ cqe[i].jfc = n /\ cqe[i].stage = "waiting" /\ OnlyJfc(n) /\ SameGuest
            /\ \/ Reaches(i, "failcb") /\ jfc' = jfc
               \/ /\ jfc[n].live /\ Pipelined /\ Used(n) < Depth /\ Reaches(i, "dma")
                  /\ cqe'[i].pos = jfc[n].producer /\ jfc'[n] = [jfc[n] EXCEPT !.producer = @ + 1]
               \/ Reaches(i, "read") /\ jfc' = jfc
      BY <1>9, AdmitFacts DEF OnlyJfc
    <2>2. mem' = mem /\ ci' = ci /\ seen' = seen
      BY <2>1 DEF SameGuest
    <2>3. OnlyCqe(i) /\ cqe'[i].jfc = n /\ ~Placed(i) /\ ~Landed(i)
      BY <2>1 DEF Reaches, Placed, Landed
    <2>4. CASE n # j
      BY <1>3, <1>4, <2>1, <2>2, <2>3, <2>4, RingElsewhere
    <2>5. CASE n = j /\ cqe'[i].stage # "dma"
      <3>1. jfc' = jfc /\ ~Placed(i)'
        BY <2>1, <2>5 DEF Reaches, Placed
      <3>2. SameJfc(j)
        BY <3>1 DEF SameJfc
      <3> QED
        BY <1>4, <2>2, <2>3, <3>1, <3>2, RingElsewhere
    <2>6. CASE n = j /\ cqe'[i].stage = "dma"
      <3>1. /\ jfc[j].live /\ Pipelined /\ Used(j) < Depth /\ Reaches(i, "dma")
            /\ cqe'[i].pos = jfc[j].producer /\ jfc'[j] = [jfc[j] EXCEPT !.producer = @ + 1]
        BY <2>1, <2>6 DEF Reaches
      <3> QED
        BY <1>1, <2>1, <2>3, <2>6, <3>1, RingTaken
    <2> QED
      BY <2>4, <2>5, <2>6
  <1>10. ASSUME NEW n \in Jfcs, PumpTimer(n) \/ AdvanceTime(n) \/ ArmJfc(n) \/ ModifyJfc(n)
         PROVE  RingOf(j)'
    <2>1. OnlyJfc(n) /\ SameJfc(n) /\ cqe' = cqe /\ SameGuest
      BY <1>10, TimerFacts, ClockFacts, ArmFacts, ModifyFacts
    <2>2. SameJfc(j) /\ mem' = mem /\ ci' = ci /\ seen' = seen
      BY <1>2, <2>1 DEF SameGuest
    <2> QED
      BY <1>4, <2>1, <2>2, RingElsewhere
  <1>11. ASSUME NEW n \in Jfcs, LeaveJfc(n) PROVE RingOf(j)'
    <2>1. jfc' = jfc /\ cqe' = cqe /\ mem' = mem /\ ci' = ci /\ seen' = seen
      BY <1>11 DEF LeaveJfc, guest
    <2>2. SameJfc(j)
      BY <2>1 DEF SameJfc
    <2> QED
      BY <1>4, <2>1, <2>2, RingElsewhere
  <1>12. ASSUME NEW n \in Jfcs, QueryJfcRead(n) PROVE FALSE
    BY <1>12, QueriedFacts DEF EntryInv
  <1>13. ASSUME NEW n \in Jfcs, ApplyCreateJfc(n) PROVE RingOf(j)'
    <2>1. CASE n = j
      BY <1>1, <1>13, <2>1, RingCreated
    <2>2. CASE n # j
      <3>1. OnlyJfc(n) /\ cqe' = cqe /\ mem' = mem /\ ci' = ci /\ seen' = seen
        BY <1>13, CreatedFacts DEF SameGuest
      <3> QED
        BY <1>3, <1>4, <2>2, <3>1, RingElsewhere
    <2> QED
      BY <2>1, <2>2
  <1>14. ASSUME NEW n \in Jfcs, DestroyJfc(n) \/ CompleteJfcDestroy(n) PROVE RingOf(j)'
    <2>1. /\ OnlyJfc(n) /\ (jfc' = jfc \/ ~jfc'[n].live)
          /\ cqe' = cqe /\ mem' = mem /\ ci' = ci /\ seen' = seen
      BY <1>14, DestroyFacts DEF SameGuest
    <2>2. SameJfc(j)
      BY <1>3, <2>1 DEF SameJfc
    <2> QED
      BY <1>4, <2>1, <2>2, RingElsewhere
  <1>15. ASSUME NEW i \in Cqes, ConsumerRead(i) PROVE RingOf(j)'
    <2>1. /\ cqe[i].stage = "read" /\ cqe[i].jfc \in Jfcs /\ OnlyJfc(cqe[i].jfc)
          /\ mem' = mem /\ ci' = ci /\ seen' = seen
      BY <1>15, ReadFacts DEF SameGuest, OnlyJfc
    <2>2. (Reaches(i, "dma") /\ jfc[cqe[i].jfc].live) \/ (Reaches(i, "failcb") /\ jfc' = jfc)
      BY <1>15, ReadFacts
    <2>3. OnlyCqe(i) /\ cqe'[i].jfc = cqe[i].jfc /\ ~Landed(i)
      BY <2>1, <2>2 DEF Reaches, Landed
    <2>4. CASE cqe[i].jfc # j
      BY <1>3, <1>4, <2>1, <2>3, <2>4, RingElsewhere
    <2>5. CASE cqe[i].jfc = j /\ cqe'[i].stage # "dma"
      <3>1. jfc' = jfc /\ ~Placed(i)'
        BY <2>2, <2>5 DEF Reaches, Placed
      <3>2. SameJfc(j)
        BY <3>1 DEF SameJfc
      <3> QED
        BY <1>4, <2>1, <2>3, <3>1, <3>2, RingElsewhere
    <2>6. CASE cqe[i].jfc = j /\ cqe'[i].stage = "dma"
      <3>1. jfc[j].live
        BY <2>2, <2>6 DEF Reaches
      <3> QED
        BY <1>1, <1>15, <2>6, <3>1, RingGranted
    <2> QED
      BY <2>4, <2>5, <2>6
  <1>16. ASSUME NEW i \in Cqes, CqeLands(i) PROVE RingOf(j)'
    <2>1. PICK n \in Jfcs : n = cqe[i].jfc
      BY <1>16, LandsFacts
    <2>2. /\ cqe[i].stage = "dma" /\ Reaches(i, "landed") /\ SamePlace(i) /\ jfc' = jfc /\ ci' = ci /\ seen' = seen
          /\ mem' = [mem EXCEPT ![n][cqe[i].pos % Depth] = [owner |-> Owner(cqe[i].pos), id |-> i]]
      BY <1>16, <2>1, LandsFacts
    <2>3. SameJfc(j)
      BY <2>2 DEF SameJfc
    <2>4. RingOf(j)
      BY <1>4, <2>3
    <2>5. CASE n = j
      <3>1. Mine(i, j)
        BY <2>1, <2>2, <2>5, EntryParts DEF InDma, Mine
      <3> QED
        BY <2>2, <2>4, <2>5, <3>1, RingLanded
    <2>6. CASE n # j
      <3>1. mem'[j] = mem[j]
        <4>1. j \in DOMAIN mem
          BY DEF TypeOK, GuestType
        <4> QED
          BY <2>2, <2>6, <4>1
      <3>2. OnlyCqe(i) /\ cqe'[i].jfc # j /\ cqe[i].jfc # j
        BY <2>1, <2>2, <2>6 DEF Reaches
      <3> QED
        BY <2>2, <2>3, <2>4, <3>1, <3>2, RingElsewhere
    <2> QED
      BY <2>5, <2>6
  <1>17. ASSUME NEW i \in Cqes, CqeWritten(i) PROVE RingOf(j)'
    <2>1. PICK n \in Jfcs : n = cqe[i].jfc
      BY <1>17, WrittenFacts
    <2>2. /\ cqe[i].stage = "landed" /\ Reaches(i, "okcb") /\ SamePlace(i) /\ OnlyJfc(n) /\ SameGuest /\ jfc[n].live
          /\ jfc'[n].gen = jfc[n].gen /\ jfc'[n].consumer = jfc[n].consumer
          /\ jfc'[n].producer = IF Pipelined THEN jfc[n].producer ELSE jfc[n].producer + 1
      BY <1>17, <2>1, WrittenFacts DEF OnlyJfc
    <2>3. CASE n = j
      <3>1. Mine(i, j)
        BY <2>1, <2>2, <2>3, EntryParts DEF InDma, Mine
      <3> QED
        BY <1>1, <2>2, <2>3, <3>1, RingWritten
    <2>4. CASE n # j
      <3>1. OnlyCqe(i) /\ cqe'[i].jfc # j /\ cqe[i].jfc # j /\ mem' = mem /\ ci' = ci /\ seen' = seen
        BY <2>1, <2>2, <2>4 DEF Reaches, SameGuest
      <3> QED
        BY <1>3, <1>4, <2>2, <2>4, <3>1, RingElsewhere
    <2> QED
      BY <2>3, <2>4
  <1>18. ASSUME NEW i \in Cqes, CqeDmaFails(i) PROVE RingOf(j)'
    <2>1. /\ cqe[i].stage \in {"read", "dma"} /\ Reaches(i, "failcb") /\ jfc' = jfc
          /\ mem' = mem /\ ci' = ci /\ seen' = seen
      BY <1>18, DmaFailsFacts DEF SameGuest
    <2>2. SameJfc(j) /\ OnlyCqe(i) /\ ~Placed(i)' /\ ~Landed(i)
      BY <2>1 DEF SameJfc, Reaches, Placed, Landed
    <2> QED
      BY <1>4, <2>1, <2>2, RingElsewhere
  <1> QED
    BY <1>5, <1>6, <1>7, <1>8, <1>9, <1>10, <1>11, <1>12, <1>13, <1>14, <1>15, <1>16, <1>17, <1>18, NextCases

\* A completion in flight after a step was in flight before it, and one that has been
\* admitted keeps what it was admitted with.
InAir(k) ==
    /\ cqe'[k].stage \in InFlightStages => cqe[k].stage \in InFlightStages /\ cqe'[k].jfc = cqe[k].jfc
    /\ Taken(k)' => Taken(k) /\ cqe'[k].jfc = cqe[k].jfc /\ cqe'[k].gen = cqe[k].gen
    /\ cqe'[k].stage = "read" => cqe'[k] = cqe[k]
\* It keeps its position.
InPlace(k) == Placed(k)' => Placed(k) /\ cqe'[k].pos = cqe[k].pos

\* A completion that is left.
LEMMA SameSteady ==
    ASSUME NEW k \in Cqes, cqe'[k] = cqe[k]
    PROVE  InAir(k) /\ InPlace(k)
  BY DEF InAir, InPlace, Taken, Placed

\* Only Admit puts a completion in flight, and only Admit and ConsumerRead give it a position.
LEMMA SteadyStep ==
    ASSUME TypeOK, StackInv, QueueInv, Next, ~\E j \in Jfcs : Admit(j)
    PROVE  /\ \A k \in Cqes : InAir(k)
           /\ (\A k \in Cqes : InPlace(k)) \/ \E i \in Cqes : ConsumerRead(i)
  <1>1. ASSUME cqe' = cqe PROVE \A k \in Cqes : InAir(k) /\ InPlace(k)
    BY <1>1, SameSteady
  <1>2. ASSUME NEW i \in Cqes, OnlyCqe(i), InAir(i) PROVE \A k \in Cqes : InAir(k) /\ (k # i => InPlace(k))
    BY <1>2, SameSteady DEF OnlyCqe
  <1>3. CASE OtherHandler \/ OtherEvent \/ OtherGuest
    BY <1>1, <1>3, OtherFacts
  <1>4. CASE Release
    <2>1. PICK i \in Cqes : /\ cqe[i].stage \in {"okcb", "failcb"}
                            /\ Reaches(i, IF cqe[i].stage = "okcb" THEN "ok" ELSE "failed") /\ SamePlace(i)
      BY <1>4, ReleaseFacts
    <2>2. OnlyCqe(i) /\ InAir(i) /\ InPlace(i)
      BY <2>1 DEF Reaches, SamePlace, InAir, InPlace, Taken, Placed, InFlightStages, InDma
    <2> QED
      BY <1>2, <2>2
  <1>5. ASSUME NEW n \in Jfcs, WriteCqe(n)
        PROVE  \A k \in Cqes : InAir(k) /\ InPlace(k)
    <2>1. PICK i \in Cqes : i = submitted + 1 /\ OnlyCqe(i) /\ cqe'[i].stage \in {"failed", "waiting"}
      BY <1>5, WriteFacts
    <2>2. InAir(i) /\ InPlace(i)
      BY <2>1 DEF InAir, InPlace, Taken, Placed, InFlightStages, InDma
    <2> QED
      BY <1>2, <2>1, <2>2
  <1>6. ASSUME NEW n \in Jfcs, \/ PumpTimer(n) \/ AdvanceTime(n) \/ ArmJfc(n) \/ ModifyJfc(n) \/ LeaveJfc(n)
                               \/ QueryJfcRead(n) \/ ApplyCreateJfc(n) \/ DestroyJfc(n) \/ CompleteJfcDestroy(n)
        PROVE  \A k \in Cqes : InAir(k) /\ InPlace(k)
    <2>1. cqe' = cqe
      BY <1>6 DEF PumpTimer, AdvanceTime, ArmJfc, ModifyJfc, LeaveJfc, QueryJfcRead, ApplyCreateJfc, DestroyJfc,
                  CompleteJfcDestroy
    <2> QED
      BY <1>1, <2>1
  <1>7. ASSUME NEW i \in Cqes, ConsumerRead(i)
        PROVE  \A k \in Cqes : InAir(k)
    <2>1. cqe[i].stage = "read" /\ (Reaches(i, "dma") \/ Reaches(i, "failcb")) /\ cqe'[i].gen = cqe[i].gen
      BY <1>7, ReadFacts
    <2>2. OnlyCqe(i) /\ InAir(i)
      BY <2>1 DEF Reaches, InAir, Taken, Placed, InFlightStages, InDma
    <2> QED
      BY <1>2, <2>2
  <1>8. ASSUME NEW i \in Cqes, CqeLands(i) \/ CqeWritten(i) \/ CqeDmaFails(i)
        PROVE  \A k \in Cqes : InAir(k) /\ InPlace(k)
    <2>1. /\ cqe[i].stage \in {"read", "dma", "landed"} /\ SamePlace(i)
          /\ \/ cqe[i].stage = "dma" /\ Reaches(i, "landed")
             \/ cqe[i].stage = "landed" /\ Reaches(i, "okcb")
             \/ Reaches(i, "failcb")
      BY <1>8, LandsFacts, WrittenFacts, DmaFailsFacts
    <2>2. OnlyCqe(i) /\ InAir(i) /\ InPlace(i)
      BY <2>1 DEF Reaches, SamePlace, InAir, InPlace, Taken, Placed, InFlightStages, InDma
    <2> QED
      BY <1>2, <2>2
  <1> QED
    BY <1>3, <1>4, <1>5, <1>6, <1>7, <1>8, NextCases

\* While the consumer index of a JFC is read nothing else of it is put in flight.
LEMMA AloneStep ==
    ASSUME TypeOK, StackInv, QueueInv, AloneInv, ReadInv, Next
    PROVE  AloneInv'
  <1> SUFFICES ASSUME NEW a \in Cqes, NEW b \in Cqes, cqe'[a].jfc = cqe'[b].jfc,
                      cqe'[a].stage \in InFlightStages, cqe'[b].stage \in InFlightStages,
                      ~Pipelined \/ cqe'[a].stage = "read"
               PROVE  a = b
    BY DEF AloneInv
  <1>1. CASE ~\E j \in Jfcs : Admit(j)
    <2>1. InAir(a) /\ InAir(b)
      BY <1>1, SteadyStep
    <2> QED
      BY <2>1 DEF InAir, AloneInv
  <1>2. ASSUME NEW n \in Jfcs, Admit(n) PROVE a = b
    <2>1. PICK i \in Cqes :
            /\ cqe[i].jfc = n /\ CanAdmit(n)
            /\ \/ ~jfc[n].live /\ Reaches(i, "failcb")
               \/ Pipelined /\ Used(n) < Depth /\ Reaches(i, "dma")
               \/ ~(Pipelined /\ Used(n) < Depth) /\ Reaches(i, "read")
      BY <1>2, AdmitFacts
    <2>2. OnlyCqe(i) /\ cqe'[i].jfc = n
      BY <2>1 DEF Reaches
    <2>3. \A k \in Cqes : k # i => cqe'[k] = cqe[k]
      BY <2>2 DEF OnlyCqe
    <2>4. CASE InFlight(n) = {}
      <3>1. \A k \in Cqes : k # i /\ cqe'[k].stage \in InFlightStages => cqe'[k].jfc # n
        BY <2>3, <2>4 DEF InFlight
      <3>2. CASE a # i /\ b # i
        BY <2>3, <3>2 DEF AloneInv
      <3> QED
        BY <2>2, <3>1, <3>2
    <2>5. CASE InFlight(n) # {}
      <3>1. Pipelined /\ Used(n) < Depth /\ cqe'[i].stage = "dma"
        <4>1. Used(n) \in Int /\ Depth \in Int
          BY UsedType, WrapLarge
        <4> QED
          BY <2>1, <2>5, <4>1 DEF CanAdmit, Reaches
      <3>2. a # i /\ cqe'[a] = cqe[a] /\ cqe[a].stage = "read"
        BY <2>3, <3>1
      <3>3. CASE b = i
        <4>1. cqe[a].jfc = n
          BY <2>2, <3>2, <3>3
        <4>2. Used(n) >= Depth
          BY <3>1, <3>2, <4>1 DEF ReadInv, Reading
        <4> QED
          BY <3>1, <4>2, UsedType, WrapLarge
      <3>4. CASE b # i
        BY <2>3, <3>2, <3>4 DEF AloneInv
      <3> QED
        BY <3>3, <3>4
    <2> QED
      BY <2>4, <2>5
  <1> QED
    BY <1>1, <1>2

\* The completion that is admitted is the oldest that waits.
LEMMA AdmitOrder ==
    ASSUME TypeOK, QueueInv, NEW n \in Jfcs, Admit(n)
    PROVE  \E i \in Cqes :
             /\ waiting[n] # <<>> /\ waiting[n] \in Seq(Cqes) /\ i = Head(waiting[n])
             /\ cqe[i].jfc = n /\ cqe'[i].gen = jfc[n].gen
             /\ \/ Reaches(i, "failcb")
                \/ jfc[n].live /\ Pipelined /\ Reaches(i, "dma") /\ cqe'[i].pos = jfc[n].producer
                \/ Reaches(i, "read")
  <1>1. PICK i \in Cqes :
          /\ waiting[n] # <<>> /\ waiting[n] \in Seq(Cqes) /\ i = Head(waiting[n])
          /\ cqe[i].jfc = n /\ cqe[i].stage = "waiting" /\ CanAdmit(n)
          /\ waiting' = [waiting EXCEPT ![n] = Tail(@)]
          /\ \A k \in Jfcs : k # n => jfc'[k] = jfc[k]
          /\ cqe'[i].gen = jfc[n].gen
          /\ \/ /\ ~jfc[n].live /\ Reaches(i, "failcb") /\ jfc' = jfc /\ stack' = Finish(i, stack)
                /\ cqe'[i].pos = cqe[i].pos
             \/ /\ jfc[n].live /\ Pipelined /\ Used(n) < Depth /\ Reaches(i, "dma") /\ stack' = stack
                /\ cqe'[i].pos = jfc[n].producer
                /\ jfc'[n] = [jfc[n] EXCEPT !.producer = @ + 1]
             \/ /\ jfc[n].live /\ ~(Pipelined /\ Used(n) < Depth) /\ Reaches(i, "read") /\ stack' = stack
                /\ jfc' = jfc /\ cqe'[i].ci = ci[n] /\ cqe'[i].pos = cqe[i].pos
          /\ UNCHANGED <<submitted, entry, faults>> /\ SameNotify /\ SameCommand /\ SameGuest
    BY AdmitFacts
  <1> QED
    BY <1>1

\* Completions take positions in submission order.
LEMMA OrderStep ==
    ASSUME TypeOK, CommandInv, StackInv, QueueInv, EntryInv, RingInv, Next
    PROVE  CqesInSubmissionOrder'
  <1> SUFFICES ASSUME NEW a \in Cqes, NEW b \in Cqes, a < b, cqe'[a].jfc = cqe'[b].jfc,
                      cqe'[a].gen = cqe'[b].gen, Placed(a)', Placed(b)'
               PROVE  cqe'[a].pos < cqe'[b].pos
    BY DEF CqesInSubmissionOrder
  <1>1. AloneInv /\ ReadInv /\ CqesInSubmissionOrder /\ a \in Int /\ b \in Int
    BY DEF RingInv, Cqes
  <1>2. \A k \in Cqes : Placed(k)' => Taken(k)'
    BY DEF Taken
  <1>3. CASE /\ ~\E j \in Jfcs : Admit(j)
             /\ ~\E i \in Cqes : ConsumerRead(i)
    <2>1. InAir(a) /\ InAir(b) /\ InPlace(a) /\ InPlace(b)
      BY <1>3, SteadyStep
    <2> QED
      BY <1>1, <1>2, <2>1 DEF InAir, InPlace, CqesInSubmissionOrder
  <1>4. ASSUME NEW i \in Cqes, NEW n \in Jfcs, OnlyCqe(i), cqe'[i].jfc = n, jfc[n].live, cqe'[i].gen = jfc[n].gen,
               Placed(i)' => /\ cqe'[i].pos = jfc[n].producer
                             /\ \A k \in Cqes : k # i /\ cqe[k].jfc = n /\ Placed(k) => k < i /\ ~(~Pipelined /\ Writing(k))
        PROVE  cqe'[a].pos < cqe'[b].pos
    <2>1. \A k \in Cqes : k # i => cqe'[k] = cqe[k] /\ (Placed(k)' <=> Placed(k))
      BY <1>4 DEF OnlyCqe, Placed
    <2>2. CASE a # i /\ b # i
      BY <1>1, <2>1, <2>2 DEF CqesInSubmissionOrder
    <2>3. CASE a = i
      BY <1>1, <1>4, <2>1, <2>3
    <2>4. CASE b = i
      <3>1. a # i /\ cqe'[a] = cqe[a] /\ Placed(a) /\ Mine(a, n) /\ ~(~Pipelined /\ Writing(a))
        BY <1>1, <1>4, <2>1, <2>4 DEF Mine
      <3>2. cqe[a].pos < jfc[n].producer
        BY <1>4, <3>1 DEF RingInv, RingOf, PlaceInv
      <3> QED
        BY <1>4, <2>4, <3>1, <3>2
    <2> QED
      BY <2>2, <2>3, <2>4
  <1>5. ASSUME NEW n \in Jfcs, Admit(n) PROVE cqe'[a].pos < cqe'[b].pos
    <2>1. PICK i \in Cqes :
            /\ waiting[n] # <<>> /\ waiting[n] \in Seq(Cqes) /\ i = Head(waiting[n])
            /\ cqe[i].jfc = n /\ cqe'[i].gen = jfc[n].gen
            /\ \/ Reaches(i, "failcb")
               \/ jfc[n].live /\ Pipelined /\ Reaches(i, "dma") /\ cqe'[i].pos = jfc[n].producer
               \/ Reaches(i, "read")
      BY <1>5, AdmitOrder
    <2>2. OnlyCqe(i) /\ cqe'[i].jfc = n
      BY <2>1 DEF Reaches
    <2>3. \A k \in Cqes : cqe[k].jfc = n /\ Placed(k) => k < i
      <3>1. 1 \in DOMAIN waiting[n] /\ i = waiting[n][1]
        BY <2>1
      <3> QED
        BY <3>1 DEF QueueInv, Taken
    <2>4. CASE Placed(i)'
      <3>1. jfc[n].live /\ Pipelined /\ cqe'[i].pos = jfc[n].producer
        BY <2>1, <2>4 DEF Reaches, Placed
      <3> QED
        BY <1>4, <2>1, <2>2, <2>3, <3>1
    <2>5. CASE ~Placed(i)'
      BY <1>1, <2>2, <2>5 DEF OnlyCqe, CqesInSubmissionOrder, Placed
    <2> QED
      BY <2>4, <2>5
  <1>6. ASSUME NEW i \in Cqes, ConsumerRead(i) PROVE cqe'[a].pos < cqe'[b].pos
    <2>1. PICK n \in Jfcs : n = cqe[i].jfc
      BY <1>6, ReadFacts
    <2>2. /\ cqe[i].stage = "read" /\ cqe'[i].gen = cqe[i].gen
          /\ (Reaches(i, "dma") /\ cqe'[i].pos = jfc[n].producer) \/ Reaches(i, "failcb")
      BY <1>6, <2>1, ReadFacts
    <2>3. OnlyCqe(i) /\ cqe'[i].jfc = n
      BY <2>1, <2>2 DEF Reaches
    <2>4. jfc[n].live /\ cqe[i].gen = jfc[n].gen
      BY <2>1, <2>2, EntryParts DEF InDma
    <2>5. \A k \in Cqes : k # i /\ cqe[k].jfc = n /\ Placed(k) => k < i /\ ~(~Pipelined /\ Writing(k))
      <3>1. ASSUME NEW k \in Cqes, k # i, cqe[k].jfc = n, Placed(k) PROVE k < i
        <4>1. k <= i
          BY <1>1, <2>1, <2>2, <3>1 DEF ReadInv, Reading, Taken
        <4> QED
          BY <3>1, <4>1 DEF Cqes
      <3>2. ASSUME NEW k \in Cqes, k # i, cqe[k].jfc = n, Writing(k) PROVE FALSE
        BY <1>1, <2>1, <2>2, <3>2 DEF AloneInv, Writing, InFlightStages, InDma
      <3> QED
        BY <3>1, <3>2
    <2>6. Placed(i)' => cqe'[i].pos = jfc[n].producer
      BY <2>2 DEF Reaches, Placed
    <2> QED
      BY <1>4, <2>2, <2>3, <2>4, <2>5, <2>6
  <1> QED
    BY <1>3, <1>5, <1>6

\* What a reading completion relies on is kept.
LEMMA ReadKept ==
    ASSUME TypeOK, NEW m \in Cqes, NEW j \in Jfcs, j = cqe[m].jfc, Reading(m), cqe'[m] = cqe[m],
           jfc'[j].producer = jfc[j].producer, jfc'[j].consumer = jfc[j].consumer,
           ci'[j] \in Int, ci[j] <= ci'[j], \A k \in Cqes : cqe'[k].jfc = j /\ Taken(k)' => cqe[k].jfc = j /\ Taken(k)
    PROVE  Reading(m)'
  <1>1. Used(j)' = Used(j)
    BY DEF Used
  <1>2. ci[j] \in Int /\ cqe[m].ci \in Int
    BY UsedType, PosType
  <1>3. /\ Pipelined => Used(j) >= Depth
        /\ jfc[j].producer - Depth <= cqe[m].ci /\ cqe[m].ci <= ci[j]
        /\ \A k \in Cqes : cqe[k].jfc = j /\ Taken(k) => k <= m
    BY DEF Reading
  <1>4. cqe'[m].ci <= ci'[j]
    BY <1>2, <1>3
  <1>5. cqe'[m].jfc = j
    OBVIOUS
  <1>6. Pipelined => Used(cqe[m].jfc)' >= Depth
    BY <1>1, <1>3, <1>5
  <1> QED
    BY <1>3, <1>4, <1>5, <1>6 DEF Reading

\* The JFC of a reading completion stays as it is but for the guest's consumer index.
LEMMA ReadSteady ==
    ASSUME TypeOK, TypeOK', CommandInv, StackInv, QueueInv, EntryInv, AloneInv, queries = 0, queries' = 0, Next,
           ~\E n \in Jfcs : Admit(n),
           NEW m \in Cqes, cqe[m].stage = "read", cqe'[m] = cqe[m], NEW j \in Jfcs, j = cqe[m].jfc
    PROVE  jfc'[j].producer = jfc[j].producer /\ jfc'[j].consumer = jfc[j].consumer /\ ci[j] <= ci'[j]
  <1> DEFINE Goal == jfc'[j].producer = jfc[j].producer /\ jfc'[j].consumer = jfc[j].consumer /\ ci[j] <= ci'[j]
  <1>1. jfc[j].live /\ ci \in [Jfcs -> Nat] /\ ci[j] \in Int /\ queries \in Nat
    BY EntryParts DEF InDma, TypeOK, GuestType, CommandType
  <1>2. ASSUME SameJfc(j), ci'[j] = ci[j] PROVE Goal
    BY <1>1, <1>2 DEF SameJfc
  <1>3. ASSUME NEW n \in Jfcs, OnlyJfc(n), n # j \/ SameJfc(n), ci' = ci PROVE Goal
    <2>1. SameJfc(j)
      BY <1>3 DEF OnlyJfc, SameJfc
    <2> QED
      BY <1>2, <1>3, <2>1
  <1>4. CASE OtherHandler \/ OtherEvent
    <2>1. SameJfc(j)
      BY <1>4, OtherFacts DEF SameJfc
    <2>2. ci' = ci
      <3>1. CASE OtherHandler
        BY <3>1 DEF OtherHandler, CallerReturns, ReleaseCompletionEventSlot, PumpLoop, PumpIds, EndPass,
                    DispatchReturns, DispatchEnds, NoDestroyReady, CompleteEqDestroy, StartEvent, DropEvent, guest
      <3>2. CASE OtherEvent
        BY <3>2 DEF OtherEvent, ApplyCreateCeq, CeqeLands, CeqeWritten, InterruptDelivered, CeqeFails,
                    InterruptFails, guest
      <3> QED
        BY <1>4, <3>1, <3>2
    <2> QED
      BY <1>2, <2>1, <2>2
  <1>5. CASE OtherGuest
    <2>1. jfc' = jfc
      BY <1>5, OtherFacts
    <2>2. ci[j] <= ci'[j]
      <3>1. ASSUME NEW n \in Jfcs, PollCq(n) PROVE ci[j] <= ci'[j]
        BY <1>1, <3>1 DEF PollCq
      <3>2. ASSUME NEW n \in Jfcs, CreateJfc(n) PROVE ci[j] <= ci'[j]
        BY <1>1, <3>2 DEF CreateJfc
      <3>3. ASSUME \/ \E n \in Jfcs : Sleep(n) \/ QueryJfc(n)
                   \/ \E c \in Ceqs : PollCeq(c) \/ HandleCeqConsumerMmio(c) \/ CreateCeq(c) \/ DestroyCeq(c)
            PROVE  ci[j] <= ci'[j]
        <4>1. ci' = ci
          BY <3>3 DEF Sleep, QueryJfc, PollCeq, HandleCeqConsumerMmio, CreateCeq, DestroyCeq, guest
        <4> QED
          BY <1>1, <4>1
      <3> QED
        BY <1>5, <3>1, <3>2, <3>3 DEF OtherGuest
    <2> QED
      BY <2>1, <2>2
  <1>6. CASE Release
    <2>1. jfc' = jfc /\ ci' = ci
      BY <1>6, ReleaseFacts DEF SameGuest
    <2> QED
      BY <1>2, <2>1 DEF SameJfc
  <1>7. ASSUME NEW n \in Jfcs, WriteCqe(n) \/ LeaveJfc(n) PROVE Goal
    <2>1. jfc' = jfc /\ ci' = ci
      BY <1>7 DEF WriteCqe, LeaveJfc, guest
    <2> QED
      BY <1>2, <2>1 DEF SameJfc
  <1>8. ASSUME NEW n \in Jfcs, PumpTimer(n) \/ AdvanceTime(n) \/ ArmJfc(n) \/ ModifyJfc(n) PROVE Goal
    <2>1. OnlyJfc(n) /\ SameJfc(n) /\ ci' = ci
      BY <1>8, TimerFacts, ClockFacts, ArmFacts, ModifyFacts DEF SameGuest
    <2> QED
      BY <1>3, <2>1
  <1>9. ASSUME NEW n \in Jfcs, QueryJfcRead(n) PROVE FALSE
    BY <1>9, QueriedFacts DEF EntryInv
  <1>10. ASSUME NEW n \in Jfcs, ApplyCreateJfc(n) PROVE Goal
    <2>1. OnlyJfc(n) /\ csq = [op |-> "createJfc", id |-> n] /\ ci' = ci
      BY <1>10, CreatedFacts DEF SameGuest
    <2>2. n # j
      BY <1>1, <2>1 DEF CommandInv
    <2> QED
      BY <1>3, <2>1, <2>2
  <1>11. ASSUME NEW n \in Jfcs, DestroyJfc(n) \/ CompleteJfcDestroy(n) PROVE Goal
    <2>1. OnlyJfc(n) /\ (jfc' = jfc \/ ~JfcPublicationBusy(n)) /\ ci' = ci
      BY <1>11, DestroyFacts DEF SameGuest
    <2>2. CASE jfc' = jfc
      BY <1>2, <2>1, <2>2 DEF SameJfc
    <2>3. CASE ~JfcPublicationBusy(n)
      <3>1. n # j
        BY <2>3, QuietJfc DEF InFlightStages, InDma
      <3> QED
        BY <1>3, <2>1, <3>1
    <2> QED
      BY <2>1, <2>2, <2>3
  <1>12. ASSUME NEW i \in Cqes, ConsumerRead(i) \/ CqeWritten(i) PROVE Goal
    <2>1. /\ cqe[i].stage \in {"read", "landed"} /\ cqe'[i].stage # cqe[i].stage
          /\ cqe[i].jfc \in Jfcs /\ OnlyJfc(cqe[i].jfc) /\ ci' = ci
      <3>1. ASSUME ConsumerRead(i)
            PROVE  /\ cqe[i].stage \in {"read", "landed"} /\ cqe'[i].stage # cqe[i].stage
                   /\ cqe[i].jfc \in Jfcs /\ OnlyJfc(cqe[i].jfc) /\ ci' = ci
        <4>1. cqe[i].stage = "read" /\ (Reaches(i, "dma") \/ Reaches(i, "failcb"))
          BY <3>1, ReadFacts
        <4>2. cqe[i].jfc \in Jfcs /\ OnlyJfc(cqe[i].jfc) /\ ci' = ci
          BY <3>1, ReadFacts DEF SameGuest, OnlyJfc
        <4> QED
          BY <4>1, <4>2 DEF Reaches
      <3>2. ASSUME CqeWritten(i)
            PROVE  /\ cqe[i].stage \in {"read", "landed"} /\ cqe'[i].stage # cqe[i].stage
                   /\ cqe[i].jfc \in Jfcs /\ OnlyJfc(cqe[i].jfc) /\ ci' = ci
        <4>1. cqe[i].stage = "landed" /\ Reaches(i, "okcb")
          BY <3>2, WrittenFacts
        <4>2. cqe[i].jfc \in Jfcs /\ OnlyJfc(cqe[i].jfc) /\ ci' = ci
          BY <3>2, WrittenFacts DEF SameGuest, OnlyJfc
        <4> QED
          BY <4>1, <4>2 DEF Reaches
      <3> QED
        BY <1>12, <3>1, <3>2
    <2>2. i # m
      BY <2>1
    <2>3. cqe[i].jfc # j
      BY <2>1, <2>2 DEF AloneInv, InFlightStages, InDma
    <2> QED
      BY <1>3, <2>1, <2>3
  <1>13. ASSUME NEW i \in Cqes, CqeLands(i) \/ CqeDmaFails(i) PROVE Goal
    <2>1. jfc' = jfc /\ ci' = ci
      BY <1>13, LandsFacts, DmaFailsFacts DEF SameGuest
    <2> QED
      BY <1>2, <2>1 DEF SameJfc
  <1> QED
    BY <1>4, <1>5, <1>6, <1>7, <1>8, <1>9, <1>10, <1>11, <1>12, <1>13, NextCases

\* Every step keeps what a reading completion relies on.
LEMMA ReadStep ==
    ASSUME TypeOK, TypeOK', CommandInv, StackInv, QueueInv, EntryInv, RingInv, queries = 0, queries' = 0, Next
    PROVE  ReadInv'
  <1>1. AloneInv /\ ReadInv
    BY DEF RingInv
  <1> SUFFICES ASSUME NEW m \in Cqes, cqe'[m].stage = "read" PROVE Reading(m)'
    BY DEF ReadInv
  <1>2. CASE ~\E n \in Jfcs : Admit(n)
    <2>1. \A k \in Cqes : InAir(k)
      BY <1>2, SteadyStep
    <2>2. cqe'[m] = cqe[m] /\ cqe[m].stage = "read" /\ Reading(m)
      BY <1>1, <2>1 DEF InAir, ReadInv
    <2>3. PICK j \in Jfcs : j = cqe[m].jfc
      BY PosType
    <2>4. jfc'[j].producer = jfc[j].producer /\ jfc'[j].consumer = jfc[j].consumer /\ ci[j] <= ci'[j]
      BY <1>1, <1>2, <2>2, <2>3, ReadSteady
    <2>5. \A k \in Cqes : cqe'[k].jfc = j /\ Taken(k)' => cqe[k].jfc = j /\ Taken(k)
      BY <2>1 DEF InAir
    <2>6. ci'[j] \in Int
      BY DEF TypeOK, GuestType
    <2> QED
      BY <2>2, <2>3, <2>4, <2>5, <2>6, ReadKept
  <1>3. ASSUME NEW n \in Jfcs, Admit(n) PROVE Reading(m)'
    <2>1. PICK i \in Cqes :
            /\ waiting[n] # <<>> /\ waiting[n] \in Seq(Cqes) /\ i = Head(waiting[n])
            /\ cqe[i].jfc = n /\ cqe[i].stage = "waiting" /\ CanAdmit(n)
            /\ waiting' = [waiting EXCEPT ![n] = Tail(@)]
            /\ \A k \in Jfcs : k # n => jfc'[k] = jfc[k]
            /\ cqe'[i].gen = jfc[n].gen
            /\ \/ /\ ~jfc[n].live /\ Reaches(i, "failcb") /\ jfc' = jfc /\ stack' = Finish(i, stack)
                  /\ cqe'[i].pos = cqe[i].pos
               \/ /\ jfc[n].live /\ Pipelined /\ Used(n) < Depth /\ Reaches(i, "dma") /\ stack' = stack
                  /\ cqe'[i].pos = jfc[n].producer
                  /\ jfc'[n] = [jfc[n] EXCEPT !.producer = @ + 1]
               \/ /\ jfc[n].live /\ ~(Pipelined /\ Used(n) < Depth) /\ Reaches(i, "read") /\ stack' = stack
                  /\ jfc' = jfc /\ cqe'[i].ci = ci[n] /\ cqe'[i].pos = cqe[i].pos
            /\ UNCHANGED <<submitted, entry, faults>> /\ SameNotify /\ SameCommand /\ SameGuest
      BY <1>3, AdmitFacts
    <2>2. OnlyCqe(i) /\ cqe'[i].jfc = n /\ ci' = ci
      BY <2>1 DEF Reaches, SameGuest
    <2>3. \A k \in Cqes : k # i => cqe'[k] = cqe[k] /\ (Taken(k)' <=> Taken(k))
      BY <2>2 DEF OnlyCqe, Taken, Placed
    <2>4. CASE m = i
      <3>1. jfc[n].live /\ ~(Pipelined /\ Used(n) < Depth) /\ jfc' = jfc /\ cqe'[i].ci = ci[n]
        BY <2>1, <2>4 DEF Reaches
      <3>2. Used(n)' = Used(n) /\ Used(n) \in Int /\ Depth \in Int /\ jfc[n].producer \in Int /\ ci[n] \in Int
        BY <3>1, UsedType, WrapLarge DEF Used
      <3>3. Used(n) <= Depth /\ jfc[n].producer - Used(n) <= ci[n]
        BY <3>1 DEF RingInv, RingOf, CreditInv
      <3>4. \A k \in Cqes : cqe'[k].jfc = n /\ Taken(k)' => k <= i
        <4>1. 1 \in DOMAIN waiting[n] /\ i = waiting[n][1]
          BY <2>1
        <4>2. \A k \in Cqes : cqe[k].jfc = n /\ Taken(k) => k < i
          BY <4>1 DEF QueueInv
        <4> QED
          BY <2>3, <4>2 DEF Cqes
      <3>5. /\ Pipelined => Used(n)' >= Depth
            /\ jfc'[n].producer - Depth <= cqe'[i].ci /\ cqe'[i].ci <= ci'[n]
        BY <2>2, <3>1, <3>2, <3>3
      <3>6. Pipelined => Used(cqe[m].jfc)' >= Depth
        BY <2>2, <2>4, <3>5
      <3> QED
        BY <2>2, <2>4, <3>4, <3>5, <3>6 DEF Reading
    <2>5. CASE m # i
      <3>1. cqe'[m] = cqe[m] /\ cqe[m].stage = "read" /\ Reading(m)
        BY <1>1, <2>3, <2>5 DEF ReadInv
      <3>2. PICK j \in Jfcs : j = cqe[m].jfc
        BY PosType
      <3>3. CASE j # n
        <4>1. jfc'[j] = jfc[j] /\ ci'[j] \in Int /\ ci[j] <= ci'[j]
          BY <2>1, <2>2, <3>3, UsedType
        <4>2. \A k \in Cqes : cqe'[k].jfc = j /\ Taken(k)' => cqe[k].jfc = j /\ Taken(k)
          BY <2>2, <2>3, <3>3
        <4> QED
          BY <3>1, <3>2, <4>1, <4>2, ReadKept
      <3>4. CASE j = n
        <4>1. InFlight(n) # {}
          BY <3>1, <3>2, <3>4 DEF InFlight, InFlightStages, InDma
        <4>2. Pipelined => Used(n) >= Depth
          BY <3>1, <3>2, <3>4 DEF Reading
        <4>3. FALSE
          BY <2>1, <4>1, <4>2 DEF CanAdmit
        <4> QED
          BY <4>3
      <3> QED
        BY <3>3, <3>4
    <2> QED
      BY <2>4, <2>5
  <1> QED
    BY <1>2, <1>3

\* Only CreateJfc starts a creation, and nothing touches the ring before it is applied.
LEMMA FreshStep ==
    ASSUME TypeOK, CommandInv, StackInv, EntryInv, QueueInv, FreshInv, Next
    PROVE  FreshInv'
  <1> SUFFICES ASSUME NEW j \in Jfcs, csq' = [op |-> "createJfc", id |-> j]
               PROVE  mem'[j] = EmptyRing /\ ci'[j] = 0
    BY DEF FreshInv
  <1>1. ci \in [Jfcs -> Nat] /\ mem \in [Jfcs -> [0 .. (Depth - 1) -> [owner : BOOLEAN, id : 0 .. MaxCqe]]]
    BY DEF TypeOK, GuestType
  <1>2. ASSUME csq' = csq, mem'[j] = mem[j], ci'[j] = ci[j] PROVE mem'[j] = EmptyRing /\ ci'[j] = 0
    BY <1>2 DEF FreshInv
  <1>3. ASSUME csq' = csq PROVE ~jfc[j].live
    BY <1>3 DEF CommandInv
  <1>4. CASE OtherHandler
    <2>1. mem' = mem /\ ci' = ci /\ csq' \in {csq, NoCmd}
      BY <1>4 DEF OtherHandler, CallerReturns, ReleaseCompletionEventSlot, PumpLoop, PumpIds, EndPass,
                  DispatchReturns, DispatchEnds, NoDestroyReady, CompleteEqDestroy, StartEvent, DropEvent, guest,
                  command
    <2> QED
      BY <1>2, <2>1 DEF NoCmd
  <1>5. CASE OtherEvent
    <2>1. mem' = mem /\ ci' = ci /\ csq' \in {csq, NoCmd}
      BY <1>5 DEF OtherEvent, ApplyCreateCeq, CeqeLands, CeqeWritten, InterruptDelivered, CeqeFails,
                  InterruptFails, guest, command
    <2> QED
      BY <1>2, <2>1 DEF NoCmd
  <1>6. CASE OtherGuest
    <2>1. ASSUME NEW n \in Jfcs, PollCq(n) PROVE mem'[j] = EmptyRing /\ ci'[j] = 0
      <3>1. csq' = csq /\ mem' = mem /\ jfc[n].live /\ ci' = [ci EXCEPT ![n] = @ + 1]
        BY <2>1 DEF PollCq, command
      <3>2. ci'[j] = ci[j]
        BY <1>1, <1>3, <3>1
      <3> QED
        BY <1>2, <3>1, <3>2
    <2>2. ASSUME NEW n \in Jfcs, CreateJfc(n) PROVE mem'[j] = EmptyRing /\ ci'[j] = 0
      <3>1. n = j
        BY <2>2 DEF CreateJfc
      <3> QED
        BY <1>1, <2>2, <3>1 DEF CreateJfc
    <2>3. ASSUME NEW n \in Jfcs, QueryJfc(n) PROVE FALSE
      BY <2>3 DEF QueryJfc
    <2>4. ASSUME NEW c \in Ceqs, CreateCeq(c) PROVE FALSE
      BY <2>4 DEF CreateCeq
    <2>5. ASSUME \/ \E n \in Jfcs : Sleep(n)
                 \/ \E c \in Ceqs : PollCeq(c) \/ HandleCeqConsumerMmio(c) \/ DestroyCeq(c)
          PROVE  mem'[j] = EmptyRing /\ ci'[j] = 0
      <3>1. mem' = mem /\ ci' = ci /\ (csq' = csq \/ csq'.op = "destroyCeq")
        BY <2>5 DEF Sleep, PollCeq, HandleCeqConsumerMmio, DestroyCeq, guest, command
      <3> QED
        BY <1>2, <3>1
    <2> QED
      BY <1>6, <2>1, <2>2, <2>3, <2>4, <2>5 DEF OtherGuest
  <1>7. ASSUME \/ Release
               \/ \E n \in Jfcs : WriteCqe(n) \/ Admit(n) \/ LeaveJfc(n) \/ PumpTimer(n) \/ AdvanceTime(n) \/ ArmJfc(n)
               \/ \E i \in Cqes : ConsumerRead(i) \/ CqeWritten(i) \/ CqeDmaFails(i)
        PROVE  mem'[j] = EmptyRing /\ ci'[j] = 0
    <2>1. mem' = mem /\ ci' = ci /\ csq' = csq
      BY <1>7 DEF Release, WriteCqe, Admit, LeaveJfc, PumpTimer, AdvanceTime, ArmJfc, ConsumerRead, CqeWritten,
                  CqeDmaFails, guest, command
    <2> QED
      BY <1>2, <2>1
  <1>8. ASSUME NEW n \in Jfcs, \/ ModifyJfc(n) \/ QueryJfcRead(n) \/ ApplyCreateJfc(n) \/ DestroyJfc(n)
                               \/ CompleteJfcDestroy(n)
        PROVE  mem'[j] = EmptyRing /\ ci'[j] = 0
    <2>1. mem' = mem /\ ci' = ci /\ csq' \in {csq, NoCmd, [op |-> "destroyJfc", id |-> n]}
      BY <1>8 DEF ModifyJfc, QueryJfcRead, ApplyCreateJfc, DestroyJfc, CompleteJfcDestroy, guest
    <2> QED
      BY <1>2, <2>1 DEF NoCmd
  <1>9. ASSUME NEW i \in Cqes, CqeLands(i) PROVE mem'[j] = EmptyRing /\ ci'[j] = 0
    <2>1. PICK n \in Jfcs : n = cqe[i].jfc
      BY PosType
    <2>2. /\ csq' = csq /\ ci' = ci /\ cqe[i].stage = "dma"
          /\ mem' = [mem EXCEPT ![n][cqe[i].pos % Depth] = [owner |-> Owner(cqe[i].pos), id |-> i]]
      BY <1>9, <2>1, LandsFacts DEF SameCommand
    <2>3. n # j
      BY <1>3, <2>1, <2>2, EntryParts DEF InDma
    <2>4. mem'[j] = mem[j]
      BY <1>1, <2>2, <2>3
    <2> QED
      BY <1>2, <2>2, <2>4
  <1> QED
    BY <1>4, <1>5, <1>6, <1>7, <1>8, <1>9, NextCases

\* Queries are counted.
LEMMA QueriesCounted ==
    ASSUME TypeOK, Next, queries' = 0
    PROVE  queries = 0
  <1>1. queries \in Nat
    BY DEF TypeOK, CommandType
  <1>2. CASE HandlerStep
    BY <1>2 DEF HandlerStep, CallerReturns, Release, ReleaseCompletionEventSlot, PumpLoop, PumpIds, EndPass, PumpTimer,
                Admit, LeaveJfc, DispatchReturns, DispatchEnds, NoDestroyReady, CompleteJfcDestroy, CompleteEqDestroy,
                StartEvent, DropEvent, command
  <1>3. CASE DeviceEvent
    BY <1>3 DEF DeviceEvent, ConsumerRead, CqeLands, CqeWritten, AdvanceTime, ApplyCreateJfc, QueryJfcRead,
                ApplyCreateCeq, CeqeLands, CeqeWritten, InterruptDelivered, command
  <1>4. CASE Failure
    BY <1>4 DEF Failure, CqeDmaFails, CeqeFails, InterruptFails, command
  <1>5. CASE GuestStep
    BY <1>5 DEF GuestStep, PollCq, ArmJfc, Sleep, PollCeq, HandleCeqConsumerMmio, command
  <1>6. CASE Request
    <2>1. ASSUME NEW j \in Jfcs, QueryJfc(j) PROVE FALSE
      BY <1>1, <2>1 DEF QueryJfc
    <2>2. ASSUME \/ \E j \in Jfcs : WriteCqe(j) \/ CreateJfc(j) \/ ModifyJfc(j) \/ DestroyJfc(j)
                 \/ \E c \in Ceqs : CreateCeq(c) \/ DestroyCeq(c)
          PROVE  queries = 0
      BY <2>2 DEF WriteCqe, CreateJfc, ModifyJfc, DestroyJfc, CreateCeq, DestroyCeq, command
    <2> QED
      BY <1>6, <2>1, <2>2 DEF Request
  <1> QED
    BY <1>2, <1>3, <1>4, <1>5, <1>6 DEF Next

\* The rings while the guest has queried no JFC.
LEMMA RingsInit == Init => RingsInv
  <1> SUFFICES ASSUME Init PROVE RingInv
    BY DEF RingsInv
  <1>1. \A i \in Cqes : cqe[i].stage = "new"
    BY DEF Init
  <1>2. \A j \in Jfcs : ~jfc[j].live
    BY DEF Init, DeadJfc, FreshJfc
  <1>3. AloneInv /\ ReadInv /\ CqesInSubmissionOrder
    BY <1>1 DEF AloneInv, ReadInv, CqesInSubmissionOrder, Placed, InFlightStages, InDma
  <1>4. FreshInv
    BY DEF Init, FreshInv, NoCmd
  <1> QED
    BY <1>2, <1>3, <1>4 DEF RingInv

\* The rings, with the invariant of the engine.
LEMMA RingsSafe == Spec => [](IInv /\ EngineInv /\ RingsInv)
  <1>1. Init => RingsInv
    BY RingsInit
  <1>2. IInv /\ EngineInv /\ NotifyInv /\ (IInv /\ EngineInv /\ NotifyInv)' /\ RingsInv /\ [Next]_vars => RingsInv'
    <2>1. ASSUME IInv, IInv', EngineInv, RingsInv, Next, queries' = 0
          PROVE  RingInv'
      <3>1. TypeOK /\ TypeOK' /\ CommandInv /\ StackInv /\ QueueInv /\ EntryInv
        BY <2>1 DEF IInv, EngineInv
      <3>2. queries = 0 /\ RingInv
        BY <2>1, <3>1, QueriesCounted DEF RingsInv
      <3>3. AloneInv /\ ReadInv /\ FreshInv
        BY <3>2 DEF RingInv
      <3>4. AloneInv' /\ FreshInv'
        BY <2>1, <3>1, <3>3, AloneStep, FreshStep
      <3>5. ReadInv' /\ CqesInSubmissionOrder'
        BY <2>1, <3>1, <3>2, ReadStep, OrderStep
      <3>6. \A j \in Jfcs : jfc'[j].live => RingOf(j)'
        BY <2>1, <3>1, <3>2, RingStep
      <3> QED
        BY <3>4, <3>5, <3>6 DEF RingInv
    <2>2. ASSUME RingsInv, UNCHANGED vars
          PROVE  RingsInv'
      <3>1. UNCHANGED <<jfc, cqe, csq, queries, mem, ci, seen>>
        BY <2>2 DEF vars
      <3>2. AloneInv' = AloneInv /\ ReadInv' = ReadInv /\ CqesInSubmissionOrder' = CqesInSubmissionOrder /\ FreshInv' = FreshInv
        BY <3>1 DEF AloneInv, ReadInv, Reading, Used, Taken, Placed, CqesInSubmissionOrder, FreshInv
      <3>3. ASSUME NEW j \in Jfcs PROVE RingOf(j)' = RingOf(j)
        BY <3>1 DEF RingOf, PlaceInv, CreditInv, EntryOf, LatestOf, AheadOf, PolledOf, Filled, Holds, Owner, Mine, Landed,
                    Placed, Writing, Used
      <3> QED
        BY <2>2, <3>1, <3>2, <3>3 DEF RingsInv, RingInv
    <2> QED
      BY <2>1, <2>2 DEF RingsInv
  <1> QED
    BY <1>1, <1>2, EngineSafe, PTL DEF Spec

\* CQEs of one JFC take the entries of its ring in the order WriteCqe accepted them, however
\* the DMA callbacks of WriteCqeNow are ordered, as long as no QueryJfcContext has replaced
\* the cached consumer index.
THEOREM SubmissionOrder == Spec => [](queries = 0 => CqesInSubmissionOrder)
  <1>1. RingsInv => (queries = 0 => CqesInSubmissionOrder)
    BY DEF RingsInv, RingInv
  <1> QED
    BY <1>1, RingsSafe, PTL

\* The owner bit WriteCqeNow writes shows the guest the CQE of its consumer index and never
\* one of an earlier lap, and a CQE reported as written that the guest has passed was polled:
\* no write goes to an entry the guest has not consumed, through every wrap of the 22-bit
\* indexes, as long as no QueryJfcContext has replaced the cached consumer index.
THEOREM PollsPublished == Spec => [](queries = 0 => GuestPollsPublishedCqe)
  <1>1. IInv /\ EngineInv /\ RingsInv => (queries = 0 => GuestPollsPublishedCqe)
    <2> SUFFICES ASSUME TypeOK, RingInv PROVE GuestPollsPublishedCqe
      BY DEF IInv, RingsInv
    <2>1. CqesInSubmissionOrder
      BY DEF RingInv
    <2>2. ASSUME NEW j \in Jfcs, jfc[j].live, Visible(j)
          PROVE  LET i == mem[j][ci[j] % Depth].id IN
                 /\ i \in Cqes /\ cqe[i].jfc = j
                 /\ cqe[i].gen = jfc[j].gen /\ cqe[i].pos = ci[j]
      <3>1. RingOf(j)
        BY <2>2 DEF RingInv
      <3>2. PICK k \in Cqes : Filled(j, ci[j] % Depth, k) /\ cqe[k].pos = ci[j]
        BY <2>2, <3>1, VisibleIsNext
      <3>3. mem[j][ci[j] % Depth].id = k
        BY <3>2 DEF Filled, Holds
      <3>4. cqe[k].jfc = j /\ cqe[k].gen = jfc[j].gen
        BY <3>2 DEF Filled, Mine
      <3> QED
        BY <3>2, <3>3, <3>4
    <2>3. ASSUME NEW i \in Cqes, NEW j \in Jfcs, j = cqe[i].jfc, cqe[i].stage \in {"okcb", "ok"},
                 jfc[j].live, cqe[i].gen = jfc[j].gen, cqe[i].pos < ci[j]
          PROVE  i \in seen
      <3>1. RingOf(j) /\ Mine(i, j) /\ Placed(i)
        BY <2>3 DEF RingInv, Mine, Placed
      <3>2. PICK p \in 0 .. (ci[j] - 1) : p = cqe[i].pos
        BY <2>3, PosType, UsedType
      <3>3. PICK k \in Cqes : Mine(k, j) /\ Landed(k) /\ cqe[k].pos = p /\ k \in seen
        BY <3>1 DEF RingOf, PolledOf
      <3>4. Placed(k)
        BY <3>3 DEF Landed, Placed
      <3>5. i = k
        BY <2>1, <3>1, <3>2, <3>3, <3>4, Distinct
      <3> QED
        BY <3>3, <3>5
    <2>4. \A i \in Cqes : cqe[i].jfc \in Jfcs
      BY PosType
    <2> QED
      BY <2>2, <2>3, <2>4 DEF GuestPollsPublishedCqe
  <1> QED
    BY <1>1, RingsSafe, PTL
=============================================================================
