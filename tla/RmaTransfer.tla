---------------------------- MODULE RmaTransfer ----------------------------
(***************************************************************************)
(* One-sided transfers between two UDMA devices: WRITE with its            *)
(* acknowledgements and READ with its responses.  The initiator keeps one  *)
(* PendingRma per request, the transport cuts a request into segments (TAs)*)
(* and may repeat, delay and reorder both the segments and their replies,  *)
(* and the target serves every segment with a DMA of its own.              *)
(*                                                                         *)
(* A byte of a buffer is named by its offset; memory records which byte of *)
(* the other side has been stored where.  What CompleteSq does with the SQ *)
(* slot is the subject of SqPipeline: here it is the status reported for   *)
(* the request.  The error counters are left out.                          *)
(***************************************************************************)
EXTENDS Integers, FiniteSets, Sequences

CONSTANTS
    Requests,     \* request identifiers, never reused (next_rma_request_)
    Jettys,       \* SQ contexts
    JettyOf,      \* the jetty that issued each request
    ByteCounts,   \* transfer lengths the guest asks for
    Segments,     \* the segments the transport may cut a request into
    Copies,       \* bound: executions of one segment at the target at a time
    MayFail       \* may accesses to memory and sends fail

Ops == {"WRITE", "READ"}
Segment == [ta : Nat, offset : Nat, length : Nat \ {0}]

ASSUME ConstantsAssumption ==
    /\ JettyOf \in [Requests -> Jettys]
    /\ ByteCounts \subseteq Nat \ {0}
    /\ Segments \subseteq Segment
    /\ MayFail \in BOOLEAN

VARIABLES
    rma,                \* PendingRma of every issued request (kept after erasure)
    pending,            \* keys of pending_rma_
    outbox,             \* requests whose network_.Send has not called back
    wire,               \* requests the transport has taken
    services,           \* segments being served at the target
    replies,            \* replies the transport may still deliver, any number of times
    localDma,           \* response payloads being written at the initiator
    read_response_dma,  \* the same, counted per jetty
    target,             \* target memory: which byte of the initiator is where
    local,              \* initiator memory: which byte of the target is where
    cqe                 \* statuses passed to CompleteSq for each request

vars == <<rma, pending, outbox, wire, services, replies, localDma,
          read_response_dma, target, local, cqe>>

Untouched == -1
Offsets == UNION {0 .. (n - 1) : n \in ByteCounts}
Memory == [Offsets -> Offsets \cup {Untouched}]
Bytes(s) == s.offset .. (s.offset + s.length - 1)

ByteRange == [begin : Nat, end : Nat]
PendingRma ==
    [op : Ops, byte_count : Nat, completed_bytes : Nat, accepted_bytes : Nat,
     response_dma : Nat, tassns : SUBSET Nat, ranges : SUBSET ByteRange, failed : BOOLEAN]
NewRequest(op, n) ==
    [op |-> op, byte_count |-> n, completed_bytes |-> 0, accepted_bytes |-> 0,
     response_dma |-> 0, tassns |-> {}, ranges |-> {}, failed |-> FALSE]

Service == [req : Requests, seg : Segments, copy : Copies, stage : {"dma", "ok", "failed"}]
Reply == [kind : {"WriteAck", "ReadResponse", "RmaError"}, req : Requests,
          ta : Nat, offset : Nat, length : Nat \ {0}, first : Nat]
LocalDma == [req : Requests, ta : Nat, offset : Nat, length : Nat \ {0}, first : Nat]

\* Bytes first, first + 1, ... of the other side stored at the given offsets.
Store(memory, offsets, shift) ==
    [i \in DOMAIN memory |-> IF i \in offsets THEN i + shift ELSE memory[i]]

Issued(r) == r \in pending \/ cqe[r] # <<>>

----------------------------------------------------------------------------
(* The initiator issues *)

\* HandleSqWqe (READ) and SubmitSqPayload (WRITE).
Issue(r, op, n) ==
    /\ ~Issued(r)
    /\ rma' = [rma EXCEPT ![r] = NewRequest(op, n)]
    /\ pending' = pending \cup {r}
    /\ outbox' = outbox \cup {r}
    /\ UNCHANGED <<wire, services, replies, localDma, read_response_dma, target, local, cqe>>

\* pending_rma_.erase followed by CompleteSq.
MutFinish(r, status) ==
    /\ UNCHANGED pending
    /\ cqe' = [cqe EXCEPT ![r] = Append(@, status)]
Finish(r, status) ==
    /\ pending' = pending \ {r}
    /\ cqe' = [cqe EXCEPT ![r] = Append(@, status)]

\* The send callback.  The device's network port refuses a frame only before
\* it hands any of it over.
SendDone(r) ==
    /\ r \in outbox
    /\ outbox' = outbox \ {r}
    /\ wire' = wire \cup {r}
    /\ UNCHANGED <<rma, pending, services, replies, localDma, read_response_dma, target, local, cqe>>

SendRefused(r) ==
    /\ MayFail /\ r \in outbox
    /\ outbox' = outbox \ {r}
    /\ Finish(r, 1)
    /\ UNCHANGED <<rma, wire, services, replies, localDma, read_response_dma, target, local>>

----------------------------------------------------------------------------
(* The target serves *)

\* ReceiveWrite, ReceiveReadRequest: the transport never exceeds the request.
ReceiveRequest(r, s, c) ==
    /\ r \in wire /\ s.offset + s.length <= rma[r].byte_count
    /\ ~\E v \in services : v.req = r /\ v.seg = s /\ v.copy = c
    /\ services' = services \cup {[req |-> r, seg |-> s, copy |-> c, stage |-> "dma"]}
    /\ UNCHANGED <<rma, pending, outbox, wire, replies, localDma, read_response_dma, target, local, cqe>>

\* The WriteToken or ReadToken callback, which hands the reply to the network.
\* A WRITE that fails may have stored any part of its segment.
TargetDone(v, ok) ==
    /\ v \in services /\ v.stage = "dma" /\ (ok \/ MayFail)
    /\ services' = (services \ {v}) \cup
                       {[v EXCEPT !.stage = IF ok THEN "ok" ELSE "failed"]}
    /\ IF rma[v.req].op = "READ" THEN UNCHANGED target
       ELSE \E stored \in SUBSET Bytes(v.seg) :
              /\ ok => stored = Bytes(v.seg)
              /\ target' = [target EXCEPT ![v.req] = Store(@, stored, 0)]
    /\ UNCHANGED <<rma, pending, outbox, wire, replies, localDma, read_response_dma, local, cqe>>

\* The reply is built from the segment's own association (reply_basis).
ReplyTo(v) ==
    [kind |-> IF v.stage = "failed" THEN "RmaError"
              ELSE IF rma[v.req].op = "WRITE" THEN "WriteAck" ELSE "ReadResponse",
     req |-> v.req, ta |-> v.seg.ta, offset |-> v.seg.offset, length |-> v.seg.length,
     first |-> v.seg.offset]

\* The send callback of a reply ends the service.  The port refuses a reply only
\* when its ring cannot hold a header, and then it refuses requests as well.
ReplySent(v) ==
    /\ v \in services /\ v.stage # "dma"
    /\ services' = services \ {v}
    /\ replies' = replies \cup {ReplyTo(v)}
    /\ UNCHANGED <<rma, pending, outbox, wire, localDma, read_response_dma, target, local, cqe>>

----------------------------------------------------------------------------
(* The initiator collects acknowledgements and responses *)

\* The neighbours lower_bound finds among the reserved ranges.
Following(ranges, begin) ==
    {x \in ranges : x.begin >= begin /\ \A y \in ranges : y.begin >= begin => x.begin <= y.begin}
Preceding(ranges, begin) ==
    {x \in ranges : x.begin < begin /\ \A y \in ranges : y.begin < begin => y.begin <= x.begin}

MutOverlaps(ranges, begin, end) ==
    \E x \in Following(ranges, begin) : x.begin < end
Overlaps(ranges, begin, end) ==
    \/ \E x \in Following(ranges, begin) : x.begin < end
    \/ \E x \in Preceding(ranges, begin) : x.end > begin

\* A segment that was not seen, fits the request and what is left of it.
Fresh(q, m, counted) ==
    /\ m.ta \notin q.tassns
    /\ m.offset <= q.byte_count
    /\ m.length <= q.byte_count - m.offset
    /\ m.length <= q.byte_count - counted
    /\ ~Overlaps(q.ranges, m.offset, m.offset + m.length)

Reserve(q, m) ==
    [q EXCEPT !.ranges = @ \cup {[begin |-> m.offset, end |-> m.offset + m.length]},
              !.tassns = @ \cup {m.ta}]

ReceiveWriteAck(m) ==
    /\ m \in replies /\ m.kind = "WriteAck"
    /\ m.req \in pending /\ rma[m.req].op = "WRITE"
    /\ Fresh(rma[m.req], m, rma[m.req].completed_bytes)
    /\ LET q == [Reserve(rma[m.req], m) EXCEPT !.completed_bytes = @ + m.length]
       IN /\ rma' = [rma EXCEPT ![m.req] = q]
          /\ IF q.completed_bytes = q.byte_count THEN Finish(m.req, 0)
             ELSE UNCHANGED <<pending, cqe>>
    /\ UNCHANGED <<outbox, wire, services, replies, localDma, read_response_dma, target, local>>

\* The bytes are reserved before their DMA is issued.
ReceiveReadResponse(m) ==
    /\ m \in replies /\ m.kind = "ReadResponse"
    /\ m.req \in pending /\ rma[m.req].op = "READ" /\ ~rma[m.req].failed
    /\ Fresh(rma[m.req], m, rma[m.req].accepted_bytes)
    /\ rma' = [rma EXCEPT ![m.req] =
                 [Reserve(rma[m.req], m) EXCEPT !.accepted_bytes = @ + m.length,
                                       !.response_dma = @ + 1]]
    /\ read_response_dma' = [read_response_dma EXCEPT ![JettyOf[m.req]] = @ + 1]
    /\ localDma' = localDma \cup
           {[req |-> m.req, ta |-> m.ta, offset |-> m.offset, length |-> m.length,
             first |-> m.first]}
    /\ UNCHANGED <<pending, outbox, wire, services, replies, target, local, cqe>>

\* finish_response, once a response DMA has ended.
Landed(q, length, ok) ==
    [q EXCEPT !.response_dma = @ - 1,
              !.failed = @ \/ ~ok,
              !.completed_bytes = IF ok THEN @ + length ELSE @]

MutReadFinished(q) == q.response_dma = 0 /\ q.completed_bytes = q.byte_count
ReadFinished(q) ==
    q.response_dma = 0 /\ (q.failed \/ q.completed_bytes = q.byte_count)

\* The WriteToken callback of a response.  A DMA that fails may have stored any
\* part of the payload.
ResponseWritten(d, ok) ==
    /\ d \in localDma /\ (ok \/ MayFail)
    /\ localDma' = localDma \ {d}
    /\ read_response_dma' = [read_response_dma EXCEPT ![JettyOf[d.req]] = @ - 1]
    /\ \E stored \in SUBSET Bytes(d) :
         /\ ok => stored = Bytes(d)
         /\ local' = [local EXCEPT ![d.req] = Store(@, stored, d.first - d.offset)]
    /\ IF d.req \notin pending THEN UNCHANGED <<rma, pending, cqe>>
       ELSE LET q == Landed(rma[d.req], d.length, ok)
            IN /\ rma' = [rma EXCEPT ![d.req] = q]
               /\ IF ReadFinished(q) THEN Finish(d.req, IF q.failed THEN 5 ELSE 0)
                  ELSE UNCHANGED <<pending, cqe>>
    /\ UNCHANGED <<outbox, wire, services, replies, target>>

\* Receive (RmaError): an error completion lets the guest recycle the buffer,
\* so it waits for the response DMAs that were accepted.
MutDrained(q) == TRUE
Drained(q) == q.response_dma = 0

ReceiveRmaError(m) ==
    /\ m \in replies /\ m.kind = "RmaError" /\ m.req \in pending
    /\ rma' = [rma EXCEPT ![m.req].failed = TRUE]
    /\ IF Drained(rma[m.req]) THEN Finish(m.req, 5) ELSE UNCHANGED <<pending, cqe>>
    /\ UNCHANGED <<outbox, wire, services, replies, localDma, read_response_dma, target, local>>

----------------------------------------------------------------------------
Init ==
    /\ rma = [r \in Requests |-> NewRequest("READ", 0)]
    /\ pending = {} /\ outbox = {} /\ wire = {}
    /\ services = {} /\ replies = {} /\ localDma = {}
    /\ read_response_dma = [j \in Jettys |-> 0]
    /\ target = [r \in Requests |-> [i \in Offsets |-> Untouched]]
    /\ local = [r \in Requests |-> [i \in Offsets |-> Untouched]]
    /\ cqe = [r \in Requests |-> <<>>]

InitiatorStep ==
    \/ \E r \in Requests, op \in Ops, n \in ByteCounts : Issue(r, op, n)
    \/ \E r \in Requests : SendDone(r) \/ SendRefused(r)
    \/ \E m \in replies : ReceiveWriteAck(m) \/ ReceiveReadResponse(m) \/ ReceiveRmaError(m)
    \/ \E d \in localDma, ok \in BOOLEAN : ResponseWritten(d, ok)

TargetStep ==
    \/ \E r \in Requests, s \in Segments, c \in Copies : ReceiveRequest(r, s, c)
    \/ \E v \in services, ok \in BOOLEAN : TargetDone(v, ok)
    \/ \E v \in services : ReplySent(v)

Next == InitiatorStep \/ TargetStep

Spec == Init /\ [][Next]_vars

\* The device's main loop flushes the send queue and polls DMA completions and
\* the network in every round, first in first out; the transport delivers every
\* segment of a request and every reply at least once.
Fairness ==
    \A r \in Requests :
        /\ WF_vars(SendDone(r))
        /\ \A s \in Segments :
             /\ \A c \in Copies : WF_vars(ReceiveRequest(r, s, c))
             /\ WF_vars(\E v \in services, ok \in BOOLEAN :
                           v.req = r /\ v.seg = s /\ TargetDone(v, ok))
             /\ WF_vars(\E v \in services : v.req = r /\ v.seg = s /\ ReplySent(v))
             /\ WF_vars(\E m \in replies : /\ m.req = r /\ m.ta = s.ta /\ m.offset = s.offset
                                           /\ \/ ReceiveWriteAck(m) \/ ReceiveReadResponse(m)
                                              \/ ReceiveRmaError(m))
             /\ WF_vars(\E d \in localDma, ok \in BOOLEAN :
                           d.req = r /\ d.ta = s.ta /\ ResponseWritten(d, ok))

FairSpec == Spec /\ Fairness

----------------------------------------------------------------------------
(* Properties *)

\* The variables keep their types; in particular the byte counters never pass
\* the length of the request, so the unsigned subtractions of the receive
\* handlers do not wrap.
TypeOK ==
    /\ rma \in [Requests -> PendingRma]
    /\ \A r \in Requests : /\ rma[r].completed_bytes <= rma[r].byte_count
                           /\ rma[r].accepted_bytes <= rma[r].byte_count
                           /\ rma[r].byte_count \in ByteCounts \cup {0}
    /\ pending \subseteq Requests /\ outbox \subseteq Requests /\ wire \subseteq Requests
    /\ services \subseteq Service /\ replies \subseteq Reply /\ localDma \subseteq LocalDma
    /\ read_response_dma \in [Jettys -> Nat]
    /\ target \in [Requests -> Memory] /\ local \in [Requests -> Memory]
    /\ cqe \in [Requests -> Seq({0, 1, 5})]

\* A request is reported successful only when every byte of it has arrived at
\* its own place: at the target for a WRITE, in the guest's buffer for a READ,
\* whatever the transport repeats, reorders or cuts differently.
SuccessMeansTransferred ==
    \A r \in Requests : cqe[r] = << 0 >> =>
        \A i \in 0 .. (rma[r].byte_count - 1) :
            (IF rma[r].op = "WRITE" THEN target[r][i] ELSE local[r][i]) = i

\* A request that was issued is either pending or completed, and completed once.
CompletesOnce ==
    \A r \in Requests : Len(cqe[r]) <= 1 /\ ~(r \in pending /\ cqe[r] # <<>>)

\* No response DMA touches the guest's buffer after the completion, successful
\* or not, that allows the guest to recycle it.
NoDmaAfterCompletion == \A d \in localDma : cqe[d.req] = <<>>

\* Two response DMAs never write the same byte, and the counters that keep the
\* request and its jetty alive count the DMAs in flight.
ResponseDmaOwned ==
    /\ \A d, e \in localDma : d # e /\ d.req = e.req => Bytes(d) \cap Bytes(e) = {}
    /\ \A r \in pending : rma[r].response_dma = Cardinality({d \in localDma : d.req = r})
    /\ \A j \in Jettys : read_response_dma[j] = Cardinality({d \in localDma : JettyOf[d.req] = j})

\* Every request that is issued completes, failed accesses included, when the transport cuts
\* requests of its length without overlap, as a transport with one MTU does.
Exact(n) ==
    LET fitting == {s \in Segments : s.offset + s.length <= n}
    IN /\ UNION {Bytes(s) : s \in fitting} = 0 .. (n - 1)
       /\ \A s, t \in fitting : s # t => Bytes(s) \cap Bytes(t) = {}
RequestsComplete ==
    \A r \in Requests : r \in pending /\ Exact(rma[r].byte_count) ~> cqe[r] # <<>>
=============================================================================
