----------------------------- MODULE SqPipeline -----------------------------
(***************************************************************************)
(* The send queue of the UDMA device model                                 *)
(* (components/udma-model/src/udma_sq.cc, the jetty commands and doorbells *)
(* of udma_resources.cc and the RMA replies of udma_receive.cc).  WQEs are *)
(* prefetched from the SQ ring, decoded and issued in order; WRITE payloads*)
(* are read concurrently but their frames leave in order; requests complete*)
(* in any order and retire in order, each with at most one CQE.            *)
(*                                                                         *)
(* As in JfcCompletion the device is single threaded: `stack' holds the    *)
(* synchronous calls that the running handler still has to make, and other *)
(* events are handled only when it is empty.                               *)
(***************************************************************************)
EXTENDS Integers, Sequences, SequencesExt, FiniteSets, FiniteSetsExt

CONSTANTS
    Jettys,       \* jetty (SQ) identifiers
    Kinds,        \* WQE shapes the guest may post
    Depth,        \* SQ ring depth in WQEBBs
    Prefetch,     \* Config::sq_prefetch_wqebbs
    Burst,        \* Config::sq_fetch_burst_wqebbs
    MaxFetch,     \* Config::sq_fetch_max_outstanding
    WriteWindow,  \* Config::write_payload_read_window
    ReadWindow,   \* Config::max_read_outstanding (0: unlimited)
    Pipelined,    \* Config::pipelined_completion_dma
    Slots,        \* Config::completion_event_slots
    DirectWqe,    \* does the guest use direct WQE writes
    TpTeardown,   \* may the guest remove the TP before it destroys its jettys
    MaxPosts,     \* bound: WQEs posted to one jetty
    MaxGen,       \* bound: creations of one jetty
    MaxFaults     \* bound: failing DMAs, sends, and remote errors

\* INLINE: a WRITE with its payload in the WQE; LONG: a SEND above the transport
\* limit; EMPTY: a WQE without a usable SGE; BAD: an invalid header; TORN: a
\* header that names more WQEBBs than were submitted.
Ops == {"READ", "WRITE", "INLINE", "SEND", "LONG", "EMPTY", "BAD", "TORN"}
Kind == [op : Ops, ordered : BOOLEAN, bb : Nat \ {0}, signaled : BOOLEAN]

ASSUME KindAssumption == Kinds \subseteq Kind /\ \A k \in Kinds : k.bb <= Depth
ASSUME SizeAssumption ==
    /\ Depth \in Nat \ {0} /\ Prefetch \in Nat \ {0} /\ Burst \in Nat \ {0}
    /\ MaxFetch \in Nat \ {0} /\ WriteWindow \in Nat \ {0} /\ Slots \in Nat \ {0}
    /\ ReadWindow \in Nat
ASSUME SwitchAssumption ==
    Pipelined \in BOOLEAN /\ DirectWqe \in BOOLEAN /\ TpTeardown \in BOOLEAN
ASSUME LimitAssumption ==
    MaxPosts \in Nat /\ MaxGen \in Nat /\ MaxFaults \in Nat

VARIABLES
    sq,        \* jetty_contexts_ and sq_pipelines_: one record per jetty
    posted,    \* guest: the WQEs written to each SQ, in order
    fetches,   \* descriptor prefetch DMAs in flight
    net,       \* requests given to the network and not completed
    route,     \* tp_routes_: "up", "down" (link or TP inactive) or "none"
    draining,  \* the jetty whose destroy is deferred ({} or {j})
    stack,     \* call stack of the running handler
    faults,    \* injected failures so far
    sent       \* history: WQEs whose frame was handed to network_.Send

vars == <<sq, posted, fetches, net, route, draining, stack, faults, sent>>

----------------------------------------------------------------------------
(* State *)

Numbers == 1..MaxPosts
\* An SqCompletion.  pub: the CQE is not issued, issued, visible to the guest,
\* acknowledged, or its DMA failed.
Entry == [w : Numbers, index : 0..(Depth - 1), bb : Nat, ready : BOOLEAN,
          pub : {"no", "issued", "landed", "done", "failed"}]
PreparedWrite == [w : Numbers, index : 0..(Depth - 1),
                  state : {"reading", "ready", "failed"}]
Cached == [at : Nat, w : 0..MaxPosts]
Pipe == [live : BOOLEAN, gen : 0..MaxGen, consumer : Nat, target : Nat,
         direct : 0..MaxPosts, busy : BOOLEAN, issue : Nat, nextFetch : Nat,
         cache : SUBSET Cached, fetching : {"no", "sync", "cont", "payload"},
         cur : 0..MaxPosts,
         ordered : BOOLEAN, failed : BOOLEAN, prepared : Seq(PreparedWrite),
         completions : Seq(Entry), kick : BOOLEAN]
Wqe == [kind : Kinds, start : Nat]
Fetch == [j : Jettys, gen : 0..MaxGen, start : Nat, count : Nat]
Request == [j : Jettys, gen : 0..MaxGen, w : Numbers, index : 0..(Depth - 1),
            op : {"READ", "WRITE", "INLINE", "SEND"},
            stage : {"sending", "sent", "dma"}]
Frame == [op : {"enter", "loop", "fill", "decode", "handle", "release",
                "resume", "retire", "pop", "drain", "maybe"},
          j : Jettys, w : 0..MaxPosts]

NewPipe(gen) ==
    [live |-> TRUE, gen |-> gen, consumer |-> 0, target |-> 0, direct |-> 0,
     busy |-> FALSE, issue |-> 0, nextFetch |-> 0, cache |-> {},
     fetching |-> "no", cur |-> 0, ordered |-> FALSE, failed |-> FALSE,
     prepared |-> <<>>, completions |-> <<>>, kick |-> FALSE]
NoPipe(gen) == [NewPipe(gen) EXCEPT !.live = FALSE]

Init ==
    /\ sq = [j \in Jettys |-> NoPipe(0)]
    /\ posted = [j \in Jettys |-> <<>>]
    /\ fetches = {}
    /\ net = {}
    /\ route = "up"
    /\ draining = {}
    /\ stack = <<>>
    /\ faults = 0
    /\ sent = [j \in Jettys |-> <<>>]

Idle == stack = <<>>
Running(op, j) == stack # <<>> /\ Head(stack).op = op /\ Head(stack).j = j
Rest == Tail(stack)
Call(op, j) == [op |-> op, j |-> j, w |-> 0]
CallWith(op, j, w) == [op |-> op, j |-> j, w |-> w]
Within(op, j) == \E k \in DOMAIN Rest : Rest[k].op = op /\ Rest[k].j = j
Fault == faults < MaxFaults /\ faults' = faults + 1
Outcome(ok) == IF ok THEN UNCHANGED faults ELSE Fault

KindOf(j, w) == posted[j][w].kind
EndOf(j, w) == posted[j][w].start + posted[j][w].kind.bb
Tip(j) == IF posted[j] = <<>> THEN 0 ELSE EndOf(j, Len(posted[j]))
\* What the guest last wrote to the SQ ring slot of a WQEBB position.
InRing(j, p) ==
    CHOOSE w \in 0..Len(posted[j]) :
        \/ /\ w > 0
           /\ \E q \in posted[j][w].start..(EndOf(j, w) - 1) : q % Depth = p % Depth
           /\ \A v \in (w + 1)..Len(posted[j]) :
                 ~\E q \in posted[j][v].start..(EndOf(j, v) - 1) : q % Depth = p % Depth
        \/ /\ w = 0
           /\ \A v \in 1..Len(posted[j]) :
                 ~\E q \in posted[j][v].start..(EndOf(j, v) - 1) : q % Depth = p % Depth

----------------------------------------------------------------------------
(* Destroy: ResourceQueueBusy and MaybeCompleteQueueDestroy *)

IsRma(r) == r.op # "SEND"
Fetching(j) == \E f \in fetches : f.j = j
\* QueueContext::busy as every callback recomputes it.
Occupied(s, inFlight) == s.fetching # "no" \/ inFlight \/ s.completions # <<>>

ResourceQueueBusy(j) ==
    \/ sq[j].live /\ sq[j].busy
    \/ sq[j].prepared # <<>>
    \/ \E r \in net : r.j = j /\ IsRma(r)

Erase(j) ==
    /\ sq' = [sq EXCEPT ![j] = NoPipe(@.gen)]
    /\ posted' = [posted EXCEPT ![j] = <<>>]
    /\ sent' = [sent EXCEPT ![j] = <<>>]

MaybeCompleteQueueDestroy(j) ==
    /\ Running("maybe", j)
    /\ stack' = Rest
    /\ IF \E d \in draining : ~ResourceQueueBusy(d)
       THEN (\E d \in draining : Erase(d)) /\ draining' = {}
       ELSE UNCHANGED <<sq, posted, sent, draining>>
    /\ UNCHANGED <<fetches, net, route, faults>>

CreateJetty(j) ==
    /\ Idle /\ draining = {} /\ ~sq[j].live /\ sq[j].gen < MaxGen
    /\ sq' = [sq EXCEPT ![j] = NewPipe(@.gen + 1)]
    /\ UNCHANGED <<posted, fetches, net, route, draining, stack, faults, sent>>

DestroyJetty(j) ==
    /\ Idle /\ draining = {} /\ sq[j].live
    /\ IF ResourceQueueBusy(j)
       THEN draining' = {j} /\ UNCHANGED <<sq, posted, sent>>
       ELSE Erase(j) /\ UNCHANGED draining
    /\ UNCHANGED <<fetches, net, route, stack, faults>>

----------------------------------------------------------------------------
(* The guest *)

\* SQ space the guest may reuse: up to the last CQE it can see; CQEs become
\* visible to it in ring order, and an unsignaled WQE is covered by a later CQE.
Retired(j, w) == posted[j][w].start < sq[j].consumer
CqeVisible(j, w) ==
    \/ Retired(j, w)
    \/ \E k \in DOMAIN sq[j].completions :
          /\ sq[j].completions[k].w = w
          /\ sq[j].completions[k].pub \in {"landed", "done"}
Reusable(j) ==
    {0} \cup {EndOf(j, w) : w \in
        {v \in DOMAIN posted[j] :
            /\ KindOf(j, v).signaled
            /\ \A u \in 1..v : KindOf(j, u).signaled => CqeVisible(j, u)}}
GuestCi(j) == CHOOSE p \in Reusable(j) : \A q \in Reusable(j) : q <= p

Post(j, kind) ==
    /\ Idle /\ sq[j].live /\ j \notin draining
    /\ Len(posted[j]) < MaxPosts
    /\ Tip(j) + kind.bb - GuestCi(j) <= Depth
    /\ posted' = [posted EXCEPT ![j] = Append(@, [kind |-> kind, start |-> Tip(j)])]
    /\ UNCHANGED <<sq, fetches, net, route, draining, stack, faults, sent>>

\* HandleJettyMmio: the doorbell carries the producer index.
Doorbell(j) ==
    /\ Idle /\ sq[j].live /\ j \notin draining
    /\ sq[j].target < Tip(j)
    /\ sq' = [sq EXCEPT ![j].target = Tip(j)]
    /\ stack' = <<Call("enter", j)>>
    /\ UNCHANGED <<posted, fetches, net, route, draining, faults, sent>>

\* HandleJettyMmio: a 64-byte direct WQE.  The provider uses it for a single
\* WQE of one WQEBB that is the only one outstanding.
DirectDoorbell(j) ==
    /\ Idle /\ DirectWqe /\ sq[j].live /\ j \notin draining
    /\ sq[j].target < Tip(j)
    /\ KindOf(j, Len(posted[j])).bb = 1
    /\ posted[j][Len(posted[j])].start = GuestCi(j)
    /\ sq' = [sq EXCEPT ![j].target = Tip(j), ![j].direct = Len(posted[j])]
    /\ stack' = <<Call("enter", j)>>
    /\ UNCHANGED <<posted, fetches, net, route, draining, faults, sent>>

\* The last link goes down or the guest deactivates the TP (SetLinkState, CTRLQ).
DeactivateTp ==
    /\ Idle /\ TpTeardown /\ route = "up"
    /\ route' = "down"
    /\ UNCHANGED <<sq, posted, fetches, net, draining, stack, faults, sent>>

\* CTRLQ removes an inactive TP only while no RMA request is pending.
RemoveTp ==
    /\ Idle /\ route = "down"
    /\ ~\E r \in net : IsRma(r)
    /\ route' = "none"
    /\ UNCHANGED <<sq, posted, fetches, net, draining, stack, faults, sent>>

----------------------------------------------------------------------------
(* ProcessSq and ProcessSqOnce *)

\* A call that finds the dispatch loop of this jetty running leaves a kick.
EnterSq(j) ==
    /\ Running("enter", j)
    /\ IF ~sq[j].live
       THEN stack' = Rest /\ UNCHANGED sq
       ELSE /\ sq' = [sq EXCEPT ![j].kick = TRUE]
            /\ stack' = IF Within("loop", j) THEN Rest
                        ELSE <<Call("loop", j)>> \o Rest
    /\ UNCHANGED <<posted, fetches, net, route, draining, faults, sent>>

LeaveSq(j) ==
    /\ Running("loop", j) /\ ~sq[j].kick
    /\ stack' = Rest
    /\ UNCHANGED <<sq, posted, fetches, net, route, draining, faults, sent>>

MutBlocked(s) == s.fetching # "no" \/ s.failed \/ Len(s.prepared) >= WriteWindow
Blocked(s) == \/ s.fetching # "no" \/ s.ordered \/ s.failed
              \/ Len(s.prepared) >= WriteWindow

MutDepthExceeded(s) == FALSE
DepthExceeded(s) == s.target - s.consumer > Depth

\* Only a pending direct WQE that is the last one submitted is used.
UsesDirect(s) == s.direct # 0 /\ s.issue + 1 = s.target

ProcessSqOnce(j) ==
    /\ Running("loop", j) /\ sq[j].kick
    /\ LET s == [sq[j] EXCEPT !.kick = FALSE] IN
       \/ /\ j \in draining
          /\ sq' = [sq EXCEPT ![j] = s]
          /\ stack' = <<Call("maybe", j)>> \o stack
       \/ /\ j \notin draining
          /\ Blocked(s) \/ s.issue = s.target \/ DepthExceeded(s)
          /\ sq' = [sq EXCEPT ![j] = IF ~Blocked(s) /\ s.issue = s.target
                                     THEN [s EXCEPT !.direct = 0] ELSE s]
          /\ UNCHANGED stack
       \/ /\ j \notin draining
          /\ ~Blocked(s) /\ s.issue # s.target /\ ~DepthExceeded(s)
          /\ IF UsesDirect(s)
             THEN /\ sq' = [sq EXCEPT ![j] =
                               [s EXCEPT !.busy = TRUE, !.fetching = "sync",
                                         !.direct = 0]]
                  /\ stack' = <<CallWith("handle", j, s.direct)>> \o stack
             ELSE /\ sq' = [sq EXCEPT ![j] =
                       [s EXCEPT !.nextFetch = IF @ < s.issue THEN s.issue ELSE @]]
                  /\ stack' = <<Call("fill", j)>> \o stack
    /\ UNCHANGED <<posted, fetches, net, route, draining, faults, sent>>

----------------------------------------------------------------------------
(* FillSqCache *)

Smallest(S) == CHOOSE n \in S : \A m \in S : n <= m
Available(s) == s.target - s.nextFetch
Room(s) == Prefetch - Cardinality(s.cache)
HeadCached(s) == \E c \in s.cache : c.at = s.issue

CanFetch(j) ==
    LET s == sq[j] IN
    /\ ~s.failed
    /\ Cardinality({f \in fetches : f.j = j}) < MaxFetch
    /\ Room(s) > 0
    /\ Available(s) \in 1..Depth
    /\ ~(Room(s) < Burst /\ Available(s) >= Burst /\ HeadCached(s))

FetchSize(s) == Smallest({Available(s), Burst, Depth - (s.nextFetch % Depth), Room(s)})

FillSqCache(j) ==
    /\ Running("fill", j)
    /\ IF CanFetch(j)
       THEN LET s == sq[j] n == FetchSize(s) IN
            /\ sq' = [sq EXCEPT ![j].nextFetch = @ + n, ![j].busy = TRUE,
                        ![j].cache = @ \cup {[at |-> s.nextFetch + i, w |-> 0] :
                                                i \in 0..(n - 1)}]
            /\ fetches' = fetches \cup {[j |-> j, gen |-> s.gen,
                                         start |-> s.nextFetch, count |-> n]}
            /\ UNCHANGED stack
       ELSE /\ stack' = <<Call("decode", j)>> \o Rest
            /\ UNCHANGED <<sq, fetches>>
    /\ UNCHANGED <<posted, net, route, draining, faults, sent>>

MutAfterFetch(j, failed) == IF failed THEN <<>> ELSE <<Call("enter", j)>>
AfterFetch(j, failed) ==
    IF failed THEN <<Call("maybe", j)>> ELSE <<Call("maybe", j), Call("enter", j)>>

\* The prefetch DMA ends: its entries are filled, or the SQ stops.
Fetched(f, ok) ==
    /\ Idle /\ f \in fetches
    /\ Outcome(ok)
    /\ fetches' = fetches \ {f}
    /\ LET s == sq[f.j]
           failed == s.failed \/ ~ok
           filled == {IF c.at \in f.start..(f.start + f.count - 1)
                      THEN [c EXCEPT !.w = InRing(f.j, c.at)] ELSE c : c \in s.cache}
       IN /\ sq' = [sq EXCEPT ![f.j] =
                      [s EXCEPT !.failed = failed,
                                !.cache = IF failed THEN @ ELSE filled,
                                !.busy = Occupied(s, \E g \in fetches' : g.j = f.j)]]
          /\ stack' = AfterFetch(f.j, failed)
    /\ UNCHANGED <<posted, net, route, draining, sent>>

\* The rest of ProcessSqOnce: decode the cached head and take the WQE once all
\* its WQEBBs have arrived; a WQE larger than the cache is read separately.
DecodeHead(j) ==
    /\ Running("decode", j)
    /\ LET s == sq[j]
           heads == {c \in s.cache : c.at = s.issue /\ c.w # 0}
       IN \/ /\ s.failed \/ heads = {}
             /\ stack' = Rest /\ UNCHANGED sq
          \/ /\ ~s.failed
             /\ \E c \in heads :
                LET bb == KindOf(j, c.w).bb
                    whole == \A i \in 1..(bb - 1) :
                                \E d \in s.cache : d.at = s.issue + i /\ d.w # 0
                    short == KindOf(j, c.w).op = "TORN" \/ bb > s.target - s.issue
                IN \/ /\ short
                      /\ sq' = [sq EXCEPT ![j].failed = TRUE]
                      /\ stack' = Rest
                   \/ /\ ~short /\ bb <= Prefetch /\ ~whole
                      /\ stack' = Rest /\ UNCHANGED sq
                   \/ /\ ~short /\ bb <= Prefetch /\ whole
                      /\ sq' = [sq EXCEPT ![j].fetching = "sync", ![j].busy = TRUE]
                      /\ stack' = <<CallWith("handle", j, c.w)>> \o Rest
                   \/ /\ ~short /\ bb > Prefetch
                      /\ sq' = [sq EXCEPT ![j].fetching = "cont", ![j].busy = TRUE,
                                          ![j].cur = c.w]
                      /\ stack' = Rest
    /\ UNCHANGED <<posted, fetches, net, route, draining, faults, sent>>

\* The continuation read of a large WQE ends (ContinueSqWqe).
ContinueSqWqe(j, ok) ==
    /\ Idle /\ sq[j].fetching = "cont"
    /\ Outcome(ok)
    /\ sq' = [sq EXCEPT ![j].failed = @ \/ ~ok,
                        ![j].fetching = "sync", ![j].cur = 0]
    /\ stack' = IF ok THEN <<CallWith("handle", j, sq[j].cur)>>
                ELSE <<Call("release", j), Call("maybe", j)>>
    /\ UNCHANGED <<posted, fetches, net, route, draining, sent>>

----------------------------------------------------------------------------
(* ReserveSq, ReleaseSqFetch, CompleteSq *)

LastIndex(s, bb) == (s.issue + bb - 1) % Depth

MutNextIssue(s, bb) == s.issue + 1
NextIssue(s, bb) == s.issue + bb

ReserveSq(j, s, w) ==
    LET k == KindOf(j, w) IN
    [s EXCEPT !.completions = Append(@, [w |-> w, index |-> LastIndex(s, k.bb),
                                         bb |-> k.bb, ready |-> FALSE,
                                         pub |-> "no"]),
              !.cache = {c \in @ : c.at \notin s.issue..(s.issue + k.bb - 1)},
              !.issue = NextIssue(s, k.bb),
              !.ordered = k.ordered]

\* The network takes a frame; WRITE and READ wait for a reply (pending_rma_).
NewRequest(j, w, index) ==
    [j |-> j, gen |-> sq[j].gen, w |-> w, index |-> index,
     op |-> KindOf(j, w).op, stage |-> "sending"]
SendFrame(j, w, index) ==
    /\ net' = net \cup {NewRequest(j, w, index)}
    /\ sent' = [sent EXCEPT ![j] = Append(@, w)]

ReleaseSqFetch(j) ==
    /\ Running("release", j) \/ Running("resume", j)
    /\ sq' = [sq EXCEPT ![j].fetching = "no",
                 ![j].busy = Fetching(j) \/ sq[j].completions # <<>>]
    /\ stack' = (IF Head(stack).op = "resume"
                 THEN <<Call("maybe", j), Call("enter", j)>>
                 ELSE <<Call("maybe", j)>>) \o Rest
    /\ UNCHANGED <<posted, fetches, net, route, draining, faults, sent>>

\* The unretired entry with this ring index, if it still awaits completion.
Completing(s, index, bb) ==
    LET found == {k \in DOMAIN s.completions : s.completions[k].index = index} IN
    {k \in found : /\ \A m \in found : k <= m
                   /\ ~s.completions[k].ready /\ s.completions[k].bb = bb}
\* CompleteSq on the state s of a jetty, and the call of RetireSq it makes.
CompleteSq(s, index, bb) ==
    [s EXCEPT !.completions =
        [k \in DOMAIN @ |-> IF k \in Completing(s, index, bb)
                            THEN [@[k] EXCEPT !.ready = TRUE] ELSE @[k]]]
RetireCall(j, s, index, bb) ==
    IF Completing(s, index, bb) = {} THEN <<>> ELSE <<Call("retire", j)>>

----------------------------------------------------------------------------
(* HandleSqWqe *)

RmaInFlight == Cardinality({r \in net : IsRma(r)})

\* Not before the payload of an earlier WRITE, not before older requests when
\* ordered, and not beyond the READ window of the device.
MutWaits(j, w) ==
    \/ KindOf(j, w).ordered /\ sq[j].completions # <<>>
    \/ KindOf(j, w).op = "READ" /\ ReadWindow # 0 /\ RmaInFlight >= ReadWindow
Waits(j, w) ==
    \/ sq[j].prepared # <<>> /\ KindOf(j, w).op # "WRITE"
    \/ KindOf(j, w).ordered /\ sq[j].completions # <<>>
    \/ KindOf(j, w).op = "READ" /\ ReadWindow # 0 /\ RmaInFlight >= ReadWindow

OwnerValid(j, w) ==
    (posted[j][w].start \div Depth) % 2 = (sq[j].issue \div Depth) % 2
HeaderValid(j, w) == OwnerValid(j, w) /\ KindOf(j, w).op \notin {"BAD", "TORN"}

\* fail(): the SQ stops; nothing is completed for the rejected WQE.
HandleFails(j) ==
    /\ Running("handle", j)
    /\ LET w == Head(stack).w IN
       /\ ~sq[j].failed
       /\ \/ ~HeaderValid(j, w)
          \/ ~Waits(j, w) /\ (route # "up" \/ KindOf(j, w).op = "EMPTY")
    /\ sq' = [sq EXCEPT ![j].failed = TRUE]
    /\ stack' = <<Call("release", j), Call("maybe", j)>> \o Rest
    /\ UNCHANGED <<posted, fetches, net, route, draining, faults, sent>>

\* The WQE is given back: it is decoded again when the queue is next served.
HandleWaits(j) ==
    /\ Running("handle", j)
    /\ sq[j].failed \/ (HeaderValid(j, Head(stack).w) /\ Waits(j, Head(stack).w))
    /\ stack' = <<Call("release", j)>> \o Rest
    /\ UNCHANGED <<sq, posted, fetches, net, route, draining, faults, sent>>

HandleIssues(j) ==
    /\ Running("handle", j)
    /\ LET w == Head(stack).w
           op == KindOf(j, w).op
           bb == KindOf(j, w).bb
           index == LastIndex(sq[j], bb)
           reserved == ReserveSq(j, sq[j], w)
       IN /\ ~sq[j].failed /\ HeaderValid(j, w) /\ ~Waits(j, w) /\ route = "up"
          /\ \/ /\ op \in {"READ", "INLINE"}
                /\ sq' = [sq EXCEPT ![j] = reserved]
                /\ SendFrame(j, w, index)
                /\ stack' = <<Call("resume", j)>> \o Rest
             \/ /\ op = "LONG"
                /\ sq' = [sq EXCEPT ![j] = CompleteSq(reserved, index, bb)]
                /\ stack' = RetireCall(j, reserved, index, bb)
                              \o <<Call("resume", j)>> \o Rest
                /\ UNCHANGED <<net, sent>>
             \/ /\ op = "WRITE"
                /\ sq' = [sq EXCEPT ![j] =
                     [reserved EXCEPT !.prepared =
                        Append(@, [w |-> w, index |-> index, state |-> "reading"])]]
                /\ stack' = <<Call("resume", j)>> \o Rest
                /\ UNCHANGED <<net, sent>>
             \/ /\ op = "SEND"
                /\ sq' = [sq EXCEPT ![j].fetching = "payload", ![j].cur = w]
                /\ stack' = Rest
                /\ UNCHANGED <<net, sent>>
    /\ UNCHANGED <<posted, fetches, route, draining, faults>>

\* The payload read of a SEND ends; SubmitSqPayload.  Without a TP route it
\* returns without releasing the queue.
SendPayloadRead(j, ok) ==
    /\ Idle /\ sq[j].fetching = "payload"
    /\ Outcome(ok)
    /\ LET s == [sq[j] EXCEPT !.fetching = "sync", !.cur = 0]
           w == sq[j].cur
       IN \/ /\ ~ok
             /\ sq' = [sq EXCEPT ![j] = [s EXCEPT !.failed = TRUE]]
             /\ stack' = <<Call("release", j), Call("maybe", j)>>
             /\ UNCHANGED <<net, sent>>
          \/ /\ ok /\ s.failed
             /\ sq' = [sq EXCEPT ![j] = s]
             /\ stack' = <<Call("release", j)>>
             /\ UNCHANGED <<net, sent>>
          \/ /\ ok /\ ~s.failed /\ route = "none"
             /\ sq' = [sq EXCEPT ![j] = s]
             /\ UNCHANGED <<net, sent, stack>>
          \/ /\ ok /\ ~s.failed /\ route # "none"
             /\ sq' = [sq EXCEPT ![j] = ReserveSq(j, s, w)]
             /\ SendFrame(j, w, LastIndex(s, KindOf(j, w).bb))
             /\ stack' = <<Call("resume", j)>>
    /\ UNCHANGED <<posted, fetches, route, draining>>

\* The payload read of a prepared WRITE ends, in any order.
WritePayloadRead(j, k, ok) ==
    /\ Idle /\ k \in DOMAIN sq[j].prepared /\ sq[j].prepared[k].state = "reading"
    /\ Outcome(ok)
    /\ sq' = [sq EXCEPT ![j].prepared[k].state = IF ok THEN "ready" ELSE "failed"]
    /\ stack' = <<Call("drain", j)>>
    /\ UNCHANGED <<posted, fetches, net, route, draining, sent>>

Drainable(s) == {k \in DOMAIN s.prepared : k = 1 /\ s.prepared[k].state # "reading"}

\* Frames of prepared WRITEs leave in SQ order.
DrainPreparedWrites(j) ==
    /\ Running("drain", j)
    /\ \/ \E k \in Drainable(sq[j]) :
             LET p == sq[j].prepared[k]
                 bb == KindOf(j, p.w).bb
                 s == [sq[j] EXCEPT !.prepared = RemoveAt(@, k)]
             IN IF p.state = "failed"
                THEN /\ sq' = [sq EXCEPT ![j] = CompleteSq(s, p.index, bb)]
                     /\ stack' = RetireCall(j, s, p.index, bb) \o stack
                     /\ UNCHANGED <<net, sent>>
                ELSE /\ sq' = [sq EXCEPT ![j] = s]
                     /\ UNCHANGED stack
                     /\ IF route = "none" THEN UNCHANGED <<net, sent>>
                        ELSE SendFrame(j, p.w, p.index)
       \/ /\ Drainable(sq[j]) = {}
          /\ stack' = <<Call("enter", j), Call("maybe", j)>> \o Rest
          /\ UNCHANGED <<sq, net, sent>>
    /\ UNCHANGED <<posted, fetches, route, draining, faults>>

----------------------------------------------------------------------------
(* The network and the peer *)

\* CompleteSq for a request that leaves the network, then the calls after it.
Answered(r, after) ==
    LET bb == KindOf(r.j, r.w).bb IN
    /\ net' = net \ {r}
    /\ sq' = [sq EXCEPT ![r.j] = CompleteSq(@, r.index, bb)]
    /\ stack' = RetireCall(r.j, sq[r.j], r.index, bb) \o after

\* Send callback: the frame is on the wire, which completes a SEND, or it was
\* refused.
FrameSent(r) ==
    /\ Idle /\ r \in net /\ r.stage = "sending"
    /\ IF r.op = "SEND" THEN Answered(r, <<>>)
       ELSE /\ net' = (net \ {r}) \cup {[r EXCEPT !.stage = "sent"]}
            /\ UNCHANGED <<sq, stack>>
    /\ UNCHANGED <<posted, fetches, route, draining, faults, sent>>

FrameRefused(r) ==
    /\ Idle /\ r \in net /\ r.stage = "sending" /\ Fault
    /\ Answered(r, <<Call("maybe", r.j)>>)
    /\ UNCHANGED <<posted, fetches, route, draining, sent>>

ReceiveWriteAck(r) ==
    /\ Idle /\ r \in net /\ r.stage = "sent" /\ r.op # "READ"
    /\ Answered(r, <<>>)
    /\ UNCHANGED <<posted, fetches, route, draining, faults, sent>>

\* An RmaError reply.
ReceiveRmaError(r) ==
    /\ Idle /\ r \in net /\ r.stage = "sent" /\ Fault
    /\ Answered(r, <<>>)
    /\ UNCHANGED <<posted, fetches, route, draining, sent>>

\* The READ data arrives and is written to the guest.
ReceiveReadResponse(r) ==
    /\ Idle /\ r \in net /\ r.stage = "sent" /\ r.op = "READ"
    /\ net' = (net \ {r}) \cup {[r EXCEPT !.stage = "dma"]}
    /\ UNCHANGED <<sq, posted, fetches, route, draining, stack, faults, sent>>

\* The response DMA ends, with or without error.
ReadResponseWritten(r) ==
    /\ Idle /\ r \in net /\ r.stage = "dma"
    /\ Answered(r, <<Call("maybe", r.j)>>)
    /\ UNCHANGED <<posted, fetches, route, draining, faults, sent>>

----------------------------------------------------------------------------
(* RetireSq and RetireSqPipelined *)

PublicationFailed(s) == \E k \in DOMAIN s.completions : s.completions[k].pub = "failed"
InPublication(s) == {k \in DOMAIN s.completions : s.completions[k].pub \in {"issued", "landed"}}

\* The entry whose CQE is issued next: the first one that has none.  The serial
\* engine publishes one CQE at a time; the pipelined one stops after a failure.
NextEntry(s) ==
    {k \in DOMAIN s.completions :
        /\ s.completions[k].ready /\ s.completions[k].pub = "no"
        /\ \A m \in 1..(k - 1) : s.completions[m].pub # "no"}
Publishable(s) ==
    IF Pipelined
    THEN IF PublicationFailed(s) \/ Cardinality(InPublication(s)) >= Slots
         THEN {} ELSE NextEntry(s)
    ELSE {k \in NextEntry(s) : k = 1}

\* The CQE of an entry is acknowledged; then the entries leave in order.
Finished(s, k) == [s EXCEPT !.completions[k].pub = "done"]
FrontDone(s) == s.completions # <<>> /\ s.completions[1].pub = "done"
MutStillOrdered(s) == s.ordered
StillOrdered(s) == s.ordered /\ s.completions # <<>>
MutAfterFinish(j) == <<Call("retire", j)>>
AfterFinish(j) == <<Call("retire", j), Call("maybe", j), Call("enter", j)>>

RetireSq(j) ==
    /\ Running("retire", j)
    /\ IF ~sq[j].live \/ Within("retire", j) \/ Publishable(sq[j]) = {}
       THEN stack' = Rest /\ UNCHANGED sq
       ELSE \E k \in Publishable(sq[j]) :
            IF KindOf(j, sq[j].completions[k].w).signaled
            THEN /\ sq' = [sq EXCEPT ![j].completions[k].pub = "issued"]
                 /\ UNCHANGED stack
            ELSE /\ sq' = [sq EXCEPT ![j] = Finished(@, k)]
                 /\ stack' = <<Call("pop", j)>> \o stack
    /\ UNCHANGED <<posted, fetches, net, route, draining, faults, sent>>

\* Only the acknowledged prefix retires its WQEBB slots, one entry at a time.
PopRetired(j) ==
    /\ Running("pop", j)
    /\ LET s == sq[j] IN
       \/ /\ FrontDone(s)
          /\ sq' = [sq EXCEPT ![j].completions = Tail(@),
                              ![j].consumer = @ + s.completions[1].bb]
          /\ UNCHANGED stack
       \/ /\ ~FrontDone(s)
          /\ sq' = [sq EXCEPT ![j].ordered = StillOrdered(s),
                              ![j].busy = Occupied(s, Fetching(j))]
          /\ stack' = AfterFinish(j) \o Rest
    /\ UNCHANGED <<posted, fetches, net, route, draining, faults, sent>>

\* WriteCqe, as JfcCompletion specifies it: the CQE becomes visible, then its
\* callback runs; or it fails.  Pipelined CQEs may finish in any order.
CqeLands(j, k) ==
    /\ Idle /\ k \in DOMAIN sq[j].completions /\ sq[j].completions[k].pub = "issued"
    /\ sq' = [sq EXCEPT ![j].completions[k].pub = "landed"]
    /\ UNCHANGED <<posted, fetches, net, route, draining, stack, faults, sent>>

CqeWritten(j, k) ==
    /\ Idle /\ k \in DOMAIN sq[j].completions /\ sq[j].completions[k].pub = "landed"
    /\ sq' = [sq EXCEPT ![j] = Finished(@, k)]
    /\ stack' = <<Call("pop", j)>>
    /\ UNCHANGED <<posted, fetches, net, route, draining, faults, sent>>

\* The entry keeps its SQ slots, and the pipelined engine stops the queue.
CqeFails(j, k) ==
    /\ Idle /\ k \in DOMAIN sq[j].completions /\ sq[j].completions[k].pub = "issued"
    /\ Fault
    /\ sq' = [sq EXCEPT ![j].completions[k].pub = "failed",
                        ![j].failed = @ \/ Pipelined]
    /\ UNCHANGED <<posted, fetches, net, route, draining, stack, sent>>

----------------------------------------------------------------------------
HandlerStep ==
    \E j \in Jettys :
        \/ MaybeCompleteQueueDestroy(j) \/ EnterSq(j) \/ LeaveSq(j)
        \/ ProcessSqOnce(j) \/ FillSqCache(j) \/ DecodeHead(j)
        \/ HandleFails(j) \/ HandleWaits(j) \/ HandleIssues(j)
        \/ ReleaseSqFetch(j) \/ DrainPreparedWrites(j) \/ RetireSq(j)
        \/ PopRetired(j)

\* Callbacks of DMAs and sends, and replies of the peer.
Answer ==
    \/ \E f \in fetches : Fetched(f, TRUE)
    \/ \E j \in Jettys : ContinueSqWqe(j, TRUE) \/ SendPayloadRead(j, TRUE)
    \/ \E j \in Jettys, k \in Numbers :
          WritePayloadRead(j, k, TRUE) \/ CqeLands(j, k) \/ CqeWritten(j, k)
    \/ \E r \in net : \/ FrameSent(r) \/ ReceiveWriteAck(r)
                      \/ ReceiveReadResponse(r) \/ ReadResponseWritten(r)

Failure ==
    \/ \E f \in fetches : Fetched(f, FALSE)
    \/ \E j \in Jettys : ContinueSqWqe(j, FALSE) \/ SendPayloadRead(j, FALSE)
    \/ \E j \in Jettys, k \in Numbers : WritePayloadRead(j, k, FALSE) \/ CqeFails(j, k)
    \/ \E r \in net : FrameRefused(r) \/ ReceiveRmaError(r)
    \/ DeactivateTp \/ RemoveTp

GuestStep ==
    \E j \in Jettys :
        \/ CreateJetty(j) \/ DestroyJetty(j) \/ Doorbell(j) \/ DirectDoorbell(j)
        \/ \E kind \in Kinds : Post(j, kind)

Next == HandlerStep \/ Answer \/ Failure \/ GuestStep

Spec == Init /\ [][Next]_vars

\* A handler runs to its end, and the device loop delivers every DMA callback,
\* send callback and reply; the guest need not do anything.
FairSpec == Spec /\ WF_vars(HandlerStep) /\ WF_vars(Answer)

----------------------------------------------------------------------------
(* Properties *)

\* Every variable keeps its type: jetty contexts, pipelines, DMAs in flight and
\* the calls of the running handler.
TypeOK ==
    /\ sq \in [Jettys -> Pipe]
    /\ posted \in [Jettys -> Seq(Wqe)]
    /\ fetches \subseteq Fetch
    /\ net \subseteq Request
    /\ route \in {"up", "down", "none"}
    /\ draining \subseteq Jettys /\ \A d, e \in draining : d = e
    /\ stack \in Seq(Frame)
    /\ faults \in 0..MaxFaults
    /\ sent \in [Jettys -> Seq(Numbers)]

\* The WQEs issued are the ones the guest submitted, each once and in SQ order,
\* and the unretired window lies between the consumer and the issue index.
ExecutesPostedWqes ==
    \A j \in Jettys :
        LET c == sq[j].completions IN
        /\ \A k \in DOMAIN c : c[k].index = (EndOf(j, c[k].w) - 1) % Depth
        /\ \A k \in 1..(Len(c) - 1) : c[k + 1].w = c[k].w + 1
        /\ c # <<>> => /\ sq[j].consumer = posted[j][c[1].w].start
                       /\ sq[j].issue = EndOf(j, c[Len(c)].w)
        /\ sq[j].issue <= sq[j].target

\* "No WQEBB slot can be reused before retirement" (CompleteSq): a ring index
\* names one unretired entry, and everything still in flight for a jetty finds
\* its own entry there, waiting for it.
CompletionIndexUnique ==
    \A j \in Jettys :
        LET c == sq[j].completions
            Awaited(w, index) == \E k \in DOMAIN c :
                c[k].w = w /\ c[k].index = index /\ ~c[k].ready
        IN /\ \A k, m \in DOMAIN c : c[k].index = c[m].index => k = m
           /\ \A r \in net : r.j = j => Awaited(r.w, r.index)
           /\ \A k \in DOMAIN sq[j].prepared :
                 Awaited(sq[j].prepared[k].w, sq[j].prepared[k].index)

\* Frames leave in SQ order: no READ, SEND or inline WRITE overtakes a WRITE
\* whose payload is still being read, and WRITEs do not overtake each other.
FramesInOrder ==
    \A j \in Jettys : \A a, b \in DOMAIN sent[j] : a < b => sent[j][a] < sent[j][b]

\* A strongly ordered or fenced WQE is alone between issue and retirement.
OrderedAlone ==
    \A j \in Jettys : \A k \in DOMAIN sq[j].completions :
        KindOf(j, sq[j].completions[k].w).ordered => Len(sq[j].completions) = 1

\* A deferred jetty destroy is never forgotten: when the device is idle, what
\* it waits for is still in flight.
NoLostDestroy == Idle => \A j \in draining : ResourceQueueBusy(j)

\* A submitted WQE eventually retires, unless its jetty is destroyed.
SubmittedWqesRetire ==
    \A j \in Jettys, w \in Numbers :
        sq[j].live /\ Len(posted[j]) >= w /\ sq[j].target > posted[j][w].start
        ~> ~sq[j].live \/ Len(posted[j]) < w \/ Retired(j, w)

\* A deferred destroy eventually completes.
JettyDestroyCompletes == draining # {} ~> draining = {}
=============================================================================
